------------------------- MODULE SercdParserProofs -------------------------
(***************************************************************************)
(* What TLAPS proves of the parser and of the COM port commands, for all   *)
(* bytes of data, parameters, settings of the device and numbers of items  *)
(* and clients.  ServerInv holds what the server keeps, tells and sends;   *)
(* Progress, of which the theorems on items follow, says after every byte  *)
(* how far the parser is in the item.                                      *)
(*                                                                         *)
(* The escapes of a parameter and of a reply are a fold over a sequence of *)
(* any length: what it returns is proved by induction over the place,      *)
(* which is stated of a set of pairs so that the provers can instantiate   *)
(* it.                                                                     *)
(***************************************************************************)
EXTENDS SercdParser, FiniteSetTheorems, FunctionTheorems,
        SequenceTheorems, WellFoundedInduction, TLAPS

\* While a command is collected it is shorter than its length.
Collecting ==
    IACEscape = "Command" =>
        /\ Len(IACCommand) >= 2
        /\ IACCommand[2] # SB => Len(IACCommand) = 2
        /\ IACCommand[2] = SB /\ Len(IACCommand) >= 4 /\ IACCommand[4] # 0
               => Len(IACCommand) < Length(IACCommand)

\* Of the lines that it is told of and masks in, the client was told the state
\* that the server remembers.
ToldIsRemembered ==
    /\ DOMAIN told[107] \subseteq Lines \cap Masked(ModemStateMask)
    /\ \A l \in DOMAIN told[107] : told[107][l] = (l \in ModemState)

\* The parser is between two items, the next of which is not taken for a NUL after CR.
AtRest == IACEscape = "Normal" /\ (Last = CR => BINARY \in is_do)

\* The item is not read yet, or it is all read and the device got this of it.
Begun == pending = current.bytes /\ AtRest /\ devGot = << >>
Ended(got) == pending = << >> /\ AtRest /\ devGot = got

\* What is read of a byte of data.
InData(b) ==
    /\ current = DataItem(b)
    /\ \/ Begun \/ Ended(<<b>>)
       \/ /\ b = IAC /\ pending = <<IAC>> /\ IACEscape = "Received" /\ devGot = << >>
       \/ /\ b = CR /\ BINARY \notin is_do /\ pending = <<0>> /\ IACEscape = "Normal"
          /\ Last = CR /\ devGot = <<CR>>

\* What is read of an option.
InOption(verb, o) ==
    /\ current = OptionItem(verb, o)
    /\ \/ Begun \/ Ended(<< >>)
       \/ pending = <<verb, o>> /\ IACEscape = "Received" /\ devGot = << >>
       \/ /\ pending = <<o>> /\ IACEscape = "Command" /\ IACCommand = <<IAC, verb>>
          /\ devGot = << >>

\* The first k bytes of a command are read, and it is not complete.
Reads(k) ==
    /\ IACEscape = IF k = 1 THEN "Received" ELSE "Command"
    /\ k > 1 => IACCommand = SubSeq(current.bytes, 1, k) /\ IACSigEscape = "Normal"
    /\ pending = SubSeq(current.bytes, k + 1, Len(current.bytes))
    /\ devGot = << >> /\ COMPORT \in is_do

\* The length of a command, whether its parameter holds a byte that is escaped, and
\* that the client was told the value it asked for, if the port can take it.
FixedLength(cmd) == IF cmd = 1 THEN 10 ELSE IF cmd \in {8, 9} THEN 6 ELSE 7
IsEscaped(param) == \E i \in 1..Len(param) : param[i] = IAC
Granted(cmd, param) ==
    param \in Supported(cmd) => told[cmd] = IF cmd = 1 THEN <<param>> ELSE param

\* What is read of a command of fixed length: if its parameter is escaped, it is
\* carried out before its last byte.
InCommand(cmd, param) ==
    /\ current = CommandItem(cmd, param)
    /\ \/ Begun /\ COMPORT \in is_do
       \/ \E k \in 1..FixedLength(cmd) - 1 : Reads(k)
       \/ /\ IsEscaped(param) /\ pending = <<SE>> /\ IACEscape = "Normal" /\ Last = IAC
          /\ devGot = << >> /\ Granted(cmd, param)
       \/ Ended(IF IsEscaped(param) THEN <<SE>> ELSE << >>) /\ Granted(cmd, param)

\* s is escaped and closed by IAC SE: starts are the places of s that are not the
\* second of a pair.
Closes(s) ==
    \E starts \in SUBSET (1..Len(s)) :
        /\ 1 \in starts
        /\ \A i \in starts :
              \/ i = Len(s) - 1 /\ s[i] = IAC /\ s[i + 1] = SE
              \/ i < Len(s) - 1 /\ s[i] = IAC /\ s[i + 1] = IAC /\ i + 2 \in starts
              \/ i < Len(s) - 1 /\ s[i] # IAC /\ i + 1 \in starts

\* What is read of a signature.
InSignature(param) ==
    /\ current = CommandItem(0, param)
    /\ \/ Begun /\ COMPORT \in is_do
       \/ Ended(<< >>)
       \/ \E k \in 1..3 : Reads(k)
       \/ /\ IACEscape = "Command" /\ Len(IACCommand) >= 4
          /\ IACCommand[2] = SB /\ IACCommand[4] = 0 /\ devGot = << >>
          /\ \/ IACSigEscape = "Normal" /\ Closes(pending)
             \/ /\ IACSigEscape = "Received" /\ pending # << >>
                /\ \/ pending = <<SE>>
                   \/ Head(pending) = IAC /\ Closes(Tail(pending))

\* How far the parser is in the item of an aligned client.
Progress ==
    aligned =>
        \/ current = NoItem /\ Ended(<< >>)
        \/ \E b \in Data : InData(b)
        \/ \E verb \in {WILL, WONT, DO, DONT}, o \in {BINARY, COMPORT} : InOption(verb, o)
        \/ \E cmd \in Commands \ {0} : \E param \in Params[cmd] : InCommand(cmd, param)
        \/ \E param \in Params[0] : InSignature(param)

-----------------------------------------------------------------------------
(* Induction, and what FlattenSeq makes of a sequence of sequences          *)

\* A set of numbers that is not empty has a least one.
LEMMA LeastNumber ==
  ASSUME NEW T, T \subseteq Nat, T # {}
  PROVE  \E x \in T : \A y \in T : x <= y
<1>1. IsWellFoundedOn(OpToRel(<, Nat), Nat)
  BY NatLessThanWellFounded
<1> DEFINE R == OpToRel(<, Nat)
<1>2. PICK x \in T : \A y \in T : ~(<<y, x>> \in R)
  <2> HIDE DEF R
  <2> QED
    BY <1>1, WFMin DEF R
<1>3. \A y \in T : ~(y < x)
  BY <1>2 DEF OpToRel
<1> QED
  BY ONLY T \subseteq Nat, <1>3

\* A set with 0 and the successors of its elements has every number.
LEMMA NumberInduction ==
  ASSUME NEW S, 0 \in S, \A n \in Nat : n \in S => n + 1 \in S
  PROVE  Nat \subseteq S
<1> SUFFICES ASSUME NEW k \in Nat \ S PROVE FALSE
  OBVIOUS
<1> DEFINE T == Nat \ S
<1>1. PICK x \in T : \A y \in T : x <= y
  <2>1. T \subseteq Nat /\ T # {}
    OBVIOUS
  <2> HIDE DEF T
  <2> QED
    BY <2>1, LeastNumber
<1>2. x # 0 /\ x - 1 \in Nat
  BY DEF T
<1>3. x - 1 \in S
  BY <1>1, <1>2
<1>4. x - 1 + 1 = x
  BY <1>1
<1> QED
  BY <1>1, <1>2, <1>3, <1>4

\* f is what FlattenSeq has of the first sequences of seqs, up to the n-th.
Flattens(seqs, f, n) ==
    f = [i \in 1..n |-> IF i = 1 THEN seqs[i] ELSE f[i - 1] \o seqs[i]]

\* The recursive function of FlattenSeq exists.
LEMMA FlattenExists ==
  ASSUME NEW seqs, NEW n \in Nat PROVE \E f : Flattens(seqs, f, n)
<1> DEFINE S == {k \in Nat : \E f : Flattens(seqs, f, k)}
<1>1. 0 \in S
  <2> DEFINE f == [i \in 1..0 |-> seqs[i]]
  <2>1. Flattens(seqs, f, 0)
    BY DEF Flattens
  <2> QED
    BY <2>1
<1>2. ASSUME NEW k \in Nat, k \in S PROVE k + 1 \in S
  <2>1. PICK f : Flattens(seqs, f, k)
    BY <1>2
  <2> DEFINE g == [i \in 1..(k + 1) |-> IF i = 1 THEN seqs[i] ELSE f[i - 1] \o seqs[i]]
  <2>2. \A i \in 1..k : g[i] = f[i]
    <3>1. \A i \in 1..k : f[i] = IF i = 1 THEN seqs[i] ELSE f[i - 1] \o seqs[i]
      <4>1. f = [i \in 1..k |-> IF i = 1 THEN seqs[i] ELSE f[i - 1] \o seqs[i]]
        BY <2>1 DEF Flattens
      <4> QED
        BY <4>1
    <3>2. \A i \in 1..k : i \in 1..(k + 1)
      OBVIOUS
    <3> QED
      BY <3>1, <3>2
  <2>3. g = [i \in 1..(k + 1) |-> IF i = 1 THEN seqs[i] ELSE g[i - 1] \o seqs[i]]
    <3>1. \A i \in 1..(k + 1) : i # 1 => i - 1 \in 1..k
      OBVIOUS
    <3> HIDE DEF g
    <3>2. g = [i \in 1..(k + 1) |-> IF i = 1 THEN seqs[i] ELSE f[i - 1] \o seqs[i]]
      BY DEF g
    <3> QED
      BY <2>2, <3>1, <3>2
  <2> HIDE DEF g
  <2>4. Flattens(seqs, g, k + 1)
    BY <2>3 DEF Flattens
  <2> QED
    BY <2>4
<1> HIDE DEF S
<1>3. n \in S
  BY <1>1, <1>2, NumberInduction
<1> QED
  BY <1>3 DEF S

\* What holds of the first sequence, and of each longer part if it holds of the one
\* before, holds of FlattenSeq.
LEMMA FlattenInduction ==
  ASSUME NEW seqs, Len(seqs) \in Nat \ {0}, NEW P,
         <<1, seqs[1]>> \in P,
         \A k \in 1..(Len(seqs) - 1) : \A s : <<k, s>> \in P => <<k + 1, s \o seqs[k + 1]>> \in P
  PROVE  <<Len(seqs), SeqExt!FlattenSeq(seqs)>> \in P
<1>1. PICK f : Flattens(seqs, f, Len(seqs)) /\ SeqExt!FlattenSeq(seqs) = f[Len(seqs)]
  <2> DEFINE F == CHOOSE f : Flattens(seqs, f, Len(seqs))
  <2>1. Flattens(seqs, F, Len(seqs))
    BY FlattenExists
  <2>2. SeqExt!FlattenSeq(seqs) = F[Len(seqs)]
    BY DEF SeqExt!FlattenSeq, Flattens
  <2> HIDE DEF F
  <2> QED
    BY <2>1, <2>2
<1>2. f = [i \in 1..Len(seqs) |-> IF i = 1 THEN seqs[i] ELSE f[i - 1] \o seqs[i]]
  BY <1>1 DEF Flattens
<1> DEFINE S == {k \in Nat : k + 1 \in 1..Len(seqs) => <<k + 1, f[k + 1]>> \in P}
<1>3. 0 \in S
  BY <1>2
<1>4. ASSUME NEW k \in Nat, k \in S PROVE k + 1 \in S
  <2>1. SUFFICES ASSUME k + 2 \in 1..Len(seqs) PROVE <<k + 2, f[k + 2]>> \in P
    OBVIOUS
  <2>2. k + 1 \in 1..(Len(seqs) - 1) /\ <<k + 1, f[k + 1]>> \in P
    BY <1>4, <2>1
  <2>3. f[k + 2] = f[k + 1] \o seqs[k + 2]
    <3>1. k + 2 # 1 /\ (k + 2) - 1 = k + 1
      OBVIOUS
    <3> QED
      BY <1>2, <2>1, <3>1
  <2>4. (k + 1) + 1 = k + 2
    OBVIOUS
  <2> QED
    BY <2>2, <2>3, <2>4
<1> HIDE DEF S
<1>5. Len(seqs) - 1 \in S
  BY <1>3, <1>4, NumberInduction
<1> QED
  BY <1>1, <1>5 DEF S

-----------------------------------------------------------------------------
(* The escapes                                                             *)

\* One sequence of bytes after another.
LEMMA ConcatFacts ==
  ASSUME NEW s \in Seq(Bytes), NEW t \in Seq(Bytes)
  PROVE  /\ s \o t \in Seq(Bytes) /\ Len(s \o t) = Len(s) + Len(t)
         /\ \A i \in 1..Len(s) : (s \o t)[i] = s[i]
         /\ \A i \in 1..Len(t) : (s \o t)[Len(s) + i] = t[i]
<1>1. /\ s \o t \in Seq(Bytes) /\ Len(s \o t) = Len(s) + Len(t)
      /\ \A i \in 1..Len(s) + Len(t) :
            (s \o t)[i] = IF i <= Len(s) THEN s[i] ELSE t[i - Len(s)]
  BY ConcatProperties
<1>2. Len(s) \in Nat /\ Len(t) \in Nat
  OBVIOUS
<1>3. \A i \in 1..Len(s) : i \in 1..Len(s) + Len(t) /\ i <= Len(s)
  BY <1>2
<1>4. \A i \in 1..Len(t) : /\ Len(s) + i \in 1..Len(s) + Len(t) /\ ~(Len(s) + i <= Len(s))
                          /\ (Len(s) + i) - Len(s) = i
  BY <1>2
<1> QED
  BY <1>1, <1>3, <1>4

\* A byte takes one or two bytes on the stream.
LEMMA EscapedFacts ==
  \A C \in Bytes : \A last :
      Escaped(C, last) \in Seq(Bytes) /\ Len(Escaped(C, last)) \in 1..2
<1> TAKE C \in Bytes
<1> TAKE last
<1>1. \/ Escaped(C, last) = <<255, 255>> \/ Escaped(C, last) = <<0, C>>
      \/ Escaped(C, last) = <<C>>
  BY DEF Escaped, IAC
<1>2. 0 \in Bytes /\ 255 \in Bytes
  BY DEF Bytes
<1>3. ASSUME NEW b \in Bytes, NEW d \in Bytes
      PROVE  /\ <<b, d>> \in Seq(Bytes) /\ Len(<<b, d>>) \in 1..2
             /\ <<b>> \in Seq(Bytes) /\ Len(<<b>>) \in 1..2
  OBVIOUS
<1>4. CASE Escaped(C, last) = <<255, 255>>
  BY ONLY <1>2, <1>3, <1>4
<1>5. CASE Escaped(C, last) = <<0, C>>
  BY ONLY C \in Bytes, <1>2, <1>3, <1>5
<1>6. CASE Escaped(C, last) = <<C>>
  BY ONLY C \in Bytes, <1>3, <1>6
<1> QED
  BY <1>1, <1>4, <1>5, <1>6

\* A reply's bytes take at most two bytes each on the stream.
LEMMA EscapedAllFacts ==
  ASSUME NEW bytes \in Seq(Bytes)
  PROVE  EscapedAll(bytes) \in Seq(Bytes) /\ Len(EscapedAll(bytes)) <= 2 * Len(bytes)
<1> DEFINE piece(i) == Escaped(bytes[i], IF i = 1 THEN LastOut ELSE bytes[i - 1])
           seqs == [i \in 1..Len(bytes) |-> piece(i)]
<1>2. \A i \in 1..Len(bytes) : seqs[i] \in Seq(Bytes) /\ Len(seqs[i]) \in 1..2
  BY EscapedFacts
<1>3. Len(seqs) = Len(bytes) /\ Len(bytes) \in Nat
  OBVIOUS
<1>4. EscapedAll(bytes) = SeqExt!FlattenSeq(seqs)
  BY DEF EscapedAll
<1> HIDE DEF seqs
<1>5. CASE Len(bytes) = 0
  <2>1. SeqExt!FlattenSeq(seqs) = seqs
    BY <1>3, <1>5 DEF SeqExt!FlattenSeq
  <2>2. seqs = << >>
    BY <1>3, <1>5 DEF seqs
  <2> QED
    BY <1>4, <1>5, <2>1, <2>2
<1>6. CASE Len(bytes) # 0
  <2> DEFINE P == {p \in Nat \X Seq(Bytes) : Len(p[2]) <= 2 * p[1]}
  <2>0. \A k, s : <<k, s>> \in P <=> k \in Nat /\ s \in Seq(Bytes) /\ Len(s) <= 2 * k
    OBVIOUS
  <2> HIDE DEF P
  <2>1. <<1, seqs[1]>> \in P
    <3>1. 1 \in 1..Len(bytes)
      BY <1>3, <1>6
    <3>2. seqs[1] \in Seq(Bytes) /\ Len(seqs[1]) \in 1..2
      BY <1>2, <3>1
    <3>3. Len(seqs[1]) <= 2 * 1
      <4>1. \A n \in 1..2 : n <= 2 * 1
        OBVIOUS
      <4> QED
        BY <3>2, <4>1
    <3> QED
      BY <2>0, <3>2, <3>3
  <2>2. ASSUME NEW k \in 1..(Len(seqs) - 1), NEW s, <<k, s>> \in P
        PROVE  <<k + 1, s \o seqs[k + 1]>> \in P
    <3>1. seqs[k + 1] \in Seq(Bytes) /\ Len(seqs[k + 1]) \in 1..2
      BY <1>2, <1>3
    <3>2. s \in Seq(Bytes) /\ Len(s) <= 2 * k
      BY <2>0, <2>2
    <3>3. s \o seqs[k + 1] \in Seq(Bytes) /\ Len(s \o seqs[k + 1]) = Len(s) + Len(seqs[k + 1])
      BY <3>1, <3>2
    <3>4. Len(s \o seqs[k + 1]) <= 2 * (k + 1) /\ k + 1 \in Nat
      <4> DEFINE a == Len(s)
                 b == Len(seqs[k + 1])
                 c == Len(s \o seqs[k + 1])
      <4>1. a \in Nat /\ a <= 2 * k /\ b \in 1..2 /\ c = a + b
        BY <3>1, <3>2, <3>3
      <4>2. k \in Nat
        OBVIOUS
      <4> HIDE DEF a, b, c
      <4>3. c <= 2 * (k + 1) /\ k + 1 \in Nat
        BY ONLY <4>1, <4>2
      <4> QED
        BY <4>3 DEF c
    <3> QED
      BY <2>0, <3>3, <3>4
  <2>3. <<Len(seqs), SeqExt!FlattenSeq(seqs)>> \in P
    BY <1>3, <1>6, <2>1, <2>2, FlattenInduction
  <2> QED
    BY <1>3, <1>4, <2>0, <2>3
<1> QED
  BY <1>5, <1>6

\* What an escaped parameter is: bytes, as many as the parameter has and one more
\* if one of them is IAC, the parameter itself if none is.
LEMMA EscapeParamFacts ==
  ASSUME NEW p \in Seq(Bytes)
  PROVE  /\ EscapeParam(p) \in Seq(Bytes)
         /\ (\A i, j \in 1..Len(p) : p[i] = IAC /\ p[j] = IAC => i = j) =>
               Len(EscapeParam(p)) = Len(p) + IF IsEscaped(p) THEN 1 ELSE 0
         /\ ~IsEscaped(p) => EscapeParam(p) = p
         /\ Len(p) > 0 => Len(EscapeParam(p)) > 0 /\ EscapeParam(p)[1] = p[1]
<1> DEFINE seqs == [i \in 1..Len(p) |-> IF p[i] = IAC THEN <<IAC, IAC>> ELSE <<p[i]>>]
           One == \A i, j \in 1..Len(p) : p[i] = IAC /\ p[j] = IAC => i = j
           Extra(k) == IF \E i \in 1..k : p[i] = IAC THEN 1 ELSE 0
<1>1. Len(seqs) = Len(p) /\ Len(p) \in Nat
  OBVIOUS
<1>2. EscapeParam(p) = SeqExt!FlattenSeq(seqs)
  BY DEF EscapeParam
<1>3. ASSUME NEW i \in 1..Len(p)
      PROVE  /\ seqs[i] \in Seq(Bytes) /\ seqs[i][1] = p[i]
             /\ Len(seqs[i]) = IF p[i] = IAC THEN 2 ELSE 1
             /\ p[i] # IAC => seqs[i] = <<p[i]>>
  <2>1. IAC \in Bytes
    BY DEF IAC, Bytes
  <2>2. CASE p[i] = IAC
    <3>1. seqs[i] = <<IAC, IAC>>
      BY <2>2
    <3>2. /\ <<IAC, IAC>> \in Seq(Bytes) /\ <<IAC, IAC>>[1] = IAC
          /\ Len(<<IAC, IAC>>) = 2
      BY <2>1
    <3> QED
      BY ONLY <2>2, <3>1, <3>2
  <2>3. CASE p[i] # IAC
    <3>1. seqs[i] = <<p[i]>>
      BY <2>3
    <3>2. /\ <<p[i]>> \in Seq(Bytes) /\ <<p[i]>>[1] = p[i]
          /\ Len(<<p[i]>>) = 1
      OBVIOUS
    <3> QED
      BY ONLY <2>3, <3>1, <3>2
  <2> QED
    BY <2>2, <2>3
<1>4. CASE Len(p) = 0
  <2>1. SeqExt!FlattenSeq(seqs) = seqs
    BY <1>1, <1>4 DEF SeqExt!FlattenSeq
  <2>2. seqs = << >> /\ p = << >>
    BY <1>4
  <2>3. ~IsEscaped(p)
    BY <1>4 DEF IsEscaped
  <2>4. EscapeParam(p) = << >>
    BY <1>2, <2>1, <2>2
  <2>5. << >> \in Seq(Bytes) /\ Len(<< >>) = 0
    OBVIOUS
  <2>6. One => Len(EscapeParam(p)) = Len(p) + IF IsEscaped(p) THEN 1 ELSE 0
    BY ONLY <1>4, <2>3, <2>4, <2>5
  <2>7. ~(Len(p) > 0)
    BY <1>4
  <2> QED
    BY <2>2, <2>4, <2>5, <2>6, <2>7
<1>5. CASE Len(p) # 0
  <2> DEFINE P == {x \in Nat \X Seq(Bytes) :
                      /\ One => Len(x[2]) = x[1] + Extra(x[1])
                      /\ ~IsEscaped(p) => x[2] = SubSeq(p, 1, x[1])
                      /\ Len(x[2]) > 0 /\ x[2][1] = p[1]}
  <2>1. \A k, s : <<k, s>> \in P <=>
           /\ k \in Nat /\ s \in Seq(Bytes)
           /\ One => Len(s) = k + Extra(k)
           /\ ~IsEscaped(p) => s = SubSeq(p, 1, k)
           /\ Len(s) > 0 /\ s[1] = p[1]
    OBVIOUS
  <2> HIDE DEF P
  <2>2. <<1, seqs[1]>> \in P
    <3>1. 1 \in 1..Len(p)
      BY <1>1, <1>5
    <3> DEFINE s == seqs[1]
    <3>2. /\ s \in Seq(Bytes) /\ s[1] = p[1] /\ Len(s) = (IF p[1] = IAC THEN 2 ELSE 1)
          /\ p[1] # IAC => s = <<p[1]>>
      BY <1>3, <3>1
    <3> HIDE DEF s
    <3>3. Len(s) = 1 + Extra(1)
      BY <3>2
    <3>4. ~IsEscaped(p) => s = SubSeq(p, 1, 1)
      <4>1. ~IsEscaped(p) => p[1] # IAC
        BY <3>1 DEF IsEscaped
      <4>2. SubSeq(p, 1, 1) = <<p[1]>>
        <5>1. Len(SubSeq(p, 1, 1)) = 1 /\ SubSeq(p, 1, 1)[1] = p[1]
          BY <3>1
        <5>2. SubSeq(p, 1, 1) \in Seq(Bytes)
          BY <3>1
        <5>3. 1 \in 1..Len(p) /\ 1 \in 1..Len(p)
          BY <3>1
        <5>4. SubSeq(p, 1, 1) = <<p[1]>> \o SubSeq(p, 1 + 1, 1)
          BY <5>3, SubSeqRecursiveFirst
        <5>5. SubSeq(p, 1 + 1, 1) = << >>
          BY SubSeqEmpty
        <5>6. p[1] \in Bytes
          BY <5>3
        <5>7. <<p[1]>> \o << >> = <<p[1]>>
          <6>1. <<p[1]>> \in Seq(Bytes)
            BY <5>6
          <6> QED
            BY <6>1, ConcatEmptySeq
        <5> QED
          BY <5>4, <5>5, <5>7
      <4> QED
        BY <3>2, <4>1, <4>2
    <3>5. Len(s) > 0
      BY <3>2
    <3> QED
      BY <2>1, <3>2, <3>3, <3>4, <3>5 DEF s
  <2>3. ASSUME NEW k \in 1..(Len(seqs) - 1), NEW s, <<k, s>> \in P
        PROVE  <<k + 1, s \o seqs[k + 1]>> \in P
    <3> DEFINE t == seqs[k + 1]
               C == p[k + 1]
    <3>1. /\ k + 1 \in 1..Len(p) /\ k \in 1..Len(p) /\ k \in Nat /\ k + 1 \in Nat
          /\ \A i \in 1..(k + 1) : i \in 1..k \/ i = k + 1
          /\ \A i \in 1..k : i \in 1..(k + 1) /\ i \in 1..Len(p) /\ i # k + 1
      BY <1>1
    <3>2. /\ t \in Seq(Bytes) /\ Len(t) = (IF C = IAC THEN 2 ELSE 1)
          /\ C # IAC => t = <<C>>
      BY <1>3, <3>1
    <3>3. /\ s \in Seq(Bytes) /\ (One => Len(s) = k + Extra(k))
          /\ ~IsEscaped(p) => s = SubSeq(p, 1, k)
          /\ Len(s) > 0 /\ s[1] = p[1]
      BY <2>1, <2>3
    <3>4. /\ s \o t \in Seq(Bytes) /\ Len(s \o t) = Len(s) + Len(t) /\ (s \o t)[1] = s[1]
          /\ Len(s) \in Nat /\ Len(t) \in Nat
      <4>1. s \in Seq(Bytes) /\ t \in Seq(Bytes) /\ Len(s) > 0
        BY <3>2, <3>3
      <4> HIDE DEF t
      <4> QED
        BY ONLY <4>1
    <3>5. One => Len(s \o t) = k + 1 + Extra(k + 1)
      <4> SUFFICES ASSUME One PROVE Len(s) + Len(t) = k + 1 + Extra(k + 1)
        BY <3>4
      <4>1. CASE C = IAC
        <5>1. Extra(k) = 0 /\ Extra(k + 1) = 1
          BY <3>1, <4>1
        <5> HIDE DEF Extra, t, C
        <5> QED
          BY <3>1, <3>2, <3>3, <3>4, <4>1, <5>1
      <4>2. CASE C # IAC
        <5>1. Extra(k + 1) = Extra(k) /\ Extra(k) \in 0..1
          BY <3>1, <4>2
        <5> HIDE DEF Extra, t, C
        <5> QED
          BY <3>1, <3>2, <3>3, <3>4, <4>2, <5>1
      <4> QED
        BY <4>1, <4>2
    <3>6. ~IsEscaped(p) => s \o t = SubSeq(p, 1, k + 1)
      <4> SUFFICES ASSUME ~IsEscaped(p) PROVE s \o t = SubSeq(p, 1, k + 1)
        OBVIOUS
      <4>1. t = <<C>>
        BY <3>1, <3>2 DEF IsEscaped
      <4>2. s = SubSeq(p, 1, k)
        BY <3>3
      <4>3. SubSeq(p, 1, k + 1) = SubSeq(p, 1, k) \o <<p[k + 1]>>
        BY <3>1
      <4> QED
        BY <4>1, <4>2, <4>3
    <3>7. Len(s \o t) > 0 /\ (s \o t)[1] = p[1]
      BY <3>3, <3>4
    <3> HIDE DEF Extra, One, t
    <3>8. <<k + 1, s \o t>> \in P
      BY <2>1, <3>1, <3>4, <3>5, <3>6, <3>7
    <3> QED
      BY <3>8 DEF t
  <2>4. <<Len(p), EscapeParam(p)>> \in P
    <3> HIDE DEF seqs
    <3> QED
      BY <1>1, <1>2, <1>5, <2>2, <2>3, FlattenInduction
  <2>5. Extra(Len(p)) = IF IsEscaped(p) THEN 1 ELSE 0
    BY DEF IsEscaped
  <2>6. SubSeq(p, 1, Len(p)) = p
    OBVIOUS
  <2> HIDE DEF Extra
  <2> QED
    BY <2>1, <2>4, <2>5, <2>6
<1> QED
  BY <1>1, <1>4, <1>5

-----------------------------------------------------------------------------
(* What the server tells the client                                        *)

\* What the server keeps of the client's options and settings, and what it told
\* the client of them.
Served ==
    /\ {LastOut, ModemStateMask} \subseteq Bytes /\ LineStateMask \in {0, 16}
    /\ is_will \cup is_do \cup sent_will \cup sent_do \subseteq {BINARY, COMPORT}
    /\ port \in Termios /\ InputFlow \in BOOLEAN /\ BreakSignaled \in BOOLEAN
    /\ DOMAIN told = Known /\ ToldIsTrue /\ ToldIsRemembered

\* What was sent is made of bytes and stays within its bound.
Replied == toNet \in Seq(Bytes) /\ Len(toNet) <= ReplyBound(toNet)

\* The bytes of the protocol are bytes.
LEMMA ProtocolBytes ==
  /\ {IAC, SB, SE, WILL, WONT, DO, DONT, CR, LF, BINARY, COMPORT, 0} \subseteq Bytes
  /\ 0..18 \subseteq Bytes /\ 100..112 \subseteq Bytes /\ Commands \subseteq Bytes
BY DEF IAC, SB, SE, WILL, WONT, DO, DONT, CR, LF, BINARY, COMPORT, Bytes, Commands

\* A reply has the bytes of its frame around the escaped value.
LEMMA SentFacts ==
  ASSUME NEW code \in Bytes, NEW bytes \in Seq(Bytes), LastOut \in Bytes,
         SendCommand(code, bytes)
  PROVE  /\ toNet' \in Seq(Bytes) /\ LastOut' \in Bytes
         /\ Len(toNet') >= 6 /\ Len(toNet') <= 6 + 2 * Len(bytes)
         /\ toNet'[2] = SB /\ toNet'[4] = code
<1> DEFINE head == <<IAC, SB, COMPORT, code>>
           e == EscapedAll(bytes)
           tail == <<IAC, SE>>
<1>1. toNet' = head \o e \o tail
  BY DEF SendCommand
<1>2. IAC \in Bytes /\ SB \in Bytes /\ SE \in Bytes /\ COMPORT \in Bytes
  BY ProtocolBytes
<1>3. head \in Seq(Bytes) /\ Len(head) = 4 /\ head[2] = SB /\ head[4] = code
  BY <1>2
<1>4. tail \in Seq(Bytes) /\ Len(tail) = 2
  BY <1>2
<1>5. e \in Seq(Bytes) /\ Len(e) <= 2 * Len(bytes) /\ Len(e) \in Nat /\ Len(bytes) \in Nat
  BY EscapedAllFacts
<1>6. LastOut' \in Bytes
  <2>1. CASE bytes = << >>
    BY <2>1 DEF SendCommand
  <2>2. CASE bytes # << >>
    <3>1. Len(bytes) \in 1..Len(bytes)
      BY <2>2
    <3>2. LastOut' = bytes[Len(bytes)]
      BY <2>2 DEF SendCommand
    <3> QED
      BY <3>1, <3>2
  <2> QED
    BY <2>1, <2>2
<1> HIDE DEF head, e, tail
<1>7. head \o e \in Seq(Bytes) /\ Len(head \o e) = 4 + Len(e)
      /\ \A i \in 1..4 : (head \o e)[i] = head[i]
  <2>1. /\ head \o e \in Seq(Bytes) /\ Len(head \o e) = Len(head) + Len(e)
        /\ \A i \in 1..Len(head) : (head \o e)[i] = head[i]
    BY <1>3, <1>5, ConcatFacts
  <2> QED
    BY ONLY <1>3, <2>1
<1> DEFINE t == head \o e
<1> HIDE DEF t
<1>8. t \in Seq(Bytes) /\ Len(t) = 4 + Len(e) /\ \A i \in 1..4 : t[i] = head[i]
  BY <1>7 DEF t
<1>9. t \o tail \in Seq(Bytes) /\ Len(t \o tail) = Len(t) + 2
      /\ \A i \in 1..4 : (t \o tail)[i] = t[i]
  <2>1. \A i \in 1..4 : i \in 1..Len(t)
    BY <1>5, <1>8
  <2>2. /\ t \o tail \in Seq(Bytes) /\ Len(t \o tail) = Len(t) + Len(tail)
        /\ \A i \in 1..Len(t) : (t \o tail)[i] = t[i]
    BY <1>4, <1>8, ConcatFacts
  <2> QED
    BY ONLY <1>4, <2>1, <2>2
<1>10. toNet' = t \o tail
  BY <1>1 DEF t
<1> QED
  BY <1>3, <1>5, <1>6, <1>8, <1>9, <1>10

\* A reply of one byte, other than the speed and the signature, is within its bound.
LEMMA ByteReply ==
  ASSUME NEW code \in Bytes \ {100, 101}, NEW b \in Bytes, LastOut \in Bytes,
         SendCommand(code, <<b>>)
  PROVE  Replied' /\ LastOut' \in Bytes
<1> DEFINE bytes == <<b>>
<1>1. bytes \in Seq(Bytes) /\ Len(bytes) = 1
  OBVIOUS
<1>2. /\ toNet' \in Seq(Bytes) /\ LastOut' \in Bytes
      /\ Len(toNet') <= 6 + 2 * 1 /\ Len(toNet') >= 6 /\ toNet'[2] = SB /\ toNet'[4] = code
  <2> HIDE DEF bytes
  <2>1. SendCommand(code, bytes)
    BY DEF bytes
  <2>2. /\ toNet' \in Seq(Bytes) /\ LastOut' \in Bytes
        /\ Len(toNet') <= 6 + 2 * Len(bytes) /\ Len(toNet') >= 6
        /\ toNet'[2] = SB /\ toNet'[4] = code
    BY <1>1, <2>1, SentFacts
  <2> QED
    BY ONLY <1>1, <2>2
<1>3. Len(toNet') <= ReplyBound(toNet')
  BY <1>2 DEF ReplyBound
<1> QED
  BY <1>2, <1>3 DEF Replied

\* Sending nothing is within the bound.
LEMMA NothingReply ==
  ASSUME LastOut \in Bytes, SendNothing PROVE Replied' /\ LastOut' \in Bytes
<1>1. toNet' = << >> /\ LastOut' = LastOut
  BY DEF SendNothing
<1>2. << >> \in Seq(Bytes) /\ Len(<< >>) = 0
  OBVIOUS
<1> QED
  BY <1>1, <1>2 DEF Replied, ReplyBound

-----------------------------------------------------------------------------
(* The settings of the port                                                *)

\* What the port reports of its settings are bytes.
LEMMA ReportedBytes ==
  ASSUME NEW p \in Termios
  PROVE  /\ GetPortDataSize(p) \in Bytes /\ GetPortParity(p) \in Bytes
         /\ GetPortStopSize(p) \in Bytes
         /\ \A which, dsr, cts : GetPortFlowControl(p, which, dsr, cts) \in Bytes
         /\ BaudBytes(GetPortSpeed(p)) \in Seq(Bytes)
         /\ Len(BaudBytes(GetPortSpeed(p))) = SizeofLong
<1>1. 0..18 \subseteq Bytes
  BY ProtocolBytes
<1>2. GetPortDataSize(p) \in 5..8
  BY DEF GetPortDataSize, Termios
<1>3. GetPortParity(p) \in 1..3
  BY DEF GetPortParity
<1>4. GetPortStopSize(p) \in 1..2
  BY DEF GetPortStopSize
<1>5. \A which, dsr, cts : GetPortFlowControl(p, which, dsr, cts) \in 1..16
  BY DEF GetPortFlowControl
<1>6. /\ BaudBytes(GetPortSpeed(p)) \in Seq(Bytes)
      /\ Len(BaudBytes(GetPortSpeed(p))) = SizeofLong
  <2>1. GetPortSpeed(p) \in [1..4 -> Bytes]
    <3>1. p.speed \in Speeds \cup {NoSpeed}
      BY DEF Termios
    <3>2. CASE p.speed \in Speeds
      <4>1. p.speed \in [1..4 -> 0..255 \ {13, 255}]
        BY <3>2, PortAssumption
      <4>2. 0..255 \ {13, 255} \subseteq Bytes
        BY DEF Bytes
      <4>3. p.speed \in [1..4 -> Bytes]
        BY ONLY <4>1, <4>2
      <4> QED
        BY <4>3 DEF GetPortSpeed
    <3>3. CASE p.speed = NoSpeed
      <4>1. 0 \in Bytes
        BY <1>1
      <4> QED
        BY <3>3, <4>1 DEF GetPortSpeed, NoSpeed
    <3> QED
      BY <3>1, <3>2, <3>3
  <2>2. GetPortSpeed(p) \in Seq(Bytes) /\ Len(GetPortSpeed(p)) = 4
    <3> DEFINE s == GetPortSpeed(p)
    <3>1. s \in [1..4 -> Bytes]
      BY <2>1
    <3> HIDE DEF s
    <3>2. s \in Seq(Bytes)
      <4>1. [1..4 -> Bytes] \in {[1..n -> Bytes] : n \in Nat}
        OBVIOUS
      <4> QED
        BY <3>1, <4>1, SeqDef
    <3>3. Len(s) = 4
      <4>1. DOMAIN s = 1..Len(s) /\ Len(s) \in Nat
        BY <3>2, LenProperties
      <4>2. DOMAIN s = 1..4
        BY <3>1
      <4>3. \A n \in Nat : 1..n = 1..4 => n = 4
        <5> SUFFICES ASSUME NEW n \in Nat, 1..n = 1..4 PROVE n = 4
          OBVIOUS
        <5>1. 4 \in 1..n
          OBVIOUS
        <5>2. n \in 1..n
          BY <5>1
        <5>3. n \in 1..4
          BY <5>2
        <5> QED
          BY <5>1, <5>3
      <4> QED
        BY <4>1, <4>2, <4>3
    <3> QED
      BY <3>2, <3>3 DEF s
  <2>3. <<0, 0, 0, 0>> \in Seq(Bytes) /\ Len(<<0, 0, 0, 0>>) = 4
    BY <1>1
  <2>4. /\ GetPortSpeed(p) \o <<0, 0, 0, 0>> \in Seq(Bytes)
        /\ Len(GetPortSpeed(p) \o <<0, 0, 0, 0>>) = 4 + 4
    <3> DEFINE s == GetPortSpeed(p)
               z == <<0, 0, 0, 0>>
    <3>1. s \in Seq(Bytes) /\ z \in Seq(Bytes) /\ Len(s) = 4 /\ Len(z) = 4
      BY <2>2, <2>3
    <3> HIDE DEF s, z
    <3>2. s \o z \in Seq(Bytes) /\ Len(s \o z) = Len(s) + Len(z)
      BY <3>1, ConcatFacts
    <3>3. Len(s \o z) = 4 + 4
      BY ONLY <3>1, <3>2
    <3> QED
      BY <3>2, <3>3 DEF s, z
  <2> QED
    BY <2>2, <2>4, ParserAssumption DEF BaudBytes
<1>7. /\ GetPortDataSize(p) \in Bytes /\ GetPortParity(p) \in Bytes
      /\ GetPortStopSize(p) \in Bytes
  BY ONLY <1>1, <1>2, <1>3, <1>4
<1>8. \A which, dsr, cts : GetPortFlowControl(p, which, dsr, cts) \in Bytes
  BY ONLY <1>1, <1>5
<1> QED
  BY ONLY <1>6, <1>7, <1>8

\* The settings that a command does not name are left alone.
SameBut(p, q, names) ==
    /\ "speed" \notin names => GetPortSpeed(q) = GetPortSpeed(p)
    /\ "size" \notin names => GetPortDataSize(q) = GetPortDataSize(p)
    /\ "parity" \notin names => GetPortParity(q) = GetPortParity(p)
    /\ "stop" \notin names => GetPortStopSize(q) = GetPortStopSize(p)
    /\ "flow" \notin names =>
          GetPortFlowControl(q, 0, FALSE, FALSE) = GetPortFlowControl(p, 0, FALSE, FALSE)

\* Setting the port leaves a port, and changes what the setting names.
LEMMA PortIsSet ==
  ASSUME NEW p \in Termios
  PROVE  /\ \A v : SetPortSpeed(p, v) \in Termios /\ SameBut(p, SetPortSpeed(p, v), {"speed"})
         /\ \A v \in Bytes :
               /\ SetPortDataSize(p, v) \in Termios
               /\ SameBut(p, SetPortDataSize(p, v), {"size"})
               /\ SetPortParity(p, v) \in Termios
               /\ SameBut(p, SetPortParity(p, v), {"parity"})
               /\ SetPortStopSize(p, v) \in Termios
               /\ SameBut(p, SetPortStopSize(p, v), {"stop"})
               /\ SetPortFlowControl(p, v) \in Termios
               /\ SameBut(p, SetPortFlowControl(p, v), {"flow"})
<1>1. \A v : SetPortSpeed(p, v) \in Termios /\ SameBut(p, SetPortSpeed(p, v), {"speed"})
  BY PortAssumption DEF SetPortSpeed, Termios, SameBut, GetPortSpeed, GetPortDataSize,
     GetPortParity, GetPortStopSize, GetPortFlowControl
<1>2. ASSUME NEW v \in Bytes
      PROVE  SetPortDataSize(p, v) \in Termios /\ SameBut(p, SetPortDataSize(p, v), {"size"})
  BY DEF SetPortDataSize, Termios, SameBut, GetPortSpeed, GetPortDataSize,
     GetPortParity, GetPortStopSize, GetPortFlowControl
<1>3. ASSUME NEW v \in Bytes
      PROVE  SetPortParity(p, v) \in Termios /\ SameBut(p, SetPortParity(p, v), {"parity"})
  <2>1. ASSUME NEW b \in BOOLEAN, NEW c \in BOOLEAN, NEW q,
               q = [p EXCEPT !.PARENB = b, !.PARODD = c]
        PROVE  q \in Termios /\ SameBut(p, q, {"parity"})
    BY <2>1 DEF Termios, SameBut, GetPortSpeed, GetPortDataSize, GetPortStopSize,
       GetPortFlowControl
  <2>2. CASE v \in {2, 3}
    <3>1. PICK c \in BOOLEAN : c <=> v = 2
      OBVIOUS
    <3>2. SetPortParity(p, v) = [p EXCEPT !.PARENB = TRUE, !.PARODD = c]
      <4>1. TRUE = (v \in {2, 3}) /\ c = (v = 2)
        BY <2>2, <3>1
      <4> QED
        BY <2>2, <4>1 DEF SetPortParity
    <3> QED
      BY <2>1, <3>2
  <2>3. CASE v \notin {2, 3}
    <3>1. SetPortParity(p, v) = [p EXCEPT !.PARENB = FALSE, !.PARODD = p.PARODD]
      <4>1. FALSE = (v \in {2, 3})
        BY <2>3
      <4> QED
        BY <2>3, <4>1 DEF SetPortParity
    <3>2. p.PARODD \in BOOLEAN
      BY DEF Termios
    <3> QED
      BY <2>1, <3>1, <3>2
  <2> QED
    BY <2>2, <2>3
<1>4. ASSUME NEW v \in Bytes
      PROVE  SetPortStopSize(p, v) \in Termios /\ SameBut(p, SetPortStopSize(p, v), {"stop"})
  BY DEF SetPortStopSize, Termios, SameBut, GetPortSpeed, GetPortDataSize,
     GetPortParity, GetPortStopSize, GetPortFlowControl
<1>5. ASSUME NEW v \in Bytes
      PROVE  /\ SetPortFlowControl(p, v) \in Termios
             /\ SameBut(p, SetPortFlowControl(p, v), {"flow"})
  <2>1. p.IXON \in BOOLEAN /\ p.IXOFF \in BOOLEAN /\ p.CRTSCTS \in BOOLEAN
        /\ p.DTR \in BOOLEAN /\ p.RTS \in BOOLEAN
    BY DEF Termios
  <2> DEFINE pick(S, n, old) == IF v \in S THEN v = n ELSE old
  <2>2. \A S, n : \A old \in BOOLEAN : pick(S, n, old) \in BOOLEAN
    OBVIOUS
  <2>3. SetPortFlowControl(p, v) =
            [p EXCEPT !.IXON = pick(1..3, 2, p.IXON), !.IXOFF = pick(1..3, 2, p.IXOFF),
                      !.CRTSCTS = pick(1..3, 3, p.CRTSCTS), !.DTR = pick({8, 9}, 8, p.DTR),
                      !.RTS = pick({11, 12}, 11, p.RTS)]
    BY DEF SetPortFlowControl
  <2> DEFINE a == pick(1..3, 2, p.IXON)
             b == pick(1..3, 2, p.IXOFF)
             c == pick(1..3, 3, p.CRTSCTS)
             d == pick({8, 9}, 8, p.DTR)
             e == pick({11, 12}, 11, p.RTS)
  <2>4. /\ a \in BOOLEAN /\ b \in BOOLEAN /\ c \in BOOLEAN /\ d \in BOOLEAN
        /\ e \in BOOLEAN
    <3> HIDE DEF pick
    <3> QED
      BY <2>1, <2>2
  <2>5. SetPortFlowControl(p, v) =
            [p EXCEPT !.IXON = a, !.IXOFF = b, !.CRTSCTS = c, !.DTR = d, !.RTS = e]
    BY <2>3
  <2> HIDE DEF a, b, c, d, e
  <2> DEFINE q == SetPortFlowControl(p, v)
  <2>6. q = [p EXCEPT !.IXON = a, !.IXOFF = b, !.CRTSCTS = c, !.DTR = d, !.RTS = e]
    BY <2>5
  <2> HIDE DEF q
  <2>7. q \in Termios /\ SameBut(p, q, {"flow"})
    <3>1. q \in Termios
      <4>1. q = [speed |-> p.speed, size |-> p.size, PARENB |-> p.PARENB,
                 PARODD |-> p.PARODD, CSTOPB |-> p.CSTOPB, IXON |-> a, IXOFF |-> b,
                 CRTSCTS |-> c, DTR |-> d, RTS |-> e]
        BY <2>6 DEF Termios
      <4>2. /\ p.speed \in Speeds \cup {NoSpeed} /\ p.size \in 5..8 /\ p.PARENB \in BOOLEAN
            /\ p.PARODD \in BOOLEAN /\ p.CSTOPB \in BOOLEAN
        BY DEF Termios
      <4> QED
        BY <2>4, <4>1, <4>2 DEF Termios
    <3>2. /\ q.speed = p.speed /\ q.size = p.size /\ q.PARENB = p.PARENB
          /\ q.PARODD = p.PARODD /\ q.CSTOPB = p.CSTOPB
      <4>1. {"speed", "size", "PARENB", "PARODD", "CSTOPB"} \subseteq DOMAIN p
        BY DEF Termios
      <4> QED
        BY <2>6, <4>1
    <3> QED
      BY <3>1, <3>2 DEF SameBut, GetPortSpeed, GetPortDataSize, GetPortParity,
         GetPortStopSize
  <2> QED
    BY ONLY <2>7 DEF q
<1> QED
  BY <1>1, <1>2, <1>3, <1>4, <1>5

\* What else a reply leaves alone of what the server told.
LEMMA ToldBut ==
  ASSUME Served, NEW key \in Known, NEW value, told' = [told EXCEPT ![key] = value]
  PROVE  /\ DOMAIN told' = Known /\ told'[key] = value
         /\ \A k \in Known \ {key} : told'[k] = told[k]
BY DEF Served

\* The part of what was told that a command on a setting cannot disturb.
LEMMA RememberedKept ==
  ASSUME Served, UNCHANGED <<ModemStateMask, ModemState>>, told'[107] = told[107]
  PROVE  ToldIsRemembered'
BY DEF Served, ToldIsRemembered

\* The keys of what was told.
LEMMA KnownKeys == Known = {1, 2, 3, 4, 5, 10, 11, 50, 107}
BY DEF Known

\* What was told stays true if what is new is in force, and the rest is unchanged
\* with what it tells of.
LEMMA ToldStaysTrue ==
  ASSUME ToldIsTrue,
         told'[1] = <<GetPortSpeed(port')>>
            \/ (told'[1] = told[1] /\ GetPortSpeed(port') = GetPortSpeed(port)),
         told'[2] = <<GetPortDataSize(port')>>
            \/ (told'[2] = told[2] /\ GetPortDataSize(port') = GetPortDataSize(port)),
         told'[3] = <<GetPortParity(port')>>
            \/ (told'[3] = told[3] /\ GetPortParity(port') = GetPortParity(port)),
         told'[4] = <<GetPortStopSize(port')>>
            \/ (told'[4] = told[4] /\ GetPortStopSize(port') = GetPortStopSize(port)),
         told'[5] = <<GetPortFlowControl(port', 0, FALSE, FALSE)>>
            \/ (told'[5] = told[5] /\ GetPortFlowControl(port', 0, FALSE, FALSE)
                                      = GetPortFlowControl(port, 0, FALSE, FALSE)),
         told'[50] = <<IF BreakSignaled' THEN 5 ELSE 6>>
            \/ (told'[50] = told[50] /\ BreakSignaled' = BreakSignaled),
         told'[10] = <<LineStateMask'>>
            \/ (told'[10] = told[10] /\ LineStateMask' = LineStateMask),
         told'[11] = <<ModemStateMask'>>
            \/ (told'[11] = told[11] /\ ModemStateMask' = ModemStateMask)
  PROVE  ToldIsTrue'
<1>1. told'[1] # << >> => told'[1] = <<GetPortSpeed(port')>>
  BY DEF ToldIsTrue
<1>2. told'[2] # << >> => told'[2] = <<GetPortDataSize(port')>>
  BY DEF ToldIsTrue
<1>3. told'[3] # << >> => told'[3] = <<GetPortParity(port')>>
  BY DEF ToldIsTrue
<1>4. told'[4] # << >> => told'[4] = <<GetPortStopSize(port')>>
  BY DEF ToldIsTrue
<1>5. told'[5] # << >> => told'[5] = <<GetPortFlowControl(port', 0, FALSE, FALSE)>>
  BY DEF ToldIsTrue
<1>6. told'[50] # << >> => told'[50] = <<IF BreakSignaled' THEN 5 ELSE 6>>
  BY DEF ToldIsTrue
<1>7. told'[10] # << >> => told'[10] = <<LineStateMask'>>
  BY DEF ToldIsTrue
<1>8. told'[11] # << >> => told'[11] = <<ModemStateMask'>>
  BY DEF ToldIsTrue
<1> QED
  BY <1>1, <1>2, <1>3, <1>4, <1>5, <1>6, <1>7, <1>8 DEF ToldIsTrue

\* After the command that sets the speed, what was told is true.
LEMMA SpeedIsServed ==
  ASSUME Served, NEW v, SetBaudRate(v), UNCHANGED <<options, ModemState>>
  PROVE  Served' /\ Replied'
<1>1. port \in Termios
  BY DEF Served
<1>2. port' \in Termios /\ SameBut(port, port', {"speed"})
  <2>1. CASE v = <<0, 0, 0, 0>>
    BY <1>1, <2>1 DEF SetBaudRate, SameBut
  <2>2. CASE v # <<0, 0, 0, 0>>
    BY <1>1, <2>2, PortIsSet DEF SetBaudRate
  <2> QED
    BY <2>1, <2>2
<1> DEFINE bytes == BaudBytes(GetPortSpeed(port'))
<1>3. bytes \in Seq(Bytes) /\ Len(bytes) = SizeofLong
  BY <1>2, ReportedBytes
<1>4. SendCommand(101, bytes) /\ LastOut \in Bytes /\ 101 \in Bytes
  BY ProtocolBytes DEF SetBaudRate, Served
<1> HIDE DEF bytes
<1>5. /\ toNet' \in Seq(Bytes) /\ LastOut' \in Bytes /\ Len(toNet') >= 6
      /\ Len(toNet') <= 6 + 2 * Len(bytes) /\ toNet'[2] = SB /\ toNet'[4] = 101
  BY <1>3, <1>4, SentFacts
<1>6. Len(toNet') <= ReplyBound(toNet')
  BY <1>3, <1>5 DEF ReplyBound
<1>7. /\ DOMAIN told' = Known /\ told'[1] = <<GetPortSpeed(port')>>
      /\ \A k \in Known \ {1} : told'[k] = told[k]
  <2> DEFINE value == <<GetPortSpeed(port')>>
  <2>1. told' = [told EXCEPT ![1] = value] /\ Served
    BY DEF SetBaudRate
  <2>2. 1 \in Known
    BY KnownKeys
  <2> HIDE DEF value
  <2>3. DOMAIN told' = Known /\ told'[1] = value /\ \A k \in Known \ {1} : told'[k] = told[k]
    BY ONLY <2>1, <2>2, ToldBut
  <2> QED
    BY ONLY <2>3 DEF value
<1>8. ToldIsRemembered'
  BY <1>7, KnownKeys, RememberedKept DEF SetBaudRate
<1>9. ToldIsTrue'
  <2>1. \A k \in {2, 3, 4, 5, 10, 11, 50} : told'[k] = told[k]
    BY <1>7, KnownKeys
  <2>2. /\ GetPortDataSize(port') = GetPortDataSize(port)
        /\ GetPortParity(port') = GetPortParity(port)
        /\ GetPortStopSize(port') = GetPortStopSize(port)
        /\ GetPortFlowControl(port', 0, FALSE, FALSE)
              = GetPortFlowControl(port, 0, FALSE, FALSE)
    BY <1>2 DEF SameBut
  <2>3. UNCHANGED <<ModemStateMask, LineStateMask, BreakSignaled>> /\ ToldIsTrue
    BY DEF SetBaudRate, Served
  <2> QED
    BY <1>7, <2>1, <2>2, <2>3, ToldStaysTrue
<1> QED
  BY <1>2, <1>5, <1>6, <1>7, <1>8, <1>9 DEF SetBaudRate, Served, Replied, options

\* After the command that sets the size of a byte,
\* what was told is true.
LEMMA SizeIsServed ==
  ASSUME Served, NEW v \in Bytes, SetDataSize(v), UNCHANGED <<options, ModemState>>
  PROVE  Served' /\ Replied'
<1>1. port \in Termios /\ LastOut \in Bytes
  BY DEF Served
<1>2. port' \in Termios /\ SameBut(port, port', {"size"})
  <2>1. CASE v = 0
    BY <1>1, <2>1 DEF SetDataSize, SameBut
  <2>2. CASE v # 0
    BY <1>1, <2>2, PortIsSet DEF SetDataSize
  <2> QED
    BY <2>1, <2>2
<1>3. Replied' /\ LastOut' \in Bytes
  <2>1. 102 \in Bytes \ {100, 101} /\ GetPortDataSize(port') \in Bytes
    BY <1>2, ReportedBytes, ProtocolBytes
  <2>2. SendCommand(102, <<GetPortDataSize(port')>>)
    BY DEF SetDataSize, Tell
  <2> QED
    BY <1>1, <2>1, <2>2, ByteReply
<1>4. /\ DOMAIN told' = Known /\ told'[2] = <<GetPortDataSize(port')>>
      /\ \A k \in Known \ {2} : told'[k] = told[k]
  <2> DEFINE w == <<GetPortDataSize(port')>>
  <2>1. told' = [told EXCEPT ![2] = w]
    BY DEF SetDataSize, Tell
  <2>2. 2 \in Known
    BY KnownKeys
  <2> HIDE DEF w
  <2>3. DOMAIN told' = Known /\ told'[2] = w /\ \A k \in Known \ {2} : told'[k] = told[k]
    BY <2>1, <2>2, ToldBut
  <2> QED
    BY <2>3 DEF w
<1>5. ToldIsRemembered'
  BY <1>4, KnownKeys, RememberedKept DEF SetDataSize
<1>6. ToldIsTrue'
  <2>1. \A k \in {1, 3, 4, 5, 10, 11, 50} : told'[k] = told[k]
    BY <1>4, KnownKeys
  <2>2. /\ GetPortSpeed(port') = GetPortSpeed(port)
        /\ GetPortParity(port') = GetPortParity(port)
        /\ GetPortStopSize(port') = GetPortStopSize(port)
        /\ GetPortFlowControl(port', 0, FALSE, FALSE)
              = GetPortFlowControl(port, 0, FALSE, FALSE)
    BY <1>2 DEF SameBut
  <2>3. UNCHANGED <<ModemStateMask, LineStateMask, BreakSignaled>> /\ ToldIsTrue
    BY DEF SetDataSize, Served
  <2> QED
    BY <1>4, <2>1, <2>2, <2>3, ToldStaysTrue
<1> QED
  BY <1>2, <1>3, <1>4, <1>5, <1>6 DEF SetDataSize, Served, options

\* The same of the parity.
LEMMA ParityIsServed ==
  ASSUME Served, NEW v \in Bytes, SetParity(v), UNCHANGED <<options, ModemState>>
  PROVE  Served' /\ Replied'
<1>1. port \in Termios /\ LastOut \in Bytes
  BY DEF Served
<1>2. port' \in Termios /\ SameBut(port, port', {"parity"})
  <2>1. CASE v = 0
    BY <1>1, <2>1 DEF SetParity, SameBut
  <2>2. CASE v # 0
    BY <1>1, <2>2, PortIsSet DEF SetParity
  <2> QED
    BY <2>1, <2>2
<1>3. Replied' /\ LastOut' \in Bytes
  <2>1. 103 \in Bytes \ {100, 101} /\ GetPortParity(port') \in Bytes
    BY <1>2, ReportedBytes, ProtocolBytes
  <2>2. SendCommand(103, <<GetPortParity(port')>>)
    BY DEF SetParity, Tell
  <2> QED
    BY <1>1, <2>1, <2>2, ByteReply
<1>4. /\ DOMAIN told' = Known /\ told'[3] = <<GetPortParity(port')>>
      /\ \A k \in Known \ {3} : told'[k] = told[k]
  <2> DEFINE w == <<GetPortParity(port')>>
  <2>1. told' = [told EXCEPT ![3] = w]
    BY DEF SetParity, Tell
  <2>2. 3 \in Known
    BY KnownKeys
  <2> HIDE DEF w
  <2>3. DOMAIN told' = Known /\ told'[3] = w /\ \A k \in Known \ {3} : told'[k] = told[k]
    BY <2>1, <2>2, ToldBut
  <2> QED
    BY <2>3 DEF w
<1>5. ToldIsRemembered'
  BY <1>4, KnownKeys, RememberedKept DEF SetParity
<1>6. ToldIsTrue'
  <2>1. \A k \in {1, 2, 4, 5, 10, 11, 50} : told'[k] = told[k]
    BY <1>4, KnownKeys
  <2>2. /\ GetPortSpeed(port') = GetPortSpeed(port)
        /\ GetPortDataSize(port') = GetPortDataSize(port)
        /\ GetPortStopSize(port') = GetPortStopSize(port)
        /\ GetPortFlowControl(port', 0, FALSE, FALSE)
              = GetPortFlowControl(port, 0, FALSE, FALSE)
    BY <1>2 DEF SameBut
  <2>3. UNCHANGED <<ModemStateMask, LineStateMask, BreakSignaled>> /\ ToldIsTrue
    BY DEF SetParity, Served
  <2> QED
    BY <1>4, <2>1, <2>2, <2>3, ToldStaysTrue
<1> QED
  BY <1>2, <1>3, <1>4, <1>5, <1>6 DEF SetParity, Served, options

\* The same of the stop bits.
LEMMA StopIsServed ==
  ASSUME Served, NEW v \in Bytes, SetStopSize(v), UNCHANGED <<options, ModemState>>
  PROVE  Served' /\ Replied'
<1>1. port \in Termios /\ LastOut \in Bytes
  BY DEF Served
<1>2. port' \in Termios /\ SameBut(port, port', {"stop"})
  <2>1. CASE v = 0
    BY <1>1, <2>1 DEF SetStopSize, SameBut
  <2>2. CASE v # 0
    BY <1>1, <2>2, PortIsSet DEF SetStopSize
  <2> QED
    BY <2>1, <2>2
<1>3. Replied' /\ LastOut' \in Bytes
  <2>1. 104 \in Bytes \ {100, 101} /\ GetPortStopSize(port') \in Bytes
    BY <1>2, ReportedBytes, ProtocolBytes
  <2>2. SendCommand(104, <<GetPortStopSize(port')>>)
    BY DEF SetStopSize, Tell
  <2> QED
    BY <1>1, <2>1, <2>2, ByteReply
<1>4. /\ DOMAIN told' = Known /\ told'[4] = <<GetPortStopSize(port')>>
      /\ \A k \in Known \ {4} : told'[k] = told[k]
  <2> DEFINE w == <<GetPortStopSize(port')>>
  <2>1. told' = [told EXCEPT ![4] = w]
    BY DEF SetStopSize, Tell
  <2>2. 4 \in Known
    BY KnownKeys
  <2> HIDE DEF w
  <2>3. DOMAIN told' = Known /\ told'[4] = w /\ \A k \in Known \ {4} : told'[k] = told[k]
    BY <2>1, <2>2, ToldBut
  <2> QED
    BY <2>3 DEF w
<1>5. ToldIsRemembered'
  BY <1>4, KnownKeys, RememberedKept DEF SetStopSize
<1>6. ToldIsTrue'
  <2>1. \A k \in {1, 2, 3, 5, 10, 11, 50} : told'[k] = told[k]
    BY <1>4, KnownKeys
  <2>2. /\ GetPortSpeed(port') = GetPortSpeed(port)
        /\ GetPortDataSize(port') = GetPortDataSize(port)
        /\ GetPortParity(port') = GetPortParity(port)
        /\ GetPortFlowControl(port', 0, FALSE, FALSE)
              = GetPortFlowControl(port, 0, FALSE, FALSE)
    BY <1>2 DEF SameBut
  <2>3. UNCHANGED <<ModemStateMask, LineStateMask, BreakSignaled>> /\ ToldIsTrue
    BY DEF SetStopSize, Served
  <2> QED
    BY <1>4, <2>1, <2>2, <2>3, ToldStaysTrue
<1> QED
  BY <1>2, <1>3, <1>4, <1>5, <1>6 DEF SetStopSize, Served, options

\* After the command that sets the control, what was told is true: of the flow
\* control and of the break; the states of the lines are answered and not told.
LEMMA ControlIsServed ==
  ASSUME Served, NEW v \in Bytes, SetControl(v), UNCHANGED <<options, ModemState>>
  PROVE  Served' /\ Replied'
<1>1. port \in Termios /\ LastOut \in Bytes /\ ToldIsTrue /\ BreakSignaled \in BOOLEAN
  BY DEF Served
<1>2. UNCHANGED <<ModemStateMask, LineStateMask, InputFlow>>
  BY DEF SetControl
<1>3. port' \in Termios /\ SameBut(port, port', {"flow"})
  <2>1. CASE v \in {0, 4, 5, 6, 7, 10, 13}
    BY <1>1, <2>1 DEF SetControl, SameBut
  <2>2. CASE v \notin {0, 4, 5, 6, 7, 10, 13}
    BY <1>1, <2>2, PortIsSet DEF SetControl
  <2> QED
    BY <2>1, <2>2
<1>4. /\ GetPortSpeed(port') = GetPortSpeed(port)
      /\ GetPortDataSize(port') = GetPortDataSize(port)
      /\ GetPortParity(port') = GetPortParity(port)
      /\ GetPortStopSize(port') = GetPortStopSize(port)
  BY <1>3 DEF SameBut
<1>5. BreakSignaled' \in BOOLEAN
  <2>1. CASE v \in {5, 6}
    BY <2>1 DEF SetControl
  <2>2. CASE v \notin {5, 6}
    BY <1>1, <2>2 DEF SetControl
  <2> QED
    BY <2>1, <2>2
<1>6. v \in {0, 4, 5, 6, 7, 10, 13} => port' = port
  BY DEF SetControl
<1>7. v \notin {5, 6} => BreakSignaled' = BreakSignaled
  BY DEF SetControl
<1>8. CASE v \in {4, 5, 6}
  <2> DEFINE b == IF BreakSignaled' THEN 5 ELSE 6
  <2>1. SendCommand(105, <<b>>) /\ told' = [told EXCEPT ![50] = <<b>>]
    BY <1>8 DEF SetControl, Tell
  <2>2. b \in Bytes /\ 105 \in Bytes \ {100, 101}
    BY ProtocolBytes
  <2>3. Replied' /\ LastOut' \in Bytes
    BY <1>1, <2>1, <2>2, ByteReply
  <2>4. /\ DOMAIN told' = Known /\ told'[50] = <<b>>
        /\ \A k \in {1, 2, 3, 4, 5, 10, 11, 107} : told'[k] = told[k]
    <3> HIDE DEF b
    <3>1. 50 \in Known /\ \A k \in {1, 2, 3, 4, 5, 10, 11, 107} : k \in Known \ {50}
      BY KnownKeys
    <3> DEFINE w == <<b>>
    <3>2. told' = [told EXCEPT ![50] = w]
      BY <2>1
    <3> HIDE DEF w
    <3>3. DOMAIN told' = Known /\ told'[50] = w /\ \A k \in Known \ {50} : told'[k] = told[k]
      BY <3>1, <3>2, ToldBut
    <3> QED
      BY <3>1, <3>3 DEF w
  <2>5. GetPortFlowControl(port', 0, FALSE, FALSE) = GetPortFlowControl(port, 0, FALSE, FALSE)
    BY <1>6, <1>8
  <2>6. ToldIsTrue'
    BY <1>1, <1>2, <1>4, <2>4, <2>5, ToldStaysTrue
  <2>7. ToldIsRemembered'
    BY <1>2, <2>4, RememberedKept
  <2> QED
    BY <1>2, <1>3, <1>5, <2>3, <2>4, <2>6, <2>7 DEF Served, options
<1>9. CASE v \in {7, 10, 13}
  <2> DEFINE b == GetPortFlowControl(port, v, DSR \in lines, CTS \in lines)
  <2>1. SendCommand(105, <<b>>) /\ told' = told
    BY <1>9 DEF SetControl
  <2>2. b \in Bytes /\ 105 \in Bytes \ {100, 101}
    <3>1. b \in Bytes
      BY <1>1, ReportedBytes
    <3>2. 105 \in Bytes \ {100, 101}
      BY ProtocolBytes
    <3> QED
      BY ONLY <3>1, <3>2
  <2>3. Replied' /\ LastOut' \in Bytes
    <3> HIDE DEF b
    <3> QED
      BY <1>1, <2>1, <2>2, ByteReply
  <2>4. GetPortFlowControl(port', 0, FALSE, FALSE) = GetPortFlowControl(port, 0, FALSE, FALSE)
    BY <1>6, <1>9
  <2>5. BreakSignaled' = BreakSignaled
    BY <1>7, <1>9
  <2>6. ToldIsTrue'
    BY <1>1, <1>2, <1>4, <2>1, <2>4, <2>5, ToldStaysTrue
  <2>7. ToldIsRemembered'
    BY <1>2, <2>1, RememberedKept
  <2> QED
    BY <1>2, <1>3, <1>5, <2>1, <2>3, <2>6, <2>7 DEF Served, options
<1>10. CASE v \notin {4, 5, 6, 7, 10, 13}
  <2> DEFINE b == GetPortFlowControl(port', 0, FALSE, FALSE)
  <2>1. SendCommand(105, <<b>>) /\ told' = [told EXCEPT ![5] = <<b>>]
    <3>1. Tell(5, 5, b)
      BY <1>10 DEF SetControl
    <3>2. 100 + 5 = 105
      OBVIOUS
    <3> QED
      BY <3>1, <3>2 DEF Tell
  <2>2. b \in Bytes /\ 105 \in Bytes \ {100, 101}
    <3>1. \A which, dsr, cts : GetPortFlowControl(port', which, dsr, cts) \in Bytes
      BY <1>3, ReportedBytes
    <3>2. b \in Bytes
      BY <3>1
    <3>3. 105 \in Bytes \ {100, 101}
      BY ProtocolBytes
    <3> QED
      BY ONLY <3>2, <3>3
  <2>3. Replied' /\ LastOut' \in Bytes
    <3> HIDE DEF b
    <3> QED
      BY <1>1, <2>1, <2>2, ByteReply
  <2>4. /\ DOMAIN told' = Known /\ told'[5] = <<b>>
        /\ \A k \in {1, 2, 3, 4, 10, 11, 50, 107} : told'[k] = told[k]
    <3> HIDE DEF b
    <3>1. 5 \in Known /\ \A k \in {1, 2, 3, 4, 10, 11, 50, 107} : k \in Known \ {5}
      BY KnownKeys
    <3> DEFINE w == <<b>>
    <3>2. told' = [told EXCEPT ![5] = w]
      BY <2>1
    <3> HIDE DEF w
    <3>3. DOMAIN told' = Known /\ told'[5] = w /\ \A k \in Known \ {5} : told'[k] = told[k]
      BY <3>1, <3>2, ToldBut
    <3> QED
      BY <3>1, <3>3 DEF w
  <2>5. BreakSignaled' = BreakSignaled
    BY <1>7, <1>10
  <2>6. ToldIsTrue'
    BY <1>1, <1>2, <1>4, <2>4, <2>5, ToldStaysTrue
  <2>7. ToldIsRemembered'
    BY <1>2, <2>4, RememberedKept
  <2> QED
    BY <1>2, <1>3, <1>5, <2>3, <2>4, <2>6, <2>7 DEF Served, options
<1> QED
  BY <1>8, <1>9, <1>10

\* After the commands that set the masks, what was told is true: of the lines that
\* are masked out now it is forgotten.
LEMMA MasksAreServed ==
  ASSUME Served, NEW cmd \in {10, 11}, NEW v \in Bytes, SetMasks(cmd, v),
         UNCHANGED <<options, ModemState>>
  PROVE  Served' /\ Replied'
<1>1. port \in Termios /\ LastOut \in Bytes /\ ToldIsTrue /\ ToldIsRemembered
      /\ ModemStateMask \in Bytes /\ LineStateMask \in {0, 16} /\ DOMAIN told = Known
  BY DEF Served
<1>2. UNCHANGED <<port, InputFlow, BreakSignaled>>
  BY DEF SetMasks
<1>3. ModemStateMask' \in Bytes /\ LineStateMask' \in {0, 16}
  <2>1. And16(v) \in {0, 16}
    BY DEF And16
  <2> QED
    BY <1>1, <2>1 DEF SetMasks
<1> DEFINE b == IF cmd = 10 THEN LineStateMask' ELSE v
           kept == DOMAIN told[107] \cap Masked(ModemStateMask')
<1>4. SendCommand(100 + cmd, <<b>>)
  BY DEF SetMasks
<1>5. b \in Bytes /\ 100 + cmd \in Bytes \ {100, 101}
  <2>1. LineStateMask' \in Bytes
    BY <1>3, ProtocolBytes
  <2>2. 100 + cmd \in {110, 111}
    OBVIOUS
  <2>3. {110, 111} \subseteq Bytes \ {100, 101}
    BY ProtocolBytes
  <2> QED
    BY <2>1, <2>2, <2>3
<1>6. Replied' /\ LastOut' \in Bytes
  <2> HIDE DEF b
  <2> QED
    BY <1>1, <1>4, <1>5, ByteReply
<1>7. told' = [told EXCEPT ![cmd] = <<b>>, ![107] = [l \in kept |-> told[107][l]]]
  BY <1>1, KnownKeys DEF SetMasks
<1>8. /\ DOMAIN told' = Known /\ told'[cmd] = <<b>> /\ told'[107] = [l \in kept |-> told[107][l]]
      /\ \A k \in {1, 2, 3, 4, 5, 10, 11, 50} \ {cmd} : told'[k] = told[k]
  <2> HIDE DEF b, kept
  <2> QED
    BY <1>1, <1>7, KnownKeys
<1>9. ToldIsTrue'
  <2>1. \A k \in {1, 2, 3, 4, 5, 50} : told'[k] = told[k]
    BY <1>8
  <2>2. CASE cmd = 10
    <3>1. told'[10] = <<LineStateMask'>> /\ told'[11] = told[11]
          /\ ModemStateMask' = ModemStateMask
      <4>1. told'[11] = told[11] /\ b = LineStateMask'
        BY <1>8, <2>2
      <4>2. told'[10] = <<b>>
        BY <1>8, <2>2
      <4>3. ModemStateMask' = ModemStateMask
        BY <2>2 DEF SetMasks
      <4> QED
        BY <4>1, <4>2, <4>3
    <3> QED
      BY <1>1, <1>2, <2>1, <3>1, ToldStaysTrue
  <2>3. CASE cmd = 11
    <3>1. told'[11] = <<ModemStateMask'>> /\ told'[10] = told[10]
          /\ LineStateMask' = LineStateMask
      <4>1. told'[10] = told[10] /\ b = v
        BY <1>8, <2>3
      <4>2. told'[11] = <<b>>
        BY <1>8, <2>3
      <4>3. ModemStateMask' = v /\ LineStateMask' = LineStateMask
        BY <2>3 DEF SetMasks
      <4> QED
        BY <4>1, <4>2, <4>3
    <3> QED
      BY <1>1, <1>2, <2>1, <3>1, ToldStaysTrue
  <2> QED
    BY <2>2, <2>3
<1>10. ToldIsRemembered'
  <2>1. /\ DOMAIN told[107] \subseteq Lines
        /\ \A l \in DOMAIN told[107] : told[107][l] = (l \in ModemState)
    BY <1>1 DEF ToldIsRemembered
  <2>2. DOMAIN told'[107] = kept /\ \A l \in kept : told'[107][l] = (l \in ModemState)
    <3>1. \A l \in kept : told'[107][l] = told[107][l]
      BY <1>8
    <3> QED
      BY <1>8, <2>1, <3>1
  <2>3. ModemState' = ModemState
    OBVIOUS
  <2>4. kept \subseteq Lines \cap Masked(ModemStateMask')
    BY <2>1
  <2> HIDE DEF kept
  <2> QED
    BY <2>2, <2>3, <2>4 DEF ToldIsRemembered, Masked
<1> QED
  BY <1>1, <1>2, <1>3, <1>6, <1>8, <1>9, <1>10 DEF Served, options

\* Nothing but what was sent is changed by a command without a setting.
LEMMA NothingIsServed ==
  ASSUME Served, UNCHANGED <<options, settings, told, ModemState>>, LastOut' \in Bytes
  PROVE  Served'
<1>1. /\ UNCHANGED <<port, ModemStateMask, LineStateMask, InputFlow, BreakSignaled>>
      /\ UNCHANGED <<is_will, is_do, sent_will, sent_do, told, ModemState>>
  BY DEF options, settings
<1>2. ToldIsTrue' /\ ToldIsRemembered'
  <2>1. ToldIsTrue'
    <3>1. ToldIsTrue
      BY DEF Served
    <3> QED
      BY <1>1, <3>1, ToldStaysTrue
  <2>2. ToldIsRemembered'
    BY <1>1, RememberedKept
  <2> QED
    BY <2>1, <2>2
<1> QED
  BY <1>1, <1>2 DEF Served

\* A complete command: its verb and its option, and of a COM port command the code
\* and the parameter.
Complete(command) ==
    /\ command \in Seq(Bytes) /\ Len(command) >= 3
    /\ command[2] = SB =>
          /\ Len(command) >= 6
          /\ command[4] \notin {0, 8, 9} => Len(command) >= 7
          /\ command[4] = 1 => Len(command) >= 10

\* After a COM port command what was told is true, and the reply is within its
\* bound.
LEMMA CPCCommandIsServed ==
  ASSUME Served, NEW command, Complete(command), command[2] = SB,
         HandleCPCCommand(command), UNCHANGED <<options, ModemState>>
  PROVE  Served' /\ Replied'
<1> DEFINE cmd == command[4]
           v == command[5]
<1>1. /\ command \in Seq(Bytes) /\ Len(command) >= 6 /\ cmd \in Bytes
      /\ cmd \notin {0, 8, 9} => v \in Bytes
  BY DEF Complete
<1>2. LastOut \in Bytes
  BY DEF Served
<1>3. CASE cmd = 0
  <2>1. Signature(Len(command))
    BY <1>3 DEF HandleCPCCommand
  <2>2. UNCHANGED <<settings, told>>
    BY <2>1 DEF Signature
  <2>3. CASE SendNothing
    BY <1>2, <2>2, <2>3, NothingIsServed, NothingReply
  <2>4. CASE SendCommand(100, SigStr)
    <3>1. SigStr \in Seq(Bytes)
      <4>1. {115, 101, 114, 99, 100} \subseteq Bytes
        BY DEF Bytes
      <4> QED
        BY <4>1 DEF SigStr
    <3>2. Len(SigStr) \in Nat /\ 100 \in Bytes
      BY <3>1, ProtocolBytes
    <3>3. /\ toNet' \in Seq(Bytes) /\ LastOut' \in Bytes /\ Len(toNet') >= 6
          /\ Len(toNet') <= 6 + 2 * Len(SigStr) /\ toNet'[2] = SB /\ toNet'[4] = 100
      BY <1>2, <2>4, <3>1, <3>2, SentFacts
    <3>4. Len(toNet') <= ReplyBound(toNet')
      BY <3>2, <3>3 DEF ReplyBound
    <3> QED
      BY <2>2, <3>3, <3>4, NothingIsServed DEF Replied
  <2> QED
    BY <2>1, <2>3, <2>4 DEF Signature
<1>4. CASE cmd = 1
  BY <1>4, SpeedIsServed DEF HandleCPCCommand
<1>5. CASE cmd = 2
  BY <1>1, <1>5, SizeIsServed DEF HandleCPCCommand
<1>6. CASE cmd = 3
  BY <1>1, <1>6, ParityIsServed DEF HandleCPCCommand
<1>7. CASE cmd = 4
  BY <1>1, <1>7, StopIsServed DEF HandleCPCCommand
<1>8. CASE cmd = 5
  BY <1>1, <1>8, ControlIsServed DEF HandleCPCCommand
<1>9. CASE cmd \in {10, 11}
  BY <1>1, <1>9, MasksAreServed DEF HandleCPCCommand
<1>10. CASE cmd = 12
  <2>1. SendCommand(112, <<v>>) /\ UNCHANGED <<settings, told>>
    BY <1>10 DEF HandleCPCCommand
  <2>2. v \in Bytes /\ 112 \in Bytes \ {100, 101}
    BY <1>1, <1>10, ProtocolBytes
  <2>3. Replied' /\ LastOut' \in Bytes
    BY <1>2, <2>1, <2>2, ByteReply
  <2> QED
    BY <2>1, <2>3, NothingIsServed
<1>11. CASE cmd \in {8, 9}
  <2>1. /\ InputFlow' = (cmd = 9) /\ SendNothing
        /\ UNCHANGED <<port, ModemStateMask, LineStateMask, BreakSignaled, told>>
    BY <1>11 DEF HandleCPCCommand
  <2>2. Replied' /\ LastOut' \in Bytes
    BY <1>2, <2>1, NothingReply
  <2>3. ToldIsTrue' /\ ToldIsRemembered'
    BY <2>1 DEF Served, ToldIsTrue, ToldIsRemembered
  <2>4. InputFlow' \in BOOLEAN
    BY <2>1
  <2> QED
    BY <2>1, <2>2, <2>3, <2>4 DEF Served, options
<1>12. CASE cmd \notin {0, 1, 2, 3, 4, 5, 8, 9, 10, 11, 12}
  <2>1. SendNothing /\ UNCHANGED <<settings, told>>
    BY <1>12 DEF HandleCPCCommand
  <2> QED
    BY <1>2, <2>1, NothingReply, NothingIsServed
<1> QED
  BY <1>3, <1>4, <1>5, <1>6, <1>7, <1>8, <1>9, <1>10, <1>11, <1>12

\* The five verbs are different bytes, and so are the two options.
LEMMA VerbsDiffer ==
  /\ SB \notin {WILL, WONT, DO, DONT} /\ WILL \notin {SB, WONT, DO, DONT}
  /\ WONT \notin {SB, WILL, DO, DONT} /\ DO \notin {SB, WILL, WONT, DONT}
  /\ DONT \notin {SB, WILL, WONT, DO} /\ BINARY # COMPORT
  /\ IAC \notin {SB, SE, WILL, WONT, DO, DONT, BINARY, COMPORT, CR, LF}
  /\ SE \notin {SB, WILL, WONT, DO, DONT} /\ CR # LF
BY DEF SB, SE, WILL, WONT, DO, DONT, IAC, BINARY, COMPORT, CR, LF

\* An answer to a verb is three bytes or none.
LEMMA OptionReply ==
  ASSUME LastOut \in Bytes, NEW condition, NEW verb \in Bytes, NEW o \in Bytes,
         SendIf(condition, verb, o)
  PROVE  Replied' /\ LastOut' \in Bytes /\ UNCHANGED <<settings, told>>
<1>1. toNet' \in {<<IAC, verb, o>>, << >>} /\ UNCHANGED <<LastOut, settings, told>>
  BY DEF SendIf
<1>2. IAC \in Bytes
  BY ProtocolBytes
<1>3. <<IAC, verb, o>> \in Seq(Bytes) /\ Len(<<IAC, verb, o>>) = 3
  BY <1>2
<1>4. << >> \in Seq(Bytes) /\ Len(<< >>) = 0
  OBVIOUS
<1>5. toNet' \in Seq(Bytes) /\ Len(toNet') \in {0, 3}
  BY ONLY <1>1, <1>3, <1>4
<1> QED
  BY <1>1, <1>5 DEF Replied, ReplyBound

\* What was told stays true when only options change.
LEMMA OptionsAreServed ==
  ASSUME Served, UNCHANGED <<settings, told, ModemState>>, LastOut' \in Bytes,
         is_will' \cup is_do' \cup sent_will' \cup sent_do' \subseteq {BINARY, COMPORT}
  PROVE  Served'
<1>1. /\ UNCHANGED <<port, ModemStateMask, LineStateMask, InputFlow, BreakSignaled>>
      /\ UNCHANGED <<told, ModemState>>
  BY DEF settings
<1>2. ToldIsTrue'
  <2>1. ToldIsTrue
    BY DEF Served
  <2> QED
    BY <1>1, <2>1, ToldStaysTrue
<1>3. ToldIsRemembered'
  BY <1>1, RememberedKept
<1> QED
  BY <1>1, <1>2, <1>3 DEF Served

\* After a command what was told is true, and the reply is within its bound.
LEMMA IACCommandIsServed ==
  ASSUME Served, NEW command, Complete(command), HandleIACCommand(command),
         UNCHANGED ModemState
  PROVE  Served' /\ Replied'
<1> DEFINE verb == command[2]
           o == command[3]
           supported == o \in {BINARY, COMPORT}
<1>1. command \in Seq(Bytes) /\ Len(command) >= 3 /\ verb \in Bytes /\ o \in Bytes
  BY DEF Complete
<1>2. LastOut \in Bytes
  BY DEF Served
<1>3. {WILL, WONT, DO, DONT} \subseteq Bytes
  BY ProtocolBytes
<1>4. CASE /\ verb = SB
           /\ IF o \in is_will \cup is_do /\ o = COMPORT
                THEN HandleCPCCommand(command)
                ELSE SendNothing /\ UNCHANGED <<settings, told>>
           /\ UNCHANGED options
  <2>1. CASE HandleCPCCommand(command)
    BY <1>4, <2>1, CPCCommandIsServed
  <2>2. CASE SendNothing /\ UNCHANGED <<settings, told>>
    BY <1>2, <1>4, <2>2, NothingReply, NothingIsServed
  <2> QED
    BY <1>4, <2>1, <2>2
<1>5. CASE /\ verb = WILL
           /\ SendIf(o \notin sent_do, IF supported THEN DO ELSE DONT, o)
           /\ is_do' = IF supported THEN is_do \cup {o} ELSE is_do
           /\ sent_do' = sent_do \ {o}
           /\ UNCHANGED <<is_will, sent_will>>
  <2>1. Replied' /\ LastOut' \in Bytes /\ UNCHANGED <<settings, told>>
    <3> DEFINE answer == IF supported THEN DO ELSE DONT
    <3>1. answer \in Bytes
      BY <1>3
    <3>2. SendIf(o \notin sent_do, answer, o)
      BY <1>5
    <3> HIDE DEF answer
    <3> QED
      BY <1>1, <1>2, <3>1, <3>2, OptionReply
  <2>2. is_will' \cup is_do' \cup sent_will' \cup sent_do' \subseteq {BINARY, COMPORT}
    BY <1>5 DEF Served
  <2> QED
    BY <2>1, <2>2, OptionsAreServed
<1>6. CASE /\ verb = DO
           /\ SendIf(o \notin sent_will, IF supported THEN WILL ELSE WONT, o)
           /\ is_will' = IF supported THEN is_will \cup {o} ELSE is_will
           /\ sent_will' = sent_will \ {o}
           /\ UNCHANGED <<is_do, sent_do>>
  <2>1. Replied' /\ LastOut' \in Bytes /\ UNCHANGED <<settings, told>>
    <3> DEFINE answer == IF supported THEN WILL ELSE WONT
    <3>1. answer \in Bytes
      BY <1>3
    <3>2. SendIf(o \notin sent_will, answer, o)
      BY <1>6
    <3> HIDE DEF answer
    <3> QED
      BY <1>1, <1>2, <3>1, <3>2, OptionReply
  <2>2. is_will' \cup is_do' \cup sent_will' \cup sent_do' \subseteq {BINARY, COMPORT}
    BY <1>6 DEF Served
  <2> QED
    BY <2>1, <2>2, OptionsAreServed
<1>7. CASE /\ verb = DONT /\ SendIf(o \in is_will, WONT, o)
           /\ is_will' = is_will \ {o} /\ sent_will' = sent_will \ {o}
           /\ UNCHANGED <<is_do, sent_do>>
  <2>1. Replied' /\ LastOut' \in Bytes /\ UNCHANGED <<settings, told>>
    BY <1>1, <1>2, <1>3, <1>7, OptionReply
  <2>2. is_will' \cup is_do' \cup sent_will' \cup sent_do' \subseteq {BINARY, COMPORT}
    BY <1>7 DEF Served
  <2> QED
    BY <2>1, <2>2, OptionsAreServed
<1>8. CASE /\ verb = WONT /\ SendIf(o \in is_do, DONT, o)
           /\ is_do' = is_do \ {o} /\ sent_do' = sent_do \ {o}
           /\ UNCHANGED <<is_will, sent_will>>
  <2>1. Replied' /\ LastOut' \in Bytes /\ UNCHANGED <<settings, told>>
    BY <1>1, <1>2, <1>3, <1>8, OptionReply
  <2>2. is_will' \cup is_do' \cup sent_will' \cup sent_do' \subseteq {BINARY, COMPORT}
    BY <1>8 DEF Served
  <2> QED
    BY <2>1, <2>2, OptionsAreServed
<1>9. CASE /\ verb \notin {SB, WILL, DO, DONT, WONT}
           /\ SendNothing /\ UNCHANGED <<options, settings, told>>
  BY <1>2, <1>9, NothingReply, NothingIsServed
<1> QED
  BY <1>4, <1>5, <1>6, <1>7, <1>8, <1>9 DEF HandleIACCommand

-----------------------------------------------------------------------------
(* The parser                                                              *)

\* What the parser has collected.
Reader ==
    /\ IACEscape \in {"Normal", "Received", "Command"}
    /\ IACSigEscape \in {"Normal", "Received"}
    /\ IACCommand \in Seq(Bytes) /\ Last \in Bytes
    /\ Len(IACCommand) <= 10 \/ (IACCommand[2] = SB /\ IACCommand[4] = 0)
    /\ Collecting

\* What a byte does besides: nothing, or it completes a command.
Handled == Quiet \/ \E command : Complete(command) /\ HandleIACCommand(command)

\* What the device gets of a byte, and that the client gets nothing then.
Forwarded ==
    /\ toDev \in Seq(Bytes) /\ devGot \in Seq(Bytes) /\ Len(toDev) <= 1
    /\ toDev # << >> => toNet = << >>

\* A quiet step leaves everything as it was told.
LEMMA QuietIsServed ==
  ASSUME Served, Quiet, UNCHANGED ModemState
  PROVE  Served' /\ Replied' /\ toNet' = << >>
<1>1. LastOut \in Bytes /\ SendNothing /\ UNCHANGED <<options, settings, told>>
  BY DEF Served, Quiet
<1>2. Replied' /\ LastOut' \in Bytes
  BY <1>1, NothingReply
<1> QED
  BY <1>1, <1>2, NothingIsServed DEF SendNothing

\* The device gets one byte, or none.
LEMMA DeviceGets ==
  ASSUME NEW C \in Bytes, devGot \in Seq(Bytes), NEW bytes \in {<< >>, <<C>>},
         ToDevice(bytes), bytes # << >> => toNet' = << >>
  PROVE  Forwarded'
<1>1. bytes \in Seq(Bytes) /\ Len(bytes) <= 1
  <2>1. << >> \in Seq(Bytes) /\ Len(<< >>) <= 1 /\ <<C>> \in Seq(Bytes) /\ Len(<<C>>) <= 1
    OBVIOUS
  <2> QED
    BY ONLY <2>1, bytes \in {<< >>, <<C>>}
<1>2. toDev' = bytes /\ devGot' = devGot \o bytes
  BY DEF ToDevice
<1>3. devGot \o bytes \in Seq(Bytes)
  BY <1>1, ConcatFacts
<1> QED
  BY <1>1, <1>2, <1>3 DEF Forwarded

\* A command with one byte more.
LEMMA CollectFacts ==
  ASSUME NEW c \in Seq(Bytes), NEW C \in Bytes
  PROVE  /\ Append(c, C) \in Seq(Bytes) /\ Len(Append(c, C)) = Len(c) + 1 /\ Len(c) \in Nat
         /\ \A i \in Nat \ {0} : i <= Len(c) => Append(c, C)[i] = c[i]
         /\ Append(c, C)[Len(c) + 1] = C
<1>1. /\ Append(c, C) \in Seq(Bytes) /\ Len(Append(c, C)) = Len(c) + 1
      /\ \A i \in 1..Len(c) : Append(c, C)[i] = c[i]
      /\ Append(c, C)[Len(c) + 1] = C
  BY AppendProperties
<1>2. Len(c) \in Nat
  OBVIOUS
<1>3. \A i \in Nat \ {0} : i <= Len(c) => i \in 1..Len(c)
  BY <1>2
<1> QED
  BY <1>1, <1>2, <1>3

\* After a byte outside a command.
LEMMA NormalCharIsRead ==
  ASSUME Served, Reader, devGot \in Seq(Bytes), IACEscape = "Normal", NEW C \in Bytes,
         NormalChar(C), Last' = C, UNCHANGED ModemState
  PROVE  Served' /\ Replied' /\ Reader' /\ Forwarded'
<1>1. Served' /\ Replied' /\ toNet' = << >>
  BY QuietIsServed DEF NormalChar
<1>2. IACEscape' \in {"Normal", "Received"} /\ UNCHANGED <<IACCommand, IACSigEscape>>
  BY DEF NormalChar
<1>3. Reader'
  BY <1>2 DEF Reader, Collecting
<1>4. PICK bytes \in {<< >>, <<C>>} : ToDevice(bytes)
  <2>1. CASE C = IAC
    BY <2>1 DEF NormalChar
  <2>2. CASE C # IAC /\ BINARY \notin is_do /\ C = 0 /\ Last = CR
    BY <2>2 DEF NormalChar
  <2>3. CASE C # IAC /\ ~(BINARY \notin is_do /\ C = 0 /\ Last = CR)
    BY <2>3 DEF NormalChar
  <2> QED
    BY <2>1, <2>2, <2>3
<1>5. Forwarded'
  BY <1>1, <1>4, DeviceGets
<1> QED
  BY <1>1, <1>3, <1>5

\* After the byte that follows an IAC.
LEMMA ReceivedCharIsRead ==
  ASSUME Served, Reader, devGot \in Seq(Bytes), IACEscape = "Received", NEW C \in Bytes,
         ReceivedChar(C), Last' = C, UNCHANGED ModemState
  PROVE  Served' /\ Replied' /\ Reader' /\ Forwarded'
<1>1. Served' /\ Replied' /\ toNet' = << >>
  BY QuietIsServed DEF ReceivedChar
<1>2. CASE C = IAC
  <2>1. IACEscape' = "Normal" /\ ToDevice(<<C>>) /\ UNCHANGED <<IACCommand, IACSigEscape>>
    BY <1>2 DEF ReceivedChar
  <2>2. Reader'
    BY <2>1 DEF Reader, Collecting
  <2>3. Forwarded'
    BY <1>1, <2>1, DeviceGets
  <2> QED
    BY <1>1, <2>2, <2>3
<1>3. CASE C # IAC
  <2>1. /\ IACEscape' = "Command" /\ ToDevice(<< >>)
        /\ IACCommand' = <<IAC, C>> /\ IACSigEscape' = "Normal"
    BY <1>3 DEF ReceivedChar
  <2>2. <<IAC, C>> \in Seq(Bytes) /\ Len(<<IAC, C>>) = 2
    <3>1. IAC \in Bytes
      BY ProtocolBytes
    <3> QED
      BY <3>1
  <2>3. IACCommand' \in Seq(Bytes) /\ Len(IACCommand') = 2
    BY <2>1, <2>2
  <2>4. Reader'
    BY <2>1, <2>3 DEF Reader, Collecting
  <2>5. Forwarded'
    BY <1>1, <2>1, DeviceGets
  <2> QED
    BY <1>1, <2>4, <2>5
<1> QED
  BY <1>2, <1>3

\* After a byte of a command of fixed length.
LEMMA FixedCharIsRead ==
  ASSUME Served, Reader, IACEscape = "Command", NEW C \in Bytes,
         ~(IACCommand[2] = SB /\ Len(IACCommand) >= 4 /\ IACCommand[4] = 0),
         FixedChar(C), Last' = C, UNCHANGED ModemState
  PROVE  Served' /\ Replied' /\ Reader' /\ Handled
<1> DEFINE c == IACCommand
           d == Append(IACCommand, C)
<1>1. /\ c \in Seq(Bytes) /\ Len(c) \in Nat /\ Len(c) >= 2 /\ (c[2] # SB => Len(c) = 2)
      /\ c[2] = SB /\ Len(c) >= 4 => c[4] # 0 /\ Len(c) < Length(c)
      /\ Len(c) <= 10
  <2>1. c \in Seq(Bytes) /\ Len(c) >= 2 /\ (c[2] # SB => Len(c) = 2)
        /\ (c[2] = SB /\ Len(c) >= 4 => c[4] # 0 /\ Len(c) < Length(c))
    BY DEF Reader, Collecting
  <2>2. Length(c) \in {3, 6, 7, 10}
    BY DEF Length
  <2>3. Len(c) \in Nat
    BY <2>1
  <2>4. Len(c) <= 10
    <3>1. CASE c[2] # SB
      <4>1. Len(c) = 2
        BY <2>1, <3>1
      <4> QED
        BY ONLY <4>1
    <3>2. CASE c[2] = SB /\ Len(c) >= 4
      BY <2>1, <2>2, <2>3, <3>2
    <3>3. CASE c[2] = SB /\ ~(Len(c) >= 4)
      BY <2>3, <3>3
    <3> QED
      BY <3>1, <3>2, <3>3
  <2> QED
    BY <2>1, <2>3, <2>4
<1>2. /\ d \in Seq(Bytes) /\ Len(d) = Len(c) + 1 /\ d[2] = c[2]
      /\ Len(c) >= 4 => d[4] = c[4]
  BY <1>1, CollectFacts
<1>3. IACCommand' = d /\ UNCHANGED IACSigEscape
  BY DEF FixedChar, Collect
<1>4. c[2] = SB /\ Len(c) >= 4 => Length(d) = Length(c)
  BY <1>1, <1>2 DEF Length
<1> HIDE DEF d
<1>5. Length(d) \in {3, 6, 7, 10} /\ (d[2] = SB => Length(d) # 3)
  BY DEF Length
<1>6. CASE (d[2] = SB => Len(c) >= 4) /\ Len(d) = Length(d)
  <2>1. IACEscape' = "Normal" /\ HandleIACCommand(d)
    BY <1>3, <1>6 DEF FixedChar
  <2>2. Complete(d)
    <3>1. CASE c[2] # SB
      BY <1>1, <1>2, <3>1 DEF Complete
    <3>2. CASE c[2] = SB
      <4>1. d[2] = SB /\ Len(c) >= 4 /\ d[4] = c[4] /\ c[4] # 0
        BY <1>1, <1>2, <1>6, <3>2
      <4>2. Len(d) = IF d[4] = 1 THEN 10 ELSE IF d[4] \in {8, 9} THEN 6 ELSE 7
        BY <1>6, <4>1 DEF Length
      <4> QED
        BY <1>2, <4>1, <4>2 DEF Complete
    <3> QED
      BY <3>1, <3>2
  <2>3. Served' /\ Replied'
    BY <2>1, <2>2, IACCommandIsServed
  <2>4. Len(d) <= 10
    BY <1>5, <1>6
  <2>5. Reader'
    BY <1>2, <1>3, <2>1, <2>4 DEF Reader, Collecting
  <2> QED
    BY <2>1, <2>2, <2>3, <2>5 DEF Handled
<1>7. CASE ~((d[2] = SB => Len(c) >= 4) /\ Len(d) = Length(d))
  <2>1. UNCHANGED IACEscape /\ Quiet
    BY <1>3, <1>7 DEF FixedChar
  <2>2. Served' /\ Replied'
    BY <2>1, QuietIsServed
  <2>3. d[2] = SB
    <3>1. ASSUME d[2] # SB PROVE FALSE
      <4>1. Len(d) = 3
        <5>1. c[2] # SB
          BY <1>2, <3>1
        <5>2. Len(c) = 2
          BY <1>1, <5>1
        <5> QED
          BY <1>2, <5>2
      <4>2. Length(d) = 3
        BY <3>1 DEF Length
      <4> QED
        BY <1>7, <3>1, <4>1, <4>2
    <3> QED
      BY <3>1
  <2>4. Len(d) >= 4 /\ d[4] # 0 => Len(d) < Length(d)
    <3>1. CASE Len(c) >= 4
      <4>1. Len(c) < Length(d) /\ Len(d) # Length(d)
        BY <1>1, <1>2, <1>4, <1>7, <2>3, <3>1
      <4> QED
        BY <1>1, <1>2, <1>5, <4>1
    <3>2. CASE Len(c) < 4
      BY <1>1, <1>2, <1>5, <2>3, <3>2
    <3> QED
      BY <1>1, <3>1, <3>2
  <2>5. Len(d) <= 10 \/ d[4] = 0
    BY <1>1, <1>2, <1>5, <2>4
  <2>6. Collecting'
    BY <1>1, <1>2, <1>3, <2>3, <2>4 DEF Collecting, Length
  <2>7. Reader'
    BY <1>2, <1>3, <2>1, <2>3, <2>5, <2>6 DEF Reader
  <2> QED
    BY <2>1, <2>2, <2>7 DEF Handled
<1> QED
  BY <1>6, <1>7

\* After a byte of a signature.
LEMMA SignatureCharIsRead ==
  ASSUME Served, Reader, IACEscape = "Command", NEW C \in Bytes,
         IACCommand[2] = SB, Len(IACCommand) >= 4, IACCommand[4] = 0,
         SignatureChar(C), Last' = C, UNCHANGED ModemState
  PROVE  Served' /\ Replied' /\ Reader' /\ Handled
<1> DEFINE c == IACCommand
<1>1. c \in Seq(Bytes) /\ Len(c) \in Nat /\ Len(c) >= 4 /\ c[2] = SB /\ c[4] = 0
      /\ IACSigEscape \in {"Normal", "Received"}
  BY DEF Reader
<1>2. CASE IACSigEscape = "Normal" /\ C = IAC
  <2>1. IACSigEscape' = "Received" /\ UNCHANGED <<IACCommand, IACEscape>> /\ Quiet
    BY <1>2 DEF SignatureChar
  <2>2. Served' /\ Replied'
    BY <2>1, QuietIsServed
  <2>3. Reader'
    BY <2>1 DEF Reader, Collecting, Length
  <2> QED
    BY <2>1, <2>2, <2>3 DEF Handled
<1>3. CASE IACSigEscape = "Received" /\ C # IAC
  <2> DEFINE end == <<IAC, C>>
             d == c \o end
  <2>1. /\ IACCommand' = d /\ IACEscape' = "Normal" /\ HandleIACCommand(IACCommand')
        /\ UNCHANGED IACSigEscape
    BY <1>3 DEF SignatureChar
  <2>2. end \in Seq(Bytes) /\ Len(end) = 2
    <3>1. IAC \in Bytes
      BY ProtocolBytes
    <3> QED
      BY <3>1
  <2> HIDE DEF end
  <2>3. /\ d \in Seq(Bytes) /\ Len(d) = Len(c) + Len(end)
        /\ \A i \in 1..Len(c) : d[i] = c[i]
    BY <1>1, <2>2, ConcatFacts
  <2> HIDE DEF d
  <2>4. d[2] = SB /\ d[4] = 0 /\ Len(d) >= 6
    <3>1. 2 \in 1..Len(c) /\ 4 \in 1..Len(c)
      BY <1>1
    <3>2. Len(d) = Len(c) + 2
      BY <2>2, <2>3
    <3>3. Len(d) >= 6
      BY ONLY <1>1, <3>2
    <3> QED
      BY <1>1, <2>3, <3>1, <3>3
  <2>5. Complete(d)
    BY <2>3, <2>4 DEF Complete
  <2>6. Served' /\ Replied'
    BY <2>1, <2>5, IACCommandIsServed
  <2>7. Reader'
    BY <2>1, <2>3, <2>4 DEF Reader, Collecting
  <2>8. HandleIACCommand(d)
    BY <2>1
  <2> QED
    BY <2>5, <2>6, <2>7, <2>8 DEF Handled
<1>4. CASE ~(IACSigEscape = "Normal" /\ C = IAC) /\ ~(IACSigEscape = "Received" /\ C # IAC)
  <2> DEFINE d == Append(c, C)
  <2>1. IACCommand' = d /\ IACSigEscape' = "Normal" /\ UNCHANGED IACEscape /\ Quiet
    BY <1>4 DEF SignatureChar, Collect
  <2>2. /\ d \in Seq(Bytes) /\ Len(d) = Len(c) + 1
        /\ d[2] = SB /\ d[4] = 0
    BY <1>1, CollectFacts
  <2>3. Len(d) >= 5
    BY <1>1, <2>2
  <2>4. Served' /\ Replied'
    BY <2>1, QuietIsServed
  <2> HIDE DEF d
  <2>5. Reader'
    BY <2>1, <2>2, <2>3 DEF Reader, Collecting
  <2> QED
    BY <2>1, <2>4, <2>5 DEF Handled
<1> QED
  BY <1>1, <1>2, <1>3, <1>4

\* After a byte of the client, whatever the parser was doing: what was told is
\* true, and the byte cost at most what it may, for the device or for the client.
LEMMA ByteIsRead ==
  ASSUME Served, Reader, devGot \in Seq(Bytes), NEW C \in Bytes,
         EscRedirectChar(C), UNCHANGED ModemState
  PROVE  Served' /\ Replied' /\ Reader' /\ Forwarded' /\ Handled
<1>1. Last' = C
  BY DEF EscRedirectChar
<1>2. CASE IACEscape = "Normal"
  <2>1. NormalChar(C)
    BY <1>2 DEF EscRedirectChar
  <2>2. Handled
    BY <2>1 DEF NormalChar, Handled
  <2> QED
    BY <1>1, <1>2, <2>1, <2>2, NormalCharIsRead
<1>3. CASE IACEscape = "Received"
  <2>1. ReceivedChar(C)
    BY <1>3 DEF EscRedirectChar
  <2>2. Handled
    BY <2>1 DEF ReceivedChar, Handled
  <2> QED
    BY <1>1, <1>3, <2>1, <2>2, ReceivedCharIsRead
<1>4. CASE IACEscape = "Command"
  <2>1. CommandChar(C)
    BY <1>4 DEF EscRedirectChar
  <2>2. Forwarded'
    <3>1. ToDevice(<< >>)
      BY <2>1 DEF CommandChar
    <3> QED
      BY <3>1, DeviceGets
  <2>3. CASE IACCommand[2] = SB /\ Len(IACCommand) >= 4 /\ IACCommand[4] = 0
    <3>1. SignatureChar(C)
      BY <2>1, <2>3 DEF CommandChar
    <3> QED
      BY <1>1, <1>4, <2>2, <2>3, <3>1, SignatureCharIsRead
  <2>4. CASE ~(IACCommand[2] = SB /\ Len(IACCommand) >= 4 /\ IACCommand[4] = 0)
    <3>1. FixedChar(C)
      BY <2>1, <2>4 DEF CommandChar
    <3> QED
      BY <1>1, <1>4, <2>2, <2>4, <3>1, FixedCharIsRead
  <2> QED
    BY <2>3, <2>4
<1> QED
  BY <1>2, <1>3, <1>4 DEF Reader

-----------------------------------------------------------------------------
(* The invariant: what is read, told and sent                              *)

\* What the client still sends, the device as it was opened, the lines, and the
\* bounds.
World ==
    /\ pending \in Seq(Bytes) /\ initialport \in Opened /\ lines \subseteq Lines
    /\ ModemState \subseteq Bytes /\ aligned \in BOOLEAN
    /\ items \in 0..MaxItems /\ changes \in 0..MaxLines /\ clients \in 1..MaxClients

\* What is read, told and sent.
ServerInv == Served /\ Replied /\ Reader /\ Forwarded /\ World

\* The invariant says what the runs check.
LEMMA ServerInvFacts ==
  ServerInv => TypeOK /\ ToldIsTrue /\ NotifiedIsTrue
<1> SUFFICES ASSUME ServerInv PROVE TypeOK /\ ToldIsTrue /\ NotifiedIsTrue
  OBVIOUS
<1>1. Served /\ Replied /\ Reader /\ Forwarded /\ World
  BY DEF ServerInv
<1>2. TypeOK
  <2>1. /\ IACEscape \in {"Normal", "Received", "Command"}
        /\ IACSigEscape \in {"Normal", "Received"}
        /\ IACCommand \in Seq(Bytes)
        /\ Len(IACCommand) <= 10 \/ (IACCommand[2] = SB /\ IACCommand[4] = 0)
    BY <1>1 DEF Reader
  <2>2. /\ {Last, LastOut, ModemStateMask} \subseteq Bytes /\ LineStateMask \in {0, 16}
        /\ is_will \cup is_do \cup sent_will \cup sent_do \subseteq {BINARY, COMPORT}
        /\ port \in Termios /\ InputFlow \in BOOLEAN /\ BreakSignaled \in BOOLEAN
        /\ DOMAIN told = Known
    BY <1>1 DEF Reader, Served
  <2>3. {toDev, toNet, pending, devGot} \subseteq Seq(Bytes)
    BY <1>1 DEF Replied, Forwarded, World
  <2> QED
    BY <1>1, <2>1, <2>2, <2>3 DEF TypeOK, World
<1>3. ToldIsTrue
  BY <1>1 DEF Served
<1>4. NotifiedIsTrue
  <2>1. ToldIsRemembered
    BY <1>1 DEF Served
  <2> QED
    BY <2>1 DEF NotifiedIsTrue, ToldIsRemembered, Differs
<1> QED
  BY <1>2, <1>3, <1>4

\* A port that was just opened is a port.
LEMMA OpenedIsPort == Opened \subseteq Termios
BY ParserAssumption DEF InitialPorts

\* Nothing is told yet.
LEMMA NothingToldYet ==
  /\ DOMAIN [k \in Known |-> << >>] = Known
  /\ \A k \in Known : [x \in Known |-> << >>][k] = << >>
  /\ DOMAIN << >> = {}
OBVIOUS

\* Initially the invariant holds.
LEMMA InitServerInv == Init => ServerInv
<1> SUFFICES ASSUME Init PROVE ServerInv
  OBVIOUS
<1>1. << >> \in Seq(Bytes) /\ Len(<< >>) = 0
  OBVIOUS
<1>2. told = [k \in Known |-> << >>]
  BY DEF Init
<1>3. DOMAIN told = Known /\ \A k \in Known : told[k] = << >>
  BY <1>2
<1>4. ToldIsTrue
  BY <1>3, KnownKeys DEF ToldIsTrue
<1>5. ToldIsRemembered
  BY <1>3, KnownKeys, NothingToldYet DEF ToldIsRemembered
<1>6. Served
  <2>1. 0 \in Bytes /\ 255 \in Bytes
    BY DEF Bytes
  <2>2. port \in Termios
    BY OpenedIsPort DEF Init
  <2> QED
    BY <1>3, <1>4, <1>5, <2>1, <2>2 DEF Served, Init
<1>7. Replied
  BY <1>1 DEF Init, Replied, ReplyBound
<1>8. Reader
  <2>1. 0 \in Bytes
    BY DEF Bytes
  <2>2. IACCommand = << >> /\ IACEscape = "Normal" /\ IACSigEscape = "Normal" /\ Last = 0
    BY DEF Init
  <2> QED
    BY <1>1, <2>1, <2>2 DEF Reader, Collecting
<1>9. Forwarded
  BY <1>1 DEF Init, Forwarded
<1>10. World
  BY <1>1, ParserAssumption DEF Init, World
<1> QED
  BY <1>6, <1>7, <1>8, <1>9, <1>10 DEF ServerInv

\* What the client sends is bytes.
LEMMA ItemBytes ==
  /\ \A b \in Data : DataItem(b).bytes \in Seq(Bytes)
  /\ \A verb \in {WILL, WONT, DO, DONT}, o \in {BINARY, COMPORT} :
        OptionItem(verb, o).bytes \in Seq(Bytes)
  /\ \A cmd \in Commands : \A param \in Params[cmd] :
        CommandItem(cmd, param).bytes \in Seq(Bytes)
<1>1. {IAC, SB, SE, CR, COMPORT, 0} \subseteq Bytes /\ Data \subseteq Bytes
      /\ {WILL, WONT, DO, DONT} \subseteq Bytes /\ {BINARY, COMPORT} \subseteq Bytes
      /\ Commands \subseteq Bytes
  <2>1. {IAC, SB, SE, CR, COMPORT, 0} \subseteq Bytes /\ {WILL, WONT, DO, DONT} \subseteq Bytes
        /\ {BINARY, COMPORT} \subseteq Bytes
    BY ONLY ProtocolBytes
  <2>2. Data \subseteq Bytes
    BY ParserAssumption
  <2>3. Commands \subseteq Bytes
    BY ONLY DEF Commands, Bytes
  <2> QED
    BY ONLY <2>1, <2>2, <2>3
<1>2. ASSUME NEW b \in Data PROVE DataItem(b).bytes \in Seq(Bytes)
  <2>1. DataItem(b).bytes \in {<<IAC, IAC>>, <<CR, 0>>, <<b>>}
    BY DEF DataItem
  <2>2. <<IAC, IAC>> \in Seq(Bytes) /\ <<CR, 0>> \in Seq(Bytes) /\ <<b>> \in Seq(Bytes)
    BY <1>1
  <2> QED
    BY ONLY <2>1, <2>2
<1>3. ASSUME NEW verb \in {WILL, WONT, DO, DONT}, NEW o \in {BINARY, COMPORT}
      PROVE  OptionItem(verb, o).bytes \in Seq(Bytes)
  <2>1. IAC \in Bytes /\ verb \in Bytes /\ o \in Bytes
    BY <1>1
  <2>2. <<IAC, verb, o>> \in Seq(Bytes)
    BY ONLY <2>1
  <2> QED
    BY <2>2 DEF OptionItem
<1>4. ASSUME NEW cmd \in Commands, NEW param \in Params[cmd]
      PROVE  CommandItem(cmd, param).bytes \in Seq(Bytes)
  <2> DEFINE head == <<IAC, SB, COMPORT, cmd>>
             e == EscapeParam(param)
             tail == <<IAC, SE>>
  <2>1. CommandItem(cmd, param).bytes = head \o e \o tail
    BY DEF CommandItem
  <2>2. head \in Seq(Bytes) /\ tail \in Seq(Bytes)
    <3>1. IAC \in Bytes /\ SB \in Bytes /\ COMPORT \in Bytes /\ SE \in Bytes /\ cmd \in Bytes
      BY <1>1
    <3> QED
      BY ONLY <3>1
  <2>3. e \in Seq(Bytes)
    <3>1. param \in Seq(Bytes)
      BY ParserAssumption
    <3> QED
      BY <3>1, EscapeParamFacts
  <2> HIDE DEF head, e, tail
  <2>4. head \o e \in Seq(Bytes)
    BY <2>2, <2>3, ConcatFacts
  <2>5. head \o e \o tail \in Seq(Bytes)
    BY <2>2, <2>4, ConcatFacts
  <2> QED
    BY <2>1, <2>5
<1> QED
  BY <1>2, <1>3, <1>4

\* The byte that stands for a set of bits is a byte.
LEMMA ByteIsByte == \A bits : Byte(bits) \in Bytes
<1> TAKE bits
<1> DEFINE bit(b) == IF b \in bits THEN b ELSE 0
<1>1. \A b \in Nat : bit(b) \in {0, b}
  OBVIOUS
<1>2. Byte(bits) = bit(1) + bit(2) + bit(4) + bit(8) + bit(16) + bit(32) + bit(64) + bit(128)
  BY DEF Byte
<1>3. /\ bit(1) \in {0, 1} /\ bit(2) \in {0, 2} /\ bit(4) \in {0, 4} /\ bit(8) \in {0, 8}
      /\ bit(16) \in {0, 16} /\ bit(32) \in {0, 32} /\ bit(64) \in {0, 64}
      /\ bit(128) \in {0, 128}
  BY <1>1
<1> HIDE DEF bit
<1>4. /\ bit(1) \in Int /\ bit(2) \in Int /\ bit(4) \in Int /\ bit(8) \in Int
      /\ bit(16) \in Int /\ bit(32) \in Int /\ bit(64) \in Int /\ bit(128) \in Int
      /\ bit(1) >= 0 /\ bit(2) >= 0 /\ bit(4) >= 0 /\ bit(8) >= 0
      /\ bit(16) >= 0 /\ bit(32) >= 0 /\ bit(64) >= 0 /\ bit(128) >= 0
      /\ bit(1) <= 1 /\ bit(2) <= 2 /\ bit(4) <= 4 /\ bit(8) <= 8
      /\ bit(16) <= 16 /\ bit(32) <= 32 /\ bit(64) <= 64 /\ bit(128) <= 128
  BY <1>3
<1>5. /\ bit(1) + bit(2) + bit(4) + bit(8) + bit(16) + bit(32) + bit(64) + bit(128) \in Int
      /\ bit(1) + bit(2) + bit(4) + bit(8) + bit(16) + bit(32) + bit(64) + bit(128) >= 0
      /\ bit(1) + bit(2) + bit(4) + bit(8) + bit(16) + bit(32) + bit(64) + bit(128) <= 255
  BY <1>4
<1> QED
  BY <1>2, <1>5 DEF Bytes

\* What one poll remembers is bytes.
LEMMA ModemStateBytes ==
  ASSUME lines \subseteq Lines, NEW before PROVE GetModemState(before) \subseteq Bytes
<1>1. Lines \subseteq {16, 32, 64, 128}
  BY ParserAssumption DEF CTS, DSR, RING, RLSD
<1>2. \A l \in Lines : l \in Bytes /\ l \div 16 \in Bytes
  BY <1>1 DEF Bytes
<1> QED
  BY <1>2 DEF GetModemState

\* A step that sends nothing to the device and leaves the options, the settings and
\* what was told.
LEMMA ServedKept ==
  ASSUME ServerInv, UNCHANGED <<parser, options, settings, ModemState, told>>,
         LastOut' \in Bytes
  PROVE  Served' /\ Reader'
<1>1. Served /\ Reader
  BY DEF ServerInv
<1>2. Served'
  BY <1>1, NothingIsServed
<1>3. Reader'
  BY <1>1 DEF Reader, Collecting, parser, Length
<1> QED
  BY <1>2, <1>3

\* The client begins an item.
LEMMA ClientSendsKeeps ==
  ASSUME ServerInv, ClientSends PROVE ServerInv'
<1>1. /\ UNCHANGED <<parser, options, settings, ModemState, told, LastOut>>
      /\ toDev' = << >> /\ toNet' = << >> /\ devGot' = << >> /\ pending' = current'.bytes
  BY DEF ClientSends, statics
<1>2. << >> \in Seq(Bytes) /\ Len(<< >>) = 0
  OBVIOUS
<1>3. Served' /\ Reader'
  BY <1>1, ServedKept DEF ServerInv, Served
<1>4. Replied' /\ Forwarded'
  BY <1>1, <1>2 DEF Replied, ReplyBound, Forwarded
<1>5. pending' \in Seq(Bytes)
  BY <1>1, ItemBytes DEF ClientSends
<1>6. World'
  <2>1. /\ UNCHANGED <<initialport, lines, aligned, changes, clients, ModemState>>
        /\ items < MaxItems /\ items' = items + 1
    BY DEF ClientSends, NextSteps, statics
  <2> QED
    BY <1>5, <2>1, ParserAssumption DEF ServerInv, World
<1> QED
  BY <1>3, <1>4, <1>6 DEF ServerInv

\* The main loop reads one byte of the client.
LEMMA ReadNetKeeps ==
  ASSUME ServerInv, ReadNet PROVE ServerInv'
<1>1. pending \in Seq(Bytes) /\ pending # << >> /\ pending' = Tail(pending)
  BY DEF ReadNet, ServerInv, World
<1>2. Head(pending) \in Bytes /\ Tail(pending) \in Seq(Bytes)
  BY <1>1
<1>3. EscRedirectChar(Head(pending)) /\ NextSteps /\ UNCHANGED <<ModemState, current, items>>
  BY DEF ReadNet
<1>4. Served' /\ Replied' /\ Reader' /\ Forwarded'
  BY <1>2, <1>3, ByteIsRead DEF ServerInv, Forwarded
<1>5. World'
  BY <1>1, <1>2, <1>3 DEF ServerInv, World, NextSteps
<1> QED
  BY <1>4, <1>5 DEF ServerInv

\* The main loop reads one byte of the device.
LEMMA ReadDevKeeps ==
  ASSUME ServerInv, ReadDev PROVE ServerInv'
<1>1. PICK b \in Data : toNet' = EscWriteChar(b) /\ LastOut' = b
  BY DEF ReadDev
<1>2. b \in Bytes
  BY ParserAssumption
<1>3. Served' /\ Reader'
  BY <1>1, <1>2, ServedKept DEF ReadDev
<1>4. Replied'
  <2>1. toNet' \in Seq(Bytes) /\ Len(toNet') \in 1..2
    BY <1>1, <1>2, EscapedFacts DEF EscWriteChar
  <2> QED
    BY <2>1 DEF Replied, ReplyBound
<1>5. Forwarded'
  <2>1. toDev' = << >> /\ devGot' = devGot /\ devGot \in Seq(Bytes)
    BY DEF ReadDev, ServerInv, Forwarded
  <2>2. << >> \in Seq(Bytes) /\ Len(<< >>) = 0
    OBVIOUS
  <2> QED
    BY <2>1, <2>2 DEF Forwarded
<1>6. World'
  <2>1. /\ UNCHANGED <<initialport, lines, aligned, changes, clients, ModemState, pending>>
        /\ items < MaxItems /\ items' = items + 1
    BY DEF ReadDev, NextSteps
  <2> QED
    BY <2>1, ParserAssumption DEF ServerInv, World
<1> QED
  BY <1>3, <1>4, <1>5, <1>6 DEF ServerInv

\* The control lines change.
LEMMA LinesChangeKeeps ==
  ASSUME ServerInv, LinesChange PROVE ServerInv'
<1>1. /\ UNCHANGED <<parser, options, settings, ModemState, told, LastOut>>
      /\ UNCHANGED <<toDev, toNet, pending, devGot, initialport, aligned, items, clients>>
      /\ changes < MaxLines /\ changes' = changes + 1 /\ lines' \subseteq Lines
  BY DEF LinesChange, statics
<1>2. Served' /\ Reader'
  BY <1>1, ServedKept DEF ServerInv, Served
<1>3. Replied' /\ Forwarded'
  BY <1>1 DEF ServerInv, Replied, ReplyBound, Forwarded
<1>4. World'
  BY <1>1, ParserAssumption DEF ServerInv, World
<1> QED
  BY <1>2, <1>3, <1>4 DEF ServerInv

\* The main loop tells the client of the lines.
LEMMA ReadModemKeeps ==
  ASSUME ServerInv, ReadModem PROVE ServerInv'
<1> DEFINE newstate == GetModemState(ModemState)
           masked == Masked(ModemStateMask)
           b == Byte({x \in newstate : (ModemStateMask \div x) % 2 = 1})
<1>1. /\ ModemState' = newstate /\ SendCommand(107, <<b>>)
      /\ told' = [told EXCEPT ![107] = [l \in masked |-> l \in newstate]]
  BY DEF ReadModem, Remember
<1>2. /\ UNCHANGED <<parser, options, settings, pending, current, devGot, items>>
      /\ UNCHANGED <<initialport, lines, aligned, changes, clients>> /\ toDev' = << >>
  BY DEF ReadModem, NextSteps
<1>3. Served /\ Reader /\ World /\ LastOut \in Bytes /\ devGot \in Seq(Bytes)
  BY DEF ServerInv, Served, Forwarded
<1>4. b \in Bytes /\ 107 \in Bytes \ {100, 101}
  BY ByteIsByte, ProtocolBytes
<1> HIDE DEF b
<1>5. Replied' /\ LastOut' \in Bytes
  BY <1>1, <1>3, <1>4, ByteReply
<1>6. newstate \subseteq Bytes
  BY <1>3, ModemStateBytes DEF World
<1> DEFINE new == [l \in masked |-> l \in newstate]
<1>7. /\ DOMAIN told' = Known /\ told'[107] = new
      /\ \A k \in {1, 2, 3, 4, 5, 10, 11, 50} : told'[k] = told[k]
  <2>1. told' = [told EXCEPT ![107] = new]
    BY <1>1
  <2> HIDE DEF new
  <2>2. 107 \in Known
    BY KnownKeys
  <2>3. DOMAIN told' = Known /\ told'[107] = new /\ \A k \in Known \ {107} : told'[k] = told[k]
    BY <1>3, <2>1, <2>2, ToldBut
  <2> QED
    BY <2>3, KnownKeys
<1>8. UNCHANGED <<port, ModemStateMask, LineStateMask, InputFlow, BreakSignaled>>
  BY <1>2 DEF settings
<1>9. ToldIsTrue'
  <2>1. ToldIsTrue
    BY <1>3 DEF Served
  <2> QED
    BY <1>7, <1>8, <2>1, ToldStaysTrue
<1>10. ToldIsRemembered'
  <2>1. DOMAIN told'[107] = masked /\ \A l \in masked : told'[107][l] = (l \in newstate)
    BY <1>7
  <2>2. masked \subseteq Lines
    BY DEF Masked
  <2> HIDE DEF newstate
  <2> QED
    BY <1>1, <1>8, <2>1, <2>2 DEF ToldIsRemembered, Masked
<1>11. Served'
  BY <1>2, <1>3, <1>5, <1>7, <1>8, <1>9, <1>10 DEF Served, options
<1>12. Reader'
  BY <1>2, <1>3 DEF Reader, Collecting, parser, Length
<1>13. Forwarded'
  <2>1. << >> \in Seq(Bytes) /\ Len(<< >>) = 0
    OBVIOUS
  <2> QED
    BY <1>2, <1>3, <2>1 DEF Forwarded
<1>14. World'
  BY <1>1, <1>2, <1>3, <1>6 DEF World
<1> QED
  BY <1>5, <1>11, <1>12, <1>13, <1>14 DEF ServerInv

\* The client leaves and another one comes.
LEMMA NextClientKeeps ==
  ASSUME ServerInv, NextClient PROVE ServerInv'
<1>1. Served /\ Reader /\ World
  BY DEF ServerInv
<1>2. << >> \in Seq(Bytes) /\ Len(<< >>) = 0
  OBVIOUS
<1>3. UNCHANGED <<LastOut, ModemStateMask, LineStateMask, InputFlow, BreakSignaled>>
  BY DEF NextClient
<1>4. told' = [k \in Known |-> << >>]
  BY DEF NextClient
<1>5. DOMAIN told' = Known /\ \A k \in Known : told'[k] = << >>
  BY <1>4
<1>6. ToldIsTrue'
  BY <1>5, KnownKeys DEF ToldIsTrue
<1>7. ToldIsRemembered'
  BY <1>5, KnownKeys, NothingToldYet DEF ToldIsRemembered
<1>8. port' \in Termios
  BY <1>1, OpenedIsPort DEF NextClient, World
<1>9. is_will' \cup is_do' \cup sent_will' \cup sent_do' \subseteq {BINARY, COMPORT}
  BY DEF NextClient
<1>10. Served'
  BY <1>1, <1>3, <1>5, <1>6, <1>7, <1>8, <1>9 DEF Served
<1>11. Reader'
  BY <1>1 DEF NextClient, Reader, Collecting, parser, Length
<1>12. Replied' /\ Forwarded'
  BY <1>2 DEF NextClient, Replied, ReplyBound, Forwarded
<1>13. World'
  <2>1. /\ UNCHANGED <<initialport, ModemState, lines, items, changes>> /\ pending' = << >>
        /\ clients < MaxClients /\ clients' = clients + 1
    BY DEF NextClient
  <2>2. aligned' \in BOOLEAN
    BY DEF NextClient
  <2> QED
    BY <1>1, <1>2, <2>1, <2>2, ParserAssumption DEF World
<1> QED
  BY <1>10, <1>11, <1>12, <1>13 DEF ServerInv

\* Every step keeps the invariant.
LEMMA NextServerInv == ServerInv /\ [Next]_vars => ServerInv'
<1> SUFFICES ASSUME ServerInv, [Next]_vars PROVE ServerInv'
  OBVIOUS
<1>1. CASE Next
  BY <1>1, ClientSendsKeeps, ReadNetKeeps, ReadDevKeeps, LinesChangeKeeps, ReadModemKeeps,
     NextClientKeeps DEF Next
<1>2. CASE UNCHANGED vars
  <2>1. /\ UNCHANGED <<parser, options, settings, ModemState, told, LastOut>>
        /\ UNCHANGED <<toDev, toNet, pending, devGot, initialport, lines, aligned>>
        /\ UNCHANGED <<items, changes, clients>>
    BY <1>2 DEF vars, statics, bounds
  <2>2. Served' /\ Reader'
    BY <2>1, ServedKept DEF ServerInv, Served
  <2>3. Replied' /\ Forwarded' /\ World'
    BY <2>1 DEF ServerInv, Replied, ReplyBound, Forwarded, World
  <2> QED
    BY <2>2, <2>3 DEF ServerInv
<1> QED
  BY <1>1, <1>2

\* The invariant holds of every behaviour of the server.
THEOREM ServerInvariant == Spec => []ServerInv
<1>1. Init => ServerInv
  BY InitServerInv
<1>2. ServerInv /\ [Next]_vars => ServerInv'
  BY NextServerInv
<1> QED
  BY <1>1, <1>2, PTL DEF Spec

\* Every variable holds a value of its type, and no command but a signature is
\* collected beyond the longest one's length, whatever the clients send.
THEOREM ParserTypeCorrect == Spec => []TypeOK
<1>1. ServerInv => TypeOK
  BY ServerInvFacts
<1> QED
  BY <1>1, ServerInvariant, PTL

\* What the client was last told of a setting is in force.
THEOREM ParserToldIsTrue == Spec => []ToldIsTrue
<1>1. ServerInv => ToldIsTrue
  BY ServerInvFacts
<1> QED
  BY <1>1, ServerInvariant, PTL

\* When a poll of the control lines finds nothing to tell, the client knows them.
THEOREM ParserNotifiedIsTrue == Spec => []NotifiedIsTrue
<1>1. ServerInv => NotifiedIsTrue
  BY ServerInvFacts
<1> QED
  BY <1>1, ServerInvariant, PTL

-----------------------------------------------------------------------------
(* The items of the client                                                 *)

\* A parameter of a command has the length of RFC 2217 and at most one byte 255, and
\* the parameter of a speed that the port knows has none.
LEMMA ParamFacts ==
  ASSUME NEW cmd \in Commands, NEW param \in Params[cmd]
  PROVE  /\ param \in Seq(Bytes) /\ Len(param) \in Nat
         /\ cmd # 0 => /\ Len(param) = IF cmd = 1 THEN 4 ELSE IF cmd \in {8, 9} THEN 0 ELSE 1
                       /\ \A i, j \in 1..Len(param) : param[i] = IAC /\ param[j] = IAC => i = j
<1>1. /\ param \in Seq(Bytes)
      /\ cmd # 0 => Len(param) = IF cmd = 1 THEN 4 ELSE IF cmd \in {8, 9} THEN 0 ELSE 1
      /\ cmd = 1 => \A i, j \in 1..4 : param[i] = 255 /\ param[j] = 255 => i = j
  BY ParserAssumption
<1>2. Len(param) \in Nat
  BY <1>1
<1>3. ASSUME cmd # 0
      PROVE  \A i, j \in 1..Len(param) : param[i] = IAC /\ param[j] = IAC => i = j
  <2>1. CASE cmd = 1
    <3>1. Len(param) = 4
      BY <1>1, <2>1
    <3> QED
      BY ONLY <1>1, <2>1, <3>1 DEF IAC
  <2>2. CASE cmd # 1
    <3>1. Len(param) \in {0, 1}
      BY <1>1, <1>3, <2>2
    <3> DEFINE n == Len(param)
    <3>2. \A n1 \in {0, 1} : \A i, j \in 1..n1 : i = j
      OBVIOUS
    <3> QED
      BY ONLY <3>1, <3>2
  <2> QED
    BY <2>1, <2>2
<1> QED
  BY <1>1, <1>2, <1>3

\* The bytes of a command: its head, the escaped parameter, IAC and SE.
LEMMA CommandBytes ==
  ASSUME NEW cmd \in Commands, NEW param \in Params[cmd]
  PROVE  LET b == CommandItem(cmd, param).bytes
             e == EscapeParam(param)
         IN
         /\ b \in Seq(Bytes) /\ e \in Seq(Bytes) /\ Len(e) \in Nat
         /\ Len(b) = Len(e) + 6 /\ Len(b) \in Nat /\ Len(b) >= 6
         /\ b[1] = IAC /\ b[2] = SB /\ b[3] = COMPORT /\ b[4] = cmd
         /\ \A i \in 1..Len(e) : b[i + 4] = e[i]
         /\ b[Len(e) + 5] = IAC /\ b[Len(e) + 6] = SE
         /\ b = <<IAC, SB, COMPORT, cmd>> \o e \o <<IAC, SE>>
<1> DEFINE b == CommandItem(cmd, param).bytes
           e == EscapeParam(param)
           head == <<IAC, SB, COMPORT, cmd>>
           tail == <<IAC, SE>>
           m == head \o e
<1>1. b = m \o tail
  BY DEF CommandItem
<1>2. /\ head \in Seq(Bytes) /\ tail \in Seq(Bytes) /\ Len(head) = 4 /\ Len(tail) = 2
      /\ head[1] = IAC /\ head[2] = SB /\ head[3] = COMPORT /\ head[4] = cmd
      /\ tail[1] = IAC /\ tail[2] = SE
  <2>1. IAC \in Bytes /\ SB \in Bytes /\ COMPORT \in Bytes /\ SE \in Bytes /\ cmd \in Bytes
    BY ProtocolBytes
  <2>2. head \in Seq(Bytes) /\ tail \in Seq(Bytes)
    BY ONLY <2>1
  <2> QED
    BY <2>2
<1>3. e \in Seq(Bytes) /\ Len(e) \in Nat
  <2>1. param \in Seq(Bytes)
    BY ParserAssumption
  <2>2. e \in Seq(Bytes)
    BY <2>1, EscapeParamFacts
  <2> QED
    BY <2>2
<1>4. b = <<IAC, SB, COMPORT, cmd>> \o e \o <<IAC, SE>>
  BY DEF CommandItem
<1> HIDE DEF head, tail, b, e
<1>5. /\ m \in Seq(Bytes) /\ Len(m) = Len(head) + Len(e)
      /\ \A i \in 1..Len(head) : m[i] = head[i]
      /\ \A i \in 1..Len(e) : m[Len(head) + i] = e[i]
  BY <1>2, <1>3, ConcatFacts
<1> HIDE DEF m
<1>6. /\ b \in Seq(Bytes) /\ Len(b) = Len(m) + Len(tail)
      /\ \A i \in 1..Len(m) : b[i] = m[i]
      /\ \A i \in 1..Len(tail) : b[Len(m) + i] = tail[i]
  <2>1. /\ m \o tail \in Seq(Bytes) /\ Len(m \o tail) = Len(m) + Len(tail)
        /\ \A i \in 1..Len(m) : (m \o tail)[i] = m[i]
        /\ \A i \in 1..Len(tail) : (m \o tail)[Len(m) + i] = tail[i]
    BY <1>2, <1>5, ConcatFacts
  <2> QED
    BY ONLY <1>1, <2>1
<1>7. Len(m) = Len(e) + 4 /\ Len(b) = Len(e) + 6 /\ Len(b) \in Nat /\ Len(b) >= 6
  <2>1. Len(m) = 4 + Len(e) /\ Len(b) = Len(m) + 2
    BY <1>2, <1>5, <1>6
  <2> QED
    BY ONLY <1>3, <2>1
<1>8. b[1] = IAC /\ b[2] = SB /\ b[3] = COMPORT /\ b[4] = cmd
  <2>1. \A i \in 1..4 : i \in 1..Len(m)
    BY ONLY <1>3, <1>7
  <2>2. \A i \in 1..4 : b[i] = head[i]
    BY <1>2, <1>5, <1>6, <2>1
  <2> QED
    BY <1>2, <2>2
<1>9. ASSUME NEW i \in 1..Len(e) PROVE b[i + 4] = e[i]
  <2>1. 4 + i \in 1..Len(m) /\ i + 4 = 4 + i
    BY ONLY <1>3, <1>7, <1>9
  <2>2. m[4 + i] = e[i]
    BY <1>2, <1>5
  <2> QED
    BY <1>6, <2>1, <2>2
<1>10. b[Len(e) + 5] = IAC /\ b[Len(e) + 6] = SE
  <2>1. Len(m) + 1 = Len(e) + 5 /\ Len(m) + 2 = Len(e) + 6
    BY ONLY <1>3, <1>7
  <2>2. b[Len(m) + 1] = tail[1] /\ b[Len(m) + 2] = tail[2]
    BY <1>2, <1>6
  <2> QED
    BY <1>2, <2>1, <2>2
<1> QED
  BY <1>3, <1>4, <1>6, <1>7, <1>8, <1>9, <1>10 DEF b, e

\* A command of fixed length has that length, or one byte more if its parameter is
\* escaped; its parameter begins at the fifth byte, and is there as a whole if it
\* is not escaped.
LEMMA FixedCommand ==
  ASSUME NEW cmd \in Commands \ {0}, NEW param \in Params[cmd],
         NEW b, b = CommandItem(cmd, param).bytes
  PROVE  /\ FixedLength(cmd) \in {6, 7, 10}
         /\ IsEscaped(param) => Len(b) = FixedLength(cmd) + 1
         /\ ~IsEscaped(param) => Len(b) = FixedLength(cmd)
         /\ Len(param) > 0 => b[5] = param[1]
         /\ cmd = 1 /\ ~IsEscaped(param) => SubSeq(b, 5, 8) = param
<1>1. /\ param \in Seq(Bytes) /\ Len(param) \in Nat
      /\ Len(param) = IF cmd = 1 THEN 4 ELSE IF cmd \in {8, 9} THEN 0 ELSE 1
      /\ \A i, j \in 1..Len(param) : param[i] = IAC /\ param[j] = IAC => i = j
  BY ParamFacts
<1> DEFINE e == EscapeParam(param)
<1>2. /\ e \in Seq(Bytes)
      /\ Len(e) = Len(param) + IF IsEscaped(param) THEN 1 ELSE 0
      /\ ~IsEscaped(param) => e = param
      /\ Len(param) > 0 => Len(e) > 0 /\ e[1] = param[1]
  BY <1>1, EscapeParamFacts
<1>3. /\ b \in Seq(Bytes) /\ Len(e) \in Nat /\ Len(b) = Len(e) + 6
      /\ \A i \in 1..Len(e) : b[i + 4] = e[i]
  <2>1. cmd \in Commands
    OBVIOUS
  <2> QED
    BY <2>1, CommandBytes
<1> HIDE DEF e
<1>4. FixedLength(cmd) = Len(param) + 6 /\ FixedLength(cmd) \in {6, 7, 10}
  BY <1>1 DEF FixedLength
<1>5. IsEscaped(param) => Len(b) = FixedLength(cmd) + 1
  <2> SUFFICES ASSUME IsEscaped(param) PROVE Len(b) = FixedLength(cmd) + 1
    OBVIOUS
  <2>1. Len(e) = Len(param) + 1
    BY <1>2
  <2>2. Len(param) \in Nat /\ Len(b) = Len(e) + 6 /\ FixedLength(cmd) = Len(param) + 6
    BY <1>1, <1>3, <1>4
  <2> QED
    BY ONLY <2>1, <2>2
<1>6. ~IsEscaped(param) => Len(b) = FixedLength(cmd)
  <2> SUFFICES ASSUME ~IsEscaped(param) PROVE Len(b) = FixedLength(cmd)
    OBVIOUS
  <2>1. Len(e) = Len(param)
    BY <1>2
  <2>2. Len(param) \in Nat /\ Len(b) = Len(e) + 6 /\ FixedLength(cmd) = Len(param) + 6
    BY <1>1, <1>3, <1>4
  <2> QED
    BY ONLY <2>1, <2>2
<1>7. Len(param) > 0 => b[5] = param[1]
  <2> SUFFICES ASSUME Len(param) > 0 PROVE b[5] = param[1]
    OBVIOUS
  <2>1. 1 \in 1..Len(e) /\ e[1] = param[1]
    BY <1>2, <1>3
  <2>2. b[1 + 4] = e[1]
    BY <1>3, <2>1
  <2>3. 1 + 4 = 5
    OBVIOUS
  <2> QED
    BY <2>1, <2>2, <2>3
<1>8. ASSUME cmd = 1, ~IsEscaped(param) PROVE SubSeq(b, 5, 8) = param
  <2>1. e = param /\ Len(param) = 4 /\ Len(b) = 10
    <3>1. e = param /\ Len(param) = 4
      BY <1>1, <1>2, <1>8
    <3> QED
      BY <1>3, <3>1
  <2>2. \A i \in 5..8 : b[i] \in Bytes
    <3>1. \A i \in 5..8 : i \in 1..10
      OBVIOUS
    <3> QED
      BY <1>3, <2>1, <3>1
  <2>3. /\ SubSeq(b, 5, 8) \in Seq(Bytes)
        /\ Len(SubSeq(b, 5, 8)) = 4
        /\ \A i \in 1..4 : SubSeq(b, 5, 8)[i] = b[5 + i - 1]
    <3>1. /\ SubSeq(b, 5, 8) \in Seq(Bytes)
          /\ Len(SubSeq(b, 5, 8)) = IF 5 <= 8 THEN 8 - 5 + 1 ELSE 0
          /\ \A i \in 1..8 - 5 + 1 : SubSeq(b, 5, 8)[i] = b[5 + i - 1]
      BY <2>2, SubSeqProperties
    <3>2. 8 - 5 + 1 = 4 /\ 5 <= 8
      OBVIOUS
    <3> QED
      BY <3>1, <3>2
  <2>4. \A i \in 1..4 : SubSeq(b, 5, 8)[i] = param[i]
    <3>1. \A i \in 1..4 : 5 + i - 1 = i + 4
      OBVIOUS
    <3> QED
      BY <1>3, <2>1, <2>3, <3>1
  <2> QED
    BY <1>1, <2>1, <2>3, <2>4, SeqEqual
<1> QED
  BY <1>4, <1>5, <1>6, <1>7, <1>8

-----------------------------------------------------------------------------
(* The escapes of a signature                                              *)

\* The condition on the places of Closes.
Starts(s, starts) ==
    \A i \in starts :
        \/ i = Len(s) - 1 /\ s[i] = IAC /\ s[i + 1] = SE
        \/ i < Len(s) - 1 /\ s[i] = IAC /\ s[i + 1] = IAC /\ i + 2 \in starts
        \/ i < Len(s) - 1 /\ s[i] # IAC /\ i + 1 \in starts

\* What is left of a closed sequence after one of its places is closed too.
LEMMA ClosesShift ==
  ASSUME NEW s \in Seq(Bytes), NEW starts \in SUBSET (1..Len(s)), Starts(s, starts),
         NEW k \in Nat, k + 1 \in starts, NEW t \in Seq(Bytes), Len(t) = Len(s) - k,
         \A i \in 1..Len(t) : t[i] = s[i + k]
  PROVE  Closes(t)
<1> DEFINE new == {i \in 1..Len(t) : i + k \in starts}
<1>1. Len(s) \in Nat /\ Len(t) \in Nat /\ k + 1 \in 1..Len(s) /\ Len(t) = Len(s) - k
      /\ k \in Nat
  OBVIOUS
<1>2. 1 \in new
  <2>1. 1 \in 1..Len(t) /\ 1 + k = k + 1
    BY <1>1
  <2> QED
    BY <2>1
<1>3. ASSUME NEW i \in new
      PROVE  \/ i = Len(t) - 1 /\ t[i] = IAC /\ t[i + 1] = SE
             \/ i < Len(t) - 1 /\ t[i] = IAC /\ t[i + 1] = IAC /\ i + 2 \in new
             \/ i < Len(t) - 1 /\ t[i] # IAC /\ i + 1 \in new
  <2>1. i \in 1..Len(t) /\ i + k \in starts /\ t[i] = s[i + k]
    OBVIOUS
  <2>2. i \in Int /\ (i + 1) + k = (i + k) + 1 /\ (i + 2) + k = (i + k) + 2
    BY <2>1
  <2>3. CASE i + k = Len(s) - 1 /\ s[i + k] = IAC /\ s[(i + k) + 1] = SE
    <3>1. i = Len(t) - 1 /\ i + 1 \in 1..Len(t)
      <4>1. i + k = Len(s) - 1
        BY <2>3
      <4> QED
        BY ONLY <1>1, <2>2, <4>1, i \in 1..Len(t)
    <3>2. t[i + 1] = s[(i + k) + 1]
      BY <2>2, <3>1
    <3> QED
      BY <2>1, <2>3, <3>1, <3>2
  <2>4. CASE /\ i + k < Len(s) - 1 /\ s[i + k] = IAC /\ s[(i + k) + 1] = IAC
             /\ (i + k) + 2 \in starts
    <3>1. i < Len(t) - 1 /\ i + 1 \in 1..Len(t)
      BY <1>1, <2>1, <2>4
    <3>2. t[i + 1] = s[(i + k) + 1]
      BY <2>2, <3>1
    <3>3. i + 2 \in new
      <4>1. (i + 2) + k \in 1..Len(s) /\ (i + 2) + k \in starts
        BY <2>2, <2>4
      <4>2. i + 2 \in 1..Len(t)
        BY ONLY <1>1, <2>2, <3>1
      <4> QED
        BY <4>1, <4>2
    <3> QED
      BY <2>1, <2>4, <3>1, <3>2, <3>3
  <2>5. CASE i + k < Len(s) - 1 /\ s[i + k] # IAC /\ (i + k) + 1 \in starts
    <3>1. i < Len(t) - 1 /\ i + 1 \in 1..Len(t)
      BY <1>1, <2>1, <2>5
    <3>2. i + 1 \in new
      BY <2>2, <2>5, <3>1
    <3> QED
      BY <2>1, <2>5, <3>1, <3>2
  <2> QED
    BY <2>1, <2>3, <2>4, <2>5 DEF Starts
<1>4. new \in SUBSET (1..Len(t))
  OBVIOUS
<1> HIDE DEF new
<1> QED
  BY <1>2, <1>3, <1>4 DEF Closes

\* A closed sequence is IAC SE, or begins with an escaped IAC or another byte and is
\* closed after it.
LEMMA ClosesNext ==
  ASSUME NEW s \in Seq(Bytes), Closes(s)
  PROVE  /\ s # << >> /\ Head(s) = s[1] /\ Tail(s) \in Seq(Bytes)
         /\ s[1] # IAC => Closes(Tail(s))
         /\ s[1] = IAC => \/ Tail(s) = <<SE>>
                          \/ /\ Tail(s) # << >> /\ Head(Tail(s)) = IAC
                             /\ Closes(Tail(Tail(s)))
<1>1. PICK starts \in SUBSET (1..Len(s)) : 1 \in starts /\ Starts(s, starts)
  BY DEF Closes, Starts
<1>2. 1 \in 1..Len(s) /\ Len(s) \in Nat
  BY <1>1
<1>3. s # << >> /\ Head(s) = s[1] /\ Tail(s) \in Seq(Bytes)
  BY <1>2
<1>4. Len(Tail(s)) = Len(s) - 1 /\ \A i \in 1..Len(Tail(s)) : Tail(s)[i] = s[i + 1]
  BY <1>3, HeadTailProperties
<1>5. \/ 1 = Len(s) - 1 /\ s[1] = IAC /\ s[1 + 1] = SE
      \/ 1 < Len(s) - 1 /\ s[1] = IAC /\ s[1 + 1] = IAC /\ 1 + 2 \in starts
      \/ 1 < Len(s) - 1 /\ s[1] # IAC /\ 1 + 1 \in starts
  BY <1>1 DEF Starts
<1> DEFINE t == Tail(s)
<1>6. t \in Seq(Bytes) /\ Len(t) = Len(s) - 1 /\ \A i \in 1..Len(t) : t[i] = s[i + 1]
  BY <1>3, <1>4
<1> HIDE DEF t
<1>7. CASE 1 = Len(s) - 1 /\ s[1] = IAC /\ s[1 + 1] = SE
  <2>1. Len(t) = 1 /\ t[1] = SE
    <3>1. Len(t) = 1
      <4>1. Len(t) = Len(s) - 1 /\ 1 = Len(s) - 1
        BY <1>6, <1>7
      <4> QED
        BY ONLY <4>1
    <3>2. 1 \in 1..Len(t)
      BY <3>1
    <3>3. t[1] = s[1 + 1]
      BY <1>6, <3>2
    <3> QED
      BY <1>7, <3>1, <3>3
  <2>2. t = <<SE>>
    <3>1. SE \in Bytes
      BY ProtocolBytes
    <3>2. <<SE>> \in Seq(Bytes) /\ Len(<<SE>>) = 1 /\ <<SE>>[1] = SE
      BY <3>1
    <3>3. \A i \in 1..Len(t) : t[i] = <<SE>>[i]
      BY <2>1, <3>2
    <3> QED
      BY <1>6, <2>1, <3>2, <3>3, SeqEqual
  <2> QED
    BY <1>3, <1>7, <2>2 DEF t
<1>8. CASE 1 < Len(s) - 1 /\ s[1] = IAC /\ s[1 + 1] = IAC /\ 1 + 2 \in starts
  <2>1. Len(t) >= 2 /\ Len(t) \in Nat /\ 1 \in 1..Len(t)
    BY <1>2, <1>6, <1>8
  <2>2. t # << >> /\ Head(t) = IAC
    <3>1. t # << >>
      BY <1>6, <2>1
    <3>2. t[1] = IAC
      BY <1>6, <1>8, <2>1
    <3> QED
      BY <1>6, <3>1, <3>2
  <2> DEFINE u == Tail(t)
  <2>3. u \in Seq(Bytes) /\ Len(u) = Len(t) - 1 /\ \A i \in 1..Len(u) : u[i] = t[i + 1]
    BY <1>6, <2>2, HeadTailProperties
  <2> HIDE DEF u
  <2>4. Len(u) = Len(s) - 2
    BY <1>2, <1>6, <2>3
  <2>5. \A i \in 1..Len(u) : u[i] = s[i + 2]
    <3> TAKE i \in 1..Len(u)
    <3>1. i + 1 \in 1..Len(t) /\ (i + 1) + 1 = i + 2
      BY <2>1, <2>3
    <3> QED
      BY <1>6, <2>3, <3>1
  <2>6. 2 + 1 \in starts /\ 2 \in Nat
    BY <1>8
  <2>7. Closes(u)
    BY <1>1, <2>3, <2>4, <2>5, <2>6, ClosesShift
  <2> QED
    BY <1>3, <1>8, <2>2, <2>7 DEF t, u
<1>9. CASE 1 < Len(s) - 1 /\ s[1] # IAC /\ 1 + 1 \in starts
  <2>1. Closes(t)
    BY <1>1, <1>6, <1>9, ClosesShift
  <2> QED
    BY <1>3, <1>9, <2>1 DEF t
<1> QED
  BY <1>5, <1>7, <1>8, <1>9

\* One byte more, escaped, before the end of a closed sequence leaves it closed.
LEMMA ClosesOneMore ==
  ASSUME NEW s \in Seq(Bytes), Closes(s \o <<IAC, SE>>), NEW C \in Bytes,
         NEW piece, piece = IF C = IAC THEN <<IAC, IAC>> ELSE <<C>>
  PROVE  Closes((s \o piece) \o <<IAC, SE>>)
<1> DEFINE tail == <<IAC, SE>>
           u == s \o tail
           v == s \o piece
           w == v \o tail
           L == Len(s)
           n == Len(piece)
<1>1. tail \in Seq(Bytes) /\ Len(tail) = 2 /\ tail[1] = IAC /\ tail[2] = SE
  <2>1. IAC \in Bytes /\ SE \in Bytes
    BY ProtocolBytes
  <2> QED
    BY ONLY <2>1
<1>2. /\ piece \in Seq(Bytes) /\ n \in {1, 2} /\ piece[1] = C
      /\ C = IAC => n = 2 /\ piece[2] = IAC
      /\ C # IAC => n = 1
  <2>1. CASE C = IAC
    <3>1. piece = <<IAC, IAC>> /\ IAC \in Bytes
      BY <2>1, ProtocolBytes
    <3> QED
      BY ONLY <2>1, <3>1
  <2>2. CASE C # IAC
    <3>1. piece = <<C>>
      BY <2>2
    <3> QED
      BY ONLY C \in Bytes, <2>2, <3>1
  <2> QED
    BY <2>1, <2>2
<1>3. L \in Nat
  OBVIOUS
<1> HIDE DEF tail
<1>4. /\ u \in Seq(Bytes) /\ Len(u) = L + Len(tail)
      /\ \A i \in 1..L : u[i] = s[i]
      /\ \A i \in 1..Len(tail) : u[L + i] = tail[i]
  BY <1>1, ConcatFacts
<1>5. /\ v \in Seq(Bytes) /\ Len(v) = L + n
      /\ \A i \in 1..L : v[i] = s[i]
      /\ \A i \in 1..n : v[L + i] = piece[i]
  BY <1>2, ConcatFacts
<1> HIDE DEF u, v
<1>6. /\ w \in Seq(Bytes) /\ Len(w) = Len(v) + Len(tail)
      /\ \A i \in 1..Len(v) : w[i] = v[i]
      /\ \A i \in 1..Len(tail) : w[Len(v) + i] = tail[i]
  BY <1>1, <1>5, ConcatFacts
<1> HIDE DEF w, L, n
<1>7. Len(u) = L + 2 /\ u[L + 1] = IAC /\ u[L + 2] = SE
  <2>1. 1 \in 1..Len(tail) /\ 2 \in 1..Len(tail)
    BY <1>1
  <2> QED
    BY <1>1, <1>4, <2>1
<1>8. n \in Nat /\ n >= 1 /\ n <= 2
  BY ONLY <1>2
<1>9. /\ Len(w) = L + n + 2 /\ w[L + n + 1] = IAC /\ w[L + n + 2] = SE
      /\ \A i \in 1..L : w[i] = u[i]
      /\ w[L + 1] = C /\ (C = IAC => w[L + 2] = IAC)
  <2>1. 1 \in 1..Len(tail) /\ 2 \in 1..Len(tail)
    BY <1>1
  <2>2. Len(w) = (L + n) + 2 /\ w[(L + n) + 1] = IAC /\ w[(L + n) + 2] = SE
    BY <1>1, <1>5, <1>6, <2>1
  <2>3. \A i \in 1..L : w[i] = u[i]
    <3> TAKE i \in 1..L
    <3>1. i \in 1..Len(v)
      BY <1>3, <1>5, <1>8
    <3> QED
      BY <1>4, <1>5, <1>6, <3>1
  <2>4. w[L + 1] = C
    <3>1. 1 \in 1..n /\ L + 1 \in 1..Len(v)
      BY <1>3, <1>5, <1>8
    <3> QED
      BY <1>2, <1>5, <1>6, <3>1
  <2>5. ASSUME C = IAC PROVE w[L + 2] = IAC
    <3>1. n = 2 /\ piece[2] = IAC
      BY <1>2, <2>5
    <3>2. 2 \in 1..n /\ L + 2 \in 1..Len(v)
      BY <1>3, <1>5, <3>1
    <3> QED
      BY <1>5, <1>6, <3>1, <3>2
  <2> QED
    BY <2>2, <2>3, <2>4, <2>5
<1>10. PICK starts \in SUBSET (1..Len(u)) : 1 \in starts /\ Starts(u, starts)
  <2>1. Closes(u)
    BY DEF u, tail
  <2> QED
    BY <2>1 DEF Closes, Starts
<1> DEFINE new == {i \in starts : i <= L} \cup {L + 1, L + n + 1}
<1>11. new \in SUBSET (1..Len(w))
  <2>1. L + 1 \in 1..Len(w) /\ L + n + 1 \in 1..Len(w)
    BY <1>3, <1>8, <1>9
  <2>2. \A i \in starts : i <= L => i \in 1..Len(w)
    <3> SUFFICES ASSUME NEW i \in starts, i <= L PROVE i \in 1..Len(w)
      OBVIOUS
    <3>1. i \in Int /\ 1 <= i
      BY <1>3, <1>7, <1>10
    <3> QED
      BY <1>3, <1>8, <1>9, <3>1
  <2> QED
    BY <2>1, <2>2
<1>12. 1 \in new
  <2>1. 1 <= L \/ 1 = L + 1
    BY <1>3
  <2> QED
    BY <1>10, <2>1
<1>13. ASSUME NEW i \in new
       PROVE  \/ i = Len(w) - 1 /\ w[i] = IAC /\ w[i + 1] = SE
              \/ i < Len(w) - 1 /\ w[i] = IAC /\ w[i + 1] = IAC /\ i + 2 \in new
              \/ i < Len(w) - 1 /\ w[i] # IAC /\ i + 1 \in new
  <2>1. CASE i = L + n + 1
    <3>1. i = Len(w) - 1 /\ i + 1 = L + n + 2
      BY <1>3, <1>8, <1>9, <2>1
    <3> QED
      BY <1>9, <2>1, <3>1
  <2>2. CASE i = L + 1
    <3>1. i < Len(w) - 1 /\ i + 1 = L + 2 /\ w[i] = C
      BY <1>3, <1>8, <1>9, <2>2
    <3>2. CASE C = IAC
      <4>1. i + 2 = L + n + 1
        BY <1>2, <1>3, <2>2, <3>2
      <4> QED
        BY <1>9, <3>1, <3>2, <4>1
    <3>3. CASE C # IAC
      <4>1. i + 1 = L + n + 1
        BY <1>2, <1>3, <2>2, <3>3
      <4> QED
        BY <3>1, <3>3, <4>1
    <3> QED
      BY <3>2, <3>3
  <2>3. CASE i \in starts /\ i <= L
    <3>1. i \in 1..L /\ i \in Int /\ w[i] = u[i] /\ i < Len(w) - 1 /\ i < Len(u) - 1
      BY <1>3, <1>7, <1>8, <1>9, <1>10, <2>3
    <3>2. i # Len(u) - 1
      BY <1>3, <1>7, <3>1
    <3>3. \/ u[i] = IAC /\ u[i + 1] = IAC /\ i + 2 \in starts
          \/ u[i] # IAC /\ i + 1 \in starts
      BY <1>10, <2>3, <3>2 DEF Starts
    <3>4. CASE u[i] = IAC /\ u[i + 1] = IAC /\ i + 2 \in starts
      <4>1. i # L
        <5> SUFFICES ASSUME i = L PROVE FALSE
          OBVIOUS
        <5>1. L + 2 \in starts
          BY <3>4
        <5>2. ~(L + 2 = Len(u) - 1) /\ ~(L + 2 < Len(u) - 1)
          BY <1>3, <1>7
        <5> QED
          BY <1>10, <5>1, <5>2 DEF Starts
      <4>2. i + 1 \in 1..L /\ i + 2 <= L + 1 /\ (i + 2 <= L \/ i + 2 = L + 1)
        BY <1>3, <3>1, <4>1
      <4>3. w[i + 1] = IAC
        BY <1>9, <3>4, <4>2
      <4>4. i + 2 \in new
        BY <3>4, <4>2
      <4> QED
        BY <3>1, <3>4, <4>3, <4>4
    <3>5. CASE u[i] # IAC /\ i + 1 \in starts
      <4>1. i + 1 <= L \/ i + 1 = L + 1
        BY <1>3, <3>1
      <4>2. i + 1 \in new
        BY <3>5, <4>1
      <4> QED
        BY <3>1, <3>5, <4>2
    <3> QED
      BY <3>3, <3>4, <3>5
  <2> QED
    BY <2>1, <2>2, <2>3
<1> HIDE DEF new
<1>14. Closes(w)
  BY <1>11, <1>12, <1>13 DEF Closes
<1> QED
  BY <1>14 DEF w, v, tail

\* An escaped parameter with IAC SE after it is closed.
LEMMA EscapedCloses ==
  ASSUME NEW p \in Seq(Bytes) PROVE Closes(EscapeParam(p) \o <<IAC, SE>>)
<1> DEFINE seqs == [i \in 1..Len(p) |-> IF p[i] = IAC THEN <<IAC, IAC>> ELSE <<p[i]>>]
           tail == <<IAC, SE>>
<1>1. Len(seqs) = Len(p) /\ Len(p) \in Nat
  OBVIOUS
<1>2. EscapeParam(p) = SeqExt!FlattenSeq(seqs)
  BY DEF EscapeParam
<1>3. tail \in Seq(Bytes) /\ Len(tail) = 2 /\ tail[1] = IAC /\ tail[2] = SE
  <2>1. IAC \in Bytes /\ SE \in Bytes
    BY ProtocolBytes
  <2> QED
    BY ONLY <2>1
<1>4. << >> \in Seq(Bytes) /\ << >> \o tail = tail
  BY <1>3, ConcatEmptySeq
<1>5. Closes(<< >> \o tail)
  <2> HIDE DEF tail
  <2> DEFINE starts == {1}
  <2>1. starts \in SUBSET (1..Len(tail)) /\ 1 \in starts
    BY <1>3
  <2>2. \A i \in starts : i = Len(tail) - 1 /\ tail[i] = IAC /\ tail[i + 1] = SE
    <3>1. 1 = Len(tail) - 1 /\ 1 + 1 = 2
      BY <1>3
    <3> QED
      BY <1>3, <3>1
  <2> HIDE DEF starts
  <2>3. Closes(tail)
    BY <2>1, <2>2 DEF Closes
  <2> QED
    BY <1>4, <2>3
<1>6. CASE Len(p) = 0
  <2>1. SeqExt!FlattenSeq(seqs) = seqs
    BY <1>1, <1>6 DEF SeqExt!FlattenSeq
  <2>2. seqs = << >>
    BY <1>6
  <2> QED
    BY <1>2, <1>5, <2>1, <2>2
<1>7. CASE Len(p) # 0
  <2> DEFINE P == {x \in Nat \X Seq(Bytes) : Closes(x[2] \o tail)}
  <2>1. \A k, s : <<k, s>> \in P <=> k \in Nat /\ s \in Seq(Bytes) /\ Closes(s \o tail)
    OBVIOUS
  <2>2. ASSUME NEW i \in 1..Len(p), NEW s \in Seq(Bytes), Closes(s \o tail)
        PROVE  s \o seqs[i] \in Seq(Bytes) /\ Closes((s \o seqs[i]) \o tail)
    <3>1. seqs[i] = (IF p[i] = IAC THEN <<IAC, IAC>> ELSE <<p[i]>>) /\ p[i] \in Bytes
      OBVIOUS
    <3>2. seqs[i] \in Seq(Bytes)
      <4>1. IAC \in Bytes
        BY ProtocolBytes
      <4>2. <<IAC, IAC>> \in Seq(Bytes) /\ <<p[i]>> \in Seq(Bytes)
        BY <3>1, <4>1
      <4> QED
        BY ONLY <3>1, <4>2
    <3> DEFINE piece == seqs[i]
    <3>3. piece = (IF p[i] = IAC THEN <<IAC, IAC>> ELSE <<p[i]>>) /\ piece \in Seq(Bytes)
      BY <3>1, <3>2
    <3> HIDE DEF piece
    <3>4. Closes((s \o piece) \o tail)
      BY <2>2, <3>1, <3>3, ClosesOneMore
    <3>5. s \o piece \in Seq(Bytes)
      BY <3>3, ConcatFacts
    <3> QED
      BY <3>4, <3>5 DEF piece
  <2> HIDE DEF P, seqs, tail
  <2>3. <<1, seqs[1]>> \in P
    <3>1. 1 \in 1..Len(p)
      BY <1>1, <1>7
    <3>2. << >> \o seqs[1] \in Seq(Bytes) /\ Closes((<< >> \o seqs[1]) \o tail)
      BY <1>4, <1>5, <2>2, <3>1
    <3>3. << >> \o seqs[1] = seqs[1]
      <4>1. seqs[1] = <<IAC, IAC>> \/ seqs[1] = <<p[1]>>
        BY <3>1 DEF seqs
      <4>0. p[1] \in Bytes
        BY <3>1
      <4>2. IAC \in Bytes /\ p[1] \in Bytes
        BY <4>0, ProtocolBytes
      <4>3. <<IAC, IAC>> \in Seq(Bytes) /\ <<p[1]>> \in Seq(Bytes)
        BY <4>2
      <4>4. seqs[1] \in Seq(Bytes)
        BY <4>1, <4>3
      <4> QED
        BY <4>4, ConcatEmptySeq
    <3> QED
      BY <2>1, <3>2, <3>3
  <2>4. ASSUME NEW k \in 1..(Len(seqs) - 1), NEW s, <<k, s>> \in P
        PROVE  <<k + 1, s \o seqs[k + 1]>> \in P
    <3>1. k + 1 \in 1..Len(p) /\ k + 1 \in Nat
      BY <1>1
    <3>2. s \in Seq(Bytes) /\ Closes(s \o tail)
      BY <2>1, <2>4
    <3> QED
      BY <2>1, <2>2, <3>1, <3>2
  <2>5. <<Len(p), EscapeParam(p)>> \in P
    BY <1>1, <1>2, <1>7, <2>3, <2>4, FlattenInduction
  <2> QED
    BY <2>1, <2>5 DEF tail
<1> QED
  BY <1>6, <1>7

-----------------------------------------------------------------------------
(* How far the item of the client is read                                  *)

\* One byte after the first k of a sequence, and what is left then.
LEMMA OneByteOn ==
  ASSUME NEW b \in Seq(Bytes), NEW k \in 1..Len(b) - 1
  PROVE  /\ SubSeq(b, k + 1, Len(b)) # << >> /\ Head(SubSeq(b, k + 1, Len(b))) = b[k + 1]
         /\ Tail(SubSeq(b, k + 1, Len(b))) = SubSeq(b, k + 2, Len(b))
         /\ Append(SubSeq(b, 1, k), b[k + 1]) = SubSeq(b, 1, k + 1)
         /\ Len(SubSeq(b, 1, k)) = k /\ SubSeq(b, 1, k) \in Seq(Bytes)
         /\ \A i \in 1..k : SubSeq(b, 1, k)[i] = b[i]
<1>1. Len(b) \in Nat /\ k \in Nat /\ k >= 1 /\ k + 1 <= Len(b)
  OBVIOUS
<1>2. /\ k + 1 \in 1..Len(b) /\ Len(b) \in (k + 1)..Len(b) /\ 1 \in 1..Len(b)
      /\ k + 1 \in 1..Len(b) /\ k \in 1..Len(b) /\ k \in 0..Len(b)
      /\ (k + 1) + 1 = k + 2 /\ (k + 1) - 1 = k /\ k - 1 + 1 = k
  BY <1>1
<1>3. /\ Head(SubSeq(b, k + 1, Len(b))) = b[k + 1]
      /\ Tail(SubSeq(b, k + 1, Len(b))) = SubSeq(b, (k + 1) + 1, Len(b))
  BY <1>2, HeadTailOfSubSeq
<1>4. SubSeq(b, k + 1, Len(b)) # << >>
  <2>1. \A i \in k + 1..Len(b) : b[i] \in Bytes
    BY <1>1
  <2>2. Len(SubSeq(b, k + 1, Len(b))) = IF k + 1 <= Len(b) THEN Len(b) - (k + 1) + 1 ELSE 0
    BY <1>1, <2>1, SubSeqProperties
  <2> DEFINE x == SubSeq(b, k + 1, Len(b))
  <2>3. Len(x) > 0
    BY <1>1, <2>2
  <2> QED
    BY <2>3
<1>5. /\ SubSeq(b, 1, k) \in Seq(Bytes) /\ Len(SubSeq(b, 1, k)) = k
      /\ \A i \in 1..k : SubSeq(b, 1, k)[i] = b[i]
  <2>1. \A i \in 1..k : b[i] \in Bytes
    BY <1>1
  <2>2. /\ SubSeq(b, 1, k) \in Seq(Bytes)
        /\ Len(SubSeq(b, 1, k)) = IF 1 <= k THEN k - 1 + 1 ELSE 0
        /\ \A i \in 1..k - 1 + 1 : SubSeq(b, 1, k)[i] = b[1 + i - 1]
    BY <1>1, <2>1, SubSeqProperties
  <2>3. \A i \in 1..k : 1 + i - 1 = i
    OBVIOUS
  <2> QED
    BY <1>1, <1>2, <2>2, <2>3
<1>6. Append(SubSeq(b, 1, k), b[k + 1]) = SubSeq(b, 1, k + 1)
  <2>1. b[k + 1] \in Bytes
    BY <1>2
  <2>2. Append(SubSeq(b, 1, k), b[k + 1]) = SubSeq(b, 1, k) \o <<b[k + 1]>>
    BY <1>5, <2>1, AppendIsConcat
  <2>3. k + 1 \in 1..Len(b) /\ 1 \in 1..Len(b)
    BY <1>2
  <2>4. SubSeq(b, 1, k + 1) = SubSeq(b, 1, (k + 1) - 1) \o <<b[k + 1]>>
    BY <2>3, SubSeqRecursiveSecond
  <2> QED
    BY <1>2, <2>2, <2>4
<1> QED
  BY <1>2, <1>3, <1>4, <1>5, <1>6

\* The device gets nothing.
LEMMA DeviceGetsNothing ==
  ASSUME devGot \in Seq(Bytes), ToDevice(<< >>) PROVE devGot' = devGot
BY ConcatEmptySeq DEF ToDevice

\* What every byte of the client does, and outside a command.
LEMMA StepNormal ==
  ASSUME ServerInv, ReadNet, IACEscape = "Normal", NEW C, C = Head(pending)
  PROVE  /\ C \in Bytes /\ Last' = C /\ pending' = Tail(pending)
         /\ UNCHANGED <<current, aligned, is_do, told>>
         /\ C = IAC => IACEscape' = "Received" /\ devGot' = devGot
         /\ C # IAC => IACEscape' = "Normal"
         /\ C # IAC /\ BINARY \notin is_do /\ C = 0 /\ Last = CR => devGot' = devGot
         /\ C # IAC /\ ~(BINARY \notin is_do /\ C = 0 /\ Last = CR) =>
               devGot' = devGot \o <<C>>
<1>1. pending \in Seq(Bytes) /\ pending # << >> /\ devGot \in Seq(Bytes)
  BY DEF ReadNet, ServerInv, World, Forwarded
<1>2. C \in Bytes /\ pending' = Tail(pending) /\ UNCHANGED <<current, aligned>>
  BY <1>1 DEF ReadNet, NextSteps
<1>3. Last' = C /\ NormalChar(C)
  BY DEF ReadNet, EscRedirectChar
<1>4. UNCHANGED <<is_do, told>>
  BY <1>3 DEF NormalChar, Quiet, options
<1>5. ASSUME C = IAC PROVE IACEscape' = "Received" /\ devGot' = devGot
  BY <1>1, <1>3, <1>5, DeviceGetsNothing DEF NormalChar
<1>6. ASSUME C # IAC PROVE IACEscape' = "Normal"
  BY <1>3, <1>6 DEF NormalChar
<1>7. ASSUME C # IAC, BINARY \notin is_do /\ C = 0 /\ Last = CR PROVE devGot' = devGot
  <2>1. ToDevice(<< >>)
    BY <1>3, <1>7 DEF NormalChar
  <2> QED
    BY <1>1, <2>1, DeviceGetsNothing
<1>8. ASSUME C # IAC, ~(BINARY \notin is_do /\ C = 0 /\ Last = CR)
      PROVE  devGot' = devGot \o <<C>>
  <2>1. ToDevice(<<C>>)
    BY <1>3, <1>8 DEF NormalChar
  <2> QED
    BY <2>1 DEF ToDevice
<1> QED
  BY <1>2, <1>3, <1>4, <1>5, <1>6, <1>7, <1>8

\* After an IAC.
LEMMA StepReceived ==
  ASSUME ServerInv, ReadNet, IACEscape = "Received", NEW C, C = Head(pending)
  PROVE  /\ C \in Bytes /\ Last' = C /\ pending' = Tail(pending)
         /\ UNCHANGED <<current, aligned, is_do, told>>
         /\ C = IAC => IACEscape' = "Normal" /\ devGot' = devGot \o <<C>>
         /\ C # IAC => /\ IACEscape' = "Command" /\ devGot' = devGot
                       /\ IACCommand' = <<IAC, C>> /\ IACSigEscape' = "Normal"
<1>1. pending \in Seq(Bytes) /\ pending # << >> /\ devGot \in Seq(Bytes)
  BY DEF ReadNet, ServerInv, World, Forwarded
<1>2. C \in Bytes /\ pending' = Tail(pending) /\ UNCHANGED <<current, aligned>>
  BY <1>1 DEF ReadNet, NextSteps
<1>3. Last' = C /\ ReceivedChar(C)
  BY DEF ReadNet, EscRedirectChar
<1>4. UNCHANGED <<is_do, told>>
  BY <1>3 DEF ReceivedChar, Quiet, options
<1>5. ASSUME C = IAC PROVE IACEscape' = "Normal" /\ devGot' = devGot \o <<C>>
  BY <1>3, <1>5 DEF ReceivedChar, ToDevice
<1>6. ASSUME C # IAC
      PROVE  /\ IACEscape' = "Command" /\ devGot' = devGot
             /\ IACCommand' = <<IAC, C>> /\ IACSigEscape' = "Normal"
  BY <1>1, <1>3, <1>6, DeviceGetsNothing DEF ReceivedChar
<1> QED
  BY <1>2, <1>3, <1>4, <1>5, <1>6

\* In a command of fixed length: it is complete, or one byte longer.
LEMMA StepFixed ==
  ASSUME ServerInv, ReadNet, IACEscape = "Command", NEW C, C = Head(pending),
         ~(IACCommand[2] = SB /\ Len(IACCommand) >= 4 /\ IACCommand[4] = 0),
         NEW d, d = Append(IACCommand, C)
  PROVE  /\ C \in Bytes /\ Last' = C /\ pending' = Tail(pending) /\ devGot' = devGot
         /\ UNCHANGED <<current, aligned, IACSigEscape>> /\ IACCommand' = d
         /\ (d[2] = SB => Len(IACCommand) >= 4) /\ Len(d) = Length(d) =>
               IACEscape' = "Normal" /\ HandleIACCommand(d)
         /\ ~((d[2] = SB => Len(IACCommand) >= 4) /\ Len(d) = Length(d)) =>
               IACEscape' = "Command" /\ UNCHANGED <<is_do, told>>
<1>1. pending \in Seq(Bytes) /\ pending # << >> /\ devGot \in Seq(Bytes)
  BY DEF ReadNet, ServerInv, World, Forwarded
<1>2. C \in Bytes /\ pending' = Tail(pending) /\ UNCHANGED <<current, aligned>>
  BY <1>1 DEF ReadNet, NextSteps
<1>3. Last' = C /\ CommandChar(C)
  BY DEF ReadNet, EscRedirectChar
<1>4. ToDevice(<< >>) /\ FixedChar(C)
  BY <1>3 DEF CommandChar
<1>5. IACCommand' = d /\ UNCHANGED IACSigEscape
  BY <1>4 DEF FixedChar, Collect
<1>6. ASSUME (d[2] = SB => Len(IACCommand) >= 4) /\ Len(d) = Length(d)
      PROVE  IACEscape' = "Normal" /\ HandleIACCommand(d)
  BY <1>4, <1>5, <1>6 DEF FixedChar
<1>7. ASSUME ~((d[2] = SB => Len(IACCommand) >= 4) /\ Len(d) = Length(d))
      PROVE  IACEscape' = "Command" /\ UNCHANGED <<is_do, told>>
  <2>1. UNCHANGED IACEscape /\ Quiet
    BY <1>4, <1>5, <1>7 DEF FixedChar
  <2> QED
    BY <2>1 DEF Quiet, options
<1> QED
  BY <1>1, <1>2, <1>3, <1>4, <1>5, <1>6, <1>7, DeviceGetsNothing

\* In a signature.
LEMMA StepSignature ==
  ASSUME ServerInv, ReadNet, IACEscape = "Command", NEW C, C = Head(pending),
         IACCommand[2] = SB, Len(IACCommand) >= 4, IACCommand[4] = 0
  PROVE  /\ C \in Bytes /\ Last' = C /\ pending' = Tail(pending) /\ devGot' = devGot
         /\ UNCHANGED <<current, aligned>>
         /\ IACSigEscape = "Normal" /\ C = IAC =>
               IACSigEscape' = "Received" /\ UNCHANGED <<IACCommand, IACEscape>>
         /\ IACSigEscape = "Received" /\ C # IAC => IACEscape' = "Normal"
         /\ ~(IACSigEscape = "Normal" /\ C = IAC) /\ ~(IACSigEscape = "Received" /\ C # IAC) =>
               /\ IACSigEscape' = "Normal" /\ IACCommand' = Append(IACCommand, C)
               /\ UNCHANGED IACEscape
<1>1. pending \in Seq(Bytes) /\ pending # << >> /\ devGot \in Seq(Bytes)
  BY DEF ReadNet, ServerInv, World, Forwarded
<1>2. C \in Bytes /\ pending' = Tail(pending) /\ UNCHANGED <<current, aligned>>
  BY <1>1 DEF ReadNet, NextSteps
<1>3. Last' = C /\ CommandChar(C)
  BY DEF ReadNet, EscRedirectChar
<1>4. ToDevice(<< >>) /\ SignatureChar(C)
  BY <1>3 DEF CommandChar
<1>5. devGot' = devGot
  BY <1>1, <1>4, DeviceGetsNothing
<1>6. ASSUME IACSigEscape = "Normal" /\ C = IAC
      PROVE  IACSigEscape' = "Received" /\ UNCHANGED <<IACCommand, IACEscape>>
  BY <1>4, <1>6 DEF SignatureChar
<1>7. ASSUME IACSigEscape = "Received" /\ C # IAC PROVE IACEscape' = "Normal"
  BY <1>4, <1>7 DEF SignatureChar
<1>8. ASSUME ~(IACSigEscape = "Normal" /\ C = IAC), ~(IACSigEscape = "Received" /\ C # IAC)
      PROVE  /\ IACSigEscape' = "Normal" /\ IACCommand' = Append(IACCommand, C)
             /\ UNCHANGED IACEscape
  BY <1>4, <1>8 DEF SignatureChar, Collect
<1> QED
  BY <1>2, <1>3, <1>5, <1>6, <1>7, <1>8

\* Reading a byte of data leads on, or to the end: the device gets the byte.
LEMMA DataIsRead ==
  ASSUME ServerInv, ReadNet, NEW b \in Data, InData(b)
  PROVE  InData(b)'
<1>1. pending # << >> /\ current = DataItem(b) /\ devGot \in Seq(Bytes) /\ b \in Bytes
  BY ParserAssumption DEF ReadNet, InData, ServerInv, Forwarded
<1> DEFINE C == Head(pending)
<1>2. << >> \in Seq(Bytes) /\ \A x \in Bytes : << >> \o <<x>> = <<x>>
  <2>1. \A x \in Bytes : <<x>> \in Seq(Bytes)
    OBVIOUS
  <2> QED
    BY <2>1, ConcatEmptySeq
<1>3. CASE Begun
  <2>1. /\ pending = DataItem(b).bytes /\ IACEscape = "Normal"
        /\ Last = CR => BINARY \in is_do
        /\ devGot = << >>
    BY <1>1, <1>3 DEF Begun, AtRest
  <2>2. DataItem(b).bytes = IF b = IAC THEN <<IAC, IAC>>
                            ELSE IF b = CR /\ BINARY \notin is_do THEN <<CR, 0>> ELSE <<b>>
    BY DEF DataItem
  <2>3. /\ Last' = C /\ pending' = Tail(pending) /\ UNCHANGED <<current, is_do>>
        /\ C = IAC => IACEscape' = "Received" /\ devGot' = devGot
        /\ C # IAC => IACEscape' = "Normal"
        /\ C # IAC /\ ~(BINARY \notin is_do /\ C = 0 /\ Last = CR) =>
               devGot' = devGot \o <<C>>
    BY <2>1, StepNormal
  <2>4. current' = DataItem(b)'
    BY <1>1, <2>3 DEF DataItem
  <2>5. CASE b = IAC
    <3>1. pending = <<IAC, IAC>>
      BY <2>1, <2>2, <2>5
    <3>2. C = IAC /\ Tail(pending) = <<IAC>>
      BY <3>1
    <3> QED
      BY <2>1, <2>3, <2>4, <2>5, <3>2 DEF InData
  <2>6. CASE b # IAC /\ b = CR /\ BINARY \notin is_do
    <3>1. pending = <<CR, 0>>
      BY <2>1, <2>2, <2>6
    <3>2. C = CR /\ Tail(pending) = <<0>> /\ CR # IAC /\ CR # 0
      BY <3>1 DEF CR, IAC
    <3>3. devGot' = <<CR>> /\ IACEscape' = "Normal" /\ Last' = CR
      BY <1>1, <1>2, <2>1, <2>3, <2>6, <3>2
    <3> QED
      BY <2>3, <2>4, <2>6, <3>2, <3>3 DEF InData
  <2>7. CASE b # IAC /\ ~(b = CR /\ BINARY \notin is_do)
    <3>1. pending = <<b>>
      BY <2>1, <2>2, <2>7
    <3>2. C = b /\ Tail(pending) = << >>
      BY <3>1
    <3>3. devGot' = <<b>> /\ IACEscape' = "Normal" /\ Last' = b
      BY <1>1, <1>2, <2>1, <2>3, <2>7, <3>2
    <3>4. Ended(<<b>>)'
      BY <2>3, <2>7, <3>2, <3>3 DEF Ended, AtRest
    <3> QED
      BY <2>4, <3>4 DEF InData
  <2> QED
    BY <2>5, <2>6, <2>7
<1>4. CASE Ended(<<b>>)
  BY <1>1, <1>4 DEF Ended
<1>5. CASE b = IAC /\ pending = <<IAC>> /\ IACEscape = "Received" /\ devGot = << >>
  <2>1. C = IAC /\ Tail(pending) = << >>
    BY <1>5
  <2>2. /\ Last' = C /\ pending' = Tail(pending) /\ UNCHANGED <<current, is_do>>
        /\ C = IAC => IACEscape' = "Normal" /\ devGot' = devGot \o <<C>>
    BY <1>5, StepReceived
  <2>3. devGot' = <<b>>
    BY <1>1, <1>2, <1>5, <2>1, <2>2
  <2>4. Last' # CR
    BY <2>1, <2>2, VerbsDiffer
  <2>5. Ended(<<b>>)'
    BY <2>1, <2>2, <2>3, <2>4 DEF Ended, AtRest
  <2>6. current' = DataItem(b)'
    BY <1>1, <2>2 DEF DataItem
  <2> QED
    BY <2>5, <2>6 DEF InData
<1>6. CASE /\ b = CR /\ BINARY \notin is_do /\ pending = <<0>> /\ IACEscape = "Normal"
           /\ Last = CR /\ devGot = <<CR>>
  <2>1. C = 0 /\ Tail(pending) = << >> /\ 0 # IAC /\ 0 # CR
    BY <1>6 DEF IAC, CR
  <2>2. /\ Last' = C /\ pending' = Tail(pending) /\ UNCHANGED <<current, is_do>>
        /\ C # IAC => IACEscape' = "Normal"
        /\ C # IAC /\ BINARY \notin is_do /\ C = 0 /\ Last = CR => devGot' = devGot
    BY <1>6, StepNormal
  <2>3. Ended(<<b>>)'
    BY <1>6, <2>1, <2>2 DEF Ended, AtRest
  <2>4. current' = DataItem(b)'
    BY <1>1, <2>2 DEF DataItem
  <2> QED
    BY <2>3, <2>4 DEF InData
<1> QED
  BY <1>3, <1>4, <1>5, <1>6 DEF InData

\* Reading a byte of an option leads on, or to the end: the device gets nothing.
LEMMA OptionIsRead ==
  ASSUME ServerInv, ReadNet, NEW verb \in {WILL, WONT, DO, DONT}, NEW o \in {BINARY, COMPORT},
         InOption(verb, o)
  PROVE  InOption(verb, o)'
<1>1. pending # << >> /\ current = OptionItem(verb, o) /\ devGot \in Seq(Bytes)
  BY DEF ReadNet, InOption, ServerInv, Forwarded
<1>2. verb \notin {IAC, SB} /\ o # CR
  BY DEF WILL, WONT, DO, DONT, IAC, SB, BINARY, COMPORT, CR
<1> DEFINE C == Head(pending)
<1>3. ASSUME current' = current PROVE current' = OptionItem(verb, o)'
  BY <1>1, <1>3 DEF OptionItem
<1>4. CASE Begun
  <2>1. /\ pending = <<IAC, verb, o>> /\ IACEscape = "Normal" /\ devGot = << >>
    BY <1>1, <1>4 DEF Begun, AtRest, OptionItem
  <2>2. C = IAC /\ Tail(pending) = <<verb, o>>
    BY <2>1
  <2>3. pending' = Tail(pending) /\ current' = current /\ IACEscape' = "Received"
        /\ devGot' = devGot
    BY <2>1, <2>2, StepNormal
  <2> QED
    BY <1>3, <2>1, <2>2, <2>3 DEF InOption
<1>5. CASE Ended(<< >>)
  BY <1>1, <1>5 DEF Ended
<1>6. CASE pending = <<verb, o>> /\ IACEscape = "Received" /\ devGot = << >>
  <2>1. C = verb /\ Tail(pending) = <<o>>
    BY <1>6
  <2>2. /\ pending' = Tail(pending) /\ current' = current /\ IACEscape' = "Command"
        /\ devGot' = devGot /\ IACCommand' = <<IAC, verb>>
    BY <1>2, <1>6, <2>1, StepReceived
  <2> QED
    BY <1>3, <1>6, <2>1, <2>2 DEF InOption
<1>7. CASE /\ pending = <<o>> /\ IACEscape = "Command" /\ IACCommand = <<IAC, verb>>
           /\ devGot = << >>
  <2>1. C = o /\ Tail(pending) = << >> /\ IACCommand[2] = verb /\ Len(IACCommand) = 2
    BY <1>7
  <2> DEFINE d == Append(IACCommand, C)
  <2>2. Len(d) = 3 /\ d[2] = verb
    BY <1>7, <2>1
  <2>3. Length(d) = 3
    BY <1>2, <2>2 DEF Length
  <2>4. ~(IACCommand[2] = SB /\ Len(IACCommand) >= 4 /\ IACCommand[4] = 0)
    BY <1>2, <2>1
  <2> HIDE DEF d
  <2>5. d = Append(IACCommand, C)
    BY DEF d
  <2>6. /\ pending' = Tail(pending) /\ current' = current /\ IACEscape' = "Normal"
        /\ devGot' = devGot /\ Last' = C
    BY <1>2, <1>7, <2>2, <2>3, <2>4, <2>5, StepFixed
  <2>7. Ended(<< >>)'
    BY <1>2, <1>7, <2>1, <2>6 DEF Ended, AtRest
  <2> QED
    BY <1>3, <2>6, <2>7 DEF InOption
<1> QED
  BY <1>4, <1>5, <1>6, <1>7 DEF InOption

\* A value that the port can take is taken.
LEMMA ValueIsTaken ==
  ASSUME NEW p \in Termios
  PROVE  /\ \A v \in Speeds : GetPortSpeed(SetPortSpeed(p, v)) = v
         /\ \A v \in 5..8 : GetPortDataSize(SetPortDataSize(p, v)) = v
         /\ \A v \in {1, 2, 3} : GetPortParity(SetPortParity(p, v)) = v
         /\ \A v \in {1, 2} : GetPortStopSize(SetPortStopSize(p, v)) = v
         /\ \A v \in {1, 2, 3} :
               GetPortFlowControl(SetPortFlowControl(p, v), 0, FALSE, FALSE) = v
<1>1. {"speed", "size", "PARENB", "PARODD", "CSTOPB", "IXON", "IXOFF", "CRTSCTS", "DTR", "RTS"}
          \subseteq DOMAIN p
  BY DEF Termios
<1>2. ASSUME NEW v \in Speeds PROVE GetPortSpeed(SetPortSpeed(p, v)) = v
  BY <1>1 DEF GetPortSpeed, SetPortSpeed
<1>3. ASSUME NEW v \in 5..8 PROVE GetPortDataSize(SetPortDataSize(p, v)) = v
  BY <1>1 DEF GetPortDataSize, SetPortDataSize
<1>4. ASSUME NEW v \in {1, 2, 3} PROVE GetPortParity(SetPortParity(p, v)) = v
  <2>1. SetPortParity(p, v).PARENB <=> v \in {2, 3}
    BY <1>1 DEF SetPortParity
  <2>2. v \in {2, 3} => (SetPortParity(p, v).PARODD <=> v = 2)
    BY <1>1 DEF SetPortParity
  <2> QED
    BY <2>1, <2>2 DEF GetPortParity
<1>5. ASSUME NEW v \in {1, 2} PROVE GetPortStopSize(SetPortStopSize(p, v)) = v
  <2>1. SetPortStopSize(p, v).CSTOPB <=> v = 2
    BY <1>1 DEF SetPortStopSize
  <2> QED
    BY <2>1 DEF GetPortStopSize
<1>6. ASSUME NEW v \in {1, 2, 3}
      PROVE  GetPortFlowControl(SetPortFlowControl(p, v), 0, FALSE, FALSE) = v
  <2> DEFINE pick(S, n, old) == IF v \in S THEN v = n ELSE old
             a == pick(1..3, 2, p.IXON)
             b == pick(1..3, 2, p.IXOFF)
             c == pick(1..3, 3, p.CRTSCTS)
             dtr == pick({8, 9}, 8, p.DTR)
             rts == pick({11, 12}, 11, p.RTS)
  <2>1. SetPortFlowControl(p, v) =
            [p EXCEPT !.IXON = a, !.IXOFF = b, !.CRTSCTS = c, !.DTR = dtr, !.RTS = rts]
    BY DEF SetPortFlowControl
  <2>2. (a <=> v = 2) /\ (c <=> v = 3)
    OBVIOUS
  <2> HIDE DEF a, b, c, dtr, rts
  <2>3. SetPortFlowControl(p, v).IXON = a /\ SetPortFlowControl(p, v).CRTSCTS = c
    BY <1>1, <2>1
  <2>4. SetPortFlowControl(p, v).IXON <=> v = 2
    BY <2>2, <2>3
  <2>5. SetPortFlowControl(p, v).CRTSCTS <=> v = 3
    BY <2>2, <2>3
  <2> QED
    BY <2>4, <2>5 DEF GetPortFlowControl
<1> QED
  BY <1>2, <1>3, <1>4, <1>5, <1>6

\* A command that is carried out grants what the port can take.
LEMMA CommandGrants ==
  ASSUME Served, NEW cmd \in Commands \ {0}, NEW param \in Params[cmd], NEW d,
         COMPORT \in is_do, HandleIACCommand(d),
         d[2] = SB, d[3] = COMPORT, d[4] = cmd,
         Len(param) > 0 => d[5] = param[1],
         cmd = 1 /\ ~IsEscaped(param) => SubSeq(d, 5, 8) = param
  PROVE  Granted(cmd, param)'
<1> SUFFICES ASSUME param \in Supported(cmd)
             PROVE  told'[cmd] = IF cmd = 1 THEN <<param>> ELSE param
  BY DEF Granted, Supported
<1>1. HandleCPCCommand(d)
  BY VerbsDiffer DEF HandleIACCommand
<1>2. port \in Termios /\ DOMAIN told = Known
  BY DEF Served
<1>3. CASE cmd = 1
  <2>1. param \in Speeds
    BY <1>3 DEF Supported
  <2>2. ~IsEscaped(param)
    <3>1. Len(param) = 4
      BY <1>3, ParamFacts
    <3>2. \A i \in 1..4 : param[i] # 255
      BY <2>1, PortAssumption
    <3> QED
      BY <3>1, <3>2 DEF IsEscaped, IAC
  <2>3. SetBaudRate(param)
    <3>1. SetBaudRate(SubSeq(d, 5, 8))
      BY <1>1, <1>3 DEF HandleCPCCommand
    <3> QED
      BY <1>3, <2>2, <3>1
  <2>4. param # <<0, 0, 0, 0>>
    BY <2>1, PortAssumption DEF NoSpeed
  <2>5. port' = SetPortSpeed(port, param) /\ told' = [told EXCEPT ![1] = <<GetPortSpeed(port')>>]
    BY <2>3, <2>4 DEF SetBaudRate
  <2>6. GetPortSpeed(port') = param
    BY <1>2, <2>1, <2>5, ValueIsTaken
  <2> QED
    BY <1>2, <1>3, <2>5, <2>6, KnownKeys
<1>4. ASSUME cmd \in {2, 3, 4, 5, 11} PROVE \E v \in Bytes : param = <<v>> /\ d[5] = v
  <2>1. \E v \in Bytes : param = <<v>>
    <3>1. 5..8 \subseteq Bytes /\ {1, 2, 3} \subseteq Bytes
      BY ProtocolBytes
    <3> QED
      BY <1>4, <3>1 DEF Supported
  <2> QED
    BY <2>1
<1>5. CASE cmd = 2
  <2>1. PICK v \in Bytes : param = <<v>> /\ d[5] = v
    BY <1>4, <1>5
  <2>2. v \in 5..8
    <3>1. <<v>> \in {<<x>> : x \in 5..8}
      BY <1>5, <2>1 DEF Supported
    <3>2. PICK x \in 5..8 : <<v>> = <<x>>
      BY <3>1
    <3> QED
      BY <3>2
  <2>3. port' = SetPortDataSize(port, v) /\ told' = [told EXCEPT ![2] = <<GetPortDataSize(port')>>]
    BY <1>1, <1>5, <2>1, <2>2 DEF HandleCPCCommand, SetDataSize, Tell
  <2>4. GetPortDataSize(port') = v
    BY <1>2, <2>2, <2>3, ValueIsTaken
  <2> QED
    BY <1>2, <1>5, <2>1, <2>3, <2>4, KnownKeys
<1>6. CASE cmd = 3
  <2>1. PICK v \in Bytes : param = <<v>> /\ d[5] = v
    BY <1>4, <1>6
  <2>2. v \in {1, 2, 3}
    BY <1>6, <2>1 DEF Supported
  <2>3. port' = SetPortParity(port, v) /\ told' = [told EXCEPT ![3] = <<GetPortParity(port')>>]
    BY <1>1, <1>6, <2>1, <2>2 DEF HandleCPCCommand, SetParity, Tell
  <2>4. GetPortParity(port') = v
    BY <1>2, <2>2, <2>3, ValueIsTaken
  <2> QED
    BY <1>2, <1>6, <2>1, <2>3, <2>4, KnownKeys
<1>7. CASE cmd = 4
  <2>1. PICK v \in Bytes : param = <<v>> /\ d[5] = v
    BY <1>4, <1>7
  <2>2. v \in {1, 2}
    BY <1>7, <2>1 DEF Supported
  <2>3. port' = SetPortStopSize(port, v) /\ told' = [told EXCEPT ![4] = <<GetPortStopSize(port')>>]
    BY <1>1, <1>7, <2>1, <2>2 DEF HandleCPCCommand, SetStopSize, Tell
  <2>4. GetPortStopSize(port') = v
    BY <1>2, <2>2, <2>3, ValueIsTaken
  <2> QED
    BY <1>2, <1>7, <2>1, <2>3, <2>4, KnownKeys
<1>8. CASE cmd = 5
  <2>1. PICK v \in Bytes : param = <<v>> /\ d[5] = v
    BY <1>4, <1>8
  <2>2. v \in {1, 2, 3}
    BY <1>8, <2>1 DEF Supported
  <2>3. SetControl(v)
    BY <1>1, <1>8, <2>1 DEF HandleCPCCommand
  <2>4. port' = SetPortFlowControl(port, v)
    BY <2>2, <2>3 DEF SetControl
  <2>5. Tell(5, 5, GetPortFlowControl(port', 0, FALSE, FALSE))
    <3>1. v \notin {4, 5, 6, 7, 10, 13}
      BY <2>2
    <3> QED
      BY <2>3, <3>1 DEF SetControl
  <2>6. told' = [told EXCEPT ![5] = <<GetPortFlowControl(port', 0, FALSE, FALSE)>>]
    BY <2>5 DEF Tell
  <2>7. GetPortFlowControl(port', 0, FALSE, FALSE) = v
    BY <1>2, <2>2, <2>4, ValueIsTaken
  <2>8. told' = [told EXCEPT ![5] = <<v>>]
    BY <2>6, <2>7
  <2> QED
    BY <1>2, <1>8, <2>1, <2>8, KnownKeys
<1>9. CASE cmd = 11
  <2>1. PICK v \in Bytes : param = <<v>> /\ d[5] = v
    BY <1>4, <1>9
  <2>2. SetMasks(11, v)
    BY <1>1, <1>9, <2>1 DEF HandleCPCCommand
  <2> DEFINE rest(f) == [l \in DOMAIN f \cap Masked(ModemStateMask') |-> f[l]]
  <2>3. told' = [told EXCEPT ![11] = <<v>>, ![107] = rest(@)]
    BY <2>2 DEF SetMasks
  <2> HIDE DEF rest
  <2>4. told'[11] = <<v>>
    BY <1>2, <2>3, KnownKeys
  <2> QED
    BY <1>9, <2>1, <2>4
<1>10. CASE cmd \notin {1, 2, 3, 4, 5, 11}
  BY <1>10 DEF Supported
<1> QED
  BY <1>3, <1>5, <1>6, <1>7, <1>8, <1>9, <1>10

\* The first byte of a command is read.
LEMMA CommandBegins ==
  ASSUME ServerInv, ReadNet, NEW cmd \in Commands, NEW param \in Params[cmd],
         current = CommandItem(cmd, param), Begun, COMPORT \in is_do
  PROVE  Reads(1)' /\ current' = current
<1> DEFINE b == CommandItem(cmd, param).bytes
<1>1. b \in Seq(Bytes) /\ Len(b) >= 6 /\ b[1] = IAC
  BY CommandBytes
<1> HIDE DEF b
<1>2. pending = b /\ IACEscape = "Normal" /\ devGot = << >> /\ current.bytes = b
  BY DEF Begun, AtRest, b
<1>3. Head(pending) = IAC /\ b # << >>
  BY <1>1, <1>2
<1>4. Tail(b) = SubSeq(b, 1 + 1, Len(b))
  BY <1>1, <1>3, TailIsSubSeq
<1>5. /\ pending' = Tail(pending) /\ UNCHANGED <<current, is_do>>
      /\ IACEscape' = "Received" /\ devGot' = devGot
  BY <1>2, <1>3, StepNormal
<1> QED
  BY <1>2, <1>4, <1>5 DEF Reads

\* The second byte of a command is read.
LEMMA CommandGoesOn ==
  ASSUME ServerInv, ReadNet, NEW cmd \in Commands, NEW param \in Params[cmd],
         current = CommandItem(cmd, param), Reads(1)
  PROVE  Reads(2)' /\ current' = current
<1> DEFINE b == CommandItem(cmd, param).bytes
<1>1. b \in Seq(Bytes) /\ Len(b) >= 6 /\ b[1] = IAC /\ b[2] = SB
  BY CommandBytes
<1> HIDE DEF b
<1>2. /\ pending = SubSeq(b, 1 + 1, Len(b)) /\ IACEscape = "Received" /\ devGot = << >>
      /\ current.bytes = b /\ COMPORT \in is_do
  BY DEF Reads, b
<1>3. 1 \in 1..Len(b) - 1
  BY <1>1
<1>4. /\ Head(pending) = b[1 + 1] /\ Tail(pending) = SubSeq(b, 1 + 2, Len(b))
      /\ Append(SubSeq(b, 1, 1), b[1 + 1]) = SubSeq(b, 1, 1 + 1)
      /\ Len(SubSeq(b, 1, 1)) = 1 /\ SubSeq(b, 1, 1) \in Seq(Bytes)
      /\ SubSeq(b, 1, 1)[1] = b[1]
  BY <1>1, <1>2, <1>3, OneByteOn
<1>5. Head(pending) = SB /\ SB # IAC
  BY <1>1, <1>4, VerbsDiffer
<1>6. /\ pending' = Tail(pending) /\ UNCHANGED <<current, is_do>>
      /\ IACEscape' = "Command" /\ devGot' = devGot
      /\ IACCommand' = <<IAC, SB>> /\ IACSigEscape' = "Normal"
  BY <1>2, <1>5, StepReceived
<1>7. SubSeq(b, 1, 2) = <<IAC, SB>>
  <2> DEFINE f == SubSeq(b, 1, 1)
  <2>1. f \in Seq(Bytes) /\ Len(f) = 1 /\ f[1] = IAC
    BY <1>1, <1>4
  <2> HIDE DEF f
  <2>2. f = <<IAC>>
    <3>1. IAC \in Bytes
      BY ProtocolBytes
    <3>2. <<IAC>> \in Seq(Bytes) /\ Len(<<IAC>>) = 1 /\ <<IAC>>[1] = IAC
      BY <3>1
    <3>3. \A i \in 1..Len(f) : f[i] = <<IAC>>[i]
      BY <2>1, <3>2
    <3> QED
      BY <2>1, <3>2, <3>3, SeqEqual
  <2>3. Append(f, SB) = SubSeq(b, 1, 2)
    BY <1>1, <1>4 DEF f
  <2>4. Append(<<IAC>>, SB) = <<IAC, SB>>
    <3>1. IAC \in Bytes /\ SB \in Bytes
      BY ProtocolBytes
    <3>2. /\ <<IAC, SB>> \in Seq(Bytes) /\ Len(<<IAC, SB>>) = 2
          /\ <<IAC, SB>>[1] = IAC /\ <<IAC, SB>>[2] = SB
      BY <3>1
    <3> DEFINE a == Append(<<IAC>>, SB)
    <3>3. a \in Seq(Bytes) /\ Len(a) = 2 /\ a[1] = IAC /\ a[2] = SB
      BY <3>1
    <3> HIDE DEF a
    <3>4. \A i \in 1..2 : a[i] = <<IAC, SB>>[i]
      BY <3>2, <3>3
    <3> QED
      BY <3>2, <3>3, <3>4, SeqEqual DEF a
  <2> QED
    BY <2>2, <2>3, <2>4
<1>8. current'.bytes = b /\ 2 + 1 = 1 + 2
  BY <1>2, <1>6
<1>9. /\ pending' = SubSeq(b, 2 + 1, Len(b)) /\ devGot' = << >> /\ COMPORT \in is_do'
      /\ IACCommand' = SubSeq(b, 1, 2)
  BY <1>2, <1>4, <1>6, <1>7, <1>8
<1> QED
  BY <1>6, <1>8, <1>9 DEF Reads

\* A later byte of a command, with the code once it is there.
LEMMA CommandByte ==
  ASSUME ServerInv, ReadNet, NEW cmd \in Commands, NEW param \in Params[cmd],
         current = CommandItem(cmd, param),
         NEW k \in 2..Len(CommandItem(cmd, param).bytes) - 1, Reads(k), k >= 4 => cmd # 0
  PROVE  LET b == CommandItem(cmd, param).bytes
             d == SubSeq(b, 1, k + 1)
         IN
         /\ b[k + 1] \in Bytes /\ Last' = b[k + 1] /\ pending' = SubSeq(b, k + 2, Len(b))
         /\ devGot' = << >> /\ current' = current /\ COMPORT \in is_do
         /\ IACSigEscape' = "Normal" /\ IACCommand' = d
         /\ Len(d) = k + 1 /\ \A i \in 1..k : d[i] = b[i]
         /\ k >= 4 /\ Len(d) = Length(d) => IACEscape' = "Normal" /\ HandleIACCommand(d)
         /\ ~(k >= 4 /\ Len(d) = Length(d)) =>
               IACEscape' = "Command" /\ UNCHANGED <<is_do, told>>
<1> DEFINE b == CommandItem(cmd, param).bytes
<1>1. b \in Seq(Bytes) /\ Len(b) \in Nat /\ b[2] = SB /\ b[4] = cmd
  BY CommandBytes
<1>0. current.bytes = b /\ k \in 2..Len(b) - 1
  OBVIOUS
<1> HIDE DEF b
<1>2. k \in 1..Len(b) - 1 /\ k \in Nat /\ k >= 2 /\ k + 1 \in 1..Len(b) /\ k # 1 /\ k > 1
  BY <1>0, <1>1
<1> DEFINE c == SubSeq(b, 1, k)
           d == SubSeq(b, 1, k + 1)
           C == b[k + 1]
<1>3. /\ pending = SubSeq(b, k + 1, Len(b)) /\ IACEscape = "Command" /\ devGot = << >>
      /\ IACCommand = c /\ IACSigEscape = "Normal" /\ COMPORT \in is_do
  BY <1>0, <1>2 DEF Reads
<1>4. /\ Head(pending) = C /\ Tail(pending) = SubSeq(b, k + 2, Len(b))
      /\ Append(c, C) = d /\ Len(c) = k /\ c \in Seq(Bytes)
      /\ \A i \in 1..k : c[i] = b[i]
  BY <1>1, <1>2, <1>3, OneByteOn
<1>5. C \in Bytes
  BY <1>1, <1>2
<1> HIDE DEF c, d, C
<1>6. Len(d) = k + 1 /\ \A i \in 1..k : d[i] = b[i]
  <2>1. /\ Append(c, C) \in Seq(Bytes) /\ Len(Append(c, C)) = Len(c) + 1
        /\ \A i \in Nat \ {0} : i <= Len(c) => Append(c, C)[i] = c[i]
    BY <1>4, <1>5, CollectFacts
  <2> QED
    BY <1>2, <1>4, <2>1
<1>7. ~(IACCommand[2] = SB /\ Len(IACCommand) >= 4 /\ IACCommand[4] = 0)
  <2> SUFFICES ASSUME Len(c) >= 4, c[4] = 0 PROVE FALSE
    BY <1>3
  <2>1. k >= 4 /\ 4 \in 1..k
    BY <1>2, <1>4
  <2>2. c[4] = cmd
    BY <1>1, <1>4, <2>1
  <2> QED
    BY <2>1, <2>2
<1>8. d[2] = SB
  <2>1. 2 \in 1..k
    BY <1>2
  <2> QED
    BY <1>1, <1>6, <2>1
<1>9. /\ Last' = C /\ pending' = Tail(pending) /\ devGot' = devGot
      /\ UNCHANGED <<current, aligned, IACSigEscape>> /\ IACCommand' = d
      /\ (d[2] = SB => Len(c) >= 4) /\ Len(d) = Length(d) =>
            IACEscape' = "Normal" /\ HandleIACCommand(d)
      /\ ~((d[2] = SB => Len(c) >= 4) /\ Len(d) = Length(d)) =>
            IACEscape' = "Command" /\ UNCHANGED <<is_do, told>>
  <2>1. C = Head(pending) /\ d = Append(IACCommand, C)
    BY <1>3, <1>4
  <2> QED
    BY <1>3, <1>7, <2>1, StepFixed
<1>10. (d[2] = SB => Len(c) >= 4) <=> k >= 4
  BY <1>4, <1>8
<1> QED
  BY <1>3, <1>4, <1>5, <1>6, <1>9, <1>10 DEF d, C, b

\* A sequence from its last place on, and after it.
LEMMA LastByte ==
  ASSUME NEW b \in Seq(Bytes), Len(b) > 0
  PROVE  SubSeq(b, Len(b), Len(b)) = <<b[Len(b)]>> /\ SubSeq(b, Len(b) + 1, Len(b)) = << >>
<1> DEFINE n == Len(b)
<1>1. n \in Nat /\ n \in 1..n
  OBVIOUS
<1>2. n \in n..n
  BY <1>1
<1> HIDE DEF n
<1>3. SubSeq(b, n + 1, n) = << >>
  BY <1>1, SubSeqEmpty
<1>4. SubSeq(b, n, n) = <<b[n]>> \o SubSeq(b, n + 1, n)
  BY <1>1, <1>2, SubSeqRecursiveFirst DEF n
<1>5. b[n] \in Bytes
  BY <1>1 DEF n
<1>6. <<b[n]>> \o << >> = <<b[n]>>
  <2>1. <<b[n]>> \in Seq(Bytes)
    BY <1>5
  <2> QED
    BY <2>1, ConcatEmptySeq
<1> QED
  BY <1>3, <1>4, <1>6 DEF n

\* Reading a byte of a command of fixed length leads on, or to the end: it is
\* carried out once, when it has its length.
LEMMA CommandIsRead ==
  ASSUME ServerInv, ReadNet, NEW cmd \in Commands \ {0}, NEW param \in Params[cmd],
         InCommand(cmd, param)
  PROVE  InCommand(cmd, param)'
<1> DEFINE b == CommandItem(cmd, param).bytes
           n == FixedLength(cmd)
<1>1. /\ pending # << >> /\ current = CommandItem(cmd, param) /\ current.bytes = b
      /\ devGot \in Seq(Bytes)
  BY DEF ReadNet, InCommand, ServerInv, Forwarded
<1>2. /\ b \in Seq(Bytes) /\ Len(b) \in Nat /\ Len(b) >= 6
      /\ b[2] = SB /\ b[3] = COMPORT /\ b[4] = cmd
  BY CommandBytes
<1>3. /\ n \in {6, 7, 10}
      /\ IsEscaped(param) => Len(b) = n + 1
      /\ ~IsEscaped(param) => Len(b) = n
      /\ Len(param) > 0 => b[5] = param[1]
      /\ cmd = 1 /\ ~IsEscaped(param) => SubSeq(b, 5, 8) = param
  BY FixedCommand
<1>4. b[Len(b)] = SE /\ b[Len(b) - 1] = IAC
  <2> DEFINE m == Len(EscapeParam(param))
  <2>1. b[m + 5] = IAC /\ b[m + 6] = SE /\ Len(b) = m + 6 /\ m \in Nat
    BY CommandBytes
  <2> HIDE DEF m, b
  <2>2. Len(b) - 1 = m + 5
    BY <2>1
  <2> QED
    BY <2>1, <2>2
<1> HIDE DEF b
<1>6. current' = current => current' = CommandItem(cmd, param)'
  BY <1>1
<1>7. CASE Begun /\ COMPORT \in is_do
  <2>1. Reads(1)' /\ current' = current
    BY <1>1, <1>7, CommandBegins
  <2>2. 1 \in 1..n - 1
    BY <1>3
  <2> HIDE DEF n
  <2>3. \E k \in 1..n - 1 : Reads(k)'
    BY <2>1, <2>2
  <2> QED
    BY <1>6, <2>1, <2>3 DEF InCommand, n
<1>8. CASE Reads(1)
  <2>1. Reads(2)' /\ current' = current
    BY <1>1, <1>8, CommandGoesOn
  <2>2. 2 \in 1..n - 1
    BY <1>3
  <2> HIDE DEF n
  <2>3. \E k \in 1..n - 1 : Reads(k)'
    BY <2>1, <2>2
  <2> QED
    BY <1>6, <2>1, <2>3 DEF InCommand, n
<1>9. ASSUME NEW k \in 2..n - 1, Reads(k) PROVE InCommand(cmd, param)'
  <2>1. k \in 2..Len(b) - 1 /\ k \in Nat /\ k + 1 <= n /\ n \in Nat
    BY <1>3
  <2> DEFINE d == SubSeq(b, 1, k + 1)
  <2>2. /\ Last' = b[k + 1] /\ pending' = SubSeq(b, k + 2, Len(b))
        /\ devGot' = << >> /\ current' = current /\ COMPORT \in is_do
        /\ IACSigEscape' = "Normal" /\ IACCommand' = d
        /\ Len(d) = k + 1 /\ (\A i \in 1..k : d[i] = b[i])
        /\ (k >= 4 /\ Len(d) = Length(d) => IACEscape' = "Normal" /\ HandleIACCommand(d))
        /\ (~(k >= 4 /\ Len(d) = Length(d)) =>
              IACEscape' = "Command" /\ UNCHANGED <<is_do, told>>)
    <3>1. cmd \in Commands /\ cmd # 0
      OBVIOUS
    <3>2. k \in 2..Len(CommandItem(cmd, param).bytes) - 1
      BY <2>1 DEF b
    <3> QED
      BY <1>1, <1>9, <3>1, <3>2, CommandByte DEF b
  <2> HIDE DEF d
  <2>3. d[2] = SB /\ (k >= 4 => d[4] = cmd /\ d[3] = COMPORT)
    <3>1. 2 \in 1..k /\ (k >= 4 => 4 \in 1..k /\ 3 \in 1..k)
      BY <2>1
    <3> QED
      BY <1>2, <2>2, <3>1
  <2>4. k >= 4 => Length(d) = n
    BY <2>3 DEF Length, FixedLength
  <2>5. CASE k + 1 < n
    <3>1. ~(k >= 4 /\ Len(d) = Length(d))
      BY <2>1, <2>2, <2>4, <2>5
    <3>2. IACEscape' = "Command" /\ is_do' = is_do
      BY <2>2, <3>1
    <3>3. k + 1 \in 1..n - 1 /\ k + 1 # 1 /\ (k + 1) + 1 = k + 2
      BY <1>3, <2>1, <2>5
    <3>4. Reads(k + 1)'
      <4>1. current'.bytes = b
        BY <1>1, <2>2
      <4>2. IACCommand' = SubSeq(b, 1, k + 1)
        BY <2>2 DEF d
      <4>3. pending' = SubSeq(b, (k + 1) + 1, Len(b))
        BY <2>2, <3>3
      <4> HIDE DEF n
      <4> QED
        BY <2>2, <3>2, <3>3, <4>1, <4>2, <4>3 DEF Reads
    <3> HIDE DEF n
    <3>5. \E j \in 1..n - 1 : Reads(j)'
      BY <3>3, <3>4
    <3> QED
      BY <1>6, <2>2, <3>5 DEF InCommand, n
  <2>6. CASE k + 1 = n
    <3>1. k >= 4 /\ Len(d) = Length(d)
      BY <1>3, <2>1, <2>2, <2>4, <2>6
    <3>2. IACEscape' = "Normal" /\ HandleIACCommand(d)
      BY <2>2, <3>1
    <3>3. d = SubSeq(b, 1, n)
      BY <2>6 DEF d
    <3>4. Granted(cmd, param)'
      <4>1. Len(param) > 0 => d[5] = param[1]
        <5> SUFFICES ASSUME Len(param) > 0 PROVE d[5] = param[1]
          OBVIOUS
        <5>1. param \in Seq(Bytes) /\ Len(param) \in Nat
              /\ Len(param) = IF cmd = 1 THEN 4 ELSE IF cmd \in {8, 9} THEN 0 ELSE 1
          BY ParamFacts
        <5>2. n \in {7, 10}
          BY <5>1 DEF FixedLength
        <5>3. 5 \in 1..k
          BY <2>1, <2>6, <5>2
        <5> QED
          BY <1>3, <2>2, <5>3
      <4>2. ASSUME cmd = 1, ~IsEscaped(param) PROVE SubSeq(d, 5, 8) = param
        <5>1. n = 10 /\ Len(b) = 10
          BY <1>3, <4>2 DEF FixedLength
        <5>2. d = b
          BY <1>2, <3>3, <5>1, SubSeqFull
        <5> QED
          BY <1>3, <4>2, <5>2
      <4>3. Served
        BY DEF ServerInv
      <4> QED
        BY <2>2, <2>3, <3>1, <3>2, <4>1, <4>2, <4>3, CommandGrants
    <3>5. CASE IsEscaped(param)
      <4>1. Len(b) = k + 2 /\ Len(b) - 1 = k + 1
        BY <1>3, <2>1, <2>6, <3>5
      <4>2. pending' = <<SE>> /\ Last' = IAC
        <5>1. SubSeq(b, Len(b), Len(b)) = <<b[Len(b)]>>
          BY <1>2, LastByte
        <5> QED
          BY <1>4, <2>2, <4>1, <5>1
      <4> QED
        BY <1>6, <2>2, <3>2, <3>4, <3>5, <4>2 DEF InCommand
    <3>6. CASE ~IsEscaped(param)
      <4>1. Len(b) = k + 1 /\ Len(b) + 1 = k + 2
        BY <1>3, <2>1, <2>6, <3>6
      <4>2. pending' = << >> /\ Last' = SE
        <5>1. SubSeq(b, Len(b) + 1, Len(b)) = << >>
          BY <1>2, LastByte
        <5> QED
          BY <1>4, <2>2, <4>1, <5>1
      <4>3. SE # CR
        BY DEF SE, CR
      <4>4. Ended(<< >>)'
        BY <2>2, <3>2, <4>2, <4>3 DEF Ended, AtRest
      <4>5. Ended(IF IsEscaped(param) THEN <<SE>> ELSE << >>)'
        BY <3>6, <4>4
      <4> QED
        BY <1>6, <2>2, <3>4, <4>5 DEF InCommand
    <3> QED
      BY <3>5, <3>6
  <2> QED
    BY <2>1, <2>5, <2>6
<1>10. CASE /\ IsEscaped(param) /\ pending = <<SE>> /\ IACEscape = "Normal" /\ Last = IAC
            /\ devGot = << >> /\ Granted(cmd, param)
  <2>1. Head(pending) = SE /\ Tail(pending) = << >>
    BY <1>10
  <2>2. SE # IAC /\ SE # 0 /\ SE # CR /\ SE \in Bytes
    BY ProtocolBytes DEF SE, IAC, CR
  <2>3. /\ Last' = SE /\ pending' = << >> /\ UNCHANGED <<current, is_do, told>>
        /\ IACEscape' = "Normal" /\ devGot' = devGot \o <<SE>>
    BY <1>10, <2>1, <2>2, StepNormal
  <2>4. devGot' = <<SE>>
    <3>1. <<SE>> \in Seq(Bytes)
      BY <2>2
    <3>2. << >> \o <<SE>> = <<SE>>
      BY <3>1, ConcatEmptySeq
    <3> QED
      BY <1>10, <2>3, <3>2
  <2>5. Ended(<<SE>>)'
    BY <2>2, <2>3, <2>4 DEF Ended, AtRest
  <2>6. Granted(cmd, param)'
    BY <1>10, <2>3 DEF Granted, Supported
  <2>7. Ended(IF IsEscaped(param) THEN <<SE>> ELSE << >>)'
    BY <1>10, <2>5
  <2> QED
    BY <1>6, <2>3, <2>6, <2>7 DEF InCommand
<1>11. CASE Ended(IF IsEscaped(param) THEN <<SE>> ELSE << >>)
  BY <1>1, <1>11 DEF Ended
<1>12. ASSUME \E k \in 1..n - 1 : Reads(k) PROVE InCommand(cmd, param)'
  <2>1. PICK k \in 1..n - 1 : Reads(k)
    BY <1>12
  <2>2. k = 1 \/ k \in 2..n - 1
    BY <1>3
  <2> QED
    BY <1>8, <1>9, <2>1, <2>2
<1> QED
  BY <1>7, <1>10, <1>11, <1>12 DEF InCommand

\* After the code of a command come its escaped parameter and IAC SE.
LEMMA CommandTail ==
  ASSUME NEW cmd \in Commands, NEW param \in Params[cmd]
  PROVE  LET b == CommandItem(cmd, param).bytes
         IN  SubSeq(b, 5, Len(b)) = EscapeParam(param) \o <<IAC, SE>>
<1> DEFINE b == CommandItem(cmd, param).bytes
           e == EscapeParam(param)
           tail == <<IAC, SE>>
           s == SubSeq(b, 5, Len(b))
           t == e \o tail
<1>1. /\ b \in Seq(Bytes) /\ e \in Seq(Bytes) /\ Len(e) \in Nat
      /\ Len(b) = Len(e) + 6 /\ Len(b) \in Nat
      /\ \A i \in 1..Len(e) : b[i + 4] = e[i]
      /\ b[Len(e) + 5] = IAC /\ b[Len(e) + 6] = SE
  BY CommandBytes
<1>2. tail \in Seq(Bytes) /\ Len(tail) = 2 /\ tail[1] = IAC /\ tail[2] = SE
  <2>1. IAC \in Bytes /\ SE \in Bytes
    BY ProtocolBytes
  <2> QED
    BY ONLY <2>1
<1> HIDE DEF b, e, tail
<1>3. /\ t \in Seq(Bytes) /\ Len(t) = Len(e) + 2
      /\ \A i \in 1..Len(e) : t[i] = e[i]
      /\ t[Len(e) + 1] = IAC /\ t[Len(e) + 2] = SE
  <2>1. /\ t \in Seq(Bytes) /\ Len(t) = Len(e) + Len(tail)
        /\ \A i \in 1..Len(e) : t[i] = e[i]
        /\ \A i \in 1..Len(tail) : t[Len(e) + i] = tail[i]
    BY <1>1, <1>2, ConcatFacts
  <2> HIDE DEF t
  <2>2. 1 \in 1..Len(tail) /\ 2 \in 1..Len(tail)
    BY <1>2
  <2> QED
    BY <1>2, <2>1, <2>2
<1> HIDE DEF t
<1>4. /\ s \in Seq(Bytes) /\ Len(s) = Len(e) + 2
      /\ \A i \in 1..Len(e) + 2 : s[i] = b[i + 4]
  <2>1. \A i \in 5..Len(b) : b[i] \in Bytes
    BY <1>1
  <2>2. /\ s \in Seq(Bytes)
        /\ Len(s) = IF 5 <= Len(b) THEN Len(b) - 5 + 1 ELSE 0
        /\ \A i \in 1..Len(b) - 5 + 1 : s[i] = b[5 + i - 1]
    BY <1>1, <2>1, SubSeqProperties
  <2> HIDE DEF s
  <2>3. Len(b) - 5 + 1 = Len(e) + 2 /\ 5 <= Len(b)
    BY <1>1
  <2>4. \A i \in 1..Len(e) + 2 : 5 + i - 1 = i + 4
    OBVIOUS
  <2> QED
    BY <2>2, <2>3, <2>4
<1> HIDE DEF s
<1>5. \A i \in 1..Len(s) : s[i] = t[i]
  <2> SUFFICES ASSUME NEW i \in 1..Len(e) + 2 PROVE s[i] = t[i]
    BY <1>4
  <2>1. CASE i \in 1..Len(e)
    BY <1>1, <1>3, <1>4, <2>1
  <2>2. CASE i = Len(e) + 1
    <3>1. i + 4 = Len(e) + 5
      BY <1>1, <2>2
    <3> QED
      BY <1>1, <1>3, <1>4, <2>2, <3>1
  <2>3. CASE i = Len(e) + 2
    <3>1. i + 4 = Len(e) + 6
      BY <1>1, <2>3
    <3> QED
      BY <1>1, <1>3, <1>4, <2>3, <3>1
  <2> QED
    BY <1>1, <2>1, <2>2, <2>3
<1>6. Len(s) = Len(t)
  BY <1>3, <1>4
<1>7. s = t
  BY <1>3, <1>4, <1>5, <1>6, SeqEqual
<1> QED
  BY <1>7 DEF s, t, b, e, tail

\* Reading a byte of a signature leads on, or to the end.
LEMMA SignatureIsRead ==
  ASSUME ServerInv, ReadNet, NEW param \in Params[0], InSignature(param)
  PROVE  InSignature(param)'
<1> DEFINE b == CommandItem(0, param).bytes
<1>1. /\ pending # << >> /\ current = CommandItem(0, param) /\ current.bytes = b
      /\ devGot \in Seq(Bytes) /\ pending \in Seq(Bytes) /\ IACCommand \in Seq(Bytes)
  BY DEF ReadNet, InSignature, ServerInv, Forwarded, World, Reader
<1>2. /\ b \in Seq(Bytes) /\ Len(b) \in Nat /\ Len(b) >= 6
      /\ b[2] = SB /\ b[3] = COMPORT /\ b[4] = 0
  <2>1. 0 \in Commands
    BY DEF Commands
  <2> QED
    BY <2>1, CommandBytes
<1>3. 0 \in Commands
  BY DEF Commands
<1>4. SubSeq(b, 5, Len(b)) = EscapeParam(param) \o <<IAC, SE>>
  BY <1>3, CommandTail
<1>5. Closes(SubSeq(b, 5, Len(b)))
  <2>1. param \in Seq(Bytes)
    BY <1>3, ParamFacts
  <2> QED
    BY <1>4, <2>1, EscapedCloses
<1>6. current' = current => current' = CommandItem(0, param)'
  BY <1>1 DEF CommandItem
<1>7. CASE Begun /\ COMPORT \in is_do
  <2>1. Reads(1)' /\ current' = current
    BY <1>1, <1>3, <1>7, CommandBegins
  <2> QED
    BY <1>6, <2>1 DEF InSignature
<1>8. CASE Reads(1)
  <2>1. Reads(2)' /\ current' = current
    BY <1>1, <1>3, <1>8, CommandGoesOn
  <2> QED
    BY <1>6, <2>1 DEF InSignature
<1>9. ASSUME NEW k \in {2, 3}, Reads(k) PROVE InSignature(param)'
  <2> DEFINE d == SubSeq(b, 1, k + 1)
  <2>1. /\ pending' = SubSeq(b, k + 2, Len(b))
        /\ devGot' = << >> /\ current' = current /\ COMPORT \in is_do
        /\ IACSigEscape' = "Normal" /\ IACCommand' = d
        /\ Len(d) = k + 1
        /\ IACEscape' = "Command" /\ UNCHANGED <<is_do, told>>
    <3>1. k \in 2..Len(CommandItem(0, param).bytes) - 1
      BY <1>2
    <3>2. ~(k >= 4)
      OBVIOUS
    <3> QED
      BY <1>1, <1>3, <1>9, <3>1, <3>2, CommandByte
  <2> HIDE DEF b
  <2>2. CASE k = 2
    <3>1. k + 1 = 3 /\ k + 2 = 3 + 1
      BY <2>2
    <3>2. Reads(3)'
      <4>1. current'.bytes = b
        BY <1>1, <2>1
      <4> QED
        BY <2>1, <3>1, <4>1 DEF Reads
    <3> QED
      BY <1>6, <2>1, <3>2 DEF InSignature
  <2>3. CASE k = 3
    <3>1. k + 1 = 4 /\ k + 2 = 5
      BY <2>3
    <3>2. Len(d) = 4 /\ d[2] = SB /\ d[4] = 0
      <4>1. \A i \in 1..4 : b[i] \in Bytes
        BY <1>2
      <4>2. /\ Len(SubSeq(b, 1, 4)) = IF 1 <= 4 THEN 4 - 1 + 1 ELSE 0
            /\ \A i \in 1..4 - 1 + 1 : SubSeq(b, 1, 4)[i] = b[1 + i - 1]
        BY <4>1, SubSeqProperties
      <4>3. d = SubSeq(b, 1, 4)
        BY <3>1
      <4> DEFINE f == SubSeq(b, 1, 4)
      <4> HIDE DEF f, d
      <4>4. Len(f) = 4 /\ f[2] = b[2] /\ f[4] = b[4]
        BY <4>2 DEF f
      <4> QED
        BY <1>2, <4>3, <4>4 DEF f
    <3>3. Closes(pending')
      BY <1>5, <2>1, <3>1
    <3> HIDE DEF d
    <3>4. Len(IACCommand') >= 4 /\ IACCommand'[2] = SB /\ IACCommand'[4] = 0
      <4>1. IACCommand' = d
        BY <2>1
      <4>2. Len(d) >= 4
        BY ONLY <3>2
      <4> QED
        BY ONLY <3>2, <4>1, <4>2
    <3> QED
      BY <1>6, <2>1, <3>3, <3>4 DEF InSignature, Closes
  <2> QED
    BY <2>2, <2>3
<1>10. ASSUME \E k \in 1..3 : Reads(k) PROVE InSignature(param)'
  <2>1. PICK k \in 1..3 : Reads(k)
    BY <1>10
  <2>2. k = 1 \/ k \in {2, 3}
    OBVIOUS
  <2> QED
    BY <1>8, <1>9, <2>1, <2>2
<1>11. CASE Ended(<< >>)
  BY <1>1, <1>11 DEF Ended
<1> DEFINE C == Head(pending)
<1>12. ASSUME IACEscape = "Command", Len(IACCommand) >= 4, IACCommand[2] = SB,
              IACCommand[4] = 0
       PROVE  /\ C \in Bytes /\ Last' = C /\ pending' = Tail(pending) /\ devGot' = devGot
              /\ UNCHANGED <<current, aligned>>
              /\ IACSigEscape = "Normal" /\ C = IAC =>
                    IACSigEscape' = "Received" /\ UNCHANGED <<IACCommand, IACEscape>>
              /\ IACSigEscape = "Received" /\ C # IAC => IACEscape' = "Normal"
              /\ ~(IACSigEscape = "Normal" /\ C = IAC) /\ ~(IACSigEscape = "Received" /\ C # IAC) =>
                    /\ IACSigEscape' = "Normal" /\ IACCommand' = Append(IACCommand, C)
                    /\ UNCHANGED IACEscape
  BY <1>12, StepSignature
<1>13. ASSUME C \in Bytes, Len(IACCommand) >= 4
       PROVE  LET d == Append(IACCommand, C)
              IN  Len(d) >= 4 /\ d[2] = IACCommand[2] /\ d[4] = IACCommand[4]
  <2>1. /\ Len(Append(IACCommand, C)) = Len(IACCommand) + 1 /\ Len(IACCommand) \in Nat
        /\ \A i \in Nat \ {0} : i <= Len(IACCommand) => Append(IACCommand, C)[i] = IACCommand[i]
    BY <1>1, <1>13, CollectFacts
  <2> QED
    BY <1>13, <2>1
<1>14. CASE /\ IACEscape = "Command" /\ Len(IACCommand) >= 4
            /\ IACCommand[2] = SB /\ IACCommand[4] = 0 /\ devGot = << >>
            /\ IACSigEscape = "Normal" /\ Closes(pending)
  <2>1. /\ Tail(pending) \in Seq(Bytes) /\ Head(pending) = pending[1]
        /\ pending[1] # IAC => Closes(Tail(pending))
        /\ pending[1] = IAC => \/ Tail(pending) = <<SE>>
                               \/ /\ Tail(pending) # << >> /\ Head(Tail(pending)) = IAC
                                  /\ Closes(Tail(Tail(pending)))
    BY <1>1, <1>14, ClosesNext
  <2>2. CASE C = IAC
    <3>1. /\ IACSigEscape' = "Received" /\ UNCHANGED <<IACCommand, IACEscape>>
          /\ pending' = Tail(pending) /\ devGot' = << >> /\ current' = current
      BY <1>12, <1>14, <2>2
    <3>2. /\ pending' # << >>
          /\ pending' = <<SE>> \/ (Head(pending') = IAC /\ Closes(Tail(pending')))
      <4>1. <<SE>> # << >>
        OBVIOUS
      <4> QED
        BY <2>1, <2>2, <3>1, <4>1
    <3> QED
      BY <1>6, <1>14, <3>1, <3>2 DEF InSignature, Closes
  <2>3. CASE C # IAC
    <3>1. /\ IACSigEscape' = "Normal" /\ IACCommand' = Append(IACCommand, C)
          /\ pending' = Tail(pending) /\ devGot' = << >> /\ current' = current
          /\ IACEscape' = "Command" /\ C \in Bytes
      BY <1>12, <1>14, <2>3
    <3>2. Len(IACCommand') >= 4 /\ IACCommand'[2] = SB /\ IACCommand'[4] = 0
      BY <1>13, <1>14, <3>1
    <3>3. Closes(pending')
      BY <2>1, <2>3, <3>1
    <3> QED
      BY <1>6, <3>1, <3>2, <3>3 DEF InSignature, Closes
  <2> QED
    BY <2>2, <2>3
<1>15. CASE /\ IACEscape = "Command" /\ Len(IACCommand) >= 4
            /\ IACCommand[2] = SB /\ IACCommand[4] = 0 /\ devGot = << >>
            /\ IACSigEscape = "Received" /\ pending = <<SE>>
  <2>1. C = SE /\ Tail(pending) = << >> /\ SE # IAC /\ SE # CR
    <3>1. SE # IAC /\ SE # CR
      BY DEF SE, IAC, CR
    <3> QED
      BY <1>15, <3>1
  <2>2. /\ IACEscape' = "Normal" /\ pending' = << >> /\ devGot' = << >> /\ Last' = SE
        /\ current' = current
    BY <1>12, <1>15, <2>1
  <2>3. Ended(<< >>)'
    BY <2>1, <2>2 DEF Ended, AtRest
  <2> QED
    BY <1>6, <2>2, <2>3 DEF InSignature
<1>16. CASE /\ IACEscape = "Command" /\ Len(IACCommand) >= 4
            /\ IACCommand[2] = SB /\ IACCommand[4] = 0 /\ devGot = << >>
            /\ IACSigEscape = "Received" /\ Head(pending) = IAC /\ Closes(Tail(pending))
  <2>1. /\ IACSigEscape' = "Normal" /\ IACCommand' = Append(IACCommand, C)
        /\ pending' = Tail(pending) /\ devGot' = << >> /\ current' = current
        /\ IACEscape' = "Command" /\ C \in Bytes
    BY <1>12, <1>16
  <2>2. Len(IACCommand') >= 4 /\ IACCommand'[2] = SB /\ IACCommand'[4] = 0
    BY <1>13, <1>16, <2>1
  <2>3. Closes(pending')
    BY <1>16, <2>1
  <2> QED
    BY <1>6, <2>1, <2>2, <2>3 DEF InSignature, Closes
<1> QED
  BY <1>7, <1>10, <1>11, <1>14, <1>15, <1>16 DEF InSignature

\* A command of which some bytes are to come is not at its end.
LEMMA CommandIsPending ==
  ASSUME NEW cmd \in Commands, NEW param \in Params[cmd], current = CommandItem(cmd, param),
         pending = << >>
  PROVE  ~Begun /\ \A k \in 1..Len(current.bytes) - 1 : ~Reads(k)
<1> DEFINE b == CommandItem(cmd, param).bytes
<1>1. b \in Seq(Bytes) /\ Len(b) \in Nat /\ Len(b) >= 6 /\ current.bytes = b
  BY CommandBytes
<1> HIDE DEF b
<1>2. ~Begun
  <2>1. b # << >>
    BY <1>1
  <2> QED
    BY <1>1, <2>1 DEF Begun
<1>3. ASSUME NEW k \in 1..Len(b) - 1, Reads(k) PROVE FALSE
  <2>1. SubSeq(b, k + 1, Len(b)) # << >>
    BY <1>1, OneByteOn
  <2> QED
    BY <1>1, <1>3, <2>1 DEF Reads
<1> QED
  BY <1>1, <1>2, <1>3

\* When an item is all read the parser is between two items, and the device got the
\* data of the item; a command was carried out.
LEMMA EndOfItem ==
  ASSUME Progress, aligned, pending = << >>
  PROVE  /\ AtRest
         /\ \/ current = NoItem /\ devGot = << >>
            \/ \E b \in Data : current.kind = "data" /\ current.data = <<b>> /\ devGot = <<b>>
            \/ current.kind = "option" /\ devGot = << >>
            \/ \E cmd \in Commands \ {0} : \E param \in Params[cmd] :
                  /\ current = CommandItem(cmd, param) /\ Granted(cmd, param)
                  /\ devGot = IF IsEscaped(param) THEN <<SE>> ELSE << >>
            \/ \E param \in Params[0] : current = CommandItem(0, param) /\ devGot = << >>
<1>1. CASE current = NoItem /\ Ended(<< >>)
  BY <1>1 DEF Ended
<1>2. ASSUME NEW b \in Data, InData(b)
      PROVE  AtRest /\ current.kind = "data" /\ current.data = <<b>> /\ devGot = <<b>>
  <2>1. current = DataItem(b)
    BY <1>2 DEF InData
  <2>2. current.kind = "data" /\ current.data = <<b>> /\ current.bytes # << >>
    BY <2>1 DEF DataItem
  <2>3. Ended(<<b>>)
    BY <1>2, <2>2 DEF InData, Begun
  <2> QED
    BY <2>2, <2>3 DEF Ended
<1>3. ASSUME NEW verb \in {WILL, WONT, DO, DONT}, NEW o \in {BINARY, COMPORT}, InOption(verb, o)
      PROVE  AtRest /\ current.kind = "option" /\ devGot = << >>
  <2>1. current = OptionItem(verb, o)
    BY <1>3 DEF InOption
  <2>2. current.kind = "option" /\ current.bytes # << >>
    BY <2>1 DEF OptionItem
  <2>3. Ended(<< >>)
    BY <1>3, <2>2 DEF InOption, Begun
  <2> QED
    BY <2>2, <2>3 DEF Ended
<1>4. ASSUME NEW cmd \in Commands \ {0}, NEW param \in Params[cmd], InCommand(cmd, param)
      PROVE  /\ AtRest /\ current = CommandItem(cmd, param) /\ Granted(cmd, param)
             /\ devGot = IF IsEscaped(param) THEN <<SE>> ELSE << >>
  <2>1. current = CommandItem(cmd, param)
    BY <1>4 DEF InCommand
  <2>2. ~Begun /\ \A k \in 1..Len(current.bytes) - 1 : ~Reads(k)
    BY <2>1, CommandIsPending
  <2>3. FixedLength(cmd) <= Len(current.bytes) /\ FixedLength(cmd) \in Nat
        /\ Len(current.bytes) \in Nat
    <3>1. /\ FixedLength(cmd) \in {6, 7, 10}
          /\ IsEscaped(param) => Len(CommandItem(cmd, param).bytes) = FixedLength(cmd) + 1
          /\ ~IsEscaped(param) => Len(CommandItem(cmd, param).bytes) = FixedLength(cmd)
      BY FixedCommand
    <3> QED
      BY <2>1, <3>1
  <2>4. \A k \in 1..FixedLength(cmd) - 1 : k \in 1..Len(current.bytes) - 1
    BY ONLY <2>3
  <2>5. ~(\E k \in 1..FixedLength(cmd) - 1 : Reads(k))
    BY <2>2, <2>4
  <2>6. Ended(IF IsEscaped(param) THEN <<SE>> ELSE << >>) /\ Granted(cmd, param)
    BY <1>4, <2>2, <2>5 DEF InCommand
  <2> QED
    BY <2>1, <2>6 DEF Ended
<1>5. ASSUME NEW param \in Params[0], InSignature(param)
      PROVE  AtRest /\ current = CommandItem(0, param) /\ devGot = << >>
  <2>1. current = CommandItem(0, param) /\ 0 \in Commands
    BY <1>5 DEF InSignature, Commands
  <2>2. ~Begun /\ \A k \in 1..Len(current.bytes) - 1 : ~Reads(k)
    BY <2>1, CommandIsPending
  <2>3. Len(current.bytes) \in Nat /\ Len(current.bytes) >= 6
    BY <2>1, CommandBytes
  <2>4. \A k \in 1..3 : k \in 1..Len(current.bytes) - 1
    BY ONLY <2>3
  <2>5. ~(\E k \in 1..3 : Reads(k))
    BY <2>2, <2>4
  <2>6. ~Closes(pending)
    <3>1. << >> \in Seq(Bytes)
      OBVIOUS
    <3> QED
      BY <3>1, ClosesNext
  <2>7. Ended(<< >>)
    BY <1>5, <2>2, <2>5, <2>6 DEF InSignature
  <2> QED
    BY <2>1, <2>7 DEF Ended
<1> QED
  BY <1>1, <1>2, <1>3, <1>4, <1>5 DEF Progress, Ended

\* Initially nothing is read.
LEMMA InitProgress == Init => Progress
<1> SUFFICES ASSUME Init PROVE Progress
  OBVIOUS
<1>1. Ended(<< >>) /\ current = NoItem
  BY DEF Init, Ended, AtRest, CR
<1> QED
  BY <1>1 DEF Progress

\* Every byte of an item is read as the item says.
LEMMA ReadNetProgress ==
  ASSUME ServerInv, Progress, ReadNet PROVE Progress'
<1> SUFFICES ASSUME aligned
             PROVE  \/ \E b \in Data : InData(b)'
                    \/ \E verb \in {WILL, WONT, DO, DONT}, o \in {BINARY, COMPORT} :
                          InOption(verb, o)'
                    \/ \E cmd \in Commands \ {0} : \E param \in Params[cmd] :
                          InCommand(cmd, param)'
                    \/ \E param \in Params[0] : InSignature(param)'
  BY DEF Progress, ReadNet, NextSteps
<1>1. ~Ended(<< >>)
  BY DEF ReadNet, Ended
<1>2. CASE \E b \in Data : InData(b)
  BY <1>2, DataIsRead
<1>3. CASE \E verb \in {WILL, WONT, DO, DONT}, o \in {BINARY, COMPORT} : InOption(verb, o)
  BY <1>3, OptionIsRead
<1>4. CASE \E cmd \in Commands \ {0} : \E param \in Params[cmd] : InCommand(cmd, param)
  BY <1>4, CommandIsRead
<1>5. CASE \E param \in Params[0] : InSignature(param)
  BY <1>5, SignatureIsRead
<1> QED
  BY <1>1, <1>2, <1>3, <1>4, <1>5 DEF Progress

\* The next item begins when the parser is between two items.
LEMMA ClientSendsProgress ==
  ASSUME Progress, ClientSends PROVE Progress'
<1> SUFFICES ASSUME aligned
             PROVE  \/ \E b \in Data : InData(b)'
                    \/ \E verb \in {WILL, WONT, DO, DONT}, o \in {BINARY, COMPORT} :
                          InOption(verb, o)'
                    \/ \E cmd \in Commands \ {0} : \E param \in Params[cmd] :
                          InCommand(cmd, param)'
                    \/ \E param \in Params[0] : InSignature(param)'
  BY DEF Progress, ClientSends, NextSteps
<1>1. AtRest
  BY EndOfItem DEF ClientSends
<1>2. UNCHANGED <<IACEscape, Last, is_do>>
  BY DEF ClientSends, statics, parser, options
<1>3. Begun'
  BY <1>1, <1>2 DEF Begun, AtRest, ClientSends
<1>4. CASE \E b \in Data : current' = DataItem(b)
  <2>1. PICK b \in Data : current' = DataItem(b)
    BY <1>4
  <2>2. current' = DataItem(b)'
    BY <1>2, <2>1 DEF DataItem
  <2> QED
    BY <1>3, <2>2 DEF InData
<1>5. CASE \E verb \in {WILL, WONT, DO, DONT}, o \in {BINARY, COMPORT} :
              current' = OptionItem(verb, o)
  BY <1>3, <1>5 DEF InOption, OptionItem
<1>6. CASE /\ COMPORT \in is_do
           /\ \E cmd \in Commands : \E param \in Params[cmd] :
                 current' = CommandItem(cmd, param)
  <2>1. PICK cmd \in Commands : \E param \in Params[cmd] : current' = CommandItem(cmd, param)
    BY <1>6
  <2>2. PICK param \in Params[cmd] : current' = CommandItem(cmd, param)
    BY <2>1
  <2>3. COMPORT \in is_do' /\ current' = CommandItem(cmd, param)'
    BY <1>2, <1>6, <2>2 DEF CommandItem
  <2>4. CASE cmd = 0
    <3>1. InSignature(param)'
      BY <1>3, <2>3, <2>4 DEF InSignature
    <3> QED
      BY <2>4, <3>1
  <2>5. CASE cmd # 0
    <3>1. InCommand(cmd, param)'
      BY <1>3, <2>3 DEF InCommand
    <3> QED
      BY <2>5, <3>1
  <2> QED
    BY <2>4, <2>5
<1> QED
  BY <1>4, <1>5, <1>6 DEF ClientSends

\* What the client is told of the control lines is no part of how far an item is read.
LEMMA ProgressKept ==
  ASSUME Progress, UNCHANGED <<parser, is_do, pending, current, devGot, aligned>>,
         \A k \in {1, 2, 3, 4, 5, 11} : told'[k] = told[k]
  PROVE  Progress'
<1>1. UNCHANGED <<IACEscape, IACSigEscape, IACCommand, Last>>
  BY DEF parser
<1>2. Begun' <=> Begun
  BY <1>1 DEF Begun, AtRest
<1>3. \A got : Ended(got)' <=> Ended(got)
  BY <1>1 DEF Ended, AtRest
<1>4. \A k : Reads(k)' <=> Reads(k)
  BY <1>1 DEF Reads
<1>5. \A cmd, param : Granted(cmd, param) => Granted(cmd, param)'
  <2> SUFFICES ASSUME NEW cmd, NEW param, Granted(cmd, param), param \in Supported(cmd)
               PROVE  told'[cmd] = IF cmd = 1 THEN <<param>> ELSE param
    BY DEF Granted, Supported
  <2>1. cmd \in {1, 2, 3, 4, 5, 11}
    BY DEF Supported
  <2>2. told'[cmd] = told[cmd]
    BY <2>1
  <2> QED
    BY <2>2 DEF Granted
<1>6. ASSUME NEW b, InData(b) PROVE InData(b)'
  <2>1. DataItem(b)' = DataItem(b)
    BY DEF DataItem
  <2> QED
    BY <1>1, <1>2, <1>3, <1>6, <2>1 DEF InData
<1>7. ASSUME NEW verb, NEW o, InOption(verb, o) PROVE InOption(verb, o)'
  BY <1>1, <1>2, <1>3, <1>7 DEF InOption, OptionItem
<1>8. ASSUME NEW cmd, NEW param, InCommand(cmd, param) PROVE InCommand(cmd, param)'
  <2>1. CommandItem(cmd, param)' = CommandItem(cmd, param)
    BY DEF CommandItem
  <2> QED
    BY <1>1, <1>2, <1>3, <1>4, <1>5, <1>8, <2>1 DEF InCommand
<1>9. ASSUME NEW param, InSignature(param) PROVE InSignature(param)'
  <2>1. CommandItem(0, param)' = CommandItem(0, param)
    BY DEF CommandItem
  <2> QED
    BY <1>1, <1>2, <1>3, <1>4, <1>9, <2>1 DEF InSignature
<1>10. ASSUME current = NoItem, Ended(<< >>) PROVE current' = NoItem /\ Ended(<< >>)'
  BY <1>3, <1>10
<1> QED
  BY <1>6, <1>7, <1>8, <1>9, <1>10 DEF Progress

\* The next client is aligned when the parser is between two items.
LEMMA NextClientProgress ==
  ASSUME NextClient PROVE Progress'
<1> SUFFICES ASSUME aligned' PROVE current' = NoItem /\ Ended(<< >>)'
  BY DEF Progress
<1> QED
  BY DEF NextClient, Ended, AtRest, parser

\* Every step keeps how far the item is read.
LEMMA NextProgress == ServerInv /\ Progress /\ [Next]_vars => Progress'
<1> SUFFICES ASSUME ServerInv, Progress, [Next]_vars PROVE Progress'
  OBVIOUS
<1>1. CASE ClientSends
  BY <1>1, ClientSendsProgress
<1>2. CASE ReadNet
  BY <1>2, ReadNetProgress
<1>3. CASE ReadDev
  BY <1>3, ProgressKept DEF ReadDev, NextSteps, options
<1>4. CASE LinesChange
  BY <1>4, ProgressKept DEF LinesChange, statics, options
<1>5. CASE ReadModem
  <2>1. DOMAIN told = Known
    BY DEF ServerInv, Served
  <2> DEFINE new == [l \in Masked(ModemStateMask) |-> l \in GetModemState(ModemState)]
  <2>2. told' = [told EXCEPT ![107] = new]
    BY <1>5 DEF ReadModem
  <2> HIDE DEF new
  <2>3. \A k \in {1, 2, 3, 4, 5, 11} : told'[k] = told[k]
    BY <2>1, <2>2, KnownKeys
  <2>4. UNCHANGED <<parser, is_do, pending, current, devGot, aligned>>
    BY <1>5 DEF ReadModem, NextSteps, options
  <2> QED
    BY <2>3, <2>4, ProgressKept
<1>6. CASE NextClient
  BY <1>6, NextClientProgress
<1>7. CASE UNCHANGED vars
  BY <1>7, ProgressKept DEF vars, statics, options
<1> QED
  BY <1>1, <1>2, <1>3, <1>4, <1>5, <1>6, <1>7 DEF Next

-----------------------------------------------------------------------------
(* The theorems on items                                                   *)

\* How far each item is read is an invariant, with what is told and sent.
THEOREM ProgressInvariant == Spec => [](ServerInv /\ Progress)
<1>1. Init => ServerInv /\ Progress
  BY InitServerInv, InitProgress
<1>2. ServerInv /\ Progress /\ [Next]_vars => (ServerInv /\ Progress)'
  BY NextServerInv, NextProgress
<1> QED
  BY <1>1, <1>2, PTL DEF Spec

\* The parts of a command of the client.
LEMMA CommandParts ==
  ASSUME NEW cmd \in Commands, NEW param \in Params[cmd], current = CommandItem(cmd, param)
  PROVE  /\ current.kind = "command" /\ current.data = param /\ current.bytes[4] = cmd
         /\ EscapedParam <=> cmd # 0 /\ IsEscaped(param)
<1>1. current.kind = "command" /\ current.data = param
  BY DEF CommandItem
<1>2. CommandItem(cmd, param).bytes[4] = cmd
  BY CommandBytes
<1>3. current.bytes[4] = cmd
  BY <1>2
<1> QED
  BY <1>1, <1>3 DEF EscapedParam, IsEscaped

\* After each item the parser is between two items, and the device got the client's
\* data, and of a command nothing but the SE after an escaped parameter of fixed
\* length (EscRedirectChar:537-629).
THEOREM ParserInSync == Spec => []InSync
<1>1. ASSUME Progress PROVE InSync
  <2> SUFFICES ASSUME aligned, pending = << >>
               PROVE  /\ IACEscape = "Normal"
                      /\ devGot = IF current.kind = "data" THEN current.data
                                  ELSE IF EscapedParam THEN <<SE>> ELSE << >>
    BY DEF InSync
  <2>1. /\ AtRest
        /\ \/ current = NoItem /\ devGot = << >>
           \/ \E b \in Data : current.kind = "data" /\ current.data = <<b>> /\ devGot = <<b>>
           \/ current.kind = "option" /\ devGot = << >>
           \/ \E cmd \in Commands \ {0} : \E param \in Params[cmd] :
                 /\ current = CommandItem(cmd, param) /\ Granted(cmd, param)
                 /\ devGot = IF IsEscaped(param) THEN <<SE>> ELSE << >>
           \/ \E param \in Params[0] : current = CommandItem(0, param) /\ devGot = << >>
    BY <1>1, EndOfItem
  <2>2. IACEscape = "Normal"
    BY <2>1 DEF AtRest
  <2>3. CASE current = NoItem /\ devGot = << >>
    BY <2>2, <2>3 DEF NoItem, EscapedParam
  <2>4. CASE \E b \in Data : current.kind = "data" /\ current.data = <<b>> /\ devGot = <<b>>
    BY <2>2, <2>4
  <2>5. CASE current.kind = "option" /\ devGot = << >>
    BY <2>2, <2>5 DEF EscapedParam
  <2>6. ASSUME NEW cmd \in Commands \ {0}, NEW param \in Params[cmd],
               current = CommandItem(cmd, param),
               devGot = IF IsEscaped(param) THEN <<SE>> ELSE << >>
        PROVE  devGot = IF current.kind = "data" THEN current.data
                        ELSE IF EscapedParam THEN <<SE>> ELSE << >>
    <3>1. current.kind = "command" /\ (EscapedParam <=> IsEscaped(param))
      BY <2>6, CommandParts
    <3> QED
      BY <2>6, <3>1
  <2>7. ASSUME NEW param \in Params[0], current = CommandItem(0, param), devGot = << >>
        PROVE  devGot = IF current.kind = "data" THEN current.data
                        ELSE IF EscapedParam THEN <<SE>> ELSE << >>
    <3>1. 0 \in Commands
      BY DEF Commands
    <3>2. current.kind = "command" /\ ~EscapedParam
      BY <2>7, <3>1, CommandParts
    <3> QED
      BY <2>7, <3>2
  <2> QED
    BY <2>1, <2>2, <2>3, <2>4, <2>5, <2>6, <2>7
<1> QED
  BY <1>1, ProgressInvariant, PTL

\* A parameter that the port can take is obeyed: after the command the client was told
\* the value it asked for (HandleCPCCommand:733-886).
THEOREM ParserObeyed == Spec => []Obeyed
<1>1. ASSUME Progress PROVE Obeyed
  <2> SUFFICES ASSUME aligned, pending = << >>, current.kind = "command",
                      current.data \in Supported(current.bytes[4])
               PROVE  told[current.bytes[4]] = IF current.bytes[4] = 1 THEN <<current.data>>
                                               ELSE current.data
    BY DEF Obeyed
  <2>1. \/ current = NoItem
        \/ current.kind \in {"data", "option"}
        \/ \E cmd \in Commands \ {0} : \E param \in Params[cmd] :
              current = CommandItem(cmd, param) /\ Granted(cmd, param)
        \/ \E param \in Params[0] : current = CommandItem(0, param)
    BY <1>1, EndOfItem
  <2>2. current # NoItem
    BY DEF NoItem
  <2>3. ASSUME NEW cmd \in Commands \ {0}, NEW param \in Params[cmd],
               current = CommandItem(cmd, param), Granted(cmd, param)
        PROVE  told[current.bytes[4]] = IF current.bytes[4] = 1 THEN <<current.data>>
                                        ELSE current.data
    <3>1. current.data = param /\ current.bytes[4] = cmd
      BY <2>3, CommandParts
    <3> QED
      BY <2>3, <3>1 DEF Granted
  <2>4. ASSUME NEW param \in Params[0], current = CommandItem(0, param) PROVE FALSE
    <3>1. 0 \in Commands
      BY DEF Commands
    <3>2. current.bytes[4] = 0
      BY <2>4, <3>1, CommandParts
    <3> QED
      BY <3>2 DEF Supported
  <2> QED
    BY <2>1, <2>2, <2>3, <2>4
<1> QED
  BY <1>1, ProgressInvariant, PTL

-----------------------------------------------------------------------------
(* The replies as the client reads them                                    *)

\* A reply without IAC in its value, and without CR before one of its bytes, is sent
\* as it is.
LEMMA PlainReply ==
  ASSUME NEW bytes \in Seq(Bytes), ~IsEscaped(bytes), BINARY \in is_will \/ LastOut # CR,
         \A i \in 1..(Len(bytes) - 1) : bytes[i] # CR
  PROVE  EscapedAll(bytes) = bytes
<1> DEFINE seqs == [i \in 1..Len(bytes) |->
                       Escaped(bytes[i], IF i = 1 THEN LastOut ELSE bytes[i - 1])]
           plain == [i \in 1..Len(bytes) |->
                       IF bytes[i] = IAC THEN <<IAC, IAC>> ELSE <<bytes[i]>>]
<1>1. ASSUME NEW i \in 1..Len(bytes) PROVE seqs[i] = plain[i]
  <2>1. bytes[i] # IAC
    BY <1>1 DEF IsEscaped
  <2> DEFINE last == IF i = 1 THEN LastOut ELSE bytes[i - 1]
  <2>2. BINARY \in is_will \/ last # CR
    <3>1. CASE i = 1
      BY <3>1
    <3>2. CASE i # 1
      <4>1. i - 1 \in 1..(Len(bytes) - 1)
        BY <1>1, <3>2
      <4> QED
        BY <3>2, <4>1
    <3> QED
      BY <3>1, <3>2
  <2>3. seqs[i] = Escaped(bytes[i], last)
    BY <1>1
  <2> HIDE DEF last
  <2>4. Escaped(bytes[i], last) = <<bytes[i]>>
    BY <2>1, <2>2 DEF Escaped
  <2> QED
    BY <1>1, <2>1, <2>3, <2>4
<1>2. seqs = plain
  <2>1. DOMAIN seqs = DOMAIN plain
    OBVIOUS
  <2> QED
    BY <1>1
<1>3. EscapedAll(bytes) = SeqExt!FlattenSeq(seqs) /\ EscapeParam(bytes) = SeqExt!FlattenSeq(plain)
  BY DEF EscapedAll, EscapeParam
<1>4. EscapeParam(bytes) = bytes
  BY EscapeParamFacts
<1> HIDE DEF seqs, plain
<1> QED
  BY <1>2, <1>3, <1>4

\* A value of one byte is sent as EscWriteChar writes the byte.
LEMMA OneByteReply ==
  ASSUME NEW b \in Bytes PROVE EscapedAll(<<b>>) = Escaped(b, LastOut)
<1> DEFINE e == Escaped(b, LastOut)
           bytes == <<b>>
           seqs == [i \in 1..Len(bytes) |->
                       Escaped(bytes[i], IF i = 1 THEN LastOut ELSE bytes[i - 1])]
           P == {<<1, e>>}
<1>1. Len(bytes) = 1 /\ bytes[1] = b
  OBVIOUS
<1>2. EscapedAll(<<b>>) = SeqExt!FlattenSeq(seqs)
  BY DEF EscapedAll
<1> HIDE DEF bytes
<1>3. Len(seqs) = 1 /\ seqs[1] = e
  <2>1. 1 \in 1..Len(bytes)
    BY <1>1
  <2>2. seqs[1] = Escaped(bytes[1], LastOut)
    BY <2>1
  <2> QED
    BY <1>1, <2>2
<1> HIDE DEF seqs, e
<1>4. \A x : x \in P <=> x = <<1, e>>
  OBVIOUS
<1> HIDE DEF P
<1>5. <<1, seqs[1]>> \in P
  BY <1>3, <1>4
<1>6. Len(seqs) \in Nat \ {0}
  BY <1>3
<1>7. \A k \in 1..(Len(seqs) - 1) : \A s : <<k, s>> \in P => <<k + 1, s \o seqs[k + 1]>> \in P
  BY <1>3
<1>8. <<Len(seqs), SeqExt!FlattenSeq(seqs)>> \in P
  BY <1>5, <1>6, <1>7, FlattenInduction
<1> QED
  BY <1>2, <1>3, <1>4, <1>8 DEF e

\* What the client takes out of a reply is its escaped value.
LEMMA ReplyBody ==
  ASSUME NEW code \in Bytes, NEW bytes \in Seq(Bytes), SendCommand(code, bytes)
  PROVE  SubSeq(toNet', 5, Len(toNet') - 2) = EscapedAll(bytes) /\ toNet'[4] = code
<1> DEFINE head == <<IAC, SB, COMPORT, code>>
           e == EscapedAll(bytes)
           tail == <<IAC, SE>>
           sent == head \o e \o tail
<1>1. toNet' = sent
  BY DEF SendCommand
<1>2. IAC \in Bytes /\ SB \in Bytes /\ SE \in Bytes /\ COMPORT \in Bytes
  BY ProtocolBytes
<1>3. head \in Seq(Bytes) /\ Len(head) = 4 /\ head[4] = code
  BY <1>2
<1>4. tail \in Seq(Bytes) /\ Len(tail) = 2
  BY <1>2
<1>5. e \in Seq(Bytes) /\ Len(e) \in Nat
  BY EscapedAllFacts
<1> HIDE DEF head, e, tail
<1> DEFINE t == head \o e
<1>6. /\ t \in Seq(Bytes) /\ Len(t) = Len(head) + Len(e)
      /\ \A i \in 1..Len(head) : t[i] = head[i]
      /\ \A i \in 1..Len(e) : t[Len(head) + i] = e[i]
  BY <1>3, <1>5, ConcatFacts
<1> HIDE DEF t
<1>7. Len(t) = 4 + Len(e) /\ Len(t) \in Nat /\ t[4] = code /\ \A i \in 1..Len(e) : t[4 + i] = e[i]
  BY <1>3, <1>5, <1>6
<1>8. /\ t \o tail \in Seq(Bytes) /\ Len(t \o tail) = Len(t) + Len(tail)
      /\ \A i \in 1..Len(t) : (t \o tail)[i] = t[i]
  BY <1>4, <1>6, ConcatFacts
<1>9. sent = t \o tail
  BY DEF t
<1> HIDE DEF sent
<1>10. /\ sent \in Seq(Bytes) /\ Len(sent) = 6 + Len(e) /\ sent[4] = code
       /\ \A i \in 1..Len(e) : sent[4 + i] = e[i]
  <2>1. \A i \in 1..Len(e) : 4 + i \in 1..Len(t)
    BY <1>5, <1>7
  <2>2. 4 \in 1..Len(t)
    BY <1>5, <1>7
  <2> QED
    BY <1>4, <1>5, <1>7, <1>8, <1>9, <2>1, <2>2
<1> DEFINE body == SubSeq(sent, 5, Len(sent) - 2)
<1>11. body \in Seq(Bytes) /\ Len(body) = Len(e) /\ \A i \in 1..Len(e) : body[i] = sent[4 + i]
  <2>1. Len(sent) - 2 = 4 + Len(e)
    BY <1>5, <1>10
  <2> DEFINE n == 4 + Len(e)
  <2>2. n \in Nat /\ n >= 4 /\ n <= Len(sent) /\ body = SubSeq(sent, 5, n)
    BY <1>5, <1>10, <2>1
  <2>3. n - 5 + 1 = Len(e)
    BY <1>5
  <2> HIDE DEF n, body
  <2>4. /\ SubSeq(sent, 5, n) \in Seq(Bytes)
        /\ Len(SubSeq(sent, 5, n)) = IF 5 <= n THEN n - 5 + 1 ELSE 0
        /\ \A i \in 1..(n - 5 + 1) : SubSeq(sent, 5, n)[i] = sent[5 + i - 1]
    BY <1>10, <2>2
  <2>5. Len(body) = Len(e)
    BY <1>5, <2>2, <2>3, <2>4
  <2>6. \A i \in 1..Len(e) : 5 + i - 1 = 4 + i
    BY <1>5
  <2> QED
    BY <2>2, <2>3, <2>4, <2>5, <2>6
<1> HIDE DEF body
<1>12. body = e
  <2>1. \A i \in 1..Len(e) : body[i] = e[i]
    BY <1>10, <1>11
  <2> QED
    BY <1>5, <1>11, <2>1, SeqEqual
<1> QED
  BY <1>1, <1>10, <1>12 DEF body, e

\* What is whole: a value without IAC, and a pair of IAC for one byte.
LEMMA WholeFacts ==
  /\ \A bytes \in Seq(Bytes) : ~IsEscaped(bytes) => WholeValue(bytes, Len(bytes))
  /\ WholeValue(<<IAC, IAC>>, 1)
<1>1. ASSUME NEW bytes \in Seq(Bytes), ~IsEscaped(bytes)
      PROVE  WholeValue(bytes, Len(bytes))
  <2>1. {i \in DOMAIN bytes : bytes[i] = IAC} = {}
    BY <1>1 DEF IsEscaped
  <2>2. Cardinality({}) = 0
    BY FS_EmptySet
  <2>3. 0 % 2 = 0 /\ 0 \div 2 = 0 /\ Len(bytes) - 0 = Len(bytes)
    BY <1>1
  <2> QED
    BY <2>1, <2>2, <2>3 DEF WholeValue
<1>2. WholeValue(<<IAC, IAC>>, 1)
  <2> DEFINE body == <<IAC, IAC>>
             S == {i \in DOMAIN body : body[i] = IAC}
  <2>1. S = 1..2
    OBVIOUS
  <2>2. Len(body) = 2
    OBVIOUS
  <2>3. Cardinality(1..2) = 2
    <3>1. Cardinality(1..2) = IF 1 > 2 THEN 0 ELSE 2 - 1 + 1
      <4>1. 1 \in Int /\ 2 \in Int
        OBVIOUS
      <4> QED
        BY ONLY <4>1, FS_Interval
    <3> QED
      BY <3>1
  <2>4. Cardinality(S) = 2
    BY <2>1, <2>3
  <2>5. 2 % 2 = 0 /\ 2 - 2 \div 2 = 1
    OBVIOUS
  <2>6. WholeValue(body, 1) = (Cardinality(S) % 2 = 0 /\ Len(body) - Cardinality(S) \div 2 = 1)
    BY DEF WholeValue
  <2> HIDE DEF S
  <2>7. WholeValue(body, 1)
    BY <2>2, <2>4, <2>5, <2>6
  <2> QED
    BY <2>7
<1> QED
  BY <1>1, <1>2

\* What the client reads in a reply of one byte is one byte.
LEMMA ByteIsWhole ==
  ASSUME NEW code \in Bytes \ {101}, NEW b \in Bytes, BINARY \in is_will \/ LastOut # CR,
         SendCommand(code, <<b>>)
  PROVE  WholeValue(SubSeq(toNet', 5, Len(toNet') - 2),
                    IF toNet'[4] = 101 THEN SizeofLong ELSE 1)
<1> DEFINE bytes == <<b>>
<1>1. bytes \in Seq(Bytes) /\ Len(bytes) = 1 /\ bytes[1] = b
  OBVIOUS
<1>2. SendCommand(code, bytes)
  OBVIOUS
<1>3. EscapedAll(bytes) = Escaped(b, LastOut)
  BY OneByteReply
<1>4. b # IAC => ~IsEscaped(bytes)
  BY <1>1 DEF IsEscaped
<1>5. b # IAC => Escaped(b, LastOut) = bytes
  BY DEF Escaped
<1>6. b = IAC => Escaped(b, LastOut) = <<IAC, IAC>>
  BY DEF Escaped
<1> HIDE DEF bytes
<1>7. SubSeq(toNet', 5, Len(toNet') - 2) = EscapedAll(bytes) /\ toNet'[4] = code
  BY <1>1, <1>2, ReplyBody
<1>8. WholeValue(EscapedAll(bytes), 1)
  BY <1>1, <1>3, <1>4, <1>5, <1>6, WholeFacts
<1> QED
  BY <1>7, <1>8

\* The speed of a port has no IAC and no CR in its bytes.
LEMMA SpeedIsPlain ==
  ASSUME NEW p \in Termios
  PROVE  LET bytes == BaudBytes(GetPortSpeed(p))
         IN  \A i \in 1..Len(bytes) : bytes[i] # IAC /\ bytes[i] # CR
<1> DEFINE speed == GetPortSpeed(p)
           zeros == <<0, 0, 0, 0>>
<1>1. speed \in [1..4 -> Bytes] /\ \A i \in 1..4 : speed[i] # IAC /\ speed[i] # CR
  <2>1. speed \in Speeds \cup {zeros}
    BY DEF Termios, GetPortSpeed, NoSpeed
  <2>2. CASE speed \in Speeds
    <3>1. speed \in [1..4 -> 0..255 \ {13, 255}]
      BY <2>2, PortAssumption
    <3>2. \A x \in 0..255 \ {13, 255} : x \in Bytes /\ x # IAC /\ x # CR
      BY DEF Bytes, IAC, CR
    <3> HIDE DEF speed
    <3> QED
      BY <3>1, <3>2
  <2>3. CASE speed = zeros
    <3>1. 0 \in Bytes /\ 0 # IAC /\ 0 # CR
      BY DEF Bytes, IAC, CR
    <3> QED
      BY <2>3, <3>1
  <2> QED
    BY <2>1, <2>2, <2>3
<1>2. zeros \in Seq(Bytes) /\ Len(zeros) = 4 /\ \A i \in 1..4 : zeros[i] # IAC /\ zeros[i] # CR
  BY DEF Bytes, IAC, CR
<1> HIDE DEF zeros, speed
<1>3. speed \in Seq(Bytes) /\ Len(speed) = 4
  <2>1. speed \in Seq(Bytes)
    <3>1. [1..4 -> Bytes] \in {[1..n -> Bytes] : n \in Nat}
      OBVIOUS
    <3> QED
      BY <1>1, <3>1, SeqDef
  <2>2. DOMAIN speed = 1..Len(speed) /\ Len(speed) \in Nat /\ DOMAIN speed = 1..4
    BY <1>1, <2>1, LenProperties
  <2>3. ASSUME NEW n \in Nat, 1..n = 1..4 PROVE n = 4
    <3>1. 4 \in 1..n
      BY <2>3
    <3>2. n \in 1..n
      BY <3>1
    <3>3. n \in 1..4
      BY <2>3, <3>2
    <3> QED
      BY <3>1, <3>3
  <2> QED
    BY <2>1, <2>2, <2>3
<1>4. speed \o zeros \in Seq(Bytes) /\ Len(speed \o zeros) = 8
      /\ \A i \in 1..8 : (speed \o zeros)[i] # IAC /\ (speed \o zeros)[i] # CR
  <2>1. /\ speed \o zeros \in Seq(Bytes) /\ Len(speed \o zeros) = Len(speed) + Len(zeros)
        /\ \A i \in 1..Len(speed) : (speed \o zeros)[i] = speed[i]
        /\ \A i \in 1..Len(zeros) : (speed \o zeros)[Len(speed) + i] = zeros[i]
    BY <1>2, <1>3, ConcatFacts
  <2>2. \A i \in 1..8 : i \in 1..4 \/ (i - 4 \in 1..4 /\ 4 + (i - 4) = i)
    OBVIOUS
  <2>3. Len(speed) = 4 /\ Len(zeros) = 4
    BY <1>2, <1>3
  <2> DEFINE both == speed \o zeros
  <2>4. /\ both \in Seq(Bytes) /\ Len(both) = 8
        /\ \A i \in 1..4 : both[i] = speed[i] /\ both[4 + i] = zeros[i]
    BY <2>1, <2>3
  <2> HIDE DEF both
  <2>5. \A i \in 1..8 : both[i] # IAC /\ both[i] # CR
    BY <1>1, <1>2, <2>2, <2>4
  <2> QED
    BY <2>4, <2>5 DEF both
<1> QED
  BY <1>1, <1>3, <1>4 DEF BaudBytes, speed, zeros

\* What the client reads in a reply with the speed is a value of unsigned long.
LEMMA SpeedIsWhole ==
  ASSUME NEW p \in Termios, BINARY \in is_will \/ LastOut # CR,
         SendCommand(101, BaudBytes(GetPortSpeed(p)))
  PROVE  WholeValue(SubSeq(toNet', 5, Len(toNet') - 2),
                    IF toNet'[4] = 101 THEN SizeofLong ELSE 1)
<1> DEFINE bytes == BaudBytes(GetPortSpeed(p))
<1>1. bytes \in Seq(Bytes) /\ Len(bytes) = SizeofLong /\ SizeofLong \in Nat
  BY ReportedBytes, ParserAssumption
<1>2. \A i \in 1..Len(bytes) : bytes[i] # IAC /\ bytes[i] # CR
  BY SpeedIsPlain
<1>3. SendCommand(101, bytes) /\ 101 \in Bytes
  BY ProtocolBytes
<1> HIDE DEF bytes
<1>4. ~IsEscaped(bytes) /\ \A i \in 1..(Len(bytes) - 1) : bytes[i] # CR
  BY <1>1, <1>2 DEF IsEscaped
<1>5. EscapedAll(bytes) = bytes
  BY <1>1, <1>4, PlainReply
<1>6. SubSeq(toNet', 5, Len(toNet') - 2) = bytes /\ toNet'[4] = 101
  BY <1>1, <1>3, <1>5, ReplyBody
<1>7. WholeValue(bytes, SizeofLong)
  BY <1>1, <1>4, WholeFacts
<1> QED
  BY <1>6, <1>7

\* What a byte of the client is answered: nothing or three bytes, the signature, the
\* speed of a port, or a command with one byte.
Answered ==
    \/ Len(toNet') <= 3
    \/ SendCommand(100, SigStr)
    \/ \E p \in Termios : SendCommand(101, BaudBytes(GetPortSpeed(p)))
    \/ \E code \in Bytes \ {100, 101}, b \in Bytes : SendCommand(code, <<b>>)

\* Nothing is an answer.
LEMMA NothingAnswered == SendNothing => Answered
BY DEF SendNothing, Answered

\* So is what is sent for a verb.
LEMMA OptionAnswered ==
  ASSUME NEW condition, NEW verb \in Bytes, NEW o \in Bytes, SendIf(condition, verb, o)
  PROVE  Answered
<1>1. toNet' \in {<<IAC, verb, o>>, << >>}
  BY DEF SendIf
<1>2. Len(<<IAC, verb, o>>) = 3 /\ Len(<< >>) = 0
  OBVIOUS
<1>3. Len(toNet') <= 3
  <2>1. CASE toNet' = <<IAC, verb, o>>
    BY ONLY <1>2, <2>1
  <2>2. CASE toNet' = << >>
    BY ONLY <1>2, <2>2
  <2> QED
    BY <1>1, <2>1, <2>2
<1> QED
  BY <1>3 DEF Answered

\* A COM port command is answered with what the port then is.
LEMMA CPCAnswered ==
  ASSUME Served, NEW command, Complete(command), command[2] = SB,
         HandleCPCCommand(command), UNCHANGED <<options, ModemState>>
  PROVE  Answered
<1> DEFINE cmd == command[4]
           v == command[5]
<1>1. command \in Seq(Bytes) /\ cmd \in Bytes /\ (cmd \notin {0, 8, 9} => v \in Bytes)
  BY DEF Complete
<1>2. port \in Termios /\ port' \in Termios /\ LineStateMask' \in {0, 16}
  BY CPCCommandIsServed DEF Served
<1>3. /\ GetPortDataSize(port') \in Bytes /\ GetPortParity(port') \in Bytes
      /\ GetPortStopSize(port') \in Bytes
      /\ \A which, dsr, cts : GetPortFlowControl(port', which, dsr, cts) \in Bytes
      /\ \A which, dsr, cts : GetPortFlowControl(port, which, dsr, cts) \in Bytes
  <2>1. PICK q \in Termios : q = port'
    BY <1>2
  <2>2. /\ GetPortDataSize(q) \in Bytes /\ GetPortParity(q) \in Bytes
        /\ GetPortStopSize(q) \in Bytes
        /\ \A which, dsr, cts : GetPortFlowControl(q, which, dsr, cts) \in Bytes
    BY ReportedBytes
  <2>3. \A which, dsr, cts : GetPortFlowControl(port, which, dsr, cts) \in Bytes
    BY <1>2, ReportedBytes
  <2> QED
    BY <2>1, <2>2, <2>3
<1>4. {102, 103, 104, 105, 110, 111, 112} \subseteq Bytes \ {100, 101}
  BY DEF Bytes
<1>5. ASSUME NEW code \in {102, 103, 104, 105, 110, 111, 112}, NEW b \in Bytes,
             SendCommand(code, <<b>>)
      PROVE  Answered
  <2>1. code \in Bytes \ {100, 101}
    BY <1>4, <1>5
  <2>2. \E c \in Bytes \ {100, 101}, x \in Bytes : SendCommand(c, <<x>>)
    BY ONLY <1>5, <2>1
  <2> QED
    BY ONLY <2>2 DEF Answered
<1>6. CASE cmd = 0
  <2>1. Signature(Len(command))
    BY <1>6 DEF HandleCPCCommand
  <2> QED
    BY <2>1, NothingAnswered DEF Signature, Answered
<1>7. CASE cmd = 1
  <2>1. SendCommand(101, BaudBytes(GetPortSpeed(port')))
    BY <1>7 DEF HandleCPCCommand, SetBaudRate
  <2>2. PICK q \in Termios : q = port'
    BY <1>2
  <2>3. SendCommand(101, BaudBytes(GetPortSpeed(q)))
    BY <2>1, <2>2
  <2> QED
    BY <2>3 DEF Answered
<1>8. CASE cmd = 2
  <2>1. SendCommand(102, <<GetPortDataSize(port')>>)
    BY <1>8 DEF HandleCPCCommand, SetDataSize, Tell
  <2>2. GetPortDataSize(port') \in Bytes
    BY <1>3
  <2> QED
    BY ONLY <1>5, <2>1, <2>2
<1>9. CASE cmd = 3
  <2>1. SendCommand(103, <<GetPortParity(port')>>)
    BY <1>9 DEF HandleCPCCommand, SetParity, Tell
  <2>2. GetPortParity(port') \in Bytes
    BY <1>3
  <2> QED
    BY ONLY <1>5, <2>1, <2>2
<1>10. CASE cmd = 4
  <2>1. SendCommand(104, <<GetPortStopSize(port')>>)
    BY <1>10 DEF HandleCPCCommand, SetStopSize, Tell
  <2>2. GetPortStopSize(port') \in Bytes
    BY <1>3
  <2> QED
    BY ONLY <1>5, <2>1, <2>2
<1>11. CASE cmd = 5
  <2>1. SetControl(v)
    BY <1>11 DEF HandleCPCCommand
  <2>2. CASE v \in {4, 5, 6}
    <3>1. SendCommand(105, <<IF BreakSignaled' THEN 5 ELSE 6>>)
      BY <2>1, <2>2 DEF SetControl, Tell
    <3>2. (IF BreakSignaled' THEN 5 ELSE 6) \in Bytes
      BY DEF Bytes
    <3> QED
      BY ONLY <1>5, <3>1, <3>2
  <2>3. CASE v \in {7, 10, 13}
    <3> DEFINE b == GetPortFlowControl(port, v, DSR \in lines, CTS \in lines)
    <3>1. SendCommand(105, <<b>>)
      BY <2>1, <2>3 DEF SetControl
    <3>2. b \in Bytes
      BY <1>3
    <3> HIDE DEF b
    <3> QED
      BY ONLY <1>5, <3>1, <3>2
  <2>4. CASE v \notin {4, 5, 6, 7, 10, 13}
    <3> DEFINE b == GetPortFlowControl(port', 0, FALSE, FALSE)
    <3>1. SendCommand(105, <<b>>)
      <4>1. Tell(5, 5, GetPortFlowControl(port', 0, FALSE, FALSE))
        BY <2>1, <2>4 DEF SetControl
      <4>2. 100 + 5 = 105
        OBVIOUS
      <4> QED
        BY <4>1, <4>2 DEF Tell
    <3>2. b \in Bytes
      BY <1>3
    <3> HIDE DEF b
    <3> QED
      BY ONLY <1>5, <3>1, <3>2
  <2> QED
    BY <2>2, <2>3, <2>4
<1>12. CASE cmd \in {10, 11}
  <2> DEFINE b == IF cmd = 10 THEN LineStateMask' ELSE v
  <2>1. SendCommand(100 + cmd, <<b>>)
    BY <1>12 DEF HandleCPCCommand, SetMasks
  <2>2. b \in Bytes /\ 100 + cmd \in {110, 111}
    BY <1>1, <1>2, <1>12 DEF Bytes
  <2> HIDE DEF b
  <2>3. PICK code \in {110, 111} : code = 100 + cmd
    BY <2>2
  <2>4. SendCommand(code, <<b>>)
    BY ONLY <2>1, <2>3
  <2> QED
    BY ONLY <1>5, <2>2, <2>4
<1>13. CASE cmd = 12
  <2>1. SendCommand(112, <<v>>)
    BY <1>13 DEF HandleCPCCommand
  <2>2. v \in Bytes
    BY <1>1, <1>13
  <2> QED
    BY ONLY <1>5, <2>1, <2>2
<1>14. CASE cmd \in {8, 9} \/ cmd \notin {0, 1, 2, 3, 4, 5, 8, 9, 10, 11, 12}
  <2>1. SendNothing
    BY <1>14 DEF HandleCPCCommand
  <2> QED
    BY <2>1, NothingAnswered
<1> QED
  BY <1>6, <1>7, <1>8, <1>9, <1>10, <1>11, <1>12, <1>13, <1>14

\* And so is every command.
LEMMA IACAnswered ==
  ASSUME Served, NEW command, Complete(command), HandleIACCommand(command),
         UNCHANGED ModemState
  PROVE  Answered
<1> DEFINE verb == command[2]
           o == command[3]
           supported == o \in {BINARY, COMPORT}
<1>1. o \in Bytes /\ {WILL, WONT, DO, DONT} \subseteq Bytes
  <2>1. command \in Seq(Bytes) /\ Len(command) >= 3
    BY DEF Complete
  <2>2. 3 \in 1..Len(command)
    BY <2>1
  <2>3. o \in Bytes
    BY <2>1, <2>2
  <2> QED
    BY <2>3, ProtocolBytes
<1>2. CASE verb = SB
  <2>1. UNCHANGED options /\ (HandleCPCCommand(command) \/ SendNothing)
    BY <1>2, VerbsDiffer DEF HandleIACCommand
  <2> QED
    BY <1>2, <2>1, CPCAnswered, NothingAnswered
<1>3. CASE verb # SB
  <2>1. CASE verb = WILL
    <3> DEFINE answer == IF supported THEN DO ELSE DONT
    <3>1. SendIf(o \notin sent_do, answer, o)
      BY <2>1, VerbsDiffer DEF HandleIACCommand
    <3>2. answer \in Bytes
      BY <1>1
    <3> HIDE DEF answer
    <3> QED
      BY <1>1, <3>1, <3>2, OptionAnswered
  <2>2. CASE verb = DO
    <3> DEFINE answer == IF supported THEN WILL ELSE WONT
    <3>1. SendIf(o \notin sent_will, answer, o)
      BY <2>2, VerbsDiffer DEF HandleIACCommand
    <3>2. answer \in Bytes
      BY <1>1
    <3> HIDE DEF answer
    <3> QED
      BY <1>1, <3>1, <3>2, OptionAnswered
  <2>3. CASE verb = DONT
    <3>1. SendIf(o \in is_will, WONT, o)
      BY <2>3, VerbsDiffer DEF HandleIACCommand
    <3> QED
      BY <1>1, <3>1, OptionAnswered
  <2>4. CASE verb = WONT
    <3>1. SendIf(o \in is_do, DONT, o)
      BY <2>4, VerbsDiffer DEF HandleIACCommand
    <3> QED
      BY <1>1, <3>1, OptionAnswered
  <2>5. CASE verb \notin {SB, WILL, DO, DONT, WONT}
    BY <2>5, NothingAnswered DEF HandleIACCommand
  <2> QED
    BY <1>3, <2>1, <2>2, <2>3, <2>4, <2>5
<1> QED
  BY <1>2, <1>3

\* What is answered is whole, but for the signature, if no NUL can come before it.
LEMMA AnswerIsWhole ==
  ASSUME Answered, IsReply(toNet'), BINARY \in is_will \/ LastOut # CR
  PROVE  WholeValue(SubSeq(toNet', 5, Len(toNet') - 2),
                    IF toNet'[4] = 101 THEN SizeofLong ELSE 1)
<1>1. CASE Len(toNet') <= 3
  <2>1. Len(toNet') > 3
    BY DEF IsReply
  <2> QED
    BY <1>1, <2>1
<1>2. CASE SendCommand(100, SigStr)
  <2>1. SigStr \in Seq(Bytes) /\ 100 \in Bytes
    <3>1. {115, 101, 114, 99, 100} \subseteq Bytes
      BY DEF Bytes
    <3> QED
      BY <3>1 DEF SigStr
  <2>2. toNet'[4] = 100
    BY <1>2, <2>1, ReplyBody
  <2> QED
    BY <2>2 DEF IsReply
<1>3. ASSUME NEW p \in Termios, SendCommand(101, BaudBytes(GetPortSpeed(p)))
      PROVE  WholeValue(SubSeq(toNet', 5, Len(toNet') - 2),
                        IF toNet'[4] = 101 THEN SizeofLong ELSE 1)
  BY <1>3, SpeedIsWhole
<1>4. ASSUME NEW code \in Bytes \ {100, 101}, NEW b \in Bytes, SendCommand(code, <<b>>)
      PROVE  WholeValue(SubSeq(toNet', 5, Len(toNet') - 2),
                        IF toNet'[4] = 101 THEN SizeofLong ELSE 1)
  BY <1>4, ByteIsWhole
<1> QED
  BY <1>1, <1>2, <1>3, <1>4 DEF Answered

\* The value in a reply to a byte of the client is one value, and the bytes IAC in it
\* come in pairs, unless a NUL may come before it (EscWriteChar:454-467).
THEOREM ParserReplyIsWhole == Spec => ReplyIsWhole
<1> DEFINE Whole == ReadNet /\ IsReply(toNet') /\ (BINARY \in is_will \/ LastOut # CR) =>
                        WholeValue(SubSeq(toNet', 5, Len(toNet') - 2),
                                   IF toNet'[4] = 101 THEN SizeofLong ELSE 1)
<1>1. ASSUME ServerInv, [Next]_vars PROVE [Whole]_vars
  <2> SUFFICES ASSUME ReadNet, IsReply(toNet'), BINARY \in is_will \/ LastOut # CR
               PROVE  WholeValue(SubSeq(toNet', 5, Len(toNet') - 2),
                                 IF toNet'[4] = 101 THEN SizeofLong ELSE 1)
    OBVIOUS
  <2>1. Served /\ Reader /\ devGot \in Seq(Bytes)
    BY <1>1 DEF ServerInv, Forwarded
  <2>2. Head(pending) \in Bytes
    BY <1>1 DEF ReadNet, ServerInv, World
  <2>3. EscRedirectChar(Head(pending)) /\ UNCHANGED ModemState
    BY DEF ReadNet
  <2>4. Handled
    BY <2>1, <2>2, <2>3, ByteIsRead
  <2>5. Answered
    BY <2>1, <2>3, <2>4, NothingAnswered, IACAnswered DEF Handled, Quiet
  <2> QED
    BY <2>5, AnswerIsWhole
<1>2. Spec => [][Whole]_vars
  <2> HIDE DEF Whole
  <2> QED
    BY <1>1, ServerInvariant, PTL DEF Spec
<1> QED
  BY <1>2 DEF ReplyIsWhole

-----------------------------------------------------------------------------
(* What a step costs, as the main loop counts it                           *)

\* A command that sets InputFlow is not answered.
LEMMA FlowOrReply ==
  ASSUME NEW command, HandleIACCommand(command)
  PROVE  toNet' = << >> \/ UNCHANGED InputFlow
<1>1. CASE HandleCPCCommand(command)
  <2> DEFINE cmd == command[4]
  <2>1. CASE cmd \in {8, 9}
    BY <1>1, <2>1 DEF HandleCPCCommand, SendNothing
  <2>2. CASE cmd \notin {8, 9}
    BY <1>1, <2>2 DEF HandleCPCCommand, Signature, SetBaudRate, SetDataSize, SetParity,
       SetStopSize, SetControl, SetMasks, settings
  <2> QED
    BY <2>1, <2>2
<1>2. CASE ~HandleCPCCommand(command)
  BY <1>2 DEF HandleIACCommand, SendIf, SendNothing, settings
<1> QED
  BY <1>1, <1>2

\* What a byte of the client costs.
LEMMA ReadNetCosts ==
  ASSUME ServerInv, ReadNet
  PROVE  \/ Len(toDev') = 1 /\ toNet' = << >> /\ UNCHANGED InputFlow
         \/ toDev' = << >> /\ Len(toNet') <= ReplyBound(toNet') /\ UNCHANGED InputFlow
         \/ toDev' = << >> /\ toNet' = << >>
<1>1. Served /\ Reader /\ devGot \in Seq(Bytes) /\ Head(pending) \in Bytes
  BY DEF ServerInv, Forwarded, ReadNet, World
<1>2. EscRedirectChar(Head(pending)) /\ UNCHANGED ModemState
  BY DEF ReadNet
<1>3. Replied' /\ Forwarded' /\ Handled
  BY <1>1, <1>2, ByteIsRead
<1>4. Len(toNet') <= ReplyBound(toNet')
  BY <1>3 DEF Replied
<1>5. toDev' = << >> \/ (toNet' = << >> /\ UNCHANGED InputFlow)
  <2>1. CASE IACEscape = "Command"
    BY <1>2, <2>1 DEF EscRedirectChar, CommandChar, ToDevice
  <2>2. CASE IACEscape # "Command"
    BY <1>1, <1>2, <2>2 DEF EscRedirectChar, NormalChar, ReceivedChar, Quiet,
       SendNothing, settings, Reader
  <2> QED
    BY <2>1, <2>2
<1>6. toNet' = << >> \/ UNCHANGED InputFlow
  BY <1>3, FlowOrReply DEF Handled, Quiet, SendNothing
<1>7. toDev' \in Seq(Bytes) /\ Len(toDev') <= 1
  BY <1>3 DEF Forwarded
<1>8. toDev' = << >> \/ Len(toDev') = 1
  <2> DEFINE s == toDev'
  <2>1. s \in Seq(Bytes) /\ Len(s) <= 1
    BY <1>7
  <2> HIDE DEF s
  <2>2. s # << >> => Len(s) \in Nat \ {0}
    BY <2>1, EmptySeq
  <2>3. s = << >> \/ Len(s) = 1
    BY ONLY <2>1, <2>2
  <2> QED
    BY ONLY <2>3 DEF s
<1> QED
  BY ONLY <1>4, <1>5, <1>6, <1>8

\* What the report of the control lines costs.
LEMMA ReadModemCosts ==
  ASSUME ServerInv, ReadModem
  PROVE  toDev' = << >> /\ Len(toNet') \in 7..8
<1> DEFINE b == Byte({x \in GetModemState(ModemState) : (ModemStateMask \div x) % 2 = 1})
           bytes == <<b>>
<1>1. SendCommand(107, bytes) /\ toDev' = << >>
  BY DEF ReadModem
<1>2. b \in Bytes /\ 107 \in Bytes /\ LastOut \in Bytes
  BY ByteIsByte, ProtocolBytes DEF ServerInv, Served
<1>3. bytes \in Seq(Bytes) /\ EscapedAll(bytes) = Escaped(b, LastOut)
  <2> HIDE DEF b
  <2> QED
    BY <1>2, OneByteReply
<1>4. Escaped(b, LastOut) \in Seq(Bytes) /\ Len(Escaped(b, LastOut)) \in 1..2
  BY <1>2, EscapedFacts
<1> HIDE DEF bytes, b
<1> DEFINE sent == toNet'
           e == Escaped(b, LastOut)
<1>5. sent \in Seq(Bytes) /\ Len(sent) >= 6
  BY <1>1, <1>2, <1>3, SentFacts
<1>6. SubSeq(sent, 5, Len(sent) - 2) = e
  BY <1>1, <1>2, <1>3, ReplyBody
<1>7. Len(e) \in 1..2
  BY <1>4
<1> HIDE DEF sent, e
<1>8. Len(SubSeq(sent, 5, Len(sent) - 2)) =
          IF 5 <= Len(sent) - 2 THEN (Len(sent) - 2) - 5 + 1 ELSE 0
  <2>1. Len(sent) - 2 \in Int /\ \A i \in 5 .. Len(sent) - 2 : sent[i] \in Bytes
    BY ONLY <1>5
  <2> DEFINE n == Len(sent) - 2
  <2>2. n \in Int /\ \A i \in 5..n : sent[i] \in Bytes
    BY <2>1
  <2> HIDE DEF n
  <2>3. Len(SubSeq(sent, 5, n)) = IF 5 <= n THEN n - 5 + 1 ELSE 0
    BY ONLY <2>2, 5 \in Int, SubSeqProperties
  <2> QED
    BY ONLY <2>3 DEF n
<1>9. Len(sent) \in 7..8
  <2>1. Len(e) = IF 5 <= Len(sent) - 2 THEN (Len(sent) - 2) - 5 + 1 ELSE 0
    BY <1>6, <1>8
  <2>2. Len(sent) \in Nat
    BY ONLY <1>5
  <2> QED
    BY ONLY <1>5, <1>7, <2>1, <2>2
<1> QED
  BY <1>1, <1>9 DEF sent

\* Every step costs what the main loop reserves room for: the steps of the parser
\* are those that SercdLoop abstracts.
THEOREM ParserCostBounded == Spec => CostBounded
<1> DEFINE net == \/ Len(toDev') = 1 /\ toNet' = << >> /\ UNCHANGED InputFlow
                  \/ toDev' = << >> /\ Len(toNet') <= ReplyBound(toNet')
                                    /\ UNCHANGED InputFlow
                  \/ toDev' = << >> /\ toNet' = << >>
           Costs == /\ ReadNet => net
                    /\ ReadDev => toDev' = << >> /\ Len(toNet') \in 1..2
                    /\ ReadModem => toDev' = << >> /\ Len(toNet') \in 7..8
                    /\ InputFlow' # InputFlow => ReadNet
<1>1. ASSUME ServerInv, [Next]_vars PROVE [Costs]_vars
  <2>1. ReadNet => net
    BY <1>1, ReadNetCosts
  <2>2. ReadDev => toDev' = << >> /\ Len(toNet') \in 1..2
    <3> SUFFICES ASSUME ReadDev PROVE toDev' = << >> /\ Len(toNet') \in 1..2
      OBVIOUS
    <3>1. PICK b \in Data : toNet' = Escaped(b, LastOut)
      BY DEF ReadDev, EscWriteChar
    <3>2. b \in Bytes
      BY ParserAssumption
    <3> QED
      BY <3>1, <3>2, EscapedFacts DEF ReadDev
  <2>3. ReadModem => toDev' = << >> /\ Len(toNet') \in 7..8
    BY <1>1, ReadModemCosts
  <2>4. Next /\ ~ReadNet => UNCHANGED InputFlow
    BY DEF Next, ClientSends, ReadDev, LinesChange, ReadModem, NextClient, statics, settings
  <2>5. UNCHANGED vars \/ Next
    BY <1>1
  <2> HIDE DEF net
  <2> QED
    BY <2>1, <2>2, <2>3, <2>4, <2>5
<1>2. Spec => [][Costs]_vars
  <2> HIDE DEF Costs
  <2> QED
    BY <1>1, ServerInvariant, PTL DEF Spec
<1> QED
  BY <1>2 DEF CostBounded
=============================================================================
