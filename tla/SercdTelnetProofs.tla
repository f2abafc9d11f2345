------------------------- MODULE SercdTelnetProofs -------------------------
(***************************************************************************)
(* What TLAPS proves of the negotiation of telnet options, for any number  *)
(* of options, requests of the client, suboptions and clients, for every   *)
(* set of offers and every client.                                         *)
(*                                                                         *)
(* An option is negotiated in two ways, what the client performs and what  *)
(* the server performs.  They do not touch each other, and in each the two *)
(* streams together carry at most two messages.                            *)
(***************************************************************************)
EXTENDS SercdTelnet, FiniteSets, FiniteSetTheorems, FunctionTheorems, TLAPS

\* What stream s carries of the messages yes and no: none, one or two, in
\* their order.
Views == {"-", "yes", "no", "yes no", "no yes"}
None(s, yes, no) == \A i \in 1..Len(s) : s[i] # yes /\ s[i] # no
One(s, m, yes, no) ==
    \E i \in 1..Len(s) : /\ s[i] = m
                         /\ \A j \in 1..Len(s) : j # i => s[j] # yes /\ s[j] # no
Two(s, m, n, yes, no) ==
    \E i, j \in 1..Len(s) :
        /\ i < j /\ s[i] = m /\ s[j] = n
        /\ \A k \in 1..Len(s) : k # i /\ k # j => s[k] # yes /\ s[k] # no
Carries(s, yes, no, view) ==
    \/ view = "-" /\ None(s, yes, no)
    \/ view = "yes" /\ One(s, yes, yes, no)
    \/ view = "no" /\ One(s, no, yes, no)
    \/ view = "yes no" /\ Two(s, yes, no, yes, no)
    \/ view = "no yes" /\ Two(s, no, yes, yes, no)

\* All that the negotiation of one option in one way may come to: what the streams
\* to the client and to the server carry, what the server holds to be agreed (is)
\* and unanswered (open), whether the client considers the option active (on) and
\* what it has asked for itself (ask).
Row(out, in, is, open, on, ask) ==
    \* at rest
    \/ out = "-" /\ in = "-" /\ ~open /\ ask = "-" /\ (is <=> on)
    \* the server has asked
    \/ out = "yes" /\ in = "-" /\ ~is /\ open /\ ~on /\ ask = "-"
    \/ out = "-" /\ in = "yes" /\ ~is /\ open /\ on /\ ask = "-"
    \/ out = "-" /\ in = "no" /\ ~is /\ open /\ ~on /\ ask = "-"
    \* the client has asked
    \/ out = "-" /\ in = "yes" /\ ~is /\ ~open /\ ~on /\ ask = "yes"
    \/ out = "yes" /\ in = "-" /\ is /\ ~open /\ ~on /\ ask = "yes"
    \/ out = "no" /\ in = "-" /\ ~is /\ ~open /\ ~on /\ ask = "yes"
    \/ out = "-" /\ in = "no" /\ is /\ ~open /\ ~on /\ ask = "no"
    \/ out = "no" /\ in = "-" /\ ~is /\ ~open /\ ~on /\ ask = "no"
    \* both have asked
    \/ out = "yes" /\ in = "yes" /\ ~is /\ open /\ ~on /\ ask = "yes"
    \/ out = "-" /\ in = "yes no" /\ ~is /\ open /\ ~on /\ ask = "no"
    \/ out = "-" /\ in = "no yes" /\ ~is /\ open /\ ~on /\ ask = "yes"

\* One way: the messages to the client are askYes and askNo, those to the server
\* yes and no.  What is not supported is never agreed on or asked for.
Way(toC, toS, askYes, askNo, yes, no, is, open, on, ask, supported) ==
    /\ \E out, in \in Views :
          /\ Carries(toC, askYes, askNo, out) /\ Carries(toS, yes, no, in)
          /\ Row(out, in, is, open, on, ask)
          /\ ~supported => ~is /\ ~open /\ ~on

AskOf(requests, yes, no) ==
    IF yes \in requests THEN "yes" ELSE IF no \in requests THEN "no" ELSE "-"

\* What the client performs, and what the server performs.
ClientWay(o) ==
    Way(toClient, toServer, Msg("DO", o), Msg("DONT", o), Msg("WILL", o), Msg("WONT", o),
        tnstate[o].is_do, tnstate[o].sent_do, o \in will,
        AskOf(asked, Msg("WILL", o), Msg("WONT", o)), o \in Supported)
ServerWay(o) ==
    Way(toClient, toServer, Msg("WILL", o), Msg("WONT", o), Msg("DO", o), Msg("DONT", o),
        tnstate[o].is_will, tnstate[o].sent_will, o \in do,
        AskOf(asked, Msg("DO", o), Msg("DONT", o)), o \in Supported)

\* When the server comes to place i of its stream, what it holds to be agreed in
\* one way is TRUE: it is now, or the last message before that place agrees.
AgreedAt(s, i, yes, no, is) ==
    \/ is /\ \A j \in 1..(i - 1) : s[j] # yes /\ s[j] # no
    \/ \E j \in 1..(i - 1) : /\ s[j] = yes
                             /\ \A k \in (j + 1)..(i - 1) : s[k] # yes /\ s[k] # no

\* Every suboption in flight will find its option agreed on.
Subs(s) == {i \in 1..Len(s) : s[i].verb = "SB"}
SubsWelcome ==
    \A i \in Subs(toServer) :
        /\ toServer[i].option = ComPort
        /\ \/ AgreedAt(toServer, i, Msg("WILL", ComPort), Msg("WONT", ComPort),
                       tnstate[ComPort].is_do)
           \/ AgreedAt(toServer, i, Msg("DO", ComPort), Msg("DONT", ComPort),
                       tnstate[ComPort].is_will)
SubsCounted == handled + Cardinality(Subs(toServer)) = sent

TelnetInv ==
    /\ TypeOK
    /\ \A o \in Options : ClientWay(o) /\ ServerWay(o)
    /\ SubsWelcome /\ SubsCounted

-----------------------------------------------------------------------------
(* What appending to a stream and reading its head do to what it carries   *)

\* Another message joins at the end.
LEMMA CarriesMore ==
  ASSUME NEW S, NEW s \in Seq(S), NEW x \in S, NEW yes, NEW no, NEW view,
         Carries(s, yes, no, view), x # yes, x # no
  PROVE  Carries(Append(s, x), yes, no, view)
<1>1. /\ Len(s) \in Nat /\ Len(Append(s, x)) = Len(s) + 1
      /\ Append(s, x)[Len(s) + 1] = x
      /\ \A i \in 1..Len(s) : Append(s, x)[i] = s[i]
      /\ \A i \in 1..Len(s) + 1 : i \in 1..Len(s) \/ i = Len(s) + 1
      /\ \A i \in 1..Len(s) : i \in 1..Len(s) + 1
  OBVIOUS
<1>2. None(s, yes, no) => None(Append(s, x), yes, no)
  BY <1>1 DEF None
<1>3. ASSUME NEW m, One(s, m, yes, no) PROVE One(Append(s, x), m, yes, no)
  BY <1>1, <1>3 DEF One
<1>4. ASSUME NEW m, NEW n, Two(s, m, n, yes, no) PROVE Two(Append(s, x), m, n, yes, no)
  BY <1>1, <1>4 DEF Two
<1> QED
  BY <1>2, <1>3, <1>4 DEF Carries

\* A message of this option joins at the end.
LEMMA CarriesNew ==
  ASSUME NEW S, NEW s \in Seq(S), NEW x \in S, NEW yes, NEW no, x = yes \/ x = no
  PROVE  /\ Carries(s, yes, no, "-") =>
                Carries(Append(s, x), yes, no, IF x = yes THEN "yes" ELSE "no")
         /\ Carries(s, yes, no, "yes") /\ x = no => Carries(Append(s, x), yes, no, "yes no")
         /\ Carries(s, yes, no, "no") /\ x = yes => Carries(Append(s, x), yes, no, "no yes")
<1>1. /\ Len(s) \in Nat /\ Len(Append(s, x)) = Len(s) + 1
      /\ Append(s, x)[Len(s) + 1] = x
      /\ \A i \in 1..Len(s) : Append(s, x)[i] = s[i]
      /\ \A i \in 1..Len(s) + 1 : i \in 1..Len(s) \/ i = Len(s) + 1
      /\ \A i \in 1..Len(s) : i \in 1..Len(s) + 1 /\ i < Len(s) + 1
      /\ Len(s) + 1 \in 1..Len(s) + 1
  OBVIOUS
<1>2. None(s, yes, no) => One(Append(s, x), x, yes, no)
  BY <1>1 DEF None, One
<1>3. ASSUME NEW m, One(s, m, yes, no) PROVE Two(Append(s, x), m, x, yes, no)
  BY <1>1, <1>3 DEF One, Two
<1> QED
  BY <1>2, <1>3 DEF Carries

\* Another message is read.
LEMMA CarriesRest ==
  ASSUME NEW S, NEW s \in Seq(S), s # << >>, NEW yes, NEW no, NEW view,
         Carries(s, yes, no, view), Head(s) # yes, Head(s) # no
  PROVE  Carries(Tail(s), yes, no, view)
<1>1. /\ Len(s) \in Nat /\ Len(s) >= 1 /\ Len(Tail(s)) = Len(s) - 1 /\ Head(s) = s[1]
      /\ \A i \in 1..Len(s) - 1 : Tail(s)[i] = s[i + 1] /\ i + 1 \in 1..Len(s)
      /\ \A i \in 1..Len(s) : i = 1 \/ i - 1 \in 1..Len(s) - 1
  OBVIOUS
<1>2. None(s, yes, no) => None(Tail(s), yes, no)
  BY <1>1 DEF None
<1>3. ASSUME NEW m \in {yes, no}, One(s, m, yes, no) PROVE One(Tail(s), m, yes, no)
  <2>1. PICK i \in 1..Len(s) : /\ s[i] = m
                               /\ \A j \in 1..Len(s) : j # i => s[j] # yes /\ s[j] # no
    BY <1>3 DEF One
  <2>2. i - 1 \in 1..Len(s) - 1 /\ Tail(s)[i - 1] = m
    BY <1>1, <2>1
  <2>3. \A j \in 1..Len(s) - 1 : j # i - 1 => Tail(s)[j] # yes /\ Tail(s)[j] # no
    BY <1>1, <2>1
  <2> QED
    BY <1>1, <2>2, <2>3 DEF One
<1>4. ASSUME NEW m \in {yes, no}, NEW n \in {yes, no}, Two(s, m, n, yes, no)
      PROVE  Two(Tail(s), m, n, yes, no)
  <2>1. PICK i, j \in 1..Len(s) :
            /\ i < j /\ s[i] = m /\ s[j] = n
            /\ \A k \in 1..Len(s) : k # i /\ k # j => s[k] # yes /\ s[k] # no
    BY <1>4 DEF Two
  <2> DEFINE a == i - 1
             b == j - 1
  <2>2. /\ a \in 1..Len(Tail(s)) /\ Tail(s)[a] = m
        /\ b \in 1..Len(Tail(s)) /\ Tail(s)[b] = n /\ a < b
    BY <1>1, <2>1
  <2>3. \A k \in 1..Len(Tail(s)) : k # a /\ k # b => Tail(s)[k] # yes /\ Tail(s)[k] # no
    BY <1>1, <2>1
  <2> HIDE DEF a, b
  <2> QED
    BY ONLY <2>2, <2>3 DEF Two
<1> QED
  BY <1>2, <1>3, <1>4 DEF Carries

\* A message of this option is read: it is the first one that the stream carries.
LEMMA CarriesFirst ==
  ASSUME NEW S, NEW s \in Seq(S), s # << >>, NEW yes, NEW no, yes # no,
         Head(s) = yes \/ Head(s) = no
  PROVE  /\ ~Carries(s, yes, no, "-")
         /\ \A view \in {"yes", "yes no"} : Carries(s, yes, no, view) => Head(s) = yes
         /\ \A view \in {"no", "no yes"} : Carries(s, yes, no, view) => Head(s) = no
         /\ Carries(s, yes, no, "yes") \/ Carries(s, yes, no, "no")
                => Carries(Tail(s), yes, no, "-")
         /\ Carries(s, yes, no, "yes no") => Carries(Tail(s), yes, no, "no")
         /\ Carries(s, yes, no, "no yes") => Carries(Tail(s), yes, no, "yes")
<1>1. /\ Len(s) \in Nat /\ Len(s) >= 1 /\ Len(Tail(s)) = Len(s) - 1 /\ Head(s) = s[1]
      /\ 1 \in 1..Len(s)
      /\ \A i \in 1..Len(s) - 1 : Tail(s)[i] = s[i + 1] /\ i + 1 \in 1..Len(s) /\ i + 1 # 1
      /\ \A i \in 1..Len(s) : i = 1 \/ i - 1 \in 1..Len(s) - 1
  OBVIOUS
<1>2. ~None(s, yes, no)
  BY <1>1 DEF None
<1>3. ASSUME NEW m \in {yes, no}, One(s, m, yes, no)
      PROVE  Head(s) = m /\ None(Tail(s), yes, no)
  <2>1. PICK i \in 1..Len(s) : /\ s[i] = m
                               /\ \A j \in 1..Len(s) : j # i => s[j] # yes /\ s[j] # no
    BY <1>3 DEF One
  <2>2. i = 1
    BY <1>1, <2>1
  <2> QED
    BY <1>1, <2>1, <2>2 DEF None
<1>4. ASSUME NEW m \in {yes, no}, NEW n \in {yes, no}, Two(s, m, n, yes, no)
      PROVE  Head(s) = m /\ One(Tail(s), n, yes, no)
  <2>1. PICK i, j \in 1..Len(s) :
            /\ i < j /\ s[i] = m /\ s[j] = n
            /\ \A k \in 1..Len(s) : k # i /\ k # j => s[k] # yes /\ s[k] # no
    BY <1>4 DEF Two
  <2>2. i = 1
    BY <1>1, <2>1
  <2>3. j - 1 \in 1..Len(s) - 1 /\ Tail(s)[j - 1] = n
    BY <1>1, <2>1
  <2>4. \A k \in 1..Len(s) - 1 : k # j - 1 => Tail(s)[k] # yes /\ Tail(s)[k] # no
    BY <1>1, <2>1, <2>2
  <2> QED
    BY <1>1, <2>1, <2>2, <2>3, <2>4 DEF One
<1> QED
  BY <1>2, <1>3, <1>4 DEF Carries

-----------------------------------------------------------------------------
(* One way of one option                                                   *)

\* Stream s becomes t and carries the same of yes and no.
Passes(s, t, yes, no) ==
    \/ t = s
    \/ \E x \in Messages : x # yes /\ x # no /\ t = Append(s, x)
    \/ s # << >> /\ Head(s) # yes /\ Head(s) # no /\ t = Tail(s)

\* Messages of other options, or of the other way, leave a way alone.
LEMMA WayStays ==
  ASSUME NEW toC \in Seq(Messages), NEW toS \in Seq(Messages), NEW toC2, NEW toS2,
         NEW askYes, NEW askNo, NEW yes, NEW no,
         NEW is, NEW open, NEW on, NEW ask, NEW supported,
         Way(toC, toS, askYes, askNo, yes, no, is, open, on, ask, supported),
         Passes(toC, toC2, askYes, askNo), Passes(toS, toS2, yes, no)
  PROVE  Way(toC2, toS2, askYes, askNo, yes, no, is, open, on, ask, supported)
<1>1. PICK out, in \in Views :
          /\ Carries(toC, askYes, askNo, out) /\ Carries(toS, yes, no, in)
          /\ Row(out, in, is, open, on, ask)
          /\ ~supported => ~is /\ ~open /\ ~on
  BY DEF Way
<1>2. Carries(toC2, askYes, askNo, out)
  BY ONLY <1>1, toC \in Seq(Messages), Passes(toC, toC2, askYes, askNo), CarriesMore, CarriesRest
     DEF Passes
<1>3. Carries(toS2, yes, no, in)
  BY ONLY <1>1, toS \in Seq(Messages), Passes(toS, toS2, yes, no), CarriesMore, CarriesRest
     DEF Passes
<1> QED
  BY ONLY <1>1, <1>2, <1>3 DEF Way

\* The server reads that the client performs the option: it agrees if it supports
\* it, and confirms unless it has asked.
LEMMA WayAgrees ==
  ASSUME NEW toC \in Seq(Messages), NEW toS \in Seq(Messages),
         NEW askYes \in Messages, NEW askNo \in Messages, NEW yes, NEW no,
         askYes # askNo, yes # no, toS # << >>, Head(toS) = yes,
         NEW is, NEW open, NEW on, NEW ask, NEW supported \in BOOLEAN,
         Way(toC, toS, askYes, askNo, yes, no, is, open, on, ask, supported)
  PROVE  LET After(toC2) == Way(toC2, Tail(toS), askYes, askNo, yes, no,
                                supported, FALSE, on, ask, supported)
         IN  /\ supported /\ open => After(toC)
             /\ supported /\ ~open => After(Append(toC, askYes))
             /\ ~supported => After(Append(toC, askNo))
<1> SUFFICES ASSUME NEW toC2, toC2 = (IF supported THEN IF open THEN toC ELSE Append(toC, askYes)
                                                  ELSE Append(toC, askNo))
             PROVE  Way(toC2, Tail(toS), askYes, askNo, yes, no, supported, FALSE, on, ask,
                        supported)
  OBVIOUS
<1>1. PICK out, in \in Views :
          /\ Carries(toC, askYes, askNo, out) /\ Carries(toS, yes, no, in)
          /\ Row(out, in, is, open, on, ask)
          /\ ~supported => ~is /\ ~open /\ ~on
  BY DEF Way
<1> DEFINE rest == IF in = "yes no" THEN "no" ELSE "-"
           out2 == IF supported /\ open THEN out ELSE IF supported THEN "yes" ELSE "no"
<1>2. in \in {"yes", "yes no"} /\ Carries(Tail(toS), yes, no, rest)
  <2>1. /\ ~Carries(toS, yes, no, "-")
        /\ ~Carries(toS, yes, no, "no") /\ ~Carries(toS, yes, no, "no yes")
        /\ Carries(toS, yes, no, "yes") => Carries(Tail(toS), yes, no, "-")
        /\ Carries(toS, yes, no, "yes no") => Carries(Tail(toS), yes, no, "no")
    BY ONLY toS \in Seq(Messages), toS # << >>, Head(toS) = yes, yes # no, CarriesFirst
  <2> QED
    BY ONLY <1>1, <2>1 DEF Views
<1>3. (~supported \/ ~open) => out = "-"
  BY ONLY <1>1, <1>2 DEF Row
<1>4. Carries(toC2, askYes, askNo, out2)
  <2>1. CASE supported /\ open
    BY <1>1, <2>1
  <2>2. CASE supported /\ ~open
    BY ONLY <1>1, <1>3, <2>2, toC \in Seq(Messages), askYes \in Messages,
            toC2 = (IF supported THEN IF open THEN toC ELSE Append(toC, askYes)
                                ELSE Append(toC, askNo)), CarriesNew
  <2>3. CASE ~supported
    BY ONLY <1>1, <1>3, <2>3, toC \in Seq(Messages), askNo \in Messages, askYes # askNo,
            toC2 = (IF supported THEN IF open THEN toC ELSE Append(toC, askYes)
                                ELSE Append(toC, askNo)), CarriesNew
  <2> QED
    BY ONLY <2>1, <2>2, <2>3
<1>5. Row(out2, rest, supported, FALSE, on, ask)
  BY ONLY <1>1, <1>2, supported \in BOOLEAN DEF Row
<1>6. out2 \in Views /\ rest \in Views /\ (~supported => ~on)
  BY ONLY <1>1 DEF Views
<1> QED
  BY ONLY <1>2, <1>4, <1>5, <1>6 DEF Way

\* The server reads that the client does not perform the option, or no longer: it
\* confirms if it was agreed on.
LEMMA WayEnds ==
  ASSUME NEW toC \in Seq(Messages), NEW toS \in Seq(Messages),
         NEW askYes \in Messages, NEW askNo \in Messages, NEW yes, NEW no,
         askYes # askNo, yes # no, toS # << >>, Head(toS) = no,
         NEW is, NEW open, NEW on, NEW ask, NEW supported \in BOOLEAN,
         Way(toC, toS, askYes, askNo, yes, no, is, open, on, ask, supported)
  PROVE  LET After(toC2) == Way(toC2, Tail(toS), askYes, askNo, yes, no,
                                FALSE, FALSE, on, ask, supported)
         IN  /\ is => After(Append(toC, askNo))
             /\ ~is => After(toC)
<1> SUFFICES ASSUME NEW toC2, toC2 = (IF is THEN Append(toC, askNo) ELSE toC)
             PROVE  Way(toC2, Tail(toS), askYes, askNo, yes, no, FALSE, FALSE, on, ask, supported)
  OBVIOUS
<1>1. PICK out, in \in Views :
          /\ Carries(toC, askYes, askNo, out) /\ Carries(toS, yes, no, in)
          /\ Row(out, in, is, open, on, ask)
          /\ ~supported => ~is /\ ~open /\ ~on
  BY DEF Way
<1> DEFINE rest == IF in = "no yes" THEN "yes" ELSE "-"
           out2 == IF is THEN "no" ELSE out
<1>2. in \in {"no", "no yes"} /\ Carries(Tail(toS), yes, no, rest)
  <2>1. /\ ~Carries(toS, yes, no, "-")
        /\ ~Carries(toS, yes, no, "yes") /\ ~Carries(toS, yes, no, "yes no")
        /\ Carries(toS, yes, no, "no") => Carries(Tail(toS), yes, no, "-")
        /\ Carries(toS, yes, no, "no yes") => Carries(Tail(toS), yes, no, "yes")
    BY ONLY toS \in Seq(Messages), toS # << >>, Head(toS) = no, yes # no, CarriesFirst
  <2> QED
    BY ONLY <1>1, <2>1 DEF Views
<1>3. is => out = "-"
  BY ONLY <1>1, <1>2 DEF Row
<1>4. Carries(toC2, askYes, askNo, out2)
  <2>1. CASE is
    BY ONLY <1>1, <1>3, <2>1, toC \in Seq(Messages), askNo \in Messages, askYes # askNo,
            toC2 = (IF is THEN Append(toC, askNo) ELSE toC), CarriesNew
  <2>2. CASE ~is
    BY <1>1, <2>2
  <2> QED
    BY ONLY <2>1, <2>2
<1>5. Row(out2, rest, FALSE, FALSE, on, ask)
  BY ONLY <1>1, <1>2 DEF Row
<1>6. out2 \in Views /\ rest \in Views /\ (~supported => ~on)
  BY ONLY <1>1 DEF Views
<1> QED
  BY ONLY <1>2, <1>4, <1>5, <1>6 DEF Way

\* The client reads an answer to its own request, which ends it, or a request of
\* the server, which it answers if that is a change for it.
LEMMA WayHears ==
  ASSUME NEW toC \in Seq(Messages), NEW toS \in Seq(Messages), NEW toS2,
         NEW askYes, NEW askNo, NEW yes \in Messages, NEW no \in Messages,
         askYes # askNo, yes # no, toC # << >>, Head(toC) = askYes \/ Head(toC) = askNo,
         NEW is, NEW open, NEW on, NEW ask, NEW supported, NEW on2 \in BOOLEAN,
         Way(toC, toS, askYes, askNo, yes, no, is, open, on, ask, supported),
         \/ ask # "-" /\ toS2 = toS /\ (on2 <=> Head(toC) = askYes /\ ask = "yes")
         \/ ask = "-" /\ Head(toC) = askYes /\ ~on
              /\ toS2 = Append(toS, IF on2 THEN yes ELSE no)
         \/ ask = "-" /\ Head(toC) = askNo /\ on
              /\ ~on2 /\ toS2 = Append(toS, no)
         \/ ask = "-" /\ (Head(toC) = askYes => on) /\ (Head(toC) = askNo => ~on)
              /\ (on2 <=> on) /\ toS2 = toS
  PROVE  Way(Tail(toC), toS2, askYes, askNo, yes, no, is, open, on2, "-", supported)
<1>1. PICK out, in \in Views :
          /\ Carries(toC, askYes, askNo, out) /\ Carries(toS, yes, no, in)
          /\ Row(out, in, is, open, on, ask)
          /\ ~supported => ~is /\ ~open /\ ~on
  BY DEF Way
<1>2. out \in {"yes", "no"} /\ Carries(Tail(toC), askYes, askNo, "-")
      /\ (out = "yes" => Head(toC) = askYes) /\ (out = "no" => Head(toC) = askNo)
  <2>1. /\ ~Carries(toC, askYes, askNo, "-")
        /\ Carries(toC, askYes, askNo, "yes") =>
               Head(toC) = askYes /\ Carries(Tail(toC), askYes, askNo, "-")
        /\ Carries(toC, askYes, askNo, "no") =>
               Head(toC) = askNo /\ Carries(Tail(toC), askYes, askNo, "-")
    BY ONLY toC \in Seq(Messages), toC # << >>, Head(toC) = askYes \/ Head(toC) = askNo,
            askYes # askNo, CarriesFirst
  <2>2. out \notin {"yes no", "no yes"}
    BY ONLY <1>1 DEF Row
  <2> QED
    BY ONLY <1>1, <2>1, <2>2 DEF Views
<1> DEFINE in2 == IF ask # "-" THEN in ELSE IF on2 THEN "yes" ELSE "no"
<1>3. ask = "-" => out = "yes" /\ in = "-" /\ ~is /\ open /\ ~on
  BY ONLY <1>1, <1>2 DEF Row
<1>4. Carries(toS2, yes, no, in2)
  <2>1. CASE ask # "-"
    BY <1>1, <2>1
  <2>2. CASE ask = "-"
    <3>1. toS2 = Append(toS, IF on2 THEN yes ELSE no)
      BY <1>2, <1>3, <2>2
    <3>2. CASE on2
      BY ONLY <1>1, <1>3, <2>2, <3>1, <3>2, toS \in Seq(Messages), yes \in Messages, CarriesNew
    <3>3. CASE ~on2
      BY ONLY <1>1, <1>3, <2>2, <3>1, <3>3, toS \in Seq(Messages), no \in Messages, yes # no,
              CarriesNew
    <3> QED
      BY ONLY <3>2, <3>3, on2 \in BOOLEAN
  <2> QED
    BY <2>1, <2>2
<1>5. Row("-", in2, is, open, on2, "-") /\ (~supported => ~on2)
  <2>1. CASE ask # "-"
    <3>1. on2 <=> out = "yes" /\ ask = "yes"
      BY <1>2, <2>1
    <3> QED
      BY ONLY <1>1, <1>2, <2>1, <3>1, on2 \in BOOLEAN DEF Row
  <2>2. CASE ask = "-"
    BY ONLY <1>1, <1>3, <2>2, on2 \in BOOLEAN DEF Row
  <2> QED
    BY <2>1, <2>2
<1>6. in2 \in Views /\ "-" \in Views
  BY ONLY <1>1 DEF Views
<1> HIDE DEF in2
<1> QED
  BY ONLY <1>1, <1>2, <1>4, <1>5, <1>6 DEF Way

\* The client asks: to start when it considers the option inactive, to stop, which
\* it does at once, when it considers it active.
LEMMA WayAsks ==
  ASSUME NEW toC \in Seq(Messages), NEW toS \in Seq(Messages),
         NEW askYes, NEW askNo, NEW yes \in Messages, NEW no \in Messages, yes # no,
         NEW is, NEW open, NEW on \in BOOLEAN, NEW supported,
         Way(toC, toS, askYes, askNo, yes, no, is, open, on, "-", supported)
  PROVE  Way(toC, Append(toS, IF on THEN no ELSE yes), askYes, askNo, yes, no, is, open,
             FALSE, IF on THEN "no" ELSE "yes", supported)
<1>1. PICK out, in \in Views :
          /\ Carries(toC, askYes, askNo, out) /\ Carries(toS, yes, no, in)
          /\ Row(out, in, is, open, on, "-")
          /\ ~supported => ~is /\ ~open /\ ~on
  BY DEF Way
<1> DEFINE ask2 == IF on THEN "no" ELSE "yes"
           in2 == IF in = "yes" THEN "yes no" ELSE IF in = "no" THEN "no yes" ELSE ask2
<1>2. in \in {"-", "yes", "no"} /\ (in = "yes" => on) /\ (in = "no" => ~on)
  BY ONLY <1>1 DEF Row
<1>3. Carries(Append(toS, IF on THEN no ELSE yes), yes, no, in2)
  <2>1. CASE on
    BY ONLY <1>1, <1>2, <2>1, toS \in Seq(Messages), no \in Messages, yes # no, CarriesNew
  <2>2. CASE ~on
    BY ONLY <1>1, <1>2, <2>2, toS \in Seq(Messages), yes \in Messages, yes # no, CarriesNew
  <2> QED
    BY <2>1, <2>2
<1>4. Row(out, in2, is, open, FALSE, ask2)
  BY ONLY <1>1, <1>2, on \in BOOLEAN DEF Row
<1>5. in2 \in Views
  BY ONLY <1>2 DEF Views
<1> HIDE DEF in2
<1> QED
  BY ONLY <1>1, <1>3, <1>4, <1>5 DEF Way

\* The offers of SendTelnetInitialOptions, once each, to a client that knows
\* nothing yet.
LEMMA WayStarts ==
  ASSUME NEW o \in Options, NEW v \in {"WILL", "DO"}, NEW n \in {"WONT", "DONT"},
         NEW yes, NEW no, NEW open \in BOOLEAN,
         open <=> \E i \in DOMAIN InitialOffers : InitialOffers[i] = Msg(v, o)
  PROVE  Way(InitialOffers, << >>, Msg(v, o), Msg(n, o), yes, no, FALSE, open, FALSE, "-",
             o \in Supported)
<1> DEFINE s == InitialOffers
<1>1. /\ s \in Seq([verb : {"WILL", "DO"}, option : Supported])
      /\ \A i, j \in DOMAIN s : s[i] = s[j] => i = j
  BY TelnetAssumption
<1>2. /\ DOMAIN s = 1..Len(s)
      /\ \A i \in 1..Len(s) : s[i].verb \in {"WILL", "DO"} /\ s[i].option \in Supported
  <2> DEFINE R == [verb : {"WILL", "DO"}, option : Supported]
  <2>1. s \in Seq(R)
    BY <1>1
  <2>2. \A r \in R : r.verb \in {"WILL", "DO"} /\ r.option \in Supported
    OBVIOUS
  <2> HIDE DEF s, R
  <2>3. DOMAIN s = 1..Len(s) /\ \A i \in 1..Len(s) : s[i] \in R
    BY <2>1
  <2> QED
    BY <2>2, <2>3
<1>3. \A i \in 1..Len(s) : s[i] # Msg(n, o)
  BY <1>2 DEF Msg
<1>4. open => o \in Supported
  BY <1>2 DEF Msg
<1>5. Carries(s, Msg(v, o), Msg(n, o), IF open THEN "yes" ELSE "-")
  <2> HIDE DEF s
  <2>1. CASE open
    <3>1. PICK i \in 1..Len(s) : s[i] = Msg(v, o)
      BY <1>2, <2>1 DEF s
    <3>2. One(s, Msg(v, o), Msg(v, o), Msg(n, o))
      BY <1>1, <1>2, <1>3, <3>1 DEF One
    <3> QED
      BY <2>1, <3>2 DEF Carries
  <2>2. CASE ~open
    <3>1. None(s, Msg(v, o), Msg(n, o))
      BY <1>2, <1>3, <2>2 DEF None, s
    <3> QED
      BY <2>2, <3>1 DEF Carries
  <2> QED
    BY <2>1, <2>2
<1>6. Carries(<< >>, yes, no, "-")
  BY DEF Carries, None
<1>7. Row(IF open THEN "yes" ELSE "-", "-", FALSE, open, FALSE, "-")
  BY open \in BOOLEAN DEF Row
<1>8. (IF open THEN "yes" ELSE "-") \in Views /\ "-" \in Views
  BY DEF Views
<1> HIDE DEF s
<1> QED
  BY <1>4, <1>5, <1>6, <1>7, <1>8 DEF Way, s

-----------------------------------------------------------------------------
(* The steps                                                               *)

\* A step that is not about one way of an option leaves it as it was.
LEMMA ClientWayStays ==
  ASSUME NEW o \in Options, TypeOK, ClientWay(o),
         Passes(toClient, toClient', Msg("DO", o), Msg("DONT", o)),
         Passes(toServer, toServer', Msg("WILL", o), Msg("WONT", o)),
         tnstate'[o].is_do = tnstate[o].is_do, tnstate'[o].sent_do = tnstate[o].sent_do,
         o \in will' <=> o \in will,
         \A v \in {"WILL", "WONT"} : Msg(v, o) \in asked' <=> Msg(v, o) \in asked
  PROVE  ClientWay(o)'
<1>1. /\ (o \in will') = (o \in will)
      /\ AskOf(asked', Msg("WILL", o), Msg("WONT", o)) = AskOf(asked, Msg("WILL", o), Msg("WONT", o))
  BY DEF AskOf
<1>2. Way(toClient', toServer', Msg("DO", o), Msg("DONT", o), Msg("WILL", o), Msg("WONT", o),
          tnstate[o].is_do, tnstate[o].sent_do, o \in will,
          AskOf(asked, Msg("WILL", o), Msg("WONT", o)), o \in Supported)
  BY WayStays DEF ClientWay, TypeOK
<1> QED
  BY <1>1, <1>2 DEF ClientWay

\* The same of the other way.
LEMMA ServerWayStays ==
  ASSUME NEW o \in Options, TypeOK, ServerWay(o),
         Passes(toClient, toClient', Msg("WILL", o), Msg("WONT", o)),
         Passes(toServer, toServer', Msg("DO", o), Msg("DONT", o)),
         tnstate'[o].is_will = tnstate[o].is_will,
         tnstate'[o].sent_will = tnstate[o].sent_will,
         o \in do' <=> o \in do,
         \A v \in {"DO", "DONT"} : Msg(v, o) \in asked' <=> Msg(v, o) \in asked
  PROVE  ServerWay(o)'
<1>1. /\ (o \in do') = (o \in do)
      /\ AskOf(asked', Msg("DO", o), Msg("DONT", o)) = AskOf(asked, Msg("DO", o), Msg("DONT", o))
  BY DEF AskOf
<1>2. Way(toClient', toServer', Msg("WILL", o), Msg("WONT", o), Msg("DO", o), Msg("DONT", o),
          tnstate[o].is_will, tnstate[o].sent_will, o \in do,
          AskOf(asked, Msg("DO", o), Msg("DONT", o)), o \in Supported)
  BY WayStays DEF ServerWay, TypeOK
<1> QED
  BY <1>1, <1>2 DEF ServerWay

-----------------------------------------------------------------------------
(* The suboptions in flight                                                *)

\* How many suboptions a stream carries when a message joins and when one is read.
LEMMA SubsCount ==
  ASSUME NEW s \in Seq(Messages)
  PROVE  /\ Cardinality(Subs(s)) \in Nat
         /\ Cardinality(Subs(<< >>)) = 0
         /\ \A x \in Messages :
               Cardinality(Subs(Append(s, x))) =
                  Cardinality(Subs(s)) + IF x.verb = "SB" THEN 1 ELSE 0
         /\ s # << >> =>
               Cardinality(Subs(Tail(s))) =
                  Cardinality(Subs(s)) - IF Head(s).verb = "SB" THEN 1 ELSE 0
<1>1. \A t \in Seq(Messages) : IsFiniteSet(Subs(t)) /\ Cardinality(Subs(t)) \in Nat
  <2> TAKE t \in Seq(Messages)
  <2>1. IsFiniteSet(1..Len(t)) /\ Subs(t) \in SUBSET (1..Len(t))
    BY FS_Interval DEF Subs
  <2> QED
    BY <2>1, FS_Subset, FS_CardinalityType
<1>2. Subs(<< >>) = {}
  BY DEF Subs
<1>3. ASSUME NEW x \in Messages
      PROVE  Cardinality(Subs(Append(s, x))) =
                Cardinality(Subs(s)) + IF x.verb = "SB" THEN 1 ELSE 0
  <2> DEFINE n == Len(s) + 1
  <2>1. n \notin Subs(s)
    BY DEF Subs
  <2>2. Subs(Append(s, x)) = IF x.verb = "SB" THEN Subs(s) \cup {n} ELSE Subs(s)
    <3>1. /\ Len(Append(s, x)) = n /\ Append(s, x)[n] = x
          /\ \A i \in 1..Len(s) : Append(s, x)[i] = s[i]
          /\ 1..n = (1..Len(s)) \cup {n}
      OBVIOUS
    <3> QED
      BY <3>1 DEF Subs
  <2>3. IsFiniteSet(Subs(s)) /\ Cardinality(Subs(s)) \in Nat
    BY <1>1
  <2> HIDE DEF n
  <2>4. Cardinality(Subs(s) \cup {n}) = Cardinality(Subs(s)) + 1
    BY <2>1, <2>3, FS_AddElement
  <2> QED
    BY <2>2, <2>3, <2>4
<1>4. ASSUME s # << >>
      PROVE  Cardinality(Subs(Tail(s))) =
                Cardinality(Subs(s)) - IF Head(s).verb = "SB" THEN 1 ELSE 0
  <2> DEFINE A == Subs(s) \ {1}
             f == [i \in A |-> i - 1]
  <2>1. /\ Len(s) \in Nat /\ Len(Tail(s)) = Len(s) - 1 /\ Head(s) = s[1]
        /\ \A i \in 1..Len(s) - 1 : Tail(s)[i] = s[i + 1]
    BY <1>4
  <2>2. IsFiniteSet(A) /\ Cardinality(A) = Cardinality(Subs(s)) - IF 1 \in Subs(s) THEN 1 ELSE 0
    BY <1>1, FS_RemoveElement
  <2>3. 1 \in Subs(s) <=> Head(s).verb = "SB"
    BY <1>4, <2>1 DEF Subs
  <2>4. f \in Bijection(A, Subs(Tail(s)))
    <3>1. \A i \in A : i - 1 \in Subs(Tail(s))
      BY <2>1 DEF Subs
    <3>2. \A i, j \in A : i - 1 = j - 1 => i = j
      BY DEF Subs
    <3>3. \A j \in Subs(Tail(s)) : j + 1 \in A /\ (j + 1) - 1 = j
      BY <2>1 DEF Subs
    <3> HIDE DEF A
    <3>4. f \in [A -> Subs(Tail(s))]
      BY <3>1
    <3>5. \A i, j \in A : f[i] = f[j] => i = j
      BY <3>2
    <3>6. \A j \in Subs(Tail(s)) : \E i \in A : f[i] = j
      <4> TAKE j \in Subs(Tail(s))
      <4>1. j + 1 \in A /\ f[j + 1] = j
        BY <3>3
      <4> QED
        BY <4>1
    <3> QED
      BY <3>4, <3>5, <3>6, Fun_IsBij
  <2>5. ExistsBijection(A, Subs(Tail(s)))
    BY <2>4 DEF ExistsBijection
  <2> QED
    BY <2>2, <2>3, <2>5, FS_Bijection
<1> QED
  BY <1>1, <1>2, <1>3, <1>4, FS_EmptySet

\* What lies behind a place of a stream does not matter to it, and reading the
\* head shifts it: a message that agrees makes it agreed now, and only one that
\* refuses ends what was agreed.
LEMMA AgreedStays ==
  ASSUME NEW s \in Seq(Messages), NEW yes, NEW no, yes # no, NEW is
  PROVE  /\ \A x \in Messages, i \in 1..Len(s) :
               AgreedAt(s, i, yes, no, is) => AgreedAt(Append(s, x), i, yes, no, is)
         /\ s # << >> => \A i \in 2..Len(s) : AgreedAt(s, i, yes, no, is) =>
               /\ Head(s) = yes => AgreedAt(Tail(s), i - 1, yes, no, TRUE)
               /\ Head(s) = no => AgreedAt(Tail(s), i - 1, yes, no, FALSE)
               /\ Head(s) # yes /\ Head(s) # no => AgreedAt(Tail(s), i - 1, yes, no, is)
<1>1. ASSUME NEW x \in Messages, NEW i \in 1..Len(s), AgreedAt(s, i, yes, no, is)
      PROVE  AgreedAt(Append(s, x), i, yes, no, is)
  <2>1. \A j \in 1..(i - 1) : Append(s, x)[j] = s[j]
    OBVIOUS
  <2>2. \A j \in 1..(i - 1) : \A k \in (j + 1)..(i - 1) : Append(s, x)[k] = s[k]
    OBVIOUS
  <2> QED
    BY <1>1, <2>1, <2>2 DEF AgreedAt
<1>2. ASSUME s # << >>, NEW i \in 2..Len(s), AgreedAt(s, i, yes, no, is)
      PROVE  /\ Head(s) = yes => AgreedAt(Tail(s), i - 1, yes, no, TRUE)
             /\ Head(s) = no => AgreedAt(Tail(s), i - 1, yes, no, FALSE)
             /\ Head(s) # yes /\ Head(s) # no => AgreedAt(Tail(s), i - 1, yes, no, is)
  <2> DEFINE n == i - 1
  <2>1. /\ n \in 1..Len(s) - 1 /\ Head(s) = s[1]
        /\ \A j \in 1..n - 1 : Tail(s)[j] = s[j + 1] /\ j + 1 \in 1..(i - 1)
        /\ 1 \in 1..(i - 1)
    BY <1>2
  <2>2. CASE is /\ \A j \in 1..(i - 1) : s[j] # yes /\ s[j] # no
    <3>1. Head(s) # yes /\ Head(s) # no
      BY <2>1, <2>2
    <3>2. is /\ \A j \in 1..n - 1 : Tail(s)[j] # yes /\ Tail(s)[j] # no
      BY <2>1, <2>2
    <3> QED
      BY <3>1, <3>2 DEF AgreedAt
  <2>3. CASE \E j \in 1..(i - 1) : /\ s[j] = yes
                                   /\ \A k \in (j + 1)..(i - 1) : s[k] # yes /\ s[k] # no
    <3>1. PICK j \in 1..(i - 1) : /\ s[j] = yes
                                  /\ \A k \in (j + 1)..(i - 1) : s[k] # yes /\ s[k] # no
      BY <2>3
    <3>2. CASE j = 1
      <4>1. Head(s) = yes /\ \A k \in 1..n - 1 : Tail(s)[k] # yes /\ Tail(s)[k] # no
        BY <2>1, <3>1, <3>2
      <4> QED
        BY <4>1, yes # no DEF AgreedAt
    <3>3. CASE j # 1
      <4> DEFINE m == j - 1
      <4>1. m \in 1..n - 1 /\ Tail(s)[m] = yes
        BY <2>1, <3>1, <3>3
      <4>2. \A k \in (m + 1)..(n - 1) : Tail(s)[k] # yes /\ Tail(s)[k] # no
        BY <2>1, <3>1, <3>3
      <4> HIDE DEF m, n
      <4>3. \A b : AgreedAt(Tail(s), n, yes, no, b)
        BY <4>1, <4>2 DEF AgreedAt
      <4> QED
        BY <4>3 DEF n
    <3> QED
      BY <3>2, <3>3
  <2> QED
    BY <1>2, <2>2, <2>3 DEF AgreedAt
<1> QED
  BY <1>1, <1>2

\* A client that considers an option active is agreed with when what it sends now
\* is read.
LEMMA ActiveIsAgreed ==
  ASSUME NEW toC, NEW toS \in Seq(Messages), NEW x \in Messages,
         NEW askYes, NEW askNo, NEW yes, NEW no,
         NEW is, NEW open, NEW ask, NEW supported, yes # no,
         Way(toC, toS, askYes, askNo, yes, no, is, open, TRUE, ask, supported)
  PROVE  AgreedAt(Append(toS, x), Len(toS) + 1, yes, no, is)
<1>1. PICK out, in \in Views :
          Carries(toS, yes, no, in) /\ Row(out, in, is, open, TRUE, ask)
  BY DEF Way
<1>2. in = "yes" \/ (in = "-" /\ is)
  BY ONLY <1>1 DEF Row
<1>3. /\ Len(toS) \in Nat /\ (Len(toS) + 1) - 1 = Len(toS)
      /\ \A i \in 1..Len(toS) : Append(toS, x)[i] = toS[i]
  OBVIOUS
<1>4. CASE in = "-" /\ is
  BY <1>1, <1>3, <1>4 DEF Carries, None, AgreedAt
<1>5. CASE in = "yes"
  <2>1. PICK i \in 1..Len(toS) : /\ toS[i] = yes
                                 /\ \A j \in 1..Len(toS) : j # i => toS[j] # yes /\ toS[j] # no
    BY <1>1, <1>5 DEF Carries, One
  <2>2. \A k \in (i + 1)..Len(toS) : Append(toS, x)[k] # yes /\ Append(toS, x)[k] # no
    BY <1>3, <2>1
  <2>3. Append(toS, x)[i] = yes
    BY <1>3, <2>1
  <2> QED
    BY <1>3, <2>2, <2>3 DEF AgreedAt
<1> QED
  BY <1>2, <1>4, <1>5

-----------------------------------------------------------------------------
(* The steps of the server                                                 *)

\* Messages differ if their verbs or their options do.
LEMMA MsgFacts ==
  /\ \A v, w, o, q : Msg(v, o) = Msg(w, q) <=> v = w /\ o = q
  /\ \A v \in Verbs \cup {"SB"}, o \in Options : Msg(v, o) \in Messages
  /\ \A v, o : Msg(v, o).verb = v /\ Msg(v, o).option = o
  /\ \A m \in Messages : m = Msg(m.verb, m.option)
  BY DEF Msg, Messages

\* Reading a message and answering it leaves all the other ways alone.
LEMMA OtherWaysStay ==
  ASSUME TypeOK, \A q \in Options : ClientWay(q) /\ ServerWay(q),
         NEW v \in Verbs \cup {"SB"}, NEW w \in Verbs, NEW o \in Options,
         Receive(v, o), Silent \/ Reply(w, o), UNCHANGED client,
         \A q \in Options \ {o} : tnstate'[q] = tnstate[q]
  PROVE  /\ \A q \in Options \ {o} : ClientWay(q)' /\ ServerWay(q)'
         /\ (/\ v \in {"WILL", "WONT", "SB"} /\ w \in {"DO", "DONT"}
             /\ tnstate'[o].is_will = tnstate[o].is_will
             /\ tnstate'[o].sent_will = tnstate[o].sent_will)  => ServerWay(o)'
         /\ (/\ v \in {"DO", "DONT", "SB"} /\ w \in {"WILL", "WONT"}
             /\ tnstate'[o].is_do = tnstate[o].is_do
             /\ tnstate'[o].sent_do = tnstate[o].sent_do)  => ClientWay(o)'
<1>1. \A yes, no : Msg(v, o) # yes /\ Msg(v, o) # no => Passes(toServer, toServer', yes, no)
  BY DEF Receive, Passes
<1>2. \A yes, no : Msg(w, o) # yes /\ Msg(w, o) # no => Passes(toClient, toClient', yes, no)
  BY MsgFacts DEF Silent, Reply, Passes
<1>3. will' = will /\ do' = do /\ asked' = asked
  BY DEF client
<1>4. ASSUME NEW q \in Options \ {o} PROVE ClientWay(q)' /\ ServerWay(q)'
  <2>1. \A a, b : Msg(v, o) # Msg(a, q) /\ Msg(w, o) # Msg(a, q)
    BY MsgFacts
  <2>2. \A a, b : /\ Passes(toServer, toServer', Msg(a, q), Msg(b, q))
                  /\ Passes(toClient, toClient', Msg(a, q), Msg(b, q))
    BY <1>1, <1>2, <2>1
  <2>3. tnstate'[q] = tnstate[q] /\ q \in Options
    OBVIOUS
  <2>4. ClientWay(q)'
    BY <1>3, <2>2, <2>3, ClientWayStays
  <2>5. ServerWay(q)'
    BY <1>3, <2>2, <2>3, ServerWayStays
  <2> QED
    BY <2>4, <2>5
<1>5. ASSUME v \in {"WILL", "WONT", "SB"}, w \in {"DO", "DONT"},
             tnstate'[o].is_will = tnstate[o].is_will,
             tnstate'[o].sent_will = tnstate[o].sent_will
      PROVE  ServerWay(o)'
  <2>1. Passes(toServer, toServer', Msg("DO", o), Msg("DONT", o))
    BY <1>1, <1>5, MsgFacts
  <2>2. Passes(toClient, toClient', Msg("WILL", o), Msg("WONT", o))
    BY <1>2, <1>5, MsgFacts
  <2> QED
    BY <1>3, <1>5, <2>1, <2>2, ServerWayStays
<1>6. ASSUME v \in {"DO", "DONT", "SB"}, w \in {"WILL", "WONT"},
             tnstate'[o].is_do = tnstate[o].is_do,
             tnstate'[o].sent_do = tnstate[o].sent_do
      PROVE  ClientWay(o)'
  <2>1. Passes(toServer, toServer', Msg("WILL", o), Msg("WONT", o))
    BY <1>1, <1>6, MsgFacts
  <2>2. Passes(toClient, toClient', Msg("DO", o), Msg("DONT", o))
    BY <1>2, <1>6, MsgFacts
  <2> QED
    BY <1>3, <1>6, <2>1, <2>2, ClientWayStays
<1> QED
  BY <1>4, <1>5, <1>6

\* What reading a message does to the suboptions behind it.
LEMMA WelcomeStays ==
  ASSUME TypeOK, SubsWelcome, NEW v \in Verbs \cup {"SB"}, NEW o \in Options, Receive(v, o),
         tnstate'[ComPort].is_do =
            IF o = ComPort /\ v \in {"WILL", "WONT"} THEN v = "WILL" ELSE tnstate[ComPort].is_do,
         tnstate'[ComPort].is_will =
            IF o = ComPort /\ v \in {"DO", "DONT"} THEN v = "DO" ELSE tnstate[ComPort].is_will
  PROVE  /\ SubsWelcome'
         /\ v = "SB" => o = ComPort /\ (tnstate[o].is_do \/ tnstate[o].is_will)
<1>1. /\ toServer \in Seq(Messages) /\ toServer # << >> /\ Head(toServer) = Msg(v, o)
      /\ toServer' = Tail(toServer)
  BY DEF TypeOK, Receive
<1>2. ASSUME NEW i \in Subs(toServer')
      PROVE  /\ toServer'[i].option = ComPort
             /\ \/ AgreedAt(toServer', i, Msg("WILL", ComPort), Msg("WONT", ComPort),
                            tnstate'[ComPort].is_do)
                \/ AgreedAt(toServer', i, Msg("DO", ComPort), Msg("DONT", ComPort),
                            tnstate'[ComPort].is_will)
  <2> DEFINE k == i + 1
  <2>1. k \in Subs(toServer) /\ k \in 2..Len(toServer) /\ toServer'[i] = toServer[k] /\ k - 1 = i
    BY <1>1 DEF Subs
  <2> HIDE DEF k
  <2>2. toServer[k].option = ComPort
    BY <2>1 DEF SubsWelcome
  <2>3. ASSUME AgreedAt(toServer, k, Msg("WILL", ComPort), Msg("WONT", ComPort),
                        tnstate[ComPort].is_do)
        PROVE  AgreedAt(toServer', i, Msg("WILL", ComPort), Msg("WONT", ComPort),
                        tnstate'[ComPort].is_do)
    <3>1. Msg("WILL", ComPort) # Msg("WONT", ComPort)
      BY MsgFacts
    <3>2. /\ Head(toServer) = Msg("WILL", ComPort) =>
                AgreedAt(toServer', i, Msg("WILL", ComPort), Msg("WONT", ComPort), TRUE)
          /\ Head(toServer) = Msg("WONT", ComPort) =>
                AgreedAt(toServer', i, Msg("WILL", ComPort), Msg("WONT", ComPort), FALSE)
          /\ Head(toServer) # Msg("WILL", ComPort) /\ Head(toServer) # Msg("WONT", ComPort) =>
                AgreedAt(toServer', i, Msg("WILL", ComPort), Msg("WONT", ComPort),
                         tnstate[ComPort].is_do)
      BY <1>1, <2>1, <2>3, <3>1, AgreedStays
    <3>3. /\ Head(toServer) = Msg("WILL", ComPort) <=> v = "WILL" /\ o = ComPort
          /\ Head(toServer) = Msg("WONT", ComPort) <=> v = "WONT" /\ o = ComPort
      BY <1>1, MsgFacts
    <3> QED
      BY <3>2, <3>3
  <2>4. ASSUME AgreedAt(toServer, k, Msg("DO", ComPort), Msg("DONT", ComPort),
                        tnstate[ComPort].is_will)
        PROVE  AgreedAt(toServer', i, Msg("DO", ComPort), Msg("DONT", ComPort),
                        tnstate'[ComPort].is_will)
    <3>1. Msg("DO", ComPort) # Msg("DONT", ComPort)
      BY MsgFacts
    <3>2. /\ Head(toServer) = Msg("DO", ComPort) =>
                AgreedAt(toServer', i, Msg("DO", ComPort), Msg("DONT", ComPort), TRUE)
          /\ Head(toServer) = Msg("DONT", ComPort) =>
                AgreedAt(toServer', i, Msg("DO", ComPort), Msg("DONT", ComPort), FALSE)
          /\ Head(toServer) # Msg("DO", ComPort) /\ Head(toServer) # Msg("DONT", ComPort) =>
                AgreedAt(toServer', i, Msg("DO", ComPort), Msg("DONT", ComPort),
                         tnstate[ComPort].is_will)
      BY <1>1, <2>1, <2>4, <3>1, AgreedStays
    <3>3. /\ Head(toServer) = Msg("DO", ComPort) <=> v = "DO" /\ o = ComPort
          /\ Head(toServer) = Msg("DONT", ComPort) <=> v = "DONT" /\ o = ComPort
      BY <1>1, MsgFacts
    <3> QED
      BY <3>2, <3>3
  <2> QED
    BY <2>1, <2>2, <2>3, <2>4 DEF SubsWelcome
<1>3. ASSUME v = "SB" PROVE o = ComPort /\ (tnstate[o].is_do \/ tnstate[o].is_will)
  <2>1. 1 \in Subs(toServer) /\ toServer[1] = Msg(v, o)
    BY <1>1, <1>3, MsgFacts DEF Subs
  <2>2. o = ComPort
    BY <2>1, MsgFacts DEF SubsWelcome
  <2>3. \A yes, no, is : AgreedAt(toServer, 1, yes, no, is) => is
    BY DEF AgreedAt
  <2> QED
    BY <2>1, <2>2, <2>3 DEF SubsWelcome
<1> QED
  BY <1>2, <1>3 DEF SubsWelcome

\* What the server passes on is no longer in flight.
LEMMA CountedStays ==
  ASSUME TypeOK, SubsCounted, NEW v \in Verbs \cup {"SB"}, NEW o \in Options, Receive(v, o),
         sent' = sent, handled' = handled + IF v = "SB" THEN 1 ELSE 0
  PROVE  SubsCounted' /\ handled' \in 0..MaxSubs
<1>1. /\ toServer \in Seq(Messages) /\ toServer # << >> /\ toServer' = Tail(toServer)
      /\ Head(toServer).verb = v /\ toServer' \in Seq(Messages)
  BY MsgFacts DEF TypeOK, Receive
<1>2. /\ Cardinality(Subs(toServer)) \in Nat /\ Cardinality(Subs(toServer')) \in Nat
      /\ Cardinality(Subs(toServer')) = Cardinality(Subs(toServer)) - IF v = "SB" THEN 1 ELSE 0
  BY <1>1, SubsCount
<1>3. handled \in 0..MaxSubs /\ sent \in 0..MaxSubs /\ MaxSubs \in Nat
  BY TelnetAssumption DEF TypeOK
<1>4. handled' + Cardinality(Subs(toServer')) = sent
  BY <1>2, <1>3 DEF SubsCounted
<1> QED
  BY <1>2, <1>3, <1>4 DEF SubsCounted

\* A step of the server keeps the types of the streams and of the table.
LEMMA ServerTypes ==
  ASSUME TypeOK, NEW v \in Verbs \cup {"SB"}, NEW w \in Verbs, NEW o \in Options,
         Receive(v, o), Silent \/ Reply(w, o), UNCHANGED <<client, clients>>,
         handled' \in 0..MaxSubs,
         tnstate' \in [Options -> [sent_will : BOOLEAN, sent_do : BOOLEAN,
                                   is_will : BOOLEAN, is_do : BOOLEAN]]
  PROVE  TypeOK'
<1>1. toServer' \in Seq(Messages)
  BY DEF TypeOK, Receive
<1>2. toClient' \in Seq(Messages)
  <2>1. toClient \in Seq(Messages) /\ Msg(w, o) \in Messages
    BY MsgFacts DEF TypeOK
  <2> QED
    BY <2>1 DEF Silent, Reply
<1> QED
  BY <1>1, <1>2 DEF TypeOK, client

\* A message about one way of an option, when that way is as it should be after it.
LEMMA OwnWayMoves ==
  ASSUME TelnetInv, NEW v \in Verbs, NEW w \in Verbs, NEW o \in Options,
         Receive(v, o), Silent \/ Reply(w, o), UNCHANGED <<client, clients>>, UNCHANGED handled,
         tnstate' \in [Options -> [sent_will : BOOLEAN, sent_do : BOOLEAN,
                                   is_will : BOOLEAN, is_do : BOOLEAN]],
         \A q \in Options \ {o} : tnstate'[q] = tnstate[q],
         \/ /\ v \in {"WILL", "WONT"} /\ w \in {"DO", "DONT"} /\ ClientWay(o)'
            /\ o = ComPort => tnstate'[o].is_do = (v = "WILL")
            /\ tnstate'[o].is_will = tnstate[o].is_will
            /\ tnstate'[o].sent_will = tnstate[o].sent_will
         \/ /\ v \in {"DO", "DONT"} /\ w \in {"WILL", "WONT"} /\ ServerWay(o)'
            /\ o = ComPort => tnstate'[o].is_will = (v = "DO")
            /\ tnstate'[o].is_do = tnstate[o].is_do
            /\ tnstate'[o].sent_do = tnstate[o].sent_do
  PROVE  TelnetInv'
<1>1. /\ TypeOK /\ \A q \in Options : ClientWay(q) /\ ServerWay(q)
      /\ SubsWelcome /\ SubsCounted
  BY DEF TelnetInv
<1>2. UNCHANGED client /\ v \in Verbs \cup {"SB"} /\ v # "SB"
  BY DEF Verbs
<1>3. ASSUME NEW q \in Options PROVE ClientWay(q)' /\ ServerWay(q)'
  <2>1. \A r \in Options \ {o} : ClientWay(r)' /\ ServerWay(r)'
    BY <1>1, <1>2, OtherWaysStay
  <2>2. ClientWay(o)' /\ ServerWay(o)'
    BY <1>1, <1>2, OtherWaysStay
  <2> QED
    BY <2>1, <2>2
<1>4. SubsWelcome'
  <2>1. ComPort \in Options
    BY TelnetAssumption
  <2>2. /\ tnstate'[ComPort].is_do =
              IF o = ComPort /\ v \in {"WILL", "WONT"} THEN v = "WILL" ELSE tnstate[ComPort].is_do
        /\ tnstate'[ComPort].is_will =
              IF o = ComPort /\ v \in {"DO", "DONT"} THEN v = "DO" ELSE tnstate[ComPort].is_will
    BY <2>1
  <2> QED
    BY <1>1, <1>2, <2>2, WelcomeStays
<1>5. SubsCounted' /\ handled' \in 0..MaxSubs
  <2>1. handled \in 0..MaxSubs /\ MaxSubs \in Nat /\ handled' = handled /\ sent' = sent
    BY <1>1, TelnetAssumption DEF TypeOK, client
  <2> QED
    BY <1>1, <1>2, <2>1, CountedStays
<1>6. TypeOK'
  BY <1>1, <1>2, <1>5, ServerTypes
<1> QED
  BY <1>3, <1>4, <1>5, <1>6 DEF TelnetInv

\* The client performs the option.
LEMMA WillStep ==
  ASSUME TelnetInv, NEW o \in Options, HandleWill(o), UNCHANGED <<client, clients>>
  PROVE  TelnetInv'
<1>1. TypeOK /\ ClientWay(o)
  BY DEF TelnetInv
<1>2. /\ Receive("WILL", o) /\ UNCHANGED handled
      /\ \/ o \in Supported /\ tnstate[o].sent_do /\ toClient' = toClient
         \/ o \in Supported /\ ~tnstate[o].sent_do /\ toClient' = Append(toClient, Msg("DO", o))
         \/ o \notin Supported /\ toClient' = Append(toClient, Msg("DONT", o))
  BY DEF HandleWill, Silent, Reply
<1>3. PICK w \in {"DO", "DONT"} : Silent \/ Reply(w, o)
  BY <1>2 DEF Silent, Reply
<1> DEFINE supported == o \in Supported
<1>4. /\ tnstate' \in [Options -> [sent_will : BOOLEAN, sent_do : BOOLEAN,
                                   is_will : BOOLEAN, is_do : BOOLEAN]]
      /\ \A q \in Options \ {o} : tnstate'[q] = tnstate[q]
      /\ tnstate'[o].is_do = supported /\ tnstate'[o].sent_do = FALSE
      /\ tnstate'[o].is_will = tnstate[o].is_will /\ tnstate'[o].sent_will = tnstate[o].sent_will
  <2>1. tnstate \in [Options -> [sent_will : BOOLEAN, sent_do : BOOLEAN,
                                 is_will : BOOLEAN, is_do : BOOLEAN]]
    BY <1>1 DEF TypeOK
  <2>2. PICK b \in BOOLEAN : /\ b = supported
                             /\ tnstate' = [tnstate EXCEPT ![o].is_do = b, ![o].sent_do = FALSE]
    <3>1. CASE supported
      BY <3>1 DEF HandleWill
    <3>2. CASE ~supported
      <4>1. tnstate' = [tnstate EXCEPT ![o].is_do = FALSE, ![o].sent_do = FALSE]
        BY <3>2 DEF HandleWill
      <4>2. FALSE = supported
        BY <3>2
      <4> HIDE DEF supported
      <4> QED
        BY <4>1, <4>2
    <3> QED
      BY <3>1, <3>2
  <2> HIDE DEF supported
  <2> QED
    BY <2>1, <2>2
<1>5. ClientWay(o)'
  <2>1. /\ toClient \in Seq(Messages) /\ toServer \in Seq(Messages)
        /\ toServer # << >> /\ Head(toServer) = Msg("WILL", o) /\ toServer' = Tail(toServer)
        /\ will' = will /\ asked' = asked
    BY <1>1, <1>2 DEF TypeOK, Receive, client
  <2>2. /\ Msg("DO", o) \in Messages /\ Msg("DONT", o) \in Messages
        /\ Msg("DO", o) # Msg("DONT", o) /\ Msg("WILL", o) # Msg("WONT", o)
    BY MsgFacts DEF Verbs
  <2>3. supported \in BOOLEAN /\ tnstate[o].sent_do \in BOOLEAN
    BY <1>1 DEF TypeOK
  <2> DEFINE on == o \in will
             ask == AskOf(asked, Msg("WILL", o), Msg("WONT", o))
  <2>4. Way(toClient, toServer, Msg("DO", o), Msg("DONT", o), Msg("WILL", o), Msg("WONT", o),
            tnstate[o].is_do, tnstate[o].sent_do, on, ask, supported)
    BY <1>1 DEF ClientWay
  <2>5. Way(toClient', Tail(toServer), Msg("DO", o), Msg("DONT", o), Msg("WILL", o),
            Msg("WONT", o), supported, FALSE, on, ask, supported)
    <3> DEFINE After(toC) ==
                 Way(toC, Tail(toServer), Msg("DO", o), Msg("DONT", o), Msg("WILL", o),
                     Msg("WONT", o), supported, FALSE, on, ask, supported)
               is == tnstate[o].is_do
               open == tnstate[o].sent_do
    <3>1. /\ supported /\ open => After(toClient)
          /\ supported /\ ~open => After(Append(toClient, Msg("DO", o)))
          /\ ~supported => After(Append(toClient, Msg("DONT", o)))
      <4>1. /\ toClient \in Seq(Messages) /\ toServer \in Seq(Messages)
            /\ toServer # << >> /\ Head(toServer) = Msg("WILL", o)
        BY <2>1
      <4>2. Way(toClient, toServer, Msg("DO", o), Msg("DONT", o), Msg("WILL", o),
                Msg("WONT", o), is, open, on, ask, supported)
        BY <2>4
      <4>3. supported \in BOOLEAN /\ open \in BOOLEAN
        BY <2>3
      <4> HIDE DEF on, ask, is, open
      <4> QED
        BY ONLY <2>2, <4>1, <4>2, <4>3, WayAgrees
    <3> HIDE DEF After
    <3>2. After(toClient')
      BY <1>2, <3>1
    <3> QED
      BY ONLY <3>2 DEF After
  <2> QED
    BY <1>4, <2>1, <2>5 DEF ClientWay
<1>6. o = ComPort => tnstate'[o].is_do = TRUE
  BY <1>4, TelnetAssumption
<1> QED
  BY <1>2, <1>3, <1>4, <1>5, <1>6, OwnWayMoves DEF Verbs

\* The client has the server perform the option.
LEMMA DoStep ==
  ASSUME TelnetInv, NEW o \in Options, HandleDo(o), UNCHANGED <<client, clients>>
  PROVE  TelnetInv'
<1>1. TypeOK /\ ServerWay(o)
  BY DEF TelnetInv
<1>2. /\ Receive("DO", o) /\ UNCHANGED handled
      /\ \/ o \in Supported /\ tnstate[o].sent_will /\ toClient' = toClient
         \/ o \in Supported /\ ~tnstate[o].sent_will /\ toClient' = Append(toClient, Msg("WILL", o))
         \/ o \notin Supported /\ toClient' = Append(toClient, Msg("WONT", o))
  BY DEF HandleDo, Silent, Reply
<1>3. PICK w \in {"WILL", "WONT"} : Silent \/ Reply(w, o)
  BY <1>2 DEF Silent, Reply
<1> DEFINE supported == o \in Supported
<1>4. /\ tnstate' \in [Options -> [sent_will : BOOLEAN, sent_do : BOOLEAN,
                                   is_will : BOOLEAN, is_do : BOOLEAN]]
      /\ \A q \in Options \ {o} : tnstate'[q] = tnstate[q]
      /\ tnstate'[o].is_will = supported /\ tnstate'[o].sent_will = FALSE
      /\ tnstate'[o].is_do = tnstate[o].is_do /\ tnstate'[o].sent_do = tnstate[o].sent_do
  <2>1. tnstate \in [Options -> [sent_will : BOOLEAN, sent_do : BOOLEAN,
                                 is_will : BOOLEAN, is_do : BOOLEAN]]
    BY <1>1 DEF TypeOK
  <2>2. PICK b \in BOOLEAN : /\ b = supported
                             /\ tnstate' = [tnstate EXCEPT ![o].is_will = b, ![o].sent_will = FALSE]
    <3>1. CASE supported
      BY <3>1 DEF HandleDo
    <3>2. CASE ~supported
      <4>1. tnstate' = [tnstate EXCEPT ![o].is_will = FALSE, ![o].sent_will = FALSE]
        BY <3>2 DEF HandleDo
      <4>2. FALSE = supported
        BY <3>2
      <4> HIDE DEF supported
      <4> QED
        BY <4>1, <4>2
    <3> QED
      BY <3>1, <3>2
  <2> HIDE DEF supported
  <2> QED
    BY <2>1, <2>2
<1>5. ServerWay(o)'
  <2>1. /\ toClient \in Seq(Messages) /\ toServer \in Seq(Messages)
        /\ toServer # << >> /\ Head(toServer) = Msg("DO", o) /\ toServer' = Tail(toServer)
        /\ do' = do /\ asked' = asked
    BY <1>1, <1>2 DEF TypeOK, Receive, client
  <2>2. /\ Msg("WILL", o) \in Messages /\ Msg("WONT", o) \in Messages
        /\ Msg("WILL", o) # Msg("WONT", o) /\ Msg("DO", o) # Msg("DONT", o)
    BY MsgFacts DEF Verbs
  <2>3. supported \in BOOLEAN /\ tnstate[o].sent_will \in BOOLEAN
    BY <1>1 DEF TypeOK
  <2> DEFINE on == o \in do
             ask == AskOf(asked, Msg("DO", o), Msg("DONT", o))
  <2>4. Way(toClient, toServer, Msg("WILL", o), Msg("WONT", o), Msg("DO", o), Msg("DONT", o),
            tnstate[o].is_will, tnstate[o].sent_will, on, ask, supported)
    BY <1>1 DEF ServerWay
  <2>5. Way(toClient', Tail(toServer), Msg("WILL", o), Msg("WONT", o), Msg("DO", o),
            Msg("DONT", o), supported, FALSE, on, ask, supported)
    <3> DEFINE After(toC) ==
                 Way(toC, Tail(toServer), Msg("WILL", o), Msg("WONT", o), Msg("DO", o),
                     Msg("DONT", o), supported, FALSE, on, ask, supported)
               is == tnstate[o].is_will
               open == tnstate[o].sent_will
    <3>1. /\ supported /\ open => After(toClient)
          /\ supported /\ ~open => After(Append(toClient, Msg("WILL", o)))
          /\ ~supported => After(Append(toClient, Msg("WONT", o)))
      <4>1. /\ toClient \in Seq(Messages) /\ toServer \in Seq(Messages)
            /\ toServer # << >> /\ Head(toServer) = Msg("DO", o)
        BY <2>1
      <4>2. Way(toClient, toServer, Msg("WILL", o), Msg("WONT", o), Msg("DO", o),
                Msg("DONT", o), is, open, on, ask, supported)
        BY <2>4
      <4>3. supported \in BOOLEAN /\ open \in BOOLEAN
        BY <2>3
      <4> HIDE DEF on, ask, is, open
      <4> QED
        BY ONLY <2>2, <4>1, <4>2, <4>3, WayAgrees
    <3> HIDE DEF After
    <3>2. After(toClient')
      BY <1>2, <3>1
    <3> QED
      BY ONLY <3>2 DEF After
  <2> QED
    BY <1>4, <2>1, <2>5 DEF ServerWay
<1>6. o = ComPort => tnstate'[o].is_will = TRUE
  BY <1>4, TelnetAssumption
<1> QED
  BY <1>2, <1>3, <1>4, <1>5, <1>6, OwnWayMoves DEF Verbs

\* The client does not perform the option, or no longer.
LEMMA WontStep ==
  ASSUME TelnetInv, NEW o \in Options, HandleWont(o), UNCHANGED <<client, clients>>
  PROVE  TelnetInv'
<1>1. TypeOK /\ ClientWay(o)
  BY DEF TelnetInv
<1>2. /\ Receive("WONT", o) /\ UNCHANGED handled
      /\ \/ tnstate[o].is_do /\ toClient' = Append(toClient, Msg("DONT", o))
         \/ ~tnstate[o].is_do /\ toClient' = toClient
  BY DEF HandleWont, Silent, Reply
<1>3. Silent \/ Reply("DONT", o)
  BY <1>2 DEF Silent, Reply
<1>4. /\ tnstate' \in [Options -> [sent_will : BOOLEAN, sent_do : BOOLEAN,
                                   is_will : BOOLEAN, is_do : BOOLEAN]]
      /\ \A q \in Options \ {o} : tnstate'[q] = tnstate[q]
      /\ tnstate'[o].is_do = FALSE /\ tnstate'[o].sent_do = FALSE
      /\ tnstate'[o].is_will = tnstate[o].is_will /\ tnstate'[o].sent_will = tnstate[o].sent_will
  <2>1. tnstate \in [Options -> [sent_will : BOOLEAN, sent_do : BOOLEAN,
                                 is_will : BOOLEAN, is_do : BOOLEAN]]
    BY <1>1 DEF TypeOK
  <2>2. tnstate' = [tnstate EXCEPT ![o].is_do = FALSE, ![o].sent_do = FALSE]
    BY DEF HandleWont
  <2> QED
    BY <2>1, <2>2
<1>5. ClientWay(o)'
  <2>1. /\ toClient \in Seq(Messages) /\ toServer \in Seq(Messages)
        /\ toServer # << >> /\ Head(toServer) = Msg("WONT", o) /\ toServer' = Tail(toServer)
        /\ will' = will /\ asked' = asked
    BY <1>1, <1>2 DEF TypeOK, Receive, client
  <2>2. /\ Msg("DO", o) \in Messages /\ Msg("DONT", o) \in Messages
        /\ Msg("DO", o) # Msg("DONT", o) /\ Msg("WILL", o) # Msg("WONT", o)
    BY MsgFacts DEF Verbs
  <2> DEFINE on == o \in will
             ask == AskOf(asked, Msg("WILL", o), Msg("WONT", o))
             supported == o \in Supported
  <2>3. supported \in BOOLEAN /\ tnstate[o].is_do \in BOOLEAN
    BY <1>1 DEF TypeOK
  <2>4. Way(toClient, toServer, Msg("DO", o), Msg("DONT", o), Msg("WILL", o), Msg("WONT", o),
            tnstate[o].is_do, tnstate[o].sent_do, on, ask, supported)
    BY <1>1 DEF ClientWay
  <2>5. Way(toClient', Tail(toServer), Msg("DO", o), Msg("DONT", o), Msg("WILL", o),
            Msg("WONT", o), FALSE, FALSE, on, ask, supported)
    <3> HIDE DEF on, ask, supported
    <3>1. CASE tnstate[o].is_do /\ toClient' = Append(toClient, Msg("DONT", o))
      BY ONLY <2>1, <2>2, <2>3, <2>4, <3>1, WayEnds
    <3>2. CASE ~tnstate[o].is_do /\ toClient' = toClient
      BY ONLY <2>1, <2>2, <2>3, <2>4, <3>2, WayEnds
    <3> QED
      BY <1>2, <3>1, <3>2
  <2> QED
    BY <1>4, <2>1, <2>5 DEF ClientWay
<1> QED
  BY <1>2, <1>3, <1>4, <1>5, OwnWayMoves DEF Verbs

\* The client has the server not perform the option, or no longer.
LEMMA DontStep ==
  ASSUME TelnetInv, NEW o \in Options, HandleDont(o), UNCHANGED <<client, clients>>
  PROVE  TelnetInv'
<1>1. TypeOK /\ ServerWay(o)
  BY DEF TelnetInv
<1>2. /\ Receive("DONT", o) /\ UNCHANGED handled
      /\ \/ tnstate[o].is_will /\ toClient' = Append(toClient, Msg("WONT", o))
         \/ ~tnstate[o].is_will /\ toClient' = toClient
  BY DEF HandleDont, Silent, Reply
<1>3. Silent \/ Reply("WONT", o)
  BY <1>2 DEF Silent, Reply
<1>4. /\ tnstate' \in [Options -> [sent_will : BOOLEAN, sent_do : BOOLEAN,
                                   is_will : BOOLEAN, is_do : BOOLEAN]]
      /\ \A q \in Options \ {o} : tnstate'[q] = tnstate[q]
      /\ tnstate'[o].is_will = FALSE /\ tnstate'[o].sent_will = FALSE
      /\ tnstate'[o].is_do = tnstate[o].is_do /\ tnstate'[o].sent_do = tnstate[o].sent_do
  <2>1. tnstate \in [Options -> [sent_will : BOOLEAN, sent_do : BOOLEAN,
                                 is_will : BOOLEAN, is_do : BOOLEAN]]
    BY <1>1 DEF TypeOK
  <2>2. tnstate' = [tnstate EXCEPT ![o].is_will = FALSE, ![o].sent_will = FALSE]
    BY DEF HandleDont
  <2> QED
    BY <2>1, <2>2
<1>5. ServerWay(o)'
  <2>1. /\ toClient \in Seq(Messages) /\ toServer \in Seq(Messages)
        /\ toServer # << >> /\ Head(toServer) = Msg("DONT", o) /\ toServer' = Tail(toServer)
        /\ do' = do /\ asked' = asked
    BY <1>1, <1>2 DEF TypeOK, Receive, client
  <2>2. /\ Msg("WILL", o) \in Messages /\ Msg("WONT", o) \in Messages
        /\ Msg("WILL", o) # Msg("WONT", o) /\ Msg("DO", o) # Msg("DONT", o)
    BY MsgFacts DEF Verbs
  <2> DEFINE on == o \in do
             ask == AskOf(asked, Msg("DO", o), Msg("DONT", o))
             supported == o \in Supported
  <2>3. supported \in BOOLEAN /\ tnstate[o].is_will \in BOOLEAN
    BY <1>1 DEF TypeOK
  <2>4. Way(toClient, toServer, Msg("WILL", o), Msg("WONT", o), Msg("DO", o), Msg("DONT", o),
            tnstate[o].is_will, tnstate[o].sent_will, on, ask, supported)
    BY <1>1 DEF ServerWay
  <2>5. Way(toClient', Tail(toServer), Msg("WILL", o), Msg("WONT", o), Msg("DO", o),
            Msg("DONT", o), FALSE, FALSE, on, ask, supported)
    <3> HIDE DEF on, ask, supported
    <3>1. CASE tnstate[o].is_will /\ toClient' = Append(toClient, Msg("WONT", o))
      BY ONLY <2>1, <2>2, <2>3, <2>4, <3>1, WayEnds
    <3>2. CASE ~tnstate[o].is_will /\ toClient' = toClient
      BY ONLY <2>1, <2>2, <2>3, <2>4, <3>2, WayEnds
    <3> QED
      BY <1>2, <3>1, <3>2
  <2> QED
    BY <1>4, <2>1, <2>5 DEF ServerWay
<1> QED
  BY <1>2, <1>3, <1>4, <1>5, OwnWayMoves DEF Verbs

\* A suboption: its option is agreed on, so it is passed on.
LEMMA SubStep ==
  ASSUME TelnetInv, NEW o \in Options, HandleSub(o), UNCHANGED <<client, clients>>
  PROVE  TelnetInv'
<1>1. /\ TypeOK /\ \A q \in Options : ClientWay(q) /\ ServerWay(q)
      /\ SubsWelcome /\ SubsCounted
  BY DEF TelnetInv
<1>2. Receive("SB", o) /\ UNCHANGED <<tnstate, toClient>> /\ UNCHANGED client /\ Silent
  BY DEF HandleSub, Silent
<1>3. SubsWelcome' /\ o = ComPort /\ (tnstate[o].is_do \/ tnstate[o].is_will)
  BY <1>1, <1>2, WelcomeStays
<1>4. handled' = handled + 1 /\ sent' = sent
  BY <1>2, <1>3 DEF HandleSub, client
<1>5. SubsCounted' /\ handled' \in 0..MaxSubs
  BY <1>1, <1>2, <1>4, CountedStays
<1>6. ASSUME NEW q \in Options PROVE ClientWay(q)' /\ ServerWay(q)'
  <2>1. /\ "DO" \in Verbs /\ "WILL" \in Verbs /\ "SB" \in Verbs \cup {"SB"}
        /\ \A r \in Options : tnstate'[r] = tnstate[r]
    BY <1>2 DEF Verbs
  <2>2. (\A r \in Options \ {o} : ClientWay(r)' /\ ServerWay(r)') /\ ServerWay(o)'
    BY <1>1, <1>2, <2>1, OtherWaysStay
  <2>3. ClientWay(o)'
    BY <1>1, <1>2, <2>1, OtherWaysStay
  <2> QED
    BY <2>2, <2>3
<1>7. TypeOK'
  <2>1. "DO" \in Verbs /\ tnstate' \in [Options -> [sent_will : BOOLEAN, sent_do : BOOLEAN,
                                                    is_will : BOOLEAN, is_do : BOOLEAN]]
    BY <1>1, <1>2 DEF Verbs, TypeOK
  <2> QED
    BY <1>1, <1>2, <1>5, <2>1, ServerTypes
<1> QED
  BY <1>3, <1>5, <1>6, <1>7 DEF TelnetInv

-----------------------------------------------------------------------------
(* The steps of the client                                                 *)

\* What the client sends about the negotiation leaves its suboptions alone.
LEMMA SubsStay ==
  ASSUME TypeOK, SubsWelcome, SubsCounted, UNCHANGED <<tnstate, handled, sent>>,
         \/ toServer' = toServer
         \/ \E v \in Verbs, o \in Options : toServer' = Append(toServer, Msg(v, o))
  PROVE  SubsWelcome' /\ SubsCounted'
<1>1. CASE toServer' = toServer
  BY <1>1 DEF SubsWelcome, SubsCounted
<1>2. CASE \E v \in Verbs, o \in Options : toServer' = Append(toServer, Msg(v, o))
  <2>1. PICK m \in Messages : toServer' = Append(toServer, m) /\ m.verb # "SB"
    <3>1. PICK v \in Verbs, o \in Options : toServer' = Append(toServer, Msg(v, o))
      BY <1>2
    <3>2. Msg(v, o) \in Messages /\ Msg(v, o).verb = v /\ v # "SB"
      BY MsgFacts DEF Verbs
    <3> QED
      BY <3>1, <3>2
  <2>2. toServer \in Seq(Messages)
    BY DEF TypeOK
  <2>3. SubsCounted'
    <3>1. /\ Cardinality(Subs(toServer)) \in Nat
          /\ Cardinality(Subs(toServer')) = Cardinality(Subs(toServer)) + 0
      BY <2>1, <2>2, SubsCount
    <3> QED
      BY <3>1 DEF SubsCounted
  <2>4. ASSUME NEW i \in Subs(toServer')
        PROVE  /\ i \in 1..Len(toServer) /\ i \in Subs(toServer)
               /\ toServer'[i].option = toServer[i].option
    BY <2>1, <2>2 DEF Subs
  <2>5. Msg("WILL", ComPort) # Msg("WONT", ComPort) /\ Msg("DO", ComPort) # Msg("DONT", ComPort)
    BY MsgFacts
  <2>6. ASSUME NEW yes, NEW no, yes # no, NEW is, NEW i \in 1..Len(toServer),
               AgreedAt(toServer, i, yes, no, is)
        PROVE  AgreedAt(toServer', i, yes, no, is)
    BY <2>1, <2>2, <2>6, AgreedStays
  <2> QED
    BY <2>3, <2>4, <2>5, <2>6 DEF SubsWelcome
<1> QED
  BY <1>1, <1>2

\* What hearing a message comes to, by what the client has asked and holds active.
LEMMA HearFacts ==
  ASSUME TypeOK, NEW yes \in Verbs, NEW no \in Verbs, NEW mine \in Verbs, NEW notMine \in Verbs,
         yes # no, mine # notMine, NEW o \in Options, NEW active, NEW accepts, NEW active2,
         Hear(yes, no, mine, notMine, o, active, accepts, active2)
  PROVE  LET ask == AskOf(asked, Msg(mine, o), Msg(notMine, o))
             on == o \in active
             on2 == o \in active2
         IN  /\ toClient # << >> /\ toClient' = Tail(toClient)
             /\ Head(toClient) = Msg(yes, o) \/ Head(toClient) = Msg(no, o)
             /\ asked' = asked \ {Msg(mine, o), Msg(notMine, o)}
             /\ active2 = active \cup {o} \/ active2 = active \ {o} \/ active2 = active
             /\ \/ ask # "-" /\ toServer' = toServer
                     /\ (on2 <=> Head(toClient) = Msg(yes, o) /\ ask = "yes")
                \/ ask = "-" /\ Head(toClient) = Msg(yes, o) /\ ~on
                     /\ toServer' = Append(toServer, IF on2 THEN Msg(mine, o) ELSE Msg(notMine, o))
                \/ ask = "-" /\ Head(toClient) = Msg(no, o) /\ on
                     /\ ~on2 /\ toServer' = Append(toServer, Msg(notMine, o))
                \/ ask = "-" /\ (Head(toClient) = Msg(yes, o) => on)
                     /\ (Head(toClient) = Msg(no, o) => ~on) /\ (on2 <=> on) /\ toServer' = toServer
<1> DEFINE verb == Head(toClient).verb
           ends == asked \cap {Msg(mine, o), Msg(notMine, o)}
           ask == AskOf(asked, Msg(mine, o), Msg(notMine, o))
<1>1. /\ toClient # << >> /\ toClient' = Tail(toClient)
      /\ Head(toClient).option = o /\ verb \in {yes, no}
      /\ asked' = asked \ ends
      /\ \/ ends # {} /\ UNCHANGED toServer
              /\ active2 = (IF verb = yes /\ Msg(mine, o) \in ends THEN active \cup {o}
                            ELSE active \ {o})
         \/ ends = {} /\ verb = yes /\ o \notin active /\ active2 = active \cup {o}
              /\ toServer' = Append(toServer, Msg(mine, o))
         \/ ends = {} /\ verb = yes /\ o \notin active /\ active2 = active
              /\ toServer' = Append(toServer, Msg(notMine, o))
         \/ ends = {} /\ verb = no /\ o \in active /\ active2 = active \ {o}
              /\ toServer' = Append(toServer, Msg(notMine, o))
         \/ ends = {} /\ ~(verb = yes /\ o \notin active) /\ ~(verb = no /\ o \in active)
              /\ active2 = active /\ UNCHANGED toServer
  BY DEF Hear, Send
<1>2. Head(toClient) = Msg(verb, o)
  <2>1. Head(toClient) \in Messages
    BY <1>1 DEF TypeOK
  <2> QED
    BY <1>1, <2>1, MsgFacts
<1>3. /\ Head(toClient) = Msg(yes, o) <=> verb = yes
      /\ Head(toClient) = Msg(no, o) <=> verb = no
  BY <1>2, MsgFacts
<1>4. /\ ends = {} <=> ask = "-"
      /\ Msg(mine, o) \in ends <=> ask = "yes"
  BY DEF AskOf
<1>5. asked' = asked \ {Msg(mine, o), Msg(notMine, o)}
  BY <1>1
<1> HIDE DEF verb, ends, ask
<1>6. \/ ask # "-" /\ toServer' = toServer
           /\ (o \in active2 <=> Head(toClient) = Msg(yes, o) /\ ask = "yes")
      \/ ask = "-" /\ Head(toClient) = Msg(yes, o) /\ o \notin active
           /\ toServer' = Append(toServer, IF o \in active2 THEN Msg(mine, o) ELSE Msg(notMine, o))
      \/ ask = "-" /\ Head(toClient) = Msg(no, o) /\ o \in active
           /\ o \notin active2 /\ toServer' = Append(toServer, Msg(notMine, o))
      \/ ask = "-" /\ (Head(toClient) = Msg(yes, o) => o \in active)
           /\ (Head(toClient) = Msg(no, o) => o \notin active) /\ (o \in active2 <=> o \in active)
           /\ toServer' = toServer
  BY <1>1, <1>3, <1>4
<1>7. active2 = active \cup {o} \/ active2 = active \ {o} \/ active2 = active
  BY <1>1
<1> QED
  BY <1>1, <1>3, <1>5, <1>6, <1>7 DEF ask

\* The client hears of what it performs.
LEMMA HearDoStep ==
  ASSUME TelnetInv, NEW o \in Options, HearDo(o), UNCHANGED <<server, clients>>
  PROVE  TelnetInv'
<1>1. /\ TypeOK /\ \A q \in Options : ClientWay(q) /\ ServerWay(q)
      /\ SubsWelcome /\ SubsCounted
  BY DEF TelnetInv
<1>2. /\ Hear("DO", "DONT", "WILL", "WONT", o, will, ClientWill, will')
      /\ do' = do /\ sent' = sent /\ asks' = asks /\ tnstate' = tnstate
      /\ handled' = handled /\ clients' = clients
  BY DEF HearDo, server
<1> DEFINE askYes == Msg("DO", o)
           askNo == Msg("DONT", o)
           m == Msg("WILL", o)
           n == Msg("WONT", o)
           ask == AskOf(asked, m, n)
           on == o \in will
           on2 == o \in will'
<1>3. /\ toClient # << >> /\ toClient' = Tail(toClient)
      /\ Head(toClient) = askYes \/ Head(toClient) = askNo
      /\ asked' = asked \ {m, n}
      /\ will' = will \cup {o} \/ will' = will \ {o} \/ will' = will
      /\ \/ ask # "-" /\ toServer' = toServer
              /\ (on2 <=> Head(toClient) = askYes /\ ask = "yes")
         \/ ask = "-" /\ Head(toClient) = askYes /\ ~on
              /\ toServer' = Append(toServer, IF on2 THEN m ELSE n)
         \/ ask = "-" /\ Head(toClient) = askNo /\ on
              /\ ~on2 /\ toServer' = Append(toServer, n)
         \/ ask = "-" /\ (Head(toClient) = askYes => on)
              /\ (Head(toClient) = askNo => ~on) /\ (on2 <=> on) /\ toServer' = toServer
  <2>1. /\ "DO" \in Verbs /\ "DONT" \in Verbs /\ "WILL" \in Verbs /\ "WONT" \in Verbs
        /\ "DO" # "DONT" /\ "WILL" # "WONT"
    BY DEF Verbs
  <2> QED
    BY <1>1, <1>2, <2>1, HearFacts
<1>4. /\ askYes \in Messages /\ askNo \in Messages /\ m \in Messages /\ n \in Messages
      /\ askYes # askNo /\ m # n
  BY MsgFacts DEF Verbs
<1>5. /\ toClient \in Seq(Messages) /\ toServer \in Seq(Messages)
      /\ toServer' = toServer \/ toServer' = Append(toServer, m) \/ toServer' = Append(toServer, n)
  BY <1>1, <1>3 DEF TypeOK
<1>6. /\ \A yes, no : (askYes # yes /\ askYes # no /\ askNo # yes /\ askNo # no)
                         => Passes(toClient, toClient', yes, no)
      /\ \A yes, no : (m # yes /\ m # no /\ n # yes /\ n # no)
                         => Passes(toServer, toServer', yes, no)
  <2> HIDE DEF askYes, askNo, m, n, ask, on, on2
  <2> QED
    BY <1>3, <1>4, <1>5 DEF Passes
<1>7. ASSUME NEW q \in Options, q # o PROVE ClientWay(q)' /\ ServerWay(q)'
  <2>1. \A a, b : /\ Passes(toClient, toClient', Msg(a, q), Msg(b, q))
                  /\ Passes(toServer, toServer', Msg(a, q), Msg(b, q))
                  /\ Msg(a, q) \in asked' <=> Msg(a, q) \in asked
    BY <1>3, <1>6, <1>7, MsgFacts
  <2>2. (q \in will' <=> q \in will) /\ (q \in do' <=> q \in do)
    BY <1>2, <1>3, <1>7
  <2>3. ClientWay(q)'
    BY <1>1, <1>2, <2>1, <2>2, ClientWayStays
  <2>4. ServerWay(q)'
    BY <1>1, <1>2, <2>1, <2>2, ServerWayStays
  <2> QED
    BY <2>3, <2>4
<1>8. ServerWay(o)'
  <2>1. /\ Passes(toClient, toClient', m, n)
        /\ Passes(toServer, toServer', askYes, askNo)
        /\ \A v \in {"DO", "DONT"} : Msg(v, o) \in asked' <=> Msg(v, o) \in asked
    BY <1>3, <1>6, MsgFacts
  <2> QED
    BY <1>1, <1>2, <2>1, ServerWayStays
<1>9. ClientWay(o)'
  <2> DEFINE supported == o \in Supported
  <2>1. Way(toClient, toServer, askYes, askNo, m, n, tnstate[o].is_do, tnstate[o].sent_do,
            on, ask, supported)
    BY <1>1 DEF ClientWay
  <2>2. on2 \in BOOLEAN /\ on \in BOOLEAN
    OBVIOUS
  <2>3. AskOf(asked', m, n) = "-"
    BY <1>3 DEF AskOf
  <2>4. Way(Tail(toClient), toServer', askYes, askNo, m, n, tnstate[o].is_do, tnstate[o].sent_do,
            on2, "-", supported)
    <3> HIDE DEF askYes, askNo, m, n, ask, on, on2, supported
    <3> QED
      BY ONLY <1>3, <1>4, <1>5, <2>1, <2>2, WayHears
  <2> QED
    BY <1>2, <1>3, <2>3, <2>4 DEF ClientWay
<1>10. SubsWelcome' /\ SubsCounted'
  <2>1. toServer' = toServer \/ \E v \in Verbs, r \in Options : toServer' = Append(toServer, Msg(v, r))
    BY <1>5 DEF Verbs
  <2> QED
    BY <1>1, <1>2, <2>1, SubsStay
<1>11. TypeOK'
  <2>1. toServer' \in Seq(Messages) /\ toClient' \in Seq(Messages)
    <3> HIDE DEF askYes, askNo, m, n, ask, on, on2
    <3>1. toServer' \in Seq(Messages)
      BY ONLY <1>4, <1>5
    <3>2. toClient' \in Seq(Messages)
      BY ONLY <1>3, <1>5
    <3> QED
      BY <3>1, <3>2
  <2>2. will' \subseteq Options /\ do' \subseteq Options
    BY <1>1, <1>2, <1>3 DEF TypeOK
  <2>3. asked' \subseteq [verb : Verbs, option : Options]
    BY <1>1, <1>3 DEF TypeOK
  <2> QED
    BY <1>1, <1>2, <2>1, <2>2, <2>3 DEF TypeOK
<1> QED
  BY <1>7, <1>8, <1>9, <1>10, <1>11 DEF TelnetInv

\* The client hears of what the server performs.
LEMMA HearWillStep ==
  ASSUME TelnetInv, NEW o \in Options, HearWill(o), UNCHANGED <<server, clients>>
  PROVE  TelnetInv'
<1>1. /\ TypeOK /\ \A q \in Options : ClientWay(q) /\ ServerWay(q)
      /\ SubsWelcome /\ SubsCounted
  BY DEF TelnetInv
<1>2. /\ Hear("WILL", "WONT", "DO", "DONT", o, do, ClientDo, do')
      /\ will' = will /\ sent' = sent /\ asks' = asks /\ tnstate' = tnstate
      /\ handled' = handled /\ clients' = clients
  BY DEF HearWill, server
<1> DEFINE askYes == Msg("WILL", o)
           askNo == Msg("WONT", o)
           m == Msg("DO", o)
           n == Msg("DONT", o)
           ask == AskOf(asked, m, n)
           on == o \in do
           on2 == o \in do'
<1>3. /\ toClient # << >> /\ toClient' = Tail(toClient)
      /\ Head(toClient) = askYes \/ Head(toClient) = askNo
      /\ asked' = asked \ {m, n}
      /\ do' = do \cup {o} \/ do' = do \ {o} \/ do' = do
      /\ \/ ask # "-" /\ toServer' = toServer
              /\ (on2 <=> Head(toClient) = askYes /\ ask = "yes")
         \/ ask = "-" /\ Head(toClient) = askYes /\ ~on
              /\ toServer' = Append(toServer, IF on2 THEN m ELSE n)
         \/ ask = "-" /\ Head(toClient) = askNo /\ on
              /\ ~on2 /\ toServer' = Append(toServer, n)
         \/ ask = "-" /\ (Head(toClient) = askYes => on)
              /\ (Head(toClient) = askNo => ~on) /\ (on2 <=> on) /\ toServer' = toServer
  <2>1. /\ "WILL" \in Verbs /\ "WONT" \in Verbs /\ "DO" \in Verbs /\ "DONT" \in Verbs
        /\ "WILL" # "WONT" /\ "DO" # "DONT"
    BY DEF Verbs
  <2> QED
    BY <1>1, <1>2, <2>1, HearFacts
<1>4. /\ askYes \in Messages /\ askNo \in Messages /\ m \in Messages /\ n \in Messages
      /\ askYes # askNo /\ m # n
  BY MsgFacts DEF Verbs
<1>5. /\ toClient \in Seq(Messages) /\ toServer \in Seq(Messages)
      /\ toServer' = toServer \/ toServer' = Append(toServer, m) \/ toServer' = Append(toServer, n)
  BY <1>1, <1>3 DEF TypeOK
<1>6. /\ \A yes, no : (askYes # yes /\ askYes # no /\ askNo # yes /\ askNo # no)
                         => Passes(toClient, toClient', yes, no)
      /\ \A yes, no : (m # yes /\ m # no /\ n # yes /\ n # no)
                         => Passes(toServer, toServer', yes, no)
  <2> HIDE DEF askYes, askNo, m, n, ask, on, on2
  <2> QED
    BY <1>3, <1>4, <1>5 DEF Passes
<1>7. ASSUME NEW q \in Options, q # o PROVE ClientWay(q)' /\ ServerWay(q)'
  <2>1. \A a, b : /\ Passes(toClient, toClient', Msg(a, q), Msg(b, q))
                  /\ Passes(toServer, toServer', Msg(a, q), Msg(b, q))
                  /\ Msg(a, q) \in asked' <=> Msg(a, q) \in asked
    BY <1>3, <1>6, <1>7, MsgFacts
  <2>2. (q \in will' <=> q \in will) /\ (q \in do' <=> q \in do)
    BY <1>2, <1>3, <1>7
  <2>3. ClientWay(q)'
    BY <1>1, <1>2, <2>1, <2>2, ClientWayStays
  <2>4. ServerWay(q)'
    BY <1>1, <1>2, <2>1, <2>2, ServerWayStays
  <2> QED
    BY <2>3, <2>4
<1>8. ClientWay(o)'
  <2>1. /\ Passes(toClient, toClient', m, n)
        /\ Passes(toServer, toServer', askYes, askNo)
        /\ \A v \in {"WILL", "WONT"} : Msg(v, o) \in asked' <=> Msg(v, o) \in asked
    BY <1>3, <1>6, MsgFacts
  <2> QED
    BY <1>1, <1>2, <2>1, ClientWayStays
<1>9. ServerWay(o)'
  <2> DEFINE supported == o \in Supported
  <2>1. Way(toClient, toServer, askYes, askNo, m, n, tnstate[o].is_will, tnstate[o].sent_will,
            on, ask, supported)
    BY <1>1 DEF ServerWay
  <2>2. on2 \in BOOLEAN /\ on \in BOOLEAN
    OBVIOUS
  <2>3. AskOf(asked', m, n) = "-"
    BY <1>3 DEF AskOf
  <2>4. Way(Tail(toClient), toServer', askYes, askNo, m, n, tnstate[o].is_will, tnstate[o].sent_will,
            on2, "-", supported)
    <3> HIDE DEF askYes, askNo, m, n, ask, on, on2, supported
    <3> QED
      BY ONLY <1>3, <1>4, <1>5, <2>1, <2>2, WayHears
  <2> QED
    BY <1>2, <1>3, <2>3, <2>4 DEF ServerWay
<1>10. SubsWelcome' /\ SubsCounted'
  <2>1. toServer' = toServer \/ \E v \in Verbs, r \in Options : toServer' = Append(toServer, Msg(v, r))
    BY <1>5 DEF Verbs
  <2> QED
    BY <1>1, <1>2, <2>1, SubsStay
<1>11. TypeOK'
  <2>1. toServer' \in Seq(Messages) /\ toClient' \in Seq(Messages)
    <3> HIDE DEF askYes, askNo, m, n, ask, on, on2
    <3>1. toServer' \in Seq(Messages)
      BY ONLY <1>4, <1>5
    <3>2. toClient' \in Seq(Messages)
      BY ONLY <1>3, <1>5
    <3> QED
      BY <3>1, <3>2
  <2>2. will' \subseteq Options /\ do' \subseteq Options
    BY <1>1, <1>2, <1>3 DEF TypeOK
  <2>3. asked' \subseteq [verb : Verbs, option : Options]
    BY <1>1, <1>3 DEF TypeOK
  <2> QED
    BY <1>1, <1>2, <2>1, <2>2, <2>3 DEF TypeOK
<1> QED
  BY <1>7, <1>8, <1>9, <1>10, <1>11 DEF TelnetInv

\* The client asks of its own accord.
LEMMA AskStep ==
  ASSUME TelnetInv, NEW v \in Verbs, NEW o \in Options, Ask(v, o), UNCHANGED <<server, clients>>
  PROVE  TelnetInv'
<1>1. /\ TypeOK /\ \A q \in Options : ClientWay(q) /\ ServerWay(q)
      /\ SubsWelcome /\ SubsCounted
  BY DEF TelnetInv
<1>2. /\ toServer' = Append(toServer, Msg(v, o)) /\ toClient' = toClient /\ sent' = sent
      /\ asked' = asked \cup {Msg(v, o)} /\ tnstate' = tnstate /\ handled' = handled
      /\ clients' = clients /\ asks < MaxAsks /\ asks' = asks + 1
      /\ \A w : Msg(w, o) \notin asked
  BY MsgFacts DEF Ask, Send, server
<1>3. /\ \A q \in Options \ {o} : (q \in will' <=> q \in will) /\ (q \in do' <=> q \in do)
      /\ v \in {"WILL", "WONT"} => o \notin will' /\ do' = do /\ (o \in will <=> v = "WONT")
      /\ v \in {"DO", "DONT"} => o \notin do' /\ will' = will /\ (o \in do <=> v = "DONT")
      /\ will' \subseteq Options /\ do' \subseteq Options
  BY <1>1 DEF Ask, TypeOK
<1>4. /\ Msg(v, o) \in Messages /\ toServer \in Seq(Messages) /\ toClient \in Seq(Messages)
      /\ \A yes, no : Passes(toClient, toClient', yes, no)
      /\ \A yes, no : Msg(v, o) # yes /\ Msg(v, o) # no => Passes(toServer, toServer', yes, no)
  <2>1. Msg(v, o) \in Messages
    BY MsgFacts
  <2> QED
    BY <1>1, <1>2, <2>1 DEF TypeOK, Passes
<1>5. ASSUME NEW q \in Options \ {o} PROVE ClientWay(q)' /\ ServerWay(q)'
  <2>1. \A a, b : /\ Passes(toClient, toClient', Msg(a, q), Msg(b, q))
                  /\ Passes(toServer, toServer', Msg(a, q), Msg(b, q))
                  /\ Msg(a, q) \in asked' <=> Msg(a, q) \in asked
    BY <1>2, <1>4, MsgFacts
  <2>2. (q \in will' <=> q \in will) /\ (q \in do' <=> q \in do) /\ q \in Options
    BY <1>3
  <2>3. ClientWay(q)'
    BY <1>1, <1>2, <2>1, <2>2, ClientWayStays
  <2>4. ServerWay(q)'
    BY <1>1, <1>2, <2>1, <2>2, ServerWayStays
  <2> QED
    BY <2>3, <2>4
<1>6. ASSUME v \in {"WILL", "WONT"} PROVE ClientWay(o)' /\ ServerWay(o)'
  <2>1. ServerWay(o)'
    <3>1. /\ Passes(toClient, toClient', Msg("WILL", o), Msg("WONT", o))
          /\ Passes(toServer, toServer', Msg("DO", o), Msg("DONT", o))
          /\ \A w \in {"DO", "DONT"} : Msg(w, o) \in asked' <=> Msg(w, o) \in asked
      BY <1>2, <1>4, <1>6, MsgFacts
    <3> QED
      BY <1>1, <1>2, <1>3, <1>6, <3>1, ServerWayStays
  <2>2. ClientWay(o)'
    <3> DEFINE askYes == Msg("DO", o)
               askNo == Msg("DONT", o)
               yes == Msg("WILL", o)
               no == Msg("WONT", o)
               on == o \in will
               supported == o \in Supported
               ask2 == IF on THEN "no" ELSE "yes"
    <3>1. yes \in Messages /\ no \in Messages /\ yes # no /\ on \in BOOLEAN
      BY MsgFacts DEF Verbs
    <3>2. Way(toClient, toServer, askYes, askNo, yes, no, tnstate[o].is_do, tnstate[o].sent_do,
              on, "-", supported)
      <4>1. AskOf(asked, yes, no) = "-"
        BY <1>2 DEF AskOf
      <4> QED
        BY <1>1, <4>1 DEF ClientWay
    <3>3. /\ toServer' = Append(toServer, IF on THEN no ELSE yes)
          /\ AskOf(asked', yes, no) = ask2 /\ (o \in will') = FALSE
      BY <1>2, <1>3, <1>6, <3>1 DEF AskOf
    <3>4. Way(toClient, toServer', askYes, askNo, yes, no, tnstate[o].is_do, tnstate[o].sent_do,
              FALSE, ask2, supported)
      <4> HIDE DEF askYes, askNo, yes, no, on, supported
      <4>1. CASE on
        BY ONLY <1>4, <3>1, <3>2, <3>3, <4>1, WayAsks
      <4>2. CASE ~on
        BY ONLY <1>4, <3>1, <3>2, <3>3, <4>2, WayAsks
      <4> QED
        BY <4>1, <4>2
    <3> QED
      BY <1>2, <3>3, <3>4 DEF ClientWay
  <2> QED
    BY <2>1, <2>2
<1>7. ASSUME v \in {"DO", "DONT"} PROVE ClientWay(o)' /\ ServerWay(o)'
  <2>1. ClientWay(o)'
    <3>1. /\ Passes(toClient, toClient', Msg("DO", o), Msg("DONT", o))
          /\ Passes(toServer, toServer', Msg("WILL", o), Msg("WONT", o))
          /\ \A w \in {"WILL", "WONT"} : Msg(w, o) \in asked' <=> Msg(w, o) \in asked
      BY <1>2, <1>4, <1>7, MsgFacts
    <3> QED
      BY <1>1, <1>2, <1>3, <1>7, <3>1, ClientWayStays
  <2>2. ServerWay(o)'
    <3> DEFINE askYes == Msg("WILL", o)
               askNo == Msg("WONT", o)
               yes == Msg("DO", o)
               no == Msg("DONT", o)
               on == o \in do
               supported == o \in Supported
               ask2 == IF on THEN "no" ELSE "yes"
    <3>1. yes \in Messages /\ no \in Messages /\ yes # no /\ on \in BOOLEAN
      BY MsgFacts DEF Verbs
    <3>2. Way(toClient, toServer, askYes, askNo, yes, no, tnstate[o].is_will,
              tnstate[o].sent_will, on, "-", supported)
      <4>1. AskOf(asked, yes, no) = "-"
        BY <1>2 DEF AskOf
      <4> QED
        BY <1>1, <4>1 DEF ServerWay
    <3>3. /\ toServer' = Append(toServer, IF on THEN no ELSE yes)
          /\ AskOf(asked', yes, no) = ask2 /\ (o \in do') = FALSE
      BY <1>2, <1>3, <1>7, <3>1 DEF AskOf
    <3>4. Way(toClient, toServer', askYes, askNo, yes, no, tnstate[o].is_will,
              tnstate[o].sent_will, FALSE, ask2, supported)
      <4> HIDE DEF askYes, askNo, yes, no, on, supported
      <4>1. CASE on
        BY ONLY <1>4, <3>1, <3>2, <3>3, <4>1, WayAsks
      <4>2. CASE ~on
        BY ONLY <1>4, <3>1, <3>2, <3>3, <4>2, WayAsks
      <4> QED
        BY <4>1, <4>2
    <3> QED
      BY <1>2, <3>3, <3>4 DEF ServerWay
  <2> QED
    BY <2>1, <2>2
<1>8. ClientWay(o)' /\ ServerWay(o)'
  BY <1>6, <1>7 DEF Verbs
<1>9. SubsWelcome' /\ SubsCounted'
  BY <1>1, <1>2, SubsStay
<1>10. TypeOK'
  <2>1. toServer' \in Seq(Messages) /\ toClient' \in Seq(Messages)
    BY <1>2, <1>4
  <2>2. asked' \subseteq [verb : Verbs, option : Options]
    BY <1>1, <1>2 DEF TypeOK, Msg
  <2>3. asks' \in 0..MaxAsks
    BY <1>1, <1>2, TelnetAssumption DEF TypeOK
  <2> QED
    BY <1>1, <1>2, <1>3, <2>1, <2>2, <2>3 DEF TypeOK
<1> QED
  BY <1>5, <1>8, <1>9, <1>10 DEF TelnetInv

\* The client sends a suboption: it will find its option agreed on.
LEMMA SendSubStep ==
  ASSUME TelnetInv, SendSub, UNCHANGED <<server, clients>>
  PROVE  TelnetInv'
<1> DEFINE m == Msg("SB", ComPort)
<1>1. /\ TypeOK /\ \A q \in Options : ClientWay(q) /\ ServerWay(q)
      /\ SubsWelcome /\ SubsCounted
  BY DEF TelnetInv
<1>2. /\ toServer' = Append(toServer, m) /\ toClient' = toClient /\ sent' = sent + 1
      /\ sent < MaxSubs /\ ComPort \in will \cup do /\ will' = will /\ do' = do
      /\ asked' = asked /\ asks' = asks /\ tnstate' = tnstate /\ handled' = handled
      /\ clients' = clients
  BY DEF SendSub, Send, server
<1>3. /\ ComPort \in Options /\ MaxSubs \in Nat /\ toServer \in Seq(Messages)
      /\ m \in Messages /\ m.verb = "SB" /\ m.option = ComPort
      /\ \A v \in Verbs : \A q : m # Msg(v, q)
  BY <1>1, TelnetAssumption, MsgFacts DEF TypeOK, Verbs
<1>4. /\ \A yes, no : Passes(toClient, toClient', yes, no)
      /\ \A v, w \in Verbs : \A q : Passes(toServer, toServer', Msg(v, q), Msg(w, q))
  <2> HIDE DEF m
  <2> QED
    BY <1>2, <1>3 DEF Passes
<1>5. ASSUME NEW q \in Options PROVE ClientWay(q)' /\ ServerWay(q)'
  <2>1. "WILL" \in Verbs /\ "WONT" \in Verbs /\ "DO" \in Verbs /\ "DONT" \in Verbs
    BY DEF Verbs
  <2>2. ClientWay(q)'
    BY <1>1, <1>2, <1>4, <2>1, ClientWayStays
  <2>3. ServerWay(q)'
    BY <1>1, <1>2, <1>4, <2>1, ServerWayStays
  <2> QED
    BY <2>2, <2>3
<1>6. SubsCounted'
  <2>1. /\ Cardinality(Subs(toServer)) \in Nat
        /\ Cardinality(Subs(toServer')) = Cardinality(Subs(toServer)) + 1
    <3> HIDE DEF m
    <3> QED
      BY <1>2, <1>3, SubsCount
  <2>2. handled \in Nat /\ handled' = handled /\ sent' = sent + 1
        /\ handled + Cardinality(Subs(toServer)) = sent
    BY <1>1, <1>2, <1>3 DEF SubsCounted, TypeOK
  <2> HIDE DEF m
  <2>3. handled' + Cardinality(Subs(toServer')) = sent'
    BY ONLY <2>1, <2>2
  <2> QED
    BY <2>3 DEF SubsCounted
<1>7. SubsWelcome'
  <2>1. Msg("WILL", ComPort) # Msg("WONT", ComPort) /\ Msg("DO", ComPort) # Msg("DONT", ComPort)
    BY MsgFacts
  <2>2. ASSUME NEW i \in Subs(toServer'), i # Len(toServer) + 1
        PROVE  /\ i \in 1..Len(toServer) /\ i \in Subs(toServer)
               /\ toServer'[i].option = toServer[i].option
    <3> HIDE DEF m
    <3> QED
      BY <1>2, <1>3, <2>2 DEF Subs
  <2>3. ASSUME NEW yes, NEW no, yes # no, NEW is, NEW i \in 1..Len(toServer),
               AgreedAt(toServer, i, yes, no, is)
        PROVE  AgreedAt(toServer', i, yes, no, is)
    <3> HIDE DEF m
    <3> QED
      BY <1>2, <1>3, <2>3, AgreedStays
  <2>4. toServer'[Len(toServer) + 1] = m
    <3> HIDE DEF m
    <3> QED
      BY <1>2, <1>3
  <2>5. \/ AgreedAt(toServer', Len(toServer) + 1, Msg("WILL", ComPort), Msg("WONT", ComPort),
                    tnstate[ComPort].is_do)
        \/ AgreedAt(toServer', Len(toServer) + 1, Msg("DO", ComPort), Msg("DONT", ComPort),
                    tnstate[ComPort].is_will)
    <3> HIDE DEF m
    <3>1. CASE ComPort \in will
      <4>1. (ComPort \in will) = TRUE
        BY <3>1
      <4>2. Way(toClient, toServer, Msg("DO", ComPort), Msg("DONT", ComPort),
                Msg("WILL", ComPort), Msg("WONT", ComPort), tnstate[ComPort].is_do,
                tnstate[ComPort].sent_do, TRUE,
                AskOf(asked, Msg("WILL", ComPort), Msg("WONT", ComPort)), ComPort \in Supported)
        BY <1>1, <1>3, <4>1 DEF ClientWay
      <4> QED
        BY <1>2, <1>3, <2>1, <4>2, ActiveIsAgreed
    <3>2. CASE ComPort \in do
      <4>1. (ComPort \in do) = TRUE
        BY <3>2
      <4>2. Way(toClient, toServer, Msg("WILL", ComPort), Msg("WONT", ComPort),
                Msg("DO", ComPort), Msg("DONT", ComPort), tnstate[ComPort].is_will,
                tnstate[ComPort].sent_will, TRUE,
                AskOf(asked, Msg("DO", ComPort), Msg("DONT", ComPort)), ComPort \in Supported)
        BY <1>1, <1>3, <4>1 DEF ServerWay
      <4> QED
        BY <1>2, <1>3, <2>1, <4>2, ActiveIsAgreed
    <3> QED
      BY <1>2, <3>1, <3>2
  <2> HIDE DEF m
  <2> QED
    BY <1>1, <1>2, <1>3, <2>1, <2>2, <2>3, <2>4, <2>5 DEF SubsWelcome
<1>8. TypeOK'
  <2>1. toServer' \in Seq(Messages)
    <3> HIDE DEF m
    <3> QED
      BY <1>2, <1>3
  <2>2. sent' \in 0..MaxSubs
    BY <1>1, <1>2, <1>3 DEF TypeOK
  <2> QED
    BY <1>1, <1>2, <2>1, <2>2 DEF TypeOK
<1> QED
  BY <1>5, <1>6, <1>7, <1>8 DEF TelnetInv

\* The table, the streams and the client when a client has just been accepted.
Fresh ==
    /\ tnstate = InitialState
    /\ toClient = InitialOffers /\ toServer = << >>
    /\ will = {} /\ do = {} /\ asked = {}
    /\ handled = 0 /\ sent = 0
    /\ asks \in 0..MaxAsks /\ clients \in 1..MaxClients

\* Every client begins with the offers and nothing else.
LEMMA FreshIsGood ==
  ASSUME Fresh PROVE TelnetInv
<1>1. TypeOK
  <2>1. InitialState \in [Options -> [sent_will : BOOLEAN, sent_do : BOOLEAN,
                                      is_will : BOOLEAN, is_do : BOOLEAN]]
    BY DEF InitialState
  <2>2. InitialOffers \in Seq(Messages)
    <3>1. [verb : {"WILL", "DO"}, option : Supported] \subseteq Messages
      BY TelnetAssumption DEF Messages, Verbs
    <3> DEFINE R == [verb : {"WILL", "DO"}, option : Supported]
    <3>2. InitialOffers \in Seq(R) /\ R \subseteq Messages
      BY <3>1, TelnetAssumption
    <3> HIDE DEF R
    <3> QED
      BY <3>2
  <2>3. MaxSubs \in Nat
    BY TelnetAssumption
  <2> QED
    BY <2>1, <2>2, <2>3 DEF Fresh, TypeOK
<1>2. ASSUME NEW o \in Options PROVE ClientWay(o) /\ ServerWay(o)
  <2>1. /\ tnstate[o].is_do = FALSE /\ tnstate[o].is_will = FALSE
        /\ tnstate[o].sent_do = (o \in InitialDo) /\ tnstate[o].sent_will = (o \in InitialWill)
    BY DEF Fresh, InitialState
  <2>2. /\ \A a, b : AskOf(asked, a, b) = "-"
        /\ (o \in will) = FALSE /\ (o \in do) = FALSE
    BY DEF Fresh, AskOf
  <2>3. /\ o \in InitialDo <=> \E i \in DOMAIN InitialOffers : InitialOffers[i] = Msg("DO", o)
        /\ o \in InitialWill <=> \E i \in DOMAIN InitialOffers : InitialOffers[i] = Msg("WILL", o)
    BY DEF InitialDo, InitialWill
  <2>4. Way(InitialOffers, << >>, Msg("DO", o), Msg("DONT", o), Msg("WILL", o), Msg("WONT", o),
            FALSE, o \in InitialDo, FALSE, "-", o \in Supported)
    <3> DEFINE open == o \in InitialDo
    <3>1. /\ open \in BOOLEAN /\ "DO" \in {"WILL", "DO"} /\ "DONT" \in {"WONT", "DONT"}
          /\ open <=> \E i \in DOMAIN InitialOffers : InitialOffers[i] = Msg("DO", o)
      BY <2>3
    <3> HIDE DEF open
    <3> QED
      BY <3>1, WayStarts DEF open
  <2>5. Way(InitialOffers, << >>, Msg("WILL", o), Msg("WONT", o), Msg("DO", o), Msg("DONT", o),
            FALSE, o \in InitialWill, FALSE, "-", o \in Supported)
    <3> DEFINE open == o \in InitialWill
    <3>1. /\ open \in BOOLEAN /\ "WILL" \in {"WILL", "DO"} /\ "WONT" \in {"WONT", "DONT"}
          /\ open <=> \E i \in DOMAIN InitialOffers : InitialOffers[i] = Msg("WILL", o)
      BY <2>3
    <3> HIDE DEF open
    <3> QED
      BY <3>1, WayStarts DEF open
  <2> QED
    BY <2>1, <2>2, <2>4, <2>5 DEF Fresh, ClientWay, ServerWay
<1>3. SubsWelcome /\ SubsCounted
  <2>1. toServer = << >> /\ handled = 0 /\ sent = 0 /\ << >> \in Seq(Messages)
    BY DEF Fresh
  <2>2. SubsWelcome
    BY <2>1 DEF SubsWelcome, Subs
  <2>3. SubsCounted
    <3>1. Cardinality(Subs(<< >>)) = 0
      BY <2>1, SubsCount
    <3> QED
      BY <2>1, <3>1 DEF SubsCounted
  <2> QED
    BY <2>2, <2>3
<1> QED
  BY <1>1, <1>2, <1>3 DEF TelnetInv

-----------------------------------------------------------------------------
(* The theorems                                                            *)

\* Every step of the server, of the client and of the connection keeps the invariant.
LEMMA TelnetStep ==
  ASSUME TelnetInv, [Next]_vars PROVE TelnetInv'
<1>1. CASE UNCHANGED vars
  <2>1. /\ toServer' = toServer /\ toClient' = toClient /\ sent' = sent /\ asks' = asks
        /\ tnstate' = tnstate /\ handled' = handled /\ clients' = clients
        /\ will' = will /\ do' = do /\ asked' = asked
    BY <1>1 DEF vars, server, client
  <2>2. /\ TypeOK /\ \A q \in Options : ClientWay(q) /\ ServerWay(q)
        /\ SubsWelcome /\ SubsCounted
    BY DEF TelnetInv
  <2>3. ASSUME NEW q \in Options PROVE ClientWay(q)' /\ ServerWay(q)'
    BY <2>1, <2>2 DEF ClientWay, ServerWay
  <2>4. TypeOK' /\ SubsWelcome' /\ SubsCounted'
    BY <2>1, <2>2 DEF TypeOK, SubsWelcome, SubsCounted
  <2> QED
    BY <2>3, <2>4 DEF TelnetInv
<1>2. ASSUME NEW o \in Options, HandleIACCommand(o) PROVE TelnetInv'
  BY <1>2, WillStep, DoStep, WontStep, DontStep, SubStep DEF HandleIACCommand
<1>3. ASSUME NEW o \in Options, ClientStep(o) PROVE TelnetInv'
  BY <1>3, HearDoStep, HearWillStep DEF ClientStep
<1>4. CASE ClientAsks
  BY <1>4, AskStep, SendSubStep DEF ClientAsks
<1>5. CASE ConnectClient
  <2>1. TypeOK
    BY DEF TelnetInv
  <2>2. asks' \in 0..MaxAsks /\ clients' \in 1..MaxClients
    BY <1>5, <2>1, TelnetAssumption DEF ConnectClient, TypeOK
  <2>3. Fresh'
    BY <1>5, <2>2 DEF ConnectClient, Fresh, InitialState, InitialWill, InitialDo, Msg
  <2> QED
    BY <2>3, FreshIsGood, PTL
<1> QED
  BY <1>1, <1>2, <1>3, <1>4, <1>5 DEF Next

\* Whatever the two sides ask and however their requests cross, each way of each
\* option is in one of the states of Row.
THEOREM TelnetInvariant == Spec => []TelnetInv
<1>1. Init => TelnetInv
  <2> SUFFICES ASSUME Init PROVE TelnetInv
    OBVIOUS
  <2>1. Fresh
    BY TelnetAssumption DEF Init, Fresh
  <2> QED
    BY <2>1, FreshIsGood
<1>2. TelnetInv /\ [Next]_vars => TelnetInv'
  BY TelnetStep
<1> QED
  BY <1>1, <1>2, PTL DEF Spec

\* Every variable holds a value of its type.
THEOREM TelnetTypeCorrect == Spec => []TypeOK
<1>1. TelnetInv => TypeOK
  BY DEF TelnetInv
<1> QED
  BY <1>1, TelnetInvariant, PTL

\* A way that carries nothing is at rest.
LEMMA RestAgrees ==
  ASSUME NEW askYes, NEW askNo, NEW yes, NEW no, NEW is, NEW open, NEW on \in BOOLEAN,
         NEW ask, NEW supported,
         Way(<< >>, << >>, askYes, askNo, yes, no, is, open, on, ask, supported)
  PROVE  (is <=> on) /\ ask = "-"
<1>1. PICK out, in \in Views :
          /\ Carries(<< >>, askYes, askNo, out) /\ Carries(<< >>, yes, no, in)
          /\ Row(out, in, is, open, on, ask)
  BY DEF Way
<1>2. \A a, b, view : Carries(<< >>, a, b, view) => view = "-"
  BY DEF Carries, One, Two
<1>3. out = "-" /\ in = "-"
  BY <1>1, <1>2
<1> QED
  BY ONLY <1>1, <1>3 DEF Row

\* Agreement: once nothing is in flight, the server's table and the client agree
\* on every option and no request is left unanswered (HandleIACCommand).
THEOREM TelnetAgreement == Spec => []Agreement
<1>1. TelnetInv => Agreement
  <2> SUFFICES ASSUME TelnetInv, Quiet
               PROVE  /\ asked = {}
                      /\ \A o \in Options : /\ tnstate[o].is_do <=> o \in will
                                            /\ tnstate[o].is_will <=> o \in do
    BY DEF Agreement
  <2>1. TypeOK /\ toClient = << >> /\ toServer = << >>
    BY DEF TelnetInv, Quiet
  <2>2. ASSUME NEW o \in Options
        PROVE  /\ tnstate[o].is_do <=> o \in will
               /\ AskOf(asked, Msg("WILL", o), Msg("WONT", o)) = "-"
    <3> DEFINE on == o \in will
    <3>1. on \in BOOLEAN
      OBVIOUS
    <3>2. Way(<< >>, << >>, Msg("DO", o), Msg("DONT", o), Msg("WILL", o), Msg("WONT", o),
              tnstate[o].is_do, tnstate[o].sent_do, on,
              AskOf(asked, Msg("WILL", o), Msg("WONT", o)), o \in Supported)
      BY <2>1 DEF TelnetInv, ClientWay
    <3> HIDE DEF on
    <3>3. (tnstate[o].is_do <=> on) /\ AskOf(asked, Msg("WILL", o), Msg("WONT", o)) = "-"
      BY <3>1, <3>2, RestAgrees
    <3> QED
      BY <3>3 DEF on
  <2>3. ASSUME NEW o \in Options
        PROVE  /\ tnstate[o].is_will <=> o \in do
               /\ AskOf(asked, Msg("DO", o), Msg("DONT", o)) = "-"
    <3> DEFINE on == o \in do
    <3>1. on \in BOOLEAN
      OBVIOUS
    <3>2. Way(<< >>, << >>, Msg("WILL", o), Msg("WONT", o), Msg("DO", o), Msg("DONT", o),
              tnstate[o].is_will, tnstate[o].sent_will, on,
              AskOf(asked, Msg("DO", o), Msg("DONT", o)), o \in Supported)
      BY <2>1 DEF TelnetInv, ServerWay
    <3> HIDE DEF on
    <3>3. (tnstate[o].is_will <=> on) /\ AskOf(asked, Msg("DO", o), Msg("DONT", o)) = "-"
      BY <3>1, <3>2, RestAgrees
    <3> QED
      BY <3>3 DEF on
  <2>4. asked = {}
    <3> SUFFICES ASSUME NEW m \in asked PROVE FALSE
      OBVIOUS
    <3>1. m.verb \in Verbs /\ m.option \in Options /\ m = Msg(m.verb, m.option)
      BY <2>1 DEF TypeOK, Msg
    <3>2. \A v \in Verbs : Msg(v, m.option) \notin asked
      BY <2>2, <2>3, <3>1 DEF AskOf, Verbs
    <3> QED
      BY <3>1, <3>2
  <2> QED
    BY <2>2, <2>3, <2>4
<1> QED
  BY <1>1, TelnetInvariant, PTL

\* SubsHandled: the server never ignores a suboption of an option that the client
\* considered active when it sent it, whatever was negotiated meanwhile
\* (HandleIACCommand:948).
THEOREM TelnetSubsHandled == Spec => []SubsHandled
<1>1. TelnetInv => SubsHandled
  <2> SUFFICES ASSUME TelnetInv, Quiet PROVE handled = sent
    BY DEF SubsHandled
  <2>1. /\ handled + Cardinality(Subs(<< >>)) = sent /\ << >> \in Seq(Messages)
        /\ handled \in 0..MaxSubs /\ MaxSubs \in Nat
    BY TelnetAssumption DEF TelnetInv, SubsCounted, Quiet, TypeOK
  <2>2. Cardinality(Subs(<< >>)) = 0
    BY <2>1, SubsCount
  <2> QED
    BY <2>1, <2>2
<1> QED
  BY <1>1, TelnetInvariant, PTL
=============================================================================
