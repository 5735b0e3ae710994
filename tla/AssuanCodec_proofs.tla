------------------------- MODULE AssuanCodec_proofs -------------------------
(***************************************************************************)
(* Theorems about what becomes of a text on an Assuan session, AssuanCodec,*)
(* which is the instance Codec of MCAssuan, for any alphabet, texts of any *)
(* length, any limit on lines and any number of texts.                     *)
(***************************************************************************)
EXTENDS MCAssuan, WellFoundedInduction, TLAPS



-----------------------------------------------------------------------------
(* Induction over the numbers: the library has it for operators only.      *)

\* A set of numbers that holds zero and, with every number, the next: from the
\* least number that is not in it.
LEMMA SetInduction ==
  ASSUME NEW T \in SUBSET Nat, 0 \in T, \A n \in T : n + 1 \in T
  PROVE  T = Nat
<1>1. SUFFICES ASSUME Nat \ T # {} PROVE FALSE
  OBVIOUS
<1>2. IsWellFoundedOn(OpToRel(<, Nat), Nat)
  BY NatLessThanWellFounded
<1> DEFINE R == OpToRel(<, Nat)
<1>3. \A x, y \in Nat : x < y => <<x, y>> \in R
  BY DEF OpToRel
<1> HIDE DEF R
<1>4. IsWellFoundedOn(R, Nat)
  BY <1>2 DEF R
<1>5. PICK x \in Nat \ T : \A y \in Nat \ T : ~ (<<y, x>> \in R)
  BY <1>1, <1>4, WFMin
<1>6. x # 0
  OBVIOUS
<1>7. x - 1 \in Nat /\ x - 1 < x /\ (x - 1) + 1 = x
  BY <1>6
<1>8. x - 1 \in T
  BY <1>3, <1>5, <1>7
<1> QED BY <1>7, <1>8

\* Up to N, and down from N.
LEMMA UpTo ==
  ASSUME NEW N \in Nat, NEW T, 0 \in T, \A n \in 0..N - 1 : n \in T => n + 1 \in T
  PROVE  \A n \in 0..N : n \in T
<1> DEFINE U == {n \in Nat : n \in 0..N => n \in T}
<1>1. 0 \in U
  OBVIOUS
<1>2. \A n \in U : n + 1 \in U
  OBVIOUS
<1>3. U \in SUBSET Nat
  OBVIOUS
<1> HIDE DEF U
<1>4. U = Nat
  BY <1>1, <1>2, <1>3, SetInduction
<1> QED BY <1>4 DEF U

LEMMA DownFrom ==
  ASSUME NEW N \in Nat, NEW T, N \in T, \A n \in 0..N - 1 : n + 1 \in T => n \in T
  PROVE  \A n \in 0..N : n \in T
<1> DEFINE U == {n \in Nat : N - n \in T}
<1>1. 0 \in U
  OBVIOUS
<1>2. ASSUME NEW n \in 0..N - 1, n \in U PROVE n + 1 \in U
  <2>1. N - (n + 1) \in 0..N - 1 /\ N - (n + 1) + 1 = N - n
    OBVIOUS
  <2> QED BY <1>2, <2>1
<1> HIDE DEF U
<1>3. \A n \in 0..N : n \in U
  BY <1>1, <1>2, UpTo
<1>4. ASSUME NEW n \in 0..N PROVE n \in T
  <2>1. N - n \in U /\ N - (N - n) = n
    BY <1>3
  <2> QED BY <2>1 DEF U
<1> QED BY <1>4

\* FlattenSeq joins the sequences from the first one on.
LEMMA Flattens ==
  ASSUME NEW ss, NEW N \in Nat \ {0}, Len(ss) = N
  PROVE  \E f : /\ f = [i \in 1..N |-> IF i = 1 THEN ss[i] ELSE f[i - 1] \o ss[i]]
                /\ Codec!FlattenSeq(ss) = f[N]
<1> DEFINE F(g, n) == [i \in 1..n |-> IF i = 1 THEN ss[i] ELSE g[i - 1] \o ss[i]]
           T == {n \in Nat : \E g : g = F(g, n)}
<1>1. 0 \in T
  <2>1. F(<< >>, 0) = << >>
    OBVIOUS
  <2> QED BY <2>1
<1>2. ASSUME NEW n \in T PROVE n + 1 \in T
  <2>1. PICK g : g = F(g, n)
    OBVIOUS
  <2> DEFINE h == [i \in 1..n + 1 |-> IF i = n + 1
                                       THEN IF i = 1 THEN ss[i] ELSE g[i - 1] \o ss[i]
                                       ELSE g[i]]
  <2>2. \A i \in 1..n : h[i] = g[i]
    OBVIOUS
  <2>3. \A i \in 1..n + 1 : h[i] = F(h, n + 1)[i]
    <3>1. SUFFICES ASSUME NEW i \in 1..n + 1 PROVE h[i] = F(h, n + 1)[i]
      OBVIOUS
    <3>2. CASE i = 1
      BY <2>1, <3>2
    <3>3. CASE i # 1
      <4>1. i - 1 \in 1..n /\ h[i - 1] = g[i - 1]
        BY <3>3
      <4>2. F(h, n + 1)[i] = g[i - 1] \o ss[i]
        BY <3>3, <4>1
      <4>3. CASE i = n + 1
        BY <3>3, <4>2, <4>3
      <4>4. CASE i # n + 1
        <5>1. i \in 1..n
          BY <4>4
        <5>2. F(g, n)[i] = g[i - 1] \o ss[i]
          BY <3>3, <5>1
        <5>3. h[i] = g[i]
          BY <5>1
        <5> HIDE DEF F, h
        <5> QED BY <2>1, <4>2, <5>2, <5>3
      <4> QED BY <4>3, <4>4
    <3> QED BY <3>2, <3>3
  <2>4. h = F(h, n + 1)
    <3>1. h = [i \in 1..n + 1 |-> h[i]]
      OBVIOUS
    <3>2. F(h, n + 1) = [i \in 1..n + 1 |-> F(h, n + 1)[i]]
      OBVIOUS
    <3> HIDE DEF h, F
    <3> QED BY <2>3, <3>1, <3>2
  <2> HIDE DEF F, h
  <2> QED BY <2>4
<1>3. T = Nat
  <2> HIDE DEF T
  <2>1. T \in SUBSET Nat
    BY DEF T
  <2> QED BY <1>1, <1>2, <2>1, SetInduction
<1>4. PICK g : g = F(g, N)
  BY <1>3
<1> DEFINE C == CHOOSE f : f = F(f, N)
<1>5. C = F(C, N)
  BY <1>4
<1>6. Codec!FlattenSeq(ss) = C[N]
  BY DEF Codec!FlattenSeq
<1> QED BY <1>5, <1>6

-----------------------------------------------------------------------------
(* Escaping.                                                               *)

\* What the escapes are, and the byte an escape stands for.
LEMMA Codes ==
  ASSUME NEW c \in Codec!Chars
  PROVE  /\ Codec!Code(c) \in Seq(Codec!Chars)
         /\ c \notin Codec!Special => Codec!Code(c) = <<c>>
         /\ c \in Codec!Special => \E h, l \in Codec!HexDigits : Codec!Code(c) = <<"%", h, l>>
               /\ Codec!Byte(h, l) = c
<1>1. CASE c \notin Codec!Special
  <2>1. Codec!Code(c) = <<c>>
    BY <1>1 DEF Codec!Code, Codec!Special
  <2> QED BY <1>1, <2>1
<1>2. ASSUME c \in Codec!Special PROVE \E h, l \in Codec!HexDigits : Codec!Code(c) = <<"%", h, l>>
  BY <1>2 DEF Codec!Code, Codec!Special, Codec!HexDigits
<1>3. ASSUME c \in Codec!Special, NEW d \in Codec!Special, Codec!Code(c) = Codec!Code(d) PROVE c = d
  BY <1>3 DEF Codec!Code, Codec!Special
<1>4. CASE c \in Codec!Special
  <2>1. PICK h, l \in Codec!HexDigits : Codec!Code(c) = <<"%", h, l>>
    BY <1>2, <1>4
  <2>2. Codec!Byte(h, l) = c
    BY <1>3, <1>4, <2>1 DEF Codec!Byte
  <2>3. h \in Codec!Chars /\ l \in Codec!Chars /\ "%" \in Codec!Chars
    BY DEF Codec!Chars, Codec!Special
  <2> QED BY <1>4, <2>1, <2>2, <2>3
<1> QED BY <1>1, <1>4

LEMMA ByteTypes == \A h, l : Codec!Byte(h, l) \in Codec!Chars
  BY DEF Codec!Byte, Codec!Chars

LEMMA EscapeEmpty == Codec!EscapeParameters(<< >>) = << >>
<1>1. [n \in DOMAIN << >> |-> Codec!Code(<< >>[n])] = << >>
  OBVIOUS
<1> QED BY <1>1 DEF Codec!EscapeParameters, Codec!FlattenSeq

\* The text grows by one character, the escaped text by its escape.
LEMMA EscapeAppend ==
  ASSUME NEW t \in Seq(Codec!Chars), NEW c \in Codec!Chars
  PROVE  Codec!EscapeParameters(Append(t, c)) = Codec!EscapeParameters(t) \o Codec!Code(c)
<1> DEFINE L == Len(t)
           a == Append(t, c)
           ss == [n \in DOMAIN t |-> Codec!Code(t[n])]
           as == [n \in DOMAIN a |-> Codec!Code(a[n])]
<1>1. /\ L \in Nat /\ DOMAIN t = 1..L /\ DOMAIN a = 1..L + 1
      /\ \A i \in 1..L : a[i] = t[i]
      /\ a[L + 1] = c
  OBVIOUS
<1>2. /\ Len(ss) = L /\ Len(as) = L + 1
      /\ \A i \in 1..L : ss[i] = Codec!Code(t[i]) /\ as[i] = ss[i]
      /\ as[L + 1] = Codec!Code(c)
  BY <1>1
<1>3. Codec!EscapeParameters(t) = Codec!FlattenSeq(ss) /\ Codec!EscapeParameters(a)
         = Codec!FlattenSeq(as)
  BY DEF Codec!EscapeParameters
<1> HIDE DEF L, a, ss, as
<1>4. PICK g : /\ g = [i \in 1..L + 1 |-> IF i = 1 THEN as[i] ELSE g[i - 1] \o as[i]]
               /\ Codec!FlattenSeq(as) = g[L + 1]
  <2>1. L + 1 \in Nat \ {0}
    BY <1>1
  <2> QED BY <1>2, <2>1, Flattens
<1>5. CASE L = 0
  <2>1. g[1] = as[1]
    BY <1>4, <1>5
  <2>2. t = << >>
    BY <1>5 DEF L
  <2>3. Codec!EscapeParameters(t) = << >>
    BY <2>2, EscapeEmpty
  <2>4. << >> \o Codec!Code(c) = Codec!Code(c)
    BY Codes
  <2>5. L + 1 = 1 /\ as[1] = Codec!Code(c)
    <3>1. L + 1 = 1
      BY <1>5
    <3> QED BY <1>2, <3>1
  <2>6. Codec!FlattenSeq(as) = Codec!Code(c)
    BY <1>4, <2>1, <2>5
  <2> QED BY <1>3, <2>3, <2>4, <2>6 DEF a
<1>6. CASE L # 0
  <2>1. PICK f : /\ f = [i \in 1..L |-> IF i = 1 THEN ss[i] ELSE f[i - 1] \o ss[i]]
                 /\ Codec!FlattenSeq(ss) = f[L]
    <3>1. L \in Nat \ {0}
      BY <1>1, <1>6
    <3> QED BY <1>2, <3>1, Flattens
  <2>2. \A i \in 0..L : i \in {j \in 0..L : j # 0 => g[j] = f[j]}
    <3> DEFINE T == {j \in 0..L : j # 0 => g[j] = f[j]}
    <3>1. 0 \in T
      BY <1>1
    <3>2. ASSUME NEW n \in 0..L - 1, n \in T PROVE n + 1 \in T
      <4>1. n + 1 \in 1..L /\ n + 1 \in 1..L + 1 /\ n + 1 \in 0..L /\ (n + 1) - 1 = n
        BY <1>1
      <4>2. g[n + 1] = IF n + 1 = 1 THEN as[n + 1] ELSE g[n] \o as[n + 1]
        BY <1>4, <4>1
      <4>3. f[n + 1] = IF n + 1 = 1 THEN ss[n + 1] ELSE f[n] \o ss[n + 1]
        BY <2>1, <4>1
      <4>4. as[n + 1] = ss[n + 1]
        BY <1>2, <4>1
      <4>5. n + 1 # 1 => g[n] = f[n]
        BY <3>2
      <4> QED BY <4>1, <4>2, <4>3, <4>4, <4>5
    <3> HIDE DEF T
    <3>3. \A n \in 0..L : n \in T
      BY <1>1, <3>1, <3>2, UpTo
    <3> QED BY <3>3 DEF T
  <2>3. g[L] = f[L]
    BY <1>1, <1>6, <2>2
  <2>4. g[L + 1] = g[L] \o as[L + 1]
    <3>1. L + 1 \in 1..L + 1 /\ L + 1 # 1 /\ (L + 1) - 1 = L
      BY <1>1, <1>6
    <3> QED BY <1>4, <3>1
  <2> QED BY <1>2, <1>3, <1>4, <2>1, <2>3, <2>4 DEF a
<1> QED BY <1>5, <1>6

\* The first i characters of t, escaped, and how many characters that is.
Coded(t, i) == Codec!EscapeParameters(SubSeq(t, 1, i))
Off(t, i) == Len(Coded(t, i))

\* Coded, character by character.
LEMMA CodedSteps ==
  ASSUME NEW t \in Seq(Codec!Chars)
  PROVE  /\ Coded(t, 0) = << >>
         /\ Coded(t, Len(t)) = Codec!EscapeParameters(t)
         /\ \A i \in 0..Len(t) - 1 : Coded(t, i + 1) = Coded(t, i) \o Codec!Code(t[i + 1])
         /\ \A i \in 0..Len(t) : Coded(t, i) \in Seq(Codec!Chars)
<1>1. Coded(t, 0) = << >> /\ Coded(t, Len(t)) = Codec!EscapeParameters(t)
  <2>1. SubSeq(t, 1, 0) = << >> /\ SubSeq(t, 1, Len(t)) = t
    OBVIOUS
  <2> QED BY <2>1, EscapeEmpty DEF Coded
<1>2. ASSUME NEW i \in 0..Len(t) - 1 PROVE Coded(t, i + 1) = Coded(t, i) \o Codec!Code(t[i + 1])
  <2>1. SubSeq(t, 1, i) \in Seq(Codec!Chars) /\ t[i + 1] \in Codec!Chars
    OBVIOUS
  <2>2. SubSeq(t, 1, i + 1) = Append(SubSeq(t, 1, i), t[i + 1])
    OBVIOUS
  <2> QED BY <2>1, <2>2, EscapeAppend DEF Coded
<1>3. \A i \in 0..Len(t) : Coded(t, i) \in Seq(Codec!Chars)
  <2> DEFINE T == {i \in Nat : Coded(t, i) \in Seq(Codec!Chars)}
  <2>1. 0 \in T
    <3>1. << >> \in Seq(Codec!Chars)
      OBVIOUS
    <3> QED BY <1>1, <3>1
  <2>2. ASSUME NEW n \in 0..Len(t) - 1, n \in T PROVE n + 1 \in T
    <3>1. t[n + 1] \in Codec!Chars
      OBVIOUS
    <3>2. Coded(t, n) \o Codec!Code(t[n + 1]) \in Seq(Codec!Chars)
      BY <2>2, <3>1, Codes
    <3>3. n + 1 \in Nat
      OBVIOUS
    <3> QED BY <1>2, <3>2, <3>3
  <2>3. Len(t) \in Nat
    OBVIOUS
  <2> HIDE DEF T
  <2>4. \A i \in 0..Len(t) : i \in T
    BY <2>1, <2>2, <2>3, UpTo
  <2> QED BY <2>4 DEF T
<1> QED BY <1>1, <1>2, <1>3

LEMMA EscapeTypes ==
  ASSUME NEW t \in Seq(Codec!Chars)
  PROVE  Codec!EscapeParameters(t) \in Seq(Codec!Chars)
<1>1. Len(t) \in 0..Len(t)
  OBVIOUS
<1> QED BY <1>1, CodedSteps

\* How far the escapes of the characters reach.
LEMMA Offsets ==
  ASSUME NEW t \in Seq(Codec!Chars)
  PROVE  /\ Off(t, 0) = 0
         /\ Off(t, Len(t)) = Len(Codec!EscapeParameters(t))
         /\ \A i \in 0..Len(t) : Off(t, i) \in Nat
         /\ \A i \in 0..Len(t) - 1 :
               Off(t, i + 1) = Off(t, i) + (IF t[i + 1] \in Codec!Special THEN 3 ELSE 1)
<1>1. ASSUME NEW i \in 0..Len(t) - 1
      PROVE  Off(t, i + 1) = Off(t, i) + (IF t[i + 1] \in Codec!Special THEN 3 ELSE 1)
  <2>1. t[i + 1] \in Codec!Chars /\ i \in 0..Len(t)
    OBVIOUS
  <2>2. Codec!Code(t[i + 1]) \in Seq(Codec!Chars) /\ Len(Codec!Code(t[i + 1]))
           = IF t[i + 1] \in Codec!Special THEN 3 ELSE 1
    <3>1. CASE t[i + 1] \notin Codec!Special
      BY <2>1, <3>1, Codes
    <3>2. CASE t[i + 1] \in Codec!Special
      BY <2>1, <3>2, Codes
    <3> QED BY <3>1, <3>2
  <2>3. Len(Coded(t, i) \o Codec!Code(t[i + 1])) = Len(Coded(t, i)) + Len(Codec!Code(t[i + 1]))
    BY <2>1, <2>2, CodedSteps
  <2> QED BY <2>2, <2>3, CodedSteps DEF Off
<1>2. Off(t, 0) = 0 /\ Off(t, Len(t)) = Len(Codec!EscapeParameters(t))
  BY CodedSteps DEF Off
<1>3. \A i \in 0..Len(t) : Off(t, i) \in Nat
  BY CodedSteps DEF Off
<1> QED BY <1>1, <1>2, <1>3

\* An escape is one character at least.
LEMMA Grows ==
  ASSUME NEW t \in Seq(Codec!Chars), NEW i \in 0..Len(t), NEW j \in i..Len(t)
  PROVE  Off(t, i) + (j - i) <= Off(t, j)
<1> DEFINE T == {n \in Nat : Off(t, i) + n <= Off(t, i + n)}
<1>1. 0 \in T
  BY Offsets
<1>2. ASSUME NEW n \in 0..(Len(t) - i) - 1, n \in T PROVE n + 1 \in T
  <2>1. i + n \in 0..Len(t) - 1 /\ i + n \in 0..Len(t) /\ i + (n + 1) = (i + n) + 1
    OBVIOUS
  <2>2. Off(t, (i + n) + 1) = Off(t, i + n) + (IF t[(i + n) + 1] \in Codec!Special THEN 3 ELSE 1)
    BY <2>1, Offsets
  <2>3. Off(t, i + n) \in Nat /\ Off(t, i) \in Nat
    BY <2>1, Offsets
  <2> QED BY <1>2, <2>1, <2>2, <2>3
<1>3. Len(t) - i \in Nat
  OBVIOUS
<1> HIDE DEF T
<1>4. \A n \in 0..Len(t) - i : n \in T
  BY <1>1, <1>2, <1>3, UpTo
<1>5. j - i \in 0..Len(t) - i /\ i + (j - i) = j
  OBVIOUS
<1> QED BY <1>4, <1>5 DEF T

\* Where the escape of a character stands.
LEMMA CodedAt ==
  ASSUME NEW t \in Seq(Codec!Chars), NEW i \in 0..Len(t) - 1, NEW j \in i + 1..Len(t),
         NEW x \in 1..Len(Codec!Code(t[i + 1]))
  PROVE  Coded(t, j)[Off(t, i) + x] = Codec!Code(t[i + 1])[x]
<1> DEFINE T == {n \in Nat : Coded(t, i + 1 + n)[Off(t, i) + x] = Codec!Code(t[i + 1])[x]}
<1>0. /\ i \in 0..Len(t) /\ t[i + 1] \in Codec!Chars /\ Off(t, i) \in Nat
      /\ Codec!Code(t[i + 1]) \in Seq(Codec!Chars) /\ Coded(t, i) \in Seq(Codec!Chars)
      /\ Len(Coded(t, i)) = Off(t, i)
  <2>1. i \in 0..Len(t) /\ t[i + 1] \in Codec!Chars
    OBVIOUS
  <2> QED BY <2>1, Offsets, CodedSteps, Codes DEF Off
<1>1. 0 \in T
  <2>1. Coded(t, i + 1 + 0) = Coded(t, i) \o Codec!Code(t[i + 1])
    BY CodedSteps
  <2>2. (Coded(t, i) \o Codec!Code(t[i + 1]))[Off(t, i) + x] = Codec!Code(t[i + 1])[x]
    BY <1>0
  <2> QED BY <2>1, <2>2
<1>2. ASSUME NEW n \in 0..(Len(t) - i - 1) - 1, n \in T PROVE n + 1 \in T
  <2>1. /\ i + 1 + n \in 0..Len(t) - 1 /\ i + 1 + n \in 0..Len(t)
        /\ i + 1 + (n + 1) = (i + 1 + n) + 1 /\ i + 1 \in 0..Len(t)
    OBVIOUS
  <2>2. Coded(t, (i + 1 + n) + 1) = Coded(t, i + 1 + n) \o Codec!Code(t[(i + 1 + n) + 1])
    BY <2>1, CodedSteps
  <2>3. Off(t, i) + x <= Off(t, i + 1)
    <3>1. Len(Coded(t, i) \o Codec!Code(t[i + 1])) = Off(t, i) + Len(Codec!Code(t[i + 1]))
      <4> DEFINE a == Coded(t, i)
                 b == Codec!Code(t[i + 1])
      <4>1. a \in Seq(Codec!Chars) /\ b \in Seq(Codec!Chars) /\ Len(a) = Off(t, i)
        BY <1>0
      <4> HIDE DEF a, b
      <4>2. \A u, v \in Seq(Codec!Chars) : Len(u \o v) = Len(u) + Len(v)
        OBVIOUS
      <4>3. Len(a \o b) = Len(a) + Len(b)
        BY <4>1, <4>2
      <4> QED BY <4>1, <4>3 DEF a, b
    <3>2. Coded(t, i + 1) = Coded(t, i) \o Codec!Code(t[i + 1])
      BY CodedSteps
    <3> QED BY <1>0, <3>1, <3>2 DEF Off
  <2>4. Off(t, i + 1) <= Off(t, i + 1 + n) /\ Off(t, i + 1) \in Nat /\ Off(t, i + 1 + n) \in Nat
    <3>1. i + 1 + n \in i + 1..Len(t)
      BY <2>1
    <3>2. Off(t, i + 1) + ((i + 1 + n) - (i + 1)) <= Off(t, i + 1 + n)
      BY <2>1, <3>1, Grows
    <3> QED BY <2>1, <3>2, Offsets
  <2>5. Off(t, i) + x \in 1..Len(Coded(t, i + 1 + n))
    BY <1>0, <2>3, <2>4 DEF Off
  <2>6. /\ Coded(t, i + 1 + n) \in Seq(Codec!Chars)
        /\ Codec!Code(t[(i + 1 + n) + 1]) \in Seq(Codec!Chars)
    <3>1. t[(i + 1 + n) + 1] \in Codec!Chars
      BY <2>1
    <3> QED BY <2>1, <3>1, CodedSteps, Codes
  <2>7. (Coded(t, i + 1 + n) \o Codec!Code(t[(i + 1 + n) + 1]))[Off(t, i) + x] = Coded(t,
           i + 1 + n)[Off(t, i) + x]
    BY <2>5, <2>6
  <2>8. Coded(t, i + 1 + (n + 1))[Off(t, i) + x] = Coded(t, i + 1 + n)[Off(t, i) + x]
    BY <2>1, <2>2, <2>7
  <2>9. n + 1 \in Nat
    OBVIOUS
  <2> QED BY <1>2, <2>8, <2>9
<1>3. Len(t) - i - 1 \in Nat
  OBVIOUS
<1> HIDE DEF T
<1>4. \A n \in 0..Len(t) - i - 1 : n \in T
  BY <1>1, <1>2, <1>3, UpTo
<1>5. j - (i + 1) \in 0..Len(t) - i - 1 /\ i + 1 + (j - (i + 1)) = j
  OBVIOUS
<1>6. j - (i + 1) \in T
  BY <1>4, <1>5
<1> QED BY <1>5, <1>6 DEF T

\* Every place in the escaped text is at the escape of a character or at the end.
LEMMA Between ==
  ASSUME NEW t \in Seq(Codec!Chars), NEW q \in 0..Len(Codec!EscapeParameters(t))
  PROVE  \/ q = Off(t, Len(t))
         \/ \E i \in 0..Len(t) - 1 : Off(t, i) <= q /\ q < Off(t, i + 1)
<1> DEFINE T == {n \in Nat : q < Off(t, n) => \E i \in 0..n - 1 : Off(t, i) <= q
         /\ q < Off(t, i + 1)}
<1>1. 0 \in T
  BY Offsets
<1>2. ASSUME NEW n \in 0..Len(t) - 1, n \in T PROVE n + 1 \in T
  <2>1. CASE q < Off(t, n)
    BY <1>2, <2>1
  <2>2. CASE ~(q < Off(t, n))
    <3>1. Off(t, n) <= q
      <4>1. n \in 0..Len(t) /\ q \in Nat
        BY EscapeTypes
      <4>2. Off(t, n) \in Nat
        BY <4>1, Offsets
      <4> QED BY <2>2, <4>1, <4>2
    <3> QED BY <3>1
  <2> QED BY <2>1, <2>2
<1>3. Len(t) \in Nat
  OBVIOUS
<1> HIDE DEF T
<1>4. Len(t) \in T
  <2>1. \A n \in 0..Len(t) : n \in T
    BY <1>1, <1>2, <1>3, UpTo
  <2> QED BY <1>3, <2>1
<1>5. q <= Off(t, Len(t)) /\ q \in Nat /\ Off(t, Len(t)) \in Nat
  BY <1>3, EscapeTypes, Offsets
<1> QED BY <1>4, <1>5 DEF T

-----------------------------------------------------------------------------
(* Unescaping.                                                             *)

\* What unescaping makes of s from character n on, when g says that of all behind it.
From(s, g, n) ==
  IF n > Len(s) THEN [ok |-> TRUE, text |-> << >>]
  ELSE IF s[n] # "%" THEN Codec!Before(s[n], g[n + 1])
  ELSE IF n + 2 <= Len(s) /\ {s[n + 1], s[n + 2]} \subseteq Codec!HexDigits
       THEN Codec!Before(Codec!Byte(s[n + 1], s[n + 2]), g[n + 3])
  ELSE Codec!Malformed

\* UnescapeParameters, by that.
LEMMA Unescapes ==
  ASSUME NEW s \in Seq(Codec!Chars)
  PROVE  \E g : /\ \A n \in 1..Len(s) + 1 : g[n] = From(s, g, n)
                /\ Codec!UnescapeParameters(s) = IF g[1].ok THEN g[1] ELSE Codec!Malformed
<1> DEFINE L == Len(s)
           D == 1..L + 1
           F(g) == [n \in D |-> From(s, g, n)]
           T == {d \in Nat : \E g : g = [n \in D |-> g[n]] /\ \A n \in D : n > L + 1 - d
                 => g[n] = From(s, g, n)}
<1>0. L \in Nat
  OBVIOUS
<1>1. 0 \in T
  <2> DEFINE g == [n \in D |-> 0]
  <2>1. g = [n \in D |-> g[n]]
    OBVIOUS
  <2>2. \A n \in D : ~(n > L + 1 - 0)
    BY <1>0
  <2> HIDE DEF g
  <2> QED BY <2>1, <2>2
<1>2. ASSUME NEW d \in 0..(L + 1) - 1, d \in T PROVE d + 1 \in T
  <2>1. PICK g : g = [n \in D |-> g[n]] /\ \A n \in D : n > L + 1 - d => g[n] = From(s, g, n)
    BY <1>2
  <2> DEFINE m == L + 1 - d
             h == [n \in D |-> IF n = m THEN From(s, g, n) ELSE g[n]]
  <2>2. m \in D
    BY <1>0
  <2>3. \A n \in D : n >= m => From(s, h, n) = From(s, g, n)
    <3>1. SUFFICES ASSUME NEW n \in D, n >= m PROVE From(s, h, n) = From(s, g, n)
      OBVIOUS
    <3>2. n <= L => n + 1 \in D /\ n + 1 # m
      BY <1>0, <2>2, <3>1
    <3>3. n <= L => h[n + 1] = g[n + 1]
      BY <3>2
    <3>4. n + 2 <= L => n + 3 \in D /\ n + 3 # m
      BY <1>0, <2>2, <3>1
    <3>5. n + 2 <= L => h[n + 3] = g[n + 3]
      BY <3>4
    <3>6. n > L \/ n <= L
      BY <1>0
    <3> HIDE DEF h, m
    <3> QED BY <3>3, <3>5, <3>6 DEF From
  <2>4. h = [n \in D |-> h[n]]
    OBVIOUS
  <2>5. ASSUME NEW n \in D, n > L + 1 - (d + 1) PROVE h[n] = From(s, h, n)
    <3>1. n >= m
      BY <1>0, <2>5
    <3>2. CASE n = m
      BY <2>3, <3>1, <3>2
    <3>3. CASE n # m
      <4>1. n > L + 1 - d
        BY <1>0, <3>1, <3>3
      <4>2. h[n] = g[n]
        BY <3>3
      <4> HIDE DEF h
      <4> QED BY <2>1, <2>3, <3>1, <4>1, <4>2
    <3> QED BY <3>2, <3>3
  <2>6. d + 1 \in Nat
    OBVIOUS
  <2> HIDE DEF h
  <2> QED BY <2>4, <2>5, <2>6
<1>3. \A d \in 0..L + 1 : d \in T
  <2>1. L + 1 \in Nat
    BY <1>0
  <2> HIDE DEF T, L
  <2> QED BY <1>1, <1>2, <2>1, UpTo
<1>4. PICK g : g = [n \in D |-> g[n]] /\ \A n \in D : n > L + 1 - (L + 1) => g[n] = From(s, g, n)
  <2>1. L + 1 \in T
    <3>1. L + 1 \in 0..L + 1
      BY <1>0
    <3> HIDE DEF T
    <3> QED BY <1>3, <3>1
  <2> QED BY <2>1
<1>5. g = F(g)
  <2>1. \A n \in D : g[n] = From(s, g, n)
    BY <1>0, <1>4
  <2> QED BY <1>4, <2>1
<1> DEFINE C == CHOOSE f : f = F(f)
<1>6. C = F(C)
  <2> HIDE DEF F
  <2> QED BY <1>5
<1>7. Codec!UnescapeParameters(s) = IF C[1].ok THEN C[1] ELSE Codec!Malformed
  BY DEF Codec!UnescapeParameters, From
<1>8. \A n \in D : C[n] = From(s, C, n)
  <2> HIDE DEF C
  <2> QED BY <1>6
<1> QED BY <1>7, <1>8

Results == [ok : BOOLEAN, text : Seq(Codec!Chars)]

LEMMA Replaced ==
  ASSUME NEW x, NEW y
  PROVE  [[ok |-> TRUE, text |-> x] EXCEPT !.text = y] = [ok |-> TRUE, text |-> y]
<1> DEFINE p == [ok |-> TRUE, text |-> y]
           q == [[ok |-> TRUE, text |-> x] EXCEPT !.text = y]
<1>1. DOMAIN p = {"ok", "text"} /\ DOMAIN q = {"ok", "text"}
  OBVIOUS
<1>2. p.ok = q.ok /\ p.text = q.text
  OBVIOUS
<1>3. p = [f \in {"ok", "text"} |-> p[f]] /\ q = [f \in {"ok", "text"} |-> q[f]]
  BY <1>1
<1>4. p = q
  <2> HIDE DEF p, q
  <2> QED BY <1>2, <1>3
<1> QED BY <1>4

\* One character more, in front.
LEMMA Befores ==
  ASSUME NEW c \in Codec!Chars
  PROVE  /\ \A r \in Results : Codec!Before(c, r) \in Results /\ Codec!Before(c, r).ok = r.ok
         /\ \A x \in Seq(Codec!Chars) :
               Codec!Before(c, [ok |-> TRUE, text |-> x]) = [ok |-> TRUE, text |-> <<c>> \o x]
<1>1. ASSUME NEW r \in Results PROVE Codec!Before(c, r) \in Results /\ Codec!Before(c, r).ok = r.ok
  <2>1. <<c>> \o r.text \in Seq(Codec!Chars)
    BY DEF Results
  <2> QED BY <2>1 DEF Codec!Before, Results
<1>2. ASSUME NEW x \in Seq(Codec!Chars)
      PROVE  Codec!Before(c, [ok |-> TRUE, text |-> x]) = [ok |-> TRUE, text |-> <<c>> \o x]
  <2>1. \A y : [[ok |-> TRUE, text |-> x] EXCEPT !.text = y] = [ok |-> TRUE, text |-> y]
    BY Replaced
  <2>2. [[ok |-> TRUE, text |-> x] EXCEPT !.text = <<c>> \o x] = [ok |-> TRUE, text |-> <<c>> \o x]
    BY <2>1
  <2>3. [ok |-> TRUE, text |-> x].text = x
    OBVIOUS
  <2> QED BY <2>2, <2>3 DEF Codec!Before
<1> QED BY <1>1, <1>2

\* It is a text, or refused.
LEMMA UnescapeTypes ==
  ASSUME NEW s \in Seq(Codec!Chars)
  PROVE  Codec!UnescapeParameters(s) \in Results
<1> DEFINE R == Results
           L == Len(s)
<1>0. L \in Nat /\ \A n \in 1..L : s[n] \in Codec!Chars
  OBVIOUS
<1>1. PICK g : /\ \A n \in 1..Len(s) + 1 : g[n] = From(s, g, n)
               /\ Codec!UnescapeParameters(s) = IF g[1].ok THEN g[1] ELSE Codec!Malformed
  BY Unescapes
<1>2. ASSUME NEW c \in Codec!Chars, NEW r \in R PROVE Codec!Before(c, r) \in R
  BY Befores
<1>3. Codec!Malformed \in R
  BY DEF Codec!Malformed, Results
<1> HIDE DEF R
<1> DEFINE T == {d \in Nat : \A n \in 1..L + 1 : n > L + 1 - d => g[n] \in R}
<1>4. 0 \in T
  BY <1>0
<1>5. ASSUME NEW d \in 0..(L + 1) - 1, d \in T PROVE d + 1 \in T
  <2>1. SUFFICES ASSUME NEW n \in 1..L + 1, n > L + 1 - (d + 1) PROVE g[n] \in R
    OBVIOUS
  <2>2. \A k \in 1..L + 1 : k > n => g[k] \in R
    BY <1>0, <1>5, <2>1
  <2>3. CASE n > L
    <3>1. g[n] = [ok |-> TRUE, text |-> << >>]
      BY <1>1, <2>3 DEF From
    <3> QED BY <3>1 DEF R, Results
  <2>4. CASE n <= L /\ s[n] # "%"
    <3>1. g[n] = Codec!Before(s[n], g[n + 1]) /\ n + 1 \in 1..L + 1
      BY <1>0, <1>1, <2>4 DEF From
    <3> QED BY <1>0, <1>2, <2>2, <2>4, <3>1
  <2>5. CASE n <= L /\ s[n] = "%"
    <3>1. \/ g[n] = Codec!Malformed
          \/ n + 2 <= L /\ g[n] = Codec!Before(Codec!Byte(s[n + 1], s[n + 2]), g[n + 3])
      BY <1>0, <1>1, <2>5 DEF From
    <3>2. n + 2 <= L => n + 3 \in 1..L + 1
      BY <1>0
    <3> QED BY <1>0, <1>2, <1>3, <2>2, <3>1, <3>2, ByteTypes
  <2> QED BY <1>0, <2>3, <2>4, <2>5
<1>6. L + 1 \in T
  <2>1. L + 1 \in Nat /\ L + 1 \in 0..L + 1
    BY <1>0
  <2> HIDE DEF T, L
  <2>2. \A d \in 0..L + 1 : d \in T
    BY <1>4, <1>5, <2>1, UpTo
  <2> QED BY <2>1, <2>2
<1>7. g[1] \in R
  BY <1>0, <1>6
<1> QED BY <1>1, <1>3, <1>7 DEF R

\* A text without percent signs is left as it is.
LEMMA UnescapePlain ==
  ASSUME NEW s \in Seq(Codec!Chars), "%" \notin Codec!ToSet(s)
  PROVE  Codec!UnescapeParameters(s) = [ok |-> TRUE, text |-> s]
<1> DEFINE L == Len(s)
           V(n) == [ok |-> TRUE, text |-> SubSeq(s, n, L)]
<1>0. L \in Nat /\ \A n \in 1..L : s[n] # "%"
  BY DEF Codec!ToSet
<1>1. PICK g : /\ \A n \in 1..Len(s) + 1 : g[n] = From(s, g, n)
               /\ Codec!UnescapeParameters(s) = IF g[1].ok THEN g[1] ELSE Codec!Malformed
  BY Unescapes
<1> DEFINE T == {n \in Nat : g[n + 1] = V(n + 1)}
<1>2. L \in T
  <2>1. SubSeq(s, L + 1, L) = << >>
    OBVIOUS
  <2>2. g[L + 1] = [ok |-> TRUE, text |-> << >>]
    BY <1>0, <1>1 DEF From
  <2> QED BY <1>0, <2>1, <2>2
<1>3. ASSUME NEW n \in 0..L - 1, n + 1 \in T PROVE n \in T
  <2>1. n + 1 \in 1..L /\ n + 1 \in 1..L + 1 /\ ~(n + 1 > L) /\ n \in Nat
    BY <1>0
  <2>2. g[n + 1] = Codec!Before(s[n + 1], g[(n + 1) + 1])
    BY <1>0, <1>1, <2>1 DEF From
  <2>3. <<s[n + 1]>> \o SubSeq(s, (n + 1) + 1, L) = SubSeq(s, n + 1, L)
    BY <2>1
  <2>4. g[(n + 1) + 1] = V((n + 1) + 1) /\ s[n + 1] \in Codec!Chars
    BY <1>3, <2>1
  <2>5. g[n + 1] = V(n + 1)
    <3>1. SubSeq(s, (n + 1) + 1, L) \in Seq(Codec!Chars)
      BY <2>1
    <3> QED BY <2>2, <2>3, <2>4, <3>1, Befores
  <2> QED BY <2>1, <2>5
<1>4. 0 \in T
  <2>1. 0 \in 0..L
    BY <1>0
  <2> HIDE DEF T, L
  <2>2. \A n \in 0..L : n \in T
    BY <1>0, <1>2, <1>3, DownFrom
  <2> QED BY <2>1, <2>2
<1>5. g[1] = V(1)
  BY <1>4
<1>6. SubSeq(s, 1, L) = s
  OBVIOUS
<1>7. g[1] = [ok |-> TRUE, text |-> s]
  BY <1>5, <1>6
<1>8. g[1].ok
  BY <1>7
<1> QED BY <1>1, <1>7, <1>8

\* A piece of an escaped text that begins at the escape of a character: it is
\* unescaped to the characters whose escapes it holds, and refused when it ends
\* in the middle of one.
LEMMA UnescapePiece ==
  ASSUME NEW t \in Seq(Codec!Chars), NEW k \in 0..Len(t), NEW m \in k..Len(t),
         NEW v \in Nat, v <= Len(Codec!EscapeParameters(t)),
         Off(t, m) <= v, m < Len(t) => v < Off(t, m + 1)
  PROVE  LET r == Codec!UnescapeParameters(SubSeq(Codec!EscapeParameters(t), Off(t, k) + 1, v)) IN
         /\ v = Off(t, m) => r = [ok |-> TRUE, text |-> SubSeq(t, k + 1, m)]
         /\ v # Off(t, m) => ~r.ok
<1> DEFINE E == Codec!EscapeParameters(t)
           u == Off(t, k)
           s == SubSeq(E, u + 1, v)
           V(i) == [ok |-> TRUE, text |-> SubSeq(t, i + 1, m)]
           Right(r, i) == (v = Off(t, m) => r = V(i)) /\ (v # Off(t, m) => r \in Results /\ ~r.ok)
<1>0. /\ E \in Seq(Codec!Chars) /\ Len(t) \in Nat /\ k \in 0..Len(t) /\ m \in 0..Len(t)
      /\ u \in Nat /\ u <= v /\ Off(t, m) \in Nat
  <2>1. Off(t, k) + (m - k) <= Off(t, m) /\ k \in 0..Len(t) /\ m \in 0..Len(t)
    BY Grows
  <2> QED BY <2>1, Offsets, EscapeTypes
<1>1. s \in Seq(Codec!Chars) /\ Len(s) = v - u /\ \A n \in 1..v - u : s[n] = E[u + n]
  BY <1>0
<1>2. PICK g : /\ \A n \in 1..Len(s) + 1 : g[n] = From(s, g, n)
               /\ Codec!UnescapeParameters(s) = IF g[1].ok THEN g[1] ELSE Codec!Malformed
  BY <1>1, Unescapes
<1> HIDE DEF s
\* Character i + 1 of the text, which lies in the piece at least with its beginning.
<1>3. ASSUME NEW i \in k..m, i < Len(t)
      PROVE  LET n == Off(t, i) - u + 1 IN
             /\ n \in 1..Len(s) + 1 /\ n \in Nat /\ Off(t, i) \in Nat
             /\ \A x \in 1..Len(Codec!Code(t[i + 1])) : n - 1 + x <= Len(s)
                   => s[n - 1 + x] = Codec!Code(t[i + 1])[x]
  <2>1. i \in 0..Len(t) - 1 /\ i \in 0..Len(t) /\ m \in i..Len(t) /\ i \in k..Len(t)
    BY <1>3
  <2>2. Off(t, i) + (m - i) <= Off(t, m) /\ Off(t, k) + (i - k) <= Off(t, i) /\ Off(t, i) \in Nat
    BY <2>1, <1>0, Grows, Offsets
  <2>3. ASSUME NEW x \in 1..Len(Codec!Code(t[i + 1])), Off(t, i) - u + x <= Len(s)
        PROVE  s[Off(t, i) - u + x] = Codec!Code(t[i + 1])[x]
    <3>1. Len(t) \in i + 1..Len(t)
      BY <2>1
    <3>2. Coded(t, Len(t))[Off(t, i) + x] = Codec!Code(t[i + 1])[x]
      BY <2>1, <3>1, CodedAt
    <3>3. Coded(t, Len(t)) = E
      BY CodedSteps
    <3>4. x \in Nat \ {0}
      <4>1. t[i + 1] \in Codec!Chars
        BY <2>1
      <4> QED BY <4>1, Codes
    <3>5. Off(t, i) - u + x \in 1..v - u /\ u + (Off(t, i) - u + x) = Off(t, i) + x
      <4>1. Off(t, i) - u \in Nat
        BY <1>0, <2>1, <2>2
      <4>2. Off(t, i) - u + x <= v - u
        BY <1>1, <2>3
      <4>3. Off(t, k) \in Nat /\ Off(t, i) \in Nat
        BY <1>0, <2>2
      <4>4. \A a, b \in Nat : a - b \in Nat /\ a - b + x <= v - b
                                => a - b + x \in 1..v - b /\ b + (a - b + x) = a + x
        BY <3>4
      <4> QED BY <4>1, <4>2, <4>3, <4>4
    <3> QED BY <1>1, <3>2, <3>3, <3>5
  <2>4. Off(t, i) - u + 1 \in 1..Len(s) + 1
    <3>1. Off(t, i) - u \in Nat /\ Off(t, i) <= v
      BY <1>0, <2>1, <2>2
    <3> HIDE DEF u
    <3>2. \A a, b, c \in Nat : a - b \in Nat /\ a <= c => a - b + 1 \in 1..(c - b) + 1
      OBVIOUS
    <3>3. u \in Nat /\ v \in Nat /\ Len(s) = v - u /\ Off(t, i) \in Nat
      BY <1>0, <1>1, <2>2
    <3> QED BY <3>1, <3>2, <3>3
  <2>5. \A x \in 1..Len(Codec!Code(t[i + 1])) : (Off(t, i) - u + 1) - 1 + x = Off(t, i) - u + x
    BY <1>0, <2>2
  <2>6. Off(t, i) - u + 1 \in Nat
    BY <1>0, <2>1, <2>2
  <2>7. ASSUME NEW x \in 1..Len(Codec!Code(t[i + 1])), (Off(t, i) - u + 1) - 1 + x <= Len(s)
        PROVE  s[(Off(t, i) - u + 1) - 1 + x] = Codec!Code(t[i + 1])[x]
    BY <2>3, <2>5, <2>7
  <2> HIDE DEF u
  <2> QED BY <2>2, <2>4, <2>6, <2>7
<1>4. Right(g[Off(t, m) - u + 1], m)
  <2>1. CASE v = Off(t, m)
    <3>1. Off(t, m) - u + 1 = Len(s) + 1 /\ Len(s) + 1 > Len(s) /\ Len(s) + 1 \in 1..Len(s) + 1
      BY <1>0, <1>1, <2>1
    <3>2. g[Len(s) + 1] = [ok |-> TRUE, text |-> << >>]
      BY <1>2, <3>1 DEF From
    <3>3. SubSeq(t, m + 1, m) = << >>
      BY <1>0
    <3> QED BY <2>1, <3>1, <3>2, <3>3
  <2>2. CASE v # Off(t, m)
    <3>1. m < Len(t)
      BY <1>0, <2>2, Offsets
    <3>2. m \in 0..Len(t) - 1 /\ m \in k..m /\ t[m + 1] \in Codec!Chars
      BY <1>0, <3>1
    <3>3. Off(t, m + 1) = Off(t, m) + (IF t[m + 1] \in Codec!Special THEN 3 ELSE 1)
      BY <3>2, Offsets
    <3>4. t[m + 1] \in Codec!Special
      BY <1>0, <2>2, <3>1, <3>3
    <3>5. PICK h, l \in Codec!HexDigits : Codec!Code(t[m + 1]) = <<"%", h, l>>
      BY <3>2, <3>4, Codes
    <3> DEFINE n == Off(t, m) - u + 1
    <3>6. n \in 1..Len(s) + 1 /\ n \in Nat
      BY <1>3, <3>1, <3>2
    <3>7. n <= Len(s) /\ ~(n + 2 <= Len(s)) /\ n - 1 + 1 = n
      BY <1>0, <1>1, <2>2, <3>1, <3>3, <3>4
    <3>8. s[n] = "%"
      <4>1. 1 \in 1..Len(Codec!Code(t[m + 1])) /\ Codec!Code(t[m + 1])[1] = "%"
        BY <3>5
      <4>2. n - 1 + 1 <= Len(s)
        BY <3>6, <3>7
      <4>3. s[n - 1 + 1] = Codec!Code(t[m + 1])[1]
        BY <1>3, <3>1, <3>2, <4>1, <4>2
      <4> QED BY <3>7, <4>1, <4>3
    <3>9. g[n] = Codec!Malformed
      <4> HIDE DEF n
      <4>1. ~(n > Len(s))
        BY <1>1, <3>6, <3>7
      <4> QED BY <1>2, <3>6, <3>7, <3>8, <4>1 DEF From
    <3> QED BY <2>2, <3>9 DEF Codec!Malformed, Results
  <2> QED BY <2>1, <2>2
<1>5. ASSUME NEW i \in k..m - 1, Right(g[Off(t, i + 1) - u + 1], i + 1)
      PROVE  Right(g[Off(t, i) - u + 1], i)
  <2> DEFINE n == Off(t, i) - u + 1
             c == t[i + 1]
  <2>1. /\ i \in k..m /\ i < Len(t) /\ i \in 0..Len(t) - 1 /\ i \in Nat /\ i + 1 \in 0..Len(t)
        /\ c \in Codec!Chars /\ i + 1 <= m /\ m \in i + 1..Len(t)
    BY <1>0
  <2>2. n \in 1..Len(s) + 1 /\ n \in Nat /\ Off(t, i) \in Nat
    BY <1>3, <2>1
  <2>3. \A x \in 1..Len(Codec!Code(c)) : n - 1 + x <= Len(s) => s[n - 1 + x] = Codec!Code(c)[x]
    BY <1>3, <2>1
  <2>4. Off(t, i + 1) = Off(t, i) + (IF c \in Codec!Special THEN 3 ELSE 1)
    BY <2>1, Offsets
  <2>5. Off(t, i + 1) <= v
    <3>1. Off(t, i + 1) + (m - (i + 1)) <= Off(t, m) /\ Off(t, i + 1) \in Nat
      BY <2>1, Grows, Offsets
    <3> QED BY <1>0, <2>1, <3>1
  <2>6. <<c>> \o SubSeq(t, (i + 1) + 1, m) = SubSeq(t, i + 1, m)
    BY <1>0, <2>1
  <2>7. g[n] = Codec!Before(c, g[Off(t, i + 1) - u + 1])
    <3>1. CASE c \notin Codec!Special
      <4>1. Codec!Code(c) = <<c>> /\ 1 \in 1..Len(Codec!Code(c)) /\ Codec!Code(c)[1] = c
        <5>1. Codec!Code(c) = <<c>>
          BY <2>1, <3>1, Codes
        <5> HIDE DEF c
        <5> QED BY <5>1
      <4>2. n - 1 + 1 = n /\ n <= Len(s) /\ ~(n > Len(s)) /\ n + 1 = Off(t, i + 1) - u + 1
        <5>1. Off(t, i + 1) = Off(t, i) + 1
          BY <2>4, <3>1
        <5>2. \A a, b, w \in Nat : a - b + 1 \in Nat /\ a + 1 <= w /\ b <= w
                  => LET z == a - b + 1 IN
                     z - 1 + 1 = z /\ z <= w - b /\ ~(z > w - b) /\ z + 1 = (a + 1) - b + 1
          OBVIOUS
        <5>3. Off(t, i) - u + 1 \in Nat /\ Off(t, i) + 1 <= v /\ u <= v
          BY <1>0, <2>2, <2>5, <5>1
        <5>4. Off(t, i) \in Nat /\ u \in Nat /\ v \in Nat
          BY <1>0, <2>2
        <5>5. Len(s) = v - u /\ n = Off(t, i) - u + 1
          BY <1>1
        <5>6. LET z == Off(t, i) - u + 1 IN
              z - 1 + 1 = z /\ z <= v - u /\ ~(z > v - u) /\ z + 1 = (Off(t, i) + 1) - u + 1
          BY <5>2, <5>3, <5>4
        <5> QED BY <5>1, <5>5, <5>6
      <4>3. s[n] = c
        BY <2>3, <4>1, <4>2
      <4>4. c # "%"
        BY <3>1 DEF Codec!Special
      <4> HIDE DEF n, c
      <4> QED BY <1>2, <2>2, <4>2, <4>3, <4>4 DEF From
    <3>2. CASE c \in Codec!Special
      <4>1. PICK h, l \in Codec!HexDigits : Codec!Code(c) = <<"%", h, l>> /\ Codec!Byte(h, l) = c
        BY <2>1, <3>2, Codes
      <4>2. 1 \in 1..Len(Codec!Code(c)) /\ 2 \in 1..Len(Codec!Code(c))
               /\ 3 \in 1..Len(Codec!Code(c))
        BY <4>1
      <4>3. /\ n - 1 + 1 = n /\ n - 1 + 2 = n + 1 /\ n - 1 + 3 = n + 2
            /\ n + 2 <= Len(s) /\ ~(n > Len(s)) /\ n + 3 = Off(t, i + 1) - u + 1
            /\ n <= Len(s) /\ n + 1 <= Len(s)
        <5>1. Off(t, i + 1) = Off(t, i) + 3
          BY <2>4, <3>2
        <5>2. \A a, b, w \in Nat : a - b + 1 \in Nat /\ a + 3 <= w /\ b <= w
                  => LET z == a - b + 1 IN
                     /\ z - 1 + 1 = z /\ z - 1 + 2 = z + 1 /\ z - 1 + 3 = z + 2
                     /\ z + 2 <= w - b /\ ~(z > w - b) /\ z + 3 = (a + 3) - b + 1
                     /\ z <= w - b /\ z + 1 <= w - b
          OBVIOUS
        <5>3. Off(t, i) - u + 1 \in Nat /\ Off(t, i) + 3 <= v /\ u <= v
          BY <1>0, <2>2, <2>5, <5>1
        <5>4. Off(t, i) \in Nat /\ u \in Nat /\ v \in Nat
          BY <1>0, <2>2
        <5>5. Len(s) = v - u /\ n = Off(t, i) - u + 1
          BY <1>1
        <5>6. LET z == Off(t, i) - u + 1 IN
                /\ z - 1 + 1 = z /\ z - 1 + 2 = z + 1 /\ z - 1 + 3 = z + 2
                /\ z + 2 <= v - u /\ ~(z > v - u) /\ z + 3 = (Off(t, i) + 3) - u + 1
                /\ z <= v - u /\ z + 1 <= v - u
          BY <5>2, <5>3, <5>4
        <5> QED BY <5>1, <5>5, <5>6
      <4>4. s[n] = "%" /\ s[n + 1] = h /\ s[n + 2] = l
        <5>1. s[n - 1 + 1] = Codec!Code(c)[1] /\ s[n - 1 + 2] = Codec!Code(c)[2]
                 /\ s[n - 1 + 3] = Codec!Code(c)[3]
          BY <2>3, <4>2, <4>3
        <5> HIDE DEF n, c
        <5> QED BY <4>1, <4>3, <5>1
      <4> HIDE DEF n, c
      <4> QED BY <1>2, <2>2, <4>1, <4>3, <4>4 DEF From
    <3> QED BY <3>1, <3>2
  <2>8. /\ v = Off(t, m) => g[Off(t, i + 1) - u + 1] = V(i + 1)
        /\ v # Off(t, m) => g[Off(t, i + 1) - u + 1] \in Results /\ ~g[Off(t, i + 1) - u + 1].ok
    BY <1>5
  <2>9. SubSeq(t, (i + 1) + 1, m) \in Seq(Codec!Chars)
    BY <1>0, <2>1
  <2>10. v = Off(t, m) => g[n] = V(i)
    <3> HIDE DEF n, c, u
    <3> QED BY <2>1, <2>6, <2>7, <2>8, <2>9, Befores
  <2>11. v # Off(t, m) => g[n] \in Results /\ ~g[n].ok
    <3>1. SUFFICES ASSUME v # Off(t, m) PROVE g[n] \in Results /\ ~g[n].ok
      OBVIOUS
    <3> DEFINE r == g[Off(t, i + 1) - u + 1]
    <3>2. r \in Results /\ ~r.ok
      BY <2>8, <3>1
    <3> HIDE DEF r
    <3>3. Codec!Before(c, r) \in Results /\ Codec!Before(c, r).ok = r.ok
      BY <2>1, <3>2, Befores
    <3>4. g[n] = Codec!Before(c, r)
      BY <2>7 DEF r
    <3> QED BY <3>2, <3>3, <3>4
  <2> QED BY <2>10, <2>11
<1> DEFINE T == {n \in Nat : Right(g[Off(t, k + n) - u + 1], k + n)}
<1>6. m - k \in T
  <2>1. k + (m - k) = m /\ m - k \in Nat
    BY <1>0
  <2> HIDE DEF Right
  <2> QED BY <1>4, <2>1
<1>7. ASSUME NEW n \in 0..(m - k) - 1, n + 1 \in T PROVE n \in T
  <2>1. k + n \in k..m - 1 /\ k + (n + 1) = (k + n) + 1 /\ n \in Nat
    BY <1>0
  <2> HIDE DEF Right
  <2> QED BY <1>5, <1>7, <2>1
<1>8. 0 \in T
  <2>1. m - k \in Nat /\ 0 \in 0..m - k
    BY <1>0
  <2> HIDE DEF T
  <2>2. \A n \in 0..m - k : n \in T
    BY <1>6, <1>7, <2>1, DownFrom
  <2> QED BY <2>1, <2>2
<1>9. k + 0 = k /\ Off(t, k) - u + 1 = 1
  BY <1>0
<1>10. Right(g[1], k)
  <2> HIDE DEF Right, u
  <2> QED BY <1>8, <1>9
<1> QED BY <1>2, <1>10 DEF s, Codec!Malformed

\* Every text is unescaped to itself, whatever is in it (escape.go:10-60).
THEOREM EscapesUndone ==
  ASSUME NEW t \in Seq(Codec!Chars)
  PROVE  Codec!UnescapeParameters(Codec!EscapeParameters(t)) = [ok |-> TRUE, text |-> t]
<1> DEFINE E == Codec!EscapeParameters(t)
<1>1. E \in Seq(Codec!Chars) /\ Len(E) \in Nat /\ Len(t) \in Nat /\ 0 \in 0..Len(t)
         /\ Len(t) \in 0..Len(t)
  BY EscapeTypes
<1>2. Off(t, 0) = 0 /\ Off(t, Len(t)) = Len(E)
  BY Offsets
<1>3. SubSeq(E, 0 + 1, Len(E)) = E /\ SubSeq(t, 0 + 1, Len(t)) = t
  BY <1>1
<1>4. LET r == Codec!UnescapeParameters(SubSeq(E, Off(t, 0) + 1, Len(E))) IN
      Len(E) = Off(t, Len(t)) => r = [ok |-> TRUE, text |-> SubSeq(t, 0 + 1, Len(t))]
  <2>1. Len(E) <= Len(E) /\ Off(t, Len(t)) <= Len(E) /\ ~(Len(t) < Len(t))
    BY <1>1, <1>2
  <2> HIDE DEF E
  <2> QED BY <1>1, <2>1, UnescapePiece DEF E
<1> QED BY <1>2, <1>3, <1>4

-----------------------------------------------------------------------------
(* The places where WriteData cuts.                                        *)

\* Multiples of the length of a piece.
LEMMA Times ==
  ASSUME NEW a \in Nat, NEW b \in Nat, NEW c \in Nat, a < b
  PROVE  a * c + c <= b * c
<1>1. PICK d \in Nat : b = a + 1 + d
  <2>1. b - (a + 1) \in Nat /\ b = a + 1 + (b - (a + 1))
    OBVIOUS
  <2> QED BY <2>1
<1>2. b * c = a * c + c + d * c /\ d * c \in Nat /\ a * c \in Nat
  BY <1>1
<1> QED BY <1>2

\* Division, as bounds.
LEMMA Divided ==
  ASSUME NEW x \in Nat, NEW c \in Nat \ {0}
  PROVE  /\ x \div c \in Nat /\ (x \div c) * c \in Nat
         /\ (x \div c) * c <= x /\ x < (x \div c) * c + c
<1>1. x \div c \in Int /\ x % c \in 0..c - 1 /\ x = c * (x \div c) + (x % c)
  OBVIOUS
<1>2. c * (x \div c) = (x \div c) * c
  BY <1>1
<1>3. x \div c \in Nat
  BY <1>1
<1> QED BY <1>1, <1>2, <1>3

LEMMA Quotients ==
  ASSUME NEW x \in Nat, NEW c \in Nat \ {0}, NEW q \in Nat
  PROVE  /\ q * c <= x => q <= x \div c
         /\ x < q * c => x \div c < q
<1> DEFINE d == x \div c
<1>1. d \in Nat /\ d * c \in Nat /\ q * c \in Nat /\ d * c <= x /\ x < d * c + c
  BY Divided
<1> HIDE DEF d
<1>2. d < q => d * c + c <= q * c
  BY <1>1, Times
<1>3. q < d => q * c + c <= d * c
  BY <1>1, Times
<1>4. q = d => q * c = d * c
  OBVIOUS
<1>5. q * c <= x => q <= d
  BY <1>1, <1>2
<1>6. x < q * c => d < q
  BY <1>1, <1>3, <1>4
<1> QED BY <1>5, <1>6 DEF d

LEMMA Chunk == Codec!ChunkLen \in Nat \ {0} /\ Alphabet \subseteq Codec!Chars
  BY CodecConstants DEF Codec!ChunkLen, Codec!CodecAssumption, Codec!Chars

\* An escape is cut when a piece ends between its first and its last character.
LEMMA CutInDef ==
  ASSUME NEW t \in Seq(Codec!Chars), NEW i \in 1..Len(t)
  PROVE  i \in Codec!CutIn(t) <=> Off(t, i - 1) \div Codec!ChunkLen # (Off(t,
        i) - 1) \div Codec!ChunkLen
<1>1. i - 1 \in 0..Len(t) - 1 /\ i - 1 \in 0..Len(t) /\ i = (i - 1) + 1 /\ t[i] \in Codec!Chars
  OBVIOUS
<1>2. Off(t, i) = Off(t, i - 1) + Len(Codec!Code(t[i])) /\ Off(t, i - 1) \in Nat
  <2>1. Coded(t, i) = Coded(t, i - 1) \o Codec!Code(t[i])
    BY <1>1, CodedSteps
  <2>2. Coded(t, i - 1) \in Seq(Codec!Chars) /\ Codec!Code(t[i]) \in Seq(Codec!Chars)
    BY <1>1, CodedSteps, Codes
  <2> QED BY <2>1, <2>2 DEF Off
<1>3. Off(t, i - 1) = Len(Codec!EscapeParameters(SubSeq(t, 1, i - 1)))
  BY DEF Off, Coded
<1>4. i \in DOMAIN t
  OBVIOUS
<1>5. Len(Codec!Code(t[i])) \in Nat
  BY <1>1, Codes
<1>6. Off(t, i - 1) + Len(Codec!Code(t[i])) - 1 = Off(t, i) - 1
  BY <1>2, <1>5
<1>7. i \in Codec!CutIn(t) <=> Off(t, i - 1) \div Codec!ChunkLen # (Off(t,
         i - 1) + Len(Codec!Code(t[i])) - 1) \div Codec!ChunkLen
  BY <1>3, <1>4 DEF Codec!CutIn
<1> QED BY <1>6, <1>7

LEMMA NotCut ==
  ASSUME NEW t \in Seq(Codec!Chars), NEW i \in 1..Len(t), NEW q \in Nat,
         q * Codec!ChunkLen <= Off(t, i - 1), Off(t, i) <= q * Codec!ChunkLen + Codec!ChunkLen
  PROVE  i \notin Codec!CutIn(t)
<1>1. i - 1 \in 0..Len(t) - 1 /\ i - 1 \in 0..Len(t) /\ i \in i - 1..Len(t)
  OBVIOUS
<1>2. Off(t, i - 1) + (i - (i - 1)) <= Off(t, i) /\ Off(t, i - 1) \in Nat /\ Off(t, i) \in Nat
  BY <1>1, Grows, Offsets
<1> DEFINE C == Codec!ChunkLen
           x == Off(t, i - 1)
           y == Off(t, i) - 1
<1>3. x \in Nat /\ y \in Nat /\ x <= y /\ q * C <= x /\ y < q * C + C /\ C \in Nat \ {0}
  BY <1>1, <1>2, Chunk
<1> HIDE DEF C, x, y
<1>4. (q + 1) * C = q * C + C /\ q * C \in Nat
  BY <1>3
<1>5. q <= x \div C /\ q <= y \div C /\ x \div C < q + 1 /\ y \div C < q + 1
  <2>1. q * C <= y /\ x < (q + 1) * C /\ y < (q + 1) * C /\ q + 1 \in Nat
    BY <1>3, <1>4
  <2>2. q <= x \div C /\ q <= y \div C
    BY <1>3, <2>1, Quotients
  <2>3. x \div C < q + 1
    BY <1>3, <2>1, Quotients
  <2>4. y \div C < q + 1
    BY <1>3, <2>1, Quotients
  <2> QED BY <2>2, <2>3, <2>4
<1>6. x \div C \in Nat /\ y \div C \in Nat
  BY <1>3, Divided
<1>7. x \div C = y \div C
  BY <1>5, <1>6
<1> QED BY <1>7, CutInDef DEF C, x, y

LEMMA InCut ==
  ASSUME NEW t \in Seq(Codec!Chars), NEW i \in 1..Len(t), NEW q \in Nat,
         Off(t, i - 1) < q * Codec!ChunkLen, q * Codec!ChunkLen < Off(t, i)
  PROVE  i \in Codec!CutIn(t)
<1>1. i - 1 \in 0..Len(t) /\ i \in 0..Len(t)
  OBVIOUS
<1>2. Off(t, i - 1) \in Nat /\ Off(t, i) \in Nat
  BY <1>1, Offsets
<1> DEFINE C == Codec!ChunkLen
           x == Off(t, i - 1)
           y == Off(t, i) - 1
<1>3. q * C \in Nat /\ C \in Nat \ {0}
  BY Chunk
<1>4. x \in Nat /\ y \in Nat /\ x < q * C /\ q * C <= y
  BY <1>2, <1>3
<1> HIDE DEF C, x, y
<1>5. x \div C < q /\ q <= y \div C
  BY <1>3, <1>4, Quotients
<1>6. x \div C \in Nat /\ y \div C \in Nat
  BY <1>3, <1>4, Divided
<1>7. x \div C # y \div C
  BY <1>5, <1>6
<1> QED BY <1>7, CutInDef DEF C, x, y

-----------------------------------------------------------------------------
(* The invariant: the places p at which the escaped text has been cut.     *)

\* The lines of data in between.
Sent == IF sender = "sending" THEN Len(wire) ELSE Len(wire) - 1

\* What is in between belongs to the text in hand.
Framed ==
  /\ way # "none"
  /\ way \in {"answer", "inquire", "stream"} =>
        /\ \A n \in 1..Sent : wire[n].cmd = "D"
        /\ sender = "idle" => wire # << >> /\ wire[Len(wire)].cmd \in {"OK", "END"}
  /\ way \in {"params", "error"} =>
        /\ received = << >>
        /\ sender = "sending" => wire = << >>
        /\ sender = "idle" =>
              wire = <<Codec!Line(IF way = "params" THEN "C" ELSE "ERR",
                    Codec!EscapeParameters(text))>>

\* Where WriteData cuts.
Aligned(x) == \E q \in 0..x : x = q * Codec!ChunkLen

\* What was received are the first k characters, and the lines are the rest of
\* the escaped text, cut at the places p.
Chunks(p, k) ==
  LET T == Codec!EscapeParameters(text) IN
  /\ received = SubSeq(text, 1, k) /\ p[1] = Off(text, k) /\ Codec!CutIn(text) \cap 1..k = {}
  /\ \A n \in 1..Sent :
        /\ Aligned(p[n]) /\ p[n] < p[n + 1] /\ p[n + 1] <= p[n] + Codec!ChunkLen
        /\ p[n + 1] = p[n] + Codec!ChunkLen \/ p[n + 1] = Len(T)
        /\ wire[n].params = SubSeq(T, p[n] + 1, p[n + 1])
  /\ Aligned(p[Sent + 1]) \/ p[Sent + 1] = Len(T)
  /\ rest = SubSeq(T, p[Sent + 1] + 1, Len(T))
  /\ sender = "idle" => p[Sent + 1] = Len(T)

InChunks ==
  \E k \in 0..Len(text) :
     \E p \in [1..Sent + 1 -> 0..Len(Codec!EscapeParameters(text))] : Chunks(p, k)

\* The lines are what the Reader had, each escaped by itself.
Pieces(p) ==
  /\ received = SubSeq(text, 1, p[1])
  /\ \A n \in 1..Sent :
        /\ p[n] <= p[n + 1]
        /\ wire[n].params = Codec!EscapeParameters(SubSeq(text, p[n] + 1, p[n + 1]))
  /\ rest = SubSeq(text, p[Sent + 1] + 1, Len(text))
  /\ sender = "idle" => p[Sent + 1] = Len(text)

InPieces == \E p \in [1..Sent + 1 -> 0..Len(text)] : Pieces(p)

PlainText == "%" \notin Codec!ToSet(text)

StepKept ==
  /\ state = "done" => wire = << >> /\ sender = "idle"
  /\ state = "reading" =>
        /\ Framed
        /\ way = "answer" \/ (way = "inquire" /\ PlainText) => InChunks
        /\ way = "stream" /\ PlainText /\ ~cutOff => InPieces

CodecInv ==
  /\ Codec!TypeOK /\ Codec!RightOrRefused /\ Codec!FailsWhenCut /\ Codec!DataFits
  /\ lapsed => way \in Codec!ToClient
  /\ ~lapsed => StepKept

-----------------------------------------------------------------------------
(* Types, and the length of lines.                                         *)

\* The first state.
LEMMA CodecInit == Codec!Init => CodecInv
<1> SUFFICES ASSUME Codec!Init PROVE CodecInv
  OBVIOUS
<1>1. Codec!TypeOK
  <2>1. 0 \in 0..MaxTexts /\ 0 <= MaxText
    BY CodecConstants DEF Codec!CodecAssumption
  <2>2. << >> \in Seq(Alphabet) /\ << >> \in Seq(Codec!Chars) /\ Len(<< >>) <= MaxText
    BY <2>1
  <2>3. << >> \in Seq([cmd : Codec!Commands, params : Seq(Codec!Chars)])
    OBVIOUS
  <2> QED BY <2>1, <2>2, <2>3 DEF Codec!Init, Codec!TypeOK
<1> QED BY <1>1 DEF Codec!Init, CodecInv, Codec!RightOrRefused, Codec!FailsWhenCut,
   Codec!DataFits, Codec!Received, StepKept

\* A text is one of the characters.
LEMMA TextTypes ==
  ASSUME Codec!TypeOK
  PROVE  text \in Seq(Codec!Chars) /\ rest \in Seq(Codec!Chars) /\ received \in Seq(Codec!Chars)
  BY Chunk DEF Codec!TypeOK

LEMMA TextsType == \A s \in Codec!Texts : s \in Seq(Alphabet) /\ Len(s) <= MaxText
      /\ s \in Seq(Codec!Chars)
  BY Chunk, CodecConstants DEF Codec!Texts, Codec!BoundedSeq, Codec!SeqOf, Codec!CodecAssumption

\* A line taken off the wire.
Lines == [cmd : Codec!Commands, params : Seq(Codec!Chars)]

LEMMA ReadsHead ==
  ASSUME Codec!TypeOK, NEW cmds, Codec!Reads(cmds)
  PROVE  /\ Len(wire) \in Nat \ {0} /\ Head(wire) = wire[1] /\ wire[1] \in Lines
        /\ wire[1].cmd \in cmds
         /\ Codec!Params \in Results /\ Codec!Params = Codec!UnescapeParameters(wire[1].params)
         /\ wire' = Tail(wire) /\ wire' \in Seq(Lines) /\ Len(wire') = Len(wire) - 1
         /\ \A n \in 1..Len(wire') : wire'[n] = wire[n + 1]
<1>1. wire \in Seq(Lines) /\ wire # << >> /\ wire' = Tail(wire) /\ Head(wire).cmd \in cmds
  BY DEF Codec!TypeOK, Codec!Reads, Lines
<1>2. /\ Len(wire) \in Nat \ {0} /\ Head(wire) = wire[1] /\ wire[1] \in Lines
      /\ wire' \in Seq(Lines) /\ Len(wire') = Len(wire) - 1
      /\ \A n \in 1..Len(wire') : wire'[n] = wire[n + 1]
  BY <1>1
<1>3. Codec!Params \in Results /\ Codec!Params = Codec!UnescapeParameters(wire[1].params)
  BY <1>2, UnescapeTypes DEF Codec!Params, Lines
<1> QED BY <1>1, <1>2, <1>3

\* The description of an error is taken as it is, or refused.
LEMMA Decoded == \A s \in Seq(Codec!Chars) : Codec!DecodeErrCmd(s) \in Results
      /\ (Codec!DecodeErrCmd(s).ok => Codec!DecodeErrCmd(s).text = s)
<1>1. Codec!Malformed \in Results /\ ~Codec!Malformed.ok
  BY DEF Codec!Malformed, Results
<1>2. ASSUME NEW s \in Seq(Codec!Chars) PROVE [ok |-> TRUE, text |-> s] \in Results
  BY DEF Results
<1> QED BY <1>1, <1>2 DEF Codec!DecodeErrCmd

LEMMA Takes ==
  ASSUME Codec!TypeOK, NEW r \in Results, NEW next \in {"reading", "done"}, Codec!Take(r, next)
  PROVE  received' \in Seq(Codec!Chars) /\ state' \in {next, "failed"}
<1>1. received \o r.text \in Seq(Codec!Chars)
  BY TextTypes DEF Results
<1> QED BY <1>1, TextTypes DEF Codec!Take

\* A line put on the wire.
LEMMA Puts ==
  ASSUME Codec!TypeOK, NEW l \in Lines, wire' = Append(wire, l)
  PROVE  /\ wire' \in Seq(Lines) /\ Len(wire) \in Nat /\ Len(wire') = Len(wire) + 1
         /\ wire'[Len(wire) + 1] = l
         /\ \A n \in 1..Len(wire) : wire'[n] = wire[n]
         /\ DOMAIN wire = 1..Len(wire) /\ DOMAIN wire' = 1..Len(wire) + 1
<1>1. wire \in Seq(Lines)
  BY DEF Codec!TypeOK, Lines
<1> QED BY <1>1

\* A line is a line.
LEMMA Lining == \A c \in Codec!Commands : \A s \in Seq(Codec!Chars) : Codec!Line(c, s) \in Lines
      /\ Codec!Line(c, s).cmd = c /\ Codec!Line(c, s).params = s
  BY DEF Codec!Line, Lines

\* The beginning of what is to be sent, and the rest of it.
LEMMA Splits ==
  ASSUME Codec!TypeOK, NEW n \in Nat, n <= Len(rest)
  PROVE  Codec!First(n) \in Seq(Codec!Chars) /\ Len(Codec!First(n)) = n
        /\ Codec!Beyond(n) \in Seq(Codec!Chars)
  BY TextTypes DEF Codec!First, Codec!Beyond

\* Types, action by action.
LEMMA CodecTypes ==
  ASSUME Codec!TypeOK, [Codec!Next]_(Codec!vars)
  PROVE  Codec!TypeOK'
<1>0. /\ Codec!TypeOK /\ text \in Seq(Codec!Chars) /\ rest \in Seq(Codec!Chars)
         /\ received \in Seq(Codec!Chars)
      /\ \A l : l \in Lines <=> l \in [cmd : Codec!Commands, params : Seq(Codec!Chars)]
      /\ Seq(Lines) = Seq([cmd : Codec!Commands, params : Seq(Codec!Chars)])
      /\ wire \in Seq(Lines)
  BY TextTypes DEF Lines, Codec!TypeOK
<1>1. CASE Codec!Call
  <2>1. PICK w \in Ways, s \in Codec!Texts : Codec!Begin(w, s) /\ sentTexts < MaxTexts
    BY <1>1 DEF Codec!Call
  <2>2. s \in Seq(Alphabet) /\ Len(s) <= MaxText /\ s \in Seq(Codec!Chars)
    BY TextsType
  <2>3. rest' \in Seq(Codec!Chars)
    BY <2>1, <2>2, EscapeTypes DEF Codec!Begin
  <2>4. received' \in Seq(Codec!Chars) /\ sentTexts' \in 0..MaxTexts
    <3>1. MaxTexts \in Nat /\ sentTexts \in 0..MaxTexts
      BY CodecConstants DEF Codec!CodecAssumption, Codec!TypeOK
    <3> QED BY <2>1, <3>1 DEF Codec!Begin
  <2> QED BY <2>1, <2>2, <2>3, <2>4 DEF Codec!Begin, Codec!TypeOK
<1>2. ASSUME NEW cmd \in {"C", "ERR"}, Codec!WriteLine(cmd) PROVE Codec!TypeOK'
  <2>1. Codec!Line(cmd, Codec!EscapeParameters(text)) \in Lines
    BY <1>0, EscapeTypes, Lining DEF Codec!Commands
  <2>2. wire' \in Seq(Lines)
    BY <1>0, <1>2, <2>1, Puts DEF Codec!WriteLine
  <2>3. rest' \in Seq(Codec!Chars)
    BY <1>2 DEF Codec!WriteLine
  <2> QED BY <1>0, <1>2, <2>2, <2>3 DEF Codec!WriteLine, Codec!TypeOK
<1>3. CASE Codec!WriteData
  <2> DEFINE n == Codec!Least(Codec!ChunkLen, Len(rest))
  <2>1. n \in Nat /\ n <= Len(rest)
    BY <1>0, Chunk DEF Codec!Least
  <2>2. Codec!First(n) \in Seq(Codec!Chars) /\ Codec!Beyond(n) \in Seq(Codec!Chars)
    BY <2>1, Splits
  <2>3. wire' = Append(wire, Codec!Line("D", Codec!First(n))) /\ rest' = Codec!Beyond(n)
    BY <1>3 DEF Codec!WriteData
  <2> HIDE DEF n
  <2>4. wire' \in Seq(Lines)
    BY <2>2, <2>3, Puts, Lining DEF Codec!Commands
  <2> QED BY <1>0, <1>3, <2>2, <2>3, <2>4 DEF Codec!WriteData, Codec!TypeOK
<1>4. CASE Codec!WriteDataReader
  <2>1. PICK n \in 1..Codec!Least(Codec!ChunkLen, Len(rest)) :
           wire' = Append(wire, Codec!Line("D", Codec!EscapeParameters(Codec!First(n))))
                 /\ rest' = Codec!Beyond(n)
    BY <1>4 DEF Codec!WriteDataReader
  <2>2. n \in Nat /\ n <= Len(rest)
    BY <1>0, Chunk DEF Codec!Least
  <2>3. Codec!EscapeParameters(Codec!First(n)) \in Seq(Codec!Chars)
           /\ Codec!Beyond(n) \in Seq(Codec!Chars)
    BY <2>2, Splits, EscapeTypes
  <2>4. wire' \in Seq(Lines)
    BY <2>1, <2>3, Puts, Lining DEF Codec!Commands
  <2> QED BY <1>0, <1>4, <2>1, <2>3, <2>4 DEF Codec!WriteDataReader, Codec!TypeOK
<1>5. CASE Codec!ReaderEnds
  <2>1. rest' \in Seq(Codec!Chars)
    BY <1>5 DEF Codec!ReaderEnds
  <2> QED BY <1>5, <2>1 DEF Codec!ReaderEnds, Codec!TypeOK
<1>6. CASE Codec!Finish
  <2> DEFINE c == IF way = "answer" THEN "OK" ELSE "END"
  <2>1. << >> \in Seq(Codec!Chars) /\ c \in Codec!Commands
    BY DEF Codec!Commands
  <2>2. wire' = Append(wire, Codec!Line(c, << >>))
    BY <1>6 DEF Codec!Finish
  <2> HIDE DEF c
  <2>3. wire' \in Seq(Lines)
    BY <2>1, <2>2, Puts, Lining
  <2> QED BY <1>0, <1>6, <2>3 DEF Codec!Finish, Codec!TypeOK
<1>7. CASE Codec!TooLong
  BY <1>7 DEF Codec!TooLong, Codec!TypeOK
<1>8. ASSUME NEW cmds, Codec!Reads(cmds), NEW r \in Results, NEW next \in {"reading", "done"},
         Codec!Take(r, next)
      PROVE  Codec!TypeOK'
  <2>1. wire' \in Seq(Lines)
    BY <1>8, ReadsHead
  <2>2. received' \in Seq(Codec!Chars) /\ state' \in {next, "failed"}
    BY <1>8, Takes
  <2> QED BY <1>0, <1>8, <2>1, <2>2 DEF Codec!Reads, Codec!TypeOK
<1>9. CASE Codec!TakeData
  <2>1. Codec!Reads({"D"}) /\ Codec!Take(Codec!Params, "reading")
    BY <1>9 DEF Codec!TakeData
  <2> QED BY <1>8, <2>1, ReadsHead
<1>10. CASE Codec!ReadData
  <2> DEFINE r == IF Codec!Params.ok
                  THEN Codec!UnescapeParameters(Codec!Params.text)
                  ELSE Codec!Malformed
  <2>1. Codec!Reads({"D"}) /\ Codec!Take(r, "reading")
    BY <1>10 DEF Codec!ReadData
  <2>2. r \in Results
    <3>1. Codec!Params.ok => Codec!Params.text \in Seq(Codec!Chars)
      BY <2>1, ReadsHead DEF Results
    <3>2. Codec!Malformed \in Results
      BY DEF Codec!Malformed, Results
    <3> QED BY <3>1, <3>2, UnescapeTypes
  <2> HIDE DEF r
  <2> QED BY <1>8, <2>1, <2>2
<1>11. CASE Codec!TakeLine
  <2>1. Codec!Reads({"C"}) /\ Codec!Take(Codec!Params, "done")
    BY <1>11 DEF Codec!TakeLine
  <2> QED BY <1>8, <2>1, ReadsHead
<1>12. CASE Codec!TakeError
  <2> DEFINE r == IF Codec!Params.ok THEN Codec!DecodeErrCmd(Codec!Params.text) ELSE Codec!Malformed
  <2>1. Codec!Reads({"ERR"}) /\ Codec!Take(r, "done")
    BY <1>12 DEF Codec!TakeError
  <2>2. r \in Results
    <3>1. Codec!Params.ok => Codec!Params.text \in Seq(Codec!Chars)
      BY <2>1, ReadsHead DEF Results
    <3>2. Codec!Malformed \in Results
      BY DEF Codec!Malformed, Results
    <3> QED BY <3>1, <3>2, Decoded
  <2> HIDE DEF r
  <2> QED BY <1>8, <2>1, <2>2
<1>13. CASE Codec!TakeEnd
  <2>1. wire' \in Seq(Lines)
    BY <1>13, ReadsHead DEF Codec!TakeEnd
  <2> QED BY <1>0, <1>13, <2>1 DEF Codec!TakeEnd, Codec!Reads, Codec!TypeOK
<1>14. CASE UNCHANGED Codec!vars
  BY <1>14 DEF Codec!vars, Codec!TypeOK
<1> QED BY <1>1, <1>2, <1>3, <1>4, <1>5, <1>6, <1>7, <1>9, <1>10, <1>11, <1>12, <1>13,
   <1>14 DEF Codec!Next, Codec!Sender, Codec!Receiver

\* The lines of WriteData.
LEMMA FitsStep ==
  ASSUME CodecInv, [Codec!Next]_(Codec!vars)
  PROVE  Codec!DataFits' /\ (lapsed => way \in Codec!ToClient)'
<1> USE DEF CodecInv
<1>1. CASE Codec!Call
  <2>1. PICK w \in Ways, s \in Codec!Texts : Codec!Begin(w, s)
    BY <1>1 DEF Codec!Call
  <2>2. UNCHANGED wire /\ way' = w
    BY <2>1 DEF Codec!Begin
  <2>3. lapsed' => w \in Codec!ToClient
    BY <2>1 DEF Codec!Begin
  <2>4. wire = << >> \/ way # "stream"
    BY <2>1 DEF Codec!Begin, StepKept, Codec!ToClient
  <2> QED BY <2>2, <2>3, <2>4 DEF Codec!DataFits
<1>2. ASSUME UNCHANGED <<way, lapsed>>, NEW l \in Lines, wire' = Append(wire, l),
             way # "stream" /\ l.cmd = "D" => Codec!Fits(l)
      PROVE  Codec!DataFits' /\ (lapsed => way \in Codec!ToClient)'
  BY <1>2, Puts DEF Codec!DataFits
<1>3. ASSUME NEW cmd \in {"C", "ERR"}, Codec!WriteLine(cmd)
      PROVE Codec!DataFits' /\ (lapsed => way \in Codec!ToClient)'
  <2>1. Codec!Line(cmd, Codec!EscapeParameters(text)) \in Lines
           /\ Codec!Line(cmd, Codec!EscapeParameters(text)).cmd # "D"
    BY TextTypes, EscapeTypes, Lining DEF Codec!Commands
  <2>2. UNCHANGED <<way, lapsed>>
    BY <1>3 DEF Codec!WriteLine
  <2>3. CASE UNCHANGED wire
    BY <2>2, <2>3 DEF Codec!DataFits
  <2>4. CASE wire' = Append(wire, Codec!Line(cmd, Codec!EscapeParameters(text)))
    BY <1>2, <2>1, <2>2, <2>4
  <2> QED BY <1>3, <2>3, <2>4 DEF Codec!WriteLine
<1>4. CASE Codec!WriteData
  <2> DEFINE n == Codec!Least(Codec!ChunkLen, Len(rest))
             l == Codec!Line("D", Codec!First(n))
  <2>1. n \in Nat /\ n <= Len(rest) /\ n <= Codec!ChunkLen
    BY TextTypes, Chunk DEF Codec!Least
  <2>2. Codec!First(n) \in Seq(Codec!Chars) /\ Len(Codec!First(n)) = n
    BY <2>1, Splits
  <2>3. l \in Lines /\ l.cmd = "D" /\ l.params = Codec!First(n)
    BY <2>2, Lining DEF Codec!Commands
  <2>4. wire' = Append(wire, l) /\ UNCHANGED <<way, lapsed>>
    BY <1>4 DEF Codec!WriteData
  <2> HIDE DEF n, l
  <2>5. Codec!Fits(l)
    <3>1. Codec!Width("D") = 1
      BY DEF Codec!Width
    <3>2. Codec!LineLen(l) <= 3 + n
      BY <2>1, <2>2, <2>3, <3>1 DEF Codec!LineLen
    <3>3. Codec!LineLen(l) \in Nat
      BY <2>1, <2>2, <2>3, <3>1 DEF Codec!LineLen
    <3>4. MaxLineLen \in Nat
      BY CodecConstants DEF Codec!CodecAssumption
    <3> QED BY <2>1, <3>2, <3>3, <3>4 DEF Codec!Fits, Codec!ChunkLen
  <2> QED BY <1>2, <2>3, <2>4, <2>5
<1>5. CASE Codec!WriteDataReader
  <2>1. PICK n \in 1..Codec!Least(Codec!ChunkLen, Len(rest)) :
           wire' = Append(wire, Codec!Line("D", Codec!EscapeParameters(Codec!First(n))))
    BY <1>5 DEF Codec!WriteDataReader
  <2>2. n \in Nat /\ n <= Len(rest)
    BY TextTypes, Chunk DEF Codec!Least
  <2>3. Codec!Line("D", Codec!EscapeParameters(Codec!First(n))) \in Lines
    BY <2>2, Splits, EscapeTypes, Lining DEF Codec!Commands
  <2>4. way = "stream" /\ UNCHANGED <<way, lapsed>>
    BY <1>5 DEF Codec!WriteDataReader
  <2> QED BY <1>2, <2>1, <2>3, <2>4
<1>6. CASE Codec!Finish
  <2> DEFINE c == IF way = "answer" THEN "OK" ELSE "END"
  <2>1. << >> \in Seq(Codec!Chars) /\ c \in Codec!Commands /\ c # "D"
    BY DEF Codec!Commands
  <2>2. wire' = Append(wire, Codec!Line(c, << >>)) /\ UNCHANGED <<way, lapsed>>
    BY <1>6 DEF Codec!Finish
  <2> HIDE DEF c
  <2> QED BY <1>2, <2>1, <2>2, Lining
<1>7. CASE Codec!ReaderEnds \/ Codec!TooLong \/ UNCHANGED Codec!vars
  BY <1>7 DEF Codec!ReaderEnds, Codec!TooLong, Codec!vars, Codec!DataFits
<1>8. ASSUME NEW cmds, Codec!Reads(cmds)
      PROVE  Codec!DataFits' /\ (lapsed => way \in Codec!ToClient)'
  <2>1. /\ wire' \in Seq(Lines) /\ Len(wire') = Len(wire) - 1 /\ Len(wire) \in Nat \ {0}
        /\ \A n \in 1..Len(wire') : wire'[n] = wire[n + 1]
    BY <1>8, ReadsHead
  <2>2. DOMAIN wire = 1..Len(wire) /\ DOMAIN wire' = 1..Len(wire')
    BY <2>1 DEF Codec!TypeOK
  <2>3. UNCHANGED <<way, lapsed>>
    BY <1>8 DEF Codec!Reads
  <2>4. ASSUME way # "stream", NEW n \in DOMAIN wire', wire'[n].cmd = "D"
        PROVE  Codec!Fits(wire'[n])
    <3>1. n + 1 \in DOMAIN wire /\ wire'[n] = wire[n + 1]
      BY <2>1, <2>2
    <3> QED BY <2>4, <3>1 DEF Codec!DataFits
  <2>5. Codec!DataFits'
    BY <2>3, <2>4 DEF Codec!DataFits, Codec!Fits, Codec!LineLen, Codec!Width
  <2> QED BY <2>3, <2>5
<1>9. CASE Codec!Receiver
  BY <1>7, <1>8, <1>9 DEF Codec!Receiver, Codec!TakeData, Codec!ReadData, Codec!TakeLine,
     Codec!TakeError, Codec!TakeEnd
<1> QED BY <1>1, <1>3, <1>4, <1>5, <1>6, <1>7, <1>9 DEF Codec!Next, Codec!Sender

-----------------------------------------------------------------------------
(* What a line of data brings, and what is left of the others.             *)

\* A piece of the escaped text is taken for the characters it holds, or it is
\* refused, and then WriteData has cut an escape.
LEMMA ChunkTaken ==
  ASSUME Codec!TypeOK, Sent \in Nat \ {0}, NEW k \in 0..Len(text),
         NEW p \in [1..Sent + 1 -> 0..Len(Codec!EscapeParameters(text))], Chunks(p, k)
  PROVE  LET r == Codec!UnescapeParameters(wire[1].params) IN
         /\ ~r.ok => Codec!CutIn(text) # {}
         /\ r.ok => \E m \in k..Len(text) :
                       /\ r.text = SubSeq(text, k + 1, m) /\ p[2] = Off(text, m)
                       /\ Codec!CutIn(text) \cap 1..m = {}
<1> DEFINE T == Codec!EscapeParameters(text)
           L == Len(text)
           r == Codec!UnescapeParameters(wire[1].params)
           v == p[2]
<1>1. /\ text \in Seq(Codec!Chars) /\ T \in Seq(Codec!Chars) /\ L \in Nat /\ Len(T) \in Nat
      /\ Codec!ChunkLen \in Nat \ {0} /\ Off(text, L) = Len(T) /\ k \in Nat
  BY TextTypes, EscapeTypes, Chunk, Offsets
<1>2. 1 \in 1..Sent /\ 1 \in 1..Sent + 1 /\ 2 \in 1..Sent + 1 /\ 1 + 1 = 2
  OBVIOUS
<1>3. p[1] \in 0..Len(T) /\ v \in 0..Len(T)
  BY <1>2
<1>4. /\ Aligned(p[1]) /\ p[1] < v /\ v <= p[1] + Codec!ChunkLen
      /\ v = p[1] + Codec!ChunkLen \/ v = Len(T)
      /\ wire[1].params = SubSeq(T, p[1] + 1, v)
      /\ p[1] = Off(text, k) /\ Codec!CutIn(text) \cap 1..k = {}
  BY <1>2 DEF Chunks
<1>5. PICK q \in Nat : p[1] = q * Codec!ChunkLen
  BY <1>4, <1>3 DEF Aligned
<1>6. PICK m \in k..L : Off(text, m) <= v /\ (m < L => v < Off(text, m + 1))
  <2>1. CASE v = Off(text, L)
    <3>1. L \in k..L /\ Off(text, L) <= v /\ ~(L < L)
      BY <1>1, <1>3, <2>1
    <3> QED BY <3>1
  <2>2. CASE v # Off(text, L)
    <3>1. PICK m \in 0..L - 1 : Off(text, m) <= v /\ v < Off(text, m + 1)
      BY <1>1, <1>3, <2>2, Between
    <3>2. k <= m
      <4>1. SUFFICES ASSUME m < k PROVE FALSE
        BY <1>1
      <4>2. m + 1 \in 0..L /\ k \in m + 1..L /\ k - (m + 1) \in Nat
        BY <1>1, <4>1
      <4>3. Off(text, m + 1) + (k - (m + 1)) <= Off(text, k)
        BY <1>1, <4>2, Grows
      <4>4. Off(text, m + 1) \in Nat /\ Off(text, k) \in Nat
        BY <1>1, <4>2, Offsets
      <4> HIDE DEF v
      <4> QED BY <1>3, <1>4, <3>1, <4>2, <4>3, <4>4
    <3>3. m \in k..L
      BY <1>1, <3>2
    <3> QED BY <3>1, <3>3
  <2> QED BY <2>1, <2>2
<1>7. /\ v = Off(text, m) => r = [ok |-> TRUE, text |-> SubSeq(text, k + 1, m)]
      /\ v # Off(text, m) => ~r.ok
  <2>1. v \in Nat /\ v <= Len(T)
    BY <1>1, <1>3
  <2>2. wire[1].params = SubSeq(T, Off(text, k) + 1, v)
    BY <1>4
  <2>3. Off(text, m) <= v /\ (m < Len(text) => v < Off(text, m + 1)) /\ m \in k..Len(text)
    BY <1>6
  <2> HIDE DEF v, T
  <2>4. LET z == Codec!UnescapeParameters(SubSeq(Codec!EscapeParameters(text), Off(text, k) + 1,
           v)) IN
        /\ v = Off(text, m) => z = [ok |-> TRUE, text |-> SubSeq(text, k + 1, m)]
        /\ v # Off(text, m) => ~z.ok
    BY <1>1, <2>1, <2>3, UnescapePiece DEF T
  <2> QED BY <2>2, <2>4 DEF T
<1>8. ASSUME r.ok PROVE r.text = SubSeq(text, k + 1, m) /\ v = Off(text, m)
  BY <1>7, <1>8
<1>9. ASSUME v = Off(text, m), NEW i \in 1..m PROVE i \notin Codec!CutIn(text)
  <2>1. CASE i <= k
    <3>1. i \in 1..k
      BY <1>1, <2>1
    <3> QED BY <1>4, <3>1
  <2>2. CASE ~(i <= k)
    <3>1. /\ i \in 1..L /\ i - 1 \in 0..L /\ i - 1 \in k..L /\ m \in i..L /\ i \in 0..L
          /\ (i - 1) - k \in Nat /\ m - i \in Nat
      BY <1>1, <2>2
    <3>2. Off(text, k) + ((i - 1) - k) <= Off(text, i - 1)
      BY <1>1, <3>1, Grows
    <3>3. Off(text, i) + (m - i) <= Off(text, m)
      BY <1>1, <3>1, Grows
    <3>4. Off(text, i - 1) \in Nat /\ Off(text, k) \in Nat /\ Off(text, i) \in Nat
             /\ Off(text, m) \in Nat
      BY <1>1, <3>1, Offsets
    <3>5. q * Codec!ChunkLen <= Off(text, i - 1) /\ Off(text,
             i) <= q * Codec!ChunkLen + Codec!ChunkLen
      <4>1. q * Codec!ChunkLen = Off(text, k) /\ Off(text, m) <= Off(text, k) + Codec!ChunkLen
        BY <1>4, <1>5, <1>9
      <4> DEFINE w == q * Codec!ChunkLen
      <4>2. w = Off(text, k) /\ Off(text, m) <= Off(text, k) + Codec!ChunkLen
        BY <4>1
      <4> HIDE DEF w
      <4>3. Off(text, k) <= Off(text, i - 1) /\ Off(text, i) <= Off(text, m)
        <5>1. \A a, b \in Nat : \A c \in Nat : a + b <= c => a <= c
          OBVIOUS
        <5> QED BY <3>1, <3>2, <3>3, <3>4, <5>1
      <4>4. w <= Off(text, i - 1) /\ Off(text, i) <= w + Codec!ChunkLen
        BY <1>1, <3>4, <4>2, <4>3
      <4> QED BY <4>4 DEF w
    <3> QED BY <1>1, <3>1, <3>5, NotCut
  <2> QED BY <2>1, <2>2
<1>10. ASSUME ~r.ok PROVE Codec!CutIn(text) # {}
  <2>1. v # Off(text, m)
    BY <1>7, <1>10
  <2>2. m # L
    BY <1>1, <1>3, <1>6, <2>1
  <2>3. m < L /\ m + 1 \in 1..L /\ (m + 1) - 1 = m /\ m \in 0..L
    BY <1>1, <2>2
  <2>4. Off(text, m) \in Nat /\ v \in Nat
    BY <1>1, <1>3, <2>3, Offsets
  <2>5. Off(text, m) < v /\ v < Off(text, m + 1)
    BY <1>6, <2>1, <2>3, <2>4
  <2>6. v = (q + 1) * Codec!ChunkLen
    <3>1. v # Len(T)
      <4>1. m + 1 \in 0..L /\ L \in m + 1..L /\ L - (m + 1) \in Nat
        BY <1>1, <2>3
      <4>2. Off(text, m + 1) + (L - (m + 1)) <= Off(text, L)
        BY <1>1, <4>1, Grows
      <4>3. Off(text, m + 1) \in Nat
        BY <1>1, <4>1, Offsets
      <4> HIDE DEF v
      <4> QED BY <1>1, <2>4, <2>5, <4>1, <4>2, <4>3
    <3>2. v = q * Codec!ChunkLen + Codec!ChunkLen
      BY <1>4, <1>5, <3>1
    <3> QED BY <1>1, <3>2
  <2>7. q + 1 \in Nat
    OBVIOUS
  <2>8. m + 1 \in Codec!CutIn(text)
    BY <1>1, <2>3, <2>5, <2>6, <2>7, InCut
  <2> QED BY <2>8
<1>11. ASSUME r.ok PROVE Codec!CutIn(text) \cap 1..m = {}
  BY <1>8, <1>9, <1>11
<1> QED BY <1>8, <1>10, <1>11

\* Which line can be next.
LEMMA NextLine ==
  ASSUME Codec!TypeOK, Framed, NEW cmds, Codec!Reads(cmds)
  PROVE  /\ wire[1].cmd = "D" =>
               /\ way \in {"answer", "inquire", "stream"} /\ Sent \in Nat \ {0} /\ Sent' = Sent - 1
               /\ \A n \in 1..Sent' : wire'[n] = wire[n + 1]
               /\ Framed'
         /\ wire[1].cmd \in {"OK", "END"} =>
               way \in {"answer", "inquire", "stream"} /\ Sent = 0 /\ sender = "idle"
                     /\ wire' = << >>
         /\ wire[1].cmd \in {"C", "ERR"} =>
               /\ way = (IF wire[1].cmd = "C" THEN "params" ELSE "error") /\ received = << >>
               /\ sender = "idle" /\ wire' = << >> /\ wire[1].params = Codec!EscapeParameters(text)
<1>0. /\ way \in {"params", "answer", "inquire", "stream", "error"}
         /\ sender \in {"idle", "sending"}
      /\ wire \in Seq(Lines)
  BY CodecConstants DEF Codec!CodecAssumption, Codec!TypeOK, Framed, Lines
<1>1. /\ Len(wire) \in Nat \ {0} /\ wire[1] \in Lines /\ wire' \in Seq(Lines)
      /\ Len(wire') = Len(wire) - 1 /\ \A n \in 1..Len(wire') : wire'[n] = wire[n + 1]
  BY ReadsHead
<1>2. UNCHANGED <<way, text, sender>>
  BY DEF Codec!Reads
<1>3. wire[1].cmd \in Codec!Commands
  BY <1>1 DEF Lines
<1>4. CASE way \in {"params", "error"}
  <2> DEFINE c == IF way = "params" THEN "C" ELSE "ERR"
  <2>1. sender = "idle" /\ wire = <<Codec!Line(c, Codec!EscapeParameters(text))>>
           /\ received = << >>
    BY <1>0, <1>1, <1>4 DEF Framed
  <2>2. wire[1].cmd = c /\ wire[1].params = Codec!EscapeParameters(text) /\ Len(wire) = 1
    BY <2>1, TextTypes, EscapeTypes DEF Codec!Line
  <2>3. wire' = << >>
    BY <1>1, <2>2
  <2> QED BY <1>4, <2>1, <2>2, <2>3
<1>5. CASE way \in {"answer", "inquire", "stream"}
  <2>1. /\ \A n \in 1..Sent : wire[n].cmd = "D"
        /\ sender = "idle" => wire[Len(wire)].cmd \in {"OK", "END"}
    BY <1>5 DEF Framed
  <2>2. Sent \in Nat /\ (Sent = 0 => sender = "idle" /\ Len(wire) = 1)
    BY <1>0, <1>1 DEF Sent
  <2>3. CASE Sent = 0
    <3>1. wire[1].cmd \in {"OK", "END"}
      BY <2>1, <2>2, <2>3
    <3>2. wire' = << >>
      <4>1. Len(wire') = 0
        <5>1. Len(wire) = 1
          BY <2>2, <2>3
        <5>2. Len(wire') = Len(wire) - 1
          BY <1>1
        <5> QED BY <5>1, <5>2
      <4> QED BY <1>1, <4>1
    <3> QED BY <1>5, <2>2, <2>3, <3>1, <3>2
  <2>4. CASE Sent # 0
    <3>1. wire[1].cmd = "D"
      BY <2>1, <2>2, <2>4
    <3>2. Sent' = Sent - 1 /\ (sender = "sending" => Sent = Len(wire)) /\ (sender = "idle"
             => Sent = Len(wire) - 1)
      BY <1>0, <1>1, <1>2 DEF Sent
    <3>3. \A n \in 1..Sent' : wire'[n] = wire[n + 1] /\ n + 1 \in 1..Sent
      BY <1>0, <1>1, <2>2, <3>2
    <3>4. \A n \in 1..Sent' : wire'[n].cmd = "D"
      BY <2>1, <3>3
    <3>5. sender' = "idle" => wire' # << >> /\ wire'[Len(wire')].cmd \in {"OK", "END"}
      <4>1. SUFFICES ASSUME sender = "idle" PROVE wire' # << >>
               /\ wire'[Len(wire')].cmd \in {"OK", "END"}
        BY <1>2
      <4>2. Len(wire') \in 1..Len(wire') /\ Len(wire') + 1 = Len(wire)
        BY <1>1, <2>2, <2>4, <3>2, <4>1
      <4>3. wire'[Len(wire')] = wire[Len(wire)]
        BY <1>1, <4>2
      <4> QED BY <2>1, <4>1, <4>2, <4>3
    <3>6. Framed'
      BY <1>2, <1>5, <3>4, <3>5 DEF Framed
    <3> QED BY <1>5, <2>2, <2>4, <3>1, <3>2, <3>3, <3>6
  <2> QED BY <2>3, <2>4
<1> QED BY <1>0, <1>4, <1>5

\* Parts of parts.
LEMMA Rests ==
  ASSUME NEW s \in Seq(Codec!Chars), NEW x \in 0..Len(s), NEW y \in Nat, y <= Len(s) - x
  PROVE  /\ SubSeq(SubSeq(s, x + 1, Len(s)), 1, y) = SubSeq(s, x + 1, x + y)
         /\ SubSeq(SubSeq(s, x + 1, Len(s)), y + 1, Len(SubSeq(s, x + 1, Len(s)))) = SubSeq(s,
               x + y + 1, Len(s))
         /\ Len(SubSeq(s, x + 1, Len(s))) = Len(s) - x
  OBVIOUS

LEMMA Joins ==
  ASSUME NEW s \in Seq(Codec!Chars), NEW x \in 0..Len(s), NEW y \in x..Len(s)
  PROVE  SubSeq(s, 1, x) \o SubSeq(s, x + 1, y) = SubSeq(s, 1, y)
  OBVIOUS

\* The first of the lines has been taken for k + 1..m.
LEMMA ChunksShift ==
  ASSUME Codec!TypeOK, Framed, NEW cmds, Codec!Reads(cmds), wire[1].cmd = "D",
         NEW k \in 0..Len(text), NEW p \in [1..Sent + 1 -> 0..Len(Codec!EscapeParameters(text))],
               Chunks(p, k),
         NEW m \in k..Len(text), p[2] = Off(text, m), Codec!CutIn(text) \cap 1..m = {},
         received' = received \o SubSeq(text, k + 1, m)
  PROVE  InChunks'
<1> DEFINE T == Codec!EscapeParameters(text)
<1>1. UNCHANGED <<text, rest, sender>>
  BY DEF Codec!Reads
<1>2. Sent \in Nat \ {0} /\ Sent' = Sent - 1 /\ \A n \in 1..Sent' : wire'[n] = wire[n + 1]
  BY NextLine
<1>3. text \in Seq(Codec!Chars) /\ T \in Seq(Codec!Chars)
  BY TextTypes, EscapeTypes
<1>4. received' = SubSeq(text, 1, m)
  BY <1>3, Joins DEF Chunks
<1>5. PICK f \in [1..Sent' + 1 -> 0..Len(T)] : \A n \in 1..Sent' + 1 : f[n] = p[n + 1]
  <2> DEFINE g == [n \in 1..Sent' + 1 |-> p[n + 1]]
  <2>1. \A n \in 1..Sent' + 1 : g[n] = p[n + 1] /\ n + 1 \in 1..Sent + 1
    BY <1>2
  <2>2. g \in [1..Sent' + 1 -> 0..Len(T)]
    BY <2>1
  <2> QED BY <2>1, <2>2
<1>7. f[1] = Off(text, m) /\ f[Sent' + 1] = p[Sent + 1]
  BY <1>2, <1>5
<1>8. \A n \in 1..Sent' : f[n] = p[n + 1] /\ f[n + 1] = p[(n + 1) + 1] /\ n + 1 \in 1..Sent
  BY <1>2, <1>5
<1>9. m \in 0..Len(text)
  BY <1>3
<1>10. \A n \in 1..Sent' :
         /\ Aligned(f[n]) /\ f[n] < f[n + 1] /\ f[n + 1] <= f[n] + Codec!ChunkLen
         /\ f[n + 1] = f[n] + Codec!ChunkLen \/ f[n + 1] = Len(T)
         /\ wire'[n].params = SubSeq(T, f[n] + 1, f[n + 1])
  <2>1. \A n \in 1..Sent :
          /\ Aligned(p[n]) /\ p[n] < p[n + 1] /\ p[n + 1] <= p[n] + Codec!ChunkLen
          /\ p[n + 1] = p[n] + Codec!ChunkLen \/ p[n + 1] = Len(T)
          /\ wire[n].params = SubSeq(T, p[n] + 1, p[n + 1])
    BY DEF Chunks
  <2> HIDE DEF T
  <2>2. ASSUME NEW n \in 1..Sent'
        PROVE  /\ Aligned(f[n]) /\ f[n] < f[n + 1] /\ f[n + 1] <= f[n] + Codec!ChunkLen
               /\ f[n + 1] = f[n] + Codec!ChunkLen \/ f[n + 1] = Len(T)
               /\ wire'[n].params = SubSeq(T, f[n] + 1, f[n + 1])
    <3>1. f[n] = p[n + 1] /\ f[n + 1] = p[(n + 1) + 1] /\ n + 1 \in 1..Sent
      BY <1>8
    <3>2. wire'[n] = wire[n + 1]
      BY <1>2
    <3> QED BY <2>1, <3>1, <3>2
  <2> QED BY <2>2
<1>11. /\ Aligned(f[Sent' + 1]) \/ f[Sent' + 1] = Len(T)
       /\ rest = SubSeq(T, f[Sent' + 1] + 1, Len(T))
       /\ sender = "idle" => f[Sent' + 1] = Len(T)
  BY <1>7 DEF Chunks
<1>12. Chunks(f, m)'
  BY <1>1, <1>4, <1>7, <1>10, <1>11 DEF Chunks, Off, Coded, Codec!CutIn, Aligned
<1> QED BY <1>1, <1>9, <1>12 DEF InChunks

\* The same for what the Reader had.
LEMMA PiecesShift ==
  ASSUME Codec!TypeOK, Framed, NEW cmds, Codec!Reads(cmds), wire[1].cmd = "D",
         NEW p \in [1..Sent + 1 -> 0..Len(text)], Pieces(p),
         received' = received \o SubSeq(text, p[1] + 1, p[2])
  PROVE  InPieces'
<1>1. UNCHANGED <<text, rest, sender>>
  BY DEF Codec!Reads
<1>2. Sent \in Nat \ {0} /\ Sent' = Sent - 1 /\ \A n \in 1..Sent' : wire'[n] = wire[n + 1]
  BY NextLine
<1>3. text \in Seq(Codec!Chars)
  BY TextTypes
<1>4. received' = SubSeq(text, 1, p[2])
  <2>1. 1 \in 1..Sent /\ 1 \in 1..Sent + 1 /\ 2 \in 1..Sent + 1 /\ 1 + 1 = 2
    BY <1>2
  <2>2. p[1] \in 0..Len(text) /\ p[2] \in 0..Len(text) /\ p[1] <= p[2]
           /\ received = SubSeq(text, 1, p[1])
    BY <2>1 DEF Pieces
  <2>3. p[2] \in p[1]..Len(text)
    BY <2>2
  <2> QED BY <1>3, <2>2, <2>3, Joins
<1>5. PICK f \in [1..Sent' + 1 -> 0..Len(text)] : \A n \in 1..Sent' + 1 : f[n] = p[n + 1]
  <2> DEFINE g == [n \in 1..Sent' + 1 |-> p[n + 1]]
  <2>1. \A n \in 1..Sent' + 1 : g[n] = p[n + 1] /\ n + 1 \in 1..Sent + 1
    BY <1>2
  <2>2. g \in [1..Sent' + 1 -> 0..Len(text)]
    BY <2>1
  <2> QED BY <2>1, <2>2
<1>7. f[1] = p[2] /\ f[Sent' + 1] = p[Sent + 1]
  BY <1>2, <1>5
<1>8. \A n \in 1..Sent' : f[n] = p[n + 1] /\ f[n + 1] = p[(n + 1) + 1] /\ n + 1 \in 1..Sent
  BY <1>2, <1>5
<1>9. \A n \in 1..Sent' :
         /\ f[n] <= f[n + 1]
         /\ wire'[n].params = Codec!EscapeParameters(SubSeq(text, f[n] + 1, f[n + 1]))
  BY <1>2, <1>8 DEF Pieces
<1>10. /\ rest = SubSeq(text, f[Sent' + 1] + 1, Len(text))
       /\ sender = "idle" => f[Sent' + 1] = Len(text)
  BY <1>7 DEF Pieces
<1>11. Pieces(f)'
  BY <1>1, <1>4, <1>7, <1>9, <1>10 DEF Pieces
<1> QED BY <1>1, <1>11 DEF InPieces

\* A line more at the end, of data.
LEMMA DataPut ==
  ASSUME Codec!TypeOK, Framed, sender = "sending", way \in {"answer", "inquire", "stream"},
         NEW x \in Seq(Codec!Chars), wire' = Append(wire, Codec!Line("D", x)), UNCHANGED <<way,
               text, sender, received>>
  PROVE  /\ Sent \in Nat /\ Sent' = Sent + 1 /\ Framed'
         /\ wire'[Sent + 1].params = x /\ \A n \in 1..Sent : wire'[n] = wire[n]
<1>1. Codec!Line("D", x) \in Lines /\ Codec!Line("D", x).cmd = "D" /\ Codec!Line("D", x).params = x
  BY Lining DEF Codec!Commands
<1>2. /\ Len(wire) \in Nat /\ Len(wire') = Len(wire) + 1
         /\ wire'[Len(wire) + 1] = Codec!Line("D", x)
      /\ \A n \in 1..Len(wire) : wire'[n] = wire[n]
  BY <1>1, Puts
<1>3. Sent = Len(wire) /\ Sent' = Len(wire')
  BY DEF Sent
<1>4. \A n \in 1..Sent' : wire'[n].cmd = "D"
  <2>1. SUFFICES ASSUME NEW n \in 1..Sent' PROVE wire'[n].cmd = "D"
    OBVIOUS
  <2>2. n \in 1..Sent \/ n = Sent + 1
    BY <1>2, <1>3
  <2>3. \A j \in 1..Sent : wire[j].cmd = "D"
    BY DEF Framed
  <2> QED BY <1>1, <1>2, <1>3, <2>2, <2>3
<1>5. Framed'
  BY <1>4 DEF Framed
<1> QED BY <1>1, <1>2, <1>3, <1>5

\* WriteData cuts at the next place; WriteDataReader where it likes.
LEMMA ChunkPut ==
  ASSUME Codec!TypeOK, Framed, Codec!WriteData, InChunks
  PROVE  InChunks'
<1> DEFINE T == Codec!EscapeParameters(text)
           d == Codec!Least(Codec!ChunkLen, Len(rest))
<1>1. PICK k \in 0..Len(text), p \in [1..Sent + 1 -> 0..Len(T)] : Chunks(p, k)
  BY DEF InChunks
<1>2. text \in Seq(Codec!Chars) /\ T \in Seq(Codec!Chars) /\ rest \in Seq(Codec!Chars)
         /\ Codec!ChunkLen \in Nat \ {0} /\ Len(T) \in Nat
  BY TextTypes, EscapeTypes, Chunk
<1>3. /\ sender = "sending" /\ way \in {"answer", "inquire"} /\ rest # << >>
      /\ wire' = Append(wire, Codec!Line("D", Codec!First(d))) /\ rest' = Codec!Beyond(d)
      /\ UNCHANGED <<way, text, sender, received>>
  BY DEF Codec!WriteData
<1>4. d \in Nat \ {0} /\ d <= Len(rest) /\ d <= Codec!ChunkLen /\ (d = Codec!ChunkLen
         \/ d = Len(rest))
  BY <1>2, <1>3 DEF Codec!Least
<1>5. Codec!First(d) \in Seq(Codec!Chars)
  BY <1>4, Splits
<1> HIDE DEF d
<1>6. /\ Sent \in Nat /\ Sent' = Sent + 1
      /\ wire'[Sent + 1].params = Codec!First(d) /\ \A n \in 1..Sent : wire'[n] = wire[n]
  BY <1>3, <1>5, DataPut
<1> DEFINE x == p[Sent + 1]
<1>7. Sent + 1 \in 1..Sent + 1 /\ x \in 0..Len(T)
  BY <1>6
<1>8. rest = SubSeq(T, x + 1, Len(T)) /\ (Aligned(x) \/ x = Len(T))
  BY <1>1 DEF Chunks
<1> HIDE DEF x, T
<1>9. /\ Len(rest) = Len(T) - x /\ Codec!First(d) = SubSeq(T, x + 1, x + d)
      /\ rest' = SubSeq(T, x + d + 1, Len(T))
  <2>1. Len(SubSeq(T, x + 1, Len(T))) = Len(T) - x
    BY <1>2, <1>7
  <2>2. d \in Nat /\ d <= Len(T) - x
    BY <1>4, <1>8, <2>1
  <2>3. /\ SubSeq(SubSeq(T, x + 1, Len(T)), 1, d) = SubSeq(T, x + 1, x + d)
        /\ SubSeq(SubSeq(T, x + 1, Len(T)), d + 1, Len(SubSeq(T, x + 1, Len(T)))) = SubSeq(T,
              x + d + 1, Len(T))
    BY <1>2, <1>7, <2>2, Rests
  <2> QED BY <1>3, <1>8, <2>1, <2>3 DEF Codec!First, Codec!Beyond
<1>10. PICK f \in [1..Sent' + 1 -> 0..Len(T)] :
         /\ \A n \in 1..Sent + 1 : f[n] = p[n]
         /\ f[Sent' + 1] = x + d
  <2> DEFINE g == [n \in 1..Sent' + 1 |-> IF n = Sent + 2 THEN x + d ELSE p[n]]
  <2>1. x + d \in 0..Len(T)
    BY <1>2, <1>4, <1>7, <1>9
  <2>2. \A n \in 1..Sent' + 1 : n = Sent + 2 \/ n \in 1..Sent + 1
    BY <1>6
  <2>3. g \in [1..Sent' + 1 -> 0..Len(T)]
    BY <2>1, <2>2 DEF T
  <2>4. \A n \in 1..Sent + 1 : g[n] = p[n]
    BY <1>6
  <2>5. g[Sent' + 1] = x + d
    BY <1>6
  <2> HIDE DEF g
  <2> QED BY <2>3, <2>4, <2>5
<1>11. x # Len(T)
  BY <1>2, <1>4, <1>7, <1>9
<1>12. PICK q \in 0..x : x = q * Codec!ChunkLen
  BY <1>8, <1>11 DEF Aligned
<1>13. ASSUME NEW n \in 1..Sent'
       PROVE  /\ Aligned(f[n]) /\ f[n] < f[n + 1] /\ f[n + 1] <= f[n] + Codec!ChunkLen
              /\ f[n + 1] = f[n] + Codec!ChunkLen \/ f[n + 1] = Len(T)
              /\ wire'[n].params = SubSeq(T, f[n] + 1, f[n + 1])
  <2>1. CASE n = Sent + 1
    <3>1. f[n] = x /\ f[n + 1] = x + d
      BY <1>6, <1>7, <1>10, <2>1 DEF x
    <3>2. Aligned(x)
      BY <1>8, <1>11
    <3>3. wire'[n].params = SubSeq(T, f[n] + 1, f[n + 1])
      BY <1>6, <1>9, <2>1, <3>1
    <3>4. /\ x < x + d /\ x + d <= x + Codec!ChunkLen
          /\ x + d = x + Codec!ChunkLen \/ x + d = Len(T)
      BY <1>2, <1>4, <1>7, <1>9
    <3> QED BY <3>1, <3>2, <3>3, <3>4
  <2>2. CASE n # Sent + 1
    <3>1. n \in 1..Sent /\ n \in 1..Sent + 1 /\ n + 1 \in 1..Sent + 1
      BY <1>6, <2>2
    <3>2. f[n] = p[n] /\ f[n + 1] = p[n + 1] /\ wire'[n] = wire[n]
      BY <1>6, <1>10, <3>1
    <3>3. /\ Aligned(p[n]) /\ p[n] < p[n + 1] /\ p[n + 1] <= p[n] + Codec!ChunkLen
          /\ p[n + 1] = p[n] + Codec!ChunkLen \/ p[n + 1] = Len(T)
          /\ wire[n].params = SubSeq(T, p[n] + 1, p[n + 1])
      BY <1>1, <3>1 DEF Chunks, T
    <3> QED BY <3>2, <3>3
  <2> QED BY <2>1, <2>2
<1>14. Aligned(x + d) \/ x + d = Len(T)
  <2>1. CASE d = Codec!ChunkLen
    <3>1. x + d = (q + 1) * Codec!ChunkLen
      BY <1>2, <1>7, <1>12, <2>1
    <3>2. q + 1 \in 0..x + d
      <4>1. x \in Nat /\ q \in 0..x /\ d \in Nat \ {0}
        BY <1>4, <1>7
      <4> QED BY <4>1
    <3> QED BY <3>1, <3>2 DEF Aligned
  <2>2. CASE d = Len(rest)
    BY <1>2, <1>7, <1>9, <2>2
  <2> QED BY <1>4, <2>1, <2>2
<1>15. received = SubSeq(text, 1, k) /\ f[1] = Off(text, k) /\ Codec!CutIn(text) \cap 1..k = {}
  <2>1. 1 \in 1..Sent + 1
    BY <1>6
  <2> QED BY <1>1, <1>10, <2>1 DEF Chunks
<1>16. Chunks(f, k)'
  BY <1>3, <1>9, <1>10, <1>13, <1>14, <1>15 DEF Chunks, Off, Coded, Codec!CutIn, Aligned, T
<1> QED BY <1>3, <1>16 DEF InChunks, T

LEMMA PiecePut ==
  ASSUME Codec!TypeOK, Framed, Codec!WriteDataReader, InPieces
  PROVE  InPieces'
<1>1. PICK p \in [1..Sent + 1 -> 0..Len(text)] : Pieces(p)
  BY DEF InPieces
<1>2. text \in Seq(Codec!Chars) /\ rest \in Seq(Codec!Chars) /\ Codec!ChunkLen \in Nat \ {0}
         /\ Len(text) \in Nat
  BY TextTypes, Chunk
<1>3. PICK d \in 1..Codec!Least(Codec!ChunkLen, Len(rest)) :
         wire' = Append(wire, Codec!Line("D", Codec!EscapeParameters(Codec!First(d))))
               /\ rest' = Codec!Beyond(d)
  BY DEF Codec!WriteDataReader
<1>4. sender = "sending" /\ way = "stream" /\ UNCHANGED <<way, text, sender, received>>
  BY DEF Codec!WriteDataReader
<1>5. d \in Nat \ {0} /\ d <= Len(rest)
  BY <1>2 DEF Codec!Least
<1>6. Codec!EscapeParameters(Codec!First(d)) \in Seq(Codec!Chars)
  BY <1>5, Splits, EscapeTypes
<1>7. /\ Sent \in Nat /\ Sent' = Sent + 1
      /\ wire'[Sent + 1].params = Codec!EscapeParameters(Codec!First(d))
      /\ \A n \in 1..Sent : wire'[n] = wire[n]
  BY <1>3, <1>4, <1>6, DataPut
<1> DEFINE x == p[Sent + 1]
<1>8. Sent + 1 \in 1..Sent + 1 /\ x \in 0..Len(text)
  BY <1>7
<1>9. rest = SubSeq(text, x + 1, Len(text))
  BY <1>1 DEF Pieces
<1> HIDE DEF x
<1>10. /\ Len(rest) = Len(text) - x /\ Codec!First(d) = SubSeq(text, x + 1, x + d)
       /\ rest' = SubSeq(text, x + d + 1, Len(text))
  <2>1. Len(SubSeq(text, x + 1, Len(text))) = Len(text) - x
    BY <1>2, <1>8
  <2>2. d \in Nat /\ d <= Len(text) - x
    BY <1>5, <1>9, <2>1
  <2>3. /\ SubSeq(SubSeq(text, x + 1, Len(text)), 1, d) = SubSeq(text, x + 1, x + d)
        /\ SubSeq(SubSeq(text, x + 1, Len(text)), d + 1, Len(SubSeq(text, x + 1, Len(text))))
             = SubSeq(text, x + d + 1, Len(text))
    BY <1>2, <1>8, <2>2, Rests
  <2> QED BY <1>3, <1>9, <2>1, <2>3 DEF Codec!First, Codec!Beyond
<1>11. PICK f \in [1..Sent' + 1 -> 0..Len(text)] :
         /\ \A n \in 1..Sent + 1 : f[n] = p[n]
         /\ f[Sent' + 1] = x + d
  <2> DEFINE g == [n \in 1..Sent' + 1 |-> IF n = Sent + 2 THEN x + d ELSE p[n]]
  <2>1. x + d \in 0..Len(text)
    BY <1>2, <1>5, <1>8, <1>10
  <2>2. \A n \in 1..Sent' + 1 : n = Sent + 2 \/ n \in 1..Sent + 1
    BY <1>7
  <2>3. g \in [1..Sent' + 1 -> 0..Len(text)]
    BY <2>1, <2>2
  <2>4. \A n \in 1..Sent + 1 : g[n] = p[n]
    BY <1>7
  <2>5. g[Sent' + 1] = x + d
    BY <1>7
  <2> HIDE DEF g
  <2> QED BY <2>3, <2>4, <2>5
<1>12. ASSUME NEW n \in 1..Sent'
       PROVE  /\ f[n] <= f[n + 1]
              /\ wire'[n].params = Codec!EscapeParameters(SubSeq(text, f[n] + 1, f[n + 1]))
  <2>1. CASE n = Sent + 1
    <3>1. f[n] = x /\ f[n + 1] = x + d
      BY <1>7, <1>8, <1>11, <2>1 DEF x
    <3> QED BY <1>2, <1>5, <1>7, <1>8, <1>10, <2>1, <3>1
  <2>2. CASE n # Sent + 1
    <3>1. n \in 1..Sent /\ n \in 1..Sent + 1 /\ n + 1 \in 1..Sent + 1
      BY <1>7, <2>2
    <3>2. f[n] = p[n] /\ f[n + 1] = p[n + 1] /\ wire'[n] = wire[n]
      BY <1>7, <1>11, <3>1
    <3>3. p[n] <= p[n + 1] /\ wire[n].params = Codec!EscapeParameters(SubSeq(text, p[n] + 1,
             p[n + 1]))
      BY <1>1, <3>1 DEF Pieces
    <3> QED BY <3>2, <3>3
  <2> QED BY <2>1, <2>2
<1>13. received = SubSeq(text, 1, f[1])
  <2>1. 1 \in 1..Sent + 1
    BY <1>7
  <2> QED BY <1>1, <1>11, <2>1 DEF Pieces
<1>14. Pieces(f)'
  BY <1>4, <1>10, <1>11, <1>12, <1>13 DEF Pieces
<1> QED BY <1>4, <1>14 DEF InPieces

\* The last line, behind the data.
LEMMA EndPut ==
  ASSUME Codec!TypeOK, Framed, Codec!Finish, sender = "sending"
  PROVE  /\ Sent' = Sent /\ \A n \in 1..Sent : wire'[n] = wire[n]
         /\ Framed' /\ Sent \in Nat
<1> DEFINE c == IF way = "answer" THEN "OK" ELSE "END"
<1>1. << >> \in Seq(Codec!Chars) /\ c \in Codec!Commands /\ c \in {"OK", "END"}
  BY DEF Codec!Commands
<1>2. /\ wire' = Append(wire, Codec!Line(c, << >>)) /\ sender' = "idle"
      /\ way \in {"answer", "inquire", "stream"} /\ UNCHANGED <<way, text, received>>
  BY DEF Codec!Finish
<1>3. Codec!Line(c, << >>) \in Lines /\ Codec!Line(c, << >>).cmd = c
  BY <1>1, Lining
<1>4. /\ Len(wire) \in Nat /\ Len(wire') = Len(wire) + 1
         /\ wire'[Len(wire) + 1] = Codec!Line(c, << >>)
      /\ \A n \in 1..Len(wire) : wire'[n] = wire[n]
  BY <1>2, <1>3, Puts
<1>5. Sent = Len(wire) /\ Sent' = Len(wire)
  BY <1>2, <1>4 DEF Sent
<1>6. \A n \in 1..Sent' : wire'[n].cmd = "D"
  <2>1. \A n \in 1..Sent : wire[n].cmd = "D"
    BY <1>2 DEF Framed
  <2> QED BY <1>4, <1>5, <2>1
<1>7. wire' # << >> /\ wire'[Len(wire')].cmd \in {"OK", "END"}
  BY <1>1, <1>3, <1>4
<1>8. Framed'
  BY <1>2, <1>6, <1>7 DEF Framed
<1> QED BY <1>4, <1>5, <1>8

\* The places stay where they are.
LEMMA EndKept ==
  ASSUME Codec!TypeOK, Framed, Codec!Finish, sender = "sending"
  PROVE  (InChunks => InChunks') /\ (InPieces => InPieces')
<1>1. /\ Sent \in Nat /\ Sent' = Sent /\ \A n \in 1..Sent : wire'[n] = wire[n]
      /\ rest = << >> /\ UNCHANGED <<text, rest, received>>
  BY EndPut DEF Codec!Finish
<1>2. /\ text \in Seq(Codec!Chars) /\ Codec!EscapeParameters(text) \in Seq(Codec!Chars)
      /\ Sent + 1 \in 1..Sent + 1
  BY <1>1, TextTypes, EscapeTypes
<1>3. ASSUME NEW s \in Seq(Codec!Chars), NEW x \in 0..Len(s), << >> = SubSeq(s, x + 1, Len(s))
      PROVE x = Len(s)
  <2>1. Len(SubSeq(s, x + 1, Len(s))) = Len(s) - x
    OBVIOUS
  <2>2. Len(SubSeq(s, x + 1, Len(s))) = Len(<< >>)
    BY <1>3
  <2>3. Len(<< >>) = 0 /\ Len(s) \in Nat
    OBVIOUS
  <2> QED BY <2>1, <2>2, <2>3
<1>4. ASSUME InChunks PROVE InChunks'
  <2>1. PICK k \in 0..Len(text),
             p \in [1..Sent + 1 -> 0..Len(Codec!EscapeParameters(text))] : Chunks(p, k)
    BY <1>4 DEF InChunks
  <2>2. p[Sent + 1] \in 0..Len(Codec!EscapeParameters(text))
    BY <1>2
  <2>3. p[Sent + 1] = Len(Codec!EscapeParameters(text))
    <3>1. << >> = SubSeq(Codec!EscapeParameters(text), p[Sent + 1] + 1,
             Len(Codec!EscapeParameters(text)))
      BY <1>1, <2>1 DEF Chunks
    <3> QED BY <1>2, <1>3, <2>2, <3>1
  <2>4. Chunks(p, k)'
    BY <1>1, <2>1, <2>3 DEF Chunks, Off, Coded, Codec!CutIn, Aligned
  <2> QED BY <1>1, <2>4 DEF InChunks
<1>5. ASSUME InPieces PROVE InPieces'
  <2>1. PICK p \in [1..Sent + 1 -> 0..Len(text)] : Pieces(p)
    BY <1>5 DEF InPieces
  <2>2. p[Sent + 1] \in 0..Len(text)
    BY <1>2
  <2>3. p[Sent + 1] = Len(text)
    <3>1. << >> = SubSeq(text, p[Sent + 1] + 1, Len(text))
      BY <1>1, <2>1 DEF Pieces
    <3> QED BY <1>2, <1>3, <2>2, <3>1
  <2>4. Pieces(p)'
    BY <1>1, <2>1, <2>3 DEF Pieces
  <2> QED BY <1>1, <2>4 DEF InPieces
<1> QED BY <1>4, <1>5

-----------------------------------------------------------------------------
(* The steps.                                                              *)

\* What the properties ask of a text that has arrived, or been refused.
Arrived == Codec!RightOrRefused /\ Codec!FailsWhenCut /\ (~lapsed => StepKept)

\* The properties after a step of each kind.
LEMMA CallArrives ==
  ASSUME CodecInv, Codec!Call
  PROVE  Arrived'
<1>1. PICK w \in Ways, s \in Codec!Texts : Codec!Begin(w, s)
  BY DEF Codec!Call
<1>2. /\ way' = w /\ text' = s /\ sender' = "sending" /\ received' = << >> /\ state' = "reading"
      /\ rest' = (IF w \in {"answer", "inquire"} THEN Codec!EscapeParameters(s) ELSE s)
      /\ UNCHANGED wire
      /\ state \in {"done", "failed"} /\ lapsed' = (lapsed \/ state = "failed")
  BY <1>1 DEF Codec!Begin
<1>3. s \in Seq(Codec!Chars) /\ Len(s) \in Nat /\ Codec!EscapeParameters(s) \in Seq(Codec!Chars)
         /\ Len(Codec!EscapeParameters(s)) \in Nat
  BY TextsType, EscapeTypes
<1>4. w # "none"
  BY CodecConstants DEF Codec!CodecAssumption
<1>5. ASSUME ~lapsed' PROVE StepKept'
  <2>1. wire' = << >>
    BY <1>2, <1>5 DEF CodecInv, StepKept
  <2>2. Sent' = 0
    BY <1>2, <2>1 DEF Sent
  <2>3. Framed'
    BY <1>2, <1>4, <2>1, <2>2 DEF Framed
  <2> DEFINE z == [n \in 1..1 |-> 0]
  <2>4. z[1] = 0 /\ (0 + 1 = 1) /\ 1..0 = {} /\ 0 \in 0..Len(s) /\ SubSeq(s, 1, 0) = << >>
    BY <1>3
  <2>5. SubSeq(s, 0 + 1, Len(s)) = s /\ SubSeq(Codec!EscapeParameters(s), 0 + 1,
           Len(Codec!EscapeParameters(s))) = Codec!EscapeParameters(s)
    BY <1>3
  <2>6. ASSUME w \in {"answer", "inquire"} PROVE InChunks'
    <3>1. z \in [1..0 + 1 -> 0..Len(Codec!EscapeParameters(s))]
      BY <1>3
    <3>2. Off(s, 0) = 0 /\ Aligned(0)
      <4>1. 0 = 0 * Codec!ChunkLen /\ 0 \in 0..0
        BY Chunk
      <4> QED BY <1>3, <4>1, Offsets DEF Aligned
    <3> HIDE DEF z
    <3>3. Chunks(z, 0)'
      BY <1>2, <2>2, <2>4, <2>5, <2>6, <3>2 DEF Chunks, Off, Coded, Codec!CutIn, Aligned
    <3> QED BY <1>2, <2>2, <2>4, <3>1, <3>3 DEF InChunks
  <2>7. ASSUME w = "stream" PROVE InPieces'
    <3>1. z \in [1..0 + 1 -> 0..Len(s)]
      BY <1>3
    <3> HIDE DEF z
    <3>2. Pieces(z)'
      BY <1>2, <2>2, <2>4, <2>5, <2>7 DEF Pieces
    <3> QED BY <1>2, <2>2, <3>1, <3>2 DEF InPieces
  <2> QED BY <1>2, <2>3, <2>6, <2>7 DEF StepKept
<1> QED BY <1>2, <1>5 DEF Arrived, Codec!RightOrRefused, Codec!FailsWhenCut, Codec!Received

LEMMA SenderArrives ==
  ASSUME CodecInv, Codec!Sender
  PROVE  Arrived'
<1>1. UNCHANGED <<way, text, received, lapsed>> /\ sender = "sending"
  BY DEF Codec!Sender, Codec!WriteLine, Codec!WriteData, Codec!WriteDataReader,
     Codec!ReaderEnds, Codec!Finish
<1>2. CASE lapsed
  BY <1>1, <1>2 DEF Arrived, Codec!RightOrRefused, Codec!FailsWhenCut
<1>3. CASE ~lapsed /\ state' # "reading"
  <2>1. state # "done"
    BY <1>1, <1>3 DEF CodecInv, StepKept
  <2>2. state' = state \/ state' = "refused"
    BY DEF Codec!Sender, Codec!WriteLine, Codec!WriteData, Codec!WriteDataReader,
       Codec!ReaderEnds, Codec!Finish
  <2> QED BY <1>1, <1>3, <2>1, <2>2
     DEF Arrived, StepKept, Codec!RightOrRefused, Codec!FailsWhenCut, Codec!Received, CodecInv
<1>4. CASE ~lapsed /\ state' = "reading"
  <2>1. state = "reading" /\ Codec!TypeOK /\ Framed
    BY <1>4 DEF Codec!Sender, Codec!WriteLine, Codec!WriteData, Codec!WriteDataReader,
       Codec!ReaderEnds, Codec!Finish, CodecInv, StepKept
  <2>2. /\ way = "answer" \/ (way = "inquire" /\ PlainText) => InChunks
        /\ way = "stream" /\ PlainText /\ ~cutOff => InPieces
    BY <1>4, <2>1 DEF CodecInv, StepKept
  <2>3. PlainText' = PlainText
    BY <1>1 DEF PlainText
  <2>4. ASSUME Framed', way = "answer" \/ (way = "inquire" /\ PlainText) => InChunks',
               way = "stream" /\ PlainText /\ ~cutOff' => InPieces'
        PROVE  Arrived'
    BY <1>1, <1>4, <2>3, <2>4 DEF Arrived, StepKept, Codec!RightOrRefused, Codec!FailsWhenCut,
       Codec!Received
  <2>5. ASSUME NEW cmd \in {"C", "ERR"}, Codec!WriteLine(cmd) PROVE Arrived'
    <3>1. way = (IF cmd = "C" THEN "params" ELSE "error") /\ sender' = "idle"
      BY <2>5 DEF Codec!WriteLine
    <3>2. wire = << >> /\ received = << >>
      BY <1>1, <2>1, <3>1 DEF Framed
    <3>3. wire' = Append(<< >>, Codec!Line(cmd, Codec!EscapeParameters(text)))
      BY <1>4, <2>5, <3>2 DEF Codec!WriteLine
    <3>4. wire' = <<Codec!Line(cmd, Codec!EscapeParameters(text))>>
      BY <3>3
    <3>5. Framed'
      BY <1>1, <3>1, <3>2, <3>4 DEF Framed
    <3> QED BY <2>4, <3>1, <3>5
  <2>6. CASE Codec!WriteData
    <3>1. Codec!First(Codec!Least(Codec!ChunkLen, Len(rest))) \in Seq(Codec!Chars)
      <4>1. Codec!Least(Codec!ChunkLen, Len(rest)) \in Nat
               /\ Codec!Least(Codec!ChunkLen, Len(rest)) <= Len(rest)
        BY <2>1, TextTypes, Chunk DEF Codec!Least
      <4> QED BY <2>1, <4>1, Splits
    <3>2. Framed'
      BY <1>1, <2>1, <2>6, <3>1, DataPut DEF Codec!WriteData
    <3> QED BY <2>1, <2>2, <2>4, <2>6, <3>2, ChunkPut DEF Codec!WriteData
  <2>7. CASE Codec!WriteDataReader
    <3>1. PICK n \in 1..Codec!Least(Codec!ChunkLen, Len(rest)) :
             wire' = Append(wire, Codec!Line("D", Codec!EscapeParameters(Codec!First(n))))
      BY <2>7 DEF Codec!WriteDataReader
    <3>2. Codec!EscapeParameters(Codec!First(n)) \in Seq(Codec!Chars)
      <4>1. n \in Nat /\ n <= Len(rest)
        BY <2>1, TextTypes, Chunk DEF Codec!Least
      <4> QED BY <2>1, <4>1, Splits, EscapeTypes
    <3>3. Framed'
      BY <1>1, <2>1, <2>7, <3>1, <3>2, DataPut DEF Codec!WriteDataReader
    <3> QED BY <2>1, <2>2, <2>4, <2>7, <3>3, PiecePut DEF Codec!WriteDataReader
  <2>8. CASE Codec!ReaderEnds
    <3>1. way = "stream" /\ cutOff' /\ UNCHANGED <<way, text, sender, wire, received>>
      BY <2>8 DEF Codec!ReaderEnds
    <3>2. Framed'
      BY <2>1, <3>1 DEF Framed, Sent
    <3> QED BY <2>4, <3>1, <3>2
  <2>9. CASE Codec!Finish
    <3>1. Framed'
      BY <1>1, <2>1, <2>9, EndPut
    <3>2. cutOff' = cutOff
      BY <2>9 DEF Codec!Finish
    <3> QED BY <1>1, <2>1, <2>2, <2>4, <2>9, <3>1, <3>2, EndKept
  <2> QED BY <2>5, <2>6, <2>7, <2>8, <2>9 DEF Codec!Sender
<1> QED BY <1>2, <1>3, <1>4

\* A text without percent signs has none in its parts.
LEMMA PlainParts ==
  ASSUME NEW s \in Seq(Codec!Chars), "%" \notin Codec!ToSet(s), NEW x \in 0..Len(s),
        NEW y \in x..Len(s)
  PROVE  Codec!UnescapeParameters(SubSeq(s, x + 1, y)) = [ok |-> TRUE, text |-> SubSeq(s, x + 1, y)]
<1>1. /\ SubSeq(s, x + 1, y) \in Seq(Codec!Chars) /\ Len(SubSeq(s, x + 1, y)) = y - x
      /\ \A i \in 1..y - x : SubSeq(s, x + 1, y)[i] = s[x + i] /\ x + i \in DOMAIN s
  OBVIOUS
<1>2. "%" \notin Codec!ToSet(SubSeq(s, x + 1, y))
  BY <1>1 DEF Codec!ToSet
<1> QED BY <1>1, <1>2, UnescapePlain

LEMMA DataArrives ==
  ASSUME CodecInv, ~lapsed, Codec!TakeData \/ Codec!ReadData
  PROVE  Arrived'
<1>1. PICK r \in Results :
        /\ Codec!Reads({"D"}) /\ Codec!Take(r, "reading") /\ wire[1].cmd = "D"
        /\ Codec!TakeData => r = Codec!Params
        /\ Codec!ReadData => r = IF Codec!Params.ok
                                 THEN Codec!UnescapeParameters(Codec!Params.text)
                                 ELSE Codec!Malformed
  <2>1. Codec!Malformed \in Results
    BY DEF Codec!Malformed, Results
  <2>2. Codec!Reads({"D"})
    BY DEF Codec!TakeData, Codec!ReadData
  <2>3. Codec!TypeOK /\ wire[1].cmd = "D"
    BY <2>2, ReadsHead DEF CodecInv
  <2>4. Codec!Params \in Results
    BY <2>2, <2>3, ReadsHead
  <2>5. Codec!Params.ok => Codec!UnescapeParameters(Codec!Params.text) \in Results
    BY <2>4, UnescapeTypes DEF Results
  <2>6. CASE Codec!ReadData
    <3>1. way \in {"inquire", "stream"} /\ ~Codec!TakeData
      BY <2>6 DEF Codec!ReadData, Codec!TakeData, Codec!ToClient
    <3> QED BY <2>1, <2>2, <2>3, <2>4, <2>5, <2>6, <3>1 DEF Codec!ReadData
  <2>7. CASE Codec!TakeData
    <3>1. ~Codec!ReadData
      BY <2>7 DEF Codec!ReadData, Codec!TakeData, Codec!ToClient
    <3> QED BY <2>2, <2>3, <2>4, <2>7, <3>1 DEF Codec!TakeData
  <2> QED BY <2>6, <2>7
<1>2. Codec!TypeOK /\ state = "reading" /\ Framed
  BY <1>1 DEF CodecInv, StepKept, Codec!Reads
<1>3. /\ way \in {"answer", "inquire", "stream"} /\ Sent \in Nat \ {0} /\ Framed'
      /\ Codec!Params \in Results /\ Codec!Params = Codec!UnescapeParameters(wire[1].params)
  BY <1>1, <1>2, NextLine, ReadsHead
<1>4. UNCHANGED <<way, text, rest, sender, sentTexts, lapsed, cutOff>>
  BY <1>1 DEF Codec!Reads
<1>5. /\ text \in Seq(Codec!Chars)
      /\ way = "answer" \/ (way = "inquire" /\ PlainText) => InChunks
      /\ way = "stream" /\ PlainText /\ ~cutOff => InPieces
  BY <1>2, TextTypes DEF CodecInv, StepKept
<1>6. way = "answer" <=> Codec!TakeData
  BY <1>3 DEF Codec!TakeData, Codec!ReadData, Codec!ToClient
<1>7. CASE ~r.ok
  <2>1. state' = "failed"
    BY <1>1, <1>7 DEF Codec!Take
  <2>2. ASSUME way = "answer" PROVE Codec!CutIn(text) # {}
    <3>1. PICK k \in 0..Len(text),
               p \in [1..Sent + 1 -> 0..Len(Codec!EscapeParameters(text))] : Chunks(p, k)
      BY <1>5, <2>2 DEF InChunks
    <3>2. ~Codec!UnescapeParameters(wire[1].params).ok
      BY <1>1, <1>3, <1>6, <1>7, <2>2
    <3> QED BY <1>2, <1>3, <3>1, <3>2, ChunkTaken
  <2>3. Codec!FailsWhenCut'
    BY <1>4, <2>1, <2>2 DEF Codec!FailsWhenCut, Codec!CutIn
  <2> QED BY <2>1, <2>3 DEF Arrived, StepKept, Codec!RightOrRefused, Codec!Received
<1>8. CASE r.ok
  <2>1. state' = "reading" /\ received' = received \o r.text
    BY <1>1, <1>8 DEF Codec!Take
  <2>2. ASSUME way = "answer" \/ (way = "inquire" /\ PlainText) PROVE InChunks'
    <3>1. PICK k \in 0..Len(text),
               p \in [1..Sent + 1 -> 0..Len(Codec!EscapeParameters(text))] : Chunks(p, k)
      BY <1>5, <2>2 DEF InChunks
    <3>2. Codec!Params.ok
      <4>1. way = "inquire" => Codec!ReadData
        BY <1>6
      <4> QED BY <1>1, <1>6, <1>8, <2>2, <4>1 DEF Codec!Malformed
    <3>3. PICK m \in k..Len(text) :
             Codec!Params.text = SubSeq(text, k + 1, m) /\ p[2] = Off(text, m)
                   /\ Codec!CutIn(text) \cap 1..m = {}
      BY <1>2, <1>3, <3>1, <3>2, ChunkTaken
    <3>4. r.text = SubSeq(text, k + 1, m)
      <4>1. CASE way = "answer"
        BY <1>1, <1>6, <3>3, <4>1
      <4>2. CASE way = "inquire" /\ PlainText
        <5>1. Codec!ReadData
          BY <1>6, <4>2
        <5>2. Codec!UnescapeParameters(SubSeq(text, k + 1, m)) = [ok |-> TRUE,
                 text |-> SubSeq(text, k + 1, m)]
          BY <1>5, <4>2, PlainParts DEF PlainText
        <5> QED BY <1>1, <3>2, <3>3, <5>1, <5>2
      <4> QED BY <2>2, <4>1, <4>2
    <3>5. received' = received \o SubSeq(text, k + 1, m)
      BY <2>1, <3>4
    <3> QED BY <1>1, <1>2, <3>1, <3>3, <3>5, ChunksShift
  <2>3. ASSUME way = "stream", PlainText, ~cutOff PROVE InPieces'
    <3>1. PICK p \in [1..Sent + 1 -> 0..Len(text)] : Pieces(p)
      BY <1>5, <2>3 DEF InPieces
    <3>2. 1 \in 1..Sent /\ 1 \in 1..Sent + 1 /\ 2 \in 1..Sent + 1 /\ 1 + 1 = 2
      BY <1>3
    <3>3. p[1] \in 0..Len(text) /\ p[2] \in p[1]..Len(text)
      <4>1. p[1] \in 0..Len(text) /\ p[2] \in 0..Len(text) /\ p[1] <= p[2]
        BY <3>1, <3>2 DEF Pieces
      <4> QED BY <4>1
    <3> DEFINE u == SubSeq(text, p[1] + 1, p[2])
    <3>4. wire[1].params = Codec!EscapeParameters(u)
      BY <3>1, <3>2 DEF Pieces
    <3>5. u \in Seq(Codec!Chars)
      BY <1>5, <3>3
    <3>6. Codec!UnescapeParameters(u) = [ok |-> TRUE, text |-> u]
      BY <1>5, <2>3, <3>3, PlainParts DEF PlainText
    <3> HIDE DEF u
    <3>7. Codec!Params = [ok |-> TRUE, text |-> u]
      BY <1>3, <3>4, <3>5, EscapesUndone
    <3>8. Codec!ReadData
      BY <1>6, <2>3
    <3>9. r.text = u
      BY <1>1, <3>6, <3>7, <3>8
    <3>10. received' = received \o SubSeq(text, p[1] + 1, p[2])
      BY <2>1, <3>9 DEF u
    <3> QED BY <1>1, <1>2, <3>1, <3>10, PiecesShift
  <2>4. PlainText' = PlainText
    BY <1>4 DEF PlainText
  <2> QED BY <1>3, <1>4, <2>1, <2>2, <2>3, <2>4
     DEF Arrived, StepKept, Codec!RightOrRefused, Codec!FailsWhenCut, Codec!Received
<1>9. r.ok \in BOOLEAN
  BY DEF Results
<1> QED BY <1>7, <1>8, <1>9

LEMMA WordArrives ==
  ASSUME CodecInv, ~lapsed, Codec!TakeLine \/ Codec!TakeError
  PROVE  Arrived'
<1>1. PICK cmds : Codec!Reads(cmds) /\ cmds \subseteq {"C", "ERR"}
  BY DEF Codec!TakeLine, Codec!TakeError
<1>2. Codec!TypeOK /\ state = "reading" /\ Framed
  BY <1>1 DEF CodecInv, StepKept, Codec!Reads
<1>3. /\ wire[1].cmd \in {"C", "ERR"} /\ way \in {"params", "error"} /\ received = << >>
      /\ sender = "idle" /\ wire' = << >> /\ wire[1].params = Codec!EscapeParameters(text)
      /\ Codec!Params = Codec!UnescapeParameters(wire[1].params)
  <2>1. wire[1].cmd \in {"C", "ERR"} /\ Codec!Params = Codec!UnescapeParameters(wire[1].params)
    BY <1>1, <1>2, ReadsHead
  <2> QED BY <1>1, <1>2, <2>1, NextLine
<1>4. text \in Seq(Codec!Chars) /\ << >> \o text = text
  BY <1>2, TextTypes
<1>5. Codec!Params = [ok |-> TRUE, text |-> text]
  BY <1>3, <1>4, EscapesUndone
<1>6. /\ state' \in {"done", "failed"} /\ (state' = "done" => received' = text)
  <2>1. CASE Codec!TakeLine
    BY <1>3, <1>4, <1>5, <2>1 DEF Codec!TakeLine, Codec!Take
  <2>2. CASE Codec!TakeError
    <3>1. Codec!Take(Codec!DecodeErrCmd(text), "done")
      BY <1>5, <2>2 DEF Codec!TakeError
    <3>2. Codec!DecodeErrCmd(text).ok => Codec!DecodeErrCmd(text).text = text
      BY <1>4, Decoded
    <3> QED BY <1>3, <1>4, <3>1, <3>2 DEF Codec!Take
  <2> QED BY <2>1, <2>2
<1>7. UNCHANGED <<way, text, sender, lapsed>>
  BY <1>1 DEF Codec!Reads
<1> QED BY <1>3, <1>6, <1>7 DEF Arrived, StepKept, Codec!RightOrRefused, Codec!FailsWhenCut,
   Codec!Received

LEMMA EndArrives ==
  ASSUME CodecInv, ~lapsed, Codec!TakeEnd
  PROVE  Arrived'
<1>1. Codec!Reads({"OK", "END"}) /\ state' = "done" /\ UNCHANGED received
  BY DEF Codec!TakeEnd
<1>2. Codec!TypeOK /\ state = "reading" /\ Framed
  BY <1>1 DEF CodecInv, StepKept, Codec!Reads
<1>3. way \in {"answer", "inquire", "stream"} /\ Sent = 0 /\ sender = "idle" /\ wire' = << >>
  <2>1. wire[1].cmd \in {"OK", "END"}
    BY <1>1, <1>2, ReadsHead
  <2> QED BY <1>1, <1>2, <2>1, NextLine
<1>4. UNCHANGED <<way, text, sender, lapsed, cutOff>>
  BY <1>1 DEF Codec!Reads
<1>5. text \in Seq(Codec!Chars) /\ SubSeq(text, 1, Len(text)) = text /\ 1 \in 1..0 + 1
         /\ Len(text) \in Nat
  BY <1>2, TextTypes
<1>6. ASSUME InChunks PROVE received = text /\ Codec!CutIn(text) = {}
  <2>1. PICK k \in 0..Len(text),
             p \in [1..0 + 1 -> 0..Len(Codec!EscapeParameters(text))] : Chunks(p, k)
    BY <1>3, <1>6 DEF InChunks
  <2>2. Off(text, k) = Off(text, Len(text))
    <3>1. p[0 + 1] = Len(Codec!EscapeParameters(text)) /\ p[1] = Off(text, k)
      BY <1>3, <2>1 DEF Chunks
    <3> QED BY <1>5, <3>1, Offsets
  <2>3. k = Len(text)
    <3>1. Off(text, k) + (Len(text) - k) <= Off(text, Len(text))
      <4>1. Len(text) \in k..Len(text)
        BY <1>5
      <4> QED BY <1>5, <4>1, Grows
    <3>2. Off(text, k) \in Nat
      BY <1>5, Offsets
    <3>3. Len(text) - k <= 0
      BY <1>5, <2>2, <3>1, <3>2
    <3>4. k \in Nat /\ k <= Len(text)
      BY <1>5
    <3>5. \A a, b \in Nat : a - b <= 0 /\ b <= a => b = a
      OBVIOUS
    <3>6. Len(text) \in Nat
      BY <1>5
    <3> QED BY <3>3, <3>4, <3>5, <3>6
  <2>4. received = text
    BY <1>5, <2>1, <2>3 DEF Chunks
  <2>5. Codec!CutIn(text) \cap 1..Len(text) = {} /\ Codec!CutIn(text) \subseteq 1..Len(text)
    <3>1. Codec!CutIn(text) \subseteq DOMAIN text
      BY DEF Codec!CutIn
    <3> QED BY <1>5, <2>1, <2>3, <3>1 DEF Chunks
  <2> QED BY <2>4, <2>5
<1>7. ASSUME InPieces PROVE received = text
  <2>1. PICK p \in [1..0 + 1 -> 0..Len(text)] : Pieces(p)
    BY <1>3, <1>7 DEF InPieces
  <2>2. p[0 + 1] = Len(text) /\ received = SubSeq(text, 1, p[1])
    BY <1>3, <2>1 DEF Pieces
  <2> QED BY <1>5, <2>2
<1>8. /\ way = "answer" \/ (way = "inquire" /\ PlainText) => InChunks
      /\ way = "stream" /\ PlainText /\ ~cutOff => InPieces
  BY <1>2 DEF CodecInv, StepKept
<1>9. Codec!RightOrRefused'
  BY <1>1, <1>3, <1>4, <1>6, <1>7, <1>8 DEF Codec!RightOrRefused, PlainText
<1>10. Codec!FailsWhenCut'
  BY <1>1, <1>4, <1>6, <1>8 DEF Codec!FailsWhenCut, Codec!CutIn
<1> QED BY <1>1, <1>3, <1>4, <1>9, <1>10 DEF Arrived, StepKept

\* Every step.
LEMMA CodecStep ==
  ASSUME CodecInv, [Codec!Next]_(Codec!vars)
  PROVE  CodecInv'
<1>1. Codec!TypeOK' /\ Codec!DataFits' /\ (lapsed => way \in Codec!ToClient)'
  BY CodecTypes, FitsStep DEF CodecInv
<1>2. Arrived'
  <2>1. CASE Codec!Call
    BY <2>1, CallArrives
  <2>2. CASE Codec!Sender
    BY <2>2, SenderArrives
  <2>3. CASE Codec!Receiver /\ lapsed
    <3>1. lapsed'
      BY <2>3 DEF Codec!Receiver, Codec!TooLong, Codec!TakeData, Codec!ReadData,
         Codec!TakeLine, Codec!TakeError, Codec!TakeEnd, Codec!Reads
    <3> QED BY <3>1 DEF Arrived, Codec!RightOrRefused, Codec!FailsWhenCut
  <2>4. CASE ~lapsed /\ Codec!TooLong
    BY <2>4 DEF Codec!TooLong, Arrived, StepKept, Codec!RightOrRefused, Codec!FailsWhenCut,
       Codec!Received
  <2>5. CASE Codec!Receiver /\ ~lapsed
    BY <2>4, <2>5, DataArrives, WordArrives, EndArrives DEF Codec!Receiver
  <2>6. CASE UNCHANGED Codec!vars
    <3>1. Sent' = Sent /\ PlainText' = PlainText /\ Framed' = Framed
      BY <2>6 DEF Codec!vars, Sent, PlainText, Framed
    <3>2. InChunks' = InChunks /\ InPieces' = InPieces
      BY <2>6, <3>1 DEF Codec!vars, InChunks, InPieces, Chunks, Pieces
    <3> QED BY <2>6, <3>1, <3>2
       DEF Codec!vars, CodecInv, Arrived, StepKept, Codec!RightOrRefused, Codec!FailsWhenCut,
            Codec!Received
  <2> QED BY <2>1, <2>2, <2>3, <2>5, <2>6 DEF Codec!Next
<1> QED BY <1>1, <1>2 DEF CodecInv, Arrived

\* What becomes of a text is right, for any text, any limit on lines and any number
\* of texts on a session: it arrives as it was sent or is refused, an answer is
\* refused only when an escape was cut in two, and then always, and no line of
\* data is too long (src/assuan/common/io.go, escape.go, error.go).
THEOREM TextRightCorrect == AssuanSpec => []TextRight
<1>1. AssuanInit => Codec!Init
  BY DEF AssuanInit
<1>2. [AssuanNext]_allVars => [Codec!Next]_(Codec!vars)
  BY DEF AssuanNext, InSession, InCodec, InAsker, allVars, codecVars, Codec!vars
<1>3. CodecInv => TextRight
  BY DEF CodecInv, TextRight, Codec!TextRight
<1> QED BY <1>1, <1>2, <1>3, CodecInit, CodecStep, PTL DEF AssuanSpec
=============================================================================
