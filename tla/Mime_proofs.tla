------------------------------ MODULE Mime_proofs ------------------------------
(***************************************************************************)
(* Every property of Mime, for any documents and file names and any limits *)
(* that satisfy MimeAssumption.                                            *)
(*                                                                         *)
(* The properties compare what the parser has with a reference that sees   *)
(* the whole text at once, so most of the work is about operators.  The    *)
(* module goes from those to the steps:                                    *)
(*                                                                         *)
(*  - induction, from the least element of a set of numbers, and with it   *)
(*    FlattenSeq one sequence at a time (FirstStep);                       *)
(*  - Canon is the homomorphism that it is meant to be (CanonConcat), and  *)
(*    changes nothing that is canonical (CanonTwice);                      *)
(*  - a line as BIO_gets returns it (LineEndIs), and what strip_eol leaves *)
(*    of it: put together again, the canonical line (KeptCanon);           *)
(*  - the invariant, and where in the text composed its parts lie (Laid,   *)
(*    Framing), which canonical line ends leave as it is (CanonComposed);  *)
(*  - mime_parse_hdr, one character at a time (ScanStep), and the only     *)
(*    parameter it finds: all of the boundary (BoundFound), the name of a  *)
(*    file or a beginning of it (FileNamed);                               *)
(*  - multi_split, one line at a time (FromSplitting);                     *)
(*  - the steps, and the theorems.                                         *)
(***************************************************************************)
EXTENDS Mime, TLAPS, SequenceTheorems, WellFoundedInduction

-----------------------------------------------------------------------------
(* Induction over the natural numbers, for the members of a set.            *)

LEMMA Least ==
  ASSUME NEW T \in SUBSET Nat, T # {}
  PROVE  \E n \in T : \A m \in T : n <= m
<1>1. PICK n \in T : \A m \in T : <<m, n>> \notin OpToRel(<, Nat)
  BY NatLessThanWellFounded, WFMin
<1>2. \A m \in T : ~(m < n)
  BY <1>1 DEF OpToRel
<1> QED BY <1>2

LEMMA Induction ==
  ASSUME NEW T, 0 \in T, \A n \in Nat : n \in T => n + 1 \in T
  PROVE  \A n \in Nat : n \in T
<1> SUFFICES ASSUME NEW k \in Nat, k \notin T PROVE FALSE
  OBVIOUS
<1> DEFINE Bad == {n \in Nat : n \notin T}
<1>1. PICK n \in Bad : \A m \in Bad : n <= m
  BY Least
<1>2. n # 0 /\ n - 1 \in Nat
  OBVIOUS
<1>3. n - 1 \in T
  BY <1>1, <1>2
<1> QED BY <1>2, <1>3

(* A nonempty set of numbers within bounds has a smallest and a largest.    *)
LEMMA MinIs ==
  ASSUME NEW T \in SUBSET Nat, T # {}
  PROVE  Min(T) \in T /\ \A m \in T : Min(T) <= m
BY Least DEF Min

LEMMA MaxIs ==
  ASSUME NEW k \in Nat, NEW T \in SUBSET (0 .. k), T # {}
  PROVE  Max(T) \in T /\ \A m \in T : m <= Max(T)
<1> DEFINE U == {k - m : m \in T}
<1>1. U \in SUBSET Nat /\ U # {}
  <2>1. \A m \in T : k - m \in Nat
    OBVIOUS
  <2> QED BY <2>1
<1>2. PICK u \in U : \A v \in U : u <= v
  BY <1>1, Least
<1>3. PICK n \in T : u = k - n
  OBVIOUS
<1>4. \A m \in T : k - m \in U
  OBVIOUS
<1>5. \A m \in T : n >= m
  BY <1>2, <1>3, <1>4
<1> QED BY <1>5 DEF Max
-----------------------------------------------------------------------------
(* FlattenSeq of the first i of n sequences.                                *)
First(f, i) == FlattenSeq([j \in 1 .. i |-> f[j]])

(* g[i] is what FlattenSeq makes of the first i of f.                       *)
Flattens(S, f, m, g) ==
  /\ g \in [0 .. m -> Seq(S)] /\ g[0] = <<>>
  /\ \A i \in 1 .. m : g[i] = g[i - 1] \o f[i]

(* FlattenSeq by its recursion.                                             *)
LEMMA FlattensExists ==
  ASSUME NEW S, NEW n \in Nat, NEW f \in [1 .. n -> Seq(S)]
  PROVE  \E g : Flattens(S, f, n, g)
<1> DEFINE T == {m \in Nat : m <= n => \E g : Flattens(S, f, m, g)}
<1>1. 0 \in T
  <2> DEFINE z == [i \in 0 .. 0 |-> <<>>]
  <2>1. <<>> \in Seq(S)
    BY EmptySeq
  <2>2. Flattens(S, f, 0, z)
    BY <2>1 DEF Flattens
  <2> QED BY <2>2
<1>2. ASSUME NEW m \in Nat, m \in T PROVE m + 1 \in T
  <2>1. ASSUME m + 1 <= n PROVE \E g : Flattens(S, f, m + 1, g)
    <3>1. m <= n /\ m + 1 \in 1 .. n
      BY <2>1
    <3>2. PICK g : Flattens(S, f, m, g)
      BY <1>2, <3>1
    <3> DEFINE h == [i \in 0 .. m + 1 |->
                      IF i = m + 1 THEN g[m] \o f[m + 1] ELSE g[i]]
    <3>3. g[m] \o f[m + 1] \in Seq(S)
      BY <3>1, <3>2, ConcatProperties DEF Flattens
    <3>4. h \in [0 .. m + 1 -> Seq(S)]
      BY <3>2, <3>3 DEF Flattens
    <3>5. h[0] = <<>>
      BY <3>2 DEF Flattens
    <3>6. ASSUME NEW i \in 1 .. m + 1 PROVE h[i] = h[i - 1] \o f[i]
      <4>1. i - 1 \in 0 .. m /\ h[i - 1] = g[i - 1]
        OBVIOUS
      <4>2. CASE i = m + 1
        <5>1. i - 1 = m /\ h[i] = g[m] \o f[i]
          BY <4>2
        <5> QED BY <4>1, <5>1
      <4>3. CASE i # m + 1
        <5>1. i \in 1 .. m /\ h[i] = g[i]
          BY <4>3
        <5> QED BY <3>2, <4>1, <5>1 DEF Flattens
      <4> QED BY <4>2, <4>3
    <3> HIDE DEF h
    <3>7. Flattens(S, f, m + 1, h)
      BY <3>4, <3>5, <3>6 DEF Flattens
    <3> QED BY <3>7
  <2> QED BY <2>1
<1> HIDE DEF T
<1>3. n \in T
  BY <1>1, <1>2, Induction
<1> QED BY <1>3 DEF T

LEMMA Flattening ==
  ASSUME NEW S, NEW n \in Nat, NEW f \in [1 .. n -> Seq(S)],
         NEW g, Flattens(S, f, n, g)
  PROVE  FlattenSeq(f) = g[n]
<1>1. f \in Seq(Seq(S)) /\ Len(f) = n
  OBVIOUS
<1>2. CASE n = 0
  <2>1. f = <<>>
    BY <1>1, <1>2
  <2> QED BY <1>1, <1>2, <2>1 DEF FlattenSeq, Flattens
<1>3. CASE n # 0
  <2> DEFINE k == [i \in 1 .. n |-> g[i]]
  <2>1. ASSUME NEW i \in 1 .. n
        PROVE  k[i] = IF i = 1 THEN f[i] ELSE k[i - 1] \o f[i]
    <3>1. k[i] = g[i - 1] \o f[i] /\ f[i] \in Seq(S)
      BY DEF Flattens
    <3>2. CASE i = 1
      <4>1. g[i - 1] = <<>>
        BY <3>2 DEF Flattens
      <4>2. <<>> \o f[i] = f[i]
        BY <3>1, ConcatEmptySeq
      <4> QED BY <3>1, <3>2, <4>1, <4>2
    <3>3. CASE i # 1
      BY <3>1, <3>3
    <3> QED BY <3>2, <3>3
  <2>2. k = [i \in 1 .. n |-> IF i = 1 THEN f[i] ELSE k[i - 1] \o f[i]]
    BY <2>1
  <2> HIDE DEF k
  <2>3. PICK h : /\ h = [i \in 1 .. n |-> IF i = 1 THEN f[i] ELSE h[i - 1] \o f[i]]
                 /\ FlattenSeq(f) = h[n]
    BY <1>1, <1>3, <2>2 DEF FlattenSeq
  <2>4. \A i \in 1 .. n : h[i] = IF i = 1 THEN f[i] ELSE h[i - 1] \o f[i]
    BY <2>3
  <2> DEFINE U == {m \in Nat : m \in 1 .. n => h[m] = g[m]}
  <2>5. 0 \in U
    OBVIOUS
  <2>6. ASSUME NEW m \in Nat, m \in U PROVE m + 1 \in U
    <3>1. ASSUME m + 1 \in 1 .. n PROVE h[m + 1] = g[m + 1]
      <4>1. g[m + 1] = g[m] \o f[m + 1] /\ f[m + 1] \in Seq(S)
        <5>1. (m + 1) - 1 = m
          OBVIOUS
        <5> QED BY <3>1, <5>1 DEF Flattens
      <4>2. CASE m = 0
        <5>1. h[1] = f[1] /\ g[0] = <<>>
          <6>1. 1 \in 1 .. n
            BY <3>1, <4>2
          <6> QED BY <2>4, <6>1 DEF Flattens
        <5> QED BY <4>1, <4>2, <5>1, ConcatEmptySeq
      <4>3. CASE m # 0
        <5>1. h[m + 1] = h[m] \o f[m + 1]
          <6>1. m + 1 # 1 /\ (m + 1) - 1 = m
            BY <4>3
          <6>2. h[m + 1] = h[(m + 1) - 1] \o f[m + 1]
            BY <2>4, <3>1, <6>1
          <6> QED BY <6>1, <6>2
        <5>2. h[m] = g[m]
          BY <2>6, <3>1, <4>3
        <5> QED BY <4>1, <5>1, <5>2
      <4> QED BY <4>2, <4>3
    <3> QED BY <3>1
  <2> HIDE DEF U
  <2>7. n \in U
    BY <2>5, <2>6, Induction
  <2> QED BY <1>3, <2>3, <2>7 DEF U
<1> QED BY <1>2, <1>3

(* FlattenSeq one sequence at a time, and the whole begins with each part.  *)
LEMMA FirstStep ==
  ASSUME NEW S, NEW n \in Nat, NEW f \in [1 .. n -> Seq(S)]
  PROVE  /\ First(f, 0) = <<>> /\ First(f, n) = FlattenSeq(f)
         /\ \A i \in 0 .. n : First(f, i) \in Seq(S)
         /\ \A i \in 1 .. n : First(f, i) = First(f, i - 1) \o f[i]
<1>1. PICK g : Flattens(S, f, n, g)
  BY FlattensExists
<1>2. ASSUME NEW i \in 0 .. n PROVE First(f, i) = g[i]
  <2> DEFINE e == [j \in 1 .. i |-> f[j]]
             h == [j \in 0 .. i |-> g[j]]
  <2>1. i \in Nat /\ e \in [1 .. i -> Seq(S)]
    OBVIOUS
  <2>2. ASSUME NEW j \in 1 .. i PROVE h[j] = h[j - 1] \o e[j]
    <3>1. j \in 1 .. n /\ j - 1 \in 0 .. i
      OBVIOUS
    <3>2. g[j] = g[j - 1] \o f[j]
      BY <1>1, <3>1 DEF Flattens
    <3> QED BY <3>1, <3>2
  <2>3. h \in [0 .. i -> Seq(S)] /\ h[0] = <<>>
    BY <1>1 DEF Flattens
  <2> HIDE DEF h
  <2>4. Flattens(S, e, i, h)
    BY <2>2, <2>3 DEF Flattens
  <2>5. FlattenSeq(e) = h[i]
    <3> HIDE DEF e
    <3> QED BY <2>1, <2>4, Flattening
  <2> QED BY <2>5 DEF First, h
<1>3. [j \in 1 .. n |-> f[j]] = f
  OBVIOUS
<1>4. First(f, n) = FlattenSeq(f)
  BY <1>3 DEF First
<1>5. ASSUME NEW i \in 1 .. n PROVE First(f, i) = First(f, i - 1) \o f[i]
  <2>1. i \in 0 .. n /\ i - 1 \in 0 .. n
    OBVIOUS
  <2>2. g[i] = g[i - 1] \o f[i]
    BY <1>1 DEF Flattens
  <2> QED BY <1>2, <2>1, <2>2
<1>6. First(f, 0) = <<>> /\ \A i \in 0 .. n : First(f, i) \in Seq(S)
  <2>1. 0 \in 0 .. n
    OBVIOUS
  <2> QED BY <1>1, <1>2, <2>1 DEF Flattens
<1> QED BY <1>4, <1>5, <1>6

LEMMA FirstIsPrefix ==
  ASSUME NEW S, NEW n \in Nat, NEW f \in [1 .. n -> Seq(S)], NEW i \in 0 .. n
  PROVE  /\ Len(First(f, i)) <= Len(First(f, n))
         /\ \A k \in 1 .. Len(First(f, i)) : First(f, n)[k] = First(f, i)[k]
<1> DEFINE Begins(m) == /\ Len(First(f, i)) <= Len(First(f, m))
                        /\ \A k \in 1 .. Len(First(f, i)) :
                             First(f, m)[k] = First(f, i)[k]
           T == {d \in Nat : i + d <= n => Begins(i + d)}
<1>1. 0 \in T
  <2>1. First(f, i) \in Seq(S)
    BY FirstStep
  <2> QED BY <2>1
<1>2. ASSUME NEW d \in Nat, d \in T PROVE d + 1 \in T
  <2>1. ASSUME i + (d + 1) <= n PROVE Begins(i + (d + 1))
    <3>1. i + d \in 0 .. n /\ i + (d + 1) \in 1 .. n /\ (i + (d + 1)) - 1 = i + d
      BY <2>1
    <3>2. Begins(i + d)
      BY <1>2, <3>1
    <3>3. /\ First(f, i) \in Seq(S) /\ First(f, i + d) \in Seq(S)
          /\ f[i + (d + 1)] \in Seq(S)
          /\ First(f, i + (d + 1)) = First(f, i + d) \o f[i + (d + 1)]
      BY <3>1, FirstStep
    <3> DEFINE a == First(f, i)
               b == First(f, i + d)
               c == f[i + (d + 1)]
    <3>4. a \in Seq(S) /\ b \in Seq(S) /\ c \in Seq(S)
      BY <3>3
    <3>5. /\ Len(a) \in Nat /\ Len(b) \in Nat /\ Len(c) \in Nat
          /\ Len(b \o c) = Len(b) + Len(c)
          /\ \A k \in 1 .. Len(b) + Len(c) :
               (b \o c)[k] = IF k <= Len(b) THEN b[k] ELSE c[k - Len(b)]
      BY <3>4, ConcatProperties, LenProperties
    <3>6. Len(a) <= Len(b) /\ \A k \in 1 .. Len(a) : b[k] = a[k]
      BY <3>2
    <3> HIDE DEF a, b, c
    <3>7. Len(a) <= Len(b \o c) /\ \A k \in 1 .. Len(a) : (b \o c)[k] = a[k]
      BY <3>5, <3>6
    <3> QED BY <3>3, <3>7 DEF a, b, c
  <2> QED BY <2>1
<1>3. n - i \in T
  <2>1. n - i \in Nat
    OBVIOUS
  <2> HIDE DEF T
  <2> QED BY <1>1, <1>2, <2>1, Induction
<1>4. i + (n - i) = n
  OBVIOUS
<1> QED BY <1>3, <1>4

(* Induction over sequences, for the members of a set.                      *)
LEMMA SeqInduction ==
  ASSUME NEW S, NEW T, <<>> \in T,
         \A s \in Seq(S), c \in S : s \in T => s \o <<c>> \in T
  PROVE  \A s \in Seq(S) : s \in T
<1> SUFFICES ASSUME NEW s \in Seq(S) PROVE s \in T
  OBVIOUS
<1> DEFINE U == {n \in Nat : n <= Len(s) => SubSeq(s, 1, n) \in T}
<1>1. 0 \in U
  <2>1. SubSeq(s, 1, 0) = <<>>
    BY SubSeqEmpty
  <2> QED BY <2>1
<1>2. ASSUME NEW n \in Nat, n \in U PROVE n + 1 \in U
  <2>1. ASSUME n + 1 <= Len(s) PROVE SubSeq(s, 1, n + 1) \in T
    <3>1. n <= Len(s) /\ 1 \in 1 .. Len(s) /\ n + 1 \in 1 .. Len(s) /\ (n + 1) - 1 = n
      BY <2>1, LenProperties
    <3>2. SubSeq(s, 1, n + 1) = SubSeq(s, 1, n) \o <<s[n + 1]>>
      BY <3>1, SubSeqRecursiveSecond
    <3>3. SubSeq(s, 1, n) \in Seq(S) /\ s[n + 1] \in S
      BY <3>1, SubSeqProperties, ElementOfSeq
    <3>4. SubSeq(s, 1, n) \in T
      BY <1>2, <3>1
    <3> QED BY <3>2, <3>3, <3>4
  <2> QED BY <2>1
<1>3. Len(s) \in U
  <2>1. Len(s) \in Nat
    BY LenProperties
  <2> HIDE DEF U
  <2> QED BY <1>1, <1>2, <2>1, Induction
<1>4. SubSeq(s, 1, Len(s)) = s /\ Len(s) \in Nat
  BY SubSeqFull, LenProperties
<1>5. SubSeq(s, 1, Len(s)) \in T
  BY <1>3, <1>4
<1> QED BY <1>4, <1>5
-----------------------------------------------------------------------------
(* Canonical line ends.                                                     *)
CanonChar(c) == IF c = LF THEN CRLF ELSE IF c = CR THEN <<>> ELSE <<c>>

LEMMA CanonEmpty == Canon(<<>>) = <<>>
BY DEF Canon, FlattenSeq

LEMMA OneToken == \A c \in Token : <<c>> \in Text
BY DEF Text

LEMMA CanonCharType == \A c \in Token : CanonChar(c) \in Text
<1>1. CRLF \in Text /\ <<>> \in Text
  BY DEF CRLF, CR, LF, Token, Text
<1> QED BY <1>1, OneToken DEF CanonChar

LEMMA CanonAppend ==
  ASSUME NEW s \in Text, NEW c \in Token
  PROVE  Canon(s) \in Text /\ Canon(s \o <<c>>) = Canon(s) \o CanonChar(c)
<1> DEFINE t == s \o <<c>>
           n == Len(s)
           f == [i \in 1 .. n + 1 |-> CanonChar(t[i])]
<1>1. /\ n \in Nat /\ t \in Text /\ Len(t) = n + 1 /\ t[n + 1] = c
      /\ \A i \in 1 .. n : t[i] = s[i]
  BY DEF Text
<1>2. \A i \in 1 .. n + 1 : t[i] \in Token
  BY <1>1 DEF Text
<1>3. DOMAIN s = 1 .. n /\ DOMAIN t = 1 .. n + 1
  BY <1>1 DEF Text
<1> HIDE DEF t, n
<1>4. f \in [1 .. n + 1 -> Text]
  BY <1>1, <1>2, CanonCharType
<1>5. Canon(t) = FlattenSeq(f)
  BY <1>3 DEF Canon, CanonChar
<1>6. [j \in 1 .. n |-> f[j]] = [j \in 1 .. n |-> CanonChar(s[j])]
  BY <1>1
<1>7. Canon(s) = First(f, n)
  BY <1>3, <1>6 DEF Canon, CanonChar, First
<1>8. n + 1 \in Nat /\ n \in 0 .. n + 1 /\ n + 1 \in 1 .. n + 1 /\ (n + 1) - 1 = n
  BY <1>1
<1>9. f[n + 1] = CanonChar(c)
  BY <1>1, <1>8
<1> HIDE DEF f
<1>10. /\ First(f, n + 1) = FlattenSeq(f) /\ First(f, n) \in Text
       /\ First(f, n + 1) = First(f, n) \o f[n + 1]
  BY <1>4, <1>8, FirstStep DEF Text
<1> QED BY <1>5, <1>7, <1>9, <1>10 DEF t

LEMMA CanonType == \A s \in Text : Canon(s) \in Text
<1>1. "x" \in Token
  BY DEF Token, NameChar
<1> QED BY <1>1, CanonAppend

LEMMA CanonOne == \A c \in Token : Canon(<<c>>) = CanonChar(c)
<1> SUFFICES ASSUME NEW c \in Token PROVE Canon(<<c>>) = CanonChar(c)
  OBVIOUS
<1>1. <<>> \in Text /\ <<c>> \in Text /\ CanonChar(c) \in Text
  BY CanonCharType, OneToken, EmptySeq DEF Text
<1>3. <<>> \o <<c>> = <<c>>
  BY <1>1, ConcatEmptySeq DEF Text
<1>2. <<>> \o CanonChar(c) = CanonChar(c)
  BY <1>1, ConcatEmptySeq DEF Text
<1> QED BY <1>1, <1>2, <1>3, CanonAppend, CanonEmpty

LEMMA CanonConcat ==
  \A s, t \in Text : Canon(s \o t) = Canon(s) \o Canon(t)
<1> SUFFICES ASSUME NEW s \in Text PROVE \A t \in Text : Canon(s \o t) = Canon(s) \o Canon(t)
  OBVIOUS
<1> DEFINE T == {t \in Text : Canon(s \o t) = Canon(s) \o Canon(t)}
<1>0. Canon(s) \in Text
  BY CanonType
<1>1. <<>> \in T
  <2>1. <<>> \in Text /\ s \o <<>> = s /\ Canon(s) \o <<>> = Canon(s)
    BY <1>0, ConcatEmptySeq DEF Text
  <2> QED BY <2>1, CanonEmpty
<1>2. ASSUME NEW t \in Seq(Token), NEW c \in Token, t \in T PROVE t \o <<c>> \in T
  <2>1. t \in Text /\ <<c>> \in Text /\ t \o <<c>> \in Text /\ s \o t \in Text
    <3>1. t \in Seq(Token) /\ <<c>> \in Seq(Token) /\ s \in Seq(Token)
      BY OneToken DEF Text
    <3> QED BY <3>1, ConcatProperties DEF Text
  <2>2. Canon(t) \in Text /\ CanonChar(c) \in Text
    BY <2>1, CanonType, CanonCharType
  <2>3. s \o (t \o <<c>>) = (s \o t) \o <<c>>
    BY <2>1, ConcatAssociative DEF Text
  <2>4. Canon((s \o t) \o <<c>>) = Canon(s \o t) \o CanonChar(c)
    BY <2>1, CanonAppend
  <2>5. Canon(t \o <<c>>) = Canon(t) \o CanonChar(c)
    BY <2>1, CanonAppend
  <2>6. (Canon(s) \o Canon(t)) \o CanonChar(c) = Canon(s) \o (Canon(t) \o CanonChar(c))
    BY <1>0, <2>2, ConcatAssociative DEF Text
  <2>7. Canon(s \o t) = Canon(s) \o Canon(t)
    BY <1>2
  <2> QED BY <2>1, <2>3, <2>4, <2>5, <2>6, <2>7
<1> HIDE DEF T
<1>3. \A t \in Seq(Token) : t \in T
  BY <1>1, <1>2, SeqInduction
<1> QED BY <1>3 DEF T, Text
-----------------------------------------------------------------------------
(* Sequences of tokens.                                                     *)
LEMMA OfText ==
  ASSUME NEW s \in Text
  PROVE  /\ Len(s) \in Nat /\ DOMAIN s = 1 .. Len(s)
         /\ \A i \in 1 .. Len(s) : s[i] \in Token
BY DEF Text

LEMMA Joined ==
  ASSUME NEW a \in Text, NEW b \in Text
  PROVE  /\ a \o b \in Text /\ Len(a \o b) = Len(a) + Len(b)
         /\ \A i \in 1 .. Len(a) : (a \o b)[i] = a[i]
         /\ \A i \in 1 .. Len(b) : (a \o b)[Len(a) + i] = b[i]
<1>1. Len(a) \in Nat /\ Len(b) \in Nat
  BY DEF Text
<1>2. /\ a \o b \in Text /\ Len(a \o b) = Len(a) + Len(b)
      /\ \A i \in 1 .. Len(a) + Len(b) :
           (a \o b)[i] = IF i <= Len(a) THEN a[i] ELSE b[i - Len(a)]
  BY ConcatProperties DEF Text
<1>3. \A i \in 1 .. Len(b) : Len(a) + i \in 1 .. Len(a) + Len(b)
                             /\ ~(Len(a) + i <= Len(a)) /\ (Len(a) + i) - Len(a) = i
  BY <1>1
<1>4. \A i \in 1 .. Len(a) : i \in 1 .. Len(a) + Len(b) /\ i <= Len(a)
  BY <1>1
<1> QED BY <1>2, <1>3, <1>4

Joins(c, a, b) ==
  /\ c \in Text /\ Len(c) = Len(a) + Len(b)
  /\ \A i \in 1 .. Len(a) : c[i] = a[i]
  /\ \A i \in 1 .. Len(b) : c[Len(a) + i] = b[i]

LEMMA Joining == \A a, b \in Text : Joins(a \o b, a, b)
BY Joined DEF Joins

LEMMA Piece ==
  ASSUME NEW s \in Text, NEW m \in Nat \ {0}, NEW n \in Nat, n <= Len(s)
  PROVE  /\ SubSeq(s, m, n) \in Text
         /\ Len(SubSeq(s, m, n)) = IF m <= n THEN n - m + 1 ELSE 0
         /\ \A i \in 1 .. n - m + 1 : SubSeq(s, m, n)[i] = s[m + i - 1]
<1>1. \A i \in m .. n : s[i] \in Token
  <2>1. \A i \in m .. n : i \in 1 .. Len(s)
    BY OfText
  <2> QED BY <2>1, OfText
<1> QED BY <1>1, SubSeqProperties DEF Text

LEMMA Adjacent ==
  ASSUME NEW s \in Text, NEW m \in Nat \ {0}, NEW k \in Nat, NEW n \in Nat,
         m <= k + 1, k <= n, n <= Len(s)
  PROVE  SubSeq(s, m, k) \o SubSeq(s, k + 1, n) = SubSeq(s, m, n)
<1>1. m \in 1 .. Len(s) + 1 /\ k \in m - 1 .. Len(s) /\ n \in k .. Len(s)
  BY OfText
<1> QED BY <1>1, ConcatAdjacentSubSeq DEF Text

LEMMA EmptyText == <<>> \in Text /\ \A s \in Text : s \o <<>> = s /\ <<>> \o s = s
BY EmptySeq, ConcatEmptySeq DEF Text

LEMMA Assoc == \A a, b, c \in Text : (a \o b) \o c = a \o (b \o c)
BY ConcatAssociative DEF Text

LEMMA Same ==
  ASSUME NEW a \in Text, NEW b \in Text, Len(a) = Len(b),
         \A i \in 1 .. Len(a) : a[i] = b[i]
  PROVE  a = b
BY SeqEqual DEF Text

LEMMA Pair ==
  ASSUME NEW c, NEW d, <<c>> \in Text, <<d>> \in Text
  PROVE  <<c, d>> = <<c>> \o <<d>>
<1>1. c \in Token /\ d \in Token
  <2>1. Len(<<c>>) = 1 /\ Len(<<d>>) = 1 /\ <<c>>[1] = c /\ <<d>>[1] = d /\ 1 \in 1 .. 1
    OBVIOUS
  <2> QED BY <2>1, OfText
<1>2. <<c, d>> \in Text
  BY <1>1 DEF Text
<1>3. /\ <<c>> \o <<d>> \in Text /\ Len(<<c>> \o <<d>>) = 2
      /\ (<<c>> \o <<d>>)[1] = c /\ (<<c>> \o <<d>>)[2] = d
  BY Joined
<1>4. \A i \in 1 .. 2 : <<c, d>>[i] = (<<c>> \o <<d>>)[i]
  BY <1>3
<1> QED BY <1>2, <1>3, <1>4, Same

LEMMA Breaks == CRLF \in Text /\ Len(CRLF) = 2 /\ CRLF[1] = CR /\ CRLF[2] = LF /\ CR # LF
BY DEF CRLF, CR, LF, Token, Text

(* A text without line ends is canonical, and of CRs nothing is left.       *)
LEMMA CanonPlain ==
  \A s \in Text : (\A i \in 1 .. Len(s) : s[i] \notin {CR, LF}) => Canon(s) = s
<1> DEFINE T == {s \in Text : (\A i \in 1 .. Len(s) : s[i] \notin {CR, LF})
                              => Canon(s) = s}
<1>1. <<>> \in T
  BY EmptyText, CanonEmpty
<1>2. ASSUME NEW s \in Seq(Token), NEW c \in Token, s \in T PROVE s \o <<c>> \in T
  <2>1. s \in Text /\ <<c>> \in Text
    BY OneToken DEF Text
  <2>2. /\ s \o <<c>> \in Text /\ Len(s \o <<c>>) = Len(s) + 1 /\ Len(s) \in Nat
        /\ (s \o <<c>>)[Len(s) + 1] = c
        /\ \A i \in 1 .. Len(s) : (s \o <<c>>)[i] = s[i]
    BY <2>1, Joined, OfText
  <2>3. ASSUME \A i \in 1 .. Len(s \o <<c>>) : (s \o <<c>>)[i] \notin {CR, LF}
        PROVE  Canon(s \o <<c>>) = s \o <<c>>
    <3>1. Len(s) + 1 \in 1 .. Len(s) + 1 /\ \A i \in 1 .. Len(s) : i \in 1 .. Len(s) + 1
      BY <2>2
    <3>2. c \notin {CR, LF} /\ \A i \in 1 .. Len(s) : s[i] \notin {CR, LF}
      BY <2>2, <2>3, <3>1
    <3>3. Canon(s) = s /\ CanonChar(c) = <<c>>
      BY <1>2, <3>2 DEF CanonChar
    <3> QED BY <2>1, <3>3, CanonAppend
  <2> QED BY <2>2, <2>3
<1> HIDE DEF T
<1>3. \A s \in Seq(Token) : s \in T
  BY <1>1, <1>2, SeqInduction
<1> QED BY <1>3 DEF T, Text

LEMMA CanonCRs ==
  \A s \in Text : (\A i \in 1 .. Len(s) : s[i] = CR) => Canon(s) = <<>>
<1> DEFINE T == {s \in Text : (\A i \in 1 .. Len(s) : s[i] = CR) => Canon(s) = <<>>}
<1>1. <<>> \in T
  BY EmptyText, CanonEmpty
<1>2. ASSUME NEW s \in Seq(Token), NEW c \in Token, s \in T PROVE s \o <<c>> \in T
  <2>1. s \in Text /\ <<c>> \in Text
    BY OneToken DEF Text
  <2>2. /\ s \o <<c>> \in Text /\ Len(s \o <<c>>) = Len(s) + 1 /\ Len(s) \in Nat
        /\ (s \o <<c>>)[Len(s) + 1] = c
        /\ \A i \in 1 .. Len(s) : (s \o <<c>>)[i] = s[i]
    BY <2>1, Joined, OfText
  <2>3. ASSUME \A i \in 1 .. Len(s \o <<c>>) : (s \o <<c>>)[i] = CR
        PROVE  Canon(s \o <<c>>) = <<>>
    <3>1. Len(s) + 1 \in 1 .. Len(s) + 1 /\ \A i \in 1 .. Len(s) : i \in 1 .. Len(s) + 1
      BY <2>2
    <3>2. c = CR /\ \A i \in 1 .. Len(s) : s[i] = CR
      BY <2>2, <2>3, <3>1
    <3>3. Canon(s) = <<>> /\ CanonChar(c) = <<>>
      BY <1>2, <3>2, Breaks DEF CanonChar
    <3> QED BY <2>1, <3>3, CanonAppend, EmptyText
  <2> QED BY <2>2, <2>3
<1> HIDE DEF T
<1>3. \A s \in Seq(Token) : s \in T
  BY <1>1, <1>2, SeqInduction
<1> QED BY <1>3 DEF T, Text

(* What a part has to be for the parser: without the boundary, and with its *)
(* CRs at line ends.  It may end in one: the line end of the frame follows. *)
Splits(s) ==
  /\ s \in Text
  /\ \A j \in 1 .. Len(s) : /\ s[j] # "boundary"
                            /\ s[j] = CR => j = Len(s) \/ s[j + 1] \in {CR, LF}

(* So is a canonical text, whose CRs all are before LFs.                    *)
Clean(s) ==
  \A j \in 1 .. Len(s) : /\ s[j] # "boundary"
                         /\ s[j] = CR => j + 1 \in 1 .. Len(s) /\ s[j + 1] = LF

LEMMA CanonClean ==
  \A s \in Text : (\A i \in 1 .. Len(s) : s[i] # "boundary") => Clean(Canon(s))
<1> DEFINE T == {s \in Text : (\A i \in 1 .. Len(s) : s[i] # "boundary")
                              => Clean(Canon(s))}
<1>1. <<>> \in T
  BY EmptyText, CanonEmpty DEF Clean
<1>2. ASSUME NEW s \in Seq(Token), NEW c \in Token, s \in T PROVE s \o <<c>> \in T
  <2>1. s \in Text /\ <<c>> \in Text
    BY OneToken DEF Text
  <2>2. /\ s \o <<c>> \in Text /\ Len(s \o <<c>>) = Len(s) + 1 /\ Len(s) \in Nat
        /\ (s \o <<c>>)[Len(s) + 1] = c
        /\ \A i \in 1 .. Len(s) : (s \o <<c>>)[i] = s[i]
    BY <2>1, Joined, OfText
  <2>3. ASSUME \A i \in 1 .. Len(s \o <<c>>) : (s \o <<c>>)[i] # "boundary"
        PROVE  Clean(Canon(s \o <<c>>))
    <3>1. Len(s) + 1 \in 1 .. Len(s) + 1 /\ \A i \in 1 .. Len(s) : i \in 1 .. Len(s) + 1
      BY <2>2
    <3>2. c # "boundary" /\ \A i \in 1 .. Len(s) : s[i] # "boundary"
      BY <2>2, <2>3, <3>1
    <3>3. Clean(Canon(s)) /\ Canon(s \o <<c>>) = Canon(s) \o CanonChar(c)
      BY <1>2, <2>1, <3>2, CanonAppend
    <3> DEFINE a == Canon(s)
               b == CanonChar(c)
    <3>4. a \in Text /\ b \in Text
      BY <2>1, CanonType, CanonCharType
    <3>5. Clean(b) /\ Len(b) \in Nat
      <4>1. CASE c = LF
        <5>1. b = CRLF
          BY <4>1 DEF CanonChar
        <5>2. CR # "boundary" /\ LF # "boundary"
          BY DEF CR, LF
        <5> QED BY <5>1, <5>2, Breaks DEF Clean
      <4>2. CASE c = CR
        <5>1. b = <<>>
          BY <4>2, Breaks DEF CanonChar
        <5> QED BY <5>1 DEF Clean
      <4>3. CASE c \notin {CR, LF}
        <5>1. b = <<c>>
          BY <4>3 DEF CanonChar
        <5> QED BY <3>2, <4>3, <5>1 DEF Clean
      <4> QED BY <4>1, <4>2, <4>3
    <3>6. Clean(a)
      BY <3>3
    <3>7. /\ Len(a \o b) = Len(a) + Len(b) /\ Len(a) \in Nat
          /\ \A i \in 1 .. Len(a) : (a \o b)[i] = a[i]
          /\ \A i \in 1 .. Len(b) : (a \o b)[Len(a) + i] = b[i]
      BY <3>4, Joined, OfText
    <3> HIDE DEF a, b
    <3>8. ASSUME NEW j \in 1 .. Len(a) + Len(b)
          PROVE  /\ (a \o b)[j] # "boundary"
                 /\ (a \o b)[j] = CR => j + 1 \in 1 .. Len(a) + Len(b)
                                        /\ (a \o b)[j + 1] = LF
      <4>1. CASE j \in 1 .. Len(a)
        BY <3>5, <3>6, <3>7, <4>1 DEF Clean
      <4>2. CASE j \notin 1 .. Len(a)
        <5>1. PICK i \in 1 .. Len(b) : j = Len(a) + i /\ j + 1 = Len(a) + (i + 1)
          <6>1. j - Len(a) \in 1 .. Len(b) /\ j = Len(a) + (j - Len(a))
                /\ j + 1 = Len(a) + ((j - Len(a)) + 1)
            BY <3>5, <3>7, <4>2
          <6> QED BY <6>1
        <5>2. (a \o b)[j] = b[i]
          BY <3>7, <5>1
        <5>3. b[i] # "boundary" /\ (b[i] = CR => i + 1 \in 1 .. Len(b) /\ b[i + 1] = LF)
          BY <3>5 DEF Clean
        <5>4. i + 1 \in 1 .. Len(b) => j + 1 \in 1 .. Len(a) + Len(b)
                                       /\ (a \o b)[j + 1] = b[i + 1]
          BY <3>5, <3>7, <5>1
        <5> QED BY <5>2, <5>3, <5>4
      <4> QED BY <4>1, <4>2
    <3> QED BY <3>3, <3>7, <3>8 DEF Clean, a, b
  <2> QED BY <2>2, <2>3
<1> HIDE DEF T
<1>3. \A s \in Seq(Token) : s \in T
  BY <1>1, <1>2, SeqInduction
<1> QED BY <1>3 DEF T, Text

(* Canonical texts stay as they are.                                        *)
LEMMA CanonTwice == \A s \in Text : Canon(Canon(s)) = Canon(s)
<1> DEFINE T == {s \in Text : Canon(Canon(s)) = Canon(s)}
<1>1. <<>> \in T
  BY EmptyText, CanonEmpty
<1>0. Canon(CRLF) = CRLF
  <2>0. CR \in Token /\ LF \in Token
    BY DEF Token
  <2>2. <<CR>> \in Text /\ <<LF>> \in Text
    BY <2>0, OneToken
  <2>1. CRLF = <<CR>> \o <<LF>>
    BY <2>2, Pair DEF CRLF
  <2>3. Canon(<<CR>>) = <<>> /\ Canon(<<LF>>) = CRLF
    BY <2>0, CanonOne, Breaks DEF CanonChar
  <2>4. Canon(<<CR>> \o <<LF>>) = Canon(<<CR>>) \o Canon(<<LF>>)
    BY <2>2, CanonConcat
  <2>5. <<>> \o CRLF = CRLF
    BY EmptyText, Breaks
  <2> QED BY <2>1, <2>3, <2>4, <2>5
<1>2. ASSUME NEW s \in Seq(Token), NEW c \in Token, s \in T PROVE s \o <<c>> \in T
  <2>1. s \in Text /\ s \o <<c>> \in Text /\ <<c>> \in Text /\ CanonChar(c) \in Text
        /\ Canon(s) \in Text
    BY OneToken, Joined, CanonCharType, CanonType DEF Text
  <2>2. Canon(s \o <<c>>) = Canon(s) \o CanonChar(c)
    BY <2>1, CanonAppend
  <2>3. Canon(CanonChar(c)) = CanonChar(c)
    BY <1>0, CanonEmpty, CanonOne DEF CanonChar
  <2>4. Canon(Canon(s) \o CanonChar(c)) = Canon(Canon(s)) \o Canon(CanonChar(c))
    BY <2>1, CanonConcat
  <2> QED BY <1>2, <2>1, <2>2, <2>3, <2>4
<1> HIDE DEF T
<1>3. \A s \in Seq(Token) : s \in T
  BY <1>1, <1>2, SeqInduction
<1> QED BY <1>3 DEF T, Text

-----------------------------------------------------------------------------
(* The lines BIO_gets reads.                                                *)

LEMMA LineEndIs ==
  ASSUME text \in Text, pos \in 1 .. Len(text)
  PROVE  /\ LineEnd \in pos .. Len(text)
         /\ \A i \in pos .. LineEnd - 1 : text[i] # LF
         /\ \A k \in pos .. Len(text) :
              (text[k] = LF /\ k <= pos + MaxLine - 1
               /\ \A i \in pos .. k - 1 : text[i] # LF) => LineEnd = k
<1> DEFINE T == {i \in pos .. Len(text) : text[i] = LF}
                \cup {pos + MaxLine - 1, Len(text)}
<1>1. MaxLine \in Nat /\ MaxLine >= 10 /\ Len(text) \in Nat /\ pos \in Nat
  BY OfText, MimeAssumption
<1>2. T \in SUBSET Nat /\ T # {} /\ \A i \in T : i >= pos
  BY <1>1
<1>3. LineEnd = Min(T)
  BY DEF LineEnd
<1> DEFINE e == Min(T)
<1>4. e \in T /\ \A m \in T : e <= m
  BY <1>2, MinIs
<1> HIDE DEF e
<1>5. e \in pos .. Len(text)
  BY <1>1, <1>2, <1>4
<1>6. \A i \in pos .. e - 1 : text[i] # LF
  BY <1>1, <1>4, <1>5
<1>7. ASSUME NEW k \in pos .. Len(text), text[k] = LF, k <= pos + MaxLine - 1,
             \A i \in pos .. k - 1 : text[i] # LF
      PROVE  e = k
  <2>1. k \in T
    BY <1>7
  <2>2. e <= k
    BY <1>4, <2>1
  <2>3. CASE e \in pos .. k - 1
    <3>1. e = pos + MaxLine - 1 \/ e = Len(text)
      BY <1>4, <1>7, <2>3
    <3> QED BY <1>1, <1>7, <2>3, <3>1
  <2> QED BY <1>1, <1>5, <2>2, <2>3
<1> QED BY <1>3, <1>5, <1>6, <1>7 DEF e

LEMMA LineEndType ==
  ASSUME text \in Text, pos \in Nat \ {0}
  PROVE  LineEnd + 1 \in Nat \ {0}
<1> DEFINE T == {i \in pos .. Len(text) : text[i] = LF}
                \cup {pos + MaxLine - 1, Len(text)}
<1>1. MaxLine \in Nat /\ MaxLine >= 10 /\ Len(text) \in Nat
  BY OfText, MimeAssumption
<1>2. T \in SUBSET Nat /\ T # {}
  BY <1>1
<1>3. LineEnd = Min(T)
  BY DEF LineEnd
<1>4. Min(T) \in Nat
  BY <1>2, MinIs
<1> QED BY <1>3, <1>4

(* strip_eol, of what BIO_gets may return of a part, is Canon: the line     *)
(* end is put back before the next piece.                                   *)
LEMMA KeptIs ==
  ASSUME NEW s \in Text
  PROVE  LET m == Len(Kept(s)) IN
         /\ Kept(s) \in Text /\ m \in 0 .. Len(s) /\ Kept(s) = SubSeq(s, 1, m)
         /\ m # 0 => s[m] \notin {CR, LF}
         /\ \A j \in m + 1 .. Len(s) : s[j] \in {CR, LF}
<1> DEFINE body == {i \in DOMAIN s : s[i] \notin {CR, LF}}
           n    == IF body = {} THEN 0 ELSE Max(body)
<1>1. Len(s) \in Nat /\ DOMAIN s = 1 .. Len(s)
  BY OfText
<1>2. /\ n \in 0 .. Len(s) /\ (n # 0 => s[n] \notin {CR, LF})
      /\ \A j \in n + 1 .. Len(s) : s[j] \in {CR, LF}
  <2>1. CASE body = {}
    BY <1>1, <2>1
  <2>2. CASE body # {}
    <3>1. body \in SUBSET (0 .. Len(s))
      BY <1>1
    <3>2. Max(body) \in body /\ \A m \in body : m <= Max(body)
      BY <1>1, <2>2, <3>1, MaxIs
    <3>3. n \in body /\ \A m \in body : m <= n
      BY <2>2, <3>2
    <3> HIDE DEF n
    <3> QED BY <1>1, <3>3
  <2> QED BY <2>1, <2>2
<1>3. Kept(s) = SubSeq(s, 1, n)
  BY DEF Kept
<1> HIDE DEF n
<1>4. Len(SubSeq(s, 1, n)) = n /\ SubSeq(s, 1, n) \in Text
  BY <1>1, <1>2, Piece
<1> QED BY <1>2, <1>3, <1>4

LEMMA KeptCanon ==
  ASSUME NEW s \in Text, s # <<>>,
         \A j \in 1 .. Len(s) - 1 : s[j] # LF /\ (s[j] = CR => s[j + 1] \in {CR, LF})
  PROVE  /\ Canon(s) = Kept(s) \o (IF HasEol(s) THEN CRLF ELSE <<>>)
         /\ HasEol(s) <=> s[Len(s)] = LF
<1> DEFINE m == Len(Kept(s))
           n == Len(s)
           a == SubSeq(s, 1, m)
           b == SubSeq(s, m + 1, n)
<1>1. /\ Kept(s) = a /\ a \in Text /\ m \in 0 .. n
      /\ m # 0 => s[m] \notin {CR, LF}
      /\ \A j \in m + 1 .. n : s[j] \in {CR, LF}
      /\ HasEol(s) <=> \E i \in m + 1 .. n : s[i] = LF
  BY KeptIs DEF HasEol
<1>2. n \in Nat /\ n # 0
  BY OfText, EmptySeq DEF Text
<1>3. Len(a) = m /\ \A i \in 1 .. m : a[i] = s[i]
  <2>1. m \in Nat /\ m <= Len(s) /\ 1 \in Nat \ {0}
    BY <1>1, <1>2
  <2>2. \A i \in 1 .. m - 1 + 1 : a[i] = s[1 + i - 1]
    BY <2>1, Piece
  <2> QED BY <1>1, <2>1, <2>2
<1>4. s = a \o b
  <2>1. 1 \in Nat \ {0} /\ m \in Nat /\ n \in Nat /\ 1 <= m + 1 /\ m <= n /\ n <= Len(s)
    BY <1>1, <1>2
  <2>2. a \o b = SubSeq(s, 1, n)
    BY <2>1, Adjacent
  <2>3. SubSeq(s, 1, n) = s
    BY SubSeqFull DEF Text
  <2> QED BY <2>2, <2>3
<1>5. b \in Text /\ Len(b) = n - m /\ \A i \in 1 .. n - m : b[i] = s[m + i]
  <2>1. m + 1 \in Nat \ {0} /\ n \in Nat /\ n <= Len(s)
    BY <1>1, <1>2
  <2>2. /\ b \in Text /\ Len(b) = IF m + 1 <= n THEN n - (m + 1) + 1 ELSE 0
        /\ \A i \in 1 .. n - (m + 1) + 1 : b[i] = s[(m + 1) + i - 1]
    BY <2>1, Piece
  <2>3. n - (m + 1) + 1 = n - m /\ \A i \in 1 .. n - m : (m + 1) + i - 1 = m + i
    BY <1>1, <1>2
  <2>4. Len(b) = n - m
    BY <1>1, <1>2, <2>2
  <2> QED BY <2>2, <2>3, <2>4
<1> HIDE DEF m, n, a, b
<1>6. \A i \in 1 .. m : a[i] \notin {CR, LF}
  <2> DEFINE T == {d \in Nat : d < m => s[m - d] \notin {CR, LF}}
  <2>1. 0 \in T
    BY <1>1
  <2>2. ASSUME NEW d \in Nat, d \in T PROVE d + 1 \in T
    <3>1. ASSUME d + 1 < m PROVE s[m - (d + 1)] \notin {CR, LF}
      <4> DEFINE k == m - (d + 1)
      <4>1. k \in 1 .. n - 1 /\ k + 1 = m - d /\ d < m
        BY <1>1, <1>2, <3>1
      <4>2. s[k + 1] \notin {CR, LF}
        BY <2>2, <4>1
      <4>3. s[k] # LF /\ (s[k] = CR => s[k + 1] \in {CR, LF})
        BY <4>1 DEF n
      <4> QED BY <4>2, <4>3
    <3> QED BY <3>1
  <2> HIDE DEF T
  <2>3. \A d \in Nat : d \in T
    BY <2>1, <2>2, Induction
  <2>4. ASSUME NEW i \in 1 .. m PROVE s[i] \notin {CR, LF}
    <3>1. m - i \in Nat /\ m - i < m /\ m - (m - i) = i
      BY <1>1, <1>2
    <3> QED BY <2>3, <3>1 DEF T
  <2> QED BY <1>3, <2>4
<1>7. Canon(a) = a
  BY <1>1, <1>3, <1>6, CanonPlain
<1>8. CASE m = n
  <2>1. b = <<>> /\ ~HasEol(s) /\ s[n] # LF
    <3>1. ~HasEol(s) /\ s[n] # LF
      BY <1>1, <1>2, <1>8
    <3>2. Len(b) = 0
      BY <1>2, <1>5, <1>8
    <3> QED BY <1>5, <3>1, <3>2, EmptySeq DEF Text
  <2>2. Canon(s) = Canon(a) \o <<>> /\ a \o <<>> = a
    BY <1>1, <1>4, <1>5, <2>1, CanonConcat, CanonEmpty, EmptyText
  <2> QED BY <1>1, <1>7, <2>1, <2>2 DEF n
<1>9. CASE m # n
  <2> DEFINE k == n - m
             c == SubSeq(b, 1, k - 1)
             l == s[n]
  <2>1. k \in Nat /\ k # 0 /\ Len(b) = k /\ k \in 1 .. n - m /\ m + k = n
    BY <1>1, <1>2, <1>5, <1>9
  <2>2. b = c \o <<l>> /\ c \in Text /\ l \in {CR, LF}
    <3>1. b[k] = l
      BY <1>5, <2>1
    <3>2. 1 \in 1 .. Len(b) /\ k \in 1 .. Len(b)
      BY <2>1
    <3>3. SubSeq(b, 1, k) = c \o <<b[k]>>
      BY <1>5, <3>2, SubSeqRecursiveSecond DEF Text
    <3>4. SubSeq(b, 1, k) = b
      BY <1>5, <2>1, SubSeqFull DEF Text
    <3>5. c \in Text
      <4>1. k - 1 \in Nat /\ k - 1 <= Len(b)
        BY <2>1
      <4> QED BY <1>5, <4>1, Piece
    <3>6. n \in m + 1 .. n
      BY <1>1, <1>2, <1>9
    <3> QED BY <1>1, <3>1, <3>3, <3>4, <3>5, <3>6
  <2>3. \A i \in 1 .. Len(c) : c[i] = CR
    <3>1. k - 1 \in Nat /\ k - 1 <= Len(b) /\ 1 \in Nat \ {0}
      BY <2>1
    <3>2. /\ Len(c) = IF 1 <= k - 1 THEN k - 1 - 1 + 1 ELSE 0
          /\ \A i \in 1 .. k - 1 - 1 + 1 : c[i] = b[1 + i - 1]
      BY <1>5, <3>1, Piece
    <3>3. Len(c) = k - 1 /\ k - 1 - 1 + 1 = k - 1 /\ \A i \in 1 .. k - 1 : 1 + i - 1 = i
      BY <2>1, <3>2
    <3>4. ASSUME NEW i \in 1 .. k - 1 PROVE c[i] = CR
      <4>1. c[i] = b[i] /\ i \in 1 .. n - m
        BY <2>1, <3>2, <3>3
      <4>2. b[i] = s[m + i]
        BY <1>5, <4>1
      <4>3. m + i \in m + 1 .. n /\ m + i \in 1 .. n - 1
        BY <1>1, <1>2, <2>1
      <4>4. s[m + i] \in {CR, LF} /\ s[m + i] # LF
        BY <1>1, <4>3 DEF n
      <4> QED BY <4>1, <4>2, <4>4
    <3> HIDE DEF k, c
    <3> QED BY <3>3, <3>4
  <2> HIDE DEF k, c
  <2>4. Canon(c) = <<>>
    BY <2>2, <2>3, CanonCRs
  <2>5. l \in Token /\ <<l>> \in Text /\ CanonChar(l) \in Text
    <3>1. l \in Token
      BY <2>2 DEF Token
    <3> HIDE DEF l
    <3> QED BY <3>1, OneToken, CanonCharType
  <2>6. Canon(b) = CanonChar(l)
    <3>1. Canon(c \o <<l>>) = Canon(c) \o CanonChar(l)
      BY <2>2, <2>5, CanonAppend
    <3>2. <<>> \o CanonChar(l) = CanonChar(l)
      BY <2>5, EmptyText
    <3> QED BY <2>2, <2>4, <3>1, <3>2
  <2>7. HasEol(s) <=> l = LF
    <3>1. \A i \in m + 1 .. n : i = n \/ s[i] # LF
      <4>1. \A i \in m + 1 .. n : i = n \/ i \in 1 .. n - 1
        BY <1>1, <1>2
      <4> QED BY <4>1 DEF n
    <3>2. n \in m + 1 .. n
      BY <1>1, <1>2, <1>9
    <3> QED BY <1>1, <3>1, <3>2
  <2>8. Canon(s) = Canon(a) \o Canon(b)
    BY <1>1, <1>4, <1>5, CanonConcat
  <2>9. CanonChar(l) = IF HasEol(s) THEN CRLF ELSE <<>>
    BY <2>2, <2>7, Breaks DEF CanonChar
  <2> QED BY <1>1, <1>7, <2>6, <2>7, <2>8, <2>9 DEF n
<1> QED BY <1>8, <1>9
-----------------------------------------------------------------------------
(* The invariant.                                                           *)

(* The mail has parts, though another client's may have none with a line.   *)
Parted == doc # <<>> \/ origin # "BitMail"

(* The line of the header with the parameter.                               *)
NameLine(name, value) ==
  <<"x", "colon", "x", "semi", "sp", name, "eq">> \o value \o CRLF
TheLine == IF Parted THEN NameLine("bound", <<"boundary">>)
           ELSE NameLine("filename", FileName(suffix))

Composed(d) ==
  IF origin # "BitMail" THEN OtherText(d, origin)
  ELSE IF d = <<>> THEN FileText(suffix) ELSE MixedText(d)

(* The parts as the parser meets them: as composed, or canonical.           *)
Canons(d) == [i \in DOMAIN d |-> Canon(d[i])]

(* The text before the i-th boundary.                                       *)
Ahead     == IF origin = "BitMail" THEN 12 ELSE 15
Framed(d) == [i \in DOMAIN d |-> Part(d[i])]
At(d, i)  == Ahead + Len(First(Framed(d), i - 1))

(* The parts multi_split keeps, of the first i.                             *)
Keeps   == [i \in DOMAIN doc |-> IF i % MaxParts = 0 THEN <<>> ELSE <<Canon(doc[i])>>]
Kept1(i) == First(Keeps, i)

(* i parts are read, the last of which may still be in bpart.               *)
Collected(i) ==
  IF i = 0 THEN bpart = Null /\ parts = <<>>
  ELSE bpart # Null /\ Append(parts, bpart) = Kept1(i)

(* The parser is before the i-th boundary, or in the i-th part.             *)
AtBoundary(d, i) ==
  pos = At(d, i) + 1 /\ part = (i - 1) % MaxParts /\ Collected(i - 1)
InPart(d, i) ==
  /\ At(d, i) + 5 <= pos /\ pos <= At(d, i + 1) /\ part = i % MaxParts
  /\ IF first
       THEN (pos = At(d, i) + 5 \/ part = 0) /\ Collected(i - 1)
       ELSE /\ part # 0 /\ parts = Kept1(i - 1) /\ bpart # Null
            /\ eol <=> text[pos - 1] = LF
            /\ bpart \o (IF eol THEN CRLF ELSE <<>>)
                 = Canon(SubSeq(text, At(d, i) + 5, pos - 1))

(* What multi_split leaves.                                                 *)
Result ==
  IF ~Parted \/ origin = "cut" THEN <<>>
  ELSE IF doc = <<>> THEN <<Null>> ELSE Kept1(Len(doc))

Splitting(d) ==
  \/ origin # "BitMail" /\ pos = 13 /\ part = 0 /\ Collected(0)
  \/ \E i \in 1 .. Len(doc) + 1 : AtBoundary(d, i)
  \/ \E i \in 1 .. Len(doc) : InPart(d, i)
  \/ origin = "bare" /\ pos = At(d, Len(doc) + 1) + 5 /\ Collected(Len(doc))
  \/ origin = "cut" /\ pos = Len(text) + 1 /\ Collected(Len(doc))

Fresh ==
  /\ text = <<>> /\ pos = 1 /\ params = {} /\ part = 0 /\ first = TRUE
  /\ eol = FALSE /\ bpart = Null /\ parts = <<>>

Types ==
  /\ origin \in {"BitMail", "other", "cut", "bare"}
  /\ phase \in {"compose", "up", "down", "header", "split", "done"}
  /\ \/ doc \in Documents
     \/ doc = <<>> /\ (suffix \in Endings \/ origin # "BitMail")
  /\ mail \in Text /\ server \in Text /\ memory \in Text /\ text \in Text
  /\ offset \in Nat /\ pos \in Nat \ {0} /\ part \in 0 .. MaxParts - 1
  /\ first \in BOOLEAN /\ eol \in BOOLEAN
  /\ bpart \in Text \cup {Null} /\ parts \in Seq(Text \cup {Null})

Transfer ==
  /\ IF phase = "compose" THEN mail = <<>> /\ origin = "BitMail"
     ELSE mail = Composed(doc)
  /\ phase \in {"compose", "up"} =>
       /\ memory = <<>> /\ offset <= Len(mail)
       /\ server = SubSeq(mail, 1, offset)
  /\ phase \notin {"compose", "up"} => server = mail
  /\ Len(memory) <= Len(server) /\ memory = SubSeq(server, 1, Len(memory))
  /\ IF phase \in {"compose", "up", "down"} THEN Fresh
     ELSE text \in {mail, Canon(mail)}

Header ==
  /\ phase = "header" =>
       /\ bpart = Null /\ parts = <<>> /\ part = 0 /\ first = TRUE
       /\ \/ pos = 1 /\ params = {}
          \/ pos = Len(TheLine) + 1 /\ params = LineParams(TheLine)
  /\ phase \in {"split", "done"} => params = LineParams(TheLine)

Split ==
  /\ phase = "split" =>
       /\ Parted
       /\ \E d \in {doc, Canons(doc)} : text = Composed(d) /\ Splitting(d)
  /\ phase = "done" => parts = Result

Inv == Types /\ Transfer /\ Header /\ Split
-----------------------------------------------------------------------------
(* The text composed.                                                       *)
LEMMA Literals ==
  /\ <<"--", "boundary">> \in Text /\ <<"--", "boundary", "--">> \in Text
  /\ <<"x">> \in Text /\ <<"--">> \in Text /\ <<"boundary">> \in Text /\ <<"x", LF>> \in Text
  /\ <<"x", "colon", "x", "semi", "sp", "bound", "eq">> \in Text
  /\ <<"x", "colon", "x", "semi", "sp", "filename", "eq">> \in Text
BY DEF Text, Token, NameChar

LEMMA Words == CR # "x" /\ LF # "x" /\ CR # "--" /\ LF # "--" /\ CR # "boundary"
               /\ LF # "boundary" /\ CR # LF
BY DEF CR, LF

LEMMA NameLineIs ==
  ASSUME NEW name \in {"bound", "filename"}, NEW v \in Text
  PROVE  /\ NameLine(name, v) \in Text /\ Len(NameLine(name, v)) = Len(v) + 9
         /\ NameLine(name, v) = (<<"x", "colon", "x", "semi", "sp", name, "eq">> \o v) \o CRLF
         /\ HeaderLine(name, v) = NameLine(name, v) \o CRLF
         /\ <<"x", "colon", "x", "semi", "sp", name, "eq">> \in Text
         /\ \A i \in 1 .. 7 :
              /\ NameLine(name, v)[i] = <<"x", "colon", "x", "semi", "sp", name, "eq">>[i]
              /\ NameLine(name, v)[i] \notin {CR, LF}
         /\ \A i \in 1 .. Len(v) : NameLine(name, v)[7 + i] = v[i]
         /\ NameLine(name, v)[Len(v) + 8] = CR /\ NameLine(name, v)[Len(v) + 9] = LF
<1> DEFINE h == <<"x", "colon", "x", "semi", "sp", name, "eq">>
           hv == h \o v
           l == hv \o CRLF
<1>1. h \in Text /\ Len(h) = 7
  BY Literals
<1>2. \A i \in 1 .. 7 : h[i] \notin {CR, LF}
  BY DEF CR, LF
<1>3. NameLine(name, v) = l /\ HeaderLine(name, v) = l \o CRLF
  BY DEF NameLine, HeaderLine
<1>4. Len(v) \in Nat
  BY OfText
<1> HIDE DEF h, hv, l
<1>11. hv = h \o v /\ l = hv \o CRLF
  BY DEF hv, l
<1>5. /\ hv \in Text /\ Len(hv) = 7 + Len(v)
      /\ \A i \in 1 .. 7 : hv[i] = h[i]
      /\ \A i \in 1 .. Len(v) : hv[7 + i] = v[i]
  <2>1. Joins(hv, h, v)
    BY <1>1, <1>11, Joining
  <2> QED BY <1>1, <2>1 DEF Joins
<1>6. /\ l \in Text /\ Len(l) = (7 + Len(v)) + 2
      /\ \A i \in 1 .. 7 + Len(v) : l[i] = hv[i]
      /\ \A i \in 1 .. 2 : l[(7 + Len(v)) + i] = CRLF[i]
  <2>1. Joins(l, hv, CRLF)
    BY <1>5, <1>11, Breaks, Joining
  <2> QED BY <1>5, <2>1, Breaks DEF Joins
<1>7. Len(l) = Len(v) + 9 /\ l[Len(v) + 8] = CR /\ l[Len(v) + 9] = LF
  <2>1. (7 + Len(v)) + 2 = Len(v) + 9 /\ (7 + Len(v)) + 1 = Len(v) + 8 /\ 1 \in 1 .. 2 /\ 2 \in 1 .. 2
    BY <1>4
  <2>2. l[(7 + Len(v)) + 1] = CRLF[1] /\ l[(7 + Len(v)) + 2] = CRLF[2]
    BY <1>6
  <2> QED BY <1>6, <2>1, <2>2, Breaks
<1>8. \A i \in 1 .. 7 : l[i] = h[i]
  <2>1. \A i \in 1 .. 7 : i \in 1 .. 7 + Len(v)
    BY <1>4
  <2> QED BY <1>5, <1>6, <2>1
<1>9. \A i \in 1 .. Len(v) : l[7 + i] = v[i]
  <2>1. \A i \in 1 .. Len(v) : 7 + i \in 1 .. 7 + Len(v)
    BY <1>4
  <2> QED BY <1>5, <1>6, <2>1
<1>10. l = (h \o v) \o CRLF
  BY DEF l, hv
<1> QED BY <1>1, <1>2, <1>3, <1>6, <1>7, <1>8, <1>9, <1>10 DEF h

LEMMA PartIs ==
  ASSUME NEW t \in Text
  PROVE  /\ Part(t) \in Text /\ Len(Part(t)) = Len(t) + 6
         /\ Part(t)[1] = "--" /\ Part(t)[2] = "boundary"
         /\ Part(t)[3] = CR /\ Part(t)[4] = LF
         /\ \A i \in 1 .. Len(t) : Part(t)[4 + i] = t[i]
         /\ Part(t)[Len(t) + 5] = CR /\ Part(t)[Len(t) + 6] = LF
<1> DEFINE q == <<"--", "boundary">>
           b == q \o CRLF
           bt == b \o t
<1>0. Len(t) \in Nat /\ 1 \in 1 .. 2 /\ 2 \in 1 .. 2
  BY OfText
<1>1. q \in Text /\ Len(q) = 2 /\ q[1] = "--" /\ q[2] = "boundary"
  BY Literals
<1>2. Part(t) = bt \o CRLF
  BY DEF Part
<1> HIDE DEF q, b, bt
<1>12. b = q \o CRLF /\ bt = b \o t
  BY DEF b, bt
<1>3. /\ b \in Text /\ Len(b) = 4 /\ b[1] = "--" /\ b[2] = "boundary"
      /\ b[2 + 1] = CR /\ b[2 + 2] = LF
  <2>1. Joins(b, q, CRLF)
    BY <1>1, <1>12, Breaks, Joining
  <2> QED BY <1>0, <1>1, <2>1, Breaks DEF Joins
<1>4. b[3] = CR /\ b[4] = LF
  BY <1>3
<1>5. /\ bt \in Text /\ Len(bt) = 4 + Len(t) /\ \A i \in 1 .. 4 : bt[i] = b[i]
      /\ \A i \in 1 .. Len(t) : bt[4 + i] = t[i]
  <2>1. Joins(bt, b, t)
    BY <1>3, <1>12, Joining
  <2> QED BY <1>3, <2>1 DEF Joins
<1>6. /\ Part(t) \in Text /\ Len(Part(t)) = (4 + Len(t)) + 2
      /\ \A i \in 1 .. 4 + Len(t) : Part(t)[i] = bt[i]
      /\ \A i \in 1 .. 2 : Part(t)[(4 + Len(t)) + i] = CRLF[i]
  <2>1. Joins(Part(t), bt, CRLF)
    BY <1>2, <1>5, Breaks, Joining
  <2> QED BY <1>5, <2>1, Breaks DEF Joins
<1>7. \A i \in 1 .. 4 : Part(t)[i] = b[i]
  BY <1>0, <1>5, <1>6
<1>8. \A i \in 1 .. Len(t) : Part(t)[4 + i] = t[i]
  BY <1>0, <1>5, <1>6
<1>9. (4 + Len(t)) + 2 = Len(t) + 6 /\ (4 + Len(t)) + 1 = Len(t) + 5
  BY <1>0
<1>10. Part(t)[Len(t) + 5] = CR /\ Part(t)[Len(t) + 6] = LF
  BY <1>0, <1>6, <1>9, Breaks
<1>11. 1 \in 1 .. 4 /\ 2 \in 1 .. 4 /\ 3 \in 1 .. 4 /\ 4 \in 1 .. 4
  OBVIOUS
<1> QED BY <1>3, <1>4, <1>6, <1>7, <1>8, <1>9, <1>10, <1>11

LEMMA FramedIs ==
  ASSUME NEW d \in Seq(Text)
  PROVE  /\ Len(d) \in Nat /\ Framed(d) \in [1 .. Len(d) -> Text]
         /\ Body(d) = First(Framed(d), Len(d)) /\ Body(d) \in Text
         /\ \A i \in 1 .. Len(d) : d[i] \in Text /\ Framed(d)[i] = Part(d[i])
<1>1. Len(d) \in Nat /\ DOMAIN d = 1 .. Len(d) /\ \A i \in 1 .. Len(d) : d[i] \in Text
  OBVIOUS
<1>2. Framed(d) \in [1 .. Len(d) -> Text] /\ \A i \in 1 .. Len(d) : Framed(d)[i] = Part(d[i])
  BY <1>1, PartIs DEF Framed
<1>3. Body(d) = FlattenSeq(Framed(d))
  BY DEF Body, Framed
<1>4. /\ First(Framed(d), Len(d)) = FlattenSeq(Framed(d))
      /\ First(Framed(d), Len(d)) \in Text
  <2>1. Len(d) \in 0 .. Len(d)
    BY <1>1
  <2> QED BY <1>1, <1>2, <2>1, FirstStep DEF Text
<1> QED BY <1>1, <1>2, <1>3, <1>4

(* Where the parts are: between h and z.                                    *)
Placed(c, d, h, z) ==
  LET e == At(d, Len(d) + 1) IN
  /\ c \in Text /\ Len(c) = e + Len(z)
  /\ \A k \in 1 .. Len(h) : c[k] = h[k]
  /\ \A k \in 1 .. Len(z) : c[e + k] = z[k]
  /\ At(d, 1) = Ahead
  /\ \A i \in 1 .. Len(d) + 1 : At(d, i) \in Nat /\ At(d, i) >= Ahead
  /\ \A i \in 1 .. Len(d) :
       /\ At(d, i + 1) = At(d, i) + Len(d[i]) + 6
       /\ At(d, i + 1) <= e
       /\ \A k \in 1 .. Len(d[i]) + 6 : c[At(d, i) + k] = Part(d[i])[k]

LEMMA Places ==
  ASSUME NEW d \in Seq(Text), NEW h \in Text, NEW z \in Text, Len(h) = Ahead
  PROVE  Placed((h \o Body(d)) \o z, d, h, z)
<1> DEFINE n == Len(d)
           f == Framed(d)
           b == Body(d)
           hb == h \o b
           c == hb \o z
<1>1. /\ n \in Nat /\ f \in [1 .. n -> Text] /\ b = First(f, n) /\ b \in Text
      /\ \A i \in 1 .. n : d[i] \in Text /\ f[i] = Part(d[i])
  BY FramedIs
<1>2. /\ hb \in Text /\ Len(hb) = Ahead + Len(b)
      /\ \A k \in 1 .. Ahead : hb[k] = h[k]
      /\ \A k \in 1 .. Len(b) : hb[Ahead + k] = b[k]
      /\ Ahead \in Nat /\ Len(b) \in Nat /\ Len(z) \in Nat
  <2>1. b \in Text /\ hb = h \o b
    BY <1>1
  <2> HIDE DEF b, hb
  <2>2. Joins(hb, h, b)
    BY <2>1, Joining
  <2>3. Len(h) \in Nat /\ Len(b) \in Nat /\ Len(z) \in Nat
    BY <2>1, OfText
  <2> QED BY <2>2, <2>3 DEF Joins
<1> HIDE DEF hb, c
<1>10. c = hb \o z
  BY DEF c
<1>3. /\ c \in Text /\ Len(c) = (Ahead + Len(b)) + Len(z)
      /\ \A k \in 1 .. Ahead + Len(b) : c[k] = hb[k]
      /\ \A k \in 1 .. Len(z) : c[(Ahead + Len(b)) + k] = z[k]
  <2>1. Joins(c, hb, z)
    BY <1>2, <1>10, Joining
  <2> QED BY <1>2, <2>1 DEF Joins
<1>4. At(d, n + 1) = Ahead + Len(b)
  <2>1. (n + 1) - 1 = n
    BY <1>1
  <2> QED BY <1>1, <2>1 DEF At
<1>5. /\ First(f, 0) = <<>> /\ \A i \in 0 .. n : First(f, i) \in Text
      /\ \A i \in 1 .. n : First(f, i) = First(f, i - 1) \o f[i]
  <2> HIDE DEF f, n
  <2> QED BY <1>1, FirstStep DEF Text
<1>6. At(d, 1) = Ahead
  <2>1. 1 - 1 = 0 /\ Len(<<>>) = 0 /\ Ahead + 0 = Ahead
    BY <1>2
  <2> QED BY <1>5, <2>1 DEF At
<1>7. \A i \in 1 .. n + 1 : At(d, i) \in Nat /\ At(d, i) >= Ahead
  <2> SUFFICES ASSUME NEW i \in 1 .. n + 1 PROVE At(d, i) \in Nat /\ At(d, i) >= Ahead
    OBVIOUS
  <2>1. i - 1 \in 0 .. n
    BY <1>1
  <2>2. Len(First(f, i - 1)) \in Nat
    BY <1>5, <2>1, OfText
  <2> QED BY <1>2, <2>2 DEF At
<1>8. ASSUME NEW i \in 1 .. n
      PROVE  /\ At(d, i + 1) = At(d, i) + Len(d[i]) + 6
             /\ At(d, i + 1) <= At(d, n + 1)
             /\ \A k \in 1 .. Len(d[i]) + 6 : c[At(d, i) + k] = Part(d[i])[k]
  <2> DEFINE u == First(f, i - 1)
             w == First(f, i)
  <2>1. i - 1 \in 0 .. n /\ i \in 0 .. n /\ (i + 1) - 1 = i
    BY <1>1
  <2>2. u \in Text /\ w \in Text /\ w = u \o f[i] /\ f[i] \in Text /\ f[i] = Part(d[i])
    BY <1>1, <1>5, <2>1
  <2>3. At(d, i) = Ahead + Len(u) /\ At(d, i + 1) = Ahead + Len(w)
    BY <2>1 DEF At
  <2>4. Len(w) <= Len(b) /\ \A k \in 1 .. Len(w) : b[k] = w[k]
    <3> HIDE DEF f, n, b
    <3> QED BY <1>1, <2>1, FirstIsPrefix DEF Text
  <2>5. Len(f[i]) = Len(d[i]) + 6 /\ Len(d[i]) \in Nat
    BY <1>1, <2>2, PartIs, OfText
  <2> HIDE DEF u, w
  <2>6. /\ Len(w) = Len(u) + Len(f[i]) /\ Len(u) \in Nat
        /\ \A k \in 1 .. Len(f[i]) : w[Len(u) + k] = f[i][k]
    BY <2>2, Joined, OfText
  <2>7. ASSUME NEW k \in 1 .. Len(d[i]) + 6 PROVE c[At(d, i) + k] = Part(d[i])[k]
    <3>1. k \in 1 .. Len(f[i]) /\ Len(u) + k \in 1 .. Len(w) /\ Len(u) + k \in 1 .. Len(b)
      <4> DEFINE ln == Len(d[i])
                 lf == Len(f[i])
                 lu == Len(u)
                 lw == Len(w)
                 lb == Len(b)
      <4>1. ln \in Nat /\ lf = ln + 6 /\ lu \in Nat /\ lw = lu + lf /\ lb \in Nat /\ lw <= lb
        BY <1>2, <2>4, <2>5, <2>6
      <4>2. k \in 1 .. ln + 6
        OBVIOUS
      <4> HIDE DEF ln, lf, lu, lw, lb
      <4>3. k \in 1 .. lf /\ lu + k \in 1 .. lw /\ lu + k \in 1 .. lb
        BY <4>1, <4>2
      <4> QED BY <4>3 DEF lf, lu, lw, lb
    <3>2. At(d, i) + k = Ahead + (Len(u) + k) /\ Ahead + (Len(u) + k) \in 1 .. Ahead + Len(b)
      BY <1>2, <2>3, <2>6, <3>1
    <3>3. c[Ahead + (Len(u) + k)] = hb[Ahead + (Len(u) + k)]
      BY <1>3, <3>2
    <3>4. hb[Ahead + (Len(u) + k)] = b[Len(u) + k]
      BY <1>2, <3>1
    <3>5. b[Len(u) + k] = w[Len(u) + k] /\ w[Len(u) + k] = f[i][k]
      BY <2>4, <2>6, <3>1
    <3> QED BY <2>2, <3>2, <3>3, <3>4, <3>5
  <2>8. At(d, i + 1) = At(d, i) + Len(d[i]) + 6
    <3> DEFINE x == At(d, i)
               y == At(d, i + 1)
               p == Ahead
    <3>1. x = p + Len(u) /\ y = p + Len(w) /\ p \in Nat
      BY <1>2, <2>3
    <3> DEFINE lu == Len(u)
               lw == Len(w)
               ld == Len(d[i])
    <3>2. lw = lu + (ld + 6) /\ lu \in Nat /\ ld \in Nat
      BY <2>5, <2>6
    <3>3. x = p + lu /\ y = p + lw /\ p \in Nat
      BY <3>1
    <3> HIDE DEF x, y, p, lu, lw, ld
    <3>4. y = x + ld + 6
      BY <3>2, <3>3
    <3> QED BY <3>4 DEF x, y, ld
  <2>9. At(d, i + 1) <= At(d, n + 1)
    <3>1. Len(w) \in Nat
      BY <2>2, OfText
    <3> QED BY <1>2, <1>4, <2>3, <2>4, <3>1
  <2> QED BY <2>7, <2>8, <2>9
<1>9. \A k \in 1 .. Len(h) : c[k] = h[k]
  BY <1>2, <1>3
<1>12. Placed(c, d, h, z)
  BY <1>3, <1>4, <1>6, <1>7, <1>8, <1>9 DEF n, Placed
<1> QED BY <1>12 DEF c, hb

(* A header, and a text of parts as the parser finds it.                    *)
Headed(c, l) ==
  /\ c \in Text /\ Len(l) + 2 <= Len(c) /\ \A k \in 1 .. Len(l) : c[k] = l[k]
  /\ c[Len(l) + 1] = CR /\ c[Len(l) + 2] = LF

Opening(c, e) ==
  c[e + 1] = "--" /\ c[e + 2] = "boundary" /\ c[e + 3] = CR /\ c[e + 4] = LF

Final(c, e) ==
  /\ c[e + 1] = "--" /\ c[e + 2] = "boundary" /\ c[e + 3] = "--"
  /\ c[e + 4] = CR /\ c[e + 5] = LF /\ Len(c) >= e + 5

Closed(c, e) ==
  /\ origin \in {"BitMail", "other"} => Final(c, e)
  /\ origin = "cut" => Opening(c, e) /\ Len(c) = e + 4
  /\ origin = "bare" => Opening(c, e) /\ Final(c, e + 4)

Framing(c, d, i) ==
  LET a == At(d, i) IN
  /\ At(d, i + 1) = a + Len(d[i]) + 6 /\ d[i] \in Text
  /\ a \in Nat /\ At(d, i + 1) <= Len(c)
  /\ c[a + 1] = "--" /\ c[a + 2] = "boundary" /\ c[a + 3] = CR /\ c[a + 4] = LF
  /\ \A k \in 1 .. Len(d[i]) : c[a + (4 + k)] = d[i][k]
  /\ c[a + (Len(d[i]) + 5)] = CR /\ c[a + (Len(d[i]) + 6)] = LF

Laid(c, d) ==
  /\ Headed(c, NameLine("bound", <<"boundary">>))
  /\ origin # "BitMail" => c[13] = "x" /\ c[14] = CR /\ c[15] = LF /\ Len(c) >= 15
  /\ At(d, 1) = Ahead
  /\ \A i \in 1 .. Len(d) : Framing(c, d, i)
  /\ At(d, Len(d) + 1) \in Nat /\ Closed(c, At(d, Len(d) + 1))

LEMMA HeadedIs ==
  ASSUME NEW name \in {"bound", "filename"}, NEW v \in Text, NEW z \in Text
  PROVE  /\ HeaderLine(name, v) \in Text /\ Len(HeaderLine(name, v)) = Len(v) + 11
         /\ Headed(HeaderLine(name, v) \o z, NameLine(name, v))
<1> DEFINE l == NameLine(name, v)
           h == HeaderLine(name, v)
           c == h \o z
<1>1. l \in Text /\ Len(l) = Len(v) + 9 /\ h = l \o CRLF /\ Len(v) \in Nat /\ Len(z) \in Nat
  BY NameLineIs, OfText
<1> HIDE DEF l, h, c
<1>2. Joins(h, l, CRLF)
  BY <1>1, Breaks, Joining
<1>3. c = h \o z
  BY DEF c
<1>4. Joins(c, h, z)
  BY <1>2, <1>3, Joining DEF Joins
<1>5. Len(h) = Len(v) + 11 /\ h \in Text
  BY <1>1, <1>2, Breaks DEF Joins
<1>6. /\ \A k \in 1 .. Len(l) : h[k] = l[k]
      /\ h[Len(l) + 1] = CR /\ h[Len(l) + 2] = LF /\ Len(h) = Len(l) + 2
  BY <1>2, Breaks DEF Joins
<1>7. /\ Len(l) \in Nat /\ c \in Text /\ Len(c) = Len(h) + Len(z)
      /\ \A k \in 1 .. Len(h) : c[k] = h[k]
  BY <1>1, <1>4 DEF Joins
<1>8. Len(l) + 1 \in 1 .. Len(h) /\ Len(l) + 2 \in 1 .. Len(h)
      /\ \A k \in 1 .. Len(l) : k \in 1 .. Len(h)
  BY <1>6, <1>7
<1>9. Len(l) + 2 <= Len(c)
  BY <1>1, <1>6, <1>7
<1>10. Headed(c, l)
  BY <1>6, <1>7, <1>8, <1>9 DEF Headed
<1> QED BY <1>5, <1>10 DEF c, h, l

(* A text with its parts between h and z is laid out by them.               *)
LEMMA FramingIs ==
  ASSUME NEW d \in Seq(Text), NEW h \in Text, NEW z \in Text, Len(h) = Ahead
  PROVE  /\ At(d, 1) = Ahead
         /\ \A i \in 1 .. Len(d) : Framing((h \o Body(d)) \o z, d, i)
<1> DEFINE c == (h \o Body(d)) \o z
           e == At(d, Len(d) + 1)
<1>1. /\ c \in Text /\ Len(c) = e + Len(z)
      /\ \A i \in 1 .. Len(d) + 1 : At(d, i) \in Nat
      /\ \A i \in 1 .. Len(d) :
           /\ At(d, i + 1) = At(d, i) + Len(d[i]) + 6
           /\ At(d, i + 1) <= e
           /\ \A k \in 1 .. Len(d[i]) + 6 : c[At(d, i) + k] = Part(d[i])[k]
      /\ At(d, 1) = Ahead
  <2>1. Placed(c, d, h, z)
    BY Places
  <2> HIDE DEF c
  <2> QED BY <2>1 DEF Placed
<1>2. Len(z) \in Nat /\ Len(d) \in Nat
  BY OfText, FramedIs
<1>3. e \in Nat
  <2>1. Len(d) + 1 \in 1 .. Len(d) + 1
    BY <1>2
  <2> QED BY <1>1, <2>1
<1> HIDE DEF c, e
<1>4. ASSUME NEW i \in 1 .. Len(d) PROVE Framing(c, d, i)
  <2> DEFINE a == At(d, i)
             b == At(d, i + 1)
             t == d[i]
             n == Len(d[i])
  <2>1. /\ t \in Text /\ n \in Nat /\ a \in Nat /\ b \in Nat /\ b = a + n + 6
        /\ b <= e
    <3>1. i \in 1 .. Len(d) + 1 /\ i + 1 \in 1 .. Len(d) + 1
      BY <1>2
    <3>2. t \in Text
      BY FramedIs
    <3> QED BY <1>1, <3>1, <3>2, OfText
  <2>2. \A k \in 1 .. n + 6 : c[a + k] = Part(t)[k]
    BY <1>1
  <2>3. /\ Part(t)[1] = "--" /\ Part(t)[2] = "boundary"
        /\ Part(t)[3] = CR /\ Part(t)[4] = LF
        /\ \A k \in 1 .. n : Part(t)[4 + k] = t[k]
        /\ Part(t)[n + 5] = CR /\ Part(t)[n + 6] = LF
    BY <2>1, PartIs
  <2> HIDE DEF a, b, t, n
  <2>4. /\ 1 \in 1 .. n + 6 /\ 2 \in 1 .. n + 6 /\ 3 \in 1 .. n + 6 /\ 4 \in 1 .. n + 6
        /\ n + 5 \in 1 .. n + 6 /\ n + 6 \in 1 .. n + 6
        /\ \A k \in 1 .. n : 4 + k \in 1 .. n + 6
    BY <2>1
  <2>5. b <= Len(c)
    BY <1>1, <1>2, <1>3, <2>1
  <2>6. /\ c[a + 1] = "--" /\ c[a + 2] = "boundary" /\ c[a + 3] = CR /\ c[a + 4] = LF
        /\ \A k \in 1 .. n : c[a + (4 + k)] = t[k]
        /\ c[a + (n + 5)] = CR /\ c[a + (n + 6)] = LF
    BY <2>2, <2>3, <2>4
  <2> QED BY <2>1, <2>5, <2>6 DEF Framing, a, b, t, n
<1> QED BY <1>1, <1>4 DEF c

Who == {"BitMail", "other", "cut", "bare"}

(* What follows the last part in another client's mail.                     *)
LEMMA TrailerIs ==
  ASSUME origin \in Who \ {"BitMail"}
  PROVE  Trailer(origin) \in Text /\ Closed(Trailer(origin), 0)
<1> DEFINE x  == <<"x">>
           q  == <<"--", "boundary">>
           y  == <<"--">>
           y1 == y \o CRLF
           y2 == y1 \o x
           y3 == y2 \o CRLF
           q1 == q \o CRLF
           q2 == q1 \o q
           w  == IF origin = "cut" THEN CRLF ELSE y3
           z  == Trailer(origin)
<1>1. /\ x \in Text /\ Len(x) = 1 /\ x[1] = "x" /\ y \in Text /\ Len(y) = 1 /\ y[1] = "--"
      /\ q \in Text /\ Len(q) = 2 /\ q[1] = "--" /\ q[2] = "boundary"
  BY Literals
<1>2. /\ y1 = y \o CRLF /\ y2 = y1 \o x /\ y3 = y2 \o CRLF
      /\ q1 = q \o CRLF /\ q2 = q1 \o q
      /\ w = IF origin = "cut" THEN CRLF ELSE y3
  OBVIOUS
<1>3. z = IF origin = "bare" THEN q2 \o w ELSE q \o w
  <2>1. z = ((IF origin = "bare" THEN q1 ELSE <<>>) \o q) \o w
    BY DEF Trailer
  <2>2. <<>> \o q = q
    BY <1>1, EmptyText
  <2> QED BY <2>1, <2>2
<1> HIDE DEF x, q, y, y1, y2, y3, q1, q2, w, z
<1>4. Joins(y1, y, CRLF) /\ Joins(q1, q, CRLF)
  BY <1>1, <1>2, Breaks, Joining
<1>5. Joins(y2, y1, x) /\ Joins(q2, q1, q)
  <2>1. y1 \in Text /\ q1 \in Text
    BY <1>4 DEF Joins
  <2> QED BY <1>1, <1>2, <2>1, Joining
<1>6. Joins(y3, y2, CRLF)
  <2>1. y2 \in Text
    BY <1>5 DEF Joins
  <2> QED BY <1>2, <2>1, Breaks, Joining
<1>7. /\ w \in Text
      /\ origin = "cut" => Len(w) = 2 /\ w[1] = CR /\ w[2] = LF
      /\ origin # "cut" => Len(w) = 6 /\ w[1] = "--" /\ w[2] = CR /\ w[3] = LF
  <2>1. y1 \in Text /\ Len(y1) = 3 /\ y1[1] = "--" /\ y1[1 + 1] = CR /\ y1[1 + 2] = LF
    BY <1>1, <1>4, Breaks DEF Joins
  <2>2. y2 \in Text /\ Len(y2) = 4 /\ \A i \in 1 .. 3 : y2[i] = y1[i]
    BY <1>1, <1>5, <2>1 DEF Joins
  <2>3. y3 \in Text /\ Len(y3) = 6 /\ \A i \in 1 .. 4 : y3[i] = y2[i]
    BY <1>6, <2>2, Breaks DEF Joins
  <2> QED BY <1>2, <2>1, <2>2, <2>3, Breaks
<1>8. CASE origin = "bare"
  <2>1. /\ q1 \in Text /\ Len(q1) = 4 /\ q1[1] = "--" /\ q1[2] = "boundary"
        /\ q1[2 + 1] = CR /\ q1[2 + 2] = LF
    BY <1>1, <1>4, Breaks DEF Joins
  <2>2. /\ q2 \in Text /\ Len(q2) = 6 /\ \A i \in 1 .. 4 : q2[i] = q1[i]
        /\ q2[4 + 1] = "--" /\ q2[4 + 2] = "boundary"
    BY <1>1, <1>5, <2>1 DEF Joins
  <2>3. Joins(z, q2, w)
    BY <1>3, <1>7, <1>8, <2>2, Joining
  <2>4. /\ z \in Text /\ Len(z) = 12 /\ \A i \in 1 .. 6 : z[i] = q2[i]
        /\ z[6 + 1] = "--" /\ z[6 + 2] = CR /\ z[6 + 3] = LF
    <3>1. Len(w) = 6 /\ w[1] = "--" /\ w[2] = CR /\ w[3] = LF
      BY <1>7, <1>8
    <3>2. /\ z \in Text /\ Len(z) = 6 + 6 /\ \A i \in 1 .. 6 : z[i] = q2[i]
          /\ \A i \in 1 .. 6 : z[6 + i] = w[i]
      BY <2>2, <2>3, <3>1 DEF Joins
    <3> QED BY <3>1, <3>2
  <2>5. /\ z[1] = "--" /\ z[2] = "boundary" /\ z[3] = CR /\ z[4] = LF
        /\ z[5] = "--" /\ z[6] = "boundary" /\ z[7] = "--" /\ z[8] = CR /\ z[9] = LF
    BY <2>1, <2>2, <2>4
  <2>6. Opening(z, 0) /\ Final(z, 0 + 4)
    BY <2>4, <2>5 DEF Opening, Final
  <2> QED BY <1>8, <2>4, <2>6 DEF Closed, z
<1>9. CASE origin # "bare"
  <2>1. Joins(z, q, w)
    BY <1>1, <1>3, <1>7, <1>9, Joining
  <2>2. /\ z \in Text /\ Len(z) = 2 + Len(w) /\ z[1] = "--" /\ z[2] = "boundary"
        /\ \A i \in 1 .. Len(w) : z[2 + i] = w[i]
    BY <1>1, <2>1 DEF Joins
  <2>3. CASE origin = "cut"
    <3>1. Len(w) = 2 /\ w[1] = CR /\ w[2] = LF
      BY <1>7, <2>3
    <3>2. Len(z) = 4 /\ z[2 + 1] = CR /\ z[2 + 2] = LF
      BY <2>2, <3>1
    <3>3. Opening(z, 0)
      BY <2>2, <3>2 DEF Opening
    <3> QED BY <2>2, <2>3, <3>2, <3>3 DEF Closed, z
  <2>4. CASE origin = "other"
    <3>1. Len(w) = 6 /\ w[1] = "--" /\ w[2] = CR /\ w[3] = LF
      BY <1>7, <2>4
    <3>2. Len(z) = 8 /\ z[2 + 1] = "--" /\ z[2 + 2] = CR /\ z[2 + 3] = LF
      BY <2>2, <3>1
    <3>3. z[1] = "--" /\ z[2] = "boundary" /\ z[3] = "--" /\ z[4] = CR /\ z[5] = LF
      BY <2>2, <3>2
    <3>4. Final(z, 0)
      BY <3>2, <3>3 DEF Final
    <3> QED BY <2>2, <2>4, <3>4 DEF Closed, z
  <2> QED BY <1>9, <2>3, <2>4 DEF Who
<1> QED BY <1>8, <1>9

(* It stays what it is behind the parts.                                    *)
LEMMA ClosedBehind ==
  ASSUME NEW c, NEW z \in Text, NEW e \in Nat, Closed(z, 0), origin \in Who,
         Len(c) = e + Len(z), \A k \in 1 .. Len(z) : c[e + k] = z[k]
  PROVE  Closed(c, e)
<1> DEFINE n == Len(z)
<1>1. n \in Nat /\ Len(c) = e + n /\ \A k \in 1 .. n : c[e + k] = z[k]
  BY OfText
<1> HIDE DEF n
<1>2. CASE origin = "cut"
  <2>1. Opening(z, 0) /\ n = 4
    BY <1>2 DEF Closed, n
  <2>2. Opening(c, e) /\ Len(c) = e + 4
    BY <1>1, <2>1 DEF Opening
  <2> QED BY <1>2, <2>2 DEF Closed
<1>3. CASE origin \in {"BitMail", "other"}
  <2>1. Final(z, 0)
    BY <1>3 DEF Closed
  <2>2. n >= 5
    BY <2>1 DEF Final, n
  <2>3. Final(c, e)
    BY <1>1, <2>1, <2>2 DEF Final
  <2> QED BY <1>3, <2>3 DEF Closed
<1>4. CASE origin = "bare"
  <2>1. Opening(z, 0) /\ Final(z, 4)
    <3>1. 0 + 4 = 4
      OBVIOUS
    <3> QED BY <1>4, <3>1 DEF Closed
  <2>2. n >= 9
    BY <2>1 DEF Final, n
  <2>3. /\ z[1] = "--" /\ z[2] = "boundary" /\ z[3] = CR /\ z[4] = LF
        /\ z[5] = "--" /\ z[6] = "boundary" /\ z[7] = "--" /\ z[8] = CR /\ z[9] = LF
    BY <2>1 DEF Opening, Final
  <2>4. /\ c[e + 1] = "--" /\ c[e + 2] = "boundary" /\ c[e + 3] = CR /\ c[e + 4] = LF
        /\ c[e + 5] = "--" /\ c[e + 6] = "boundary" /\ c[e + 7] = "--"
        /\ c[e + 8] = CR /\ c[e + 9] = LF
    <3>1. \A k \in 1 .. 9 : k \in 1 .. n
      BY <1>1, <2>2
    <3>2. \A k \in 1 .. 9 : c[e + k] = z[k]
      BY <1>1, <3>1
    <3>3. /\ c[e + 1] = z[1] /\ c[e + 2] = z[2] /\ c[e + 3] = z[3] /\ c[e + 4] = z[4]
          /\ c[e + 5] = z[5] /\ c[e + 6] = z[6] /\ c[e + 7] = z[7]
          /\ c[e + 8] = z[8] /\ c[e + 9] = z[9]
      BY <3>2
    <3> QED BY <2>3, <3>3
  <2>5. /\ (e + 4) + 1 = e + 5 /\ (e + 4) + 2 = e + 6 /\ (e + 4) + 3 = e + 7
        /\ (e + 4) + 4 = e + 8 /\ (e + 4) + 5 = e + 9 /\ Len(c) >= e + 9
    BY <1>1, <2>2
  <2>6. Opening(c, e) /\ Final(c, e + 4)
    BY <2>4, <2>5 DEF Opening, Final
  <2> QED BY <1>4, <2>6 DEF Closed
<1> QED BY <1>2, <1>3, <1>4 DEF Who

LEMMA MixedIs ==
  ASSUME NEW d \in Seq(Text), d # <<>>, origin = "BitMail"
  PROVE  Laid(Composed(d), d)
<1> DEFINE h == HeaderLine("bound", <<"boundary">>)
           b == Body(d)
           hb == h \o b
           w == <<"--", "boundary", "--">>
           w1 == w \o CRLF
           z == w1 \o CRLF
           c == Composed(d)
           e == At(d, Len(d) + 1)
<1>1. /\ h \in Text /\ Len(h) = 12 /\ b \in Text
  <2>1. Len(<<"boundary">>) = 1
    OBVIOUS
  <2>2. h \in Text /\ Len(h) = 1 + 11
    <3>1. <<>> \in Text
      BY EmptyText
    <3> QED BY <2>1, <3>1, Literals, HeadedIs
  <2> QED BY <2>2, FramedIs
<1>2. hb \in Text
  BY <1>1, Joined
<1>3. w \in Text /\ Len(w) = 3 /\ w[1] = "--" /\ w[2] = "boundary" /\ w[3] = "--"
  BY Literals
<1>4. w1 = w \o CRLF /\ z = w1 \o CRLF
  OBVIOUS
<1>5. c = ((hb \o w) \o CRLF) \o CRLF
  BY DEF Composed, MixedText
<1>5a. hb = h \o b
  OBVIOUS
<1> HIDE DEF w, w1, z, hb, h, b
<1>6. Joins(w1, w, CRLF)
  BY <1>3, <1>4, Breaks, Joining
<1>7. Joins(z, w1, CRLF)
  BY <1>4, <1>6, Breaks, Joining DEF Joins
<1>8. /\ z \in Text /\ Len(z) = 7 /\ z[1] = "--" /\ z[2] = "boundary" /\ z[3] = "--"
      /\ z[4] = CR /\ z[5] = LF
  <2>1. w1 \in Text /\ Len(w1) = 5 /\ w1[1] = "--" /\ w1[2] = "boundary" /\ w1[3] = "--"
        /\ w1[3 + 1] = CR /\ w1[3 + 2] = LF
    BY <1>3, <1>6, Breaks DEF Joins
  <2>2. w1[4] = CR /\ w1[5] = LF
    BY <2>1
  <2>3. 1 \in 1 .. 5 /\ 2 \in 1 .. 5 /\ 3 \in 1 .. 5 /\ 4 \in 1 .. 5 /\ 5 \in 1 .. 5
    OBVIOUS
  <2> QED BY <1>7, <2>1, <2>2, <2>3, Breaks DEF Joins
<1>9. c = hb \o z
  <2>1. (hb \o w) \o CRLF = hb \o w1
    BY <1>2, <1>3, <1>4, Breaks, Assoc
  <2>2. w1 \in Text
    BY <1>6 DEF Joins
  <2>3. (hb \o w1) \o CRLF = hb \o z
    BY <1>2, <1>4, <2>2, Breaks, Assoc
  <2> QED BY <1>5, <2>1, <2>3
<1>10. Headed(c, NameLine("bound", <<"boundary">>))
  <2>1. b \o z \in Text /\ c = h \o (b \o z)
    BY <1>1, <1>5a, <1>8, <1>9, Joined, Assoc
  <2> HIDE DEF c
  <2> QED BY <2>1, Literals, HeadedIs DEF h
<1>11. Len(h) = Ahead
  BY <1>1 DEF Ahead
<1>12. At(d, 1) = Ahead /\ \A i \in 1 .. Len(d) : Framing(c, d, i)
  <2>1. c = (h \o Body(d)) \o z
    BY <1>5a, <1>9 DEF b
  <2> HIDE DEF c
  <2> QED BY <1>1, <1>8, <1>11, <2>1, FramingIs
<1>13. e \in Nat /\ Closed(c, e)
  <2>1. c = (h \o Body(d)) \o z
    BY <1>5a, <1>9 DEF b
  <2> HIDE DEF c
  <2>2. /\ Len(c) = e + Len(z) /\ \A k \in 1 .. Len(z) : c[e + k] = z[k]
        /\ \A i \in 1 .. Len(d) + 1 : At(d, i) \in Nat
    <3>1. Placed(c, d, h, z)
      BY <1>1, <1>8, <1>11, <2>1, Places
    <3> QED BY <3>1 DEF Placed
  <2>3. Len(d) + 1 \in 1 .. Len(d) + 1
    BY FramedIs
  <2>4. e \in Nat
    BY <2>2, <2>3
  <2> HIDE DEF e
  <2>5. c[e + 1] = z[1] /\ c[e + 2] = z[2] /\ c[e + 3] = z[3] /\ c[e + 4] = z[4]
        /\ c[e + 5] = z[5] /\ Len(c) >= e + 5
    BY <1>8, <2>2, <2>4
  <2>6. Final(c, e)
    BY <1>8, <2>5 DEF Final
  <2> QED BY <2>4, <2>6 DEF Closed
<1> QED BY <1>10, <1>12, <1>13 DEF Laid

LEMMA OtherIs ==
  ASSUME NEW d \in Seq(Text), origin \in Who \ {"BitMail"}
  PROVE  Laid(Composed(d), d)
<1> DEFINE hl == HeaderLine("bound", <<"boundary">>)
           b == Body(d)
           x == <<"x">>
           hx == hl \o x
           h == hx \o CRLF
           z == Trailer(origin)
           c == Composed(d)
           e == At(d, Len(d) + 1)
<1>1. /\ hl \in Text /\ Len(hl) = 12 /\ b \in Text
  <2>1. Len(<<"boundary">>) = 1
    OBVIOUS
  <2>2. hl \in Text /\ Len(hl) = 1 + 11
    <3>1. <<>> \in Text
      BY EmptyText
    <3> QED BY <2>1, <3>1, Literals, HeadedIs
  <2> QED BY <2>2, FramedIs
<1>2. x \in Text /\ Len(x) = 1 /\ x[1] = "x" /\ z \in Text
  BY Literals, TrailerIs
<1>3. hx = hl \o x /\ h = hx \o CRLF
  OBVIOUS
<1>4. c = (h \o b) \o z
  BY DEF Composed, OtherText, Who
<1> HIDE DEF hl, b, x, hx, h, z, c, e
<1>5. Joins(hx, hl, x)
  BY <1>1, <1>2, <1>3, Joining
<1>6. Joins(h, hx, CRLF)
  <2>1. hx \in Text
    BY <1>5 DEF Joins
  <2> QED BY <1>3, <2>1, Breaks, Joining
<1>8. /\ h \in Text /\ Len(h) = 15 /\ h[13] = "x" /\ h[14] = CR /\ h[15] = LF
  <2>1. /\ hx \in Text /\ Len(hx) = 13 /\ hx[12 + 1] = "x"
    BY <1>1, <1>2, <1>5 DEF Joins
  <2>2. h \in Text /\ Len(h) = 15 /\ h[13 + 1] = CR /\ h[13 + 2] = LF
        /\ \A i \in 1 .. 13 : h[i] = hx[i]
    BY <1>6, <2>1, Breaks DEF Joins
  <2> QED BY <2>1, <2>2
<1>13. Headed(c, NameLine("bound", <<"boundary">>))
  <2> DEFINE xc == x \o CRLF
             xcb == xc \o b
             r == xcb \o z
  <2>1. xc \in Text
    BY <1>2, Breaks, Joined
  <2>2. xcb \in Text
    BY <1>1, <2>1, Joined
  <2>3. r \in Text
    BY <1>2, <2>2, Joined
  <2>4. h = hl \o xc
    BY <1>1, <1>2, <1>3, Breaks, Assoc
  <2> HIDE DEF xc
  <2>5. h \o b = hl \o xcb
    BY <1>1, <2>1, <2>4, Assoc
  <2> HIDE DEF xcb
  <2>6. c = hl \o r
    <3>1. hl \in Text /\ xcb \in Text /\ z \in Text
      BY <1>1, <1>2, <2>2
    <3>2. (hl \o xcb) \o z = hl \o (xcb \o z)
      BY <3>1, Assoc
    <3> QED BY <1>4, <2>5, <3>2
  <2> HIDE DEF r
  <2> QED BY <2>3, <2>6, Literals, HeadedIs DEF hl
<1>14. Len(h) = Ahead
  BY <1>8 DEF Ahead, Who
<1>15. At(d, 1) = Ahead /\ \A i \in 1 .. Len(d) : Framing(c, d, i)
  <2>1. c = (h \o Body(d)) \o z
    BY <1>4 DEF b
  <2> QED BY <1>2, <1>8, <1>14, <2>1, FramingIs
<1>16. /\ Len(c) = e + Len(z) /\ \A k \in 1 .. Len(z) : c[e + k] = z[k]
       /\ \A k \in 1 .. 15 : c[k] = h[k]
       /\ e \in Nat /\ e >= 15
  <2>1. c = (h \o Body(d)) \o z
    BY <1>4 DEF b
  <2>2. Placed(c, d, h, z)
    BY <1>2, <1>8, <1>14, <2>1, Places
  <2>3. Len(d) + 1 \in 1 .. Len(d) + 1
    BY FramedIs
  <2>4. /\ Len(c) = e + Len(z) /\ \A k \in 1 .. Len(z) : c[e + k] = z[k]
        /\ \A k \in 1 .. Len(h) : c[k] = h[k]
        /\ \A i \in 1 .. Len(d) + 1 : At(d, i) \in Nat /\ At(d, i) >= Ahead
    BY <2>2 DEF Placed, e
  <2>5. e \in Nat /\ e >= Ahead
    BY <2>3, <2>4 DEF e
  <2>6. Ahead = 15
    BY <1>8, <1>14
  <2> QED BY <1>8, <2>4, <2>5, <2>6
<1>17. Closed(c, e)
  <2>1. Closed(z, 0)
    BY TrailerIs DEF z
  <2> QED BY <1>2, <1>16, <2>1, ClosedBehind
<1>18. Len(c) >= 15 /\ c[13] = "x" /\ c[14] = CR /\ c[15] = LF
  BY <1>2, <1>8, <1>16, OfText
<1>19. Laid(c, d)
  BY <1>13, <1>15, <1>16, <1>17, <1>18 DEF Laid, e
<1> QED BY <1>19 DEF c

LEMMA LaidOut ==
  ASSUME NEW d \in Seq(Text), d # <<>> \/ origin # "BitMail", origin \in Who
  PROVE  Laid(Composed(d), d)
BY MixedIs, OtherIs DEF Who

(* In canonical form it is the text of the canonical parts.                 *)
LEMMA CanonBreak == Canon(CRLF) = CRLF
<1>1. CR \in Token /\ LF \in Token
  BY DEF Token
<1>2. <<CR>> \in Text /\ <<LF>> \in Text
  BY <1>1, OneToken
<1>3. CRLF = <<CR>> \o <<LF>>
  BY <1>2, Pair DEF CRLF
<1>4. Canon(<<CR>>) = <<>> /\ Canon(<<LF>>) = CRLF
  BY <1>1, CanonOne, Breaks DEF CanonChar
<1>5. Canon(<<CR>> \o <<LF>>) = Canon(<<CR>>) \o Canon(<<LF>>)
  BY <1>2, CanonConcat
<1>6. <<>> \o CRLF = CRLF
  BY EmptyText, Breaks
<1> QED BY <1>3, <1>4, <1>5, <1>6

LEMMA CanonPart == \A t \in Text : Canon(Part(t)) = Part(Canon(t))
<1> SUFFICES ASSUME NEW t \in Text PROVE Canon(Part(t)) = Part(Canon(t))
  OBVIOUS
<1> DEFINE q == <<"--", "boundary">>
           u == Canon(t)
<1>1. q \in Text /\ t \in Text /\ u \in Text /\ CRLF \in Text
  BY Literals, Breaks, CanonType
<1>2. Canon(q) = q
  <2>1. Len(q) = 2 /\ \A i \in 1 .. 2 : q[i] \notin {CR, LF}
    BY Words
  <2> HIDE DEF q
  <2> QED BY <1>1, <2>1, CanonPlain
<1>3. Part(t) = ((q \o CRLF) \o t) \o CRLF /\ Part(u) = ((q \o CRLF) \o u) \o CRLF
  BY DEF Part
<1>4. u = Canon(t)
  OBVIOUS
<1> HIDE DEF q, u
<1>5. q \o CRLF \in Text /\ (q \o CRLF) \o t \in Text
  <2>1. q \o CRLF \in Text
    BY <1>1, Joined
  <2> QED BY <1>1, <2>1, Joined
<1>6. Canon(q \o CRLF) = q \o CRLF
  <2>1. q \in Text /\ CRLF \in Text
    BY <1>1
  <2>2. Canon(q \o CRLF) = Canon(q) \o Canon(CRLF)
    BY <2>1, CanonConcat
  <2> QED BY <1>2, <2>2, CanonBreak
<1> DEFINE r == q \o CRLF
           w == r \o t
<1>7. Canon(w) = r \o u
  <2>1. r \in Text /\ t \in Text
    BY <1>5
  <2> HIDE DEF r
  <2>2. Canon(r \o t) = Canon(r) \o Canon(t)
    BY <2>1, CanonConcat
  <2> QED BY <1>4, <1>6, <2>2 DEF r
<1>8. Canon(Part(t)) = (r \o u) \o CRLF
  <2>1. w \in Text /\ CRLF \in Text /\ Part(t) = w \o CRLF
    BY <1>1, <1>3, <1>5
  <2> HIDE DEF w
  <2>2. Canon(w \o CRLF) = Canon(w) \o Canon(CRLF)
    BY <2>1, CanonConcat
  <2> QED BY <1>7, <2>1, <2>2, CanonBreak
<1> QED BY <1>3, <1>4, <1>8

LEMMA CanonsIs ==
  ASSUME NEW d \in Seq(Text)
  PROVE  /\ Canons(d) \in Seq(Text) /\ Len(Canons(d)) = Len(d)
         /\ \A i \in 1 .. Len(d) : Canons(d)[i] = Canon(d[i])
         /\ d # <<>> => Canons(d) # <<>>
<1>1. Len(d) \in Nat /\ DOMAIN d = 1 .. Len(d) /\ \A i \in 1 .. Len(d) : d[i] \in Text
  OBVIOUS
<1>2. Canons(d) = [i \in 1 .. Len(d) |-> Canon(d[i])]
  BY <1>1 DEF Canons
<1>3. \A i \in 1 .. Len(d) : Canon(d[i]) \in Text
  BY <1>1, CanonType
<1>4. Canons(d) \in Seq(Text) /\ Len(Canons(d)) = Len(d)
  BY <1>1, <1>2, <1>3
<1>5. d # <<>> => Len(d) # 0
  BY EmptySeq
<1>6. Len(<<>>) = 0
  OBVIOUS
<1> QED BY <1>2, <1>4, <1>5, <1>6

LEMMA CanonBody ==
  ASSUME NEW d \in Seq(Text)
  PROVE  Canon(Body(d)) = Body(Canons(d))
<1> DEFINE n == Len(d)
           f == Framed(d)
           g == Framed(Canons(d))
           T == {i \in Nat : i <= n => Canon(First(f, i)) = First(g, i)}
<1>1. /\ n \in Nat /\ f \in [1 .. n -> Text] /\ Body(d) = First(f, n)
      /\ \A i \in 1 .. n : d[i] \in Text /\ f[i] = Part(d[i])
  BY FramedIs
<1>2. /\ g \in [1 .. n -> Text] /\ Body(Canons(d)) = First(g, n)
      /\ \A i \in 1 .. n : g[i] = Part(Canon(d[i]))
  <2>1. /\ Canons(d) \in Seq(Text) /\ Len(Canons(d)) = n
        /\ \A i \in 1 .. n : Canons(d)[i] = Canon(d[i])
    BY CanonsIs
  <2> HIDE DEF n
  <2> QED BY <2>1, FramedIs
<1> HIDE DEF f, g, n
<1>3. /\ First(f, 0) = <<>> /\ First(g, 0) = <<>>
      /\ \A i \in 0 .. n : First(f, i) \in Text /\ First(g, i) \in Text
      /\ \A i \in 1 .. n : /\ First(f, i) = First(f, i - 1) \o f[i]
                           /\ First(g, i) = First(g, i - 1) \o g[i]
  <2>1. n \in Nat /\ f \in [1 .. n -> Seq(Token)] /\ g \in [1 .. n -> Seq(Token)]
    BY <1>1, <1>2 DEF Text
  <2>2. /\ First(f, 0) = <<>> /\ \A i \in 0 .. n : First(f, i) \in Seq(Token)
        /\ \A i \in 1 .. n : First(f, i) = First(f, i - 1) \o f[i]
    BY <2>1, FirstStep
  <2>3. /\ First(g, 0) = <<>> /\ \A i \in 0 .. n : First(g, i) \in Seq(Token)
        /\ \A i \in 1 .. n : First(g, i) = First(g, i - 1) \o g[i]
    BY <2>1, FirstStep
  <2> QED BY <2>2, <2>3 DEF Text
<1>4. 0 \in T
  BY <1>3, CanonEmpty
<1>5. ASSUME NEW i \in Nat, i \in T PROVE i + 1 \in T
  <2>1. ASSUME i + 1 <= n PROVE Canon(First(f, i + 1)) = First(g, i + 1)
    <3>1. i + 1 \in 1 .. n /\ (i + 1) - 1 = i /\ i \in 0 .. n /\ i <= n
      BY <1>1, <2>1
    <3>2. First(f, i + 1) = First(f, i) \o f[i + 1] /\ First(g, i + 1) = First(g, i) \o g[i + 1]
      BY <1>3, <3>1
    <3>3. f[i + 1] \in Text /\ First(f, i) \in Text /\ Canon(f[i + 1]) = g[i + 1]
      BY <1>1, <1>2, <1>3, <3>1, CanonPart
    <3>4. Canon(First(f, i)) = First(g, i)
      BY <1>5, <3>1
    <3> QED BY <3>2, <3>3, <3>4, CanonConcat
  <2> QED BY <2>1
<1> HIDE DEF T
<1>6. n \in T
  BY <1>1, <1>4, <1>5, Induction
<1> QED BY <1>1, <1>2, <1>6 DEF T

Is(s, t) == s \in Text /\ t \in Text /\ Canon(s) = t

LEMMA CanonIs ==
  ASSUME NEW s, NEW t, NEW u, NEW v, Is(s, u), Is(t, v)
  PROVE  Is(s \o t, u \o v)
BY Joined, CanonConcat DEF Is

LEMMA CanonNameLine ==
  ASSUME NEW v \in Text, NEW name \in {"bound", "filename"},
         \A i \in 1 .. Len(v) : v[i] \notin {CR, LF}
  PROVE  /\ Canon(NameLine(name, v)) = NameLine(name, v)
         /\ Canon(HeaderLine(name, v)) = HeaderLine(name, v)
<1> DEFINE h == <<"x", "colon", "x", "semi", "sp", name, "eq">>
           l == NameLine(name, v)
<1>1. l \in Text /\ l = (h \o v) \o CRLF /\ HeaderLine(name, v) = l \o CRLF /\ h \in Text
  BY NameLineIs
<1>2. Canon(h) = h
  <2>1. Len(h) = 7 /\ \A i \in 1 .. 7 : h[i] \notin {CR, LF}
    BY DEF CR, LF
  <2> HIDE DEF h
  <2> QED BY <1>1, <2>1, CanonPlain
<1>3. Canon(v) = v
  BY CanonPlain
<1> HIDE DEF h, l
<1>4. h \o v \in Text /\ Canon(h \o v) = h \o v
  <2>1. Is(h, h) /\ Is(v, v)
    BY <1>1, <1>2, <1>3 DEF Is
  <2>2. Is(h \o v, h \o v)
    BY <2>1, CanonIs
  <2> QED BY <2>2 DEF Is
<1>5. Canon(l) = l
  BY <1>1, <1>4, Breaks, CanonBreak, CanonConcat
<1>6. Canon(l \o CRLF) = l \o CRLF
  BY <1>1, <1>5, Breaks, CanonBreak, CanonConcat
<1> QED BY <1>1, <1>5, <1>6 DEF l

LEMMA CanonComposed ==
  ASSUME NEW d \in Seq(Text), d # <<>> \/ origin # "BitMail",
         origin \in Who
  PROVE  Canon(Composed(d)) = Composed(Canons(d))
<1> DEFINE e  == Canons(d)
           h  == HeaderLine("bound", <<"boundary">>)
           b  == Body(d)
           be == Body(e)
           x  == <<"x">>
           q  == <<"--", "boundary">>
           w  == <<"--", "boundary", "--">>
           y  == <<"--">>
<1>1. /\ h \in Text /\ b \in Text /\ be \in Text /\ Canon(b) = be
      /\ Canon(h) = h /\ CRLF \in Text /\ Canon(CRLF) = CRLF
  <2>1. h \in Text
    BY EmptyText, Literals, HeadedIs
  <2>2. Canon(h) = h
    <3>1. \A i \in 1 .. Len(<<"boundary">>) : <<"boundary">>[i] \notin {CR, LF}
      BY Words
    <3> QED BY <3>1, Literals, CanonNameLine
  <2>3. Canons(d) \in Seq(Text)
    BY CanonsIs
  <2> QED BY <2>1, <2>2, <2>3, FramedIs, CanonBody, Breaks, CanonBreak
<1>2. /\ x \in Text /\ Canon(x) = x /\ q \in Text /\ Canon(q) = q
      /\ w \in Text /\ Canon(w) = w /\ y \in Text /\ Canon(y) = y
  <2>1. x \in Text /\ q \in Text /\ w \in Text /\ y \in Text
    BY Literals
  <2>2. /\ \A i \in 1 .. Len(x) : x[i] \notin {CR, LF}
        /\ \A i \in 1 .. Len(q) : q[i] \notin {CR, LF}
        /\ \A i \in 1 .. Len(w) : w[i] \notin {CR, LF}
        /\ \A i \in 1 .. Len(y) : y[i] \notin {CR, LF}
    BY Words
  <2> HIDE DEF x, q, w, y
  <2> QED BY <2>1, <2>2, CanonPlain
<1>3. /\ Is(h, h) /\ Is(b, be) /\ Is(CRLF, CRLF) /\ Is(x, x) /\ Is(q, q)
      /\ Is(w, w) /\ Is(y, y)
  BY <1>1, <1>2 DEF Is
<1>4. d # <<>> => e # <<>>
  BY CanonsIs
<1>5. CASE origin = "BitMail"
  <2>0. d # <<>>
    BY <1>5
  <2>1. /\ Composed(d) = (((h \o b) \o w) \o CRLF) \o CRLF
        /\ Composed(e) = (((h \o be) \o w) \o CRLF) \o CRLF
    BY <1>4, <1>5, <2>0 DEF Composed, MixedText
  <2> HIDE DEF e, h, b, be, x, q, w, y
  <2>2. Is(h \o b, h \o be)
    BY <1>3, CanonIs
  <2>3. Is((h \o b) \o w, (h \o be) \o w)
    BY <1>3, <2>2, CanonIs
  <2>4. Is(((h \o b) \o w) \o CRLF, ((h \o be) \o w) \o CRLF)
    BY <1>3, <2>3, CanonIs
  <2>5. Is(Composed(d), Composed(e))
    BY <1>3, <2>1, <2>4, CanonIs
  <2> QED BY <2>5 DEF Is, e
<1>6. CASE origin # "BitMail"
  <2> DEFINE v == IF origin = "bare" THEN q \o CRLF ELSE <<>>
             u == IF origin = "cut" THEN CRLF ELSE ((y \o CRLF) \o x) \o CRLF
             z == (v \o q) \o u
             hx == (h \o x) \o CRLF
  <2>1. Composed(d) = (hx \o b) \o z /\ Composed(e) = (hx \o be) \o z
    BY <1>6 DEF Composed, OtherText, Trailer
  <2> HIDE DEF e, h, b, be, x, q, w, y
  <2>2. Is(h \o x, h \o x)
    BY <1>3, CanonIs
  <2>3. Is(hx, hx)
    BY <1>3, <2>2, CanonIs
  <2>4. Is(y \o CRLF, y \o CRLF)
    BY <1>3, CanonIs
  <2>5. Is((y \o CRLF) \o x, (y \o CRLF) \o x)
    BY <1>3, <2>4, CanonIs
  <2>6. Is(((y \o CRLF) \o x) \o CRLF, ((y \o CRLF) \o x) \o CRLF)
    BY <1>3, <2>5, CanonIs
  <2>7. Is(u, u) /\ Is(v, v)
    <3>1. Is(q \o CRLF, q \o CRLF)
      BY <1>3, CanonIs
    <3>2. Is(<<>>, <<>>)
      BY EmptyText, CanonEmpty DEF Is
    <3> QED BY <1>3, <2>6, <3>1, <3>2
  <2> HIDE DEF u, v
  <2>8. Is(v \o q, v \o q)
    BY <1>3, <2>7, CanonIs
  <2>9. Is(z, z)
    BY <2>7, <2>8, CanonIs
  <2> HIDE DEF z, hx
  <2>10. Is(hx \o b, hx \o be)
    BY <1>3, <2>3, CanonIs
  <2>11. Is(Composed(d), Composed(e))
    BY <2>1, <2>9, <2>10, CanonIs
  <2> QED BY <2>11 DEF Is, e
<1> QED BY <1>5, <1>6
-----------------------------------------------------------------------------
(* The state machine, one character at a time.                              *)
ScanStart ==
  [state |-> "start", save |-> "start", word |-> <<>>, name |-> <<>>, params |-> {}]

Scans(line, m, s) ==
  s = [i \in 0 .. m |-> IF i = 0 THEN ScanStart ELSE ParseChar(s[i - 1], line[i])]

LEMMA ScansExists == ASSUME NEW line, NEW n \in Nat PROVE \E s : Scans(line, n, s)
<1> DEFINE T == {m \in Nat : \E s : Scans(line, m, s)}
<1>1. 0 \in T
  <2> DEFINE z == [i \in 0 .. 0 |-> ScanStart]
  <2>1. z = [i \in 0 .. 0 |-> IF i = 0 THEN ScanStart ELSE ParseChar(z[i - 1], line[i])]
    OBVIOUS
  <2>2. Scans(line, 0, z)
    BY <2>1 DEF Scans
  <2> QED BY <2>2
<1>2. ASSUME NEW m \in Nat, m \in T PROVE m + 1 \in T
  <2>1. PICK s : Scans(line, m, s)
    BY <1>2
  <2> DEFINE h == [i \in 0 .. m + 1 |->
                    IF i = m + 1 THEN ParseChar(s[m], line[m + 1]) ELSE s[i]]
  <2>2. ASSUME NEW i \in 0 .. m + 1
        PROVE  h[i] = IF i = 0 THEN ScanStart ELSE ParseChar(h[i - 1], line[i])
    <3>1. CASE i = m + 1
      <4>1. i # 0 /\ i - 1 = m /\ m \in 0 .. m + 1 /\ m # m + 1
        BY <3>1
      <4>2. h[m] = s[m]
        BY <4>1
      <4> QED BY <3>1, <4>1, <4>2
    <3>2. CASE i # m + 1
      <4>1. i \in 0 .. m /\ h[i] = s[i]
        BY <3>2
      <4>2. i # 0 => h[i - 1] = s[i - 1]
        BY <4>1
      <4>3. s[i] = IF i = 0 THEN ScanStart ELSE ParseChar(s[i - 1], line[i])
        BY <2>1, <4>1 DEF Scans
      <4> QED BY <4>1, <4>2, <4>3
    <3> QED BY <3>1, <3>2
  <2>3. h = [i \in 0 .. m + 1 |-> IF i = 0 THEN ScanStart ELSE ParseChar(h[i - 1], line[i])]
    BY <2>2
  <2> HIDE DEF h
  <2>4. Scans(line, m + 1, h)
    BY <2>3 DEF Scans
  <2> QED BY <2>4
<1> HIDE DEF T
<1>3. n \in T
  BY <1>1, <1>2, Induction
<1> QED BY <1>3 DEF T

LEMMA ScansAgree ==
  ASSUME NEW line, NEW other, NEW n \in Nat, NEW m \in Nat, n <= m,
         \A i \in 1 .. n : other[i] = line[i],
         NEW s, Scans(line, n, s), NEW r, Scans(other, m, r)
  PROVE  s[n] = r[n]
<1> DEFINE T == {i \in Nat : i <= n => s[i] = r[i]}
<1>1. /\ \A i \in 0 .. n : s[i] = IF i = 0 THEN ScanStart ELSE ParseChar(s[i - 1], line[i])
      /\ \A i \in 0 .. m : r[i] = IF i = 0 THEN ScanStart ELSE ParseChar(r[i - 1], other[i])
  BY DEF Scans
<1>2. 0 \in T
  BY <1>1
<1>3. ASSUME NEW i \in Nat, i \in T PROVE i + 1 \in T
  <2>1. ASSUME i + 1 <= n PROVE s[i + 1] = r[i + 1]
    <3>1. i + 1 \in 0 .. n /\ i + 1 \in 0 .. m /\ i + 1 # 0 /\ (i + 1) - 1 = i
          /\ i + 1 \in 1 .. n /\ i <= n
      BY <2>1
    <3>2. s[i + 1] = ParseChar(s[i], line[i + 1]) /\ r[i + 1] = ParseChar(r[i], other[i + 1])
      BY <1>1, <3>1
    <3>3. s[i] = r[i] /\ other[i + 1] = line[i + 1]
      BY <1>3, <3>1
    <3> QED BY <3>2, <3>3
  <2> QED BY <2>1
<1> HIDE DEF T
<1>4. n \in T
  BY <1>2, <1>3, Induction
<1> QED BY <1>4 DEF T

LEMMA ScanIs ==
  ASSUME NEW line \in Text
  PROVE  \E s : Scans(line, Len(line), s) /\ Scan(line) = s[Len(line)]
<1>1. Len(line) \in Nat
  BY OfText
<1>2. \E s : Scans(line, Len(line), s)
  BY <1>1, ScansExists
<1> QED BY <1>2 DEF Scans, Scan, ScanStart

LEMMA ScanStep ==
  /\ Scan(<<>>) = ScanStart
  /\ \A s \in Text, c \in Token : Scan(s \o <<c>>) = ParseChar(Scan(s), c)
<1>1. Scan(<<>>) = ScanStart
  <2>1. Len(<<>>) = 0 /\ 0 \in 0 .. 0
    OBVIOUS
  <2>2. PICK s : Scans(<<>>, 0, s) /\ Scan(<<>>) = s[0]
    BY <2>1, EmptyText, ScanIs
  <2> QED BY <2>1, <2>2 DEF Scans
<1>2. ASSUME NEW s \in Text, NEW c \in Token PROVE Scan(s \o <<c>>) = ParseChar(Scan(s), c)
  <2> DEFINE t == s \o <<c>>
             n == Len(s)
  <2>1. t \in Text /\ Len(t) = n + 1 /\ n \in Nat /\ t[n + 1] = c /\ \A i \in 1 .. n : t[i] = s[i]
    BY DEF Text
  <2> HIDE DEF t, n
  <2>2. PICK f : Scans(s, n, f) /\ Scan(s) = f[n]
    BY ScanIs DEF n
  <2>3. PICK g : Scans(t, n + 1, g) /\ Scan(t) = g[n + 1]
    BY <2>1, ScanIs
  <2>4. f[n] = g[n]
    <3> DEFINE m == n + 1
    <3>1. n \in Nat /\ m \in Nat /\ n <= m /\ \A i \in 1 .. n : s[i] = t[i]
      BY <2>1
    <3>2. Scans(s, n, f) /\ Scans(t, m, g)
      BY <2>2, <2>3
    <3> HIDE DEF m
    <3> QED BY <3>1, <3>2, ScansAgree
  <2>5. n + 1 \in 0 .. n + 1 /\ n + 1 # 0 /\ (n + 1) - 1 = n
    BY <2>1
  <2>6. g[n + 1] = ParseChar(g[n], t[n + 1])
    BY <2>3, <2>5 DEF Scans
  <2> QED BY <2>1, <2>2, <2>3, <2>4, <2>6 DEF t
<1> QED BY <1>1, <1>2

-----------------------------------------------------------------------------
(* strip_ends.                                                              *)
LEMMA StripStartIs ==
  ASSUME NEW S, NEW s \in Seq(S)
  PROVE  /\ StripStart(s) \in Seq(S)
         /\ Len(s) >= 1 /\ s[1] \notin {"sp", "quote"} => StripStart(s) = s
         /\ s = <<>> => StripStart(s) = <<>>
<1> DEFINE ink == {i \in DOMAIN s : s[i] # "sp"}
           a == Min(ink) + (IF s[Min(ink)] = "quote" THEN 1 ELSE 0)
<1>1. Len(s) \in Nat /\ DOMAIN s = 1 .. Len(s) /\ ink \in SUBSET (1 .. Len(s))
      /\ ink \in SUBSET Nat
  BY LenProperties
<1>2. ink = {} => StripStart(s) = <<>>
  BY DEF StripStart
<1>3. ink # {} => StripStart(s) = SubSeq(s, a, Len(s))
  BY DEF StripStart
<1>4. ink # {} => Min(ink) \in ink /\ \A m \in ink : Min(ink) <= m
  BY <1>1, MinIs
<1>5. s = <<>> => ink = {}
  OBVIOUS
<1>6. ASSUME Len(s) >= 1, s[1] \notin {"sp", "quote"} PROVE StripStart(s) = s
  <2>1. 1 \in ink
    BY <1>1, <1>6
  <2>2. Min(ink) \in Nat /\ Min(ink) >= 1 /\ Min(ink) <= 1
    BY <1>1, <1>4, <2>1
  <2>3. Min(ink) = 1
    BY <2>2
  <2>4. a = 1
    BY <1>6, <2>3
  <2> HIDE DEF ink, a
  <2> QED BY <1>3, <2>1, <2>4, SubSeqFull
<1>7. StripStart(s) \in Seq(S)
  <2>1. CASE ink = {}
    BY <1>2, <2>1, EmptySeq
  <2>2. CASE ink # {}
    <3>1. Min(ink) \in 1 .. Len(s)
      BY <1>1, <1>4, <2>2
    <3>2. a \in Nat /\ a >= 1
      BY <3>1
    <3> HIDE DEF ink, a
    <3>3. \A i \in a .. Len(s) : s[i] \in S
      <4>1. \A i \in a .. Len(s) : i \in 1 .. Len(s)
        BY <1>1, <3>2
      <4> QED BY <4>1, ElementOfSeq
    <3>4. SubSeq(s, a, Len(s)) \in Seq(S)
      BY <1>1, <3>2, <3>3, SubSeqProperties
    <3> QED BY <1>3, <2>2, <3>4
  <2> QED BY <2>1, <2>2
<1> QED BY <1>2, <1>5, <1>6, <1>7

LEMMA StripEndIs ==
  ASSUME NEW S, NEW s \in Seq(S)
  PROVE  /\ StripEnd(s) \in Seq(S)
         /\ \E k \in 0 .. Len(s) : StripEnd(s) = SubSeq(s, 1, k)
         /\ Len(s) >= 1 /\ s[Len(s)] \notin {"sp", "quote"} => StripEnd(s) = s
<1> DEFINE ink  == {i \in DOMAIN s : s[i] # "sp"}
           last == Max(ink)
           b    == IF s[last] = "quote" THEN last - 1 ELSE last
           none == ink = {} \/ (last = 2 /\ s[last] = "quote")
<1>1. Len(s) \in Nat /\ DOMAIN s = 1 .. Len(s) /\ ink \in SUBSET (1 .. Len(s))
      /\ ink \in SUBSET (0 .. Len(s))
  BY LenProperties
<1>2. StripEnd(s) = IF none THEN <<>> ELSE SubSeq(s, 1, b)
  BY DEF StripEnd
<1>3. ink # {} => last \in ink /\ \A m \in ink : m <= last
  BY <1>1, MaxIs
<1>4. \E k \in 0 .. Len(s) : StripEnd(s) = SubSeq(s, 1, k)
  <2>1. CASE none
    <3>1. SubSeq(s, 1, 0) = <<>> /\ 0 \in 0 .. Len(s)
      BY <1>1, SubSeqEmpty
    <3> HIDE DEF none
    <3> QED BY <1>2, <2>1, <3>1
  <2>2. CASE ~none
    <3>1. last \in 1 .. Len(s)
      BY <1>1, <1>3, <2>2
    <3>2. b \in 0 .. Len(s)
      BY <1>1, <3>1
    <3> HIDE DEF none, b
    <3> QED BY <1>2, <2>2, <3>2
  <2> QED BY <2>1, <2>2
<1>5. ASSUME Len(s) >= 1, s[Len(s)] \notin {"sp", "quote"} PROVE StripEnd(s) = s
  <2>1. Len(s) \in ink
    BY <1>1, <1>5
  <2>2. last \in 1 .. Len(s) /\ Len(s) <= last
    BY <1>1, <1>3, <2>1
  <2>3. last = Len(s)
    BY <1>1, <2>2
  <2>4. ~none /\ b = Len(s)
    BY <1>5, <2>1, <2>3
  <2> HIDE DEF none, b
  <2> QED BY <1>2, <2>4, SubSeqFull
<1>6. StripEnd(s) \in Seq(S)
  <2>1. PICK k \in 0 .. Len(s) : StripEnd(s) = SubSeq(s, 1, k)
    BY <1>4
  <2>2. \A i \in 1 .. k : s[i] \in S
    <3>1. \A i \in 1 .. k : i \in 1 .. Len(s)
      BY <1>1
    <3> QED BY <3>1, ElementOfSeq
  <2> QED BY <1>1, <2>1, <2>2, SubSeqProperties
<1> QED BY <1>4, <1>5, <1>6

LEMMA StripType ==
  ASSUME NEW S, NEW s \in Seq(S) PROVE Strip(s) \in Seq(S)
BY StripStartIs, StripEndIs DEF Strip

LEMMA StripPrefix ==
  ASSUME NEW s \in Text, s = <<>> \/ s[1] \notin {"sp", "quote"}
  PROVE  /\ IsPrefix(Strip(s), s)
         /\ s # <<>> /\ s[Len(s)] \notin {"sp", "quote"} => Strip(s) = s
<1>1. Len(s) \in Nat /\ s \in Seq(Token) /\ (s # <<>> => Len(s) >= 1)
  BY OfText, EmptySeq DEF Text
<1>2. StripStart(s) = s
  BY <1>1, StripStartIs
<1>3. PICK k \in 0 .. Len(s) : StripEnd(s) = SubSeq(s, 1, k)
  BY <1>1, StripEndIs
<1>4. Len(SubSeq(s, 1, k)) = k /\ k \in Nat /\ k <= Len(s)
  <2>1. k \in Nat /\ k <= Len(s) /\ 1 \in Nat \ {0}
    BY <1>1
  <2>2. Len(SubSeq(s, 1, k)) = IF 1 <= k THEN k - 1 + 1 ELSE 0
    BY <2>1, Piece
  <2> QED BY <2>1, <2>2
<1>5. SubSeq(SubSeq(s, 1, k), 1, k) = SubSeq(s, 1, k)
  <2>1. SubSeq(s, 1, k) \in Text
    BY <1>4, Piece
  <2> DEFINE q == SubSeq(s, 1, k)
  <2>2. q \in Text /\ Len(q) = k
    BY <1>4, <2>1
  <2> HIDE DEF q
  <2>3. SubSeq(q, 1, k) = q
    BY <2>2, SubSeqFull DEF Text
  <2> QED BY <2>3 DEF q
<1>6. Strip(s) = SubSeq(s, 1, k)
  BY <1>2, <1>3 DEF Strip
<1>7. IsPrefix(Strip(s), s)
  BY <1>4, <1>5, <1>6 DEF IsPrefix
<1>8. s # <<>> /\ s[Len(s)] \notin {"sp", "quote"} => Strip(s) = s
  <2>1. s # <<>> /\ s[Len(s)] \notin {"sp", "quote"} => StripEnd(s) = s
    BY <1>1, StripEndIs
  <2> QED BY <1>2, <2>1 DEF Strip
<1> QED BY <1>7, <1>8

LEMMA StripName ==
  ASSUME NEW n \in {"bound", "filename"}
  PROVE  Strip(<<"sp", n>>) = <<n>>
<1> DEFINE s == <<"sp", n>>
           ink == {i \in DOMAIN s : s[i] # "sp"}
<1>1. s \in Text /\ <<n>> \in Text /\ Len(s) = 2 /\ s[1] = "sp" /\ s[2] = n
  <2>1. n \in Token /\ "sp" \in Token
    BY DEF Token, NameChar
  <2> QED BY <2>1 DEF Text
<1>2. ink = {2}
  BY <1>1
<1>3. Min(ink) = 2
  <2>1. ink \in SUBSET Nat /\ ink # {}
    BY <1>2
  <2>2. Min(ink) \in ink
    BY <2>1, MinIs
  <2> QED BY <1>2, <2>2
<1>4. StripStart(s) = SubSeq(s, 2, 2)
  <2>1. s[2] # "quote"
    BY <1>1
  <2>2. StripStart(s) = SubSeq(s, 2 + 0, 2)
    BY <1>1, <1>2, <1>3, <2>1 DEF StripStart
  <2> QED BY <2>2
<1> HIDE DEF s
<1>5. SubSeq(s, 2, 2) = <<n>>
  <2>1. SubSeq(s, 2, 2) = <<s[2]>> \o SubSeq(s, 2 + 1, 2)
    <3>1. 2 \in 1 .. Len(s) /\ 2 \in 2 .. Len(s)
      BY <1>1
    <3> QED BY <1>1, <3>1, SubSeqRecursiveFirst DEF Text
  <2>2. SubSeq(s, 2 + 1, 2) = <<>>
    BY SubSeqEmpty
  <2> QED BY <1>1, <2>1, <2>2, EmptyText
<1>6. StripEnd(<<n>>) = <<n>>
  <2> DEFINE q == <<n>>
  <2>1. q \in Seq(Token) /\ Len(q) >= 1 /\ q[Len(q)] \notin {"sp", "quote"}
    BY <1>1 DEF Text
  <2> HIDE DEF q
  <2>2. StripEnd(q) = q
    BY <2>1, StripEndIs
  <2> QED BY <2>2 DEF q
<1> QED BY <1>4, <1>5, <1>6 DEF Strip, s

-----------------------------------------------------------------------------
(* mime_parse_hdr, on the lines that name the boundary or the file.         *)
Scanner(s, st, sv, w, n, p) ==
  /\ DOMAIN s = {"state", "save", "word", "name", "params"}
  /\ s.state = st /\ s.save = sv /\ s.word = w /\ s.name = n /\ s.params = p

(* What ParseChar makes of the state st, by its transitions.                *)
Goes(r, st, sv, w, n, p, c) ==
  /\ st = "start" /\ c = "colon" => Scanner(r, "type", sv, <<>>, n, p)
  /\ st = "start" /\ c # "colon" => Scanner(r, "start", sv, Append(w, c), n, p)
  /\ st = "type" /\ c = "semi" => Scanner(r, "name", sv, <<>>, n, p)
  /\ st = "type" /\ c \notin {"semi", "open"}
       => Scanner(r, "type", sv, Append(w, c), n, p)
  /\ st = "name" /\ c = "eq" => Scanner(r, "value", sv, <<>>, Strip(w), p)
  /\ st = "name" /\ c # "eq" => Scanner(r, "name", sv, Append(w, c), n, p)
  /\ st = "value" /\ c = "semi"
       => Scanner(r, "name", sv, <<>>, n, p \cup {<<n, Strip(w)>>})
  /\ st = "value" /\ c = "open" => Scanner(r, "comment", "value", Append(w, c), n, p)
  /\ st = "value" /\ c = "quote" => Scanner(r, "quote", sv, Append(w, c), n, p)
  /\ st = "value" /\ c \notin {"semi", "open", "quote"}
       => Scanner(r, "value", sv, Append(w, c), n, p)
  /\ st = "comment" /\ c = "close" => Scanner(r, sv, sv, Append(w, c), n, p)
  /\ st = "comment" /\ c # "close" => Scanner(r, "comment", sv, Append(w, c), n, p)
  /\ st = "quote" /\ c = "quote" => Scanner(r, "value", sv, Append(w, c), n, p)
  /\ st = "quote" /\ c # "quote" => Scanner(r, "quote", sv, Append(w, c), n, p)

LEMMA ParseCharIs ==
  ASSUME NEW s, NEW st, NEW sv, NEW w, NEW n, NEW p, NEW c, Scanner(s, st, sv, w, n, p)
  PROVE  Goes(ParseChar(s, c), st, sv, w, n, p, c)
<1> DEFINE r == ParseChar(s, c)
<1>0. r = ParseChar(s, c)
  OBVIOUS
<1> HIDE DEF r
<1>1. s.state = st /\ s.save = sv /\ s.word = w /\ s.name = n /\ s.params = p
  BY DEF Scanner
<1>2. ASSUME st = "start" /\ c = "colon"
      PROVE  Scanner(r, "type", sv, <<>>, n, p)
  <2>1. r = [s EXCEPT !.state = "type", !.word = <<>>]
    BY <1>0, <1>1, <1>2 DEF ParseChar
  <2> QED BY <2>1 DEF Scanner
<1>3. ASSUME st = "start" /\ c # "colon"
      PROVE  Scanner(r, "start", sv, Append(w, c), n, p)
  <2>1. r = [s EXCEPT !.state = "start", !.word = Append(@, c)]
    BY <1>0, <1>1, <1>3 DEF ParseChar
  <2> QED BY <2>1 DEF Scanner
<1>4. ASSUME st = "type" /\ c = "semi"
      PROVE  Scanner(r, "name", sv, <<>>, n, p)
  <2>1. r = [s EXCEPT !.state = "name", !.word = <<>>]
    BY <1>0, <1>1, <1>4 DEF ParseChar
  <2> QED BY <2>1 DEF Scanner
<1>5. ASSUME st = "type" /\ c \notin {"semi", "open"}
      PROVE  Scanner(r, "type", sv, Append(w, c), n, p)
  <2>1. r = [s EXCEPT !.state = "type", !.word = Append(@, c)]
    BY <1>0, <1>1, <1>5 DEF ParseChar
  <2> QED BY <2>1 DEF Scanner
<1>6. ASSUME st = "name" /\ c # "eq"
      PROVE  Scanner(r, "name", sv, Append(w, c), n, p)
  <2>1. r = [s EXCEPT !.state = "name", !.word = Append(@, c)]
    BY <1>0, <1>1, <1>6 DEF ParseChar
  <2> QED BY <2>1 DEF Scanner
<1>7. ASSUME st = "value" /\ c = "quote"
      PROVE  Scanner(r, "quote", sv, Append(w, c), n, p)
  <2>1. r = [s EXCEPT !.state = "quote", !.word = Append(@, c)]
    BY <1>0, <1>1, <1>7 DEF ParseChar
  <2> QED BY <2>1 DEF Scanner
<1>8. ASSUME st = "value" /\ c \notin {"semi", "open", "quote"}
      PROVE  Scanner(r, "value", sv, Append(w, c), n, p)
  <2>1. r = [s EXCEPT !.state = "value", !.word = Append(@, c)]
    BY <1>0, <1>1, <1>8 DEF ParseChar
  <2> QED BY <2>1 DEF Scanner
<1>9. ASSUME st = "comment" /\ c # "close"
      PROVE  Scanner(r, "comment", sv, Append(w, c), n, p)
  <2>1. r = [s EXCEPT !.state = "comment", !.word = Append(@, c)]
    BY <1>0, <1>1, <1>9 DEF ParseChar
  <2> QED BY <2>1 DEF Scanner
<1>10. ASSUME st = "quote" /\ c = "quote"
      PROVE  Scanner(r, "value", sv, Append(w, c), n, p)
  <2>1. r = [s EXCEPT !.state = "value", !.word = Append(@, c)]
    BY <1>0, <1>1, <1>10 DEF ParseChar
  <2> QED BY <2>1 DEF Scanner
<1>11. ASSUME st = "quote" /\ c # "quote"
      PROVE  Scanner(r, "quote", sv, Append(w, c), n, p)
  <2>1. r = [s EXCEPT !.state = "quote", !.word = Append(@, c)]
    BY <1>0, <1>1, <1>11 DEF ParseChar
  <2> QED BY <2>1 DEF Scanner
<1>12. ASSUME st = "comment" /\ c = "close" PROVE Scanner(r, sv, sv, Append(w, c), n, p)
  <2>1. r = [s EXCEPT !.state = s.save, !.word = Append(@, c)]
    BY <1>0, <1>1, <1>12 DEF ParseChar
  <2> QED BY <1>1, <2>1 DEF Scanner
<1>13. ASSUME st = "name" /\ c = "eq" PROVE Scanner(r, "value", sv, <<>>, Strip(w), p)
  <2> DEFINE e == [s EXCEPT !.state = "value", !.word = <<>>]
  <2>1. r = [e EXCEPT !.name = Strip(w)]
    BY <1>0, <1>1, <1>13 DEF ParseChar
  <2>2. e = [s EXCEPT !.state = "value", !.word = <<>>]
    OBVIOUS
  <2> HIDE DEF e
  <2>3. Scanner(e, "value", sv, <<>>, n, p)
    BY <2>2 DEF Scanner
  <2> QED BY <2>1, <2>3 DEF Scanner
<1>14. ASSUME st = "value" /\ c = "semi"
      PROVE  Scanner(r, "name", sv, <<>>, n, p \cup {<<n, Strip(w)>>})
  <2> DEFINE e == [s EXCEPT !.state = "name", !.word = <<>>]
  <2>1. r = [e EXCEPT !.params = @ \cup {<<s.name, Strip(s.word)>>}]
    BY <1>0, <1>1, <1>14 DEF ParseChar
  <2>2. e = [s EXCEPT !.state = "name", !.word = <<>>]
    OBVIOUS
  <2> HIDE DEF e
  <2>3. Scanner(e, "name", sv, <<>>, n, p)
    BY <2>2 DEF Scanner
  <2>4. Scanner(r, "name", sv, <<>>, n, p \cup {<<s.name, Strip(s.word)>>})
    BY <2>1, <2>3 DEF Scanner
  <2> QED BY <1>1, <2>4
<1>15. ASSUME st = "value" /\ c = "open"
      PROVE  Scanner(r, "comment", "value", Append(w, c), n, p)
  <2> DEFINE e == [s EXCEPT !.state = "comment", !.word = Append(@, c)]
  <2>1. r = [e EXCEPT !.save = "value"]
    BY <1>0, <1>1, <1>15 DEF ParseChar
  <2>2. e = [s EXCEPT !.state = "comment", !.word = Append(@, c)]
    OBVIOUS
  <2> HIDE DEF e
  <2>3. Scanner(e, "comment", sv, Append(w, c), n, p)
    BY <2>2 DEF Scanner
  <2> QED BY <2>1, <2>3 DEF Scanner
<1> QED BY <1>2, <1>3, <1>4, <1>5, <1>6, <1>7, <1>8, <1>9, <1>10, <1>11, <1>12, <1>13, <1>14, <1>15 DEF Goes, r

(* Up to the value.                                                         *)
LEMMA AppendTwo ==
  ASSUME NEW m \in Token, NEW n \in Token PROVE Append(<<m>>, n) = <<m, n>>
<1>1. <<m>> \in Seq(Token) /\ <<m>> \in Text /\ <<n>> \in Text
  BY OneToken DEF Text
<1>2. Append(<<m>>, n) = <<m>> \o <<n>>
  <2> DEFINE a == <<m>>
  <2>1. a \in Seq(Token)
    BY <1>1
  <2> HIDE DEF a
  <2>2. Append(a, n) = a \o <<n>>
    BY <2>1, AppendIsConcat
  <2> QED BY <2>2 DEF a
<1> QED BY <1>1, <1>2, Pair

LEMMA ScanHead ==
  ASSUME NEW n \in {"bound", "filename"}
  PROVE  Scanner(Scan(<<"x", "colon", "x", "semi", "sp", n, "eq">>),
                 "value", "start", <<>>, <<n>>, {})
<1> DEFINE h == <<"x", "colon", "x", "semi", "sp", n, "eq">>
<1>1. h \in Text /\ Len(h) = 7
  BY Literals
<1>2. PICK s : Scans(h, 7, s) /\ Scan(h) = s[7]
  BY <1>1, ScanIs
<1>3. /\ s[0] = ScanStart
      /\ s[1] = ParseChar(s[0], "x") /\ s[2] = ParseChar(s[1], "colon")
      /\ s[3] = ParseChar(s[2], "x") /\ s[4] = ParseChar(s[3], "semi")
      /\ s[5] = ParseChar(s[4], "sp") /\ s[6] = ParseChar(s[5], n)
      /\ s[7] = ParseChar(s[6], "eq")
  <2>1. \A i \in 0 .. 7 : s[i] = IF i = 0 THEN ScanStart ELSE ParseChar(s[i - 1], h[i])
    BY <1>2 DEF Scans
  <2>2. /\ h[1] = "x" /\ h[2] = "colon" /\ h[3] = "x" /\ h[4] = "semi"
        /\ h[5] = "sp" /\ h[6] = n /\ h[7] = "eq"
    OBVIOUS
  <2> HIDE DEF h
  <2>3. /\ s[0] = ScanStart
        /\ s[1] = ParseChar(s[1 - 1], h[1]) /\ s[2] = ParseChar(s[2 - 1], h[2])
        /\ s[3] = ParseChar(s[3 - 1], h[3]) /\ s[4] = ParseChar(s[4 - 1], h[4])
        /\ s[5] = ParseChar(s[5 - 1], h[5]) /\ s[6] = ParseChar(s[6 - 1], h[6])
        /\ s[7] = ParseChar(s[7 - 1], h[7])
    BY <2>1
  <2> QED BY <2>2, <2>3
<1> HIDE DEF h
<1>4. Scanner(s[0], "start", "start", <<>>, <<>>, {})
  <2>1. Scanner(ScanStart, "start", "start", <<>>, <<>>, {})
    BY DEF ScanStart, Scanner
  <2> QED BY <1>3, <2>1
<1>5. Scanner(s[1], "start", "start", Append(<<>>, "x"), <<>>, {})
  <2>1. Goes(s[1], "start", "start", <<>>, <<>>, {}, "x")
    BY <1>3, <1>4, ParseCharIs
  <2> QED BY <2>1 DEF Goes
<1>6. Scanner(s[2], "type", "start", <<>>, <<>>, {})
  <2>1. Goes(s[2], "start", "start", Append(<<>>, "x"), <<>>, {}, "colon")
    BY <1>3, <1>5, ParseCharIs
  <2> QED BY <2>1 DEF Goes
<1>7. Scanner(s[3], "type", "start", Append(<<>>, "x"), <<>>, {})
  <2>1. Goes(s[3], "type", "start", <<>>, <<>>, {}, "x")
    BY <1>3, <1>6, ParseCharIs
  <2> QED BY <2>1 DEF Goes
<1>8. Scanner(s[4], "name", "start", <<>>, <<>>, {})
  <2>1. Goes(s[4], "type", "start", Append(<<>>, "x"), <<>>, {}, "semi")
    BY <1>3, <1>7, ParseCharIs
  <2> QED BY <2>1 DEF Goes
<1>9. Scanner(s[5], "name", "start", Append(<<>>, "sp"), <<>>, {})
  <2>1. Goes(s[5], "name", "start", <<>>, <<>>, {}, "sp")
    BY <1>3, <1>8, ParseCharIs
  <2> QED BY <2>1 DEF Goes
<1>10. Scanner(s[6], "name", "start", Append(Append(<<>>, "sp"), n), <<>>, {})
  <2>1. Goes(s[6], "name", "start", Append(<<>>, "sp"), <<>>, {}, n)
    BY <1>3, <1>9, ParseCharIs
  <2> QED BY <2>1 DEF Goes
<1>11. Append(Append(<<>>, "sp"), n) = <<"sp", n>>
  <2>1. "sp" \in Token /\ n \in Token
    BY DEF Token, NameChar
  <2>2. Append(<<>>, "sp") = <<"sp">>
    BY <2>1
  <2> QED BY <2>1, <2>2, AppendTwo
<1>12. Scanner(s[7], "value", "start", <<>>, Strip(<<"sp", n>>), {})
  <2>1. Goes(s[7], "name", "start", Append(Append(<<>>, "sp"), n), <<>>, {}, "eq")
    BY <1>3, <1>10, ParseCharIs
  <2> QED BY <1>11, <2>1 DEF Goes
<1> QED BY <1>2, <1>12, StripName DEF h

(* The line end does not belong to a line's text.                           *)
LEMMA KeptLine ==
  ASSUME NEW v \in Text, \A i \in 1 .. Len(v) : v[i] \notin {CR, LF}
  PROVE  Kept(v \o CRLF) = v
<1> DEFINE l == v \o CRLF
           m == Len(Kept(l))
<1>1. Joins(l, v, CRLF)
  BY Breaks, Joining
<1> HIDE DEF l
<1>2. /\ l \in Text /\ Len(l) = Len(v) + 2 /\ Len(v) \in Nat
      /\ \A i \in 1 .. Len(v) : l[i] = v[i]
      /\ l[Len(v) + 1] = CR /\ l[Len(v) + 2] = LF
  BY <1>1, Breaks, OfText DEF Joins
<1>3. /\ Kept(l) \in Text /\ m \in 0 .. Len(l) /\ Kept(l) = SubSeq(l, 1, m)
      /\ m # 0 => l[m] \notin {CR, LF}
      /\ \A j \in m + 1 .. Len(l) : l[j] \in {CR, LF}
  BY <1>2, KeptIs
<1> HIDE DEF m
<1>4. m = Len(v)
  <2>1. m # Len(v) + 1 /\ m # Len(v) + 2
    BY <1>2, <1>3
  <2>2. ~(m < Len(v))
    <3> SUFFICES ASSUME m < Len(v) PROVE FALSE
      OBVIOUS
    <3>1. Len(v) \in m + 1 .. Len(l) /\ Len(v) \in 1 .. Len(v)
      BY <1>2, <1>3
    <3>2. l[Len(v)] \in {CR, LF} /\ l[Len(v)] = v[Len(v)]
      BY <1>2, <1>3, <3>1
    <3> QED BY <3>1, <3>2
  <2> QED BY <1>2, <1>3, <2>1, <2>2
<1>5. Len(Kept(l)) = Len(v) /\ \A i \in 1 .. Len(v) : Kept(l)[i] = v[i]
  <2>1. 1 \in Nat \ {0} /\ m \in Nat /\ m <= Len(l)
    BY <1>2, <1>4
  <2>2. \A i \in 1 .. m - 1 + 1 : SubSeq(l, 1, m)[i] = l[1 + i - 1]
    BY <1>2, <2>1, Piece
  <2>3. m - 1 + 1 = m /\ \A i \in 1 .. m : 1 + i - 1 = i
    BY <2>1
  <2>4. Len(Kept(l)) = m
    BY DEF m
  <2> QED BY <1>2, <1>3, <1>4, <2>2, <2>3, <2>4
<1>6. Kept(l) = v
  BY <1>3, <1>5, Same
<1> QED BY <1>6 DEF l

LEMMA LineParamsIs ==
  ASSUME NEW n \in {"bound", "filename"}, NEW v \in Text,
         \A i \in 1 .. Len(v) : v[i] \notin {CR, LF}
  PROVE  LET s == Scan(<<"x", "colon", "x", "semi", "sp", n, "eq">> \o v) IN
         LineParams(NameLine(n, v)) =
           s.params \cup (IF s.state = "value" THEN {<<s.name, Strip(s.word)>>} ELSE {})
<1> DEFINE h  == <<"x", "colon", "x", "semi", "sp", n, "eq">>
           hv == h \o v
<1>1. h \in Text /\ Len(h) = 7 /\ \A i \in 1 .. 7 : h[i] \notin {CR, LF}
  BY Literals DEF CR, LF
<1> HIDE DEF h
<1>2. Joins(hv, h, v)
  BY <1>1, Joining
<1>3. NameLine(n, v) = hv \o CRLF
  BY NameLineIs DEF h
<1> HIDE DEF hv
<1>4. hv \in Text /\ \A i \in 1 .. Len(hv) : hv[i] \notin {CR, LF}
  <2>1. /\ hv \in Text /\ Len(hv) = 7 + Len(v) /\ Len(v) \in Nat
        /\ \A i \in 1 .. 7 : hv[i] = h[i]
        /\ \A i \in 1 .. Len(v) : hv[7 + i] = v[i]
    BY <1>1, <1>2, OfText DEF Joins
  <2>2. ASSUME NEW i \in 1 .. Len(hv) PROVE hv[i] \notin {CR, LF}
    <3>1. CASE i <= 7
      <4>1. i \in 1 .. 7
        BY <3>1
      <4> QED BY <1>1, <2>1, <4>1
    <3>2. CASE i > 7
      <4>1. i - 7 \in 1 .. Len(v) /\ i = 7 + (i - 7)
        BY <2>1, <3>2
      <4>2. hv[7 + (i - 7)] = v[i - 7]
        BY <2>1, <4>1
      <4> QED BY <4>1, <4>2
    <3> QED BY <3>1, <3>2
  <2> QED BY <2>1, <2>2
<1>5. Kept(NameLine(n, v)) = hv
  BY <1>3, <1>4, KeptLine
<1> QED BY <1>5 DEF LineParams, hv, h

LEMMA BoundFound ==
  LineParams(NameLine("bound", <<"boundary">>)) = {<<<<"bound">>, <<"boundary">>>>}
<1> DEFINE h == <<"x", "colon", "x", "semi", "sp", "bound", "eq">>
           v == <<"boundary">>
           s == Scan(h \o v)
<1>1. h \in Text /\ v \in Text /\ "boundary" \in Token
      /\ \A i \in 1 .. Len(v) : v[i] \notin {CR, LF}
  BY Literals, Words DEF Token
<1>2. s = ParseChar(Scan(h), "boundary")
  BY <1>1, ScanStep
<1>3. Scanner(s, "value", "start", Append(<<>>, "boundary"), <<"bound">>, {})
  <2>1. Goes(s, "value", "start", <<>>, <<"bound">>, {}, "boundary")
    BY <1>2, ScanHead, ParseCharIs
  <2> QED BY <2>1 DEF Goes
<1>4. Append(<<>>, "boundary") = <<"boundary">>
  OBVIOUS
<1>5. Strip(<<"boundary">>) = <<"boundary">>
  <2>1. v # <<>> /\ v[1] \notin {"sp", "quote"} /\ v[Len(v)] \notin {"sp", "quote"}
    OBVIOUS
  <2> QED BY <1>1, <2>1, StripPrefix
<1>6. s.params = {} /\ s.state = "value" /\ s.word = <<"boundary">> /\ s.name = <<"bound">>
  BY <1>3, <1>4 DEF Scanner
<1>7. LineParams(NameLine("bound", v)) =
        s.params \cup (IF s.state = "value" THEN {<<s.name, Strip(s.word)>>} ELSE {})
  BY <1>1, LineParamsIs
<1> QED BY <1>5, <1>6, <1>7

(* After the characters u of the name: still in the value, or beyond it,    *)
(* where no parameter can be called filename again.                         *)
Has(u, k)   == \E i \in 1 .. Len(u) : u[i] = k
Unclosed(u) == \E i \in 1 .. Len(u) : /\ u[i] = "open"
                                      /\ \A j \in i .. Len(u) : u[j] # "close"

InValue(u, st, sv, w, n, p) ==
  /\ w = u /\ n = <<"filename">> /\ p = {} /\ st \in {"value", "quote", "comment"}
  /\ st = "comment" => sv = "value" /\ Unclosed(u)
  /\ st = "quote" => Has(u, "quote")

Named(u, q) == \/ q[1] = <<"filename">> /\ IsPrefix(q[2], u)
               \/ q[1] \in Seq(NameChar)

Beyond(u, st, sv, w, n, p) ==
  /\ Has(u, "semi") /\ w \in Seq(NameChar) /\ \A q \in p : Named(u, q)
  /\ st \in {"name", "value", "quote", "comment"}
  /\ st = "comment" => sv = "value"
  /\ st # "name" => n \in Seq(NameChar)

Within(u, s) ==
  \E st, sv, w, n, p : /\ Scanner(s, st, sv, w, n, p)
                       /\ InValue(u, st, sv, w, n, p) \/ Beyond(u, st, sv, w, n, p)

LEMMA NameCharText == \A u \in Seq(NameChar) : u \in Text /\ \A i \in 1 .. Len(u) : u[i] \in NameChar
<1>1. NameChar \subseteq Token
  BY DEF Token
<1> QED BY <1>1, SeqMonotonic, ElementOfSeq DEF Text

LEMMA PrefixGrows ==
  ASSUME NEW u \in Text, NEW c \in Token, NEW v, IsPrefix(v, u)
  PROVE  IsPrefix(v, u \o <<c>>)
<1> DEFINE t == u \o <<c>>
<1>1. Len(v) <= Len(u) /\ SubSeq(v, 1, Len(v)) = SubSeq(u, 1, Len(v))
  BY DEF IsPrefix
<1>2. <<c>> \in Text /\ Len(<<c>>) = 1 /\ Len(u) \in Nat
  BY OneToken, OfText
<1>3. Joins(t, u, <<c>>)
  BY <1>2, Joining
<1> HIDE DEF t
<1>4. t \in Text /\ Len(t) = Len(u) + 1 /\ \A i \in 1 .. Len(u) : t[i] = u[i]
  BY <1>2, <1>3 DEF Joins
<1> QED BY <1>1, <1>2, <1>4 DEF IsPrefix, t

LEMMA WithinStep ==
  ASSUME NEW u \in Seq(NameChar), NEW c \in NameChar, u = <<>> \/ u[1] = "x",
         NEW s, Within(u, s)
  PROVE  Within(u \o <<c>>, ParseChar(s, c))
<1> DEFINE t == u \o <<c>>
           r == ParseChar(s, c)
<1>1. c \in Token /\ u \in Text /\ <<c>> \in Text /\ Len(<<c>>) = 1 /\ <<c>>[1] = c
      /\ Len(u) \in Nat
  BY NameCharText, OneToken, OfText DEF Token
<1>2. t = u \o <<c>> /\ r = ParseChar(s, c)
  OBVIOUS
<1>3. \A w \in Seq(NameChar) : Append(w, c) \in Seq(NameChar)
  BY AppendProperties
<1>4. Append(u, c) = t
  BY AppendIsConcat
<1> HIDE DEF t, r
<1>5. Joins(t, u, <<c>>)
  BY <1>1, <1>2, Joining
<1>6. /\ Len(t) = Len(u) + 1 /\ t[Len(u) + 1] = c
      /\ \A i \in 1 .. Len(u) : t[i] = u[i]
  BY <1>1, <1>5 DEF Joins
<1>7. Len(u) + 1 \in 1 .. Len(t) /\ \A i \in 1 .. Len(u) : i \in 1 .. Len(t)
  BY <1>1, <1>6
<1>8. \A k : (Has(u, k) => Has(t, k)) /\ Has(t, c)
  BY <1>6, <1>7 DEF Has
<1>9. c # "close" /\ Unclosed(u) => Unclosed(t)
  <2> SUFFICES ASSUME c # "close", Unclosed(u) PROVE Unclosed(t)
    OBVIOUS
  <2>1. PICK i \in 1 .. Len(u) : u[i] = "open" /\ \A j \in i .. Len(u) : u[j] # "close"
    BY DEF Unclosed
  <2>2. \A j \in i .. Len(t) : j = Len(u) + 1 \/ (j \in i .. Len(u) /\ j \in 1 .. Len(u))
    BY <1>1, <1>6
  <2>3. \A j \in i .. Len(t) : t[j] # "close"
    BY <1>6, <2>1, <2>2
  <2> QED BY <1>6, <1>7, <2>1, <2>3 DEF Unclosed
<1>10. c = "open" => Unclosed(t)
  <2>1. \A j \in Len(u) + 1 .. Len(t) : j = Len(u) + 1
    BY <1>1, <1>6
  <2> QED BY <1>6, <1>7, <2>1 DEF Unclosed
<1>11. \A q : Named(u, q) => Named(t, q)
  BY <1>1, <1>2, PrefixGrows DEF Named
<1>12. PICK st, sv, w, n, p :
         /\ Scanner(s, st, sv, w, n, p)
         /\ InValue(u, st, sv, w, n, p) \/ Beyond(u, st, sv, w, n, p)
  BY DEF Within
<1>13. Goes(r, st, sv, w, n, p, c)
  BY <1>2, <1>12, ParseCharIs
<1>14. CASE InValue(u, st, sv, w, n, p)
  <2>1. /\ w = u /\ n = <<"filename">> /\ p = {} /\ st \in {"value", "quote", "comment"}
        /\ st = "comment" => sv = "value" /\ Unclosed(u)
        /\ st = "quote" => Has(u, "quote")
    BY <1>14 DEF InValue
  <2>2. CASE st = "value" /\ c = "semi"
    <3> DEFINE v == Strip(u)
    <3>1. Scanner(r, "name", sv, <<>>, n, p \cup {<<n, v>>})
      BY <1>13, <2>1, <2>2 DEF Goes
    <3>2. IsPrefix(v, u)
      BY <1>1, StripPrefix
    <3>3. Named(u, <<n, v>>)
      BY <2>1, <3>2 DEF Named
    <3> HIDE DEF v
    <3>4. \A q \in p \cup {<<n, v>>} : Named(t, q)
      BY <1>11, <2>1, <3>3
    <3>5. <<>> \in Seq(NameChar) /\ Has(t, "semi")
      BY <1>8, <2>2, EmptySeq
    <3>6. Beyond(t, "name", sv, <<>>, n, p \cup {<<n, v>>})
      BY <3>4, <3>5 DEF Beyond
    <3> QED BY <3>1, <3>6 DEF Within, t, r
  <2>3. CASE st = "value" /\ c = "open"
    <3>1. Scanner(r, "comment", "value", Append(w, c), n, p)
      BY <1>13, <2>3 DEF Goes
    <3>2. InValue(t, "comment", "value", Append(w, c), n, p)
      BY <1>4, <1>10, <2>1, <2>3 DEF InValue
    <3> QED BY <3>1, <3>2 DEF Within, t, r
  <2>4. CASE st = "value" /\ c = "quote"
    <3>1. Scanner(r, "quote", sv, Append(w, c), n, p)
      BY <1>13, <2>4 DEF Goes
    <3>2. InValue(t, "quote", sv, Append(w, c), n, p)
      BY <1>4, <1>8, <2>1, <2>4 DEF InValue
    <3> QED BY <3>1, <3>2 DEF Within, t, r
  <2>5. CASE \/ st = "value" /\ c \notin {"semi", "open", "quote"}
             \/ st = "comment" /\ c = "close"
             \/ st = "quote" /\ c = "quote"
    <3>1. Scanner(r, "value", sv, Append(w, c), n, p)
      BY <1>13, <2>1, <2>5 DEF Goes
    <3>2. InValue(t, "value", sv, Append(w, c), n, p)
      BY <1>4, <2>1 DEF InValue
    <3> QED BY <3>1, <3>2 DEF Within, t, r
  <2>6. CASE st = "comment" /\ c # "close"
    <3>1. Scanner(r, "comment", sv, Append(w, c), n, p)
      BY <1>13, <2>6 DEF Goes
    <3>2. InValue(t, "comment", sv, Append(w, c), n, p)
      BY <1>4, <1>9, <2>1, <2>6 DEF InValue
    <3> QED BY <3>1, <3>2 DEF Within, t, r
  <2>7. CASE st = "quote" /\ c # "quote"
    <3>1. Scanner(r, "quote", sv, Append(w, c), n, p)
      BY <1>13, <2>7 DEF Goes
    <3>2. InValue(t, "quote", sv, Append(w, c), n, p)
      BY <1>4, <1>8, <2>1, <2>7 DEF InValue
    <3> QED BY <3>1, <3>2 DEF Within, t, r
  <2> QED BY <2>1, <2>2, <2>3, <2>4, <2>5, <2>6, <2>7
<1>15. CASE Beyond(u, st, sv, w, n, p)
  <2>1. /\ w \in Seq(NameChar) /\ \A q \in p : Named(t, q)
        /\ st \in {"name", "value", "quote", "comment"}
        /\ st = "comment" => sv = "value"
        /\ st # "name" => n \in Seq(NameChar)
        /\ Has(t, "semi") /\ <<>> \in Seq(NameChar)
    BY <1>8, <1>11, <1>15, EmptySeq DEF Beyond
  <2>2. Append(w, c) \in Seq(NameChar) /\ Strip(w) \in Seq(NameChar)
    BY <1>3, <2>1, StripType
  <2>3. CASE st = "name" /\ c = "eq"
    <3>1. Scanner(r, "value", sv, <<>>, Strip(w), p)
      BY <1>13, <2>3 DEF Goes
    <3>2. Beyond(t, "value", sv, <<>>, Strip(w), p)
      BY <2>1, <2>2 DEF Beyond
    <3> QED BY <3>1, <3>2 DEF Within, t, r
  <2>4. CASE st = "name" /\ c # "eq"
    <3>1. Scanner(r, "name", sv, Append(w, c), n, p)
      BY <1>13, <2>4 DEF Goes
    <3>2. Beyond(t, "name", sv, Append(w, c), n, p)
      BY <2>1, <2>2 DEF Beyond
    <3> QED BY <3>1, <3>2 DEF Within, t, r
  <2>5. CASE st = "value" /\ c = "semi"
    <3> DEFINE v == Strip(w)
    <3>1. Scanner(r, "name", sv, <<>>, n, p \cup {<<n, v>>})
      BY <1>13, <2>5 DEF Goes
    <3>2. Named(t, <<n, v>>)
      BY <2>1, <2>5 DEF Named
    <3> HIDE DEF v
    <3>3. Beyond(t, "name", sv, <<>>, n, p \cup {<<n, v>>})
      BY <2>1, <3>2 DEF Beyond
    <3> QED BY <3>1, <3>3 DEF Within, t, r
  <2>6. CASE st = "value" /\ c = "open"
    <3>1. Scanner(r, "comment", "value", Append(w, c), n, p)
      BY <1>13, <2>6 DEF Goes
    <3>2. Beyond(t, "comment", "value", Append(w, c), n, p)
      BY <2>1, <2>2, <2>6 DEF Beyond
    <3> QED BY <3>1, <3>2 DEF Within, t, r
  <2>7. CASE \/ st = "value" /\ c = "quote"
             \/ st = "quote" /\ c # "quote"
    <3>1. Scanner(r, "quote", sv, Append(w, c), n, p)
      BY <1>13, <2>7 DEF Goes
    <3>2. Beyond(t, "quote", sv, Append(w, c), n, p)
      BY <2>1, <2>2, <2>7 DEF Beyond
    <3> QED BY <3>1, <3>2 DEF Within, t, r
  <2>8. CASE \/ st = "value" /\ c \notin {"semi", "open", "quote"}
             \/ st = "comment" /\ c = "close"
             \/ st = "quote" /\ c = "quote"
    <3>1. Scanner(r, "value", sv, Append(w, c), n, p)
      BY <1>13, <2>1, <2>8 DEF Goes
    <3>2. Beyond(t, "value", sv, Append(w, c), n, p)
      BY <2>1, <2>2, <2>8 DEF Beyond
    <3> QED BY <3>1, <3>2 DEF Within, t, r
  <2>9. CASE st = "comment" /\ c # "close"
    <3>1. Scanner(r, "comment", sv, Append(w, c), n, p)
      BY <1>13, <2>9 DEF Goes
    <3>2. Beyond(t, "comment", sv, Append(w, c), n, p)
      BY <2>1, <2>2, <2>9 DEF Beyond
    <3> QED BY <3>1, <3>2 DEF Within, t, r
  <2> QED BY <2>1, <2>3, <2>4, <2>5, <2>6, <2>7, <2>8, <2>9
<1> QED BY <1>12, <1>14, <1>15

LEMMA WithinAll ==
  ASSUME NEW u \in Seq(NameChar), u = <<>> \/ u[1] = "x"
  PROVE  Within(u, Scan(<<"x", "colon", "x", "semi", "sp", "filename", "eq">> \o u))
<1> DEFINE h == <<"x", "colon", "x", "semi", "sp", "filename", "eq">>
           T == {v \in Seq(NameChar) : v = <<>> \/ v[1] = "x" => Within(v, Scan(h \o v))}
<1>1. h \in Text
  BY Literals
<1>2. Scanner(Scan(h), "value", "start", <<>>, <<"filename">>, {})
  BY ScanHead
<1> HIDE DEF h
<1>3. <<>> \in T
  <2>1. h \o <<>> = h /\ <<>> \in Seq(NameChar)
    BY <1>1, EmptyText, EmptySeq
  <2>2. InValue(<<>>, "value", "start", <<>>, <<"filename">>, {})
    BY DEF InValue
  <2>3. Within(<<>>, Scan(h))
    BY <1>2, <2>2 DEF Within
  <2> QED BY <2>1, <2>3
<1>4. ASSUME NEW v \in Seq(NameChar), NEW c \in NameChar, v \in T PROVE v \o <<c>> \in T
  <2>1. v \in Text /\ c \in Token /\ <<c>> \in Text /\ Len(v) \in Nat
        /\ Len(<<c>>) = 1 /\ <<c>> \in Seq(NameChar)
    BY NameCharText, OneToken, OfText DEF Token
  <2>2. v \o <<c>> \in Seq(NameChar)
    BY <2>1, ConcatProperties
  <2>3. ASSUME v \o <<c>> = <<>> \/ (v \o <<c>>)[1] = "x" PROVE v = <<>> \/ v[1] = "x"
    <3>1. Joins(v \o <<c>>, v, <<c>>)
      BY <2>1, Joining
    <3>2. Len(v \o <<c>>) = Len(v) + 1 /\ \A i \in 1 .. Len(v) : (v \o <<c>>)[i] = v[i]
      BY <2>1, <3>1 DEF Joins
    <3>3. v # <<>> => 1 \in 1 .. Len(v)
      BY <2>1, EmptySeq DEF Text
    <3>4. Len(<<>>) = 0
      OBVIOUS
    <3>5. v \o <<c>> # <<>>
      BY <2>1, <3>2, <3>4
    <3> QED BY <2>3, <3>2, <3>3, <3>5
  <2>4. ASSUME v = <<>> \/ v[1] = "x" PROVE Within(v \o <<c>>, Scan(h \o (v \o <<c>>)))
    <3>1. Within(v, Scan(h \o v))
      BY <1>4, <2>4
    <3>2. Within(v \o <<c>>, ParseChar(Scan(h \o v), c))
      BY <2>4, <3>1, WithinStep
    <3>3. h \o (v \o <<c>>) = (h \o v) \o <<c>> /\ h \o v \in Text
      BY <1>1, <2>1, Assoc, Joined
    <3>4. Scan((h \o v) \o <<c>>) = ParseChar(Scan(h \o v), c)
      BY <2>1, <3>3, ScanStep
    <3> QED BY <3>2, <3>3, <3>4
  <2> QED BY <2>2, <2>3, <2>4
<1> HIDE DEF T
<1>5. \A v \in Seq(NameChar) : v \in T
  BY <1>3, <1>4, SeqInduction
<1> QED BY <1>5 DEF T, h

LEMMA FileNameIs ==
  ASSUME NEW e \in Endings
  PROVE  /\ FileName(e) \in Seq(NameChar) /\ FileName(e) \in Text
         /\ Len(FileName(e)) = Len(e) + 2 /\ Len(e) \in Nat
         /\ FileName(e)[1] = "x" /\ FileName(e)[2] = "x"
         /\ \A i \in 1 .. Len(e) : FileName(e)[2 + i] = e[i]
         /\ \A i \in 1 .. Len(FileName(e)) : FileName(e)[i] \notin {CR, LF}
<1> DEFINE q == <<"x", "x">>
           f == FileName(e)
<1>1. e \in Seq(NameChar) /\ e \in Text
  BY MimeAssumption, NameCharText
<1>2. q \in Seq(NameChar) /\ q \in Text /\ Len(q) = 2 /\ q[1] = "x" /\ q[2] = "x"
  <2>1. "x" \in NameChar
    BY DEF NameChar
  <2>2. q \in Seq(NameChar)
    BY <2>1
  <2> QED BY <2>2, NameCharText
<1>3. f = q \o e
  BY DEF FileName
<1> HIDE DEF q, f
<1>4. f \in Seq(NameChar)
  BY <1>1, <1>2, <1>3, ConcatProperties
<1>5. Joins(f, q, e)
  BY <1>1, <1>2, <1>3, Joining
<1>6. /\ Len(e) \in Nat /\ Len(f) = 2 + Len(e) /\ f[1] = "x" /\ f[2] = "x"
      /\ \A i \in 1 .. Len(e) : f[2 + i] = e[i]
  BY <1>1, <1>2, <1>5, OfText DEF Joins
<1>7. f \in Text /\ \A i \in 1 .. Len(f) : f[i] \in NameChar
  BY <1>4, NameCharText
<1>8. CR \notin NameChar /\ LF \notin NameChar
  BY DEF NameChar, CR, LF
<1>9. Len(f) = Len(e) + 2
  BY <1>6
<1> QED BY <1>4, <1>6, <1>7, <1>8, <1>9 DEF f

(* The parameters of the header of a file.                                  *)
Plain(e) ==
  /\ Range(e) \cap {"quote", "semi"} = {} /\ Last(FileName(e)) # "sp"
  /\ \A i \in DOMAIN e : e[i] = "open" => \E j \in i .. Len(e) : e[j] = "close"

LEMMA PlainIs ==
  ASSUME NEW e \in Endings, Plain(e)
  PROVE  LET f == FileName(e) IN
         ~Has(f, "semi") /\ ~Has(f, "quote") /\ ~Unclosed(f) /\ Strip(f) = f
<1> DEFINE f == FileName(e)
<1>1. /\ f \in Text /\ Len(f) = Len(e) + 2 /\ Len(e) \in Nat /\ f[1] = "x" /\ f[2] = "x"
      /\ \A i \in 1 .. Len(e) : f[2 + i] = e[i]
  BY FileNameIs
<1>2. DOMAIN e = 1 .. Len(e)
  <2>1. e \in Seq(NameChar)
    BY MimeAssumption
  <2> QED BY <2>1, LenProperties
<1>3. /\ f[Len(f)] # "sp" /\ \A i \in 1 .. Len(e) : e[i] \notin {"quote", "semi"}
      /\ \A i \in 1 .. Len(e) : e[i] = "open" => \E j \in i .. Len(e) : e[j] = "close"
  BY <1>2 DEF Plain, Range, Last
<1> HIDE DEF f
<1>4. \A i \in 1 .. Len(f) : f[i] = "x" \/ (i - 2 \in 1 .. Len(e) /\ f[i] = e[i - 2])
  <2> SUFFICES ASSUME NEW i \in 1 .. Len(f)
               PROVE  f[i] = "x" \/ (i - 2 \in 1 .. Len(e) /\ f[i] = e[i - 2])
    OBVIOUS
  <2>1. CASE i <= 2
    <3>1. i = 1 \/ i = 2
      BY <1>1, <2>1
    <3> QED BY <1>1, <3>1
  <2>2. CASE i > 2
    <3>1. i - 2 \in 1 .. Len(e) /\ 2 + (i - 2) = i
      BY <1>1, <2>2
    <3>2. f[2 + (i - 2)] = e[i - 2]
      BY <1>1, <3>1
    <3> QED BY <3>1, <3>2
  <2> QED BY <2>1, <2>2
<1>5. \A i \in 1 .. Len(f) : f[i] \notin {"quote", "semi"}
  BY <1>3, <1>4
<1>6. ~Unclosed(f)
  <2> SUFFICES ASSUME Unclosed(f) PROVE FALSE
    OBVIOUS
  <2>1. PICK i \in 1 .. Len(f) : f[i] = "open" /\ \A j \in i .. Len(f) : f[j] # "close"
    BY DEF Unclosed
  <2>2. i - 2 \in 1 .. Len(e) /\ e[i - 2] = "open"
    BY <1>4, <2>1
  <2>3. PICK j \in i - 2 .. Len(e) : e[j] = "close"
    BY <1>3, <2>2
  <2>4. j \in 1 .. Len(e) /\ 2 + j \in i .. Len(f)
    BY <1>1, <2>2, <2>3
  <2>5. f[2 + j] = e[j]
    BY <1>1, <2>4
  <2> QED BY <2>1, <2>3, <2>4, <2>5
<1>7. Strip(f) = f
  <2>1. Len(f) \in 1 .. Len(f) /\ f # <<>>
    <3>1. Len(<<>>) = 0
      OBVIOUS
    <3> QED BY <1>1, <3>1
  <2>2. f[Len(f)] \notin {"sp", "quote"} /\ f[1] \notin {"sp", "quote"}
    BY <1>1, <1>3, <1>5, <2>1
  <2> QED BY <1>1, <2>1, <2>2, StripPrefix
<1> QED BY <1>5, <1>6, <1>7 DEF Has, f

LEMMA FileNamed ==
  ASSUME NEW e \in Endings
  PROVE  LET p == LineParams(NameLine("filename", FileName(e))) IN
         /\ \A q \in p : /\ q[1] # <<"bound">>
                         /\ q[1] = <<"filename">> => IsPrefix(q[2], FileName(e))
         /\ Plain(e) => p = {<<<<"filename">>, FileName(e)>>}
<1> DEFINE f == FileName(e)
           s == Scan(<<"x", "colon", "x", "semi", "sp", "filename", "eq">> \o f)
           l == LineParams(NameLine("filename", f))
<1>1. /\ f \in Seq(NameChar) /\ f \in Text /\ f[1] = "x"
      /\ \A i \in 1 .. Len(f) : f[i] \notin {CR, LF}
  BY FileNameIs
<1>2. l = s.params \cup (IF s.state = "value" THEN {<<s.name, Strip(s.word)>>} ELSE {})
  <2> HIDE DEF f
  <2> QED BY <1>1, LineParamsIs
<1>3. Within(f, s)
  <2> HIDE DEF f
  <2> QED BY <1>1, WithinAll
<1> HIDE DEF f, s, l
<1>4. PICK st, sv, w, n, p :
        /\ Scanner(s, st, sv, w, n, p)
        /\ InValue(f, st, sv, w, n, p) \/ Beyond(f, st, sv, w, n, p)
  BY <1>3 DEF Within
<1>5. l = p \cup (IF st = "value" THEN {<<n, Strip(w)>>} ELSE {})
  BY <1>2, <1>4 DEF Scanner
<1>6. IsPrefix(Strip(f), f)
  BY <1>1, StripPrefix
<1>7. \A q \in l : Named(f, q)
  <2>1. CASE InValue(f, st, sv, w, n, p)
    <3>1. w = f /\ n = <<"filename">> /\ p = {}
      BY <2>1 DEF InValue
    <3>2. Named(f, <<n, Strip(w)>>)
      BY <1>6, <3>1 DEF Named
    <3> QED BY <1>5, <3>1, <3>2
  <2>2. CASE Beyond(f, st, sv, w, n, p)
    <3>1. /\ \A q \in p : Named(f, q)
          /\ st # "name" => n \in Seq(NameChar)
      BY <2>2 DEF Beyond
    <3>2. st = "value" => Named(f, <<n, Strip(w)>>)
      BY <3>1 DEF Named
    <3> QED BY <1>5, <3>1, <3>2
  <2> QED BY <1>4, <2>1, <2>2
<1>8. <<"bound">> \notin Seq(NameChar) /\ <<"filename">> \notin Seq(NameChar)
      /\ <<"bound">> # <<"filename">>
  <2>1. "bound" \notin NameChar /\ "filename" \notin NameChar
    BY DEF NameChar
  <2>2. Len(<<"bound">>) = 1 /\ <<"bound">>[1] = "bound" /\ 1 \in 1 .. 1
        /\ Len(<<"filename">>) = 1 /\ <<"filename">>[1] = "filename"
    OBVIOUS
  <2> QED BY <2>1, <2>2, ElementOfSeq
<1>9. \A q \in l : q[1] # <<"bound">> /\ (q[1] = <<"filename">> => IsPrefix(q[2], f))
  BY <1>7, <1>8 DEF Named
<1>10. ASSUME Plain(e) PROVE l = {<<<<"filename">>, f>>}
  <2>1. ~Has(f, "semi") /\ ~Has(f, "quote") /\ ~Unclosed(f) /\ Strip(f) = f
    BY <1>10, PlainIs DEF f
  <2>2. InValue(f, st, sv, w, n, p)
    BY <1>4, <2>1 DEF Beyond
  <2>3. st = "value" /\ w = f /\ n = <<"filename">> /\ p = {}
    BY <2>1, <2>2 DEF InValue
  <2> QED BY <1>5, <2>1, <2>3
<1> QED BY <1>9, <1>10 DEF l, f
-----------------------------------------------------------------------------
(* What the invariant says of the document and of the text.                 *)
LEMMA LineIs ==
  ASSUME text \in Text, pos \in 1 .. Len(text)
  PROVE  /\ Line \in Text /\ Len(Line) = LineEnd - pos + 1 /\ Len(Line) >= 1 /\ ~AtEnd
         /\ \A k \in 1 .. Len(Line) : Line[k] = text[pos + k - 1]
<1>1. LineEnd \in pos .. Len(text) /\ Len(text) \in Nat /\ pos \in Nat \ {0}
  BY LineEndIs, OfText
<1> DEFINE e == LineEnd
<1>2. e \in Nat /\ e <= Len(text) /\ pos <= e
  BY <1>1
<1>3. Line = SubSeq(text, pos, e)
  BY DEF Line
<1>4. ~AtEnd
  BY <1>1 DEF AtEnd
<1> HIDE DEF e
<1>5. /\ SubSeq(text, pos, e) \in Text
      /\ Len(SubSeq(text, pos, e)) = IF pos <= e THEN e - pos + 1 ELSE 0
      /\ \A i \in 1 .. e - pos + 1 : SubSeq(text, pos, e)[i] = text[pos + i - 1]
  BY <1>1, <1>2, Piece
<1>6. Len(Line) = e - pos + 1
  BY <1>2, <1>3, <1>5
<1>7. Len(Line) >= 1
  BY <1>1, <1>2, <1>6
<1> QED BY <1>3, <1>4, <1>5, <1>6, <1>7 DEF e

LEMMA DocIs ==
  ASSUME Types, Parted
  PROVE  /\ doc \in Seq(Text) /\ origin \in Who
         /\ \A i \in 1 .. Len(doc) : Splits(doc[i])
<1>1. doc \in Documents \cup {<<>>} /\ origin \in Who
  BY DEF Types, Who
<1>2. doc \in Seq(Text) /\ DOMAIN doc = 1 .. Len(doc) /\ (doc = <<>> => Len(doc) = 0)
  <2>1. <<>> \in Seq(Text) /\ Len(<<>>) = 0
    BY EmptySeq
  <2> QED BY <1>1, <2>1, MimeAssumption, LenProperties
<1>3. ASSUME NEW i \in 1 .. Len(doc) PROVE Splits(doc[i])
  <2>1. doc[i] \in Text
    BY <1>2, ElementOfSeq
  <2>2. DOMAIN doc[i] = 1 .. Len(doc[i])
    BY <2>1, OfText
  <2>3. \A j \in DOMAIN doc[i] :
          /\ doc[i][j] # "boundary"
          /\ doc[i][j] = CR => j = Len(doc[i]) \/ doc[i][j + 1] \in {CR, LF}
    <3>1. doc \in Documents
      BY <1>1, <1>2
    <3> QED BY <1>2, <3>1, MimeAssumption
  <2> QED BY <2>1, <2>2, <2>3 DEF Splits
<1> QED BY <1>1, <1>2, <1>3

(* d is the document as the parser meets it.                                *)
Reads(d) ==
  /\ d \in Seq(Text) /\ Len(d) = Len(doc) /\ text = Composed(d) /\ Laid(text, d)
  /\ \A i \in 1 .. Len(d) : Splits(d[i]) /\ Canon(d[i]) = Canon(doc[i])

LEMMA ReadsIs ==
  ASSUME Types, Parted, NEW d \in {doc, Canons(doc)}, text = Composed(d)
  PROVE  Reads(d)
<1>1. doc \in Seq(Text) /\ origin \in Who /\ \A i \in 1 .. Len(doc) : Splits(doc[i])
  BY DocIs
<1>2. /\ d \in Seq(Text) /\ Len(d) = Len(doc) /\ (d # <<>> \/ origin # "BitMail")
      /\ \A i \in 1 .. Len(doc) : d[i] = doc[i] \/ d[i] = Canon(doc[i])
  BY <1>1, CanonsIs DEF Parted
<1>3. Laid(text, d)
  BY <1>1, <1>2, LaidOut
<1>4. ASSUME NEW i \in 1 .. Len(d) PROVE Splits(d[i]) /\ Canon(d[i]) = Canon(doc[i])
  <2>1. Splits(doc[i]) /\ doc[i] \in Text
    BY <1>1, <1>2 DEF Splits
  <2>2. Clean(Canon(doc[i])) /\ Canon(doc[i]) \in Text
    BY <2>1, CanonClean, CanonType DEF Splits
  <2>3. Splits(Canon(doc[i]))
    BY <2>2 DEF Clean, Splits
  <2>4. Canon(Canon(doc[i])) = Canon(doc[i])
    BY <2>1, CanonTwice
  <2> QED BY <1>2, <2>1, <2>3, <2>4
<1> QED BY <1>2, <1>3, <1>4 DEF Reads

GoodLine(l) ==
  /\ l \in Text /\ l[1] = "x" /\ l[Len(l)] = LF
  /\ \A i \in 1 .. Len(l) - 1 : l[i] # LF

LEMMA TheLineIs ==
  ASSUME Types
  PROVE  /\ TheLine \in Text /\ Len(TheLine) \in Nat /\ Len(TheLine) >= 10
         /\ Len(TheLine) <= MaxLine
         /\ TheLine[1] = "x" /\ TheLine[Len(TheLine)] = LF
         /\ \A i \in 1 .. Len(TheLine) - 1 : TheLine[i] # LF
         /\ Parted => TheLine = NameLine("bound", <<"boundary">>) /\ Len(TheLine) = 10
<1>1. ASSUME NEW n \in {"bound", "filename"}, NEW v \in Text,
             \A i \in 1 .. Len(v) : v[i] \notin {CR, LF}
      PROVE  GoodLine(NameLine(n, v)) /\ Len(NameLine(n, v)) = Len(v) + 9 /\ Len(v) \in Nat
  <2> DEFINE l == NameLine(n, v)
  <2>1. /\ l \in Text /\ Len(l) = Len(v) + 9
        /\ \A i \in 1 .. 7 : /\ l[i] = <<"x", "colon", "x", "semi", "sp", n, "eq">>[i]
                             /\ l[i] \notin {CR, LF}
        /\ \A i \in 1 .. Len(v) : l[7 + i] = v[i]
        /\ l[Len(v) + 8] = CR /\ l[Len(v) + 9] = LF
    <3> HIDE DEF l
    <3> QED BY NameLineIs DEF l
  <2>2. Len(v) \in Nat /\ 1 \in 1 .. 7 /\ <<"x", "colon", "x", "semi", "sp", n, "eq">>[1] = "x"
    BY OfText
  <2>3. l[1] = "x"
    BY <2>1, <2>2
  <2> HIDE DEF l
  <2>4. ASSUME NEW i \in 1 .. Len(l) - 1 PROVE l[i] # LF
    <3>1. CASE i \in 1 .. 7
      BY <2>1, <3>1
    <3>2. CASE i \in 8 .. Len(v) + 7
      <4>1. i - 7 \in 1 .. Len(v) /\ 7 + (i - 7) = i
        BY <2>2, <3>2
      <4>2. l[7 + (i - 7)] = v[i - 7]
        BY <2>1, <4>1
      <4> QED BY <1>1, <4>1, <4>2
    <3>3. CASE i = Len(v) + 8
      BY <2>1, <3>3, Breaks
    <3>4. i \in 1 .. 7 \/ i \in 8 .. Len(v) + 7 \/ i = Len(v) + 8
      BY <2>1, <2>2
    <3> QED BY <3>1, <3>2, <3>3, <3>4
  <2> QED BY <2>1, <2>2, <2>3, <2>4 DEF l, GoodLine
<1>2. CASE Parted
  <2> DEFINE v == <<"boundary">>
  <2>1. v \in Text /\ Len(v) = 1 /\ \A i \in 1 .. Len(v) : v[i] \notin {CR, LF}
    BY Literals, Words
  <2>2. TheLine = NameLine("bound", v)
    BY <1>2 DEF TheLine
  <2> HIDE DEF v
  <2>5. GoodLine(NameLine("bound", v)) /\ Len(NameLine("bound", v)) = Len(v) + 9
    BY <1>1, <2>1
  <2>3. Len(TheLine) = 10 /\ GoodLine(TheLine)
    BY <2>1, <2>2, <2>5
  <2>4. MaxLine \in Nat /\ MaxLine >= 10
    BY MimeAssumption
  <2>6. TheLine = NameLine("bound", <<"boundary">>)
    BY <2>2 DEF v
  <2> QED BY <2>3, <2>4, <2>6 DEF GoodLine
<1>3. CASE ~Parted
  <2>1. suffix \in Endings
    BY <1>3, MimeAssumption DEF Types, Parted
  <2> DEFINE v == FileName(suffix)
  <2>2. /\ v \in Text /\ Len(v) = Len(suffix) + 2 /\ Len(suffix) \in Nat
        /\ \A i \in 1 .. Len(v) : v[i] \notin {CR, LF}
    BY <2>1, FileNameIs
  <2>3. TheLine = NameLine("filename", v)
    BY <1>3 DEF TheLine
  <2> HIDE DEF v
  <2>4. Len(suffix) + 11 <= MaxLine /\ MaxLine \in Nat
    BY <2>1, MimeAssumption
  <2>5. Len(TheLine) = Len(v) + 9 /\ GoodLine(TheLine)
    BY <1>1, <2>2, <2>3
  <2>6. Len(TheLine) \in Nat /\ Len(TheLine) >= 10 /\ Len(TheLine) <= MaxLine
    BY <2>2, <2>4, <2>5
  <2> QED BY <1>3, <2>5, <2>6 DEF GoodLine
<1> QED BY <1>2, <1>3

(* The text begins with the header line, sent or opened.                    *)
LEMMA TextIs ==
  ASSUME Types
  PROVE  /\ Composed(doc) \in Text /\ Canon(Composed(doc)) \in Text
         /\ Headed(Composed(doc), TheLine) /\ Headed(Canon(Composed(doc)), TheLine)
         /\ Parted => Canon(Composed(doc)) = Composed(Canons(doc))
<1>1. CASE Parted
  <2>1. doc \in Seq(Text) /\ origin \in Who
    BY <1>1, DocIs
  <2>2. /\ doc # <<>> \/ origin # "BitMail"
        /\ Canons(doc) \in Seq(Text)
        /\ Canons(doc) # <<>> \/ origin # "BitMail"
    BY <1>1, <2>1, CanonsIs DEF Parted
  <2>3. Laid(Composed(doc), doc) /\ Laid(Composed(Canons(doc)), Canons(doc))
    BY <2>1, <2>2, LaidOut
  <2>4. Canon(Composed(doc)) = Composed(Canons(doc))
    BY <2>1, <2>2, CanonComposed
  <2>5. TheLine = NameLine("bound", <<"boundary">>)
    BY <1>1 DEF TheLine
  <2> QED BY <2>3, <2>4, <2>5 DEF Laid, Headed
<1>2. CASE ~Parted
  <2>1. suffix \in Endings /\ origin = "BitMail" /\ doc = <<>>
    BY <1>2, MimeAssumption DEF Types, Parted
  <2> DEFINE v == FileName(suffix)
             h == HeaderLine("filename", v)
             z == <<"x", LF>>
  <2>2. v \in Text /\ \A i \in 1 .. Len(v) : v[i] \notin {CR, LF}
    BY <2>1, FileNameIs
  <2>3. TheLine = NameLine("filename", v) /\ Composed(doc) = h \o z
    BY <1>2, <2>1 DEF TheLine, Composed, FileText
  <2>4. z \in Text /\ Canon(z) \in Text
    BY Literals, CanonType
  <2> HIDE DEF v, z
  <2>5. /\ h \in Text
        /\ Headed(h \o z, NameLine("filename", v))
        /\ Headed(h \o Canon(z), NameLine("filename", v))
    BY <2>2, <2>4, HeadedIs
  <2>6. Canon(h) = h
    BY <2>2, CanonNameLine
  <2>7. Canon(h \o z) = h \o Canon(z)
    <3>1. h \in Text /\ z \in Text
      BY <2>4, <2>5
    <3> HIDE DEF h
    <3>2. Canon(h \o z) = Canon(h) \o Canon(z)
      BY <3>1, CanonConcat
    <3> QED BY <2>6, <3>2
  <2> QED BY <1>2, <2>3, <2>5, <2>7 DEF Headed
<1> QED BY <1>1, <1>2

(* The lines of the header.                                                 *)
LEMMA HeaderFirst ==
  ASSUME Types, Headed(text, TheLine), pos = 1
  PROVE  ~AtEnd /\ LineEnd = Len(TheLine) /\ Line = TheLine /\ Kept(Line) # <<>>
<1> DEFINE l == TheLine
<1>1. /\ l \in Text /\ Len(l) \in Nat /\ Len(l) >= 10 /\ Len(l) <= MaxLine
      /\ l[1] = "x" /\ l[Len(l)] = LF /\ \A i \in 1 .. Len(l) - 1 : l[i] # LF
  BY TheLineIs
<1>2. text \in Text /\ Len(l) + 2 <= Len(text) /\ \A k \in 1 .. Len(l) : text[k] = l[k]
  BY DEF Headed
<1>3. Len(text) \in Nat /\ MaxLine \in Nat
  BY <1>2, OfText, MimeAssumption
<1> HIDE DEF l
<1>4. pos \in 1 .. Len(text) /\ Len(l) \in pos .. Len(text) /\ text[Len(l)] = LF
      /\ Len(l) <= pos + MaxLine - 1 /\ \A i \in pos .. Len(l) - 1 : text[i] # LF
  BY <1>1, <1>2, <1>3
<1>5. LineEnd = Len(l)
  BY <1>2, <1>4, LineEndIs
<1>6. /\ Line \in Text /\ Len(Line) = LineEnd - pos + 1 /\ ~AtEnd
      /\ \A k \in 1 .. Len(Line) : Line[k] = text[pos + k - 1]
  BY <1>2, <1>4, LineIs
<1>7. Len(Line) = Len(l) /\ \A k \in 1 .. Len(l) : Line[k] = l[k]
  <2>1. Len(Line) = Len(l)
    BY <1>1, <1>5, <1>6
  <2>2. \A k \in 1 .. Len(l) : pos + k - 1 = k
    BY <1>1
  <2> QED BY <1>2, <1>6, <2>1, <2>2
<1>8. Line = l
  BY <1>1, <1>6, <1>7, Same
<1>9. Kept(l) # <<>>
  <2>1. /\ Len(Kept(l)) \in 0 .. Len(l)
        /\ \A j \in Len(Kept(l)) + 1 .. Len(l) : l[j] \in {CR, LF}
    BY <1>1, KeptIs
  <2>2. Len(Kept(l)) # 0
    BY <1>1, <2>1, Words
  <2>3. Len(<<>>) = 0
    OBVIOUS
  <2> QED BY <2>2, <2>3
<1> QED BY <1>5, <1>6, <1>8, <1>9 DEF l

LEMMA HeaderSecond ==
  ASSUME Types, Headed(text, TheLine), pos = Len(TheLine) + 1
  PROVE  LineEnd = Len(TheLine) + 2 /\ Kept(Line) = <<>>
<1> DEFINE n == Len(TheLine)
<1>1. n \in Nat /\ n >= 10
  BY TheLineIs
<1>2. text \in Text /\ n + 2 <= Len(text) /\ text[n + 1] = CR /\ text[n + 2] = LF
  BY DEF Headed
<1>3. Len(text) \in Nat /\ MaxLine \in Nat /\ MaxLine >= 10 /\ pos = n + 1
  BY <1>2, OfText, MimeAssumption
<1> HIDE DEF n
<1>4. pos \in 1 .. Len(text) /\ n + 2 \in pos .. Len(text) /\ n + 2 <= pos + MaxLine - 1
      /\ \A i \in pos .. (n + 2) - 1 : text[i] # LF
  <2>1. \A i \in pos .. (n + 2) - 1 : i = n + 1
    BY <1>1, <1>3
  <2> QED BY <1>1, <1>2, <1>3, <2>1, Breaks
<1>5. LineEnd = n + 2
  BY <1>2, <1>4, LineEndIs
<1>6. /\ Line \in Text /\ Len(Line) = LineEnd - pos + 1
      /\ \A k \in 1 .. Len(Line) : Line[k] = text[pos + k - 1]
  BY <1>2, <1>4, LineIs
<1>7. Len(Line) = 2 /\ \A k \in 1 .. 2 : Line[k] \in {CR, LF}
  <2>1. Len(Line) = 2
    BY <1>1, <1>3, <1>5, <1>6
  <2>2. \A k \in 1 .. 2 : pos + k - 1 = n + 1 \/ pos + k - 1 = n + 2
    BY <1>1, <1>3
  <2> QED BY <1>2, <1>6, <2>1, <2>2
<1>8. Kept(Line) = <<>>
  <2>1. /\ Len(Kept(Line)) \in 0 .. Len(Line) /\ Kept(Line) \in Text
        /\ Len(Kept(Line)) # 0 => Line[Len(Kept(Line))] \notin {CR, LF}
    BY <1>6, KeptIs
  <2> DEFINE m == Len(Kept(Line))
  <2>3. m \in 0 .. 2 /\ (m # 0 => Line[m] \notin {CR, LF})
    BY <1>7, <2>1
  <2> HIDE DEF m
  <2>4. m = 0
    BY <1>7, <2>3
  <2>2. Len(Kept(Line)) = 0
    BY <2>4 DEF m
  <2> QED BY <2>1, <2>2, EmptySeq DEF Text
<1> QED BY <1>5, <1>8 DEF n
-----------------------------------------------------------------------------
(* The lines of the body.                                                   *)
LEMMA LineTo ==
  ASSUME text \in Text, pos \in Nat \ {0}, NEW e \in Nat, pos <= e, e <= Len(text),
         text[e] = LF, e <= pos + MaxLine - 1, \A i \in pos .. e - 1 : text[i] # LF
  PROVE  /\ ~AtEnd /\ LineEnd = e /\ Line \in Text /\ Len(Line) = e - pos + 1
         /\ \A k \in 1 .. Len(Line) : Line[k] = text[pos + k - 1]
<1>1. Len(text) \in Nat /\ MaxLine \in Nat
  BY OfText, MimeAssumption
<1>2. pos \in 1 .. Len(text) /\ e \in pos .. Len(text)
  BY <1>1
<1>3. LineEnd = e
  BY <1>2, LineEndIs
<1> QED BY <1>2, <1>3, LineIs

LEMMA BoundCheckIs ==
  ASSUME Parted, params = LineParams(TheLine), NEW l \in Text
  PROVE  /\ Len(l) >= 3 /\ l[1] = "--" /\ l[2] = "boundary" =>
              BoundCheck(l) = IF l[3] = "--" THEN 2 ELSE 1
         /\ ~(Len(l) >= 2 /\ l[1] = "--" /\ l[2] = "boundary") => BoundCheck(l) = 0
<1>1. params = {<<<<"bound">>, <<"boundary">>>>}
  BY BoundFound DEF TheLine
<1>2. Values("bound") = {<<"boundary">>}
  <2> DEFINE only == <<<<"bound">>, <<"boundary">>>>
  <2>1. only[1] = <<"bound">> /\ only[2] = <<"boundary">>
    OBVIOUS
  <2>2. params = {only}
    BY <1>1
  <2> HIDE DEF only
  <2>3. {q \in params : q[1] = <<"bound">>} = {only}
    BY <2>1, <2>2
  <2>4. {p[2] : p \in {only}} = {<<"boundary">>}
    BY <2>1
  <2> QED BY <2>3, <2>4 DEF Values
<1>3. <<l[2]>> \in Values("bound") <=> l[2] = "boundary"
  <2>1. <<l[2]>> = <<"boundary">> <=> l[2] = "boundary"
    OBVIOUS
  <2> QED BY <1>2, <2>1
<1>4. Len(l) \in Nat
  BY OfText
<1> QED BY <1>3, <1>4 DEF BoundCheck

LEMMA BoundaryLine ==
  ASSUME Types, Parted, params = LineParams(TheLine), NEW d, Reads(d),
         NEW i \in 1 .. Len(doc), pos = At(d, i) + 1
  PROVE  ~AtEnd /\ LineEnd = At(d, i) + 4 /\ BoundCheck(Line) = 1
<1> DEFINE a == At(d, i)
<1>1. Framing(text, d, i) /\ text \in Text
  BY DEF Reads, Laid, Headed
<1>2. /\ At(d, i + 1) = a + Len(d[i]) + 6 /\ d[i] \in Text /\ a \in Nat
      /\ At(d, i + 1) <= Len(text)
      /\ text[a + 1] = "--" /\ text[a + 2] = "boundary"
      /\ text[a + 3] = CR /\ text[a + 4] = LF
  BY <1>1 DEF Framing
<1>3. Len(d[i]) \in Nat /\ Len(text) \in Nat /\ MaxLine \in Nat /\ MaxLine >= 10 /\ pos = a + 1
  BY <1>1, <1>2, OfText, MimeAssumption
<1> DEFINE m == Len(d[i])
           b == At(d, i + 1)
<1>10. b = a + m + 6 /\ b <= Len(text) /\ m \in Nat
  BY <1>2, <1>3
<1> HIDE DEF a, m, b
<1>4. a + m + 6 <= Len(text) /\ m \in Nat
  BY <1>2, <1>3, <1>10
<1>5. a + 4 \in Nat /\ pos \in Nat \ {0} /\ pos <= a + 4 /\ a + 4 <= Len(text)
      /\ a + 4 <= pos + MaxLine - 1 /\ (a + 4) - pos + 1 = 4
  <2> DEFINE n == Len(text)
  <2>1. a \in Nat /\ n \in Nat /\ MaxLine \in Nat /\ MaxLine >= 10 /\ pos = a + 1
    BY <1>2, <1>3
  <2>2. a + m + 6 <= n /\ m \in Nat
    BY <1>4
  <2> HIDE DEF n
  <2>3. a + 4 \in Nat /\ pos \in Nat \ {0} /\ pos <= a + 4 /\ a + 4 <= n
    BY <2>1, <2>2
  <2>4. a + 4 <= pos + MaxLine - 1 /\ (a + 4) - pos + 1 = 4
    BY <2>1
  <2> QED BY <2>3, <2>4 DEF n
<1>6. \A j \in pos .. (a + 4) - 1 : text[j] # LF
  <2>1. \A j \in pos .. (a + 4) - 1 : j = a + 1 \/ j = a + 2 \/ j = a + 3
    BY <1>2, <1>3
  <2> QED BY <1>2, <2>1, Words
<1>7. /\ ~AtEnd /\ LineEnd = a + 4 /\ Line \in Text /\ Len(Line) = 4
      /\ \A k \in 1 .. Len(Line) : Line[k] = text[pos + k - 1]
  BY <1>1, <1>2, <1>5, <1>6, LineTo
<1>8. Line[1] = text[pos + 1 - 1] /\ Line[2] = text[pos + 2 - 1] /\ Line[3] = text[pos + 3 - 1]
  BY <1>7
<1>9. pos + 1 - 1 = a + 1 /\ pos + 2 - 1 = a + 2 /\ pos + 3 - 1 = a + 3
  BY <1>2, <1>3
<1>11. Len(Line) >= 3 /\ Line[1] = "--" /\ Line[2] = "boundary" /\ Line[3] # "--"
  BY <1>2, <1>7, <1>8, <1>9, Words
<1> QED BY <1>7, <1>11, BoundCheckIs DEF a

(* A boundary with a line end, and one that closes.                         *)
LEMMA OpeningLine ==
  ASSUME Parted, params = LineParams(TheLine), text \in Text,
         NEW a \in Nat, Opening(text, a), a + 4 <= Len(text), pos = a + 1
  PROVE  ~AtEnd /\ LineEnd = a + 4 /\ BoundCheck(Line) = 1
<1> DEFINE n == Len(text)
<1>1. /\ n \in Nat /\ a + 4 <= n /\ MaxLine \in Nat /\ MaxLine >= 10
      /\ text[a + 1] = "--" /\ text[a + 2] = "boundary"
      /\ text[a + 3] = CR /\ text[a + 4] = LF
  BY OfText, MimeAssumption DEF Opening
<1> HIDE DEF n
<1>2. a + 4 \in Nat /\ pos \in Nat \ {0} /\ pos <= a + 4 /\ a + 4 <= n
      /\ a + 4 <= pos + MaxLine - 1 /\ (a + 4) - pos + 1 = 4
  BY <1>1
<1>3. \A j \in pos .. (a + 4) - 1 : text[j] # LF
  <2>1. \A j \in pos .. (a + 4) - 1 : j = a + 1 \/ j = a + 2 \/ j = a + 3
    OBVIOUS
  <2> QED BY <1>1, <2>1, Words
<1>4. /\ ~AtEnd /\ LineEnd = a + 4 /\ Line \in Text /\ Len(Line) = 4
      /\ \A k \in 1 .. Len(Line) : Line[k] = text[pos + k - 1]
  BY <1>1, <1>2, <1>3, LineTo DEF n
<1>5. Line[1] = text[pos + 1 - 1] /\ Line[2] = text[pos + 2 - 1]
      /\ Line[3] = text[pos + 3 - 1]
  BY <1>4
<1>6. pos + 1 - 1 = a + 1 /\ pos + 2 - 1 = a + 2 /\ pos + 3 - 1 = a + 3
  OBVIOUS
<1>7. Len(Line) >= 3 /\ Line[1] = "--" /\ Line[2] = "boundary" /\ Line[3] # "--"
  BY <1>1, <1>4, <1>5, <1>6, Words
<1> QED BY <1>4, <1>7, BoundCheckIs

LEMMA FinalLine ==
  ASSUME Parted, params = LineParams(TheLine), text \in Text,
         NEW a \in Nat, Final(text, a), pos = a + 1
  PROVE  ~AtEnd /\ BoundCheck(Line) = 2
<1> DEFINE n == Len(text)
<1>1. /\ n \in Nat /\ n >= a + 5 /\ MaxLine \in Nat /\ MaxLine >= 10
      /\ text[a + 1] = "--" /\ text[a + 2] = "boundary" /\ text[a + 3] = "--"
      /\ text[a + 4] = CR /\ text[a + 5] = LF
  BY OfText, MimeAssumption DEF Final
<1> HIDE DEF n
<1>2. a + 5 \in Nat /\ pos \in Nat \ {0} /\ pos <= a + 5 /\ a + 5 <= n
      /\ a + 5 <= pos + MaxLine - 1 /\ (a + 5) - pos + 1 = 5
  BY <1>1
<1>3. \A j \in pos .. (a + 5) - 1 : text[j] # LF
  <2>1. \A j \in pos .. (a + 5) - 1 : j = a + 1 \/ j = a + 2 \/ j = a + 3 \/ j = a + 4
    OBVIOUS
  <2> QED BY <1>1, <2>1, Words
<1>4. /\ ~AtEnd /\ Line \in Text /\ Len(Line) = 5
      /\ \A k \in 1 .. Len(Line) : Line[k] = text[pos + k - 1]
  BY <1>1, <1>2, <1>3, LineTo DEF n
<1>5. Line[1] = text[pos + 1 - 1] /\ Line[2] = text[pos + 2 - 1]
      /\ Line[3] = text[pos + 3 - 1]
  BY <1>4
<1>6. pos + 1 - 1 = a + 1 /\ pos + 2 - 1 = a + 2 /\ pos + 3 - 1 = a + 3
  OBVIOUS
<1>7. Len(Line) >= 3 /\ Line[1] = "--" /\ Line[2] = "boundary" /\ Line[3] = "--"
  BY <1>1, <1>4, <1>5, <1>6
<1> QED BY <1>4, <1>7, BoundCheckIs

LEMMA ClosingLine ==
  ASSUME Types, Parted, params = LineParams(TheLine), NEW d, Reads(d),
         NEW a, a = At(d, Len(doc) + 1), pos = a + 1
  PROVE  /\ ~AtEnd /\ a \in Nat
         /\ origin \in {"BitMail", "other"} => BoundCheck(Line) = 2
         /\ origin = "cut" => BoundCheck(Line) = 1 /\ LineEnd = Len(text)
         /\ origin = "bare" => BoundCheck(Line) = 1 /\ LineEnd = a + 4
<1>1. a \in Nat /\ Closed(text, a) /\ text \in Text /\ Len(text) \in Nat
  BY OfText DEF Reads, Laid, Headed
<1>2. CASE origin \in {"BitMail", "other"}
  <2>1. Final(text, a)
    BY <1>1, <1>2 DEF Closed
  <2> QED BY <1>1, <1>2, <2>1, FinalLine
<1>3. CASE origin = "cut"
  <2>1. Opening(text, a) /\ Len(text) = a + 4
    BY <1>1, <1>3 DEF Closed
  <2>2. a + 4 <= Len(text)
    BY <1>1, <2>1
  <2> QED BY <1>1, <1>3, <2>1, <2>2, OpeningLine
<1>4. CASE origin = "bare"
  <2>1. Opening(text, a) /\ Final(text, a + 4)
    BY <1>1, <1>4 DEF Closed
  <2>2. a + 4 <= Len(text)
    <3>1. Len(text) >= (a + 4) + 5
      BY <2>1 DEF Final
    <3> QED BY <1>1, <3>1
  <2> QED BY <1>1, <1>4, <2>1, <2>2, OpeningLine
<1> QED BY <1>2, <1>3, <1>4 DEF Types

(* The last line of a mail whose last part has none.                        *)
LEMMA BareLine ==
  ASSUME Types, Parted, params = LineParams(TheLine), NEW d, Reads(d),
         origin = "bare", pos = At(d, Len(doc) + 1) + 5
  PROVE  ~AtEnd /\ BoundCheck(Line) = 2
<1> DEFINE a == At(d, Len(doc) + 1)
<1>1. a \in Nat /\ Closed(text, a) /\ text \in Text /\ pos = a + 5
  BY DEF Reads, Laid, Headed
<1> HIDE DEF a
<1>2. Final(text, a + 4) /\ a + 4 \in Nat /\ pos = (a + 4) + 1
  BY <1>1 DEF Closed
<1> QED BY <1>1, <1>2, FinalLine

LEMMA PreambleLine ==
  ASSUME Types, Parted, params = LineParams(TheLine), NEW d, Reads(d),
         origin # "BitMail", pos = 13
  PROVE  ~AtEnd /\ LineEnd = 15 /\ BoundCheck(Line) = 0
<1>1. /\ text \in Text /\ text[13] = "x" /\ text[14] = CR /\ text[15] = LF
      /\ Len(text) >= 15
  BY DEF Reads, Laid, Headed
<1>2. MaxLine \in Nat /\ MaxLine >= 10 /\ 15 <= pos + MaxLine - 1
      /\ 15 \in Nat /\ 15 - pos + 1 = 3 /\ pos <= 15 /\ pos \in Nat \ {0}
  BY MimeAssumption
<1>3. \A j \in pos .. 15 - 1 : text[j] # LF
  <2>1. \A j \in pos .. 15 - 1 : j = 13 \/ j = 14
    OBVIOUS
  <2> QED BY <1>1, <2>1, Words
<1>4. /\ ~AtEnd /\ LineEnd = 15 /\ Line \in Text /\ Len(Line) = 3
      /\ \A k \in 1 .. Len(Line) : Line[k] = text[pos + k - 1]
  BY <1>1, <1>2, <1>3, LineTo
<1>5. Line[1] = "x"
  <2>1. Line[1] = text[pos + 1 - 1] /\ pos + 1 - 1 = 13
    BY <1>4
  <2> QED BY <1>1, <2>1
<1> QED BY <1>4, <1>5, BoundCheckIs

(* What follows a boundary line up to the next one: the part and CRLF.      *)
LEMMA RegionIs ==
  ASSUME NEW d, Reads(d), NEW i \in 1 .. Len(doc)
  PROVE  LET a == At(d, i)
             b == At(d, i + 1) IN
         /\ text \in Text /\ a \in Nat /\ b \in Nat /\ b <= Len(text) /\ a + 6 <= b
         /\ text[b] = LF
         /\ \A j \in a + 5 .. b : text[j] # "boundary"
         /\ \A j \in a + 5 .. b - 1 : text[j] = CR => text[j + 1] \in {CR, LF}
         /\ SubSeq(text, a + 5, b) = d[i] \o CRLF /\ d[i] \in Text
<1> DEFINE a == At(d, i)
           b == At(d, i + 1)
           t == d[i]
           n == Len(t)
<1>1. text \in Text /\ Framing(text, d, i) /\ Splits(t)
  BY DEF Reads, Laid, Headed
<1>2. /\ b = a + n + 6 /\ t \in Text /\ a \in Nat /\ b <= Len(text) /\ n \in Nat
      /\ \A k \in 1 .. n : text[a + (4 + k)] = t[k]
      /\ text[a + (n + 5)] = CR /\ text[a + (n + 6)] = LF
  BY <1>1, OfText DEF Framing
<1>3. \A j \in 1 .. n : t[j] # "boundary" /\ (t[j] = CR => j = n \/ t[j + 1] \in {CR, LF})
  BY <1>1 DEF Splits
<1> HIDE DEF a, b, t, n
<1>4. b \in Nat /\ a + 6 <= b /\ a + (n + 6) = b /\ a + (n + 5) = b - 1
  BY <1>2
<1>5. ASSUME NEW j \in a + 5 .. b
      PROVE  j = b \/ j = b - 1 \/ (j - (a + 4) \in 1 .. n /\ text[j] = t[j - (a + 4)])
  <2>1. CASE j < b - 1
    <3>1. j - (a + 4) \in 1 .. n /\ a + (4 + (j - (a + 4))) = j
      BY <1>2, <1>4, <2>1
    <3>2. text[a + (4 + (j - (a + 4)))] = t[j - (a + 4)]
      BY <1>2, <3>1
    <3> QED BY <3>1, <3>2
  <2> QED BY <1>2, <1>4, <2>1
<1>6. \A j \in a + 5 .. b : text[j] # "boundary"
  BY <1>2, <1>3, <1>4, <1>5, Words
<1>7. ASSUME NEW j \in a + 5 .. b - 1, text[j] = CR PROVE text[j + 1] \in {CR, LF}
  <2>1. CASE j = b - 1
    <3>1. j + 1 = b
      BY <1>4, <2>1
    <3> QED BY <1>2, <1>4, <3>1
  <2>2. CASE j # b - 1
    <3>1. j \in a + 5 .. b /\ j # b /\ j + 1 \in a + 5 .. b /\ j + 1 # b
      BY <1>2, <1>4, <2>2
    <3>2. j - (a + 4) \in 1 .. n /\ text[j] = t[j - (a + 4)]
      BY <1>5, <2>2, <3>1
    <3>3. j - (a + 4) = n => j + 1 = b - 1
      BY <1>2, <1>4, <3>1
    <3>4. j + 1 = b - 1 => text[j + 1] = CR
      BY <1>2, <1>4
    <3>5. j + 1 # b - 1 => text[j + 1] = t[(j - (a + 4)) + 1]
      <4>1. ASSUME j + 1 # b - 1 PROVE text[j + 1] = t[(j - (a + 4)) + 1]
        <5>1. text[j + 1] = t[(j + 1) - (a + 4)]
          BY <1>5, <3>1, <4>1
        <5>2. (j + 1) - (a + 4) = (j - (a + 4)) + 1
          BY <1>2, <3>1
        <5> QED BY <5>1, <5>2
      <4> QED BY <4>1
    <3>6. j - (a + 4) = n \/ t[(j - (a + 4)) + 1] \in {CR, LF}
      BY <1>3, <1>7, <3>2
    <3> QED BY <3>3, <3>4, <3>5, <3>6
  <2> QED BY <2>1, <2>2
<1>8. SubSeq(text, a + 5, b) = t \o CRLF
  <2> DEFINE q == SubSeq(text, a + 5, b)
             r == t \o CRLF
  <2>1. a + 5 \in Nat \ {0} /\ b \in Nat /\ b <= Len(text) /\ a + 5 <= b
        /\ b - (a + 5) + 1 = n + 2
    BY <1>2, <1>4
  <2>2. /\ q \in Text /\ Len(q) = n + 2
        /\ \A k \in 1 .. n + 2 : q[k] = text[(a + 5) + k - 1]
    BY <1>1, <2>1, Piece
  <2>3. Joins(r, t, CRLF)
    BY <1>2, Breaks, Joining
  <2> HIDE DEF q, r
  <2>4. /\ r \in Text /\ Len(r) = n + 2 /\ \A k \in 1 .. n : r[k] = t[k]
        /\ r[n + 1] = CR /\ r[n + 2] = LF
    BY <2>3, Breaks DEF Joins, n
  <2>5. ASSUME NEW k \in 1 .. n + 2 PROVE q[k] = r[k]
    <3>1. CASE k <= n
      <4>1. k \in 1 .. n /\ (a + 5) + k - 1 = a + (4 + k)
        BY <1>2, <3>1
      <4> QED BY <1>2, <2>2, <2>4, <4>1
    <3>2. CASE k = n + 1
      <4>1. (a + 5) + k - 1 = a + (n + 5)
        BY <1>2, <3>2
      <4> QED BY <1>2, <2>2, <2>4, <3>2, <4>1
    <3>3. CASE k = n + 2
      <4>1. (a + 5) + k - 1 = a + (n + 6)
        BY <1>2, <3>3
      <4> QED BY <1>2, <2>2, <2>4, <3>3, <4>1
    <3>4. k <= n \/ k = n + 1 \/ k = n + 2
      BY <1>2
    <3> QED BY <3>1, <3>2, <3>3, <3>4
  <2>6. q = r
    BY <2>2, <2>4, <2>5, Same
  <2> QED BY <2>6 DEF q, r
<1>9. text[b] = LF
  BY <1>2, <1>4
<1> QED BY <1>1, <1>2, <1>4, <1>6, <1>7, <1>8, <1>9 DEF a, b, t

LEMMA PartLine ==
  ASSUME Types, Parted, params = LineParams(TheLine), NEW d, Reads(d),
         NEW i \in 1 .. Len(doc), At(d, i) + 5 <= pos, pos <= At(d, i + 1)
  PROVE  /\ ~AtEnd /\ LineEnd \in pos .. At(d, i + 1) /\ BoundCheck(Line) = 0
         /\ Line \in Text /\ Kept(Line) \in Text
         /\ Canon(Line) = Kept(Line) \o (IF HasEol(Line) THEN CRLF ELSE <<>>)
         /\ HasEol(Line) <=> text[LineEnd] = LF
<1> DEFINE a == At(d, i)
           b == At(d, i + 1)
           e == LineEnd
           l == Line
<1>1. /\ text \in Text /\ a \in Nat /\ b \in Nat /\ b <= Len(text) /\ a + 6 <= b
      /\ text[b] = LF
      /\ \A j \in a + 5 .. b : text[j] # "boundary"
      /\ \A j \in a + 5 .. b - 1 : text[j] = CR => text[j + 1] \in {CR, LF}
  BY RegionIs
<1>2. pos \in Nat \ {0} /\ Len(text) \in Nat /\ a + 5 <= pos /\ pos <= b
  BY <1>1, OfText DEF Types
<1>3. pos \in 1 .. Len(text)
  BY <1>1, <1>2
<1>4. e \in pos .. Len(text) /\ \A j \in pos .. e - 1 : text[j] # LF
  BY <1>1, <1>3, LineEndIs
<1>5. /\ l \in Text /\ Len(l) = e - pos + 1 /\ ~AtEnd
      /\ \A k \in 1 .. Len(l) : l[k] = text[pos + k - 1]
  BY <1>1, <1>3, LineIs
<1> HIDE DEF a, b, e, l
<1>6. e \in pos .. b
  BY <1>1, <1>2, <1>4
<1>7. \A k \in 1 .. Len(l) : pos + k - 1 \in pos .. e
  BY <1>2, <1>5, <1>6
<1>8. \A k \in 1 .. Len(l) : l[k] # "boundary"
  <2>1. \A j \in pos .. e : j \in a + 5 .. b
    BY <1>1, <1>2, <1>6
  <2> QED BY <1>1, <1>5, <1>7, <2>1
<1>9. BoundCheck(l) = 0
  <2>1. Len(l) \in Nat
    BY <1>5, OfText
  <2>2. Len(l) >= 2 => 2 \in 1 .. Len(l)
    BY <2>1
  <2> QED BY <1>5, <1>8, <2>2, BoundCheckIs
<1>10. \A k \in 1 .. Len(l) - 1 : l[k] # LF /\ (l[k] = CR => l[k + 1] \in {CR, LF})
  <2> SUFFICES ASSUME NEW k \in 1 .. Len(l) - 1
               PROVE  l[k] # LF /\ (l[k] = CR => l[k + 1] \in {CR, LF})
    OBVIOUS
  <2> DEFINE j == pos + k - 1
  <2>1. /\ k \in 1 .. Len(l) /\ k + 1 \in 1 .. Len(l) /\ pos + (k + 1) - 1 = j + 1
        /\ j \in pos .. e - 1 /\ j \in a + 5 .. b - 1
    BY <1>1, <1>2, <1>5, <1>6
  <2>2. l[k] = text[j] /\ l[k + 1] = text[j + 1]
    BY <1>5, <2>1
  <2> QED BY <1>1, <1>4, <2>1, <2>2
<1>11. l # <<>> /\ l[Len(l)] = text[e]
  <2>1. Len(l) \in 1 .. Len(l) /\ pos + Len(l) - 1 = e
    BY <1>2, <1>5, <1>6
  <2>2. Len(<<>>) = 0
    OBVIOUS
  <2> QED BY <1>5, <2>1, <2>2
<1>12. /\ Canon(l) = Kept(l) \o (IF HasEol(l) THEN CRLF ELSE <<>>)
       /\ HasEol(l) <=> l[Len(l)] = LF
  BY <1>5, <1>10, <1>11, KeptCanon
<1>13. Kept(l) \in Text
  BY <1>5, KeptIs
<1> QED BY <1>5, <1>6, <1>9, <1>11, <1>12, <1>13 DEF b, e, l
-----------------------------------------------------------------------------
(* Counting parts: multi_split's part is the number of the part, modulo.    *)
LEMMA Division ==
  ASSUME NEW M \in Nat \ {0}, NEW i \in Nat
  PROVE  i % M \in 0 .. M - 1 /\ i = M * (i \div M) + (i % M) /\ i \div M \in Nat
OBVIOUS

LEMMA Remainder ==
  ASSUME NEW M \in Nat \ {0}, NEW q \in Nat, NEW r \in 0 .. M - 1,
         NEW p \in Nat, NEW s \in 0 .. M - 1, M * q + r = M * p + s
  PROVE  r = s
OBVIOUS

LEMMA Counted ==
  ASSUME NEW i \in Nat \ {0}
  PROVE  /\ (((i - 1) % MaxParts) + 1) % MaxParts = i % MaxParts
         /\ i % MaxParts \in 0 .. MaxParts - 1
         /\ i % MaxParts = 0 => i >= 2
         /\ 0 % MaxParts = 0
<1> DEFINE M == MaxParts
           r == (i - 1) % M
           q == (i - 1) \div M
           s == i % M
           p == i \div M
<1>1. M \in Nat \ {0} /\ M >= 2 /\ i - 1 \in Nat
  BY MimeAssumption
<1>2. r \in 0 .. M - 1 /\ i - 1 = M * q + r /\ q \in Nat
  BY <1>1, Division
<1>3. s \in 0 .. M - 1 /\ i = M * p + s /\ p \in Nat
  BY <1>1, Division
<1>4. 1 % M = 1 /\ M % M = 0 /\ 0 % M = 0
  BY <1>1
<1>5. \A k \in 0 .. M - 1 : k % M = k
  BY <1>1
<1>6. s = 0 => i >= 2
  BY <1>1, <1>4
<1> HIDE DEF M, r, q, s, p
<1>7. CASE r + 1 < M
  <2>1. r + 1 \in 0 .. M - 1 /\ M * q + (r + 1) = M * p + s
    BY <1>1, <1>2, <1>3, <1>7
  <2>2. r + 1 = s
    BY <1>1, <1>2, <1>3, <2>1, Remainder
  <2>3. (r + 1) % M = s
    BY <1>5, <2>1, <2>2
  <2> QED BY <1>3, <1>4, <1>6, <2>3 DEF M, r, s
<1>8. CASE r + 1 = M
  <2>1. 0 \in 0 .. M - 1 /\ q + 1 \in Nat /\ M * (q + 1) + 0 = M * p + s
    BY <1>1, <1>2, <1>3, <1>8
  <2>2. 0 = s
    BY <1>1, <1>3, <2>1, Remainder
  <2>3. (r + 1) % M = s
    BY <1>4, <1>8, <2>2
  <2> QED BY <1>3, <1>4, <1>6, <2>3 DEF M, r, s
<1> QED BY <1>1, <1>2, <1>7, <1>8

(* The parts multi_split keeps, one part at a time.                         *)
LEMMA KeptStep ==
  ASSUME Types, Parted
  PROVE  /\ Kept1(0) = <<>> /\ Kept1(Len(doc)) = FlattenSeq(Keeps)
         /\ \A i \in 0 .. Len(doc) : Kept1(i) \in Seq(Text)
         /\ \A i \in 1 .. Len(doc) :
              Kept1(i) = IF i % MaxParts = 0 THEN Kept1(i - 1)
                         ELSE Append(Kept1(i - 1), Canon(doc[i]))
<1> DEFINE n == Len(doc)
           f == Keeps
<1>1. doc \in Seq(Text) /\ n \in Nat /\ DOMAIN doc = 1 .. n
  BY DocIs, LenProperties
<1>2. \A i \in 1 .. n : Canon(doc[i]) \in Text
  BY <1>1, CanonType, ElementOfSeq
<1>3. \A i \in 1 .. n : f[i] = IF i % MaxParts = 0 THEN <<>> ELSE <<Canon(doc[i])>>
  BY <1>1 DEF Keeps
<1>4. \A i \in 1 .. n : f[i] \in Seq(Text)
  <2>1. <<>> \in Seq(Text) /\ \A c \in Text : <<c>> \in Seq(Text)
    OBVIOUS
  <2> HIDE DEF f
  <2> QED BY <1>2, <1>3, <2>1
<1>5. f \in [1 .. n -> Seq(Text)]
  <2>1. f = [i \in 1 .. n |-> f[i]]
    BY <1>1 DEF Keeps
  <2> HIDE DEF f
  <2> QED BY <1>4, <2>1
<1> HIDE DEF f, n
<1>6. /\ First(f, 0) = <<>> /\ First(f, n) = FlattenSeq(f)
      /\ \A i \in 0 .. n : First(f, i) \in Seq(Text)
      /\ \A i \in 1 .. n : First(f, i) = First(f, i - 1) \o f[i]
  BY <1>1, <1>5, FirstStep
<1>7. ASSUME NEW i \in 1 .. n
      PROVE  First(f, i) = IF i % MaxParts = 0 THEN First(f, i - 1)
                           ELSE Append(First(f, i - 1), Canon(doc[i]))
  <2> DEFINE s == First(f, i - 1)
             c == Canon(doc[i])
  <2>1. i - 1 \in 0 .. n
    BY <1>1
  <2>2. s \in Seq(Text) /\ c \in Text
    BY <1>2, <1>6, <2>1
  <2>3. First(f, i) = s \o f[i]
    BY <1>6
  <2> HIDE DEF s, c
  <2>4. s \o <<>> = s /\ s \o <<c>> = Append(s, c)
    BY <2>2, ConcatEmptySeq, AppendIsConcat
  <2>5. f[i] = IF i % MaxParts = 0 THEN <<>> ELSE <<c>>
    BY <1>3 DEF c
  <2> QED BY <2>3, <2>4, <2>5 DEF s, c
<1> QED BY <1>6, <1>7 DEF Kept1, f, n

LEMMA AtSame ==
  ASSUME origin' = origin, NEW d, NEW i
  PROVE  At(d, i)' = At(d, i)
BY DEF At, Ahead, Framed, First

LEMMA KeptSame ==
  ASSUME doc' = doc, NEW i
  PROVE  Kept1(i)' = Kept1(i)
BY DEF Kept1, Keeps, First

LEMMA CollectedSame ==
  ASSUME doc' = doc, bpart' = bpart, parts' = parts, NEW i
  PROVE  Collected(i)' = Collected(i)
BY KeptSame DEF Collected
-----------------------------------------------------------------------------
(* multi_split, line by line.                                               *)
After(d) ==
  \/ phase' = "split" /\ Splitting(d)'
  \/ phase' = "done" /\ parts' = Result

LEMMA FromPreamble ==
  ASSUME Types, Parted, params = LineParams(TheLine), NEW d, Reads(d), SplitLine,
         origin # "BitMail", pos = 13, part = 0, Collected(0)
  PROVE  After(d)
<1>1. ~AtEnd /\ LineEnd = 15 /\ BoundCheck(Line) = 0
  BY PreambleLine
<1>2. /\ phase = "split" /\ phase' = phase /\ pos' = 16 /\ part' = 0
      /\ bpart' = bpart /\ parts' = parts /\ origin' = origin /\ doc' = doc
  BY <1>1 DEF SplitLine
<1>3. At(d, 1)' = 15
  <2>1. At(d, 1) = 15
    BY DEF Reads, Laid, Ahead
  <2> QED BY <1>2, <2>1, AtSame
<1>4. Collected(0)'
  BY <1>2, CollectedSame
<1>5. 0 % MaxParts = 0
  BY Counted
<1>6. AtBoundary(d, 1)'
  <2>1. 1 - 1 = 0
    OBVIOUS
  <2> QED BY <1>2, <1>3, <1>4, <1>5, <2>1 DEF AtBoundary
<1>7. 1 \in 1 .. Len(doc) + 1 /\ Len(doc)' = Len(doc)
  BY <1>2, DocIs, LenProperties
<1>8. \E i \in 1 .. Len(doc) + 1 : AtBoundary(d, i)'
  BY <1>6, <1>7
<1>9. Splitting(d)'
  BY <1>2, <1>8 DEF Splitting
<1> QED BY <1>2, <1>9 DEF After

LEMMA FromBoundary ==
  ASSUME Types, Parted, params = LineParams(TheLine), NEW d, Reads(d), SplitLine,
         NEW i \in 1 .. Len(doc), AtBoundary(d, i)
  PROVE  After(d)
<1> DEFINE a == At(d, i)
<1>1. pos = a + 1 /\ part = (i - 1) % MaxParts /\ Collected(i - 1)
  BY DEF AtBoundary
<1>2. ~AtEnd /\ LineEnd = a + 4 /\ BoundCheck(Line) = 1
  BY <1>1, BoundaryLine
<1>3. a \in Nat /\ At(d, i + 1) \in Nat /\ a + 6 <= At(d, i + 1)
  BY RegionIs
<1>4. /\ phase = "split" /\ phase' = phase /\ pos' = (a + 4) + 1 /\ first' = TRUE
      /\ part' = (part + 1) % MaxParts
      /\ bpart' = bpart /\ parts' = parts /\ origin' = origin /\ doc' = doc
  BY <1>2 DEF SplitLine
<1>5. At(d, i)' = a /\ At(d, i + 1)' = At(d, i + 1) /\ Collected(i - 1)'
  BY <1>1, <1>4, AtSame, CollectedSame
<1>6. part' = i % MaxParts
  <2>1. i \in Nat \ {0}
    BY DocIs, LenProperties
  <2> QED BY <1>1, <1>4, <2>1, Counted
<1> HIDE DEF a
<1>7. a + 5 <= pos' /\ pos' <= At(d, i + 1) /\ pos' = a + 5
  BY <1>3, <1>4
<1>8. InPart(d, i)'
  BY <1>4, <1>5, <1>6, <1>7 DEF InPart
<1>9. Splitting(d)'
  BY <1>4, <1>8 DEF Splitting
<1> QED BY <1>4, <1>9 DEF After

(* The closing boundary ends the splitting, with what it finds in bpart.    *)
LEMMA Closing ==
  ASSUME Types, Parted, SplitLine, ~AtEnd, BoundCheck(Line) = 2, origin # "cut",
         Collected(Len(doc))
  PROVE  phase' = "done" /\ parts' = Result
<1>1. phase' = "done" /\ parts' = Append(parts, bpart)
  BY DEF SplitLine
<1>2. Len(doc) \in Nat /\ (Len(doc) = 0 <=> doc = <<>>)
  BY DocIs, LenProperties, EmptySeq
<1>3. CASE doc = <<>>
  <2>1. bpart = Null /\ parts = <<>>
    BY <1>2, <1>3 DEF Collected
  <2>2. Append(<<>>, Null) = <<Null>>
    OBVIOUS
  <2> QED BY <1>1, <1>3, <2>1, <2>2 DEF Result
<1>4. CASE doc # <<>>
  <2>1. Append(parts, bpart) = Kept1(Len(doc))
    BY <1>2, <1>4 DEF Collected
  <2> QED BY <1>1, <1>4, <2>1 DEF Result
<1> QED BY <1>3, <1>4

LEMMA FromClosing ==
  ASSUME Types, Parted, params = LineParams(TheLine), NEW d, Reads(d), SplitLine,
         AtBoundary(d, Len(doc) + 1)
  PROVE  After(d)
<1> DEFINE a == At(d, Len(doc) + 1)
<1>1. Len(doc) \in Nat
  BY DocIs, LenProperties
<1>2. pos = a + 1 /\ Collected(Len(doc))
  <2>1. (Len(doc) + 1) - 1 = Len(doc)
    BY <1>1
  <2> QED BY <2>1 DEF AtBoundary
<1>3. /\ ~AtEnd /\ a \in Nat
      /\ origin \in {"BitMail", "other"} => BoundCheck(Line) = 2
      /\ origin = "cut" => BoundCheck(Line) = 1 /\ LineEnd = Len(text)
      /\ origin = "bare" => BoundCheck(Line) = 1 /\ LineEnd = a + 4
  BY <1>2, ClosingLine
<1>4. ASSUME origin \in {"cut", "bare"}
      PROVE  /\ phase' = "split" /\ pos' = LineEnd + 1 /\ Collected(Len(doc))'
             /\ UNCHANGED <<origin, text, doc>>
  <2>1. /\ phase = "split" /\ phase' = phase /\ pos' = LineEnd + 1
        /\ bpart' = bpart /\ parts' = parts /\ UNCHANGED <<origin, text, doc>>
    BY <1>3, <1>4 DEF SplitLine
  <2>2. Collected(Len(doc))' = Collected(Len(doc))
    BY <2>1 DEF Collected, Kept1, Keeps, First
  <2> QED BY <1>2, <2>1, <2>2
<1>5. CASE origin = "cut"
  <2>1. pos' = Len(text') + 1
    BY <1>3, <1>4, <1>5
  <2>2. Splitting(d)'
    BY <1>4, <1>5, <2>1 DEF Splitting
  <2> QED BY <1>4, <1>5, <2>2 DEF After
<1>7. CASE origin = "bare"
  <2>1. pos' = a + 5
    BY <1>3, <1>4, <1>7
  <2>2. At(d, Len(doc) + 1)' = a
    BY <1>4, <1>7 DEF At, Ahead, Framed, First
  <2> HIDE DEF a
  <2>3. Splitting(d)'
    BY <1>4, <1>7, <2>1, <2>2 DEF Splitting
  <2> QED BY <1>4, <1>7, <2>3 DEF After
<1>6. CASE origin \in {"BitMail", "other"}
  <2>1. phase' = "done" /\ parts' = Result
    BY <1>2, <1>3, <1>6, Closing
  <2> QED BY <2>1 DEF After
<1> QED BY <1>5, <1>6, <1>7 DEF Types

(* A part that multi_split's counter leaves out.                            *)
LEMMA FromLostPart ==
  ASSUME Types, Parted, params = LineParams(TheLine), NEW d, Reads(d), SplitLine,
         NEW i \in 1 .. Len(doc), InPart(d, i), part = 0
  PROVE  After(d)
<1> DEFINE a == At(d, i)
           b == At(d, i + 1)
           e == LineEnd
<1>1. /\ a + 5 <= pos /\ pos <= b /\ part = i % MaxParts
      /\ first /\ Collected(i - 1)
  BY DEF InPart
<1>2. ~AtEnd /\ e \in pos .. b /\ BoundCheck(Line) = 0
  BY <1>1, PartLine
<1>3. a \in Nat /\ b \in Nat /\ pos \in Nat /\ i \in Nat \ {0} /\ Len(doc) \in Nat
  BY RegionIs, DocIs, LenProperties DEF Types
<1>4. /\ phase = "split" /\ phase' = phase /\ pos' = e + 1 /\ first' = first
      /\ part' = part /\ bpart' = bpart /\ parts' = parts
      /\ origin' = origin /\ doc' = doc
  BY <1>2 DEF SplitLine
<1>5. At(d, i)' = a /\ At(d, i + 1)' = b /\ Collected(i - 1)' /\ Collected(i)' = Collected(i)
  BY <1>1, <1>4, AtSame, CollectedSame
<1> HIDE DEF a, b, e
<1>6. CASE e < b
  <2>1. a + 5 <= pos' /\ pos' <= b
    BY <1>1, <1>2, <1>3, <1>4, <1>6
  <2>2. InPart(d, i)'
    BY <1>1, <1>4, <1>5, <2>1 DEF InPart
  <2>3. Splitting(d)'
    BY <1>4, <2>2 DEF Splitting
  <2> QED BY <1>4, <2>3 DEF After
<1>7. CASE e = b
  <2>1. i >= 2
    BY <1>1, <1>3, Counted
  <2>2. i # 0 /\ i - 1 # 0 /\ (i + 1) - 1 = i /\ i + 1 \in 1 .. Len(doc) + 1
    BY <1>3, <2>1
  <2>3. Kept1(i) = Kept1(i - 1)
    BY <1>1, KeptStep
  <2>4. Collected(i)
    BY <1>1, <2>2, <2>3 DEF Collected
  <2>5. AtBoundary(d, i + 1)'
    BY <1>1, <1>4, <1>5, <1>7, <2>2, <2>4 DEF AtBoundary
  <2>6. Splitting(d)'
    BY <1>4, <2>2, <2>5 DEF Splitting
  <2> QED BY <1>4, <2>6 DEF After
<1>8. e < b \/ e = b
  BY <1>2, <1>3
<1> QED BY <1>6, <1>7, <1>8

(* A part that is kept: what is collected of it is canonical.               *)
LEMMA Grows ==
  ASSUME Types, Parted, params = LineParams(TheLine), NEW d, Reads(d), SplitLine,
         NEW i \in 1 .. Len(doc), InPart(d, i), part # 0
  PROVE  /\ parts' = Kept1(i - 1) /\ bpart' \in Text /\ first' = FALSE
         /\ eol' \in BOOLEAN /\ (eol' <=> text[LineEnd] = LF)
         /\ bpart' \o (IF eol' THEN CRLF ELSE <<>>)
              = Canon(SubSeq(text, At(d, i) + 5, LineEnd))
<1> DEFINE a == At(d, i)
           b == At(d, i + 1)
           e == LineEnd
           k == Kept(Line)
           E(x) == IF x THEN CRLF ELSE <<>>
<1>1. /\ a + 5 <= pos /\ pos <= b /\ part = i % MaxParts
      /\ first => pos = a + 5 /\ Collected(i - 1)
      /\ ~first => /\ parts = Kept1(i - 1) /\ bpart # Null
                   /\ bpart \o E(eol) = Canon(SubSeq(text, a + 5, pos - 1))
  BY DEF InPart
<1>2. /\ ~AtEnd /\ e \in pos .. b /\ BoundCheck(Line) = 0 /\ k \in Text
      /\ Canon(Line) = k \o E(HasEol(Line)) /\ (HasEol(Line) <=> text[e] = LF)
  BY <1>1, PartLine
<1>3. /\ a \in Nat /\ b \in Nat /\ pos \in Nat \ {0} /\ i \in Nat \ {0}
      /\ text \in Text /\ b <= Len(text) /\ Len(text) \in Nat
  <2>1. a \in Nat /\ b \in Nat /\ text \in Text /\ b <= Len(text)
    BY RegionIs
  <2>2. pos \in Nat \ {0}
    BY DEF Types
  <2>3. i \in Nat \ {0}
    BY DocIs, LenProperties
  <2> QED BY <2>1, <2>2, <2>3, OfText
<1>4. /\ first' = FALSE /\ eol' = HasEol(Line)
      /\ first => /\ parts' = (IF bpart = Null THEN parts ELSE Append(parts, bpart))
                  /\ bpart' = k
      /\ ~first => bpart' = (bpart \o E(eol)) \o k /\ parts' = parts
  <2>1. /\ first' = FALSE /\ eol' = HasEol(Line)
        /\ IF first
             THEN /\ parts' = IF bpart = Null THEN parts ELSE Append(parts, bpart)
                  /\ bpart' = Kept(Line)
             ELSE /\ bpart' = bpart \o (IF eol THEN CRLF ELSE <<>>) \o Kept(Line)
                  /\ UNCHANGED parts
    BY <1>2 DEF SplitLine
  <2> QED BY <2>1
<1>5. Line = SubSeq(text, pos, e)
  BY DEF Line
<1>6. eol' \in BOOLEAN /\ (eol' <=> text[e] = LF)
  BY <1>2, <1>4 DEF HasEol
<1>7. \A x \in BOOLEAN : E(x) \in Text
  BY Breaks, EmptyText
<1>8. HasEol(Line) \in BOOLEAN
  BY DEF HasEol
<1> HIDE DEF a, b, e, k, E
<1>9. CASE first
  <2>1. parts' = Kept1(i - 1)
    <3>1. CASE i - 1 = 0
      BY <1>1, <1>4, <1>9, <3>1, KeptStep DEF Collected
    <3>2. CASE i - 1 # 0
      BY <1>1, <1>4, <1>9, <3>2 DEF Collected
    <3> QED BY <3>1, <3>2
  <2>2. bpart' \o E(eol') = Canon(SubSeq(text, a + 5, e))
    BY <1>1, <1>2, <1>4, <1>5, <1>9
  <2> QED BY <1>2, <1>4, <1>6, <1>9, <2>1, <2>2 DEF a, e, E
<1>10. CASE ~first
  <2> DEFINE c == bpart \o E(eol)
  <2>1. bpart \in Text /\ eol \in BOOLEAN
    BY <1>1, <1>10 DEF Types
  <2>2. c \in Text
    BY <1>7, <2>1, Joining DEF Joins
  <2> HIDE DEF c
  <2>3. bpart' = c \o k /\ bpart' \in Text
    BY <1>2, <1>4, <1>10, <2>2, Joining DEF Joins, c
  <2>4. bpart' \o E(eol') = c \o (k \o E(HasEol(Line)))
    <3> DEFINE z == E(HasEol(Line))
    <3>1. z \in Text /\ bpart' \o E(eol') = (c \o k) \o z
      BY <1>4, <1>7, <1>8, <2>3
    <3> HIDE DEF z
    <3>2. (c \o k) \o z = c \o (k \o z)
      BY <1>2, <2>2, <3>1, Assoc
    <3> QED BY <3>1, <3>2 DEF z
  <2> DEFINE u == SubSeq(text, a + 5, pos - 1)
             v == SubSeq(text, pos, e)
  <2>5. c = Canon(u) /\ k \o E(HasEol(Line)) = Canon(v)
    BY <1>1, <1>2, <1>5, <1>10 DEF c
  <2>6. /\ a + 5 \in Nat \ {0} /\ pos - 1 \in Nat /\ e \in Nat /\ a + 5 <= (pos - 1) + 1
        /\ pos - 1 <= e /\ e <= Len(text) /\ (pos - 1) + 1 = pos
    BY <1>1, <1>2, <1>3
  <2>7. u \in Text /\ v \in Text
    BY <1>3, <2>6, Piece
  <2>8. u \o v = SubSeq(text, a + 5, e)
    <3>1. u \o SubSeq(text, (pos - 1) + 1, e) = SubSeq(text, a + 5, e)
      BY <1>3, <2>6, Adjacent
    <3> QED BY <2>6, <3>1
  <2> HIDE DEF u, v
  <2>9. Canon(u \o v) = Canon(u) \o Canon(v)
    BY <2>7, CanonConcat
  <2>10. bpart' \o E(eol') = Canon(SubSeq(text, a + 5, e))
    BY <2>4, <2>5, <2>8, <2>9
  <2>11. parts' = Kept1(i - 1)
    BY <1>1, <1>4, <1>10
  <2> QED BY <1>4, <1>6, <2>3, <2>10, <2>11 DEF a, e, E
<1> QED BY <1>9, <1>10

LEMMA FromPart ==
  ASSUME Types, Parted, params = LineParams(TheLine), NEW d, Reads(d), SplitLine,
         NEW i \in 1 .. Len(doc), InPart(d, i), part # 0
  PROVE  After(d)
<1> DEFINE a == At(d, i)
           b == At(d, i + 1)
           e == LineEnd
<1>1. /\ a + 5 <= pos /\ pos <= b /\ part = i % MaxParts
  BY DEF InPart
<1>2. ~AtEnd /\ e \in pos .. b /\ BoundCheck(Line) = 0
  BY <1>1, PartLine
<1>3. /\ parts' = Kept1(i - 1) /\ bpart' \in Text /\ first' = FALSE
      /\ eol' \in BOOLEAN /\ (eol' <=> text[e] = LF)
      /\ bpart' \o (IF eol' THEN CRLF ELSE <<>>) = Canon(SubSeq(text, a + 5, e))
  BY Grows
<1>4. /\ phase = "split" /\ phase' = phase /\ pos' = e + 1
      /\ part' = part /\ origin' = origin /\ doc' = doc /\ text' = text
  BY <1>2 DEF SplitLine
<1>5. /\ a \in Nat /\ b \in Nat /\ pos \in Nat /\ i \in Nat \ {0} /\ Len(doc) \in Nat
      /\ text[b] = LF /\ SubSeq(text, a + 5, b) = d[i] \o CRLF /\ d[i] \in Text
  <2>1. /\ a \in Nat /\ b \in Nat /\ text[b] = LF
        /\ SubSeq(text, a + 5, b) = d[i] \o CRLF /\ d[i] \in Text
    BY RegionIs
  <2>2. i \in Nat \ {0} /\ Len(doc) \in Nat
    BY DocIs, LenProperties
  <2>3. pos \in Nat
    BY DEF Types
  <2> QED BY <2>1, <2>2, <2>3
<1>6. At(d, i)' = a /\ At(d, i + 1)' = b /\ Kept1(i - 1)' = Kept1(i - 1) /\ Kept1(i)' = Kept1(i)
  BY <1>4, AtSame, KeptSame
<1>7. Null \notin Text
  BY MimeAssumption
<1>8. i + 1 \in 1 .. Len(doc) + 1 /\ (i + 1) - 1 = i /\ i # 0
  BY <1>5
<1>9. (e + 1) - 1 = e
  BY <1>1, <1>2, <1>5
<1> HIDE DEF a, b, e
<1>10. CASE e < b
  <2>1. a + 5 <= pos' /\ pos' <= b /\ pos' - 1 = e
    BY <1>1, <1>2, <1>4, <1>5, <1>10
  <2>2. bpart' # Null
    BY <1>3, <1>7
  <2>3. InPart(d, i)'
    BY <1>1, <1>3, <1>4, <1>6, <2>1, <2>2 DEF InPart
  <2>4. Splitting(d)'
    BY <1>4, <2>3 DEF Splitting
  <2> QED BY <1>4, <2>4 DEF After
<1>11. CASE e = b
  <2>1. bpart' \o CRLF = Canon(d[i] \o CRLF)
    BY <1>3, <1>5, <1>11
  <2>2. Canon(d[i] \o CRLF) = Canon(d[i]) \o CRLF /\ Canon(d[i]) \in Text
    BY <1>5, Breaks, CanonConcat, CanonBreak, CanonType
  <2> DEFINE s == bpart'
             t == Canon(d[i])
  <2>3. s \in Text /\ t \in Text /\ s \o CRLF = t \o CRLF /\ CRLF \in Text
    BY <1>3, <2>1, <2>2, Breaks
  <2>4. s = t
    <3> HIDE DEF s, t
    <3> QED BY <2>3, ConcatSimplifications DEF Text
  <2>5. Canon(d[i]) = Canon(doc[i])
    BY DEF Reads
  <2>6. Append(parts', bpart') = Kept1(i)
    BY <1>1, <1>3, <2>4, <2>5, KeptStep
  <2>7. Collected(i)'
    BY <1>3, <1>6, <1>7, <1>8, <2>6 DEF Collected
  <2>8. AtBoundary(d, i + 1)'
    BY <1>1, <1>4, <1>6, <1>8, <1>11, <2>7 DEF AtBoundary
  <2>9. Splitting(d)'
    BY <1>4, <1>8, <2>8 DEF Splitting
  <2> QED BY <1>4, <2>9 DEF After
<1>12. e < b \/ e = b
  BY <1>2, <1>5
<1> QED BY <1>10, <1>11, <1>12

LEMMA FromSplitting ==
  ASSUME Types, Parted, params = LineParams(TheLine), NEW d, Reads(d), SplitLine,
         Splitting(d)
  PROVE  After(d)
<1>1. CASE origin # "BitMail" /\ pos = 13 /\ part = 0 /\ Collected(0)
  BY <1>1, FromPreamble
<1>2. ASSUME NEW i \in 1 .. Len(doc) + 1, AtBoundary(d, i) PROVE After(d)
  <2>1. i \in 1 .. Len(doc) \/ i = Len(doc) + 1
    BY DocIs, LenProperties
  <2> QED BY <1>2, <2>1, FromBoundary, FromClosing
<1>3. ASSUME NEW i \in 1 .. Len(doc), InPart(d, i) PROVE After(d)
  BY <1>3, FromLostPart, FromPart
<1>4. CASE origin = "cut" /\ pos = Len(text) + 1
  <2>1. AtEnd
    BY <1>4, OfText DEF AtEnd, Types
  <2>2. phase' = "done" /\ parts' = <<>>
    BY <2>1 DEF SplitLine
  <2> QED BY <1>4, <2>2 DEF After, Result
<1>5. CASE origin = "bare" /\ pos = At(d, Len(doc) + 1) + 5 /\ Collected(Len(doc))
  <2>1. phase' = "done" /\ parts' = Result
    BY <1>5, BareLine, Closing
  <2> QED BY <2>1 DEF After
<1> QED BY <1>1, <1>2, <1>3, <1>4, <1>5 DEF Splitting
-----------------------------------------------------------------------------
(* The steps.                                                               *)
LEMMA Beginning ==
  ASSUME NEW s \in Text
  PROVE  SubSeq(s, 1, 0) = <<>> /\ SubSeq(s, 1, Len(s)) = s
<1>1. Len(s) \in Nat /\ 0 <= Len(s) /\ <<>> \in Text /\ Len(<<>>) = 0
  BY OfText, EmptyText
<1>2. SubSeq(s, 1, 0) \in Text /\ Len(SubSeq(s, 1, 0)) = 0
  BY <1>1, Piece
<1>3. /\ SubSeq(s, 1, Len(s)) \in Text /\ Len(SubSeq(s, 1, Len(s))) = Len(s)
      /\ \A i \in 1 .. Len(s) : SubSeq(s, 1, Len(s))[i] = s[i]
  <2> DEFINE n == Len(s)
             t == SubSeq(s, 1, n)
  <2>1. /\ t \in Text /\ Len(t) = (IF 1 <= n THEN n - 1 + 1 ELSE 0)
        /\ \A i \in 1 .. n - 1 + 1 : t[i] = s[1 + i - 1]
    BY <1>1, Piece
  <2>2. n \in Nat
    BY <1>1
  <2> HIDE DEF n, t
  <2>3. Len(t) = n /\ \A i \in 1 .. n : i \in 1 .. n - 1 + 1 /\ 1 + i - 1 = i
    BY <2>1, <2>2
  <2>4. t \in Text /\ Len(t) = n /\ \A i \in 1 .. n : t[i] = s[i]
    BY <2>1, <2>3
  <2> QED BY <2>4 DEF n, t
<1>4. SubSeq(s, 1, 0) = <<>>
  BY <1>1, <1>2, Same
<1>5. SubSeq(s, 1, Len(s)) = s
  <2> DEFINE t == SubSeq(s, 1, Len(s))
  <2>1. t \in Text /\ Len(t) = Len(s) /\ \A i \in 1 .. Len(t) : t[i] = s[i]
    BY <1>3
  <2> HIDE DEF t
  <2>2. t = s
    BY <2>1, Same
  <2> QED BY <2>2 DEF t
<1> QED BY <1>4, <1>5

LEMMA ComposedSame ==
  ASSUME UNCHANGED <<origin, doc, suffix>>
  PROVE  /\ Composed(doc)' = Composed(doc) /\ TheLine' = TheLine
         /\ LineParams(TheLine)' = LineParams(TheLine)
BY DEF Composed, OtherText, Trailer, MixedText, Body, Part, FileText, FileName, HeaderLine,
       TheLine, NameLine, Parted

LEMMA InitInv == Init => Inv
<1> SUFFICES ASSUME Init PROVE Inv
  OBVIOUS
<1>1. /\ offset = 0 /\ memory = <<>> /\ text = <<>> /\ pos = 1 /\ params = {} /\ part = 0
      /\ first = TRUE /\ eol = FALSE /\ bpart = Null /\ parts = <<>>
      /\ \/ doc \in Documents
         \/ doc = <<>> /\ (suffix \in Endings \/ origin # "BitMail")
  BY DEF Init
<1>2. \/ origin = "BitMail" /\ phase = "compose" /\ mail = <<>> /\ server = <<>>
      \/ /\ origin \in {"other", "cut", "bare"} /\ phase = "down"
         /\ mail = OtherText(doc, origin) /\ server = mail
  BY DEF Init
<1>3. /\ MaxParts \in Nat /\ MaxParts >= 2 /\ Documents \subseteq Seq(Text)
      /\ <<>> \in Text /\ <<>> \in Seq(Text) /\ Len(<<>>) = 0
  BY MimeAssumption, EmptyText
<1>4. mail \in Text /\ server = (IF phase = "compose" THEN <<>> ELSE mail)
  <2>1. CASE origin = "BitMail"
    BY <1>2, <1>3, <2>1
  <2>2. CASE origin # "BitMail"
    <3>1. doc \in Seq(Text) /\ origin \in Who /\ mail = OtherText(doc, origin)
          /\ server = mail /\ phase = "down"
      BY <1>1, <1>2, <1>3, <2>2 DEF Who
    <3>2. Composed(doc) = mail
      BY <2>2, <3>1 DEF Composed
    <3>3. Laid(Composed(doc), doc)
      BY <2>2, <3>1, LaidOut
    <3> QED BY <3>1, <3>2, <3>3 DEF Laid, Headed
  <2> QED BY <2>1, <2>2
<1>5. Types
  <2>1. parts \in Seq(Text \cup {Null})
    BY <1>1, EmptySeq
  <2>2. server \in Text /\ memory \in Text /\ text \in Text
    BY <1>1, <1>3, <1>4
  <2>3. part \in 0 .. MaxParts - 1
    BY <1>1, <1>3
  <2>4. /\ origin \in {"BitMail", "other", "cut", "bare"}
        /\ phase \in {"compose", "up", "down", "header", "split", "done"}
    BY <1>2
  <2>5. \/ doc \in Documents
        \/ doc = <<>> /\ (suffix \in Endings \/ origin # "BitMail")
    BY <1>1
  <2>6. /\ mail \in Text /\ offset \in Nat /\ pos \in Nat \ {0} /\ first \in BOOLEAN
        /\ eol \in BOOLEAN /\ bpart \in Text \cup {Null}
    <3>1. offset \in Nat /\ pos \in Nat \ {0}
      BY <1>1
    <3>2. first \in BOOLEAN /\ eol \in BOOLEAN /\ bpart \in Text \cup {Null}
      BY <1>1
    <3> QED BY <1>4, <3>1, <3>2
  <2> QED BY <2>1, <2>2, <2>3, <2>4, <2>5, <2>6 DEF Types
<1>6. Transfer
  <2>1. SubSeq(server, 1, Len(memory)) = <<>> /\ Len(memory) <= Len(server)
        /\ offset <= Len(mail)
    <3>1. server \in Text
      BY <1>5 DEF Types
    <3> QED BY <1>1, <1>3, <1>4, <3>1, Beginning, OfText
  <2>2. phase = "compose" => mail = <<>> /\ origin = "BitMail"
    BY <1>2
  <2>3. phase # "compose" => mail = Composed(doc) /\ phase = "down"
    BY <1>2 DEF Composed
  <2>4. phase = "compose" => server = SubSeq(mail, 1, offset)
    BY <1>1, <1>4, Beginning
  <2> QED BY <1>1, <1>2, <1>4, <2>1, <2>2, <2>3, <2>4 DEF Transfer, Fresh
<1>7. Header /\ Split
  BY <1>2 DEF Header, Split
<1> QED BY <1>5, <1>6, <1>7 DEF Inv

LEMMA ComposeInv == Inv /\ Compose => Inv'
<1> SUFFICES ASSUME Inv, Compose PROVE Inv'
  OBVIOUS
<1>1. Types /\ Transfer
  BY DEF Inv
<1>2. /\ phase = "compose" /\ phase' = "up"
      /\ mail' = IF doc = <<>> THEN FileText(suffix) ELSE MixedText(doc)
      /\ UNCHANGED <<origin, doc, suffix>>
      /\ UNCHANGED <<offset, server, memory, text, pos, params, part, first, eol, bpart, parts>>
  BY DEF Compose, parser
<1>3. /\ origin = "BitMail" /\ mail = <<>> /\ memory = <<>> /\ offset <= Len(mail)
      /\ server = SubSeq(mail, 1, offset) /\ Fresh /\ Len(memory) <= Len(server)
      /\ memory = SubSeq(server, 1, Len(memory))
  BY <1>1, <1>2 DEF Transfer
<1>4. mail' = Composed(doc) /\ mail' \in Text
  BY <1>1, <1>2, <1>3, TextIs DEF Composed
<1>5. Types'
  BY <1>1, <1>2, <1>4 DEF Types
<1>6. Transfer'
  <2>1. offset = 0 /\ server = <<>>
    <3>1. Len(<<>>) = 0 /\ <<>> \in Text
      BY EmptyText
    <3>2. offset \in Nat
      BY <1>1 DEF Types
    <3> QED BY <1>3, <3>1, <3>2, Beginning
  <2>2. offset' <= Len(mail') /\ server' = SubSeq(mail', 1, offset')
    BY <1>2, <1>4, <2>1, Beginning, OfText
  <2>3. mail' = Composed(doc)'
    BY <1>2, <1>4, ComposedSame
  <2>4. Fresh'
    BY <1>2, <1>3 DEF Fresh
  <2> QED BY <1>2, <1>3, <2>2, <2>3, <2>4 DEF Transfer
<1>7. Header' /\ Split'
  BY <1>2 DEF Header, Split
<1> QED BY <1>5, <1>6, <1>7 DEF Inv

LEMMA OnTxferInv == \A n \in 1 .. MaxChunk : Inv /\ OnTxfer(n) => Inv'
<1> SUFFICES ASSUME NEW n \in 1 .. MaxChunk, Inv, OnTxfer(n) PROVE Inv'
  OBVIOUS
<1>1. Types /\ Transfer
  BY DEF Inv
<1>2. /\ phase = "up" /\ UNCHANGED <<origin, doc, suffix, mail, memory>>
      /\ UNCHANGED <<text, pos, params, part, first, eol, bpart, parts>>
  BY DEF OnTxfer, parser
<1>3. /\ mail = Composed(doc) /\ memory = <<>> /\ offset <= Len(mail)
      /\ server = SubSeq(mail, 1, offset) /\ Fresh
  BY <1>1, <1>2 DEF Transfer
<1>4. mail \in Text /\ server \in Text /\ offset \in Nat /\ Len(mail) \in Nat
      /\ <<>> \in Text /\ Len(<<>>) = 0
  BY <1>1, OfText, EmptyText DEF Types
<1>5. mail' = Composed(doc)' /\ Fresh'
  BY <1>2, <1>3, ComposedSame DEF Fresh
<1>6. CASE offset >= Len(mail)
  <2>1. phase' = "down" /\ UNCHANGED <<offset, server>>
    BY <1>6 DEF OnTxfer
  <2>2. offset = Len(mail)
    BY <1>3, <1>4, <1>6
  <2>3. server = mail
    BY <1>3, <1>4, <2>2, Beginning
  <2>4. Types'
    BY <1>1, <1>2, <2>1 DEF Types
  <2>5. Len(memory) <= Len(server) /\ memory = SubSeq(server, 1, Len(memory))
    BY <1>3, <1>4, <2>3, Beginning
  <2>6. Transfer'
    BY <1>2, <1>5, <2>1, <2>3, <2>5 DEF Transfer
  <2>7. Header' /\ Split'
    BY <2>1 DEF Header, Split
  <2> QED BY <2>4, <2>6, <2>7 DEF Inv
<1>7. CASE ~(offset >= Len(mail))
  <2> DEFINE xfer == Min({n, Len(mail) - offset})
  <2>1. /\ server' = server \o SubSeq(mail, offset + 1, offset + xfer)
        /\ offset' = offset + xfer /\ phase' = phase
    BY <1>7 DEF OnTxfer
  <2>2. xfer \in 1 .. Len(mail) - offset
    <3>1. n \in Nat /\ n >= 1 /\ Len(mail) - offset \in Nat /\ Len(mail) - offset >= 1
      BY <1>4, <1>7, MimeAssumption
    <3>2. {n, Len(mail) - offset} \in SUBSET Nat
      BY <3>1
    <3>3. xfer \in {n, Len(mail) - offset} /\ xfer <= Len(mail) - offset
      BY <3>2, MinIs
    <3> QED BY <3>1, <3>3
  <2> HIDE DEF xfer
  <2>3. offset + xfer \in Nat /\ offset + xfer <= Len(mail) /\ offset <= offset + xfer
    BY <1>4, <2>2
  <2>4. SubSeq(mail, 1, offset) \o SubSeq(mail, offset + 1, offset + xfer)
          = SubSeq(mail, 1, offset + xfer)
    <3>1. 1 \in Nat \ {0} /\ 1 <= offset + 1
      BY <1>4
    <3> QED BY <1>4, <2>3, <3>1, Adjacent
  <2>5. server' = SubSeq(mail', 1, offset') /\ offset' <= Len(mail')
    BY <1>2, <1>3, <2>1, <2>3, <2>4
  <2>6. server' \in Text /\ offset' \in Nat
    <3>1. server' = SubSeq(mail, 1, offset) \o SubSeq(mail, offset + 1, offset + xfer)
      BY <1>3, <2>1
    <3>2. server' = SubSeq(mail, 1, offset + xfer)
      BY <2>4, <3>1
    <3>3. 1 \in Nat \ {0}
      OBVIOUS
    <3>4. SubSeq(mail, 1, offset + xfer) \in Text
      BY <1>4, <2>3, <3>3, Piece
    <3> QED BY <2>1, <2>3, <3>2, <3>4
  <2>7. Types'
    BY <1>1, <1>2, <2>1, <2>6 DEF Types
  <2>8. Len(memory) <= Len(server') /\ memory = SubSeq(server', 1, Len(memory))
    BY <1>3, <1>4, <2>6, Beginning, OfText
  <2>9. Transfer'
    BY <1>2, <1>3, <1>5, <2>1, <2>5, <2>8 DEF Transfer
  <2>10. Header' /\ Split'
    BY <1>2, <2>1 DEF Header, Split
  <2> QED BY <2>7, <2>9, <2>10 DEF Inv
<1> QED BY <1>6, <1>7

LEMMA OnRxferInv == \A n \in 1 .. MaxChunk : Inv /\ OnRxfer(n) => Inv'
<1> SUFFICES ASSUME NEW n \in 1 .. MaxChunk, Inv, OnRxfer(n) PROVE Inv'
  OBVIOUS
<1>1. Types /\ Transfer
  BY DEF Inv
<1>2. /\ phase = "down" /\ Len(memory) + n <= Len(server)
      /\ memory' = memory \o SubSeq(server, Len(memory) + 1, Len(memory) + n)
      /\ UNCHANGED <<origin, doc, suffix>> /\ UNCHANGED <<phase, mail, offset, server>>
      /\ UNCHANGED <<text, pos, params, part, first, eol, bpart, parts>>
  BY DEF OnRxfer, parser
<1>3. /\ mail = Composed(doc) /\ server = mail /\ Fresh
      /\ memory = SubSeq(server, 1, Len(memory))
  BY <1>1, <1>2 DEF Transfer
<1> DEFINE m == Len(memory)
<1>4. server \in Text /\ m \in Nat /\ n \in Nat /\ Len(server) \in Nat /\ m + n <= Len(server)
  BY <1>1, <1>2, OfText, MimeAssumption DEF Types
<1>5. memory' = SubSeq(server, 1, m) \o SubSeq(server, m + 1, m + n)
  BY <1>2, <1>3
<1>6. Len(memory') = m + n /\ memory' = SubSeq(server, 1, m + n) /\ memory' \in Text
  <2> HIDE DEF m
  <2>1. 1 \in Nat \ {0} /\ 1 <= m + 1 /\ m + n \in Nat /\ m <= m + n
    BY <1>4
  <2>2. memory' = SubSeq(server, 1, m + n)
    BY <1>4, <1>5, <2>1, Adjacent
  <2>3. /\ SubSeq(server, 1, m + n) \in Text
        /\ Len(SubSeq(server, 1, m + n)) = IF 1 <= m + n THEN m + n - 1 + 1 ELSE 0
    BY <1>4, <2>1, Piece
  <2> QED BY <1>4, <2>1, <2>2, <2>3
<1>7. Types'
  BY <1>1, <1>2, <1>6 DEF Types
<1>8. mail' = Composed(doc)' /\ Fresh'
  BY <1>2, <1>3, ComposedSame DEF Fresh
<1>9. Transfer'
  <2>1. Len(memory') <= Len(server') /\ memory' = SubSeq(server', 1, Len(memory'))
    BY <1>2, <1>4, <1>6
  <2> QED BY <1>2, <1>3, <1>8, <2>1 DEF Transfer
<1>10. Header' /\ Split'
  BY <1>2 DEF Header, Split
<1> QED BY <1>7, <1>9, <1>10 DEF Inv

LEMMA OpenInv == Inv /\ Open => Inv'
<1> SUFFICES ASSUME Inv, Open PROVE Inv'
  OBVIOUS
<1>1. Types /\ Transfer
  BY DEF Inv
<1>2. /\ phase = "down" /\ memory = server /\ phase' = "header"
      /\ text' \in {memory, Canon(memory)} /\ UNCHANGED <<origin, doc, suffix>>
      /\ UNCHANGED <<mail, offset, server, memory>>
      /\ UNCHANGED <<pos, params, part, first, eol, bpart, parts>>
  BY DEF Open, wire
<1>3. /\ mail = Composed(doc) /\ server = mail /\ Fresh
      /\ Len(memory) <= Len(server) /\ memory = SubSeq(server, 1, Len(memory))
  BY <1>1, <1>2 DEF Transfer
<1>4. text' \in {mail, Canon(mail)} /\ text' \in Text
  BY <1>1, <1>2, <1>3, CanonType DEF Types
<1>5. Types'
  BY <1>1, <1>2, <1>4 DEF Types
<1>6. Transfer'
  <2>1. mail' = Composed(doc)' /\ Canon(mail') = Canon(mail)
    BY <1>2, <1>3, ComposedSame
  <2>2. Len(memory') <= Len(server') /\ memory' = SubSeq(server', 1, Len(memory'))
    BY <1>2, <1>3
  <2> QED BY <1>2, <1>3, <1>4, <2>1, <2>2 DEF Transfer
<1>7. Header' /\ Split'
  BY <1>2, <1>3 DEF Header, Split, Fresh
<1> QED BY <1>5, <1>6, <1>7 DEF Inv

(* The text being parsed, and what its header says.                         *)
LEMMA Opened ==
  ASSUME Types, Transfer, phase \notin {"compose", "up", "down"}
  PROVE  /\ Headed(text, TheLine)
         /\ Parted => \E d \in {doc, Canons(doc)} : text = Composed(d)
<1>1. mail = Composed(doc) /\ text \in {mail, Canon(mail)}
  BY DEF Transfer
<1>2. /\ Headed(Composed(doc), TheLine) /\ Headed(Canon(Composed(doc)), TheLine)
      /\ Parted => Canon(Composed(doc)) = Composed(Canons(doc))
  BY TextIs
<1> QED BY <1>1, <1>2

LEMMA BoundaryNamed ==
  ASSUME Types, params = LineParams(TheLine)
  PROVE  Values("bound") = {} <=> ~Parted
<1>1. CASE ~Parted
  <2>1. suffix \in Endings /\ TheLine = NameLine("filename", FileName(suffix))
    BY <1>1, MimeAssumption DEF Types, TheLine, Parted
  <2>2. \A q \in params : q[1] # <<"bound">>
    BY <2>1, FileNamed
  <2>3. Values("bound") = {}
    BY <2>2 DEF Values
  <2> QED BY <1>1, <2>3
<1>2. CASE Parted
  <2> DEFINE only == <<<<"bound">>, <<"boundary">>>>
  <2>1. only \in params /\ only[1] = <<"bound">>
    BY <1>2, BoundFound DEF TheLine
  <2> HIDE DEF only
  <2>2. only[2] \in Values("bound")
    BY <2>1 DEF Values
  <2> QED BY <1>2, <2>2
<1> QED BY <1>1, <1>2

LEMMA ParseHeaderInv == Inv /\ ParseHeader => Inv'
<1> SUFFICES ASSUME Inv, ParseHeader PROVE Inv'
  OBVIOUS
<1>1. Types /\ Transfer /\ Header
  BY DEF Inv
<1>2. /\ phase = "header" /\ pos' = LineEnd + 1 /\ UNCHANGED <<origin, doc, suffix>>
      /\ UNCHANGED <<mail, offset, server, memory>> /\ UNCHANGED text
      /\ UNCHANGED <<part, first, eol, bpart, parts>>
  BY DEF ParseHeader, wire
<1>3. /\ bpart = Null /\ parts = <<>> /\ part = 0 /\ first = TRUE
      /\ \/ pos = 1 /\ params = {}
         \/ pos = Len(TheLine) + 1 /\ params = LineParams(TheLine)
  BY <1>1, <1>2 DEF Header
<1>4. /\ Headed(text, TheLine)
      /\ Parted => \E d \in {doc, Canons(doc)} : text = Composed(d)
  BY <1>1, <1>2, Opened
<1>5. phase' \in {"header", "split", "done"}
  BY <1>2 DEF ParseHeader
<1>6. pos' \in Nat \ {0}
  BY <1>1, <1>2, LineEndType DEF Types
<1>7. Types'
  BY <1>1, <1>2, <1>5, <1>6 DEF Types
<1>8. Transfer'
  <2>1. /\ mail = Composed(doc) /\ server = mail /\ text \in {mail, Canon(mail)}
        /\ Len(memory) <= Len(server) /\ memory = SubSeq(server, 1, Len(memory))
    BY <1>1, <1>2 DEF Transfer
  <2>2. mail' = Composed(doc)' /\ Canon(mail') = Canon(mail) /\ server' = mail'
        /\ text' \in {mail', Canon(mail')}
    BY <1>2, <2>1, ComposedSame
  <2>3. Len(memory') <= Len(server') /\ memory' = SubSeq(server', 1, Len(memory'))
    BY <1>2, <2>1
  <2> QED BY <1>5, <2>2, <2>3 DEF Transfer
<1>9. CASE pos = 1 /\ params = {}
  <2>1. ~AtEnd /\ LineEnd = Len(TheLine) /\ Line = TheLine /\ Kept(Line) # <<>>
    BY <1>1, <1>4, <1>9, HeaderFirst
  <2>2. params' = params \cup LineParams(TheLine) /\ phase' = phase
    BY <2>1 DEF ParseHeader
  <2>3. pos' = Len(TheLine)' + 1 /\ params' = LineParams(TheLine)'
    BY <1>2, <1>9, <2>1, <2>2, ComposedSame
  <2>4. Header'
    BY <1>2, <1>3, <2>2, <2>3 DEF Header
  <2>5. Split'
    BY <1>2, <2>2 DEF Split
  <2> QED BY <1>7, <1>8, <2>4, <2>5 DEF Inv
<1>10. CASE pos = Len(TheLine) + 1 /\ params = LineParams(TheLine)
  <2>1. LineEnd = Len(TheLine) + 2 /\ Kept(Line) = <<>>
    BY <1>1, <1>4, <1>10, HeaderSecond
  <2>2. params' = params /\ phase' = IF Values("bound") = {} THEN "done" ELSE "split"
    BY <2>1 DEF ParseHeader
  <2>3. params' = LineParams(TheLine)'
    BY <1>2, <1>10, <2>2, ComposedSame
  <2>4. Header'
    BY <2>2, <2>3 DEF Header
  <2>5. Values("bound") = {} <=> ~Parted
    BY <1>1, <1>10, BoundaryNamed
  <2>6. ASSUME ~Parted PROVE Split'
    <3>1. phase' = "done" /\ ~Parted' /\ parts' = <<>>
      BY <1>2, <1>3, <2>2, <2>5, <2>6 DEF Parted
    <3> QED BY <3>1 DEF Split, Result
  <2>7. ASSUME Parted PROVE Split'
    <3>1. pos' = 13
      <4>1. Len(TheLine) = 10
        BY <1>1, <2>7, TheLineIs
      <4> QED BY <1>2, <2>1, <4>1
    <3>2. PICK d \in {doc, Canons(doc)} : text = Composed(d)
      BY <1>4, <2>7
    <3>3. Reads(d)
      BY <1>1, <2>7, <3>2, ReadsIs
    <3>4. Collected(0)
      BY <1>3 DEF Collected
    <3>5. Collected(0)'
      BY <1>2, <3>4, CollectedSame
    <3>6. Splitting(d)'
      <4>1. CASE origin = "BitMail"
        <5>1. At(d, 1)' = 12
          <6>1. At(d, 1) = 12
            BY <3>3, <4>1 DEF Reads, Laid, Ahead
          <6> QED BY <1>2, <6>1, AtSame
        <5>2. 0 % MaxParts = 0 /\ 1 - 1 = 0
          BY Counted
        <5>3. AtBoundary(d, 1)'
          BY <1>2, <1>3, <3>1, <3>5, <5>1, <5>2 DEF AtBoundary
        <5>4. 1 \in 1 .. Len(doc') + 1
          BY <1>1, <1>2, <2>7, DocIs, LenProperties
        <5> QED BY <5>3, <5>4 DEF Splitting
      <4>2. CASE origin # "BitMail"
        BY <1>2, <1>3, <3>1, <3>5, <4>2 DEF Splitting
      <4> QED BY <4>1, <4>2
    <3>7. d \in {doc, Canons(doc)}' /\ text' = Composed(d)'
      <4>1. Composed(d)' = Composed(d) /\ Canons(doc)' = Canons(doc)
        BY <1>2 DEF Composed, OtherText, Trailer, MixedText, Body, Part, FileText, FileName,
                    HeaderLine, Canons
      <4> QED BY <1>2, <3>2, <4>1
    <3>8. Parted' /\ phase' = "split"
      BY <1>2, <2>2, <2>5, <2>7 DEF Parted
    <3>9. \E e \in {doc, Canons(doc)}' : text' = Composed(e)' /\ Splitting(e)'
      BY <3>6, <3>7
    <3> QED BY <3>8, <3>9 DEF Split
  <2> QED BY <1>7, <1>8, <2>4, <2>6, <2>7 DEF Inv
<1> QED BY <1>3, <1>9, <1>10

LEMMA SplitLineInv == Inv /\ SplitLine => Inv'
<1> SUFFICES ASSUME Inv, SplitLine PROVE Inv'
  OBVIOUS
<1>1. Types /\ Transfer /\ Header /\ Split
  BY DEF Inv
<1>2. /\ phase = "split" /\ pos' = LineEnd + 1 /\ UNCHANGED <<origin, doc, suffix>>
      /\ UNCHANGED <<mail, offset, server, memory>> /\ UNCHANGED <<text, params>>
  BY DEF SplitLine, wire
<1>3. params = LineParams(TheLine) /\ Parted
  BY <1>1, <1>2 DEF Header, Split
<1>4. PICK d \in {doc, Canons(doc)} : text = Composed(d) /\ Splitting(d)
  BY <1>1, <1>2 DEF Split
<1>5. Reads(d)
  BY <1>1, <1>3, <1>4, ReadsIs
<1>6. After(d)
  BY <1>1, <1>3, <1>4, <1>5, FromSplitting
<1>7. phase' \in {"split", "done"}
  BY <1>6 DEF After
<1>8. pos' \in Nat \ {0}
  BY <1>1, <1>2, LineEndType DEF Types
<1>9. /\ part' \in 0 .. MaxParts - 1 /\ first' \in BOOLEAN /\ eol' \in BOOLEAN
      /\ bpart' \in Text \cup {Null}
  <2>1. part \in 0 .. MaxParts - 1 /\ first \in BOOLEAN /\ eol \in BOOLEAN
        /\ bpart \in Text \cup {Null}
    BY <1>1 DEF Types
  <2>2. (part + 1) % MaxParts \in 0 .. MaxParts - 1 /\ HasEol(Line) \in BOOLEAN
    BY <2>1, MimeAssumption DEF HasEol
  <2>3. ASSUME ~AtEnd PROVE Kept(Line) \in Text
    <3>1. pos \in 1 .. Len(text) /\ text \in Text
      BY <1>1, <2>3, OfText DEF Types, AtEnd
    <3> QED BY <3>1, LineIs, KeptIs
  <2>4. (IF eol THEN CRLF ELSE <<>>) \in Text
    BY Breaks, EmptyText
  <2>5. ASSUME NEW k \in Text, bpart # Null
        PROVE  bpart \o (IF eol THEN CRLF ELSE <<>>) \o k \in Text
    BY <2>1, <2>4, <2>5 DEF Text
  <2>6. ~first /\ part # 0 /\ ~AtEnd /\ BoundCheck(Line) = 0 => bpart # Null
    <3> SUFFICES ASSUME ~first, part # 0, ~AtEnd, BoundCheck(Line) = 0 PROVE bpart # Null
      OBVIOUS
    <3>1. CASE \E i \in 1 .. Len(doc) : InPart(d, i)
      BY <3>1 DEF InPart
    <3>2. CASE \E i \in 1 .. Len(doc) + 1 : AtBoundary(d, i)
      <4>1. PICK i \in 1 .. Len(doc) + 1 : AtBoundary(d, i)
        BY <3>2
      <4>2. i \in 1 .. Len(doc) \/ i = Len(doc) + 1
        BY <1>1, <1>3, DocIs, LenProperties
      <4>3. BoundCheck(Line) # 0
        <5>1. pos = At(d, i) + 1
          BY <4>1 DEF AtBoundary
        <5>2. CASE i \in 1 .. Len(doc)
          <6>1. BoundCheck(Line) = 1
            BY <1>1, <1>3, <1>5, <5>1, <5>2, BoundaryLine
          <6> QED BY <6>1
        <5>3. CASE i = Len(doc) + 1
          <6> DEFINE a == At(d, i)
          <6>1. a = At(d, Len(doc) + 1) /\ pos = a + 1
            BY <5>1, <5>3
          <6> HIDE DEF a
          <6>2. /\ origin \in {"BitMail", "other"} => BoundCheck(Line) = 2
                /\ origin \in {"cut", "bare"} => BoundCheck(Line) = 1
            BY <1>1, <1>3, <1>5, <6>1, ClosingLine
          <6>3. origin \in {"BitMail", "other", "cut", "bare"}
            BY <1>1 DEF Types
          <6> QED BY <6>2, <6>3
        <5> QED BY <4>2, <5>2, <5>3
      <4> QED BY <4>3
    <3>3. CASE origin = "cut" /\ pos = Len(text) + 1
      BY <1>1, <3>3, OfText DEF AtEnd, Types
    <3>4. CASE origin = "bare" /\ pos = At(d, Len(doc) + 1) + 5
      BY <1>1, <1>3, <1>5, <3>4, BareLine
    <3> QED BY <1>4, <3>1, <3>2, <3>3, <3>4 DEF Splitting
  <2>7. AtEnd \/ BoundCheck(Line) \in {1, 2}
          => UNCHANGED <<eol, bpart>> /\ part' \in {part, (part + 1) % MaxParts}
             /\ first' \in {first, TRUE}
    <3>1. CASE AtEnd
      BY <3>1 DEF SplitLine
    <3>2. CASE ~AtEnd /\ BoundCheck(Line) = 1
      <4>1. BoundCheck(Line) # 2 /\ BoundCheck(Line) # 0
        BY <3>2
      <4>2. eol' = eol /\ bpart' = bpart /\ part' = (part + 1) % MaxParts /\ first' = TRUE
        BY <3>2, <4>1 DEF SplitLine
      <4> QED BY <4>2
    <3>3. CASE ~AtEnd /\ BoundCheck(Line) = 2
      <4>1. BoundCheck(Line) # 1 /\ BoundCheck(Line) # 0
        BY <3>3
      <4>2. eol' = eol /\ bpart' = bpart /\ part' = part /\ first' = first
        BY <3>3, <4>1 DEF SplitLine
      <4> QED BY <4>2
    <3> QED BY <3>1, <3>2, <3>3
  <2>8. ~AtEnd /\ BoundCheck(Line) \notin {1, 2} /\ part = 0
          => UNCHANGED <<part, first, eol, bpart>>
    BY DEF SplitLine
  <2>9. ~AtEnd /\ BoundCheck(Line) \notin {1, 2} /\ part # 0
          => /\ first' = FALSE /\ eol' = HasEol(Line) /\ part' = part
             /\ BoundCheck(Line) = 0
             /\ bpart' = IF first THEN Kept(Line)
                         ELSE bpart \o (IF eol THEN CRLF ELSE <<>>) \o Kept(Line)
    BY DEF SplitLine
  <2>10. CASE AtEnd \/ BoundCheck(Line) \in {1, 2}
    BY <2>1, <2>2, <2>7, <2>10
  <2>11. CASE ~AtEnd /\ BoundCheck(Line) \notin {1, 2} /\ part = 0
    BY <2>1, <2>8, <2>11
  <2>12. CASE ~AtEnd /\ BoundCheck(Line) \notin {1, 2} /\ part # 0
    BY <2>1, <2>2, <2>3, <2>5, <2>6, <2>9, <2>12
  <2> QED BY <2>10, <2>11, <2>12
<1>10. parts' \in Seq(Text \cup {Null})
  <2>1. parts \in Seq(Text \cup {Null}) /\ bpart \in Text \cup {Null}
    BY <1>1 DEF Types
  <2>2. Append(parts, bpart) \in Seq(Text \cup {Null})
    BY <2>1
  <2>3. CASE phase' = "split"
    <3>1. parts' = parts \/ parts' = Append(parts, bpart)
      BY <2>3 DEF SplitLine
    <3> QED BY <2>1, <2>2, <3>1
  <2>4. CASE phase' = "done"
    <3>1. parts' = Result
      BY <1>6, <2>4 DEF After
    <3>2. Kept1(Len(doc)) \in Seq(Text \cup {Null})
      <4>1. Len(doc) \in 0 .. Len(doc)
        BY <1>1, <1>3, DocIs, LenProperties
      <4>2. Kept1(Len(doc)) \in Seq(Text)
        BY <1>1, <1>3, <4>1, KeptStep
      <4> QED BY <4>2
    <3>3. <<>> \in Seq(Text \cup {Null}) /\ <<Null>> \in Seq(Text \cup {Null})
      OBVIOUS
    <3> QED BY <3>1, <3>2, <3>3 DEF Result
  <2> QED BY <1>7, <2>3, <2>4
<1>11. Types'
  BY <1>1, <1>2, <1>7, <1>8, <1>9, <1>10 DEF Types
<1>12. Transfer'
  <2>1. /\ mail = Composed(doc) /\ server = mail /\ text \in {mail, Canon(mail)}
        /\ Len(memory) <= Len(server) /\ memory = SubSeq(server, 1, Len(memory))
    BY <1>1, <1>2 DEF Transfer
  <2>2. mail' = Composed(doc)' /\ Canon(mail') = Canon(mail) /\ server' = mail'
        /\ text' \in {mail', Canon(mail')}
    BY <1>2, <2>1, ComposedSame
  <2>3. Len(memory') <= Len(server') /\ memory' = SubSeq(server', 1, Len(memory'))
    BY <1>2, <2>1
  <2> QED BY <1>7, <2>2, <2>3 DEF Transfer
<1>13. Header'
  <2>1. params' = LineParams(TheLine)'
    BY <1>2, <1>3, ComposedSame
  <2> QED BY <1>7, <2>1 DEF Header
<1>14. Split'
  <2>1. d \in {doc, Canons(doc)}' /\ text' = Composed(d)'
    <3>1. Composed(d)' = Composed(d) /\ Canons(doc)' = Canons(doc)
      BY <1>2 DEF Composed, OtherText, Trailer, MixedText, Body, Part, FileText, FileName,
                  HeaderLine, Canons
    <3> QED BY <1>2, <1>4, <3>1
  <2>2. CASE phase' = "split" /\ Splitting(d)'
    <3>1. Parted'
      BY <1>2, <1>3 DEF Parted
    <3> QED BY <1>2, <2>1, <2>2, <3>1 DEF Split
  <2>3. CASE phase' = "done" /\ parts' = Result
    <3>1. Result' = Result
      BY <1>2 DEF Result, Parted, Kept1, Keeps, First
    <3> QED BY <2>3, <3>1 DEF Split
  <2> QED BY <1>6, <2>2, <2>3 DEF After
<1> QED BY <1>11, <1>12, <1>13, <1>14 DEF Inv

LEMMA StutterInv == Inv /\ UNCHANGED vars => Inv'
<1> SUFFICES ASSUME Inv, UNCHANGED vars PROVE Inv'
  OBVIOUS
<1>1. /\ UNCHANGED <<origin, phase, doc, suffix>>
      /\ UNCHANGED <<mail, offset, server, memory>>
      /\ UNCHANGED <<text, pos, params, part, first, eol, bpart, parts>>
  BY DEF vars, wire, parser
<1>2. Types /\ Transfer /\ Header /\ Split
  BY DEF Inv
<1>3. Types'
  BY <1>1, <1>2 DEF Types
<1>4. Composed(doc)' = Composed(doc) /\ TheLine' = TheLine
      /\ LineParams(TheLine)' = LineParams(TheLine) /\ Canons(doc)' = Canons(doc)
      /\ Canon(mail)' = Canon(mail)
  BY <1>1, ComposedSame DEF Canons
<1>5. Transfer'
  <2>1. IF phase = "compose" THEN mail = <<>> /\ origin = "BitMail"
        ELSE mail = Composed(doc)
    BY <1>2 DEF Transfer
  <2>2. phase \in {"compose", "up"} =>
          memory = <<>> /\ offset <= Len(mail) /\ server = SubSeq(mail, 1, offset)
    BY <1>2 DEF Transfer
  <2>3. /\ phase \notin {"compose", "up"} => server = mail
        /\ Len(memory) <= Len(server) /\ memory = SubSeq(server, 1, Len(memory))
    BY <1>2 DEF Transfer
  <2>4. IF phase \in {"compose", "up", "down"} THEN Fresh ELSE text \in {mail, Canon(mail)}
    BY <1>2 DEF Transfer
  <2>5. Fresh' = Fresh
    BY <1>1 DEF Fresh
  <2> QED BY <1>1, <1>4, <2>1, <2>2, <2>3, <2>4, <2>5 DEF Transfer
<1>6. Header'
  BY <1>1, <1>2, <1>4 DEF Header
<1>7. Split'
  <2>1. CASE phase = "split"
    <3>1. PICK d \in {doc, Canons(doc)} : text = Composed(d) /\ Splitting(d)
      BY <1>2, <2>1 DEF Split
    <3>2. Composed(d)' = Composed(d)
      BY <1>1 DEF Composed, OtherText, Trailer, MixedText, Body, Part, FileText, FileName, HeaderLine
    <3>3. Splitting(d)'
      <4>1. \A i : /\ At(d, i)' = At(d, i) /\ Kept1(i)' = Kept1(i)
                   /\ Collected(i)' = Collected(i)
        BY <1>1, AtSame, KeptSame, CollectedSame
      <4>2. \A i : AtBoundary(d, i)' = AtBoundary(d, i)
        BY <1>1, <4>1 DEF AtBoundary
      <4>3. \A i : InPart(d, i)' = InPart(d, i)
        BY <1>1, <4>1 DEF InPart
      <4> QED BY <1>1, <3>1, <4>1, <4>2, <4>3 DEF Splitting
    <3>4. \E e \in {doc, Canons(doc)}' : text' = Composed(e)' /\ Splitting(e)'
      BY <1>1, <1>4, <3>1, <3>2, <3>3
    <3>5. Parted'
      BY <1>1, <1>2, <2>1 DEF Split, Parted
    <3> QED BY <1>1, <2>1, <3>4, <3>5 DEF Split
  <2>2. CASE phase = "done"
    <3>1. parts = Result
      BY <1>2, <2>2 DEF Split
    <3>2. Result' = Result
      BY <1>1 DEF Result, Parted, Kept1, Keeps, First
    <3> QED BY <1>1, <2>2, <3>1, <3>2 DEF Split
  <2>3. CASE phase \notin {"split", "done"}
    BY <1>1, <2>3 DEF Split
  <2> QED BY <2>1, <2>2, <2>3
<1> QED BY <1>3, <1>5, <1>6, <1>7 DEF Inv

(* While the mail is being split it is made of parts.                       *)
LEMMA PartsSoFar ==
  ASSUME Types, Split, phase = "split"
  PROVE  parts \in Seq(Text)
<1>1. Parted /\ \E d \in {doc, Canons(doc)} : Splitting(d)
  BY DEF Split
<1>2. Len(doc) \in Nat /\ \A i \in 0 .. Len(doc) : Kept1(i) \in Seq(Text)
  BY <1>1, DocIs, LenProperties, KeptStep
<1>3. ASSUME NEW i \in 0 .. Len(doc), Collected(i) PROVE parts \in Seq(Text)
  <2>1. CASE i = 0
    BY <1>3, <2>1, EmptySeq DEF Collected
  <2>2. CASE i # 0
    <3> DEFINE k == Append(parts, bpart)
    <3>1. k \in Seq(Text)
      BY <1>2, <1>3, <2>2 DEF Collected
    <3>2. /\ parts \in Seq(Text \cup {Null}) /\ Len(parts) \in Nat
          /\ Len(k) = Len(parts) + 1 /\ \A j \in 1 .. Len(parts) : parts[j] = k[j]
      BY DEF Types
    <3> HIDE DEF k
    <3>3. \A j \in 1 .. Len(parts) : parts[j] \in Text
      BY <3>1, <3>2
    <3> QED BY <3>2, <3>3
  <2> QED BY <2>1, <2>2
<1>4. ASSUME NEW d, NEW i \in 1 .. Len(doc) + 1, AtBoundary(d, i)
      PROVE  parts \in Seq(Text)
  BY <1>2, <1>3, <1>4 DEF AtBoundary
<1>5. ASSUME NEW d, NEW i \in 1 .. Len(doc), InPart(d, i) PROVE parts \in Seq(Text)
  <2>1. i - 1 \in 0 .. Len(doc)
    BY <1>2
  <2> QED BY <1>2, <1>3, <1>5, <2>1 DEF InPart
<1>6. 0 \in 0 .. Len(doc) /\ Len(doc) \in 0 .. Len(doc)
  BY <1>2
<1> QED BY <1>1, <1>3, <1>4, <1>5, <1>6 DEF Splitting

LEMMA NextInv == Inv /\ [Next]_vars => Inv'
<1> SUFFICES ASSUME Inv, [Next]_vars PROVE Inv'
  OBVIOUS
<1>1. CASE Compose
  BY <1>1, ComposeInv
<1>2. CASE Open
  BY <1>2, OpenInv
<1>3. CASE ParseHeader
  BY <1>3, ParseHeaderInv
<1>4. CASE SplitLine
  BY <1>4, SplitLineInv
<1>5. CASE Done \/ UNCHANGED vars
  BY <1>5, StutterInv DEF Done
<1>6. CASE \E n \in 1 .. MaxChunk : OnTxfer(n) \/ OnRxfer(n)
  BY <1>6, OnTxferInv, OnRxferInv
<1> QED BY <1>1, <1>2, <1>3, <1>4, <1>5, <1>6 DEF Next
-----------------------------------------------------------------------------
(* The theorems.                                                            *)

(* However libcurl cuts the mail and BIO_gets its lines, the receiver is,   *)
(* in the text composed, where its position and the parts it has say.       *)
THEOREM Invariant == Spec => []Inv
<1> QED BY InitInv, NextInv, PTL DEF Spec

(* The NULL pointer is pushed for a mail of another client in which no part *)
(* has a line, and for no other: its other parts keep it from every mail    *)
(* that has a line in one, and what BitMail composes always has.            *)
THEOREM NullOnlyForEmptyMail == Spec => []NullOnlyWithoutParts
<1>1. Inv => NullOnlyWithoutParts
  <2> SUFFICES ASSUME Inv, Null \in Range(parts)
               PROVE  origin \in {"other", "bare"} /\ doc = <<>>
    BY DEF NullOnlyWithoutParts
  <2>1. ASSUME parts \in Seq(Text) PROVE FALSE
    <3>1. \A i \in DOMAIN parts : parts[i] \in Text
      BY <2>1
    <3> QED BY <3>1, MimeAssumption DEF Range
  <2>2. <<>> \in Seq(Text) /\ (phase = "done" /\ Parted => Kept1(Len(doc)) \in Seq(Text))
    <3>1. Parted => Len(doc) \in 0 .. Len(doc)
      BY DocIs, LenProperties DEF Inv
    <3> QED BY <3>1, KeptStep, EmptySeq DEF Inv
  <2>3. phase \in {"compose", "up", "down", "header"} => parts = <<>>
    BY DEF Inv, Transfer, Header, Fresh
  <2>4. phase = "split" => parts \in Seq(Text)
    BY PartsSoFar DEF Inv
  <2>5. phase = "done" /\ parts = Result
    BY <2>1, <2>2, <2>3, <2>4 DEF Inv, Types, Split
  <2> QED BY <2>1, <2>2, <2>5 DEF Result, Parted, Inv, Types
<1> QED BY <1>1, Invariant, PTL

(* The receiver has the parts sent, in order and in canonical form.         *)
THEOREM PartsAreKept == Spec => []PartsKept
<1>1. Inv => PartsKept
  <2> SUFFICES ASSUME Inv, phase = "done", doc # <<>>
               PROVE  parts = IF origin = "cut" THEN <<>> ELSE FlattenSeq(Keeps)
    BY DEF PartsKept, Keeps
  <2>1. parts = Result /\ Types /\ Parted
    BY DEF Inv, Split, Parted
  <2>2. parts = IF origin = "cut" THEN <<>> ELSE Kept1(Len(doc))
    BY <2>1 DEF Result
  <2>3. Kept1(Len(doc)) = FlattenSeq(Keeps)
    BY <2>1, KeptStep
  <2> QED BY <2>2, <2>3
<1> QED BY <1>1, Invariant, PTL

(* The receiver saves a file under the name it was sent by, or under the    *)
(* beginning of it.                                                         *)
THEOREM NameIsKept == Spec => []NameKept
<1>1. Inv => NameKept
  <2> SUFFICES ASSUME Inv, phase = "done", doc = <<>>, origin = "BitMail"
               PROVE  /\ \A v \in Values("filename") : IsPrefix(v, FileName(suffix))
                      /\ Plain(suffix) => Values("filename") = {FileName(suffix)}
    BY DEF NameKept, Plain
  <2> DEFINE f == FileName(suffix)
  <2>1. suffix \in Endings /\ ~Parted
    BY MimeAssumption DEF Inv, Types, Parted
  <2>2. params = LineParams(NameLine("filename", f))
    BY <2>1 DEF Inv, Header, TheLine
  <2>3. /\ \A q \in params : q[1] = <<"filename">> => IsPrefix(q[2], f)
        /\ Plain(suffix) => params = {<<<<"filename">>, f>>}
    BY <2>1, <2>2, FileNamed
  <2> HIDE DEF f
  <2>4. \A v \in Values("filename") : IsPrefix(v, f)
    BY <2>3 DEF Values
  <2>5. ASSUME Plain(suffix) PROVE Values("filename") = {f}
    <3> DEFINE only == <<<<"filename">>, f>>
    <3>1. only[1] = <<"filename">> /\ only[2] = f /\ params = {only}
      BY <2>3, <2>5
    <3> HIDE DEF only
    <3>2. {q \in params : q[1] = <<"filename">>} = {only}
      BY <3>1
    <3>3. {q[2] : q \in {only}} = {f}
      BY <3>1
    <3> QED BY <3>2, <3>3 DEF Values
  <2> QED BY <2>4, <2>5 DEF f
<1> QED BY <1>1, Invariant, PTL

(* A step goes further in the mail or ends its phase.                       *)
Advances ==
  phase' # phase \/ offset' + Len(memory') + pos' > offset + Len(memory) + pos

LEMMA Further ==
  ASSUME Types, NEW o \in Nat, NEW m \in Nat, NEW p \in Nat,
         offset' = o, Len(memory') = m, pos' = p,
         o >= offset, m >= Len(memory), p >= pos,
         o > offset \/ m > Len(memory) \/ p > pos
  PROVE  Advances
<1> DEFINE k == Len(memory)
<1>1. k \in Nat /\ offset \in Nat /\ pos \in Nat
  BY OfText DEF Types
<1>2. m >= k /\ (o > offset \/ m > k \/ p > pos) /\ Len(memory') = m
  OBVIOUS
<1> HIDE DEF k
<1>3. o + m + p > offset + k + pos
  BY <1>1, <1>2
<1> QED BY <1>2, <1>3 DEF Advances, k

THEOREM StepsAdvance == Spec => EveryStepAdvances
<1>1. ASSUME Inv, [Next]_vars PROVE [Advances]_vars
  <2> SUFFICES ASSUME Next, ~(UNCHANGED vars), phase' = phase PROVE Advances
    BY <1>1 DEF Advances
  <2>1. Types /\ Transfer
    BY <1>1 DEF Inv
  <2>2. /\ offset \in Nat /\ pos \in Nat \ {0} /\ Len(memory) \in Nat /\ Len(mail) \in Nat
        /\ text \in Text /\ server \in Text /\ Len(text) \in Nat
    BY <2>1, OfText DEF Types
  <2>3. ASSUME phase \in {"header", "split"}, ~AtEnd, pos' = LineEnd + 1,
               offset' = offset, memory' = memory
        PROVE  Advances
    <3>1. pos \in 1 .. Len(text)
      BY <2>2, <2>3 DEF AtEnd
    <3>2. LineEnd \in pos .. Len(text)
      BY <2>2, <3>1, LineEndIs
    <3>3. pos' \in Nat /\ pos' > pos
      BY <2>2, <2>3, <3>2
    <3> QED BY <2>1, <2>2, <2>3, <3>3, Further
  <2>4. CASE Compose \/ Open
    BY <2>4 DEF Compose, Open
  <2>5. CASE ParseHeader
    <3>1. phase = "header" /\ pos' = LineEnd + 1 /\ offset' = offset /\ memory' = memory
      BY <2>5 DEF ParseHeader, wire
    <3>2. ~AtEnd
      BY <2>5, <3>1 DEF ParseHeader
    <3> QED BY <2>3, <3>1, <3>2
  <2>6. CASE SplitLine
    <3>1. phase = "split" /\ pos' = LineEnd + 1 /\ offset' = offset /\ memory' = memory
      BY <2>6 DEF SplitLine, wire
    <3>2. ~AtEnd
      BY <2>6, <3>1 DEF SplitLine
    <3> QED BY <2>3, <3>1, <3>2
  <2>7. ASSUME NEW n \in 1 .. MaxChunk, OnTxfer(n) PROVE Advances
    <3> DEFINE xfer == Min({n, Len(mail) - offset})
    <3>1. /\ phase = "up" /\ ~(offset >= Len(mail)) /\ offset' = offset + xfer
          /\ memory' = memory /\ pos' = pos
      BY <2>7 DEF OnTxfer, parser
    <3>2. n \in Nat /\ n >= 1 /\ Len(mail) - offset \in Nat /\ Len(mail) - offset >= 1
      BY <2>2, <3>1, MimeAssumption
    <3>3. {n, Len(mail) - offset} \in SUBSET Nat
      BY <3>2
    <3>4. xfer \in {n, Len(mail) - offset}
      BY <3>3, MinIs
    <3> HIDE DEF xfer
    <3>5. offset' \in Nat /\ offset' > offset
      BY <2>2, <3>1, <3>2, <3>4
    <3> QED BY <2>1, <2>2, <3>1, <3>5, Further
  <2>8. ASSUME NEW n \in 1 .. MaxChunk, OnRxfer(n) PROVE Advances
    <3> DEFINE m == Len(memory)
    <3>1. /\ phase = "down" /\ m + n <= Len(server) /\ offset' = offset /\ pos' = pos
          /\ memory' = memory \o SubSeq(server, m + 1, m + n)
      BY <2>8 DEF OnRxfer, parser
    <3>2. n \in Nat /\ n >= 1 /\ m \in Nat /\ Len(server) \in Nat /\ memory \in Text
      BY <2>1, <2>2, OfText, MimeAssumption DEF Types
    <3> DEFINE t == SubSeq(server, m + 1, m + n)
    <3>3. t \in Text /\ Len(t) = n
      <4> HIDE DEF m
      <4>1. m + 1 \in Nat \ {0} /\ m + n \in Nat /\ m + 1 <= m + n
            /\ (m + n) - (m + 1) + 1 = n
        BY <3>2
      <4> QED BY <2>2, <3>1, <4>1, Piece
    <3> HIDE DEF t
    <3>4. Joins(memory \o t, memory, t)
      BY <3>2, <3>3, Joining
    <3>5. Len(memory') = m + n
      BY <3>1, <3>3, <3>4 DEF Joins, t
    <3> DEFINE k == m + n
    <3>6. k \in Nat /\ k >= m /\ k > m
      <4> HIDE DEF m
      <4> QED BY <3>2
    <3>7. Len(memory') = k /\ offset' = offset /\ pos' = pos
      BY <3>1, <3>5
    <3>8. offset \in Nat /\ pos \in Nat /\ offset >= offset /\ pos >= pos
      BY <2>2
    <3> HIDE DEF k
    <3> QED BY <2>1, <3>6, <3>7, <3>8, Further
  <2>9. CASE Done
    BY <2>9 DEF Done
  <2> QED BY <2>4, <2>5, <2>6, <2>7, <2>8, <2>9 DEF Next
<1>2. [Advances]_vars <=>
        [phase' # phase
           \/ offset' + Len(memory') + pos' > offset + Len(memory) + pos]_vars
  BY DEF Advances
<1> QED BY <1>1, <1>2, Invariant, PTL DEF Spec, EveryStepAdvances
=============================================================================
