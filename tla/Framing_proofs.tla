--------------------------- MODULE Framing_proofs ---------------------------
(***************************************************************************)
(* What holds of packets, frames and the assembler for every octet that    *)
(* may arrive: the two checks of UTF-8 accept the same texts, encode and   *)
(* decode are inverses, the CLI and the Tab5 accept the same octets, and   *)
(* an assembler gives back what was sent, whole, or nothing.               *)
(*                                                                         *)
(* A recursive function f[i \in S] == ... is CHOOSE f : f = [i \in S |->   *)
(* ...].  That there is such a function is shown by building one, and that *)
(* two of them agree by counting down from the end of the text, so that    *)
(* nothing here is an induction over an operator.                          *)
(***************************************************************************)
EXTENDS Framing, FiniteSetTheorems, SequenceTheorems, TLAPS

-----------------------------------------------------------------------------
(* Predicates that look ahead in a text. *)

(* What holds at N + 1, and at i if at i + 1, holds at 1: had it an exception, *)
(* the next above would be one too, and so there would be one fewer.       *)
LEMMA Descent ==
  ASSUME NEW N \in Nat, NEW X, N + 1 \in X, \A i \in 1 .. N : i + 1 \in X => i \in X
  PROVE  1 \in X
<1> DEFINE C == (1 .. N + 1) \ X
<1> SUFFICES ASSUME 1 \in C PROVE FALSE
  OBVIOUS
<1>1. IsFiniteSet(C) /\ IsFiniteSet(C \ {1}) /\ Cardinality(C \ {1}) < Cardinality(C)
  <2>1. IsFiniteSet(1 .. N + 1)
    BY FS_Interval
  <2>2. IsFiniteSet(C)
    BY <2>1, FS_Subset
  <2>3. Cardinality(C) \in Nat /\ Cardinality(C \ {1}) = Cardinality(C) - 1
    BY <2>2, FS_RemoveElement, FS_CardinalityType
  <2> QED
    BY <2>2, <2>3, FS_RemoveElement
<1> DEFINE f == [i \in C |-> i + 1]
<1>2. f \in [C -> C \ {1}]
  OBVIOUS
<1>3. \A i \in C : f[i] = i + 1 /\ i \in Nat
  OBVIOUS
<1> HIDE DEF C, f
<1>4. \E i, j \in C : i # j /\ f[i] = f[j]
  BY <1>1, <1>2, FS_PigeonHole
<1> QED
  BY <1>3, <1>4

(* A recursive predicate on 1 .. N + 1 that looks ahead along R.           *)
Follows(f, R, N) ==
  \A i \in 1 .. N + 1 :
    f[i] <=> (i = N + 1 \/ \E j \in 1 .. N + 1 : <<i, j>> \in R /\ f[j])

LEMMA SomeFollows ==
  ASSUME NEW N \in Nat, NEW R \in SUBSET ((1 .. N + 1) \X (1 .. N + 1))
  PROVE  \E f \in [1 .. N + 1 -> BOOLEAN] : Follows(f, R, N)
<1> DEFINE I == 1 .. N + 1
           Closed(X) == N + 1 \in X /\ \A p \in R : p[2] \in X => p[1] \in X
           L == {i \in I : \A X \in SUBSET I : Closed(X) => i \in X}
<1>1. Closed(L)
  OBVIOUS
<1>2. ASSUME NEW i \in I, i # N + 1, i \in L PROVE \E j \in L : <<i, j>> \in R
  <2>1. SUFFICES ASSUME \A j \in L : <<i, j>> \notin R PROVE FALSE
    OBVIOUS
  <2>2. Closed(L \ {i})
    BY <1>1, <1>2, <2>1
  <2> QED
    BY <1>2, <2>2
<1> DEFINE f == [k \in I |-> k \in L]
<1>3. f \in [I -> BOOLEAN]
  OBVIOUS
<1>a. \A i \in I : f[i] <=> i \in L
  OBVIOUS
<1>4. ASSUME NEW i \in I
      PROVE  (i \in L) <=> (i = N + 1 \/ \E j \in I : <<i, j>> \in R /\ j \in L)
  BY <1>1, <1>2
<1> HIDE DEF L, I, f
<1>5. \A i \in I : f[i] <=> (i = N + 1 \/ \E j \in I : <<i, j>> \in R /\ f[j])
  BY <1>a, <1>4, Zenon
<1> QED
  BY <1>3, <1>5 DEF I, Follows

LEMMA OneFollows ==
  ASSUME NEW N \in Nat, NEW R, \A i, j \in 1 .. N + 1 : <<i, j>> \in R => i < j,
         NEW f, NEW g, Follows(f, R, N), Follows(g, R, N)
  PROVE  f[1] <=> g[1]
<1> DEFINE X == {i \in 1 .. N + 1 : \A j \in i .. N + 1 : f[j] <=> g[j]}
<1>1. N + 1 \in X
  BY DEF Follows
<1>2. ASSUME NEW i \in 1 .. N, i + 1 \in X PROVE i \in X
  <2>1. \A j \in i + 1 .. N + 1 : f[j] <=> g[j]
    BY <1>2
  <2>2. \A j \in 1 .. N + 1 : <<i, j>> \in R => j \in i + 1 .. N + 1
    OBVIOUS
  <2>3. i \in 1 .. N + 1 /\ i # N + 1
    OBVIOUS
  <2>4. f[i] <=> g[i]
    BY <2>1, <2>2, <2>3, Zenon DEF Follows
  <2> QED
    BY <2>1, <2>4
<1>3. 1 \in X
  <2> HIDE DEF X
  <2> QED
    BY <1>1, <1>2, Descent
<1> QED
  BY <1>3

(* The characters of a text, from one octet to the next after it.          *)
Characters(text) ==
  {p \in (1 .. Len(text) + 1) \X (1 .. Len(text) + 1) :
     \E n \in 1 .. 4 : /\ p[2] = p[1] + n
                       /\ IsCharacter(SubSeq(text, p[1], p[1] + n - 1))}

LEMMA Utf8Follows ==
  ASSUME NEW text \in Seq(Octet)
  PROVE  \E f : Follows(f, Characters(text), Len(text)) /\ (Utf8(text) <=> f[1])
<1> DEFINE N == Len(text)
           R == Characters(text)
           Body(f, i) == \/ i = N + 1
                         \/ \E n \in 1 .. 4 : /\ i + n - 1 <= N
                                              /\ IsCharacter(SubSeq(text, i, i + n - 1))
                                              /\ f[i + n]
           from == CHOOSE f : f = [i \in 1 .. N + 1 |-> Body(f, i)]
<1>1. Utf8(text) = from[1]
  BY DEF Utf8
<1>2. N \in Nat
  OBVIOUS
<1>3. R \in SUBSET ((1 .. N + 1) \X (1 .. N + 1))
  BY DEF Characters
<1>4. ASSUME NEW i \in 1 .. N + 1, NEW f
      PROVE  Body(f, i) <=> (i = N + 1 \/ \E j \in 1 .. N + 1 : <<i, j>> \in R /\ f[j])
  <2>1. \A n \in 1 .. 4 : i + n \in Nat /\ (i + n - 1 <= N <=> i + n \in 1 .. N + 1)
    BY <1>2
  <2>2. \A j \in 1 .. N + 1 :
          <<i, j>> \in R <=> \E n \in 1 .. 4 : j = i + n /\ IsCharacter(SubSeq(text, i, i + n - 1))
    BY DEF Characters
  <2> HIDE DEF N, R
  <2> QED
    BY <2>1, <2>2, Zenon
<1> HIDE DEF N, R, Body
<1>5. PICK e \in [1 .. N + 1 -> BOOLEAN] : Follows(e, R, N)
  BY <1>2, <1>3, SomeFollows
<1>6. \A i \in 1 .. N + 1 : e[i] <=> Body(e, i)
  BY <1>4, <1>5 DEF Follows
<1>7. e = [i \in 1 .. N + 1 |-> Body(e, i)]
  <2>1. \A i \in 1 .. N + 1 : Body(e, i) \in BOOLEAN
    BY DEF Body
  <2>2. \A i \in 1 .. N + 1 : e[i] = Body(e, i)
    BY <1>6, <2>1
  <2>3. e = [i \in 1 .. N + 1 |-> e[i]]
    BY Zenon
  <2> QED
    BY <2>2, <2>3, Zenon
<1>8. from = [i \in 1 .. N + 1 |-> Body(from, i)]
  BY <1>7
<1> HIDE DEF from
<1>9. \A i \in 1 .. N + 1 : from[i] <=> Body(from, i)
  BY <1>8
<1>10. Follows(from, R, N)
  BY <1>4, <1>9 DEF Follows
<1> QED
  BY <1>1, <1>10 DEF N, R

-----------------------------------------------------------------------------
(* UTF-8: the standard library and valid_utf8. *)

IsText(text) == text \in Seq(Octet)

(* What the second octet may be. *)
LEMMA SecondOctets ==
  /\ \A b, d \in Octet :
       b \in 224 .. 239 =>
         (d \in Second3[b] <=> d \in Tails /\ (b = 224 => d >= 160) /\ (b = 237 => d <= 159))
  /\ \A b, d \in Octet :
       b \in 240 .. 244 =>
         (d \in Second4[b] <=> d \in Tails /\ (b = 240 => d >= 144) /\ (b = 244 => d <= 143))
<1>1. Second3[224] = 160 .. 191
  BY DEF Second3
<1>2. Second3[237] = 128 .. 159
  BY DEF Second3
<1>3. \A b \in 224 .. 239 : b # 224 /\ b # 237 => Second3[b] = Tails
  BY DEF Second3
<1>4. Second4[240] = 144 .. 191
  BY DEF Second4
<1>5. Second4[244] = 128 .. 143
  BY DEF Second4
<1>6. \A b \in 240 .. 244 : b # 240 /\ b # 244 => Second4[b] = Tails
  BY DEF Second4
<1>7. ASSUME NEW b \in Octet, NEW d \in Octet, b \in 224 .. 239
      PROVE  d \in Second3[b] <=> d \in Tails /\ (b = 224 => d >= 160) /\ (b = 237 => d <= 159)
  <2>1. CASE b = 224
    BY <1>1, <2>1 DEF Tails, Octet
  <2>2. CASE b = 237
    BY <1>2, <2>2 DEF Tails, Octet
  <2> QED
    BY <1>3, <1>7, <2>1, <2>2
<1>8. ASSUME NEW b \in Octet, NEW d \in Octet, b \in 240 .. 244
      PROVE  d \in Second4[b] <=> d \in Tails /\ (b = 240 => d >= 144) /\ (b = 244 => d <= 143)
  <2>1. CASE b = 240
    BY <1>4, <2>1 DEF Tails, Octet
  <2>2. CASE b = 244
    BY <1>5, <2>2 DEF Tails, Octet
  <2> QED
    BY <1>6, <1>8, <2>1, <2>2
<1> QED
  BY <1>7, <1>8

(* Characters, octet by octet. *)
One(b) == b <= 127
Two(b, d) == b \in 194 .. 223 /\ d \in 128 .. 191
Three(b, d, e) ==
  /\ b \in 224 .. 239 /\ d \in 128 .. 191 /\ e \in 128 .. 191
  /\ b = 224 => d >= 160
  /\ b = 237 => d <= 159
Four(b, d, e, g) ==
  /\ b \in 240 .. 244 /\ d \in 128 .. 191 /\ e \in 128 .. 191 /\ g \in 128 .. 191
  /\ b = 240 => d >= 144
  /\ b = 244 => d <= 143

LEMMA CharacterOctets ==
  ASSUME NEW c, IsText(c), Len(c) \in 1 .. 4
  PROVE  /\ Len(c) = 1 => (IsCharacter(c) <=> One(c[1]))
         /\ Len(c) = 2 => (IsCharacter(c) <=> Two(c[1], c[2]))
         /\ Len(c) = 3 => (IsCharacter(c) <=> Three(c[1], c[2], c[3]))
         /\ Len(c) = 4 => (IsCharacter(c) <=> Four(c[1], c[2], c[3], c[4]))
<1>1. \A k \in 1 .. Len(c) : c[k] \in Octet
  BY DEF IsText
<1>2. CASE Len(c) = 1
  BY <1>1, <1>2 DEF IsCharacter, Octet, One
<1>3. CASE Len(c) = 2
  BY <1>3 DEF IsCharacter, Lead2, Tails, Two
<1>4. CASE Len(c) = 3
  <2>1. IsCharacter(c) <=> c[1] \in 224 .. 239 /\ c[2] \in Second3[c[1]] /\ c[3] \in Tails
    BY <1>4 DEF IsCharacter, Second3
  <2> QED
    BY <1>1, <1>4, <2>1, SecondOctets DEF Tails, Three
<1>5. CASE Len(c) = 4
  <2>1. IsCharacter(c) <=>
          /\ c[1] \in 240 .. 244 /\ c[2] \in Second4[c[1]] /\ c[3] \in Tails /\ c[4] \in Tails
    BY <1>5 DEF IsCharacter, Second4
  <2> QED
    BY <1>1, <1>5, <2>1, SecondOctets DEF Tails, Four
<1> QED
  BY <1>2, <1>3, <1>4, <1>5

LEMMA CodePoints ==
  ASSUME NEW text, IsText(text), NEW i \in 1 .. Len(text), NEW n \in 1 .. 3,
         i + n <= Len(text)
  PROVE  LET t(j) == text[i + j] % 64
             lead == text[i] % (IF n = 1 THEN 32 ELSE IF n = 2 THEN 16 ELSE 8)
         IN  CodePoint(text, i, n) =
               IF n = 1 THEN 64 * lead + t(1)
               ELSE IF n = 2 THEN 64 * (64 * lead + t(1)) + t(2)
               ELSE 64 * (64 * (64 * lead + t(1)) + t(2)) + t(3)
<1> DEFINE lead == text[i] % (IF n = 1 THEN 32 ELSE IF n = 2 THEN 16 ELSE 8)
           t(j) == text[i + j] % 64
           Body(u, j) ==
             IF j = 0 THEN text[i] % (2 ^ (6 - n)) ELSE 64 * u[j - 1] + (text[i + j] % 64)
           upTo == CHOOSE u : u = [j \in 0 .. n |-> Body(u, j)]
           e == [j \in 0 .. n |->
                   IF j = 0 THEN lead
                   ELSE IF j = 1 THEN 64 * lead + t(1)
                   ELSE IF j = 2 THEN 64 * (64 * lead + t(1)) + t(2)
                   ELSE 64 * (64 * (64 * lead + t(1)) + t(2)) + t(3)]
<1>1. CodePoint(text, i, n) = upTo[n]
  BY DEF CodePoint
<1>2. text[i] % (2 ^ (6 - n)) = lead
  <2>1. 2 ^ 5 = 32 /\ 2 ^ 4 = 16 /\ 2 ^ 3 = 8
    OBVIOUS
  <2>2. n = 1 \/ n = 2 \/ n = 3
    OBVIOUS
  <2>3. CASE n = 1
    BY <2>1, <2>3
  <2>4. CASE n = 2
    BY <2>1, <2>4
  <2>5. CASE n = 3
    BY <2>1, <2>5
  <2> QED
    BY <2>2, <2>3, <2>4, <2>5
<1>3. \A j \in 0 .. n : e[j] = Body(e, j)
  <2> HIDE DEF t, lead
  <2> QED
    BY <1>2 DEF t
<1>4. e = [j \in 0 .. n |-> Body(e, j)]
  <2>1. e = [j \in 0 .. n |-> e[j]]
    OBVIOUS
  <2> HIDE DEF e, Body
  <2> QED
    BY <1>3, <2>1, Zenon
<1> HIDE DEF e, Body
<1>5. upTo = [j \in 0 .. n |-> Body(upTo, j)]
  BY <1>4
<1> HIDE DEF upTo
<1>6. \A j \in 0 .. n : upTo[j] = Body(upTo, j)
  BY <1>5
<1>7. upTo[0] = lead
  BY <1>2, <1>6 DEF Body
<1>8. \A j \in 1 .. n : upTo[j] = 64 * upTo[j - 1] + t(j)
  BY <1>6 DEF Body
<1> HIDE DEF lead, t
<1>9. upTo[1] = 64 * lead + t(1)
  BY <1>7, <1>8
<1>10. n >= 2 => upTo[2] = 64 * (64 * lead + t(1)) + t(2)
  BY <1>8, <1>9
<1>11. n = 3 => upTo[3] = 64 * (64 * (64 * lead + t(1)) + t(2)) + t(3)
  BY <1>8, <1>10
<1>12. upTo[n] = IF n = 1 THEN 64 * lead + t(1)
                 ELSE IF n = 2 THEN 64 * (64 * lead + t(1)) + t(2)
                 ELSE 64 * (64 * (64 * lead + t(1)) + t(2)) + t(3)
  BY <1>9, <1>10, <1>11
<1> QED
  BY <1>1, <1>12 DEF lead, t

LEMMA Leads ==
  ASSUME NEW b \in Octet
  PROVE  /\ Continuations(b) = 0 <=> b \in 0 .. 127
         /\ Continuations(b) = 1 <=> b \in 192 .. 223
         /\ Continuations(b) = 2 <=> b \in 224 .. 239
         /\ Continuations(b) = 3 <=> b \in 240 .. 247
         /\ Continuations(b) \in {0, 1, 2, 3, None}
<1>1. b \in 0 .. 255
  BY DEF Octet
<1>2. /\ b \div 32 = 6 <=> b \in 192 .. 223
      /\ b \div 16 = 14 <=> b \in 224 .. 239
      /\ b \div 8 = 30 <=> b \in 240 .. 247
  BY <1>1
<1>3. None # 0 /\ None # 1 /\ None # 2 /\ None # 3
  BY StreamsAssumption
<1>4. Continuations(b) = IF b \in 0 .. 127 THEN 0 ELSE IF b \in 192 .. 223 THEN 1
                         ELSE IF b \in 224 .. 239 THEN 2 ELSE IF b \in 240 .. 247 THEN 3 ELSE None
  BY <1>1, <1>2 DEF Continuations
<1> QED
  BY <1>1, <1>3, <1>4

(* The shortest form, the surrogates and the end of the code space, seen   *)
(* in the first two octets.                                                *)
LEMMA OneAgrees ==
  ASSUME NEW b \in Octet
  PROVE  One(b) <=> Continuations(b) = 0
BY Leads DEF One, Octet

LEMMA TwoAgrees ==
  ASSUME NEW b \in Octet, NEW d \in Octet
  PROVE  Two(b, d) <=>
           Continuations(b) = 1 /\ d \in Tails /\ Scalar(64 * (b % 32) + (d % 64), 1)
<1>1. ASSUME b \in 192 .. 223, d \in 128 .. 191
      PROVE  Scalar(64 * (b % 32) + (d % 64), 1) <=> b \in 194 .. 223
  <2>1. b % 32 = b - 192 /\ d % 64 = d - 128
    BY <1>1
  <2> QED
    BY <1>1, <2>1 DEF Scalar, SurrogateOrBeyond
<1> QED
  BY <1>1, Leads DEF Two, Tails

LEMMA ThreeAgrees ==
  ASSUME NEW b \in Octet, NEW d \in Octet, NEW e \in Octet
  PROVE  Three(b, d, e) <=>
           /\ Continuations(b) = 2 /\ d \in Tails /\ e \in Tails
           /\ Scalar(64 * (64 * (b % 16) + (d % 64)) + (e % 64), 2)
<1>1. ASSUME b \in 224 .. 239, d \in 128 .. 191, e \in 128 .. 191
      PROVE  Scalar(64 * (64 * (b % 16) + (d % 64)) + (e % 64), 2)
               <=> (b = 224 => d >= 160) /\ (b = 237 => d <= 159)
  <2>1. b % 16 = b - 224 /\ d % 64 = d - 128 /\ e % 64 = e - 128
    BY <1>1
  <2> QED
    BY <1>1, <2>1 DEF Scalar, SurrogateOrBeyond
<1> QED
  BY <1>1, Leads DEF Three, Tails

LEMMA FourAgrees ==
  ASSUME NEW b \in Octet, NEW d \in Octet, NEW e \in Octet, NEW g \in Octet
  PROVE  Four(b, d, e, g) <=>
           /\ Continuations(b) = 3 /\ d \in Tails /\ e \in Tails /\ g \in Tails
           /\ Scalar(64 * (64 * (64 * (b % 8) + (d % 64)) + (e % 64)) + (g % 64), 3)
<1>1. ASSUME b \in 240 .. 247, d \in 128 .. 191, e \in 128 .. 191, g \in 128 .. 191
      PROVE  Scalar(64 * (64 * (64 * (b % 8) + (d % 64)) + (e % 64)) + (g % 64), 3)
               <=> b \in 240 .. 244 /\ (b = 240 => d >= 144) /\ (b = 244 => d <= 143)
  <2>1. b % 8 = b - 240 /\ d % 64 = d - 128 /\ e % 64 = e - 128 /\ g % 64 = g - 128
    BY <1>1
  <2> QED
    BY <1>1, <2>1 DEF Scalar, SurrogateOrBeyond
<1> QED
  BY <1>1, Leads DEF Four, Tails

(* What valid_utf8 of the Tab5 looks at for one character.                 *)
Tab5Character(text, i, n) ==
  /\ Continuations(text[i]) = n
  /\ n > 0 => /\ \A j \in 1 .. n : text[i + j] \in Tails
              /\ Scalar(CodePoint(text, i, n), n)

LEMMA CharactersAgree ==
  ASSUME NEW text, IsText(text), NEW i \in 1 .. Len(text), NEW n \in 0 .. 3, i + n <= Len(text)
  PROVE  Tab5Character(text, i, n) <=> IsCharacter(SubSeq(text, i, i + n))
<1> DEFINE c == SubSeq(text, i, i + n)
<1>1. /\ IsText(c) /\ Len(c) = n + 1
      /\ \A k \in 1 .. n + 1 : c[k] = text[i + k - 1]
  <2>1. \A k \in i .. i + n : text[k] \in Octet
    BY DEF IsText
  <2>2. (i + n) - i + 1 = n + 1 /\ i <= i + n
    BY DEF IsText
  <2> QED
    BY <2>1, <2>2, SubSeqProperties DEF IsText
<1>2. c[1] = text[i] /\ \A j \in 1 .. n : c[j + 1] = text[i + j]
  BY <1>1
<1>3. text[i] \in Octet /\ \A j \in 1 .. n : text[i + j] \in Octet
  BY DEF IsText
<1>3a. SUFFICES Tab5Character(text, i, n) <=> IsCharacter(c)
  OBVIOUS
<1> HIDE DEF c
<1>4. CASE n = 0
  <2>1. Len(c) = 1
    BY <1>1, <1>4
  <2>2. IsCharacter(c) <=> One(c[1])
    BY <1>1, <2>1, CharacterOctets
  <2>3. One(c[1]) <=> Continuations(c[1]) = 0
    BY <1>2, <1>3, OneAgrees
  <2> QED
    BY <1>2, <1>4, <2>2, <2>3 DEF Tab5Character
<1>5. CASE n = 1
  <2>1. Len(c) = 2
    BY <1>1, <1>5
  <2>2. IsCharacter(c) <=> Two(c[1], c[2])
    BY <1>1, <2>1, CharacterOctets
  <2>3. c[1] = text[i] /\ c[2] = text[i + 1]
    BY <1>2, <1>5
  <2>4. c[1] \in Octet /\ c[2] \in Octet
    BY <1>3, <1>5, <2>3
  <2>5. CodePoint(text, i, n) = 64 * (c[1] % 32) + (c[2] % 64)
    BY <1>5, <2>3, CodePoints
  <2> DEFINE code == 64 * (c[1] % 32) + (c[2] % 64)
  <2>6. Two(c[1], c[2]) <=> /\ Continuations(c[1]) = 1 /\ c[2] \in Tails
                   /\ Scalar(code, 1)
    BY <2>4, TwoAgrees
  <2>7. (\A j \in 1 .. n : text[i + j] \in Tails) <=> c[2] \in Tails
    BY <1>5, <2>3
  <2> HIDE DEF code
  <2> QED
    BY <1>5, <2>2, <2>3, <2>5, <2>6, <2>7 DEF Tab5Character, code
<1>6. CASE n = 2
  <2>1. Len(c) = 3
    BY <1>1, <1>6
  <2>2. IsCharacter(c) <=> Three(c[1], c[2], c[3])
    BY <1>1, <2>1, CharacterOctets
  <2>3. c[1] = text[i] /\ c[2] = text[i + 1] /\ c[3] = text[i + 2]
    BY <1>2, <1>6
  <2>4. c[1] \in Octet /\ c[2] \in Octet /\ c[3] \in Octet
    BY <1>3, <1>6, <2>3
  <2>5. CodePoint(text, i, n) = 64 * (64 * (c[1] % 16) + (c[2] % 64)) + (c[3] % 64)
    BY <1>6, <2>3, CodePoints
  <2> DEFINE code == 64 * (64 * (c[1] % 16) + (c[2] % 64)) + (c[3] % 64)
  <2>6. Three(c[1], c[2], c[3]) <=> /\ Continuations(c[1]) = 2 /\ c[2] \in Tails /\ c[3] \in Tails
                   /\ Scalar(code, 2)
    BY <2>4, ThreeAgrees
  <2>7. (\A j \in 1 .. n : text[i + j] \in Tails) <=> c[2] \in Tails /\ c[3] \in Tails
    BY <1>6, <2>3
  <2> HIDE DEF code
  <2> QED
    BY <1>6, <2>2, <2>3, <2>5, <2>6, <2>7 DEF Tab5Character, code
<1>7. CASE n = 3
  <2>1. Len(c) = 4
    BY <1>1, <1>7
  <2>2. IsCharacter(c) <=> Four(c[1], c[2], c[3], c[4])
    BY <1>1, <2>1, CharacterOctets
  <2>3. c[1] = text[i] /\ c[2] = text[i + 1] /\ c[3] = text[i + 2] /\ c[4] = text[i + 3]
    BY <1>2, <1>7
  <2>4. c[1] \in Octet /\ c[2] \in Octet /\ c[3] \in Octet /\ c[4] \in Octet
    BY <1>3, <1>7, <2>3
  <2>5. CodePoint(text, i, n) =
          64 * (64 * (64 * (c[1] % 8) + (c[2] % 64)) + (c[3] % 64)) + (c[4] % 64)
    BY <1>7, <2>3, CodePoints
  <2> DEFINE code == 64 * (64 * (64 * (c[1] % 8) + (c[2] % 64)) + (c[3] % 64)) + (c[4] % 64)
  <2>6. Four(c[1], c[2], c[3], c[4]) <=>
          /\ Continuations(c[1]) = 3 /\ c[2] \in Tails /\ c[3] \in Tails /\ c[4] \in Tails
                   /\ Scalar(code, 3)
    BY <2>4, FourAgrees
  <2>7. (\A j \in 1 .. n : text[i + j] \in Tails)
          <=> c[2] \in Tails /\ c[3] \in Tails /\ c[4] \in Tails
    BY <1>7, <2>3
  <2> HIDE DEF code
  <2> QED
    BY <1>7, <2>2, <2>3, <2>5, <2>6, <2>7 DEF Tab5Character, code
<1> QED
  BY <1>4, <1>5, <1>6, <1>7

LEMMA ValidUtf8Follows ==
  ASSUME NEW text \in Seq(Octet)
  PROVE  \E f : Follows(f, Characters(text), Len(text)) /\ (ValidUtf8(text) <=> f[1])
<1> DEFINE N == Len(text)
           R == Characters(text)
           Body(f, i) == i = N + 1 \/
                         LET n == Continuations(text[i])
                         IN  /\ n # None
                             /\ i + n <= N
                             /\ n > 0 => /\ \A j \in 1 .. n : text[i + j] \in Tails
                                         /\ Scalar(CodePoint(text, i, n), n)
                             /\ f[i + n + 1]
           from == CHOOSE f : f = [i \in 1 .. N + 1 |-> Body(f, i)]
<1>1. ValidUtf8(text) = from[1]
  BY DEF ValidUtf8
<1>2. N \in Nat
  OBVIOUS
<1>3. R \in SUBSET ((1 .. N + 1) \X (1 .. N + 1))
  BY DEF Characters
<1>4. ASSUME NEW i \in 1 .. N + 1, NEW f
      PROVE  Body(f, i) <=> (i = N + 1 \/ \E j \in 1 .. N + 1 : <<i, j>> \in R /\ f[j])
  <2>1. SUFFICES ASSUME i # N + 1
                 PROVE  Body(f, i) <=> \E j \in 1 .. N + 1 : <<i, j>> \in R /\ f[j]
    OBVIOUS
  <2>2. i \in 1 .. N /\ text[i] \in Octet
    BY <1>2, <2>1
  <2>3. Body(f, i) <=> \E n \in 0 .. 3 : i + n <= N /\ Tab5Character(text, i, n) /\ f[i + n + 1]
    <3> DEFINE m == Continuations(text[i])
    <3>1. m \in {0, 1, 2, 3, None}
      BY <2>2, Leads
    <3>2. None \notin {0, 1, 2, 3}
      BY StreamsAssumption
    <3> HIDE DEF m
    <3> QED
      BY <2>1, <3>1, <3>2 DEF m, Tab5Character
  <2>4. \A n \in 0 .. 3 : i + n <= N =>
          (Tab5Character(text, i, n) <=> IsCharacter(SubSeq(text, i, i + n)))
    BY <2>2, CharactersAgree DEF IsText
  <2>5. \A j \in 1 .. N + 1 :
          <<i, j>> \in R <=> \E n \in 1 .. 4 : j = i + n /\ IsCharacter(SubSeq(text, i, i + n - 1))
    BY DEF Characters
  <2>6. \A n \in 0 .. 3 : /\ n + 1 \in 1 .. 4 /\ i + (n + 1) - 1 = i + n /\ i + n + 1 = i + (n + 1)
                          /\ i + n <= N <=> i + n + 1 \in 1 .. N + 1
    BY <1>2, <2>2
  <2>7. \A n \in 1 .. 4 : n - 1 \in 0 .. 3 /\ i + (n - 1) = i + n - 1 /\ i + (n - 1) + 1 = i + n
    BY <2>2
  <2> HIDE DEF N, R, Body
  <2>8. (\E n \in 0 .. 3 : i + n <= N /\ Tab5Character(text, i, n) /\ f[i + n + 1])
          => \E j \in 1 .. N + 1 : <<i, j>> \in R /\ f[j]
    <3>1. SUFFICES ASSUME NEW n \in 0 .. 3, i + n <= N, Tab5Character(text, i, n), f[i + n + 1]
                   PROVE  \E j \in 1 .. N + 1 : <<i, j>> \in R /\ f[j]
      OBVIOUS
    <3>2. i + n + 1 \in 1 .. N + 1 /\ IsCharacter(SubSeq(text, i, i + (n + 1) - 1))
      BY <2>4, <2>6, <3>1
    <3>3. <<i, i + n + 1>> \in R
      BY <2>5, <2>6, <3>2
    <3> QED
      BY <3>1, <3>2, <3>3
  <2>9. (\E j \in 1 .. N + 1 : <<i, j>> \in R /\ f[j])
          => \E n \in 0 .. 3 : i + n <= N /\ Tab5Character(text, i, n) /\ f[i + n + 1]
    <3>1. SUFFICES ASSUME NEW j \in 1 .. N + 1, <<i, j>> \in R, f[j]
                   PROVE  \E n \in 0 .. 3 : i + n <= N /\ Tab5Character(text, i, n) /\ f[i + n + 1]
      OBVIOUS
    <3>2. PICK n \in 1 .. 4 : j = i + n /\ IsCharacter(SubSeq(text, i, i + n - 1))
      BY <2>5, <3>1
    <3>3. n - 1 \in 0 .. 3 /\ i + (n - 1) <= N /\ f[i + (n - 1) + 1]
      BY <2>2, <2>7, <3>1, <3>2, <1>2
    <3>4. Tab5Character(text, i, n - 1)
      BY <2>4, <2>7, <3>2, <3>3
    <3> QED
      BY <3>3, <3>4
  <2> QED
    BY <2>3, <2>8, <2>9
<1> HIDE DEF N, R, Body
<1>5. PICK e \in [1 .. N + 1 -> BOOLEAN] : Follows(e, R, N)
  BY <1>2, <1>3, SomeFollows
<1>6. \A i \in 1 .. N + 1 : e[i] <=> Body(e, i)
  BY <1>4, <1>5 DEF Follows
<1>7. e = [i \in 1 .. N + 1 |-> Body(e, i)]
  <2>1. \A i \in 1 .. N + 1 : Body(e, i) \in BOOLEAN
    BY DEF Body
  <2>2. \A i \in 1 .. N + 1 : e[i] = Body(e, i)
    BY <1>6, <2>1
  <2>3. e = [i \in 1 .. N + 1 |-> e[i]]
    BY Zenon
  <2> QED
    BY <2>2, <2>3, Zenon
<1>8. from = [i \in 1 .. N + 1 |-> Body(from, i)]
  BY <1>7
<1> HIDE DEF from
<1>9. \A i \in 1 .. N + 1 : from[i] <=> Body(from, i)
  BY <1>8
<1>10. Follows(from, R, N)
  BY <1>4, <1>9 DEF Follows
<1> QED
  BY <1>1, <1>10 DEF N, R

(* String::from_utf8 of the CLI and valid_utf8 of the Tab5 (protocol.cpp)   *)
(* accept the same octets as a text, of any length.                        *)
THEOREM Utf8Agrees ==
  ASSUME NEW text \in Seq(Octet)
  PROVE  Utf8(text) <=> ValidUtf8(text)
<1>1. PICK f : Follows(f, Characters(text), Len(text)) /\ (Utf8(text) <=> f[1])
  BY Utf8Follows
<1>2. PICK g : Follows(g, Characters(text), Len(text)) /\ (ValidUtf8(text) <=> g[1])
  BY ValidUtf8Follows
<1>3. \A i, j \in 1 .. Len(text) + 1 : <<i, j>> \in Characters(text) => i < j
  BY DEF Characters
<1> QED
  BY <1>1, <1>2, <1>3, OneFollows

-----------------------------------------------------------------------------
(* Envelopes, octet by octet. *)

(* Lengths and concatenation under names of their own, so that what is    *)
(* said of them is said by the lemmas below.                               *)
Size(t) == Len(t)
Glue(s, t) == s \o t

(* A text stands in another one from the place after `first' on.           *)
Holds(b, first, t) == \A i \in 1 .. Size(t) : b[first + i] = t[i]

LEMMA SizeType == ASSUME NEW t, IsText(t) PROVE Size(t) \in Nat
BY DEF IsText, Size

LEMMA Joined ==
  ASSUME NEW s, NEW t, IsText(s), IsText(t)
  PROVE  /\ IsText(Glue(s, t)) /\ Size(Glue(s, t)) = Size(s) + Size(t)
         /\ Holds(Glue(s, t), 0, s) /\ Holds(Glue(s, t), Size(s), t)
<1>1. Size(s) \in Nat /\ Size(t) \in Nat
  BY SizeType
<1>2. /\ IsText(Glue(s, t)) /\ Size(Glue(s, t)) = Size(s) + Size(t)
      /\ \A i \in 1 .. Size(s) + Size(t) :
           Glue(s, t)[i] = IF i <= Size(s) THEN s[i] ELSE t[i - Size(s)]
  BY ConcatProperties DEF IsText, Size, Glue
<1>3. ASSUME NEW i \in 1 .. Size(s) PROVE Glue(s, t)[0 + i] = s[i]
  BY <1>1, <1>2
<1>4. ASSUME NEW i \in 1 .. Size(t) PROVE Glue(s, t)[Size(s) + i] = t[i]
  <2> DEFINE k == Size(s) + i
  <2>1. k \in 1 .. Size(s) + Size(t) /\ ~(k <= Size(s)) /\ k - Size(s) = i
    BY <1>1
  <2> HIDE DEF k
  <2>2. Glue(s, t)[k] = t[i]
    BY <1>2, <2>1
  <2> QED
    BY <2>2 DEF k
<1> QED
  BY <1>2, <1>3, <1>4 DEF Holds

LEMMA GlueAssociative ==
  ASSUME NEW s, NEW t, NEW u, IsText(s), IsText(t), IsText(u)
  PROVE  Glue(s, Glue(t, u)) = Glue(Glue(s, t), u)
BY ConcatAssociative DEF IsText, Glue

LEMMA HoldsOn ==
  ASSUME NEW b, NEW c, NEW t, NEW first \in Nat, IsText(b), IsText(t),
         Holds(c, 0, b), Holds(b, first, t),
         first + Size(t) <= Size(b)
  PROVE  Holds(c, first, t)
<1>1. Size(b) \in Nat /\ Size(t) \in Nat
  BY SizeType
<1>2. ASSUME NEW i \in 1 .. Size(t) PROVE c[first + i] = t[i]
  <2>1. first + i \in 1 .. Size(b) /\ 0 + (first + i) = first + i
    BY <1>1
  <2> QED
    BY <2>1 DEF Holds
<1> QED
  BY <1>2 DEF Holds

LEMMA SameText ==
  ASSUME NEW s, NEW t, IsText(s), IsText(t), Size(s) = Size(t), \A i \in 1 .. Size(s) : s[i] = t[i]
  PROVE  s = t
BY SeqEqual DEF IsText, Size

LEMMA IdentityIs ==
  ASSUME NEW s
  PROVE  s \in Identity <=> IsText(s) /\ Size(s) = 16
<1>1. ASSUME s \in Identity PROVE IsText(s) /\ Size(s) = 16
  <2>1. s \in Seq(Octet)
    BY <1>1, SeqDef DEF Identity
  <2>2. DOMAIN s = 1 .. Len(s) /\ Len(s) \in Nat
    BY <2>1, LenProperties
  <2>3. DOMAIN s = 1 .. 16
    BY <1>1 DEF Identity
  <2>4. Len(s) = 16
    <3>1. ASSUME NEW n \in Nat, 1 .. n = 1 .. 16 PROVE n = 16
      BY <3>1
    <3> QED
      BY <2>2, <2>3, <3>1
  <2> QED
    BY <2>1, <2>4 DEF IsText, Size
<1>2. ASSUME IsText(s), Size(s) = 16 PROVE s \in Identity
  BY <1>2, LenProperties DEF Identity, IsText, Size
<1> QED
  BY <1>1, <1>2

LEMMA Sizes ==
  /\ PROFILE = 1 /\ GIFT = 2 /\ NO_GIFT = 255 /\ SLOT_COUNT = 6 /\ ALL_MISSING = 63
  /\ MAX_NAME_BYTES = 32 /\ MAX_PHRASE_BYTES = 64 /\ CHUNK = 12 /\ MAX_ENVELOPE = 83
  /\ MAX_FRAMES = 7
<1>1. 2 ^ 6 = 64
  OBVIOUS
<1> QED
  BY <1>1 DEF PROFILE, GIFT, NO_GIFT, SLOT_COUNT, ALL_MISSING, MAX_NAME_BYTES,
     MAX_PHRASE_BYTES, CHUNK, MAX_ENVELOPE, MAX_FRAMES, FramesFor

(* Where `encode' puts the fields.                                         *)
ProfileAt(b, p) ==
  /\ IsText(b) /\ Size(b) = 35 + Size(p.name)
  /\ b[1] = 1 /\ Holds(b, 1, p.node) /\ Holds(b, 17, p.round)
  /\ b[34] = p.missing /\ b[35] = Size(p.name) /\ Holds(b, 35, p.name)

GiftAt(b, p) ==
  /\ IsText(b) /\ b[1] = 2 /\ Holds(b, 1, p.round)
  /\ IF p.phrase = None THEN Size(b) = 19 /\ b[18] = 255 /\ b[19] = 0
     ELSE /\ Size(b) = 19 + Size(p.phrase.text)
          /\ b[18] = p.phrase.slot /\ b[19] = Size(p.phrase.text) /\ Holds(b, 19, p.phrase.text)

LEMMA EncodeProfile ==
  ASSUME NEW p \in Packet, p.type = "Profile", Encodable(p)
  PROVE  ProfileAt(Encode(p), p)
<1>1. /\ p.node \in Identity /\ p.round \in Identity /\ p.missing \in 0 .. ALL_MISSING
      /\ p.name \in Seq(Octet)
  BY DEF Packet
<1> DEFINE node == p.node  round == p.round  name == p.name  missing == p.missing
<1>2. IsText(node) /\ Size(node) = 16 /\ IsText(round) /\ Size(round) = 16 /\ IsText(name)
  BY <1>1, IdentityIs DEF IsText
<1>3. Size(name) \in 1 .. 32 /\ missing \in 0 .. 63
  BY <1>1, Sizes DEF Encodable, Size
<1> DEFINE head == <<1>>  sizes == <<missing, Size(name)>>
<1>4. Encode(p) = (((head \o node) \o round) \o sizes) \o name
  BY Sizes DEF Encode, Size
<1>5. IsText(head) /\ Size(head) = 1 /\ head[1] = 1
  BY DEF IsText, Octet, Size
<1>6. IsText(sizes) /\ Size(sizes) = 2 /\ sizes[1] = missing /\ sizes[2] = Size(name)
  <2> HIDE DEF missing, name
  <2>1. missing \in Octet /\ Size(name) \in Octet
    BY <1>3 DEF Octet
  <2> QED
    BY <2>1 DEF IsText, Size
<1> HIDE DEF node, round, name, missing, head, sizes
<1> DEFINE b1 == Glue(head, node)  b2 == Glue(b1, round)  b3 == Glue(b2, sizes)  b == Glue(b3, name)
<1>7. IsText(b1) /\ Size(b1) = 17 /\ Holds(b1, 0, head) /\ Holds(b1, 1, node)
  BY <1>2, <1>5, Joined
<1> HIDE DEF b1
<1>8. IsText(b2) /\ Size(b2) = 33 /\ Holds(b2, 0, b1) /\ Holds(b2, 17, round)
  BY <1>2, <1>7, Joined
<1> HIDE DEF b2
<1>9. IsText(b3) /\ Size(b3) = 35 /\ Holds(b3, 0, b2) /\ Holds(b3, 33, sizes)
  BY <1>6, <1>8, Joined
<1> HIDE DEF b3
<1>10. IsText(b) /\ Size(b) = 35 + Size(name) /\ Holds(b, 0, b3) /\ Holds(b, 35, name)
  BY <1>2, <1>9, Joined
<1> HIDE DEF b
<1>11. Holds(b, 0, b2) /\ Holds(b, 0, b1) /\ Holds(b, 0, head)
  BY <1>5, <1>7, <1>8, <1>9, <1>10, HoldsOn
<1>12. Holds(b, 1, node) /\ Holds(b, 17, round) /\ Holds(b, 33, sizes)
  BY <1>2, <1>6, <1>7, <1>8, <1>9, <1>10, <1>11, HoldsOn
<1>13. b[1] = 1
  BY <1>5, <1>11 DEF Holds
<1>14. b[34] = missing /\ b[35] = Size(name)
  BY <1>6, <1>12 DEF Holds
<1>15. b = Encode(p)
  BY <1>4 DEF b, b3, b2, b1, Glue
<1>16. ProfileAt(b, p)
  BY <1>10, <1>12, <1>13, <1>14 DEF ProfileAt, node, round, name, missing
<1> QED
  BY <1>15, <1>16

LEMMA EncodeGift ==
  ASSUME NEW p \in Packet, p.type = "Gift", Encodable(p)
  PROVE  GiftAt(Encode(p), p)
<1> DEFINE head == <<2>>  round == p.round  b1 == Glue(head, round)
<1>1. p.round \in Identity /\ p.phrase \in Phrase \cup {None}
  BY DEF Packet
<1>2. IsText(round) /\ Size(round) = 16
  BY <1>1, IdentityIs
<1>3. IsText(head) /\ Size(head) = 1 /\ head[1] = 2
  BY DEF IsText, Octet, Size
<1> HIDE DEF head, round
<1>4. IsText(b1) /\ Size(b1) = 17 /\ Holds(b1, 0, head) /\ Holds(b1, 1, round)
  BY <1>2, <1>3, Joined
<1>5. CASE p.phrase = None
  <2> DEFINE none == <<255, 0>>  b == Glue(b1, none)
  <2>1. Encode(p) = b
    BY <1>5, Sizes DEF Encode, Glue, head, round
  <2>2. IsText(none) /\ Size(none) = 2 /\ none[1] = 255 /\ none[2] = 0
    BY DEF IsText, Octet, Size
  <2> HIDE DEF none, b1
  <2>3. IsText(b) /\ Size(b) = 19 /\ Holds(b, 0, b1) /\ Holds(b, 17, none)
    BY <1>4, <2>2, Joined
  <2> HIDE DEF b
  <2>4. Holds(b, 0, head) /\ Holds(b, 1, round)
    BY <1>2, <1>3, <1>4, <2>3, HoldsOn
  <2>5. b[1] = 2 /\ b[18] = 255 /\ b[19] = 0
    BY <1>3, <2>2, <2>3, <2>4 DEF Holds
  <2>6. GiftAt(b, p)
    BY <1>5, <2>3, <2>4, <2>5 DEF GiftAt, round
  <2> QED
    BY <2>1, <2>6
<1>6. CASE p.phrase # None
  <2> DEFINE slot == p.phrase.slot  text == p.phrase.text  sizes == <<slot, Size(text)>>
             b2 == Glue(b1, sizes)  b == Glue(b2, text)
  <2>1. p.phrase \in Phrase
    BY <1>1, <1>6
  <2>2. slot \in 0 .. 5 /\ text \in Seq(Octet)
    BY <2>1, Sizes DEF Phrase
  <2>3. IsText(text) /\ Size(text) \in 1 .. 64
    BY <1>6, <2>2, Sizes DEF Encodable, IsText, Size
  <2>4. Encode(p) = Glue(b1, Glue(sizes, text))
    BY <1>6, Sizes DEF Encode, Glue, Size, head, round
  <2>5. IsText(sizes) /\ Size(sizes) = 2 /\ sizes[1] = slot /\ sizes[2] = Size(text)
    <3> HIDE DEF slot, text
    <3>1. slot \in Octet /\ Size(text) \in Octet
      BY <2>2, <2>3 DEF Octet
    <3> QED
      BY <3>1 DEF IsText, Size
  <2> HIDE DEF slot, text, sizes, b1
  <2>5a. Encode(p) = b
    BY <1>4, <2>3, <2>4, <2>5, GlueAssociative
  <2>6. IsText(b2) /\ Size(b2) = 19 /\ Holds(b2, 0, b1) /\ Holds(b2, 17, sizes)
    BY <1>4, <2>5, Joined
  <2> HIDE DEF b2
  <2>7. IsText(b) /\ Size(b) = 19 + Size(text) /\ Holds(b, 0, b2) /\ Holds(b, 19, text)
    BY <2>3, <2>6, Joined
  <2> HIDE DEF b
  <2>8. Holds(b, 0, b1) /\ Holds(b, 17, sizes)
    BY <1>4, <2>5, <2>6, <2>7, HoldsOn
  <2>9. Holds(b, 0, head) /\ Holds(b, 1, round)
    BY <1>2, <1>3, <1>4, <2>8, HoldsOn
  <2>10. b[1] = 2 /\ b[18] = slot /\ b[19] = Size(text)
    BY <1>3, <2>5, <2>8, <2>9 DEF Holds
  <2>11. GiftAt(b, p)
    BY <1>6, <2>7, <2>9, <2>10 DEF GiftAt, round, slot, text
  <2> QED
    BY <2>5a, <2>11
<1> QED
  BY <1>5, <1>6

LEMMA Cut ==
  ASSUME NEW b, IsText(b), NEW m \in Nat, NEW n \in Nat, m <= n, n <= Size(b)
  PROVE  /\ IsText(Octets(b, m, n)) /\ Size(Octets(b, m, n)) = n - m
         /\ Holds(b, m, Octets(b, m, n))
<1>1. \A i \in m + 1 .. n : b[i] \in Octet
  BY DEF IsText, Size
<1> DEFINE s == SubSeq(b, m + 1, n)
<1>2. m + 1 \in Int /\ n \in Int
  OBVIOUS
<1>3. /\ s \in Seq(Octet) /\ Len(s) = IF m + 1 <= n THEN n - (m + 1) + 1 ELSE 0
      /\ \A i \in 1 .. n - (m + 1) + 1 : s[i] = b[m + 1 + i - 1]
  <2> HIDE DEF s
  <2> QED
    BY <1>1, <1>2, SubSeqProperties DEF s
<1> HIDE DEF s
<1>4. IsText(s) /\ Size(s) = n - m
  BY <1>3 DEF IsText, Size
<1>5. ASSUME NEW i \in 1 .. n - m PROVE b[m + i] = s[i]
  <2>1. i \in 1 .. n - (m + 1) + 1 /\ m + 1 + i - 1 = m + i
    OBVIOUS
  <2> QED
    BY <1>3, <2>1
<1>6. Holds(b, m, s)
  BY <1>4, <1>5 DEF Holds
<1> QED
  BY <1>4, <1>6 DEF Octets, s

LEMMA FromIs ==
  ASSUME NEW b, NEW m
  PROVE  From(b, m) = Octets(b, m, Size(b))
BY DEF From, Octets, Size

LEMMA SameAt ==
  ASSUME NEW b, NEW first, NEW s, NEW t, IsText(s), IsText(t), Size(s) = Size(t),
         Holds(b, first, s), Holds(b, first, t)
  PROVE  s = t
<1>1. \A i \in 1 .. Size(s) : s[i] = t[i]
  BY DEF Holds
<1> QED
  BY <1>1, SameText

LEMMA PacketFields ==
  ASSUME NEW p \in Packet
  PROVE  /\ p.type = "Profile" =>
              /\ p = Profile(p.node, p.round, p.missing, p.name)
              /\ IsText(p.node) /\ Size(p.node) = 16 /\ IsText(p.round) /\ Size(p.round) = 16
              /\ p.missing \in 0 .. 63 /\ IsText(p.name)
         /\ p.type # "Profile" =>
              /\ p.type = "Gift" /\ p = Gift(p.round, p.phrase)
              /\ IsText(p.round) /\ Size(p.round) = 16
              /\ p.phrase # None =>
                   /\ p.phrase = [slot |-> p.phrase.slot, text |-> p.phrase.text]
                   /\ p.phrase.slot \in 0 .. 5 /\ IsText(p.phrase.text)
<1>1. ASSUME p.type = "Profile"
      PROVE  /\ p = Profile(p.node, p.round, p.missing, p.name)
             /\ p.node \in Identity /\ p.round \in Identity
             /\ p.missing \in 0 .. ALL_MISSING /\ p.name \in Seq(Octet)
  BY <1>1 DEF Packet, Profile
<1>2. ASSUME p.type # "Profile"
      PROVE  /\ p.type = "Gift" /\ p = Gift(p.round, p.phrase)
             /\ p.round \in Identity /\ p.phrase \in Phrase \cup {None}
  BY <1>2 DEF Packet, Gift
<1>3. ASSUME p.type # "Profile", p.phrase # None
      PROVE  /\ p.phrase = [slot |-> p.phrase.slot, text |-> p.phrase.text]
             /\ p.phrase.slot \in 0 .. SLOT_COUNT - 1 /\ p.phrase.text \in Seq(Octet)
  BY <1>2, <1>3 DEF Phrase
<1>4. SLOT_COUNT - 1 = 5 /\ ALL_MISSING = 63
  BY Sizes
<1> QED
  BY <1>1, <1>2, <1>3, <1>4, IdentityIs DEF IsText

LEMMA ProfileDecoded ==
  ASSUME NEW b, NEW p, Sendable(p), p.type = "Profile", ProfileAt(b, p)
  PROVE  DecodeProfile(b) = p
<1>1. p \in Packet /\ Size(p.name) \in 1 .. 32 /\ Utf8(p.name)
  BY Sizes DEF Sendable, Encodable, Texts, Size
<1>2. /\ p = Profile(p.node, p.round, p.missing, p.name)
      /\ IsText(p.node) /\ Size(p.node) = 16 /\ IsText(p.round) /\ Size(p.round) = 16
      /\ p.missing \in 0 .. 63 /\ IsText(p.name)
  BY <1>1, PacketFields
<1>3. /\ IsText(b) /\ Size(b) = 35 + Size(p.name)
      /\ Holds(b, 1, p.node) /\ Holds(b, 17, p.round)
      /\ b[34] = p.missing /\ b[35] = Size(p.name) /\ Holds(b, 35, p.name)
  BY DEF ProfileAt
<1>3b. IsText(b)
  BY <1>3
<1>3a. Size(b) \in Nat /\ Size(b) >= 36 /\ Size(p.name) = Size(b) - 35
  BY <1>1, <1>3
<1>4. Octets(b, 1, 17) = p.node
  <2>1. IsText(Octets(b, 1, 17)) /\ Size(Octets(b, 1, 17)) = 16 /\ Holds(b, 1, Octets(b, 1, 17))
    BY <1>3b, <1>3a, Cut
  <2> QED
    BY <1>2, <1>3, <2>1, SameAt
<1>5. Octets(b, 17, 33) = p.round
  <2>1. IsText(Octets(b, 17, 33)) /\ Size(Octets(b, 17, 33)) = 16 /\ Holds(b, 17, Octets(b, 17, 33))
    BY <1>3b, <1>3a, Cut
  <2> QED
    BY <1>2, <1>3, <2>1, SameAt
<1>6. From(b, 35) = p.name
  <2> DEFINE s == Octets(b, 35, Size(b))
  <2>1. IsText(s) /\ Size(s) = Size(b) - 35 /\ Holds(b, 35, s)
    BY <1>3b, <1>3a, Cut
  <2> HIDE DEF s
  <2>2. s = p.name
    BY <1>2, <1>3, <1>3a, <2>1, SameAt
  <2> QED
    BY <2>2, FromIs DEF s
<1>7. At(b, 33) = p.missing /\ At(b, 34) = Size(p.name)
  BY <1>3 DEF At
<1>8. /\ Len(b) >= 35 /\ At(b, 33) <= ALL_MISSING /\ At(b, 34) \in 1 .. MAX_NAME_BYTES
      /\ Len(b) = 35 + At(b, 34) /\ Utf8(From(b, 35))
  <2>1. Size(b) >= 35 /\ Size(b) = 35 + At(b, 34)
    BY <1>3, <1>3a, <1>7
  <2>2. At(b, 33) <= ALL_MISSING /\ At(b, 34) \in 1 .. MAX_NAME_BYTES
    BY <1>1, <1>2, <1>7, Sizes
  <2>3. Utf8(From(b, 35))
    BY <1>1, <1>6
  <2>4. Len(b) = Size(b)
    BY DEF Size
  <2> QED
    BY <2>1, <2>2, <2>3, <2>4
<1> QED
  BY <1>2, <1>4, <1>5, <1>6, <1>7, <1>8 DEF DecodeProfile

(* What `decode' asks of the octets.                                        *)
ProfileStands(b) ==
  /\ Size(b) >= 35 /\ At(b, 33) <= 63 /\ At(b, 34) \in 1 .. 32
  /\ Size(b) = 35 + At(b, 34) /\ Utf8(From(b, 35))

LEMMA ProfileStandsIs ==
  ASSUME NEW b
  PROVE  DecodeProfile(b) # None => ProfileStands(b)
<1>1. MAX_NAME_BYTES = 32 /\ ALL_MISSING = 63
  BY Sizes
<1> QED
  BY <1>1 DEF DecodeProfile, ProfileStands, Size

LEMMA ProfileAccepted ==
  ASSUME NEW b, IsText(b), b[1] = 1, ProfileStands(b)
  PROVE  /\ Sendable(DecodeProfile(b)) /\ DecodeProfile(b).type = "Profile"
         /\ ProfileAt(b, DecodeProfile(b))
<1> DEFINE node == Octets(b, 1, 17)  round == Octets(b, 17, 33)  missing == At(b, 33)
           name == From(b, 35)  p == Profile(node, round, missing, name)
<1>1. /\ Size(b) >= 35 /\ At(b, 33) <= ALL_MISSING /\ At(b, 34) \in 1 .. MAX_NAME_BYTES
      /\ Size(b) = 35 + At(b, 34) /\ Utf8(name) /\ DecodeProfile(b) = p
  <2>1. MAX_NAME_BYTES = 32 /\ ALL_MISSING = 63
    BY Sizes
  <2> QED
    BY <2>1 DEF DecodeProfile, ProfileStands, Size
<1>2. IsText(node) /\ Size(node) = 16 /\ Holds(b, 1, node)
  BY <1>1, SizeType, Cut
<1>3. IsText(round) /\ Size(round) = 16 /\ Holds(b, 17, round)
  BY <1>1, SizeType, Cut
<1>4. IsText(name) /\ Size(name) = Size(b) - 35 /\ Holds(b, 35, name)
  BY <1>1, SizeType, Cut, FromIs
<1>5. b[34] = missing /\ b[35] = At(b, 34) /\ missing \in 0 .. ALL_MISSING
  <2>1. b[34] = missing /\ b[35] = At(b, 34)
    BY DEF At
  <2>2. 34 \in 1 .. Len(b)
    BY <1>1, SizeType DEF Size
  <2>3. b[34] \in Octet
    BY <2>2 DEF IsText
  <2> QED
    BY <1>1, <2>1, <2>3, Sizes DEF Octet
<1> HIDE DEF node, round, missing, name
<1>6. p \in Packet
  <2>1. node \in Identity /\ round \in Identity /\ name \in Seq(Octet)
    BY <1>2, <1>3, <1>4, IdentityIs DEF IsText
  <2> QED
    BY <1>5, <2>1 DEF Packet, Profile
<1>7. /\ p.type = "Profile" /\ p.node = node /\ p.round = round /\ p.missing = missing
      /\ p.name = name
  BY DEF Profile
<1> HIDE DEF p
<1>8. Size(name) = At(b, 34) /\ Size(name) \in 1 .. 32
  BY <1>1, <1>4, Sizes, SizeType
<1>9. Sendable(p)
  <2>1. Encodable(p)
    BY <1>5, <1>7, <1>8, Sizes DEF Encodable, Size
  <2> QED
    BY <1>1, <1>6, <1>7, <2>1 DEF Sendable, Texts
<1>10. ProfileAt(b, p)
  BY <1>1, <1>2, <1>3, <1>4, <1>5, <1>7, <1>8 DEF ProfileAt
<1> QED
  BY <1>1, <1>7, <1>9, <1>10

LEMMA GiftDecoded ==
  ASSUME NEW b, NEW p, Sendable(p), p.type = "Gift", GiftAt(b, p)
  PROVE  DecodeGift(b) = p
<1>1. p \in Packet /\ p.type # "Profile"
  BY DEF Sendable
<1>2. /\ p = Gift(p.round, p.phrase) /\ IsText(p.round) /\ Size(p.round) = 16
      /\ p.phrase # None =>
           /\ p.phrase = [slot |-> p.phrase.slot, text |-> p.phrase.text]
           /\ p.phrase.slot \in 0 .. 5 /\ IsText(p.phrase.text)
  BY <1>1, PacketFields
<1>3. IsText(b) /\ Holds(b, 1, p.round)
  BY DEF GiftAt
<1>4. Size(b) \in Nat /\ Size(b) >= 19
  <2>1. CASE p.phrase = None
    BY <2>1 DEF GiftAt
  <2>2. CASE p.phrase # None
    BY <1>2, <2>2, SizeType DEF GiftAt
  <2> QED
    BY <2>1, <2>2
<1>5. Octets(b, 1, 17) = p.round
  <2>1. IsText(b)
    BY <1>3
  <2>2. IsText(Octets(b, 1, 17)) /\ Size(Octets(b, 1, 17)) = 16 /\ Holds(b, 1, Octets(b, 1, 17))
    BY <1>4, <2>1, Cut
  <2> QED
    BY <1>2, <1>3, <2>2, SameAt
<1>6. Len(b) = Size(b) /\ At(b, 17) = b[18] /\ At(b, 18) = b[19]
  BY DEF Size, At
<1>7. CASE p.phrase = None
  <2>1. Size(b) = 19 /\ At(b, 17) = NO_GIFT /\ At(b, 18) = 0
    BY <1>6, <1>7, Sizes DEF GiftAt
  <2>2. GiftFits(b)
    BY <1>6, <2>1, Sizes DEF GiftFits
  <2> QED
    BY <1>2, <1>5, <1>7, <2>1, <2>2 DEF DecodeGift
<1>8. CASE p.phrase # None
  <2> DEFINE slot == p.phrase.slot  text == p.phrase.text  s == Octets(b, 19, Size(b))
  <2>1. /\ Size(b) = 19 + Size(text) /\ b[18] = slot /\ b[19] = Size(text) /\ Holds(b, 19, text)
        /\ p.phrase = [slot |-> slot, text |-> text] /\ slot \in 0 .. 5 /\ IsText(text)
    BY <1>2, <1>8 DEF GiftAt
  <2>2. Size(text) \in 1 .. 64 /\ Utf8(text)
    BY <1>1, <1>8, Sizes DEF Sendable, Encodable, Texts, Size
  <2>3. IsText(s) /\ Size(s) = Size(b) - 19 /\ Holds(b, 19, s)
    <3>1. IsText(b)
      BY <1>3
    <3> QED
      BY <1>4, <3>1, Cut
  <2> HIDE DEF s, slot, text
  <2>4. s = text
    <3>1. Size(s) = Size(text)
      BY <2>1, <2>2, <2>3
    <3> QED
      BY <2>1, <2>3, <3>1, SameAt
  <2>5. From(b, 19) = text
    BY <2>4, FromIs DEF s
  <2>6. At(b, 17) = slot /\ At(b, 18) = Size(text)
    BY <1>6, <2>1
  <2>7. GiftFits(b)
    <3>1. Size(b) >= 19 /\ At(b, 18) <= 64 /\ Size(b) = 19 + At(b, 18)
      BY <1>4, <2>1, <2>2, <2>6
    <3>2. At(b, 18) <= MAX_PHRASE_BYTES
      BY <3>1, Sizes
    <3> QED
      BY <1>6, <3>1, <3>2 DEF GiftFits
  <2>8. ~(At(b, 17) = NO_GIFT /\ At(b, 18) = 0)
    BY <2>2, <2>6
  <2>9. PhraseAllowed(At(b, 17), From(b, 19))
    <3>1. slot < SLOT_COUNT
      BY <2>1, Sizes
    <3>2. Len(text) \in 1 .. MAX_PHRASE_BYTES
      BY <2>2, Sizes DEF Size
    <3> QED
      BY <2>2, <2>5, <2>6, <3>1, <3>2 DEF PhraseAllowed
  <2>10. DecodeGift(b) = Gift(Octets(b, 1, 17), [slot |-> At(b, 17), text |-> From(b, 19)])
    BY <2>7, <2>8, <2>9 DEF DecodeGift
  <2> QED
    BY <1>2, <1>5, <2>1, <2>5, <2>6, <2>10
<1> QED
  BY <1>7, <1>8

GiftStands(b) ==
  /\ Size(b) >= 19 /\ At(b, 18) <= 64 /\ Size(b) = 19 + At(b, 18)
  /\ \/ At(b, 17) = 255 /\ At(b, 18) = 0
     \/ PhraseAllowed(At(b, 17), From(b, 19))

LEMMA GiftStandsIs ==
  ASSUME NEW b
  PROVE  DecodeGift(b) # None => GiftStands(b)
<1>1. MAX_PHRASE_BYTES = 64 /\ NO_GIFT = 255
  BY Sizes
<1> QED
  BY <1>1 DEF DecodeGift, GiftFits, GiftStands, Size

LEMMA GiftAccepted ==
  ASSUME NEW b, IsText(b), b[1] = 2, GiftStands(b)
  PROVE  /\ Sendable(DecodeGift(b)) /\ DecodeGift(b).type = "Gift"
         /\ GiftAt(b, DecodeGift(b))
<1> DEFINE round == Octets(b, 1, 17)  slot == At(b, 17)  size == At(b, 18)  text == From(b, 19)
<1>1. Size(b) >= 19 /\ Size(b) = 19 + size /\ size <= 64 /\ Size(b) \in Nat
  BY SizeType DEF GiftStands
<1>1a. GiftFits(b) /\ ((slot = NO_GIFT /\ size = 0) \/ PhraseAllowed(slot, text))
  BY Sizes DEF GiftStands, GiftFits, Size
<1>2. slot = b[18] /\ size = b[19]
  BY DEF At
<1>3. IsText(round) /\ Size(round) = 16 /\ Holds(b, 1, round)
  BY <1>1, Cut
<1>4. IsText(text) /\ Size(text) = Size(b) - 19 /\ Holds(b, 19, text)
  BY <1>1, Cut, FromIs
<1>5. slot \in Octet /\ size \in Octet
  <2>1. 18 \in 1 .. Len(b) /\ 19 \in 1 .. Len(b)
    BY <1>1 DEF Size
  <2> QED
    BY <1>2, <2>1 DEF IsText
<1>6. round \in Identity
  BY <1>3, IdentityIs
<1>7. CASE slot = NO_GIFT /\ size = 0
  <2> DEFINE p == Gift(round, None)
  <2>1. DecodeGift(b) = p
    BY <1>1a, <1>7 DEF DecodeGift
  <2> HIDE DEF round, slot, size, text
  <2>2. p \in Packet /\ p.type = "Gift" /\ p.round = round /\ p.phrase = None
    BY <1>6 DEF Gift, Packet
  <2> HIDE DEF p
  <2>3. Sendable(p)
    BY <2>2 DEF Sendable, Encodable, Texts
  <2>4. Size(b) = 19 /\ b[18] = 255 /\ b[19] = 0
    BY <1>1, <1>2, <1>7, Sizes
  <2>5. GiftAt(b, p)
    BY <1>3, <2>2, <2>4 DEF GiftAt
  <2> QED
    BY <2>1, <2>2, <2>3, <2>5
<1>8. CASE ~(slot = NO_GIFT /\ size = 0)
  <2> DEFINE phrase == [slot |-> slot, text |-> text]  p == Gift(round, phrase)
  <2>1. DecodeGift(b) = p /\ PhraseAllowed(slot, text)
    BY <1>1a, <1>8 DEF DecodeGift
  <2> HIDE DEF round, slot, size, text
  <2>2. Utf8(text) /\ Size(text) \in 1 .. 64 /\ slot < 6
    BY <2>1, Sizes DEF PhraseAllowed, Size
  <2>3. phrase \in Phrase /\ phrase.slot = slot /\ phrase.text = text
    <3>1. slot \in 0 .. 5
      BY <1>5, <2>2 DEF Octet
    <3>2. SLOT_COUNT - 1 = 5
      BY Sizes
    <3>3. text \in Seq(Octet)
      BY <1>4 DEF IsText
    <3> QED
      BY <3>1, <3>2, <3>3 DEF Phrase
  <2>4. phrase # None
    BY <2>3, StreamsAssumption
  <2> HIDE DEF phrase
  <2>5. p \in Packet /\ p.type = "Gift" /\ p.round = round /\ p.phrase = phrase
    BY <1>6, <2>3 DEF Gift, Packet
  <2> HIDE DEF p
  <2>6. Sendable(p)
    BY <2>2, <2>3, <2>4, <2>5, Sizes DEF Sendable, Encodable, Texts, Size
  <2>7. Size(b) = 19 + Size(text) /\ b[18] = slot /\ b[19] = Size(text)
    BY <1>1, <1>2, <1>4, <1>5 DEF Octet
  <2>8. GiftAt(b, p)
    BY <1>3, <1>4, <2>3, <2>4, <2>5, <2>7 DEF GiftAt
  <2> QED
    BY <2>1, <2>5, <2>6, <2>8
<1> QED
  BY <1>7, <1>8

(* The layout leaves no choice of an octet.                                *)
LEMMA ProfileOctets ==
  ASSUME NEW b, NEW c, NEW p, ProfileAt(b, p), ProfileAt(c, p),
         Size(p.node) = 16, Size(p.round) = 16, Size(p.name) \in Nat
  PROVE  b = c
<1> DEFINE name == p.name  n == Size(name)
<1>1. n \in Nat /\ Size(b) = 35 + n /\ Size(c) = 35 + n /\ IsText(b) /\ IsText(c)
  BY DEF ProfileAt
<1>2. \A i \in 1 .. 16 : b[1 + i] = c[1 + i] /\ b[17 + i] = c[17 + i]
  BY DEF ProfileAt, Holds
<1>3. \A i \in 1 .. n : b[35 + i] = c[35 + i]
  BY DEF ProfileAt, Holds
<1>4. b[1] = c[1] /\ b[34] = c[34] /\ b[35] = c[35]
  BY DEF ProfileAt
<1> HIDE DEF name, n
<1>5. ASSUME NEW i \in 1 .. 35 + n PROVE b[i] = c[i]
  <2>1. CASE i \in 2 .. 17
    <3>1. i - 1 \in 1 .. 16 /\ 1 + (i - 1) = i
      BY <2>1
    <3> QED
      BY <1>2, <3>1
  <2>2. CASE i \in 18 .. 33
    <3>1. i - 17 \in 1 .. 16 /\ 17 + (i - 17) = i
      BY <2>2
    <3> QED
      BY <1>2, <3>1
  <2>3. CASE i > 35
    <3>1. i - 35 \in 1 .. n /\ 35 + (i - 35) = i
      BY <1>1, <2>3
    <3> QED
      BY <1>3, <3>1
  <2> QED
    BY <1>4, <2>1, <2>2, <2>3
<1> QED
  BY <1>1, <1>5, SameText

LEMMA GiftOctets ==
  ASSUME NEW b, NEW c, NEW p, GiftAt(b, p), GiftAt(c, p), Size(p.round) = 16,
         p.phrase # None => Size(p.phrase.text) \in Nat
  PROVE  b = c
<1> DEFINE n == IF p.phrase = None THEN 0 ELSE Size(p.phrase.text)
<1>1. n \in Nat
  OBVIOUS
<1>2. /\ IsText(b) /\ IsText(c) /\ b[1] = c[1]
      /\ \A i \in 1 .. 16 : b[1 + i] = c[1 + i]
  BY DEF GiftAt, Holds
<1>3. /\ Size(b) = 19 + n /\ Size(c) = 19 + n /\ b[18] = c[18] /\ b[19] = c[19]
      /\ \A i \in 1 .. n : b[19 + i] = c[19 + i]
  BY DEF GiftAt, Holds
<1> HIDE DEF n
<1>4. ASSUME NEW i \in 1 .. 19 + n PROVE b[i] = c[i]
  <2>1. CASE i \in 2 .. 17
    <3>1. i - 1 \in 1 .. 16 /\ 1 + (i - 1) = i
      BY <2>1
    <3> QED
      BY <1>2, <3>1
  <2>2. CASE i > 19
    <3>1. i - 19 \in 1 .. n /\ 19 + (i - 19) = i
      BY <1>1, <2>2
    <3> QED
      BY <1>3, <3>1
  <2> QED
    BY <1>2, <1>3, <2>1, <2>2
<1> QED
  BY <1>1, <1>2, <1>3, <1>4, SameText

-----------------------------------------------------------------------------
(* decode undoes encode. *)

LEMMA EncodedAt ==
  ASSUME NEW p, Sendable(p)
  PROVE  /\ p.type = "Profile" => ProfileAt(Encode(p), p)
         /\ p.type # "Profile" => p.type = "Gift" /\ GiftAt(Encode(p), p)
         /\ p \in Packet /\ p # None
         /\ p.type = "Profile" => Size(p.name) \in Nat /\ Size(p.name) > 0
         /\ p.type # "Profile" /\ p.phrase # None =>
              Size(p.phrase.text) \in Nat /\ Size(p.phrase.text) > 0
<1>1. p \in Packet /\ Encodable(p)
  BY DEF Sendable
<1>2. p # None
  BY <1>1, StreamsAssumption
<1>3. p.type # "Profile" => p.type = "Gift"
  BY <1>1, PacketFields
<1>4. /\ p.type = "Profile" => Size(p.name) \in 1 .. 32
      /\ p.type # "Profile" /\ p.phrase # None => Size(p.phrase.text) \in 1 .. 64
  BY <1>1, Sizes DEF Encodable, Size
<1>5. /\ p.type = "Profile" => Size(p.name) \in Nat /\ Size(p.name) > 0
      /\ p.type # "Profile" /\ p.phrase # None =>
           Size(p.phrase.text) \in Nat /\ Size(p.phrase.text) > 0
  BY <1>4
<1> QED
  BY <1>1, <1>2, <1>3, <1>5, EncodeProfile, EncodeGift

LEMMA DecodeIs ==
  ASSUME NEW b
  PROVE  /\ b[1] = 1 => Decode(b) = DecodeProfile(b)
         /\ b[1] = 2 => Decode(b) = DecodeGift(b)
         /\ ~(b[1] = 1 \/ b[1] = 2) => Decode(b) = None
<1> DEFINE p == DecodeProfile(b)  g == DecodeGift(b)
<1>1. Decode(b) = CASE b[1] = 1 -> p [] b[1] = 2 -> g [] OTHER -> None
  BY Sizes DEF Decode, At
<1> HIDE DEF p, g
<1> QED
  BY <1>1 DEF p, g

(* Packet::decode gives back whatever Packet::encode was given.            *)
THEOREM DecodeEncode ==
  ASSUME NEW p, Sendable(p)
  PROVE  Decode(Encode(p)) = p
<1>1. CASE p.type = "Profile"
  <2>1. ProfileAt(Encode(p), p)
    BY <1>1, EncodedAt
  <2>2. Encode(p)[1] = 1
    BY <2>1 DEF ProfileAt
  <2> QED
    BY <1>1, <2>1, <2>2, ProfileDecoded, DecodeIs
<1>2. CASE p.type # "Profile"
  <2>1. GiftAt(Encode(p), p) /\ p.type = "Gift"
    BY <1>2, EncodedAt
  <2>2. Encode(p)[1] = 2
    BY <2>1 DEF GiftAt
  <2> QED
    BY <2>1, <2>2, GiftDecoded, DecodeIs
<1> QED
  BY <1>1, <1>2

(* Octets that Packet::decode accepts are those Packet::encode makes of the *)
(* packet: no packet has two encodings.                                    *)
THEOREM EncodeDecode ==
  ASSUME NEW b, b \in Seq(Octet), Decode(b) # None
  PROVE  Sendable(Decode(b)) /\ Encode(Decode(b)) = b
<1> DEFINE p == Decode(b)
<1>1. IsText(b)
  BY DEF IsText
<1>2. CASE b[1] = 1
  <2>1. p = DecodeProfile(b)
    BY <1>2, DecodeIs
  <2>2. Sendable(p) /\ p.type = "Profile" /\ ProfileAt(b, p)
    BY <1>1, <1>2, <2>1, ProfileAccepted, ProfileStandsIs
  <2> HIDE DEF p
  <2>3. ProfileAt(Encode(p), p) /\ Size(p.name) \in Nat
    BY <2>2, EncodedAt
  <2>4. Size(p.node) = 16 /\ Size(p.round) = 16
    BY <2>2, PacketFields DEF Sendable
  <2>5. Encode(p) = b
    BY <2>2, <2>3, <2>4, ProfileOctets
  <2> QED
    BY <2>2, <2>5 DEF p
<1>3. CASE b[1] = 2
  <2>1. p = DecodeGift(b)
    BY <1>3, DecodeIs
  <2>2. Sendable(p) /\ p.type = "Gift" /\ GiftAt(b, p)
    BY <1>1, <1>3, <2>1, GiftAccepted, GiftStandsIs
  <2> HIDE DEF p
  <2>3. GiftAt(Encode(p), p) /\ p \in Packet 
    <3>1. p.type # "Profile"
      BY <2>2
    <3> QED
      BY <2>2, <3>1, EncodedAt
  <2>3a. p.phrase # None => Size(p.phrase.text) \in Nat
    <3>1. p.type # "Profile"
      BY <2>2
    <3> QED
      BY <2>2, <3>1, EncodedAt
  <2>4. Size(p.round) = 16
    BY <2>2, PacketFields DEF Sendable
  <2>5. Encode(p) = b
    BY <2>2, <2>3, <2>3a, <2>4, GiftOctets
  <2> QED
    BY <2>2, <2>5 DEF p
<1>4. b[1] = 1 \/ b[1] = 2
  BY DecodeIs
<1> QED
  BY <1>2, <1>3, <1>4

-----------------------------------------------------------------------------
(* decode of the CLI and decode of the Tab5. *)

LEMMA AcceptedIfStanding ==
  ASSUME NEW b, IsText(b)
  PROVE  /\ b[1] = 1 => (DecodeProfile(b) # None <=> ProfileStands(b))
         /\ b[1] = 2 => (DecodeGift(b) # None <=> GiftStands(b))
<1>1. ASSUME b[1] = 1, ProfileStands(b) PROVE DecodeProfile(b) # None
  <2>1. DecodeProfile(b) \in Packet
    BY <1>1, ProfileAccepted DEF Sendable
  <2> QED
    BY <2>1, StreamsAssumption
<1>2. ASSUME b[1] = 2, GiftStands(b) PROVE DecodeGift(b) # None
  <2>1. DecodeGift(b) \in Packet
    BY <1>2, GiftAccepted DEF Sendable
  <2> QED
    BY <2>1, StreamsAssumption
<1> QED
  BY <1>1, <1>2, ProfileStandsIs, GiftStandsIs

LEMMA ProfilesAgree ==
  ASSUME NEW b, IsText(b)
  PROVE  Tab5RefusesProfile(b) <=> ~ProfileStands(b)
<1> DEFINE size == Size(b)  missing == At(b, 33)  length == At(b, 34)  name == From(b, 35)
<1>1. Tab5RefusesProfile(b) <=>
        \/ size < 35 \/ missing > 63 \/ length = 0 \/ length > 32 \/ size # 35 + length
        \/ ~ValidUtf8(name)
  <2>1. MAX_NAME_BYTES = 32 /\ ALL_MISSING = 63
    BY Sizes
  <2> QED
    BY <2>1 DEF Tab5RefusesProfile, Size
<1>2. ProfileStands(b) <=>
        size >= 35 /\ missing <= 63 /\ length \in 1 .. 32 /\ size = 35 + length /\ Utf8(name)
  BY DEF ProfileStands
<1>3. size \in Nat
  BY SizeType
<1>4. size >= 35 => missing \in Nat /\ length \in Nat /\ (Utf8(name) <=> ValidUtf8(name))
  <2>1. ASSUME size >= 35 PROVE missing \in Nat /\ length \in Nat
    <3>1. 34 \in 1 .. Len(b) /\ 35 \in 1 .. Len(b)
      BY <1>3, <2>1 DEF Size
    <3>2. b[34] \in Octet /\ b[35] \in Octet
      BY <3>1 DEF IsText
    <3> QED
      BY <3>2 DEF At, Octet
  <2>2. ASSUME size >= 35 PROVE Utf8(name) <=> ValidUtf8(name)
    <3>1. IsText(name)
      BY <1>3, <2>2, Cut, FromIs
    <3> QED
      BY <3>1, Utf8Agrees DEF IsText
  <2> QED
    BY <2>1, <2>2
<1> HIDE DEF size, missing, length, name
<1>5. CASE size < 35
  BY <1>1, <1>2, <1>3, <1>5
<1>6. CASE size >= 35
  <2>1. missing \in Nat /\ length \in Nat /\ (Utf8(name) <=> ValidUtf8(name))
    BY <1>4, <1>6
  <2> QED
    BY <1>1, <1>2, <1>3, <1>6, <2>1
<1> QED
  BY <1>3, <1>5, <1>6

LEMMA PhrasesAgree ==
  ASSUME NEW slot \in Nat, NEW text, IsText(text)
  PROVE  Tab5RefusesPhrase(slot, text) <=> ~PhraseAllowed(slot, text)
<1>1. Size(text) \in Nat /\ Len(text) = Size(text)
  BY SizeType DEF Size
<1>2. text = <<>> <=> Size(text) = 0
  <2>1. text \in Seq(Octet)
    BY DEF IsText
  <2> QED
    BY <2>1, EmptySeq DEF Size
<1>3. Utf8(text) <=> ValidUtf8(text)
  BY Utf8Agrees DEF IsText
<1>4. MAX_PHRASE_BYTES = 64 /\ SLOT_COUNT = 6
  BY Sizes
<1>5. PhraseAllowed(slot, text) <=> slot < 6 /\ Utf8(text) /\ Size(text) \in 1 .. 64
  BY <1>1, <1>4 DEF PhraseAllowed
<1>6. Tab5RefusesPhrase(slot, text) <=>
        slot >= 6 \/ Size(text) = 0 \/ Size(text) > 64 \/ ~ValidUtf8(text)
  BY <1>1, <1>2, <1>4 DEF Tab5RefusesPhrase
<1> DEFINE size == Size(text)
<1>7. size \in Nat /\ (size \in 1 .. 64 <=> ~(size = 0 \/ size > 64))
  <2> HIDE DEF size
  <2>1. size \in Nat
    BY <1>1 DEF size
  <2> QED
    BY <2>1
<1>8. slot < 6 <=> ~(slot >= 6)
  OBVIOUS
<1> QED
  BY <1>3, <1>5, <1>6, <1>7, <1>8, Zenon

LEMMA GiftsAgree ==
  ASSUME NEW b, IsText(b)
  PROVE  Tab5RefusesGift(b) <=> ~GiftStands(b)
<1> DEFINE size == Size(b)  slot == At(b, 17)  length == At(b, 18)  text == From(b, 19)
           cut == Octets(b, 19, 19 + length)
<1>1. Tab5RefusesGift(b) <=>
        \/ size < 19 \/ length > 64 \/ size # 19 + length
        \/ IF slot = 255 THEN length # 0 ELSE Tab5RefusesPhrase(slot, cut)
  <2>1. MAX_PHRASE_BYTES = 64 /\ NO_GIFT = 255
    BY Sizes
  <2> QED
    BY <2>1 DEF Tab5RefusesGift, Size
<1>2. GiftStands(b) <=>
        /\ size >= 19 /\ length <= 64 /\ size = 19 + length
        /\ (slot = 255 /\ length = 0) \/ PhraseAllowed(slot, text)
  BY DEF GiftStands
<1>3. size \in Nat
  BY SizeType
<1>4. ASSUME size >= 19 PROVE slot \in Nat /\ length \in Nat /\ IsText(text)
  <2>1. 18 \in 1 .. Len(b) /\ 19 \in 1 .. Len(b)
    BY <1>3, <1>4 DEF Size
  <2>2. b[18] \in Octet /\ b[19] \in Octet
    BY <2>1 DEF IsText
  <2>3. IsText(text)
    BY <1>3, <1>4, Cut, FromIs
  <2> QED
    BY <2>2, <2>3 DEF At, Octet
<1>5. size = 19 + length => cut = text
  BY FromIs
<1>6. ~PhraseAllowed(255, text)
  <2>1. SLOT_COUNT = 6
    BY Sizes
  <2> QED
    BY <2>1 DEF PhraseAllowed
<1> HIDE DEF size, slot, length, text, cut
<1>7. CASE size < 19
  BY <1>1, <1>2, <1>3, <1>7
<1>8. CASE size >= 19
  <2>1. slot \in Nat /\ length \in Nat
    BY <1>4, <1>8
  <2>2. Tab5RefusesPhrase(slot, text) <=> ~PhraseAllowed(slot, text)
    BY <1>4, <1>8, PhrasesAgree
  <2> QED
    BY <1>1, <1>2, <1>3, <1>5, <1>6, <1>8, <2>1, <2>2
<1> QED
  BY <1>3, <1>7, <1>8

(* decode of the CLI (protocol.rs) and decode of the Tab5 (protocol.cpp),   *)
(* written apart, accept the same octets.                                  *)
THEOREM DecodersAgree ==
  ASSUME NEW b \in Seq(Octet)
  PROVE  Decode(b) = None <=> Tab5Refuses(b)
<1>1. IsText(b)
  BY DEF IsText
<1>2. /\ b[1] = 1 => (Tab5Refuses(b) <=> Tab5RefusesProfile(b))
      /\ b[1] = 2 => (Tab5Refuses(b) <=> Tab5RefusesGift(b))
      /\ ~(b[1] = 1 \/ b[1] = 2) => Tab5Refuses(b)
  <2> DEFINE p == Tab5RefusesProfile(b)  g == Tab5RefusesGift(b)
  <2>1. Tab5Refuses(b) <=> CASE b[1] = 1 -> p [] b[1] = 2 -> g [] OTHER -> TRUE
    BY Sizes DEF Tab5Refuses, At
  <2> HIDE DEF p, g
  <2> QED
    BY <2>1 DEF p, g
<1> QED
  BY <1>1, <1>2, DecodeIs, AcceptedIfStanding, ProfilesAgree, GiftsAgree

(* A packet with an octet more is none.                                    *)
LEMMA Padded ==
  ASSUME NEW p, Sendable(p), NEW c, IsText(c), Size(c) = Size(Encode(p)) + 1,
         Holds(c, 0, Encode(p))
  PROVE  Decode(c) = None
<1> DEFINE b == Encode(p)
<1>1. CASE p.type = "Profile"
  <2>1. ProfileAt(b, p) /\ Size(p.name) \in Nat
    BY <1>1, EncodedAt
  <2> HIDE DEF b
  <2>2. Size(b) \in Nat /\ Size(b) = 35 + b[35] /\ b[1] = 1
    BY <2>1 DEF ProfileAt
  <2>3. c[1] = 1 /\ c[35] = b[35]
    <3>1. 1 \in 1 .. Size(b) /\ 35 \in 1 .. Size(b)
      BY <2>1, <2>2 DEF ProfileAt
    <3> QED
      BY <2>2, <3>1 DEF Holds, b
  <2>4. ~ProfileStands(c)
    BY <2>2, <2>3 DEF ProfileStands, At, b
  <2> QED
    BY <2>3, <2>4, DecodeIs, ProfileStandsIs
<1>2. CASE p.type # "Profile"
  <2>1. GiftAt(b, p) /\ (p.phrase # None => Size(p.phrase.text) \in Nat)
    BY <1>2, EncodedAt
  <2> HIDE DEF b
  <2>2. Size(b) \in Nat /\ Size(b) >= 19 /\ Size(b) = 19 + b[19] /\ b[1] = 2
    BY <2>1 DEF GiftAt
  <2>3. c[1] = 2 /\ c[19] = b[19]
    <3>1. 1 \in 1 .. Size(b) /\ 19 \in 1 .. Size(b)
      BY <2>2
    <3> QED
      BY <2>2, <3>1 DEF Holds, b
  <2>4. ~GiftStands(c)
    BY <2>2, <2>3 DEF GiftStands, At, b
  <2> QED
    BY <2>3, <2>4, DecodeIs, GiftStandsIs
<1> QED
  BY <1>1, <1>2

-----------------------------------------------------------------------------
(* Frames. *)

LEMMA FrameCount ==
  ASSUME NEW n \in Nat
  PROVE  /\ FramesFor(n) \in Nat /\ (FramesFor(n) = 0 <=> n = 0)
         /\ \A i \in Nat : i < FramesFor(n) <=> 12 * i < n
<1>1. FramesFor(n) = (n + 11) \div 12
  BY Sizes DEF FramesFor
<1> DEFINE q == (n + 11) \div 12
<1>2. q \in Int /\ 12 * q <= n + 11 /\ n + 11 < 12 * q + 12
  OBVIOUS
<1> HIDE DEF q
<1>3. FramesFor(n) = q
  BY <1>1 DEF q
<1> QED
  BY <1>2, <1>3

(* The count of the frames tells where the last of them begins.            *)
LEMMA CountIs ==
  ASSUME NEW n \in Nat, NEW i \in Nat, 12 * i < n, n <= 12 * i + 12
  PROVE  FramesFor(n) = i + 1
<1>1. FramesFor(n) \in Nat /\ i < FramesFor(n) /\ ~(i + 1 < FramesFor(n))
  BY FrameCount
<1> QED
  BY <1>1

(* What a frame of b carries: what stands in b from its place on, or that  *)
(* and an octet more.                                                      *)
Carries(f, b) ==
  /\ IsText(f.chunk) /\ f.seq \in Nat /\ f.count \in Nat /\ 12 * f.seq < Size(b)
  /\ \/ Holds(b, 12 * f.seq, f.chunk) /\ 12 * f.seq + Size(f.chunk) <= Size(b)
     \/ \E t : /\ IsText(t) /\ Holds(b, 12 * f.seq, t) /\ Holds(f.chunk, 0, t)
               /\ Size(f.chunk) = Size(t) + 1
               /\ Size(t) = 12 \/ 12 * f.seq + Size(t) = Size(b)

LEMMA FrameIs ==
  ASSUME NEW b, IsText(b), NEW x, NEW i \in 0 .. FramesFor(Size(b)) - 1
  PROVE  LET f == Frame(b, x, i)
             last == IF 12 * i + 12 < Size(b) THEN 12 * i + 12 ELSE Size(b)
         IN  /\ f = [kind |-> "DATA", exchange |-> x, seq |-> i, count |-> FramesFor(Size(b)),
                     chunk |-> f.chunk]
             /\ 12 * i < Size(b) /\ IsText(f.chunk) /\ Size(f.chunk) = last - 12 * i
             /\ Holds(b, 12 * i, f.chunk)
<1> DEFINE m == 12 * i  last == IF 12 * i + 12 < Size(b) THEN 12 * i + 12 ELSE Size(b)
<1>1. Size(b) \in Nat /\ FramesFor(Size(b)) \in Nat
  BY SizeType, FrameCount
<1>2. i \in Nat /\ 12 * i < Size(b)
  BY <1>1, FrameCount
<1>3. m \in Nat /\ last \in Nat /\ m <= last /\ last <= Size(b)
  BY <1>1, <1>2
<1> DEFINE chunk == Octets(b, m, last)
<1>4. IsText(chunk) /\ Size(chunk) = last - m /\ Holds(b, m, chunk)
  <2> HIDE DEF m, last
  <2> QED
    BY <1>3, Cut
<1>5. Frame(b, x, i) = [kind |-> "DATA", exchange |-> x, seq |-> i, count |-> FramesFor(Size(b)),
                        chunk |-> chunk]
  <2>1. CHUNK = 12
    BY Sizes
  <2>2. i * CHUNK = 12 * i /\ (i + 1) * CHUNK = 12 * i + 12
    BY <1>2, <2>1
  <2> QED
    BY <2>2 DEF Frame, Size
<1> HIDE DEF chunk
<1> QED
  BY <1>2, <1>4, <1>5

LEMMA FrontIs ==
  ASSUME NEW t, IsText(t), Size(t) > 0
  PROVE  IsText(Front(t)) /\ Size(Front(t)) = Size(t) - 1 /\ Holds(t, 0, Front(t))
<1>1. Size(t) \in Nat
  BY SizeType
<1>2. Front(t) = Octets(t, 0, Size(t) - 1)
  BY <1>1 DEF Front, Octets, Size
<1> QED
  BY <1>1, <1>2, Cut

LEMMA AppendIs ==
  ASSUME NEW t, IsText(t)
  PROVE  /\ IsText(Append(t, 0)) /\ Size(Append(t, 0)) = Size(t) + 1
         /\ Holds(Append(t, 0), 0, t)
<1>1. t \in Seq(Octet) /\ 0 \in Octet
  BY DEF IsText, Octet
<1>2. Append(t, 0) \in Seq(Octet) /\ Len(Append(t, 0)) = Len(t) + 1
  BY <1>1, AppendProperties
<1>3. \A i \in 1 .. Len(t) : Append(t, 0)[i] = t[i]
  BY <1>1, AppendProperties
<1>4. \A i \in 1 .. Len(t) : Append(t, 0)[0 + i] = t[i]
  BY <1>1, <1>3
<1> QED
  BY <1>2, <1>4 DEF IsText, Size, Holds

LEMMA HoldsIn ==
  ASSUME NEW b, NEW first, NEW t, NEW s, IsText(t), IsText(s), Holds(b, first, t), Holds(t, 0, s),
         Size(s) <= Size(t)
  PROVE  Holds(b, first, s)
<1>1. Size(s) \in Nat /\ Size(t) \in Nat
  BY SizeType
<1>2. ASSUME NEW i \in 1 .. Size(s) PROVE b[first + i] = s[i]
  <2>1. i \in 1 .. Size(t) /\ 0 + i = i
    BY <1>1
  <2> QED
    BY <2>1 DEF Holds
<1> QED
  BY <1>2 DEF Holds

LEMMA FramesCarry ==
  ASSUME NEW b, IsText(b), NEW x, NEW g \in Frames(b, x), NEW f \in {g} \cup Damaged(g)
  PROVE  Carries(f, b) /\ f.exchange = x
<1>1. PICK i \in 0 .. FramesFor(Size(b)) - 1 : g = Frame(b, x, i)
  BY DEF Frames, Size
<1> DEFINE last == IF 12 * i + 12 < Size(b) THEN 12 * i + 12 ELSE Size(b)
           n == FramesFor(Size(b))  c == g.chunk
<1>2. /\ g = [kind |-> "DATA", exchange |-> x, seq |-> i, count |-> n, chunk |-> c]
      /\ 12 * i < Size(b) /\ IsText(c) /\ Size(c) = last - 12 * i /\ Holds(b, 12 * i, c)
  BY <1>1, FrameIs
<1>3. Size(b) \in Nat /\ n \in Nat /\ i \in Nat
  BY SizeType, FrameCount
<1>4. Size(c) \in Nat /\ Size(c) > 0 /\ 12 * i + Size(c) <= Size(b)
      /\ (Size(c) = 12 \/ 12 * i + Size(c) = Size(b))
  BY <1>2, <1>3
<1> HIDE DEF c, n, last
<1>5. g.exchange = x /\ g.seq = i /\ g.count = n /\ g.kind = "DATA" /\ g.chunk = c
  BY <1>2
<1>6. DOMAIN g = {"kind", "exchange", "seq", "count", "chunk"}
  BY <1>2
<1>7. CASE f = g
  BY <1>2, <1>3, <1>4, <1>5, <1>7 DEF Carries
<1>8. CASE f = [g EXCEPT !.chunk = Front(@)]
  <2>1. f.exchange = x /\ f.seq = i /\ f.count = n /\ f.chunk = Front(c)
    BY <1>5, <1>6, <1>8
  <2>2. IsText(Front(c)) /\ Size(Front(c)) = Size(c) - 1 /\ Holds(c, 0, Front(c))
    BY <1>2, <1>4, FrontIs
  <2> DEFINE t == Front(c)
  <2> HIDE DEF t
  <2>3. Holds(b, 12 * i, t) /\ 12 * i + Size(t) <= Size(b)
    BY <1>2, <1>3, <1>4, <2>2, HoldsIn DEF t
  <2> QED
    BY <1>2, <1>3, <2>1, <2>2, <2>3 DEF Carries, t
<1>9. CASE f = [g EXCEPT !.chunk = Append(@, 0)]
  <2>1. f.exchange = x /\ f.seq = i /\ f.count = n /\ f.chunk = Append(c, 0)
    BY <1>5, <1>6, <1>9
  <2>2. IsText(Append(c, 0)) /\ Size(Append(c, 0)) = Size(c) + 1 /\ Holds(Append(c, 0), 0, c)
    BY <1>2, AppendIs
  <2> QED
    BY <1>2, <1>3, <1>4, <2>1, <2>2 DEF Carries
<1>10. CASE f = [g EXCEPT !.count = @ + 1]
  <2>1. f.exchange = x /\ f.seq = i /\ f.count = n + 1 /\ f.chunk = c
    BY <1>5, <1>6, <1>10
  <2> QED
    BY <1>2, <1>3, <1>4, <2>1 DEF Carries
<1>11. CASE f = [g EXCEPT !.kind = "ACK"]
  <2>1. f.exchange = x /\ f.seq = i /\ f.count = n /\ f.chunk = c
    BY <1>5, <1>6, <1>11
  <2> QED
    BY <1>2, <1>3, <1>4, <2>1 DEF Carries
<1> QED
  BY <1>7, <1>8, <1>9, <1>10, <1>11 DEF Damaged

LEMMA ArrivingIs ==
  ASSUME sent \in Streams, NEW f \in Arriving
  PROVE  \E k \in 1 .. 2 : Carries(f, sent[k].bytes) /\ f.exchange = sent[k].exchange
<1>1. PICK k \in 1 .. 2 : \E g \in Frames(sent[k].bytes, sent[k].exchange) :
                            f \in {g} \cup Damaged(g)
  BY DEF Arriving
<1>2. IsText(sent[k].bytes)
  BY StreamsAssumption DEF IsText
<1> QED
  BY <1>1, <1>2, FramesCarry

-----------------------------------------------------------------------------
(* The assembler. *)

(* The assembler is typed; without an exchange it is empty; it has counted *)
(* its octets, twelve to a frame but the last.                             *)
Assembled ==
  /\ sent \in Streams
  /\ IsText(assembler.bytes) /\ assembler.next \in Nat /\ assembler.count \in Nat
  /\ assembler.exchange = None => assembler = Empty
Counted ==
  /\ Size(assembler.bytes) <= 83
  /\ FramesFor(Size(assembler.bytes)) = assembler.next
  /\ assembler.next <= assembler.count
  /\ assembler.next = assembler.count \/ Size(assembler.bytes) = 12 * assembler.next
Decoded == out = IF Finished(assembler) THEN Decode(assembler.bytes) ELSE None

(* The octets are those of the exchange, up to where they are, or with one *)
(* more after all of them.                                                 *)
Fragment(bytes, b) ==
  \/ Size(bytes) <= Size(b) /\ Holds(b, 0, bytes)
  \/ Size(bytes) = Size(b) + 1 /\ Holds(bytes, 0, b)
Fragments ==
  sent[1].exchange # sent[2].exchange =>
    \A k \in 1 .. 2 :
      assembler.exchange = sent[k].exchange => Fragment(assembler.bytes, sent[k].bytes)

FramesInv == Assembled /\ Counted /\ Decoded /\ Fragments

LEMMA EmptyText == IsText(<<>>) /\ Size(<<>>) = 0
BY DEF IsText, Size

(* An accepted frame goes on where the assembler is, and fills its twelve  *)
(* octets or is the last.                                                  *)
LEMMA PushIs ==
  ASSUME Assembled, Counted, NEW f, Push(f), NEW b, IsText(b), Carries(f, b)
  PROVE  /\ assembler' = [exchange |-> f.exchange, count |-> f.count, next |-> f.seq + 1,
                          bytes |-> Glue(assembler.bytes, f.chunk)]
         /\ sent' = sent
         /\ f.seq \in Nat /\ f.count \in Nat /\ IsText(f.chunk)
         /\ f.seq < f.count /\ Size(assembler.bytes) = 12 * f.seq
         /\ Size(f.chunk) >= 1 /\ Size(f.chunk) <= 12
         /\ f.seq + 1 = f.count \/ Size(f.chunk) = 12
         /\ Size(assembler.bytes) + Size(f.chunk) <= 83
         /\ assembler.exchange # None => assembler.exchange = f.exchange
<1>1. f.seq \in Nat /\ f.count \in Nat /\ IsText(f.chunk)
  BY DEF Carries
<1>2. Size(f.chunk) \in Nat /\ Size(assembler.bytes) \in Nat
  BY <1>1, SizeType DEF Assembled
<1>3. /\ f.seq < f.count /\ Size(f.chunk) >= 1 /\ Size(f.chunk) <= 12
      /\ f.seq + 1 = f.count \/ Size(f.chunk) = 12
  <2> DEFINE m == Size(f.chunk)
  <2>1. CHUNK = 12 /\ Len(f.chunk) = m
    BY Sizes DEF Size
  <2>2. m \in 1 .. 12 /\ f.seq < f.count /\ (f.seq + 1 = f.count \/ m = 12)
    BY <2>1 DEF Push, Accepts, WellFormed
  <2> HIDE DEF m
  <2>3. m >= 1 /\ m <= 12
    BY <2>2
  <2> QED
    BY <2>2, <2>3 DEF m
<1>4. Size(assembler.bytes) + Size(f.chunk) <= 83
  BY Sizes DEF Push, Accepts, Fits, Size
<1>5. Size(assembler.bytes) = 12 * f.seq
  <2>1. f.seq = assembler.next
        /\ (assembler.exchange # None =>
              assembler.exchange = f.exchange /\ assembler.count = f.count)
    BY DEF Push, Accepts, Belongs
  <2>2. CASE assembler.exchange = None
    <3>1. assembler.bytes = <<>> /\ assembler.next = 0
      BY <2>2 DEF Assembled, Empty
    <3> QED
      BY <2>1, <3>1, EmptyText
  <2>3. CASE assembler.exchange # None
    BY <1>1, <1>3, <2>1, <2>3 DEF Counted
  <2> QED
    BY <2>2, <2>3
<1>6. assembler.exchange # None => assembler.exchange = f.exchange
  BY DEF Push, Accepts, Belongs
<1>7. sent' = sent /\ assembler' = [exchange |-> f.exchange, count |-> f.count, next |-> f.seq + 1,
                                    bytes |-> Glue(assembler.bytes, f.chunk)]
  BY DEF Push, Glue
<1> QED
  BY <1>1, <1>3, <1>4, <1>5, <1>6, <1>7

LEMMA FragmentsGrow ==
  ASSUME NEW b, IsText(b), NEW bytes, IsText(bytes), NEW f, Carries(f, b),
         Size(bytes) = 12 * f.seq, Size(f.chunk) <= 12, Fragment(bytes, b)
  PROVE  Fragment(Glue(bytes, f.chunk), b)
<1> DEFINE c == f.chunk  n == Size(bytes)  new == Glue(bytes, c)
<1>1. IsText(c) /\ f.seq \in Nat /\ n < Size(b)
  BY DEF Carries
<1>2. /\ IsText(new) /\ Size(new) = n + Size(c)
      /\ Holds(new, 0, bytes) /\ Holds(new, n, c)
  BY <1>1, Joined
<1>3. n \in Nat /\ Size(c) \in Nat /\ Size(b) \in Nat /\ Size(new) \in Nat
  BY <1>1, <1>2, SizeType
<1>4. Holds(b, 0, bytes)
  BY <1>1, <1>3 DEF Fragment
<1>5. /\ IsText(c)
      /\ \/ Holds(b, n, c) /\ n + Size(c) <= Size(b)
         \/ \E t : /\ IsText(t) /\ Holds(b, n, t) /\ Holds(c, 0, t)
                   /\ Size(c) = Size(t) + 1 /\ (Size(t) = 12 \/ n + Size(t) = Size(b))
  BY DEF Carries
<1> HIDE DEF c, n, new
<1>6. CASE Holds(b, n, c) /\ n + Size(c) <= Size(b)
  <2>1. ASSUME NEW i \in 1 .. Size(new) PROVE b[0 + i] = new[i]
    <3>1. CASE i \in 1 .. Size(bytes)
      BY <1>2, <1>4, <3>1 DEF Holds
    <3>2. CASE i > n
      <4>1. i - n \in 1 .. Size(c) /\ n + (i - n) = i /\ 0 + i = i
        BY <1>2, <1>3, <2>1, <3>2
      <4>2. b[n + (i - n)] = c[i - n] /\ new[n + (i - n)] = c[i - n]
        BY <1>2, <1>6, <4>1 DEF Holds
      <4> QED
        BY <4>1, <4>2
    <3> QED
      BY <1>3, <2>1, <3>1, <3>2 DEF n
  <2>2. Holds(b, 0, new)
    BY <2>1 DEF Holds
  <2> QED
    BY <1>2, <1>6, <2>2 DEF Fragment, new, c
<1>7. ASSUME NEW t, IsText(t), Holds(b, n, t), Holds(c, 0, t), Size(c) = Size(t) + 1,
             Size(t) = 12 \/ n + Size(t) = Size(b)
      PROVE  Fragment(Glue(bytes, f.chunk), b)
  <2>1. Size(t) \in Nat /\ Size(c) <= 12
    BY <1>7, SizeType DEF c
  <2>2. n + Size(t) = Size(b) /\ Size(new) = Size(b) + 1
    BY <1>2, <1>3, <1>7, <2>1
  <2>3. ASSUME NEW i \in 1 .. Size(b) PROVE new[0 + i] = b[i]
    <3>1. CASE i \in 1 .. Size(bytes)
      BY <1>2, <1>4, <3>1 DEF Holds
    <3>2. CASE i > n
      <4>1. i - n \in 1 .. Size(t) /\ n + (i - n) = i /\ 0 + i = i /\ 0 + (i - n) = i - n
        BY <1>3, <2>1, <2>2, <2>3, <3>2
      <4>2. i - n \in 1 .. Size(c)
        BY <1>7, <2>1, <4>1
      <4>3. b[n + (i - n)] = t[i - n] /\ new[n + (i - n)] = c[i - n] /\ c[0 + (i - n)] = t[i - n]
        BY <1>2, <1>7, <4>1, <4>2 DEF Holds
      <4> QED
        BY <4>1, <4>3
    <3> QED
      BY <1>3, <2>3, <3>1, <3>2 DEF n
  <2>4. Holds(new, 0, b)
    BY <2>3 DEF Holds
  <2> QED
    BY <2>2, <2>4 DEF Fragment, new, c
<1> QED
  BY <1>5, <1>6, <1>7

LEMMA InitFrames ==
  ASSUME Init
  PROVE  FramesInv
<1>1. sent \in Streams /\ assembler = Empty /\ out = None
  BY DEF Init
<1>2. /\ assembler.bytes = <<>> /\ assembler.next = 0 /\ assembler.count = 0
      /\ assembler.exchange = None
  BY <1>1 DEF Empty
<1>3. Assembled
  BY <1>1, <1>2, EmptyText DEF Assembled
<1>4. Counted
  <2>1. FramesFor(0) = 0
    BY FrameCount
  <2> QED
    BY <1>2, <2>1, EmptyText DEF Counted
<1>5. Decoded
  BY <1>1, <1>2 DEF Decoded, Finished
<1>6. Fragments
  <2>1. \A k \in 1 .. 2 : sent[k].exchange # None
    BY <1>1, StreamsAssumption
  <2> QED
    BY <1>2, <2>1 DEF Fragments
<1> QED
  BY <1>3, <1>4, <1>5, <1>6 DEF FramesInv

LEMMA NextFrames ==
  ASSUME FramesInv, [Next]_vars
  PROVE  FramesInv'
<1>1. CASE UNCHANGED vars
  BY <1>1 DEF vars, FramesInv, Assembled, Counted, Decoded, Fragments, Finished
<1>2. ASSUME NEW f \in Arriving, Refuse(f) PROVE FramesInv'
  BY <1>1, <1>2 DEF Refuse
<1>3. ASSUME NEW f \in Arriving, Push(f) PROVE FramesInv'
  <2>0. Assembled /\ Counted /\ Fragments /\ sent \in Streams
    BY DEF FramesInv, Assembled
  <2>1. PICK j \in 1 .. 2 : Carries(f, sent[j].bytes) /\ f.exchange = sent[j].exchange
    BY <2>0, <1>3, ArrivingIs
  <2>2. \A k \in 1 .. 2 : IsText(sent[k].bytes) /\ sent[k].exchange \in Nat
    BY <2>0, StreamsAssumption DEF IsText
  <2> DEFINE n == Size(assembler.bytes)  m == Size(f.chunk)
             new == Glue(assembler.bytes, f.chunk)
  <2>3. /\ assembler' = [exchange |-> f.exchange, count |-> f.count, next |-> f.seq + 1,
                         bytes |-> new]
        /\ sent' = sent
        /\ f.seq \in Nat /\ f.count \in Nat /\ IsText(f.chunk)
        /\ f.seq < f.count /\ n = 12 * f.seq
        /\ m >= 1 /\ m <= 12
        /\ f.seq + 1 = f.count \/ m = 12
        /\ n + m <= 83
        /\ assembler.exchange # None => assembler.exchange = f.exchange
    BY <1>3, <2>0, <2>1, <2>2, PushIs
  <2>4. n \in Nat /\ m \in Nat /\ IsText(new) /\ Size(new) = n + m
    BY <2>0, <2>3, Joined, SizeType DEF Assembled
  <2> HIDE DEF n, m, new
  <2>5. /\ assembler'.exchange = f.exchange /\ assembler'.count = f.count
        /\ assembler'.next = f.seq + 1 /\ assembler'.bytes = new
    BY <2>3
  <2>6. Assembled'
    <3>1. f.exchange # None
      BY <2>1, <2>2, StreamsAssumption
    <3> QED
      BY <2>0, <2>3, <2>4, <2>5, <3>1 DEF Assembled
  <2>7. Counted'
    <3>1. FramesFor(Size(new)) = f.seq + 1
      BY <2>3, <2>4, CountIs
    <3>2. /\ Size(new) <= 83 /\ f.seq + 1 <= f.count
          /\ f.seq + 1 = f.count \/ Size(new) = 12 * (f.seq + 1)
      BY <2>3, <2>4
    <3> QED
      BY <2>5, <3>1, <3>2 DEF Counted
  <2>8. Decoded'
    BY <1>3 DEF Push, Decoded
  <2>9. Fragments'
    <3>1. SUFFICES ASSUME sent[1].exchange # sent[2].exchange, NEW k \in 1 .. 2,
                          f.exchange = sent[k].exchange
                   PROVE  Fragment(new, sent[k].bytes)
      BY <2>3, <2>5 DEF Fragments
    <3>2. k = j
      <4>1. \A a, b \in 1 .. 2 : a = b \/ (a = 1 /\ b = 2) \/ (a = 2 /\ b = 1)
        OBVIOUS
      <4>2. sent[k].exchange = sent[j].exchange
        BY <2>1, <3>1
      <4> QED
        BY <3>1, <4>1, <4>2
    <3>3. Fragment(assembler.bytes, sent[k].bytes)
      <4>1. CASE assembler.exchange = None
        <5>1. assembler.bytes = <<>>
          BY <2>0, <4>1 DEF Assembled, Empty
        <5>2. Size(sent[k].bytes) \in Nat
          BY <2>2, SizeType
        <5>3. Holds(sent[k].bytes, 0, <<>>)
          BY EmptyText DEF Holds
        <5> QED
          BY <5>1, <5>2, <5>3, EmptyText DEF Fragment
      <4>2. CASE assembler.exchange # None
        BY <2>0, <2>3, <3>1, <4>2 DEF Fragments
      <4> QED
        BY <4>1, <4>2
    <3>4. IsText(assembler.bytes) /\ IsText(sent[k].bytes) /\ Carries(f, sent[k].bytes)
      BY <2>0, <2>1, <2>2, <3>2 DEF Assembled
    <3> QED
      BY <2>3, <3>3, <3>4, FragmentsGrow DEF n, m, new
  <2> QED
    BY <2>6, <2>7, <2>8, <2>9 DEF FramesInv
<1> QED
  BY <1>1, <1>2, <1>3 DEF Next

(* Assembler::push keeps count of its octets, and mixes none of two exchanges. *)
THEOREM FramesInvariant == Spec => []FramesInv
<1>1. Init => FramesInv
  BY InitFrames
<1>2. FramesInv /\ [Next]_vars => FramesInv'
  BY NextFrames
<1> QED
  BY <1>1, <1>2, PTL DEF Spec

-----------------------------------------------------------------------------
(* What the runs check. *)

LEMMA PrefixIs ==
  ASSUME NEW s, NEW t, IsText(s), IsText(t)
  PROVE  IsPrefix(s, t) <=> (Size(s) <= Size(t) /\ Holds(t, 0, s))
<1>1. Size(s) \in Nat /\ Size(t) \in Nat
  BY SizeType
<1>2. ASSUME Size(s) <= Size(t) PROVE IsPrefix(s, t) <=> Holds(t, 0, s)
  <2> DEFINE c == Octets(t, 0, Size(s))
  <2>1. IsText(c) /\ Size(c) = Size(s) /\ Holds(t, 0, c)
    BY <1>1, <1>2, Cut
  <2>2. IsPrefix(s, t) <=> s = c
    <3>1. Octets(s, 0, Size(s)) = s
      <4> DEFINE d == Octets(s, 0, Size(s))
      <4>1. IsText(d) /\ Size(d) = Size(s) /\ Holds(s, 0, d)
        BY <1>1, Cut
      <4>2. Holds(s, 0, s)
        <5>1. \A i \in 1 .. Size(s) : 0 + i = i
          BY <1>1
        <5> QED
          BY <5>1 DEF Holds
      <4> HIDE DEF d
      <4>3. d = s
        BY <4>1, <4>2, SameAt
      <4> QED
        BY <4>3 DEF d
    <3>2. IsPrefix(s, t) <=> Octets(s, 0, Size(s)) = Octets(t, 0, Size(s))
      BY <1>2 DEF IsPrefix, Octets, Size
    <3> QED
      BY <3>1, <3>2
  <2> HIDE DEF c
  <2>3. Holds(t, 0, s) => s = c
    BY <2>1, SameAt
  <2> QED
    BY <2>1, <2>2, <2>3
<1>3. IsPrefix(s, t) => Size(s) <= Size(t)
  BY DEF IsPrefix, Size
<1> QED
  BY <1>2, <1>3

LEMMA FinishedIs ==
  ASSUME FramesInv, out # None
  PROVE  /\ assembler.next = assembler.count /\ assembler.next > 0
         /\ out = Decode(assembler.bytes)
BY DEF FramesInv, Decoded, Finished

(* Whatever the frames that reach Assembler::push were glued from, what is *)
(* accepted as a packet is one that could have been sent.                  *)
THEOREM CanonicalAlways == Spec => []Canonical
<1>1. ASSUME FramesInv PROVE Canonical
  <2>1. /\ IsText(assembler.bytes) /\ Size(assembler.bytes) <= 83
        /\ FramesFor(Size(assembler.bytes)) = assembler.next
    BY <1>1 DEF FramesInv, Assembled, Counted
  <2>2. ASSUME out # None
        PROVE  Encodable(out) /\ Encode(out) = assembler.bytes /\ assembler.next = assembler.count
    <3>1. out = Decode(assembler.bytes) /\ assembler.next = assembler.count
      BY <1>1, <2>2, FinishedIs
    <3> DEFINE b == assembler.bytes
    <3>2. b \in Seq(Octet)
      BY <2>1 DEF IsText
    <3> HIDE DEF b
    <3>3. Sendable(Decode(b)) /\ Encode(Decode(b)) = b
      BY <2>2, <3>1, <3>2, EncodeDecode DEF b
    <3> QED
      BY <3>1, <3>3 DEF b, Sendable
  <2>3. Len(assembler.bytes) = Size(assembler.bytes) /\ MAX_ENVELOPE = 83
    BY Sizes DEF Size
  <2> QED
    BY <2>1, <2>2, <2>3 DEF Canonical
<1> QED
  BY <1>1, FramesInvariant, PTL

(* Whatever Assembler::push has assembled, decode of the CLI and decode of *)
(* the Tab5 accept it both or refuse it both.                              *)
THEOREM Tab5AgreesAlways == Spec => []Tab5Agrees
<1>1. ASSUME FramesInv PROVE Tab5Agrees
  <2>1. assembler.bytes \in Seq(Octet)
    BY <1>1 DEF FramesInv, Assembled, IsText
  <2>2. Finished(assembler) => out = Decode(assembler.bytes)
    BY <1>1 DEF FramesInv, Decoded
  <2> QED
    BY <2>1, <2>2, DecodersAgree DEF Tab5Agrees
<1> QED
  BY <1>1, FramesInvariant, PTL

(* Assembler::push glues no packet from two exchanges.                     *)
THEOREM NotMixedAlways == Spec => []NotMixed
<1>1. ASSUME FramesInv PROVE NotMixed
  <2>1. SUFFICES ASSUME sent[1].exchange # sent[2].exchange, NEW k \in 1 .. 2,
                        assembler.exchange = sent[k].exchange, out # None
                 PROVE  IsPrefix(assembler.bytes, sent[k].bytes)
    BY DEF NotMixed
  <2> DEFINE bytes == assembler.bytes  b == sent[k].bytes  p == sent[k].packet
  <2>2. Fragment(bytes, b) /\ IsText(bytes) /\ sent \in Streams
    BY <1>1, <2>1 DEF FramesInv, Fragments, Assembled
  <2>3. p # None
    BY <2>1, <2>2, StreamsAssumption
  <2>4. IsText(b) /\ Sendable(p) /\ b = Encode(p)
    BY <2>2, <2>3, StreamsAssumption DEF IsText
  <2>5. Decode(bytes) # None
    BY <1>1, <2>1, FinishedIs
  <2> HIDE DEF bytes, b, p
  <2>6. ~(Size(bytes) = Size(b) + 1 /\ Holds(bytes, 0, b))
    BY <2>2, <2>4, <2>5, Padded
  <2> QED
    BY <2>2, <2>4, <2>6, PrefixIs DEF Fragment, bytes, b
<1> QED
  BY <1>1, FramesInvariant, PTL

LEMMA EncodedSize ==
  ASSUME NEW p, Sendable(p)
  PROVE  /\ IsText(Encode(p)) /\ Size(Encode(p)) \in Nat
         /\ Size(Encode(p)) >= 19 /\ Size(Encode(p)) <= 83
<1> DEFINE b == Encode(p)
<1>1. CASE p.type = "Profile"
  <2>1. ProfileAt(b, p) /\ Size(p.name) \in Nat
    BY <1>1, EncodedAt
  <2>2. Size(p.name) <= 32
    <3>1. Size(p.name) \in 1 .. 32
      BY <1>1, Sizes DEF Sendable, Encodable, Size
    <3> QED
      BY <3>1
  <2> HIDE DEF b
  <2>3. IsText(b) /\ Size(b) \in Nat /\ Size(b) >= 19 /\ Size(b) <= 83
    BY <2>1, <2>2 DEF ProfileAt
  <2> QED
    BY <2>3 DEF b
<1>2. CASE p.type # "Profile"
  <2>1. GiftAt(b, p) /\ (p.phrase # None => Size(p.phrase.text) \in Nat)
    BY <1>2, EncodedAt
  <2>2. p.phrase # None => Size(p.phrase.text) <= 64
    <3>1. p.phrase # None => Size(p.phrase.text) \in 1 .. 64
      BY <1>2, Sizes DEF Sendable, Encodable, Size
    <3> QED
      BY <3>1
  <2> HIDE DEF b
  <2>3. IsText(b) /\ Size(b) \in Nat /\ Size(b) >= 19 /\ Size(b) <= 83
    BY <2>1, <2>2 DEF GiftAt
  <2> QED
    BY <2>3 DEF b
<1> QED
  BY <1>1, <1>2

(* Assembler::push takes the frames of a packet, in order, and gives back  *)
(* the packet, for every name and phrase that may be sent.                 *)
THEOREM RoundTripAlways == Spec => []RoundTrip
<1>1. ASSUME FramesInv PROVE RoundTrip
  <2> SUFFICES ASSUME NEW k \in 1 .. 2, sent[k].packet # None, Undamaged(assembler, sent[k])
               PROVE  IF assembler.bytes = sent[k].bytes THEN out = sent[k].packet
                      ELSE Accepts(assembler,
                                   Frame(sent[k].bytes, sent[k].exchange, assembler.next))
    BY DEF RoundTrip
  <2> DEFINE bytes == assembler.bytes  b == sent[k].bytes  p == sent[k].packet
             x == sent[k].exchange  next == assembler.next
  <2>1. IsText(bytes) /\ next \in Nat /\ sent \in Streams /\ FramesFor(Size(bytes)) = next
    BY <1>1 DEF FramesInv, Assembled, Counted
  <2>2. Sendable(p) /\ b = Encode(p)
    BY <2>1, StreamsAssumption
  <2>3. IsText(b) /\ Size(b) \in Nat /\ Size(b) >= 19 /\ Size(b) <= 83
    BY <2>2, EncodedSize
  <2>4. /\ assembler.exchange \in {None, x}
        /\ assembler.exchange # None => assembler.count = FramesFor(Size(b))
        /\ IsPrefix(bytes, b) /\ (bytes = b \/ Size(bytes) = 12 * next)
    BY Sizes DEF Undamaged, Size
  <2>5. assembler.exchange = None => bytes = <<>>
    BY <1>1 DEF FramesInv, Assembled, Empty
  <2>6. ASSUME bytes = b PROVE out = p
    <3>1. assembler.exchange # None
      BY <2>3, <2>5, <2>6, EmptyText
    <3>2. next = assembler.count /\ next # 0
      BY <2>1, <2>3, <2>4, <2>6, <3>1, FrameCount
    <3>3. Finished(assembler)
      BY <2>1, <3>2 DEF Finished
    <3>4. out = Decode(Encode(p))
      BY <1>1, <2>2, <2>6, <3>3 DEF FramesInv, Decoded
    <3> QED
      BY <2>2, <3>4, DecodeEncode
  <2>7. ASSUME bytes # b PROVE Accepts(assembler, Frame(b, x, next))
    <3>1. Size(bytes) <= Size(b) /\ Holds(b, 0, bytes) /\ Size(bytes) = 12 * next
      BY <2>1, <2>3, <2>4, <2>7, PrefixIs
    <3>2. 12 * next < Size(b)
      <4>1. ASSUME Size(bytes) = Size(b) PROVE FALSE
        <5>1. \A i \in 1 .. Size(bytes) : bytes[i] = b[i]
          <6>1. \A i \in 1 .. Size(bytes) : b[0 + i] = bytes[i] /\ 0 + i = i
            BY <2>3, <3>1, <4>1 DEF Holds
          <6> QED
            BY <6>1
        <5> QED
          BY <2>1, <2>3, <2>7, <4>1, <5>1, SameText
      <4> QED
        BY <2>1, <2>3, <3>1, <4>1
    <3> DEFINE n == FramesFor(Size(b))  f == Frame(b, x, next)
               last == IF 12 * next + 12 < Size(b) THEN 12 * next + 12 ELSE Size(b)
    <3>3. n \in Nat /\ next < n /\ n <= 7 /\ (next + 1 < n <=> 12 * (next + 1) < Size(b))
      <4>1. n \in Nat /\ next < n /\ (next + 1 < n <=> 12 * (next + 1) < Size(b))
        BY <2>1, <2>3, <3>2, FrameCount
      <4>2. ~(7 < n)
        BY <2>3, FrameCount
      <4> QED
        BY <4>1, <4>2
    <3>4. /\ f = [kind |-> "DATA", exchange |-> x, seq |-> next, count |-> n, chunk |-> f.chunk]
          /\ IsText(f.chunk) /\ Size(f.chunk) = last - 12 * next
      <4>1. next \in 0 .. n - 1
        BY <2>1, <3>3
      <4> QED
        BY <2>3, <4>1, FrameIs
    <3> HIDE DEF n, f
    <3>5. f.kind = "DATA" /\ f.exchange = x /\ f.seq = next /\ f.count = n
      BY <3>4
    <3>6. Len(f.chunk) = Size(f.chunk) /\ Len(bytes) = Size(bytes)
          /\ CHUNK = 12 /\ MAX_FRAMES = 7 /\ MAX_ENVELOPE = 83
      BY Sizes DEF Size
    <3> DEFINE m == Size(f.chunk)
    <3>7. m \in Nat /\ m >= 1 /\ m <= 12 /\ (next + 1 = n \/ m = 12) /\ 12 * next + m <= 83
      BY <2>1, <2>3, <3>2, <3>3, <3>4
    <3> HIDE DEF m
    <3>8. WellFormed(f)
      <4>1. m \in 1 .. 12 /\ n \in 1 .. 7
        BY <2>1, <3>3, <3>7
      <4>2. Len(f.chunk) = m
        BY <3>6 DEF m
      <4> QED
        BY <3>3, <3>5, <3>6, <3>7, <4>1, <4>2 DEF WellFormed
    <3>9. Belongs(assembler, f)
      BY <2>4, <3>5 DEF Belongs, n
    <3>10. Fits(assembler, f)
      BY <3>1, <3>6, <3>7 DEF Fits, m
    <3> QED
      BY <3>8, <3>9, <3>10 DEF Accepts, f
  <2> QED
    BY <2>6, <2>7
<1> QED
  BY <1>1, FramesInvariant, PTL
=============================================================================
