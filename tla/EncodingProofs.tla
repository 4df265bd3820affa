--------------------------- MODULE EncodingProofs ---------------------------
(***************************************************************************)
(* Proofs about the encodings: base58 loses nothing, and two JSON values   *)
(* have one canonical text exactly when they are the same value.           *)
(***************************************************************************)
EXTENDS Encodings, FixedOrderProofs, SequenceTheorems, FiniteSetTheorems

-----------------------------------------------------------------------------
(* Base58 *)

Bases == {Base, ByteBase}
Digits(base) == 0..(base - 1)

\* Division by a base leaves a smaller number and a digit, from which it is put together again.
LEMMA DividedIs ==
  ASSUME NEW b \in Bases, NEW n \in Nat
  PROVE  /\ n \div b \in Nat /\ n % b \in Digits(b)
         /\ (n \div b) * b + (n % b) = n
         /\ n > 0 => n \div b \in 0..(n - 1)
<1>1. CASE b = 58
  BY <1>1 DEF Digits
<1>2. CASE b = 256
  BY <1>2 DEF Digits
<1>. QED
  BY <1>1, <1>2 DEF Bases, Base, ByteBase

LEMMA JoinedIs ==
  ASSUME NEW b \in Bases, NEW q \in Nat, NEW d \in Digits(b)
  PROVE  /\ q * b + d \in Nat /\ d \in Nat
         /\ (q * b + d) \div b = q /\ (q * b + d) % b = d
         /\ q > 0 \/ d > 0 => q * b + d > 0
         /\ q = 0 /\ d = 0 => q * b + d = 0
<1>1. CASE b = 58
  BY <1>1 DEF Digits
<1>2. CASE b = 256
  BY <1>2 DEF Digits
<1>. QED
  BY <1>1, <1>2 DEF Bases, Base, ByteBase

\* Induction over sequences, by appending.
LEMMA AllSequences ==
  ASSUME NEW S, NEW good, <<>> \in good, \A s \in Seq(S), e \in S : s \in good => Append(s, e) \in good
  PROVE  Seq(S) \subseteq good
<1>. DEFINE fine == {k \in Nat : \A s \in Seq(S) : Len(s) = k => s \in good}
<1>1. 0 \in fine
  <2>1. \A s \in Seq(S) : Len(s) = 0 => s = <<>>
    BY EmptySeq
  <2>. QED
    BY <2>1
<1>2. ASSUME NEW k \in Nat, k - 1 \in fine PROVE k \in fine
  <2>1. SUFFICES ASSUME NEW s \in Seq(S), Len(s) = k PROVE s \in good
    OBVIOUS
  <2>2. CASE s = <<>>
    BY <2>2
  <2>3. CASE s # <<>>
    <3>1. PICK t \in Seq(S), e \in S : s = Append(t, e)
      BY <2>3, SequenceEmptyOrAppend
    <3>2. Len(t) \in Nat /\ Len(s) = Len(t) + 1
      BY <3>1, LenProperties, AppendProperties
    <3>3. t \in good
      BY <1>2, <2>1, <3>2
    <3>. QED
      BY <3>1, <3>3
  <2>. QED
    BY <2>2, <2>3
<1>3. ASSUME NEW s \in Seq(S) PROVE s \in good
  <2>1. Len(s) \in Nat
    BY LenProperties
  <2>2. \A n \in 1..Len(s) : n - 1 \in fine => n \in fine
    <3>. HIDE DEF fine
    <3>. QED
      BY <1>2, <2>1
  <2>3. 0..Len(s) \subseteq fine
    <3>. HIDE DEF fine
    <3>. QED
      BY <1>1, <2>1, <2>2, UpToAll
  <2>. QED
    BY <2>1, <2>3
<1>. QED
  BY <1>3

-----------------------------------------------------------------------------
(* Digits read as a number *)

ReadUp(digits, b, count, g) ==
  g = [k \in 0..count |-> IF k = 0 THEN 0 ELSE g[k - 1] * b + digits[k]]

ReadsOn(digits, b, count, g) == g[0] = 0 /\ \A k \in 1..count : g[k] = g[k - 1] * b + digits[k]

LEMMA ReadUpAre ==
  ASSUME NEW digits, NEW b, NEW count \in Nat, NEW g, ReadUp(digits, b, count, g)
  PROVE  ReadsOn(digits, b, count, g)
<1>. DEFINE at(k) == IF k = 0 THEN 0 ELSE g[k - 1] * b + digits[k]
<1>1. g = [k \in 0..count |-> at(k)]
  BY DEF ReadUp
<1>2. \A k \in 0..count : g[k] = at(k)
  <2>. HIDE DEF at
  <2>. QED
    BY <1>1
<1>3. 0 \in 0..count /\ \A k \in 1..count : k \in 0..count /\ k # 0
  OBVIOUS
<1>. QED
  BY <1>2, <1>3 DEF ReadsOn

LEMMA SomeReading ==
  ASSUME NEW digits, NEW b, NEW count \in Nat
  PROVE  \E g : ReadUp(digits, b, count, g)
<1>. DEFINE fine == {m \in Nat : \E g : ReadUp(digits, b, m, g)}
<1>1. 0 \in fine
  <2>. DEFINE g == [k \in 0..0 |-> 0]
  <2>1. g = [k \in 0..0 |-> IF k = 0 THEN 0 ELSE g[k - 1] * b + digits[k]]
    OBVIOUS
  <2>. HIDE DEF g
  <2>2. ReadUp(digits, b, 0, g)
    BY <2>1 DEF ReadUp
  <2>. QED
    BY <2>2
<1>2. ASSUME NEW m \in Nat, m \in fine PROVE m + 1 \in fine
  <2>1. PICK g : ReadUp(digits, b, m, g)
    BY <1>2
  <2>2. g[0] = 0 /\ \A k \in 1..m : g[k] = g[k - 1] * b + digits[k]
    BY <2>1, ReadUpAre DEF ReadsOn
  <2>. DEFINE last == g[m] * b + digits[m + 1]
              h == [k \in 0..(m + 1) |-> IF k <= m THEN g[k] ELSE last]
              next == [k \in 0..(m + 1) |-> IF k = 0 THEN 0 ELSE h[k - 1] * b + digits[k]]
  <2>3. ASSUME NEW k \in 0..(m + 1) PROVE h[k] = next[k]
    <3>1. CASE k = 0
      BY <2>2, <3>1
    <3>2. CASE k \in 1..m
      <4>1. k - 1 \in 0..(m + 1) /\ k - 1 <= m /\ k <= m /\ k # 0
        BY <3>2
      <4>2. h[k - 1] = g[k - 1] /\ h[k] = g[k] /\ next[k] = h[k - 1] * b + digits[k]
        BY <4>1
      <4>. QED
        BY <2>2, <3>2, <4>2
    <3>3. CASE k = m + 1
      <4>1. k - 1 = m /\ m \in 0..(m + 1) /\ m <= m /\ ~(k <= m) /\ k # 0
        BY <3>3
      <4>2. h[m] = g[m] /\ h[k] = last /\ next[k] = h[m] * b + digits[k]
        BY <4>1
      <4>. QED
        BY <3>3, <4>2
    <3>. QED
      BY <3>1, <3>2, <3>3
  <2>4. h = next
    <3>1. DOMAIN h = DOMAIN next /\ h = [k \in DOMAIN h |-> h[k]] /\ next = [k \in DOMAIN next |-> next[k]]
      OBVIOUS
    <3>. QED
      BY <2>3
  <2>5. h = [k \in 0..(m + 1) |-> IF k = 0 THEN 0 ELSE h[k - 1] * b + digits[k]]
    BY <2>4
  <2>. HIDE DEF h
  <2>6. ReadUp(digits, b, m + 1, h) /\ m + 1 \in Nat
    BY <2>5 DEF ReadUp
  <2>. QED
    BY <2>6
<1>3. \A n \in 1..count : n - 1 \in fine => n \in fine
  <2>1. ASSUME NEW n \in 1..count, n - 1 \in fine PROVE n \in fine
    <3>1. n - 1 \in Nat /\ (n - 1) + 1 = n
      OBVIOUS
    <3>. HIDE DEF fine
    <3>. QED
      BY <1>2, <2>1, <3>1
  <2>. QED
    BY <2>1
<1>4. count \in fine
  <2>. HIDE DEF fine
  <2>1. 0..count \subseteq fine
    BY <1>1, <1>3, UpToAll
  <2>. QED
    BY <2>1
<1>. QED
  BY <1>4

LEMMA NumberIsRead ==
  ASSUME NEW S, NEW digits \in Seq(S), NEW b
  PROVE  \E g : ReadUp(digits, b, Len(digits), g) /\ NumberOf(digits, b) = g[Len(digits)]
<1>1. Len(digits) \in Nat
  BY LenProperties
<1>2. NumberOf(digits, b) = (CHOOSE g : ReadUp(digits, b, Len(digits), g))[Len(digits)]
  BY DEF NumberOf, ReadUp
<1>3. \E g : ReadUp(digits, b, Len(digits), g)
  BY <1>1, SomeReading
<1>. QED
  BY <1>2, <1>3

LEMMA NumberOfNone == \A b : NumberOf(<<>>, b) = 0
<1>1. SUFFICES ASSUME NEW b PROVE NumberOf(<<>>, b) = 0
  OBVIOUS
<1>2. PICK g : ReadUp(<<>>, b, 0, g) /\ NumberOf(<<>>, b) = g[0]
  BY NumberIsRead, EmptySeq
<1>. QED
  BY <1>2, ReadUpAre DEF ReadsOn

\* One more digit.
LEMMA NumberStep ==
  ASSUME NEW S, NEW b, NEW s \in Seq(S), NEW d \in S
  PROVE  NumberOf(Append(s, d), b) = NumberOf(s, b) * b + d
<1>1. PICK n \in Nat : n = Len(s)
  BY LenProperties
<1>. DEFINE t == Append(s, d)
<1>2. /\ t \in Seq(S) /\ Len(t) = n + 1 /\ t[n + 1] = d
      /\ \A i \in 1..n : t[i] = s[i]
  BY <1>1, AppendProperties
<1>. HIDE DEF t
<1>3. PICK g : ReadUp(s, b, n, g) /\ NumberOf(s, b) = g[n]
  BY <1>1, NumberIsRead
<1>4. PICK h : ReadUp(t, b, n + 1, h) /\ NumberOf(t, b) = h[n + 1]
  BY <1>2, NumberIsRead
<1>5. ReadsOn(s, b, n, g)
  BY <1>3, ReadUpAre
<1>6. n + 1 \in Nat /\ ReadsOn(t, b, n + 1, h)
  BY <1>4, ReadUpAre
<1>. DEFINE same == {k \in Nat : h[k] = g[k]}
<1>7. \A k \in 1..n : k - 1 \in same => k \in same
  <2>1. ASSUME NEW k \in 1..n, k - 1 \in same PROVE k \in same
    <3>1. k \in 1..(n + 1) /\ k \in Nat
      BY <1>2
    <3>2. h[k] = h[k - 1] * b + t[k] /\ g[k] = g[k - 1] * b + s[k]
      BY <1>5, <1>6, <3>1 DEF ReadsOn
    <3>3. h[k - 1] = g[k - 1] /\ t[k] = s[k]
      BY <1>2, <2>1
    <3>. QED
      BY <3>1, <3>2, <3>3
  <2>. QED
    BY <2>1
<1>8. 0..n \subseteq same
  <2>1. 0 \in same
    BY <1>5, <1>6 DEF ReadsOn
  <2>. HIDE DEF same
  <2>. QED
    BY <1>2, <1>7, <2>1, UpToAll
<1>9. h[n] = g[n]
  BY <1>2, <1>8
<1>10. h[n + 1] = h[n] * b + d
  <2>1. n + 1 \in 1..(n + 1) /\ (n + 1) - 1 = n
    BY <1>2
  <2>. QED
    BY <1>2, <1>6, <2>1 DEF ReadsOn
<1>. QED
  BY <1>3, <1>4, <1>9, <1>10 DEF t

LEMMA NumbersAreNaturals ==
  ASSUME NEW b \in Bases, NEW s \in Seq(Digits(b))
  PROVE  NumberOf(s, b) \in Nat
<1>. DEFINE good == {t \in Seq(Digits(b)) : NumberOf(t, b) \in Nat}
<1>1. <<>> \in good
  BY NumberOfNone, EmptySeq
<1>2. ASSUME NEW t \in Seq(Digits(b)), NEW d \in Digits(b), t \in good PROVE Append(t, d) \in good
  BY <1>2, NumberStep, JoinedIs, AppendProperties
<1>3. Seq(Digits(b)) \subseteq good
  <2>. HIDE DEF good
  <2>. QED
    BY <1>1, <1>2, AllSequences
<1>. QED
  BY <1>3

-----------------------------------------------------------------------------
(* The digits of a number *)

WrittenUp(b, count, g) ==
  g = [n \in 0..count |-> IF n = 0 THEN <<>> ELSE Append(g[n \div b], n % b)]
WritesOn(b, count, g) ==
  g[0] = <<>> /\ \A n \in 1..count : g[n] = Append(g[n \div b], n % b)

LEMMA WrittenUpAre ==
  ASSUME NEW b, NEW count \in Nat, NEW g, WrittenUp(b, count, g)
  PROVE  WritesOn(b, count, g)
<1>. DEFINE at(n) == IF n = 0 THEN <<>> ELSE Append(g[n \div b], n % b)
<1>1. g = [n \in 0..count |-> at(n)]
  BY DEF WrittenUp
<1>2. \A n \in 0..count : g[n] = at(n)
  <2>. HIDE DEF at
  <2>. QED
    BY <1>1
<1>3. 0 \in 0..count /\ \A n \in 1..count : n \in 0..count /\ n # 0
  OBVIOUS
<1>. QED
  BY <1>2, <1>3 DEF WritesOn

LEMMA SomeWriting ==
  ASSUME NEW b \in Bases, NEW count \in Nat
  PROVE  \E g : WrittenUp(b, count, g)
<1>. DEFINE fine == {m \in Nat : \E g : WrittenUp(b, m, g)}
<1>1. 0 \in fine
  <2>. DEFINE g == [n \in 0..0 |-> <<>>]
  <2>1. g = [n \in 0..0 |-> IF n = 0 THEN <<>> ELSE Append(g[n \div b], n % b)]
    OBVIOUS
  <2>. HIDE DEF g
  <2>2. WrittenUp(b, 0, g)
    BY <2>1 DEF WrittenUp
  <2>. QED
    BY <2>2
<1>2. ASSUME NEW m \in Nat, m \in fine PROVE m + 1 \in fine
  <2>1. PICK g : WrittenUp(b, m, g)
    BY <1>2
  <2>2. WritesOn(b, m, g)
    BY <2>1, WrittenUpAre
  <2>. DEFINE last == Append(g[(m + 1) \div b], (m + 1) % b)
              h == [n \in 0..(m + 1) |-> IF n <= m THEN g[n] ELSE last]
              next == [n \in 0..(m + 1) |-> IF n = 0 THEN <<>> ELSE Append(h[n \div b], n % b)]
  <2>3. ASSUME NEW n \in 0..(m + 1) PROVE h[n] = next[n]
    <3>1. CASE n = 0
      BY <2>2, <3>1 DEF WritesOn
    <3>2. CASE n # 0
      <4>1. n \div b \in 0..(n - 1)
        BY <3>2, DividedIs
      <4>2. PICK q : q = n \div b
        OBVIOUS
      <4>3. q \in 0..(m + 1) /\ q <= m
        BY <4>1, <4>2
      <4>4. h[q] = g[q] /\ next[n] = Append(h[q], n % b)
        BY <3>2, <4>2, <4>3
      <4>5. CASE n <= m
        <5>1. n \in 1..m /\ h[n] = g[n]
          BY <3>2, <4>5
        <5>. QED
          BY <2>2, <4>2, <4>4, <5>1 DEF WritesOn
      <4>6. CASE n = m + 1
        <5>1. ~(n <= m)
          BY <4>6
        <5>2. h[n] = last
          BY <5>1
        <5>. QED
          BY <4>2, <4>4, <4>6, <5>2
      <4>. QED
        BY <4>5, <4>6
    <3>. QED
      BY <3>1, <3>2
  <2>4. h = next
    <3>1. DOMAIN h = DOMAIN next /\ h = [n \in DOMAIN h |-> h[n]] /\ next = [n \in DOMAIN next |-> next[n]]
      OBVIOUS
    <3>. QED
      BY <2>3
  <2>5. h = [n \in 0..(m + 1) |-> IF n = 0 THEN <<>> ELSE Append(h[n \div b], n % b)]
    BY <2>4
  <2>. HIDE DEF h
  <2>6. m + 1 \in Nat
    OBVIOUS
  <2>7. WrittenUp(b, m + 1, h)
    BY <2>5, Zenon DEF WrittenUp
  <2>. QED
    BY <2>6, <2>7
<1>3. \A n \in 1..count : n - 1 \in fine => n \in fine
  <2>1. ASSUME NEW n \in 1..count, n - 1 \in fine PROVE n \in fine
    <3>1. n - 1 \in Nat /\ (n - 1) + 1 = n
      OBVIOUS
    <3>. HIDE DEF fine
    <3>. QED
      BY <1>2, <2>1, <3>1
  <2>. QED
    BY <2>1
<1>4. count \in fine
  <2>. HIDE DEF fine
  <2>1. 0..count \subseteq fine
    BY <1>1, <1>3, UpToAll
  <2>. QED
    BY <2>1
<1>. QED
  BY <1>4

\* Induction over numbers: what holds of the quotient holds of the number.
LEMMA AllQuotients ==
  ASSUME NEW b \in Bases, NEW good, 0 \in good,
         \A n \in Nat : n > 0 /\ n \div b \in good => n \in good
  PROVE  Nat \subseteq good
<1>. DEFINE fine == {m \in Nat : 0..m \subseteq good}
<1>1. 0 \in fine
  OBVIOUS
<1>2. ASSUME NEW n \in Nat, n > 0, n - 1 \in fine PROVE n \in fine
  <2>1. n \div b \in 0..(n - 1)
    BY <1>2, DividedIs
  <2>2. 0..(n - 1) \subseteq good
    BY <1>2
  <2>3. n \in good
    BY <1>2, <2>1, <2>2
  <2>4. \A i \in 0..n : i \in 0..(n - 1) \/ i = n
    OBVIOUS
  <2>. QED
    BY <2>2, <2>3, <2>4
<1>3. ASSUME NEW n \in Nat PROVE n \in good
  <2>1. \A i \in 1..n : i - 1 \in fine => i \in fine
    <3>1. \A i \in 1..n : i \in Nat /\ i > 0
      OBVIOUS
    <3>. HIDE DEF fine
    <3>. QED
      BY <1>2, <3>1
  <2>2. 0..n \subseteq fine
    <3>. HIDE DEF fine
    <3>. QED
      BY <1>1, <2>1, UpToAll
  <2>. QED
    BY <2>2
<1>. QED
  BY <1>3

\* How far the digits are tabulated does not matter.
LEMMA WrittenIs ==
  ASSUME NEW b \in Bases, NEW count \in Nat, NEW g, WrittenUp(b, count, g)
  PROVE  \A n \in 0..count : DigitsOf(n, b) = g[n]
<1>1. ASSUME NEW m \in Nat PROVE \E h : WrittenUp(b, m, h) /\ DigitsOf(m, b) = h[m]
  <2>1. DigitsOf(m, b) = (CHOOSE h : WrittenUp(b, m, h))[m]
    BY DEF DigitsOf, WrittenUp
  <2>2. \E h : WrittenUp(b, m, h)
    BY SomeWriting
  <2>. QED
    BY <2>1, <2>2
<1>2. SUFFICES ASSUME NEW n \in 0..count PROVE DigitsOf(n, b) = g[n]
  OBVIOUS
<1>3. n \in Nat
  OBVIOUS
<1>4. PICK h : WrittenUp(b, n, h) /\ DigitsOf(n, b) = h[n]
  BY <1>1, <1>3
<1>5. WritesOn(b, count, g) /\ WritesOn(b, n, h)
  BY <1>3, <1>4, WrittenUpAre
<1>. DEFINE same == {i \in Nat : i \in 0..n => h[i] = g[i]}
<1>6. 0 \in same
  BY <1>5 DEF WritesOn
<1>7. ASSUME NEW i \in Nat, i > 0, i \div b \in same PROVE i \in same
  <2>1. SUFFICES ASSUME i \in 0..n PROVE h[i] = g[i]
    OBVIOUS
  <2>2. i \div b \in 0..(i - 1)
    BY <1>7, DividedIs
  <2>3. PICK q : q = i \div b
    OBVIOUS
  <2>4. q \in 0..n /\ i \in 1..n /\ i \in 1..count
    BY <1>7, <2>1, <2>2, <2>3
  <2>5. h[q] = g[q]
    BY <1>7, <2>3, <2>4
  <2>6. h[i] = Append(h[q], i % b) /\ g[i] = Append(g[q], i % b)
    BY <1>5, <2>3, <2>4 DEF WritesOn
  <2>. QED
    BY <2>5, <2>6
<1>8. Nat \subseteq same
  <2>. HIDE DEF same
  <2>. QED
    BY <1>6, <1>7, AllQuotients
<1>9. n \in same /\ n \in 0..n
  BY <1>3, <1>8
<1>. QED
  BY <1>4, <1>9

LEMMA DigitsOfNone == \A b \in Bases : DigitsOf(0, b) = <<>>
<1>1. SUFFICES ASSUME NEW b \in Bases PROVE DigitsOf(0, b) = <<>>
  OBVIOUS
<1>2. PICK g : WrittenUp(b, 0, g)
  BY SomeWriting
<1>3. WritesOn(b, 0, g) /\ DigitsOf(0, b) = g[0]
  BY <1>2, WrittenUpAre, WrittenIs
<1>. QED
  BY <1>3 DEF WritesOn

LEMMA DigitsStep ==
  ASSUME NEW b \in Bases, NEW n \in Nat, n > 0
  PROVE  DigitsOf(n, b) = Append(DigitsOf(n \div b, b), n % b)
<1>1. PICK g : WrittenUp(b, n, g)
  BY SomeWriting
<1>2. WritesOn(b, n, g) /\ \A i \in 0..n : DigitsOf(i, b) = g[i]
  BY <1>1, WrittenUpAre, WrittenIs
<1>3. PICK q : q = n \div b
  OBVIOUS
<1>4. q \in 0..n /\ n \in 1..n /\ n \in 0..n
  <2>1. q \in 0..(n - 1)
    BY <1>3, DividedIs
  <2>. QED
    BY <2>1
<1>5. g[n] = Append(g[q], n % b)
  BY <1>2, <1>3, <1>4 DEF WritesOn
<1>. QED
  BY <1>2, <1>3, <1>4, <1>5

-----------------------------------------------------------------------------
(* Numbers have no leading zeros, and are told by their digits *)

Unpadded(digits) == digits = <<>> \/ digits[1] # 0

LEMMA WrittenTells ==
  ASSUME NEW b \in Bases, NEW n \in Nat
  PROVE  /\ DigitsOf(n, b) \in Seq(Digits(b))
         /\ NumberOf(DigitsOf(n, b), b) = n
         /\ Unpadded(DigitsOf(n, b))
<1>. DEFINE Fine(m) ==
       /\ DigitsOf(m, b) \in Seq(Digits(b))
       /\ NumberOf(DigitsOf(m, b), b) = m
       /\ m > 0 => DigitsOf(m, b) # <<>> /\ DigitsOf(m, b)[1] # 0
     good == {m \in Nat : Fine(m)}
<1>1. 0 \in good
  <2>1. DigitsOf(0, b) = <<>> /\ NumberOf(<<>>, b) = 0 /\ <<>> \in Seq(Digits(b))
    BY DigitsOfNone, NumberOfNone, EmptySeq
  <2>2. DigitsOf(0, b) \in Seq(Digits(b)) /\ NumberOf(DigitsOf(0, b), b) = 0
    BY <2>1, Zenon
  <2>. QED
    BY <2>2
<1>2. ASSUME NEW m \in Nat, m > 0, m \div b \in good PROVE m \in good
  <2>1. PICK q \in Nat : q = m \div b
    BY DividedIs
  <2>2. PICK d \in Digits(b) : d = m % b
    BY DividedIs
  <2>3. q * b + d = m
    BY <2>1, <2>2, DividedIs
  <2>4. PICK s : s = DigitsOf(q, b)
    OBVIOUS
  <2>5. DigitsOf(m, b) = Append(s, d)
    BY <1>2, <2>1, <2>2, <2>4, DigitsStep
  <2>6. Fine(q)
    BY <1>2, <2>1
  <2>7. s \in Seq(Digits(b)) /\ NumberOf(s, b) = q
    BY <2>4, <2>6
  <2>8. Append(s, d) \in Seq(Digits(b)) /\ Append(s, d) # <<>> /\ NumberOf(Append(s, d), b) = m
    BY <2>3, <2>7, NumberStep, AppendProperties
  <2>9. Append(s, d)[1] # 0
    <3>1. CASE q > 0
      <4>1. s # <<>> /\ s[1] # 0
        BY <2>4, <2>6, <3>1
      <4>2. 1 \in 1..Len(s)
        BY <2>7, <4>1, EmptySeq
      <4>. QED
        BY <2>7, <4>1, <4>2, AppendProperties
    <3>2. CASE q = 0
      <4>1. s = <<>>
        BY <2>4, <3>2, DigitsOfNone
      <4>2. d # 0
        BY <1>2, <2>3, <3>2, JoinedIs
      <4>. QED
        BY <4>1, <4>2
    <3>. QED
      BY <3>1, <3>2
  <2>. QED
    BY <2>5, <2>8, <2>9
<1>3. Nat \subseteq good
  <2>. HIDE DEF good
  <2>. QED
    BY <1>1, <1>2, AllQuotients
<1>4. Fine(n)
  BY <1>3
<1>5. n = 0 => DigitsOf(n, b) = <<>>
  BY DigitsOfNone
<1>. QED
  BY <1>4, <1>5 DEF Unpadded

LEMMA ReadTells ==
  ASSUME NEW b \in Bases, NEW s \in Seq(Digits(b)), Unpadded(s)
  PROVE  DigitsOf(NumberOf(s, b), b) = s
<1>. DEFINE Fine(t) ==
       Unpadded(t) => /\ DigitsOf(NumberOf(t, b), b) = t
                      /\ t # <<>> => NumberOf(t, b) > 0
     good == {t \in Seq(Digits(b)) : Fine(t)}
<1>1. <<>> \in good
  BY NumberOfNone, DigitsOfNone, EmptySeq
<1>2. ASSUME NEW t \in Seq(Digits(b)), NEW d \in Digits(b), t \in good PROVE Append(t, d) \in good
  <2>1. Append(t, d) \in Seq(Digits(b))
    BY AppendProperties
  <2>2. SUFFICES ASSUME Unpadded(Append(t, d))
                 PROVE  /\ DigitsOf(NumberOf(Append(t, d), b), b) = Append(t, d)
                        /\ NumberOf(Append(t, d), b) > 0
    BY <2>1
  <2>3. PICK q \in Nat : q = NumberOf(t, b)
    BY NumbersAreNaturals
  <2>4. PICK n : n = NumberOf(Append(t, d), b)
    OBVIOUS
  <2>5. n = q * b + d
    BY <2>3, <2>4, NumberStep
  <2>6. n \in Nat /\ d \in Nat /\ n \div b = q /\ n % b = d /\ (q > 0 \/ d > 0 => n > 0)
    BY <2>5, JoinedIs
  <2>7. Append(t, d)[1] # 0
    BY <2>2, AppendProperties DEF Unpadded
  <2>8. DigitsOf(q, b) = t /\ (q > 0 \/ d > 0)
    <3>1. CASE t = <<>>
      <4>1. Append(t, d)[1] = d
        BY <3>1
      <4>2. d > 0
        BY <2>6, <2>7, <4>1
      <4>3. q = 0
        BY <2>3, <3>1, NumberOfNone
      <4>. QED
        BY <3>1, <4>2, <4>3, DigitsOfNone
    <3>2. CASE t # <<>>
      <4>1. 1 \in 1..Len(t)
        BY <3>2, EmptySeq
      <4>2. Append(t, d)[1] = t[1]
        BY <4>1, AppendProperties
      <4>3. Unpadded(t)
        BY <2>7, <4>2 DEF Unpadded
      <4>. QED
        BY <1>2, <2>3, <3>2, <4>3
    <3>. QED
      BY <3>1, <3>2
  <2>9. DigitsOf(n, b) = Append(t, d)
    BY <2>6, <2>8, DigitsStep
  <2>. QED
    BY <2>4, <2>6, <2>8, <2>9
<1>3. Seq(Digits(b)) \subseteq good
  <2>. HIDE DEF good
  <2>. QED
    BY <1>1, <1>2, AllSequences
<1>4. Fine(s)
  BY <1>3
<1>. QED
  BY <1>4

-----------------------------------------------------------------------------
(* Leading zeros *)

LEMMA ZerosAre ==
  ASSUME NEW b \in Bases, NEW k \in Nat
  PROVE  /\ Zeros(k) \in Seq(Digits(b)) /\ Len(Zeros(k)) = k
         /\ \A i \in 1..k : Zeros(k)[i] = 0
<1>1. 0 \in Digits(b)
  BY JoinedIs DEF Digits, Bases, Base, ByteBase
<1>2. Zeros(k) \in [1..k -> Digits(b)]
  BY <1>1 DEF Zeros
<1>. QED
  BY <1>2 DEF Zeros

LEMMA OneMoreZero ==
  ASSUME NEW b \in Bases, NEW k \in Nat
  PROVE  0 \in Digits(b) /\ Zeros(k + 1) = Append(Zeros(k), 0)
<1>1. 0 \in Digits(b)
  BY DEF Digits, Bases, Base, ByteBase
<1>2. PICK m \in Nat : m = k + 1
  OBVIOUS
<1>3. Zeros(m) \in Seq(Digits(b)) /\ Len(Zeros(m)) = m /\ \A i \in 1..m : Zeros(m)[i] = 0
  BY ZerosAre
<1>4. Zeros(k) \in Seq(Digits(b)) /\ Len(Zeros(k)) = k /\ \A i \in 1..k : Zeros(k)[i] = 0
  BY ZerosAre
<1>5. PICK t : t = Append(Zeros(k), 0)
  OBVIOUS
<1>6. /\ t \in Seq(Digits(b)) /\ Len(t) = k + 1 /\ t[k + 1] = 0
      /\ \A i \in 1..k : t[i] = 0
  BY <1>1, <1>4, <1>5, AppendProperties
<1>7. \A i \in 1..Len(t) : t[i] = Zeros(m)[i]
  <2>1. \A i \in 1..m : i \in 1..k \/ i = k + 1
    BY <1>2
  <2>. QED
    BY <1>2, <1>3, <1>6, <2>1
<1>8. t = Zeros(m)
  BY <1>2, <1>3, <1>6, <1>7, SeqEqual
<1>. QED
  BY <1>1, <1>2, <1>5, <1>8

LEMMA AppendPadded ==
  ASSUME NEW S, NEW s \in Seq(S), NEW t \in Seq(S), NEW e \in S
  PROVE  s \o Append(t, e) = Append(s \o t, e)
<1>1. <<e>> \in Seq(S) /\ s \o t \in Seq(S)
  BY ConcatProperties
<1>2. Append(t, e) = t \o <<e>> /\ Append(s \o t, e) = (s \o t) \o <<e>>
  BY <1>1, AppendIsConcat
<1>. QED
  BY <1>1, <1>2, ConcatAssociative

\* Leading zeros do not change the number.
LEMMA PaddedNumber ==
  ASSUME NEW b \in Bases, NEW k \in Nat, NEW s \in Seq(Digits(b))
  PROVE  NumberOf(Zeros(k) \o s, b) = NumberOf(s, b)
<1>1. Zeros(k) \in Seq(Digits(b))
  BY ZerosAre
<1>2. NumberOf(Zeros(k), b) = 0
  <2>. DEFINE fine == {m \in Nat : NumberOf(Zeros(m), b) = 0}
  <2>1. 0 \in fine
    <3>1. Zeros(0) = <<>>
      BY ZerosAre, EmptySeq
    <3>. QED
      BY <3>1, NumberOfNone
  <2>2. ASSUME NEW m \in 1..k, m - 1 \in fine PROVE m \in fine
    <3>1. PICK l \in Nat : l = m - 1 /\ m = l + 1
      OBVIOUS
    <3>2. Zeros(m) = Append(Zeros(l), 0) /\ 0 \in Digits(b) /\ Zeros(l) \in Seq(Digits(b))
      BY <3>1, OneMoreZero, ZerosAre
    <3>3. NumberOf(Zeros(m), b) = NumberOf(Zeros(l), b) * b + 0
      BY <3>2, NumberStep
    <3>4. NumberOf(Zeros(l), b) = 0
      BY <2>2, <3>1
    <3>5. 0 * b + 0 = 0
      BY <3>2, JoinedIs
    <3>. QED
      BY <3>3, <3>4, <3>5
  <2>3. 0..k \subseteq fine
    <3>. HIDE DEF fine
    <3>. QED
      BY <2>1, <2>2, UpToAll
  <2>. QED
    BY <2>3
<1>. DEFINE good == {t \in Seq(Digits(b)) : NumberOf(Zeros(k) \o t, b) = NumberOf(t, b)}
<1>3. <<>> \in good
  BY <1>1, <1>2, NumberOfNone, EmptySeq, ConcatEmptySeq
<1>4. ASSUME NEW t \in Seq(Digits(b)), NEW d \in Digits(b), t \in good PROVE Append(t, d) \in good
  <2>1. Zeros(k) \o t \in Seq(Digits(b)) /\ Append(t, d) \in Seq(Digits(b))
    BY <1>1, ConcatProperties, AppendProperties
  <2>2. Zeros(k) \o Append(t, d) = Append(Zeros(k) \o t, d)
    BY <1>1, AppendPadded
  <2>3. NumberOf(Append(Zeros(k) \o t, d), b) = NumberOf(Zeros(k) \o t, b) * b + d
    BY <2>1, NumberStep
  <2>4. NumberOf(Append(t, d), b) = NumberOf(t, b) * b + d
    BY NumberStep
  <2>. QED
    BY <1>4, <2>1, <2>2, <2>3, <2>4
<1>5. Seq(Digits(b)) \subseteq good
  <2>. HIDE DEF good
  <2>. QED
    BY <1>3, <1>4, AllSequences
<1>. QED
  BY <1>5

LEMMA LeadingZerosIs ==
  ASSUME NEW b \in Bases, NEW k \in Nat, NEW s \in Seq(Digits(b)), Unpadded(s)
  PROVE  LeadingZeros(Zeros(k) \o s) = k
<1>1. PICK t : t = Zeros(k) \o s
  OBVIOUS
<1>2. PICK l \in Nat : l = Len(s)
  BY LenProperties
<1>3. /\ t \in Seq(Digits(b)) /\ Len(t) = k + l
      /\ \A i \in 1..(k + l) : t[i] = IF i <= k THEN Zeros(k)[i] ELSE s[i - k]
  <2>1. PICK z : z = Zeros(k)
    OBVIOUS
  <2>2. z \in Seq(Digits(b)) /\ Len(z) = k
    BY <2>1, ZerosAre
  <2>. QED
    BY <1>1, <1>2, <2>1, <2>2, ConcatProperties
<1>4. \A i \in 1..k : t[i] = 0
  <2>1. \A i \in 1..k : i \in 1..(k + l) /\ i <= k
    BY <1>2
  <2>. QED
    BY <1>3, <2>1, ZerosAre
<1>5. l > 0 => t[k + 1] # 0
  <2>1. SUFFICES ASSUME l > 0 PROVE t[k + 1] # 0
    OBVIOUS
  <2>2. k + 1 \in 1..(k + l) /\ ~(k + 1 <= k) /\ (k + 1) - k = 1
    BY <2>1
  <2>3. t[k + 1] = s[1]
    BY <1>3, <2>2
  <2>. QED
    BY <1>2, <2>1, <2>3, EmptySeq DEF Unpadded
<1>. DEFINE ends == {i \in 1..(Len(t) + 1) : i > Len(t) \/ t[i] # 0}
<1>6. k + 1 \in ends /\ \A i \in ends : k + 1 <= i
  <2>1. k + 1 \in 1..(Len(t) + 1) /\ (l = 0 => k + 1 > Len(t))
    BY <1>3
  <2>2. k + 1 \in ends
    BY <1>5, <2>1
  <2>3. ASSUME NEW i \in ends PROVE k + 1 <= i
    <3>1. i \in 1..k => i <= Len(t) /\ t[i] = 0
      BY <1>3, <1>4
    <3>. QED
      BY <3>1
  <2>. QED
    BY <2>2, <2>3
<1>7. \A i \in ends : i \in Nat
  BY <1>3
<1>8. LeadingZeros(t) = (CHOOSE i \in ends : \A j \in ends : i <= j) - 1
  BY DEF LeadingZeros
<1>9. (CHOOSE i \in ends : \A j \in ends : i <= j) = k + 1
  <2>. HIDE DEF ends
  <2>1. PICK e : e = (CHOOSE i \in ends : \A j \in ends : i <= j)
    OBVIOUS
  <2>2. e \in ends /\ \A j \in ends : e <= j
    BY <1>6, <2>1
  <2>3. e <= k + 1 /\ k + 1 <= e /\ e \in Nat
    BY <1>6, <1>7, <2>2
  <2>. QED
    BY <2>1, <2>3
<1>. HIDE DEF ends
<1>10. (k + 1) - 1 = k
  OBVIOUS
<1>11. LeadingZeros(t) = k
  BY <1>8, <1>9, <1>10
<1>. QED
  BY <1>1, <1>11

\* Every sequence of digits is its leading zeros and what follows them.
LEMMA ZerosThenRest ==
  ASSUME NEW b \in Bases, NEW s \in Seq(Digits(b))
  PROVE  \E k \in Nat, t \in Seq(Digits(b)) : s = Zeros(k) \o t /\ Unpadded(t)
<1>. DEFINE Split(u) == \E k \in Nat, t \in Seq(Digits(b)) : u = Zeros(k) \o t /\ Unpadded(t)
            good == {u \in Seq(Digits(b)) : Split(u)}
<1>1. <<>> \in good
  <2>1. Zeros(0) = <<>> /\ <<>> \in Seq(Digits(b)) /\ <<>> \o <<>> = <<>>
    BY ZerosAre, EmptySeq, ConcatEmptySeq
  <2>. QED
    BY <2>1 DEF Unpadded
<1>2. ASSUME NEW u \in Seq(Digits(b)), NEW d \in Digits(b), u \in good PROVE Append(u, d) \in good
  <2>1. PICK k \in Nat, t \in Seq(Digits(b)) : u = Zeros(k) \o t /\ Unpadded(t)
    BY <1>2
  <2>2. /\ Append(u, d) \in Seq(Digits(b)) /\ Append(t, d) \in Seq(Digits(b))
        /\ Zeros(k) \in Seq(Digits(b))
    BY ZerosAre, AppendProperties
  <2>3. Append(u, d) = Zeros(k) \o Append(t, d)
    BY <2>1, <2>2, AppendPadded
  <2>4. CASE t # <<>>
    <3>1. 1 \in 1..Len(t)
      BY <2>4, EmptySeq
    <3>2. Append(t, d)[1] = t[1]
      BY <3>1, AppendProperties
    <3>3. Unpadded(Append(t, d))
      BY <2>1, <2>4, <3>2 DEF Unpadded
    <3>. QED
      BY <2>2, <2>3, <3>3
  <2>5. CASE t = <<>> /\ d # 0
    <3>1. Append(t, d)[1] = d
      BY <2>5
    <3>2. Unpadded(Append(t, d))
      BY <2>5, <3>1 DEF Unpadded
    <3>. QED
      BY <2>2, <2>3, <3>2
  <2>6. CASE t = <<>> /\ d = 0
    <3>1. u = Zeros(k)
      BY <2>1, <2>2, <2>6, ConcatEmptySeq
    <3>2. Append(u, d) = Zeros(k + 1) /\ k + 1 \in Nat
      <4>1. Zeros(k + 1) = Append(Zeros(k), 0)
        BY OneMoreZero
      <4>2. Append(u, d) = Append(Zeros(k), 0)
        BY <2>6, <3>1
      <4>3. k + 1 \in Nat
        OBVIOUS
      <4>. QED
        BY <4>1, <4>2, <4>3
    <3>3. Append(u, d) = Zeros(k + 1) \o <<>> /\ <<>> \in Seq(Digits(b))
      BY <2>2, <3>2, ConcatEmptySeq, EmptySeq
    <3>. QED
      BY <2>2, <3>2, <3>3 DEF Unpadded
  <2>. QED
    BY <2>4, <2>5, <2>6
<1>3. Seq(Digits(b)) \subseteq good
  <2>. HIDE DEF good
  <2>. QED
    BY <1>1, <1>2, AllSequences
<1>. QED
  BY <1>3

\* Digits carried into another base and back are what they were.
LEMMA RebasedBack ==
  ASSUME NEW from \in Bases, NEW to \in Bases, NEW s \in Seq(Digits(from))
  PROVE  /\ Rebase(s, from, to) \in Seq(Digits(to))
         /\ Rebase(Rebase(s, from, to), to, from) = s
<1>1. PICK k \in Nat, t \in Seq(Digits(from)) : s = Zeros(k) \o t /\ Unpadded(t)
  BY ZerosThenRest
<1>2. PICK n \in Nat : n = NumberOf(t, from)
  BY NumbersAreNaturals
<1>3. LeadingZeros(s) = k /\ NumberOf(s, from) = n
  BY <1>1, <1>2, LeadingZerosIs, PaddedNumber
<1>4. PICK r : r = DigitsOf(n, to)
  OBVIOUS
<1>5. r \in Seq(Digits(to)) /\ NumberOf(r, to) = n /\ Unpadded(r)
  BY <1>4, WrittenTells
<1>6. PICK w : w = Zeros(k) \o r
  OBVIOUS
<1>7. Rebase(s, from, to) = w
  BY <1>3, <1>4, <1>6 DEF Rebase
<1>8. LeadingZeros(w) = k /\ NumberOf(w, to) = n
  BY <1>5, <1>6, LeadingZerosIs, PaddedNumber
<1>9. w \in Seq(Digits(to))
  BY <1>5, <1>6, ZerosAre, ConcatProperties
<1>10. DigitsOf(n, from) = t
  BY <1>1, <1>2, ReadTells
<1>11. Rebase(w, to, from) = s
  BY <1>1, <1>8, <1>10 DEF Rebase
<1>. QED
  BY <1>7, <1>9, <1>11

\* Base58, leading zero bytes included, is read back as it was written, and written back as
\* it was read, for byte strings and texts of any length: two keys never share a text, and
\* two texts never a key (b58encode, b58decode).
THEOREM Base58IsExact ==
  /\ \A data \in Seq(Digits(ByteBase)) :
       Encode58(data) \in Seq(Digits(Base)) /\ Decode58(Encode58(data)) = data
  /\ \A text \in Seq(Digits(Base)) :
       Decode58(text) \in Seq(Digits(ByteBase)) /\ Encode58(Decode58(text)) = text
  BY RebasedBack DEF Encode58, Decode58, Bases

-----------------------------------------------------------------------------
(* Sequences *)

\* Induction over sequences, by putting an element in front.
LEMMA AllFromFront ==
  ASSUME NEW S, NEW good, <<>> \in good, \A e \in S, s \in Seq(S) : s \in good => <<e>> \o s \in good
  PROVE  Seq(S) \subseteq good
<1>. DEFINE fine == {k \in Nat : \A s \in Seq(S) : Len(s) = k => s \in good}
<1>1. 0 \in fine
  <2>1. \A s \in Seq(S) : Len(s) = 0 => s = <<>>
    BY EmptySeq
  <2>. QED
    BY <2>1
<1>2. ASSUME NEW k \in Nat, k - 1 \in fine PROVE k \in fine
  <2>1. SUFFICES ASSUME NEW s \in Seq(S), Len(s) = k PROVE s \in good
    OBVIOUS
  <2>2. CASE s = <<>>
    BY <2>2
  <2>3. CASE s # <<>>
    <3>1. Head(s) \in S /\ Tail(s) \in Seq(S) /\ Len(Tail(s)) = k - 1
      BY <2>1, <2>3, HeadTailProperties
    <3>2. Tail(s) \in good
      BY <1>2, <3>1
    <3>3. s = <<Head(s)>> \o Tail(s)
      <4>. DEFINE t == <<Head(s)>> \o Tail(s)
      <4>1. <<Head(s)>> \in Seq(S) /\ Len(<<Head(s)>>) = 1 /\ <<Head(s)>>[1] = Head(s)
        BY <3>1
      <4>2. /\ t \in Seq(S) /\ Len(t) = 1 + (k - 1)
            /\ \A i \in 1..(1 + (k - 1)) : t[i] = IF i <= 1 THEN <<Head(s)>>[i] ELSE Tail(s)[i - 1]
        BY <3>1, <4>1, ConcatProperties
      <4>. HIDE DEF t
      <4>3. \A i \in 1..Len(Tail(s)) : Tail(s)[i] = s[i + 1]
        BY <2>3, HeadTailProperties
      <4>4. ASSUME NEW i \in 1..Len(s) PROVE t[i] = s[i]
        <5>1. CASE i = 1
          BY <2>1, <2>3, <4>1, <4>2, <5>1
        <5>2. CASE i # 1
          <6>1. i - 1 \in 1..Len(Tail(s)) /\ (i - 1) + 1 = i /\ ~(i <= 1) /\ i \in 1..(1 + (k - 1))
            BY <2>1, <3>1, <5>2
          <6>. QED
            BY <4>2, <4>3, <6>1
        <5>. QED
          BY <5>1, <5>2
      <4>5. Len(s) = Len(t)
        BY <2>1, <4>2
      <4>6. s = t
        BY <4>2, <4>4, <4>5, SeqEqual
      <4>. QED
        BY <4>6 DEF t
    <3>. QED
      BY <3>1, <3>2, <3>3
  <2>. QED
    BY <2>2, <2>3
<1>3. ASSUME NEW s \in Seq(S) PROVE s \in good
  <2>1. Len(s) \in Nat
    BY LenProperties
  <2>2. \A n \in 1..Len(s) : n - 1 \in fine => n \in fine
    <3>. HIDE DEF fine
    <3>. QED
      BY <1>2, <2>1
  <2>3. 0..Len(s) \subseteq fine
    <3>. HIDE DEF fine
    <3>. QED
      BY <1>1, <2>1, <2>2, UpToAll
  <2>. QED
    BY <2>1, <2>3
<1>. QED
  BY <1>3

\* A sequence is empty or has a first element.
LEMMA FrontAndRest ==
  ASSUME NEW S, NEW s \in Seq(S)
  PROVE  s = <<>> \/ \E e \in S, t \in Seq(S) : s = <<e>> \o t
<1>. DEFINE good == {t \in Seq(S) : t = <<>> \/ \E e \in S, u \in Seq(S) : t = <<e>> \o u}
<1>1. <<>> \in good
  BY EmptySeq
<1>2. ASSUME NEW e \in S, NEW t \in Seq(S) PROVE <<e>> \o t \in good
  <2>1. <<e>> \in Seq(S) /\ <<e>> \o t \in Seq(S)
    BY ConcatProperties
  <2>. QED
    BY <2>1
<1>3. Seq(S) \subseteq good
  <2>. HIDE DEF good
  <2>. QED
    BY <1>1, <1>2, AllFromFront
<1>. QED
  BY <1>3

LEMMA Fronted ==
  ASSUME NEW S, NEW e \in S, NEW s \in Seq(S)
  PROVE  /\ <<e>> \o s \in Seq(S) /\ Len(<<e>> \o s) = Len(s) + 1 /\ <<e>> \o s # <<>>
         /\ (<<e>> \o s)[1] = e
         /\ \A i \in 1..Len(s) : (<<e>> \o s)[i + 1] = s[i]
<1>1. PICK n \in Nat : n = Len(s)
  BY LenProperties
<1>2. <<e>> \in Seq(S) /\ Len(<<e>>) = 1 /\ <<e>>[1] = e
  OBVIOUS
<1>3. /\ <<e>> \o s \in Seq(S) /\ Len(<<e>> \o s) = 1 + n
      /\ \A i \in 1..(1 + n) : (<<e>> \o s)[i] = IF i <= 1 THEN <<e>>[i] ELSE s[i - 1]
  BY <1>1, <1>2, ConcatProperties
<1>4. 1 \in 1..(1 + n) /\ \A i \in 1..n : i + 1 \in 1..(1 + n) /\ ~(i + 1 <= 1) /\ (i + 1) - 1 = i
  BY <1>1
<1>5. (<<e>> \o s)[1] = e
  BY <1>2, <1>3, <1>4
<1>6. \A i \in 1..n : (<<e>> \o s)[i + 1] = s[i]
  BY <1>3, <1>4
<1>7. <<e>> \o s # <<>>
  BY <1>1, <1>3
<1>. QED
  BY <1>1, <1>3, <1>5, <1>6, <1>7

LEMMA FrontTells ==
  ASSUME NEW S, NEW d \in S, NEW e \in S, NEW s \in Seq(S), NEW t \in Seq(S), <<d>> \o s = <<e>> \o t
  PROVE  d = e /\ s = t
<1>1. Len(s) \in Nat /\ Len(t) \in Nat
  BY LenProperties
<1>2. PICK a, b : a = <<d>> \o s /\ b = <<e>> \o t
  OBVIOUS
<1>3. Len(a) = Len(s) + 1 /\ a[1] = d /\ \A i \in 1..Len(s) : a[i + 1] = s[i]
  BY <1>2, Fronted
<1>4. Len(b) = Len(t) + 1 /\ b[1] = e /\ \A i \in 1..Len(t) : b[i + 1] = t[i]
  BY <1>2, Fronted
<1>5. a = b
  BY <1>2
<1>6. d = e /\ Len(s) = Len(t)
  BY <1>1, <1>3, <1>4, <1>5
<1>7. \A i \in 1..Len(s) : s[i] = t[i]
  BY <1>3, <1>4, <1>5, <1>6
<1>. QED
  BY <1>6, <1>7, SeqEqual

LEMMA Listed ==
  ASSUME NEW S, NEW c \in S, NEW d \in S, NEW e \in S
  PROVE  /\ <<c>> \in Seq(S) /\ <<d, e>> \in Seq(S) /\ <<c, d, e>> \in Seq(S)
         /\ <<d, e>> = <<d>> \o <<e>> /\ <<c, d, e>> = <<c>> \o <<d, e>>
<1>1. <<c>> \in Seq(S) /\ <<d>> \in Seq(S) /\ <<e>> \in Seq(S) /\ <<d, e>> \in Seq(S) /\ <<c, d, e>> \in Seq(S)
  OBVIOUS
<1>2. <<d, e>> = <<d>> \o <<e>>
  <2>1. PICK t : t = <<d>> \o <<e>>
    OBVIOUS
  <2>2. t \in Seq(S) /\ Len(t) = 2 /\ t[1] = d /\ t[2] = e
    <3>1. Len(<<e>>) = 1 /\ <<e>>[1] = e
      OBVIOUS
    <3>. QED
      BY <1>1, <2>1, <3>1, Fronted
  <2>3. PICK u : u = <<d, e>>
    OBVIOUS
  <2>4. u \in Seq(S) /\ Len(u) = 2 /\ u[1] = d /\ u[2] = e
    BY <1>1, <2>3
  <2>5. t = u
    BY <2>2, <2>4, SeqEqual
  <2>. QED
    BY <2>1, <2>3, <2>5
<1>3. <<c, d, e>> = <<c>> \o <<d, e>>
  <2>1. PICK t : t = <<c>> \o <<d, e>>
    OBVIOUS
  <2>2. t \in Seq(S) /\ Len(t) = 3 /\ t[1] = c /\ t[2] = d /\ t[3] = e
    <3>1. Len(<<d, e>>) = 2 /\ <<d, e>>[1] = d /\ <<d, e>>[2] = e
      OBVIOUS
    <3>. QED
      BY <1>1, <2>1, <3>1, Fronted
  <2>. QED
    BY <1>1, <2>1, <2>2, SeqEqual
<1>. QED
  BY <1>1, <1>2, <1>3

LEMMA TwoInFront ==
  ASSUME NEW S, NEW d \in S, NEW e \in S, NEW s \in Seq(S)
  PROVE  <<d, e>> \o s = <<d>> \o (<<e>> \o s)
<1>1. <<d>> \in Seq(S) /\ <<e>> \in Seq(S) /\ <<d, e>> = <<d>> \o <<e>>
  BY Listed
<1>2. (<<d>> \o <<e>>) \o s = <<d>> \o (<<e>> \o s)
  BY <1>1, ConcatAssociative
<1>. QED
  BY <1>1, <1>2, Zenon

LEMMA ThreeInFront ==
  ASSUME NEW S, NEW c \in S, NEW d \in S, NEW e \in S, NEW s \in Seq(S)
  PROVE  <<c, d, e>> \o s = <<c>> \o (<<d>> \o (<<e>> \o s))
<1>1. <<c>> \in Seq(S) /\ <<d, e>> \in Seq(S) /\ <<c, d, e>> = <<c>> \o <<d, e>>
  BY Listed
<1>2. (<<c>> \o <<d, e>>) \o s = <<c>> \o (<<d, e>> \o s)
  BY <1>1, ConcatAssociative
<1>3. <<d, e>> \o s = <<d>> \o (<<e>> \o s)
  BY TwoInFront
<1>. QED
  BY <1>1, <1>2, <1>3, Zenon

-----------------------------------------------------------------------------
(* Texts one after the other *)

ChainUp(texts, count, g) == g = [i \in 0..count |-> IF i = 0 THEN <<>> ELSE g[i - 1] \o texts[i]]
ChainsOn(texts, count, g) == g[0] = <<>> /\ \A i \in 1..count : g[i] = g[i - 1] \o texts[i]

LEMMA ChainUpAre ==
  ASSUME NEW texts, NEW count \in Nat, NEW g, ChainUp(texts, count, g)
  PROVE  ChainsOn(texts, count, g)
<1>. DEFINE at(i) == IF i = 0 THEN <<>> ELSE g[i - 1] \o texts[i]
<1>1. g = [i \in 0..count |-> at(i)]
  BY DEF ChainUp
<1>2. \A i \in 0..count : g[i] = at(i)
  <2>. HIDE DEF at
  <2>. QED
    BY <1>1
<1>3. 0 \in 0..count /\ \A i \in 1..count : i \in 0..count /\ i # 0
  OBVIOUS
<1>. QED
  BY <1>2, <1>3 DEF ChainsOn

LEMMA SomeChain ==
  ASSUME NEW texts, NEW count \in Nat
  PROVE  \E g : ChainUp(texts, count, g)
<1>. DEFINE fine == {m \in Nat : \E g : ChainUp(texts, m, g)}
<1>1. 0 \in fine
  <2>. DEFINE g == [i \in 0..0 |-> <<>>]
  <2>1. g = [i \in 0..0 |-> IF i = 0 THEN <<>> ELSE g[i - 1] \o texts[i]]
    OBVIOUS
  <2>. HIDE DEF g
  <2>2. ChainUp(texts, 0, g)
    BY <2>1 DEF ChainUp
  <2>. QED
    BY <2>2
<1>2. ASSUME NEW m \in Nat, m \in fine PROVE m + 1 \in fine
  <2>1. PICK g : ChainUp(texts, m, g)
    BY <1>2
  <2>2. ChainsOn(texts, m, g)
    BY <2>1, ChainUpAre
  <2>. DEFINE last == g[m] \o texts[m + 1]
              h == [i \in 0..(m + 1) |-> IF i <= m THEN g[i] ELSE last]
              next == [i \in 0..(m + 1) |-> IF i = 0 THEN <<>> ELSE h[i - 1] \o texts[i]]
  <2>3. ASSUME NEW i \in 0..(m + 1) PROVE h[i] = next[i]
    <3>1. CASE i = 0
      BY <2>2, <3>1 DEF ChainsOn
    <3>2. CASE i \in 1..m
      <4>1. i - 1 \in 0..(m + 1) /\ i - 1 <= m /\ i <= m /\ i # 0
        BY <3>2
      <4>2. h[i - 1] = g[i - 1] /\ h[i] = g[i] /\ next[i] = h[i - 1] \o texts[i]
        BY <4>1
      <4>. QED
        BY <2>2, <3>2, <4>2 DEF ChainsOn
    <3>3. CASE i = m + 1
      <4>1. i - 1 = m /\ m \in 0..(m + 1) /\ m <= m /\ ~(i <= m) /\ i # 0
        BY <3>3
      <4>2. h[m] = g[m] /\ h[i] = last /\ next[i] = h[m] \o texts[i]
        BY <4>1
      <4>. QED
        BY <3>3, <4>2
    <3>. QED
      BY <3>1, <3>2, <3>3
  <2>4. h = next
    <3>1. DOMAIN h = DOMAIN next /\ h = [i \in DOMAIN h |-> h[i]] /\ next = [i \in DOMAIN next |-> next[i]]
      OBVIOUS
    <3>. QED
      BY <2>3
  <2>5. h = [i \in 0..(m + 1) |-> IF i = 0 THEN <<>> ELSE h[i - 1] \o texts[i]]
    BY <2>4
  <2>. HIDE DEF h
  <2>6. m + 1 \in Nat
    OBVIOUS
  <2>7. ChainUp(texts, m + 1, h)
    BY <2>5, Zenon DEF ChainUp
  <2>. QED
    BY <2>6, <2>7
<1>3. \A n \in 1..count : n - 1 \in fine => n \in fine
  <2>1. ASSUME NEW n \in 1..count, n - 1 \in fine PROVE n \in fine
    <3>1. n - 1 \in Nat /\ (n - 1) + 1 = n
      OBVIOUS
    <3>. HIDE DEF fine
    <3>. QED
      BY <1>2, <2>1, <3>1
  <2>. QED
    BY <2>1
<1>4. count \in fine
  <2>. HIDE DEF fine
  <2>1. 0..count \subseteq fine
    BY <1>1, <1>3, UpToAll
  <2>. QED
    BY <2>1
<1>. QED
  BY <1>4

LEMMA ChainedIs ==
  ASSUME NEW S, NEW texts \in Seq(S)
  PROVE  \E g : ChainUp(texts, Len(texts), g) /\ Chained(texts) = g[Len(texts)]
<1>1. Len(texts) \in Nat
  BY LenProperties
<1>2. Chained(texts) = (CHOOSE g : ChainUp(texts, Len(texts), g))[Len(texts)]
  BY DEF Chained, ChainUp
<1>3. \E g : ChainUp(texts, Len(texts), g)
  BY <1>1, SomeChain
<1>. QED
  BY <1>2, <1>3

LEMMA ChainedNone == Chained(<<>>) = <<>>
<1>1. PICK g : ChainUp(<<>>, 0, g) /\ Chained(<<>>) = g[0]
  BY ChainedIs, EmptySeq
<1>. QED
  BY <1>1, ChainUpAre DEF ChainsOn

\* One more text.
LEMMA ChainedStep ==
  ASSUME NEW S, NEW p \in Seq(S), NEW t \in S
  PROVE  Chained(Append(p, t)) = Chained(p) \o t
<1>1. PICK n \in Nat : n = Len(p)
  BY LenProperties
<1>2. PICK q : q = Append(p, t)
  OBVIOUS
<1>3. /\ q \in Seq(S) /\ Len(q) = n + 1 /\ q[n + 1] = t
      /\ \A i \in 1..n : q[i] = p[i]
  BY <1>1, <1>2, AppendProperties
<1>4. PICK g : ChainUp(p, n, g) /\ Chained(p) = g[n]
  BY <1>1, ChainedIs
<1>5. PICK h : ChainUp(q, n + 1, h) /\ Chained(q) = h[n + 1]
  BY <1>3, ChainedIs
<1>6. ChainsOn(p, n, g)
  BY <1>4, ChainUpAre
<1>7. n + 1 \in Nat /\ ChainsOn(q, n + 1, h)
  BY <1>5, ChainUpAre
<1>. DEFINE same == {i \in Nat : h[i] = g[i]}
<1>8. \A i \in 1..n : i - 1 \in same => i \in same
  <2>1. ASSUME NEW i \in 1..n, i - 1 \in same PROVE i \in same
    <3>1. i \in 1..(n + 1) /\ i \in Nat
      OBVIOUS
    <3>2. h[i] = h[i - 1] \o q[i] /\ g[i] = g[i - 1] \o p[i]
      BY <1>6, <1>7, <3>1 DEF ChainsOn
    <3>3. h[i - 1] = g[i - 1] /\ q[i] = p[i]
      BY <1>3, <2>1
    <3>. QED
      BY <3>1, <3>2, <3>3
  <2>. QED
    BY <2>1
<1>9. 0..n \subseteq same
  <2>1. 0 \in same
    BY <1>6, <1>7 DEF ChainsOn
  <2>. HIDE DEF same
  <2>. QED
    BY <1>8, <2>1, UpToAll
<1>10. h[n] = g[n]
  BY <1>9
<1>11. h[n + 1] = h[n] \o t
  <2>1. n + 1 \in 1..(n + 1) /\ (n + 1) - 1 = n
    OBVIOUS
  <2>2. h[n + 1] = h[(n + 1) - 1] \o q[n + 1]
    BY <1>7, <2>1 DEF ChainsOn
  <2>. QED
    BY <1>3, <2>1, <2>2
<1>. QED
  BY <1>2, <1>4, <1>5, <1>10, <1>11

LEMMA ChainedType ==
  ASSUME NEW S, NEW p \in Seq(Seq(S))
  PROVE  Chained(p) \in Seq(S)
<1>. DEFINE good == {q \in Seq(Seq(S)) : Chained(q) \in Seq(S)}
<1>1. <<>> \in good
  BY ChainedNone, EmptySeq
<1>2. ASSUME NEW q \in Seq(Seq(S)), NEW t \in Seq(S), q \in good PROVE Append(q, t) \in good
  <2>1. Chained(Append(q, t)) = Chained(q) \o t /\ Append(q, t) \in Seq(Seq(S))
    BY ChainedStep, AppendProperties
  <2>2. Chained(q) \o t \in Seq(S)
    BY <1>2, ConcatProperties
  <2>. QED
    BY <2>1, <2>2
<1>3. Seq(Seq(S)) \subseteq good
  <2>. HIDE DEF good
  <2>. QED
    BY <1>1, <1>2, AllSequences
<1>. QED
  BY <1>3

LEMMA ChainedFront ==
  ASSUME NEW S, NEW t \in Seq(S), NEW p \in Seq(Seq(S))
  PROVE  Chained(<<t>> \o p) = t \o Chained(p)
<1>. DEFINE good == {q \in Seq(Seq(S)) : Chained(<<t>> \o q) = t \o Chained(q)}
<1>0. <<t>> \in Seq(Seq(S)) /\ <<t>> = Append(<<>>, t) /\ <<>> \in Seq(Seq(S)) /\ <<>> \in Seq(S)
  BY EmptySeq
<1>1. <<>> \in good
  <2>1. <<t>> \o <<>> = <<t>>
    BY <1>0, ConcatEmptySeq
  <2>2. Chained(<<t>>) = <<>> \o t
    BY <1>0, ChainedStep, ChainedNone
  <2>3. <<>> \o t = t /\ t \o <<>> = t
    BY ConcatEmptySeq
  <2>. QED
    BY <1>0, <2>1, <2>2, <2>3, ChainedNone
<1>2. ASSUME NEW q \in Seq(Seq(S)), NEW u \in Seq(S), q \in good PROVE Append(q, u) \in good
  <2>1. <<t>> \o q \in Seq(Seq(S)) /\ Append(q, u) \in Seq(Seq(S)) /\ Chained(q) \in Seq(S)
    BY <1>0, ConcatProperties, AppendProperties, ChainedType
  <2>2. <<t>> \o Append(q, u) = Append(<<t>> \o q, u)
    BY <1>0, AppendPadded
  <2>3. Chained(Append(<<t>> \o q, u)) = Chained(<<t>> \o q) \o u
    BY <2>1, ChainedStep
  <2>4. Chained(Append(q, u)) = Chained(q) \o u
    BY ChainedStep
  <2>5. (t \o Chained(q)) \o u = t \o (Chained(q) \o u)
    BY <2>1, ConcatAssociative
  <2>. QED
    BY <1>2, <2>1, <2>2, <2>3, <2>4, <2>5
<1>3. Seq(Seq(S)) \subseteq good
  <2>. HIDE DEF good
  <2>. QED
    BY <1>1, <1>2, AllSequences
<1>. QED
  BY <1>3

-----------------------------------------------------------------------------
(* A text then another; one more token in front of a text *)

Then(s, t) == s \o t
Front(e, s) == <<e>> \o s

LEMMA ThenType ==
  ASSUME NEW S, NEW s \in Seq(S), NEW t \in Seq(S)
  PROVE  Then(s, t) \in Seq(S)
BY ConcatProperties DEF Then

LEMMA ThenThen ==
  ASSUME NEW S, NEW s \in Seq(S), NEW t \in Seq(S), NEW u \in Seq(S)
  PROVE  Then(Then(s, t), u) = Then(s, Then(t, u))
BY ConcatAssociative DEF Then

LEMMA NothingThen ==
  ASSUME NEW S, NEW s \in Seq(S)
  PROVE  Then(<<>>, s) = s /\ Then(s, <<>>) = s
BY ConcatEmptySeq DEF Then

LEMMA FrontType ==
  ASSUME NEW S, NEW e \in S, NEW s \in Seq(S)
  PROVE  Front(e, s) \in Seq(S) /\ Front(e, s) # <<>> /\ Len(Front(e, s)) = Len(s) + 1 /\ Front(e, s)[1] = e
BY Fronted DEF Front

LEMMA FrontRest ==
  ASSUME NEW S, NEW e \in S, NEW s \in Seq(S)
  PROVE  \A i \in 1..Len(s) : Front(e, s)[i + 1] = s[i]
BY Fronted DEF Front

LEMMA FrontThen ==
  ASSUME NEW S, NEW e \in S, NEW s \in Seq(S), NEW t \in Seq(S)
  PROVE  Then(Front(e, s), t) = Front(e, Then(s, t))
<1>1. <<e>> \in Seq(S)
  OBVIOUS
<1>2. (<<e>> \o s) \o t = <<e>> \o (s \o t)
  BY <1>1, ConcatAssociative
<1>. QED
  BY <1>2, Zenon DEF Then, Front

LEMMA OneThen == \A e, s : Then(<<e>>, s) = Front(e, s)
BY DEF Then, Front

LEMMA FrontSplit ==
  ASSUME NEW S, NEW d \in S, NEW e \in S, NEW s \in Seq(S), NEW t \in Seq(S), Front(d, s) = Front(e, t)
  PROVE  d = e /\ s = t
BY FrontTells DEF Front

LEMMA NothingOrFront ==
  ASSUME NEW S, NEW s \in Seq(S)
  PROVE  s = <<>> \/ \E e \in S, t \in Seq(S) : s = Front(e, t)
BY FrontAndRest DEF Front

LEMMA AllByFront ==
  ASSUME NEW S, NEW good, <<>> \in good, \A e \in S, s \in Seq(S) : s \in good => Front(e, s) \in good
  PROVE  Seq(S) \subseteq good
BY AllFromFront DEF Front

-----------------------------------------------------------------------------
(* Codes: what can be read from the front *)

\* The texts of the elements of a sequence, one after the other.
Coded(f, s) == Chained([i \in DOMAIN s |-> f[s[i]]])

LEMMA MappedIs ==
  ASSUME NEW A, NEW B, NEW f \in [A -> B], NEW s \in Seq(A)
  PROVE  /\ [i \in DOMAIN s |-> f[s[i]]] \in Seq(B)
         /\ Len([i \in DOMAIN s |-> f[s[i]]]) = Len(s)
<1>1. Len(s) \in Nat /\ DOMAIN s = 1..Len(s) /\ \A i \in 1..Len(s) : s[i] \in A
  BY LenProperties, ElementOfSeq
<1>2. [i \in DOMAIN s |-> f[s[i]]] \in [1..Len(s) -> B]
  BY <1>1
<1>. QED
  BY <1>1, <1>2

LEMMA MappedFront ==
  ASSUME NEW A, NEW B, NEW f \in [A -> B], NEW a \in A, NEW s \in Seq(A)
  PROVE  [i \in DOMAIN (<<a>> \o s) |-> f[(<<a>> \o s)[i]]] = <<f[a]>> \o [i \in DOMAIN s |-> f[s[i]]]
<1>1. PICK t : t = <<a>> \o s
  OBVIOUS
<1>2. PICK n \in Nat : n = Len(s)
  BY LenProperties
<1>3. t \in Seq(A) /\ Len(t) = n + 1 /\ t[1] = a /\ \A i \in 1..n : t[i + 1] = s[i]
  BY <1>1, <1>2, Fronted
<1>4. PICK p : p = [i \in DOMAIN s |-> f[s[i]]]
  OBVIOUS
<1>5. p \in Seq(B) /\ Len(p) = n /\ \A i \in 1..n : p[i] = f[s[i]]
  BY <1>2, <1>4, MappedIs, LenProperties
<1>6. PICK q : q = [i \in DOMAIN t |-> f[t[i]]]
  OBVIOUS
<1>7. q \in Seq(B) /\ Len(q) = n + 1 /\ \A i \in 1..(n + 1) : q[i] = f[t[i]]
  <2>1. DOMAIN t = 1..(n + 1)
    BY <1>3, LenProperties
  <2>2. q \in Seq(B) /\ Len(q) = Len(t)
    BY <1>3, <1>6, MappedIs
  <2>. QED
    BY <1>3, <1>6, <2>1, <2>2
<1>8. PICK m : m = <<f[a]>> \o p
  OBVIOUS
<1>9. f[a] \in B
  OBVIOUS
<1>10. m \in Seq(B) /\ Len(m) = n + 1 /\ m[1] = f[a] /\ \A i \in 1..n : m[i + 1] = p[i]
  BY <1>5, <1>8, <1>9, Fronted
<1>11. ASSUME NEW i \in 1..(n + 1) PROVE q[i] = m[i]
  <2>1. CASE i = 1
    BY <1>3, <1>7, <1>10, <2>1
  <2>2. CASE i # 1
    <3>1. PICK j : j = i - 1
      OBVIOUS
    <3>2. j \in 1..n /\ i = j + 1
      BY <2>2, <3>1
    <3>3. q[i] = f[s[j]]
      BY <1>3, <1>7, <3>2
    <3>4. m[i] = f[s[j]]
      BY <1>5, <1>10, <3>2
    <3>. QED
      BY <3>3, <3>4
  <2>. QED
    BY <2>1, <2>2
<1>12. q = m
  BY <1>7, <1>10, <1>11, SeqEqual
<1>. QED
  BY <1>1, <1>4, <1>6, <1>8, <1>12

\* What texts are made of.
Tokens == Int
Texted(A, f) == f \in [A -> Seq(Tokens)]

LEMMA CodedNone == \A f : Coded(f, <<>>) = <<>>
<1>1. SUFFICES ASSUME NEW f PROVE Coded(f, <<>>) = <<>>
  OBVIOUS
<1>2. [i \in DOMAIN <<>> |-> f[<<>>[i]]] = <<>>
  OBVIOUS
<1>. QED
  BY <1>2, ChainedNone DEF Coded

LEMMA CodedType ==
  ASSUME NEW A, NEW f, Texted(A, f)
  PROVE  \A s \in Seq(A) : Coded(f, s) \in Seq(Tokens)
<1>1. ASSUME NEW s \in Seq(A) PROVE [i \in DOMAIN s |-> f[s[i]]] \in Seq(Seq(Tokens))
  BY MappedIs DEF Texted
<1>2. ASSUME NEW s \in Seq(A) PROVE Coded(f, s) \in Seq(Tokens)
  BY <1>1, ChainedType DEF Coded
<1>. QED
  BY <1>2

LEMMA TextedIs ==
  ASSUME NEW A, NEW f, Texted(A, f)
  PROVE  \A a \in A : f[a] \in Seq(Tokens)
BY DEF Texted

LEMMA CodedFront ==
  ASSUME NEW A, NEW f, Texted(A, f)
  PROVE  \A a \in A, s \in Seq(A) : Coded(f, Front(a, s)) = Then(f[a], Coded(f, s))
<1>1. SUFFICES ASSUME NEW a \in A, NEW s \in Seq(A) PROVE Coded(f, <<a>> \o s) = f[a] \o Coded(f, s)
  BY DEF Front, Then
<1>2. f[a] \in Seq(Tokens) /\ [i \in DOMAIN s |-> f[s[i]]] \in Seq(Seq(Tokens))
  BY MappedIs DEF Texted
<1>3. [i \in DOMAIN (<<a>> \o s) |-> f[(<<a>> \o s)[i]]] = <<f[a]>> \o [i \in DOMAIN s |-> f[s[i]]]
  BY MappedFront DEF Texted
<1>4. PICK p : p = [i \in DOMAIN s |-> f[s[i]]]
  OBVIOUS
<1>5. Chained(<<f[a]>> \o p) = f[a] \o Chained(p)
  BY <1>2, <1>4, ChainedFront
<1>. QED
  BY <1>3, <1>4, <1>5 DEF Coded

\* The text of a sequence before a rest.
CodedBefore(f, s, r) == Then(Coded(f, s), r)

LEMMA CodedBeforeIs ==
  ASSUME NEW A, NEW f, Texted(A, f), NEW r \in Seq(Tokens)
  PROVE  /\ CodedBefore(f, <<>>, r) = r
         /\ \A s \in Seq(A) : CodedBefore(f, s, r) \in Seq(Tokens)
         /\ \A a \in A, s \in Seq(A) : CodedBefore(f, Front(a, s), r) = Then(f[a], CodedBefore(f, s, r))
<1>1. CodedBefore(f, <<>>, r) = r
  BY CodedNone, NothingThen DEF CodedBefore
<1>2. \A s \in Seq(A) : CodedBefore(f, s, r) \in Seq(Tokens)
  BY CodedType, ThenType DEF CodedBefore
<1>3. ASSUME NEW a \in A, NEW s \in Seq(A)
      PROVE  CodedBefore(f, Front(a, s), r) = Then(f[a], CodedBefore(f, s, r))
  <2>1. f[a] \in Seq(Tokens) /\ Coded(f, s) \in Seq(Tokens)
    BY CodedType, TextedIs
  <2>2. Coded(f, Front(a, s)) = Then(f[a], Coded(f, s))
    BY CodedFront
  <2>3. Then(Then(f[a], Coded(f, s)), r) = Then(f[a], Then(Coded(f, s), r))
    BY <2>1, ThenThen
  <2>. QED
    BY <2>2, <2>3 DEF CodedBefore
<1>. QED
  BY <1>1, <1>2, <1>3

\* If the elements can be read one by one, whatever follows, then so can sequences of them
\* that end in what no element begins with.
Tells(A, f, mean, rests) ==
  \A a, b \in A, r, u \in rests : Then(f[a], r) = Then(f[b], u) => mean[a] = mean[b] /\ r = u
Continues(A, f, rests, ends) ==
  \A a \in A, r \in rests : Then(f[a], r) \in rests /\ Then(f[a], r) \notin ends
Means(mean, p, q) == Len(p) = Len(q) /\ \A i \in 1..Len(p) : mean[p[i]] = mean[q[i]]

LEMMA CodedIsRest ==
  ASSUME NEW A, NEW f, Texted(A, f), NEW rests, rests \subseteq Seq(Tokens), NEW ends, ends \subseteq rests,
         Continues(A, f, rests, ends)
  PROVE  \A s \in Seq(A), r \in ends : CodedBefore(f, s, r) \in rests
<1>1. SUFFICES ASSUME NEW r \in ends PROVE \A s \in Seq(A) : CodedBefore(f, s, r) \in rests
  OBVIOUS
<1>. DEFINE good == {t \in Seq(A) : CodedBefore(f, t, r) \in rests}
<1>2. <<>> \in good
  BY CodedBeforeIs, EmptySeq
<1>3. ASSUME NEW a \in A, NEW t \in Seq(A), t \in good PROVE Front(a, t) \in good
  <2>1. CodedBefore(f, Front(a, t), r) = Then(f[a], CodedBefore(f, t, r))
    BY CodedBeforeIs
  <2>2. Then(f[a], CodedBefore(f, t, r)) \in rests
    BY <1>3 DEF Continues
  <2>3. Front(a, t) \in Seq(A)
    BY FrontType
  <2>. QED
    BY <2>1, <2>2, <2>3
<1>4. Seq(A) \subseteq good
  <2>. HIDE DEF good
  <2>. QED
    BY <1>2, <1>3, AllByFront
<1>. QED
  BY <1>4

LEMMA MeansFront ==
  ASSUME NEW A, NEW mean, NEW a \in A, NEW b \in A, NEW p \in Seq(A), NEW o \in Seq(A),
         mean[a] = mean[b], Means(mean, p, o)
  PROVE  Means(mean, Front(a, p), Front(b, o))
<1>1. PICK x, y : x = Front(a, p) /\ y = Front(b, o)
  OBVIOUS
<1>2. PICK n \in Nat : n = Len(p) /\ n = Len(o)
  <2>1. Len(p) \in Nat
    BY LenProperties
  <2>. QED
    BY <2>1 DEF Means
<1>3. Len(x) = n + 1 /\ x[1] = a /\ \A i \in 1..n : x[i + 1] = p[i]
  <2>1. Len(Front(a, p)) = Len(p) + 1 /\ Front(a, p)[1] = a
    BY FrontType
  <2>2. \A i \in 1..Len(p) : Front(a, p)[i + 1] = p[i]
    BY FrontRest
  <2>. QED
    BY <1>1, <1>2, <2>1, <2>2
<1>4. Len(y) = n + 1 /\ y[1] = b /\ \A i \in 1..n : y[i + 1] = o[i]
  <2>1. Len(Front(b, o)) = Len(o) + 1 /\ Front(b, o)[1] = b
    BY FrontType
  <2>2. \A i \in 1..Len(o) : Front(b, o)[i + 1] = o[i]
    BY FrontRest
  <2>. QED
    BY <1>1, <1>2, <2>1, <2>2
<1>5. ASSUME NEW i \in 1..(n + 1) PROVE mean[x[i]] = mean[y[i]]
  <2>1. CASE i = 1
    BY <1>3, <1>4, <2>1
  <2>2. CASE i # 1
    <3>1. PICK j : j = i - 1
      OBVIOUS
    <3>2. j \in 1..n /\ i = j + 1
      BY <2>2, <3>1
    <3>3. x[i] = p[j] /\ y[i] = o[j]
      BY <1>3, <1>4, <3>2
    <3>. QED
      BY <1>2, <3>2, <3>3 DEF Means
  <2>. QED
    BY <2>1, <2>2
<1>6. Means(mean, x, y)
  BY <1>3, <1>4, <1>5 DEF Means
<1>. QED
  BY <1>1, <1>6

\* All of this at once.
Readable(A, f, mean, rests, ends) ==
  /\ Texted(A, f) /\ rests \subseteq Seq(Tokens) /\ ends \subseteq rests
  /\ Tells(A, f, mean, rests) /\ Continues(A, f, rests, ends)

LEMMA CodeTells ==
  ASSUME NEW A, NEW f, NEW mean, NEW rests, NEW ends, Readable(A, f, mean, rests, ends)
  PROVE  \A s, t \in Seq(A), r, u \in ends :
           CodedBefore(f, s, r) = CodedBefore(f, t, u) => r = u /\ Means(mean, s, t)
<1>0. /\ Texted(A, f) /\ rests \subseteq Seq(Tokens) /\ ends \subseteq rests
      /\ Tells(A, f, mean, rests) /\ Continues(A, f, rests, ends)
  BY DEF Readable
<1>1. SUFFICES ASSUME NEW r \in ends, NEW u \in ends
               PROVE  \A s, t \in Seq(A) :
                        CodedBefore(f, s, r) = CodedBefore(f, t, u) => r = u /\ Means(mean, s, t)
  OBVIOUS
<1>. DEFINE Read(p, q) == CodedBefore(f, p, r) = CodedBefore(f, q, u) => r = u /\ Means(mean, p, q)
            good == {p \in Seq(A) : \A q \in Seq(A) : Read(p, q)}
<1>2. ASSUME NEW a \in A, NEW p \in Seq(A)
      PROVE  /\ CodedBefore(f, p, r) \in rests /\ CodedBefore(f, p, u) \in rests
             /\ Then(f[a], CodedBefore(f, p, r)) \notin ends
             /\ Then(f[a], CodedBefore(f, p, u)) \notin ends
  <2>1. CodedBefore(f, p, r) \in rests /\ CodedBefore(f, p, u) \in rests
    BY <1>0, CodedIsRest
  <2>. QED
    BY <1>0, <2>1 DEF Continues
<1>3. /\ CodedBefore(f, <<>>, r) = r /\ CodedBefore(f, <<>>, u) = u
      /\ \A a \in A, p \in Seq(A) :
           /\ CodedBefore(f, Front(a, p), r) = Then(f[a], CodedBefore(f, p, r))
           /\ CodedBefore(f, Front(a, p), u) = Then(f[a], CodedBefore(f, p, u))
  BY <1>0, CodedBeforeIs
<1>4. <<>> \in good
  <2>1. SUFFICES ASSUME NEW q \in Seq(A), CodedBefore(f, <<>>, r) = CodedBefore(f, q, u)
                 PROVE  r = u /\ Means(mean, <<>>, q)
    BY EmptySeq
  <2>2. q = <<>>
    <3>1. SUFFICES ASSUME NEW b \in A, NEW p \in Seq(A), q = Front(b, p) PROVE FALSE
      BY NothingOrFront
    <3>2. r = Then(f[b], CodedBefore(f, p, u))
      BY <1>3, <2>1, <3>1
    <3>. QED
      BY <1>2, <3>2
  <2>3. Means(mean, <<>>, <<>>)
    BY EmptySeq DEF Means
  <2>. QED
    BY <1>3, <2>1, <2>2, <2>3
<1>5. ASSUME NEW a \in A, NEW p \in Seq(A), p \in good PROVE Front(a, p) \in good
  <2>1. Front(a, p) \in Seq(A)
    BY FrontType
  <2>2. SUFFICES ASSUME NEW q \in Seq(A), CodedBefore(f, Front(a, p), r) = CodedBefore(f, q, u)
                 PROVE  r = u /\ Means(mean, Front(a, p), q)
    BY <2>1
  <2>3. CASE q = <<>>
    <3>1. u = Then(f[a], CodedBefore(f, p, r))
      BY <1>3, <2>2, <2>3
    <3>. QED
      BY <1>2, <3>1
  <2>4. ASSUME NEW b \in A, NEW o \in Seq(A), q = Front(b, o)
        PROVE  r = u /\ Means(mean, Front(a, p), q)
    <3>1. Then(f[a], CodedBefore(f, p, r)) = Then(f[b], CodedBefore(f, o, u))
      BY <1>3, <2>2, <2>4
    <3>2. CodedBefore(f, p, r) \in rests /\ CodedBefore(f, o, u) \in rests
      BY <1>2
    <3>3. mean[a] = mean[b] /\ CodedBefore(f, p, r) = CodedBefore(f, o, u)
      BY <1>0, <3>1, <3>2 DEF Tells
    <3>4. r = u /\ Means(mean, p, o)
      BY <1>5, <3>3
    <3>5. Means(mean, Front(a, p), Front(b, o))
      BY <3>3, <3>4, MeansFront
    <3>. QED
      BY <2>4, <3>4, <3>5
  <2>. QED
    BY <2>3, <2>4, NothingOrFront
<1>6. Seq(A) \subseteq good
  <2>. HIDE DEF good
  <2>. QED
    BY <1>4, <1>5, AllByFront
<1>. QED
  BY <1>6

-----------------------------------------------------------------------------
(* The same for texts of tokens *)

LEMMA TokensThen ==
  /\ \A s, t \in Seq(Tokens) : Then(s, t) \in Seq(Tokens)
  /\ \A s, t, u \in Seq(Tokens) : Then(Then(s, t), u) = Then(s, Then(t, u))
  /\ \A s \in Seq(Tokens) : Then(<<>>, s) = s /\ Then(s, <<>>) = s
BY ThenType, ThenThen, NothingThen

LEMMA TokensFront ==
  /\ <<>> \in Seq(Tokens)
  /\ \A e \in Tokens, s \in Seq(Tokens) :
       Front(e, s) \in Seq(Tokens) /\ Front(e, s) # <<>> /\ Len(Front(e, s)) = Len(s) + 1 /\ Front(e, s)[1] = e
  /\ \A e \in Tokens, s, t \in Seq(Tokens) : Then(Front(e, s), t) = Front(e, Then(s, t))
  /\ \A d, e \in Tokens, s, t \in Seq(Tokens) : Front(d, s) = Front(e, t) => d = e /\ s = t
  /\ \A e \in Tokens, s \in Seq(Tokens) : Then(<<e>>, s) = Front(e, s) /\ <<e>> \in Seq(Tokens)
<1>1. \A e \in Tokens, s \in Seq(Tokens) :
       Front(e, s) \in Seq(Tokens) /\ Front(e, s) # <<>> /\ Len(Front(e, s)) = Len(s) + 1 /\ Front(e, s)[1] = e
  BY FrontType
<1>2. \A e \in Tokens, s, t \in Seq(Tokens) : Then(Front(e, s), t) = Front(e, Then(s, t))
  BY FrontThen
<1>3. \A d, e \in Tokens, s, t \in Seq(Tokens) : Front(d, s) = Front(e, t) => d = e /\ s = t
  BY FrontSplit
<1>4. \A e \in Tokens, s \in Seq(Tokens) : Then(<<e>>, s) = Front(e, s) /\ <<e>> \in Seq(Tokens)
  <2>1. \A e \in Tokens : <<e>> \in Seq(Tokens)
    OBVIOUS
  <2>. QED
    BY <2>1, OneThen
<1>. QED
  BY <1>1, <1>2, <1>3, <1>4, EmptySeq

-----------------------------------------------------------------------------
(* Strings and names *)

Itself(A) == [a \in A |-> a]

LEMMA MeansItself ==
  ASSUME NEW A, NEW s \in Seq(A), NEW t \in Seq(A), Means(Itself(A), s, t)
  PROVE  s = t
<1>1. Len(s) = Len(t) /\ \A i \in 1..Len(s) : Itself(A)[s[i]] = Itself(A)[t[i]]
  BY DEF Means
<1>2. \A i \in 1..Len(s) : s[i] \in A /\ t[i] \in A
  BY <1>1, ElementOfSeq
<1>3. \A a \in A : Itself(A)[a] = a
  BY DEF Itself
<1>4. \A i \in 1..Len(s) : s[i] = t[i]
  BY <1>1, <1>2, <1>3
<1>. QED
  BY <1>1, <1>4, SeqEqual

Escapes == [c \in Chars |-> Escaped(c)]
Units(c) == IF c >= 30 THEN <<20, c - 9>> ELSE <<c>>
Utf16Units == [c \in Chars |-> Units(c)]

LEMMA CharsAre == Chars \subseteq Int /\ Chars \subseteq Tokens /\ \A c \in Chars : c # 20
BY DEF Chars, Surrogates, Tokens

\* A list of tokens before a rest, token by token.
LEMMA ListBefore ==
  ASSUME NEW c \in Tokens, NEW d \in Tokens, NEW e \in Tokens, NEW r \in Seq(Tokens)
  PROVE  /\ Then(<<c>>, r) = Front(c, r)
         /\ Then(<<c, d>>, r) = Front(c, Front(d, r))
         /\ Then(<<c, d, e>>, r) = Front(c, Front(d, Front(e, r)))
<1>1. Then(<<c>>, r) = Front(c, r)
  BY OneThen
<1>2. <<c, d>> \o r = <<c>> \o (<<d>> \o r)
  BY TwoInFront
<1>3. <<c, d, e>> \o r = <<c>> \o (<<d>> \o (<<e>> \o r))
  BY ThreeInFront
<1>. QED
  BY <1>1, <1>2, <1>3, Zenon DEF Then, Front

LEMMA EscapedBefore ==
  ASSUME NEW c \in Chars, NEW r \in Seq(Tokens)
  PROVE  /\ Escaped(c) \in Seq(Tokens)
         /\ \/ c \in Controls /\ Then(Escaped(c), r) = Front(Backslash, Front(Letter, Front(c, r)))
            \/ c \in {Quote, Backslash} /\ Then(Escaped(c), r) = Front(Backslash, Front(c, r))
            \/ c \notin {Quote, Backslash} /\ Then(Escaped(c), r) = Front(c, r)
<1>1. c \in Tokens /\ Backslash \in Tokens /\ Letter \in Tokens
  BY CharsAre DEF Backslash, Letter, Tokens
<1>2. CASE c \in Controls
  <2>1. Escaped(c) = <<Backslash, Letter, c>>
    BY <1>2 DEF Escaped
  <2>2. Then(<<Backslash, Letter, c>>, r) = Front(Backslash, Front(Letter, Front(c, r)))
    BY <1>1, ListBefore
  <2>3. <<Backslash, Letter, c>> \in Seq(Tokens)
    BY <1>1
  <2>. QED
    BY <1>2, <2>1, <2>2, <2>3
<1>3. CASE c \notin Controls /\ c \in {Quote, Backslash}
  <2>1. Escaped(c) = <<Backslash, c>>
    BY <1>3 DEF Escaped
  <2>2. Then(<<Backslash, c>>, r) = Front(Backslash, Front(c, r))
    BY <1>1, ListBefore
  <2>3. <<Backslash, c>> \in Seq(Tokens)
    BY <1>1
  <2>. QED
    BY <1>3, <2>1, <2>2, <2>3
<1>4. CASE c \notin Controls /\ c \notin {Quote, Backslash}
  <2>1. Escaped(c) = <<c>>
    BY <1>4 DEF Escaped
  <2>2. Then(<<c>>, r) = Front(c, r)
    BY <1>1, ListBefore
  <2>3. <<c>> \in Seq(Tokens)
    BY <1>1
  <2>. QED
    BY <1>4, <2>1, <2>2, <2>3
<1>. QED
  BY <1>2, <1>3, <1>4

\* A character is read back from its escape, whatever follows.
LEMMA EscapedTells ==
  ASSUME NEW c \in Chars, NEW e \in Chars, NEW r \in Seq(Tokens), NEW u \in Seq(Tokens),
         Then(Escaped(c), r) = Then(Escaped(e), u)
  PROVE  c = e /\ r = u
<1>0. c \in Tokens /\ e \in Tokens /\ Backslash \in Tokens /\ Letter \in Tokens
  BY CharsAre DEF Backslash, Letter, Tokens
<1>. DEFINE Long(d, o) == d \in Controls /\ Then(Escaped(d), o) = Front(Backslash, Front(Letter, Front(d, o)))
            Short(d, o) == d \in {Quote, Backslash} /\ Then(Escaped(d), o) = Front(Backslash, Front(d, o))
            Plain(d, o) == d \notin {Quote, Backslash} /\ Then(Escaped(d), o) = Front(d, o)
<1>1. Long(c, r) \/ Short(c, r) \/ Plain(c, r)
  BY EscapedBefore
<1>2. Long(e, u) \/ Short(e, u) \/ Plain(e, u)
  BY EscapedBefore
<1>3. \A d \in Tokens, o \in Seq(Tokens) : Front(d, o) \in Seq(Tokens)
  BY FrontType
<1>4. \A d, f \in Tokens, o, p \in Seq(Tokens) : Front(d, o) = Front(f, p) => d = f /\ o = p
  BY FrontSplit
<1>5. Letter \notin {Quote, Backslash} /\ Backslash \notin Controls /\ Quote \notin Controls
  BY DEF Letter, Quote, Backslash, Controls
<1>6. CASE Long(c, r) /\ Long(e, u)
  <2>1. Front(Backslash, Front(Letter, Front(c, r))) = Front(Backslash, Front(Letter, Front(e, u)))
    BY <1>6
  <2>2. Front(c, r) \in Seq(Tokens) /\ Front(e, u) \in Seq(Tokens)
        /\ Front(Letter, Front(c, r)) \in Seq(Tokens) /\ Front(Letter, Front(e, u)) \in Seq(Tokens)
    BY <1>0, <1>3
  <2>3. Front(Letter, Front(c, r)) = Front(Letter, Front(e, u))
    BY <1>0, <1>4, <2>1, <2>2
  <2>4. Front(c, r) = Front(e, u)
    BY <1>0, <1>4, <2>2, <2>3
  <2>. QED
    BY <1>0, <1>4, <2>4
<1>7. CASE Short(c, r) /\ Short(e, u)
  <2>1. Front(Backslash, Front(c, r)) = Front(Backslash, Front(e, u))
    BY <1>7
  <2>2. Front(c, r) = Front(e, u)
    BY <1>0, <1>3, <1>4, <2>1
  <2>. QED
    BY <1>0, <1>4, <2>2
<1>8. CASE Plain(c, r) /\ Plain(e, u)
  BY <1>0, <1>4, <1>8
<1>9. CASE Long(c, r) /\ Short(e, u)
  <2>1. Front(Backslash, Front(Letter, Front(c, r))) = Front(Backslash, Front(e, u))
    BY <1>9
  <2>2. Front(Letter, Front(c, r)) = Front(e, u)
    BY <1>0, <1>3, <1>4, <2>1
  <2>3. Letter = e
    BY <1>0, <1>3, <1>4, <2>2
  <2>. QED
    BY <1>5, <1>9, <2>3
<1>10. CASE Short(c, r) /\ Long(e, u)
  <2>1. Front(Backslash, Front(Letter, Front(e, u))) = Front(Backslash, Front(c, r))
    BY <1>10
  <2>2. Front(Letter, Front(e, u)) = Front(c, r)
    BY <1>0, <1>3, <1>4, <2>1
  <2>3. Letter = c
    BY <1>0, <1>3, <1>4, <2>2
  <2>. QED
    BY <1>5, <1>10, <2>3
<1>11. CASE Plain(c, r) /\ (Long(e, u) \/ Short(e, u))
  <2>1. PICK o \in Seq(Tokens) : Front(c, r) = Front(Backslash, o)
    <3>1. Front(Letter, Front(e, u)) \in Seq(Tokens) /\ Front(e, u) \in Seq(Tokens)
      BY <1>0, <1>3
    <3>2. Front(c, r) = Front(Backslash, Front(Letter, Front(e, u))) \/ Front(c, r) = Front(Backslash, Front(e, u))
      BY <1>11
    <3>. QED
      BY <3>1, <3>2
  <2>2. c = Backslash
    BY <1>0, <1>4, <2>1
  <2>. QED
    BY <1>11, <2>2
<1>12. CASE Plain(e, u) /\ (Long(c, r) \/ Short(c, r))
  <2>1. PICK o \in Seq(Tokens) : Front(e, u) = Front(Backslash, o)
    <3>1. Front(Letter, Front(c, r)) \in Seq(Tokens) /\ Front(c, r) \in Seq(Tokens)
      BY <1>0, <1>3
    <3>2. Front(e, u) = Front(Backslash, Front(Letter, Front(c, r))) \/ Front(e, u) = Front(Backslash, Front(c, r))
      BY <1>12
    <3>. QED
      BY <3>1, <3>2
  <2>2. e = Backslash
    BY <1>0, <1>4, <2>1
  <2>. QED
    BY <1>12, <2>2
<1>. HIDE DEF Long, Short, Plain
<1>. QED
  BY <1>1, <1>2, <1>6, <1>7, <1>8, <1>9, <1>10, <1>11, <1>12

QuoteThen == {Front(Quote, r) : r \in Seq(Tokens)}

LEMMA EscapesTell ==
  Texted(Chars, Escapes) /\ Readable(Chars, Escapes, Itself(Chars), Seq(Tokens), QuoteThen)
<1>1. \A c \in Chars : Escapes[c] = Escaped(c) /\ Itself(Chars)[c] = c
  BY DEF Escapes, Itself
<1>2. \A c \in Chars : Escaped(c) \in Seq(Tokens)
  BY EscapedBefore, EmptySeq
<1>3. Texted(Chars, Escapes)
  BY <1>2 DEF Texted, Escapes
<1>4. Quote \in Tokens
  BY DEF Quote, Tokens
<1>5. QuoteThen \subseteq Seq(Tokens)
  BY <1>4, TokensFront DEF QuoteThen
<1>6. Tells(Chars, Escapes, Itself(Chars), Seq(Tokens))
  BY <1>1, EscapedTells DEF Tells
<1>7. ASSUME NEW c \in Chars, NEW r \in Seq(Tokens)
      PROVE  Then(Escapes[c], r) \in Seq(Tokens) /\ Then(Escapes[c], r) \notin QuoteThen
  <2>1. Then(Escaped(c), r) \in Seq(Tokens)
    BY <1>2, ThenType
  <2>2. SUFFICES ASSUME NEW o \in Seq(Tokens), Then(Escaped(c), r) = Front(Quote, o) PROVE FALSE
    BY <1>1, <2>1 DEF QuoteThen
  <2>3. Backslash \in Tokens /\ Letter \in Tokens /\ c \in Tokens /\ Backslash # Quote
    BY CharsAre DEF Backslash, Letter, Tokens, Quote
  <2>4. Front(c, r) \in Seq(Tokens) /\ Front(Letter, Front(c, r)) \in Seq(Tokens)
    <3>1. Front(c, r) \in Seq(Tokens)
      BY <2>3, FrontType
    <3>. QED
      BY <2>3, <3>1, FrontType
  <2>5. \/ Then(Escaped(c), r) = Front(Backslash, Front(Letter, Front(c, r)))
        \/ Then(Escaped(c), r) = Front(Backslash, Front(c, r))
        \/ c \notin {Quote, Backslash} /\ Then(Escaped(c), r) = Front(c, r)
    BY EscapedBefore
  <2>6. \A d \in Tokens, p \in Seq(Tokens) : Front(d, p) = Front(Quote, o) => d = Quote
    BY <1>4, FrontSplit
  <2>. QED
    BY <2>2, <2>3, <2>4, <2>5, <2>6
<1>8. Continues(Chars, Escapes, Seq(Tokens), QuoteThen)
  BY <1>7 DEF Continues
<1>. QED
  BY <1>3, <1>5, <1>6, <1>8 DEF Readable

LEMMA StringBefore ==
  ASSUME NEW s \in Seq(Chars), NEW r \in Seq(Tokens)
  PROVE  /\ FormatString(s) \in Seq(Tokens)
         /\ CodedBefore(Escapes, s, Front(Quote, r)) \in Seq(Tokens)
         /\ Front(Quote, r) \in QuoteThen
         /\ Then(FormatString(s), r) = Front(Quote, CodedBefore(Escapes, s, Front(Quote, r)))
<1>1. Quote \in Tokens /\ <<Quote>> \in Seq(Tokens)
  BY DEF Quote, Tokens
<1>2. Front(Quote, r) \in Seq(Tokens) /\ Front(Quote, r) \in QuoteThen
  BY <1>1, FrontType DEF QuoteThen
<1>3. PICK t : t = Coded(Escapes, s)
  OBVIOUS
<1>4. t \in Seq(Tokens) /\ Then(t, Front(Quote, r)) \in Seq(Tokens)
  BY <1>2, <1>3, EscapesTell, CodedType, ThenType
<1>5. FormatString(s) = <<Quote>> \o t \o <<Quote>>
  <2>1. Len(s) \in Nat /\ DOMAIN s = 1..Len(s) /\ \A i \in 1..Len(s) : s[i] \in Chars
    BY LenProperties, ElementOfSeq
  <2>2. \A i \in DOMAIN s : Escapes[s[i]] = Escaped(s[i])
    BY <2>1 DEF Escapes
  <2>3. [i \in DOMAIN s |-> Escapes[s[i]]] = [i \in DOMAIN s |-> Escaped(s[i])]
    BY <2>2
  <2>. QED
    BY <1>3, <2>3 DEF FormatString, Coded
<1>6. FormatString(s) = Then(Front(Quote, t), <<Quote>>)
  BY <1>5, Zenon DEF Then, Front
<1>7. Front(Quote, t) \in Seq(Tokens)
  BY <1>1, <1>4, FrontType
<1>8. FormatString(s) \in Seq(Tokens)
  BY <1>1, <1>6, <1>7, ThenType
<1>9. Then(Then(Front(Quote, t), <<Quote>>), r) = Then(Front(Quote, t), Then(<<Quote>>, r))
  BY <1>1, <1>7, TokensThen
<1>10. Then(<<Quote>>, r) = Front(Quote, r)
  BY OneThen
<1>11. Then(Front(Quote, t), Front(Quote, r)) = Front(Quote, Then(t, Front(Quote, r)))
  BY <1>1, <1>2, <1>4, TokensFront
<1>. QED
  BY <1>2, <1>3, <1>4, <1>6, <1>8, <1>9, <1>10, <1>11 DEF CodedBefore

\* A string is read back from its text, whatever follows.
LEMMA StringTells ==
  ASSUME NEW s \in Seq(Chars), NEW t \in Seq(Chars), NEW r \in Seq(Tokens), NEW u \in Seq(Tokens),
         Then(FormatString(s), r) = Then(FormatString(t), u)
  PROVE  s = t /\ r = u
<1>1. Quote \in Tokens
  BY DEF Quote, Tokens
<1>2. /\ CodedBefore(Escapes, s, Front(Quote, r)) \in Seq(Tokens)
      /\ Front(Quote, r) \in QuoteThen
      /\ Then(FormatString(s), r) = Front(Quote, CodedBefore(Escapes, s, Front(Quote, r)))
  BY StringBefore
<1>3. /\ CodedBefore(Escapes, t, Front(Quote, u)) \in Seq(Tokens)
      /\ Front(Quote, u) \in QuoteThen
      /\ Then(FormatString(t), u) = Front(Quote, CodedBefore(Escapes, t, Front(Quote, u)))
  BY StringBefore
<1>4. CodedBefore(Escapes, s, Front(Quote, r)) = CodedBefore(Escapes, t, Front(Quote, u))
  <2>1. PICK v, w : v = CodedBefore(Escapes, s, Front(Quote, r)) /\ w = CodedBefore(Escapes, t, Front(Quote, u))
    OBVIOUS
  <2>2. v \in Seq(Tokens) /\ w \in Seq(Tokens) /\ Front(Quote, v) = Front(Quote, w)
    BY <1>2, <1>3, <2>1
  <2>3. v = w
    BY <1>1, <2>2, TokensFront
  <2>. QED
    BY <2>1, <2>3
<1>5. Front(Quote, r) = Front(Quote, u) /\ Means(Itself(Chars), s, t)
  BY <1>2, <1>3, <1>4, EscapesTell, CodeTells
<1>. QED
  BY <1>1, <1>5, TokensFront, MeansItself

\* Two names of the same UTF-16 units are the same.
LEMMA Utf16Tells ==
  ASSUME NEW s \in Seq(Chars), NEW t \in Seq(Chars), Utf16(s) = Utf16(t)
  PROVE  s = t
<1>1. \A c \in Chars : Utf16Units[c] = Units(c) /\ Itself(Chars)[c] = c
  BY DEF Utf16Units, Itself
<1>2. ASSUME NEW c \in Chars, NEW r \in Seq(Tokens)
      PROVE  /\ Units(c) \in Seq(Tokens)
             /\ \/ c >= 30 /\ Then(Units(c), r) = Front(20, Front(c - 9, r))
                \/ c # 20 /\ ~(c >= 30) /\ Then(Units(c), r) = Front(c, r)
  <2>1. c \in Tokens /\ c # 20 /\ 20 \in Tokens /\ c - 9 \in Tokens
    BY CharsAre DEF Tokens
  <2>2. CASE c >= 30
    <3>1. Units(c) = <<20, c - 9>>
      BY <2>2 DEF Units
    <3>2. Then(<<20, c - 9>>, r) = Front(20, Front(c - 9, r))
      BY <2>1, ListBefore
    <3>3. <<20, c - 9>> \in Seq(Tokens)
      BY <2>1
    <3>. QED
      BY <2>2, <3>1, <3>2, <3>3
  <2>3. CASE ~(c >= 30)
    <3>1. Units(c) = <<c>>
      BY <2>3 DEF Units
    <3>2. Then(<<c>>, r) = Front(c, r)
      BY <2>1, ListBefore
    <3>3. <<c>> \in Seq(Tokens)
      BY <2>1
    <3>. QED
      BY <2>1, <2>3, <3>1, <3>2, <3>3
  <2>. QED
    BY <2>2, <2>3
<1>3. Texted(Chars, Utf16Units)
  <2>1. \A c \in Chars : Units(c) \in Seq(Tokens)
    BY <1>2, EmptySeq
  <2>. QED
    BY <2>1 DEF Texted, Utf16Units
<1>4. \A d, e \in Tokens, r, u \in Seq(Tokens) : Front(d, r) = Front(e, u) => d = e /\ r = u
  BY FrontSplit
<1>5. \A d \in Tokens, r \in Seq(Tokens) : Front(d, r) \in Seq(Tokens) /\ Front(d, r) # <<>>
  BY FrontType
<1>6. ASSUME NEW c \in Chars, NEW e \in Chars, NEW r \in Seq(Tokens), NEW u \in Seq(Tokens),
             Then(Units(c), r) = Then(Units(e), u)
      PROVE  c = e /\ r = u
  <2>1. c \in Tokens /\ e \in Tokens /\ 20 \in Tokens /\ c - 9 \in Tokens /\ e - 9 \in Tokens
    BY CharsAre DEF Tokens
  <2>2. Front(c - 9, r) \in Seq(Tokens) /\ Front(e - 9, u) \in Seq(Tokens)
    BY <1>5, <2>1
  <2>3. CASE c >= 30 /\ e >= 30
    <3>1. Front(20, Front(c - 9, r)) = Front(20, Front(e - 9, u))
      BY <1>2, <1>6, <2>3
    <3>2. Front(c - 9, r) = Front(e - 9, u)
      BY <1>4, <2>1, <2>2, <3>1
    <3>3. c - 9 = e - 9 /\ r = u
      BY <1>4, <2>1, <3>2
    <3>. QED
      BY <2>1, <3>3 DEF Tokens
  <2>4. CASE c >= 30 /\ ~(e >= 30)
    <3>1. Front(20, Front(c - 9, r)) = Front(e, u) /\ e # 20
      BY <1>2, <1>6, <2>4
    <3>. QED
      BY <1>4, <2>1, <2>2, <3>1
  <2>5. CASE ~(c >= 30) /\ e >= 30
    <3>1. Front(20, Front(e - 9, u)) = Front(c, r) /\ c # 20
      BY <1>2, <1>6, <2>5
    <3>. QED
      BY <1>4, <2>1, <2>2, <3>1
  <2>6. CASE ~(c >= 30) /\ ~(e >= 30)
    <3>1. Front(c, r) = Front(e, u)
      BY <1>2, <1>6, <2>6
    <3>. QED
      BY <1>4, <2>1, <3>1
  <2>. QED
    BY <2>3, <2>4, <2>5, <2>6
<1>7. Tells(Chars, Utf16Units, Itself(Chars), Seq(Tokens))
  BY <1>1, <1>6 DEF Tells
<1>8. ASSUME NEW c \in Chars, NEW r \in Seq(Tokens)
      PROVE  Then(Utf16Units[c], r) \in Seq(Tokens) /\ Then(Utf16Units[c], r) \notin {<<>>}
  <2>1. c \in Tokens /\ 20 \in Tokens /\ c - 9 \in Tokens
    BY CharsAre DEF Tokens
  <2>2. Then(Units(c), r) = Front(20, Front(c - 9, r)) \/ Then(Units(c), r) = Front(c, r)
    BY <1>2
  <2>3. Then(Units(c), r) \in Seq(Tokens) /\ Then(Units(c), r) # <<>>
    BY <1>5, <2>1, <2>2
  <2>. QED
    BY <1>1, <2>3
<1>9. Continues(Chars, Utf16Units, Seq(Tokens), {<<>>})
  BY <1>8 DEF Continues
<1>10. ASSUME NEW o \in Seq(Chars) PROVE CodedBefore(Utf16Units, o, <<>>) = Utf16(o)
  <2>1. Len(o) \in Nat /\ DOMAIN o = 1..Len(o) /\ \A i \in 1..Len(o) : o[i] \in Chars
    BY LenProperties, ElementOfSeq
  <2>2. \A i \in DOMAIN o : Utf16Units[o[i]] = Units(o[i])
    BY <1>1, <2>1
  <2>3. [i \in DOMAIN o |-> Utf16Units[o[i]]] = [i \in DOMAIN o |-> Units(o[i])]
    BY <2>2
  <2>4. Coded(Utf16Units, o) = Utf16(o)
    BY <2>3 DEF Utf16, Coded, Units
  <2>5. Coded(Utf16Units, o) \in Seq(Tokens)
    BY <1>3, CodedType
  <2>. QED
    BY <2>4, <2>5, NothingThen DEF CodedBefore
<1>11. CodedBefore(Utf16Units, s, <<>>) = CodedBefore(Utf16Units, t, <<>>)
  BY <1>10
<1>12. <<>> \in Seq(Tokens) /\ {<<>>} \subseteq Seq(Tokens) /\ Seq(Tokens) \subseteq Seq(Tokens) /\ <<>> \in {<<>>}
  BY EmptySeq
<1>13. Readable(Chars, Utf16Units, Itself(Chars), Seq(Tokens), {<<>>})
  BY <1>3, <1>7, <1>9, <1>12 DEF Readable
<1>14. Means(Itself(Chars), s, t)
  BY <1>11, <1>12, <1>13, CodeTells
<1>. QED
  BY <1>14, MeansItself

-----------------------------------------------------------------------------
(* Numbers *)

NumberTokens == Nat \cup {Dot, Minus, Exponent, Plus}

LEMMA NumberTokensAre ==
  /\ Nat \subseteq NumberTokens /\ 0..9 \subseteq NumberTokens /\ NumberTokens \subseteq Tokens
  /\ 0 \in NumberTokens /\ Dot \in NumberTokens /\ Minus \in NumberTokens
  /\ Exponent \in NumberTokens /\ Plus \in NumberTokens
BY DEF NumberTokens, Tokens, Dot, Minus, Exponent, Plus

LEMMA MarksDiffer ==
  /\ Dot \notin Nat /\ Minus \notin Nat /\ Exponent \notin Nat /\ Plus \notin Nat
  /\ Dot # Exponent /\ Plus # Minus
BY DEF Dot, Minus, Exponent, Plus

LEMMA WiderSequence ==
  ASSUME NEW S, NEW T, S \subseteq T, NEW s \in Seq(S)
  PROVE  s \in Seq(T)
<1>1. Len(s) \in Nat /\ s \in [1..Len(s) -> S]
  BY LenProperties
<1>2. s \in [1..Len(s) -> T]
  BY <1>1
<1>. QED
  BY <1>1, <1>2

\* Two sequences put together, by index.
Joins(s, t) ==
  /\ Len(s \o t) = Len(s) + Len(t)
  /\ \A i \in 1..Len(s) : (s \o t)[i] = s[i]
  /\ \A i \in 1..Len(t) : (s \o t)[Len(s) + i] = t[i]

LEMMA PutTogether ==
  ASSUME NEW S, NEW s \in Seq(S), NEW t \in Seq(S)
  PROVE  s \o t \in Seq(S) /\ Joins(s, t)
<1>1. PICK a, b \in Nat : a = Len(s) /\ b = Len(t)
  BY LenProperties
<1>2. /\ s \o t \in Seq(S) /\ Len(s \o t) = a + b
      /\ \A i \in 1..(a + b) : (s \o t)[i] = IF i <= a THEN s[i] ELSE t[i - a]
  BY <1>1, ConcatProperties
<1>3. \A i \in 1..a : i \in 1..(a + b) /\ i <= a
  OBVIOUS
<1>4. \A i \in 1..b : a + i \in 1..(a + b) /\ ~(a + i <= a) /\ (a + i) - a = i
  OBVIOUS
<1>. QED
  BY <1>1, <1>2, <1>3, <1>4 DEF Joins

\* The digits of a number that is not zero.
Significant(d, k) ==
  /\ d \in Seq(0..9) /\ k \in Nat \ {0} /\ Len(d) = k /\ \A i \in 1..k : d[i] \in 0..9
  /\ d[1] # 0 /\ d[k] # 0

\* The four ways in which a number is laid out.
Whole(d, k, n, m) ==
  /\ k <= n /\ Len(m) = n
  /\ \A i \in 1..k : m[i] = d[i]
  /\ \A i \in 1..(n - k) : m[k + i] = 0
Split(d, k, n, m) ==
  /\ 0 < n /\ n < k /\ Len(m) = k + 1
  /\ \A i \in 1..n : m[i] = d[i]
  /\ m[n + 1] = Dot
  /\ \A i \in 1..(k - n) : m[n + 1 + i] = d[n + i]
Fraction(d, k, n, m) ==
  /\ n <= 0 /\ Len(m) = 2 - n + k
  /\ m[1] = 0 /\ m[2] = Dot
  /\ \A i \in 1..(0 - n) : m[2 + i] = 0
  /\ \A i \in 1..k : m[2 - n + i] = d[i]
Scientific(d, k, n, m) ==
  LET z == IF k = 1 THEN 1 ELSE k + 1
  IN  /\ Len(m) = z + 3
      /\ m[1] = d[1]
      /\ \A i \in 1..(k - 1) : m[2 + i] = d[1 + i]
      /\ m[z + 1] = Exponent
      /\ m[z + 2] = (IF n - 1 >= 0 THEN Plus ELSE Minus)
      /\ m[z + 3] = (IF n - 1 >= 0 THEN n - 1 ELSE 1 - n)

LEMMA WholeIs ==
  ASSUME NEW d, NEW k, NEW n \in Int, Significant(d, k), k <= n
  PROVE  d \o Zeros(n - k) \in Seq(NumberTokens) /\ Whole(d, k, n, d \o Zeros(n - k))
<1>1. k \in Nat /\ n - k \in Nat /\ Len(d) = k /\ k + (n - k) = n
  BY DEF Significant
<1>2. d \in Seq(NumberTokens)
  BY NumberTokensAre, WiderSequence DEF Significant
<1>3. PICK z : z = Zeros(n - k)
  OBVIOUS
<1>4. z \in Seq(NumberTokens) /\ Len(z) = n - k /\ \A i \in 1..(n - k) : z[i] = 0
  BY <1>1, <1>3, NumberTokensAre DEF Zeros
<1>5. /\ d \o z \in Seq(NumberTokens) /\ Len(d \o z) = k + (n - k)
      /\ \A i \in 1..k : (d \o z)[i] = d[i]
      /\ \A i \in 1..(n - k) : (d \o z)[k + i] = z[i]
  <2>1. d \o z \in Seq(NumberTokens) /\ Joins(d, z)
    BY <1>2, <1>4, PutTogether
  <2>. QED
    BY <1>1, <1>2, <1>4, <2>1 DEF Joins
<1>. QED
  BY <1>1, <1>3, <1>4, <1>5 DEF Whole

LEMMA SplitIs ==
  ASSUME NEW d, NEW k, NEW n \in Int, Significant(d, k), 0 < n, n < k
  PROVE  /\ SubSeq(d, 1, n) \o <<Dot>> \o SubSeq(d, n + 1, k) \in Seq(NumberTokens)
         /\ Split(d, k, n, SubSeq(d, 1, n) \o <<Dot>> \o SubSeq(d, n + 1, k))
<1>1. k \in Nat /\ n \in Nat /\ k - n \in Nat /\ Len(d) = k /\ 1 \in Nat
  BY DEF Significant
<1>2. \A i \in 1..k : d[i] \in NumberTokens
  BY NumberTokensAre DEF Significant
<1>3. PICK p : p = SubSeq(d, 1, n)
  OBVIOUS
<1>4. p \in Seq(NumberTokens) /\ Len(p) = n /\ \A i \in 1..n : p[i] = d[i]
  <2>1. 1 \in Int /\ \A i \in 1..n : d[i] \in NumberTokens /\ 1 + i - 1 = i
    BY <1>1, <1>2
  <2>2. /\ p \in Seq(NumberTokens) /\ Len(p) = (IF 1 <= n THEN n - 1 + 1 ELSE 0)
        /\ \A i \in 1..(n - 1 + 1) : p[i] = d[1 + i - 1]
    BY <1>3, <2>1, SubSeqProperties
  <2>3. n - 1 + 1 = n /\ 1 <= n
    OBVIOUS
  <2>. QED
    BY <2>1, <2>2, <2>3
<1>5. PICK q : q = SubSeq(d, n + 1, k)
  OBVIOUS
<1>6. q \in Seq(NumberTokens) /\ Len(q) = k - n /\ \A i \in 1..(k - n) : q[i] = d[n + i]
  <2>1. n + 1 \in Int /\ k \in Int /\ \A i \in (n + 1)..k : d[i] \in NumberTokens
    BY <1>1, <1>2
  <2>2. /\ q \in Seq(NumberTokens) /\ Len(q) = (IF n + 1 <= k THEN k - (n + 1) + 1 ELSE 0)
        /\ \A i \in 1..(k - (n + 1) + 1) : q[i] = d[(n + 1) + i - 1]
    BY <1>5, <2>1, SubSeqProperties
  <2>3. k - (n + 1) + 1 = k - n /\ n + 1 <= k /\ \A i \in 1..(k - n) : (n + 1) + i - 1 = n + i
    BY <1>1
  <2>. QED
    BY <2>2, <2>3
<1>7. <<Dot>> \in Seq(NumberTokens) /\ Len(<<Dot>>) = 1 /\ <<Dot>>[1] = Dot
  BY NumberTokensAre
<1>8. PICK o : o = p \o <<Dot>>
  OBVIOUS
<1>9. /\ o \in Seq(NumberTokens) /\ Len(o) = n + 1 /\ o[n + 1] = Dot
      /\ \A i \in 1..n : o[i] = p[i]
  <2>1. p \o <<Dot>> \in Seq(NumberTokens) /\ Joins(p, <<Dot>>)
    BY <1>4, <1>7, PutTogether
  <2>. QED
    BY <1>1, <1>4, <1>7, <1>8, <2>1 DEF Joins
<1>10. PICK m : m = o \o q
  OBVIOUS
<1>11. n + 1 \in Nat
  BY <1>1
<1>12. /\ m \in Seq(NumberTokens) /\ Len(m) = (n + 1) + (k - n)
       /\ \A i \in 1..(n + 1) : m[i] = o[i]
       /\ \A i \in 1..(k - n) : m[(n + 1) + i] = q[i]
  <2>1. o \o q \in Seq(NumberTokens) /\ Joins(o, q)
    BY <1>6, <1>9, PutTogether
  <2>. QED
    BY <1>1, <1>6, <1>9, <1>10, <1>11, <2>1 DEF Joins
<1>13. (n + 1) + (k - n) = k + 1 /\ n + 1 \in 1..(n + 1) /\ \A i \in 1..n : i \in 1..(n + 1)
  BY <1>1
<1>14. Split(d, k, n, m)
  BY <1>4, <1>6, <1>9, <1>12, <1>13 DEF Split
<1>. QED
  BY <1>3, <1>5, <1>8, <1>10, <1>12, <1>14

LEMMA FractionIs ==
  ASSUME NEW d, NEW k, NEW n \in Int, Significant(d, k), n <= 0
  PROVE  /\ <<0, Dot>> \o Zeros(-n) \o d \in Seq(NumberTokens)
         /\ Fraction(d, k, n, <<0, Dot>> \o Zeros(-n) \o d)
<1>1. k \in Nat /\ -n \in Nat /\ Len(d) = k /\ 2 \in Nat /\ -n = 0 - n
  BY DEF Significant
<1>2. d \in Seq(NumberTokens)
  BY NumberTokensAre, WiderSequence DEF Significant
<1>3. PICK z : z = Zeros(-n)
  OBVIOUS
<1>4. z \in Seq(NumberTokens) /\ Len(z) = 0 - n /\ \A i \in 1..(0 - n) : z[i] = 0
  BY <1>1, <1>3, NumberTokensAre DEF Zeros
<1>5. PICK p : p = <<0, Dot>>
  OBVIOUS
<1>6. p \in Seq(NumberTokens) /\ Len(p) = 2 /\ p[1] = 0 /\ p[2] = Dot
  BY <1>5, NumberTokensAre
<1>7. PICK o : o = p \o z
  OBVIOUS
<1>8. 0 - n \in Nat /\ 2 + (0 - n) \in Nat
  BY <1>1
<1>9. /\ o \in Seq(NumberTokens) /\ Len(o) = 2 + (0 - n)
      /\ \A i \in 1..2 : o[i] = p[i]
      /\ \A i \in 1..(0 - n) : o[2 + i] = z[i]
  <2>1. p \o z \in Seq(NumberTokens) /\ Joins(p, z)
    BY <1>4, <1>6, PutTogether
  <2>. QED
    BY <1>1, <1>4, <1>6, <1>7, <1>8, <2>1 DEF Joins
<1>10. PICK m : m = o \o d
  OBVIOUS
<1>11. /\ m \in Seq(NumberTokens) /\ Len(m) = (2 + (0 - n)) + k
       /\ \A i \in 1..(2 + (0 - n)) : m[i] = o[i]
       /\ \A i \in 1..k : m[(2 + (0 - n)) + i] = d[i]
  <2>1. o \o d \in Seq(NumberTokens) /\ Joins(o, d)
    BY <1>2, <1>9, PutTogether
  <2>. QED
    BY <1>1, <1>2, <1>8, <1>9, <1>10, <2>1 DEF Joins
<1>12. /\ 2 + (0 - n) = 2 - n /\ 1 \in 1..(2 + (0 - n)) /\ 2 \in 1..(2 + (0 - n)) /\ 1 \in 1..2 /\ 2 \in 1..2
       /\ \A i \in 1..(0 - n) : 2 + i \in 1..(2 + (0 - n))
  BY <1>1
<1>13. Len(m) = 2 - n + k /\ m[1] = 0 /\ m[2] = Dot
  BY <1>6, <1>9, <1>11, <1>12
<1>14. \A i \in 1..(0 - n) : m[2 + i] = 0
  BY <1>4, <1>9, <1>11, <1>12
<1>15. \A i \in 1..k : m[2 - n + i] = d[i]
  BY <1>11, <1>12
<1>16. Fraction(d, k, n, m)
  BY <1>13, <1>14, <1>15 DEF Fraction
<1>. QED
  BY <1>3, <1>5, <1>7, <1>10, <1>11, <1>16

LEMMA ScientificIs ==
  ASSUME NEW d, NEW k, NEW n \in Int, Significant(d, k)
  PROVE  LET m == (IF k = 1 THEN d ELSE <<d[1], Dot>> \o Tail(d)) \o <<Exponent>> \o Sign(n - 1)
         IN  m \in Seq(NumberTokens) /\ Scientific(d, k, n, m)
<1>1. k \in Nat /\ k >= 1 /\ Len(d) = k /\ 1 \in Nat /\ 2 \in Nat /\ d \in Seq(0..9)
  BY DEF Significant
<1>2. d \in Seq(NumberTokens) /\ d[1] \in NumberTokens
  BY NumberTokensAre, WiderSequence DEF Significant
<1>3. PICK x : x = (IF k = 1 THEN d ELSE <<d[1], Dot>> \o Tail(d))
  OBVIOUS
<1>4. PICK z \in Nat : z = (IF k = 1 THEN 1 ELSE k + 1)
  BY <1>1
<1>5. /\ x \in Seq(NumberTokens) /\ Len(x) = z /\ z >= 1 /\ x[1] = d[1]
      /\ \A i \in 1..(k - 1) : x[2 + i] = d[1 + i] /\ 2 + i \in 1..z
  <2>1. CASE k = 1
    BY <1>1, <1>2, <1>3, <1>4, <2>1
  <2>2. CASE k # 1
    <3>1. PICK t : t = Tail(d)
      OBVIOUS
    <3>2. t \in Seq(NumberTokens) /\ Len(t) = k - 1 /\ \A i \in 1..(k - 1) : t[i] = d[1 + i]
      <4>1. d # <<>>
        BY <1>1, <1>2, EmptySeq
      <4>2. t \in Seq(NumberTokens) /\ Len(t) = Len(d) - 1 /\ \A i \in 1..Len(t) : t[i] = d[i + 1]
        BY <1>2, <3>1, <4>1, HeadTailProperties
      <4>3. \A i \in 1..(k - 1) : i + 1 = 1 + i
        BY <1>1
      <4>. QED
        BY <1>1, <4>2, <4>3
    <3>3. PICK p : p = <<d[1], Dot>>
      OBVIOUS
    <3>4. p \in Seq(NumberTokens) /\ Len(p) = 2 /\ p[1] = d[1] /\ 1 \in 1..2
      BY <1>2, <3>3, NumberTokensAre
    <3>5. x = p \o t /\ k - 1 \in Nat
      BY <1>1, <1>3, <2>2, <3>1, <3>3
    <3>6. /\ x \in Seq(NumberTokens) /\ Len(x) = 2 + (k - 1)
          /\ \A i \in 1..2 : x[i] = p[i]
          /\ \A i \in 1..(k - 1) : x[2 + i] = t[i]
      <4>1. p \o t \in Seq(NumberTokens) /\ Joins(p, t)
        BY <3>2, <3>4, PutTogether
      <4>. QED
        BY <1>1, <3>2, <3>4, <3>5, <4>1 DEF Joins
    <3>7. z = 2 + (k - 1) /\ \A i \in 1..(k - 1) : 2 + i \in 1..z
      BY <1>1, <1>4, <2>2
    <3>. QED
      BY <1>4, <3>2, <3>4, <3>6, <3>7
  <2>. QED
    BY <2>1, <2>2
<1>6. PICK w : w = Sign(n - 1)
  OBVIOUS
<1>7. /\ w \in Seq(NumberTokens) /\ Len(w) = 2
      /\ w[1] = (IF n - 1 >= 0 THEN Plus ELSE Minus) /\ w[2] = (IF n - 1 >= 0 THEN n - 1 ELSE 1 - n)
  <2>1. CASE n - 1 >= 0
    <3>1. n - 1 \in NumberTokens
      BY <2>1, NumberTokensAre
    <3>2. w = <<Plus, n - 1>>
      BY <1>6, <2>1 DEF Sign
    <3>. QED
      BY <2>1, <3>1, <3>2, NumberTokensAre
  <2>2. CASE ~(n - 1 >= 0)
    <3>1. 1 - n \in NumberTokens /\ -(n - 1) = 1 - n
      BY <2>2, NumberTokensAre
    <3>2. w = <<Minus, 1 - n>>
      BY <1>6, <2>2, <3>1 DEF Sign
    <3>. QED
      BY <2>2, <3>1, <3>2, NumberTokensAre
  <2>. QED
    BY <2>1, <2>2
<1>8. <<Exponent>> \in Seq(NumberTokens) /\ Len(<<Exponent>>) = 1 /\ <<Exponent>>[1] = Exponent
  BY NumberTokensAre
<1>9. PICK y : y = x \o <<Exponent>>
  OBVIOUS
<1>10. /\ y \in Seq(NumberTokens) /\ Len(y) = z + 1 /\ y[z + 1] = Exponent
       /\ \A i \in 1..z : y[i] = x[i]
  <2>1. x \o <<Exponent>> \in Seq(NumberTokens) /\ Joins(x, <<Exponent>>)
    BY <1>5, <1>8, PutTogether
  <2>. QED
    BY <1>1, <1>5, <1>8, <1>9, <2>1 DEF Joins
<1>11. PICK m : m = y \o w
  OBVIOUS
<1>12. z + 1 \in Nat
  BY <1>4
<1>13. /\ m \in Seq(NumberTokens) /\ Len(m) = (z + 1) + 2
       /\ \A i \in 1..(z + 1) : m[i] = y[i]
       /\ \A i \in 1..2 : m[(z + 1) + i] = w[i]
  <2>1. y \o w \in Seq(NumberTokens) /\ Joins(y, w)
    BY <1>7, <1>10, PutTogether
  <2>. QED
    BY <1>1, <1>7, <1>10, <1>11, <1>12, <2>1 DEF Joins
<1>14. /\ (z + 1) + 2 = z + 3 /\ (z + 1) + 1 = z + 2 /\ 1 \in 1..2 /\ 2 \in 1..2
       /\ z + 1 \in 1..(z + 1) /\ \A i \in 1..z : i \in 1..(z + 1)
  BY <1>4
<1>15. Len(m) = z + 3 /\ m[z + 1] = Exponent
  BY <1>10, <1>13, <1>14
<1>16. m[z + 2] = w[1] /\ m[z + 3] = w[2]
  BY <1>13, <1>14
<1>17. m[1] = d[1] /\ \A i \in 1..(k - 1) : m[2 + i] = d[1 + i]
  <2>1. 1 \in 1..z
    BY <1>5
  <2>. QED
    BY <1>5, <1>10, <1>13, <1>14, <2>1
<1>18. Scientific(d, k, n, m)
  BY <1>4, <1>7, <1>15, <1>16, <1>17 DEF Scientific
<1>. QED
  BY <1>3, <1>6, <1>9, <1>11, <1>13, <1>18

\* Laid out in the same way, the same text has the same digits and the same exponent.
LEMMA SignificantIs ==
  ASSUME NEW d, NEW k, Significant(d, k)
  PROVE  /\ k \in Nat /\ k >= 1 /\ Len(d) = k /\ d[1] # 0 /\ d[k] # 0
         /\ \A i \in 1..k : d[i] \in Nat
         /\ d[1] \in 0..9
BY DEF Significant

LEMMA SameDigits ==
  ASSUME NEW d, NEW e, NEW k, Significant(d, k), Significant(e, k), \A i \in 1..k : d[i] = e[i]
  PROVE  d = e
<1>1. d \in Seq(0..9) /\ e \in Seq(0..9) /\ Len(d) = k /\ Len(e) = k
  BY DEF Significant
<1>. QED
  BY <1>1, SeqEqual

LEMMA WholeTells ==
  ASSUME NEW d, NEW k, NEW n \in Int, Significant(d, k), NEW e, NEW l, NEW o \in Int, Significant(e, l),
         NEW m, Whole(d, k, n, m), Whole(e, l, o, m)
  PROVE  d = e /\ n = o
<1>1. n = o
  BY DEF Whole
<1>2. ASSUME NEW p, NEW a, NEW b, Significant(p, b), Whole(p, b, n, m), a \in Nat, a < b,
             \A i \in 1..(n - a) : m[a + i] = 0
      PROVE  FALSE
  <2>1. b \in Nat /\ p[b] # 0 /\ b >= 1
    BY <1>2, SignificantIs
  <2>2. b <= n /\ m[b] = p[b]
    BY <1>2, <2>1 DEF Whole
  <2>3. b - a \in 1..(n - a) /\ a + (b - a) = b
    BY <1>2, <2>1, <2>2
  <2>4. m[b] = 0
    BY <1>2, <2>3
  <2>. QED
    BY <2>1, <2>2, <2>4
<1>3. k \in Nat /\ l \in Nat
  BY SignificantIs
<1>4. ~(k < l)
  <2>1. \A i \in 1..(n - k) : m[k + i] = 0
    BY DEF Whole
  <2>2. Whole(e, l, n, m)
    BY <1>1
  <2>. QED
    BY <1>2, <1>3, <2>1, <2>2
<1>5. ~(l < k)
  <2>1. \A i \in 1..(n - l) : m[l + i] = 0
    BY <1>1 DEF Whole
  <2>. QED
    BY <1>2, <1>3, <2>1
<1>6. k = l
  BY <1>3, <1>4, <1>5
<1>7. \A i \in 1..k : d[i] = e[i]
  BY <1>6 DEF Whole
<1>. QED
  BY <1>1, <1>6, <1>7, SameDigits

LEMMA SplitTells ==
  ASSUME NEW d, NEW k, NEW n \in Int, Significant(d, k), NEW e, NEW l, NEW o \in Int, Significant(e, l),
         NEW m, Split(d, k, n, m), Split(e, l, o, m)
  PROVE  d = e /\ n = o
<1>1. k \in Nat /\ l \in Nat /\ Len(m) = k + 1 /\ Len(m) = l + 1
  BY SignificantIs DEF Split
<1>2. k = l
  BY <1>1
<1>3. ASSUME NEW p, NEW a \in Int, NEW b \in Int, NEW c, Significant(p, c), Split(p, c, b, m),
             0 < a, a < b, m[a + 1] = Dot
      PROVE  FALSE
  <2>1. a + 1 \in 1..b /\ b < c /\ c \in Nat
    BY <1>3, SignificantIs DEF Split
  <2>2. m[a + 1] = p[a + 1] /\ a + 1 \in 1..c
    BY <1>3, <2>1 DEF Split
  <2>3. p[a + 1] \in Nat
    BY <1>3, <2>2, SignificantIs
  <2>. QED
    BY <1>3, <2>2, <2>3, MarksDiffer
<1>4. 0 < n /\ m[n + 1] = Dot /\ 0 < o /\ m[o + 1] = Dot
  BY DEF Split
<1>5. ~(n < o)
  BY <1>3, <1>4
<1>6. ~(o < n)
  BY <1>3, <1>4
<1>7. n = o
  BY <1>5, <1>6
<1>8. ASSUME NEW i \in 1..k PROVE d[i] = e[i]
  <2>1. CASE i <= n
    <3>1. i \in 1..n
      BY <1>1, <2>1
    <3>. QED
      BY <1>7, <3>1 DEF Split
  <2>2. CASE ~(i <= n)
    <3>1. PICK j : j = i - n
      OBVIOUS
    <3>2. j \in 1..(k - n) /\ n + j = i
      BY <1>1, <2>2, <3>1
    <3>3. m[n + 1 + j] = d[n + j] /\ m[n + 1 + j] = e[n + j]
      BY <1>2, <1>7, <3>2 DEF Split
    <3>. QED
      BY <3>2, <3>3
  <2>. QED
    BY <2>1, <2>2
<1>. QED
  BY <1>2, <1>7, <1>8, SameDigits

LEMMA FractionTells ==
  ASSUME NEW d, NEW k, NEW n \in Int, Significant(d, k), NEW e, NEW l, NEW o \in Int, Significant(e, l),
         NEW m, Fraction(d, k, n, m), Fraction(e, l, o, m)
  PROVE  d = e /\ n = o
<1>1. k \in Nat /\ k >= 1 /\ l \in Nat /\ l >= 1
  BY SignificantIs
<1>2. ASSUME NEW p, NEW a \in Int, NEW b \in Int, NEW c, Significant(p, c), Fraction(p, c, a, m),
             b < a, \A i \in 1..(0 - b) : m[2 + i] = 0
      PROVE  FALSE
  <2>1. a <= 0 /\ c \in Nat /\ c >= 1 /\ p[1] # 0 /\ \A i \in 1..c : m[2 - a + i] = p[i]
    BY <1>2, SignificantIs DEF Fraction
  <2>2. m[2 - a + 1] = p[1]
    <3>1. 1 \in 1..c
      BY <2>1
    <3>. QED
      BY <2>1, <3>1
  <2>3. 1 - a \in 1..(0 - b) /\ 2 + (1 - a) = 2 - a + 1
    BY <1>2, <2>1
  <2>4. m[2 - a + 1] = 0
    BY <1>2, <2>3
  <2>. QED
    BY <2>1, <2>2, <2>4
<1>3. (\A i \in 1..(0 - n) : m[2 + i] = 0) /\ (\A i \in 1..(0 - o) : m[2 + i] = 0)
  BY DEF Fraction
<1>4. ~(n < o)
  BY <1>2, <1>3
<1>5. ~(o < n)
  BY <1>2, <1>3
<1>6. n = o
  BY <1>4, <1>5
<1>7. k = l
  BY <1>1, <1>6 DEF Fraction
<1>8. \A i \in 1..k : d[i] = e[i]
  BY <1>6, <1>7 DEF Fraction
<1>. QED
  BY <1>6, <1>7, <1>8, SameDigits

LEMMA ScientificTells ==
  ASSUME NEW d, NEW k, NEW n \in Int, Significant(d, k), NEW e, NEW l, NEW o \in Int, Significant(e, l),
         NEW m, Scientific(d, k, n, m), Scientific(e, l, o, m)
  PROVE  d = e /\ n = o
<1>1. k \in Nat /\ k >= 1 /\ l \in Nat /\ l >= 1
  BY SignificantIs
<1>2. PICK z \in Nat : z = IF k = 1 THEN 1 ELSE k + 1
  BY <1>1
<1>3. PICK y \in Nat : y = IF l = 1 THEN 1 ELSE l + 1
  BY <1>1
<1>4. /\ Len(m) = z + 3 /\ m[1] = d[1]
      /\ \A i \in 1..(k - 1) : m[2 + i] = d[1 + i]
      /\ m[z + 2] = (IF n - 1 >= 0 THEN Plus ELSE Minus)
      /\ m[z + 3] = (IF n - 1 >= 0 THEN n - 1 ELSE 1 - n)
  BY <1>2 DEF Scientific
<1>5. /\ Len(m) = y + 3 /\ m[1] = e[1]
      /\ \A i \in 1..(l - 1) : m[2 + i] = e[1 + i]
      /\ m[y + 2] = (IF o - 1 >= 0 THEN Plus ELSE Minus)
      /\ m[y + 3] = (IF o - 1 >= 0 THEN o - 1 ELSE 1 - o)
  BY <1>3 DEF Scientific
<1>6. z = y
  BY <1>4, <1>5
<1>7. k = l
  BY <1>1, <1>2, <1>3, <1>6
<1>8. (n - 1 >= 0) <=> (o - 1 >= 0)
  <2>1. (IF n - 1 >= 0 THEN Plus ELSE Minus) = (IF o - 1 >= 0 THEN Plus ELSE Minus)
    BY <1>4, <1>5, <1>6
  <2>. QED
    BY <2>1, MarksDiffer
<1>9. n = o
  <2>1. (IF n - 1 >= 0 THEN n - 1 ELSE 1 - n) = (IF o - 1 >= 0 THEN o - 1 ELSE 1 - o)
    BY <1>4, <1>5, <1>6
  <2>. QED
    BY <1>8, <2>1
<1>10. ASSUME NEW i \in 1..k PROVE d[i] = e[i]
  <2>1. CASE i = 1
    BY <1>4, <1>5, <2>1
  <2>2. CASE i # 1
    <3>1. PICK j : j = i - 1
      OBVIOUS
    <3>2. j \in 1..(k - 1) /\ 1 + j = i
      BY <1>1, <2>2, <3>1
    <3>3. m[2 + j] = d[1 + j] /\ m[2 + j] = e[1 + j]
      BY <1>4, <1>5, <1>7, <3>2
    <3>. QED
      BY <3>2, <3>3
  <2>. QED
    BY <2>1, <2>2
<1>. QED
  BY <1>7, <1>9, <1>10, SameDigits

\* What the four layouts look like.
AllDigits(m) == Len(m) \in Nat /\ Len(m) >= 1 /\ m[1] # 0 /\ \A i \in 1..Len(m) : m[i] \in Nat
PointInside(m) ==
  /\ Len(m) \in Nat /\ m[1] # 0 /\ \A i \in 1..Len(m) : m[i] \in Nat \cup {Dot}
  /\ \E i \in 1..Len(m) : m[i] = Dot
PointSecond(m) ==
  /\ Len(m) \in Nat /\ Len(m) > 2 /\ m[1] = 0 /\ \A i \in 1..Len(m) : m[i] \in Nat \cup {Dot}
ExponentInside(m) == m[1] # 0 /\ Len(m) \in Nat /\ \E i \in 1..Len(m) : m[i] = Exponent

LEMMA WholeLooks ==
  ASSUME NEW d, NEW k, NEW n \in Int, Significant(d, k), NEW m, Whole(d, k, n, m)
  PROVE  AllDigits(m) /\ m[1] \in 0..9
<1>1. k \in Nat /\ k >= 1 /\ d[1] # 0 /\ d[1] \in 0..9 /\ \A i \in 1..k : d[i] \in Nat
  BY SignificantIs
<1>2. k <= n /\ Len(m) = n /\ (\A i \in 1..k : m[i] = d[i]) /\ \A i \in 1..(n - k) : m[k + i] = 0
  BY DEF Whole
<1>3. 1 \in 1..k /\ n \in Nat /\ n >= 1
  BY <1>1, <1>2
<1>4. ASSUME NEW i \in 1..n PROVE m[i] \in Nat
  <2>1. CASE i <= k
    <3>1. i \in 1..k
      BY <1>1, <2>1
    <3>. QED
      BY <1>1, <1>2, <3>1
  <2>2. CASE ~(i <= k)
    <3>1. PICK j : j = i - k
      OBVIOUS
    <3>2. j \in 1..(n - k) /\ k + j = i
      BY <1>1, <2>2, <3>1
    <3>. QED
      BY <1>2, <3>2
  <2>. QED
    BY <2>1, <2>2
<1>. QED
  BY <1>1, <1>2, <1>3, <1>4 DEF AllDigits

LEMMA SplitLooks ==
  ASSUME NEW d, NEW k, NEW n \in Int, Significant(d, k), NEW m, Split(d, k, n, m)
  PROVE  PointInside(m) /\ m[1] \in 0..9
<1>1. k \in Nat /\ k >= 1 /\ d[1] # 0 /\ d[1] \in 0..9 /\ \A i \in 1..k : d[i] \in Nat
  BY SignificantIs
<1>2. /\ 0 < n /\ n < k /\ Len(m) = k + 1 /\ m[n + 1] = Dot
      /\ \A i \in 1..n : m[i] = d[i]
      /\ \A i \in 1..(k - n) : m[n + 1 + i] = d[n + i]
  BY DEF Split
<1>3. 1 \in 1..n /\ 1 \in 1..k /\ n + 1 \in 1..(k + 1)
  BY <1>1, <1>2
<1>4. ASSUME NEW i \in 1..(k + 1) PROVE m[i] \in Nat \cup {Dot}
  <2>1. CASE i <= n
    <3>1. i \in 1..n /\ i \in 1..k
      BY <1>1, <1>2, <2>1
    <3>. QED
      BY <1>1, <1>2, <3>1
  <2>2. CASE i = n + 1
    BY <1>2, <2>2
  <2>3. CASE i > n + 1
    <3>1. PICK j : j = i - (n + 1)
      OBVIOUS
    <3>2. j \in 1..(k - n) /\ n + 1 + j = i /\ n + j \in 1..k
      BY <1>1, <1>2, <2>3, <3>1
    <3>3. m[n + 1 + j] = d[n + j] /\ d[n + j] \in Nat
      BY <1>1, <1>2, <3>2
    <3>. QED
      BY <3>2, <3>3
  <2>. QED
    BY <2>1, <2>2, <2>3
<1>. QED
  BY <1>1, <1>2, <1>3, <1>4 DEF PointInside

LEMMA FractionLooks ==
  ASSUME NEW d, NEW k, NEW n \in Int, Significant(d, k), NEW m, Fraction(d, k, n, m)
  PROVE  PointSecond(m) /\ m[1] \in 0..9 /\ m[2] = Dot
<1>1. k \in Nat /\ k >= 1 /\ \A i \in 1..k : d[i] \in Nat
  BY SignificantIs
<1>2. /\ n <= 0 /\ Len(m) = 2 - n + k /\ m[1] = 0 /\ m[2] = Dot
      /\ \A i \in 1..(0 - n) : m[2 + i] = 0
      /\ \A i \in 1..k : m[2 - n + i] = d[i]
  BY DEF Fraction
<1>3. ASSUME NEW i \in 1..(2 - n + k) PROVE m[i] \in Nat \cup {Dot}
  <2>1. CASE i <= 2
    <3>1. i = 1 \/ i = 2
      BY <2>1
    <3>. QED
      BY <1>2, <3>1
  <2>2. CASE i > 2 /\ i <= 2 - n
    <3>1. PICK j : j = i - 2
      OBVIOUS
    <3>2. j \in 1..(0 - n) /\ 2 + j = i
      BY <2>2, <3>1
    <3>. QED
      BY <1>2, <3>2
  <2>3. CASE i > 2 - n
    <3>1. PICK j : j = i - (2 - n)
      OBVIOUS
    <3>2. j \in 1..k /\ 2 - n + j = i
      BY <1>1, <2>3, <3>1
    <3>3. m[2 - n + j] = d[j] /\ d[j] \in Nat
      BY <1>1, <1>2, <3>2
    <3>. QED
      BY <3>2, <3>3
  <2>. QED
    BY <2>1, <2>2, <2>3
<1>4. 2 - n + k \in Nat /\ 2 - n + k > 2
  BY <1>1, <1>2
<1>. QED
  BY <1>2, <1>3, <1>4 DEF PointSecond

LEMMA ScientificLooks ==
  ASSUME NEW d, NEW k, NEW n \in Int, Significant(d, k), NEW m, Scientific(d, k, n, m)
  PROVE  ExponentInside(m) /\ m[1] \in 0..9
<1>1. k \in Nat /\ k >= 1 /\ d[1] # 0 /\ d[1] \in 0..9 /\ \A i \in 1..k : d[i] \in Nat
  BY SignificantIs
<1>2. PICK z \in Nat : z = IF k = 1 THEN 1 ELSE k + 1
  BY <1>1
<1>3. Len(m) = z + 3 /\ m[1] = d[1] /\ m[z + 1] = Exponent
  BY <1>2 DEF Scientific
<1>4. z + 1 \in 1..(z + 3) /\ z + 3 \in Nat /\ 1 \in 1..k
  BY <1>1
<1>. QED
  BY <1>1, <1>3, <1>4 DEF ExponentInside

Laid(d, k, n, m) ==
  Whole(d, k, n, m) \/ Split(d, k, n, m) \/ Fraction(d, k, n, m) \/ Scientific(d, k, n, m)

LEMMA LooksDiffer ==
  ASSUME NEW m
  PROVE  /\ ~(AllDigits(m) /\ PointInside(m)) /\ ~(AllDigits(m) /\ PointSecond(m))
         /\ ~(AllDigits(m) /\ ExponentInside(m)) /\ ~(PointInside(m) /\ PointSecond(m))
         /\ ~(PointInside(m) /\ ExponentInside(m)) /\ ~(PointSecond(m) /\ ExponentInside(m))
<1>1. ~(AllDigits(m) /\ PointInside(m))
  BY MarksDiffer DEF AllDigits, PointInside
<1>2. ~(AllDigits(m) /\ PointSecond(m))
  BY DEF AllDigits, PointSecond
<1>3. ~(AllDigits(m) /\ ExponentInside(m))
  BY MarksDiffer DEF AllDigits, ExponentInside
<1>4. ~(PointInside(m) /\ PointSecond(m))
  BY DEF PointInside, PointSecond
<1>5. ~(PointInside(m) /\ ExponentInside(m))
  BY MarksDiffer DEF PointInside, ExponentInside
<1>6. ~(PointSecond(m) /\ ExponentInside(m))
  BY DEF PointSecond, ExponentInside
<1>. QED
  BY <1>1, <1>2, <1>3, <1>4, <1>5, <1>6

LEMMA LaidTells ==
  ASSUME NEW d, NEW k, NEW n \in Int, Significant(d, k), NEW e, NEW l, NEW o \in Int, Significant(e, l),
         NEW m, Laid(d, k, n, m), Laid(e, l, o, m)
  PROVE  d = e /\ n = o
<1>1. \/ Whole(d, k, n, m) /\ AllDigits(m)
      \/ Split(d, k, n, m) /\ PointInside(m)
      \/ Fraction(d, k, n, m) /\ PointSecond(m)
      \/ Scientific(d, k, n, m) /\ ExponentInside(m)
  BY WholeLooks, SplitLooks, FractionLooks, ScientificLooks DEF Laid
<1>2. \/ Whole(e, l, o, m) /\ AllDigits(m)
      \/ Split(e, l, o, m) /\ PointInside(m)
      \/ Fraction(e, l, o, m) /\ PointSecond(m)
      \/ Scientific(e, l, o, m) /\ ExponentInside(m)
  BY WholeLooks, SplitLooks, FractionLooks, ScientificLooks DEF Laid
<1>3. \/ Whole(d, k, n, m) /\ Whole(e, l, o, m)
      \/ Split(d, k, n, m) /\ Split(e, l, o, m)
      \/ Fraction(d, k, n, m) /\ Fraction(e, l, o, m)
      \/ Scientific(d, k, n, m) /\ Scientific(e, l, o, m)
  BY <1>1, <1>2, LooksDiffer
<1>4. CASE Whole(d, k, n, m) /\ Whole(e, l, o, m)
  BY <1>4, WholeTells
<1>5. CASE Split(d, k, n, m) /\ Split(e, l, o, m)
  BY <1>5, SplitTells
<1>6. CASE Fraction(d, k, n, m) /\ Fraction(e, l, o, m)
  BY <1>6, FractionTells
<1>7. CASE Scientific(d, k, n, m) /\ Scientific(e, l, o, m)
  BY <1>7, ScientificTells
<1>. QED
  BY <1>3, <1>4, <1>5, <1>6, <1>7

LEMMA DoubleIs ==
  ASSUME NEW v \in Doubles
  PROVE  /\ v.kind = "number" /\ v.negative \in BOOLEAN /\ v.digits \in Seq(0..9) /\ v.n \in Int
         /\ v = Number(v.negative, v.digits, v.n)
         /\ v.digits # <<>> => Significant(v.digits, Len(v.digits))
<1>1. /\ v \in [kind : {"number"}, integer : BOOLEAN, negative : BOOLEAN, digits : Seq(0..9), n : Int]
      /\ v.integer = FALSE
  BY DEF Doubles, Numerals
<1>2. v.kind = "number" /\ v.negative \in BOOLEAN /\ v.digits \in Seq(0..9) /\ v.n \in Int
  BY <1>1
<1>3. v = Number(v.negative, v.digits, v.n)
  BY <1>1 DEF Number, Numeral
<1>4. ASSUME v.digits # <<>> PROVE Significant(v.digits, Len(v.digits))
  <2>1. v.digits[1] # 0 /\ v.digits[Len(v.digits)] # 0
    BY <1>4 DEF Doubles, Numerals
  <2>2. Len(v.digits) \in Nat \ {0}
    BY <1>2, <1>4, EmptySeq
  <2>3. \A i \in 1..Len(v.digits) : v.digits[i] \in 0..9
    BY <1>2, ElementOfSeq
  <2>. QED
    BY <1>2, <2>1, <2>2, <2>3 DEF Significant
<1>. QED
  BY <1>2, <1>3, <1>4

LEMMA MagnitudeIsLaid ==
  ASSUME NEW d, NEW k, NEW n \in Int, Significant(d, k)
  PROVE  Magnitude(d, n) \in Seq(NumberTokens) /\ Laid(d, k, n, Magnitude(d, n))
<1>1. k \in Nat /\ k >= 1 /\ Len(d) = k
  BY SignificantIs
<1>2. CASE k <= n /\ n <= 21
  <2>0. (k <= n /\ n <= 21) /\ ~(0 < n /\ n <= 21 /\ n < k) /\ ~(-6 < n /\ n <= 0) /\ ~(n > 21 \/ n <= -6)
    BY <1>1, <1>2
  <2>1. Magnitude(d, n) = d \o Zeros(n - k)
    BY <1>1, <2>0, Zenon DEF Magnitude
  <2>2. /\ d \o Zeros(n - k) \in Seq(NumberTokens)
        /\ Whole(d, k, n, d \o Zeros(n - k))
    BY <1>2, WholeIs
  <2>. QED
    BY <2>1, <2>2, Zenon DEF Laid
<1>3. CASE 0 < n /\ n <= 21 /\ n < k
  <2>0. ~(k <= n /\ n <= 21) /\ (0 < n /\ n <= 21 /\ n < k) /\ ~(-6 < n /\ n <= 0) /\ ~(n > 21 \/ n <= -6)
    BY <1>1, <1>3
  <2>1. Magnitude(d, n) = SubSeq(d, 1, n) \o <<Dot>> \o SubSeq(d, n + 1, k)
    BY <1>1, <2>0, Zenon DEF Magnitude
  <2>2. /\ SubSeq(d, 1, n) \o <<Dot>> \o SubSeq(d, n + 1, k) \in Seq(NumberTokens)
        /\ Split(d, k, n, SubSeq(d, 1, n) \o <<Dot>> \o SubSeq(d, n + 1, k))
    BY <1>3, SplitIs
  <2>. QED
    BY <2>1, <2>2, Zenon DEF Laid
<1>4. CASE -6 < n /\ n <= 0
  <2>0. ~(k <= n /\ n <= 21) /\ ~(0 < n /\ n <= 21 /\ n < k) /\ (-6 < n /\ n <= 0) /\ ~(n > 21 \/ n <= -6)
    BY <1>1, <1>4
  <2>1. Magnitude(d, n) = <<0, Dot>> \o Zeros(-n) \o d
    BY <1>1, <2>0, Zenon DEF Magnitude
  <2>2. /\ <<0, Dot>> \o Zeros(-n) \o d \in Seq(NumberTokens)
        /\ Fraction(d, k, n, <<0, Dot>> \o Zeros(-n) \o d)
    BY <1>4, FractionIs
  <2>. QED
    BY <2>1, <2>2, Zenon DEF Laid
<1>5. CASE n > 21 \/ n <= -6
  <2>0. ~(k <= n /\ n <= 21) /\ ~(0 < n /\ n <= 21 /\ n < k) /\ ~(-6 < n /\ n <= 0) /\ (n > 21 \/ n <= -6)
    BY <1>1, <1>5
  <2>1. Magnitude(d, n) = (IF k = 1 THEN d ELSE <<d[1], Dot>> \o Tail(d)) \o <<Exponent>> \o Sign(n - 1)
    BY <1>1, <2>0, Zenon DEF Magnitude
  <2>2. PICK m : m = (IF k = 1 THEN d ELSE <<d[1], Dot>> \o Tail(d)) \o <<Exponent>> \o Sign(n - 1)
    OBVIOUS
  <2>3. m \in Seq(NumberTokens) /\ Scientific(d, k, n, m)
    BY <2>2, ScientificIs
  <2>. QED
    BY <2>1, <2>2, <2>3 DEF Laid
<1>. QED
  BY <1>1, <1>2, <1>3, <1>4, <1>5

LEMMA MagnitudeBegins ==
  ASSUME NEW d, NEW k, NEW n \in Int, Significant(d, k)
  PROVE  /\ Magnitude(d, n) # <<>> /\ Magnitude(d, n)[1] \in 0..9 /\ Magnitude(d, n) # <<0>>
<1>1. PICK m : m = Magnitude(d, n)
  OBVIOUS
<1>2. m \in Seq(NumberTokens) /\ Laid(d, k, n, m)
  BY <1>1, MagnitudeIsLaid
<1>3. /\ m[1] \in 0..9
      /\ AllDigits(m) \/ PointInside(m) \/ PointSecond(m) \/ ExponentInside(m)
  BY <1>2, WholeLooks, SplitLooks, FractionLooks, ScientificLooks DEF Laid
<1>4. m # <<>>
  <2>1. SUFFICES ASSUME Len(m) = 0 PROVE FALSE
    BY EmptySeq
  <2>. QED
    BY <1>3, <2>1 DEF AllDigits, PointInside, PointSecond, ExponentInside
<1>5. m # <<0>>
  <2>1. SUFFICES ASSUME Len(m) = 1, m[1] = 0 PROVE FALSE
    OBVIOUS
  <2>. QED
    BY <1>3, <2>1 DEF AllDigits, PointInside, PointSecond, ExponentInside
<1>. QED
  BY <1>1, <1>3, <1>4, <1>5

LEMMA FormatDoubleIs ==
  ASSUME NEW v \in Doubles
  PROVE  /\ FormatDouble(v) \in Seq(NumberTokens) /\ FormatDouble(v) # <<>>
         /\ FormatDouble(v)[1] \in 0..9 \cup {Minus}
         /\ v.digits = <<>> => FormatDouble(v) = <<0>>
         /\ v.digits # <<>> =>
              /\ Magnitude(v.digits, v.n) \in Seq(NumberTokens)
              /\ ~v.negative => FormatDouble(v) = Magnitude(v.digits, v.n)
              /\ v.negative => FormatDouble(v) = Front(Minus, Magnitude(v.digits, v.n))
<1>1. CASE v.digits = <<>>
  <2>1. FormatDouble(v) = <<0>>
    BY <1>1 DEF FormatDouble
  <2>. QED
    BY <1>1, <2>1, NumberTokensAre
<1>2. CASE v.digits # <<>>
  <2>1. PICK m : m = Magnitude(v.digits, v.n)
    OBVIOUS
  <2>2. m \in Seq(NumberTokens) /\ m # <<>> /\ m[1] \in 0..9
    BY <1>2, <2>1, DoubleIs, MagnitudeIsLaid, MagnitudeBegins
  <2>3. FormatDouble(v) = (IF v.negative THEN <<Minus>> ELSE <<>>) \o m
    BY <1>2, <2>1 DEF FormatDouble
  <2>4. CASE v.negative
    <3>1. FormatDouble(v) = Front(Minus, m)
      BY <2>3, <2>4 DEF Front
    <3>2. Front(Minus, m) \in Seq(NumberTokens) /\ Front(Minus, m) # <<>> /\ Front(Minus, m)[1] = Minus
      BY <2>2, FrontType, NumberTokensAre
    <3>. QED
      BY <1>2, <2>1, <2>2, <2>4, <3>1, <3>2
  <2>5. CASE ~v.negative
    <3>1. FormatDouble(v) = m
      <4>1. FormatDouble(v) = <<>> \o m
        BY <2>3, <2>5
      <4>. QED
        BY <2>2, <4>1, ConcatEmptySeq
    <3>. QED
      BY <1>2, <2>1, <2>2, <2>5, <3>1
  <2>. QED
    BY <2>4, <2>5
<1>. QED
  BY <1>1, <1>2

\* The same text is that of the same number, up to the sign of zero.
LEMMA FormatDoubleTells ==
  ASSUME NEW v \in Doubles, NEW w \in Doubles, FormatDouble(v) = FormatDouble(w)
  PROVE  (v.digits = <<>> /\ w.digits = <<>>) \/ v = w
<1>1. \A x \in Doubles : x.digits # <<>> =>
        /\ Significant(x.digits, Len(x.digits)) /\ x.n \in Int
        /\ Magnitude(x.digits, x.n) \in Seq(NumberTokens)
        /\ Magnitude(x.digits, x.n) # <<0>> /\ Magnitude(x.digits, x.n)[1] \in 0..9
        /\ Laid(x.digits, Len(x.digits), x.n, Magnitude(x.digits, x.n))
  BY DoubleIs, MagnitudeIsLaid, MagnitudeBegins
<1>2. \A x \in Doubles : x.digits # <<>> => FormatDouble(x) # <<0>>
  <2>1. SUFFICES ASSUME NEW x \in Doubles, x.digits # <<>> PROVE FormatDouble(x) # <<0>>
    OBVIOUS
  <2>2. CASE ~x.negative
    BY <1>1, <2>1, <2>2, FormatDoubleIs
  <2>3. CASE x.negative
    <3>1. FormatDouble(x) = Front(Minus, Magnitude(x.digits, x.n))
      BY <2>1, <2>3, FormatDoubleIs
    <3>2. Front(Minus, Magnitude(x.digits, x.n))[1] = Minus
      BY <1>1, <2>1, FrontType, NumberTokensAre
    <3>. QED
      BY <3>1, <3>2, MarksDiffer
  <2>. QED
    BY <2>2, <2>3
<1>3. CASE v.digits = <<>> \/ w.digits = <<>>
  <2>1. \A x \in Doubles : x.digits = <<>> => FormatDouble(x) = <<0>>
    BY FormatDoubleIs
  <2>. QED
    BY <1>2, <1>3, <2>1
<1>4. CASE v.digits # <<>> /\ w.digits # <<>>
  <2>. DEFINE m == Magnitude(v.digits, v.n)
              o == Magnitude(w.digits, w.n)
  <2>1. /\ m \in Seq(NumberTokens) /\ o \in Seq(NumberTokens) /\ m[1] \in Nat /\ o[1] \in Nat
        /\ Laid(v.digits, Len(v.digits), v.n, m) /\ Laid(w.digits, Len(w.digits), w.n, o)
        /\ Significant(v.digits, Len(v.digits)) /\ Significant(w.digits, Len(w.digits))
        /\ v.n \in Int /\ w.n \in Int
    BY <1>1, <1>4
  <2>2. /\ ~v.negative => FormatDouble(v) = m
        /\ v.negative => FormatDouble(v) = Front(Minus, m)
        /\ ~w.negative => FormatDouble(w) = o
        /\ w.negative => FormatDouble(w) = Front(Minus, o)
    BY <1>4, FormatDoubleIs
  <2>. HIDE DEF m, o
  <2>3. Front(Minus, m)[1] = Minus /\ Front(Minus, o)[1] = Minus /\ Minus \notin Nat
    BY <2>1, FrontType, NumberTokensAre, MarksDiffer
  <2>4. v.negative \in BOOLEAN /\ w.negative \in BOOLEAN
    BY DoubleIs
  <2>5. v.negative = w.negative
    BY <2>1, <2>2, <2>3, <2>4
  <2>6. m = o
    <3>1. CASE v.negative
      <4>1. Front(Minus, m) = Front(Minus, o)
        BY <2>2, <2>5, <3>1
      <4>. QED
        BY <2>1, <4>1, FrontSplit, NumberTokensAre
    <3>2. CASE ~v.negative
      BY <2>2, <2>5, <3>2
    <3>. QED
      BY <3>1, <3>2
  <2>7. v.digits = w.digits /\ v.n = w.n
    BY <2>1, <2>6, LaidTells
  <2>. QED
    BY <2>5, <2>7, DoubleIs
<1>. QED
  BY <1>3, <1>4

-----------------------------------------------------------------------------
(* Values end where what follows begins *)

\* What may follow a value: nothing, or a comma or closing bracket.
Rests == {r \in Seq(Tokens) : r = <<>> \/ r[1] \in {Comma, CloseBracket, End}}
Singles == [t \in NumberTokens |-> <<t>>]

LEMMA RestsAre ==
  /\ Rests \subseteq Seq(Tokens) /\ <<>> \in Rests
  /\ \A r \in Rests : r \in Seq(Tokens)
  /\ \A r \in Seq(Tokens) :
       Front(Comma, r) \in Rests /\ Front(CloseBracket, r) \in Rests /\ Front(End, r) \in Rests
<1>1. Comma \in Tokens /\ CloseBracket \in Tokens /\ End \in Tokens
  BY DEF Tokens, Comma, CloseBracket, End
<1>. QED
  BY <1>1, TokensFront DEF Rests

LEMMA NoNumberToken ==
  \A t \in NumberTokens, r \in Seq(Tokens) : Front(t, r) \notin Rests
<1>1. SUFFICES ASSUME NEW t \in NumberTokens, NEW r \in Seq(Tokens) PROVE Front(t, r) \notin Rests
  OBVIOUS
<1>2. t \in Tokens /\ t \notin {Comma, CloseBracket, End}
  BY DEF NumberTokens, Tokens, Comma, CloseBracket, End, Dot, Minus, Exponent, Plus
<1>3. Front(t, r) # <<>> /\ Front(t, r)[1] = t
  BY <1>2, TokensFront
<1>. QED
  BY <1>2, <1>3 DEF Rests

LEMMA SinglesTell ==
  /\ Texted(NumberTokens, Singles)
  /\ Readable(NumberTokens, Singles, Itself(NumberTokens), Seq(Tokens), Rests)
<1>1. \A t \in NumberTokens : t \in Tokens
  BY NumberTokensAre
<1>2. \A t \in NumberTokens : Singles[t] = <<t>> /\ Itself(NumberTokens)[t] = t /\ <<t>> \in Seq(Tokens)
  BY <1>1, TokensFront DEF Singles, Itself
<1>3. Texted(NumberTokens, Singles)
  <2>1. Singles = [t \in NumberTokens |-> Singles[t]]
    BY DEF Singles
  <2>. QED
    BY <1>2, <2>1 DEF Texted
<1>4. \A t \in NumberTokens, r \in Seq(Tokens) : Then(Singles[t], r) = Front(t, r)
  BY <1>1, <1>2, TokensFront
<1>5. Tells(NumberTokens, Singles, Itself(NumberTokens), Seq(Tokens))
  <2>1. ASSUME NEW a \in NumberTokens, NEW b \in NumberTokens, NEW r \in Seq(Tokens), NEW u \in Seq(Tokens),
               Then(Singles[a], r) = Then(Singles[b], u)
        PROVE  a = b /\ r = u
    <3>1. Front(a, r) = Front(b, u)
      BY <1>4, <2>1
    <3>. QED
      BY <1>1, <3>1, TokensFront
  <2>. QED
    BY <1>2, <2>1 DEF Tells
<1>6. Continues(NumberTokens, Singles, Seq(Tokens), Rests)
  BY <1>1, <1>4, TokensFront, NoNumberToken DEF Continues
<1>. QED
  BY <1>3, <1>5, <1>6, RestsAre DEF Readable

LEMMA SinglesCoded ==
  ASSUME NEW s \in Seq(NumberTokens)
  PROVE  Coded(Singles, s) = s
<1>. DEFINE good == {t \in Seq(NumberTokens) : Coded(Singles, t) = t}
<1>1. <<>> \in good
  BY CodedNone, EmptySeq
<1>2. ASSUME NEW e \in NumberTokens, NEW t \in Seq(NumberTokens), t \in good PROVE Front(e, t) \in good
  <2>1. Coded(Singles, Front(e, t)) = Then(Singles[e], Coded(Singles, t))
    BY SinglesTell, CodedFront
  <2>2. Singles[e] = <<e>>
    BY DEF Singles
  <2>3. Then(<<e>>, t) = Front(e, t)
    BY OneThen
  <2>4. Front(e, t) \in Seq(NumberTokens)
    BY FrontType
  <2>. QED
    BY <1>2, <2>1, <2>2, <2>3, <2>4
<1>3. Seq(NumberTokens) \subseteq good
  <2>. HIDE DEF good
  <2>. QED
    BY <1>1, <1>2, AllByFront
<1>. QED
  BY <1>3

\* A number ends where its tokens do.
LEMMA DoubleTells ==
  ASSUME NEW v \in Doubles, NEW w \in Doubles, NEW r \in Rests, NEW u \in Rests,
         Then(FormatDouble(v), r) = Then(FormatDouble(w), u)
  PROVE  FormatDouble(v) = FormatDouble(w) /\ r = u
<1>1. FormatDouble(v) \in Seq(NumberTokens) /\ FormatDouble(w) \in Seq(NumberTokens)
  BY FormatDoubleIs
<1>2. \A o : \A s \in Seq(NumberTokens) : CodedBefore(Singles, s, o) = Then(s, o)
  BY SinglesCoded DEF CodedBefore
<1>3. CodedBefore(Singles, FormatDouble(v), r) = CodedBefore(Singles, FormatDouble(w), u)
  BY <1>1, <1>2
<1>4. r = u /\ Means(Itself(NumberTokens), FormatDouble(v), FormatDouble(w))
  BY <1>1, <1>3, SinglesTell, CodeTells
<1>. QED
  BY <1>1, <1>4, MeansItself

-----------------------------------------------------------------------------
(* The order of names *)

LEMMA LessIrreflexive ==
  ASSUME NEW s \in Seq(Int)
  PROVE  ~Less(s, s)
<1>1. Len(s) \in Nat /\ \A i \in 1..Len(s) : s[i] \in Int
  BY LenProperties, ElementOfSeq
<1>2. \A k \in 1..Len(s) : ~(Len(s) < k) /\ ~(s[k] < s[k])
  BY <1>1
<1>. QED
  BY <1>2 DEF Less

\* Where two sequences differ first, s has ended or is less.
Differ(s, t, k) ==
  /\ k \in 1..Len(t)
  /\ \A i \in 1..(k - 1) : i <= Len(s) /\ s[i] = t[i]
  /\ Len(s) < k \/ s[k] < t[k]

LEMMA LessIs == \A s, t : Less(s, t) <=> \E k : Differ(s, t, k)
BY DEF Less, Differ

LEMMA LessTransitive ==
  ASSUME NEW s \in Seq(Int), NEW t \in Seq(Int), NEW u \in Seq(Int), Less(s, t), Less(t, u)
  PROVE  Less(s, u)
<1>1. PICK k : Differ(s, t, k)
  BY LessIs
<1>2. PICK l : Differ(t, u, l)
  BY LessIs
<1>3. /\ Len(s) \in Nat /\ Len(t) \in Nat /\ Len(u) \in Nat
      /\ \A i \in 1..Len(s) : s[i] \in Int
      /\ \A i \in 1..Len(t) : t[i] \in Int
      /\ \A i \in 1..Len(u) : u[i] \in Int
  BY LenProperties, ElementOfSeq
<1>4. k \in 1..Len(t) /\ l \in 1..Len(u)
  BY <1>1, <1>2 DEF Differ
<1>5. (\A i \in 1..(k - 1) : i <= Len(s) /\ s[i] = t[i]) /\ (Len(s) < k \/ s[k] < t[k])
  BY <1>1 DEF Differ
<1>6. (\A i \in 1..(l - 1) : i <= Len(t) /\ t[i] = u[i]) /\ (Len(t) < l \/ t[l] < u[l])
  BY <1>2 DEF Differ
<1>7. CASE k < l
  <2>1. k \in 1..(l - 1) /\ k \in 1..Len(u) /\ \A i \in 1..(k - 1) : i \in 1..(l - 1)
    BY <1>3, <1>4, <1>7
  <2>2. t[k] = u[k] /\ \A i \in 1..(k - 1) : i <= Len(s) /\ s[i] = u[i]
    BY <1>5, <1>6, <2>1
  <2>. QED
    BY <1>5, <2>1, <2>2, LessIs DEF Differ
<1>8. CASE k = l
  <2>1. ~(Len(t) < l)
    BY <1>3, <1>4, <1>8
  <2>2. \A i \in 1..(k - 1) : i <= Len(s) /\ s[i] = u[i]
    BY <1>5, <1>6, <1>8
  <2>3. Len(s) < k \/ s[k] < u[k]
    <3>1. SUFFICES ASSUME ~(Len(s) < k) PROVE s[k] < u[k]
      OBVIOUS
    <3>2. s[k] < t[k] /\ t[k] < u[k]
      BY <1>5, <1>6, <1>8, <2>1, <3>1
    <3>3. s[k] \in Int /\ t[k] \in Int /\ u[k] \in Int
      BY <1>3, <1>4, <1>8, <3>1
    <3>. QED
      BY <3>2, <3>3
  <2>. QED
    BY <1>4, <1>8, <2>2, <2>3, LessIs DEF Differ
<1>9. CASE l < k
  <2>1. l \in 1..(k - 1) /\ ~(Len(t) < l) /\ \A i \in 1..(l - 1) : i \in 1..(k - 1)
    BY <1>3, <1>4, <1>9
  <2>2. s[l] = t[l] /\ t[l] < u[l] /\ \A i \in 1..(l - 1) : i <= Len(s) /\ s[i] = u[i]
    BY <1>5, <1>6, <2>1
  <2>3. s[l] < u[l]
    BY <2>2
  <2>. QED
    BY <1>4, <2>2, <2>3, LessIs DEF Differ
<1>. QED
  BY <1>4, <1>7, <1>8, <1>9

LEMMA LessTotal ==
  ASSUME NEW s \in Seq(Int), NEW t \in Seq(Int), s # t
  PROVE  Less(s, t) \/ Less(t, s)
<1>1. /\ Len(s) \in Nat /\ Len(t) \in Nat
      /\ \A i \in 1..Len(s) : s[i] \in Int
      /\ \A i \in 1..Len(t) : t[i] \in Int
  BY LenProperties, ElementOfSeq
<1>. DEFINE apart == {k \in Nat : k >= 1 /\ (k > Len(s) \/ k > Len(t) \/ s[k] # t[k])}
<1>2. PICK m \in apart : \A k \in apart : m <= k
  <2>1. Len(s) + 1 \in apart
    BY <1>1
  <2>2. apart \in SUBSET Nat
    OBVIOUS
  <2>. HIDE DEF apart
  <2>. QED
    BY <2>1, <2>2, LeastNumber
<1>3. m \in Nat /\ m >= 1 /\ (m > Len(s) \/ m > Len(t) \/ s[m] # t[m])
  OBVIOUS
<1>4. \A i \in 1..(m - 1) : i <= Len(s) /\ i <= Len(t) /\ s[i] = t[i]
  <2>1. SUFFICES ASSUME NEW i \in 1..(m - 1), ~(i <= Len(s) /\ i <= Len(t) /\ s[i] = t[i]) PROVE FALSE
    OBVIOUS
  <2>2. i \in apart
    BY <1>1, <1>3, <2>1
  <2>3. m <= i
    BY <1>2, <2>2
  <2>. QED
    BY <1>3, <2>3
<1>. HIDE DEF apart
<1>5. CASE m > Len(s) /\ m > Len(t)
  <2>1. Len(s) = m - 1 /\ Len(t) = m - 1
    <3>1. CASE m = 1
      BY <1>1, <1>5, <3>1
    <3>2. CASE m # 1
      <4>1. m - 1 \in 1..(m - 1)
        BY <1>3, <3>2
      <4>2. m - 1 <= Len(s) /\ m - 1 <= Len(t)
        BY <1>4, <4>1
      <4>. QED
        BY <1>1, <1>3, <1>5, <4>2
    <3>. QED
      BY <3>1, <3>2
  <2>2. \A i \in 1..Len(s) : s[i] = t[i]
    BY <1>4, <2>1
  <2>. QED
    BY <2>1, <2>2, SeqEqual
<1>6. CASE m > Len(s) /\ ~(m > Len(t))
  <2>1. Differ(s, t, m)
    BY <1>1, <1>3, <1>4, <1>6 DEF Differ
  <2>. QED
    BY <2>1, LessIs
<1>7. CASE ~(m > Len(s)) /\ m > Len(t)
  <2>1. Differ(t, s, m)
    BY <1>1, <1>3, <1>4, <1>7 DEF Differ
  <2>. QED
    BY <2>1, LessIs
<1>8. CASE ~(m > Len(s)) /\ ~(m > Len(t))
  <2>1. m \in 1..Len(s) /\ m \in 1..Len(t) /\ s[m] # t[m]
    BY <1>1, <1>3, <1>8
  <2>2. s[m] < t[m] \/ t[m] < s[m]
    BY <1>1, <2>1
  <2>3. Differ(s, t, m) \/ Differ(t, s, m)
    BY <1>4, <2>1, <2>2 DEF Differ
  <2>. QED
    BY <2>3, LessIs
<1>. QED
  BY <1>5, <1>6, <1>7, <1>8

Before(a, b) == Less(Utf16(a), Utf16(b))

LEMMA Utf16Type ==
  ASSUME NEW s \in Seq(Chars)
  PROVE  Utf16(s) \in Seq(Int)
<1>1. PICK p : p = [i \in DOMAIN s |-> IF s[i] >= 30 THEN <<20, s[i] - 9>> ELSE <<s[i]>>]
  OBVIOUS
<1>2. Len(s) \in Nat /\ DOMAIN s = 1..Len(s) /\ \A i \in 1..Len(s) : s[i] \in Int
  BY CharsAre, LenProperties, ElementOfSeq
<1>3. \A i \in 1..Len(s) : (IF s[i] >= 30 THEN <<20, s[i] - 9>> ELSE <<s[i]>>) \in Seq(Int)
  BY <1>2
<1>4. p \in Seq(Seq(Int))
  BY <1>1, <1>2, <1>3
<1>. QED
  BY <1>1, <1>4, ChainedType DEF Utf16

LEMMA BeforeOrders ==
  /\ \A a \in Seq(Chars) : ~Before(a, a)
  /\ \A a, b, c \in Seq(Chars) : Before(a, b) /\ Before(b, c) => Before(a, c)
  /\ \A a, b \in Seq(Chars) : a # b => Before(a, b) \/ Before(b, a)
<1>1. \A a \in Seq(Chars) : Utf16(a) \in Seq(Int)
  BY Utf16Type
<1>2. \A a \in Seq(Chars) : ~Before(a, a)
  BY <1>1, LessIrreflexive DEF Before
<1>3. \A a, b, c \in Seq(Chars) : Before(a, b) /\ Before(b, c) => Before(a, c)
  BY <1>1, LessTransitive DEF Before
<1>4. \A a, b \in Seq(Chars) : a # b => Before(a, b) \/ Before(b, a)
  BY <1>1, LessTotal, Utf16Tells DEF Before
<1>. QED
  BY <1>2, <1>3, <1>4

-----------------------------------------------------------------------------
(* The place of a name among others *)

Below(name, names) == {x \in names : Before(x, name)}
Rank(name, names) == Cardinality(Below(name, names))

LEMMA RankIs ==
  ASSUME NEW names, names \subseteq Seq(Chars), IsFiniteSet(names)
  PROVE  /\ \A a \in names : Rank(a, names) \in 0..(Cardinality(names) - 1)
         /\ \A a, b \in names : Rank(a, names) = Rank(b, names) => a = b
<1>1. \A a : Below(a, names) \in SUBSET names
  BY DEF Below
<1>2. \A a : IsFiniteSet(Below(a, names)) /\ Rank(a, names) \in Nat
  BY <1>1, FS_Subset, FS_CardinalityType DEF Rank
<1>3. Cardinality(names) \in Nat
  BY FS_CardinalityType
<1>4. ASSUME NEW a \in names PROVE Rank(a, names) \in 0..(Cardinality(names) - 1)
  <2>1. a \notin Below(a, names)
    BY BeforeOrders DEF Below
  <2>2. Cardinality(Below(a, names)) <= Cardinality(names) /\ Cardinality(Below(a, names)) # Cardinality(names)
    BY <1>1, <2>1, FS_Subset
  <2>. QED
    BY <1>2, <1>3, <2>2 DEF Rank
<1>5. ASSUME NEW a \in names, NEW b \in names, Before(a, b) PROVE Rank(a, names) # Rank(b, names)
  <2>1. Below(a, names) \in SUBSET Below(b, names)
    BY <1>5, BeforeOrders DEF Below
  <2>2. a \in Below(b, names) /\ a \notin Below(a, names)
    BY <1>5, BeforeOrders DEF Below
  <2>3. Below(a, names) # Below(b, names)
    BY <2>2
  <2>. QED
    BY <1>2, <2>1, <2>3, FS_Subset DEF Rank
<1>6. \A a, b \in names : Rank(a, names) = Rank(b, names) => a = b
  <2>1. SUFFICES ASSUME NEW a \in names, NEW b \in names, a # b PROVE Rank(a, names) # Rank(b, names)
    OBVIOUS
  <2>2. Before(a, b) \/ Before(b, a)
    BY <2>1, BeforeOrders
  <2>. QED
    BY <1>5, <2>2
<1>. QED
  BY <1>4, <1>6

\* Every place is some name's.
LEMMA RankTaken ==
  ASSUME NEW names, names \subseteq Seq(Chars), IsFiniteSet(names), NEW i \in 0..(Cardinality(names) - 1)
  PROVE  \E a \in names : Rank(a, names) = i
<1>. DEFINE n == Cardinality(names)
            f == [a \in names |-> Rank(a, names)]
<1>1. n \in Nat
  BY FS_CardinalityType
<1>2. f \in [names -> 0..(n - 1)] /\ \A a, b \in names : f[a] = f[b] => a = b
  BY RankIs
<1>3. f \in Injection(names, 0..(n - 1))
  BY <1>2 DEF Injection, IsInjective
<1>4. IsFiniteSet(0..(n - 1)) /\ Cardinality(0..(n - 1)) = n
  <2>1. 0 \in Int /\ n - 1 \in Int /\ (IF 0 > n - 1 THEN 0 ELSE (n - 1) - 0 + 1) = n
    BY <1>1
  <2>. HIDE DEF n
  <2>. QED
    BY <2>1, FS_Interval
<1>5. f \in Surjection(names, 0..(n - 1))
  <2>1. Cardinality(names) = n
    OBVIOUS
  <2>. HIDE DEF n, f
  <2>. QED
    BY <1>3, <1>4, <2>1, FS_Injection
<1>6. \E a \in names : f[a] = i
  BY <1>5 DEF Surjection
<1>. QED
  BY <1>6

-----------------------------------------------------------------------------
(* The members of an object in order *)

Named(members, inner) ==
  /\ members \in Seq([name : Seq(Chars), of : inner])
  /\ \A i, j \in DOMAIN members : members[i].name = members[j].name => i = j
Names(members) == {members[i].name : i \in DOMAIN members}

LEMMA EntriesAre ==
  ASSUME NEW inner, NEW members, Named(members, inner)
  PROVE  /\ Len(members) \in Nat /\ DOMAIN members = 1..Len(members)
         /\ \A m \in MemberSet(members) : m \in [name : Seq(Chars), of : inner] /\ m.name \in Names(members)
         /\ \A m \in MemberSet(members) : m.name \in Seq(Chars) /\ m.of \in inner
         /\ \A x \in Names(members) : \E m \in MemberSet(members) : m.name = x
         /\ \A m, o \in MemberSet(members) : m.name = o.name => m = o
         /\ \A i \in 1..Len(members) : members[i] \in MemberSet(members)
<1>1. members \in Seq([name : Seq(Chars), of : inner])
  BY DEF Named
<1>2. /\ Len(members) \in Nat /\ DOMAIN members = 1..Len(members)
      /\ \A i \in DOMAIN members : members[i] \in [name : Seq(Chars), of : inner]
  BY <1>1, LenProperties, ElementOfSeq
<1>3. \A m \in MemberSet(members) : m \in [name : Seq(Chars), of : inner] /\ m.name \in Names(members)
  BY <1>2 DEF MemberSet, Names
<1>4. \A m \in MemberSet(members) : m.name \in Seq(Chars) /\ m.of \in inner
  BY <1>3
<1>5. \A x \in Names(members) : \E m \in MemberSet(members) : m.name = x
  BY DEF MemberSet, Names
<1>6. \A m, o \in MemberSet(members) : m.name = o.name => m = o
  BY DEF MemberSet, Named
<1>7. \A i \in 1..Len(members) : members[i] \in MemberSet(members)
  BY <1>2 DEF MemberSet
<1>. QED
  BY <1>2, <1>3, <1>4, <1>5, <1>6, <1>7

LEMMA NamesAre ==
  ASSUME NEW inner, NEW members, Named(members, inner)
  PROVE  /\ Names(members) \subseteq Seq(Chars)
         /\ IsFiniteSet(Names(members)) /\ Cardinality(Names(members)) = Len(members)
<1>. DEFINE f == [i \in 1..Len(members) |-> members[i].name]
<1>1. Len(members) \in Nat /\ DOMAIN members = 1..Len(members)
  BY EntriesAre
<1>2. Names(members) \subseteq Seq(Chars)
  BY EntriesAre
<1>3. f \in [1..Len(members) -> Names(members)]
  BY <1>1 DEF Names
<1>4. f \in Surjection(1..Len(members), Names(members))
  <2>1. \A x \in Names(members) : \E i \in 1..Len(members) : f[i] = x
    BY <1>1 DEF Names
  <2>. HIDE DEF f
  <2>. QED
    BY <1>3, <2>1 DEF Surjection
<1>5. f \in Injection(1..Len(members), Names(members))
  <2>1. \A i, j \in 1..Len(members) : f[i] = f[j] => i = j
    BY <1>1 DEF Named
  <2>. HIDE DEF f
  <2>. QED
    BY <1>3, <2>1 DEF Injection, IsInjective
<1>6. IsFiniteSet(1..Len(members)) /\ Cardinality(1..Len(members)) = Len(members)
  <2>1. PICK n \in Nat : n = Len(members)
    BY <1>1
  <2>2. IsFiniteSet(1..n) /\ Cardinality(1..n) = (IF 1 > n THEN 0 ELSE n - 1 + 1)
    <3>1. 1 \in Int /\ n \in Int
      OBVIOUS
    <3>. QED
      BY <3>1, FS_Interval
  <2>3. (IF 1 > n THEN 0 ELSE n - 1 + 1) = n
    OBVIOUS
  <2>. QED
    BY <2>1, <2>2, <2>3
<1>7. /\ IsFiniteSet(Names(members))
      /\ Cardinality(Names(members)) = Cardinality(1..Len(members))
  <2>. HIDE DEF f
  <2>. QED
    BY <1>4, <1>5, <1>6, FS_Surjection
<1>. QED
  BY <1>2, <1>6, <1>7

LEMMA PlaceIs ==
  ASSUME NEW members, NEW name
  PROVE  Place(name, members) = Rank(name, Names(members))
<1>1. {m.name : m \in {m \in MemberSet(members) : Before(m.name, name)}} = {x \in Names(members) : Before(x, name)}
  BY DEF MemberSet, Names
<1>. QED
  BY <1>1 DEF Place, Rank, Below, Before

LEMMA SortedIs ==
  ASSUME NEW inner, NEW members, Named(members, inner)
  PROVE  /\ Sorted(members) \in Seq([name : Seq(Chars), of : inner])
         /\ Len(Sorted(members)) = Len(members) /\ DOMAIN Sorted(members) = 1..Len(members)
         /\ \A i \in 1..Len(members) :
              Sorted(members)[i] \in MemberSet(members) /\ Rank(Sorted(members)[i].name, Names(members)) = i - 1
         /\ MemberSet(Sorted(members)) = MemberSet(members)
<1>. DEFINE at(i) == {m \in MemberSet(members) : Place(m.name, members) = i - 1}
            n == Len(members)
<1>1. n \in Nat /\ DOMAIN members = 1..n
  BY EntriesAre
<1>2. PICK s : s = Sorted(members)
  OBVIOUS
<1>3. s = [i \in 1..n |-> CHOOSE m \in MemberSet(members) : Place(m.name, members) = i - 1]
  BY <1>1, <1>2 DEF Sorted
<1>4. ASSUME NEW i \in 1..n PROVE s[i] \in MemberSet(members) /\ Rank(s[i].name, Names(members)) = i - 1
  <2>1. i - 1 \in 0..(Cardinality(Names(members)) - 1)
    <3>1. Cardinality(Names(members)) = n
      BY NamesAre
    <3>2. i - 1 \in 0..(n - 1)
      BY <1>1
    <3>. QED
      BY <3>1, <3>2
  <2>2. \E x \in Names(members) : Rank(x, Names(members)) = i - 1
    BY <2>1, NamesAre, RankTaken
  <2>3. \E m \in MemberSet(members) : Place(m.name, members) = i - 1
    BY <2>2, EntriesAre, PlaceIs
  <2>4. s[i] = CHOOSE m \in MemberSet(members) : Place(m.name, members) = i - 1
    BY <1>3
  <2>5. s[i] \in MemberSet(members) /\ Place(s[i].name, members) = i - 1
    BY <2>3, <2>4
  <2>. QED
    BY <2>5, PlaceIs
<1>5. \A m \in MemberSet(members) : m \in [name : Seq(Chars), of : inner]
  BY EntriesAre
<1>6. s \in Seq([name : Seq(Chars), of : inner]) /\ Len(s) = n /\ DOMAIN s = 1..n
  <2>1. PICK R : R = [name : Seq(Chars), of : inner]
    OBVIOUS
  <2>2. s \in [1..n -> R]
    BY <1>3, <1>4, <1>5, <2>1
  <2>3. s \in Seq(R) /\ Len(s) = n /\ DOMAIN s = 1..n
    <3>. HIDE DEF n
    <3>. QED
      BY <1>1, <2>2
  <2>. QED
    BY <2>1, <2>3
<1>7. MemberSet(s) \subseteq MemberSet(members)
  BY <1>4, <1>6 DEF MemberSet
<1>8. ASSUME NEW m \in MemberSet(members) PROVE m \in MemberSet(s)
  <2>1. m.name \in Names(members) /\ Cardinality(Names(members)) = n
    BY EntriesAre, NamesAre
  <2>2. PICK k : k = Rank(m.name, Names(members))
    OBVIOUS
  <2>3. k \in 0..(n - 1)
    BY <2>1, <2>2, NamesAre, RankIs
  <2>4. k + 1 \in 1..n /\ (k + 1) - 1 = k
    BY <1>1, <2>3
  <2>5. s[k + 1] \in MemberSet(members) /\ Rank(s[k + 1].name, Names(members)) = k
    BY <1>4, <2>4
  <2>6. s[k + 1].name \in Names(members)
    BY <2>5, EntriesAre
  <2>7. s[k + 1].name = m.name
    BY <2>1, <2>2, <2>5, <2>6, NamesAre, RankIs
  <2>8. s[k + 1] = m
    BY <2>5, <2>7, EntriesAre
  <2>. QED
    BY <1>6, <2>4, <2>8 DEF MemberSet
<1>. QED
  BY <1>2, <1>4, <1>6, <1>7, <1>8

\* What is written of a number is its double, and an integer has one.
LEMMA AsDoubleIs ==
  ASSUME NEW v \in JsonNumbers
  PROVE  v.kind = "number" /\ AsDouble(v) \in Doubles /\ FormatNumber(v) = FormatDouble(AsDouble(v))
<1>1. FormatNumber(v) = FormatDouble(AsDouble(v))
  BY DEF FormatNumber
<1>2. CASE v \in Doubles
  <2>1. v.integer = FALSE /\ v.kind = "number"
    BY <1>2 DEF Doubles, Numerals
  <2>. QED
    BY <1>1, <1>2, <2>1 DEF AsDouble
<1>3. CASE v \in DOMAIN Nearest
  <2>1. v.integer = TRUE /\ v.kind = "number" /\ Nearest[v] \in Doubles
    BY <1>3, EncodingsAssumption DEF EncodingsAssumption, Numerals
  <2>. QED
    BY <1>1, <2>1 DEF AsDouble
<1>. QED
  BY <1>2, <1>3 DEF JsonNumbers

-----------------------------------------------------------------------------
(* Texts and meanings, by kind *)

LEMMA KindsDiffer ==
  /\ "word" # "number" /\ "word" # "string" /\ "word" # "array" /\ "word" # "object"
  /\ "number" # "string" /\ "number" # "array" /\ "number" # "object"
  /\ "string" # "array" /\ "string" # "object" /\ "array" # "object"
OBVIOUS

LEMMA TextOfIs ==
  ASSUME NEW v, NEW inner
  PROVE  /\ v.kind = "word" => TextOf(v, inner) = <<v.word>>
         /\ v.kind = "number" => TextOf(v, inner) = FormatNumber(v)
         /\ v.kind = "string" => TextOf(v, inner) = FormatString(v.chars)
         /\ v.kind = "array" =>
              TextOf(v, inner) =
                <<OpenBracket>> \o Joined([i \in DOMAIN v.items |-> inner[v.items[i]]]) \o <<CloseBracket>>
         /\ v.kind = "object" =>
              TextOf(v, inner) =
                <<Begin>> \o Joined([i \in DOMAIN Sorted(v.members) |->
                     FormatString(Sorted(v.members)[i].name) \o <<Colon>> \o inner[Sorted(v.members)[i].of]])
                \o <<End>>
<1>1. ASSUME v.kind = "word" PROVE TextOf(v, inner) = <<v.word>>
  BY <1>1, KindsDiffer, Zenon DEF TextOf
<1>2. ASSUME v.kind = "number" PROVE TextOf(v, inner) = FormatNumber(v)
  BY <1>2, KindsDiffer, Zenon DEF TextOf
<1>3. ASSUME v.kind = "string" PROVE TextOf(v, inner) = FormatString(v.chars)
  BY <1>3, KindsDiffer, Zenon DEF TextOf
<1>4. ASSUME v.kind = "array"
      PROVE  TextOf(v, inner) =
               <<OpenBracket>> \o Joined([i \in DOMAIN v.items |-> inner[v.items[i]]]) \o <<CloseBracket>>
  BY <1>4, KindsDiffer, Zenon DEF TextOf
<1>5. ASSUME v.kind = "object"
      PROVE  TextOf(v, inner) =
               <<Begin>> \o Joined([i \in DOMAIN Sorted(v.members) |->
                     FormatString(Sorted(v.members)[i].name) \o <<Colon>> \o inner[Sorted(v.members)[i].of]])
               \o <<End>>
  BY <1>5, KindsDiffer, Zenon DEF TextOf
<1>. QED
  BY <1>1, <1>2, <1>3, <1>4, <1>5

LEMMA MeaningOfIs ==
  ASSUME NEW v, NEW inner
  PROVE  /\ v.kind = "word" \/ v.kind = "string" => MeaningOf(v, inner) = v
         /\ v.kind = "number" /\ AsDouble(v).digits # <<>> => MeaningOf(v, inner) = AsDouble(v)
         /\ v.kind = "number" /\ AsDouble(v).digits = <<>> => MeaningOf(v, inner) = Number(FALSE, <<>>, 0)
         /\ v.kind = "array" =>
              MeaningOf(v, inner) =
                [kind |-> "array", items |-> [i \in DOMAIN v.items |-> inner[v.items[i]]]]
         /\ v.kind = "object" =>
              MeaningOf(v, inner) =
                [kind |-> "object", members |-> {<<m.name, inner[m.of]>> : m \in MemberSet(v.members)}]
<1>1. ASSUME v.kind = "word" \/ v.kind = "string" PROVE MeaningOf(v, inner) = v
  BY <1>1, KindsDiffer, Zenon DEF MeaningOf
<1>2. ASSUME v.kind = "number", AsDouble(v).digits # <<>> PROVE MeaningOf(v, inner) = AsDouble(v)
  BY <1>2, KindsDiffer, Zenon DEF MeaningOf
<1>3. ASSUME v.kind = "number", AsDouble(v).digits = <<>> PROVE MeaningOf(v, inner) = Number(FALSE, <<>>, 0)
  BY <1>3, KindsDiffer, Zenon DEF MeaningOf
<1>4. ASSUME v.kind = "array"
      PROVE  MeaningOf(v, inner) = [kind |-> "array", items |-> [i \in DOMAIN v.items |-> inner[v.items[i]]]]
  BY <1>4, KindsDiffer, Zenon DEF MeaningOf
<1>5. ASSUME v.kind = "object"
      PROVE  MeaningOf(v, inner) =
               [kind |-> "object", members |-> {<<m.name, inner[m.of]>> : m \in MemberSet(v.members)}]
  BY <1>5, KindsDiffer, Zenon DEF MeaningOf
<1>. QED
  BY <1>1, <1>2, <1>3, <1>4, <1>5


-----------------------------------------------------------------------------
(* Values by depth *)

Simple == JsonWords \cup JsonNumbers \cup JsonStrings
Built(inner) == JsonArrays(inner) \cup JsonObjects(inner)
NestedUp(count, g) ==
  g = [depth \in 0..count |->
         JsonWords \cup JsonNumbers \cup JsonStrings
         \cup IF depth = 0 THEN {} ELSE JsonArrays(g[depth - 1]) \cup JsonObjects(g[depth - 1])]
NestedOn(count, g) ==
  g[0] = Simple /\ \A i \in 1..count : g[i] = Simple \cup Built(g[i - 1])

LEMMA NestedUpAre ==
  ASSUME NEW count \in Nat, NEW g, NestedUp(count, g)
  PROVE  NestedOn(count, g)
<1>. DEFINE at(i) == Simple \cup IF i = 0 THEN {} ELSE Built(g[i - 1])
<1>1. g = [i \in 0..count |-> at(i)]
  BY Zenon DEF NestedUp, Simple, Built
<1>2. \A i \in 0..count : g[i] = at(i)
  <2>. HIDE DEF at
  <2>. QED
    BY <1>1
<1>3. 0 \in 0..count /\ \A i \in 1..count : i \in 0..count /\ i # 0
  OBVIOUS
<1>4. at(0) = Simple
  OBVIOUS
<1>5. \A i \in 1..count : at(i) = Simple \cup Built(g[i - 1])
  BY <1>3
<1>. HIDE DEF at
<1>. QED
  BY <1>2, <1>3, <1>4, <1>5 DEF NestedOn

LEMMA SomeNested ==
  ASSUME NEW count \in Nat
  PROVE  \E g : NestedUp(count, g)
<1>. DEFINE fine == {m \in Nat : \E g : NestedUp(m, g)}
<1>1. 0 \in fine
  <2>. DEFINE g == [i \in 0..0 |-> Simple]
  <2>1. g = [i \in 0..0 |-> Simple \cup IF i = 0 THEN {} ELSE Built(g[i - 1])]
    OBVIOUS
  <2>. HIDE DEF g
  <2>2. NestedUp(0, g)
    BY <2>1, Zenon DEF NestedUp, Simple, Built
  <2>. QED
    BY <2>2
<1>2. ASSUME NEW m \in Nat, m \in fine PROVE m + 1 \in fine
  <2>1. PICK g : NestedUp(m, g)
    BY <1>2
  <2>2. NestedOn(m, g)
    BY <2>1, NestedUpAre
  <2>. DEFINE last == Simple \cup Built(g[m])
              h == [i \in 0..(m + 1) |-> IF i <= m THEN g[i] ELSE last]
              next == [i \in 0..(m + 1) |-> Simple \cup IF i = 0 THEN {} ELSE Built(h[i - 1])]
  <2>3. ASSUME NEW i \in 0..(m + 1) PROVE h[i] = next[i]
    <3>1. CASE i = 0
      BY <2>2, <3>1 DEF NestedOn
    <3>2. CASE i \in 1..m
      <4>1. i - 1 \in 0..(m + 1) /\ i - 1 <= m /\ i <= m /\ i # 0
        BY <3>2
      <4>2. h[i - 1] = g[i - 1] /\ h[i] = g[i] /\ next[i] = Simple \cup Built(h[i - 1])
        BY <4>1
      <4>3. g[i] = Simple \cup Built(g[i - 1])
        BY <2>2, <3>2 DEF NestedOn
      <4>. QED
        BY <4>2, <4>3
    <3>3. CASE i = m + 1
      <4>1. i - 1 = m /\ m \in 0..(m + 1) /\ m <= m /\ ~(i <= m) /\ i # 0
        BY <3>3
      <4>2. h[m] = g[m] /\ h[i] = last /\ next[i] = Simple \cup Built(h[m])
        BY <4>1
      <4>. QED
        BY <4>2
    <3>. QED
      BY <3>1, <3>2, <3>3
  <2>4. h = next
    <3>1. DOMAIN h = DOMAIN next /\ h = [i \in DOMAIN h |-> h[i]] /\ next = [i \in DOMAIN next |-> next[i]]
      OBVIOUS
    <3>. QED
      BY <2>3
  <2>5. h = [i \in 0..(m + 1) |-> Simple \cup IF i = 0 THEN {} ELSE Built(h[i - 1])]
    BY <2>4
  <2>. HIDE DEF h
  <2>6. m + 1 \in Nat
    OBVIOUS
  <2>7. NestedUp(m + 1, h)
    BY <2>5, Zenon DEF NestedUp, Simple, Built
  <2>. QED
    BY <2>6, <2>7
<1>3. \A n \in 1..count : n - 1 \in fine => n \in fine
  <2>1. ASSUME NEW n \in 1..count, n - 1 \in fine PROVE n \in fine
    <3>1. n - 1 \in Nat /\ (n - 1) + 1 = n
      OBVIOUS
    <3>. HIDE DEF fine
    <3>. QED
      BY <1>2, <2>1, <3>1
  <2>. QED
    BY <2>1
<1>4. count \in fine
  <2>. HIDE DEF fine
  <2>1. 0..count \subseteq fine
    BY <1>1, <1>3, UpToAll
  <2>. QED
    BY <2>1
<1>. QED
  BY <1>4

LEMMA DepthIs == Depth \in Nat /\ JsonValues \subseteq Nested[Depth]
BY EncodingsAssumption DEF EncodingsAssumption

LEMMA NestedIs == NestedOn(Depth, Nested)
<1>1. Nested = CHOOSE g : NestedUp(Depth, g)
  BY DEF Nested, NestedUp
<1>2. NestedUp(Depth, Nested)
  BY <1>1, DepthIs, SomeNested
<1>. QED
  BY <1>2, DepthIs, NestedUpAre

LEMMA ScalarsAre ==
  ASSUME NEW v \in Simple
  PROVE  v.kind = "word" \/ v.kind = "number" \/ v.kind = "string"
<1>1. CASE v \in JsonWords
  BY <1>1 DEF JsonWords
<1>2. CASE v \in JsonNumbers
  BY <1>2, AsDoubleIs
<1>3. CASE v \in JsonStrings
  BY <1>3 DEF JsonStrings
<1>. QED
  BY <1>1, <1>2, <1>3 DEF Simple

\* The text of a value that is made of no others does not depend on theirs.
LEMMA ScalarText ==
  ASSUME NEW v \in Nested[0], NEW f, NEW g
  PROVE  TextOf(v, f) = TextOf(v, g)
<1>1. v \in Simple
  BY NestedIs DEF NestedOn
<1>. QED
  BY <1>1, ScalarsAre, TextOfIs

TextsUp(count, g) == g = [depth \in 0..count |-> [v \in Nested[depth] |-> TextOf(v, g[depth - 1])]]
TextsOn(count, g) ==
  \A i \in 0..count :
    /\ g[i] = [v \in Nested[i] |-> g[i][v]]
    /\ \A v \in Nested[i] : g[i][v] = TextOf(v, g[i - 1])

LEMMA TextsUpAre ==
  ASSUME NEW count \in Nat, NEW g, TextsUp(count, g)
  PROVE  /\ TextsOn(count, g)
         /\ \A i \in 0..count : g[i] = [v \in Nested[i] |-> TextOf(v, g[i - 1])]
<1>. DEFINE at(i) == [v \in Nested[i] |-> TextOf(v, g[i - 1])]
<1>1. g = [i \in 0..count |-> at(i)]
  BY Zenon DEF TextsUp
<1>2. \A i \in 0..count : g[i] = at(i)
  <2>. HIDE DEF at
  <2>. QED
    BY <1>1
<1>. QED
  BY <1>2 DEF TextsOn

LEMMA SomeTexts ==
  ASSUME NEW count \in Nat
  PROVE  \E g : TextsUp(count, g)
<1>. DEFINE fine == {m \in Nat : \E g : TextsUp(m, g)}
<1>1. 0 \in fine
  <2>. DEFINE g == [i \in 0..0 |-> [v \in Nested[0] |-> TextOf(v, <<>>)]]
              next == [i \in 0..0 |-> [v \in Nested[i] |-> TextOf(v, g[i - 1])]]
  <2>1. [v \in Nested[0] |-> TextOf(v, <<>>)] = [v \in Nested[0] |-> TextOf(v, g[0 - 1])]
    <3>. HIDE DEF g
    <3>1. \A v \in Nested[0] : TextOf(v, <<>>) = TextOf(v, g[0 - 1])
      BY ScalarText
    <3>. QED
      BY <3>1
  <2>2. \A i \in 0..0 : g[i] = next[i]
    <3>1. SUFFICES ASSUME NEW i \in 0..0 PROVE g[i] = next[i]
      OBVIOUS
    <3>2. i = 0
      OBVIOUS
    <3>. QED
      BY <2>1, <3>2
  <2>3. g = next
    <3>1. DOMAIN g = DOMAIN next /\ g = [i \in DOMAIN g |-> g[i]] /\ next = [i \in DOMAIN next |-> next[i]]
      OBVIOUS
    <3>2. DOMAIN g = 0..0
      OBVIOUS
    <3>. QED
      BY <2>2, <3>1, <3>2
  <2>4. g = [i \in 0..0 |-> [v \in Nested[i] |-> TextOf(v, g[i - 1])]]
    BY <2>3
  <2>. HIDE DEF g
  <2>5. TextsUp(0, g)
    BY <2>4, Zenon DEF TextsUp
  <2>. QED
    BY <2>5
<1>2. ASSUME NEW m \in Nat, m \in fine PROVE m + 1 \in fine
  <2>1. PICK g : TextsUp(m, g)
    BY <1>2
  <2>2. \A i \in 0..m : g[i] = [v \in Nested[i] |-> TextOf(v, g[i - 1])]
    BY <2>1, TextsUpAre
  <2>. DEFINE last == [v \in Nested[m + 1] |-> TextOf(v, g[m])]
              h == [i \in 0..(m + 1) |-> IF i <= m THEN g[i] ELSE last]
              next == [i \in 0..(m + 1) |-> [v \in Nested[i] |-> TextOf(v, h[i - 1])]]
  <2>3. ASSUME NEW i \in 0..(m + 1) PROVE h[i] = next[i]
    <3>0. next[i] = [v \in Nested[i] |-> TextOf(v, h[i - 1])]
      <4>. HIDE DEF h
      <4>. QED
        OBVIOUS
    <3>1. CASE i = 0
      <4>1. h[0] = g[0] /\ g[0] = [v \in Nested[0] |-> TextOf(v, g[0 - 1])]
        BY <2>2
      <4>. HIDE DEF h, next
      <4>2. \A v \in Nested[0] : TextOf(v, g[0 - 1]) = TextOf(v, h[0 - 1])
        BY ScalarText
      <4>3. [v \in Nested[0] |-> TextOf(v, g[0 - 1])] = [v \in Nested[0] |-> TextOf(v, h[0 - 1])]
        BY <4>2
      <4>. QED
        BY <3>0, <3>1, <4>1, <4>3
    <3>2. CASE i \in 1..m
      <4>1. i - 1 \in 0..(m + 1) /\ i - 1 <= m /\ i <= m
        BY <3>2
      <4>2. h[i - 1] = g[i - 1] /\ h[i] = g[i]
        BY <4>1
      <4>3. g[i] = [v \in Nested[i] |-> TextOf(v, g[i - 1])]
        BY <2>2, <3>2
      <4>. HIDE DEF h, next
      <4>. QED
        BY <3>0, <4>2, <4>3, Zenon
    <3>3. CASE i = m + 1
      <4>1. i - 1 = m /\ m \in 0..(m + 1) /\ m <= m /\ ~(i <= m)
        BY <3>3
      <4>2. h[m] = g[m] /\ h[i] = last
        BY <4>1
      <4>. HIDE DEF h, next
      <4>. QED
        BY <3>0, <3>3, <4>1, <4>2
    <3>. QED
      BY <3>1, <3>2, <3>3
  <2>4. h = next
    <3>1. DOMAIN h = DOMAIN next /\ h = [i \in DOMAIN h |-> h[i]] /\ next = [i \in DOMAIN next |-> next[i]]
      OBVIOUS
    <3>2. DOMAIN h = 0..(m + 1)
      OBVIOUS
    <3>. HIDE DEF h, next
    <3>. QED
      BY <2>3, <3>1, <3>2
  <2>5. h = [i \in 0..(m + 1) |-> [v \in Nested[i] |-> TextOf(v, h[i - 1])]]
    BY <2>4
  <2>. HIDE DEF h
  <2>6. m + 1 \in Nat
    OBVIOUS
  <2>7. TextsUp(m + 1, h)
    BY <2>5, Zenon DEF TextsUp
  <2>. QED
    BY <2>6, <2>7
<1>3. \A n \in 1..count : n - 1 \in fine => n \in fine
  <2>1. ASSUME NEW n \in 1..count, n - 1 \in fine PROVE n \in fine
    <3>1. n - 1 \in Nat /\ (n - 1) + 1 = n
      OBVIOUS
    <3>. HIDE DEF fine
    <3>. QED
      BY <1>2, <2>1, <3>1
  <2>. QED
    BY <2>1
<1>4. count \in fine
  <2>. HIDE DEF fine
  <2>1. 0..count \subseteq fine
    BY <1>1, <1>3, UpToAll
  <2>. QED
    BY <2>1
<1>. QED
  BY <1>4

LEMMA TextsAre == TextsOn(Depth, Texts)
<1>1. Texts = CHOOSE g : TextsUp(Depth, g)
  BY DEF Texts, TextsUp
<1>2. TextsUp(Depth, Texts)
  BY <1>1, DepthIs, SomeTexts
<1>. QED
  BY <1>2, DepthIs, TextsUpAre

\* Nor does its meaning.
LEMMA ScalarMeaning ==
  ASSUME NEW v \in Nested[0], NEW f, NEW g
  PROVE  MeaningOf(v, f) = MeaningOf(v, g)
<1>1. v \in Simple
  BY NestedIs DEF NestedOn
<1>. QED
  BY <1>1, ScalarsAre, MeaningOfIs

MeaningsUp(count, g) == g = [depth \in 0..count |-> [v \in Nested[depth] |-> MeaningOf(v, g[depth - 1])]]
MeaningsOn(count, g) ==
  \A i \in 0..count :
    /\ g[i] = [v \in Nested[i] |-> g[i][v]]
    /\ \A v \in Nested[i] : g[i][v] = MeaningOf(v, g[i - 1])

LEMMA MeaningsUpAre ==
  ASSUME NEW count \in Nat, NEW g, MeaningsUp(count, g)
  PROVE  /\ MeaningsOn(count, g)
         /\ \A i \in 0..count : g[i] = [v \in Nested[i] |-> MeaningOf(v, g[i - 1])]
<1>. DEFINE at(i) == [v \in Nested[i] |-> MeaningOf(v, g[i - 1])]
<1>1. g = [i \in 0..count |-> at(i)]
  BY Zenon DEF MeaningsUp
<1>2. \A i \in 0..count : g[i] = at(i)
  <2>. HIDE DEF at
  <2>. QED
    BY <1>1
<1>. QED
  BY <1>2 DEF MeaningsOn

LEMMA SomeMeanings ==
  ASSUME NEW count \in Nat
  PROVE  \E g : MeaningsUp(count, g)
<1>. DEFINE fine == {m \in Nat : \E g : MeaningsUp(m, g)}
<1>1. 0 \in fine
  <2>. DEFINE g == [i \in 0..0 |-> [v \in Nested[0] |-> MeaningOf(v, <<>>)]]
              next == [i \in 0..0 |-> [v \in Nested[i] |-> MeaningOf(v, g[i - 1])]]
  <2>1. [v \in Nested[0] |-> MeaningOf(v, <<>>)] = [v \in Nested[0] |-> MeaningOf(v, g[0 - 1])]
    <3>. HIDE DEF g
    <3>1. \A v \in Nested[0] : MeaningOf(v, <<>>) = MeaningOf(v, g[0 - 1])
      BY ScalarMeaning
    <3>. QED
      BY <3>1
  <2>2. \A i \in 0..0 : g[i] = next[i]
    <3>1. SUFFICES ASSUME NEW i \in 0..0 PROVE g[i] = next[i]
      OBVIOUS
    <3>2. i = 0
      OBVIOUS
    <3>. QED
      BY <2>1, <3>2
  <2>3. g = next
    <3>1. DOMAIN g = DOMAIN next /\ g = [i \in DOMAIN g |-> g[i]] /\ next = [i \in DOMAIN next |-> next[i]]
      OBVIOUS
    <3>2. DOMAIN g = 0..0
      OBVIOUS
    <3>. QED
      BY <2>2, <3>1, <3>2
  <2>4. g = [i \in 0..0 |-> [v \in Nested[i] |-> MeaningOf(v, g[i - 1])]]
    BY <2>3
  <2>. HIDE DEF g
  <2>5. MeaningsUp(0, g)
    BY <2>4, Zenon DEF MeaningsUp
  <2>. QED
    BY <2>5
<1>2. ASSUME NEW m \in Nat, m \in fine PROVE m + 1 \in fine
  <2>1. PICK g : MeaningsUp(m, g)
    BY <1>2
  <2>2. \A i \in 0..m : g[i] = [v \in Nested[i] |-> MeaningOf(v, g[i - 1])]
    BY <2>1, MeaningsUpAre
  <2>. DEFINE last == [v \in Nested[m + 1] |-> MeaningOf(v, g[m])]
              h == [i \in 0..(m + 1) |-> IF i <= m THEN g[i] ELSE last]
              next == [i \in 0..(m + 1) |-> [v \in Nested[i] |-> MeaningOf(v, h[i - 1])]]
  <2>3. ASSUME NEW i \in 0..(m + 1) PROVE h[i] = next[i]
    <3>0. next[i] = [v \in Nested[i] |-> MeaningOf(v, h[i - 1])]
      <4>. HIDE DEF h
      <4>. QED
        OBVIOUS
    <3>1. CASE i = 0
      <4>1. h[0] = g[0] /\ g[0] = [v \in Nested[0] |-> MeaningOf(v, g[0 - 1])]
        BY <2>2
      <4>. HIDE DEF h, next
      <4>2. \A v \in Nested[0] : MeaningOf(v, g[0 - 1]) = MeaningOf(v, h[0 - 1])
        BY ScalarMeaning
      <4>3. [v \in Nested[0] |-> MeaningOf(v, g[0 - 1])] = [v \in Nested[0] |-> MeaningOf(v, h[0 - 1])]
        BY <4>2
      <4>. QED
        BY <3>0, <3>1, <4>1, <4>3
    <3>2. CASE i \in 1..m
      <4>1. i - 1 \in 0..(m + 1) /\ i - 1 <= m /\ i <= m
        BY <3>2
      <4>2. h[i - 1] = g[i - 1] /\ h[i] = g[i]
        BY <4>1
      <4>3. g[i] = [v \in Nested[i] |-> MeaningOf(v, g[i - 1])]
        BY <2>2, <3>2
      <4>. HIDE DEF h, next
      <4>. QED
        BY <3>0, <4>2, <4>3, Zenon
    <3>3. CASE i = m + 1
      <4>1. i - 1 = m /\ m \in 0..(m + 1) /\ m <= m /\ ~(i <= m)
        BY <3>3
      <4>2. h[m] = g[m] /\ h[i] = last
        BY <4>1
      <4>. HIDE DEF h, next
      <4>. QED
        BY <3>0, <3>3, <4>1, <4>2
    <3>. QED
      BY <3>1, <3>2, <3>3
  <2>4. h = next
    <3>1. DOMAIN h = DOMAIN next /\ h = [i \in DOMAIN h |-> h[i]] /\ next = [i \in DOMAIN next |-> next[i]]
      OBVIOUS
    <3>2. DOMAIN h = 0..(m + 1)
      OBVIOUS
    <3>. HIDE DEF h, next
    <3>. QED
      BY <2>3, <3>1, <3>2
  <2>5. h = [i \in 0..(m + 1) |-> [v \in Nested[i] |-> MeaningOf(v, h[i - 1])]]
    BY <2>4
  <2>. HIDE DEF h
  <2>6. m + 1 \in Nat
    OBVIOUS
  <2>7. MeaningsUp(m + 1, h)
    BY <2>5, Zenon DEF MeaningsUp
  <2>. QED
    BY <2>6, <2>7
<1>3. \A n \in 1..count : n - 1 \in fine => n \in fine
  <2>1. ASSUME NEW n \in 1..count, n - 1 \in fine PROVE n \in fine
    <3>1. n - 1 \in Nat /\ (n - 1) + 1 = n
      OBVIOUS
    <3>. HIDE DEF fine
    <3>. QED
      BY <1>2, <2>1, <3>1
  <2>. QED
    BY <2>1
<1>4. count \in fine
  <2>. HIDE DEF fine
  <2>1. 0..count \subseteq fine
    BY <1>1, <1>3, UpToAll
  <2>. QED
    BY <2>1
<1>. QED
  BY <1>4

LEMMA MeaningsAre == MeaningsOn(Depth, Meanings)
<1>1. Meanings = CHOOSE g : MeaningsUp(Depth, g)
  BY DEF Meanings, MeaningsUp
<1>2. MeaningsUp(Depth, Meanings)
  BY <1>1, DepthIs, SomeMeanings
<1>. QED
  BY <1>2, DepthIs, MeaningsUpAre

-----------------------------------------------------------------------------
(* Texts joined by commas, between brackets *)

\* The texts of the elements of a sequence, joined.
JoinedOf(f, s) == Joined([i \in DOMAIN s |-> f[s[i]]])
Led(A, f) == [a \in A |-> Front(Comma, f[a])]

LEMMA LedIs ==
  ASSUME NEW A, NEW f, Texted(A, f)
  PROVE  Texted(A, Led(A, f)) /\ \A a \in A : Led(A, f)[a] = Front(Comma, f[a])
<1>1. Comma \in Tokens
  BY DEF Comma, Tokens
<1>2. \A a \in A : Front(Comma, f[a]) \in Seq(Tokens)
  BY <1>1, TextedIs, TokensFront
<1>. QED
  BY <1>2 DEF Led, Texted

LEMMA JoinedNone == \A f : JoinedOf(f, <<>>) = <<>>
<1>1. SUFFICES ASSUME NEW f PROVE JoinedOf(f, <<>>) = <<>>
  OBVIOUS
<1>2. [i \in DOMAIN <<>> |-> f[<<>>[i]]] = <<>>
  OBVIOUS
<1>3. Joined(<<>>) = <<>>
  <2>1. [i \in DOMAIN <<>> |-> IF i = 1 THEN <<>>[i] ELSE <<Comma>> \o <<>>[i]] = <<>>
    OBVIOUS
  <2>. QED
    BY <2>1, ChainedNone DEF Joined
<1>. QED
  BY <1>2, <1>3 DEF JoinedOf

LEMMA JoinedFront ==
  ASSUME NEW A, NEW f, Texted(A, f), NEW a \in A, NEW s \in Seq(A)
  PROVE  JoinedOf(f, Front(a, s)) = Then(f[a], Coded(Led(A, f), s))
<1>1. PICK x : x = Front(a, s)
  OBVIOUS
<1>2. PICK n \in Nat : n = Len(s)
  BY LenProperties
<1>3. x \in Seq(A) /\ Len(x) = n + 1 /\ x[1] = a /\ DOMAIN x = 1..(n + 1)
  <2>1. x \in Seq(A) /\ Len(x) = n + 1 /\ x[1] = a
    BY <1>1, <1>2, FrontType
  <2>. QED
    BY <2>1, LenProperties
<1>4. \A i \in 1..n : x[i + 1] = s[i]
  BY <1>1, <1>2, FrontRest
<1>5. PICK y : y = [i \in DOMAIN x |-> f[x[i]]]
  OBVIOUS
<1>6. DOMAIN y = 1..(n + 1) /\ \A i \in 1..(n + 1) : y[i] = f[x[i]]
  BY <1>3, <1>5
<1>7. PICK z : z = [i \in DOMAIN y |-> IF i = 1 THEN y[i] ELSE <<Comma>> \o y[i]]
  OBVIOUS
<1>8. JoinedOf(f, Front(a, s)) = Chained(z)
  BY <1>1, <1>5, <1>7 DEF JoinedOf, Joined
<1>9. PICK q : q = [i \in DOMAIN s |-> Led(A, f)[s[i]]]
  OBVIOUS
<1>10. q \in Seq(Seq(Tokens)) /\ Len(q) = n
  <2>1. PICK g : g = Led(A, f)
    OBVIOUS
  <2>2. PICK B : B = Seq(Tokens)
    OBVIOUS
  <2>3. g \in [A -> B]
    BY <2>1, <2>2, LedIs DEF Texted
  <2>4. [i \in DOMAIN s |-> g[s[i]]] \in Seq(B) /\ Len([i \in DOMAIN s |-> g[s[i]]]) = Len(s)
    BY <2>3, MappedIs
  <2>. QED
    BY <1>2, <1>9, <2>1, <2>2, <2>4
<1>11. DOMAIN s = 1..n /\ \A i \in 1..n : s[i] \in A
  BY <1>2, LenProperties, ElementOfSeq
<1>12. \A i \in 1..n : q[i] = Front(Comma, f[s[i]])
  BY <1>9, <1>11, LedIs
<1>13. f[a] \in Seq(Tokens)
  BY TextedIs
<1>14. PICK m : m = Front(f[a], q)
  OBVIOUS
<1>15. m \in Seq(Seq(Tokens)) /\ Len(m) = n + 1 /\ m[1] = f[a]
  BY <1>10, <1>13, <1>14, FrontType
<1>16. \A i \in 1..n : m[i + 1] = q[i]
  <2>1. \A i \in 1..Len(q) : Front(f[a], q)[i + 1] = q[i]
    BY <1>10, <1>13, FrontRest
  <2>. QED
    BY <1>10, <1>14, <2>1
<1>17. DOMAIN z = 1..(n + 1) /\ z[1] = f[a] /\ \A i \in 1..(n + 1) : i # 1 => z[i] = Front(Comma, f[x[i]])
  <2>1. 1 \in 1..(n + 1)
    OBVIOUS
  <2>2. DOMAIN z = 1..(n + 1) /\ \A i \in 1..(n + 1) : z[i] = IF i = 1 THEN y[i] ELSE <<Comma>> \o y[i]
    BY <1>6, <1>7
  <2>3. z[1] = f[a]
    BY <1>3, <1>6, <2>1, <2>2
  <2>4. \A i \in 1..(n + 1) : i # 1 => z[i] = <<Comma>> \o f[x[i]]
    BY <1>6, <2>2
  <2>. QED
    BY <2>2, <2>3, <2>4 DEF Front
<1>18. ASSUME NEW i \in 1..(n + 1) PROVE z[i] = m[i]
  <2>1. CASE i = 1
    BY <1>15, <1>17, <2>1
  <2>2. CASE i # 1
    <3>1. PICK j : j = i - 1
      OBVIOUS
    <3>2. j \in 1..n /\ i = j + 1
      BY <2>2, <3>1
    <3>3. z[i] = Front(Comma, f[s[j]])
      BY <1>4, <1>17, <2>2, <3>2
    <3>4. m[i] = Front(Comma, f[s[j]])
      BY <1>12, <1>16, <3>2
    <3>. QED
      BY <3>3, <3>4
  <2>. QED
    BY <2>1, <2>2
<1>19. z = m
  <2>1. DOMAIN m = 1..(n + 1) /\ \A i \in 1..(n + 1) : m[i] \in Seq(Tokens)
    BY <1>15, LenProperties, ElementOfSeq
  <2>2. z = [i \in DOMAIN z |-> z[i]] /\ m = [i \in DOMAIN m |-> m[i]]
    <3>1. z = [i \in DOMAIN z |-> z[i]]
      BY <1>7
    <3>2. m = [i \in 1..(n + 1) |-> m[i]]
      <4>1. m \in [1..(n + 1) -> Seq(Tokens)]
        BY <1>15, LenProperties
      <4>. QED
        BY <4>1
    <3>. QED
      BY <2>1, <3>1, <3>2
  <2>. QED
    BY <1>17, <1>18, <2>1, <2>2
<1>20. Chained(m) = Then(f[a], Chained(q))
  BY <1>10, <1>13, <1>14, ChainedFront DEF Front, Then
<1>. QED
  BY <1>8, <1>9, <1>19, <1>20 DEF Coded

LEMMA JoinedType ==
  ASSUME NEW A, NEW f, Texted(A, f), NEW s \in Seq(A)
  PROVE  JoinedOf(f, s) \in Seq(Tokens)
<1>1. CASE s = <<>>
  BY <1>1, JoinedNone, EmptySeq
<1>2. ASSUME NEW a \in A, NEW t \in Seq(A), s = Front(a, t) PROVE JoinedOf(f, s) \in Seq(Tokens)
  <2>1. JoinedOf(f, s) = Then(f[a], Coded(Led(A, f), t))
    BY <1>2, JoinedFront
  <2>2. f[a] \in Seq(Tokens) /\ Coded(Led(A, f), t) \in Seq(Tokens)
    BY TextedIs, LedIs, CodedType
  <2>. QED
    BY <2>1, <2>2, TokensThen
<1>. QED
  BY <1>1, <1>2, NothingOrFront

\* No text of an element can be taken for what follows a value.
Opens(A, f) == \A a \in A, r \in Seq(Tokens) : Then(f[a], r) \notin Rests
Closers == {CloseBracket, End}
CloseThen(c) == {Front(c, r) : r \in Seq(Tokens)}

LEMMA ClosersAre ==
  ASSUME NEW c \in Closers
  PROVE  /\ c \in Tokens /\ c # Comma /\ CloseThen(c) \subseteq Rests
         /\ \A r \in Seq(Tokens) : Front(c, r) \in CloseThen(c)
<1>1. c \in Tokens /\ c # Comma
  BY DEF Closers, CloseBracket, End, Comma, Tokens
<1>2. \A r \in Seq(Tokens) : Front(c, r) \in Rests
  BY RestsAre DEF Closers
<1>. QED
  BY <1>1, <1>2 DEF CloseThen

LEMMA LedTells ==
  ASSUME NEW A, NEW f, NEW mean, Texted(A, f), Tells(A, f, mean, Rests), NEW c \in Closers
  PROVE  Readable(A, Led(A, f), mean, Rests, CloseThen(c))
<1>1. Comma \in Tokens
  BY DEF Comma, Tokens
<1>2. \A a \in A, r \in Seq(Tokens) :
        Then(Led(A, f)[a], r) = Front(Comma, Then(f[a], r)) /\ Then(f[a], r) \in Seq(Tokens)
  <2>1. SUFFICES ASSUME NEW a \in A, NEW r \in Seq(Tokens)
                 PROVE  Then(Led(A, f)[a], r) = Front(Comma, Then(f[a], r)) /\ Then(f[a], r) \in Seq(Tokens)
    OBVIOUS
  <2>2. Led(A, f)[a] = Front(Comma, f[a]) /\ f[a] \in Seq(Tokens)
    BY LedIs, TextedIs
  <2>3. Then(Front(Comma, f[a]), r) = Front(Comma, Then(f[a], r)) /\ Then(f[a], r) \in Seq(Tokens)
    <3>1. PICK x \in Seq(Tokens) : x = f[a]
      BY <2>2
    <3>2. Then(Front(Comma, x), r) = Front(Comma, Then(x, r)) /\ Then(x, r) \in Seq(Tokens)
      BY <1>1, TokensFront, TokensThen
    <3>. QED
      BY <3>1, <3>2
  <2>. QED
    BY <2>2, <2>3
<1>3. Tells(A, Led(A, f), mean, Rests)
  <2>1. ASSUME NEW a \in A, NEW b \in A, NEW r \in Rests, NEW u \in Rests,
               Then(Led(A, f)[a], r) = Then(Led(A, f)[b], u)
        PROVE  mean[a] = mean[b] /\ r = u
    <3>1. r \in Seq(Tokens) /\ u \in Seq(Tokens)
      BY RestsAre
    <3>2. Front(Comma, Then(f[a], r)) = Front(Comma, Then(f[b], u))
      BY <1>2, <2>1, <3>1
    <3>3. Then(f[a], r) = Then(f[b], u)
      <4>1. Then(f[a], r) \in Seq(Tokens) /\ Then(f[b], u) \in Seq(Tokens)
        BY <1>2, <3>1
      <4>. QED
        BY <1>1, <3>2, <4>1, TokensFront
    <3>. QED
      BY <3>3 DEF Tells
  <2>. QED
    BY <2>1 DEF Tells
<1>4. Continues(A, Led(A, f), Rests, CloseThen(c))
  <2>1. ASSUME NEW a \in A, NEW r \in Rests
        PROVE  Then(Led(A, f)[a], r) \in Rests /\ Then(Led(A, f)[a], r) \notin CloseThen(c)
    <3>1. r \in Seq(Tokens)
      BY RestsAre
    <3>2. Then(Led(A, f)[a], r) = Front(Comma, Then(f[a], r)) /\ Then(f[a], r) \in Seq(Tokens)
      BY <1>2, <3>1
    <3>3. Front(Comma, Then(f[a], r)) \in Rests
      BY <3>2, RestsAre
    <3>4. \A u \in Seq(Tokens) : Front(Comma, Then(f[a], r)) # Front(c, u)
      BY <1>1, <3>2, ClosersAre, TokensFront
    <3>. QED
      BY <3>2, <3>3, <3>4 DEF CloseThen
  <2>. QED
    BY <2>1 DEF Continues
<1>. QED
  BY <1>3, <1>4, LedIs, RestsAre, ClosersAre DEF Readable

\* What is joined is read back, up to the bracket that closes it.
LEMMA JoinedTells ==
  ASSUME NEW A, NEW f, NEW mean, Texted(A, f), Tells(A, f, mean, Rests), Opens(A, f),
         NEW c \in Closers, NEW s \in Seq(A), NEW t \in Seq(A), NEW r \in Seq(Tokens), NEW u \in Seq(Tokens),
         Then(JoinedOf(f, s), Front(c, r)) = Then(JoinedOf(f, t), Front(c, u))
  PROVE  Means(mean, s, t) /\ r = u
<1>0. c \in Tokens
  BY ClosersAre
<1>1. /\ Front(c, r) \in Seq(Tokens) /\ Front(c, u) \in Seq(Tokens)
      /\ Front(c, r) \in CloseThen(c) /\ Front(c, u) \in CloseThen(c)
      /\ Front(c, r) \in Rests /\ Front(c, u) \in Rests
  BY ClosersAre, RestsAre
<1>2. Readable(A, Led(A, f), mean, Rests, CloseThen(c)) /\ Texted(A, Led(A, f))
  BY LedTells, LedIs
<1>3. ASSUME NEW a \in A, NEW p \in Seq(A), NEW e \in CloseThen(c)
      PROVE  /\ Then(JoinedOf(f, Front(a, p)), e) = Then(f[a], CodedBefore(Led(A, f), p, e))
             /\ CodedBefore(Led(A, f), p, e) \in Rests
  <2>1. e \in Rests /\ e \in Seq(Tokens)
    BY ClosersAre, RestsAre
  <2>2. JoinedOf(f, Front(a, p)) = Then(f[a], Coded(Led(A, f), p))
    BY JoinedFront
  <2>3. f[a] \in Seq(Tokens) /\ Coded(Led(A, f), p) \in Seq(Tokens)
    BY <1>2, TextedIs, CodedType
  <2>4. Then(Then(f[a], Coded(Led(A, f), p)), e) = Then(f[a], Then(Coded(Led(A, f), p), e))
    BY <2>1, <2>3, TokensThen
  <2>5. CodedBefore(Led(A, f), p, e) \in Rests
    <3>1. /\ Continues(A, Led(A, f), Rests, CloseThen(c))
          /\ Rests \subseteq Seq(Tokens) /\ CloseThen(c) \subseteq Rests
      BY <1>2 DEF Readable
    <3>. QED
      BY <1>2, <3>1, CodedIsRest
  <2>. QED
    BY <2>2, <2>4, <2>5 DEF CodedBefore
<1>4. \A e \in Seq(Tokens) : Then(JoinedOf(f, <<>>), e) = e
  BY JoinedNone, TokensThen
<1>5. CASE s = <<>> /\ t = <<>>
  <2>1. Front(c, r) = Front(c, u)
    BY <1>1, <1>4, <1>5
  <2>2. r = u
    BY <1>0, <2>1, TokensFront
  <2>. QED
    BY <1>5, <2>2, EmptySeq DEF Means
<1>6. CASE s = <<>> /\ t # <<>>
  <2>1. PICK b \in A, q \in Seq(A) : t = Front(b, q)
    BY <1>6, NothingOrFront
  <2>2. Front(c, r) = Then(f[b], CodedBefore(Led(A, f), q, Front(c, u)))
    BY <1>1, <1>3, <1>4, <1>6, <2>1
  <2>3. CodedBefore(Led(A, f), q, Front(c, u)) \in Seq(Tokens)
    BY <1>1, <1>3, RestsAre
  <2>. QED
    BY <1>1, <2>2, <2>3 DEF Opens
<1>7. CASE s # <<>> /\ t = <<>>
  <2>1. PICK b \in A, q \in Seq(A) : s = Front(b, q)
    BY <1>7, NothingOrFront
  <2>2. Front(c, u) = Then(f[b], CodedBefore(Led(A, f), q, Front(c, r)))
    BY <1>1, <1>3, <1>4, <1>7, <2>1
  <2>3. CodedBefore(Led(A, f), q, Front(c, r)) \in Seq(Tokens)
    BY <1>1, <1>3, RestsAre
  <2>. QED
    BY <1>1, <2>2, <2>3 DEF Opens
<1>8. CASE s # <<>> /\ t # <<>>
  <2>1. PICK a \in A, p \in Seq(A) : s = Front(a, p)
    BY <1>8, NothingOrFront
  <2>2. PICK b \in A, q \in Seq(A) : t = Front(b, q)
    BY <1>8, NothingOrFront
  <2>3. /\ Then(JoinedOf(f, s), Front(c, r)) = Then(f[a], CodedBefore(Led(A, f), p, Front(c, r)))
        /\ CodedBefore(Led(A, f), p, Front(c, r)) \in Rests
    BY <1>1, <1>3, <2>1
  <2>4. /\ Then(JoinedOf(f, t), Front(c, u)) = Then(f[b], CodedBefore(Led(A, f), q, Front(c, u)))
        /\ CodedBefore(Led(A, f), q, Front(c, u)) \in Rests
    BY <1>1, <1>3, <2>2
  <2>5. mean[a] = mean[b] /\ CodedBefore(Led(A, f), p, Front(c, r)) = CodedBefore(Led(A, f), q, Front(c, u))
    <3>1. PICK x, y : x = CodedBefore(Led(A, f), p, Front(c, r)) /\ y = CodedBefore(Led(A, f), q, Front(c, u))
      OBVIOUS
    <3>2. Then(f[a], x) = Then(f[b], y) /\ x \in Rests /\ y \in Rests
      BY <2>3, <2>4, <3>1
    <3>3. mean[a] = mean[b] /\ x = y
      BY <3>2 DEF Tells
    <3>. QED
      BY <3>1, <3>3
  <2>6. Front(c, r) = Front(c, u) /\ Means(mean, p, q)
    BY <1>1, <1>2, <2>5, CodeTells
  <2>7. r = u
    BY <1>0, <2>6, TokensFront
  <2>. QED
    BY <2>1, <2>2, <2>5, <2>6, <2>7, MeansFront
<1>. QED
  BY <1>5, <1>6, <1>7, <1>8

LEMMA Bracketed ==
  ASSUME NEW o \in Tokens, NEW c \in Tokens, NEW t \in Seq(Tokens)
  PROVE  /\ <<o>> \o t \o <<c>> \in Seq(Tokens)
         /\ <<o>> \o t \o <<c>> = Front(o, Then(t, <<c>>)) /\ Then(t, <<c>>) \in Seq(Tokens)
         /\ \A r \in Seq(Tokens) : Then(<<o>> \o t \o <<c>>, r) = Front(o, Then(t, Front(c, r)))
<1>1. <<c>> \in Seq(Tokens) /\ Then(t, <<c>>) \in Seq(Tokens) /\ Front(o, Then(t, <<c>>)) \in Seq(Tokens)
  BY TokensFront, TokensThen
<1>2. <<o>> \o t \o <<c>> = Then(Front(o, t), <<c>>)
  BY Zenon DEF Then, Front
<1>3. Then(Front(o, t), <<c>>) = Front(o, Then(t, <<c>>))
  <2>1. PICK k \in Seq(Tokens) : k = <<c>>
    BY <1>1
  <2>2. Then(Front(o, t), k) = Front(o, Then(t, k))
    BY TokensFront
  <2>. QED
    BY <2>1, <2>2
<1>4. ASSUME NEW r \in Seq(Tokens) PROVE Then(Front(o, Then(t, <<c>>)), r) = Front(o, Then(t, Front(c, r)))
  <2>1. Then(Front(o, Then(t, <<c>>)), r) = Front(o, Then(Then(t, <<c>>), r))
    BY <1>1, TokensFront
  <2>2. Then(Then(t, <<c>>), r) = Then(t, Then(<<c>>, r))
    BY <1>1, TokensThen
  <2>3. Then(<<c>>, r) = Front(c, r)
    BY OneThen
  <2>. QED
    BY <2>1, <2>2, <2>3
<1>. QED
  BY <1>1, <1>2, <1>3, <1>4

-----------------------------------------------------------------------------
(* Values are read back from their texts, and have one text each *)

\* How the text of a value of a kind begins.
Opening(kind, c) ==
  \/ kind = "word" /\ c \in {Null, True, False}
  \/ kind = "number" /\ c \in 0..9 \cup {Minus}
  \/ kind = "string" /\ c = Quote
  \/ kind = "array" /\ c = OpenBracket
  \/ kind = "object" /\ c = Begin

LEMMA OpeningTells ==
  /\ \A k, c : Opening(k, c) => c \in Tokens /\ c \notin {Comma, CloseBracket, End}
  /\ \A k, l, c : Opening(k, c) /\ Opening(l, c) => k = l
<1>1. ASSUME NEW k, NEW c, Opening(k, c) PROVE c \in Tokens /\ c \notin {Comma, CloseBracket, End}
  BY <1>1 DEF Opening, Tokens, Null, True, False, Minus, Quote, OpenBracket, Begin, Comma, CloseBracket, End
<1>2. ASSUME NEW k, NEW l, NEW c, Opening(k, c), Opening(l, c) PROVE k = l
  BY <1>2 DEF Opening, Null, True, False, Minus, Quote, OpenBracket, Begin
<1>. QED
  BY <1>1, <1>2

OpensAs(kind, text) == \E c \in Tokens, s \in Seq(Tokens) : Opening(kind, c) /\ text = Front(c, s)

\* The values of a set are told apart by their texts exactly as by their meanings.
Reads(A, T, M) ==
  /\ Texted(A, T)
  /\ \A v \in A : OpensAs(v.kind, T[v])
  /\ Tells(A, T, M, Rests)
  /\ \A v, w \in A : M[v] = M[w] => T[v] = T[w]

LEMMA OpensAsIs ==
  ASSUME NEW kind, NEW text, OpensAs(kind, text), NEW r \in Seq(Tokens)
  PROVE  /\ text \in Seq(Tokens) /\ Then(text, r) \notin Rests
         /\ Opening(kind, Then(text, r)[1])
<1>1. PICK c \in Tokens, s \in Seq(Tokens) : Opening(kind, c) /\ text = Front(c, s)
  BY DEF OpensAs
<1>2. PICK y \in Seq(Tokens) : y = Then(s, r)
  BY TokensThen
<1>3. Front(c, s) \in Seq(Tokens) /\ Then(Front(c, s), r) = Front(c, Then(s, r))
  BY TokensFront
<1>4. text \in Seq(Tokens) /\ Then(text, r) = Front(c, y)
  BY <1>1, <1>2, <1>3
<1>5. Front(c, y)[1] = c /\ Front(c, y) # <<>>
  BY TokensFront
<1>6. c \notin {Comma, CloseBracket, End}
  BY <1>1, OpeningTells
<1>. QED
  BY <1>1, <1>4, <1>5, <1>6 DEF Rests

LEMMA ReadsOpens ==
  ASSUME NEW A, NEW T, NEW M, Reads(A, T, M)
  PROVE  Texted(A, T) /\ Tells(A, T, M, Rests) /\ Opens(A, T)
BY OpensAsIs DEF Reads, Opens

-----------------------------------------------------------------------------
(* Words, numbers and strings *)

LEMMA WordIs ==
  ASSUME NEW v \in JsonWords, NEW f
  PROVE  /\ v.kind = "word" /\ v = Literal(v.word) /\ v.word \in Tokens
         /\ TextOf(v, f) = Front(v.word, <<>>) /\ MeaningOf(v, f) = v
         /\ OpensAs("word", TextOf(v, f))
<1>1. v.kind = "word" /\ v = Literal(v.word) /\ v.word \in {Null, True, False}
  BY DEF JsonWords, Literal
<1>2. v.word \in Tokens
  BY <1>1 DEF Null, True, False, Tokens
<1>3. TextOf(v, f) = <<v.word>> /\ MeaningOf(v, f) = v
  BY <1>1, TextOfIs, MeaningOfIs
<1>4. <<v.word>> = Front(v.word, <<>>)
  <2>1. <<v.word>> \in Seq(Tokens)
    BY <1>2
  <2>2. Then(<<v.word>>, <<>>) = Front(v.word, <<>>) /\ Then(<<v.word>>, <<>>) = <<v.word>>
    BY <2>1, OneThen, TokensThen
  <2>. QED
    BY <2>2
<1>5. Opening("word", v.word) /\ <<>> \in Seq(Tokens)
  BY <1>1, EmptySeq DEF Opening
<1>. QED
  BY <1>1, <1>2, <1>3, <1>4, <1>5 DEF OpensAs

LEMMA NumberOpens ==
  ASSUME NEW v \in JsonNumbers, NEW f
  PROVE  /\ v.kind = "number" /\ TextOf(v, f) = FormatNumber(v)
         /\ OpensAs("number", TextOf(v, f))
<1>1. v.kind = "number" /\ TextOf(v, f) = FormatNumber(v)
  BY AsDoubleIs, TextOfIs
<1>2. FormatNumber(v) \in Seq(NumberTokens) /\ FormatNumber(v) # <<>> /\ FormatNumber(v)[1] \in 0..9 \cup {Minus}
  <2>1. PICK d \in Doubles : FormatNumber(v) = FormatDouble(d)
    BY AsDoubleIs
  <2>. QED
    BY <2>1, FormatDoubleIs
<1>3. PICK c \in NumberTokens, s \in Seq(NumberTokens) : FormatNumber(v) = Front(c, s)
  BY <1>2, NothingOrFront
<1>4. c \in Tokens /\ s \in Seq(Tokens)
  BY NumberTokensAre, WiderSequence
<1>5. FormatNumber(v)[1] = c
  BY <1>3, <1>4, TokensFront
<1>6. Opening("number", c)
  BY <1>2, <1>5 DEF Opening
<1>. QED
  BY <1>1, <1>3, <1>4, <1>6 DEF OpensAs

LEMMA StringIs ==
  ASSUME NEW v \in JsonStrings, NEW f
  PROVE  /\ v.kind = "string" /\ v = String(v.chars) /\ v.chars \in Seq(Chars)
         /\ TextOf(v, f) = FormatString(v.chars) /\ MeaningOf(v, f) = v
         /\ OpensAs("string", TextOf(v, f))
<1>1. v.kind = "string" /\ v = String(v.chars) /\ v.chars \in Seq(Chars)
  BY DEF JsonStrings, String
<1>2. TextOf(v, f) = FormatString(v.chars) /\ MeaningOf(v, f) = v
  BY <1>1, TextOfIs, MeaningOfIs
<1>3. <<>> \in Seq(Tokens) /\ Quote \in Tokens
  BY EmptySeq DEF Quote, Tokens
<1>4. /\ FormatString(v.chars) \in Seq(Tokens)
      /\ CodedBefore(Escapes, v.chars, Front(Quote, <<>>)) \in Seq(Tokens)
      /\ Then(FormatString(v.chars), <<>>) = Front(Quote, CodedBefore(Escapes, v.chars, Front(Quote, <<>>)))
  BY <1>1, <1>3, StringBefore
<1>5. Then(FormatString(v.chars), <<>>) = FormatString(v.chars)
  BY <1>4, TokensThen
<1>6. Opening("string", Quote)
  BY DEF Opening
<1>. QED
  BY <1>1, <1>2, <1>3, <1>4, <1>5, <1>6 DEF OpensAs

LEMMA WordsTell ==
  ASSUME NEW v \in JsonWords, NEW w \in JsonWords, NEW f, NEW g, NEW r \in Rests, NEW u \in Rests,
         Then(TextOf(v, f), r) = Then(TextOf(w, f), u)
  PROVE  MeaningOf(v, g) = MeaningOf(w, g) /\ r = u
<1>1. r \in Seq(Tokens) /\ u \in Seq(Tokens) /\ <<>> \in Seq(Tokens)
  BY RestsAre
<1>2. /\ v = Literal(v.word) /\ v.word \in Tokens /\ TextOf(v, f) = Front(v.word, <<>>) /\ MeaningOf(v, g) = v
      /\ w = Literal(w.word) /\ w.word \in Tokens /\ TextOf(w, f) = Front(w.word, <<>>) /\ MeaningOf(w, g) = w
  BY WordIs
<1>3. ASSUME NEW c \in Tokens, NEW e \in Seq(Tokens)
      PROVE  Then(Front(c, <<>>), e) = Front(c, e)
  <2>1. PICK n \in Seq(Tokens) : n = <<>>
    BY <1>1
  <2>2. Then(Front(c, n), e) = Front(c, Then(n, e))
    BY TokensFront
  <2>3. Then(n, e) = e
    BY <2>1, TokensThen
  <2>. QED
    BY <2>1, <2>2, <2>3
<1>4. PICK x \in Tokens, y \in Tokens : x = v.word /\ y = w.word
  BY <1>2
<1>5. Front(x, r) = Front(y, u)
  BY <1>1, <1>2, <1>3, <1>4
<1>6. x = y /\ r = u
  BY <1>1, <1>5, TokensFront
<1>. QED
  BY <1>2, <1>4, <1>6

LEMMA NumbersTell ==
  ASSUME NEW v \in JsonNumbers, NEW w \in JsonNumbers, NEW f, NEW g, NEW r \in Rests, NEW u \in Rests,
         Then(TextOf(v, f), r) = Then(TextOf(w, f), u)
  PROVE  MeaningOf(v, g) = MeaningOf(w, g) /\ r = u
<1>1. PICK d \in Doubles : d = AsDouble(v) /\ FormatNumber(v) = FormatDouble(d)
  BY AsDoubleIs
<1>2. PICK e \in Doubles : e = AsDouble(w) /\ FormatNumber(w) = FormatDouble(e)
  BY AsDoubleIs
<1>3. Then(FormatDouble(d), r) = Then(FormatDouble(e), u)
  BY <1>1, <1>2, NumberOpens
<1>4. FormatDouble(d) = FormatDouble(e) /\ r = u
  BY <1>3, DoubleTells
<1>5. (d.digits = <<>> /\ e.digits = <<>>) \/ d = e
  BY <1>4, FormatDoubleTells
<1>6. v.kind = "number" /\ w.kind = "number"
  BY AsDoubleIs
<1>. QED
  BY <1>1, <1>2, <1>4, <1>5, <1>6, MeaningOfIs

LEMMA StringsTell ==
  ASSUME NEW v \in JsonStrings, NEW w \in JsonStrings, NEW f, NEW g, NEW r \in Rests, NEW u \in Rests,
         Then(TextOf(v, f), r) = Then(TextOf(w, f), u)
  PROVE  MeaningOf(v, g) = MeaningOf(w, g) /\ r = u
<1>1. r \in Seq(Tokens) /\ u \in Seq(Tokens)
  BY RestsAre
<1>2. /\ v = String(v.chars) /\ v.chars \in Seq(Chars) /\ MeaningOf(v, g) = v
      /\ w = String(w.chars) /\ w.chars \in Seq(Chars) /\ MeaningOf(w, g) = w
      /\ Then(FormatString(v.chars), r) = Then(FormatString(w.chars), u)
  BY StringIs
<1>3. v.chars = w.chars /\ r = u
  BY <1>1, <1>2, StringTells
<1>. QED
  BY <1>2, <1>3

\* The other way round.
LEMMA NumbersHaveOneText ==
  ASSUME NEW v \in JsonNumbers, NEW w \in JsonNumbers, NEW f, NEW g, MeaningOf(v, g) = MeaningOf(w, g)
  PROVE  TextOf(v, f) = TextOf(w, f)
<1>1. PICK d \in Doubles : d = AsDouble(v) /\ FormatNumber(v) = FormatDouble(d)
  BY AsDoubleIs
<1>2. PICK e \in Doubles : e = AsDouble(w) /\ FormatNumber(w) = FormatDouble(e)
  BY AsDoubleIs
<1>3. /\ v.kind = "number" /\ w.kind = "number"
      /\ TextOf(v, f) = FormatDouble(d) /\ TextOf(w, f) = FormatDouble(e)
  BY <1>1, <1>2, NumberOpens
<1>4. \A x \in Doubles : x.digits = <<>> => FormatDouble(x) = <<0>>
  BY FormatDoubleIs
<1>5. Number(FALSE, <<>>, 0).digits = <<>>
  BY DEF Number, Numeral
<1>6. CASE d.digits = <<>> /\ e.digits = <<>>
  BY <1>3, <1>4, <1>6
<1>7. CASE d.digits # <<>> /\ e.digits # <<>>
  <2>1. MeaningOf(v, g) = d /\ MeaningOf(w, g) = e
    BY <1>1, <1>2, <1>3, <1>7, MeaningOfIs
  <2>. QED
    BY <1>3, <2>1
<1>8. CASE d.digits # <<>> /\ e.digits = <<>>
  <2>1. MeaningOf(v, g) = d /\ MeaningOf(w, g) = Number(FALSE, <<>>, 0)
    BY <1>1, <1>2, <1>3, <1>8, MeaningOfIs
  <2>. QED
    BY <1>5, <1>8, <2>1
<1>9. CASE d.digits = <<>> /\ e.digits # <<>>
  <2>1. MeaningOf(w, g) = e /\ MeaningOf(v, g) = Number(FALSE, <<>>, 0)
    BY <1>1, <1>2, <1>3, <1>9, MeaningOfIs
  <2>. QED
    BY <1>5, <1>9, <2>1
<1>. QED
  BY <1>6, <1>7, <1>8, <1>9

-----------------------------------------------------------------------------
(* Lists between brackets *)

ListText(o, f, s, c) == <<o>> \o JoinedOf(f, s) \o <<c>>

LEMMA ListIs ==
  ASSUME NEW A, NEW f, Texted(A, f), NEW s \in Seq(A), NEW o \in Tokens, NEW c \in Closers
  PROVE  /\ \E e \in Seq(Tokens) : ListText(o, f, s, c) = Front(o, e)
         /\ \A r \in Seq(Tokens) : \E e \in Seq(Tokens) :
              e = Then(JoinedOf(f, s), Front(c, r)) /\ Then(ListText(o, f, s, c), r) = Front(o, e)
<1>1. PICK t \in Seq(Tokens) : t = JoinedOf(f, s)
  BY JoinedType
<1>2. c \in Tokens
  BY ClosersAre
<1>3. ListText(o, f, s, c) = <<o>> \o t \o <<c>>
  BY <1>1 DEF ListText
<1>4. /\ <<o>> \o t \o <<c>> = Front(o, Then(t, <<c>>)) /\ Then(t, <<c>>) \in Seq(Tokens)
      /\ \A r \in Seq(Tokens) : Then(<<o>> \o t \o <<c>>, r) = Front(o, Then(t, Front(c, r)))
  BY <1>2, Bracketed
<1>5. ASSUME NEW r \in Seq(Tokens)
      PROVE  \E e \in Seq(Tokens) :
               e = Then(JoinedOf(f, s), Front(c, r)) /\ Then(ListText(o, f, s, c), r) = Front(o, e)
  <2>1. PICK x \in Seq(Tokens) : x = Front(c, r)
    BY <1>2, TokensFront
  <2>2. PICK e \in Seq(Tokens) : e = Then(t, x)
    BY TokensThen
  <2>3. e = Then(JoinedOf(f, s), Front(c, r))
    BY <1>1, <2>1, <2>2
  <2>4. Then(ListText(o, f, s, c), r) = Front(o, e)
    BY <1>3, <1>4, <2>1, <2>2
  <2>. QED
    BY <2>3, <2>4
<1>. QED
  BY <1>3, <1>4, <1>5

LEMMA ListsTell ==
  ASSUME NEW A, NEW f, NEW mean, Texted(A, f), Tells(A, f, mean, Rests), Opens(A, f),
         NEW o \in Tokens, NEW c \in Closers, NEW s \in Seq(A), NEW t \in Seq(A),
         NEW r \in Seq(Tokens), NEW u \in Seq(Tokens),
         Then(ListText(o, f, s, c), r) = Then(ListText(o, f, t, c), u)
  PROVE  Means(mean, s, t) /\ r = u
<1>1. PICK x \in Seq(Tokens) : x = Then(JoinedOf(f, s), Front(c, r)) /\ Then(ListText(o, f, s, c), r) = Front(o, x)
  BY ListIs
<1>2. PICK y \in Seq(Tokens) : y = Then(JoinedOf(f, t), Front(c, u)) /\ Then(ListText(o, f, t, c), u) = Front(o, y)
  BY ListIs
<1>3. Front(o, x) = Front(o, y)
  BY <1>1, <1>2
<1>4. x = y
  BY <1>3, TokensFront
<1>5. Then(JoinedOf(f, s), Front(c, r)) = Then(JoinedOf(f, t), Front(c, u))
  BY <1>1, <1>2, <1>4
<1>. QED
  BY <1>5, JoinedTells

LEMMA ListsAlike ==
  ASSUME NEW A, NEW f, NEW s \in Seq(A), NEW t \in Seq(A), Means(f, s, t)
  PROVE  \A o, c : ListText(o, f, s, c) = ListText(o, f, t, c)
<1>1. DOMAIN s = 1..Len(s) /\ DOMAIN t = 1..Len(t)
  BY LenProperties
<1>2. DOMAIN s = DOMAIN t /\ \A i \in DOMAIN s : f[s[i]] = f[t[i]]
  BY <1>1 DEF Means
<1>3. [i \in DOMAIN s |-> f[s[i]]] = [i \in DOMAIN t |-> f[t[i]]]
  BY <1>2
<1>. QED
  BY <1>3 DEF ListText, JoinedOf

\* Elements of one meaning have one text, one by one.
LEMMA MeansAlike ==
  ASSUME NEW A, NEW f, NEW mean, \A a, b \in A : mean[a] = mean[b] => f[a] = f[b],
         NEW s \in Seq(A), NEW t \in Seq(A), Means(mean, s, t)
  PROVE  Means(f, s, t)
<1>1. \A i \in 1..Len(s) : s[i] \in A
  BY LenProperties, ElementOfSeq
<1>2. \A i \in 1..Len(t) : t[i] \in A
  BY LenProperties, ElementOfSeq
<1>3. Len(s) = Len(t) /\ \A i \in 1..Len(s) : mean[s[i]] = mean[t[i]]
  BY DEF Means
<1>. QED
  BY <1>1, <1>2, <1>3 DEF Means

-----------------------------------------------------------------------------
(* Arrays *)

ArrayMeaning(mean, s) == [kind |-> "array", items |-> [i \in DOMAIN s |-> mean[s[i]]]]

LEMMA ArrayIs ==
  ASSUME NEW A, NEW v \in JsonArrays(A)
  PROVE  v.kind = "array" /\ v.items \in Seq(A)
BY DEF JsonArrays

LEMMA ArrayTextIs ==
  ASSUME NEW A, NEW v \in JsonArrays(A), NEW f
  PROVE  TextOf(v, f) = ListText(OpenBracket, f, v.items, CloseBracket)
<1>1. v.kind = "array"
  BY ArrayIs
<1>2. TextOf(v, f) = <<OpenBracket>> \o Joined([i \in DOMAIN v.items |-> f[v.items[i]]]) \o <<CloseBracket>>
  BY <1>1, TextOfIs
<1>. QED
  BY <1>2, Zenon DEF ListText, JoinedOf

LEMMA ArrayMeaningIs ==
  ASSUME NEW A, NEW v \in JsonArrays(A), NEW mean
  PROVE  MeaningOf(v, mean) = ArrayMeaning(mean, v.items)
<1>1. v.kind = "array"
  BY ArrayIs
<1>2. MeaningOf(v, mean) = [kind |-> "array", items |-> [i \in DOMAIN v.items |-> mean[v.items[i]]]]
  BY <1>1, MeaningOfIs
<1>. QED
  BY <1>2, Zenon DEF ArrayMeaning

LEMMA ArrayMeansIs ==
  ASSUME NEW A, NEW mean, NEW s \in Seq(A), NEW t \in Seq(A)
  PROVE  Means(mean, s, t) <=> ArrayMeaning(mean, s) = ArrayMeaning(mean, t)
<1>. DEFINE p == [i \in DOMAIN s |-> mean[s[i]]]
            q == [i \in DOMAIN t |-> mean[t[i]]]
<1>1. DOMAIN s = 1..Len(s) /\ DOMAIN t = 1..Len(t) /\ Len(s) \in Nat /\ Len(t) \in Nat
  BY LenProperties
<1>2. /\ DOMAIN p = DOMAIN s /\ \A i \in DOMAIN s : p[i] = mean[s[i]]
      /\ DOMAIN q = DOMAIN t /\ \A i \in DOMAIN t : q[i] = mean[t[i]]
  OBVIOUS
<1>3. /\ ArrayMeaning(mean, s) = [kind |-> "array", items |-> p]
      /\ ArrayMeaning(mean, t) = [kind |-> "array", items |-> q]
  BY DEF ArrayMeaning
<1>4. ASSUME Means(mean, s, t) PROVE p = q
  <2>1. DOMAIN s = DOMAIN t /\ \A i \in DOMAIN s : mean[s[i]] = mean[t[i]]
    BY <1>1, <1>4 DEF Means
  <2>. QED
    BY <2>1
<1>. HIDE DEF p, q
<1>5. ASSUME ArrayMeaning(mean, s) = ArrayMeaning(mean, t) PROVE Means(mean, s, t)
  <2>1. p = q
    BY <1>3, <1>5
  <2>2. DOMAIN s = DOMAIN t /\ \A i \in DOMAIN s : mean[s[i]] = mean[t[i]]
    BY <1>2, <2>1
  <2>3. Len(s) = Len(t)
    <3>1. PICK a \in Nat, b \in Nat : a = Len(s) /\ b = Len(t)
      BY <1>1
    <3>2. 1..a = 1..b
      BY <1>1, <2>2, <3>1
    <3>3. \A i \in Int : i \in 1..a <=> i \in 1..b
      BY <3>2
    <3>4. a \in 1..a <=> a \in 1..b
      BY <3>3
    <3>5. b \in 1..a <=> b \in 1..b
      BY <3>3
    <3>. QED
      BY <3>1, <3>4, <3>5
  <2>. QED
    BY <1>1, <2>2, <2>3 DEF Means
<1>6. ASSUME Means(mean, s, t) PROVE ArrayMeaning(mean, s) = ArrayMeaning(mean, t)
  BY <1>3, <1>4, <1>6
<1>. QED
  BY <1>5, <1>6

LEMMA OpenBracketIs == OpenBracket \in Tokens /\ CloseBracket \in Closers /\ Opening("array", OpenBracket)
BY DEF OpenBracket, Closers, Tokens, Opening

LEMMA ArrayOpens ==
  ASSUME NEW A, NEW T, Texted(A, T), NEW v \in JsonArrays(A)
  PROVE  OpensAs("array", TextOf(v, T))
<1>1. PICK s \in Seq(A) : s = v.items
  BY ArrayIs
<1>2. PICK o \in Tokens, c \in Closers : o = OpenBracket /\ c = CloseBracket
  BY OpenBracketIs
<1>3. TextOf(v, T) = ListText(o, T, s, c)
  BY <1>1, <1>2, ArrayTextIs
<1>4. PICK e \in Seq(Tokens) : ListText(o, T, s, c) = Front(o, e)
  BY ListIs
<1>. QED
  BY <1>2, <1>3, <1>4, OpenBracketIs DEF OpensAs

LEMMA ArraysTell ==
  ASSUME NEW A, NEW T, NEW M, Reads(A, T, M), NEW v \in JsonArrays(A), NEW w \in JsonArrays(A),
         NEW r \in Rests, NEW u \in Rests, Then(TextOf(v, T), r) = Then(TextOf(w, T), u)
  PROVE  MeaningOf(v, M) = MeaningOf(w, M) /\ r = u
<1>1. Texted(A, T) /\ Tells(A, T, M, Rests) /\ Opens(A, T)
  BY ReadsOpens
<1>2. r \in Seq(Tokens) /\ u \in Seq(Tokens)
  BY RestsAre
<1>3. PICK s \in Seq(A), t \in Seq(A) : s = v.items /\ t = w.items
  BY ArrayIs
<1>4. PICK o \in Tokens, c \in Closers : o = OpenBracket /\ c = CloseBracket
  BY OpenBracketIs
<1>5. TextOf(v, T) = ListText(o, T, s, c) /\ TextOf(w, T) = ListText(o, T, t, c)
  BY <1>3, <1>4, ArrayTextIs
<1>6. Then(ListText(o, T, s, c), r) = Then(ListText(o, T, t, c), u)
  BY <1>5
<1>7. Means(M, s, t) /\ r = u
  BY <1>1, <1>2, <1>6, ListsTell
<1>8. ArrayMeaning(M, s) = ArrayMeaning(M, t)
  BY <1>7, ArrayMeansIs
<1>9. MeaningOf(v, M) = ArrayMeaning(M, s) /\ MeaningOf(w, M) = ArrayMeaning(M, t)
  BY <1>3, ArrayMeaningIs
<1>. QED
  BY <1>7, <1>8, <1>9

LEMMA ArraysHaveOneText ==
  ASSUME NEW A, NEW T, NEW M, Reads(A, T, M), NEW v \in JsonArrays(A), NEW w \in JsonArrays(A),
         MeaningOf(v, M) = MeaningOf(w, M)
  PROVE  TextOf(v, T) = TextOf(w, T)
<1>1. \A a, b \in A : M[a] = M[b] => T[a] = T[b]
  BY DEF Reads
<1>2. PICK s \in Seq(A), t \in Seq(A) : s = v.items /\ t = w.items
  BY ArrayIs
<1>3. MeaningOf(v, M) = ArrayMeaning(M, s) /\ MeaningOf(w, M) = ArrayMeaning(M, t)
  BY <1>2, ArrayMeaningIs
<1>4. ArrayMeaning(M, s) = ArrayMeaning(M, t)
  BY <1>3
<1>5. Means(M, s, t)
  BY <1>4, ArrayMeansIs
<1>6. Means(T, s, t)
  BY <1>1, <1>5, MeansAlike
<1>7. \A o, c : ListText(o, T, s, c) = ListText(o, T, t, c)
  BY <1>6, ListsAlike
<1>8. /\ TextOf(v, T) = ListText(OpenBracket, T, s, CloseBracket)
      /\ TextOf(w, T) = ListText(OpenBracket, T, t, CloseBracket)
  BY <1>2, ArrayTextIs
<1>. QED
  BY <1>7, <1>8

-----------------------------------------------------------------------------
(* Objects *)

Pairs(A) == [name : Seq(Chars), of : A]
EntryTexts(A, T) == [m \in Pairs(A) |-> FormatString(m.name) \o <<Colon>> \o T[m.of]]
EntryMeanings(A, M) == [m \in Pairs(A) |-> <<m.name, M[m.of]>>]
ObjectMeaning(A, M, members) ==
  [kind |-> "object", members |-> {EntryMeanings(A, M)[m] : m \in MemberSet(members)}]

LEMMA PairIs ==
  ASSUME NEW A, NEW m \in Pairs(A)
  PROVE  m.name \in Seq(Chars) /\ m.of \in A
BY DEF Pairs

LEMMA ColonIs == Colon \in Tokens
BY DEF Colon, Tokens

LEMMA EntryTextIs ==
  ASSUME NEW A, NEW T, Texted(A, T), NEW m \in Pairs(A)
  PROVE  /\ EntryTexts(A, T)[m] \in Seq(Tokens)
         /\ \A r \in Seq(Tokens) : \E e \in Seq(Tokens) :
              /\ e = Then(T[m.of], r)
              /\ Then(EntryTexts(A, T)[m], r) = Then(FormatString(m.name), Front(Colon, e))
<1>1. PICK s \in Seq(Chars), a \in A : s = m.name /\ a = m.of
  BY PairIs
<1>2. PICK k \in Seq(Tokens) : k = FormatString(s)
  BY TokensFront, StringBefore
<1>3. PICK t \in Seq(Tokens) : t = T[a]
  BY TextedIs
<1>4. PICK o \in Tokens, p \in Seq(Tokens) : o = Colon /\ p = <<o>>
  BY ColonIs, TokensFront
<1>5. EntryTexts(A, T)[m] = FormatString(m.name) \o <<Colon>> \o T[m.of]
  BY DEF EntryTexts
<1>6. EntryTexts(A, T)[m] = Then(Then(k, p), t)
  BY <1>1, <1>2, <1>3, <1>4, <1>5 DEF Then
<1>7. Then(k, p) \in Seq(Tokens)
  BY TokensThen
<1>8. Then(Then(k, p), t) \in Seq(Tokens)
  BY <1>7, TokensThen
<1>9. ASSUME NEW r \in Seq(Tokens)
      PROVE  \E e \in Seq(Tokens) :
               /\ e = Then(T[m.of], r)
               /\ Then(EntryTexts(A, T)[m], r) = Then(FormatString(m.name), Front(Colon, e))
  <2>1. PICK e \in Seq(Tokens) : e = Then(t, r)
    BY TokensThen
  <2>2. Then(Then(Then(k, p), t), r) = Then(Then(k, p), Then(t, r))
    BY <1>7, TokensThen
  <2>3. Then(Then(k, p), e) = Then(k, Then(p, e))
    BY TokensThen
  <2>4. Then(p, e) = Front(o, e)
    BY <1>4, OneThen
  <2>. QED
    BY <1>1, <1>2, <1>3, <1>4, <1>6, <2>1, <2>2, <2>3, <2>4
<1>. QED
  BY <1>6, <1>8, <1>9

LEMMA EntriesTell ==
  ASSUME NEW A, NEW T, NEW M, Reads(A, T, M)
  PROVE  /\ Texted(Pairs(A), EntryTexts(A, T))
         /\ Tells(Pairs(A), EntryTexts(A, T), EntryMeanings(A, M), Rests)
         /\ Opens(Pairs(A), EntryTexts(A, T))
<1>1. Texted(A, T) /\ Tells(A, T, M, Rests)
  BY ReadsOpens
<1>2. Texted(Pairs(A), EntryTexts(A, T))
  <2>1. \A m \in Pairs(A) : EntryTexts(A, T)[m] \in Seq(Tokens)
    BY <1>1, EntryTextIs
  <2>2. EntryTexts(A, T) = [m \in Pairs(A) |-> EntryTexts(A, T)[m]]
    BY DEF EntryTexts
  <2>. QED
    BY <2>1, <2>2 DEF Texted
<1>3. ASSUME NEW m \in Pairs(A), NEW n \in Pairs(A), NEW r \in Rests, NEW u \in Rests,
             Then(EntryTexts(A, T)[m], r) = Then(EntryTexts(A, T)[n], u)
      PROVE  EntryMeanings(A, M)[m] = EntryMeanings(A, M)[n] /\ r = u
  <2>1. r \in Seq(Tokens) /\ u \in Seq(Tokens)
    BY RestsAre
  <2>2. PICK x \in Seq(Tokens) :
          /\ x = Then(T[m.of], r)
          /\ Then(EntryTexts(A, T)[m], r) = Then(FormatString(m.name), Front(Colon, x))
    BY <1>1, <2>1, EntryTextIs
  <2>3. PICK y \in Seq(Tokens) :
          /\ y = Then(T[n.of], u)
          /\ Then(EntryTexts(A, T)[n], u) = Then(FormatString(n.name), Front(Colon, y))
    BY <1>1, <2>1, EntryTextIs
  <2>4. PICK s \in Seq(Chars), t \in Seq(Chars), a \in A, b \in A :
          s = m.name /\ t = n.name /\ a = m.of /\ b = n.of
    BY PairIs
  <2>5. PICK p \in Seq(Tokens), q \in Seq(Tokens) : p = Front(Colon, x) /\ q = Front(Colon, y)
    BY ColonIs, TokensFront
  <2>6. Then(FormatString(s), p) = Then(FormatString(t), q)
    BY <1>3, <2>2, <2>3, <2>4, <2>5
  <2>7. s = t /\ p = q
    BY <2>6, StringTells
  <2>8. x = y
    <3>1. PICK o \in Tokens : o = Colon
      BY ColonIs
    <3>2. Front(o, x) = Front(o, y)
      BY <2>5, <2>7, <3>1
    <3>. QED
      BY <3>2, TokensFront
  <2>9. Then(T[a], r) = Then(T[b], u)
    BY <2>2, <2>3, <2>4, <2>8
  <2>10. M[a] = M[b] /\ r = u
    BY <1>1, <2>9 DEF Tells
  <2>11. EntryMeanings(A, M)[m] = <<m.name, M[m.of]>> /\ EntryMeanings(A, M)[n] = <<n.name, M[n.of]>>
    BY DEF EntryMeanings
  <2>. QED
    BY <2>4, <2>7, <2>10, <2>11
<1>4. ASSUME NEW m \in Pairs(A), NEW r \in Seq(Tokens)
      PROVE  Then(EntryTexts(A, T)[m], r) \notin Rests
  <2>1. PICK x \in Seq(Tokens) : Then(EntryTexts(A, T)[m], r) = Then(FormatString(m.name), Front(Colon, x))
    BY <1>1, EntryTextIs
  <2>2. PICK s \in Seq(Chars), p \in Seq(Tokens) : s = m.name /\ p = Front(Colon, x)
    BY PairIs, ColonIs, TokensFront
  <2>3. PICK y \in Seq(Tokens) :
          y = CodedBefore(Escapes, s, Front(Quote, p)) /\ Then(FormatString(s), p) = Front(Quote, y)
    BY StringBefore
  <2>4. Quote \in Tokens /\ Quote \notin {Comma, CloseBracket, End}
    BY DEF Quote, Tokens, Comma, CloseBracket, End
  <2>5. Front(Quote, y)[1] = Quote /\ Front(Quote, y) # <<>>
    BY <2>4, TokensFront
  <2>6. Then(EntryTexts(A, T)[m], r) = Front(Quote, y)
    BY <2>1, <2>2, <2>3
  <2>. QED
    BY <2>4, <2>5, <2>6 DEF Rests
<1>. QED
  BY <1>2, <1>3, <1>4 DEF Tells, Opens

LEMMA ObjectIs ==
  ASSUME NEW A, NEW v \in JsonObjects(A)
  PROVE  v.kind = "object" /\ Named(v.members, A)
BY DEF JsonObjects, Named

LEMMA ObjectMeaningIs ==
  ASSUME NEW A, NEW v \in JsonObjects(A), NEW M
  PROVE  MeaningOf(v, M) = ObjectMeaning(A, M, v.members)
<1>1. v.kind = "object" /\ Named(v.members, A)
  BY ObjectIs
<1>2. PICK ms : ms = v.members
  OBVIOUS
<1>3. MeaningOf(v, M) = [kind |-> "object", members |-> {<<m.name, M[m.of]>> : m \in MemberSet(ms)}]
  BY <1>1, <1>2, MeaningOfIs
<1>4. \A m \in MemberSet(ms) : m \in Pairs(A)
  BY <1>1, <1>2, EntriesAre DEF Pairs
<1>5. \A m \in MemberSet(ms) : EntryMeanings(A, M)[m] = <<m.name, M[m.of]>>
  BY <1>4 DEF EntryMeanings
<1>6. {EntryMeanings(A, M)[m] : m \in MemberSet(ms)} = {<<m.name, M[m.of]>> : m \in MemberSet(ms)}
  BY <1>5
<1>. QED
  BY <1>2, <1>3, <1>6 DEF ObjectMeaning

LEMMA ObjectTextIs ==
  ASSUME NEW A, NEW v \in JsonObjects(A), NEW T
  PROVE  TextOf(v, T) = ListText(Begin, EntryTexts(A, T), Sorted(v.members), End)
<1>1. v.kind = "object" /\ Named(v.members, A)
  BY ObjectIs
<1>2. PICK s \in Seq(Pairs(A)) : s = Sorted(v.members)
  BY <1>1, SortedIs DEF Pairs
<1>3. TextOf(v, T) = <<Begin>> \o
         Joined([i \in DOMAIN s |-> FormatString(s[i].name) \o <<Colon>> \o T[s[i].of]]) \o <<End>>
  BY <1>1, <1>2, TextOfIs
<1>4. \A i \in DOMAIN s : s[i] \in Pairs(A)
  BY LenProperties, ElementOfSeq
<1>5. \A i \in DOMAIN s : EntryTexts(A, T)[s[i]] = FormatString(s[i].name) \o <<Colon>> \o T[s[i].of]
  BY <1>4 DEF EntryTexts
<1>6. [i \in DOMAIN s |-> FormatString(s[i].name) \o <<Colon>> \o T[s[i].of]]
      = [i \in DOMAIN s |-> EntryTexts(A, T)[s[i]]]
  BY <1>5
<1>7. ListText(Begin, EntryTexts(A, T), s, End)
      = <<Begin>> \o Joined([i \in DOMAIN s |-> EntryTexts(A, T)[s[i]]]) \o <<End>>
  BY Zenon DEF ListText, JoinedOf
<1>. QED
  BY <1>2, <1>3, <1>6, <1>7

LEMMA BeginIs == Begin \in Tokens /\ End \in Closers /\ Opening("object", Begin)
BY DEF Begin, Closers, Tokens, Opening

LEMMA ObjectOpens ==
  ASSUME NEW A, NEW T, NEW M, Reads(A, T, M), NEW v \in JsonObjects(A)
  PROVE  OpensAs("object", TextOf(v, T))
<1>1. PICK B, f : B = Pairs(A) /\ f = EntryTexts(A, T)
  OBVIOUS
<1>2. PICK s \in Seq(B) : s = Sorted(v.members)
  BY <1>1, ObjectIs, SortedIs DEF Pairs
<1>3. PICK o \in Tokens, c \in Closers : o = Begin /\ c = End
  BY BeginIs
<1>4. TextOf(v, T) = ListText(o, f, s, c)
  BY <1>1, <1>2, <1>3, ObjectTextIs
<1>5. Texted(B, f)
  BY <1>1, EntriesTell
<1>6. PICK e \in Seq(Tokens) : ListText(o, f, s, c) = Front(o, e)
  BY <1>5, ListIs
<1>. QED
  BY <1>3, <1>4, <1>6, BeginIs DEF OpensAs

LEMMA MembersSorted ==
  ASSUME NEW A, NEW members, Named(members, A)
  PROVE  /\ Sorted(members) \in Seq(Pairs(A))
         /\ MemberSet(Sorted(members)) = MemberSet(members)
         /\ \A m \in MemberSet(members) : m \in Pairs(A)
<1>1. Sorted(members) \in Seq(Pairs(A)) /\ MemberSet(Sorted(members)) = MemberSet(members)
  BY SortedIs DEF Pairs
<1>2. \A m \in MemberSet(members) : m \in Pairs(A)
  BY EntriesAre DEF Pairs
<1>. QED
  BY <1>1, <1>2

Meant(mean, s) == {mean[m] : m \in MemberSet(s)}

LEMMA MeansEntries ==
  ASSUME NEW A, NEW mean, NEW s \in Seq(A), NEW t \in Seq(A), Means(mean, s, t)
  PROVE  Meant(mean, s) = Meant(mean, t)
<1>1. DOMAIN s = 1..Len(s) /\ DOMAIN t = 1..Len(t)
  BY LenProperties
<1>2. DOMAIN s = DOMAIN t /\ \A i \in DOMAIN s : mean[s[i]] = mean[t[i]]
  BY <1>1 DEF Means
<1>3. {mean[m] : m \in MemberSet(s)} = {mean[s[i]] : i \in DOMAIN s}
  BY DEF MemberSet
<1>4. {mean[m] : m \in MemberSet(t)} = {mean[t[i]] : i \in DOMAIN t}
  BY DEF MemberSet
<1>5. {mean[s[i]] : i \in DOMAIN s} = {mean[t[i]] : i \in DOMAIN t}
  BY <1>2
<1>. QED
  BY <1>3, <1>4, <1>5, Zenon DEF Meant

LEMMA ObjectsTell ==
  ASSUME NEW A, NEW T, NEW M, Reads(A, T, M), NEW v \in JsonObjects(A), NEW w \in JsonObjects(A),
         NEW r \in Rests, NEW u \in Rests, Then(TextOf(v, T), r) = Then(TextOf(w, T), u)
  PROVE  MeaningOf(v, M) = MeaningOf(w, M) /\ r = u
<1>1. PICK B, f, mean : B = Pairs(A) /\ f = EntryTexts(A, T) /\ mean = EntryMeanings(A, M)
  OBVIOUS
<1>2. Texted(B, f) /\ Tells(B, f, mean, Rests) /\ Opens(B, f)
  BY <1>1, EntriesTell
<1>3. r \in Seq(Tokens) /\ u \in Seq(Tokens)
  BY RestsAre
<1>4. PICK ms, ns : ms = v.members /\ ns = w.members /\ Named(ms, A) /\ Named(ns, A)
  BY ObjectIs
<1>5. PICK s \in Seq(B), t \in Seq(B) : s = Sorted(ms) /\ t = Sorted(ns)
  BY <1>1, <1>4, MembersSorted
<1>6. PICK o \in Tokens, c \in Closers : o = Begin /\ c = End
  BY BeginIs
<1>7. TextOf(v, T) = ListText(o, f, s, c) /\ TextOf(w, T) = ListText(o, f, t, c)
  BY <1>1, <1>4, <1>5, <1>6, ObjectTextIs
<1>8. Then(ListText(o, f, s, c), r) = Then(ListText(o, f, t, c), u)
  BY <1>7
<1>9. Means(mean, s, t) /\ r = u
  BY <1>2, <1>3, <1>8, ListsTell
<1>10. Meant(mean, s) = Meant(mean, t)
  BY <1>9, MeansEntries
<1>11. MemberSet(s) = MemberSet(ms) /\ MemberSet(t) = MemberSet(ns)
  BY <1>4, <1>5, MembersSorted
<1>12. ObjectMeaning(A, M, ms) = ObjectMeaning(A, M, ns)
  BY <1>1, <1>10, <1>11, Zenon DEF ObjectMeaning, Meant
<1>13. MeaningOf(v, M) = ObjectMeaning(A, M, ms) /\ MeaningOf(w, M) = ObjectMeaning(A, M, ns)
  BY <1>4, ObjectMeaningIs
<1>. QED
  BY <1>9, <1>12, <1>13

EachIn(mean, members, others) ==
  \A m \in MemberSet(members) : \E n \in MemberSet(others) : mean[m] = mean[n]

LEMMA EntryMeaningTells ==
  ASSUME NEW A, NEW M, NEW m \in Pairs(A), NEW n \in Pairs(A), EntryMeanings(A, M)[m] = EntryMeanings(A, M)[n]
  PROVE  m.name = n.name /\ M[m.of] = M[n.of]
<1>1. EntryMeanings(A, M)[m] = <<m.name, M[m.of]>> /\ EntryMeanings(A, M)[n] = <<n.name, M[n.of]>>
  BY DEF EntryMeanings
<1>2. PICK a, b, c, d : a = m.name /\ b = M[m.of] /\ c = n.name /\ d = M[n.of]
  OBVIOUS
<1>3. <<a, b>> = <<c, d>>
  BY <1>1, <1>2
<1>4. a = c /\ b = d
  BY <1>3
<1>. QED
  BY <1>2, <1>4

LEMMA NamesWithin ==
  ASSUME NEW A, NEW M, NEW members, Named(members, A), NEW others, Named(others, A),
         EachIn(EntryMeanings(A, M), members, others)
  PROVE  Names(members) \subseteq Names(others)
<1>1. SUFFICES ASSUME NEW x \in Names(members) PROVE x \in Names(others)
  OBVIOUS
<1>2. PICK m \in MemberSet(members) : m.name = x
  BY EntriesAre
<1>3. PICK n \in MemberSet(others) : EntryMeanings(A, M)[m] = EntryMeanings(A, M)[n]
  BY DEF EachIn
<1>4. m \in Pairs(A) /\ n \in Pairs(A)
  BY MembersSorted
<1>5. m.name = n.name
  BY <1>3, <1>4, EntryMeaningTells
<1>6. n.name \in Names(others)
  BY EntriesAre
<1>. QED
  BY <1>2, <1>5, <1>6

\* Members of the same names and meanings come in the same order.
LEMMA SortedAlike ==
  ASSUME NEW A, NEW M, NEW members, Named(members, A), NEW others, Named(others, A),
         EachIn(EntryMeanings(A, M), members, others), EachIn(EntryMeanings(A, M), others, members)
  PROVE  Means(EntryMeanings(A, M), Sorted(members), Sorted(others))
<1>. PICK mean, s, t : mean = EntryMeanings(A, M) /\ s = Sorted(members) /\ t = Sorted(others)
  OBVIOUS
<1>1. Names(members) \subseteq Names(others) /\ Names(others) \subseteq Names(members)
  BY NamesWithin
<1>2. PICK names : names = Names(members) /\ names = Names(others)
  BY <1>1
<1>3. /\ names \subseteq Seq(Chars) /\ IsFiniteSet(names)
      /\ Cardinality(names) = Len(members) /\ Cardinality(names) = Len(others)
  BY <1>2, NamesAre
<1>4. PICK k : k = Len(members) /\ k = Len(others)
  BY <1>3
<1>5. Len(s) = k /\ \A i \in 1..k : s[i] \in MemberSet(members) /\ Rank(s[i].name, names) = i - 1
  BY <1>2, <1>4, SortedIs
<1>6. Len(t) = k /\ \A i \in 1..k : t[i] \in MemberSet(others) /\ Rank(t[i].name, names) = i - 1
  BY <1>2, <1>4, SortedIs
<1>7. ASSUME NEW i \in 1..k
      PROVE  mean[s[i]] = mean[t[i]]
  <2>1. PICK m \in MemberSet(members), n \in MemberSet(others) :
          m = s[i] /\ n = t[i] /\ Rank(m.name, names) = i - 1 /\ Rank(n.name, names) = i - 1
    BY <1>5, <1>6
  <2>2. m.name \in names /\ n.name \in names
    BY <1>2, EntriesAre
  <2>3. m.name = n.name
    BY <1>3, <2>1, <2>2, RankIs
  <2>4. PICK o \in MemberSet(others) : mean[m] = mean[o]
    BY DEF EachIn
  <2>5. m \in Pairs(A) /\ o \in Pairs(A)
    BY MembersSorted
  <2>6. m.name = o.name
    BY <2>4, <2>5, EntryMeaningTells
  <2>7. o = n
    BY <2>3, <2>6, EntriesAre
  <2>. QED
    BY <2>1, <2>4, <2>7
<1>. QED
  BY <1>5, <1>6, <1>7 DEF Means

LEMMA ObjectsHaveOneText ==
  ASSUME NEW A, NEW T, NEW M, Reads(A, T, M), NEW v \in JsonObjects(A), NEW w \in JsonObjects(A),
         MeaningOf(v, M) = MeaningOf(w, M)
  PROVE  TextOf(v, T) = TextOf(w, T)
<1>1. \A a, b \in A : M[a] = M[b] => T[a] = T[b]
  BY DEF Reads
<1>2. PICK ms, ns : ms = v.members /\ ns = w.members /\ Named(ms, A) /\ Named(ns, A)
  BY ObjectIs
<1>3. PICK p, q : /\ p = {EntryMeanings(A, M)[m] : m \in MemberSet(ms)}
                  /\ q = {EntryMeanings(A, M)[m] : m \in MemberSet(ns)}
  OBVIOUS
<1>4. /\ ObjectMeaning(A, M, ms) = [kind |-> "object", members |-> p]
      /\ ObjectMeaning(A, M, ns) = [kind |-> "object", members |-> q]
  BY <1>3 DEF ObjectMeaning
<1>5. MeaningOf(v, M) = ObjectMeaning(A, M, ms) /\ MeaningOf(w, M) = ObjectMeaning(A, M, ns)
  BY <1>2, ObjectMeaningIs
<1>6. p = q
  <2>1. [kind |-> "object", members |-> p] = [kind |-> "object", members |-> q]
    BY <1>4, <1>5
  <2>. QED
    BY <2>1
<1>7. EachIn(EntryMeanings(A, M), ms, ns) /\ EachIn(EntryMeanings(A, M), ns, ms)
  <2>1. \A m \in MemberSet(ms) : EntryMeanings(A, M)[m] \in p
    BY <1>3
  <2>2. \A n \in MemberSet(ns) : EntryMeanings(A, M)[n] \in q
    BY <1>3
  <2>3. \A x \in q : \E n \in MemberSet(ns) : x = EntryMeanings(A, M)[n]
    BY <1>3
  <2>4. \A x \in p : \E m \in MemberSet(ms) : x = EntryMeanings(A, M)[m]
    BY <1>3
  <2>. QED
    BY <1>6, <2>1, <2>2, <2>3, <2>4, Zenon DEF EachIn
<1>8. Means(EntryMeanings(A, M), Sorted(ms), Sorted(ns))
  BY <1>2, <1>7, SortedAlike
<1>9. PICK B, f, mean : B = Pairs(A) /\ f = EntryTexts(A, T) /\ mean = EntryMeanings(A, M)
  OBVIOUS
<1>10. PICK s \in Seq(B), t \in Seq(B) : s = Sorted(ms) /\ t = Sorted(ns)
  BY <1>2, <1>9, MembersSorted
<1>11. ASSUME NEW m \in B, NEW n \in B, mean[m] = mean[n] PROVE f[m] = f[n]
  <2>1. m \in Pairs(A) /\ n \in Pairs(A) /\ EntryMeanings(A, M)[m] = EntryMeanings(A, M)[n]
    BY <1>9, <1>11
  <2>2. m.name = n.name /\ M[m.of] = M[n.of]
    BY <2>1, EntryMeaningTells
  <2>3. m.of \in A /\ n.of \in A
    BY <2>1, PairIs
  <2>4. T[m.of] = T[n.of]
    BY <1>1, <2>2, <2>3
  <2>5. /\ EntryTexts(A, T)[m] = FormatString(m.name) \o <<Colon>> \o T[m.of]
        /\ EntryTexts(A, T)[n] = FormatString(n.name) \o <<Colon>> \o T[n.of]
    BY <2>1 DEF EntryTexts
  <2>. QED
    BY <1>9, <2>2, <2>4, <2>5
<1>12. Means(mean, s, t)
  BY <1>8, <1>9, <1>10
<1>13. Means(f, s, t)
  BY <1>11, <1>12, MeansAlike
<1>14. \A o, c : ListText(o, f, s, c) = ListText(o, f, t, c)
  BY <1>13, ListsAlike
<1>15. TextOf(v, T) = ListText(Begin, f, s, End) /\ TextOf(w, T) = ListText(Begin, f, t, End)
  BY <1>2, <1>9, <1>10, ObjectTextIs
<1>. QED
  BY <1>14, <1>15

-----------------------------------------------------------------------------
(* Values of every depth *)

LEMMA ByKind ==
  ASSUME NEW A, NEW v \in Simple \cup Built(A)
  PROVE  \/ v.kind = "word" /\ v \in JsonWords
         \/ v.kind = "number" /\ v \in JsonNumbers
         \/ v.kind = "string" /\ v \in JsonStrings
         \/ v.kind = "array" /\ v \in JsonArrays(A)
         \/ v.kind = "object" /\ v \in JsonObjects(A)
<1>1. v \in JsonWords \/ v \in JsonNumbers \/ v \in JsonStrings \/ v \in JsonArrays(A) \/ v \in JsonObjects(A)
  BY DEF Simple, Built
<1>2. CASE v \in JsonWords
  BY <1>2, WordIs
<1>3. CASE v \in JsonNumbers
  BY <1>3, AsDoubleIs
<1>4. CASE v \in JsonStrings
  BY <1>4, StringIs
<1>5. CASE v \in JsonArrays(A)
  BY <1>5, ArrayIs
<1>6. CASE v \in JsonObjects(A)
  BY <1>6, ObjectIs
<1>. QED
  BY <1>1, <1>2, <1>3, <1>4, <1>5, <1>6

LEMMA SameKind ==
  ASSUME NEW A, NEW v \in Simple \cup Built(A), NEW w \in Simple \cup Built(A), v.kind = w.kind
  PROVE  \/ v \in JsonWords /\ w \in JsonWords
         \/ v \in JsonNumbers /\ w \in JsonNumbers
         \/ v \in JsonStrings /\ w \in JsonStrings
         \/ v \in JsonArrays(A) /\ w \in JsonArrays(A)
         \/ v \in JsonObjects(A) /\ w \in JsonObjects(A)
<1>. PICK k : k = v.kind /\ k = w.kind
  OBVIOUS
<1>1. \/ k = "word" /\ v \in JsonWords
      \/ k = "number" /\ v \in JsonNumbers
      \/ k = "string" /\ v \in JsonStrings
      \/ k = "array" /\ v \in JsonArrays(A)
      \/ k = "object" /\ v \in JsonObjects(A)
  BY ByKind
<1>2. \/ k = "word" /\ w \in JsonWords
      \/ k = "number" /\ w \in JsonNumbers
      \/ k = "string" /\ w \in JsonStrings
      \/ k = "array" /\ w \in JsonArrays(A)
      \/ k = "object" /\ w \in JsonObjects(A)
  BY ByKind
<1>. QED
  BY <1>1, <1>2

LEMMA Opened ==
  ASSUME NEW A, NEW T, NEW M, Reads(A, T, M), NEW v \in Simple \cup Built(A)
  PROVE  OpensAs(v.kind, TextOf(v, T))
<1>1. Texted(A, T)
  BY ReadsOpens
<1>2. CASE v.kind = "word" /\ v \in JsonWords
  BY <1>2, WordIs
<1>3. CASE v.kind = "number" /\ v \in JsonNumbers
  BY <1>3, NumberOpens
<1>4. CASE v.kind = "string" /\ v \in JsonStrings
  BY <1>4, StringIs
<1>5. CASE v.kind = "array" /\ v \in JsonArrays(A)
  BY <1>1, <1>5, ArrayOpens
<1>6. CASE v.kind = "object" /\ v \in JsonObjects(A)
  BY <1>6, ObjectOpens
<1>. QED
  BY <1>2, <1>3, <1>4, <1>5, <1>6, ByKind

LEMMA KindIsMeant ==
  ASSUME NEW A, NEW v \in Simple \cup Built(A), NEW M
  PROVE  MeaningOf(v, M).kind = v.kind
<1>1. CASE v.kind = "word" /\ v \in JsonWords
  BY <1>1, WordIs
<1>2. CASE v.kind = "number" /\ v \in JsonNumbers
  <2>1. PICK d \in Doubles : d = AsDouble(v)
    BY <1>2, AsDoubleIs
  <2>2. MeaningOf(v, M) = d \/ MeaningOf(v, M) = Number(FALSE, <<>>, 0)
    BY <1>2, <2>1, MeaningOfIs
  <2>3. d.kind = "number" /\ Number(FALSE, <<>>, 0).kind = "number"
    BY DEF Number, Numeral, Doubles, Numerals
  <2>. QED
    BY <1>2, <2>2, <2>3
<1>3. CASE v.kind = "string" /\ v \in JsonStrings
  BY <1>3, StringIs
<1>4. CASE v.kind = "array" /\ v \in JsonArrays(A)
  <2>1. MeaningOf(v, M) = ArrayMeaning(M, v.items)
    BY <1>4, ArrayMeaningIs
  <2>. QED
    BY <1>4, <2>1 DEF ArrayMeaning
<1>5. CASE v.kind = "object" /\ v \in JsonObjects(A)
  <2>1. MeaningOf(v, M) = ObjectMeaning(A, M, v.members)
    BY <1>5, ObjectMeaningIs
  <2>. QED
    BY <1>5, <2>1 DEF ObjectMeaning
<1>. QED
  BY <1>1, <1>2, <1>3, <1>4, <1>5, ByKind

LEMMA ValuesTell ==
  ASSUME NEW A, NEW T, NEW M, Reads(A, T, M),
         NEW v \in Simple \cup Built(A), NEW w \in Simple \cup Built(A),
         NEW r \in Rests, NEW u \in Rests, Then(TextOf(v, T), r) = Then(TextOf(w, T), u)
  PROVE  MeaningOf(v, M) = MeaningOf(w, M) /\ r = u
<1>1. r \in Seq(Tokens) /\ u \in Seq(Tokens)
  BY RestsAre
<1>2. v.kind = w.kind
  <2>1. OpensAs(v.kind, TextOf(v, T)) /\ OpensAs(w.kind, TextOf(w, T))
    BY Opened
  <2>2. Opening(v.kind, Then(TextOf(v, T), r)[1])
    BY <1>1, <2>1, OpensAsIs
  <2>3. Opening(w.kind, Then(TextOf(w, T), u)[1])
    BY <1>1, <2>1, OpensAsIs
  <2>. QED
    BY <2>2, <2>3, OpeningTells
<1>3. CASE v \in JsonWords /\ w \in JsonWords
  BY <1>3, WordsTell
<1>4. CASE v \in JsonNumbers /\ w \in JsonNumbers
  BY <1>4, NumbersTell
<1>5. CASE v \in JsonStrings /\ w \in JsonStrings
  BY <1>5, StringsTell
<1>6. CASE v \in JsonArrays(A) /\ w \in JsonArrays(A)
  BY <1>6, ArraysTell
<1>7. CASE v \in JsonObjects(A) /\ w \in JsonObjects(A)
  BY <1>7, ObjectsTell
<1>. QED
  BY <1>2, <1>3, <1>4, <1>5, <1>6, <1>7, SameKind

LEMMA ValuesHaveOneText ==
  ASSUME NEW A, NEW T, NEW M, Reads(A, T, M),
         NEW v \in Simple \cup Built(A), NEW w \in Simple \cup Built(A),
         MeaningOf(v, M) = MeaningOf(w, M)
  PROVE  TextOf(v, T) = TextOf(w, T)
<1>1. v.kind = w.kind
  <2>1. MeaningOf(v, M).kind = v.kind
    BY KindIsMeant
  <2>2. MeaningOf(w, M).kind = w.kind
    BY KindIsMeant
  <2>. QED
    BY <2>1, <2>2
<1>2. CASE v \in JsonWords /\ w \in JsonWords
  <2>1. MeaningOf(v, M) = v
    BY <1>2, WordIs
  <2>2. MeaningOf(w, M) = w
    BY <1>2, WordIs
  <2>. QED
    BY <2>1, <2>2
<1>3. CASE v \in JsonNumbers /\ w \in JsonNumbers
  BY <1>3, NumbersHaveOneText
<1>4. CASE v \in JsonStrings /\ w \in JsonStrings
  <2>1. MeaningOf(v, M) = v
    BY <1>4, StringIs
  <2>2. MeaningOf(w, M) = w
    BY <1>4, StringIs
  <2>. QED
    BY <2>1, <2>2
<1>5. CASE v \in JsonArrays(A) /\ w \in JsonArrays(A)
  BY <1>5, ArraysHaveOneText
<1>6. CASE v \in JsonObjects(A) /\ w \in JsonObjects(A)
  BY <1>6, ObjectsHaveOneText
<1>. QED
  BY <1>1, <1>2, <1>3, <1>4, <1>5, <1>6, SameKind

\* What holds of the values inside holds of those that are built from them.
LEMMA ReadsBuilt ==
  ASSUME NEW A, NEW T, NEW M, Reads(A, T, M), NEW V, V \subseteq Simple \cup Built(A),
         NEW f, f = [v \in V |-> f[v]], \A v \in V : f[v] = TextOf(v, T),
         NEW g, \A v \in V : g[v] = MeaningOf(v, M)
  PROVE  Reads(V, f, g)
<1>1. ASSUME NEW v \in V
      PROVE  v \in Simple \cup Built(A) /\ f[v] = TextOf(v, T) /\ g[v] = MeaningOf(v, M)
  OBVIOUS
<1>2. ASSUME NEW v \in V
      PROVE  f[v] \in Seq(Tokens) /\ OpensAs(v.kind, f[v])
  <2>1. OpensAs(v.kind, TextOf(v, T))
    BY <1>1, Opened
  <2>2. <<>> \in Seq(Tokens)
    BY TokensFront
  <2>3. TextOf(v, T) \in Seq(Tokens)
    BY <2>1, <2>2, OpensAsIs
  <2>. QED
    BY <1>1, <2>1, <2>3
<1>3. Texted(V, f)
  BY <1>2 DEF Texted
<1>4. ASSUME NEW v \in V, NEW w \in V, NEW r \in Rests, NEW u \in Rests, Then(f[v], r) = Then(f[w], u)
      PROVE  g[v] = g[w] /\ r = u
  <2>1. Then(TextOf(v, T), r) = Then(TextOf(w, T), u)
    BY <1>1, <1>4
  <2>2. MeaningOf(v, M) = MeaningOf(w, M) /\ r = u
    BY <1>1, <2>1, ValuesTell
  <2>. QED
    BY <1>1, <2>2
<1>5. ASSUME NEW v \in V, NEW w \in V, g[v] = g[w]
      PROVE  f[v] = f[w]
  <2>1. MeaningOf(v, M) = MeaningOf(w, M)
    BY <1>1, <1>5
  <2>2. TextOf(v, T) = TextOf(w, T)
    BY <1>1, <2>1, ValuesHaveOneText
  <2>. QED
    BY <1>1, <2>2
<1>. QED
  BY <1>2, <1>3, <1>4, <1>5 DEF Reads, Tells

LEMMA ReadsNone == \E f, g : Reads({}, f, g)
<1>1. PICK f : f \in [{} -> Seq(Tokens)]
  <2>1. [x \in {} |-> <<>>] \in [{} -> Seq(Tokens)]
    OBVIOUS
  <2>. QED
    BY <2>1
<1>2. Reads({}, f, f)
  BY <1>1 DEF Reads, Texted, Tells
<1>. QED
  BY <1>2

LEMMA ReadsNested == \A depth \in 0..Depth : Reads(Nested[depth], Texts[depth], Meanings[depth])
<1>. DEFINE good == {n \in Nat : n \in 0..Depth => Reads(Nested[n], Texts[n], Meanings[n])}
<1>1. Depth \in Nat
  BY DepthIs
<1>2. /\ Nested[0] = Simple /\ \A i \in 1..Depth : Nested[i] = Simple \cup Built(Nested[i - 1])
  BY NestedIs DEF NestedOn
<1>3. \A i \in 0..Depth : /\ Texts[i] = [v \in Nested[i] |-> Texts[i][v]]
                          /\ \A v \in Nested[i] : Texts[i][v] = TextOf(v, Texts[i - 1])
  BY TextsAre DEF TextsOn
<1>4. \A i \in 0..Depth : \A v \in Nested[i] : Meanings[i][v] = MeaningOf(v, Meanings[i - 1])
  BY MeaningsAre DEF MeaningsOn
<1>5. 0 \in good
  <2>1. PICK f, g : Reads({}, f, g)
    BY ReadsNone
  <2>2. 0 \in 0..Depth
    BY <1>1
  <2>3. PICK t, m : t = Texts[0] /\ m = Meanings[0]
    OBVIOUS
  <2>4. t = [v \in Nested[0] |-> t[v]]
    BY <1>3, <2>2, <2>3
  <2>5. \A v \in Nested[0] : t[v] = TextOf(v, f)
    <3>1. SUFFICES ASSUME NEW v \in Nested[0] PROVE t[v] = TextOf(v, f)
      OBVIOUS
    <3>2. PICK h : t[v] = TextOf(v, h)
      BY <1>3, <2>2, <2>3
    <3>. QED
      BY <3>2, ScalarText
  <2>6. \A v \in Nested[0] : m[v] = MeaningOf(v, g)
    <3>1. SUFFICES ASSUME NEW v \in Nested[0] PROVE m[v] = MeaningOf(v, g)
      OBVIOUS
    <3>2. PICK h : m[v] = MeaningOf(v, h)
      BY <1>4, <2>2, <2>3
    <3>. QED
      BY <3>2, ScalarMeaning
  <2>7. Nested[0] \subseteq Simple \cup Built({})
    BY <1>2
  <2>8. Reads(Nested[0], t, m)
    BY <2>1, <2>4, <2>5, <2>6, <2>7, ReadsBuilt
  <2>. QED
    BY <2>3, <2>8
<1>6. ASSUME NEW n \in Nat, n \in good PROVE n + 1 \in good
  <2>1. SUFFICES ASSUME n + 1 \in 0..Depth PROVE Reads(Nested[n + 1], Texts[n + 1], Meanings[n + 1])
    OBVIOUS
  <2>2. n \in 0..Depth /\ n + 1 \in 1..Depth /\ (n + 1) - 1 = n
    BY <1>1, <2>1
  <2>3. Reads(Nested[n], Texts[n], Meanings[n])
    BY <1>6, <2>2
  <2>4. PICK V, t, m : V = Nested[n + 1] /\ t = Texts[n + 1] /\ m = Meanings[n + 1]
    OBVIOUS
  <2>5. V \subseteq Simple \cup Built(Nested[n])
    BY <1>2, <2>2, <2>4
  <2>6. t = [v \in V |-> t[v]] /\ \A v \in V : t[v] = TextOf(v, Texts[n])
    BY <1>3, <2>1, <2>2, <2>4
  <2>7. \A v \in V : m[v] = MeaningOf(v, Meanings[n])
    BY <1>4, <2>1, <2>2, <2>4
  <2>8. Reads(V, t, m)
    BY <2>3, <2>5, <2>6, <2>7, ReadsBuilt
  <2>. QED
    BY <2>4, <2>8
<1>7. \A n \in Nat : n \in good
  <2>. HIDE DEF good
  <2>1. Nat \subseteq good
    BY <1>5, <1>6, UpToAll
  <2>. QED
    BY <2>1
<1>. QED
  BY <1>1, <1>7

-----------------------------------------------------------------------------
(* The theorem *)

\* Two JSON values of any depth have the same canonical text if and only if they are the
\* same value, whatever the order of their members and the sign of zero, and with the double
\* nearest to it for an integer, whichever that is (_serialize, format_number, the string
\* escapes and the UTF-16 order of names).
THEOREM CanonicalTextsAreExact ==
  \A v, w \in Nested[Depth] : Text(v) = Text(w) <=> Meaning(v) = Meaning(w)
<1>1. Depth \in 0..Depth
  BY DepthIs
<1>2. PICK V, t, m : V = Nested[Depth] /\ t = Texts[Depth] /\ m = Meanings[Depth]
  OBVIOUS
<1>3. Reads(V, t, m)
  BY <1>1, <1>2, ReadsNested
<1>4. \A v \in V : Text(v) = t[v] /\ Meaning(v) = m[v] /\ t[v] \in Seq(Tokens)
  BY <1>2, <1>3, TextedIs DEF Reads, Text, Meaning
<1>5. PICK r \in Rests : r = <<>>
  BY RestsAre
<1>6. ASSUME NEW v \in V, NEW w \in V, t[v] = t[w] PROVE m[v] = m[w]
  <2>1. Then(t[v], r) = Then(t[w], r)
    BY <1>6
  <2>. QED
    BY <1>3, <2>1 DEF Reads, Tells
<1>7. \A v, w \in V : m[v] = m[w] => t[v] = t[w]
  BY <1>3 DEF Reads
<1>. QED
  BY <1>2, <1>4, <1>6, <1>7

EncodedTypeOK ==
  value \in JsonValues \cup {NoValue} /\ bytes \in Seq(0..(ByteBase - 1))

\* In every state, the value that is written has the text of exactly the values that are the
\* same value, an integer being the double nearest to it, and the bytes that are written in base58 are read back (_serialize,
\* canonicalize, and base58's encode and decode).
THEOREM EncodingsKeepValues == EncodingSpec => []EncodingsAreExact
<1>1. ByteStrings \subseteq Seq(0..(ByteBase - 1)) /\ JsonValues \subseteq Nested[Depth]
  BY EncodingsAssumption DEF EncodingsAssumption
<1>2. EncodingInit => EncodedTypeOK
  BY DEF EncodingInit, EncodedTypeOK
<1>3. EncodedTypeOK /\ [EncodingNext]_encodingVars => EncodedTypeOK'
  BY <1>1 DEF EncodingNext, EncodedTypeOK, encodingVars
<1>4. EncodedTypeOK => EncodingsAreExact
  <2>1. SUFFICES ASSUME EncodedTypeOK PROVE EncodingsAreExact
    OBVIOUS
  <2>2. Decode58(Encode58(bytes)) = bytes
    <3>1. Digits(ByteBase) = 0..(ByteBase - 1)
      BY DEF Digits
    <3>. QED
      BY <2>1, <3>1, Base58IsExact DEF EncodedTypeOK
  <2>3. ASSUME value # NoValue, NEW other \in JsonValues
        PROVE  Text(other) = Text(value) <=> Meaning(other) = Meaning(value)
    <3>1. value \in Nested[Depth] /\ other \in Nested[Depth]
      BY <1>1, <2>1, <2>3 DEF EncodedTypeOK
    <3>. QED
      BY <3>1, CanonicalTextsAreExact
  <2>. QED
    BY <2>2, <2>3, Zenon DEF EncodingsAreExact
<1>. QED
  BY <1>2, <1>3, <1>4, PTL DEF EncodingSpec
=============================================================================
