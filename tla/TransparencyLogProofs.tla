------------------------ MODULE TransparencyLogProofs ------------------------
(***************************************************************************)
(* Proofs about the transparency log, for trees of any size and shape:     *)
(* what verify_inclusion and verify_consistency accept, and that witnesses *)
(* who follow them never vouch for two histories.                          *)
(***************************************************************************)
EXTENDS WitnessedLog, WitnessContract, FixedOrderProofs, SequenceTheorems, FiniteSetTheorems

-----------------------------------------------------------------------------
(* Repeated steps: doubling and halving *)

Repeats(step, count, start, g) ==
  g = [i \in 0..count |-> IF i = 0 THEN start ELSE step[g[i - 1]]]

LEMMA RepeatsAre ==
  ASSUME NEW step, NEW start, NEW count \in Nat, NEW g, Repeats(step, count, start, g)
  PROVE  g[0] = start /\ \A i \in 1..count : g[i] = step[g[i - 1]]
<1>. DEFINE at(i) == IF i = 0 THEN start ELSE step[g[i - 1]]
<1>1. g = [i \in 0..count |-> at(i)]
  BY DEF Repeats
<1>2. \A i \in 0..count : g[i] = at(i)
  <2>. HIDE DEF at
  <2>. QED
    BY <1>1
<1>3. 0 \in 0..count /\ \A i \in 1..count : i \in 0..count /\ i # 0
  OBVIOUS
<1>. QED
  BY <1>2, <1>3

LEMMA SomeRepeats ==
  ASSUME NEW step, NEW start, NEW k \in Nat
  PROVE  \E g : Repeats(step, k, start, g)
<1>. DEFINE fine == {m \in Nat : \E g : Repeats(step, m, start, g)}
<1>1. 0 \in fine
  <2>. DEFINE g == [n \in 0..0 |-> start]
  <2>1. g = [n \in 0..0 |-> IF n = 0 THEN start ELSE step[g[n - 1]]]
    OBVIOUS
  <2>. HIDE DEF g
  <2>2. Repeats(step, 0, start, g)
    BY <2>1 DEF Repeats
  <2>. QED
    BY <2>2
<1>2. ASSUME NEW m \in Nat, m \in fine PROVE m + 1 \in fine
  <2>1. PICK g : Repeats(step, m, start, g)
    BY <1>2
  <2>2. g[0] = start /\ \A n \in 1..m : g[n] = step[g[n - 1]]
    BY <2>1, RepeatsAre
  <2>. DEFINE h == [n \in 0..(m + 1) |-> IF n <= m THEN g[n] ELSE step[g[m]]]
              next == [n \in 0..(m + 1) |-> IF n = 0 THEN start ELSE step[h[n - 1]]]
  <2>3. ASSUME NEW n \in 0..(m + 1) PROVE h[n] = next[n]
    <3>1. CASE n = 0
      BY <2>2, <3>1
    <3>2. CASE n \in 1..m
      <4>1. n - 1 \in 0..(m + 1) /\ n - 1 <= m /\ n <= m /\ n # 0
        BY <3>2
      <4>. QED
        BY <2>2, <3>2, <4>1
    <3>3. CASE n = m + 1
      <4>1. n - 1 = m /\ m \in 0..(m + 1) /\ m <= m /\ ~(n <= m) /\ n # 0
        BY <3>3
      <4>. QED
        BY <3>3, <4>1
    <3>. QED
      BY <3>1, <3>2, <3>3
  <2>4. h = next
    <3>1. DOMAIN h = DOMAIN next /\ h = [n \in DOMAIN h |-> h[n]] /\ next = [n \in DOMAIN next |-> next[n]]
      OBVIOUS
    <3>. QED
      BY <2>3
  <2>5. h = [n \in 0..(m + 1) |-> IF n = 0 THEN start ELSE step[h[n - 1]]]
    BY <2>4
  <2>. HIDE DEF h
  <2>6. Repeats(step, m + 1, start, h) /\ m + 1 \in Nat
    BY <2>5 DEF Repeats
  <2>. QED
    BY <2>6
<1>3. \A n \in 1..k : n - 1 \in fine => n \in fine
  <2>1. ASSUME NEW n \in 1..k, n - 1 \in fine PROVE n \in fine
    <3>1. n - 1 \in Nat /\ (n - 1) + 1 = n
      OBVIOUS
    <3>. HIDE DEF fine
    <3>. QED
      BY <1>2, <2>1, <3>1
  <2>. QED
    BY <2>1
<1>4. 0..k \subseteq fine
  <2>. HIDE DEF fine
  <2>. QED
    BY <1>1, <1>3, UpToAll
<1>5. k \in fine
  <2>. HIDE DEF fine
  <2>. QED
    BY <1>4
<1>. QED
  BY <1>5

\* How often a step is repeated later does not change what it led to before.
LEMMA TimesIs ==
  ASSUME NEW step, NEW start, NEW count \in Nat, NEW g, Repeats(step, count, start, g)
  PROVE  \A i \in 0..count : Times(step, i, start) = g[i]
<1>. DEFINE fine == {i \in Nat : Times(step, i, start) = g[i]}
<1>1. ASSUME NEW n \in Nat PROVE \E h : Repeats(step, n, start, h) /\ Times(step, n, start) = h[n]
  <2>1. Times(step, n, start) = (CHOOSE h : Repeats(step, n, start, h))[n]
    BY DEF Times, Repeats
  <2>2. \E h : Repeats(step, n, start, h)
    BY SomeRepeats
  <2>. QED
    BY <2>1, <2>2
<1>2. g[0] = start /\ \A i \in 1..count : g[i] = step[g[i - 1]]
  BY RepeatsAre
<1>3. ASSUME NEW n \in 0..count PROVE Times(step, n, start) = g[n]
  <2>1. PICK h : Repeats(step, n, start, h) /\ Times(step, n, start) = h[n]
    BY <1>1
  <2>2. h[0] = start /\ \A i \in 1..n : h[i] = step[h[i - 1]]
    BY <2>1, RepeatsAre
  <2>. DEFINE same == {i \in Nat : h[i] = g[i]}
  <2>3. 0 \in same
    BY <1>2, <2>2
  <2>4. \A i \in 1..n : i - 1 \in same => i \in same
    BY <1>2, <2>2
  <2>5. 0..n \subseteq same
    <3>. HIDE DEF same
    <3>. QED
      BY <2>3, <2>4, UpToAll
  <2>. QED
    BY <2>1, <2>5
<1>. QED
  BY <1>3

LEMMA TimesStep ==
  ASSUME NEW step, NEW start, NEW n \in Nat
  PROVE  Times(step, 0, start) = start /\ Times(step, n + 1, start) = step[Times(step, n, start)]
<1>1. PICK m \in Nat : m = n + 1
  OBVIOUS
<1>2. PICK g : Repeats(step, m, start, g)
  BY SomeRepeats
<1>3. g[0] = start /\ \A i \in 1..m : g[i] = step[g[i - 1]]
  BY <1>2, RepeatsAre
<1>4. \A i \in 0..m : Times(step, i, start) = g[i]
  BY <1>2, TimesIs
<1>5. 0 \in 0..m /\ n \in 0..m /\ m \in 0..m /\ m \in 1..m /\ m - 1 = n
  BY <1>1
<1>. QED
  BY <1>1, <1>3, <1>4, <1>5

LEMMA PowerStep ==
  ASSUME NEW e \in Nat
  PROVE  PowerOfTwo(0) = 1 /\ PowerOfTwo(e) \in Nat /\ PowerOfTwo(e) > e
         /\ PowerOfTwo(e + 1) = 2 * PowerOfTwo(e)
<1>. DEFINE fine == {i \in Nat : PowerOfTwo(i) \in Nat /\ PowerOfTwo(i) > i}
<1>1. PowerOfTwo(0) = 1 /\ \A i \in Nat : PowerOfTwo(i + 1) = Doubling[PowerOfTwo(i)]
  BY TimesStep DEF PowerOfTwo
<1>2. \A i \in Nat : PowerOfTwo(i) \in Nat => PowerOfTwo(i + 1) = 2 * PowerOfTwo(i)
  BY <1>1 DEF Doubling
<1>3. 0 \in fine
  BY <1>1
<1>4. \A i \in 1..e : i - 1 \in fine => i \in fine
  <2>1. ASSUME NEW i \in 1..e, i - 1 \in fine PROVE i \in fine
    <3>1. PICK j \in Nat : j = i - 1 /\ i = j + 1
      OBVIOUS
    <3>2. PowerOfTwo(j) \in Nat /\ PowerOfTwo(j) > j
      BY <2>1, <3>1
    <3>3. PowerOfTwo(i) = 2 * PowerOfTwo(j)
      BY <1>2, <3>1, <3>2
    <3>. QED
      BY <3>1, <3>2, <3>3
  <2>. QED
    BY <2>1
<1>5. e \in fine
  <2>. HIDE DEF fine
  <2>. QED
    BY <1>3, <1>4, UpToAll
<1>. QED
  BY <1>1, <1>2, <1>5

LEMMA ShiftStep ==
  ASSUME NEW n \in Nat, NEW z \in Nat
  PROVE  Shifted(n, 0) = n /\ Shifted(n, z) \in Nat /\ Shifted(n, z + 1) = Shifted(n, z) \div 2
<1>. DEFINE fine == {i \in Nat : Shifted(n, i) \in Nat}
<1>1. Shifted(n, 0) = n /\ \A i \in Nat : Shifted(n, i + 1) = Halving[Shifted(n, i)]
  BY TimesStep DEF Shifted
<1>2. \A i \in Nat : Shifted(n, i) \in Nat => Shifted(n, i + 1) = Shifted(n, i) \div 2
  BY <1>1 DEF Halving
<1>3. 0 \in fine
  BY <1>1
<1>4. \A i \in 1..z : i - 1 \in fine => i \in fine
  <2>1. ASSUME NEW i \in 1..z, i - 1 \in fine PROVE i \in fine
    <3>1. PICK j \in Nat : j = i - 1 /\ i = j + 1
      OBVIOUS
    <3>2. PICK x \in Nat : x = Shifted(n, j)
      BY <2>1, <3>1
    <3>3. Shifted(n, i) = x \div 2
      BY <1>2, <3>1, <3>2
    <3>. QED
      BY <3>3
  <2>. QED
    BY <2>1
<1>5. z \in fine
  <2>. HIDE DEF fine
  <2>. QED
    BY <1>3, <1>4, UpToAll
<1>. QED
  BY <1>1, <1>2, <1>5

LEMMA PowersGrow ==
  ASSUME NEW b \in Nat
  PROVE  \A a \in 0..b : PowerOfTwo(a) <= PowerOfTwo(b)
<1>. DEFINE fine == {i \in Nat : \A a \in 0..i : PowerOfTwo(a) <= PowerOfTwo(i)}
<1>1. \A i \in Nat : PowerOfTwo(i) \in Nat /\ PowerOfTwo(i + 1) = 2 * PowerOfTwo(i)
  BY PowerStep
<1>2. 0 \in fine
  BY <1>1
<1>3. \A i \in 1..b : i - 1 \in fine => i \in fine
  <2>1. ASSUME NEW i \in 1..b, i - 1 \in fine PROVE i \in fine
    <3>1. PICK j \in Nat : j = i - 1 /\ i = j + 1
      OBVIOUS
    <3>2. PICK q \in Nat : q = PowerOfTwo(j)
      BY <1>1, <3>1
    <3>3. PowerOfTwo(i) = 2 * q
      BY <1>1, <3>1, <3>2
    <3>4. ASSUME NEW a \in 0..j PROVE PowerOfTwo(a) <= PowerOfTwo(i)
      <4>1. a \in Nat /\ PowerOfTwo(a) <= q
        BY <2>1, <3>1, <3>2
      <4>2. PICK p \in Nat : p = PowerOfTwo(a)
        BY <1>1, <4>1
      <4>. QED
        BY <3>3, <4>1, <4>2
    <3>5. \A a \in 0..i : a \in 0..j \/ a = i
      BY <3>1
    <3>6. PowerOfTwo(i) <= PowerOfTwo(i)
      BY <3>3
    <3>. QED
      BY <3>1, <3>4, <3>5, <3>6
  <2>. QED
    BY <2>1
<1>4. b \in fine
  <2>. HIDE DEF fine
  <2>. QED
    BY <1>2, <1>3, UpToAll
<1>. QED
  BY <1>4

\* Where a tree parts (_largest_power_of_two_less_than).
LEMMA SplitIs ==
  ASSUME NEW n \in Nat, NEW e \in Nat, PowerOfTwo(e) < n, n <= 2 * PowerOfTwo(e)
  PROVE  Split(n) = PowerOfTwo(e)
<1>1. \A i \in Nat : PowerOfTwo(i) \in Nat /\ PowerOfTwo(i) > i /\ PowerOfTwo(i + 1) = 2 * PowerOfTwo(i)
  BY PowerStep
<1>2. e \in 0..n
  BY <1>1
<1>3. PowerOfTwo(e) \in {PowerOfTwo(i) : i \in 0..n}
  BY <1>2
<1>4. ASSUME NEW k \in {PowerOfTwo(i) : i \in 0..n}, k < n, n <= 2 * k PROVE k = PowerOfTwo(e)
  <2>1. PICK i \in 0..n : k = PowerOfTwo(i)
    OBVIOUS
  <2>2. i \in Nat
    OBVIOUS
  <2>3. PICK p \in Nat, q \in Nat : p = PowerOfTwo(e) /\ q = PowerOfTwo(i)
    BY <1>1, <2>2
  <2>4. p < n /\ n <= 2 * p /\ q < n /\ n <= 2 * q
    BY <1>4, <2>1, <2>3
  <2>5. CASE i < e
    <3>1. i + 1 \in 0..e
      BY <2>2, <2>5
    <3>2. PowerOfTwo(i + 1) <= p
      BY <2>3, <3>1, PowersGrow
    <3>. QED
      BY <1>1, <2>2, <2>3, <2>4, <3>2
  <2>6. CASE e < i
    <3>1. e + 1 \in 0..i
      BY <2>2, <2>6
    <3>2. PowerOfTwo(e + 1) <= q
      BY <2>2, <2>3, <3>1, PowersGrow
    <3>. QED
      BY <1>1, <2>2, <2>3, <2>4, <3>2
  <2>7. CASE i = e
    BY <2>1, <2>7
  <2>. QED
    BY <2>2, <2>5, <2>6, <2>7
<1>. QED
  BY <1>3, <1>4 DEF Split

LEMMA SplitBounds ==
  ASSUME NEW n \in Nat, n > 1
  PROVE  Split(n) \in 1..(n - 1)
<1>. DEFINE enough == {e \in Nat : n <= 2 * PowerOfTwo(e)}
<1>1. \A i \in Nat : PowerOfTwo(i) \in Nat /\ PowerOfTwo(i) > i /\ PowerOfTwo(i + 1) = 2 * PowerOfTwo(i)
  BY PowerStep
<1>2. n \in enough
  <2>1. PICK p \in Nat : p = PowerOfTwo(n) /\ p > n
    BY <1>1
  <2>. QED
    BY <2>1
<1>3. PICK e \in enough : \A d \in enough : e <= d
  <2>. HIDE DEF enough
  <2>1. enough # {}
    BY <1>2
  <2>2. enough \in SUBSET Nat
    BY DEF enough
  <2>. QED
    BY <2>1, <2>2, LeastNumber
<1>4. PowerOfTwo(e) < n
  <2>1. CASE e = 0
    <3>1. PowerOfTwo(0) = 1
      BY PowerStep
    <3>. QED
      BY <2>1, <3>1
  <2>2. CASE e # 0
    <3>1. PICK d \in Nat : e = d + 1
      BY <2>2
    <3>2. ~(e <= d)
      BY <3>1
    <3>3. d \notin enough
      <4>. HIDE DEF enough
      <4>. QED
        BY <1>3, <3>2
    <3>4. PICK p \in Nat : p = PowerOfTwo(d)
      BY <1>1, <3>1
    <3>5. PowerOfTwo(e) = 2 * p
      BY <1>1, <3>1, <3>4
    <3>. QED
      BY <3>3, <3>4, <3>5, <3>1
  <2>. QED
    BY <2>1, <2>2
<1>5. Split(n) = PowerOfTwo(e)
  BY <1>4, SplitIs
<1>6. PICK p \in Nat : p = PowerOfTwo(e) /\ p > e
  BY <1>1
<1>. QED
  BY <1>4, <1>5, <1>6

LEMMA Larger ==
  ASSUME NEW a \in Nat, NEW b \in Nat, NEW p \in Nat, a <= b
  PROVE  a * p \in Nat /\ b * p \in Nat /\ a * p <= b * p
<1>1. PICK d \in Nat : b = a + d
  OBVIOUS
<1>2. b * p = a * p + d * p
  BY <1>1
<1>3. a * p \in Nat /\ d * p \in Nat
  OBVIOUS
<1>. QED
  BY <1>2, <1>3

\* Shifting out bits is dividing by a power of two.
LEMMA ShiftBounds ==
  ASSUME NEW n \in Nat, NEW z \in Nat
  PROVE  /\ Shifted(n, z) * PowerOfTwo(z) <= n
         /\ n < (Shifted(n, z) + 1) * PowerOfTwo(z)
<1>. DEFINE fine == {i \in Nat : Shifted(n, i) * PowerOfTwo(i) <= n /\ n < (Shifted(n, i) + 1) * PowerOfTwo(i)}
<1>1. \A i \in Nat : PowerOfTwo(i) \in Nat /\ PowerOfTwo(i + 1) = 2 * PowerOfTwo(i) /\ PowerOfTwo(0) = 1
  BY PowerStep
<1>2. \A i \in Nat : Shifted(n, 0) = n /\ Shifted(n, i) \in Nat /\ Shifted(n, i + 1) = Shifted(n, i) \div 2
  BY ShiftStep
<1>3. 0 \in fine
  <2>1. n * 1 <= n /\ n < (n + 1) * 1
    OBVIOUS
  <2>. QED
    BY <1>1, <1>2, <2>1
<1>4. \A i \in 1..z : i - 1 \in fine => i \in fine
  <2>1. ASSUME NEW i \in 1..z, i - 1 \in fine PROVE i \in fine
    <3>1. PICK j \in Nat : j = i - 1 /\ i = j + 1
      OBVIOUS
    <3>2. PICK x \in Nat, p \in Nat : x = Shifted(n, j) /\ p = PowerOfTwo(j)
      BY <1>1, <1>2, <3>1
    <3>3. PICK y \in Nat : y = x \div 2 /\ (x = 2 * y \/ x = 2 * y + 1)
      OBVIOUS
    <3>4. Shifted(n, i) = y /\ PowerOfTwo(i) = 2 * p
      BY <1>1, <1>2, <3>1, <3>2, <3>3
    <3>5. x * p <= n /\ n < (x + 1) * p
      BY <2>1, <3>1, <3>2
    <3>6. PICK q \in Nat : q = y * p
      OBVIOUS
    <3>7. (x * p = 2 * q /\ (x + 1) * p = 2 * q + p) \/ (x * p = 2 * q + p /\ (x + 1) * p = 2 * q + 2 * p)
      BY <3>3, <3>6
    <3>8. y * (2 * p) = 2 * q /\ (y + 1) * (2 * p) = 2 * q + 2 * p
      BY <3>6
    <3>9. y * (2 * p) <= n /\ n < (y + 1) * (2 * p)
      BY <3>5, <3>7, <3>8
    <3>. QED
      BY <3>1, <3>4, <3>9
  <2>. QED
    BY <2>1
<1>5. z \in fine
  <2>. HIDE DEF fine
  <2>. QED
    BY <1>3, <1>4, UpToAll
<1>. QED
  BY <1>5

LEMMA ShiftedOut ==
  ASSUME NEW n \in Nat
  PROVE  Shifted(n, n) = 0
<1>1. PICK p \in Nat, q \in Nat : p = PowerOfTwo(n) /\ q = Shifted(n, n)
  BY PowerStep, ShiftStep
<1>2. p > n
  BY <1>1, PowerStep
<1>3. q * p <= n
  BY <1>1, ShiftBounds
<1>4. CASE q >= 1
  <2>1. 1 * p <= q * p
    BY <1>4, Larger
  <2>. QED
    BY <1>2, <1>3, <2>1
<1>. QED
  BY <1>1, <1>4

LEMMA ShiftsToIs ==
  ASSUME NEW n \in Nat, NEW bit \in {0, 1}, bit = 1 => n > 0
  PROVE  /\ ShiftsTo(bit, n) \in 0..n /\ Shifted(n, ShiftsTo(bit, n)) % 2 = bit
         /\ \A y \in 0..(ShiftsTo(bit, n) - 1) : Shifted(n, y) % 2 # bit
<1>. DEFINE there == {z \in Nat : Shifted(n, z) % 2 = bit}
<1>1. \E z \in 0..n : z \in there
  <2>1. CASE bit = 0
    <3>1. Shifted(n, n) % 2 = 0
      BY ShiftedOut
    <3>. QED
      BY <2>1, <3>1
  <2>2. CASE bit = 1
    <3>1. SUFFICES ASSUME \A z \in 0..n : z \notin there PROVE FALSE
      OBVIOUS
    <3>. DEFINE more == {z \in Nat : Shifted(n, z) > 0}
    <3>2. 0 \in more
      BY <2>2, ShiftStep
    <3>3. \A z \in 1..n : z - 1 \in more => z \in more
      <4>1. ASSUME NEW z \in 1..n, z - 1 \in more PROVE z \in more
        <5>1. PICK y \in Nat : y = z - 1 /\ z = y + 1
          OBVIOUS
        <5>2. PICK x \in Nat : x = Shifted(n, y)
          BY ShiftStep
        <5>3. Shifted(n, z) = x \div 2
          BY <5>1, <5>2, ShiftStep
        <5>4. x > 0 /\ x % 2 # 1
          BY <2>2, <3>1, <4>1, <5>1, <5>2
        <5>. QED
          BY <5>3, <5>4
      <4>. QED
        BY <4>1
    <3>4. n \in more
      <4>. HIDE DEF more
      <4>. QED
        BY <3>2, <3>3, UpToAll
    <3>. QED
      BY <3>4, ShiftedOut
  <2>. QED
    BY <2>1, <2>2
<1>2. PICK z \in there : \A y \in there : z <= y
  <2>1. there # {} /\ there \in SUBSET Nat
    BY <1>1
  <2>. HIDE DEF there
  <2>. QED
    BY <2>1, LeastNumber
<1>3. z \in 0..n
  BY <1>1, <1>2
<1>4. \A y \in 0..(z - 1) : Shifted(n, y) % 2 # bit
  <2>1. ASSUME NEW y \in 0..(z - 1) PROVE y \notin there
    <3>1. y \in Nat /\ ~(z <= y)
      BY <1>3
    <3>. HIDE DEF there
    <3>. QED
      BY <1>2, <3>1
  <2>2. \A y \in 0..(z - 1) : y \in Nat
    OBVIOUS
  <2>. QED
    BY <2>1, <2>2
<1>. DEFINE is(x) == Shifted(n, x) % 2 = bit /\ \A y \in 0..(x - 1) : Shifted(n, y) % 2 # bit
<1>5. z \in 0..n /\ is(z)
  BY <1>2, <1>3, <1>4
<1>6. ShiftsTo(bit, n) = CHOOSE x \in 0..n : is(x)
  BY DEF ShiftsTo
<1>7. ShiftsTo(bit, n) \in 0..n /\ is(ShiftsTo(bit, n))
  <2>. HIDE DEF is
  <2>. QED
    BY <1>5, <1>6
<1>. QED
  BY <1>7

-----------------------------------------------------------------------------
(* Roots of segments *)

LEMMA NodeTells ==
  ASSUME NEW a, NEW b, NEW c, NEW d, NodeHash(a, b) = NodeHash(c, d)
  PROVE  a = c /\ b = d
<1>1. <<a, b>> = <<c, d>>
  BY DEF NodeHash
<1>. QED
  BY <1>1

LEMMA PartsOf ==
  ASSUME NEW n \in Nat, NEW s \in Segments(n), s[2] > 1
  PROVE  /\ Left(s) \in Segments(n) /\ Right(s) \in Segments(n)
         /\ Left(s)[2] \in 1..(s[2] - 1) /\ Right(s)[2] \in 1..(s[2] - 1)
<1>1. PICK from \in 0..n, size \in 0..n : s = <<from, size>> /\ from + size <= n
  BY DEF Segments
<1>2. Split(size) \in 1..(size - 1)
  BY <1>1, SplitBounds
<1>3. PICK k \in 1..(size - 1) : k = Split(size)
  BY <1>2
<1>4. Left(s) = <<from, k>> /\ Right(s) = <<from + k, size - k>>
  BY <1>1, <1>3 DEF Left, Right
<1>. QED
  BY <1>1, <1>3, <1>4 DEF Segments

\* What the three recursions over segments say of one segment.
RootHere(leaves, g, s) ==
  IF s[2] = 0 THEN <<>> ELSE IF s[2] = 1 THEN leaves[s[1] + 1] ELSE NodeHash(g[Left(s)], g[Right(s)])
InclusionHere(index, leaves, g, s) ==
  IF s[2] <= 1 THEN <<>>
  ELSE IF index < Right(s)[1] THEN Append(g[Left(s)], Roots(leaves)[Right(s)])
  ELSE Append(g[Right(s)], Roots(leaves)[Left(s)])
ConsistencyHere(first, leaves, g, s) ==
  IF s[1] + s[2] = first THEN IF s[1] = 0 THEN <<>> ELSE <<Roots(leaves)[s]>>
  ELSE IF first <= Right(s)[1] THEN Append(g[Left(s)], Roots(leaves)[Right(s)])
  ELSE Append(g[Right(s)], Roots(leaves)[Left(s)])

Here(op, k, leaves, g, s) ==
  IF op = "root" THEN RootHere(leaves, g, s)
  ELSE IF op = "inclusion" THEN InclusionHere(k, leaves, g, s) ELSE ConsistencyHere(k, leaves, g, s)
Over(op, k, n) == IF op = "consistency" THEN Holding(k, n) ELSE Segments(n)
Small(op, k, n, m) == {s \in Over(op, k, n) : s[2] <= m}
UpTo(op, k, leaves, m, g) == g = [s \in Small(op, k, Len(leaves), m) |-> Here(op, k, leaves, g, s)]

LEMMA UpToAre ==
  ASSUME NEW op, NEW k, NEW leaves, NEW m, NEW g, UpTo(op, k, leaves, m, g)
  PROVE  \A s \in Small(op, k, Len(leaves), m) : g[s] = Here(op, k, leaves, g, s)
<1>. DEFINE at(s) == Here(op, k, leaves, g, s)
<1>1. g = [s \in Small(op, k, Len(leaves), m) |-> at(s)]
  BY DEF UpTo
<1>. HIDE DEF at
<1>2. \A s \in Small(op, k, Len(leaves), m) : g[s] = at(s)
  BY <1>1
<1>. QED
  BY <1>2 DEF at

\* They look only at segments that are smaller.
Alike(g, h, dom) == \A s \in dom : g[s] = h[s]
LEMMA HereLooksBelow ==
  ASSUME NEW op \in {"root", "inclusion", "consistency"}, NEW k \in Nat, NEW leaves, NEW n \in Nat,
         NEW m \in Nat, NEW g, NEW h, NEW s \in Small(op, k, n, m + 1),
         Alike(g, h, Small(op, k, n, m))
  PROVE  Here(op, k, leaves, g, s) = Here(op, k, leaves, h, s)
<1>1. PICK from \in Nat, size \in Nat :
        s[1] = from /\ s[2] = size /\ size <= m + 1 /\ s \in Over(op, k, n) /\ s \in Segments(n)
  BY DEF Small, Over, Segments, Holding
<1>2. CASE size > 1
  <2>1. /\ Left(s) \in Segments(n) /\ Right(s) \in Segments(n)
        /\ Left(s)[2] \in 1..(size - 1) /\ Right(s)[2] \in 1..(size - 1)
    BY <1>1, <1>2, PartsOf
  <2>2. Left(s)[2] <= m /\ Right(s)[2] <= m
    BY <1>1, <2>1
  <2>3. CASE op # "consistency"
    <3>1. g[Left(s)] = h[Left(s)] /\ g[Right(s)] = h[Right(s)]
      BY <2>1, <2>2, <2>3 DEF Small, Over, Alike
    <3>. QED
      BY <2>3, <3>1 DEF Here, RootHere, InclusionHere
  <2>4. CASE op = "consistency"
    <3>1. from < k /\ k <= from + size
      BY <1>1, <2>4 DEF Over, Holding
    <3>2. PICK d \in Nat : d = Split(size) /\ d <= size
      BY <1>2, SplitBounds
    <3>3. Left(s) = <<from, d>> /\ Right(s) = <<from + d, size - d>>
      BY <1>1, <3>2 DEF Left, Right
    <3>4. /\ Left(s)[1] = from /\ Left(s)[2] = d /\ Right(s)[1] = from + d
          /\ Right(s)[1] + Right(s)[2] = from + size
      BY <3>2, <3>3
    <3>5. k <= Right(s)[1] => g[Left(s)] = h[Left(s)]
      <4>1. SUFFICES ASSUME k <= Right(s)[1] PROVE Left(s) \in Small(op, k, n, m)
        BY DEF Alike
      <4>. QED
        BY <2>1, <2>2, <2>4, <3>1, <3>4, <4>1 DEF Small, Over, Holding
    <3>6. ~(k <= Right(s)[1]) => g[Right(s)] = h[Right(s)]
      <4>1. SUFFICES ASSUME ~(k <= Right(s)[1]) PROVE Right(s) \in Small(op, k, n, m)
        BY DEF Alike
      <4>. QED
        BY <2>1, <2>2, <2>4, <3>1, <3>4, <4>1 DEF Small, Over, Holding
    <3>. QED
      BY <2>4, <3>5, <3>6 DEF Here, ConsistencyHere
  <2>. QED
    BY <2>3, <2>4
<1>3. CASE ~(size > 1)
  <2>1. size = 0 \/ size = 1
    BY <1>3
  <2>2. op = "consistency" => from + size = k
    BY <1>1, <2>1 DEF Over, Holding
  <2>. QED
    BY <1>1, <2>1, <2>2 DEF Here, RootHere, InclusionHere, ConsistencyHere
<1>. QED
  BY <1>2, <1>3

LEMMA SomeUpTo ==
  ASSUME NEW op \in {"root", "inclusion", "consistency"}, NEW k \in Nat, NEW leaves, Len(leaves) \in Nat
  PROVE  \E g : UpTo(op, k, leaves, Len(leaves), g)
<1>1. PICK n \in Nat : n = Len(leaves)
  OBVIOUS
<1>. DEFINE fine == {m \in Nat : \E g : UpTo(op, k, leaves, m, g)}
            small(m) == Small(op, k, n, m)
<1>2. \A m \in Nat : \A s \in small(m) : s[2] \in Nat /\ s[1] \in Nat
  BY DEF Small, Over, Holding, Segments
<1>3. 0 \in fine
  <2>. DEFINE g == [s \in small(0) |-> <<>>]
  <2>1. ASSUME NEW s \in small(0) PROVE Here(op, k, leaves, g, s) = <<>>
    <3>1. s[2] = 0
      BY <1>2 DEF Small
    <3>2. op # "consistency"
      BY <1>2, <3>1 DEF Small, Over, Holding
    <3>. HIDE DEF g
    <3>. QED
      BY <3>1, <3>2 DEF Here, RootHere, InclusionHere
  <2>2. g = [s \in small(0) |-> Here(op, k, leaves, g, s)]
    BY <2>1
  <2>. HIDE DEF g
  <2>3. UpTo(op, k, leaves, 0, g)
    BY <1>1, <2>2 DEF UpTo
  <2>. QED
    BY <2>3
<1>4. ASSUME NEW m \in Nat, m \in fine PROVE m + 1 \in fine
  <2>1. PICK g : UpTo(op, k, leaves, m, g)
    BY <1>4
  <2>2. \A s \in small(m) : g[s] = Here(op, k, leaves, g, s)
    BY <1>1, <2>1, UpToAre
  <2>. DEFINE h == [s \in small(m + 1) |-> IF s[2] <= m THEN g[s] ELSE Here(op, k, leaves, g, s)]
  <2>3. \A s \in small(m + 1) : h[s] = Here(op, k, leaves, g, s)
    <3>1. \A s \in small(m + 1) : s[2] <= m => s \in small(m)
      BY DEF Small
    <3>. QED
      BY <2>2, <3>1
  <2>4. Alike(g, h, small(m))
    <3>1. \A s \in small(m) : s \in small(m + 1) /\ s[2] <= m
      BY <1>2 DEF Small
    <3>. QED
      BY <3>1 DEF Alike
  <2>5. h = [s \in small(m + 1) |-> h[s]]
    OBVIOUS
  <2>. HIDE DEF h
  <2>6. \A s \in small(m + 1) : Here(op, k, leaves, g, s) = Here(op, k, leaves, h, s)
    BY <2>4, HereLooksBelow
  <2>7. \A s \in small(m + 1) : h[s] = Here(op, k, leaves, h, s)
    BY <2>3, <2>6
  <2>8. h = [s \in small(m + 1) |-> Here(op, k, leaves, h, s)]
    BY <2>5, <2>7
  <2>9. UpTo(op, k, leaves, m + 1, h)
    BY <1>1, <2>8 DEF UpTo
  <2>. QED
    BY <2>9
<1>5. \A m \in 1..n : m - 1 \in fine => m \in fine
  <2>1. ASSUME NEW m \in 1..n, m - 1 \in fine PROVE m \in fine
    <3>1. m - 1 \in Nat /\ (m - 1) + 1 = m
      OBVIOUS
    <3>. HIDE DEF fine
    <3>. QED
      BY <1>4, <2>1, <3>1
  <2>. QED
    BY <2>1
<1>6. 0..n \subseteq fine
  <2>. HIDE DEF fine
  <2>. QED
    BY <1>3, <1>5, UpToAll, Zenon
<1>7. n \in fine
  <2>. HIDE DEF fine
  <2>. QED
    BY <1>6
<1>. QED
  BY <1>1, <1>7

LEMMA AllAreSmall ==
  ASSUME NEW op, NEW k, NEW n \in Nat
  PROVE  Over(op, k, n) = Small(op, k, n, n)
  BY DEF Over, Small, Segments, Holding

\* The root of a segment is its leaf or the hash of the roots of its parts (merkle_tree_hash).
LEMMA RootsAre ==
  ASSUME NEW leaves, Len(leaves) \in Nat, NEW s \in Segments(Len(leaves)), s[2] > 0
  PROVE  /\ s[2] = 1 => Roots(leaves)[s] = leaves[s[1] + 1]
         /\ s[2] > 1 => Roots(leaves)[s] = NodeHash(Roots(leaves)[Left(s)], Roots(leaves)[Right(s)])
<1>1. Segments(Len(leaves)) = Small("root", 0, Len(leaves), Len(leaves))
  BY AllAreSmall DEF Over
<1>2. Roots(leaves) = CHOOSE g : UpTo("root", 0, leaves, Len(leaves), g)
  BY <1>1 DEF Roots, UpTo, Here, RootHere
<1>3. UpTo("root", 0, leaves, Len(leaves), Roots(leaves))
  BY <1>2, SomeUpTo
<1>4. Roots(leaves)[s] = Here("root", 0, leaves, Roots(leaves), s)
  BY <1>1, <1>3, UpToAre
<1>. QED
  BY <1>4 DEF Here, RootHere

LEMMA EmptyRoot ==
  ASSUME NEW leaves, Len(leaves) \in Nat, NEW s \in Segments(Len(leaves)), s[2] = 0
  PROVE  Roots(leaves)[s] = <<>>
<1>1. Segments(Len(leaves)) = Small("root", 0, Len(leaves), Len(leaves))
  BY AllAreSmall DEF Over
<1>2. Roots(leaves) = CHOOSE g : UpTo("root", 0, leaves, Len(leaves), g)
  BY <1>1 DEF Roots, UpTo, Here, RootHere
<1>3. UpTo("root", 0, leaves, Len(leaves), Roots(leaves))
  BY <1>2, SomeUpTo
<1>4. Roots(leaves)[s] = Here("root", 0, leaves, Roots(leaves), s)
  BY <1>1, <1>3, UpToAre
<1>. QED
  BY <1>4 DEF Here, RootHere

\* A consistency path is a sequence of roots of subtrees.
RootsOf(leaves) == {Roots(leaves)[s] : s \in Segments(Len(leaves))}
LEMMA ConsistencyPathType ==
  ASSUME NEW leaves, Len(leaves) \in Nat, NEW first \in 1..Len(leaves)
  PROVE  ConsistencyPath(first, leaves) \in Seq(RootsOf(leaves))
<1>1. PICK n \in Nat, k \in Nat : n = Len(leaves) /\ k = first /\ k \in 1..n
  OBVIOUS
<1>. DEFINE S == RootsOf(leaves)
            g == CHOOSE f : UpTo("consistency", k, leaves, n, f)
            whole == Small("consistency", k, n, n)
            fine == {m \in Nat : \A s \in whole : s[2] <= m => g[s] \in Seq(S)}
<1>2. Holding(k, n) = whole
  BY AllAreSmall DEF Over
<1>3. ConsistencyPath(first, leaves) = g[<<0, n>>]
  BY <1>1, <1>2 DEF ConsistencyPath, UpTo, Here, ConsistencyHere
<1>4. \A s \in whole : g[s] = Here("consistency", k, leaves, g, s)
  <2>1. UpTo("consistency", k, leaves, n, g)
    BY <1>1, SomeUpTo
  <2>. HIDE DEF g
  <2>. QED
    BY <1>1, <2>1, UpToAre
<1>. HIDE DEF g
<1>5. \A s \in Segments(n) : Roots(leaves)[s] \in S
  BY <1>1 DEF RootsOf
<1>. HIDE DEF S
<1>6. 0 \in fine
  BY <1>2 DEF Holding, Segments
<1>7. ASSUME NEW m \in 1..n, m - 1 \in fine PROVE m \in fine
  <2>1. ASSUME NEW s \in whole, s[2] <= m PROVE g[s] \in Seq(S)
    <3>1. PICK from \in Nat, size \in Nat :
            /\ s[1] = from /\ s[2] = size /\ s \in Segments(n) /\ from < k /\ k <= from + size /\ size <= m
      BY <1>2, <2>1 DEF Holding, Segments
    <3>2. g[s] = ConsistencyHere(k, leaves, g, s)
      BY <1>4 DEF Here
    <3>3. CASE from + size = k
      BY <1>5, <3>1, <3>2, <3>3 DEF ConsistencyHere
    <3>4. CASE from + size # k
      <4>1. size > 1
        BY <3>1, <3>4
      <4>2. /\ Left(s) \in Segments(n) /\ Right(s) \in Segments(n)
            /\ Left(s)[2] \in 1..(size - 1) /\ Right(s)[2] \in 1..(size - 1)
        BY <3>1, <4>1, PartsOf
      <4>3. PICK d \in Nat : d = Split(size) /\ d <= size
        BY <4>1, SplitBounds
      <4>4. Left(s) = <<from, d>> /\ Right(s) = <<from + d, size - d>>
        BY <3>1, <4>3 DEF Left, Right
      <4>5. /\ Left(s)[1] = from /\ Left(s)[2] = d /\ Right(s)[1] = from + d
            /\ Right(s)[1] + Right(s)[2] = from + size
        BY <4>3, <4>4
      <4>6. Left(s)[2] <= m - 1 /\ Right(s)[2] <= m - 1
        BY <3>1, <4>2
      <4>7. PICK l, r, hl, hr : /\ l = g[Left(s)] /\ r = g[Right(s)]
                                /\ hl = Roots(leaves)[Left(s)] /\ hr = Roots(leaves)[Right(s)]
        OBVIOUS
      <4>8. hl \in S /\ hr \in S
        BY <1>5, <4>2, <4>7
      <4>9. CASE k <= from + d
        <5>1. Left(s) \in whole
          BY <1>2, <3>1, <4>2, <4>5, <4>9 DEF Holding
        <5>2. l \in Seq(S)
          BY <1>7, <4>6, <4>7, <5>1
        <5>3. g[s] = Append(l, hr)
          BY <3>1, <3>2, <3>4, <4>5, <4>7, <4>9 DEF ConsistencyHere
        <5>. QED
          BY <4>8, <5>2, <5>3
      <4>10. CASE ~(k <= from + d)
        <5>1. Right(s) \in whole
          BY <1>2, <3>1, <4>2, <4>5, <4>10 DEF Holding
        <5>2. r \in Seq(S)
          BY <1>7, <4>6, <4>7, <5>1
        <5>3. g[s] = Append(r, hl)
          BY <3>1, <3>2, <3>4, <4>5, <4>7, <4>10 DEF ConsistencyHere
        <5>. QED
          BY <4>8, <5>2, <5>3
      <4>. QED
        BY <4>9, <4>10
    <3>. QED
      BY <3>3, <3>4
  <2>. QED
    BY <2>1
<1>8. n \in fine
  <2>1. \A m \in 1..n : m - 1 \in fine => m \in fine
    BY <1>7
  <2>. HIDE DEF fine
  <2>2. 0..n \subseteq fine
    BY <1>6, <2>1, UpToAll, Zenon
  <2>. QED
    BY <2>2
<1>9. PICK s : s = <<0, n>>
  OBVIOUS
<1>10. s \in whole /\ s[2] <= n
  BY <1>1, <1>2, <1>9 DEF Holding, Segments
<1>11. g[s] \in Seq(S)
  BY <1>8, <1>10
<1>. QED
  BY <1>3, <1>9, <1>11 DEF S

\* Segments with the same root have the same leaves.
SameLeaves(one, other, from, to) == \A i \in (from + 1)..to : one[i] = other[i]
LEMMA RootTells ==
  ASSUME NEW one, NEW other, Len(one) \in Nat, Len(other) \in Nat, NEW k \in Nat
  PROVE  \A s \in Segments(Len(one)) \cap Segments(Len(other)) :
           s[2] \in 1..k /\ Roots(one)[s] = Roots(other)[s] => SameLeaves(one, other, s[1], s[1] + s[2])
<1>1. PICK n \in Nat, l \in Nat : n = Len(one) /\ l = Len(other)
  OBVIOUS
<1>. DEFINE both == Segments(n) \cap Segments(l)
            fine == {m \in Nat : \A s \in both :
              s[2] \in 1..m /\ Roots(one)[s] = Roots(other)[s] => SameLeaves(one, other, s[1], s[1] + s[2])}
<1>2. 0 \in fine
  OBVIOUS
<1>3. ASSUME NEW m \in 1..k, m - 1 \in fine PROVE m \in fine
  <2>1. ASSUME NEW s \in both, s[2] \in 1..m, Roots(one)[s] = Roots(other)[s]
        PROVE  SameLeaves(one, other, s[1], s[1] + s[2])
    <3>1. PICK from \in Nat, size \in Nat : s = <<from, size>>
      BY DEF Segments
    <3>2. s[1] = from /\ s[2] = size /\ size \in 1..m
      BY <2>1, <3>1
    <3>3. s \in Segments(n) /\ s \in Segments(l)
      OBVIOUS
    <3>4. CASE size = 1
      <4>1. Roots(one)[s] = one[from + 1]
        BY <1>1, <3>2, <3>3, <3>4, RootsAre
      <4>2. Roots(other)[s] = other[from + 1]
        BY <1>1, <3>2, <3>3, <3>4, RootsAre
      <4>3. \A i \in (from + 1)..(from + size) : i = from + 1
        BY <3>4
      <4>. QED
        BY <2>1, <3>2, <4>1, <4>2, <4>3 DEF SameLeaves
    <3>5. CASE size > 1
      <4>1. Roots(one)[s] = NodeHash(Roots(one)[Left(s)], Roots(one)[Right(s)])
        BY <1>1, <3>2, <3>3, <3>5, RootsAre
      <4>2. Roots(other)[s] = NodeHash(Roots(other)[Left(s)], Roots(other)[Right(s)])
        BY <1>1, <3>2, <3>3, <3>5, RootsAre
      <4>3. Roots(one)[Left(s)] = Roots(other)[Left(s)] /\ Roots(one)[Right(s)] = Roots(other)[Right(s)]
        <5>1. PICK a, b, c, d : /\ a = Roots(one)[Left(s)] /\ b = Roots(one)[Right(s)]
                                /\ c = Roots(other)[Left(s)] /\ d = Roots(other)[Right(s)]
          OBVIOUS
        <5>2. NodeHash(a, b) = NodeHash(c, d)
          BY <2>1, <4>1, <4>2, <5>1
        <5>. QED
          BY <5>1, <5>2, NodeTells
      <4>4. /\ Left(s) \in both /\ Right(s) \in both
            /\ Left(s)[2] \in 1..(size - 1) /\ Right(s)[2] \in 1..(size - 1)
        BY <3>2, <3>3, <3>5, PartsOf
      <4>5. Left(s)[2] \in 1..(m - 1) /\ Right(s)[2] \in 1..(m - 1)
        BY <3>2, <4>4
      <4>6. /\ SameLeaves(one, other, Left(s)[1], Left(s)[1] + Left(s)[2])
            /\ SameLeaves(one, other, Right(s)[1], Right(s)[1] + Right(s)[2])
        BY <1>3, <4>3, <4>4, <4>5
      <4>7. PICK d \in Nat : d = Split(size) /\ d <= size
        BY <3>5, SplitBounds
      <4>8. Left(s) = <<from, d>> /\ Right(s) = <<from + d, size - d>>
        BY <3>1, <4>7 DEF Left, Right
      <4>9. Left(s)[1] = from /\ Left(s)[2] = d /\ Right(s)[1] = from + d /\ Right(s)[2] = size - d
        BY <4>8
      <4>10. SameLeaves(one, other, from, from + d) /\ SameLeaves(one, other, from + d, (from + d) + (size - d))
        BY <4>6, <4>9
      <4>11. \A i \in (from + 1)..(from + size) :
               i \in (from + 1)..(from + d) \/ i \in (from + d + 1)..((from + d) + (size - d))
        BY <4>7
      <4>. QED
        BY <3>2, <4>10, <4>11 DEF SameLeaves
    <3>. QED
      BY <3>2, <3>4, <3>5
  <2>. QED
    BY <2>1
<1>4. k \in fine
  <2>. HIDE DEF fine
  <2>. QED
    BY <1>2, <1>3, UpToAll
<1>. QED
  BY <1>1, <1>4

-----------------------------------------------------------------------------
(* Levels: the nodes of a tree from the leaves up *)

NodeAt(n, level, j) ==
  <<j * PowerOfTwo(level),
    IF (j + 1) * PowerOfTwo(level) <= n THEN PowerOfTwo(level) ELSE n - j * PowerOfTwo(level)>>
HashAt(leaves, level, j) == Roots(leaves)[NodeAt(Len(leaves), level, j)]
EdgeAt(n, level) == Shifted(n - 1, level)

LEMMA WithinEdge ==
  ASSUME NEW n \in Nat, n > 0, NEW level \in Nat, NEW j \in Nat
  PROVE  EdgeAt(n, level) \in Nat /\ (j <= EdgeAt(n, level) <=> j * PowerOfTwo(level) < n)
<1>1. PICK m \in Nat : m = n - 1
  OBVIOUS
<1>2. PICK e \in Nat, p \in Nat : e = EdgeAt(n, level) /\ p = PowerOfTwo(level)
  BY <1>1, PowerStep, ShiftStep DEF EdgeAt
<1>3. e * p <= m /\ m < (e + 1) * p
  BY <1>1, <1>2, ShiftBounds DEF EdgeAt
<1>4. ASSUME j <= e PROVE j * p < n
  <2>1. j * p <= e * p /\ j * p \in Nat /\ e * p \in Nat
    BY <1>4, Larger
  <2>. QED
    BY <1>1, <1>3, <2>1
<1>5. ASSUME ~(j <= e) PROVE ~(j * p < n)
  <2>1. e + 1 \in Nat /\ e + 1 <= j
    BY <1>5
  <2>2. (e + 1) * p <= j * p /\ j * p \in Nat /\ (e + 1) * p \in Nat
    BY <2>1, Larger
  <2>. QED
    BY <1>1, <1>3, <2>2
<1>. QED
  BY <1>2, <1>4, <1>5

LEMMA NodeIn ==
  ASSUME NEW n \in Nat, n > 0, NEW level \in Nat, NEW j \in Nat, j <= EdgeAt(n, level)
  PROVE  /\ NodeAt(n, level, j) \in Segments(n) /\ NodeAt(n, level, j)[2] \in 1..n
         /\ NodeAt(n, level, j)[1] = j * PowerOfTwo(level)
<1>1. PICK p \in Nat : p = PowerOfTwo(level) /\ p > 0
  BY PowerStep
<1>2. j * p < n
  BY <1>1, WithinEdge
<1>3. PICK x \in Nat : x = j * p
  OBVIOUS
<1>4. (j + 1) * p = x + p
  BY <1>3
<1>. QED
  BY <1>1, <1>2, <1>3, <1>4 DEF NodeAt, Segments

LEMMA NodeParts ==
  ASSUME NEW n \in Nat, n > 0, NEW level \in Nat, NEW j \in Nat, 2 * j <= EdgeAt(n, level)
  PROVE  /\ 2 * j = EdgeAt(n, level) => NodeAt(n, level + 1, j) = NodeAt(n, level, 2 * j)
         /\ 2 * j + 1 <= EdgeAt(n, level) =>
              /\ NodeAt(n, level + 1, j)[2] > 1
              /\ Left(NodeAt(n, level + 1, j)) = NodeAt(n, level, 2 * j)
              /\ Right(NodeAt(n, level + 1, j)) = NodeAt(n, level, 2 * j + 1)
<1>1. PICK p \in Nat : p = PowerOfTwo(level) /\ p > 0
  BY PowerStep
<1>2. PowerOfTwo(level + 1) = 2 * p
  BY <1>1, PowerStep
<1>3. PICK x \in Nat : x = j * p
  BY <1>1
<1>4. /\ j * (2 * p) = 2 * x /\ (j + 1) * (2 * p) = 2 * x + 2 * p /\ (2 * j) * p = 2 * x
      /\ (2 * j + 1) * p = 2 * x + p /\ ((2 * j + 1) + 1) * p = 2 * x + 2 * p
  BY <1>3
<1>5. (2 * j + 1 <= EdgeAt(n, level) <=> 2 * x + p < n) /\ 2 * x < n
  <2>1. PICK a \in Nat, b \in Nat : a = 2 * j /\ b = 2 * j + 1
    OBVIOUS
  <2>2. (b <= EdgeAt(n, level) <=> b * p < n) /\ a * p < n
    BY <1>1, <2>1, WithinEdge
  <2>. QED
    BY <1>4, <2>1, <2>2
<1>6. EdgeAt(n, level) \in Nat
  BY WithinEdge
<1>7. NodeAt(n, level + 1, j) = <<2 * x, IF 2 * x + 2 * p <= n THEN 2 * p ELSE n - 2 * x>>
  BY <1>2, <1>4 DEF NodeAt
<1>8. NodeAt(n, level, 2 * j) = <<2 * x, IF 2 * x + p <= n THEN p ELSE n - 2 * x>>
  BY <1>1, <1>4 DEF NodeAt
<1>9. NodeAt(n, level, 2 * j + 1) = <<2 * x + p, IF 2 * x + 2 * p <= n THEN p ELSE n - (2 * x + p)>>
  BY <1>1, <1>4 DEF NodeAt
<1>10. ASSUME 2 * j = EdgeAt(n, level) PROVE NodeAt(n, level + 1, j) = NodeAt(n, level, 2 * j)
  <2>1. ~(2 * j + 1 <= EdgeAt(n, level))
    BY <1>10
  <2>2. n <= 2 * x + p
    BY <1>5, <2>1
  <2>3. (IF 2 * x + 2 * p <= n THEN 2 * p ELSE n - 2 * x) = (IF 2 * x + p <= n THEN p ELSE n - 2 * x)
    BY <1>1, <2>2
  <2>. QED
    BY <1>7, <1>8, <2>3
<1>11. ASSUME 2 * j + 1 <= EdgeAt(n, level)
       PROVE /\ NodeAt(n, level + 1, j)[2] > 1
             /\ Left(NodeAt(n, level + 1, j)) = NodeAt(n, level, 2 * j)
             /\ Right(NodeAt(n, level + 1, j)) = NodeAt(n, level, 2 * j + 1)
  <2>1. 2 * x + p < n
    BY <1>5, <1>11
  <2>2. PICK size \in Nat : size = IF 2 * x + 2 * p <= n THEN 2 * p ELSE n - 2 * x
    <3>1. 2 * p \in Nat /\ n - 2 * x \in Nat
      BY <1>5
    <3>2. (IF 2 * x + 2 * p <= n THEN 2 * p ELSE n - 2 * x) \in Nat
      BY <3>1
    <3>. QED
      BY <3>2
  <2>3. p < size /\ size <= 2 * p
    BY <1>1, <2>1, <2>2
  <2>4. Split(size) = p
    BY <1>1, <2>3, SplitIs
  <2>5. NodeAt(n, level + 1, j) = <<2 * x, size>>
    BY <1>7, <2>2
  <2>6. Left(<<2 * x, size>>) = <<2 * x, p>> /\ Right(<<2 * x, size>>) = <<2 * x + p, size - p>>
    BY <2>4 DEF Left, Right
  <2>7. size - p = (IF 2 * x + 2 * p <= n THEN p ELSE n - (2 * x + p)) /\ 2 * x + p <= n
    BY <2>1, <2>2
  <2>8. size > 1
    BY <1>1, <2>3
  <2>. QED
    BY <1>8, <1>9, <2>5, <2>6, <2>7, <2>8
<1>. QED
  BY <1>10, <1>11

\* A node is the hash of the two below it, or the one below it where the edge is a left one.
LEMMA HashParts ==
  ASSUME NEW leaves, NEW n \in Nat, n = Len(leaves), n > 0,
         NEW level \in Nat, NEW j \in Nat, 2 * j <= EdgeAt(n, level)
  PROVE  /\ 2 * j = EdgeAt(n, level) => HashAt(leaves, level + 1, j) = HashAt(leaves, level, 2 * j)
         /\ 2 * j + 1 <= EdgeAt(n, level) =>
              HashAt(leaves, level + 1, j) =
                NodeHash(HashAt(leaves, level, 2 * j), HashAt(leaves, level, 2 * j + 1))
<1>1. ASSUME 2 * j + 1 <= EdgeAt(n, level)
      PROVE  HashAt(leaves, level + 1, j) =
               NodeHash(HashAt(leaves, level, 2 * j), HashAt(leaves, level, 2 * j + 1))
  <2>1. PICK s : s = NodeAt(n, level + 1, j)
    OBVIOUS
  <2>2. s[2] > 1 /\ Left(s) = NodeAt(n, level, 2 * j) /\ Right(s) = NodeAt(n, level, 2 * j + 1)
    BY <1>1, <2>1, NodeParts
  <2>3. s \in Segments(n)
    <3>1. EdgeAt(n, level + 1) = EdgeAt(n, level) \div 2
      BY ShiftStep DEF EdgeAt
    <3>2. j <= EdgeAt(n, level + 1)
      <4>1. PICK e \in Nat : e = EdgeAt(n, level)
        BY WithinEdge
      <4>. QED
        BY <1>1, <3>1, <4>1
    <3>3. level + 1 \in Nat
      OBVIOUS
    <3>. QED
      BY <2>1, <3>2, <3>3, NodeIn
  <2>4. Roots(leaves)[s] = NodeHash(Roots(leaves)[Left(s)], Roots(leaves)[Right(s)])
    BY <2>2, <2>3, RootsAre DEF Segments
  <2>. QED
    BY <2>1, <2>2, <2>4 DEF HashAt
<1>2. 2 * j = EdgeAt(n, level) => HashAt(leaves, level + 1, j) = HashAt(leaves, level, 2 * j)
  BY NodeParts DEF HashAt
<1>. QED
  BY <1>1, <1>2

LEMMA ShiftTwice ==
  ASSUME NEW n \in Nat, NEW a \in Nat, NEW b \in Nat
  PROVE  Shifted(Shifted(n, a), b) = Shifted(n, a + b)
<1>1. PICK x \in Nat : x = Shifted(n, a)
  BY ShiftStep
<1>. DEFINE fine == {i \in Nat : Shifted(x, i) = Shifted(n, a + i)}
<1>2. 0 \in fine
  <2>1. a + 0 = a /\ Shifted(x, 0) = x
    BY ShiftStep
  <2>. QED
    BY <1>1, <2>1
<1>3. \A i \in 1..b : i - 1 \in fine => i \in fine
  <2>1. ASSUME NEW i \in 1..b, i - 1 \in fine PROVE i \in fine
    <3>1. PICK j \in Nat, k \in Nat, l \in Nat : j = i - 1 /\ i = j + 1 /\ k = a + j /\ l = a + i /\ l = k + 1
      OBVIOUS
    <3>2. Shifted(x, j) = Shifted(n, k)
      BY <2>1, <3>1
    <3>3. Shifted(x, i) = Shifted(x, j) \div 2 /\ Shifted(n, l) = Shifted(n, k) \div 2
      BY <3>1, ShiftStep
    <3>4. Shifted(x, i) = Shifted(n, l)
      BY <3>2, <3>3
    <3>. QED
      BY <3>1, <3>4
  <2>. QED
    BY <2>1
<1>4. b \in fine
  <2>. HIDE DEF fine
  <2>. QED
    BY <1>2, <1>3, UpToAll
<1>. QED
  BY <1>1, <1>4

LEMMA EdgeStep ==
  ASSUME NEW n \in Nat, n > 0, NEW level \in Nat, NEW up \in Nat
  PROVE  /\ EdgeAt(n, level) \in Nat
         /\ Shifted(EdgeAt(n, level), up) = EdgeAt(n, level + up)
         /\ EdgeAt(n, level + 1) = EdgeAt(n, level) \div 2
<1>1. PICK k \in Nat : k = n - 1
  OBVIOUS
<1>. QED
  BY <1>1, ShiftTwice, ShiftStep DEF EdgeAt

LEMMA EdgesGrow ==
  ASSUME NEW n \in Nat, n > 0, NEW l \in Nat, n <= l, NEW level \in Nat
  PROVE  EdgeAt(n, level) <= EdgeAt(l, level)
<1>1. PICK e \in Nat, p \in Nat : e = EdgeAt(n, level) /\ p = PowerOfTwo(level)
  BY EdgeStep, PowerStep
<1>2. e * p < n
  BY <1>1, WithinEdge
<1>3. e * p \in Nat
  OBVIOUS
<1>4. e * p < l /\ l > 0
  BY <1>2, <1>3
<1>5. e <= EdgeAt(l, level)
  BY <1>1, <1>4, WithinEdge
<1>. QED
  BY <1>1, <1>5

\* An edge that is a left one is handed up as it is.
EvenBelow(n, bits) == \A y \in 0..(bits - 1) : Shifted(n, y) % 2 # 1
LEMMA HandedUp ==
  ASSUME NEW leaves, NEW n \in Nat, n = Len(leaves), n > 0, NEW level \in Nat, NEW up \in Nat,
         EvenBelow(EdgeAt(n, level), up)
  PROVE  /\ HashAt(leaves, level + up, EdgeAt(n, level + up)) = HashAt(leaves, level, EdgeAt(n, level))
         /\ EdgeAt(n, level + up) * PowerOfTwo(level + up) = EdgeAt(n, level) * PowerOfTwo(level)
<1>. DEFINE hash(i) == HashAt(leaves, level + i, EdgeAt(n, level + i))
            left(i) == EdgeAt(n, level + i) * PowerOfTwo(level + i)
            fine == {i \in Nat : hash(i) = hash(0) /\ left(i) = left(0)}
<1>1. ASSUME NEW i \in 1..up PROVE hash(i) = hash(i - 1) /\ left(i) = left(i - 1)
  <2>1. PICK k \in Nat, y \in Nat : y = i - 1 /\ y \in 0..(up - 1) /\ k = level + y /\ level + i = k + 1
    OBVIOUS
  <2>2. PICK x \in Nat, p \in Nat : x = EdgeAt(n, k) /\ p = PowerOfTwo(k)
    BY EdgeStep, PowerStep
  <2>3. Shifted(EdgeAt(n, level), y) = x
    BY <2>1, <2>2, EdgeStep
  <2>4. x % 2 # 1
    BY <2>1, <2>3 DEF EvenBelow
  <2>5. PICK j \in Nat : x = 2 * j
    BY <2>4
  <2>6. EdgeAt(n, k + 1) = j /\ PowerOfTwo(k + 1) = 2 * p
    <3>1. EdgeAt(n, k + 1) = x \div 2
      BY <2>2, EdgeStep
    <3>2. x \div 2 = j
      BY <2>5
    <3>. QED
      BY <2>2, <3>1, <3>2, PowerStep
  <2>7. HashAt(leaves, k + 1, j) = HashAt(leaves, k, x)
    <3>1. 2 * j = EdgeAt(n, k) /\ 2 * j <= EdgeAt(n, k)
      BY <2>2, <2>5
    <3>2. HashAt(leaves, k + 1, j) = HashAt(leaves, k, 2 * j)
      BY <3>1, HashParts
    <3>. QED
      BY <2>5, <3>2
  <2>8. j * (2 * p) = x * p
    BY <2>5
  <2>. QED
    BY <2>1, <2>2, <2>6, <2>7, <2>8
<1>2. 0 \in fine
  OBVIOUS
<1>3. \A i \in 1..up : i - 1 \in fine => i \in fine
  <2>. HIDE DEF hash, left
  <2>. QED
    BY <1>1
<1>4. up \in fine
  <2>. HIDE DEF fine, hash, left
  <2>1. 0..up \subseteq fine
    BY <1>2, <1>3, UpToAll, Zenon
  <2>. QED
    BY <2>1
<1>5. hash(up) = hash(0) /\ left(up) = left(0)
  <2>. HIDE DEF hash, left
  <2>. QED
    BY <1>4
<1>6. level + 0 = level
  OBVIOUS
<1>. QED
  BY <1>5, <1>6

-----------------------------------------------------------------------------
(* What a proof climbs: the nodes at the edge of the old tree *)

At(node, edge, old, new) ==
  [node |-> node, edge |-> edge, old |-> old, new |-> new, tooLong |-> FALSE]
Past(node, edge, old, new) ==
  [node |-> node, edge |-> edge, old |-> old, new |-> new, tooLong |-> TRUE]
LeftIsNext(node, edge) == node % 2 = 1 \/ node = edge

LEMMA AscendLeft ==
  ASSUME NEW x, NEW e, NEW old, NEW new, NEW sibling, e # 0, LeftIsNext(x, e)
  PROVE  Ascend(At(x, e, old, new), sibling) =
           At(Shifted(x, 1 + ShiftsTo(1, x)), Shifted(e, 1 + ShiftsTo(1, x)),
              NodeHash(sibling, old), NodeHash(sibling, new))
  BY DEF Ascend, At, Past, Climb, LeftIsNext

LEMMA AscendRight ==
  ASSUME NEW x, NEW e, NEW old, NEW new, NEW sibling, e # 0, ~LeftIsNext(x, e)
  PROVE  Ascend(At(x, e, old, new), sibling) =
           At(Shifted(x, 1), Shifted(e, 1), old, NodeHash(new, sibling))
  BY DEF Ascend, At, Past, Climb, LeftIsNext

LEMMA AscendPast ==
  ASSUME NEW x, NEW e, NEW old, NEW new, NEW sibling, e = 0
  PROVE  Ascend(At(x, e, old, new), sibling) = Past(x, e, old, new)
  BY DEF Ascend, At, Past

LEMMA StaysPast ==
  ASSUME NEW x, NEW e, NEW old, NEW new, NEW sibling
  PROVE  \E y, f, oldAbove, newAbove : Ascend(Past(x, e, old, new), sibling) = Past(y, f, oldAbove, newAbove)
<1>2. CASE e = 0
  <2>1. Ascend(Past(x, e, old, new), sibling) = Past(x, e, old, new)
    BY <1>2 DEF Ascend, At, Past, Climb
  <2>. QED
    BY <2>1
<1>3. CASE e # 0 /\ LeftIsNext(x, e)
  <2>1. Ascend(Past(x, e, old, new), sibling) =
          Past(Shifted(x, 1 + ShiftsTo(1, x)), Shifted(e, 1 + ShiftsTo(1, x)),
             NodeHash(sibling, old), NodeHash(sibling, new))
    BY <1>3 DEF Ascend, At, Past, Climb, LeftIsNext
  <2>. QED
    BY <2>1
<1>4. CASE e # 0 /\ ~LeftIsNext(x, e)
  <2>1. Ascend(Past(x, e, old, new), sibling) =
          Past(Shifted(x, 1), Shifted(e, 1), old, NodeHash(new, sibling))
    BY <1>4 DEF Ascend, At, Past, Climb, LeftIsNext
  <2>. QED
    BY <2>1
<1>. QED
  BY <1>2, <1>3, <1>4

\* That two hashes are those of the node at the old edge, in either tree, and that the trees
\* agree left of it.
Traces(older, newer, level, old, new) ==
  /\ old = HashAt(older, level, EdgeAt(Len(older), level))
  /\ new = HashAt(newer, level, EdgeAt(Len(older), level))
  /\ SameLeaves(older, newer, 0, EdgeAt(Len(older), level) * PowerOfTwo(level))

\* Full nodes of two trees are over the same leaves.
LEMMA FullNode ==
  ASSUME NEW n \in Nat, n > 0, NEW l \in Nat, n <= l, NEW level \in Nat, NEW j \in Nat,
         (j + 1) * PowerOfTwo(level) <= n
  PROVE  /\ NodeAt(n, level, j) = <<j * PowerOfTwo(level), PowerOfTwo(level)>>
         /\ NodeAt(l, level, j) = NodeAt(n, level, j)
<1>1. PICK p \in Nat : p = PowerOfTwo(level)
  BY PowerStep
<1>2. PICK y \in Nat : y = (j + 1) * p
  BY <1>1
<1>3. y <= n /\ y <= l
  BY <1>1, <1>2
<1>4. NodeAt(n, level, j) = <<j * p, p>>
  BY <1>1, <1>2, <1>3 DEF NodeAt
<1>5. NodeAt(l, level, j) = <<j * p, p>>
  BY <1>1, <1>2, <1>3 DEF NodeAt
<1>. QED
  BY <1>1, <1>4, <1>5

\* Nodes with the same hash in two trees, full in both, are over the same leaves.
LEMMA FullNodeTells ==
  ASSUME NEW older, NEW newer, NEW n \in Nat, n = Len(older), NEW l \in Nat, l = Len(newer), n > 0, n <= l,
         NEW level \in Nat, NEW j \in Nat, NEW p \in Nat, p = PowerOfTwo(level), NEW y \in Nat, y = j * p,
         y + p <= n, HashAt(older, level, j) = HashAt(newer, level, j)
  PROVE  SameLeaves(older, newer, y, y + p)
<1>1. NodeAt(n, level, j) = <<y, p>> /\ NodeAt(l, level, j) = <<y, p>>
  <2>1. (j + 1) * p = y + p
    OBVIOUS
  <2>2. (j + 1) * PowerOfTwo(level) <= n
    BY <2>1
  <2>3. NodeAt(n, level, j) = <<j * PowerOfTwo(level), PowerOfTwo(level)>> /\ NodeAt(l, level, j) = NodeAt(n, level, j)
    BY <2>2, FullNode
  <2>. QED
    BY <2>3
<1>2. PICK s : s = <<y, p>>
  OBVIOUS
<1>3. Roots(older)[s] = Roots(newer)[s]
  BY <1>1, <1>2 DEF HashAt
<1>4. s \in Segments(n) /\ s \in Segments(l)
  <2>1. s = <<y, p>> /\ y \in 0..n /\ p \in 0..n /\ y + p <= n /\ y \in 0..l /\ p \in 0..l /\ y + p <= l
    BY <1>2
  <2>. QED
    BY <2>1 DEF Segments
<1>5. PowerOfTwo(level) > level
  BY PowerStep
<1>6. s[1] = y /\ s[2] = p /\ s[2] \in 1..p
  BY <1>2, <1>5
<1>7. SameLeaves(older, newer, s[1], s[1] + s[2])
  BY <1>3, <1>4, <1>6, RootTells
<1>. QED
  BY <1>6, <1>7

LEMMA Joined ==
  ASSUME NEW older, NEW newer, NEW y \in Nat, NEW z \in Nat,
         SameLeaves(older, newer, 0, y), SameLeaves(older, newer, y, z)
  PROVE  SameLeaves(older, newer, 0, z)
<1>1. \A i \in (0 + 1)..z : i \in (0 + 1)..y \/ i \in (y + 1)..z
  OBVIOUS
<1>. QED
  BY <1>1 DEF SameLeaves

\* A sibling on the right: only the new tree has it.
LEMMA RightSibling ==
  ASSUME NEW older, NEW newer, NEW n \in Nat, n = Len(older), NEW l \in Nat, l = Len(newer), n > 0, n <= l,
         NEW level \in Nat, NEW old, NEW new, NEW sibling,
         EdgeAt(n, level) % 2 # 1, EdgeAt(n, level) # EdgeAt(l, level),
         Traces(older, newer, level + 1, old, NodeHash(new, sibling))
  PROVE  Traces(older, newer, level, old, new)
<1>1. PICK x \in Nat, e \in Nat, p \in Nat : x = EdgeAt(n, level) /\ e = EdgeAt(l, level) /\ p = PowerOfTwo(level)
  <2>1. EdgeAt(n, level) \in Nat
    BY EdgeStep
  <2>2. l > 0
    OBVIOUS
  <2>3. EdgeAt(l, level) \in Nat
    BY <2>2, EdgeStep
  <2>. QED
    BY <2>1, <2>3, PowerStep
<1>2. PICK j \in Nat : x = 2 * j
  BY <1>1
<1>3. x <= e
  BY <1>1, EdgesGrow
<1>4. 2 * j + 1 <= e /\ 2 * j <= e /\ 2 * j <= x /\ 2 * j = x
  BY <1>1, <1>2, <1>3
<1>5. EdgeAt(n, level + 1) = j /\ PowerOfTwo(level + 1) = 2 * p
  <2>1. x \div 2 = j
    BY <1>2
  <2>. QED
    BY <1>1, <2>1, EdgeStep, PowerStep
<1>6. HashAt(older, level + 1, j) = HashAt(older, level, 2 * j)
  BY <1>1, <1>4, HashParts
<1>7. HashAt(newer, level + 1, j) = NodeHash(HashAt(newer, level, 2 * j), HashAt(newer, level, 2 * j + 1))
  BY <1>1, <1>4, HashParts
<1>8. /\ old = HashAt(older, level + 1, j) /\ NodeHash(new, sibling) = HashAt(newer, level + 1, j)
      /\ SameLeaves(older, newer, 0, j * (2 * p))
  BY <1>5 DEF Traces
<1>9. new = HashAt(newer, level, 2 * j)
  <2>1. PICK a, b : a = HashAt(newer, level, 2 * j) /\ b = HashAt(newer, level, 2 * j + 1)
    OBVIOUS
  <2>2. NodeHash(new, sibling) = NodeHash(a, b)
    BY <1>7, <1>8, <2>1
  <2>. QED
    BY <2>1, <2>2, NodeTells
<1>10. j * (2 * p) = x * p
  BY <1>2
<1>. QED
  BY <1>1, <1>2, <1>6, <1>8, <1>9, <1>10 DEF Traces

\* A sibling on the left: both trees have it, and it is the same.
LEMMA LeftSibling ==
  ASSUME NEW older, NEW newer, NEW n \in Nat, n = Len(older), NEW l \in Nat, l = Len(newer), n > 0, n <= l,
         NEW level \in Nat, NEW old, NEW new, NEW sibling,
         EdgeAt(n, level) % 2 = 1,
         Traces(older, newer, level + 1, NodeHash(sibling, old), NodeHash(sibling, new))
  PROVE  Traces(older, newer, level, old, new)
<1>1. PICK x \in Nat, e \in Nat, p \in Nat :
        x = EdgeAt(n, level) /\ e = EdgeAt(l, level) /\ p = PowerOfTwo(level) /\ p > 0
  <2>1. EdgeAt(n, level) \in Nat
    BY EdgeStep
  <2>2. l > 0
    OBVIOUS
  <2>3. EdgeAt(l, level) \in Nat
    BY <2>2, EdgeStep
  <2>4. PowerOfTwo(level) \in Nat /\ PowerOfTwo(level) > level
    BY PowerStep
  <2>5. PowerOfTwo(level) > 0
    BY <2>4
  <2>. QED
    BY <2>1, <2>3, <2>4, <2>5
<1>2. PICK j \in Nat : x = 2 * j + 1
  BY <1>1
<1>3. x <= e
  BY <1>1, EdgesGrow
<1>4. 2 * j + 1 <= e /\ 2 * j <= e /\ 2 * j <= x /\ 2 * j + 1 <= x
  BY <1>2, <1>3
<1>5. EdgeAt(n, level + 1) = j /\ PowerOfTwo(level + 1) = 2 * p
  <2>1. x \div 2 = j
    BY <1>2
  <2>. QED
    BY <1>1, <2>1, EdgeStep, PowerStep
<1>6. PICK left, oldNode, newLeft, newNode :
        /\ left = HashAt(older, level, 2 * j) /\ oldNode = HashAt(older, level, 2 * j + 1)
        /\ newLeft = HashAt(newer, level, 2 * j) /\ newNode = HashAt(newer, level, 2 * j + 1)
  OBVIOUS
<1>7. HashAt(older, level + 1, j) = NodeHash(left, oldNode)
  BY <1>1, <1>4, <1>6, HashParts
<1>8. HashAt(newer, level + 1, j) = NodeHash(newLeft, newNode)
  BY <1>1, <1>4, <1>6, HashParts
<1>9. /\ NodeHash(sibling, old) = HashAt(older, level + 1, j)
      /\ NodeHash(sibling, new) = HashAt(newer, level + 1, j)
      /\ SameLeaves(older, newer, 0, j * (2 * p))
  BY <1>5 DEF Traces
<1>10. sibling = left /\ old = oldNode
  BY <1>7, <1>9, NodeTells
<1>11. sibling = newLeft /\ new = newNode
  BY <1>8, <1>9, NodeTells
<1>12. PICK d \in Nat : d = 2 * j
  OBVIOUS
<1>13. PICK y \in Nat : y = d * p
  OBVIOUS
<1>14. (d + 1) * p = y + p /\ x * p = y + p /\ j * (2 * p) = y
  BY <1>2, <1>12, <1>13
<1>15. x * p < n
  BY <1>1, WithinEdge
<1>16. SameLeaves(older, newer, y, y + p)
  <2>1. y + p <= n
    BY <1>14, <1>15
  <2>2. HashAt(older, level, d) = HashAt(newer, level, d)
    BY <1>6, <1>10, <1>11, <1>12
  <2>. QED
    BY <1>1, <1>13, <2>1, <2>2, FullNodeTells
<1>17. SameLeaves(older, newer, 0, y + p)
  <2>1. SameLeaves(older, newer, 0, y)
    BY <1>9, <1>14
  <2>. QED
    BY <1>16, <2>1, Joined
<1>. QED
  BY <1>1, <1>2, <1>6, <1>10, <1>11, <1>14, <1>17 DEF Traces

\* Each step of the fold climbs the edge of both trees, and what it makes traces back.
LEMMA AscendTraces ==
  ASSUME NEW older, NEW newer, NEW n \in Nat, n = Len(older), NEW l \in Nat, l = Len(newer), n > 0, n <= l,
         NEW level \in Nat, NEW old, NEW new, NEW sibling, EdgeAt(l, level) # 0
  PROVE  \E above \in Nat : \E oldAbove, newAbove :
           /\ Ascend(At(EdgeAt(n, level), EdgeAt(l, level), old, new), sibling) =
                At(EdgeAt(n, above), EdgeAt(l, above), oldAbove, newAbove)
           /\ Traces(older, newer, above, oldAbove, newAbove) => Traces(older, newer, level, old, new)
<1>1. PICK x \in Nat, e \in Nat : x = EdgeAt(n, level) /\ e = EdgeAt(l, level)
  <2>1. EdgeAt(n, level) \in Nat
    BY EdgeStep
  <2>2. l > 0
    OBVIOUS
  <2>3. EdgeAt(l, level) \in Nat
    BY <2>2, EdgeStep
  <2>. QED
    BY <2>1, <2>3
<1>2. l > 0
  OBVIOUS
<1>3. CASE ~LeftIsNext(x, e)
  <2>1. Ascend(At(x, e, old, new), sibling) = At(Shifted(x, 1), Shifted(e, 1), old, NodeHash(new, sibling))
    BY <1>1, <1>3, AscendRight
  <2>2. Shifted(x, 1) = EdgeAt(n, level + 1) /\ Shifted(e, 1) = EdgeAt(l, level + 1)
    <3>1. 1 \in Nat
      OBVIOUS
    <3>. QED
      BY <1>1, <1>2, <3>1, EdgeStep
  <2>3. Traces(older, newer, level + 1, old, NodeHash(new, sibling)) => Traces(older, newer, level, old, new)
    BY <1>1, <1>3, RightSibling DEF LeftIsNext
  <2>4. level + 1 \in Nat
    OBVIOUS
  <2>. QED
    BY <1>1, <2>1, <2>2, <2>3, <2>4
<1>4. CASE LeftIsNext(x, e)
  <2>1. x > 0
    BY <1>1, <1>4 DEF LeftIsNext
  <2>2. PICK v \in Nat : v = ShiftsTo(1, x)
    BY <2>1, ShiftsToIs
  <2>3. Shifted(x, v) % 2 = 1 /\ \A y \in 0..(v - 1) : Shifted(x, y) % 2 # 1
    BY <2>1, <2>2, ShiftsToIs
  <2>4. PICK here \in Nat, above \in Nat, up \in Nat : here = level + v /\ above = here + 1 /\ up = 1 + v /\ above = level + up
    OBVIOUS
  <2>5. Ascend(At(x, e, old, new), sibling) =
          At(Shifted(x, up), Shifted(e, up), NodeHash(sibling, old), NodeHash(sibling, new))
    BY <1>1, <1>4, <2>2, <2>4, AscendLeft
  <2>6. Shifted(x, up) = EdgeAt(n, above) /\ Shifted(e, up) = EdgeAt(l, above) /\ Shifted(x, v) = EdgeAt(n, here)
    <3>1. Shifted(EdgeAt(n, level), up) = EdgeAt(n, level + up)
      BY EdgeStep
    <3>2. Shifted(EdgeAt(l, level), up) = EdgeAt(l, level + up)
      BY <1>2, EdgeStep
    <3>3. Shifted(EdgeAt(n, level), v) = EdgeAt(n, level + v)
      BY EdgeStep
    <3>. QED
      BY <1>1, <2>4, <3>1, <3>2, <3>3
  <2>7. ASSUME Traces(older, newer, above, NodeHash(sibling, old), NodeHash(sibling, new))
        PROVE  Traces(older, newer, level, old, new)
    <3>1. Traces(older, newer, here, old, new)
      BY <2>3, <2>4, <2>6, <2>7, LeftSibling
    <3>2. CASE v = 0
      BY <2>4, <3>1, <3>2
    <3>3. CASE v > 0
      <4>1. x = e
        <5>1. 0 \in 0..(v - 1)
          BY <3>3
        <5>2. Shifted(x, 0) = x
          BY ShiftStep
        <5>. QED
          BY <1>4, <2>3, <5>1, <5>2 DEF LeftIsNext
      <4>2. /\ HashAt(older, here, EdgeAt(n, here)) = HashAt(older, level, x)
            /\ EdgeAt(n, here) * PowerOfTwo(here) = x * PowerOfTwo(level)
        <5>1. EvenBelow(EdgeAt(n, level), v)
          BY <1>1, <2>3 DEF EvenBelow
        <5>2. /\ HashAt(older, level + v, EdgeAt(n, level + v)) = HashAt(older, level, EdgeAt(n, level))
              /\ EdgeAt(n, level + v) * PowerOfTwo(level + v) = EdgeAt(n, level) * PowerOfTwo(level)
          BY <5>1, HandedUp
        <5>. QED
          BY <1>1, <2>4, <5>2
      <4>3. HashAt(newer, here, EdgeAt(l, here)) = HashAt(newer, level, e)
        <5>1. EvenBelow(EdgeAt(l, level), v)
          BY <1>1, <2>3, <4>1 DEF EvenBelow
        <5>2. HashAt(newer, level + v, EdgeAt(l, level + v)) = HashAt(newer, level, EdgeAt(l, level))
          BY <1>2, <5>1, HandedUp
        <5>. QED
          BY <1>1, <2>4, <5>2
      <4>4. EdgeAt(l, here) = EdgeAt(n, here)
        <5>1. EdgeAt(l, here) = Shifted(e, v)
          BY <1>1, <1>2, <2>4, EdgeStep
        <5>. QED
          BY <2>6, <4>1, <5>1
      <4>. QED
        BY <1>1, <3>1, <4>1, <4>2, <4>3, <4>4 DEF Traces
    <3>. QED
      BY <3>2, <3>3
  <2>. QED
    BY <1>1, <2>5, <2>6, <2>7
<1>. QED
  BY <1>3, <1>4

-----------------------------------------------------------------------------
(* The fold over a path *)

FoldsUp(start, path, count, g) ==
  g = [i \in 0..count |-> IF i = 0 THEN start ELSE Ascend(g[i - 1], path[i])]

LEMMA FoldsUpAre ==
  ASSUME NEW start, NEW path, NEW count \in Nat, NEW g, FoldsUp(start, path, count, g)
  PROVE  g[0] = start /\ \A i \in 1..count : g[i] = Ascend(g[i - 1], path[i])
<1>. DEFINE at(i) == IF i = 0 THEN start ELSE Ascend(g[i - 1], path[i])
<1>1. g = [i \in 0..count |-> at(i)]
  BY DEF FoldsUp
<1>2. \A i \in 0..count : g[i] = at(i)
  <2>. HIDE DEF at
  <2>. QED
    BY <1>1
<1>3. 0 \in 0..count /\ \A i \in 1..count : i \in 0..count /\ i # 0
  OBVIOUS
<1>. QED
  BY <1>2, <1>3

LEMMA SomeFold ==
  ASSUME NEW start, NEW path, NEW k \in Nat
  PROVE  \E g : FoldsUp(start, path, k, g)
<1>. DEFINE fine == {m \in Nat : \E g : FoldsUp(start, path, m, g)}
<1>1. 0 \in fine
  <2>. DEFINE g == [n \in 0..0 |-> start]
  <2>1. g = [n \in 0..0 |-> IF n = 0 THEN start ELSE Ascend(g[n - 1], path[n])]
    OBVIOUS
  <2>. HIDE DEF g
  <2>2. FoldsUp(start, path, 0, g)
    BY <2>1 DEF FoldsUp
  <2>. QED
    BY <2>2
<1>2. ASSUME NEW m \in Nat, m \in fine PROVE m + 1 \in fine
  <2>1. PICK g : FoldsUp(start, path, m, g)
    BY <1>2
  <2>2. g[0] = start /\ \A n \in 1..m : g[n] = Ascend(g[n - 1], path[n])
    BY <2>1, FoldsUpAre
  <2>. DEFINE last == Ascend(g[m], path[m + 1])
              h == [n \in 0..(m + 1) |-> IF n <= m THEN g[n] ELSE last]
              next == [n \in 0..(m + 1) |-> IF n = 0 THEN start ELSE Ascend(h[n - 1], path[n])]
  <2>3. ASSUME NEW n \in 0..(m + 1) PROVE h[n] = next[n]
    <3>1. CASE n = 0
      BY <2>2, <3>1
    <3>2. CASE n \in 1..m
      <4>1. n - 1 \in 0..(m + 1) /\ n - 1 <= m /\ n <= m /\ n # 0
        BY <3>2
      <4>2. h[n] = g[n] /\ h[n - 1] = g[n - 1]
        BY <4>1
      <4>3. next[n] = Ascend(h[n - 1], path[n])
        BY <4>1
      <4>. HIDE DEF h, next
      <4>. QED
        BY <2>2, <3>2, <4>2, <4>3
    <3>3. CASE n = m + 1
      <4>1. n - 1 = m /\ m \in 0..(m + 1) /\ m <= m /\ ~(n <= m) /\ n # 0
        BY <3>3
      <4>2. h[n] = last /\ h[n - 1] = g[m]
        BY <4>1
      <4>3. next[n] = Ascend(h[n - 1], path[n])
        BY <4>1
      <4>. HIDE DEF h, next
      <4>. QED
        BY <3>3, <4>2, <4>3
    <3>. QED
      BY <3>1, <3>2, <3>3
  <2>4. h = next
    <3>1. DOMAIN h = DOMAIN next /\ h = [n \in DOMAIN h |-> h[n]] /\ next = [n \in DOMAIN next |-> next[n]]
      OBVIOUS
    <3>. QED
      BY <2>3
  <2>5. h = [n \in 0..(m + 1) |-> IF n = 0 THEN start ELSE Ascend(h[n - 1], path[n])]
    BY <2>4
  <2>. HIDE DEF h
  <2>6. FoldsUp(start, path, m + 1, h) /\ m + 1 \in Nat
    BY <2>5 DEF FoldsUp
  <2>. QED
    BY <2>6
<1>3. \A n \in 1..k : n - 1 \in fine => n \in fine
  <2>1. ASSUME NEW n \in 1..k, n - 1 \in fine PROVE n \in fine
    <3>1. n - 1 \in Nat /\ (n - 1) + 1 = n
      OBVIOUS
    <3>. HIDE DEF fine
    <3>. QED
      BY <1>2, <2>1, <3>1
  <2>. QED
    BY <2>1
<1>4. 0..k \subseteq fine
  <2>. HIDE DEF fine
  <2>. QED
    BY <1>1, <1>3, UpToAll
<1>5. k \in fine
  <2>. HIDE DEF fine
  <2>. QED
    BY <1>4
<1>. QED
  BY <1>5

LEMMA FoldedIs ==
  ASSUME NEW start, NEW path, Len(path) \in Nat
  PROVE  \E g : /\ g[0] = start /\ Folded(start, path) = g[Len(path)]
                /\ \A i \in 1..Len(path) : g[i] = Ascend(g[i - 1], path[i])
<1>1. PICK k \in Nat : k = Len(path)
  OBVIOUS
<1>2. Folded(start, path) = (CHOOSE g : FoldsUp(start, path, k, g))[k]
  BY <1>1 DEF Folded, FoldsUp
<1>3. PICK g : FoldsUp(start, path, k, g) /\ Folded(start, path) = g[k]
  BY <1>2, SomeFold
<1>4. g[0] = start /\ \A i \in 1..k : g[i] = Ascend(g[i - 1], path[i])
  <2>1. FoldsUp(start, path, k, g)
    BY <1>3
  <2>. QED
    BY <2>1, FoldsUpAre
<1>. QED
  BY <1>1, <1>3, <1>4

-----------------------------------------------------------------------------
(* Consistency *)

\* Where a fold is that began at a level of both trees: it has overrun, or what it made
\* traces back to what it began with.
Overran(at) == \E x, e, old, new : at = Past(x, e, old, new)
ClimbedTo(at, older, newer, level, old, new) ==
  /\ at = At(EdgeAt(Len(older), level), EdgeAt(Len(newer), level), old, new)
  /\ level \in Nat
TracesBack(at, older, newer, from, hash) ==
  \E level, old, new :
    /\ ClimbedTo(at, older, newer, level, old, new)
    /\ Traces(older, newer, level, old, new) => Traces(older, newer, from, hash, hash)

LEMMA FoldTraces ==
  ASSUME NEW older, NEW newer, NEW n \in Nat, n = Len(older), NEW l \in Nat, l = Len(newer), n > 0, n <= l,
         NEW from \in Nat, NEW hash, NEW path, Len(path) \in Nat,
         NEW start, start = At(EdgeAt(n, from), EdgeAt(l, from), hash, hash)
  PROVE  Overran(Folded(start, path)) \/ TracesBack(Folded(start, path), older, newer, from, hash)
<1>1. PICK k \in Nat : k = Len(path)
  OBVIOUS
<1>2. PICK g : /\ g[0] = start /\ Folded(start, path) = g[k]
               /\ \A i \in 1..k : g[i] = Ascend(g[i - 1], path[i])
  BY <1>1, FoldedIs
<1>. DEFINE fine == {i \in Nat : Overran(g[i]) \/ TracesBack(g[i], older, newer, from, hash)}
<1>3. 0 \in fine
  <2>1. ClimbedTo(start, older, newer, from, hash, hash)
    BY DEF ClimbedTo
  <2>2. TracesBack(start, older, newer, from, hash)
    BY <2>1 DEF TracesBack
  <2>. QED
    BY <1>2, <2>2
<1>4. ASSUME NEW i \in 1..k, i - 1 \in fine PROVE i \in fine
  <2>1. PICK a, sibling : a = g[i - 1] /\ sibling = path[i] /\ g[i] = Ascend(a, sibling)
    BY <1>2
  <2>2. CASE Overran(a)
    <3>1. PICK x, e, old, new : a = Past(x, e, old, new)
      BY <2>2 DEF Overran
    <3>2. Overran(g[i])
      BY <2>1, <3>1, StaysPast DEF Overran
    <3>. QED
      BY <3>2
  <2>3. CASE TracesBack(a, older, newer, from, hash)
    <3>1. PICK level, old, new :
            /\ ClimbedTo(a, older, newer, level, old, new)
            /\ Traces(older, newer, level, old, new) => Traces(older, newer, from, hash, hash)
      BY <2>3 DEF TracesBack
    <3>2. level \in Nat /\ a = At(EdgeAt(n, level), EdgeAt(l, level), old, new)
      BY <3>1 DEF ClimbedTo
    <3>3. CASE EdgeAt(l, level) = 0
      <4>1. Ascend(a, sibling) = Past(EdgeAt(n, level), EdgeAt(l, level), old, new)
        BY <3>2, <3>3, AscendPast
      <4>2. Overran(g[i])
        BY <2>1, <4>1 DEF Overran
      <4>. QED
        BY <4>2
    <3>4. CASE EdgeAt(l, level) # 0
      <4>1. PICK above \in Nat : \E oldAbove, newAbove :
              /\ Ascend(a, sibling) = At(EdgeAt(n, above), EdgeAt(l, above), oldAbove, newAbove)
              /\ Traces(older, newer, above, oldAbove, newAbove) => Traces(older, newer, level, old, new)
        BY <3>2, <3>4, AscendTraces
      <4>2. PICK oldAbove, newAbove :
              /\ Ascend(a, sibling) = At(EdgeAt(n, above), EdgeAt(l, above), oldAbove, newAbove)
              /\ Traces(older, newer, above, oldAbove, newAbove) => Traces(older, newer, level, old, new)
        BY <4>1
      <4>3. ClimbedTo(g[i], older, newer, above, oldAbove, newAbove)
        BY <2>1, <4>2 DEF ClimbedTo
      <4>4. TracesBack(g[i], older, newer, from, hash)
        BY <3>1, <4>2, <4>3 DEF TracesBack
      <4>. QED
        BY <4>4
    <3>. QED
      BY <3>3, <3>4
  <2>. QED
    BY <1>4, <2>1, <2>2, <2>3
<1>5. k \in fine
  <2>1. \A i \in 1..k : i - 1 \in fine => i \in fine
    BY <1>4
  <2>. HIDE DEF fine
  <2>2. 0..k \subseteq fine
    BY <1>3, <2>1, UpToAll, Zenon
  <2>. QED
    BY <2>2
<1>. QED
  BY <1>2, <1>5

\* Where the last bits are ones, the node at the edge is full.
LEMMA OnesOut ==
  ASSUME NEW n \in Nat, n > 0, NEW z \in Nat, \A y \in 0..(z - 1) : EdgeAt(n, y) % 2 = 1
  PROVE  (EdgeAt(n, z) + 1) * PowerOfTwo(z) = n
<1>. DEFINE fine == {i \in Nat : (EdgeAt(n, i) + 1) * PowerOfTwo(i) = n}
<1>1. 0 \in fine
  <2>1. PICK k \in Nat : k = n - 1
    OBVIOUS
  <2>2. EdgeAt(n, 0) = k /\ PowerOfTwo(0) = 1
    BY <2>1, ShiftStep, PowerStep DEF EdgeAt
  <2>3. (k + 1) * 1 = n
    BY <2>1
  <2>. QED
    BY <2>2, <2>3
<1>2. ASSUME NEW i \in 1..z, i - 1 \in fine PROVE i \in fine
  <2>1. PICK y \in Nat : y = i - 1 /\ i = y + 1 /\ y \in 0..(z - 1)
    OBVIOUS
  <2>2. PICK x \in Nat, p \in Nat : x = EdgeAt(n, y) /\ p = PowerOfTwo(y)
    BY <2>1, EdgeStep, PowerStep
  <2>3. PICK j \in Nat : x = 2 * j + 1
    BY <2>1, <2>2
  <2>4. EdgeAt(n, i) = j /\ PowerOfTwo(i) = 2 * p
    <3>1. EdgeAt(n, y + 1) = x \div 2
      BY <2>2, EdgeStep
    <3>2. x \div 2 = j
      BY <2>3
    <3>. QED
      BY <2>1, <2>2, <3>1, <3>2, PowerStep
  <2>5. (x + 1) * p = n
    BY <1>2, <2>1, <2>2
  <2>6. (j + 1) * (2 * p) = (x + 1) * p
    BY <2>3
  <2>. QED
    BY <2>4, <2>5, <2>6
<1>3. z \in fine
  <2>1. \A i \in 1..z : i - 1 \in fine => i \in fine
    BY <1>2
  <2>. HIDE DEF fine
  <2>2. 0..z \subseteq fine
    BY <1>1, <2>1, UpToAll, Zenon
  <2>. QED
    BY <2>2
<1>. QED
  BY <1>3

\* At the level of the root the node at the edge is the whole tree.
LEMMA RootIsNode ==
  ASSUME NEW leaves, NEW n \in Nat, n = Len(leaves), n > 0, NEW level \in Nat, EdgeAt(n, level) = 0
  PROVE  HashAt(leaves, level, 0) = Root(leaves)
<1>1. PICK p \in Nat : p = PowerOfTwo(level)
  BY PowerStep
<1>2. ~(1 <= EdgeAt(n, level)) /\ 1 \in Nat
  OBVIOUS
<1>3. ~(1 * p < n)
  BY <1>1, <1>2, WithinEdge
<1>4. 0 * p = 0 /\ (0 + 1) * p = p /\ n <= p
  BY <1>3
<1>5. NodeAt(n, level, 0) = <<0, n>>
  <2>1. NodeAt(n, level, 0) = <<0, IF p <= n THEN p ELSE n>>
    BY <1>1, <1>4 DEF NodeAt
  <2>2. (IF p <= n THEN p ELSE n) = n
    BY <1>4
  <2>. QED
    BY <2>1, <2>2
<1>. QED
  BY <1>5 DEF HashAt, Root

LEMMA NodesAre ==
  ASSUME NEW S, NEW path \in Seq(S), path # <<>>, NEW first, NEW oldRoot
  PROVE  Len(Tail(Nodes(first, path, oldRoot))) \in Nat
<1>1. PICK T : T = S \cup {oldRoot}
  OBVIOUS
<1>2. path \in Seq(T) /\ <<oldRoot>> \in Seq(T) /\ Len(path) > 0
  BY <1>1
<1>3. <<oldRoot>> \o path \in Seq(T) /\ Len(<<oldRoot>> \o path) > 0
  BY <1>2
<1>4. PICK nodes \in Seq(T) : nodes = Nodes(first, path, oldRoot) /\ Len(nodes) > 0
  BY <1>2, <1>3 DEF Nodes
<1>5. Tail(nodes) \in Seq(T)
  BY <1>4
<1>. QED
  BY <1>4, <1>5

\* verify_consistency: what it accepts as a continuation begins with the very leaves of the
\* old tree, for trees of any size and shape, whatever path is given.
THEOREM ConsistencyIsSound ==
  ASSUME NEW older, NEW newer, Len(older) \in Nat, Len(newer) \in Nat, Len(older) > 0, NEW S, NEW path \in Seq(S),
         VerifyConsistency(Len(older), Len(newer), path, Root(older), Root(newer))
  PROVE  Len(older) <= Len(newer) /\ \A i \in 1..Len(older) : older[i] = newer[i]
<1>1. PICK n \in Nat, l \in Nat : n = Len(older) /\ l = Len(newer) /\ n > 0
  OBVIOUS
<1>2. CASE n = l
  <2>1. Root(older) = Root(newer)
    BY <1>1, <1>2 DEF VerifyConsistency
  <2>2. PICK s : s = <<0, n>>
    OBVIOUS
  <2>3. s \in Segments(n) /\ s[1] = 0 /\ s[2] = n /\ s[2] \in 1..n
    BY <1>1, <2>2 DEF Segments
  <2>4. Roots(older)[s] = Roots(newer)[s]
    BY <1>1, <1>2, <2>1, <2>2 DEF Root
  <2>5. SameLeaves(older, newer, s[1], s[1] + s[2])
    BY <1>1, <1>2, <2>3, <2>4, RootTells
  <2>. QED
    BY <1>1, <1>2, <2>3, <2>5 DEF SameLeaves
<1>3. CASE n # l
  <2>. DEFINE nodes == Nodes(n, path, Root(older))
              skip == ShiftsTo(0, n - 1)
              start == Foot(Shifted(n - 1, skip), Shifted(l - 1, skip), nodes[1])
              at == Folded(start, Tail(nodes))
  <2>1. /\ n < l /\ path # <<>>
        /\ ~at.tooLong /\ at.edge = 0 /\ at.old = Root(older) /\ at.new = Root(newer)
    BY <1>1, <1>3 DEF VerifyConsistency, Climbed
  <2>2. PICK m \in Nat : m = n - 1
    BY <1>1
  <2>3. PICK z \in Nat : z = skip
    BY <2>2, ShiftsToIs
  <2>4. Shifted(m, z) % 2 = 0 /\ \A y \in 0..(z - 1) : Shifted(m, y) % 2 # 0
    BY <2>2, <2>3, ShiftsToIs
  <2>5. start = At(EdgeAt(n, z), EdgeAt(l, z), nodes[1], nodes[1])
    BY <2>3 DEF Foot, At, EdgeAt
  <2>6. Len(Tail(nodes)) \in Nat
    BY <2>1, NodesAre
  <2>7. PICK hash, rest, begin : hash = nodes[1] /\ rest = Tail(nodes) /\ begin = start
    OBVIOUS
  <2>8. PICK end : end = at
    OBVIOUS
  <2>9. end = Folded(begin, rest)
    BY <2>7, <2>8
  <2>10. begin = At(EdgeAt(n, z), EdgeAt(l, z), hash, hash) /\ Len(rest) \in Nat
    BY <2>5, <2>6, <2>7
  <2>11. ~end.tooLong /\ end.edge = 0 /\ end.old = Root(older) /\ end.new = Root(newer)
    BY <2>1, <2>8
  <2>. HIDE DEF at, start, nodes, skip
  <2>12. Overran(end) \/ TracesBack(end, older, newer, z, hash)
    BY <1>1, <2>1, <2>9, <2>10, FoldTraces
  <2>13. ~Overran(end)
    BY <2>11 DEF Overran, Past
  <2>14. PICK level, old, new :
           /\ ClimbedTo(end, older, newer, level, old, new)
           /\ Traces(older, newer, level, old, new) => Traces(older, newer, z, hash, hash)
    BY <2>12, <2>13 DEF TracesBack
  <2>15. level \in Nat /\ EdgeAt(l, level) = 0 /\ old = Root(older) /\ new = Root(newer)
    BY <1>1, <2>11, <2>14 DEF ClimbedTo, At
  <2>16. EdgeAt(n, level) = 0
    <3>1. EdgeAt(n, level) \in Nat /\ EdgeAt(n, level) <= 0
      BY <1>1, <2>1, <2>15, EdgesGrow, EdgeStep
    <3>. QED
      BY <3>1
  <2>17. HashAt(older, level, 0) = Root(older) /\ HashAt(newer, level, 0) = Root(newer)
    <3>1. l > 0
      BY <1>1, <2>1
    <3>2. HashAt(older, level, 0) = Root(older)
      BY <1>1, <2>15, <2>16, RootIsNode
    <3>3. HashAt(newer, level, 0) = Root(newer)
      BY <1>1, <2>15, <3>1, RootIsNode
    <3>. QED
      BY <3>2, <3>3
  <2>18. Traces(older, newer, level, old, new)
    <3>1. 0 * PowerOfTwo(level) = 0
      BY <2>15, PowerStep
    <3>2. SameLeaves(older, newer, 0, 0)
      BY DEF SameLeaves
    <3>. QED
      BY <1>1, <2>15, <2>16, <2>17, <3>1, <3>2 DEF Traces
  <2>19. Traces(older, newer, z, hash, hash)
    BY <2>14, <2>18
  <2>20. PICK x \in Nat, p \in Nat : x = EdgeAt(n, z) /\ p = PowerOfTwo(z)
    BY <1>1, EdgeStep, PowerStep
  <2>21. (x + 1) * p = n
    <3>1. \A y \in 0..(z - 1) : EdgeAt(n, y) % 2 = 1
      <4>1. ASSUME NEW y \in 0..(z - 1) PROVE EdgeAt(n, y) % 2 = 1
        <5>1. y \in Nat
          OBVIOUS
        <5>2. PICK w \in Nat : w = EdgeAt(n, y)
          BY <1>1, <5>1, EdgeStep
        <5>3. w % 2 # 0
          BY <2>2, <2>4, <5>2 DEF EdgeAt
        <5>. QED
          BY <5>2, <5>3
      <4>. QED
        BY <4>1
    <3>. QED
      BY <1>1, <2>20, <3>1, OnesOut
  <2>22. PICK y \in Nat : y = x * p
    OBVIOUS
  <2>23. y + p = n
    BY <2>21, <2>22
  <2>24. HashAt(older, z, x) = HashAt(newer, z, x) /\ SameLeaves(older, newer, 0, y)
    BY <1>1, <2>19, <2>20, <2>22 DEF Traces
  <2>25. SameLeaves(older, newer, y, y + p)
    <3>1. y + p <= n /\ n <= l
      BY <2>1, <2>23
    <3>. QED
      BY <1>1, <2>20, <2>22, <2>24, <3>1, FullNodeTells
  <2>26. SameLeaves(older, newer, 0, n)
    BY <2>23, <2>24, <2>25, Joined
  <2>. QED
    BY <1>1, <2>1, <2>26 DEF SameLeaves
<1>. QED
  BY <1>2, <1>3

-----------------------------------------------------------------------------
(* The promise of witnesses *)

\* What each honest witness put its name to is a chain: of any two histories it
\* named, one continues the other. This is what the quorum argument rests on.
HonestAreConsistent ==
  \A w \in Honest : \A one, other \in named[w] :
    Continues(one, other) \/ Continues(other, one)

WitnessIInv == WitnessTypeOK /\ HonestAreConsistent

\* Any two quorums of trusted witnesses share an honest one.
LEMMA QuorumsShareHonest ==
  ASSUME NEW A \in SUBSET Trusted, NEW B \in SUBSET Trusted,
         Cardinality(A) >= Quorum, Cardinality(B) >= Quorum
  PROVE  \E w \in Honest : w \in A /\ w \in B
<1> DEFINE Dishonest == Trusted \ Honest
<1>1. /\ IsFiniteSet(Trusted) /\ IsFiniteSet(Dishonest)
      /\ IsFiniteSet(A) /\ IsFiniteSet(B) /\ IsFiniteSet(A \cup B) /\ IsFiniteSet(A \cap B)
  BY TrustedAssumption, FS_Subset, FS_Union
<1>2. /\ Cardinality(Trusted) \in Nat /\ Cardinality(Dishonest) \in Nat
      /\ Cardinality(A) \in Nat /\ Cardinality(B) \in Nat
      /\ Cardinality(A \cup B) \in Nat /\ Cardinality(A \cap B) \in Nat
  BY <1>1, FS_CardinalityType
<1>3. Cardinality(A \cup B) = Cardinality(A) + Cardinality(B) - Cardinality(A \cap B)
  BY <1>1, FS_Union
<1>4. Cardinality(A \cup B) <= Cardinality(Trusted)
  <2>1. A \cup B \subseteq Trusted
    OBVIOUS
  <2>. QED BY <1>1, <2>1, FS_Subset
<1>5. Cardinality(Trusted) + Cardinality(Dishonest) < 2 * Quorum /\ Quorum \in Nat
  BY QuorumAssumption
<1>6. ~(Cardinality(A \cap B) <= Cardinality(Dishonest))
  <2>. HIDE DEF Dishonest
  <2>. QED BY <1>2, <1>3, <1>4, <1>5
<1>7. ~(A \cap B \subseteq Dishonest)
  BY <1>1, <1>6, FS_Subset
<1>. QED BY <1>7

\* A witness that keeps its word stays consistent whatever the others do.
LEMMA WitnessInductive == WitnessIInv /\ [WitnessNext]_named => WitnessIInv'
<1>. SUFFICES ASSUME WitnessIInv, [WitnessNext]_named PROVE WitnessIInv'
  OBVIOUS
<1>1. CASE WitnessNext
  <2>1. PICK w \in Trusted, history \in Histories : NameIt(w, history)
    BY <1>1 DEF WitnessNext
  <2>2. named \in [Trusted -> SUBSET Histories]
    BY DEF WitnessIInv, WitnessTypeOK
  <2>3. named' = [named EXCEPT ![w] = named[w] \cup {history}]
    BY <2>1 DEF NameIt
  <2>4. WitnessTypeOK'
    BY <2>1, <2>2, <2>3 DEF WitnessTypeOK
  <2>5. HonestAreConsistent'
    <3>. SUFFICES ASSUME NEW v \in Honest, NEW one \in named'[v], NEW other \in named'[v]
                  PROVE  Continues(one, other) \/ Continues(other, one)
      BY DEF HonestAreConsistent, Continues
    <3>1. v \in Trusted
      BY TrustedAssumption
    <3>2. CASE one \in named[v] /\ other \in named[v]
      BY <3>2 DEF WitnessIInv, HonestAreConsistent
    <3>3. CASE v = w /\ (one = history \/ other = history)
      <4>1. \A earlier \in named[v] : Continues(history, earlier)
        BY <2>1, <3>3 DEF NameIt
      <4>2. one \in named[v] \cup {history} /\ other \in named[v] \cup {history}
        BY <2>2, <2>3, <3>1, <3>3
      <4>3. CASE one = history /\ other \in named[v]
        BY <4>1, <4>3
      <4>4. CASE other = history /\ one \in named[v]
        BY <4>1, <4>4
      <4>5. CASE one = history /\ other = history
        <5>. SUFFICES Continues(history, history)
          BY <4>5
        <5>. QED BY DEF Continues
      <4>. QED BY <3>3, <4>2, <4>3, <4>4, <4>5
    <3>4. v # w => named'[v] = named[v]
      BY <2>2, <2>3, <3>1
    <3>5. v = w => named'[v] = named[v] \cup {history}
      BY <2>2, <2>3, <3>1
    <3>. QED BY <3>2, <3>3, <3>4, <3>5
  <2>. QED BY <2>4, <2>5 DEF WitnessIInv
<1>2. CASE UNCHANGED named
  BY <1>2 DEF WitnessIInv, WitnessTypeOK, HonestAreConsistent, Continues
<1>. QED BY <1>1, <1>2

\* Two histories at a quorum were both named by one honest witness.
LEMMA ConsistentMeansOne == WitnessIInv => OneHistory
<1>. SUFFICES ASSUME WitnessIInv,
                     NEW one \in Histories, NEW other \in Histories,
                     Witnessed(one), Witnessed(other)
              PROVE  Continues(one, other) \/ Continues(other, one)
  BY DEF OneHistory
<1>1. PICK w \in Honest : w \in NamedBy(one) /\ w \in NamedBy(other)
  <2>1. NamedBy(one) \in SUBSET Trusted /\ NamedBy(other) \in SUBSET Trusted
    BY DEF NamedBy
  <2>2. Cardinality(NamedBy(one)) >= Quorum /\ Cardinality(NamedBy(other)) >= Quorum
    BY DEF Witnessed
  <2>. QED BY <2>1, <2>2, QuorumsShareHonest
<1>2. one \in named[w] /\ other \in named[w]
  BY <1>1 DEF NamedBy
<1>. QED BY <1>2 DEF WitnessIInv, HonestAreConsistent

\* What reaches a quorum of witnesses is one history, seen earlier or later, at
\* every moment: cosignature.py's count of distinct witnesses (evaluate_quorum)
\* protects two consumers from being shown different logs.
THEOREM QuorumSeesOneHistory == WitnessSpec => []OneHistory
<1>1. WitnessInit => WitnessIInv
  BY TrustedAssumption DEF WitnessInit, WitnessIInv, WitnessTypeOK, HonestAreConsistent
<1>2. WitnessIInv /\ [WitnessNext]_named => WitnessIInv'
  BY WitnessInductive
<1>3. WitnessIInv => OneHistory
  BY ConsistentMeansOne
<1>. QED BY <1>1, <1>2, <1>3, PTL DEF WitnessSpec

-----------------------------------------------------------------------------
(* The log keeps the witnesses' contract *)

LEMMA RecordedIs ==
  ASSUME NEW view, NEW part, NEW size \in Nat
  PROVE  Len(Recorded(view, part, size)) = size
<1>1. PICK f : f = Recorded(view, part, size)
  OBVIOUS
<1>2. f \in [1..size -> {f[i] : i \in 1..size}]
  BY <1>1 DEF Recorded
<1>3. f \in Seq({f[i] : i \in 1..size})
  BY <1>2
<1>4. Len(f) = size
  BY <1>2, <1>3
<1>. QED
  BY <1>1, <1>4

\* A root that the registry made stands for one list of entries.
EntriesUnder(part, checkpoint) ==
  CHOOSE history \in {Recorded(view, part, checkpoint.size) : view \in Views} : Root(history) = checkpoint.root
CheckpointOf(view, part, size) == [size |-> size, root |-> Root(Recorded(view, part, size))]

LEMMA RecordedTells ==
  ASSUME NEW one \in Views, NEW other \in Views, NEW part, NEW size \in Nat,
         Root(Recorded(one, part, size)) = Root(Recorded(other, part, size))
  PROVE  Recorded(one, part, size) = Recorded(other, part, size)
<1>1. PICK f, g : f = Recorded(one, part, size) /\ g = Recorded(other, part, size)
  OBVIOUS
<1>2. Len(f) = size /\ Len(g) = size
  BY <1>1, RecordedIs
<1>3. \A i \in 1..size : f[i] = g[i]
  <2>1. CASE size = 0
    BY <2>1
  <2>2. CASE size > 0
    <3>1. PICK s : s = <<0, size>>
      OBVIOUS
    <3>2. s \in Segments(size) /\ s[1] = 0 /\ s[2] = size /\ s[2] \in 1..size
      BY <2>2, <3>1 DEF Segments
    <3>3. Roots(f)[s] = Roots(g)[s]
      BY <1>1, <1>2, <3>1 DEF Root
    <3>4. SameLeaves(f, g, s[1], s[1] + s[2])
      BY <1>2, <3>2, <3>3, RootTells
    <3>. QED
      BY <3>2, <3>4 DEF SameLeaves
  <2>. QED
    BY <2>1, <2>2
<1>4. /\ DOMAIN f = 1..size /\ DOMAIN g = 1..size
      /\ f = [i \in 1..size |-> f[i]] /\ g = [i \in 1..size |-> g[i]]
  BY <1>1 DEF Recorded
<1>. QED
  BY <1>1, <1>3, <1>4

LEMMA EntriesAre ==
  ASSUME NEW view \in Views, NEW part, NEW size \in Nat
  PROVE  EntriesUnder(part, CheckpointOf(view, part, size)) = Recorded(view, part, size)
<1>1. PICK f, root : f = Recorded(view, part, size) /\ root = Root(f)
  OBVIOUS
<1>. DEFINE all == {Recorded(v, part, size) : v \in Views}
<1>2. EntriesUnder(part, CheckpointOf(view, part, size)) = CHOOSE history \in all : Root(history) = root
  BY <1>1 DEF EntriesUnder, CheckpointOf
<1>3. f \in all /\ Root(f) = root
  BY <1>1
<1>4. ASSUME NEW history \in all, Root(history) = root PROVE history = f
  <2>1. PICK v \in Views : history = Recorded(v, part, size)
    OBVIOUS
  <2>. QED
    BY <1>1, <1>4, <2>1, RecordedTells
<1>. HIDE DEF all
<1>. QED
  BY <1>1, <1>2, <1>3, <1>4

\* That something is a sequence.
IsSequence(p) == \E S : p \in Seq(S)
LEMMA NearbyAreSequences ==
  ASSUME NEW proper, \A p \in proper : IsSequence(p), NEW path \in Paths(proper)
  PROVE  IsSequence(path)
<1>1. \/ path \in proper
      \/ \E p \in proper : p # <<>> /\ path = Tail(p)
      \/ \E p \in proper : path = Append(p, LeafHash(1))
  BY DEF Paths
<1>2. ASSUME NEW p \in proper, p # <<>>, path = Tail(p) PROVE IsSequence(path)
  <2>1. PICK S : p \in Seq(S)
    BY DEF IsSequence
  <2>2. path \in Seq(S)
    BY <1>2, <2>1
  <2>. QED
    BY <2>2 DEF IsSequence
<1>3. ASSUME NEW p \in proper, path = Append(p, LeafHash(1)) PROVE IsSequence(path)
  <2>1. PICK S : p \in Seq(S)
    BY DEF IsSequence
  <2>2. PICK leaf, T : leaf = LeafHash(1) /\ T = S \cup {leaf}
    OBVIOUS
  <2>3. p \in Seq(T)
    BY <2>1, <2>2
  <2>4. path \in Seq(T)
    BY <1>3, <2>2, <2>3
  <2>. QED
    BY <2>4 DEF IsSequence
<1>. QED
  BY <1>1, <1>2, <1>3

LEMMA PathsAreSequences ==
  ASSUME NEW size \in Nat, NEW path \in ConsistencyPaths(size)
  PROVE  IsSequence(path)
<1>. DEFINE proper == {ConsistencyPath(first, History(view, size)) : view \in Views, first \in 1..size}
<1>1. ASSUME NEW p \in proper PROVE IsSequence(p)
  <2>1. PICK view \in Views, first \in 1..size : p = ConsistencyPath(first, History(view, size))
    OBVIOUS
  <2>2. PICK leaves : leaves = History(view, size) /\ Len(leaves) = size
    BY RecordedIs DEF History
  <2>3. p \in Seq(RootsOf(leaves))
    BY <2>1, <2>2, ConsistencyPathType
  <2>. QED
    BY <2>3 DEF IsSequence
<1>2. path \in Paths(proper)
  BY DEF ConsistencyPaths
<1>. HIDE DEF proper
<1>. QED
  BY <1>1, <1>2, NearbyAreSequences

\* What a proof shows to a witness is that one list of entries continues the other.
LEMMA ShownContinues ==
  ASSUME NEW one \in Views, NEW other \in Views, NEW part, NEW size \in Nat, NEW longer \in Nat, size > 0,
         NEW S, NEW path \in Seq(S),
         VerifyConsistency(size, longer, path, Root(Recorded(one, part, size)), Root(Recorded(other, part, longer)))
  PROVE  Continues(Recorded(other, part, longer), Recorded(one, part, size))
<1>1. PICK f, g : /\ f = Recorded(one, part, size) /\ g = Recorded(other, part, longer)
                  /\ Len(f) = size /\ Len(g) = longer
  BY RecordedIs
<1>2. VerifyConsistency(Len(f), Len(g), path, Root(f), Root(g))
  BY <1>1
<1>3. Len(f) <= Len(g) /\ \A i \in 1..Len(f) : f[i] = g[i]
  BY <1>1, <1>2, ConsistencyIsSound
<1>. QED
  BY <1>1, <1>3 DEF Continues

-----------------------------------------------------------------------------
(* The invariant of the log *)

\* Whatever is retained or cosigned is a checkpoint the registry has made.
LogTypeOK ==
  /\ logged \in 0..MaxEntries /\ parting \in Partings
  /\ DOMAIN retained = Honest
  /\ \A w \in Honest : retained[w] \in Checkpoints
  /\ \A c \in cosignatures : c.checkpoint \in Checkpoints \ {NoCheckpoint}

\* What an honest witness cosigned is continued by what it cosigned last.
PromiseKept ==
  \A w \in Honest : \A c \in cosignatures :
    c.witness = w => /\ retained[w] # NoCheckpoint
                     /\ Continues(EntriesOf(retained[w]), EntriesOf(c.checkpoint))

LogInv == LogTypeOK /\ PromiseKept

LEMMA CheckpointsAre ==
  ASSUME NEW checkpoint \in Checkpoints, logged \in Nat
  PROVE  \E view \in Views, size \in 0..logged :
           /\ checkpoint = CheckpointOf(view, parting, size) /\ checkpoint.size = size
           /\ checkpoint.root = Root(Recorded(view, parting, size))
           /\ EntriesOf(checkpoint) = Recorded(view, parting, size)
           /\ checkpoint # NoCheckpoint => size > 0
<1>1. PICK view \in Views, size \in 0..logged : checkpoint = Checkpoint(view, size)
  BY DEF Checkpoints
<1>2. PICK part, f, root : part = parting /\ f = Recorded(view, part, size) /\ root = Root(f)
  OBVIOUS
<1>3. checkpoint = [size |-> size, root |-> root]
  BY <1>1, <1>2 DEF Checkpoint, History
<1>4. checkpoint.size = size /\ checkpoint.root = root /\ checkpoint = CheckpointOf(view, part, size)
  BY <1>2, <1>3 DEF CheckpointOf
<1>5. EntriesOf(checkpoint) = f
  <2>1. EntriesOf(checkpoint) = EntriesUnder(part, checkpoint)
    BY <1>2 DEF EntriesOf, EntriesUnder, History
  <2>2. EntriesUnder(part, checkpoint) = f
    BY <1>2, <1>4, EntriesAre
  <2>. QED
    BY <2>1, <2>2
<1>6. size = 0 => checkpoint = NoCheckpoint
  <2>1. SUFFICES ASSUME size = 0 PROVE root = <<>>
    BY <1>3 DEF NoCheckpoint
  <2>2. Len(f) = 0
    BY <1>2, <2>1, RecordedIs
  <2>3. PICK s : s = <<0, 0>> /\ s \in Segments(0) /\ s[2] = 0
    <3>1. PICK s : s = <<0, 0>>
      OBVIOUS
    <3>2. s \in Segments(0) /\ s[2] = 0
      BY <3>1 DEF Segments
    <3>. QED
      BY <3>1, <3>2
  <2>4. Roots(f)[s] = <<>>
    BY <2>2, <2>3, EmptyRoot
  <2>. QED
    BY <1>2, <2>2, <2>3, <2>4 DEF Root
<1>. QED
  BY <1>1, <1>2, <1>4, <1>5, <1>6

LEMMA InitLog == LogInit => LogInv
<1>1. SUFFICES ASSUME LogInit PROVE LogInv
  OBVIOUS
<1>2. NoCheckpoint \in Checkpoints
  <2>1. logged = 0 /\ "true" \in Views /\ 0 \in 0..logged
    BY <1>1 DEF LogInit, Views
  <2>2. PICK f : f = History("true", 0) /\ Len(f) = 0
    BY RecordedIs DEF History
  <2>3. PICK s : s = <<0, 0>> /\ s \in Segments(0) /\ s[2] = 0
    <3>1. PICK s : s = <<0, 0>>
      OBVIOUS
    <3>2. s \in Segments(0) /\ s[2] = 0
      BY <3>1 DEF Segments
    <3>. QED
      BY <3>1, <3>2
  <2>4. Root(f) = <<>>
    BY <2>2, <2>3, EmptyRoot DEF Root
  <2>5. Checkpoint("true", 0) = NoCheckpoint
    BY <2>2, <2>4 DEF Checkpoint, NoCheckpoint
  <2>. QED
    BY <2>1, <2>5 DEF Checkpoints
<1>3. LogTypeOK
  BY <1>1, <1>2, LogBoundAssumption DEF LogInit, LogTypeOK
<1>4. PromiseKept
  BY <1>1 DEF LogInit, PromiseKept
<1>. QED
  BY <1>3, <1>4 DEF LogInv

\* Steps that keep what was recorded keep what is under a root.
LEMMA StillTheSame ==
  ASSUME parting' = parting
  PROVE  /\ \A checkpoint : EntriesOf(checkpoint)' = EntriesOf(checkpoint)
         /\ logged' = logged => Checkpoints' = Checkpoints
         /\ logged \in Nat /\ logged' = logged + 1 => Checkpoints \subseteq Checkpoints'
<1>1. \A view, size : History(view, size)' = History(view, size)
  BY DEF History
<1>2. \A checkpoint : EntriesOf(checkpoint)' = EntriesOf(checkpoint)
  BY <1>1 DEF EntriesOf
<1>3. logged' = logged => Checkpoints' = Checkpoints
  BY <1>1 DEF Checkpoints, Checkpoint
<1>4. logged \in Nat /\ logged' = logged + 1 => Checkpoints \subseteq Checkpoints'
  <2>1. SUFFICES ASSUME logged \in Nat, logged' = logged + 1, NEW checkpoint \in Checkpoints
                 PROVE  checkpoint \in Checkpoints'
    OBVIOUS
  <2>2. PICK view \in Views, size \in 0..logged : checkpoint = Checkpoint(view, size)
    BY DEF Checkpoints
  <2>3. checkpoint = Checkpoint(view, size)' /\ size \in 0..logged'
    BY <1>1, <2>1, <2>2 DEF Checkpoint
  <2>. QED
    BY <2>3 DEF Checkpoints
<1>. QED
  BY <1>2, <1>3, <1>4

LEMMA ContinuesOn ==
  ASSUME NEW f, NEW g, NEW h, Len(f) \in Nat, Len(g) \in Nat, Len(h) \in Nat, Continues(f, g), Continues(g, h)
  PROVE  Continues(f, h)
<1>1. PICK l \in Nat, m \in Nat, n \in Nat : l = Len(f) /\ m = Len(g) /\ n = Len(h)
  OBVIOUS
<1>2. m <= l /\ n <= m /\ (\A i \in 1..m : f[i] = g[i]) /\ \A i \in 1..n : g[i] = h[i]
  BY <1>1 DEF Continues
<1>3. \A i \in 1..n : i \in 1..m
  BY <1>2
<1>. QED
  BY <1>1, <1>2, <1>3 DEF Continues

LEMMA ShownIs ==
  ASSUME LogTypeOK, NEW w \in Honest, NEW checkpoint \in Checkpoints, retained[w] # NoCheckpoint,
         Shown(w, checkpoint)
  PROVE  Continues(EntriesOf(checkpoint), EntriesOf(retained[w]))
<1>1. logged \in Nat /\ retained[w] \in Checkpoints
  BY LogBoundAssumption DEF LogTypeOK
<1>2. PICK before : before = retained[w] /\ before \in Checkpoints /\ before # NoCheckpoint
  BY <1>1
<1>3. PICK part : part = parting
  OBVIOUS
<1>4. PICK one \in Views, size \in 0..logged :
        /\ before.size = size /\ before.root = Root(Recorded(one, part, size)) /\ size > 0
        /\ EntriesOf(before) = Recorded(one, part, size)
  BY <1>1, <1>2, <1>3, CheckpointsAre
<1>5. PICK other \in Views, longer \in 0..logged :
        /\ checkpoint.size = longer /\ checkpoint.root = Root(Recorded(other, part, longer))
        /\ EntriesOf(checkpoint) = Recorded(other, part, longer)
  BY <1>1, <1>3, CheckpointsAre
<1>6. size \in Nat /\ longer \in Nat
  BY <1>1
<1>7. PICK path \in ConsistencyPaths(longer) :
        VerifyConsistency(size, longer, path, Root(Recorded(one, part, size)), Root(Recorded(other, part, longer)))
  BY <1>2, <1>4, <1>5 DEF Shown
<1>8. PICK S : path \in Seq(S)
  BY <1>6, PathsAreSequences DEF IsSequence
<1>9. Continues(Recorded(other, part, longer), Recorded(one, part, size))
  BY <1>4, <1>6, <1>7, <1>8, ShownContinues
<1>. QED
  BY <1>2, <1>4, <1>5, <1>9

\* An honest witness cosigns only what continues all it cosigned before.
LEMMA HonestContinues ==
  ASSUME LogInv, NEW w \in Honest, NEW checkpoint \in Checkpoints,
         retained[w] = NoCheckpoint \/ Shown(w, checkpoint), NEW c \in cosignatures, c.witness = w
  PROVE  Continues(EntriesOf(checkpoint), EntriesOf(c.checkpoint))
<1>1. /\ retained[w] # NoCheckpoint /\ Continues(EntriesOf(retained[w]), EntriesOf(c.checkpoint))
      /\ LogTypeOK
  BY DEF LogInv, PromiseKept
<1>2. Shown(w, checkpoint)
  BY <1>1
<1>3. Continues(EntriesOf(checkpoint), EntriesOf(retained[w]))
  BY <1>1, <1>2, ShownIs
<1>4. \A cp \in Checkpoints : Len(EntriesOf(cp)) \in Nat
  <2>1. ASSUME NEW cp \in Checkpoints PROVE Len(EntriesOf(cp)) \in Nat
    <3>1. logged \in Nat
      BY <1>1, LogBoundAssumption DEF LogTypeOK
    <3>2. PICK view \in Views, size \in 0..logged : EntriesOf(cp) = Recorded(view, parting, size)
      BY <3>1, CheckpointsAre
    <3>3. size \in Nat
      BY <3>1
    <3>. QED
      BY <3>2, <3>3, RecordedIs
  <2>. QED
    BY <2>1
<1>5. retained[w] \in Checkpoints /\ c.checkpoint \in Checkpoints
  BY <1>1 DEF LogTypeOK
<1>. QED
  BY <1>1, <1>3, <1>4, <1>5, ContinuesOn

LEMMA NextLog == LogInv /\ [LogNext]_logVars => LogInv'
<1>1. SUFFICES ASSUME LogInv, [LogNext]_logVars PROVE LogInv'
  OBVIOUS
<1>2. LogTypeOK /\ PromiseKept /\ logged \in Nat
  BY <1>1, LogBoundAssumption DEF LogInv, LogTypeOK
<1>3. CASE Record
  <2>1. /\ parting' = parting /\ logged' = logged + 1 /\ retained' = retained /\ cosignatures' = cosignatures
        /\ logged < MaxEntries
    BY <1>3 DEF Record
  <2>2. /\ \A cp : EntriesOf(cp)' = EntriesOf(cp)
        /\ Checkpoints \subseteq Checkpoints'
    BY <1>2, <2>1, StillTheSame
  <2>3. logged' \in 0..MaxEntries
    BY <1>2, <2>1, LogBoundAssumption DEF LogTypeOK
  <2>4. LogTypeOK'
    BY <1>2, <2>1, <2>2, <2>3 DEF LogTypeOK, NoCheckpoint
  <2>5. PromiseKept'
    BY <1>2, <2>1, <2>2 DEF PromiseKept, NoCheckpoint, Continues
  <2>. QED
    BY <2>4, <2>5 DEF LogInv
<1>4. ASSUME NEW checkpoint \in Checkpoints \ {NoCheckpoint}, NEW again \in BOOLEAN, NEW w \in Honest,
             Cosign(w, checkpoint, again)
      PROVE  LogInv'
  <2>. DEFINE new == Cosignature(w, checkpoint, again)
  <2>1. /\ parting' = parting /\ logged' = logged /\ retained' = [retained EXCEPT ![w] = checkpoint]
        /\ cosignatures' = cosignatures \cup {new}
        /\ retained[w] = NoCheckpoint \/ Shown(w, checkpoint)
    BY <1>4 DEF Cosign
  <2>2. new.witness = w /\ new.checkpoint = checkpoint
    BY DEF Cosignature
  <2>. HIDE DEF new
  <2>3. (\A cp : EntriesOf(cp)' = EntriesOf(cp)) /\ Checkpoints' = Checkpoints
    BY <2>1, StillTheSame
  <2>4. /\ DOMAIN retained' = Honest /\ retained'[w] = checkpoint
        /\ \A v \in Honest \ {w} : retained'[v] = retained[v]
    BY <1>2, <2>1 DEF LogTypeOK
  <2>5. LogTypeOK'
    <3>1. \A v \in Honest : retained'[v] \in Checkpoints
      BY <1>2, <2>4 DEF LogTypeOK
    <3>2. \A c \in cosignatures' : c.checkpoint \in Checkpoints \ {NoCheckpoint}
      BY <1>2, <2>1, <2>2 DEF LogTypeOK
    <3>. QED
      BY <1>2, <2>1, <2>3, <2>4, <3>1, <3>2 DEF LogTypeOK, NoCheckpoint
  <2>6. PromiseKept'
    <3>1. ASSUME NEW v \in Honest, NEW c \in cosignatures', c.witness = v
          PROVE  retained'[v] # NoCheckpoint /\ Continues(EntriesOf(retained'[v]), EntriesOf(c.checkpoint))
      <4>1. CASE v # w
        <5>1. c \in cosignatures
          BY <2>1, <2>2, <3>1, <4>1
        <5>. QED
          BY <1>2, <2>4, <3>1, <4>1, <5>1 DEF PromiseKept
      <4>2. CASE v = w /\ c = new
        <5>1. Continues(EntriesOf(checkpoint), EntriesOf(checkpoint))
          <6>1. PICK view \in Views, size \in 0..logged : EntriesOf(checkpoint) = Recorded(view, parting, size)
            BY <1>2, CheckpointsAre
          <6>2. PICK f : f = EntriesOf(checkpoint) /\ Len(f) \in Nat
            BY <1>2, <6>1, RecordedIs
          <6>. QED
            BY <6>2 DEF Continues
        <5>. QED
          BY <2>2, <2>4, <4>2, <5>1
      <4>3. CASE v = w /\ c # new
        <5>1. c \in cosignatures
          BY <2>1, <4>3
        <5>2. Continues(EntriesOf(checkpoint), EntriesOf(c.checkpoint))
          BY <1>1, <2>1, <3>1, <4>3, <5>1, HonestContinues
        <5>. QED
          BY <2>4, <4>3, <5>2
      <4>. QED
        BY <4>1, <4>2, <4>3
    <3>. QED
      BY <2>3, <3>1 DEF PromiseKept, NoCheckpoint, Continues
  <2>. QED
    BY <2>5, <2>6 DEF LogInv
<1>5. ASSUME NEW checkpoint \in Checkpoints \ {NoCheckpoint}, NEW again \in BOOLEAN, NEW w \in Witnesses, w \notin Honest,
             CosignAnything(w, checkpoint, again)
      PROVE  LogInv'
  <2>. DEFINE new == Cosignature(w, checkpoint, again)
  <2>1. /\ parting' = parting /\ logged' = logged /\ retained' = retained
        /\ cosignatures' = cosignatures \cup {new}
    BY <1>5 DEF CosignAnything
  <2>2. new.witness = w /\ new.checkpoint = checkpoint
    BY DEF Cosignature
  <2>. HIDE DEF new
  <2>3. (\A cp : EntriesOf(cp)' = EntriesOf(cp)) /\ Checkpoints' = Checkpoints
    BY <2>1, StillTheSame
  <2>4. \A c \in cosignatures' : c.witness \in Honest => c \in cosignatures
    BY <1>5, <2>1, <2>2
  <2>5. \A c \in cosignatures' : c.checkpoint \in Checkpoints \ {NoCheckpoint}
    BY <1>2, <2>1, <2>2 DEF LogTypeOK
  <2>6. LogTypeOK'
    BY <1>2, <2>1, <2>3, <2>5 DEF LogTypeOK, NoCheckpoint
  <2>7. PromiseKept'
    BY <1>2, <2>1, <2>3, <2>4 DEF PromiseKept, NoCheckpoint, Continues
  <2>. QED
    BY <2>6, <2>7 DEF LogInv
<1>6. ASSUME parting' = parting, logged' = logged, retained' = retained, cosignatures' = cosignatures PROVE LogInv'
  <2>1. (\A cp : EntriesOf(cp)' = EntriesOf(cp)) /\ Checkpoints' = Checkpoints
    BY <1>6, StillTheSame
  <2>2. LogTypeOK'
    BY <1>2, <1>6, <2>1 DEF LogTypeOK, NoCheckpoint
  <2>3. PromiseKept'
    BY <1>2, <1>6, <2>1 DEF PromiseKept, NoCheckpoint, Continues
  <2>. QED
    BY <2>2, <2>3 DEF LogInv
<1>7. CASE \E view \in Views, entry \in 1..logged, index \in 0..logged, path \in InclusionPaths :
             HandProof(entry, index, Checkpoint(view, logged), path)
  BY <1>6, <1>7 DEF HandProof
<1>8. CASE UNCHANGED logVars
  BY <1>6, <1>8 DEF logVars
<1>. QED
  BY <1>1, <1>3, <1>4, <1>5, <1>7, <1>8 DEF LogNext

-----------------------------------------------------------------------------
(* Refinement *)

\* The histories that a trusted witness put its name to, as the contract is instantiated.
HistoriesShown == {Recorded(view, part, size) : view \in Views, part \in Partings, size \in 0..MaxEntries}
NamedHere ==
  [w \in Trusted |-> {EntriesOf(c.checkpoint) : c \in {d \in cosignatures : d.witness = w}}]
NamesIt(w, history) ==
  /\ w \in Honest => \A earlier \in NamedHere[w] : Continues(history, earlier)
  /\ NamedHere' = [NamedHere EXCEPT ![w] = @ \cup {history}]

LEMMA CosignsAreNames ==
  ASSUME LogInv, NEW checkpoint \in Checkpoints, NEW w, NEW again,
         parting' = parting, cosignatures' = cosignatures \cup {Cosignature(w, checkpoint, again)},
         w \in Honest => retained[w] = NoCheckpoint \/ Shown(w, checkpoint)
  PROVE  /\ w \in Trusted => EntriesOf(checkpoint) \in HistoriesShown /\ NamesIt(w, EntriesOf(checkpoint))
         /\ w \notin Trusted => NamedHere' = NamedHere
<1>. DEFINE new == Cosignature(w, checkpoint, again)
<1>1. new.witness = w /\ new.checkpoint = checkpoint
  BY DEF Cosignature
<1>2. cosignatures' = cosignatures \cup {new}
  OBVIOUS
<1>. HIDE DEF new
<1>3. \A cp : EntriesOf(cp)' = EntriesOf(cp)
  BY StillTheSame
<1>. DEFINE names(v) == {EntriesOf(c.checkpoint) : c \in {d \in cosignatures : d.witness = v}}
            after(v) == {EntriesOf(c.checkpoint) : c \in {d \in cosignatures' : d.witness = v}}
<1>4. NamedHere = [v \in Trusted |-> names(v)]
  BY DEF NamedHere
<1>5. NamedHere' = [v \in Trusted |-> after(v)]
  BY <1>3 DEF NamedHere
<1>6. ASSUME NEW v, v # w PROVE after(v) = names(v)
  <2>1. {d \in cosignatures' : d.witness = v} = {d \in cosignatures : d.witness = v}
    BY <1>1, <1>2, <1>6
  <2>. QED
    BY <2>1
<1>7. after(w) = names(w) \cup {EntriesOf(checkpoint)}
  <2>1. {d \in cosignatures' : d.witness = w} = {d \in cosignatures : d.witness = w} \cup {new}
    BY <1>1, <1>2
  <2>. QED
    BY <1>1, <2>1
<1>. HIDE DEF names, after
<1>8. CASE w \in Trusted
  <2>1. NamedHere' = [NamedHere EXCEPT ![w] = @ \cup {EntriesOf(checkpoint)}]
    BY <1>4, <1>5, <1>6, <1>7, <1>8
  <2>2. ASSUME w \in Honest, NEW earlier \in NamedHere[w] PROVE Continues(EntriesOf(checkpoint), earlier)
    <3>1. earlier \in names(w)
      BY <1>4, <1>8, <2>2
    <3>2. PICK c \in cosignatures : c.witness = w /\ earlier = EntriesOf(c.checkpoint)
      BY <3>1 DEF names
    <3>. QED
      BY <2>2, <3>2, HonestContinues
  <2>3. EntriesOf(checkpoint) \in HistoriesShown
    <3>1. logged \in 0..MaxEntries /\ parting \in Partings /\ logged \in Nat
      BY LogBoundAssumption DEF LogInv, LogTypeOK
    <3>2. PICK view \in Views, size \in 0..logged : EntriesOf(checkpoint) = Recorded(view, parting, size)
      BY <3>1, CheckpointsAre
    <3>3. size \in 0..MaxEntries
      BY <3>1, LogBoundAssumption
    <3>. QED
      BY <3>1, <3>2, <3>3 DEF HistoriesShown
  <2>. QED
    BY <1>8, <2>1, <2>2, <2>3 DEF NamesIt
<1>9. CASE w \notin Trusted
  <2>1. \A v \in Trusted : v # w
    BY <1>9
  <2>. QED
    BY <1>4, <1>5, <1>6, <1>9, <2>1
<1>. QED
  BY <1>8, <1>9

\* A log whose honest witnesses cosign what verify_consistency accepts as a continuation of
\* their last checkpoint implements the contract: they name only histories that continue
\* those they named, whatever views the registry shows to whom.
THEOREM LogKeepsContract == LogSpec => KeepsWitnessContract
<1>1. LogInit => Contract!WitnessInit
  <2>1. SUFFICES ASSUME LogInit PROVE NamedHere = [w \in Trusted |-> {}]
    BY DEF Contract!WitnessInit, NamedHere
  <2>. QED
    BY <2>1 DEF LogInit, NamedHere
<1>2. LogInv /\ [LogNext]_logVars => (\E w \in Trusted, history \in HistoriesShown : NamesIt(w, history)) \/ NamedHere' = NamedHere
  <2>1. SUFFICES ASSUME LogInv, [LogNext]_logVars
                 PROVE (\E w \in Trusted, history \in HistoriesShown : NamesIt(w, history)) \/ NamedHere' = NamedHere
    OBVIOUS
  <2>2. ASSUME parting' = parting, cosignatures' = cosignatures PROVE NamedHere' = NamedHere
    <3>1. \A cp : EntriesOf(cp)' = EntriesOf(cp)
      BY <2>2, StillTheSame
    <3>. QED
      BY <2>2, <3>1 DEF NamedHere
  <2>3. ASSUME NEW checkpoint \in Checkpoints \ {NoCheckpoint}, NEW again \in BOOLEAN, NEW w \in Witnesses,
               IF w \in Honest THEN Cosign(w, checkpoint, again) ELSE CosignAnything(w, checkpoint, again)
        PROVE  (\E v \in Trusted, history \in HistoriesShown : NamesIt(v, history)) \/ NamedHere' = NamedHere
    <3>1. /\ parting' = parting /\ cosignatures' = cosignatures \cup {Cosignature(w, checkpoint, again)}
          /\ w \in Honest => retained[w] = NoCheckpoint \/ Shown(w, checkpoint)
      BY <2>3 DEF Cosign, CosignAnything
    <3>2. /\ w \in Trusted => EntriesOf(checkpoint) \in HistoriesShown /\ NamesIt(w, EntriesOf(checkpoint))
          /\ w \notin Trusted => NamedHere' = NamedHere
      BY <2>1, <3>1, CosignsAreNames
    <3>. QED
      BY <3>2
  <2>4. CASE Record
    BY <2>2, <2>4 DEF Record
  <2>5. CASE \E view \in Views, entry \in 1..logged, index \in 0..logged, path \in InclusionPaths :
               HandProof(entry, index, Checkpoint(view, logged), path)
    BY <2>2, <2>5 DEF HandProof
  <2>6. CASE UNCHANGED logVars
    BY <2>2, <2>6 DEF logVars
  <2>. QED
    BY <2>1, <2>3, <2>4, <2>5, <2>6 DEF LogNext
<1>3. LogInv /\ [LogNext]_logVars => [Contract!WitnessNext]_NamedHere
  <2>1. \A longer, shorter : Contract!Continues(longer, shorter) <=> Continues(longer, shorter)
    BY DEF Contract!Continues, Continues
  <2>2. ASSUME NEW w \in Trusted, NEW history \in HistoriesShown, NamesIt(w, history)
        PROVE  Contract!NameIt(w, history)
    <3>1. w \in Honest => \A earlier \in NamedHere[w] : Contract!Continues(history, earlier)
      BY <2>1, <2>2 DEF NamesIt
    <3>2. NamedHere' = [NamedHere EXCEPT ![w] = NamedHere[w] \cup {history}]
      BY <2>2 DEF NamesIt
    <3>. QED
      BY <3>1, <3>2 DEF Contract!NameIt, NamedHere
  <2>3. (\E w \in Trusted, history \in HistoriesShown : NamesIt(w, history)) => Contract!WitnessNext
    BY <2>2 DEF Contract!WitnessNext, HistoriesShown
  <2>. QED
    BY <1>2, <2>3
<1>. QED
  BY <1>1, <1>3, InitLog, NextLog, PTL DEF LogSpec, KeepsWitnessContract, Contract!WitnessSpec, NamedHere

\* Two checkpoints that both meet the quorum (evaluate_quorum) are of one history: trees
\* of any number of entries, any trusted set and any quorum that two sets of witnesses
\* cannot reach without a common honest one.
THEOREM QuorumsShareHistory == LogSpec => []QuorumMeansOneHistory
<1>1. LogInv => QuorumMeansOneHistory
  <2>1. SUFFICES ASSUME LogInv, NEW c \in cosignatures, NEW d \in cosignatures, NEW one, NEW other,
                        one = c.checkpoint, other = d.checkpoint, Meets(one), Meets(other), one.size <= other.size
                 PROVE  EntriesOf(one) = SubSeq(EntriesOf(other), 1, one.size)
    BY DEF QuorumMeansOneHistory
  <2>2. logged \in Nat /\ one \in Checkpoints /\ other \in Checkpoints
    BY <2>1, LogBoundAssumption DEF LogInv, LogTypeOK
  <2>. DEFINE signers(cp) == {e.witness : e \in {f \in cosignatures : VerifiesFor(f, cp)}}
  <2>3. \A cp : signers(cp) \in SUBSET Trusted
    BY DEF VerifiesFor
  <2>4. Cardinality(signers(one)) >= Quorum /\ Cardinality(signers(other)) >= Quorum
    BY <2>1 DEF Meets, WitnessedCount
  <2>5. PICK w \in Honest : w \in signers(one) /\ w \in signers(other)
    <3>. HIDE DEF signers
    <3>. QED
      BY <2>3, <2>4, QuorumsShareHonest
  <2>6. PICK e \in cosignatures, f \in cosignatures :
          e.witness = w /\ e.checkpoint = one /\ f.witness = w /\ f.checkpoint = other
    BY <2>5 DEF VerifiesFor
  <2>7. PICK last : last = EntriesOf(retained[w]) /\ Continues(last, EntriesOf(one)) /\ Continues(last, EntriesOf(other))
    BY <2>1, <2>6 DEF LogInv, PromiseKept
  <2>8. PICK part : part = parting
    OBVIOUS
  <2>9. PICK view \in Views, size \in 0..logged : one.size = size /\ EntriesOf(one) = Recorded(view, part, size)
    BY <2>2, <2>8, CheckpointsAre
  <2>10. PICK view2 \in Views, longer \in 0..logged : other.size = longer /\ EntriesOf(other) = Recorded(view2, part, longer)
    BY <2>2, <2>8, CheckpointsAre
  <2>11. PICK f1, f2 : f1 = EntriesOf(one) /\ f2 = EntriesOf(other)
    OBVIOUS
  <2>12. size \in Nat /\ longer \in Nat /\ size <= longer
    BY <2>1, <2>2, <2>9, <2>10
  <2>13. Len(f1) = size /\ Len(f2) = longer
    BY <2>9, <2>10, <2>11, <2>12, RecordedIs
  <2>14. \A i \in 1..size : f1[i] = f2[i]
    <3>1. (\A i \in 1..size : last[i] = f1[i]) /\ \A i \in 1..longer : last[i] = f2[i]
      BY <2>7, <2>11, <2>13 DEF Continues
    <3>2. \A i \in 1..size : i \in 1..longer
      BY <2>12
    <3>. QED
      BY <3>1, <3>2
  <2>15. f1 = [i \in 1..size |-> f1[i]] /\ f2 \in Seq({f2[i] : i \in 1..longer})
    <3>1. f1 = [i \in 1..size |-> f1[i]]
      BY <2>9, <2>11 DEF Recorded
    <3>2. f2 \in [1..longer -> {f2[i] : i \in 1..longer}]
      BY <2>10, <2>11 DEF Recorded
    <3>3. f2 \in Seq({f2[i] : i \in 1..longer})
      BY <2>12, <3>2
    <3>. QED
      BY <3>1, <3>3
  <2>16. SubSeq(f2, 1, size) = [i \in 1..size |-> f2[i]]
    BY <2>12, <2>13, <2>15
  <2>17. f1 = SubSeq(f2, 1, size)
    BY <2>14, <2>15, <2>16
  <2>. QED
    BY <2>9, <2>11, <2>17
<1>. QED
  BY <1>1, InitLog, NextLog, PTL DEF LogSpec

-----------------------------------------------------------------------------
(* Inclusion *)

\* compute_inclusion_path, for every segment on the way.
PathOf(index, leaves) == CHOOSE f : UpTo("inclusion", index, leaves, Len(leaves), f)

LEMMA PathOfIs ==
  ASSUME NEW index \in Nat, NEW leaves, Len(leaves) \in Nat
  PROVE  /\ InclusionPath(index, leaves) = PathOf(index, leaves)[<<0, Len(leaves)>>]
         /\ \A s \in Segments(Len(leaves)) :
              PathOf(index, leaves)[s] = InclusionHere(index, leaves, PathOf(index, leaves), s)
<1>1. PICK n \in Nat : n = Len(leaves)
  OBVIOUS
<1>. DEFINE g == PathOf(index, leaves)
            whole == Small("inclusion", index, n, n)
<1>2. Segments(n) = whole
  BY AllAreSmall DEF Over
<1>3. InclusionPath(index, leaves) = g[<<0, n>>]
  BY <1>1, <1>2 DEF InclusionPath, PathOf, UpTo, Here, InclusionHere
<1>4. \A s \in whole : g[s] = Here("inclusion", index, leaves, g, s)
  <2>1. UpTo("inclusion", index, leaves, n, g)
    BY <1>1, SomeUpTo DEF PathOf
  <2>. HIDE DEF g
  <2>. QED
    BY <1>1, <2>1, UpToAre
<1>. HIDE DEF g
<1>5. \A s \in Segments(n) : g[s] = InclusionHere(index, leaves, g, s)
  BY <1>2, <1>4 DEF Here
<1>. QED
  BY <1>1, <1>3, <1>5 DEF g

LEMMA PathOfType ==
  ASSUME NEW index \in Nat, NEW leaves, Len(leaves) \in Nat
  PROVE  \A s \in Segments(Len(leaves)) : PathOf(index, leaves)[s] \in Seq(RootsOf(leaves))
<1>1. PICK n \in Nat : n = Len(leaves)
  OBVIOUS
<1>. DEFINE S == RootsOf(leaves)
            g == PathOf(index, leaves)
            fine == {m \in Nat : \A s \in Segments(n) : s[2] <= m => g[s] \in Seq(S)}
<1>2. \A s \in Segments(n) : g[s] = InclusionHere(index, leaves, g, s)
  BY <1>1, PathOfIs
<1>. HIDE DEF g
<1>3. \A s \in Segments(n) : Roots(leaves)[s] \in S
  BY <1>1 DEF RootsOf
<1>. HIDE DEF S
<1>4. \A s \in Segments(n) : s[1] \in Nat /\ s[2] \in Nat /\ s[2] <= n
  BY DEF Segments
<1>5. \A s \in Segments(n) : s[2] <= 1 => g[s] = <<>>
  BY <1>2 DEF InclusionHere
<1>6. 0 \in fine
  <2>1. <<>> \in Seq(S)
    OBVIOUS
  <2>2. ASSUME NEW s \in Segments(n), s[2] <= 0 PROVE g[s] \in Seq(S)
    <3>1. s[2] <= 1
      BY <1>4, <2>2
    <3>. QED
      BY <1>5, <2>1, <3>1
  <2>. QED
    BY <2>2
<1>7. ASSUME NEW m \in 1..n, m - 1 \in fine PROVE m \in fine
  <2>1. ASSUME NEW s \in Segments(n), s[2] <= m PROVE g[s] \in Seq(S)
    <3>1. CASE s[2] <= 1
      <4>1. <<>> \in Seq(S)
        OBVIOUS
      <4>. QED
        BY <1>5, <3>1, <4>1
    <3>2. CASE ~(s[2] <= 1)
      <4>1. s[2] > 1
        BY <1>4, <3>2
      <4>2. /\ Left(s) \in Segments(n) /\ Right(s) \in Segments(n)
            /\ Left(s)[2] \in 1..(s[2] - 1) /\ Right(s)[2] \in 1..(s[2] - 1)
        BY <4>1, PartsOf
      <4>3. Left(s)[2] <= m - 1 /\ Right(s)[2] <= m - 1
        BY <1>4, <2>1, <4>2
      <4>4. PICK l, r, hl, hr : /\ l = g[Left(s)] /\ r = g[Right(s)]
                                /\ hl = Roots(leaves)[Left(s)] /\ hr = Roots(leaves)[Right(s)]
        OBVIOUS
      <4>5. hl \in S /\ hr \in S /\ l \in Seq(S) /\ r \in Seq(S)
        BY <1>3, <1>7, <4>2, <4>3, <4>4
      <4>6. g[s] = Append(l, hr) \/ g[s] = Append(r, hl)
        BY <1>2, <3>2, <4>4 DEF InclusionHere
      <4>7. Append(l, hr) \in Seq(S) /\ Append(r, hl) \in Seq(S)
        BY <4>5
      <4>. QED
        BY <4>6, <4>7
    <3>. QED
      BY <3>1, <3>2
  <2>. QED
    BY <2>1
<1>8. n \in fine
  <2>1. \A m \in 1..n : m - 1 \in fine => m \in fine
    BY <1>7
  <2>. HIDE DEF fine
  <2>2. 0..n \subseteq fine
    BY <1>6, <2>1, UpToAll, Zenon
  <2>. QED
    BY <2>2
<1>9. \A s \in Segments(n) : g[s] \in Seq(S)
  BY <1>4, <1>8
<1>. QED
  BY <1>1, <1>9 DEF g, S

LEMMA InclusionPathType ==
  ASSUME NEW index \in Nat, NEW leaves, Len(leaves) \in Nat
  PROVE  InclusionPath(index, leaves) \in Seq(RootsOf(leaves))
<1>1. PICK n \in Nat : n = Len(leaves)
  OBVIOUS
<1>2. PICK s : s = <<0, n>>
  OBVIOUS
<1>3. s \in Segments(n)
  BY <1>2 DEF Segments
<1>. QED
  BY <1>1, <1>2, <1>3, PathOfIs, PathOfType

\* The path below the node over a leaf, and the hash of that node.
PathAt(leaves, index, level) == PathOf(index, leaves)[NodeAt(Len(leaves), level, Shifted(index, level))]
HashOn(leaves, index, level) == HashAt(leaves, level, Shifted(index, level))

LEMMA OnTheWay ==
  ASSUME NEW n \in Nat, NEW index \in Nat, index < n, NEW level \in Nat
  PROVE  /\ Shifted(index, level) \in Nat /\ Shifted(index, level) <= EdgeAt(n, level)
         /\ EdgeAt(n, level) \in Nat
         /\ Shifted(index, level + 1) = Shifted(index, level) \div 2
<1>1. PICK m \in Nat : m = index + 1 /\ index = m - 1 /\ m > 0 /\ m <= n
  OBVIOUS
<1>2. EdgeAt(m, level) = Shifted(index, level)
  BY <1>1 DEF EdgeAt
<1>3. EdgeAt(m, level) <= EdgeAt(n, level)
  BY <1>1, EdgesGrow
<1>4. n > 0 /\ EdgeAt(n, level) \in Nat
  BY EdgeStep
<1>. QED
  BY <1>2, <1>3, <1>4, ShiftStep

LEMMA WayType ==
  ASSUME NEW leaves, NEW n \in Nat, n = Len(leaves), NEW index \in Nat, index < n, NEW level \in Nat
  PROVE  PathAt(leaves, index, level) \in Seq(RootsOf(leaves))
<1>1. PICK x \in Nat : x = Shifted(index, level) /\ x <= EdgeAt(n, level)
  BY OnTheWay
<1>2. NodeAt(n, level, x) \in Segments(n)
  BY <1>1, NodeIn
<1>. QED
  BY <1>1, <1>2, PathOfType DEF PathAt

\* One level up: alone, or with a sibling on one side.
LEMMA WayUp ==
  ASSUME NEW leaves, NEW n \in Nat, n = Len(leaves), NEW index \in Nat, index < n, NEW level \in Nat,
         NEW x \in Nat, x = Shifted(index, level)
  PROVE  /\ x % 2 # 1 /\ x = EdgeAt(n, level) =>
              /\ PathAt(leaves, index, level + 1) = PathAt(leaves, index, level)
              /\ HashOn(leaves, index, level + 1) = HashOn(leaves, index, level)
         /\ x % 2 # 1 /\ x # EdgeAt(n, level) =>
              /\ PathAt(leaves, index, level + 1) = Append(PathAt(leaves, index, level), HashAt(leaves, level, x + 1))
              /\ HashOn(leaves, index, level + 1) = NodeHash(HashOn(leaves, index, level), HashAt(leaves, level, x + 1))
         /\ x % 2 = 1 =>
              /\ PathAt(leaves, index, level + 1) = Append(PathAt(leaves, index, level), HashAt(leaves, level, x - 1))
              /\ HashOn(leaves, index, level + 1) = NodeHash(HashAt(leaves, level, x - 1), HashOn(leaves, index, level))
<1>1. PICK e \in Nat, p \in Nat : e = EdgeAt(n, level) /\ x <= e /\ p = PowerOfTwo(level)
  BY OnTheWay, PowerStep
<1>2. PICK j \in Nat : j = x \div 2 /\ Shifted(index, level + 1) = j
  BY OnTheWay
<1>3. PICK up \in Nat : up = level + 1
  OBVIOUS
<1>4. PICK node, below, g : /\ node = NodeAt(n, up, j) /\ below = NodeAt(n, level, x)
                            /\ g = PathOf(index, leaves)
  OBVIOUS
<1>5. /\ PathAt(leaves, index, up) = g[node] /\ HashOn(leaves, index, up) = HashAt(leaves, up, j)
      /\ PathAt(leaves, index, level) = g[below] /\ HashOn(leaves, index, level) = HashAt(leaves, level, x)
  BY <1>2, <1>3, <1>4 DEF PathAt, HashOn
<1>6. x * p <= index /\ index < (x + 1) * p
  BY <1>1, ShiftBounds
<1>7. node \in Segments(n)
  <2>1. Shifted(index, up) <= EdgeAt(n, up)
    BY <1>3, OnTheWay
  <2>. QED
    BY <1>2, <1>3, <1>4, <2>1, NodeIn
<1>8. g[node] = InclusionHere(index, leaves, g, node)
  BY <1>4, <1>7, PathOfIs
<1>9. \A i \in Nat : i <= e => NodeAt(n, level, i)[1] = i * p
  BY <1>1, NodeIn
<1>10. CASE x % 2 # 1 /\ x = e
  <2>1. x = 2 * j
    BY <1>2, <1>10
  <2>2. 2 * j <= EdgeAt(n, level) /\ 2 * j = EdgeAt(n, level)
    BY <1>1, <1>10, <2>1
  <2>3. node = below
    BY <1>3, <1>4, <2>1, <2>2, NodeParts
  <2>4. HashAt(leaves, up, j) = HashAt(leaves, level, x)
    BY <1>3, <2>1, <2>2, HashParts
  <2>. QED
    BY <1>1, <1>3, <1>5, <1>10, <2>3, <2>4
<1>11. CASE x % 2 # 1 /\ x # e
  <2>1. x = 2 * j /\ x + 1 = 2 * j + 1
    BY <1>2, <1>11
  <2>2. 2 * j <= EdgeAt(n, level) /\ 2 * j + 1 <= EdgeAt(n, level)
    BY <1>1, <1>11, <2>1
  <2>3. node[2] > 1 /\ Left(node) = below /\ Right(node) = NodeAt(n, level, x + 1)
    BY <1>3, <1>4, <2>1, <2>2, NodeParts
  <2>4. HashAt(leaves, up, j) = NodeHash(HashAt(leaves, level, x), HashAt(leaves, level, x + 1))
    BY <1>3, <2>1, <2>2, HashParts
  <2>5. index < Right(node)[1]
    <3>1. x + 1 \in Nat /\ x + 1 <= e
      BY <1>1, <1>11
    <3>2. Right(node)[1] = (x + 1) * p
      BY <1>9, <2>3, <3>1
    <3>. QED
      BY <1>6, <3>2
  <2>6. ~(node[2] <= 1)
    <3>1. node[2] \in Nat
      BY <1>7 DEF Segments
    <3>. QED
      BY <2>3, <3>1
  <2>7. g[node] = Append(g[below], Roots(leaves)[Right(node)])
    BY <1>8, <2>3, <2>5, <2>6 DEF InclusionHere
  <2>8. Roots(leaves)[Right(node)] = HashAt(leaves, level, x + 1)
    BY <2>3 DEF HashAt
  <2>. QED
    BY <1>1, <1>3, <1>5, <1>11, <2>4, <2>7, <2>8
<1>12. CASE x % 2 = 1
  <2>1. x = 2 * j + 1 /\ x - 1 = 2 * j
    BY <1>2, <1>12
  <2>2. 2 * j <= EdgeAt(n, level) /\ 2 * j + 1 <= EdgeAt(n, level)
    BY <1>1, <2>1
  <2>3. node[2] > 1 /\ Right(node) = below /\ Left(node) = NodeAt(n, level, x - 1)
    BY <1>3, <1>4, <2>1, <2>2, NodeParts
  <2>4. HashAt(leaves, up, j) = NodeHash(HashAt(leaves, level, x - 1), HashAt(leaves, level, x))
    BY <1>3, <2>1, <2>2, HashParts
  <2>5. ~(index < Right(node)[1])
    <3>1. Right(node)[1] = x * p /\ x * p \in Nat
      BY <1>1, <1>4, <1>9, <2>3
    <3>. QED
      BY <1>6, <3>1
  <2>6. ~(node[2] <= 1)
    <3>1. node[2] \in Nat
      BY <1>7 DEF Segments
    <3>. QED
      BY <2>3, <3>1
  <2>7. g[node] = Append(g[below], Roots(leaves)[Left(node)])
    BY <1>8, <2>3, <2>5, <2>6 DEF InclusionHere
  <2>8. Roots(leaves)[Left(node)] = HashAt(leaves, level, x - 1)
    BY <2>3 DEF HashAt
  <2>. QED
    BY <1>3, <1>5, <1>12, <2>4, <2>7, <2>8
<1>. QED
  BY <1>1, <1>10, <1>11, <1>12

LEMMA AloneUp ==
  ASSUME NEW leaves, NEW n \in Nat, n = Len(leaves), NEW index \in Nat, index < n, NEW level \in Nat,
         Shifted(index, level) = EdgeAt(n, level), Shifted(index, level) % 2 # 1
  PROVE  /\ PathAt(leaves, index, level + 1) = PathAt(leaves, index, level)
         /\ HashOn(leaves, index, level + 1) = HashOn(leaves, index, level)
<1>1. PICK x \in Nat : x = Shifted(index, level)
  BY OnTheWay
<1>2. x % 2 # 1 /\ x = EdgeAt(n, level)
  BY <1>1
<1>. QED
  BY <1>1, <1>2, WayUp, SMTT(60)

\* The last node of a level is handed up as it is while it is a left one.
LEMMA CarriedUp ==
  ASSUME NEW leaves, NEW n \in Nat, n = Len(leaves), NEW index \in Nat, index < n, NEW level \in Nat,
         Shifted(index, level) = EdgeAt(n, level), NEW up \in Nat, EvenBelow(EdgeAt(n, level), up)
  PROVE  /\ PathAt(leaves, index, level + up) = PathAt(leaves, index, level)
         /\ HashOn(leaves, index, level + up) = HashOn(leaves, index, level)
         /\ Shifted(index, level + up) = EdgeAt(n, level + up)
<1>. DEFINE path(i) == PathAt(leaves, index, level + i)
            hash(i) == HashOn(leaves, index, level + i)
            fine == {i \in Nat : path(i) = path(0) /\ hash(i) = hash(0)}
<1>1. PICK e \in Nat : e = EdgeAt(n, level) /\ e = Shifted(index, level)
  BY OnTheWay
<1>2. n > 0
  OBVIOUS
<1>3. \A i \in Nat : Shifted(index, level + i) = Shifted(e, i) /\ EdgeAt(n, level + i) = Shifted(e, i)
  <2>1. ASSUME NEW i \in Nat PROVE Shifted(index, level + i) = Shifted(e, i) /\ EdgeAt(n, level + i) = Shifted(e, i)
    <3>1. Shifted(Shifted(index, level), i) = Shifted(index, level + i)
      BY ShiftTwice
    <3>2. Shifted(EdgeAt(n, level), i) = EdgeAt(n, level + i)
      BY <1>2, EdgeStep
    <3>. QED
      BY <1>1, <3>1, <3>2
  <2>. QED
    BY <2>1
<1>4. ASSUME NEW i \in 1..up PROVE path(i) = path(i - 1) /\ hash(i) = hash(i - 1)
  <2>1. PICK k \in Nat, y \in Nat : y = i - 1 /\ y \in 0..(up - 1) /\ k = level + y /\ level + i = k + 1
    OBVIOUS
  <2>2. PICK x \in Nat : x = Shifted(index, k)
    BY OnTheWay
  <2>3. x = EdgeAt(n, k) /\ x % 2 # 1
    <3>1. x = Shifted(e, y) /\ x = EdgeAt(n, k)
      BY <1>3, <2>1, <2>2
    <3>2. Shifted(e, y) % 2 # 1
      BY <1>1, <2>1 DEF EvenBelow
    <3>. QED
      BY <3>1, <3>2
  <2>4. /\ PathAt(leaves, index, k + 1) = PathAt(leaves, index, k)
        /\ HashOn(leaves, index, k + 1) = HashOn(leaves, index, k)
    <3>1. Shifted(index, k) = EdgeAt(n, k) /\ Shifted(index, k) % 2 # 1
      BY <2>2, <2>3
    <3>. QED
      BY <3>1, AloneUp
  <2>. QED
    BY <2>1, <2>4
<1>5. 0 \in fine
  OBVIOUS
<1>6. \A i \in 1..up : i - 1 \in fine => i \in fine
  <2>. HIDE DEF path, hash
  <2>. QED
    BY <1>4
<1>7. up \in fine
  <2>. HIDE DEF fine, path, hash
  <2>1. 0..up \subseteq fine
    BY <1>5, <1>6, UpToAll, Zenon
  <2>. QED
    BY <2>1
<1>8. path(up) = path(0) /\ hash(up) = hash(0)
  <2>. HIDE DEF path, hash
  <2>. QED
    BY <1>7
<1>9. level + 0 = level
  OBVIOUS
<1>. QED
  BY <1>3, <1>8, <1>9

\* One step of the fold takes one hash of the path.
OneLonger(leaves, index, level, above, new, sibling, newAbove, next) ==
  /\ PathAt(leaves, index, above) = Append(PathAt(leaves, index, level), next)
  /\ newAbove = HashOn(leaves, index, above) <=> new = HashOn(leaves, index, level) /\ sibling = next
TakesOne(leaves, n, index, level, old, new, sibling) ==
  \E above \in Nat : \E oldAbove, newAbove, next :
    /\ Ascend(At(Shifted(index, level), EdgeAt(n, level), old, new), sibling) =
         At(Shifted(index, above), EdgeAt(n, above), oldAbove, newAbove)
    /\ OneLonger(leaves, index, level, above, new, sibling, newAbove, next)
LEMMA AscendPaths ==
  ASSUME NEW leaves, NEW n \in Nat, n = Len(leaves), NEW index \in Nat, index < n, NEW level \in Nat,
         NEW old, NEW new, NEW sibling, EdgeAt(n, level) # 0
  PROVE  TakesOne(leaves, n, index, level, old, new, sibling)
<1>1. PICK x \in Nat, e \in Nat : x = Shifted(index, level) /\ e = EdgeAt(n, level)
  BY OnTheWay
<1>2. n > 0
  OBVIOUS
<1>3. CASE ~LeftIsNext(x, e)
  <2>1. x % 2 # 1 /\ x # e
    BY <1>3 DEF LeftIsNext
  <2>2. PICK above, hash, next : above = level + 1 /\ above \in Nat /\ hash = HashOn(leaves, index, level)
                                 /\ next = HashAt(leaves, level, x + 1)
    OBVIOUS
  <2>3. /\ PathAt(leaves, index, above) = Append(PathAt(leaves, index, level), next)
        /\ HashOn(leaves, index, above) = NodeHash(hash, next)
    BY <1>1, <2>1, <2>2, WayUp
  <2>4. Ascend(At(x, e, old, new), sibling) = At(Shifted(x, 1), Shifted(e, 1), old, NodeHash(new, sibling))
    BY <1>1, <1>3, AscendRight
  <2>5. Shifted(x, 1) = Shifted(index, above) /\ Shifted(e, 1) = EdgeAt(n, above)
    <3>1. 1 \in Nat
      OBVIOUS
    <3>. QED
      BY <1>1, <1>2, <2>2, <3>1, EdgeStep, ShiftTwice
  <2>6. NodeHash(new, sibling) = HashOn(leaves, index, above) <=> new = HashOn(leaves, index, level) /\ sibling = next
    BY <2>2, <2>3, NodeTells
  <2>. QED
    BY <1>1, <2>2, <2>3, <2>4, <2>5, <2>6 DEF OneLonger, TakesOne
<1>4. CASE LeftIsNext(x, e)
  <2>1. x > 0
    BY <1>1, <1>4 DEF LeftIsNext
  <2>2. PICK v \in Nat : v = ShiftsTo(1, x)
    BY <2>1, ShiftsToIs
  <2>3. Shifted(x, v) % 2 = 1 /\ \A y \in 0..(v - 1) : Shifted(x, y) % 2 # 1
    BY <2>1, <2>2, ShiftsToIs
  <2>4. PICK here \in Nat, above \in Nat, up \in Nat : here = level + v /\ above = here + 1 /\ up = 1 + v /\ above = level + up
    OBVIOUS
  <2>5. Ascend(At(x, e, old, new), sibling) =
          At(Shifted(x, up), Shifted(e, up), NodeHash(sibling, old), NodeHash(sibling, new))
    BY <1>1, <1>4, <2>2, <2>4, AscendLeft
  <2>6. Shifted(x, up) = Shifted(index, above) /\ Shifted(e, up) = EdgeAt(n, above) /\ Shifted(x, v) = Shifted(index, here)
    <3>1. Shifted(Shifted(index, level), up) = Shifted(index, level + up)
      BY ShiftTwice
    <3>2. Shifted(EdgeAt(n, level), up) = EdgeAt(n, level + up)
      BY <1>2, EdgeStep
    <3>3. Shifted(Shifted(index, level), v) = Shifted(index, level + v)
      BY ShiftTwice
    <3>. QED
      BY <1>1, <2>4, <3>1, <3>2, <3>3
  <2>7. /\ PathAt(leaves, index, here) = PathAt(leaves, index, level)
        /\ HashOn(leaves, index, here) = HashOn(leaves, index, level)
    <3>1. CASE v = 0
      BY <2>4, <3>1
    <3>2. CASE v > 0
      <4>1. x = e
        <5>1. 0 \in 0..(v - 1)
          BY <3>2
        <5>2. Shifted(x, 0) = x
          BY ShiftStep
        <5>. QED
          BY <1>4, <2>3, <5>1, <5>2 DEF LeftIsNext
      <4>2. EvenBelow(EdgeAt(n, level), v)
        BY <1>1, <2>3, <4>1 DEF EvenBelow
      <4>3. /\ PathAt(leaves, index, level + v) = PathAt(leaves, index, level)
            /\ HashOn(leaves, index, level + v) = HashOn(leaves, index, level)
        <5>1. Shifted(index, level) = EdgeAt(n, level)
          BY <1>1, <4>1
        <5>. QED
          BY <4>2, <5>1, CarriedUp, SMTT(60)
      <4>. QED
        BY <2>4, <4>3
    <3>. QED
      BY <3>1, <3>2
  <2>8. PICK z \in Nat : z = Shifted(index, here) /\ z % 2 = 1
    BY <2>3, <2>6, OnTheWay
  <2>9. PICK hash, next : hash = HashOn(leaves, index, here) /\ next = HashAt(leaves, here, z - 1)
    OBVIOUS
  <2>10. /\ PathAt(leaves, index, above) = Append(PathAt(leaves, index, here), next)
         /\ HashOn(leaves, index, above) = NodeHash(next, hash)
    BY <2>4, <2>8, <2>9, WayUp
  <2>11. NodeHash(sibling, new) = HashOn(leaves, index, above) <=> new = HashOn(leaves, index, level) /\ sibling = next
    BY <2>7, <2>9, <2>10, NodeTells
  <2>. QED
    BY <1>1, <2>5, <2>6, <2>7, <2>10, <2>11 DEF OneLonger, TakesOne
<1>. QED
  BY <1>3, <1>4

\* A path never shrinks on the way up, and at the top it is whole.
LEMMA PathsGrow ==
  ASSUME NEW leaves, NEW n \in Nat, n = Len(leaves), NEW index \in Nat, index < n, NEW level \in Nat, NEW up \in Nat
  PROVE  Len(PathAt(leaves, index, level)) <= Len(PathAt(leaves, index, level + up))
<1>. DEFINE len(i) == Len(PathAt(leaves, index, level + i))
            fine == {i \in Nat : len(0) <= len(i)}
<1>1. \A i \in Nat : len(i) \in Nat
  <2>1. ASSUME NEW i \in Nat PROVE len(i) \in Nat
    <3>1. PICK k \in Nat : k = level + i
      OBVIOUS
    <3>2. PICK p \in Seq(RootsOf(leaves)) : p = PathAt(leaves, index, k)
      BY WayType
    <3>3. Len(p) \in Nat
      OBVIOUS
    <3>. QED
      BY <3>1, <3>2, <3>3
  <2>. QED
    BY <2>1
<1>2. ASSUME NEW i \in 1..up PROVE len(i - 1) <= len(i)
  <2>1. PICK k \in Nat, y \in Nat : y = i - 1 /\ k = level + y /\ level + i = k + 1
    OBVIOUS
  <2>2. PICK x \in Nat : x = Shifted(index, k)
    BY OnTheWay
  <2>3. PICK p, q : p = PathAt(leaves, index, k) /\ q = PathAt(leaves, index, k + 1) /\ p \in Seq(RootsOf(leaves))
    BY WayType
  <2>4. q = p \/ \E h : q = Append(p, h)
    BY <2>2, <2>3, WayUp
  <2>5. ASSUME NEW h PROVE Len(Append(p, h)) = Len(p) + 1
    <3>1. PICK S, T : S = RootsOf(leaves) /\ T = S \cup {h} /\ p \in Seq(S)
      BY <2>3
    <3>2. p \in Seq(T) /\ h \in T
      BY <3>1
    <3>. QED
      BY <3>2
  <2>6. Len(p) \in Nat
    BY <2>3
  <2>7. Len(p) <= Len(q)
    BY <2>4, <2>5, <2>6
  <2>. QED
    BY <2>1, <2>3, <2>7
<1>3. 0 \in fine
  BY <1>1
<1>4. \A i \in 1..up : i - 1 \in fine => i \in fine
  <2>1. ASSUME NEW i \in 1..up, i - 1 \in fine PROVE i \in fine
    <3>1. i \in Nat /\ i - 1 \in Nat /\ 0 \in Nat
      OBVIOUS
    <3>. HIDE DEF len
    <3>2. len(0) <= len(i - 1) /\ len(i - 1) <= len(i) /\ len(0) \in Nat /\ len(i - 1) \in Nat /\ len(i) \in Nat
      BY <1>1, <1>2, <2>1, <3>1
    <3>. QED
      BY <3>1, <3>2
  <2>. QED
    BY <2>1
<1>5. up \in fine
  <2>. HIDE DEF fine
  <2>1. 0..up \subseteq fine
    BY <1>3, <1>4, UpToAll, Zenon
  <2>. QED
    BY <2>1
<1>6. len(0) <= len(up)
  <2>. HIDE DEF len
  <2>. QED
    BY <1>5
<1>7. level + 0 = level
  OBVIOUS
<1>. QED
  BY <1>6, <1>7

LEMMA AtTheTop ==
  ASSUME NEW leaves, NEW n \in Nat, n = Len(leaves), NEW index \in Nat, index < n, NEW level \in Nat,
         EdgeAt(n, level) = 0
  PROVE  /\ PathAt(leaves, index, level) = InclusionPath(index, leaves)
         /\ HashOn(leaves, index, level) = Root(leaves)
         /\ Shifted(index, level) = 0
<1>1. n > 0
  OBVIOUS
<1>2. Shifted(index, level) = 0
  <2>1. PICK x \in Nat : x = Shifted(index, level) /\ x <= EdgeAt(n, level)
    BY OnTheWay
  <2>. QED
    BY <2>1
<1>3. PICK p \in Nat : p = PowerOfTwo(level)
  BY PowerStep
<1>4. ~(1 * p < n)
  <2>1. ~(1 <= EdgeAt(n, level)) /\ 1 \in Nat
    OBVIOUS
  <2>. QED
    BY <1>1, <1>3, <2>1, WithinEdge
<1>5. NodeAt(n, level, 0) = <<0, n>>
  <2>1. 0 * p = 0 /\ (0 + 1) * p = p /\ n <= p
    BY <1>4
  <2>2. NodeAt(n, level, 0) = <<0, IF p <= n THEN p ELSE n>>
    BY <1>3, <2>1 DEF NodeAt
  <2>3. (IF p <= n THEN p ELSE n) = n
    BY <2>1
  <2>. QED
    BY <2>2, <2>3
<1>6. PathAt(leaves, index, level) = InclusionPath(index, leaves)
  BY <1>2, <1>5, PathOfIs DEF PathAt
<1>7. HashOn(leaves, index, level) = Root(leaves)
  BY <1>1, <1>2, RootIsNode DEF HashOn
<1>. QED
  BY <1>2, <1>6, <1>7

LEMMA AtTheLeaf ==
  ASSUME NEW leaves, NEW n \in Nat, n = Len(leaves), NEW index \in Nat, index < n
  PROVE  /\ PathAt(leaves, index, 0) = <<>> /\ HashOn(leaves, index, 0) = leaves[index + 1]
         /\ Shifted(index, 0) = index /\ EdgeAt(n, 0) = n - 1
<1>1. PICK m \in Nat : m = n - 1
  OBVIOUS
<1>2. Shifted(index, 0) = index /\ EdgeAt(n, 0) = m /\ PowerOfTwo(0) = 1
  BY <1>1, ShiftStep, PowerStep DEF EdgeAt
<1>3. PICK s : s = <<index, 1>> /\ s \in Segments(n) /\ s[1] = index /\ s[2] = 1
  <2>1. PICK s : s = <<index, 1>>
    OBVIOUS
  <2>2. s[1] = index /\ s[2] = 1 /\ index + 1 <= n
    BY <2>1
  <2>3. s \in Segments(n)
    BY <2>1, <2>2 DEF Segments
  <2>. QED
    BY <2>1, <2>2, <2>3
<1>4. NodeAt(n, 0, index) = s
  <2>1. index * 1 = index /\ (index + 1) * 1 = index + 1 /\ index + 1 <= n
    OBVIOUS
  <2>. QED
    BY <1>2, <1>3, <2>1 DEF NodeAt
<1>5. PathAt(leaves, index, 0) = <<>>
  <2>1. PathOf(index, leaves)[s] = InclusionHere(index, leaves, PathOf(index, leaves), s)
    BY <1>3, PathOfIs
  <2>. QED
    BY <1>2, <1>3, <1>4, <2>1 DEF PathAt, InclusionHere
<1>6. HashOn(leaves, index, 0) = leaves[index + 1]
  <2>1. Roots(leaves)[s] = leaves[s[1] + 1]
    <3>1. s \in Segments(Len(leaves)) /\ s[2] > 0 /\ s[2] = 1 /\ Len(leaves) \in Nat
      BY <1>3
    <3>. QED
      BY <3>1, RootsAre
  <2>. QED
    BY <1>2, <1>3, <1>4, <2>1 DEF HashOn, HashAt
<1>. QED
  BY <1>1, <1>2, <1>5, <1>6

\* Where the fold of a path of an index is after i hashes: on the way up from the leaf, with
\* the hash of the node there if and only if leaf and hashes are those of the tree; or past
\* the root.
Agree(one, other, i) == \A k \in 1..i : one[k] = other[k]
Proper(leaves, index, leaf, path, level, i) ==
  leaf = leaves[index + 1] /\ Agree(path, PathAt(leaves, index, level), i)
StandsAt(at, leaves, index, leaf, path, level, i) ==
  \E old, new :
    /\ at = At(Shifted(index, level), EdgeAt(Len(leaves), level), old, new)
    /\ new = HashOn(leaves, index, level) <=> Proper(leaves, index, leaf, path, level, i)
OnPath(at, leaves, index, leaf, path, i) ==
  \E level \in Nat : /\ Len(PathAt(leaves, index, level)) = i
                     /\ StandsAt(at, leaves, index, leaf, path, level, i)
TooFar(at, leaves, index, i) == Overran(at) /\ Len(InclusionPath(index, leaves)) < i

AgreeOnOne(path, q, p, i, h) == Agree(path, q, i + 1) <=> Agree(path, p, i) /\ path[i + 1] = h
LEMMA Lengthened ==
  ASSUME NEW S, NEW p \in Seq(S), NEW h, NEW q, q = Append(p, h), NEW i \in Nat, Len(p) = i, NEW path
  PROVE  Len(q) = i + 1 /\ AgreeOnOne(path, q, p, i, h)
<1>1. PICK T : T = S \cup {h}
  OBVIOUS
<1>2. p \in Seq(T) /\ h \in T
  BY <1>1
<1>3. Len(q) = i + 1 /\ q[i + 1] = h /\ \A k \in 1..i : q[k] = p[k]
  BY <1>2
<1>4. \A k : k \in 1..(i + 1) <=> k \in 1..i \/ k = i + 1
  OBVIOUS
<1>. QED
  BY <1>3, <1>4 DEF Agree, AgreeOnOne

LEMMA AscendAgrees ==
  ASSUME NEW leaves, NEW n \in Nat, n = Len(leaves), NEW index \in Nat, index < n, NEW leaf, NEW path,
         NEW i \in Nat, NEW a, NEW b, b = Ascend(a, path[i + 1]), OnPath(a, leaves, index, leaf, path, i)
  PROVE  OnPath(b, leaves, index, leaf, path, i + 1) \/ TooFar(b, leaves, index, i + 1)
<1>1. PICK level \in Nat : /\ Len(PathAt(leaves, index, level)) = i
                           /\ StandsAt(a, leaves, index, leaf, path, level, i)
  BY DEF OnPath
<1>2. PICK old, new : /\ a = At(Shifted(index, level), EdgeAt(n, level), old, new)
                      /\ new = HashOn(leaves, index, level) <=> Proper(leaves, index, leaf, path, level, i)
  BY <1>1 DEF StandsAt
<1>3. PICK p : p = PathAt(leaves, index, level) /\ p \in Seq(RootsOf(leaves)) /\ Len(p) = i
  BY <1>1, WayType
<1>4. CASE EdgeAt(n, level) = 0
  <2>1. b = Past(Shifted(index, level), EdgeAt(n, level), old, new)
    BY <1>2, <1>4, AscendPast
  <2>2. Overran(b)
    BY <2>1 DEF Overran
  <2>3. p = InclusionPath(index, leaves)
    BY <1>3, <1>4, AtTheTop
  <2>4. TooFar(b, leaves, index, i + 1)
    BY <1>3, <2>2, <2>3 DEF TooFar
  <2>. QED
    BY <2>4
<1>5. CASE EdgeAt(n, level) # 0
  <2>1. PICK sibling : sibling = path[i + 1] /\ b = Ascend(At(Shifted(index, level), EdgeAt(n, level), old, new), sibling)
    BY <1>2
  <2>2. PICK above \in Nat : \E oldAbove, newAbove, next :
           /\ Ascend(At(Shifted(index, level), EdgeAt(n, level), old, new), sibling) =
                At(Shifted(index, above), EdgeAt(n, above), oldAbove, newAbove)
           /\ OneLonger(leaves, index, level, above, new, sibling, newAbove, next)
    <3>1. TakesOne(leaves, n, index, level, old, new, sibling)
      BY <1>5, AscendPaths
    <3>. QED
      BY <3>1 DEF TakesOne
  <2>3. PICK oldAbove, newAbove, next :
           /\ b = At(Shifted(index, above), EdgeAt(n, above), oldAbove, newAbove)
           /\ PathAt(leaves, index, above) = Append(p, next)
           /\ newAbove = HashOn(leaves, index, above) <=> new = HashOn(leaves, index, level) /\ sibling = next
    BY <1>3, <2>1, <2>2 DEF OneLonger
  <2>4. PICK q : q = PathAt(leaves, index, above) /\ q = Append(p, next)
    BY <2>3
  <2>5. Len(q) = i + 1 /\ (Agree(path, q, i + 1) <=> Agree(path, p, i) /\ path[i + 1] = next)
    <3>1. PICK S : S = RootsOf(leaves) /\ p \in Seq(S)
      BY <1>3
    <3>2. Len(q) = i + 1 /\ AgreeOnOne(path, q, p, i, next)
      BY <1>3, <2>4, <3>1, Lengthened
    <3>. QED
      BY <3>2 DEF AgreeOnOne
  <2>6. newAbove = HashOn(leaves, index, above) <=> Proper(leaves, index, leaf, path, above, i + 1)
    BY <1>2, <1>3, <2>1, <2>3, <2>4, <2>5 DEF Proper
  <2>7. StandsAt(b, leaves, index, leaf, path, above, i + 1)
    BY <2>3, <2>6 DEF StandsAt
  <2>8. OnPath(b, leaves, index, leaf, path, i + 1)
    BY <2>4, <2>5, <2>7 DEF OnPath
  <2>. QED
    BY <2>8
<1>. QED
  BY <1>4, <1>5

\* Short of the root there is more of the path.
LEMMA MoreAbove ==
  ASSUME NEW leaves, NEW n \in Nat, n = Len(leaves), NEW index \in Nat, index < n, NEW level \in Nat,
         EdgeAt(n, level) # 0
  PROVE  Len(PathAt(leaves, index, level)) < Len(InclusionPath(index, leaves))
<1>1. PICK above \in Nat : \E old, new, next :
        /\ Ascend(At(Shifted(index, level), EdgeAt(n, level), 0, 0), 0) = At(Shifted(index, above), EdgeAt(n, above), old, new)
        /\ OneLonger(leaves, index, level, above, 0, 0, new, next)
  <2>1. TakesOne(leaves, n, index, level, 0, 0, 0)
    BY AscendPaths
  <2>. QED
    BY <2>1 DEF TakesOne
<1>2. PICK next : PathAt(leaves, index, above) = Append(PathAt(leaves, index, level), next)
  BY <1>1 DEF OneLonger
<1>3. PICK p, q : /\ p = PathAt(leaves, index, level) /\ p \in Seq(RootsOf(leaves))
                  /\ q = PathAt(leaves, index, above) /\ q = Append(p, next)
  BY <1>2, WayType
<1>4. PICK i \in Nat : i = Len(p)
  BY <1>3
<1>5. Len(q) = i + 1
  BY <1>3, <1>4, Lengthened
<1>6. PICK top \in Nat : top = above + n
  OBVIOUS
<1>7. EdgeAt(n, top) = 0
  <2>1. n > 0
    OBVIOUS
  <2>2. PICK size \in Nat : size = PowerOfTwo(top) /\ size > top
    BY PowerStep
  <2>3. ~(1 * size < n) /\ 1 \in Nat
    BY <1>6, <2>2
  <2>4. EdgeAt(n, top) \in Nat /\ ~(1 <= EdgeAt(n, top))
    BY <2>1, <2>2, <2>3, WithinEdge
  <2>. QED
    BY <2>4
<1>8. PathAt(leaves, index, top) = InclusionPath(index, leaves)
  BY <1>7, AtTheTop
<1>9. Len(PathAt(leaves, index, above)) <= Len(PathAt(leaves, index, above + n))
  BY PathsGrow
<1>10. i + 1 <= Len(InclusionPath(index, leaves)) /\ Len(InclusionPath(index, leaves)) \in Nat
  <2>1. PICK r : r = PathAt(leaves, index, top) /\ r \in Seq(RootsOf(leaves))
    BY WayType
  <2>2. Len(r) \in Nat
    BY <2>1
  <2>. QED
    BY <1>3, <1>5, <1>6, <1>8, <1>9, <2>1, <2>2
<1>. QED
  BY <1>3, <1>4, <1>10

LEMMA FoldPaths ==
  ASSUME NEW leaves, NEW n \in Nat, n = Len(leaves), NEW index \in Nat, index < n, NEW leaf,
         NEW path, NEW k \in Nat, k = Len(path)
  PROVE  \/ OnPath(Folded(Foot(index, n - 1, leaf), path), leaves, index, leaf, path, k)
         \/ TooFar(Folded(Foot(index, n - 1, leaf), path), leaves, index, k)
<1>1. PICK start : start = Foot(index, n - 1, leaf)
  OBVIOUS
<1>2. PICK g : /\ g[0] = start /\ Folded(start, path) = g[k]
               /\ \A i \in 1..k : g[i] = Ascend(g[i - 1], path[i])
  BY FoldedIs
<1>. DEFINE fine == {i \in Nat : OnPath(g[i], leaves, index, leaf, path, i) \/ TooFar(g[i], leaves, index, i)}
<1>3. 0 \in fine
  <2>1. start = At(Shifted(index, 0), EdgeAt(n, 0), leaf, leaf)
    BY <1>1, AtTheLeaf DEF Foot, At
  <2>2. PICK p : p = PathAt(leaves, index, 0) /\ p = <<>>
    BY AtTheLeaf
  <2>3. Len(p) = 0 /\ Agree(path, p, 0)
    BY <2>2 DEF Agree
  <2>4. leaf = HashOn(leaves, index, 0) <=> Proper(leaves, index, leaf, path, 0, 0)
    BY <2>2, <2>3, AtTheLeaf DEF Proper
  <2>5. StandsAt(start, leaves, index, leaf, path, 0, 0)
    BY <2>1, <2>4 DEF StandsAt
  <2>6. OnPath(start, leaves, index, leaf, path, 0)
    BY <2>2, <2>3, <2>5 DEF OnPath
  <2>. QED
    BY <1>2, <2>6
<1>4. ASSUME NEW i \in 1..k, i - 1 \in fine PROVE i \in fine
  <2>1. PICK j \in Nat : j = i - 1 /\ i = j + 1
    OBVIOUS
  <2>2. PICK a, b : a = g[j] /\ b = g[j + 1] /\ b = Ascend(a, path[j + 1])
    BY <1>2, <2>1
  <2>3. CASE OnPath(a, leaves, index, leaf, path, j)
    <3>1. OnPath(b, leaves, index, leaf, path, j + 1) \/ TooFar(b, leaves, index, j + 1)
      BY <2>2, <2>3, AscendAgrees
    <3>. QED
      BY <2>1, <2>2, <3>1
  <2>4. CASE TooFar(a, leaves, index, j)
    <3>1. PICK x, e, old, new : a = Past(x, e, old, new)
      BY <2>4 DEF TooFar, Overran
    <3>2. Overran(b)
      BY <2>2, <3>1, StaysPast DEF Overran
    <3>3. PICK p \in Seq(RootsOf(leaves)) : p = InclusionPath(index, leaves)
      <4>1. PICK top \in Nat : top = n
        OBVIOUS
      <4>. QED
        BY InclusionPathType
    <3>4. Len(p) \in Nat /\ Len(p) < j
      BY <2>4, <3>3 DEF TooFar
    <3>5. TooFar(b, leaves, index, j + 1)
      BY <3>2, <3>3, <3>4 DEF TooFar
    <3>. QED
      BY <2>1, <2>2, <3>5
  <2>. QED
    BY <1>4, <2>1, <2>2, <2>3, <2>4
<1>5. k \in fine
  <2>1. \A i \in 1..k : i - 1 \in fine => i \in fine
    BY <1>4
  <2>. HIDE DEF fine
  <2>2. 0..k \subseteq fine
    BY <1>3, <2>1, UpToAll, Zenon
  <2>. QED
    BY <2>2
<1>. QED
  BY <1>1, <1>2, <1>5

\* verify_inclusion: it accepts an entry at an index if and only if the entry stands there and
\* the path is the one the log computes, for trees of any size and shape.
THEOREM InclusionIsExact ==
  ASSUME NEW leaves, Len(leaves) \in Nat, NEW index \in Nat, index < Len(leaves), NEW leaf,
         NEW S, NEW path \in Seq(S)
  PROVE  VerifyInclusion(leaf, index, Len(leaves), path, Root(leaves)) <=>
           leaf = leaves[index + 1] /\ path = InclusionPath(index, leaves)
<1>1. PICK n \in Nat, k \in Nat : n = Len(leaves) /\ k = Len(path)
  OBVIOUS
<1>2. PICK at : at = Folded(Foot(index, n - 1, leaf), path)
  OBVIOUS
<1>3. PICK whole : whole = InclusionPath(index, leaves) /\ whole \in Seq(RootsOf(leaves))
  BY <1>1, InclusionPathType
<1>4. VerifyInclusion(leaf, index, n, path, Root(leaves)) <=> ~at.tooLong /\ at.edge = 0 /\ at.new = Root(leaves)
  BY <1>1, <1>2 DEF VerifyInclusion
<1>5. CASE TooFar(at, leaves, index, k)
  <2>1. PICK x, e, old, new : at = Past(x, e, old, new)
    BY <1>5 DEF TooFar, Overran
  <2>2. at.tooLong
    BY <2>1 DEF Past
  <2>3. path # whole
    BY <1>1, <1>3, <1>5 DEF TooFar
  <2>. QED
    BY <1>1, <1>3, <1>4, <2>2, <2>3
<1>6. CASE OnPath(at, leaves, index, leaf, path, k)
  <2>1. PICK level \in Nat : Len(PathAt(leaves, index, level)) = k /\ StandsAt(at, leaves, index, leaf, path, level, k)
    BY <1>6 DEF OnPath
  <2>2. PICK old, new :
          /\ at = At(Shifted(index, level), EdgeAt(n, level), old, new)
          /\ new = HashOn(leaves, index, level) <=> Proper(leaves, index, leaf, path, level, k)
    BY <1>1, <2>1 DEF StandsAt
  <2>3. at.edge = EdgeAt(n, level) /\ ~at.tooLong /\ at.new = new
    BY <2>2 DEF At
  <2>4. CASE EdgeAt(n, level) # 0
    <3>1. Len(PathAt(leaves, index, level)) < Len(whole)
      BY <1>1, <1>3, <2>4, MoreAbove
    <3>2. path # whole
      BY <1>1, <1>3, <2>1, <3>1
    <3>. QED
      BY <1>1, <1>3, <1>4, <2>3, <2>4, <3>2
  <2>5. CASE EdgeAt(n, level) = 0
    <3>1. PathAt(leaves, index, level) = whole /\ HashOn(leaves, index, level) = Root(leaves)
      BY <1>1, <1>3, <2>5, AtTheTop
    <3>2. Len(whole) = k
      BY <2>1, <3>1
    <3>3. Agree(path, whole, k) <=> path = whole
      <4>1. ASSUME Agree(path, whole, k) PROVE path = whole
        <5>1. \A i \in 1..k : path[i] = whole[i]
          BY <4>1 DEF Agree
        <5>2. PICK T : T = S \cup RootsOf(leaves)
          OBVIOUS
        <5>3. path \in Seq(T) /\ whole \in Seq(T)
          BY <1>3, <5>2
        <5>. QED
          BY <1>1, <3>2, <5>1, <5>3
      <4>. QED
        BY <4>1 DEF Agree
    <3>4. new = Root(leaves) <=> leaf = leaves[index + 1] /\ path = whole
      BY <2>2, <3>1, <3>3 DEF Proper
    <3>. QED
      BY <1>1, <1>3, <1>4, <2>3, <2>5, <3>4
  <2>. QED
    BY <2>4, <2>5
<1>. QED
  BY <1>1, <1>2, <1>5, <1>6, FoldPaths

-----------------------------------------------------------------------------
(* The proofs a consumer is handed *)

\* The claim under evaluation names a root that the registry made.
ClaimMade ==
  claimed # NoClaim =>
    \E view \in Views, size \in Nat :
      /\ claimed.size = size /\ claimed.root = Root(Recorded(view, parting, size))
      /\ claimed.index \in Nat /\ claimed.path \in InclusionPaths
ClaimInv == logged \in Nat /\ ClaimMade

LEMMA InclusionPathsAreSequences ==
  ASSUME logged \in Nat, NEW path \in InclusionPaths
  PROVE  IsSequence(path)
<1>. DEFINE ofLast == {InclusionPath(size - 1, History(view, size)) : view \in Views, size \in 1..logged}
            ofAny == {InclusionPath(index, History(view, logged)) : view \in Views, index \in 0..(logged - 1)}
<1>1. ASSUME NEW view \in Views, NEW size \in Nat, NEW index \in Nat PROVE IsSequence(InclusionPath(index, History(view, size)))
  <2>1. PICK leaves : leaves = History(view, size) /\ Len(leaves) = size
    BY RecordedIs DEF History
  <2>2. InclusionPath(index, leaves) \in Seq(RootsOf(leaves))
    BY <2>1, InclusionPathType
  <2>. QED
    BY <2>1, <2>2 DEF IsSequence
<1>2. ASSUME NEW p \in ofLast PROVE IsSequence(p)
  <2>1. PICK view \in Views, size \in 1..logged : p = InclusionPath(size - 1, History(view, size))
    OBVIOUS
  <2>2. size \in Nat /\ size - 1 \in Nat
    OBVIOUS
  <2>. QED
    BY <1>1, <2>1, <2>2
<1>3. ASSUME NEW p \in ofAny PROVE IsSequence(p)
  <2>1. PICK view \in Views, index \in 0..(logged - 1) : p = InclusionPath(index, History(view, logged))
    OBVIOUS
  <2>2. index \in Nat
    OBVIOUS
  <2>. QED
    BY <1>1, <2>1, <2>2
<1>4. path \in Paths(ofLast \cup ofAny)
  BY DEF InclusionPaths
<1>. HIDE DEF ofLast, ofAny
<1>. QED
  BY <1>2, <1>3, <1>4, NearbyAreSequences

LEMMA InitClaim == LogInit => ClaimInv
  BY DEF LogInit, ClaimInv, ClaimMade

LEMMA NextClaim == ClaimInv /\ [LogNext]_logVars => ClaimInv'
<1>1. SUFFICES ASSUME ClaimInv, [LogNext]_logVars PROVE ClaimInv'
  OBVIOUS
<1>2. logged \in Nat /\ ClaimMade
  BY <1>1 DEF ClaimInv
<1>3. CASE Record
  <2>1. logged' = logged + 1 /\ claimed' = NoClaim
    BY <1>3 DEF Record
  <2>2. NoClaim' = NoClaim
    BY DEF NoClaim
  <2>. QED
    BY <1>2, <2>1, <2>2 DEF ClaimInv, ClaimMade
<1>4. ASSUME parting' = parting, logged' = logged, claimed' = claimed PROVE ClaimInv'
  <2>1. \A view, size : History(view, size)' = History(view, size)
    BY <1>4 DEF History
  <2>2. InclusionPaths' = InclusionPaths
    BY <1>4, <2>1 DEF InclusionPaths
  <2>3. NoClaim' = NoClaim
    BY DEF NoClaim
  <2>. QED
    BY <1>2, <1>4, <2>2, <2>3 DEF ClaimInv, ClaimMade
<1>5. ASSUME NEW view \in Views, NEW entry \in 1..logged, NEW index \in 0..logged, NEW path \in InclusionPaths,
             HandProof(entry, index, Checkpoint(view, logged), path)
      PROVE  ClaimInv'
  <2>1. PICK root : root = Root(Recorded(view, parting, logged))
    OBVIOUS
  <2>2. PICK leaf : leaf = LeafHash(entry)
    OBVIOUS
  <2>3. Checkpoint(view, logged).size = logged /\ Checkpoint(view, logged).root = root
    BY <2>1 DEF Checkpoint, History
  <2>4. /\ claimed' = [leaf |-> leaf, index |-> index, size |-> logged, root |-> root, path |-> path]
        /\ parting' = parting /\ logged' = logged
    BY <1>5, <2>2, <2>3 DEF HandProof
  <2>5. claimed'.size = logged /\ claimed'.root = root /\ claimed'.index = index /\ claimed'.path = path
    BY <2>4
  <2>6. \A v, size : History(v, size)' = History(v, size)
    BY <2>4 DEF History
  <2>7. InclusionPaths' = InclusionPaths
    BY <2>4, <2>6 DEF InclusionPaths
  <2>8. index \in Nat
    BY <1>2
  <2>. QED
    BY <1>2, <2>1, <2>4, <2>5, <2>7, <2>8 DEF ClaimInv, ClaimMade
<1>6. CASE \E checkpoint \in Checkpoints \ {NoCheckpoint}, again \in BOOLEAN, w \in Witnesses :
             IF w \in Honest THEN Cosign(w, checkpoint, again) ELSE CosignAnything(w, checkpoint, again)
  BY <1>4, <1>6 DEF Cosign, CosignAnything
<1>7. CASE UNCHANGED logVars
  BY <1>4, <1>7 DEF logVars
<1>. QED
  BY <1>1, <1>3, <1>5, <1>6, <1>7 DEF LogNext

\* Whatever proof a consumer is handed, it accepts the entry if and only if it stands at that
\* index of the tree and the path is the one the log computes (verify_inclusion).
THEOREM HandedProofsAreExact == LogSpec => []ProofsAreExact
<1>1. ClaimInv => ProofsAreExact
  <2>1. SUFFICES ASSUME ClaimInv, claimed # NoClaim
                 PROVE  Included <=> /\ claimed.index < claimed.size
                                     /\ EntriesOf(claimed)[claimed.index + 1] = claimed.leaf
                                     /\ claimed.path = InclusionPath(claimed.index, EntriesOf(claimed))
    BY DEF ProofsAreExact
  <2>2. PICK view \in Views, size \in Nat :
          /\ claimed.size = size /\ claimed.root = Root(Recorded(view, parting, size))
          /\ claimed.index \in Nat /\ claimed.path \in InclusionPaths
    BY <2>1 DEF ClaimInv, ClaimMade
  <2>3. PICK part, leaves, index, path, leaf :
          /\ part = parting /\ leaves = Recorded(view, part, size) /\ index = claimed.index
          /\ path = claimed.path /\ leaf = claimed.leaf
    OBVIOUS
  <2>4. Len(leaves) = size /\ index \in Nat
    BY <2>2, <2>3, RecordedIs
  <2>5. EntriesOf(claimed) = leaves
    <3>1. EntriesOf(claimed) = EntriesUnder(part, claimed)
      BY <2>3 DEF EntriesOf, EntriesUnder, History
    <3>2. EntriesUnder(part, claimed) = EntriesUnder(part, CheckpointOf(view, part, size))
      <4>1. PICK root : root = Root(leaves)
        OBVIOUS
      <4>2. CheckpointOf(view, part, size).size = size /\ CheckpointOf(view, part, size).root = root
        BY <2>3, <4>1 DEF CheckpointOf
      <4>3. claimed.size = size /\ claimed.root = root
        BY <2>2, <2>3, <4>1
      <4>. QED
        BY <4>2, <4>3 DEF EntriesUnder
    <3>. QED
      BY <2>3, <3>1, <3>2, EntriesAre
  <2>6. Included <=> VerifyInclusion(leaf, index, size, path, Root(leaves))
    BY <2>2, <2>3 DEF Included
  <2>7. CASE index < size
    <3>1. PICK S : path \in Seq(S)
      BY <2>1, <2>2, <2>3, InclusionPathsAreSequences DEF ClaimInv, IsSequence
    <3>2. VerifyInclusion(leaf, index, Len(leaves), path, Root(leaves)) <=>
            leaf = leaves[index + 1] /\ path = InclusionPath(index, leaves)
      BY <2>4, <2>7, <3>1, InclusionIsExact
    <3>. QED
      BY <2>2, <2>3, <2>4, <2>5, <2>6, <2>7, <3>2
  <2>8. CASE ~(index < size)
    <3>1. ~VerifyInclusion(leaf, index, size, path, Root(leaves))
      BY <2>8 DEF VerifyInclusion
    <3>. QED
      BY <2>2, <2>3, <2>6, <2>8, <3>1
  <2>. QED
    BY <2>7, <2>8
<1>. QED
  BY <1>1, InitClaim, NextClaim, PTL DEF LogSpec
=============================================================================
