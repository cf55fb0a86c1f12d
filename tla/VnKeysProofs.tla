---------------------------- MODULE VnKeysProofs ----------------------------
(***************************************************************************)
(* Proofs about VnKeys, for any names and inode numbers: records of        *)
(* different kinds never share a key, and a scan lists its directory.      *)
(***************************************************************************)
EXTENDS VnKeys, SequenceTheorems, FiniteSetTheorems, TLAPS

\* A nonempty set of naturals has a least member.
LEMMA LeastNatural ==
    ASSUME NEW T, T \subseteq Nat, T # {}
    PROVE  \E m \in T : \A n \in T : m <= n
<1> DEFINE R == {ss \in Nat \X Nat : ss[1] < ss[2]}
<1>1. PICK m \in T : \A n \in T : ~(<<n, m>> \in R)
  <2>1. IsWellFoundedOn(R, Nat)
    BY NatLessThanWellFounded DEF OpToRel
  <2> HIDE DEF R
  <2> QED
    BY <2>1, WFMin, Zenon
<1>2. \A n \in T : ~(n < m)
  BY <1>1, Zenon
<1> QED
  BY <1>2

----------------------------------------------------------------------------
(* Decimal numbers *)

\* One step of the recursion, and the functions on 0 .. m that follow it.
DecimalStep(f, n) ==
    (IF n < 10 THEN <<>> ELSE f[n \div 10]) \o <<48 + (n % 10)>>

Decimals(m) == {f \in [0 .. m -> Seq(Nat)] : \A n \in 0 .. m : f[n] = DecimalStep(f, n)}

\* Without its last digit a number is smaller.
LEMMA Tenth ==
    ASSUME NEW n \in Nat, n >= 10
    PROVE  n \div 10 \in Nat /\ n \div 10 < n
  OBVIOUS

\* The step yields a sequence.
LEMMA DecimalStepTyped ==
    ASSUME NEW f, NEW n \in Nat, n >= 10 => f[n \div 10] \in Seq(Nat)
    PROVE  DecimalStep(f, n) \in Seq(Nat)
<1>1. <<48 + (n % 10)>> \in Seq(Nat)
  OBVIOUS
<1>2. (IF n < 10 THEN <<>> ELSE f[n \div 10]) \in Seq(Nat)
  OBVIOUS
<1> QED
  BY <1>1, <1>2, ConcatProperties, Zenon DEF DecimalStep

\* It depends on one value of the function.
LEMMA DecimalStepSame ==
    ASSUME NEW f, NEW g, NEW n \in Nat, n >= 10 => f[n \div 10] = g[n \div 10]
    PROVE  DecimalStep(f, n) = DecimalStep(g, n)
<1>1. (IF n < 10 THEN <<>> ELSE f[n \div 10]) = (IF n < 10 THEN <<>> ELSE g[n \div 10])
  OBVIOUS
<1> QED
  BY <1>1, Zenon DEF DecimalStep

\* There is such a function for every m: it is extended number by number.
LEMMA DecimalsExist ==
    ASSUME NEW m \in Nat
    PROVE  Decimals(m) # {}
<1> DEFINE Without == {k \in Nat : Decimals(k) = {}}
<1> SUFFICES ASSUME Without # {} PROVE FALSE
  OBVIOUS
<1>1. PICK k \in Without : \A j \in Without : k <= j
  <2>1. Without \subseteq Nat
    OBVIOUS
  <2> HIDE DEF Without
  <2> QED
    BY <2>1, LeastNatural, Zenon
<1>2. k # 0
  <2> DEFINE f == [n \in 0 .. 0 |-> <<48>>]
  <2>1. f \in [0 .. 0 -> Seq(Nat)]
    OBVIOUS
  <2>2. ASSUME NEW n \in 0 .. 0 PROVE f[n] = DecimalStep(f, n)
    <3>1. n = 0 /\ n < 10 /\ 48 + (n % 10) = 48
      OBVIOUS
    <3> QED
      BY <3>1 DEF DecimalStep
  <2> HIDE DEF f
  <2>3. f \in Decimals(0)
    BY <2>1, <2>2 DEF Decimals
  <2> QED
    BY <2>3
<1>3. k - 1 \in Nat /\ k \in Nat /\ ~(k <= k - 1)
  BY <1>2
<1>4. PICK g : g \in Decimals(k - 1)
  BY <1>1, <1>3
<1> DEFINE f == [n \in 0 .. k |-> IF n = k THEN DecimalStep(g, k) ELSE g[n]]
<1>5. g \in [0 .. k - 1 -> Seq(Nat)] /\ \A n \in 0 .. k - 1 : g[n] = DecimalStep(g, n)
  BY <1>4 DEF Decimals
<1>6. \A n \in 0 .. k : n >= 10 => n \div 10 \in 0 .. k - 1 /\ f[n \div 10] = g[n \div 10]
  BY <1>3, Tenth
<1>7. \A n \in 0 .. k : DecimalStep(f, n) = DecimalStep(g, n)
  BY <1>6, DecimalStepSame
<1>8. \A n \in 0 .. k : f[n] = DecimalStep(g, n)
  BY <1>3, <1>5
<1>9. \A n \in 0 .. k : DecimalStep(g, n) \in Seq(Nat)
  BY <1>5, <1>6, DecimalStepTyped
<1>10. f \in [0 .. k -> Seq(Nat)]
  BY <1>8, <1>9
<1> HIDE DEF f
<1>11. f \in Decimals(k)
  BY <1>7, <1>8, <1>10 DEF Decimals
<1> QED
  BY <1>11

\* Two of them agree where both are defined.
LEMMA DecimalsAgree ==
    ASSUME NEW m \in Nat, NEW k \in Nat, NEW f \in Decimals(m), NEW g \in Decimals(k),
           NEW n \in Nat, n <= m, n <= k
    PROVE  f[n] = g[n]
<1> DEFINE Differ == {j \in Nat : j <= m /\ j <= k /\ f[j] # g[j]}
<1> SUFFICES ASSUME Differ # {} PROVE FALSE
  OBVIOUS
<1>1. PICK j \in Differ : \A i \in Differ : j <= i
  <2>1. Differ \subseteq Nat
    OBVIOUS
  <2> HIDE DEF Differ
  <2> QED
    BY <2>1, LeastNatural, Zenon
<1>2. f[j] = DecimalStep(f, j) /\ g[j] = DecimalStep(g, j)
  BY DEF Decimals
<1>3. j >= 10 => f[j \div 10] = g[j \div 10]
  BY <1>1, Tenth
<1>4. f[j] # g[j] /\ j \in Nat
  OBVIOUS
<1> HIDE DEF Differ
<1> QED
  BY <1>2, <1>3, <1>4, DecimalStepSame

\* The recursive function is there, and "%ld" puts the last digit behind the
\* others.
LEMMA DecimalUnfolds ==
    \A n \in Nat : Decimal[n] = DecimalStep(Decimal, n)
<1> DEFINE g(m) == CHOOSE f \in Decimals(m) : TRUE
           F == [n \in Nat |-> g(n)[n]]
           IsDecimal(f) == f = [n \in Nat |-> (IF n < 10 THEN <<>> ELSE f[n \div 10])
                                                \o <<48 + (n % 10)>>]
<1>1. \A m \in Nat : g(m) \in Decimals(m)
  BY DecimalsExist, Zenon
<1>2. ASSUME NEW n \in Nat PROVE F[n] = DecimalStep(F, n)
  <2>1. F[n] = g(n)[n]
    OBVIOUS
  <2>2. n >= 10 => F[n \div 10] = g(n \div 10)[n \div 10]
    BY Tenth
  <2> HIDE DEF g, F
  <2>3. g(n)[n] = DecimalStep(g(n), n)
    BY <1>1 DEF Decimals
  <2>4. n >= 10 => g(n \div 10)[n \div 10] = g(n)[n \div 10]
    BY <1>1, Tenth, DecimalsAgree
  <2>5. n >= 10 => F[n \div 10] = g(n)[n \div 10]
    BY <2>2, <2>4
  <2> QED
    BY <2>1, <2>3, <2>5, DecimalStepSame
<1>3. F = [n \in Nat |-> F[n]]
  OBVIOUS
<1> HIDE DEF F
<1>4. IsDecimal(F)
  BY <1>2, <1>3, Zenon DEF DecimalStep
<1>5. IsDecimal(Decimal)
  <2>1. Decimal = CHOOSE f : IsDecimal(f)
    BY Zenon DEF Decimal
  <2> HIDE DEF IsDecimal
  <2> QED
    BY <1>4, <2>1, Zenon
<1>6. Decimal = [n \in Nat |-> DecimalStep(Decimal, n)]
  BY <1>5, Zenon DEF DecimalStep
<1> QED
  BY <1>6, Zenon

\* '0' to '9'.
Digit == 48 .. 57

\* The text of a number has only digits, at least one.
LEMMA DecimalDigits ==
    ASSUME NEW n \in Nat
    PROVE  Decimal[n] \in Seq(Digit) /\ Decimal[n] # <<>>
<1> DEFINE Bad == {k \in Nat : ~(Decimal[k] \in Seq(Digit) /\ Decimal[k] # <<>>)}
<1> SUFFICES ASSUME Bad # {} PROVE FALSE
  OBVIOUS
<1>1. PICK k \in Bad : \A j \in Bad : k <= j
  <2>1. Bad \subseteq Nat
    OBVIOUS
  <2> HIDE DEF Bad
  <2> QED
    BY <2>1, LeastNatural, Zenon
<1> DEFINE front == IF k < 10 THEN <<>> ELSE Decimal[k \div 10]
           last == <<48 + (k % 10)>>
<1>2. front \in Seq(Digit)
  <2>1. CASE k < 10
    BY <2>1
  <2>2. CASE ~(k < 10)
    <3>1. k \div 10 \in Nat /\ ~(k <= k \div 10) /\ k >= 10
      BY <2>2, Tenth
    <3>2. k \div 10 \notin Bad
      BY <1>1, <3>1
    <3> QED
      BY <2>2, <3>1, <3>2
  <2> QED
    BY <2>1, <2>2
<1>3. last \in Seq(Digit) /\ Len(last) = 1
  BY DEF Digit
<1>4. Decimal[k] = front \o last
  BY DecimalUnfolds, Zenon DEF DecimalStep
<1> HIDE DEF front, last
<1>5. Decimal[k] \in Seq(Digit) /\ Len(Decimal[k]) = Len(front) + Len(last)
  BY <1>2, <1>3, <1>4, ConcatProperties, Zenon
<1>6. Len(Decimal[k]) # 0
  BY <1>2, <1>3, <1>5
<1>7. Decimal[k] # <<>>
  BY <1>6
<1> QED
  BY <1>5, <1>7

\* A sequence determines its last member and the ones before it.
LEMMA SnocInjective ==
    ASSUME NEW S, NEW s \in Seq(S), NEW t \in Seq(S), NEW x \in S, NEW y \in S,
           s \o <<x>> = t \o <<y>>
    PROVE  s = t /\ x = y
<1>1. s \o <<x>> = Append(s, x) /\ t \o <<y>> = Append(t, y)
  BY AppendIsConcat
<1> QED
  BY <1>1, AppendInjective

\* Different numbers have different texts.
LEMMA DecimalInjective ==
    ASSUME NEW m \in Nat, NEW n \in Nat, Decimal[m] = Decimal[n]
    PROVE  m = n
<1> DEFINE Shared == {k \in Nat : \E j \in Nat : Decimal[k] = Decimal[j] /\ k # j}
<1> SUFFICES ASSUME Shared # {} PROVE FALSE
  OBVIOUS
<1>1. PICK k \in Shared : \A j \in Shared : k <= j
  <2>1. Shared \subseteq Nat
    OBVIOUS
  <2> HIDE DEF Shared
  <2> QED
    BY <2>1, LeastNatural, Zenon
<1>2. PICK j \in Nat : Decimal[k] = Decimal[j] /\ k # j
  OBVIOUS
<1> DEFINE front(i) == IF i < 10 THEN <<>> ELSE Decimal[i \div 10]
<1>3. \A i \in Nat : front(i) \in Seq(Digit) /\ (i >= 10 => front(i) # <<>>)
  BY Tenth, DecimalDigits
<1>4. \A i \in Nat : Decimal[i] = front(i) \o <<48 + (i % 10)>>
  BY DecimalUnfolds, Zenon DEF DecimalStep
<1>5. \A i \in Nat : 48 + (i % 10) \in Digit
  BY DEF Digit
<1>6. k \in Nat
  OBVIOUS
<1>7. front(k) = front(j) /\ 48 + (k % 10) = 48 + (j % 10)
  <2> HIDE DEF front, Shared
  <2>1. front(k) \o <<48 + (k % 10)>> = front(j) \o <<48 + (j % 10)>>
    BY <1>2, <1>4, <1>6, Zenon
  <2>2. front(k) \in Seq(Digit) /\ front(j) \in Seq(Digit)
    BY <1>3, <1>6
  <2>3. 48 + (k % 10) \in Digit /\ 48 + (j % 10) \in Digit
    BY <1>5, <1>6
  <2> QED
    BY <2>1, <2>2, <2>3, SnocInjective
<1>8. CASE k < 10
  <2>1. j < 10
    BY <1>3, <1>7, <1>8
  <2> QED
    BY <1>2, <1>6, <1>7, <1>8, <2>1
<1>9. CASE k >= 10
  <2>1. j >= 10
    BY <1>3, <1>6, <1>7, <1>9
  <2>2. Decimal[k \div 10] = Decimal[j \div 10]
    BY <1>6, <1>7, <1>9, <2>1
  <2>3. k \div 10 # j \div 10
    BY <1>2, <1>6, <1>7
  <2>4. k \div 10 \in Nat /\ j \div 10 \in Nat /\ ~(k <= k \div 10)
    BY <1>6, <1>9, <2>1, Tenth
  <2>5. k \div 10 \in Shared
    BY <2>2, <2>3, <2>4
  <2> QED
    BY <1>1, <2>4, <2>5
<1> QED
  BY <1>6, <1>8, <1>9

----------------------------------------------------------------------------
(* Inode numbers in memory *)

\* Each shift drops a byte.
LEMMA ShiftedUnfolds ==
    ASSUME NEW i
    PROVE  /\ Shifted(i)[0] = i
           /\ \A k \in 1 .. 7 : Shifted(i)[k] = Shifted(i)[k - 1] \div 256
<1> DEFINE IsShifted(s) == s = [k \in 0 .. 7 |-> IF k = 0 THEN i ELSE s[k - 1] \div 256]
           r1 == i \div 256
           r2 == r1 \div 256
           r3 == r2 \div 256
           r4 == r3 \div 256
           r5 == r4 \div 256
           r6 == r5 \div 256
           r7 == r6 \div 256
           r == <<r1, r2, r3, r4, r5, r6, r7>>
           s == [k \in 0 .. 7 |-> IF k = 0 THEN i ELSE r[k]]
<1>1. s[0] = i /\ s[1] = r1 /\ s[2] = r2 /\ s[3] = r3 /\ s[4] = r4 /\ s[5] = r5
        /\ s[6] = r6 /\ s[7] = r7 /\ s = [k \in 0 .. 7 |-> s[k]]
  BY Z3
<1>2. \A k \in 0 .. 7 : k = 0 \/ k = 1 \/ k = 2 \/ k = 3 \/ k = 4 \/ k = 5 \/ k = 6 \/ k = 7
  OBVIOUS
<1> HIDE DEF s
<1>3. \A k \in 0 .. 7 : s[k] = IF k = 0 THEN i ELSE s[k - 1] \div 256
  BY <1>1, <1>2
<1> HIDE DEF r, r1, r2, r3, r4, r5, r6, r7
<1>4. IsShifted(s)
  BY <1>1, <1>3, Zenon
<1>5. IsShifted(Shifted(i))
  <2>1. Shifted(i) = CHOOSE f : IsShifted(f)
    BY Zenon DEF Shifted
  <2> HIDE DEF IsShifted
  <2> QED
    BY <1>4, <2>1, Zenon
<1>6. \A k \in 0 .. 7 : Shifted(i)[k] = IF k = 0 THEN i ELSE Shifted(i)[k - 1] \div 256
  BY <1>5, Zenon
<1> QED
  BY <1>6

\* The shifted numbers and the bytes of a number.
LEMMA ShiftedTyped ==
    ASSUME NEW i \in Nat
    PROVE  \A k \in 0 .. 7 : Shifted(i)[k] \in Nat
<1> DEFINE s == Shifted(i)
<1>1. s[0] = i /\ \A k \in 1 .. 7 : s[k] = s[k - 1] \div 256
  BY ShiftedUnfolds
<1> HIDE DEF s
<1>2. ASSUME NEW k \in 1 .. 7, s[k - 1] \in Nat PROVE s[k] \in Nat
  BY <1>1, <1>2
<1>3. s[0] \in Nat
  BY <1>1
<1>4. s[1] \in Nat
  BY <1>2, <1>3
<1>5. s[2] \in Nat
  BY <1>2, <1>4
<1>6. s[3] \in Nat
  BY <1>2, <1>5
<1>7. s[4] \in Nat
  BY <1>2, <1>6
<1>8. s[5] \in Nat
  BY <1>2, <1>7
<1>9. s[6] \in Nat
  BY <1>2, <1>8
<1>10. s[7] \in Nat
  BY <1>2, <1>9
<1>11. \A k \in 0 .. 7 : k = 0 \/ k = 1 \/ k = 2 \/ k = 3 \/ k = 4 \/ k = 5 \/ k = 6 \/ k = 7
  OBVIOUS
<1> QED
  BY <1>3, <1>4, <1>5, <1>6, <1>7, <1>8, <1>9, <1>10, <1>11, Zenon DEF s

\* The key of an inode record is a sequence of eight bytes.
LEMMA InodeKeyBytes ==
    ASSUME NEW i \in Nat
    PROVE  InodeKey(i) \in Seq(Nat) /\ Len(InodeKey(i)) = 8
<1>1. \A k \in 1 .. 8 : Shifted(i)[k - 1] % 256 \in Nat
  BY ShiftedTyped
<1> QED
  BY <1>1 DEF InodeKey

\* The highest byte of the numbers of the model is 0.
LEMMA InodeKeyEnds ==
    ASSUME NEW i \in Ino
    PROVE  InodeKey(i)[8] = 0
<1>1. InodeKey(i)[8] = Shifted(i)[7] % 256
  BY DEF InodeKey
<1> QED
  BY <1>1, ConstantsAssumption

\* Different numbers have different bytes.
LEMMA InodeKeyInjective ==
    ASSUME NEW i \in Ino, NEW j \in Ino, InodeKey(i) = InodeKey(j)
    PROVE  i = j
<1> DEFINE s == Shifted(i)
           t == Shifted(j)
<1>1. i \in Nat /\ j \in Nat /\ s[7] = 0 /\ t[7] = 0
  BY ConstantsAssumption
<1>2. /\ s[0] = i /\ \A k \in 1 .. 7 : s[k] = s[k - 1] \div 256
      /\ t[0] = j /\ \A k \in 1 .. 7 : t[k] = t[k - 1] \div 256
      /\ \A k \in 0 .. 7 : s[k] \in Nat /\ t[k] \in Nat
  BY <1>1, ShiftedUnfolds, ShiftedTyped
<1>3. \A k \in 1 .. 8 : s[k - 1] % 256 = t[k - 1] % 256
  BY DEF InodeKey
<1> HIDE DEF s, t
<1>4. ASSUME NEW k \in 1 .. 7, s[k] = t[k] PROVE s[k - 1] = t[k - 1]
  <2>1. s[k - 1] \in Nat /\ t[k - 1] \in Nat /\ s[k - 1] % 256 = t[k - 1] % 256
    BY <1>2, <1>3
  <2>2. s[k - 1] \div 256 = t[k - 1] \div 256
    BY <1>2, <1>4
  <2> QED
    BY <2>1, <2>2
<1>5. s[6] = t[6]
  BY <1>1, <1>4
<1>6. s[5] = t[5]
  BY <1>4, <1>5
<1>7. s[4] = t[4]
  BY <1>4, <1>6
<1>8. s[3] = t[3]
  BY <1>4, <1>7
<1>9. s[2] = t[2]
  BY <1>4, <1>8
<1>10. s[1] = t[1]
  BY <1>4, <1>9
<1> QED
  BY <1>2, <1>4, <1>10

----------------------------------------------------------------------------
(* Keys *)

\* The directories there can be.
Dirs == {VN_ROOT_INO} \cup Ino

\* Numbers of directories are not negative, so "%ld" writes no sign.
LEMMA DirsNat ==
    Dirs \subseteq Nat
  BY ConstantsAssumption DEF Dirs, VN_ROOT_INO

\* Digits, then '_' ...
LEMMA PrefixBytes ==
    ASSUME NEW d \in Nat
    PROVE  /\ Prefix(d) \in Seq(Nat) /\ Len(Prefix(d)) = Len(Decimal[d]) + 1
           /\ \A k \in 1 .. Len(Decimal[d]) : Prefix(d)[k] = Decimal[d][k] /\ Prefix(d)[k] \in Digit
           /\ Prefix(d)[Len(Decimal[d]) + 1] = 95
           /\ Len(Decimal[d]) \in Nat /\ Len(Decimal[d]) >= 1
<1>1. Decimal[d] \in Seq(Digit) /\ Decimal[d] # <<>>
  BY DecimalDigits
<1>2. Len(Decimal[d]) \in Nat \ {0} /\ \A k \in 1 .. Len(Decimal[d]) : Decimal[d][k] \in Digit
  BY <1>1, EmptySeq, ElementOfSeq
<1>3. Decimal[d] \in Seq(Nat)
  <2>1. Digit \subseteq Nat
    BY DEF Digit
  <2> QED
    BY <1>1, <2>1, SeqMonotonic, Zenon
<1>4. <<95>> \in Seq(Nat) /\ Len(<<95>>) = 1 /\ <<95>>[1] = 95
  OBVIOUS
<1>5. /\ Prefix(d) \in Seq(Nat) /\ Len(Prefix(d)) = Len(Decimal[d]) + 1
      /\ \A k \in 1 .. Len(Decimal[d]) + 1 :
           Prefix(d)[k] = IF k <= Len(Decimal[d]) THEN Decimal[d][k]
                          ELSE <<95>>[k - Len(Decimal[d])]
  BY <1>3, <1>4, ConcatProperties DEF Prefix
<1>6. ASSUME NEW k \in 1 .. Len(Decimal[d]) PROVE Prefix(d)[k] = Decimal[d][k]
  <2>1. k \in 1 .. Len(Decimal[d]) + 1 /\ k <= Len(Decimal[d])
    BY <1>2
  <2> QED
    BY <1>5, <2>1, Zenon
<1>7. Prefix(d)[Len(Decimal[d]) + 1] = 95
  <2> DEFINE q == Len(Decimal[d])
  <2>1. q + 1 \in 1 .. q + 1 /\ ~(q + 1 <= q) /\ (q + 1) - q = 1
    <3> HIDE DEF q
    <3>1. q \in Nat
      BY <1>2 DEF q
    <3> QED
      BY <3>1
  <2> QED
    BY <1>4, <1>5, <2>1, Zenon
<1> QED
  BY <1>2, <1>5, <1>6, <1>7

\* ... then the name.
LEMMA EntryKeyBytes ==
    ASSUME NEW d \in Nat, NEW n \in Seq(Nat)
    PROVE  /\ EntryKey(d, n) \in Seq(Nat)
           /\ Len(EntryKey(d, n)) = Len(Prefix(d)) + Len(n)
           /\ \A k \in 1 .. Len(Prefix(d)) : EntryKey(d, n)[k] = Prefix(d)[k]
           /\ \A k \in Len(Prefix(d)) + 1 .. Len(Prefix(d)) + Len(n) :
                EntryKey(d, n)[k] = n[k - Len(Prefix(d))]
<1>1. Prefix(d) \in Seq(Nat)
  BY PrefixBytes
<1>2. Len(Prefix(d)) \in Nat /\ Len(n) \in Nat
  BY <1>1, LenProperties
<1>3. /\ EntryKey(d, n) \in Seq(Nat) /\ Len(EntryKey(d, n)) = Len(Prefix(d)) + Len(n)
      /\ \A k \in 1 .. Len(Prefix(d)) + Len(n) :
           EntryKey(d, n)[k] = IF k <= Len(Prefix(d)) THEN Prefix(d)[k] ELSE n[k - Len(Prefix(d))]
  BY <1>1, ConcatProperties DEF EntryKey
<1>4. ASSUME NEW k \in 1 .. Len(Prefix(d)) PROVE EntryKey(d, n)[k] = Prefix(d)[k]
  <2>1. k \in 1 .. Len(Prefix(d)) + Len(n) /\ k <= Len(Prefix(d))
    BY <1>2
  <2> QED
    BY <1>3, <2>1, Zenon
<1>5. ASSUME NEW k \in Len(Prefix(d)) + 1 .. Len(Prefix(d)) + Len(n)
      PROVE  EntryKey(d, n)[k] = n[k - Len(Prefix(d))]
  <2>1. k \in 1 .. Len(Prefix(d)) + Len(n) /\ ~(k <= Len(Prefix(d)))
    BY <1>2
  <2> QED
    BY <1>3, <2>1, Zenon
<1> QED
  BY <1>3, <1>4, <1>5

\* Prefixes byte by byte.
LEMMA PrefixPointwise ==
    ASSUME NEW a \in Seq(Nat), NEW b \in Seq(Nat)
    PROVE  IsPrefix(a, b) <=> Len(a) <= Len(b) /\ \A k \in 1 .. Len(a) : a[k] = b[k]
<1>1. Len(a) \in Nat /\ Len(b) \in Nat
  OBVIOUS
<1>2. ASSUME Len(a) <= Len(b)
      PROVE  /\ SubSeq(a, 1, Len(a)) = a
             /\ SubSeq(b, 1, Len(a)) \in Seq(Nat) /\ Len(SubSeq(b, 1, Len(a))) = Len(a)
             /\ \A k \in 1 .. Len(a) : SubSeq(b, 1, Len(a))[k] = b[k]
  BY <1>1, <1>2
<1>3. ASSUME Len(a) <= Len(b), \A k \in 1 .. Len(a) : a[k] = b[k]
      PROVE  SubSeq(b, 1, Len(a)) = a
  <2> DEFINE c == SubSeq(b, 1, Len(a))
  <2>1. c \in Seq(Nat) /\ Len(c) = Len(a) /\ \A k \in 1 .. Len(c) : c[k] = a[k]
    BY <1>2, <1>3
  <2> HIDE DEF c
  <2>2. c = a
    BY <2>1, SeqEqual
  <2> QED
    BY <2>2 DEF c
<1> QED
  BY <1>2, <1>3, Zenon DEF IsPrefix

\* File names are sequences of bytes other than NUL.
LEMMA NamesNat ==
    ASSUME NEW n \in Name
    PROVE  n \in Seq(Nat) /\ n \in Seq(1 .. 255)
<1>1. n \in Seq(1 .. 255) /\ 1 .. 255 \subseteq Nat
  BY ConstantsAssumption
<1> QED
  BY <1>1, SeqMonotonic, Zenon

\* The keys of a directory have its prefix, ...
LEMMA EntryKeyHasPrefix ==
    ASSUME NEW d \in Nat, NEW n \in Seq(Nat)
    PROVE  IsPrefix(Prefix(d), EntryKey(d, n))
<1>1. Prefix(d) \in Seq(Nat) /\ EntryKey(d, n) \in Seq(Nat)
  BY PrefixBytes, EntryKeyBytes, Zenon
<1>2. Len(Prefix(d)) <= Len(EntryKey(d, n))
  BY <1>1, EntryKeyBytes
<1> QED
  BY <1>1, <1>2, EntryKeyBytes, PrefixPointwise

\* ... and no others do: the first '_' ends the number.
LEMMA PrefixDetermines ==
    ASSUME NEW d \in Nat, NEW e \in Nat, NEW n \in Seq(Nat),
           IsPrefix(Prefix(d), EntryKey(e, n))
    PROVE  d = e
<1> DEFINE p == Len(Decimal[d])
           q == Len(Decimal[e])
           key == EntryKey(e, n)
<1>1. /\ Prefix(d) \in Seq(Nat) /\ Len(Prefix(d)) = p + 1 /\ p \in Nat
      /\ \A k \in 1 .. p : Prefix(d)[k] = Decimal[d][k] /\ Prefix(d)[k] \in Digit
      /\ Prefix(d)[p + 1] = 95
  BY PrefixBytes
<1>2. /\ Prefix(e) \in Seq(Nat) /\ Len(Prefix(e)) = q + 1 /\ q \in Nat
      /\ \A k \in 1 .. q : Prefix(e)[k] = Decimal[e][k] /\ Prefix(e)[k] \in Digit
      /\ Prefix(e)[q + 1] = 95
  BY PrefixBytes
<1>3. key \in Seq(Nat) /\ Len(key) >= q + 1 /\ \A k \in 1 .. q + 1 : key[k] = Prefix(e)[k]
  <2>1. /\ key \in Seq(Nat) /\ Len(key) = Len(Prefix(e)) + Len(n)
        /\ \A k \in 1 .. Len(Prefix(e)) : key[k] = Prefix(e)[k]
    BY EntryKeyBytes
  <2>2. Len(n) \in Nat
    OBVIOUS
  <2> HIDE DEF key
  <2> QED
    BY <1>2, <2>1, <2>2
<1>4. p + 1 <= Len(key) /\ \A k \in 1 .. p + 1 : Prefix(d)[k] = key[k]
  <2>1. IsPrefix(Prefix(d), key)
    OBVIOUS
  <2> HIDE DEF key, p
  <2>2. Len(Prefix(d)) <= Len(key) /\ \A k \in 1 .. Len(Prefix(d)) : Prefix(d)[k] = key[k]
    <3>1. Prefix(d) \in Seq(Nat) /\ key \in Seq(Nat)
      BY <1>1, <1>3
    <3> QED
      BY <2>1, <3>1, PrefixPointwise
  <2> QED
    BY <1>1, <2>2
<1>d. Decimal[d] \in Seq(Digit) /\ Decimal[e] \in Seq(Digit) /\ 95 \notin Digit
  BY DecimalDigits DEF Digit
<1> HIDE DEF p, q, key
<1>5. ~(p < q)
  <2> SUFFICES ASSUME p < q PROVE FALSE
    OBVIOUS
  <2>1. p + 1 \in 1 .. p + 1 /\ p + 1 \in 1 .. q /\ p + 1 \in 1 .. q + 1
    BY <1>1, <1>2
  <2>2. key[p + 1] = Prefix(d)[p + 1]
    BY <1>4, <2>1, Zenon
  <2>3. key[p + 1] = Prefix(e)[p + 1] /\ Prefix(e)[p + 1] \in Digit
    BY <1>2, <1>3, <2>1, Zenon
  <2> QED
    BY <1>1, <1>d, <2>2, <2>3, Zenon
<1>6. ~(q < p)
  <2> SUFFICES ASSUME q < p PROVE FALSE
    OBVIOUS
  <2>1. q + 1 \in 1 .. p + 1 /\ q + 1 \in 1 .. p /\ q + 1 \in 1 .. q + 1
    BY <1>1, <1>2
  <2>2. key[q + 1] = Prefix(d)[q + 1] /\ Prefix(d)[q + 1] \in Digit
    BY <1>1, <1>4, <2>1, Zenon
  <2>3. key[q + 1] = Prefix(e)[q + 1]
    BY <1>3, <2>1, Zenon
  <2> QED
    BY <1>2, <1>d, <2>2, <2>3, Zenon
<1>7. p = q
  BY <1>1, <1>2, <1>5, <1>6
<1>8. ASSUME NEW k \in 1 .. p PROVE Decimal[d][k] = Decimal[e][k]
  <2>1. k \in 1 .. q /\ k \in 1 .. p + 1 /\ k \in 1 .. q + 1
    BY <1>1, <1>7
  <2>2. key[k] = Prefix(d)[k] /\ Prefix(d)[k] = Decimal[d][k]
    BY <1>1, <1>4, <2>1, Zenon
  <2>3. key[k] = Prefix(e)[k] /\ Prefix(e)[k] = Decimal[e][k]
    BY <1>2, <1>3, <2>1, Zenon
  <2> QED
    BY <2>2, <2>3, Zenon
<1>9. Decimal[d] = Decimal[e]
  BY <1>7, <1>8, <1>d, SeqEqual, Zenon DEF p, q
<1> QED
  BY <1>9, DecimalInjective

\* Different entries have different keys.
LEMMA EntryKeyInjective ==
    ASSUME NEW d \in Nat, NEW e \in Nat, NEW m \in Seq(Nat), NEW n \in Seq(Nat),
           EntryKey(d, m) = EntryKey(e, n)
    PROVE  d = e /\ m = n
<1>1. d = e
  BY EntryKeyHasPrefix, PrefixDetermines, Zenon
<1>2. Prefix(d) \o m = Prefix(d) \o n
  BY <1>1, Zenon DEF EntryKey
<1>3. Prefix(d) \in Seq(Nat)
  BY PrefixBytes
<1>4. \A s, t, v \in Seq(Nat) : s \o t = s \o v => t = v
  BY ConcatSimplifications, Zenon
<1> QED
  BY <1>1, <1>2, <1>3, <1>4, Zenon

\* Entries begin with a digit and have no NUL.
LEMMA EntryKeyShape ==
    ASSUME NEW d \in Nat, NEW n \in Name
    PROVE  /\ EntryKey(d, n) \in Seq(Nat) /\ Len(EntryKey(d, n)) >= 1
           /\ EntryKey(d, n)[1] \in Digit
           /\ \A k \in 1 .. Len(EntryKey(d, n)) : EntryKey(d, n)[k] # 0
<1> DEFINE p == Len(Decimal[d])
           key == EntryKey(d, n)
<1>1. /\ Prefix(d) \in Seq(Nat) /\ Len(Prefix(d)) = p + 1
      /\ \A k \in 1 .. p : Prefix(d)[k] \in Digit
      /\ Prefix(d)[p + 1] = 95
      /\ p \in Nat /\ p >= 1
  BY PrefixBytes
<1>2. n \in Seq(Nat) /\ Len(n) \in Nat /\ \A k \in 1 .. Len(n) : n[k] # 0
  <2>1. n \in Seq(Nat) /\ n \in Seq(1 .. 255)
    BY NamesNat
  <2>2. ASSUME NEW k \in 1 .. Len(n) PROVE n[k] \in 1 .. 255
    BY <2>1, ElementOfSeq
  <2>3. Len(n) \in Nat /\ \A k \in 1 .. 255 : k # 0
    BY <2>1, LenProperties
  <2> QED
    BY <2>1, <2>2, <2>3, Zenon
<1>3. /\ key \in Seq(Nat) /\ Len(key) = Len(Prefix(d)) + Len(n)
      /\ \A k \in 1 .. Len(Prefix(d)) : key[k] = Prefix(d)[k]
      /\ \A k \in Len(Prefix(d)) + 1 .. Len(Prefix(d)) + Len(n) :
           key[k] = n[k - Len(Prefix(d))]
  BY <1>2, EntryKeyBytes, Zenon
<1> HIDE DEF p, key
<1>4. key[1] \in Digit
  <2>1. 1 \in 1 .. p /\ 1 \in 1 .. Len(Prefix(d))
    BY <1>1
  <2> QED
    BY <1>1, <1>3, <2>1, Zenon
<1>5. ASSUME NEW k \in 1 .. Len(key) PROVE key[k] # 0
  <2>1. CASE k \in 1 .. p
    <3>1. k \in 1 .. Len(Prefix(d))
      BY <1>1, <2>1
    <3>2. key[k] \in Digit
      BY <1>1, <1>3, <2>1, <3>1, Zenon
    <3> QED
      BY <3>2 DEF Digit
  <2>2. CASE k = p + 1
    <3>1. k \in 1 .. Len(Prefix(d))
      BY <1>1, <2>2
    <3>2. key[k] = 95
      BY <1>1, <1>3, <2>2, <3>1, Zenon
    <3> QED
      BY <3>2
  <2>3. CASE k > p + 1
    <3>1. k \in Len(Prefix(d)) + 1 .. Len(Prefix(d)) + Len(n)
            /\ k - Len(Prefix(d)) \in 1 .. Len(n)
      BY <1>1, <1>2, <1>3, <2>3
    <3> QED
      BY <1>2, <1>3, <3>1, Zenon
  <2> QED
    BY <1>1, <1>2, <1>3, <2>1, <2>2, <2>3
<1>6. Len(key) >= 1
  BY <1>1, <1>2, <1>3
<1> QED
  BY <1>3, <1>4, <1>5, <1>6 DEF key

\* The two fixed keys.
LEMMA FixedKeys ==
    /\ INODE_SEED_KEY \in Seq(Nat) /\ Len(INODE_SEED_KEY) = 14 /\ INODE_SEED_KEY[1] = 95
    /\ SuperblockKey \in Seq(Nat) /\ Len(SuperblockKey) = 9 /\ SuperblockKey[1] = 118
  BY DEF INODE_SEED_KEY, SuperblockKey

\* A key belongs to one record.
LEMMA KeysDiffer ==
    ASSUME NEW d \in Nat, NEW n \in Name, NEW i \in Ino
    PROVE  /\ EntryKey(d, n) # InodeKey(i)
           /\ EntryKey(d, n) # INODE_SEED_KEY /\ EntryKey(d, n) # SuperblockKey
           /\ InodeKey(i) # INODE_SEED_KEY /\ InodeKey(i) # SuperblockKey
           /\ INODE_SEED_KEY # SuperblockKey
<1>1. i \in Nat /\ Len(InodeKey(i)) = 8 /\ InodeKey(i)[8] = 0
  BY ConstantsAssumption, InodeKeyBytes, InodeKeyEnds
<1>2. EntryKey(d, n)[1] # 95 /\ EntryKey(d, n)[1] # 118
  <2>1. EntryKey(d, n)[1] \in Digit
    BY EntryKeyShape, Zenon
  <2> QED
    BY <2>1 DEF Digit
<1>3. EntryKey(d, n) # InodeKey(i)
  <2> SUFFICES ASSUME EntryKey(d, n) = InodeKey(i) PROVE FALSE
    OBVIOUS
  <2>1. 8 \in 1 .. Len(EntryKey(d, n))
    BY <1>1
  <2> QED
    BY <1>1, <2>1, EntryKeyShape, Zenon
<1>4. EntryKey(d, n) # INODE_SEED_KEY /\ EntryKey(d, n) # SuperblockKey
  BY <1>2, FixedKeys, Zenon
<1>5. Len(InodeKey(i)) # Len(INODE_SEED_KEY) /\ Len(InodeKey(i)) # Len(SuperblockKey)
        /\ Len(INODE_SEED_KEY) # Len(SuperblockKey)
  BY <1>1, FixedKeys
<1> QED
  BY <1>3, <1>4, <1>5, Zenon

----------------------------------------------------------------------------
(* Records *)

\* The records are those of the entries, each with its inode record, more inode
\* records, the seed and the superblock.
Records ==
    /\ IsFiniteSet(DOMAIN meta)
    /\ DOMAIN entry \subseteq Dirs \X Name
    /\ \A e \in DOMAIN entry :
         /\ entry[e] \in Ino
         /\ Has(EntryKey(e[1], e[2]))
         /\ meta[EntryKey(e[1], e[2])] = Value(entry[e], "entry")
         /\ Has(InodeKey(entry[e]))
         /\ meta[InodeKey(entry[e])] = Value(entry[e], "inode")
    /\ \A k \in DOMAIN meta :
         \/ \E e \in DOMAIN entry : k = EntryKey(e[1], e[2])
         \/ \E i \in Ino : k = InodeKey(i)
         \/ k = INODE_SEED_KEY
         \/ k = SuperblockKey
    /\ Has(INODE_SEED_KEY) /\ meta[INODE_SEED_KEY] = Value(seed, "seed")

\* What mkfs.vn leaves are the superblock and the seed.
LEMMA RecordsInit ==
    ASSUME Init
    PROVE  Records
<1> DEFINE m1 == Put(<<>>, SuperblockKey, Value(0, "superblock"))
<1> HIDE DEF m1
<1>1. DOMAIN m1 = {SuperblockKey}
  <2>1. DOMAIN <<>> = {}
    OBVIOUS
  <2> QED
    BY <2>1 DEF m1, Put
<1>2. meta = Put(m1, INODE_SEED_KEY, Value(seed, "seed"))
  BY Zenon DEF Init, m1
<1>3. DOMAIN meta = {SuperblockKey, INODE_SEED_KEY} /\ meta[INODE_SEED_KEY] = Value(seed, "seed")
  BY <1>1, <1>2 DEF Put
<1>4. IsFiniteSet(DOMAIN meta)
  <2>1. IsFiniteSet({SuperblockKey}) /\ DOMAIN meta = {SuperblockKey} \cup {INODE_SEED_KEY}
    BY <1>3, FS_Singleton, Zenon
  <2> QED
    BY <2>1, FS_AddElement
<1>5. DOMAIN entry = {}
  BY DEF Init
<1> QED
  BY <1>3, <1>4, <1>5 DEF Records, Has

\* A create adds the two records of the new file, and no other changes but the seed.
LEMMA RecordsCreate ==
    ASSUME Records, NEW d \in Directory, NEW n \in Name, NEW ino \in Ino,
           vn_create_file(d, n, ino)
    PROVE  Records'
<1> DEFINE new == EntryKey(d, n)
           m1 == Put(meta, new, Value(ino, "entry"))
           m2 == Put(m1, InodeKey(ino), Value(ino, "inode"))
<1>1. d \in Dirs /\ d \in Nat
  BY DirsNat DEF Directory, Dirs
<1>2. /\ new # InodeKey(ino) /\ new # INODE_SEED_KEY
      /\ \A i \in Ino : InodeKey(i) # INODE_SEED_KEY /\ InodeKey(i) # new
  BY <1>1, KeysDiffer, Zenon
<1>3. meta' = Put(m2, INODE_SEED_KEY, Value(seed', "seed")) /\ ~Has(new)
        /\ entry' = Put(entry, <<d, n>>, ino)
  BY DEF vn_create_file
<1> HIDE DEF new, m1, m2
<1>4. DOMAIN meta' = DOMAIN meta \cup {new, InodeKey(ino), INODE_SEED_KEY}
  <2>1. DOMAIN m1 = DOMAIN meta \cup {new} /\ DOMAIN m2 = DOMAIN m1 \cup {InodeKey(ino)}
          /\ DOMAIN meta' = DOMAIN m2 \cup {INODE_SEED_KEY}
    BY <1>3 DEF m1, m2, Put
  <2> QED
    BY <2>1
<1>5. /\ meta'[INODE_SEED_KEY] = Value(seed', "seed")
      /\ meta'[InodeKey(ino)] = Value(ino, "inode")
      /\ meta'[new] = Value(ino, "entry")
      /\ \A k \in DOMAIN meta :
           k # new /\ k # InodeKey(ino) /\ k # INODE_SEED_KEY => meta'[k] = meta[k]
  <2>1. /\ DOMAIN m1 = DOMAIN meta \cup {new} /\ m1[new] = Value(ino, "entry")
        /\ \A k \in DOMAIN meta : k # new => m1[k] = meta[k]
    BY DEF m1, Put
  <2>2. /\ DOMAIN m2 = DOMAIN m1 \cup {InodeKey(ino)} /\ m2[InodeKey(ino)] = Value(ino, "inode")
        /\ \A k \in DOMAIN m1 : k # InodeKey(ino) => m2[k] = m1[k]
    BY DEF m2, Put
  <2>3. /\ meta'[INODE_SEED_KEY] = Value(seed', "seed")
        /\ \A k \in DOMAIN m2 : k # INODE_SEED_KEY => meta'[k] = m2[k]
    BY <1>3 DEF Put
  <2> QED
    BY <1>2, <2>1, <2>2, <2>3
<1>6. /\ DOMAIN entry' = DOMAIN entry \cup {<<d, n>>} /\ entry'[<<d, n>>] = ino
      /\ \A e \in DOMAIN entry : e # <<d, n>> => entry'[e] = entry[e]
  BY <1>3 DEF Put
<1>7. IsFiniteSet(DOMAIN meta')
  <2>1. IsFiniteSet(DOMAIN meta)
    BY DEF Records
  <2>2. IsFiniteSet(DOMAIN meta \cup {new})
    BY <2>1, FS_AddElement
  <2>3. IsFiniteSet((DOMAIN meta \cup {new}) \cup {InodeKey(ino)})
    BY <2>2, FS_AddElement
  <2>4. IsFiniteSet(((DOMAIN meta \cup {new}) \cup {InodeKey(ino)}) \cup {INODE_SEED_KEY})
    BY <2>3, FS_AddElement
  <2>5. DOMAIN meta' = ((DOMAIN meta \cup {new}) \cup {InodeKey(ino)}) \cup {INODE_SEED_KEY}
    BY <1>4
  <2> QED
    BY <2>4, <2>5
<1>8. DOMAIN entry' \subseteq Dirs \X Name
  BY <1>1, <1>6 DEF Records
<1>9. ASSUME NEW e \in DOMAIN entry'
      PROVE  /\ entry'[e] \in Ino
             /\ EntryKey(e[1], e[2]) \in DOMAIN meta'
             /\ meta'[EntryKey(e[1], e[2])] = Value(entry'[e], "entry")
             /\ InodeKey(entry'[e]) \in DOMAIN meta'
             /\ meta'[InodeKey(entry'[e])] = Value(entry'[e], "inode")
  <2>1. CASE e = <<d, n>>
    <3>1. EntryKey(e[1], e[2]) = new
      BY <2>1 DEF new
    <3> QED
      BY <1>4, <1>5, <1>6, <2>1, <3>1
  <2>2. CASE e # <<d, n>>
    <3>1. e \in DOMAIN entry /\ entry'[e] = entry[e]
      BY <1>6, <2>2
    <3> DEFINE key == EntryKey(e[1], e[2])
               i == entry[e]
    <3>2. /\ i \in Ino /\ key \in DOMAIN meta /\ meta[key] = Value(i, "entry")
          /\ InodeKey(i) \in DOMAIN meta /\ meta[InodeKey(i)] = Value(i, "inode")
      BY <3>1 DEF Records, Has
    <3>3. key # new
      BY <1>3, <3>2 DEF Has
    <3>4. e[1] \in Nat /\ e[2] \in Name
      BY <3>1, DirsNat, Zenon DEF Records
    <3>5. key # InodeKey(ino) /\ key # INODE_SEED_KEY
      BY <3>4, KeysDiffer, Zenon
    <3> HIDE DEF key, i
    <3>6. meta'[key] = Value(i, "entry")
      BY <1>5, <3>2, <3>3, <3>5, Zenon
    <3>7. meta'[InodeKey(i)] = Value(i, "inode")
      <4>1. CASE i = ino
        BY <1>5, <4>1
      <4>2. CASE i # ino
        <5>1. InodeKey(i) # InodeKey(ino)
          BY <3>2, <4>2, InodeKeyInjective
        <5> QED
          BY <1>2, <1>5, <3>2, <5>1, Zenon
      <4> QED
        BY <4>1, <4>2
    <3>8. entry'[e] = i
      BY <3>1 DEF i
    <3> QED
      BY <1>4, <3>2, <3>6, <3>7, <3>8 DEF key
  <2> QED
    BY <2>1, <2>2
<1>10. ASSUME NEW k \in DOMAIN meta'
       PROVE  \/ \E e \in DOMAIN entry' : k = EntryKey(e[1], e[2])
              \/ \E i \in Ino : k = InodeKey(i)
              \/ k = INODE_SEED_KEY
              \/ k = SuperblockKey
  <2>1. CASE k = new
    <3>1. <<d, n>> \in DOMAIN entry' /\ new = EntryKey(<<d, n>>[1], <<d, n>>[2])
      BY <1>6 DEF new
    <3> QED
      BY <2>1, <3>1, Zenon
  <2>2. CASE k = InodeKey(ino) \/ k = INODE_SEED_KEY
    BY <2>2
  <2>3. CASE k \in DOMAIN meta
    BY <1>6, <2>3, Zenon DEF Records
  <2> QED
    BY <1>4, <2>1, <2>2, <2>3
<1>11. INODE_SEED_KEY \in DOMAIN meta'
  BY <1>4
<1> QED
  BY <1>5, <1>7, <1>8, <1>9, <1>10, <1>11, Zenon DEF Records, Has

\* Entries are of directories and names.
LEMMA EntryPair ==
    ASSUME Records, NEW e \in DOMAIN entry
    PROVE  e[1] \in Nat /\ e[2] \in Name /\ e[2] \in Seq(Nat) /\ e = <<e[1], e[2]>>
<1>1. e \in Dirs \X Name
  BY DEF Records
<1>2. e[1] \in Dirs /\ e[2] \in Name /\ e = <<e[1], e[2]>>
  BY <1>1
<1> QED
  BY <1>2, DirsNat, NamesNat, Zenon

\* Entry keys in use are those of the entries.
LEMMA EntryFound ==
    ASSUME Records, NEW d \in Dirs, NEW n \in Name, Has(EntryKey(d, n))
    PROVE  <<d, n>> \in DOMAIN entry
<1>1. d \in Nat /\ n \in Seq(Nat)
  BY DirsNat, NamesNat
<1>2. \A i \in Ino : EntryKey(d, n) # InodeKey(i)
  BY <1>1, KeysDiffer, Zenon
<1>3. EntryKey(d, n) # INODE_SEED_KEY /\ EntryKey(d, n) # SuperblockKey
  <2>1. EntryKey(d, n)[1] \in Digit
    BY <1>1, EntryKeyShape, Zenon
  <2>2. EntryKey(d, n)[1] # 95 /\ EntryKey(d, n)[1] # 118
    BY <2>1 DEF Digit
  <2> QED
    BY <2>2, FixedKeys, Zenon
<1>4. PICK e \in DOMAIN entry : EntryKey(d, n) = EntryKey(e[1], e[2])
  BY <1>2, <1>3, Zenon DEF Records, Has
<1>5. e[1] \in Nat /\ e[2] \in Seq(Nat) /\ e = <<e[1], e[2]>>
  BY EntryPair
<1>6. d = e[1] /\ n = e[2]
  BY <1>1, <1>4, <1>5, EntryKeyInjective
<1> QED
  BY <1>5, <1>6, Zenon

\* An unlink removes the record of its entry and no other.
LEMMA RecordsUnlink ==
    ASSUME Records, NEW d \in Directory, NEW n \in Name, vn_unlink(d, n)
    PROVE  Records'
<1> DEFINE old == EntryKey(d, n)
<1>1. d \in Dirs /\ d \in Nat /\ n \in Seq(Nat)
  BY DirsNat, NamesNat DEF Directory, Dirs
<1>2. \A i \in Ino : InodeKey(i) # old
  BY <1>1, KeysDiffer, Zenon
<1>3. INODE_SEED_KEY # old
  <2>1. old[1] \in Digit
    BY <1>1, EntryKeyShape, Zenon
  <2>2. old[1] # 95
    BY <2>1 DEF Digit
  <2> QED
    BY <2>2, FixedKeys, Zenon
<1>4. meta' = [k \in DOMAIN meta \ {old} |-> meta[k]] /\ seed' = seed
        /\ entry' = [e \in DOMAIN entry \ {<<d, n>>} |-> entry[e]]
  BY DEF vn_unlink
<1> HIDE DEF old
<1>5. DOMAIN meta' = DOMAIN meta \ {old} /\ \A k \in DOMAIN meta : k # old => meta'[k] = meta[k]
  BY <1>4
<1>6. /\ DOMAIN entry' = DOMAIN entry \ {<<d, n>>}
      /\ \A e \in DOMAIN entry : e # <<d, n>> => entry'[e] = entry[e]
  BY <1>4
<1>7. IsFiniteSet(DOMAIN meta')
  BY <1>5, FS_Subset DEF Records
<1>8. ASSUME NEW e \in DOMAIN entry, e # <<d, n>>
      PROVE  EntryKey(e[1], e[2]) # old
  <2>1. e[1] \in Nat /\ e[2] \in Seq(Nat) /\ e = <<e[1], e[2]>>
    BY EntryPair
  <2> SUFFICES ASSUME EntryKey(e[1], e[2]) = old PROVE FALSE
    OBVIOUS
  <2>2. e[1] = d /\ e[2] = n
    BY <1>1, <2>1, EntryKeyInjective DEF old
  <2> QED
    BY <1>8, <2>1, <2>2, Zenon
<1>9. ASSUME NEW e \in DOMAIN entry'
      PROVE  /\ entry'[e] \in Ino
             /\ EntryKey(e[1], e[2]) \in DOMAIN meta'
             /\ meta'[EntryKey(e[1], e[2])] = Value(entry'[e], "entry")
             /\ InodeKey(entry'[e]) \in DOMAIN meta'
             /\ meta'[InodeKey(entry'[e])] = Value(entry'[e], "inode")
  <2>1. e \in DOMAIN entry /\ e # <<d, n>> /\ entry'[e] = entry[e]
    BY <1>6
  <2>2. EntryKey(e[1], e[2]) # old
    BY <1>8, <2>1
  <2>3. /\ entry[e] \in Ino
        /\ EntryKey(e[1], e[2]) \in DOMAIN meta
        /\ meta[EntryKey(e[1], e[2])] = Value(entry[e], "entry")
        /\ InodeKey(entry[e]) \in DOMAIN meta
        /\ meta[InodeKey(entry[e])] = Value(entry[e], "inode")
    BY <2>1 DEF Records, Has
  <2>4. InodeKey(entry[e]) # old
    BY <1>2, <2>3
  <2> QED
    BY <1>5, <2>1, <2>2, <2>3, <2>4
<1>10. ASSUME NEW k \in DOMAIN meta'
       PROVE  \/ \E e \in DOMAIN entry' : k = EntryKey(e[1], e[2])
              \/ \E i \in Ino : k = InodeKey(i)
              \/ k = INODE_SEED_KEY
              \/ k = SuperblockKey
  <2>1. k \in DOMAIN meta /\ k # old
    BY <1>5
  <2>2. ASSUME NEW e \in DOMAIN entry, k = EntryKey(e[1], e[2]) PROVE e \in DOMAIN entry'
    <3>1. CASE e = <<d, n>>
      BY <2>1, <2>2, <3>1 DEF old
    <3>2. CASE e # <<d, n>>
      BY <1>6, <3>2
    <3> QED
      BY <3>1, <3>2
  <2> QED
    BY <2>1, <2>2, Zenon DEF Records
<1>11. INODE_SEED_KEY \in DOMAIN meta' /\ meta'[INODE_SEED_KEY] = Value(seed', "seed")
  BY <1>3, <1>4, <1>5 DEF Records, Has
<1>12. DOMAIN entry' \subseteq Dirs \X Name
  BY <1>6 DEF Records
<1> QED
  BY <1>7, <1>9, <1>10, <1>11, <1>12, Zenon DEF Records, Has

\* Every call keeps the records apart.
LEMMA RecordsNext ==
    ASSUME Records, [Next]_vars
    PROVE  Records'
<1>1. ASSUME UNCHANGED <<meta, seed, entry>> PROVE Records'
  BY <1>1 DEF Records, Has
<1>2. vn_next_inode => UNCHANGED <<meta, seed, entry>>
  BY DEF vn_next_inode
<1>3. vn_release_iterator => UNCHANGED <<meta, seed, entry>>
  BY DEF vn_release_iterator
<1>4. \A d : vn_begin_iterate_dir(d) => UNCHANGED <<meta, seed, entry>>
  BY DEF vn_begin_iterate_dir
<1>5. UNCHANGED vars => UNCHANGED <<meta, seed, entry>>
  BY DEF vars
<1> QED
  BY <1>1, <1>2, <1>3, <1>4, <1>5, RecordsCreate, RecordsUnlink, Zenon DEF Next

\* No record takes the place of one of another kind, for any file names and any
\* inode numbers below 2^56: entries, inodes, seed and superblock are found under
\* their keys, whatever their bytes.
THEOREM RecordsSeparate == Spec => []KeysSeparate
<1>1. Init => Records
  BY RecordsInit
<1>2. Records /\ [Next]_vars => Records'
  BY RecordsNext
<1>3. ASSUME Records PROVE KeysSeparate
  <2>1. Directory \subseteq Dirs
    BY DEF Directory, Dirs
  <2>2. ASSUME NEW d \in Directory, NEW n \in Name
        PROVE  IF <<d, n>> \in DOMAIN entry
               THEN /\ Has(EntryKey(d, n))
                    /\ meta[EntryKey(d, n)] = Value(entry[<<d, n>>], "entry")
                    /\ meta[InodeKey(entry[<<d, n>>])] = Value(entry[<<d, n>>], "inode")
               ELSE ~Has(EntryKey(d, n))
    <3>1. <<d, n>>[1] = d /\ <<d, n>>[2] = n
      OBVIOUS
    <3>2. CASE <<d, n>> \in DOMAIN entry
      BY <1>3, <3>1, <3>2, Zenon DEF Records
    <3>3. CASE <<d, n>> \notin DOMAIN entry
      BY <1>3, <2>1, <3>3, EntryFound
    <3> QED
      BY <3>2, <3>3
  <2>3. meta[INODE_SEED_KEY] = Value(seed, "seed")
    BY <1>3 DEF Records
  <2> QED
    BY <2>2, <2>3, Zenon DEF KeysSeparate
<1> QED
  BY <1>1, <1>2, <1>3, PTL DEF Spec

----------------------------------------------------------------------------
(* The order of keys *)

\* Arithmetic.
LEMMA Ordered ==
    ASSUME NEW m \in Nat, NEW n \in Nat
    PROVE  /\ m < n => m <= n /\ ~(n < m)
           /\ m <= m /\ ~(m < m)
           /\ \A k \in Nat : m < n /\ n <= k => m < k
  OBVIOUS

\* The byte behind the end of the shorter key.
LEMMA Longer ==
    ASSUME NEW m \in Nat, NEW n \in Nat, m <= n, m # n
    PROVE  (m + 1) - 1 = m /\ m <= m /\ m + 1 <= n /\ ~(m + 1 <= m)
  OBVIOUS

\* A set without one of its members is smaller.
LEMMA OneLess ==
    ASSUME NEW c \in Nat, NEW m, m = c - 1
    PROVE  ~(c <= m)
  OBVIOUS

\* Where two keys part: there the first ends or has the smaller byte.
PartAt(a, b, i) ==
    /\ i - 1 <= Len(a) /\ i <= Len(b)
    /\ \A j \in 1 .. i - 1 : a[j] = b[j]
    /\ i <= Len(a) => a[i] < b[i]

\* The order of RocksDB in these terms.
LEMMA BeforeParts ==
    ASSUME NEW a \in Seq(Nat), NEW b \in Seq(Nat)
    PROVE  Before(a, b) <=> \E i \in Nat \ {0} : PartAt(a, b, i)
<1>1. Len(a) \in Nat /\ Len(b) \in Nat /\ DOMAIN a = 1 .. Len(a) /\ DOMAIN b = 1 .. Len(b)
  BY LenProperties
<1>2. ASSUME IsStrictPrefix(a, b) PROVE PartAt(a, b, Len(a) + 1)
  <2>1. Len(a) <= Len(b) /\ \A k \in 1 .. Len(a) : a[k] = b[k]
    BY <1>2, PrefixPointwise DEF IsStrictPrefix
  <2>2. Len(a) # Len(b)
    BY <1>2, <2>1, SeqEqual DEF IsStrictPrefix
  <2>3. /\ (Len(a) + 1) - 1 = Len(a) /\ Len(a) <= Len(a) /\ Len(a) + 1 <= Len(b)
        /\ ~(Len(a) + 1 <= Len(a))
    BY <1>1, <2>1, <2>2, Longer, Zenon
  <2> QED
    BY <2>1, <2>3, Zenon DEF PartAt
<1>3. ASSUME NEW i \in DOMAIN a \cap DOMAIN b, a[i] < b[i], \A j \in 1 .. (i - 1) : a[j] = b[j]
      PROVE  i \in Nat \ {0} /\ PartAt(a, b, i)
  BY <1>1, <1>3 DEF PartAt
<1>4. ASSUME NEW i \in Nat \ {0}, PartAt(a, b, i) PROVE Before(a, b)
  <2>1. CASE i <= Len(a)
    <3>1. i \in DOMAIN a \cap DOMAIN b
      BY <1>1, <1>4, <2>1 DEF PartAt
    <3> QED
      BY <1>4, <2>1, <3>1, Zenon DEF PartAt, Before
  <2>2. CASE ~(i <= Len(a))
    <3>1. i = Len(a) + 1 /\ Len(a) < Len(b) /\ i - 1 = Len(a)
      BY <1>1, <1>4, <2>2 DEF PartAt
    <3>2. IsPrefix(a, b)
      <4>1. Len(a) <= Len(b) /\ \A k \in 1 .. Len(a) : a[k] = b[k]
        BY <1>1, <1>4, <3>1 DEF PartAt
      <4> QED
        BY <4>1, PrefixPointwise, Zenon
    <3> QED
      BY <1>1, <3>1, <3>2 DEF Before, IsStrictPrefix
  <2> QED
    BY <2>1, <2>2
<1>5. Len(a) + 1 \in Nat \ {0}
  BY <1>1
<1> QED
  BY <1>2, <1>3, <1>4, <1>5, Zenon DEF Before

\* No key comes before itself.
LEMMA BeforeIrreflexive ==
    ASSUME NEW a \in Seq(Nat)
    PROVE  ~Before(a, a)
<1> SUFFICES ASSUME Before(a, a) PROVE FALSE
  OBVIOUS
<1>1. PICK i \in Nat \ {0} : PartAt(a, a, i)
  BY BeforeParts
<1>2. i \in 1 .. Len(a) /\ a[i] < a[i]
  BY <1>1 DEF PartAt
<1>3. a[i] \in Nat
  BY <1>2, ElementOfSeq
<1> QED
  BY <1>2, <1>3

\* The order of keys is transitive ...
LEMMA BeforeTransitive ==
    ASSUME NEW a \in Seq(Nat), NEW b \in Seq(Nat), NEW c \in Seq(Nat),
           Before(a, b), Before(b, c)
    PROVE  Before(a, c)
<1>1. PICK i \in Nat \ {0} : PartAt(a, b, i)
  BY BeforeParts
<1>2. PICK j \in Nat \ {0} : PartAt(b, c, j)
  BY BeforeParts
<1>3. /\ Len(a) \in Nat /\ \A k \in 1 .. Len(a) : a[k] \in Nat
      /\ Len(b) \in Nat /\ \A k \in 1 .. Len(b) : b[k] \in Nat
      /\ Len(c) \in Nat /\ \A k \in 1 .. Len(c) : c[k] \in Nat
  BY ElementOfSeq, LenProperties
<1>4. CASE i <= j
  <2>1. i - 1 <= Len(a) /\ i <= Len(c)
    BY <1>1, <1>2, <1>3, <1>4 DEF PartAt
  <2>2. \A k \in 1 .. i - 1 : a[k] = c[k]
    BY <1>1, <1>2, <1>3, <1>4 DEF PartAt
  <2>3. ASSUME i <= Len(a) PROVE a[i] < c[i]
    <3>1. a[i] < b[i] /\ i \in 1 .. Len(a) /\ i \in 1 .. Len(b) /\ i \in 1 .. Len(c)
      BY <1>1, <1>3, <2>1, <2>3 DEF PartAt
    <3>n. a[i] \in Nat /\ b[i] \in Nat /\ c[i] \in Nat
      BY <1>3, <3>1, Zenon
    <3>2. b[i] <= c[i]
      <4>1. CASE i = j
        <5>1. b[i] < c[i]
          BY <1>2, <3>1, <4>1 DEF PartAt
        <5> QED
          BY <3>n, <5>1, Ordered, Zenon
      <4>2. CASE i # j
        <5>1. i \in 1 .. j - 1
          BY <1>4, <4>2
        <5>2. b[i] = c[i]
          BY <1>2, <5>1 DEF PartAt
        <5> QED
          BY <3>n, <5>2, Ordered, Zenon
      <4> QED
        BY <4>1, <4>2
    <3> QED
      BY <3>n, <3>1, <3>2, Ordered, Zenon
  <2>4. PartAt(a, c, i)
    BY <2>1, <2>2, <2>3 DEF PartAt
  <2> QED
    BY <2>4, BeforeParts
<1>5. CASE j < i
  <2>1. j \in 1 .. i - 1 /\ j - 1 <= Len(a) /\ j <= Len(c) /\ j <= Len(b)
    BY <1>1, <1>2, <1>3, <1>5 DEF PartAt
  <2>2. \A k \in 1 .. j - 1 : a[k] = c[k]
    BY <1>1, <1>2, <1>3, <1>5 DEF PartAt
  <2>3. a[j] < c[j]
    BY <1>1, <1>2, <2>1 DEF PartAt
  <2>4. PartAt(a, c, j)
    BY <2>1, <2>2, <2>3 DEF PartAt
  <2> QED
    BY <2>4, BeforeParts
<1> QED
  BY <1>4, <1>5

\* ... and total.
LEMMA BeforeTotal ==
    ASSUME NEW a \in Seq(Nat), NEW b \in Seq(Nat), a # b
    PROVE  Before(a, b) \/ Before(b, a)
<1> DEFINE Apart == {k \in Nat : k \in 1 .. Len(a) /\ k \in 1 .. Len(b) /\ a[k] # b[k]}
<1>1. /\ Len(a) \in Nat /\ \A k \in 1 .. Len(a) : a[k] \in Nat
      /\ Len(b) \in Nat /\ \A k \in 1 .. Len(b) : b[k] \in Nat
  BY ElementOfSeq, LenProperties
<1>2. CASE Apart # {}
  <2>1. PICK i \in Apart : \A k \in Apart : i <= k
    <3>1. Apart \subseteq Nat
      OBVIOUS
    <3> HIDE DEF Apart
    <3> QED
      BY <1>2, <3>1, LeastNatural, Zenon
  <2>2. i \in Nat \ {0} /\ i <= Len(a) /\ i <= Len(b) /\ a[i] # b[i]
    BY <1>1
  <2>3. ASSUME NEW k \in 1 .. i - 1 PROVE a[k] = b[k]
    <3>1. k \in 1 .. Len(a) /\ k \in 1 .. Len(b) /\ k \in Nat /\ ~(i <= k)
      BY <1>1, <2>2
    <3> QED
      BY <2>1, <3>1
  <2>4. a[i] < b[i] \/ b[i] < a[i]
    BY <1>1, <2>2
  <2> HIDE DEF Apart
  <2>5. PartAt(a, b, i) \/ PartAt(b, a, i)
    BY <1>1, <2>2, <2>3, <2>4 DEF PartAt
  <2> QED
    BY <2>2, <2>5, BeforeParts
<1>3. CASE Apart = {}
  <2>1. \A k \in Nat : k \in 1 .. Len(a) /\ k \in 1 .. Len(b) => a[k] = b[k]
    BY <1>3
  <2> HIDE DEF Apart
  <2>2. Len(a) # Len(b)
    <3> SUFFICES ASSUME Len(a) = Len(b) PROVE FALSE
      OBVIOUS
    <3>1. \A k \in 1 .. Len(a) : a[k] = b[k]
      BY <1>1, <2>1
    <3> QED
      BY <3>1, SeqEqual
  <2>3. CASE Len(a) < Len(b)
    <3>1. PartAt(a, b, Len(a) + 1) /\ Len(a) + 1 \in Nat \ {0}
      BY <1>1, <2>1, <2>3 DEF PartAt
    <3> QED
      BY <3>1, BeforeParts
  <2>4. CASE Len(b) < Len(a)
    <3>1. PartAt(b, a, Len(b) + 1) /\ Len(b) + 1 \in Nat \ {0}
      BY <1>1, <2>1, <2>4 DEF PartAt
    <3> QED
      BY <3>1, BeforeParts
  <2> QED
    BY <1>1, <2>2, <2>3, <2>4
<1> QED
  BY <1>2, <1>3

\* Keys between a prefix and a key that has it have it too, so the keys of a
\* directory are next to each other.
LEMMA BeforeConvex ==
    ASSUME NEW p \in Seq(Nat), NEW x \in Seq(Nat), NEW k \in Seq(Nat),
           p = x \/ Before(p, x), Before(x, k), IsPrefix(p, k)
    PROVE  IsPrefix(p, x)
<1>0. /\ Len(p) \in Nat /\ \A m \in 1 .. Len(p) : p[m] \in Nat
      /\ Len(x) \in Nat /\ \A m \in 1 .. Len(x) : x[m] \in Nat
      /\ Len(k) \in Nat /\ \A m \in 1 .. Len(k) : k[m] \in Nat
  BY ElementOfSeq, LenProperties
<1>1. CASE p = x
  BY <1>0, <1>1, PrefixPointwise
<1>2. CASE Before(p, x)
  <2>1. PICK j \in Nat \ {0} : PartAt(p, x, j)
    BY <1>2, BeforeParts
  <2>2. PICK i \in Nat \ {0} : PartAt(x, k, i)
    BY BeforeParts
  <2>3. Len(p) <= Len(k) /\ \A m \in 1 .. Len(p) : p[m] = k[m]
    BY PrefixPointwise
  <2>4. ~(j <= Len(p))
    <3> SUFFICES ASSUME j <= Len(p) PROVE FALSE
      OBVIOUS
    <3>1. /\ j \in 1 .. Len(p) /\ j \in 1 .. Len(x) /\ j \in 1 .. Len(k)
          /\ p[j] < x[j] /\ p[j] = k[j]
      BY <1>0, <2>1, <2>3 DEF PartAt
    <3>2. CASE j < i
      <4>1. j \in 1 .. i - 1
        BY <3>2
      <4>2. x[j] = k[j]
        BY <2>2, <4>1 DEF PartAt
      <4> QED
        BY <1>0, <3>1, <4>2
    <3>3. CASE i = j
      <4>1. x[j] < k[j]
        BY <1>0, <2>2, <3>1, <3>3 DEF PartAt
      <4>2. x[j] \in Nat /\ k[j] \in Nat
        BY <1>0, <3>1, Zenon
      <4>3. ~(x[j] < k[j])
        BY <3>1, <4>2, Ordered, Zenon
      <4> QED
        BY <4>1, <4>3
    <3>4. CASE i < j
      <4>1. i \in 1 .. j - 1 /\ i \in 1 .. Len(x) /\ i \in 1 .. Len(p)
        BY <1>0, <3>1, <3>4
      <4>2. p[i] = x[i] /\ p[i] = k[i]
        BY <2>1, <2>3, <4>1 DEF PartAt
      <4>3. x[i] < k[i]
        BY <1>0, <2>2, <4>1 DEF PartAt
      <4> QED
        BY <1>0, <4>1, <4>2, <4>3
    <3> QED
      BY <3>2, <3>3, <3>4
  <2>5. j - 1 = Len(p) /\ Len(p) <= Len(x)
    BY <1>0, <2>1, <2>4 DEF PartAt
  <2>6. \A m \in 1 .. Len(p) : p[m] = x[m]
    BY <2>1, <2>5 DEF PartAt
  <2> QED
    BY <2>5, <2>6, PrefixPointwise
<1> QED
  BY <1>1, <1>2

\* The first of some keys.
IsFirst(k, keys) == k \in keys /\ \A other \in keys \ {k} : Before(k, other)

\* Some keys, if there are any, have a first one, which First names.
LEMMA FirstExists ==
    ASSUME NEW keys, IsFiniteSet(keys), keys # {}, keys \subseteq Seq(Nat)
    PROVE  IsFirst(First(keys), keys)
<1> DEFINE Without == {c \in Nat : \E S \in SUBSET keys :
                         S # {} /\ Cardinality(S) = c /\ ~(\E k \in S : IsFirst(k, S))}
<1>1. \A S \in SUBSET keys : IsFiniteSet(S) /\ Cardinality(S) \in Nat
  BY FS_Subset, FS_CardinalityType
<1>2. Without = {}
  <2> SUFFICES ASSUME Without # {} PROVE FALSE
    OBVIOUS
  <2>1. PICK c \in Without : \A j \in Without : c <= j
    <3>1. Without \subseteq Nat
      OBVIOUS
    <3> HIDE DEF Without
    <3> QED
      BY <3>1, LeastNatural, Zenon
  <2>2. PICK S \in SUBSET keys :
          S # {} /\ Cardinality(S) = c /\ ~(\E k \in S : IsFirst(k, S))
    OBVIOUS
  <2>3. PICK x \in S : TRUE
    BY <2>2
  <2> DEFINE R == S \ {x}
  <2>4. R \in SUBSET keys /\ Cardinality(R) = c - 1 /\ c \in Nat /\ x \in Seq(Nat)
    BY <1>1, <2>2, FS_RemoveElement, Zenon
  <2>5. R # {}
    <3> SUFFICES ASSUME R = {} PROVE FALSE
      OBVIOUS
    <3>1. S = {x}
      OBVIOUS
    <3> QED
      BY <2>2, <3>1 DEF IsFirst
  <2>6. Cardinality(R) \in Nat /\ ~(c <= Cardinality(R))
    BY <1>1, <2>4, OneLess, Zenon
  <2>7. Cardinality(R) \notin Without
    BY <2>1, <2>6, Zenon
  <2>8. PICK y \in R : IsFirst(y, R)
    BY <2>4, <2>5, <2>6, <2>7, Zenon
  <2>9. y \in Seq(Nat) /\ x # y /\ y \in S
    BY <2>4
  <2>10. CASE Before(y, x)
    <3>1. IsFirst(y, S)
      BY <2>8, <2>9, <2>10 DEF IsFirst
    <3> QED
      BY <2>2, <2>9, <3>1
  <2>11. CASE Before(x, y)
    <3>1. ASSUME NEW z \in S \ {x} PROVE Before(x, z)
      <4>1. z \in Seq(Nat) /\ (z = y \/ Before(y, z))
        BY <2>8 DEF IsFirst
      <4> QED
        BY <2>4, <2>9, <2>11, <4>1, BeforeTransitive
    <3>2. IsFirst(x, S)
      BY <3>1 DEF IsFirst
    <3> QED
      BY <2>2, <3>2
  <2> QED
    BY <2>4, <2>9, <2>10, <2>11, BeforeTotal
<1>3. \E k \in keys : IsFirst(k, keys)
  BY <1>1, <1>2
<1>4. First(keys) = CHOOSE k \in keys : \A other \in keys \ {k} : Before(k, other)
  BY DEF First
<1> QED
  BY <1>3, <1>4, Zenon DEF IsFirst

----------------------------------------------------------------------------
(* Listings *)

\* No inode number has bytes that begin like an entry of a directory.
Plain == \A d \in Dirs, i \in Ino : ~IsPrefix(Prefix(d), InodeKey(i))

\* The keys a scan looks for, and what it returns for some of them.
Matching(p, m) == {k \in DOMAIN m : IsPrefix(p, k)}

Listing(p, m, keys) == {<<SubSeq(k, Len(p) + 1, Len(k)), m[k].ino>> : k \in keys}

\* Keys are never empty.
KeysTyped(m) ==
    IsFiniteSet(DOMAIN m) /\ \A k \in DOMAIN m : k \in Seq(Nat) /\ k # <<>>

\* A scan has returned what it looks for up to the place where it is.
Scan ==
    it.on =>
        /\ it = [on |-> TRUE, prefix |-> it.prefix, snapshot |-> it.snapshot,
                 at |-> it.at, wanted |-> it.wanted]
        /\ it.prefix \in Seq(Nat) /\ KeysTyped(it.snapshot)
        /\ it.at = End \/ it.at \in DOMAIN it.snapshot
        /\ it.wanted = Listing(it.prefix, it.snapshot, Matching(it.prefix, it.snapshot))
        /\ listed = Listing(it.prefix, it.snapshot,
                            {k \in Matching(it.prefix, it.snapshot) :
                               vn_iterator_has_next => Before(k, it.at)})

\* Keys of meta_cf are not empty.
LEMMA RecordsTyped ==
    ASSUME Records
    PROVE  KeysTyped(meta)
<1>1. ASSUME NEW k \in DOMAIN meta PROVE k \in Seq(Nat) /\ k # <<>>
  <2>1. k \in Seq(Nat) /\ Len(k) # 0
    <3>1. CASE \E e \in DOMAIN entry : k = EntryKey(e[1], e[2])
      <4>1. PICK e \in DOMAIN entry : k = EntryKey(e[1], e[2])
        BY <3>1
      <4>2. e[1] \in Nat /\ e[2] \in Name
        BY EntryPair
      <4>3. k \in Seq(Nat) /\ Len(k) >= 1
        BY <4>1, <4>2, EntryKeyShape, Zenon
      <4> QED
        BY <4>3
    <3>2. CASE \E i \in Ino : k = InodeKey(i)
      <4>1. PICK i \in Ino : k = InodeKey(i)
        BY <3>2
      <4>2. k \in Seq(Nat) /\ Len(k) = 8
        BY <4>1, ConstantsAssumption, InodeKeyBytes
      <4> QED
        BY <4>2
    <3>3. CASE k = INODE_SEED_KEY \/ k = SuperblockKey
      <4>1. Len(INODE_SEED_KEY) # 0 /\ Len(SuperblockKey) # 0
        BY FixedKeys
      <4> QED
        BY <3>3, <4>1, FixedKeys, Zenon
    <3> QED
      BY <3>1, <3>2, <3>3, Zenon DEF Records
  <2> QED
    BY <2>1
<1> QED
  BY <1>1 DEF KeysTyped, Records

\* The records with the prefix of a directory are those of its entries.
LEMMA MatchingEntries ==
    ASSUME Records, Plain, NEW d \in Dirs, NEW k \in Matching(Prefix(d), meta)
    PROVE  \E e \in DOMAIN entry : e[1] = d /\ k = EntryKey(d, e[2])
<1>1. d \in Nat /\ k \in DOMAIN meta /\ IsPrefix(Prefix(d), k) /\ k \in Seq(Nat)
  BY DirsNat, RecordsTyped DEF Matching, KeysTyped
<1>2. ~(\E i \in Ino : k = InodeKey(i))
  BY <1>1, Zenon DEF Plain
<1>3. k # INODE_SEED_KEY /\ k # SuperblockKey
  <2>1. Prefix(d) \in Seq(Nat) /\ Len(Prefix(d)) >= 1 /\ Prefix(d)[1] \in Digit
    <3>1. /\ Prefix(d) \in Seq(Nat) /\ Len(Prefix(d)) = Len(Decimal[d]) + 1
          /\ \A j \in 1 .. Len(Decimal[d]) : Prefix(d)[j] \in Digit
          /\ Len(Decimal[d]) \in Nat /\ Len(Decimal[d]) >= 1
      BY <1>1, PrefixBytes, Zenon
    <3>2. 1 \in 1 .. Len(Decimal[d]) /\ Len(Prefix(d)) >= 1
      BY <3>1
    <3> QED
      BY <3>1, <3>2, Zenon
  <2>2. Prefix(d)[1] = k[1]
    <3>1. \A j \in 1 .. Len(Prefix(d)) : Prefix(d)[j] = k[j]
      BY <1>1, <2>1, PrefixPointwise
    <3>2. 1 \in 1 .. Len(Prefix(d))
      BY <2>1
    <3> QED
      BY <3>1, <3>2, Zenon
  <2>3. k[1] # 95 /\ k[1] # 118
    BY <2>1, <2>2 DEF Digit
  <2> QED
    BY <2>3, FixedKeys, Zenon
<1>4. PICK e \in DOMAIN entry : k = EntryKey(e[1], e[2])
  BY <1>1, <1>2, <1>3, Zenon DEF Records
<1>5. e[1] \in Nat /\ e[2] \in Seq(Nat)
  BY EntryPair
<1>6. d = e[1]
  BY <1>1, <1>4, <1>5, PrefixDetermines
<1> QED
  BY <1>4, <1>6, Zenon

\* What follows the prefix is the name.
LEMMA NameFollows ==
    ASSUME NEW d \in Nat, NEW n \in Seq(Nat)
    PROVE  SubSeq(EntryKey(d, n), Len(Prefix(d)) + 1, Len(EntryKey(d, n))) = n
<1> DEFINE p == Len(Prefix(d))
           key == EntryKey(d, n)
           s == SubSeq(key, p + 1, Len(key))
<1>1. Prefix(d) \in Seq(Nat) /\ p \in Nat /\ Len(n) \in Nat
  BY PrefixBytes, LenProperties
<1>2. /\ key \in Seq(Nat) /\ Len(key) = p + Len(n)
      /\ \A k \in p + 1 .. p + Len(n) : key[k] = n[k - p]
  BY EntryKeyBytes
<1> HIDE DEF p, key
<1>3. ASSUME NEW k \in p + 1 .. Len(key) PROVE key[k] \in Nat
  <2>1. Len(key) \in Nat
    BY <1>1, <1>2
  <2>2. k \in 1 .. Len(key)
    BY <1>1, <2>1
  <2> QED
    BY <1>2, <2>2, ElementOfSeq
<1>4. /\ s \in Seq(Nat) /\ Len(s) = Len(n)
      /\ \A k \in 1 .. Len(n) : s[k] = key[p + k]
  <2>1. /\ s \in Seq(Nat) /\ Len(s) = (IF p + 1 <= Len(key) THEN Len(key) - (p + 1) + 1 ELSE 0)
        /\ \A k \in 1 .. Len(key) - (p + 1) + 1 : s[k] = key[p + 1 + k - 1]
    <3>1. p + 1 \in Int /\ Len(key) \in Int
      BY <1>1, <1>2
    <3> QED
      BY <1>3, <3>1, SubSeqProperties
  <2> HIDE DEF s
  <2>2. Len(key) - (p + 1) + 1 = Len(n) /\ (p + 1 <= Len(key) \/ Len(n) = 0)
          /\ \A k \in 1 .. Len(n) : p + 1 + k - 1 = p + k
    BY <1>1, <1>2
  <2>3. Len(s) = Len(n)
    BY <1>1, <1>2, <2>1
  <2> QED
    BY <2>1, <2>2, <2>3
<1> HIDE DEF s
<1>5. ASSUME NEW k \in 1 .. Len(n) PROVE s[k] = n[k]
  <2>1. p + k \in p + 1 .. p + Len(n) /\ (p + k) - p = k
    BY <1>1
  <2> QED
    BY <1>2, <1>4, <2>1
<1>6. s = n
  BY <1>4, <1>5, SeqEqual
<1> QED
  BY <1>6 DEF s, p, key

\* What a new iterator is to return is what it looks for.
LEMMA WantedMatching ==
    ASSUME Records, Plain, NEW d \in Dirs
    PROVE  {<<e[2], entry[e]>> : e \in {f \in DOMAIN entry : f[1] = d}}
             = Listing(Prefix(d), meta, Matching(Prefix(d), meta))
<1> DEFINE p == Prefix(d)
           name(k) == SubSeq(k, Len(p) + 1, Len(k))
           here == {f \in DOMAIN entry : f[1] = d}
<1>1. ASSUME NEW e \in here
      PROVE  /\ EntryKey(d, e[2]) \in Matching(p, meta)
             /\ name(EntryKey(d, e[2])) = e[2] /\ meta[EntryKey(d, e[2])].ino = entry[e]
  <2>1. e \in DOMAIN entry /\ e[1] = d
    OBVIOUS
  <2>2. d \in Nat /\ e[2] \in Seq(Nat)
    BY <2>1, EntryPair
  <2>3. EntryKey(d, e[2]) \in DOMAIN meta /\ meta[EntryKey(d, e[2])] = Value(entry[e], "entry")
    BY <2>1, Zenon DEF Records, Has
  <2>4. IsPrefix(p, EntryKey(d, e[2])) /\ name(EntryKey(d, e[2])) = e[2]
    BY <2>2, EntryKeyHasPrefix, NameFollows, Zenon
  <2> QED
    BY <2>3, <2>4 DEF Matching, Value
<1>2. ASSUME NEW k \in Matching(p, meta)
      PROVE  \E e \in here : <<name(k), meta[k].ino>> = <<e[2], entry[e]>>
  <2>1. PICK e \in DOMAIN entry : e[1] = d /\ k = EntryKey(d, e[2])
    BY MatchingEntries, Zenon
  <2>2. e \in here
    BY <2>1
  <2> HIDE DEF name, here
  <2>3. name(k) = e[2] /\ meta[k].ino = entry[e]
    BY <1>1, <2>1, <2>2
  <2> QED
    BY <2>2, <2>3
<1>3. ASSUME NEW e \in here
      PROVE  \E k \in Matching(p, meta) : <<e[2], entry[e]>> = <<name(k), meta[k].ino>>
  BY <1>1
<1> HIDE DEF name, here, p
<1>4. {<<e[2], entry[e]>> : e \in here} = {<<name(k), meta[k].ino>> : k \in Matching(p, meta)}
  BY <1>2, <1>3
<1> QED
  BY <1>4, Zenon DEF Listing, name, here, p

\* Nothing a scan looks for is before the place where it starts.
LEMMA SeekFirst ==
    ASSUME NEW p \in Seq(Nat), NEW m, KeysTyped(m), NEW k \in Matching(p, m)
    PROVE  /\ Seek(m, p) \in DOMAIN m /\ IsPrefix(p, Seek(m, p))
           /\ ~Before(k, Seek(m, p))
<1> DEFINE from == {x \in DOMAIN m : x = p \/ Before(p, x)}
           at == Seek(m, p)
<1>1. k \in DOMAIN m /\ k \in Seq(Nat) /\ IsPrefix(p, k)
  BY DEF Matching, KeysTyped
<1>2. k \in from
  BY <1>1 DEF Before, IsStrictPrefix
<1>3. IsFiniteSet(from) /\ from \subseteq Seq(Nat) /\ from # {}
  BY <1>2, FS_Subset DEF KeysTyped
<1>4. at = First(from)
  BY DEF Seek
<1> HIDE DEF at, from
<1>5. at \in from /\ (k = at \/ Before(at, k))
  BY <1>2, <1>3, <1>4, FirstExists DEF IsFirst
<1>6. at \in DOMAIN m /\ at \in Seq(Nat) /\ (p = at \/ Before(p, at))
  BY <1>5 DEF from, KeysTyped
<1>7. ~Before(k, at)
  BY <1>1, <1>5, <1>6, BeforeIrreflexive, BeforeTransitive
<1>8. IsPrefix(p, at)
  <2>1. CASE k = at
    BY <1>1, <2>1
  <2>2. CASE Before(at, k)
    BY <1>1, <1>6, <2>2, BeforeConvex
  <2> QED
    BY <1>5, <2>1, <2>2
<1> QED
  BY <1>6, <1>7, <1>8 DEF at

\* Next goes over nothing that is looked for.
LEMMA NextFollows ==
    ASSUME NEW p \in Seq(Nat), NEW m, KeysTyped(m), NEW at \in Matching(p, m),
           NEW k \in Matching(p, m), NEW next,
           next = First({x \in DOMAIN m : Before(at, x)})
    PROVE  /\ next = End \/ next \in DOMAIN m
           /\ Before(k, at) \/ k = at <=> (next # End /\ IsPrefix(p, next) => Before(k, next))
<1> DEFINE after == {x \in DOMAIN m : Before(at, x)}
<1>1. /\ k \in DOMAIN m /\ k \in Seq(Nat) /\ IsPrefix(p, k)
      /\ at \in DOMAIN m /\ at \in Seq(Nat) /\ IsPrefix(p, at)
  BY DEF Matching, KeysTyped
<1>2. IsFiniteSet(after) /\ after \subseteq Seq(Nat)
  BY FS_Subset DEF KeysTyped
<1>3. k \in after <=> Before(at, k)
  BY <1>1
<1>4. \A x \in after : x \in DOMAIN m /\ x \in Seq(Nat) /\ x # End /\ Before(at, x)
  BY DEF KeysTyped, End
<1>5. next = First(after)
  OBVIOUS
<1> HIDE DEF after
<1>6. CASE after = {}
  <2>1. next = End
    BY <1>5, <1>6 DEF First
  <2>2. Before(k, at) \/ k = at
    BY <1>1, <1>3, <1>6, BeforeTotal
  <2> QED
    BY <2>1, <2>2
<1>7. CASE after # {}
  <2>1. next \in after /\ \A x \in after : x = next \/ Before(next, x)
    BY <1>2, <1>5, <1>7, FirstExists, Zenon DEF IsFirst
  <2>2. next \in DOMAIN m /\ next \in Seq(Nat) /\ next # End /\ Before(at, next)
    BY <1>4, <2>1
  <2>3. ASSUME Before(k, at) \/ k = at PROVE Before(k, next)
    BY <1>1, <2>2, <2>3, BeforeTransitive
  <2>4. ASSUME ~(Before(k, at) \/ k = at) PROVE IsPrefix(p, next) /\ ~Before(k, next)
    <3>1. Before(at, k)
      BY <1>1, <2>4, BeforeTotal
    <3>2. k = next \/ Before(next, k)
      BY <1>3, <2>1, <3>1
    <3>3. ~Before(k, next)
      BY <1>1, <2>2, <3>2, BeforeIrreflexive, BeforeTransitive
    <3>4. p = at \/ Before(p, at)
      BY <1>1 DEF Before, IsStrictPrefix
    <3>5. Before(p, next)
      BY <1>1, <2>2, <3>4, BeforeTransitive
    <3>6. IsPrefix(p, next)
      BY <1>1, <2>2, <3>2, <3>5, BeforeConvex
    <3> QED
      BY <3>3, <3>6
  <2> QED
    BY <2>2, <2>3, <2>4
<1> QED
  BY <1>6, <1>7

\* A new iterator has returned nothing, and nothing is behind it.
LEMMA ScanBegins ==
    ASSUME Records, Plain, NEW d \in Directory, vn_begin_iterate_dir(d)
    PROVE  Scan'
<1> DEFINE p == Prefix(d)
           all == Matching(p, meta)
           passed == {k \in all : Seek(meta, p) # End /\ IsPrefix(p, Seek(meta, p))
                                    => Before(k, Seek(meta, p))}
<1>1. d \in Dirs /\ p \in Seq(Nat) /\ KeysTyped(meta)
  BY DirsNat, PrefixBytes, RecordsTyped, Zenon DEF Directory, Dirs
<1>2. /\ it' = [on |-> TRUE, prefix |-> p, snapshot |-> meta, at |-> Seek(meta, p),
                wanted |-> {<<e[2], entry[e]>> : e \in {f \in DOMAIN entry : f[1] = d}}]
      /\ listed' = {}
  BY DEF vn_begin_iterate_dir
<1>3. it'.wanted = Listing(p, meta, all)
  BY <1>1, <1>2, WantedMatching
<1>4. Seek(meta, p) = End \/ Seek(meta, p) \in DOMAIN meta
  <2> DEFINE from == {x \in DOMAIN meta : x = p \/ Before(p, x)}
  <2>1. IsFiniteSet(from) /\ from \subseteq Seq(Nat) /\ from \subseteq DOMAIN meta
    BY <1>1, FS_Subset DEF KeysTyped
  <2>2. Seek(meta, p) = First(from)
    BY DEF Seek
  <2> HIDE DEF from, p
  <2>3. CASE from = {}
    BY <2>2, <2>3 DEF First
  <2>4. CASE from # {}
    BY <2>1, <2>2, <2>4, FirstExists DEF IsFirst
  <2> QED
    BY <2>3, <2>4
<1>5. passed = {}
  <2> SUFFICES ASSUME NEW k \in passed PROVE FALSE
    OBVIOUS
  <2>1. k \in all /\ (Seek(meta, p) # End /\ IsPrefix(p, Seek(meta, p)) => Before(k, Seek(meta, p)))
    OBVIOUS
  <2> HIDE DEF p, passed
  <2>2. /\ Seek(meta, p) \in DOMAIN meta /\ IsPrefix(p, Seek(meta, p))
        /\ ~Before(k, Seek(meta, p))
    BY <1>1, <2>1, SeekFirst
  <2> QED
    BY <1>1, <2>1, <2>2 DEF KeysTyped, End
<1>6. listed' = Listing(p, meta, passed)
  BY <1>2, <1>5 DEF Listing
<1>7. it'.on = TRUE /\ it'.prefix = p /\ it'.snapshot = meta /\ it'.at = Seek(meta, p)
        /\ it' = [on |-> TRUE, prefix |-> it'.prefix, snapshot |-> it'.snapshot,
                  at |-> it'.at, wanted |-> it'.wanted]
  BY <1>2
<1> HIDE DEF p
<1> QED
  BY <1>1, <1>3, <1>4, <1>6, <1>7, Zenon DEF Scan, vn_iterator_has_next

\* A step of the iterator returns the key where it was.
LEMMA ScanContinues ==
    ASSUME Scan, vn_next_inode
    PROVE  Scan'
<1> DEFINE p == it.prefix
           m == it.snapshot
           at == it.at
           all == Matching(p, m)
           next == First({k \in DOMAIN m : Before(at, k)})
           old == {k \in all : Before(k, at)}
           new == {k \in all : next # End /\ IsPrefix(p, next) => Before(k, next)}
<1>1. it.on /\ vn_iterator_has_next
  BY DEF vn_next_inode
<1>2. /\ it = [on |-> TRUE, prefix |-> p, snapshot |-> m, at |-> at, wanted |-> it.wanted]
      /\ p \in Seq(Nat) /\ KeysTyped(m) /\ at \in all
      /\ it.wanted = Listing(p, m, all)
      /\ listed = Listing(p, m, old)
  <2>1. at \in all
    BY <1>1 DEF Scan, vn_iterator_has_next, Matching
  <2>2. old = {k \in all : vn_iterator_has_next => Before(k, at)}
    BY <1>1
  <2> QED
    BY <1>1, <2>1, <2>2, Zenon DEF Scan
<1>3. /\ it' = [on |-> TRUE, prefix |-> p, snapshot |-> m, at |-> next, wanted |-> it.wanted]
      /\ listed' = listed \cup {<<SubSeq(at, Len(p) + 1, Len(at)), m[at].ino>>}
  BY <1>2, Zenon DEF vn_next_inode
<1> HIDE DEF p, m, at, next, all
<1>4. next = End \/ next \in DOMAIN m
  BY <1>2, NextFollows DEF all, next
<1>5. ASSUME NEW k \in all
      PROVE  Before(k, at) \/ k = at <=> (next # End /\ IsPrefix(p, next) => Before(k, next))
  BY <1>2, NextFollows DEF all, next
<1>6. new = old \cup {at}
  BY <1>2, <1>5
<1>7. listed' = Listing(p, m, new)
  BY <1>2, <1>3, <1>6 DEF Listing
<1>8. it'.on = TRUE /\ it'.prefix = p /\ it'.snapshot = m /\ it'.at = next
        /\ it'.wanted = Listing(p, m, all)
        /\ it' = [on |-> TRUE, prefix |-> it'.prefix, snapshot |-> it'.snapshot,
                  at |-> it'.at, wanted |-> it'.wanted]
  BY <1>2, <1>3
<1> QED
  BY <1>2, <1>4, <1>7, <1>8, Zenon DEF Scan, vn_iterator_has_next, all

\* "prefix search '102_'" lists directory 102, for any names and inode numbers
\* such that no number's bytes begin with a directory's number and '_', and for
\* any creates and unlinks during the scan.
THEOREM ListingsExact ==
    ASSUME Plain
    PROVE  Spec => []ListingExact
<1>1. Init => Records /\ Scan
  <2>1. Init => ~it.on
    BY DEF Init, NoIterator
  <2> QED
    BY <2>1, RecordsInit DEF Scan
<1>2. Records /\ Scan /\ [Next]_vars => (Records /\ Scan)'
  <2> SUFFICES ASSUME Records, Scan, [Next]_vars PROVE Records' /\ Scan'
    OBVIOUS
  <2>1. ASSUME UNCHANGED <<it, listed>> PROVE Scan'
    BY <2>1 DEF Scan, vn_iterator_has_next
  <2>2. \A d, n, ino : vn_create_file(d, n, ino) => UNCHANGED <<it, listed>>
    BY DEF vn_create_file
  <2>3. \A d, n : vn_unlink(d, n) => UNCHANGED <<it, listed>>
    BY DEF vn_unlink
  <2>4. UNCHANGED vars => UNCHANGED <<it, listed>>
    BY DEF vars
  <2>5. ASSUME vn_release_iterator PROVE Scan'
    BY <2>5 DEF vn_release_iterator, Scan, NoIterator
  <2>6. Scan'
    BY <2>1, <2>2, <2>3, <2>4, <2>5, ScanBegins, ScanContinues, Zenon DEF Next
  <2> QED
    BY <2>6, RecordsNext
<1>3. ASSUME Scan PROVE ListingExact
  <2> SUFFICES ASSUME it.on, ~vn_iterator_has_next PROVE listed = it.wanted
    BY DEF ListingExact
  <2> DEFINE all == Matching(it.prefix, it.snapshot)
  <2>1. {k \in all : vn_iterator_has_next => Before(k, it.at)} = all
    OBVIOUS
  <2> QED
    BY <1>3, <2>1, Zenon DEF Scan
<1> QED
  BY <1>1, <1>2, <1>3, PTL DEF Spec
=============================================================================
