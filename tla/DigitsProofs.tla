---------------------------- MODULE DigitsProofs ----------------------------
(***************************************************************************)
(* What the recursive definitions of Digits compute, for every base and    *)
(* every length.  Inductions are arguments about the least counterexample, *)
(* which need no more than sets.                                           *)
(***************************************************************************)
EXTENDS Digits, TLAPS, WellFoundedInduction

\* A nonempty set of naturals has a least element.
LEMMA LeastNatural ==
  ASSUME NEW T \in SUBSET Nat, T # {}
  PROVE  \E x \in T : \A y \in T : x <= y
  <1>1. PICK x \in T : \A y \in T : ~(<<y, x>> \in OpToRel(<, Nat))
    BY NatLessThanWellFounded, WFMin
  <1>2. \A y \in T : ~(y < x)
    BY <1>1 DEF OpToRel
  <1> QED
    BY <1>2

\* A nonempty set of naturals below a bound has a greatest element.
LEMMA GreatestNatural ==
  ASSUME NEW n \in Nat, NEW T \in SUBSET (1 .. n), T # {}
  PROVE  \E x \in T : \A y \in T : y <= x
  <1> DEFINE U == {n - x : x \in T}
  <1>0. \A x \in T : x \in 1 .. n /\ n - x \in Nat
    OBVIOUS
  <1>1. U \in SUBSET Nat /\ U # {}
    BY <1>0
  <1>2. PICK u \in U : \A y \in U : u <= y
    BY <1>1, LeastNatural
  <1>3. PICK x \in T : u = n - x
    OBVIOUS
  <1>4. \A y \in T : u <= n - y
    BY <1>2
  <1> QED
    BY <1>3, <1>4

\* A set of naturals that has zero and the successors of its members has them all.
LEMMA Induction ==
  ASSUME NEW P \in SUBSET Nat, 0 \in P, \A i \in P : i + 1 \in P
  PROVE  P = Nat
  <1> SUFFICES ASSUME Nat \ P # {} PROVE FALSE
    OBVIOUS
  <1>1. PICK x \in Nat \ P : \A y \in Nat \ P : x <= y
    BY LeastNatural
  <1>2. x - 1 \in Nat /\ x - 1 \in P
    BY <1>1
  <1> QED
    BY <1>1, <1>2

\* The same up to a bound.
LEMMA InductionTo ==
  ASSUME NEW n \in Nat, NEW P \in SUBSET (0 .. n), 0 \in P,
         \A i \in P : i < n => i + 1 \in P
  PROVE  P = 0 .. n
  <1> DEFINE Q == {i \in Nat : i <= n => i \in P}
  <1>1. 0 \in Q
    OBVIOUS
  <1>2. ASSUME NEW i \in Q PROVE i + 1 \in Q
    OBVIOUS
  <1>3. Q = Nat
    <2>1. Q \in SUBSET Nat
      OBVIOUS
    <2> HIDE DEF Q
    <2> QED
      BY <1>1, <1>2, <2>1, Induction
  <1>4. \A i \in 0 .. n : i \in P
    BY <1>3
  <1> QED
    BY <1>4

-----------------------------------------------------------------------------
\* The first values of a recursion: g[0] = a and g[i + 1] = step[i, g[i]].
Begins(S, a, step, n, g) ==
  /\ g \in [0 .. n -> S] /\ g[0] = a
  /\ \A i \in 0 .. n - 1 : g[i + 1] = step[<<i, g[i]>>]

Solves(S, a, step, f) ==
  /\ f \in [Nat -> S] /\ f[0] = a
  /\ \A n \in Nat : f[n + 1] = step[<<n, f[n]>>]

\* Every recursion over the naturals has a solution.
LEMMA Recursion ==
  ASSUME NEW S, NEW a \in S, NEW step \in [Nat \X S -> S]
  PROVE  \E f : Solves(S, a, step, f)
  <1> DEFINE B(n, g) == Begins(S, a, step, n, g)
  <1>1. {n \in Nat : \E g : B(n, g)} = Nat
    <2> DEFINE P == {n \in Nat : \E g : B(n, g)}
    <2>1. 0 \in P
      <3>1. B(0, [i \in 0 .. 0 |-> a])
        BY DEF Begins
      <3> QED
        BY <3>1
    <2>2. ASSUME NEW n \in P PROVE n + 1 \in P
      <3>1. PICK g : B(n, g)
        OBVIOUS
      <3> DEFINE h == [i \in 0 .. n + 1 |-> IF i <= n THEN g[i] ELSE step[<<n, g[n]>>]]
      <3>2. /\ g \in [0 .. n -> S] /\ g[0] = a
            /\ \A i \in 0 .. n - 1 : g[i + 1] = step[<<i, g[i]>>]
        BY <3>1 DEF Begins
      <3>3. h \in [0 .. n + 1 -> S] /\ h[0] = a
        BY <3>2
      <3>4. ASSUME NEW i \in 0 .. n PROVE h[i + 1] = step[<<i, h[i]>>]
        <4>1. CASE i < n
          BY <3>2, <4>1
        <4>2. CASE i = n
          BY <3>2, <4>2
        <4> QED
          BY <4>1, <4>2
      <3> HIDE DEF h
      <3>5. B(n + 1, h)
        BY <3>3, <3>4 DEF Begins
      <3> QED
        BY <3>5
    <2>3. P \in SUBSET Nat
      OBVIOUS
    <2> HIDE DEF P
    <2>4. P = Nat
      BY <2>1, <2>2, <2>3, Induction
    <2> QED
      BY <2>4 DEF P
  <1>2. ASSUME NEW n \in Nat, NEW m \in Nat, NEW g, NEW h, B(n, g), B(m, h), n <= m
        PROVE  g[n] = h[n]
    <2> DEFINE P == {i \in 0 .. n : g[i] = h[i]}
    <2>1. 0 \in P
      BY <1>2 DEF Begins
    <2>2. ASSUME NEW i \in P, i < n PROVE i + 1 \in P
      <3>1. g[i + 1] = step[<<i, g[i]>>] /\ h[i + 1] = step[<<i, h[i]>>] /\ g[i] = h[i]
        BY <1>2, <2>2 DEF Begins
      <3> QED
        BY <3>1, <2>2
    <2>3. P \in SUBSET (0 .. n)
      OBVIOUS
    <2> HIDE DEF P
    <2>4. P = 0 .. n
      BY <2>1, <2>2, <2>3, InductionTo
    <2> QED
      BY <2>4 DEF P
  <1> DEFINE G(n) == CHOOSE g : B(n, g)
             f == [n \in Nat |-> G(n)[n]]
  <1>3. \A n \in Nat : B(n, G(n))
    BY <1>1
  <1> HIDE DEF G
  <1>4. ASSUME NEW n \in Nat PROVE f[n] \in S
    BY <1>3 DEF Begins
  <1>5. f[0] = a
    BY <1>3 DEF Begins
  <1>6. ASSUME NEW n \in Nat PROVE f[n + 1] = step[<<n, f[n]>>]
    <2>1. n + 1 \in Nat /\ B(n + 1, G(n + 1)) /\ B(n, G(n))
      BY <1>3
    <2>2. G(n + 1)[n + 1] = step[<<n, G(n + 1)[n]>>]
      BY <2>1 DEF Begins
    <2>3. G(n)[n] = G(n + 1)[n]
      BY <1>2, <2>1
    <2> QED
      BY <2>1, <2>2, <2>3
  <1>7. f \in [Nat -> S]
    BY <1>4
  <1> HIDE DEF f
  <1> QED
    BY <1>5, <1>6, <1>7 DEF Solves

-----------------------------------------------------------------------------
\* Power satisfies its equations.
LEMMA PowerRules ==
  ASSUME NEW base \in Nat, NEW n \in Nat
  PROVE  /\ Power(base, 0) = 1
         /\ Power(base, n) \in Nat
         /\ Power(base, n + 1) = Power(base, n) * base
  <1> DEFINE step == [x \in Nat \X Nat |-> x[2] * base]
             Eq(p) == p = [i \in Nat |-> IF i = 0 THEN 1 ELSE p[i - 1] * base]
             power == CHOOSE p : Eq(p)
  <1>1. PICK f : Solves(Nat, 1, step, f)
    <2>1. step \in [Nat \X Nat -> Nat] /\ 1 \in Nat
      OBVIOUS
    <2> HIDE DEF step
    <2> QED
      BY <2>1, Recursion
  <1>a. f \in [Nat -> Nat] /\ f[0] = 1 /\ \A i \in Nat : f[i + 1] = step[<<i, f[i]>>]
    BY <1>1 DEF Solves
  <1>2. \A i \in Nat : f[i] = IF i = 0 THEN 1 ELSE f[i - 1] * base
    <2> SUFFICES ASSUME NEW i \in Nat, i # 0 PROVE f[i] = f[i - 1] * base
      BY <1>a
    <2>1. i - 1 \in Nat /\ (i - 1) + 1 = i
      OBVIOUS
    <2>2. f[i] = step[<<i - 1, f[i - 1]>>]
      BY <1>a, <2>1
    <2> QED
      BY <1>a, <2>1, <2>2
  <1>3. Eq(f)
    BY <1>a, <1>2
  <1>4. Eq(power)
    BY <1>3
  <1>5. \A i \in Nat : Power(base, i) = power[i]
    BY Zenon DEF Power
  <1> HIDE DEF power
  <1>6. \A i \in Nat : power[i] = IF i = 0 THEN 1 ELSE power[i - 1] * base
    <2>1. power = [i \in Nat |-> IF i = 0 THEN 1 ELSE power[i - 1] * base]
      BY <1>4
    <2> HIDE DEF Eq
    <2> QED
      BY <2>1
  <1>7. power[0] = 1 /\ \A i \in Nat : power[i + 1] = power[i] * base
    BY <1>6
  <1>8. power[n] \in Nat
    <2> DEFINE P == {i \in Nat : power[i] \in Nat}
    <2>1. 0 \in P /\ \A i \in P : i + 1 \in P
      BY <1>7
    <2>2. P \in SUBSET Nat
      OBVIOUS
    <2> HIDE DEF P
    <2>3. P = Nat
      BY <2>1, <2>2, Induction
    <2> QED
      BY <2>3 DEF P
  <1> QED
    BY <1>5, <1>7, <1>8

\* v[i] is the value of the first i digits.
PrefixValues(bs, base, v) ==
  /\ v \in [0 .. Len(bs) -> Nat] /\ v[0] = 0
  /\ \A i \in 1 .. Len(bs) : v[i] = v[i - 1] * base + bs[i]

\* Number is the value of all digits.
LEMMA NumberOf ==
  ASSUME NEW base \in Nat, NEW bs \in Seq(Nat), NEW v, PrefixValues(bs, base, v)
  PROVE  Number(bs, base) = v[Len(bs)]
  <1> DEFINE Eq(f) == f = [i \in 0 .. Len(bs) |-> IF i = 0 THEN 0 ELSE f[i - 1] * base + bs[i]]
             number == CHOOSE f : Eq(f)
  <1>0. Len(bs) \in Nat
    OBVIOUS
  <1>1. \A i \in 0 .. Len(bs) : v[i] = IF i = 0 THEN 0 ELSE v[i - 1] * base + bs[i]
    BY <1>0 DEF PrefixValues
  <1>2. Eq(v)
    BY <1>1 DEF PrefixValues
  <1>3. Eq(number)
    BY <1>2
  <1>4. Number(bs, base) = number[Len(bs)]
    BY Zenon DEF Number
  <1> HIDE DEF number
  <1>5. \A i \in 0 .. Len(bs) : number[i] = IF i = 0 THEN 0 ELSE number[i - 1] * base + bs[i]
    <2>1. number = [i \in 0 .. Len(bs) |-> IF i = 0 THEN 0 ELSE number[i - 1] * base + bs[i]]
      BY <1>3
    <2> HIDE DEF Eq
    <2> QED
      BY <2>1
  <1> DEFINE P == {i \in 0 .. Len(bs) : number[i] = v[i]}
  <1>6. 0 \in P
    BY <1>0, <1>1, <1>5
  <1>7. ASSUME NEW i \in P, i < Len(bs) PROVE i + 1 \in P
    BY <1>0, <1>1, <1>5, <1>7
  <1>8. P \in SUBSET (0 .. Len(bs))
    OBVIOUS
  <1> HIDE DEF P
  <1>9. P = 0 .. Len(bs)
    BY <1>0, <1>6, <1>7, <1>8, InductionTo
  <1> QED
    BY <1>0, <1>4, <1>9 DEF P

\* Every byte string has values.
LEMMA ValuesExist ==
  ASSUME NEW base \in Nat, NEW bs \in Seq(Nat)
  PROVE  \E v : PrefixValues(bs, base, v)
  <1> DEFINE digit(i) == IF i \in 1 .. Len(bs) THEN bs[i] ELSE 0
             step == [x \in Nat \X Nat |-> x[2] * base + digit(x[1] + 1)]
  <1>1. \A i \in Nat : digit(i) \in Nat
    OBVIOUS
  <1> HIDE DEF digit
  <1>2. PICK f : Solves(Nat, 0, step, f)
    <2>1. step \in [Nat \X Nat -> Nat] /\ 0 \in Nat
      <3>1. ASSUME NEW x \in Nat \X Nat PROVE x[2] * base + digit(x[1] + 1) \in Nat
        <4>1. x[1] + 1 \in Nat /\ x[2] * base \in Nat
          OBVIOUS
        <4>2. digit(x[1] + 1) \in Nat
          BY <1>1, <4>1
        <4> QED
          BY <4>1, <4>2
      <3> QED
        BY <3>1
    <2> HIDE DEF step
    <2> QED
      BY <2>1, Recursion
  <1>a. f \in [Nat -> Nat] /\ f[0] = 0 /\ \A i \in Nat : f[i + 1] = step[<<i, f[i]>>]
    BY <1>2 DEF Solves
  <1>3. ASSUME NEW i \in 1 .. Len(bs) PROVE f[i] = f[i - 1] * base + bs[i]
    <2>1. i - 1 \in Nat /\ (i - 1) + 1 = i /\ digit(i) = bs[i]
      BY DEF digit
    <2>2. f[i] = step[<<i - 1, f[i - 1]>>]
      BY <1>a, <2>1
    <2> QED
      BY <1>a, <2>1, <2>2
  <1> DEFINE v == [i \in 0 .. Len(bs) |-> f[i]]
  <1>4. PrefixValues(bs, base, v)
    BY <1>a, <1>3 DEF PrefixValues
  <1> QED
    BY <1>4

-----------------------------------------------------------------------------
\* A multiple and a rest smaller than the divisor are quotient and remainder.
LEMMA QuotientAndRest ==
  ASSUME NEW d \in Nat \ {0}, NEW n \in Nat, NEW j \in 0 .. d - 1
  PROVE  (n * d + j) \div d = n /\ (n * d + j) % d = j
  OBVIOUS

\* One digit more keeps the rest below the power.
LEMMA RestGrows ==
  ASSUME NEW b \in Nat, NEW p \in Nat, NEW r \in 0 .. p - 1, NEW d \in 0 .. b - 1
  PROVE  r * b + d \in 0 .. p * b - 1
  <1>1. p * b = r * b + (p - r) * b /\ r * b \in Nat
    OBVIOUS
  <1>2. (p - r) * b >= b
    <2>1. \A x, y \in Nat : x >= 1 => x * y >= y
      OBVIOUS
    <2> QED
      BY <2>1
  <1>3. p * b \in Nat /\ (p - r) * b \in Int
    OBVIOUS
  <1> QED
    BY <1>1, <1>2, <1>3

\* Dividing twice is dividing by the product.
LEMMA DivideTwice ==
  ASSUME NEW n \in Nat, NEW p \in Nat \ {0}, NEW b \in Nat \ {0}
  PROVE  (n \div p) \div b = n \div (p * b)
  <1>1. PICK q \in Nat, r \in 0 .. p - 1 : n = q * p + r /\ n \div p = q
    <2>1. n \div p \in Nat /\ n % p \in 0 .. p - 1 /\ n = (n \div p) * p + (n % p)
      OBVIOUS
    <2> QED
      BY <2>1
  <1>2. PICK s \in Nat, t \in 0 .. b - 1 : q = s * b + t /\ q \div b = s
    <2>1. q \div b \in Nat /\ q % b \in 0 .. b - 1 /\ q = (q \div b) * b + (q % b)
      OBVIOUS
    <2> QED
      BY <2>1
  <1>3. t * p + r \in 0 .. b * p - 1
    BY <1>1, <1>2, RestGrows
  <1>4. n = s * (p * b) + (t * p + r)
    BY <1>1, <1>2
  <1>5. p * b \in Nat \ {0} /\ p * b = b * p
    OBVIOUS
  <1>6. (s * (p * b) + (t * p + r)) \div (p * b) = s
    <2> DEFINE d == p * b
               j == t * p + r
    <2>1. d \in Nat \ {0} /\ j \in 0 .. d - 1
      BY <1>3, <1>5
    <2> HIDE DEF d, j
    <2>2. (s * d + j) \div d = s
      BY <2>1, QuotientAndRest
    <2> QED
      BY <2>2 DEF d, j
  <1> QED
    BY <1>1, <1>2, <1>4, <1>6

\* A power of a positive base is positive.
LEMMA PowerPositive ==
  ASSUME NEW base \in Nat \ {0}, NEW n \in Nat
  PROVE  Power(base, n) \in Nat \ {0}
  <1> DEFINE P == {i \in Nat : Power(base, i) \in Nat \ {0}}
  <1>1. 0 \in P
    BY PowerRules
  <1>2. ASSUME NEW i \in P PROVE i + 1 \in P
    <2>1. Power(base, i + 1) = Power(base, i) * base
      BY PowerRules
    <2>2. \A x, y \in Nat \ {0} : x * y \in Nat \ {0}
      OBVIOUS
    <2> QED
      BY <2>1, <2>2
  <1>3. P \in SUBSET Nat
    OBVIOUS
  <1> HIDE DEF P
  <1>4. P = Nat
    BY <1>1, <1>2, <1>3, Induction
  <1> QED
    BY <1>4 DEF P

\* The first digits of a number are its quotient by a power of the base.
LEMMA NumberOfPrefix ==
  ASSUME NEW base \in Nat \ {0}, NEW bs \in Seq(0 .. base - 1), NEW n \in 0 .. Len(bs)
  PROVE  Number(SubSeq(bs, 1, n), base) = Number(bs, base) \div Power(base, Len(bs) - n)
  <1>0. bs \in Seq(Nat) /\ Len(bs) \in Nat /\ \A i \in 1 .. Len(bs) : bs[i] \in 0 .. base - 1
    OBVIOUS
  <1>1. PICK v : PrefixValues(bs, base, v)
    BY <1>0, ValuesExist
  <1>2. /\ v \in [0 .. Len(bs) -> Nat] /\ v[0] = 0
        /\ \A i \in 1 .. Len(bs) : v[i] = v[i - 1] * base + bs[i]
    BY <1>1 DEF PrefixValues
  <1>3. Number(bs, base) = v[Len(bs)]
    BY <1>0, <1>1, NumberOf
  <1>4. Number(SubSeq(bs, 1, n), base) = v[n]
    <2> DEFINE a == SubSeq(bs, 1, n)
               u == [i \in 0 .. n |-> v[i]]
    <2>1. a \in Seq(Nat) /\ Len(a) = n /\ \A i \in 1 .. n : a[i] = bs[i]
      BY <1>0
    <2> HIDE DEF a
    <2>2. u \in [0 .. n -> Nat] /\ u[0] = 0
      <3>1. 0 .. n \subseteq 0 .. Len(bs) /\ 0 \in 0 .. n
        BY <1>0
      <3> QED
        BY <1>2, <3>1
    <2>3. ASSUME NEW i \in 1 .. n PROVE u[i] = u[i - 1] * base + a[i]
      <3>1. u[i] = v[i] /\ u[i - 1] = v[i - 1] /\ i \in 1 .. Len(bs)
        BY <1>0
      <3> QED
        BY <1>2, <2>1, <3>1
    <2> HIDE DEF u
    <2>4. PrefixValues(a, base, u)
      BY <2>1, <2>2, <2>3 DEF PrefixValues
    <2>5. Number(a, base) = u[Len(a)]
      BY <2>1, <2>4, NumberOf
    <2> QED
      BY <2>1, <2>5 DEF a, u
  <1> DEFINE P == {k \in 0 .. Len(bs) - n :
                     \E r \in 0 .. Power(base, k) - 1 : v[n + k] = v[n] * Power(base, k) + r}
  <1>5. 0 \in P
    <2>1. Power(base, 0) = 1 /\ v[n] \in Nat
      BY <1>0, <1>2, PowerRules
    <2> QED
      BY <1>0, <2>1
  <1>6. ASSUME NEW k \in P, k < Len(bs) - n PROVE k + 1 \in P
    <2>1. PICK r \in 0 .. Power(base, k) - 1 : v[n + k] = v[n] * Power(base, k) + r
      OBVIOUS
    <2>2. Power(base, k + 1) = Power(base, k) * base /\ Power(base, k) \in Nat
      BY PowerRules
    <2> DEFINE d == bs[n + k + 1]
    <2>3. d \in 0 .. base - 1 /\ v[n + (k + 1)] = v[n + k] * base + d
      BY <1>0, <1>2, <1>6
    <2> HIDE DEF d
    <2>4. r * base + d \in 0 .. Power(base, k + 1) - 1
      BY <2>2, <2>3, RestGrows
    <2>5. \A x, y, z, b \in Nat : (x * y + z) * b = x * (y * b) + z * b
      OBVIOUS
    <2>6. v[n] \in Nat /\ r \in Nat
      <3>1. v[n] \in Nat
        BY <1>0, <1>2
      <3> QED
        BY <2>2, <3>1
    <2>7. v[n + (k + 1)] = (v[n] * (Power(base, k) * base) + r * base) + d
      BY <2>1, <2>2, <2>3, <2>5, <2>6
    <2>8. \A x, y, z \in Nat : (x + y) + z = x + (y + z)
      OBVIOUS
    <2>9. v[n + (k + 1)] = v[n] * Power(base, k + 1) + (r * base + d)
      BY <2>2, <2>3, <2>6, <2>7, <2>8
    <2> QED
      BY <1>0, <1>6, <2>4, <2>9
  <1>7. P \in SUBSET (0 .. Len(bs) - n) /\ Len(bs) - n \in Nat
    BY <1>0
  <1> HIDE DEF P
  <1>8. P = 0 .. Len(bs) - n
    BY <1>5, <1>6, <1>7, InductionTo
  <1>9. PICK r \in 0 .. Power(base, Len(bs) - n) - 1 :
            v[n + (Len(bs) - n)] = v[n] * Power(base, Len(bs) - n) + r
    <2>1. Len(bs) - n \in P
      BY <1>7, <1>8
    <2> QED
      BY <2>1 DEF P
  <1>10. Power(base, Len(bs) - n) \in Nat \ {0} /\ v[n] \in Nat
    BY <1>0, <1>2, <1>7, PowerPositive
  <1>11. (v[n] * Power(base, Len(bs) - n) + r) \div Power(base, Len(bs) - n) = v[n]
    BY <1>9, <1>10, QuotientAndRest
  <1>12. n + (Len(bs) - n) = Len(bs)
    BY <1>0
  <1> QED
    BY <1>3, <1>4, <1>9, <1>11, <1>12

\* Zeros in front do not change a number.
LEMMA NumberOfZeros ==
  ASSUME NEW base \in Nat, NEW bs \in Seq(Nat), NEW m \in Nat
  PROVE  Number([k \in 1 .. m |-> 0] \o bs, base) = Number(bs, base)
  <1> DEFINE z == [k \in 1 .. m |-> 0]
             a == z \o bs
  <1>1. PICK v : PrefixValues(bs, base, v)
    BY ValuesExist
  <1>2. /\ v \in [0 .. Len(bs) -> Nat] /\ v[0] = 0
        /\ \A i \in 1 .. Len(bs) : v[i] = v[i - 1] * base + bs[i]
    BY <1>1 DEF PrefixValues
  <1>3. z \in Seq(Nat) /\ Len(z) = m /\ \A k \in 1 .. m : z[k] = 0
    OBVIOUS
  <1> HIDE DEF z
  <1>4. /\ a \in Seq(Nat) /\ Len(a) = m + Len(bs) /\ Len(bs) \in Nat
        /\ \A k \in 1 .. m + Len(bs) : a[k] = IF k <= m THEN 0 ELSE bs[k - m]
    BY <1>3
  <1> HIDE DEF a
  <1> DEFINE u == [i \in 0 .. m + Len(bs) |-> IF i <= m THEN 0 ELSE v[i - m]]
  <1>5. u \in [0 .. Len(a) -> Nat] /\ u[0] = 0
    BY <1>2, <1>4
  <1>6. ASSUME NEW i \in 1 .. Len(a) PROVE u[i] = u[i - 1] * base + a[i]
    <2>1. CASE i <= m
      BY <1>4, <2>1
    <2>2. CASE i = m + 1
      <3>1. 1 \in 1 .. Len(bs) /\ i - m = 1 /\ i - 1 = m
        BY <1>4, <2>2
      <3>2. u[i] = v[1] /\ u[i - 1] = 0 /\ a[i] = bs[1] /\ v[1] = v[0] * base + bs[1]
        BY <1>2, <1>4, <3>1
      <3> QED
        BY <1>2, <3>2
    <2>3. CASE i > m + 1
      <3>1. i - m \in 1 .. Len(bs) /\ (i - m) - 1 = (i - 1) - m /\ ~(i - 1 <= m) /\ ~(i <= m)
        BY <1>4, <2>3
      <3>2. u[i] = v[i - m] /\ u[i - 1] = v[(i - m) - 1] /\ a[i] = bs[i - m]
        BY <1>4, <3>1
      <3> QED
        BY <1>2, <3>1, <3>2
    <2> QED
      BY <1>4, <2>1, <2>2, <2>3
  <1> HIDE DEF u
  <1>7. PrefixValues(a, base, u)
    BY <1>5, <1>6 DEF PrefixValues
  <1>8. Number(a, base) = u[Len(a)]
    BY <1>4, <1>7, NumberOf
  <1>9. Number(bs, base) = v[Len(bs)]
    BY <1>1, NumberOf
  <1>10. u[Len(a)] = v[Len(bs)]
    BY <1>2, <1>4 DEF u
  <1> QED
    BY <1>8, <1>9, <1>10 DEF a, z

\* The digits of a number that fits give the number back.
LEMMA NumberOfDigits ==
  ASSUME NEW base \in Nat \ {0}, NEW w \in Nat, NEW n \in Nat, n < Power(base, w),
         NEW bs \in Seq(Nat), Len(bs) = w,
         \A i \in 1 .. w : bs[i] = (n \div Power(base, w - i)) % base
  PROVE  Number(bs, base) = n
  <1> DEFINE v == [i \in 0 .. w |-> n \div Power(base, w - i)]
  <1>1. \A i \in 0 .. w : w - i \in Nat /\ Power(base, w - i) \in Nat \ {0}
    <2>1. \A i \in 0 .. w : w - i \in Nat
      OBVIOUS
    <2> QED
      BY <2>1, PowerPositive
  <1>2. v \in [0 .. w -> Nat]
    <2>1. \A x \in Nat, y \in Nat \ {0} : x \div y \in Nat
      OBVIOUS
    <2> QED
      BY <1>1, <2>1
  <1>3. v[0] = 0
    <2>1. Power(base, w) \in Nat \ {0}
      BY PowerPositive
    <2>2. \A y \in Nat \ {0} : n < y => n \div y = 0
      OBVIOUS
    <2> QED
      BY <2>1, <2>2
  <1>4. ASSUME NEW i \in 1 .. w PROVE v[i] = v[i - 1] * base + bs[i]
    <2> DEFINE p == Power(base, w - i)
    <2>1. w - i \in Nat /\ p \in Nat \ {0} /\ w - (i - 1) = (w - i) + 1
      BY <1>1
    <2>2. Power(base, w - (i - 1)) = p * base
      BY <2>1, PowerRules
    <2> HIDE DEF p
    <2>3. (n \div p) \div base = n \div (p * base)
      BY <2>1, DivideTwice
    <2>4. \A x \in Nat, b \in Nat \ {0} : x = (x \div b) * b + (x % b)
      OBVIOUS
    <2>5. n \div p \in Nat
      BY <2>1
    <2>6. n \div p = (n \div (p * base)) * base + ((n \div p) % base)
      BY <2>3, <2>4, <2>5
    <2>7. v[i] = n \div p /\ v[i - 1] = n \div (p * base) /\ bs[i] = (n \div p) % base
      BY <2>2 DEF p
    <2> QED
      BY <2>6, <2>7
  <1>5. v[w] = n
    <2>1. Power(base, 0) = 1 /\ w - w = 0 /\ n \div 1 = n
      BY PowerRules
    <2> QED
      BY <2>1
  <1> HIDE DEF v
  <1>6. PrefixValues(bs, base, v)
    BY <1>2, <1>3, <1>4 DEF PrefixValues
  <1> QED
    BY <1>5, <1>6, NumberOf

=============================================================================
