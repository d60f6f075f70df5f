-------------------------- MODULE Fractions_proofs ---------------------------
(***************************************************************************)
(* The lemmas on the exact fractions and their sums that the proofs of the *)
(* engines rest on.  Induction is first-order: a set of naturals, or of    *)
(* subsets, that holds the first and is closed holds all.  With it the     *)
(* recursive Gcd satisfies its equation, every operation returns a         *)
(* fraction in lowest terms and obeys the laws of arithmetic, and the sum  *)
(* over a finite set does not depend on the order in which it is folded.   *)
(***************************************************************************)
EXTENDS Fractions, WellFoundedInduction, FiniteSetTheorems, TLAPS

\* Induction on the naturals, for the members of a set.
LEMMA NaturalsFrom ==
  ASSUME NEW G, 0 \in G, \A n \in Nat : n \in G => n + 1 \in G
  PROVE  Nat \subseteq G
<1> SUFFICES ASSUME NEW m \in Nat, m \notin G
             PROVE  FALSE
  OBVIOUS
<1> DEFINE R == OpToRel(<, Nat)
           B == {n \in Nat : n \notin G}
<1>1. PICK n \in B : \A k \in Nat : k < n => k \notin B
  <2>1. IsWellFoundedOn(R, Nat)
    BY NatLessThanWellFounded
  <2>2. B \subseteq Nat /\ B # {}
    BY Zenon
  <2>3. PICK n \in B : \A k \in Nat : <<k, n>> \in R => k \notin B
    <3> HIDE DEF B, R
    <3> QED BY <2>1, <2>2, WFMin, Zenon
  <2> QED BY <2>3 DEF OpToRel
<1>2. n \in Nat /\ n # 0 /\ n - 1 \in Nat
  BY <1>1
<1>3. n - 1 \in G
  BY <1>1, <1>2
<1>4. (n - 1) + 1 \in G
  BY <1>2, <1>3
<1>5. n \in G
  BY <1>2, <1>4
<1> QED BY <1>5, <1>1

\* The strong form: what holds of n when it holds of all that are less.
LEMMA NaturalsBelow ==
  ASSUME NEW G, \A n \in Nat : (\A k \in Nat : k < n => k \in G) => n \in G
  PROVE  Nat \subseteq G
<1> DEFINE H == {n \in Nat : \A k \in Nat : k < n => k \in G}
<1>1. 0 \in H
  OBVIOUS
<1>2. \A n \in Nat : n \in H => n + 1 \in H
  <2> SUFFICES ASSUME NEW n \in Nat, n \in H, NEW k \in Nat, k < n + 1
               PROVE  k \in G
    OBVIOUS
  <2>1. n \in G
    OBVIOUS
  <2>2. k < n \/ k = n
    OBVIOUS
  <2> QED BY <2>1, <2>2
<1>3. Nat \subseteq H
  <2> HIDE DEF H
  <2> QED BY <1>1, <1>2, NaturalsFrom
<1> QED BY <1>3

\* Induction on a finite set.
LEMMA FiniteFrom ==
  ASSUME NEW S, IsFiniteSet(S), NEW G,
         {} \in G, \A T \in SUBSET S, x \in S : T \in G /\ x \notin T => T \cup {x} \in G
  PROVE  S \in G
<1> DEFINE H == {n \in Nat : \A T \in SUBSET S : Cardinality(T) = n => T \in G}
<1>1. 0 \in H
  BY FS_Subset, FS_EmptySet
<1>2. \A n \in Nat : n \in H => n + 1 \in H
  <2> SUFFICES ASSUME NEW n \in Nat, n \in H, NEW T \in SUBSET S, Cardinality(T) = n + 1
               PROVE  T \in G
    OBVIOUS
  <2>1. IsFiniteSet(T)
    BY FS_Subset
  <2>2. T # {}
    <3>1. Cardinality({}) = 0
      BY FS_EmptySet, Zenon
    <3>2. n + 1 # 0
      OBVIOUS
    <3> QED BY <3>1, <3>2
  <2>3. PICK x \in T : TRUE
    BY <2>2
  <2>4. Cardinality(T \ {x}) = n
    <3>1. Cardinality(T \ {x}) = Cardinality(T) - 1
      BY <2>1, <2>3, FS_RemoveElement, Zenon
    <3> QED BY <3>1
  <2>5. T \ {x} \in G
    BY <2>4
  <2>6. (T \ {x}) \cup {x} = T
    BY <2>3
  <2> QED BY <2>3, <2>5, <2>6
<1>3. Nat \subseteq H
  <2> HIDE DEF H
  <2> QED BY <1>1, <1>2, NaturalsFrom
<1>4. Cardinality(S) \in Nat
  BY FS_CardinalityType
<1> QED BY <1>3, <1>4

\* The rest of a division.
LEMMA RestOf ==
  ASSUME NEW z \in Nat, NEW n \in Nat, n > 0
  PROVE  \E m, q \in Nat : m = z % n /\ m < n /\ z = q * n + m
<1>1. PICK m \in Int : m = z % n
  OBVIOUS
<1>2. m >= 0 /\ m < n /\ \E q \in Int : z = n * q + m
  <2>1. \E q \in Int : z = n * q + m
    BY <1>1, Z3
  <2>2. m >= 0 /\ m < n
    BY <1>1, Z3
  <2> QED BY <2>1, <2>2
<1>3. PICK q \in Int : z = n * q + m
  BY <1>2
<1>4. q >= 0
  <2> SUFFICES ASSUME q <= -1
               PROVE  FALSE
    OBVIOUS
  <2>1. n * q = n * (q + 1) - n
    OBVIOUS
  <2>2. n * (q + 1) <= 0
    OBVIOUS
  <2> QED BY <2>1, <2>2, <1>2, <1>3, n * (q + 1) \in Int
<1>5. q \in Nat /\ z = q * n + m
  BY <1>3, <1>4
<1>6. m \in Nat /\ m = z % n /\ m < n
  BY <1>1, <1>2
<1> QED BY <1>5, <1>6

\* ... is the only one.
LEMMA OneRest ==
  ASSUME NEW z \in Nat, NEW n \in Nat, n > 0, NEW m \in Nat, m < n, NEW q \in Nat, z = q * n + m
  PROVE  z % n = m
<1>1. PICK r, p \in Nat : r = z % n /\ r < n /\ z = p * n + r
  BY RestOf
<1>2. r = z % n
  BY <1>1
<1>3. r < n
  BY <1>1
<1>4. p * n + r = q * n + m
  BY <1>1
<1>5. p * n \in Int /\ q * n \in Int
  OBVIOUS
<1>6. CASE p > q
  <2>1. p * n = q * n + (p - q - 1) * n + n
    OBVIOUS
  <2>2. (p - q - 1) * n >= 0
    BY <1>6
  <2> QED BY <2>1, <2>2, <1>3, <1>4, <1>5, (p - q - 1) * n \in Int
<1>7. CASE q > p
  <2>1. q * n = p * n + (q - p - 1) * n + n
    OBVIOUS
  <2>2. (q - p - 1) * n >= 0
    BY <1>7
  <2> QED BY <2>1, <2>2, <1>3, <1>4, <1>5, (q - p - 1) * n \in Int
<1>8. CASE p = q
  BY <1>2, <1>4, <1>5, <1>8
<1> QED BY <1>6, <1>7, <1>8

\* Divisibility, and the divisors of a number.
Divides(d, n) == \E k \in Nat : n = k * d
Divisors(n) == {d \in Nat : Divides(d, n)}

\* A number is known by its divisors.
LEMMA DivisorsOfOne ==
  ASSUME NEW m \in Nat, NEW n \in Nat, Divisors(m) = Divisors(n)
  PROVE  m = n
<1>1. Divides(m, m) /\ Divides(n, n)
  <2>1. m = 1 * m /\ n = 1 * n /\ 1 \in Nat
    OBVIOUS
  <2> QED BY <2>1 DEF Divides
<1>2. Divides(m, n) /\ Divides(n, m)
  BY <1>1 DEF Divisors
<1>3. PICK k \in Nat : n = k * m
  BY <1>2 DEF Divides
<1>4. PICK l \in Nat : m = l * n
  BY <1>2 DEF Divides
<1>5. CASE k = 0
  BY <1>3, <1>4, <1>5
<1>6. CASE l = 0
  BY <1>3, <1>4, <1>6
<1>7. CASE k > 0 /\ l > 0
  <2>1. n = m + (k - 1) * m /\ (k - 1) * m >= 0
    BY <1>3, <1>7
  <2>2. m = n + (l - 1) * n /\ (l - 1) * n >= 0
    BY <1>4, <1>7
  <2> QED BY <2>1, <2>2, (k - 1) * m \in Int, (l - 1) * n \in Int
<1> QED BY <1>5, <1>6, <1>7

\* What Euclid saw: the rest of a division keeps the common divisors.
LEMMA DivisorsOfRest ==
  ASSUME NEW a \in Nat, NEW b \in Nat, b > 0
  PROVE  Divisors(a) \cap Divisors(b) = Divisors(b) \cap Divisors(a % b)
<1>1. PICK r, q \in Nat : r = a % b /\ a = q * b + r
  BY RestOf
<1>2. a = q * b + r
  BY <1>1
<1>3. ASSUME NEW d \in Nat, Divides(d, b)
      PROVE  Divides(d, a) <=> Divides(d, r)
  <2>1. PICK k \in Nat : b = k * d
    BY <1>3 DEF Divides
  <2>2. q * b = (q * k) * d
    BY <2>1
  <2>3. PICK p \in Nat : p = q * k
    OBVIOUS
  <2>4. a = p * d + r
    BY <2>2, <2>3, <1>2
  <2>5. ASSUME NEW j \in Nat, r = j * d
        PROVE  Divides(d, a)
    <3>1. a = (p + j) * d
      BY <2>4, <2>5
    <3> QED BY <3>1, p + j \in Nat DEF Divides
  <2>6. ASSUME NEW j \in Nat, a = j * d
        PROVE  Divides(d, r)
    <3>1. r = (j - p) * d
      BY <2>4, <2>6
    <3>2. CASE j >= p
      BY <3>1, <3>2, j - p \in Nat DEF Divides
    <3>3. CASE j < p
      <4>1. (j - p) * d = -((p - j) * d) /\ (p - j) * d >= 0
        BY <3>3
      <4>2. r = 0
        BY <4>1, <3>1, (p - j) * d \in Int
      <4>3. r = 0 * d
        BY <4>2
      <4> QED BY <4>3, 0 \in Nat DEF Divides
    <3> QED BY <3>2, <3>3
  <2> QED BY <2>5, <2>6 DEF Divides
<1> QED BY <1>1, <1>3 DEF Divisors

\* The greatest common divisor: its divisors are the common ones.
Common(x, y) == CHOOSE g \in Nat : Divisors(g) = Divisors(x) \cap Divisors(y)

\* The equation of Gcd has a solution, the greatest common divisor.
LEMMA CommonOfRest ==
  ASSUME NEW x \in Nat, NEW y \in Nat, y > 0, NEW r \in Nat, r = x % y
  PROVE  Common(x, y) = IF r = 0 THEN y ELSE Common(y, r)
<1>2. Divisors(x) \cap Divisors(y) = Divisors(y) \cap Divisors(r)
  BY DivisorsOfRest
<1>3. CASE r = 0
  <2>2. Divisors(0) = Nat
    <3>1. \A d \in Nat : 0 = 0 * d
      OBVIOUS
    <3> QED BY <3>1 DEF Divisors, Divides
  <2>3. Divisors(y) = Divisors(x) \cap Divisors(y)
    BY <1>2, <1>3, <2>2 DEF Divisors
  <2>4. \A h \in Nat : Divisors(h) = Divisors(x) \cap Divisors(y) => h = y
    BY <2>3, DivisorsOfOne
  <2>5. Common(x, y) = y
    BY <2>3, <2>4 DEF Common
  <2> QED BY <2>5, <1>3
<1>4. CASE r # 0
  BY <1>2, <1>4 DEF Common
<1> QED BY <1>3, <1>4

\* Gcd, declared by a recursive equation, satisfies it: w is a function that does.
LEMMA GcdEquation ==
  ASSUME NEW a \in Nat, NEW b \in Nat
  PROVE  Gcd[<<a, b>>] = IF b = 0 THEN a ELSE Gcd[<<b, a % b>>]
<1> DEFINE w == [p \in Nat \X Nat |-> IF p[2] = 0 THEN p[1] ELSE Common(p[1], p[2])]
           Is(h) == h = [p \in Nat \X Nat |-> IF p[2] = 0 THEN p[1] ELSE h[<<p[2], p[1] % p[2]>>]]
           g == CHOOSE h : Is(h)
<1>1. ASSUME NEW p \in Nat \X Nat
      PROVE  w[p] = IF p[2] = 0 THEN p[1] ELSE w[<<p[2], p[1] % p[2]>>]
  <2>1. PICK x, y \in Nat : p = <<x, y>>
    OBVIOUS
  <2>2. CASE y = 0
    BY <2>1, <2>2
  <2>3. CASE y # 0
    <3>0. y > 0
      BY <2>3
    <3>1. PICK r, q \in Nat : r = x % y /\ r < y /\ x = q * y + r
      BY <3>0, RestOf
    <3>2. Common(x, y) = IF r = 0 THEN y ELSE Common(y, r)
      BY <3>1, <3>0, CommonOfRest
    <3>3. w[<<x, y>>] = Common(x, y)
      BY <2>3
    <3>4. w[<<y, r>>] = IF r = 0 THEN y ELSE Common(y, r)
      OBVIOUS
    <3> HIDE DEF w
    <3> QED BY <2>1, <2>3, <3>1, <3>2, <3>3, <3>4
  <2> QED BY <2>2, <2>3
<1>2. Is(w)
  BY <1>1
<1>3. Is(g)
  <2> HIDE DEF w, Is
  <2> QED BY <1>2
<1>4. Gcd = g
  BY DEF Gcd
<1>5. g[<<a, b>>] = IF b = 0 THEN a ELSE g[<<b, a % b>>]
  <2> HIDE DEF g, w
  <2> QED BY <1>3
<1> HIDE DEF g
<1> QED BY <1>5, <1>4

\* What divides two numbers divides their sums.
LEMMA DividesSum ==
  ASSUME NEW d \in Nat, NEW b \in Nat, NEW r \in Nat, NEW q \in Nat, Divides(d, b), Divides(d, r)
  PROVE  Divides(d, q * b + r)
<1>1. PICK k \in Nat : b = k * d
  BY DEF Divides
<1>2. PICK j \in Nat : r = j * d
  BY DEF Divides
<1>3. q * b + r = (q * k + j) * d
  BY <1>1, <1>2
<1> QED BY <1>3, q * k + j \in Nat DEF Divides

\* What GcdDivides shows.
DividesBoth(a, b) ==
  /\ Gcd[<<a, b>>] \in Nat
  /\ Divides(Gcd[<<a, b>>], a) /\ Divides(Gcd[<<a, b>>], b)

\* Gcd divides both numbers.
LEMMA GcdDivides ==
  ASSUME NEW a \in Nat, NEW b \in Nat
  PROVE  DividesBoth(a, b)
<1> DEFINE G == {y \in Nat : \A x \in Nat : DividesBoth(x, y)}
<1>1. ASSUME NEW y \in Nat, \A k \in Nat : k < y => k \in G, NEW x \in Nat
      PROVE  DividesBoth(x, y)
  <2>1. CASE y = 0
    <3>1. Gcd[<<x, y>>] = x
      BY <2>1, GcdEquation
    <3>2. x = 1 * x /\ y = 0 * x /\ 1 \in Nat /\ 0 \in Nat
      BY <2>1
    <3>3. Divides(x, x) /\ Divides(x, y)
      BY <3>2, Zenon DEF Divides
    <3> QED BY <3>1, <3>3 DEF DividesBoth
  <2>2. CASE y # 0
    <3>0. y > 0
      BY <2>2
    <3>1. PICK r, q \in Nat : r = x % y /\ r < y /\ x = q * y + r
      BY <3>0, RestOf
    <3>2. Gcd[<<x, y>>] = Gcd[<<y, r>>]
      BY <2>2, <3>1, GcdEquation
    <3>3. DividesBoth(y, r)
      BY <1>1, <3>1
    <3>4. PICK d \in Nat : d = Gcd[<<y, r>>]
      BY <3>3 DEF DividesBoth
    <3>5. Divides(d, y) /\ Divides(d, r)
      BY <3>3, <3>4 DEF DividesBoth
    <3>6. Divides(d, x)
      BY <3>5, <3>1, DividesSum
    <3> QED BY <3>2, <3>4, <3>5, <3>6 DEF DividesBoth
  <2> QED BY <2>1, <2>2
<1>2. \A y \in Nat : (\A k \in Nat : k < y => k \in G) => y \in G
  BY <1>1
<1>3. Nat \subseteq G
  <2> HIDE DEF G
  <2> QED BY <1>2, NaturalsBelow
<1> QED BY <1>3

\* The gcd of two numbers multiplied by the same one.
LEMMA GcdScales ==
  ASSUME NEW k \in Nat, k > 0, NEW a \in Nat, NEW b \in Nat
  PROVE  Gcd[<<k * a, k * b>>] = k * Gcd[<<a, b>>]
<1> DEFINE G == {y \in Nat : \A x \in Nat : Gcd[<<k * x, k * y>>] = k * Gcd[<<x, y>>]}
<1>1. ASSUME NEW y \in Nat, \A j \in Nat : j < y => j \in G, NEW x \in Nat
      PROVE  Gcd[<<k * x, k * y>>] = k * Gcd[<<x, y>>]
  <2>0. k * x \in Nat /\ k * y \in Nat
    OBVIOUS
  <2>1. CASE y = 0
    <3>1. Gcd[<<x, y>>] = x
      BY <2>1, GcdEquation
    <3>2. k * y = 0
      BY <2>1
    <3>3. Gcd[<<k * x, k * y>>] = k * x
      BY <2>0, <3>2, GcdEquation
    <3> QED BY <3>1, <3>3
  <2>2. CASE y # 0
    <3>0. y > 0 /\ k * y > 0 /\ k * y # 0
      <4>1. k * y = k + k * (y - 1) /\ k * (y - 1) >= 0
        BY <2>2
      <4> QED BY <4>1, <2>2, k * (y - 1) \in Int
    <3>1. PICK r, q \in Nat : r = x % y /\ r < y /\ x = q * y + r
      BY <3>0, RestOf
    <3>2. Gcd[<<x, y>>] = Gcd[<<y, r>>]
      BY <2>2, <3>1, GcdEquation
    <3>3. Gcd[<<k * y, k * r>>] = k * Gcd[<<y, r>>]
      BY <1>1, <3>1
    <3>4. k * x = q * (k * y) + k * r
      BY <3>1
    <3>5. k * r < k * y
      <4>1. k * y = k * r + k * (y - r - 1) + k
        OBVIOUS
      <4>2. k * (y - r - 1) >= 0
        BY <3>1
      <4> QED BY <4>1, <4>2, k * (y - r - 1) \in Int, k * r \in Int
    <3>6. PICK xx, yy, rr \in Nat : xx = k * x /\ yy = k * y /\ rr = k * r
      OBVIOUS
    <3>7. xx = q * yy + rr /\ rr < yy /\ yy > 0 /\ yy # 0
      BY <3>0, <3>4, <3>5, <3>6
    <3>8. rr = xx % yy
      BY <3>7, OneRest
    <3>9. Gcd[<<xx, yy>>] = IF yy = 0 THEN xx ELSE Gcd[<<yy, xx % yy>>]
      BY GcdEquation
    <3>10. Gcd[<<xx, yy>>] = Gcd[<<yy, rr>>]
      BY <3>7, <3>8, <3>9, Zenon
    <3> QED BY <3>2, <3>3, <3>6, <3>10
  <2> QED BY <2>1, <2>2
<1>2. \A y \in Nat : (\A j \in Nat : j < y => j \in G) => y \in G
  BY <1>1
<1>3. Nat \subseteq G
  <2> HIDE DEF G
  <2> QED BY <1>2, NaturalsBelow
<1> QED BY <1>3

\* A positive factor is cancelled, in an equation and in an order.
LEMMA Cancel ==
  ASSUME NEW a \in Int, NEW b \in Int, NEW c \in Int, c > 0
  PROVE  (a * c = b * c <=> a = b) /\ (a * c < b * c <=> a < b)
<1>1. CASE a < b
  <2>1. b * c = a * c + (b - a - 1) * c + c
    OBVIOUS
  <2>2. (b - a - 1) * c >= 0
    BY <1>1
  <2> QED BY <1>1, <2>1, <2>2, (b - a - 1) * c \in Int, a * c \in Int
<1>2. CASE b < a
  <2>1. a * c = b * c + (a - b - 1) * c + c
    OBVIOUS
  <2>2. (a - b - 1) * c >= 0
    BY <1>2
  <2> QED BY <1>2, <2>1, <2>2, (a - b - 1) * c \in Int, b * c \in Int
<1>3. CASE a = b
  BY <1>3
<1> QED BY <1>1, <1>2, <1>3

\* A division without rest.
LEMMA Exact ==
  ASSUME NEW m \in Int, NEW g \in Nat, g > 0, NEW p \in Int, m = p * g
  PROVE  m \div g = p
<1>1. PICK z \in Int : z = m \div g
  OBVIOUS
<1>2. z * g <= m /\ m < (z + 1) * g
  BY <1>1, Z3
<1>3. (z + 1) * g = z * g + g
  OBVIOUS
<1>4. ~ p < z
  <2> SUFFICES ASSUME p < z PROVE FALSE
    OBVIOUS
  <2>1. z * g = p * g + (z - p - 1) * g + g /\ (z - p - 1) * g >= 0
    OBVIOUS
  <2> QED BY <1>2, <2>1, (z - p - 1) * g \in Int, p * g \in Int, z * g \in Int
<1>5. ~ z < p
  <2> SUFFICES ASSUME z < p PROVE FALSE
    OBVIOUS
  <2>1. p * g = z * g + (p - z - 1) * g + g /\ (p - z - 1) * g >= 0
    OBVIOUS
  <2> QED BY <1>2, <1>3, <2>1, (p - z - 1) * g \in Int, p * g \in Int, z * g \in Int
<1> QED BY <1>1, <1>4, <1>5

\* What Fraction returns: the quotient of its arguments, in lowest terms.
LEMMA FractionFacts ==
  ASSUME NEW n \in Int, NEW d \in Int, d # 0
  PROVE  \E p \in Int, q \in Nat \ {0} :
           Fraction(n, d) = <<p, q>> /\ p * d = n * q /\ Gcd[<<Size(p), q>>] = 1
<1> DEFINE m == IF d < 0 THEN -n ELSE n
<1>1. PICK s, e \in Nat : s = Size(n) /\ e = Size(d)
  BY DEF Size
<1>2. e > 0 /\ m \in Int /\ (m = s \/ m = -s)
  BY <1>1 DEF Size
<1>3. PICK g \in Nat : g = Gcd[<<s, e>>] /\ Divides(g, s) /\ Divides(g, e)
  BY GcdDivides DEF DividesBoth
<1>4. PICK x \in Nat : s = x * g
  BY <1>3 DEF Divides
<1>5. PICK y \in Nat : e = y * g
  BY <1>3 DEF Divides
<1>6. g > 0 /\ y > 0
  BY <1>2, <1>5
<1>7. PICK p \in Int : m = p * g /\ Size(p) = x
  <2>1. CASE m = s
    BY <2>1, <1>4 DEF Size
  <2>2. CASE m = -s
    <3>1. m = (-x) * g /\ -x \in Int /\ Size(-x) = x
      BY <2>2, <1>4 DEF Size
    <3> HIDE DEF m
    <3> QED BY <3>1
  <2> QED BY <1>2, <2>1, <2>2
<1>8. Fraction(n, d) = <<m \div g, e \div g>>
  BY <1>1, <1>3 DEF Fraction, Reduced
<1> HIDE DEF m
<1>9. m \div g = p /\ e \div g = y
  BY <1>2, <1>5, <1>6, <1>7, Exact
<1>10. Gcd[<<x, y>>] = 1
  <2>1. Gcd[<<g * x, g * y>>] = g * Gcd[<<x, y>>]
    BY <1>6, GcdScales
  <2>2. g * x = s /\ g * y = e
    BY <1>4, <1>5
  <2>3. PICK h \in Nat : h = Gcd[<<x, y>>]
    BY GcdDivides DEF DividesBoth
  <2>5. g * Gcd[<<x, y>>] = g
    BY <2>1, <2>2, <1>3
  <2>6. h * g = 1 * g /\ 1 \in Int
    BY <2>3, <2>5
  <2>7. h = 1
    BY <2>6, <1>6, Cancel
  <2> QED BY <2>3, <2>7
<1>11. p * d = n * y
  <2>1. CASE d < 0
    <3>1. m = -n /\ e = -d
      BY <2>1, <1>1 DEF m, Size
    <3>2. (p * d) * g = (n * y) * g
      BY <3>1, <1>5, <1>7
    <3> QED BY <3>2, <1>6, Cancel, p * d \in Int, n * y \in Int
  <2>2. CASE d > 0
    <3>1. m = n /\ e = d
      BY <2>2, <1>1 DEF m, Size
    <3>2. (p * d) * g = (n * y) * g
      BY <3>1, <1>5, <1>7
    <3> QED BY <3>2, <1>6, Cancel, p * d \in Int, n * y \in Int
  <2> QED BY <2>1, <2>2
<1>12. y \in Nat \ {0} /\ Fraction(n, d) = <<p, y>> /\ Gcd[<<Size(p), y>>] = 1
  BY <1>6, <1>7, <1>8, <1>9, <1>10
<1> QED BY <1>11, <1>12, Zenon

\* A value has one form in lowest terms.
LEMMA OneForm ==
  ASSUME NEW p \in Int, NEW q \in Nat \ {0}, Gcd[<<Size(p), q>>] = 1,
         NEW r \in Int, NEW s \in Nat \ {0}, Gcd[<<Size(r), s>>] = 1, p * s = r * q
  PROVE  p = r /\ q = s
<1>1. PICK a, b \in Nat : a = Size(p) /\ b = Size(r)
  BY DEF Size
<1>2. s * a = q * b
  <2>1. CASE p >= 0
    <3>1. p * s >= 0
      BY <2>1
    <3>2. r >= 0
      <4> SUFFICES ASSUME r < 0 PROVE FALSE
        OBVIOUS
      <4>1. r * q <= -1
        <5>1. r * q = -((-r) * q) /\ (-r) * q = (-r - 1) * q + q /\ (-r - 1) * q >= 0
          OBVIOUS
        <5> QED BY <5>1, (-r - 1) * q \in Int, (-r) * q \in Int
      <4> QED BY <4>1, <3>1
    <3> QED BY <2>1, <3>2, <1>1 DEF Size
  <2>2. CASE p < 0
    <3>1. p * s <= -1
      <4>1. p * s = -((-p) * s) /\ (-p) * s = (-p - 1) * s + s /\ (-p - 1) * s >= 0
        BY <2>2
      <4> QED BY <4>1, (-p - 1) * s \in Int, (-p) * s \in Int
    <3>2. r < 0
      <4> SUFFICES ASSUME r >= 0 PROVE FALSE
        OBVIOUS
      <4>1. r * q >= 0
        OBVIOUS
      <4> QED BY <4>1, <3>1
    <3>3. a = -p /\ b = -r
      BY <2>2, <3>2, <1>1 DEF Size
    <3>4. s * a = -(p * s) /\ q * b = -(r * q)
      BY <3>3
    <3> QED BY <3>4
  <2> QED BY <2>1, <2>2
<1>3. Gcd[<<s * a, s * q>>] = s * Gcd[<<a, q>>]
  BY GcdScales
<1>4. Gcd[<<q * b, q * s>>] = q * Gcd[<<b, s>>]
  BY GcdScales
<1>5. s * q = q * s
  OBVIOUS
<1>6. s = q
  BY <1>1, <1>2, <1>3, <1>4, <1>5
<1>7. p * q = r * q
  BY <1>6
<1> QED BY <1>6, <1>7, Cancel

\* The fraction x is n over d.
At(x, n, d) == IsFraction(x) /\ x[1] * d = n * x[2]

\* The two parts of a fraction.
LEMMA Parts ==
  ASSUME NEW x, IsFraction(x)
  PROVE  \E p \in Int, q \in Nat : x = <<p, q>> /\ q > 0 /\ At(x, p, q) /\ Gcd[<<Size(p), q>>] = 1
<1>1. PICK p \in Int, q \in Nat \ {0} : x = <<p, q>>
  BY DEF IsFraction
<1>2. p * q = p * q /\ q \in Nat /\ q > 0
  OBVIOUS
<1>3. x[1] = p /\ x[2] = q
  BY <1>1
<1> QED BY <1>1, <1>2, <1>3 DEF At, IsFraction

\* Fraction returns the quotient of its arguments.
LEMMA FractionAt ==
  ASSUME NEW n \in Int, NEW d \in Int, d # 0
  PROVE  At(Fraction(n, d), n, d)
<1>1. PICK p \in Int, q \in Nat \ {0} :
        Fraction(n, d) = <<p, q>> /\ p * d = n * q /\ Gcd[<<Size(p), q>>] = 1
  BY FractionFacts
<1> QED BY <1>1 DEF At, IsFraction

\* Two fractions of one value are one.
LEMMA SameAt ==
  ASSUME NEW x, NEW y, NEW n \in Int, NEW d \in Int, d > 0, At(x, n, d), At(y, n, d)
  PROVE  x = y
<1>1. PICK p \in Int, q \in Nat : x = <<p, q>> /\ q > 0 /\ Gcd[<<Size(p), q>>] = 1
  BY Parts DEF At
<1>2. PICK r \in Int, s \in Nat : y = <<r, s>> /\ s > 0 /\ Gcd[<<Size(r), s>>] = 1
  BY Parts DEF At
<1>3. p * d = n * q /\ r * d = n * s
  BY <1>1, <1>2 DEF At
<1>4. (p * s) * d = (p * d) * s /\ (p * d) * s = n * q * s
  BY <1>3
<1>5. (r * q) * d = (r * d) * q /\ (r * d) * q = n * q * s
  BY <1>3
<1>6. (p * s) * d = (r * q) * d
  BY <1>4, <1>5
<1>7. p * s = r * q
  BY <1>6, Cancel, p * s \in Int, r * q \in Int
<1>8. q \in Nat \ {0} /\ s \in Nat \ {0}
  BY <1>1, <1>2
<1> QED BY <1>1, <1>2, <1>7, <1>8, OneForm

\* The same value over a multiple of its denominator.
LEMMA ScaleAt ==
  ASSUME NEW x, NEW n \in Int, NEW d \in Int, NEW k \in Int, At(x, n, d)
  PROVE  At(x, n * k, d * k)
<1>1. PICK p \in Int, q \in Nat : x = <<p, q>>
  BY Parts DEF At
<1>2. p * d = n * q
  BY <1>1 DEF At
<1>3. p * (d * k) = (n * k) * q
  <2>1. p * (d * k) = (p * d) * k
    OBVIOUS
  <2>2. (n * k) * q = (n * q) * k
    OBVIOUS
  <2> QED BY <2>1, <2>2, <1>2
<1> QED BY <1>1, <1>3 DEF At

\* Two fractions over one denominator.
LEMMA TwoBase ==
  ASSUME NEW x, NEW y, IsFraction(x), IsFraction(y)
  PROVE  \E a, b \in Int, d \in Nat : d > 0 /\ At(x, a, d) /\ At(y, b, d)
<1>1. PICK p \in Int, q \in Nat : q > 0 /\ At(x, p, q)
  BY Parts
<1>2. PICK r \in Int, s \in Nat : s > 0 /\ At(y, r, s)
  BY Parts
<1>3. At(x, p * s, q * s)
  BY <1>1, <1>2, ScaleAt, p \in Int, q \in Int, r \in Int, s \in Int
<1>4. At(y, r * q, s * q)
  BY <1>1, <1>2, ScaleAt, p \in Int, q \in Int, r \in Int, s \in Int
<1>5. s * q = q * s /\ q * s \in Nat /\ q * s > 0
  <2>1. q * s = (q - 1) * s + s /\ (q - 1) * s >= 0
    BY <1>1
  <2> QED BY <2>1, <1>2, (q - 1) * s \in Int
<1>6. p * s \in Int /\ r * q \in Int
  OBVIOUS
<1> QED BY <1>3, <1>4, <1>5, <1>6

\* A whole number, zero and one as fractions.
LEMMA WholeAt ==
  ASSUME NEW n \in Int
  PROVE  At(Whole(n), n, 1)
<1>1. Gcd[<<Size(n), 1>>] = 1
  <2>1. PICK s \in Nat : s = Size(n)
    BY DEF Size
  <2>2. PICK r, q \in Nat : r = s % 1 /\ r < 1
    BY RestOf
  <2>3. Gcd[<<s, 1>>] = Gcd[<<1, r>>] /\ r = 0
    BY <2>2, GcdEquation
  <2> QED BY <2>1, <2>3, GcdEquation
<1> QED BY <1>1 DEF At, IsFraction, Whole

\* Zero, over any denominator.
LEMMA ZeroAt ==
  ASSUME NEW d \in Int
  PROVE  At(Zero, 0, d)
<1>1. At(Zero, 0, 1)
  BY WholeAt DEF Zero
<1>2. 0 * d = 0 /\ 1 * d = d
  OBVIOUS
<1>3. At(Zero, 0 * d, 1 * d)
  BY <1>1, ScaleAt, 0 \in Int, 1 \in Int
<1> QED BY <1>2, <1>3

\* One, over any denominator.
LEMMA OneAt ==
  ASSUME NEW d \in Int
  PROVE  At(One, d, d)
<1>1. At(One, 1, 1)
  BY WholeAt DEF One
<1>2. 1 * d = d
  OBVIOUS
<1>3. At(One, 1 * d, 1 * d)
  BY <1>1, ScaleAt, 0 \in Int, 1 \in Int
<1> QED BY <1>2, <1>3

\* The sum and the difference of two fractions of one denominator.
LEMMA PlusAt ==
  ASSUME NEW x, NEW y, NEW a \in Int, NEW b \in Int, NEW d \in Int, d > 0,
         At(x, a, d), At(y, b, d)
  PROVE  At(Plus(x, y), a + b, d) /\ At(Minus(x, y), a - b, d)
<1>1. PICK p \in Int, q \in Nat : x = <<p, q>> /\ q > 0
  BY Parts DEF At
<1>2. PICK r \in Int, s \in Nat : y = <<r, s>> /\ s > 0
  BY Parts DEF At
<1>3. p * d = a * q /\ r * d = b * s
  BY <1>1, <1>2 DEF At
<1>4. PICK e \in Int : e = q * s
  OBVIOUS
<1>5. e > 0
  <2>1. q * s = (q - 1) * s + s /\ (q - 1) * s >= 0
    BY <1>1
  <2> QED BY <2>1, <1>2, <1>4, (q - 1) * s \in Int
<1>6. (p * s) * d = a * e /\ (r * q) * d = b * e
  <2>1. (p * s) * d = (p * d) * s /\ (r * q) * d = (r * d) * q
    OBVIOUS
  <2>2. (a * q) * s = a * (q * s) /\ (b * s) * q = b * (q * s)
    OBVIOUS
  <2> QED BY <2>1, <2>2, <1>3, <1>4
<1>7. ASSUME NEW u \in Int, NEW c \in Int, u * d = c * e
      PROVE  At(Fraction(u, e), c, d)
  <2>1. PICK v \in Int, w \in Nat \ {0} :
          Fraction(u, e) = <<v, w>> /\ v * e = u * w /\ Gcd[<<Size(v), w>>] = 1
    BY <1>5, FractionFacts, e # 0
  <2>2. (v * d) * e = (c * w) * e
    <3>1. (v * d) * e = (v * e) * d /\ (u * w) * d = (u * d) * w /\ (c * e) * w = (c * w) * e
      OBVIOUS
    <3> QED BY <3>1, <2>1, <1>7
  <2>3. v * d = c * w
    BY <2>2, <1>5, Cancel, v * d \in Int, c * w \in Int
  <2> QED BY <2>1, <2>3 DEF At, IsFraction
<1>8. (p * s + r * q) * d = (a + b) * e /\ (p * s - r * q) * d = (a - b) * e
  BY <1>6
<1>9. Plus(x, y) = Fraction(p * s + r * q, e) /\ Minus(x, y) = Fraction(p * s - r * q, e)
  BY <1>1, <1>2, <1>4 DEF Plus, Minus
<1> QED BY <1>7, <1>8, <1>9

\* The product.
LEMMA TimesAt ==
  ASSUME NEW x, NEW y, NEW a \in Int, NEW b \in Int, NEW d \in Int, NEW e \in Int, d > 0, e > 0,
         At(x, a, d), At(y, b, e)
  PROVE  At(Times(x, y), a * b, d * e)
<1>1. PICK p \in Int, q \in Nat : x = <<p, q>> /\ q > 0
  BY Parts DEF At
<1>2. PICK r \in Int, s \in Nat : y = <<r, s>> /\ s > 0
  BY Parts DEF At
<1>3. p * d = a * q /\ r * e = b * s
  BY <1>1, <1>2 DEF At
<1>4. PICK f \in Int : f = q * s
  OBVIOUS
<1>5. f > 0
  <2>1. q * s = (q - 1) * s + s /\ (q - 1) * s >= 0
    BY <1>1
  <2> QED BY <2>1, <1>2, <1>4, (q - 1) * s \in Int
<1>6. PICK u, c, g \in Int : u = p * r /\ c = a * b /\ g = d * e
  OBVIOUS
<1>7. u * g = c * f
  <2>1. (p * r) * (d * e) = (p * d) * (r * e) /\ (a * b) * (q * s) = (a * q) * (b * s)
    OBVIOUS
  <2> QED BY <2>1, <1>3, <1>4, <1>6
<1>8. PICK v \in Int, w \in Nat \ {0} :
        Fraction(u, f) = <<v, w>> /\ v * f = u * w /\ Gcd[<<Size(v), w>>] = 1
  BY <1>5, FractionFacts, f # 0
<1>9. (v * g) * f = (c * w) * f
  <2>1. (v * g) * f = (v * f) * g /\ (u * w) * g = (u * g) * w /\ (c * f) * w = (c * w) * f
    OBVIOUS
  <2> QED BY <2>1, <1>7, <1>8
<1>10. v * g = c * w
  BY <1>9, <1>5, Cancel, v * g \in Int, c * w \in Int
<1>11. Times(x, y) = Fraction(u, f)
  BY <1>1, <1>2, <1>4, <1>6 DEF Times
<1> QED BY <1>6, <1>8, <1>10, <1>11 DEF At, IsFraction

\* Dividing by what is not zero, of either sign.
LEMMA OverAt ==
  ASSUME NEW x, NEW y, NEW a \in Int, NEW b \in Int, NEW d \in Int, d > 0, b # 0,
         At(x, a, d), At(y, b, d)
  PROVE  At(Over(x, y), a, b)
<1>1. PICK p \in Int, q \in Nat : x = <<p, q>> /\ q > 0
  BY Parts DEF At
<1>2. PICK r \in Int, s \in Nat : y = <<r, s>> /\ s > 0
  BY Parts DEF At
<1>3. p * d = a * q /\ r * d = b * s
  BY <1>1, <1>2 DEF At
<1>4. PICK u, f \in Int : u = p * s /\ f = q * r
  OBVIOUS
<1>5. f # 0
  <2>1. b * s # 0
    <3>1. CASE b > 0
      <4>1. b * s = (b - 1) * s + s /\ (b - 1) * s >= 0
        BY <3>1
      <4> QED BY <4>1, <1>2, (b - 1) * s \in Int
    <3>2. CASE b < 0
      <4>1. b * s = (b + 1) * s - s /\ (b + 1) * s <= 0
        BY <3>2
      <4> QED BY <4>1, <1>2, (b + 1) * s \in Int
    <3> QED BY <3>1, <3>2
  <2>2. r # 0
    BY <2>1, <1>3
  <2>3. CASE r > 0
    <3>1. q * r = (q - 1) * r + r /\ (q - 1) * r >= 0
      BY <2>3, <1>1
    <3> QED BY <3>1, <2>3, <1>4, (q - 1) * r \in Int
  <2>4. CASE r < 0
    <3>1. q * r = (q - 1) * r + r /\ (q - 1) * r <= 0
      BY <2>4, <1>1
    <3> QED BY <3>1, <2>4, <1>4, (q - 1) * r \in Int
  <2> QED BY <2>2, <2>3, <2>4
<1>6. PICK v \in Int, w \in Nat \ {0} :
        Fraction(u, f) = <<v, w>> /\ v * f = u * w /\ Gcd[<<Size(v), w>>] = 1
  BY <1>5, FractionFacts
\* v * q * r = p * s * w, r * d = b * s, p * d = a * q
<1>7. v * b = a * w
  <2>1. PICK k \in Int : k = q * s
    OBVIOUS
  <2>2. k > 0
    <3>1. q * s = (q - 1) * s + s /\ (q - 1) * s >= 0
      BY <1>1
    <3> QED BY <3>1, <1>2, <2>1, (q - 1) * s \in Int
  <2>3. (v * b) * k = (a * w) * k
    <3>1. (v * b) * (q * s) = (v * q) * (b * s)
      OBVIOUS
    <3>2. (v * q) * (r * d) = (v * (q * r)) * d
      OBVIOUS
    <3>3. ((p * s) * w) * d = ((p * d) * s) * w
      OBVIOUS
    <3>4. ((a * q) * s) * w = (a * w) * (q * s)
      OBVIOUS
    <3>5. (v * q) * (b * s) = (u * w) * d
      BY <3>2, <1>3, <1>4, <1>6
    <3> QED BY <3>1, <3>3, <3>4, <3>5, <1>3, <1>4, <2>1
  <2> QED BY <2>2, <2>3, Cancel, v * b \in Int, a * w \in Int
<1>8. Over(x, y) = Fraction(u, f)
  BY <1>1, <1>2, <1>4 DEF Over
<1> QED BY <1>6, <1>7, <1>8 DEF At, IsFraction

\* The order, and the sign.
LEMMA OrderAt ==
  ASSUME NEW x, NEW y, NEW a \in Int, NEW b \in Int, NEW d \in Int, d > 0,
         At(x, a, d), At(y, b, d)
  PROVE  (Less(x, y) <=> a < b) /\ (IsPositive(x) <=> a > 0) /\ (IsNegative(x) <=> a < 0)
<1>1. PICK p \in Int, q \in Nat : x = <<p, q>> /\ q > 0
  BY Parts DEF At
<1>2. PICK r \in Int, s \in Nat : y = <<r, s>> /\ s > 0
  BY Parts DEF At
<1>3. p * d = a * q /\ r * d = b * s
  BY <1>1, <1>2 DEF At
<1>4. PICK e \in Int : e = q * s
  OBVIOUS
<1>5. e > 0
  <2>1. q * s = (q - 1) * s + s /\ (q - 1) * s >= 0
    BY <1>1
  <2> QED BY <2>1, <1>2, <1>4, (q - 1) * s \in Int
<1>6. (p * s) * d = a * e /\ (r * q) * d = b * e
  <2>1. (p * s) * d = (p * d) * s /\ (r * q) * d = (r * d) * q
    OBVIOUS
  <2>2. (a * q) * s = a * (q * s) /\ (b * s) * q = b * (q * s)
    OBVIOUS
  <2> QED BY <2>1, <2>2, <1>3, <1>4
<1>7. p * s < r * q <=> (p * s) * d < (r * q) * d
  BY Cancel, p * s \in Int, r * q \in Int
<1>8. a < b <=> a * e < b * e
  BY <1>5, Cancel
<1>9. Less(x, y) <=> p * s < r * q
  BY <1>1, <1>2 DEF Less
<1>10. (p > 0 <=> a > 0) /\ (p < 0 <=> a < 0)
  <2>1. (p > 0 <=> p * d > 0) /\ (p < 0 <=> p * d < 0)
    <3>1. (0 < p <=> 0 * d < p * d) /\ (p < 0 <=> p * d < 0 * d)
      BY Cancel, 0 \in Int
    <3> QED BY <3>1
  <2>2. (a > 0 <=> a * q > 0) /\ (a < 0 <=> a * q < 0)
    <3>1. (0 < a <=> 0 * q < a * q) /\ (a < 0 <=> a * q < 0 * q)
      BY <1>1, Cancel, 0 \in Int, q \in Int
    <3> QED BY <3>1
  <2> QED BY <2>1, <2>2, <1>3
<1>11. (IsPositive(x) <=> p > 0) /\ (IsNegative(x) <=> p < 0)
  BY <1>1 DEF IsPositive, IsNegative
<1> QED BY <1>6, <1>7, <1>8, <1>9, <1>10, <1>11

\* The equation of the fold on a set: it adds its elements in the order CHOOSE takes them.
PickOf(s) == CHOOSE x \in s : TRUE
IsFold(g, f, S) ==
  g = [s \in SUBSET S |-> IF s = {} THEN Zero ELSE Plus(f[PickOf(s)], g[s \ {PickOf(s)}])]

\* SumOver is a function that satisfies the equation of the fold, if there is one.
LEMMA SumIs ==
  ASSUME NEW f, NEW S
  PROVE  SumOver(f, S) = (CHOOSE g : IsFold(g, f, S))[S]
BY DEF SumOver, FoldFunctionOnSet, MapThenFoldSet, IsFold, PickOf

\* The element that the fold takes is of the set.
LEMMA PickIn ==
  ASSUME NEW s, s # {}
  PROVE  PickOf(s) \in s
BY DEF PickOf

\* A function that satisfies the equation of the fold on the subsets of fewer elements.
FoldsTo(n, g, f, S) ==
  \A s \in SUBSET S : Cardinality(s) <= n =>
    g[s] = IF s = {} THEN Zero ELSE Plus(f[PickOf(s)], g[s \ {PickOf(s)}])

\* Such a function, for sets of one element more.
LEMMA FoldStep ==
  ASSUME NEW f, NEW S, IsFiniteSet(S), NEW n \in Nat, NEW g, FoldsTo(n, g, f, S)
  PROVE  \E h : h = [s \in SUBSET S |-> h[s]] /\ FoldsTo(n + 1, h, f, S)
<1> DEFINE next(s) == IF s = {} THEN Zero ELSE Plus(f[PickOf(s)], g[s \ {PickOf(s)}])
           h == [s \in SUBSET S |-> next(s)]
<1>1. ASSUME NEW s \in SUBSET S, Cardinality(s) <= n
      PROVE  h[s] = g[s]
  BY <1>1 DEF FoldsTo
<1>2. ASSUME NEW s \in SUBSET S, Cardinality(s) <= n + 1, s # {}
      PROVE  h[s \ {PickOf(s)}] = g[s \ {PickOf(s)}]
  <2>1. PICK x \in s : x = PickOf(s)
    BY <1>2, PickIn
  <2>2. IsFiniteSet(s)
    BY FS_Subset, Zenon
  <2>3. Cardinality(s \ {x}) = Cardinality(s) - 1 /\ Cardinality(s) \in Nat
    <3>1. Cardinality(s) \in Nat
      BY <2>2, FS_CardinalityType, Zenon
    <3>2. Cardinality(s \ {x}) = IF x \in s THEN Cardinality(s) - 1 ELSE Cardinality(s)
      BY <2>2, FS_RemoveElement, Zenon
    <3> QED BY <3>1, <3>2
  <2>4. Cardinality(s \ {x}) <= n
    BY <2>3, <1>2
  <2>5. s \ {x} \in SUBSET S
    OBVIOUS
  <2> HIDE DEF h
  <2> QED BY <2>1, <2>4, <2>5, <1>1
<1>3. FoldsTo(n + 1, h, f, S)
  <2> SUFFICES ASSUME NEW s \in SUBSET S, Cardinality(s) <= n + 1
               PROVE  h[s] = IF s = {} THEN Zero ELSE Plus(f[PickOf(s)], h[s \ {PickOf(s)}])
    BY DEF FoldsTo
  <2>1. h[s] = next(s)
    OBVIOUS
  <2>2. CASE s = {}
    BY <2>1, <2>2
  <2>3. CASE s # {}
    <3>1. h[s \ {PickOf(s)}] = g[s \ {PickOf(s)}]
      BY <2>3, <1>2
    <3> HIDE DEF h
    <3> QED BY <2>1, <2>3, <3>1
  <2> QED BY <2>2, <2>3
<1>4. h = [s \in SUBSET S |-> h[s]]
  OBVIOUS
<1> HIDE DEF h
<1> QED BY <1>3, <1>4

\* Such a function for all the subsets: the equation of the fold has a solution.
LEMMA FoldExists ==
  ASSUME NEW f, NEW S, IsFiniteSet(S)
  PROVE  \E g : IsFold(g, f, S)
<1> DEFINE G == {n \in Nat : \E h : h = [s \in SUBSET S |-> h[s]] /\ FoldsTo(n, h, f, S)}
<1>1. 0 \in G
  <2> DEFINE h == [s \in SUBSET S |-> Zero]
  <2>1. h = [s \in SUBSET S |-> h[s]]
    OBVIOUS
  <2>2. ASSUME NEW s \in SUBSET S, Cardinality(s) <= 0
        PROVE  s = {}
    <3>1. IsFiniteSet(s)
      BY FS_Subset, Zenon
    <3>2. Cardinality(s) \in Nat
      BY <3>1, FS_CardinalityType, Zenon
    <3>3. Cardinality(s) = 0
      BY <3>2, <2>2
    <3> QED BY <3>1, <3>3, FS_EmptySet, Zenon
  <2>3. FoldsTo(0, h, f, S)
    BY <2>2 DEF FoldsTo
  <2> HIDE DEF h
  <2> QED BY <2>1, <2>3
<1>2. ASSUME NEW n \in Nat, n \in G
      PROVE  n + 1 \in G
  <2>1. PICK h : FoldsTo(n, h, f, S)
    BY <1>2
  <2>2. \E t : t = [s \in SUBSET S |-> t[s]] /\ FoldsTo(n + 1, t, f, S)
    BY <2>1, FoldStep
  <2> QED BY <2>2
<1>3. Nat \subseteq G
  <2> HIDE DEF G
  <2> QED BY <1>1, <1>2, NaturalsFrom
<1>4. Cardinality(S) \in Nat
  BY FS_CardinalityType, Zenon
<1>5. PICK h : h = [s \in SUBSET S |-> h[s]] /\ FoldsTo(Cardinality(S), h, f, S)
  BY <1>3, <1>4
<1>6. \A s \in SUBSET S : Cardinality(s) <= Cardinality(S)
  BY FS_Subset, Zenon
<1>7. IsFold(h, f, S)
  BY <1>5, <1>6 DEF FoldsTo, IsFold
<1> QED BY <1>7

\* Two functions with the same values on T.
SameOn(f, e, T) == \A i \in T : f[i] = e[i]

\* Two folds agree on the sets of both.
LEMMA FoldsAgree ==
  ASSUME NEW f, NEW e, NEW S, IsFiniteSet(S), NEW T \in SUBSET S, NEW g, NEW h, IsFold(g, f, S), IsFold(h, e, T),
         SameOn(f, e, T)
  PROVE  \A s \in SUBSET T : g[s] = h[s]
<1> DEFINE G == {n \in Nat : \A s \in SUBSET T : Cardinality(s) = n => g[s] = h[s]}
<1>1. \A s \in SUBSET T : /\ IsFiniteSet(s) /\ Cardinality(s) \in Nat /\ s \in SUBSET S
  BY FS_Subset, FS_CardinalityType
<1>2. \A s \in SUBSET S : g[s] = IF s = {} THEN Zero ELSE Plus(f[PickOf(s)], g[s \ {PickOf(s)}])
  BY DEF IsFold
<1>3. \A s \in SUBSET T : h[s] = IF s = {} THEN Zero ELSE Plus(e[PickOf(s)], h[s \ {PickOf(s)}])
  BY DEF IsFold
<1>4. ASSUME NEW n \in Nat, \A k \in Nat : k < n => k \in G, NEW s \in SUBSET T, Cardinality(s) = n
      PROVE  g[s] = h[s]
  <2>1. CASE s = {}
    BY <1>1, <1>2, <1>3, <2>1
  <2>2. CASE s # {}
    <3>1. PICK x \in s : x = PickOf(s)
      BY <2>2, PickIn
    <3>2. Cardinality(s \ {x}) = IF x \in s THEN Cardinality(s) - 1 ELSE Cardinality(s)
      BY <1>1, FS_RemoveElement, Zenon
    <3>3. s \ {x} \in SUBSET T
      OBVIOUS
    <3>4. Cardinality(s \ {x}) \in Nat /\ Cardinality(s \ {x}) < n
      BY <1>1, <1>4, <3>2, <3>3
    <3>5. g[s \ {x}] = h[s \ {x}]
      BY <1>4, <3>3, <3>4
    <3>6. f[x] = e[x]
      BY DEF SameOn
    <3>7. g[s] = Plus(f[x], g[s \ {x}]) /\ h[s] = Plus(e[x], h[s \ {x}])
      BY <1>1, <1>2, <1>3, <2>2, <3>1
    <3> QED BY <3>5, <3>6, <3>7
  <2> QED BY <2>1, <2>2
<1>5. \A n \in Nat : (\A k \in Nat : k < n => k \in G) => n \in G
  BY <1>4
<1>6. Nat \subseteq G
  <2> HIDE DEF G
  <2> QED BY <1>5, NaturalsBelow
<1> QED BY <1>1, <1>6

\* The sum of the members of a set, that of any subset of it.
LEMMA SumAsFold ==
  ASSUME NEW f, NEW S, IsFiniteSet(S), NEW g, IsFold(g, f, S), NEW T \in SUBSET S
  PROVE  SumOver(f, T) = g[T]
<1>1. IsFiniteSet(T)
  BY FS_Subset, Zenon
<1>2. IsFold(CHOOSE t : IsFold(t, f, T), f, T)
  BY <1>1, FoldExists
<1>3. PICK h : h = (CHOOSE t : IsFold(t, f, T))
  OBVIOUS
<1>4. IsFold(h, f, T) /\ SumOver(f, T) = h[T]
  BY <1>2, <1>3, SumIs
<1>5. \A s \in SUBSET T : g[s] = h[s]
  <2>1. SameOn(f, f, T)
    BY DEF SameOn
  <2> QED BY <1>4, <2>1, FoldsAgree
<1> QED BY <1>4, <1>5

\* The sum over nothing, and over a set less the element the fold picks.
LEMMA SumEmpty ==
  ASSUME NEW f
  PROVE  SumOver(f, {}) = Zero
<1>1. IsFiniteSet({})
  BY FS_EmptySet, Zenon
<1>2. PICK g : IsFold(g, f, {})
  BY <1>1, FoldExists
<1>3. SumOver(f, {}) = g[{}]
  BY <1>1, <1>2, SumAsFold
<1> QED BY <1>2, <1>3 DEF IsFold

\* The sum is what the fold takes first and the sum of the rest.
LEMMA SumPicks ==
  ASSUME NEW f, NEW S, IsFiniteSet(S), S # {}
  PROVE  SumOver(f, S) = Plus(f[PickOf(S)], SumOver(f, S \ {PickOf(S)}))
<1>1. PICK g : IsFold(g, f, S)
  BY FoldExists
<1>2. SumOver(f, S) = g[S]
  BY <1>1, SumAsFold, S \in SUBSET S
<1>3. SumOver(f, S \ {PickOf(S)}) = g[S \ {PickOf(S)}]
  BY <1>1, SumAsFold, S \ {PickOf(S)} \in SUBSET S
<1>4. g[S] = Plus(f[PickOf(S)], g[S \ {PickOf(S)}])
  BY <1>1, S \in SUBSET S DEF IsFold
<1> QED BY <1>2, <1>3, <1>4

\* Functions with the same values have the same sum.
LEMMA SumSame ==
  ASSUME NEW f, NEW e, NEW S, IsFiniteSet(S), \A i \in S : f[i] = e[i]
  PROVE  SumOver(f, S) = SumOver(e, S)
<1>1. PICK g : IsFold(g, f, S)
  BY FoldExists
<1>2. PICK h : IsFold(h, e, S)
  BY FoldExists
<1>3. S \in SUBSET S
  OBVIOUS
<1>0. SameOn(f, e, S)
  BY DEF SameOn
<1>4. g[S] = h[S]
  BY <1>0, <1>1, <1>2, <1>3, FoldsAgree
<1>5. SumOver(f, S) = g[S]
  BY <1>1, <1>3, SumAsFold
<1>6. SumOver(e, S) = h[S]
  BY <1>2, <1>3, SumAsFold
<1> QED BY <1>4, <1>5, <1>6

\* Three fractions over one denominator.
LEMMA ThreeBase ==
  ASSUME NEW x, NEW y, NEW z, IsFraction(x), IsFraction(y), IsFraction(z)
  PROVE  \E a, b, c \in Int, d \in Nat : d > 0 /\ At(x, a, d) /\ At(y, b, d) /\ At(z, c, d)
<1>1. PICK p, r \in Int, q \in Nat : q > 0 /\ At(x, p, q) /\ At(y, r, q)
  BY TwoBase
<1>2. PICK t \in Int, s \in Nat : s > 0 /\ At(z, t, s)
  BY Parts
<1>3. PICK a, b, c, d \in Int : a = p * s /\ b = r * s /\ c = t * q /\ d = q * s
  OBVIOUS
<1>4. At(x, a, d) /\ At(y, b, d)
  BY <1>1, <1>2, <1>3, ScaleAt, q \in Int, s \in Int
<1>5. s * q = q * s
  OBVIOUS
<1>6. At(z, c, d)
  BY <1>1, <1>2, <1>3, <1>5, ScaleAt, q \in Int, s \in Int
<1>7. d \in Nat /\ d > 0
  <2>1. q * s = (q - 1) * s + s /\ (q - 1) * s >= 0
    BY <1>1
  <2> QED BY <2>1, <1>2, <1>3, (q - 1) * s \in Int
<1> QED BY <1>4, <1>6, <1>7

\* The operations give fractions.
LEMMA FractionOps ==
  ASSUME NEW x, NEW y, IsFraction(x), IsFraction(y)
  PROVE  /\ IsFraction(Plus(x, y)) /\ IsFraction(Minus(x, y)) /\ IsFraction(Times(x, y))
         /\ y # Zero => IsFraction(Over(x, y))
<1>1. PICK a, b \in Int, d \in Nat : d > 0 /\ At(x, a, d) /\ At(y, b, d)
  BY TwoBase
<1>2. d \in Int
  OBVIOUS
<1>3. At(Plus(x, y), a + b, d) /\ At(Minus(x, y), a - b, d)
  BY <1>1, <1>2, PlusAt
<1>4. At(Times(x, y), a * b, d * d)
  BY <1>1, <1>2, TimesAt
<1>5. b # 0 => At(Over(x, y), a, b)
  BY <1>1, <1>2, OverAt
<1>6. b = 0 => y = Zero
  BY <1>1, <1>2, ZeroAt, SameAt
<1> QED BY <1>3, <1>4, <1>5, <1>6 DEF At

\* The sum is commutative and associative, and zero adds nothing.
LEMMA PlusLaws ==
  ASSUME NEW x, NEW y, NEW z, IsFraction(x), IsFraction(y), IsFraction(z)
  PROVE  /\ Plus(x, y) = Plus(y, x)
         /\ Plus(x, Plus(y, z)) = Plus(Plus(x, y), z)
         /\ Plus(x, Plus(y, z)) = Plus(y, Plus(x, z))
<1>1. PICK a, b, c \in Int, d \in Nat : d > 0 /\ At(x, a, d) /\ At(y, b, d) /\ At(z, c, d)
  BY ThreeBase
<1>2. d \in Int /\ d > 0
  BY <1>1
<1>3. At(Plus(x, y), a + b, d) /\ At(Plus(y, x), b + a, d)
  BY <1>1, <1>2, PlusAt
<1>4. At(Plus(y, z), b + c, d) /\ At(Plus(x, z), a + c, d)
  BY <1>1, <1>2, PlusAt
<1>5. At(Plus(x, Plus(y, z)), a + (b + c), d)
  BY <1>1, <1>2, <1>4, PlusAt, b + c \in Int
<1>6. At(Plus(Plus(x, y), z), (a + b) + c, d)
  BY <1>1, <1>2, <1>3, PlusAt, a + b \in Int
<1>7. At(Plus(y, Plus(x, z)), b + (a + c), d)
  BY <1>1, <1>2, <1>4, PlusAt, a + c \in Int
<1>8. a + b = b + a /\ a + (b + c) = (a + b) + c /\ a + (b + c) = b + (a + c)
  OBVIOUS
<1>9. PICK u, v \in Int : u = a + b /\ v = a + (b + c)
  OBVIOUS
<1>10. At(Plus(x, y), u, d) /\ At(Plus(y, x), u, d)
  BY <1>3, <1>8, <1>9
<1>11. At(Plus(x, Plus(y, z)), v, d) /\ At(Plus(Plus(x, y), z), v, d) /\ At(Plus(y, Plus(x, z)), v, d)
  BY <1>5, <1>6, <1>7, <1>8, <1>9
<1> QED BY <1>2, <1>10, <1>11, SameAt

\* Zero adds nothing.
LEMMA PlusZero ==
  ASSUME NEW x, IsFraction(x)
  PROVE  Plus(x, Zero) = x /\ Plus(Zero, x) = x /\ IsFraction(Zero)
<1>1. PICK a \in Int, d \in Nat : d > 0 /\ At(x, a, d)
  BY Parts
<1>2. d \in Int /\ d > 0 /\ 0 \in Int
  BY <1>1
<1>3. At(Zero, 0, d)
  BY <1>2, ZeroAt
<1>4. At(Plus(x, Zero), a + 0, d) /\ At(Plus(Zero, x), 0 + a, d)
  BY <1>1, <1>2, <1>3, PlusAt
<1>5. a + 0 = a /\ 0 + a = a
  OBVIOUS
<1> QED BY <1>1, <1>2, <1>3, <1>4, <1>5, SameAt DEF At

\* A factor is distributed over a sum and a difference.
LEMMA Distributes ==
  ASSUME NEW k, NEW x, NEW y, IsFraction(k), IsFraction(x), IsFraction(y)
  PROVE  /\ Times(k, Plus(x, y)) = Plus(Times(k, x), Times(k, y))
         /\ Times(k, Minus(x, y)) = Minus(Times(k, x), Times(k, y))
         /\ Times(k, x) = Times(x, k)
<1>1. PICK a, b \in Int, d \in Nat : d > 0 /\ At(x, a, d) /\ At(y, b, d)
  BY TwoBase
<1>2. PICK c \in Int, e \in Nat : e > 0 /\ At(k, c, e)
  BY Parts
<1>3. d \in Int /\ d > 0 /\ e \in Int /\ e > 0
  BY <1>1, <1>2
<1>4. At(Plus(x, y), a + b, d) /\ At(Minus(x, y), a - b, d)
  BY <1>1, <1>3, PlusAt
<1>5. At(Times(k, Plus(x, y)), c * (a + b), e * d)
  BY <1>2, <1>3, <1>4, TimesAt, a + b \in Int
<1>6. At(Times(k, Minus(x, y)), c * (a - b), e * d)
  BY <1>2, <1>3, <1>4, TimesAt, a - b \in Int
<1>7. At(Times(k, x), c * a, e * d) /\ At(Times(k, y), c * b, e * d) /\ At(Times(x, k), a * c, d * e)
  BY <1>1, <1>2, <1>3, TimesAt
<1>8. PICK g, ca, cb \in Int : g = e * d /\ ca = c * a /\ cb = c * b
  OBVIOUS
<1>9. g > 0
  <2>1. e * d = (e - 1) * d + d /\ (e - 1) * d >= 0
    BY <1>3
  <2> QED BY <2>1, <1>3, <1>8, (e - 1) * d \in Int
<1>10. c * (a + b) = ca + cb /\ c * (a - b) = ca - cb /\ a * c = ca /\ d * e = g
  BY <1>8
<1>11. At(Times(k, x), ca, g) /\ At(Times(k, y), cb, g) /\ At(Times(x, k), ca, g)
  BY <1>7, <1>8, <1>10
<1>12. At(Plus(Times(k, x), Times(k, y)), ca + cb, g) /\ At(Minus(Times(k, x), Times(k, y)), ca - cb, g)
  BY <1>9, <1>11, PlusAt
<1>13. At(Times(k, Plus(x, y)), ca + cb, g) /\ At(Times(k, Minus(x, y)), ca - cb, g)
  BY <1>5, <1>6, <1>8, <1>10
<1> QED BY <1>9, <1>11, <1>12, <1>13, SameAt, ca + cb \in Int, ca - cb \in Int

\* Multiplying by zero and by one.
LEMMA TimesLaws ==
  ASSUME NEW x, IsFraction(x)
  PROVE  Times(x, Zero) = Zero /\ Times(Zero, x) = Zero /\ Times(One, x) = x /\ Times(x, One) = x
<1>1. PICK a \in Int, d \in Nat : d > 0 /\ At(x, a, d)
  BY Parts
<1>2. d \in Int /\ d > 0 /\ 0 \in Int /\ 1 \in Int /\ 1 > 0
  BY <1>1
<1>3. At(Zero, 0, 1) /\ At(One, 1, 1) /\ At(Zero, 0, d)
  BY <1>2, ZeroAt, OneAt
<1>4. At(Times(x, Zero), a * 0, d * 1) /\ At(Times(Zero, x), 0 * a, 1 * d)
  BY <1>1, <1>2, <1>3, TimesAt
<1>5. At(Times(x, One), a * 1, d * 1) /\ At(Times(One, x), 1 * a, 1 * d)
  BY <1>1, <1>2, <1>3, TimesAt
<1>6. a * 0 = 0 /\ 0 * a = 0 /\ a * 1 = a /\ 1 * a = a /\ d * 1 = d /\ 1 * d = d
  OBVIOUS
<1>7. At(Times(x, Zero), 0, d) /\ At(Times(Zero, x), 0, d) /\ At(Times(x, One), a, d) /\ At(Times(One, x), a, d)
  BY <1>4, <1>5, <1>6
<1> QED BY <1>1, <1>2, <1>3, <1>7, SameAt

\* Dividing and multiplying by the same number.
LEMMA OverTimes ==
  ASSUME NEW x, NEW y, IsFraction(x), IsFraction(y), y # Zero
  PROVE  Times(Over(x, y), y) = x
<1>1. PICK a, b \in Int, d \in Nat : d > 0 /\ At(x, a, d) /\ At(y, b, d)
  BY TwoBase
<1>2. d \in Int /\ d > 0
  BY <1>1
<1>3. b # 0
  BY <1>1, <1>2, ZeroAt, SameAt
<1>4. At(Over(x, y), a, b)
  BY <1>1, <1>2, <1>3, OverAt
<1>5. CASE b > 0
  <2>1. At(Times(Over(x, y), y), a * b, b * d)
    BY <1>1, <1>2, <1>4, <1>5, TimesAt
  <2>2. At(x, a * b, d * b)
    BY <1>1, <1>2, ScaleAt
  <2>3. d * b = b * d /\ b * d > 0 /\ b * d \in Int /\ a * b \in Int
    <3>1. b * d = (b - 1) * d + d /\ (b - 1) * d >= 0
      BY <1>2, <1>5
    <3> QED BY <3>1, <1>2, (b - 1) * d \in Int
  <2> QED BY <2>1, <2>2, <2>3, SameAt
<1>6. CASE b < 0
  <2>1. At(Over(x, y), a * (-1), b * (-1))
    BY <1>4, ScaleAt, -1 \in Int
  <2>2. a * (-1) = -a /\ b * (-1) = -b /\ -b > 0 /\ -a \in Int /\ -b \in Int
    BY <1>6
  <2>3. At(Over(x, y), -a, -b)
    BY <2>1, <2>2
  <2>4. At(Times(Over(x, y), y), (-a) * b, (-b) * d)
    BY <1>1, <1>2, <2>2, <2>3, TimesAt
  <2>5. At(x, a * (-b), d * (-b))
    BY <1>1, <1>2, <2>2, ScaleAt
  <2>6. a * (-b) = (-a) * b /\ d * (-b) = (-b) * d /\ (-b) * d > 0 /\ (-b) * d \in Int /\ (-a) * b \in Int
    <3>1. (-b) * d = (-b - 1) * d + d /\ (-b - 1) * d >= 0
      BY <1>2, <1>6
    <3> QED BY <3>1, <1>2, (-b - 1) * d \in Int
  <2> QED BY <2>4, <2>5, <2>6, SameAt
<1> QED BY <1>3, <1>5, <1>6

\* f has a fraction for every element of S.
AreFractions(f, S) == \A i \in S : IsFraction(f[i])

\* The sum of fractions is a fraction.
LEMMA SumType ==
  ASSUME NEW f, NEW S, IsFiniteSet(S), AreFractions(f, S)
  PROVE  IsFraction(SumOver(f, S))
<1> DEFINE G == {n \in Nat : \A s \in SUBSET S : Cardinality(s) = n => IsFraction(SumOver(f, s))}
<1>1. ASSUME NEW n \in Nat, \A k \in Nat : k < n => k \in G, NEW s \in SUBSET S, Cardinality(s) = n
      PROVE  IsFraction(SumOver(f, s))
  <2>1. CASE s = {}
    BY <2>1, SumEmpty, PlusZero, ZeroAt, 1 \in Int DEF At
  <2>2. CASE s # {}
    <3>1. PICK x \in s : x = PickOf(s)
      BY <2>2, PickIn
    <3>2. IsFiniteSet(s)
      BY FS_Subset, Zenon
    <3>3. IsFiniteSet(s \ {x}) /\ Cardinality(s \ {x}) = (IF x \in s THEN Cardinality(s) - 1 ELSE Cardinality(s))
      BY <3>2, FS_RemoveElement, Zenon
    <3>4. Cardinality(s \ {x}) \in Nat
      BY <3>3, FS_CardinalityType, Zenon
    <3>5. Cardinality(s \ {x}) < n /\ s \ {x} \in SUBSET S
      BY <1>1, <3>3, <3>4
    <3>6. IsFraction(SumOver(f, s \ {x}))
      BY <1>1, <3>4, <3>5
    <3>7. SumOver(f, s) = Plus(f[x], SumOver(f, s \ {x}))
      BY <3>1, <3>2, <2>2, SumPicks
    <3>8. IsFraction(f[x])
      BY DEF AreFractions
    <3> QED BY <3>6, <3>7, <3>8, FractionOps
  <2> QED BY <2>1, <2>2
<1>2. \A n \in Nat : (\A k \in Nat : k < n => k \in G) => n \in G
  BY <1>1
<1>3. Nat \subseteq G
  <2> HIDE DEF G
  <2> QED BY <1>2, NaturalsBelow
<1>4. Cardinality(S) \in Nat /\ S \in SUBSET S
  BY FS_CardinalityType
<1> QED BY <1>3, <1>4

\* The order in which a sum takes its members does not matter.
LEMMA SumLess ==
  ASSUME NEW f, NEW S, IsFiniteSet(S), AreFractions(f, S), NEW x \in S
  PROVE  SumOver(f, S) = Plus(f[x], SumOver(f, S \ {x}))
<1> DEFINE Good(s) == \A i \in s : SumOver(f, s) = Plus(f[i], SumOver(f, s \ {i}))
           G == {n \in Nat : \A s \in SUBSET S : Cardinality(s) = n => Good(s)}
<1>1. ASSUME NEW n \in Nat, \A k \in Nat : k < n => k \in G,
             NEW s \in SUBSET S, Cardinality(s) = n, NEW i \in s
      PROVE  SumOver(f, s) = Plus(f[i], SumOver(f, s \ {i}))
  <2>1. PICK c \in s : c = PickOf(s)
    BY PickIn
  <2>2. IsFiniteSet(s)
    BY FS_Subset, Zenon
  <2>3. SumOver(f, s) = Plus(f[c], SumOver(f, s \ {c}))
    BY <2>1, <2>2, SumPicks
  <2>4. CASE i = c
    BY <2>3, <2>4
  <2>5. CASE i # c
    <3>1. ASSUME NEW j \in s
          PROVE  /\ IsFiniteSet(s \ {j}) /\ s \ {j} \in SUBSET S
                 /\ Cardinality(s \ {j}) \in Nat /\ Cardinality(s \ {j}) < n
      <4>1. IsFiniteSet(s \ {j}) /\ Cardinality(s \ {j}) = (IF j \in s THEN Cardinality(s) - 1 ELSE Cardinality(s))
        BY <2>2, FS_RemoveElement, Zenon
      <4>2. Cardinality(s \ {j}) \in Nat
        BY <4>1, FS_CardinalityType, Zenon
      <4> QED BY <1>1, <4>1, <4>2
    <3>2. Good(s \ {c}) /\ Good(s \ {i})
      BY <3>1, <1>1
    <3>3. SumOver(f, s \ {c}) = Plus(f[i], SumOver(f, (s \ {c}) \ {i}))
      BY <3>2, <2>5
    <3>4. SumOver(f, s \ {i}) = Plus(f[c], SumOver(f, (s \ {i}) \ {c}))
      BY <3>2, <2>5
    <3>5. (s \ {c}) \ {i} = (s \ {i}) \ {c}
      OBVIOUS
    <3>6. IsFiniteSet((s \ {i}) \ {c})
      BY <3>1, FS_RemoveElement, Zenon
    <3>7. AreFractions(f, (s \ {i}) \ {c}) /\ IsFraction(f[i]) /\ IsFraction(f[c])
      BY DEF AreFractions
    <3>8. PICK t : t = SumOver(f, (s \ {i}) \ {c})
      OBVIOUS
    <3>9. IsFraction(t)
      BY <3>6, <3>7, <3>8, SumType
    <3>10. Plus(f[c], Plus(f[i], t)) = Plus(f[i], Plus(f[c], t))
      BY <3>7, <3>9, PlusLaws
    <3> QED BY <2>3, <3>3, <3>4, <3>5, <3>8, <3>10
  <2> QED BY <2>4, <2>5
<1>2. \A n \in Nat : (\A k \in Nat : k < n => k \in G) => n \in G
  BY <1>1
<1>3. Nat \subseteq G
  <2> HIDE DEF G
  <2> QED BY <1>2, NaturalsBelow
<1>4. Cardinality(S) \in Nat /\ S \in SUBSET S
  BY FS_CardinalityType
<1>5. Good(S)
  BY <1>3, <1>4
<1> QED BY <1>5

\* The sum after one more element.
LEMMA SumAdds ==
  ASSUME NEW f, NEW S, IsFiniteSet(S), NEW x, x \notin S, AreFractions(f, S), IsFraction(f[x])
  PROVE  SumOver(f, S \cup {x}) = Plus(f[x], SumOver(f, S))
<1>1. IsFiniteSet(S \cup {x})
  BY FS_AddElement, Zenon
<1>2. AreFractions(f, S \cup {x})
  BY DEF AreFractions
<1>3. (S \cup {x}) \ {x} = S /\ x \in S \cup {x}
  OBVIOUS
<1>4. SumOver(f, S \cup {x}) = Plus(f[x], SumOver(f, (S \cup {x}) \ {x}))
  BY <1>1, <1>2, <1>3, SumLess
<1> QED BY <1>3, <1>4

\* The sum of the multiples is the multiple of the sum.
LEMMA SumTimes ==
  ASSUME NEW k, IsFraction(k), NEW f, NEW e, NEW S, IsFiniteSet(S), AreFractions(f, S),
         \A i \in S : e[i] = Times(k, f[i])
  PROVE  SumOver(e, S) = Times(k, SumOver(f, S))
<1> DEFINE G == {s \in SUBSET S : SumOver(e, s) = Times(k, SumOver(f, s))}
<1>1. {} \in G
  <2>1. SumOver(e, {}) = Zero /\ SumOver(f, {}) = Zero
    BY SumEmpty
  <2> QED BY <2>1, TimesLaws
<1>2. ASSUME NEW s \in SUBSET S, NEW x \in S, s \in G, x \notin s
      PROVE  s \cup {x} \in G
  <2>1. IsFiniteSet(s)
    BY FS_Subset, Zenon
  <2>2. AreFractions(f, s) /\ IsFraction(f[x])
    BY DEF AreFractions
  <2>3. AreFractions(e, s) /\ IsFraction(e[x])
    BY FractionOps DEF AreFractions
  <2>4. SumOver(f, s \cup {x}) = Plus(f[x], SumOver(f, s))
    BY <1>2, <2>1, <2>2, SumAdds
  <2>5. SumOver(e, s \cup {x}) = Plus(e[x], SumOver(e, s))
    BY <1>2, <2>1, <2>3, SumAdds
  <2>6. IsFraction(SumOver(f, s))
    BY <2>1, <2>2, SumType
  <2>7. Times(k, Plus(f[x], SumOver(f, s))) = Plus(Times(k, f[x]), Times(k, SumOver(f, s)))
    BY <2>2, <2>6, Distributes
  <2>8. e[x] = Times(k, f[x]) /\ SumOver(e, s) = Times(k, SumOver(f, s))
    BY <1>2
  <2> QED BY <2>4, <2>5, <2>7, <2>8
<1>3. S \in G
  <2> HIDE DEF G
  <2> QED BY <1>1, <1>2, FiniteFrom
<1> QED BY <1>3

\* The sum of the sums.
LEMMA SumPlus ==
  ASSUME NEW f, NEW e, NEW h, NEW S, IsFiniteSet(S), AreFractions(f, S), AreFractions(e, S),
         \A i \in S : h[i] = Plus(f[i], e[i])
  PROVE  SumOver(h, S) = Plus(SumOver(f, S), SumOver(e, S))
<1> DEFINE G == {s \in SUBSET S : SumOver(h, s) = Plus(SumOver(f, s), SumOver(e, s))}
<1>1. {} \in G
  <2>1. SumOver(e, {}) = Zero /\ SumOver(f, {}) = Zero /\ SumOver(h, {}) = Zero
    BY SumEmpty
  <2>2. IsFraction(Zero)
    BY ZeroAt, 1 \in Int DEF At
  <2> QED BY <2>1, <2>2, PlusZero
<1>2. ASSUME NEW s \in SUBSET S, NEW x \in S, s \in G, x \notin s
      PROVE  s \cup {x} \in G
  <2>1. IsFiniteSet(s)
    BY FS_Subset, Zenon
  <2>2. AreFractions(f, s) /\ IsFraction(f[x]) /\ AreFractions(e, s) /\ IsFraction(e[x])
    BY DEF AreFractions
  <2>3. AreFractions(h, s) /\ IsFraction(h[x])
    BY FractionOps DEF AreFractions
  <2>4. SumOver(f, s \cup {x}) = Plus(f[x], SumOver(f, s))
    BY <1>2, <2>1, <2>2, SumAdds
  <2>5. SumOver(e, s \cup {x}) = Plus(e[x], SumOver(e, s))
    BY <1>2, <2>1, <2>2, SumAdds
  <2>6. SumOver(h, s \cup {x}) = Plus(h[x], SumOver(h, s))
    BY <1>2, <2>1, <2>3, SumAdds
  <2>7. PICK a, b, c, d : a = f[x] /\ b = e[x] /\ c = SumOver(f, s) /\ d = SumOver(e, s)
    OBVIOUS
  <2>8. IsFraction(a) /\ IsFraction(b) /\ IsFraction(c) /\ IsFraction(d)
    BY <2>1, <2>2, <2>7, SumType
  <2>9. h[x] = Plus(a, b) /\ SumOver(h, s) = Plus(c, d)
    BY <1>2, <2>7
  <2>10. Plus(Plus(a, b), Plus(c, d)) = Plus(Plus(a, c), Plus(b, d))
    <3>1. IsFraction(Plus(c, d)) /\ IsFraction(Plus(b, d))
      BY <2>8, FractionOps
    <3>2. Plus(Plus(a, b), Plus(c, d)) = Plus(a, Plus(b, Plus(c, d)))
      BY <2>8, <3>1, PlusLaws
    <3>3. Plus(b, Plus(c, d)) = Plus(c, Plus(b, d))
      BY <2>8, PlusLaws
    <3>4. Plus(a, Plus(c, Plus(b, d))) = Plus(Plus(a, c), Plus(b, d))
      BY <2>8, <3>1, PlusLaws
    <3> QED BY <3>2, <3>3, <3>4
  <2> QED BY <2>4, <2>5, <2>6, <2>7, <2>9, <2>10
<1>3. S \in G
  <2> HIDE DEF G
  <2> QED BY <1>1, <1>2, FiniteFrom
<1> QED BY <1>3

\* The sign of a product.
LEMMA ProductPositive ==
  ASSUME NEW a \in Int, NEW b \in Int, b > 0
  PROVE  (a >= 0 => a * b >= 0) /\ (a > 0 => a * b > 0)
<1>1. a > 0 => a * b = (a - 1) * b + b /\ (a - 1) * b >= 0
  OBVIOUS
<1>2. a >= 0 => a * b >= 0
  OBVIOUS
<1> QED BY <1>1, <1>2, (a - 1) * b \in Int

\* What is positive is not zero.
LEMMA PositiveFacts ==
  ASSUME NEW x, IsFraction(x), IsPositive(x)
  PROVE  x # Zero /\ IsAmount(x)
<1>1. PICK p \in Int, q \in Nat : x = <<p, q>>
  BY Parts
<1> QED BY <1>1 DEF IsPositive, IsAmount, IsNegative, Zero, Whole

\* Dividing by a total and multiplying by another.
LEMMA OverSwaps ==
  ASSUME NEW x, NEW y, NEW z, IsFraction(x), IsFraction(y), IsFraction(z), IsPositive(y)
  PROVE  Times(Over(x, y), z) = Times(Over(z, y), x)
<1>1. PICK a, b, c \in Int, d \in Nat : d > 0 /\ At(x, a, d) /\ At(y, b, d) /\ At(z, c, d)
  BY ThreeBase
<1>2. d \in Int /\ d > 0
  BY <1>1
<1>3. b > 0
  BY <1>1, <1>2, OrderAt
<1>4. At(Over(x, y), a, b) /\ At(Over(z, y), c, b)
  BY <1>1, <1>2, <1>3, OverAt
<1>5. At(Times(Over(x, y), z), a * c, b * d) /\ At(Times(Over(z, y), x), c * a, b * d)
  BY <1>1, <1>2, <1>3, <1>4, TimesAt
<1>6. a * c = c * a /\ b * d \in Int /\ b * d > 0 /\ a * c \in Int
  BY <1>2, <1>3, ProductPositive
<1> QED BY <1>5, <1>6, SameAt

\* Amounts give amounts.
LEMMA AmountOps ==
  ASSUME NEW x, NEW y, IsAmount(x), IsAmount(y)
  PROVE  /\ IsAmount(Plus(x, y)) /\ IsAmount(Times(x, y))
         /\ IsPositive(y) => IsAmount(Over(x, y))
<1>1. PICK a, b \in Int, d \in Nat : d > 0 /\ At(x, a, d) /\ At(y, b, d)
  BY TwoBase DEF IsAmount
<1>2. d \in Int /\ d > 0
  BY <1>1
<1>3. a >= 0 /\ b >= 0 /\ (IsPositive(y) <=> b > 0)
  <2>1. (IsNegative(x) <=> a < 0) /\ (IsNegative(y) <=> b < 0) /\ (IsPositive(y) <=> b > 0)
    BY <1>1, <1>2, OrderAt
  <2> QED BY <2>1 DEF IsAmount
<1>4. ASSUME NEW z, NEW c \in Int, NEW e \in Int, e > 0, At(z, c, e), c >= 0
      PROVE  IsAmount(z)
  <2>1. IsNegative(z) <=> c < 0
    BY <1>4, OrderAt
  <2> QED BY <1>4, <2>1 DEF IsAmount, At
<1>5. IsAmount(Plus(x, y))
  <2>1. At(Plus(x, y), a + b, d)
    BY <1>1, <1>2, PlusAt
  <2> QED BY <1>2, <1>3, <1>4, <2>1, a + b \in Int
<1>6. IsAmount(Times(x, y))
  <2>1. At(Times(x, y), a * b, d * d)
    BY <1>1, <1>2, TimesAt
  <2>2. d * d \in Int /\ d * d > 0
    BY <1>2, ProductPositive
  <2>3. a * b \in Int /\ a * b >= 0
    BY <1>3
  <2> QED BY <1>4, <2>1, <2>2, <2>3
<1>7. IsPositive(y) => IsAmount(Over(x, y))
  <2>1. b > 0 => At(Over(x, y), a, b)
    BY <1>1, <1>2, OverAt
  <2> QED BY <1>3, <1>4, <2>1
<1> QED BY <1>5, <1>6, <1>7

\* Four fractions over one denominator.
FourOver(x, y, z, t) == \E a, b, c, e \in Int, d \in Nat :
  d > 0 /\ At(x, a, d) /\ At(y, b, d) /\ At(z, c, d) /\ At(t, e, d)
LEMMA FourBase ==
  ASSUME NEW x, NEW y, NEW z, NEW t, IsFraction(x), IsFraction(y), IsFraction(z), IsFraction(t)
  PROVE  FourOver(x, y, z, t)
<1>1. PICK p, r, u \in Int, q \in Nat : q > 0 /\ At(x, p, q) /\ At(y, r, q) /\ At(z, u, q)
  BY ThreeBase
<1>2. PICK v \in Int, s \in Nat : s > 0 /\ At(t, v, s)
  BY Parts
<1>3. PICK a, b, c, e, d \in Int : a = p * s /\ b = r * s /\ c = u * s /\ e = v * q /\ d = q * s
  OBVIOUS
<1>4. At(x, a, d) /\ At(y, b, d) /\ At(z, c, d)
  BY <1>1, <1>2, <1>3, ScaleAt, q \in Int, s \in Int
<1>5. s * q = q * s
  OBVIOUS
<1>6. At(t, e, d)
  BY <1>1, <1>2, <1>3, <1>5, ScaleAt, q \in Int, s \in Int
<1>7. d \in Nat /\ d > 0
  BY <1>1, <1>2, <1>3, ProductPositive, q \in Int, s \in Int
<1> QED BY <1>4, <1>6, <1>7 DEF FourOver

\* A fraction has one numerator over a denominator.
LEMMA NumeratorAt ==
  ASSUME NEW x, NEW a \in Int, NEW b \in Int, NEW d \in Int, At(x, a, d), At(x, b, d)
  PROVE  a = b
<1>1. PICK p \in Int, q \in Nat : x = <<p, q>> /\ q > 0
  BY Parts DEF At
<1>2. p * d = a * q /\ p * d = b * q
  BY <1>1 DEF At
<1>3. a * q = b * q /\ q \in Int /\ q > 0
  BY <1>1, <1>2
<1> QED BY <1>3, Cancel

\* Eight fractions over one denominator.
Eight(x1, x2, x3, x4, x5, x6, x7, x8) ==
  /\ IsFraction(x1) /\ IsFraction(x2) /\ IsFraction(x3) /\ IsFraction(x4)
  /\ IsFraction(x5) /\ IsFraction(x6) /\ IsFraction(x7) /\ IsFraction(x8)
LEMMA EightBase ==
  ASSUME NEW x1, NEW x2, NEW x3, NEW x4, NEW x5, NEW x6, NEW x7, NEW x8,
         Eight(x1, x2, x3, x4, x5, x6, x7, x8)
  PROVE  \E a1, a2, a3, a4, a5, a6, a7, a8 \in Int, d \in Nat :
           /\ d > 0 /\ At(x1, a1, d) /\ At(x2, a2, d) /\ At(x3, a3, d) /\ At(x4, a4, d)
           /\ At(x5, a5, d) /\ At(x6, a6, d) /\ At(x7, a7, d) /\ At(x8, a8, d)
<1>1. PICK p1, p2, p3, p4 \in Int, q \in Nat :
        q > 0 /\ At(x1, p1, q) /\ At(x2, p2, q) /\ At(x3, p3, q) /\ At(x4, p4, q)
  <2>1. IsFraction(x1) /\ IsFraction(x2) /\ IsFraction(x3) /\ IsFraction(x4)
    BY DEF Eight
  <2>2. FourOver(x1, x2, x3, x4)
    BY <2>1, FourBase
  <2> QED BY <2>2 DEF FourOver
<1>2. PICK r1, r2, r3, r4 \in Int, s \in Nat :
        s > 0 /\ At(x5, r1, s) /\ At(x6, r2, s) /\ At(x7, r3, s) /\ At(x8, r4, s)
  <2>1. IsFraction(x5) /\ IsFraction(x6) /\ IsFraction(x7) /\ IsFraction(x8)
    BY DEF Eight
  <2>2. FourOver(x5, x6, x7, x8)
    BY <2>1, FourBase
  <2> QED BY <2>2 DEF FourOver
<1>3. PICK a1, a2, a3, a4, d \in Int :
        a1 = p1 * s /\ a2 = p2 * s /\ a3 = p3 * s /\ a4 = p4 * s /\ d = q * s
  OBVIOUS
<1>4. PICK a5, a6, a7, a8 \in Int : a5 = r1 * q /\ a6 = r2 * q /\ a7 = r3 * q /\ a8 = r4 * q
  OBVIOUS
<1>5. At(x1, a1, d) /\ At(x2, a2, d) /\ At(x3, a3, d) /\ At(x4, a4, d)
  BY <1>1, <1>3, ScaleAt, q \in Int, s \in Int
<1>6. s * q = q * s
  OBVIOUS
<1>7. At(x5, a5, d) /\ At(x6, a6, d) /\ At(x7, a7, d) /\ At(x8, a8, d)
  BY <1>2, <1>3, <1>4, <1>6, ScaleAt, q \in Int, s \in Int
<1>8. d \in Nat /\ d > 0
  BY <1>1, <1>2, <1>3, ProductPositive, q \in Int, s \in Int
<1> QED BY <1>5, <1>7, <1>8

\* Zero and one are amounts, and no amount is missing.
LEMMA ZeroAmount == IsAmount(Zero) /\ IsAmount(One) /\ IsFraction(Zero) /\ IsFraction(One)
<1>1. At(Zero, 0, 1) /\ At(One, 1, 1)
  BY WholeAt DEF Zero, One
<1>2. IsFraction(Zero) /\ IsFraction(One)
  BY <1>1 DEF At
<1>3. ~IsNegative(Zero) /\ ~IsNegative(One)
  BY DEF IsNegative, Zero, One, Whole
<1> QED BY <1>2, <1>3 DEF IsAmount

LEMMA DefaultFacts ==
  ASSUME NEW x, NEW y, IsOptional(x), IsAmount(y)
  PROVE  IsAmount(Default(x, y)) /\ (Given(x) => IsAmount(x) /\ Default(x, y) = x)
BY DEF IsOptional, Default, Given

LEMMA AmountGiven ==
  ASSUME NEW x, IsFraction(x)
  PROVE  Given(x)
BY DEF IsFraction, Given, NoData

\* An amount that is not zero is positive, and one that is not positive is zero.
LEMMA AmountIsPositive ==
  ASSUME NEW x, IsAmount(x)
  PROVE  (x # Zero => IsPositive(x)) /\ (~IsPositive(x) => x = Zero)
<1>1. PICK p \in Int, q \in Nat : x = <<p, q>> /\ q > 0 /\ At(x, p, q)
  BY Parts DEF IsAmount
<1>2. p >= 0
  BY <1>1 DEF IsAmount, IsNegative
<1>3. CASE p > 0
  BY <1>1, <1>3 DEF IsPositive, Zero, Whole
<1>4. CASE p = 0
  <2>1. At(x, 0, q) /\ At(Zero, 0, q) /\ q \in Int
    BY <1>1, <1>4, ZeroAt
  <2>2. x = Zero
    BY <1>1, <2>1, SameAt, 0 \in Int
  <2>3. ~IsPositive(x)
    BY <1>1, <1>4 DEF IsPositive
  <2> QED BY <2>2, <2>3
<1> QED BY <1>2, <1>3, <1>4

\* What is positive with an amount is positive.
LEMMA PositiveSum ==
  ASSUME NEW x, NEW y, IsAmount(x), IsAmount(y), IsPositive(x) \/ IsPositive(y)
  PROVE  IsPositive(Plus(x, y))
<1>1. PICK a, b \in Int, d \in Nat : d > 0 /\ At(x, a, d) /\ At(y, b, d)
  BY TwoBase DEF IsAmount
<1>2. d \in Int /\ d > 0
  BY <1>1
<1>3. a >= 0 /\ b >= 0 /\ (a > 0 \/ b > 0)
  BY <1>1, <1>2, OrderAt DEF IsAmount
<1>4. At(Plus(x, y), a + b, d)
  BY <1>1, <1>2, PlusAt
<1>5. a + b > 0
  BY <1>3
<1> QED BY <1>2, <1>4, <1>5, OrderAt, a + b \in Int

\* Taking away and putting back.
LEMMA MinusPlus ==
  ASSUME NEW x, NEW y, IsFraction(x), IsFraction(y)
  PROVE  Plus(Minus(x, y), y) = x /\ Minus(x, Zero) = x /\ Minus(Plus(x, y), x) = y
         /\ Plus(x, Minus(y, x)) = y
<1>1. PICK a, b \in Int, d \in Nat : d > 0 /\ At(x, a, d) /\ At(y, b, d)
  BY TwoBase
<1>2. d \in Int /\ d > 0
  BY <1>1
<1>3. At(Minus(x, y), a - b, d) /\ At(Plus(x, y), a + b, d) /\ At(Minus(y, x), b - a, d)
  BY <1>1, <1>2, PlusAt
<1>4. At(Plus(Minus(x, y), y), (a - b) + b, d) /\ At(Minus(Plus(x, y), x), (a + b) - a, d)
      /\ At(Plus(x, Minus(y, x)), a + (b - a), d)
  BY <1>1, <1>2, <1>3, PlusAt, a - b \in Int, a + b \in Int, b - a \in Int
<1>5. At(Zero, 0, d)
  BY <1>2, ZeroAt
<1>6. At(Minus(x, Zero), a - 0, d)
  BY <1>1, <1>2, <1>5, PlusAt, 0 \in Int
<1>7. (a - b) + b = a /\ (a + b) - a = b /\ a + (b - a) = b /\ a - 0 = a
  OBVIOUS
<1> QED BY <1>1, <1>2, <1>4, <1>6, <1>7, SameAt

\* Sums of two and of three.
LEMMA SumTwo ==
  ASSUME NEW f, NEW x, NEW y, x # y, IsFraction(f[x]), IsFraction(f[y])
  PROVE  SumOver(f, {x, y}) = Plus(f[x], f[y]) /\ SumOver(f, {y}) = f[y]
<1>1. IsFiniteSet({}) /\ AreFractions(f, {}) /\ y \notin {} /\ {} \cup {y} = {y}
  BY FS_EmptySet DEF AreFractions
<1>2. SumOver(f, {} \cup {y}) = Plus(f[y], SumOver(f, {}))
  BY <1>1, SumAdds, Zenon
<1>3. SumOver(f, {y}) = f[y]
  BY <1>1, <1>2, SumEmpty, PlusZero
<1>4. IsFiniteSet({y}) /\ AreFractions(f, {y}) /\ x \notin {y} /\ {y} \cup {x} = {x, y}
  BY FS_Singleton DEF AreFractions
<1>5. SumOver(f, {y} \cup {x}) = Plus(f[x], SumOver(f, {y}))
  BY <1>4, SumAdds, Zenon
<1> QED BY <1>3, <1>4, <1>5

Three(f, x, y, z) ==
  x # y /\ x # z /\ y # z /\ IsFraction(f[x]) /\ IsFraction(f[y]) /\ IsFraction(f[z])
LEMMA SumThree ==
  ASSUME NEW f, NEW x, NEW y, NEW z, Three(f, x, y, z)
  PROVE  SumOver(f, {x, y, z}) = Plus(f[x], Plus(f[y], f[z]))
<1>0. x # y /\ x # z /\ y # z /\ IsFraction(f[x]) /\ IsFraction(f[y]) /\ IsFraction(f[z])
  BY DEF Three
<1>1. IsFiniteSet({y, z}) /\ AreFractions(f, {y, z}) /\ x \notin {y, z}
      /\ {y, z} \cup {x} = {x, y, z}
  <2>1. IsFiniteSet({z})
    BY FS_Singleton
  <2>2. {z} \cup {y} = {y, z}
    OBVIOUS
  <2>3. IsFiniteSet({z} \cup {y})
    BY <2>1, FS_AddElement, Zenon
  <2> QED BY <1>0, <2>2, <2>3 DEF AreFractions
<1>2. SumOver(f, {y, z} \cup {x}) = Plus(f[x], SumOver(f, {y, z}))
  BY <1>0, <1>1, SumAdds, Zenon
<1> QED BY <1>0, <1>1, <1>2, SumTwo

\* The same money in the units of the department and in those of the one before.
LEMMA UnitsConverted ==
  ASSUME NEW o, NEW v, NEW f, IsFraction(o), IsFraction(v), IsFraction(f), IsPositive(f)
  PROVE  Times(Times(o, f), Over(v, f)) = Times(o, v)
<1>1. PICK a, b, c \in Int, d \in Nat : d > 0 /\ At(o, a, d) /\ At(v, b, d) /\ At(f, c, d)
  BY ThreeBase
<1>2. d \in Int /\ d > 0 /\ c > 0
  BY <1>1, OrderAt
<1>3. PICK k, l, n \in Int : k = a * c /\ l = d * d /\ n = a * b
  OBVIOUS
<1>4. l > 0
  BY <1>2, <1>3, ProductPositive
<1>5. At(Times(o, f), k, l) /\ At(Over(v, f), b, c) /\ At(Times(o, v), n, l)
  BY <1>1, <1>2, <1>3, TimesAt, OverAt
<1>6. At(Times(Times(o, f), Over(v, f)), k * b, l * c)
  BY <1>2, <1>4, <1>5, TimesAt
<1>7. At(Times(o, v), n * c, l * c)
  BY <1>5, ScaleAt
<1>8. k * b = n * c
  <2>1. (a * c) * b = (a * b) * c
    OBVIOUS
  <2> QED BY <2>1, <1>3
<1>9. l * c > 0 /\ l * c \in Int /\ n * c \in Int
  BY <1>2, <1>4, ProductPositive
<1> QED BY <1>6, <1>7, <1>8, <1>9, SameAt

\* Four amounts in another order.
LEMMA Regroup ==
  ASSUME NEW x, NEW i, NEW p, NEW o, IsFraction(x), IsFraction(i), IsFraction(p), IsFraction(o)
  PROVE  /\ Plus(Plus(Plus(x, i), p), o) = Plus(Plus(x, p), Plus(i, o))
         /\ Plus(Plus(Plus(i, p), Minus(Minus(Minus(x, o), i), p)), o) = x
<1>1. PICK a, b, c, e \in Int, d \in Nat :
        d > 0 /\ At(x, a, d) /\ At(i, b, d) /\ At(p, c, d) /\ At(o, e, d)
  <2>1. FourOver(x, i, p, o)
    BY FourBase
  <2> QED BY <2>1 DEF FourOver
<1>2. d \in Int /\ d > 0 /\ a + b \in Int /\ (a + b) + c \in Int /\ a + c \in Int /\ b + e \in Int
      /\ (a + c) + (b + e) \in Int /\ b + c \in Int /\ a - e \in Int /\ (a - e) - b \in Int
      /\ ((a - e) - b) - c \in Int /\ (b + c) + (((a - e) - b) - c) \in Int
  BY <1>1
<1>3. At(Plus(x, i), a + b, d) /\ At(Plus(x, p), a + c, d) /\ At(Plus(i, o), b + e, d)
      /\ At(Plus(i, p), b + c, d) /\ At(Minus(x, o), a - e, d)
  BY <1>1, <1>2, PlusAt
<1>4. At(Plus(Plus(x, i), p), (a + b) + c, d) /\ At(Plus(Plus(x, p), Plus(i, o)), (a + c) + (b + e), d)
      /\ At(Minus(Minus(x, o), i), (a - e) - b, d)
  BY <1>1, <1>2, <1>3, PlusAt
<1>5. At(Plus(Plus(Plus(x, i), p), o), ((a + b) + c) + e, d)
      /\ At(Minus(Minus(Minus(x, o), i), p), ((a - e) - b) - c, d)
  BY <1>1, <1>2, <1>4, PlusAt
<1>6. At(Plus(Plus(i, p), Minus(Minus(Minus(x, o), i), p)), (b + c) + (((a - e) - b) - c), d)
  BY <1>1, <1>2, <1>3, <1>5, PlusAt
<1>7. At(Plus(Plus(Plus(i, p), Minus(Minus(Minus(x, o), i), p)), o),
         ((b + c) + (((a - e) - b) - c)) + e, d)
  BY <1>1, <1>2, <1>6, PlusAt
<1>8. ((a + b) + c) + e = (a + c) + (b + e) /\ ((b + c) + (((a - e) - b) - c)) + e = a
  BY <1>1
<1> QED BY <1>1, <1>2, <1>4, <1>5, <1>7, <1>8, SameAt

\* What each one passes on to the next cancels out in the sum.
LEMMA Telescopes ==
  ASSUME NEW n \in Nat, NEW f, NEW g, NEW o, AreFractions(f, 1 .. n), AreFractions(g, 1 .. n),
         AreFractions(o, 0 .. n), o[0] = Zero,
         \A d \in 1 .. n : Plus(f[d], o[d - 1]) = Plus(g[d], o[d])
  PROVE  SumOver(f, 1 .. n) = Plus(SumOver(g, 1 .. n), o[n])
<1> DEFINE G == {k \in Nat : k <= n => SumOver(f, 1 .. k) = Plus(SumOver(g, 1 .. k), o[k])}
<1>1. 0 \in G
  <2>1. 1 .. 0 = {}
    OBVIOUS
  <2>2. Plus(Zero, Zero) = Zero
    BY PlusZero, ZeroAmount
  <2> QED BY <2>1, <2>2, SumEmpty
<1>2. ASSUME NEW k \in Nat, k \in G
      PROVE  k + 1 \in G
  <2> SUFFICES ASSUME k + 1 <= n
               PROVE  SumOver(f, 1 .. k + 1) = Plus(SumOver(g, 1 .. k + 1), o[k + 1])
    OBVIOUS
  <2>1. SumOver(f, 1 .. k) = Plus(SumOver(g, 1 .. k), o[k])
    BY <1>2
  <2>2. k + 1 \in 1 .. n /\ k \in 0 .. n /\ k + 1 \in 0 .. n /\ 1 .. k \subseteq 1 .. n
        /\ (k + 1) - 1 = k
    OBVIOUS
  <2>3. AreFractions(f, 1 .. k) /\ AreFractions(g, 1 .. k)
        /\ IsFraction(f[k + 1]) /\ IsFraction(g[k + 1]) /\ IsFraction(o[k]) /\ IsFraction(o[k + 1])
    BY <2>2 DEF AreFractions
  <2>4. IsFiniteSet(1 .. k)
    BY FS_Interval, 1 \in Int, k \in Int
  <2>5. (1 .. k) \cup {k + 1} = 1 .. k + 1 /\ k + 1 \notin 1 .. k
    OBVIOUS
  <2>6. SumOver(f, 1 .. k + 1) = Plus(f[k + 1], SumOver(f, 1 .. k))
        /\ SumOver(g, 1 .. k + 1) = Plus(g[k + 1], SumOver(g, 1 .. k))
    <3>1. SumOver(f, (1 .. k) \cup {k + 1}) = Plus(f[k + 1], SumOver(f, 1 .. k))
      BY <2>3, <2>4, <2>5, SumAdds, Zenon
    <3>2. SumOver(g, (1 .. k) \cup {k + 1}) = Plus(g[k + 1], SumOver(g, 1 .. k))
      BY <2>3, <2>4, <2>5, SumAdds, Zenon
    <3> QED BY <3>1, <3>2, <2>5
  <2>7. PICK x, y, z, t, S : /\ x = f[k + 1] /\ y = g[k + 1] /\ z = o[k] /\ t = o[k + 1]
                             /\ S = SumOver(g, 1 .. k)
    OBVIOUS
  <2>8. IsFraction(S)
    BY <2>3, <2>4, <2>7, SumType
  <2>9. IsFraction(x) /\ IsFraction(y) /\ IsFraction(z) /\ IsFraction(t)
    BY <2>3, <2>7
  <2>10. Plus(x, z) = Plus(y, t)
    <3>1. Plus(f[k + 1], o[(k + 1) - 1]) = Plus(g[k + 1], o[k + 1])
      BY <2>2
    <3> QED BY <2>2, <2>7, <3>1
  <2>11. Plus(x, Plus(S, z)) = Plus(S, Plus(x, z))
    BY <2>8, <2>9, PlusLaws
  <2>12. Plus(S, Plus(y, t)) = Plus(Plus(S, y), t) /\ Plus(S, y) = Plus(y, S)
    BY <2>8, <2>9, PlusLaws
  <2>13. Plus(x, Plus(S, z)) = Plus(Plus(y, S), t)
    BY <2>10, <2>11, <2>12
  <2> QED BY <2>1, <2>6, <2>7, <2>13
<1>3. Nat \subseteq G
  <2> HIDE DEF G
  <2> QED BY <1>1, <1>2, NaturalsFrom
<1> QED BY <1>3

\* Part of an amount, and the rest of it.
LEMMA PartOfAmount ==
  ASSUME NEW c, NEW mo, NEW rest, IsAmount(c), IsAmount(mo), IsAmount(rest),
         IsPositive(Plus(mo, rest))
  PROVE  LET x == Times(c, Over(mo, Plus(mo, rest))) IN IsAmount(x) /\ IsAmount(Minus(c, x))
<1> DEFINE x == Times(c, Over(mo, Plus(mo, rest)))
<1>1. PICK a, b, e \in Int, d \in Nat : d > 0 /\ At(mo, a, d) /\ At(rest, b, d) /\ At(c, e, d)
  BY ThreeBase DEF IsAmount
<1>2. d \in Int /\ d > 0 /\ a + b \in Int
  BY <1>1
<1>3. At(Plus(mo, rest), a + b, d)
  BY <1>1, <1>2, PlusAt
<1>4. a + b > 0 /\ b >= 0 /\ e >= 0
  <2>1. a + b > 0
    BY <1>2, <1>3, OrderAt
  <2>2. ~(b < 0) /\ ~(e < 0)
    BY <1>1, <1>2, OrderAt DEF IsAmount
  <2> QED BY <1>1, <2>1, <2>2
<1>5. At(Over(mo, Plus(mo, rest)), a, a + b)
  BY <1>1, <1>2, <1>3, <1>4, OverAt
<1>6. At(x, e * a, d * (a + b)) /\ At(c, e * (a + b), d * (a + b))
  <2>1. At(x, e * a, d * (a + b))
    BY <1>1, <1>2, <1>4, <1>5, TimesAt
  <2> QED BY <2>1, <1>1, <1>2, ScaleAt
<1>7. PICK k, l, n \in Int : k = e * a /\ l = e * (a + b) /\ n = d * (a + b)
  BY <1>1
<1>8. n > 0 /\ l - k >= 0 /\ l - k \in Int
  <2>1. n > 0
    BY <1>2, <1>4, <1>7, ProductPositive
  <2>2. e * (a + b) - e * a = b * e
    BY <1>1
  <2>3. b * e >= 0
    <3>1. CASE e = 0
      BY <3>1, <1>1
    <3>2. CASE e > 0
      BY <3>2, <1>1, <1>4, ProductPositive
    <3> QED BY <3>1, <3>2, <1>1, <1>4
  <2> QED BY <2>1, <2>2, <2>3, <1>7
<1>9. IsAmount(x)
  <2>1. IsPositive(Plus(mo, rest)) /\ IsAmount(Plus(mo, rest))
    BY AmountOps
  <2>2. IsAmount(Over(mo, Plus(mo, rest)))
    BY <2>1, AmountOps
  <2> QED BY <2>2, AmountOps
<1>10. IsFraction(Minus(c, x))
  BY <1>9, FractionOps DEF IsAmount
<1>11. At(Minus(c, x), l - k, n)
  BY <1>6, <1>7, <1>8, PlusAt
<1>12. ~IsNegative(Minus(c, x))
  BY <1>8, <1>11, OrderAt
<1> QED BY <1>9, <1>10, <1>12 DEF IsAmount

\* Two fractions of one value are one, over a denominator of whatever sign.
LEMMA SameOver ==
  ASSUME NEW x, NEW y, NEW n \in Int, NEW d \in Int, d # 0, At(x, n, d), At(y, n, d)
  PROVE  x = y
<1>1. CASE d > 0
  BY <1>1, SameAt
<1>2. CASE d < 0
  <2>1. -1 \in Int /\ n * (-1) \in Int /\ d * (-1) \in Int /\ d * (-1) > 0
    BY <1>2
  <2>2. At(x, n * (-1), d * (-1)) /\ At(y, n * (-1), d * (-1))
    BY <2>1, ScaleAt
  <2> QED BY <2>1, <2>2, SameAt
<1> QED BY <1>1, <1>2

\* A positive factor keeps the sign and what is nothing.
LEMMA FactorKeepsSign ==
  ASSUME NEW k, NEW x, IsFraction(k), IsPositive(k), IsFraction(x)
  PROVE  /\ IsFraction(Times(k, x))
         /\ IsPositive(Times(k, x)) <=> IsPositive(x)
         /\ IsNegative(Times(k, x)) <=> IsNegative(x)
         /\ Times(k, x) = Zero <=> x = Zero
<1>1. PICK a \in Int, d \in Nat : d > 0 /\ At(x, a, d)
  BY Parts
<1>2. PICK c \in Int, e \in Nat : e > 0 /\ At(k, c, e)
  BY Parts
<1>3. d \in Int /\ d > 0 /\ e \in Int /\ e > 0 /\ 0 \in Int /\ 1 \in Int
  BY <1>1, <1>2
<1>4. c > 0
  BY <1>2, <1>3, OrderAt
<1>5. At(Times(k, x), c * a, e * d)
  BY <1>1, <1>2, <1>3, TimesAt
<1>6. e * d \in Int /\ e * d > 0 /\ c * a \in Int
  BY <1>3, ProductPositive
<1>7. (c * a > 0 <=> a > 0) /\ (c * a < 0 <=> a < 0) /\ (c * a = 0 <=> a = 0)
  <2>1. (0 < a <=> 0 * c < a * c) /\ (a < 0 <=> a * c < 0 * c)
    BY <1>4, Cancel, 0 \in Int
  <2>2. a * c = c * a /\ 0 * c = 0
    OBVIOUS
  <2> QED BY <2>1, <2>2
<1>8. (IsPositive(x) <=> a > 0) /\ (IsNegative(x) <=> a < 0)
  BY <1>1, <1>3, OrderAt
<1>9. (IsPositive(Times(k, x)) <=> c * a > 0) /\ (IsNegative(Times(k, x)) <=> c * a < 0)
  BY <1>5, <1>6, OrderAt
<1>10. x = Zero => Times(k, x) = Zero
  BY TimesLaws
<1>11. ASSUME Times(k, x) = Zero PROVE x = Zero
  <2>1. ~IsPositive(Zero) /\ ~IsNegative(Zero)
    BY DEF IsPositive, IsNegative, Zero, Whole
  <2>2. a = 0
    BY <1>7, <1>8, <1>9, <1>11, <2>1
  <2>3. At(x, 0, d) /\ At(Zero, 0, d)
    BY <1>1, <1>3, <2>2, ZeroAt
  <2> QED BY <1>3, <2>3, SameAt
<1>12. IsFraction(Times(k, x))
  BY FractionOps
<1> QED BY <1>7, <1>8, <1>9, <1>10, <1>11, <1>12

\* A factor of both sides of a quotient cancels.
LEMMA FactorCancels ==
  ASSUME NEW k, NEW x, NEW y, IsFraction(k), k # Zero, IsFraction(x), IsFraction(y), y # Zero
  PROVE  Over(Times(k, x), Times(k, y)) = Over(x, y)
<1>1. PICK a, b \in Int, d \in Nat : d > 0 /\ At(x, a, d) /\ At(y, b, d)
  BY TwoBase
<1>2. PICK c \in Int, e \in Nat : e > 0 /\ At(k, c, e)
  BY Parts
<1>3. d \in Int /\ d > 0 /\ e \in Int /\ e > 0
  BY <1>1, <1>2
<1>4. b # 0 /\ c # 0
  BY <1>1, <1>2, <1>3, ZeroAt, SameAt
<1>5. PICK p, q, g \in Int : p = c * a /\ q = c * b /\ g = e * d
  OBVIOUS
<1>6. g > 0
  BY <1>3, <1>5, ProductPositive
<1>7. At(Times(k, x), p, g) /\ At(Times(k, y), q, g)
  BY <1>1, <1>2, <1>3, <1>5, TimesAt
<1>8. q # 0
  BY <1>4, <1>5
<1>9. At(Over(Times(k, x), Times(k, y)), p, q)
  BY <1>6, <1>7, <1>8, OverAt
<1>10. At(Over(x, y), a, b)
  BY <1>1, <1>3, <1>4, OverAt
<1>11. At(Over(x, y), a * c, b * c)
  BY <1>10, ScaleAt
<1>12. a * c = p /\ b * c = q
  BY <1>5
<1> QED BY <1>8, <1>9, <1>11, <1>12, SameOver

\* Products in another order.
LEMMA TimesSwaps ==
  ASSUME NEW x, NEW y, NEW z, IsFraction(x), IsFraction(y), IsFraction(z)
  PROVE  Times(x, Times(y, z)) = Times(y, Times(x, z)) /\ Times(x, y) = Times(y, x)
<1>1. PICK a, b, c \in Int, d \in Nat : d > 0 /\ At(x, a, d) /\ At(y, b, d) /\ At(z, c, d)
  BY ThreeBase
<1>2. d \in Int /\ d > 0
  BY <1>1
<1>3. PICK m, n, g, u \in Int : m = b * c /\ n = a * c /\ g = d * d /\ u = a * b
  OBVIOUS
<1>4. g > 0
  BY <1>2, <1>3, ProductPositive
<1>5. At(Times(y, z), m, g) /\ At(Times(x, z), n, g)
  BY <1>1, <1>2, <1>3, TimesAt
<1>6. At(Times(x, Times(y, z)), a * m, d * g) /\ At(Times(y, Times(x, z)), b * n, d * g)
  BY <1>1, <1>2, <1>4, <1>5, TimesAt
<1>7. a * m = b * n /\ a * m \in Int /\ d * g \in Int /\ d * g > 0
  <2>1. a * m = a * (b * c) /\ b * n = b * (a * c) /\ a * (b * c) = b * (a * c)
    BY <1>3
  <2> QED BY <2>1, <1>2, <1>4, ProductPositive
<1>8. At(Times(x, y), a * b, d * d) /\ At(Times(y, x), b * a, d * d)
  BY <1>1, <1>2, TimesAt
<1>9. At(Times(x, y), u, g) /\ At(Times(y, x), u, g)
  BY <1>3, <1>8, b * a = a * b
<1> QED BY <1>4, <1>6, <1>7, <1>9, SameAt

\* Elements worth nothing add nothing.
LEMMA SumExtended ==
  ASSUME NEW f, NEW D, IsFiniteSet(D), NEW S, S \subseteq D, AreFractions(f, D),
         \A x \in D : x \notin S => f[x] = Zero
  PROVE  SumOver(f, D) = SumOver(f, S)
<1> DEFINE R == D \ S
           G == {s \in SUBSET R : SumOver(f, S \cup s) = SumOver(f, S)}
<1>1. {} \in G
  <2>1. S \cup {} = S
    OBVIOUS
  <2> QED BY <2>1
<1>2. ASSUME NEW s \in SUBSET R, NEW x \in R, s \in G, x \notin s
      PROVE  s \cup {x} \in G
  <2> DEFINE T == S \cup s
  <2>0. S \cup (s \cup {x}) = T \cup {x}
    OBVIOUS
  <2>1. T \subseteq D /\ x \notin T /\ x \in D /\ f[x] = Zero /\ S \cup (s \cup {x}) = T \cup {x}
    BY <1>2, <2>0
  <2>2. IsFiniteSet(T) /\ AreFractions(f, T) /\ IsFraction(f[x])
    BY <2>1, FS_Subset DEF AreFractions
  <2>3. SumOver(f, T) = SumOver(f, S)
    BY <1>2
  <2> HIDE DEF T
  <2>4. SumOver(f, T \cup {x}) = Plus(f[x], SumOver(f, T))
    BY <2>1, <2>2, SumAdds
  <2>5. IsFraction(SumOver(f, T))
    BY <2>2, SumType
  <2>6. SumOver(f, T \cup {x}) = SumOver(f, T)
    BY <2>1, <2>4, <2>5, PlusZero
  <2> QED BY <2>1, <2>3, <2>6
<1>3. IsFiniteSet(R)
  BY FS_Subset
<1>4. R \in G
  <2> HIDE DEF G, R
  <2> QED BY <1>1, <1>2, <1>3, FiniteFrom
<1>5. S \cup R = D
  OBVIOUS
<1> QED BY <1>4, <1>5

\* The sum of the differences is the difference of the sums.
LEMMA SumMinus ==
  ASSUME NEW f, NEW e, NEW h, NEW S, IsFiniteSet(S), AreFractions(f, S), AreFractions(e, S),
         \A i \in S : h[i] = Minus(f[i], e[i])
  PROVE  SumOver(h, S) = Minus(SumOver(f, S), SumOver(e, S))
<1>1. AreFractions(h, S)
  BY FractionOps DEF AreFractions
<1>2. \A i \in S : f[i] = Plus(h[i], e[i])
  <2>1. ASSUME NEW i \in S PROVE f[i] = Plus(h[i], e[i])
    <3>1. IsFraction(f[i]) /\ IsFraction(e[i]) /\ h[i] = Minus(f[i], e[i])
      BY DEF AreFractions
    <3> QED BY <3>1, MinusPlus
  <2> QED BY <2>1
<1>3. SumOver(f, S) = Plus(SumOver(h, S), SumOver(e, S))
  BY <1>1, <1>2, SumPlus
<1>4. IsFraction(SumOver(h, S)) /\ IsFraction(SumOver(e, S))
  BY <1>1, SumType
<1>5. Plus(SumOver(h, S), SumOver(e, S)) = Plus(SumOver(e, S), SumOver(h, S))
  BY <1>4, PlusLaws
<1> QED BY <1>3, <1>4, <1>5, MinusPlus

\* From the first to the last by the one between.
LEMMA MinusChain ==
  ASSUME NEW x, NEW y, NEW z, IsFraction(x), IsFraction(y), IsFraction(z)
  PROVE  Plus(Minus(x, y), Minus(y, z)) = Minus(x, z) /\ Minus(x, x) = Zero
<1>1. PICK a, b, c \in Int, d \in Nat : d > 0 /\ At(x, a, d) /\ At(y, b, d) /\ At(z, c, d)
  BY ThreeBase
<1>2. d \in Int /\ d > 0
  BY <1>1
<1>3. PICK m, n, u \in Int : m = a - b /\ n = b - c /\ u = a - c
  OBVIOUS
<1>4. At(Minus(x, y), m, d) /\ At(Minus(y, z), n, d) /\ At(Minus(x, z), u, d) /\ At(Minus(x, x), 0, d)
  <2>1. a - a = 0
    OBVIOUS
  <2> QED BY <1>1, <1>2, <1>3, <2>1, PlusAt
<1>5. At(Plus(Minus(x, y), Minus(y, z)), m + n, d) /\ m + n = u
  BY <1>2, <1>3, <1>4, PlusAt
<1> QED BY <1>2, <1>4, <1>5, SameAt, ZeroAt, 0 \in Int

\* Reexpressing is multiplying.
LEMMA OverOfTimes ==
  ASSUME NEW x, NEW y, NEW z, IsFraction(x), IsFraction(y), IsFraction(z), IsPositive(z)
  PROVE  Over(Times(x, y), z) = Times(Over(y, z), x)
<1>1. PICK a, b, c \in Int, d \in Nat : d > 0 /\ At(x, a, d) /\ At(y, b, d) /\ At(z, c, d)
  BY ThreeBase
<1>2. d \in Int /\ d > 0
  BY <1>1
<1>3. c > 0
  BY <1>1, <1>2, OrderAt
<1>4. PICK p, g, q \in Int : p = a * b /\ g = d * d /\ q = c * d
  OBVIOUS
<1>5. g > 0 /\ q > 0
  BY <1>2, <1>3, <1>4, ProductPositive
<1>6. At(Times(x, y), p, g)
  BY <1>1, <1>2, <1>4, TimesAt
<1>7. At(z, q, g)
  BY <1>1, <1>2, <1>4, ScaleAt
<1>8. At(Over(Times(x, y), z), p, q)
  BY <1>5, <1>6, <1>7, OverAt
<1>9. At(Over(y, z), b, c)
  BY <1>1, <1>2, <1>3, OverAt
<1>10. At(Times(Over(y, z), x), b * a, c * d)
  BY <1>1, <1>2, <1>3, <1>9, TimesAt
<1>11. b * a = p
  BY <1>4
<1> QED BY <1>4, <1>5, <1>8, <1>10, <1>11, SameAt

\* The sum of amounts is one.
LEMMA SumOfAmounts ==
  ASSUME NEW f, NEW S, IsFiniteSet(S), \A i \in S : IsAmount(f[i])
  PROVE  IsAmount(SumOver(f, S))
<1> DEFINE G == {s \in SUBSET S : IsAmount(SumOver(f, s))}
<1>1. {} \in G
  BY SumEmpty, ZeroAmount
<1>2. ASSUME NEW s \in SUBSET S, NEW x \in S, s \in G, x \notin s
      PROVE  s \cup {x} \in G
  <2>1. IsFiniteSet(s) /\ AreFractions(f, s) /\ IsFraction(f[x]) /\ IsAmount(f[x])
    BY FS_Subset DEF AreFractions, IsAmount
  <2>2. SumOver(f, s \cup {x}) = Plus(f[x], SumOver(f, s))
    BY <1>2, <2>1, SumAdds
  <2> QED BY <1>2, <2>1, <2>2, AmountOps
<1>3. S \in G
  <2> HIDE DEF G
  <2> QED BY <1>1, <1>2, FiniteFrom
<1> QED BY <1>3

\* The sum of amounts, one of them positive.
LEMMA SumIsPositive ==
  ASSUME NEW f, NEW S, IsFiniteSet(S), \A i \in S : IsAmount(f[i]), NEW x \in S, IsPositive(f[x])
  PROVE  IsPositive(SumOver(f, S))
<1>1. AreFractions(f, S) /\ IsFiniteSet(S \ {x})
  BY FS_Subset DEF AreFractions, IsAmount
<1>2. SumOver(f, S) = Plus(f[x], SumOver(f, S \ {x}))
  BY <1>1, SumLess
<1>3. IsAmount(SumOver(f, S \ {x})) /\ IsAmount(f[x])
  BY <1>1, SumOfAmounts
<1> QED BY <1>2, <1>3, PositiveSum

\* The order of the fractions is total, and it is kept by what a quantity is divided by.
LEMMA OrderIsTotal ==
  ASSUME NEW x, NEW y, NEW z, IsFraction(x), IsFraction(y), IsFraction(z)
  PROVE  /\ Less(x, y) \/ x = y \/ Less(y, x)
         /\ ~Less(x, x)
         /\ Less(x, y) /\ Less(y, z) => Less(x, z)
<1>1. PICK a, b, c \in Int, d \in Nat : d > 0 /\ At(x, a, d) /\ At(y, b, d) /\ At(z, c, d)
  BY ThreeBase
<1>2. d \in Int /\ d > 0
  BY <1>1
<1>3. /\ Less(x, y) <=> a < b
      /\ Less(y, x) <=> b < a
      /\ Less(y, z) <=> b < c
      /\ Less(x, z) <=> a < c
      /\ Less(x, x) <=> a < a
  BY <1>1, <1>2, OrderAt
<1>4. a = b => x = y
  BY <1>1, <1>2, SameAt
<1> QED BY <1>3, <1>4

\* A quantity over a positive one.
LEMMA QuotientAt ==
  ASSUME NEW x, NEW y, NEW a \in Int, NEW d \in Int, NEW b \in Int, NEW e \in Int,
         d > 0, e > 0, b # 0, At(x, a, d), At(y, b, e)
  PROVE  At(Over(x, y), a * e, b * d)
<1>1. PICK p, q, m \in Int : p = a * e /\ q = b * d /\ m = d * e
  OBVIOUS
<1>2. At(x, p, m)
  BY <1>1, ScaleAt
<1>3. b * d = q /\ e * d = m
  BY <1>1
<1>4. At(y, q, m)
  <2>1. At(y, b * d, e * d)
    BY ScaleAt
  <2> QED BY <2>1, <1>3
<1>5. m > 0
  BY <1>1, ProductPositive
<1>6. q # 0
  <2>1. CASE b > 0
    BY <2>1, <1>1, ProductPositive
  <2>2. CASE b < 0
    <3>1. (-b) * d > 0 /\ (-b) * d = -(b * d)
      BY <2>2, ProductPositive, -b \in Int
    <3> QED BY <3>1, <1>1
  <2> QED BY <2>1, <2>2
<1> QED BY <1>1, <1>2, <1>4, <1>5, <1>6, OverAt

LEMMA OverKeepsOrder ==
  ASSUME NEW x, NEW y, NEW k, IsFraction(x), IsFraction(y), IsFraction(k), IsPositive(k), AtMost(x, y)
  PROVE  AtMost(Over(x, k), Over(y, k))
<1>1. PICK a, b, c \in Int, d \in Nat : d > 0 /\ At(x, a, d) /\ At(y, b, d) /\ At(k, c, d)
  BY ThreeBase
<1>2. d \in Int /\ d > 0
  BY <1>1
<1>3. c > 0 /\ ~(b < a)
  BY <1>1, <1>2, OrderAt DEF AtMost
<1>4. At(Over(x, k), a, c) /\ At(Over(y, k), b, c)
  BY <1>1, <1>2, <1>3, OverAt
<1> QED BY <1>3, <1>4, OrderAt DEF AtMost

\* What a positive quantity divides keeps its sign.
LEMMA PositiveOver ==
  ASSUME NEW m, NEW n, IsFraction(m), IsFraction(n), IsPositive(n)
  PROVE  IsFraction(Over(m, n)) /\ (IsPositive(Over(m, n)) <=> IsPositive(m))
<1>1. PICK a, b \in Int, d \in Nat : d > 0 /\ At(m, a, d) /\ At(n, b, d)
  BY TwoBase
<1>2. d \in Int /\ d > 0
  BY <1>1
<1>3. b > 0
  BY <1>1, <1>2, OrderAt
<1>4. At(Over(m, n), a, b)
  BY <1>1, <1>2, <1>3, OverAt
<1> QED BY <1>1, <1>2, <1>3, <1>4, OrderAt DEF At

\* An amount added to two quantities leaves them in order.
LEMMA BothRaised ==
  ASSUME NEW f, NEW m, NEW w, IsFraction(f), IsFraction(m), IsFraction(w), ~IsNegative(w),
         IsPositive(m)
  PROVE  /\ IsFraction(Plus(f, w)) /\ IsFraction(Plus(m, w)) /\ IsPositive(Plus(m, w))
         /\ AtMost(f, m) => AtMost(Plus(f, w), Plus(m, w))
<1>1. PICK a, b, c \in Int, d \in Nat : d > 0 /\ At(f, a, d) /\ At(m, b, d) /\ At(w, c, d)
  BY ThreeBase
<1>2. d \in Int /\ d > 0 /\ a + c \in Int /\ b + c \in Int
  BY <1>1
<1>3. b > 0 /\ c >= 0 /\ (AtMost(f, m) <=> ~(b < a))
  <2>1. b > 0 /\ ~(c < 0) /\ (AtMost(f, m) <=> ~(b < a))
    BY <1>1, <1>2, OrderAt DEF AtMost
  <2> QED BY <2>1
<1>4. At(Plus(f, w), a + c, d) /\ At(Plus(m, w), b + c, d)
  BY <1>1, <1>2, PlusAt
<1>5. /\ IsPositive(Plus(m, w)) <=> b + c > 0
      /\ AtMost(Plus(f, w), Plus(m, w)) <=> ~(b + c < a + c)
  BY <1>2, <1>4, OrderAt DEF AtMost
<1> QED BY <1>1, <1>3, <1>4, <1>5 DEF At

\* What is taken in two parts.
LEMMA MinusTwice ==
  ASSUME NEW x, NEW y, NEW z, IsFraction(x), IsFraction(y), IsFraction(z)
  PROVE  Minus(Minus(x, y), z) = Minus(x, Plus(y, z))
<1>1. PICK a, b, c \in Int, d \in Nat : d > 0 /\ At(x, a, d) /\ At(y, b, d) /\ At(z, c, d)
  BY ThreeBase
<1>2. d \in Int /\ d > 0 /\ a - b \in Int /\ b + c \in Int
  BY <1>1
<1>3. At(Minus(x, y), a - b, d) /\ At(Plus(y, z), b + c, d)
  BY <1>1, <1>2, PlusAt
<1>4. At(Minus(Minus(x, y), z), (a - b) - c, d) /\ At(Minus(x, Plus(y, z)), a - (b + c), d)
  BY <1>1, <1>2, <1>3, PlusAt
<1>5. (a - b) - c = a - (b + c) /\ (a - b) - c \in Int
  OBVIOUS
<1>6. PICK u \in Int : u = (a - b) - c /\ u = a - (b + c)
  BY <1>5
<1>7. At(Minus(Minus(x, y), z), u, d) /\ At(Minus(x, Plus(y, z)), u, d)
  BY <1>4, <1>6
<1> QED BY <1>2, <1>7, SameAt

\* The difference of two fractions is nothing only when they are one.
LEMMA NoGap ==
  ASSUME NEW x, NEW y, IsFraction(x), IsFraction(y), Minus(x, y) = Zero
  PROVE  x = y
<1>1. Plus(Minus(x, y), y) = x /\ Plus(Zero, y) = y
  BY MinusPlus, PlusZero
<1> QED BY <1>1

\* A square is no less than nothing.
LEMMA SquareFacts ==
  ASSUME NEW x, IsFraction(x)
  PROVE  IsAmount(Times(x, x)) /\ (x # Zero => IsPositive(Times(x, x)))
<1>1. PICK a \in Int, d \in Nat : d > 0 /\ At(x, a, d)
  BY Parts
<1>2. PICK b, e \in Int : b = a * a /\ e = d * d
  OBVIOUS
<1>3. d \in Int /\ d > 0
  BY <1>1
<1>4. e > 0
  BY <1>2, <1>3, ProductPositive
<1>5. At(Times(x, x), b, e)
  BY <1>1, <1>2, <1>3, TimesAt
<1>6. b >= 0 /\ (a # 0 => b > 0)
  <2>1. CASE a >= 0
    BY <2>1, <1>2, ProductPositive
  <2>2. CASE a < 0
    <3>1. (-a) * (-a) > 0 /\ (-a) * (-a) = a * a
      BY <2>2, ProductPositive, -a \in Int
    <3> QED BY <3>1, <1>2
  <2> QED BY <2>1, <2>2
<1>7. a = 0 => x = Zero
  BY <1>1, <1>3, ZeroAt, SameAt
<1>8. (IsNegative(Times(x, x)) <=> b < 0) /\ (IsPositive(Times(x, x)) <=> b > 0)
  BY <1>4, <1>5, OrderAt
<1>9. IsFraction(Times(x, x))
  BY FractionOps
<1> QED BY <1>6, <1>7, <1>8, <1>9 DEF IsAmount

\* A sum in which the items of T count as a, and the others as g does.
LEMMA SumWithPart ==
  ASSUME NEW D, IsFiniteSet(D), NEW T, T \subseteq D, NEW a, NEW g, NEW h,
         AreFractions(g, D), AreFractions(a, T),
         \A i \in D : (i \in T => h[i] = a[i] /\ g[i] = Zero) /\ (i \notin T => h[i] = g[i])
  PROVE  SumOver(h, D) = Plus(SumOver(g, D), SumOver(a, T))
<1> DEFINE e == [i \in D |-> IF i \in T THEN a[i] ELSE Zero]
<1>1. \A i \in D : e[i] = IF i \in T THEN a[i] ELSE Zero
  OBVIOUS
<1> HIDE DEF e
<1>2. AreFractions(e, D) /\ IsFraction(Zero)
  BY <1>1, ZeroAmount DEF AreFractions
<1>3. \A i \in D : h[i] = Plus(g[i], e[i])
  <2> SUFFICES ASSUME NEW i \in D PROVE h[i] = Plus(g[i], e[i])
    OBVIOUS
  <2>1. IsFraction(g[i]) /\ IsFraction(e[i])
    BY <1>2 DEF AreFractions
  <2>2. Plus(g[i], Zero) = g[i] /\ Plus(Zero, e[i]) = e[i]
    BY <2>1, PlusZero
  <2> QED BY <1>1, <2>2
<1>4. SumOver(h, D) = Plus(SumOver(g, D), SumOver(e, D))
  BY <1>2, <1>3, SumPlus
<1>5. SumOver(e, D) = SumOver(e, T)
  BY <1>1, <1>2, SumExtended
<1>6. SumOver(e, T) = SumOver(a, T)
  <2>1. IsFiniteSet(T)
    BY FS_Subset
  <2> QED BY <1>1, <2>1, SumSame
<1> QED BY <1>4, <1>5, <1>6

\* A sum is the one of a part and the one of the rest.
LEMMA SumInTwo ==
  ASSUME NEW D, IsFiniteSet(D), NEW T, T \subseteq D, NEW a, AreFractions(a, D)
  PROVE  SumOver(a, D) = Plus(SumOver(a, D \ T), SumOver(a, T))
<1> DEFINE g == [i \in D |-> IF i \in T THEN Zero ELSE a[i]]
<1>1. \A i \in D : g[i] = IF i \in T THEN Zero ELSE a[i]
  OBVIOUS
<1> HIDE DEF g
<1>2. AreFractions(g, D) /\ AreFractions(a, T) /\ D \ T \subseteq D
  BY <1>1, ZeroAmount DEF AreFractions
<1>3. SumOver(a, D) = Plus(SumOver(g, D), SumOver(a, T))
  BY <1>1, <1>2, SumWithPart
<1>4. SumOver(g, D) = SumOver(g, D \ T)
  BY <1>1, <1>2, SumExtended
<1>5. SumOver(g, D \ T) = SumOver(a, D \ T)
  <2>1. IsFiniteSet(D \ T)
    BY FS_Subset
  <2> QED BY <1>1, <2>1, SumSame
<1> QED BY <1>3, <1>4, <1>5

\* What is left when less is taken.
LEMMA TakenLess ==
  ASSUME NEW r, NEW v, NEW x, NEW y, IsFraction(r), IsFraction(v), IsFraction(x), IsFraction(y)
  PROVE  Minus(r, Plus(v, y)) = Plus(Minus(r, Plus(v, Plus(y, x))), x)
<1>1. PICK a, b, c, e \in Int, d \in Nat :
        d > 0 /\ At(r, a, d) /\ At(v, b, d) /\ At(x, c, d) /\ At(y, e, d)
  BY FourBase DEF FourOver
<1>2. PICK u, w, s, l, k \in Int :
        u = b + e /\ w = e + c /\ s = b + w /\ l = a - s /\ k = a - u
  OBVIOUS
<1>3. d \in Int /\ d > 0
  BY <1>1
<1>4. At(Plus(v, y), u, d) /\ At(Plus(y, x), w, d)
  BY <1>1, <1>2, <1>3, PlusAt
<1>5. At(Minus(r, Plus(v, y)), k, d) /\ At(Plus(v, Plus(y, x)), s, d)
  BY <1>1, <1>2, <1>3, <1>4, PlusAt
<1>6. At(Minus(r, Plus(v, Plus(y, x))), l, d)
  BY <1>1, <1>2, <1>3, <1>5, PlusAt
<1>7. At(Plus(Minus(r, Plus(v, Plus(y, x))), x), l + c, d)
  BY <1>1, <1>3, <1>6, PlusAt
<1>8. l + c = k
  BY <1>2
<1> QED BY <1>3, <1>5, <1>7, <1>8, SameAt

\* A sum with two of its terms apart.
LEMMA TwoApart ==
  ASSUME NEW g, NEW D, IsFiniteSet(D), AreFractions(g, D), NEW x \in D, NEW y \in D, x # y
  PROVE  /\ SumOver(g, D) = Plus(SumOver(g, D \ {x, y}), SumOver(g, {x, y}))
         /\ IsFraction(SumOver(g, D \ {x, y})) /\ IsFraction(SumOver(g, {x, y}))
<1>1. /\ IsFiniteSet(D \ {x}) /\ AreFractions(g, D \ {x}) /\ IsFiniteSet(D \ {x, y})
      /\ AreFractions(g, D \ {x, y}) /\ IsFraction(g[x]) /\ IsFraction(g[y])
      /\ D \ {x, y} = (D \ {x}) \ {y} /\ y \in D \ {x}
  BY FS_Subset DEF AreFractions
<1>2. SumOver(g, D) = Plus(g[x], SumOver(g, D \ {x}))
  BY SumLess
<1>3. SumOver(g, D \ {x}) = Plus(g[y], SumOver(g, D \ {x, y}))
  BY <1>1, SumLess
<1>4. SumOver(g, {x, y}) = Plus(g[x], g[y])
  BY <1>1, SumTwo
<1>5. PICK r : r = SumOver(g, D \ {x, y}) /\ IsFraction(r)
  BY <1>1, SumType
<1>6. Plus(g[x], Plus(g[y], r)) = Plus(Plus(g[x], g[y]), r)
  BY <1>1, <1>5, PlusLaws
<1>7. IsFraction(Plus(g[x], g[y]))
  BY <1>1, FractionOps
<1>8. Plus(Plus(g[x], g[y]), r) = Plus(r, Plus(g[x], g[y]))
  BY <1>5, <1>7, PlusLaws
<1> QED BY <1>2, <1>3, <1>4, <1>5, <1>6, <1>7, <1>8

-----------------------------------------------------------------------------
(* Rounding.                                                                 *)

\* k over s is one of the multiples of 1/s nearest to n over d.
IsNearest(k, s, n, d) == -d <= 2 * (k * d - n * s) /\ 2 * (k * d - n * s) <= d

\* y is a multiple of 1/s, no farther from x than half of it.
RoundsTo(x, y, s) ==
  \E k, n \in Int, d \in Nat : d > 0 /\ At(x, n, d) /\ At(y, k, s) /\ IsNearest(k, s, n, d)

\* The nearest multiple, whatever is done with the ties.
LEMMA NearestFacts ==
  ASSUME NEW x, IsFraction(x), NEW s \in Nat, s > 0, NEW ties
  PROVE  RoundsTo(x, Nearest(x, s, ties), s)
<1>1. PICK p \in Int, q \in Nat : x = <<p, q>> /\ q > 0 /\ At(x, p, q)
  BY Parts
<1>2. PICK m \in Int : m = p * s
  OBVIOUS
<1>3a. PICK z \in Int : z = m \div q
  BY <1>1
<1>3b. PICK r \in Int : r = m % q
  BY <1>1
<1>3. z = m \div q /\ r = m % q
  BY <1>3a, <1>3b
<1>4. m = z * q + r /\ 0 <= r /\ r < q
  BY <1>1, <1>3, Z3
<1>5. PICK k \in Int : /\ Nearest(x, s, ties) = Fraction(k, s)
                       /\ (k = z /\ 2 * r <= q) \/ (k = z + 1 /\ 2 * r >= q)
  <2>1. x[1] * s = m /\ x[2] = q
    BY <1>1, <1>2
  <2>2. PICK k : k = (IF 2 * r < q \/ (2 * r = q /\ ties = "even" /\ z % 2 = 0) THEN z ELSE z + 1)
    OBVIOUS
  <2>3. Nearest(x, s, ties) = Fraction(k, s)
    BY <2>1, <2>2, <1>3 DEF Nearest
  <2>4. q \in Int /\ 2 * r \in Int
    BY <1>3
  <2>5. k \in Int /\ ((k = z /\ 2 * r <= q) \/ (k = z + 1 /\ 2 * r >= q))
    BY <2>2, <2>4
  <2> QED BY <2>3, <2>5
<1>6. At(Nearest(x, s, ties), k, s)
  BY <1>5, FractionAt, s \in Int, s # 0
<1>7. IsNearest(k, s, p, q)
  <2>1. PICK zq, kq \in Int : zq = z * q /\ kq = k * q
    OBVIOUS
  <2>2. CASE k = z /\ 2 * r <= q
    <3>1. kq - m = -r
      BY <2>1, <2>2, <1>4
    <3> QED BY <3>1, <2>1, <2>2, <1>1, <1>2, <1>4 DEF IsNearest
  <2>3. CASE k = z + 1 /\ 2 * r >= q
    <3>1. kq = zq + q
      BY <2>1, <2>3
    <3>2. kq - m = q - r
      BY <2>1, <3>1, <1>4
    <3> QED BY <3>2, <2>1, <2>3, <1>1, <1>2, <1>4 DEF IsNearest
  <2> QED BY <2>2, <2>3, <1>5
<1> QED BY <1>1, <1>6, <1>7 DEF RoundsTo

\* ... is the nearest over any denominator.
LEMMA NearestAt ==
  ASSUME NEW x, NEW y, NEW s \in Int, RoundsTo(x, y, s), s > 0,
         NEW a \in Int, NEW d \in Int, d > 0, At(x, a, d)
  PROVE  \E k \in Int : At(y, k, s) /\ IsNearest(k, s, a, d)
<1>1. PICK k, n \in Int, q \in Nat : q > 0 /\ At(x, n, q) /\ At(y, k, s) /\ IsNearest(k, s, n, q)
  BY DEF RoundsTo
<1>2. n * d = a * q
  <2>1. PICK u \in Int, v \in Nat : x = <<u, v>> /\ v > 0
    BY Parts, <1>1 DEF At
  <2>2. u * q = n * v /\ u * d = a * v
    BY <2>1, <1>1 DEF At
  <2>3. (n * d) * v = (a * q) * v
    <3>1. (n * d) * v = (n * v) * d /\ (a * q) * v = (a * v) * q /\ (u * q) * d = (u * d) * q
      OBVIOUS
    <3> QED BY <3>1, <2>2
  <2>4. n * d \in Int /\ a * q \in Int /\ v \in Int /\ v > 0
    BY <2>1
  <2> QED BY <2>3, <2>4, Cancel
<1>3. PICK e, f \in Int : e = 2 * (k * q - n * s) /\ f = 2 * (k * d - a * s)
  OBVIOUS
<1>4. e * d = f * q
  <2>1. e * d = 2 * (k * q * d - n * d * s) /\ f * q = 2 * (k * q * d - a * q * s)
    BY <1>3
  <2> QED BY <2>1, <1>2
<1>5. q \in Int /\ -q <= e /\ e <= q
  BY <1>1, <1>3 DEF IsNearest
<1>6. f <= d
  <2>1. (q - e) * d >= 0
    BY <1>5, ProductPositive, q - e \in Int, q - e >= 0
  <2>2. PICK dq, fq \in Int : dq = d * q /\ fq = f * q
    OBVIOUS
  <2>3. (q - e) * d = dq - fq
    BY <2>2, <1>4, (q - e) * d = q * d - e * d
  <2>4. ~(dq < fq)
    BY <2>1, <2>3, <2>2
  <2> QED BY <2>4, <2>2, <1>1, <1>5, Cancel
<1>7. -d <= f
  <2>1. (q + e) * d >= 0
    BY <1>5, ProductPositive, q + e \in Int, q + e >= 0
  <2>2. PICK dq, fq \in Int : dq = (-d) * q /\ fq = f * q
    OBVIOUS
  <2>3. (q + e) * d = fq - dq
    BY <2>2, <1>4, (q + e) * d = q * d + e * d
  <2>4. ~(fq < dq)
    BY <2>1, <2>3, <2>2
  <2> QED BY <2>4, <2>2, <1>1, <1>5, -d \in Int, Cancel
<1> QED BY <1>1, <1>3, <1>6, <1>7 DEF IsNearest

\* Rounding keeps what is not negative, and does not pass a multiple of 1/s.
LEMMA NearestOrder ==
  ASSUME NEW x, NEW y, NEW s \in Nat, s > 0, RoundsTo(x, y, s), IsFraction(x)
  PROVE  /\ IsFraction(y)
         /\ IsAmount(x) => IsAmount(y)
         /\ ~IsPositive(x) => ~IsPositive(y)
         /\ \A h, n : n \in Int /\ At(h, n, s) /\ AtMost(x, h) => AtMost(y, h)
<1>1. PICK k, a \in Int, d \in Nat : d > 0 /\ At(x, a, d) /\ At(y, k, s) /\ IsNearest(k, s, a, d)
  BY DEF RoundsTo
<1>2. s \in Int /\ d \in Int /\ d > 0
  BY <1>1
<1>3. PICK kd, sa \in Int : kd = k * d /\ sa = a * s
  OBVIOUS
<1>4. -d <= 2 * (kd - sa) /\ 2 * (kd - sa) <= d
  BY <1>1, <1>3 DEF IsNearest
<1>5. ASSUME NEW n \in Int, sa <= n * d
      PROVE  k <= n
  <2> SUFFICES ASSUME k >= n + 1 PROVE FALSE
    OBVIOUS
  <2>1. (k - n - 1) * d >= 0
    BY <1>2, ProductPositive, k - n - 1 \in Int, k - n - 1 >= 0
  <2>2. PICK nd \in Int : nd = n * d
    OBVIOUS
  <2>3. (k - n - 1) * d = kd - nd - d
    BY <1>3, <2>2
  <2>4. sa <= nd /\ kd - nd - d >= 0
    BY <1>5, <2>1, <2>2, <2>3
  <2>5. PICK g \in Int : g = kd - sa
    OBVIOUS
  <2>6. g >= d
    BY <2>4, <2>5, <1>2
  <2>7. 2 * g <= d
    BY <1>4, <2>5
  <2> QED BY <1>2, <2>6, <2>7
<1>6. ASSUME sa >= 0
      PROVE  k >= 0
  <2> SUFFICES ASSUME k <= -1 PROVE FALSE
    OBVIOUS
  <2>1. (-1 - k) * d >= 0
    BY <1>2, ProductPositive, -1 - k \in Int, -1 - k >= 0
  <2>2. (-1 - k) * d = -d - kd
    BY <1>3
  <2>3. PICK g, o \in Int : g = kd - sa /\ o = -d
    BY <1>2
  <2>4. g <= o
    BY <2>1, <2>2, <2>3, <1>2, <1>6
  <2>5. 2 * g >= o
    BY <1>4, <2>3
  <2>6. o < 0
    BY <2>3, <1>2
  <2> QED BY <2>4, <2>5, <2>6
<1>7. (IsNegative(x) <=> a < 0) /\ (IsPositive(x) <=> a > 0)
  BY <1>1, <1>2, OrderAt
<1>8. (IsNegative(y) <=> k < 0) /\ (IsPositive(y) <=> k > 0)
  BY <1>1, <1>2, OrderAt
<1>9. IsAmount(x) => IsAmount(y)
  <2> SUFFICES ASSUME IsAmount(x) PROVE IsAmount(y)
    OBVIOUS
  <2>1. a >= 0
    BY <1>7 DEF IsAmount
  <2>2. sa >= 0
    BY <2>1, <1>2, <1>3, ProductPositive
  <2> QED BY <2>2, <1>1, <1>6, <1>8 DEF At, IsAmount
<1>10. ~IsPositive(x) => ~IsPositive(y)
  <2> SUFFICES ASSUME ~IsPositive(x) PROVE ~IsPositive(y)
    OBVIOUS
  <2>1. -a >= 0 /\ -a \in Int
    BY <1>7
  <2>2. (-a) * s >= 0 /\ (-a) * s = -sa /\ 0 * d = 0
    BY <2>1, <1>2, <1>3, ProductPositive
  <2>3. k <= 0
    BY <2>2, <1>3, <1>5, 0 \in Int
  <2> QED BY <2>3, <1>8
<1>11. ASSUME NEW h, NEW n \in Int, At(h, n, s), AtMost(x, h)
       PROVE  AtMost(y, h)
  <2>1. At(x, a * s, d * s) /\ At(h, n * d, s * d)
    BY <1>1, <1>2, <1>11, ScaleAt
  <2>2. PICK nd, e \in Int : nd = n * d /\ e = d * s /\ e = s * d
    OBVIOUS
  <2>3. e > 0
    BY <1>2, <2>2, ProductPositive
  <2>4. Less(h, x) <=> nd < sa
    BY <1>3, <2>1, <2>2, <2>3, OrderAt
  <2>5. k <= n
    <3>1. sa <= n * d
      BY <1>11, <2>2, <2>4 DEF AtMost
    <3> QED BY <1>5, <3>1
  <2>6. Less(h, y) <=> n < k
    BY <1>1, <1>2, <1>11, OrderAt
  <2> QED BY <2>5, <2>6 DEF AtMost
<1> QED BY <1>1, <1>9, <1>10, <1>11 DEF At

\* Near, over one denominator.
LEMMA NearAt ==
  ASSUME NEW x, NEW y, NEW t, NEW a \in Int, NEW b \in Int, NEW c \in Int, NEW d \in Int, d > 0,
         At(x, a, d), At(y, b, d), At(t, c, d)
  PROVE  Near(x, y, t) <=> a <= b + c /\ b <= a + c
<1>1. PICK u, v \in Int : u = b + c /\ v = a + c
  OBVIOUS
<1>2. At(Plus(y, t), u, d) /\ At(Plus(x, t), v, d)
  BY <1>1, PlusAt
<1>3. (Less(Plus(y, t), x) <=> u < a) /\ (Less(Plus(x, t), y) <=> v < b)
  BY <1>2, OrderAt
<1> QED BY <1>1, <1>3 DEF Near, AtMost

\* What rounding leaves is half of 1/s away at most; a multiple of 1/s it leaves as it is.
LEMMA NearestIsNear ==
  ASSUME NEW x, IsFraction(x), NEW s \in Nat, s > 0, NEW ties
  PROVE  /\ IsFraction(Nearest(x, s, ties))
         /\ Near(x, Nearest(x, s, ties), Fraction(1, 2 * s))
         /\ IsAmount(Fraction(1, 2 * s))
         /\ Nearest(Nearest(x, s, ties), s, ties) = Nearest(x, s, ties)
<1> DEFINE y == Nearest(x, s, ties)
<1>1. RoundsTo(x, y, s)
  BY NearestFacts
<1> HIDE DEF y
<1>2. PICK k, n \in Int, d \in Nat : d > 0 /\ At(x, n, d) /\ At(y, k, s) /\ IsNearest(k, s, n, d)
  BY <1>1 DEF RoundsTo
<1>3. PICK s2 \in Int : s2 = 2 * s
  OBVIOUS
<1>4. s2 > 0 /\ s \in Int /\ d \in Int
  BY <1>2, <1>3
<1>5. At(Fraction(1, s2), 1, s2) /\ 1 \in Int
  BY <1>4, FractionAt
<1>6. PICK e, xn, yn \in Int : e = s2 * d /\ xn = n * s2 /\ yn = (2 * k) * d
  OBVIOUS
<1>7. e > 0
  BY <1>4, <1>2, <1>6, ProductPositive
<1>8. At(x, xn, e) /\ At(y, yn, e) /\ At(Fraction(1, s2), d, e)
  <2>1. d * s2 = e /\ s * (2 * d) = e /\ k * (2 * d) = yn /\ 1 * d = d /\ 2 * d \in Int
    BY <1>3, <1>4, <1>6
  <2>2. At(x, n * s2, d * s2)
    BY <1>2, <1>4, ScaleAt
  <2>3. At(y, k * (2 * d), s * (2 * d))
    BY <1>2, <1>4, <2>1, ScaleAt
  <2>4. At(Fraction(1, s2), 1 * d, s2 * d)
    BY <1>4, <1>5, ScaleAt
  <2> QED BY <2>1, <2>2, <2>3, <2>4, <1>6
<1>9. xn <= yn + d /\ yn <= xn + d
  <2>1. PICK kd, ns \in Int : kd = k * d /\ ns = n * s
    BY <1>4
  <2>2. -d <= 2 * (kd - ns) /\ 2 * (kd - ns) <= d
    BY <1>2, <2>1 DEF IsNearest
  <2>3. yn = 2 * kd /\ xn = 2 * ns
    BY <2>1, <1>3, <1>4, <1>6
  <2> QED BY <2>2, <2>3, <1>4, <2>1
<1>10. Near(x, y, Fraction(1, s2))
  BY <1>4, <1>6, <1>7, <1>8, <1>9, NearAt
<1>11. IsAmount(Fraction(1, s2))
  <2>1. ~IsNegative(Fraction(1, s2))
    BY <1>4, <1>5, OrderAt
  <2> QED BY <1>5, <2>1 DEF At, IsAmount
<1>12. IsFraction(y)
  BY <1>2 DEF At
<1>13. Nearest(y, s, ties) = y
  <2>1. PICK z : z = Nearest(y, s, ties)
    OBVIOUS
  <2>2. RoundsTo(y, z, s)
    BY <1>12, <2>1, NearestFacts
  <2>3. PICK j \in Int : At(z, j, s) /\ IsNearest(j, s, k, s)
    BY <1>2, <1>4, <2>2, NearestAt
  <2>4. PICK js, ks \in Int : js = j * s /\ ks = k * s
    BY <1>4
  <2>5. -s <= 2 * (js - ks) /\ 2 * (js - ks) <= s
    BY <2>3, <2>4 DEF IsNearest
  <2>6. ~(j >= k + 1)
    <3> SUFFICES ASSUME j - k - 1 >= 0 PROVE FALSE
      OBVIOUS
    <3>1. (j - k - 1) * s >= 0
      BY <1>4, ProductPositive, j - k - 1 \in Int
    <3>2. (j - k - 1) * s = js - ks - s
      BY <1>4, <2>4
    <3>3. PICK g \in Int : g = js - ks
      BY <2>4
    <3>4. g - s >= 0
      BY <3>1, <3>2, <3>3, <2>4
    <3> QED BY <3>3, <3>4, <2>5, <1>4
  <2>7. ~(k >= j + 1)
    <3> SUFFICES ASSUME k - j - 1 >= 0 PROVE FALSE
      OBVIOUS
    <3>1. (k - j - 1) * s >= 0
      BY <1>4, ProductPositive, k - j - 1 \in Int
    <3>2. (k - j - 1) * s = ks - js - s
      BY <1>4, <2>4
    <3>3. PICK g \in Int : g = js - ks
      BY <2>4
    <3>4. -g - s >= 0
      BY <3>1, <3>2, <3>3, <2>4
    <3> QED BY <3>3, <3>4, <2>5, <1>4
  <2>8. j = k
    BY <2>6, <2>7
  <2> QED BY <2>1, <2>3, <2>8, <1>2, <1>4, SameAt
<1> QED BY <1>3, <1>10, <1>11, <1>12, <1>13 DEF y

\* Nearness adds up, is scaled, and goes from one to the next.
LEMMA NearPlus ==
  ASSUME NEW x, NEW y, NEW t, IsFraction(x), IsFraction(y), IsFraction(t), Near(x, y, t),
         NEW u, NEW v, NEW w, IsFraction(u), IsFraction(v), IsFraction(w), Near(u, v, w)
  PROVE  /\ Near(Plus(x, u), Plus(y, v), Plus(t, w))
         /\ Near(Minus(x, u), Minus(y, v), Plus(t, w))
<1>1. PICK a1, a2, a3, a4, a5, a6, a7, a8 \in Int, d \in Nat :
        /\ d > 0 /\ At(x, a1, d) /\ At(y, a2, d) /\ At(t, a3, d) /\ At(u, a4, d)
        /\ At(v, a5, d) /\ At(w, a6, d) /\ At(x, a7, d) /\ At(x, a8, d)
  <2>1. Eight(x, y, t, u, v, w, x, x)
    BY DEF Eight
  <2> QED BY <2>1, EightBase
<1>2. d \in Int /\ d > 0
  BY <1>1
<1>3. a1 <= a2 + a3 /\ a2 <= a1 + a3 /\ a4 <= a5 + a6 /\ a5 <= a4 + a6
  BY <1>1, <1>2, NearAt
<1>4. /\ At(Plus(x, u), a1 + a4, d) /\ At(Plus(y, v), a2 + a5, d) /\ At(Plus(t, w), a3 + a6, d)
      /\ At(Minus(x, u), a1 - a4, d) /\ At(Minus(y, v), a2 - a5, d)
  BY <1>1, <1>2, PlusAt
<1>5. PICK b1, b2, b3, b4, b5 \in Int :
        b1 = a1 + a4 /\ b2 = a2 + a5 /\ b3 = a3 + a6 /\ b4 = a1 - a4 /\ b5 = a2 - a5
  OBVIOUS
<1>6. b1 <= b2 + b3 /\ b2 <= b1 + b3 /\ b4 <= b5 + b3 /\ b5 <= b4 + b3
  BY <1>3, <1>5
<1> QED BY <1>2, <1>4, <1>5, <1>6, NearAt

LEMMA NearTimes ==
  ASSUME NEW x, NEW y, NEW t, IsFraction(x), IsFraction(y), IsFraction(t), Near(x, y, t),
         NEW k, IsAmount(k)
  PROVE  Near(Times(x, k), Times(y, k), Times(t, k))
<1>1. PICK a, b, c \in Int, d \in Nat : d > 0 /\ At(x, a, d) /\ At(y, b, d) /\ At(t, c, d)
  BY ThreeBase
<1>2. PICK p \in Int, q \in Nat : q > 0 /\ At(k, p, q)
  BY Parts DEF IsAmount
<1>3. d \in Int /\ d > 0 /\ q \in Int /\ q > 0
  BY <1>1, <1>2
<1>4. a <= b + c /\ b <= a + c
  BY <1>1, <1>3, NearAt
<1>5. p >= 0
  BY <1>2, <1>3, OrderAt DEF IsAmount
<1>6. PICK ap, bp, cp, e \in Int : ap = a * p /\ bp = b * p /\ cp = c * p /\ e = d * q
  BY <1>3
<1>7. e > 0 /\ At(Times(x, k), ap, e) /\ At(Times(y, k), bp, e) /\ At(Times(t, k), cp, e)
  BY <1>1, <1>2, <1>3, <1>6, TimesAt, ProductPositive
<1>8. ap <= bp + cp /\ bp <= ap + cp
  <2>1. CASE p = 0
    BY <2>1, <1>6
  <2>2. CASE p # 0
    <3>1. p > 0 /\ b + c - a \in Int /\ b + c - a >= 0 /\ a + c - b \in Int /\ a + c - b >= 0
      BY <2>2, <1>4, <1>5
    <3>2. (b + c - a) * p >= 0 /\ (a + c - b) * p >= 0
      BY <3>1, ProductPositive
    <3>3. (b + c - a) * p = bp + cp - ap /\ (a + c - b) * p = ap + cp - bp
      BY <1>6
    <3> QED BY <3>2, <3>3, <1>6
  <2> QED BY <2>1, <2>2
<1> QED BY <1>6, <1>7, <1>8, NearAt

LEMMA NearNext ==
  ASSUME NEW x, NEW y, NEW t, IsFraction(x), IsFraction(y), IsFraction(t), Near(x, y, t),
         NEW z, NEW u, IsFraction(z), IsFraction(u), Near(y, z, u)
  PROVE  Near(x, z, Plus(t, u))
<1>1. PICK a1, a2, a3, a4, a5, a6, a7, a8 \in Int, d \in Nat :
        /\ d > 0 /\ At(x, a1, d) /\ At(y, a2, d) /\ At(t, a3, d) /\ At(z, a4, d)
        /\ At(u, a5, d) /\ At(x, a6, d) /\ At(x, a7, d) /\ At(x, a8, d)
  <2>1. Eight(x, y, t, z, u, x, x, x)
    BY DEF Eight
  <2> QED BY <2>1, EightBase
<1>2. d \in Int /\ d > 0
  BY <1>1
<1>3. a1 <= a2 + a3 /\ a2 <= a1 + a3 /\ a2 <= a4 + a5 /\ a4 <= a2 + a5
  BY <1>1, <1>2, NearAt
<1>4. PICK b \in Int : b = a3 + a5
  OBVIOUS
<1>5. At(Plus(t, u), b, d)
  BY <1>1, <1>2, <1>4, PlusAt
<1>6. a1 <= a4 + b /\ a4 <= a1 + b
  BY <1>3, <1>4
<1> QED BY <1>1, <1>2, <1>5, <1>6, NearAt

LEMMA NearFacts ==
  ASSUME NEW x, NEW y, NEW t, NEW u, IsFraction(x), IsFraction(y), IsFraction(t), IsFraction(u)
  PROVE  /\ IsAmount(t) => Near(x, x, t)
         /\ Near(x, y, t) => Near(y, x, t)
         /\ Near(x, y, t) /\ AtMost(t, u) => Near(x, y, u)
<1>1. PICK a, b, c, e \in Int, d \in Nat : d > 0 /\ At(x, a, d) /\ At(y, b, d) /\ At(t, c, d) /\ At(u, e, d)
  BY FourBase DEF FourOver
<1>2. d \in Int /\ d > 0
  BY <1>1
<1>3. /\ Near(x, x, t) <=> a <= a + c /\ a <= a + c
      /\ Near(x, y, t) <=> a <= b + c /\ b <= a + c
      /\ Near(y, x, t) <=> b <= a + c /\ a <= b + c
      /\ Near(x, y, u) <=> a <= b + e /\ b <= a + e
  BY <1>1, <1>2, NearAt
<1>4. (IsNegative(t) <=> c < 0) /\ (Less(u, t) <=> e < c)
  BY <1>1, <1>2, OrderAt
<1>5. IsAmount(t) => c >= 0
  BY <1>4 DEF IsAmount
<1> QED BY <1>1, <1>3, <1>4, <1>5 DEF AtMost

\* Sums of terms that are near are near by the sum of what each may differ.
LEMMA NearSums ==
  ASSUME NEW S, IsFiniteSet(S), NEW f, NEW g, NEW t, AreFractions(f, S), AreFractions(g, S),
         AreFractions(t, S), \A i \in S : Near(f[i], g[i], t[i])
  PROVE  Near(SumOver(f, S), SumOver(g, S), SumOver(t, S))
<1> DEFINE G == {s \in SUBSET S : Near(SumOver(f, s), SumOver(g, s), SumOver(t, s))}
<1>1. {} \in G
  <2>1. SumOver(f, {}) = Zero /\ SumOver(g, {}) = Zero /\ SumOver(t, {}) = Zero
    BY SumEmpty
  <2>2. IsFraction(Zero) /\ IsAmount(Zero)
    BY ZeroAmount
  <2>3. Near(Zero, Zero, Zero)
    BY <2>2, NearFacts
  <2> QED BY <2>1, <2>3
<1>2. ASSUME NEW s \in SUBSET S, NEW x \in S, s \in G, x \notin s
      PROVE  s \cup {x} \in G
  <2>1. IsFiniteSet(s)
    BY FS_Subset, Zenon
  <2>2. AreFractions(f, s) /\ AreFractions(g, s) /\ AreFractions(t, s)
        /\ IsFraction(f[x]) /\ IsFraction(g[x]) /\ IsFraction(t[x])
    BY DEF AreFractions
  <2>3. IsFraction(SumOver(f, s)) /\ IsFraction(SumOver(g, s)) /\ IsFraction(SumOver(t, s))
    BY <2>1, <2>2, SumType
  <2>4. /\ SumOver(f, s \cup {x}) = Plus(f[x], SumOver(f, s))
        /\ SumOver(g, s \cup {x}) = Plus(g[x], SumOver(g, s))
        /\ SumOver(t, s \cup {x}) = Plus(t[x], SumOver(t, s))
    BY <2>1, <2>2, <1>2, SumAdds
  <2>5. Near(f[x], g[x], t[x]) /\ Near(SumOver(f, s), SumOver(g, s), SumOver(t, s))
    BY <1>2
  <2>6. Near(Plus(f[x], SumOver(f, s)), Plus(g[x], SumOver(g, s)), Plus(t[x], SumOver(t, s)))
    BY <2>2, <2>3, <2>5, NearPlus
  <2> QED BY <2>4, <2>6
<1>3. S \in G
  <2> HIDE DEF G
  <2> QED BY <1>1, <1>2, FiniteFrom
<1> QED BY <1>3

\* Parts of one.
LEMMA PartFacts ==
  ASSUME NEW n \in Nat, NEW m \in Nat, NEW s \in Nat, s > 0
  PROVE  /\ IsAmount(Fraction(n, s)) /\ Fraction(2 * n, 2 * s) = Fraction(n, s)
         /\ Plus(Fraction(n, s), Fraction(m, s)) = Fraction(n + m, s)
<1>1. PICK s2, n2, k \in Int : s2 = 2 * s /\ n2 = 2 * n /\ k = n + m
  OBVIOUS
<1>2. s2 # 0 /\ s2 > 0 /\ s \in Int /\ s # 0 /\ n \in Int /\ m \in Int /\ 2 \in Int
  BY <1>1
<1>3. At(Fraction(n, s), n, s) /\ At(Fraction(m, s), m, s) /\ At(Fraction(k, s), k, s)
      /\ At(Fraction(n2, s2), n2, s2)
  BY <1>1, <1>2, FractionAt
<1>4. IsAmount(Fraction(n, s))
  <2>1. ~IsNegative(Fraction(n, s))
    BY <1>2, <1>3, OrderAt
  <2> QED BY <1>3, <2>1 DEF At, IsAmount
<1>5. Plus(Fraction(n, s), Fraction(m, s)) = Fraction(k, s)
  <2>1. At(Plus(Fraction(n, s), Fraction(m, s)), n + m, s)
    BY <1>2, <1>3, PlusAt
  <2> QED BY <2>1, <1>1, <1>2, <1>3, SameAt
<1>6. Fraction(n2, s2) = Fraction(n, s)
  <2>1. At(Fraction(n, s), n * 2, s * 2)
    BY <1>2, <1>3, ScaleAt
  <2>2. n * 2 = n2 /\ s * 2 = s2
    BY <1>1, <1>2
  <2> QED BY <2>1, <2>2, <1>1, <1>2, <1>3, SameAt
<1> QED BY <1>1, <1>4, <1>5, <1>6

\* As many parts as there are members.
LEMMA PartsOfOne ==
  ASSUME NEW S, IsFiniteSet(S), NEW s \in Nat, s > 0, NEW f, \A i \in S : f[i] = Fraction(1, s)
  PROVE  SumOver(f, S) = Fraction(Cardinality(S), s)
<1> DEFINE G == {u \in SUBSET S : SumOver(f, u) = Fraction(Cardinality(u), s)}
<1>1. {} \in G
  <2>1. SumOver(f, {}) = Zero /\ Cardinality({}) = 0
    BY SumEmpty, FS_EmptySet
  <2>2. s \in Int /\ s # 0 /\ s > 0 /\ 0 \in Int
    OBVIOUS
  <2>3. At(Fraction(0, s), 0, s) /\ At(Zero, 0, s)
    BY <2>2, FractionAt, ZeroAt
  <2>4. Fraction(0, s) = Zero
    BY <2>2, <2>3, SameAt
  <2> QED BY <2>1, <2>4
<1>2. ASSUME NEW u \in SUBSET S, NEW x \in S, u \in G, x \notin u
      PROVE  u \cup {x} \in G
  <2>1. IsFiniteSet(u)
    BY FS_Subset, Zenon
  <2>2. Cardinality(u) \in Nat /\ Cardinality(u \cup {x}) = Cardinality(u) + 1
    BY <1>2, <2>1, FS_CardinalityType, FS_AddElement
  <2>3. PICK n \in Nat : n = Cardinality(u)
    BY <2>2
  <2>4. IsFraction(Fraction(1, s)) /\ Plus(Fraction(1, s), Fraction(n, s)) = Fraction(1 + n, s)
    BY PartFacts DEF IsAmount
  <2>5. AreFractions(f, u) /\ IsFraction(f[x]) /\ f[x] = Fraction(1, s)
    BY <2>4 DEF AreFractions
  <2>6. SumOver(f, u \cup {x}) = Plus(f[x], SumOver(f, u))
    BY <1>2, <2>1, <2>5, SumAdds
  <2>7. SumOver(f, u) = Fraction(n, s) /\ 1 + n = Cardinality(u \cup {x})
    BY <1>2, <2>2, <2>3
  <2> QED BY <2>4, <2>5, <2>6, <2>7
<1>3. S \in G
  <2> HIDE DEF G
  <2> QED BY <1>1, <1>2, FiniteFrom
<1> QED BY <1>3
=============================================================================
