------------------------------- MODULE DivMod -------------------------------
(***************************************************************************)
(* Division with remainder, as the timer wheel uses it: where a time falls *)
(* in a vector of N slots of U ticks each, on a clock of W = U * N * M     *)
(* ticks.                                                                  *)
(***************************************************************************)
EXTENDS Integers, TLAPS

(* Multiplication by a positive number keeps a gap of one.                  *)
LEMMA Gap ==
  ASSUME NEW x \in Int, NEW y \in Int, NEW b \in Nat \ {0}, x < y
  PROVE  x * b + b <= y * b
  OBVIOUS

(* The remainder is in range.                                               *)
LEMMA ModRange ==
  ASSUME NEW a \in Int, NEW b \in Nat \ {0}
  PROVE  a % b \in 0 .. b - 1
  OBVIOUS

(* The quotient is an integer.                                              *)
LEMMA DivInt ==
  ASSUME NEW a \in Int, NEW b \in Nat \ {0}
  PROVE  a \div b \in Int
  OBVIOUS

(* Quotient and remainder make up the dividend.                             *)
LEMMA DivMod ==
  ASSUME NEW a \in Int, NEW b \in Nat \ {0}
  PROVE  a = (a \div b) * b + (a % b)
  OBVIOUS

(* No other quotient and remainder do.                                      *)
LEMMA DivModUnique ==
  ASSUME NEW b \in Nat \ {0}, NEW q \in Int, NEW r \in 0 .. b - 1,
         NEW a \in Int, a = q * b + r
  PROVE  a \div b = q /\ a % b = r
<1> DEFINE p == a \div b
           s == a % b
<1>1. p \in Int /\ s \in 0 .. b - 1 /\ a = p * b + s
  BY DivInt, ModRange, DivMod
<1> HIDE DEF p, s
<1>2. ~(p < q)
  BY <1>1, Gap
<1>3. ~(q < p)
  BY <1>1, Gap
<1>4. p = q
  BY <1>1, <1>2, <1>3
<1>5. s = r
  BY <1>1, <1>4
<1> QED
  BY <1>4, <1>5 DEF p, s

(* Adding a multiple of the divisor changes the quotient only.              *)
LEMMA AddMultiple ==
  ASSUME NEW a \in Int, NEW b \in Nat \ {0}, NEW m \in Int
  PROVE  (a + m * b) \div b = a \div b + m /\ (a + m * b) % b = a % b
<1> DEFINE q == a \div b
           r == a % b
<1>1. q \in Int /\ r \in 0 .. b - 1 /\ a = q * b + r
  BY DivInt, ModRange, DivMod
<1> HIDE DEF q, r
<1>2. a + m * b = (q + m) * b + r
  BY <1>1
<1>3. a + m * b \in Int /\ q + m \in Int
  BY <1>1
<1>4. (a + m * b) \div b = q + m /\ (a + m * b) % b = r
  BY <1>1, <1>2, <1>3, DivModUnique
<1> QED
  BY <1>4 DEF q, r

(* A remainder of a remainder: the clock is a whole number of rounds.       *)
LEMMA ModMod ==
  ASSUME NEW a \in Int, NEW b \in Nat \ {0}, NEW m \in Nat \ {0}
  PROVE  (a % (b * m)) % b = a % b
<1> DEFINE c == b * m
           q == a \div c
           r == a % c
           p == q * m
<1>0. c \in Nat \ {0}
  OBVIOUS
<1> HIDE DEF c
<1>1. q \in Int /\ r \in Int /\ a = q * c + r
  BY <1>0, DivInt, ModRange, DivMod
<1> HIDE DEF q, r
<1>2. a = r + p * b /\ p \in Int
  BY <1>1 DEF c
<1> HIDE DEF p
<1>3. (r + p * b) % b = r % b
  BY <1>1, <1>2, AddMultiple
<1> QED
  BY <1>2, <1>3 DEF r, c

(* Dividing twice is dividing once by the product.                          *)
LEMMA DivDiv ==
  ASSUME NEW a \in Int, NEW b \in Nat \ {0}, NEW m \in Nat \ {0}
  PROVE  /\ a \div (b * m) = (a \div b) \div m
         /\ a % (b * m) = ((a \div b) % m) * b + (a % b)
<1> DEFINE q == a \div b
           r == a % b
           p == q \div m
           s == q % m
<1>1. q \in Int /\ r \in 0 .. b - 1 /\ a = q * b + r
  BY DivInt, ModRange, DivMod
<1>2. p \in Int /\ s \in 0 .. m - 1 /\ q = p * m + s
  BY <1>1, DivInt, ModRange, DivMod
<1> HIDE DEF q, r, p, s
<1>3. a = p * (b * m) + (s * b + r)
  BY <1>1, <1>2
<1>4. s * b + b <= m * b
  BY <1>2, Gap
<1>5. 0 <= s * b
  BY <1>2
<1>6. s * b + r \in 0 .. (b * m) - 1 /\ b * m \in Nat \ {0}
  BY <1>1, <1>2, <1>4, <1>5
<1>7. a \div (b * m) = p /\ a % (b * m) = s * b + r
  BY <1>2, <1>3, <1>6, DivModUnique
<1> QED
  BY <1>7 DEF q, r, p, s

(* A time is at the start of a round of a vector exactly when it is at the  *)
(* start of a slot and the slot is the first.                               *)
LEMMA RoundStart ==
  ASSUME NEW a \in Int, NEW b \in Nat \ {0}, NEW m \in Nat \ {0}
  PROVE  a % (b * m) = 0 <=> a % b = 0 /\ (a \div b) % m = 0
<1> DEFINE r == a % b
           s == (a \div b) % m
<1>1. r \in 0 .. b - 1 /\ s \in 0 .. m - 1
  BY ModRange, DivInt
<1>2. a % (b * m) = s * b + r
  BY DivDiv
<1> HIDE DEF r, s
<1>3. s * b + r = 0 <=> s = 0 /\ r = 0
  BY <1>1
<1> QED
  BY <1>2, <1>3 DEF r, s

(* Two times less than a round apart, the first at the start of a slot, are *)
(* in slots of the same number only if they are in the same slot.           *)
LEMMA SameSlot ==
  ASSUME NEW U \in Nat \ {0}, NEW N \in Nat \ {0}, NEW M \in Nat \ {0},
         NEW j \in Int, j % U = 0,
         NEW d \in Nat, d < U * N
  PROVE  ((((j + d) % (U * N * M)) \div U) % N = (j \div U) % N) <=> d < U
<1> DEFINE W == U * N * M
           e == (j + d) % W
           t == j \div U
           k == (j + d) \div W
           x == d \div U
           y == d % U
<1>0. W \in Nat \ {0} /\ U * N \in Nat \ {0} /\ W = (N * M) * U
  OBVIOUS
<1> HIDE DEF W
<1>1. t \in Int /\ j = t * U
  BY DivInt, DivMod
<1>2. e \in Int /\ k \in Int /\ j + d = k * W + e
  <2> DEFINE v == j + d
  <2>1. v \in Int
    OBVIOUS
  <2> HIDE DEF v
  <2>2. W \in Nat \ {0}
    BY <1>0
  <2>3. v % W \in 0 .. W - 1
    BY <2>1, <2>2, ModRange
  <2>4. v \div W \in Int
    BY <2>1, <2>2, DivInt
  <2>5. v = (v \div W) * W + (v % W)
    BY <2>1, <2>2, DivMod
  <2> QED
    BY <2>2, <2>3, <2>4, <2>5 DEF v
<1>3. x \in Int /\ y \in 0 .. U - 1 /\ d = x * U + y
  BY DivInt, ModRange, DivMod
<1> HIDE DEF e, t, k, x, y
<1>4. 0 <= x /\ x < N
  <2>1. ~(x < 0)
    BY <1>3, Gap
  <2>2. ~(N - 1 < x)
    <3> SUFFICES ASSUME N <= x PROVE FALSE
      BY <1>3
    <3>1. N * U <= x * U
      BY <1>3
    <3> QED
      BY <1>3, <3>1
  <2> QED
    BY <1>3, <2>1, <2>2
<1>5. e \div U = t + x - k * (N * M)
  <2> DEFINE q == t + x - k * (N * M)
  <2>1. e = q * U + y
    BY <1>0, <1>1, <1>2, <1>3
  <2>2. q \in Int
    BY <1>1, <1>2, <1>3
  <2> HIDE DEF q
  <2>3. e \div U = q
    BY <1>2, <1>3, <2>1, <2>2, DivModUnique
  <2> QED
    BY <2>3 DEF q
<1>6. (e \div U) % N = (t + x) % N
  <2> DEFINE v == t + x
             l == -(k * M)
  <2>1. t + x - k * (N * M) = v + l * N
    BY <1>1, <1>2, <1>3
  <2>2. v \in Int /\ l \in Int
    BY <1>1, <1>2, <1>3
  <2> HIDE DEF v, l
  <2>3. (v + l * N) % N = v % N
    BY <2>2, AddMultiple
  <2> QED
    BY <1>5, <2>1, <2>3 DEF v
<1>7. (t + x) % N = t % N <=> x = 0
  <2> DEFINE p == t \div N
             z == t % N
  <2>1. p \in Int /\ z \in 0 .. N - 1 /\ t = p * N + z
    BY <1>1, DivInt, ModRange, DivMod
  <2> HIDE DEF p, z
  <2>2. CASE z + x < N
    <3> DEFINE v == t + x
               w == z + x
    <3>1. v = p * N + w /\ w \in 0 .. N - 1 /\ v \in Int
      BY <1>1, <1>3, <1>4, <2>1, <2>2
    <3> HIDE DEF v, w
    <3>2. v % N = w
      BY <2>1, <3>1, DivModUnique
    <3> QED
      BY <1>3, <2>1, <3>2 DEF v, w, z
  <2>3. CASE z + x >= N
    <3> DEFINE v == t + x
               o == p + 1
               w == z + x - N
    <3>1. v = o * N + w /\ w \in 0 .. N - 1 /\ v \in Int /\ o \in Int
      BY <1>1, <1>3, <1>4, <2>1, <2>3
    <3> HIDE DEF v, o, w
    <3>2. v % N = w
      BY <3>1, DivModUnique
    <3> QED
      BY <1>3, <1>4, <2>1, <2>3, <3>2 DEF v, w, z
  <2> QED
    BY <1>3, <2>1, <2>2, <2>3
<1>8. x = 0 <=> d < U
  <2>1. x = 0 => d < U
    BY <1>3
  <2>2. x >= 1 => d >= U
    BY <1>3
  <2> QED
    BY <1>3, <1>4, <2>1, <2>2
<1> QED
  BY <1>6, <1>7, <1>8 DEF W, e, t

-----------------------------------------------------------------------------
(* Times of a clock of W ticks.                                             *)

(* A time of the clock is its own remainder.                                *)
LEMMA ModSmall ==
  ASSUME NEW W \in Nat \ {0}, NEW a \in 0 .. W - 1
  PROVE  a % W = a
<1>1. a = 0 * W + a /\ a \in Int /\ 0 \in Int
  OBVIOUS
<1> QED
  BY <1>1, DivModUnique

(* What is ahead of j by the distance from j to e is e.                     *)
LEMMA AheadInverse ==
  ASSUME NEW W \in Nat \ {0}, NEW e \in 0 .. W - 1, NEW j \in 0 .. W - 1
  PROVE  (j + ((e - j) % W)) % W = e
<1> DEFINE a == (e - j) % W
           q == (e - j) \div W
           v == e - j
           m == -q
<1>1. a \in 0 .. W - 1 /\ q \in Int /\ v = q * W + a /\ v \in Int
  <2>1. v \in Int
    OBVIOUS
  <2> HIDE DEF v
  <2>2. v % W \in 0 .. W - 1 /\ v \div W \in Int /\ v = (v \div W) * W + (v % W)
    BY <2>1, ModRange, DivInt, DivMod
  <2> QED
    BY <2>1, <2>2 DEF v
<1> HIDE DEF a, q
<1>2. j + a = e + m * W /\ m \in Int
  BY <1>1
<1> HIDE DEF m
<1>3. e \in Int
  OBVIOUS
<1>4. (e + m * W) % W = e % W
  BY <1>2, <1>3, AddMultiple
<1> QED
  BY <1>2, <1>4, ModSmall DEF a

(* The next tick, before the clock wraps.                                   *)
LEMMA NextTick ==
  ASSUME NEW W \in Nat \ {0}, NEW j \in Int
  PROVE  \E p \in Int : (j + 1) % W = j + 1 - p * W
<1> DEFINE v == j + 1
<1>1. v \in Int
  OBVIOUS
<1> HIDE DEF v
<1>2. v \div W \in Int /\ v % W \in Int /\ v = (v \div W) * W + (v % W)
  BY <1>1, DivInt, ModRange, DivMod
<1>3. v % W = v - (v \div W) * W
  BY <1>1, <1>2
<1>4. v % W = j + 1 - (v \div W) * W
  BY <1>3 DEF v
<1> QED
  BY <1>2, <1>4 DEF v

(* A tick brings every time but the present one tick nearer.                *)
LEMMA Nearer ==
  ASSUME NEW W \in Nat \ {0}, NEW e \in Int, NEW j \in Int, (e - j) % W # 0
  PROVE  (e - ((j + 1) % W)) % W = ((e - j) % W) - 1
<1>1. PICK p \in Int : (j + 1) % W = j + 1 - p * W
  BY NextTick
<1> DEFINE v == e - j
           q == v \div W
           a == v % W
           u == e - ((j + 1) % W)
           o == q + p
           b == a - 1
<1>2. v \in Int
  OBVIOUS
<1> HIDE DEF v
<1>3. q \in Int /\ a \in 0 .. W - 1 /\ v = q * W + a
  BY <1>2, DivInt, ModRange, DivMod
<1> HIDE DEF q, a
<1>4. a # 0
  BY DEF a, v
<1>5. u = o * W + b
  <2>1. u = v - 1 + p * W
    BY <1>1 DEF v
  <2> HIDE DEF u
  <2> QED
    BY <1>3, <2>1
<1>6. u \in Int /\ o \in Int /\ b \in 0 .. W - 1
  <2>1. b \in 0 .. W - 1
    BY <1>3, <1>4
  <2>2. u \in Int
    BY <1>1
  <2> QED
    BY <1>3, <2>1, <2>2
<1> HIDE DEF u, o, b
<1>7. u % W = b
  BY <1>5, <1>6, DivModUnique
<1> QED
  BY <1>7 DEF u, b, a, v

(* A clock that wraps at a multiple of U keeps the time modulo U.           *)
LEMMA LastTick ==
  ASSUME NEW U \in Nat \ {0}, NEW M \in Nat \ {0}, NEW j \in Int
  PROVE  (((j + 1) % (U * M)) - 1) % U = j % U
<1>1. U * M \in Nat \ {0}
  OBVIOUS
<1>2. PICK p \in Int : (j + 1) % (U * M) = j + 1 - p * (U * M)
  BY <1>1, NextTick
<1> DEFINE m == -(p * M)
<1>3. ((j + 1) % (U * M)) - 1 = j + m * U /\ m \in Int
  BY <1>2
<1> HIDE DEF m
<1>4. (j + m * U) % U = j % U
  BY <1>3, AddMultiple
<1> QED
  BY <1>3, <1>4

(* The tick before one.                                                     *)
LEMMA Before ==
  ASSUME NEW U \in Nat \ {0}, NEW j \in Int
  PROVE  (j - 1) % U = IF j % U = 0 THEN U - 1 ELSE (j % U) - 1
<1> DEFINE q == j \div U
           r == j % U
           v == j - 1
           p == q - 1
           s == r - 1
           t == U - 1
<1>1. q \in Int /\ r \in 0 .. U - 1 /\ j = q * U + r
  BY DivInt, ModRange, DivMod
<1> HIDE DEF q, r
<1>2. CASE r = 0
  <2>1. v = p * U + t /\ p \in Int /\ t \in 0 .. U - 1 /\ v \in Int
    BY <1>1, <1>2
  <2> HIDE DEF v, p, t
  <2>2. v % U = t
    BY <2>1, DivModUnique
  <2> QED
    BY <1>2, <2>2 DEF v, t, r
<1>3. CASE r # 0
  <2>1. v = q * U + s /\ s \in 0 .. U - 1 /\ v \in Int
    BY <1>1, <1>3
  <2> HIDE DEF v, s
  <2>2. v % U = s
    BY <1>1, <2>1, DivModUnique
  <2> QED
    BY <1>3, <2>2 DEF v, s, r
<1> QED
  BY <1>2, <1>3

(* Multiplication keeps the order.                                          *)
LEMMA MulMono ==
  ASSUME NEW a \in Int, NEW b \in Int, a <= b, NEW d \in Nat
  PROVE  a * d <= b * d
<1> DEFINE x == b - a
<1>1. x \in Nat /\ b = a + x
  OBVIOUS
<1> HIDE DEF x
<1>2. (a + x) * d = a * d + x * d /\ x * d \in Nat /\ a * d \in Int
  BY <1>1
<1> QED
  BY <1>1, <1>2

(* So does division.                                                        *)
LEMMA DivMono ==
  ASSUME NEW a \in Int, NEW b \in Int, a <= b, NEW d \in Nat \ {0}
  PROVE  a \div d <= b \div d
<1> DEFINE p == a \div d
           q == b \div d
<1>1. p \in Int /\ q \in Int
  BY DivInt
<1>2. a = p * d + (a % d) /\ b = q * d + (b % d)
  BY DivMod
<1>3. (a % d) \in 0 .. d - 1 /\ (b % d) \in 0 .. d - 1
  BY ModRange
<1> HIDE DEF p, q
<1>4. p <= q
  <2> SUFFICES ASSUME q + 1 <= p PROVE FALSE
    BY <1>1
  <2>1. (q + 1) * d <= p * d
    BY <1>1, MulMono
  <2>2. (q + 1) * d = q * d + d /\ q * d \in Int /\ p * d \in Int
    BY <1>1
  <2> QED
    BY <1>2, <1>3, <2>1, <2>2
<1> QED
  BY <1>4 DEF p, q

(* What time j + i is from e, given what j is.                              *)
LEMMA NearerBy ==
  ASSUME NEW W \in Nat \ {0}, NEW e \in Int, NEW j \in Int, NEW i \in 0 .. W
  PROVE  (e - ((j + i) % W)) % W = IF (e - j) % W >= i THEN ((e - j) % W) - i
                                   ELSE ((e - j) % W) - i + W
<1> DEFINE v == e - j
           k == j + i
           q == v \div W
           a == v % W
           p == k \div W
           u == e - (k % W)
<1>1. v \in Int /\ k \in Int
  OBVIOUS
<1>2. /\ q \in Int /\ a \in 0 .. W - 1 /\ v = q * W + a
      /\ p \in Int /\ (k % W) \in 0 .. W - 1 /\ k = p * W + (k % W)
  <2> HIDE DEF v, k
  <2> QED
    BY <1>1, DivInt, ModRange, DivMod
<1>3. u = (q * W + p * W) + (a - i) /\ u \in Int
  <2>1. u = v - i + p * W
    BY <1>2
  <2>2. q * W \in Int /\ p * W \in Int
    BY <1>2
  <2> HIDE DEF u, q, p, a, v
  <2> QED
    BY <1>1, <1>2, <2>1, <2>2
<1> HIDE DEF u, q, p, a
<1>4. ASSUME a >= i PROVE u % W = a - i
  <2> DEFINE o == q + p
             b == a - i
  <2>1. o * W = q * W + p * W
    BY <1>2
  <2>2. o \in Int /\ b \in 0 .. W - 1
    BY <1>2, <1>4
  <2>3. u = o * W + b
    BY <1>3, <2>1
  <2>4. u \in Int
    BY <1>3
  <2> HIDE DEF o, b
  <2>5. u % W = b
    BY <2>2, <2>3, <2>4, DivModUnique
  <2> QED
    BY <2>5 DEF b
<1>5. ASSUME a < i PROVE u % W = a - i + W
  <2> DEFINE o == q + p - 1
             b == a - i + W
  <2>1. o * W = q * W + p * W - W
    BY <1>2
  <2>2. o \in Int /\ b \in 0 .. W - 1
    BY <1>2, <1>5
  <2>3. u = o * W + b
    BY <1>2, <1>3, <2>1
  <2>4. u \in Int
    BY <1>3
  <2> HIDE DEF o, b
  <2>5. u % W = b
    BY <2>2, <2>3, <2>4, DivModUnique
  <2> QED
    BY <2>5 DEF b
<1>6. u % W = IF a >= i THEN a - i ELSE a - i + W
  BY <1>2, <1>4, <1>5
<1> QED
  BY <1>6 DEF u, a

(* A difference that is negative, but not by more than the divisor.         *)
LEMMA ModNegative ==
  ASSUME NEW W \in Nat \ {0}, NEW r \in Int, -r \in 1 .. W
  PROVE  r % W = r + W
<1>1. r = (-1) * W + (r + W) /\ r + W \in 0 .. W - 1 /\ -1 \in Int
  OBVIOUS
<1> QED
  BY <1>1, DivModUnique

(* Sums and differences of remainders.                                      *)
LEMMA ModPlus ==
  ASSUME NEW W \in Nat \ {0}, NEW a \in Int, NEW b \in Int
  PROVE  /\ (a + b) % W = ((a % W) + b) % W
         /\ (a + b) % W = (a + (b % W)) % W
         /\ (a - b) % W = (a - (b % W)) % W
<1> DEFINE r == a % W
           s == b % W
           p == a \div W
           q == b \div W
           n == -q
<1>1. r \in Int /\ s \in Int /\ p \in Int /\ q \in Int /\ n \in Int
  BY ModRange, DivInt
<1>2. a = p * W + r /\ b = q * W + s
  BY DivMod
<1>3. n * W = -(q * W)
  BY <1>1
<1> HIDE DEF r, s, p, q, n
<1>4. /\ a + b = (r + b) + p * W
      /\ a + b = (a + s) + q * W
      /\ a - b = (a - s) + n * W
  BY <1>1, <1>2, <1>3
<1>5. /\ r + b \in Int /\ a + s \in Int /\ a - s \in Int
      /\ p \in Int /\ q \in Int /\ n \in Int
  BY <1>1
<1>6. ((r + b) + p * W) % W = (r + b) % W
  BY <1>5, AddMultiple
<1>7. ((a + s) + q * W) % W = (a + s) % W
  BY <1>5, AddMultiple
<1>8. ((a - s) + n * W) % W = (a - s) % W
  BY <1>5, AddMultiple
<1>9. /\ (a + b) % W = (r + b) % W /\ (a + b) % W = (a + s) % W
      /\ (a - b) % W = (a - s) % W
  BY <1>4, <1>6, <1>7, <1>8
<1> QED
  BY <1>9 DEF r, s
=============================================================================
