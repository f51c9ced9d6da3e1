------------------------------- MODULE Modular -------------------------------
(***************************************************************************)
(* Counting modulo N, for every N: what the proofs about rings, banks and  *)
(* cursors of a fixed width rest on.                                       *)
(***************************************************************************)
EXTENDS Integers, TLAPS

\* Division with a remainder.
LEMMA Division ==
  ASSUME NEW N \in Nat \ {0}, NEW y \in Int
  PROVE  y = N * (y \div N) + (y % N) /\ y % N \in 0 .. N - 1 /\ y \div N \in Int
<1>1. y = N * (y \div N) + (y % N)
  OBVIOUS
<1>2. y % N \in 0 .. N - 1
  OBVIOUS
<1>3. y \div N \in Int
  OBVIOUS
<1> QED BY <1>1, <1>2, <1>3

\* ... is unique.
LEMMA ModUnique ==
  ASSUME NEW N \in Nat \ {0}, NEW m \in Int, NEW s \in 0 .. N - 1
  PROVE  (N * m + s) % N = s
<1> DEFINE y == N * m + s
           d == m - (y \div N)
<1>0. y \in Int
  OBVIOUS
<1>1. y = N * (y \div N) + (y % N) /\ y % N \in 0 .. N - 1 /\ y \div N \in Int
  BY <1>0, Division
<1>2. N * d = (y % N) - s /\ d \in Int
  <2> DEFINE k == y \div N
             r == y % N
  <2>1. k \in Int /\ r \in Int /\ N * m + s = N * k + r
    BY <1>1
  <2> HIDE DEF k, r, y
  <2>2. N * (m - k) = N * m - N * k
    BY <2>1
  <2>3. N * m \in Int /\ N * k \in Int /\ s \in Int /\ m - k \in Int
    BY <2>1
  <2>4. N * (m - k) = r - s
    BY <2>1, <2>2, <2>3
  <2> QED BY <2>3, <2>4 DEF d, k, r
<1>3. (y % N) - s < N /\ (y % N) - s > 0 - N
  BY <1>1
<1> HIDE DEF d, y
<1>4. d < 1
  <2>1. ASSUME d >= 1 PROVE FALSE
    <3>1. N * d >= N
      BY <1>2, <2>1
    <3> QED BY <3>1, <1>2, <1>3, <1>1
  <2> QED BY <2>1, <1>2
<1>5. d > 0 - 1
  <2>1. ASSUME d <= 0 - 1 PROVE FALSE
    <3>1. N * d <= 0 - N
      BY <1>2, <2>1
    <3> QED BY <3>1, <1>2, <1>3, <1>1
  <2> QED BY <2>1, <1>2
<1>6. d = 0
  BY <1>2, <1>4, <1>5
<1> QED BY <1>1, <1>2, <1>6 DEF y

\* A value in range is its own remainder, also from one turn away.
LEMMA ModSmall ==
  ASSUME NEW N \in Nat \ {0}, NEW s \in 0 .. N - 1
  PROVE  s % N = s /\ (s + N) % N = s /\ (s - N) % N = s
<1>1. N * 0 + s = s /\ N * 1 + s = s + N /\ N * (0 - 1) + s = s - N
  OBVIOUS
<1> QED BY <1>1, ModUnique

\* Whole turns do not matter.
LEMMA ModTurns ==
  ASSUME NEW N \in Nat \ {0}, NEW a \in Int, NEW m \in Int
  PROVE  (a + N * m) % N = a % N
<1> DEFINE q == a \div N
           r == a % N
<1>1. a = N * q + r /\ r \in 0 .. N - 1 /\ q \in Int
  BY Division
<1> HIDE DEF q, r
<1>2. N * (q + m) = N * q + N * m /\ q + m \in Int
  BY <1>1
<1>3. a + N * m = N * (q + m) + r
  BY <1>1, <1>2
<1>4. (N * (q + m) + r) % N = r
  BY <1>1, <1>2, ModUnique
<1> QED BY <1>3, <1>4 DEF r

\* A remainder may stand for the number itself under + and -.
LEMMA ModPlus ==
  ASSUME NEW N \in Nat \ {0}, NEW a \in Int, NEW b \in Int
  PROVE  ((a % N) + b) % N = (a + b) % N
<1> DEFINE q == a \div N
           r == a % N
<1>1. a = N * q + r /\ r \in 0 .. N - 1 /\ q \in Int
  BY Division
<1> HIDE DEF q, r
<1>2. a + b = (r + b) + N * q /\ r + b \in Int
  BY <1>1
<1>3. ((r + b) + N * q) % N = (r + b) % N
  BY <1>1, <1>2, ModTurns
<1> QED BY <1>2, <1>3 DEF r

\* A remainder may be taken before it is subtracted.
LEMMA ModMinus ==
  ASSUME NEW N \in Nat \ {0}, NEW a \in Int, NEW b \in Int
  PROVE  (b - (a % N)) % N = (b - a) % N
<1> DEFINE q == a \div N
           r == a % N
<1>1. a = N * q + r /\ r \in 0 .. N - 1 /\ q \in Int
  BY Division
<1> HIDE DEF q, r
<1>2. b - r = (b - a) + N * q /\ b - a \in Int
  BY <1>1
<1>3. ((b - a) + N * q) % N = (b - a) % N
  BY <1>1, <1>2, ModTurns
<1> QED BY <1>2, <1>3 DEF r

\* Division is monotone, and of a natural a natural.
LEMMA DivBound ==
  ASSUME NEW N \in Nat \ {0}, NEW y \in Int, NEW bound \in Int
  PROVE  /\ y <= N * bound => y \div N <= bound
         /\ y >= 0 => y \div N >= 0
<1> DEFINE q == y \div N
           r == y % N
<1>1. y = N * q + r /\ r \in 0 .. N - 1 /\ q \in Int
  BY Division
<1> HIDE DEF q, r
<1>2. ASSUME y <= N * bound, q >= bound + 1 PROVE FALSE
  <2>1. N * (q - (bound + 1)) >= 0
    BY <1>1, <1>2
  <2>2. N * (q - (bound + 1)) = N * q - N * bound - N
    BY <1>1
  <2> QED BY <1>1, <1>2, <2>1, <2>2
<1>3. ASSUME y >= 0, q <= 0 - 1 PROVE FALSE
  <2>1. N * (0 - 1 - q) >= 0
    BY <1>1, <1>3
  <2>2. N * (0 - 1 - q) = 0 - N - N * q
    BY <1>1
  <2> QED BY <1>1, <1>3, <2>1, <2>2
<1> QED BY <1>1, <1>2, <1>3 DEF q

\* A cursor of a width that is a multiple of N, seen modulo N.
LEMMA ModOfMod ==
  ASSUME NEW N \in Nat \ {0}, NEW W \in Nat \ {0}, W % N = 0, NEW a \in Int
  PROVE  (a % W) % N = a % N
<1> DEFINE k == W \div N
           q == a \div W
           r == a % W
<1>1. W = N * k /\ k \in Int
  BY Division
<1>2. a = W * q + r /\ q \in Int /\ r \in Int
  BY Division
<1> HIDE DEF k, q, r
<1>3. a = r + N * (k * q) /\ k * q \in Int
  <2>1. (N * k) * q = N * (k * q) /\ k * q \in Int
    BY <1>1, <1>2
  <2> QED BY <1>1, <1>2, <2>1
<1>4. (r + N * (k * q)) % N = r % N
  BY <1>2, <1>3, ModTurns
<1> QED BY <1>3, <1>4 DEF r

\* Numbers less than N apart have different remainders.
LEMMA ModDistinct ==
  ASSUME NEW N \in Nat \ {0}, NEW a \in Int, NEW b \in Int, b - a \in 1 .. N - 1
  PROVE  a % N # b % N
<1>1. (b - a) % N = b - a /\ b - a # 0
  BY ModSmall
<1>2. (b - (a % N)) % N = (b - a) % N
  BY ModMinus
<1>3. (b - (b % N)) % N = 0
  <2>1. b = N * (b \div N) + (b % N) /\ b \div N \in Int /\ b % N \in Int
    BY Division
  <2>2. (N * (b \div N) + 0) % N = 0
    BY <2>1, ModUnique
  <2> DEFINE q == N * (b \div N)
             r == b % N
  <2>3. q \in Int /\ r \in Int /\ b = q + r /\ (q + 0) % N = 0
    BY <2>1, <2>2
  <2> HIDE DEF q, r
  <2>4. b - r = q + 0
    BY <2>3
  <2> QED BY <2>3, <2>4 DEF r
<1> QED BY <1>1, <1>2, <1>3
=============================================================================
