---------------------------- MODULE CommonProofs ----------------------------
(***************************************************************************)
(* What the proofs of several components share, for every value of the     *)
(* constants: sequence numbers, induction, streams, and what it means that *)
(* a receiver is in order.                                                 *)
(*                                                                         *)
(* The theorems are about sequence numbers: unwrap() returns a 64-bit      *)
(* number that wraps to n and is nearest to the checkpoint, and it undoes  *)
(* wrap() for every number less than half a wrap from the checkpoint.  The *)
(* argument: the numbers that wrap to n are Offset(n, isn) + t * Wrap      *)
(* (lemma WrapPreimages).  The first candidate a is the one with the       *)
(* checkpoint's own t; the second is its neighbour on the checkpoint's     *)
(* side (lemma UnwrapCases), so every other preimage is farther away.      *)
(***************************************************************************)
EXTENDS TCPReceiver, TLAPS

(***************************************************************************)
(* Sequence numbers.                                                       *)
(***************************************************************************)
(* Euclidean division, the only fact about \div and % used below.          *)
LEMMA DivMod ==
    ASSUME NEW x \in Int, NEW m \in Nat \ {0}
    PROVE  /\ x \div m \in Int
           /\ x % m \in 0 .. m - 1
           /\ x = m * (x \div m) + (x % m)
OBVIOUS

(* Quotient and remainder are unique.                                      *)
LEMMA ModUnique ==
    ASSUME NEW x \in Int, NEW m \in Nat \ {0}, NEW k \in Int, NEW r \in 0 .. m - 1,
           x = k * m + r
    PROVE  x % m = r /\ x \div m = k
OBVIOUS

(* Reduction modulo m subtracts a multiple of m.                           *)
LEMMA ModCongruent ==
    ASSUME NEW x \in Int, NEW m \in Nat \ {0}
    PROVE  x % m \in Int /\ \E k \in Int : x % m = x + k * m
<1>1. x \div m \in Int /\ x % m \in 0 .. m - 1 /\ x = m * (x \div m) + (x % m)
  BY DivMod
<1>2. PICK k \in Int : k = -(x \div m)
  BY <1>1
<1>3. x % m = x + k * m
  BY <1>1, <1>2
<1> QED
  BY <1>1, <1>3

(* The second candidate's offset from the first, before reduction.         *)
LEMMA Expand ==
    ASSUME NEW o \in Int, NEW q \in Int, NEW s \in Int, NEW k \in Int,
           NEW W \in Int, NEW U \in Int
    PROVE  o + (q + s + k * U) * W = o + q * W + s * W + (k * W) * U
OBVIOUS

(* Multiplication by a natural number is monotone.                         *)
LEMMA MulMono ==
    ASSUME NEW i \in Int, NEW j \in Int, NEW m \in Nat, i <= j
    PROVE  i * m <= j * m
OBVIOUS

(* Reduction modulo 2^64 of a number at most one wrap outside the range.   *)
LEMMA ModU64 ==
    ASSUME NEW x \in Int
    PROVE  /\ U64 \in Nat \ {0}
           /\ x \in UInt64 => x % U64 = x
           /\ x \in U64 .. 2 * U64 - 1 => x % U64 = x - U64
           /\ x \in -U64 .. -1 => x % U64 = x + U64
<1>1. U64 \in Nat \ {0}
  BY WrapAssumption DEF U64
<1>2. ASSUME x \in UInt64 PROVE x % U64 = x
  BY <1>1, <1>2, ModUnique, x = 0 * U64 + x DEF UInt64
<1>3. ASSUME x \in U64 .. 2 * U64 - 1 PROVE x % U64 = x - U64
  BY <1>1, <1>3, ModUnique, x = 1 * U64 + (x - U64), x - U64 \in 0 .. U64 - 1
<1>4. ASSUME x \in -U64 .. -1 PROVE x % U64 = x + U64
  BY <1>1, <1>4, ModUnique, x = (-1) * U64 + (x + U64), x + U64 \in 0 .. U64 - 1
<1> QED
  BY <1>1, <1>2, <1>3, <1>4

(* The offset of a WrappingInt32 from the ISN is again below 2^32.         *)
LEMMA OffsetType ==
    ASSUME NEW n \in WrappingInt32, NEW i \in WrappingInt32
    PROVE  Offset(n, i) \in 0 .. Wrap - 1
BY WrapAssumption DEF WrappingInt32, Offset

(* A 64-bit number is q * Wrap + r with q < Wraps.                         *)
LEMMA Split ==
    ASSUME NEW c \in UInt64
    PROVE  /\ c \div Wrap \in 0 .. Wraps - 1
           /\ c % Wrap \in 0 .. Wrap - 1
           /\ c = (c \div Wrap) * Wrap + (c % Wrap)
<1> DEFINE q == c \div Wrap
<1>1. c \in Nat /\ c < Wrap * Wraps /\ Wrap \in Nat \ {0} /\ Wraps \in Nat \ {0}
  BY WrapAssumption DEF UInt64, U64
<1>2. q \in Int /\ c % Wrap \in 0 .. Wrap - 1 /\ c = q * Wrap + (c % Wrap)
  BY <1>1, DivMod
<1>3. q >= 0
  <2>1. SUFFICES ASSUME q <= -1 PROVE FALSE
    BY <1>2
  <2>2. q * Wrap <= (-1) * Wrap
    BY <2>1, <1>1, <1>2, MulMono
  <2> QED
    BY <2>2, <1>1, <1>2
<1>4. q <= Wraps - 1
  <2>1. SUFFICES ASSUME Wraps <= q PROVE FALSE
    BY <1>1, <1>2
  <2>2. Wraps * Wrap <= q * Wrap
    BY <2>1, <1>1, <1>2, MulMono
  <2> QED
    BY <2>2, <1>1, <1>2
<1> QED
  BY <1>1, <1>2, <1>3, <1>4

(* The numbers that wrap to n are exactly Offset(n, i) + t * Wrap.         *)
LEMMA WrapPreimages ==
    ASSUME NEW n \in WrappingInt32, NEW i \in WrappingInt32, NEW t \in 0 .. Wraps - 1
    PROVE  /\ Offset(n, i) + t * Wrap \in UInt64
           /\ wrap(Offset(n, i) + t * Wrap, i) = n
<1> DEFINE o == Offset(n, i)
           m == o + t * Wrap
<1>1. Wrap \in Nat \ {0} /\ Wraps \in Nat \ {0} /\ i \in 0 .. Wrap - 1 /\ n \in 0 .. Wrap - 1
  BY WrapAssumption DEF WrappingInt32
<1>2. o \in 0 .. Wrap - 1 /\ (o + i = n \/ o + i = n + Wrap)
  BY <1>1 DEF WrappingInt32, Offset
<1>3. 0 * Wrap <= t * Wrap /\ t * Wrap <= (Wraps - 1) * Wrap
  BY <1>1, MulMono
<1>4. m \in UInt64
  BY <1>1, <1>2, <1>3 DEF UInt64, U64
<1>5. PICK e \in {0, 1} : o + i = n + e * Wrap
  BY <1>1, <1>2
<1>6. m \in Nat /\ m + i \in Int /\ t + e \in Int
  BY <1>1, <1>4, <1>5 DEF UInt64
<1>7. m + i = (t + e) * Wrap + n
  BY <1>1, <1>2, <1>5
<1> HIDE DEF o, m
<1>8. (m + i) % Wrap = n
  BY <1>1, <1>6, <1>7, ModUnique
<1>9. CASE m + i < U64
  <2>1. (m + i) % U64 = m + i
    BY <1>1, <1>6, <1>9, ModU64 DEF UInt64
  <2> QED
    BY <2>1, <1>4, <1>8 DEF wrap, o, m
<1>10. CASE m + i >= U64
  <2>1. U64 \in Nat /\ U64 = Wraps * Wrap
    BY <1>1 DEF U64
  <2>2. 1 * Wrap <= Wraps * Wrap
    BY <1>1, MulMono
  <2>3. m + i \in U64 .. 2 * U64 - 1
    BY <2>1, <2>2, <1>1, <1>4, <1>6, <1>10 DEF UInt64
  <2>4. (m + i) % U64 = m + i - U64
    <3>1. m + i = 1 * U64 + (m + i - U64) /\ m + i - U64 \in 0 .. U64 - 1
      BY <2>1, <2>3, <1>1, <1>6
    <3> QED
      BY <3>1, <1>6, ModUnique, ModU64
  <2>5. m + i - U64 = (t + e - Wraps) * Wrap + n
    BY <2>1, <1>1, <1>6, <1>7
  <2>6. m + i - U64 \in Int /\ t + e - Wraps \in Int
    BY <2>1, <1>1, <1>6
  <2>7. (m + i - U64) % Wrap = n
    BY <2>5, <2>6, <1>1, ModUnique
  <2> QED
    BY <2>4, <2>7, <1>4 DEF wrap, o, m
<1> QED
  BY <1>1, <1>4, <1>6, <1>9, <1>10, ModU64 DEF o, m

(* Conversely, a number that wraps to n has that form.                     *)
LEMMA WrapInverse ==
    ASSUME NEW n \in WrappingInt32, NEW i \in WrappingInt32, NEW m \in UInt64,
           wrap(m, i) = n
    PROVE  m = Offset(n, i) + (m \div Wrap) * Wrap
<1> DEFINE q == m \div Wrap
           r == m % Wrap
<1>1. Wrap \in Nat \ {0} /\ Wraps \in Nat \ {0} /\ i \in 0 .. Wrap - 1 /\ n \in 0 .. Wrap - 1
  BY WrapAssumption DEF WrappingInt32
<1>2. q \in 0 .. Wraps - 1 /\ r \in 0 .. Wrap - 1 /\ m = q * Wrap + r
  BY Split
<1>3. PICK k \in WrappingInt32 : r = Offset(k, i)
  <2>1. CASE r + i < Wrap
    <3>1. r + i \in WrappingInt32 /\ r = Offset(r + i, i)
      BY <2>1, <1>1, <1>2 DEF WrappingInt32, Offset
    <3> QED
      BY <3>1
  <2>2. CASE r + i >= Wrap
    <3>1. r + i - Wrap \in WrappingInt32 /\ r = Offset(r + i - Wrap, i)
      BY <2>2, <1>1, <1>2 DEF WrappingInt32, Offset
    <3> QED
      BY <3>1
  <2> QED
    BY <2>1, <2>2, <1>1, <1>2
<1> HIDE DEF q, r
<1>4. m = Offset(k, i) + q * Wrap
  BY <1>1, <1>2, <1>3, OffsetType
<1>5. wrap(m, i) = k
  BY <1>2, <1>3, <1>4, WrapPreimages
<1> QED
  BY <1>4, <1>5 DEF q

(* What unwrap computes: a is the preimage in the checkpoint's own wrap, b *)
(* its neighbour towards the checkpoint, or a number a whole 2^64 - 2^32   *)
(* away when there is none.                                                *)
LEMMA UnwrapCases ==
    ASSUME NEW n \in WrappingInt32, NEW i \in WrappingInt32, NEW c \in UInt64,
           NEW a, a = Offset(n, i) + (c \div Wrap) * Wrap
    PROVE  /\ a \in UInt64
           /\ \E b \in UInt64 :
                 /\ unwrap(n, i, c) = IF diff(c, a) > diff(c, b) THEN b ELSE a
                 /\ \/ a < c /\ a + Wrap < U64 /\ b = a + Wrap
                    \/ a < c /\ a + Wrap >= U64 /\ b = a + Wrap - U64
                    \/ a >= c /\ a - Wrap >= 0 /\ b = a - Wrap
                    \/ a >= c /\ a - Wrap < 0 /\ b = a - Wrap + U64
<1> DEFINE o == Offset(n, i)
           q == c \div Wrap
           s == IF a < c THEN 1 ELSE -1
           w == (q + s) % U64
           b == (o + w * Wrap) % U64
<1>1. /\ Wrap \in Nat \ {0} /\ Wraps \in Nat \ {0} /\ U64 \in Nat \ {0}
      /\ U64 = Wraps * Wrap
  BY WrapAssumption, ModU64, 0 \in Int DEF U64
<1>2. /\ o \in 0 .. Wrap - 1 /\ q \in 0 .. Wraps - 1 /\ a \in UInt64 /\ c \in Nat
  BY Split, OffsetType, WrapPreimages DEF UInt64
<1>3. a \in Int /\ s \in {1, -1} /\ a = o + q * Wrap
  BY <1>2 DEF UInt64
<1>4. unwrap(n, i, c) = IF diff(c, a) > diff(c, b) THEN b ELSE a
  BY DEF unwrap
<1>5. PICK k \in Int : w = q + s + k * U64 /\ w \in Int
  BY <1>1, <1>2, <1>3, ModCongruent, q + s \in Int
<1> DEFINE x == o + w * Wrap
<1>6. x \in Int /\ x = a + s * Wrap + (k * Wrap) * U64
  <2>1. o \in Int /\ q \in Int /\ s \in Int /\ Wrap \in Int /\ U64 \in Int
    BY <1>1, <1>2, <1>3
  <2> HIDE DEF o, q, s, w
  <2>2. x \in Int
    BY <2>1, <1>5
  <2> QED
    BY <2>1, <2>2, <1>3, <1>5, Expand
<1>7. b = x % U64
  OBVIOUS
<1> HIDE DEF o, q, s, w, b, x
<1>8. ASSUME NEW y \in UInt64, NEW e \in {-1, 0, 1}, a + s * Wrap = e * U64 + y
      PROVE  b = y
  <2>1. x = (e + k * Wrap) * U64 + y
    BY <1>1, <1>3, <1>6, <1>8 DEF UInt64
  <2>2. PICK j \in Int : j = e + k * Wrap
    BY <1>1, <1>8
  <2>3. x = j * U64 + y /\ y \in 0 .. U64 - 1
    BY <2>1, <2>2 DEF UInt64
  <2>4. U64 \in Nat \ {0} /\ x \in Int
    BY <1>1, <1>6
  <2>5. x % U64 = y
    BY <2>3, <2>4, ModUnique
  <2> QED
    BY <2>5, <1>7
<1>9. Wrap <= U64
  BY <1>1, MulMono, 1 * Wrap <= Wraps * Wrap
<1>10. CASE a < c /\ a + Wrap < U64
  <2>1. a + Wrap \in UInt64 /\ a + s * Wrap = 0 * U64 + (a + Wrap)
    BY <1>1, <1>2, <1>3, <1>10 DEF UInt64, s
  <2> QED
    BY <2>1, <1>2, <1>4, <1>8, <1>10
<1>11. CASE a < c /\ a + Wrap >= U64
  <2>1. a + Wrap - U64 \in UInt64 /\ a + s * Wrap = 1 * U64 + (a + Wrap - U64)
    BY <1>1, <1>2, <1>3, <1>9, <1>11 DEF UInt64, s
  <2> QED
    BY <2>1, <1>2, <1>4, <1>8, <1>11
<1>12. CASE a >= c /\ a - Wrap >= 0
  <2>1. a - Wrap \in UInt64 /\ a + s * Wrap = 0 * U64 + (a - Wrap)
    BY <1>1, <1>2, <1>3, <1>12 DEF UInt64, s
  <2> QED
    BY <2>1, <1>2, <1>4, <1>8, <1>12
<1>13. CASE a >= c /\ a - Wrap < 0
  <2>1. a - Wrap + U64 \in UInt64 /\ a + s * Wrap = (-1) * U64 + (a - Wrap + U64)
    BY <1>1, <1>2, <1>3, <1>9, <1>13 DEF UInt64, s
  <2> QED
    BY <2>1, <1>2, <1>4, <1>8, <1>13
<1> QED
  BY <1>1, <1>2, <1>3, <1>10, <1>11, <1>12, <1>13

(* unwrap() returns a 64-bit number that wraps to n, and no number that    *)
(* wraps to n is closer to the checkpoint (wrapping_integers.cc:27).       *)
THEOREM UnwrapClosest ==
    ASSUME NEW n \in WrappingInt32, NEW i \in WrappingInt32, NEW c \in UInt64
    PROVE  ClosestCandidate(n, i, c)
<1> DEFINE o == Offset(n, i)
           q == c \div Wrap
           a == o + q * Wrap
           u == unwrap(n, i, c)
<1>1. /\ Wrap \in Nat \ {0} /\ Wraps \in Nat \ {0} /\ U64 \in Nat \ {0}
      /\ U64 = Wraps * Wrap
  BY WrapAssumption, ModU64, 0 \in Int DEF U64
<1>2. /\ o \in 0 .. Wrap - 1 /\ q \in 0 .. Wraps - 1 /\ c % Wrap \in 0 .. Wrap - 1
      /\ c = q * Wrap + (c % Wrap)
  BY Split, OffsetType
<1>3. a \in UInt64 /\ wrap(a, i) = n
  BY <1>2, WrapPreimages
<1>4. PICK b \in UInt64 :
         /\ u = IF diff(c, a) > diff(c, b) THEN b ELSE a
         /\ \/ a < c /\ a + Wrap < U64 /\ b = a + Wrap
            \/ a < c /\ a + Wrap >= U64 /\ b = a + Wrap - U64
            \/ a >= c /\ a - Wrap >= 0 /\ b = a - Wrap
            \/ a >= c /\ a - Wrap < 0 /\ b = a - Wrap + U64
  BY UnwrapCases
<1>5. \E t \in 0 .. Wraps - 1 : b = o + t * Wrap
  <2>1. \E t \in Int : b = o + t * Wrap
    <3>1. a + Wrap = o + (q + 1) * Wrap
      BY <1>1, <1>2
    <3>2. a - Wrap = o + (q - 1) * Wrap
      BY <1>1, <1>2
    <3>3. a + Wrap - U64 = o + (q + 1 - Wraps) * Wrap
      BY <1>1, <1>2
    <3>4. a - Wrap + U64 = o + (q - 1 + Wraps) * Wrap
      BY <1>1, <1>2
    <3>5. q + 1 \in Int /\ q - 1 \in Int /\ q + 1 - Wraps \in Int /\ q - 1 + Wraps \in Int
      BY <1>1, <1>2
    <3> HIDE DEF a, o, q
    <3> QED
      BY <3>1, <3>2, <3>3, <3>4, <3>5, <1>4
  <2>2. PICK t \in Int : b = o + t * Wrap
    BY <2>1
  <2> HIDE DEF a, o, q, u
  <2>3. t >= 0
    <3>1. SUFFICES ASSUME t <= -1 PROVE FALSE
      OBVIOUS
    <3>2. t * Wrap <= (-1) * Wrap
      BY <3>1, <1>1, MulMono
    <3> QED
      BY <3>2, <2>2, <1>1, <1>2 DEF UInt64
  <2>4. t <= Wraps - 1
    <3>1. SUFFICES ASSUME Wraps <= t PROVE FALSE
      BY <1>1
    <3>2. Wraps * Wrap <= t * Wrap
      BY <3>1, <1>1, MulMono
    <3> QED
      BY <3>2, <2>2, <1>1, <1>2 DEF UInt64
  <2> QED
    BY <2>2, <2>3, <2>4, <1>1
<1>6. wrap(b, i) = n
  BY <1>5, WrapPreimages
<1>7. u \in UInt64 /\ wrap(u, i) = n
  BY <1>3, <1>4, <1>6
<1>8. ASSUME NEW m \in UInt64, wrap(m, i) = n
      PROVE  diff(c, u) <= diff(c, m)
  <2> DEFINE t == m \div Wrap
  <2>1. m = o + t * Wrap /\ t \in 0 .. Wraps - 1
    BY <1>8, WrapInverse, Split
  <2>2. a = o + q * Wrap
    OBVIOUS
  <2>3. a - c < Wrap /\ c - a < Wrap
    <3>1. PICK p \in Int : p = q * Wrap
      BY <1>1, <1>2
    <3>2. a = o + p /\ c = p + (c % Wrap)
      BY <3>1, <1>2
    <3> HIDE DEF a, o, q
    <3> QED
      BY <3>1, <3>2, <1>1, <1>2
  <2>4. a \in Nat /\ b \in Nat /\ c \in Nat /\ m \in Nat /\ m < U64
    BY <1>1, <1>3 DEF UInt64
  <2> HIDE DEF a, o, q, u, t
  <2>5. CASE t = q
    BY <2>1, <2>2, <2>4, <2>5, <1>4 DEF diff
  <2>6. CASE t >= q + 1
    <3>1. (q + 1) * Wrap <= t * Wrap
      BY <2>1, <2>6, <1>1, <1>2, MulMono
    <3>2. (q + 1) * Wrap = q * Wrap + Wrap /\ q * Wrap \in Int /\ t * Wrap \in Int
      BY <2>1, <1>1, <1>2
    <3>3. m >= a + Wrap
      BY <3>1, <3>2, <2>1, <2>2, <1>1, <1>2
    <3> QED
      BY <3>3, <2>3, <2>4, <1>1, <1>4 DEF diff
  <2>7. CASE t <= q - 1
    <3>1. t * Wrap <= (q - 1) * Wrap
      BY <2>1, <2>7, <1>1, <1>2, MulMono
    <3>2. (q - 1) * Wrap = q * Wrap - Wrap /\ q * Wrap \in Int /\ t * Wrap \in Int
      BY <2>1, <1>1, <1>2
    <3>3. m <= a - Wrap
      BY <3>1, <3>2, <2>1, <2>2, <1>1, <1>2
    <3> QED
      BY <3>3, <2>3, <2>4, <1>1, <1>4 DEF diff
  <2> QED
    BY <2>1, <2>5, <2>6, <2>7, <1>2
<1> QED
  BY <1>7, <1>8 DEF ClosestCandidate

(* A number sent as wrap(m) is read back as m by a peer whose checkpoint   *)
(* is less than half a wrap away.                                          *)
THEOREM UnwrapRoundTrip ==
    ASSUME NEW m \in UInt64, NEW i \in WrappingInt32, NEW c \in UInt64
    PROVE  RoundTripAt(m, i, c)
<1> DEFINE n == wrap(m, i)
           u == unwrap(n, i, c)
<1>1. SUFFICES ASSUME 2 * diff(c, m) < Wrap PROVE u = m
  BY DEF RoundTripAt
<1>2. Wrap \in Nat \ {0} /\ m \in Nat /\ c \in Nat /\ i \in Nat /\ U64 \in Nat \ {0}
  BY WrapAssumption, ModU64, 0 \in Int DEF UInt64, WrappingInt32
<1>3. n \in WrappingInt32
  BY <1>2, DivMod, m + i \in Int DEF wrap, WrappingInt32
<1> HIDE DEF n
<1>4. u \in UInt64 /\ wrap(u, i) = n /\ diff(c, u) <= diff(c, m)
  BY <1>3, UnwrapClosest DEF ClosestCandidate, n
<1> HIDE DEF u
<1>5. /\ m = Offset(n, i) + (m \div Wrap) * Wrap
      /\ u = Offset(n, i) + (u \div Wrap) * Wrap
  BY <1>3, <1>4, WrapInverse DEF n
<1>6. /\ m \div Wrap \in Int /\ u \div Wrap \in Int
      /\ Offset(n, i) \in Int /\ u \in Nat
  BY <1>3, <1>4, Split, OffsetType DEF UInt64
<1>7. u - m < Wrap /\ m - u < Wrap
  BY <1>1, <1>2, <1>4, <1>6 DEF diff
<1>8. u \div Wrap = m \div Wrap
  <2> DEFINE tu == u \div Wrap
             tm == m \div Wrap
  <2>1. /\ tu \in Int /\ tm \in Int /\ u = Offset(n, i) + tu * Wrap
        /\ m = Offset(n, i) + tm * Wrap
    BY <1>5, <1>6
  <2> HIDE DEF tu, tm
  <2>2. ~(tu >= tm + 1)
    <3>1. SUFFICES ASSUME tm + 1 <= tu PROVE FALSE
      BY <2>1
    <3>2. (tm + 1) * Wrap <= tu * Wrap
      BY <3>1, <2>1, <1>2, MulMono
    <3> QED
      BY <3>2, <2>1, <1>2, <1>6, <1>7
  <2>3. ~(tm >= tu + 1)
    <3>1. SUFFICES ASSUME tu + 1 <= tm PROVE FALSE
      BY <2>1
    <3>2. (tu + 1) * Wrap <= tm * Wrap
      BY <3>1, <2>1, <1>2, MulMono
    <3> QED
      BY <3>2, <2>1, <1>2, <1>6, <1>7
  <2> QED
    BY <2>1, <2>2, <2>3 DEF tu, tm
<1> QED
  BY <1>5, <1>8

(* The first segment has the ISN, which is the SYN's number wrapped.       *)
LEMMA WrapZero ==
    ASSUME NEW isn \in WrappingInt32
    PROVE  wrap(0, isn) = isn
<1>1. Wrap \in Nat \ {0} /\ isn \in 0 .. Wrap - 1 /\ U64 \in Nat \ {0}
  BY WrapAssumption, ModU64, 0 \in Int DEF WrappingInt32
<1>2. Wrap <= U64
  <2>1. Wraps \in Nat \ {0} /\ 1 <= Wraps /\ 1 \in Int /\ Wraps \in Int
    BY WrapAssumption
  <2>2. 1 * Wrap <= Wraps * Wrap
    BY <1>1, <2>1, MulMono
  <2> QED
    BY <1>1, <2>1, <2>2 DEF U64
<1>3. isn \in UInt64 /\ isn \in Int
  BY <1>1, <1>2 DEF UInt64
<1>4. isn % U64 = isn
  BY <1>3, ModU64
<1>5. isn % Wrap = isn
  BY <1>1
<1>6. 0 + isn = isn
  BY <1>1
<1> QED
  BY <1>4, <1>5, <1>6 DEF wrap

(***************************************************************************)
(* Streams.  at is a stream, a function from places to bytes.              *)
(***************************************************************************)
(* s is the run of the stream at that begins at the place a.               *)
Run(s, a, at) == s \in Seq(Int) /\ \A j \in 1 .. Len(s) : s[j] = at[a + j - 1]
(* The elements of a concatenation.                                        *)
LEMMA ConcatFacts ==
    ASSUME NEW S, NEW a \in Seq(S), NEW b \in Seq(S)
    PROVE  /\ a \o b \in Seq(S) /\ Len(a \o b) = Len(a) + Len(b)
           /\ \A i \in 1 .. Len(a) : (a \o b)[i] = a[i]
           /\ \A i \in Len(a) + 1 .. Len(a) + Len(b) : (a \o b)[i] = b[i - Len(a)]
OBVIOUS

(* Runs of the stream: two that follow one another, and a part of one.     *)
LEMMA RunsConcat ==
    ASSUME NEW at, NEW a \in Nat, NEW s, NEW t, Run(s, a, at), Run(t, a + Len(s), at)
    PROVE  Run(s \o t, a, at) /\ Len(s \o t) = Len(s) + Len(t)
<1> DEFINE q == s \o t
<1>1. s \in Seq(Int) /\ t \in Seq(Int) /\ Len(s) \in Nat /\ Len(t) \in Nat
  BY DEF Run
<1>2. /\ q \in Seq(Int) /\ Len(q) = Len(s) + Len(t)
      /\ \A i \in 1 .. Len(s) : q[i] = s[i]
      /\ \A i \in Len(s) + 1 .. Len(s) + Len(t) : q[i] = t[i - Len(s)]
  BY <1>1
<1> HIDE DEF q
<1>3. ASSUME NEW j \in 1 .. Len(q) PROVE q[j] = at[a + j - 1]
  <2>1. CASE j <= Len(s)
    BY <2>1, <1>1, <1>2 DEF Run
  <2>2. CASE j > Len(s)
    <3>1. q[j] = t[j - Len(s)] /\ j - Len(s) \in 1 .. Len(t)
      BY <2>2, <1>1, <1>2
    <3>2. t[j - Len(s)] = at[a + Len(s) + (j - Len(s)) - 1]
      BY <3>1 DEF Run
    <3>3. a + Len(s) + (j - Len(s)) - 1 = a + j - 1
      BY <1>1, <1>2
    <3> QED
      BY <3>1, <3>2, <3>3
  <2> QED
    BY <2>1, <2>2, <1>1, <1>2
<1>4. Run(q, a, at)
  BY <1>2, <1>3 DEF Run
<1> QED
  BY <1>2, <1>4 DEF q

(* A part of a run is a run.                                               *)
LEMMA RunPart ==
    ASSUME NEW at, NEW a \in Nat, NEW s, Run(s, a, at), NEW m \in Nat, NEW n \in Nat,
           m <= n, n <= Len(s)
    PROVE  Run(SubSeq(s, m + 1, n), a + m, at) /\ Len(SubSeq(s, m + 1, n)) = n - m
<1> DEFINE q == SubSeq(s, m + 1, n)
<1>1. s \in Seq(Int) /\ Len(s) \in Nat
  BY DEF Run
<1>2. q \in Seq(Int) /\ Len(q) = n - m /\ \A i \in 1 .. n - m : q[i] = s[m + i]
  BY <1>1
<1> HIDE DEF q
<1>3. ASSUME NEW j \in 1 .. Len(q) PROVE q[j] = at[a + m + j - 1]
  <2>1. j \in 1 .. n - m /\ m + j \in 1 .. Len(s)
    BY <1>1, <1>2
  <2>4. q[j] = s[m + j]
    BY <1>2, <2>1
  <2>2. s[m + j] = at[a + (m + j) - 1]
    BY <2>1 DEF Run
  <2>3. a + (m + j) - 1 = a + m + j - 1
    BY <1>1, <1>2
  <2> QED
    BY <2>2, <2>3, <2>4
<1>4. Run(q, a + m, at)
  BY <1>2, <1>3 DEF Run
<1> QED
  BY <1>2, <1>4 DEF q

(* The first elements of a run are a run.                                  *)
LEMMA RunPrefix ==
    ASSUME NEW at, NEW a \in Nat, NEW s, Run(s, a, at), NEW n \in Nat, n <= Len(s)
    PROVE  Run(SubSeq(s, 1, n), a, at) /\ Len(SubSeq(s, 1, n)) = n
<1> DEFINE q == SubSeq(s, 1, n)
<1>1. s \in Seq(Int) /\ Len(s) \in Nat /\ \A j \in 1 .. Len(s) : s[j] = at[a + j - 1]
  BY DEF Run
<1>2. q \in Seq(Int) /\ Len(q) = n /\ \A i \in 1 .. n : q[i] = s[i]
  BY <1>1
<1> HIDE DEF q
<1>3. ASSUME NEW j \in 1 .. Len(q) PROVE q[j] = at[a + j - 1]
  <2>1. j \in 1 .. n /\ j \in 1 .. Len(s)
    BY <1>1, <1>2
  <2> QED
    BY <2>1, <1>1, <1>2
<1>4. Run(q, a, at)
  BY <1>2, <1>3 DEF Run
<1> QED
  BY <1>2, <1>4 DEF q

Wrote(w, q, t, at) ==
    /\ w \in Stream(Int) /\ w.written = q.written + Len(t)
    /\ Len(w.buf) = Len(q.buf) + Len(t) /\ Run(w.buf, bytes_read(w), at)
    /\ w.ended = q.ended /\ w.error = q.error
(* write() of a run that has room and continues the stream.                *)
LEMMA WriteContinues ==
    ASSUME NEW q \in Stream(Int), NEW at, NEW t, Len(q.buf) <= q.written,
           Run(q.buf, bytes_read(q), at), Run(t, q.written, at),
           NEW cap \in Nat, Len(q.buf) + Len(t) <= cap, NEW w, w = write(q, t, cap)
    PROVE  Wrote(w, q, t, at)
<1>1. /\ q.buf \in Seq(Int) /\ q.written \in Nat /\ q.ended \in BOOLEAN /\ q.error \in BOOLEAN
      /\ q = [buf |-> q.buf, written |-> q.written, ended |-> q.ended, error |-> q.error]
  BY DEF Stream
<1>2. Len(q.buf) \in Nat /\ t \in Seq(Int) /\ Len(t) \in Nat
  BY <1>1 DEF Run
<1>3. MinOf(Len(t), remaining_capacity(q, cap)) = Len(t) /\ SubSeq(t, 1, Len(t)) = t
  BY <1>2 DEF MinOf, remaining_capacity
<1>4. w = [q EXCEPT !.buf = q.buf \o t, !.written = q.written + Len(t)]
  BY Zenon, <1>3 DEF write
<1>5. w = [buf |-> q.buf \o t, written |-> q.written + Len(t), ended |-> q.ended, error |-> q.error]
  <2>1. PICK b, n, e, x : q = [buf |-> b, written |-> n, ended |-> e, error |-> x]
    BY <1>1
  <2>2. PICK bt, nt : bt = q.buf \o t /\ nt = q.written + Len(t)
    OBVIOUS
  <2>3. w = [q EXCEPT !.buf = bt, !.written = nt]
    BY <1>4, <2>2
  <2>4. w = [buf |-> bt, written |-> nt, ended |-> q.ended, error |-> q.error]
    BY <2>1, <2>3
  <2> QED
    BY <2>2, <2>4
<1>6. bytes_read(q) \in Nat /\ bytes_read(q) + Len(q.buf) = q.written
  BY <1>1, <1>2 DEF bytes_read
<1>7. Run(q.buf \o t, bytes_read(q), at) /\ Len(q.buf \o t) = Len(q.buf) + Len(t)
  BY <1>6, RunsConcat
<1>8. /\ w.buf = q.buf \o t /\ w.written = q.written + Len(t)
      /\ w.ended = q.ended /\ w.error = q.error
  BY <1>5
<1>9. bytes_read(w) = bytes_read(q)
  BY <1>1, <1>2, <1>7, <1>8 DEF bytes_read
<1>10. w \in Stream(Int)
  <2>1. w.buf \in Seq(Int) /\ w.written \in Nat
    BY <1>1, <1>2, <1>7, <1>8 DEF Run
  <2> QED
    BY <1>1, <1>5, <1>8, <2>1 DEF Stream
<1> QED
  BY <1>7, <1>8, <1>9, <1>10 DEF Wrote

(* pop_output() of as much as there is.                                    *)
Popped(w, q, len, at) ==
    /\ w \in Stream(Int) /\ w.written = q.written /\ w.ended = q.ended /\ w.error = q.error
    /\ Len(w.buf) = Len(q.buf) - len /\ Run(w.buf, bytes_read(w), at)
(* What remains is the rest of the run.                                    *)
LEMMA PopLeaves ==
    ASSUME NEW q \in Stream(Int), NEW at, Len(q.buf) <= q.written, Run(q.buf, bytes_read(q), at),
           NEW len \in Nat, len <= Len(q.buf), NEW w, w = pop_output(q, len)
    PROVE  Popped(w, q, len, at)
<1>1. /\ q.buf \in Seq(Int) /\ q.written \in Nat /\ q.ended \in BOOLEAN /\ q.error \in BOOLEAN
      /\ q = [buf |-> q.buf, written |-> q.written, ended |-> q.ended, error |-> q.error]
  BY DEF Stream
<1>2. Len(q.buf) \in Nat
  BY <1>1
<1>3. PICK t : t = SubSeq(q.buf, len + 1, Len(q.buf))
  OBVIOUS
<1>4. w = [buf |-> t, written |-> q.written, ended |-> q.ended, error |-> q.error]
  <2>1. PICK b, n, e, x : q = [buf |-> b, written |-> n, ended |-> e, error |-> x]
    BY <1>1
  <2>2. w = [q EXCEPT !.buf = t]
    BY <1>3 DEF pop_output
  <2> QED
    BY <2>1, <2>2
<1>5. bytes_read(q) \in Nat /\ bytes_read(q) + Len(q.buf) = q.written
  BY <1>1, <1>2 DEF bytes_read
<1>6. Run(t, bytes_read(q) + len, at) /\ Len(t) = Len(q.buf) - len
  <2> DEFINE a == bytes_read(q)
  <2>1. a \in Nat /\ Run(q.buf, a, at)
    BY <1>5
  <2> HIDE DEF a
  <2>2. Run(SubSeq(q.buf, len + 1, Len(q.buf)), a + len, at)
        /\ Len(SubSeq(q.buf, len + 1, Len(q.buf))) = Len(q.buf) - len
    BY <1>2, <2>1, RunPart
  <2> QED
    BY <1>3, <2>2 DEF a
<1>7. w.buf = t /\ w.written = q.written /\ w.ended = q.ended /\ w.error = q.error
  BY <1>4
<1>8. bytes_read(w) = bytes_read(q) + len
  <2>1. bytes_read(w) = q.written - Len(t)
    BY <1>7 DEF bytes_read
  <2> QED
    BY <1>1, <1>2, <1>5, <1>6, <2>1
<1>9. w \in Stream(Int)
  <2>1. t \in Seq(Int)
    BY <1>6 DEF Run
  <2> QED
    BY <1>1, <1>4, <2>1 DEF Stream
<1> QED
  BY <1>6, <1>7, <1>8, <1>9 DEF Popped

(***************************************************************************)
(* Chunks and lists of chunks.                                             *)
(***************************************************************************)
Chunk == [data : Seq(Int), index : Nat]
Places(c) == c.index .. End(c) - 1
Apart(c, d) == End(c) < d.index \/ End(d) < c.index
Faithful(c, at) == c \in Chunk /\ Run(c.data, c.index, at)
(* The places that the chunks of a list hold.                              *)
Held(u) == UNION {Places(u[i]) : i \in 1 .. Len(u)}
(* The chunks lie between lo and hi, with room between any two.            *)
Spaced(u, at, lo, hi) ==
    /\ u \in Seq(Chunk)
    /\ \A i \in 1 .. Len(u) : Faithful(u[i], at) /\ lo < u[i].index /\ End(u[i]) <= hi
    /\ \A i, j \in 1 .. Len(u) : i # j => Apart(u[i], u[j])
(* The numbers of a chunk.                                                 *)
LEMMA ChunkFacts ==
    ASSUME NEW c \in Chunk
    PROVE  /\ c.index \in Nat /\ c.data \in Seq(Int) /\ Len(c.data) \in Nat
           /\ End(c) \in Nat /\ End(c) = c.index + Len(c.data)
BY DEF Chunk, End

(* A place is held if some chunk of the list has it.                       *)
LEMMA HeldIs ==
    ASSUME NEW u, NEW p
    PROVE  p \in Held(u) <=> \E i \in 1 .. Len(u) : p \in Places(u[i])
BY DEF Held

(***************************************************************************)
(* A reassembler that is in order.                                         *)
(***************************************************************************)
(* r with another list and count, and a call of merge() with the chunk d:  *)
(* e is the chunk as merged so far, k the place of the iterator.           *)
With(r, u, n) ==
    [output |-> r.output, unasmb |-> u, first_unasmb |-> r.first_unasmb,
     n_unasmb |-> n, eof_set |-> r.eof_set, last_byte |-> r.last_byte]
Sound(r) == r = With(r, r.unasmb, r.n_unasmb)
(* The reassembler is in order.  at is the peer's stream, P the places of  *)
(* it that have arrived and F its end, once that has arrived.              *)
InOrder(r, at, P, F) ==
    /\ Sound(r)
    /\ r.output \in Stream(Int) /\ r.first_unasmb \in Nat
    /\ r.eof_set \in BOOLEAN /\ r.last_byte \in Nat
    /\ r.output.written = r.first_unasmb
    /\ Len(r.output.buf) <= recv_capacity /\ Len(r.output.buf) <= r.output.written
    /\ Run(r.output.buf, bytes_read(r.output), at)
    /\ 0 .. r.first_unasmb - 1 \subseteq P
    /\ Spaced(r.unasmb, at, r.first_unasmb, first_unacceptable(r))
    /\ Held(r.unasmb) \subseteq P
    /\ r.n_unasmb = Cardinality(Held(r.unasmb))
    /\ r.eof_set => r.last_byte \in F
    /\ r.output.ended => r.eof_set /\ r.first_unasmb = r.last_byte
(* The reassembler s follows r: nothing r holds is lost, the window does   *)
(* not shrink, an ended stream stays ended and its error flag is the same. *)
Follows(s, r) ==
    /\ r.output.ended => s.output.ended
    /\ s.output.error = r.output.error
    /\ r.first_unasmb <= s.first_unasmb
    /\ first_unacceptable(r) <= first_unacceptable(s)
    /\ Held(r.unasmb) \subseteq Held(s.unasmb) \cup 0 .. s.first_unasmb - 1
(* More of the stream has arrived.                                         *)
LEMMA InOrderMono ==
    ASSUME NEW r, NEW at, NEW P, NEW F, InOrder(r, at, P, F),
           NEW Q, NEW G, P \subseteq Q, F \subseteq G
    PROVE  InOrder(r, at, Q, G)
BY DEF InOrder

(* The numbers of the window.                                              *)
LEMMA WindowFacts ==
    ASSUME NEW r, NEW at, NEW P, NEW F, InOrder(r, at, P, F)
    PROVE  /\ r.first_unasmb \in Nat /\ first_unacceptable(r) \in Nat
           /\ r.first_unasmb <= first_unacceptable(r)
           /\ Len(r.output.buf) \in Nat
           /\ first_unacceptable(r) = r.first_unasmb + recv_capacity - Len(r.output.buf)
<1>1. r.first_unasmb \in Nat /\ Len(r.output.buf) \in Nat /\ Len(r.output.buf) <= recv_capacity
  BY DEF InOrder, Run
<1> QED
  BY <1>1, CapacityAssumption DEF first_unacceptable, buffer_size

(* The fields of a reassembler after each of the pieces.                   *)
Rec(s, o, u, f, n, e, l) ==
    s = [output |-> o, unasmb |-> u, first_unasmb |-> f,
         n_unasmb |-> n, eof_set |-> e, last_byte |-> l]
(* The fields of the record.                                               *)
LEMMA RecFields ==
    ASSUME NEW s, NEW o, NEW u, NEW f, NEW n, NEW e, NEW l, Rec(s, o, u, f, n, e, l)
    PROVE  /\ Sound(s) /\ s.output = o /\ s.unasmb = u /\ s.first_unasmb = f
           /\ s.n_unasmb = n /\ s.eof_set = e /\ s.last_byte = l
BY DEF Rec, Sound, With

(* The application reads: the window moves on, and nothing else changes.   *)
ReadFrom(r, len) == [r EXCEPT !.output = pop_output(@, len)]
(* Reading leaves the reassembler in order.                                *)
LEMMA ReadInOrder ==
    ASSUME NEW r, NEW at, NEW P, NEW F, InOrder(r, at, P, F),
           NEW len \in Nat, len <= buffer_size(r.output)
    PROVE  InOrder(ReadFrom(r, len), at, P, F) /\ Follows(ReadFrom(r, len), r)
<1> DEFINE s == ReadFrom(r, len)
           q == pop_output(r.output, len)
           b == buffer_size(r.output)
           z == buffer_size(q)
           n == r.output.written
<1>1. /\ Sound(r) /\ r.output \in Stream(Int) /\ n = r.first_unasmb /\ n \in Nat
      /\ b \in Nat /\ b <= recv_capacity /\ b <= n /\ recv_capacity \in Nat
      /\ Run(r.output.buf, bytes_read(r.output), at)
  BY WindowFacts, CapacityAssumption DEF InOrder, buffer_size
<1>2. Popped(q, r.output, len, at)
  <2>1. Len(r.output.buf) <= r.output.written /\ len <= Len(r.output.buf)
    BY <1>1 DEF buffer_size
  <2> QED
    BY Zenon, <1>1, <2>1, PopLeaves
<1> HIDE DEF q
<1>3. /\ q \in Stream(Int) /\ q.written = n /\ q.ended = r.output.ended
      /\ q.error = r.output.error
      /\ z = b - len /\ Run(q.buf, bytes_read(q), at)
  BY Zenon, <1>2 DEF Popped, buffer_size
<1>4. Rec(s, q, r.unasmb, r.first_unasmb, r.n_unasmb, r.eof_set, r.last_byte)
  <2>1. s = [r EXCEPT !.output = q]
    BY Zenon DEF q, ReadFrom
  <2> HIDE DEF s
  <2> QED
    BY <1>1, <2>1 DEF Sound, With, Rec
<1> HIDE DEF s
<1>6. /\ Sound(s) /\ s.output = q /\ s.unasmb = r.unasmb /\ s.first_unasmb = r.first_unasmb
      /\ s.n_unasmb = r.n_unasmb /\ s.eof_set = r.eof_set /\ s.last_byte = r.last_byte
  BY <1>4, RecFields
<1>8. first_unacceptable(r) = n + recv_capacity - b /\ first_unacceptable(s) = n + recv_capacity - z
  BY <1>1, <1>6 DEF first_unacceptable
<1>13. z = b - len /\ len <= b
  BY <1>3
<1> HIDE DEF b, z
<1>10. /\ z <= recv_capacity /\ z <= n /\ z \in Nat
       /\ first_unacceptable(r) <= first_unacceptable(s)
       /\ first_unacceptable(r) \in Int /\ first_unacceptable(s) \in Int
  <2> HIDE DEF n
  <2> QED
    BY <1>1, <1>8, <1>13
<1>11. Spaced(s.unasmb, at, s.first_unasmb, first_unacceptable(s))
  <2>1. Spaced(r.unasmb, at, r.first_unasmb, first_unacceptable(r))
    BY DEF InOrder
  <2>2. ASSUME NEW i \in 1 .. Len(r.unasmb) PROVE End(r.unasmb[i]) <= first_unacceptable(s)
    <3>1. End(r.unasmb[i]) <= first_unacceptable(r) /\ r.unasmb[i] \in Chunk
      BY <2>1 DEF Spaced, Faithful
    <3>2. End(r.unasmb[i]) \in Nat
      BY <3>1, ChunkFacts
    <3> QED
      BY <1>10, <3>1, <3>2
  <2> QED
    BY <1>6, <2>1, <2>2 DEF Spaced
<1>12. Len(q.buf) <= recv_capacity /\ Len(q.buf) <= q.written
  BY <1>3, <1>10 DEF z, buffer_size
<1>14. InOrder(s, at, P, F)
  BY <1>1, <1>3, <1>6, <1>11, <1>12 DEF InOrder
<1>15. Follows(s, r)
  <2>1. s.output.ended = r.output.ended /\ s.output.error = r.output.error
    BY Zenon, <1>3, <1>6
  <2> QED
    BY <1>1, <1>6, <1>10, <2>1 DEF Follows
<1> QED
  BY <1>14, <1>15 DEF s

(***************************************************************************)
(* A receiver that listens to its peer.                                    *)
(***************************************************************************)
IsReceiver(v, b, i, r) == v = [syn_received |-> b, isn |-> i, reassembler |-> r]
(* The fields of a receiver.                                               *)
LEMMA ReceiverFields ==
    ASSUME NEW v, NEW b, NEW i, NEW r, IsReceiver(v, b, i, r)
    PROVE  /\ IsReceiver(v, v.syn_received, v.isn, v.reassembler)
           /\ v.syn_received = b /\ v.isn = i /\ v.reassembler = r
BY DEF IsReceiver

(* v listens to a peer whose ISN is isn.                                   *)
Listens(v, isn, at, P, F) ==
    /\ IsReceiver(v, v.syn_received, v.isn, v.reassembler)
    /\ v.syn_received \in BOOLEAN
    /\ v.syn_received => v.isn = isn
    /\ ~v.syn_received => v.reassembler.first_unasmb = 0 /\ v.reassembler.output.ended = FALSE
    /\ InOrder(v.reassembler, at, P, F)
(* More may have arrived than the receiver has seen.                       *)
LEMMA ListensMono ==
    ASSUME NEW v, NEW isn, NEW at, NEW P, NEW F, Listens(v, isn, at, P, F),
           NEW Q, NEW G, P \subseteq Q, F \subseteq G
    PROVE  Listens(v, isn, at, Q, G)
<1>1. InOrder(v.reassembler, at, Q, G)
  BY InOrderMono DEF Listens
<1> QED
  BY Zenon, <1>1 DEF Listens

(* The first byte of the segment with the absolute number m has place      *)
(* m - 1, or 0 for the SYN.                                                *)
FirstOf(m) == IF m = 0 THEN 0 ELSE m - 1
(* The index that is pushed is the place of the first byte.                *)
LEMMA IndexIs ==
    ASSUME NEW m \in UInt64, NEW seg, seg.syn = (m = 0)
    PROVE  StreamIndex(m, seg) = FirstOf(m) /\ FirstOf(m) \in Nat
<1>1. U64 \in Nat \ {0}
  BY ModU64, 0 \in Int
<1>2. FirstOf(m) \in Nat /\ FirstOf(m) \in UInt64
  BY <1>1 DEF FirstOf, UInt64
<1>5. m \in Nat
  BY <1>1 DEF UInt64
<1>3. m - Bit(~seg.syn) = FirstOf(m)
  <2>1. CASE m = 0
    <3>1. seg.syn = TRUE
      BY Zenon, <2>1
    <3>2. Bit(~seg.syn) = 0
      BY Zenon, <3>1 DEF Bit
    <3> QED
      BY <1>5, <2>1, <3>2 DEF FirstOf
  <2>2. CASE m # 0
    <3>1. seg.syn = FALSE
      BY Zenon, <2>2
    <3>2. Bit(~seg.syn) = 1
      BY Zenon, <3>1 DEF Bit
    <3> QED
      BY <1>5, <2>2, <3>2 DEF FirstOf
  <2> QED
    BY <2>1, <2>2
<1>4. FirstOf(m) % U64 = FirstOf(m)
  BY <1>2, ModU64
<1> QED
  BY <1>2, <1>3, <1>4 DEF StreamIndex

(* The chunk that is pushed for a segment with the absolute number m.      *)
ChunkOf(seg, m) == [data |-> seg.payload, index |-> StreamIndex(m, seg)]
(* The segment is the peer's: m is its absolute number, and what it        *)
(* carries belongs at its place, unless that is beyond the window.         *)
Genuine(v, seg, m, isn, at, P, F) ==
    /\ seg.syn \in BOOLEAN /\ (seg.syn => seg.seqno = isn) /\ seg.fin \in BOOLEAN
    /\ unwrap(seg.seqno, isn, bytes_written(stream_out(v)) + 1) = m
    /\ ChunkOf(seg, m) \in Chunk
    /\ ChunkOf(seg, m).index < first_unacceptable(v.reassembler)
           => Faithful(ChunkOf(seg, m), at) /\ Places(ChunkOf(seg, m)) \subseteq P
    /\ seg.fin => End(ChunkOf(seg, m)) \in F
(* A segment of the peer leaves the receiver listening.                    *)
Heard(w, v, seg, isn, at, P, F) ==
    /\ Listens(w, isn, at, P, F) /\ Follows(w.reassembler, v.reassembler)
    /\ w.syn_received = (v.syn_received \/ seg.syn)
=============================================================================
