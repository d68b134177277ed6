--------------------------- MODULE FramingProofs ---------------------------
(***************************************************************************)
(* What the numbers, buffers and streams of module Framing are, for every  *)
(* base and every length of header.  The definitions there are recursive   *)
(* functions; what they compute is proved by induction over sets of        *)
(* naturals.                                                               *)
(***************************************************************************)
EXTENDS Framing, WellFoundedInduction, TLAPS

(* A non-empty set of naturals has a least element. *)
LEMMA LeastNat ==
  ASSUME NEW T \in SUBSET Nat, T # {}
  PROVE  \E x \in T : \A y \in T : x <= y
<1>1. PICK x \in T : \A y \in T : ~(<<y, x>> \in OpToRel(<, Nat))
  BY NatLessThanWellFounded, WFMin, Zenon
<1>2. ASSUME NEW y \in T PROVE x <= y
  <2>1. ~(y < x)
    BY <1>1, Zenon DEF OpToRel
  <2> QED BY <2>1
<1> QED BY <1>2

(* Induction, over a set: one that holds 0 and the successor of each of    *)
(* its naturals holds them all.                                            *)
LEMMA Induct ==
  ASSUME NEW T, 0 \in T, \A n \in Nat : n \in T => n + 1 \in T
  PROVE  Nat \subseteq T
<1> SUFFICES ASSUME Nat \ T # {} PROVE FALSE
  OBVIOUS
<1>1. PICK x \in Nat \ T : \A y \in Nat \ T : x <= y
  BY LeastNat, Zenon
<1>2. x # 0 /\ x - 1 \in Nat
  OBVIOUS
<1>3. x - 1 \in T
  BY <1>1, <1>2
<1> QED BY <1>2, <1>3

(* f is the recursive function with first value a and step F, as far as m. *)
Upto(f, m, S, F, a) ==
  /\ f \in [0 .. m -> S] /\ f[0] = a
  /\ \A n \in 1 .. m : f[n] = F[<<n, f[n - 1]>>]

(* A function defined by primitive recursion up to N exists, which makes   *)
(* Power, the sum of Decode and the ends of the frames what their          *)
(* definitions say.                                                        *)
LEMMA Recursion ==
  ASSUME NEW S, NEW N \in Nat, NEW F \in [(1 .. N) \X S -> S], NEW a \in S
  PROVE  \E f : Upto(f, N, S, F, a)
<1> DEFINE T == {m \in Nat : m <= N => \E f : Upto(f, m, S, F, a)}
<1>1. 0 \in T
  <2>1. Upto([n \in 0 .. 0 |-> a], 0, S, F, a)
    BY DEF Upto
  <2> QED BY <2>1
<1>2. ASSUME NEW m \in Nat, m \in T PROVE m + 1 \in T
  <2> SUFFICES ASSUME m + 1 <= N PROVE \E f : Upto(f, m + 1, S, F, a)
    OBVIOUS
  <2>1. PICK f : Upto(f, m, S, F, a)
    BY <1>2
  <2> USE DEF Upto
  <2> DEFINE next == F[<<m + 1, f[m]>>]
             g == [n \in 0 .. (m + 1) |-> IF n = m + 1 THEN next ELSE f[n]]
  <2>2. next \in S
    BY <2>1
  <2>3. /\ g \in [0 .. (m + 1) -> S] /\ g[m + 1] = next
        /\ \A n \in 0 .. m : g[n] = f[n]
    BY <2>1, <2>2
  <2> HIDE DEF g
  <2>4. Upto(g, m + 1, S, F, a)
    <3>1. g[0] = a
      BY <2>1, <2>3
    <3>2. ASSUME NEW n \in 1 .. (m + 1) PROVE g[n] = F[<<n, g[n - 1]>>]
      <4>1. CASE n = m + 1
        BY <4>1, <2>3
      <4>2. CASE n \in 1 .. m
        BY <4>2, <2>1, <2>3
      <4> QED BY <4>1, <4>2
    <3> QED BY <3>1, <3>2, <2>3
  <2> QED BY <2>4
<1> HIDE DEF T
<1>3. Nat \subseteq T
  BY <1>1, <1>2, Induct
<1>4. N \in T
  BY <1>3
<1> QED BY <1>4 DEF T

(* A recursive function whose step stays in a set stays in it. *)
LEMMA StaysIn ==
  ASSUME NEW S, NEW N \in Nat, NEW f, f[0] \in S,
         \A n \in 1 .. N : f[n - 1] \in S => f[n] \in S
  PROVE  \A n \in 0 .. N : f[n] \in S
<1> DEFINE T == {n \in Nat : n <= N => f[n] \in S}
<1>1. 0 \in T
  OBVIOUS
<1>2. ASSUME NEW n \in Nat, n \in T PROVE n + 1 \in T
  <2>1. CASE n + 1 <= N
    <3>1. n + 1 \in 1 .. N /\ (n + 1) - 1 = n /\ f[n] \in S
      BY <1>2, <2>1
    <3> QED BY <3>1
  <2> QED BY <2>1
<1>3. Nat \subseteq T
  <2> HIDE DEF T
  <2> QED BY <1>1, <1>2, Induct
<1> QED BY <1>3

(* The powers of Base: positive, and each Base times the one before. *)
LEMMA PowerFacts ==
  /\ Power \in [0 .. HeaderLen -> Nat \ {0}]
  /\ Power[0] = 1
  /\ \A n \in 1 .. HeaderLen : Power[n] = Power[n - 1] * Base
<1> USE FramingAssumption
<1> DEFINE S == Nat \ {0}
           F == [z \in (1 .. HeaderLen) \X S |-> z[2] * Base]
           P(f) == f = [n \in 0 .. HeaderLen |-> IF n = 0 THEN 1 ELSE f[n - 1] * Base]
<1>1. \A x \in S : x * Base \in S
  OBVIOUS
<1>2. F \in [(1 .. HeaderLen) \X S -> S]
  BY <1>1
<1>3. PICK f : Upto(f, HeaderLen, S, F, 1)
  <2>1. 1 \in S /\ HeaderLen \in Nat
    OBVIOUS
  <2> HIDE DEF F, S
  <2> QED BY <1>2, <2>1, Recursion, Zenon
<1> USE DEF Upto
<1>4. ASSUME NEW n \in 1 .. HeaderLen PROVE f[n] = f[n - 1] * Base
  <2>1. n - 1 \in 0 .. HeaderLen
    OBVIOUS
  <2>2. <<n, f[n - 1]>> \in (1 .. HeaderLen) \X S
    BY <2>1, <1>3, Zenon
  <2> QED BY <2>2, <1>3, Zenon
<1>5. P(f)
  <2>1. ASSUME NEW n \in 0 .. HeaderLen
        PROVE  f[n] = IF n = 0 THEN 1 ELSE f[n - 1] * Base
    <3>1. CASE n = 0
      BY <1>3, <3>1, Zenon
    <3>2. CASE n \in 1 .. HeaderLen
      BY <1>4, <3>2
    <3> QED BY <3>1, <3>2
  <2> QED BY <1>3, <2>1, Zenon
<1>6. P(Power)
  BY <1>5, Zenon DEF Power
<1>7. \A n \in 0 .. HeaderLen : Power[n] = IF n = 0 THEN 1 ELSE Power[n - 1] * Base
  BY <1>6
<1>8. Power[0] \in S /\ HeaderLen \in Nat
  BY <1>7
<1>9. ASSUME NEW n \in 1 .. HeaderLen, Power[n - 1] \in S PROVE Power[n] \in S
  BY <1>1, <1>7, <1>9
<1>11. \A n \in 0 .. HeaderLen : Power[n] \in S
  <2> HIDE DEF S
  <2> QED BY <1>8, <1>9, StaysIn, Zenon
<1>12. Power \in [0 .. HeaderLen -> S]
  BY <1>6, <1>11
<1> QED BY <1>7, <1>12

(* Division with remainder. *)
LEMMA DivFacts ==
  ASSUME NEW x \in Nat, NEW d \in Nat \ {0}
  PROVE  /\ x \div d \in Nat /\ x % d \in 0 .. (d - 1)
         /\ x = d * (x \div d) + (x % d)
  OBVIOUS

(* The quotient is determined by the dividend and a remainder in range. *)
LEMMA DivUnique ==
  ASSUME NEW d \in Nat \ {0}, NEW q \in Nat, NEW r \in 0 .. (d - 1)
  PROVE  (d * q + r) \div d = q
<1> DEFINE x == d * q + r
<1>1. x \in Nat
  OBVIOUS
<1>2. PICK p \in Nat, s \in 0 .. (d - 1) : p = x \div d /\ x = d * p + s
  <2> HIDE DEF x
  <2> QED BY <1>1, DivFacts
<1>3. d * q + r = d * p + s
  BY <1>2
<1>4. p = q
  <2>1. CASE p < q
    <3>1. PICK k \in Nat : q = p + 1 + k
      BY <2>1
    <3>2. d * q = d * p + d + d * k
      BY <3>1
    <3>3. d * k \in Nat
      OBVIOUS
    <3> QED BY <3>2, <3>3, <1>3
  <2>2. CASE q < p
    <3>1. PICK k \in Nat : p = q + 1 + k
      BY <2>2
    <3>2. d * p = d * q + d + d * k
      BY <3>1
    <3>3. d * k \in Nat
      OBVIOUS
    <3> QED BY <3>2, <3>3, <1>3
  <2> QED BY <2>1, <2>2
<1> QED BY <1>2, <1>4

(* Two shifts by one byte and by n are one shift by n + 1. *)
LEMMA DivMul ==
  ASSUME NEW x \in Nat, NEW d \in Nat \ {0}, NEW b \in Nat \ {0}
  PROVE  x \div (d * b) = (x \div d) \div b
<1>1. PICK y \in Nat, r \in 0 .. (d - 1) : y = x \div d /\ x = d * y + r
  BY DivFacts
<1>2. PICK u \in Nat, v \in 0 .. (b - 1) : u = y \div b /\ y = b * u + v
  BY DivFacts
<1>3. x = (d * b) * u + (d * v + r)
  <2>1. d * y = d * (b * u) + d * v
    BY <1>2
  <2>2. d * (b * u) = (d * b) * u
    OBVIOUS
  <2> QED BY <1>1, <2>1, <2>2
<1>4. d * v + r \in 0 .. (d * b - 1)
  <2>1. PICK k \in Nat : b = v + 1 + k
    <3>1. b - v - 1 \in Nat /\ b = v + 1 + (b - v - 1)
      OBVIOUS
    <3> QED BY <3>1
  <2>2. d * b = d * v + d + d * k
    BY <2>1
  <2>3. d * k \in Nat /\ d * v \in Nat
    OBVIOUS
  <2> QED BY <2>2, <2>3
<1>5. d * b \in Nat \ {0}
  OBVIOUS
<1>6. x \div (d * b) = u
  BY <1>3, <1>4, <1>5, DivUnique
<1> QED BY <1>1, <1>2, <1>6

(* Numbers below the modulus are left as they are. *)
LEMMA ModSmall ==
  ASSUME NEW d \in Nat, NEW x \in 0 .. (d - 1)
  PROVE  x % d = x
  OBVIOUS

(* An encoded number is a header: HeaderLen bytes. *)
LEMMA EncodeFacts ==
  ASSUME NEW x \in Nat
  PROVE  Encode(x) \in Seq(Byte) /\ Len(Encode(x)) = HeaderLen
<1> USE FramingAssumption
<1>1. ASSUME NEW i \in 1 .. HeaderLen
      PROVE  (x \div Power[HeaderLen - i]) % Base \in Byte
  <2>1. Power[HeaderLen - i] \in Nat \ {0}
    BY PowerFacts
  <2>2. PICK y : y = x \div Power[HeaderLen - i]
    OBVIOUS
  <2>3. y \in Nat
    BY <2>1, <2>2, DivFacts, Zenon
  <2>4. y % Base \in 0 .. (Base - 1)
    BY <2>3
  <2> QED BY <2>2, <2>4 DEF Byte
<1>2. Encode(x) \in [1 .. HeaderLen -> Byte]
  BY <1>1 DEF Encode
<1> QED BY <1>2

(* The values the loop of Decode takes, byte by byte. *)
IsSum(sum, start, bytes) ==
  /\ sum \in [0 .. Len(bytes) -> Nat]
  /\ sum[0] = start
  /\ \A n \in 1 .. Len(bytes) :
       sum[n] = (sum[n - 1] * Base + bytes[n]) % Word
  /\ Decode(start, bytes) = sum[Len(bytes)]

(* The loop of Decode runs through such values and returns the last. *)
LEMMA DecodeSum ==
  ASSUME NEW start \in Nat, NEW bytes \in Seq(Byte)
  PROVE  \E sum : IsSum(sum, start, bytes)
<1> USE FramingAssumption
<1> DEFINE N == Len(bytes)
           Step(n, s) == (s * Base + bytes[n]) % Word
           F == [z \in (1 .. N) \X Nat |-> Step(z[1], z[2])]
           P(f) == f = [n \in 0 .. N |-> IF n = 0 THEN start
                                         ELSE (f[n - 1] * Base + bytes[n]) % Word]
           sum == CHOOSE f : P(f)
<1>0. Word \in Nat \ {0}
  BY PowerFacts DEF Word
<1>1. ASSUME NEW n \in 1 .. N, NEW s \in Nat PROVE Step(n, s) \in Nat
  <2>1. bytes[n] \in Nat
    BY DEF Byte
  <2>2. PICK v \in Nat : v = s * Base + bytes[n]
    BY <2>1
  <2>3. v % Word \in 0 .. (Word - 1)
    BY <1>0, DivFacts
  <2> QED BY <1>0, <2>2, <2>3
<1> HIDE DEF Step
<1>2. F \in [(1 .. N) \X Nat -> Nat]
  BY <1>1, Zenon
<1>3. PICK f : Upto(f, N, Nat, F, start)
  <2>1. N \in Nat
    OBVIOUS
  <2> HIDE DEF F, N
  <2> QED BY <1>2, <2>1, Recursion, Zenon
<1>4. ASSUME NEW n \in 1 .. N PROVE f[n] = Step(n, f[n - 1])
  <2>1. n - 1 \in 0 .. N
    OBVIOUS
  <2>2. <<n, f[n - 1]>> \in (1 .. N) \X Nat
    BY <2>1, <1>3 DEF Upto
  <2> QED BY <2>2, <1>3, Zenon DEF Upto
<1>5. P(f)
  <2>1. ASSUME NEW n \in 0 .. N
        PROVE f[n] = IF n = 0 THEN start ELSE (f[n - 1] * Base + bytes[n]) % Word
    <3>1. CASE n = 0
      BY <1>3, <3>1 DEF Upto
    <3>2. CASE n \in 1 .. N
      BY <1>4, <3>2 DEF Step
    <3> QED BY <3>1, <3>2
  <2> QED BY <1>3, <2>1 DEF Upto
<1>6. P(sum)
  BY <1>5, Zenon
<1>7. Decode(start, bytes) = sum[N]
  BY DEF Decode
<1> HIDE DEF sum
<1>8. \A n \in 0 .. N :
        sum[n] = IF n = 0 THEN start ELSE (sum[n - 1] * Base + bytes[n]) % Word
  BY <1>6
<1>9. sum[0] \in Nat /\ N \in Nat
  BY <1>8
<1>10. ASSUME NEW n \in 1 .. N, sum[n - 1] \in Nat PROVE sum[n] \in Nat
  <2>1. sum[n] = Step(n, sum[n - 1])
    BY <1>8 DEF Step
  <2> QED BY <1>1, <1>10, <2>1, Zenon
<1>12. \A n \in 0 .. N : sum[n] \in Nat
  <2> HIDE DEF N
  <2> QED BY <1>9, <1>10, StaysIn, Zenon
<1>13. sum \in [0 .. N -> Nat]
  BY <1>6, <1>12
<1>14. sum[0] = start
       /\ \A n \in 1 .. N : sum[n] = (sum[n - 1] * Base + bytes[n]) % Word
  BY <1>8
<1>15. IsSum(sum, start, bytes)
  BY <1>7, <1>14, <1>13, Zenon DEF IsSum
<1> QED BY <1>15

(* What is decoded is a word, whatever the bytes. *)
LEMMA DecodeRange ==
  ASSUME NEW start \in Nat, NEW bytes \in Seq(Byte), bytes # <<>>
  PROVE  Decode(start, bytes) \in 0 .. (Word - 1)
<1>1. PICK sum : IsSum(sum, start, bytes)
  BY DecodeSum
<1>2. PICK N \in Nat \ {0} : N = Len(bytes)
  OBVIOUS
<1>3. /\ Decode(start, bytes) = (sum[N - 1] * Base + bytes[N]) % Word
      /\ sum[N - 1] \in Nat /\ bytes[N] \in Nat
  <2>1. N \in 1 .. Len(bytes) /\ N - 1 \in 0 .. Len(bytes)
    BY <1>2
  <2>2. bytes[N] \in Nat
    BY <2>1, FramingAssumption DEF Byte
  <2> QED BY <1>1, <1>2, <2>1, <2>2, Zenon DEF IsSum
<1>4. PICK v \in Nat : v = sum[N - 1] * Base + bytes[N]
  BY <1>3, FramingAssumption
<1>5. Word \in Nat \ {0}
  BY PowerFacts, FramingAssumption DEF Word
<1>6. v % Word \in 0 .. (Word - 1)
  BY <1>5, DivFacts
<1> QED BY <1>3, <1>4, <1>6

(* Every number that a word can hold is read back as it was written: the   *)
(* loop of read_on() that shifts and adds inverts the one of the writers   *)
(* that takes the lowest byte and shifts, for every base and length of     *)
(* header.                                                                 *)
THEOREM RoundTrip ==
  ASSUME NEW x \in 0 .. (Word - 1)
  PROVE  Decode(0, Encode(x)) = x
<1> USE FramingAssumption
<1> DEFINE N == HeaderLen
           y(n) == x \div Power[N - n]
<1>0. Word \in Nat \ {0} /\ x \in Nat /\ x < Word
  BY PowerFacts DEF Word
<1>1. Encode(x) \in Seq(Byte) /\ Len(Encode(x)) = N
  BY EncodeFacts, <1>0
<1>2. PICK sum : IsSum(sum, 0, Encode(x))
  BY <1>1, DecodeSum
<1>20. /\ sum[0] = 0
       /\ \A n \in 1 .. N :
            sum[n] = (sum[n - 1] * Base + Encode(x)[n]) % Word
       /\ Decode(0, Encode(x)) = sum[N]
  BY <1>1, <1>2 DEF IsSum
<1>3. ASSUME NEW n \in 0 .. N PROVE y(n) \in Nat /\ y(n) <= x
  <2>1. PICK d \in Nat \ {0} : d = Power[N - n]
    BY PowerFacts
  <2>2. /\ x \div d \in Nat /\ x % d \in 0 .. (d - 1)
        /\ x = d * (x \div d) + (x % d)
    BY DivFacts, <1>0, Zenon
  <2>3. PICK q \in Nat : q = x \div d
    BY <2>2
  <2>4. PICK k \in Nat : d = k + 1
    <3>1. d - 1 \in Nat /\ d = (d - 1) + 1
      OBVIOUS
    <3> QED BY <3>1
  <2>5. d * q = q + k * q /\ k * q \in Nat
    BY <2>4
  <2> QED BY <2>1, <2>2, <2>3, <2>5
<1>4. y(0) = 0
  <2>1. x = Word * 0 + x /\ x \in 0 .. (Word - 1)
    BY <1>0
  <2>2. x \div Word = 0
    BY <1>0, <2>1, DivUnique
  <2> QED BY <2>2 DEF Word
<1>5. ASSUME NEW n \in 1 .. N PROVE y(n - 1) = y(n) \div Base
  <2>1. N - n \in 0 .. HeaderLen /\ N - n + 1 \in 1 .. HeaderLen
    OBVIOUS
  <2>2. PICK d \in Nat \ {0} : d = Power[N - n]
    BY <2>1, PowerFacts
  <2>3. Power[N - (n - 1)] = d * Base
    <3>1. N - (n - 1) = N - n + 1 /\ (N - n + 1) - 1 = N - n
      OBVIOUS
    <3>2. Power[N - n + 1] = Power[(N - n + 1) - 1] * Base
      BY <2>1, PowerFacts
    <3> QED BY <3>1, <3>2, <2>2
  <2>4. x \div (d * Base) = (x \div d) \div Base
    <3>1. Base \in Nat \ {0} /\ x \in Nat
      BY <1>0
    <3> QED BY <3>1, DivMul, ZenonT(60)
  <2> QED BY <2>2, <2>3, <2>4
<1>6. ASSUME NEW n \in 1 .. N PROVE Encode(x)[n] = y(n) % Base
  BY DEF Encode
<1> HIDE DEF y
<1> DEFINE T == {n \in Nat : n <= N => sum[n] = y(n)}
<1>7. 0 \in T
  BY <1>20, <1>4
<1>8. ASSUME NEW n \in Nat, n \in T PROVE n + 1 \in T
  <2>1. CASE n + 1 <= N
    <3>1. PICK z \in Nat : z = y(n + 1) /\ z <= x
      BY <1>3, <2>1
    <3>2. sum[n] = z \div Base
      BY <1>8, <2>1, <3>1, <1>5
    <3>3. sum[n + 1] = (sum[n] * Base + Encode(x)[n + 1]) % Word
      <4>1. n + 1 \in 1 .. N /\ (n + 1) - 1 = n
        BY <2>1
      <4>2. sum[n + 1] = (sum[(n + 1) - 1] * Base + Encode(x)[n + 1]) % Word
        BY <4>1, <1>20
      <4> QED BY <4>1, <4>2
    <3>4. Encode(x)[n + 1] = z % Base
      BY <2>1, <3>1, <1>6
    <3>5. z = Base * (z \div Base) + (z % Base) /\ z \div Base \in Nat
      BY DivFacts
    <3>6. sum[n] * Base + Encode(x)[n + 1] = z
      BY <3>2, <3>4, <3>5
    <3>7. z % Word = z
      <4>1. z \in 0 .. (Word - 1) /\ Word \in Nat
        BY <3>1, <1>0
      <4> QED BY <4>1, ModSmall
    <3> QED BY <3>1, <3>3, <3>6, <3>7
  <2> QED BY <2>1
<1>9. Nat \subseteq T
  <2> HIDE DEF T
  <2> QED BY <1>7, <1>8, Induct
<1>10. sum[N] = y(N)
  BY <1>9
<1>11. y(N) = x
  <2>1. x = 1 * x + 0
    BY <1>0
  <2>2. x \div 1 = x
    BY <1>0, <2>1, DivUnique
  <2> QED BY <2>2, PowerFacts DEF y
<1> QED BY <1>20, <1>10, <1>11

(* A word has values. *)
LEMMA WordFacts ==
  Word \in Nat \ {0}
  BY PowerFacts, FramingAssumption DEF Word

(* Sequences of the same length with the same items are equal. *)
LEMMA SameSeq ==
  ASSUME NEW S, NEW a \in Seq(S), NEW b \in Seq(S), Len(a) = Len(b),
         \A i \in 1 .. Len(a) : a[i] = b[i]
  PROVE  a = b
<1>1. a \in [1 .. Len(a) -> S] /\ b \in [1 .. Len(b) -> S]
  OBVIOUS
<1> QED BY <1>1

(* c is a followed by b. *)
Joins(c, a, b) ==
  /\ Len(c) = Len(a) + Len(b)
  /\ \A i \in 1 .. Len(a) : c[i] = a[i]
  /\ \A i \in 1 .. Len(b) : c[Len(a) + i] = b[i]

(* What concatenation is, item by item. *)
LEMMA ConcatSeq ==
  ASSUME NEW S, NEW a \in Seq(S), NEW b \in Seq(S)
  PROVE  /\ Len(a) \in Nat /\ Len(b) \in Nat
         /\ a \o b \in Seq(S) /\ Joins(a \o b, a, b)
  BY DEF Joins

(* What the two parts of a sequence cut after n items are. *)
LEMMA CutSeq ==
  ASSUME NEW S, NEW a \in Seq(S), NEW n \in 0 .. Len(a)
  PROVE  /\ Len(a) \in Nat
         /\ SubSeq(a, 1, n) \in Seq(S) /\ Len(SubSeq(a, 1, n)) = n
         /\ \A i \in 1 .. n : SubSeq(a, 1, n)[i] = a[i]
         /\ Drop(a, n) \in Seq(S) /\ Len(Drop(a, n)) = Len(a) - n
         /\ \A i \in 1 .. (Len(a) - n) : Drop(a, n)[i] = a[n + i]
  BY DEF Drop

(* Vec::resize() sets the length and keeps the bytes there were. *)
LEMMA ResizeSeq ==
  ASSUME NEW v \in Seq(Byte), NEW n \in Nat
  PROVE  /\ Resize(v, n) \in Seq(Byte) /\ Len(Resize(v, n)) = n
         /\ \A i \in 1 .. n : i <= Len(v) => Resize(v, n)[i] = v[i]
<1>1. 0 \in Byte
  BY FramingAssumption DEF Byte
<1>2. \A i \in 1 .. n : (IF i <= Len(v) THEN v[i] ELSE 0) \in Byte
  BY <1>1
<1> QED BY <1>2 DEF Resize

(* Bytes put into a vector replace those at their place and no others. *)
LEMMA FillSeq ==
  ASSUME NEW v \in Seq(Byte), NEW b \in Seq(Byte), NEW at \in Nat,
         at + Len(b) <= Len(v)
  PROVE  /\ Fill(v, at, b) \in Seq(Byte) /\ Len(Fill(v, at, b)) = Len(v)
         /\ \A i \in 1 .. at : Fill(v, at, b)[i] = v[i]
         /\ \A i \in 1 .. Len(b) : Fill(v, at, b)[at + i] = b[i]
<1> DEFINE f(i) == IF i \in (at + 1) .. (at + Len(b)) THEN b[i - at] ELSE v[i]
<1>1. Len(v) \in Nat /\ Len(b) \in Nat
  OBVIOUS
<1>2. ASSUME NEW i \in 1 .. Len(v) PROVE f(i) \in Byte
  <2>1. CASE i \in (at + 1) .. (at + Len(b))
    <3>1. i - at \in 1 .. Len(b)
      BY <1>1, <2>1
    <3> QED BY <2>1, <3>1
  <2>2. CASE i \notin (at + 1) .. (at + Len(b))
    BY <2>2
  <2> QED BY <2>1, <2>2
<1>3. Fill(v, at, b) = [i \in 1 .. Len(v) |-> f(i)]
  BY DEF Fill
<1> HIDE DEF f
<1>4. Fill(v, at, b) \in Seq(Byte) /\ Len(Fill(v, at, b)) = Len(v)
  BY <1>1, <1>2, <1>3
<1>5. ASSUME NEW i \in 1 .. at PROVE Fill(v, at, b)[i] = v[i]
  <2>1. i \in 1 .. Len(v) /\ i \notin (at + 1) .. (at + Len(b))
    BY <1>1
  <2>2. f(i) = v[i]
    BY <2>1 DEF f
  <2> QED BY <1>3, <2>1, <2>2
<1>6. ASSUME NEW i \in 1 .. Len(b) PROVE Fill(v, at, b)[at + i] = b[i]
  <2>1. /\ at + i \in 1 .. Len(v) /\ at + i \in (at + 1) .. (at + Len(b))
        /\ (at + i) - at = i
    BY <1>1
  <2>2. f(at + i) = b[i]
    BY <2>1 DEF f
  <2> QED BY <1>3, <2>1, <2>2
<1> QED BY <1>4, <1>5, <1>6

(* The first n bytes of v are those of t. *)
Agrees(v, n, t) == \A i \in 1 .. n : v[i] = t[i]

(* The bytes b are those of t that follow the first at. *)
Continues(b, at, t) == \A i \in 1 .. Len(b) : b[i] = t[at + i]

(* A read that continues a partly filled buffer extends the part that is   *)
(* right.                                                                  *)
LEMMA FillOn ==
  ASSUME NEW v \in Seq(Byte), NEW b \in Seq(Byte), NEW at \in Nat,
         at + Len(b) <= Len(v), NEW t,
         Agrees(v, at, t), Continues(b, at, t)
  PROVE  /\ Fill(v, at, b) \in Seq(Byte) /\ Len(Fill(v, at, b)) = Len(v)
         /\ Agrees(Fill(v, at, b), at + Len(b), t)
<1> DEFINE f == Fill(v, at, b)
<1>1. /\ f \in Seq(Byte) /\ Len(f) = Len(v)
      /\ \A i \in 1 .. at : f[i] = v[i]
      /\ \A i \in 1 .. Len(b) : f[at + i] = b[i]
      /\ Len(b) \in Nat
  BY FillSeq
<1> HIDE DEF f
<1>2. ASSUME NEW i \in 1 .. (at + Len(b)) PROVE f[i] = t[i]
  <2>1. CASE i <= at
    BY <1>1, <2>1 DEF Agrees
  <2>2. CASE i > at
    <3>1. PICK j \in 1 .. Len(b) : i = at + j
      <4>1. i - at \in 1 .. Len(b) /\ i = at + (i - at)
        BY <1>1, <2>2
      <4> QED BY <4>1
    <3> QED BY <1>1, <3>1 DEF Continues
  <2> QED BY <2>1, <2>2
<1> QED BY <1>1, <1>2, Zenon DEF f, Agrees

(* To take from the front of a is to take from the front of a followed by b. *)
LEMMA DropConcat ==
  ASSUME NEW S, NEW a \in Seq(S), NEW b \in Seq(S), NEW n \in 0 .. Len(a)
  PROVE  Drop(a, n) \o b = Drop(a \o b, n)
<1> DEFINE c == Drop(a, n)
           d == a \o b
           e == c \o b
           f == Drop(d, n)
<1>1. /\ c \in Seq(S) /\ Len(c) = Len(a) - n
      /\ \A i \in 1 .. (Len(a) - n) : c[i] = a[n + i]
  BY CutSeq, Zenon
<1> USE DEF Joins
<1>2. d \in Seq(S) /\ Joins(d, a, b)
  BY ConcatSeq, SMT
<1> HIDE DEF c, d
<1>3. e \in Seq(S) /\ Joins(e, c, b)
  <2> HIDE DEF Joins
  <2> QED BY <1>1, ConcatSeq, SMT
<1>4. Len(a) \in Nat /\ Len(b) \in Nat /\ n \in 0 .. Len(d)
  BY <1>2
<1>5. /\ f \in Seq(S) /\ Len(f) = Len(d) - n
      /\ \A i \in 1 .. (Len(d) - n) : f[i] = d[n + i]
  BY <1>2, <1>4, CutSeq, Zenon
<1> HIDE DEF e, f
<1>6. Len(e) = Len(f)
  BY <1>1, <1>2, <1>3, <1>4, <1>5
<1>7. ASSUME NEW i \in 1 .. Len(e) PROVE e[i] = f[i]
  <2>1. CASE i <= Len(c)
    <3>1. i \in 1 .. Len(c) /\ n + i \in 1 .. Len(a)
      BY <1>1, <1>4, <2>1
    <3> QED BY <1>1, <1>2, <1>3, <1>5, <1>6, <3>1
  <2>2. CASE i > Len(c)
    <3>1. PICK j \in 1 .. Len(b) : i = Len(c) + j
      <4>1. i - Len(c) \in 1 .. Len(b) /\ i = Len(c) + (i - Len(c))
        BY <1>1, <1>3, <1>4, <2>2
      <4> QED BY <4>1, Zenon
    <3>2. n + i = Len(a) + j
      BY <1>1, <1>4, <3>1
    <3> QED BY <1>2, <1>3, <1>5, <1>6, <3>1, <3>2, Zenon
  <2> QED BY <1>1, <2>1, <2>2
<1>8. e = f
  BY <1>3, <1>5, <1>6, <1>7, SameSeq, Zenon
<1> QED BY <1>8 DEF c, d, e, f

(* Moving bytes from the front of b to the end of a changes neither order  *)
(* nor content of the whole.                                               *)
LEMMA Rejoin ==
  ASSUME NEW S, NEW a \in Seq(S), NEW b \in Seq(S), NEW n \in 0 .. Len(b)
  PROVE  (a \o SubSeq(b, 1, n)) \o Drop(b, n) = a \o b
<1> DEFINE c == SubSeq(b, 1, n)
           d == Drop(b, n)
           e == a \o c
           f == e \o d
           g == a \o b
<1>1. /\ c \in Seq(S) /\ Len(c) = n /\ \A i \in 1 .. n : c[i] = b[i]
      /\ d \in Seq(S) /\ Len(d) = Len(b) - n
      /\ \A i \in 1 .. (Len(b) - n) : d[i] = b[n + i]
  BY CutSeq, ZenonT(60)
<1> HIDE DEF c, d
<1>2. e \in Seq(S) /\ Joins(e, a, c)
  BY <1>1, ConcatSeq, SMT
<1> HIDE DEF e
<1>3. f \in Seq(S) /\ Joins(f, e, d)
  BY <1>1, <1>2, ConcatSeq, SMT
<1>4. g \in Seq(S) /\ Joins(g, a, b)
  BY ConcatSeq, SMT
<1> USE DEF Joins
<1> HIDE DEF f, g
<1>5. Len(a) \in Nat /\ Len(b) \in Nat /\ Len(f) = Len(g)
  BY <1>1, <1>2, <1>3, <1>4
<1>6. ASSUME NEW i \in 1 .. Len(f) PROVE f[i] = g[i]
  <2>1. CASE i <= Len(a)
    <3>1. i \in 1 .. Len(a) /\ i \in 1 .. Len(e)
      BY <1>2, <1>5, <2>1
    <3> QED BY <1>2, <1>3, <1>4, <3>1
  <2>2. CASE i > Len(a) /\ i <= Len(e)
    <3>1. PICK j \in 1 .. n : i = Len(a) + j
      <4>1. i - Len(a) \in 1 .. n /\ i = Len(a) + (i - Len(a))
        BY <1>1, <1>2, <1>5, <2>2
      <4> QED BY <4>1
    <3>2. i \in 1 .. Len(e) /\ j \in 1 .. Len(b)
      BY <1>2, <1>5, <2>2
    <3> QED BY <1>1, <1>2, <1>3, <1>4, <3>1, <3>2, SMTT(60)
  <2>3. CASE i > Len(e)
    <3>1. PICK j \in 1 .. Len(d) : i = Len(e) + j
      <4>1. i - Len(e) \in 1 .. Len(d) /\ i = Len(e) + (i - Len(e))
        BY <1>1, <1>2, <1>3, <1>5, <2>3
      <4> QED BY <4>1, Zenon
    <3>2. i = Len(a) + (n + j) /\ n + j \in 1 .. Len(b)
      BY <1>1, <1>2, <1>5, <3>1
    <3>3. g[i] = b[n + j]
      BY <1>4, <3>2
    <3>4. f[i] = d[j]
      BY <1>3, <3>1
    <3> QED BY <1>1, <3>1, <3>3, <3>4
  <2> QED BY <1>2, <1>5, <2>1, <2>2, <2>3
<1>7. f = g
  BY <1>3, <1>4, <1>5, <1>6, SameSeq, Zenon
<1> QED BY <1>7, Zenon DEF c, d, e, f, g

(* The frames of a stream. *)
Frames == Seq(Seq(Byte))

(* What the recursive function in Ends computes. *)
AreEnds(end, frames) ==
  /\ end \in [0 .. Len(frames) -> Nat]
  /\ end[0] = 0
  /\ \A n \in 1 .. Len(frames) : end[n] = end[n - 1] + Len(frames[n])

(* Ends computes that. *)
LEMMA EndsFacts ==
  ASSUME NEW frames \in Frames
  PROVE  AreEnds(Ends(frames), frames)
<1> DEFINE N == Len(frames)
           Step(n, s) == s + Len(frames[n])
           F == [z \in (1 .. N) \X Nat |-> Step(z[1], z[2])]
           P(f) == f = [n \in 0 .. N |-> IF n = 0 THEN 0
                                         ELSE f[n - 1] + Len(frames[n])]
           end == CHOOSE f : P(f)
<1>1. ASSUME NEW n \in 1 .. N, NEW s \in Nat PROVE Step(n, s) \in Nat
  <2>1. frames[n] \in Seq(Byte)
    BY DEF Frames
  <2> QED BY <2>1
<1> HIDE DEF Step
<1>2. F \in [(1 .. N) \X Nat -> Nat]
  BY <1>1, Zenon
<1>3. PICK f : Upto(f, N, Nat, F, 0)
  <2>1. N \in Nat
    BY DEF Frames
  <2> HIDE DEF F, N
  <2> QED BY <1>2, <2>1, Recursion, Zenon
<1>4. ASSUME NEW n \in 1 .. N PROVE f[n] = Step(n, f[n - 1])
  <2>1. n - 1 \in 0 .. N
    OBVIOUS
  <2>2. <<n, f[n - 1]>> \in (1 .. N) \X Nat
    BY <2>1, <1>3 DEF Upto
  <2> QED BY <2>2, <1>3, Zenon DEF Upto
<1>5. P(f)
  <2>1. ASSUME NEW n \in 0 .. N
        PROVE f[n] = IF n = 0 THEN 0 ELSE f[n - 1] + Len(frames[n])
    <3>1. CASE n = 0
      BY <1>3, <3>1 DEF Upto
    <3>2. CASE n \in 1 .. N
      BY <1>4, <3>2 DEF Step
    <3> QED BY <3>1, <3>2
  <2> QED BY <1>3, <2>1 DEF Upto
<1>6. P(end)
  BY <1>5, Zenon
<1>7. Ends(frames) = end
  BY DEF Ends
<1> HIDE DEF end
<1>8. \A n \in 0 .. N : end[n] = IF n = 0 THEN 0 ELSE end[n - 1] + Len(frames[n])
  BY <1>6
<1>9. end[0] \in Nat /\ N \in Nat
  BY <1>8 DEF Frames
<1>10. ASSUME NEW n \in 1 .. N, end[n - 1] \in Nat PROVE end[n] \in Nat
  <2>1. end[n] = Step(n, end[n - 1])
    BY <1>8, <1>9 DEF Step
  <2> QED BY <1>1, <1>10, <2>1, Zenon
<1>12. \A n \in 0 .. N : end[n] \in Nat
  <2> HIDE DEF N
  <2> QED BY <1>9, <1>10, StaysIn, Zenon
<1>13. end \in [0 .. N -> Nat]
  BY <1>6, <1>12
<1>14. end[0] = 0 /\ \A n \in 1 .. N : end[n] = end[n - 1] + Len(frames[n])
  BY <1>8 DEF Frames
<1> QED BY <1>7, <1>13, <1>14, Zenon DEF AreEnds

(* A later frame does not end before an earlier one. *)
LEMMA EndsGrow ==
  ASSUME NEW frames \in Frames, NEW j \in 0 .. Len(frames),
         NEW k \in j .. Len(frames)
  PROVE  Ends(frames)[j] <= Ends(frames)[k]
<1> DEFINE end == Ends(frames)
           T == {n \in Nat : n \in j .. Len(frames) => end[j] <= end[n]}
<1>1. AreEnds(end, frames)
  BY EndsFacts
<1> HIDE DEF end
<1>2. 0 \in T
  BY <1>1 DEF AreEnds, Frames
<1>3. ASSUME NEW n \in Nat, n \in T PROVE n + 1 \in T
  <2> SUFFICES ASSUME n + 1 \in j .. Len(frames) PROVE end[j] <= end[n + 1]
    OBVIOUS
  <2>1. CASE n + 1 = j
    BY <2>1, <1>1, SMTT(60) DEF AreEnds
  <2>2. CASE n \in j .. Len(frames)
    <3>1. frames[n + 1] \in Seq(Byte)
      BY DEF Frames
    <3>2. Len(frames) \in Nat /\ n + 1 \in 1 .. Len(frames)
      BY DEF Frames
    <3>3. end[n + 1] = end[(n + 1) - 1] + Len(frames[n + 1]) /\ (n + 1) - 1 = n
      BY <1>1, <3>2 DEF AreEnds
    <3>4. n \in 0 .. Len(frames)
      BY <3>2
    <3>5. end[n] \in Nat /\ end[j] \in Nat
      BY <1>1, <3>4 DEF AreEnds
    <3> QED BY <3>1, <3>3, <3>5, <1>3, <2>2
  <2> QED BY <2>1, <2>2
<1>4. Nat \subseteq T
  <2> HIDE DEF T
  <2> QED BY <1>2, <1>3, Induct
<1>5. k \in T
  BY <1>4 DEF Frames
<1> QED BY <1>5 DEF end

(* A new frame comes after the others, which stay where they were. *)
LEMMA EndsAppend ==
  ASSUME NEW frames \in Frames, NEW f \in Seq(Byte)
  PROVE  /\ \A n \in 0 .. Len(frames) : Ends(Append(frames, f))[n] = Ends(frames)[n]
         /\ Total(Append(frames, f)) = Total(frames) + Len(f)
<1> DEFINE more == Append(frames, f)
           old == Ends(frames)
           new == Ends(more)
           T == {n \in Nat : n <= Len(frames) => new[n] = old[n]}
<1>1. /\ more \in Frames /\ Len(more) = Len(frames) + 1
      /\ more[Len(frames) + 1] = f
      /\ \A n \in 1 .. Len(frames) : more[n] = frames[n]
      /\ Len(frames) \in Nat
  BY DEF Frames
<1>2. AreEnds(old, frames) /\ AreEnds(new, more)
  BY <1>1, EndsFacts
<1> HIDE DEF more, old, new
<1>3. 0 \in T
  BY <1>1, <1>2 DEF AreEnds
<1>4. ASSUME NEW n \in Nat, n \in T PROVE n + 1 \in T
  <2> SUFFICES ASSUME n + 1 <= Len(frames) PROVE new[n + 1] = old[n + 1]
    OBVIOUS
  <2>1. new[n] = old[n]
    BY <1>1, <1>4
  <2>2. new[n + 1] = new[n] + Len(more[n + 1])
    BY <1>1, <1>2 DEF AreEnds
  <2>3. old[n + 1] = old[n] + Len(frames[n + 1])
    BY <1>1, <1>2 DEF AreEnds
  <2>4. more[n + 1] = frames[n + 1]
    BY <1>1
  <2> QED BY <2>1, <2>2, <2>3, <2>4
<1>5. Nat \subseteq T
  <2> HIDE DEF T
  <2> QED BY <1>3, <1>4, Induct
<1>6. \A n \in 0 .. Len(frames) : new[n] = old[n]
  BY <1>5, <1>1
<1>7. new[Len(more)] = old[Len(frames)] + Len(f)
  <2>1. new[Len(frames) + 1] = new[Len(frames)] + Len(more[Len(frames) + 1])
    BY <1>1, <1>2 DEF AreEnds
  <2> QED BY <2>1, <1>1, <1>6
<1> QED BY <1>6, <1>7, <1>1 DEF Total, old, new, more

(* A frame ends its own length after the one before it, within the stream. *)
LEMMA EndsAt ==
  ASSUME NEW frames \in Frames, NEW j \in 1 .. Len(frames)
  PROVE  /\ Len(frames) \in Nat /\ Total(frames) \in Nat
         /\ frames[j] \in Seq(Byte) /\ Len(frames[j]) \in Nat
         /\ Ends(frames)[j - 1] \in Nat
         /\ Ends(frames)[j] = Ends(frames)[j - 1] + Len(frames[j])
         /\ Ends(frames)[j] <= Total(frames)
<1> DEFINE end == Ends(frames)
<1>1. /\ Len(frames) \in Nat /\ frames[j] \in Seq(Byte)
      /\ Len(frames[j]) \in Nat
  BY DEF Frames
<1>2. /\ j - 1 \in 0 .. Len(frames) /\ j \in 0 .. Len(frames)
      /\ Len(frames) \in j .. Len(frames) /\ Len(frames) \in 0 .. Len(frames)
  BY <1>1
<1>3. AreEnds(end, frames) /\ Total(frames) = end[Len(frames)]
  BY EndsFacts DEF Total
<1>4. end[j] <= end[Len(frames)]
  BY <1>2, EndsGrow
<1> HIDE DEF end
<1>5. /\ end[j - 1] \in Nat /\ end[Len(frames)] \in Nat
      /\ end[j] = end[j - 1] + Len(frames[j])
  BY <1>2, <1>3, ZenonT(60) DEF AreEnds
<1> QED BY <1>1, <1>3, <1>4, <1>5 DEF end

(* If the last bytes of what is in flight get lost, the rest is still the  *)
(* stream.                                                                 *)
LEMMA FollowPrefix ==
  ASSUME NEW frames \in Frames, NEW at \in Nat, NEW b \in Seq(Byte),
         Follow(b, frames, at), NEW n \in 0 .. Len(b)
  PROVE  Follow(SubSeq(b, 1, n), frames, at)
<1> DEFINE end == Ends(frames)
           c == SubSeq(b, 1, n)
<1>1. AreEnds(end, frames) /\ Total(frames) = end[Len(frames)]
  BY EndsFacts DEF Total
<1>2. /\ Len(b) \in Nat /\ Len(c) = n
      /\ \A i \in 1 .. n : c[i] = b[i]
  OBVIOUS
<1>3. Total(frames) \in Nat
  BY <1>1 DEF AreEnds, Frames
<1>4. at + Len(c) <= Total(frames)
  BY <1>2, <1>3 DEF Follow
<1>5. ASSUME NEW j \in 1 .. Len(frames), NEW p \in 1 .. Len(frames[j]),
             end[j - 1] + p - at \in 1 .. Len(c)
      PROVE  c[end[j - 1] + p - at] = frames[j][p]
  <2>1. end[j - 1] + p - at \in 1 .. Len(b)
    BY <1>2, <1>5
  <2>2. b[end[j - 1] + p - at] = frames[j][p]
    BY <2>1 DEF Follow
  <2> QED BY <2>2, <1>2, <1>5
<1> QED BY <1>4, <1>5 DEF Follow

(* After n bytes have been read, what is in flight follows them. *)
LEMMA FollowDrop ==
  ASSUME NEW frames \in Frames, NEW at \in Nat, NEW b \in Seq(Byte),
         Follow(b, frames, at), NEW n \in 0 .. Len(b)
  PROVE  Follow(Drop(b, n), frames, at + n)
<1> DEFINE end == Ends(frames)
           c == Drop(b, n)
<1>1. AreEnds(end, frames) /\ Total(frames) = end[Len(frames)]
  BY EndsFacts DEF Total
<1>2. /\ Len(b) \in Nat /\ Len(c) = Len(b) - n
      /\ \A i \in 1 .. (Len(b) - n) : c[i] = b[n + i]
  BY DEF Drop
<1>3. Total(frames) \in Nat
  BY <1>1 DEF AreEnds, Frames
<1>4. at + n + Len(c) <= Total(frames)
  BY <1>2, <1>3 DEF Follow
<1>5. ASSUME NEW j \in 1 .. Len(frames), NEW p \in 1 .. Len(frames[j]),
             end[j - 1] + p - (at + n) \in 1 .. Len(c)
      PROVE  c[end[j - 1] + p - (at + n)] = frames[j][p]
  <2>1. end[j - 1] \in Nat /\ p \in Nat
    BY EndsAt
  <2>2. PICK e \in Nat : e = end[j - 1]
    BY <2>1
  <2>3. PICK i \in 1 .. (Len(b) - n) : i = e + p - (at + n)
    BY <1>2, <1>5, <2>2
  <2>4. n + i \in 1 .. Len(b) /\ n + i = e + p - at
    BY <1>2, <2>1, <2>3
  <2>5. b[n + i] = frames[j][p]
    BY <2>2, <2>4, Zenon DEF Follow
  <2> QED BY <2>2, <2>3, <2>5, <1>2, Zenon
<1> QED BY <1>4, <1>5 DEF Follow

(* The bytes in flight that belong to frame j are those of that frame. *)
LEMMA FollowHere ==
  ASSUME NEW frames \in Frames, NEW b \in Seq(Byte),
         NEW j \in 1 .. Len(frames), NEW o \in Nat,
         Follow(b, frames, Ends(frames)[j - 1] + o),
         NEW i \in 1 .. Len(b), o + i <= Len(frames[j])
  PROVE  b[i] = frames[j][o + i]
<1>1. PICK e \in Nat : e = Ends(frames)[j - 1]
  BY EndsAt
<1>2. Len(b) \in Nat /\ frames[j] \in Seq(Byte) /\ o + i \in 1 .. Len(frames[j])
  BY EndsAt
<1>3. e + (o + i) - (e + o) = i
  BY <1>2
<1> QED BY <1>1, <1>2, <1>3, Zenon DEF Follow

(* A frame written behind everything in flight continues the stream. *)
LEMMA FollowMore ==
  ASSUME NEW frames \in Frames, NEW at \in Nat, NEW b \in Seq(Byte),
         Follow(b, frames, at), at + Len(b) = Total(frames),
         NEW f \in Seq(Byte)
  PROVE  /\ Follow(b \o f, Append(frames, f), at)
         /\ at + Len(b \o f) = Total(Append(frames, f))
<1> DEFINE more == Append(frames, f)
           old == Ends(frames)
           new == Ends(more)
           c == b \o f
<1>1. /\ more \in Frames /\ Len(more) = Len(frames) + 1
      /\ more[Len(frames) + 1] = f
      /\ \A n \in 1 .. Len(frames) : more[n] = frames[n]
      /\ Len(frames) \in Nat
  BY DEF Frames
<1>2. /\ Len(b) \in Nat /\ Len(f) \in Nat /\ Len(c) = Len(b) + Len(f)
      /\ \A i \in 1 .. Len(b) : c[i] = b[i]
      /\ \A i \in 1 .. Len(f) : c[Len(b) + i] = f[i]
  OBVIOUS
<1>3. AreEnds(old, frames) /\ Total(frames) = old[Len(frames)]
  BY EndsFacts DEF Total
<1>4. /\ \A n \in 0 .. Len(frames) : new[n] = old[n]
      /\ Total(more) = Total(frames) + Len(f)
  BY EndsAppend
<1>5. Total(frames) \in Nat
  BY <1>1, <1>3 DEF AreEnds
<1>6. at + Len(c) = Total(more)
  BY <1>2, <1>4, <1>5
<1> HIDE DEF more, old, new, c
<1>7. ASSUME NEW j \in 1 .. Len(more), NEW p \in 1 .. Len(more[j]),
             new[j - 1] + p - at \in 1 .. Len(c)
      PROVE  c[new[j - 1] + p - at] = more[j][p]
  <2>1. CASE j = Len(frames) + 1
    <3>1. new[j - 1] = Total(frames)
      BY <1>1, <1>3, <1>4, <2>1
    <3>2. p \in 1 .. Len(f) /\ more[j] = f
      BY <1>1, <2>1
    <3>3. Total(frames) + p - at = Len(b) + p
      BY <1>2, <3>2
    <3> QED BY <1>2, <3>1, <3>2, <3>3
  <2>2. CASE j \in 1 .. Len(frames)
    <3>1. /\ new[j - 1] = old[j - 1] /\ more[j] = frames[j]
          /\ j - 1 \in 0 .. Len(frames)
      BY <1>1, <1>4, <2>2
    <3>2. PICK e \in Nat : e = old[j - 1]
      BY <1>3, <3>1, Zenon DEF AreEnds
    <3>3. frames[j] \in Seq(Byte) /\ p \in 1 .. Len(frames[j])
      BY <2>2, <3>1 DEF Frames
    <3>4. old[j] = e + Len(frames[j]) /\ old[j] <= Total(frames)
          /\ Len(frames[j]) \in Nat
      BY <2>2, <3>2, EndsAt DEF old
    <3>5. e + p - at >= 1
      BY <1>2, <1>7, <3>1, <3>2
    <3>6. e + p - at \in 1 .. Len(b)
      <4>1. e + p <= at + Len(b)
        BY <3>3, <3>4, <1>5
      <4> QED BY <1>2, <3>3, <3>5, <4>1
    <3>7. b[e + p - at] = frames[j][p]
      BY <2>2, <3>2, <3>3, <3>6 DEF Follow, old
    <3> QED BY <1>2, <3>1, <3>2, <3>6, <3>7
  <2> QED BY <1>1, <2>1, <2>2
<1>8. Follow(c, more, at)
  <2>1. at + Len(c) <= Total(more)
    BY <1>1, <1>2, <1>4, <1>5, <1>6
  <2> QED BY <1>7, <2>1, Zenon DEF Follow, new
<1> QED BY <1>6, <1>8 DEF c, more

(* The first n bytes of a are the first n of a followed by b. *)
LEMMA CutConcat ==
  ASSUME NEW S, NEW a \in Seq(S), NEW b \in Seq(S), NEW n \in 0 .. Len(a)
  PROVE  SubSeq(a \o b, 1, n) = SubSeq(a, 1, n)
<1> DEFINE c == a \o b
<1>1. c \in Seq(S) /\ Joins(c, a, b) /\ Len(a) \in Nat /\ Len(b) \in Nat
  BY ConcatSeq, SMT
<1> HIDE DEF c
<1>2. n \in 0 .. Len(c)
  BY <1>1 DEF Joins
<1>3. /\ SubSeq(c, 1, n) \in Seq(S) /\ Len(SubSeq(c, 1, n)) = n
      /\ \A i \in 1 .. n : SubSeq(c, 1, n)[i] = c[i]
  BY <1>1, <1>2, CutSeq, Zenon
<1>4. /\ SubSeq(a, 1, n) \in Seq(S) /\ Len(SubSeq(a, 1, n)) = n
      /\ \A i \in 1 .. n : SubSeq(a, 1, n)[i] = a[i]
  BY CutSeq, Zenon
<1>5. \A i \in 1 .. n : c[i] = a[i]
  BY <1>1 DEF Joins
<1>6. SubSeq(c, 1, n) = SubSeq(a, 1, n)
  BY <1>3, <1>4, <1>5, SameSeq, Zenon
<1> QED BY <1>6 DEF c

(* A read of n bytes, with k frames and o bytes of the next one read       *)
(* before: there is a next frame, the bytes read are its bytes as far as   *)
(* it goes, and what remains in flight follows them.                       *)
LEMMA FrameRead ==
  ASSUME NEW frames \in Frames, NEW k \in 0 .. Len(frames), NEW o \in Nat,
         NEW b \in Seq(Byte), Follow(b, frames, Ends(frames)[k] + o),
         NEW n \in 1 .. Len(b)
  PROVE  /\ k + 1 \in 1 .. Len(frames)
         /\ Follow(Drop(b, n), frames, Ends(frames)[k] + (o + n))
         /\ \A i \in 1 .. n : o + i <= Len(frames[k + 1]) =>
              b[i] = frames[k + 1][o + i]
<1>1. AreEnds(Ends(frames), frames) /\ Total(frames) = Ends(frames)[Len(frames)]
  BY EndsFacts DEF Total
<1>2. Len(frames) \in Nat /\ Len(b) \in Nat
  BY DEF Frames
<1>3. PICK e \in Nat : e = Ends(frames)[k]
  BY <1>1 DEF AreEnds
<1>4. k + 1 \in 1 .. Len(frames)
  <2>1. CASE k = Len(frames)
    <3>1. e + o + Len(b) <= e
      BY <1>1, <1>3, <2>1 DEF Follow
    <3> QED BY <1>2, <3>1
  <2> QED BY <1>2, <2>1
<1>5. Follow(Drop(b, n), frames, Ends(frames)[k] + (o + n))
  <2>1. n \in 0 .. Len(b) /\ e + o \in Nat /\ (e + o) + n = e + (o + n)
    BY <1>2
  <2>2. Follow(b, frames, e + o)
    BY <1>3
  <2>3. Follow(Drop(b, n), frames, (e + o) + n)
    BY <2>1, <2>2, FollowDrop
  <2> QED BY <1>3, <2>1, <2>3
<1>6. ASSUME NEW i \in 1 .. n, o + i <= Len(frames[k + 1])
      PROVE  b[i] = frames[k + 1][o + i]
  <2>1. i \in 1 .. Len(b) /\ (k + 1) - 1 = k
    BY <1>2
  <2>2. Follow(b, frames, Ends(frames)[(k + 1) - 1] + o)
    BY <2>1
  <2> QED BY <1>4, <1>6, <2>1, <2>2, FollowHere
<1> QED BY <1>4, <1>5, <1>6
=============================================================================
