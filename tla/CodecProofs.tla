----------------------------- MODULE CodecProofs -----------------------------
(***************************************************************************)
(* The codec, for every width, polynomial and payload.                     *)
(***************************************************************************)
EXTENDS Codec, WellFoundedInduction, TLAPS

-----------------------------------------------------------------------------
(***************************************************************************)
(* Arithmetic.                                                             *)
(***************************************************************************)

\* Division with remainder.
LEMMA DivMod ==
  ASSUME NEW n \in Nat, NEW k \in Nat \ {0}
  PROVE  /\ n \div k \in Nat
         /\ n % k \in 0 .. k - 1
         /\ n = k * (n \div k) + (n % k)
OBVIOUS

\* A product of positive numbers is at least either of them.
LEMMA Grows ==
  ASSUME NEW m \in Nat, NEW n \in Nat
  PROVE  /\ m * n \in Nat
         /\ n # 0 => m * n >= m
<1>1. m * n \in Nat
  OBVIOUS
<1>2. ASSUME n # 0 PROVE m * n >= m
  <2>1. PICK k \in Nat : n = k + 1
    BY <1>2
  <2>2. m * n = m * k + m /\ m * k \in Nat
    BY <2>1
  <2>3. QED
    BY <2>2
<1>3. QED
  BY <1>1, <1>2

\* There is one way to divide.
LEMMA DivModUnique ==
  ASSUME NEW k \in Nat \ {0}, NEW q \in Nat, NEW r \in 0 .. k - 1
  PROVE  /\ (k * q + r) \div k = q
         /\ (k * q + r) % k = r
<1> DEFINE n == k * q + r
           d == n \div k
           m == n % k
<1>1. n \in Nat /\ d \in Nat /\ m \in 0 .. k - 1 /\ n = k * d + m
  <2>1. k * q \in Nat
    OBVIOUS
  <2>2. n \in Nat
    BY <2>1
  <2> HIDE DEF n
  <2>3. QED
    BY <2>2, DivMod
<1>2. k * q + r = k * d + m
  BY <1>1
<1> HIDE DEF d, m
<1>3. ~(d > q)
  <2> SUFFICES ASSUME d > q PROVE FALSE
    OBVIOUS
  <2>1. PICK j \in Nat : d = q + j /\ j # 0
    BY <1>1
  <2>2. k * d = k * q + k * j
    BY <2>1
  <2>3. k * j >= k
    BY <2>1, Grows
  <2>4. QED
    BY <1>1, <1>2, <2>2, <2>3
<1>4. ~(d < q)
  <2> SUFFICES ASSUME d < q PROVE FALSE
    OBVIOUS
  <2>1. PICK j \in Nat : q = d + j /\ j # 0
    BY <1>1
  <2>2. k * q = k * d + k * j
    BY <1>1, <2>1
  <2>3. k * j >= k
    BY <2>1, Grows
  <2>4. QED
    BY <1>1, <1>2, <2>2, <2>3
<1>5. d = q
  BY <1>1, <1>3, <1>4
<1>6. m = r
  BY <1>1, <1>2, <1>5
<1>7. QED
  BY <1>5, <1>6 DEF d, m

\* Dividing twice is dividing by the product.
LEMMA DivDiv ==
  ASSUME NEW n \in Nat, NEW j \in Nat \ {0}, NEW k \in Nat \ {0}
  PROVE  n \div (j * k) = (n \div j) \div k
<1> DEFINE q == n \div j
           d == q \div k
           r == q % k
           m == n % j
<1>1. /\ q \in Nat /\ m \in 0 .. j - 1 /\ n = j * q + m
      /\ d \in Nat /\ r \in 0 .. k - 1 /\ q = k * d + r
  <2>1. q \in Nat /\ m \in 0 .. j - 1 /\ n = j * q + m
    BY DivMod
  <2> HIDE DEF q
  <2>2. QED
    BY <2>1, DivMod
<1> HIDE DEF q, d, r, m
<1>2. n = (j * k) * d + (j * r + m)
  <2>1. j * q = j * (k * d) + j * r
    BY <1>1
  <2>2. j * (k * d) = (j * k) * d
    BY <1>1
  <2>3. QED
    BY <1>1, <2>1, <2>2
<1>3. j * r + m \in 0 .. (j * k) - 1
  <2>1. PICK i \in Nat : k = r + 1 + i
    BY <1>1
  <2>2. j * k = j * r + j + j * i
    BY <1>1, <2>1
  <2>3. j * i \in Nat /\ j * r \in Nat
    BY <1>1
  <2>4. QED
    BY <1>1, <2>2, <2>3
<1>4. j * k \in Nat \ {0}
  <2>1. j * k \in Nat /\ j * k >= j
    BY Grows
  <2>2. QED
    BY <2>1
<1>5. n \div (j * k) = d
  BY <1>1, <1>2, <1>3, <1>4, DivModUnique
<1>6. QED
  BY <1>5 DEF d, q

\* A summand that is the same on both sides does not hide a byte.
LEMMA ModCancel ==
  ASSUME NEW k \in Nat \ {0}, NEW x \in 0 .. k - 1, NEW y \in 0 .. k - 1,
         NEW c \in Nat, (x + c) % k = (y + c) % k
  PROVE  x = y
<1> DEFINE p == (x + c) \div k
           q == (y + c) \div k
           r == (x + c) % k
<1>0. x + c \in Nat /\ y + c \in Nat
  OBVIOUS
<1>1. p \in Nat /\ x + c = k * p + r
  <2> DEFINE n == x + c
  <2>1. n \in Nat
    BY <1>0
  <2> HIDE DEF n
  <2>2. n \div k \in Nat /\ n = k * (n \div k) + (n % k)
    BY <2>1, DivMod
  <2>3. QED
    BY <2>2 DEF n
<1>2. q \in Nat /\ y + c = k * q + r
  <2> DEFINE n == y + c
  <2>1. n \in Nat
    BY <1>0
  <2> HIDE DEF n
  <2>2. n \div k \in Nat /\ n = k * (n \div k) + (n % k)
    BY <2>1, DivMod
  <2>3. QED
    BY <2>2 DEF n
<1>3. r \in 0 .. k - 1
  BY <1>0, DivMod
<1> HIDE DEF p, q, r
<1>4. ~(p > q)
  <2> SUFFICES ASSUME p > q PROVE FALSE
    OBVIOUS
  <2>1. PICK j \in Nat : p = q + j /\ j # 0
    BY <1>1, <1>2
  <2>2. k * p = k * q + k * j /\ k * j >= k
    BY <1>2, <2>1, Grows
  <2>3. k * q \in Nat /\ k * j \in Nat
    BY <1>2, <2>1
  <2>4. x + c = y + c + k * j
    BY <1>1, <1>2, <1>3, <2>2, <2>3
  <2>5. QED
    BY <2>2, <2>3, <2>4
<1>5. ~(q > p)
  <2> SUFFICES ASSUME q > p PROVE FALSE
    OBVIOUS
  <2>1. PICK j \in Nat : q = p + j /\ j # 0
    BY <1>1, <1>2
  <2>2. k * q = k * p + k * j /\ k * j >= k
    BY <1>1, <2>1, Grows
  <2>3. k * p \in Nat /\ k * j \in Nat
    BY <1>1, <2>1
  <2>4. y + c = x + c + k * j
    BY <1>1, <1>2, <1>3, <2>2, <2>3
  <2>5. QED
    BY <2>2, <2>3, <2>4
<1>6. p = q
  BY <1>1, <1>2, <1>4, <1>5
<1>7. QED
  BY <1>1, <1>2, <1>6

-----------------------------------------------------------------------------
(***************************************************************************)
(* Integers and their bytes.                                               *)
(***************************************************************************)

\* Radix is positive, and so are its powers.
LEMMA RadixPositive ==
  /\ Radix \in Nat \ {0}
  /\ Radix * Radix \in Nat \ {0}
  /\ Radix * Radix * Radix \in Nat \ {0}
<1>1. Radix \in Nat \ {0}
  BY CodecAssumption
<1>2. Radix * Radix \in Nat /\ Radix * Radix >= Radix
  BY <1>1, Grows
<1>3. Radix * Radix \in Nat \ {0}
  BY <1>1, <1>2
<1>4. ASSUME NEW n \in Nat \ {0} PROVE n * Radix \in Nat \ {0}
  <2>1. n * Radix \in Nat /\ n * Radix >= n
    BY <1>1, Grows
  <2>2. QED
    BY <2>1
<1>5. Radix * Radix * Radix \in Nat \ {0}
  BY <1>3, <1>4
<1>6. QED
  BY <1>1, <1>3, <1>5

\* Quotients by Radix, one after the other.
LEMMA Quotients ==
  ASSUME NEW n \in Nat
  PROVE  /\ n \div 1 = n
         /\ n \div Radix \in Nat
         /\ n \div (Radix * Radix) = (n \div Radix) \div Radix
         /\ n \div (Radix * Radix) \in Nat
         /\ n \div (Radix * Radix * Radix) = (n \div (Radix * Radix)) \div Radix
         /\ n \div (Radix * Radix * Radix) \in Nat
<1>1. n \div 1 = n
  OBVIOUS
<1>2. n \div Radix \in Nat /\ n \div (Radix * Radix) \in Nat
  BY RadixPositive, DivMod
<1>3. n \div (Radix * Radix * Radix) \in Nat
  BY RadixPositive, DivMod
<1>4. n \div (Radix * Radix) = (n \div Radix) \div Radix
  BY RadixPositive, DivDiv
<1>5. n \div (Radix * Radix * Radix) = (n \div (Radix * Radix)) \div Radix
  BY RadixPositive, DivDiv
<1>6. QED
  BY <1>1, <1>2, <1>3, <1>4, <1>5

\* The bytes of an integer are bytes, and as many as asked for.
LEMMA BytesType ==
  ASSUME NEW n \in Nat, NEW width \in {1, 2, 4}
  PROVE  /\ Bytes(n, width) \in Seq(Byte)
         /\ Len(Bytes(n, width)) = width
<1>1. ASSUME NEW i \in 1 .. width
      PROVE  (n \div Weight[width + 1 - i]) % Radix \in Byte
  <2> DEFINE w == Weight[width + 1 - i]
  <2>1. w \in Nat \ {0}
    <3>1. width + 1 - i \in 1 .. 4
      OBVIOUS
    <3>2. QED
      BY <3>1, RadixPositive DEF Weight
  <2> HIDE DEF w
  <2>2. n \div w \in Nat
    BY <2>1, DivMod
  <2>3. QED
    BY <2>2, RadixPositive, DivMod DEF Byte, w
<1>2. Bytes(n, width) \in [1 .. width -> Byte]
  BY <1>1 DEF Bytes
<1>3. QED
  BY <1>2

\* Number undoes Bytes.
LEMMA NumberOfBytes ==
  ASSUME NEW n \in Nat
  PROVE  /\ n \in Byte => Number(Bytes(n, 1)) = n
         /\ n \in U16 => Number(Bytes(n, 2)) = n
         /\ n \in U32 => Number(Bytes(n, 4)) = n
<1> DEFINE q1 == n \div Radix
           q2 == n \div (Radix * Radix)
           q3 == n \div (Radix * Radix * Radix)
<1>1. /\ q1 \in Nat /\ n = Radix * q1 + (n % Radix)
      /\ q2 \in Nat /\ q1 = Radix * q2 + (q1 % Radix)
      /\ q3 \in Nat /\ q2 = Radix * q3 + (q2 % Radix)
  <2>1. q1 \in Nat /\ q2 \in Nat /\ q3 \in Nat
    BY Quotients
  <2>2. q2 = q1 \div Radix /\ q3 = q2 \div Radix
    BY Quotients
  <2>3. n = Radix * q1 + (n % Radix)
    BY RadixPositive, DivMod
  <2> HIDE DEF q1, q2, q3
  <2>4. q1 = Radix * q2 + (q1 % Radix)
    BY <2>1, <2>2, RadixPositive, DivMod
  <2>5. q2 = Radix * q3 + (q2 % Radix)
    BY <2>1, <2>2, RadixPositive, DivMod
  <2>6. QED
    BY <2>1, <2>3, <2>4, <2>5
<1>2. /\ Weight[1] = 1 /\ Weight[2] = Radix /\ Weight[3] = Radix * Radix
      /\ Weight[4] = Radix * Radix * Radix
  BY DEF Weight
<1>3. n \div 1 = n
  BY Quotients
<1>4. ASSUME n \in Byte PROVE Number(Bytes(n, 1)) = n
  <2> DEFINE b == Bytes(n, 1)
  <2>1. Len(b) = 1 /\ b[1] = n % Radix
    BY <1>2, <1>3, BytesType DEF Bytes
  <2>2. n % Radix = n
    BY <1>4, RadixPositive DEF Byte
  <2> HIDE DEF b
  <2>3. Number(b) = ((0 * Radix + 0) * Radix + 0) * Radix + n
    BY <2>1, <2>2 DEF Number
  <2>4. QED
    BY <2>3, RadixPositive DEF b
<1>5. ASSUME n \in U16 PROVE Number(Bytes(n, 2)) = n
  <2> DEFINE b == Bytes(n, 2)
  <2>1. Len(b) = 2 /\ b[2] = n % Radix /\ b[1] = q1 % Radix
    BY <1>2, <1>3, BytesType DEF Bytes
  <2>2. q1 < Radix
    <3> SUFFICES ASSUME q1 >= Radix PROVE FALSE
      BY <1>1, RadixPositive
    <3>1. PICK j \in Nat : q1 = Radix + j
      BY <1>1, RadixPositive
    <3>2. Radix * q1 = Radix * Radix + Radix * j /\ Radix * j \in Nat
      BY <3>1, RadixPositive
    <3>3. n % Radix \in Nat
      BY RadixPositive, DivMod
    <3> HIDE DEF q1
    <3>4. n >= Radix * Radix
      BY <1>1, <3>2, <3>3, RadixPositive
    <3>5. QED
      BY <1>5, <3>4, RadixPositive DEF U16
  <2>3. q1 % Radix = q1
    BY <1>1, <2>2, RadixPositive
  <2> HIDE DEF b, q1
  <2>4. Number(b) = ((0 * Radix + 0) * Radix + q1) * Radix + (n % Radix)
    BY <2>1, <2>3 DEF Number
  <2>5. QED
    BY <1>1, <2>4, RadixPositive, DivMod DEF b
<1>6. ASSUME n \in U32 PROVE Number(Bytes(n, 4)) = n
  <2> DEFINE b == Bytes(n, 4)
  <2>1. /\ Len(b) = 4 /\ b[4] = n % Radix /\ b[3] = q1 % Radix
        /\ b[2] = q2 % Radix /\ b[1] = q3 % Radix
    BY <1>2, <1>3, BytesType DEF Bytes
  <2>2. q3 < Radix
    <3> SUFFICES ASSUME q3 >= Radix PROVE FALSE
      BY <1>1, RadixPositive
    <3> DEFINE cube == Radix * Radix * Radix
    <3>0. n = cube * q3 + (n % cube) /\ n % cube \in Nat /\ cube \in Nat
      <4>1. cube \in Nat \ {0}
        BY RadixPositive
      <4> HIDE DEF cube
      <4>2. n = cube * (n \div cube) + (n % cube) /\ n % cube \in 0 .. cube - 1
        BY <4>1, DivMod
      <4>3. QED
        BY <4>1, <4>2, RadixPositive DEF cube
    <3> HIDE DEF q1, q2, q3, cube
    <3>1. PICK j \in Nat : q3 = Radix + j
      <4>1. q3 - Radix \in Nat /\ q3 = Radix + (q3 - Radix)
        BY <1>1, RadixPositive
      <4>2. QED
        BY <4>1
    <3>2. cube * q3 = cube * Radix + cube * j /\ cube * j \in Nat /\ cube * Radix \in Nat
      BY <3>0, <3>1, RadixPositive
    <3>4. n >= cube * Radix
      BY <3>0, <3>2
    <3>5. QED
      BY <1>6, <3>4, RadixPositive DEF U32, cube
  <2>3. q3 % Radix = q3
    BY <1>1, <2>2, RadixPositive
  <2> HIDE DEF b, q1, q2, q3
  <2>4. Number(b) = ((q3 * Radix + (q2 % Radix)) * Radix + (q1 % Radix)) * Radix
                      + (n % Radix)
    BY <2>1, <2>3 DEF Number
  <2>5. q3 * Radix + (q2 % Radix) = q2
    BY <1>1, RadixPositive, DivMod
  <2>6. q2 * Radix + (q1 % Radix) = q1
    BY <1>1, RadixPositive, DivMod
  <2>7. q1 * Radix + (n % Radix) = n
    BY <1>1, RadixPositive, DivMod
  <2>8. QED
    BY <2>4, <2>5, <2>6, <2>7 DEF b
<1>7. QED
  BY <1>4, <1>5, <1>6

-----------------------------------------------------------------------------
(***************************************************************************)
(* The checksum.                                                           *)
(***************************************************************************)
Registers == Byte \X Byte \X Byte \X Byte

\* The multiple of the Generator that a step adds, and what a step makes of it.
LEMMA RemainderParts ==
  ASSUME NEW r \in Registers, NEW b \in Byte
  PROVE  /\ Radix - r[1] \in 1 .. Radix
         /\ \A j \in 1 .. 4 : (Radix - r[1]) * Generator[j] \in Nat
         /\ Remainder(r, b) \in Registers
<1>1. Radix - r[1] \in 1 .. Radix
  BY RadixPositive DEF Registers, Byte
<1>2. ASSUME NEW j \in 1 .. 4 PROVE (Radix - r[1]) * Generator[j] \in Nat
  <2>1. Generator[j] \in Nat
    BY CodecAssumption DEF Byte
  <2>2. Radix - r[1] \in Nat
    BY <1>1, RadixPositive
  <2>3. QED
    BY <2>1, <2>2, Grows
<1>3. ASSUME NEW x \in Byte, NEW j \in 1 .. 4
      PROVE  (x + (Radix - r[1]) * Generator[j]) % Radix \in Byte
  <2> DEFINE sum == x + (Radix - r[1]) * Generator[j]
  <2>1. sum \in Nat
    BY <1>2 DEF Byte
  <2> HIDE DEF sum
  <2>2. sum % Radix \in Byte
    BY <2>1, RadixPositive, DivMod DEF Byte
  <2>3. QED
    BY <2>2 DEF sum
<1>4. r[2] \in Byte /\ r[3] \in Byte /\ r[4] \in Byte
  BY DEF Registers
<1>5. Remainder(r, b) \in Registers
  BY <1>3, <1>4 DEF Remainder, Registers
<1>6. QED
  BY <1>1, <1>2, <1>5

\* With one head, the registers differ after a step where they did, one further up.
LEMMA RemainderShifts ==
  ASSUME NEW r \in Registers, NEW s \in Registers, r[1] = s[1],
         NEW b \in Byte, NEW c \in Byte
  PROVE  /\ Remainder(r, b)[1] = Remainder(s, c)[1] <=> r[2] = s[2]
         /\ Remainder(r, b)[2] = Remainder(s, c)[2] <=> r[3] = s[3]
         /\ Remainder(r, b)[3] = Remainder(s, c)[3] <=> r[4] = s[4]
         /\ Remainder(r, b)[4] = Remainder(s, c)[4] <=> b = c
<1> DEFINE m == Radix - r[1]
<1>1. \A j \in 1 .. 4 : m * Generator[j] \in Nat
  BY RemainderParts
<1>2. m = Radix - s[1]
  OBVIOUS
<1>3. ASSUME NEW x \in Byte, NEW y \in Byte, NEW j \in 1 .. 4
      PROVE  (x + m * Generator[j]) % Radix = (y + m * Generator[j]) % Radix <=> x = y
  BY <1>1, RadixPositive, ModCancel DEF Byte
<1>4. /\ Remainder(r, b) = << (r[2] + m * Generator[1]) % Radix,
            (r[3] + m * Generator[2]) % Radix, (r[4] + m * Generator[3]) % Radix,
            (b + m * Generator[4]) % Radix >>
      /\ Remainder(s, c) = << (s[2] + m * Generator[1]) % Radix,
            (s[3] + m * Generator[2]) % Radix, (s[4] + m * Generator[3]) % Radix,
            (c + m * Generator[4]) % Radix >>
  BY <1>2 DEF Remainder
<1>5. /\ r[2] \in Byte /\ r[3] \in Byte /\ r[4] \in Byte
      /\ s[2] \in Byte /\ s[3] \in Byte /\ s[4] \in Byte
  BY DEF Registers
<1> HIDE DEF m
<1>6. QED
  BY <1>3, <1>4, <1>5

\* Two multiples of the constant term are never one remainder.
LEMMA ConstantTerm ==
  ASSUME NEW b \in Byte, NEW m \in 1 .. Radix, NEW n \in 1 .. Radix, n < m
  PROVE  (b + m * Generator[4]) % Radix # (b + n * Generator[4]) % Radix
<1> DEFINE g == Generator[4]
           k == m - n
<1>1. g \in Nat
  BY CodecAssumption DEF Byte
<1>2. k \in Byte \ {0}
  BY RadixPositive DEF Byte
<1>3. (k * g) % Radix # 0
  BY <1>2, CodecAssumption
<1>4. m \in Nat /\ n \in Nat /\ k \in Nat /\ m = k + n
  BY RadixPositive
<1> HIDE DEF g, k
<1>5. m * g = k * g + n * g /\ k * g \in Nat /\ n * g \in Nat
  BY <1>1, <1>4, Grows
<1> DEFINE y == (k * g) % Radix
           c == b + n * g
<1>6. /\ y \in 0 .. Radix - 1
      /\ (k * g) \div Radix \in Nat
      /\ k * g = Radix * ((k * g) \div Radix) + y
  BY <1>5, RadixPositive, DivMod
<1>7. c \in Nat
  BY <1>5 DEF Byte
<1> DEFINE q == (k * g) \div Radix
<1>8. b + m * g = Radix * q + (y + c)
  BY <1>5, <1>6, <1>7, RadixPositive DEF Byte
<1> HIDE DEF y, c, q
<1>9. (b + m * g) % Radix = (y + c) % Radix
  <2> DEFINE d == (y + c) \div Radix
             r == (y + c) % Radix
  <2>1. y + c \in Nat
    BY <1>6, <1>7
  <2>2. d \in Nat /\ r \in 0 .. Radix - 1 /\ y + c = Radix * d + r
    <3> DEFINE z == y + c
    <3>1. z \in Nat
      BY <2>1
    <3> HIDE DEF z
    <3>2. z \div Radix \in Nat /\ z % Radix \in 0 .. Radix - 1
          /\ z = Radix * (z \div Radix) + (z % Radix)
      BY <3>1, RadixPositive, DivMod
    <3>3. QED
      BY <3>2 DEF z
  <2> HIDE DEF d, r
  <2>3. q \in Nat
    BY <1>6 DEF q
  <2>4. b + m * g = Radix * (q + d) + r
    BY <1>8, <2>2, <2>3, RadixPositive
  <2>5. (Radix * (q + d) + r) % Radix = r
    BY <2>2, <2>3, RadixPositive, DivModUnique
  <2>6. QED
    BY <2>4, <2>5 DEF r
<1>10. ASSUME (y + c) % Radix = (0 + c) % Radix PROVE FALSE
  <2>1. y = 0
    <3>1. y \in 0 .. Radix - 1 /\ 0 \in 0 .. Radix - 1
      BY <1>6, RadixPositive
    <3>2. QED
      BY <1>7, <1>10, <3>1, RadixPositive, ModCancel
  <2>2. QED
    BY <1>3, <2>1 DEF y
<1>11. 0 + c = b + n * g
  BY <1>7 DEF c
<1>12. QED
  BY <1>9, <1>10, <1>11 DEF g

\* A step forgets nothing of the registers.
LEMMA RemainderForgetsNothing ==
  ASSUME NEW r \in Registers, NEW s \in Registers, NEW b \in Byte,
         Remainder(r, b) = Remainder(s, b)
  PROVE  r = s
<1>1. /\ (b + (Radix - r[1]) * Generator[4]) % Radix
           = (b + (Radix - s[1]) * Generator[4]) % Radix
  BY DEF Remainder
<1>2. Radix - r[1] \in 1 .. Radix /\ Radix - s[1] \in 1 .. Radix
  BY RemainderParts
<1>3. Radix - r[1] = Radix - s[1]
  <2>1. ~(Radix - r[1] < Radix - s[1])
    BY <1>1, <1>2, ConstantTerm
  <2>2. ~(Radix - s[1] < Radix - r[1])
    BY <1>1, <1>2, ConstantTerm
  <2>3. QED
    BY <1>2, <2>1, <2>2, RadixPositive
<1>4. r[1] = s[1]
  BY <1>3, RadixPositive DEF Registers, Byte
<1>5. r[2] = s[2] /\ r[3] = s[3] /\ r[4] = s[4]
  BY <1>4, RemainderShifts
<1>6. QED
  BY <1>4, <1>5 DEF Registers

\* A set of numbers with 0 in it, and with each number the next, has all of them.
LEMMA Induction ==
  ASSUME NEW S \in SUBSET Nat, 0 \in S, \A n \in S : n + 1 \in S
  PROVE  S = Nat
<1> DEFINE R == {ss \in Nat \X Nat : ss[1] < ss[2]}
           T == Nat \ S
<1>1. IsWellFoundedOn(R, Nat)
  BY NatLessThanWellFounded DEF OpToRel
<1> SUFFICES ASSUME T # {} PROVE FALSE
  OBVIOUS
<1>2. \A x, y \in Nat : y < x => <<y, x>> \in R
  OBVIOUS
<1> HIDE DEF R
<1>3. PICK x \in T : \A y \in T : <<y, x>> \notin R
  BY <1>1, WFMin
<1>4. x # 0 /\ x - 1 \in Nat /\ x - 1 < x
  OBVIOUS
<1>5. x - 1 \in S
  BY <1>2, <1>3, <1>4
<1>6. QED
  BY <1>3, <1>4, <1>5

\* The registers after each byte, from the first on.
FirstRegister == <<Radix - 1, Radix - 1, Radix - 1, Radix - 1>>

Run(register, bytes) ==
  /\ register[0] = FirstRegister
  /\ \A i \in 1 .. Len(bytes) : register[i] = Remainder(register[i - 1], bytes[i])

\* The recursion in Crc has a solution, and Crc is its last register.
LEMMA CrcRuns ==
  ASSUME NEW bytes \in Seq(Byte)
  PROVE  \E register \in [0 .. Len(bytes) -> Registers] :
            Run(register, bytes) /\ Crc(bytes) = register[Len(bytes)]
<1> DEFINE L == Len(bytes)
           UpTo(k, f) == /\ f[0] = FirstRegister
                         /\ \A i \in 1 .. k : f[i] = Remainder(f[i - 1], bytes[i])
           Reached(k) == \E f \in [0 .. k -> Registers] : UpTo(k, f)
           S == {k \in Nat : k <= L => Reached(k)}
<1>1. L \in Nat /\ \A i \in 1 .. L : bytes[i] \in Byte
  OBVIOUS
<1>2. FirstRegister \in Registers
  BY RadixPositive DEF FirstRegister, Registers, Byte
<1>3. 0 \in S
  <2> DEFINE f == [i \in 0 .. 0 |-> FirstRegister]
  <2>1. f \in [0 .. 0 -> Registers] /\ UpTo(0, f)
    BY <1>2
  <2>2. QED
    BY <2>1
<1>4. ASSUME NEW k \in S PROVE k + 1 \in S
  <2> HIDE DEF Reached
  <2> SUFFICES ASSUME k + 1 <= L PROVE Reached(k + 1)
    BY <1>4
  <2>1. k \in Nat /\ k <= L /\ k + 1 \in 1 .. L
    BY <1>1
  <2>2. PICK f \in [0 .. k -> Registers] : UpTo(k, f)
    BY <2>1 DEF Reached
  <2> DEFINE g == [i \in 0 .. k + 1 |-> IF i = k + 1 THEN Remainder(f[k], bytes[k + 1]) ELSE f[i]]
  <2>3. bytes[k + 1] \in Byte
    BY <1>1, <2>1
  <2>4. Remainder(f[k], bytes[k + 1]) \in Registers
    <3>1. f[k] \in Registers
      BY <2>1, <2>2
    <3>2. QED
      BY <2>3, <3>1, RemainderParts
  <2>5. g \in [0 .. k + 1 -> Registers]
    BY <2>1, <2>4
  <2>6. UpTo(k + 1, g)
    BY <2>1, <2>2
  <2>7. QED
    BY <2>5, <2>6 DEF Reached
<1>5. S = Nat
  <2>1. S \in SUBSET Nat
    OBVIOUS
  <2> HIDE DEF S
  <2>2. QED
    BY <1>3, <1>4, <2>1, Induction
<1>6. PICK f \in [0 .. L -> Registers] : UpTo(L, f)
  <2>1. L \in S
    BY <1>1, <1>5
  <2>2. QED
    BY <1>1, <2>1
<1> DEFINE Solves(h) ==
             h = [i \in 0 .. Len(bytes) |->
                    IF i = 0 THEN <<Radix - 1, Radix - 1, Radix - 1, Radix - 1>>
                    ELSE Remainder(h[i - 1], bytes[i])]
           register == CHOOSE h : Solves(h)
<1>7. Solves(f)
  <2>1. f = [i \in 0 .. L |-> f[i]]
    OBVIOUS
  <2>2. \A i \in 0 .. L : f[i] = IF i = 0 THEN FirstRegister
                                   ELSE Remainder(f[i - 1], bytes[i])
    BY <1>1, <1>6
  <2>3. QED
    BY <2>1, <2>2, ZenonT(30) DEF FirstRegister
<1>8. Solves(register)
  <2> HIDE DEF Solves
  <2>1. QED
    BY <1>7
<1>9. Crc(bytes) = register[Len(bytes)]
  BY DEF Crc
<1> HIDE DEF register
<1>10. /\ register = [i \in 0 .. L |-> register[i]]
       /\ register[0] = FirstRegister
       /\ \A i \in 1 .. L : register[i] = Remainder(register[i - 1], bytes[i])
  <2> DEFINE Step(i) == IF i = 0 THEN FirstRegister
                        ELSE Remainder(register[i - 1], bytes[i])
  <2>1. register = [i \in 0 .. L |-> Step(i)]
    BY <1>8, ZenonT(30) DEF FirstRegister
  <2> HIDE DEF Step
  <2>2. /\ register = [i \in 0 .. L |-> register[i]]
        /\ \A i \in 0 .. L : register[i] = Step(i)
    BY <2>1
  <2>3. 0 \in 0 .. L /\ \A i \in 1 .. L : i \in 0 .. L /\ i # 0
    BY <1>1
  <2>4. QED
    BY <2>2, <2>3, ZenonT(30) DEF Step
<1> DEFINE P == {k \in Nat : k <= L => register[k] \in Registers}
<1>11. P = Nat
  <2>1. P \in SUBSET Nat /\ 0 \in P
    BY <1>2, <1>10
  <2>2. ASSUME NEW k \in P PROVE k + 1 \in P
    <3> SUFFICES ASSUME k + 1 <= L PROVE register[k + 1] \in Registers
      OBVIOUS
    <3>1. k \in Nat /\ k + 1 \in 1 .. L /\ (k + 1) - 1 = k
      BY <1>1
    <3>2. register[k] \in Registers /\ bytes[k + 1] \in Byte
      BY <1>1, <3>1
    <3>3. register[k + 1] = Remainder(register[k], bytes[k + 1])
      BY <1>10, <3>1
    <3>4. QED
      BY <3>2, <3>3, RemainderParts
  <2> HIDE DEF P
  <2>3. QED
    BY <2>1, <2>2, Induction
<1>12. register \in [0 .. L -> Registers]
  <2>1. ASSUME NEW i \in 0 .. L PROVE register[i] \in Registers
    <3>1. i \in P
      BY <1>1, <1>11
    <3>2. QED
      BY <1>1, <3>1
  <2>2. QED
    BY <1>10, <2>1
<1>13. QED
  BY <1>9, <1>10, <1>12 DEF Run

\* Runs over the same bytes have the same registers.
LEMMA RunsAgree ==
  ASSUME NEW b \in Seq(Byte), NEW c \in Seq(Byte),
         NEW r, Run(r, b), NEW s, Run(s, c),
         NEW k \in Nat, k <= Len(b), k <= Len(c),
         \A i \in 1 .. k : b[i] = c[i]
  PROVE  r[k] = s[k]
<1> DEFINE S == {n \in Nat : n <= k => r[n] = s[n]}
<1>1. S \in SUBSET Nat /\ 0 \in S
  BY DEF Run
<1>2. ASSUME NEW n \in S PROVE n + 1 \in S
  <2> SUFFICES ASSUME n + 1 <= k PROVE r[n + 1] = s[n + 1]
    OBVIOUS
  <2>1. /\ n + 1 \in 1 .. k /\ n + 1 \in 1 .. Len(b) /\ n + 1 \in 1 .. Len(c)
        /\ (n + 1) - 1 = n
    OBVIOUS
  <2>2. r[n] = s[n] /\ b[n + 1] = c[n + 1]
    BY <2>1
  <2>3. /\ r[n + 1] = Remainder(r[n], b[n + 1])
        /\ s[n + 1] = Remainder(s[n], c[n + 1])
    BY <2>1 DEF Run
  <2>4. QED
    BY <2>2, <2>3
<1> HIDE DEF S
<1>3. k \in S
  BY <1>1, <1>2, Induction
<1>4. QED
  BY <1>3 DEF S

\* Registers that differ stay different while the bytes are the same.
LEMMA RunsStayApart ==
  ASSUME NEW b \in Seq(Byte), NEW c \in Seq(Byte), Len(b) = Len(c),
         NEW r \in [0 .. Len(b) -> Registers], Run(r, b),
         NEW s \in [0 .. Len(b) -> Registers], Run(s, c),
         NEW k \in 0 .. Len(b), r[k] # s[k],
         \A i \in k + 1 .. Len(b) : b[i] = c[i]
  PROVE  r[Len(b)] # s[Len(b)]
<1> DEFINE S == {n \in Nat : k + n <= Len(b) => r[k + n] # s[k + n]}
<1>1. S \in SUBSET Nat /\ 0 \in S
  OBVIOUS
<1>2. ASSUME NEW n \in S PROVE n + 1 \in S
  <2> SUFFICES ASSUME k + (n + 1) <= Len(b), r[k + (n + 1)] = s[k + (n + 1)]
               PROVE  FALSE
    OBVIOUS
  <2> DEFINE j == k + n
  <2>1. /\ n \in Nat /\ j \in 0 .. Len(b) /\ j + 1 \in 1 .. Len(b)
        /\ j + 1 \in k + 1 .. Len(b) /\ (j + 1) - 1 = j /\ k + (n + 1) = j + 1
    OBVIOUS
  <2>2. r[j] # s[j]
    BY <2>1
  <2> HIDE DEF j
  <2>3. /\ r[j + 1] = Remainder(r[j], b[j + 1])
        /\ s[j + 1] = Remainder(s[j], c[j + 1])
    BY <2>1 DEF Run
  <2>4. /\ r[j] \in Registers /\ s[j] \in Registers
        /\ b[j + 1] \in Byte /\ b[j + 1] = c[j + 1]
    BY <2>1
  <2>5. Remainder(r[j], b[j + 1]) = Remainder(s[j], b[j + 1])
    BY <2>1, <2>3, <2>4
  <2>6. QED
    BY <2>2, <2>4, <2>5, RemainderForgetsNothing
<1>3. Len(b) - k \in Nat /\ k + (Len(b) - k) = Len(b)
  OBVIOUS
<1>4. Len(b) - k \in S
  <2> HIDE DEF S
  <2>1. QED
    BY <1>1, <1>2, <1>3, Induction
<1>5. QED
  BY <1>3, <1>4

\* The checksum notices every change of one byte.
LEMMA CrcNoticesByte ==
  ASSUME NEW b \in Seq(Byte), NEW c \in Seq(Byte), Len(b) = Len(c),
         NEW k \in 1 .. Len(b), b[k] # c[k],
         \A i \in 1 .. Len(b) : i # k => b[i] = c[i]
  PROVE  Crc(b) # Crc(c)
<1>1. PICK r \in [0 .. Len(b) -> Registers] : Run(r, b) /\ Crc(b) = r[Len(b)]
  BY CrcRuns
<1>2. PICK s \in [0 .. Len(b) -> Registers] : Run(s, c) /\ Crc(c) = s[Len(b)]
  BY CrcRuns
<1>3. r[k - 1] = s[k - 1]
  <2>1. /\ k - 1 \in Nat /\ k - 1 <= Len(b) /\ k - 1 <= Len(c)
        /\ \A i \in 1 .. k - 1 : b[i] = c[i]
    OBVIOUS
  <2>2. QED
    BY <1>1, <1>2, <2>1, RunsAgree
<1>4. /\ r[k - 1] \in Registers /\ s[k - 1] \in Registers
      /\ b[k] \in Byte /\ c[k] \in Byte
  OBVIOUS
<1>5. r[k] = Remainder(r[k - 1], b[k]) /\ s[k] = Remainder(s[k - 1], c[k])
  BY <1>1, <1>2 DEF Run
<1>6. Remainder(r[k - 1], b[k])[4] # Remainder(s[k - 1], c[k])[4]
  BY <1>3, <1>4, RemainderShifts
<1>7. r[k] # s[k]
  BY <1>5, <1>6
<1>8. k \in 0 .. Len(b) /\ \A i \in k + 1 .. Len(b) : b[i] = c[i]
  OBVIOUS
<1>9. QED
  BY <1>1, <1>2, <1>7, <1>8, RunsStayApart

\* The checksum notices every change of the first four bytes.
LEMMA CrcNoticesStart ==
  ASSUME NEW b \in Seq(Byte), NEW c \in Seq(Byte), Len(b) = Len(c), Len(b) >= 4,
         NEW k \in 1 .. 4, b[k] # c[k],
         \A i \in 5 .. Len(b) : b[i] = c[i]
  PROVE  Crc(b) # Crc(c)
<1>1. PICK r \in [0 .. Len(b) -> Registers] : Run(r, b) /\ Crc(b) = r[Len(b)]
  BY CrcRuns
<1>2. PICK s \in [0 .. Len(b) -> Registers] : Run(s, c) /\ Crc(c) = s[Len(b)]
  BY CrcRuns
<1>3. \A i \in 0 .. 4 : r[i] \in Registers /\ s[i] \in Registers
  OBVIOUS
<1>4. \A i \in 1 .. 4 : b[i] \in Byte /\ c[i] \in Byte
  OBVIOUS
<1>5. \A i \in 1 .. 4 : /\ r[i] = Remainder(r[i - 1], b[i])
                        /\ s[i] = Remainder(s[i - 1], c[i])
  BY <1>1, <1>2 DEF Run
<1>6. r[0] = s[0]
  BY <1>1, <1>2 DEF Run
<1>7. ASSUME NEW i \in 1 .. 4, r[i - 1][1] = s[i - 1][1]
      PROVE  /\ r[i][1] = s[i][1] <=> r[i - 1][2] = s[i - 1][2]
             /\ r[i][2] = s[i][2] <=> r[i - 1][3] = s[i - 1][3]
             /\ r[i][3] = s[i][3] <=> r[i - 1][4] = s[i - 1][4]
             /\ r[i][4] = s[i][4] <=> b[i] = c[i]
  <2>1. i - 1 \in 0 .. 4
    OBVIOUS
  <2>2. r[i - 1] \in Registers /\ s[i - 1] \in Registers /\ b[i] \in Byte /\ c[i] \in Byte
    BY <1>3, <1>4, <2>1
  <2> DEFINE x == r[i - 1]
             y == s[i - 1]
  <2>3. x \in Registers /\ y \in Registers /\ x[1] = y[1]
    BY <1>7, <2>2
  <2>4. r[i] = Remainder(x, b[i]) /\ s[i] = Remainder(y, c[i])
    BY <1>5
  <2> HIDE DEF x, y
  <2>5. /\ Remainder(x, b[i])[1] = Remainder(y, c[i])[1] <=> x[2] = y[2]
        /\ Remainder(x, b[i])[2] = Remainder(y, c[i])[2] <=> x[3] = y[3]
        /\ Remainder(x, b[i])[3] = Remainder(y, c[i])[3] <=> x[4] = y[4]
        /\ Remainder(x, b[i])[4] = Remainder(y, c[i])[4] <=> b[i] = c[i]
    BY <2>2, <2>3, RemainderShifts
  <2>6. QED
    BY <2>4, <2>5 DEF x, y
<1>8. /\ r[1][1] = s[1][1] /\ r[1][2] = s[1][2] /\ r[1][3] = s[1][3]
      /\ r[1][4] = s[1][4] <=> b[1] = c[1]
  BY <1>6, <1>7
<1>9. /\ r[2][1] = s[2][1] /\ r[2][2] = s[2][2]
      /\ r[2][3] = s[2][3] <=> b[1] = c[1]
      /\ r[2][4] = s[2][4] <=> b[2] = c[2]
  BY <1>7, <1>8
<1>10. /\ r[3][1] = s[3][1]
       /\ r[3][2] = s[3][2] <=> b[1] = c[1]
       /\ r[3][3] = s[3][3] <=> b[2] = c[2]
       /\ r[3][4] = s[3][4] <=> b[3] = c[3]
  BY <1>7, <1>9
<1>11. /\ r[4][1] = s[4][1] <=> b[1] = c[1]
       /\ r[4][2] = s[4][2] <=> b[2] = c[2]
       /\ r[4][3] = s[4][3] <=> b[3] = c[3]
       /\ r[4][4] = s[4][4] <=> b[4] = c[4]
  BY <1>7, <1>10
<1>12. k = 1 \/ k = 2 \/ k = 3 \/ k = 4
  OBVIOUS
<1>13. r[4] # s[4]
  BY <1>11, <1>12
<1>14. 4 \in 0 .. Len(b) /\ \A i \in 4 + 1 .. Len(b) : b[i] = c[i]
  OBVIOUS
<1>15. QED
  BY <1>1, <1>2, <1>13, <1>14, RunsStayApart

-----------------------------------------------------------------------------
(***************************************************************************)
(* The layout of a packet.                                                 *)
(***************************************************************************)

\* Lists with the same items are the same.
LEMMA SameItems ==
  ASSUME NEW n, NEW a \in Seq(Byte), NEW b \in Seq(Byte), Len(a) = n, Len(b) = n,
         \A i \in 1 .. n : a[i] = b[i]
  PROVE  a = b
OBVIOUS

\* The position of a type in PacketTypes, which is its number.
TypeNumber(kind) == CHOOSE n \in 1 .. 5 : PacketTypes[n] = kind

\* Every type of packet has a number, and that number is its byte.
LEMMA TypeNumbers ==
  ASSUME NEW kind \in ToSet(PacketTypes)
  PROVE  /\ TypeNumber(kind) \in 1 .. 5
         /\ TypeNumber(kind) \in Byte
         /\ PacketTypes[TypeNumber(kind)] = kind
         /\ TypeByte(kind) = Bytes(TypeNumber(kind), 1)
<1>1. \E n \in 1 .. 5 : PacketTypes[n] = kind
  BY DEF ToSet, PacketTypes
<1>2. /\ TypeNumber(kind) \in 1 .. 5
      /\ PacketTypes[TypeNumber(kind)] = kind
  BY <1>1 DEF TypeNumber
<1>3. TypeNumber(kind) \in Byte
  BY <1>2, CodecAssumption DEF Byte
<1>4. QED
  BY <1>2, <1>3 DEF TypeByte, TypeNumber

\* The fields of a packet are integers of their width.
LEMMA CodecPacketFields ==
  ASSUME NEW p \in CodecPacket
  PROVE  /\ p.kind \in ToSet(PacketTypes)
         /\ p.kind \in {"ConnectionRequest", "ConnectionAccepted", "DataTransfer",
                        "Fragment", "Heartbeat"}
         /\ p.sequence \in U32 /\ p.sequence \in Nat /\ p.sequence # 0
         /\ p.ack \in U32 /\ p.ack \in Nat
         /\ p.index \in Byte /\ p.index \in Nat
         /\ p.total \in Byte /\ p.total \in Nat
         /\ p.id \in U16 /\ p.id \in Nat
         /\ p.payload \in Seq(Byte)
         /\ p.kind = "ConnectionRequest" <=> p.id = 0
         /\ p.kind # "Fragment" => p.index = 0 /\ p.total = 0
         /\ p.kind \notin {"DataTransfer", "Fragment"} => p.payload = <<>>
         /\ p = [kind |-> p.kind, sequence |-> p.sequence, ack |-> p.ack,
                 index |-> p.index, total |-> p.total, id |-> p.id,
                 payload |-> p.payload]
<1>1. p \in [kind : ToSet(PacketTypes), sequence : U32 \ {0}, ack : U32,
             index : Byte, total : Byte, id : U16, payload : Seq(Byte)]
  BY DEF CodecPacket
<1>2. /\ p.kind = "ConnectionRequest" <=> p.id = 0
      /\ p.kind # "Fragment" => p.index = 0 /\ p.total = 0
      /\ p.kind \notin {"DataTransfer", "Fragment"} => p.payload = <<>>
  BY DEF CodecPacket
<1>3. Byte \subseteq Nat /\ U16 \subseteq Nat /\ U32 \subseteq Nat
  BY DEF Byte, U16, U32
<1>4. p.kind \in {"ConnectionRequest", "ConnectionAccepted", "DataTransfer",
                  "Fragment", "Heartbeat"}
  BY <1>1 DEF ToSet, PacketTypes
<1>5. QED
  BY <1>1, <1>2, <1>3, <1>4

\* Where the fields of each message are.
LEMMA EncodedLayout ==
  ASSUME NEW p \in CodecPacket
  PROVE  LET e == Encoded(p)
             n == Len(p.payload)
         IN  /\ e \in Seq(Byte)
             /\ e[1] = Bytes(TypeNumber(p.kind), 1)[1]
             /\ p.kind = "ConnectionRequest" => Len(e) = 1
             /\ p.kind \in {"ConnectionAccepted", "Heartbeat", "DataTransfer"} =>
                  /\ Len(e) = 3 + n
                  /\ \A i \in 1 .. 2 : e[1 + i] = Bytes(p.id, 2)[i]
                  /\ \A i \in 1 .. n : e[3 + i] = p.payload[i]
             /\ p.kind = "Fragment" =>
                  /\ Len(e) = 5 + n
                  /\ e[2] = Bytes(p.index, 1)[1]
                  /\ e[3] = Bytes(p.total, 1)[1]
                  /\ \A i \in 1 .. 2 : e[3 + i] = Bytes(p.id, 2)[i]
                  /\ \A i \in 1 .. n : e[5 + i] = p.payload[i]
<1> DEFINE e == Encoded(p)
           n == Len(p.payload)
           t == Bytes(TypeNumber(p.kind), 1)
           id == Bytes(p.id, 2)
           x == Bytes(p.index, 1)
           y == Bytes(p.total, 1)
<1>1. /\ t \in Seq(Byte) /\ Len(t) = 1
      /\ id \in Seq(Byte) /\ Len(id) = 2
      /\ x \in Seq(Byte) /\ Len(x) = 1
      /\ y \in Seq(Byte) /\ Len(y) = 1
  <2>1. TypeNumber(p.kind) \in Nat
    BY CodecPacketFields, TypeNumbers
  <2>2. QED
    BY <2>1, CodecPacketFields, BytesType
<1>2. TypeByte(p.kind) = t
  BY CodecPacketFields, TypeNumbers
<1>3. p.payload \in Seq(Byte) /\ n \in Nat
  BY CodecPacketFields
<1>4. CASE p.kind = "ConnectionRequest"
  <2>1. e = t
    BY <1>2, <1>4 DEF Encoded
  <2>2. QED
    BY <1>1, <1>4, <2>1
<1>5. CASE p.kind \in {"ConnectionAccepted", "Heartbeat"}
  <2>1. e = t \o id
    BY <1>2, <1>5 DEF Encoded
  <2>2. p.payload = <<>> /\ n = 0
    BY <1>5, CodecPacketFields
  <2> HIDE DEF e, t, id, n
  <2>3. /\ e \in Seq(Byte) /\ Len(e) = 3 /\ e[1] = t[1]
        /\ \A i \in 1 .. 2 : e[1 + i] = id[i]
    <3>0. t \in Seq(Byte) /\ id \in Seq(Byte)
      BY <1>1, <2>1
    <3>1. e \in Seq(Byte) /\ Len(e) = Len(t) + Len(id)
      BY <3>0, <2>1
    <3>2. \A i \in 1 .. Len(t) : e[i] = t[i]
      BY <3>0, <2>1
    <3>3. \A i \in 1 .. Len(id) : e[Len(t) + i] = id[i]
      BY <3>0, <2>1
    <3>4. QED
      BY <1>1, <3>1, <3>2, <3>3
  <2>4. QED
    BY <1>5, <2>2, <2>3 DEF e, t, id, n
<1>6. CASE p.kind = "DataTransfer"
  <2>1. e = (t \o id) \o p.payload
    BY <1>2, <1>6 DEF Encoded
  <2> DEFINE h == t \o id
  <2>0. h = t \o id
    OBVIOUS
  <2> HIDE DEF e, t, id, n, h
  <2>2. /\ h \in Seq(Byte) /\ Len(h) = 3 /\ h[1] = t[1]
        /\ \A i \in 1 .. 2 : h[1 + i] = id[i]
    <3>0. t \in Seq(Byte) /\ id \in Seq(Byte)
      BY <1>1, <2>0
    <3>1. h \in Seq(Byte) /\ Len(h) = Len(t) + Len(id)
      BY <3>0, <2>0
    <3>2. \A i \in 1 .. Len(t) : h[i] = t[i]
      BY <3>0, <2>0
    <3>3. \A i \in 1 .. Len(id) : h[Len(t) + i] = id[i]
      BY <3>0, <2>0
    <3>4. QED
      BY <1>1, <3>1, <3>2, <3>3
  <2>3. e = h \o p.payload
    BY <2>1 DEF h
  <2>4. /\ e \in Seq(Byte) /\ Len(e) = 3 + n
        /\ \A i \in 1 .. 3 : e[i] = h[i]
        /\ \A i \in 1 .. n : e[3 + i] = p.payload[i]
    <3>0. h \in Seq(Byte) /\ p.payload \in Seq(Byte)
      BY <1>3, <2>2, <2>3
    <3>1. e \in Seq(Byte) /\ Len(e) = Len(h) + Len(p.payload)
      BY <3>0, <2>3
    <3>2. \A i \in 1 .. Len(h) : e[i] = h[i]
      BY <3>0, <2>3
    <3>3. \A i \in 1 .. Len(p.payload) : e[Len(h) + i] = p.payload[i]
      BY <3>0, <2>3
    <3>4. QED
      BY <1>3, <2>2, <3>1, <3>2, <3>3 DEF n
  <2>5. \A i \in 1 .. 2 : e[1 + i] = id[i]
    BY <2>2, <2>4
  <2>6. e[1] = t[1]
    BY <2>2, <2>4
  <2>7. QED
    BY <1>6, <2>4, <2>5, <2>6 DEF e, t, id, n
<1>7. CASE p.kind = "Fragment"
  <2>1. e = (((t \o x) \o y) \o id) \o p.payload
    BY <1>2, <1>7 DEF Encoded
  <2> DEFINE h == t \o x
             j == h \o y
             k == j \o id
  <2>0. h = t \o x /\ j = h \o y /\ k = j \o id
    OBVIOUS
  <2> HIDE DEF e, t, x, y, id, n, h, j, k
  <2>2. /\ h \in Seq(Byte) /\ Len(h) = 2 /\ h[1] = t[1] /\ h[2] = x[1]
    <3>0. t \in Seq(Byte) /\ x \in Seq(Byte)
      BY <1>1, <2>0
    <3>1. h \in Seq(Byte) /\ Len(h) = Len(t) + Len(x)
      BY <3>0, <2>0
    <3>2. \A i \in 1 .. Len(t) : h[i] = t[i]
      BY <3>0, <2>0
    <3>3. \A i \in 1 .. Len(x) : h[Len(t) + i] = x[i]
      BY <3>0, <2>0
    <3>4. h[1] = t[1] /\ h[1 + 1] = x[1]
      BY <1>1, <3>2, <3>3
    <3>5. QED
      BY <1>1, <3>1, <3>4
  <2>3. e = k \o p.payload
    BY <2>1 DEF h, j, k
  <2>4. /\ j \in Seq(Byte) /\ Len(j) = 3 /\ j[3] = y[1]
        /\ j[1] = h[1] /\ j[2] = h[2]
    BY <1>1, <2>0, <2>2
  <2>5. /\ k \in Seq(Byte) /\ Len(k) = 5
        /\ k[1] = j[1] /\ k[2] = j[2] /\ k[3] = j[3]
        /\ k[4] = id[1] /\ k[5] = id[2]
    <3>1. /\ k \in Seq(Byte) /\ Len(k) = 5
          /\ \A i \in 1 .. 3 : k[i] = j[i]
          /\ \A i \in 1 .. 2 : k[3 + i] = id[i]
      <4>1. /\ k \in Seq(Byte) /\ Len(k) = Len(j) + Len(id)
            /\ \A i \in 1 .. Len(j) : k[i] = j[i]
            /\ \A i \in 1 .. Len(id) : k[Len(j) + i] = id[i]
        BY <1>1, <2>0, <2>4
      <4>2. QED
        BY <1>1, <2>4, <4>1
    <3>2. k[3 + 1] = id[1] /\ k[3 + 2] = id[2]
      BY <3>1
    <3>3. QED
      BY <3>1, <3>2
  <2>6. /\ e \in Seq(Byte) /\ Len(e) = 5 + n
        /\ \A i \in 1 .. 5 : e[i] = k[i]
        /\ \A i \in 1 .. n : e[5 + i] = p.payload[i]
    <3>0. k \in Seq(Byte) /\ p.payload \in Seq(Byte)
      BY <1>3, <2>3, <2>5
    <3>1. e \in Seq(Byte) /\ Len(e) = Len(k) + Len(p.payload)
      BY <3>0, <2>3
    <3>2. \A i \in 1 .. Len(k) : e[i] = k[i]
      BY <3>0, <2>3
    <3>3. \A i \in 1 .. Len(p.payload) : e[Len(k) + i] = p.payload[i]
      BY <3>0, <2>3
    <3>4. QED
      BY <1>3, <2>5, <3>1, <3>2, <3>3 DEF n
  <2>7. /\ e[1] = t[1] /\ e[2] = x[1] /\ e[3] = y[1]
        /\ e[4] = id[1] /\ e[5] = id[2]
    BY <2>2, <2>4, <2>5, <2>6
  <2>8. \A i \in 1 .. 2 : e[3 + i] = id[i]
    BY <2>7
  <2>9. QED
    BY <1>7, <2>6, <2>7, <2>8 DEF e, t, x, y, id, n
<1>8. QED
  BY <1>4, <1>5, <1>6, <1>7, CodecPacketFields

\* A packet without its checksum.
Body(p) == Bytes(p.sequence, 4) \o Bytes(p.ack, 4) \o Encoded(p)

\* What the checksum is taken of, and what a receiver reads.
Buffer(id, p) == Bytes(id, 4) \o Body(p)

\* How long the encoding of a packet is, and where each of its fields stands.
LEMMA BodyLayout ==
  ASSUME NEW p \in CodecPacket
  PROVE  LET b == Body(p)
             e == Encoded(p)
         IN  /\ b \in Seq(Byte)
             /\ e \in Seq(Byte)
             /\ Len(b) = 8 + Len(e)
             /\ Len(e) >= 1
             /\ \A i \in 1 .. 4 : b[i] = Bytes(p.sequence, 4)[i]
             /\ \A i \in 1 .. 4 : b[4 + i] = Bytes(p.ack, 4)[i]
             /\ \A i \in 1 .. Len(e) : b[8 + i] = e[i]
<1> DEFINE b == Body(p)
           e == Encoded(p)
           m == Bytes(p.sequence, 4)
           n == Bytes(p.ack, 4)
           h == m \o n
<1>1. h = m \o n /\ b = h \o e
  BY DEF Body
<1>2. m \in Seq(Byte) /\ Len(m) = 4 /\ n \in Seq(Byte) /\ Len(n) = 4
  BY CodecPacketFields, BytesType
<1>3. e \in Seq(Byte) /\ Len(e) >= 1
  <2>1. Len(p.payload) \in Nat
    BY CodecPacketFields
  <2>2. QED
    BY <2>1, CodecPacketFields, EncodedLayout
<1> HIDE DEF b, e, m, n, h
<1>4. m \in Seq(Byte) /\ n \in Seq(Byte) /\ e \in Seq(Byte)
  BY <1>2, <1>3
<1>5. /\ h \in Seq(Byte) /\ Len(h) = Len(m) + Len(n)
      /\ \A i \in 1 .. Len(m) : h[i] = m[i]
      /\ \A i \in 1 .. Len(n) : h[Len(m) + i] = n[i]
  BY <1>1, <1>4
<1>6. /\ h \in Seq(Byte) /\ Len(h) = 8
      /\ \A i \in 1 .. 4 : h[i] = m[i]
      /\ \A i \in 1 .. 4 : h[4 + i] = n[i]
  BY <1>2, <1>5
<1>7. /\ b \in Seq(Byte) /\ Len(b) = Len(h) + Len(e)
      /\ \A i \in 1 .. Len(h) : b[i] = h[i]
      /\ \A i \in 1 .. Len(e) : b[Len(h) + i] = e[i]
  <2>1. h \in Seq(Byte)
    BY <1>6
  <2>2. QED
    BY <1>1, <1>4, <2>1
<1>8. \A i \in 1 .. 4 : b[i] = m[i]
  BY <1>6, <1>7
<1>9. \A i \in 1 .. 4 : b[4 + i] = n[i]
  BY <1>6, <1>7
<1>10. QED
  BY <1>3, <1>6, <1>7, <1>8, <1>9 DEF b, e, m, n

\* The protocol id takes the first four bytes; the encoding follows.
LEMMA BufferLayout ==
  ASSUME NEW id \in U32, NEW p \in CodecPacket
  PROVE  LET q == Buffer(id, p)
             e == Encoded(p)
         IN  /\ q \in Seq(Byte)
             /\ Len(q) = 12 + Len(e)
             /\ \A i \in 1 .. 4 : q[i] = Bytes(id, 4)[i]
             /\ \A i \in 1 .. 4 : q[4 + i] = Bytes(p.sequence, 4)[i]
             /\ \A i \in 1 .. 4 : q[8 + i] = Bytes(p.ack, 4)[i]
             /\ \A i \in 1 .. Len(e) : q[12 + i] = e[i]
             /\ \A i \in 1 .. Len(Body(p)) : q[4 + i] = Body(p)[i]
<1> DEFINE q == Buffer(id, p)
           b == Body(p)
           e == Encoded(p)
           h == Bytes(id, 4)
<1>1. q = h \o b
  BY DEF Buffer
<1>2. h \in Seq(Byte) /\ Len(h) = 4
  BY BytesType DEF U32
<1>3. /\ b \in Seq(Byte) /\ e \in Seq(Byte) /\ Len(b) = 8 + Len(e)
      /\ \A i \in 1 .. 4 : b[i] = Bytes(p.sequence, 4)[i]
      /\ \A i \in 1 .. 4 : b[4 + i] = Bytes(p.ack, 4)[i]
      /\ \A i \in 1 .. Len(e) : b[8 + i] = e[i]
  BY BodyLayout
<1> HIDE DEF q, b, e, h
<1>4. h \in Seq(Byte) /\ b \in Seq(Byte)
  BY <1>2, <1>3
<1>5. /\ q \in Seq(Byte) /\ Len(q) = Len(h) + Len(b)
      /\ \A i \in 1 .. Len(h) : q[i] = h[i]
      /\ \A i \in 1 .. Len(b) : q[Len(h) + i] = b[i]
  BY <1>1, <1>4
<1>6. Len(e) \in Nat
  BY <1>3
<1>7. /\ \A i \in 1 .. 4 : q[i] = h[i]
      /\ \A i \in 1 .. Len(b) : q[4 + i] = b[i]
      /\ Len(q) = 12 + Len(e)
  BY <1>2, <1>3, <1>5, <1>6
<1>8. \A i \in 1 .. 4 : q[4 + i] = Bytes(p.sequence, 4)[i]
  BY <1>3, <1>6, <1>7
<1>9. \A i \in 1 .. 4 : q[8 + i] = Bytes(p.ack, 4)[i]
  <2>1. ASSUME NEW i \in 1 .. 4 PROVE q[8 + i] = Bytes(p.ack, 4)[i]
    <3>1. 4 + i \in 1 .. Len(b) /\ 8 + i = 4 + (4 + i)
      BY <1>3, <1>6
    <3>2. QED
      BY <1>3, <1>7, <3>1
  <2>2. QED
    BY <2>1
<1>10. \A i \in 1 .. Len(e) : q[12 + i] = e[i]
  <2>1. ASSUME NEW i \in 1 .. Len(e) PROVE q[12 + i] = e[i]
    <3>1. 8 + i \in 1 .. Len(b) /\ 12 + i = 4 + (8 + i)
      BY <1>3, <1>6
    <3>2. QED
      BY <1>3, <1>7, <3>1
  <2>2. QED
    BY <2>1
<1>11. QED
  BY <1>5, <1>7, <1>8, <1>9, <1>10 DEF q, b, e, h

\* An integer is read from where its bytes are.
LEMMA ReadInteger ==
  ASSUME NEW q \in Seq(Byte), NEW at \in Nat, NEW width \in {1, 2, 4},
         NEW n \in Nat, at + width <= Len(q),
         \A i \in 1 .. width : q[at + i] = Bytes(n, width)[i]
  PROVE  Read(q, at, width) = Number(Bytes(n, width))
<1> DEFINE b == Bytes(n, width)
           c == SubSeq(q, at + 1, at + width)
<1>1. b \in Seq(Byte) /\ Len(b) = width
  BY BytesType
<1>2. /\ c \in Seq(Byte) /\ Len(c) = width
      /\ \A i \in 1 .. width : c[i] = q[at + i]
  OBVIOUS
<1>3. \A i \in 1 .. width : b[i] = q[at + i]
  OBVIOUS
<1> HIDE DEF b, c
<1>4. c = b
  <2>1. DOMAIN b = 1 .. width /\ DOMAIN c = 1 .. width
    BY <1>1, <1>2
  <2>2. QED
    BY <1>1, <1>2, <1>3, <2>1
<1>5. QED
  BY <1>4 DEF Read, b, c

\* The payload is what follows the fields.
LEMMA ReadRest ==
  ASSUME NEW q \in Seq(Byte), NEW at \in Nat, NEW b \in Seq(Byte),
         Len(q) = at + Len(b), \A i \in 1 .. Len(b) : q[at + i] = b[i]
  PROVE  Rest(q, at) = b
<1> DEFINE c == SubSeq(q, at + 1, Len(q))
<1>1. /\ c \in Seq(Byte) /\ Len(c) = Len(b)
      /\ \A i \in 1 .. Len(b) : c[i] = q[at + i]
  OBVIOUS
<1> HIDE DEF c
<1>2. DOMAIN b = 1 .. Len(b) /\ DOMAIN c = 1 .. Len(b)
  BY <1>1
<1>3. c = b
  BY <1>1, <1>2
<1>4. QED
  BY <1>3 DEF Rest, c

\* The header all types share.
LEMMA ReadHeader ==
  ASSUME NEW p \in CodecPacket
  PROVE  LET q == Buffer(ProtocolId, p)
         IN  /\ q \in Seq(Byte)
             /\ Read(q, 0, 4) = ProtocolId
             /\ Read(q, 4, 4) = p.sequence
             /\ Read(q, 8, 4) = p.ack
             /\ Read(q, 12, 1) = TypeNumber(p.kind)
<1> DEFINE q == Buffer(ProtocolId, p)
           e == Encoded(p)
           t == TypeNumber(p.kind)
<1>1. ProtocolId \in U32 /\ ProtocolId \in Nat
  BY CodecAssumption DEF U32
<1>2. /\ q \in Seq(Byte)
      /\ Len(q) = 12 + Len(e)
      /\ \A i \in 1 .. 4 : q[i] = Bytes(ProtocolId, 4)[i]
      /\ \A i \in 1 .. 4 : q[4 + i] = Bytes(p.sequence, 4)[i]
      /\ \A i \in 1 .. 4 : q[8 + i] = Bytes(p.ack, 4)[i]
      /\ \A i \in 1 .. Len(e) : q[12 + i] = e[i]
  BY <1>1, BufferLayout
<1>3. Len(e) \in Nat /\ Len(e) >= 1 /\ e[1] = Bytes(t, 1)[1]
  <2>1. e \in Seq(Byte) /\ Len(e) >= 1
    BY BodyLayout
  <2>2. e[1] = Bytes(t, 1)[1]
    BY EncodedLayout
  <2>3. QED
    BY <2>1, <2>2
<1>4. t \in Byte /\ t \in Nat
  BY CodecPacketFields, TypeNumbers
<1>5. /\ p.sequence \in U32 /\ p.sequence \in Nat
      /\ p.ack \in U32 /\ p.ack \in Nat
  BY CodecPacketFields
<1> HIDE DEF q, e, t
<1>6. Read(q, 0, 4) = ProtocolId
  <2>1. \A i \in 1 .. 4 : q[0 + i] = Bytes(ProtocolId, 4)[i]
    BY <1>2
  <2>2. Read(q, 0, 4) = Number(Bytes(ProtocolId, 4))
    <3>1. 0 \in Nat /\ 4 \in {1, 2, 4} /\ 0 + 4 <= Len(q)
      BY <1>2, <1>3
    <3>2. q \in Seq(Byte) /\ ProtocolId \in Nat
      BY <1>1, <1>2
    <3>3. QED
      BY <2>1, <3>1, <3>2, ReadInteger
  <2>3. QED
    BY <1>1, <2>2, NumberOfBytes
<1>7. Read(q, 4, 4) = p.sequence
  <2>1. Read(q, 4, 4) = Number(Bytes(p.sequence, 4))
    <3>1. 4 \in Nat /\ 4 \in {1, 2, 4} /\ 4 + 4 <= Len(q)
      BY <1>2, <1>3
    <3>2. q \in Seq(Byte) /\ p.sequence \in Nat
      BY <1>2, <1>5
    <3>3. \A i \in 1 .. 4 : q[4 + i] = Bytes(p.sequence, 4)[i]
      BY <1>2
    <3>4. QED
      BY <3>1, <3>2, <3>3, ReadInteger
  <2>2. QED
    BY <1>5, <2>1, NumberOfBytes
<1>8. Read(q, 8, 4) = p.ack
  <2>1. Read(q, 8, 4) = Number(Bytes(p.ack, 4))
    <3>1. 8 \in Nat /\ 4 \in {1, 2, 4} /\ 8 + 4 <= Len(q)
      BY <1>2, <1>3
    <3>2. q \in Seq(Byte) /\ p.ack \in Nat
      BY <1>2, <1>5
    <3>3. \A i \in 1 .. 4 : q[8 + i] = Bytes(p.ack, 4)[i]
      BY <1>2
    <3>4. QED
      BY <3>1, <3>2, <3>3, ReadInteger
  <2>2. QED
    BY <1>5, <2>1, NumberOfBytes
<1>9. Read(q, 12, 1) = t
  <2>1. \A i \in 1 .. 1 : q[12 + i] = Bytes(t, 1)[i]
    BY <1>2, <1>3
  <2>2. Read(q, 12, 1) = Number(Bytes(t, 1))
    <3>1. 12 \in Nat /\ 1 \in {1, 2, 4} /\ 12 + 1 <= Len(q)
      BY <1>2, <1>3
    <3>2. q \in Seq(Byte) /\ t \in Nat
      BY <1>2, <1>4
    <3>3. QED
      BY <2>1, <3>1, <3>2, ReadInteger
  <2>3. QED
    BY <1>4, <2>2, NumberOfBytes
<1>10. QED
  BY <1>2, <1>6, <1>7, <1>8, <1>9 DEF q, t

\* The fields of a message are read from where its encoder put them.
LEMMA ReadMessage ==
  ASSUME NEW p \in CodecPacket
  PROVE  LET q == Buffer(ProtocolId, p)
         IN  /\ p.kind \in {"ConnectionAccepted", "Heartbeat", "DataTransfer"} =>
                  /\ Read(q, 13, 2) = p.id
                  /\ Rest(q, 15) = p.payload
             /\ p.kind = "Fragment" =>
                  /\ ReadPart(q) = <<p.index, p.total>>
                  /\ Read(q, 15, 2) = p.id
                  /\ Rest(q, 17) = p.payload
<1> DEFINE q == Buffer(ProtocolId, p)
           e == Encoded(p)
           n == Len(p.payload)
<1>1. /\ q \in Seq(Byte)
      /\ Len(q) = 12 + Len(e)
      /\ \A i \in 1 .. Len(e) : q[12 + i] = e[i]
  <2>1. ProtocolId \in U32
    BY CodecAssumption
  <2>2. QED
    BY <2>1, BufferLayout
<1>2. /\ p.id \in U16 /\ p.id \in Nat
      /\ p.index \in Byte /\ p.index \in Nat
      /\ p.total \in Byte /\ p.total \in Nat
      /\ p.payload \in Seq(Byte) /\ n \in Nat
  BY CodecPacketFields
<1>3. ASSUME p.kind \in {"ConnectionAccepted", "Heartbeat", "DataTransfer"}
      PROVE  Read(q, 13, 2) = p.id /\ Rest(q, 15) = p.payload
  <2>1. /\ Len(e) = 3 + n
        /\ \A i \in 1 .. 2 : e[1 + i] = Bytes(p.id, 2)[i]
        /\ \A i \in 1 .. n : e[3 + i] = p.payload[i]
    BY <1>3, EncodedLayout
  <2> HIDE DEF q, e
  <2>2. ASSUME NEW i \in 1 .. 2 PROVE q[13 + i] = Bytes(p.id, 2)[i]
    <3>1. 1 + i \in 1 .. Len(e) /\ 13 + i = 12 + (1 + i)
      BY <1>2, <2>1
    <3>2. QED
      BY <1>1, <2>1, <3>1
  <2>3. ASSUME NEW i \in 1 .. n PROVE q[15 + i] = p.payload[i]
    <3>1. 3 + i \in 1 .. Len(e) /\ 15 + i = 12 + (3 + i)
      BY <1>2, <2>1
    <3>2. QED
      BY <1>1, <2>1, <3>1
  <2>4. Len(q) = 15 + n
    BY <1>1, <1>2, <2>1
  <2>5. Read(q, 13, 2) = Number(Bytes(p.id, 2))
    <3>1. 13 \in Nat /\ 2 \in {1, 2, 4} /\ 13 + 2 <= Len(q)
      BY <1>2, <2>4
    <3>2. q \in Seq(Byte) /\ p.id \in Nat
      BY <1>1, <1>2
    <3>3. \A i \in 1 .. 2 : q[13 + i] = Bytes(p.id, 2)[i]
      BY <2>2
    <3>4. QED
      BY <3>1, <3>2, <3>3, ReadInteger
  <2>6. Rest(q, 15) = p.payload
    <3>1. 15 \in Nat /\ q \in Seq(Byte) /\ p.payload \in Seq(Byte)
      BY <1>1, <1>2
    <3>2. /\ Len(q) = 15 + Len(p.payload)
          /\ \A i \in 1 .. Len(p.payload) : q[15 + i] = p.payload[i]
      BY <2>3, <2>4
    <3>3. QED
      BY <3>1, <3>2, ReadRest
  <2>7. QED
    BY <1>2, <2>5, <2>6, NumberOfBytes
<1>4. ASSUME p.kind = "Fragment"
      PROVE  /\ ReadPart(q) = <<p.index, p.total>>
             /\ Read(q, 15, 2) = p.id
             /\ Rest(q, 17) = p.payload
  <2>1. /\ Len(e) = 5 + n
        /\ e[2] = Bytes(p.index, 1)[1]
        /\ e[3] = Bytes(p.total, 1)[1]
        /\ \A i \in 1 .. 2 : e[3 + i] = Bytes(p.id, 2)[i]
        /\ \A i \in 1 .. n : e[5 + i] = p.payload[i]
    BY <1>4, EncodedLayout
  <2> HIDE DEF q, e
  <2>2. ASSUME NEW i \in 1 .. 2 PROVE q[15 + i] = Bytes(p.id, 2)[i]
    <3>1. 3 + i \in 1 .. Len(e) /\ 15 + i = 12 + (3 + i)
      BY <1>2, <2>1
    <3>2. QED
      BY <1>1, <2>1, <3>1
  <2>3. ASSUME NEW i \in 1 .. n PROVE q[17 + i] = p.payload[i]
    <3>1. 5 + i \in 1 .. Len(e) /\ 17 + i = 12 + (5 + i)
      BY <1>2, <2>1
    <3>2. QED
      BY <1>1, <2>1, <3>1
  <2>4. Len(q) = 17 + n
    BY <1>1, <1>2, <2>1
  <2>5. q[13 + 1] = Bytes(p.index, 1)[1] /\ q[14 + 1] = Bytes(p.total, 1)[1]
    <3>1. 2 \in 1 .. Len(e) /\ 3 \in 1 .. Len(e)
      BY <1>2, <2>1
    <3>2. q[12 + 2] = e[2] /\ q[12 + 3] = e[3]
      BY <1>1, <3>1
    <3>3. QED
      BY <2>1, <3>2
  <2>6. Read(q, 15, 2) = Number(Bytes(p.id, 2))
    <3>1. 15 \in Nat /\ 2 \in {1, 2, 4} /\ 15 + 2 <= Len(q)
      BY <1>2, <2>4
    <3>2. q \in Seq(Byte) /\ p.id \in Nat
      BY <1>1, <1>2
    <3>3. \A i \in 1 .. 2 : q[15 + i] = Bytes(p.id, 2)[i]
      BY <2>2
    <3>4. QED
      BY <3>1, <3>2, <3>3, ReadInteger
  <2>7. Rest(q, 17) = p.payload
    <3>1. 17 \in Nat /\ q \in Seq(Byte) /\ p.payload \in Seq(Byte)
      BY <1>1, <1>2
    <3>2. /\ Len(q) = 17 + Len(p.payload)
          /\ \A i \in 1 .. Len(p.payload) : q[17 + i] = p.payload[i]
      BY <2>3, <2>4
    <3>3. QED
      BY <3>1, <3>2, ReadRest
  <2>8. Read(q, 13, 1) = Number(Bytes(p.index, 1))
    <3>1. \A i \in 1 .. 1 : q[13 + i] = Bytes(p.index, 1)[i]
      BY <2>5
    <3>2. 13 \in Nat /\ 1 \in {1, 2, 4} /\ 13 + 1 <= Len(q)
      BY <1>2, <2>4
    <3>3. q \in Seq(Byte) /\ p.index \in Nat
      BY <1>1, <1>2
    <3>4. QED
      BY <3>1, <3>2, <3>3, ReadInteger
  <2>9. Read(q, 14, 1) = Number(Bytes(p.total, 1))
    <3>1. \A i \in 1 .. 1 : q[14 + i] = Bytes(p.total, 1)[i]
      BY <2>5
    <3>2. 14 \in Nat /\ 1 \in {1, 2, 4} /\ 14 + 1 <= Len(q)
      BY <1>2, <2>4
    <3>3. q \in Seq(Byte) /\ p.total \in Nat
      BY <1>1, <1>2
    <3>4. QED
      BY <3>1, <3>2, <3>3, ReadInteger
  <2>10. Read(q, 13, 1) = p.index /\ Read(q, 14, 1) = p.total
    BY <1>2, <2>8, <2>9, NumberOfBytes
  <2>11. QED
    BY <1>2, <2>6, <2>7, <2>10, NumberOfBytes DEF ReadPart
<1>5. QED
  BY <1>3, <1>4

\* A packet of this protocol is parsed to itself.
LEMMA ParsePacket ==
  ASSUME NEW p \in CodecPacket
  PROVE  Parse(Buffer(ProtocolId, p)) = Ok(p)
<1> DEFINE q == Buffer(ProtocolId, p)
           t == TypeNumber(p.kind)
           head == [kind |-> PacketTypes[t], sequence |-> p.sequence, ack |-> p.ack,
                    index |-> 0, total |-> 0, id |-> 0, payload |-> <<>>]
<1>1. /\ Read(q, 0, 4) = ProtocolId /\ Read(q, 4, 4) = p.sequence
      /\ Read(q, 8, 4) = p.ack /\ Read(q, 12, 1) = t
  BY ReadHeader
<1>2. t \in 1 .. 5 /\ PacketTypes[t] = p.kind
  BY CodecPacketFields, TypeNumbers
<1>3. /\ p.sequence # 0
      /\ p.kind = "ConnectionRequest" <=> p.id = 0
  BY CodecPacketFields
<1>4. CommonDecode(head, q) = p
  <2>1. p = [kind |-> p.kind, sequence |-> p.sequence, ack |-> p.ack,
             index |-> p.index, total |-> p.total, id |-> p.id,
             payload |-> p.payload]
    BY CodecPacketFields
  <2>2. /\ p.kind # "Fragment" => p.index = 0 /\ p.total = 0
        /\ p.kind \notin {"DataTransfer", "Fragment"} => p.payload = <<>>
    BY CodecPacketFields
  <2>3. head = [kind |-> p.kind, sequence |-> p.sequence, ack |-> p.ack,
                index |-> 0, total |-> 0, id |-> 0, payload |-> <<>>]
    BY <1>2
  <2> HIDE DEF q, head, t
  <2>4. CASE p.kind = "ConnectionRequest"
    <3>1. CommonDecode(head, q) = head
      BY <2>3, <2>4 DEF CommonDecode
    <3>2. QED
      BY <1>3, <2>1, <2>2, <2>3, <2>4, <3>1
  <2>5. CASE p.kind \in {"ConnectionAccepted", "Heartbeat"}
    <3>1. CommonDecode(head, q) = [head EXCEPT !.id = Read(q, 13, 2)]
      BY <2>3, <2>5 DEF CommonDecode
    <3>2. Read(q, 13, 2) = p.id
      BY <2>5, ReadMessage DEF q
    <3>3. QED
      BY <2>1, <2>2, <2>3, <2>5, <3>1, <3>2
  <2>6. CASE p.kind = "DataTransfer"
    <3>1. CommonDecode(head, q)
            = [head EXCEPT !.id = Read(q, 13, 2), !.payload = Rest(q, 15)]
      BY <2>3, <2>6 DEF CommonDecode
    <3>2. Read(q, 13, 2) = p.id /\ Rest(q, 15) = p.payload
      BY <2>6, ReadMessage DEF q
    <3>3. QED
      BY <2>1, <2>2, <2>3, <2>6, <3>1, <3>2
  <2>7. CASE p.kind = "Fragment"
    <3>1. CommonDecode(head, q)
            = [head EXCEPT !.index = ReadPart(q)[1], !.total = ReadPart(q)[2],
                           !.id = Read(q, 15, 2), !.payload = Rest(q, 17)]
      BY <2>3, <2>7 DEF CommonDecode
    <3>2. /\ ReadPart(q) = <<p.index, p.total>>
          /\ Read(q, 15, 2) = p.id /\ Rest(q, 17) = p.payload
      BY <2>7, ReadMessage DEF q
    <3>3. CommonDecode(head, q)
            = [head EXCEPT !.index = p.index, !.total = p.total,
                           !.id = p.id, !.payload = p.payload]
      <4>1. ReadPart(q)[1] = p.index /\ ReadPart(q)[2] = p.total
        BY <3>2
      <4>2. QED
        BY <3>1, <3>2, <4>1, ZenonT(30)
    <3>4. QED
      BY <2>1, <2>3, <3>3
  <2>8. QED
    BY <2>4, <2>5, <2>6, <2>7, CodecPacketFields
<1> HIDE DEF q, head, t
<1>5. CommonDecode([kind |-> PacketTypes[t], sequence |-> p.sequence, ack |-> p.ack,
                    index |-> 0, total |-> 0, id |-> 0, payload |-> <<>>], q) = p
  BY <1>4 DEF head
<1>6. QED
  BY <1>1, <1>2, <1>3, <1>5 DEF Parse, q

-----------------------------------------------------------------------------
(***************************************************************************)
(* The datagram, whole, foreign and spoiled.                               *)
(***************************************************************************)

\* A checksum is four bytes.
LEMMA CrcType ==
  ASSUME NEW bytes \in Seq(Byte)
  PROVE  Crc(bytes) \in Seq(Byte) /\ Len(Crc(bytes)) = 4
<1> DEFINE c == Crc(bytes)
<1>1. c \in Registers
  <2>1. PICK r \in [0 .. Len(bytes) -> Registers] : c = r[Len(bytes)]
    BY CrcRuns
  <2>2. Len(bytes) \in 0 .. Len(bytes)
    OBVIOUS
  <2> HIDE DEF c
  <2>3. QED
    BY <2>1, <2>2
<1> HIDE DEF c
<1>2. c = <<c[1], c[2], c[3], c[4]>> /\ \A i \in 1 .. 4 : c[i] \in Byte
  BY <1>1 DEF Registers
<1>3. ASSUME NEW x \in Byte, NEW y \in Byte, NEW z \in Byte, NEW w \in Byte
      PROVE  <<x, y, z, w>> \in Seq(Byte) /\ Len(<<x, y, z, w>>) = 4
  OBVIOUS
<1>4. c[1] \in Byte /\ c[2] \in Byte /\ c[3] \in Byte /\ c[4] \in Byte
  BY <1>2
<1>5. /\ <<c[1], c[2], c[3], c[4]>> \in Seq(Byte)
      /\ Len(<<c[1], c[2], c[3], c[4]>>) = 4
  BY <1>3, <1>4
<1>6. QED
  BY <1>2, <1>5, ZenonT(30) DEF c

\* Head and tail of a datagram.
Cut(d) == Len(d) - 4
BodyBytes(d) == SubSeq(d, 1, Cut(d))
CrcBytes(d) == SubSeq(d, Cut(d) + 1, Cut(d) + 4)

\* What is sent: the encoding, then the four bytes of its checksum.
LEMMA DatagramParts ==
  ASSUME NEW d \in Seq(Byte), Len(d) >= 4
  PROVE  /\ Cut(d) \in Nat
         /\ BodyBytes(d) \in Seq(Byte) /\ Len(BodyBytes(d)) = Cut(d)
         /\ \A i \in 1 .. Cut(d) : BodyBytes(d)[i] = d[i]
         /\ CrcBytes(d) \in Seq(Byte) /\ Len(CrcBytes(d)) = 4
         /\ \A i \in 1 .. 4 : CrcBytes(d)[i] = d[Cut(d) + i]
<1>1. Cut(d) \in Nat /\ Cut(d) + 4 = Len(d)
  BY DEF Cut
<1>2. /\ BodyBytes(d) \in Seq(Byte) /\ Len(BodyBytes(d)) = Cut(d)
      /\ \A i \in 1 .. Cut(d) : BodyBytes(d)[i] = d[i]
  BY <1>1 DEF BodyBytes
<1>3. /\ CrcBytes(d) \in Seq(Byte) /\ Len(CrcBytes(d)) = 4
      /\ \A i \in 1 .. 4 : CrcBytes(d)[i] = d[Cut(d) + i]
  <2> DEFINE n == Cut(d)
  <2>1. n \in Nat /\ n + 4 = Len(d)
    BY <1>1
  <2> HIDE DEF n
  <2>2. /\ SubSeq(d, n + 1, n + 4) \in Seq(Byte)
        /\ Len(SubSeq(d, n + 1, n + 4)) = 4
    BY <2>1
  <2>3. \A i \in 1 .. 4 : SubSeq(d, n + 1, n + 4)[i] = d[n + i]
    BY <2>1
  <2>4. QED
    BY <2>2, <2>3 DEF CrcBytes, n
<1>4. QED
  BY <1>1, <1>2, <1>3

\* The datagram of a packet is its body and its checksum.
LEMMA RawParts ==
  ASSUME NEW id \in {ProtocolId, OtherId}, NEW p \in CodecPacket
  PROVE  LET d == AsRaw(id, p)
         IN  /\ d \in Seq(Byte)
             /\ Len(d) = 12 + Len(Encoded(p))
             /\ Len(d) >= 4
             /\ BodyBytes(d) = Body(p)
             /\ CrcBytes(d) = Crc(Buffer(id, p))
<1> DEFINE d == AsRaw(id, p)
           b == Body(p)
           c == Crc(Buffer(id, p))
           n == Len(Encoded(p))
<1>1. d = b \o c
  BY DEF AsRaw, Body, Buffer, Checksum
<1>2. b \in Seq(Byte) /\ Len(b) = 8 + n /\ n \in Nat
  BY BodyLayout
<1>3. c \in Seq(Byte) /\ Len(c) = 4
  <2>1. id \in U32
    BY CodecAssumption
  <2>2. Buffer(id, p) \in Seq(Byte)
    BY <2>1, BufferLayout
  <2>3. QED
    BY <2>2, CrcType
<1> HIDE DEF d, b, c, n
<1>4. b \in Seq(Byte) /\ c \in Seq(Byte)
  BY <1>2, <1>3
<1>5. /\ d \in Seq(Byte) /\ Len(d) = Len(b) + Len(c)
      /\ \A i \in 1 .. Len(b) : d[i] = b[i]
      /\ \A i \in 1 .. Len(c) : d[Len(b) + i] = c[i]
  BY <1>1, <1>4
<1>6. Len(d) = 12 + n /\ Len(d) >= 4 /\ Cut(d) = Len(b)
  BY <1>2, <1>3, <1>5 DEF Cut
<1>7. /\ BodyBytes(d) \in Seq(Byte) /\ Len(BodyBytes(d)) = Len(b)
      /\ \A i \in 1 .. Len(b) : BodyBytes(d)[i] = b[i]
  BY <1>5, <1>6, DatagramParts
<1>8. /\ CrcBytes(d) \in Seq(Byte) /\ Len(CrcBytes(d)) = 4
      /\ \A i \in 1 .. 4 : CrcBytes(d)[i] = c[i]
  BY <1>3, <1>5, <1>6, DatagramParts
<1>9. BodyBytes(d) = b
  <2>1. DOMAIN b = 1 .. Len(b) /\ DOMAIN BodyBytes(d) = 1 .. Len(b)
    BY <1>4, <1>7
  <2>2. QED
    BY <1>4, <1>7, <2>1
<1>10. CrcBytes(d) = c
  <2>1. DOMAIN c = 1 .. 4 /\ DOMAIN CrcBytes(d) = 1 .. 4
    BY <1>3, <1>8
  <2>2. QED
    BY <1>3, <1>8, <2>1
<1>11. QED
  BY <1>5, <1>6, <1>9, <1>10 DEF d, b, c, n

\* decode looks at the front if the back is its checksum, and refuses otherwise.
LEMMA DecodeCases ==
  ASSUME NEW d
  PROVE  LET q == Bytes(ProtocolId, 4) \o BodyBytes(d)
         IN  /\ Crc(q) = CrcBytes(d) => InnerDecode(d) = Parse(q)
             /\ Crc(q) # CrcBytes(d) =>
                  InnerDecode(d) \in {Err("IntConversion"), Err("InvalidCrc32")}
<1>1. Checksum(ProtocolId, BodyBytes(d)) = Crc(Bytes(ProtocolId, 4) \o BodyBytes(d))
  BY DEF Checksum
<1>2. InnerDecode(d)
        = LET crc == Checksum(ProtocolId, BodyBytes(d))
          IN  IF crc = CrcBytes(d) THEN Parse(Bytes(ProtocolId, 4) \o BodyBytes(d))
              ELSE Err(IF Number(crc) = 0 THEN "IntConversion" ELSE "InvalidCrc32")
  BY DEF InnerDecode, BodyBytes, CrcBytes, Cut
<1>3. QED
  BY <1>1, <1>2

\* What arrives as this protocol's program sent it decodes to what was sent.
LEMMA DecodeOfRaw ==
  ASSUME NEW p \in CodecPacket
  PROVE  InnerDecode(AsRaw(ProtocolId, p)) = Ok(p)
<1> DEFINE d == AsRaw(ProtocolId, p)
<1>1. BodyBytes(d) = Body(p) /\ CrcBytes(d) = Crc(Buffer(ProtocolId, p))
  BY RawParts
<1>2. Bytes(ProtocolId, 4) \o BodyBytes(d) = Buffer(ProtocolId, p)
  BY <1>1 DEF Buffer
<1>3. InnerDecode(d) = Parse(Buffer(ProtocolId, p))
  BY <1>1, <1>2, DecodeCases
<1>4. QED
  BY <1>3, ParsePacket

\* A datagram of the other program is refused.
LEMMA DecodeOfForeign ==
  ASSUME NEW p \in CodecPacket
  PROVE  InnerDecode(AsRaw(OtherId, p)) \in {Err("IntConversion"), Err("InvalidCrc32")}
<1> DEFINE d == AsRaw(OtherId, p)
           q == Buffer(ProtocolId, p)
           o == Buffer(OtherId, p)
<1>0. /\ ProtocolId \in U32 /\ ProtocolId \in Nat
      /\ OtherId \in U32 /\ OtherId \in Nat
      /\ ProtocolId # OtherId
  BY CodecAssumption DEF U32
<1>1. BodyBytes(d) = Body(p) /\ CrcBytes(d) = Crc(o)
  BY RawParts
<1>2. Bytes(ProtocolId, 4) \o BodyBytes(d) = q
  BY <1>1 DEF Buffer
<1>3. PICK k \in 1 .. 4 : Bytes(ProtocolId, 4)[k] # Bytes(OtherId, 4)[k]
  <2> SUFFICES ASSUME \A k \in 1 .. 4 : Bytes(ProtocolId, 4)[k] = Bytes(OtherId, 4)[k]
               PROVE  FALSE
    OBVIOUS
  <2> DEFINE x == Bytes(ProtocolId, 4)
             y == Bytes(OtherId, 4)
  <2>1. x \in Seq(Byte) /\ Len(x) = 4 /\ y \in Seq(Byte) /\ Len(y) = 4
    BY <1>0, BytesType
  <2>2. Number(x) = ProtocolId /\ Number(y) = OtherId
    BY <1>0, NumberOfBytes
  <2>3. \A k \in 1 .. 4 : x[k] = y[k]
    OBVIOUS
  <2> HIDE DEF x, y
  <2>4. DOMAIN x = 1 .. 4 /\ DOMAIN y = 1 .. 4
    BY <2>1
  <2>5. x = y
    BY <2>1, <2>3, <2>4
  <2>6. QED
    BY <1>0, <2>2, <2>5
<1>4. /\ q \in Seq(Byte) /\ Len(q) = 12 + Len(Encoded(p))
      /\ \A i \in 1 .. 4 : q[i] = Bytes(ProtocolId, 4)[i]
      /\ \A i \in 1 .. Len(Body(p)) : q[4 + i] = Body(p)[i]
  BY <1>0, BufferLayout
<1>5. /\ o \in Seq(Byte) /\ Len(o) = 12 + Len(Encoded(p))
      /\ \A i \in 1 .. 4 : o[i] = Bytes(OtherId, 4)[i]
      /\ \A i \in 1 .. Len(Body(p)) : o[4 + i] = Body(p)[i]
  BY <1>0, BufferLayout
<1>6. Len(Body(p)) = 8 + Len(Encoded(p)) /\ Len(Encoded(p)) \in Nat
  BY BodyLayout
<1> HIDE DEF q, o, d
<1>7. q[k] # o[k]
  BY <1>3, <1>4, <1>5
<1>8. ASSUME NEW i \in 5 .. Len(q) PROVE q[i] = o[i]
  <2>1. i - 4 \in 1 .. Len(Body(p)) /\ 4 + (i - 4) = i
    BY <1>4, <1>6
  <2>2. QED
    BY <1>4, <1>5, <2>1
<1>9. Len(q) = Len(o) /\ Len(q) >= 4
  BY <1>4, <1>5, <1>6
<1>10. Crc(q) # Crc(o)
  BY <1>4, <1>5, <1>7, <1>8, <1>9, CrcNoticesStart
<1>11. QED
  BY <1>1, <1>2, <1>10, DecodeCases DEF d

\* A datagram with one byte changed is refused.
LEMMA DecodeOfSpoiled ==
  ASSUME NEW p \in CodecPacket, NEW k \in DOMAIN AsRaw(ProtocolId, p),
         NEW b \in Byte, b # AsRaw(ProtocolId, p)[k]
  PROVE  InnerDecode([AsRaw(ProtocolId, p) EXCEPT ![k] = b])
           \in {Err("IntConversion"), Err("InvalidCrc32")}
<1> DEFINE raw == AsRaw(ProtocolId, p)
           d == [raw EXCEPT ![k] = b]
           n == Len(Body(p))
           q == Bytes(ProtocolId, 4) \o BodyBytes(d)
           o == Buffer(ProtocolId, p)
<1>1. /\ raw \in Seq(Byte) /\ Len(raw) = n + 4 /\ Len(raw) >= 4 /\ n \in Nat
      /\ BodyBytes(raw) = Body(p) /\ CrcBytes(raw) = Crc(o)
  <2>1. Len(Body(p)) = 8 + Len(Encoded(p)) /\ Len(Encoded(p)) \in Nat
    BY BodyLayout
  <2>2. QED
    BY <2>1, RawParts
<1>2. o = Bytes(ProtocolId, 4) \o BodyBytes(raw)
  BY <1>1 DEF Buffer
<1> HIDE DEF o
<1>3. raw \in Seq(Byte) /\ k \in DOMAIN raw /\ b \in Byte /\ b # raw[k]
  BY <1>1
<1> HIDE DEF raw
<1>4. /\ d \in Seq(Byte) /\ Len(d) = n + 4 /\ k \in 1 .. n + 4
      /\ d[k] = b
      /\ \A i \in 1 .. n + 4 : i # k => d[i] = raw[i]
  <2>1. Len(d) = Len(raw) /\ DOMAIN raw = 1 .. n + 4
    BY <1>1, <1>3
  <2>2. d \in Seq(Byte)
    BY <1>3
  <2>3. QED
    BY <1>1, <1>3, <2>1, <2>2
<1> HIDE DEF d, n
<1>5. Cut(d) = n /\ Cut(raw) = n
  BY <1>1, <1>4 DEF Cut
<1>6. /\ BodyBytes(d) \in Seq(Byte) /\ Len(BodyBytes(d)) = n
      /\ \A i \in 1 .. n : BodyBytes(d)[i] = d[i]
      /\ CrcBytes(d) \in Seq(Byte) /\ Len(CrcBytes(d)) = 4
      /\ \A i \in 1 .. 4 : CrcBytes(d)[i] = d[n + i]
  <2>1. Len(d) >= 4
    BY <1>1, <1>4
  <2>2. QED
    BY <1>4, <1>5, <2>1, DatagramParts
<1>7. /\ BodyBytes(raw) \in Seq(Byte) /\ Len(BodyBytes(raw)) = n
      /\ \A i \in 1 .. n : BodyBytes(raw)[i] = raw[i]
      /\ CrcBytes(raw) \in Seq(Byte) /\ Len(CrcBytes(raw)) = 4
      /\ \A i \in 1 .. 4 : CrcBytes(raw)[i] = raw[n + i]
  <2>1. raw \in Seq(Byte) /\ Len(raw) >= 4
    BY <1>1
  <2>2. QED
    BY <1>5, <2>1, DatagramParts
<1>8. CASE k \in 1 .. n
  <2>1. CrcBytes(d) = CrcBytes(raw)
    <3>1. \A i \in 1 .. 4 : CrcBytes(d)[i] = CrcBytes(raw)[i]
      <4>1. ASSUME NEW i \in 1 .. 4 PROVE CrcBytes(d)[i] = CrcBytes(raw)[i]
        <5>1. n + i \in 1 .. n + 4 /\ n + i # k
          BY <1>1, <1>8
        <5>2. d[n + i] = raw[n + i]
          BY <1>4, <5>1
        <5>3. QED
          BY <1>6, <1>7, <5>2
      <4>2. QED
        BY <4>1
    <3>2. DOMAIN CrcBytes(d) = 1 .. 4 /\ DOMAIN CrcBytes(raw) = 1 .. 4
      BY <1>6, <1>7
    <3>3. CrcBytes(d) \in Seq(Byte) /\ CrcBytes(raw) \in Seq(Byte)
      BY <1>6, <1>7
    <3>4. QED
      BY <3>1, <3>2, <3>3
  <2> DEFINE h == Bytes(ProtocolId, 4)
  <2>2. h \in Seq(Byte) /\ Len(h) = 4
    <3>1. ProtocolId \in Nat
      BY CodecAssumption DEF U32
    <3>2. QED
      BY <3>1, BytesType
  <2>3. q = h \o BodyBytes(d) /\ o = h \o BodyBytes(raw)
    BY <1>2
  <2> HIDE DEF h, q
  <2>4. h \in Seq(Byte) /\ BodyBytes(d) \in Seq(Byte) /\ BodyBytes(raw) \in Seq(Byte)
    BY <1>6, <1>7, <2>2
  <2>5. /\ q \in Seq(Byte) /\ Len(q) = Len(h) + Len(BodyBytes(d))
        /\ \A i \in 1 .. Len(h) : q[i] = h[i]
        /\ \A i \in 1 .. Len(BodyBytes(d)) : q[Len(h) + i] = BodyBytes(d)[i]
    BY <2>3, <2>4
  <2>6. /\ o \in Seq(Byte) /\ Len(o) = Len(h) + Len(BodyBytes(raw))
        /\ \A i \in 1 .. Len(h) : o[i] = h[i]
        /\ \A i \in 1 .. Len(BodyBytes(raw)) : o[Len(h) + i] = BodyBytes(raw)[i]
    BY <2>3, <2>4
  <2>7. q[4 + k] = b /\ o[4 + k] = raw[k]
    BY <1>4, <1>6, <1>7, <1>8, <2>2, <2>5, <2>6
  <2>8. ASSUME NEW i \in 1 .. Len(q), i # 4 + k PROVE q[i] = o[i]
    <3>1. CASE i \in 1 .. 4
      BY <2>2, <2>5, <2>6, <3>1
    <3>2. CASE i \notin 1 .. 4
      <4>1. i - 4 \in 1 .. n /\ 4 + (i - 4) = i /\ i - 4 # k
        BY <1>1, <1>6, <2>2, <2>5, <2>8, <3>2
      <4>2. q[i] = d[i - 4] /\ o[i] = raw[i - 4]
        BY <1>6, <1>7, <2>2, <2>5, <2>6, <4>1
      <4>3. i - 4 \in 1 .. n + 4
        BY <1>1, <4>1
      <4>4. QED
        BY <1>4, <4>1, <4>2, <4>3
    <3>3. QED
      BY <3>1, <3>2
  <2>9. Len(q) = Len(o) /\ 4 + k \in 1 .. Len(q) /\ q[4 + k] # o[4 + k]
    BY <1>1, <1>3, <1>6, <1>7, <1>8, <2>2, <2>5, <2>6, <2>7
  <2>10. q \in Seq(Byte) /\ o \in Seq(Byte)
    BY <2>5, <2>6
  <2>11. Crc(q) # Crc(o)
    BY <2>8, <2>9, <2>10, CrcNoticesByte
  <2>12. Crc(q) # CrcBytes(d)
    BY <1>1, <2>1, <2>11
  <2>13. QED
    BY <2>12, DecodeCases DEF q, d, raw
<1>9. CASE k \notin 1 .. n
  <2>1. PICK j \in 1 .. 4 : k = n + j
    <3>1. k - n \in 1 .. 4 /\ k = n + (k - n)
      BY <1>1, <1>4, <1>9
    <3>2. QED
      BY <3>1
  <2>2. BodyBytes(d) = BodyBytes(raw)
    <3>1. \A i \in 1 .. n : BodyBytes(d)[i] = BodyBytes(raw)[i]
      <4>1. ASSUME NEW i \in 1 .. n PROVE BodyBytes(d)[i] = BodyBytes(raw)[i]
        <5>1. i \in 1 .. n + 4 /\ i # k
          BY <1>1, <1>9
        <5>2. d[i] = raw[i]
          BY <1>4, <5>1
        <5>3. QED
          BY <1>6, <1>7, <5>2
      <4>2. QED
        BY <4>1
    <3>2. /\ BodyBytes(d) \in Seq(Byte) /\ BodyBytes(raw) \in Seq(Byte)
          /\ Len(BodyBytes(d)) = n /\ Len(BodyBytes(raw)) = n
      BY <1>6, <1>7
    <3>3. QED
      BY <3>1, <3>2, SameItems
  <2>3. q = o
    BY <1>2, <2>2
  <2>4. CrcBytes(d)[j] = b /\ CrcBytes(raw)[j] = raw[k]
    BY <1>4, <1>6, <1>7, <2>1
  <2>5. CrcBytes(d) # CrcBytes(raw)
    BY <1>3, <2>4
  <2>6. Crc(q) # CrcBytes(d)
    BY <1>1, <2>3, <2>5
  <2>7. QED
    BY <2>6, DecodeCases DEF q, d, raw
<1>10. QED
  BY <1>8, <1>9

-----------------------------------------------------------------------------
(***************************************************************************)
(* The chunks of a payload.                                                *)
(***************************************************************************)

\* The header of a fragment is 17 bytes, and a chunk is not empty.
LEMMA ChunkSizeIs ==
  /\ ChunkSize(MaxFragmentSize) = MaxFragmentSize - 17
  /\ ChunkSize(MaxFragmentSize) \in Nat \ {0}
<1>1. HeaderSize("Fragment") = 17
  BY DEF HeaderSize
<1>2. QED
  BY <1>1, CodecAssumption DEF ChunkSize

\* No chunk is larger than a chunk.
LEMMA ChunkFits ==
  ASSUME NEW size \in Nat, NEW index \in 0 .. Chunks(size) - 1
  PROVE  /\ Chunks(size) \in Nat
         /\ ChunkLength(size, index) \in 0 .. ChunkSize(MaxFragmentSize)
<1> DEFINE c == ChunkSize(MaxFragmentSize)
           n == size + c - 1
           k == n \div c
           r == n % c
<1>1. c \in Nat \ {0}
  BY ChunkSizeIs
<1>2. Chunks(size) = k
  BY DEF Chunks
<1> HIDE DEF c
<1>3. n \in Nat
  BY <1>1
<1>4. k \in Nat /\ r \in 0 .. c - 1 /\ n = c * k + r
  <2> HIDE DEF n
  <2>1. QED
    BY <1>1, <1>3, DivMod
<1> HIDE DEF k, r
<1>5. CASE index + 1 < k
  <2>1. ChunkLength(size, index) = c
    BY <1>2, <1>5 DEF ChunkLength, c
  <2>2. QED
    BY <1>1, <1>2, <1>4, <2>1 DEF c
<1>6. CASE ~(index + 1 < k)
  <2>1. index \in Nat /\ k = index + 1
    BY <1>2, <1>4, <1>6
  <2>2. ChunkLength(size, index) = size - index * c
    BY <1>2, <1>6 DEF ChunkLength, c
  <2>3. c * k = index * c + c /\ index * c \in Nat
    BY <1>1, <2>1, Grows
  <2>4. size - index * c = r + 1
    BY <1>1, <1>4, <2>3
  <2>5. r + 1 \in 0 .. c
    BY <1>1, <1>4
  <2>6. QED
    BY <1>2, <1>4, <2>2, <2>4, <2>5 DEF c
<1>7. QED
  BY <1>5, <1>6

\* What is sent of a chunk.
LEMMA PartType ==
  ASSUME NEW size \in Nat, NEW index \in 0 .. Chunks(size) - 1
  PROVE  LET part == PartOf(size, index)
         IN  /\ part.index \in Byte
             /\ part.total \in Byte
             /\ part.payload \in Seq(Byte)
             /\ Len(part.payload) <= ChunkSize(MaxFragmentSize)
<1> DEFINE n == ChunkLength(size, index)
<1>1. Chunks(size) \in Nat /\ n \in 0 .. ChunkSize(MaxFragmentSize)
  BY ChunkFits
<1>2. n \in Nat /\ n <= ChunkSize(MaxFragmentSize)
  BY <1>1, ChunkSizeIs
<1>3. ASSUME NEW i \in Nat PROVE i % Radix \in Byte
  BY RadixPositive, DivMod DEF Byte
<1>4. index \in Nat
  BY <1>1
<1> HIDE DEF n
<1>5. [i \in 1 .. n |-> i % Radix] \in [1 .. n -> Byte]
  BY <1>2, <1>3
<1>6. /\ [i \in 1 .. n |-> i % Radix] \in Seq(Byte)
      /\ Len([i \in 1 .. n |-> i % Radix]) = n
  BY <1>2, <1>5
<1>7. QED
  BY <1>1, <1>2, <1>3, <1>4, <1>6 DEF PartOf, n

-----------------------------------------------------------------------------
(***************************************************************************)
(* The invariant: what is on the wire is what was encoded, but for a byte, *)
(* and the result is what is decoded of it.                                *)
(***************************************************************************)
Sendable(p) == p \in CodecPacket /\ Len(p.payload) <= ChunkSize(MaxFragmentSize)

OnTheWire ==
  IF spoiled
  THEN /\ origin = ProtocolId
       /\ \E k \in DOMAIN AsRaw(ProtocolId, packet), b \in Byte :
            /\ b # AsRaw(ProtocolId, packet)[k]
            /\ datagram = [AsRaw(ProtocolId, packet) EXCEPT ![k] = b]
  ELSE datagram = AsRaw(origin, packet)

CodecInv ==
  /\ CodecTypeOK
  /\ packet = None => datagram = None /\ result = None /\ ~spoiled
  /\ packet # None => Sendable(packet) /\ OnTheWire
  /\ result # None => result = Decode(role, datagram)

\* The datagram of what is sent is made of bytes, and fits its buffer.
LEMMA RawFits ==
  ASSUME NEW id \in {ProtocolId, OtherId}, NEW p, Sendable(p)
  PROVE  /\ AsRaw(id, p) \in Seq(Byte)
         /\ Len(AsRaw(id, p)) <= MaxFragmentSize
<1> DEFINE n == Len(p.payload)
           e == Encoded(p)
<1>1. p \in CodecPacket /\ n <= ChunkSize(MaxFragmentSize)
  BY DEF Sendable
<1>2. n \in Nat
  BY <1>1, CodecPacketFields
<1>3. /\ AsRaw(id, p) \in Seq(Byte)
      /\ Len(AsRaw(id, p)) = 12 + Len(e)
  BY <1>1, RawParts
<1>4. Len(e) = 1 \/ Len(e) = 3 + n \/ Len(e) = 5 + n
  BY <1>1, CodecPacketFields, EncodedLayout
<1> HIDE DEF n, e
<1>5. MaxFragmentSize \in Nat /\ MaxFragmentSize > 17 /\ n <= MaxFragmentSize - 17
  BY <1>1, ChunkSizeIs, CodecAssumption
<1>6. 12 + Len(e) <= MaxFragmentSize
  <2>1. CASE Len(e) = 1
    BY <1>5, <2>1
  <2>2. CASE Len(e) = 3 + n
    BY <1>2, <1>5, <2>2
  <2>3. CASE Len(e) = 5 + n
    BY <1>2, <1>5, <2>3
  <2>4. QED
    BY <1>4, <2>1, <2>2, <2>3
<1>7. QED
  BY <1>3, <1>6

\* What decode returns of what is on the wire.
LEMMA DecodeOnTheWire ==
  ASSUME CodecInv, packet # None
  PROVE  LET decoded == Decode(role, datagram)
         IN  /\ ~spoiled /\ origin = ProtocolId =>
                  decoded = IF packet.kind = Unexpected[role]
                            THEN Err("InvalidPacketType") ELSE Ok(packet)
             /\ spoiled \/ origin # ProtocolId =>
                  decoded \in {Err("IntConversion"), Err("InvalidCrc32")}
<1>1. packet \in CodecPacket /\ OnTheWire /\ origin \in {ProtocolId, OtherId}
  BY DEF CodecInv, Sendable, CodecTypeOK
<1>2. ASSUME ~spoiled, origin = ProtocolId
      PROVE  Decode(role, datagram) = IF packet.kind = Unexpected[role]
                                      THEN Err("InvalidPacketType") ELSE Ok(packet)
  <2>1. InnerDecode(datagram) = Ok(packet)
    BY <1>1, <1>2, DecodeOfRaw DEF OnTheWire
  <2>2. Ok(packet).ok /\ Ok(packet).packet = packet
    BY DEF Ok
  <2>3. QED
    BY <2>1, <2>2 DEF Decode
<1>3. ASSUME spoiled \/ origin # ProtocolId
      PROVE  Decode(role, datagram) \in {Err("IntConversion"), Err("InvalidCrc32")}
  <2>1. CASE spoiled
    BY <1>1, <2>1, DecodeOfSpoiled DEF OnTheWire, Decode, Err
  <2>2. CASE ~spoiled
    <3>1. origin = OtherId /\ datagram = AsRaw(OtherId, packet)
      BY <1>1, <1>3, <2>2 DEF OnTheWire
    <3>2. InnerDecode(datagram) \in {Err("IntConversion"), Err("InvalidCrc32")}
      BY <1>1, <3>1, DecodeOfForeign
    <3>3. QED
      BY <3>2 DEF Decode, Err
  <2>3. QED
    BY <2>1, <2>2
<1>4. QED
  BY <1>2, <1>3

\* Sending a packet that fits.
LEMMA EmitStep ==
  ASSUME CodecInv, NEW p, Sendable(p), Emit(p)
  PROVE  CodecInv'
<1>1. p \in CodecPacket /\ p # None
  BY NoneAssumption DEF Sendable
<1>2. packet = None /\ result = None /\ ~spoiled
  BY DEF CodecInv, Emit
<1>3. /\ packet' = p /\ origin' \in {ProtocolId, OtherId}
      /\ datagram' = AsRaw(origin', p)
      /\ spoiled' = spoiled /\ role' = role /\ result' = result
  BY DEF Emit
<1>4. datagram' \in Seq(Byte)
  <2>1. PICK id \in {ProtocolId, OtherId} : id = origin'
    BY <1>3
  <2>2. AsRaw(id, p) \in Seq(Byte)
    BY <2>1, RawFits
  <2>3. QED
    BY <1>3, <2>1, <2>2
<1>5. CodecTypeOK'
  BY <1>1, <1>2, <1>3, <1>4 DEF CodecInv, CodecTypeOK
<1>6. ~spoiled' /\ result' = None /\ packet' # None
  BY <1>1, <1>2, <1>3
<1>7. OnTheWire'
  BY <1>3, <1>6 DEF OnTheWire
<1>8. Sendable(packet')
  BY <1>3
<1>9. QED
  BY <1>5, <1>6, <1>7, <1>8 DEF CodecInv, Sendable

\* Changing a byte.
LEMMA SpoilStep ==
  ASSUME CodecInv, Spoil
  PROVE  CodecInv'
<1>1. /\ packet # None /\ result = None /\ ~spoiled /\ origin = ProtocolId
      /\ spoiled' = TRUE
      /\ packet' = packet /\ origin' = origin /\ role' = role /\ result' = result
  BY DEF Spoil
<1>2. PICK k \in DOMAIN datagram, b \in Byte :
         b # datagram[k] /\ datagram' = [datagram EXCEPT ![k] = b]
  BY DEF Spoil
<1>3. Sendable(packet) /\ datagram = AsRaw(ProtocolId, packet)
  BY <1>1 DEF CodecInv, OnTheWire
<1>4. datagram \in Seq(Byte)
  BY <1>3, RawFits
<1>5. datagram' \in Seq(Byte)
  <2>1. [datagram EXCEPT ![k] = b] \in Seq(Byte)
    BY <1>4
  <2>2. QED
    BY <1>2, <2>1
<1>6. CodecTypeOK'
  BY <1>1, <1>5 DEF CodecInv, CodecTypeOK
<1>7. OnTheWire'
  BY <1>1, <1>2, <1>3 DEF OnTheWire
<1>8. QED
  BY <1>1, <1>3, <1>6, <1>7 DEF CodecInv, Sendable

\* Decoding.
LEMMA ReceiveStep ==
  ASSUME CodecInv, Receive
  PROVE  CodecInv'
<1>1. /\ packet # None /\ result' = Decode(role, datagram)
      /\ packet' = packet /\ origin' = origin /\ datagram' = datagram
      /\ spoiled' = spoiled /\ role' = role
  BY DEF Receive
<1>2. packet \in CodecPacket
  BY <1>1 DEF CodecInv, Sendable
<1>3. Decode(role, datagram)
        \in {Ok(packet), Err("InvalidPacketType"), Err("IntConversion"), Err("InvalidCrc32")}
  BY <1>1, DecodeOnTheWire
<1>4. result' \in [ok : {TRUE}, packet : CodecPacket] \cup [ok : {FALSE}, error : DecodeError]
  <2>1. Ok(packet) \in [ok : {TRUE}, packet : CodecPacket]
    BY <1>2 DEF Ok
  <2>2. ASSUME NEW error \in DecodeError
        PROVE  Err(error) \in [ok : {FALSE}, error : DecodeError]
    BY DEF Err
  <2>3. {"InvalidPacketType", "IntConversion", "InvalidCrc32"} \subseteq DecodeError
    BY DEF DecodeError
  <2>4. QED
    BY <1>1, <1>3, <2>1, <2>2, <2>3
<1>5. CodecTypeOK'
  BY <1>1, <1>4 DEF CodecInv, CodecTypeOK
<1>6. OnTheWire' /\ Sendable(packet')
  BY <1>1 DEF CodecInv, OnTheWire
<1>7. QED
  BY <1>1, <1>5, <1>6 DEF CodecInv, Sendable

\* The packets of the handshake, heartbeats and data transfers.
LEMMA NumberedSendable ==
  ASSUME NEW n \in Sequences, NEW a \in Acks, NEW id \in ConnectionIds
  PROVE  /\ Sendable(Numbered("ConnectionRequest", n, a, 0))
         /\ Sendable(Numbered("ConnectionAccepted", n, a, id))
         /\ Sendable(Numbered("Heartbeat", n, a, id))
         /\ \A b \in Seq(Byte) : Len(b) <= ChunkSize(MaxFragmentSize) =>
              Sendable([Numbered("DataTransfer", n, a, id) EXCEPT !.payload = b])
         /\ \A b \in Seq(Byte), i \in Byte, t \in Byte :
              Len(b) <= ChunkSize(MaxFragmentSize) =>
              Sendable([Numbered("Fragment", n, a, id) EXCEPT
                          !.index = i, !.total = t, !.payload = b])
<1>1. n \in U32 \ {0} /\ a \in U32 /\ id \in U16 /\ id # 0
  BY CodecAssumption
<1>2. 0 \in Byte /\ 0 \in U16
  BY RadixPositive DEF Byte, U16
<1>3. {"ConnectionRequest", "ConnectionAccepted", "Heartbeat", "DataTransfer",
       "Fragment"} \subseteq ToSet(PacketTypes)
  <2>1. /\ PacketTypes[1] = "ConnectionRequest" /\ PacketTypes[2] = "ConnectionAccepted"
        /\ PacketTypes[3] = "DataTransfer" /\ PacketTypes[4] = "Fragment"
        /\ PacketTypes[5] = "Heartbeat" /\ DOMAIN PacketTypes = 1 .. 5
    BY DEF PacketTypes
  <2>2. QED
    BY <2>1 DEF ToSet
<1>4. <<>> \in Seq(Byte)
  OBVIOUS
<1>5. Len(<<>>) = 0 /\ 0 <= ChunkSize(MaxFragmentSize)
  BY ChunkSizeIs
<1>6. Sendable(Numbered("ConnectionRequest", n, a, 0))
  BY <1>1, <1>2, <1>3, <1>4, <1>5 DEF Sendable, CodecPacket, Numbered
<1>7. Sendable(Numbered("ConnectionAccepted", n, a, id))
  BY <1>1, <1>2, <1>3, <1>4, <1>5 DEF Sendable, CodecPacket, Numbered
<1>8. Sendable(Numbered("Heartbeat", n, a, id))
  BY <1>1, <1>2, <1>3, <1>4, <1>5 DEF Sendable, CodecPacket, Numbered
<1>9. ASSUME NEW b \in Seq(Byte), Len(b) <= ChunkSize(MaxFragmentSize)
      PROVE  Sendable([Numbered("DataTransfer", n, a, id) EXCEPT !.payload = b])
  BY <1>1, <1>2, <1>3, <1>9 DEF Sendable, CodecPacket, Numbered
<1>10. ASSUME NEW b \in Seq(Byte), NEW i \in Byte, NEW t \in Byte,
              Len(b) <= ChunkSize(MaxFragmentSize)
       PROVE  Sendable([Numbered("Fragment", n, a, id) EXCEPT
                          !.index = i, !.total = t, !.payload = b])
  BY <1>1, <1>2, <1>3, <1>10 DEF Sendable, CodecPacket, Numbered
<1>11. QED
  BY <1>6, <1>7, <1>8, <1>9, <1>10

\* A payload that is sent is a chunk of what was scheduled.
LEMMA PayloadStep ==
  ASSUME CodecInv, NEW n \in Sequences, NEW a \in Acks, NEW id \in ConnectionIds,
         EmitPayload(n, a, id)
  PROVE  CodecInv'
<1>1. PICK size \in PayloadSizes :
        \/ /\ Chunks(size) = 1
           /\ Emit([Numbered("DataTransfer", n, a, id) EXCEPT
                      !.payload = PartOf(size, 0).payload])
        \/ /\ Chunks(size) > 1
           /\ \E index \in 0 .. Chunks(size) - 1 :
                Emit([Numbered("Fragment", n, a, id) EXCEPT
                        !.index = PartOf(size, index).index,
                        !.total = PartOf(size, index).total,
                        !.payload = PartOf(size, index).payload])
  BY DEF EmitPayload
<1>2. size \in Nat
  BY CodecAssumption
<1>3. CASE /\ Chunks(size) = 1
           /\ Emit([Numbered("DataTransfer", n, a, id) EXCEPT
                      !.payload = PartOf(size, 0).payload])
  <2>1. 0 \in 0 .. Chunks(size) - 1
    BY <1>3
  <2>2. /\ PartOf(size, 0).payload \in Seq(Byte)
        /\ Len(PartOf(size, 0).payload) <= ChunkSize(MaxFragmentSize)
    BY <1>2, <2>1, PartType
  <2>3. Sendable([Numbered("DataTransfer", n, a, id) EXCEPT
                    !.payload = PartOf(size, 0).payload])
    BY <2>2, NumberedSendable
  <2>4. QED
    BY <1>3, <2>3, EmitStep
<1>4. ASSUME NEW index \in 0 .. Chunks(size) - 1,
             Emit([Numbered("Fragment", n, a, id) EXCEPT
                     !.index = PartOf(size, index).index,
                     !.total = PartOf(size, index).total,
                     !.payload = PartOf(size, index).payload])
      PROVE  CodecInv'
  <2>1. /\ PartOf(size, index).index \in Byte
        /\ PartOf(size, index).total \in Byte
        /\ PartOf(size, index).payload \in Seq(Byte)
        /\ Len(PartOf(size, index).payload) <= ChunkSize(MaxFragmentSize)
    BY <1>2, PartType
  <2>2. Sendable([Numbered("Fragment", n, a, id) EXCEPT
                    !.index = PartOf(size, index).index,
                    !.total = PartOf(size, index).total,
                    !.payload = PartOf(size, index).payload])
    BY <2>1, NumberedSendable
  <2>3. QED
    BY <1>4, <2>2, EmitStep
<1>5. QED
  BY <1>1, <1>3, <1>4

-----------------------------------------------------------------------------
(***************************************************************************)
(* CodecInv is an invariant: what is on the wire is what as_raw made of a  *)
(* packet whose payload fits a chunk, but for the byte that was changed.   *)
(***************************************************************************)
THEOREM CodecInductive == CodecSpec => []CodecInv
<1>1. CodecInit => CodecInv
  BY DEF CodecInit, CodecInv, CodecTypeOK
<1>2. CodecInv /\ [CodecNext]_codecVars => CodecInv'
  <2> SUFFICES ASSUME CodecInv, [CodecNext]_codecVars PROVE CodecInv'
    OBVIOUS
  <2>1. ASSUME NEW n \in Sequences, NEW a \in Acks, NEW id \in ConnectionIds,
               EmitHandshake(n, a, id)
        PROVE  CodecInv'
    BY <2>1, NumberedSendable, EmitStep DEF EmitHandshake
  <2>2. ASSUME NEW n \in Sequences, NEW a \in Acks, NEW id \in ConnectionIds,
               EmitHeartbeat(n, a, id)
        PROVE  CodecInv'
    BY <2>2, NumberedSendable, EmitStep DEF EmitHeartbeat
  <2>3. ASSUME NEW n \in Sequences, NEW a \in Acks, NEW id \in ConnectionIds,
               EmitPayload(n, a, id)
        PROVE  CodecInv'
    BY <2>3, PayloadStep
  <2>4. CASE Spoil
    BY <2>4, SpoilStep
  <2>5. CASE Receive
    BY <2>5, ReceiveStep
  <2>6. CASE UNCHANGED codecVars
    BY <2>6 DEF codecVars, CodecInv, CodecTypeOK, Sendable, OnTheWire
  <2>7. QED
    BY <2>1, <2>2, <2>3, <2>4, <2>5, <2>6 DEF CodecNext
<1>3. QED
  BY <1>1, <1>2, PTL DEF CodecSpec

(***************************************************************************)
(* The codec keeps its types: the index and the total of a fragment are    *)
(* cut to a byte, and decode returns a packet or an error, for every width *)
(* and every payload.                                                      *)
(***************************************************************************)
THEOREM CodecTypeCorrect == CodecSpec => []CodecTypeOK
<1>1. CodecInv => CodecTypeOK
  BY DEF CodecInv
<1>2. QED
  BY CodecInductive, <1>1, PTL

(***************************************************************************)
(* What arrives as this protocol's program sent it decodes to what was     *)
(* sent: encode.rs and common_decode agree on every field of every type.   *)
(***************************************************************************)
THEOREM RoundTripHolds == CodecSpec => []RoundTrip
<1>1. CodecInv => RoundTrip
  BY DecodeOnTheWire DEF CodecInv, RoundTrip
<1>2. QED
  BY CodecInductive, <1>1, PTL

(***************************************************************************)
(* decode accepts only what this protocol's programs sent, unchanged: the  *)
(* checksum notices a changed byte wherever it is, its own four included,  *)
(* and the four bytes of the protocol id it was taken over.                *)
(***************************************************************************)
THEOREM OnlyWhatWasSentHolds == CodecSpec => []OnlyWhatWasSent
<1>1. CodecInv => OnlyWhatWasSent
  <2> SUFFICES ASSUME CodecInv, result # None, result.ok
               PROVE  ~spoiled /\ origin = ProtocolId /\ result.packet = packet
    BY DEF OnlyWhatWasSent
  <2>1. packet # None /\ result = Decode(role, datagram)
    BY DEF CodecInv
  <2>2. /\ ~Err("IntConversion").ok /\ ~Err("InvalidCrc32").ok
        /\ ~Err("InvalidPacketType").ok /\ Ok(packet).packet = packet
    BY DEF Ok, Err
  <2>3. ~spoiled /\ origin = ProtocolId
    BY <2>1, <2>2, DecodeOnTheWire
  <2>4. QED
    BY <2>1, <2>2, <2>3, DecodeOnTheWire
<1>2. QED
  BY CodecInductive, <1>1, PTL

(***************************************************************************)
(* No datagram is larger than MAX_FRAGMENT_SIZE, however large the payload *)
(* that schedule_helper cuts.                                              *)
(***************************************************************************)
THEOREM DatagramFitsHolds == CodecSpec => []DatagramFits
<1>1. CodecInv => DatagramFits
  <2> SUFFICES ASSUME CodecInv, datagram # None PROVE Len(datagram) <= MaxFragmentSize
    BY DEF DatagramFits
  <2>1. packet # None /\ Sendable(packet) /\ OnTheWire
    BY DEF CodecInv
  <2>2. origin \in {ProtocolId, OtherId}
    BY DEF CodecInv, CodecTypeOK
  <2>3. CASE ~spoiled
    BY <2>1, <2>2, <2>3, RawFits DEF OnTheWire
  <2>4. CASE spoiled
    <3> DEFINE raw == AsRaw(ProtocolId, packet)
    <3>1. raw \in Seq(Byte) /\ Len(raw) <= MaxFragmentSize
      BY <2>1, RawFits
    <3>2. PICK k \in DOMAIN raw, b \in Byte : datagram = [raw EXCEPT ![k] = b]
      BY <2>1, <2>4 DEF OnTheWire
    <3> HIDE DEF raw
    <3>3. Len([raw EXCEPT ![k] = b]) = Len(raw)
      BY <3>1
    <3>4. QED
      BY <3>1, <3>2, <3>3
  <2>5. QED
    BY <2>3, <2>4
<1>2. QED
  BY CodecInductive, <1>1, PTL
=============================================================================
