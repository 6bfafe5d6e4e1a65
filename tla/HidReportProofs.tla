-------------------------- MODULE HidReportProofs ---------------------------
(***************************************************************************)
(* Proofs about HidReport: its types, what a report is refused for, and    *)
(* that the peer reads out of the BLE report what the input report says.   *)
(***************************************************************************)
EXTENDS HidReport, TLAPS

-----------------------------------------------------------------------------
(* Bits of numbers. *)

(* The powers of two by which the code shifts within a byte. *)
LEMMA Powers ==
    /\ 2^0 = 1 /\ 2^1 = 2 /\ 2^2 = 4 /\ 2^3 = 8 /\ 2^4 = 16
    /\ 2^5 = 32 /\ 2^6 = 64 /\ 2^7 = 128 /\ 2^8 = 256 /\ 2^15 = 32768 /\ 2^16 = 65536
OBVIOUS

(* A range of numbers, whatever its bounds. *)
LEMMA InRange ==
    ASSUME NEW lo \in Int, NEW hi \in Int, NEW x
    PROVE  x \in lo..hi <=> x \in Int /\ lo <= x /\ x <= hi
OBVIOUS

LEMMA Bounds ==
    /\ U8_MAX = 255 /\ U16_MAX = 65535 /\ AXIS_MIN = -32768 /\ AXIS_MAX = 32767
    /\ U8_MAX \in Int /\ U16_MAX \in Int /\ AXIS_MIN \in Int /\ AXIS_MAX \in Int
BY SMT DEF U8_MAX, U16_MAX, AXIS_MIN, AXIS_MAX

LEMMA Names ==
    ASSUME NEW x
    PROVE  /\ x \in Byte <=> x \in Int /\ 0 <= x /\ x <= U8_MAX
           /\ x \in U16 <=> x \in Int /\ 0 <= x /\ x <= U16_MAX
           /\ x \in I16 <=> x \in Int /\ AXIS_MIN <= x /\ x <= AXIS_MAX
           /\ x \in FieldValues <=> x \in Int /\ AXIS_MIN <= x /\ x <= U16_MAX
<1>1. /\ 0 \in Int /\ U8_MAX \in Int /\ U16_MAX \in Int
      /\ AXIS_MIN \in Int /\ AXIS_MAX \in Int
  BY Bounds
<1> QED  BY <1>1, InRange, SMT DEF Byte, U16, I16, FieldValues

(* What fits the widths. *)
LEMMA Widths ==
    ASSUME NEW x
    PROVE  /\ x \in Byte <=> x \in Int /\ 0 <= x /\ x <= 255
           /\ x \in U16 <=> x \in Int /\ 0 <= x /\ x <= 65535
           /\ x \in I16 <=> x \in Int /\ -32768 <= x /\ x <= 32767
           /\ x \in FieldValues <=> x \in Int /\ -32768 <= x /\ x <= 65535
BY Names, Bounds, SMT

(* The operations on numbers, by their names only. *)
Pow(r) == 2^r
Odd(n) == n % 2
Half(n) == n \div 2
Low16(n) == n % 65536
Low(n) == n % 256
High(n) == n \div 256
Shr(n, r) == n \div 2^r

LEMMA PowerOf ==
    ASSUME NEW r \in 0..7
    PROVE  /\ Pow(r) \in {1, 2, 4, 8, 16, 32, 64, 128}
           /\ Pow(r) \in Nat \ {0}
           /\ r < 7 => Pow(r + 1) = 2 * Pow(r)
           /\ r = 7 => 2 * Pow(r) = 256
<1>1. CASE r = 0  BY <1>1, Powers DEF Pow
<1>2. CASE r = 1  BY <1>2, Powers DEF Pow
<1>3. CASE r = 2  BY <1>3, Powers DEF Pow
<1>4. CASE r = 3  BY <1>4, Powers DEF Pow
<1>5. CASE r = 4  BY <1>5, Powers DEF Pow
<1>6. CASE r = 5  BY <1>6, Powers DEF Pow
<1>7. CASE r = 6  BY <1>7, Powers DEF Pow
<1>8. CASE r = 7  BY <1>8, Powers DEF Pow
<1> QED  BY <1>1, <1>2, <1>3, <1>4, <1>5, <1>6, <1>7, <1>8

LEMMA PartTypes ==
    ASSUME NEW n \in Nat
    PROVE  /\ Odd(n) \in 0..1 /\ Half(n) \in Nat /\ High(n) \in Nat
           /\ Low(n) \in Nat /\ Low(n) < 256 /\ n = 256 * High(n) + Low(n)
BY SMT DEF Odd, Half, Low, High

(* Halving twice is dividing by the product. *)
LEMMA HalfOf ==
    ASSUME NEW w \in Nat, NEW p \in Nat \ {0}
    PROVE  w \div (2 * p) = (w \div p) \div 2
BY SMTT(30)

(* A number without its k lowest bits is halved to lose one more. *)
LEMMA Shifted ==
    ASSUME NEW w \in Nat, NEW k \in 0..7
    PROVE  /\ Shr(w, k) \in Nat
           /\ k < 7 => Shr(w, k + 1) = Half(Shr(w, k))
           /\ k = 7 => High(w) = Half(Shr(w, k))
           /\ k = 0 => Shr(w, k) = w
<1>1. /\ Pow(k) \in Nat \ {0}
      /\ k < 7 => Pow(k + 1) = 2 * Pow(k)
      /\ k = 7 => 2 * Pow(k) = 256
  BY PowerOf
<1>2. w \div Pow(k) \in Nat
  BY <1>1
<1>3. w \div (2 * Pow(k)) = (w \div Pow(k)) \div 2
  BY <1>1, HalfOf
<1>4. Shr(w, k) = w \div Pow(k) /\ Shr(w, k + 1) = w \div Pow(k + 1)
  BY Zenon DEF Shr, Pow
<1>5. k = 0 => Pow(k) = 1
  BY Powers DEF Pow
<1>6. k = 0 => w \div Pow(k) = w
  BY <1>5
<1> QED  BY <1>1, <1>2, <1>3, <1>4, <1>6 DEF Half, High

(* What is above a byte does not show in its bits. *)
LEMMA BitOfByte ==
    ASSUME NEW w \in Nat, NEW r \in 0..7
    PROVE  Odd(Shr(w, r)) = Odd(Shr(Low(w), r))
<1>1. Pow(r) \in {1, 2, 4, 8, 16, 32, 64, 128}  BY PowerOf
<1>2. PICK b \in Nat, x \in Nat : b < 256 /\ w = b + 256 * x /\ Low(w) = b
  <2>1. w = Low(w) + 256 * High(w)
    BY PartTypes
  <2>2. Low(w) \in Nat /\ Low(w) < 256 /\ High(w) \in Nat
    BY PartTypes
  <2> QED  BY ONLY <2>1, <2>2
<1>3. PICK p \in {1, 2, 4, 8, 16, 32, 64, 128} : p = Pow(r)
  BY ONLY <1>1, Zenon
<1>4. ((b + 256 * x) \div p) % 2 = (b \div p) % 2
  BY ONLY <1>2, b \in Nat, x \in Nat, p \in {1, 2, 4, 8, 16, 32, 64, 128}
<1>5. Shr(w, r) = (b + 256 * x) \div p /\ Shr(Low(w), r) = b \div p
  BY <1>2, <1>3, SMT DEF Shr, Pow
<1> QED  BY <1>4, <1>5, SMT DEF Odd

(* Eight halvings, as one sum. *)
LEMMA EightHalves ==
    ASSUME NEW x0 \in 0..1, NEW x1 \in 0..1, NEW x2 \in 0..1, NEW x3 \in 0..1,
           NEW x4 \in 0..1, NEW x5 \in 0..1, NEW x6 \in 0..1, NEW x7 \in 0..1,
           NEW n0 \in Nat, NEW n1 \in Nat, NEW n2 \in Nat, NEW n3 \in Nat, NEW n4 \in Nat,
           NEW n5 \in Nat, NEW n6 \in Nat, NEW n7 \in Nat, NEW n8 \in Nat,
           n0 = 2 * n1 + x0, n1 = 2 * n2 + x1, n2 = 2 * n3 + x2, n3 = 2 * n4 + x3,
           n4 = 2 * n5 + x4, n5 = 2 * n6 + x5, n6 = 2 * n7 + x6, n7 = 2 * n8 + x7,
           NEW o, o = x0 + 2 * x1 + 4 * x2 + 8 * x3 + 16 * x4 + 32 * x5 + 64 * x6 + 128 * x7
    PROVE  n0 = 256 * n8 + o /\ o \in Nat /\ o < 256
OBVIOUS

(* The lowest bits of a number and of its halves are its lowest octet. *)
LEMMA OctetOf ==
    ASSUME NEW h \in [0..8 -> Nat], \A i \in 0..7 : h[i + 1] = Half(h[i])
    PROVE  /\ Octet([i \in 0..7 |-> Odd(h[i])]) = Low(h[0])
           /\ h[8] = High(h[0])
<1>1. \A n \in Nat : n = 2 * Half(n) + Odd(n) /\ Odd(n) \in 0..1
  BY DEF Odd, Half
<1>2. \A i \in 0..7 : h[i] = 2 * h[i + 1] + Odd(h[i]) /\ Odd(h[i]) \in 0..1
  BY <1>1
<1>3. PICK b \in [0..7 -> 0..1] : b = [i \in 0..7 |-> Odd(h[i])]
  BY <1>2
<1>4. \A i \in 0..7 : h[i] = 2 * h[i + 1] + b[i]
  BY <1>2, <1>3
<1>5. /\ h[0] = 2 * h[1] + b[0] /\ h[1] = 2 * h[2] + b[1]
      /\ h[2] = 2 * h[3] + b[2] /\ h[3] = 2 * h[4] + b[3]
      /\ h[4] = 2 * h[5] + b[4] /\ h[5] = 2 * h[6] + b[5]
      /\ h[6] = 2 * h[7] + b[6] /\ h[7] = 2 * h[8] + b[7]
  BY <1>4
<1>6. h[0] = 256 * h[8] + Octet(b) /\ Octet(b) \in Nat /\ Octet(b) < 256 /\ h[0] \in Nat /\ h[8] \in Nat
  <2>1. PICK x0 \in 0..1, x1 \in 0..1, x2 \in 0..1, x3 \in 0..1,
             x4 \in 0..1, x5 \in 0..1, x6 \in 0..1, x7 \in 0..1 :
          /\ x0 = b[0] /\ x1 = b[1] /\ x2 = b[2] /\ x3 = b[3]
          /\ x4 = b[4] /\ x5 = b[5] /\ x6 = b[6] /\ x7 = b[7]
    <3>1. /\ b[0] \in 0..1 /\ b[1] \in 0..1 /\ b[2] \in 0..1 /\ b[3] \in 0..1
          /\ b[4] \in 0..1 /\ b[5] \in 0..1 /\ b[6] \in 0..1 /\ b[7] \in 0..1
      OBVIOUS
    <3> QED  BY ONLY <3>1, Zenon
  <2>2. PICK n0 \in Nat, n1 \in Nat, n2 \in Nat, n3 \in Nat, n4 \in Nat,
             n5 \in Nat, n6 \in Nat, n7 \in Nat, n8 \in Nat :
          /\ n0 = h[0] /\ n1 = h[1] /\ n2 = h[2] /\ n3 = h[3] /\ n4 = h[4]
          /\ n5 = h[5] /\ n6 = h[6] /\ n7 = h[7] /\ n8 = h[8]
    <3>1. /\ h[0] \in Nat /\ h[1] \in Nat /\ h[2] \in Nat /\ h[3] \in Nat /\ h[4] \in Nat
          /\ h[5] \in Nat /\ h[6] \in Nat /\ h[7] \in Nat /\ h[8] \in Nat
      OBVIOUS
    <3> QED  BY ONLY <3>1, Zenon
  <2>3. PICK o : /\ o = Octet(b)
                 /\ o = x0 + 2 * x1 + 4 * x2 + 8 * x3 + 16 * x4 + 32 * x5 + 64 * x6 + 128 * x7
    BY ONLY <2>1 DEF Octet
  <2>4. /\ n0 = 2 * n1 + x0 /\ n1 = 2 * n2 + x1 /\ n2 = 2 * n3 + x2 /\ n3 = 2 * n4 + x3
        /\ n4 = 2 * n5 + x4 /\ n5 = 2 * n6 + x5 /\ n6 = 2 * n7 + x6 /\ n7 = 2 * n8 + x7
    BY ONLY <1>5, <2>1, <2>2
  <2>5. n0 = 256 * n8 + o /\ o \in Nat /\ o < 256
    BY ONLY <2>3, <2>4, EightHalves,
       x0 \in 0..1, x1 \in 0..1, x2 \in 0..1, x3 \in 0..1,
       x4 \in 0..1, x5 \in 0..1, x6 \in 0..1, x7 \in 0..1,
       n0 \in Nat, n1 \in Nat, n2 \in Nat, n3 \in Nat, n4 \in Nat,
       n5 \in Nat, n6 \in Nat, n7 \in Nat, n8 \in Nat
  <2> QED  BY ONLY <2>2, <2>3, <2>5, n0 \in Nat, n8 \in Nat
<1>7. \A x, o \in Nat : o < 256 => (256 * x + o) % 256 = o /\ (256 * x + o) \div 256 = x
  OBVIOUS
<1>8. Low(h[0]) = Octet(b) /\ High(h[0]) = h[8]
  BY <1>6, <1>7 DEF Low, High
<1> QED  BY <1>3, <1>8

(* Sixteen bits are two octets. *)
LEMMA TwoOctets ==
    ASSUME NEW n \in Nat
    PROVE  Low16(n) = 256 * Low(High(n)) + Low(n)
<1> DEFINE a == High(n)
           b == Low(n)
           c == High(a)
           d == Low(a)
           e == 256 * d + b
<1>1. /\ a \in Nat /\ b \in Nat /\ b < 256 /\ n = 256 * a + b
      /\ c \in Nat /\ d \in Nat /\ d < 256 /\ a = 256 * c + d
  BY PartTypes
<1> HIDE DEF a, b, c, d
<1>2. e \in Nat /\ e < 65536 /\ n = 65536 * c + e
  BY <1>1, SMT
<1> HIDE DEF e
<1>3. (65536 * c + e) % 65536 = e
  BY <1>1, <1>2, SMT
<1>4. Low16(n) = e
  BY ONLY <1>2, <1>3 DEF Low16
<1> QED  BY ONLY <1>4, Zenon DEF a, b, d, e

-----------------------------------------------------------------------------
(* The bits that extract_bits takes one by one are those of a slice. *)

(* What is left of a number without its k lowest bits. *)
Rest(w, k) ==
    IF k < 8 THEN Shr(w, k)
    ELSE IF k < 16 THEN Shr(High(w), k - 8)
    ELSE Shr(High(High(w)), k - 16)

(* Rest by the byte that the next bit is in. *)
LEMMA RestOf ==
    ASSUME NEW w, NEW r \in 0..7
    PROVE  /\ Rest(w, r) = Shr(w, r)
           /\ Rest(w, 8 + r) = Shr(High(w), r)
           /\ Rest(w, 16 + r) = Shr(High(High(w)), r)
<1>1. (8 + r) - 8 = r /\ (16 + r) - 16 = r
  OBVIOUS
<1>2. r < 8 /\ ~(8 + r < 8) /\ 8 + r < 16 /\ ~(16 + r < 8) /\ ~(16 + r < 16)
  OBVIOUS
<1> QED  BY <1>1, <1>2 DEF Rest

(* Halves, up to the end of the third byte. *)
LEMMA RestHalves ==
    ASSUME NEW w \in Nat, NEW k \in 0..22
    PROVE  /\ Rest(w, k) \in Nat
           /\ Rest(w, k + 1) = Half(Rest(w, k))
<1>1. PICK v \in Nat, u \in Nat : v = High(w) /\ u = High(v)
  <2>1. High(w) \in Nat
    BY PartTypes
  <2>2. High(High(w)) \in Nat
    BY <2>1, PartTypes
  <2> QED  BY ONLY <2>1, <2>2, Zenon
<1>2. \A r \in 0..7 : /\ Rest(w, r) = Shr(w, r)
                      /\ Rest(w, 8 + r) = Shr(v, r)
                      /\ Rest(w, 16 + r) = Shr(u, r)
  BY <1>1, RestOf
<1>3. Shr(v, 0) = v /\ Shr(u, 0) = u
  BY Shifted
<1>4. CASE \E r \in 0..7 : k = r
  <2>1. PICK r \in 0..7 : k = r  BY <1>4
  <2>2. Rest(w, k) = Shr(w, r) /\ Shr(w, r) \in Nat
    BY <1>2, <2>1, Shifted
  <2>3. CASE r < 7
    <3>1. r + 1 \in 0..7 /\ k + 1 = r + 1  BY <2>1, <2>3
    <3>2. Rest(w, k + 1) = Shr(w, r + 1)
      BY <1>2, <3>1
    <3>3. Shr(w, r + 1) = Half(Shr(w, r))
      BY <2>3, Shifted
    <3> QED  BY ONLY <2>2, <3>2, <3>3
  <2>4. CASE r = 7
    <3>1. k + 1 = 8 + 0 /\ 0 \in 0..7  BY <2>1, <2>4
    <3>2. Rest(w, k + 1) = v
      BY <1>2, <1>3, <3>1
    <3>3. High(w) = Half(Shr(w, r))
      BY <2>4, Shifted
    <3> QED  BY ONLY <1>1, <2>2, <3>2, <3>3
  <2> QED  BY <2>3, <2>4
<1>5. CASE \E r \in 0..7 : k = 8 + r
  <2>1. PICK r \in 0..7 : k = 8 + r  BY <1>5
  <2>2. Rest(w, k) = Shr(v, r) /\ Shr(v, r) \in Nat
    BY <1>2, <2>1, Shifted
  <2>3. CASE r < 7
    <3>1. r + 1 \in 0..7 /\ k + 1 = 8 + (r + 1)  BY <2>1, <2>3
    <3>2. Rest(w, k + 1) = Shr(v, r + 1)
      BY <1>2, <3>1
    <3>3. Shr(v, r + 1) = Half(Shr(v, r))
      BY <2>3, Shifted
    <3> QED  BY ONLY <2>2, <3>2, <3>3
  <2>4. CASE r = 7
    <3>1. k + 1 = 16 + 0 /\ 0 \in 0..7  BY <2>1, <2>4
    <3>2. Rest(w, k + 1) = u
      BY <1>2, <1>3, <3>1
    <3>3. High(v) = Half(Shr(v, r))
      BY <2>4, Shifted
    <3> QED  BY ONLY <1>1, <2>2, <3>2, <3>3
  <2> QED  BY <2>3, <2>4
<1>6. CASE \E r \in 0..6 : k = 16 + r
  <2>1. PICK r \in 0..6 : k = 16 + r  BY <1>6
  <2>2. r \in 0..7 /\ r < 7 /\ r + 1 \in 0..7 /\ k + 1 = 16 + (r + 1)  BY <2>1
  <2>3. Rest(w, k) = Shr(u, r) /\ Rest(w, k + 1) = Shr(u, r + 1)
    BY <1>2, <2>1, <2>2
  <2>4. Shr(u, r) \in Nat /\ Shr(u, r + 1) = Half(Shr(u, r))
    BY <2>2, Shifted
  <2> QED  BY ONLY <2>3, <2>4
<1>7. \/ k \in 0..7
      \/ k - 8 \in 0..7 /\ k = 8 + (k - 8)
      \/ k - 16 \in 0..6 /\ k = 16 + (k - 16)
  OBVIOUS
<1> QED  BY <1>4, <1>5, <1>6, <1>7

(* The lowest bit of what is left is the bit that the code picks. *)
LEMMA RestBit ==
    ASSUME NEW w \in Nat, NEW r \in 0..7
    PROVE  /\ Odd(Rest(w, r)) = Odd(Shr(Low(w), r))
           /\ Odd(Rest(w, 8 + r)) = Odd(Shr(Low(High(w)), r))
           /\ Odd(Rest(w, 16 + r)) = Odd(Shr(Low(High(High(w))), r))
<1>1. High(w) \in Nat /\ High(High(w)) \in Nat
  BY PartTypes
<1> QED  BY <1>1, RestOf, BitOfByte

(* The numbers by which the bits of an octet are counted. *)
LEMMA Counting ==
    \A s \in 0..15, i \in 0..7 :
        /\ s + i \in 0..22 /\ s + (i + 1) = (s + i) + 1
        /\ s + 0 = s /\ s + 8 \in 0..23
OBVIOUS

(* Eight lowest bits one by one are the lowest octet of what is left. *)
LEMMA RestOctet ==
    ASSUME NEW w \in Nat, NEW s \in 0..15
    PROVE  /\ Rest(w, s) \in Nat
           /\ Octet([i \in 0..7 |-> Odd(Rest(w, s + i))]) = Low(Rest(w, s))
           /\ Rest(w, s + 8) = High(Rest(w, s))
<1>1. \A i \in 0..7 : /\ Rest(w, s + i) \in Nat
                      /\ Rest(w, s + (i + 1)) = Half(Rest(w, s + i))
  <2> TAKE i \in 0..7
  <2>1. s + i \in 0..22 /\ s + (i + 1) = (s + i) + 1
    BY Counting
  <2>2. PICK k \in 0..22 : k = s + i
    BY <2>1
  <2>3. /\ Rest(w, k) \in Nat
        /\ Rest(w, k + 1) = Half(Rest(w, k))
    BY RestHalves
  <2> QED  BY ONLY <2>1, <2>2, <2>3
<1>2. Rest(w, s + 8) \in Nat
  <2>1. 7 \in 0..7 /\ s + (7 + 1) = s + 8
    OBVIOUS
  <2>2. /\ Rest(w, s + 7) \in Nat
        /\ Rest(w, s + (7 + 1)) = Half(Rest(w, s + 7))
    BY <1>1, <2>1
  <2> QED  BY <2>1, <2>2, PartTypes
<1> DEFINE h == [i \in 0..8 |-> Rest(w, s + i)]
<1>3. h \in [0..8 -> Nat]
  BY ONLY <1>1, <1>2, \A i \in 0..8 : i \in 0..7 \/ i = 8
<1>4. \A i \in 0..7 : h[i + 1] = Half(h[i])
  BY <1>1
<1>5. [i \in 0..7 |-> Odd(h[i])] = [i \in 0..7 |-> Odd(Rest(w, s + i))]
  OBVIOUS
<1>6. h[0] = Rest(w, s) /\ h[8] = Rest(w, s + 8)
  BY Counting
<1> HIDE DEF h
<1>7. Octet([i \in 0..7 |-> Odd(h[i])]) = Low(h[0]) /\ h[8] = High(h[0])
  BY <1>3, <1>4, OctetOf
<1> QED  BY <1>3, <1>5, <1>6, <1>7

-----------------------------------------------------------------------------
(* What the code takes bit by bit is a slice of the payload. *)

ByteAt(bytes, i) == IF i \in DOMAIN bytes THEN bytes[i] ELSE 0

LEMMA ByteAtType ==
    ASSUME NEW bytes \in Seq(Byte), NEW i \in Nat
    PROVE  ByteAt(bytes, i) \in Byte
<1>1. CASE i \in DOMAIN bytes
  BY <1>1 DEF ByteAt
<1>2. CASE i \notin DOMAIN bytes
  BY <1>2, Widths DEF ByteAt
<1> QED  BY <1>1, <1>2

(* The three bytes from the one that bit o is in, as one number. *)
Window(bytes, o) ==
    ByteAt(bytes, o \div 8 + 1) + 256 * ByteAt(bytes, o \div 8 + 2)
        + 65536 * ByteAt(bytes, o \div 8 + 3)

LEMMA WindowBytes ==
    ASSUME NEW bytes \in Seq(Byte), NEW o \in Nat
    PROVE  LET w == Window(bytes, o)
           IN  /\ w \in Nat
               /\ Low(w) = ByteAt(bytes, o \div 8 + 1)
               /\ Low(High(w)) = ByteAt(bytes, o \div 8 + 2)
               /\ Low(High(High(w))) = ByteAt(bytes, o \div 8 + 3)
<1>1. o \div 8 + 1 \in Nat /\ o \div 8 + 2 \in Nat /\ o \div 8 + 3 \in Nat
  OBVIOUS
<1> DEFINE b0 == ByteAt(bytes, o \div 8 + 1)
           b1 == ByteAt(bytes, o \div 8 + 2)
           b2 == ByteAt(bytes, o \div 8 + 3)
           w == b0 + 256 * b1 + 65536 * b2
           v == b1 + 256 * b2
<1>2. b0 \in Byte /\ b1 \in Byte /\ b2 \in Byte
  BY <1>1, ByteAtType
<1>3. /\ b0 \in Nat /\ b0 < 256 /\ b1 \in Nat /\ b1 < 256 /\ b2 \in Nat /\ b2 < 256
  BY <1>2, Widths, SMT
<1>4. Window(bytes, o) = w
  BY DEF Window
<1> HIDE DEF b0, b1, b2
<1>5. w \in Nat /\ v \in Nat /\ Low(w) = b0 /\ High(w) = v
  BY <1>3, SMT DEF Low, High
<1>6. Low(v) = b1 /\ High(v) = b2 /\ Low(b2) = b2
  BY <1>3, SMT DEF Low, High
<1> HIDE DEF w, v
<1> QED  BY <1>4, <1>5, <1>6 DEF b0, b1, b2

LEMMA WindowNat ==
    ASSUME NEW bytes \in Seq(Byte), NEW o \in Nat
    PROVE  Window(bytes, o) \in Nat
BY WindowBytes

(* Where a bit is, counted from the byte of an earlier one. *)
LEMMA Places ==
    ASSUME NEW o \in Nat, NEW i \in 0..15
    PROVE  \E r \in 0..7 :
              /\ r = (o + i) % 8
              /\ \/ (o + i) \div 8 = o \div 8 /\ (o % 8) + i = r
                 \/ (o + i) \div 8 + 1 = o \div 8 + 2 /\ (o % 8) + i = 8 + r
                 \/ (o + i) \div 8 + 1 = o \div 8 + 3 /\ (o % 8) + i = 16 + r
OBVIOUS

(* The bits from o on, taken one by one, are what is left of the bytes.    *)
LEMMA BitIs ==
    ASSUME payload \in Seq(Byte), NEW o \in Nat, NEW i \in 0..15,
           o + i < 8 * Len(payload)
    PROVE  Bit(o + i) = Odd(Rest(Window(payload, o), (o % 8) + i))
<1>1. PICK w \in Nat : w = Window(payload, o)
  BY WindowBytes
<1>2. /\ Low(w) = ByteAt(payload, o \div 8 + 1)
      /\ Low(High(w)) = ByteAt(payload, o \div 8 + 2)
      /\ Low(High(High(w))) = ByteAt(payload, o \div 8 + 3)
  BY <1>1, WindowBytes
<1>3. PICK r \in 0..7 :
        /\ r = (o + i) % 8
        /\ \/ (o + i) \div 8 = o \div 8 /\ (o % 8) + i = r
           \/ (o + i) \div 8 + 1 = o \div 8 + 2 /\ (o % 8) + i = 8 + r
           \/ (o + i) \div 8 + 1 = o \div 8 + 3 /\ (o % 8) + i = 16 + r
  BY Places
<1>4. (o + i) \div 8 + 1 \in 1..Len(payload)
  <2>1. PICK n \in Nat, l \in Nat : n = o + i /\ l = Len(payload) /\ n < 8 * l
    <3>1. Len(payload) \in Nat /\ o + i \in Nat
      OBVIOUS
    <3> QED  BY <3>1
  <2>2. n \div 8 + 1 \in 1..l
    BY ONLY <2>1, n \in Nat, l \in Nat
  <2> QED  BY <2>1, <2>2
<1>5. Bit(o + i) = Odd(Shr(ByteAt(payload, (o + i) \div 8 + 1), r))
  <2>1. ByteAt(payload, (o + i) \div 8 + 1) = payload[(o + i) \div 8 + 1]
    BY <1>4 DEF ByteAt
  <2> QED  BY <1>3, <2>1 DEF Bit, Odd, Shr
<1>6. /\ Odd(Rest(w, r)) = Odd(Shr(Low(w), r))
      /\ Odd(Rest(w, 8 + r)) = Odd(Shr(Low(High(w)), r))
      /\ Odd(Rest(w, 16 + r)) = Odd(Shr(Low(High(High(w))), r))
  BY RestBit
<1> QED  BY ONLY <1>1, <1>2, <1>3, <1>5, <1>6


(* Eight bits one by one are the lowest octet of what is left of them. *)
LEMMA OctetIs ==
    ASSUME payload \in Seq(Byte), NEW o \in Nat, NEW from \in {0, 8},
           o + from + 8 <= 8 * Len(payload)
    PROVE  Octet([i \in 0..7 |-> Bit((o + from) + i)])
             = Low(Rest(Window(payload, o), (o % 8) + from))
<1>1. PICK w \in Nat : w = Window(payload, o)
  BY WindowBytes
<1>2. PICK s \in 0..15 : s = (o % 8) + from
  OBVIOUS
<1>3. \A i \in 0..7 : Bit((o + from) + i) = Odd(Rest(w, s + i))
  <2> TAKE i \in 0..7
  <2>1. PICK j \in 0..15 : j = from + i
    OBVIOUS
  <2>2. (o + from) + i = o + j /\ s + i = (o % 8) + j
    BY <1>2, <2>1
  <2>3. o + j < 8 * Len(payload)
    BY <2>1
  <2>4. Bit(o + j) = Odd(Rest(w, (o % 8) + j))
    BY <1>1, <2>3, BitIs
  <2> QED  BY ONLY <2>2, <2>4
<1>4. [i \in 0..7 |-> Bit((o + from) + i)] = [i \in 0..7 |-> Odd(Rest(w, s + i))]
  BY <1>3
<1>5. Octet([i \in 0..7 |-> Odd(Rest(w, s + i))]) = Low(Rest(w, s))
  BY RestOctet
<1> QED  BY ONLY <1>1, <1>2, <1>4, <1>5

(* The low bits of a number that the code and the report map ask for. *)
LowBits(n, size) == n % Pow(size)

(* A slice, by what is left of the three bytes. *)
LEMMA SliceIs ==
    ASSUME NEW bytes \in Seq(Byte), NEW o \in Nat, NEW size
    PROVE  /\ Slice(bytes, o, size) = LowBits(Rest(Window(bytes, o), o % 8), size)
           /\ Rest(Window(bytes, o), o % 8) \in Nat
<1>1. o % 8 \in 0..7 /\ o % 8 \in 0..22
  OBVIOUS
<1>2. Window(bytes, o) \in Nat
  BY WindowNat
<1>3. /\ Rest(Window(bytes, o), o % 8) = Shr(Window(bytes, o), o % 8)
      /\ Rest(Window(bytes, o), o % 8) \in Nat
  BY <1>1, <1>2, RestOf, RestHalves, Zenon
<1>4. (o \div 8 + 1) + 1 = o \div 8 + 2 /\ (o \div 8 + 1) + 2 = o \div 8 + 3
  OBVIOUS
<1>5. Slice(bytes, o, size) = LowBits(Shr(Window(bytes, o), o % 8), size)
  <2>1. Window(bytes, o) = ByteAt(bytes, o \div 8 + 1) + 256 * ByteAt(bytes, (o \div 8 + 1) + 1)
                             + 65536 * ByteAt(bytes, (o \div 8 + 1) + 2)
    BY ONLY <1>4 DEF Window
  <2> QED  BY ONLY <2>1 DEF Slice, ByteAt, Pow, Shr, LowBits
<1> QED  BY ONLY <1>3, <1>5

LEMMA PowersOfSizes ==
    /\ Pow(1) = 2 /\ Pow(4) = 16 /\ Pow(8) = 256 /\ Pow(16) = 65536
    /\ Pow(0) = 1 /\ Pow(7) = 128 /\ Pow(15) = 32768
BY Powers, SMT DEF Pow

LEMMA PowerTable ==
    /\ Pow(0) = 1 /\ Pow(1) = 2 /\ Pow(2) = 4 /\ Pow(3) = 8
    /\ Pow(4) = 16 /\ Pow(5) = 32 /\ Pow(6) = 64 /\ Pow(7) = 128
BY Powers, SMT DEF Pow

LEMMA LowBitsOf ==
    ASSUME NEW n \in Nat
    PROVE  LowBits(n, 1) = Odd(n) /\ LowBits(n, 8) = Low(n) /\ LowBits(n, 16) = Low16(n)
<1>1. \A p, q : p = q => n % p = n % q
  OBVIOUS
<1> QED  BY ONLY <1>1, PowersOfSizes, SMT DEF LowBits, Odd, Low, Low16

(* extract_bits reads the slice of the field, whatever its offset. *)
LEMMA ExtractIs ==
    ASSUME payload \in Seq(Byte), NEW field \in ReportField, DecodeError(field) = "none"
    PROVE  /\ field.bitSize \in {1, 8, 16}
           /\ field.bitOffset \in Nat
           /\ field.bitOffset + field.bitSize <= 8 * Len(payload)
           /\ ExtractBits(field) = Slice(payload, field.bitOffset, field.bitSize)
           /\ ExtractBits(field) \in Nat /\ ExtractBits(field) < Pow(field.bitSize)
<1>1. /\ field.bitOffset \in Nat /\ field.bitSize \in {1, 8, 16}
      /\ field.bitOffset + field.bitSize <= 8 * Len(payload)
  <2>1. field.bitOffset \in Nat
    BY Widths, SMT DEF ReportField
  <2>2. field.bitSize \in {1, 8, 16} /\ ~(field.bitOffset + field.bitSize > Len(payload) * 8)
    BY DEF DecodeError
  <2>3. Len(payload) \in Nat /\ field.bitOffset + field.bitSize \in Int
    BY <2>1, <2>2
  <2> QED  BY <2>1, <2>2, <2>3
<1>2. PICK o \in Nat : o = field.bitOffset
  BY <1>1
<1>3. PICK h \in Nat : h = Rest(Window(payload, o), o % 8)
  BY <1>2, SliceIs
<1>4. /\ Low16(h) = 256 * Low(High(h)) + Low(h)
      /\ Low(h) \in Nat /\ Low(h) < 256 /\ High(h) \in Nat
  <2>1. Low(h) \in Nat /\ Low(h) < 256 /\ High(h) \in Nat
    BY PartTypes
  <2> QED  BY <2>1, TwoOctets
<1>5. Low(High(h)) \in Nat /\ Low(High(h)) < 256
  BY ONLY <1>4, PartTypes
<1>6. Slice(payload, o, field.bitSize) = LowBits(h, field.bitSize)
  BY <1>3, SliceIs
<1>7. o + 0 = o /\ (o % 8) + 0 = o % 8 /\ 0 \in 0..15 /\ 0 \in {0, 8} /\ 8 \in {0, 8}
  OBVIOUS
<1>8. CASE field.bitSize = 1
  <2>1. o + 0 < 8 * Len(payload)
    <3>1. Len(payload) \in Nat  OBVIOUS
    <3> QED  BY <1>1, <1>2, <1>8, <3>1
  <2>2. Bit(o) = Odd(h) /\ Odd(h) \in 0..1
    <3>1. Bit(o + 0) = Odd(Rest(Window(payload, o), (o % 8) + 0))
      BY <1>7, <2>1, BitIs, Zenon
    <3> QED  BY <1>3, <1>7, <3>1, PartTypes, Zenon
  <2>3. ExtractBits(field) = Bit(o)
    BY <1>2, <1>8 DEF ExtractBits
  <2>4. Slice(payload, o, field.bitSize) = Odd(h) /\ Pow(field.bitSize) = 2
    <3>1. Slice(payload, o, field.bitSize) = Odd(h)
      BY <1>6, <1>8, LowBitsOf, Zenon
    <3>2. Pow(field.bitSize) = 2
      BY <1>8, PowersOfSizes, SMT
    <3> QED  BY <3>1, <3>2
  <2>5. ExtractBits(field) = Odd(h)
    BY ONLY <2>2, <2>3
  <2>6. Odd(h) \in Nat /\ Odd(h) < 2
    BY <2>2
  <2> QED  BY ONLY <1>1, <1>2, <2>4, <2>5, <2>6, Zenon
<1>9. CASE field.bitSize = 8
  <2>1. o + 0 + 8 <= 8 * Len(payload)
    <3>1. Len(payload) \in Nat  OBVIOUS
    <3> QED  BY <1>1, <1>2, <1>9, <3>1
  <2>2. Octet([i \in 0..7 |-> Bit(o + i)]) = Low(h)
    <3>1. Octet([i \in 0..7 |-> Bit((o + 0) + i)])
             = Low(Rest(Window(payload, o), (o % 8) + 0))
      BY <1>7, <2>1, OctetIs, Zenon
    <3> QED  BY ONLY <1>3, <1>7, <3>1
  <2>3. ExtractBits(field) = Octet([i \in 0..7 |-> Bit(o + i)])
    BY <1>2, <1>9 DEF ExtractBits
  <2>4. Slice(payload, o, field.bitSize) = Low(h)
    BY <1>6, <1>9, LowBitsOf, Zenon
  <2>5. Pow(field.bitSize) = 256
    BY <1>9, PowersOfSizes, SMT
  <2> QED  BY ONLY <1>1, <1>2, <1>4, <2>2, <2>3, <2>4, <2>5, SMT
<1>10. CASE field.bitSize = 16
  <2>1. o + 0 + 8 <= 8 * Len(payload) /\ o + 8 + 8 <= 8 * Len(payload)
    <3>1. Len(payload) \in Nat  OBVIOUS
    <3> QED  BY <1>1, <1>2, <1>10, <3>1
  <2>2. Octet([i \in 0..7 |-> Bit(o + i)]) = Low(h)
    <3>1. Octet([i \in 0..7 |-> Bit((o + 0) + i)])
             = Low(Rest(Window(payload, o), (o % 8) + 0))
      BY <1>7, <2>1, OctetIs, Zenon
    <3> QED  BY ONLY <1>3, <1>7, <3>1
  <2>3. Octet([i \in 0..7 |-> Bit((o + 8) + i)]) = Low(High(h))
    <3>1. PICK s \in 0..15 : s = o % 8
      OBVIOUS
    <3>2. Rest(Window(payload, o), (o % 8) + 8) = High(h)
      <4>1. Window(payload, o) \in Nat
        BY WindowNat
      <4>2. PICK w \in Nat : w = Window(payload, o)
        BY <4>1
      <4>3. Rest(w, s + 8) = High(Rest(w, s))
        BY RestOctet
      <4> QED  BY ONLY <1>3, <3>1, <4>2, <4>3
    <3>3. Octet([i \in 0..7 |-> Bit((o + 8) + i)])
             = Low(Rest(Window(payload, o), (o % 8) + 8))
      BY <1>7, <2>1, OctetIs, Zenon
    <3> QED  BY ONLY <3>2, <3>3
  <2>4. ExtractBits(field) = Octet([i \in 0..7 |-> Bit(o + i)])
                               + 256 * Octet([i \in 0..7 |-> Bit((o + 8) + i)])
    BY <1>2, <1>10 DEF ExtractBits
  <2>5. Slice(payload, o, field.bitSize) = Low16(h)
    BY <1>6, <1>10, LowBitsOf, Zenon
  <2>7. Pow(field.bitSize) = 65536
    BY <1>10, PowersOfSizes, SMT
  <2>6. ExtractBits(field) = Low(h) + 256 * Low(High(h))
    BY ONLY <2>2, <2>3, <2>4
  <2> QED  BY ONLY <1>1, <1>2, <1>4, <1>5, <2>5, <2>6, <2>7, SMT
<1> QED  BY <1>1, <1>8, <1>9, <1>10


-----------------------------------------------------------------------------
(* What a field of the report at hand says, by the bytes alone. *)

Fits(bytes, field) ==
    /\ field.kind = "Variable"
    /\ field.bitSize \in {1, 8, 16}
    /\ (field.bitOffset + field.bitSize + 7) \div 8 <= Len(bytes)

ValueFrom(bytes, field) == ValueIn(bytes, field.bitOffset, field.bitSize, field.signed)

LEMMA FieldParts ==
    ASSUME NEW field \in ReportField
    PROVE  /\ field.bitOffset \in Nat /\ field.bitSize \in Nat /\ field.signed \in BOOLEAN
           /\ field.usage \in Usages /\ field.kind \in {"Variable", "Array"}
<1>1. field.bitOffset \in U16 /\ field.bitSize \in Byte
  BY DEF ReportField
<1>2. field.bitOffset \in Nat /\ field.bitSize \in Nat
  BY <1>1, Widths, SMT
<1> QED  BY <1>2 DEF ReportField

(* The checks of decode_report come to this: the last bit is in the payload. *)
LEMMA DecodeErrorIs ==
    ASSUME payload \in Seq(Byte), NEW field \in ReportField
    PROVE  /\ DecodeError(field) = "none" <=> Fits(payload, field)
           /\ DecodeError(field) \in Errors \cup {"none"}
<1>1. PICK l \in Nat : l = Len(payload)
  OBVIOUS
<1>2. PICK e \in Nat : e = field.bitOffset + field.bitSize
  BY FieldParts
<1>3. \A n, m \in Nat : (n + 7) \div 8 <= m <=> ~(n > m * 8)
  OBVIOUS
<1>4. (e + 7) \div 8 <= l <=> ~(e > l * 8)
  BY <1>3
<1>5. field.kind \in {"Variable", "Array"}
  BY FieldParts
<1> QED  BY ONLY <1>1, <1>2, <1>4, <1>5 DEF DecodeError, Fits, Errors

(* Numbers of size bits, by their sign bit. *)
SignedOf(raw, size) == IF raw >= Pow(size - 1) THEN raw - Pow(size) ELSE raw

LEMMA SignedOfRaw ==
    ASSUME NEW size \in {1, 8, 16}, NEW raw \in Nat, raw < Pow(size)
    PROVE  /\ raw \in FieldValues
           /\ SignedOf(raw, size) \in FieldValues
           /\ raw >= Pow(size - 1) <=> 2 * raw >= Pow(size)
<1>1. \/ Pow(size) = 2 /\ Pow(size - 1) = 1
      \/ Pow(size) = 256 /\ Pow(size - 1) = 128
      \/ Pow(size) = 65536 /\ Pow(size - 1) = 32768
  <2>1. 1 - 1 = 0 /\ 8 - 1 = 7 /\ 16 - 1 = 15
    OBVIOUS
  <2>2. CASE size = 1   BY <2>1, <2>2, PowersOfSizes, SMT
  <2>3. CASE size = 8   BY <2>1, <2>3, PowersOfSizes, SMT
  <2>4. CASE size = 16  BY <2>1, <2>4, PowersOfSizes, SMT
  <2> QED  BY <2>2, <2>3, <2>4
<1>2. PICK p \in Int, q \in Int :
        /\ p = Pow(size) /\ q = Pow(size - 1) /\ p = 2 * q /\ 0 <= q /\ q <= 32768
  BY <1>1, SMT
<1>3. /\ raw >= q <=> 2 * raw >= p
      /\ 0 <= raw /\ raw <= 65535
      /\ raw >= q => -32768 <= raw - p /\ raw - p <= 65535
  <2>1. raw < p
    BY <1>2
  <2> QED  BY <1>2, <2>1, SMT
<1> QED  BY <1>2, <1>3, Widths, SMT DEF SignedOf


LEMMA ValueIs ==
    ASSUME payload \in Seq(Byte), NEW field \in ReportField, Fits(payload, field)
    PROVE  /\ SignExtend(ExtractBits(field), field) = ValueFrom(payload, field)
           /\ ValueFrom(payload, field) \in FieldValues
<1>1. /\ field.bitSize \in {1, 8, 16}
      /\ ExtractBits(field) = Slice(payload, field.bitOffset, field.bitSize)
      /\ ExtractBits(field) \in Nat /\ ExtractBits(field) < Pow(field.bitSize)
  <2>1. DecodeError(field) = "none"
    BY DecodeErrorIs
  <2> QED  BY <2>1, ExtractIs
<1>2. PICK raw \in Nat : raw = Slice(payload, field.bitOffset, field.bitSize) /\ raw < Pow(field.bitSize)
  BY <1>1
<1>3. PICK size \in {1, 8, 16} : size = field.bitSize
  BY <1>1
<1>4. /\ raw \in FieldValues
      /\ SignedOf(raw, size) \in FieldValues
      /\ raw >= Pow(size - 1) <=> 2 * raw >= Pow(size)
  BY <1>2, <1>3, SignedOfRaw
<1>5. SignExtend(ExtractBits(field), field) = IF field.signed THEN SignedOf(raw, size) ELSE raw
  BY ONLY <1>1, <1>2, <1>3, Zenon DEF SignExtend, SignedOf, Pow
<1>6. ValueFrom(payload, field) = IF field.signed THEN SignedOf(raw, size) ELSE raw
  <2>1. ValueFrom(payload, field) = IF field.signed /\ 2 * raw >= Pow(size) THEN raw - Pow(size) ELSE raw
    BY ONLY <1>2, <1>3, Zenon DEF ValueFrom, ValueIn, Pow
  <2>2. CASE raw >= Pow(size - 1)
    BY ONLY <1>4, <2>1, <2>2, SMT DEF SignedOf
  <2>3. CASE ~(raw >= Pow(size - 1))
    BY ONLY <1>4, <2>1, <2>3, SMT DEF SignedOf
  <2> QED  BY <2>2, <2>3
<1>7. SignExtend(ExtractBits(field), field) = ValueFrom(payload, field)
  BY ONLY <1>5, <1>6, SMT
<1>8. ValueFrom(payload, field) \in FieldValues
  BY ONLY <1>4, <1>6, SMT
<1> QED  BY <1>7, <1>8


(* The checks of a field and of its value come to what the report allows. *)
Allowed(bytes, field) ==
    /\ Fits(bytes, field)
    /\ field.usage.control \in Axes => ValueFrom(bytes, field) < 32768
    /\ field.usage.control = "HatSwitch" => ValueFrom(bytes, field) + 1 \in 0..9
    /\ field.usage.control = "Button" => field.usage.button \in 1..BUTTON_COUNT

DecodedField(bytes, field) == [usage |-> field.usage, value |-> ValueFrom(bytes, field)]

LEMMA UsageParts ==
    ASSUME NEW usage \in Usages
    PROVE  /\ usage.control \in Axes \cup {"HatSwitch", "Other", "Button"}
           /\ usage.button \in Nat
           /\ usage = [control |-> usage.control, button |-> usage.button]
           /\ usage.control # "Button" => usage.button = 0
<1>1. usage.button \in U16 \/ usage.button = 0
  BY DEF Usages
<1>2. usage.button \in Nat
  BY <1>1, Widths, SMT
<1> QED  BY <1>2 DEF Usages, Axes

LEMMA Judged ==
    ASSUME NEW bytes, NEW field \in ReportField, Fits(bytes, field),
           ValueFrom(bytes, field) \in FieldValues
    PROVE  Allowed(bytes, field) <=> NormalizeError(DecodedField(bytes, field)) = "none"
<1> DEFINE f == DecodedField(bytes, field)
<1>1. PICK v \in FieldValues : v = ValueFrom(bytes, field)
  OBVIOUS
<1>2. f.usage = field.usage /\ f.value = v
  BY <1>1 DEF DecodedField
<1>3. v \in AxisValues <=> v < 32768
  BY Widths, SMT DEF AxisValues
<1>4. v \in HatValues <=> v + 1 \in 0..9
  <2>1. v \in Int  BY Widths
  <2> QED  BY ONLY <2>1, SMT DEF HatValues
<1>5. field.usage.button - 1 \in ButtonIndex <=> field.usage.button \in 1..BUTTON_COUNT
  <2>1. field.usage.button \in Nat  BY FieldParts, UsageParts
  <2> QED  BY ONLY <2>1, SMT DEF ButtonIndex, BUTTON_COUNT
<1> HIDE DEF f
<1>6. NormalizeError(f) = "none" <=>
        /\ ~(field.usage.control \in Axes /\ v \notin AxisValues)
        /\ ~(field.usage.control = "HatSwitch" /\ v \notin HatValues)
        /\ ~(field.usage.control = "Button" /\ field.usage.button - 1 \notin ButtonIndex)
  BY ONLY <1>2, SMT DEF NormalizeError
<1>7. Allowed(bytes, field) <=>
        /\ field.usage.control \in Axes => v < 32768
        /\ field.usage.control = "HatSwitch" => v + 1 \in 0..9
        /\ field.usage.control = "Button" => field.usage.button \in 1..BUTTON_COUNT
  BY ONLY <1>1, Fits(bytes, field), SMT DEF Allowed
<1> DEFINE ax == field.usage.control \in Axes
           ha == field.usage.control = "HatSwitch"
           bu == field.usage.control = "Button"
           okA == v < 32768
           okH == v + 1 \in 0..9
           okB == field.usage.button \in 1..BUTTON_COUNT
<1>8. NormalizeError(f) = "none" <=> ~(ax /\ ~okA) /\ ~(ha /\ ~okH) /\ ~(bu /\ ~okB)
  BY ONLY <1>3, <1>4, <1>5, <1>6, SMT
<1>9. Allowed(bytes, field) <=> (ax => okA) /\ (ha => okH) /\ (bu => okB)
  BY ONLY <1>7
<1>10. Allowed(bytes, field) <=> NormalizeError(f) = "none"
  <2> HIDE DEF ax, ha, bu, okA, okH, okB
  <2> QED  BY ONLY <1>8, <1>9
<1> QED  BY ONLY <1>10, Zenon DEF f

LEMMA AllowedFits ==
    ASSUME NEW bytes, NEW field, Allowed(bytes, field)
    PROVE  Fits(bytes, field)
BY SMT DEF Allowed

LEMMA NormalizeErrorIs ==
    ASSUME NEW field
    PROVE  NormalizeError(field) \in Errors \cup {"none"}
BY DEF NormalizeError, Errors


-----------------------------------------------------------------------------
(* The loop of decode_report. *)

(* The indices of the fields of a report. *)
Own(fields, id) == {i \in DOMAIN fields : fields[i].reportId = id}

(* at lists n of them: those before reach, in order. *)
Picks(fields, id, reach, n, at) ==
    /\ at \in [1..n -> Own(fields, id)]
    /\ \A j \in 1..n : at[j] < reach
    /\ \A j, k \in 1..n : j < k => at[j] < at[k]
    /\ \A i \in Own(fields, id) : i < reach => \E j \in 1..n : at[j] = i

(* What the loop has taken out of the bytes when it is at reach. *)
DecodesTo(fields, id, bytes, reach, out) ==
    \E at \in [1..Len(out) -> Own(fields, id)] :
        /\ Picks(fields, id, reach, Len(out), at)
        /\ \A j \in 1..Len(out) : /\ Fits(bytes, fields[at[j]])
                                  /\ out[j] = DecodedField(bytes, fields[at[j]])

LEMMA DecodesNone ==
    ASSUME NEW fields \in Seq(ReportField), NEW id, NEW bytes
    PROVE  DecodesTo(fields, id, bytes, 1, <<>>)
<1> DEFINE at == [j \in 1..0 |-> 1]
<1>1. Len(<<>>) = 0 /\ 1..0 = {}
  OBVIOUS
<1>2. at \in [1..0 -> Own(fields, id)]
  BY <1>1
<1>3. \A i \in Own(fields, id) : ~(i < 1)
  BY DEF Own
<1>4. Picks(fields, id, 1, 0, at)
  BY <1>1, <1>2, <1>3 DEF Picks
<1> QED  BY <1>1, <1>2, <1>4 DEF DecodesTo

(* A field of another report is skipped. *)
LEMMA DecodesSkip ==
    ASSUME NEW fields \in Seq(ReportField), NEW id, NEW bytes, NEW out,
           NEW reach \in DOMAIN fields, reach \notin Own(fields, id),
           DecodesTo(fields, id, bytes, reach, out)
    PROVE  DecodesTo(fields, id, bytes, reach + 1, out)
<1>1. reach \in Nat /\ \A i \in Own(fields, id) : i \in Nat /\ i # reach
  BY DEF Own
<1>2. \A i \in Own(fields, id) : i < reach <=> i < reach + 1
  BY <1>1
<1>3. PICK at \in [1..Len(out) -> Own(fields, id)] :
        /\ Picks(fields, id, reach, Len(out), at)
        /\ \A j \in 1..Len(out) : /\ Fits(bytes, fields[at[j]])
                                  /\ out[j] = DecodedField(bytes, fields[at[j]])
  BY DEF DecodesTo
<1>4. Picks(fields, id, reach + 1, Len(out), at)
  BY <1>2, <1>3, Zenon DEF Picks
<1> QED  BY <1>3, <1>4, Zenon DEF DecodesTo

(* A field of the report that can be read adds its value. *)
LEMMA DecodesField ==
    ASSUME NEW fields \in Seq(ReportField), NEW id, NEW bytes, NEW S, NEW out \in Seq(S),
           NEW reach \in Own(fields, id), Fits(bytes, fields[reach]),
           DecodesTo(fields, id, bytes, reach, out)
    PROVE  DecodesTo(fields, id, bytes, reach + 1,
                     Append(out, DecodedField(bytes, fields[reach])))
<1>1. reach \in Nat /\ \A i \in Own(fields, id) : i \in Nat
  BY DEF Own
<1>2. PICK n \in Nat : n = Len(out)
  OBVIOUS
<1>3. PICK at \in [1..n -> Own(fields, id)] :
        /\ Picks(fields, id, reach, n, at)
        /\ \A j \in 1..n : /\ Fits(bytes, fields[at[j]])
                           /\ out[j] = DecodedField(bytes, fields[at[j]])
  BY <1>2 DEF DecodesTo
<1> DEFINE more == Append(out, DecodedField(bytes, fields[reach]))
           then == [j \in 1..(n + 1) |-> IF j = n + 1 THEN reach ELSE at[j]]
<1>4. /\ Len(more) = n + 1 /\ more[n + 1] = DecodedField(bytes, fields[reach])
      /\ \A j \in 1..n : more[j] = out[j]
  BY <1>2
<1>5. /\ n + 1 \in 1..(n + 1) /\ 1..(n + 1) = 1..n \cup {n + 1}
      /\ \A j \in 1..n : j # n + 1 /\ j < n + 1 /\ j \in 1..(n + 1)
      /\ \A j \in 1..(n + 1) : ~(n + 1 < j)
  OBVIOUS
<1>6. then[n + 1] = reach /\ \A j \in 1..n : then[j] = at[j]
  BY <1>5
<1>7. then \in [1..(n + 1) -> Own(fields, id)]
  BY <1>3, <1>5
<1> HIDE DEF more, then
<1>8. Picks(fields, id, reach + 1, n + 1, then)
  <2>1. \A j \in 1..n : at[j] \in Own(fields, id) /\ at[j] < reach
    BY <1>3 DEF Picks
  <2>2. \A j \in 1..(n + 1) : then[j] < reach + 1
    <3>1. \A m \in Nat : m < reach => m < reach + 1
      BY <1>1
    <3>2. reach < reach + 1
      BY <1>1
    <3> QED  BY ONLY <1>1, <1>5, <1>6, <2>1, <3>1, <3>2, Zenon
  <2>3. \A j, k \in 1..(n + 1) : j < k => then[j] < then[k]
    <3> SUFFICES ASSUME NEW j \in 1..(n + 1), NEW k \in 1..(n + 1), j < k
                 PROVE  then[j] < then[k]
      OBVIOUS
    <3>1. j \in 1..n
      BY <1>5
    <3>2. CASE k = n + 1
      BY <1>6, <2>1, <3>1, <3>2
    <3>3. CASE k \in 1..n
      BY <1>3, <1>6, <3>1, <3>3, Zenon DEF Picks
    <3> QED  BY <1>5, <3>2, <3>3
  <2>4. \A i \in Own(fields, id) : i < reach + 1 => \E j \in 1..(n + 1) : then[j] = i
    <3> SUFFICES ASSUME NEW i \in Own(fields, id), i < reach + 1
                 PROVE  \E j \in 1..(n + 1) : then[j] = i
      OBVIOUS
    <3>1. i = reach \/ i < reach
      BY <1>1
    <3>2. CASE i = reach
      BY <1>5, <1>6, <3>2
    <3>3. CASE i < reach
      <4>1. PICK j \in 1..n : at[j] = i
        BY <1>3, <3>3 DEF Picks
      <4> QED  BY <1>5, <1>6, <4>1
    <3> QED  BY <3>1, <3>2, <3>3
  <2> QED  BY <1>7, <2>2, <2>3, <2>4, Zenon DEF Picks
<1>9. \A j \in 1..(n + 1) : /\ Fits(bytes, fields[then[j]])
                            /\ more[j] = DecodedField(bytes, fields[then[j]])
  BY ONLY <1>3, <1>4, <1>5, <1>6, Fits(bytes, fields[reach])
<1>10. DecodesTo(fields, id, bytes, reach + 1, more)
  BY ONLY <1>4, <1>7, <1>8, <1>9, Zenon DEF DecodesTo
<1> QED  BY <1>10 DEF more


-----------------------------------------------------------------------------
(* The loop of normalize_decoded_report. *)

DecodedFields == [usage : Usages, value : FieldValues]

(* v is the value of the last of the first n entries with the usage. *)
Holds(out, n, usage, none, v) ==
    \/ (\A j \in 1..n : out[j].usage # usage) /\ v = none
    \/ \E j \in 1..n : /\ out[j].usage = usage /\ out[j].value = v
                       /\ \A k \in 1..n : k > j => out[k].usage # usage

LEMMA HoldsNone ==
    ASSUME NEW out, NEW usage, NEW none
    PROVE  Holds(out, 0, usage, none, none)
BY DEF Holds

LEMMA HoldsStep ==
    ASSUME NEW out, NEW n \in Nat, NEW usage, NEW none, NEW v, Holds(out, n, usage, none, v)
    PROVE  /\ out[n + 1].usage # usage => Holds(out, n + 1, usage, none, v)
           /\ out[n + 1].usage = usage => Holds(out, n + 1, usage, none, out[n + 1].value)
<1>1. /\ n + 1 \in 1..(n + 1) /\ \A j \in 1..n : j \in 1..(n + 1) /\ n + 1 > j
      /\ \A j \in 1..(n + 1) : j \in 1..n \/ j = n + 1
      /\ \A j \in 1..(n + 1) : ~(j > n + 1)
  OBVIOUS
<1> QED  BY ONLY <1>1, Holds(out, n, usage, none, v), Zenon DEF Holds

AxisUsage(a) == [control |-> a, button |-> 0]
HatUsage == [control |-> "HatSwitch", button |-> 0]
ButtonUsage(b) == [control |-> "Button", button |-> b + 1]

(* The state that the first n entries lead to. *)
Collects(out, n, s) ==
    /\ s \in JoystickState
    /\ \A a \in Axes : Holds(out, n, AxisUsage(a), 0, s.axis[a])
    /\ \E v \in HatValues : Holds(out, n, HatUsage, -1, v) /\ s.hat = HatOf(v)
    /\ \A b \in ButtonIndex :
          \E v \in FieldValues : /\ Holds(out, n, ButtonUsage(b), 0, v)
                                 /\ b \in s.buttons <=> v # 0

LEMMA DefaultState == Default \in JoystickState
<1>1. 0 \in I16
  BY Widths, SMT
<1> QED  BY <1>1 DEF Default, JoystickState, Hats, ButtonIndex

LEMMA CollectsNone ==
    ASSUME NEW out
    PROVE  Collects(out, 0, Default)
<1>1. \A u : Holds(out, 0, u, 0, 0) /\ Holds(out, 0, u, -1, -1)
  BY HoldsNone
<1>2. Default.axis = [a \in Axes |-> 0] /\ Default.hat = "Centered" /\ Default.buttons = {}
  BY DEF Default
<1>3. -1 \in HatValues /\ HatOf(-1) = "Centered"
  BY SMT DEF HatValues, HatOf
<1>4. 0 \in FieldValues
  BY Widths, SMT
<1>5. \A a \in Axes : Holds(out, 0, AxisUsage(a), 0, Default.axis[a])
  BY <1>1, <1>2
<1>6. \A b \in ButtonIndex :
          \E v \in FieldValues : /\ Holds(out, 0, ButtonUsage(b), 0, v)
                                 /\ b \in Default.buttons <=> v # 0
  BY ONLY <1>1, <1>2, <1>4, Zenon
<1> QED  BY ONLY <1>1, <1>2, <1>3, <1>5, <1>6, DefaultState, Zenon DEF Collects

(* The state after an entry. *)
Result(s, field) ==
    CASE field.usage.control \in Axes ->
           [s EXCEPT !.axis[field.usage.control] = field.value]
      [] field.usage.control = "HatSwitch" -> [s EXCEPT !.hat = HatOf(field.value)]
      [] field.usage.control = "Button" ->
           [s EXCEPT !.buttons = SetButton(@, field.usage.button - 1, field.value # 0)]
      [] OTHER -> s

LEMMA ResultIs ==
    ASSUME NEW field, Apply(field)
    PROVE  state' = Result(state, field)
<1>1. CASE field.usage.control \in Axes
  BY <1>1 DEF Apply, Result, Axes
<1>2. CASE field.usage.control = "HatSwitch"
  BY <1>2 DEF Apply, Result, Axes
<1>3. CASE field.usage.control = "Button"
  BY <1>3 DEF Apply, Result, Axes
<1>4. CASE field.usage.control \notin Axes \cup {"HatSwitch", "Button"}
  BY <1>4 DEF Apply, Result
<1> QED  BY <1>1, <1>2, <1>3, <1>4

LEMMA HatOfType ==
    ASSUME NEW v \in HatValues
    PROVE  HatOf(v) \in Hats
<1>1. v = -1 \/ v = 8 \/ v \in 0..7
  BY DEF HatValues
<1>2. CASE v \in 0..7
  <2>1. v + 1 \in 1..8 /\ v \notin {-1, 8}
    BY <1>2
  <2>2. \A i \in 1..8 : HatNames[i] \in Hats
    <3> SUFFICES ASSUME NEW i \in 1..8 PROVE HatNames[i] \in Hats
      OBVIOUS
    <3>1. i = 1 \/ i = 2 \/ i = 3 \/ i = 4 \/ i = 5 \/ i = 6 \/ i = 7 \/ i = 8
      OBVIOUS
    <3> QED  BY <3>1 DEF HatNames, Hats
  <2> QED  BY ONLY <2>1, <2>2, Zenon DEF HatOf
<1>3. CASE v = -1 \/ v = 8
  BY <1>3, Zenon DEF HatOf, Hats
<1> QED  BY <1>1, <1>2, <1>3


LEMMA CollectsStep ==
    ASSUME NEW out, NEW n \in Nat, NEW s, Collects(out, n, s),
           out[n + 1] \in DecodedFields, NormalizeError(out[n + 1]) = "none"
    PROVE  Collects(out, n + 1, Result(s, out[n + 1]))
<1>1. PICK f : f = out[n + 1]
  OBVIOUS
<1>2. PICK u, x : u = f.usage /\ x = f.value
  OBVIOUS
<1>3. u \in Usages /\ x \in FieldValues
  BY <1>1, <1>2 DEF DecodedFields
<1>4. PICK r : r = Result(s, f)
  OBVIOUS
<1>5. \A w, none, v : Holds(out, n, w, none, v) =>
        /\ u # w => Holds(out, n + 1, w, none, v)
        /\ u = w => Holds(out, n + 1, w, none, x)
  BY <1>1, <1>2, HoldsStep
<1>6. /\ s \in JoystickState
      /\ \A a \in Axes : Holds(out, n, AxisUsage(a), 0, s.axis[a])
      /\ \A b \in ButtonIndex :
            \E v \in FieldValues : /\ Holds(out, n, ButtonUsage(b), 0, v)
                                   /\ b \in s.buttons <=> v # 0
  BY DEF Collects
<1>7. PICK hat \in HatValues : Holds(out, n, HatUsage, -1, hat) /\ s.hat = HatOf(hat)
  BY DEF Collects
<1>8. /\ u.control \in Axes \cup {"HatSwitch", "Other", "Button"}
      /\ u = [control |-> u.control, button |-> u.button]
      /\ u.control # "Button" => u.button = 0
      /\ u.button \in Nat
  BY <1>3, UsageParts
<1>9. /\ s.axis \in [Axes -> I16] /\ s.hat \in Hats /\ s.buttons \in SUBSET ButtonIndex
      /\ s = [axis |-> s.axis, hat |-> s.hat, buttons |-> s.buttons]
  BY <1>6 DEF JoystickState
<1>10. /\ \A a \in Axes : AxisUsage(a).control = a /\ a # "Button" /\ a # "HatSwitch"
       /\ \A b : ButtonUsage(b).control = "Button" /\ ButtonUsage(b).button = b + 1
       /\ HatUsage.control = "HatSwitch" /\ "HatSwitch" # "Button"
  BY DEF AxisUsage, ButtonUsage, HatUsage, Axes
<1>11. CASE u.control \in Axes
  <2>1. u.control # "Button" /\ u.control # "HatSwitch"
    BY <1>11 DEF Axes
  <2>2. u = AxisUsage(u.control)
    BY <1>8, <2>1 DEF AxisUsage
  <2>3. x \in I16
    BY <1>1, <1>2, <1>11 DEF NormalizeError, AxisValues
  <2>4. r = [s EXCEPT !.axis[u.control] = x]
    <3>1. f.usage.control \in Axes /\ f.usage.control # "HatSwitch" /\ f.usage.control # "Button"
      BY ONLY <1>2, <1>11, <2>1
    <3>2. Result(s, f) = [s EXCEPT !.axis[f.usage.control] = f.value]
      BY ONLY <3>1, Zenon DEF Result
    <3> QED  BY ONLY <1>2, <1>4, <3>2, Zenon
  <2>5. /\ r.axis = [s.axis EXCEPT ![u.control] = x] /\ r.hat = s.hat /\ r.buttons = s.buttons
        /\ r \in JoystickState
    BY <1>9, <1>11, <2>3, <2>4 DEF JoystickState
  <2>6. \A a \in Axes : Holds(out, n + 1, AxisUsage(a), 0, r.axis[a])
    <3> SUFFICES ASSUME NEW a \in Axes PROVE Holds(out, n + 1, AxisUsage(a), 0, r.axis[a])
      OBVIOUS
    <3>1. CASE a = u.control
      <4>1. r.axis[a] = x
        BY <1>9, <2>5, <3>1
      <4> QED  BY <1>5, <1>6, <2>2, <3>1, <4>1, Zenon
    <3>2. CASE a # u.control
      <4>1. r.axis[a] = s.axis[a]
        BY <1>9, <2>5, <3>2
      <4>2. u # AxisUsage(a)
        BY <1>10, <3>2, Zenon
      <4> QED  BY <1>5, <1>6, <4>1, <4>2, Zenon
    <3> QED  BY <3>1, <3>2
  <2>7. u # HatUsage /\ \A b \in ButtonIndex : u # ButtonUsage(b)
    BY <1>10, <2>1, Zenon
  <2> QED  BY ONLY <1>1, <1>4, <1>5, <1>6, <1>7, <2>5, <2>6, <2>7, Zenon DEF Collects
<1>12. CASE u.control = "HatSwitch"
  <2>1. u = HatUsage /\ u.control \notin Axes
    BY <1>8, <1>12 DEF HatUsage, Axes
  <2>2. x \in HatValues
    BY <1>1, <1>2, <1>12 DEF NormalizeError
  <2>3. r = [s EXCEPT !.hat = HatOf(x)]
    BY <1>2, <1>4, <1>12, <2>1 DEF Result
  <2>4. HatOf(x) \in Hats
    BY <2>2, HatOfType
  <2>5. /\ r.axis = s.axis /\ r.hat = HatOf(x) /\ r.buttons = s.buttons
        /\ r \in JoystickState
    BY <1>9, <2>3, <2>4 DEF JoystickState
  <2>6. Holds(out, n + 1, HatUsage, -1, x)
    BY <1>5, <1>7, <2>1, Zenon
  <2>7. /\ \A a \in Axes : u # AxisUsage(a)
        /\ \A b \in ButtonIndex : u # ButtonUsage(b)
    BY <1>10, <1>12, Zenon
  <2> QED  BY ONLY <1>1, <1>4, <1>5, <1>6, <2>2, <2>5, <2>6, <2>7, Zenon DEF Collects
<1>13. CASE u.control = "Button"
  <2>1. u.control \notin Axes /\ u # HatUsage /\ \A a \in Axes : u # AxisUsage(a)
    BY <1>10, <1>13, Zenon DEF Axes
  <2>2. PICK c \in ButtonIndex : c = u.button - 1
    BY <1>1, <1>2, <1>13 DEF NormalizeError, Axes
  <2>3. u = ButtonUsage(c) /\ \A b \in ButtonIndex : u = ButtonUsage(b) <=> b = c
    <3>1. \A b \in ButtonIndex : b + 1 = u.button <=> b = c
      BY <1>8, <2>2 DEF ButtonIndex
    <3>2. c + 1 = u.button
      BY <1>8, <2>2
    <3>3. u = ButtonUsage(c)
      BY <1>8, <1>13, <3>2 DEF ButtonUsage
    <3>4. \A b \in ButtonIndex : u = ButtonUsage(b) => b = c
      BY ONLY <1>10, <3>1, Zenon
    <3> QED  BY <3>3, <3>4
  <2>4. r = [s EXCEPT !.buttons = SetButton(@, c, x # 0)]
    BY <1>2, <1>4, <1>13, <2>1, <2>2 DEF Result
  <2>5. /\ r.axis = s.axis /\ r.hat = s.hat
        /\ r.buttons = IF x # 0 THEN s.buttons \cup {c} ELSE s.buttons \ {c}
        /\ r \in JoystickState
    BY <1>9, <2>2, <2>4 DEF JoystickState, SetButton
  <2>6. \A b \in ButtonIndex : \E v \in FieldValues : /\ Holds(out, n + 1, ButtonUsage(b), 0, v)
                                                      /\ b \in r.buttons <=> v # 0
    <3> SUFFICES ASSUME NEW b \in ButtonIndex
                 PROVE  \E v \in FieldValues : /\ Holds(out, n + 1, ButtonUsage(b), 0, v)
                                               /\ b \in r.buttons <=> v # 0
      OBVIOUS
    <3>1. PICK v \in FieldValues : Holds(out, n, ButtonUsage(b), 0, v) /\ (b \in s.buttons <=> v # 0)
      BY <1>6
    <3>2. CASE b = c
      <4>1. Holds(out, n + 1, ButtonUsage(b), 0, x)
        BY <1>5, <2>3, <3>1, <3>2, Zenon
      <4>2. b \in r.buttons <=> x # 0
        BY ONLY <2>5, <3>2
      <4> QED  BY ONLY <1>3, <4>1, <4>2, Zenon
    <3>3. CASE b # c
      <4>1. Holds(out, n + 1, ButtonUsage(b), 0, v)
        BY <1>5, <2>3, <3>1, <3>3, Zenon
      <4>2. b \in r.buttons <=> v # 0
        BY ONLY <2>5, <3>1, <3>3
      <4> QED  BY ONLY v \in FieldValues, <4>1, <4>2, Zenon
    <3> QED  BY <3>2, <3>3
  <2> QED  BY ONLY <1>1, <1>4, <1>5, <1>6, <1>7, <2>1, <2>5, <2>6, Zenon DEF Collects
<1>14. CASE u.control = "Other"
  <2>1. u.control \notin Axes \cup {"HatSwitch", "Button"}
    BY <1>14 DEF Axes
  <2>2. r = s
    BY <1>2, <1>4, <2>1 DEF Result
  <2>3. /\ \A a \in Axes : u # AxisUsage(a)
        /\ \A b \in ButtonIndex : u # ButtonUsage(b)
        /\ u # HatUsage
    BY <1>10, <2>1, Zenon
  <2> QED  BY ONLY <1>1, <1>4, <1>5, <1>6, <1>7, <2>2, <2>3, Zenon DEF Collects
<1> QED  BY <1>8, <1>11, <1>12, <1>13, <1>14


-----------------------------------------------------------------------------
(* The encoder. *)

LEMMA SmallBytes ==
    ASSUME NEW n \in Int
    PROVE  Low(n) \in Byte /\ Low(High(n)) \in Byte /\ High(n) \in Int
<1>1. \A m \in Int : Low(m) \in Int /\ 0 <= Low(m) /\ Low(m) <= 255
  BY SMT DEF Low
<1>2. High(n) \in Int
  BY SMT DEF High
<1> QED  BY <1>1, <1>2, Widths, SMT

(* Octets of bits. *)
LEMMA OctetType ==
    ASSUME NEW b \in [0..7 -> 0..1]
    PROVE  Octet(b) \in Nat /\ Octet(b) < 256
<1>1. /\ b[0] \in 0..1 /\ b[1] \in 0..1 /\ b[2] \in 0..1 /\ b[3] \in 0..1
      /\ b[4] \in 0..1 /\ b[5] \in 0..1 /\ b[6] \in 0..1 /\ b[7] \in 0..1
  OBVIOUS
<1> QED  BY ONLY <1>1 DEF Octet

Pressed(buttons, n) == [i \in 0..7 |-> IF n + i \in buttons THEN 1 ELSE 0]

LEMMA ButtonBitsIs ==
    ASSUME NEW buttons
    PROVE  /\ ButtonBits(buttons) \in Nat
           /\ Low(ButtonBits(buttons)) = Octet(Pressed(buttons, 0))
           /\ Low(High(ButtonBits(buttons))) = Octet(Pressed(buttons, 8))
           /\ Octet(Pressed(buttons, 0)) \in Byte /\ Octet(Pressed(buttons, 8)) \in Byte
<1>1. \A n : Pressed(buttons, n) \in [0..7 -> 0..1]
  BY DEF Pressed
<1>2. PICK a \in Nat, b \in Nat : /\ a = Octet(Pressed(buttons, 0)) /\ a < 256
                                  /\ b = Octet(Pressed(buttons, 8)) /\ b < 256
  BY <1>1, OctetType
<1>3. ButtonBits(buttons) = a + 256 * b
  BY ONLY <1>2, Zenon DEF ButtonBits, Pressed
<1>4. Low(a + 256 * b) = a /\ High(a + 256 * b) = b /\ Low(b) = b
  BY <1>2, SMT DEF Low, High
<1>5. a \in Byte /\ b \in Byte /\ a + 256 * b \in Nat
  BY <1>2, Widths, SMT
<1> QED  BY ONLY <1>2, <1>3, <1>4, <1>5

(* The names of the hat and their numbers. *)
LEMMA HatWire ==
    /\ HatToWire("Centered") = 8
    /\ \A v \in 0..7 : HatToWire(HatNames[v + 1]) = v
<1>1. \A i \in 0..7, j \in 0..7 : HatNames[i + 1] = HatNames[j + 1] => i = j
  <2> SUFFICES ASSUME NEW i \in 0..7, NEW j \in 0..7, HatNames[i + 1] = HatNames[j + 1]
               PROVE  i = j
    OBVIOUS
  <2>1. i = 0 \/ i = 1 \/ i = 2 \/ i = 3 \/ i = 4 \/ i = 5 \/ i = 6 \/ i = 7
    OBVIOUS
  <2>2. j = 0 \/ j = 1 \/ j = 2 \/ j = 3 \/ j = 4 \/ j = 5 \/ j = 6 \/ j = 7
    OBVIOUS
  <2> QED  BY <2>1, <2>2 DEF HatNames
<1>2. \A i \in 0..7 : HatNames[i + 1] # "Centered"
  <2> SUFFICES ASSUME NEW i \in 0..7 PROVE HatNames[i + 1] # "Centered"
    OBVIOUS
  <2>1. i = 0 \/ i = 1 \/ i = 2 \/ i = 3 \/ i = 4 \/ i = 5 \/ i = 6 \/ i = 7
    OBVIOUS
  <2> QED  BY <2>1 DEF HatNames
<1>3. \A v \in 0..7 : (CHOOSE i \in 0..7 : HatNames[i + 1] = HatNames[v + 1]) = v
  <2> SUFFICES ASSUME NEW v \in 0..7
               PROVE  (CHOOSE i \in 0..7 : HatNames[i + 1] = HatNames[v + 1]) = v
    OBVIOUS
  <2> DEFINE c == CHOOSE i \in 0..7 : HatNames[i + 1] = HatNames[v + 1]
  <2>1. c \in 0..7 /\ HatNames[c + 1] = HatNames[v + 1]
    BY ONLY v \in 0..7, Zenon
  <2> QED  BY ONLY <1>1, <2>1, v \in 0..7, Zenon
<1>4. \A v \in 0..7 : HatToWire(HatNames[v + 1]) = v
  BY ONLY <1>2, <1>3, Zenon DEF HatToWire
<1> QED  BY <1>4, Zenon DEF HatToWire

LEMMA HatToWireIs ==
    ASSUME NEW v \in HatValues
    PROVE  /\ HatToWire(HatOf(v)) = IF v \in 0..7 THEN v ELSE 8
           /\ HatToWire(HatOf(v)) \in 0..8
<1>1. CASE v \in 0..7
  <2>1. v \notin {-1, 8}
    BY <1>1
  <2>2. HatOf(v) = HatNames[v + 1]
    BY <2>1 DEF HatOf
  <2> QED  BY <1>1, <2>2, HatWire
<1>2. CASE v \notin 0..7
  <2>1. v \in {-1, 8}
    BY <1>2 DEF HatValues
  <2>2. HatOf(v) = "Centered"
    BY <2>1, Zenon DEF HatOf
  <2> QED  BY <1>2, <2>2, HatWire
<1> QED  BY <1>1, <1>2


LEMMA HatWireType ==
    ASSUME NEW hat \in Hats
    PROVE  HatToWire(hat) \in 0..8
<1>1. CASE hat = "Centered"
  BY <1>1, HatWire
<1>2. CASE hat # "Centered"
  <2>1. \E v \in 0..7 : HatNames[v + 1] = hat
    <3>1. /\ HatNames[0 + 1] = "Up" /\ HatNames[1 + 1] = "UpRight" /\ HatNames[2 + 1] = "Right"
          /\ HatNames[3 + 1] = "DownRight" /\ HatNames[4 + 1] = "Down"
          /\ HatNames[5 + 1] = "DownLeft" /\ HatNames[6 + 1] = "Left" /\ HatNames[7 + 1] = "UpLeft"
      BY DEF HatNames
    <3>2. /\ 0 \in 0..7 /\ 1 \in 0..7 /\ 2 \in 0..7 /\ 3 \in 0..7
          /\ 4 \in 0..7 /\ 5 \in 0..7 /\ 6 \in 0..7 /\ 7 \in 0..7
      OBVIOUS
    <3> QED  BY ONLY <1>2, <3>1, <3>2, hat \in Hats, Zenon DEF Hats
  <2> QED  BY <2>1, HatWire
<1> QED  BY <1>1, <1>2

(* One byte and two bytes behind n others. *)
OneMore(s, n, p, r) ==
    /\ r \in Seq(Byte) /\ Len(r) = n + 1 /\ r[n + 1] = p
    /\ \A i \in 1..n : r[i] = s[i]

TwoMore(s, n, p, q, r) ==
    /\ r \in Seq(Byte) /\ Len(r) = n + 2 /\ r[n + 1] = p /\ r[n + 2] = q
    /\ \A i \in 1..n : r[i] = s[i]

LEMMA PutOne ==
    ASSUME NEW s \in Seq(Byte), NEW p \in Byte
    PROVE  OneMore(s, Len(s), p, s \o <<p>>)
BY DEF OneMore

LEMMA PutTwo ==
    ASSUME NEW s \in Seq(Byte), NEW p \in Byte, NEW q \in Byte
    PROVE  TwoMore(s, Len(s), p, q, s \o <<p, q>>)
BY DEF TwoMore

LEMMA LeBytesIs ==
    ASSUME NEW n
    PROVE  LeBytes(n) = <<Low(n), Low(High(n))>>
BY DEF LeBytes, Low, High

(* The bytes of a report, one by one. *)
Ten(w, b1, b2, b3, b4, b5, b6, b7, b8, b9, b10) ==
    /\ w \in Seq(Byte) /\ Len(w) = 10
    /\ w[1] = b1 /\ w[2] = b2 /\ w[3] = b3 /\ w[4] = b4 /\ w[5] = b5
    /\ w[6] = b6 /\ w[7] = b7 /\ w[8] = b8 /\ w[9] = b9 /\ w[10] = b10

LEMMA TenBytes ==
    ASSUME NEW b1 \in Byte, NEW b2 \in Byte, NEW b3 \in Byte, NEW b4 \in Byte, NEW b5 \in Byte,
           NEW b6 \in Byte, NEW b7 \in Byte, NEW b8 \in Byte, NEW b9 \in Byte, NEW b10 \in Byte
    PROVE  Ten(<<b1>> \o <<b2, b3>> \o <<b4, b5>> \o <<b6, b7>> \o <<b8>> \o <<b9, b10>>,
               b1, b2, b3, b4, b5, b6, b7, b8, b9, b10)
<1> DEFINE w1 == <<b1>>
           w3 == w1 \o <<b2, b3>>
           w5 == w3 \o <<b4, b5>>
           w7 == w5 \o <<b6, b7>>
           w8 == w7 \o <<b8>>
           w10 == w8 \o <<b9, b10>>
<1>1. w1 \in Seq(Byte) /\ Len(w1) = 1 /\ w1[1] = b1
  OBVIOUS
<1>3. /\ 1 + 1 = 2 /\ 1 + 2 = 3 /\ 3 + 1 = 4 /\ 3 + 2 = 5 /\ 5 + 1 = 6 /\ 5 + 2 = 7 /\ 7 + 1 = 8
      /\ 8 + 1 = 9 /\ 8 + 2 = 10 /\ 1 \in Nat /\ 3 \in Nat /\ 5 \in Nat /\ 7 \in Nat /\ 8 \in Nat
      /\ 1 \in 1..1 /\ {1, 2, 3} \subseteq 1..3 /\ {1, 2, 3, 4, 5} \subseteq 1..5
      /\ {1, 2, 3, 4, 5, 6, 7} \subseteq 1..7 /\ {1, 2, 3, 4, 5, 6, 7, 8} \subseteq 1..8
  OBVIOUS
<1> HIDE DEF w1
<1>4. /\ w3 \in Seq(Byte) /\ Len(w3) = 3 /\ w3[2] = b2 /\ w3[3] = b3
      /\ \A i \in 1..1 : w3[i] = w1[i]
  <2>1. TwoMore(w1, Len(w1), b2, b3, w3)
    BY <1>1, PutTwo, Zenon
  <2> QED  BY ONLY <1>1, <1>3, <2>1, Zenon DEF TwoMore
<1> HIDE DEF w3
<1>5. /\ w5 \in Seq(Byte) /\ Len(w5) = 5 /\ w5[4] = b4 /\ w5[5] = b5
      /\ \A i \in 1..3 : w5[i] = w3[i]
  <2>1. TwoMore(w3, Len(w3), b4, b5, w5)
    BY <1>4, PutTwo, Zenon
  <2> QED  BY ONLY <1>4, <1>3, <2>1, Zenon DEF TwoMore
<1> HIDE DEF w5
<1>6. /\ w7 \in Seq(Byte) /\ Len(w7) = 7 /\ w7[6] = b6 /\ w7[7] = b7
      /\ \A i \in 1..5 : w7[i] = w5[i]
  <2>1. TwoMore(w5, Len(w5), b6, b7, w7)
    BY <1>5, PutTwo, Zenon
  <2> QED  BY ONLY <1>5, <1>3, <2>1, Zenon DEF TwoMore
<1> HIDE DEF w7
<1>7. /\ w8 \in Seq(Byte) /\ Len(w8) = 8 /\ w8[8] = b8
      /\ \A i \in 1..7 : w8[i] = w7[i]
  <2>1. OneMore(w7, Len(w7), b8, w8)
    BY <1>6, PutOne, Zenon
  <2> QED  BY ONLY <1>6, <1>3, <2>1, Zenon DEF OneMore
<1> HIDE DEF w8
<1>8. /\ w10 \in Seq(Byte) /\ Len(w10) = 10 /\ w10[9] = b9 /\ w10[10] = b10
      /\ \A i \in 1..8 : w10[i] = w8[i]
  <2>1. TwoMore(w8, Len(w8), b9, b10, w10)
    BY <1>7, PutTwo, Zenon
  <2> QED  BY ONLY <1>7, <1>3, <2>1, Zenon DEF TwoMore
<1> HIDE DEF w10
<1>9. Ten(w10, b1, b2, b3, b4, b5, b6, b7, b8, b9, b10)
  BY ONLY <1>1, <1>3, <1>4, <1>5, <1>6, <1>7, <1>8 DEF Ten
<1> QED  BY ONLY <1>9, Zenon DEF w1, w3, w5, w7, w8, w10

LEMMA EncodeIs ==
    ASSUME NEW s \in JoystickState, NEW w, w = Encode(s)
    PROVE  /\ w \in Seq(Byte) /\ Len(w) = 10 /\ w[1] = 1
           /\ w[2] = Low(s.axis["X"]) /\ w[3] = Low(High(s.axis["X"]))
           /\ w[4] = Low(s.axis["Y"]) /\ w[5] = Low(High(s.axis["Y"]))
           /\ w[6] = Low(s.axis["Rz"]) /\ w[7] = Low(High(s.axis["Rz"]))
           /\ w[8] = HatToWire(s.hat)
           /\ w[9] = Low(ButtonBits(s.buttons)) /\ w[10] = Low(High(ButtonBits(s.buttons)))
<1>1. /\ s.axis["X"] \in Int /\ s.axis["Y"] \in Int /\ s.axis["Rz"] \in Int
      /\ s.hat \in Hats /\ ButtonBits(s.buttons) \in Int
  <2>1. s.axis["X"] \in I16 /\ s.axis["Y"] \in I16 /\ s.axis["Rz"] \in I16 /\ s.hat \in Hats
    BY DEF JoystickState, Axes
  <2>2. ButtonBits(s.buttons) \in Int
    BY ButtonBitsIs
  <2> QED  BY <2>1, <2>2, Widths
<1>2. PICK x \in Int, y \in Int, z \in Int, b \in Int, h \in Byte :
        /\ x = s.axis["X"] /\ y = s.axis["Y"] /\ z = s.axis["Rz"]
        /\ b = ButtonBits(s.buttons) /\ h = HatToWire(s.hat)
  <2>1. HatToWire(s.hat) \in Byte
    BY <1>1, HatWireType, Widths, SMT
  <2> QED  BY <1>1, <2>1
<1>3. /\ Low(x) \in Byte /\ Low(High(x)) \in Byte /\ Low(y) \in Byte /\ Low(High(y)) \in Byte
      /\ Low(z) \in Byte /\ Low(High(z)) \in Byte /\ Low(b) \in Byte /\ Low(High(b)) \in Byte
      /\ 1 \in Byte
  <2>1. 1 \in Byte
    BY Widths, SMT
  <2> QED  BY <2>1, SmallBytes
<1>4. w = <<1>> \o <<Low(x), Low(High(x))>> \o <<Low(y), Low(High(y))>>
                \o <<Low(z), Low(High(z))>> \o <<h>> \o <<Low(b), Low(High(b))>>
  BY ONLY <1>2, LeBytesIs, w = Encode(s), Zenon DEF Encode
<1>5. Ten(w, 1, Low(x), Low(High(x)), Low(y), Low(High(y)), Low(z), Low(High(z)), h,
          Low(b), Low(High(b)))
  <2>1. Ten(<<1>> \o <<Low(x), Low(High(x))>> \o <<Low(y), Low(High(y))>>
                \o <<Low(z), Low(High(z))>> \o <<h>> \o <<Low(b), Low(High(b))>>,
            1, Low(x), Low(High(x)), Low(y), Low(High(y)), Low(z), Low(High(z)), h,
            Low(b), Low(High(b)))
    BY ONLY h \in Byte, <1>3, TenBytes, ZenonT(40)
  <2> QED  BY ONLY <1>4, <2>1, Zenon
<1> QED  BY ONLY <1>2, <1>5, Zenon DEF Ten


-----------------------------------------------------------------------------
(* Types. *)

(* Skipped fields leave room: a slot of the decoded report for every field. *)
TypeInv ==
    /\ TypeOK
    /\ phase = "decode" => Len(decoded) < index

LEMMA TypeFacts ==
    ASSUME TypeOK
    PROVE  /\ summary \in Seq(ReportField) /\ payload \in Seq(Byte)
           /\ Len(summary) \in Nat /\ Len(decoded) \in Nat /\ index \in Nat
           /\ decoded \in Seq(DecodedFields)
           /\ state \in JoystickState /\ lastInput \in JoystickState
<1>1. summary \in Summaries /\ payload \in Payloads /\ decoded \in Seq(DecodedFields)
      /\ index \in 1..Len(summary) + 1
      /\ state \in JoystickState /\ lastInput \in JoystickState
  BY DEF TypeOK, DecodedFields
<1>2. summary \in Seq(ReportField) /\ payload \in Seq(Byte)
  BY ONLY <1>1, SummariesOK, PayloadsOK, Zenon
<1> QED  BY <1>1, <1>2

LEMMA InitTypes ==
    ASSUME Init
    PROVE  TypeInv
<1>1. summary \in Seq(ReportField)
  BY SummariesOK DEF Init
<1>2. 1 \in 1..Len(summary) + 1 /\ Len(<<>>) <= Len(summary) /\ Len(<<>>) < 1
  BY <1>1
<1>3. <<>> \in Seq(DecodedFields) /\ <<>> \in Seq(Byte)
  OBVIOUS
<1> QED  BY <1>2, <1>3, DefaultState DEF Init, TypeInv, TypeOK, DecodedFields

(* A value that a field yields has its place and its type. *)
LEMMA DecodedHere ==
    ASSUME TypeOK, DecodeField
    PROVE  /\ index \in DOMAIN summary /\ summary[index] \in ReportField
           /\ index \in Own(summary, reportId)
           /\ Fits(payload, summary[index])
           /\ DecodedField(payload, summary[index]) \in DecodedFields
           /\ decoded' = Append(decoded, DecodedField(payload, summary[index]))
<1>1. /\ summary \in Seq(ReportField) /\ payload \in Seq(Byte) /\ index \in Nat /\ index >= 1
  BY TypeFacts DEF TypeOK
<1>2. /\ index <= Len(summary) /\ summary[index].reportId = reportId
      /\ DecodeError(summary[index]) = "none"
      /\ decoded' = Append(decoded, [usage |-> summary[index].usage,
                                     value |-> SignExtend(ExtractBits(summary[index]),
                                                          summary[index])])
  BY Zenon DEF DecodeField, Decoding, Current
<1>3. index \in DOMAIN summary /\ summary[index] \in ReportField
  BY <1>1, <1>2
<1>4. PICK field \in ReportField : field = summary[index]
  BY <1>3
<1>5. Fits(payload, field)
  BY <1>1, <1>2, <1>4, DecodeErrorIs
<1>6. /\ SignExtend(ExtractBits(field), field) = ValueFrom(payload, field)
      /\ ValueFrom(payload, field) \in FieldValues
  BY <1>1, <1>5, ValueIs
<1>7. field.usage \in Usages
  BY FieldParts
<1>8. DecodedField(payload, field) \in DecodedFields
  BY ONLY <1>6, <1>7 DEF DecodedField, DecodedFields
<1>9. decoded' = Append(decoded, DecodedField(payload, field))
  BY ONLY <1>2, <1>4, <1>6, Zenon DEF DecodedField
<1> QED  BY ONLY <1>2, <1>3, <1>4, <1>5, <1>8, <1>9, Zenon DEF Own

(* An entry that is applied gives a state. *)
LEMMA ResultType ==
    ASSUME NEW s \in JoystickState, NEW field \in DecodedFields, NormalizeError(field) = "none"
    PROVE  Result(s, field) \in JoystickState
<1>1. PICK u \in Usages, x \in FieldValues : u = field.usage /\ x = field.value
  BY DEF DecodedFields
<1>2. u.control \in Axes \cup {"HatSwitch", "Other", "Button"}
  BY UsageParts
<1>3. CASE u.control \in Axes
  <2>1. x \in I16
    BY <1>1, <1>3 DEF NormalizeError, AxisValues
  <2>2. field.usage.control \in Axes /\ field.usage.control # "HatSwitch"
        /\ field.usage.control # "Button"
    BY <1>1, <1>3 DEF Axes
  <2>3. Result(s, field) = [s EXCEPT !.axis[field.usage.control] = field.value]
    BY ONLY <2>2, Zenon DEF Result
  <2>4. Result(s, field) = [s EXCEPT !.axis[u.control] = x]
    BY ONLY <1>1, <2>3, Zenon
  <2> QED  BY <1>3, <2>1, <2>4 DEF JoystickState
<1>4. CASE u.control = "HatSwitch"
  <2>1. HatOf(x) \in Hats
    BY <1>1, <1>4, HatOfType DEF NormalizeError
  <2> QED  BY <1>1, <1>4, <2>1 DEF Result, JoystickState, Axes
<1>5. CASE u.control = "Button"
  <2>1. u.button - 1 \in ButtonIndex
    BY <1>1, <1>5 DEF NormalizeError, Axes
  <2> QED  BY <1>1, <1>5, <2>1 DEF Result, JoystickState, Axes, SetButton
<1>6. CASE u.control = "Other"
  BY <1>1, <1>6 DEF Result, JoystickState, Axes
<1> QED  BY <1>2, <1>3, <1>4, <1>5, <1>6

LEMMA AppliedHere ==
    ASSUME TypeOK, ApplyField
    PROVE  /\ index \in 1..Len(decoded) /\ decoded[index] \in DecodedFields
           /\ NormalizeError(decoded[index]) = "none"
           /\ state' = Result(state, decoded[index])
           /\ state' \in JoystickState
<1>1. /\ index \in Nat /\ index >= 1 /\ decoded \in Seq(DecodedFields) /\ state \in JoystickState
  BY TypeFacts DEF TypeOK
<1>2. /\ index <= Len(decoded) /\ NormalizeError(decoded[index]) = "none"
      /\ Apply(decoded[index])
  BY Zenon DEF ApplyField, Normalizing
<1>3. index \in 1..Len(decoded) /\ decoded[index] \in DecodedFields
  BY <1>1, <1>2
<1>4. state' = Result(state, decoded[index])
  BY ONLY <1>2, ResultIs
<1>5. Result(state, decoded[index]) \in JoystickState
  BY ONLY <1>1, <1>2, <1>3, ResultType, Zenon
<1> QED  BY ONLY <1>2, <1>3, <1>4, <1>5


LEMMA NextTypes ==
    ASSUME TypeInv, [Next]_vars
    PROVE  TypeInv'
<1>1. /\ TypeOK
      /\ phase = "decode" => Len(decoded) < index
      /\ summary \in Seq(ReportField) /\ payload \in Seq(Byte)
      /\ Len(summary) \in Nat /\ Len(decoded) \in Nat /\ index \in Nat
      /\ decoded \in Seq(DecodedFields)
      /\ state \in JoystickState /\ lastInput \in JoystickState
  BY TypeFacts DEF TypeInv
<1>2. /\ summary \in Summaries /\ reportId \in ReportIds /\ payload \in Payloads
      /\ phase \in {"decode", "normalize", "applied"} \cup Errors
      /\ index \in 1..Len(summary) + 1 /\ Len(decoded) <= Len(summary)
      /\ wire \in Seq(Byte)
  BY <1>1 DEF TypeOK
<1>3. CASE SkipField
  BY <1>1, <1>2, <1>3 DEF SkipField, Decoding, TypeInv, TypeOK
<1>4. CASE RefuseField
  <2>1. index \in DOMAIN summary
    BY <1>1, <1>2, <1>4 DEF RefuseField, Decoding
  <2>2. summary[index] \in ReportField
    BY <1>1, <2>1
  <2>3. phase' \in Errors
    <3>1. DecodeError(summary[index]) \in Errors \cup {"none"}
      BY <1>1, <2>2, DecodeErrorIs
    <3>2. DecodeError(summary[index]) # "none" /\ phase' = DecodeError(summary[index])
      BY <1>4, Zenon DEF RefuseField, Refuse, Current
    <3> QED  BY <3>1, <3>2
  <2>4. UNCHANGED <<summary, reportId, payload, index, decoded, state, lastInput, wire>>
    BY <1>4, Zenon DEF RefuseField, Refuse
  <2> QED  BY <1>1, <1>2, <2>3, <2>4 DEF TypeInv, TypeOK, Errors
<1>5. CASE DecodeField
  <2>1. /\ DecodedField(payload, summary[index]) \in DecodedFields
        /\ decoded' = Append(decoded, DecodedField(payload, summary[index]))
    BY <1>1, <1>5, DecodedHere
  <2>2. /\ index <= Len(summary) /\ index' = index + 1 /\ phase = "decode"
        /\ UNCHANGED <<summary, reportId, payload, phase, state, lastInput, wire>>
    BY <1>5, Zenon DEF DecodeField, Decoding
  <2>3. decoded' \in Seq(DecodedFields) /\ Len(decoded') = Len(decoded) + 1
    BY <1>1, <2>1
  <2> QED  BY ONLY <1>1, <1>2, <2>2, <2>3 DEF TypeInv, TypeOK, DecodedFields
<1>6. CASE EndDecode
  BY <1>1, <1>2, <1>6, DefaultState DEF EndDecode, Blank, TypeInv, TypeOK
<1>7. CASE RefuseValue
  <2>1. phase' \in Errors
    <3>1. NormalizeError(decoded[index]) \in Errors \cup {"none"}
      BY NormalizeErrorIs
    <3>2. NormalizeError(decoded[index]) # "none" /\ phase' = NormalizeError(decoded[index])
      BY <1>7, Zenon DEF RefuseValue, Refuse
    <3> QED  BY <3>1, <3>2
  <2>2. UNCHANGED <<summary, reportId, payload, index, decoded, state, lastInput, wire>>
    BY <1>7, Zenon DEF RefuseValue, Refuse
  <2> QED  BY <1>1, <1>2, <2>1, <2>2 DEF TypeInv, TypeOK, Errors
<1>8. CASE ApplyField
  <2>1. index \in 1..Len(decoded) /\ state' \in JoystickState
    BY <1>1, <1>8, AppliedHere
  <2>2. /\ index' = index + 1 /\ phase = "normalize"
        /\ UNCHANGED <<summary, reportId, payload, phase, decoded, lastInput, wire>>
    BY <1>8, Zenon DEF ApplyField, Normalizing
  <2> QED  BY ONLY <1>1, <1>2, <2>1, <2>2 DEF TypeInv, TypeOK, DecodedFields
<1>9. CASE EndNormalize
  <2>1. Encode(state) \in Seq(Byte)
    BY <1>1, EncodeIs
  <2>2. /\ phase' = "applied" /\ lastInput' = state /\ wire' = Encode(state)
        /\ UNCHANGED <<summary, reportId, payload, index, decoded, state>>
    BY <1>9, Zenon DEF EndNormalize
  <2> QED  BY ONLY <1>1, <1>2, <2>1, <2>2 DEF TypeInv, TypeOK, DecodedFields
<1>10. CASE NextReport
  <2>1. 1 \in 1..Len(summary) + 1 /\ Len(<<>>) <= Len(summary) /\ Len(<<>>) < 1
    BY <1>1
  <2>2. <<>> \in Seq(DecodedFields) /\ <<>> \in Seq(Byte)
    OBVIOUS
  <2>3. /\ reportId' \in ReportIds /\ payload' \in Payloads
        /\ phase' = "decode" /\ index' = 1 /\ decoded' = <<>> /\ state' = Default /\ wire' = <<>>
        /\ UNCHANGED <<summary, lastInput>>
    BY <1>10, Zenon DEF NextReport
  <2> QED  BY ONLY <1>1, <1>2, <2>1, <2>2, <2>3, DefaultState DEF TypeInv, TypeOK, DecodedFields
<1>11. CASE UNCHANGED vars
  BY <1>1, <1>2, <1>11 DEF vars, TypeInv, TypeOK
<1> QED
  BY <1>3, <1>4, <1>5, <1>6, <1>7, <1>8, <1>9, <1>10, <1>11, Zenon DEF Next

(* Every value a report goes through has its width, from the bytes of the  *)
(* payload to the bytes of the BLE report.                                 *)
THEOREM TypeCorrect == Spec => []TypeOK
<1>1. Init => TypeInv
  BY InitTypes
<1>2. TypeInv /\ [Next]_vars => TypeInv'
  BY NextTypes
<1>3. TypeInv => TypeOK
  BY DEF TypeInv
<1> QED  BY <1>1, <1>2, <1>3, PTL DEF Spec


-----------------------------------------------------------------------------
(* What a report has come to, phase by phase. *)

Sound(out, n) == \A j \in 1..n : NormalizeError(out[j]) = "none"

ReportInv ==
    /\ phase = "decode" => DecodesTo(summary, reportId, payload, index, decoded)
    /\ phase \in {"normalize", "applied"} =>
          DecodesTo(summary, reportId, payload, Len(summary) + 1, decoded)
    /\ phase = "normalize" => /\ index <= Len(decoded) + 1
                              /\ Sound(decoded, index - 1)
                              /\ Collects(decoded, index - 1, state)
    /\ phase = "applied" => /\ Sound(decoded, Len(decoded))
                            /\ Collects(decoded, Len(decoded), state)
                            /\ wire = Encode(state)
    /\ phase \in Errors =>
          \E i \in Own(summary, reportId) : ~Allowed(payload, summary[i])

LEMMA Phases ==
    /\ "decode" \notin Errors /\ "normalize" \notin Errors /\ "applied" \notin Errors
    /\ "none" \notin Errors
BY DEF Errors

(* The entry at j comes from a field of the report. *)
LEMMA EntryFrom ==
    ASSUME TypeOK, NEW reach, DecodesTo(summary, reportId, payload, reach, decoded),
           NEW j \in 1..Len(decoded)
    PROVE  \E i \in Own(summary, reportId) :
              /\ summary[i] \in ReportField /\ Fits(payload, summary[i])
              /\ decoded[j] = DecodedField(payload, summary[i])
              /\ Allowed(payload, summary[i]) <=> NormalizeError(decoded[j]) = "none"
<1>1. PICK i \in Own(summary, reportId) : /\ Fits(payload, summary[i])
                                         /\ decoded[j] = DecodedField(payload, summary[i])
  BY DEF DecodesTo
<1>2. summary \in Seq(ReportField) /\ payload \in Seq(Byte)
  BY TypeFacts
<1>3. summary[i] \in ReportField
  BY <1>2 DEF Own
<1>4. PICK field \in ReportField : field = summary[i]
  BY <1>3
<1>5. ValueFrom(payload, field) \in FieldValues
  BY <1>1, <1>2, <1>4, ValueIs
<1>6. Allowed(payload, field) <=> NormalizeError(DecodedField(payload, field)) = "none"
  BY ONLY <1>1, <1>4, <1>5, Judged, Zenon
<1> QED  BY ONLY <1>1, <1>4, <1>6, Zenon

LEMMA InitReport ==
    ASSUME Init
    PROVE  ReportInv
<1>1. summary \in Seq(ReportField)
  BY SummariesOK DEF Init
<1>2. DecodesTo(summary, reportId, payload, 1, <<>>)
  BY <1>1, DecodesNone
<1> QED  BY <1>2, Phases DEF Init, ReportInv

LEMMA NextReportInv ==
    ASSUME TypeInv, ReportInv, [Next]_vars
    PROVE  ReportInv'
<1>1. /\ TypeOK
      /\ summary \in Seq(ReportField) /\ payload \in Seq(Byte)
      /\ Len(summary) \in Nat /\ Len(decoded) \in Nat /\ index \in 1..Len(summary) + 1
      /\ decoded \in Seq(DecodedFields)
      /\ state \in JoystickState
  BY TypeFacts DEF TypeInv, TypeOK
<1>2. CASE SkipField
  <2>1. /\ phase = "decode" /\ index <= Len(summary) /\ summary[index].reportId # reportId
        /\ index' = index + 1
        /\ UNCHANGED <<summary, reportId, payload, phase, decoded, state, lastInput, wire>>
    BY <1>2, Zenon DEF SkipField, Decoding, Current
  <2>2. index \in DOMAIN summary /\ index \notin Own(summary, reportId)
    BY <1>1, <2>1 DEF Own
  <2>3. DecodesTo(summary, reportId, payload, index, decoded)
    BY <2>1 DEF ReportInv
  <2>4. DecodesTo(summary, reportId, payload, index + 1, decoded)
    BY ONLY <1>1, <2>2, <2>3, DecodesSkip, Zenon
  <2> QED  BY ONLY <2>1, <2>4, Phases DEF ReportInv
<1>3. CASE RefuseField
  <2>1. /\ phase = "decode" /\ index <= Len(summary) /\ summary[index].reportId = reportId
        /\ DecodeError(summary[index]) # "none" /\ phase' = DecodeError(summary[index])
        /\ UNCHANGED <<summary, reportId, payload, index, decoded, state, lastInput, wire>>
    BY <1>3, Zenon DEF RefuseField, Decoding, Current, Refuse
  <2>2. index \in DOMAIN summary /\ index \in Own(summary, reportId)
    BY <1>1, <2>1 DEF Own
  <2>3. PICK field \in ReportField : field = summary[index]
    BY <1>1, <2>2
  <2>4. DecodeError(field) \in Errors /\ ~Fits(payload, field)
    BY <1>1, <2>1, <2>3, DecodeErrorIs
  <2>5. ~Allowed(payload, summary[index])
    BY ONLY <2>3, <2>4, AllowedFits, Zenon
  <2>6. phase' \in Errors
    BY ONLY <2>1, <2>3, <2>4
  <2> QED  BY ONLY <2>1, <2>2, <2>5, <2>6, Phases DEF ReportInv
<1>4. CASE DecodeField
  <2>1. /\ index \in Own(summary, reportId) /\ Fits(payload, summary[index])
        /\ decoded' = Append(decoded, DecodedField(payload, summary[index]))
    BY <1>1, <1>4, DecodedHere
  <2>2. /\ phase = "decode" /\ index' = index + 1
        /\ UNCHANGED <<summary, reportId, payload, phase, state, lastInput, wire>>
    BY <1>4, Zenon DEF DecodeField, Decoding
  <2>3. DecodesTo(summary, reportId, payload, index, decoded)
    BY <2>2 DEF ReportInv
  <2>4. DecodesTo(summary, reportId, payload, index + 1,
                  Append(decoded, DecodedField(payload, summary[index])))
    BY ONLY <1>1, <2>1, <2>3, DecodesField, Zenon
  <2> QED  BY ONLY <2>1, <2>2, <2>4, Phases DEF ReportInv
<1>5. CASE EndDecode
  <2>1. /\ phase = "decode" /\ index > Len(summary)
        /\ phase' = "normalize" /\ index' = 1 /\ state' = Default
        /\ UNCHANGED <<summary, reportId, payload, decoded, lastInput, wire>>
    BY <1>5, Zenon DEF EndDecode, Blank
  <2>2. DecodesTo(summary, reportId, payload, index, decoded) /\ index = Len(summary) + 1
    BY <1>1, <2>1 DEF ReportInv
  <2>3. 1 - 1 = 0 /\ 1 <= Len(decoded) + 1 /\ 1..0 = {}
    BY <1>1
  <2>4. Sound(decoded, 0) /\ Collects(decoded, 0, Default)
    BY <2>3, CollectsNone DEF Sound
  <2> QED  BY ONLY <2>1, <2>2, <2>3, <2>4, Phases DEF ReportInv
<1>6. CASE RefuseValue
  <2>1. /\ phase = "normalize" /\ index <= Len(decoded)
        /\ NormalizeError(decoded[index]) # "none" /\ phase' = NormalizeError(decoded[index])
        /\ UNCHANGED <<summary, reportId, payload, index, decoded, state, lastInput, wire>>
    BY <1>6, Zenon DEF RefuseValue, Normalizing, Refuse
  <2>2. DecodesTo(summary, reportId, payload, Len(summary) + 1, decoded)
    BY <2>1 DEF ReportInv
  <2>3. index \in 1..Len(decoded)
    BY <1>1, <2>1
  <2>4. PICK i \in Own(summary, reportId) : ~Allowed(payload, summary[i])
    BY <1>1, <2>1, <2>2, <2>3, EntryFrom
  <2>5. phase' \in Errors
    BY <2>1, NormalizeErrorIs
  <2> QED  BY ONLY <2>1, <2>4, <2>5, Phases DEF ReportInv
<1>7. CASE ApplyField
  <2>1. /\ index \in 1..Len(decoded) /\ decoded[index] \in DecodedFields
        /\ NormalizeError(decoded[index]) = "none"
        /\ state' = Result(state, decoded[index])
    BY <1>1, <1>7, AppliedHere
  <2>2. /\ phase = "normalize" /\ index' = index + 1
        /\ UNCHANGED <<summary, reportId, payload, phase, decoded, lastInput, wire>>
    BY <1>7, Zenon DEF ApplyField, Normalizing
  <2>3. /\ DecodesTo(summary, reportId, payload, Len(summary) + 1, decoded)
        /\ Sound(decoded, index - 1) /\ Collects(decoded, index - 1, state)
    BY <2>2 DEF ReportInv
  <2>4. PICK n \in Nat : n = index - 1 /\ n + 1 = index /\ (n + 1) + 1 <= Len(decoded) + 1
                         /\ (index + 1) - 1 = n + 1
    BY <1>1, <2>1
  <2>5. Collects(decoded, n + 1, Result(state, decoded[n + 1]))
    BY ONLY <2>1, <2>3, <2>4, CollectsStep, Zenon
  <2>6. Sound(decoded, n + 1)
    <3>1. \A j \in 1..(n + 1) : j \in 1..n \/ j = n + 1
      OBVIOUS
    <3> QED  BY ONLY <2>1, <2>3, <2>4, <3>1, Zenon DEF Sound
  <2> QED  BY ONLY <2>1, <2>2, <2>3, <2>4, <2>5, <2>6, Phases DEF ReportInv
<1>8. CASE EndNormalize
  <2>1. /\ phase = "normalize" /\ index > Len(decoded)
        /\ phase' = "applied" /\ wire' = Encode(state)
        /\ UNCHANGED <<summary, reportId, payload, index, decoded, state>>
    BY <1>8, Zenon DEF EndNormalize
  <2>2. /\ DecodesTo(summary, reportId, payload, Len(summary) + 1, decoded)
        /\ index <= Len(decoded) + 1
        /\ Sound(decoded, index - 1) /\ Collects(decoded, index - 1, state)
    BY <2>1 DEF ReportInv
  <2>3. index - 1 = Len(decoded)
    BY <1>1, <2>1, <2>2
  <2> QED  BY ONLY <2>1, <2>2, <2>3, Phases DEF ReportInv
<1>9. CASE NextReport
  <2>1. /\ phase' = "decode" /\ index' = 1 /\ decoded' = <<>> /\ summary' = summary
    BY <1>9, Zenon DEF NextReport
  <2>2. \A id, bytes : DecodesTo(summary, id, bytes, 1, <<>>)
    BY <1>1, DecodesNone
  <2> QED  BY ONLY <2>1, <2>2, Phases DEF ReportInv
<1>10. CASE UNCHANGED vars
  BY ONLY <1>10, ReportInv DEF vars, ReportInv
<1> QED
  BY <1>2, <1>3, <1>4, <1>5, <1>6, <1>7, <1>8, <1>9, <1>10, Zenon DEF Next

(* A report is refused as a whole if and only if one of its fields is      *)
(* outside the payload or the supported kinds and sizes, or has a value    *)
(* its control cannot take.                                                *)
LEMMA RefusalFollows ==
    ASSUME TypeInv, ReportInv
    PROVE  RefusedIffUnacceptable
<1>1. /\ Reported = Own(summary, reportId)
      /\ \A f : Acceptable(f) <=> Allowed(payload, f)
  BY DEF Reported, Own, Acceptable, Allowed, Readable, Fits, ValueOf, ValueFrom
<1>2. ASSUME phase = "applied"
      PROVE  \A i \in Own(summary, reportId) : Allowed(payload, summary[i])
  <2>1. /\ DecodesTo(summary, reportId, payload, Len(summary) + 1, decoded)
        /\ Sound(decoded, Len(decoded)) /\ TypeOK
    BY <1>2 DEF ReportInv, TypeInv
  <2> SUFFICES ASSUME NEW i \in Own(summary, reportId)
               PROVE  Allowed(payload, summary[i])
    OBVIOUS
  <2>2. /\ summary \in Seq(ReportField) /\ payload \in Seq(Byte) /\ i < Len(summary) + 1
    BY <2>1, TypeFacts DEF Own
  <2>3. PICK j \in 1..Len(decoded) : /\ Fits(payload, summary[i])
                                     /\ decoded[j] = DecodedField(payload, summary[i])
    BY <2>1, <2>2, Zenon DEF DecodesTo, Picks
  <2>4. PICK field \in ReportField : field = summary[i]
    BY <2>2 DEF Own
  <2>5. ValueFrom(payload, field) \in FieldValues
    BY <2>2, <2>3, <2>4, ValueIs
  <2>6. Allowed(payload, field) <=> NormalizeError(DecodedField(payload, field)) = "none"
    BY ONLY <2>3, <2>4, <2>5, Judged, Zenon
  <2> QED  BY ONLY <2>1, <2>3, <2>4, <2>6, Zenon DEF Sound
<1>3. ASSUME phase \in Errors
      PROVE  \E i \in Own(summary, reportId) : ~Allowed(payload, summary[i])
  BY <1>3 DEF ReportInv
<1> QED  BY ONLY <1>1, <1>2, <1>3, Phases, Zenon DEF RefusedIffUnacceptable, Finished

(* Whatever fields a descriptor declares and whatever a payload holds, a   *)
(* report is refused exactly when one of its own fields is unacceptable:   *)
(* the two loops find each such field and find fault with no other.        *)
THEOREM RefusedForCause == Spec => []RefusedIffUnacceptable
<1>1. Init => TypeInv /\ ReportInv
  BY InitTypes, InitReport
<1>2. TypeInv /\ ReportInv /\ [Next]_vars => TypeInv' /\ ReportInv'
  BY NextTypes, NextReportInv
<1>3. TypeInv /\ ReportInv => RefusedIffUnacceptable
  BY RefusalFollows
<1> QED  BY <1>1, <1>2, <1>3, PTL DEF Spec


-----------------------------------------------------------------------------
(* What the report means. *)

LEMMA MaxIs ==
    ASSUME NEW S \in SUBSET Int, NEW m \in S, \A x \in S : m >= x
    PROVE  Max(S) = m
<1>1. \A x, y \in Int : x >= y /\ y >= x => x = y
  OBVIOUS
<1>2. Max(S) \in S /\ \A y \in S : Max(S) >= y
  BY ONLY m \in S, \A x \in S : m >= x, Zenon DEF Max
<1> QED  BY ONLY <1>1, <1>2, S \in SUBSET Int, m \in S, \A x \in S : m >= x, Zenon

(* The last entry of a usage is of the last field of the usage. *)
LEMMA MeaningIs ==
    ASSUME TypeOK, DecodesTo(summary, reportId, payload, Len(summary) + 1, decoded),
           NEW usage, NEW none, NEW v, Holds(decoded, Len(decoded), usage, none, v)
    PROVE  Meaning(usage, none) = v
<1>1. summary \in Seq(ReportField) /\ payload \in Seq(Byte) /\ Len(decoded) \in Nat
  BY TypeFacts
<1>2. PICK n \in Nat : n = Len(decoded)
  BY <1>1
<1>3. PICK at \in [1..n -> Own(summary, reportId)] :
        /\ Picks(summary, reportId, Len(summary) + 1, n, at)
        /\ \A j \in 1..n : decoded[j] = DecodedField(payload, summary[at[j]])
  BY <1>2, Zenon DEF DecodesTo
<1>4. /\ Own(summary, reportId) \in SUBSET Int
      /\ \A i \in Own(summary, reportId) : i < Len(summary) + 1
  BY <1>1 DEF Own
<1>5. \A j \in 1..n : /\ decoded[j].usage = summary[at[j]].usage
                      /\ decoded[j].value = ValueFrom(payload, summary[at[j]])
  <2>1. \A f : /\ DecodedField(payload, f).usage = f.usage
               /\ DecodedField(payload, f).value = ValueFrom(payload, f)
    BY DEF DecodedField
  <2> QED  BY ONLY <1>3, <2>1, Zenon
<1>6. /\ \A i \in Own(summary, reportId) : \E j \in 1..n : at[j] = i
      /\ \A j, k \in 1..n : j < k => at[j] < at[k]
  BY <1>3, <1>4, Zenon DEF Picks
<1> DEFINE fields == {i \in Own(summary, reportId) : summary[i].usage = usage}
<1>7. Meaning(usage, none) = IF fields = {} THEN none ELSE ValueFrom(payload, summary[Max(fields)])
  BY Zenon DEF Meaning, Reported, Own, ValueOf, ValueFrom
<1>8. \/ (\A j \in 1..n : decoded[j].usage # usage) /\ v = none
      \/ \E j \in 1..n : /\ decoded[j].usage = usage /\ decoded[j].value = v
                         /\ \A k \in 1..n : k > j => decoded[k].usage # usage
  BY <1>2 DEF Holds
<1>9. CASE (\A j \in 1..n : decoded[j].usage # usage) /\ v = none
  <2>1. fields = {}
    <3> SUFFICES ASSUME NEW i \in Own(summary, reportId), summary[i].usage = usage
                 PROVE  FALSE
      OBVIOUS
    <3>1. PICK j \in 1..n : at[j] = i
      BY <1>6
    <3> QED  BY <1>5, <1>9, <3>1
  <2> QED  BY ONLY <1>7, <1>9, <2>1
<1>10. CASE \E j \in 1..n : /\ decoded[j].usage = usage /\ decoded[j].value = v
                            /\ \A k \in 1..n : k > j => decoded[k].usage # usage
  <2>1. PICK j \in 1..n : /\ decoded[j].usage = usage /\ decoded[j].value = v
                          /\ \A k \in 1..n : k > j => decoded[k].usage # usage
    BY <1>10
  <2>2. at[j] \in fields
    BY ONLY <1>3, <1>5, <2>1
  <2>3. \A i \in fields : at[j] >= i
    <3> SUFFICES ASSUME NEW i \in fields PROVE at[j] >= i
      OBVIOUS
    <3>1. PICK k \in 1..n : at[k] = i
      BY <1>6
    <3>2. ~(k > j)
      BY <1>5, <2>1, <3>1
    <3>3. k = j \/ k < j
      BY <3>2
    <3>4. at[j] \in Int /\ i \in Int
      BY <1>3, <1>4
    <3>5. k < j => i < at[j]
      BY ONLY <1>6, <3>1, j \in 1..n, k \in 1..n
    <3> QED  BY ONLY <3>1, <3>3, <3>4, <3>5
  <2>4. fields \in SUBSET Int
    BY <1>4
  <2> HIDE DEF fields
  <2>5. Max(fields) = at[j]
    BY ONLY <2>2, <2>3, <2>4, MaxIs, Zenon
  <2>6. fields # {}
    BY <2>2
  <2> QED  BY ONLY <1>5, <1>7, <2>1, <2>5, <2>6
<1> QED  BY <1>8, <1>9, <1>10


-----------------------------------------------------------------------------
(* What the peer reads in the bytes. *)

(* The place of a bit: the byte, counted from zero, and the bit in it. *)
Place(bit, k, r) == bit = 8 * k + r

LEMMA SliceAt ==
    ASSUME NEW bytes \in Seq(Byte), NEW k \in Nat, NEW r \in 0..7, NEW bit, Place(bit, k, r),
           NEW w, w = Window(bytes, bit), NEW size
    PROVE  /\ Slice(bytes, bit, size) = LowBits(Rest(w, r), size)
           /\ w \in Nat /\ Rest(w, r) \in Nat
           /\ Low(w) = ByteAt(bytes, k + 1) /\ Low(High(w)) = ByteAt(bytes, k + 2)
<1>1. bit \in Nat /\ bit \div 8 = k /\ bit % 8 = r
  BY DEF Place
<1>2. PICK b \in Nat : b = bit
  BY <1>1
<1>3. Slice(bytes, b, size) = LowBits(Rest(Window(bytes, b), b % 8), size)
  BY SliceIs
<1>4. Window(bytes, b) \in Nat /\ Rest(Window(bytes, b), b % 8) \in Nat
  BY SliceIs, WindowNat
<1>5. Low(w) = ByteAt(bytes, k + 1) /\ Low(High(w)) = ByteAt(bytes, k + 2)
  BY <1>1, WindowBytes
<1> QED  BY ONLY <1>1, <1>2, <1>3, <1>4, <1>5, w = Window(bytes, bit)

(* Two's complement of a byte: the low eight bits of a signed number. *)
LEMMA LowOf ==
    ASSUME NEW a \in Int, -128 <= a, a <= 127
    PROVE  Low(a) = IF a < 0 THEN a + 256 ELSE a
<1>1. CASE a < 0
  <2>1. \A c \in Nat : c < 256 => (c - 256) % 256 = c
    OBVIOUS
  <2>2. PICK c \in Nat : c = a + 256 /\ c < 256 /\ a = c - 256
    BY <1>1
  <2> QED  BY <1>1, <2>1, <2>2 DEF Low
<1>2. CASE ~(a < 0)
  BY <1>2 DEF Low
<1> QED  BY <1>1, <1>2

LEMMA HighOf ==
    ASSUME NEW n \in Int, -32768 <= n, n <= 32767
    PROVE  /\ n = 256 * High(n) + Low(n) /\ High(n) \in Int /\ Low(n) \in Int
           /\ -128 <= High(n) /\ High(n) <= 127 /\ 0 <= Low(n) /\ Low(n) < 256
BY SMT DEF High, Low

LEMMA TwosComplement ==
    ASSUME NEW n \in Int, -32768 <= n, n <= 32767
    PROVE  256 * Low(High(n)) + Low(n) = IF n < 0 THEN n + 65536 ELSE n
<1>1. PICK a \in Int, b \in Int : /\ a = High(n) /\ b = Low(n) /\ n = 256 * a + b
                                  /\ -128 <= a /\ a <= 127 /\ 0 <= b /\ b < 256
  BY HighOf
<1>2. n < 0 <=> a < 0
  BY <1>1
<1>3. CASE a < 0
  <2>1. Low(a) = a + 256
    BY <1>1, <1>3, LowOf
  <2>2. 256 * (a + 256) + b = n + 65536
    BY <1>1, SMT
  <2> QED  BY ONLY <1>1, <1>2, <1>3, <2>1, <2>2
<1>4. CASE ~(a < 0)
  <2>1. Low(a) = a
    BY <1>1, <1>4, LowOf
  <2> QED  BY ONLY <1>1, <1>2, <1>4, <2>1, n \in Int
<1> QED  BY <1>3, <1>4

LEMMA LeValue ==
    ASSUME NEW bytes \in Seq(Byte), NEW k \in Nat, NEW bit, bit = 8 * k, NEW n \in I16,
           ByteAt(bytes, k + 1) = Low(n), ByteAt(bytes, k + 2) = Low(High(n))
    PROVE  ValueIn(bytes, bit, 16, TRUE) = n
<1>1. Place(bit, k, 0) /\ 0 \in 0..7
  BY DEF Place
<1>2. PICK w : w = Window(bytes, bit)
  OBVIOUS
<1>3. /\ Slice(bytes, bit, 16) = LowBits(Rest(w, 0), 16) /\ w \in Nat
      /\ Low(w) = Low(n) /\ Low(High(w)) = Low(High(n))
  BY <1>1, <1>2, SliceAt
<1>4. Rest(w, 0) = w
  BY <1>3, RestOf, Shifted
<1>5. PICK raw \in Nat : raw = Slice(bytes, bit, 16) /\ raw = 256 * Low(High(n)) + Low(n)
  <2>1. Low16(w) = 256 * Low(High(w)) + Low(w)
    BY <1>3, TwoOctets
  <2>2. LowBits(w, 16) = Low16(w)
    BY <1>3, LowBitsOf
  <2>3. Low(w) \in Nat /\ High(w) \in Nat /\ Low(High(w)) \in Nat
    BY <1>3, PartTypes
  <2> QED  BY ONLY <1>3, <1>4, <2>1, <2>2, <2>3
<1>6. n \in Int /\ -32768 <= n /\ n <= 32767
  BY Widths
<1>7. raw = IF n < 0 THEN n + 65536 ELSE n
  BY ONLY <1>5, <1>6, TwosComplement
<1>8. ValueIn(bytes, bit, 16, TRUE) = IF 2 * raw >= Pow(16) THEN raw - Pow(16) ELSE raw
  <2>1. ValueIn(bytes, bit, 16, TRUE) = IF TRUE /\ 2 * raw >= Pow(16) THEN raw - Pow(16) ELSE raw
    BY ONLY <1>5, Zenon DEF ValueIn, Pow
  <2> QED  BY ONLY <2>1
<1>9. PICK m : m = Pow(16)
  OBVIOUS
<1>10. m = 65536 /\ m \in Int
  BY <1>9, PowersOfSizes, SMT
<1>11. ValueIn(bytes, bit, 16, TRUE) = IF 2 * raw >= m THEN raw - m ELSE raw
  BY ONLY <1>8, <1>9, Zenon
<1>12. CASE n < 0
  <2>1. 2 * raw >= m /\ raw - m = n
    BY ONLY <1>6, <1>7, <1>10, <1>12, SMT
  <2> QED  BY ONLY <1>11, <2>1, Zenon
<1>13. CASE ~(n < 0)
  <2>1. ~(2 * raw >= m) /\ raw = n
    BY ONLY <1>6, <1>7, <1>10, <1>13, SMT
  <2> QED  BY ONLY <1>11, <2>1, Zenon
<1> QED  BY <1>12, <1>13

(* Unsigned fields. *)
LEMMA UnsignedIs ==
    ASSUME NEW bytes, NEW bit, NEW size
    PROVE  ValueIn(bytes, bit, size, FALSE) = Slice(bytes, bit, size)
BY Zenon DEF ValueIn

(* The low half of a byte. *)
LEMMA NibbleValue ==
    ASSUME NEW bytes \in Seq(Byte), NEW k \in Nat, NEW bit, bit = 8 * k,
           ByteAt(bytes, k + 1) \in 0..15
    PROVE  ValueIn(bytes, bit, 4, FALSE) = ByteAt(bytes, k + 1)
<1>1. Place(bit, k, 0) /\ 0 \in 0..7
  BY DEF Place
<1>2. PICK w : w = Window(bytes, bit)
  OBVIOUS
<1>3. /\ Slice(bytes, bit, 4) = LowBits(Rest(w, 0), 4) /\ w \in Nat
      /\ Low(w) = ByteAt(bytes, k + 1)
  BY ONLY bytes \in Seq(Byte), k \in Nat, <1>1, <1>2, SliceAt
<1>4. Rest(w, 0) = w
  BY <1>3, RestOf, Shifted
<1>5. Low(w) \in 0..15 /\ High(w) \in Nat /\ w = 256 * High(w) + Low(w)
  <2>1. Low(w) \in Nat /\ High(w) \in Nat /\ w = 256 * High(w) + Low(w)
    BY ONLY <1>3, PartTypes, SMT
  <2>2. Low(w) \in 0..15
    BY <1>3
  <2> QED  BY ONLY <2>1, <2>2
<1>6. \A a \in Nat, b \in 0..15 : (256 * a + b) % 16 = b
  OBVIOUS
<1>7. Pow(4) = 16
  BY PowersOfSizes, SMT
<1>8. LowBits(w, 4) = Low(w)
  <2>1. LowBits(w, 4) = w % 16
    BY ONLY <1>7 DEF LowBits
  <2>2. PICK a \in Nat, b \in 0..15 : a = High(w) /\ b = Low(w)
    BY <1>5
  <2>3. w = 256 * a + b
    BY ONLY <1>5, <2>2, Zenon
  <2>4. (256 * a + b) % 16 = b
    BY <1>6
  <2> QED  BY ONLY <2>1, <2>2, <2>3, <2>4, Zenon
<1> QED  BY ONLY <1>3, <1>4, <1>8, UnsignedIs, Zenon

(* One bit of a byte. *)
LEMMA BitValue ==
    ASSUME NEW bytes \in Seq(Byte), NEW k \in Nat, NEW r \in 0..7, NEW bit, Place(bit, k, r)
    PROVE  ValueIn(bytes, bit, 1, FALSE) = Odd(Shr(ByteAt(bytes, k + 1), r))
<1>1. PICK w : w = Window(bytes, bit)
  OBVIOUS
<1>2. /\ Slice(bytes, bit, 1) = LowBits(Rest(w, r), 1) /\ w \in Nat /\ Rest(w, r) \in Nat
      /\ Low(w) = ByteAt(bytes, k + 1)
  BY ONLY bytes \in Seq(Byte), k \in Nat, r \in 0..7, Place(bit, k, r), <1>1, SliceAt,
          SMTT(20)
<1>3. LowBits(Rest(w, r), 1) = Odd(Rest(w, r))
  BY <1>2, LowBitsOf
<1>4. Odd(Rest(w, r)) = Odd(Shr(Low(w), r))
  BY <1>2, RestBit
<1> QED  BY ONLY <1>2, <1>3, <1>4, UnsignedIs, Zenon

(* A bit above a smaller number shows when the number is cut off. *)
BitAt(o, p, x) == \E low, high \in Nat : low < p /\ o = low + p * (x + 2 * high)

LEMMA BitCut ==
    ASSUME NEW p \in {1, 2, 4, 8, 16, 32, 64, 128}, NEW x \in 0..1, NEW o, BitAt(o, p, x)
    PROVE  Odd(o \div p) = x
<1>1. PICK low \in Nat, high \in Nat : low < p /\ o = low + p * (x + 2 * high)
  BY DEF BitAt
<1>2. (low + p * (x + 2 * high)) \div p = x + 2 * high
  BY <1>1
<1>3. (x + 2 * high) % 2 = x
  OBVIOUS
<1> QED  BY ONLY <1>1, <1>2, <1>3 DEF Odd

LEMMA BitsAt ==
    ASSUME NEW x0 \in 0..1, NEW x1 \in 0..1, NEW x2 \in 0..1, NEW x3 \in 0..1,
           NEW x4 \in 0..1, NEW x5 \in 0..1, NEW x6 \in 0..1, NEW x7 \in 0..1,
           NEW o, o = x0 + 2 * x1 + 4 * x2 + 8 * x3 + 16 * x4 + 32 * x5 + 64 * x6 + 128 * x7
    PROVE  /\ BitAt(o, 1, x0) /\ BitAt(o, 2, x1) /\ BitAt(o, 4, x2) /\ BitAt(o, 8, x3)
           /\ BitAt(o, 16, x4) /\ BitAt(o, 32, x5) /\ BitAt(o, 64, x6) /\ BitAt(o, 128, x7)
<1>1. BitAt(o, 1, x0)
  <2>1. PICK low \in Nat, high \in Nat : low = 0 /\ high = x1 + 2 * x2 + 4 * x3 + 8 * x4 + 16 * x5 + 32 * x6 + 64 * x7
    OBVIOUS
  <2>2. low < 1 /\ o = low + 1 * (x0 + 2 * high)
    BY <2>1
  <2> QED  BY ONLY <2>2, low \in Nat, high \in Nat DEF BitAt
<1>2. BitAt(o, 2, x1)
  <2>1. PICK low \in Nat, high \in Nat : low = x0 /\ high = x2 + 2 * x3 + 4 * x4 + 8 * x5 + 16 * x6 + 32 * x7
    OBVIOUS
  <2>2. low < 2 /\ o = low + 2 * (x1 + 2 * high)
    BY <2>1
  <2> QED  BY ONLY <2>2, low \in Nat, high \in Nat DEF BitAt
<1>3. BitAt(o, 4, x2)
  <2>1. PICK low \in Nat, high \in Nat : low = x0 + 2 * x1 /\ high = x3 + 2 * x4 + 4 * x5 + 8 * x6 + 16 * x7
    OBVIOUS
  <2>2. low < 4 /\ o = low + 4 * (x2 + 2 * high)
    BY <2>1
  <2> QED  BY ONLY <2>2, low \in Nat, high \in Nat DEF BitAt
<1>4. BitAt(o, 8, x3)
  <2>1. PICK low \in Nat, high \in Nat : low = x0 + 2 * x1 + 4 * x2 /\ high = x4 + 2 * x5 + 4 * x6 + 8 * x7
    OBVIOUS
  <2>2. low < 8 /\ o = low + 8 * (x3 + 2 * high)
    BY <2>1
  <2> QED  BY ONLY <2>2, low \in Nat, high \in Nat DEF BitAt
<1>5. BitAt(o, 16, x4)
  <2>1. PICK low \in Nat, high \in Nat : low = x0 + 2 * x1 + 4 * x2 + 8 * x3 /\ high = x5 + 2 * x6 + 4 * x7
    OBVIOUS
  <2>2. low < 16 /\ o = low + 16 * (x4 + 2 * high)
    BY <2>1
  <2> QED  BY ONLY <2>2, low \in Nat, high \in Nat DEF BitAt
<1>6. BitAt(o, 32, x5)
  <2>1. PICK low \in Nat, high \in Nat : low = x0 + 2 * x1 + 4 * x2 + 8 * x3 + 16 * x4 /\ high = x6 + 2 * x7
    OBVIOUS
  <2>2. low < 32 /\ o = low + 32 * (x5 + 2 * high)
    BY <2>1
  <2> QED  BY ONLY <2>2, low \in Nat, high \in Nat DEF BitAt
<1>7. BitAt(o, 64, x6)
  <2>1. PICK low \in Nat, high \in Nat : low = x0 + 2 * x1 + 4 * x2 + 8 * x3 + 16 * x4 + 32 * x5 /\ high = x7
    OBVIOUS
  <2>2. low < 64 /\ o = low + 64 * (x6 + 2 * high)
    BY <2>1
  <2> QED  BY ONLY <2>2, low \in Nat, high \in Nat DEF BitAt
<1>8. BitAt(o, 128, x7)
  <2>1. PICK low \in Nat, high \in Nat : low = x0 + 2 * x1 + 4 * x2 + 8 * x3 + 16 * x4 + 32 * x5 + 64 * x6 /\ high = 0
    OBVIOUS
  <2>2. low < 128 /\ o = low + 128 * (x7 + 2 * high)
    BY <2>1
  <2> QED  BY ONLY <2>2, low \in Nat, high \in Nat DEF BitAt
<1> QED  BY <1>1, <1>2, <1>3, <1>4, <1>5, <1>6, <1>7, <1>8

(* The bits of an octet are those it was put together from. *)
LEMMA BitOfOctet ==
    ASSUME NEW b \in [0..7 -> 0..1], NEW i \in 0..7
    PROVE  Odd(Shr(Octet(b), i)) = b[i]
<1>1. PICK x0 \in 0..1, x1 \in 0..1, x2 \in 0..1, x3 \in 0..1,
           x4 \in 0..1, x5 \in 0..1, x6 \in 0..1, x7 \in 0..1 :
        /\ x0 = b[0] /\ x1 = b[1] /\ x2 = b[2] /\ x3 = b[3]
        /\ x4 = b[4] /\ x5 = b[5] /\ x6 = b[6] /\ x7 = b[7]
  <2>1. /\ b[0] \in 0..1 /\ b[1] \in 0..1 /\ b[2] \in 0..1 /\ b[3] \in 0..1
        /\ b[4] \in 0..1 /\ b[5] \in 0..1 /\ b[6] \in 0..1 /\ b[7] \in 0..1
    OBVIOUS
  <2> QED  BY ONLY <2>1, Zenon
<1>2. PICK o : o = Octet(b)
                 /\ o = x0 + 2 * x1 + 4 * x2 + 8 * x3 + 16 * x4 + 32 * x5 + 64 * x6 + 128 * x7
  BY ONLY <1>1 DEF Octet
<1>3. /\ BitAt(o, 1, x0) /\ BitAt(o, 2, x1) /\ BitAt(o, 4, x2) /\ BitAt(o, 8, x3)
      /\ BitAt(o, 16, x4) /\ BitAt(o, 32, x5) /\ BitAt(o, 64, x6) /\ BitAt(o, 128, x7)
  BY ONLY <1>2, BitsAt, x0 \in 0..1, x1 \in 0..1, x2 \in 0..1, x3 \in 0..1,
     x4 \in 0..1, x5 \in 0..1, x6 \in 0..1, x7 \in 0..1
<1>4. \A p, r : p = Pow(r) => Shr(o, r) = o \div p
  BY Zenon DEF Shr, Pow
<1>5. CASE i = 0
  <2>1. Odd(o \div 1) = x0
    BY <1>3, BitCut
  <2> QED  BY ONLY <1>1, <1>2, <1>4, <1>5, <2>1, PowerTable
<1>6. CASE i = 1
  <2>1. Odd(o \div 2) = x1
    BY <1>3, BitCut
  <2> QED  BY ONLY <1>1, <1>2, <1>4, <1>6, <2>1, PowerTable
<1>7. CASE i = 2
  <2>1. Odd(o \div 4) = x2
    BY <1>3, BitCut
  <2> QED  BY ONLY <1>1, <1>2, <1>4, <1>7, <2>1, PowerTable
<1>8. CASE i = 3
  <2>1. Odd(o \div 8) = x3
    BY <1>3, BitCut
  <2> QED  BY ONLY <1>1, <1>2, <1>4, <1>8, <2>1, PowerTable
<1>9. CASE i = 4
  <2>1. Odd(o \div 16) = x4
    BY <1>3, BitCut
  <2> QED  BY ONLY <1>1, <1>2, <1>4, <1>9, <2>1, PowerTable
<1>10. CASE i = 5
  <2>1. Odd(o \div 32) = x5
    BY <1>3, BitCut
  <2> QED  BY ONLY <1>1, <1>2, <1>4, <1>10, <2>1, PowerTable
<1>11. CASE i = 6
  <2>1. Odd(o \div 64) = x6
    BY <1>3, BitCut
  <2> QED  BY ONLY <1>1, <1>2, <1>4, <1>11, <2>1, PowerTable
<1>12. CASE i = 7
  <2>1. Odd(o \div 128) = x7
    BY <1>3, BitCut
  <2> QED  BY ONLY <1>1, <1>2, <1>4, <1>12, <2>1, PowerTable
<1> QED  BY <1>5, <1>6, <1>7, <1>8, <1>9, <1>10, <1>11, <1>12


-----------------------------------------------------------------------------
(* The peer, control by control. *)

LEMMA UsageNames ==
    /\ \A a \in Axes : UsageFromParts(1, DesktopIds[a]) = AxisUsage(a)
    /\ UsageFromParts(1, DesktopIds.HatSwitch) = HatUsage
    /\ \A b : UsageFromParts(9, b) = [control |-> "Button", button |-> b]
<1>1. /\ DOMAIN DesktopIds = {"X", "Y", "Rz", "HatSwitch"}
      /\ DesktopIds["X"] = 48 /\ DesktopIds["Y"] = 49 /\ DesktopIds["Rz"] = 53
      /\ DesktopIds["HatSwitch"] = 57
  BY DEF DesktopIds
<1>2. ASSUME NEW c \in {"X", "Y", "Rz", "HatSwitch"}
      PROVE  UsageFromParts(1, DesktopIds[c]) = [control |-> c, button |-> 0]
  <2> DEFINE named == {d \in DOMAIN DesktopIds : 1 = 1 /\ DesktopIds[d] = DesktopIds[c]}
  <2>1. named = {c}
    BY <1>1
  <2>2. UsageFromParts(1, DesktopIds[c])
          = [control |-> CHOOSE d \in IF named = {} THEN {"Other"} ELSE named : TRUE, button |-> 0]
    BY DEF UsageFromParts
  <2> HIDE DEF named
  <2>3. (IF named = {} THEN {"Other"} ELSE named) = {c}
    BY <2>1
  <2>4. (CHOOSE d \in {c} : TRUE) = c
    OBVIOUS
  <2> QED  BY ONLY <2>2, <2>3, <2>4
<1>3. \A b : UsageFromParts(9, b) = [control |-> "Button", button |-> b]
  BY DEF UsageFromParts
<1> QED  BY <1>2, <1>3 DEF AxisUsage, HatUsage, Axes

(* A set of usages, element by element. *)
LEMMA RecordSet ==
    ASSUME NEW C, NEW B, NEW x
    PROVE  x \in [control : C, button : B] <=>
              \E c \in C, b \in B : x = [control |-> c, button |-> b]
OBVIOUS

(* The bytes behind the report id. *)
LEMMA Behind ==
    ASSUME NEW w \in Seq(Byte), Len(w) = 10
    PROVE  /\ Tail(w) \in Seq(Byte)
           /\ \A i \in 1..9 : ByteAt(Tail(w), i) = w[i + 1]
<1>1. w # <<>>
  <2>1. Len(<<>>) = 0
    OBVIOUS
  <2> QED  BY <2>1
<1>2. Tail(w) \in Seq(Byte) /\ Len(Tail(w)) = 9 /\ \A i \in 1..9 : Tail(w)[i] = w[i + 1]
  <2>1. \A q \in Seq(Byte) : q # <<>> =>
           /\ Tail(q) \in Seq(Byte) /\ Len(Tail(q)) = Len(q) - 1
           /\ \A i \in 1..Len(q) - 1 : Tail(q)[i] = q[i + 1]
    OBVIOUS
  <2>2. Len(w) - 1 = 9
    OBVIOUS
  <2>3. /\ Tail(w) \in Seq(Byte) /\ Len(Tail(w)) = Len(w) - 1
        /\ \A i \in 1..Len(w) - 1 : Tail(w)[i] = w[i + 1]
    BY ONLY w \in Seq(Byte), <1>1, <2>1, Zenon
  <2> QED  BY ONLY <2>2, <2>3, Zenon
<1>3. DOMAIN Tail(w) = 1..9
  <2>1. \A q \in Seq(Byte) : DOMAIN q = 1..Len(q)
    OBVIOUS
  <2> QED  BY <1>2, <2>1, Zenon
<1> QED  BY ONLY <1>2, <1>3, Zenon DEF ByteAt

LEMMA PeerAxis ==
    ASSUME NEW s \in JoystickState, NEW w, w = Encode(s), NEW a \in Axes
    PROVE  ValueIn(Tail(w), AxisBit[a], 16, TRUE) = s.axis[a]
<1>1. PICK n \in I16 : n = s.axis[a]
  BY DEF JoystickState
<1>2. w \in Seq(Byte) /\ Len(w) = 10
  BY EncodeIs
<1>3. PICK bytes \in Seq(Byte) : bytes = Tail(w) /\ \A i \in 1..9 : ByteAt(bytes, i) = w[i + 1]
  BY <1>2, Behind
<1>4. PICK k \in Nat : /\ AxisBit[a] = 8 * k /\ k + 1 \in 1..9 /\ k + 2 \in 1..9
                      /\ w[(k + 1) + 1] = Low(n) /\ w[(k + 2) + 1] = Low(High(n))
  <2>1. CASE a = "X"
    <3>1. AxisBit[a] = 8 * 0 /\ 0 + 1 \in 1..9 /\ 0 + 2 \in 1..9
          /\ (0 + 1) + 1 = 2 /\ (0 + 2) + 1 = 3 /\ 0 \in Nat
      BY <2>1 DEF AxisBit
    <3>2. w[2] = Low(n) /\ w[3] = Low(High(n))
      BY <1>1, <2>1, EncodeIs
    <3> QED  BY ONLY <3>1, <3>2
  <2>2. CASE a = "Y"
    <3>1. AxisBit[a] = 8 * 2 /\ 2 + 1 \in 1..9 /\ 2 + 2 \in 1..9
          /\ (2 + 1) + 1 = 4 /\ (2 + 2) + 1 = 5 /\ 2 \in Nat
      BY <2>2 DEF AxisBit
    <3>2. w[4] = Low(n) /\ w[5] = Low(High(n))
      BY <1>1, <2>2, EncodeIs
    <3> QED  BY ONLY <3>1, <3>2
  <2>3. CASE a = "Rz"
    <3>1. AxisBit[a] = 8 * 4 /\ 4 + 1 \in 1..9 /\ 4 + 2 \in 1..9
          /\ (4 + 1) + 1 = 6 /\ (4 + 2) + 1 = 7 /\ 4 \in Nat
      BY <2>3 DEF AxisBit
    <3>2. w[6] = Low(n) /\ w[7] = Low(High(n))
      BY <1>1, <2>3, EncodeIs
    <3> QED  BY ONLY <3>1, <3>2
  <2> QED  BY <2>1, <2>2, <2>3 DEF Axes
<1>5. ByteAt(bytes, k + 1) = Low(n) /\ ByteAt(bytes, k + 2) = Low(High(n))
  BY ONLY <1>3, <1>4, Zenon
<1>6. PICK bit : bit = AxisBit[a] /\ bit = 8 * k
  BY <1>4
<1>7. ValueIn(bytes, bit, 16, TRUE) = n
  BY ONLY bytes \in Seq(Byte), k \in Nat, n \in I16, <1>5, <1>6, LeValue, Zenon
<1> QED  BY ONLY <1>1, <1>3, <1>6, <1>7, Zenon

LEMMA PeerHat ==
    ASSUME NEW s \in JoystickState, NEW w, w = Encode(s)
    PROVE  ValueIn(Tail(w), 48, 4, FALSE) = HatToWire(s.hat)
<1>1. w \in Seq(Byte) /\ Len(w) = 10 /\ w[8] = HatToWire(s.hat)
  BY EncodeIs
<1>2. PICK bytes \in Seq(Byte) : bytes = Tail(w) /\ \A i \in 1..9 : ByteAt(bytes, i) = w[i + 1]
  BY <1>1, Behind
<1>3. 48 = 8 * 6 /\ 6 \in Nat /\ 6 + 1 \in 1..9 /\ (6 + 1) + 1 = 8
  OBVIOUS
<1>4. ByteAt(bytes, 6 + 1) = HatToWire(s.hat)
  BY ONLY <1>1, <1>2, <1>3, Zenon
<1>5. HatToWire(s.hat) \in 0..15
  BY HatWireType DEF JoystickState
<1>6. ValueIn(bytes, 48, 4, FALSE) = ByteAt(bytes, 6 + 1)
  BY ONLY <1>3, <1>4, <1>5, bytes \in Seq(Byte), NibbleValue
<1> QED  BY ONLY <1>2, <1>4, <1>6, Zenon

LEMMA PeerButton ==
    ASSUME NEW s \in JoystickState, NEW w, w = Encode(s), NEW b \in ButtonIndex
    PROVE  ValueIn(Tail(w), 56 + b, 1, FALSE) = IF b \in s.buttons THEN 1 ELSE 0
<1>1. /\ w \in Seq(Byte) /\ Len(w) = 10
      /\ w[9] = Low(ButtonBits(s.buttons)) /\ w[10] = Low(High(ButtonBits(s.buttons)))
  BY EncodeIs
<1>2. PICK bytes \in Seq(Byte) : bytes = Tail(w) /\ \A i \in 1..9 : ByteAt(bytes, i) = w[i + 1]
  BY <1>1, Behind
<1>3. PICK k \in Nat, r \in 0..7, n \in {0, 8} :
        /\ 56 + b = 8 * k + r /\ n + r = b /\ k + 1 \in 1..9
        /\ n = 0 => (k + 1) + 1 = 9
        /\ n = 8 => (k + 1) + 1 = 10
  <2>1. b \in Int /\ 0 <= b /\ b <= 15
    BY DEF ButtonIndex, BUTTON_COUNT
  <2>2. CASE b < 8
    <3>1. PICK r \in 0..7 : r = b
      BY <2>1, <2>2
    <3>2. /\ 56 + b = 8 * 7 + r /\ 0 + r = b /\ 7 + 1 \in 1..9
          /\ 0 = 0 => (7 + 1) + 1 = 9
          /\ 0 = 8 => (7 + 1) + 1 = 10
      BY <3>1
    <3> QED  BY <3>2
  <2>3. CASE ~(b < 8)
    <3>1. PICK r \in 0..7 : 8 + r = b
      <4>1. b - 8 \in 0..7 /\ 8 + (b - 8) = b
        BY <2>1, <2>3
      <4> QED  BY <4>1
    <3>2. /\ 56 + b = 8 * 8 + r /\ 8 + r = b /\ 8 + 1 \in 1..9
          /\ 8 = 0 => (8 + 1) + 1 = 9
          /\ 8 = 8 => (8 + 1) + 1 = 10
      BY <3>1
    <3> QED  BY <3>2
  <2> QED  BY <2>2, <2>3
<1>4. ByteAt(bytes, k + 1) = Octet(Pressed(s.buttons, n))
  <2>1. /\ Low(ButtonBits(s.buttons)) = Octet(Pressed(s.buttons, 0))
        /\ Low(High(ButtonBits(s.buttons))) = Octet(Pressed(s.buttons, 8))
    BY ButtonBitsIs
  <2>2. n = 0 \/ n = 8
    OBVIOUS
  <2> QED  BY ONLY <1>1, <1>2, <1>3, <2>1, <2>2, Zenon
<1>5. Place(56 + b, k, r)
  BY <1>3 DEF Place
<1>6. ValueIn(bytes, 56 + b, 1, FALSE) = Odd(Shr(ByteAt(bytes, k + 1), r))
  BY <1>5, BitValue
<1>7. /\ Pressed(s.buttons, n) \in [0..7 -> 0..1]
      /\ Pressed(s.buttons, n)[r] = IF n + r \in s.buttons THEN 1 ELSE 0
  BY DEF Pressed
<1>8. Odd(Shr(Octet(Pressed(s.buttons, n)), r)) = Pressed(s.buttons, n)[r]
  BY <1>7, BitOfOctet
<1> QED  BY ONLY <1>2, <1>3, <1>4, <1>6, <1>7, <1>8


(* After a report is applied the peer sees what the report means. *)
LEMMA PeerFollows ==
    ASSUME TypeInv, ReportInv
    PROVE  PeerSeesReport
<1> SUFFICES ASSUME phase = "applied"
             PROVE  /\ wire[1] = Layout.reportId
                    /\ wire[1] = output_persona_descriptor.report_id
                    /\ Len(wire) = output_persona_descriptor.wire_len
                    /\ Layout.bit = 8 * output_persona_descriptor.payload_len
                    /\ {UsageOf(f) : f \in Layout.fields} =
                          [control : Axes \cup {"HatSwitch"}, button : {0}]
                            \cup [control : {"Button"}, button : 1..BUTTON_COUNT]
                    /\ \A f \in Layout.fields : PeerValue(f) = ReportedValue(f)
  BY Zenon DEF PeerSeesReport
<1>1. /\ TypeOK
      /\ DecodesTo(summary, reportId, payload, Len(summary) + 1, decoded)
      /\ Collects(decoded, Len(decoded), state)
      /\ wire = Encode(state)
      /\ state \in JoystickState
  BY TypeFacts DEF TypeInv, ReportInv
<1>2. /\ output_persona_descriptor.report_id = 1
      /\ output_persona_descriptor.wire_len = 10
      /\ output_persona_descriptor.payload_len = 9
  BY DEF output_persona_descriptor
<1>3. /\ Layout.reportId = 1 /\ Layout.bit = 72
      /\ Layout.fields = AxisFields \cup {HatField} \cup ButtonFields
  BY LayoutRead
<1>4. wire[1] = 1 /\ Len(wire) = 10
  BY <1>1, EncodeIs
<1>5. \A a \in Axes : \A f : f = [page |-> 1, id |-> DesktopIds[a], bit |-> AxisBit[a],
                               size |-> 16, signed |-> TRUE] =>
         /\ UsageOf(f) = AxisUsage(a)
         /\ PeerValue(f) = ValueIn(Tail(wire), AxisBit[a], 16, TRUE)
  BY UsageNames DEF UsageOf, PeerValue
<1>6. /\ UsageOf(HatField) = HatUsage
      /\ PeerValue(HatField) = ValueIn(Tail(wire), 48, 4, FALSE)
  BY UsageNames DEF UsageOf, PeerValue, HatField
<1>7. \A b \in 1..BUTTON_COUNT : \A f : f = [page |-> 9, id |-> b, bit |-> 55 + b,
                                         size |-> 1, signed |-> FALSE] =>
         /\ UsageOf(f) = [control |-> "Button", button |-> b]
         /\ PeerValue(f) = ValueIn(Tail(wire), 55 + b, 1, FALSE)
  BY UsageNames DEF UsageOf, PeerValue
<1>8. \A f \in AxisFields : \E a \in Axes :
         /\ UsageOf(f) = AxisUsage(a)
         /\ PeerValue(f) = ValueIn(Tail(wire), AxisBit[a], 16, TRUE)
  BY ONLY <1>5, Zenon DEF AxisFields
<1>9. \A f \in ButtonFields : \E b \in 1..BUTTON_COUNT :
         /\ UsageOf(f) = [control |-> "Button", button |-> b]
         /\ PeerValue(f) = ValueIn(Tail(wire), 55 + b, 1, FALSE)
  BY ONLY <1>7, Zenon DEF ButtonFields
<1>10. {UsageOf(f) : f \in Layout.fields} =
          [control : Axes \cup {"HatSwitch"}, button : {0}]
            \cup [control : {"Button"}, button : 1..BUTTON_COUNT]
  <2>1. \A a \in Axes : \E f \in AxisFields : UsageOf(f) = AxisUsage(a)
    BY ONLY <1>5, Zenon DEF AxisFields
  <2>2. \A b \in 1..BUTTON_COUNT : \E f \in ButtonFields :
           UsageOf(f) = [control |-> "Button", button |-> b]
    BY ONLY <1>7, Zenon DEF ButtonFields
  <2>3. [control : Axes \cup {"HatSwitch"}, button : {0}]
          = {AxisUsage(a) : a \in Axes} \cup {HatUsage}
    <3>1. \A x : x \in [control : Axes \cup {"HatSwitch"}, button : {0}] <=>
                   \E c \in Axes \cup {"HatSwitch"} : x = [control |-> c, button |-> 0]
      BY RecordSet
    <3> QED  BY ONLY <3>1 DEF AxisUsage, HatUsage
  <2>4. [control : {"Button"}, button : 1..BUTTON_COUNT]
          = {[control |-> "Button", button |-> b] : b \in 1..BUTTON_COUNT}
    <3>1. \A x : x \in [control : {"Button"}, button : 1..BUTTON_COUNT] <=>
                   \E b \in 1..BUTTON_COUNT : x = [control |-> "Button", button |-> b]
      BY RecordSet
    <3> QED  BY ONLY <3>1
  <2>5. {UsageOf(f) : f \in AxisFields} = {AxisUsage(a) : a \in Axes}
    BY ONLY <1>8, <2>1
  <2>6. {UsageOf(f) : f \in ButtonFields}
          = {[control |-> "Button", button |-> b] : b \in 1..BUTTON_COUNT}
    <3> DEFINE U(b) == [control |-> "Button", button |-> b]
    <3>1. /\ \A f \in ButtonFields : \E b \in 1..BUTTON_COUNT : UsageOf(f) = U(b)
          /\ \A b \in 1..BUTTON_COUNT : \E f \in ButtonFields : UsageOf(f) = U(b)
      BY ONLY <1>9, <2>2, Zenon
    <3> HIDE DEF U
    <3>2. {UsageOf(f) : f \in ButtonFields} = {U(b) : b \in 1..BUTTON_COUNT}
      BY ONLY <3>1
    <3> QED  BY ONLY <3>2 DEF U
  <2>7. {UsageOf(f) : f \in AxisFields \cup {HatField} \cup ButtonFields}
          = {UsageOf(f) : f \in AxisFields} \cup {UsageOf(HatField)}
              \cup {UsageOf(f) : f \in ButtonFields}
    BY ONLY TRUE
  <2> QED  BY ONLY <1>3, <1>6, <2>3, <2>4, <2>5, <2>6, <2>7, Zenon
<1>11. \A f \in AxisFields : PeerValue(f) = ReportedValue(f)
  <2> SUFFICES ASSUME NEW f \in AxisFields PROVE PeerValue(f) = ReportedValue(f)
    OBVIOUS
  <2>1. PICK a \in Axes : /\ UsageOf(f) = AxisUsage(a)
                          /\ PeerValue(f) = ValueIn(Tail(wire), AxisBit[a], 16, TRUE)
    BY <1>8
  <2>2. PeerValue(f) = state.axis[a]
    BY <1>1, <2>1, PeerAxis
  <2>3. Meaning(AxisUsage(a), 0) = state.axis[a]
    <3>1. Holds(decoded, Len(decoded), AxisUsage(a), 0, state.axis[a])
      BY <1>1, Zenon DEF Collects
    <3> QED  BY <1>1, <3>1, MeaningIs
  <2>4. /\ AxisUsage(a).control \in Axes
        /\ AxisUsage(a).control # "HatSwitch" /\ AxisUsage(a).control # "Button"
    BY DEF AxisUsage, Axes
  <2>5. ReportedValue(f) = Meaning(AxisUsage(a), 0)
    BY ONLY <2>1, <2>4, Zenon DEF ReportedValue
  <2> QED  BY ONLY <2>2, <2>3, <2>5
<1>12. PeerValue(HatField) = ReportedValue(HatField)
  <2>1. PICK v \in HatValues : Holds(decoded, Len(decoded), HatUsage, -1, v) /\ state.hat = HatOf(v)
    BY <1>1, Zenon DEF Collects
  <2>2. Meaning(HatUsage, -1) = v
    BY <1>1, <2>1, MeaningIs
  <2>3. PeerValue(HatField) = HatToWire(HatOf(v))
    BY <1>1, <1>6, <2>1, PeerHat
  <2>4. HatToWire(HatOf(v)) = IF v \in 0..7 THEN v ELSE 8
    BY HatToWireIs
  <2>5. HatUsage.control = "HatSwitch" /\ HatUsage.control \notin Axes
    BY DEF HatUsage, Axes
  <2>6. ReportedValue(HatField) = IF v \in 0..7 THEN v ELSE 8
    BY ONLY <1>6, <2>2, <2>5 DEF ReportedValue
  <2> QED  BY ONLY <2>3, <2>4, <2>6
<1>13. \A f \in ButtonFields : PeerValue(f) = ReportedValue(f)
  <2> SUFFICES ASSUME NEW f \in ButtonFields PROVE PeerValue(f) = ReportedValue(f)
    OBVIOUS
  <2>1. PICK b \in 1..BUTTON_COUNT : /\ UsageOf(f) = [control |-> "Button", button |-> b]
                                     /\ PeerValue(f) = ValueIn(Tail(wire), 55 + b, 1, FALSE)
    BY <1>9
  <2>2. PICK c \in ButtonIndex : b = c + 1 /\ 55 + b = 56 + c
    <3>1. b - 1 \in ButtonIndex /\ b = (b - 1) + 1 /\ 55 + b = 56 + (b - 1)
      BY DEF ButtonIndex, BUTTON_COUNT
    <3> QED  BY <3>1
  <2>3. UsageOf(f) = ButtonUsage(c)
    BY ONLY <2>1, <2>2 DEF ButtonUsage
  <2>4. PICK v \in FieldValues : /\ Holds(decoded, Len(decoded), ButtonUsage(c), 0, v)
                                 /\ c \in state.buttons <=> v # 0
    BY <1>1, Zenon DEF Collects
  <2>5. Meaning(ButtonUsage(c), 0) = v
    BY <1>1, <2>4, MeaningIs
  <2>6. PeerValue(f) = IF c \in state.buttons THEN 1 ELSE 0
    <3>1. ValueIn(Tail(wire), 56 + c, 1, FALSE) = IF c \in state.buttons THEN 1 ELSE 0
      BY <1>1, PeerButton
    <3> QED  BY ONLY <2>1, <2>2, <3>1, Zenon
  <2>7. ButtonUsage(c).control = "Button" /\ "Button" \notin Axes
    BY DEF ButtonUsage, Axes
  <2>8. ReportedValue(f) = IF v # 0 THEN 1 ELSE 0
    BY ONLY <2>3, <2>5, <2>7 DEF ReportedValue
  <2> QED  BY ONLY <2>4, <2>6, <2>8
<1>14. \A f \in Layout.fields : PeerValue(f) = ReportedValue(f)
  BY ONLY <1>3, <1>11, <1>12, <1>13
<1> QED  BY ONLY <1>2, <1>3, <1>4, <1>10, <1>14

(* For every descriptor and every sequence of reports: after a report is   *)
(* applied each control of the persona's report map, read out of the bytes *)
(* as the map says, has the value that the last field of its usage has in  *)
(* this report, or rests.                                                  *)
THEOREM PeerSeesEachReport == Spec => []PeerSeesReport
<1>1. Init => TypeInv /\ ReportInv
  BY InitTypes, InitReport
<1>2. TypeInv /\ ReportInv /\ [Next]_vars => TypeInv' /\ ReportInv'
  BY NextTypes, NextReportInv
<1>3. TypeInv /\ ReportInv => PeerSeesReport
  BY PeerFollows
<1> QED  BY <1>1, <1>2, <1>3, PTL DEF Spec
=============================================================================
