---------------------------- MODULE IpTextProofs ----------------------------
(***************************************************************************)
(* Theorems about IpText for all texts and addresses, checked by TLAPS.    *)
(***************************************************************************)
EXTENDS IpText, TLAPS, WellFoundedInduction

-----------------------------------------------------------------------------
(* The digits of an octet.                                                 *)

LEMMA LeastNumber ==
  ASSUME NEW T \in SUBSET Nat, T # {}
  PROVE  \E m \in T : \A k \in T : m <= k
<1>. DEFINE R == {ss \in Nat \X Nat : ss[1] < ss[2]}
<1>0. IsWellFoundedOn(R, Nat)
  BY NatLessThanWellFounded DEF OpToRel
<1>. HIDE DEF R
<1>1. PICK m \in T : \A k \in T : ~(<<k, m>> \in R)
  BY <1>0, WFMin
<1>2. ASSUME NEW k \in T PROVE m <= k
  <2>1. m \in Nat /\ k \in Nat
    OBVIOUS
  <2>2. ~(k < m)
    BY <1>1, <2>1 DEF R
  <2>. QED BY <2>1, <2>2
<1>. QED BY <1>2

\* Turn n of the loop, after which the digits have added up to x before.
NextOctet(f, n, x) ==
  IF (n > 1 /\ x = 0) \/ x * 10 + f[n] > 255 THEN Bad ELSE x * 10 + f[n]

Fields == Seq(0 .. 9)

\* v[n] is the octet after n digits.
Reads(f, v) ==
  /\ v \in [0 .. Len(f) -> 0 .. Bad]
  /\ v[0] = 0
  /\ \A n \in 1 .. Len(f) : v[n] = NextOctet(f, n, v[n - 1])

LEMMA FieldDigits ==
  ASSUME NEW f \in Fields
  PROVE  /\ Len(f) \in Nat /\ f = [n \in 1 .. Len(f) |-> f[n]]
         /\ \A n \in 1 .. Len(f) : f[n] \in 0 .. 9
<1>1. Len(f) \in Nat /\ \A n \in 1 .. Len(f) : f[n] \in 0 .. 9
  BY DEF Fields
<1>2. f = [n \in 1 .. Len(f) |-> f[n]]
  BY DEF Fields
<1>. QED BY <1>1, <1>2

LEMMA NextOctetTyped ==
  ASSUME NEW f \in Fields, NEW n \in 1 .. Len(f), NEW x \in 0 .. Bad
  PROVE  NextOctet(f, n, x) \in 0 .. Bad
<1>1. f[n] \in 0 .. 9
  BY DEF Fields
<1>2. x \in 0 .. 256
  BY DEF Bad
<1>. DEFINE y == x * 10 + f[n]
<1>3. y \in Nat
  BY <1>1, <1>2
<1>. HIDE DEF y
<1>4. y \in 0 .. Bad \/ y > 255
  BY <1>3 DEF Bad
<1>5. Bad \in 0 .. Bad
  BY DEF Bad
<1>6. NextOctet(f, n, x) = IF (n > 1 /\ x = 0) \/ y > 255 THEN Bad ELSE y
  BY DEF NextOctet, y
<1>. QED BY <1>4, <1>5, <1>6

\* The loop adds up the digits of any field (by the least number of digits for
\* which it would not).
LEMMA DigitsAddUp ==
  ASSUME NEW f \in Fields
  PROVE  \E v : Reads(f, v)
<1>. DEFINE To(n) == {v \in [0 .. n -> 0 .. Bad] :
                        /\ v[0] = 0
                        /\ \A k \in 1 .. n : v[k] = NextOctet(f, k, v[k - 1])}
            T == {n \in 0 .. Len(f) : To(n) = {}}
<1>0. Len(f) \in Nat
  BY DEF Fields
<1>1. T = {}
  <2>. SUFFICES ASSUME T # {} PROVE FALSE
    OBVIOUS
  <2>1. T \in SUBSET Nat
    BY <1>0
  <2>0. \A n : n \in T <=> n \in 0 .. Len(f) /\ To(n) = {}
    OBVIOUS
  <2>. HIDE DEF T
  <2>2. PICK m \in T : \A k \in T : m <= k
    BY <2>1, LeastNumber
  <2>3. m \in 0 .. Len(f) /\ To(m) = {}
    BY <2>0
  <2>4. CASE m = 0
    <3>1. [k \in 0 .. 0 |-> 0] \in To(0)
      BY DEF Bad
    <3>. QED BY <2>3, <2>4, <3>1
  <2>5. CASE m # 0
    <3>1. m - 1 \in 0 .. Len(f) /\ m - 1 \notin T /\ m \in 1 .. Len(f)
      BY <1>0, <2>2, <2>3, <2>5
    <3>2. PICK v : v \in To(m - 1)
      BY <2>0, <3>1
    <3>. DEFINE w == [k \in 0 .. m |-> IF k = m THEN NextOctet(f, m, v[m - 1]) ELSE v[k]]
    <3>3. /\ v \in [0 .. m - 1 -> 0 .. Bad] /\ v[0] = 0
          /\ \A k \in 1 .. m - 1 : v[k] = NextOctet(f, k, v[k - 1])
      BY <3>2
    <3>4. NextOctet(f, m, v[m - 1]) \in 0 .. Bad
      <4>1. v[m - 1] \in 0 .. Bad
        BY <3>1, <3>3
      <4>. QED BY <3>1, <4>1, NextOctetTyped
    <3>5. w \in [0 .. m -> 0 .. Bad] /\ w[0] = 0 /\ w[m] = NextOctet(f, m, v[m - 1])
          /\ \A k \in 0 .. m - 1 : w[k] = v[k]
      BY <3>1, <3>3, <3>4
    <3>. HIDE DEF w
    <3>6. ASSUME NEW k \in 1 .. m PROVE w[k] = NextOctet(f, k, w[k - 1])
      <4>1. CASE k = m
        BY <3>1, <3>5, <4>1
      <4>2. CASE k # m
        <5>1. k \in 1 .. m - 1 /\ k \in 0 .. m - 1 /\ k - 1 \in 0 .. m - 1
          BY <3>1, <4>2
        <5>. QED BY <3>3, <3>5, <5>1
      <4>. QED BY <4>1, <4>2
    <3>7. w \in To(m)
      BY <3>5, <3>6
    <3>. QED BY <2>3, <3>7
  <2>. QED BY <2>4, <2>5
<1>2. To(Len(f)) # {}
  BY <1>0, <1>1
<1>. QED BY <1>2 DEF Reads

LEMMA OctetIsRead ==
  ASSUME NEW f \in Fields
  PROVE  \E v : Reads(f, v) /\ Octet(f) = v[Len(f)]
<1>. DEFINE v[n \in 0 .. Len(f)] ==
        IF n = 0 THEN 0
        ELSE IF \/ n > 1 /\ v[n - 1] = 0
                \/ v[n - 1] * 10 + f[n] > 255
             THEN Bad
             ELSE v[n - 1] * 10 + f[n]
      Turn(u) == [n \in 0 .. Len(f) |->
        IF n = 0 THEN 0
        ELSE IF \/ n > 1 /\ u[n - 1] = 0
                \/ u[n - 1] * 10 + f[n] > 255
             THEN Bad
             ELSE u[n - 1] * 10 + f[n]]
<1>0. Len(f) \in Nat
  BY DEF Fields
<1>1. Octet(f) = v[Len(f)]
  BY DEF Octet
<1>2. PICK u : Reads(f, u)
  BY DigitsAddUp
<1>3. u = Turn(u)
  <2>1. u \in [0 .. Len(f) -> 0 .. Bad] /\ u[0] = 0
    BY <1>2 DEF Reads
  <2>2. ASSUME NEW n \in 0 .. Len(f) PROVE u[n] = Turn(u)[n]
    BY <1>0, <1>2 DEF Reads, NextOctet
  <2>. QED BY <2>1, <2>2
<1>4. v = CHOOSE w : w = Turn(w)
  OBVIOUS
<1>5. v = Turn(v)
  BY <1>3, <1>4
<1>. HIDE DEF v
<1>6. Reads(f, v)
  <2>1. v[0] = 0 /\ DOMAIN v = 0 .. Len(f)
    BY <1>0, <1>5
  <2>2. ASSUME NEW n \in 1 .. Len(f) PROVE v[n] = NextOctet(f, n, v[n - 1])
    BY <1>0, <1>5 DEF NextOctet
  <2>3. ASSUME NEW n \in 0 .. Len(f) PROVE v[n] \in 0 .. Bad
    <3>. DEFINE T == {k \in 0 .. Len(f) : v[k] \notin 0 .. Bad}
    <3>. SUFFICES ASSUME T # {} PROVE FALSE
      OBVIOUS
    <3>1. T \in SUBSET Nat /\ \A k : k \in T <=> k \in 0 .. Len(f) /\ v[k] \notin 0 .. Bad
      BY <1>0
    <3>. HIDE DEF T
    <3>2. PICK m \in T : \A k \in T : m <= k
      BY <3>1, LeastNumber
    <3>3. m \in 0 .. Len(f) /\ m # 0
      BY <2>1, <3>1 DEF Bad
    <3>4. m - 1 \in 0 .. Len(f) /\ m \in 1 .. Len(f) /\ m - 1 \notin T
      BY <1>0, <3>2, <3>3
    <3>5. v[m] \in 0 .. Bad
      BY <2>2, <3>1, <3>4, NextOctetTyped
    <3>. QED BY <3>1, <3>5
  <2>4. v \in [0 .. Len(f) -> 0 .. Bad]
    BY <1>5, <2>3
  <2>. QED BY <2>1, <2>2, <2>4 DEF Reads
<1>. QED BY <1>1, <1>6

\* Once the digits are no octet, more of them are none either.
LEMMA BadStays ==
  ASSUME NEW f \in Fields, NEW v, Reads(f, v), NEW n \in 1 .. Len(f), v[n] = Bad
  PROVE  v[Len(f)] = Bad
<1>. DEFINE T == {k \in n .. Len(f) : v[k] # Bad}
<1>0. Len(f) \in Nat /\ n \in Nat
  BY DEF Fields
<1>1. T = {}
  <2>. SUFFICES ASSUME T # {} PROVE FALSE
    OBVIOUS
  <2>1. T \in SUBSET Nat /\ \A k : k \in T <=> k \in n .. Len(f) /\ v[k] # Bad
    BY <1>0
  <2>. HIDE DEF T
  <2>2. PICK m \in T : \A k \in T : m <= k
    BY <2>1, LeastNumber
  <2>3. m \in n .. Len(f) /\ m # n /\ v[m] # Bad
    BY <2>1
  <2>4. m - 1 \in n .. Len(f) /\ m \in 1 .. Len(f) /\ m - 1 \notin T
    BY <1>0, <2>2, <2>3
  <2>5. v[m - 1] = Bad
    BY <2>1, <2>4
  <2>6. f[m] \in 0 .. 9 /\ v[m] = NextOctet(f, m, v[m - 1])
    BY <2>4, FieldDigits DEF Reads
  <2>7. NextOctet(f, m, Bad) = Bad
    BY <2>6 DEF NextOctet, Bad
  <2>. QED BY <2>3, <2>5, <2>6, <2>7
<1>. QED BY <1>0, <1>1

LEMMA OctetTyped ==
  ASSUME NEW f \in Fields
  PROVE  Octet(f) \in 0 .. Bad
<1>1. PICK v : Reads(f, v) /\ Octet(f) = v[Len(f)]
  BY OctetIsRead
<1>2. Len(f) \in 0 .. Len(f)
  BY DEF Fields
<1>. QED BY <1>1, <1>2 DEF Reads

\* Two and three digits.
LEMMA TwoDigits ==
  ASSUME NEW p \in 1 .. 9, NEW q \in 0 .. 9
  PROVE  /\ p * 10 + q \in Octets /\ p * 10 + q # 0
         /\ Decimal(p * 10 + q) = <<p, q>>
<1>. DEFINE o == p * 10 + q
<1>1. o \in 10 .. 99 /\ o \div 10 = p /\ o % 10 = q
  OBVIOUS
<1>. HIDE DEF o
<1>2. o \in 0 .. 255 /\ o # 0 /\ ~(o < 10) /\ o < 100
  BY <1>1
<1>3. Decimal(o) = <<p, q>>
  BY <1>1, <1>2 DEF Decimal
<1>. QED BY <1>2, <1>3 DEF o, Octets

LEMMA ThreeDigits ==
  ASSUME NEW p \in 1 .. 9, NEW q \in 0 .. 9, NEW r \in 0 .. 9,
         (p * 10 + q) * 10 + r <= 255
  PROVE  /\ (p * 10 + q) * 10 + r \in Octets /\ (p * 10 + q) * 10 + r >= 100
         /\ Decimal((p * 10 + q) * 10 + r) = <<p, q, r>>
<1>. DEFINE o == (p * 10 + q) * 10 + r
<1>1. /\ o \in 100 .. 255 /\ o \div 100 = p
      /\ (o \div 10) % 10 = q /\ o % 10 = r
  OBVIOUS
<1>. HIDE DEF o
<1>2. o \in 0 .. 255 /\ o >= 100 /\ ~(o < 10) /\ ~(o < 100)
  BY <1>1
<1>3. Decimal(o) = <<p, q, r>>
  BY <1>1, <1>2 DEF Decimal
<1>. QED BY <1>2, <1>3 DEF o, Octets

\* A digit that leads to an octet.
LEMMA GoodDigit ==
  ASSUME NEW f, NEW n \in Nat, NEW x \in Nat, f[n] \in 0 .. 9,
         NextOctet(f, n, x) # Bad
  PROVE  /\ NextOctet(f, n, x) = x * 10 + f[n] /\ x * 10 + f[n] <= 255
         /\ n > 1 => x # 0
<1>. DEFINE y == x * 10 + f[n]
<1>1. y \in Nat
  OBVIOUS
<1>2. NextOctet(f, n, x) = IF (n > 1 /\ x = 0) \/ y > 255 THEN Bad ELSE y
  BY DEF NextOctet
<1>. HIDE DEF y
<1>3. NextOctet(f, n, x) = y /\ y <= 255 /\ (n > 1 => x # 0)
  BY <1>1, <1>2
<1>. QED BY <1>3 DEF y

\* Digits that are an octet are as sprintf writes it.
LEMMA OctetIsDecimal ==
  ASSUME NEW f \in Fields, f # <<>>, Octet(f) # Bad
  PROVE  Octet(f) \in Octets /\ f = Decimal(Octet(f))
<1>. DEFINE l == Len(f)
<1>1. PICK v : Reads(f, v) /\ Octet(f) = v[l]
  BY OctetIsRead
<1>2. /\ l \in Nat /\ l >= 1 /\ \A n \in 1 .. l : f[n] \in 0 .. 9
      /\ f = [n \in 1 .. l |-> f[n]]
  <2>1. l # 0
    BY DEF Fields
  <2>. QED BY <2>1, FieldDigits
<1>3. v[0] = 0 /\ \A n \in 1 .. l : /\ v[n] = NextOctet(f, n, v[n - 1])
                                    /\ v[n] # Bad
  <2>1. ASSUME NEW n \in 1 .. l PROVE v[n] # Bad
    BY <1>1, BadStays
  <2>. QED BY <1>1, <2>1 DEF Reads
<1>. HIDE DEF l
<1>4. PICK p \in 0 .. 9 : p = f[1]
  BY <1>2
<1>5. v[1] = p
  <2>1. 1 \in 1 .. l /\ 1 - 1 = 0
    BY <1>2
  <2>2. v[1] = NextOctet(f, 1, 0)
    BY <1>3, <2>1
  <2>. QED BY <1>4, <2>2 DEF NextOctet
<1>6. CASE l = 1
  <2>1. f = <<p>>
    BY <1>2, <1>4, <1>6
  <2>2. Decimal(p) = <<p>> /\ p \in Octets
    BY DEF Decimal, Octets
  <2>. QED BY <1>1, <1>5, <1>6, <2>1, <2>2
<1>7. CASE l >= 2
  <2>0. 2 \in 1 .. l /\ 2 - 1 = 1
    BY <1>2, <1>7
  <2>1. PICK q \in 0 .. 9 : q = f[2]
    BY <1>2, <2>0
  <2>2. v[2] = p * 10 + q /\ p \in 1 .. 9
    <3>1. v[2] = NextOctet(f, 2, p) /\ v[2] # Bad /\ p \in Nat
      BY <1>3, <1>5, <2>0
    <3>. QED BY <2>1, <3>1, GoodDigit
  <2>3. CASE l = 2
    <3>1. f = <<p, q>>
      BY <1>2, <1>4, <2>1, <2>3
    <3>. QED BY <1>1, <2>2, <2>3, <3>1, TwoDigits
  <2>4. CASE l >= 3
    <3>0. 3 \in 1 .. l /\ 3 - 1 = 2
      BY <1>2, <2>4
    <3>1. PICK r \in 0 .. 9 : r = f[3]
      BY <1>2, <3>0
    <3>2. v[3] = (p * 10 + q) * 10 + r /\ (p * 10 + q) * 10 + r <= 255
      <4>1. v[3] = NextOctet(f, 3, p * 10 + q) /\ v[3] # Bad /\ p * 10 + q \in Nat
        BY <1>3, <2>2, <3>0
      <4>. QED BY <3>1, <4>1, GoodDigit
    <3>3. CASE l = 3
      <4>1. f = <<p, q, r>>
        BY <1>2, <1>4, <2>1, <3>1, <3>3
      <4>. QED BY <1>1, <2>2, <3>2, <3>3, <4>1, ThreeDigits
    <3>4. CASE l >= 4
      <4>0. 4 \in 1 .. l /\ 4 - 1 = 3
        BY <1>2, <3>4
      <4>1. PICK x \in Nat : x = (p * 10 + q) * 10 + r /\ x >= 100
        BY <2>2
      <4>2. v[4] = NextOctet(f, 4, x) /\ v[4] # Bad /\ f[4] \in 0 .. 9
        BY <1>2, <1>3, <3>2, <4>0, <4>1
      <4>3. x * 10 + f[4] <= 255
        BY <4>2, GoodDigit
      <4>. QED BY <4>1, <4>2, <4>3
    <3>. QED BY <1>2, <2>4, <3>3, <3>4
  <2>. QED BY <1>2, <1>7, <2>3, <2>4
<1>. QED BY <1>2, <1>6, <1>7

\* What sprintf writes is read as the octet it was.
LEMMA DecimalIsOctet ==
  ASSUME NEW o \in Octets
  PROVE  Decimal(o) \in Fields /\ Decimal(o) # <<>> /\ Octet(Decimal(o)) = o
<1>. DEFINE f == Decimal(o)
<1>0. o \in 0 .. 255
  BY DEF Octets
<1>1. CASE o < 10
  <2>1. f = <<o>> /\ o \in 0 .. 9
    BY <1>0, <1>1 DEF Decimal
  <2>2. f \in Fields /\ Len(f) = 1 /\ f[1] = o
    BY <2>1 DEF Fields
  <2>. HIDE DEF f
  <2>3. PICK v : Reads(f, v) /\ Octet(f) = v[1]
    BY <2>2, OctetIsRead
  <2>4. v[0] = 0 /\ v[1] = NextOctet(f, 1, v[1 - 1])
    BY <2>2, <2>3 DEF Reads
  <2>5. v[1] = o
    BY <2>1, <2>2, <2>4 DEF NextOctet
  <2>. QED BY <2>1, <2>2, <2>3, <2>5 DEF f
<1>2. CASE o >= 10 /\ o < 100
  <2>. DEFINE p == o \div 10 q == o % 10
  <2>1. f = <<p, q>> /\ p \in 1 .. 9 /\ q \in 0 .. 9 /\ p * 10 + q = o
    BY <1>0, <1>2 DEF Decimal
  <2>. HIDE DEF p, q
  <2>2. f \in Fields /\ Len(f) = 2 /\ f[1] = p /\ f[2] = q
    BY <2>1 DEF Fields
  <2>. HIDE DEF f
  <2>3. PICK v : Reads(f, v) /\ Octet(f) = v[2]
    BY <2>2, OctetIsRead
  <2>4. v[0] = 0 /\ v[1] = NextOctet(f, 1, v[1 - 1]) /\ v[2] = NextOctet(f, 2, v[2 - 1])
    BY <2>2, <2>3 DEF Reads
  <2>5. v[1] = p
    BY <2>1, <2>2, <2>4 DEF NextOctet
  <2>6. v[2] = o
    BY <1>0, <1>2, <2>1, <2>2, <2>4, <2>5 DEF NextOctet
  <2>. QED BY <2>1, <2>2, <2>3, <2>6 DEF f
<1>3. CASE o >= 100
  <2>. DEFINE p == o \div 100 q == (o \div 10) % 10 r == o % 10
  <2>1. f = <<p, q, r>> /\ p \in 1 .. 9 /\ q \in 0 .. 9 /\ r \in 0 .. 9
        /\ (p * 10 + q) * 10 + r = o
    BY <1>0, <1>3 DEF Decimal
  <2>. HIDE DEF p, q, r
  <2>2. f \in Fields /\ Len(f) = 3 /\ f[1] = p /\ f[2] = q /\ f[3] = r
    BY <2>1 DEF Fields
  <2>. HIDE DEF f
  <2>3. PICK v : Reads(f, v) /\ Octet(f) = v[3]
    BY <2>2, OctetIsRead
  <2>4. /\ v[0] = 0 /\ v[1] = NextOctet(f, 1, v[1 - 1]) /\ v[2] = NextOctet(f, 2, v[2 - 1])
        /\ v[3] = NextOctet(f, 3, v[3 - 1])
    BY <2>2, <2>3 DEF Reads
  <2>5. v[1] = p
    BY <2>1, <2>2, <2>4 DEF NextOctet
  <2>6. v[2] = p * 10 + q
    BY <1>0, <2>1, <2>2, <2>4, <2>5 DEF NextOctet
  <2>7. v[3] = o
    BY <1>0, <2>1, <2>2, <2>4, <2>6 DEF NextOctet
  <2>. QED BY <2>1, <2>2, <2>3, <2>7 DEF f
<1>. QED BY <1>0, <1>1, <1>2, <1>3

-----------------------------------------------------------------------------
(* Version 4.                                                              *)

LEMMA FunctionIsSeq ==
  ASSUME NEW S, NEW n \in Nat, NEW f \in [1 .. n -> S]
  PROVE  f \in Seq(S) /\ Len(f) = n
OBVIOUS

LEMMA SeqIsFunction ==
  ASSUME NEW S, NEW s \in Seq(S)
  PROVE  /\ Len(s) \in Nat /\ s \in [1 .. Len(s) -> S]
         /\ s = [n \in 1 .. Len(s) |-> s[n]]
         /\ \A n \in 1 .. Len(s) : s[n] \in S
OBVIOUS

LEMMA Ntop4Fields ==
  ASSUME NEW a \in [1 .. 4 -> Octets]
  PROVE  /\ Ntop4(a) \in Seq(Fields) /\ Len(Ntop4(a)) = 4
         /\ \A k \in 1 .. 4 : /\ Ntop4(a)[k] # <<>>
                              /\ Octet(Ntop4(a)[k]) = a[k]
<1>1. \A k \in 1 .. 4 : /\ Decimal(a[k]) \in Fields /\ Decimal(a[k]) # <<>>
                        /\ Octet(Decimal(a[k])) = a[k]
  BY DecimalIsOctet
<1>2. Ntop4(a) \in [1 .. 4 -> Fields] /\ \A k \in 1 .. 4 : Ntop4(a)[k] = Decimal(a[k])
  BY <1>1 DEF Ntop4
<1>3. Ntop4(a) \in Seq(Fields) /\ Len(Ntop4(a)) = 4
  <2>1. PICK n \in Nat : n = 4
    OBVIOUS
  <2>2. PICK f \in [1 .. n -> Fields] : f = Ntop4(a)
    BY <1>2, <2>1
  <2>3. f \in Seq(Fields) /\ Len(f) = n
    BY FunctionIsSeq, Zenon
  <2>. QED BY <2>1, <2>2, <2>3, Zenon
<1>. QED BY <1>1, <1>2, <1>3

\* What is printed is read.
LEMMA Prints4Reads ==
  ASSUME NEW a \in [1 .. 4 -> Octets]
  PROVE  Pton4Reads(Ntop4(a))
<1>1. \A k \in 1 .. 4 : a[k] # Bad
  BY DEF Octets, Bad
<1>. QED BY <1>1, Ntop4Fields DEF Pton4Reads

\* What is read has been printed.
LEMMA Reads4Prints ==
  ASSUME NEW fs \in Seq(Fields), Pton4Reads(fs)
  PROVE  /\ [k \in 1 .. 4 |-> Octet(fs[k])] \in [1 .. 4 -> Octets]
         /\ fs = Ntop4([k \in 1 .. 4 |-> Octet(fs[k])])
<1>1. Len(fs) = 4 /\ \A k \in 1 .. 4 : fs[k] \in Fields
  BY SeqIsFunction DEF Pton4Reads
<1>2. \A k \in 1 .. 4 : Octet(fs[k]) \in Octets /\ fs[k] = Decimal(Octet(fs[k]))
  BY <1>1, OctetIsDecimal DEF Pton4Reads
<1>3. fs = [k \in 1 .. 4 |-> fs[k]]
  BY <1>1
<1>. QED BY <1>2, <1>3 DEF Ntop4

\* A field that is not read is no octet's.
LEMMA NotReadNotPrinted ==
  ASSUME NEW fs \in Seq(Fields), ~Pton4Reads(fs)
  PROVE  Len(fs) # 4 \/ \E k \in 1 .. 4 : \A o \in Octets : fs[k] # Decimal(o)
<1>. SUFFICES ASSUME Len(fs) = 4
              PROVE  \E k \in 1 .. 4 : \A o \in Octets : fs[k] # Decimal(o)
  OBVIOUS
<1>1. PICK k \in 1 .. 4 : fs[k] = <<>> \/ Octet(fs[k]) = Bad
  BY DEF Pton4Reads
<1>2. ASSUME NEW o \in Octets PROVE fs[k] # Decimal(o)
  <2>1. Decimal(o) # <<>> /\ Octet(Decimal(o)) = o /\ o # Bad
    <3>1. Decimal(o) # <<>> /\ Octet(Decimal(o)) = o
      BY DecimalIsOctet
    <3>. QED BY <3>1 DEF Octets, Bad
  <2>. QED BY <1>1, <2>1
<1>. QED BY <1>2

LEMMA IntervalFromZero ==
  ASSUME NEW n \in Nat
  PROVE  \A x : x \in 0 .. n <=> x \in Nat /\ x <= n
OBVIOUS

LEMMA WordIs == \A x : x \in Words <=> x \in Nat /\ x <= 65535
<1>1. PICK n \in Nat : n = 65535
  OBVIOUS
<1>2. Words = 0 .. n
  BY <1>1 DEF Words
<1>3. \A x : x \in Words <=> x \in Nat /\ x <= n
  BY <1>2, IntervalFromZero
<1>. QED BY <1>1, <1>3, SMTT(30)

LEMMA OctetIs == \A x : x \in Octets <=> x \in Nat /\ x <= 255
<1>1. PICK n \in Nat : n = 255
  OBVIOUS
<1>2. Octets = 0 .. n
  BY <1>1 DEF Octets
<1>3. \A x : x \in Octets <=> x \in Nat /\ x <= n
  BY <1>2, IntervalFromZero
<1>. QED BY <1>1, <1>3, SMTT(30)

LEMMA TwoOctets ==
  ASSUME NEW p \in Octets, NEW q \in Octets
  PROVE  p * 256 + q \in Words
<1>1. p \in Nat /\ q \in Nat /\ p <= 255 /\ q <= 255
  BY OctetIs
<1>2. p * 256 + q \in Nat /\ p * 256 + q <= 65535
  BY <1>1
<1>. QED BY <1>2, WordIs

\* The words of a dotted part.
LEMMA DottedWords ==
  ASSUME NEW fs \in Seq(Fields), Pton4Reads(fs)
  PROVE  WordsOf4(fs) \in Seq(Words) /\ Len(WordsOf4(fs)) = 2
<1>1. /\ fs[1] \in Fields /\ fs[1] # <<>> /\ Octet(fs[1]) # Bad
      /\ fs[2] \in Fields /\ fs[2] # <<>> /\ Octet(fs[2]) # Bad
      /\ fs[3] \in Fields /\ fs[3] # <<>> /\ Octet(fs[3]) # Bad
      /\ fs[4] \in Fields /\ fs[4] # <<>> /\ Octet(fs[4]) # Bad
  BY SeqIsFunction DEF Pton4Reads
<1>2. /\ Octet(fs[1]) \in Octets /\ Octet(fs[2]) \in Octets
      /\ Octet(fs[3]) \in Octets /\ Octet(fs[4]) \in Octets
  BY <1>1, OctetIsDecimal
<1>3. \A p, q \in Octets : p * 256 + q \in Words
  BY TwoOctets
<1>4. WordsOf4(fs)[1] \in Words /\ WordsOf4(fs)[2] \in Words
  BY <1>2, <1>3 DEF WordsOf4
<1>. QED BY <1>4 DEF WordsOf4

-----------------------------------------------------------------------------
(* What ts_inet_ntop6 prints of address w, word by word, for a run of      *)
(* zeros of length l from position b.                                      *)

IsRun(w, b, l) ==
  \/ b = 9 /\ l = 0
  \/ /\ b \in 1 .. 8 /\ l \in 2 .. 8 /\ b + l <= 9
     /\ \A i \in b .. b + l - 1 : w[i] = 0

\* The token for word i.
Octets4(w) == [n \in 1 .. 4 |-> IF n % 2 = 1 THEN w[6 + (n + 1) \div 2] \div 256
                                ELSE w[6 + (n + 1) \div 2] % 256]
TokenOf(w, b, l, i) ==
  IF Encapsulates4(w, b, l) /\ i = 7 THEN Dotted(Ntop4(Octets4(w))) ELSE Hex(w[i])

\* Where the double colon is.
Mark(b) == IF b = 1 THEN 1 ELSE 2 * b - 2

LengthTo(b, l, i) == IF i = 0 THEN 0
                     ELSE IF i < b THEN 2 * i - 1
                     ELSE IF i < b + l THEN Mark(b)
                     ELSE Mark(b) + 2 * (i - (b + l) + 1)

IsText(q) == q \in Seq(Tokens)

\* q is what has been printed of words 1 .. i.
PrintedTo(q, w, b, l, i) ==
  /\ IsText(q) /\ Len(q) = LengthTo(b, l, i)
  /\ \A k \in 1 .. i : k < b => q[2 * k - 1] = TokenOf(w, b, l, k)
  /\ \A k \in 2 .. i : k < b => q[2 * k - 2] = Colon
  /\ i >= b => q[Mark(b)] = Colon
  /\ \A k \in b + l .. i :
       /\ q[Mark(b) + 2 * (k - (b + l)) + 1] = Colon
       /\ q[Mark(b) + 2 * (k - (b + l)) + 2] = TokenOf(w, b, l, k)

\* The words of a run are those of IsBest, and the address is written whole if
\* there is none.
LEMMA BestIsRun ==
  ASSUME NEW w \in [1 .. 8 -> Words]
  PROVE  IsRun(w, BestRun(w)[1], BestRun(w)[2])
<1>1. CASE \E b, l \in 1 .. 8 : b + l <= 9 /\ IsBest(w, b, l)
  <2>. DEFINE P(r) == r[1] + r[2] <= 9 /\ IsBest(w, r[1], r[2])
  <2>1. \E r \in (1 .. 8) \X (1 .. 8) : P(r)
    <3>1. PICK b \in 1 .. 8, l \in 1 .. 8 : b + l <= 9 /\ IsBest(w, b, l)
      BY <1>1
    <3>2. <<b, l>> \in (1 .. 8) \X (1 .. 8) /\ P(<<b, l>>)
      BY <3>1
    <3>. QED BY <3>2
  <2>2. BestRun(w) = CHOOSE r \in (1 .. 8) \X (1 .. 8) : P(r)
    BY <1>1 DEF BestRun
  <2>. HIDE DEF P
  <2>3. BestRun(w) \in (1 .. 8) \X (1 .. 8) /\ P(BestRun(w))
    BY <2>1, <2>2
  <2>. QED BY <2>3 DEF P, IsBest, IsZeroRun, IsRun
<1>2. CASE ~ \E b, l \in 1 .. 8 : b + l <= 9 /\ IsBest(w, b, l)
  <2>1. BestRun(w) = NoRun
    BY <1>2 DEF BestRun
  <2>. QED BY <2>1 DEF NoRun, IsRun
<1>. QED BY <1>1, <1>2

LEMMA OctetsOfWord ==
  ASSUME NEW x \in Words
  PROVE  x \div 256 \in Octets /\ x % 256 \in Octets
         /\ (x \div 256) * 256 + (x % 256) = x
<1>1. x \in Nat /\ x <= 65535
  BY WordIs
<1>2. PICK p \in Nat, q \in Nat : p = x \div 256 /\ q = x % 256 /\ p * 256 + q = x /\ q <= 255
  BY <1>1
<1>3. p <= 255
  BY <1>1, <1>2
<1>4. p \in Octets /\ q \in Octets
  BY <1>2, <1>3, OctetIs
<1>. QED BY <1>2, <1>4

\* The dotted end stands for the last two words.
LEMMA DottedEnd ==
  ASSUME NEW w \in [1 .. 8 -> Words]
  PROVE  /\ Octets4(w) \in [1 .. 4 -> Octets]
         /\ WordsOf4(Ntop4(Octets4(w))) = <<w[7], w[8]>>
<1>. DEFINE a == Octets4(w)
<1>1. w[7] \in Words /\ w[8] \in Words
  OBVIOUS
<1>2. /\ a[1] = w[7] \div 256 /\ a[2] = w[7] % 256
      /\ a[3] = w[8] \div 256 /\ a[4] = w[8] % 256
  BY DEF Octets4
<1>3. \A n \in 1 .. 4 : n = 1 \/ n = 2 \/ n = 3 \/ n = 4
  OBVIOUS
<1>4. \A n \in 1 .. 4 : a[n] \in Octets
  BY <1>1, <1>2, <1>3, OctetsOfWord
<1>5. a = [n \in 1 .. 4 |-> a[n]]
  BY DEF Octets4
<1>. HIDE DEF a
<1>6. a \in [1 .. 4 -> Octets]
  BY <1>4, <1>5
<1>7. /\ Octet(Ntop4(a)[1]) = a[1] /\ Octet(Ntop4(a)[2]) = a[2]
      /\ Octet(Ntop4(a)[3]) = a[3] /\ Octet(Ntop4(a)[4]) = a[4]
  BY <1>6, Ntop4Fields
<1>8. a[1] * 256 + a[2] = w[7] /\ a[3] * 256 + a[4] = w[8]
  BY <1>1, <1>2, OctetsOfWord
<1>9. WordsOf4(Ntop4(a)) = <<w[7], w[8]>>
  BY <1>7, <1>8 DEF WordsOf4
<1>. QED BY <1>6, <1>9 DEF a

LEMMA TokensTyped ==
  /\ Colon \in Tokens
  /\ \A v \in Nat : Hex(v) \in Tokens
  /\ \A fs \in Seq(Fields) : Dotted(fs) \in Tokens
<1>1. Colon \in Tokens
  BY DEF Tokens
<1>2. \A v \in Nat : Hex(v) \in Tokens
  BY DEF Hex, Tokens
<1>3. ASSUME NEW fs \in Seq(Fields) PROVE Dotted(fs) \in Tokens
  BY DEF Dotted, Tokens, Fields
<1>. QED BY <1>1, <1>2, <1>3

LEMMA TokenOfTyped ==
  ASSUME NEW w \in [1 .. 8 -> Words], NEW b, NEW l, NEW i \in 1 .. 8
  PROVE  TokenOf(w, b, l, i) \in Tokens
<1>1. w[i] \in Nat
  BY WordIs
<1>2. Ntop4(Octets4(w)) \in Seq(Fields)
  BY DottedEnd, Ntop4Fields
<1>. QED BY <1>1, <1>2, TokensTyped DEF TokenOf

LEMMA OneAndOne ==
  ASSUME NEW x, NEW y
  PROVE  <<x>> \o <<y>> = <<x, y>>
<1>. DEFINE s == <<x>> \o <<y>>
<1>1. <<x>> \in Seq({x, y}) /\ <<y>> \in Seq({x, y})
  OBVIOUS
<1>2. s \in Seq({x, y}) /\ Len(s) = 2 /\ s[1] = x /\ s[2] = y
  BY <1>1
<1>. HIDE DEF s
<1>3. s = [n \in 1 .. 2 |-> s[n]]
  BY <1>2, SeqIsFunction
<1>4. <<x, y>> = [n \in 1 .. 2 |-> <<x, y>>[n]]
  OBVIOUS
<1>5. ASSUME NEW n \in 1 .. 2 PROVE s[n] = <<x, y>>[n]
  <2>1. n = 1 \/ n = 2
    OBVIOUS
  <2>. QED BY <1>2, <2>1
<1>6. s = <<x, y>>
  BY <1>3, <1>4, <1>5
<1>. QED BY <1>6 DEF s

\* What one turn of the loop prints.
LEMMA PrintedIs ==
  ASSUME NEW w, NEW b, NEW l, NEW i \in 1 .. 8,
         ~(Encapsulates4(w, b, l) /\ i = 8)
  PROVE  Printed(w, b, l, i) =
           IF i \in b .. b + l - 1 THEN IF i = b THEN <<Colon>> ELSE <<>>
           ELSE IF i = 1 THEN <<TokenOf(w, b, l, i)>>
           ELSE <<Colon, TokenOf(w, b, l, i)>>
<1>1. CASE i \in b .. b + l - 1
  BY <1>1 DEF Printed
<1>2. CASE i \notin b .. b + l - 1
  <2>1. Printed(w, b, l, i) = (IF i = 1 THEN <<>> ELSE <<Colon>>) \o <<TokenOf(w, b, l, i)>>
    BY <1>2 DEF Printed, TokenOf, Octets4
  <2>2. <<>> \o <<TokenOf(w, b, l, i)>> = <<TokenOf(w, b, l, i)>>
    OBVIOUS
  <2>3. <<Colon>> \o <<TokenOf(w, b, l, i)>> = <<Colon, TokenOf(w, b, l, i)>>
    BY OneAndOne
  <2>. QED BY <1>2, <2>1, <2>2, <2>3
<1>. QED BY <1>1, <1>2

\* Text r is text q of n tokens and then x, or x and y.
HasLength(q, n) == n \in Nat /\ q \in Seq(Tokens) /\ Len(q) = n
OneAfter(r, q, n, x) ==
  /\ r \in Seq(Tokens) /\ Len(r) = n + 1 /\ r[n + 1] = x
  /\ \A k \in 1 .. n : r[k] = q[k]
TwoAfter(r, q, n, x, y) ==
  /\ r \in Seq(Tokens) /\ Len(r) = n + 2 /\ r[n + 1] = x /\ r[n + 2] = y
  /\ \A k \in 1 .. n : r[k] = q[k]

LEMMA OneMore ==
  ASSUME NEW q, NEW n, HasLength(q, n), NEW x \in Tokens
  PROVE  OneAfter(q \o <<x>>, q, n, x)
<1>1. /\ q \o <<x>> \in Seq(Tokens) /\ Len(q \o <<x>>) = Len(q) + 1
      /\ (q \o <<x>>)[Len(q) + 1] = x
      /\ \A k \in 1 .. Len(q) : (q \o <<x>>)[k] = q[k]
  BY DEF HasLength
<1>2. Len(q) = n
  BY DEF HasLength
<1>. QED BY <1>1, <1>2, Zenon DEF OneAfter

LEMMA TwoMore ==
  ASSUME NEW q, NEW n, HasLength(q, n), NEW x \in Tokens, NEW y \in Tokens
  PROVE  TwoAfter(q \o <<x, y>>, q, n, x, y)
<1>1. /\ q \o <<x, y>> \in Seq(Tokens) /\ Len(q \o <<x, y>>) = Len(q) + 2
      /\ (q \o <<x, y>>)[Len(q) + 1] = x /\ (q \o <<x, y>>)[Len(q) + 2] = y
      /\ \A k \in 1 .. Len(q) : (q \o <<x, y>>)[k] = q[k]
  BY DEF HasLength
<1>2. Len(q) = n
  BY DEF HasLength
<1>. QED BY <1>1, <1>2, Zenon DEF TwoAfter

LEMMA NoMore ==
  ASSUME NEW q, IsText(q)
  PROVE  q \o <<>> = q
BY DEF IsText

LEMMA PrintedNothing ==
  ASSUME NEW w, NEW b, NEW l, IsRun(w, b, l)
  PROVE  PrintedTo(<<>>, w, b, l, 0)
<1>1. b \in 1 .. 9 /\ b + l \in 3 .. 9
  BY DEF IsRun
<1>2. 1 .. 0 = {} /\ 2 .. 0 = {} /\ b + l .. 0 = {} /\ ~(0 >= b)
  BY <1>1
<1>3. IsText(<<>>) /\ Len(<<>>) = 0
  BY DEF IsText
<1>. QED BY <1>2, <1>3 DEF PrintedTo, LengthTo

\* Before the run.
LEMMA PrintsBefore ==
  ASSUME NEW w \in [1 .. 8 -> Words], NEW b, NEW l, IsRun(w, b, l), NEW i \in 0 .. 7,
         NEW q, PrintedTo(q, w, b, l, i), i + 1 < b
  PROVE  PrintedTo(q \o Printed(w, b, l, i + 1), w, b, l, i + 1)
<1>. DEFINE t == TokenOf(w, b, l, i + 1)
            r == q \o Printed(w, b, l, i + 1)
<1>1. b \in 1 .. 9 /\ b + l \in 3 .. 9 /\ b <= b + l
  BY DEF IsRun
<1>2. i + 1 \in 1 .. 8 /\ i + 1 \notin b .. b + l - 1 /\ ~(i + 1 >= b)
      /\ b + l .. i + 1 = {} /\ b # 1
  BY <1>1
<1>3. Printed(w, b, l, i + 1) = IF i + 1 = 1 THEN <<t>> ELSE <<Colon, t>>
  <2>1. ~(Encapsulates4(w, b, l) /\ i + 1 = 8)
    <3>1. b # 1
      BY <1>2
    <3>. QED BY <3>1 DEF Encapsulates4
  <2>2. Printed(w, b, l, i + 1) =
          IF i + 1 \in b .. b + l - 1 THEN IF i + 1 = b THEN <<Colon>> ELSE <<>>
          ELSE IF i + 1 = 1 THEN <<t>>
          ELSE <<Colon, t>>
    BY <1>2, <2>1, PrintedIs, Zenon
  <2>. HIDE DEF t
  <2>. QED BY <1>2, <2>2, Zenon
<1>4. /\ IsText(q) /\ Len(q) = IF i = 0 THEN 0 ELSE 2 * i - 1
      /\ \A k \in 1 .. i : q[2 * k - 1] = TokenOf(w, b, l, k)
      /\ \A k \in 2 .. i : q[2 * k - 2] = Colon
  <2>1. i < b /\ \A k \in 1 .. i : k < b
    BY <1>1
  <2>2. LengthTo(b, l, i) = IF i = 0 THEN 0 ELSE 2 * i - 1
    BY <2>1 DEF LengthTo
  <2>3. /\ IsText(q) /\ Len(q) = LengthTo(b, l, i)
        /\ \A k \in 1 .. i : k < b => q[2 * k - 1] = TokenOf(w, b, l, k)
        /\ \A k \in 2 .. i : k < b => q[2 * k - 2] = Colon
    BY Zenon DEF PrintedTo
  <2>4. \A k \in 1 .. i : q[2 * k - 1] = TokenOf(w, b, l, k)
    BY <2>1, <2>3, Zenon
  <2>5. \A k \in 2 .. i : q[2 * k - 2] = Colon
    <3>1. \A k \in 2 .. i : k \in 1 .. i
      OBVIOUS
    <3>. QED BY <2>1, <2>3, <3>1, Zenon
  <2>. QED BY <2>2, <2>3, <2>4, <2>5, Zenon
<1>5. t \in Tokens /\ Colon \in Tokens
  BY <1>2, TokenOfTyped, TokensTyped
<1>. HIDE DEF t
<1>6. CASE i = 0
  <2>1. r = q \o <<t>> /\ HasLength(q, 0)
    BY <1>3, <1>4, <1>6 DEF HasLength, IsText
  <2>. HIDE DEF r
  <2>2. IsText(r) /\ Len(r) = 1 /\ r[1] = t
    <3>1. OneAfter(r, q, 0, t)
      BY <1>5, <2>1, OneMore, Zenon
    <3>. QED BY <3>1 DEF OneAfter, IsText
  <2>3. r[2 * 1 - 1] = TokenOf(w, b, l, 1) /\ 1 .. 1 = {1} /\ 2 .. 1 = {}
    BY <1>6, <2>2 DEF t
  <2>4. PrintedTo(r, w, b, l, 1)
    BY <1>2, <1>6, <2>2, <2>3 DEF PrintedTo, LengthTo
  <2>. QED BY <1>6, <2>4 DEF r
<1>7. CASE i # 0
  <2>0. i + 1 # 1
    BY <1>7
  <2>. DEFINE n == 2 * i - 1
  <2>1. r = q \o <<Colon, t>> /\ HasLength(q, n) /\ n + 1 = 2 * i /\ n + 2 = 2 * i + 1
    <3>1. r = q \o <<Colon, t>>
      BY <1>3, <2>0
    <3>2. IsText(q) /\ Len(q) = 2 * i - 1
      BY <1>4, <1>7
    <3>3. n \in Nat /\ n + 1 = 2 * i /\ n + 2 = 2 * i + 1
      BY <1>7
    <3>. QED BY <3>1, <3>2, <3>3 DEF HasLength, IsText
  <2>. HIDE DEF r, n
  <2>2. /\ IsText(r) /\ Len(r) = 2 * i + 1 /\ r[2 * i] = Colon /\ r[2 * i + 1] = t
        /\ \A k \in 1 .. 2 * i - 1 : r[k] = q[k]
    <3>1. TwoAfter(r, q, n, Colon, t)
      BY <1>5, <2>1, TwoMore, Zenon
    <3>2. TwoAfter(r, q, 2 * i - 1, Colon, t)
      BY <3>1 DEF n
    <3>. QED BY <3>2 DEF TwoAfter, IsText
  <2>3. ASSUME NEW k \in 1 .. i + 1 PROVE r[2 * k - 1] = TokenOf(w, b, l, k)
    <3>1. CASE k = i + 1
      <4>1. 2 * k - 1 = 2 * i + 1
        BY <3>1
      <4>. QED BY <2>2, <3>1, <4>1 DEF t
    <3>2. CASE k # i + 1
      <4>1. k \in 1 .. i /\ 2 * k - 1 \in 1 .. 2 * i - 1
        BY <3>2
      <4>. QED BY <1>4, <2>2, <4>1
    <3>. QED BY <3>1, <3>2
  <2>4. ASSUME NEW k \in 2 .. i + 1 PROVE r[2 * k - 2] = Colon
    <3>1. CASE k = i + 1
      <4>1. 2 * k - 2 = 2 * i
        BY <3>1
      <4>. QED BY <2>2, <4>1
    <3>2. CASE k # i + 1
      <4>1. k \in 2 .. i /\ 2 * k - 2 \in 1 .. 2 * i - 1
        BY <3>2
      <4>. QED BY <1>4, <2>2, <4>1
    <3>. QED BY <3>1, <3>2
  <2>5. LengthTo(b, l, i + 1) = 2 * i + 1
    BY <1>2 DEF LengthTo
  <2>. QED BY <1>2, <2>2, <2>3, <2>4, <2>5 DEF PrintedTo, r
<1>. QED BY <1>6, <1>7

\* At its first word.
LEMMA PrintsRun ==
  ASSUME NEW w \in [1 .. 8 -> Words], NEW b, NEW l, IsRun(w, b, l), NEW i \in 0 .. 7,
         NEW q, PrintedTo(q, w, b, l, i), i + 1 = b
  PROVE  PrintedTo(q \o Printed(w, b, l, i + 1), w, b, l, i + 1)
<1>. DEFINE r == q \o Printed(w, b, l, i + 1)
            n == LengthTo(b, l, i)
<1>1. b \in 1 .. 8 /\ l \in 2 .. 8 /\ b + l \in 3 .. 9
  BY DEF IsRun
<1>2. i + 1 \in 1 .. 8 /\ i + 1 \in b .. b + l - 1 /\ b + l .. i + 1 = {}
      /\ i < b /\ i + 1 >= b /\ ~(i + 1 < b) /\ i + 1 < b + l /\ i + 1 # 0
      /\ ~(i + 1 = 8)
  BY <1>1
<1>3. r = q \o <<Colon>>
  BY <1>2, PrintedIs
<1>4. n \in Nat /\ n + 1 = Mark(b) /\ n = IF i = 0 THEN 0 ELSE 2 * i - 1
  BY <1>1, <1>2 DEF LengthTo, Mark
<1>5. HasLength(q, n)
  BY <1>4 DEF PrintedTo, HasLength, IsText
<1>6. Colon \in Tokens
  BY TokensTyped
<1>. HIDE DEF r, n
<1>7. OneAfter(r, q, n, Colon)
  BY <1>3, <1>5, <1>6, OneMore, Zenon
<1>8. /\ IsText(r) /\ Len(r) = Mark(b) /\ r[Mark(b)] = Colon
      /\ \A k \in 1 .. n : r[k] = q[k]
  BY <1>4, <1>7 DEF OneAfter, IsText
<1>9. ASSUME NEW k \in 1 .. i + 1, k < b PROVE r[2 * k - 1] = TokenOf(w, b, l, k)
  <2>1. k \in 1 .. i /\ 2 * k - 1 \in 1 .. n
    BY <1>4, <1>9
  <2>. QED BY <1>8, <1>9, <2>1 DEF PrintedTo
<1>10. ASSUME NEW k \in 2 .. i + 1, k < b PROVE r[2 * k - 2] = Colon
  <2>1. k \in 2 .. i /\ 2 * k - 2 \in 1 .. n
    BY <1>4, <1>10
  <2>. QED BY <1>8, <1>10, <2>1 DEF PrintedTo
<1>11. LengthTo(b, l, i + 1) = Mark(b)
  BY <1>2 DEF LengthTo
<1>. QED BY <1>2, <1>8, <1>9, <1>10, <1>11 DEF PrintedTo, r

\* At the others, and where the last turn prints nothing more.
LEMMA PrintsNoMore ==
  ASSUME NEW w \in [1 .. 8 -> Words], NEW b, NEW l, IsRun(w, b, l), NEW i \in 0 .. 7,
         NEW q, PrintedTo(q, w, b, l, i), i + 1 > b, i + 1 < b + l
  PROVE  PrintedTo(q \o Printed(w, b, l, i + 1), w, b, l, i + 1)
<1>1. b \in 1 .. 8 /\ l \in 2 .. 8 /\ b + l \in 3 .. 9
  BY DEF IsRun
<1>2. i + 1 \in 1 .. 8 /\ i + 1 \in b .. b + l - 1 /\ b + l .. i + 1 = {}
      /\ b + l .. i = {} /\ i >= b /\ i + 1 >= b /\ i + 1 # b
      /\ ~(i < b) /\ ~(i + 1 < b) /\ i < b + l /\ i # 0 /\ i + 1 # 0
  BY <1>1
<1>e. ~(Encapsulates4(w, b, l) /\ i + 1 = 8)
  BY <1>1 DEF Encapsulates4
<1>a. \A k \in 1 .. i + 1 : k < b => k \in 1 .. i
  BY <1>2
<1>b. \A k \in 2 .. i + 1 : k < b => k \in 2 .. i
  BY <1>2
<1>3. Printed(w, b, l, i + 1) = <<>> /\ IsText(q)
  BY <1>2, <1>e, PrintedIs DEF PrintedTo
<1>4. q \o Printed(w, b, l, i + 1) = q
  BY <1>3, NoMore
<1>5. LengthTo(b, l, i + 1) = LengthTo(b, l, i)
  BY <1>2 DEF LengthTo
<1>6. PrintedTo(q, w, b, l, i + 1)
  BY <1>2, <1>5, <1>a, <1>b DEF PrintedTo
<1>. QED BY <1>4, <1>6

\* After it.
LEMMA PrintsAfter ==
  ASSUME NEW w \in [1 .. 8 -> Words], NEW b, NEW l, IsRun(w, b, l), NEW i \in 0 .. 7,
         NEW q, PrintedTo(q, w, b, l, i), i + 1 >= b + l,
         ~(Encapsulates4(w, b, l) /\ i + 1 = 8)
  PROVE  PrintedTo(q \o Printed(w, b, l, i + 1), w, b, l, i + 1)
<1>. DEFINE r == q \o Printed(w, b, l, i + 1)
            n == LengthTo(b, l, i)
            t == TokenOf(w, b, l, i + 1)
            p(k) == Mark(b) + 2 * (k - (b + l))
<1>1. b \in 1 .. 8 /\ l \in 2 .. 8 /\ b + l \in 3 .. 9
  BY DEF IsRun
<1>2. i + 1 \in 1 .. 8 /\ i + 1 \notin b .. b + l - 1 /\ i + 1 # 1
      /\ i >= b /\ i + 1 >= b /\ ~(i < b) /\ ~(i + 1 < b) /\ ~(i + 1 < b + l)
      /\ i # 0 /\ i + 1 # 0
  BY <1>1
<1>a. \A k \in 1 .. i + 1 : k < b => k \in 1 .. i
  BY <1>2
<1>b. \A k \in 2 .. i + 1 : k < b => k \in 2 .. i
  BY <1>2
<1>3. r = q \o <<Colon, t>>
  BY <1>2, PrintedIs
<1>m. Mark(b) \in Nat /\ Mark(b) >= 1 /\ (b > 1 => Mark(b) = 2 * b - 2)
  BY <1>1 DEF Mark
<1>4. n = p(i + 1)
  <2>1. CASE i < b + l
    <3>1. n = Mark(b) /\ i + 1 = b + l
      BY <1>1, <1>2, <2>1 DEF LengthTo
    <3>. QED BY <1>m, <3>1
  <2>2. CASE ~(i < b + l)
    <3>1. n = Mark(b) + 2 * (i - (b + l) + 1)
      BY <1>2, <2>2 DEF LengthTo
    <3>. QED BY <1>1, <1>m, <3>1
  <2>. QED BY <2>1, <2>2
<1>5. n \in Nat /\ n >= Mark(b)
  BY <1>1, <1>m, <1>4
<1>6. HasLength(q, n) /\ Colon \in Tokens /\ t \in Tokens
  BY <1>2, <1>5, TokensTyped, TokenOfTyped DEF PrintedTo, HasLength, IsText
<1>. HIDE DEF r, n, t
<1>7. TwoAfter(r, q, n, Colon, t)
  BY <1>3, <1>6, TwoMore, Zenon
<1>8. /\ IsText(r) /\ Len(r) = n + 2 /\ r[n + 1] = Colon /\ r[n + 2] = t
      /\ \A k \in 1 .. n : r[k] = q[k]
  BY <1>7 DEF TwoAfter, IsText
<1>9. ASSUME NEW k \in 1 .. i + 1, k < b PROVE r[2 * k - 1] = TokenOf(w, b, l, k)
  <2>1. k \in 1 .. i /\ 2 * k - 1 \in 1 .. n
    BY <1>1, <1>a, <1>2, <1>5, <1>9, <1>m
  <2>. QED BY <1>8, <1>9, <2>1 DEF PrintedTo
<1>10. ASSUME NEW k \in 2 .. i + 1, k < b PROVE r[2 * k - 2] = Colon
  <2>1. k \in 2 .. i /\ 2 * k - 2 \in 1 .. n
    BY <1>1, <1>b, <1>2, <1>5, <1>10, <1>m
  <2>. QED BY <1>8, <1>10, <2>1 DEF PrintedTo
<1>11. r[Mark(b)] = Colon
  <2>1. Mark(b) \in 1 .. n /\ q[Mark(b)] = Colon
    BY <1>2, <1>5, <1>m DEF PrintedTo
  <2>. QED BY <1>8, <2>1
<1>12. ASSUME NEW k \in b + l .. i + 1
       PROVE  r[p(k) + 1] = Colon /\ r[p(k) + 2] = TokenOf(w, b, l, k)
  <2>1. CASE k = i + 1
    <3>1. n = p(k)
      BY <1>4, <2>1
    <3>. HIDE DEF p
    <3>. QED BY <1>8, <2>1, <3>1 DEF t
  <2>2. CASE k # i + 1
    <3>1. k \in b + l .. i /\ p(k) + 1 \in 1 .. n /\ p(k) + 2 \in 1 .. n
      BY <1>1, <1>4, <1>m, <2>2
    <3>2. q[p(k) + 1] = Colon /\ q[p(k) + 2] = TokenOf(w, b, l, k)
      BY <3>1 DEF PrintedTo
    <3>. QED BY <1>8, <3>1, <3>2
  <2>. QED BY <2>1, <2>2
<1>13. LengthTo(b, l, i + 1) = n + 2
  <2>0. i + 1 # 0 /\ ~(i + 1 < b) /\ ~(i + 1 < b + l)
    BY <1>2
  <2>1. LengthTo(b, l, i + 1) = Mark(b) + 2 * (i + 1 - (b + l) + 1)
    BY <1>1, <1>m, <2>0 DEF LengthTo
  <2>. QED BY <1>1, <1>4, <1>m, <2>1
<1>. QED BY <1>2, <1>8, <1>9, <1>10, <1>11, <1>12, <1>13 DEF PrintedTo, r

-----------------------------------------------------------------------------
(* Lists of groups.                                                        *)

LEMMA TokenKinds ==
  ASSUME NEW t \in Tokens
  PROVE  /\ t.kind \in {"colon", "hex", "dotted", "other"}
         /\ t.kind = "colon" <=> t = Colon
         /\ t.kind = "hex" => t.val \in Nat
         /\ t.kind = "dotted" => t.fields \in Seq(Fields)
BY DEF Tokens, Colon, Other, Fields

GoodGroup(t) == IsGroup(t) /\ (t.kind = "dotted" => Pton4Reads(t.fields))

\* Tokens a .. z of s are m groups with single colons between them, of which
\* the last may be dotted.
Span(s, a, z, m) ==
  /\ m \in Nat
  /\ z = IF m = 0 THEN a - 1 ELSE a + 2 * m - 2
  /\ \A j \in 1 .. m : /\ GoodGroup(s[a + 2 * j - 2])
                       /\ s[a + 2 * j - 2].kind = "dotted" => j = m
  /\ \A j \in 1 .. m - 1 : s[a + 2 * j - 1] = Colon

\* What IsList asks of a dotted part is that ts_inet_pton4 reads it.
IsPrinted(fs) ==
  \E a \in [1 .. 4 -> {Octet(fs[k]) : k \in DOMAIN fs} \cap Octets] : fs = Ntop4(a)

LEMMA ListIs ==
  ASSUME NEW s
  PROVE  IsList(s) <=>
           \/ s = <<>>
           \/ /\ Len(s) % 2 = 1
              /\ \A n \in DOMAIN s : IF n % 2 = 1 THEN IsGroup(s[n]) ELSE s[n] = Colon
              /\ \A n \in DOMAIN s : s[n].kind = "dotted" =>
                   n = Len(s) /\ IsPrinted(s[n].fields)
BY Zenon DEF IsList, IsPrinted

LEMMA DottedIsRead ==
  ASSUME NEW fs \in Seq(Fields)
  PROVE  IsPrinted(fs) <=> Pton4Reads(fs)
<1>. DEFINE O == {Octet(fs[k]) : k \in DOMAIN fs} \cap Octets
<1>0. IsPrinted(fs) <=> \E a \in [1 .. 4 -> O] : fs = Ntop4(a)
  BY Zenon DEF IsPrinted
<1>1. ASSUME NEW a \in [1 .. 4 -> O], fs = Ntop4(a) PROVE Pton4Reads(fs)
  <2>1. a \in [1 .. 4 -> Octets]
    <3>1. \A k \in 1 .. 4 : a[k] \in O
      OBVIOUS
    <3>2. \A x \in O : x \in Octets
      OBVIOUS
    <3>. HIDE DEF O
    <3>3. a = [k \in 1 .. 4 |-> a[k]] /\ \A k \in 1 .. 4 : a[k] \in Octets
      BY <3>1, <3>2
    <3>. QED BY <3>3
  <2>. QED BY <1>1, <2>1, Prints4Reads
<1>2. ASSUME Pton4Reads(fs) PROVE \E a \in [1 .. 4 -> O] : fs = Ntop4(a)
  <2>1. PICK a \in [1 .. 4 -> Octets] :
          fs = Ntop4(a) /\ a = [k \in 1 .. 4 |-> Octet(fs[k])]
    BY <1>2, Reads4Prints, Zenon
  <2>2. DOMAIN fs = 1 .. 4
    BY <1>2 DEF Pton4Reads
  <2>3. ASSUME NEW k \in 1 .. 4 PROVE a[k] \in O
    <3>1. a[k] = Octet(fs[k])
      BY <2>1, Zenon
    <3>2. a[k] \in Octets
      BY <2>1, Zenon
    <3>. QED BY <2>2, <3>1, <3>2
  <2>4. a \in [1 .. 4 -> O]
    <3>. HIDE DEF O
    <3>1. \A k \in 1 .. 4 : a[k] \in O
      BY <2>3
    <3>2. a = [k \in 1 .. 4 |-> a[k]]
      BY <2>1, Zenon
    <3>. QED BY <3>1, <3>2, Zenon
  <2>. HIDE DEF O
  <2>. QED BY <2>1, <2>4, Zenon
<1>. QED BY <1>0, <1>1, <1>2

LEMMA ListIsSpan ==
  ASSUME NEW u \in Seq(Tokens), IsList(u)
  PROVE  \E m \in Nat : Span(u, 1, Len(u), m)
<1>1. CASE u = <<>>
  BY <1>1 DEF Span
<1>2. CASE u # <<>>
  <2>1. /\ Len(u) \in Nat /\ Len(u) % 2 = 1
        /\ \A n \in 1 .. Len(u) : IF n % 2 = 1 THEN IsGroup(u[n]) ELSE u[n] = Colon
    <3>1. Len(u) % 2 = 1
          /\ \A n \in DOMAIN u : IF n % 2 = 1 THEN IsGroup(u[n]) ELSE u[n] = Colon
      BY <1>2, ListIs
    <3>. QED BY <3>1
  <2>2. PICK m \in Nat : m # 0 /\ Len(u) = 1 + 2 * m - 2
    <3>. DEFINE m == (Len(u) + 1) \div 2
    <3>1. m \in Nat /\ m # 0 /\ Len(u) = 1 + 2 * m - 2
      BY <2>1
    <3>. QED BY <3>1
  <2>3. ASSUME NEW j \in 1 .. m
        PROVE  /\ GoodGroup(u[1 + 2 * j - 2])
               /\ u[1 + 2 * j - 2].kind = "dotted" => j = m
    <3>. DEFINE n == 1 + 2 * j - 2
    <3>1. n \in 1 .. Len(u) /\ n % 2 = 1 /\ (n = Len(u) => j = m)
      BY <2>2
    <3>. HIDE DEF n
    <3>2. IsGroup(u[n]) /\ u[n] \in Tokens /\ n \in DOMAIN u
      BY <2>1, <3>1
    <3>3. ASSUME u[n].kind = "dotted" PROVE n = Len(u) /\ Pton4Reads(u[n].fields)
      <4>1. n = Len(u) /\ IsPrinted(u[n].fields)
        BY <1>2, <3>2, <3>3, ListIs
      <4>2. u[n].fields \in Seq(Fields)
        BY <3>2, <3>3, TokenKinds
      <4>. QED BY <4>1, <4>2, DottedIsRead
    <3>. QED BY <3>1, <3>2, <3>3 DEF GoodGroup, n
  <2>4. ASSUME NEW j \in 1 .. m - 1 PROVE u[1 + 2 * j - 1] = Colon
    <3>1. 1 + 2 * j - 1 \in 1 .. Len(u) /\ ~((1 + 2 * j - 1) % 2 = 1)
      BY <2>2
    <3>. QED BY <2>1, <3>1
  <2>. QED BY <2>2, <2>3, <2>4 DEF Span
<1>. QED BY <1>1, <1>2

LEMMA SpanIsList ==
  ASSUME NEW u \in Seq(Tokens), NEW m, Span(u, 1, Len(u), m)
  PROVE  IsList(u)
<1>0. m \in Nat /\ Len(u) = IF m = 0 THEN 0 ELSE 2 * m - 1
  BY DEF Span
<1>1. CASE m = 0
  <2>1. u = <<>>
    BY <1>0, <1>1
  <2>. QED BY <2>1 DEF IsList
<1>2. CASE m # 0
  <2>1. Len(u) % 2 = 1
    BY <1>0, <1>2
  <2>2. ASSUME NEW n \in 1 .. Len(u), n % 2 = 1
        PROVE  GoodGroup(u[n]) /\ (u[n].kind = "dotted" => n = Len(u))
    <3>. DEFINE i == (n + 1) \div 2
    <3>0. i \in 1 .. m /\ n = 1 + 2 * i - 2
      BY <1>0, <1>2, <2>2
    <3>1. PICK j \in 1 .. m : n = 1 + 2 * j - 2
      BY <3>0
    <3>2. GoodGroup(u[n]) /\ (u[n].kind = "dotted" => j = m)
      BY <3>1 DEF Span
    <3>. QED BY <1>0, <1>2, <3>1, <3>2
  <2>3. ASSUME NEW n \in 1 .. Len(u), n % 2 # 1 PROVE u[n] = Colon
    <3>. DEFINE i == n \div 2
    <3>0. i \in 1 .. m - 1 /\ n = 1 + 2 * i - 1
      BY <1>0, <1>2, <2>3
    <3>1. PICK j \in 1 .. m - 1 : n = 1 + 2 * j - 1
      BY <3>0
    <3>. QED BY <3>1 DEF Span
  <2>4. ASSUME NEW n \in 1 .. Len(u), u[n].kind = "dotted"
        PROVE  n = Len(u) /\ IsPrinted(u[n].fields)
    <3>1. n % 2 = 1
      BY <2>3, <2>4 DEF Colon
    <3>2. n = Len(u) /\ Pton4Reads(u[n].fields)
      BY <2>2, <2>4, <3>1 DEF GoodGroup
    <3>3. u[n].fields \in Seq(Fields)
      BY <2>4, TokenKinds
    <3>. QED BY <3>2, <3>3, DottedIsRead
  <2>5. \A n \in DOMAIN u : IF n % 2 = 1 THEN IsGroup(u[n]) ELSE u[n] = Colon
    BY <2>2, <2>3 DEF GoodGroup
  <2>6. DOMAIN u = 1 .. Len(u)
    OBVIOUS
  <2>. QED BY <2>1, <2>4, <2>5, <2>6, ListIs, Zenon
<1>. QED BY <1>1, <1>2

\* The same of a part of a text.
LEMMA PartIs ==
  ASSUME NEW s \in Seq(Tokens), NEW a \in Nat, NEW z \in Nat, 1 <= a, a <= z + 1, z <= Len(s)
  PROVE  /\ SubSeq(s, a, z) \in Seq(Tokens)
         /\ Len(SubSeq(s, a, z)) = z - a + 1
         /\ \A i \in 1 .. z - a + 1 : SubSeq(s, a, z)[i] = s[a + i - 1]
OBVIOUS

LEMMA SpanOfPart ==
  ASSUME NEW s \in Seq(Tokens), NEW a \in Nat, NEW z \in Nat, 1 <= a, a <= z + 1, z <= Len(s),
         NEW m
  PROVE  Span(SubSeq(s, a, z), 1, z - a + 1, m) <=> Span(s, a, z, m)
<1>. DEFINE u == SubSeq(s, a, z)
<1>1. \A i \in 1 .. z - a + 1 : u[i] = s[a + i - 1]
  BY PartIs
<1>. HIDE DEF u
<1>a. m \in Nat =>
        (z - a + 1 = (IF m = 0 THEN 1 - 1 ELSE 1 + 2 * m - 2)
           <=> z = IF m = 0 THEN a - 1 ELSE a + 2 * m - 2)
  OBVIOUS
<1>. SUFFICES ASSUME m \in Nat, z = IF m = 0 THEN a - 1 ELSE a + 2 * m - 2
              PROVE  Span(u, 1, z - a + 1, m) <=> Span(s, a, z, m)
  BY <1>a, Zenon DEF Span, u
<1>2. \A j \in 1 .. m : 1 + 2 * j - 2 \in 1 .. z - a + 1 /\ a + (1 + 2 * j - 2) - 1 = a + 2 * j - 2
  OBVIOUS
<1>3. \A j \in 1 .. m : u[1 + 2 * j - 2] = s[a + 2 * j - 2]
  BY <1>1, <1>2
<1>4. \A j \in 1 .. m - 1 : 1 + 2 * j - 1 \in 1 .. z - a + 1 /\ a + (1 + 2 * j - 1) - 1 = a + 2 * j - 1
  OBVIOUS
<1>5. \A j \in 1 .. m - 1 : u[1 + 2 * j - 1] = s[a + 2 * j - 1]
  BY <1>1, <1>4
<1>6. z - a + 1 = IF m = 0 THEN 1 - 1 ELSE 1 + 2 * m - 2
  OBVIOUS
<1>. QED BY <1>3, <1>5, <1>6 DEF Span

LEMMA ListOfPart ==
  ASSUME NEW s \in Seq(Tokens), NEW a \in Nat, NEW z \in Nat, 1 <= a, a <= z + 1, z <= Len(s)
  PROVE  IsList(SubSeq(s, a, z)) <=> \E m \in Nat : Span(s, a, z, m)
<1>1. SubSeq(s, a, z) \in Seq(Tokens) /\ Len(SubSeq(s, a, z)) = z - a + 1
  BY PartIs
<1>2. ASSUME IsList(SubSeq(s, a, z)) PROVE \E m \in Nat : Span(s, a, z, m)
  <2>1. PICK m \in Nat : Span(SubSeq(s, a, z), 1, z - a + 1, m)
    BY <1>1, <1>2, ListIsSpan
  <2>. QED BY <2>1, SpanOfPart
<1>3. ASSUME NEW m \in Nat, Span(s, a, z, m) PROVE IsList(SubSeq(s, a, z))
  <2>1. Span(SubSeq(s, a, z), 1, z - a + 1, m)
    BY <1>3, SpanOfPart
  <2>. QED BY <1>1, <2>1, SpanIsList
<1>. QED BY <1>2, <1>3

\* A list begins and ends with a group, its groups and colons alternate, and a
\* dotted part is its last group.
LEMMA SpanTokens ==
  ASSUME NEW s, NEW a \in Nat, 1 <= a, NEW z, NEW m, Span(s, a, z, m)
  PROVE  /\ z \in Nat /\ a <= z + 1 /\ (a <= z <=> m # 0)
         /\ a <= z => GoodGroup(s[a]) /\ GoodGroup(s[z])
         /\ \A i \in a .. z : s[i] = Colon \/ GoodGroup(s[i])
         /\ \A i \in a .. z - 1 : \/ s[i] = Colon /\ GoodGroup(s[i + 1])
                                  \/ GoodGroup(s[i]) /\ s[i + 1] = Colon
         /\ \A i \in a .. z : s[i].kind = "dotted" => i = z
<1>1. m \in Nat /\ z = IF m = 0 THEN a - 1 ELSE a + 2 * m - 2
  BY DEF Span
<1>2. z \in Nat /\ a <= z + 1 /\ (a <= z <=> m # 0)
  BY <1>1
<1>3. CASE m = 0
  <2>1. a .. z = {} /\ a .. z - 1 = {}
    BY <1>1, <1>3
  <2>. QED BY <1>2, <1>3, <2>1
<1>4. CASE m # 0
  <2>1. z = a + 2 * m - 2
    BY <1>1, <1>4
  <2>2. ASSUME NEW i \in a .. z
        PROVE  \/ \E j \in 1 .. m : i = a + 2 * j - 2
               \/ \E j \in 1 .. m - 1 : i = a + 2 * j - 1
    <3>1. CASE (i - a) % 2 = 0
      <4>1. (i - a) \div 2 + 1 \in 1 .. m /\ i = a + 2 * ((i - a) \div 2 + 1) - 2
        BY <1>1, <2>1, <3>1
      <4>. QED BY <4>1
    <3>2. CASE (i - a) % 2 = 1
      <4>1. (i - a) \div 2 + 1 \in 1 .. m - 1 /\ i = a + 2 * ((i - a) \div 2 + 1) - 1
        BY <1>1, <2>1, <3>2
      <4>. QED BY <4>1
    <3>. QED BY <3>1, <3>2
  <2>3. \A j \in 1 .. m : GoodGroup(s[a + 2 * j - 2]) /\ (s[a + 2 * j - 2].kind = "dotted" => j = m)
    BY DEF Span
  <2>4. \A j \in 1 .. m - 1 : s[a + 2 * j - 1] = Colon
    BY DEF Span
  <2>5. ASSUME NEW i \in a .. z PROVE s[i] = Colon \/ GoodGroup(s[i])
    BY <2>2, <2>3, <2>4
  <2>6. GoodGroup(s[a]) /\ GoodGroup(s[z])
    <3>1. 1 \in 1 .. m /\ m \in 1 .. m /\ a + 2 * 1 - 2 = a
      BY <1>1, <1>4
    <3>. QED BY <2>1, <2>3, <3>1
  <2>7. ASSUME NEW i \in a .. z - 1
        PROVE  \/ s[i] = Colon /\ GoodGroup(s[i + 1])
               \/ GoodGroup(s[i]) /\ s[i + 1] = Colon
    <3>1. CASE \E j \in 1 .. m : i = a + 2 * j - 2
      <4>1. PICK j \in 1 .. m : i = a + 2 * j - 2
        BY <3>1
      <4>2. j \in 1 .. m - 1 /\ i + 1 = a + 2 * j - 1
        BY <1>1, <2>1, <4>1
      <4>. QED BY <2>3, <2>4, <4>1, <4>2
    <3>2. CASE \E j \in 1 .. m - 1 : i = a + 2 * j - 1
      <4>1. PICK j \in 1 .. m - 1 : i = a + 2 * j - 1
        BY <3>2
      <4>2. j + 1 \in 1 .. m /\ i + 1 = a + 2 * (j + 1) - 2
        BY <1>1, <2>1, <4>1
      <4>. QED BY <2>3, <2>4, <4>1, <4>2
    <3>3. i \in a .. z
      BY <2>1, <1>1
    <3>. QED BY <2>2, <3>1, <3>2, <3>3
  <2>8. ASSUME NEW i \in a .. z, s[i].kind = "dotted" PROVE i = z
    <3>1. s[i] # Colon
      BY <2>8 DEF Colon
    <3>2. PICK j \in 1 .. m : i = a + 2 * j - 2
      BY <2>2, <2>4, <3>1
    <3>3. j = m
      BY <2>3, <2>8, <3>2
    <3>. QED BY <2>1, <3>2, <3>3
  <2>. QED BY <1>2, <1>4, <2>5, <2>6, <2>7, <2>8
<1>. QED BY <1>3, <1>4

\* w are the words of tokens a .. z of s.
HasWords(w, s, a, z, m) ==
  /\ Span(s, a, z, m)
  /\ w \in Seq(Words)
  /\ Len(w) = IF m # 0 /\ s[z].kind = "dotted" THEN m + 1 ELSE m
  /\ \A j \in 1 .. m : s[a + 2 * j - 2].kind = "hex" => w[j] = s[a + 2 * j - 2].val
  /\ m # 0 /\ s[z].kind = "dotted" => /\ w[m] = WordsOf4(s[z].fields)[1]
                                      /\ w[m + 1] = WordsOf4(s[z].fields)[2]

IsConcat(r, p, q) ==
  /\ Len(p) \in Nat /\ Len(q) \in Nat /\ Len(r) = Len(p) + Len(q)
  /\ \A j \in 1 .. Len(p) : r[j] = p[j]
  /\ \A j \in 1 .. Len(q) : r[Len(p) + j] = q[j]

LEMMA Concat ==
  ASSUME NEW S, NEW p, NEW q, p \in Seq(S), q \in Seq(S)
  PROVE  p \o q \in Seq(S) /\ IsConcat(p \o q, p, q)
BY DEF IsConcat

LEMMA GroupKinds ==
  ASSUME NEW t \in Tokens, GoodGroup(t)
  PROVE  \/ t.kind = "hex" /\ t.val \in Words
         \/ /\ t.kind = "dotted" /\ t.kind # "hex" /\ t.fields \in Seq(Fields)
            /\ Pton4Reads(t.fields)
<1>1. CASE t.kind = "hex"
  BY <1>1 DEF GoodGroup, IsGroup
<1>2. CASE t.kind = "dotted"
  BY <1>2, TokenKinds DEF GoodGroup
<1>. QED BY <1>1, <1>2 DEF GoodGroup, IsGroup

LEMMA ListWordsOfPart ==
  ASSUME NEW s \in Seq(Tokens), NEW a \in Nat, NEW z \in Nat, 1 <= a, a <= z + 1, z <= Len(s),
         NEW m, Span(s, a, z, m)
  PROVE  HasWords(ListWords(SubSeq(s, a, z)), s, a, z, m)
<1>. DEFINE u == SubSeq(s, a, z)
            w == ListWords(u)
<1>1. /\ u \in Seq(Tokens) /\ Len(u) = z - a + 1
      /\ \A i \in 1 .. z - a + 1 : u[i] = s[a + i - 1]
  BY PartIs
<1>. HIDE DEF u
<1>2. m \in Nat /\ z = IF m = 0 THEN a - 1 ELSE a + 2 * m - 2
  BY DEF Span
<1>3. CASE m = 0
  <2>1. u = <<>>
    BY <1>1, <1>2, <1>3
  <2>2. w = <<>>
    BY <2>1 DEF ListWords
  <2>3. w \in Seq(Words) /\ Len(w) = 0 /\ 1 .. m = {}
    BY <1>3, <2>2
  <2>. HIDE DEF w
  <2>4. HasWords(w, s, a, z, m)
    BY <1>3, <2>3 DEF HasWords
  <2>. QED BY <2>4 DEF w, u
<1>4. CASE m # 0
  <2>1. Len(u) = 2 * m - 1 /\ (Len(u) + 1) \div 2 = m /\ u # <<>> /\ z \in a .. z
        /\ 1 <= z - a + 1
    BY <1>1, <1>2, <1>4
  <2>2. u[Len(u)] = s[z]
    BY <1>1, <2>1
  <2>3. ASSUME NEW j \in 1 .. m
        PROVE  u[2 * j - 1] = s[a + 2 * j - 2] /\ s[a + 2 * j - 2] \in Tokens
    <3>1. 2 * j - 1 \in 1 .. z - a + 1 /\ a + (2 * j - 1) - 1 = a + 2 * j - 2
          /\ a + 2 * j - 2 \in 1 .. Len(s)
      BY <1>1, <2>1
    <3>2. u[2 * j - 1] = s[a + (2 * j - 1) - 1]
      BY <1>1, <3>1
    <3>. QED BY <3>1, <3>2
  <2>4. GoodGroup(s[z]) /\ s[z] \in Tokens
    <3>1. m \in 1 .. m /\ z = a + 2 * m - 2
      BY <1>2, <1>4
    <3>. QED BY <2>3, <3>1 DEF Span
  <2>5. ASSUME NEW j \in 1 .. m, s[a + 2 * j - 2].kind = "hex"
        PROVE  s[a + 2 * j - 2].val \in Words
    <3>1. GoodGroup(s[a + 2 * j - 2])
      BY DEF Span
    <3>. QED BY <2>3, <2>5, <3>1, GroupKinds
  <2>6. ASSUME NEW j \in 1 .. m, j # m PROVE s[a + 2 * j - 2].kind = "hex"
    <3>1. GoodGroup(s[a + 2 * j - 2]) /\ ~(s[a + 2 * j - 2].kind = "dotted")
      BY <2>6 DEF Span
    <3>. QED BY <3>1 DEF GoodGroup, IsGroup
  <2>7. CASE s[z].kind = "hex"
    <3>1. w = [n \in 1 .. m |-> u[2 * n - 1].val]
      BY <2>1, <2>2, <2>7 DEF ListWords
    <3>2. \A j \in 1 .. m : w[j] = s[a + 2 * j - 2].val
      BY <2>3, <3>1
    <3>3. \A j \in 1 .. m : w[j] \in Words
      <4>1. \A j \in 1 .. m : s[a + 2 * j - 2].kind = "hex"
        BY <2>6, <2>7, <1>2, <1>4
      <4>. QED BY <2>5, <3>2, <4>1
    <3>4. w = [n \in 1 .. m |-> w[n]]
      BY <3>1
    <3>. HIDE DEF w
    <3>. w \in [1 .. m -> Words]
      BY <3>3, <3>4, Zenon
    <3>5. w \in Seq(Words) /\ Len(w) = m
      BY <1>2, FunctionIsSeq
    <3>6. HasWords(w, s, a, z, m)
      BY <2>7, <3>2, <3>5 DEF HasWords
    <3>. QED BY <3>6 DEF w, u
  <2>8. CASE s[z].kind # "hex"
    <3>1. s[z].kind = "dotted" /\ s[z].fields \in Seq(Fields) /\ Pton4Reads(s[z].fields)
      BY <2>4, <2>8, GroupKinds
    <3>. DEFINE h == [n \in 1 .. m - 1 |-> u[2 * n - 1].val]
                d == WordsOf4(s[z].fields)
    <3>2. w = h \o d
      BY <2>1, <2>2, <2>8 DEF ListWords
    <3>3. d \in Seq(Words) /\ Len(d) = 2
      BY <3>1, DottedWords
    <3>4. \A j \in 1 .. m - 1 : h[j] = s[a + 2 * j - 2].val
      BY <1>2, <2>3
    <3>5. \A j \in 1 .. m - 1 : h[j] \in Words
      BY <1>2, <2>5, <2>6, <3>4
    <3>6. h = [n \in 1 .. m - 1 |-> h[n]]
      OBVIOUS
    <3>. HIDE DEF h, d, w
    <3>. h \in [1 .. m - 1 -> Words] /\ m - 1 \in Nat
      BY <1>2, <1>4, <3>5, <3>6
    <3>7. h \in Seq(Words) /\ Len(h) = m - 1
      BY FunctionIsSeq, Zenon
    <3>8. /\ w \in Seq(Words) /\ Len(w) = m + 1
          /\ \A j \in 1 .. m - 1 : w[j] = h[j]
          /\ w[m] = d[1] /\ w[m + 1] = d[2]
      <4>0. h \o d \in Seq(Words) /\ IsConcat(h \o d, h, d)
        BY <3>3, <3>7, Concat
      <4>1. w \in Seq(Words) /\ IsConcat(w, h, d)
        BY <3>2, <4>0, Zenon
      <4>2. 1 \in 1 .. Len(d) /\ 2 \in 1 .. Len(d) /\ Len(h) + 1 = m /\ Len(h) + 2 = m + 1
        BY <1>2, <3>3, <3>7
      <4>3. w[m] = d[1] /\ w[m + 1] = d[2]
        BY <4>1, <4>2 DEF IsConcat
      <4>. QED BY <1>2, <3>3, <3>7, <4>1, <4>3 DEF IsConcat
    <3>9. ASSUME NEW j \in 1 .. m, s[a + 2 * j - 2].kind = "hex"
          PROVE  w[j] = s[a + 2 * j - 2].val
      <4>1. j # m
        BY <1>2, <1>4, <2>8, <3>9
      <4>2. j \in 1 .. m - 1
        BY <1>2, <4>1
      <4>. QED BY <3>4, <3>8, <4>2
    <3>10. HasWords(w, s, a, z, m)
      BY <1>4, <3>1, <3>8, <3>9 DEF HasWords, d
    <3>. QED BY <3>10 DEF w, u
  <2>. QED BY <2>7, <2>8
<1>. QED BY <1>3, <1>4

\* A whole text is a part of itself.
LEMMA WholeIsPart ==
  ASSUME NEW s \in Seq(Tokens)
  PROVE  SubSeq(s, 1, Len(s)) = s
OBVIOUS

-----------------------------------------------------------------------------
(* The text ts_inet_ntop6 prints.                                          *)

\* The last word that is written as a group of its own, or begins the dotted
\* end.
LastOf(w, b, l) == IF Encapsulates4(w, b, l) THEN 7 ELSE 8

\* q is the text of w.
Written(q, w, b, l) ==
  /\ IsText(q)
  /\ Len(q) = IF b = 9 THEN 15
              ELSE IF b + l = 9 THEN Mark(b) + 1
              ELSE Mark(b) + 2 * (LastOf(w, b, l) - (b + l) + 1)
  /\ \A k \in 1 .. 8 : k < b => q[2 * k - 1] = TokenOf(w, b, l, k)
  /\ \A k \in 2 .. 8 : k < b => q[2 * k - 2] = Colon
  /\ b < 9 => q[Mark(b)] = Colon /\ q[Mark(b) + 1] = Colon
  /\ \A k \in b + l .. LastOf(w, b, l) :
       /\ q[Mark(b) + 2 * (k - (b + l)) + 1] = Colon
       /\ q[Mark(b) + 2 * (k - (b + l)) + 2] = TokenOf(w, b, l, k)

LEMMA PrintsNext ==
  ASSUME NEW w \in [1 .. 8 -> Words], NEW b, NEW l, IsRun(w, b, l), NEW i \in 0 .. 7,
         NEW q, PrintedTo(q, w, b, l, i), ~(Encapsulates4(w, b, l) /\ i + 1 = 8)
  PROVE  PrintedTo(q \o Printed(w, b, l, i + 1), w, b, l, i + 1)
<1>1. b \in 1 .. 9 /\ l \in 0 .. 8
  BY DEF IsRun
<1>2. i + 1 < b \/ i + 1 = b \/ (i + 1 > b /\ i + 1 < b + l) \/ i + 1 >= b + l
  BY <1>1
<1>. QED BY <1>2, PrintsBefore, PrintsRun, PrintsNoMore, PrintsAfter

\* The turns of the loop, one after the other.
LEMMA PrintsAll ==
  ASSUME NEW w \in [1 .. 8 -> Words], NEW b, NEW l, IsRun(w, b, l)
  PROVE  LET p(i) == Printed(w, b, l, i)
             q == p(1) \o p(2) \o p(3) \o p(4) \o p(5) \o p(6) \o p(7) \o p(8)
         IN  PrintedTo(q, w, b, l, LastOf(w, b, l))
<1>. DEFINE p(i) == Printed(w, b, l, i)
            q1 == p(1)
            q2 == q1 \o p(2)
            q3 == q2 \o p(3)
            q4 == q3 \o p(4)
            q5 == q4 \o p(5)
            q6 == q5 \o p(6)
            q7 == q6 \o p(7)
            q8 == q7 \o p(8)
<1>0. PrintedTo(<<>>, w, b, l, 0)
  BY PrintedNothing
<1>1. PrintedTo(q1, w, b, l, 1)
  <2>0. PICK q0 : q0 = <<>>
    OBVIOUS
  <2>a. PrintedTo(q0, w, b, l, 0) /\ ~(Encapsulates4(w, b, l) /\ 0 + 1 = 8) /\ 0 \in 0 .. 7
    BY <1>0, <2>0
  <2>b. PrintedTo(q0 \o Printed(w, b, l, 0 + 1), w, b, l, 0 + 1)
    BY <2>a, PrintsNext
  <2>1. PrintedTo(<<>> \o Printed(w, b, l, 0 + 1), w, b, l, 0 + 1)
    BY <2>0, <2>b
  <2>2. PrintedTo(<<>> \o p(1), w, b, l, 1) /\ p(1) = Printed(w, b, l, 1)
    BY <2>1
  <2>. HIDE DEF p
  <2>3. p(1) \in Seq(Tokens)
    <3>1. Colon \in Tokens /\ TokenOf(w, b, l, 1) \in Tokens
      BY TokensTyped, TokenOfTyped
    <3>2. Printed(w, b, l, 1) = <<Colon>> \/ Printed(w, b, l, 1) = <<>>
          \/ Printed(w, b, l, 1) = <<TokenOf(w, b, l, 1)>>
      <4>1. ~(Encapsulates4(w, b, l) /\ 1 = 8)
        OBVIOUS
      <4>. QED BY <4>1, PrintedIs
    <3>3. /\ <<Colon>> \in Seq(Tokens) /\ <<>> \in Seq(Tokens)
          /\ <<TokenOf(w, b, l, 1)>> \in Seq(Tokens)
      BY <3>1
    <3>. QED BY <2>2, <3>2, <3>3, Zenon
  <2>4. <<>> \o p(1) = p(1)
    BY <2>3
  <2>. QED BY <2>2, <2>4
<1>. HIDE DEF q1
<1>2. PrintedTo(q2, w, b, l, 2)
  <2>1. PrintedTo(q1 \o Printed(w, b, l, 1 + 1), w, b, l, 1 + 1)
    BY <1>1, PrintsNext
  <2>. QED BY <2>1
<1>. HIDE DEF q2
<1>3. PrintedTo(q3, w, b, l, 3)
  <2>1. PrintedTo(q2 \o Printed(w, b, l, 2 + 1), w, b, l, 2 + 1)
    BY <1>2, PrintsNext
  <2>. QED BY <2>1
<1>. HIDE DEF q3
<1>4. PrintedTo(q4, w, b, l, 4)
  <2>1. PrintedTo(q3 \o Printed(w, b, l, 3 + 1), w, b, l, 3 + 1)
    BY <1>3, PrintsNext
  <2>. QED BY <2>1
<1>. HIDE DEF q4
<1>5. PrintedTo(q5, w, b, l, 5)
  <2>1. PrintedTo(q4 \o Printed(w, b, l, 4 + 1), w, b, l, 4 + 1)
    BY <1>4, PrintsNext
  <2>. QED BY <2>1
<1>. HIDE DEF q5
<1>6. PrintedTo(q6, w, b, l, 6)
  <2>1. PrintedTo(q5 \o Printed(w, b, l, 5 + 1), w, b, l, 5 + 1)
    BY <1>5, PrintsNext
  <2>. QED BY <2>1
<1>. HIDE DEF q6
<1>7. PrintedTo(q7, w, b, l, 7)
  <2>1. PrintedTo(q6 \o Printed(w, b, l, 6 + 1), w, b, l, 6 + 1)
    BY <1>6, PrintsNext
  <2>. QED BY <2>1
<1>. HIDE DEF q7
<1>8. PrintedTo(q8, w, b, l, LastOf(w, b, l))
  <2>1. CASE ~Encapsulates4(w, b, l)
    <3>1. PrintedTo(q7 \o Printed(w, b, l, 7 + 1), w, b, l, 7 + 1)
      BY <1>7, <2>1, PrintsNext
    <3>. QED BY <2>1, <3>1 DEF LastOf
  <2>2. CASE Encapsulates4(w, b, l)
    <3>1. 8 \notin b .. b + l - 1
      BY <2>2 DEF Encapsulates4
    <3>2. p(8) = <<>>
      BY <2>2, <3>1 DEF Printed
    <3>. HIDE DEF p
    <3>3. q7 \o p(8) = q7
      BY <1>7, <3>2, NoMore DEF PrintedTo
    <3>. QED BY <1>7, <2>2, <3>3 DEF LastOf
  <2>. QED BY <2>1, <2>2
<1>. QED BY <1>8 DEF q7, q6, q5, q4, q3, q2, q1

LEMMA Ntop6Written ==
  ASSUME NEW w \in [1 .. 8 -> Words]
  PROVE  LET b == BestRun(w)[1]
             l == BestRun(w)[2]
         IN  IsRun(w, b, l) /\ Written(Ntop6(w), w, b, l)
<1>. DEFINE b == BestRun(w)[1]
            l == BestRun(w)[2]
            p(i) == Printed(w, b, l, i)
            q == p(1) \o p(2) \o p(3) \o p(4) \o p(5) \o p(6) \o p(7) \o p(8)
            t == IF b = 9 THEN <<>> ELSE Trailer(b, l)
            e == LastOf(w, b, l)
<1>1. IsRun(w, b, l)
  BY BestIsRun
<1>2. PrintedTo(q, w, b, l, e)
  BY <1>1, PrintsAll
<1>3. Ntop6(w) = q \o t
  BY DEF Ntop6
<1>4. e \in 7 .. 8 /\ (e = 8 \/ (b = 1 /\ l \in 5 .. 6))
  BY DEF LastOf, Encapsulates4
<1>. HIDE DEF q, b, l, e
<1>5. b \in 1 .. 9 /\ l \in 0 .. 8 /\ b + l <= 9 /\ (b = 9 <=> l = 0)
  BY <1>1 DEF IsRun
<1>6. Mark(b) \in Nat /\ Mark(b) >= 1 /\ (b > 1 => Mark(b) = 2 * b - 2)
  BY <1>5 DEF Mark
<1>7. IsText(q) /\ Len(q) = LengthTo(b, l, e)
  BY <1>2 DEF PrintedTo
<1>8. CASE b = 9 \/ b + l # 9
  <2>1. t = <<>>
    BY <1>8 DEF Trailer
  <2>2. Ntop6(w) = q
    BY <1>3, <1>7, <2>1, NoMore
  <2>3. LengthTo(b, l, e) = IF b = 9 THEN 15 ELSE Mark(b) + 2 * (e - (b + l) + 1)
    <3>1. CASE b = 9
      BY <1>4, <3>1 DEF LengthTo
    <3>2. CASE b # 9
      <4>1. ~(e = 0) /\ ~(e < b) /\ ~(e < b + l)
        BY <1>4, <1>5, <1>8, <3>2
      <4>. QED BY <3>2, <4>1 DEF LengthTo
    <3>. QED BY <3>1, <3>2
  <2>4. ASSUME b < 9 PROVE q[Mark(b)] = Colon /\ q[Mark(b) + 1] = Colon
    <3>1. e >= b /\ b + l \in b + l .. e
      BY <1>4, <1>5, <1>8, <2>4
    <3>2. PICK k \in b + l .. e : k = b + l
      BY <1>4, <1>5, <3>1
    <3>3. q[Mark(b)] = Colon /\ q[Mark(b) + 2 * (k - (b + l)) + 1] = Colon
      BY <1>2, <3>1, <3>2, Zenon DEF PrintedTo
    <3>4. Mark(b) + 2 * (k - (b + l)) + 1 = Mark(b) + 1
      BY <1>5, <1>6, <3>2
    <3>. QED BY <3>3, <3>4
  <2>5. ASSUME NEW k \in 1 .. 8, k < b PROVE k \in 1 .. e
    BY <1>4, <2>5
  <2>6. ASSUME NEW k \in 2 .. 8, k < b PROVE k \in 2 .. e
    BY <1>4, <2>6
  <2>7. Len(q) = IF b = 9 THEN 15
                 ELSE IF b + l = 9 THEN Mark(b) + 1
                 ELSE Mark(b) + 2 * (LastOf(w, b, l) - (b + l) + 1)
    BY <1>7, <1>8, <2>3 DEF e
  <2>8. Written(q, w, b, l)
    <3>1. /\ \A k \in 1 .. 8 : k < b => q[2 * k - 1] = TokenOf(w, b, l, k)
          /\ \A k \in 2 .. 8 : k < b => q[2 * k - 2] = Colon
      BY <1>2, <2>5, <2>6 DEF PrintedTo
    <3>. QED BY <1>2, <1>7, <2>4, <2>7, <3>1 DEF PrintedTo, Written, e
  <2>. QED BY <1>1, <2>2, <2>8 DEF b, l
<1>9. CASE b # 9 /\ b + l = 9
  <2>. DEFINE r == q \o <<Colon>>
  <2>1. t = <<Colon>>
    BY <1>9 DEF Trailer
  <2>2. Ntop6(w) = r
    BY <1>3, <2>1
  <2>3. e = 8
    BY <1>4, <1>9
  <2>4. LengthTo(b, l, e) = Mark(b)
    BY <1>5, <1>9, <2>3 DEF LengthTo
  <2>5. HasLength(q, Mark(b)) /\ Colon \in Tokens
    BY <1>6, <1>7, <2>4, TokensTyped DEF HasLength, IsText
  <2>6. OneAfter(r, q, Mark(b), Colon)
    BY <2>5, OneMore, Zenon
  <2>. HIDE DEF r
  <2>7. /\ r \in Seq(Tokens) /\ Len(r) = Mark(b) + 1 /\ r[Mark(b) + 1] = Colon
        /\ \A k \in 1 .. Mark(b) : r[k] = q[k]
    BY <2>6 DEF OneAfter
  <2>8. ASSUME NEW k \in 1 .. 8, k < b PROVE r[2 * k - 1] = TokenOf(w, b, l, k)
    <3>1. k \in 1 .. e /\ 2 * k - 1 \in 1 .. Mark(b)
      BY <1>5, <1>6, <2>3, <2>8
    <3>2. q[2 * k - 1] = TokenOf(w, b, l, k)
      BY <1>2, <2>8, <3>1 DEF PrintedTo
    <3>. QED BY <2>7, <3>1, <3>2
  <2>9. ASSUME NEW k \in 2 .. 8, k < b PROVE r[2 * k - 2] = Colon
    <3>1. k \in 2 .. e /\ 2 * k - 2 \in 1 .. Mark(b)
      BY <1>5, <1>6, <2>3, <2>9
    <3>2. q[2 * k - 2] = Colon
      BY <1>2, <2>9, <3>1 DEF PrintedTo
    <3>. QED BY <2>7, <3>1, <3>2
  <2>10. r[Mark(b)] = Colon
    <3>1. e >= b /\ Mark(b) \in 1 .. Mark(b)
      BY <1>5, <1>6, <1>9, <2>3
    <3>2. q[Mark(b)] = Colon
      BY <1>2, <3>1 DEF PrintedTo
    <3>. QED BY <2>7, <3>1, <3>2
  <2>11. b + l .. LastOf(w, b, l) = {}
    BY <1>9, <2>3 DEF e
  <2>12. Written(r, w, b, l)
    BY <1>9, <2>7, <2>8, <2>9, <2>10, <2>11 DEF Written, IsText
  <2>. QED BY <1>1, <2>2, <2>12 DEF b, l
<1>. QED BY <1>8, <1>9

LEMMA HexIsGood ==
  ASSUME NEW v \in Words
  PROVE  GoodGroup(Hex(v)) /\ Hex(v).kind = "hex" /\ Hex(v).val = v
BY DEF GoodGroup, IsGroup, Hex

\* The groups before and after the double colon.
LEMMA WrittenLeft ==
  ASSUME NEW w \in [1 .. 8 -> Words], NEW b, NEW l, IsRun(w, b, l),
         NEW q, Written(q, w, b, l)
  PROVE  /\ Span(q, 1, Mark(b) - 1, b - 1)
         /\ \A j \in 1 .. b - 1 : q[2 * j - 1] = Hex(w[j])
<1>1. b \in 1 .. 9 /\ l \in 0 .. 8
  BY DEF IsRun
<1>2. Mark(b) \in Nat /\ Mark(b) >= 1 /\ Mark(b) = IF b = 1 THEN 1 ELSE 2 * b - 2
  BY <1>1 DEF Mark
<1>3. ASSUME NEW j \in 1 .. b - 1 PROVE q[2 * j - 1] = Hex(w[j]) /\ w[j] \in Words
  <2>1. j \in 1 .. 8 /\ j < b /\ b # 1
    BY <1>1
  <2>2. q[2 * j - 1] = TokenOf(w, b, l, j)
    BY <2>1 DEF Written
  <2>. QED BY <2>1, <2>2 DEF TokenOf, Encapsulates4
<1>4. ASSUME NEW j \in 1 .. b - 1
      PROVE  GoodGroup(q[1 + 2 * j - 2]) /\ (q[1 + 2 * j - 2].kind = "dotted" => j = b - 1)
  <2>1. 1 + 2 * j - 2 = 2 * j - 1
    OBVIOUS
  <2>2. q[1 + 2 * j - 2] = Hex(w[j]) /\ w[j] \in Words
    BY <1>3, <2>1
  <2>. QED BY <2>2, HexIsGood
<1>5. ASSUME NEW j \in 1 .. b - 1 - 1 PROVE q[1 + 2 * j - 1] = Colon
  <2>1. j + 1 \in 2 .. 8 /\ j + 1 < b /\ 2 * (j + 1) - 2 = 1 + 2 * j - 1
    BY <1>1
  <2>2. q[2 * (j + 1) - 2] = Colon
    BY <2>1 DEF Written
  <2>. QED BY <2>1, <2>2
<1>6. b - 1 \in Nat /\ Mark(b) - 1 = IF b - 1 = 0 THEN 1 - 1 ELSE 1 + 2 * (b - 1) - 2
  BY <1>1, <1>2
<1>. QED BY <1>3, <1>4, <1>5, <1>6 DEF Span

LEMMA WrittenRight ==
  ASSUME NEW w \in [1 .. 8 -> Words], NEW b, NEW l, IsRun(w, b, l), b # 9,
         NEW q, Written(q, w, b, l)
  PROVE  LET m == LastOf(w, b, l) - (b + l) + 1
         IN  /\ m \in Nat
             /\ Span(q, Mark(b) + 2, Len(q), m)
             /\ \A j \in 1 .. m : q[Mark(b) + 2 + 2 * j - 2] = TokenOf(w, b, l, b + l + j - 1)
<1>. DEFINE e == LastOf(w, b, l)
            m == e - (b + l) + 1
<1>1. b \in 1 .. 8 /\ l \in 2 .. 8 /\ b + l <= 9
  BY DEF IsRun
<1>2. e \in 7 .. 8 /\ (e = 8 \/ (b = 1 /\ l \in 5 .. 6 /\ Encapsulates4(w, b, l)))
  BY DEF LastOf, Encapsulates4
<1>3. Mark(b) \in Nat /\ Mark(b) >= 1
  BY <1>1 DEF Mark
<1>. HIDE DEF e
<1>4. m \in Nat
  BY <1>1, <1>2
<1>5. Len(q) = IF m = 0 THEN (Mark(b) + 2) - 1 ELSE Mark(b) + 2 + 2 * m - 2
  <2>1. CASE b + l = 9
    <3>1. Len(q) = Mark(b) + 1 /\ m = 0
      BY <1>1, <1>2, <2>1 DEF Written
    <3>2. (Mark(b) + 2) - 1 = Mark(b) + 1
      BY <1>3
    <3>. HIDE DEF m
    <3>. QED BY <3>1, <3>2
  <2>2. CASE b + l # 9
    <3>1. Len(q) = Mark(b) + 2 * m /\ m # 0
      BY <1>1, <1>2, <2>2 DEF Written, e
    <3>. QED BY <1>3, <1>4, <3>1
  <2>. QED BY <2>1, <2>2
<1>6. ASSUME NEW k \in b + l .. e
      PROVE  /\ q[Mark(b) + 2 * (k - (b + l)) + 1] = Colon
             /\ q[Mark(b) + 2 * (k - (b + l)) + 2] = TokenOf(w, b, l, k)
  BY DEF Written, e
<1>7. ASSUME NEW j \in 1 .. m
      PROVE  q[Mark(b) + 2 + 2 * j - 2] = TokenOf(w, b, l, b + l + j - 1)
  <2>1. PICK k \in b + l .. e : k = b + l + j - 1
    BY <1>1, <1>2, <1>4
  <2>2. q[Mark(b) + 2 * (k - (b + l)) + 2] = TokenOf(w, b, l, k)
    BY <1>6
  <2>3. Mark(b) + 2 * (k - (b + l)) + 2 = Mark(b) + 2 + 2 * j - 2
    BY <1>1, <1>3, <1>4, <2>1
  <2>. QED BY <2>1, <2>2, <2>3
<1>8. ASSUME NEW j \in 1 .. m - 1 PROVE q[Mark(b) + 2 + 2 * j - 1] = Colon
  <2>1. PICK k \in b + l .. e : k = b + l + j
    BY <1>1, <1>2, <1>4
  <2>2. q[Mark(b) + 2 * (k - (b + l)) + 1] = Colon
    BY <1>6
  <2>3. Mark(b) + 2 * (k - (b + l)) + 1 = Mark(b) + 2 + 2 * j - 1
    BY <1>1, <1>3, <1>4, <2>1
  <2>. QED BY <2>2, <2>3
<1>9. ASSUME NEW j \in 1 .. m
      PROVE  LET t == TokenOf(w, b, l, b + l + j - 1)
             IN  GoodGroup(t) /\ (t.kind = "dotted" => j = m)
  <2>. DEFINE i == b + l + j - 1
  <2>1. i \in 1 .. 8 /\ (i = e => j = m)
    BY <1>1, <1>2, <1>4
  <2>. HIDE DEF i
  <2>2. CASE Encapsulates4(w, b, l) /\ i = 7
    <3>1. TokenOf(w, b, l, i) = Dotted(Ntop4(Octets4(w)))
      BY <2>2 DEF TokenOf
    <3>2. Pton4Reads(Ntop4(Octets4(w)))
      BY DottedEnd, Prints4Reads
    <3>3. i = e
      BY <2>2 DEF e, LastOf
    <3>4. GoodGroup(TokenOf(w, b, l, i))
      BY <3>1, <3>2 DEF GoodGroup, IsGroup, Dotted
    <3>. QED BY <2>1, <3>3, <3>4 DEF i
  <2>3. CASE ~(Encapsulates4(w, b, l) /\ i = 7)
    <3>1. TokenOf(w, b, l, i) = Hex(w[i]) /\ w[i] \in Words
      BY <2>1, <2>3 DEF TokenOf
    <3>2. GoodGroup(TokenOf(w, b, l, i)) /\ TokenOf(w, b, l, i).kind = "hex"
      BY <3>1, HexIsGood
    <3>. QED BY <3>2 DEF i
  <2>. QED BY <2>2, <2>3
<1>10. Span(q, Mark(b) + 2, Len(q), m)
  <2>. HIDE DEF m
  <2>1. \A j \in 1 .. m : /\ GoodGroup(q[Mark(b) + 2 + 2 * j - 2])
                          /\ q[Mark(b) + 2 + 2 * j - 2].kind = "dotted" => j = m
    BY <1>7, <1>9
  <2>2. \A j \in 1 .. m - 1 : q[Mark(b) + 2 + 2 * j - 1] = Colon
    BY <1>8
  <2>. QED BY <1>4, <1>5, <2>1, <2>2, Zenon DEF Span
<1>. QED BY <1>4, <1>7, <1>10 DEF e

\* What is printed is a text: a group of hexadecimal digits stands before a
\* colon or at the end.
LEMMA GoodGroupIsNoColon ==
  /\ ~GoodGroup(Colon)
  /\ Colon.kind = "colon"
BY DEF GoodGroup, IsGroup, Colon

LEMMA Ntop6IsText ==
  ASSUME NEW w \in [1 .. 8 -> Words]
  PROVE  Ntop6(w) \in Seq(Tokens) /\ Lexed(Ntop6(w))
<1>1. PICK b, l, q : q = Ntop6(w) /\ IsRun(w, b, l) /\ Written(q, w, b, l)
  BY Ntop6Written
<1>2. q \in Seq(Tokens) /\ Len(q) \in Nat
  BY <1>1 DEF Written, IsText
<1>3. b \in 1 .. 9
  BY <1>1 DEF IsRun
<1>4. Mark(b) \in Nat /\ Mark(b) >= 1
  BY <1>3 DEF Mark
<1>5. ASSUME NEW n \in 1 .. Len(q) - 1, q[n].kind = "hex"
      PROVE  q[n + 1].kind \in {"colon", "other"}
  <2>0. q[n] # Colon
    BY <1>5, GoodGroupIsNoColon
  <2>1. CASE n < Mark(b) - 1
    <3>. DEFINE z == Mark(b) - 1
    <3>a. Span(q, 1, z, b - 1)
      BY <1>1, WrittenLeft
    <3>b. n \in 1 .. z - 1
      BY <1>4, <2>1
    <3>. HIDE DEF z
    <3>2. q[n + 1] = Colon
      BY <2>0, <3>a, <3>b, SpanTokens
    <3>. QED BY <3>2, GoodGroupIsNoColon
  <2>2. CASE ~(n < Mark(b) - 1)
    <3>1. b # 9
      <4>1. ASSUME b = 9 PROVE FALSE
        <5>1. Len(q) = 15 /\ Mark(b) = 16
          BY <1>1, <4>1 DEF Written, Mark
        <5>. QED BY <2>2, <5>1
      <4>. QED BY <4>1
    <3>2. q[Mark(b)] = Colon /\ q[Mark(b) + 1] = Colon
      BY <1>1, <1>3, <3>1 DEF Written
    <3>3. CASE n = Mark(b) - 1
      BY <1>4, <3>2, <3>3, GoodGroupIsNoColon
    <3>4. CASE n # Mark(b) - 1
      <4>0. n # Mark(b) /\ n # Mark(b) + 1
        BY <2>0, <3>2, Zenon
      <4>1. n \in Mark(b) + 2 .. Len(q) - 1
        <5>1. PICK d \in Nat : d = Mark(b)
          BY <1>4
        <5>2. PICK z \in Nat : z = Len(q)
          BY <1>2
        <5>3. n \in 1 .. z - 1 /\ n # d /\ n # d + 1 /\ n # d - 1 /\ ~(n < d - 1)
          BY <2>2, <3>4, <4>0, <5>1, <5>2, Zenon
        <5>4. n \in d + 2 .. z - 1
          BY <5>3
        <5>. QED BY <5>1, <5>2, <5>4, Zenon
      <4>. DEFINE a == Mark(b) + 2
      <4>2. PICK m : Span(q, a, Len(q), m)
        BY <1>1, <3>1, WrittenRight
      <4>3. a \in Nat /\ 1 <= a /\ n \in a .. Len(q) - 1
        BY <1>4, <4>1
      <4>. HIDE DEF a
      <4>4. q[n + 1] = Colon
        BY <2>0, <4>2, <4>3, SpanTokens
      <4>. QED BY <4>4, GoodGroupIsNoColon
    <3>. QED BY <3>3, <3>4
  <2>. QED BY <2>1, <2>2
<1>. QED BY <1>1, <1>2, <1>5 DEF Lexed

-----------------------------------------------------------------------------
(* What a text means.                                                      *)

LeftOf(s, d) == ListWords(SubSeq(s, 1, d - 1))
RightOf(s, d) == ListWords(SubSeq(s, d + 2, Len(s)))

\* Lists of groups around a double colon at d.
GapAt(s, d) ==
  /\ d \in 1 .. Len(s) - 1
  /\ s[d] = Colon /\ s[d + 1] = Colon
  /\ IsList(SubSeq(s, 1, d - 1))
  /\ \A k \in 1 .. d - 1 : s[k].kind # "dotted"
  /\ IsList(SubSeq(s, d + 2, Len(s)))

Filled(l, r) == l \o [i \in 1 .. 8 - Len(l) - Len(r) |-> 0] \o r

Whole(s) == IsList(s) /\ Len(ListWords(s)) = 8
Gap(s, d) == GapAt(s, d) /\ Len(LeftOf(s, d)) + Len(RightOf(s, d)) <= 7

LEMMA MeaningIs ==
  ASSUME NEW s, NEW w
  PROVE  w \in Meaning(s) <=> \/ Whole(s) /\ w = ListWords(s)
                              \/ \E d : Gap(s, d) /\ w = Filled(LeftOf(s, d), RightOf(s, d))
<1>. DEFINE A == {ListWords(t) : t \in {u \in {s} : IsList(u) /\ Len(ListWords(u)) = 8}}
            D == {m \in 1 .. Len(s) - 1 :
                    /\ s[m] = Colon /\ s[m + 1] = Colon
                    /\ IsList(SubSeq(s, 1, m - 1))
                    /\ \A k \in 1 .. m - 1 : s[k].kind # "dotted"
                    /\ IsList(SubSeq(s, m + 2, Len(s)))
                    /\ Len(ListWords(SubSeq(s, 1, m - 1)))
                         + Len(ListWords(SubSeq(s, m + 2, Len(s)))) <= 7}
            F(n) == LET l == ListWords(SubSeq(s, 1, n - 1))
                        r == ListWords(SubSeq(s, n + 2, Len(s)))
                    IN  l \o [i \in 1 .. 8 - Len(l) - Len(r) |-> 0] \o r
<1>1. Meaning(s) = A \cup {F(n) : n \in D}
  BY DEF Meaning
<1>2. w \in A <=> Whole(s) /\ w = ListWords(s)
  <2>1. w \in A <=> \E t \in {u \in {s} : IsList(u) /\ Len(ListWords(u)) = 8} : w = ListWords(t)
    OBVIOUS
  <2>2. \A t : t \in {u \in {s} : IsList(u) /\ Len(ListWords(u)) = 8} <=> t = s /\ Whole(s)
    BY DEF Whole
  <2>. QED BY <2>1, <2>2, Zenon
<1>3. \A n : n \in D <=> Gap(s, n)
  BY DEF Gap, GapAt, LeftOf, RightOf
<1>4. \A n : F(n) = Filled(LeftOf(s, n), RightOf(s, n))
  BY Zenon DEF Filled, LeftOf, RightOf
<1>. HIDE DEF A, D, F
<1>. QED BY <1>1, <1>2, <1>3, <1>4

\* The parts of a text with a double colon.
LEMMA GapParts ==
  ASSUME NEW s \in Seq(Tokens), NEW d, GapAt(s, d)
  PROVE  /\ d \in Nat /\ d >= 1 /\ d + 1 <= Len(s) /\ Len(s) \in Nat
         /\ s[d] = Colon /\ s[d + 1] = Colon
         /\ \E m \in Nat : Span(s, 1, d - 1, m) /\ HasWords(LeftOf(s, d), s, 1, d - 1, m)
         /\ \E m \in Nat : /\ Span(s, d + 2, Len(s), m)
                           /\ HasWords(RightOf(s, d), s, d + 2, Len(s), m)
<1>1. /\ d \in Nat /\ d >= 1 /\ d + 1 <= Len(s) /\ Len(s) \in Nat
      /\ s[d] = Colon /\ s[d + 1] = Colon
  BY DEF GapAt
<1>2. \E m \in Nat : Span(s, 1, d - 1, m) /\ HasWords(LeftOf(s, d), s, 1, d - 1, m)
  <2>. DEFINE z == d - 1
  <2>1. z \in Nat /\ 1 <= z + 1 /\ z <= Len(s)
    BY <1>1
  <2>2. IsList(SubSeq(s, 1, z)) /\ LeftOf(s, d) = ListWords(SubSeq(s, 1, z))
    BY DEF GapAt, LeftOf
  <2>. HIDE DEF z
  <2>3. PICK m \in Nat : Span(s, 1, z, m)
    BY <2>1, <2>2, ListOfPart
  <2>4. HasWords(ListWords(SubSeq(s, 1, z)), s, 1, z, m)
    BY <2>1, <2>3, ListWordsOfPart
  <2>. QED BY <2>2, <2>3, <2>4 DEF z
<1>3. \E m \in Nat : /\ Span(s, d + 2, Len(s), m)
                     /\ HasWords(RightOf(s, d), s, d + 2, Len(s), m)
  <2>. DEFINE a == d + 2
  <2>1. a \in Nat /\ 1 <= a /\ a <= Len(s) + 1 /\ Len(s) <= Len(s)
    BY <1>1
  <2>2. IsList(SubSeq(s, a, Len(s))) /\ RightOf(s, d) = ListWords(SubSeq(s, a, Len(s)))
    BY DEF GapAt, RightOf
  <2>. HIDE DEF a
  <2>3. PICK m \in Nat : Span(s, a, Len(s), m)
    BY <1>1, <2>1, <2>2, ListOfPart
  <2>4. HasWords(ListWords(SubSeq(s, a, Len(s))), s, a, Len(s), m)
    BY <1>1, <2>1, <2>3, ListWordsOfPart
  <2>. QED BY <2>2, <2>3, <2>4 DEF a
<1>. QED BY <1>1, <1>2, <1>3

\* And a text of two lists with a double colon between them has such parts.
LEMMA PartsGap ==
  ASSUME NEW s \in Seq(Tokens), NEW d \in Nat, d >= 1, d + 1 <= Len(s),
         s[d] = Colon, s[d + 1] = Colon,
         NEW m, Span(s, 1, d - 1, m), NEW k, Span(s, d + 2, Len(s), k),
         \A i \in 1 .. d - 1 : s[i].kind # "dotted"
  PROVE  GapAt(s, d) /\ HasWords(LeftOf(s, d), s, 1, d - 1, m)
         /\ HasWords(RightOf(s, d), s, d + 2, Len(s), k)
<1>0. m \in Nat /\ k \in Nat /\ Len(s) \in Nat
  BY DEF Span
<1>1. IsList(SubSeq(s, 1, d - 1)) /\ HasWords(LeftOf(s, d), s, 1, d - 1, m)
  <2>. DEFINE z == d - 1
  <2>1. z \in Nat /\ 1 <= z + 1 /\ z <= Len(s) /\ Span(s, 1, z, m)
    BY <1>0
  <2>. HIDE DEF z
  <2>2. IsList(SubSeq(s, 1, z))
    BY <1>0, <2>1, ListOfPart
  <2>3. HasWords(ListWords(SubSeq(s, 1, z)), s, 1, z, m)
    BY <2>1, ListWordsOfPart
  <2>. QED BY <2>2, <2>3 DEF z, LeftOf
<1>2. IsList(SubSeq(s, d + 2, Len(s))) /\ HasWords(RightOf(s, d), s, d + 2, Len(s), k)
  <2>. DEFINE a == d + 2
  <2>1. a \in Nat /\ 1 <= a /\ a <= Len(s) + 1 /\ Len(s) <= Len(s) /\ Span(s, a, Len(s), k)
    BY <1>0
  <2>. HIDE DEF a
  <2>2. IsList(SubSeq(s, a, Len(s)))
    BY <1>0, <2>1, ListOfPart
  <2>3. HasWords(ListWords(SubSeq(s, a, Len(s))), s, a, Len(s), k)
    BY <1>0, <2>1, ListWordsOfPart
  <2>. QED BY <2>2, <2>3 DEF a, RightOf
<1>3. d \in 1 .. Len(s) - 1
  BY <1>0
<1>. QED BY <1>1, <1>2, <1>3 DEF GapAt

\* Two colons side by side.
Double(s, i) == i \in 1 .. Len(s) - 1 /\ s[i] = Colon /\ s[i + 1] = Colon

\* What holds of every text that means an address, or would if it had another
\* number of words.
Orderly(s) ==
  /\ \A i \in 1 .. Len(s) : s[i] = Colon \/ GoodGroup(s[i])
  /\ \A i \in 1 .. Len(s) : s[i].kind = "dotted" => i = Len(s)
  /\ Len(s) >= 1 /\ s[1] = Colon => Double(s, 1)
  /\ Len(s) >= 1 /\ s[Len(s)] = Colon => Double(s, Len(s) - 1)

LEMMA ListIsOrderly ==
  ASSUME NEW s \in Seq(Tokens), IsList(s)
  PROVE  Orderly(s) /\ \A i : ~Double(s, i)
<1>1. PICK m \in Nat : Span(s, 1, Len(s), m)
  BY ListIsSpan
<1>2. /\ 1 <= Len(s) => GoodGroup(s[1]) /\ GoodGroup(s[Len(s)])
      /\ \A i \in 1 .. Len(s) : s[i] = Colon \/ GoodGroup(s[i])
      /\ \A i \in 1 .. Len(s) - 1 : \/ s[i] = Colon /\ GoodGroup(s[i + 1])
                                    \/ GoodGroup(s[i]) /\ s[i + 1] = Colon
      /\ \A i \in 1 .. Len(s) : s[i].kind = "dotted" => i = Len(s)
  BY <1>1, SpanTokens
<1>3. \A i : ~Double(s, i)
  BY <1>2, GoodGroupIsNoColon DEF Double
<1>4. Len(s) >= 1 => s[1] # Colon /\ s[Len(s)] # Colon
  BY <1>2, GoodGroupIsNoColon
<1>. QED BY <1>2, <1>3, <1>4 DEF Orderly

LEMMA GapIsOrderly ==
  ASSUME NEW s \in Seq(Tokens), NEW d, GapAt(s, d)
  PROVE  Orderly(s) /\ \A i : Double(s, i) <=> i = d
<1>0. /\ d \in Nat /\ d >= 1 /\ d + 1 <= Len(s) /\ Len(s) \in Nat
      /\ s[d] = Colon /\ s[d + 1] = Colon
  BY GapParts
<1>. DEFINE z == d - 1
            a == d + 2
            n == Len(s)
<1>1. PICK m \in Nat : Span(s, 1, z, m)
  BY GapParts
<1>2. PICK k \in Nat : Span(s, a, n, k)
  BY GapParts
<1>3. z \in Nat /\ a \in Nat /\ n \in Nat /\ z < n /\ 1 <= a /\ a <= n + 1 /\ a = z + 3
      /\ d = z + 1
  BY <1>0
<1>4. \A i \in 1 .. z : s[i].kind # "dotted"
  BY DEF GapAt
<1>. HIDE DEF z, a, n
<1>5. /\ 1 <= z => GoodGroup(s[1]) /\ GoodGroup(s[z])
      /\ \A i \in 1 .. z : s[i] = Colon \/ GoodGroup(s[i])
      /\ \A i \in 1 .. z - 1 : \/ s[i] = Colon /\ GoodGroup(s[i + 1])
                               \/ GoodGroup(s[i]) /\ s[i + 1] = Colon
  BY <1>1, SpanTokens
<1>6. /\ a <= n => GoodGroup(s[a]) /\ GoodGroup(s[n])
      /\ \A i \in a .. n : s[i] = Colon \/ GoodGroup(s[i])
      /\ \A i \in a .. n - 1 : \/ s[i] = Colon /\ GoodGroup(s[i + 1])
                               \/ GoodGroup(s[i]) /\ s[i + 1] = Colon
      /\ \A i \in a .. n : s[i].kind = "dotted" => i = n
  <2>1. a \in Nat
    BY <1>3
  <2>2. 1 <= a
    BY <1>3
  <2>. QED BY <1>2, <2>1, <2>2, SpanTokens
<1>7. s[z + 1] = Colon /\ s[z + 2] = Colon
  BY <1>0, <1>3
<1>8. ASSUME NEW i \in 1 .. n
      PROVE  (s[i] = Colon \/ GoodGroup(s[i])) /\ (s[i].kind = "dotted" => i = n)
  <2>1. i \in 1 .. z \/ i = z + 1 \/ i = z + 2 \/ i \in a .. n
    BY <1>3
  <2>. QED BY <1>4, <1>5, <1>6, <1>7, <2>1, GoodGroupIsNoColon
<1>9. ASSUME NEW i \in 1 .. n - 1, s[i] = Colon, s[i + 1] = Colon
      PROVE  i = z + 1
  <2>1. CASE i \in 1 .. z - 1
    BY <1>5, <1>9, <2>1, GoodGroupIsNoColon
  <2>2. CASE i = z
    BY <1>3, <1>5, <1>9, <2>2, GoodGroupIsNoColon
  <2>3. CASE i = z + 2
    <3>1. a <= n /\ i + 1 = a
      BY <1>3, <2>3
    <3>. QED BY <1>6, <1>9, <3>1, GoodGroupIsNoColon
  <2>4. CASE i \in a .. n - 1
    BY <1>6, <1>9, <2>4, GoodGroupIsNoColon
  <2>5. i \in 1 .. z - 1 \/ i = z \/ i = z + 1 \/ i = z + 2 \/ i \in a .. n - 1
    BY <1>3
  <2>. QED BY <2>1, <2>2, <2>3, <2>4, <2>5
<1>10. \A i : Double(s, i) <=> i = d
  <2>1. z + 1 \in 1 .. n - 1 /\ (z + 1) + 1 = z + 2
    BY <1>0, <1>3 DEF n
  <2>. QED BY <1>3, <1>7, <1>9, <2>1 DEF Double, n
<1>11. ASSUME s[1] = Colon PROVE Double(s, 1)
  <2>1. z = 0
    BY <1>3, <1>5, <1>11, GoodGroupIsNoColon
  <2>2. d = 1
    BY <1>3, <2>1
  <2>. QED BY <1>10, <2>2
<1>12. ASSUME s[n] = Colon PROVE Double(s, n - 1)
  <2>1. n = z + 2
    BY <1>3, <1>6, <1>12, GoodGroupIsNoColon
  <2>2. n - 1 = d
    BY <1>3, <2>1
  <2>. QED BY <1>10, <2>2
<1>. QED BY <1>8, <1>10, <1>11, <1>12 DEF Orderly, n

\* Such a text means at most one address.
LEMMA ListMeans ==
  ASSUME NEW s \in Seq(Tokens), IsList(s)
  PROVE  /\ Len(ListWords(s)) = 8 => Meaning(s) = {ListWords(s)}
         /\ Len(ListWords(s)) # 8 => Meaning(s) = {}
<1>1. ASSUME NEW d PROVE ~Gap(s, d)
  <2>1. GapAt(s, d) => Double(s, d)
    BY DEF GapAt, Double
  <2>. QED BY <2>1, ListIsOrderly DEF Gap
<1>2. \A w : w \in Meaning(s) <=> Len(ListWords(s)) = 8 /\ w = ListWords(s)
  BY <1>1, MeaningIs DEF Whole
<1>. QED BY <1>2

LEMMA GapMeans ==
  ASSUME NEW s \in Seq(Tokens), NEW d, GapAt(s, d)
  PROVE  /\ Gap(s, d) => Meaning(s) = {Filled(LeftOf(s, d), RightOf(s, d))}
         /\ ~Gap(s, d) => Meaning(s) = {}
<1>1. ~IsList(s)
  BY GapIsOrderly, ListIsOrderly
<1>2. ASSUME NEW e, Gap(s, e) PROVE e = d
  <2>1. Double(s, e)
    BY <1>2 DEF Gap, GapAt, Double
  <2>. QED BY <2>1, GapIsOrderly
<1>3. \A w : w \in Meaning(s) <=> Gap(s, d) /\ w = Filled(LeftOf(s, d), RightOf(s, d))
  BY <1>1, <1>2, MeaningIs DEF Whole
<1>. QED BY <1>3

\* A text of neither shape means nothing.
LEMMA NeitherMeans ==
  ASSUME NEW s, ~IsList(s), \A d : ~GapAt(s, d)
  PROVE  Meaning(s) = {}
<1>1. \A w : w \notin Meaning(s)
  BY MeaningIs DEF Whole, Gap
<1>. QED BY <1>1

LEMMA DisorderMeans ==
  ASSUME NEW s \in Seq(Tokens), ~Orderly(s)
  PROVE  Meaning(s) = {}
BY ListIsOrderly, GapIsOrderly, NeitherMeans

LEMMA TwoDoublesMean ==
  ASSUME NEW s \in Seq(Tokens), NEW i, NEW j, Double(s, i), Double(s, j), i # j
  PROVE  Meaning(s) = {}
BY ListIsOrderly, GapIsOrderly, NeitherMeans

\* Eight words: those before the double colon, zeros, those after it.
LEMMA FilledIs ==
  ASSUME NEW l \in Seq(Words), NEW r \in Seq(Words), Len(l) + Len(r) <= 8
  PROVE  /\ Filled(l, r) \in [1 .. 8 -> Words]
         /\ Filled(l, r) =
              [i \in 1 .. 8 |-> IF i <= Len(l) THEN l[i]
                                ELSE IF i <= 8 - Len(r) THEN 0
                                ELSE r[i - (8 - Len(r))]]
<1>. DEFINE z == [i \in 1 .. 8 - Len(l) - Len(r) |-> 0]
            n == 8 - Len(l) - Len(r)
            f == Filled(l, r)
            g == l \o z
<1>1. n \in Nat /\ Len(l) \in Nat /\ Len(r) \in Nat /\ n = 8 - Len(l) - Len(r)
  OBVIOUS
<1>2. z \in [1 .. n -> Words]
  BY WordIs
<1>3. z \in Seq(Words) /\ Len(z) = n
  <2>. HIDE DEF z, n
  <2>. QED BY <1>1, <1>2, FunctionIsSeq
<1>4. f = g \o r
  BY DEF Filled
<1>5. \A i \in 1 .. n : z[i] = 0
  OBVIOUS
<1>. HIDE DEF z, n, f
<1>6. g \in Seq(Words) /\ IsConcat(g, l, z)
  BY <1>3, Concat
<1>. HIDE DEF g
<1>7. f \in Seq(Words) /\ IsConcat(f, g, r)
  <2>1. g \o r \in Seq(Words) /\ IsConcat(g \o r, g, r)
    BY <1>6, Concat
  <2>. QED BY <1>4, <2>1, Zenon
<1>8. Len(g) = Len(l) + n /\ Len(f) = 8
  BY <1>1, <1>3, <1>6, <1>7 DEF IsConcat
<1>9. ASSUME NEW i \in 1 .. 8
      PROVE  f[i] = IF i <= Len(l) THEN l[i]
                    ELSE IF i <= 8 - Len(r) THEN 0
                    ELSE r[i - (8 - Len(r))]
  <2>1. CASE i <= Len(l)
    <3>1. i \in 1 .. Len(l) /\ i \in 1 .. Len(g)
      BY <1>1, <1>8, <2>1
    <3>. QED BY <1>6, <1>7, <2>1, <3>1 DEF IsConcat
  <2>2. CASE ~(i <= Len(l)) /\ i <= 8 - Len(r)
    <3>1. PICK j \in 1 .. Len(z) : i = Len(l) + j
      <4>1. i - Len(l) \in 1 .. Len(z) /\ i = Len(l) + (i - Len(l))
        BY <1>1, <1>3, <2>2
      <4>. QED BY <4>1
    <3>2. i \in 1 .. Len(g)
      BY <1>1, <1>8, <2>2
    <3>3. f[i] = g[i] /\ g[Len(l) + j] = z[j]
      BY <1>6, <1>7, <3>1, <3>2 DEF IsConcat
    <3>4. z[j] = 0
      BY <1>3, <1>5, <3>1
    <3>. QED BY <2>2, <3>1, <3>3, <3>4
  <2>3. CASE ~(i <= Len(l)) /\ ~(i <= 8 - Len(r))
    <3>1. PICK j \in 1 .. Len(r) : i = Len(g) + j /\ j = i - (8 - Len(r))
      <4>1. i - (8 - Len(r)) \in 1 .. Len(r) /\ i = Len(g) + (i - (8 - Len(r)))
        BY <1>1, <1>8, <2>3
      <4>. QED BY <4>1
    <3>2. f[Len(g) + j] = r[j]
      BY <1>7, <3>1 DEF IsConcat
    <3>. QED BY <2>3, <3>1, <3>2
  <2>. QED BY <2>1, <2>2, <2>3
<1>10. f \in [1 .. 8 -> Words] /\ f = [i \in 1 .. 8 |-> f[i]]
  BY <1>7, <1>8, SeqIsFunction
<1>11. f = [i \in 1 .. 8 |-> IF i <= Len(l) THEN l[i]
                             ELSE IF i <= 8 - Len(r) THEN 0
                             ELSE r[i - (8 - Len(r))]]
  BY <1>9, <1>10
<1>. QED BY <1>10, <1>11 DEF f

\* The words of what stands after the double colon in a printed text.
LEMMA WrittenRightWords ==
  ASSUME NEW w \in [1 .. 8 -> Words], NEW b, NEW l, IsRun(w, b, l), b # 9,
         NEW q \in Seq(Tokens), Written(q, w, b, l), NEW r,
         HasWords(r, q, Mark(b) + 2, Len(q), LastOf(w, b, l) - (b + l) + 1)
  PROVE  /\ r \in Seq(Words) /\ Len(r) = 9 - (b + l)
         /\ \A j \in 1 .. 9 - (b + l) : r[j] = w[b + l + j - 1]
<1>. DEFINE e == LastOf(w, b, l)
            m == e - (b + l) + 1
            a == Mark(b) + 2
            n == Len(q)
            p(j) == a + 2 * j - 2
<1>1. b \in 1 .. 8 /\ l \in 2 .. 8 /\ b + l <= 9
  BY DEF IsRun
<1>2. /\ e = 7 \/ e = 8
      /\ e = 7 => b = 1 /\ l \in 5 .. 6 /\ Encapsulates4(w, b, l)
      /\ e = 8 => ~Encapsulates4(w, b, l)
  BY DEF LastOf, Encapsulates4
<1>3. /\ m \in Nat /\ Span(q, a, n, m)
      /\ \A j \in 1 .. m : q[p(j)] = TokenOf(w, b, l, b + l + j - 1)
  BY WrittenRight
<1>4. /\ r \in Seq(Words)
      /\ Len(r) = IF m # 0 /\ q[n].kind = "dotted" THEN m + 1 ELSE m
      /\ \A j \in 1 .. m : q[p(j)].kind = "hex" => r[j] = q[p(j)].val
      /\ m # 0 /\ q[n].kind = "dotted" => /\ r[m] = WordsOf4(q[n].fields)[1]
                                          /\ r[m + 1] = WordsOf4(q[n].fields)[2]
  BY DEF HasWords
<1>5. Mark(b) \in Nat
  BY <1>1 DEF Mark
<1>6. m # 0 => n = p(m)
  BY <1>3 DEF Span
<1>. HIDE DEF e, a, n
<1>7. ASSUME NEW j \in 1 .. m, b + l + j - 1 # 7 \/ e = 8
      PROVE  q[p(j)].kind = "hex" /\ r[j] = w[b + l + j - 1]
  <2>. DEFINE i == b + l + j - 1
  <2>1. i \in 1 .. 8
    <3>1. j \in 1 .. m /\ m \in Nat
      BY <1>3
    <3>. HIDE DEF p
    <3>. QED BY <1>1, <1>2, <3>1
  <2>2. TokenOf(w, b, l, i) = Hex(w[i])
    BY <1>2, <1>7 DEF TokenOf
  <2>3. q[p(j)] = Hex(w[i]) /\ w[i] \in Words
    BY <1>3, <2>1, <2>2
  <2>. HIDE DEF i, p
  <2>4. q[p(j)].kind = "hex" /\ q[p(j)].val = w[i]
    BY <2>3, HexIsGood
  <2>5. r[j] = w[i]
    BY <1>4, <2>4
  <2>. QED BY <2>4, <2>5 DEF i
<1>8. CASE e = 8
  <2>1. m = 9 - (b + l)
    BY <1>1, <1>8
  <2>2. \A j \in 1 .. m : q[p(j)].kind = "hex" /\ r[j] = w[b + l + j - 1]
    BY <1>7, <1>8
  <2>3. m # 0 => q[n].kind # "dotted"
    <3>. SUFFICES ASSUME m # 0 PROVE q[n].kind # "dotted"
      OBVIOUS
    <3>1. m \in 1 .. m
      BY <1>3
    <3>2. q[p(m)].kind = "hex"
      BY <2>2, <3>1
    <3>. QED BY <1>6, <3>2
  <2>. HIDE DEF m, p
  <2>4. Len(r) = m
    BY <1>4, <2>3
  <2>. QED BY <1>4, <2>1, <2>2, <2>4
<1>9. CASE e = 7
  <2>1. b = 1 /\ l \in 5 .. 6 /\ m = 7 - l /\ m \in 1 .. 2 /\ m # 0
    BY <1>2, <1>9
  <2>2. TokenOf(w, b, l, 7) = Dotted(Ntop4(Octets4(w)))
    BY <1>2, <1>9 DEF TokenOf
  <2>3. q[p(m)] = TokenOf(w, b, l, b + l + m - 1) /\ b + l + m - 1 = 7
    <3>1. m \in 1 .. m
      BY <2>1
    <3>2. q[p(m)] = TokenOf(w, b, l, b + l + m - 1)
      BY <1>3, <3>1
    <3>3. b + l + m - 1 = 7
      BY <2>1
    <3>. QED BY <3>2, <3>3
  <2>4. q[n] = Dotted(Ntop4(Octets4(w)))
    BY <1>6, <2>1, <2>2, <2>3
  <2>5. q[n].kind = "dotted" /\ q[n].fields = Ntop4(Octets4(w))
    BY <2>4 DEF Dotted
  <2>6. WordsOf4(q[n].fields)[1] = w[7] /\ WordsOf4(q[n].fields)[2] = w[8]
    <3>1. WordsOf4(q[n].fields) = <<w[7], w[8]>>
      BY <2>5, DottedEnd
    <3>. QED BY <3>1
  <2>7. Len(r) = m + 1 /\ r[m] = w[7] /\ r[m + 1] = w[8]
    BY <1>4, <2>1, <2>5, <2>6
  <2>8. ASSUME NEW j \in 1 .. 9 - (b + l) PROVE r[j] = w[b + l + j - 1]
    <3>. HIDE DEF m, p
    <3>0. b + l \in Nat /\ j \in Nat /\ 1 <= j /\ j <= 9 - (b + l) /\ b + l = 8 - m
      BY <2>1
    <3>1. CASE j = m
      <4>1. b + l + j - 1 = 7
        BY <2>1, <3>0, <3>1
      <4>. QED BY <2>7, <3>1, <4>1
    <3>2. CASE j = m + 1
      <4>1. b + l + j - 1 = 8
        BY <2>1, <3>0, <3>2
      <4>. QED BY <2>7, <3>2, <4>1
    <3>3. CASE j # m /\ j # m + 1
      <4>1. j \in 1 .. m /\ b + l + j - 1 # 7
        BY <2>1, <3>0, <3>3
      <4>. QED BY <1>7, <4>1
    <3>. QED BY <3>1, <3>2, <3>3
  <2>9. Len(r) = 9 - (b + l)
    BY <2>1, <2>7
  <2>. QED BY <1>4, <2>8, <2>9
<1>. QED BY <1>2, <1>8, <1>9

\* What is printed means the address it was printed from.
LEMMA Ntop6Means ==
  ASSUME NEW w \in [1 .. 8 -> Words]
  PROVE  w \in Meaning(Ntop6(w))
<1>1. PICK b, l, q : q = Ntop6(w) /\ IsRun(w, b, l) /\ Written(q, w, b, l)
  BY Ntop6Written
<1>2. q \in Seq(Tokens) /\ Len(q) \in Nat
  BY <1>1 DEF Written, IsText
<1>3. /\ Span(q, 1, Mark(b) - 1, b - 1)
      /\ \A j \in 1 .. b - 1 : q[2 * j - 1] = Hex(w[j])
  BY <1>1, WrittenLeft
<1>4. b \in 1 .. 9 /\ w = [i \in 1 .. 8 |-> w[i]]
  BY <1>1 DEF IsRun
<1>5. Mark(b) \in Nat /\ Mark(b) >= 1 /\ (b > 1 => Mark(b) = 2 * b - 2)
  BY <1>4 DEF Mark
<1>6. ASSUME NEW j \in 1 .. b - 1
      PROVE  q[1 + 2 * j - 2].kind = "hex" /\ q[1 + 2 * j - 2].val = w[j]
  <2>1. j \in 1 .. 8 /\ 1 + 2 * j - 2 = 2 * j - 1
    BY <1>4
  <2>2. q[1 + 2 * j - 2] = Hex(w[j]) /\ w[j] \in Words
    BY <1>3, <2>1
  <2>. QED BY <2>2, HexIsGood
\* The words before the double colon, or all eight.
<1>7. ASSUME NEW v, HasWords(v, q, 1, Mark(b) - 1, b - 1)
      PROVE  v \in Seq(Words) /\ Len(v) = b - 1 /\ \A j \in 1 .. b - 1 : v[j] = w[j]
  <2>. DEFINE z == Mark(b) - 1
              m == b - 1
  <2>1. m \in Nat /\ (m # 0 => z = 1 + 2 * m - 2)
    BY <1>4, <1>5
  <2>2. \A j \in 1 .. m : q[1 + 2 * j - 2].kind = "hex" /\ q[1 + 2 * j - 2].val = w[j]
    BY <1>6
  <2>. HIDE DEF m, z
  <2>3. m # 0 => q[z].kind # "dotted"
    <3>. SUFFICES ASSUME m # 0 PROVE q[z].kind # "dotted"
      OBVIOUS
    <3>1. m \in 1 .. m
      BY <2>1
    <3>2. q[1 + 2 * m - 2].kind = "hex"
      BY <2>2, <3>1
    <3>. QED BY <2>1, <3>2
  <2>4. HasWords(v, q, 1, z, m)
    BY <1>7 DEF z, m
  <2>5. v \in Seq(Words) /\ Len(v) = m /\ \A j \in 1 .. m : v[j] = w[j]
    BY <2>2, <2>3, <2>4 DEF HasWords
  <2>. QED BY <2>5 DEF m
<1>8. CASE b = 9
  <2>. DEFINE v == ListWords(q)
  <2>1. Len(q) = 15 /\ Mark(b) - 1 = 15 /\ b - 1 = 8
    BY <1>1, <1>5, <1>8 DEF Written
  <2>2. Span(q, 1, Len(q), 8)
    BY <1>3, <2>1
  <2>3. IsList(q)
    BY <1>2, <2>2, SpanIsList
  <2>4. HasWords(ListWords(SubSeq(q, 1, Len(q))), q, 1, Len(q), 8)
    <3>1. 1 \in Nat /\ Len(q) \in Nat /\ 1 <= 1 /\ 1 <= Len(q) + 1 /\ Len(q) <= Len(q)
      BY <1>2
    <3>. QED BY <1>2, <2>2, <3>1, ListWordsOfPart
  <2>5. HasWords(v, q, 1, Mark(b) - 1, b - 1)
    <3>1. SubSeq(q, 1, Len(q)) = q
      BY <1>2, WholeIsPart
    <3>. HIDE DEF v
    <3>2. HasWords(v, q, 1, Len(q), 8)
      BY <2>4, <3>1 DEF v
    <3>. QED BY <2>1, <3>2
  <2>. HIDE DEF v
  <2>6. v \in Seq(Words) /\ Len(v) = 8 /\ \A j \in 1 .. 8 : v[j] = w[j]
    BY <1>7, <2>1, <2>5
  <2>7. v = [i \in 1 .. 8 |-> v[i]]
    BY <2>6, SeqIsFunction
  <2>8. v = w
    BY <1>4, <2>6, <2>7
  <2>9. Whole(q)
    BY <2>3, <2>6 DEF Whole, v
  <2>10. w \in Meaning(q)
    BY <2>8, <2>9, MeaningIs DEF v
  <2>. QED BY <1>1, <2>10
<1>9. CASE b # 9
  <2>. DEFINE d == Mark(b)
              m == b - 1
              k == LastOf(w, b, l) - (b + l) + 1
              f == LeftOf(q, d)
              r == RightOf(q, d)
  <2>0. b \in 1 .. 8 /\ l \in 2 .. 8 /\ b + l <= 9 /\ \A i \in b .. b + l - 1 : w[i] = 0
    BY <1>1, <1>9 DEF IsRun
  <2>1. k \in Nat /\ Span(q, d + 2, Len(q), k)
    BY <1>1, <1>9, WrittenRight
  <2>2. q[d] = Colon /\ q[d + 1] = Colon
    BY <1>1, <2>0 DEF Written
  <2>3. d + 1 <= Len(q)
    <3>1. Len(q) \in Nat /\ Len(q) = IF k = 0 THEN (d + 2) - 1 ELSE d + 2 + 2 * k - 2
      BY <1>2, <2>1 DEF Span
    <3>. HIDE DEF k
    <3>. QED BY <1>5, <2>1, <3>1
  <2>4. ASSUME NEW i \in 1 .. d - 1 PROVE q[i].kind # "dotted"
    <3>. DEFINE z == d - 1
    <3>1. Span(q, 1, z, m)
      BY <1>3
    <3>2. i \in 1 .. z
      OBVIOUS
    <3>3. z = IF m = 0 THEN 0 ELSE 1 + 2 * m - 2
      <4>1. CASE b = 1
        BY <4>1 DEF Mark
      <4>2. CASE b # 1
        <5>1. b > 1 /\ m # 0 /\ d = 2 * b - 2
          BY <1>4, <1>5, <4>2
        <5>. QED BY <1>4, <5>1
      <4>. QED BY <4>1, <4>2
    <3>4. m \in Nat
      BY <1>4
    <3>. HIDE DEF z, m
    <3>5. q[i].kind = "dotted" => i = z
      BY <3>1, <3>2, SpanTokens
    <3>6. m # 0 => q[z].kind # "dotted"
      <4>. SUFFICES ASSUME m # 0 PROVE q[z].kind # "dotted"
        OBVIOUS
      <4>1. m \in 1 .. b - 1
        BY <1>4, <3>4 DEF m
      <4>2. q[1 + 2 * m - 2].kind = "hex"
        BY <1>6, <4>1
      <4>. QED BY <3>3, <4>2
    <3>7. m # 0
      BY <3>2, <3>3
    <3>. QED BY <3>5, <3>6, <3>7
  <2>5. GapAt(q, d) /\ HasWords(f, q, 1, d - 1, m) /\ HasWords(r, q, d + 2, Len(q), k)
    <3>. HIDE DEF k, m, d
    <3>1. d \in Nat /\ d >= 1
      BY <1>5 DEF d
    <3>2. Span(q, 1, d - 1, m)
      BY <1>3 DEF d, m
    <3>. QED BY <1>2, <2>1, <2>2, <2>3, <2>4, <3>1, <3>2, PartsGap
  <2>6. f \in Seq(Words) /\ Len(f) = b - 1 /\ \A j \in 1 .. b - 1 : f[j] = w[j]
    BY <1>7, <2>5
  <2>7. /\ r \in Seq(Words) /\ Len(r) = 9 - (b + l)
        /\ \A j \in 1 .. 9 - (b + l) : r[j] = w[b + l + j - 1]
    BY <1>1, <1>2, <1>9, <2>5, WrittenRightWords
  <2>. HIDE DEF f, r, k
  <2>8. Len(f) + Len(r) <= 7
    BY <2>0, <2>6, <2>7
  <2>9. Filled(f, r) = w
    <3>1. Filled(f, r) = [i \in 1 .. 8 |-> IF i <= Len(f) THEN f[i]
                                           ELSE IF i <= 8 - Len(r) THEN 0
                                           ELSE r[i - (8 - Len(r))]]
      <4>1. f \in Seq(Words) /\ r \in Seq(Words) /\ Len(f) + Len(r) <= 8
        BY <2>0, <2>6, <2>7
      <4>. QED BY <4>1, FilledIs
    <3>2. ASSUME NEW i \in 1 .. 8
          PROVE  w[i] = IF i <= Len(f) THEN f[i]
                        ELSE IF i <= 8 - Len(r) THEN 0
                        ELSE r[i - (8 - Len(r))]
      <4>1. CASE i <= b - 1
        BY <2>6, <4>1
      <4>2. CASE i \in b .. b + l - 1
        <5>1. ~(i <= Len(f)) /\ i <= 8 - Len(r) /\ w[i] = 0
          BY <2>0, <2>6, <2>7, <4>2
        <5>. QED BY <5>1
      <4>3. CASE i >= b + l
        <5>1. PICK j \in 1 .. 9 - (b + l) : i = b + l + j - 1 /\ j = i - (8 - Len(r))
          <6>1. i - (b + l) + 1 \in 1 .. 9 - (b + l) /\ i = b + l + (i - (b + l) + 1) - 1
                /\ i - (b + l) + 1 = i - (8 - Len(r))
            BY <2>0, <2>7, <4>3
          <6>. QED BY <6>1
        <5>2. ~(i <= Len(f)) /\ ~(i <= 8 - Len(r))
          BY <2>0, <2>6, <2>7, <4>3
        <5>3. r[j] = w[b + l + j - 1]
          BY <2>7
        <5>. QED BY <5>1, <5>2, <5>3
      <4>. QED BY <2>0, <4>1, <4>2, <4>3
    <3>. QED BY <1>4, <3>1, <3>2
  <2>10. Gap(q, d)
    BY <2>5, <2>8 DEF Gap, f, r
  <2>11. w \in Meaning(q)
    <3>1. \E e : Gap(q, e) /\ w = Filled(LeftOf(q, e), RightOf(q, e))
      BY <2>9, <2>10 DEF f, r
    <3>. QED BY <3>1, MeaningIs
  <2>. QED BY <1>1, <2>11
<1>. QED BY <1>8, <1>9

-----------------------------------------------------------------------------
(* What the reader has read.                                               *)

\* Words base + 1 .. base + m of w are the groups from token a on, each with
\* its colon.
Stored(s, w, a, base, m) ==
  \A j \in 1 .. m : /\ s[a + 2 * j - 2].kind = "hex"
                    /\ s[a + 2 * j - 2].val = w[base + j]
                    /\ s[a + 2 * j - 1] = Colon

\* Where the list begins that is being read, and the words before it.
From(c) == IF c = NoColon THEN 1 ELSE Mark(c + 1) + 2
Base(c) == IF c = NoColon THEN 0 ELSE c

LeftRead(s, w, c) ==
  c # NoColon => /\ c \in 0 .. 8 /\ c <= Len(w)
                 /\ Stored(s, w, 1, 0, c)
                 /\ Double(s, Mark(c + 1))

\* w has been read, m words of it after the double colon if there was one.
ReadTo(s, w, c, m) ==
  /\ m \in Nat /\ Len(w) = Base(c) + m
  /\ Stored(s, w, From(c), Base(c), m)
  /\ From(c) + 2 * m <= Len(s) + 1
  /\ LeftRead(s, w, c)
  /\ c = NoColon /\ Len(s) >= 1 => s[1] # Colon

\* Text s has been read as w.
ReadAs(s, w, c) ==
  IF c = NoColon THEN IsList(s) /\ w = ListWords(s)
  ELSE LET d == Mark(c + 1)
       IN  /\ GapAt(s, d) /\ Len(LeftOf(s, d)) = c
           /\ LeftOf(s, d) \in Seq(Words) /\ RightOf(s, d) \in Seq(Words)
           /\ IsConcat(w, LeftOf(s, d), RightOf(s, d))

\* w2 is w and the words of group t.
Grown(w2, w, t) ==
  /\ w2 \in Seq(Words)
  /\ \A j \in 1 .. Len(w) : w2[j] = w[j]
  /\ t.kind = "hex" => Len(w2) = Len(w) + 1 /\ w2[Len(w) + 1] = t.val
  /\ t.kind = "dotted" => /\ Len(w2) = Len(w) + 2
                          /\ w2[Len(w) + 1] = WordsOf4(t.fields)[1]
                          /\ w2[Len(w) + 2] = WordsOf4(t.fields)[2]

LEMMA MarkIs ==
  ASSUME NEW c \in 0 .. 8
  PROVE  /\ Mark(c + 1) \in Nat /\ Mark(c + 1) >= 1
         /\ c = 0 => Mark(c + 1) = 1
         /\ c # 0 => Mark(c + 1) = 2 * c
BY DEF Mark

LEMMA HexGroup ==
  ASSUME NEW t, t.kind = "hex", t.val \in Words
  PROVE  GoodGroup(t) /\ ~(t.kind = "dotted")
BY DEF GoodGroup, IsGroup

\* The list before the double colon.
LEMMA LeftSpan ==
  ASSUME NEW s \in Seq(Tokens), NEW w \in Seq(Words), NEW c, c # NoColon, LeftRead(s, w, c)
  PROVE  /\ Span(s, 1, Mark(c + 1) - 1, c)
         /\ \A i \in 1 .. Mark(c + 1) - 1 : s[i].kind # "dotted"
         /\ \A v : HasWords(v, s, 1, Mark(c + 1) - 1, c) =>
              v \in Seq(Words) /\ Len(v) = c /\ \A j \in 1 .. c : v[j] = w[j]
<1>. DEFINE d == Mark(c + 1)
            z == d - 1
<1>1. c \in 0 .. 8 /\ c <= Len(w) /\ Stored(s, w, 1, 0, c) /\ Double(s, d)
  BY DEF LeftRead
<1>2. d \in Nat /\ d >= 1 /\ (c = 0 => d = 1) /\ (c # 0 => d = 2 * c)
  BY <1>1, MarkIs
<1>. HIDE DEF d
<1>3. c \in Nat /\ z = IF c = 0 THEN 1 - 1 ELSE 1 + 2 * c - 2
  BY <1>1, <1>2
<1>4. ASSUME NEW j \in 1 .. c
      PROVE  /\ s[1 + 2 * j - 2].kind = "hex" /\ s[1 + 2 * j - 2].val = w[j]
             /\ s[1 + 2 * j - 1] = Colon /\ w[j] \in Words
  <2>1. j \in 1 .. Len(w) /\ 0 + j = j
    BY <1>1
  <2>2. s[1 + 2 * j - 2].val = w[0 + j]
    BY <1>1 DEF Stored
  <2>3. s[1 + 2 * j - 2].kind = "hex" /\ s[1 + 2 * j - 1] = Colon
    BY <1>1 DEF Stored
  <2>. QED BY <2>1, <2>2, <2>3
<1>5. \A j \in 1 .. c : GoodGroup(s[1 + 2 * j - 2]) /\ ~(s[1 + 2 * j - 2].kind = "dotted")
  BY <1>4, HexGroup
<1>6. Span(s, 1, z, c)
  <2>1. \A j \in 1 .. c - 1 : j \in 1 .. c
    BY <1>3
  <2>2. \A j \in 1 .. c - 1 : s[1 + 2 * j - 1] = Colon
    BY <1>4, <2>1
  <2>. HIDE DEF z
  <2>. QED BY <1>3, <1>5, <2>2 DEF Span
<1>7. ASSUME NEW i \in 1 .. z PROVE s[i].kind # "dotted"
  <2>1. c # 0
    BY <1>3
  <2>2. c \in 1 .. c /\ z = 1 + 2 * c - 2
    BY <1>3, <2>1
  <2>3. ~(s[z].kind = "dotted")
    BY <1>5, <2>2
  <2>. HIDE DEF z
  <2>4. s[i].kind = "dotted" => i = z
    BY <1>6, SpanTokens
  <2>. QED BY <2>3, <2>4
<1>8. ASSUME NEW v, HasWords(v, s, 1, z, c)
      PROVE  v \in Seq(Words) /\ Len(v) = c /\ \A j \in 1 .. c : v[j] = w[j]
  <2>1. c # 0 => s[z].kind # "dotted"
    <3>. SUFFICES ASSUME c # 0 PROVE s[z].kind # "dotted"
      OBVIOUS
    <3>1. z \in 1 .. z
      BY <1>3
    <3>. QED BY <1>7, <3>1
  <2>. HIDE DEF z
  <2>. QED BY <1>4, <1>8, <2>1 DEF HasWords
<1>. QED BY <1>6, <1>7, <1>8 DEF d

\* The list that is being read, with its last group.
LEMMA LastSpan ==
  ASSUME NEW s \in Seq(Tokens), NEW w \in Seq(Words), NEW c \in 0 .. 9, NEW m, ReadTo(s, w, c, m),
         Len(s) = From(c) + 2 * m, GoodGroup(s[Len(s)])
  PROVE  /\ Span(s, From(c), Len(s), m + 1)
         /\ \A v : HasWords(v, s, From(c), Len(s), m + 1) =>
              /\ v \in Seq(Words)
              /\ Len(v) = IF s[Len(s)].kind = "dotted" THEN m + 2 ELSE m + 1
              /\ \A j \in 1 .. m : v[j] = w[Base(c) + j]
              /\ s[Len(s)].kind = "hex" => v[m + 1] = s[Len(s)].val
              /\ s[Len(s)].kind = "dotted" =>
                   /\ v[m + 1] = WordsOf4(s[Len(s)].fields)[1]
                   /\ v[m + 2] = WordsOf4(s[Len(s)].fields)[2]
<1>. DEFINE a == From(c)
            n == Len(s)
<1>1. m \in Nat /\ n \in Nat /\ n = a + 2 * m /\ Len(w) = Base(c) + m /\ Base(c) \in Nat
  BY DEF ReadTo, Base, NoColon
<1>2. a \in Nat /\ a >= 1
  <2>1. CASE c = NoColon
    BY <2>1 DEF From
  <2>2. CASE c # NoColon
    <3>1. c \in 0 .. 8
      BY <2>2 DEF NoColon
    <3>2. Mark(c + 1) \in Nat /\ Mark(c + 1) >= 1
      BY <3>1, MarkIs
    <3>. QED BY <2>2, <3>2 DEF From
  <2>. QED BY <2>1, <2>2
<1>. HIDE DEF a, n
<1>3. ASSUME NEW j \in 1 .. m
      PROVE  /\ s[a + 2 * j - 2].kind = "hex" /\ s[a + 2 * j - 2].val = w[Base(c) + j]
             /\ s[a + 2 * j - 1] = Colon /\ w[Base(c) + j] \in Words
  <2>1. Base(c) + j \in 1 .. Len(w)
    BY <1>1
  <2>. QED BY <2>1 DEF ReadTo, Stored, a
<1>4. \A j \in 1 .. m : GoodGroup(s[a + 2 * j - 2]) /\ ~(s[a + 2 * j - 2].kind = "dotted")
  BY <1>3, HexGroup
<1>5. m + 1 \in Nat /\ m + 1 # 0 /\ n = a + 2 * (m + 1) - 2 /\ (m + 1) - 1 = m
  BY <1>1, <1>2
<1>6. GoodGroup(s[n])
  BY DEF n
<1>7. ASSUME NEW j \in 1 .. m + 1
      PROVE  GoodGroup(s[a + 2 * j - 2]) /\ (s[a + 2 * j - 2].kind = "dotted" => j = m + 1)
  <2>1. j \in 1 .. m \/ j = m + 1
    BY <1>1
  <2>. QED BY <1>4, <1>5, <1>6, <2>1
<1>8. Span(s, a, n, m + 1)
  <2>1. PICK k \in Nat : k = m + 1
    BY <1>5
  <2>2. \A j \in 1 .. k - 1 : s[a + 2 * j - 1] = Colon
    BY <1>3, <1>5, <2>1
  <2>3. \A j \in 1 .. k : /\ GoodGroup(s[a + 2 * j - 2])
                          /\ s[a + 2 * j - 2].kind = "dotted" => j = k
    BY <1>7, <2>1
  <2>4. n = IF k = 0 THEN a - 1 ELSE a + 2 * k - 2
    BY <1>5, <2>1
  <2>5. Span(s, a, n, k)
    BY <2>2, <2>3, <2>4 DEF Span
  <2>. QED BY <2>1, <2>5
<1>9. ASSUME NEW v, HasWords(v, s, a, n, m + 1)
      PROVE  /\ v \in Seq(Words)
             /\ Len(v) = IF s[n].kind = "dotted" THEN m + 2 ELSE m + 1
             /\ \A j \in 1 .. m : v[j] = w[Base(c) + j]
             /\ s[n].kind = "hex" => v[m + 1] = s[n].val
             /\ s[n].kind = "dotted" => /\ v[m + 1] = WordsOf4(s[n].fields)[1]
                                        /\ v[m + 2] = WordsOf4(s[n].fields)[2]
  <2>1. /\ v \in Seq(Words)
        /\ Len(v) = IF m + 1 # 0 /\ s[n].kind = "dotted" THEN (m + 1) + 1 ELSE m + 1
        /\ \A j \in 1 .. m + 1 : s[a + 2 * j - 2].kind = "hex" => v[j] = s[a + 2 * j - 2].val
        /\ m + 1 # 0 /\ s[n].kind = "dotted" => /\ v[m + 1] = WordsOf4(s[n].fields)[1]
                                                /\ v[(m + 1) + 1] = WordsOf4(s[n].fields)[2]
    BY <1>9 DEF HasWords
  <2>2. m + 1 \in 1 .. m + 1 /\ (m + 1) + 1 = m + 2 /\ \A j \in 1 .. m : j \in 1 .. m + 1
    BY <1>1
  <2>3. s[n].kind = "hex" => v[m + 1] = s[n].val
    BY <1>5, <2>1, <2>2
  <2>4. \A j \in 1 .. m : v[j] = w[Base(c) + j]
    BY <1>3, <2>1, <2>2
  <2>. QED BY <1>5, <2>1, <2>2, <2>3, <2>4
<1>. QED BY <1>8, <1>9 DEF a, n

LEMMA SequencesEqual ==
  ASSUME NEW p \in Seq(Words), NEW q \in Seq(Words), Len(p) = Len(q),
         \A j \in 1 .. Len(p) : p[j] = q[j]
  PROVE  p = q
<1>1. p = [j \in 1 .. Len(p) |-> p[j]] /\ q = [j \in 1 .. Len(q) |-> q[j]]
  BY SeqIsFunction
<1>. QED BY <1>1

\* Where the text ends after a group, it has been read.
LEMMA EndsInGroup ==
  ASSUME NEW s \in Seq(Tokens), NEW w \in Seq(Words), NEW c \in 0 .. 9, NEW m, ReadTo(s, w, c, m),
         Len(s) = From(c) + 2 * m, GoodGroup(s[Len(s)]),
         NEW w2, Grown(w2, w, s[Len(s)])
  PROVE  ReadAs(s, w2, c)
<1>. DEFINE a == From(c)
            n == Len(s)
            t == s[n]
            x == IF t.kind = "dotted" THEN m + 2 ELSE m + 1
<1>0. m \in Nat /\ Len(w) = Base(c) + m /\ Base(c) \in Nat /\ n \in Nat
      /\ (c = NoColon => Base(c) = 0) /\ (c # NoColon => Base(c) = c) /\ LeftRead(s, w, c)
  BY DEF ReadTo, Base, NoColon
<1>1. /\ Span(s, a, n, m + 1)
      /\ \A v : HasWords(v, s, a, n, m + 1) =>
           /\ v \in Seq(Words)
           /\ Len(v) = x
           /\ \A j \in 1 .. m : v[j] = w[Base(c) + j]
           /\ t.kind = "hex" => v[m + 1] = t.val
           /\ t.kind = "dotted" => /\ v[m + 1] = WordsOf4(t.fields)[1]
                                   /\ v[m + 2] = WordsOf4(t.fields)[2]
  BY LastSpan
<1>2. t.kind = "hex" \/ t.kind = "dotted"
  BY DEF GoodGroup, IsGroup
<1>3. /\ w2 \in Seq(Words)
      /\ \A j \in 1 .. Len(w) : w2[j] = w[j]
      /\ t.kind = "hex" => Len(w2) = Len(w) + 1 /\ w2[Len(w) + 1] = t.val
      /\ t.kind = "dotted" => /\ Len(w2) = Len(w) + 2
                              /\ w2[Len(w) + 1] = WordsOf4(t.fields)[1]
                              /\ w2[Len(w) + 2] = WordsOf4(t.fields)[2]
  BY DEF Grown
<1>. HIDE DEF a, n, t
<1>4. Len(w2) = Base(c) + x
  BY <1>0, <1>2, <1>3
\* The words of the last list.
<1>5. ASSUME NEW v, HasWords(v, s, a, n, m + 1)
      PROVE  v \in Seq(Words) /\ Len(v) = x /\ \A j \in 1 .. x : v[j] = w2[Base(c) + j]
  <2>1. /\ v \in Seq(Words) /\ Len(v) = x
        /\ \A j \in 1 .. m : v[j] = w[Base(c) + j]
        /\ t.kind = "hex" => v[m + 1] = t.val
        /\ t.kind = "dotted" => /\ v[m + 1] = WordsOf4(t.fields)[1]
                                /\ v[m + 2] = WordsOf4(t.fields)[2]
    BY <1>1, <1>5
  <2>2. ASSUME NEW j \in 1 .. x PROVE v[j] = w2[Base(c) + j]
    <3>0. m \in Nat /\ Len(w) = Base(c) + m /\ Base(c) \in Nat
      BY <1>0
    <3>1. CASE j \in 1 .. m
      <4>1. Base(c) + j \in 1 .. Len(w)
        BY <3>0, <3>1
      <4>. QED BY <1>3, <2>1, <3>1, <4>1
    <3>2. CASE j = m + 1
      <4>1. Base(c) + j = Len(w) + 1
        BY <3>0, <3>2
      <4>. QED BY <1>2, <1>3, <2>1, <3>2, <4>1
    <3>3. CASE j = m + 2 /\ t.kind = "dotted"
      <4>1. Base(c) + j = Len(w) + 2
        BY <3>0, <3>3
      <4>. QED BY <1>3, <2>1, <3>3, <4>1
    <3>4. j \in 1 .. m \/ j = m + 1 \/ (j = m + 2 /\ t.kind = "dotted")
      BY <1>0
    <3>. QED BY <3>1, <3>2, <3>3, <3>4
  <2>. QED BY <2>1, <2>2
<1>6. CASE c = NoColon
  <2>. DEFINE v == ListWords(s)
  <2>1. a = 1 /\ Base(c) = 0
    BY <1>6 DEF a, From, Base
  <2>2. Span(s, 1, n, m + 1)
    BY <1>1, <2>1
  <2>3. IsList(s)
    BY <2>2, SpanIsList DEF n
  <2>4. HasWords(ListWords(SubSeq(s, 1, n)), s, 1, n, m + 1)
    <3>1. 1 \in Nat /\ 1 <= 1 /\ 1 <= n + 1 /\ n <= Len(s)
      BY <1>0 DEF n
    <3>. QED BY <1>0, <2>2, <3>1, ListWordsOfPart
  <2>5. SubSeq(s, 1, n) = s
    BY WholeIsPart DEF n
  <2>. HIDE DEF v
  <2>6. HasWords(v, s, a, n, m + 1)
    BY <2>1, <2>4, <2>5 DEF v
  <2>7. v \in Seq(Words) /\ Len(v) = x /\ \A j \in 1 .. x : v[j] = w2[Base(c) + j]
    BY <1>5, <2>6
  <2>8. \A j \in 1 .. x : Base(c) + j = j
    BY <2>1
  <2>9. Len(w2) = x
    BY <1>0, <1>4, <2>1
  <2>. HIDE DEF x
  <2>10. w2 = v
    <3>1. /\ w2 \in Seq(Words) /\ v \in Seq(Words) /\ Len(v) = Len(w2)
          /\ \A j \in 1 .. Len(v) : v[j] = w2[j]
      BY <1>3, <2>7, <2>8, <2>9, Zenon
    <3>. HIDE DEF v
    <3>. QED BY <3>1, SequencesEqual, Zenon
  <2>. QED BY <1>6, <2>3, <2>10 DEF ReadAs, v
<1>7. CASE c # NoColon
  <2>. DEFINE d == Mark(c + 1)
              l == LeftOf(s, d)
              r == RightOf(s, d)
  <2>1. c \in 0 .. 8 /\ c <= Len(w) /\ Double(s, d)
    BY <1>0, <1>7 DEF LeftRead
  <2>2. a = d + 2 /\ Base(c) = c
    BY <1>7 DEF a, From, Base
  <2>3. d \in Nat /\ d >= 1
    BY <2>1, MarkIs
  <2>4. d + 1 <= Len(s) /\ s[d] = Colon /\ s[d + 1] = Colon
    <3>. HIDE DEF d
    <3>1. d \in 1 .. n - 1 /\ s[d] = Colon /\ s[d + 1] = Colon
      BY <2>1 DEF Double, n
    <3>2. n \in Nat
      BY <1>0
    <3>3. d + 1 <= n
      BY <3>1, <3>2
    <3>. QED BY <3>1, <3>3 DEF n
  <2>5. /\ Span(s, 1, d - 1, c)
        /\ \A i \in 1 .. d - 1 : s[i].kind # "dotted"
        /\ \A v : HasWords(v, s, 1, d - 1, c) =>
             v \in Seq(Words) /\ Len(v) = c /\ \A j \in 1 .. c : v[j] = w[j]
    <3>1. c # NoColon /\ LeftRead(s, w, c)
      BY <1>0, <1>7
    <3>. QED BY <3>1, LeftSpan
  <2>6. Span(s, d + 2, Len(s), m + 1)
    BY <1>1, <2>2 DEF n
  <2>. HIDE DEF d
  <2>7. GapAt(s, d) /\ HasWords(l, s, 1, d - 1, c) /\ HasWords(r, s, d + 2, Len(s), m + 1)
    BY <2>3, <2>4, <2>5, <2>6, PartsGap
  <2>8. l \in Seq(Words) /\ Len(l) = c /\ \A j \in 1 .. c : l[j] = w[j]
    BY <2>5, <2>7
  <2>9. r \in Seq(Words) /\ Len(r) = x /\ \A j \in 1 .. x : r[j] = w2[Base(c) + j]
    BY <1>5, <2>2, <2>7 DEF n
  <2>. HIDE DEF l, r
  <2>10. IsConcat(w2, l, r)
    <3>1. \A j \in 1 .. c : w2[j] = l[j]
      <4>1. \A j \in 1 .. c : j \in 1 .. Len(w)
        BY <1>0, <2>1
      <4>. QED BY <1>3, <2>8, <4>1
    <3>2. Len(w2) = Len(l) + Len(r) /\ Len(l) \in Nat /\ Len(r) \in Nat
      BY <1>4, <2>2, <2>8, <2>9
    <3>. HIDE DEF x
    <3>3. \A j \in 1 .. Len(r) : w2[Len(l) + j] = r[j]
      BY <2>2, <2>8, <2>9
    <3>. QED BY <2>8, <3>1, <3>2, <3>3 DEF IsConcat
  <2>. QED BY <1>7, <2>7, <2>8, <2>9, <2>10 DEF ReadAs, d, l, r
<1>. QED BY <1>6, <1>7

\* Where it ends with the double colon, or is empty.
LEMMA EndsInNone ==
  ASSUME NEW s \in Seq(Tokens), NEW w \in Seq(Words), NEW c \in 0 .. 9, ReadTo(s, w, c, 0),
         Len(s) + 1 = From(c)
  PROVE  ReadAs(s, w, c)
<1>0. Len(w) = Base(c) /\ Len(s) \in Nat /\ LeftRead(s, w, c) /\ 0 \in Nat
  BY DEF ReadTo, Base, NoColon
<1>6. CASE c = NoColon
  <2>1. Len(s) = 0 /\ Len(w) = 0
    BY <1>0, <1>6 DEF From, Base
  <2>2. s = <<>> /\ w = <<>>
    BY <2>1
  <2>. QED BY <1>6, <2>2 DEF ReadAs, IsList, ListWords
<1>7. CASE c # NoColon
  <2>. DEFINE d == Mark(c + 1)
              l == LeftOf(s, d)
              r == RightOf(s, d)
  <2>1. c \in 0 .. 8 /\ Len(w) = c /\ Double(s, d)
    BY <1>0, <1>7 DEF LeftRead, Base
  <2>2. d \in Nat /\ d >= 1 /\ Len(s) = d + 1
    <3>1. d \in Nat /\ d >= 1
      BY <2>1, MarkIs
    <3>2. Len(s) + 1 = d + 2
      BY <1>7 DEF From
    <3>. HIDE DEF d
    <3>. QED BY <1>0, <3>1, <3>2
  <2>3. /\ Span(s, 1, d - 1, c)
        /\ \A i \in 1 .. d - 1 : s[i].kind # "dotted"
        /\ \A v : HasWords(v, s, 1, d - 1, c) =>
             v \in Seq(Words) /\ Len(v) = c /\ \A j \in 1 .. c : v[j] = w[j]
    BY <1>0, <1>7, LeftSpan
  <2>. HIDE DEF d
  <2>4. d + 1 <= Len(s) /\ s[d] = Colon /\ s[d + 1] = Colon
    BY <2>1, <2>2 DEF Double
  <2>5. Span(s, d + 2, Len(s), 0)
    BY <2>2 DEF Span
  <2>6. GapAt(s, d) /\ HasWords(l, s, 1, d - 1, c) /\ HasWords(r, s, d + 2, Len(s), 0)
    BY <2>2, <2>3, <2>4, <2>5, PartsGap
  <2>7. l \in Seq(Words) /\ Len(l) = c /\ \A j \in 1 .. c : l[j] = w[j]
    BY <2>3, <2>6
  <2>8. r \in Seq(Words) /\ Len(r) = 0
    BY <2>6 DEF HasWords
  <2>. HIDE DEF l, r
  <2>9. IsConcat(w, l, r)
    BY <2>1, <2>7, <2>8 DEF IsConcat
  <2>. QED BY <1>7, <2>6, <2>7, <2>8, <2>9 DEF ReadAs, d, l, r
<1>. QED BY <1>6, <1>7

-----------------------------------------------------------------------------
(* What the reader answers.                                                *)

Refused(w) == \/ Len(w) > 8
              \/ colonp # NoColon /\ Len(w) = 8
              \/ Len(Shifted(w)) # 8

\* The test at the end accepts the words of a text that means an address, and
\* shifts them to it.
LEMMA ReadAsMeans ==
  ASSUME text \in Seq(Tokens), colonp \in 0 .. 9, NEW w \in Seq(Words), ReadAs(text, w, colonp)
  PROVE  /\ Refused(w) => Meaning(text) = {}
         /\ ~Refused(w) => Meaning(text) = {Shifted(w)} /\ Shifted(w) \in [1 .. 8 -> Words]
<1>1. CASE colonp = NoColon
  <2>1. Shifted(w) = w /\ IsList(text) /\ w = ListWords(text)
    BY <1>1 DEF Shifted, ReadAs
  <2>2. Refused(w) <=> Len(w) # 8
    <3>1. Refused(w) <=> Len(w) > 8 \/ Len(w) # 8
      BY <1>1, <2>1, Zenon DEF Refused
    <3>2. PICK x \in Nat : x = Len(w)
      OBVIOUS
    <3>3. x > 8 => x # 8
      OBVIOUS
    <3>. QED BY <3>1, <3>2, <3>3
  <2>3. Len(w) = 8 => w \in [1 .. 8 -> Words]
    BY SeqIsFunction
  <2>. QED BY <2>1, <2>2, <2>3, ListMeans
<1>2. CASE colonp # NoColon
  <2>. DEFINE c == colonp
              d == Mark(c + 1)
              l == LeftOf(text, d)
              r == RightOf(text, d)
  <2>1. /\ GapAt(text, d) /\ Len(l) = c
        /\ l \in Seq(Words) /\ r \in Seq(Words) /\ IsConcat(w, l, r)
    BY <1>2 DEF ReadAs
  <2>2. c \in 0 .. 8
    BY <1>2 DEF NoColon
  <2>3. Gap(text, d) <=> Len(w) <= 7
    BY <2>1 DEF Gap, IsConcat
  <2>4. Shifted(w) = [i \in 1 .. 8 |-> IF i <= c THEN w[i]
                                       ELSE IF i > 8 - (Len(w) - c) THEN w[i - (8 - Len(w))]
                                       ELSE 0]
    BY <1>2 DEF Shifted
  <2>. HIDE DEF d
  <2>5. /\ Gap(text, d) => Meaning(text) = {Filled(l, r)}
        /\ ~Gap(text, d) => Meaning(text) = {}
    BY <2>1, GapMeans
  <2>. HIDE DEF l, r, c
  <2>6. Len(w) = c + Len(r) /\ Len(r) \in Nat /\ Len(w) \in Nat
    BY <2>1 DEF IsConcat
  <2>7. CASE Len(w) <= 7
    <3>1. /\ Filled(l, r) \in [1 .. 8 -> Words]
          /\ Filled(l, r) = [i \in 1 .. 8 |-> IF i <= Len(l) THEN l[i]
                                              ELSE IF i <= 8 - Len(r) THEN 0
                                              ELSE r[i - (8 - Len(r))]]
      <4>1. Len(l) + Len(r) <= 8
        BY <2>1, <2>6, <2>7
      <4>. QED BY <2>1, <4>1, FilledIs
    <3>2. ASSUME NEW i \in 1 .. 8
          PROVE  (IF i <= c THEN w[i]
                  ELSE IF i > 8 - (Len(w) - c) THEN w[i - (8 - Len(w))]
                  ELSE 0)
                 = IF i <= Len(l) THEN l[i]
                   ELSE IF i <= 8 - Len(r) THEN 0
                   ELSE r[i - (8 - Len(r))]
      <4>1. CASE i <= c
        <5>1. i \in 1 .. Len(l)
          BY <2>1, <2>2, <4>1
        <5>. QED BY <2>1, <4>1, <5>1 DEF IsConcat
      <4>2. CASE ~(i <= c) /\ i <= 8 - Len(r)
        <5>1. ~(i > 8 - (Len(w) - c))
          BY <2>2, <2>6, <4>2
        <5>. QED BY <2>1, <4>2, <5>1
      <4>3. CASE ~(i <= c) /\ ~(i <= 8 - Len(r))
        <5>1. i > 8 - (Len(w) - c)
          BY <2>2, <2>6, <4>3
        <5>2. PICK j \in 1 .. Len(r) : j = i - (8 - Len(r)) /\ i - (8 - Len(w)) = Len(l) + j
          <6>1. i - (8 - Len(r)) \in 1 .. Len(r)
                /\ i - (8 - Len(w)) = Len(l) + (i - (8 - Len(r)))
            BY <2>1, <2>2, <2>6, <4>3
          <6>. QED BY <6>1
        <5>3. w[Len(l) + j] = r[j]
          BY <2>1 DEF IsConcat
        <5>. QED BY <2>1, <4>3, <5>1, <5>2, <5>3
      <4>. QED BY <4>1, <4>2, <4>3
    <3>3. Shifted(w) = Filled(l, r)
      BY <2>4, <3>1, <3>2
    <3>4. Len(Shifted(w)) = 8
      BY <3>1, <3>3, FunctionIsSeq
    <3>5. ~Refused(w)
      BY <2>6, <2>7, <3>4 DEF Refused
    <3>. QED BY <2>3, <2>5, <2>7, <3>1, <3>3, <3>5
  <2>8. CASE ~(Len(w) <= 7)
    <3>1. Refused(w)
      BY <1>2, <2>6, <2>8 DEF Refused
    <3>. QED BY <2>3, <2>5, <2>8, <3>1
  <2>. QED BY <2>7, <2>8
<1>. QED BY <1>1, <1>2

\* The group before token p is the ninth, and p is not the last token.
NinthAt(s, w, c, m, p) ==
  /\ ReadTo(s, w, c, m)
  /\ p = From(c) + 2 * m + 1 /\ p < Len(s)
  /\ s[p - 1].kind = "hex"
  /\ Len(w) >= 8

LEMMA OddOrEven ==
  ASSUME NEW d \in Nat
  PROVE  (\E j \in Nat : d = 2 * j) \/ (\E j \in Nat : d = 2 * j + 1)
<1>1. CASE d % 2 = 0
  <2>1. d \div 2 \in Nat /\ d = 2 * (d \div 2)
    BY <1>1
  <2>. QED BY <2>1
<1>2. CASE d % 2 = 1
  <2>1. d \div 2 \in Nat /\ d = 2 * (d \div 2) + 1
    BY <1>2
  <2>. QED BY <2>1
<1>. QED BY <1>1, <1>2

LEMMA NotEight ==
  ASSUME NEW x \in Nat, NEW k \in Nat, k >= 9, x >= k
  PROVE  x # 8
OBVIOUS

LEMMA WordsAtLeast ==
  ASSUME NEW v, NEW s, NEW a, NEW z, NEW k, HasWords(v, s, a, z, k)
  PROVE  Len(v) \in Nat /\ k \in Nat /\ Len(v) >= k
<1>1. v \in Seq(Words) /\ k \in Nat /\ (Len(v) = k + 1 \/ Len(v) = k)
  BY DEF HasWords, Span
<1>. QED BY <1>1

\* A ninth group before a colon is one too many, whatever follows.
LEMMA TooManyMean ==
  ASSUME NEW s \in Seq(Tokens), NEW w \in Seq(Words), NEW c \in 0 .. 9, NEW m \in Nat,
         NEW p \in Nat, NinthAt(s, w, c, m, p)
  PROVE  Meaning(s) = {}
<1>. DEFINE n == Len(s)
<1>h. /\ ReadTo(s, w, c, m)
      /\ p = From(c) + 2 * m + 1 /\ p < n
      /\ s[p - 1].kind = "hex"
      /\ Len(w) >= 8
  BY DEF NinthAt
<1>0. m \in Nat /\ Len(w) = Base(c) + m /\ Base(c) \in Nat /\ n \in Nat /\ LeftRead(s, w, c)
  BY <1>h DEF ReadTo, Base, NoColon
<1>1. CASE c = NoColon
  <2>1. From(c) = 1 /\ m >= 8 /\ p = 2 * m + 2 /\ Stored(s, w, 1, 0, m)
    BY <1>0, <1>1, <1>h DEF From, Base, ReadTo
  <2>2. ASSUME NEW j \in 1 .. m + 1 PROVE s[2 * j - 1].kind = "hex"
    <3>1. CASE j \in 1 .. m
      <4>1. 1 + 2 * j - 2 = 2 * j - 1
        BY <3>1
      <4>2. s[1 + 2 * j - 2].kind = "hex"
        BY <2>1, <3>1 DEF Stored
      <4>. QED BY <4>1, <4>2
    <3>2. CASE j = m + 1
      <4>1. p - 1 = 2 * j - 1
        BY <1>0, <2>1, <3>2
      <4>. QED BY <1>h, <4>1
    <3>. QED BY <1>0, <3>1, <3>2
  <2>3. ASSUME IsList(s) PROVE Len(ListWords(s)) # 8
    <3>1. PICK k \in Nat : Span(s, 1, n, k)
      BY <2>3, ListIsSpan
    <3>2. n = IF k = 0 THEN 0 ELSE 2 * k - 1
      BY <3>1 DEF Span
    <3>3. HasWords(ListWords(SubSeq(s, 1, n)), s, 1, n, k)
      <4>1. 1 \in Nat /\ 1 <= 1 /\ 1 <= n + 1 /\ n <= Len(s)
        BY <1>0
      <4>. QED BY <1>0, <3>1, <4>1, ListWordsOfPart
    <3>4. SubSeq(s, 1, n) = s
      BY WholeIsPart
    <3>. HIDE DEF n
    <3>5. Len(ListWords(s)) \in Nat /\ Len(ListWords(s)) >= k
      <4>1. HasWords(ListWords(s), s, 1, n, k)
        BY <3>3, <3>4
      <4>. QED BY <4>1, WordsAtLeast
    <3>6. k >= 9
      BY <1>0, <1>h, <2>1, <3>2
    <3>. QED BY <3>5, <3>6, NotEight, Zenon
  <2>4. ASSUME NEW d, GapAt(s, d) PROVE Len(LeftOf(s, d)) + Len(RightOf(s, d)) > 7
    <3>1. /\ d \in Nat /\ d >= 1 /\ d + 1 <= n /\ s[d] = Colon /\ s[d + 1] = Colon
      BY <2>4, GapParts
    <3>2. PICK k \in Nat : Span(s, 1, d - 1, k) /\ HasWords(LeftOf(s, d), s, 1, d - 1, k)
      BY <2>4, GapParts
    <3>3. PICK i \in Nat : HasWords(RightOf(s, d), s, d + 2, Len(s), i)
      BY <2>4, GapParts
    <3>4. d > 2 * m + 1
      <4>. SUFFICES ASSUME d <= 2 * m + 1 PROVE FALSE
        BY <1>0, <3>1
      <4>1. ASSUME NEW j \in Nat, d = 2 * j + 1 PROVE FALSE
        <5>1. j + 1 \in 1 .. m + 1 /\ 2 * (j + 1) - 1 = d
          BY <1>0, <3>1, <4>1
        <5>2. s[2 * (j + 1) - 1].kind = "hex"
          BY <2>2, <5>1
        <5>. QED BY <3>1, <5>1, <5>2, GoodGroupIsNoColon
      <4>2. ASSUME NEW j \in Nat, d = 2 * j PROVE FALSE
        <5>1. j + 1 \in 1 .. m + 1 /\ 2 * (j + 1) - 1 = d + 1
          BY <1>0, <3>1, <4>2
        <5>2. s[2 * (j + 1) - 1].kind = "hex"
          BY <2>2, <5>1
        <5>. QED BY <3>1, <5>1, <5>2, GoodGroupIsNoColon
      <4>. QED BY <3>1, <4>1, <4>2, OddOrEven
    <3>5. d - 1 = IF k = 0 THEN 0 ELSE 2 * k - 1
      BY <3>2 DEF Span
    <3>6. k >= 9
      <4>1. m >= 8 /\ d \in Nat /\ d > 2 * m + 1
        BY <2>1, <3>1, <3>4
      <4>. QED BY <3>5, <4>1
    <3>7. Len(LeftOf(s, d)) \in Nat /\ Len(LeftOf(s, d)) >= k
      BY <3>2, WordsAtLeast
    <3>8. Len(RightOf(s, d)) \in Nat
      BY <3>3, WordsAtLeast
    <3>. QED BY <3>6, <3>7, <3>8
  <2>5. \A u : u \notin Meaning(s)
    <3>1. ~Whole(s)
      BY <2>3 DEF Whole
    <3>2. ASSUME NEW d PROVE ~Gap(s, d)
      <4>1. GapAt(s, d) => /\ Len(LeftOf(s, d)) + Len(RightOf(s, d)) > 7
                           /\ Len(LeftOf(s, d)) \in Nat /\ Len(RightOf(s, d)) \in Nat
        BY <2>4, GapParts, WordsAtLeast
      <4>. QED BY <4>1 DEF Gap
    <3>. QED BY <3>1, <3>2, MeaningIs
  <2>. QED BY <2>5
<1>2. CASE c # NoColon
  <2>. DEFINE d == Mark(c + 1)
  <2>1. c \in 0 .. 8 /\ Double(s, d)
    BY <1>0, <1>2 DEF LeftRead
  <2>2. From(c) = d + 2 /\ Base(c) = c
    BY <1>2 DEF From, Base
  <2>3. d \in Nat /\ (c = 0 => d = 1) /\ (c # 0 => d = 2 * c)
    BY <2>1, MarkIs
  <2>. HIDE DEF d
  <2>4. ASSUME GapAt(s, d) PROVE Len(LeftOf(s, d)) + Len(RightOf(s, d)) > 7
    <3>1. PICK k \in Nat : Span(s, 1, d - 1, k) /\ HasWords(LeftOf(s, d), s, 1, d - 1, k)
      BY <2>4, GapParts
    <3>2. PICK i \in Nat : /\ Span(s, d + 2, n, i)
                           /\ HasWords(RightOf(s, d), s, d + 2, n, i)
      BY <2>4, GapParts
    <3>3. d - 1 = IF k = 0 THEN 1 - 1 ELSE 1 + 2 * k - 2
      BY <3>1 DEF Span
    <3>4. n = IF i = 0 THEN (d + 2) - 1 ELSE d + 2 + 2 * i - 2
      BY <3>2 DEF Span
    <3>. HIDE DEF n
    <3>5. k = c
      BY <2>1, <2>3, <3>3
    <3>6. p < n /\ p = d + 2 + 2 * m + 1
      BY <1>h, <2>2
    <3>7. i >= m + 2
      BY <1>0, <2>3, <3>4, <3>6
    <3>8. Len(LeftOf(s, d)) \in Nat /\ Len(LeftOf(s, d)) >= k
      BY <3>1, WordsAtLeast
    <3>9. Len(RightOf(s, d)) \in Nat /\ Len(RightOf(s, d)) >= i
      BY <3>2, WordsAtLeast
    <3>10. c + m >= 8
      BY <1>0, <1>h, <2>2
    <3>. QED BY <1>0, <2>1, <3>5, <3>7, <3>8, <3>9, <3>10
  <2>5. ~IsList(s) /\ \A e : GapAt(s, e) => e = d
    BY <2>1, ListIsOrderly, GapIsOrderly
  <2>6. ASSUME NEW e PROVE ~Gap(s, e)
    <3>. SUFFICES ASSUME Gap(s, e) PROVE FALSE
      OBVIOUS
    <3>1. GapAt(s, d) /\ Len(LeftOf(s, d)) + Len(RightOf(s, d)) <= 7
      BY <2>5 DEF Gap
    <3>2. Len(LeftOf(s, d)) \in Nat /\ Len(RightOf(s, d)) \in Nat
      BY <3>1, GapParts, WordsAtLeast
    <3>. QED BY <2>4, <3>1, <3>2
  <2>7. \A u : u \notin Meaning(s)
    BY <2>5, <2>6, MeaningIs DEF Whole
  <2>. QED BY <2>7
<1>. QED BY <1>1, <1>2

-----------------------------------------------------------------------------
(* The invariant of the reader.                                            *)

TextOK ==
  /\ text \in Seq(Tokens)
  /\ Lexed(text)
  /\ origin # <<>> => origin \in [1 .. 8 -> Words] /\ text = Ntop6(origin)

WordsRead == IF saw_xdigit THEN Append(words, val) ELSE words

\* In a list of groups, before a group or behind its digits.
InList ==
  \E m \in Nat :
    /\ ReadTo(text, words, colonp, m)
    /\ IF saw_xdigit
       THEN /\ pos = From(colonp) + 2 * m + 1 /\ pos <= Len(text) + 1
            /\ text[pos - 1].kind = "hex" /\ text[pos - 1].val = val
       ELSE pos = From(colonp) + 2 * m /\ (m # 0 => pos <= Len(text))

\* At the second of two leading colons.
AtDouble ==
  /\ pos = 2 /\ words = <<>> /\ colonp = NoColon /\ saw_xdigit = FALSE
  /\ Double(text, 1)

Reader ==
  /\ result = "start" => pos = 1 /\ words = <<>> /\ colonp = NoColon /\ saw_xdigit = FALSE
  /\ result = "reading" => InList \/ AtDouble
  /\ result = "end" => ReadAs(text, WordsRead, colonp)
  /\ ReadsTheMeaning

IInv == TextOK /\ TypeOK /\ Reader

LEMMA ColonpIs ==
  ASSUME TypeOK
  PROVE  colonp \in 0 .. 9
BY DEF TypeOK, NoColon

\* What a token of a text can be.
LEMMA TokenAt ==
  ASSUME TextOK, NEW n \in 1 .. Len(text)
  PROVE  /\ text[n] \in Tokens
         /\ text[n].kind \in {"colon", "hex", "dotted", "other"}
         /\ text[n].kind = "colon" <=> text[n] = Colon
         /\ text[n].kind = "hex" => text[n].val \in Nat
         /\ text[n].kind = "dotted" => text[n].fields \in Seq(Fields)
<1>1. text[n] \in Tokens
  BY DEF TextOK
<1>. QED BY <1>1, TokenKinds

LEMMA InitIInv == Init => IInv
<1>. SUFFICES ASSUME Init PROVE IInv
  OBVIOUS
<1>1. TextOK
  <2>1. CASE text \in Texts /\ origin = <<>>
    BY <2>1, TextsAssumption DEF TextOK
  <2>2. CASE origin \in Addresses /\ text = Ntop6(origin)
    <3>1. origin \in [1 .. 8 -> Words]
      BY <2>2, TextsAssumption
    <3>. QED BY <2>2, <3>1, Ntop6IsText DEF TextOK
  <2>3. CASE \E fs \in Texts4 : text = <<Dotted(fs)>> /\ origin = <<>>
    <3>1. PICK fs \in Texts4 : text = <<Dotted(fs)>> /\ origin = <<>>
      BY <2>3
    <3>2. fs \in Seq(Fields)
      BY TextsAssumption DEF Fields
    <3>3. Dotted(fs) \in Tokens
      BY <3>2, TokensTyped
    <3>4. text \in Seq(Tokens) /\ Len(text) = 1
      BY <3>1, <3>3
    <3>5. Lexed(text)
      BY <3>4 DEF Lexed
    <3>. QED BY <3>1, <3>4, <3>5 DEF TextOK
  <2>. QED BY <2>1, <2>2, <2>3 DEF Init
<1>2. TypeOK
  <2>1. /\ pos = 1 /\ words = <<>> /\ colonp = NoColon /\ saw_xdigit = FALSE
        /\ val = 0 /\ result = "start" /\ dst = <<>>
    BY Zenon DEF Init
  <2>2. <<>> \in Seq(Words) /\ Len(<<>>) <= 8
    OBVIOUS
  <2>3. 0 \in Words
    BY WordIs
  <2>4. 1 \in Nat \ {0}
    OBVIOUS
  <2>5. NoColon \in 0 .. 8 \cup {NoColon}
    OBVIOUS
  <2>. QED BY <2>1, <2>2, <2>3, <2>4, <2>5, Zenon DEF TypeOK
<1>3. Reader
  BY DEF Init, Reader, ReadsTheMeaning
<1>. QED BY <1>1, <1>2, <1>3 DEF IInv

\* A step that returns 0 may do so where the text means nothing.
LEMMA ReturnsZero ==
  ASSUME IInv, Return0, Meaning(text) = {}
  PROVE  IInv'
<1>1. TextOK' /\ TypeOK'
  BY DEF IInv, TextOK, TypeOK, Return0
<1>2. Reader'
  BY DEF Return0, Reader, ReadsTheMeaning
<1>. QED BY <1>1, <1>2 DEF IInv

LEMMA StartStep ==
  ASSUME IInv, Start
  PROVE  IInv'
<1>0. /\ result = "start" /\ pos = 1 /\ words = <<>> /\ colonp = NoColon
      /\ saw_xdigit = FALSE /\ text \in Seq(Tokens) /\ Len(text) \in Nat
  BY DEF Start, IInv, Reader, TextOK
<1>1. CASE Len(text) >= 1 /\ text[1] = Colon /\ ~(Len(text) >= 2 /\ text[2] = Colon)
  <2>1. Return0
    BY <1>1 DEF Start
  <2>2. ~Orderly(text)
    <3>1. ~Double(text, 1)
      BY <1>0, <1>1 DEF Double
    <3>. QED BY <1>1, <3>1 DEF Orderly
  <2>. QED BY <1>0, <2>1, <2>2, DisorderMeans, ReturnsZero
<1>2. CASE Len(text) >= 1 /\ text[1] = Colon /\ Len(text) >= 2 /\ text[2] = Colon
  <2>1. /\ pos' = 2 /\ result' = "reading"
        /\ UNCHANGED <<text, origin, words, colonp, saw_xdigit, val, dst>>
    BY <1>2 DEF Start
  <2>2. TextOK' /\ TypeOK'
    BY <2>1 DEF IInv, TextOK, TypeOK
  <2>3. AtDouble'
    <3>1. Double(text, 1)
      BY <1>0, <1>2 DEF Double
    <3>. QED BY <1>0, <2>1, <3>1 DEF AtDouble
  <2>. QED BY <2>1, <2>2, <2>3 DEF IInv, Reader, ReadsTheMeaning
<1>3. CASE ~(Len(text) >= 1 /\ text[1] = Colon)
  <2>1. /\ result' = "reading"
        /\ UNCHANGED <<text, origin, pos, words, colonp, saw_xdigit, val, dst>>
    BY <1>3 DEF Start
  <2>2. TextOK' /\ TypeOK'
    BY <2>1 DEF IInv, TextOK, TypeOK
  <2>3. InList
    <3>1. From(colonp) = 1 /\ Base(colonp) = 0
      BY <1>0 DEF From, Base
    <3>2. Len(words) = 0 + 0 /\ 1 .. 0 = {} /\ 1 + 2 * 0 <= Len(text) + 1 /\ pos = 1 + 2 * 0
      BY <1>0
    <3>3. ReadTo(text, words, colonp, 0)
      BY <1>0, <1>3, <3>1, <3>2 DEF ReadTo, Stored, LeftRead
    <3>4. 0 \in Nat /\ ~saw_xdigit
      BY <1>0
    <3>. QED BY <3>1, <3>2, <3>3, <3>4 DEF InList
  <2>4. InList'
    BY <2>1, <2>3 DEF InList
  <2>. QED BY <2>1, <2>2, <2>4 DEF IInv, Reader, ReadsTheMeaning
<1>. QED BY <1>1, <1>2, <1>3

\* Where the reader is at a token that is no colon.
LEMMA AtGroup ==
  ASSUME IInv, result = "reading", pos <= Len(text), text[pos] # Colon
  PROVE  /\ InList /\ pos \in 1 .. Len(text)
         /\ saw_xdigit => text[pos].kind = "other"
<1>1. pos \in 1 .. Len(text) /\ text \in Seq(Tokens) /\ Len(text) \in Nat
  BY DEF IInv, TextOK, TypeOK
<1>2. ~AtDouble
  <2>1. AtDouble => text[1 + 1] = Colon /\ pos = 2
    BY DEF AtDouble, Double
  <2>. QED BY <2>1
<1>3. InList
  BY <1>2 DEF IInv, Reader
<1>4. ASSUME saw_xdigit PROVE text[pos].kind = "other"
  <2>1. PICK m \in Nat : text[pos - 1].kind = "hex" /\ pos = From(colonp) + 2 * m + 1
                         /\ ReadTo(text, words, colonp, m)
    BY <1>3, <1>4 DEF InList
  <2>2. From(colonp) \in Nat /\ From(colonp) >= 1
    <3>1. CASE colonp = NoColon
      BY <3>1 DEF From
    <3>2. CASE colonp # NoColon
      <4>1. colonp \in 0 .. 8
        BY <3>2 DEF IInv, TypeOK
      <4>2. Mark(colonp + 1) \in Nat /\ Mark(colonp + 1) >= 1
        BY <4>1, MarkIs
      <4>. QED BY <3>2, <4>2 DEF From
    <3>. QED BY <3>1, <3>2
  <2>3. pos - 1 \in 1 .. Len(text) - 1 /\ (pos - 1) + 1 = pos
    <3>1. PICK f \in Nat : f = From(colonp)
      BY <2>2
    <3>2. PICK n \in Nat : n = Len(text)
      BY <1>1
    <3>3. pos \in 1 .. n /\ pos = f + 2 * m + 1 /\ f >= 1
      BY <1>1, <2>1, <2>2, <3>1, <3>2, Zenon
    <3>4. pos - 1 \in 1 .. n - 1 /\ (pos - 1) + 1 = pos
      BY <3>3
    <3>. QED BY <3>2, <3>4
  <2>4. text[(pos - 1) + 1].kind \in {"colon", "other"}
    BY <2>1, <2>3 DEF IInv, TextOK, Lexed
  <2>5. text[pos].kind = "colon" <=> text[pos] = Colon
    BY <1>1, TokenAt DEF IInv
  <2>. QED BY <2>3, <2>4, <2>5
<1>. QED BY <1>1, <1>3, <1>4

LEMMA FromIs ==
  ASSUME NEW c \in 0 .. 9
  PROVE  From(c) \in Nat /\ From(c) >= 1
<1>1. CASE c = NoColon
  BY <1>1 DEF From
<1>2. CASE c # NoColon
  <2>1. c \in 0 .. 8
    BY <1>2 DEF NoColon
  <2>2. Mark(c + 1) \in Nat /\ Mark(c + 1) >= 1
    BY <2>1, MarkIs
  <2>. QED BY <1>2, <2>2 DEF From
<1>. QED BY <1>1, <1>2

\* Nor where the text has a token or an end that no address has.
LEMMA ReturnsZeroInDisorder ==
  ASSUME IInv, Return0, ~Orderly(text)
  PROVE  IInv'
<1>1. Meaning(text) = {}
  BY DisorderMeans DEF IInv, TextOK
<1>. QED BY <1>1, ReturnsZero

LEMMA ReadDigitsStep ==
  ASSUME IInv, ReadDigits
  PROVE  IInv'
<1>0. /\ result = "reading" /\ pos <= Len(text) /\ text[pos].kind = "hex"
      /\ TextOK /\ TypeOK
  BY DEF ReadDigits, At, IInv
<1>1. text[pos] # Colon
  BY <1>0 DEF Colon
<1>2. InList /\ pos \in 1 .. Len(text) /\ ~saw_xdigit
  BY <1>0, <1>1, AtGroup
<1>3. CASE text[pos].val > 65535
  <2>1. Return0
    BY <1>3 DEF ReadDigits
  <2>2. text[pos].val \notin Words
    BY <1>0, <1>2, <1>3, TokenAt, WordIs
  <2>3. ~GoodGroup(text[pos])
    BY <1>0, <2>2 DEF GoodGroup, IsGroup
  <2>4. ~Orderly(text)
    BY <1>1, <1>2, <2>3 DEF Orderly
  <2>. QED BY <2>1, <2>4, ReturnsZeroInDisorder
<1>4. CASE ~(text[pos].val > 65535)
  <2>1. /\ val' = text[pos].val /\ saw_xdigit' = TRUE /\ pos' = pos + 1
        /\ UNCHANGED <<text, origin, words, colonp, result, dst>>
    BY <1>4 DEF ReadDigits
  <2>2. TextOK'
    BY <1>0, <2>1 DEF TextOK
  <2>3. text[pos].val \in Words
    <3>1. text[pos].val \in Nat
      BY <1>0, <1>2, TokenAt
    <3>2. text[pos].val <= 65535
      BY <1>4, <3>1
    <3>. QED BY <3>1, <3>2, WordIs
  <2>4. TypeOK'
    <3>1. pos + 1 \in Nat \ {0}
      BY <1>0 DEF TypeOK
    <3>. QED BY <1>0, <2>1, <2>3, <3>1 DEF TypeOK
  <2>5. PICK m \in Nat : ReadTo(text, words, colonp, m) /\ pos = From(colonp) + 2 * m
    BY <1>2 DEF InList
  <2>6. /\ pos + 1 = From(colonp) + 2 * m + 1 /\ pos + 1 <= Len(text) + 1
        /\ (pos + 1) - 1 = pos
    <3>1. colonp \in 0 .. 9 /\ pos \in Nat /\ Len(text) \in Nat
      BY <1>0, ColonpIs DEF TypeOK, TextOK
    <3>2. PICK f \in Nat : f = From(colonp)
      BY <3>1, FromIs
    <3>. QED BY <1>0, <2>5, <3>1, <3>2
  <2>7. InList'
    BY <1>0, <2>1, <2>5, <2>6 DEF InList
  <2>. QED BY <1>0, <2>1, <2>2, <2>4, <2>7 DEF IInv, Reader, ReadsTheMeaning
<1>. QED BY <1>3, <1>4

\* Behind the double colon nothing has been read yet.
LEMMA AfterDouble ==
  ASSUME NEW s \in Seq(Tokens), NEW w \in Seq(Words), NEW c \in 0 .. 8, Len(w) = c,
         Stored(s, w, 1, 0, c), Double(s, Mark(c + 1))
  PROVE  ReadTo(s, w, c, 0) /\ From(c) = Mark(c + 1) + 2
<1>1. c # NoColon
  BY DEF NoColon
<1>2. From(c) = Mark(c + 1) + 2 /\ Base(c) = c
  BY <1>1, Zenon DEF From, Base
<1>3. PICK d \in Nat : d = Mark(c + 1)
  BY MarkIs
<1>4. d + 2 <= Len(s) + 1
  <2>1. d \in 1 .. Len(s) - 1
    BY <1>3 DEF Double
  <2>. QED BY <2>1
<1>5. Stored(s, w, From(c), Base(c), 0)
  BY DEF Stored
<1>6. LeftRead(s, w, c)
  BY DEF LeftRead
<1>7. c + 0 = c /\ From(c) + 2 * 0 = d + 2 /\ 0 \in Nat
  BY <1>2, <1>3
<1>. QED BY <1>1, <1>2, <1>4, <1>5, <1>6, <1>7 DEF ReadTo

LEMMA ReadDoubleColonStep ==
  ASSUME IInv, ReadDoubleColon
  PROVE  IInv'
<1>0. /\ result = "reading" /\ pos <= Len(text) /\ text[pos].kind = "colon"
      /\ ~saw_xdigit /\ TextOK /\ TypeOK
  BY DEF ReadDoubleColon, At, IInv
<1>1. /\ text \in Seq(Tokens) /\ Len(text) \in Nat /\ pos \in 1 .. Len(text)
      /\ words \in Seq(Words) /\ colonp \in 0 .. 9
  BY <1>0, ColonpIs DEF TextOK, TypeOK
<1>2. text[pos] = Colon
  BY <1>0, <1>1, TokenAt
<1>3. InList \/ AtDouble
  BY <1>0 DEF IInv, Reader
<1>4. CASE colonp # NoColon
  <2>1. Return0
    BY <1>4 DEF ReadDoubleColon
  <2>2. PICK m \in Nat : ReadTo(text, words, colonp, m) /\ pos = From(colonp) + 2 * m
    BY <1>0, <1>3, <1>4 DEF InList, AtDouble
  <2>. DEFINE d == Mark(colonp + 1)
  <2>3. Double(text, d) /\ From(colonp) = d + 2 /\ colonp \in 0 .. 8
    BY <1>4, <2>2 DEF ReadTo, LeftRead, From
  <2>4. d \in Nat
    BY <2>3, MarkIs
  <2>5. m # 0 => text[From(colonp) + 2 * m - 1] = Colon
    <3>1. m # 0 => m \in 1 .. m
      OBVIOUS
    <3>. QED BY <2>2, <3>1, Zenon DEF ReadTo, Stored
  <2>. HIDE DEF d
  <2>6. pos = d + 2 + 2 * m /\ pos - 1 # d /\ pos - 1 \in 1 .. Len(text) - 1 /\ (pos - 1) + 1 = pos
    <3>1. pos = d + 2 + 2 * m
      BY <2>2, <2>3
    <3>. QED BY <1>1, <2>4, <3>1
  <2>7. text[pos - 1] = Colon
    <3>1. CASE m = 0
      <4>1. pos - 1 = d + 1
        BY <2>4, <2>6, <3>1
      <4>. QED BY <2>3, <4>1 DEF Double
    <3>2. CASE m # 0
      <4>1. PICK x \in Nat : x = 2 * m
        OBVIOUS
      <4>2. pos - 1 = From(colonp) + x - 1
        <5>1. PICK f \in Nat : f = From(colonp)
          BY <1>1, FromIs
        <5>2. pos = f + x
          BY <2>2, <4>1, <5>1
        <5>. QED BY <5>1, <5>2
      <4>. QED BY <2>5, <3>2, <4>1, <4>2
    <3>. QED BY <3>1, <3>2
  <2>8. Double(text, pos - 1)
    BY <1>2, <2>6, <2>7 DEF Double
  <2>9. Meaning(text) = {}
    BY <1>1, <2>3, <2>6, <2>8, TwoDoublesMean
  <2>. QED BY <2>1, <2>9, ReturnsZero
<1>5. CASE colonp = NoColon
  <2>1. /\ colonp' = Len(words) /\ pos' = pos + 1
        /\ UNCHANGED <<text, origin, words, saw_xdigit, val, result, dst>>
    BY <1>5 DEF ReadDoubleColon
  <2>2. TextOK'
    BY <1>0, <2>1 DEF TextOK
  <2>. DEFINE c == Len(words)
  <2>3. c \in 0 .. 8
    <3>1. c \in Nat /\ c <= 8
      <4>1. c <= 8
        BY <1>0 DEF TypeOK
      <4>2. c \in Nat
        BY <1>1
      <4>. QED BY <4>1, <4>2
    <3>. HIDE DEF c
    <3>. QED BY <3>1
  <2>4. TypeOK'
    <3>1. pos + 1 \in Nat \ {0} /\ c <= Len(words)
      BY <1>1, <2>3
    <3>2. c \in 0 .. 8 \cup {NoColon}
      BY <2>3
    <3>. QED BY <1>0, <2>1, <3>1, <3>2 DEF TypeOK
  <2>5. /\ Stored(text, words, 1, 0, c) /\ Double(text, Mark(c + 1))
        /\ pos + 1 = Mark(c + 1) + 2
    <3>1. CASE AtDouble
      <4>1. c = 0 /\ pos = 2 /\ Double(text, 1)
        BY <3>1 DEF AtDouble
      <4>2. Mark(c + 1) = 1 /\ pos + 1 = 1 + 2
        BY <2>3, <4>1, MarkIs
      <4>3. Stored(text, words, 1, 0, 0)
        BY DEF Stored
      <4>. QED BY <4>1, <4>2, <4>3
    <3>2. CASE InList
      <4>1. PICK m \in Nat : ReadTo(text, words, colonp, m) /\ pos = From(colonp) + 2 * m
        BY <1>0, <3>2 DEF InList
      <4>2. From(colonp) = 1 /\ Base(colonp) = 0
        BY <1>5 DEF From, Base
      <4>3. c = m /\ pos = 1 + 2 * m /\ Stored(text, words, 1, 0, m)
        <5>1. c = 0 + m
          BY <4>1, <4>2 DEF ReadTo
        <5>. QED BY <4>1, <4>2, <5>1 DEF ReadTo
      <4>4. m # 0
        <5>1. Len(text) >= 1
          BY <1>1
        <5>2. text[1] # Colon
          BY <1>5, <4>1, <5>1 DEF ReadTo
        <5>3. m = 0 => pos = 1
          BY <4>3
        <5>. QED BY <1>2, <5>2, <5>3
      <4>5. Mark(c + 1) = 2 * m
        BY <2>3, <4>3, <4>4, MarkIs
      <4>6. text[2 * m] = Colon
        <5>1. m \in 1 .. m /\ 1 + 2 * m - 1 = 2 * m
          BY <4>4
        <5>. QED BY <4>3, <5>1 DEF Stored
      <4>7. 2 * m \in 1 .. Len(text) - 1 /\ 2 * m + 1 = pos /\ pos + 1 = 2 * m + 2
        BY <1>1, <4>3, <4>4
      <4>8. Double(text, 2 * m)
        BY <1>2, <4>6, <4>7 DEF Double
      <4>. QED BY <4>3, <4>5, <4>7, <4>8
    <3>. QED BY <1>3, <3>1, <3>2
  <2>. HIDE DEF c
  <2>6. ReadTo(text, words, c, 0) /\ pos + 1 = From(c) + 2 * 0
    <3>1. ReadTo(text, words, c, 0) /\ From(c) = Mark(c + 1) + 2
      BY <1>1, <2>3, <2>5, AfterDouble DEF c
    <3>2. Mark(c + 1) \in Nat
      BY <2>3, MarkIs
    <3>. QED BY <2>5, <3>1, <3>2
  <2>7. InList'
    <3>1. colonp' = c
      BY <2>1 DEF c
    <3>2. 0 \in Nat /\ ~saw_xdigit'
      BY <1>0, <2>1
    <3>. QED BY <2>1, <2>6, <3>1, <3>2 DEF InList
  <2>. QED BY <1>0, <2>1, <2>2, <2>4, <2>7 DEF IInv, Reader, ReadsTheMeaning
<1>. QED BY <1>4, <1>5

\* A word read stays where it is when another is stored.
LEMMA StoredStays ==
  ASSUME NEW s, NEW w \in Seq(Words), NEW v \in Words, NEW a, NEW base \in Nat, NEW m \in Nat,
         base + m <= Len(w), Stored(s, w, a, base, m)
  PROVE  Stored(s, Append(w, v), a, base, m)
<1>1. ASSUME NEW j \in 1 .. m PROVE Append(w, v)[base + j] = w[base + j]
  <2>1. base + j \in 1 .. Len(w)
    OBVIOUS
  <2>. QED BY <2>1
<1>. QED BY <1>1, Zenon DEF Stored

\* Behind a group of value v, token p is its colon.
ColonAt(s, w, c, m, v, p) ==
  /\ ReadTo(s, w, c, m)
  /\ p = From(c) + 2 * m + 1
  /\ s[p - 1].kind = "hex" /\ s[p - 1].val = v /\ s[p] = Colon

LEMMA ReadOneMore ==
  ASSUME NEW s \in Seq(Tokens), NEW w \in Seq(Words), NEW c \in 0 .. 9, NEW m \in Nat,
         NEW v \in Words, NEW p \in 1 .. Len(s), ColonAt(s, w, c, m, v, p)
  PROVE  ReadTo(s, Append(w, v), c, m + 1) /\ p + 1 = From(c) + 2 * (m + 1)
<1>1. PICK f \in Nat : f = From(c)
  BY FromIs
<1>a. ReadTo(s, w, c, m) /\ s[p - 1].kind = "hex" /\ s[p - 1].val = v /\ s[p] = Colon
  BY Zenon DEF ColonAt
<1>b. Base(c) \in Nat
  BY DEF Base, NoColon
<1>2. Len(w) = Base(c) + m /\ Stored(s, w, f, Base(c), m) /\ LeftRead(s, w, c)
  BY <1>a, <1>1, Zenon DEF ReadTo
<1>3. PICK b \in Nat : b = Base(c)
  BY <1>b
<1>4. p \in Nat /\ p = f + 2 * m + 1 /\ p <= Len(s) /\ Len(s) \in Nat
  <2>1. p = f + 2 * m + 1
    BY <1>1, Zenon DEF ColonAt
  <2>. QED BY <2>1
<1>5. p + 1 = f + 2 * (m + 1) /\ f + 2 * (m + 1) <= Len(s) + 1
  BY <1>4
<1>6. Stored(s, Append(w, v), f, b, m)
  BY <1>2, <1>3, StoredStays
<1>7. Stored(s, Append(w, v), f, b, m + 1)
  <2>1. ASSUME NEW j \in 1 .. m + 1, j # m + 1
        PROVE  /\ s[f + 2 * j - 2].kind = "hex"
               /\ s[f + 2 * j - 2].val = Append(w, v)[b + j]
               /\ s[f + 2 * j - 1] = Colon
    <3>1. j \in 1 .. m
      BY <2>1
    <3>. QED BY <1>6, <3>1, Zenon DEF Stored
  <2>2. f + 2 * (m + 1) - 2 = p - 1 /\ f + 2 * (m + 1) - 1 = p
    BY <1>4
  <2>3. Append(w, v)[b + (m + 1)] = v
    <3>1. b + (m + 1) = Len(w) + 1
      BY <1>2, <1>3
    <3>. QED BY <3>1
  <2>4. /\ s[f + 2 * (m + 1) - 2].kind = "hex"
        /\ s[f + 2 * (m + 1) - 2].val = Append(w, v)[b + (m + 1)]
        /\ s[f + 2 * (m + 1) - 1] = Colon
    BY <1>a, <2>2, <2>3, Zenon
  <2>. QED BY <2>1, <2>4, Zenon DEF Stored
<1>8. Len(Append(w, v)) = b + (m + 1) /\ m + 1 \in Nat
  <2>1. Len(w) = b + m
    BY <1>2, <1>3, Zenon
  <2>2. Len(Append(w, v)) = Len(w) + 1
    OBVIOUS
  <2>. QED BY <2>1, <2>2
<1>9. LeftRead(s, Append(w, v), c)
  <2>. SUFFICES ASSUME c # NoColon PROVE LeftRead(s, Append(w, v), c)
    BY DEF LeftRead
  <2>1. c \in 0 .. 8 /\ c <= Len(w) /\ Stored(s, w, 1, 0, c) /\ Double(s, Mark(c + 1))
    BY <1>2 DEF LeftRead
  <2>2. 0 \in Nat /\ c \in Nat /\ 0 + c <= Len(w)
    <3>1. c \in Nat /\ c <= Len(w)
      BY <2>1
    <3>. QED BY <3>1
  <2>3. Stored(s, Append(w, v), 1, 0, c)
    BY <2>1, <2>2, StoredStays
  <2>4. c <= Len(Append(w, v))
    BY <2>1
  <2>. QED BY <2>1, <2>3, <2>4 DEF LeftRead
<1>10. c = NoColon /\ Len(s) >= 1 => s[1] # Colon
  BY <1>a, Zenon DEF ReadTo
<1>. QED BY <1>1, <1>3, <1>5, <1>7, <1>8, <1>9, <1>10, Zenon DEF ReadTo

LEMMA ReadColonStep ==
  ASSUME IInv, ReadColon
  PROVE  IInv'
<1>0. /\ result = "reading" /\ pos <= Len(text) /\ text[pos].kind = "colon"
      /\ saw_xdigit /\ TextOK /\ TypeOK
  BY DEF ReadColon, At, IInv
<1>1. /\ text \in Seq(Tokens) /\ Len(text) \in Nat /\ pos \in 1 .. Len(text)
      /\ words \in Seq(Words) /\ colonp \in 0 .. 9 /\ val \in Words
  BY <1>0, ColonpIs DEF TextOK, TypeOK
<1>2. text[pos] = Colon
  BY <1>0, <1>1, TokenAt
<1>3. InList
  BY <1>0 DEF IInv, Reader, AtDouble
<1>4. PICK m \in Nat : /\ ReadTo(text, words, colonp, m)
                       /\ pos = From(colonp) + 2 * m + 1
                       /\ text[pos - 1].kind = "hex" /\ text[pos - 1].val = val
  BY <1>0, <1>3 DEF InList
<1>5. CASE pos = Len(text)
  <2>1. Return0
    BY <1>5 DEF ReadColon
  <2>2. Len(text) >= 1 /\ text[Len(text)] = Colon
    BY <1>1, <1>2, <1>5
  <2>3. ~Double(text, Len(text) - 1)
    <3>1. text[pos - 1] # Colon
      BY <1>4 DEF Colon
    <3>. QED BY <1>5, <3>1 DEF Double
  <2>4. ~Orderly(text)
    BY <2>2, <2>3 DEF Orderly
  <2>. QED BY <2>1, <2>4, ReturnsZeroInDisorder
<1>6. CASE pos # Len(text) /\ Len(words) + 1 > 8
  <2>1. Return0
    BY <1>6 DEF ReadColon
  <2>2. pos < Len(text) /\ Len(words) >= 8
    BY <1>1, <1>6
  <2>3. NinthAt(text, words, colonp, m, pos)
    BY <1>4, <2>2, Zenon DEF NinthAt
  <2>4. Meaning(text) = {}
    BY <1>1, <2>3, TooManyMean
  <2>. QED BY <2>1, <2>4, ReturnsZero
<1>7. CASE pos # Len(text) /\ ~(Len(words) + 1 > 8)
  <2>1. /\ words' = Append(words, val) /\ saw_xdigit' = FALSE /\ val' = 0 /\ pos' = pos + 1
        /\ UNCHANGED <<text, origin, colonp, result, dst>>
    BY <1>7 DEF ReadColon
  <2>2. TextOK'
    BY <1>0, <2>1 DEF TextOK
  <2>3. TypeOK'
    <3>1. pos + 1 \in Nat \ {0}
      BY <1>1
    <3>2. Append(words, val) \in Seq(Words) /\ Len(Append(words, val)) = Len(words) + 1
      BY <1>1
    <3>3. Len(words) + 1 <= 8
      BY <1>1, <1>7
    <3>4. colonp # NoColon => colonp <= Len(words) + 1
      BY <1>0, <1>1 DEF TypeOK
    <3>5. 0 \in Words
      BY WordIs
    <3>. QED BY <1>0, <2>1, <3>1, <3>2, <3>3, <3>4, <3>5 DEF TypeOK
  <2>4. ReadTo(text, Append(words, val), colonp, m + 1) /\ pos + 1 = From(colonp) + 2 * (m + 1)
    <3>1. ColonAt(text, words, colonp, m, val, pos)
      BY <1>2, <1>4, Zenon DEF ColonAt
    <3>. QED BY <1>1, <3>1, ReadOneMore
  <2>5. InList'
    <3>1. pos + 1 <= Len(text) /\ m + 1 \in Nat
      BY <1>1, <1>7
    <3>. QED BY <2>1, <2>4, <3>1 DEF InList
  <2>. QED BY <1>0, <2>1, <2>2, <2>3, <2>5 DEF IInv, Reader, ReadsTheMeaning
<1>. QED BY <1>5, <1>6, <1>7

LEMMA GrownByHex ==
  ASSUME NEW w \in Seq(Words), NEW t, t.kind = "hex", t.val \in Words
  PROVE  Grown(Append(w, t.val), w, t)
<1>1. PICK v \in Words : v = t.val
  OBVIOUS
<1>2. /\ Append(w, v) \in Seq(Words) /\ Len(Append(w, v)) = Len(w) + 1
      /\ Append(w, v)[Len(w) + 1] = v
  OBVIOUS
<1>3. \A j \in 1 .. Len(w) : Append(w, v)[j] = w[j]
  OBVIOUS
<1>4. ~(t.kind = "dotted")
  OBVIOUS
<1>. QED BY <1>1, <1>2, <1>3, <1>4, Zenon DEF Grown

LEMMA GrownByDotted ==
  ASSUME NEW w \in Seq(Words), NEW t, t.kind = "dotted", t.fields \in Seq(Fields),
         Pton4Reads(t.fields)
  PROVE  /\ Grown(w \o WordsOf4(t.fields), w, t)
         /\ Len(w \o WordsOf4(t.fields)) = Len(w) + 2
<1>1. PICK v \in Seq(Words) : v = WordsOf4(t.fields) /\ Len(v) = 2
  BY DottedWords
<1>2. w \o v \in Seq(Words) /\ Len(w \o v) = Len(w) + 2
  <2>1. Len(w \o v) = Len(w) + Len(v)
    OBVIOUS
  <2>. QED BY <1>1, <2>1
<1>3. \A j \in 1 .. Len(w) : (w \o v)[j] = w[j]
  OBVIOUS
<1>4. (w \o v)[Len(w) + 1] = v[1] /\ (w \o v)[Len(w) + 2] = v[2]
  BY <1>1
<1>5. ~(t.kind = "hex")
  OBVIOUS
<1>. QED BY <1>1, <1>2, <1>3, <1>4, <1>5, Zenon DEF Grown

LEMMA ReadDottedStep ==
  ASSUME IInv, ReadDotted
  PROVE  IInv'
<1>0. /\ result = "reading" /\ pos <= Len(text) /\ text[pos].kind = "dotted"
      /\ TextOK /\ TypeOK
  BY DEF ReadDotted, At, IInv
<1>1. text[pos] # Colon
  BY <1>0 DEF Colon
<1>2. InList /\ pos \in 1 .. Len(text) /\ ~saw_xdigit
  BY <1>0, <1>1, AtGroup
<1>3. /\ text \in Seq(Tokens) /\ Len(text) \in Nat
      /\ words \in Seq(Words) /\ colonp \in 0 .. 9
  BY <1>0, ColonpIs DEF TextOK, TypeOK
<1>. DEFINE fs == text[pos].fields
            w == words \o WordsOf4(fs)
<1>4. fs \in Seq(Fields)
  BY <1>0, <1>2, TokenAt
<1>5. CASE pos # Len(text)
  <2>1. Return0
    BY <1>5 DEF ReadDotted
  <2>2. ~Orderly(text)
    BY <1>0, <1>2, <1>5, Zenon DEF Orderly
  <2>. QED BY <2>1, <2>2, ReturnsZeroInDisorder
<1>6. CASE ~Pton4Reads(fs)
  <2>1. Return0
    BY <1>6 DEF ReadDotted
  <2>2. ~GoodGroup(text[pos])
    BY <1>0, <1>6, Zenon DEF GoodGroup
  <2>3. ~Orderly(text)
    BY <1>1, <1>2, <2>2, Zenon DEF Orderly
  <2>. QED BY <2>1, <2>3, ReturnsZeroInDisorder
<1>7. CASE pos = Len(text) /\ Pton4Reads(fs)
  <2>1. PICK m : m \in Nat /\ ReadTo(text, words, colonp, m) /\ pos = From(colonp) + 2 * m
    BY <1>2 DEF InList
  <2>2. GoodGroup(text[pos])
    BY <1>0, <1>7 DEF GoodGroup, IsGroup
  <2>3. Grown(w, words, text[pos]) /\ Len(w) = Len(words) + 2
    BY <1>0, <1>3, <1>4, <1>7, GrownByDotted
  <2>4. w \in Seq(Words)
    BY <2>3, Zenon DEF Grown
  <2>. HIDE DEF w, fs
  <2>5. ReadAs(text, w, colonp)
    BY <1>3, <1>7, <2>1, <2>2, <2>3, EndsInGroup
  <2>6. CASE Len(words) + 2 <= 8
    <3>1. /\ words' = w /\ saw_xdigit' = FALSE /\ result' = "end"
          /\ UNCHANGED <<text, origin, pos, colonp, val, dst>>
      BY <1>7, <2>6 DEF ReadDotted, w, fs
    <3>2. TextOK'
      BY <1>0, <3>1 DEF TextOK
    <3>3. TypeOK'
      <4>1. Len(words) \in Nat /\ Len(w) <= 8
        BY <1>3, <2>3, <2>6
      <4>2. colonp # NoColon => colonp <= Len(w)
        BY <1>0, <1>3, <2>3, <4>1 DEF TypeOK
      <4>. QED BY <1>0, <2>4, <3>1, <4>1, <4>2 DEF TypeOK
    <3>4. WordsRead' = w
      BY <3>1 DEF WordsRead
    <3>5. ReadAs(text', WordsRead', colonp')
      BY <2>5, <3>1, <3>4, Zenon
    <3>. QED BY <3>1, <3>2, <3>3, <3>5 DEF IInv, Reader, ReadsTheMeaning
  <2>7. CASE ~(Len(words) + 2 <= 8)
    <3>1. Return0
      BY <2>7 DEF ReadDotted
    <3>2. Len(w) > 8
      BY <1>3, <2>3, <2>7
    <3>3. Refused(w)
      BY <3>2 DEF Refused
    <3>4. Meaning(text) = {}
      BY <1>3, <2>4, <2>5, <3>3, ReadAsMeans
    <3>. QED BY <3>1, <3>4, ReturnsZero
  <2>. QED BY <2>6, <2>7
<1>. QED BY <1>5, <1>6, <1>7

LEMMA ReadOtherStep ==
  ASSUME IInv, ReadOther
  PROVE  IInv'
<1>0. /\ Return0 /\ pos <= Len(text) /\ text[pos].kind = "other" /\ TypeOK /\ TextOK
  BY DEF ReadOther, At, IInv
<1>1. pos \in 1 .. Len(text)
  BY <1>0 DEF TypeOK, TextOK
<1>2. text[pos] # Colon /\ ~GoodGroup(text[pos])
  BY <1>0 DEF Colon, GoodGroup, IsGroup
<1>3. ~Orderly(text)
  BY <1>1, <1>2, Zenon DEF Orderly
<1>. QED BY <1>0, <1>3, ReturnsZeroInDisorder

LEMMA EndOfTextStep ==
  ASSUME IInv, EndOfText
  PROVE  IInv'
<1>0. /\ result = "reading" /\ pos > Len(text) /\ TextOK /\ TypeOK /\ result' = "end"
      /\ UNCHANGED <<text, origin, pos, words, colonp, saw_xdigit, val, dst>>
  BY DEF EndOfText, IInv
<1>1. /\ text \in Seq(Tokens) /\ Len(text) \in Nat /\ pos \in Nat
      /\ words \in Seq(Words) /\ colonp \in 0 .. 9 /\ val \in Words
  BY <1>0, ColonpIs DEF TextOK, TypeOK
<1>2. InList
  <2>1. ~AtDouble
    BY <1>0, <1>1 DEF AtDouble, Double
  <2>. QED BY <1>0, <2>1 DEF IInv, Reader
<1>3. PICK f \in Nat : f = From(colonp)
  BY <1>1, FromIs
<1>4. ASSUME saw_xdigit PROVE ReadAs(text, WordsRead, colonp)
  <2>1. PICK m : /\ m \in Nat /\ ReadTo(text, words, colonp, m)
                 /\ pos = f + 2 * m + 1 /\ pos <= Len(text) + 1
                 /\ text[pos - 1].kind = "hex" /\ text[pos - 1].val = val
    BY <1>2, <1>3, <1>4 DEF InList
  <2>2. Len(text) = f + 2 * m /\ pos - 1 = Len(text)
    <3>1. PICK n \in Nat : n = Len(text)
      BY <1>1
    <3>2. pos \in Nat /\ m \in Nat /\ pos > n /\ pos <= n + 1 /\ pos = f + 2 * m + 1
      BY <1>0, <1>1, <2>1, <3>1, Zenon
    <3>. QED BY <3>1, <3>2
  <2>3. text[Len(text)].kind = "hex" /\ text[Len(text)].val = val
    BY <2>1, <2>2, Zenon
  <2>4. GoodGroup(text[Len(text)])
    BY <1>1, <2>3, HexGroup, Zenon
  <2>5. Grown(Append(words, val), words, text[Len(text)])
    BY <1>1, <2>3, GrownByHex
  <2>6. ReadAs(text, Append(words, val), colonp)
    BY <1>1, <1>3, <2>1, <2>2, <2>4, <2>5, EndsInGroup
  <2>. QED BY <1>4, <2>6 DEF WordsRead
<1>5. ASSUME ~saw_xdigit PROVE ReadAs(text, WordsRead, colonp)
  <2>1. PICK m : /\ m \in Nat /\ ReadTo(text, words, colonp, m)
                 /\ pos = f + 2 * m /\ (m # 0 => pos <= Len(text))
    BY <1>2, <1>3, <1>5 DEF InList
  <2>2. m = 0 /\ pos = f
    BY <1>0, <1>1, <2>1
  <2>3. f + 2 * 0 <= Len(text) + 1
    BY <1>3, <2>1, <2>2, Zenon DEF ReadTo
  <2>4. Len(text) + 1 = f
    BY <1>0, <1>1, <2>2, <2>3
  <2>5. ReadAs(text, words, colonp)
    BY <1>1, <1>3, <2>1, <2>2, <2>4, EndsInNone
  <2>. QED BY <1>5, <2>5 DEF WordsRead
<1>6. ReadAs(text', WordsRead', colonp')
  BY <1>0, <1>4, <1>5 DEF WordsRead
<1>7. TextOK' /\ TypeOK'
  BY <1>0 DEF TextOK, TypeOK
<1>. QED BY <1>0, <1>6, <1>7 DEF IInv, Reader, ReadsTheMeaning

LEMMA FinishStep ==
  ASSUME IInv, Finish
  PROVE  IInv'
<1>0. result = "end" /\ TextOK /\ TypeOK /\ ReadAs(text, WordsRead, colonp)
  BY DEF Finish, IInv, Reader
<1>1. /\ text \in Seq(Tokens) /\ words \in Seq(Words) /\ val \in Words
      /\ colonp \in 0 .. 9 /\ saw_xdigit \in BOOLEAN
  BY <1>0, ColonpIs DEF TextOK, TypeOK
<1>2. WordsRead \in Seq(Words)
  BY <1>1 DEF WordsRead
<1>3. /\ Refused(WordsRead) => Meaning(text) = {}
      /\ ~Refused(WordsRead) => /\ Meaning(text) = {Shifted(WordsRead)}
                               /\ Shifted(WordsRead) \in [1 .. 8 -> Words]
  BY <1>0, <1>1, <1>2, ReadAsMeans
<1>4. IF Refused(WordsRead)
      THEN Return0
      ELSE /\ dst' = Shifted(WordsRead) /\ result' = "1"
           /\ UNCHANGED <<text, origin, pos, words, colonp, saw_xdigit, val>>
  BY Zenon DEF Finish, Refused, WordsRead
<1>5. CASE Refused(WordsRead)
  BY <1>3, <1>4, <1>5, ReturnsZero
<1>6. CASE ~Refused(WordsRead)
  <2>1. /\ dst' = Shifted(WordsRead) /\ result' = "1"
        /\ UNCHANGED <<text, origin, pos, words, colonp, saw_xdigit, val>>
    BY <1>4, <1>6, Zenon
  <2>2. TextOK'
    BY <1>0, <2>1 DEF TextOK
  <2>3. dst' \in [1 .. 8 -> Words] /\ Meaning(text') = {dst'}
    BY <1>3, <1>6, <2>1
  <2>4. TypeOK'
    BY <1>0, <2>1, <2>3 DEF TypeOK
  <2>5. ReadsTheMeaning'
    BY <2>1, <2>3 DEF ReadsTheMeaning
  <2>. QED BY <2>1, <2>2, <2>4, <2>5 DEF IInv, Reader
<1>. QED BY <1>5, <1>6

LEMMA StutterStep ==
  ASSUME IInv, UNCHANGED vars
  PROVE  IInv'
<1>1. UNCHANGED <<text, origin, pos, words, colonp, saw_xdigit, val, result, dst>>
  BY DEF vars
<1>2. TextOK' /\ TypeOK'
  BY <1>1 DEF IInv, TextOK, TypeOK
<1>3. (InList \/ AtDouble) => InList' \/ AtDouble'
  BY <1>1 DEF InList, AtDouble
<1>4. WordsRead' = WordsRead /\ (ReadsTheMeaning => ReadsTheMeaning')
  BY <1>1 DEF WordsRead, ReadsTheMeaning
<1>. QED BY <1>1, <1>2, <1>3, <1>4 DEF IInv, Reader

-----------------------------------------------------------------------------
(* The theorems.                                                           *)

\* At every character of the loop of ts_inet_pton6, tmp up to tp holds exactly
\* the groups of the text read so far, in their places around the double colon,
\* and saw_xdigit and val the digits of the one that is not stored yet.
THEOREM Invariance == Spec => []IInv
<1>1. ASSUME IInv, [Next]_vars PROVE IInv'
  BY <1>1, StartStep, ReadDigitsStep, ReadDoubleColonStep, ReadColonStep, ReadDottedStep,
     ReadOtherStep, EndOfTextStep, FinishStep, StutterStep DEF Next
<1>. QED BY <1>1, InitIInv, PTL DEF Spec

\* tmp never holds more than its eight words, colonp never points beyond tp,
\* and what is stored of a group is a word of sixteen bits.
THEOREM TypeCorrect == Spec => []TypeOK
<1>1. IInv => TypeOK
  BY DEF IInv
<1>. QED BY <1>1, Invariance, PTL

\* ts_inet_pton6 accepts exactly the texts that denote an address, and the
\* address it stores is the one the text denotes, whatever the text.
THEOREM MeaningIsRead == Spec => []ReadsTheMeaning
<1>1. IInv => ReadsTheMeaning
  BY DEF IInv, Reader
<1>. QED BY <1>1, Invariance, PTL

\* What ts_inet_ntop6 prints, ts_inet_pton6 reads as the same address, for every
\* address: its run of zeros left out and its dotted end included.
THEOREM PrintedIsRead == Spec => []RoundTrip
<1>1. ASSUME IInv PROVE RoundTrip
  <2>. SUFFICES ASSUME origin # <<>>, result \in {"0", "1"}
                PROVE  result = "1" /\ dst = origin
    BY DEF RoundTrip
  <2>1. origin \in [1 .. 8 -> Words] /\ text = Ntop6(origin)
    BY <1>1 DEF IInv, TextOK
  <2>2. origin \in Meaning(text)
    BY <2>1, Ntop6Means
  <2>. QED BY <1>1, <2>2 DEF IInv, Reader, ReadsTheMeaning
<1>. QED BY <1>1, Invariance, PTL

\* ts_inet_pton4 reads a dotted part only if ts_inet_ntop4 prints it, and
\* refuses it only if no address is printed that way.
THEOREM DottedPartIsRead == Spec => []ReadsWhatPrints4
<1>1. ASSUME IInv PROVE ReadsWhatPrints4
  <2>. SUFFICES ASSUME NEW n \in DOMAIN text, text[n].kind = "dotted"
                PROVE  LET fs == text[n].fields
                       IN  /\ Pton4Reads(fs) => fs = Ntop4([k \in 1 .. 4 |-> Octet(fs[k])])
                           /\ ~Pton4Reads(fs) =>
                                Len(fs) # 4
                                \/ \E k \in 1 .. 4 : \A o \in Octets : fs[k] # Decimal(o)
    BY Zenon DEF ReadsWhatPrints4
  <2>1. TextOK
    BY <1>1 DEF IInv
  <2>2. n \in 1 .. Len(text)
    BY <2>1 DEF TextOK
  <2>3. text[n].fields \in Seq(Fields)
    BY <2>1, <2>2, TokenAt
  <2>4. PICK fs \in Seq(Fields) : fs = text[n].fields
    BY <2>3
  <2>5. /\ Pton4Reads(fs) => fs = Ntop4([k \in 1 .. 4 |-> Octet(fs[k])])
        /\ ~Pton4Reads(fs) =>
             Len(fs) # 4 \/ \E k \in 1 .. 4 : \A o \in Octets : fs[k] # Decimal(o)
    BY Reads4Prints, NotReadNotPrinted, Zenon
  <2>. QED BY <2>4, <2>5, Zenon
<1>. QED BY <1>1, Invariance, PTL
=============================================================================
