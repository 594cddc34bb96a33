--------------------------- MODULE LibraryProofs ---------------------------
(***************************************************************************)
(* Packets: whatever the message and whichever byte the line damages, the  *)
(* receiver takes the packet for what was sent or refuses it (PInv says    *)
(* what the packet on the line is).  A checksum is a sum over a sequence,  *)
(* so the proof begins with an induction over the naturals, as a lemma     *)
(* about membership in a set, and with some arithmetic modulo PktBase.     *)
(*                                                                         *)
(* ArgumentParser: whatever the arguments and argv, a value is what the    *)
(* tokens say (AInv: the uses recorded so far are a chain that covers      *)
(* argv up to "at", and the values are those of the last uses).  The       *)
(* lemmas on RunIs and ValueIsParsed say what parse_arg() returns, and     *)
(* ValuesAfter that one more use leaves the values right.                  *)
(*                                                                         *)
(* Serialization: whatever the bytes, a value that is read says them, and  *)
(* a read fails only at their end (CInv: the last read is what Reads       *)
(* returns at the place where it began).  Numbers by Horner's rule and the *)
(* digits of a division; a list by the marks between its items (InOrderRow,*)
(* RowSays); failing by comparing the reads of the buffer and of the       *)
(* padded one (KindsAgree), where there is room for all (KindFits).        *)
(***************************************************************************)
EXTENDS Packets, ArgumentParser, Serialization, FiniteSetTheorems, SequenceTheorems,
        WellFoundedInduction, TLAPS

\* Induction over the naturals, for membership in a set.
LEMMA SetInduction ==
  ASSUME NEW S, 0 \in S, \A k \in Nat : k \in S => k + 1 \in S
  PROVE  \A k \in Nat : k \in S
<1> DEFINE T == Nat \ S
<1>1. SUFFICES ASSUME T # {} PROVE FALSE
  OBVIOUS
<1>2. PICK x \in T : \A y \in T : <<y, x>> \notin OpToRel(<, Nat)
  <2>1. T \subseteq Nat OBVIOUS
  <2> HIDE DEF T
  <2> QED BY <1>1, <2>1, NatLessThanWellFounded, WFMin
<1>3. x # 0 /\ x \in Nat OBVIOUS
<1>4. x - 1 \in Nat BY <1>3
<1>5. <<x - 1, x>> \in OpToRel(<, Nat)
  BY <1>3, <1>4 DEF OpToRel
<1>6. x - 1 \in S BY <1>2, <1>4, <1>5
<1>7. x \in S BY <1>6, <1>4, <1>3
<1> QED BY <1>7

-----------------------------------------------------------------------------
(* Sums.                                                                   *)

\* g holds the sums of the beginnings of s.
Sums(s, g) == /\ g \in [0 .. Len(s) -> Int] /\ g[0] = 0
              /\ \A n \in 1 .. Len(s) : g[n] = g[n - 1] + s[n]

LEMMA SumsExist == ASSUME NEW s \in Seq(Int) PROVE \E g : Sums(s, g)
<1> DEFINE Part(k) == {g \in [0 .. k -> Int] : g[0] = 0 /\ \A n \in 1 .. k : g[n] = g[n - 1] + s[n]}
           K == {k \in Nat : k <= Len(s) => Part(k) # {}}
<1>1. 0 \in K
  <2>1. [n \in 0 .. 0 |-> 0] \in Part(0) OBVIOUS
  <2> QED BY <2>1
<1>2. ASSUME NEW k \in Nat, k \in K PROVE k + 1 \in K
  <2> SUFFICES ASSUME k + 1 <= Len(s) PROVE Part(k + 1) # {}
    OBVIOUS
  <2>0. Part(k) # {}
    <3>1. k <= Len(s) OBVIOUS
    <3> HIDE DEF Part
    <3> QED BY <1>2, <3>1
  <2>1. PICK g : g \in Part(k)
    <3> HIDE DEF Part
    <3> QED BY <2>0
  <2>2. s[k + 1] \in Int OBVIOUS
  <2> DEFINE h == [n \in 0 .. k + 1 |-> IF n = k + 1 THEN g[k] + s[k + 1] ELSE g[n]]
  <2>3. h \in [0 .. k + 1 -> Int] BY <2>1, <2>2
  <2>4. h[0] = 0 BY <2>1
  <2>5. \A n \in 1 .. k + 1 : h[n] = h[n - 1] + s[n] BY <2>1
  <2>6. h \in Part(k + 1) BY <2>3, <2>4, <2>5
  <2> QED BY <2>6
<1> HIDE DEF K
<1>3. \A k \in Nat : k \in K BY <1>1, <1>2, SetInduction
<1>4. Len(s) \in Nat OBVIOUS
<1>5. Part(Len(s)) # {}
  <2> HIDE DEF Part
  <2> QED BY <1>3, <1>4 DEF K
<1>6. PICK g : g \in Part(Len(s))
  <2> HIDE DEF Part
  <2> QED BY <1>5
<1> QED BY <1>6 DEF Sums

\* g and h hold sums of what is equal up to m.
Alike(m, s, t, g, h) ==
  /\ g[0] = 0 /\ h[0] = 0
  /\ \A n \in 1 .. m : g[n] = g[n - 1] + s[n] /\ h[n] = h[n - 1] + t[n] /\ s[n] = t[n]

LEMMA SameSums ==
  ASSUME NEW m \in Nat, NEW s, NEW t, NEW g, NEW h, Alike(m, s, t, g, h)
  PROVE  \A k \in 0 .. m : g[k] = h[k]
<1> USE DEF Alike
<1> DEFINE K == {k \in Nat : k <= m => g[k] = h[k]}
<1>1. 0 \in K OBVIOUS
<1>2. ASSUME NEW k \in Nat, k \in K PROVE k + 1 \in K
  <2> SUFFICES ASSUME k + 1 <= m PROVE g[k + 1] = h[k + 1]
    OBVIOUS
  <2>1. k + 1 \in 1 .. m /\ (k + 1) - 1 = k /\ g[k] = h[k] BY <1>2
  <2> QED BY <2>1
<1> HIDE DEF K
<1>3. \A k \in Nat : k \in K BY <1>1, <1>2, SetInduction
<1> QED BY <1>3 DEF K

LEMMA SumIs == ASSUME NEW s \in Seq(Int) PROVE \E g : Sums(s, g) /\ SumOf(s) = g[Len(s)]
<1> DEFINE Rec(g) == g = [n \in 0 .. Len(s) |-> IF n = 0 THEN 0 ELSE g[n - 1] + s[n]]
           c == CHOOSE g : Rec(g)
<1>1. PICK g : Sums(s, g) BY SumsExist
<1>2. Rec(g) BY <1>1 DEF Sums
<1>3. Rec(c) BY <1>2
<1>4. SumOf(s) = c[Len(s)] BY DEF SumOf
<1> HIDE DEF c
<1>5. Len(s) \in Nat OBVIOUS
<1>6. c[0] = 0 /\ \A n \in 1 .. Len(s) : c[n] = c[n - 1] + s[n] BY <1>3, <1>5
<1>7. \A k \in 0 .. Len(s) : g[k] = c[k]
  <2>1. Alike(Len(s), s, s, g, c)
    BY <1>1, <1>6 DEF Sums, Alike
  <2> QED BY <1>5, <2>1, SameSums
<1>8. SumOf(s) = g[Len(s)] BY <1>4, <1>5, <1>7
<1> QED BY <1>1, <1>8

\* The sum of a sequence with one more element.
LEMMA SumAppend ==
  ASSUME NEW s \in Seq(Int), NEW c \in Int
  PROVE  SumOf(s) \in Int /\ SumOf(Append(s, c)) = SumOf(s) + c
<1> DEFINE t == Append(s, c)
<1>1. t \in Seq(Int) /\ Len(s) \in Nat /\ Len(t) = Len(s) + 1 /\ t[Len(t)] = c
      /\ \A n \in 1 .. Len(s) : t[n] = s[n]
  OBVIOUS
<1> HIDE DEF t
<1>2. PICK g : Sums(s, g) /\ SumOf(s) = g[Len(s)] BY SumIs
<1>3. PICK h : Sums(t, h) /\ SumOf(t) = h[Len(t)] BY <1>1, SumIs
<1>4. \A k \in 0 .. Len(s) : g[k] = h[k]
  <2>1. g[0] = 0 /\ \A n \in 1 .. Len(s) : g[n] = g[n - 1] + s[n]
    BY <1>2 DEF Sums
  <2>2. h[0] = 0 /\ \A n \in 1 .. Len(s) + 1 : h[n] = h[n - 1] + t[n]
    BY <1>1, <1>3 DEF Sums
  <2>3. Alike(Len(s), s, t, g, h)
    BY <1>1, <2>1, <2>2 DEF Alike
  <2> QED BY <1>1, <2>3, SameSums
<1>5. h[Len(t)] = h[Len(s)] + c
  <2>1. \A n \in 1 .. Len(t) : h[n] = h[n - 1] + t[n] BY <1>3 DEF Sums
  <2>2. Len(t) \in 1 .. Len(t) /\ Len(t) - 1 = Len(s) BY <1>1
  <2> QED BY <1>1, <2>1, <2>2
<1>6. g[Len(s)] = h[Len(s)] /\ g[Len(s)] \in Int BY <1>1, <1>2, <1>4 DEF Sums
<1> QED BY <1>2, <1>3, <1>5, <1>6 DEF t

\* The sum of a sequence one element of which is changed.
LEMMA SumExcept ==
  ASSUME NEW s \in Seq(Int), NEW i \in 1 .. Len(s), NEW b \in Int
  PROVE  SumOf([s EXCEPT ![i] = b]) = SumOf(s) - s[i] + b
<1> DEFINE t == [s EXCEPT ![i] = b]
           K == {k \in Nat : k <= Len(s) => \A g, h : Sums(s, g) /\ Sums(t, h) =>
                   h[k] = IF k < i THEN g[k] ELSE g[k] - s[i] + b}
<1>1. t \in Seq(Int) /\ Len(s) \in Nat /\ Len(t) = Len(s) /\ s[i] \in Int
      /\ \A n \in 1 .. Len(s) : t[n] = IF n = i THEN b ELSE s[n]
  OBVIOUS
<1> HIDE DEF t
<1>2. 0 \in K BY <1>1 DEF Sums
<1>3. ASSUME NEW k \in Nat, k \in K PROVE k + 1 \in K
  <2> SUFFICES ASSUME k + 1 <= Len(s), NEW g, NEW h, Sums(s, g), Sums(t, h)
               PROVE  h[k + 1] = IF k + 1 < i THEN g[k + 1] ELSE g[k + 1] - s[i] + b
    OBVIOUS
  <2>1. k + 1 \in 1 .. Len(s) /\ (k + 1) - 1 = k BY <1>1
  <2>2. /\ g[k + 1] = g[k] + s[k + 1] /\ h[k + 1] = h[k] + t[k + 1]
        /\ g[k] \in Int /\ s[k + 1] \in Int
    <3>1. g \in [0 .. Len(s) -> Int] /\ \A n \in 1 .. Len(s) : g[n] = g[n - 1] + s[n]
      BY DEF Sums
    <3>2. \A n \in 1 .. Len(s) : h[n] = h[n - 1] + t[n] BY <1>1 DEF Sums
    <3>3. k \in 0 .. Len(s) BY <2>1, <1>1
    <3>4. s[k + 1] \in Int BY <2>1
    <3> QED BY <2>1, <3>1, <3>2, <3>3, <3>4
  <2>3. h[k] = IF k < i THEN g[k] ELSE g[k] - s[i] + b BY <1>1, <1>3
  <2>4. t[k + 1] = IF k + 1 = i THEN b ELSE s[k + 1] BY <1>1, <2>1
  <2>5. i \in Nat BY <1>1
  <2>6. CASE k + 1 < i BY <1>1, <2>2, <2>3, <2>4, <2>5, <2>6
  <2>7. CASE k + 1 = i BY <1>1, <2>2, <2>3, <2>4, <2>5, <2>7
  <2>8. CASE k >= i BY <1>1, <2>2, <2>3, <2>4, <2>5, <2>8
  <2> QED BY <2>5, <2>6, <2>7, <2>8
<1> HIDE DEF K
<1>4. \A k \in Nat : k \in K BY <1>2, <1>3, SetInduction
<1>5. PICK g : Sums(s, g) /\ SumOf(s) = g[Len(s)] BY SumIs
<1>6. PICK h : Sums(t, h) /\ SumOf(t) = h[Len(t)] BY <1>1, SumIs
<1>7. h[Len(s)] = g[Len(s)] - s[i] + b
  <2>1. Len(s) \in K /\ ~(Len(s) < i) BY <1>1, <1>4
  <2> QED BY <1>1, <1>5, <1>6, <2>1 DEF K
<1> QED BY <1>1, <1>5, <1>6, <1>7 DEF t

-----------------------------------------------------------------------------
(* Division.                                                               *)

LEMMA DivMod ==
  ASSUME NEW a \in Int, NEW b \in Nat \ {0}
  PROVE  a % b \in 0 .. b - 1 /\ a \div b \in Int /\ a = b * (a \div b) + (a % b)
BY SMT

LEMMA Product ==
  ASSUME NEW a \in Int, NEW b \in Int, NEW u \in Nat \ {0}
  PROVE  /\ u * a \in Int
         /\ a >= 1 => u * a >= u
         /\ a <= -1 => u * a <= -u
         /\ u * (a - b) = u * a - u * b
BY SMT

\* A number below u that is a multiple of it is 0.
LEMMA SmallMultiple ==
  ASSUME NEW u \in Nat \ {0}, NEW q \in Int, u * q < u, u * q > -u
  PROVE  q = 0
<1>1. ~(q >= 1) /\ ~(q <= -1) BY Product
<1> QED BY <1>1

LEMMA MultipleMod ==
  ASSUME NEW u \in Nat \ {0}, NEW q \in Int
  PROVE  (u * q) % u = 0
<1> DEFINE x == u * q
           d == x \div u
           r == x % u
<1>1. x \in Int BY Product
<1>2. r \in 0 .. u - 1 /\ d \in Int /\ x = u * d + r BY <1>1, DivMod
<1> HIDE DEF d, r
<1>3. q - d \in Int /\ u * (q - d) = x - u * d /\ u * d \in Int
  <2>1. d \in Int BY <1>2
  <2>2. u * d \in Int BY <2>1, Product
  <2>3. u * (q - d) = u * q - u * d BY <2>1, Product
  <2> QED BY <2>1, <2>2, <2>3
<1> HIDE DEF x
<1>4. u * (q - d) = r BY <1>1, <1>2, <1>3
<1>5. q - d = 0 BY <1>2, <1>3, <1>4, SmallMultiple
<1>6. r = 0 BY <1>2, <1>3, <1>4, <1>5
<1> QED BY <1>6 DEF r, x

\* Two multiples that are less than u apart are one.
LEMMA CloseMultiples ==
  ASSUME NEW u \in Nat \ {0}, NEW x \in Int, NEW y \in Int,
         x % u = 0, y % u = 0, x - y < u, y - x < u
  PROVE  x = y
<1> DEFINE p == x \div u
           q == y \div u
<1>1. p \in Int /\ q \in Int /\ x = u * p /\ y = u * q
  <2>1. x % u = 0 /\ p \in Int /\ x = u * p + (x % u) BY DivMod
  <2>2. y % u = 0 /\ q \in Int /\ y = u * q + (y % u) BY DivMod
  <2>3. u * p \in Int /\ u * q \in Int BY <2>1, <2>2, Product
  <2> QED BY <2>1, <2>2, <2>3
<1> HIDE DEF p, q
<1>2. p - q \in Int /\ u * (p - q) = x - y BY <1>1, Product
<1>3. p - q = 0 BY <1>2, SmallMultiple
<1> QED BY <1>1, <1>3

-----------------------------------------------------------------------------
(* Packets.                                                                *)

\* A number of two bytes is what its bytes say.
LEMMA TwoBytes ==
  ASSUME NEW n \in 0 .. PktBase * PktBase - 1
  PROVE  Low(n) \in Byte /\ High(n) \in Byte /\ Low(n) + PktBase * High(n) = n
<1> DEFINE q == n \div PktBase
<1>0. PktBase \in Nat \ {0} BY PacketsAssumption
<1>1. PktBase * PktBase \in Int /\ n \in Int /\ n >= 0 /\ n < PktBase * PktBase
  <2>1. PktBase * PktBase \in Int BY <1>0, Product
  <2> QED BY <2>1
<1>2. Low(n) \in Byte /\ q \in Int /\ n = PktBase * q + Low(n)
  BY <1>0, <1>1, DivMod DEF Low, Byte
<1>3. Low(n) \in Int /\ Low(n) >= 0 /\ Low(n) < PktBase /\ PktBase * q \in Int
  BY <1>0, <1>2, Product DEF Byte
<1>4. q >= 0
  <2> SUFFICES ASSUME q <= -1 PROVE FALSE BY <1>2
  <2>1. PktBase * q <= -PktBase BY <1>0, <1>2, Product
  <2> QED BY <1>0, <1>1, <1>2, <1>3, <2>1
<1>5. q < PktBase
  <2> SUFFICES ASSUME q - PktBase >= 0 PROVE FALSE BY <1>0, <1>2
  <2>1. q - PktBase \in Int /\ PktBase * (q - PktBase) = PktBase * q - PktBase * PktBase
    BY <1>0, <1>2, Product
  <2>2. PktBase * (q - PktBase) >= 0
    <3>1. CASE q - PktBase = 0 BY <1>0, <3>1
    <3>2. CASE q - PktBase >= 1 BY <1>0, <2>1, <3>2, Product
    <3> QED BY <2>1, <3>1, <3>2
  <2> QED BY <1>1, <1>2, <1>3, <2>1, <2>2
<1>6. High(n) = q /\ q \in Byte
  <2>1. q % PktBase \in 0 .. PktBase - 1 /\ q \div PktBase \in Int
        /\ q = PktBase * (q \div PktBase) + (q % PktBase)
    BY <1>0, <1>2, DivMod
  <2>2. PktBase * (q \div PktBase) \in Int BY <1>0, <2>1, Product
  <2>3. q \div PktBase = 0
    <3> DEFINE d == q \div PktBase
    <3>1. d \in Int /\ PktBase * d < PktBase /\ PktBase * d > -PktBase
      BY <1>0, <1>2, <1>4, <1>5, <2>1, <2>2
    <3> HIDE DEF d
    <3>2. d = 0 BY <1>0, <3>1, SmallMultiple
    <3> QED BY <3>2 DEF d
  <2>4. PktBase * (q \div PktBase) = 0 BY <1>0, <2>3
  <2>5. q = q % PktBase BY <1>2, <2>1, <2>4
  <2> QED BY <1>0, <2>1, <2>5 DEF High, Byte
<1> HIDE DEF q
<1> QED BY <1>2, <1>3, <1>6

LEMMA SumTwo ==
  ASSUME NEW a \in Int, NEW b \in Int
  PROVE  <<a, b>> \in Seq(Int) /\ SumOf(<<a, b>>) = a + b
<1>1. <<>> \in Seq(Int) /\ <<a>> \in Seq(Int) /\ <<a, b>> \in Seq(Int)
      /\ <<a>> = Append(<<>>, a) /\ <<a, b>> = Append(<<a>>, b)
  OBVIOUS
<1>2. SumOf(<<>>) = 0
  <2>1. PICK g : Sums(<<>>, g) /\ SumOf(<<>>) = g[Len(<<>>)] BY <1>1, SumIs
  <2> QED BY <2>1 DEF Sums
<1>3. SumOf(<<a>>) = 0 + a BY <1>1, <1>2, SumAppend
<1>4. SumOf(Append(<<a>>, b)) = SumOf(<<a>>) + b BY <1>1, SumAppend
<1>5. SumOf(<<a, b>>) = SumOf(<<a>>) + b
  <2> DEFINE s == <<a>>
             t == <<a, b>>
  <2>1. t = Append(s, b) /\ SumOf(Append(s, b)) = SumOf(s) + b BY <1>1, <1>4
  <2> HIDE DEF s, t
  <2>2. SumOf(t) = SumOf(s) + b BY <2>1
  <2> QED BY <2>2 DEF s, t
<1> QED BY <1>1, <1>3, <1>5

\* The sum of what is checked and of the checksum is one short of a multiple.
LEMMA ChecksumIs ==
  ASSUME NEW s \in Seq(Int)
  PROVE  /\ checksum(s) \in Byte /\ SumOf(s) \in Int
         /\ (SumOf(s) + checksum(s) + 1) % PktBase = 0
<1>0. PktBase \in Nat \ {0} BY PacketsAssumption
<1>1. SumOf(s) \in Int BY SumAppend
<1> DEFINE d == SumOf(s) \div PktBase
           r == SumOf(s) % PktBase
<1>2. r \in 0 .. PktBase - 1 /\ d \in Int /\ SumOf(s) = PktBase * d + r
  BY <1>0, <1>1, DivMod
<1>3. checksum(s) = PktBase - 1 - r BY DEF checksum
<1> HIDE DEF d, r
<1>4. PktBase * d \in Int /\ PktBase * (d - (-1)) = PktBase * d + PktBase
  <2>1. PktBase * (d - (-1)) = PktBase * d - PktBase * (-1) /\ PktBase * d \in Int
    BY <1>0, <1>2, Product
  <2>2. PktBase * (-1) = -PktBase BY <1>0
  <2> QED BY <1>0, <2>1, <2>2
<1>5. SumOf(s) + checksum(s) + 1 = PktBase * (d - (-1)) BY <1>0, <1>2, <1>3, <1>4
<1>6. d - (-1) \in Int BY <1>2
<1> QED BY <1>0, <1>1, <1>2, <1>3, <1>5, <1>6, MultipleMod DEF Byte

LEMMA Concatenated ==
  ASSUME NEW S, NEW s \in Seq(S), NEW t \in Seq(S)
  PROVE  /\ s \o t \in Seq(S) /\ Len(s \o t) = Len(s) + Len(t)
         /\ \A i \in 1 .. Len(s) : (s \o t)[i] = s[i]
         /\ \A i \in 1 .. Len(t) : (s \o t)[i + Len(s)] = t[i]
OBVIOUS

LEMMA BytesAreNumbers ==
  /\ Byte \subseteq Int
  /\ \A s \in Seq(Byte) : s \in Seq(Int)
BY PacketsAssumption DEF Byte

LEMMA FlagsAreBytes ==
  /\ PktBase \in Nat \ {0} /\ PktBase >= 3
  /\ SYNC_FLAG \in Byte /\ VERSION_FLAG \in Byte /\ SYNC_FLAG > 0 /\ VERSION_FLAG > 0
BY PacketsAssumption DEF Byte, SYNC_FLAG, VERSION_FLAG

\* What can be said of an encoded packet, byte by byte.
IsPacket(e, msg, topic) ==
  /\ e \in Seq(Byte) /\ Len(e) = Len(msg) + 8
  /\ e[1] = SYNC_FLAG /\ e[2] = VERSION_FLAG
  /\ e[3] = Low(Len(msg)) /\ e[4] = High(Len(msg))
  /\ (e[3] + e[4] + e[5] + 1) % PktBase = 0
  /\ e[6] = Low(topic) /\ e[7] = High(topic)
  /\ \A i \in 1 .. Len(msg) : e[i + 7] = msg[i]
  /\ (SumOf(SubSeq(e, 6, Len(e))) + 1) % PktBase = 0

LEMMA EncodedIsPacket ==
  ASSUME NEW msg \in Seq(Byte), Len(msg) < PktBase * PktBase,
         NEW topic \in 0 .. PktBase * PktBase - 1
  PROVE  IsPacket(Encoded(msg, topic), msg, topic)
<1> DEFINE n == Len(msg)
           len == <<Low(n), High(n)>>
           c1 == checksum(len)
           body == <<Low(topic), High(topic)>> \o msg
           c2 == checksum(body)
           e == <<SYNC_FLAG, VERSION_FLAG>> \o len \o <<c1>> \o body \o <<c2>>
<1>1. n \in Nat /\ n \in 0 .. PktBase * PktBase - 1
  <2>1. PktBase * PktBase \in Int BY FlagsAreBytes, Product
  <2> QED BY <2>1
<1>2. Low(n) \in Byte /\ High(n) \in Byte /\ Low(topic) \in Byte /\ High(topic) \in Byte
  BY <1>1, TwoBytes
<1>3. /\ len \in Seq(Int) /\ len[1] = Low(n) /\ len[2] = High(n)
      /\ SumOf(len) = Low(n) + High(n)
  <2>1. Low(n) \in Int /\ High(n) \in Int BY <1>2, BytesAreNumbers
  <2> HIDE DEF n
  <2> QED BY <2>1, SumTwo
<1>4. c1 \in Byte /\ (Low(n) + High(n) + c1 + 1) % PktBase = 0
  <2> HIDE DEF len, n
  <2>1. c1 \in Byte /\ (SumOf(len) + c1 + 1) % PktBase = 0 BY <1>3, ChecksumIs
  <2> QED BY <1>3, <2>1
<1>5. /\ body \in Seq(Byte) /\ Len(body) = n + 2
      /\ body[1] = Low(topic) /\ body[2] = High(topic)
      /\ \A i \in 1 .. n : body[i + 2] = msg[i]
  BY <1>1, <1>2
<1>6. /\ c2 \in Byte
      /\ (SumOf(Append(body, c2)) + 1) % PktBase = 0
  <2> HIDE DEF body
  <2>1. body \in Seq(Int) BY <1>5, BytesAreNumbers
  <2>2. c2 \in Byte /\ SumOf(body) \in Int /\ (SumOf(body) + c2 + 1) % PktBase = 0
    BY <2>1, ChecksumIs
  <2>3. c2 \in Int BY <2>2, BytesAreNumbers
  <2> HIDE DEF c2
  <2>4. SumOf(Append(body, c2)) = SumOf(body) + c2 BY <2>1, <2>3, SumAppend
  <2> QED BY <2>2, <2>4
<1> DEFINE head == <<SYNC_FLAG, VERSION_FLAG, Low(n), High(n), c1>>
<1> HIDE DEF c1, c2, body, n
<1>7. /\ head \in Seq(Byte) /\ Len(head) = 5
      /\ head[1] = SYNC_FLAG /\ head[2] = VERSION_FLAG /\ head[3] = Low(n)
      /\ head[4] = High(n) /\ head[5] = c1
  BY <1>2, <1>4, FlagsAreBytes
<1>8. e = (head \o body) \o <<c2>>
  BY <1>5
<1> HIDE DEF head, e
<1>9. /\ e \in Seq(Byte) /\ Len(e) = n + 8
      /\ \A i \in 1 .. 5 : e[i] = head[i]
      /\ \A i \in 1 .. n + 2 : e[i + 5] = body[i]
      /\ e[n + 8] = c2
  <2> DEFINE f == head \o body
  <2>1. /\ f \in Seq(Byte) /\ Len(f) = n + 7
        /\ \A i \in 1 .. 5 : f[i] = head[i]
        /\ \A i \in 1 .. n + 2 : f[i + 5] = body[i]
    <3>0. head \in Seq(Byte) /\ body \in Seq(Byte) BY <1>5, <1>7
    <3>1. /\ f \in Seq(Byte) /\ Len(f) = Len(head) + Len(body)
          /\ \A i \in 1 .. Len(head) : f[i] = head[i]
          /\ \A i \in 1 .. Len(body) : f[i + Len(head)] = body[i]
      BY <3>0, Concatenated
    <3>2. Len(head) = 5 /\ Len(body) = n + 2 BY <1>5, <1>7
    <3> HIDE DEF f
    <3> QED BY <1>1, <3>1, <3>2
  <2> HIDE DEF f
  <2>2. /\ f \o <<c2>> \in Seq(Byte) /\ Len(f \o <<c2>>) = n + 8
        /\ \A i \in 1 .. n + 7 : (f \o <<c2>>)[i] = f[i]
        /\ (f \o <<c2>>)[n + 8] = c2
    BY <1>1, <1>6, <2>1
  <2>3. e = f \o <<c2>> BY <1>8 DEF f
  <2>4. /\ \A i \in 1 .. 5 : i \in 1 .. n + 7
        /\ \A i \in 1 .. n + 2 : i + 5 \in 1 .. n + 7
    BY <1>1
  <2> QED BY <2>1, <2>2, <2>3, <2>4
<1>10. SubSeq(e, 6, Len(e)) = Append(body, c2)
  <2>1. /\ SubSeq(e, 6, Len(e)) \in Seq(Byte) /\ Len(SubSeq(e, 6, Len(e))) = n + 3
        /\ \A i \in 1 .. n + 3 : SubSeq(e, 6, Len(e))[i] = e[i + 5]
    BY <1>1, <1>9
  <2>2. /\ Append(body, c2) \in Seq(Byte) /\ Len(Append(body, c2)) = n + 3
        /\ \A i \in 1 .. n + 2 : Append(body, c2)[i] = body[i]
        /\ Append(body, c2)[n + 3] = c2
    BY <1>1, <1>5, <1>6
  <2>3. \A i \in 1 .. n + 3 : SubSeq(e, 6, Len(e))[i] = Append(body, c2)[i]
    <3> TAKE i \in 1 .. n + 3
    <3>1. SubSeq(e, 6, Len(e))[i] = e[i + 5] BY <2>1
    <3>2. CASE i = n + 3
      <4>1. i + 5 = n + 8 BY <1>1, <3>2
      <4> QED BY <1>9, <2>2, <3>1, <3>2, <4>1
    <3>3. CASE i # n + 3
      <4>1. i \in 1 .. n + 2 BY <1>1, <3>3
      <4> QED BY <1>9, <2>2, <3>1, <4>1
    <3> QED BY <3>2, <3>3
  <2> QED BY <2>1, <2>2, <2>3, SeqEqual
<1>11. \A i \in 1 .. n : e[i + 7] = msg[i]
  <2> TAKE i \in 1 .. n
  <2>1. i + 2 \in 1 .. n + 2 /\ (i + 2) + 5 = i + 7 BY <1>1
  <2> QED BY <1>5, <1>9, <2>1
<1>12. e[6] = Low(topic) /\ e[7] = High(topic)
  <2>1. 1 \in 1 .. n + 2 /\ 2 \in 1 .. n + 2 BY <1>1
  <2> QED BY <1>5, <1>9, <2>1
<1>13. /\ e[1] = SYNC_FLAG /\ e[2] = VERSION_FLAG
       /\ e[3] = Low(n) /\ e[4] = High(n) /\ e[5] = c1
  BY <1>7, <1>9
<1>14. IsPacket(e, msg, topic)
  BY <1>4, <1>6, <1>9, <1>10, <1>11, <1>12, <1>13 DEF IsPacket, n
<1>15. e = Encoded(msg, topic)
  BY DEF e, n, c1, c2, body, Encoded
<1> QED BY <1>14, <1>15

\* What the receiver takes a packet for.
HeardAs(p) == [msg |-> SubSeq(p, 8, Len(p) - 1), topic |-> p[6] + PktBase * p[7]]

LEMMA PacketAccepted ==
  ASSUME NEW e, NEW msg \in Seq(Byte), Len(msg) < PktBase * PktBase,
         NEW topic \in 0 .. PktBase * PktBase - 1, IsPacket(e, msg, topic)
  PROVE  Accepted(e) /\ HeardAs(e) = [msg |-> msg, topic |-> topic]
<1>1. PktBase * PktBase \in Int
  BY FlagsAreBytes, Product
<1>2. /\ Low(Len(msg)) \in Byte /\ High(Len(msg)) \in Byte
      /\ Low(Len(msg)) + PktBase * High(Len(msg)) = Len(msg)
      /\ Low(topic) + PktBase * High(topic) = topic
  <2>1. Len(msg) \in 0 .. PktBase * PktBase - 1 BY <1>1
  <2> QED BY <2>1, TwoBytes
<1>3. Accepted(e)
  <2>1. Len(e) \in Nat /\ Len(e) = Len(msg) + 8 /\ Len(msg) \in Nat BY DEF IsPacket
  <2>2. e[3] + PktBase * e[4] = Len(msg) BY <1>2 DEF IsPacket
  <2>3. Len(e) = e[3] + PktBase * e[4] + 8 /\ Len(e) >= 8 BY <2>1, <2>2
  <2> QED BY <2>3 DEF IsPacket, Accepted, ROS_PKG_LENGTH, ROS_HEADER_LENGTH
<1>4. SubSeq(e, 8, Len(e) - 1) = msg
  <2> DEFINE t == SubSeq(e, 8, Len(e) - 1)
  <2>1. e \in Seq(Byte) /\ Len(e) = Len(msg) + 8 /\ Len(msg) \in Nat BY DEF IsPacket
  <2>2. /\ t \in Seq(Byte) /\ Len(t) = Len(msg)
        /\ \A i \in 1 .. Len(msg) : t[i] = e[i + 7]
    BY <2>1
  <2> HIDE DEF t
  <2>3. \A i \in 1 .. Len(t) : t[i] = msg[i] BY <2>2 DEF IsPacket
  <2>4. t = msg BY <2>2, <2>3, SeqEqual
  <2> QED BY <2>4 DEF t
<1>5. e[6] + PktBase * e[7] = topic BY <1>2 DEF IsPacket
<1> QED BY <1>3, <1>4, <1>5 DEF HeardAs

\* One wrong byte is noticed, wherever it is.
LEMMA DamagedRefused ==
  ASSUME NEW e, NEW msg \in Seq(Byte), NEW topic, IsPacket(e, msg, topic),
         NEW i, i \in 1 .. Len(e), NEW b, b \in Byte, b # e[i]
  PROVE  ~Accepted([e EXCEPT ![i] = b])
<1> DEFINE p == [e EXCEPT ![i] = b]
<1>0. /\ e \in Seq(Byte) /\ Len(e) \in Nat /\ Len(e) >= 8 /\ i \in Nat
      /\ p \in Seq(Byte) /\ Len(p) = Len(e) /\ p[i] = b
      /\ \A j \in 1 .. Len(e) : j # i => p[j] = e[j]
  BY DEF IsPacket
<1>1. /\ PktBase \in Nat \ {0} /\ b \in Int /\ b >= 0 /\ b < PktBase
      /\ \A j \in 1 .. Len(e) : e[j] \in Int /\ e[j] >= 0 /\ e[j] < PktBase
  BY <1>0, PacketsAssumption DEF Byte
<1> SUFFICES ASSUME Accepted(p) PROVE FALSE
  OBVIOUS
<1>2. CASE i \in {1, 2}
  <2>1. p[1] = SYNC_FLAG /\ p[2] = VERSION_FLAG BY DEF Accepted
  <2>2. e[1] = SYNC_FLAG /\ e[2] = VERSION_FLAG BY DEF IsPacket
  <2> QED BY <1>0, <1>2, <2>1, <2>2
<1>3. CASE i \in {3, 4, 5}
  <2> DEFINE x == p[3] + p[4] + p[5] + 1
             y == e[3] + e[4] + e[5] + 1
  <2>1. x % PktBase = 0 BY DEF Accepted
  <2>2. y % PktBase = 0 BY DEF IsPacket
  <2>3. 3 \in 1 .. Len(e) /\ 4 \in 1 .. Len(e) /\ 5 \in 1 .. Len(e) BY <1>0
  <2>4. x \in Int /\ y \in Int /\ x - y = b - e[i] /\ y - x = e[i] - b
    <3> HIDE DEF p
    <3>0. \A j \in {3, 4, 5} : p[j] = IF j = i THEN b ELSE e[j]
      BY <1>0, <2>3
    <3> DEFINE f == e[3]
               g == e[4]
               h == e[5]
    <3>4. f \in Int /\ g \in Int /\ h \in Int /\ b \in Int
      BY <1>1, <2>3
    <3>5. y = f + g + h + 1 OBVIOUS
    <3>1. CASE i = 3
      <4>1. x = b + g + h + 1 /\ e[i] = f BY <3>0, <3>1
      <4> HIDE DEF x, y, f, g, h
      <4>2. x \in Int /\ y \in Int /\ x - y = b - f /\ y - x = f - b
        BY ONLY <3>4, <3>5, <4>1
      <4> QED BY ONLY <4>1, <4>2
    <3>2. CASE i = 4
      <4>1. x = f + b + h + 1 /\ e[i] = g BY <3>0, <3>2
      <4> HIDE DEF x, y, f, g, h
      <4>2. x \in Int /\ y \in Int /\ x - y = b - g /\ y - x = g - b
        BY ONLY <3>4, <3>5, <4>1
      <4> QED BY ONLY <4>1, <4>2
    <3>3. CASE i = 5
      <4>1. x = f + g + b + 1 /\ e[i] = h BY <3>0, <3>3
      <4> HIDE DEF x, y, f, g, h
      <4>2. x \in Int /\ y \in Int /\ x - y = b - h /\ y - x = h - b
        BY ONLY <3>4, <3>5, <4>1
      <4> QED BY ONLY <4>1, <4>2
    <3> QED BY <1>3, <3>1, <3>2, <3>3
  <2> HIDE DEF x, y, p
  <2>5. e[i] \in Int /\ x - y < PktBase /\ y - x < PktBase BY <1>1, <2>4
  <2>6. x = y BY <1>1, <2>1, <2>2, <2>4, <2>5, CloseMultiples
  <2> QED BY <1>1, <2>4, <2>5, <2>6
<1>4. CASE i \in 6 .. Len(e)
  <2> DEFINE s == SubSeq(e, 6, Len(e))
             t == SubSeq(p, 6, Len(p))
  <2>1. s \in Seq(Byte) /\ Len(s) = Len(e) - 5 /\ i - 5 \in 1 .. Len(s)
        /\ \A j \in 1 .. Len(s) : s[j] = e[j + 5]
    BY <1>0, <1>4
  <2>2. t \in Seq(Byte) /\ Len(t) = Len(e) - 5
        /\ \A j \in 1 .. Len(s) : t[j] = p[j + 5]
    BY <1>0, <2>1
  <2>3. s[i - 5] = e[i] BY <1>0, <2>1
  <2>4. s \in Seq(Int) /\ b \in Int BY <2>1, BytesAreNumbers
  <2> HIDE DEF s, t, p
  <2>5. t = [s EXCEPT ![i - 5] = b]
    <3> DEFINE r == [s EXCEPT ![i - 5] = b]
    <3>1. /\ r \in Seq(Byte) /\ Len(r) = Len(s)
          /\ \A j \in 1 .. Len(s) : r[j] = IF j = i - 5 THEN b ELSE s[j]
      BY <2>1
    <3> HIDE DEF r
    <3>2. \A j \in 1 .. Len(t) : t[j] = r[j]
      <4> TAKE j \in 1 .. Len(t)
      <4>1. j \in 1 .. Len(s) /\ j + 5 \in 1 .. Len(e) BY <1>0, <2>1, <2>2
      <4>2. CASE j = i - 5
        <5>1. j + 5 = i BY <1>0, <4>1, <4>2
        <5> QED BY <1>0, <2>2, <3>1, <4>1, <4>2, <5>1
      <4>3. CASE j # i - 5
        <5>1. j + 5 # i BY <1>0, <4>1, <4>3
        <5> QED BY <1>0, <2>1, <2>2, <3>1, <4>1, <4>3, <5>1
      <4> QED BY <4>2, <4>3
    <3>3. t = r BY <2>1, <2>2, <3>1, <3>2, SeqEqual
    <3> QED BY <3>3 DEF r
  <2>6. SumOf(t) = SumOf(s) - s[i - 5] + b BY <2>1, <2>4, <2>5, SumExcept
  <2>7. SumOf(s) \in Int BY <2>4, SumAppend
  <2>8. (SumOf(t) + 1) % PktBase = 0 BY DEF Accepted, t
  <2>9. (SumOf(s) + 1) % PktBase = 0 BY DEF IsPacket, s
  <2> DEFINE x == SumOf(t) + 1
             y == SumOf(s) + 1
  <2>10. e[i] \in Int /\ e[i] >= 0 /\ e[i] < PktBase BY <1>1
  <2>11. x \in Int /\ y \in Int /\ x - y = b - e[i] /\ y - x = e[i] - b
    BY <1>1, <2>3, <2>6, <2>7, <2>10
  <2>12. x - y < PktBase /\ y - x < PktBase BY <1>1, <2>10, <2>11
  <2>13. x % PktBase = 0 /\ y % PktBase = 0 BY <2>8, <2>9
  <2> HIDE DEF x, y
  <2>14. x = y BY <1>1, <2>11, <2>12, <2>13, CloseMultiples
  <2> QED BY <1>1, <2>10, <2>11, <2>14
<1> QED BY <1>0, <1>2, <1>3, <1>4

\* What was encoded is on the line, but for one byte when it is damaged.
Kept == sent # Refused =>
  \E msg \in Seq(Byte), topic \in 0 .. PktBase * PktBase - 1 :
    /\ Len(msg) < PktBase * PktBase /\ sent = [msg |-> msg, topic |-> topic]
    /\ \E e : /\ IsPacket(e, msg, topic)
              /\ ~damaged => pkt = e
              /\ damaged => \E i \in 1 .. Len(e) : \E b \in Byte :
                              b # e[i] /\ pkt = [e EXCEPT ![i] = b]

\* A buffer that encode_msg() left alone has at most one byte that is not 0.
Blank == sent = Refused =>
  /\ pkt \in Seq(Byte)
  /\ ~damaged => \A i \in 1 .. Len(pkt) : pkt[i] = 0
  /\ Len(pkt) >= 2 => pkt[1] = 0 \/ pkt[2] = 0

\* The inductive invariant.
PInv == /\ Kept /\ Blank /\ HeardRight /\ damaged \in BOOLEAN
        /\ pkt = <<>> => sent = Refused /\ ~damaged

LEMMA EncodeKeeps ==
  ASSUME PInv, MaxMsg < PktBase * PktBase, NEW msg \in SeqOf(Byte, MaxMsg),
         NEW topic \in 0 .. PktBase * PktBase - 1, NEW len \in 1 .. MaxMsg + ROS_PKG_LENGTH,
         Encode(msg, topic, len)
  PROVE  PInv'
<1>0. msg \in Seq(Byte) /\ Len(msg) \in Nat /\ Len(msg) <= MaxMsg /\ MaxMsg \in Nat
      /\ PktBase * PktBase \in Int
  <2>1. PktBase * PktBase \in Int BY FlagsAreBytes, Product
  <2> QED BY <2>1, PacketsAssumption DEF SeqOf
<1>1. pkt = <<>> /\ sent = Refused /\ ~damaged /\ damaged' = damaged /\ heard' = heard
  BY DEF Encode, PInv
<1>2. heard = Refused BY <1>1 DEF PInv, HeardRight
<1>3. CASE Fits(msg, len)
  <2>1. /\ pkt' = Encoded(msg, topic) /\ sent' = [msg |-> msg, topic |-> topic]
    BY <1>3 DEF Encode
  <2>2. Len(msg) < PktBase * PktBase BY <1>0
  <2>3. IsPacket(Encoded(msg, topic), msg, topic) BY <1>0, <2>2, EncodedIsPacket
  <2>4. topic # -1 /\ sent' # Refused
    <3>1. sent'.topic = topic /\ Refused.topic = -1 BY <2>1 DEF Refused
    <3>2. topic # -1 BY <1>0
    <3> QED BY <3>1, <3>2
  <2>5. Kept' BY <1>0, <1>1, <2>1, <2>2, <2>3 DEF Kept
  <2>6. pkt' # <<>> BY <1>0, <2>1, <2>3 DEF IsPacket
  <2> QED BY <1>1, <1>2, <2>4, <2>5, <2>6 DEF PInv, Blank, HeardRight
<1>4. CASE ~Fits(msg, len)
  <2>1. pkt' = [i \in 1 .. len |-> 0] /\ sent' = sent BY <1>4 DEF Encode
  <2>2. len \in Nat /\ len >= 1
    BY <1>0 DEF ROS_PKG_LENGTH, ROS_HEADER_LENGTH
  <2>3. 0 \in Byte BY FlagsAreBytes DEF Byte
  <2>4. pkt' \in Seq(Byte) /\ Len(pkt') = len /\ \A i \in 1 .. len : pkt'[i] = 0
    BY <2>1, <2>2, <2>3
  <2>5. Blank' BY <1>1, <2>1, <2>2, <2>4 DEF Blank
  <2> QED BY <1>1, <1>2, <2>1, <2>2, <2>4, <2>5 DEF PInv, Kept, HeardRight
<1> QED BY <1>3, <1>4

LEMMA DamageKeeps ==
  ASSUME PInv, NEW i, NEW b, b \in Byte, Damage(i, b)
  PROVE  PInv'
<1>1. /\ ~damaged /\ i \in DOMAIN pkt /\ pkt[i] # b /\ pkt' = [pkt EXCEPT ![i] = b]
      /\ damaged' = TRUE /\ heard' = Refused /\ sent' = sent
  BY DEF Damage
<1>2. Kept'
  <2> SUFFICES ASSUME sent # Refused PROVE Kept'
    BY <1>1 DEF Kept
  <2>1. PICK msg \in Seq(Byte), topic \in 0 .. PktBase * PktBase - 1 :
          /\ Len(msg) < PktBase * PktBase /\ sent = [msg |-> msg, topic |-> topic]
          /\ IsPacket(pkt, msg, topic)
    BY <1>1 DEF PInv, Kept
  <2>2. i \in 1 .. Len(pkt) BY <1>1, <2>1 DEF IsPacket
  <2>3. \E k \in 1 .. Len(pkt) : \E c \in Byte : c # pkt[k] /\ pkt' = [pkt EXCEPT ![k] = c]
    BY <1>1, <2>2
  <2> QED BY <1>1, <2>1, <2>3 DEF Kept
<1>3. Blank'
  <2> SUFFICES ASSUME sent = Refused PROVE Blank'
    BY <1>1 DEF Blank
  <2>1. pkt \in Seq(Byte) /\ \A k \in 1 .. Len(pkt) : pkt[k] = 0
    BY <1>1 DEF PInv, Blank
  <2>2. pkt' \in Seq(Byte) /\ Len(pkt') = Len(pkt)
        /\ \A k \in 1 .. Len(pkt) : k # i => pkt'[k] = 0
    BY <1>1, <2>1
  <2>3. ASSUME Len(pkt) >= 2 PROVE pkt'[1] = 0 \/ pkt'[2] = 0
    <3>1. 1 \in 1 .. Len(pkt) /\ 2 \in 1 .. Len(pkt) BY <2>1, <2>3
    <3> QED BY <2>2, <3>1
  <2> QED BY <1>1, <2>2, <2>3 DEF Blank
<1>4. pkt # <<>> /\ pkt' # <<>>
  <2>1. DOMAIN pkt' = DOMAIN pkt /\ DOMAIN pkt # {} BY <1>1
  <2>2. DOMAIN <<>> = {} OBVIOUS
  <2> QED BY <2>1, <2>2
<1> QED BY <1>1, <1>2, <1>3, <1>4 DEF PInv, HeardRight

\* Whether a packet is accepted, and for what.
LEMMA Arrives ==
  ASSUME PInv
  PROVE  /\ Accepted(pkt) => ~damaged /\ sent # Refused
         /\ ~damaged /\ sent # Refused => Accepted(pkt) /\ HeardAs(pkt) = sent
<1>1. CASE sent = Refused
  <2>1. ASSUME Accepted(pkt) PROVE FALSE
    <3>1. /\ pkt \in Seq(Byte) /\ (Len(pkt) >= 2 => pkt[1] = 0 \/ pkt[2] = 0)
      BY <1>1 DEF PInv, Blank
    <3>2. Len(pkt) >= 8 /\ pkt[1] = SYNC_FLAG /\ pkt[2] = VERSION_FLAG
      BY <2>1 DEF Accepted, ROS_PKG_LENGTH, ROS_HEADER_LENGTH
    <3>3. Len(pkt) \in Nat BY <3>1
    <3>4. Len(pkt) >= 2 BY <3>2, <3>3
    <3>5. SYNC_FLAG # 0 /\ VERSION_FLAG # 0
      BY PacketsAssumption DEF SYNC_FLAG, VERSION_FLAG
    <3> QED BY <3>1, <3>2, <3>4, <3>5
  <2> QED BY <1>1, <2>1
<1>2. CASE sent # Refused
  <2>0. PICK msg \in Seq(Byte), topic \in 0 .. PktBase * PktBase - 1 :
          /\ Len(msg) < PktBase * PktBase /\ sent = [msg |-> msg, topic |-> topic]
          /\ \E e : /\ IsPacket(e, msg, topic)
                    /\ ~damaged => pkt = e
                    /\ damaged => \E i \in 1 .. Len(e) : \E b \in Byte :
                                    b # e[i] /\ pkt = [e EXCEPT ![i] = b]
    BY <1>2 DEF PInv, Kept
  <2>1. PICK e :
          /\ IsPacket(e, msg, topic)
          /\ ~damaged => pkt = e
          /\ damaged => \E i \in 1 .. Len(e) : \E b \in Byte :
                          b # e[i] /\ pkt = [e EXCEPT ![i] = b]
    BY <2>0
  <2>2. CASE damaged
    <3>1. PICK i \in 1 .. Len(e) : \E b \in Byte : b # e[i] /\ pkt = [e EXCEPT ![i] = b]
      BY <2>1, <2>2
    <3>2. PICK b : b \in Byte /\ b # e[i] /\ pkt = [e EXCEPT ![i] = b]
      BY <3>1
    <3>3. ~Accepted([e EXCEPT ![i] = b]) BY <2>1, <3>2, DamagedRefused
    <3> QED BY <2>2, <3>2, <3>3
  <2>3. CASE ~damaged
    <3>1. Accepted(e) /\ HeardAs(e) = [msg |-> msg, topic |-> topic]
      BY <2>0, <2>1, PacketAccepted
    <3> QED BY <1>2, <2>0, <2>1, <2>3, <3>1
  <2> QED BY <2>2, <2>3
<1> QED BY <1>1, <1>2

LEMMA ReceiveKeeps == ASSUME PInv, Receive PROVE PInv'
<1>1. /\ heard' = IF Accepted(pkt) THEN HeardAs(pkt) ELSE Refused
      /\ pkt' = pkt /\ sent' = sent /\ damaged' = damaged
  BY DEF Receive, HeardAs
<1>2. HeardRight'
  <2>1. CASE Accepted(pkt)
    <3>1. ~damaged /\ HeardAs(pkt) = sent BY <2>1, Arrives
    <3> QED BY <1>1, <2>1, <3>1 DEF HeardRight
  <2>2. CASE ~Accepted(pkt) BY <1>1, <2>2 DEF HeardRight
  <2> QED BY <2>1, <2>2
<1>3. Kept' /\ Blank' BY <1>1 DEF PInv, Kept, Blank
<1> QED BY <1>1, <1>2, <1>3 DEF PInv

PacketSpec == PacketInit /\ [][PacketNext]_packetVars

\* The receiver takes every packet that arrives as encode_msg() made it for
\* the message and the topic it was made of, and no packet with a wrong byte
\* for anything: for messages of any bytes whose length the two bytes of the
\* length can hold (messages.hpp 50-89).
THEOREM PacketsArriveAsSent ==
  ASSUME MaxMsg < PktBase * PktBase PROVE PacketSpec => []ReceivedAsSent
<1>1. PacketInit => PInv
  <2> SUFFICES ASSUME PacketInit PROVE PInv
    OBVIOUS
  <2>1. pkt \in Seq(Byte) /\ Len(pkt) = 0 BY DEF PacketInit
  <2>2. 1 .. 0 = {} /\ ~(0 >= 2) OBVIOUS
  <2>3. Blank BY <2>1, <2>2 DEF Blank
  <2> QED BY <2>3 DEF PacketInit, PInv, Kept, HeardRight
<1>2. PInv /\ [PacketNext]_packetVars => PInv'
  <2> SUFFICES ASSUME PInv, [PacketNext]_packetVars PROVE PInv'
    OBVIOUS
  <2>1. CASE UNCHANGED packetVars
    BY <2>1 DEF packetVars, PInv, Kept, Blank, HeardRight
  <2>2. ASSUME NEW msg \in SeqOf(Byte, MaxMsg), NEW topic \in 0 .. PktBase * PktBase - 1,
               NEW len \in 1 .. MaxMsg + ROS_PKG_LENGTH, Encode(msg, topic, len)
        PROVE  PInv'
    BY <2>2, EncodeKeeps
  <2>3. ASSUME NEW i \in 1 .. MaxMsg + ROS_PKG_LENGTH, NEW b \in Byte, Damage(i, b)
        PROVE  PInv'
    BY <2>3, DamageKeeps
  <2>4. CASE Receive BY <2>4, ReceiveKeeps
  <2> QED BY <2>1, <2>2, <2>3, <2>4 DEF PacketNext
<1>3. PInv => ReceivedAsSent
  <2> SUFFICES ASSUME PInv PROVE ReceivedAsSent
    OBVIOUS
  <2>1. EncodedIsAccepted BY Arrives DEF EncodedIsAccepted
  <2> QED BY <2>1 DEF ReceivedAsSent, PInv
<1> QED BY <1>1, <1>2, <1>3, PTL DEF PacketSpec

-----------------------------------------------------------------------------
(* Extremes of sets of naturals.                                           *)

LEMMA LeastExists ==
  ASSUME NEW S, S \subseteq Nat, S # {}
  PROVE  \E x \in S : \A y \in S : x <= y
<1>1. PICK x : x \in S /\ \A y \in S : <<y, x>> \notin OpToRel(<, Nat)
  BY NatLessThanWellFounded, WFMin
<1>2. x \in S BY <1>1
<1>3. ASSUME NEW y, y \in S PROVE x <= y
  <2>1. x \in Nat /\ y \in Nat BY <1>2, <1>3
  <2>2. ~(y < x) BY <1>1, <1>3, <2>1 DEF OpToRel
  <2> QED BY ONLY <2>1, <2>2
<1> QED BY ONLY <1>2, <1>3

LEMMA MaxIs ==
  ASSUME NEW n \in Nat, NEW S, S \subseteq 1 .. n, S # {}
  PROVE  Max(S) \in S
<1> DEFINE T == {n - x : x \in S}
<1>1. T \subseteq Nat /\ T # {}
  <2>1. ASSUME NEW x \in S PROVE n - x \in Nat
    <3>1. x \in 1 .. n OBVIOUS
    <3> QED BY <3>1
  <2>2. T \subseteq Nat BY <2>1
  <2>3. PICK x \in S : TRUE OBVIOUS
  <2>4. n - x \in T BY <2>3
  <2> QED BY <2>2, <2>4
<1>2. PICK t \in T : \A y \in T : t <= y
  <2> HIDE DEF T
  <2> QED BY <1>1, LeastExists
<1>3. PICK x \in S : t = n - x OBVIOUS
<1>4. \A y \in S : x >= y
  <2> TAKE y \in S
  <2>1. n - y \in T OBVIOUS
  <2>2. n - x <= n - y BY <1>2, <1>3, <2>1
  <2>3. x \in Nat /\ y \in Nat OBVIOUS
  <2> QED BY <2>2, <2>3
<1> HIDE DEF T
<1>5. \E m \in S : \A y \in S : m >= y BY <1>4
<1> QED BY <1>5 DEF Max

LEMMA MaxOfMore ==
  ASSUME NEW n \in Nat, NEW S, S \subseteq 1 .. n
  PROVE  Max(S \cup {n + 1}) = n + 1
<1> DEFINE T == S \cup {n + 1}
<1>1. n + 1 \in T /\ \A y \in T : n + 1 >= y OBVIOUS
<1>2. \A m \in T : (\A y \in T : m >= y) => m = n + 1
  <2> TAKE m \in T
  <2> HAVE \A y \in T : m >= y
  <2>1. m \in Nat /\ m >= n + 1 /\ n + 1 >= m BY <1>1
  <2> QED BY <2>1
<1> HIDE DEF T
<1>3. Max(T) = n + 1 BY <1>1, <1>2 DEF Max
<1> QED BY <1>3 DEF T

-----------------------------------------------------------------------------
(* ArgumentParser: what a value is parsed from.                            *)

\* A part of a part.
LEMMA SubSeqTwice ==
  ASSUME NEW S, NEW s \in Seq(S), NEW o \in Nat, o <= Len(s),
         NEW k \in Nat, o + k <= Len(s)
  PROVE  /\ SubSeq(s, o + 1, Len(s)) \in Seq(S) /\ Len(SubSeq(s, o + 1, Len(s))) = Len(s) - o
         /\ SubSeq(SubSeq(s, o + 1, Len(s)), 1, k) = SubSeq(s, o + 1, o + k)
         /\ SubSeq(s, o + 1, o + k) \in Seq(S) /\ Len(SubSeq(s, o + 1, o + k)) = k
<1> DEFINE r == SubSeq(s, o + 1, Len(s))
           p == SubSeq(r, 1, k)
           q == SubSeq(s, o + 1, o + k)
<1>1. r \in Seq(S) /\ Len(r) = Len(s) - o /\ \A i \in 1 .. Len(s) - o : r[i] = s[o + i]
  OBVIOUS
<1>2. q \in Seq(S) /\ Len(q) = k /\ \A i \in 1 .. k : q[i] = s[o + i]
  OBVIOUS
<1> HIDE DEF r, q
<1>3. p \in Seq(S) /\ Len(p) = k /\ \A i \in 1 .. k : p[i] = r[i]
  BY <1>1
<1> HIDE DEF p
<1>4. \A i \in 1 .. Len(p) : p[i] = q[i]
  <2> TAKE i \in 1 .. Len(p)
  <2>1. i \in 1 .. k /\ i \in 1 .. Len(s) - o BY <1>3
  <2> QED BY <1>1, <1>2, <1>3, <2>1
<1>5. p = q BY <1>2, <1>3, <1>4, SeqEqual
<1> QED BY <1>1, <1>2, <1>5 DEF r, p, q

\* The tokens of a vector are the next ones of argv.
LEMMA RunIs ==
  ASSUME argv \in Seq(Tokens), NEW o \in Nat, o <= Len(argv)
  PROVE  /\ Len(Run(o)) \in Nat /\ o + Len(Run(o)) <= Len(argv)
         /\ Run(o) = SubSeq(argv, o + 1, o + Len(Run(o)))
<1> DEFINE dash == {i \in DOMAIN Rest(o) : Rest(o)[i].dashes > 0}
           m == Len(argv) - o
           c == CHOOSE i \in dash : \A j \in dash : i <= j
<1>0. m \in Nat /\ o + m = Len(argv) OBVIOUS
<1>1. Rest(o) \in Seq(Tokens) /\ Len(Rest(o)) = m
      /\ Rest(o) = SubSeq(argv, o + 1, o + m)
  <2> HIDE DEF m
  <2>1. Rest(o) \in Seq(Tokens) /\ Len(Rest(o)) = Len(argv) - o
    BY <1>0, SubSeqTwice DEF Rest
  <2>2. Rest(o) = SubSeq(argv, o + 1, o + m) BY <1>0 DEF Rest
  <2> QED BY <2>1, <2>2 DEF m
<1>2. CASE dash = {}
  <2>1. Run(o) = Rest(o) BY <1>2 DEF Run
  <2> HIDE DEF m
  <2>2. Len(Run(o)) = m BY <1>1, <2>1
  <2> QED BY <1>0, <1>1, <2>1, <2>2
<1>3. CASE dash # {}
  <2>1. dash \subseteq 1 .. m BY <1>1
  <2>2. Run(o) = SubSeq(Rest(o), 1, c - 1) BY <1>3 DEF Run
  <2>3. \E i \in dash : \A j \in dash : i <= j
    <3> HIDE DEF dash
    <3>1. dash \subseteq Nat BY <2>1
    <3> QED BY <1>3, <3>1, LeastExists
  <2>4. c \in dash
    <3> HIDE DEF dash
    <3> QED BY <2>3
  <2> HIDE DEF c, dash
  <2> DEFINE k == c - 1
  <2>5. k \in Nat /\ o + k <= Len(argv) BY <1>0, <2>1, <2>4
  <2> HIDE DEF k
  <2>6. /\ SubSeq(Rest(o), 1, k) = SubSeq(argv, o + 1, o + k)
        /\ Len(SubSeq(argv, o + 1, o + k)) = k
    BY <2>5, SubSeqTwice DEF Rest
  <2>7. Run(o) = SubSeq(argv, o + 1, o + k) /\ Len(Run(o)) = k BY <2>2, <2>6 DEF k
  <2> QED BY <2>5, <2>7
<1> QED BY <1>2, <1>3

Negated(v) == ~v

LEMMA NegatedDiffers ==
  ASSUME NEW v \in BOOLEAN, NEW b \in BOOLEAN
  PROVE  Negated(v) # b <=> ~(v # b)
<1>1. v = TRUE \/ v = FALSE OBVIOUS
<1>2. b = TRUE \/ b = FALSE OBVIOUS
<1> QED BY <1>1, <1>2 DEF Negated

\* A use's value as the tokens it consumed have it.
IsParsed(r, a, o) ==
  /\ r.n \in Nat /\ o + r.n <= Len(argv) /\ r.ok \in BOOLEAN
  /\ a.type = "bool" => r.ok /\ r.val = Negated(a.value)
  /\ r.ok /\ a.type # "bool" => r.val = Denotes(a.type, SubSeq(argv, o + 1, o + r.n))
  /\ ~r.ok => /\ r.n = 0
              /\ r.val = IF a.type = "vector" /\ o < Len(argv) THEN <<>> ELSE a.value

LEMMA WhenRefused ==
  ASSUME argv \in Seq(Tokens), NEW o \in Nat, o <= Len(argv), NEW a, NEW r,
         a.type # "bool", r.ok = FALSE, r.n = 0,
         r.val = IF a.type = "vector" /\ o < Len(argv) THEN <<>> ELSE a.value
  PROVE  IsParsed(r, a, o)
<1>1. Len(argv) \in Nat /\ o + 0 = o OBVIOUS
<1>2. r.n \in Nat /\ o + r.n <= Len(argv) BY <1>1
<1>3. r.ok \in BOOLEAN /\ ~r.ok OBVIOUS
<1> QED BY <1>2, <1>3 DEF IsParsed

LEMMA WhenTaken ==
  ASSUME argv \in Seq(Tokens), NEW o \in Nat, NEW a, NEW r,
         a.type # "bool", r.ok = TRUE, r.n \in Nat, o + r.n <= Len(argv),
         r.val = Denotes(a.type, SubSeq(argv, o + 1, o + r.n))
  PROVE  IsParsed(r, a, o)
<1>1. r.ok \in BOOLEAN /\ r.ok OBVIOUS
<1> QED BY <1>1 DEF IsParsed

LEMMA ValueIsParsed ==
  ASSUME argv \in Seq(Tokens), NEW o \in Nat, o <= Len(argv),
         NEW a, a.type \in {"bool", "string", "int", "vector"}
  PROVE  IsParsed(ParseValue(a, o), a, o)
<1> DEFINE r == ParseValue(a, o)
<1> SUFFICES IsParsed(r, a, o)
  OBVIOUS
<1>0. /\ \A n, v : Taken(n, v).ok = TRUE /\ Taken(n, v).n = n /\ Taken(n, v).val = v
      /\ \A v : Refused_(v).ok = FALSE /\ Refused_(v).n = 0 /\ Refused_(v).val = v
  BY DEF Taken, Refused_
<1>1. CASE a.type = "bool"
  <2>1. r = Taken(0, Negated(a.value)) BY <1>1 DEF ParseValue, ParseBool, Negated
  <2> HIDE DEF r
  <2>2. r.ok = TRUE /\ r.n = 0 /\ r.val = Negated(a.value) BY <1>0, <2>1
  <2>3. r.ok \in BOOLEAN /\ r.ok BY <2>2
  <2>4. o + 0 <= Len(argv) OBVIOUS
  <2>5. r.n \in Nat /\ o + r.n <= Len(argv) BY <2>2, <2>4
  <2> QED BY <1>1, <2>2, <2>3, <2>5 DEF IsParsed
<1>2. ASSUME o < Len(argv)
      PROVE  LET ts == SubSeq(argv, o + 1, o + 1)
             IN  o + 1 <= Len(argv) /\ ts[1] = argv[o + 1]
  BY <1>2
<1>3. CASE a.type = "string"
  <2>1. r = ParseString(o, a.value) BY <1>3 DEF ParseValue
  <2> HIDE DEF r
  <2>2. CASE o >= Len(argv)
    <3>1. r = Refused_(a.value) BY <2>1, <2>2 DEF ParseString
    <3>2. r.ok = FALSE /\ r.n = 0 /\ r.val = a.value BY <1>0, <3>1
    <3> QED BY <1>3, <3>2, WhenRefused
  <2>3. CASE ~(o >= Len(argv))
    <3>1. r = Taken(1, argv[o + 1].name) BY <2>1, <2>3 DEF ParseString
    <3>2. o < Len(argv) BY <2>3
    <3>3. r.ok = TRUE /\ r.n = 1 /\ r.val = argv[o + 1].name BY <1>0, <3>1
    <3>4. Denotes(a.type, SubSeq(argv, o + 1, o + 1)) = argv[o + 1].name
      BY <1>2, <1>3, <3>2 DEF Denotes
    <3>5. r.n \in Nat /\ o + r.n <= Len(argv) BY <3>2, <3>3
    <3>6. r.val = Denotes(a.type, SubSeq(argv, o + 1, o + r.n)) BY <3>3, <3>4
    <3>7. a.type # "bool" BY <1>3
    <3> QED BY <3>3, <3>5, <3>6, <3>7, WhenTaken
  <2> QED BY <2>2, <2>3
<1>4. CASE a.type = "int"
  <2>1. r = ParseNumber(o, a.value) BY <1>4 DEF ParseValue
  <2> HIDE DEF r
  <2>2. CASE o >= Len(argv) \/ argv[o + 1].number = NaN
    <3>1. r = Refused_(a.value) BY <2>1, <2>2 DEF ParseNumber
    <3>2. r.ok = FALSE /\ r.n = 0 /\ r.val = a.value BY <1>0, <3>1
    <3> QED BY <1>4, <3>2, WhenRefused
  <2>3. CASE ~(o >= Len(argv) \/ argv[o + 1].number = NaN)
    <3>1. r = Taken(1, argv[o + 1].number[1]) BY <2>1, <2>3 DEF ParseNumber
    <3>2. o < Len(argv) BY <2>3
    <3>3. r.ok = TRUE /\ r.n = 1 /\ r.val = argv[o + 1].number[1] BY <1>0, <3>1
    <3>4. Denotes(a.type, SubSeq(argv, o + 1, o + 1)) = argv[o + 1].number[1]
      BY <1>2, <1>4, <3>2 DEF Denotes
    <3>5. r.n \in Nat /\ o + r.n <= Len(argv) BY <3>2, <3>3
    <3>6. r.val = Denotes(a.type, SubSeq(argv, o + 1, o + r.n)) BY <3>3, <3>4
    <3>7. a.type # "bool" BY <1>4
    <3> QED BY <3>3, <3>5, <3>6, <3>7, WhenTaken
  <2> QED BY <2>2, <2>3
<1>5. CASE a.type = "vector"
  <2>1. r = ParseVector(o, a.value) BY <1>5 DEF ParseValue
  <2> HIDE DEF r
  <2>2. CASE o >= Len(argv)
    <3>1. r = Refused_(a.value) /\ ~(o < Len(argv)) BY <2>1, <2>2 DEF ParseVector
    <3>2. r.ok = FALSE /\ r.n = 0 /\ r.val = a.value BY <1>0, <3>1
    <3> QED BY <1>5, <3>1, <3>2, WhenRefused
  <2>3. CASE ~(o >= Len(argv)) /\ Bad(Run(o))
    <3>1. r = Refused_(<<>>) /\ o < Len(argv) BY <2>1, <2>3 DEF ParseVector
    <3>2. r.ok = FALSE /\ r.n = 0 /\ r.val = <<>> BY <1>0, <3>1
    <3> QED BY <1>5, <3>1, <3>2, WhenRefused
  <2>4. CASE ~(o >= Len(argv)) /\ ~Bad(Run(o))
    <3> DEFINE k == Len(Run(o))
    <3>1. r = Taken(k, Numbers(Run(o))) BY <2>1, <2>4 DEF ParseVector
    <3>2. k \in Nat /\ o + k <= Len(argv) /\ Run(o) = SubSeq(argv, o + 1, o + k)
      BY RunIs
    <3>3. Denotes(a.type, SubSeq(argv, o + 1, o + k)) = Numbers(Run(o))
      BY <1>5, <3>2 DEF Denotes
    <3> HIDE DEF k
    <3>4. r.ok = TRUE /\ r.n = k /\ r.val = Numbers(Run(o)) BY <1>0, <3>1
    <3> QED BY <1>5, <3>2, <3>3, <3>4, WhenTaken
  <2> QED BY <2>2, <2>3, <2>4
<1> QED BY <1>1, <1>3, <1>4, <1>5

-----------------------------------------------------------------------------
(* ArgumentParser: the inductive invariant.                                *)

\* The arguments are records, a required name is that of one, and parse()
\* changes none but the values.
ArgsOK ==
  /\ \A n \in DOMAIN args :
       /\ DOMAIN args[n] = {"name", "size", "short", "type", "value", "required"}
       /\ args[n].type \in {"bool", "string", "int", "vector"}
       /\ args[n].type = "bool" => args[n].value \in BOOLEAN
  /\ required \in Seq(DOMAIN args)
  /\ step # "add" => /\ DOMAIN before = DOMAIN args
                     /\ \A n \in DOMAIN args :
                          args[n].type = "bool" => before[n].value \in BOOLEAN

UsesType ==
  /\ argv \in Seq(Tokens) /\ at \in Nat /\ at <= Len(argv)
  /\ uses \in Seq([name : DOMAIN args, from : Nat, to : Nat, ok : BOOLEAN])
  /\ step \in {"add", "required", "options", "parsed", "failed"}

\* Every use begins where the one before ended, the first ones are those of
\* the required arguments, and all but the last one are successful.
Chain ==
  /\ step = "add" => uses = <<>> /\ at = 0
  /\ \A i \in 1 .. Len(uses) : uses[i].from = IF i = 1 THEN 0 ELSE uses[i - 1].to
  /\ \A i \in 1 .. Len(uses) : i <= Len(required) => uses[i].name = required[i]
  /\ step # "failed" => /\ \A i \in 1 .. Len(uses) : uses[i].ok
                        /\ at = IF uses = <<>> THEN 0 ELSE uses[Len(uses)].to
  /\ step = "required" => Len(uses) <= Len(required)
  /\ step \in {"options", "parsed"} => Len(uses) >= Len(required)
  /\ step = "parsed" => at = Len(argv)

\* The value of the argument n is the one that argv says.
ValueOK(n) ==
  CASE args[n].type = "bool" -> args[n].value # before[n].value <=> Cardinality(Good(n)) % 2 = 1
    [] Emptied(n)   -> args[n].value = <<>>
    [] OTHER -> args[n].value = IF Good(n) = {} THEN before[n].value
                                ELSE Denotes(args[n].type, TokensOf(Max(Good(n))))

AInv == ArgsOK /\ UsesType /\ Chain /\ ValuesAreWhatArgvSays

LEMMA ValuesAre == ValuesAreWhatArgvSays <=> (step # "add" => \A n \in DOMAIN args : ValueOK(n))
BY DEF ValuesAreWhatArgvSays, ValueOK

\* The parser between two arguments: the number of uses, the use that comes
\* next, and where the value of that one begins.
Between(name, o) ==
  /\ AInv /\ step \in {"required", "options"} /\ name \in DOMAIN args
  /\ o \in Nat /\ o <= Len(argv)
  /\ o = at + (IF Len(uses) + 1 \in DOMAIN required THEN 0 ELSE 1)

Use(name, o, r) == [name |-> name, from |-> at, to |-> o + r.n, ok |-> r.ok]

\* What a step of parse_arg() does when r is what it makes of the value.
Parses(name, o, r, next) ==
  /\ IsParsed(r, args[name], o)
  /\ uses' = Append(uses, Use(name, o, r))
  /\ at' = o + r.n /\ step' = IF r.ok THEN next ELSE "failed"
  /\ DOMAIN args' = DOMAIN args
  /\ \A n \in DOMAIN args : n # name => args'[n] = args[n]
  /\ args'[name] = [args[name] EXCEPT !.value = r.val]
  /\ UNCHANGED <<required, shorts, nadds, before, argv>>

LEMMA ParseArgIs ==
  ASSUME NEW name, NEW o, Between(name, o), NEW next \in {"required", "options"},
         ParseArg(name, at, o, next)
  PROVE  \E r : Parses(name, o, r, next)
<1> DEFINE r == ParseValue(args[name], o)
<1> SUFFICES Parses(name, o, r, next)
  OBVIOUS
<1>1. IsParsed(r, args[name], o)
  <2>1. args[name].type \in {"bool", "string", "int", "vector"} BY DEF Between, AInv, ArgsOK
  <2>2. argv \in Seq(Tokens) /\ o \in Nat /\ o <= Len(argv) BY DEF Between, AInv, UsesType
  <2> QED BY <2>1, <2>2, ValueIsParsed
<1>2. /\ args' = [args EXCEPT ![name].value = r.val]
      /\ at' = o + r.n
      /\ uses' = Append(uses, [name |-> name, from |-> at, to |-> o + r.n, ok |-> r.ok])
      /\ step' = (IF r.ok THEN next ELSE "failed")
      /\ UNCHANGED <<required, shorts, nadds, before, argv>>
  BY DEF ParseArg
<1>3. name \in DOMAIN args BY DEF Between
<1> HIDE DEF r
<1>4. /\ DOMAIN args' = DOMAIN args
      /\ \A n \in DOMAIN args : n # name => args'[n] = args[n]
      /\ args'[name] = [args[name] EXCEPT !.value = r.val]
  BY <1>2, <1>3
<1>5. uses' = Append(uses, Use(name, o, r)) BY <1>2 DEF Use
<1> QED BY <1>1, <1>2, <1>4, <1>5 DEF Parses

UseSet == [name : DOMAIN args, from : Nat, to : Nat, ok : BOOLEAN]

\* One more use.
LEMMA UsesAfter ==
  ASSUME uses \in Seq(UseSet), NEW u, u \in UseSet, uses' = Append(uses, u)
  PROVE  /\ Len(uses) \in Nat /\ Len(uses') = Len(uses) + 1 /\ uses' \in Seq(UseSet)
         /\ \A i \in 1 .. Len(uses) : uses'[i] = uses[i]
         /\ uses'[Len(uses) + 1] = u
OBVIOUS

LEMMA GoodAfter ==
  ASSUME uses \in Seq(UseSet), NEW u, u \in UseSet, uses' = Append(uses, u), NEW n
  PROVE  /\ Good(n) \subseteq 1 .. Len(uses)
         /\ Good(n)' = Good(n) \cup {i \in {Len(uses) + 1} : u.name = n /\ u.ok}
<1> DEFINE k == Len(uses)
<1>1. /\ k \in Nat /\ Len(uses') = k + 1 /\ uses' \in Seq(UseSet)
      /\ \A i \in 1 .. k : uses'[i] = uses[i]
      /\ uses'[k + 1] = u
  BY UsesAfter
<1>2. DOMAIN uses = 1 .. k OBVIOUS
<1> HIDE DEF k
<1>3. DOMAIN uses' = 1 .. k + 1 BY <1>1
<1>4. 1 .. k + 1 = (1 .. k) \cup {k + 1} BY <1>1
<1>5. Good(n) = {i \in 1 .. k : uses[i].name = n /\ uses[i].ok} BY <1>2 DEF Good
<1>6. Good(n)' = {i \in (1 .. k) \cup {k + 1} : uses'[i].name = n /\ uses'[i].ok}
  BY <1>3, <1>4 DEF Good
<1>7. Good(n)' = Good(n) \cup {i \in {k + 1} : u.name = n /\ u.ok}
  BY <1>1, <1>5, <1>6
<1> QED BY <1>5, <1>7 DEF k

\* A use more or less.
LEMMA ParityAfter ==
  ASSUME NEW k \in Nat, NEW S, S \subseteq 1 .. k
  PROVE  (Cardinality(S \cup {k + 1}) % 2 = 1) <=> ~(Cardinality(S) % 2 = 1)
<1>1. IsFiniteSet(1 .. k) BY FS_Interval
<1>2. IsFiniteSet(S) BY <1>1, FS_Subset
<1>3. k + 1 \notin S OBVIOUS
<1>4. Cardinality(S) \in Nat BY <1>2, FS_CardinalityType
<1>5. Cardinality(S \cup {k + 1}) = Cardinality(S) + 1 BY <1>2, <1>3, FS_AddElement
<1> DEFINE c == Cardinality(S)
<1>6. (c + 1) % 2 = 1 <=> ~(c % 2 = 1)
  <2> HIDE DEF c
  <2> QED BY <1>4 DEF c
<1> QED BY <1>5, <1>6

\* The use that a step adds.
LEMMA UseIs ==
  ASSUME NEW name, NEW o, Between(name, o), NEW r, NEW next, Parses(name, o, r, next)
  PROVE  /\ uses \in Seq(UseSet) /\ Use(name, o, r) \in UseSet
         /\ uses' = Append(uses, Use(name, o, r))
         /\ r.n \in Nat /\ o + r.n \in Nat /\ o + r.n <= Len(argv) /\ r.ok \in BOOLEAN
<1>1. uses \in Seq(UseSet) BY DEF Between, AInv, UsesType, UseSet
<1>2. name \in DOMAIN args /\ o \in Nat /\ at \in Nat BY DEF Between, AInv, UsesType
<1>3. r.n \in Nat /\ o + r.n <= Len(argv) /\ r.ok \in BOOLEAN BY DEF Parses, IsParsed
<1>4. o + r.n \in Nat BY <1>2, <1>3
<1>5. Use(name, o, r) \in UseSet BY <1>2, <1>3, <1>4 DEF Use, UseSet
<1>6. uses' = Append(uses, Use(name, o, r)) BY DEF Parses
<1> QED BY <1>1, <1>3, <1>4, <1>5, <1>6

\* The tokens of the earlier uses are those they were, and those of the new
\* one are what its value was parsed from.
LEMMA TokensAfter ==
  ASSUME NEW name, NEW o, Between(name, o), NEW r, NEW next, Parses(name, o, r, next)
  PROVE  /\ \A i \in 1 .. Len(uses) : TokensOf(i)' = TokensOf(i)
         /\ \A i : i = Len(uses) + 1 => TokensOf(i)' = SubSeq(argv, o + 1, o + r.n)
<1> DEFINE u == Use(name, o, r)
           k == Len(uses)
<1>1. uses \in Seq(UseSet) /\ u \in UseSet /\ uses' = Append(uses, u) BY UseIs
<1>2. u.from = at /\ u.to = o + r.n BY DEF Use
<1>3. required' = required /\ argv' = argv BY DEF Parses
<1>4. o = at + (IF k + 1 \in DOMAIN required THEN 0 ELSE 1) /\ at \in Nat
  BY DEF Between, AInv, UsesType
<1> HIDE DEF u
<1>5. /\ \A i \in 1 .. k : uses'[i] = uses[i]
      /\ uses'[k + 1] = u
  BY <1>1, UsesAfter
<1> HIDE DEF k
<1>6. \A i \in 1 .. k : TokensOf(i)' = TokensOf(i) BY <1>3, <1>5 DEF TokensOf
<1>7. at + (IF k + 1 \in DOMAIN required THEN 1 ELSE 2) = o + 1 BY <1>4
<1>8. \A i : i = k + 1 => TokensOf(i)' = SubSeq(argv, o + 1, o + r.n)
  <2> TAKE i
  <2> HAVE i = k + 1
  <2>1. TokensOf(i)' = SubSeq(argv, at + (IF i \in DOMAIN required THEN 1 ELSE 2), o + r.n)
    BY <1>2, <1>3, <1>5 DEF TokensOf
  <2> QED BY <1>7, <2>1
<1> QED BY <1>6, <1>8 DEF k

\* Between two arguments none was refused.
LEMMA NoneEmptied ==
  ASSUME NEW name, NEW o, Between(name, o)
  PROVE  \A n : ~Emptied(n)
<1>1. step # "failed" BY DEF Between
<1>2. \A i \in 1 .. Len(uses) : uses[i].ok BY <1>1 DEF Between, AInv, Chain
<1>3. uses \in Seq(UseSet) BY DEF Between, AInv, UsesType, UseSet
<1>4. DOMAIN uses = 1 .. Len(uses) BY <1>3
<1> QED BY <1>2, <1>4 DEF Emptied

\* After the step, only the refused argument can be an emptied one.
LEMMA EmptiedAfter ==
  ASSUME NEW name, NEW o, Between(name, o), NEW r, NEW next, Parses(name, o, r, next), NEW n
  PROVE  Emptied(n)' <=> /\ n = name /\ ~r.ok
                         /\ args'[n].type = "vector" /\ o + r.n < Len(argv)
<1> DEFINE u == Use(name, o, r)
           k == Len(uses)
<1>1. uses \in Seq(UseSet) /\ u \in UseSet /\ uses' = Append(uses, u) BY UseIs
<1>2. u.name = name /\ u.ok = r.ok /\ u.to = o + r.n BY DEF Use
<1>3. argv' = argv BY DEF Parses
<1> HIDE DEF u
<1>4. /\ k \in Nat /\ Len(uses') = k + 1 /\ uses' \in Seq(UseSet)
      /\ \A i \in 1 .. k : uses'[i] = uses[i]
      /\ uses'[k + 1] = u
  BY <1>1, UsesAfter
<1>5. \A i \in 1 .. k : uses[i].ok
  <2>1. step # "failed" BY DEF Between
  <2> QED BY <2>1 DEF Between, AInv, Chain
<1> HIDE DEF k
<1>6. DOMAIN uses' = (1 .. k) \cup {k + 1} BY <1>4
<1>7. Emptied(n)' <=> \E i \in (1 .. k) \cup {k + 1} :
                        /\ uses'[i].name = n /\ ~uses'[i].ok
                        /\ args'[n].type = "vector" /\ uses'[i].to < Len(argv)
  BY <1>3, <1>6 DEF Emptied
<1>8. \A i \in 1 .. k : uses'[i].ok BY <1>4, <1>5
<1>9. /\ uses'[k + 1].name = name /\ uses'[k + 1].ok = r.ok
      /\ uses'[k + 1].to = o + r.n
  BY <1>2, <1>4
<1> QED BY <1>7, <1>8, <1>9, Zenon

LEMMA ValuesAfter ==
  ASSUME NEW name, NEW o, Between(name, o), NEW r, NEW next, Parses(name, o, r, next),
         NEW n, n \in DOMAIN args, ValueOK(n)
  PROVE  ValueOK(n)'
<1> DEFINE u == Use(name, o, r)
           k == Len(uses)
<1>1. /\ uses \in Seq(UseSet) /\ u \in UseSet /\ uses' = Append(uses, u)
      /\ r.n \in Nat /\ o + r.n <= Len(argv) /\ r.ok \in BOOLEAN
  BY UseIs
<1>2. u.name = name /\ u.ok = r.ok BY DEF Use
<1>3. k \in Nat BY <1>1
<1> HIDE DEF u
<1>4. /\ Good(n) \subseteq 1 .. k
      /\ Good(n)' = Good(n) \cup {i \in {k + 1} : u.name = n /\ u.ok}
  BY <1>1, GoodAfter
<1>5. ~Emptied(n) BY NoneEmptied
<1>6. /\ \A i \in 1 .. k : TokensOf(i)' = TokensOf(i)
      /\ \A i : i = k + 1 => TokensOf(i)' = SubSeq(argv, o + 1, o + r.n)
  BY TokensAfter
<1>7. Emptied(n)' <=> /\ n = name /\ ~r.ok
                      /\ args'[n].type = "vector" /\ o + r.n < Len(argv)
  BY EmptiedAfter
<1>8. before' = before BY DEF Parses
<1> HIDE DEF k
<1> DEFINE G == Good(n)
           G1 == Good(n)'
           Expected == IF Good(n) = {} THEN before[n].value
                       ELSE Denotes(args[n].type, TokensOf(Max(Good(n))))
<1>v. args'[n] = IF n = name THEN [args[n] EXCEPT !.value = r.val] ELSE args[n]
  BY DEF Parses
<1>f. DOMAIN args[n] = {"name", "size", "short", "type", "value", "required"}
  BY DEF Between, AInv, ArgsOK
<1>w. n = name => args'[n].value = r.val BY <1>v, <1>f
<1>t. args'[n].type = args[n].type BY <1>v, <1>f
<1>9. Good(n)' # {} => /\ Max(Good(n)') \in 1 .. k + 1
                       /\ TokensOf(Max(Good(n)))' =
                            IF Max(Good(n)') = k + 1 THEN SubSeq(argv, o + 1, o + r.n)
                            ELSE TokensOf(Max(Good(n)'))
  <2> DEFINE m == Max(Good(n)')
  <2>1. SUFFICES ASSUME Good(n)' # {}
                 PROVE  /\ m \in 1 .. k + 1
                        /\ TokensOf(Max(Good(n)))' =
                             IF m = k + 1 THEN SubSeq(argv, o + 1, o + r.n) ELSE TokensOf(m)
    OBVIOUS
  <2>2. m \in 1 .. k + 1
    <3>1. G1 \subseteq 1 .. k + 1 BY <1>3, <1>4
    <3>2. k + 1 \in Nat /\ G1 # {} BY <1>3, <2>1
    <3> HIDE DEF G1
    <3>3. Max(G1) \in G1 BY <3>1, <3>2, MaxIs
    <3> QED BY <3>1, <3>3 DEF G1
  <2>3. \A i : i = m => TokensOf(i)' = TokensOf(Max(Good(n)))'
    <3> TAKE i
    <3> HAVE i = m
    <3> QED BY DEF TokensOf
  <2> HIDE DEF m
  <2>4. m \in 1 .. k \/ m = k + 1 BY <1>3, <2>2
  <2>5. k + 1 \notin 1 .. k BY <1>3
  <2> QED BY <1>6, <2>2, <2>3, <2>4, <2>5
<1>10. G1 = G \/ (n = name /\ r.ok /\ G1 = G \cup {k + 1})
  BY <1>2, <1>4
<1>11. ~(n = name /\ r.ok) => G1 = G
  BY <1>2, <1>4
<1>12. n = name /\ r.ok => G1 = G \cup {k + 1}
  BY <1>2, <1>4
<1>13. G1 = G => Expected' = Expected
  <2> SUFFICES ASSUME G1 = G PROVE Expected' = Expected
    OBVIOUS
  <2>1. CASE G = {} BY <1>8, <1>t, <2>1
  <2>2. CASE G # {}
    <3>1. Max(G) \in 1 .. k BY <1>3, <1>4, <2>2, MaxIs
    <3>2. Max(G) # k + 1 BY <1>3, <3>1
    <3>3. TokensOf(Max(Good(n)))' = TokensOf(Max(Good(n))) BY <1>9, <2>2, <3>2
    <3> QED BY <1>t, <2>2, <3>3
  <2> QED BY <2>1, <2>2
<1>14. CASE args[n].type = "bool"
  <2> DEFINE odd == Cardinality(G) % 2 = 1
             odd1 == Cardinality(G1) % 2 = 1
             v == args[n].value
             b == before[n].value
  <2>1. v \in BOOLEAN /\ b \in BOOLEAN
    BY <1>14 DEF Between, AInv, ArgsOK
  <2>e. ~Emptied(n)' BY <1>7, <1>14, <1>t
  <2>2. v # b <=> odd BY <1>5, <1>14 DEF ValueOK
  <2>3. CASE n = name
    <3>1. r.ok /\ r.val = Negated(v) BY <1>14, <2>3 DEF Parses, IsParsed
    <3>2. args'[n].value = Negated(v) BY <1>w, <2>3, <3>1
    <3>3. odd1 <=> ~odd
      <4>1. G1 = G \cup {k + 1} BY <1>12, <2>3, <3>1
      <4> QED BY <1>3, <1>4, <4>1, ParityAfter
    <3> HIDE DEF v, b, odd, odd1
    <3>4. Negated(v) # b <=> ~(v # b) BY <2>1, NegatedDiffers
    <3>5. args'[n].value # b <=> odd1 BY <2>2, <3>2, <3>3, <3>4
    <3> QED BY <1>8, <1>14, <1>t, <2>e, <3>5 DEF ValueOK, b, odd1
  <2>4. CASE n # name
    <3>1. G1 = G /\ args'[n] = args[n] BY <1>11, <1>v, <2>4
    <3> QED BY <1>8, <1>14, <2>e, <2>2, <3>1 DEF ValueOK
  <2> QED BY <2>3, <2>4
<1>15. CASE args[n].type # "bool"
  <2>1. args[n].value = Expected BY <1>5, <1>15 DEF ValueOK
  <2>2. CASE n # name
    <3>1. args'[n].value = Expected' BY <1>11, <1>13, <1>v, <2>1, <2>2
    <3>2. ~Emptied(n)' BY <1>7, <2>2
    <3> QED BY <1>15, <1>t, <3>1, <3>2 DEF ValueOK
  <2>3. CASE n = name /\ r.ok
    <3>1. G1 = G \cup {k + 1} /\ ~Emptied(n)' BY <1>7, <1>12, <2>3
    <3>2. Max(G1) = k + 1 BY <1>3, <1>4, <3>1, MaxOfMore
    <3>3. G1 # {} BY <3>1
    <3>4. TokensOf(Max(Good(n)))' = SubSeq(argv, o + 1, o + r.n) BY <1>9, <3>2, <3>3
    <3>5. r.val = Denotes(args[n].type, SubSeq(argv, o + 1, o + r.n))
      BY <1>15, <2>3 DEF Parses, IsParsed
    <3>6. args'[n].value = r.val BY <1>w, <2>3
    <3>7. args'[n].value = Expected' BY <1>t, <3>3, <3>4, <3>5, <3>6
    <3> QED BY <1>15, <1>t, <3>1, <3>7 DEF ValueOK
  <2>4. CASE n = name /\ ~r.ok
    <3>1. /\ r.n = 0 /\ args'[n].value = r.val
          /\ r.val = IF args[n].type = "vector" /\ o < Len(argv) THEN <<>> ELSE args[n].value
      BY <1>w, <2>4 DEF Parses, IsParsed
    <3>2. o + r.n = o BY <3>1 DEF Between
    <3>3. Emptied(n)' <=> args[n].type = "vector" /\ o < Len(argv) BY <1>7, <1>t, <2>4, <3>2
    <3>4. CASE Emptied(n)' BY <1>15, <1>t, <3>1, <3>3, <3>4 DEF ValueOK
    <3>5. CASE ~Emptied(n)'
      <4>1. args'[n].value = Expected' BY <1>11, <1>13, <2>1, <2>4, <3>1, <3>3, <3>5
      <4> QED BY <1>15, <1>t, <3>5, <4>1 DEF ValueOK
    <3> QED BY <3>4, <3>5
  <2> QED BY <1>1, <2>2, <2>3, <2>4
<1> QED BY <1>14, <1>15

\* A bool stays one, and the rest of the table is as it was.
LEMMA ArgsAfter ==
  ASSUME NEW name, NEW o, Between(name, o), NEW next \in {"required", "options"}, NEW r,
         Parses(name, o, r, next)
  PROVE  ArgsOK'
<1>1. step # "add" /\ step' # "add" BY DEF Between, Parses
<1>2. /\ DOMAIN args' = DOMAIN args /\ required' = required /\ before' = before
      /\ \A n \in DOMAIN args : n # name => args'[n] = args[n]
      /\ args'[name] = [args[name] EXCEPT !.value = r.val]
  BY DEF Parses
<1>3. ArgsOK /\ name \in DOMAIN args BY DEF Between, AInv
<1>4. ASSUME NEW n, n \in DOMAIN args
      PROVE  /\ DOMAIN args'[n] = {"name", "size", "short", "type", "value", "required"}
             /\ args'[n].type = args[n].type
             /\ args[n].type = "bool" => args'[n].value \in BOOLEAN
  <2>1. /\ DOMAIN args[n] = {"name", "size", "short", "type", "value", "required"}
        /\ args[n].type = "bool" => args[n].value \in BOOLEAN
    BY <1>3, <1>4 DEF ArgsOK
  <2>2. CASE n # name BY <1>2, <1>4, <2>1, <2>2
  <2>3. CASE n = name
    <3>1. args[n].type = "bool" => r.val = Negated(args[n].value)
      BY <2>3 DEF Parses, IsParsed
    <3>2. Negated(args[n].value) \in BOOLEAN BY DEF Negated
    <3> QED BY <1>2, <2>1, <2>3, <3>1, <3>2
  <2> QED BY <2>2, <2>3
<1>5. \A n \in DOMAIN args' :
        /\ DOMAIN args'[n] = {"name", "size", "short", "type", "value", "required"}
        /\ args'[n].type \in {"bool", "string", "int", "vector"}
        /\ args'[n].type = "bool" => args'[n].value \in BOOLEAN
  BY <1>2, <1>3, <1>4 DEF ArgsOK
<1>6. required' \in Seq(DOMAIN args') BY <1>2, <1>3 DEF ArgsOK
<1>7. DOMAIN before' = DOMAIN args' BY <1>1, <1>2, <1>3 DEF ArgsOK
<1>8. \A n \in DOMAIN args' : args'[n].type = "bool" => before'[n].value \in BOOLEAN
  BY <1>1, <1>2, <1>3, <1>4 DEF ArgsOK
<1> QED BY <1>5, <1>6, <1>7, <1>8 DEF ArgsOK

LEMMA UsesTypeAfter ==
  ASSUME NEW name, NEW o, Between(name, o), NEW next \in {"required", "options"}, NEW r,
         Parses(name, o, r, next)
  PROVE  UsesType'
<1>1. /\ uses \in Seq(UseSet) /\ Use(name, o, r) \in UseSet
      /\ uses' = Append(uses, Use(name, o, r))
      /\ o + r.n \in Nat /\ o + r.n <= Len(argv)
  BY UseIs
<1>2. uses' \in Seq(UseSet) BY <1>1, UsesAfter
<1>3. DOMAIN args' = DOMAIN args /\ argv' = argv /\ at' = o + r.n BY DEF Parses
<1>4. UseSet' = UseSet BY <1>3 DEF UseSet
<1>5. step' \in {"add", "required", "options", "parsed", "failed"} BY DEF Parses
<1>6. argv \in Seq(Tokens) BY DEF Between, AInv, UsesType
<1> QED BY <1>1, <1>2, <1>3, <1>4, <1>5, <1>6 DEF UsesType, UseSet

LEMMA ValuesKept ==
  ASSUME NEW name, NEW o, Between(name, o), NEW r, NEW next, Parses(name, o, r, next)
  PROVE  ValuesAreWhatArgvSays'
<1>1. step # "add" BY DEF Between
<1>2. \A n \in DOMAIN args : ValueOK(n) BY <1>1, ValuesAre DEF Between, AInv
<1>3. DOMAIN args' = DOMAIN args BY DEF Parses
<1>4. \A n \in DOMAIN args' : ValueOK(n)' BY <1>2, <1>3, ValuesAfter
<1> QED BY <1>4 DEF ValuesAreWhatArgvSays, ValueOK

\* The new use begins where the last one ended.
LEMMA ChainAfter ==
  ASSUME NEW name, NEW o, Between(name, o), NEW next \in {"required", "options"}, NEW r,
         Parses(name, o, r, next), next = step,
         step = "required" => /\ Len(uses) < Len(required)
                              /\ name = required[Len(uses) + 1]
  PROVE  Chain'
<1> DEFINE u == Use(name, o, r)
           k == Len(uses)
<1>1. /\ uses \in Seq(UseSet) /\ u \in UseSet /\ uses' = Append(uses, u)
      /\ r.ok \in BOOLEAN
  BY UseIs
<1>2. u.name = name /\ u.ok = r.ok /\ u.to = o + r.n /\ u.from = at BY DEF Use
<1>3. /\ required' = required /\ at' = o + r.n /\ argv' = argv
      /\ step' = IF r.ok THEN next ELSE "failed"
  BY DEF Parses
<1> HIDE DEF u
<1>4. /\ k \in Nat /\ Len(uses') = k + 1 /\ uses' \in Seq(UseSet)
      /\ \A i \in 1 .. k : uses'[i] = uses[i]
      /\ uses'[k + 1] = u
  BY <1>1, UsesAfter
<1>5. /\ Chain /\ step \in {"required", "options"}
      /\ required \in Seq(DOMAIN args)
  BY DEF Between, AInv, ArgsOK
<1>6. /\ \A i \in 1 .. k : uses[i].from = IF i = 1 THEN 0 ELSE uses[i - 1].to
      /\ \A i \in 1 .. k : i <= Len(required) => uses[i].name = required[i]
      /\ \A i \in 1 .. k : uses[i].ok
      /\ at = IF uses = <<>> THEN 0 ELSE uses[k].to
      /\ step = "required" => k <= Len(required)
      /\ step = "options" => k >= Len(required)
  BY <1>5 DEF Chain
<1>7. uses = <<>> <=> k = 0 BY <1>1
<1>8. uses' # <<>> BY <1>4
<1> HIDE DEF k
<1>9. \A i \in 1 .. k + 1 : i \in 1 .. k \/ i = k + 1 BY <1>4
<1>10. \A i \in 1 .. k + 1 : uses'[i].from = IF i = 1 THEN 0 ELSE uses'[i - 1].to
  <2> TAKE i \in 1 .. k + 1
  <2>1. CASE i \in 1 .. k
    <3>1. i # 1 => i - 1 \in 1 .. k BY <1>4, <2>1
    <3> QED BY <1>4, <1>6, <2>1, <3>1
  <2>2. CASE i = k + 1
    <3>1. uses'[i].from = at BY <1>2, <1>4, <2>2
    <3>2. CASE k = 0
      <4>1. i = 1 /\ at = 0 BY <1>6, <1>7, <2>2, <3>2
      <4> QED BY <3>1, <4>1
    <3>3. CASE k # 0
      <4>1. i # 1 /\ i - 1 = k /\ k \in 1 .. k BY <1>4, <2>2, <3>3
      <4>2. at = uses[k].to BY <1>6, <1>7, <3>3
      <4>3. uses'[i - 1] = uses[k] BY <1>4, <4>1
      <4> QED BY <3>1, <4>1, <4>2, <4>3
    <3> QED BY <3>2, <3>3
  <2> QED BY <1>9, <2>1, <2>2
<1>11. \A i \in 1 .. k + 1 : i <= Len(required) => uses'[i].name = required[i]
  <2> TAKE i \in 1 .. k + 1
  <2> HAVE i <= Len(required)
  <2>1. CASE i \in 1 .. k BY <1>4, <1>6, <2>1
  <2>2. CASE i = k + 1
    <3>1. Len(required) \in Nat BY <1>5
    <3>2. step = "required" BY <1>4, <1>5, <1>6, <2>2, <3>1
    <3>3. uses'[i].name = name BY <1>2, <1>4, <2>2
    <3> QED BY <2>2, <3>2, <3>3 DEF k
  <2> QED BY <1>9, <2>1, <2>2
<1>12. step' # "failed" => \A i \in 1 .. k + 1 : uses'[i].ok
  <2> SUFFICES ASSUME step' # "failed", NEW i \in 1 .. k + 1 PROVE uses'[i].ok
    OBVIOUS
  <2>1. CASE i \in 1 .. k BY <1>4, <1>6, <2>1
  <2>2. CASE i = k + 1 BY <1>2, <1>3, <1>4, <2>2
  <2> QED BY <1>9, <2>1, <2>2
<1>13. at' = uses'[k + 1].to BY <1>2, <1>3, <1>4
<1>14. step' = "required" => k + 1 <= Len(required)
  <2>1. Len(required) \in Nat BY <1>5
  <2> QED BY <1>3, <1>4, <2>1 DEF k
<1>15. step' = "options" => k + 1 >= Len(required)
  <2>1. Len(required) \in Nat BY <1>5
  <2>2. step' = "options" => step = "options" BY <1>3
  <2> QED BY <1>4, <1>6, <2>1, <2>2
<1>16. step' # "add" /\ step' # "parsed" BY <1>3
<1> QED BY <1>3, <1>4, <1>8, <1>10, <1>11, <1>12, <1>13, <1>14, <1>15, <1>16 DEF Chain

LEMMA ParseArgKeeps ==
  ASSUME NEW name, NEW o, Between(name, o), ParseArg(name, at, o, step),
         step = "required" => /\ Len(uses) < Len(required)
                              /\ name = required[Len(uses) + 1]
  PROVE  AInv'
<1>1. step \in {"required", "options"} BY DEF Between
<1>2. PICK r : Parses(name, o, r, step) BY <1>1, ParseArgIs
<1>3. ArgsOK' /\ UsesType' BY <1>1, <1>2, ArgsAfter, UsesTypeAfter
<1>4. Chain' BY <1>1, <1>2, ChainAfter
<1>5. ValuesAreWhatArgvSays' BY <1>2, ValuesKept
<1> QED BY <1>3, <1>4, <1>5 DEF AInv

LEMMA AddKeeps ==
  ASSUME AInv, NEW a, a \in Options, Add(a)
  PROVE  AInv'
<1>1. /\ step = "add" /\ step' = "add" /\ UNCHANGED <<argv, at, uses>>
      /\ required' = (IF a.required THEN Append(required, a.name) ELSE required)
      /\ args' = Added(a)
  BY DEF Add, AInv
<1>2. /\ DOMAIN args' = DOMAIN args \cup {a.name}
      /\ \A n \in DOMAIN args' : args'[n] = IF n \in DOMAIN args THEN args[n] ELSE a
  BY <1>1 DEF Added
<1>3. ArgsOK'
  <2>1. ASSUME NEW n, n \in DOMAIN args'
        PROVE  /\ DOMAIN args'[n] = {"name", "size", "short", "type", "value", "required"}
               /\ args'[n].type \in {"bool", "string", "int", "vector"}
               /\ args'[n].type = "bool" => args'[n].value \in BOOLEAN
    <3>1. CASE n \in DOMAIN args BY <1>2, <2>1, <3>1 DEF AInv, ArgsOK
    <3>2. CASE n \notin DOMAIN args
      <4>1. args'[n] = a BY <1>2, <2>1, <3>2
      <4> QED BY <4>1, ParserAssumption
    <3> QED BY <3>1, <3>2
  <2>2. required' \in Seq(DOMAIN args')
    <3>1. required \in Seq(DOMAIN args) /\ DOMAIN args \subseteq DOMAIN args'
      BY <1>2 DEF AInv, ArgsOK
    <3>2. required \in Seq(DOMAIN args') BY <3>1
    <3> DEFINE D == DOMAIN args'
    <3>3. a.name \in D /\ required \in Seq(D) BY <1>2, <3>2
    <3> HIDE DEF D
    <3>4. required' \in Seq(D) BY <1>1, <3>3
    <3> QED BY <3>4 DEF D
  <2> QED BY <1>1, <2>1, <2>2 DEF ArgsOK
<1>4. uses = <<>> /\ at = 0 BY <1>1 DEF AInv, Chain
<1>5. UsesType' BY <1>1, <1>4 DEF AInv, UsesType
<1>6. Chain' BY <1>1, <1>4 DEF Chain
<1>7. ValuesAreWhatArgvSays' BY <1>1 DEF ValuesAreWhatArgvSays
<1> QED BY <1>3, <1>5, <1>6, <1>7 DEF AInv

LEMMA CallKeeps ==
  ASSUME AInv, NEW v, v \in SeqOf(Tokens, MaxArgs), Call(v)
  PROVE  AInv'
<1>1. /\ step = "add" /\ argv' = v /\ before' = args /\ step' \in {"failed", "required"}
      /\ UNCHANGED <<args, required, shorts, nadds, at, uses>>
  BY DEF Call
<1>2. v \in Seq(Tokens) BY ParserAssumption DEF SeqOf
<1>3. uses = <<>> /\ at = 0 BY <1>1 DEF AInv, Chain
<1>4. ArgsOK' BY <1>1 DEF AInv, ArgsOK
<1>5. UsesType'
  <2>1. Len(v) \in Nat BY <1>2
  <2> QED BY <1>1, <1>2, <1>3, <2>1 DEF AInv, UsesType
<1>6. Chain'
  <2>1. Len(required) \in Nat BY DEF AInv, ArgsOK
  <2> QED BY <1>1, <1>3, <2>1 DEF Chain
<1>7. ValuesAreWhatArgvSays'
  <2>1. ASSUME NEW n, n \in DOMAIN args' PROVE ValueOK(n)'
    <3>1. Good(n)' = {} /\ ~Emptied(n)' BY <1>1, <1>3 DEF Good, Emptied
    <3>2. ~(Cardinality(Good(n)') % 2 = 1)
      <4>1. Cardinality(Good(n)') = 0 BY <3>1, FS_EmptySet
      <4> QED BY <4>1
    <3>3. args'[n].value = before'[n].value BY <1>1
    <3> QED BY <3>1, <3>2, <3>3 DEF ValueOK
  <2> QED BY <2>1 DEF ValuesAreWhatArgvSays, ValueOK
<1> QED BY <1>4, <1>5, <1>6, <1>7 DEF AInv

LEMMA RequiredArgKeeps == ASSUME AInv, RequiredArg PROVE AInv'
<1> DEFINE name == required[Len(uses) + 1]
<1>1. /\ step = "required" /\ Len(uses) < Len(required)
      /\ ParseArg(name, at, at, step)
  BY DEF RequiredArg
<1>2. /\ required \in Seq(DOMAIN args) /\ Len(uses) \in Nat
      /\ at \in Nat /\ at <= Len(argv)
  BY DEF AInv, ArgsOK, UsesType
<1>3. Len(uses) + 1 \in DOMAIN required BY <1>1, <1>2
<1>4. name \in DOMAIN args BY <1>2, <1>3
<1>5. at = at + 0 BY <1>2
<1>6. Between(name, at) BY <1>1, <1>2, <1>3, <1>4, <1>5 DEF Between
<1> QED BY <1>1, <1>6, ParseArgKeeps

LEMMA OptionKeeps == ASSUME AInv, Option PROVE AInv'
<1>1. /\ step = "options" /\ at < Len(argv)
      /\ \E name \in Known(argv[at + 1]) : ParseArg(name, at, at + 1, step)
  BY DEF Option
<1>2. PICK name \in Known(argv[at + 1]) : ParseArg(name, at, at + 1, step) BY <1>1
<1>3. name \in DOMAIN args BY DEF Known
<1>4. /\ required \in Seq(DOMAIN args) /\ Len(uses) \in Nat /\ at \in Nat
      /\ argv \in Seq(Tokens)
  BY DEF AInv, ArgsOK, UsesType
<1>5. Len(uses) >= Len(required) BY <1>1 DEF AInv, Chain
<1>6. Len(uses) + 1 \notin DOMAIN required BY <1>4, <1>5
<1>7. at + 1 \in Nat /\ at + 1 <= Len(argv) BY <1>1, <1>4
<1>8. Between(name, at + 1) BY <1>1, <1>3, <1>6, <1>7 DEF Between
<1> QED BY <1>1, <1>2, <1>8, ParseArgKeeps

LEMMA SameValues ==
  ASSUME ValuesAreWhatArgvSays, step # "add", UNCHANGED <<table, argv, uses>>
  PROVE  ValuesAreWhatArgvSays'
<1>1. ASSUME NEW n, n \in DOMAIN args' PROVE ValueOK(n)'
  <2>1. ValueOK(n) BY <1>1, ValuesAre DEF table
  <2>2. UNCHANGED <<args, before, required, argv, uses>> BY DEF table
  <2>3. Good(n)' = Good(n) /\ (Emptied(n)' <=> Emptied(n)) BY <2>2 DEF Good, Emptied
  <2>4. TokensOf(Max(Good(n)))' = TokensOf(Max(Good(n))) BY <2>2, <2>3 DEF TokensOf
  <2> QED BY <2>1, <2>2, <2>3, <2>4 DEF ValueOK
<1> QED BY <1>1 DEF ValuesAreWhatArgvSays, ValueOK

\* The steps of parse() that parse no argument.
LEMMA OthersKeep ==
  ASSUME AInv, RequiredDone \/ Unknown \/ Finish
  PROVE  AInv'
<1>1. /\ UNCHANGED <<table, argv, uses>> /\ step # "add" /\ step' # "add"
      /\ step' \in {"options", "failed", "parsed"} /\ step # "failed"
  BY DEF RequiredDone, Unknown, Finish
<1>2. ArgsOK' BY <1>1 DEF AInv, ArgsOK, table
<1>3. at' \in Nat /\ at' <= Len(argv)
  <2>1. at \in Nat /\ at <= Len(argv) /\ Len(argv) \in Nat BY DEF AInv, UsesType
  <2> QED BY <2>1 DEF RequiredDone, Unknown, Finish
<1>4. UsesType' BY <1>1, <1>3 DEF AInv, UsesType, table
<1>5. Chain'
  <2>1. Chain /\ required' = required BY <1>1 DEF AInv, table
  <2>2. step' # "failed" => at' = at BY DEF RequiredDone, Unknown, Finish
  <2>3. step' \in {"options", "parsed"} => Len(uses) >= Len(required)
    <3>1. Len(uses) \in Nat BY DEF AInv, UsesType
    <3> QED BY <2>1, <3>1 DEF Chain, RequiredDone, Unknown, Finish
  <2>4. step' = "parsed" => at' = Len(argv) BY DEF RequiredDone, Unknown, Finish
  <2> QED BY <1>1, <2>1, <2>2, <2>3, <2>4 DEF Chain
<1>6. ValuesAreWhatArgvSays' BY <1>1, SameValues DEF AInv
<1> QED BY <1>2, <1>4, <1>5, <1>6 DEF AInv

LEMMA ParserInductive ==
  ASSUME AInv, [ParserNext]_parserVars
  PROVE  AInv'
<1>1. ASSUME NEW a \in Options, Add(a) PROVE AInv' BY <1>1, AddKeeps
<1>2. ASSUME NEW v \in SeqOf(Tokens, MaxArgs), Call(v) PROVE AInv' BY <1>2, CallKeeps
<1>3. CASE RequiredArg BY <1>3, RequiredArgKeeps
<1>4. CASE RequiredDone \/ Unknown \/ Finish BY <1>4, OthersKeep
<1>5. CASE Option BY <1>5, OptionKeeps
<1>6. CASE UNCHANGED parserVars
  <2>1. UNCHANGED <<table, argv, uses, at, step>> BY <1>6 DEF parserVars, table
  <2>2. ValuesAreWhatArgvSays'
    <3>1. CASE step = "add" BY <2>1, <3>1 DEF ValuesAreWhatArgvSays
    <3>2. CASE step # "add" BY <2>1, <3>2, SameValues DEF AInv
    <3> QED BY <3>1, <3>2
  <2>3. ArgsOK' /\ UsesType' /\ Chain' BY <2>1 DEF AInv, ArgsOK, UsesType, Chain, table
  <2> QED BY <2>2, <2>3 DEF AInv
<1> QED BY <1>1, <1>2, <1>3, <1>4, <1>5, <1>6 DEF ParserNext

\* What the chain of uses says when parse() returns true.
LEMMA ChainCovers == ASSUME AInv PROVE EveryTokenIsUsed
<1> SUFFICES ASSUME step = "parsed"
             PROVE  /\ \A i \in DOMAIN uses :
                         uses[i].ok /\ uses[i].from = (IF i = 1 THEN 0 ELSE uses[i - 1].to)
                    /\ Len(argv) = (IF uses = <<>> THEN 0 ELSE uses[Len(uses)].to)
                    /\ [i \in 1 .. Len(required) |-> uses[i].name] = required
  BY DEF EveryTokenIsUsed
<1>1. DOMAIN uses = 1 .. Len(uses) /\ Len(uses) \in Nat BY DEF AInv, UsesType
<1>2. required \in Seq(DOMAIN args) BY DEF AInv, ArgsOK
<1>3. Len(uses) >= Len(required) BY DEF AInv, Chain
<1>4. \A i \in 1 .. Len(required) : uses[i].name = required[i]
  <2> TAKE i \in 1 .. Len(required)
  <2>1. i \in 1 .. Len(uses) /\ i <= Len(required) BY <1>1, <1>2, <1>3
  <2> QED BY <2>1 DEF AInv, Chain
<1>5. [i \in 1 .. Len(required) |-> uses[i].name] = required BY <1>2, <1>4
<1> QED BY <1>1, <1>5 DEF AInv, Chain

\* The parser, from the first argument added to the end of parse().
ParserSpec == ParserInit /\ [][ParserNext]_parserVars

\* The command line is understood whole, whatever the arguments and however
\* long argv: a parse() that succeeds used every token once and in order, and
\* the arguments have the values that their tokens mean, also when it fails.
THEOREM ArgumentsAreParsed == ParserSpec => []ParsedAsGiven
<1>1. ParserInit => AInv
  <2> SUFFICES ASSUME ParserInit PROVE AInv
    OBVIOUS
  <2>1. ArgsOK BY DEF ParserInit, ArgsOK
  <2>2. UsesType BY DEF ParserInit, UsesType
  <2>3. Chain BY DEF ParserInit, Chain
  <2>4. ValuesAreWhatArgvSays BY DEF ParserInit, ValuesAreWhatArgvSays
  <2> QED BY <2>1, <2>2, <2>3, <2>4 DEF AInv
<1>2. AInv /\ [ParserNext]_parserVars => AInv' BY ParserInductive
<1>3. AInv => ParsedAsGiven BY ChainCovers DEF ParsedAsGiven, AInv
<1> QED BY <1>1, <1>2, <1>3, PTL DEF ParserSpec

-----------------------------------------------------------------------------
(* Serialization: numbers.                                                 *)

Octet == 0 .. Base - 1

\* g holds the values of the ends of s.
Horner(s, n, g) ==
  g[0] = 0 /\ \A i \in 1 .. n : g[i] = s[Len(s) + 1 - i] + Base * g[i - 1]

LEMMA HornerExists == ASSUME NEW s PROVE \A n \in Nat : \E g : Horner(s, n, g)
<1> DEFINE K == {n \in Nat : \E g : Horner(s, n, g)}
<1>1. 0 \in K
  <2>1. Horner(s, 0, [i \in 0 .. 0 |-> 0]) BY DEF Horner
  <2> QED BY <2>1
<1>2. ASSUME NEW k \in Nat, k \in K PROVE k + 1 \in K
  <2>1. PICK g : Horner(s, k, g) BY <1>2
  <2> DEFINE h == [i \in 0 .. k + 1 |-> IF i = k + 1 THEN s[Len(s) + 1 - i] + Base * g[k] ELSE g[i]]
  <2>2. h[0] = 0 BY <2>1 DEF Horner
  <2>3. \A i \in 1 .. k + 1 : h[i] = s[Len(s) + 1 - i] + Base * h[i - 1]
    <3> TAKE i \in 1 .. k + 1
    <3>1. CASE i = k + 1
      <4>1. h[i] = s[Len(s) + 1 - i] + Base * g[k] BY <3>1
      <4>2. h[i - 1] = g[k] BY <3>1
      <4> QED BY <4>1, <4>2
    <3>2. CASE i \in 1 .. k
      <4>1. h[i] = g[i] /\ h[i - 1] = g[i - 1] BY <3>2
      <4>2. g[i] = s[Len(s) + 1 - i] + Base * g[i - 1] BY <2>1, <3>2 DEF Horner
      <4> QED BY <4>1, <4>2
    <3> QED BY <3>1, <3>2
  <2> HIDE DEF h
  <2>4. Horner(s, k + 1, h) BY <2>2, <2>3 DEF Horner
  <2> QED BY <2>4
<1> HIDE DEF K
<1>3. \A k \in Nat : k \in K BY <1>1, <1>2, SetInduction
<1> QED BY <1>3 DEF K

LEMMA ValueIs ==
  ASSUME NEW s, Len(s) \in Nat
  PROVE  \E g : Horner(s, Len(s), g) /\ Value(s) = g[Len(s)]
<1> DEFINE n == Len(s)
           Rec(g) == g = [i \in 0 .. n |-> IF i = 0 THEN 0 ELSE s[n + 1 - i] + Base * g[i - 1]]
           c == CHOOSE g : Rec(g)
<1>1. PICK g : Horner(s, n, g) BY HornerExists
<1>2. Rec([i \in 0 .. n |-> g[i]])
  <2> DEFINE h == [i \in 0 .. n |-> g[i]]
  <2>1. \A i \in 0 .. n : h[i] = IF i = 0 THEN 0 ELSE s[n + 1 - i] + Base * h[i - 1]
    <3> TAKE i \in 0 .. n
    <3>1. CASE i = 0 BY <1>1, <3>1 DEF Horner
    <3>2. CASE i # 0
      <4>1. i \in 1 .. n /\ i - 1 \in 0 .. n BY <3>2
      <4>2. h[i] = g[i] /\ h[i - 1] = g[i - 1] BY <4>1
      <4>3. g[i] = s[n + 1 - i] + Base * g[i - 1] BY <1>1, <4>1 DEF Horner
      <4> QED BY <3>2, <4>2, <4>3
    <3> QED BY <3>1, <3>2
  <2> QED BY <2>1
<1>3. Rec(c) BY <1>2
<1>4. Value(s) = c[n] BY DEF Value
<1> HIDE DEF c
<1>5. c[0] = 0 /\ \A i \in 1 .. n : c[i] = s[n + 1 - i] + Base * c[i - 1] BY <1>3
<1> QED BY <1>4, <1>5 DEF Horner

\* A digit more.
LEMMA DigitOf ==
  ASSUME NEW u, u \in Nat \ {0}, NEW d, d \in 0 .. u - 1, NEW v, v \in Nat
  PROVE  d + u * v \in Nat /\ (d + u * v) % u = d /\ (d + u * v) \div u = v
<1> DEFINE x == d + u * v
           q == x \div u
           r == x % u
<1>0. u * v \in Nat BY SMT
<1>1. x \in Nat BY <1>0
<1>2. r \in 0 .. u - 1 /\ q \in Int /\ x = u * q + r BY <1>1, DivMod
<1> HIDE DEF q, r
<1>3. q - v \in Int /\ u * (q - v) = u * q - u * v /\ u * q \in Int /\ u * v \in Int
  BY <1>2, Product
<1>4. u * (q - v) = d - r BY <1>2, <1>3
<1>5. q - v = 0 BY <1>2, <1>3, <1>4, SmallMultiple
<1>6. q = v BY <1>2, <1>5
<1>7. r = d BY <1>0, <1>2, <1>6
<1> QED BY <1>1, <1>6, <1>7 DEF q, r, x

\* A number is a number, and the largest has the largest bytes.
LEMMA HornerBounds ==
  ASSUME NEW n, n \in Nat, NEW s, s \in Seq(Octet), Len(s) = n, NEW t, t \in Seq(Octet), Len(t) = n,
         \A i \in 1 .. n : s[i] <= t[i],
         NEW g, Horner(s, n, g), NEW h, Horner(t, n, h)
  PROVE  \A k \in 0 .. n : g[k] \in Nat /\ h[k] \in Nat /\ g[k] <= h[k]
<1> DEFINE K == {k \in Nat : k <= n => g[k] \in Nat /\ h[k] \in Nat /\ g[k] <= h[k]}
<1>1. 0 \in K BY DEF Horner
<1>2. ASSUME NEW k \in Nat, k \in K PROVE k + 1 \in K
  <2> SUFFICES ASSUME k + 1 <= n
               PROVE  g[k + 1] \in Nat /\ h[k + 1] \in Nat /\ g[k + 1] <= h[k + 1]
    OBVIOUS
  <2> DEFINE i == n + 1 - (k + 1)
             x == s[i]
             y == t[i]
             v == g[k]
             w == h[k]
  <2>1. i \in 1 .. n /\ k + 1 \in 1 .. n /\ (k + 1) - 1 = k OBVIOUS
  <2>2. v \in Nat /\ w \in Nat /\ v <= w BY <1>2
  <2>3. x \in Octet /\ y \in Octet /\ x <= y BY <2>1
  <2>4. g[k + 1] = x + Base * v /\ h[k + 1] = y + Base * w BY <2>1 DEF Horner
  <2> HIDE DEF x, y, v, w
  <2>5. Base \in Nat /\ x \in Nat /\ y \in Nat BY <2>3, CodecAssumption DEF Octet
  <2>6. Base * v \in Nat /\ Base * w \in Nat /\ Base * v <= Base * w
    <3>1. w - v \in Nat BY <2>2
    <3>2. Base * (w - v) = Base * w - Base * v /\ Base * (w - v) \in Nat BY <2>2, <2>5, <3>1, SMT
    <3>3. Base * v \in Nat /\ Base * w \in Nat BY <2>2, <2>5, SMT
    <3> QED BY <3>2, <3>3
  <2> QED BY <2>3, <2>4, <2>5, <2>6
<1> HIDE DEF K
<1>3. \A k \in Nat : k \in K BY <1>1, <1>2, SetInduction
<1> QED BY <1>3 DEF K

LEMMA ValueBounds ==
  ASSUME NEW s, s \in Seq(Octet), Len(s) = Word
  PROVE  Value(s) \in Nat /\ MaxNumber \in Nat /\ Value(s) <= MaxNumber
<1> DEFINE t == [i \in 1 .. Word |-> Base - 1]
<1>0. Word \in Nat /\ Base - 1 \in Octet BY CodecAssumption DEF Octet
<1>1. t \in Seq(Octet) /\ Len(t) = Word BY <1>0
<1>2. \A i \in 1 .. Word : s[i] <= t[i]
  <2> TAKE i \in 1 .. Word
  <2>1. s[i] \in Octet BY <1>0
  <2> QED BY <1>0, <2>1, CodecAssumption DEF Octet
<1>3. MaxNumber = Value(t) BY DEF MaxNumber
<1> HIDE DEF t
<1>4. PICK g : Horner(s, Word, g) /\ Value(s) = g[Word] BY <1>0, ValueIs
<1>5. PICK h : Horner(t, Word, h) /\ Value(t) = h[Word] BY <1>0, <1>1, ValueIs
<1>6. \A k \in 0 .. Word : g[k] \in Nat /\ h[k] \in Nat /\ g[k] <= h[k]
  BY <1>0, <1>1, <1>2, <1>4, <1>5, HornerBounds
<1>7. Word \in 0 .. Word BY <1>0
<1> QED BY <1>3, <1>4, <1>5, <1>6, <1>7

\* Writing the number that was read gives its bytes.
LEMMA NumberRoundTrip ==
  ASSUME NEW s, s \in Seq(Octet), Len(s) = Word
  PROVE  WriteNumber(Value(s)) = s
<1>0. Word \in Nat /\ Base \in Nat \ {0} BY CodecAssumption
<1>1. PICK g : Horner(s, Word, g) /\ Value(s) = g[Word] BY <1>0, ValueIs
<1>2. \A k \in 0 .. Word : g[k] \in Nat
  <2>1. \A i \in 1 .. Word : s[i] <= s[i]
    <3> TAKE i \in 1 .. Word
    <3>1. s[i] \in Octet BY <1>0
    <3> QED BY <3>1, <1>0 DEF Octet
  <2> QED BY <1>0, <1>1, <2>1, HornerBounds
<1> DEFINE Rec(q) == q = [i \in 0 .. Word |-> IF i = 0 THEN Value(s) ELSE q[i - 1] \div Base]
           c == CHOOSE q : Rec(q)
           w == [i \in 0 .. Word |-> g[Word - i]]
\* Every digit is the rest of one division and its quotient the number before.
<1>3. ASSUME NEW k, k \in 1 .. Word
      PROVE  g[k] % Base = s[Word + 1 - k] /\ g[k] \div Base = g[k - 1]
  <2> DEFINE d == s[Word + 1 - k]
             v == g[k - 1]
  <2>1. d \in 0 .. Base - 1 /\ v \in Nat
    <3>1. Word + 1 - k \in 1 .. Word /\ k - 1 \in 0 .. Word BY <1>0, <1>3
    <3>2. \A i \in 1 .. Word : s[i] \in Octet BY <1>0
    <3>3. d \in Octet BY <3>1, <3>2
    <3> QED BY <1>2, <3>1, <3>3 DEF Octet
  <2>2. g[k] = d + Base * v BY <1>1, <1>3 DEF Horner
  <2> HIDE DEF d, v
  <2>3. g[k] % Base = d /\ g[k] \div Base = v BY <1>0, <2>1, <2>2, DigitOf
  <2> QED BY <2>3 DEF d, v
<1>4. Rec(w)
  <2>1. \A i \in 0 .. Word : w[i] = IF i = 0 THEN Value(s) ELSE w[i - 1] \div Base
    <3> TAKE i \in 0 .. Word
    <3>1. CASE i = 0 BY <1>0, <1>1, <3>1
    <3>2. CASE i # 0
      <4>1. Word - i \in 0 .. Word /\ i - 1 \in 0 .. Word /\ Word - (i - 1) \in 1 .. Word
            /\ Word - (i - 1) - 1 = Word - i
        BY <1>0, <3>2
      <4>2. w[i] = g[Word - i] /\ w[i - 1] = g[Word - (i - 1)] BY <4>1
      <4>3. g[Word - (i - 1)] \div Base = g[Word - i] BY <1>3, <4>1
      <4> QED BY <3>2, <4>2, <4>3
    <3> QED BY <3>1, <3>2
  <2> HIDE DEF w
  <2>2. w = [i \in 0 .. Word |-> w[i]] BY DEF w
  <2> QED BY <2>1, <2>2
<1>5. Rec(c)
  <2> HIDE DEF w
  <2> QED BY <1>4
<1>6. WriteNumber(Value(s)) = [i \in 1 .. Word |-> c[i - 1] % Base] BY DEF WriteNumber
<1> HIDE DEF c
<1>7. c[0] = Value(s) /\ \A i \in 1 .. Word : c[i] = c[i - 1] \div Base BY <1>0, <1>5
<1> DEFINE K == {k \in Nat : k <= Word => c[k] = g[Word - k]}
<1>8. 0 \in K BY <1>0, <1>1, <1>7
<1>9. ASSUME NEW k \in Nat, k \in K PROVE k + 1 \in K
  <2> SUFFICES ASSUME k + 1 <= Word PROVE c[k + 1] = g[Word - (k + 1)]
    OBVIOUS
  <2>1. c[k] = g[Word - k] BY <1>0, <1>9
  <2>2. k + 1 \in 1 .. Word /\ (k + 1) - 1 = k BY <1>0
  <2>3. c[k + 1] = c[k] \div Base BY <1>7, <2>2
  <2>4. Word - k \in 1 .. Word /\ (Word - k) - 1 = Word - (k + 1) BY <1>0
  <2>5. g[Word - k] \div Base = g[Word - (k + 1)] BY <1>3, <2>4
  <2> QED BY <2>1, <2>3, <2>5
<1> HIDE DEF K
<1>10. \A k \in Nat : k \in K BY <1>8, <1>9, SetInduction
<1>11. \A i \in 1 .. Word : c[i - 1] % Base = s[i]
  <2> TAKE i \in 1 .. Word
  <2>1. i - 1 \in Nat /\ i - 1 <= Word /\ Word - (i - 1) \in 1 .. Word
        /\ Word + 1 - (Word - (i - 1)) = i
    BY <1>0
  <2>2. c[i - 1] = g[Word - (i - 1)] BY <1>10, <2>1 DEF K
  <2>3. g[Word - (i - 1)] % Base = s[i] BY <1>3, <2>1
  <2> QED BY <2>2, <2>3
<1>12. s = [i \in 1 .. Word |-> s[i]] BY <1>0
<1> QED BY <1>6, <1>11, <1>12

-----------------------------------------------------------------------------
(* Serialization: fields.                                                  *)

\* A result of a read at offset o of b.
IsRead(r, b, o) ==
  /\ r = [ok |-> r.ok, off |-> r.off, val |-> r.val]
  /\ r.ok \in BOOLEAN /\ r.off \in o .. Len(b)

\* The bytes of b from offset o to offset p.
Part(b, o, p) == SubSeq(b, o + 1, p)

\* Its value is written as the bytes it was read from, and z is their number.
Says(r, b, o, w, z) == r.ok => w = Part(b, o, r.off) /\ z = r.off - o

\* The n bytes at o are there.
Span(b, o, n) == b \in Seq(Octet) /\ o \in Nat /\ n \in Nat /\ o + n <= Len(b)

LEMMA BytesAre ==
  ASSUME NEW b, NEW o, NEW n, Span(b, o, n)
  PROVE  /\ Bytes(b, o, n) \in Seq(Octet) /\ Len(Bytes(b, o, n)) = n
         /\ Bytes(b, o, n) = Part(b, o, o + n)
<1> DEFINE x == Bytes(b, o, n)
           y == SubSeq(b, o + 1, o + n)
<1>0. b \in Seq(Octet) /\ o \in Nat /\ n \in Nat /\ o + n <= Len(b) BY DEF Span
<1>1. Len(b) \in Nat /\ \A i \in 1 .. n : o + i \in 1 .. Len(b) BY <1>0
<1>2. \A i \in 1 .. n : o + i \in DOMAIN b /\ b[o + i] \in Octet BY <1>0, <1>1
<1>3. x = [i \in 1 .. n |-> b[o + i]] BY <1>2 DEF Bytes
<1>4. x \in Seq(Octet) /\ Len(x) = n /\ \A i \in 1 .. n : x[i] = b[o + i]
  <2> HIDE DEF x
  <2>1. \A i \in 1 .. n : b[o + i] \in Octet BY <1>2
  <2>2. x \in [1 .. n -> Octet] BY <2>1, <1>3
  <2>3. DOMAIN x = 1 .. n BY <1>3
  <2>4. x \in Seq(Octet) BY <1>0, <2>2
  <2>5. Len(x) = n BY <1>0, <2>3, <2>4
  <2>6. \A i \in 1 .. n : x[i] = b[o + i] BY <1>3
  <2> QED BY <2>4, <2>5, <2>6
<1>5. y \in Seq(Octet) /\ Len(y) = n /\ \A i \in 1 .. n : y[i] = b[o + i]
  BY <1>0, <1>1
<1> HIDE DEF x, y
<1>6. x = y BY <1>4, <1>5, SeqEqual
<1> QED BY <1>4, <1>6 DEF x, y, Part

\* A number that was read.
LEMMA NumberIs ==
  ASSUME NEW b, b \in Seq(Octet), NEW o, o \in 0 .. Len(b)
  PROVE  LET r == ReadNumber(b, o)
         IN  /\ IsRead(r, b, o) /\ Says(r, b, o, WriteNumber(r.val), Word)
             /\ r.ok <=> o + Word <= Len(b)
             /\ r.ok => /\ r.off = o + Word /\ r.val = Value(Bytes(b, o, Word))
                        /\ r.val \in Nat /\ r.val <= MaxNumber
<1> DEFINE r == ReadNumber(b, o)
           v == Value(Bytes(b, o, Word))
<1>0. Word \in Nat /\ Len(b) \in Nat /\ o \in Nat /\ o <= Len(b) BY CodecAssumption
<1> SUFFICES /\ IsRead(r, b, o) /\ Says(r, b, o, WriteNumber(r.val), Word)
             /\ r.ok <=> o + Word <= Len(b)
             /\ r.ok => r.off = o + Word /\ r.val = v /\ r.val \in Nat /\ r.val <= MaxNumber
  OBVIOUS
<1>1. CASE o + Word > Len(b)
  <2>1. r = [ok |-> FALSE, off |-> o, val |-> <<>>] BY <1>1 DEF ReadNumber, Failed
  <2> HIDE DEF r, v
  <2>2. ~r.ok /\ ~(o + Word <= Len(b)) BY <1>0, <1>1, <2>1
  <2>3. IsRead(r, b, o) BY <1>0, <2>1 DEF IsRead
  <2> QED BY <2>2, <2>3 DEF Says
<1>2. CASE o + Word <= Len(b)
  <2>1. r = [ok |-> TRUE, off |-> o + Word, val |-> v] BY <1>0, <1>2 DEF ReadNumber, Read
  <2>2. v \in Nat /\ v <= MaxNumber /\ WriteNumber(v) = Part(b, o, o + Word)
    <3> DEFINE x == Bytes(b, o, Word)
    <3>1. x \in Seq(Octet) /\ Len(x) = Word /\ x = Part(b, o, o + Word)
      <4>1. Span(b, o, Word) BY <1>0, <1>2 DEF Span
      <4> QED BY <4>1, BytesAre
    <3> HIDE DEF x
    <3>2. Value(x) \in Nat /\ Value(x) <= MaxNumber /\ WriteNumber(Value(x)) = x
      BY <3>1, ValueBounds, NumberRoundTrip
    <3> QED BY <3>1, <3>2 DEF x
  <2> HIDE DEF r, v
  <2>3. r.ok = TRUE /\ r.off = o + Word /\ r.val = v BY <2>1
  <2>4. IsRead(r, b, o) BY <1>0, <1>2, <2>1 DEF IsRead
  <2>5. Says(r, b, o, WriteNumber(r.val), Word) BY <1>0, <2>2, <2>3 DEF Says
  <2> QED BY <1>2, <2>2, <2>3, <2>4, <2>5
<1> QED BY <1>0, <1>1, <1>2

\* Two parts in a row.
Cuts(b, o, p, q) ==
  /\ b \in Seq(Octet) /\ o \in Nat /\ p \in Nat /\ q \in Nat
  /\ o <= p /\ p <= q /\ q <= Len(b)

LEMMA TwoParts ==
  ASSUME NEW b, NEW o, NEW p, NEW q, Cuts(b, o, p, q)
  PROVE  Part(b, o, p) \o Part(b, p, q) = Part(b, o, q)
<1> DEFINE x == SubSeq(b, o + 1, p)
           y == SubSeq(b, p + 1, q)
           z == SubSeq(b, o + 1, q)
<1>0. /\ b \in Seq(Octet) /\ o \in Nat /\ p \in Nat /\ q \in Nat
      /\ o <= p /\ p <= q /\ q <= Len(b)
  BY DEF Cuts
<1>1. x \in Seq(Octet) /\ Len(x) = p - o /\ \A i \in 1 .. p - o : x[i] = b[o + i] BY <1>0
<1>2. y \in Seq(Octet) /\ Len(y) = q - p /\ \A i \in 1 .. q - p : y[i] = b[p + i] BY <1>0
<1>3. z \in Seq(Octet) /\ Len(z) = q - o /\ \A i \in 1 .. q - o : z[i] = b[o + i] BY <1>0
<1> HIDE DEF x, y, z
<1> DEFINE c == x \o y
<1>4. c \in Seq(Octet) /\ Len(c) = q - o
      /\ \A i \in 1 .. q - o : c[i] = IF i <= p - o THEN x[i] ELSE y[i - (p - o)]
  <2>1. c \in Seq(Octet) /\ Len(c) = Len(x) + Len(y)
    <3>1. x \in Seq(Octet) /\ y \in Seq(Octet) BY <1>0, <1>1, <1>2
    <3> QED BY <3>1
  <2>2. ASSUME NEW i, i \in 1 .. q - o
        PROVE  c[i] = IF i <= p - o THEN x[i] ELSE y[i - (p - o)]
    <3>1. i \in 1 .. Len(x) + Len(y) BY <1>0, <1>1, <1>2, <2>2
    <3>2. x \in Seq(Octet) /\ y \in Seq(Octet) BY <1>1, <1>2
    <3>3. c[i] = IF i <= Len(x) THEN x[i] ELSE y[i - Len(x)] BY <3>1, <3>2
    <3> HIDE DEF c
    <3> QED BY <1>1, <3>3
  <2>3. Len(c) = q - o BY <1>0, <1>1, <1>2, <2>1
  <2> HIDE DEF c
  <2> QED BY <1>0, <2>1, <2>2, <2>3
<1> HIDE DEF c
<1>5. \A i \in 1 .. Len(c) : c[i] = z[i]
  <2> TAKE i \in 1 .. Len(c)
  <2>1. i \in 1 .. q - o BY <1>0, <1>4
  <2>2. CASE i <= p - o
    <3>1. i \in 1 .. p - o BY <1>0, <2>1, <2>2
    <3> QED BY <1>0, <1>1, <1>3, <1>4, <2>1, <2>2, <3>1
  <2>3. CASE ~(i <= p - o)
    <3>1. i - (p - o) \in 1 .. q - p /\ p + (i - (p - o)) = o + i BY <1>0, <2>1, <2>3
    <3>2. c[i] = y[i - (p - o)] BY <1>4, <2>1, <2>3
    <3>3. y[i - (p - o)] = b[o + i] BY <1>2, <3>1
    <3> QED BY <1>0, <1>3, <2>1, <3>2, <3>3
  <2> QED BY <2>2, <2>3
<1>6. c = z BY <1>3, <1>4, <1>5, SeqEqual
<1> QED BY <1>6 DEF c, x, y, z, Part

LEMMA StringIs ==
  ASSUME NEW b, b \in Seq(Octet), NEW o, o \in 0 .. Len(b)
  PROVE  LET r == ReadString(b, o)
             len == ReadNumber(b, o)
         IN  /\ IsRead(r, b, o) /\ Says(r, b, o, WriteString(r.val), SizeString(r.val))
             /\ r.ok <=> len.ok /\ len.off + len.val <= Len(b)
             /\ r.ok => r.off = len.off + len.val /\ r.val = Bytes(b, len.off, len.val)
<1> DEFINE r == ReadString(b, o)
           len == ReadNumber(b, o)
           n == len.val
           p == len.off
           v == Bytes(b, p, n)
<1> SUFFICES /\ IsRead(r, b, o) /\ Says(r, b, o, WriteString(r.val), SizeString(r.val))
             /\ r.ok <=> len.ok /\ p + n <= Len(b)
             /\ r.ok => r.off = p + n /\ r.val = v
  OBVIOUS
<1>0. Word \in Nat /\ Len(b) \in Nat /\ o \in Nat /\ o <= Len(b) BY CodecAssumption
<1>1. /\ IsRead(len, b, o) /\ Says(len, b, o, WriteNumber(n), Word)
      /\ len.ok => p = o + Word /\ n \in Nat
  BY NumberIs
<1>2. r = IF ~len.ok \/ p + n > Len(b) THEN Failed(p) ELSE Read(p + n, v) BY DEF ReadString
<1> HIDE DEF r, v, p, n, len
<1>3. p \in Nat /\ o <= p /\ p <= Len(b) /\ len.ok \in BOOLEAN BY <1>0, <1>1 DEF IsRead, p
<1>4. CASE ~len.ok \/ p + n > Len(b)
  <2>1. r = [ok |-> FALSE, off |-> p, val |-> <<>>] BY <1>2, <1>4 DEF Failed
  <2>2. ~r.ok BY <2>1
  <2>3. IsRead(r, b, o) BY <1>0, <1>3, <2>1 DEF IsRead
  <2>4. ~(len.ok /\ p + n <= Len(b)) BY <1>0, <1>1, <1>3, <1>4
  <2> QED BY <2>2, <2>3, <2>4 DEF Says
<1>5. CASE len.ok /\ p + n <= Len(b)
  <2>0. n \in Nat /\ p = o + Word BY <1>1, <1>5
  <2>1. r = [ok |-> TRUE, off |-> p + n, val |-> v]
    <3>1. ~(~len.ok \/ p + n > Len(b)) BY <1>0, <1>3, <1>5, <2>0
    <3> QED BY <1>2, <3>1 DEF Read
  <2>2. r.ok = TRUE /\ r.off = p + n /\ r.val = v BY <2>1
  <2>3. IsRead(r, b, o) BY <1>0, <1>3, <1>5, <2>0, <2>1 DEF IsRead
  <2>4. v = Part(b, p, p + n) /\ Len(v) = n
    <3>1. Span(b, p, n) BY <1>3, <1>5, <2>0 DEF Span
    <3> QED BY <3>1, BytesAre DEF v
  <2>5. WriteNumber(n) = Part(b, o, p) BY <1>1, <1>5 DEF Says, p
  <2>6. WriteString(v) = Part(b, o, p + n)
    <3>1. p + n \in Nat /\ p <= p + n BY <1>3, <2>0
    <3>2. Part(b, o, p) \o Part(b, p, p + n) = Part(b, o, p + n)
      <4> DEFINE q == p + n
      <4>1. q \in Nat /\ p <= q /\ q <= Len(b) BY <3>1, <1>5
      <4> HIDE DEF q
      <4>2. Part(b, o, p) \o Part(b, p, q) = Part(b, o, q)
        <5>1. Cuts(b, o, p, q) BY <1>0, <1>3, <4>1 DEF Cuts
        <5> QED BY <5>1, TwoParts
      <4> QED BY <4>2 DEF q
    <3> QED BY <2>4, <2>5, <3>2 DEF WriteString
  <2>7. SizeString(v) = (p + n) - o BY <1>0, <2>0, <2>4 DEF SizeString
  <2> QED BY <1>5, <2>2, <2>3, <2>6, <2>7 DEF Says
<1> QED BY <1>3, <1>4, <1>5, <1>0, <1>1

LEMMA FieldIs ==
  ASSUME NEW b, b \in Seq(Octet), NEW o, o \in 0 .. Len(b), NEW f
  PROVE  LET r == ReadField(f, b, o)
         IN  IsRead(r, b, o) /\ Says(r, b, o, WriteField(f, r.val), SizeField(f, r.val))
BY NumberIs, StringIs DEF ReadField, WriteField, SizeField

-----------------------------------------------------------------------------
(* Serialization: items one after the other.                               *)

\* The i-th item after the result r.
After(item, i, r) ==
  LET s == item[i][r.off]
  IN IF ~r.ok THEN r
     ELSE [ok |-> s.ok, off |-> s.off, val |-> IF s.ok THEN Append(r.val, s.val) ELSE r.val]

\* g holds the results after each item.
InTurn(item, n, o, g) ==
  g[0] = Read(o, <<>>) /\ \A i \in 1 .. n : g[i] = After(item, i, g[i - 1])

LEMMA InTurnExists == ASSUME NEW item, NEW o PROVE \A n \in Nat : \E g : InTurn(item, n, o, g)
<1> DEFINE K == {n \in Nat : \E g : InTurn(item, n, o, g)}
<1>1. 0 \in K
  <2>1. InTurn(item, 0, o, [i \in 0 .. 0 |-> Read(o, <<>>)]) BY DEF InTurn
  <2> QED BY <2>1
<1>2. ASSUME NEW k \in Nat, k \in K PROVE k + 1 \in K
  <2>1. PICK g : InTurn(item, k, o, g) BY <1>2
  <2> DEFINE h == [i \in 0 .. k + 1 |-> IF i = k + 1 THEN After(item, i, g[k]) ELSE g[i]]
  <2>2. h[0] = Read(o, <<>>) BY <2>1 DEF InTurn
  <2>3. \A i \in 1 .. k + 1 : h[i] = After(item, i, h[i - 1])
    <3> TAKE i \in 1 .. k + 1
    <3>1. CASE i = k + 1
      <4>1. h[i] = After(item, i, g[k]) BY <3>1
      <4>2. h[i - 1] = g[k] BY <3>1
      <4> QED BY <4>1, <4>2
    <3>2. CASE i \in 1 .. k
      <4>1. h[i] = g[i] /\ h[i - 1] = g[i - 1] BY <3>2
      <4>2. g[i] = After(item, i, g[i - 1]) BY <2>1, <3>2 DEF InTurn
      <4> QED BY <4>1, <4>2
    <3> QED BY <3>1, <3>2
  <2> HIDE DEF h
  <2>4. InTurn(item, k + 1, o, h) BY <2>2, <2>3 DEF InTurn
  <2> QED BY <2>4
<1> HIDE DEF K
<1>3. \A k \in Nat : k \in K BY <1>1, <1>2, SetInduction
<1> QED BY <1>3 DEF K

LEMMA InOrderIs ==
  ASSUME NEW item, NEW n, n \in Nat, NEW o
  PROVE  \E g : InTurn(item, n, o, g) /\ InOrder(item, n, o) = g[n]
<1> DEFINE Next1(i, r) ==
             LET s == item[i][r.off]
             IN IF ~r.ok THEN r
                ELSE [ok |-> s.ok, off |-> s.off,
                      val |-> IF s.ok THEN Append(r.val, s.val) ELSE r.val]
           Rec(g) == g = [i \in 0 .. n |-> IF i = 0 THEN Read(o, <<>>) ELSE Next1(i, g[i - 1])]
           c == CHOOSE g : Rec(g)
<1>1. PICK g : InTurn(item, n, o, g) BY InTurnExists
<1>2. \A i \in 1 .. n : g[i] = Next1(i, g[i - 1]) BY <1>1 DEF InTurn, After
<1>3. InOrder(item, n, o) = c[n] BY DEF InOrder
<1>4. \A r, i : Next1(i, r) = After(item, i, r) BY DEF After
<1> HIDE DEF Next1
<1>5. Rec([i \in 0 .. n |-> g[i]])
  <2> DEFINE h == [i \in 0 .. n |-> g[i]]
  <2>1. \A i \in 0 .. n : h[i] = IF i = 0 THEN Read(o, <<>>) ELSE Next1(i, h[i - 1])
    <3> TAKE i \in 0 .. n
    <3>1. CASE i = 0 BY <1>1, <3>1 DEF InTurn
    <3>2. CASE i # 0
      <4>1. i \in 1 .. n /\ i - 1 \in 0 .. n BY <3>2
      <4>2. h[i] = g[i] /\ h[i - 1] = g[i - 1] BY <4>1
      <4> QED BY <1>2, <3>2, <4>1, <4>2
    <3> QED BY <3>1, <3>2
  <2> QED BY <2>1
<1>6. Rec(c) BY <1>5
<1> HIDE DEF c
<1>7. c[0] = Read(o, <<>>) /\ \A i \in 1 .. n : c[i] = Next1(i, c[i - 1]) BY <1>6
<1> QED BY <1>3, <1>4, <1>7 DEF InTurn

\* Every item can be read at every offset.
Items(item, n, b) ==
  /\ b \in Seq(Octet) /\ n \in Nat
  /\ \A i \in 1 .. n : \A p \in Offsets(b) : IsRead(item[i][p], b, p)

Vals(item, n, b) == {item[x[1]][x[2]].val : x \in (1 .. n) \X Offsets(b)}

\* The i-th was read, where the one before ended.
TakenUp(item, g, i) ==
  /\ g[i - 1].ok /\ g[i].ok
  /\ item[i][g[i - 1].off].ok /\ item[i][g[i - 1].off].off = g[i].off

\* What the k-th result is.
Turned(item, n, b, o, g, k) ==
  /\ IsRead(g[k], b, o)
  /\ g[k].ok => /\ g[k].val \in Seq(Vals(item, n, b)) /\ Len(g[k].val) = k
                /\ \A i \in 1 .. k : /\ TakenUp(item, g, i)
                                     /\ g[k].val[i] = item[i][g[i - 1].off].val

LEMMA AllTurned ==
  ASSUME NEW item, NEW n, NEW b, Items(item, n, b), NEW o, o \in Offsets(b),
         NEW g, InTurn(item, n, o, g)
  PROVE  \A k \in 0 .. n : Turned(item, n, b, o, g, k)
<1>0. b \in Seq(Octet) /\ n \in Nat /\ o \in Nat /\ Len(b) \in Nat /\ o <= Len(b)
  <2>1. b \in Seq(Octet) /\ n \in Nat BY DEF Items
  <2>2. Len(b) \in Nat BY <2>1
  <2>3. o \in 0 .. Len(b) BY DEF Offsets
  <2> QED BY <2>1, <2>2, <2>3
<1> DEFINE K == {k \in Nat : k <= n => Turned(item, n, b, o, g, k)}
<1>1. 0 \in K
  <2>1. g[0] = [ok |-> TRUE, off |-> o, val |-> <<>>] BY DEF InTurn, Read
  <2>2. g[0].ok = TRUE /\ g[0].off = o /\ g[0].val = <<>> BY <2>1
  <2>3. IsRead(g[0], b, o) BY <1>0, <2>1, <2>2 DEF IsRead
  <2>4. g[0].val \in Seq(Vals(item, n, b)) /\ Len(g[0].val) = 0 BY <2>2
  <2> HIDE DEF K
  <2>5. \A i \in 1 .. 0 : FALSE OBVIOUS
  <2>6. Turned(item, n, b, o, g, 0) BY <2>3, <2>4, <2>5 DEF Turned
  <2> QED BY <2>6 DEF K
<1>2. ASSUME NEW k \in Nat, k \in K PROVE k + 1 \in K
  <2> SUFFICES ASSUME k + 1 <= n PROVE Turned(item, n, b, o, g, k + 1)
    OBVIOUS
  <2> DEFINE r == g[k]
             s == item[k + 1][r.off]
             t == g[k + 1]
             V == Vals(item, n, b)
  <2>1. Turned(item, n, b, o, g, k) /\ k + 1 \in 1 .. n /\ (k + 1) - 1 = k BY <1>0, <1>2
  <2>2. t = IF ~r.ok THEN r
            ELSE [ok |-> s.ok, off |-> s.off, val |-> IF s.ok THEN Append(r.val, s.val) ELSE r.val]
    BY <2>1 DEF InTurn, After
  <2>3. IsRead(r, b, o) BY <2>1 DEF Turned
  <2>4. r.off \in Offsets(b) /\ r.off \in Nat /\ o <= r.off BY <1>0, <2>3 DEF IsRead, Offsets
  <2>5. IsRead(s, b, r.off) /\ s.val \in V
    <3>1. \A i \in 1 .. n : \A p \in Offsets(b) : IsRead(item[i][p], b, p) BY DEF Items
    <3>2. IsRead(s, b, r.off) BY <2>1, <2>4, <3>1
    <3>3. s.val \in V
      <4> DEFINE i == k + 1
                 p == r.off
                 x == <<i, p>>
      <4>1. i \in 1 .. n /\ p \in Offsets(b) BY <2>1, <2>4
      <4> HIDE DEF i, p
      <4>2. x \in (1 .. n) \X Offsets(b) /\ x[1] = i /\ x[2] = p BY <4>1
      <4> HIDE DEF x
      <4>3. item[x[1]][x[2]].val \in Vals(item, n, b) BY <4>2 DEF Vals
      <4> QED BY <4>2, <4>3 DEF i, p
    <3> QED BY <3>2, <3>3
  <2>6. CASE ~r.ok
    <3>1. t = r BY <2>2, <2>6
    <3> QED BY <2>3, <2>6, <3>1 DEF Turned
  <2>7. CASE r.ok
    <3>0. /\ r.val \in Seq(V) /\ Len(r.val) = k
          /\ \A i \in 1 .. k : TakenUp(item, g, i) /\ r.val[i] = item[i][g[i - 1].off].val
      BY <2>1, <2>7 DEF Turned
    <3> DEFINE v == r.val
               w == s.val
               a == Append(v, w)
    <3> HIDE DEF s, V
    <3>1. t = [ok |-> s.ok, off |-> s.off, val |-> IF s.ok THEN a ELSE v] BY <2>2, <2>7
    <3> HIDE DEF t
    <3>2. t.ok = s.ok /\ t.off = s.off /\ t.val = (IF s.ok THEN a ELSE v) BY <3>1
    <3>3. IsRead(t, b, o)
      <4>1. t = [ok |-> t.ok, off |-> t.off, val |-> t.val] BY <3>1
      <4>2. t.ok \in BOOLEAN /\ t.off \in o .. Len(b) BY <1>0, <2>4, <2>5, <3>2 DEF IsRead
      <4> QED BY <4>1, <4>2 DEF IsRead
    <3>4. ASSUME t.ok
          PROVE  /\ t.val \in Seq(V) /\ Len(t.val) = k + 1
                 /\ \A i \in 1 .. k + 1 : TakenUp(item, g, i) /\ t.val[i] = item[i][g[i - 1].off].val
      <4>1. t.val = a /\ s.ok BY <3>2, <3>4
      <4> HIDE DEF v, w
      <4>2. v \in Seq(V) /\ Len(v) = k /\ w \in V BY <3>0, <2>5 DEF v, w
      <4>3. a \in Seq(V) /\ Len(a) = k + 1 /\ a[k + 1] = w /\ \A i \in 1 .. k : a[i] = v[i]
        BY <4>2
      <4> HIDE DEF a
      <4>4. ASSUME NEW i, i \in 1 .. k + 1
            PROVE  TakenUp(item, g, i) /\ t.val[i] = item[i][g[i - 1].off].val
        <5>1. CASE i \in 1 .. k BY <3>0, <4>1, <4>3, <5>1 DEF v
        <5>2. CASE i = k + 1
          <6>1. g[i - 1] = r /\ g[i] = t /\ item[i][g[i - 1].off] = s BY <2>1, <5>2 DEF s, t
          <6>2. TakenUp(item, g, i) BY <2>7, <3>2, <3>4, <4>1, <6>1 DEF TakenUp
          <6>3. t.val[i] = w BY <4>1, <4>3, <5>2
          <6> QED BY <6>1, <6>2, <6>3 DEF w
        <5>3. i \in 1 .. k \/ i = k + 1 BY <4>4
        <5> QED BY <5>1, <5>2, <5>3
      <4> QED BY <4>1, <4>3, <4>4
    <3> QED BY <3>3, <3>4 DEF Turned, t, V
  <2> QED BY <2>6, <2>7
<1> HIDE DEF K
<1>3. \A k \in Nat : k \in K BY <1>1, <1>2, SetInduction
<1> QED BY <1>0, <1>3 DEF K

\* p marks where each of n parts of b ends, the first beginning at o.
Marks(p, n, b, o) ==
  /\ b \in Seq(Octet) /\ n \in Nat /\ o \in Nat /\ p[0] = o
  /\ \A i \in 0 .. n : p[i] \in Nat /\ o <= p[i] /\ p[i] <= Len(b)
  /\ \A i \in 1 .. n : p[i - 1] <= p[i]

Pieces(b, p, n) == [i \in 1 .. n |-> Part(b, p[i - 1], p[i])]
Gaps(p, n)      == [i \in 1 .. n |-> p[i] - p[i - 1]]

\* The parts in a row are all the bytes.
LEMMA PartsInARow ==
  ASSUME NEW p, NEW n, NEW b, NEW o, Marks(p, n, b, o)
  PROVE  FlattenSeq(Pieces(b, p, n)) = Part(b, o, p[n])
<1> DEFINE w == Pieces(b, p, n)
<1> SUFFICES FlattenSeq(w) = Part(b, o, p[n])
  OBVIOUS
<1>9. w = [i \in 1 .. n |-> Part(b, p[i - 1], p[i])] BY DEF Pieces
<1> HIDE DEF w
<1>0. b \in Seq(Octet) /\ n \in Nat /\ o \in Nat /\ p[0] = o BY DEF Marks
<1>1. Len(w) = n BY <1>0, <1>9
<1>2. CASE n = 0
  <2>1. FlattenSeq(w) = w BY <1>1, <1>2 DEF FlattenSeq
  <2>2. w = <<>> BY <1>2, <1>9
  <2>3. SubSeq(b, o + 1, o) = <<>> BY <1>0
  <2> QED BY <1>0, <1>2, <2>1, <2>2, <2>3 DEF Part
<1>3. CASE n # 0
  <2> DEFINE Rec(g) == g = [i \in 1 .. Len(w) |-> IF i = 1 THEN w[i] ELSE g[i - 1] \o w[i]]
             c == CHOOSE g : Rec(g)
             f == [i \in 1 .. n |-> Part(b, o, p[i])]
  <2>1. FlattenSeq(w) = c[n] BY <1>1, <1>3 DEF FlattenSeq
  <2>2. \A i \in 1 .. n : w[i] = Part(b, p[i - 1], p[i]) BY <1>9
  <2>3. ASSUME NEW i, i \in 1 .. n, i # 1
        PROVE  i - 1 \in 1 .. n /\ Part(b, o, p[i - 1]) \o w[i] = Part(b, o, p[i])
    <3>1. i - 1 \in 1 .. n /\ i - 1 \in 0 .. n /\ i \in 0 .. n BY <1>0, <2>3
    <3>2. Cuts(b, o, p[i - 1], p[i]) BY <2>3, <3>1 DEF Cuts, Marks
    <3>3. Part(b, o, p[i - 1]) \o Part(b, p[i - 1], p[i]) = Part(b, o, p[i]) BY <3>2, TwoParts
    <3>4. w[i] = Part(b, p[i - 1], p[i]) BY <2>2, <2>3
    <3> QED BY <3>1, <3>3, <3>4
  <2>4. w[1] = Part(b, o, p[1]) /\ 1 \in 1 .. n
    <3>1. 1 \in 1 .. n BY <1>0, <1>3
    <3> QED BY <1>0, <2>2, <3>1
  <2>5. Rec(f)
    <3>1. \A i \in 1 .. n : f[i] = IF i = 1 THEN w[i] ELSE f[i - 1] \o w[i]
      <4> TAKE i \in 1 .. n
      <4>1. CASE i = 1 BY <2>4, <4>1
      <4>2. CASE i # 1
        <5>1. f[i] = Part(b, o, p[i]) OBVIOUS
        <5>2. f[i - 1] = Part(b, o, p[i - 1]) BY <2>3, <4>2
        <5> HIDE DEF f
        <5> QED BY <2>3, <4>2, <5>1, <5>2
      <4> QED BY <4>1, <4>2
    <3>2. f = [i \in 1 .. n |-> f[i]] OBVIOUS
    <3> HIDE DEF f
    <3> QED BY <1>1, <3>1, <3>2
  <2>6. Rec(c)
    <3> HIDE DEF f
    <3> QED BY <2>5
  <2> HIDE DEF c
  <2>7. \A i \in 1 .. n : c[i] = IF i = 1 THEN w[i] ELSE c[i - 1] \o w[i] BY <1>1, <2>6
  <2> DEFINE K == {k \in Nat : k + 1 <= n => c[k + 1] = Part(b, o, p[k + 1])}
  <2>8. 0 \in K BY <2>4, <2>7
  <2>9. ASSUME NEW k \in Nat, k \in K PROVE k + 1 \in K
    <3> DEFINE i == (k + 1) + 1
    <3> SUFFICES ASSUME i <= n PROVE c[i] = Part(b, o, p[i])
      OBVIOUS
    <3>1. i \in 1 .. n /\ i # 1 /\ i - 1 = k + 1 /\ k + 1 <= n BY <1>0
    <3>2. c[k + 1] = Part(b, o, p[k + 1]) BY <2>9, <3>1
    <3> HIDE DEF i
    <3>3. c[i] = c[i - 1] \o w[i] BY <2>7, <3>1
    <3> QED BY <2>3, <3>1, <3>2, <3>3
  <2> HIDE DEF K
  <2>10. \A k \in Nat : k \in K BY <2>8, <2>9, SetInduction
  <2>11. n - 1 \in Nat /\ (n - 1) + 1 = n BY <1>0, <1>3
  <2>12. c[n] = Part(b, o, p[n])
    <3>1. n - 1 \in K BY <2>10, <2>11
    <3> DEFINE k == n - 1
    <3>2. k \in K /\ k + 1 = n BY <3>1, <2>11
    <3> HIDE DEF k
    <3> QED BY <1>0, <3>2 DEF K
  <2> QED BY <2>1, <2>12
<1> QED BY <1>2, <1>3

\* And their sizes add up to all.
LEMMA SizesAddUp ==
  ASSUME NEW p, NEW n, NEW b, NEW o, Marks(p, n, b, o)
  PROVE  SumOf(Gaps(p, n)) = p[n] - o
<1> DEFINE z == Gaps(p, n)
<1> SUFFICES SumOf(z) = p[n] - o
  OBVIOUS
<1>9. z = [i \in 1 .. n |-> p[i] - p[i - 1]] BY DEF Gaps
<1> HIDE DEF z
<1>0. b \in Seq(Octet) /\ n \in Nat /\ o \in Nat /\ p[0] = o /\ \A i \in 0 .. n : p[i] \in Nat
  BY DEF Marks
<1>1. \A i \in 1 .. n : z[i] = p[i] - p[i - 1] /\ z[i] \in Int
  <2> TAKE i \in 1 .. n
  <2>1. i \in 0 .. n /\ i - 1 \in 0 .. n BY <1>0
  <2>2. p[i] \in Nat /\ p[i - 1] \in Nat BY <1>0, <2>1
  <2> QED BY <1>9, <2>2
<1>2. z \in Seq(Int) /\ Len(z) = n
  <2>1. z \in [1 .. n -> Int] BY <1>1, <1>9
  <2>2. DOMAIN z = 1 .. n BY <1>9
  <2> QED BY <1>0, <2>1, <2>2
<1>3. PICK g : Sums(z, g) /\ SumOf(z) = g[Len(z)] BY <1>2, SumIs
<1>4. g[0] = 0 /\ \A i \in 1 .. n : g[i] = g[i - 1] + z[i] BY <1>2, <1>3 DEF Sums
<1> DEFINE K == {k \in Nat : k <= n => g[k] = p[k] - o}
<1>5. 0 \in K BY <1>0, <1>4
<1>6. ASSUME NEW k \in Nat, k \in K PROVE k + 1 \in K
  <2> SUFFICES ASSUME k + 1 <= n PROVE g[k + 1] = p[k + 1] - o
    OBVIOUS
  <2>1. k + 1 \in 1 .. n /\ k + 1 \in 0 .. n /\ k \in 0 .. n /\ (k + 1) - 1 = k /\ k <= n BY <1>0
  <2>2. p[k + 1] \in Nat /\ p[k] \in Nat BY <1>0, <2>1
  <2>3. g[k] = p[k] - o BY <1>6, <2>1
  <2>4. z[k + 1] = p[k + 1] - p[k] BY <1>1, <2>1
  <2>5. g[k + 1] = g[k] + z[k + 1] BY <1>4, <2>1
  <2> QED BY <1>0, <2>2, <2>3, <2>4, <2>5
<1> HIDE DEF K
<1>7. \A k \in Nat : k \in K BY <1>5, <1>6, SetInduction
<1>8. g[n] = p[n] - o BY <1>0, <1>7 DEF K
<1> QED BY <1>2, <1>3, <1>8

\* What a list that was read consists of: the i-th item lies between two marks.
Row(item, n, b, o, r, p) ==
  /\ Marks(p, n, b, o) /\ r.off = p[n]
  /\ Len(r.val) = n /\ DOMAIN r.val = 1 .. n
  /\ \A i \in 1 .. n : /\ p[i - 1] \in Offsets(b)
                       /\ item[i][p[i - 1]].ok /\ item[i][p[i - 1]].off = p[i]
                       /\ r.val[i] = item[i][p[i - 1]].val

LEMMA InOrderRow ==
  ASSUME NEW item, NEW n, NEW b, Items(item, n, b), NEW o, o \in Offsets(b)
  PROVE  /\ IsRead(InOrder(item, n, o), b, o)
         /\ InOrder(item, n, o).ok => \E p : Row(item, n, b, o, InOrder(item, n, o), p)
<1> DEFINE r == InOrder(item, n, o)
<1> SUFFICES IsRead(r, b, o) /\ (r.ok => \E p : Row(item, n, b, o, r, p))
  OBVIOUS
<1>0. n \in Nat /\ b \in Seq(Octet) BY DEF Items
<1>9. \A i \in 1 .. n : \A p \in Offsets(b) : IsRead(item[i][p], b, p) BY DEF Items
<1>1. PICK g : InTurn(item, n, o, g) /\ r = g[n] BY <1>0, InOrderIs
<1>2. \A k \in 0 .. n : Turned(item, n, b, o, g, k) BY <1>1, AllTurned
<1> HIDE DEF r
<1>3. Turned(item, n, b, o, g, n)
  <2>1. n \in 0 .. n BY <1>0
  <2> QED BY <1>2, <2>1
<1>4. IsRead(r, b, o) BY <1>1, <1>3 DEF Turned
<1>5. ASSUME r.ok PROVE \E p : Row(item, n, b, o, r, p)
  <2> DEFINE p == [i \in 0 .. n |-> g[i].off]
             V == Vals(item, n, b)
  <2>1. /\ r.val \in Seq(V) /\ Len(r.val) = n
        /\ \A i \in 1 .. n : TakenUp(item, g, i) /\ r.val[i] = item[i][g[i - 1].off].val
    BY <1>1, <1>3, <1>5 DEF Turned
  <2>2. DOMAIN r.val = 1 .. n
    <3> DEFINE v == r.val
    <3>1. v \in Seq(V) /\ Len(v) = n BY <2>1
    <3> HIDE DEF v, V
    <3>2. DOMAIN v = 1 .. n BY <1>0, <3>1
    <3> QED BY <3>2 DEF v
  <2>3. p[0] = o
    <3>1. g[0] = Read(o, <<>>) BY <1>1 DEF InTurn
    <3> QED BY <1>0, <3>1 DEF Read
  <2>4. o \in Nat /\ Len(b) \in Nat
    <3>1. Len(b) \in Nat BY <1>0
    <3>2. o \in 0 .. Len(b) BY DEF Offsets
    <3> QED BY <3>1, <3>2
  <2>5. \A i \in 0 .. n : p[i] \in Nat /\ o <= p[i] /\ p[i] <= Len(b) /\ p[i] \in Offsets(b)
    <3> TAKE i \in 0 .. n
    <3>1. IsRead(g[i], b, o) BY <1>2 DEF Turned
    <3>2. g[i].off \in o .. Len(b) BY <3>1 DEF IsRead
    <3>3. p[i] \in o .. Len(b) BY <3>2
    <3> HIDE DEF p
    <3> QED BY <2>4, <3>3 DEF Offsets
  <2>6. \A i \in 1 .. n : p[i] = g[i].off /\ p[i - 1] = g[i - 1].off /\ i - 1 \in 0 .. n /\ i \in 0 .. n
    <3> TAKE i \in 1 .. n
    <3>1. i - 1 \in 0 .. n /\ i \in 0 .. n BY <1>0
    <3> QED BY <3>1
  <2>7. r.off = p[n] BY <1>0, <1>1
  <2> HIDE DEF p
  <2>8. \A i \in 1 .. n : /\ p[i - 1] \in Offsets(b)
                          /\ item[i][p[i - 1]].ok /\ item[i][p[i - 1]].off = p[i]
                          /\ r.val[i] = item[i][p[i - 1]].val
    BY <2>1, <2>5, <2>6 DEF TakenUp
  <2>9. \A i \in 1 .. n : p[i - 1] <= p[i]
    <3> TAKE i \in 1 .. n
    <3> DEFINE q == p[i - 1]
               s == item[i][q]
    <3>1. q \in Offsets(b) /\ s.off = p[i] BY <2>8
    <3>2. IsRead(s, b, q) BY <1>9, <3>1
    <3> HIDE DEF s
    <3>3. s.off \in q .. Len(b) BY <3>2 DEF IsRead
    <3> HIDE DEF q
    <3>4. q <= s.off BY <3>3
    <3> QED BY <3>1, <3>4 DEF q
  <2>10. Marks(p, n, b, o) BY <1>0, <2>3, <2>4, <2>5, <2>9 DEF Marks
  <2>11. Row(item, n, b, o, r, p) BY <2>1, <2>2, <2>7, <2>8, <2>10 DEF Row
  <2> QED BY <2>11
<1> QED BY <1>4, <1>5

\* A reading that stays in the buffer, and whose value says its bytes.
Sound(r, b, o, w, z) == IsRead(r, b, o) /\ Says(r, b, o, w, z)

\* A list whose items are written as their bytes is.
Listed(item, n, b, p, w, z) ==
  /\ w = [i \in 1 .. n |-> w[i]] /\ z = [i \in 1 .. n |-> z[i]]
  /\ \A i \in 1 .. n : Says(item[i][p[i - 1]], b, p[i - 1], w[i], z[i])

LEMMA RowSays ==
  ASSUME NEW item, NEW n, NEW b, NEW o, NEW r, NEW p, Row(item, n, b, o, r, p),
         NEW w, NEW z, Listed(item, n, b, p, w, z)
  PROVE  FlattenSeq(w) = Part(b, o, r.off) /\ SumOf(z) = r.off - o
<1>1. \A i \in 1 .. n : w[i] = Part(b, p[i - 1], p[i]) /\ z[i] = p[i] - p[i - 1]
  BY DEF Row, Says, Listed
<1>2. w = Pieces(b, p, n) BY <1>1 DEF Pieces, Listed
<1>3. z = Gaps(p, n) BY <1>1 DEF Gaps, Listed
<1>4. Marks(p, n, b, o) /\ r.off = p[n] BY DEF Row
<1>5. FlattenSeq(w) = Part(b, o, p[n]) BY <1>2, <1>4, PartsInARow
<1>6. SumOf(z) = p[n] - o BY <1>3, <1>4, SizesAddUp
<1> QED BY <1>4, <1>5, <1>6

\* A place to read from, and the fields of a message.
At(b, o)  == b \in Seq(Octet) /\ o \in Offsets(b)
IsType(T) == Len(T) \in Nat /\ DOMAIN T = 1 .. Len(T)

LEMMA MessageIs ==
  ASSUME NEW b, NEW o, At(b, o), NEW T, IsType(T)
  PROVE  Sound(ReadMessage(T, b, o), b, o, WriteMessage(T, ReadMessage(T, b, o).val),
               SizeMessage(T, ReadMessage(T, b, o).val))
<1> DEFINE n == Len(T)
           item == [i \in DOMAIN T |-> [p \in Offsets(b) |-> ReadField(T[i], b, p)]]
           r == ReadMessage(T, b, o)
           w == [i \in 1 .. n |-> WriteField(T[i], r.val[i])]
           z == [i \in 1 .. n |-> SizeField(T[i], r.val[i])]
<1>0. b \in Seq(Octet) /\ o \in Offsets(b) /\ n \in Nat /\ DOMAIN T = 1 .. n BY DEF At, IsType
<1>1. \A i \in 1 .. n : \A p \in Offsets(b) : item[i][p] = ReadField(T[i], b, p) BY <1>0
<1>2. WriteMessage(T, r.val) = FlattenSeq(w) /\ SizeMessage(T, r.val) = SumOf(z)
  BY <1>0 DEF WriteMessage, SizeMessage
<1>3. r = InOrder(item, n, o) BY DEF ReadMessage
<1> SUFFICES IsRead(r, b, o) /\ (r.ok => FlattenSeq(w) = Part(b, o, r.off) /\ SumOf(z) = r.off - o)
  BY <1>2 DEF Sound, Says
<1> HIDE DEF item, r
<1>4. Items(item, n, b) BY <1>0, <1>1, FieldIs DEF Items, Offsets
<1>5. IsRead(r, b, o) /\ (r.ok => \E p : Row(item, n, b, o, r, p)) BY <1>0, <1>3, <1>4, InOrderRow
<1>6. ASSUME r.ok PROVE FlattenSeq(w) = Part(b, o, r.off) /\ SumOf(z) = r.off - o
  <2>1. PICK p : Row(item, n, b, o, r, p) BY <1>5, <1>6
  <2>2. \A i \in 1 .. n : Says(item[i][p[i - 1]], b, p[i - 1], w[i], z[i])
    <3> TAKE i \in 1 .. n
    <3> DEFINE q == p[i - 1]
    <3>1. q \in Offsets(b) /\ r.val[i] = item[i][q].val BY <2>1 DEF Row
    <3> HIDE DEF q
    <3>2. item[i][q] = ReadField(T[i], b, q) BY <1>1, <3>1
    <3>3. w[i] = WriteField(T[i], item[i][q].val) /\ z[i] = SizeField(T[i], item[i][q].val)
      BY <3>1
    <3> HIDE DEF w, z
    <3>4. Says(item[i][q], b, q, w[i], z[i]) BY <1>0, <3>1, <3>2, <3>3, FieldIs DEF Offsets
    <3> QED BY <3>4 DEF q
  <2>3. w = [i \in 1 .. n |-> w[i]] /\ z = [i \in 1 .. n |-> z[i]] OBVIOUS
  <2> HIDE DEF w, z
  <2>4. Listed(item, n, b, p, w, z) BY <2>2, <2>3 DEF Listed
  <2> QED BY <2>1, <2>4, RowSays
<1> QED BY <1>5, <1>6

-----------------------------------------------------------------------------
(* Serialization: arrays and vectors.                                      *)

\* A message of one field is as long as the field.
LEMMA OneSize ==
  ASSUME NEW f, NEW x, SizeField(f, x) \in Int
  PROVE  SizeMessage(<<f>>, <<x>>) = SizeField(f, x)
<1> DEFINE a == SizeField(f, x)
           z == [i \in DOMAIN <<f>> |-> SizeField(<<f>>[i], <<x>>[i])]
<1>1. z = [i \in 1 .. 1 |-> a] OBVIOUS
<1>2. SizeMessage(<<f>>, <<x>>) = SumOf(z) BY DEF SizeMessage
<1> SUFFICES SumOf(z) = a
  BY <1>2
<1>3. a \in Int OBVIOUS
<1> HIDE DEF z, a
<1>4. z \in Seq(Int) /\ Len(z) = 1 /\ z[1] = a BY <1>1, <1>3
<1>5. PICK g : Sums(z, g) /\ SumOf(z) = g[Len(z)] BY <1>4, SumIs
<1>6. g[0] = 0 /\ g[1] = g[0] + z[1] BY <1>4, <1>5 DEF Sums
<1> QED BY <1>3, <1>4, <1>5, <1>6

Singles(v) == [i \in DOMAIN v |-> <<v[i]>>]

LEMMA StringArrayIs ==
  ASSUME NEW b, NEW o, At(b, o), NEW n, n \in Nat
  PROVE  /\ Sound(ReadStringArray(n, b, o), b, o, WriteStringArray(ReadStringArray(n, b, o).val),
                  SizeArray(String, Singles(ReadStringArray(n, b, o).val)))
         /\ ReadStringArray(n, b, o).ok => Len(ReadStringArray(n, b, o).val) = n
<1> DEFINE item == [i \in 1 .. n |-> [p \in Offsets(b) |-> ReadString(b, p)]]
           r == ReadStringArray(n, b, o)
           w == [i \in DOMAIN r.val |-> WriteString(r.val[i])]
           z == [i \in DOMAIN Singles(r.val) |-> SizeMessage(String, Singles(r.val)[i])]
<1>0. b \in Seq(Octet) /\ o \in Offsets(b) BY DEF At
<1>1. \A i \in 1 .. n : \A p \in Offsets(b) : item[i][p] = ReadString(b, p) OBVIOUS
<1>2. WriteStringArray(r.val) = FlattenSeq(w) /\ SizeArray(String, Singles(r.val)) = SumOf(z)
  BY DEF WriteStringArray, SizeArray
<1>3. r = InOrder(item, n, o) BY DEF ReadStringArray
<1> SUFFICES /\ IsRead(r, b, o)
             /\ r.ok => FlattenSeq(w) = Part(b, o, r.off) /\ SumOf(z) = r.off - o /\ Len(r.val) = n
  BY <1>2 DEF Sound, Says
<1> HIDE DEF item, r
<1>4. Items(item, n, b) BY <1>0, <1>1, StringIs DEF Items, Offsets
<1>5. IsRead(r, b, o) /\ (r.ok => \E p : Row(item, n, b, o, r, p)) BY <1>0, <1>3, <1>4, InOrderRow
<1>6. ASSUME r.ok
      PROVE  FlattenSeq(w) = Part(b, o, r.off) /\ SumOf(z) = r.off - o /\ Len(r.val) = n
  <2>1. PICK p : Row(item, n, b, o, r, p) BY <1>5, <1>6
  <2>2. DOMAIN r.val = 1 .. n /\ Len(r.val) = n BY <2>1 DEF Row
  <2>3. \A i \in 1 .. n : w[i] = WriteString(r.val[i]) /\ z[i] = SizeMessage(String, <<r.val[i]>>)
    BY <2>2 DEF Singles
  <2>4. w = [i \in 1 .. n |-> w[i]] /\ z = [i \in 1 .. n |-> z[i]] BY <2>2 DEF Singles
  <2> HIDE DEF w, z
  <2>5. \A i \in 1 .. n : Says(item[i][p[i - 1]], b, p[i - 1], w[i], z[i])
    <3> TAKE i \in 1 .. n
    <3> DEFINE q == p[i - 1]
               s == ReadString(b, q)
    <3>1. q \in Offsets(b) /\ item[i][q].ok /\ r.val[i] = item[i][q].val BY <2>1 DEF Row
    <3> HIDE DEF q
    <3>2. item[i][q] = s BY <1>1, <3>1
    <3> HIDE DEF s
    <3>3. IsRead(s, b, q) /\ Says(s, b, q, WriteString(s.val), SizeString(s.val))
      BY <1>0, <3>1, StringIs DEF s, Offsets
    <3>4. SizeString(s.val) \in Int
      <4>1. q \in 0 .. Len(b) /\ Len(b) \in Nat BY <1>0, <3>1 DEF Offsets
      <4>2. s.off \in q .. Len(b) BY <3>3 DEF IsRead
      <4>3. SizeString(s.val) = s.off - q BY <3>1, <3>2, <3>3 DEF Says
      <4> QED BY <4>1, <4>2, <4>3
    <3>5. SizeMessage(String, <<s.val>>) = SizeString(s.val)
      BY <3>4, OneSize DEF SizeField, String
    <3>6. w[i] = WriteString(s.val) /\ z[i] = SizeString(s.val) BY <2>3, <3>1, <3>2, <3>5
    <3>7. Says(item[i][q], b, q, w[i], z[i]) BY <3>2, <3>3, <3>6
    <3> QED BY <3>7 DEF q
  <2>6. Listed(item, n, b, p, w, z) BY <2>4, <2>5 DEF Listed
  <2> QED BY <2>1, <2>2, <2>6, RowSays
<1> QED BY <1>5, <1>6

LEMMA MessageArrayIs ==
  ASSUME NEW b, NEW o, At(b, o), NEW T, IsType(T), NEW n, n \in Nat
  PROVE  /\ Sound(ReadMessageArray(T, n, b, o), b, o, WriteMessageArray(T, ReadMessageArray(T, n, b, o).val),
                  SizeArray(T, ReadMessageArray(T, n, b, o).val))
         /\ ReadMessageArray(T, n, b, o).ok => Len(ReadMessageArray(T, n, b, o).val) = n
<1> DEFINE item == [i \in 1 .. n |-> [p \in Offsets(b) |-> ReadMessage(T, b, p)]]
           r == ReadMessageArray(T, n, b, o)
           w == [i \in DOMAIN r.val |-> WriteMessage(T, r.val[i])]
           z == [i \in DOMAIN r.val |-> SizeMessage(T, r.val[i])]
<1>0. b \in Seq(Octet) /\ o \in Offsets(b) BY DEF At
<1>1. \A i \in 1 .. n : \A p \in Offsets(b) : item[i][p] = ReadMessage(T, b, p) OBVIOUS
<1>2. WriteMessageArray(T, r.val) = FlattenSeq(w) /\ SizeArray(T, r.val) = SumOf(z)
  BY DEF WriteMessageArray, SizeArray
<1>3. r = InOrder(item, n, o) BY DEF ReadMessageArray
<1> SUFFICES /\ IsRead(r, b, o)
             /\ r.ok => FlattenSeq(w) = Part(b, o, r.off) /\ SumOf(z) = r.off - o /\ Len(r.val) = n
  BY <1>2 DEF Sound, Says
<1> HIDE DEF item, r
<1>7. \A p \in Offsets(b) : Sound(ReadMessage(T, b, p), b, p, WriteMessage(T, ReadMessage(T, b, p).val),
                                  SizeMessage(T, ReadMessage(T, b, p).val))
  <2> TAKE p \in Offsets(b)
  <2>1. At(b, p) BY <1>0 DEF At
  <2> QED BY <2>1, MessageIs
<1>4. Items(item, n, b) BY <1>0, <1>1, <1>7 DEF Items, Sound
<1>5. IsRead(r, b, o) /\ (r.ok => \E p : Row(item, n, b, o, r, p)) BY <1>0, <1>3, <1>4, InOrderRow
<1>6. ASSUME r.ok
      PROVE  FlattenSeq(w) = Part(b, o, r.off) /\ SumOf(z) = r.off - o /\ Len(r.val) = n
  <2>1. PICK p : Row(item, n, b, o, r, p) BY <1>5, <1>6
  <2>2. DOMAIN r.val = 1 .. n /\ Len(r.val) = n BY <2>1 DEF Row
  <2>3. \A i \in 1 .. n : w[i] = WriteMessage(T, r.val[i]) /\ z[i] = SizeMessage(T, r.val[i])
    BY <2>2
  <2>4. w = [i \in 1 .. n |-> w[i]] /\ z = [i \in 1 .. n |-> z[i]] BY <2>2
  <2> HIDE DEF w, z
  <2>5. \A i \in 1 .. n : Says(item[i][p[i - 1]], b, p[i - 1], w[i], z[i])
    <3> TAKE i \in 1 .. n
    <3> DEFINE q == p[i - 1]
    <3>1. q \in Offsets(b) /\ r.val[i] = item[i][q].val BY <2>1 DEF Row
    <3> HIDE DEF q
    <3>2. item[i][q] = ReadMessage(T, b, q) BY <1>1, <3>1
    <3>3. Says(item[i][q], b, q, w[i], z[i]) BY <1>7, <2>3, <3>1, <3>2 DEF Sound
    <3> QED BY <3>3 DEF q
  <2>6. Listed(item, n, b, p, w, z) BY <2>4, <2>5 DEF Listed
  <2> QED BY <2>1, <2>2, <2>6, RowSays
<1> QED BY <1>5, <1>6

\* Fewer words take no more bytes.
LEMMA WordsFit ==
  ASSUME NEW i, i \in Nat, NEW n, n \in Nat, i <= n
  PROVE  /\ i * Word \in Nat /\ n * Word \in Nat /\ i * Word <= n * Word
         /\ (i + 1) * Word = i * Word + Word
<1>0. Word \in Nat BY CodecAssumption
<1> DEFINE d == n - i
           W == Word
<1>1. d \in Nat OBVIOUS
<1>2. d * W \in Nat /\ i * W \in Nat /\ n * W \in Nat
  <2> HIDE DEF d, W
  <2>1. W \in Nat BY <1>0 DEF W
  <2> QED BY <1>1, <2>1, SMT
<1>3. n * W = i * W + d * W BY <1>0, SMT
<1>4. (i + 1) * W = i * W + W BY <1>0, SMT
<1> QED BY <1>2, <1>3, <1>4

LEMMA NumberArrayIs ==
  ASSUME NEW b, NEW o, At(b, o), NEW n, n \in Nat
  PROVE  /\ Sound(ReadNumberArray(n, b, o), b, o, WriteNumberArray(ReadNumberArray(n, b, o).val),
                  SizeArray(Number, Singles(ReadNumberArray(n, b, o).val)))
         /\ ReadNumberArray(n, b, o).ok => Len(ReadNumberArray(n, b, o).val) = n
<1> DEFINE r == ReadNumberArray(n, b, o)
           v == [i \in 1 .. n |-> Value(Bytes(b, o + (i - 1) * Word, Word))]
           w == [i \in DOMAIN r.val |-> WriteNumber(r.val[i])]
           z == [i \in DOMAIN Singles(r.val) |-> SizeMessage(Number, Singles(r.val)[i])]
           end == o + n * Word
<1>0. b \in Seq(Octet) /\ o \in Offsets(b) BY DEF At
<1>1. o \in Nat /\ Len(b) \in Nat /\ o <= Len(b) /\ Word \in Nat /\ n * Word \in Nat /\ end \in Nat
      /\ o <= end
  <2>1. Len(b) \in Nat BY <1>0
  <2>2. o \in 0 .. Len(b) BY <1>0 DEF Offsets
  <2>3. n * Word \in Nat BY WordsFit
  <2> QED BY <2>1, <2>2, <2>3, CodecAssumption
<1>2. WriteNumberArray(r.val) = FlattenSeq(w) /\ SizeArray(Number, Singles(r.val)) = SumOf(z)
  BY DEF WriteNumberArray, SizeArray
<1> SUFFICES /\ IsRead(r, b, o)
             /\ r.ok => FlattenSeq(w) = Part(b, o, r.off) /\ SumOf(z) = r.off - o /\ Len(r.val) = n
  BY <1>2 DEF Sound, Says
<1>3. CASE end > Len(b)
  <2>1. r = [ok |-> FALSE, off |-> o, val |-> <<>>] BY <1>3 DEF ReadNumberArray, Failed
  <2> HIDE DEF r, w, z
  <2>2. r.ok = FALSE /\ r.off = o BY <2>1
  <2>3. r = [ok |-> r.ok, off |-> r.off, val |-> r.val] BY <2>1
  <2>4. o \in o .. Len(b) BY <1>1
  <2>5. IsRead(r, b, o) BY <2>2, <2>3, <2>4 DEF IsRead
  <2> QED BY <2>2, <2>5
<1>4. CASE ~(end > Len(b))
  <2>1. r = [ok |-> TRUE, off |-> end, val |-> v] BY <1>4 DEF ReadNumberArray, Read
  <2>2. DOMAIN v = 1 .. n /\ Len(v) = n /\ \A i \in 1 .. n : v[i] = Value(Bytes(b, o + (i - 1) * Word, Word))
    OBVIOUS
  <2> HIDE DEF r, v
  <2>3. r.ok = TRUE /\ r.off = end /\ r.val = v BY <2>1
  <2>4. IsRead(r, b, o)
    <3>1. r = [ok |-> r.ok, off |-> r.off, val |-> r.val] BY <2>1
    <3>2. end \in o .. Len(b) BY <1>1, <1>4
    <3> QED BY <2>3, <3>1, <3>2 DEF IsRead
  <2> DEFINE p == [i \in 0 .. n |-> o + i * Word]
  <2>5. \A i \in 0 .. n : p[i] \in Nat /\ o <= p[i] /\ p[i] <= end
    <3> TAKE i \in 0 .. n
    <3>1. i * Word \in Nat /\ i * Word <= n * Word BY WordsFit
    <3>2. p[i] = o + i * Word OBVIOUS
    <3> HIDE DEF p
    <3> QED BY <1>1, <3>1, <3>2
  <2>6. p[0] = o /\ p[n] = end
    <3>1. 0 * Word = 0 BY <1>1
    <3> QED BY <1>1, <3>1
  <2>7. \A i \in 1 .. n : /\ p[i] = p[i - 1] + Word /\ p[i - 1] = o + (i - 1) * Word
                          /\ i - 1 \in 0 .. n /\ i \in 0 .. n
    <3> TAKE i \in 1 .. n
    <3> DEFINE k == i - 1
    <3>1. k \in Nat /\ k <= n /\ k + 1 = i /\ k \in 0 .. n /\ i \in 0 .. n OBVIOUS
    <3>2. p[i] = o + i * Word /\ p[k] = o + k * Word BY <3>1
    <3> HIDE DEF p, k
    <3>3. (k + 1) * Word = k * Word + Word /\ k * Word \in Nat BY <3>1, WordsFit
    <3>4. p[i] = p[k] + Word BY <1>1, <3>1, <3>2, <3>3
    <3> QED BY <3>1, <3>2, <3>4 DEF k
  <2> HIDE DEF p
  <2>8. Marks(p, n, b, o)
    <3>1. \A i \in 0 .. n : p[i] \in Nat /\ o <= p[i] /\ p[i] <= Len(b)
      <4> TAKE i \in 0 .. n
      <4>1. p[i] \in Nat /\ o <= p[i] /\ p[i] <= end BY <2>5
      <4> QED BY <1>1, <1>4, <4>1
    <3>2. \A i \in 1 .. n : p[i - 1] <= p[i]
      <4> TAKE i \in 1 .. n
      <4>1. p[i - 1] \in Nat /\ p[i] = p[i - 1] + Word BY <2>5, <2>7
      <4> QED BY <1>1, <4>1
    <3> QED BY <1>0, <1>1, <2>6, <3>1, <3>2 DEF Marks
  <2>9. \A i \in 1 .. n : w[i] = WriteNumber(v[i]) /\ z[i] = SizeMessage(Number, <<v[i]>>)
    BY <2>2, <2>3 DEF Singles
  <2>10. w = [i \in 1 .. n |-> w[i]] /\ z = [i \in 1 .. n |-> z[i]] BY <2>2, <2>3 DEF Singles
  <2> HIDE DEF w, z
  <2>11. \A i \in 1 .. n : w[i] = Part(b, p[i - 1], p[i]) /\ z[i] = p[i] - p[i - 1]
    <3> TAKE i \in 1 .. n
    <3> DEFINE q == p[i - 1]
               x == v[i]
    <3>1. q \in Nat /\ p[i] = q + Word /\ p[i] <= Len(b) BY <2>7, <2>8 DEF Marks
    <3>2. x = Value(Bytes(b, q, Word)) BY <2>2, <2>7
    <3>3. w[i] = WriteNumber(x) /\ z[i] = SizeMessage(Number, <<x>>) BY <2>9
    <3> HIDE DEF q, x
    <3> DEFINE s == ReadNumber(b, q)
    <3>4. q \in 0 .. Len(b) /\ q + Word <= Len(b) BY <1>1, <3>1
    <3>5. s.ok /\ s.off = q + Word /\ s.val = x /\ Says(s, b, q, WriteNumber(s.val), Word)
      BY <1>0, <3>2, <3>4, NumberIs
    <3>6. WriteNumber(x) = Part(b, q, q + Word)
      <4> HIDE DEF s
      <4> QED BY <3>5 DEF Says
    <3>7. SizeMessage(Number, <<x>>) = Word
      <4>1. SizeField("number", x) = Word /\ Word \in Int BY <1>1 DEF SizeField
      <4> QED BY <4>1, OneSize DEF Number, UInt32
    <3>8. Word = p[i] - q BY <1>1, <3>1
    <3>9. w[i] = Part(b, q, p[i]) BY <3>1, <3>3, <3>6
    <3> QED BY <3>3, <3>7, <3>8, <3>9 DEF q
  <2>12. w = Pieces(b, p, n) BY <2>10, <2>11 DEF Pieces
  <2>13. z = Gaps(p, n) BY <2>10, <2>11 DEF Gaps
  <2>14. FlattenSeq(w) = Part(b, o, p[n]) BY <2>8, <2>12, PartsInARow
  <2>15. SumOf(z) = p[n] - o BY <2>8, <2>13, SizesAddUp
  <2> QED BY <2>2, <2>3, <2>4, <2>6, <2>14, <2>15
<1> QED BY <1>3, <1>4

\* An array after its count.
LEMMA VectorIs ==
  ASSUME NEW b, NEW o, At(b, o), NEW r, NEW a, NEW w, NEW z,
         r = (IF ReadNumber(b, o).ok THEN a ELSE ReadNumber(b, o)),
         ReadNumber(b, o).ok => /\ Sound(a, b, ReadNumber(b, o).off, w, z)
                                /\ a.ok => Len(a.val) = ReadNumber(b, o).val
  PROVE  Sound(r, b, o, WriteNumber(Len(r.val)) \o w, Word + z)
<1> DEFINE c == ReadNumber(b, o)
<1>0. b \in Seq(Octet) /\ o \in 0 .. Len(b) /\ Len(b) \in Nat /\ Word \in Nat
  BY CodecAssumption DEF At, Offsets
<1>1. /\ IsRead(c, b, o) /\ Says(c, b, o, WriteNumber(c.val), Word)
      /\ c.ok => c.off = o + Word
  BY <1>0, NumberIs
<1>2. r = (IF c.ok THEN a ELSE c) OBVIOUS
<1>3. c.ok => Sound(a, b, c.off, w, z) /\ (a.ok => Len(a.val) = c.val) OBVIOUS
<1> HIDE DEF c
<1>4. CASE ~c.ok
  <2>1. r = c /\ ~r.ok BY <1>2, <1>4
  <2> QED BY <1>1, <2>1 DEF Sound, Says
<1>5. CASE c.ok
  <2> DEFINE q == c.off
             e == a.off
  <2>1. r = a /\ IsRead(a, b, q) /\ Says(a, b, q, w, z) BY <1>2, <1>3, <1>5 DEF Sound
  <2>2. q \in Nat /\ o \in Nat /\ o <= q BY <1>0, <1>1, <1>5
  <2>3. e \in q .. Len(b) BY <2>1 DEF IsRead
  <2> HIDE DEF q, e
  <2>4. e \in o .. Len(b) /\ e \in Nat /\ q <= e /\ e <= Len(b) BY <1>0, <2>2, <2>3
  <2>5. IsRead(a, b, o) BY <2>1, <2>4 DEF IsRead, e
  <2>6. ASSUME a.ok
        PROVE  WriteNumber(Len(a.val)) \o w = Part(b, o, e) /\ Word + z = e - o
    <3>1. w = Part(b, q, e) /\ z = e - q BY <2>1, <2>6 DEF Says, e
    <3>2. WriteNumber(Len(a.val)) = Part(b, o, q) BY <1>1, <1>3, <1>5, <2>6 DEF Says, q
    <3>3. Part(b, o, q) \o Part(b, q, e) = Part(b, o, e)
      <4>1. Cuts(b, o, q, e) BY <1>0, <2>2, <2>4 DEF Cuts
      <4> QED BY <4>1, TwoParts
    <3>4. q = o + Word BY <1>1, <1>5 DEF q
    <3>5. Word + z = e - o BY <1>0, <2>2, <2>4, <3>1, <3>4
    <3> QED BY <3>1, <3>2, <3>3, <3>5
  <2> QED BY <2>1, <2>5, <2>6 DEF Sound, Says, e
<1> QED BY <1>4, <1>5

-----------------------------------------------------------------------------
(* Serialization: values of each kind.                                     *)

FieldNames == {"number", "string"}
Elems == {Number, String} \cup Messages

\* A message of n fields.
Fields(T, n) == T \in Seq(FieldNames) /\ Len(T) = n

LEMMA Joined ==
  ASSUME NEW x, NEW y, NEW m, m \in Nat, NEW n, n \in Nat, Fields(x, m), Fields(y, n)
  PROVE  Fields(x \o y, m + n)
BY DEF Fields

LEMMA FieldLists ==
  /\ Fields(Number, 1)
  /\ Fields(String, 1)
  /\ Fields(Time, 2)
  /\ Fields(Twist2D, 3)
  /\ Fields(Header, 4)
  /\ Fields(Twist2DStamped, 7)
<1>1. Fields(Number, 1) BY DEF Number, UInt32, FieldNames, Fields
<1>2. Fields(String, 1) BY DEF String, FieldNames, Fields
<1>3. Fields(Time, 2) BY DEF Time, FieldNames, Fields
<1>4. Fields(Twist2D, 3) BY DEF Twist2D, FieldNames, Fields
<1>5. Fields(Header, 4)
  <2> DEFINE x == Number \o Time
             y == String
  <2>1. Fields(x, 1 + 2) BY <1>1, <1>3, Joined
  <2>2. Header = x \o y BY DEF Header, Number, UInt32, String
  <2> HIDE DEF x
  <2>3. Fields(x \o y, 3 + 1) BY <1>2, <2>1, Joined
  <2> QED BY <2>2, <2>3
<1>6. Fields(Twist2DStamped, 7)
  <2>1. Twist2DStamped = Header \o Twist2D BY DEF Twist2DStamped
  <2>2. Fields(Header \o Twist2D, 4 + 3) BY <1>4, <1>5, Joined
  <2> QED BY <2>1, <2>2
<1> QED BY <1>1, <1>2, <1>3, <1>4, <1>5, <1>6

LEMMA ElemTypes ==
  ASSUME NEW T, T \in Elems
  PROVE  IsType(T) /\ T \in Seq(FieldNames) /\ Len(T) <= 7
<1>0. PICK n \in 1 .. 7 : Fields(T, n) BY FieldLists DEF Elems, Messages
<1>1. T \in Seq(FieldNames) /\ Len(T) <= 7 BY <1>0 DEF Fields
<1>2. IsType(T) BY <1>1 DEF IsType
<1> QED BY <1>1, <1>2

LEMMA ElemsDiffer == Number # String /\ Number \notin Messages /\ String \notin Messages
<1>1. Number # String BY DEF Number, UInt32, String
<1>2. ASSUME NEW T, T \in Messages PROVE Len(T) # 1
  <2>1. Len(Time) = 2 /\ Len(Header) = 4 /\ Len(Twist2D) = 3 /\ Len(Twist2DStamped) = 7
    BY FieldLists DEF Fields
  <2>2. T = Time \/ T = Header \/ T = Twist2D \/ T = Twist2DStamped BY <1>2 DEF Messages
  <2> QED BY <2>1, <2>2
<1>3. Len(Number) = 1 /\ Len(String) = 1 BY FieldLists DEF Fields
<1> QED BY <1>1, <1>2, <1>3

\* The seven ways to read, write and measure.
LEMMA NumberArrayKind ==
  ASSUME NEW k, k \in Kinds, k.elem = Number, k.form = "array", NEW b, NEW o, NEW v
  PROVE  /\ Reads(k, b, o) = ReadNumberArray(ArrayLen, b, o) /\ Writes(k, v) = WriteNumberArray(v)
         /\ SizeOf(k, v) = SizeArray(Number, Singles(v))
BY ElemsDiffer DEF Reads, Writes, SizeOf, Singles
LEMMA NumberVectorKind ==
  ASSUME NEW k, k \in Kinds, k.elem = Number, k.form = "vector", NEW b, NEW o, NEW v
  PROVE  /\ Reads(k, b, o) = ReadNumberVector(b, o) /\ Writes(k, v) = WriteNumberVector(v)
         /\ SizeOf(k, v) = SizeVector(Number, Singles(v))
BY ElemsDiffer DEF Reads, Writes, SizeOf, Singles
LEMMA StringArrayKind ==
  ASSUME NEW k, k \in Kinds, k.elem = String, k.form = "array", NEW b, NEW o, NEW v
  PROVE  /\ Reads(k, b, o) = ReadStringArray(ArrayLen, b, o) /\ Writes(k, v) = WriteStringArray(v)
         /\ SizeOf(k, v) = SizeArray(String, Singles(v))
BY ElemsDiffer DEF Reads, Writes, SizeOf, Singles
LEMMA StringVectorKind ==
  ASSUME NEW k, k \in Kinds, k.elem = String, k.form = "vector", NEW b, NEW o, NEW v
  PROVE  /\ Reads(k, b, o) = ReadStringVector(b, o) /\ Writes(k, v) = WriteStringVector(v)
         /\ SizeOf(k, v) = SizeVector(String, Singles(v))
BY ElemsDiffer DEF Reads, Writes, SizeOf, Singles
LEMMA OneKind ==
  ASSUME NEW k, k \in Kinds, k.form = "one", NEW b, NEW o, NEW v
  PROVE  /\ Reads(k, b, o) = ReadMessage(k.elem, b, o) /\ Writes(k, v) = WriteMessage(k.elem, v)
         /\ SizeOf(k, v) = SizeMessage(k.elem, v)
BY DEF Reads, Writes, SizeOf
LEMMA MessageArrayKind ==
  ASSUME NEW k, k \in Kinds, k.elem \in Messages, k.form = "array", NEW b, NEW o, NEW v
  PROVE  /\ Reads(k, b, o) = ReadMessageArray(k.elem, ArrayLen, b, o)
         /\ Writes(k, v) = WriteMessageArray(k.elem, v) /\ SizeOf(k, v) = SizeArray(k.elem, v)
BY ElemsDiffer DEF Reads, Writes, SizeOf
LEMMA MessageVectorKind ==
  ASSUME NEW k, k \in Kinds, k.elem \in Messages, k.form = "vector", NEW b, NEW o, NEW v
  PROVE  /\ Reads(k, b, o) = ReadMessageVector(k.elem, b, o)
         /\ Writes(k, v) = WriteMessageVector(k.elem, v) /\ SizeOf(k, v) = SizeVector(k.elem, v)
BY ElemsDiffer DEF Reads, Writes, SizeOf

LEMMA KindCases ==
  ASSUME NEW k, k \in Kinds
  PROVE  /\ k.elem \in Elems /\ k.form # "none"
         /\ \/ k.form = "one"
            \/ k.elem = Number /\ k.form = "array"
            \/ k.elem = Number /\ k.form = "vector"
            \/ k.elem = String /\ k.form = "array"
            \/ k.elem = String /\ k.form = "vector"
            \/ k.elem \in Messages /\ k.form = "array"
            \/ k.elem \in Messages /\ k.form = "vector"
<1>1. k.elem \in {Number, String} \cup Messages /\ k.form \in {"one", "array", "vector"}
  BY DEF Kinds
<1> QED BY <1>1 DEF Elems

\* Every value is written as the bytes it was read from.
LEMMA KindIs ==
  ASSUME NEW b, NEW o, At(b, o), NEW k, k \in Kinds
  PROVE  Sound(Reads(k, b, o), b, o, Writes(k, Reads(k, b, o).val), SizeOf(k, Reads(k, b, o).val))
<1> DEFINE r == Reads(k, b, o)
           c == ReadNumber(b, o)
           q == c.off
           n == c.val
<1> SUFFICES Sound(r, b, o, Writes(k, r.val), SizeOf(k, r.val))
  OBVIOUS
<1>0. ArrayLen \in Nat BY CodecAssumption
<1>1. c.ok => At(b, q) /\ n \in Nat
  <2>1. b \in Seq(Octet) /\ o \in 0 .. Len(b) /\ Len(b) \in Nat BY DEF At, Offsets
  <2>2. IsRead(c, b, o) /\ (c.ok => n \in Nat) BY <2>1, NumberIs
  <2> HIDE DEF n, c
  <2>3. q \in o .. Len(b) BY <2>2 DEF IsRead
  <2> HIDE DEF q
  <2>4. q \in 0 .. Len(b) BY <2>1, <2>3
  <2> QED BY <2>1, <2>2, <2>4 DEF At, Offsets
<1>2. CASE k.elem = Number /\ k.form = "array"
  <2>1. r = ReadNumberArray(ArrayLen, b, o) BY <1>2, NumberArrayKind
  <2>2. Writes(k, r.val) = WriteNumberArray(r.val) /\ SizeOf(k, r.val) = SizeArray(Number, Singles(r.val))
    BY <1>2, NumberArrayKind
  <2> HIDE DEF r
  <2> QED BY <1>0, <2>1, <2>2, NumberArrayIs
<1>3. CASE k.elem = Number /\ k.form = "vector"
  <2> DEFINE a == ReadNumberArray(n, b, q)
             w == WriteNumberArray(a.val)
             z == SizeArray(Number, Singles(a.val))
  <2>1. r = (IF c.ok THEN a ELSE c) BY <1>3, NumberVectorKind DEF ReadNumberVector
  <2>2. c.ok => Sound(a, b, q, w, z) /\ (a.ok => Len(a.val) = n) BY <1>1, NumberArrayIs
  <2>3. Writes(k, r.val) = WriteNumber(Len(r.val)) \o WriteNumberArray(r.val)
        /\ SizeOf(k, r.val) = Word + SizeArray(Number, Singles(r.val))
    BY <1>3, NumberVectorKind DEF WriteNumberVector, SizeVector
  <2> HIDE DEF r, a
  <2>4. Sound(r, b, o, WriteNumber(Len(r.val)) \o w, Word + z) BY <2>1, <2>2, VectorIs
  <2>5. c.ok => r = a BY <2>1
  <2>6. ~c.ok => ~r.ok BY <2>1
  <2> HIDE DEF c, q, n
  <2> QED BY <2>3, <2>4, <2>5, <2>6 DEF Sound, Says
<1>4. CASE k.elem = String /\ k.form = "array"
  <2>1. r = ReadStringArray(ArrayLen, b, o) BY <1>4, StringArrayKind
  <2>2. Writes(k, r.val) = WriteStringArray(r.val) /\ SizeOf(k, r.val) = SizeArray(String, Singles(r.val))
    BY <1>4, StringArrayKind
  <2> HIDE DEF r
  <2> QED BY <1>0, <2>1, <2>2, StringArrayIs
<1>5. CASE k.elem = String /\ k.form = "vector"
  <2> DEFINE a == ReadStringArray(n, b, q)
             w == WriteStringArray(a.val)
             z == SizeArray(String, Singles(a.val))
  <2>1. r = (IF c.ok THEN a ELSE c) BY <1>5, StringVectorKind DEF ReadStringVector
  <2>2. c.ok => Sound(a, b, q, w, z) /\ (a.ok => Len(a.val) = n) BY <1>1, StringArrayIs
  <2>3. Writes(k, r.val) = WriteNumber(Len(r.val)) \o WriteStringArray(r.val)
        /\ SizeOf(k, r.val) = Word + SizeArray(String, Singles(r.val))
    BY <1>5, StringVectorKind DEF WriteStringVector, SizeVector
  <2> HIDE DEF r, a
  <2>4. Sound(r, b, o, WriteNumber(Len(r.val)) \o w, Word + z) BY <2>1, <2>2, VectorIs
  <2>5. c.ok => r = a BY <2>1
  <2>6. ~c.ok => ~r.ok BY <2>1
  <2> HIDE DEF c, q, n
  <2> QED BY <2>3, <2>4, <2>5, <2>6 DEF Sound, Says
<1> DEFINE T == k.elem
<1>6. IsType(T) BY KindCases, ElemTypes
<1>7. CASE k.form = "one"
  <2>1. r = ReadMessage(T, b, o) BY <1>7, OneKind
  <2>2. Writes(k, r.val) = WriteMessage(T, r.val) /\ SizeOf(k, r.val) = SizeMessage(T, r.val)
    BY <1>7, OneKind
  <2> HIDE DEF r, T
  <2> QED BY <1>6, <2>1, <2>2, MessageIs
<1>8. CASE T \in Messages /\ k.form = "array"
  <2>1. r = ReadMessageArray(T, ArrayLen, b, o) BY <1>8, MessageArrayKind
  <2>2. Writes(k, r.val) = WriteMessageArray(T, r.val) /\ SizeOf(k, r.val) = SizeArray(T, r.val)
    BY <1>8, MessageArrayKind
  <2> HIDE DEF r, T
  <2> QED BY <1>0, <1>6, <2>1, <2>2, MessageArrayIs
<1>9. CASE T \in Messages /\ k.form = "vector"
  <2> DEFINE a == ReadMessageArray(T, n, b, q)
             w == WriteMessageArray(T, a.val)
             z == SizeArray(T, a.val)
  <2>1. r = (IF c.ok THEN a ELSE c) BY <1>9, MessageVectorKind DEF ReadMessageVector
  <2>2. c.ok => Sound(a, b, q, w, z) /\ (a.ok => Len(a.val) = n) BY <1>1, <1>6, MessageArrayIs
  <2>3. Writes(k, r.val) = WriteNumber(Len(r.val)) \o WriteMessageArray(T, r.val)
        /\ SizeOf(k, r.val) = Word + SizeArray(T, r.val)
    BY <1>9, MessageVectorKind DEF WriteMessageVector, SizeVector
  <2> HIDE DEF r, a
  <2>4. Sound(r, b, o, WriteNumber(Len(r.val)) \o w, Word + z) BY <2>1, <2>2, VectorIs
  <2>5. c.ok => r = a BY <2>1
  <2>6. ~c.ok => ~r.ok BY <2>1
  <2> HIDE DEF c, q, n
  <2> QED BY <2>3, <2>4, <2>5, <2>6 DEF Sound, Says
<1> QED BY <1>2, <1>3, <1>4, <1>5, <1>7, <1>8, <1>9, KindCases DEF T

-----------------------------------------------------------------------------
(* Serialization: the reader.                                              *)

CodecSpec == CodecInit /\ [][CodecNext]_codecVars

\* The last read is what the bytes where it began say.
CInv ==
  /\ buf \in Buffers /\ off \in Offsets(buf)
  /\ last.kind.form # "none" =>
       /\ last.kind \in Kinds
       /\ Reads(last.kind, buf, last.from) = [ok |-> last.ok, off |-> off, val |-> last.val]
  /\ last.from \in Offsets(buf) /\ off \in last.from .. Len(buf)

LEMMA BuffersAre == \A b \in Buffers : b \in Seq(Octet)
BY CodecAssumption DEF Octet

LEMMA CodecStarts == CodecInit => CInv
<1> SUFFICES ASSUME CodecInit PROVE CInv
  OBVIOUS
<1>1. buf \in Seq(Octet) /\ buf \in Buffers /\ off = 0 BY BuffersAre DEF CodecInit
<1>2. last.kind.form = "none" /\ last.from = 0 BY DEF CodecInit, Nothing
<1>3. Len(buf) \in Nat BY <1>1
<1> QED BY <1>1, <1>2, <1>3 DEF CInv, Offsets

LEMMA ReadNextKeeps ==
  ASSUME CInv, NEW k, k \in Kinds, ReadNext(k)
  PROVE  CInv'
<1> DEFINE r == Reads(k, buf, off)
<1>1. buf \in Buffers /\ buf \in Seq(Octet) /\ off \in Offsets(buf) BY BuffersAre DEF CInv
<1>2. IsRead(r, buf, off)
  <2>1. At(buf, off) BY <1>1 DEF At
  <2> QED BY <2>1, KindIs DEF Sound
<1>3. off' = r.off /\ last' = [kind |-> k, from |-> off, ok |-> r.ok, val |-> r.val] /\ buf' = buf
  BY DEF ReadNext
<1> HIDE DEF r
<1>4. last'.kind = k /\ last'.from = off /\ last'.ok = r.ok /\ last'.val = r.val BY <1>3
<1>5. r = [ok |-> last'.ok, off |-> off', val |-> last'.val] BY <1>2, <1>3, <1>4 DEF IsRead
<1>6. Reads(last'.kind, buf', last'.from) = [ok |-> last'.ok, off |-> off', val |-> last'.val]
  BY <1>3, <1>4, <1>5 DEF r
<1>7. off' \in off .. Len(buf) BY <1>2, <1>3 DEF IsRead
<1>8. off' \in Offsets(buf) /\ off' \in last'.from .. Len(buf')
  <2>1. off \in 0 .. Len(buf) /\ Len(buf) \in Nat BY <1>1 DEF Offsets
  <2>2. off' \in 0 .. Len(buf) BY <1>7, <2>1
  <2> QED BY <1>3, <1>4, <1>7, <2>2 DEF Offsets
<1> QED BY <1>1, <1>3, <1>4, <1>6, <1>8 DEF CInv, Offsets

LEMMA CodecKeeps == CInv /\ [CodecNext]_codecVars => CInv'
<1> SUFFICES ASSUME CInv, [CodecNext]_codecVars PROVE CInv'
  OBVIOUS
<1>1. CASE UNCHANGED codecVars BY <1>1 DEF codecVars, CInv, Offsets
<1>2. ASSUME NEW k \in Kinds, ReadNext(k) PROVE CInv' BY <1>2, ReadNextKeeps
<1> QED BY <1>1, <1>2 DEF CodecNext

\* Every value that was read, of any kind, from any bytes and at any place
\* among them, is serialized as exactly the bytes it was read from, and its
\* size() is their number; and no read leaves the buffer.  For any size of a
\* number and any length of the arrays (serialization.hpp 13-485).
THEOREM ReadsAreCanonical == CodecSpec => []Canonical
<1>1. CInv => Canonical
  <2> SUFFICES ASSUME CInv PROVE Canonical
    OBVIOUS
  <2>1. InBounds BY DEF CInv, InBounds
  <2>2. ASSUME last.kind.form # "none", last.ok
        PROVE  /\ Writes(last.kind, last.val) = SubSeq(buf, last.from + 1, off)
               /\ SizeOf(last.kind, last.val) = off - last.from
    <3> DEFINE k == last.kind
               o == last.from
               r == Reads(k, buf, o)
    <3>1. k \in Kinds /\ At(buf, o) BY <2>2, BuffersAre DEF CInv, At
    <3>2. Sound(r, buf, o, Writes(k, r.val), SizeOf(k, r.val)) BY <3>1, KindIs
    <3>3. r = [ok |-> last.ok, off |-> off, val |-> last.val] BY <2>2 DEF CInv
    <3> HIDE DEF r
    <3>4. r.ok = last.ok /\ r.off = off /\ r.val = last.val BY <3>3
    <3>5. Writes(k, r.val) = Part(buf, o, r.off) /\ SizeOf(k, r.val) = r.off - o
      BY <2>2, <3>2, <3>4 DEF Sound, Says
    <3> QED BY <3>4, <3>5 DEF Part
  <2> QED BY <2>1, <2>2 DEF Canonical
<1> QED BY <1>1, CodecStarts, CodecKeeps, PTL DEF CodecSpec

-----------------------------------------------------------------------------
(* Serialization: more bytes after the buffer.                             *)

\* c goes on where b ends, with zeros.
Padded(b, c) ==
  /\ b \in Seq(Octet) /\ c \in Seq(Octet) /\ Len(b) <= Len(c)
  /\ \A i \in 1 .. Len(b) : c[i] = b[i]
  /\ \A i \in 1 .. Len(c) : i > Len(b) => c[i] = 0

\* What was read does not change, and what is there is read.
Agree(rb, rc, b) ==
  /\ rb.ok => rc = rb
  /\ rc.ok /\ rc.off <= Len(b) => rb.ok

LEMMA MoreOffsets ==
  ASSUME NEW b, NEW c, Padded(b, c), NEW o, o \in Offsets(b)
  PROVE  /\ Len(b) \in Nat /\ Len(c) \in Nat /\ Len(b) <= Len(c) /\ o \in Nat /\ o <= Len(b)
         /\ At(b, o) /\ At(c, o)
<1>1. b \in Seq(Octet) /\ c \in Seq(Octet) /\ Len(b) <= Len(c) BY DEF Padded
<1>2. Len(b) \in Nat /\ Len(c) \in Nat BY <1>1
<1>3. o \in 0 .. Len(b) BY DEF Offsets
<1>4. o \in 0 .. Len(c) BY <1>1, <1>2, <1>3
<1> QED BY <1>1, <1>2, <1>3, <1>4 DEF At, Offsets

LEMMA SameBytes ==
  ASSUME NEW b, NEW c, Padded(b, c), NEW o, NEW n, Span(b, o, n)
  PROVE  Bytes(c, o, n) = Bytes(b, o, n)
<1>1. b \in Seq(Octet) /\ c \in Seq(Octet) /\ Len(b) <= Len(c) BY DEF Padded
<1>2. \A i \in 1 .. Len(b) : c[i] = b[i] BY DEF Padded
<1>3. o \in Nat /\ n \in Nat /\ o + n <= Len(b) BY DEF Span
<1>4. \A i \in 1 .. n : /\ o + i \in 1 .. Len(b) /\ o + i \in 1 .. Len(c)
                        /\ DOMAIN b = 1 .. Len(b) /\ DOMAIN c = 1 .. Len(c)
  BY <1>1, <1>3
<1>5. \A i \in 1 .. n : (IF o + i \in DOMAIN c THEN c[o + i] ELSE 0)
                          = (IF o + i \in DOMAIN b THEN b[o + i] ELSE 0)
  BY <1>2, <1>4
<1> QED BY <1>5 DEF Bytes

LEMMA NumbersAgree ==
  ASSUME NEW b, NEW c, Padded(b, c), NEW o, o \in Offsets(b)
  PROVE  Agree(ReadNumber(b, o), ReadNumber(c, o), b)
<1> DEFINE rb == ReadNumber(b, o)
           rc == ReadNumber(c, o)
<1>0. /\ Len(b) \in Nat /\ Len(c) \in Nat /\ Len(b) <= Len(c) /\ o \in Nat /\ Word \in Nat
      /\ b \in Seq(Octet) /\ o \in 0 .. Len(b) /\ c \in Seq(Octet) /\ o \in 0 .. Len(c)
  BY MoreOffsets, CodecAssumption DEF At, Offsets
<1>1. /\ rb.ok <=> o + Word <= Len(b)
      /\ rc.ok => rc.off = o + Word
  BY <1>0, NumberIs
<1>2. ASSUME rb.ok PROVE rc = rb
  <2>1. o + Word <= Len(b) /\ o + Word <= Len(c) BY <1>0, <1>1, <1>2
  <2>2. Span(b, o, Word) BY <1>0, <2>1 DEF Span
  <2>3. Bytes(c, o, Word) = Bytes(b, o, Word) BY <2>2, SameBytes
  <2>4. ~(o + Word > Len(b)) /\ ~(o + Word > Len(c)) BY <1>0, <2>1
  <2> QED BY <2>3, <2>4 DEF ReadNumber
<1> HIDE DEF rb, rc
<1>3. rc.ok /\ rc.off <= Len(b) => rb.ok BY <1>1
<1> QED BY <1>2, <1>3 DEF Agree, rb, rc

LEMMA StringsAgree ==
  ASSUME NEW b, NEW c, Padded(b, c), NEW o, o \in Offsets(b)
  PROVE  Agree(ReadString(b, o), ReadString(c, o), b)
<1> DEFINE rb == ReadString(b, o)
           rc == ReadString(c, o)
           lb == ReadNumber(b, o)
           lc == ReadNumber(c, o)
<1>0. /\ Len(b) \in Nat /\ Len(c) \in Nat /\ Len(b) <= Len(c) /\ o \in Nat /\ Word \in Nat
      /\ b \in Seq(Octet) /\ o \in 0 .. Len(b) /\ c \in Seq(Octet) /\ o \in 0 .. Len(c)
  BY MoreOffsets, CodecAssumption DEF At, Offsets
<1>1. Agree(lb, lc, b) BY NumbersAgree
<1>2. lb.ok => lb.off = o + Word /\ lb.val \in Nat BY <1>0, NumberIs
<1>3. lc.ok => lc.off = o + Word /\ lc.val \in Nat BY <1>0, NumberIs
<1>4. /\ rb.ok <=> lb.ok /\ lb.off + lb.val <= Len(b)
      /\ rb.ok => rb.off = lb.off + lb.val
  BY <1>0, StringIs
<1>5. /\ rc.ok <=> lc.ok /\ lc.off + lc.val <= Len(c)
      /\ rc.ok => rc.off = lc.off + lc.val
  BY <1>0, StringIs
<1>6. ASSUME rb.ok PROVE rc = rb
  <2>1. lb.ok /\ lc = lb /\ lb.off + lb.val <= Len(b) /\ lb.off = o + Word /\ lb.val \in Nat
    BY <1>1, <1>2, <1>4, <1>6 DEF Agree
  <2> DEFINE p == lb.off
             n == lb.val
  <2>2. lb.ok /\ lc.ok /\ lc.off = p /\ lc.val = n BY <2>1
  <2>3. p \in Nat /\ n \in Nat /\ p + n <= Len(b) BY <1>0, <2>1
  <2>4. rb = IF ~lb.ok \/ p + n > Len(b) THEN Failed(p) ELSE Read(p + n, Bytes(b, p, n))
    BY DEF ReadString
  <2>5. rc = IF ~lc.ok \/ lc.off + lc.val > Len(c) THEN Failed(lc.off)
             ELSE Read(lc.off + lc.val, Bytes(c, lc.off, lc.val))
    BY DEF ReadString
  <2> HIDE DEF rb, rc, lb, lc, p, n
  <2>6. Bytes(c, p, n) = Bytes(b, p, n)
    <3>1. Span(b, p, n) BY <1>0, <2>3 DEF Span
    <3> QED BY <3>1, SameBytes
  <2>7. ~(p + n > Len(b)) /\ ~(p + n > Len(c)) BY <1>0, <2>3
  <2>8. rb = Read(p + n, Bytes(b, p, n)) BY <2>2, <2>4, <2>7
  <2>9. rc = Read(p + n, Bytes(c, p, n)) BY <2>2, <2>5, <2>7
  <2> QED BY <2>6, <2>8, <2>9
<1> HIDE DEF rb, rc, lb, lc
<1>7. ASSUME rc.ok, rc.off <= Len(b) PROVE rb.ok
  <2>1. lc.ok /\ lc.off = o + Word /\ lc.val \in Nat /\ rc.off = lc.off + lc.val
    BY <1>3, <1>5, <1>7
  <2>2. lc.off <= Len(b) BY <1>0, <1>7, <2>1
  <2>3. lb.ok BY <1>1, <2>1, <2>2 DEF Agree
  <2>4. lc = lb BY <1>1, <2>3 DEF Agree
  <2> QED BY <1>4, <1>7, <2>1, <2>3, <2>4
<1> QED BY <1>6, <1>7 DEF Agree, rb, rc

LEMMA FieldsAgree ==
  ASSUME NEW b, NEW c, Padded(b, c), NEW o, o \in Offsets(b), NEW f
  PROVE  Agree(ReadField(f, b, o), ReadField(f, c, o), b)
BY NumbersAgree, StringsAgree DEF ReadField

\* Items that agree one by one.
ItemsAgree(ib, ic, n, b, c) ==
  /\ Items(ib, n, b) /\ Items(ic, n, c)
  /\ \A i \in 1 .. n : \A p \in Offsets(b) : Agree(ib[i][p], ic[i][p], b)

LEMMA ListsAgree ==
  ASSUME NEW b, NEW c, Padded(b, c), NEW o, o \in Offsets(b),
         NEW n, NEW ib, NEW ic, ItemsAgree(ib, ic, n, b, c)
  PROVE  Agree(InOrder(ib, n, o), InOrder(ic, n, o), b)
<1>0. Len(b) \in Nat /\ Len(c) \in Nat /\ Len(b) <= Len(c) /\ o \in Offsets(c)
  BY MoreOffsets DEF At
<1>1. Items(ib, n, b) /\ Items(ic, n, c) BY DEF ItemsAgree
<1>2. n \in Nat BY <1>1 DEF Items
<1>3. PICK gb : InTurn(ib, n, o, gb) /\ InOrder(ib, n, o) = gb[n] BY <1>2, InOrderIs
<1>4. PICK gc : InTurn(ic, n, o, gc) /\ InOrder(ic, n, o) = gc[n] BY <1>2, InOrderIs
<1>5. \A k \in 0 .. n : IsRead(gb[k], b, o)
  <2>1. \A k \in 0 .. n : Turned(ib, n, b, o, gb, k) BY <1>1, <1>3, AllTurned
  <2> QED BY <2>1 DEF Turned
<1>6. \A k \in 0 .. n : IsRead(gc[k], c, o)
  <2>1. \A k \in 0 .. n : Turned(ic, n, c, o, gc, k) BY <1>0, <1>1, <1>4, AllTurned
  <2> QED BY <2>1 DEF Turned
<1> DEFINE K == {k \in Nat : k <= n => Agree(gb[k], gc[k], b)}
<1>7. 0 \in K
  <2>1. gb[0] = Read(o, <<>>) /\ gc[0] = Read(o, <<>>) BY <1>3, <1>4 DEF InTurn
  <2>2. gb[0].ok = TRUE BY <2>1 DEF Read
  <2>3. Agree(gb[0], gc[0], b) BY <2>1, <2>2 DEF Agree
  <2> QED BY <2>3
<1>8. ASSUME NEW k \in Nat, k \in K PROVE k + 1 \in K
  <2> SUFFICES ASSUME k + 1 <= n PROVE Agree(gb[k + 1], gc[k + 1], b)
    OBVIOUS
  <2>1. k + 1 \in 1 .. n /\ k \in 0 .. n /\ (k + 1) - 1 = k /\ k <= n BY <1>2
  <2> DEFINE rb == gb[k]
             rc == gc[k]
             tb == gb[k + 1]
             tc == gc[k + 1]
             sb == ib[k + 1][rb.off]
             sc == ic[k + 1][rc.off]
  <2>2. Agree(rb, rc, b) BY <1>8, <2>1
  <2>3. tb = IF ~rb.ok THEN rb
             ELSE [ok |-> sb.ok, off |-> sb.off, val |-> IF sb.ok THEN Append(rb.val, sb.val) ELSE rb.val]
    BY <1>3, <2>1 DEF InTurn, After
  <2>4. tc = IF ~rc.ok THEN rc
             ELSE [ok |-> sc.ok, off |-> sc.off, val |-> IF sc.ok THEN Append(rc.val, sc.val) ELSE rc.val]
    BY <1>4, <2>1 DEF InTurn, After
  <2>5. rb.off \in Offsets(b)
    <3>1. rb.off \in o .. Len(b) BY <1>5, <2>1 DEF IsRead
    <3>2. o \in 0 .. Len(b) BY DEF Offsets
    <3> HIDE DEF rb
    <3> QED BY <1>0, <3>1, <3>2 DEF Offsets
  <2>6. rc.off \in Offsets(c)
    <3>1. rc.off \in o .. Len(c) BY <1>6, <2>1 DEF IsRead
    <3>2. o \in 0 .. Len(c) BY <1>0 DEF Offsets
    <3> HIDE DEF rc
    <3> QED BY <1>0, <3>1, <3>2 DEF Offsets
  <2>7. IsRead(sc, c, rc.off) BY <1>1, <2>1, <2>6 DEF Items
  <2>8. \A p \in Offsets(b) : Agree(ib[k + 1][p], ic[k + 1][p], b) BY <2>1 DEF ItemsAgree
  <2>9. rc.off = rb.off => Agree(sb, sc, b) BY <2>5, <2>8
  <2> HIDE DEF rb, rc, tb, tc, sb, sc
  <2>10. ASSUME tb.ok PROVE tc = tb
    <3>1. rb.ok BY <2>3, <2>10
    <3>2. rc = rb BY <2>2, <3>1 DEF Agree
    <3>3. sb.ok BY <2>3, <2>10, <3>1
    <3>4. sc = sb BY <2>9, <3>2, <3>3 DEF Agree
    <3> QED BY <2>3, <2>4, <3>2, <3>4
  <2>11. ASSUME tc.ok, tc.off <= Len(b) PROVE tb.ok
    <3>1. rc.ok /\ sc.ok /\ tc.off = sc.off
      <4>1. rc.ok BY <2>4, <2>11
      <4> QED BY <2>4, <2>11, <4>1
    <3>2. rc.off <= sc.off
      <4>1. sc.off \in rc.off .. Len(c) BY <2>7 DEF IsRead
      <4>2. rc.off \in 0 .. Len(c) BY <2>6 DEF Offsets
      <4> QED BY <4>1, <4>2
    <3>3. rc.off <= Len(b)
      <4>1. sc.off \in rc.off .. Len(c) BY <2>7 DEF IsRead
      <4>2. rc.off \in 0 .. Len(c) BY <2>6 DEF Offsets
      <4>3. sc.off <= Len(b) BY <2>11, <3>1
      <4> DEFINE x == rc.off
                 y == sc.off
      <4> HIDE DEF x, y
      <4>4. x \in Nat /\ y \in Nat /\ x <= y /\ y <= Len(b) BY <1>0, <4>1, <4>2, <4>3 DEF x, y
      <4>5. x <= Len(b) BY <1>0, <4>4
      <4> QED BY <4>5 DEF x
    <3>4. rb.ok BY <2>2, <3>1, <3>3 DEF Agree
    <3>5. rc = rb BY <2>2, <3>4 DEF Agree
    <3>6. sb.ok BY <2>9, <2>11, <3>1, <3>5 DEF Agree
    <3> QED BY <2>3, <3>4, <3>6
  <2> QED BY <2>10, <2>11 DEF Agree, tb, tc
<1> HIDE DEF K
<1>9. \A k \in Nat : k \in K BY <1>7, <1>8, SetInduction
<1>10. Agree(gb[n], gc[n], b)
  <2>1. n \in K /\ n <= n BY <1>2, <1>9
  <2> QED BY <2>1 DEF K
<1> QED BY <1>3, <1>4, <1>10

\* The items of a message, of an array of strings, of an array of messages.
FieldItems(T, b)      == [i \in DOMAIN T |-> [p \in Offsets(b) |-> ReadField(T[i], b, p)]]
StringItems(n, b)     == [i \in 1 .. n |-> [p \in Offsets(b) |-> ReadString(b, p)]]
MessageItems(T, n, b) == [i \in 1 .. n |-> [p \in Offsets(b) |-> ReadMessage(T, b, p)]]

LEMMA FieldItemsAre ==
  ASSUME NEW b, b \in Seq(Octet), NEW T, IsType(T)
  PROVE  /\ Items(FieldItems(T, b), Len(T), b)
         /\ \A i \in 1 .. Len(T) : \A p \in Offsets(b) : FieldItems(T, b)[i][p] = ReadField(T[i], b, p)
<1> DEFINE item == FieldItems(T, b)
<1>0. Len(T) \in Nat /\ DOMAIN T = 1 .. Len(T) BY DEF IsType
<1>1. \A i \in 1 .. Len(T) : \A p \in Offsets(b) : item[i][p] = ReadField(T[i], b, p)
  BY <1>0 DEF FieldItems
<1> HIDE DEF item
<1>2. Items(item, Len(T), b) BY <1>0, <1>1, FieldIs DEF Items, Offsets
<1> QED BY <1>1, <1>2 DEF item

LEMMA StringItemsAre ==
  ASSUME NEW b, b \in Seq(Octet), NEW n, n \in Nat
  PROVE  /\ Items(StringItems(n, b), n, b)
         /\ \A i \in 1 .. n : \A p \in Offsets(b) : StringItems(n, b)[i][p] = ReadString(b, p)
<1> DEFINE item == StringItems(n, b)
<1>1. \A i \in 1 .. n : \A p \in Offsets(b) : item[i][p] = ReadString(b, p)
  BY DEF StringItems
<1> HIDE DEF item
<1>2. Items(item, n, b) BY <1>1, StringIs DEF Items, Offsets
<1> QED BY <1>1, <1>2 DEF item

LEMMA MessageItemsAre ==
  ASSUME NEW b, b \in Seq(Octet), NEW T, IsType(T), NEW n, n \in Nat
  PROVE  /\ Items(MessageItems(T, n, b), n, b)
         /\ \A i \in 1 .. n : \A p \in Offsets(b) : MessageItems(T, n, b)[i][p] = ReadMessage(T, b, p)
<1> DEFINE item == MessageItems(T, n, b)
<1>1. \A i \in 1 .. n : \A p \in Offsets(b) : item[i][p] = ReadMessage(T, b, p)
  BY DEF MessageItems
<1>2. \A p \in Offsets(b) : IsRead(ReadMessage(T, b, p), b, p)
  <2> TAKE p \in Offsets(b)
  <2>1. At(b, p) BY DEF At
  <2> QED BY <2>1, MessageIs DEF Sound
<1> HIDE DEF item
<1>3. Items(item, n, b) BY <1>1, <1>2 DEF Items
<1> QED BY <1>1, <1>3 DEF item

LEMMA MessagesAgree ==
  ASSUME NEW b, NEW c, Padded(b, c), NEW o, o \in Offsets(b), NEW T, IsType(T)
  PROVE  Agree(ReadMessage(T, b, o), ReadMessage(T, c, o), b)
<1> DEFINE ib == FieldItems(T, b)
           ic == FieldItems(T, c)
<1>1. b \in Seq(Octet) /\ c \in Seq(Octet) BY DEF Padded
<1>2. Items(ib, Len(T), b)
      /\ \A i \in 1 .. Len(T) : \A p \in Offsets(b) : ib[i][p] = ReadField(T[i], b, p)
  BY <1>1, FieldItemsAre
<1>3. Items(ic, Len(T), c)
      /\ \A i \in 1 .. Len(T) : \A p \in Offsets(c) : ic[i][p] = ReadField(T[i], c, p)
  BY <1>1, FieldItemsAre
<1>4. ReadMessage(T, b, o) = InOrder(ib, Len(T), o) /\ ReadMessage(T, c, o) = InOrder(ic, Len(T), o)
  BY DEF ReadMessage, FieldItems
<1> HIDE DEF ib, ic
<1>5. \A i \in 1 .. Len(T) : \A p \in Offsets(b) : Agree(ib[i][p], ic[i][p], b)
  <2> TAKE i \in 1 .. Len(T)
  <2> TAKE p \in Offsets(b)
  <2>1. p \in Offsets(c) BY MoreOffsets DEF At
  <2>2. ib[i][p] = ReadField(T[i], b, p) /\ ic[i][p] = ReadField(T[i], c, p) BY <1>2, <1>3, <2>1
  <2> QED BY <2>2, FieldsAgree
<1>6. ItemsAgree(ib, ic, Len(T), b, c) BY <1>2, <1>3, <1>5 DEF ItemsAgree
<1> QED BY <1>4, <1>6, ListsAgree

LEMMA StringArraysAgree ==
  ASSUME NEW b, NEW c, Padded(b, c), NEW o, o \in Offsets(b), NEW n, n \in Nat
  PROVE  Agree(ReadStringArray(n, b, o), ReadStringArray(n, c, o), b)
<1> DEFINE ib == StringItems(n, b)
           ic == StringItems(n, c)
<1>1. b \in Seq(Octet) /\ c \in Seq(Octet) BY DEF Padded
<1>2. Items(ib, n, b) /\ \A i \in 1 .. n : \A p \in Offsets(b) : ib[i][p] = ReadString(b, p)
  BY <1>1, StringItemsAre
<1>3. Items(ic, n, c) /\ \A i \in 1 .. n : \A p \in Offsets(c) : ic[i][p] = ReadString(c, p)
  BY <1>1, StringItemsAre
<1>4. ReadStringArray(n, b, o) = InOrder(ib, n, o) /\ ReadStringArray(n, c, o) = InOrder(ic, n, o)
  BY DEF ReadStringArray, StringItems
<1> HIDE DEF ib, ic
<1>5. \A i \in 1 .. n : \A p \in Offsets(b) : Agree(ib[i][p], ic[i][p], b)
  <2> TAKE i \in 1 .. n
  <2> TAKE p \in Offsets(b)
  <2>1. p \in Offsets(c) BY MoreOffsets DEF At
  <2>2. ib[i][p] = ReadString(b, p) /\ ic[i][p] = ReadString(c, p) BY <1>2, <1>3, <2>1
  <2> QED BY <2>2, StringsAgree
<1>6. ItemsAgree(ib, ic, n, b, c) BY <1>2, <1>3, <1>5 DEF ItemsAgree
<1> QED BY <1>4, <1>6, ListsAgree

LEMMA MessageArraysAgree ==
  ASSUME NEW b, NEW c, Padded(b, c), NEW o, o \in Offsets(b), NEW T, IsType(T), NEW n, n \in Nat
  PROVE  Agree(ReadMessageArray(T, n, b, o), ReadMessageArray(T, n, c, o), b)
<1> DEFINE ib == MessageItems(T, n, b)
           ic == MessageItems(T, n, c)
<1>1. b \in Seq(Octet) /\ c \in Seq(Octet) BY DEF Padded
<1>2. Items(ib, n, b) /\ \A i \in 1 .. n : \A p \in Offsets(b) : ib[i][p] = ReadMessage(T, b, p)
  BY <1>1, MessageItemsAre
<1>3. Items(ic, n, c) /\ \A i \in 1 .. n : \A p \in Offsets(c) : ic[i][p] = ReadMessage(T, c, p)
  BY <1>1, MessageItemsAre
<1>4. /\ ReadMessageArray(T, n, b, o) = InOrder(ib, n, o)
      /\ ReadMessageArray(T, n, c, o) = InOrder(ic, n, o)
  BY DEF ReadMessageArray, MessageItems
<1> HIDE DEF ib, ic
<1>5. \A i \in 1 .. n : \A p \in Offsets(b) : Agree(ib[i][p], ic[i][p], b)
  <2> TAKE i \in 1 .. n
  <2> TAKE p \in Offsets(b)
  <2>1. p \in Offsets(c) BY MoreOffsets DEF At
  <2>2. ib[i][p] = ReadMessage(T, b, p) /\ ic[i][p] = ReadMessage(T, c, p) BY <1>2, <1>3, <2>1
  <2> QED BY <2>2, MessagesAgree
<1>6. ItemsAgree(ib, ic, n, b, c) BY <1>2, <1>3, <1>5 DEF ItemsAgree
<1> QED BY <1>4, <1>6, ListsAgree

LEMMA NumberArraysAgree ==
  ASSUME NEW b, NEW c, Padded(b, c), NEW o, o \in Offsets(b), NEW n, n \in Nat
  PROVE  Agree(ReadNumberArray(n, b, o), ReadNumberArray(n, c, o), b)
<1> DEFINE rb == ReadNumberArray(n, b, o)
           rc == ReadNumberArray(n, c, o)
           end == o + n * Word
<1>0. /\ Len(b) \in Nat /\ Len(c) \in Nat /\ Len(b) <= Len(c) /\ o \in Nat /\ o <= Len(b)
      /\ b \in Seq(Octet) /\ Word \in Nat
  BY MoreOffsets, CodecAssumption DEF At
<1>1. n * Word \in Nat BY WordsFit
<1>2. end \in Nat BY <1>0, <1>1
<1>3. CASE end <= Len(b)
  <2>1. ~(end > Len(b)) /\ ~(end > Len(c)) BY <1>0, <1>2, <1>3
  <2>2. \A i \in 1 .. n : Bytes(c, o + (i - 1) * Word, Word) = Bytes(b, o + (i - 1) * Word, Word)
    <3> TAKE i \in 1 .. n
    <3> DEFINE k == i - 1
               w == k * Word
    <3>1. k \in Nat /\ k + 1 \in Nat /\ k <= n /\ k + 1 <= n OBVIOUS
    <3> HIDE DEF k
    <3>2. w \in Nat /\ (k + 1) * Word = w + Word /\ (k + 1) * Word <= n * Word BY <3>1, WordsFit
    <3> HIDE DEF w
    <3>3. Span(b, o + w, Word) BY <1>0, <1>1, <1>3, <3>2 DEF Span
    <3>4. Bytes(c, o + w, Word) = Bytes(b, o + w, Word) BY <3>3, SameBytes
    <3> QED BY <3>4 DEF w, k
  <2>3. rb = Read(end, [i \in 1 .. n |-> Value(Bytes(b, o + (i - 1) * Word, Word))])
    BY <2>1 DEF ReadNumberArray
  <2>4. rc = Read(end, [i \in 1 .. n |-> Value(Bytes(c, o + (i - 1) * Word, Word))])
    BY <2>1 DEF ReadNumberArray
  <2> HIDE DEF rb, rc, end
  <2>5. rc = rb BY <2>2, <2>3, <2>4
  <2>6. rb.ok = TRUE BY <2>3 DEF Read
  <2> QED BY <2>5, <2>6 DEF Agree, rb, rc
<1>4. CASE ~(end <= Len(b))
  <2>1. rb = Failed(o)
    <3>1. end > Len(b) BY <1>0, <1>2, <1>4
    <3> QED BY <3>1 DEF ReadNumberArray
  <2>2. ~rb.ok BY <2>1 DEF Failed
  <2>3. rc.ok => rc.off = end
    <3>1. CASE end > Len(c)
      <4>1. rc = Failed(o) BY <3>1 DEF ReadNumberArray
      <4> QED BY <4>1 DEF Failed
    <3>2. CASE ~(end > Len(c))
      <4> DEFINE v == [i \in 1 .. n |-> Value(Bytes(c, o + (i - 1) * Word, Word))]
      <4>1. rc = Read(end, v) BY <3>2 DEF ReadNumberArray
      <4> HIDE DEF rc, v, end
      <4> QED BY <4>1 DEF Read
    <3> QED BY <3>1, <3>2
  <2> HIDE DEF rb, rc, end
  <2> QED BY <1>4, <2>2, <2>3 DEF Agree, rb, rc
<1> QED BY <1>3, <1>4

\* A vector agrees when its array does, wherever it starts.
LEMMA VectorsAgree ==
  ASSUME NEW b, NEW c, Padded(b, c), NEW o, o \in Offsets(b), NEW rb, NEW rc, NEW ab, NEW ac,
         rb = (IF ReadNumber(b, o).ok THEN ab ELSE ReadNumber(b, o)),
         rc = (IF ReadNumber(c, o).ok THEN ac ELSE ReadNumber(c, o)),
         ReadNumber(b, o).ok /\ ReadNumber(c, o) = ReadNumber(b, o) => Agree(ab, ac, b),
         ReadNumber(c, o).ok => IsRead(ac, c, ReadNumber(c, o).off)
  PROVE  Agree(rb, rc, b)
<1> DEFINE nb == ReadNumber(b, o)
           nc == ReadNumber(c, o)
<1>0. /\ Len(b) \in Nat /\ Len(c) \in Nat /\ o \in Nat /\ Word \in Nat
      /\ c \in Seq(Octet) /\ o \in 0 .. Len(c)
  BY MoreOffsets, CodecAssumption DEF At, Offsets
<1>1. Agree(nb, nc, b) BY NumbersAgree
<1>2. nc.ok => nc.off = o + Word BY <1>0, NumberIs
<1>3. /\ rb = (IF nb.ok THEN ab ELSE nb) /\ rc = (IF nc.ok THEN ac ELSE nc)
      /\ nb.ok /\ nc = nb => Agree(ab, ac, b)
      /\ nc.ok => IsRead(ac, c, nc.off)
  OBVIOUS
<1> HIDE DEF nb, nc
<1>4. ASSUME rb.ok PROVE rc = rb
  <2>1. nb.ok BY <1>3, <1>4
  <2>2. nc = nb BY <1>1, <2>1 DEF Agree
  <2>3. rb = ab /\ rc = ac /\ Agree(ab, ac, b) BY <1>3, <2>1, <2>2
  <2> QED BY <1>4, <2>3 DEF Agree
<1>5. ASSUME rc.ok, rc.off <= Len(b) PROVE rb.ok
  <2>1. nc.ok /\ rc = ac BY <1>3, <1>5
  <2>2. nc.off <= Len(b)
    <3> DEFINE x == nc.off
               y == ac.off
    <3>1. y \in x .. Len(c) BY <1>3, <2>1 DEF IsRead
    <3>2. x \in Nat /\ y <= Len(b) BY <1>0, <1>2, <1>5, <2>1
    <3> HIDE DEF x, y
    <3>3. x <= Len(b) BY <1>0, <3>1, <3>2
    <3> QED BY <3>3 DEF x
  <2>3. nb.ok BY <1>1, <2>1, <2>2 DEF Agree
  <2>4. nc = nb BY <1>1, <2>3 DEF Agree
  <2>5. rb = ab /\ Agree(ab, ac, b) BY <1>3, <2>3, <2>4
  <2> QED BY <1>5, <2>1, <2>5 DEF Agree
<1> QED BY <1>4, <1>5 DEF Agree

\* A count that was read leaves the reader in the buffer.
LEMMA CountIs ==
  ASSUME NEW b, NEW o, At(b, o), ReadNumber(b, o).ok
  PROVE  /\ At(b, ReadNumber(b, o).off) /\ ReadNumber(b, o).off = o + Word
         /\ ReadNumber(b, o).val \in Nat /\ ReadNumber(b, o).val <= MaxNumber
<1> DEFINE c == ReadNumber(b, o)
           q == c.off
<1>1. b \in Seq(Octet) /\ o \in 0 .. Len(b) /\ Len(b) \in Nat BY DEF At, Offsets
<1>2. IsRead(c, b, o) /\ c.off = o + Word /\ c.val \in Nat /\ c.val <= MaxNumber BY <1>1, NumberIs
<1> HIDE DEF c
<1>3. q \in o .. Len(b) BY <1>2 DEF IsRead
<1> HIDE DEF q
<1>4. q \in 0 .. Len(b) BY <1>1, <1>3
<1> QED BY <1>1, <1>2, <1>4 DEF At, Offsets, q, c

LEMMA NumberVectorsAgree ==
  ASSUME NEW b, NEW c, Padded(b, c), NEW o, o \in Offsets(b)
  PROVE  Agree(ReadNumberVector(b, o), ReadNumberVector(c, o), b)
<1> DEFINE nb == ReadNumber(b, o)
           nc == ReadNumber(c, o)
           rb == ReadNumberVector(b, o)
           rc == ReadNumberVector(c, o)
           ab == ReadNumberArray(nb.val, b, nb.off)
           ac == ReadNumberArray(nc.val, c, nc.off)
<1>1. rb = (IF nb.ok THEN ab ELSE nb) /\ rc = (IF nc.ok THEN ac ELSE nc)
  BY DEF ReadNumberVector
<1>2. At(b, o) /\ At(c, o) BY MoreOffsets
<1>3. nb.ok /\ nc = nb => Agree(ab, ac, b)
  <2> SUFFICES ASSUME nb.ok, nc = nb PROVE Agree(ab, ac, b)
    OBVIOUS
  <2>1. nb.off \in Offsets(b) /\ nb.val \in Nat BY <1>2, CountIs DEF At
  <2>2. ac = ReadNumberArray(nb.val, c, nb.off) OBVIOUS
  <2> HIDE DEF nb, nc
  <2> QED BY <2>1, <2>2, NumberArraysAgree
<1>4. nc.ok => IsRead(ac, c, nc.off) BY <1>2, CountIs, NumberArrayIs DEF Sound
<1> HIDE DEF rb, rc, ab, ac
<1>5. Agree(rb, rc, b) BY <1>1, <1>3, <1>4, VectorsAgree
<1> QED BY <1>5 DEF rb, rc

LEMMA StringVectorsAgree ==
  ASSUME NEW b, NEW c, Padded(b, c), NEW o, o \in Offsets(b)
  PROVE  Agree(ReadStringVector(b, o), ReadStringVector(c, o), b)
<1> DEFINE nb == ReadNumber(b, o)
           nc == ReadNumber(c, o)
           rb == ReadStringVector(b, o)
           rc == ReadStringVector(c, o)
           ab == ReadStringArray(nb.val, b, nb.off)
           ac == ReadStringArray(nc.val, c, nc.off)
<1>1. rb = (IF nb.ok THEN ab ELSE nb) /\ rc = (IF nc.ok THEN ac ELSE nc)
  BY DEF ReadStringVector
<1>2. At(b, o) /\ At(c, o) BY MoreOffsets
<1>3. nb.ok /\ nc = nb => Agree(ab, ac, b)
  <2> SUFFICES ASSUME nb.ok, nc = nb PROVE Agree(ab, ac, b)
    OBVIOUS
  <2>1. nb.off \in Offsets(b) /\ nb.val \in Nat BY <1>2, CountIs DEF At
  <2>2. ac = ReadStringArray(nb.val, c, nb.off) OBVIOUS
  <2> HIDE DEF nb, nc
  <2> QED BY <2>1, <2>2, StringArraysAgree
<1>4. nc.ok => IsRead(ac, c, nc.off) BY <1>2, CountIs, StringArrayIs DEF Sound
<1> HIDE DEF rb, rc, ab, ac
<1>5. Agree(rb, rc, b) BY <1>1, <1>3, <1>4, VectorsAgree
<1> QED BY <1>5 DEF rb, rc

LEMMA MessageVectorsAgree ==
  ASSUME NEW b, NEW c, Padded(b, c), NEW o, o \in Offsets(b), NEW T, IsType(T)
  PROVE  Agree(ReadMessageVector(T, b, o), ReadMessageVector(T, c, o), b)
<1> DEFINE nb == ReadNumber(b, o)
           nc == ReadNumber(c, o)
           rb == ReadMessageVector(T, b, o)
           rc == ReadMessageVector(T, c, o)
           ab == ReadMessageArray(T, nb.val, b, nb.off)
           ac == ReadMessageArray(T, nc.val, c, nc.off)
<1>1. rb = (IF nb.ok THEN ab ELSE nb) /\ rc = (IF nc.ok THEN ac ELSE nc)
  BY DEF ReadMessageVector
<1>2. At(b, o) /\ At(c, o) BY MoreOffsets
<1>3. nb.ok /\ nc = nb => Agree(ab, ac, b)
  <2> SUFFICES ASSUME nb.ok, nc = nb PROVE Agree(ab, ac, b)
    OBVIOUS
  <2>1. nb.off \in Offsets(b) /\ nb.val \in Nat BY <1>2, CountIs DEF At
  <2>2. ac = ReadMessageArray(T, nb.val, c, nb.off) OBVIOUS
  <2> HIDE DEF nb, nc
  <2> QED BY <2>1, <2>2, MessageArraysAgree
<1>4. nc.ok => IsRead(ac, c, nc.off) BY <1>2, CountIs, MessageArrayIs DEF Sound
<1> HIDE DEF rb, rc, ab, ac
<1>5. Agree(rb, rc, b) BY <1>1, <1>3, <1>4, VectorsAgree
<1> QED BY <1>5 DEF rb, rc

LEMMA KindsAgree ==
  ASSUME NEW b, NEW c, Padded(b, c), NEW o, o \in Offsets(b), NEW k, k \in Kinds
  PROVE  Agree(Reads(k, b, o), Reads(k, c, o), b)
<1>0. ArrayLen \in Nat BY CodecAssumption
<1>1. CASE k.elem = Number /\ k.form = "array" BY <1>0, <1>1, NumberArrayKind, NumberArraysAgree
<1>2. CASE k.elem = Number /\ k.form = "vector" BY <1>2, NumberVectorKind, NumberVectorsAgree
<1>3. CASE k.elem = String /\ k.form = "array" BY <1>0, <1>3, StringArrayKind, StringArraysAgree
<1>4. CASE k.elem = String /\ k.form = "vector" BY <1>4, StringVectorKind, StringVectorsAgree
<1>5. IsType(k.elem) BY KindCases, ElemTypes
<1>6. CASE k.form = "one" BY <1>5, <1>6, OneKind, MessagesAgree
<1>7. CASE k.elem \in Messages /\ k.form = "array"
  BY <1>0, <1>5, <1>7, MessageArrayKind, MessageArraysAgree
<1>8. CASE k.elem \in Messages /\ k.form = "vector"
  BY <1>5, <1>8, MessageVectorKind, MessageVectorsAgree
<1> QED BY <1>1, <1>2, <1>3, <1>4, <1>6, <1>7, <1>8, KindCases

-----------------------------------------------------------------------------
(* Serialization: room for every value.                                    *)

LEMMA ZeroValue ==
  ASSUME NEW s, NEW n, n \in Nat, Len(s) = n, \A i \in 1 .. n : s[i] = 0
  PROVE  Value(s) = 0
<1>1. PICK g : Horner(s, n, g) /\ Value(s) = g[n] BY ValueIs
<1>2. g[0] = 0 /\ \A i \in 1 .. n : g[i] = s[n + 1 - i] + Base * g[i - 1] BY <1>1 DEF Horner
<1>3. Base \in Nat BY CodecAssumption
<1> DEFINE K == {k \in Nat : k <= n => g[k] = 0}
<1>4. 0 \in K BY <1>2
<1>5. ASSUME NEW k \in Nat, k \in K PROVE k + 1 \in K
  <2> SUFFICES ASSUME k + 1 <= n PROVE g[k + 1] = 0
    OBVIOUS
  <2> DEFINE i == k + 1
             j == n + 1 - i
  <2>1. i \in 1 .. n /\ j \in 1 .. n /\ i - 1 = k /\ k <= n OBVIOUS
  <2>2. g[k] = 0 BY <1>5, <2>1
  <2> HIDE DEF i, j
  <2>3. s[j] = 0 BY <2>1
  <2>4. g[i] = s[j] + Base * g[i - 1] BY <1>2, <2>1 DEF j
  <2>5. g[i] = 0 + Base * 0 BY <2>1, <2>2, <2>3, <2>4
  <2>6. g[i] = 0 BY <1>3, <2>5
  <2> QED BY <2>6 DEF i
<1> HIDE DEF K
<1>6. \A k \in Nat : k \in K BY <1>4, <1>5, SetInduction
<1> QED BY <1>1, <1>6 DEF K

\* Beyond the buffer there are only zeros.
LEMMA NumberBeyond ==
  ASSUME NEW b, NEW c, Padded(b, c), NEW p, p \in Nat, Len(b) <= p, p + Word <= Len(c)
  PROVE  Value(Bytes(c, p, Word)) = 0
<1> DEFINE s == Bytes(c, p, Word)
<1>1. b \in Seq(Octet) /\ c \in Seq(Octet) BY DEF Padded
<1>2. \A i \in 1 .. Len(c) : i > Len(b) => c[i] = 0 BY DEF Padded
<1>3. Len(b) \in Nat /\ Len(c) \in Nat /\ Word \in Nat /\ DOMAIN c = 1 .. Len(c)
  BY <1>1, CodecAssumption
<1>4. s = [i \in 1 .. Word |-> IF p + i \in DOMAIN c THEN c[p + i] ELSE 0] BY DEF Bytes
<1>5. Len(s) = Word
  <2>1. Span(c, p, Word) BY <1>1, <1>3 DEF Span
  <2> QED BY <2>1, BytesAre
<1> HIDE DEF s
<1>6. \A i \in 1 .. Word : s[i] = 0
  <2> TAKE i \in 1 .. Word
  <2>1. p + i \in 1 .. Len(c) /\ p + i > Len(b) BY <1>3
  <2>2. c[p + i] = 0 BY <1>2, <2>1
  <2> QED BY <1>3, <1>4, <2>1, <2>2
<1>7. Value(s) = 0 BY <1>3, <1>5, <1>6, ZeroValue
<1> QED BY <1>7 DEF s

\* m more bytes fit after x, and p is before x.
Place(b, c, p, x, m) ==
  /\ Padded(b, c) /\ p \in Nat /\ x \in Nat /\ m \in Nat
  /\ p <= x /\ Len(b) + MaxNumber <= x /\ x + m <= Len(c)

\* It was read, from no more than m bytes after x.
ReadWithin(r, x, m) == r.ok /\ r.off <= x + m

LEMMA PlaceIs ==
  ASSUME NEW b, NEW c, NEW p, NEW x, NEW m, Place(b, c, p, x, m)
  PROVE  /\ Padded(b, c) /\ b \in Seq(Octet) /\ c \in Seq(Octet) /\ Len(b) \in Nat /\ Len(c) \in Nat
         /\ p \in Nat /\ x \in Nat /\ m \in Nat /\ MaxNumber \in Nat
         /\ p <= x /\ Len(b) + MaxNumber <= x /\ x + m <= Len(c)
         /\ p \in Offsets(c) /\ At(c, p) /\ p \in 0 .. Len(c)
<1>1. b \in Seq(Octet) /\ c \in Seq(Octet) /\ Padded(b, c) BY DEF Place, Padded
<1>2. Len(b) \in Nat /\ Len(c) \in Nat BY <1>1
<1>3. MaxNumber \in Nat
  <2> DEFINE t == [i \in 1 .. Word |-> Base - 1]
  <2>1. Word \in Nat /\ Base - 1 \in Octet BY CodecAssumption DEF Octet
  <2>2. t \in Seq(Octet) /\ Len(t) = Word BY <2>1
  <2> HIDE DEF t
  <2> QED BY <2>2, ValueBounds
<1>4. /\ p \in Nat /\ x \in Nat /\ m \in Nat
      /\ p <= x /\ Len(b) + MaxNumber <= x /\ x + m <= Len(c)
  BY DEF Place
<1>5. p \in 0 .. Len(c) BY <1>2, <1>4
<1> QED BY <1>1, <1>2, <1>3, <1>4, <1>5 DEF At, Offsets

LEMMA StringFits ==
  ASSUME NEW b, NEW c, NEW p, NEW x, Place(b, c, p, x, Word)
  PROVE  ReadWithin(ReadString(c, p), x, Word)
<1> DEFINE r == ReadString(c, p)
           len == ReadNumber(c, p)
           n == len.val
<1>1. /\ Padded(b, c) /\ c \in Seq(Octet) /\ Len(b) \in Nat /\ Len(c) \in Nat
      /\ p \in Nat /\ x \in Nat /\ Word \in Nat /\ MaxNumber \in Nat
      /\ p <= x /\ Len(b) + MaxNumber <= x /\ x + Word <= Len(c) /\ p \in 0 .. Len(c)
  BY PlaceIs
<1>2. p + Word <= Len(c) BY <1>1
<1>3. len.ok /\ len.off = p + Word /\ n = Value(Bytes(c, p, Word)) /\ n \in Nat /\ n <= MaxNumber
  BY <1>1, <1>2, NumberIs
<1>4. /\ r.ok <=> len.ok /\ len.off + n <= Len(c)
      /\ r.ok => r.off = len.off + n
  BY <1>1, StringIs
<1>5. Len(b) <= p => n = 0 BY <1>1, <1>2, <1>3, NumberBeyond
<1> HIDE DEF r, len, n
<1>6. p + Word + n <= x + Word BY <1>1, <1>3, <1>5
<1>7. len.off + n <= x + Word /\ len.off + n <= Len(c) BY <1>1, <1>3, <1>6
<1> QED BY <1>3, <1>4, <1>7 DEF ReadWithin, r

LEMMA FieldFits ==
  ASSUME NEW b, NEW c, NEW p, NEW x, Place(b, c, p, x, Word), NEW f
  PROVE  ReadWithin(ReadField(f, c, p), x, Word)
<1>1. CASE f = "number"
  <2> DEFINE r == ReadNumber(c, p)
  <2>1. /\ c \in Seq(Octet) /\ Len(c) \in Nat /\ p \in Nat /\ x \in Nat /\ Word \in Nat
        /\ p <= x /\ x + Word <= Len(c) /\ p \in 0 .. Len(c)
    BY PlaceIs
  <2>2. p + Word <= Len(c) BY <2>1
  <2>3. r.ok /\ r.off = p + Word BY <2>1, <2>2, NumberIs
  <2> HIDE DEF r
  <2>4. ReadWithin(r, x, Word) BY <2>1, <2>3 DEF ReadWithin
  <2> QED BY <1>1, <2>4 DEF ReadField, r
<1>2. CASE f # "number" BY <1>2, StringFits DEF ReadField
<1> QED BY <1>1, <1>2

LEMMA TimesFit ==
  ASSUME NEW i, i \in Nat, NEW n, n \in Nat, i <= n, NEW m, m \in Nat
  PROVE  /\ i * m \in Nat /\ n * m \in Nat /\ i * m <= n * m
         /\ (i + 1) * m = i * m + m
<1> DEFINE d == n - i
<1>1. d \in Nat OBVIOUS
<1>2. d * m \in Nat /\ i * m \in Nat /\ n * m \in Nat
  <2> HIDE DEF d
  <2> QED BY <1>1, SMT
<1>3. n * m = i * m + d * m BY SMT
<1>4. (i + 1) * m = i * m + m BY SMT
<1> QED BY <1>2, <1>3, <1>4

\* n items of m bytes each.
ItemsFit(item, n, b, c, m) ==
  /\ Items(item, n, c) /\ m \in Nat
  /\ \A i \in 1 .. n : \A p, x : Place(b, c, p, x, m) => ReadWithin(item[i][p], x, m)

LEMMA ListFits ==
  ASSUME NEW item, NEW n, NEW b, NEW c, NEW m, ItemsFit(item, n, b, c, m),
         NEW o, NEW x, Place(b, c, o, x, n * m)
  PROVE  ReadWithin(InOrder(item, n, o), x, n * m)
<1>0. Items(item, n, c) /\ m \in Nat BY DEF ItemsFit
<1>1. n \in Nat BY <1>0 DEF Items
<1>2. /\ Padded(b, c) /\ c \in Seq(Octet) /\ Len(b) \in Nat /\ Len(c) \in Nat
      /\ o \in Nat /\ x \in Nat /\ n * m \in Nat /\ MaxNumber \in Nat
      /\ o <= x /\ Len(b) + MaxNumber <= x /\ x + n * m <= Len(c) /\ o \in Offsets(c)
  BY PlaceIs
<1>3. PICK g : InTurn(item, n, o, g) /\ InOrder(item, n, o) = g[n] BY <1>1, InOrderIs
<1>4. \A k \in 0 .. n : IsRead(g[k], c, o)
  <2>1. \A k \in 0 .. n : Turned(item, n, c, o, g, k) BY <1>0, <1>2, <1>3, AllTurned
  <2> QED BY <2>1 DEF Turned
<1> DEFINE K == {k \in Nat : k <= n => g[k].ok /\ g[k].off <= x + k * m}
<1>5. 0 \in K
  <2>1. g[0] = [ok |-> TRUE, off |-> o, val |-> <<>>] BY <1>3 DEF InTurn, Read
  <2>2. g[0].ok /\ g[0].off = o BY <2>1
  <2>3. 0 * m = 0 BY <1>0
  <2> QED BY <1>2, <2>2, <2>3
<1>6. ASSUME NEW k \in Nat, k \in K PROVE k + 1 \in K
  <2> SUFFICES ASSUME k + 1 <= n PROVE g[k + 1].ok /\ g[k + 1].off <= x + (k + 1) * m
    OBVIOUS
  <2>1. k + 1 \in 1 .. n /\ k \in 0 .. n /\ (k + 1) - 1 = k /\ k <= n /\ k + 1 \in Nat BY <1>1
  <2> DEFINE r == g[k]
             t == g[k + 1]
             s == item[k + 1][r.off]
             p == r.off
             y == x + k * m
  <2>2. r.ok /\ p <= y BY <1>6, <2>1
  <2>3. k * m \in Nat /\ (k + 1) * m = k * m + m /\ (k + 1) * m <= n * m
    BY <1>0, <1>1, <2>1, TimesFit
  <2>4. p \in o .. Len(c) BY <1>4, <2>1 DEF IsRead
  <2>5. t = IF ~r.ok THEN r
            ELSE [ok |-> s.ok, off |-> s.off, val |-> IF s.ok THEN Append(r.val, s.val) ELSE r.val]
    BY <1>3, <2>1 DEF InTurn, After
  <2> DEFINE u == k * m
             N == n * m
  <2>6. y = x + u /\ u \in Nat /\ u + m <= N /\ N \in Nat /\ x + N <= Len(c) BY <1>2, <2>3
  <2> HIDE DEF r, t, s, p, y, u, N
  <2>7. y \in Nat /\ p \in Nat /\ Len(b) + MaxNumber <= y /\ y + m <= Len(c)
    BY <1>0, <1>2, <2>4, <2>6
  <2>8. Place(b, c, p, y, m) BY <1>0, <1>2, <2>2, <2>7 DEF Place
  <2>9. ReadWithin(s, y, m) BY <2>1, <2>8 DEF ItemsFit, s, p
  <2>10. t.ok /\ t.off = s.off BY <2>2, <2>5, <2>9 DEF ReadWithin
  <2>11. s.off <= x + (k + 1) * m BY <1>0, <1>2, <2>3, <2>6, <2>9 DEF ReadWithin, u
  <2> QED BY <2>10, <2>11 DEF t
<1> HIDE DEF K
<1>7. \A k \in Nat : k \in K BY <1>5, <1>6, SetInduction
<1>8. g[n].ok /\ g[n].off <= x + n * m BY <1>1, <1>7 DEF K
<1> QED BY <1>3, <1>8 DEF ReadWithin

LEMMA MessageFits ==
  ASSUME NEW b, NEW c, NEW p, NEW x, Place(b, c, p, x, 7 * Word), NEW T, IsType(T), Len(T) <= 7
  PROVE  ReadWithin(ReadMessage(T, c, p), x, 7 * Word)
<1> DEFINE n == Len(T)
           item == FieldItems(T, c)
           r == ReadMessage(T, c, p)
<1>0. n \in Nat /\ n <= 7 /\ Word \in Nat BY CodecAssumption DEF IsType
<1>1. c \in Seq(Octet) /\ x \in Nat /\ Len(c) \in Nat /\ x + 7 * Word <= Len(c) BY PlaceIs
<1>2. Items(item, n, c) /\ \A i \in 1 .. n : \A q \in Offsets(c) : item[i][q] = ReadField(T[i], c, q)
  BY <1>1, FieldItemsAre
<1>3. r = InOrder(item, n, p) BY DEF ReadMessage, FieldItems
<1> HIDE DEF n, item, r
<1>4. n * Word \in Nat /\ n * Word <= 7 * Word BY <1>0, TimesFit
<1>5. ItemsFit(item, n, b, c, Word)
  <2>1. ASSUME NEW i, i \in 1 .. n, NEW q, NEW y, Place(b, c, q, y, Word)
        PROVE  ReadWithin(item[i][q], y, Word)
    <3>1. q \in Offsets(c) BY <2>1, PlaceIs
    <3>2. item[i][q] = ReadField(T[i], c, q) BY <1>2, <2>1, <3>1
    <3> QED BY <2>1, <3>2, FieldFits
  <2> QED BY <1>0, <1>2, <2>1 DEF ItemsFit
<1>6. Place(b, c, p, x, n * Word)
  <2> DEFINE u == n * Word
             v == 7 * Word
  <2>1. u \in Nat /\ u <= v /\ x + v <= Len(c) /\ v \in Nat BY <1>0, <1>1, <1>4
  <2>2. Place(b, c, p, x, v) OBVIOUS
  <2> HIDE DEF u, v
  <2>3. x + u <= Len(c) BY <1>1, <2>1
  <2>4. Place(b, c, p, x, u) BY <2>1, <2>2, <2>3 DEF Place
  <2> QED BY <2>4 DEF u
<1>7. ReadWithin(r, x, n * Word) BY <1>3, <1>5, <1>6, ListFits
<1>8. r.off \in Nat
  <2>1. Sound(r, c, p, WriteMessage(T, r.val), SizeMessage(T, r.val))
    <3>1. At(c, p) BY PlaceIs
    <3> QED BY <3>1, MessageIs DEF r
  <2>2. r.off \in p .. Len(c) BY <2>1 DEF Sound, IsRead
  <2>3. p \in Nat BY PlaceIs
  <2> QED BY <1>1, <2>2, <2>3
<1>9. ReadWithin(r, x, 7 * Word) BY <1>0, <1>1, <1>4, <1>7, <1>8 DEF ReadWithin
<1> QED BY <1>9 DEF r

LEMMA StringArrayFits ==
  ASSUME NEW b, NEW c, NEW p, NEW x, NEW n, n \in Nat, Place(b, c, p, x, n * Word)
  PROVE  ReadWithin(ReadStringArray(n, c, p), x, n * Word)
<1> DEFINE item == StringItems(n, c)
           r == ReadStringArray(n, c, p)
<1>0. Word \in Nat BY CodecAssumption
<1>1. c \in Seq(Octet) BY PlaceIs
<1>2. Items(item, n, c) /\ \A i \in 1 .. n : \A q \in Offsets(c) : item[i][q] = ReadString(c, q)
  BY <1>1, StringItemsAre
<1>3. r = InOrder(item, n, p) BY DEF ReadStringArray, StringItems
<1> HIDE DEF item, r
<1>4. ItemsFit(item, n, b, c, Word)
  <2>1. ASSUME NEW i, i \in 1 .. n, NEW q, NEW y, Place(b, c, q, y, Word)
        PROVE  ReadWithin(item[i][q], y, Word)
    <3>1. q \in Offsets(c) BY <2>1, PlaceIs
    <3>2. item[i][q] = ReadString(c, q) BY <1>2, <2>1, <3>1
    <3> QED BY <2>1, <3>2, StringFits
  <2> QED BY <1>0, <1>2, <2>1 DEF ItemsFit
<1> QED BY <1>3, <1>4, ListFits DEF r

LEMMA MessageArrayFits ==
  ASSUME NEW b, NEW c, NEW p, NEW x, NEW T, IsType(T), Len(T) <= 7,
         NEW n, n \in Nat, Place(b, c, p, x, n * (7 * Word))
  PROVE  ReadWithin(ReadMessageArray(T, n, c, p), x, n * (7 * Word))
<1> DEFINE item == MessageItems(T, n, c)
           r == ReadMessageArray(T, n, c, p)
<1>0. 7 * Word \in Nat BY CodecAssumption
<1>1. c \in Seq(Octet) BY PlaceIs
<1>2. Items(item, n, c) /\ \A i \in 1 .. n : \A q \in Offsets(c) : item[i][q] = ReadMessage(T, c, q)
  BY <1>1, MessageItemsAre
<1>3. r = InOrder(item, n, p) BY DEF ReadMessageArray, MessageItems
<1> HIDE DEF item, r
<1>4. ItemsFit(item, n, b, c, 7 * Word)
  <2>1. ASSUME NEW i, i \in 1 .. n, NEW q, NEW y, Place(b, c, q, y, 7 * Word)
        PROVE  ReadWithin(item[i][q], y, 7 * Word)
    <3>1. q \in Offsets(c) BY <2>1, PlaceIs
    <3>2. item[i][q] = ReadMessage(T, c, q) BY <1>2, <2>1, <3>1
    <3> QED BY <2>1, <3>2, MessageFits
  <2> QED BY <1>0, <1>2, <2>1 DEF ItemsFit
<1> QED BY <1>3, <1>4, ListFits DEF r

LEMMA NumberArrayFits ==
  ASSUME NEW b, NEW c, NEW p, NEW x, NEW n, n \in Nat, Place(b, c, p, x, n * Word)
  PROVE  ReadNumberArray(n, c, p).ok
<1> DEFINE u == n * Word
           v == [i \in 1 .. n |-> Value(Bytes(c, p + (i - 1) * Word, Word))]
<1>1. p \in Nat /\ x \in Nat /\ p <= x /\ u \in Nat /\ x + u <= Len(c) /\ Len(c) \in Nat BY PlaceIs
<1>2. ~(p + u > Len(c))
  <2> HIDE DEF u
  <2> QED BY <1>1
<1>3. ReadNumberArray(n, c, p) = Read(p + u, v) BY <1>2 DEF ReadNumberArray
<1> HIDE DEF v, u
<1> QED BY <1>3 DEF Read

\* The padding.
Room(b, c) == Padded(b, c) /\ Len(c) = Len(b) + 8 * Word * (1 + MaxNumber + ArrayLen)

\* The count of an array or of a vector.
Count(n) == n \in Nat /\ (n <= MaxNumber \/ n <= ArrayLen)

LEMMA RoomIs ==
  ASSUME NEW b, NEW c, Room(b, c), NEW o, o \in Offsets(b), NEW n, Count(n)
  PROVE  LET x == Len(b) + MaxNumber
         IN  /\ Place(b, c, o, x, 7 * Word) /\ Place(b, c, o, x, n * (7 * Word))
             /\ Place(b, c, o, x, n * Word)
             /\ Place(b, c, o + Word, x + Word, n * (7 * Word))
             /\ Place(b, c, o + Word, x + Word, n * Word)
             /\ o + Word <= Len(c)
<1> DEFINE x == Len(b) + MaxNumber
           M == MaxNumber
           A == ArrayLen
           W == Word
           l == Len(b)
           e == Len(c)
<1> SUFFICES /\ Place(b, c, o, x, 7 * Word) /\ Place(b, c, o, x, n * (7 * Word))
             /\ Place(b, c, o, x, n * Word)
             /\ Place(b, c, o + Word, x + Word, n * (7 * Word))
             /\ Place(b, c, o + Word, x + Word, n * Word)
             /\ o + Word <= Len(c)
  OBVIOUS
<1>1. Padded(b, c) /\ e = l + 8 * W * (1 + M + A) BY DEF Room
<1>2. l \in Nat /\ e \in Nat /\ o \in Nat /\ o <= l BY <1>1, MoreOffsets
<1>3. M \in Nat
  <2> DEFINE t == [i \in 1 .. Word |-> Base - 1]
  <2>1. Word \in Nat /\ Base - 1 \in Octet BY CodecAssumption DEF Octet
  <2>2. t \in Seq(Octet) /\ Len(t) = Word BY <2>1
  <2> HIDE DEF t
  <2> QED BY <2>2, ValueBounds
<1>4. W \in Nat /\ W >= 1 /\ A \in Nat BY CodecAssumption
<1>5. n \in Nat /\ (n <= M \/ n <= A) BY DEF Count
<1> HIDE DEF M, A, W, l, e
<1> DEFINE WM == M * W
           WA == A * W
           Wn == n * W
           S  == n * (7 * W)
<1>6. WM \in Nat /\ WA \in Nat /\ Wn \in Nat /\ (n <= M => Wn <= WM) /\ (n <= A => Wn <= WA)
  BY <1>3, <1>4, <1>5, TimesFit
<1>7. Wn <= WM \/ Wn <= WA BY <1>5, <1>6
<1>8. M <= WM
  <2>1. M * 1 \in Nat /\ W * M \in Nat /\ 1 * M <= W * M BY <1>3, <1>4, TimesFit
  <2>2. W * M = WM /\ 1 * M = M BY <1>3, <1>4, SMT
  <2> QED BY <2>1, <2>2
<1>9. 8 * W * (1 + M + A) = 8 * W + 8 * WM + 8 * WA BY <1>3, <1>4, SMT
<1>10. S = 7 * Wn BY <1>4, <1>5, SMT
<1> HIDE DEF WM, WA, Wn, S
<1>11. e = l + 8 * W + 8 * WM + 8 * WA BY <1>1, <1>2, <1>4, <1>6, <1>9
<1>12. S \in Nat /\ S + WM <= 8 * WM + 8 * WA /\ Wn + WM <= 8 * WM + 8 * WA BY <1>6, <1>7, <1>10
<1>13. /\ (l + M) + 7 * W <= e /\ (l + M) + S <= e /\ (l + M) + Wn <= e
       /\ (l + M + W) + S <= e /\ (l + M + W) + Wn <= e /\ o + W <= e
  BY <1>2, <1>3, <1>4, <1>6, <1>8, <1>11, <1>12
<1>14. o <= l + M /\ o + W <= l + M + W /\ o + W \in Nat /\ l + M \in Nat /\ l + M + W \in Nat
       /\ 7 * W \in Nat /\ l + M <= l + M + W
  BY <1>2, <1>3, <1>4
<1>15. Place(b, c, o, x, 7 * W) BY <1>1, <1>2, <1>13, <1>14 DEF Place, l, M, e
<1>16. Place(b, c, o, x, S) BY <1>1, <1>2, <1>12, <1>13, <1>14 DEF Place, l, M, e
<1>17. Place(b, c, o, x, Wn) BY <1>1, <1>2, <1>6, <1>13, <1>14 DEF Place, l, M, e
<1>18. Place(b, c, o + W, x + W, S) BY <1>1, <1>2, <1>12, <1>13, <1>14 DEF Place, l, M, e
<1>19. Place(b, c, o + W, x + W, Wn) BY <1>1, <1>2, <1>6, <1>13, <1>14 DEF Place, l, M, e
<1> QED BY <1>13, <1>15, <1>16, <1>17, <1>18, <1>19 DEF S, Wn, W, e

\* With the padding every kind is read.
LEMMA KindFits ==
  ASSUME NEW b, NEW c, Room(b, c), NEW o, o \in Offsets(b), NEW k, k \in Kinds
  PROVE  Reads(k, c, o).ok
<1> DEFINE d == ReadNumber(c, o)
           n == d.val
           q == d.off
           x == Len(b) + MaxNumber
<1>0. Padded(b, c) BY DEF Room
<1>1. Count(ArrayLen)
  <2>1. ArrayLen \in Nat BY CodecAssumption
  <2> QED BY <2>1 DEF Count
<1>2. /\ Place(b, c, o, x, 7 * Word) /\ Place(b, c, o, x, ArrayLen * (7 * Word))
      /\ Place(b, c, o, x, ArrayLen * Word) /\ o + Word <= Len(c)
  BY <1>1, RoomIs
<1>3. d.ok /\ Count(n) /\ q = o + Word
  <2>1. At(c, o) BY <1>0, MoreOffsets
  <2>2. c \in Seq(Octet) /\ o \in 0 .. Len(c) BY <2>1 DEF At, Offsets
  <2>3. d.ok BY <1>2, <2>2, NumberIs
  <2> QED BY <2>1, <2>3, CountIs DEF Count
<1>4. Place(b, c, q, x + Word, n * (7 * Word)) /\ Place(b, c, q, x + Word, n * Word) /\ n \in Nat
  <2>1. n \in Nat BY <1>3 DEF Count
  <2> HIDE DEF d, n, q
  <2> QED BY <1>3, <2>1, RoomIs
<1>5. ArrayLen \in Nat /\ IsType(k.elem) /\ Len(k.elem) <= 7
  <2> DEFINE T == k.elem
  <2>1. T \in Elems BY KindCases
  <2> HIDE DEF T
  <2>2. IsType(T) /\ Len(T) <= 7 BY <2>1, ElemTypes
  <2> QED BY <2>2, CodecAssumption DEF T
<1> HIDE DEF x
<1>6. CASE k.elem = Number /\ k.form = "array"
  <2>1. Reads(k, c, o) = ReadNumberArray(ArrayLen, c, o) BY <1>6, NumberArrayKind
  <2> QED BY <1>2, <1>5, <2>1, NumberArrayFits
<1>7. CASE k.elem = Number /\ k.form = "vector"
  <2>1. Reads(k, c, o) = ReadNumberArray(n, c, q) BY <1>3, <1>7, NumberVectorKind DEF ReadNumberVector
  <2> HIDE DEF d, n, q
  <2> QED BY <1>4, <2>1, NumberArrayFits
<1>8. CASE k.elem = String /\ k.form = "array"
  <2>1. Reads(k, c, o) = ReadStringArray(ArrayLen, c, o) BY <1>8, StringArrayKind
  <2> QED BY <1>2, <1>5, <2>1, StringArrayFits DEF ReadWithin
<1>9. CASE k.elem = String /\ k.form = "vector"
  <2>1. Reads(k, c, o) = ReadStringArray(n, c, q) BY <1>3, <1>9, StringVectorKind DEF ReadStringVector
  <2> HIDE DEF d, n, q
  <2> QED BY <1>4, <2>1, StringArrayFits DEF ReadWithin
<1>10. CASE k.form = "one"
  <2>1. Reads(k, c, o) = ReadMessage(k.elem, c, o) BY <1>10, OneKind
  <2> QED BY <1>2, <1>5, <2>1, MessageFits DEF ReadWithin
<1>11. CASE k.elem \in Messages /\ k.form = "array"
  <2>1. Reads(k, c, o) = ReadMessageArray(k.elem, ArrayLen, c, o) BY <1>11, MessageArrayKind
  <2> QED BY <1>2, <1>5, <2>1, MessageArrayFits DEF ReadWithin
<1>12. CASE k.elem \in Messages /\ k.form = "vector"
  <2>1. Reads(k, c, o) = ReadMessageArray(k.elem, n, c, q)
    BY <1>3, <1>12, MessageVectorKind DEF ReadMessageVector
  <2> HIDE DEF d, n, q
  <2> QED BY <1>4, <1>5, <2>1, MessageArrayFits DEF ReadWithin
<1> QED BY <1>6, <1>7, <1>8, <1>9, <1>10, <1>11, <1>12, KindCases

LEMMA PaddingIsRoom == ASSUME NEW b, b \in Seq(Octet) PROVE Room(b, b \o Padding)
<1> DEFINE n == 8 * Word * (1 + MaxNumber + ArrayLen)
           z == Padding
           c == b \o z
<1>1. n \in Nat
  <2>1. MaxNumber \in Nat
    <3> DEFINE t == [i \in 1 .. Word |-> Base - 1]
    <3>1. Word \in Nat /\ Base - 1 \in Octet BY CodecAssumption DEF Octet
    <3>2. t \in Seq(Octet) /\ Len(t) = Word BY <3>1
    <3> HIDE DEF t
    <3> QED BY <3>2, ValueBounds
  <2> DEFINE W == 8 * Word
             s == 1 + MaxNumber + ArrayLen
  <2>2. W \in Nat /\ s \in Nat BY <2>1, CodecAssumption
  <2> HIDE DEF W, s
  <2>3. W * s \in Nat BY <2>2, SMT
  <2> QED BY <2>3 DEF W, s
<1>2. z = [i \in 1 .. n |-> 0] BY DEF Padding
<1>3. 0 \in Octet BY CodecAssumption DEF Octet
<1> HIDE DEF n, z
<1>4. z \in Seq(Octet) /\ Len(z) = n /\ \A i \in 1 .. n : z[i] = 0 BY <1>1, <1>2, <1>3
<1>5. Len(b) \in Nat OBVIOUS
<1>6. c \in Seq(Octet) /\ Len(c) = Len(b) + n BY <1>4
<1>7. \A i \in 1 .. Len(b) : c[i] = b[i] BY <1>4
<1>8. \A i \in 1 .. Len(c) : i > Len(b) => c[i] = 0
  <2> TAKE i \in 1 .. Len(c)
  <2> SUFFICES ASSUME i > Len(b) PROVE c[i] = 0
    OBVIOUS
  <2>1. i - Len(b) \in 1 .. n BY <1>1, <1>5, <1>6
  <2>2. c[i] = z[i - Len(b)] BY <1>4, <1>5, <1>6
  <2> QED BY <1>4, <2>1, <2>2
<1> HIDE DEF c
<1>9. Padded(b, c) BY <1>1, <1>5, <1>6, <1>7, <1>8 DEF Padded
<1> QED BY <1>6, <1>9 DEF Room, c, n, z

\* A read fails only because the value goes on beyond the end of the buffer:
\* with the bytes that are missing the same read succeeds and ends after the
\* buffer.  A read that succeeds does not depend on what follows.  For any
\* bytes, kinds and places (serialization.hpp 225-485).
THEOREM ReadsFailOnlyWhenShort == CodecSpec => []FailsOnlyWhenShort
<1>1. CInv => FailsOnlyWhenShort
  <2> SUFFICES ASSUME CInv, last.kind.form # "none"
               PROVE  LET more == Reads(last.kind, buf \o Padding, last.from)
                      IN IF last.ok THEN more = [ok |-> TRUE, off |-> off, val |-> last.val]
                         ELSE more.ok /\ more.off > Len(buf)
    BY DEF FailsOnlyWhenShort
  <2> DEFINE k == last.kind
             o == last.from
             c == buf \o Padding
             r == Reads(k, buf, o)
             s == Reads(k, c, o)
  <2>1. k \in Kinds /\ o \in Offsets(buf) /\ buf \in Seq(Octet) BY BuffersAre DEF CInv
  <2>2. r = [ok |-> last.ok, off |-> off, val |-> last.val] BY DEF CInv
  <2>3. Room(buf, c) BY <2>1, PaddingIsRoom
  <2> HIDE DEF c
  <2>4. Padded(buf, c) BY <2>3 DEF Room
  <2>5. s.ok BY <2>1, <2>3, KindFits
  <2>6. Agree(r, s, buf) BY <2>1, <2>4, KindsAgree
  <2>7. IsRead(r, buf, o) /\ IsRead(s, c, o)
    <3>1. At(buf, o) /\ At(c, o) BY <2>1, <2>4, MoreOffsets
    <3> QED BY <2>1, <3>1, KindIs DEF Sound
  <2>8. s.off \in Nat /\ Len(buf) \in Nat
    <3>1. s.off \in o .. Len(c) BY <2>7 DEF IsRead
    <3>2. o \in 0 .. Len(buf) BY <2>1 DEF Offsets
    <3> HIDE DEF s, o
    <3> QED BY <2>1, <3>1, <3>2
  <2>9. r.ok \in BOOLEAN BY <2>7 DEF IsRead
  <2> HIDE DEF r, s
  <2>10. r.ok = last.ok /\ r.off = off /\ r.val = last.val BY <2>2
  <2>11. CASE r.ok
    <3>1. r.ok = TRUE BY <2>9, <2>11
    <3>2. s = r BY <2>6, <2>11 DEF Agree
    <3>3. s = [ok |-> TRUE, off |-> off, val |-> last.val] BY <2>2, <2>10, <3>1, <3>2
    <3> QED BY <2>10, <2>11, <3>3 DEF s, c
  <2>12. CASE ~r.ok
    <3>1. ~(s.off <= Len(buf)) BY <2>5, <2>6, <2>12 DEF Agree
    <3>2. s.off > Len(buf) BY <2>8, <3>1
    <3> QED BY <2>5, <2>10, <2>12, <3>2 DEF s, c
  <2> QED BY <2>11, <2>12
<1> QED BY <1>1, CodecStarts, CodecKeeps, PTL DEF CodecSpec
=============================================================================
