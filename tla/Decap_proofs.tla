----------------------------- MODULE Decap_proofs -----------------------------
(***************************************************************************)
(* Proofs about Decap, for every frame PacketLayout can put together:      *)
(* every combination of flags, offset, compression and inner packet behind *)
(* every outer header, cut off after any number of octets.                 *)
(***************************************************************************)
EXTENDS Decap, SequenceTheorems, TLAPS

-----------------------------------------------------------------------------
(* Frames and their octets *)

\* A frame of some sample.
FrameOK(f) == \E s \in Samples : \E n \in CutLens(s) : f = Cut(s, n)

\* A run of zeros is a sequence.
LEMMA ZerosSeq ==
  ASSUME NEW n \in Nat
  PROVE  Zeros(n) \in Seq(Nat) /\ Len(Zeros(n)) = n /\ \A i \in 1 .. n : Zeros(n)[i] = 0
  BY DEF Zeros

\* Two octets make a number again.
LEMMA OctetsSeq ==
  ASSUME NEW n \in Nat
  PROVE  /\ Octets(n) \in Seq(Nat) /\ Len(Octets(n)) = 2
         /\ Octets(n)[1] \in Nat /\ Octets(n)[2] \in Nat
         /\ Octets(n)[1] = n \div 256
         /\ 256 * Octets(n)[1] + Octets(n)[2] = n
  <1>1. n \div 256 \in Nat /\ n % 256 \in Nat /\ 256 * (n \div 256) + (n % 256) = n
    OBVIOUS
  <1>2. QED
    BY <1>1 DEF Octets

\* An optional part.
LEMMA WhenSeq ==
  ASSUME NEW c \in BOOLEAN, NEW s \in Seq(Nat)
  PROVE  When(c, s) \in Seq(Nat) /\ Len(When(c, s)) = IF c THEN Len(s) ELSE 0
  BY DEF When

\* The parts of the L2TP header: flags and ids, sequence numbers, offset.
Flags(h) == Bit(h.T, 32768) + Bit(h.L, 16384) + Bit(h.S, 2048) + Bit(h.O, 512) + h.ver
Pad(h) == Octets(h.offset) \o Zeros(IF h.offset > OffsetCap THEN 0 ELSE h.offset)

LEMMA FlagsNat ==
  ASSUME NEW h \in Header
  PROVE  Flags(h) \in Nat
  BY DEF Header, Flags, Bit

\* Concatenation, in the form the proofs below use.
LEMMA Cat ==
  ASSUME NEW s \in Seq(Nat), NEW t \in Seq(Nat)
  PROVE  /\ s \o t \in Seq(Nat) /\ Len(s \o t) = Len(s) + Len(t)
         /\ \A i \in 1 .. Len(s) : (s \o t)[i] = s[i]
         /\ \A i \in 1 .. Len(t) : (s \o t)[Len(s) + i] = t[i]
  <1>1. Len(s) \in Nat /\ Len(t) \in Nat
    BY LenProperties
  <1>2. /\ s \o t \in Seq(Nat) /\ Len(s \o t) = Len(s) + Len(t)
        /\ \A i \in 1 .. Len(s) + Len(t) :
             (s \o t)[i] = IF i <= Len(s) THEN s[i] ELSE t[i - Len(s)]
    BY ConcatProperties
  <1>3. ASSUME NEW i \in 1 .. Len(t) PROVE (s \o t)[Len(s) + i] = t[i]
    <2>1. Len(s) + i \in 1 .. Len(s) + Len(t) /\ ~(Len(s) + i <= Len(s)) /\ (Len(s) + i) - Len(s) = i
      BY <1>1
    <2>2. QED
      BY <1>2, <2>1
  <1>4. QED
    BY <1>1, <1>2, <1>3

\* What starts with two octets keeps them.
LEMMA CatFirstTwo ==
  ASSUME NEW s \in Seq(Nat), NEW t \in Seq(Nat), Len(s) >= 2, NEW u, u = s \o t
  PROVE  u \in Seq(Nat) /\ Len(u) = Len(s) + Len(t) /\ u[1] = s[1] /\ u[2] = s[2]
  <1>1. /\ s \o t \in Seq(Nat) /\ Len(s \o t) = Len(s) + Len(t)
        /\ \A i \in 1 .. Len(s) : (s \o t)[i] = s[i]
    BY Cat
  <1>2. 1 \in 1 .. Len(s) /\ 2 \in 1 .. Len(s)
    BY LenProperties
  <1>3. QED
    BY <1>1, <1>2

\* The octets before the offset: flags, length, ids and sequence numbers.
Front(h) ==
  Octets(Flags(h)) \o When(h.L, Octets(0)) \o Octets(1) \o Octets(1) \o When(h.S, Zeros(4))
FrontLen(h) == FixedLen(h) + (IF h.S THEN 4 ELSE 0)

\* They begin with the flags, and there are as many as RFC 2661 says.
LEMMA FrontSeq ==
  ASSUME NEW h \in Header
  PROVE  /\ Front(h) \in Seq(Nat) /\ Len(Front(h)) = FrontLen(h)
         /\ FrontLen(h) \in Nat /\ FrontLen(h) >= FixedLen(h) /\ FixedLen(h) >= 6
         /\ Front(h)[1] = Flags(h) \div 256
         /\ 256 * Front(h)[1] + Front(h)[2] = Flags(h)
  <1> DEFINE a == Octets(Flags(h))
             b == When(h.L, Octets(0))
             c == Octets(1)
             d == When(h.S, Zeros(4))
  <1>1. h.L \in BOOLEAN /\ h.S \in BOOLEAN
    BY DEF Header
  <1>2. /\ a \in Seq(Nat) /\ Len(a) = 2 /\ a[1] = Flags(h) \div 256
        /\ 256 * a[1] + a[2] = Flags(h)
    BY FlagsNat, OctetsSeq, ZenonT(60)
  <1>3. b \in Seq(Nat) /\ Len(b) = IF h.L THEN 2 ELSE 0
    <2>1. Octets(0) \in Seq(Nat) /\ Len(Octets(0)) = 2
      BY OctetsSeq
    <2>2. QED
      BY <1>1, <2>1, WhenSeq, ZenonT(60)
  <1>4. c \in Seq(Nat) /\ Len(c) = 2
    BY OctetsSeq
  <1>5. d \in Seq(Nat) /\ Len(d) = IF h.S THEN 4 ELSE 0
    <2>1. Zeros(4) \in Seq(Nat) /\ Len(Zeros(4)) = 4
      BY ZerosSeq
    <2>2. QED
      BY <1>1, <2>1, WhenSeq
  <1> HIDE DEF a, b, c, d
  <1>6. PICK x : x = a \o b
    OBVIOUS
  <1>7. x \in Seq(Nat) /\ Len(x) = 2 + Len(b) /\ x[1] = a[1] /\ x[2] = a[2]
    <2>1. a \in Seq(Nat) /\ b \in Seq(Nat) /\ Len(a) >= 2
      BY <1>2, <1>3
    <2>2. x \in Seq(Nat) /\ Len(x) = Len(a) + Len(b) /\ x[1] = a[1] /\ x[2] = a[2]
      BY <1>6, <2>1, CatFirstTwo, Zenon
    <2>3. QED
      BY <1>2, <1>3, <2>2
  <1>8. PICK y : y = x \o c
    OBVIOUS
  <1>9. y \in Seq(Nat) /\ Len(y) = 4 + Len(b) /\ y[1] = a[1] /\ y[2] = a[2]
    <2>1. x \in Seq(Nat) /\ c \in Seq(Nat) /\ Len(x) >= 2
      BY <1>3, <1>4, <1>7
    <2>2. y \in Seq(Nat) /\ Len(y) = Len(x) + Len(c) /\ y[1] = x[1] /\ y[2] = x[2]
      BY <1>8, <2>1, CatFirstTwo, Zenon
    <2>3. QED
      BY <1>3, <1>4, <1>7, <2>2
  <1>10. PICK z : z = y \o c
    OBVIOUS
  <1>11. z \in Seq(Nat) /\ Len(z) = 6 + Len(b) /\ z[1] = a[1] /\ z[2] = a[2]
    <2>1. y \in Seq(Nat) /\ c \in Seq(Nat) /\ Len(y) >= 2
      BY <1>3, <1>4, <1>9
    <2>2. z \in Seq(Nat) /\ Len(z) = Len(y) + Len(c) /\ z[1] = y[1] /\ z[2] = y[2]
      BY <1>10, <2>1, CatFirstTwo, Zenon
    <2>3. QED
      BY <1>3, <1>4, <1>9, <2>2
  <1>12. PICK v : v = z \o d
    OBVIOUS
  <1>13. v \in Seq(Nat) /\ Len(v) = 6 + Len(b) + Len(d) /\ v[1] = a[1] /\ v[2] = a[2]
    <2>1. z \in Seq(Nat) /\ d \in Seq(Nat) /\ Len(z) >= 2
      BY <1>3, <1>5, <1>11
    <2>2. v \in Seq(Nat) /\ Len(v) = Len(z) + Len(d) /\ v[1] = z[1] /\ v[2] = z[2]
      BY <1>12, <2>1, CatFirstTwo, Zenon
    <2>3. QED
      BY <1>3, <1>5, <1>11, <2>2
  <1>14. Front(h) = v
    BY <1>6, <1>8, <1>10, <1>12 DEF Front, a, b, c, d
  <1>15. FrontLen(h) = 6 + Len(b) + Len(d)
    BY <1>3, <1>5 DEF FrontLen, FixedLen
  <1>16. FrontLen(h) \in Nat /\ FrontLen(h) >= FixedLen(h) /\ FixedLen(h) >= 6
    BY DEF FrontLen, FixedLen
  <1>17. QED
    BY <1>2, <1>13, <1>14, <1>15, <1>16

\* The offset size and its pad.
LEMMA PadSeq ==
  ASSUME NEW h \in Header
  PROVE  /\ Pad(h) \in Seq(Nat)
         /\ Len(Pad(h)) = 2 + (IF h.offset > OffsetCap THEN 0 ELSE h.offset)
         /\ 256 * Pad(h)[1] + Pad(h)[2] = h.offset
  <1> DEFINE n == IF h.offset > OffsetCap THEN 0 ELSE h.offset
  <1>1. h.offset \in Nat /\ n \in Nat
    BY LayoutAssumption DEF Header
  <1>2. /\ Octets(h.offset) \in Seq(Nat) /\ Len(Octets(h.offset)) = 2
        /\ 256 * Octets(h.offset)[1] + Octets(h.offset)[2] = h.offset
    BY <1>1, OctetsSeq, ZenonT(60)
  <1>3. Zeros(n) \in Seq(Nat) /\ Len(Zeros(n)) = n
    BY <1>1, ZerosSeq
  <1>4. Pad(h) = Octets(h.offset) \o Zeros(n)
    BY DEF Pad
  <1> HIDE DEF n
  <1>5. /\ Pad(h) \in Seq(Nat) /\ Len(Pad(h)) = 2 + n
        /\ Pad(h)[1] = Octets(h.offset)[1] /\ Pad(h)[2] = Octets(h.offset)[2]
    <2>1. Octets(h.offset) \in Seq(Nat) /\ Len(Octets(h.offset)) >= 2
      BY <1>2
    <2>2. /\ Pad(h) \in Seq(Nat) /\ Len(Pad(h)) = Len(Octets(h.offset)) + Len(Zeros(n))
          /\ Pad(h)[1] = Octets(h.offset)[1] /\ Pad(h)[2] = Octets(h.offset)[2]
      <3>1. PICK a, z, x : a = Octets(h.offset) /\ z = Zeros(n) /\ x = Pad(h)
        OBVIOUS
      <3>2. a \in Seq(Nat) /\ z \in Seq(Nat) /\ Len(a) >= 2
        BY <1>3, <2>1, <3>1
      <3>3. x = a \o z
        BY <1>4, <3>1
      <3>4. x \in Seq(Nat) /\ Len(x) = Len(a) + Len(z) /\ x[1] = a[1] /\ x[2] = a[2]
        BY <3>2, <3>3, CatFirstTwo, Zenon
      <3>5. QED
        BY <3>1, <3>4
    <2>3. QED
      BY <1>2, <1>3, <2>2
  <1>6. QED
    BY <1>2, <1>5 DEF n

\* The whole header: the flags, and the offset after the octets before it.
LEMMA HeaderSeq ==
  ASSUME NEW h \in Header
  PROVE  /\ HeaderOctets(h) \in Seq(Nat)
         /\ Len(HeaderOctets(h)) = FrontLen(h) + (IF h.O THEN Len(Pad(h)) ELSE 0)
         /\ HeaderOctets(h)[1] = Flags(h) \div 256
         /\ 256 * HeaderOctets(h)[1] + HeaderOctets(h)[2] = Flags(h)
         /\ h.O => 256 * HeaderOctets(h)[FrontLen(h) + 1] + HeaderOctets(h)[FrontLen(h) + 2]
                     = h.offset
  <1> DEFINE w == When(h.O, Pad(h))
  <1>1. HeaderOctets(h) = Front(h) \o w
    BY DEF HeaderOctets, Front, Pad, Flags
  <1>2. h.O \in BOOLEAN
    BY DEF Header
  <1>3. w \in Seq(Nat) /\ Len(w) = IF h.O THEN Len(Pad(h)) ELSE 0
    BY <1>2, PadSeq, WhenSeq
  <1>4. h.O => w = Pad(h)
    BY DEF When
  <1> HIDE DEF w
  <1>5. /\ Front(h) \in Seq(Nat) /\ Len(Front(h)) = FrontLen(h) /\ FrontLen(h) \in Nat
        /\ FrontLen(h) >= 6
        /\ Front(h)[1] = Flags(h) \div 256
        /\ 256 * Front(h)[1] + Front(h)[2] = Flags(h)
    BY FrontSeq DEF FrontLen, FixedLen
  <1>6. /\ HeaderOctets(h) \in Seq(Nat)
        /\ Len(HeaderOctets(h)) = FrontLen(h) + Len(w)
        /\ \A i \in 1 .. FrontLen(h) : HeaderOctets(h)[i] = Front(h)[i]
        /\ \A i \in 1 .. Len(w) : HeaderOctets(h)[FrontLen(h) + i] = w[i]
    <2>1. /\ Front(h) \o w \in Seq(Nat) /\ Len(Front(h) \o w) = Len(Front(h)) + Len(w)
          /\ \A i \in 1 .. Len(Front(h)) : (Front(h) \o w)[i] = Front(h)[i]
          /\ \A i \in 1 .. Len(w) : (Front(h) \o w)[Len(Front(h)) + i] = w[i]
      BY <1>3, <1>5, Cat, ZenonT(60)
    <2>2. QED
      BY <1>1, <1>5, <2>1, ZenonT(60)
  <1>7. HeaderOctets(h)[1] = Front(h)[1] /\ HeaderOctets(h)[2] = Front(h)[2]
    BY <1>5, <1>6
  <1>8. ASSUME h.O
        PROVE  256 * HeaderOctets(h)[FrontLen(h) + 1] + HeaderOctets(h)[FrontLen(h) + 2]
                 = h.offset
    <2>1. w = Pad(h) /\ Len(Pad(h)) \in Nat /\ Len(Pad(h)) >= 2
      <3>1. h.offset \in Nat /\ OffsetCap \in Nat
        BY LayoutAssumption DEF Header
      <3>2. QED
        BY <1>4, <1>8, <3>1, PadSeq
    <2>2. /\ HeaderOctets(h)[FrontLen(h) + 1] = Pad(h)[1]
          /\ HeaderOctets(h)[FrontLen(h) + 2] = Pad(h)[2]
      BY <1>6, <2>1
    <2>3. QED
      BY <2>2, PadSeq
  <1>9. QED
    BY <1>3, <1>5, <1>6, <1>7, <1>8

\* Three parts in a row.
LEMMA CatThree ==
  ASSUME NEW s \in Seq(Nat), NEW t \in Seq(Nat), NEW u \in Seq(Nat),
         NEW x, x = s \o t \o u
  PROVE  /\ x \in Seq(Nat) /\ Len(x) = Len(s) + Len(t) + Len(u)
         /\ \A i \in 1 .. Len(s) : x[i] = s[i]
         /\ \A i \in 1 .. Len(t) : x[Len(s) + i] = t[i]
         /\ \A i \in 1 .. Len(u) : x[Len(s) + Len(t) + i] = u[i]
  <1>1. PICK y : y = s \o t
    OBVIOUS
  <1>2. /\ y \in Seq(Nat) /\ Len(y) = Len(s) + Len(t)
        /\ \A i \in 1 .. Len(s) : y[i] = s[i]
        /\ \A i \in 1 .. Len(t) : y[Len(s) + i] = t[i]
    BY <1>1, Cat, ZenonT(60)
  <1>3. x = y \o u
    BY <1>1
  <1>4. /\ x \in Seq(Nat) /\ Len(x) = Len(y) + Len(u)
        /\ \A i \in 1 .. Len(y) : x[i] = y[i]
        /\ \A i \in 1 .. Len(u) : x[Len(y) + i] = u[i]
    <2>1. y \in Seq(Nat)
      BY <1>2
    <2>2. /\ y \o u \in Seq(Nat) /\ Len(y \o u) = Len(y) + Len(u)
          /\ \A i \in 1 .. Len(y) : (y \o u)[i] = y[i]
          /\ \A i \in 1 .. Len(u) : (y \o u)[Len(y) + i] = u[i]
      BY <2>1, Cat
    <2>3. QED
      BY <1>3, <2>2
  <1>5. Len(s) \in Nat /\ Len(t) \in Nat /\ Len(u) \in Nat
    BY LenProperties
  <1>6. ASSUME NEW i \in 1 .. Len(t) PROVE x[Len(s) + i] = t[i]
    <2>1. Len(s) + i \in 1 .. Len(y)
      BY <1>2, <1>5
    <2>2. QED
      BY <1>2, <1>4, <2>1
  <1>7. \A i \in 1 .. Len(s) : i \in 1 .. Len(y)
    BY <1>2, <1>5
  <1>8. \A i \in 1 .. Len(s) : x[i] = s[i]
    BY <1>2, <1>4, <1>7, Zenon
  <1>9. Len(x) = Len(s) + Len(t) + Len(u)
    BY <1>2, <1>4
  <1>10. \A i \in 1 .. Len(u) : x[Len(s) + Len(t) + i] = u[i]
    BY <1>2, <1>4, Zenon
  <1>11. QED
    BY <1>4, <1>6, <1>8, <1>9, <1>10, Zenon

\* Octets of address and control fields that are there.
AcLen(p) == IF p.acfc THEN 0 ELSE 2

\* The PPP header, octet by octet.
LEMMA PppSeq ==
  ASSUME NEW p \in Payload
  PROVE  /\ PppOctets(p) \in Seq(Nat)
         /\ Len(PppOctets(p)) = AcLen(p) + (IF p.pfc THEN 1 ELSE 2)
         /\ ~p.acfc => PppOctets(p)[1] = 255 /\ PppOctets(p)[2] = 3
         /\ p.pfc => PppOctets(p)[AcLen(p) + 1] = p.proto
         /\ ~p.pfc => /\ PppOctets(p)[AcLen(p) + 1] = p.proto \div 256
                      /\ 256 * PppOctets(p)[AcLen(p) + 1] + PppOctets(p)[AcLen(p) + 2]
                           = p.proto
  <1>1. p.acfc \in BOOLEAN /\ p.pfc \in BOOLEAN /\ p.proto \in Nat
    BY DEF Payload
  <1>2. PICK a : a = When(~p.acfc, <<255, 3>>)
    OBVIOUS
  <1>3. PICK c : c = IF p.pfc THEN <<p.proto>> ELSE Octets(p.proto)
    OBVIOUS
  <1>4. /\ a \in Seq(Nat) /\ Len(a) = AcLen(p)
        /\ ~p.acfc => a[1] = 255 /\ a[2] = 3
    <2>1. CASE p.acfc
      <3>1. a = << >> /\ AcLen(p) = 0
        BY <1>2, <2>1 DEF When, AcLen
      <3>2. QED
        BY <2>1, <3>1
    <2>2. CASE ~p.acfc
      <3>1. a = <<255, 3>> /\ AcLen(p) = 2
        BY <1>2, <2>2 DEF When, AcLen
      <3>2. QED
        BY <3>1
    <2>3. QED
      BY <2>1, <2>2
  <1>5. /\ c \in Seq(Nat) /\ Len(c) = IF p.pfc THEN 1 ELSE 2
        /\ p.pfc => c[1] = p.proto
        /\ ~p.pfc => c[1] = p.proto \div 256 /\ 256 * c[1] + c[2] = p.proto
    <2>1. CASE p.pfc
      BY <1>1, <1>3, <2>1
    <2>2. CASE ~p.pfc
      BY <1>1, <1>3, <2>2, OctetsSeq, ZenonT(60)
    <2>3. QED
      BY <2>1, <2>2
  <1>6. PICK x : x = a \o c
    OBVIOUS
  <1>7. PppOctets(p) = x
    BY <1>2, <1>3, <1>6 DEF PppOctets
  <1>8. /\ x \in Seq(Nat) /\ Len(x) = Len(a) + Len(c)
        /\ \A i \in 1 .. Len(a) : x[i] = a[i]
        /\ \A i \in 1 .. Len(c) : x[Len(a) + i] = c[i]
    <2>1. a \in Seq(Nat) /\ c \in Seq(Nat)
      BY <1>4, <1>5
    <2>2. QED
      BY <1>6, <2>1, Cat, Zenon
  <1>9. ~p.acfc => x[1] = 255 /\ x[2] = 3
    BY <1>4, <1>8 DEF AcLen
  <1>10. /\ x[AcLen(p) + 1] = c[1]
         /\ ~p.pfc => x[AcLen(p) + 2] = c[2]
    <2>1. 1 \in 1 .. Len(c) /\ (~p.pfc => 2 \in 1 .. Len(c))
      <3>1. CASE p.pfc
        <4>1. Len(c) = 1
          BY <1>5, <3>1
        <4>2. QED
          BY <3>1, <4>1
      <3>2. CASE ~p.pfc
        <4>1. Len(c) = 2
          BY <1>5, <3>2
        <4>2. QED
          BY <4>1
      <3>3. QED
        BY <3>1, <3>2
    <2>2. QED
      BY <1>4, <1>8, <2>1
  <1>11. QED
    BY <1>4, <1>5, <1>7, <1>8, <1>9, <1>10

\* The first octet of the inner packet.
FirstOctet(p) == IF p.inner = "v4" THEN 69 ELSE IF p.inner = "v4options" THEN 79
                 ELSE IF p.inner = "v6" THEN 96 ELSE 16

\* The inner packet has its first octet and fewer than an offset can skip.
LEMMA InnerSeq ==
  ASSUME NEW p
  PROVE  /\ InnerOctets(p) \in Seq(Nat)
         /\ Len(InnerOctets(p)) \in Nat /\ Len(InnerOctets(p)) >= 4 /\ Len(InnerOctets(p)) <= 44
         /\ InnerOctets(p)[1] = FirstOctet(p)
  <1>1. ASSUME NEW o \in Nat, NEW n \in {3, 23, 43}
        PROVE  /\ <<o>> \o Zeros(n) \in Seq(Nat) /\ Len(<<o>> \o Zeros(n)) = n + 1
               /\ (<<o>> \o Zeros(n))[1] = o
    <2>1. <<o>> \in Seq(Nat) /\ Len(<<o>>) = 1 /\ <<o>>[1] = o /\ n \in Nat
      OBVIOUS
    <2>2. Zeros(n) \in Seq(Nat) /\ Len(Zeros(n)) = n
      BY <2>1, ZerosSeq
    <2>3. PICK a, z, x : a = <<o>> /\ z = Zeros(n) /\ x = a \o z
      OBVIOUS
    <2>4. a \in Seq(Nat) /\ z \in Seq(Nat)
      BY <2>1, <2>2, <2>3
    <2>5. x \in Seq(Nat) /\ Len(x) = Len(a) + Len(z) /\ \A i \in 1 .. Len(a) : x[i] = a[i]
      <3>1. /\ a \o z \in Seq(Nat) /\ Len(a \o z) = Len(a) + Len(z)
            /\ \A i \in 1 .. Len(a) : (a \o z)[i] = a[i]
        BY <2>4, Cat
      <3>2. x = a \o z
        BY <2>3
      <3>3. QED
        BY <3>1, <3>2
    <2>6. x \in Seq(Nat) /\ Len(x) = n + 1 /\ x[1] = o
      BY <2>1, <2>2, <2>3, <2>5
    <2>7. QED
      BY <2>3, <2>6
  <1>2. CASE p.inner = "v4"
    <2>1. InnerOctets(p) = <<69>> \o Zeros(23) /\ FirstOctet(p) = 69
      BY <1>2 DEF InnerOctets, FirstOctet
    <2>2. /\ <<69>> \o Zeros(23) \in Seq(Nat) /\ Len(<<69>> \o Zeros(23)) = 24
          /\ (<<69>> \o Zeros(23))[1] = 69
      BY <1>1
    <2>3. QED
      BY <2>1, <2>2
  <1>3. CASE p.inner = "v4options"
    <2>1. InnerOctets(p) = <<79>> \o Zeros(23) /\ FirstOctet(p) = 79
      BY <1>3 DEF InnerOctets, FirstOctet
    <2>2. /\ <<79>> \o Zeros(23) \in Seq(Nat) /\ Len(<<79>> \o Zeros(23)) = 24
          /\ (<<79>> \o Zeros(23))[1] = 79
      BY <1>1
    <2>3. QED
      BY <2>1, <2>2
  <1>4. CASE p.inner = "v6"
    <2>1. InnerOctets(p) = <<96>> \o Zeros(43) /\ FirstOctet(p) = 96
      BY <1>4 DEF InnerOctets, FirstOctet
    <2>2. /\ <<96>> \o Zeros(43) \in Seq(Nat) /\ Len(<<96>> \o Zeros(43)) = 44
          /\ (<<96>> \o Zeros(43))[1] = 96
      BY <1>1
    <2>3. QED
      BY <2>1, <2>2
  <1>5. CASE p.inner \notin {"v4", "v4options", "v6"}
    <2>1. InnerOctets(p) = <<16>> \o Zeros(3) /\ FirstOctet(p) = 16
      BY <1>5 DEF InnerOctets, FirstOctet
    <2>2. /\ <<16>> \o Zeros(3) \in Seq(Nat) /\ Len(<<16>> \o Zeros(3)) = 4
          /\ (<<16>> \o Zeros(3))[1] = 16
      BY <1>1
    <2>3. QED
      BY <2>1, <2>2
  <1>6. QED
    BY <1>2, <1>3, <1>4, <1>5

\* What a sample may be.
PayloadOK(p) ==
  /\ p \in Payload
  /\ p.pfc => (p.proto < 256 /\ p.proto % 2 = 1)
  /\ (p.proto \div 256) % 2 = 0

\* The parts of a frame are those of its sample.
LEMMA FrameParts ==
  ASSUME NEW f, FrameOK(f)
  PROVE  /\ f.outer \in Outer /\ f.header \in Header /\ PayloadOK(f.payload)
         /\ f.header.offset <= OffsetCap \/ f.header.offset >= 64
         /\ f.len \in CutLens(f)
  <1>1. PICK s \in Samples : \E n \in CutLens(s) : f = Cut(s, n)
    BY DEF FrameOK
  <1>2. PICK n \in CutLens(s) : f = Cut(s, n)
    BY <1>1
  <1>3. f.outer = s.outer /\ f.header = s.header /\ f.payload = s.payload /\ f.len = n
    BY <1>2 DEF Cut
  <1>4. CutLens(f) = CutLens(s)
    BY <1>3 DEF CutLens, L2tpOctets
  <1>5. QED
    BY <1>3, <1>4, LayoutAssumption DEF PayloadOK, FarOffset

\* Where the headers are.
LEMMA Positions ==
  ASSUME NEW o \in Outer
  PROVE  /\ o.tags \in {0, 1, 2} /\ IpPos(o) = 14 + 4 * o.tags
         /\ UdpPos(o) = IpPos(o) + (IF o.type = "ip6" THEN 40 ELSE 4 * o.ihl)
         /\ o.ihl \in 0 .. 15
         /\ L2tpPos(o) = UdpPos(o) + 8
         /\ IpPos(o) \in Nat /\ UdpPos(o) \in Nat /\ L2tpPos(o) \in Nat
  <1>1. o.tags \in 0 .. 2 /\ o.ihl \in 0 .. 15
    BY DEF Outer
  <1>2. QED
    BY <1>1 DEF IpPos, UdpPos, L2tpPos

\* The octets of a sample: header, PPP header, inner packet.
LEMMA WholeSeq ==
  ASSUME NEW f, f.header \in Header, f.payload \in Payload
  PROVE  LET x == L2tpOctets(f)
             h == HeaderOctets(f.header)
             p == PppOctets(f.payload)
             i == InnerOctets(f.payload)
         IN /\ x \in Seq(Nat) /\ Len(x) = Len(h) + Len(p) + Len(i)
            /\ \A k \in 1 .. Len(h) : x[k] = h[k]
            /\ \A k \in 1 .. Len(p) : x[Len(h) + k] = p[k]
            /\ \A k \in 1 .. Len(i) : x[Len(h) + Len(p) + k] = i[k]
  <1>1. PICK h, p, i, x : /\ h = HeaderOctets(f.header) /\ p = PppOctets(f.payload)
                          /\ i = InnerOctets(f.payload) /\ x = h \o p \o i
    OBVIOUS
  <1>2. h \in Seq(Nat) /\ p \in Seq(Nat) /\ i \in Seq(Nat)
    BY <1>1, HeaderSeq, PppSeq, InnerSeq
  <1>3. x = h \o p \o i
    BY <1>1
  <1>4. /\ x \in Seq(Nat) /\ Len(x) = Len(h) + Len(p) + Len(i)
        /\ \A k \in 1 .. Len(h) : x[k] = h[k]
        /\ \A k \in 1 .. Len(p) : x[Len(h) + k] = p[k]
        /\ \A k \in 1 .. Len(i) : x[Len(h) + Len(p) + k] = i[k]
    BY <1>2, <1>3, CatThree, SMTT(60)
  <1>5. L2tpOctets(f) = x
    BY <1>1 DEF L2tpOctets
  <1>6. QED
    BY <1>1, <1>4, <1>5, Zenon

\* What the parsers see of them.
LEMMA L2tpSeq ==
  ASSUME NEW f, FrameOK(f)
  PROVE  /\ L2tp(f) \in Seq(Nat)
         /\ Len(L2tp(f)) = IF f.len < L2tpPos(f.outer) THEN 0 ELSE f.len - L2tpPos(f.outer)
         /\ Len(L2tp(f)) \in Nat /\ Len(L2tp(f)) <= Len(L2tpOctets(f))
         /\ \A k \in 1 .. Len(L2tp(f)) : L2tp(f)[k] = L2tpOctets(f)[k]
  <1>1. /\ f.outer \in Outer /\ f.header \in Header /\ f.payload \in Payload
        /\ f.len \in CutLens(f)
    BY FrameParts DEF PayloadOK
  <1>2. PICK x : x = L2tpOctets(f)
    OBVIOUS
  <1>3. x \in Seq(Nat) /\ Len(x) \in Nat
    <2>1. x \in Seq(Nat)
      BY <1>1, <1>2, WholeSeq
    <2>2. QED
      BY <2>1, LenProperties
  <1>4. PICK l : l = L2tpPos(f.outer)
    OBVIOUS
  <1>5. l \in Nat /\ f.len \in 0 .. l + Len(x)
    BY <1>1, <1>2, <1>4, Positions DEF CutLens
  <1>6. PICK n : n = IF f.len < l THEN 0 ELSE f.len - l
    OBVIOUS
  <1>7. n \in Nat /\ n <= Len(x) /\ n \in Int /\ 1 \in Int
    BY <1>3, <1>5, <1>6
  <1>8. L2tp(f) = SubSeq(x, 1, n)
    BY <1>2, <1>4, <1>6 DEF L2tp
  <1>9. \A k \in 1 .. n : x[k] \in Nat
    <2>1. \A k \in 1 .. n : k \in 1 .. Len(x)
      BY <1>3, <1>7
    <2>2. QED
      BY <1>3, <2>1, ElementOfSeq
  <1>10. /\ SubSeq(x, 1, n) \in Seq(Nat)
         /\ Len(SubSeq(x, 1, n)) = IF 1 <= n THEN n - 1 + 1 ELSE 0
         /\ \A k \in 1 .. n - 1 + 1 : SubSeq(x, 1, n)[k] = x[1 + k - 1]
    BY <1>7, <1>9, SubSeqProperties
  <1>11. Len(SubSeq(x, 1, n)) = n
    BY <1>7, <1>10
  <1>12. \A k \in 1 .. n : SubSeq(x, 1, n)[k] = x[k]
    <2>1. n - 1 + 1 = n /\ \A k \in 1 .. n : 1 + k - 1 = k
      BY <1>7
    <2>2. QED
      BY <1>10, <2>1
  <1>13. QED
    BY <1>2, <1>4, <1>6, <1>7, <1>8, <1>10, <1>11, <1>12

-----------------------------------------------------------------------------
(* What the walks find *)

\* The flag bits come out as they were put in.
LEMMA FlagBits ==
  ASSUME NEW h \in Header
  PROVE  /\ Flags(h) % 16 = h.ver
         /\ HasBit(Flags(h), HDR_T) <=> h.T
         /\ HasBit(Flags(h), HDR_L) <=> h.L
         /\ HasBit(Flags(h), HDR_S) <=> h.S
         /\ HasBit(Flags(h), HDR_O) <=> h.O
  <1> DEFINE n(b) == IF b THEN 1 ELSE 0
  <1>1. /\ h.T \in BOOLEAN /\ h.L \in BOOLEAN /\ h.S \in BOOLEAN /\ h.O \in BOOLEAN
        /\ h.ver \in 0 .. 15
    BY DEF Header
  <1>2. PICK t, l, s, o : t = n(h.T) /\ l = n(h.L) /\ s = n(h.S) /\ o = n(h.O)
    OBVIOUS
  <1>3. t \in 0 .. 1 /\ l \in 0 .. 1 /\ s \in 0 .. 1 /\ o \in 0 .. 1
    BY <1>2
  <1>4. PICK v : v = Flags(h)
    OBVIOUS
  <1>5. v = 32768 * t + 16384 * l + 2048 * s + 512 * o + h.ver
    BY <1>2, <1>4 DEF Flags, Bit
  <1>6. v \in Nat
    BY <1>1, <1>3, <1>5
  <1>7. v % 16 = h.ver
    BY <1>1, <1>3, <1>5
  <1>8. (v \div 32768) % 2 = t
    BY <1>1, <1>3, <1>5
  <1>9. (v \div 16384) % 2 = l
    BY <1>1, <1>3, <1>5
  <1>10. (v \div 2048) % 2 = s
    BY <1>1, <1>3, <1>5, SMTT(60)
  <1>11. (v \div 512) % 2 = o
    BY <1>1, <1>3, <1>5
  <1>12. QED
    BY <1>1, <1>2, <1>4, <1>7, <1>8, <1>9, <1>10, <1>11
       DEF HasBit, HDR_T, HDR_L, HDR_S, HDR_O

\* An octet is a number, also past the end.
LEMMA AtNat ==
  ASSUME NEW b \in Seq(Nat), NEW i \in Nat
  PROVE  At(b, i) \in Nat /\ U16(b, i) \in Nat
  <1>1. ASSUME NEW k \in Nat PROVE At(b, k) \in Nat
    <2>1. CASE k < Len(b)
      <3>1. k + 1 \in 1 .. Len(b)
        BY <2>1, LenProperties
      <3>2. b[k + 1] \in Nat
        BY <3>1, ElementOfSeq
      <3>3. QED
        BY <2>1, <3>2 DEF At
    <2>2. CASE ~(k < Len(b))
      BY <2>2 DEF At
    <2>3. QED
      BY <2>1, <2>2
  <1>2. At(b, i) \in Nat /\ At(b, i + 1) \in Nat
    BY <1>1, SMTT(60)
  <1>3. QED
    BY <1>2 DEF U16

\* An octet of the frame is that octet of its sample.
LEMMA AtFrame ==
  ASSUME NEW f, FrameOK(f), NEW i \in Nat, i < Len(L2tp(f))
  PROVE  At(L2tp(f), i) = L2tpOctets(f)[i + 1]
  <1>1. i + 1 \in 1 .. Len(L2tp(f))
    BY L2tpSeq
  <1>2. L2tp(f)[i + 1] = L2tpOctets(f)[i + 1]
    BY <1>1, L2tpSeq
  <1>3. QED
    BY <1>2 DEF At

\* The flags are read from the first two octets.
LEMMA FlagsRead ==
  ASSUME NEW f, FrameOK(f), Len(L2tp(f)) >= 2
  PROVE  U16(L2tp(f), 0) = Flags(f.header)
  <1>1. f.header \in Header /\ f.payload \in Payload
    BY FrameParts DEF PayloadOK
  <1>2. At(L2tp(f), 0) = L2tpOctets(f)[1] /\ At(L2tp(f), 1) = L2tpOctets(f)[2]
    <2>1. Len(L2tp(f)) \in Nat /\ 0 < Len(L2tp(f)) /\ 1 < Len(L2tp(f))
      BY L2tpSeq
    <2>2. 0 + 1 = 1 /\ 1 + 1 = 2
      OBVIOUS
    <2>3. At(L2tp(f), 0) = L2tpOctets(f)[0 + 1] /\ At(L2tp(f), 1) = L2tpOctets(f)[1 + 1]
      BY <2>1, AtFrame
    <2>4. QED
      BY <2>2, <2>3
  <1>3. PICK x, h : x = L2tpOctets(f) /\ h = HeaderOctets(f.header)
    OBVIOUS
  <1>4. /\ 256 * h[1] + h[2] = Flags(f.header)
        /\ Len(h) \in Nat /\ Len(h) >= 2
    <2>1. /\ h \in Seq(Nat) /\ 256 * h[1] + h[2] = Flags(f.header)
          /\ Len(h) = FrontLen(f.header) + (IF f.header.O THEN Len(Pad(f.header)) ELSE 0)
      BY <1>1, <1>3, HeaderSeq, SMTT(60)
    <2>2. FrontLen(f.header) \in Nat /\ FrontLen(f.header) >= 6
      BY DEF FrontLen, FixedLen
    <2>3. Len(Pad(f.header)) \in Nat
      BY <1>1, PadSeq, LenProperties
    <2>4. QED
      BY <2>1, <2>2, <2>3
  <1>5. \A k \in 1 .. Len(h) : x[k] = h[k]
    BY <1>1, <1>3, WholeSeq
  <1>6. x[1] = h[1] /\ x[2] = h[2]
    BY <1>4, <1>5
  <1>7. 0 + 1 = 1
    OBVIOUS
  <1>8. QED
    BY <1>2, <1>3, <1>4, <1>6, <1>7 DEF U16

\* Sizes of the parts, as numbers.
LEMMA Sizes ==
  ASSUME NEW f, FrameOK(f)
  PROVE  /\ FrontLen(f.header) \in Nat /\ FrontLen(f.header) >= FixedLen(f.header)
         /\ FixedLen(f.header) \in 6 .. 8 /\ f.header.offset \in Nat
         /\ PppStart(f.header) = FrontLen(f.header)
                                   + (IF f.header.O THEN 2 + f.header.offset ELSE 0)
         /\ PppStart(f.header) \in Nat
         /\ Len(PppOctets(f.payload)) \in Nat /\ Len(PppOctets(f.payload)) >= 1 /\ Len(PppOctets(f.payload)) <= 4
         /\ Len(HeaderOctets(f.header)) \in Nat
         /\ f.header.O => Len(HeaderOctets(f.header)) >= FrontLen(f.header) + 2
         /\ Len(HeaderOctets(f.header)) >= FrontLen(f.header)
  <1>1. f.header \in Header /\ f.payload \in Payload
    BY FrameParts DEF PayloadOK
  <1>2. f.header.offset \in Nat /\ OffsetCap \in Nat
    BY <1>1, LayoutAssumption DEF Header
  <1>3. /\ FrontLen(f.header) \in Nat /\ FrontLen(f.header) >= FixedLen(f.header)
        /\ FixedLen(f.header) \in 6 .. 8
    BY DEF FrontLen, FixedLen
  <1>4. PppStart(f.header) = FrontLen(f.header)
                               + (IF f.header.O THEN 2 + f.header.offset ELSE 0)
    BY DEF PppStart, FrontLen
  <1>5. Len(PppOctets(f.payload)) \in Nat /\ Len(PppOctets(f.payload)) >= 1 /\ Len(PppOctets(f.payload)) <= 4
    <2>1. Len(PppOctets(f.payload)) = AcLen(f.payload) + (IF f.payload.pfc THEN 1 ELSE 2)
      BY <1>1, PppSeq
    <2>2. QED
      BY <2>1 DEF AcLen
  <1>6. /\ Len(HeaderOctets(f.header))
             = FrontLen(f.header) + (IF f.header.O THEN Len(Pad(f.header)) ELSE 0)
        /\ Len(Pad(f.header)) = 2 + (IF f.header.offset > OffsetCap THEN 0 ELSE f.header.offset)
    BY <1>1, HeaderSeq, PadSeq, ZenonT(60)
  <1>7. QED
    BY <1>2, <1>3, <1>4, <1>5, <1>6, SMTT(60)

\* The offset size is read after the octets before it.
LEMMA OffsetRead ==
  ASSUME NEW f, FrameOK(f), f.header.O, Len(L2tp(f)) >= FrontLen(f.header) + 2
  PROVE  U16(L2tp(f), FrontLen(f.header)) = f.header.offset
  <1>1. f.header \in Header /\ f.payload \in Payload
    BY FrameParts DEF PayloadOK
  <1>2. PICK x, h, n : x = L2tpOctets(f) /\ h = HeaderOctets(f.header) /\ n = FrontLen(f.header)
    OBVIOUS
  <1>3. n \in Nat /\ Len(h) \in Nat /\ Len(h) >= n + 2 /\ n + 1 \in Nat
    BY <1>2, Sizes
  <1>4. 256 * h[n + 1] + h[n + 2] = f.header.offset
    BY <1>1, <1>2, HeaderSeq
  <1>5. At(L2tp(f), n) = x[n + 1] /\ At(L2tp(f), n + 1) = x[n + 2]
    <2>1. n < Len(L2tp(f)) /\ n + 1 < Len(L2tp(f)) /\ (n + 1) + 1 = n + 2
      BY <1>2, <1>3, L2tpSeq, SMTT(60)
    <2>2. At(L2tp(f), n) = L2tpOctets(f)[n + 1]
      BY <1>3, <2>1, AtFrame
    <2>3. At(L2tp(f), n + 1) = L2tpOctets(f)[(n + 1) + 1]
      BY <1>3, <2>1, AtFrame
    <2>4. QED
      BY <1>2, <2>1, <2>2, <2>3
  <1>6. \A k \in 1 .. Len(h) : x[k] = h[k]
    BY <1>1, <1>2, WholeSeq
  <1>7. n + 1 \in 1 .. Len(h) /\ n + 2 \in 1 .. Len(h)
    BY <1>3
  <1>8. x[n + 1] = h[n + 1] /\ x[n + 2] = h[n + 2]
    BY <1>6, <1>7
  <1>9. QED
    BY <1>2, <1>4, <1>5, <1>8 DEF U16

\* A frame that reaches past its PPP header has its whole pad.
LEMMA HeaderWhole ==
  ASSUME NEW f, FrameOK(f), Len(L2tp(f)) >= PppStart(f.header) + 4
  PROVE  Len(HeaderOctets(f.header)) = PppStart(f.header)
  <1>1. f.header \in Header /\ f.payload \in Payload
    BY FrameParts DEF PayloadOK
  <1>2. f.header.offset \in Nat /\ OffsetCap \in Nat
    BY <1>1, LayoutAssumption DEF Header
  <1>3. /\ Len(HeaderOctets(f.header))
             = FrontLen(f.header) + (IF f.header.O THEN Len(Pad(f.header)) ELSE 0)
        /\ Len(Pad(f.header)) = 2 + (IF f.header.offset > OffsetCap THEN 0 ELSE f.header.offset)
    BY <1>1, HeaderSeq, PadSeq, ZenonT(60)
  <1>4. /\ Len(L2tp(f)) <= Len(HeaderOctets(f.header)) + Len(PppOctets(f.payload))
                             + Len(InnerOctets(f.payload))
        /\ Len(L2tp(f)) \in Nat
    BY <1>1, L2tpSeq, WholeSeq
  <1>5. Len(InnerOctets(f.payload)) \in Nat /\ Len(InnerOctets(f.payload)) <= 44
    BY InnerSeq
  <1>6. f.header.offset <= OffsetCap \/ f.header.offset >= 64
    BY FrameParts
  <1>7. /\ PppStart(f.header) = FrontLen(f.header)
                                  + (IF f.header.O THEN 2 + f.header.offset ELSE 0)
        /\ Len(PppOctets(f.payload)) \in Nat /\ Len(PppOctets(f.payload)) >= 1 /\ Len(PppOctets(f.payload)) <= 4 /\ FrontLen(f.header) \in Nat
    BY Sizes
  <1>8. PICK front, off, pad, hdr, ppp, inner, have :
          /\ front = FrontLen(f.header) /\ off = f.header.offset
          /\ pad = Len(Pad(f.header)) /\ hdr = Len(HeaderOctets(f.header))
          /\ ppp = Len(PppOctets(f.payload)) /\ inner = Len(InnerOctets(f.payload))
          /\ have = Len(L2tp(f))
    OBVIOUS
  <1>9. /\ front \in Nat /\ off \in Nat /\ have \in Nat
        /\ ppp \in Nat /\ ppp <= 4 /\ inner \in Nat /\ inner <= 44
        /\ pad = 2 + (IF off > OffsetCap THEN 0 ELSE off)
        /\ hdr = front + (IF f.header.O THEN pad ELSE 0)
        /\ have <= hdr + ppp + inner
        /\ off <= OffsetCap \/ off >= 64
        /\ have >= (front + (IF f.header.O THEN 2 + off ELSE 0)) + 4
    <2>1. front \in Nat /\ off \in Nat /\ have \in Nat /\ ppp \in Nat /\ ppp <= 4
      BY <1>2, <1>4, <1>7, <1>8
    <2>2. inner \in Nat /\ inner <= 44
      BY <1>5, <1>8
    <2>3. /\ pad = 2 + (IF off > OffsetCap THEN 0 ELSE off)
          /\ hdr = front + (IF f.header.O THEN pad ELSE 0)
      BY <1>3, <1>8
    <2>4. have <= hdr + ppp + inner
      BY <1>4, <1>8
    <2>5. off <= OffsetCap \/ off >= 64
      BY <1>6, <1>8
    <2>6. have >= (front + (IF f.header.O THEN 2 + off ELSE 0)) + 4
      BY <1>7, <1>8
    <2>7. QED
      BY <2>1, <2>2, <2>3, <2>4, <2>5, <2>6
  <1>10. hdr = front + (IF f.header.O THEN 2 + off ELSE 0)
    BY <1>2, <1>9
  <1>11. QED
    BY <1>7, <1>8, <1>10

\* The octets from the PPP header on.
LEMMA AtPpp ==
  ASSUME NEW f, FrameOK(f), Len(L2tp(f)) >= PppStart(f.header) + 4
  PROVE  LET b == L2tp(f)
             c == PppStart(f.header)
             p == PppOctets(f.payload)
         IN /\ \A k \in 1 .. Len(p) : At(b, c + (k - 1)) = p[k]
            /\ c + Len(p) < Len(b) => At(b, c + Len(p)) = FirstOctet(f.payload)
  <1>1. f.header \in Header /\ f.payload \in Payload
    BY FrameParts DEF PayloadOK
  <1>2. PICK x, p, i, c, b : /\ x = L2tpOctets(f) /\ p = PppOctets(f.payload)
                             /\ i = InnerOctets(f.payload) /\ c = PppStart(f.header)
                             /\ b = L2tp(f)
    OBVIOUS
  <1>3. c \in Nat /\ Len(p) \in Nat /\ Len(p) <= 4 /\ Len(b) \in Nat /\ Len(b) >= c + 4
    BY <1>2, Sizes, L2tpSeq
  <1>4. Len(i) \in Nat /\ Len(i) >= 4 /\ i[1] = FirstOctet(f.payload)
    BY <1>2, InnerSeq
  <1>5. Len(HeaderOctets(f.header)) = c
    BY <1>2, HeaderWhole
  <1>6. /\ \A k \in 1 .. Len(p) : x[c + k] = p[k]
        /\ \A k \in 1 .. Len(i) : x[c + Len(p) + k] = i[k]
    <2>1. /\ \A k \in 1 .. Len(p) : x[Len(HeaderOctets(f.header)) + k] = p[k]
          /\ \A k \in 1 .. Len(i) : x[Len(HeaderOctets(f.header)) + Len(p) + k] = i[k]
      BY <1>1, <1>2, WholeSeq
    <2>2. QED
      BY <1>5, <2>1
  <1>7. ASSUME NEW k \in 1 .. Len(p) PROVE At(b, c + (k - 1)) = p[k]
    <2>1. c + (k - 1) \in Nat /\ c + (k - 1) < Len(b) /\ (c + (k - 1)) + 1 = c + k
      <3>1. PICK n, m : n = Len(p) /\ m = Len(b)
        OBVIOUS
      <3>2. n \in Nat /\ n <= 4 /\ m \in Nat /\ m >= c + 4 /\ c \in Nat /\ k \in 1 .. n
        BY <1>3, <1>7, <3>1
      <3>3. QED
        BY <3>1, <3>2
    <2>2. At(b, c + (k - 1)) = x[(c + (k - 1)) + 1]
      BY <1>2, <2>1, AtFrame
    <2>3. QED
      BY <1>6, <2>1, <2>2
  <1>8. ASSUME c + Len(p) < Len(b) PROVE At(b, c + Len(p)) = FirstOctet(f.payload)
    <2>1. c + Len(p) \in Nat /\ 1 \in 1 .. Len(i)
      BY <1>3, <1>4
    <2>2. At(b, c + Len(p)) = x[(c + Len(p)) + 1]
      BY <1>2, <1>8, <2>1, AtFrame
    <2>3. QED
      BY <1>4, <1>6, <2>1, <2>2
  <1>9. QED
    BY <1>2, <1>7, <1>8

\* l2tvpp_parse_hdr's answer, from the fields of the frame.
HdrRc(f) ==
  IF Len(L2tp(f)) < 6 THEN "TOO_SHORT"
  ELSE IF f.header.ver # 2 THEN "NOT_V2"
  ELSE IF f.header.T THEN "CONTROL"
  ELSE IF Len(L2tp(f)) < FixedLen(f.header) THEN "TOO_SHORT" ELSE "DATA"

\* l2tvpp_parse_hdr finds what is there and reads no further than the buffer.
LEMMA ParseFrame ==
  ASSUME NEW f, FrameOK(f)
  PROVE  LET r == ParseHdr(L2tp(f))
         IN /\ r.rc = HdrRc(f)
            /\ r.read \in Nat /\ r.read <= Len(L2tp(f))
            /\ HdrRc(f) = "DATA" => /\ r.flags = Flags(f.header)
                                    /\ r.off = FixedLen(f.header)
                                    /\ r.read = FixedLen(f.header)
                                    /\ FixedLen(f.header) <= Len(L2tp(f))
  <1>1. f.header \in Header
    BY FrameParts
  <1>2. PICK b, n, h, v : b = L2tp(f) /\ n = Len(b) /\ h = f.header /\ v = U16(b, 0)
    OBVIOUS
  <1>3. n \in Nat
    BY <1>2, L2tpSeq
  <1>4. CASE n < 6
    <2>1. ParseHdr(b) = [rc |-> "TOO_SHORT", flags |-> v, off |-> 0, read |-> 0]
      BY <1>2, <1>4 DEF ParseHdr
    <2>2. HdrRc(f) = "TOO_SHORT"
      BY <1>2, <1>4 DEF HdrRc
    <2>3. QED
      BY <1>2, <1>3, <2>1, <2>2
  <1>5. CASE ~(n < 6)
    <2>1. v = Flags(h)
      BY <1>2, <1>3, <1>5, FlagsRead
    <2>2. v % 16 = h.ver /\ (HasBit(v, HDR_T) <=> h.T) /\ (HasBit(v, HDR_L) <=> h.L)
      BY <1>1, <1>2, <2>1, FlagBits
    <2>3. FixedLen(h) = IF h.L THEN 8 ELSE 6
      BY DEF FixedLen
    <2>4. CASE h.ver # 2
      <3>1. ParseHdr(b) = [rc |-> "NOT_V2", flags |-> v, off |-> 0, read |-> 2]
        BY <1>2, <1>5, <2>2, <2>4 DEF ParseHdr
      <3>2. HdrRc(f) = "NOT_V2"
        BY <1>2, <1>5, <2>4 DEF HdrRc
      <3>3. QED
        BY <1>2, <1>3, <1>5, <3>1, <3>2
    <2>5. CASE h.ver = 2 /\ h.T
      <3>1. ParseHdr(b) = [rc |-> "CONTROL", flags |-> v, off |-> 0, read |-> 2]
        BY <1>2, <1>5, <2>2, <2>5 DEF ParseHdr
      <3>2. HdrRc(f) = "CONTROL"
        BY <1>2, <1>5, <2>5 DEF HdrRc
      <3>3. QED
        BY <1>2, <1>3, <1>5, <3>1, <3>2
    <2>6. CASE h.ver = 2 /\ ~h.T /\ h.L /\ n < 8
      <3>1. ParseHdr(b) = [rc |-> "TOO_SHORT", flags |-> v, off |-> 0, read |-> 2]
        BY <1>2, <1>5, <2>2, <2>6 DEF ParseHdr
      <3>2. HdrRc(f) = "TOO_SHORT"
        BY <1>2, <1>5, <2>3, <2>6 DEF HdrRc
      <3>3. QED
        BY <1>2, <1>3, <1>5, <3>1, <3>2
    <2>7. CASE h.ver = 2 /\ ~h.T /\ ~(h.L /\ n < 8)
      <3>1. ParseHdr(b) = [rc |-> "DATA", flags |-> v, off |-> (IF h.L THEN 4 ELSE 2) + 4,
                           read |-> (IF h.L THEN 4 ELSE 2) + 4]
        BY <1>2, <1>5, <2>2, <2>7 DEF ParseHdr
      <3>2. (IF h.L THEN 4 ELSE 2) + 4 = FixedLen(h) /\ FixedLen(h) <= n
        BY <1>3, <1>5, <2>3, <2>7
      <3>3. HdrRc(f) = "DATA"
        BY <1>2, <1>3, <1>5, <2>3, <2>7, <3>2 DEF HdrRc
      <3>4. QED
        BY <1>2, <1>3, <2>1, <3>1, <3>2, <3>3
    <2>8. QED
      BY <2>4, <2>5, <2>6, <2>7
  <1>6. QED
    BY <1>4, <1>5

\* The cursor goes to the PPP header, if four octets of it are there.
LEMMA WalkFrame ==
  ASSUME NEW f, FrameOK(f), HdrRc(f) = "DATA"
  PROVE  LET b == L2tp(f)
             r == ParseHdr(b)
         IN /\ AfterSeq(r) = FrontLen(f.header)
            /\ PppInside(b, r) <=> Len(b) >= PppStart(f.header) + 4
            /\ PppInside(b, r) => Cursor(b, r) = PppStart(f.header)
            /\ HasBit(r.flags, HDR_O) <=> f.header.O
  <1>1. f.header \in Header
    BY FrameParts
  <1>2. PICK b, n, h, r, front : /\ b = L2tp(f) /\ n = Len(b) /\ h = f.header
                                 /\ r = ParseHdr(b) /\ front = FrontLen(h)
    OBVIOUS
  <1>3. r.flags = Flags(h) /\ r.off = FixedLen(h)
    BY <1>2, ParseFrame
  <1>4. (HasBit(r.flags, HDR_S) <=> h.S) /\ (HasBit(r.flags, HDR_O) <=> h.O)
    BY <1>1, <1>2, <1>3, FlagBits
  <1>5. AfterSeq(r) = front
    BY <1>2, <1>3, <1>4 DEF AfterSeq, FrontLen
  <1>6. /\ n \in Nat /\ front \in Nat /\ h.offset \in Nat
        /\ PppStart(h) = front + (IF h.O THEN 2 + h.offset ELSE 0)
    BY <1>2, Sizes, L2tpSeq
  <1>7. CASE ~h.O
    <2>1. Cursor(b, r) = front + 0
      BY <1>4, <1>5, <1>7 DEF Cursor
    <2>2. PppInside(b, r) <=> Cursor(b, r) + 4 <= n
      BY <1>2, <1>4, <1>7 DEF PppInside
    <2>3. PppStart(h) = front /\ Cursor(b, r) = front
      BY <1>6, <1>7, <2>1
    <2>4. PppInside(b, r) <=> n >= PppStart(h) + 4
      BY <1>6, <2>2, <2>3
    <2>5. QED
      BY <1>2, <1>4, <1>5, <2>3, <2>4
  <1>8. CASE h.O /\ front + 2 <= n
    <2>1. U16(b, front) = h.offset
      BY <1>2, <1>6, <1>8, OffsetRead
    <2>2. Cursor(b, r) = front + (2 + h.offset)
      BY <1>4, <1>5, <1>8, <2>1 DEF Cursor
    <2>3. Cursor(b, r) = PppStart(h)
      BY <1>6, <1>8, <2>2
    <2>4. PppInside(b, r) <=> Cursor(b, r) + 4 <= n
      BY <1>2, <1>4, <1>5, <1>8 DEF PppInside
    <2>5. PppInside(b, r) <=> n >= PppStart(h) + 4
      BY <1>6, <2>3, <2>4
    <2>6. QED
      BY <1>2, <1>4, <1>5, <2>3, <2>5
  <1>9. CASE h.O /\ ~(front + 2 <= n)
    <2>1. ~PppInside(b, r)
      BY <1>2, <1>4, <1>5, <1>9 DEF PppInside
    <2>2. ~(n >= PppStart(h) + 4)
      BY <1>6, <1>9
    <2>3. QED
      BY <1>2, <1>4, <1>5, <2>1, <2>2
  <1>10. QED
    BY <1>7, <1>8, <1>9

\* The PPP protocol and where the inner packet begins, whatever is compressed: a
\* protocol of one octet is not taken for an address field, nor the other way round.
LEMMA PppRead ==
  ASSUME NEW f, FrameOK(f), Len(L2tp(f)) >= PppStart(f.header) + 4
  PROVE  LET r == PppHeader(L2tp(f), PppStart(f.header))
         IN /\ r.proto = f.payload.proto
            /\ r.end = PppStart(f.header) + Len(PppOctets(f.payload))
  <1>1. PayloadOK(f.payload) /\ f.payload \in Payload
    BY FrameParts DEF PayloadOK
  <1>2. PICK b, c, p, q : /\ b = L2tp(f) /\ c = PppStart(f.header) /\ p = f.payload
                          /\ q = PppOctets(p)
    OBVIOUS
  <1>3. PICK n, m : n = Len(b) /\ m = Len(q)
    OBVIOUS
  <1>4. c \in Nat /\ n \in Nat /\ n >= c + 4 /\ m \in Nat
    BY <1>2, <1>3, Sizes, L2tpSeq
  <1>5. p.acfc \in BOOLEAN /\ p.pfc \in BOOLEAN /\ p.proto \in Nat
    BY <1>1, <1>2 DEF Payload
  <1>6. /\ m = AcLen(p) + (IF p.pfc THEN 1 ELSE 2)
        /\ ~p.acfc => q[1] = 255 /\ q[2] = 3
        /\ p.pfc => q[AcLen(p) + 1] = p.proto
        /\ ~p.pfc => /\ q[AcLen(p) + 1] = p.proto \div 256
                     /\ 256 * q[AcLen(p) + 1] + q[AcLen(p) + 2] = p.proto
    BY <1>1, <1>2, <1>3, PppSeq, SMTT(60)
  <1>7. /\ \A k \in 1 .. m : At(b, c + (k - 1)) = q[k]
        /\ c + m < n => At(b, c + m) = FirstOctet(p)
    BY <1>2, <1>3, AtPpp
  <1>8. /\ p.pfc => p.proto % 2 = 1
        /\ (p.proto \div 256) % 2 = 0
    BY <1>1, <1>2 DEF PayloadOK
  <1>9. FirstOctet(p) # 3
    BY DEF FirstOctet
  <1>10. CASE ~p.acfc /\ p.pfc
    <2>1. AcLen(p) = 2 /\ m = 3
      BY <1>6, <1>10 DEF AcLen
    <2>2. At(b, c) = 255 /\ At(b, c + 1) = 3 /\ At(b, c + 2) = p.proto
      <3>1. At(b, c + (1 - 1)) = q[1] /\ At(b, c + (2 - 1)) = q[2] /\ At(b, c + (3 - 1)) = q[3]
        BY <1>7, <2>1
      <3>2. c + (1 - 1) = c /\ c + (2 - 1) = c + 1 /\ c + (3 - 1) = c + 2
        BY <1>4
      <3>3. QED
        BY <1>6, <1>10, <2>1, <3>1, <3>2
    <2>3. PppHeader(b, c) = [proto |-> p.proto, end |-> (c + 2) + 1]
      BY <1>8, <1>10, <2>2 DEF PppHeader
    <2>4. QED
      BY <1>2, <1>3, <1>4, <2>1, <2>3
  <1>11. CASE ~p.acfc /\ ~p.pfc
    <2>1. AcLen(p) = 2 /\ m = 4
      BY <1>6, <1>11 DEF AcLen
    <2>2. /\ At(b, c) = 255 /\ At(b, c + 1) = 3 /\ At(b, c + 2) = p.proto \div 256
          /\ U16(b, c + 2) = p.proto
      <3>1. /\ At(b, c + (1 - 1)) = q[1] /\ At(b, c + (2 - 1)) = q[2]
            /\ At(b, c + (3 - 1)) = q[3] /\ At(b, c + (4 - 1)) = q[4]
        BY <1>7, <2>1
      <3>2. c + (1 - 1) = c /\ c + (2 - 1) = c + 1 /\ c + (3 - 1) = c + 2 /\ c + (4 - 1) = (c + 2) + 1
        BY <1>4
      <3>3. QED
        BY <1>6, <1>11, <2>1, <3>1, <3>2 DEF U16
    <2>3. PppHeader(b, c) = [proto |-> p.proto, end |-> (c + 2) + 2]
      <3>1. (p.proto \div 256) % 2 # 1
        BY <1>8
      <3>2. QED
        BY <2>2, <3>1 DEF PppHeader
    <2>4. QED
      BY <1>2, <1>3, <1>4, <2>1, <2>3
  <1>12. CASE p.acfc /\ p.pfc
    <2>1. AcLen(p) = 0 /\ m = 1
      BY <1>6, <1>12 DEF AcLen
    <2>2. At(b, c) = p.proto /\ At(b, c + 1) # 3
      <3>1. At(b, c + (1 - 1)) = q[1]
        BY <1>7, <2>1
      <3>2. c + (1 - 1) = c /\ c + 1 < n /\ 0 + 1 = 1
        BY <1>4
      <3>3. q[1] = p.proto
        BY <1>6, <1>12, <2>1, <3>2
      <3>4. At(b, c + 1) = FirstOctet(p)
        BY <1>7, <2>1, <3>2
      <3>5. QED
        BY <1>9, <3>1, <3>2, <3>3, <3>4
    <2>3. PppHeader(b, c) = [proto |-> p.proto, end |-> c + 1]
      BY <1>8, <1>12, <2>2 DEF PppHeader
    <2>4. QED
      BY <1>2, <1>3, <1>4, <2>1, <2>3
  <1>13. CASE p.acfc /\ ~p.pfc
    <2>1. AcLen(p) = 0 /\ m = 2
      BY <1>6, <1>13 DEF AcLen
    <2>2. At(b, c) = p.proto \div 256 /\ U16(b, c) = p.proto
      <3>1. At(b, c + (1 - 1)) = q[1] /\ At(b, c + (2 - 1)) = q[2]
        BY <1>7, <2>1
      <3>2. c + (1 - 1) = c /\ c + (2 - 1) = c + 1 /\ 0 + 1 = 1 /\ 0 + 2 = 2
        BY <1>4
      <3>3. q[1] = p.proto \div 256 /\ 256 * q[1] + q[2] = p.proto
        BY <1>6, <1>13, <2>1, <3>2
      <3>4. QED
        BY <3>1, <3>2, <3>3 DEF U16
    <2>3. PppHeader(b, c) = [proto |-> p.proto, end |-> c + 2]
      <3>1. (p.proto \div 256) % 2 # 1 /\ p.proto \div 256 # 255
        BY <1>5, <1>8
      <3>2. QED
        BY <2>2, <3>1 DEF PppHeader
    <2>4. QED
      BY <1>2, <1>3, <1>4, <2>1, <2>3
  <1>14. QED
    BY <1>5, <1>10, <1>11, <1>12, <1>13

\* What l2tvpp_hash_ip hashes and how far it reads: never past the end, though the
\* IPv4 header length may point there.
LEMMA HashIpRead ==
  ASSUME NEW c \in Nat, NEW o \in Nat, NEW ports \in BOOLEAN, NEW n \in Nat, c <= n
  PROVE  LET r == HashIp(c, o, ports, n)
         IN /\ r.ok <=> \/ o \div 16 = 4 /\ c + 20 <= n
                        \/ o \div 16 = 6 /\ c + 40 <= n
            /\ r.ok \in BOOLEAN /\ r.read \in Nat /\ r.read <= n
  <1>1. PICK r, ver, hdr : /\ r = HashIp(c, o, ports, n) /\ ver = o \div 16
                           /\ hdr = IF ver = 4 THEN 20 ELSE 40
    OBVIOUS
  <1>2. hdr \in {20, 40}
    BY <1>1
  <1>3. SUFFICES /\ r.ok <=> ver \in {4, 6} /\ c + hdr <= n
                 /\ r.ok \in BOOLEAN /\ r.read \in Nat /\ r.read <= n
    BY <1>1
  <1>4. CASE c + 1 > n
    <2>1. r = [ok |-> FALSE, read |-> c]
      BY <1>1, <1>4 DEF HashIp
    <2>2. QED
      BY <1>2, <1>4, <2>1
  <1>5. CASE ~(c + 1 > n) /\ (ver \notin {4, 6} \/ c + hdr > n)
    <2>1. r = [ok |-> FALSE, read |-> c + 1]
      BY <1>1, <1>5, Zenon DEF HashIp
    <2>2. QED
      BY <1>2, <1>5, <2>1
  <1>6. CASE ~(c + 1 > n) /\ ~(ver \notin {4, 6} \/ c + hdr > n)
    <2>1. PICK l4 : l4 = c + (IF ver = 4 THEN 4 * (o % 16) ELSE 40)
      OBVIOUS
    <2>2. r = [ok |-> TRUE,
               read |-> HighestOf(c + hdr, IF ports /\ l4 + 4 <= n THEN l4 + 4 ELSE 0)]
      BY <1>1, <1>6, <2>1, Zenon DEF HashIp
    <2>3. l4 \in Nat
      <3>1. o % 16 \in Nat
        OBVIOUS
      <3>2. QED
        BY <2>1, <3>1
    <2>4. QED
      BY <1>2, <1>6, <2>2, <2>3 DEF HighestOf
  <1>7. QED
    BY <1>4, <1>5, <1>6

\* Which inner packets are hashed, from the fields of the frame.
LEMMA HashRead ==
  ASSUME NEW f, FrameOK(f), Len(L2tp(f)) >= PppStart(f.header) + 4
  PROVE  LET c == PppStart(f.header) + Len(PppOctets(f.payload))
             n == Len(L2tp(f))
             r == HashIp(c, At(L2tp(f), c), TRUE, n)
         IN /\ r.ok <=> \/ f.payload.inner \in {"v4", "v4options"} /\ c + 20 <= n
                        \/ f.payload.inner = "v6" /\ c + 40 <= n
            /\ r.ok \in BOOLEAN /\ r.read \in Nat /\ r.read <= n
  <1>1. PICK b, p, c, n : /\ b = L2tp(f) /\ p = f.payload /\ n = Len(b)
                          /\ c = PppStart(f.header) + Len(PppOctets(f.payload))
    OBVIOUS
  <1>2. c \in Nat /\ n \in Nat /\ c <= n
    <2>1. PICK s, m : s = PppStart(f.header) /\ m = Len(PppOctets(f.payload))
      OBVIOUS
    <2>2. s \in Nat /\ m \in Nat /\ m <= 4 /\ n \in Nat /\ n >= s + 4
      BY <1>1, <2>1, Sizes, L2tpSeq
    <2>3. QED
      BY <1>1, <2>1, <2>2
  <1>3. PICK o, r : o = At(b, c) /\ r = HashIp(c, o, TRUE, n)
    OBVIOUS
  <1>4. SUFFICES /\ r.ok <=> \/ p.inner \in {"v4", "v4options"} /\ c + 20 <= n
                             \/ p.inner = "v6" /\ c + 40 <= n
                 /\ r.ok \in BOOLEAN /\ r.read \in Nat /\ r.read <= n
    BY <1>1, <1>3
  <1>5. CASE c = n
    <2>1. r = [ok |-> FALSE, read |-> c]
      BY <1>2, <1>3, <1>5 DEF HashIp
    <2>2. QED
      BY <1>2, <1>5, <2>1
  <1>6. CASE c # n
    <2>1. c < n
      BY <1>2, <1>6
    <2>2. o = FirstOctet(p)
      BY <1>1, <1>3, <2>1, AtPpp
    <2>3. /\ o \in Nat
          /\ o \div 16 = 4 <=> p.inner \in {"v4", "v4options"}
          /\ o \div 16 = 6 <=> p.inner = "v6"
      <3>1. /\ 69 \div 16 = 4 /\ 79 \div 16 = 4 /\ 96 \div 16 = 6 /\ 16 \div 16 = 1
        OBVIOUS
      <3>2. QED
        BY <2>2, <3>1 DEF FirstOctet
    <2>4. QED
      BY <1>2, <1>3, <2>3, HashIpRead, ZenonT(90)
  <1>7. QED
    BY <1>5, <1>6

-----------------------------------------------------------------------------
(* What the nodes make of a frame *)

\* The frame ends where its L2TP octets end, once it gets that far.
LEMMA FrameLen ==
  ASSUME NEW f, FrameOK(f)
  PROVE  /\ f.len \in Nat /\ L2tpPos(f.outer) \in Nat /\ Len(L2tp(f)) \in Nat
         /\ f.len >= L2tpPos(f.outer) => f.len = L2tpPos(f.outer) + Len(L2tp(f))
         /\ f.len < L2tpPos(f.outer) => Len(L2tp(f)) = 0
  <1>1. f.outer \in Outer /\ f.len \in CutLens(f)
    BY FrameParts
  <1>2. L2tpPos(f.outer) \in Nat
    BY <1>1, Positions
  <1>3. f.len \in Nat
    <2>1. PICK x : x = L2tpOctets(f)
      OBVIOUS
    <2>2. x \in Seq(Nat)
      BY <2>1, FrameParts, WholeSeq DEF PayloadOK
    <2>3. Len(x) \in Nat
      BY <2>2, LenProperties
    <2>4. QED
      BY <1>1, <1>2, <2>1, <2>3 DEF CutLens
  <1>4. /\ Len(L2tp(f)) \in Nat
        /\ Len(L2tp(f)) = IF f.len < L2tpPos(f.outer) THEN 0 ELSE f.len - L2tpPos(f.outer)
    BY L2tpSeq
  <1>5. PICK l, n : l = L2tpPos(f.outer) /\ n = Len(L2tp(f))
    OBVIOUS
  <1>6. l \in Nat /\ n \in Nat /\ n = IF f.len < l THEN 0 ELSE f.len - l
    BY <1>2, <1>4, <1>5
  <1>7. (f.len >= l => f.len = l + n) /\ (f.len < l => n = 0)
    BY <1>3, <1>6
  <1>8. QED
    BY <1>3, <1>5, <1>6, <1>7

\* The fields of an outer header.
LEMMA OuterFields ==
  ASSUME NEW o \in Outer
  PROVE  /\ o.type \in {"ip4", "ip6", "arp"} /\ o.udp_valid \in BOOLEAN
         /\ o.frag \in {"no", "first", "later"}
         /\ o.udp \in BOOLEAN /\ o.port \in BOOLEAN
         /\ o.checksum \in BOOLEAN /\ o.local \in BOOLEAN
  BY DEF Outer

\* The header that a hash was taken of is the one the packet's kind calls for, and
\* what is to be spread has a hash, or a reason to have none.
HashOK(f, w, c) ==
  /\ c.hashed # 0 =>
       c.hashed = IF ToPort(f.outer) /\ KindOf(f) \in {"ip4", "ip6"}
                  THEN InnerPos(f) ELSE IpPos(f.outer)
  /\ w /\ c.hashed = 0 =>
       c.kind = "LOCAL" \/ (c.kind = "FAST" /\ KindOf(f) \in {"bad_ip", "bad_ip6"})

\* The outer header is hashed, if it is there.
LEMMA GoOuterReads ==
  ASSUME NEW f, FrameOK(f), NEW w \in BOOLEAN, NEW n \in Nat, n <= f.len,
         f.outer.type # "arp", IpPos(f.outer) <= f.len
  PROVE  LET c == GoOuter(f, w, n)
         IN /\ c.read \in Nat /\ c.read <= f.len
            /\ ~w => c.kind = "OUTER" /\ c.hashed = 0
            /\ w => \/ c.kind = "OUTER" /\ c.hashed = IpPos(f.outer)
                    \/ c.kind = "LOCAL" /\ c.hashed = 0
            /\ f.outer.type = "ip4" /\ f.len >= IpPos(f.outer) + 20 => c.kind = "OUTER"
  <1>1. f.outer \in Outer
    BY FrameParts
  <1>2. PICK o, ip, len, p, h, c :
          /\ o = f.outer /\ ip = IpPos(o) /\ len = f.len /\ p = (o.frag # "later")
          /\ h = HashIp(ip, IpOctet(o), p, len) /\ c = GoOuter(f, w, n)
    OBVIOUS
  <1>3. ip \in Nat /\ len \in Nat /\ p \in BOOLEAN /\ o.ihl \in 0 .. 15 /\ ip <= len
        /\ n <= len
    BY <1>1, <1>2, Positions, FrameLen
  <1>4. /\ IpOctet(o) \in Nat
        /\ o.type = "ip4" => IpOctet(o) \div 16 = 4
    <2>1. \A i \in 0 .. 15 : (64 + i) \div 16 = 4 /\ 64 + i \in Nat
      OBVIOUS
    <2>2. QED
      BY <1>3, <2>1 DEF IpOctet
  <1>5. /\ h.ok \in BOOLEAN /\ h.read \in Nat /\ h.read <= len
        /\ IpOctet(o) \div 16 = 4 /\ ip + 20 <= len => h.ok
    BY <1>2, <1>3, <1>4, HashIpRead, ZenonT(90)
  <1>6. c = IF ~w THEN [kind |-> "OUTER", read |-> n, hashed |-> 0]
            ELSE IF h.ok THEN [kind |-> "OUTER", read |-> HighestOf(n, h.read), hashed |-> ip]
            ELSE [kind |-> "LOCAL", read |-> HighestOf(n, h.read), hashed |-> 0]
    BY <1>2, Zenon DEF GoOuter, Verdict
  <1>7. HighestOf(n, h.read) \in Nat /\ HighestOf(n, h.read) <= len
    BY <1>3, <1>5 DEF HighestOf
  <1>8. c.read \in Nat /\ c.read <= len
    BY <1>3, <1>6, <1>7
  <1>9. /\ ~w => c.kind = "OUTER" /\ c.hashed = 0
        /\ w => \/ c.kind = "OUTER" /\ c.hashed = ip
                \/ c.kind = "LOCAL" /\ c.hashed = 0
        /\ h.ok => c.kind = "OUTER"
    BY <1>6
  <1>10. o.type = "ip4" /\ len >= ip + 20 => h.ok
    BY <1>3, <1>4, <1>5
  <1>11. QED
    BY <1>2, <1>8, <1>9, <1>10

\* l2tvpp_flow_classify up to the L2TP header: it reads what is there, goes on only
\* with a datagram to udp/1701 whose flags and ids are there, and goes on with every
\* such datagram; else it hashes the outer header or nothing.
LEMMA OuterReads ==
  ASSUME NEW f, FrameOK(f), NEW w \in BOOLEAN
  PROVE  LET c == ClassifyOuter(f, w)
         IN /\ c.read \in Nat /\ c.read <= f.len
            /\ c.kind = "l2tp" =>
                 /\ ToPort(f.outer) /\ f.len >= L2tpPos(f.outer) + 6
                 /\ f.len >= IpPos(f.outer) + 20
            /\ c.kind # "FAST"
            /\ c.kind # "l2tp" /\ Datagram(f) /\ f.outer.tags < 2 =>
                 c.kind = "OUTER" /\ Len(L2tp(f)) < 6
            /\ c.hashed # 0 => /\ c.hashed = IpPos(f.outer)
                               /\ ToPort(f.outer) => Len(L2tp(f)) < 6
            /\ c.kind # "l2tp" /\ w /\ c.hashed = 0 => c.kind = "LOCAL"
  <1>1. f.outer \in Outer
    BY FrameParts
  <1>2. PICK o, ip, u, l, n, have :
          /\ o = f.outer /\ ip = IpPos(o) /\ u = UdpPos(o) /\ l = L2tpPos(o)
          /\ n = f.len /\ have = Len(L2tp(f))
    OBVIOUS
  <1>3. /\ o.tags \in {0, 1, 2} /\ ip = 14 + 4 * o.tags
        /\ u = ip + (IF o.type = "ip6" THEN 40 ELSE 4 * o.ihl)
        /\ l = u + 8 /\ o.ihl \in 0 .. 15
    BY <1>1, <1>2, Positions
  <1>4. /\ n \in Nat /\ have \in Nat
        /\ n >= l => n = l + have
        /\ n < l => have = 0
    BY <1>2, FrameLen
  <1>5. o.type \in {"ip4", "ip6", "arp"} /\ o.frag \in {"no", "first", "later"}
    BY <1>1, <1>2, OuterFields
  <1>6. PICK c, udp : c = ClassifyOuter(f, w) /\ udp = HighestOf(ip + 20, u + 8)
    OBVIOUS
  <1> DEFINE Goal == /\ c.read \in Nat /\ c.read <= n
                     /\ c.kind = "l2tp" => ToPort(o) /\ n >= l + 6 /\ n >= ip + 20
                     /\ c.kind # "FAST"
                     /\ /\ c.kind # "l2tp" /\ ToPort(o) /\ o.ihl >= 5 /\ n >= l
                        /\ o.tags < 2
                        => c.kind = "OUTER" /\ have < 6
                     /\ c.hashed # 0 => c.hashed = ip /\ (ToPort(o) => have < 6)
                     /\ c.kind # "l2tp" /\ w /\ c.hashed = 0 => c.kind = "LOCAL"
  <1>7. SUFFICES Goal
    BY <1>2, <1>6 DEF Datagram
  \* A verdict without a hash.
  <1>8. ASSUME NEW m \in Nat, m <= n, c = [kind |-> "LOCAL", read |-> m, hashed |-> 0],
               ~(ToPort(o) /\ o.ihl >= 5 /\ n >= l /\ o.tags < 2)
        PROVE  Goal
    BY <1>8
  \* The outer header's.
  <1>9. ASSUME NEW m \in Nat, m <= n, c = GoOuter(f, w, m), o.type # "arp", ip <= n,
               ToPort(o) => have < 6, ToPort(o) => n >= ip + 20
        PROVE  Goal
    <2>1. /\ c.read \in Nat /\ c.read <= n
          /\ ~w => c.kind = "OUTER" /\ c.hashed = 0
          /\ w => \/ c.kind = "OUTER" /\ c.hashed = ip
                  \/ c.kind = "LOCAL" /\ c.hashed = 0
          /\ o.type = "ip4" /\ n >= ip + 20 => c.kind = "OUTER"
      BY <1>2, <1>9, GoOuterReads
    <2>2. c.kind \in {"OUTER", "LOCAL"}
      BY <2>1
    <2>3. ToPort(o) => o.type = "ip4"
      BY DEF ToPort
    <2>4. ip # 0
      BY <1>3
    <2>5. QED
      BY <1>9, <2>1, <2>2, <2>3, <2>4
  <1>10. CASE n < 14
    <2>1. c = [kind |-> "LOCAL", read |-> 0, hashed |-> 0]
      BY <1>2, <1>6, <1>10 DEF ClassifyOuter, Verdict
    <2>2. ~(n >= l) /\ 0 \in Nat /\ 0 <= n
      BY <1>3, <1>4, <1>10
    <2>3. QED
      BY <1>8, <2>1, <2>2
  <1>11. CASE ~(n < 14) /\ o.tags > 0 /\ n < 18
    <2>1. c = [kind |-> "LOCAL", read |-> 14, hashed |-> 0]
      BY <1>2, <1>6, <1>11 DEF ClassifyOuter, Verdict
    <2>2. ~(n >= l) /\ 14 \in Nat /\ 14 <= n
      BY <1>3, <1>4, <1>11
    <2>3. QED
      BY <1>8, <2>1, <2>2
  <1>12. CASE ~(n < 14) /\ ~(o.tags > 0 /\ n < 18) /\ (o.tags = 2 \/ o.type = "arp")
    <2>1. PICK m : m = IF o.tags = 0 THEN 14 ELSE 18
      OBVIOUS
    <2>2. c = [kind |-> "LOCAL", read |-> m, hashed |-> 0]
      BY <1>2, <1>6, <1>12, <2>1 DEF ClassifyOuter, Verdict
    <2>3. ~(ToPort(o) /\ o.tags < 2) /\ m \in Nat /\ m <= n
      BY <1>3, <1>4, <1>12, <2>1 DEF ToPort
    <2>4. QED
      BY <1>8, <2>2, <2>3
  <1>13. CASE ~(n < 14) /\ ~(o.tags > 0 /\ n < 18) /\ ~(o.tags = 2 \/ o.type = "arp")
    <2>1. ip \in Nat /\ ip <= n /\ ip >= 14 /\ u \in Nat
      BY <1>3, <1>4, <1>13
    <2>2. CASE o.type = "ip6"
      <3>1. c = GoOuter(f, w, ip)
        BY <1>2, <1>6, <1>13, <2>2 DEF ClassifyOuter
      <3>2. ~ToPort(o) /\ o.type # "arp"
        BY <2>2 DEF ToPort
      <3>3. QED
        BY <1>9, <2>1, <3>1, <3>2
    <2>3. CASE o.type # "ip6" /\ n < ip + 20
      <3>1. c = [kind |-> "LOCAL", read |-> ip, hashed |-> 0]
        BY <1>2, <1>6, <1>13, <2>3 DEF ClassifyOuter, Verdict
      <3>2. ~(o.ihl >= 5 /\ n >= l)
        BY <1>3, <1>4, <2>1, <2>3
      <3>3. QED
        BY <1>8, <2>1, <3>1, <3>2
    <2>4. CASE o.type # "ip6" /\ ~(n < ip + 20) /\ (~o.udp \/ o.frag # "no" \/ n < u + 8)
      <3>1. c = GoOuter(f, w, ip + 20)
        BY <1>2, <1>6, <1>13, <2>4 DEF ClassifyOuter
      <3>2. ip + 20 \in Nat /\ ip + 20 <= n /\ n >= ip + 20
        BY <1>4, <2>1, <2>4
      <3>3. ToPort(o) => have < 6
        BY <1>3, <1>4, <2>4 DEF ToPort
      <3>4. QED
        BY <1>9, <1>13, <2>1, <3>1, <3>2, <3>3
    <2>5. CASE /\ o.type # "ip6" /\ ~(n < ip + 20) /\ ~(~o.udp \/ o.frag # "no" \/ n < u + 8)
      <3>1. udp \in Nat /\ udp <= n /\ n >= ip + 20
        BY <1>4, <1>6, <2>1, <2>5 DEF HighestOf
      <3>2. CASE ~o.port \/ n < l + 6
        <4>1. c = GoOuter(f, w, udp)
          BY <1>2, <1>6, <1>13, <2>5, <3>2 DEF ClassifyOuter
        <4>2. ToPort(o) => have < 6
          BY <1>3, <1>4, <2>1, <2>5, <3>2 DEF ToPort
        <4>3. QED
          BY <1>9, <1>13, <2>1, <3>1, <4>1, <4>2
      <3>3. CASE ~(~o.port \/ n < l + 6)
        <4>1. c = [kind |-> "l2tp", read |-> udp, hashed |-> 0]
          BY <1>2, <1>6, <1>13, <2>5, <3>3 DEF ClassifyOuter, Verdict
        <4>2. n >= l + 6
          BY <1>3, <1>4, <2>1, <3>3
        <4>3. ToPort(o)
          BY <1>5, <1>13, <2>5, <3>3 DEF ToPort
        <4>4. QED
          BY <3>1, <4>1, <4>2, <4>3
      <3>4. QED
        BY <3>2, <3>3
    <2>6. QED
      BY <2>2, <2>3, <2>4, <2>5
  <1>14. QED
    BY <1>10, <1>11, <1>12, <1>13

\* What the two tables of PacketKinds say, case by case.
LEMMA HdrClasses ==
  /\ HdrClass("control") = "CONTROL" /\ HdrClass("not_v2") = "NOT_V2"
  /\ HdrClass("too_short") = "TOO_SHORT"
  /\ \A k \in {"truncated", "non_ip", "ip4", "ip6", "bad_ip", "bad_ip6"} :
       HdrClass(k) = "DATA"
  BY Zenon DEF HdrClass

\* The flow classifier's table, likewise.
LEMMA FlowKinds ==
  ASSUME NEW fast \in BOOLEAN, NEW w \in BOOLEAN
  PROVE  /\ \A k \in {"control", "not_v2"} : FlowKind(k, fast, w) = "LOCAL"
         /\ FlowKind("too_short", fast, w) = "OUTER"
         /\ \A k \in {"truncated", "non_ip"} :
              FlowKind(k, fast, w) = IF w THEN "OUTER" ELSE IF fast THEN "FAST" ELSE "INNER"
         /\ \A k \in {"bad_ip", "bad_ip6"} :
              FlowKind(k, fast, w) = IF fast THEN "FAST" ELSE IF w THEN "OUTER" ELSE "INNER"
         /\ \A k \in {"ip4", "ip6"} :
              FlowKind(k, fast, w) = IF fast THEN "FAST" ELSE "INNER"
  <1>1. \A k \in {"control", "not_v2"} : FlowKind(k, fast, w) = "LOCAL"
    BY Zenon DEF FlowKind
  <1>2. FlowKind("too_short", fast, w) = "OUTER"
    BY Zenon DEF FlowKind
  <1>3. \A k \in {"truncated", "non_ip"} :
          FlowKind(k, fast, w) = IF w THEN "OUTER" ELSE IF fast THEN "FAST" ELSE "INNER"
    BY Zenon DEF FlowKind
  <1>4. \A k \in {"bad_ip", "bad_ip6"} :
          FlowKind(k, fast, w) = IF fast THEN "FAST" ELSE IF w THEN "OUTER" ELSE "INNER"
    BY Zenon DEF FlowKind
  <1>5. \A k \in {"ip4", "ip6"} :
          FlowKind(k, fast, w) = IF fast THEN "FAST" ELSE "INNER"
    BY Zenon DEF FlowKind
  <1>6. QED
    BY <1>1, <1>2, <1>3, <1>4, <1>5

\* The kind of a frame, from the answer of l2tvpp_parse_hdr on.
LEMMA KindIs ==
  ASSUME NEW f, FrameOK(f)
  PROVE  LET n  == Len(L2tp(f))
             c  == PppStart(f.header) + Len(PppOctets(f.payload))
             ok == \/ f.payload.inner \in {"v4", "v4options"} /\ c + 20 <= n
                   \/ f.payload.inner = "v6" /\ c + 40 <= n
             k  == KindOf(f)
             whole == n >= PppStart(f.header) + 4
         IN /\ HdrRc(f) = "TOO_SHORT" => k = "too_short"
            /\ HdrRc(f) = "NOT_V2" => k = "not_v2"
            /\ HdrRc(f) = "CONTROL" => k = "control"
            /\ HdrRc(f) \in {"TOO_SHORT", "NOT_V2", "CONTROL", "DATA"}
            /\ HdrRc(f) = "DATA" =>
                 /\ ~whole => k = "truncated"
                 /\ whole /\ f.payload.proto \notin {33, 87} => k = "non_ip"
                 /\ whole /\ f.payload.proto = 33 => k = IF ok THEN "ip4" ELSE "bad_ip"
                 /\ whole /\ f.payload.proto = 87 => k = IF ok THEN "ip6" ELSE "bad_ip6"
  <1>1. PICK n, s, c, p, k, left : /\ n = Len(L2tp(f)) /\ s = PppStart(f.header)
                                   /\ c = s + Len(PppOctets(f.payload)) /\ p = f.payload
                                   /\ k = KindOf(f) /\ left = f.len - InnerPos(f)
    OBVIOUS
  <1>2. PayloadOK(p) /\ f.header \in Header
    BY <1>1, FrameParts
  <1>3. n \in Nat /\ s \in Nat /\ c \in Nat
    BY <1>1, Sizes, FrameLen
  <1>4. FixedLen(f.header) \in {6, 8}
    BY DEF FixedLen
  <1>5. n >= 6 => left = n - c
    <2>1. PICK l, m : l = L2tpPos(f.outer) /\ m = Len(PppOctets(f.payload))
      OBVIOUS
    <2>2. l \in Nat /\ m \in Nat /\ f.len \in Nat
      BY <2>1, FrameLen, Sizes
    <2>3. (f.len >= l => f.len = l + n) /\ (f.len < l => n = 0)
      BY <1>1, <2>1, FrameLen
    <2>4. left = f.len - (l + s + m) /\ c = s + m
      BY <1>1, <2>1 DEF InnerPos
    <2>5. QED
      BY <1>3, <2>2, <2>3, <2>4
  <1>6. HdrRc(f) \in {"TOO_SHORT", "NOT_V2", "CONTROL", "DATA"}
    BY DEF HdrRc
  <1>7. /\ HdrRc(f) = "TOO_SHORT" => k = "too_short"
        /\ HdrRc(f) = "NOT_V2" => k = "not_v2"
        /\ HdrRc(f) = "CONTROL" => k = "control"
    BY <1>1 DEF HdrRc, KindOf
  <1> DEFINE hashable == \/ p.inner \in {"v4", "v4options"} /\ left >= 20
                         \/ p.inner = "v6" /\ left >= 40
  <1>8. ASSUME HdrRc(f) = "DATA"
        PROVE  /\ n >= 6
               /\ k = IF n < s + 4 THEN "truncated"
                      ELSE IF p.proto \notin {33, 87} THEN "non_ip"
                      ELSE IF p.proto = 33 THEN (IF hashable THEN "ip4" ELSE "bad_ip")
                      ELSE IF hashable THEN "ip6" ELSE "bad_ip6"
    <2>1. /\ ~(n < 6) /\ f.header.ver = 2 /\ ~f.header.T /\ ~(n < FixedLen(f.header))
      BY <1>1, <1>8 DEF HdrRc
    <2>2. QED
      BY <1>1, <1>3, <2>1 DEF KindOf
  <1>9. ASSUME HdrRc(f) = "DATA"
        PROVE  (left >= 20 <=> c + 20 <= n) /\ (left >= 40 <=> c + 40 <= n)
    BY <1>3, <1>5, <1>8, <1>9
  <1>10. ASSUME HdrRc(f) = "DATA"
         PROVE  LET ok == \/ p.inner \in {"v4", "v4options"} /\ c + 20 <= n
                          \/ p.inner = "v6" /\ c + 40 <= n
                IN /\ ~(n >= s + 4) => k = "truncated"
                   /\ n >= s + 4 /\ p.proto \notin {33, 87} => k = "non_ip"
                   /\ n >= s + 4 /\ p.proto = 33 => k = IF ok THEN "ip4" ELSE "bad_ip"
                   /\ n >= s + 4 /\ p.proto = 87 => k = IF ok THEN "ip6" ELSE "bad_ip6"
    BY <1>3, <1>8, <1>9, <1>10
  <1>11. QED
    BY <1>1, <1>6, <1>7, <1>10

\* The end of the offset size field is inside the buffer.
LEMMA SizeReads ==
  ASSUME NEW f, FrameOK(f), HdrRc(f) = "DATA"
  PROVE  LET b == L2tp(f)
             n == SizeRead(b, ParseHdr(b))
         IN n \in Nat /\ n <= Len(b)
  <1>1. PICK b, h, n : b = L2tp(f) /\ h = ParseHdr(b) /\ n = Len(b)
    OBVIOUS
  <1>2. h.rc = "DATA" /\ h.read \in Nat /\ h.read <= n /\ n \in Nat
    BY <1>1, ParseFrame, FrameLen
  <1>3. AfterSeq(h) = FrontLen(f.header)
    BY <1>1, <1>2, WalkFrame
  <1>4. AfterSeq(h) \in Nat
    BY <1>3, Sizes
  <1>5. QED
    BY <1>1, <1>2, <1>4 DEF SizeRead

\* l2tvpp_flow_classify from the L2TP header on reads what is there, says of the
\* frame what PacketKinds says of its kind, and hashes the header that goes with it.
LEMMA ClassifyReads ==
  ASSUME NEW f, FrameOK(f), NEW fp \in BOOLEAN, NEW w \in BOOLEAN,
         ToPort(f.outer), f.len >= L2tpPos(f.outer), f.len >= IpPos(f.outer) + 20
  PROVE  LET c == ClassifyL2tp(f, fp, w)
         IN /\ c.read \in Nat /\ c.read <= f.len
            /\ c.kind = FlowKind(KindOf(f), fp /\ FastOuter(f), w)
            /\ c.kind = "FAST" => FastOuter(f) /\ HdrClass(KindOf(f)) = "DATA"
            /\ HashOK(f, w, c)
  <1>1. PICK b, n, h, l, s, k : /\ b = L2tp(f) /\ n = Len(b) /\ h = ParseHdr(b)
                                /\ l = L2tpPos(f.outer) /\ s = PppStart(f.header)
                                /\ k = KindOf(f)
    OBVIOUS
  <1>2. PICK ours : ours = IF fp /\ FastOuter(f) THEN "FAST" ELSE "INNER"
    OBVIOUS
  <1>3. PICK fast : fast = (fp /\ FastOuter(f))
    OBVIOUS
  <1>4. fast \in BOOLEAN /\ ours = (IF fast THEN "FAST" ELSE "INNER")
    BY <1>2, <1>3 DEF FastOuter
  <1>5. n \in Nat /\ l \in Nat /\ f.len = l + n /\ s \in Nat
    BY <1>1, FrameLen, Sizes
  <1>6. h.rc = HdrRc(f) /\ h.read \in Nat /\ h.read <= n
    BY <1>1, ParseFrame
  <1>7. HdrRc(f) \in {"TOO_SHORT", "NOT_V2", "CONTROL", "DATA"}
    BY KindIs
  <1>8. PICK c : c = ClassifyL2tp(f, fp, w)
    OBVIOUS
  <1>9. PICK ip, in : ip = IpPos(f.outer) /\ in = InnerPos(f)
    OBVIOUS
  <1>10. ip \in Nat /\ ip # 0 /\ ip <= f.len /\ f.len >= ip + 20 /\ f.outer.type = "ip4"
    <2>1. f.outer \in Outer
      BY FrameParts
    <2>2. f.len \in Nat /\ f.outer.tags \in {0, 1, 2} /\ ip = 14 + 4 * f.outer.tags
      BY <1>9, <2>1, Positions, FrameLen
    <2>3. f.len >= ip + 20 /\ f.outer.type = "ip4"
      BY <1>9 DEF ToPort
    <2>4. QED
      BY <2>2, <2>3
  <1>11. in = l + (s + Len(PppOctets(f.payload)))
    <2>1. Len(PppOctets(f.payload)) \in Nat
      BY Sizes
    <2>2. QED
      BY <1>1, <1>5, <1>9, <2>1 DEF InnerPos
  <1> DEFINE Goal == /\ c.read \in Nat /\ c.read <= l + n
                     /\ c.kind = FlowKind(k, fast, w)
                     /\ c.kind = "FAST" => fast /\ HdrClass(k) = "DATA"
                     /\ c.hashed # 0 =>
                          c.hashed = IF k \in {"ip4", "ip6"} THEN in ELSE ip
                     /\ w /\ c.hashed = 0 =>
                          \/ c.kind = "LOCAL"
                          \/ c.kind = "FAST" /\ k \in {"bad_ip", "bad_ip6"}
  <1>12. SUFFICES Goal
    <2>1. /\ FlowKind(KindOf(f), fp /\ FastOuter(f), w) = FlowKind(k, fast, w)
          /\ fast => FastOuter(f)
      BY <1>1, <1>3
    <2>2. Goal => HashOK(f, w, c)
      BY <1>1, <1>9, Zenon DEF HashOK
    <2>3. QED
      BY <1>1, <1>5, <1>8, <2>1, <2>2
  \* The label `outer'.
  <1>13. ASSUME NEW m \in Nat, m <= l + n, c = GoOuter(f, w, m),
               k \notin {"ip4", "ip6"}, FlowKind(k, fast, w) = "OUTER"
        PROVE  Goal
    <2>1. f.outer.type # "arp" /\ m <= f.len
      BY <1>5, <1>10, <1>13
    <2>2. /\ c.read \in Nat /\ c.read <= f.len
          /\ ~w => c.hashed = 0
          /\ w => \/ c.kind = "OUTER" /\ c.hashed = ip
                  \/ c.kind = "LOCAL" /\ c.hashed = 0
          /\ c.kind = "OUTER"
      BY <1>9, <1>10, <1>13, <2>1, GoOuterReads
    <2>3. w => c.hashed = ip
      BY <2>2
    <2>4. QED
      BY <1>5, <1>10, <1>13, <2>2, <2>3
  <1>14. CASE h.rc = "TOO_SHORT"
    <2>1. c = GoOuter(f, w, l + h.read)
      BY <1>1, <1>8, <1>14 DEF ClassifyL2tp
    <2>2. k = "too_short"
      BY <1>1, <1>6, <1>14, KindIs
    <2>3. FlowKind(k, fast, w) = "OUTER"
      BY <1>4, <2>2, FlowKinds
    <2>4. l + h.read \in Nat /\ l + h.read <= l + n /\ k \notin {"ip4", "ip6"}
      BY <1>5, <1>6, <2>2
    <2>5. QED
      BY <1>13, <2>1, <2>3, <2>4
  <1>15. CASE h.rc \in {"NOT_V2", "CONTROL"}
    <2>1. c = [kind |-> "LOCAL", read |-> l + h.read, hashed |-> 0]
      BY <1>1, <1>8, <1>15 DEF ClassifyL2tp, Verdict
    <2>2. k \in {"not_v2", "control"}
      BY <1>1, <1>6, <1>15, KindIs
    <2>3. FlowKind(k, fast, w) = "LOCAL"
      BY <1>4, <2>2, FlowKinds
    <2>4. QED
      BY <1>5, <1>6, <2>1, <2>3
  <1>16. CASE h.rc = "DATA"
    <2>1. k \in {"truncated", "non_ip", "ip4", "ip6", "bad_ip", "bad_ip6"}
      <3>1. PICK q : q = f.payload.proto
        OBVIOUS
      <3>2. QED
        BY <1>1, <1>6, <1>16, <3>1, KindIs
    <2>2. HdrClass(k) = "DATA"
      BY <2>1, HdrClasses
    <2>3. CASE ~w
      <3>1. c = [kind |-> ours, read |-> l + h.read, hashed |-> 0]
        BY <1>1, <1>2, <1>8, <1>16, <2>3 DEF ClassifyL2tp, Verdict
      <3>2. FlowKind(k, fast, w) = ours
        BY <1>4, <2>1, <2>3, FlowKinds
      <3>3. ours = "FAST" => fast
        BY <1>4
      <3>4. QED
        BY <1>5, <1>6, <2>2, <2>3, <3>1, <3>2, <3>3
    <2>4. CASE w /\ ~PppInside(b, h)
      <3>1. c = GoOuter(f, w, l + SizeRead(b, h))
        BY <1>1, <1>8, <1>16, <2>4 DEF ClassifyL2tp
      <3>2. ~(n >= s + 4)
        BY <1>1, <1>6, <1>16, <2>4, WalkFrame
      <3>3. k = "truncated"
        BY <1>1, <1>6, <1>16, <3>2, KindIs
      <3>4. FlowKind(k, fast, w) = "OUTER"
        BY <1>4, <2>4, <3>3, FlowKinds
      <3>5. SizeRead(b, h) \in Nat /\ SizeRead(b, h) <= n
        BY <1>1, <1>6, <1>16, SizeReads
      <3>6. l + SizeRead(b, h) \in Nat /\ l + SizeRead(b, h) <= l + n
        BY <1>5, <3>5
      <3>7. QED
        BY <1>13, <3>1, <3>3, <3>4, <3>6
    <2>5. CASE w /\ PppInside(b, h)
      <3>1. n >= s + 4 /\ Cursor(b, h) = s
        BY <1>1, <1>6, <1>16, <2>5, WalkFrame
      <3>2. PICK p, e, i, q : /\ p = PppHeader(b, s) /\ e = s + Len(PppOctets(f.payload))
                              /\ i = HashIp(e, At(b, e), TRUE, n) /\ q = f.payload.proto
        OBVIOUS
      <3>3. p.proto = q /\ p.end = e
        BY <1>1, <3>1, <3>2, PppRead
      <3>4. i.read \in Nat /\ i.read <= n /\ i.ok \in BOOLEAN
        BY <1>1, <3>1, <3>2, HashRead
      <3>5. CASE q \notin {33, 87}
        <4>1. c = GoOuter(f, w, l + s + 4)
          BY <1>1, <1>8, <1>16, <2>5, <3>1, <3>2, <3>3, <3>5 DEF ClassifyL2tp, FlowPpp
        <4>2. k = "non_ip"
          BY <1>1, <1>6, <1>16, <3>1, <3>2, <3>5, KindIs
        <4>3. FlowKind(k, fast, w) = "OUTER"
          BY <1>4, <2>5, <4>2, FlowKinds
        <4>4. l + s + 4 \in Nat /\ l + s + 4 <= l + n
          BY <1>5, <3>1
        <4>5. QED
          BY <1>13, <4>1, <4>2, <4>3, <4>4
      <3>6. CASE q \in {33, 87}
        <4>1. PICK deep : deep = l + HighestOf(s + 4, i.read)
          OBVIOUS
        <4>2. deep \in Nat /\ deep <= l + n
          BY <1>5, <3>1, <3>4, <4>1 DEF HighestOf
        <4>3. c = IF i.ok THEN [kind |-> ours, read |-> deep, hashed |-> l + e]
                  ELSE IF ours = "FAST" THEN [kind |-> "FAST", read |-> deep, hashed |-> 0]
                  ELSE GoOuter(f, w, deep)
          BY <1>1, <1>2, <1>8, <1>16, <2>5, <3>1, <3>2, <3>3, <3>6, <4>1
             DEF ClassifyL2tp, FlowPpp, Verdict
        <4>4. /\ i.ok => k \in {"ip4", "ip6"}
              /\ ~i.ok => k \in {"bad_ip", "bad_ip6"}
          <5>1. PICK ok : ok = (\/ f.payload.inner \in {"v4", "v4options"} /\ e + 20 <= n
                                \/ f.payload.inner = "v6" /\ e + 40 <= n)
            OBVIOUS
          <5>2. i.ok <=> ok
            BY <1>1, <3>1, <3>2, <5>1, HashRead
          <5>3. /\ q = 33 => k = IF ok THEN "ip4" ELSE "bad_ip"
                /\ q = 87 => k = IF ok THEN "ip6" ELSE "bad_ip6"
            BY <1>1, <1>6, <1>16, <3>1, <3>2, <5>1, KindIs, ZenonT(60)
          <5>4. QED
            BY <3>4, <3>6, <5>2, <5>3
        <4>5. ~i.ok => FlowKind(k, fast, w) = IF fast THEN "FAST" ELSE IF w THEN "OUTER" ELSE "INNER"
          <5>1. SUFFICES ASSUME ~i.ok
                         PROVE  FlowKind(k, fast, w) =
                                  IF fast THEN "FAST" ELSE IF w THEN "OUTER" ELSE "INNER"
            OBVIOUS
          <5>2. k \in {"bad_ip", "bad_ip6"}
            BY <4>4, <5>1
          <5>3. QED
            BY <1>4, <5>2, FlowKinds
        <4>6. CASE i.ok
          <5>1. FlowKind(k, fast, w) = ours /\ k \in {"ip4", "ip6"}
            BY <1>4, <4>4, <4>6, FlowKinds
          <5>2. l + e = in
            BY <1>11, <3>2
          <5>3. in # 0
            <6>1. e \in Nat /\ l # 0
              <7>1. Len(PppOctets(f.payload)) \in Nat
                BY Sizes
              <7>2. l >= 8
                BY <1>1, FrameParts, Positions
              <7>3. QED
                BY <1>5, <3>2, <7>1, <7>2
            <6>2. QED
              BY <1>5, <5>2, <6>1
          <5>4. ours = "FAST" => fast
            BY <1>4
          <5>5. QED
            BY <2>2, <4>2, <4>3, <4>6, <5>1, <5>2, <5>3, <5>4
        <4>7. CASE ~i.ok /\ ours = "FAST"
          <5>1. k \in {"bad_ip", "bad_ip6"} /\ fast
            BY <1>4, <4>4, <4>7
          <5>2. FlowKind(k, fast, w) = "FAST"
            BY <4>7, <4>5, <5>1
          <5>3. QED
            BY <2>2, <4>2, <4>3, <4>7, <5>1, <5>2
        <4>8. CASE ~i.ok /\ ours # "FAST"
          <5>1. k \in {"bad_ip", "bad_ip6"} /\ ~fast
            BY <1>4, <4>4, <4>8
          <5>2. FlowKind(k, fast, w) = "OUTER"
            BY <2>5, <4>8, <4>5, <5>1
          <5>3. c = GoOuter(f, w, deep) /\ k \notin {"ip4", "ip6"}
            BY <4>3, <4>8, <5>1
          <5>4. QED
            BY <1>13, <4>2, <5>2, <5>3
        <4>9. QED
          BY <4>6, <4>7, <4>8
      <3>7. QED
        BY <3>5, <3>6
    <2>6. QED
      BY <2>3, <2>4, <2>5
  <1>17. QED
    BY <1>6, <1>7, <1>14, <1>15, <1>16

\* What l2tvpp-input may do with a frame, given whether it knows the session.
LayoutNext(f, known, nxt) ==
  \/ nxt = InputNext(KindOf(f), known)
  \/ InputNext(KindOf(f), known) = "ip4-input" /\ nxt = "ip4-input-no-checksum"

\* What l2tvpp-input does with each kind.
LEMMA InputNexts ==
  /\ \A k \in {"too_short", "truncated"}, known \in BOOLEAN :
       InputNext(k, known) = "error-drop"
  /\ \A k \in {"control", "not_v2", "non_ip"}, known \in BOOLEAN :
       InputNext(k, known) = "ip4-punt"
  /\ \A k \in {"non_ip", "ip4", "ip6", "bad_ip", "bad_ip6"} : InputNext(k, FALSE) = "ip4-punt"
  /\ \A k \in {"ip4", "bad_ip"} : InputNext(k, TRUE) = "ip4-input"
  /\ \A k \in {"ip6", "bad_ip6"} : InputNext(k, TRUE) = "ip6-input"
  BY HdrClasses DEF InputNext

\* l2tvpp-input reads what is there, sends the frame where its kind calls for, and
\* advances to the first octet of the inner packet.
LEMMA InputReads ==
  ASSUME NEW f, FrameOK(f), NEW known \in BOOLEAN, NEW nc \in BOOLEAN
  PROVE  LET v == InputVerdict(L2tp(f), known, nc)
         IN /\ v.read \in Nat /\ v.read <= Len(L2tp(f))
            /\ v.next \in Inner \cup {"error-drop", "ip4-punt"}
            /\ LayoutNext(f, known, v.next)
            /\ v.next \in Inner => v.advance = PppStart(f.header) + Len(PppOctets(f.payload))
  <1>1. PICK b, n, h, s, k, e : /\ b = L2tp(f) /\ n = Len(b) /\ h = ParseHdr(b)
                                /\ s = PppStart(f.header) /\ k = KindOf(f)
                                /\ e = PppStart(f.header) + Len(PppOctets(f.payload))
    OBVIOUS
  <1>2. n \in Nat /\ s \in Nat
    BY <1>1, FrameLen, Sizes
  <1>3. h.rc = HdrRc(f) /\ h.read \in Nat /\ h.read <= n
    BY <1>1, ParseFrame
  <1>4. HdrRc(f) \in {"TOO_SHORT", "NOT_V2", "CONTROL", "DATA"}
    BY KindIs
  <1>5. PICK v : v = InputVerdict(b, known, nc)
    OBVIOUS
  <1>6. SUFFICES /\ v.read \in Nat /\ v.read <= n
                 /\ v.next \in Inner \cup {"error-drop", "ip4-punt"}
                 /\ \/ v.next = InputNext(k, known)
                    \/ InputNext(k, known) = "ip4-input" /\ v.next = "ip4-input-no-checksum"
                 /\ v.next \in Inner => v.advance = e
    BY <1>1, <1>5 DEF LayoutNext
  <1>7. "error-drop" \notin Inner /\ "ip4-punt" \notin Inner
    BY DEF Inner
  <1>8. CASE h.rc = "TOO_SHORT"
    <2>1. v = [next |-> "error-drop", read |-> h.read, advance |-> 0]
      BY <1>5, <1>1, <1>8 DEF InputVerdict
    <2>2. InputNext(k, known) = "error-drop"
      <3>1. k = "too_short"
        BY <1>1, <1>3, <1>8, KindIs
      <3>2. QED
        BY <3>1, InputNexts
    <2>3. QED
      BY <1>3, <1>7, <2>1, <2>2
  <1>9. CASE h.rc \in {"NOT_V2", "CONTROL"}
    <2>1. v = [next |-> "ip4-punt", read |-> h.read, advance |-> 0]
      BY <1>5, <1>1, <1>9 DEF InputVerdict
    <2>2. InputNext(k, known) = "ip4-punt"
      <3>1. k \in {"control", "not_v2"}
        BY <1>1, <1>3, <1>9, KindIs
      <3>2. QED
        BY <3>1, InputNexts
    <2>3. QED
      BY <1>3, <1>7, <2>1, <2>2
  <1>10. CASE h.rc = "DATA"
    <2>1. PICK size : size = SizeRead(b, h)
      OBVIOUS
    <2>2. size \in Nat /\ size <= n
      BY <1>1, <1>3, <1>10, <2>1, SizeReads
    <2>3. CASE ~PppInside(b, h)
      <3>1. v = [next |-> "error-drop", read |-> size, advance |-> 0]
        BY <1>5, <1>1, <1>10, <2>1, <2>3 DEF InputVerdict
      <3>2. ~(n >= s + 4)
        BY <1>1, <1>3, <1>10, <2>3, WalkFrame
      <3>3. k = "truncated"
        BY <1>1, <1>3, <1>10, <3>2, KindIs
      <3>4. InputNext(k, known) = "error-drop"
        BY <3>3, InputNexts
      <3>5. QED
        BY <1>7, <2>2, <3>1, <3>4
    <2>4. CASE PppInside(b, h)
      <3>1. n >= s + 4 /\ Cursor(b, h) = s
        BY <1>1, <1>3, <1>10, <2>4, WalkFrame
      <3>2. PICK p, q : p = PppHeader(b, s) /\ q = f.payload.proto
        OBVIOUS
      <3>3. p.proto = q /\ p.end = e
        BY <1>1, <3>1, <3>2, PppRead
      <3>4. /\ q \notin {33, 87} => k = "non_ip"
            /\ q = 33 => k \in {"ip4", "bad_ip"}
            /\ q = 87 => k \in {"ip6", "bad_ip6"}
        BY <1>1, <1>3, <1>10, <3>1, <3>2, KindIs
      <3>5. CASE ~known
        <4>1. v = [next |-> "ip4-punt", read |-> size, advance |-> 0]
          BY <1>5, <1>1, <1>10, <2>1, <2>4, <3>5 DEF InputVerdict
        <4>2. InputNext(k, known) = "ip4-punt"
          <5>1. k \in {"non_ip", "ip4", "ip6", "bad_ip", "bad_ip6"}
            BY <3>4
          <5>2. known = FALSE
            BY <3>5
          <5>3. QED
            BY <5>1, <5>2, InputNexts
        <4>3. QED
          BY <1>7, <2>2, <4>1, <4>2
      <3>6. CASE known /\ q = 33
        <4>1. v = [next |-> IF nc THEN "ip4-input-no-checksum" ELSE "ip4-input",
                   read |-> s + 4, advance |-> e]
          BY <1>5, <1>1, <1>10, <2>4, <3>1, <3>2, <3>3, <3>6 DEF InputVerdict
        <4>2. InputNext(k, known) = "ip4-input"
          <5>1. known = TRUE
            BY <3>6
          <5>2. QED
            BY <3>4, <3>6, <5>1, InputNexts
        <4>3. v.next \in Inner
          BY <4>1 DEF Inner
        <4>4. v.read \in Nat /\ v.read <= n /\ v.advance = e
          BY <1>2, <3>1, <4>1
        <4>5. v.next = InputNext(k, known) \/ v.next = "ip4-input-no-checksum"
          BY <4>1, <4>2
        <4>6. QED
          BY <4>2, <4>3, <4>4, <4>5
      <3>7. CASE known /\ q = 87
        <4>1. v = [next |-> "ip6-input", read |-> s + 4, advance |-> e]
          BY <1>5, <1>1, <1>10, <2>4, <3>1, <3>2, <3>3, <3>7 DEF InputVerdict
        <4>2. InputNext(k, known) = "ip6-input"
          <5>1. known = TRUE
            BY <3>7
          <5>2. QED
            BY <3>4, <3>7, <5>1, InputNexts
        <4>3. v.next \in Inner
          BY <4>1 DEF Inner
        <4>4. v.read \in Nat /\ v.read <= n
          BY <1>2, <3>1, <4>1
        <4>5. v.next = InputNext(k, known) /\ v.advance = e
          BY <4>1, <4>2
        <4>6. QED
          BY <4>3, <4>4, <4>5
      <3>8. CASE known /\ q \notin {33, 87}
        <4>1. v = [next |-> "ip4-punt", read |-> s + 4, advance |-> 0]
          BY <1>5, <1>1, <1>10, <2>4, <3>1, <3>2, <3>3, <3>8 DEF InputVerdict
        <4>2. InputNext(k, known) = "ip4-punt"
          BY <3>4, <3>8, InputNexts
        <4>3. v.read \in Nat /\ v.read <= n
          BY <1>2, <3>1, <4>1
        <4>4. v.next = InputNext(k, known) /\ v.next = "ip4-punt"
          BY <4>1, <4>2
        <4>5. QED
          BY <1>7, <4>3, <4>4
      <3>9. QED
        BY <3>5, <3>6, <3>7, <3>8
    <2>5. QED
      BY <2>3, <2>4
  <1>11. QED
    BY <1>3, <1>4, <1>8, <1>9, <1>10

\* l2tvpp_encap_peek_dst reads what is there.
LEMMA PeekReads ==
  ASSUME NEW f, FrameOK(f)
  PROVE  EncapPeek(f).read \in Nat /\ EncapPeek(f).read <= f.len
  <1>1. PICK r, o, n : r = EncapPeek(f) /\ o = f.outer /\ n = f.len
    OBVIOUS
  <1>2. n \in Nat /\ o.tags \in {0, 1, 2}
    BY <1>1, FrameParts, FrameLen, Positions
  <1>3. \/ n < 14 /\ r.read = 0
        \/ ~(n < 14) /\ r.read = 14
        \/ ~(n < 14) /\ ~(n < 34) /\ r.read = 34
    BY <1>1 DEF EncapPeek
  <1>4. QED
    BY <1>1, <1>2, <1>3

\* The frames whose L2TP the XDP program is for.
XdpL2tp(f) == /\ f.outer.type \in {"ip4", "ip6"}
              /\ f.outer.type = "ip4" => f.outer.ihl >= 5
              /\ f.outer.frag # "later" /\ f.outer.udp /\ f.outer.port /\ f.header.ver = 2

\* l2tp_steer reads what is there and tells data from control messages.
LEMMA XdpReads ==
  ASSUME NEW f, FrameOK(f)
  PROVE  LET v == XdpVerdict(f)
             have == Len(L2tp(f))
         IN /\ v.read \in Nat /\ v.read <= f.len
            /\ v.next \in {"pass_other", "pass_ctrl", "data"}
            /\ v.next = "data" => XdpL2tp(f) /\ ~f.header.T /\ have >= FixedLen(f.header)
            /\ v.next = "pass_ctrl" => XdpL2tp(f) /\ f.header.T /\ have >= 2
            /\ v.next = "pass_other" =>
                 ~XdpL2tp(f) \/ have < (IF f.header.T THEN 2 ELSE FixedLen(f.header))
  <1>1. f.outer \in Outer /\ f.header \in Header
    BY FrameParts
  <1>2. PICK o, h, ip, u, l, n, have, end, v :
          /\ o = f.outer /\ h = f.header /\ ip = IpPos(o) /\ u = UdpPos(o)
          /\ l = L2tpPos(o) /\ n = f.len /\ have = Len(L2tp(f))
          /\ end = ip + (IF o.type = "ip6" THEN 40 ELSE 20) /\ v = XdpVerdict(f)
    OBVIOUS
  <1>3. /\ o.tags \in {0, 1, 2} /\ ip = 14 + 4 * o.tags
        /\ u = ip + (IF o.type = "ip6" THEN 40 ELSE 4 * o.ihl)
        /\ l = u + 8 /\ o.ihl \in 0 .. 15
    BY <1>1, <1>2, Positions
  <1>4. /\ n \in Nat /\ have \in Nat
        /\ n >= l => n = l + have
        /\ n < l => have = 0
    BY <1>2, FrameLen
  <1>5. o.type \in {"ip4", "ip6", "arp"} /\ h.T \in BOOLEAN /\ h.L \in BOOLEAN
    BY <1>1, <1>2, OuterFields DEF Header
  <1>6. FixedLen(h) = IF h.L THEN 8 ELSE 6
    BY DEF FixedLen
  <1>7. PICK need : need = IF h.T THEN 2 ELSE FixedLen(h)
    OBVIOUS
  <1>8. need \in Nat /\ need >= 2
    BY <1>6, <1>7
  <1>9. XdpL2tp(f) <=> /\ o.type \in {"ip4", "ip6"} /\ (o.type = "ip4" => o.ihl >= 5)
                       /\ o.frag # "later" /\ o.udp /\ o.port /\ h.ver = 2
    BY <1>2 DEF XdpL2tp
  <1>10. SUFFICES /\ v.read \in Nat /\ v.read <= n
                  /\ v.next \in {"pass_other", "pass_ctrl", "data"}
                  /\ v.next = "data" => XdpL2tp(f) /\ ~h.T /\ have >= FixedLen(h)
                  /\ v.next = "pass_ctrl" => XdpL2tp(f) /\ h.T /\ have >= 2
                  /\ v.next = "pass_other" => ~XdpL2tp(f) \/ have < need
    BY <1>2, <1>7
  <1>11. CASE n < 14
    <2>1. v = [next |-> "pass_other", read |-> 0]
      BY <1>2, <1>11 DEF XdpVerdict
    <2>2. have = 0
      BY <1>3, <1>4, <1>11
    <2>3. QED
      BY <1>4, <1>8, <2>1, <2>2
  <1>12. CASE ~(n < 14) /\ n < ip
    <2>1. v = [next |-> "pass_other", read |-> IF n < 18 THEN 14 ELSE 18]
      BY <1>2, <1>12 DEF XdpVerdict
    <2>2. have = 0
      BY <1>3, <1>4, <1>12
    <2>3. v.next = "pass_other" /\ v.read \in Nat /\ v.read <= n
      BY <1>4, <1>12, <2>1
    <2>4. QED
      BY <1>4, <1>8, <2>2, <2>3
  <1>13. CASE ~(n < 14) /\ ~(n < ip) /\ (o.type = "arp" \/ n < end)
    <2>1. v = [next |-> "pass_other", read |-> ip]
      BY <1>2, <1>13 DEF XdpVerdict
    <2>2. o.type = "arp" \/ (o.type # "ip6" /\ o.ihl < 5) \/ have = 0
      <3>1. CASE o.type = "ip6"
        <4>1. end = ip + 40 /\ u = ip + 40
          BY <1>2, <1>3, <3>1
        <4>2. QED
          BY <1>3, <1>4, <1>13, <3>1, <4>1
      <3>2. CASE o.type # "ip6" /\ o.type # "arp" /\ o.ihl >= 5
        <4>1. end = ip + 20 /\ u = ip + 4 * o.ihl
          BY <1>2, <1>3, <3>2
        <4>2. n < u
          BY <1>3, <1>4, <1>13, <3>2, <4>1
        <4>3. QED
          BY <1>3, <1>4, <4>1, <4>2
      <3>3. QED
        BY <1>3, <3>1, <3>2
    <2>3. ip \in Nat /\ ip <= n
      BY <1>3, <1>4, <1>13
    <2>4. ~XdpL2tp(f) \/ have < need
      BY <1>3, <1>4, <1>5, <1>8, <1>9, <2>2
    <2>5. QED
      BY <2>1, <2>3, <2>4
  <1>14. CASE /\ ~(n < 14) /\ ~(n < ip) /\ ~(o.type = "arp" \/ n < end)
              /\ (o.type = "ip4" /\ o.ihl < 5) \/ o.frag = "later" \/ ~o.udp \/ n < u + 8
    <2>1. v = [next |-> "pass_other", read |-> end]
      BY <1>2, <1>14 DEF XdpVerdict
    <2>2. n < u + 8 => have = 0
      BY <1>3, <1>4
    <2>3. end \in Nat /\ end <= n
      BY <1>2, <1>3, <1>4, <1>14, SMTT(60)
    <2>4. ~XdpL2tp(f) \/ have < need
      BY <1>3, <1>4, <1>8, <1>9, <1>14, <2>2
    <2>5. QED
      BY <2>1, <2>3, <2>4
  <1> DEFINE Udp == /\ ~(n < 14) /\ ~(n < ip) /\ ~(o.type = "arp" \/ n < end)
                    /\ ~((o.type = "ip4" /\ o.ihl < 5) \/ o.frag = "later" \/ ~o.udp
                            \/ n < u + 8)
  <1>15. CASE Udp /\ (~o.port \/ n < l + 2)
    <2>1. v = [next |-> "pass_other", read |-> u + 8]
      BY <1>2, <1>15 DEF XdpVerdict
    <2>2. u + 8 \in Nat /\ u + 8 <= n
      BY <1>3, <1>4, <1>15
    <2>3. n < l + 2 => have < 2
      BY <1>3, <1>4
    <2>4. ~XdpL2tp(f) \/ have < need
      BY <1>4, <1>8, <1>9, <1>15, <2>3
    <2>5. QED
      BY <2>1, <2>2, <2>4
  <1>16. CASE Udp /\ ~(~o.port \/ n < l + 2)
    <2>1. PICK fl : fl = U16(L2tp(f), 0)
      OBVIOUS
    <2>2. l \in Nat /\ n = l + have /\ have >= 2
      BY <1>3, <1>4, <1>16
    <2>3. fl % 16 = h.ver /\ (HasBit(fl, HDR_T) <=> h.T) /\ (HasBit(fl, HDR_L) <=> h.L)
      <3>1. fl = Flags(h)
        BY <1>2, <2>1, <2>2, FlagsRead
      <3>2. QED
        BY <1>1, <1>2, <3>1, FlagBits
    <2>4. XdpL2tp(f) <=> h.ver = 2
      BY <1>3, <1>5, <1>9, <1>16
    <2>5. l + 2 \in Nat /\ l + 2 <= n
      BY <1>4, <2>2
    <2>6. CASE fl % 16 # 2
      <3>1. v = [next |-> "pass_other", read |-> l + 2]
        BY <1>2, <1>16, <2>1, <2>6 DEF XdpVerdict
      <3>2. QED
        BY <2>3, <2>4, <2>5, <2>6, <3>1
    <2>7. CASE fl % 16 = 2 /\ h.T
      <3>1. v = [next |-> "pass_ctrl", read |-> l + 2]
        BY <1>2, <1>16, <2>1, <2>3, <2>7 DEF XdpVerdict
      <3>2. QED
        BY <2>2, <2>3, <2>4, <2>5, <2>7, <3>1
    <2>8. CASE fl % 16 = 2 /\ ~h.T
      <3>1. PICK ids : ids = l + (IF HasBit(fl, HDR_L) THEN 4 ELSE 2)
        OBVIOUS
      <3>2. ids \in Nat /\ ids + 4 = l + FixedLen(h)
        BY <1>6, <2>2, <2>3, <3>1
      <3>3. need = FixedLen(h) /\ need \in Nat
        BY <1>7, <1>8, <2>8
      <3>4. CASE n < ids + 4
        <4>1. v = [next |-> "pass_other", read |-> l + 2]
          BY <1>2, <1>16, <2>1, <2>3, <2>8, <3>1, <3>4 DEF XdpVerdict, XdpIdsCut
        <4>2. have < need
          BY <1>4, <2>2, <3>2, <3>3, <3>4
        <4>3. QED
          BY <2>5, <4>1, <4>2
      <3>5. CASE ~(n < ids + 4)
        <4>1. v = [next |-> "data", read |-> ids + 4]
          BY <1>2, <1>16, <2>1, <2>3, <2>8, <3>1, <3>5 DEF XdpVerdict, XdpIdsCut
        <4>2. have >= FixedLen(h) /\ ids + 4 \in Nat /\ ids + 4 <= n
          BY <1>4, <2>2, <3>2, <3>3, <3>5
        <4>3. QED
          BY <2>3, <2>4, <2>8, <4>1, <4>2
      <3>6. QED
        BY <3>4, <3>5
    <2>9. QED
      BY <2>6, <2>7, <2>8
  <1>17. QED
    BY <1>11, <1>12, <1>13, <1>14, <1>15, <1>16

-----------------------------------------------------------------------------
(* The inductive invariant *)

\* Where the frame and the buffer are, and what they have been found to be.
Place ==
  /\ node \in {"device-input", "ethernet-input", "l2tvpp-handoff", "l2tvpp-input", "done"}
  /\ node = "device-input" => current_data = 0 /\ kind = ""
  /\ node # "done" => next = ""
  /\ node \in {"l2tvpp-handoff", "l2tvpp-input"} =>
       /\ frame.len >= L2tpPos(frame.outer)
       /\ current_data = L2tpPos(frame.outer) /\ l3_hdr_offset = IpPos(frame.outer)

GivenOK == given \in [fastpath : BOOLEAN, want_hash : BOOLEAN, known : BOOLEAN]

DecapInv ==
  /\ FrameOK(frame) /\ GivenOK
  /\ read \in Nat /\ read <= frame.len
  /\ Place
  /\ VerdictMatchesLayout /\ PuntRestoresIp /\ ClassifierAgrees
  /\ HashFollowsFlow /\ XdpMatchesLayout

\* The XDP program's property, in the words of XdpReads.
LEMMA XdpLayout ==
  XdpMatchesLayout <=>
    (node = "done" =>
       /\ next = "data" => /\ XdpL2tp(frame) /\ ~frame.header.T
                           /\ Len(L2tp(frame)) >= FixedLen(frame.header)
       /\ next = "pass_ctrl" => XdpL2tp(frame) /\ frame.header.T /\ Len(L2tp(frame)) >= 2
       /\ next = "pass_other" =>
            ~XdpL2tp(frame) \/ Len(L2tp(frame)) < (IF frame.header.T THEN 2
                                                   ELSE FixedLen(frame.header)))
  BY DEF XdpMatchesLayout, XdpL2tp

\* What the classifier says of a frame agrees with its layout.
ClassOK(f, fp, w, k) ==
  /\ k = "FAST" => /\ HdrClass(KindOf(f)) = "DATA"
                   /\ f.outer.udp_valid => Delivered(f)
  /\ Datagram(f) /\ f.outer.tags < 2 => k = FlowKind(KindOf(f), fp /\ FastOuter(f), w)

\* The whole of l2tvpp_flow_classify.
LEMMA ClassifierRight ==
  ASSUME NEW f, FrameOK(f), NEW fp \in BOOLEAN, NEW w \in BOOLEAN
  PROVE  LET outer == ClassifyOuter(f, w)
             c == IF outer.kind = "l2tp" THEN ClassifyL2tp(f, fp, w) ELSE outer
             r == HighestOf(outer.read, c.read)
         IN /\ r \in Nat /\ r <= f.len
            /\ c.kind = "FAST" => f.len >= L2tpPos(f.outer)
            /\ ClassOK(f, fp, w, c.kind) /\ HashOK(f, w, c)
  <1>1. PICK outer, c, r : /\ outer = ClassifyOuter(f, w)
                           /\ c = IF outer.kind = "l2tp" THEN ClassifyL2tp(f, fp, w) ELSE outer
                           /\ r = HighestOf(outer.read, c.read)
    OBVIOUS
  <1>2. SUFFICES /\ r \in Nat /\ r <= f.len
                 /\ c.kind = "FAST" => f.len >= L2tpPos(f.outer)
                 /\ ClassOK(f, fp, w, c.kind) /\ HashOK(f, w, c)
    BY <1>1
  <1>3. f.len \in Nat /\ L2tpPos(f.outer) \in Nat
    BY FrameLen
  <1>4. outer.read \in Nat /\ outer.read <= f.len /\ outer.kind # "FAST"
    BY <1>1, OuterReads
  <1>5. CASE outer.kind = "l2tp"
    <2>1. /\ ToPort(f.outer) /\ f.len >= L2tpPos(f.outer) + 6
          /\ f.len >= IpPos(f.outer) + 20
      BY <1>1, <1>5, OuterReads
    <2>2. f.len >= L2tpPos(f.outer)
      BY <1>3, <2>1
    <2>3. c = ClassifyL2tp(f, fp, w)
      BY <1>1, <1>5
    <2>4. /\ c.read \in Nat /\ c.read <= f.len
          /\ c.kind = FlowKind(KindOf(f), fp /\ FastOuter(f), w)
          /\ c.kind = "FAST" => FastOuter(f) /\ HdrClass(KindOf(f)) = "DATA"
          /\ HashOK(f, w, c)
      BY <2>1, <2>2, <2>3, ClassifyReads
    <2>5. r \in Nat /\ r <= f.len
      BY <1>1, <1>3, <1>4, <2>4 DEF HighestOf
    <2>6. FastOuter(f) => (f.outer.udp_valid => Delivered(f))
      <3>1. f.outer.ihl = 5 => f.outer.ihl >= 5
        OBVIOUS
      <3>2. QED
        BY <2>1, <2>2, <3>1 DEF FastOuter, Delivered, Datagram
    <2>7. ClassOK(f, fp, w, c.kind)
      BY <2>4, <2>6 DEF ClassOK
    <2>8. QED
      BY <2>2, <2>4, <2>5, <2>7
  <1>6. CASE outer.kind # "l2tp"
    <2>1. c = outer
      BY <1>1, <1>6
    <2>2. r \in Nat /\ r <= f.len
      BY <1>1, <1>3, <1>4, <2>1 DEF HighestOf
    <2>3. Len(L2tp(f)) < 6 => KindOf(f) = "too_short"
      <3>1. Len(L2tp(f)) < 6 => HdrRc(f) = "TOO_SHORT"
        BY DEF HdrRc
      <3>2. QED
        BY <3>1, KindIs
    <2>4. ASSUME Datagram(f), f.outer.tags < 2
          PROVE  c.kind = FlowKind(KindOf(f), fp /\ FastOuter(f), w)
      <3>1. outer.kind = "OUTER" /\ KindOf(f) = "too_short"
        BY <1>1, <1>6, <2>3, <2>4, OuterReads
      <3>2. (fp /\ FastOuter(f)) \in BOOLEAN
        BY DEF FastOuter
      <3>3. FlowKind("too_short", fp /\ FastOuter(f), w) = "OUTER"
        BY <3>2, FlowKinds, ZenonT(60)
      <3>4. QED
        BY <2>1, <3>1, <3>3
    <2>5. ClassOK(f, fp, w, c.kind)
      BY <1>4, <2>1, <2>4 DEF ClassOK
    <2>6. HashOK(f, w, c)
      <3>1. /\ outer.hashed # 0 => /\ outer.hashed = IpPos(f.outer)
                                   /\ ToPort(f.outer) => Len(L2tp(f)) < 6
            /\ w /\ outer.hashed = 0 => outer.kind = "LOCAL"
        BY <1>1, <1>6, OuterReads
      <3>2. QED
        BY <2>1, <2>3, <3>1 DEF HashOK
    <2>7. QED
      BY <1>4, <2>1, <2>2, <2>5, <2>6
  <1>7. QED
    BY <1>5, <1>6

\* Before the parsers, nothing has been read or said.
LEMMA DecapInit == DInit => DecapInv
  <1> SUFFICES ASSUME DInit PROVE DecapInv
    OBVIOUS
  <1>1. FrameOK(frame)
    BY DEF DInit, FrameOK
  <1>2. frame.len \in Nat
    BY <1>1, FrameLen
  <1>3. read \in Nat /\ read <= frame.len
    <2>1. read = 0
      BY DEF DInit
    <2>2. QED
      BY <1>2, <2>1
  <1>4. Place
    BY DEF DInit, Place
  <1>5. node # "done" /\ kind = "" /\ next = ""
    BY DEF DInit
  <1>6. VerdictMatchesLayout /\ PuntRestoresIp /\ ClassifierAgrees
    BY <1>5 DEF VerdictMatchesLayout, PuntRestoresIp, ClassifierAgrees, ViaInput
  <1>7. HashFollowsFlow /\ XdpMatchesLayout
    BY <1>5, XdpLayout DEF HashFollowsFlow
  <1>8. GivenOK
    BY DEF DInit, GivenOK
  <1>9. QED
    BY <1>1, <1>3, <1>4, <1>6, <1>7, <1>8 DEF DecapInv

\* On the way no verdict has been given.
LEMMA OnTheWay ==
  node # "done" /\ next = "" =>
    VerdictMatchesLayout /\ PuntRestoresIp /\ XdpMatchesLayout
  <1>1. node # "done" /\ next = "" => XdpMatchesLayout
    BY XdpLayout
  <1>2. node # "done" /\ next = "" => VerdictMatchesLayout /\ PuntRestoresIp
    BY DEF VerdictMatchesLayout, PuntRestoresIp, ViaInput
  <1>3. QED
    BY <1>1, <1>2

\* A verdict of a node other than l2tvpp-input is none of l2tvpp-input's, and one of
\* l2tvpp-input none of theirs.
LEMMA OtherVerdicts ==
  /\ next \in {"elsewhere", "ip4-midchain", "pass_other", "pass_ctrl", "data"} =>
       VerdictMatchesLayout /\ PuntRestoresIp
  /\ next \notin {"pass_other", "pass_ctrl", "data"} => XdpMatchesLayout
  <1>1. next \in {"elsewhere", "ip4-midchain", "pass_other", "pass_ctrl", "data"} => ~ViaInput
    BY DEF ViaInput
  <1>2. ~ViaInput => VerdictMatchesLayout /\ PuntRestoresIp
    BY DEF VerdictMatchesLayout, PuntRestoresIp
  <1>3. next \notin {"pass_other", "pass_ctrl", "data"} => XdpMatchesLayout
    BY XdpLayout
  <1>4. QED
    BY <1>1, <1>2, <1>3

\* l2tvpp-input's two properties, in the words of InputReads.
LEMMA InputLayout ==
  /\ LayoutNext(frame, given.known, next) /\ (next \in Inner => current_data = InnerPos(frame))
       => VerdictMatchesLayout
  /\ (next = "ip4-punt" => current_data = IpPos(frame.outer)) => PuntRestoresIp
  BY DEF VerdictMatchesLayout, PuntRestoresIp, LayoutNext

\* Every step keeps the invariant.
LEMMA DecapStep == DecapInv /\ [DNext]_dvars => DecapInv'
  <1> SUFFICES ASSUME DecapInv, [DNext]_dvars PROVE DecapInv'
    OBVIOUS
  <1>1. /\ FrameOK(frame) /\ read \in Nat /\ read <= frame.len /\ Place
        /\ ClassifierAgrees /\ HashFollowsFlow /\ GivenOK
    BY DEF DecapInv
  <1>2. /\ frame.len \in Nat /\ L2tpPos(frame.outer) \in Nat /\ Len(L2tp(frame)) \in Nat
        /\ frame.len >= L2tpPos(frame.outer) =>
             frame.len = L2tpPos(frame.outer) + Len(L2tp(frame))
    BY <1>1, FrameLen
  <1>3. ASSUME frame' = frame PROVE FrameOK(frame')
    BY <1>1, <1>3
  <1>4. ASSUME frame' = frame, kind' = kind, hashed' = hashed,
               given'.fastpath = given.fastpath, given'.want_hash = given.want_hash
        PROVE  ClassifierAgrees' /\ HashFollowsFlow'
    <2>1. ClassifierAgrees'
      BY <1>1, <1>4 DEF ClassifierAgrees
    <2>2. HashFollowsFlow'
      BY <1>1, <1>4 DEF HashFollowsFlow
    <2>3. QED
      BY <2>1, <2>2
  <1>5. ASSUME node' # "done", next' = ""
        PROVE  (VerdictMatchesLayout /\ PuntRestoresIp /\ XdpMatchesLayout)'
    <2>1. (node # "done" /\ next = "" => VerdictMatchesLayout /\ PuntRestoresIp
                                           /\ XdpMatchesLayout)'
      BY OnTheWay, PTL
    <2>2. QED
      BY <1>5, <2>1
  <1>6. /\ next' \in {"elsewhere", "ip4-midchain", "pass_other", "pass_ctrl", "data"} =>
             VerdictMatchesLayout' /\ PuntRestoresIp'
        /\ next' \notin {"pass_other", "pass_ctrl", "data"} => XdpMatchesLayout'
    <2>1. (/\ next \in {"elsewhere", "ip4-midchain", "pass_other", "pass_ctrl", "data"} =>
                VerdictMatchesLayout /\ PuntRestoresIp
           /\ next \notin {"pass_other", "pass_ctrl", "data"} => XdpMatchesLayout)'
      BY OtherVerdicts, PTL
    <2>2. QED
      BY <2>1
  <1>7. ASSUME NEW fp \in BOOLEAN, NEW w \in BOOLEAN, FlowHandoff(fp, w) PROVE DecapInv'
    <2>1. PICK outer, c, r :
            /\ outer = ClassifyOuter(frame, w)
            /\ c = IF outer.kind = "l2tp" THEN ClassifyL2tp(frame, fp, w) ELSE outer
            /\ r = HighestOf(outer.read, c.read)
      OBVIOUS
    <2>2. /\ node = "device-input" /\ kind' = c.kind /\ hashed' = c.hashed /\ read' = r
          /\ frame' = frame /\ next' = next
          /\ given' = [given EXCEPT !.fastpath = fp, !.want_hash = w]
          /\ \/ /\ c.kind = "FAST" /\ current_data' = L2tpPos(frame.outer)
                /\ l3_hdr_offset' = FastL3 /\ node' = "l2tvpp-input"
             \/ c.kind # "FAST" /\ node' = "ethernet-input"
      BY <1>7, <2>1 DEF FlowHandoff
    <2>3. /\ r \in Nat /\ r <= frame.len
          /\ c.kind = "FAST" => frame.len >= L2tpPos(frame.outer)
          /\ ClassOK(frame, fp, w, c.kind) /\ HashOK(frame, w, c)
      BY <1>1, <2>1, ClassifierRight, ZenonT(60)
    <2>4. current_data = 0 /\ next = ""
      BY <1>1, <2>2 DEF Place
    <2>5. Place'
      <3>1. FastL3 = IpPos(frame.outer)
        <4>1. IpPos(frame.outer) \in Nat
          BY <1>1, FrameParts, Positions
        <4>2. QED
          <5>1. PICK ip : ip = IpPos(frame.outer)
            OBVIOUS
          <5>2. FastL3 = 0 + ip
            BY <2>4, <5>1 DEF FastL3
          <5>3. QED
            BY <4>1, <5>1, <5>2
      <3>2. CASE c.kind = "FAST"
        BY <2>2, <2>3, <2>4, <3>1, <3>2 DEF Place
      <3>3. CASE c.kind # "FAST"
        BY <2>2, <2>4, <3>3 DEF Place
      <3>4. QED
        BY <3>2, <3>3
    <2>6. GivenOK' /\ given'.fastpath = fp /\ given'.want_hash = w
      BY <1>1, <2>2 DEF GivenOK
    <2>7. ClassifierAgrees'
      BY <2>2, <2>3, <2>6 DEF ClassifierAgrees, ClassOK
    <2>8. HashFollowsFlow'
      BY <2>2, <2>3, <2>6 DEF HashFollowsFlow, HashOK
    <2>9. node' # "done" /\ next' = ""
      BY <2>2, <2>4
    <2>10. QED
      BY <1>3, <1>5, <2>2, <2>3, <2>5, <2>6, <2>7, <2>8, <2>9 DEF DecapInv
  <1>8. ASSUME DeviceInput PROVE DecapInv'
    <2>1. /\ node = "device-input" /\ node' = "ethernet-input" /\ frame' = frame
          /\ kind' = kind /\ read' = read /\ next' = next
          /\ hashed' = hashed /\ given' = given
      BY <1>8 DEF DeviceInput
    <2>2. next' = "" /\ node' # "done"
      BY <1>1, <2>1 DEF Place
    <2>3. Place'
      BY <2>1, <2>2 DEF Place
    <2>4. GivenOK'
      BY <1>1, <2>1 DEF GivenOK
    <2>5. QED
      BY <1>1, <1>3, <1>4, <1>5, <2>1, <2>2, <2>3, <2>4 DEF DecapInv
  <1>9. ASSUME EthernetInput PROVE DecapInv'
    <2>1. /\ node = "ethernet-input" /\ frame' = frame /\ kind' = kind /\ read' = read
          /\ hashed' = hashed /\ given' = given
      BY <1>9 DEF EthernetInput
    <2>2. next = ""
      BY <1>1, <2>1 DEF Place
    <2>3. GivenOK'
      BY <1>1, <2>1 DEF GivenOK
    <2>4. CASE Delivered(frame)
      <3>1. /\ current_data' = L2tpPos(frame.outer) /\ l3_hdr_offset' = IpPos(frame.outer)
            /\ node' \in {"l2tvpp-handoff", "l2tvpp-input"} /\ next' = next
        BY <1>9, <2>4 DEF EthernetInput
      <3>2. Place'
        BY <2>1, <2>2, <2>4, <3>1 DEF Place, Delivered, Datagram
      <3>3. node' # "done" /\ next' = ""
        BY <2>2, <3>1
      <3>4. QED
        BY <1>1, <1>3, <1>4, <1>5, <2>1, <2>3, <3>2, <3>3 DEF DecapInv
    <2>5. CASE ~Delivered(frame)
      <3>1. node' = "done" /\ next' = "elsewhere"
        BY <1>9, <2>5 DEF EthernetInput
      <3>2. Place'
        BY <3>1 DEF Place
      <3>3. (VerdictMatchesLayout /\ PuntRestoresIp /\ XdpMatchesLayout)'
        BY <1>6, <3>1
      <3>4. QED
        BY <1>1, <1>3, <1>4, <2>1, <2>3, <3>2, <3>3 DEF DecapInv
    <2>6. QED
      BY <2>4, <2>5
  <1>10. ASSUME HandoffPeek PROVE DecapInv'
    <2>1. PICK h : h = ParseHdr(L2tp(frame))
      OBVIOUS
    <2>2. /\ node = "l2tvpp-handoff" /\ node' = "l2tvpp-input" /\ frame' = frame
          /\ read' = HighestOf(read, current_data + h.read)
          /\ current_data' = current_data /\ l3_hdr_offset' = l3_hdr_offset
          /\ kind' = kind /\ next' = next /\ hashed' = hashed /\ given' = given
      BY <1>10, <2>1 DEF HandoffPeek
    <2>3. /\ frame.len >= L2tpPos(frame.outer) /\ current_data = L2tpPos(frame.outer)
          /\ l3_hdr_offset = IpPos(frame.outer) /\ next = ""
      BY <1>1, <2>2 DEF Place
    <2>4. h.read \in Nat /\ h.read <= Len(L2tp(frame))
      BY <1>1, <2>1, ParseFrame
    <2>5. frame.len = L2tpPos(frame.outer) + Len(L2tp(frame))
      BY <1>2, <2>3
    <2>6. read' \in Nat /\ read' <= frame.len
      <3>1. PICK l, n, m : /\ l = L2tpPos(frame.outer) /\ n = Len(L2tp(frame)) /\ m = h.read
        OBVIOUS
      <3>2. /\ l \in Nat /\ n \in Nat /\ m \in Nat /\ m <= n /\ frame.len = l + n
            /\ read' = HighestOf(read, l + m)
        BY <1>2, <2>2, <2>3, <2>4, <2>5, <3>1
      <3>3. QED
        BY <1>1, <3>2 DEF HighestOf
    <2>7. Place' /\ node' # "done" /\ next' = ""
      BY <2>2, <2>3 DEF Place
    <2>8. GivenOK'
      BY <1>1, <2>2 DEF GivenOK
    <2>9. QED
      BY <1>3, <1>4, <1>5, <2>2, <2>6, <2>7, <2>8 DEF DecapInv
  <1>11. ASSUME NEW known \in BOOLEAN, NEW nc \in BOOLEAN, Input(known, nc) PROVE DecapInv'
    <2>1. PICK v : v = InputVerdict(L2tp(frame), known, nc)
      OBVIOUS
    <2>2. /\ node = "l2tvpp-input" /\ node' = "done" /\ next' = v.next
          /\ read' = HighestOf(read, current_data + v.read)
          /\ current_data' = IF v.next = "ip4-punt" THEN Rewind ELSE current_data + v.advance
          /\ frame' = frame /\ kind' = kind /\ hashed' = hashed
          /\ given' = [given EXCEPT !.known = known]
      BY <1>11, <2>1 DEF Input
    <2>3. /\ frame.len >= L2tpPos(frame.outer) /\ current_data = L2tpPos(frame.outer)
          /\ l3_hdr_offset = IpPos(frame.outer)
      BY <1>1, <2>2 DEF Place
    <2>4. /\ v.read \in Nat /\ v.read <= Len(L2tp(frame))
          /\ v.next \in Inner \cup {"error-drop", "ip4-punt"}
          /\ LayoutNext(frame, known, v.next)
          /\ v.next \in Inner =>
               v.advance = PppStart(frame.header) + Len(PppOctets(frame.payload))
      BY <1>1, <2>1, InputReads
    <2>5. frame.len = L2tpPos(frame.outer) + Len(L2tp(frame))
      BY <1>2, <2>3
    <2>6. read' \in Nat /\ read' <= frame.len
      BY <1>1, <1>2, <2>2, <2>3, <2>4, <2>5 DEF HighestOf
    <2>7. Place'
      BY <2>2 DEF Place
    <2>8. /\ GivenOK' /\ given'.known = known
           /\ given'.fastpath = given.fastpath /\ given'.want_hash = given.want_hash
      BY <1>1, <2>2 DEF GivenOK
    <2>9. VerdictMatchesLayout'
      <3>1. v.next \in Inner => current_data' = InnerPos(frame)
        <4>1. SUFFICES ASSUME v.next \in Inner PROVE current_data' = InnerPos(frame)
          OBVIOUS
        <4>2. v.next # "ip4-punt"
          BY <4>1 DEF Inner
        <4>3. PICK l, s, m : /\ l = L2tpPos(frame.outer) /\ s = PppStart(frame.header)
                             /\ m = Len(PppOctets(frame.payload))
          OBVIOUS
        <4>4. l \in Nat /\ s \in Nat /\ m \in Nat
          BY <1>1, <1>2, <4>3, Sizes
        <4>5. current_data' = l + (s + m) /\ InnerPos(frame) = l + s + m
          BY <2>2, <2>3, <2>4, <4>1, <4>2, <4>3 DEF InnerPos
        <4>6. QED
          BY <4>4, <4>5
      <3>2. (LayoutNext(frame, given.known, next) /\ (next \in Inner => current_data = InnerPos(frame))
               => VerdictMatchesLayout)'
        BY InputLayout, PTL
      <3>3. /\ LayoutNext(frame, given.known, next)'
            /\ (next \in Inner => current_data = InnerPos(frame))'
        BY <2>2, <2>4, <2>8, <3>1
      <3>4. QED
        BY <3>2, <3>3
    <2>10. PuntRestoresIp'
      <3>1. ((next = "ip4-punt" => current_data = IpPos(frame.outer)) => PuntRestoresIp)'
        BY InputLayout, PTL
      <3>2. (next = "ip4-punt" => current_data = IpPos(frame.outer))'
        BY <2>2, <2>3 DEF Rewind
      <3>3. QED
        BY <3>1, <3>2
    <2>11. XdpMatchesLayout'
      <3>1. next' \notin {"pass_other", "pass_ctrl", "data"}
        BY <2>2, <2>4 DEF Inner
      <3>2. QED
        BY <1>6, <3>1
    <2>12. QED
      BY <1>3, <1>4, <2>2, <2>6, <2>7, <2>9, <2>10, <2>11, <2>8 DEF DecapInv
  <1>12. ASSUME NEW cached \in BOOLEAN, EncapFastpath(cached) PROVE DecapInv'
    <2>1. PICK r : r = EncapPeek(frame)
      OBVIOUS
    <2>2. /\ node = "device-input" /\ read' = r.read /\ frame' = frame /\ kind' = kind
          /\ hashed' = hashed /\ given' = given
          /\ \/ node' = "done" /\ next' = "ip4-midchain"
             \/ node' = "ethernet-input" /\ next' = next
      BY <1>12, <2>1 DEF EncapFastpath
    <2>3. r.read \in Nat /\ r.read <= frame.len
      BY <1>1, <2>1, PeekReads
    <2>4. next = ""
      BY <1>1, <2>2 DEF Place
    <2>5. GivenOK'
      BY <1>1, <2>2 DEF GivenOK
    <2>6. CASE node' = "done" /\ next' = "ip4-midchain"
      <3>1. Place'
        BY <2>6 DEF Place
      <3>2. (VerdictMatchesLayout /\ PuntRestoresIp /\ XdpMatchesLayout)'
        BY <1>6, <2>6
      <3>3. QED
        BY <1>3, <1>4, <2>2, <2>3, <2>5, <3>1, <3>2 DEF DecapInv
    <2>7. CASE node' = "ethernet-input" /\ next' = next
      <3>1. Place' /\ node' # "done" /\ next' = ""
        BY <2>4, <2>7 DEF Place
      <3>2. QED
        BY <1>3, <1>4, <1>5, <2>2, <2>3, <2>5, <3>1 DEF DecapInv
    <2>8. QED
      BY <2>2, <2>6, <2>7
  <1>13. ASSUME XdpProgram PROVE DecapInv'
    <2>1. PICK v : v = XdpVerdict(frame)
      OBVIOUS
    <2>2. /\ node' = "done" /\ next' = v.next /\ read' = v.read
          /\ frame' = frame /\ kind' = kind /\ hashed' = hashed /\ given' = given
      BY <1>13, <2>1 DEF XdpProgram
    <2>3. /\ v.read \in Nat /\ v.read <= frame.len
          /\ v.next \in {"pass_other", "pass_ctrl", "data"}
          /\ v.next = "data" => /\ XdpL2tp(frame) /\ ~frame.header.T
                                /\ Len(L2tp(frame)) >= FixedLen(frame.header)
          /\ v.next = "pass_ctrl" => XdpL2tp(frame) /\ frame.header.T /\ Len(L2tp(frame)) >= 2
          /\ v.next = "pass_other" =>
               ~XdpL2tp(frame) \/ Len(L2tp(frame)) < (IF frame.header.T THEN 2
                                                      ELSE FixedLen(frame.header))
      BY <1>1, <2>1, XdpReads
    <2>4. Place'
      BY <2>2 DEF Place
    <2>5. XdpMatchesLayout'
      <3>1. (XdpMatchesLayout <=>
              (node = "done" =>
                 /\ next = "data" => /\ XdpL2tp(frame) /\ ~frame.header.T
                                     /\ Len(L2tp(frame)) >= FixedLen(frame.header)
                 /\ next = "pass_ctrl" =>
                      XdpL2tp(frame) /\ frame.header.T /\ Len(L2tp(frame)) >= 2
                 /\ next = "pass_other" =>
                      ~XdpL2tp(frame) \/ Len(L2tp(frame)) < (IF frame.header.T THEN 2
                                                             ELSE FixedLen(frame.header))))'
        BY XdpLayout, PTL
      <3>2. QED
        BY <2>2, <2>3, <3>1
    <2>6. (VerdictMatchesLayout /\ PuntRestoresIp)'
      BY <1>6, <2>2, <2>3
    <2>7. GivenOK'
      BY <1>1, <2>2 DEF GivenOK
    <2>8. QED
      BY <1>3, <1>4, <2>2, <2>3, <2>4, <2>5, <2>6, <2>7 DEF DecapInv
  <1>14. ASSUME UNCHANGED dvars PROVE DecapInv'
    <2>1. /\ frame' = frame /\ node' = node /\ current_data' = current_data
          /\ l3_hdr_offset' = l3_hdr_offset /\ kind' = kind /\ read' = read /\ next' = next
          /\ hashed' = hashed /\ given' = given
      BY <1>14 DEF dvars
    <2>2. Place'
      BY <1>1, <2>1 DEF Place
    <2>3. VerdictMatchesLayout' /\ PuntRestoresIp'
      BY <2>1 DEF DecapInv, VerdictMatchesLayout, PuntRestoresIp, ViaInput
    <2>4. GivenOK'
      BY <1>1, <2>1 DEF GivenOK
    <2>5. XdpMatchesLayout'
      BY <2>1 DEF DecapInv, XdpMatchesLayout
    <2>6. QED
      BY <1>1, <1>3, <1>4, <2>1, <2>2, <2>3, <2>4, <2>5 DEF DecapInv
  <1>15. QED
    BY <1>7, <1>8, <1>9, <1>10, <1>11, <1>12, <1>13, <1>14 DEF DNext, Finished

-----------------------------------------------------------------------------
(* The theorems *)

\* The inductive invariant holds on every way through the nodes.
THEOREM DecapInvariant == DSpec => []DecapInv
  BY DecapInit, DecapStep, PTL DEF DSpec

\* No parser reads past the end of the frame (l2tvpp.h:157, node.c:171), for every
\* flag, offset, compression and inner packet, and wherever the frame is cut off.
THEOREM ReadsInside == DSpec => []NoReadPastEnd
  <1>1. DecapInv => NoReadPastEnd
    BY DEF DecapInv, NoReadPastEnd
  <1>2. QED
    BY <1>1, DecapInvariant, PTL

\* l2tvpp-input (node.c) does with every frame what its layout calls for and starts the
\* inner packet at its own first octet, whichever nodes the frame came through.
THEOREM InputRight == DSpec => []VerdictMatchesLayout
  <1>1. DecapInv => VerdictMatchesLayout
    BY DEF DecapInv
  <1>2. QED
    BY <1>1, DecapInvariant, PTL

\* A punted frame is given back at its outer IP header (l2tvpp_rewind_to_ip), also when
\* it took the fast path and never met ip4-input.
THEOREM PuntsRestored == DSpec => []PuntRestoresIp
  <1>1. DecapInv => PuntRestoresIp
    BY DEF DecapInv
  <1>2. QED
    BY <1>1, DecapInvariant, PTL

\* The flow classifier (flow_handoff.c) agrees with l2tvpp-input on every datagram to
\* udp/1701, whatever its flags, offset, compression and cut, and what it takes to the
\* fast path is L2TPv2 data that the nodes it skips would have delivered, were it not
\* for the UDP length and checksum.
THEOREM ClassifierSound == DSpec => []ClassifierAgrees
  <1>1. DecapInv => ClassifierAgrees
    BY DEF DecapInv
  <1>2. QED
    BY <1>1, DecapInvariant, PTL

\* The XDP program (l2tp_steer.bpf.c) steers exactly the L2TPv2 data whose ids are in
\* the frame, for every frame.
THEOREM XdpRight == DSpec => []XdpMatchesLayout
  <1>1. DecapInv => XdpMatchesLayout
    BY DEF DecapInv
  <1>2. QED
    BY <1>1, DecapInvariant, PTL

\* The header whose hash picks the worker (flow_handoff.c) is the inner one, at the octet
\* where l2tvpp-input starts the inner packet, for every packet that has one, and the
\* outer one or none for the others, fast path or not.
THEOREM FlowsHashed == DSpec => []HashFollowsFlow
  <1>1. DecapInv => HashFollowsFlow
    BY DEF DecapInv
  <1>2. QED
    BY <1>1, DecapInvariant, PTL

=============================================================================
