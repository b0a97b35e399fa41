---------------------------- MODULE ColourProofs ----------------------------
(***************************************************************************)
(* Proofs about the colours on the PixelPath: a conversion of the shim and *)
(* one for an encoder read every pixel at its place, and what they make of *)
(* its bytes is what the names of the two formats say, to within the       *)
(* rounding of the arithmetic.                                             *)
(***************************************************************************)
EXTENDS PixelPathProofs

(* Numbers. *)

(* The quotient and the remainder of a number that is given by both. *)
LEMMA Divided ==
  ASSUME NEW n \in Nat \ {0}, NEW q \in Nat, NEW r \in 0..n - 1
  PROVE  /\ q * n + r \in Nat
         /\ (q * n + r) \div n = q /\ (q * n + r) % n = r
<1> DEFINE m == q * n + r
           d == m \div n
           e == m % n
<1>1. m \in Nat
  <2>1. q * n \in Nat
    BY ProductInNat
  <2> QED
    BY <2>1
<1> HIDE DEF m
<1>2. d \in Nat /\ e \in 0..n - 1 /\ m = n * d + e
  BY <1>1, SMT
<1> HIDE DEF d, e
<1>3. d * n + e = q * n + r
  BY <1>2, SMT DEF m
<1>4. d = q /\ e = r
  BY <1>2, <1>3, OneQuotient
<1> QED
  BY <1>1, <1>4 DEF m, d, e

(* A quotient lies between its bounds. *)
LEMMA QuotientBounds ==
  ASSUME NEW m \in Nat, NEW n \in Nat \ {0}
  PROVE  /\ m \div n \in Nat
         /\ (m \div n) * n <= m /\ m < (m \div n) * n + n
BY SMT

(* A byte over white is the nearest to the exact value. *)
LEMMA OnWhite ==
  ASSUME NEW c \in Byte, NEW a \in Byte
  PROVE  IsOnWhite(OverWhite(c, a), c, a)
<1> DEFINE exact == c * a + 255 * (255 - a)
           v == (exact + 127) \div 255
<1>1. exact \in Nat
  <2>1. c * a \in Nat
    BY ProductInNat DEF Byte
  <2> QED
    BY <2>1 DEF Byte
<1> HIDE DEF exact
<1>2. v \in Nat /\ 255 * v <= exact + 127 /\ exact + 127 < 255 * v + 255
  BY <1>1, SMT
<1>3. 255 * v <= exact + 127 /\ exact <= 255 * v + 127
  BY <1>1, <1>2, SMT
<1>4. OverWhite(c, a) = v
  BY DEF OverWhite, exact
<1> QED
  BY <1>3, <1>4 DEF IsOnWhite, exact

(* The gray of a colour is a byte, and the level that its name says. *)
LEMMA LumaIsLevel ==
  ASSUME NEW c, c.r \in Byte, c.g \in Byte, c.b \in Byte
  PROVE  Luma(c) \in Byte /\ IsLevel(Luma(c), c)
<1> DEFINE sum == 30 * c.r + 59 * c.g + 11 * c.b
           v == sum \div 100
<1>1. sum \in Nat /\ sum <= 25500
  <2> DEFINE r == c.r
             g == c.g
             b == c.b
  <2>1. r \in 0..255 /\ g \in 0..255 /\ b \in 0..255
    BY DEF Byte
  <2> HIDE DEF r, g, b
  <2>2. 30 * r + 59 * g + 11 * b \in Nat /\ 30 * r + 59 * g + 11 * b <= 25500
    BY <2>1, SMT
  <2> QED
    BY <2>2 DEF r, g, b
<1> HIDE DEF sum
<1>2. v \in Nat /\ v * 100 <= sum /\ sum < v * 100 + 100
  BY <1>1, QuotientBounds
<1> HIDE DEF v
<1>3. v \in 0..255 /\ 100 * v <= sum /\ sum < 100 * (v + 1)
  BY <1>1, <1>2, SMT
<1> QED
  BY <1>3 DEF Luma, IsLevel, Byte, sum, v

(* Undoing a premultiplication gives a byte; the byte that was meant, when the
   colour does not exceed its alpha. *)
LEMMA UnpremultiplyFacts ==
  ASSUME NEW v \in Byte, NEW a \in Byte
  PROVE  /\ Unpremultiply(v, a) \in Byte
         /\ v <= a => IsPremultiplied(v, Unpremultiply(v, a), a)
<1>1. CASE a = 0
  BY <1>1 DEF Unpremultiply, IsPremultiplied, Byte
<1>2. CASE a # 0
  <2> DEFINE q == (v * 255) \div a
  <2>1. q \in Nat /\ q * a <= v * 255 /\ v * 255 < q * a + a
    BY <1>2, QuotientBounds DEF Byte
  <2>2. Unpremultiply(v, a) = Capped(q)
    BY <1>2 DEF Unpremultiply
  <2> HIDE DEF q
  <2>3. Capped(q) \in Byte
    BY <2>1 DEF Capped, Byte
  <2>4. ASSUME v <= a
        PROVE  q <= 255
    <3> SUFFICES ASSUME 256 <= q PROVE FALSE
      BY <2>1
    <3>1. 256 * a <= q * a
      BY <1>2, <2>1, Grows DEF Byte
    <3> QED
      BY <1>2, <2>1, <2>4, <3>1, SMT DEF Byte
  <2>5. ASSUME v <= a
        PROVE  IsPremultiplied(v, q, a)
    <3>1. (q + 1) * a = q * a + a
      BY <2>1, SMT DEF Byte
    <3> QED
      BY <1>2, <2>1, <3>1, SMT DEF IsPremultiplied, Byte
  <2> QED
    BY <2>1, <2>2, <2>3, <2>4, <2>5 DEF Capped
<1> QED
  BY <1>1, <1>2
-----------------------------------------------------------------------------
(* Formats of a byte a channel. *)

HasLetter(f, l) == \E i \in DOMAIN Letters(f) : Letters(f)[i] = l

(* Places finds in byte k of a pixel the channel whose letter is l; a gray byte is
   each of the colours. *)
Finds(f, l, k) ==
  LET slots == Places(f)
  IN  \/ l = "y" /\ slots[1] = k /\ slots[2] = k /\ slots[3] = k
      \/ l = "r" /\ slots[1] = k
      \/ l = "g" /\ slots[2] = k
      \/ l = "b" /\ slots[3] = k
      \/ l = "a" /\ Len(slots) = 4 /\ slots[4] = k

(* Each byte of a pixel has a letter in the format's name, Places finds each channel
   where its letter stands, and there is alpha when there is a letter for it. *)
LEMMA PlacesAreLetters ==
  ASSUME NEW f \in Narrow
  PROVE  /\ DOMAIN Letters(f) = 1..BytesPerPixel(f)
         /\ \A i \in DOMAIN Letters(f) : Finds(f, Letters(f)[i], i - 1)
         /\ Len(Places(f)) \in {3, 4}
         /\ Len(Places(f)) = 4 <=> HasLetter(f, "a")
         /\ \A i \in 1..Len(Places(f)) : Places(f)[i] \in 0..BytesPerPixel(f) - 1
         /\ f \in Premultiplied8 => Len(Places(f)) = 4
         /\ HasLetter(f, "y") => Places(f)[1] = Places(f)[2] /\ Places(f)[2] = Places(f)[3]
<1>1. CASE f = "G8"
  <2>1. Letters(f) = <<"y">> /\ Places(f) = <<0, 0, 0>>
        /\ BytesPerPixel(f) = 1 /\ f \notin Premultiplied8
    BY <1>1, SMT DEF Letters, Places, BytesPerPixel, Premultiplied8
  <2> QED
    BY <2>1, SMT DEF Finds, HasLetter
<1>2. CASE f \in {"G8A8", "G8A8_PRE"}
  <2>1. Letters(f) = <<"y", "a">> /\ Places(f) = <<0, 0, 0, 1>>
        /\ BytesPerPixel(f) = 2
    BY <1>2, SMT DEF Letters, Places, BytesPerPixel, Premultiplied8
  <2> QED
    BY <2>1, SMT DEF Finds, HasLetter
<1>3. CASE f = "R8G8B8"
  <2>1. Letters(f) = <<"r", "g", "b">> /\ Places(f) = <<0, 1, 2>>
        /\ BytesPerPixel(f) = 3 /\ f \notin Premultiplied8
    BY <1>3, SMT DEF Letters, Places, BytesPerPixel, Premultiplied8
  <2> QED
    BY <2>1, SMT DEF Finds, HasLetter
<1>4. CASE f = "B8G8R8"
  <2>1. Letters(f) = <<"b", "g", "r">> /\ Places(f) = <<2, 1, 0>>
        /\ BytesPerPixel(f) = 3 /\ f \notin Premultiplied8
    BY <1>4, SMT DEF Letters, Places, BytesPerPixel, Premultiplied8
  <2> QED
    BY <2>1, SMT DEF Finds, HasLetter
<1>5. CASE f \in {"R8G8B8A8", "R8G8B8A8_PRE"}
  <2>1. Letters(f) = <<"r", "g", "b", "a">> /\ Places(f) = <<0, 1, 2, 3>>
        /\ BytesPerPixel(f) = 4
    BY <1>5, SMT DEF Letters, Places, BytesPerPixel, Premultiplied8
  <2> QED
    BY <2>1, SMT DEF Finds, HasLetter
<1>6. CASE f \in {"B8G8R8A8", "B8G8R8A8_PRE"}
  <2>1. Letters(f) = <<"b", "g", "r", "a">> /\ Places(f) = <<2, 1, 0, 3>>
        /\ BytesPerPixel(f) = 4
    BY <1>6, SMT DEF Letters, Places, BytesPerPixel, Premultiplied8
  <2> QED
    BY <2>1, SMT DEF Finds, HasLetter
<1>7. CASE f \in {"A8R8G8B8", "A8R8G8B8_PRE"}
  <2>1. Letters(f) = <<"a", "r", "g", "b">> /\ Places(f) = <<1, 2, 3, 0>>
        /\ BytesPerPixel(f) = 4
    BY <1>7, SMT DEF Letters, Places, BytesPerPixel, Premultiplied8
  <2> QED
    BY <2>1, SMT DEF Finds, HasLetter
<1>8. CASE f = "A8B8G8R8"
  <2>1. Letters(f) = <<"a", "b", "g", "r">> /\ Places(f) = <<3, 2, 1, 0>>
        /\ BytesPerPixel(f) = 4
    BY <1>8, SMT DEF Letters, Places, BytesPerPixel, Premultiplied8
  <2> QED
    BY <2>1, SMT DEF Finds, HasLetter
<1> QED
  BY <1>1, <1>2, <1>3, <1>4, <1>5, <1>6, <1>7, <1>8 DEF Narrow

(* The alpha of a pixel, and the colour that is read from place i. *)
AlphaOf(f, p) == IF Len(Places(f)) = 4 THEN p[Places(f)[4]] ELSE 255
ChannelOf(f, p, i) ==
  IF f \in Premultiplied8 THEN Unpremultiply(p[Places(f)[i]], AlphaOf(f, p))
  ELSE p[Places(f)[i]]

LEMMA SampleIs ==
  ASSUME NEW f, NEW p
  PROVE  SampleRgba8(f, p) =
           [r |-> ChannelOf(f, p, 1), g |-> ChannelOf(f, p, 2), b |-> ChannelOf(f, p, 3),
            a |-> AlphaOf(f, p)]
BY DEF SampleRgba8, ChannelOf, AlphaOf

(* The colour of a pixel consists of bytes. *)
LEMMA SampleIsByte ==
  ASSUME NEW f \in Narrow, NEW p \in [0..BytesPerPixel(f) - 1 -> Byte]
  PROVE  LET c == SampleRgba8(f, p)
         IN  c.r \in Byte /\ c.g \in Byte /\ c.b \in Byte /\ c.a \in Byte
<1> DEFINE slots == Places(f)
<1>1. Len(slots) \in {3, 4} /\ \A i \in 1..Len(slots) : p[slots[i]] \in Byte
  BY PlacesAreLetters
<1> HIDE DEF slots
<1>2. AlphaOf(f, p) \in Byte
  <2>1. 255 \in Byte
    BY SMT DEF Byte
  <2>2. Len(slots) = 4 => 4 \in 1..Len(slots)
    BY SMT
  <2> QED
    BY <1>1, <2>1, <2>2 DEF AlphaOf, slots
<1>3. \A i \in 1..3 : ChannelOf(f, p, i) \in Byte
  <2> DEFINE n == Len(slots)
  <2>0. n = 3 \/ n = 4
    BY <1>1
  <2> HIDE DEF n
  <2>1. \A i \in 1..3 : i \in 1..n
    BY <2>0, SMT
  <2>2. \A i \in 1..3 : p[slots[i]] \in Byte
    BY <1>1, <2>1 DEF n
  <2> QED
    BY <1>2, <2>2, UnpremultiplyFacts DEF ChannelOf, slots
<1>4. 1 \in 1..3 /\ 2 \in 1..3 /\ 3 \in 1..3
  BY SMT
<1> QED
  BY <1>2, <1>3, <1>4, SampleIs

(* A pixel of a premultiplied format holds colours: none exceeds the alpha. *)
FitsAlpha(f, p) ==
  f \in Premultiplied8 => \A k \in 0..BytesPerPixel(f) - 1 : p[k] <= AlphaOf(f, p)

(* The colour that is read of a pixel is the one that its format says. *)
LEMMA SampleShows ==
  ASSUME NEW f \in Narrow, NEW p \in [0..BytesPerPixel(f) - 1 -> Byte], FitsAlpha(f, p)
  PROVE  Shows(f, p, SampleRgba8(f, p)) /\ Plain(f, SampleRgba8(f, p))
<1> DEFINE c == SampleRgba8(f, p)
           a == AlphaOf(f, p)
<1>1. /\ c.r = ChannelOf(f, p, 1) /\ c.g = ChannelOf(f, p, 2) /\ c.b = ChannelOf(f, p, 3)
      /\ c.a = a /\ a \in Byte
      /\ c.r \in Byte /\ c.g \in Byte /\ c.b \in Byte
  BY SampleIs, SampleIsByte
<1>2. SUFFICES Shows(f, p, c) /\ Plain(f, c)
  OBVIOUS
<1> HIDE DEF c, a
<1>3. ASSUME NEW i \in DOMAIN Letters(f)
      PROVE  Says(f, Letters(f)[i], p[i - 1], c)
  <2> DEFINE l == Letters(f)[i]
             v == p[i - 1]
             Read == IF f \in Premultiplied8 THEN Unpremultiply(v, a) ELSE v
  <2>1. Finds(f, l, i - 1) /\ i - 1 \in 0..BytesPerPixel(f) - 1
    <3>1. i \in 1..BytesPerPixel(f) /\ Finds(f, l, i - 1)
      BY PlacesAreLetters
    <3>2. BytesPerPixel(f) \in Nat
      BY BytesArePositive DEF Formats
    <3> QED
      BY <3>1, <3>2
  <2>2. v \in Byte
    BY <2>1
  <2>3. f \in Premultiplied8 => IsPremultiplied(v, Unpremultiply(v, a), a)
    BY <1>1, <2>1, <2>2, UnpremultiplyFacts DEF FitsAlpha, a
  <2>4. 100 * v <= 30 * v + 59 * v + 11 * v /\ 30 * v + 59 * v + 11 * v < 100 * (v + 1)
    <3> HIDE DEF v
    <3> QED
      BY <2>2, SMT DEF Byte
  <2> HIDE DEF l
  <2>5. CASE l = "a"
    <3>1. c.a = v
      BY <1>1, <2>1, <2>5 DEF Finds, AlphaOf, a
    <3> QED
      BY <2>5, <3>1 DEF Says, l
  <2>6. CASE l = "y"
    <3>1. c.r = Read /\ c.g = Read /\ c.b = Read
      BY <1>1, <2>1, <2>6 DEF Finds, ChannelOf, a
    <3>2. f \notin Premultiplied8 => IsLevel(v, c)
      BY <2>4, <3>1 DEF IsLevel
    <3> QED
      BY <1>1, <2>3, <2>6, <3>1, <3>2 DEF Says, l
  <2>7. CASE l \in {"r", "g", "b"}
    <3>1. c[l] = Read
      BY <1>1, <2>1, <2>7 DEF Finds, ChannelOf, a
    <3> QED
      BY <1>1, <2>3, <2>7, <3>1 DEF Says, l
  <2> QED
    BY <2>1, <2>5, <2>6, <2>7 DEF Finds
<1>4. Plain(f, c)
  <2>1. ~HasLetter(f, "a") => c.a = 255
    BY <1>1, PlacesAreLetters DEF AlphaOf, a
  <2>2. HasLetter(f, "y") => c.r = c.g /\ c.g = c.b
    BY <1>1, PlacesAreLetters DEF ChannelOf
  <2> QED
    BY <2>1, <2>2 DEF Plain, HasLetter
<1> QED
  BY <1>3, <1>4 DEF Shows

(* The formats that the shim converts to. *)
Targets == {"R8G8B8A8", "B8G8R8A8", "A8R8G8B8", "R8G8B8", "B8G8R8", "G8A8", "G8"}

(* The bytes that are written for a colour are what the format says of it. *)
LEMMA EmitShows ==
  ASSUME NEW f \in Targets, NEW c,
         c.r \in Byte, c.g \in Byte, c.b \in Byte, c.a \in Byte
  PROVE  \A i \in 1..BytesPerPixel(f) :
           EmitPixel(f, c)[i] \in Byte /\ Says(f, Letters(f)[i], EmitPixel(f, c)[i], c)
<1> DEFINE e == EmitPixel(f, c)
<1>1. f \notin Premultiplied8
  BY DEF Targets, Premultiplied8
<1>2. Luma(c) \in Byte /\ IsLevel(Luma(c), c)
  BY LumaIsLevel
<1>3. CASE f = "R8G8B8A8"
  <2>1. Letters(f) = <<"r", "g", "b", "a">> /\ e = <<c.r, c.g, c.b, c.a>> /\ BytesPerPixel(f) = 4
    BY <1>3, SMT DEF Letters, EmitPixel, BytesPerPixel, Narrow
  <2> HIDE DEF e
  <2>2. ASSUME NEW i \in 1..4
        PROVE  e[i] \in Byte /\ Says(f, Letters(f)[i], e[i], c)
    <3>1. /\ i = 1 => Letters(f)[i] = "r" /\ e[i] = c.r
          /\ i = 2 => Letters(f)[i] = "g" /\ e[i] = c.g
          /\ i = 3 => Letters(f)[i] = "b" /\ e[i] = c.b
          /\ i = 4 => Letters(f)[i] = "a" /\ e[i] = c.a
      BY <2>1
    <3> QED
      BY <1>1, <1>2, <3>1 DEF Says
  <2> QED
    BY <2>1, <2>2 DEF e
<1>4. CASE f = "B8G8R8A8"
  <2>1. Letters(f) = <<"b", "g", "r", "a">> /\ e = <<c.b, c.g, c.r, c.a>> /\ BytesPerPixel(f) = 4
    BY <1>4, SMT DEF Letters, EmitPixel, BytesPerPixel, Narrow
  <2> HIDE DEF e
  <2>2. ASSUME NEW i \in 1..4
        PROVE  e[i] \in Byte /\ Says(f, Letters(f)[i], e[i], c)
    <3>1. /\ i = 1 => Letters(f)[i] = "b" /\ e[i] = c.b
          /\ i = 2 => Letters(f)[i] = "g" /\ e[i] = c.g
          /\ i = 3 => Letters(f)[i] = "r" /\ e[i] = c.r
          /\ i = 4 => Letters(f)[i] = "a" /\ e[i] = c.a
      BY <2>1
    <3> QED
      BY <1>1, <1>2, <3>1 DEF Says
  <2> QED
    BY <2>1, <2>2 DEF e
<1>5. CASE f = "A8R8G8B8"
  <2>1. Letters(f) = <<"a", "r", "g", "b">> /\ e = <<c.a, c.r, c.g, c.b>> /\ BytesPerPixel(f) = 4
    BY <1>5, SMT DEF Letters, EmitPixel, BytesPerPixel, Narrow
  <2> HIDE DEF e
  <2>2. ASSUME NEW i \in 1..4
        PROVE  e[i] \in Byte /\ Says(f, Letters(f)[i], e[i], c)
    <3>1. /\ i = 1 => Letters(f)[i] = "a" /\ e[i] = c.a
          /\ i = 2 => Letters(f)[i] = "r" /\ e[i] = c.r
          /\ i = 3 => Letters(f)[i] = "g" /\ e[i] = c.g
          /\ i = 4 => Letters(f)[i] = "b" /\ e[i] = c.b
      BY <2>1
    <3> QED
      BY <1>1, <1>2, <3>1 DEF Says
  <2> QED
    BY <2>1, <2>2 DEF e
<1>6. CASE f = "R8G8B8"
  <2>1. Letters(f) = <<"r", "g", "b">> /\ e = <<c.r, c.g, c.b>> /\ BytesPerPixel(f) = 3
    BY <1>6, SMT DEF Letters, EmitPixel, BytesPerPixel, Narrow
  <2> HIDE DEF e
  <2>2. ASSUME NEW i \in 1..3
        PROVE  e[i] \in Byte /\ Says(f, Letters(f)[i], e[i], c)
    <3>1. /\ i = 1 => Letters(f)[i] = "r" /\ e[i] = c.r
          /\ i = 2 => Letters(f)[i] = "g" /\ e[i] = c.g
          /\ i = 3 => Letters(f)[i] = "b" /\ e[i] = c.b
      BY <2>1
    <3> QED
      BY <1>1, <1>2, <3>1 DEF Says
  <2> QED
    BY <2>1, <2>2 DEF e
<1>7. CASE f = "B8G8R8"
  <2>1. Letters(f) = <<"b", "g", "r">> /\ e = <<c.b, c.g, c.r>> /\ BytesPerPixel(f) = 3
    BY <1>7, SMT DEF Letters, EmitPixel, BytesPerPixel, Narrow
  <2> HIDE DEF e
  <2>2. ASSUME NEW i \in 1..3
        PROVE  e[i] \in Byte /\ Says(f, Letters(f)[i], e[i], c)
    <3>1. /\ i = 1 => Letters(f)[i] = "b" /\ e[i] = c.b
          /\ i = 2 => Letters(f)[i] = "g" /\ e[i] = c.g
          /\ i = 3 => Letters(f)[i] = "r" /\ e[i] = c.r
      BY <2>1
    <3> QED
      BY <1>1, <1>2, <3>1 DEF Says
  <2> QED
    BY <2>1, <2>2 DEF e
<1>8. CASE f = "G8A8"
  <2>1. Letters(f) = <<"y", "a">> /\ e = <<Luma(c), c.a>> /\ BytesPerPixel(f) = 2
    BY <1>8, SMT DEF Letters, EmitPixel, BytesPerPixel, Narrow
  <2> HIDE DEF e
  <2>2. ASSUME NEW i \in 1..2
        PROVE  e[i] \in Byte /\ Says(f, Letters(f)[i], e[i], c)
    <3>1. /\ i = 1 => Letters(f)[i] = "y" /\ e[i] = Luma(c)
          /\ i = 2 => Letters(f)[i] = "a" /\ e[i] = c.a
      BY <2>1
    <3> QED
      BY <1>1, <1>2, <3>1 DEF Says
  <2> QED
    BY <2>1, <2>2 DEF e
<1>9. CASE f = "G8"
  <2>1. Letters(f) = <<"y">> /\ e = <<Luma(c)>> /\ BytesPerPixel(f) = 1
    BY <1>9, SMT DEF Letters, EmitPixel, BytesPerPixel, Narrow
  <2> HIDE DEF e
  <2>2. ASSUME NEW i \in 1..1
        PROVE  e[i] \in Byte /\ Says(f, Letters(f)[i], e[i], c)
    <3>1. /\ i = 1 => Letters(f)[i] = "y" /\ e[i] = Luma(c)
      BY <2>1
    <3> QED
      BY <1>1, <1>2, <3>1 DEF Says
  <2> QED
    BY <2>1, <2>2 DEF e
<1> QED
  BY <1>3, <1>4, <1>5, <1>6, <1>7, <1>8, <1>9 DEF Targets

-----------------------------------------------------------------------------
(* Pixels at their places. *)

(* The pixel (x, y) of w to a row is number y * w + x; byte k of n of it, and what
   the loops compute back from the offset of that byte. *)
LEMMA PixelNumber ==
  ASSUME NEW w \in Nat, NEW h \in Nat, NEW n \in Nat \ {0},
         NEW x \in 0..w - 1, NEW y \in 0..h - 1, NEW k \in 0..n - 1
  PROVE  LET i == y * w + x
             o == i * n + k
         IN  /\ i \in 0..w * h - 1 /\ i % w = x /\ i \div w = y
             /\ o \in 0..w * h * n - 1 /\ o \div n = i /\ o % n = k
             /\ y * (w * n) + x * n + k = o
<1> DEFINE i == y * w + x
           o == i * n + k
<1>1. w \in Nat \ {0} /\ x \in Nat /\ y \in Nat /\ k \in Nat /\ x < w /\ y < h /\ k < n
  BY SMT
<1>2. i \in Nat /\ i % w = x /\ i \div w = y
  BY <1>1, Divided
<1>3. i < w * h
  <2>1. y * w + w <= h * w
    BY <1>1, GrowsByStep
  <2>2. y * w \in Nat /\ h * w \in Nat /\ h * w = w * h
    BY <1>1, ProductInNat
  <2> QED
    BY <1>1, <2>1, <2>2
<1>4. w * h \in Nat
  BY ProductInNat
<1>5. y * (w * n) + x * n = i * n
  BY <1>1, SMT
<1> HIDE DEF i
<1>6. o \in Nat /\ o \div n = i /\ o % n = k
  BY <1>2, Divided
<1>7. o < w * h * n
  <2> DEFINE m == w * h
  <2>1. m \in Nat /\ i < m
    BY <1>3, <1>4
  <2> HIDE DEF m
  <2>2. i * n + n <= m * n /\ i * n \in Nat /\ m * n \in Nat
    BY <1>2, <2>1, GrowsByStep, ProductInNat
  <2>3. i * n + k < m * n
    BY <1>1, <2>2
  <2> QED
    BY <2>3 DEF m
<1>8. w * h * n \in Nat
  BY <1>4, ProductInNat
<1>9. i \in 0..w * h - 1
  BY <1>2, <1>3, <1>4
<1>10. o \in 0..w * h * n - 1
  <2> HIDE DEF o
  <2> QED
    BY <1>6, <1>7, <1>8
<1>11. y * (w * n) + x * n + k = o
  BY <1>5
<1> QED
  BY <1>2, <1>6, <1>9, <1>10, <1>11 DEF i, o

(* A pixel of a texture whose last row can be read has bytes. *)
LEMMA PixelIsBytes ==
  ASSUME NEW t, IsTexture(t), RowBytes(t) <= t.stride,
         (t.height - 1) * t.stride + RowBytes(t) <= t.len,
         NEW x \in 0..t.width - 1, NEW y \in 0..t.height - 1
  PROVE  Pixel(t, x, y) \in [0..BytesPerPixel(t.format) - 1 -> Byte]
<1> DEFINE n == BytesPerPixel(t.format)
           w == t.width
           h == t.height
           s == t.stride
           len == t.len
<1>1. /\ n \in Nat \ {0} /\ w \in Nat \ {0} /\ h \in Nat \ {0} /\ s \in Nat /\ len \in Nat
      /\ t.data \in [0..len - 1 -> Byte] /\ w * n <= s /\ (h - 1) * s + w * n <= len
  BY BytesArePositive DEF IsTexture, RowBytes
<1>2. x \in 0..w - 1 /\ y \in 0..h - 1
  OBVIOUS
<1>3. SUFFICES \A k \in 0..n - 1 : t.data[y * s + x * n + k] \in Byte
  BY DEF Pixel
<1> HIDE DEF n, w, h, s, len
<1> TAKE k \in 0..n - 1
<1>4. y <= h - 1 /\ h - 1 \in Nat /\ y \in Nat /\ x \in Nat /\ x < w
  BY <1>1, <1>2
<1>5. y * s <= (h - 1) * s
  BY <1>1, <1>4, Grows
<1>6. x * n + n <= w * n
  BY <1>1, <1>4, GrowsByStep
<1>7. y * s \in Nat /\ (h - 1) * s \in Nat /\ x * n \in Nat /\ w * n \in Nat
  BY <1>1, <1>4, ProductInNat
<1>8. y * s + x * n + k \in 0..len - 1
  BY <1>1, <1>5, <1>6, <1>7
<1> QED
  BY <1>1, <1>8

(* A number below w * h * n is that of a byte of a pixel. *)
LEMMA NumberOfPixel ==
  ASSUME NEW w \in Nat \ {0}, NEW h \in Nat, NEW n \in Nat \ {0}, NEW o \in 0..w * h * n - 1
  PROVE  LET i == o \div n
         IN  /\ o % n \in 0..n - 1
             /\ i % w \in 0..w - 1 /\ i \div w \in 0..h - 1
<1> DEFINE i == o \div n
           y == i \div w
           m == w * h
<1>1. m \in Nat /\ m * n \in Nat /\ o \in Nat /\ o < m * n
  <2>1. m \in Nat /\ m * n \in Nat
    BY ProductInNat
  <2> QED
    BY <2>1
<1> HIDE DEF m
<1>2. i \in Nat /\ i * n <= o /\ o % n \in 0..n - 1
  BY <1>1, QuotientBounds, SMT
<1> HIDE DEF i
<1>3. i < m
  <2> SUFFICES ASSUME m <= i PROVE FALSE
    BY <1>1, <1>2
  <2>1. m * n <= i * n /\ i * n \in Nat
    BY <1>1, <1>2, Grows, ProductInNat
  <2> QED
    BY <1>1, <1>2, <2>1
<1>4. y \in Nat /\ y * w <= i /\ i % w \in 0..w - 1
  BY <1>2, QuotientBounds, SMT
<1> HIDE DEF y
<1>5. y < h
  <2> SUFFICES ASSUME h <= y PROVE FALSE
    BY <1>4
  <2>1. h * w <= y * w /\ y * w \in Nat /\ h * w = m
    BY <1>4, Grows, ProductInNat DEF m
  <2> QED
    BY <1>1, <1>2, <1>3, <1>4, <2>1
<1>6. y \in 0..h - 1
  BY <1>4, <1>5
<1> QED
  BY <1>2, <1>4, <1>6 DEF i, y

(* All rows of a texture can be read, the last one even if it is cut short. *)
IsLegible(t) ==
  /\ IsTexture(t) /\ RowBytes(t) <= t.stride
  /\ (t.height - 1) * t.stride + RowBytes(t) <= t.len

LEMMA WellFormedIsLegible ==
  ASSUME NEW t, IsTexture(t), WellFormed(t)
  PROVE  IsLegible(t)
<1> DEFINE s == t.stride
           h == t.height
           row == RowBytes(t)
<1>1. s \in Nat /\ h \in Nat \ {0} /\ row \in Nat /\ row <= s /\ t.len = s * h
  <2>1. BytesPerPixel(t.format) \in Nat
    BY BytesArePositive DEF IsTexture
  <2>2. row \in Nat
    BY <2>1, ProductInNat DEF IsTexture, RowBytes
  <2> QED
    BY <2>2 DEF IsTexture, WellFormed, RowBytes
<1> HIDE DEF s, h, row
<1>2. (h - 1) * s + s = s * h /\ (h - 1) * s \in Nat
  <2>1. (h - 1) * s + s = s * h
    BY <1>1, SMT
  <2> QED
    BY <1>1, <2>1, ProductInNat
<1>3. (h - 1) * s + row <= s * h
  BY <1>1, <1>2
<1> QED
  BY <1>1, <1>3 DEF IsLegible, s, h, row

(* The shim's conversion reads each pixel at its place and writes it in the target's
   layout, and what it makes is a texture. *)
LEMMA ConvertedPixels ==
  ASSUME NEW t, IsLegible(t), t.format \in Narrow, NEW f \in Targets
  PROVE  LET u == ConvertLayout(t, f)
         IN  /\ IsTexture(u) /\ WellFormed(u) /\ u.format = f
             /\ u.width = t.width /\ u.height = t.height
             /\ \A x \in 0..t.width - 1, y \in 0..t.height - 1 :
                  Shows(f, Pixel(u, x, y), SampleRgba8(t.format, Pixel(t, x, y)))
<1> DEFINE w == t.width
           h == t.height
           n == BytesPerPixel(f)
           u == ConvertLayout(t, f)
           C(x, y) == SampleRgba8(t.format, Pixel(t, x, y))
           B(i) == EmitPixel(f, C(i % w, i \div w))
<1>1. w \in Nat \ {0} /\ h \in Nat \ {0} /\ n \in Nat \ {0} /\ f \in Formats
  BY BytesArePositive DEF IsLegible, IsTexture, Targets, Formats, Narrow
<1>2. /\ u.width = w /\ u.height = h /\ u.stride = w * n /\ u.format = f
      /\ u.len = w * h * n
      /\ u.data = [o \in 0..w * h * n - 1 |-> B(o \div n)[(o % n) + 1]]
  BY DEF ConvertLayout
<1>3. ASSUME NEW x \in 0..w - 1, NEW y \in 0..h - 1, NEW k \in 1..n
      PROVE  EmitPixel(f, C(x, y))[k] \in Byte
             /\ Says(f, Letters(f)[k], EmitPixel(f, C(x, y))[k], C(x, y))
  <2>1. Pixel(t, x, y) \in [0..BytesPerPixel(t.format) - 1 -> Byte]
    BY PixelIsBytes DEF IsLegible
  <2>2. C(x, y).r \in Byte /\ C(x, y).g \in Byte /\ C(x, y).b \in Byte /\ C(x, y).a \in Byte
    BY <2>1, SampleIsByte
  <2> HIDE DEF C
  <2> QED
    BY <2>2, EmitShows
<1> HIDE DEF C, n, u
<1>4. ASSUME NEW o \in 0..w * h * n - 1
      PROVE  B(o \div n)[(o % n) + 1] \in Byte
  <2>1. o % n \in 0..n - 1 /\ (o \div n) % w \in 0..w - 1 /\ (o \div n) \div w \in 0..h - 1
    BY <1>1, NumberOfPixel
  <2>2. (o % n) + 1 \in 1..n
    BY <1>1, <2>1
  <2> QED
    BY <1>3, <2>1, <2>2
<1>5. u.len \in Nat /\ u.stride \in Nat
  BY <1>1, <1>2, ProductInNat
<1>6. IsTexture(u)
  <2>1. u.data \in [0..u.len - 1 -> Byte]
    BY <1>2, <1>4
  <2> QED
    BY <1>1, <1>2, <1>5, <2>1 DEF IsTexture
<1>7. WellFormed(u)
  <2>1. w * h * n = (w * n) * h
    BY <1>1, SMT
  <2>2. BytesPerPixel(u.format) = n
    BY <1>2 DEF n
  <2> DEFINE r == w * n
  <2>3. r \in Nat /\ u.stride = r /\ u.width * BytesPerPixel(u.format) = r
    BY <1>2, <1>5, <2>2
  <2> HIDE DEF r
  <2>4. u.stride >= u.width * BytesPerPixel(u.format)
    BY <2>3
  <2> QED
    BY <1>2, <2>1, <2>4 DEF WellFormed
<1>8. ASSUME NEW x \in 0..w - 1, NEW y \in 0..h - 1
      PROVE  Shows(f, Pixel(u, x, y), C(x, y))
  <2>1. ASSUME NEW k \in 1..n
        PROVE  Pixel(u, x, y)[k - 1] = EmitPixel(f, C(x, y))[k]
    <3> DEFINE j == k - 1
               i == y * w + x
               o == i * n + j
    <3>1. j \in 0..n - 1 /\ j + 1 = k
      BY <1>1
    <3> HIDE DEF j
    <3>2. /\ i % w = x /\ i \div w = y
          /\ o \in 0..w * h * n - 1 /\ o \div n = i /\ o % n = j
          /\ y * (w * n) + x * n + j = o
      <4>1. w \in Nat /\ h \in Nat /\ x \in 0..w - 1 /\ y \in 0..h - 1
        BY <1>1
      <4> HIDE DEF w, h
      <4> QED
        BY <1>1, <3>1, <4>1, PixelNumber
    <3>3. Pixel(u, x, y)[j] = u.data[o]
      BY <1>2, <3>1, <3>2 DEF Pixel, n
    <3> HIDE DEF i, o
    <3> QED
      BY <1>2, <3>1, <3>2, <3>3 DEF j
  <2>2. DOMAIN Letters(f) = 1..n
    BY PlacesAreLetters DEF Targets, Narrow, n
  <2> QED
    BY <1>3, <2>1, <2>2 DEF Shows
<1> QED
  BY <1>2, <1>6, <1>7, <1>8 DEF u, C

(* to_rgba8 writes the colour of each pixel as four bytes, at its place. *)
LEMMA RgbaPixels ==
  ASSUME NEW t, IsLegible(t)
  PROVE  /\ DOMAIN Rgba(t) = 0..4 * (t.width * t.height) - 1
         /\ \A x \in 0..t.width - 1, y \in 0..t.height - 1 :
              LET i == y * t.width + x
                  c == SampleRgba8(t.format, Pixel(t, x, y))
              IN  /\ i \in 0..t.width * t.height - 1
                  /\ Rgba(t)[4 * i] = c.r /\ Rgba(t)[4 * i + 1] = c.g
                  /\ Rgba(t)[4 * i + 2] = c.b /\ Rgba(t)[4 * i + 3] = c.a
<1> DEFINE w == t.width
           h == t.height
           C(x, y) == SampleRgba8(t.format, Pixel(t, x, y))
           D(i) == C(i % w, i \div w)
           B(i) == <<D(i).r, D(i).g, D(i).b, D(i).a>>
<1>1. w \in Nat \ {0} /\ h \in Nat \ {0}
  BY DEF IsLegible, IsTexture
<1>2. Rgba(t) = [o \in 0..4 * w * h - 1 |-> B(o \div 4)[(o % 4) + 1]]
  BY DEF Rgba
<1>3. 4 * w * h = 4 * (w * h) /\ w * h * 4 = 4 * (w * h)
  BY <1>1, SMT
<1> HIDE DEF C, w, h
<1>4. ASSUME NEW x \in 0..w - 1, NEW y \in 0..h - 1, NEW k \in 0..3
      PROVE  /\ y * w + x \in 0..w * h - 1
             /\ Rgba(t)[4 * (y * w + x) + k]
                  = <<C(x, y).r, C(x, y).g, C(x, y).b, C(x, y).a>>[k + 1]
  <2> DEFINE i == y * w + x
             o == i * 4 + k
  <2>1. /\ i \in 0..w * h - 1 /\ i % w = x /\ i \div w = y
        /\ o \in 0..w * h * 4 - 1 /\ o \div 4 = i /\ o % 4 = k
    <3>1. k \in 0..4 - 1 /\ 4 \in Nat \ {0}
      BY SMT
    <3> QED
      BY <1>1, <3>1, PixelNumber
  <2>2. 4 * i + k = o
    BY <2>1
  <2> HIDE DEF i, o
  <2>3. Rgba(t)[o] = B(i)[k + 1]
    BY <1>2, <1>3, <2>1
  <2>4. D(i) = C(x, y)
    BY <2>1
  <2> HIDE DEF D
  <2> QED
    BY <2>1, <2>2, <2>3, <2>4 DEF i
<1>5. ASSUME NEW x \in 0..w - 1, NEW y \in 0..h - 1
      PROVE  LET i == y * w + x
             IN  /\ i \in 0..w * h - 1
                 /\ Rgba(t)[4 * i] = C(x, y).r /\ Rgba(t)[4 * i + 1] = C(x, y).g
                 /\ Rgba(t)[4 * i + 2] = C(x, y).b /\ Rgba(t)[4 * i + 3] = C(x, y).a
  <2> DEFINE i == y * w + x
  <2>1. 0 \in 0..3 /\ 1 \in 0..3 /\ 2 \in 0..3 /\ 3 \in 0..3
    BY SMT
  <2>2. i \in 0..w * h - 1
    BY <1>4, <2>1
  <2>3. /\ Rgba(t)[4 * i + 0] = <<C(x, y).r, C(x, y).g, C(x, y).b, C(x, y).a>>[0 + 1]
        /\ Rgba(t)[4 * i + 1] = <<C(x, y).r, C(x, y).g, C(x, y).b, C(x, y).a>>[1 + 1]
        /\ Rgba(t)[4 * i + 2] = <<C(x, y).r, C(x, y).g, C(x, y).b, C(x, y).a>>[2 + 1]
        /\ Rgba(t)[4 * i + 3] = <<C(x, y).r, C(x, y).g, C(x, y).b, C(x, y).a>>[3 + 1]
    BY <1>4, <2>1
  <2> HIDE DEF i
  <2>4. 4 * i + 0 = 4 * i
    BY <2>2
  <2> QED
    BY <2>2, <2>3, <2>4 DEF i
<1>6. DOMAIN Rgba(t) = 0..4 * (w * h) - 1
  BY <1>2, <1>3
<1> QED
  BY <1>5, <1>6 DEF C, w, h

(* With other bytes after its rows a texture has the same pixels. *)
LEMMA SpreadPixels ==
  ASSUME NEW t, IsTexture(t), WellFormed(t), NEW pad \in Nat
  PROVE  LET u == Spread(t, pad)
         IN  /\ IsTexture(u) /\ u.format = t.format
             /\ u.width = t.width /\ u.height = t.height
             /\ \A x \in 0..t.width - 1, y \in 0..t.height - 1 :
                  Pixel(u, x, y) = Pixel(t, x, y)
<1> DEFINE w == t.width
           h == t.height
           n == BytesPerPixel(t.format)
           row == w * n
           ts == t.stride
           s == row + pad
           len == (h - 1) * s + row
           u == Spread(t, pad)
<1>1. /\ w \in Nat \ {0} /\ h \in Nat \ {0} /\ n \in Nat \ {0} /\ ts \in Nat
      /\ t.len = ts * h /\ t.data \in [0..t.len - 1 -> Byte]
  BY BytesArePositive DEF IsTexture, WellFormed
<1>2. row \in Nat \ {0} /\ row <= ts
  <2>1. row \in Nat
    BY <1>1, ProductInNat
  <2>2. 0 * n + n <= w * n
    BY <1>1, GrowsByStep
  <2>3. row # 0
    BY <1>1, <2>1, <2>2
  <2> QED
    BY <1>1, <2>1, <2>3 DEF WellFormed
<1>3. /\ u.width = w /\ u.height = h /\ u.stride = s /\ u.format = t.format /\ u.len = len
      /\ u.data = [o \in 0..len - 1 |->
                    IF o % s < row THEN t.data[(o \div s) * ts + (o % s)] ELSE 0]
  BY DEF Spread, RowBytes
<1> HIDE DEF row, u, w, h, ts
<1>4. s \in Nat \ {0} /\ row <= s /\ (h - 1) * s \in Nat /\ len \in Nat
      /\ len <= h * s /\ h * s \in Nat
  <2>1. s \in Nat \ {0} /\ row <= s /\ h - 1 \in Nat
    BY <1>1, <1>2
  <2> HIDE DEF s
  <2>2. (h - 1) * s \in Nat /\ h * s \in Nat
    BY <1>1, <2>1, ProductInNat
  <2>3. (h - 1) * s + s = h * s
    BY <1>1, <2>1, SMT
  <2> QED
    BY <1>2, <2>1, <2>2, <2>3
<1> HIDE DEF s
<1>5. ASSUME NEW o \in 0..len - 1, o % s < row
      PROVE  t.data[(o \div s) * ts + (o % s)] \in Byte
  <2> DEFINE q == o \div s
             r == o % s
  <2>1. q \in Nat /\ q * s <= o /\ r \in Nat
    BY <1>4, QuotientBounds, SMT
  <2>2. r < row
    BY <1>5
  <2> HIDE DEF q, r
  <2>3. q < h
    <3> SUFFICES ASSUME h <= q PROVE FALSE
      BY <1>1, <2>1
    <3>1. h * s <= q * s /\ q * s \in Nat
      BY <1>1, <1>4, <2>1, Grows, ProductInNat
    <3> QED
      BY <1>4, <2>1, <3>1
  <2>4. q * ts + ts <= h * ts /\ q * ts \in Nat /\ h * ts \in Nat
    BY <1>1, <2>1, <2>3, GrowsByStep, ProductInNat
  <2>5. h * ts = t.len
    BY <1>1, SMT
  <2>6. q * ts + r \in 0..t.len - 1
    BY <1>1, <1>2, <2>1, <2>2, <2>4, <2>5
  <2> QED
    BY <1>1, <2>6 DEF q, r
<1>6. IsTexture(u)
  <2>1. 0 \in Byte
    BY SMT DEF Byte
  <2>2. u.data \in [0..u.len - 1 -> Byte]
    BY <1>3, <1>5, <2>1
  <2> QED
    BY <1>1, <1>3, <1>4, <2>2 DEF IsTexture
<1>7. ASSUME NEW x \in 0..w - 1, NEW y \in 0..h - 1, NEW k \in 0..n - 1
      PROVE  u.data[y * s + x * n + k] = t.data[y * ts + x * n + k]
  <2> DEFINE r == x * n + k
             o == y * s + r
  <2>1. x \in Nat /\ x < w /\ y \in Nat /\ y <= h - 1 /\ k \in Nat /\ k < n /\ h - 1 \in Nat
    BY <1>1
  <2>2. x * n + n <= w * n /\ x * n \in Nat /\ w * n \in Nat
    BY <1>1, <2>1, GrowsByStep, ProductInNat
  <2>3. r \in Nat /\ r < row
    BY <1>1, <2>1, <2>2 DEF row
  <2> HIDE DEF r
  <2>4. r \in 0..s - 1
    BY <1>2, <1>4, <2>3
  <2>5. o \in Nat /\ o \div s = y /\ o % s = r
    BY <1>4, <2>1, <2>4, Divided
  <2>6. y * s <= (h - 1) * s /\ y * s \in Nat
    BY <1>4, <2>1, Grows, ProductInNat
  <2>7. o \in 0..len - 1
    BY <1>2, <1>4, <2>3, <2>6
  <2> HIDE DEF o
  <2>8. u.data[o] = t.data[y * ts + r]
    BY <1>3, <2>3, <2>5, <2>7
  <2>9. y * s + x * n + k = o /\ y * ts + r = y * ts + x * n + k
    <3>1. y * ts \in Nat
      BY <1>1, <2>1, ProductInNat
    <3> QED
      BY <2>1, <2>2, <2>6, <3>1 DEF o, r
  <2> QED
    BY <2>8, <2>9
<1>8. ASSUME NEW x \in 0..w - 1, NEW y \in 0..h - 1
      PROVE  Pixel(u, x, y) = Pixel(t, x, y)
  <2>1. /\ Pixel(u, x, y) = [k \in 0..n - 1 |-> u.data[y * s + x * n + k]]
        /\ Pixel(t, x, y) = [k \in 0..n - 1 |-> t.data[y * ts + x * n + k]]
    BY <1>3 DEF Pixel, ts
  <2> QED
    BY <1>7, <2>1
<1> QED
  BY <1>3, <1>6, <1>8 DEF u, w, h-----------------------------------------------------------------------------

(* The format that is chosen is one of those that the application accepts and the
   shim can make; and one is chosen unless it accepts none of them. *)
LEMMA ChosenTarget ==
  ASSUME NEW f \in Narrow, NEW selection
  PROVE  /\ PickTarget(f, selection) # NoFormat
              => PickTarget(f, selection) \in Targets \cap selection
         /\ (\E i \in DOMAIN Priority : Priority[i] \in selection)
              => PickTarget(f, selection) # NoFormat
<1> DEFINE s == Straight(f)
           c == s \o Priority
           fit == {i \in DOMAIN c : c[i] \in selection}
           first == CHOOSE i \in fit : \A j \in fit : i <= j
<1>1. Priority \in Seq(Targets) /\ Len(Priority) = 7
  BY SMT DEF Priority, Targets
<1>2. s \in Seq(Targets) /\ Len(s) \in 0..1
  <2>1. CASE f \in DOMAIN StraightForm
    <3>1. f \in {"R8G8B8A8_PRE", "B8G8R8A8_PRE", "A8R8G8B8_PRE", "G8A8_PRE"}
      BY <2>1, SMT DEF StraightForm, Narrow
    <3>2. StraightForm[f] \in Targets
      BY <3>1, SMT DEF StraightForm, Targets
    <3>3. s = <<StraightForm[f]>>
      BY <2>1 DEF Straight
    <3> HIDE DEF StraightForm, s
    <3> QED
      BY <3>2, <3>3, SMT
  <2>2. CASE f \notin DOMAIN StraightForm
    <3>1. s = <<>>
      BY <2>2 DEF Straight
    <3> HIDE DEF s
    <3> QED
      BY <3>1, SMT
  <2> QED
    BY <2>1, <2>2
<1>3. PickTarget(f, selection) = IF fit = {} THEN NoFormat ELSE c[first]
  BY DEF PickTarget
<1> HIDE DEF s
<1>4. /\ c \in Seq(Targets) /\ Len(c) = Len(s) + 7
      /\ \A i \in 1..7 : c[Len(s) + i] = Priority[i]
  <2> DEFINE p == Priority
  <2>1. p \in Seq(Targets) /\ Len(p) = 7 /\ c = s \o p
    BY <1>1
  <2> HIDE DEF p, c
  <2>2. /\ s \o p \in Seq(Targets) /\ Len(s \o p) = Len(s) + Len(p)
        /\ \A i \in 1..Len(s) + Len(p) :
             (s \o p)[i] = IF i <= Len(s) THEN s[i] ELSE p[i - Len(s)]
    BY <1>2, <2>1, ConcatProperties
  <2>3. \A i \in 1..7 : Len(s) + i \in 1..Len(s) + 7 /\ ~(Len(s) + i <= Len(s))
                       /\ (Len(s) + i) - Len(s) = i
    BY <1>2, SMT
  <2>4. \A i \in 1..7 : (s \o p)[Len(s) + i] = p[i]
    BY <2>1, <2>2, <2>3
  <2> QED
    BY <2>1, <2>2, <2>4 DEF p
<1> HIDE DEF c
<1>5. \A i \in DOMAIN c : i \in 1..8 /\ c[i] \in Targets
  <2>1. Len(c) \in 0..8
    <3> DEFINE n == Len(s)
    <3>1. n \in 0..1 /\ Len(c) = n + 7
      BY <1>2, <1>4
    <3> HIDE DEF n
    <3> QED
      BY <3>1
  <2> QED
    BY <1>4, <2>1
<1>6. ASSUME fit # {}
      PROVE  first \in fit
  <2>1. fit \subseteq 1..8
    BY <1>5
  <2>2. \E i \in fit : \A j \in fit : i <= j
    BY <1>6, <2>1, FirstPlace
  <2> QED
    BY <2>2
<1>7. NoFormat \notin Targets
  BY DEF NoFormat, Targets
<1>8. ASSUME NEW i \in DOMAIN Priority, Priority[i] \in selection
      PROVE  fit # {}
  <2>1. i \in 1..7
    BY <1>1
  <2>2. Len(s) + i \in DOMAIN c
    BY <1>2, <1>4, <2>1
  <2> QED
    BY <1>4, <1>8, <2>1, <2>2
<1> QED
  BY <1>3, <1>5, <1>6, <1>7, <1>8

-----------------------------------------------------------------------------
(* The frame that is delivered. *)

LEMMA LegibleIsReadable ==
  ASSUME NEW t, IsLegible(t), t.format \in Narrow
  PROVE  Readable(t)
<1> DEFINE row == RowBytes(t)
           h == t.height
           s == t.stride
           len == t.len
<1>1. /\ s \in Nat /\ len \in Nat /\ h \in Nat \ {0} /\ row \in Nat
      /\ row <= s /\ (h - 1) * s + row <= len
  <2>1. BytesPerPixel(t.format) \in Nat /\ t.width \in Nat
    BY BytesArePositive DEF IsLegible, IsTexture
  <2>2. row \in Nat
    BY <2>1, ProductInNat DEF RowBytes
  <2> QED
    BY <2>2 DEF IsLegible, IsTexture
<1>2. row = t.width * BytesPerPixel(t.format)
  BY DEF RowBytes
<1> HIDE DEF row, h, s, len
<1>3. ASSUME NEW y \in 0..h - 1
      PROVE  Inside(y * s, row, len)
  <2>1. y \in Nat /\ y <= h - 1 /\ h - 1 \in Nat
    BY <1>1
  <2>2. y * s <= (h - 1) * s /\ y * s \in Nat /\ (h - 1) * s \in Nat
    BY <1>1, <2>1, Grows, ProductInNat
  <2> QED
    BY <1>1, <2>2 DEF Inside
<1> QED
  BY <1>1, <1>2, <1>3 DEF Readable, h, s, len

(* The straight colour of a pixel in the order that the svg decoder writes. *)
LEMMA StraightColour ==
  ASSUME NEW p
  PROVE  SampleRgba8("R8G8B8A8", p) = [r |-> p[0], g |-> p[1], b |-> p[2], a |-> p[3]]
<1>1. Places("R8G8B8A8") = <<0, 1, 2, 3>> /\ "R8G8B8A8" \notin Premultiplied8
  BY SMT DEF Places, Premultiplied8
<1> QED
  BY <1>1, SampleIs, SMT DEF ChannelOf, AlphaOf

(* The shim's maybe_convert gives, for a texture of any size and of any format of a
   byte a channel and for every selection, a texture of the same size: in a format
   that the application accepts, if the shim can make one of them, with at every
   place the colour that was there. *)
THEOREM ConversionIsFaithful ==
  ASSUME NEW t, IsTexture(t), WellFormed(t), t.format \in Narrow,
         \A x \in 0..t.width - 1, y \in 0..t.height - 1 :
           FitsAlpha(t.format, Pixel(t, x, y)),
         NEW selection
  PROVE  LET u == MaybeConvert(t, selection)
             possible == {Priority[i] : i \in DOMAIN Priority} \cup {t.format}
         IN  /\ IsTexture(u) /\ WellFormed(u)
             /\ u = t \/ u.format \in selection \ Premultiplied8
             /\ u.width = t.width /\ u.height = t.height
             /\ selection \cap possible # {} /\ UnknownBit \notin selection
                  => u.format \in selection
             /\ \A x \in 0..t.width - 1, y \in 0..t.height - 1 :
                  Shows(u.format, Pixel(u, x, y), SampleRgba8(t.format, Pixel(t, x, y)))
<1> DEFINE u == MaybeConvert(t, selection)
           target == PickTarget(t.format, selection)
           possible == {Priority[i] : i \in DOMAIN Priority} \cup {t.format}
<1>1. IsLegible(t) /\ Readable(t)
  BY WellFormedIsLegible, LegibleIsReadable
<1>2. /\ target # NoFormat => target \in Targets \cap selection
      /\ (\E i \in DOMAIN Priority : Priority[i] \in selection) => target # NoFormat
  BY ChosenTarget
<1>3. ASSUME NEW x \in 0..t.width - 1, NEW y \in 0..t.height - 1
      PROVE  Shows(t.format, Pixel(t, x, y), SampleRgba8(t.format, Pixel(t, x, y)))
  <2>1. Pixel(t, x, y) \in [0..BytesPerPixel(t.format) - 1 -> Byte]
    BY <1>1, PixelIsBytes DEF IsLegible
  <2> QED
    BY <2>1, SampleShows
<1> HIDE DEF target
<1>4. CASE selection = {} \/ UnknownBit \in selection \/ t.format \in selection
           \/ target = NoFormat
  <2>1. u = t
    BY <1>4 DEF MaybeConvert, target
  <2> HIDE DEF u
  <2>2. selection \cap possible # {} /\ UnknownBit \notin selection => u.format \in selection
    BY <1>2, <1>4, <2>1
  <2> QED
    BY <1>3, <2>1, <2>2 DEF u
<1>5. CASE ~(selection = {} \/ UnknownBit \in selection \/ t.format \in selection
             \/ target = NoFormat)
  <2>1. u = ConvertLayout(t, target)
    BY <1>1, <1>5 DEF MaybeConvert, target
  <2>2. target \in Targets /\ target \in selection
    BY <1>2, <1>5
  <2>3. target \notin Premultiplied8
    BY <2>2 DEF Targets, Premultiplied8
  <2> HIDE DEF u
  <2>4. /\ IsTexture(u) /\ WellFormed(u) /\ u.format = target
        /\ u.width = t.width /\ u.height = t.height
        /\ \A x \in 0..t.width - 1, y \in 0..t.height - 1 :
             Shows(target, Pixel(u, x, y), SampleRgba8(t.format, Pixel(t, x, y)))
    BY <1>1, <2>1, <2>2, ConvertedPixels
  <2> QED
    BY <2>2, <2>3, <2>4 DEF u
<1> QED
  BY <1>4, <1>5

(* A texture that is not premultiplied has no pixel that is no colour. *)
LEMMA StraightFits ==
  ASSUME NEW t, t.format = "R8G8B8A8"
  PROVE  /\ t.format \in Narrow /\ t.format \notin Premultiplied8
         /\ \A x \in 0..t.width - 1, y \in 0..t.height - 1 :
              FitsAlpha(t.format, Pixel(t, x, y))
BY DEF Narrow, Premultiplied8, FitsAlpha

-----------------------------------------------------------------------------
(* What the textures on the path are: the loaded one has the format of the file,
   the frame is what the shim makes of it, the encoder has a drawing or the frame
   with rows of another length, and its buffer has the colours of that. *)
OriginPart ==
  /\ Loaded =>
       /\ IsTexture(image.texture) /\ WellFormed(image.texture)
       /\ image.texture.format = file.texture.format
  /\ Delivered =>
       frame.texture = MaybeConvert(image.texture, IF file.svg THEN frame.accepted ELSE {})
  /\ pc \in {"convert", "flatten", "written"} =>
       \/ given.texture \in Drawings
       \/ \E pad \in Pads : given.texture = Spread(frame.texture, pad)
  /\ pc \in {"flatten", "written"} => ~Refused(given.texture)
  /\ pc = "flatten" => given.codec = "jpeg"
  /\ pc = "written" /\ given.codec # "jpeg" => buf = Rgba(given.texture)

LEMMA InitOrigin == Init => OriginPart
BY DEF Init, OriginPart, Loaded, Delivered

(* A texture that is as it was decoded or has been turned is a texture. *)
LEMMA LoadingKeepsOrigin ==
  ASSUME PInv, PInv', NothingToTurn \/ ReportTurn \/ BakeDone
  PROVE  OriginPart'
<1>1. CASE NothingToTurn \/ ReportTurn
  <2>1. /\ pc' = "loaded" /\ file' = file /\ file \in Files /\ image = AsDecoded
        /\ image'.texture = image.texture
    BY <1>1 DEF PInv, NothingToTurn, ReportTurn, Goes, AsDecoded
  <2>2. image.texture = file.texture
    BY <2>1 DEF AsDecoded
  <2> QED
    BY <2>1, <2>2, FileFacts DEF OriginPart, Loaded, Delivered
<1>2. CASE BakeDone /\ WellFormed(Turned)
  <2>1. /\ file' = file /\ file \in Files /\ image = AsDecoded
        /\ pc' = "loaded" /\ image'.texture = Turned
        /\ buf \in [0..Turned.len - 1 -> Byte]
    BY <1>2 DEF PInv, BakePart, BakeDone
  <2>2. Turned.data = buf /\ Turned.format = file.texture.format
    BY <2>1, TurnedFacts
  <2>3. IsShape(Turned)
    <3>1. IsShape(image'.texture)
      BY DEF PInv, ShapePart, IsShape
    <3> QED
      BY <2>1, <3>1
  <2>4. IsTexture(Turned)
    BY <2>1, <2>2, <2>3 DEF IsTexture, IsShape
  <2> QED
    BY <1>2, <2>1, <2>2, <2>4 DEF OriginPart, Loaded, Delivered
<1>3. CASE BakeDone /\ ~WellFormed(Turned)
  <2>1. pc' = "panicked"
    BY <1>3 DEF BakeDone
  <2> QED
    BY <2>1 DEF OriginPart, Loaded, Delivered
<1> QED
  BY <1>1, <1>2, <1>3

LEMMA DeliveryKeepsOrigin ==
  ASSUME PInv, OriginPart, NEW accepted \in Accepts, Deliver(accepted)
  PROVE  OriginPart'
<1> DEFINE u == MaybeConvert(image.texture, IF file.svg THEN accepted ELSE {})
<1>1. /\ pc = "loaded" /\ pc' = "delivered" /\ UNCHANGED <<file, image>>
      /\ frame' = [texture |-> u, accepted |-> accepted]
  BY DEF Deliver, Goes
<1> HIDE DEF u
<1>2. frame'.texture = u /\ frame'.accepted = accepted
  BY <1>1
<1> QED
  BY <1>1, <1>2 DEF OriginPart, Loaded, Delivered, u

LEMMA GivingKeepsOrigin ==
  ASSUME OriginPart, NEW t, NEW codec, AddFrame(t, codec),
         t \in Drawings \/ \E pad \in Pads : t = Spread(frame.texture, pad)
  PROVE  OriginPart'
<1>1. /\ pc = "delivered" /\ pc' = "convert" /\ UNCHANGED <<file, image, frame>>
      /\ given' = [texture |-> t, codec |-> codec]
  BY DEF AddFrame, Goes
<1>2. given'.texture = t
  BY <1>1
<1> QED
  BY <1>1, <1>2 DEF OriginPart, Loaded, Delivered

LEMMA EncodingKeepsOrigin ==
  ASSUME OriginPart, Convert \/ FlattenPixel \/ Truncate
  PROVE  OriginPart'
<1>1. UNCHANGED <<file, image, frame, given>>
  BY DEF Convert, FlattenPixel, Truncate
<1>2. CASE Convert
  <2>1. /\ pc = "convert" /\ pc' \in {"refused", "panicked", "flatten", "written"}
        /\ pc' \in {"flatten", "written"} =>
             ~Refused(given.texture) /\ buf' = Rgba(given.texture)
        /\ pc' = "flatten" => given.codec = "jpeg"
    BY <1>2 DEF Convert
  <2> QED
    BY <1>1, <2>1 DEF OriginPart, Loaded, Delivered
<1>3. CASE FlattenPixel \/ Truncate
  <2>1. pc = "flatten" /\ pc' \in {"flatten", "written"} /\ given.codec = "jpeg"
    BY <1>3 DEF FlattenPixel, Truncate, Goes, OriginPart
  <2> QED
    BY <1>1, <2>1 DEF OriginPart, Loaded, Delivered
<1> QED
  BY <1>2, <1>3

(* Where the textures come from is an invariant. *)
THEOREM OriginInductive == Spec => []OriginPart
<1>1. ASSUME PInv, PInv', OriginPart, [Next]_vars
      PROVE  OriginPart'
  <2>1. CASE NothingToTurn \/ ReportTurn \/ BakeDone
    BY <1>1, <2>1, LoadingKeepsOrigin
  <2>2. CASE BeginBake \/ BakePixel
    <3>1. pc' \in {"bake", "panicked"}
      BY <2>2 DEF BeginBake, BakePixel, Goes
    <3> QED
      BY <3>1 DEF OriginPart, Loaded, Delivered
  <2>3. CASE \E accepted \in Accepts : Deliver(accepted)
    BY <1>1, <2>3, DeliveryKeepsOrigin
  <2>4. CASE \E codec \in Codecs : \E pad \in Pads : AddDelivered(pad, codec)
    BY <1>1, <2>4, GivingKeepsOrigin DEF AddDelivered
  <2>5. CASE \E codec \in Codecs : \E t \in Drawings : AddFrame(t, codec)
    BY <1>1, <2>5, GivingKeepsOrigin
  <2>6. CASE Convert \/ FlattenPixel \/ Truncate
    BY <1>1, <2>6, EncodingKeepsOrigin
  <2>7. CASE Rest \/ UNCHANGED vars
    <3>1. /\ pc' = pc /\ file' = file /\ image' = image /\ frame' = frame
          /\ given' = given /\ buf' = buf
      BY <2>7 DEF Rest, vars
    <3> QED
      BY <1>1, <3>1 DEF OriginPart, Loaded, Delivered
  <2> QED
    BY <1>1, <2>1, <2>2, <2>3, <2>4, <2>5, <2>6, <2>7 DEF Next
<1> QED
  BY <1>1, InitOrigin, PixelInductive, PTL DEF Spec

(* What the application gets of a decoded file. *)
LEMMA FrameFacts ==
  ASSUME PInv, OriginPart, Delivered
  PROVE  LET t == image.texture
             u == frame.texture
         IN  /\ IsTexture(t) /\ WellFormed(t) /\ t.format = file.texture.format
             /\ IsTexture(u) /\ WellFormed(u) /\ u.format \notin Premultiplied8
             /\ ~file.svg => u = t
             /\ file.svg => t.format = "R8G8B8A8" /\ u = MaybeConvert(t, frame.accepted)
<1> DEFINE t == image.texture
           u == frame.texture
<1>1. file \in Files /\ file.svg \in BOOLEAN
  BY FileFacts DEF PInv
<1>2. IsTexture(t) /\ WellFormed(t) /\ t.format = file.texture.format
  BY DEF OriginPart, Loaded, Delivered
<1>3. u = MaybeConvert(t, IF file.svg THEN frame.accepted ELSE {})
  BY DEF OriginPart
<1>4. t.format \notin Premultiplied8 /\ (file.svg => t.format = "R8G8B8A8")
  BY <1>1, <1>2, PixelAssumption
<1>5. CASE file.svg
  <2>1. u = MaybeConvert(t, frame.accepted)
    BY <1>3, <1>5
  <2> HIDE DEF t, u
  <2>2. IsTexture(u) /\ WellFormed(u) /\ u.format \notin Premultiplied8
    BY <1>2, <1>4, <1>5, <2>1, StraightFits, ConversionIsFaithful
  <2> QED
    BY <1>2, <1>4, <1>5, <2>1, <2>2 DEF t, u
<1>6. CASE ~file.svg
  <2>1. u = t
    BY <1>3, <1>6 DEF MaybeConvert
  <2> QED
    BY <1>2, <1>4, <1>6, <2>1
<1> QED
  BY <1>1, <1>5, <1>6

(* Every frame of a vector image that the shim delivers has a format that the
   application asked for, if the shim can make one of them, and shows in it the
   colours that were decoded; every other frame is as it was decoded.  The shim's
   maybe_convert, whatever the size of the picture and the selection. *)
THEOREM DeliveredCorrect == Spec => []DeliveredAsAsked
<1>1. PInv /\ OriginPart => DeliveredAsAsked
  <2> DEFINE t == image.texture
             u == frame.texture
             possible == {Priority[i] : i \in DOMAIN Priority} \cup {t.format}
             C(x, y) == [r |-> Pixel(t, x, y)[0], g |-> Pixel(t, x, y)[1],
                         b |-> Pixel(t, x, y)[2], a |-> Pixel(t, x, y)[3]]
  <2> SUFFICES ASSUME PInv, OriginPart, Delivered
               PROVE  IF file.svg
                      THEN /\ frame.accepted \cap possible # {}
                              /\ UnknownBit \notin frame.accepted
                                => u.format \in frame.accepted
                           /\ u.width = t.width /\ u.height = t.height /\ WellFormed(u)
                           /\ \A x \in 0..t.width - 1, y \in 0..t.height - 1 :
                                Shows(u.format, Pixel(u, x, y), C(x, y))
                      ELSE u = t
    BY DEF DeliveredAsAsked
  <2> HIDE DEF t, u
  <2>1. /\ IsTexture(t) /\ WellFormed(t) /\ (~file.svg => u = t)
        /\ file.svg => t.format = "R8G8B8A8" /\ u = MaybeConvert(t, frame.accepted)
    BY FrameFacts DEF t, u
  <2>2. ASSUME file.svg
        PROVE  /\ frame.accepted \cap possible # {} /\ UnknownBit \notin frame.accepted
                    => u.format \in frame.accepted
               /\ u.width = t.width /\ u.height = t.height /\ WellFormed(u)
               /\ \A x \in 0..t.width - 1, y \in 0..t.height - 1 :
                    Shows(u.format, Pixel(u, x, y), SampleRgba8(t.format, Pixel(t, x, y)))
    BY <2>1, <2>2, StraightFits, ConversionIsFaithful
  <2>3. ASSUME file.svg, NEW x, NEW y
        PROVE  SampleRgba8(t.format, Pixel(t, x, y)) = C(x, y)
    BY <2>1, <2>3, StraightColour
  <2> QED
    BY <2>1, <2>2, <2>3
<1> QED
  BY <1>1, PixelInductive, OriginInductive, PTL

(* The pixels of the application's own drawings are colours: in a premultiplied
   format no channel exceeds the alpha. *)
ColoursFitAlpha ==
  \A t \in Drawings : ~Refused(t) =>
    \A x \in 0..t.width - 1, y \in 0..t.height - 1 : FitsAlpha(t.format, Pixel(t, x, y))

(* What is not refused has bytes for every pixel. *)
LEMMA AcceptedIsLegible ==
  ASSUME NEW t, IsTexture(t), ~Refused(t)
  PROVE  IsLegible(t) /\ t.format \in Narrow
<1> DEFINE row == RowBytes(t)
           s == t.stride
           need == (t.height - 1) * t.stride + RowBytes(t)
           len == t.len
<1>1. ~(row > s) /\ ~(need > len) /\ t.format \in Narrow
  BY DEF Refused
<1>2. s \in Nat /\ len \in Nat /\ row \in Nat /\ need \in Nat
  <2>1. BytesPerPixel(t.format) \in Nat /\ t.width \in Nat /\ t.height - 1 \in Nat
        /\ t.stride \in Nat
    BY BytesArePositive DEF IsTexture
  <2>2. row \in Nat /\ (t.height - 1) * t.stride \in Nat
    BY <2>1, ProductInNat DEF RowBytes
  <2> HIDE DEF row
  <2>3. need \in Nat
    <3> DEFINE a == (t.height - 1) * t.stride
    <3>1. a \in Nat /\ need = a + row
      BY <2>2 DEF row
    <3> HIDE DEF a, need
    <3> QED
      BY <2>2, <3>1
  <2> QED
    BY <2>2, <2>3 DEF IsTexture
<1> HIDE DEF row, s, need, len
<1>3. row <= s /\ need <= len
  BY <1>1, <1>2
<1> QED
  BY <1>1, <1>3 DEF IsLegible, row, s, need, len

(* The texture that the encoder got, once it has not refused it. *)
LEMMA GivenFacts ==
  ASSUME ColoursFitAlpha, PInv, OriginPart, pc = "written"
  PROVE  LET t == given.texture
         IN  /\ IsLegible(t) /\ t.format \in Narrow
             /\ \A x \in 0..t.width - 1, y \in 0..t.height - 1 :
                  FitsAlpha(t.format, Pixel(t, x, y))
<1> DEFINE t == given.texture
<1>1. ~Refused(t)
  BY DEF OriginPart
<1>2. CASE t \in Drawings
  <2>1. IsTexture(t)
    BY <1>2, PixelAssumption
  <2> QED
    BY <1>1, <1>2, <2>1, AcceptedIsLegible DEF ColoursFitAlpha
<1>3. ASSUME NEW pad \in Pads, t = Spread(frame.texture, pad)
      PROVE  IsTexture(t) /\ t.format \notin Premultiplied8
  <2>1. /\ IsTexture(frame.texture) /\ WellFormed(frame.texture)
        /\ frame.texture.format \notin Premultiplied8
    BY FrameFacts DEF Delivered
  <2>2. pad \in Nat
    BY PixelAssumption
  <2> QED
    BY <1>3, <2>1, <2>2, SpreadPixels
<1>4. CASE \E pad \in Pads : t = Spread(frame.texture, pad)
  <2>1. IsTexture(t) /\ t.format \notin Premultiplied8
    BY <1>3, <1>4
  <2> QED
    BY <1>1, <2>1, AcceptedIsLegible DEF FitsAlpha
<1> QED
  BY <1>2, <1>4 DEF OriginPart

(* to_rgba8 and flatten_over_white hand the codec, at the place of every pixel, the
   colour that the name of its format says, and for JPEG the byte nearest to that
   colour on white; for every texture that is not refused, whatever its stride and
   whether or not its last row is cut short. *)
THEOREM WrittenCorrect ==
  ASSUME ColoursFitAlpha
  PROVE  Spec => []WrittenAsGiven
<1>1. PInv /\ OriginPart /\ FlattenedExactly => WrittenAsGiven
  <2> SUFFICES ASSUME PInv, OriginPart, FlattenedExactly, pc = "written"
               PROVE  WrittenAsGiven
    BY DEF WrittenAsGiven
  <2> DEFINE t == given.texture
             P(x, y) == Pixel(t, x, y)
             C(x, y) == SampleRgba8(t.format, P(x, y))
             N(x, y) == y * t.width + x
  <2>1. /\ IsLegible(t) /\ t.format \in Narrow
        /\ \A x \in 0..t.width - 1, y \in 0..t.height - 1 : FitsAlpha(t.format, P(x, y))
    BY GivenFacts
  <2>2. Pixels = t.width * t.height
    BY DEF Pixels
  <2>3. /\ DOMAIN Source = 0..4 * Pixels - 1
        /\ \A x \in 0..t.width - 1, y \in 0..t.height - 1 :
             /\ N(x, y) \in 0..Pixels - 1
             /\ Source[4 * N(x, y)] = C(x, y).r /\ Source[4 * N(x, y) + 1] = C(x, y).g
             /\ Source[4 * N(x, y) + 2] = C(x, y).b /\ Source[4 * N(x, y) + 3] = C(x, y).a
    BY <2>1, <2>2, RgbaPixels DEF Source
  <2>4. ASSUME NEW x \in 0..t.width - 1, NEW y \in 0..t.height - 1
        PROVE  /\ P(x, y) \in [0..BytesPerPixel(t.format) - 1 -> Byte]
               /\ C(x, y).r \in Byte /\ C(x, y).g \in Byte
               /\ C(x, y).b \in Byte /\ C(x, y).a \in Byte
               /\ C(x, y) = [r |-> C(x, y).r, g |-> C(x, y).g, b |-> C(x, y).b,
                             a |-> C(x, y).a]
               /\ Shows(t.format, P(x, y), C(x, y)) /\ Plain(t.format, C(x, y))
    <3>1. P(x, y) \in [0..BytesPerPixel(t.format) - 1 -> Byte]
      BY <2>1, PixelIsBytes DEF IsLegible
    <3>2. C(x, y) = [r |-> C(x, y).r, g |-> C(x, y).g, b |-> C(x, y).b, a |-> C(x, y).a]
      BY SampleIs
    <3> HIDE DEF P, t
    <3>3. /\ C(x, y).r \in Byte /\ C(x, y).g \in Byte
          /\ C(x, y).b \in Byte /\ C(x, y).a \in Byte
      BY <2>1, <3>1, SampleIsByte
    <3>4. Shows(t.format, P(x, y), C(x, y)) /\ Plain(t.format, C(x, y))
      BY <2>1, <3>1, SampleShows
    <3> QED
      BY <3>1, <3>2, <3>3, <3>4
  <2> HIDE DEF C, N, P
  <2>5. CASE given.codec = "jpeg"
    <3>1. DOMAIN buf = 0..3 * Pixels - 1 /\ \A i \in 0..Pixels - 1 : IsFlat(i)
      BY <2>5 DEF FlattenedExactly
    <3>2. ASSUME NEW x \in 0..t.width - 1, NEW y \in 0..t.height - 1
          PROVE  LET o == 3 * N(x, y)
                     c == C(x, y)
                 IN  /\ IsOnWhite(buf[o], c.r, c.a)
                     /\ IsOnWhite(buf[o + 1], c.g, c.a)
                     /\ IsOnWhite(buf[o + 2], c.b, c.a)
      <4> DEFINE i == N(x, y)
                 c == C(x, y)
      <4>1. /\ i \in 0..Pixels - 1
            /\ Source[4 * i] = c.r /\ Source[4 * i + 1] = c.g
            /\ Source[4 * i + 2] = c.b /\ Source[4 * i + 3] = c.a
        BY <2>3
      <4>2. c.r \in Byte /\ c.g \in Byte /\ c.b \in Byte /\ c.a \in Byte
        BY <2>4
      <4>3. \A k \in 0..2 : buf[3 * i + k] = OverWhite(Source[4 * i + k], Source[4 * i + 3])
        BY <3>1, <4>1 DEF IsFlat
      <4> HIDE DEF i, c
      <4>4. 0 \in 0..2 /\ 1 \in 0..2 /\ 2 \in 0..2
            /\ 3 * i + 0 = 3 * i /\ 4 * i + 0 = 4 * i
        BY <4>1
      <4>5. /\ buf[3 * i] = OverWhite(c.r, c.a) /\ buf[3 * i + 1] = OverWhite(c.g, c.a)
            /\ buf[3 * i + 2] = OverWhite(c.b, c.a)
        BY <4>1, <4>3, <4>4
      <4> QED
        BY <4>2, <4>5, OnWhite DEF i, c
    <3> QED
      BY <2>5, <3>1, <3>2 DEF WrittenAsGiven, t, C, N, P
  <2>6. CASE given.codec # "jpeg"
    <3>1. buf = Source
      BY <2>6 DEF OriginPart, Source
    <3>2. ASSUME NEW x \in 0..t.width - 1, NEW y \in 0..t.height - 1
          PROVE  LET o == 4 * N(x, y)
                     c == [r |-> buf[o], g |-> buf[o + 1], b |-> buf[o + 2],
                           a |-> buf[o + 3]]
                 IN  Shows(t.format, P(x, y), c) /\ Plain(t.format, c)
      <4> DEFINE o == 4 * N(x, y)
      <4>1. [r |-> buf[o], g |-> buf[o + 1], b |-> buf[o + 2], a |-> buf[o + 3]] = C(x, y)
        BY <2>3, <2>4, <3>1
      <4> QED
        BY <2>4, <4>1
    <3> QED
      BY <2>3, <2>6, <3>1, <3>2 DEF WrittenAsGiven, t, C, N, P
  <2> QED
    BY <2>5, <2>6
<1> QED
  BY <1>1, PixelInductive, OriginInductive, FlatteningIsExact, PTL

=============================================================================
