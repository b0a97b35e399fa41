-------------------------- MODULE PixelPathProofs ---------------------------
(***************************************************************************)
(* Proofs about PixelPath, for textures of every size, stride and format.  *)
(* Baking writes each pixel of the turned texture once and inside it,      *)
(* because MappedCoord maps one rectangle one to one onto the other and    *)
(* different pixels have different bytes; and where MappedCoord puts a     *)
(* pixel is where the EXIF tag says that it is seen.  The parser finds the *)
(* tag that a camera wrote.  Flattening over white writes only where it    *)
(* has read already.                                                       *)
(***************************************************************************)
EXTENDS PixelPath, SequenceTheorems, WellFoundedInduction, TLAPS

(* Numbers. *)

(* A product grows with its first factor. *)
LEMMA Grows ==
  ASSUME NEW a \in Nat, NEW b \in Nat, NEW n \in Nat, a <= b
  PROVE  a * n <= b * n
<1>1. PICK d \in Nat : b = a + d
  BY SMT
<1>2. b * n = a * n + d * n
  BY <1>1, SMT
<1>3. d * n \in Nat
  BY SMT
<1> QED
  BY <1>2, <1>3, SMT

(* So does it by a whole step. *)
LEMMA GrowsByStep ==
  ASSUME NEW a \in Nat, NEW b \in Nat, NEW n \in Nat, a < b
  PROVE  a * n + n <= b * n
<1>1. (a + 1) * n <= b * n
  BY Grows, SMT
<1>2. (a + 1) * n = a * n + n
  BY SMT
<1> QED
  BY <1>1, <1>2, SMT

LEMMA ProductInNat ==
  ASSUME NEW a \in Nat, NEW b \in Nat
  PROVE  a * b \in Nat
BY SMT

(* A quotient and a remainder are those of one number only. *)
LEMMA OneQuotient ==
  ASSUME NEW n \in Nat, NEW p \in Nat, NEW q \in Nat,
         NEW i \in Nat, NEW j \in Nat, i < n, j < n,
         p * n + i = q * n + j
  PROVE  p = q /\ i = j
<1>0. p * n \in Nat /\ q * n \in Nat
  BY ProductInNat
<1>1. ~(p < q)
  <2> SUFFICES ASSUME p < q PROVE FALSE
    OBVIOUS
  <2>1. p * n + n <= q * n
    BY GrowsByStep
  <2> QED
    BY <1>0, <2>1, SMT
<1>2. ~(q < p)
  <2> SUFFICES ASSUME q < p PROVE FALSE
    OBVIOUS
  <2>1. q * n + n <= p * n
    BY GrowsByStep
  <2> QED
    BY <1>0, <2>1, SMT
<1>3. p = q
  BY <1>1, <1>2, SMT
<1> QED
  BY <1>0, <1>3, SMT

(* The bytes of a pixel lie in a texture whose rows are long enough. *)
LEMMA PixelInside ==
  ASSUME NEW w \in Nat, NEW h \in Nat, NEW n \in Nat, NEW stride \in Nat,
         NEW x \in Nat, NEW y \in Nat, x < w, y < h, w * n <= stride
  PROVE  /\ y * stride + x * n \in Nat
         /\ y * stride + x * n + n <= stride * h
<1>1. x * n + n <= w * n
  BY GrowsByStep
<1>2. y * stride + stride <= h * stride
  BY GrowsByStep
<1>3. x * n \in Nat /\ y * stride \in Nat /\ w * n \in Nat /\ h * stride \in Nat
  BY ProductInNat
<1>4. h * stride = stride * h
  BY SMT
<1> QED
  BY <1>1, <1>2, <1>3, <1>4, SMT

(* Byte i of pixel (x, y) in a texture with w pixels of n bytes in a row. *)
Spot(w, n, x, y, i) == y * (w * n) + x * n + i

(* Two pixels of a texture with tight rows have no byte in common. *)
LEMMA PixelsApart ==
  ASSUME NEW w, NEW n, NEW x, NEW y, NEW ux, NEW uy, NEW i, NEW j,
         w \in Nat /\ n \in Nat /\ y \in Nat /\ uy \in Nat,
         x \in 0..w - 1 /\ ux \in 0..w - 1 /\ i \in 0..n - 1 /\ j \in 0..n - 1,
         Spot(w, n, x, y, i) = Spot(w, n, ux, uy, j)
  PROVE  x = ux /\ y = uy
<1> DEFINE p == y * w + x
           q == uy * w + ux
<1>1. y * w \in Nat /\ uy * w \in Nat
  BY ProductInNat
<1>2. p \in Nat /\ q \in Nat
  BY <1>1, SMT
<1>3. p * n = y * (w * n) + x * n
  BY SMT
<1>4. q * n = uy * (w * n) + ux * n
  BY SMT
<1>5. p * n + i = q * n + j
  BY <1>3, <1>4 DEF Spot
<1>6. p = q /\ i = j
  <2> HIDE DEF p, q
  <2> QED
    BY <1>2, <1>5, OneQuotient
<1>7. y = uy /\ x = ux
  BY <1>6, OneQuotient
<1> QED
  BY <1>6, <1>7
-----------------------------------------------------------------------------
(* Orientations. *)

LEMMA BytesArePositive ==
  ASSUME NEW f \in Formats
  PROVE  BytesPerPixel(f) \in Nat \ {0}
BY SMT DEF Formats, Narrow, Wide, BytesPerPixel

TurnedWidth(o, w, h) == IF SwapsAxes(o) THEN h ELSE w
TurnedHeight(o, w, h) == IF SwapsAxes(o) THEN w ELSE h

(* A pixel of the source goes to a pixel of the turned texture. *)
LEMMA MappedInside ==
  ASSUME NEW o \in Orientations, NEW w \in Nat, NEW h \in Nat,
         NEW x \in 0..w - 1, NEW y \in 0..h - 1
  PROVE  /\ MappedCoord(o, x, y, w, h).x \in 0..TurnedWidth(o, w, h) - 1
         /\ MappedCoord(o, x, y, w, h).y \in 0..TurnedHeight(o, w, h) - 1
<1> DEFINE to == MappedCoord(o, x, y, w, h)
<1>1. CASE SwapsAxes(o)
  <2>1. to.x \in {y, h - 1 - y} /\ to.y \in {x, w - 1 - x}
    BY <1>1, SMT DEF MappedCoord, SwapsAxes
  <2> HIDE DEF to
  <2>2. TurnedWidth(o, w, h) = h /\ TurnedHeight(o, w, h) = w
    BY <1>1 DEF TurnedWidth, TurnedHeight
  <2> QED
    BY <2>1, <2>2, SMT DEF to
<1>2. CASE ~SwapsAxes(o)
  <2>1. to.x \in {x, w - 1 - x} /\ to.y \in {y, h - 1 - y}
    BY <1>2, SMT DEF MappedCoord, SwapsAxes, Orientations, TagName
  <2> HIDE DEF to
  <2>2. TurnedWidth(o, w, h) = w /\ TurnedHeight(o, w, h) = h
    BY <1>2 DEF TurnedWidth, TurnedHeight
  <2> QED
    BY <2>1, <2>2, SMT DEF to
<1> QED
  BY <1>1, <1>2

(* Different pixels go to different places. *)
LEMMA MappedApart ==
  ASSUME NEW o \in Orientations, NEW w \in Nat, NEW h \in Nat,
         NEW x \in 0..w - 1, NEW y \in 0..h - 1,
         NEW ux \in 0..w - 1, NEW uy \in 0..h - 1,
         MappedCoord(o, x, y, w, h).x = MappedCoord(o, ux, uy, w, h).x,
         MappedCoord(o, x, y, w, h).y = MappedCoord(o, ux, uy, w, h).y
  PROVE  x = ux /\ y = uy
BY SMT DEF Orientations, TagName, MappedCoord

(* The place that MappedCoord gives a pixel is where a viewer who minds the
   tag sees it. *)
LEMMA MappedIsSeen ==
  ASSUME NEW tag \in 1..8, NEW w \in Nat, NEW h \in Nat,
         NEW x \in 0..w - 1, NEW y \in 0..h - 1
  PROVE  /\ Seen(tag, x, y, w, h).x = MappedCoord(TagName[tag], x, y, w, h).x
         /\ Seen(tag, x, y, w, h).y = MappedCoord(TagName[tag], x, y, w, h).y
         /\ SeenSides(tag, w, h) = <<TurnedWidth(TagName[tag], w, h),
                                    TurnedHeight(TagName[tag], w, h)>>
BY SMT DEF TagName, MappedCoord, Seen, SeenSides, Sideways, From, FirstRow, FirstColumn,
          TurnedWidth, TurnedHeight, SwapsAxes

LEMMA TagOfName ==
  ASSUME NEW tag \in 1..8
  PROVE  TagName[tag] \in Orientations /\ ExifValue(TagName[tag]) = tag
BY SMT DEF TagName, Orientations, ExifValue

LEMMA FromExifIsOrientation ==
  ASSUME NEW v
  PROVE  FromExif(v) \in Orientations
BY SMT DEF FromExif, Orientations
-----------------------------------------------------------------------------
(* The invariant. *)

IsShape(t) ==
  /\ t.width \in Nat \ {0} /\ t.height \in Nat \ {0} /\ t.stride \in Nat
  /\ t.format \in Formats /\ t.len \in Nat

AsDecoded ==
  [width |-> file.width, height |-> file.height, orientation |-> "Normal",
   texture |-> file.texture]

(* Pixel (x, y) of the source and the bytes of buf where it belongs agree. *)
Copied(x, y) ==
  LET t == file.texture
      n == BytesPerPixel(t.format)
      to == MappedCoord(Turn, x, y, t.width, t.height)
      row == TurnedWidth(Turn, t.width, t.height) * n
  IN  \A k \in 0..n - 1 :
        buf[to.y * row + to.x * n + k] = t.data[y * t.stride + x * n + k]

(* The loop has been at the pixel (x, y). *)
Past(x, y) == y < at.y \/ (y = at.y /\ x < at.x)

BakePart ==
  pc = "bake" =>
    LET t == file.texture
    IN  /\ apply /\ image = AsDecoded
        /\ at.x \in 0..t.width - 1 /\ at.y \in 0..t.height
        /\ at = [x |-> at.x, y |-> at.y]
        /\ at.y = t.height => at.x = 0
        /\ buf \in [0..Turned.len - 1 -> Byte]
        /\ \A x \in 0..t.width - 1, y \in 0..t.height - 1 : Past(x, y) => Copied(x, y)

(* The image as it is loaded: as it was decoded, with the tag reported, or
   turned, each pixel where MappedCoord puts it. *)
IsTurned(i, f) ==
  LET o == FromExif(ParseOrientation(f.exif))
      t == f.texture
  IN  /\ i.orientation = "Normal"
      /\ i.width = TurnedWidth(o, f.width, f.height)
      /\ i.height = TurnedHeight(o, f.width, f.height)
      /\ i.texture.width = TurnedWidth(o, t.width, t.height)
      /\ i.texture.height = TurnedHeight(o, t.width, t.height)
      /\ \A x \in 0..t.width - 1, y \in 0..t.height - 1 :
           LET to == MappedCoord(o, x, y, t.width, t.height)
           IN  Pixel(i.texture, to.x, to.y) = Pixel(t, x, y)

LoadedPart ==
  Loaded =>
    \/ /\ image.orientation = Turn
       /\ image.width = file.width /\ image.height = file.height
       /\ image.texture = file.texture
    \/ IsTurned(image, file)

ShapePart ==
  /\ IsShape(image.texture)
  /\ pc = "delivered" => IsShape(frame.texture)
  /\ pc \in {"convert", "flatten"} => IsShape(given.texture)

PInv ==
  /\ file \in Files
  /\ apply \in BOOLEAN
  /\ OnlyCutRowsPanic
  /\ pc \in {"decoded", "panicked"} => image = AsDecoded
  /\ BakePart
  /\ LoadedPart
  /\ ShapePart
-----------------------------------------------------------------------------
LEMMA FileFacts ==
  ASSUME NEW f \in Files
  PROVE  /\ f.width \in Nat /\ f.height \in Nat /\ f.svg \in BOOLEAN
         /\ IsTexture(f.texture) /\ WellFormed(f.texture) /\ IsShape(f.texture)
         /\ f.texture.width * BytesPerPixel(f.texture.format) < U32
         /\ U32 \in Nat \ {0}
BY PixelAssumption DEF IsShape, IsTexture, RowBytes

LEMMA InitPInv == Init => PInv
<1> SUFFICES ASSUME Init PROVE PInv
  OBVIOUS
<1>1. IsShape(file.texture)
  BY FileFacts DEF Init
<1>2. image.texture = file.texture /\ image = AsDecoded
  BY DEF Init, AsDecoded
<1> QED
  BY <1>1, <1>2 DEF Init, PInv, OnlyCutRowsPanic, BakePart, LoadedPart, ShapePart, Loaded

(* The texture that is being made, while the image is as it was decoded: its
   stride says less than a row has when the row is cut, which only an exchange
   of the axes can bring about. *)
LEMMA TurnedFacts ==
  ASSUME file \in Files, image = AsDecoded
  PROVE  LET t == file.texture
             n == BytesPerPixel(t.format)
             w == TurnedWidth(Turn, t.width, t.height)
             h == TurnedHeight(Turn, t.width, t.height)
         IN  /\ Turned.width = w /\ Turned.height = h /\ Turned.format = t.format
             /\ Turned.len = (w * n) * h /\ Turned.data = buf
             /\ w * n < U32 => Turned.stride = w * n
             /\ w * n >= U32 => SwapsAxes(Turn) /\ Turned.stride < w * n
             /\ w \in Nat \ {0} /\ h \in Nat \ {0} /\ w * n \in Nat
             /\ n \in Nat \ {0}
             /\ RowBytes(Turned) = w * n
<1> DEFINE t == file.texture
           n == BytesPerPixel(t.format)
           w == TurnedWidth(Turn, t.width, t.height)
           h == TurnedHeight(Turn, t.width, t.height)
<1>1. IsShape(t) /\ t.width * n < U32 /\ U32 \in Nat \ {0}
  BY FileFacts
<1>2. n \in Nat \ {0}
  BY <1>1, BytesArePositive DEF IsShape
<1>3. w \in Nat \ {0} /\ h \in Nat \ {0}
  BY <1>1 DEF IsShape, TurnedWidth, TurnedHeight
<1>4. w * n \in Nat
  BY <1>2, <1>3, ProductInNat
<1>5. /\ w * n < U32 => (w * n) % U32 = w * n
      /\ w * n >= U32 => (w * n) % U32 < w * n
  <2> DEFINE r == w * n
  <2>1. r \in Nat /\ U32 \in Nat \ {0}
    BY <1>1, <1>4
  <2> HIDE DEF r
  <2>2. r < U32 => r % U32 = r
    BY <2>1, SMT
  <2>3. r % U32 \in 0..U32 - 1
    BY <2>1, SMT
  <2>4. r >= U32 => r % U32 < r
    BY <2>1, <2>3, SMT
  <2> QED
    BY <2>2, <2>4 DEF r
<1>6. w * n >= U32 => SwapsAxes(Turn)
  <2> SUFFICES ASSUME ~SwapsAxes(Turn) PROVE ~(w * n >= U32)
    OBVIOUS
  <2> DEFINE r == w * n
  <2>1. r < U32
    BY <1>1 DEF TurnedWidth
  <2>2. r \in Nat
    BY <1>4
  <2> HIDE DEF r
  <2>3. ~(r >= U32)
    BY <1>1, <2>1, <2>2, SMT
  <2> QED
    BY <2>3 DEF r
<1>7. image.texture = t
  BY DEF AsDecoded
<1>8. Turned = [width |-> w, height |-> h, stride |-> (w * n) % U32,
                format |-> t.format, len |-> (w * n) * h, data |-> buf]
  BY <1>7 DEF Turned, TurnedWidth, TurnedHeight
<1>9. RowBytes(Turned) = w * n
  BY <1>8 DEF RowBytes
<1> HIDE DEF w, h, n, t
<1>10. /\ Turned.width = w /\ Turned.height = h /\ Turned.format = t.format
       /\ Turned.stride = (w * n) % U32 /\ Turned.len = (w * n) * h /\ Turned.data = buf
  BY <1>8
<1> QED
  BY <1>2, <1>3, <1>4, <1>5, <1>6, <1>9, <1>10 DEF w, h, n, t

(* Where the pixel (x, y) is read and where it is written. *)
ReadsAt(x, y) ==
  y * file.texture.stride + x * BytesPerPixel(file.texture.format)
WritesAt(x, y) ==
  LET t == file.texture
      n == BytesPerPixel(t.format)
      to == MappedCoord(Turn, x, y, t.width, t.height)
  IN  to.y * (TurnedWidth(Turn, t.width, t.height) * n) + to.x * n

LEMMA OffsetFacts ==
  ASSUME file \in Files, image = AsDecoded,
         NEW x \in 0..file.texture.width - 1, NEW y \in 0..file.texture.height - 1
  PROVE  LET n == BytesPerPixel(file.texture.format)
         IN  /\ ReadsAt(x, y) \in Nat /\ ReadsAt(x, y) + n <= file.texture.len
             /\ WritesAt(x, y) \in Nat /\ WritesAt(x, y) + n <= Turned.len
<1> DEFINE t == file.texture
           n == BytesPerPixel(t.format)
           w == TurnedWidth(Turn, t.width, t.height)
           h == TurnedHeight(Turn, t.width, t.height)
           to == MappedCoord(Turn, x, y, t.width, t.height)
<1>1. /\ IsShape(t) /\ WellFormed(t)
  BY FileFacts
<1>2. /\ n \in Nat \ {0} /\ w \in Nat \ {0} /\ h \in Nat \ {0} /\ w * n \in Nat
      /\ Turned.len = (w * n) * h
  BY TurnedFacts
<1>3. ReadsAt(x, y) \in Nat /\ ReadsAt(x, y) + n <= t.len
  <2>1. t.width \in Nat /\ t.height \in Nat /\ t.stride \in Nat /\ x \in Nat /\ y \in Nat
        /\ x < t.width /\ y < t.height
    BY <1>1, SMT DEF IsShape
  <2>2. t.width * n <= t.stride /\ t.len = t.stride * t.height
    <3>1. t.stride >= t.width * n /\ t.len = t.stride * t.height
      BY <1>1 DEF WellFormed
    <3>2. t.width * n \in Nat
      BY <1>2, <2>1, ProductInNat
    <3> QED
      BY <2>1, <3>1, <3>2, SMT
  <2> HIDE DEF n, t
  <2>3. y * t.stride + x * n \in Nat /\ y * t.stride + x * n + n <= t.stride * t.height
    BY <1>2, <2>1, <2>2, PixelInside
  <2> QED
    BY <2>2, <2>3 DEF ReadsAt, n, t
<1>4. WritesAt(x, y) \in Nat /\ WritesAt(x, y) + n <= Turned.len
  <2>0. t.width \in Nat /\ t.height \in Nat /\ Turn \in Orientations
    BY <1>1, FromExifIsOrientation DEF IsShape, Turn
  <2>1. to.x \in 0..w - 1 /\ to.y \in 0..h - 1
    BY <2>0, MappedInside
  <2> HIDE DEF n, w, h, to, t
  <2>2. to.x \in Nat /\ to.y \in Nat /\ to.x < w /\ to.y < h
    BY <1>2, <2>1, SMT
  <2>3. w * n <= w * n
    BY <1>2, SMT
  <2>4. to.y * (w * n) + to.x * n \in Nat /\ to.y * (w * n) + to.x * n + n <= (w * n) * h
    BY <1>2, <2>2, <2>3, PixelInside
  <2> QED
    BY <1>2, <2>4 DEF WritesAt, n, w, h, to, t
<1> QED
  BY <1>3, <1>4

(* The bytes written for two pixels are different bytes. *)
LEMMA OffsetsApart ==
  ASSUME file \in Files,
         NEW x \in 0..file.texture.width - 1, NEW y \in 0..file.texture.height - 1,
         NEW ux \in 0..file.texture.width - 1, NEW uy \in 0..file.texture.height - 1,
         NEW i \in 0..BytesPerPixel(file.texture.format) - 1,
         NEW j \in 0..BytesPerPixel(file.texture.format) - 1,
         WritesAt(x, y) + i = WritesAt(ux, uy) + j
  PROVE  x = ux /\ y = uy
<1> DEFINE t == file.texture
           n == BytesPerPixel(t.format)
           w == TurnedWidth(Turn, t.width, t.height)
           h == TurnedHeight(Turn, t.width, t.height)
           to == MappedCoord(Turn, x, y, t.width, t.height)
           uto == MappedCoord(Turn, ux, uy, t.width, t.height)
<1>1. IsShape(t) /\ t.width \in Nat /\ t.height \in Nat /\ Turn \in Orientations
  BY FileFacts, FromExifIsOrientation DEF IsShape, Turn
<1>2. n \in Nat \ {0} /\ w \in Nat /\ h \in Nat
  BY <1>1, BytesArePositive DEF IsShape, TurnedWidth, TurnedHeight
<1>3. to.x \in 0..w - 1 /\ to.y \in 0..h - 1 /\ uto.x \in 0..w - 1 /\ uto.y \in 0..h - 1
  BY <1>1, MappedInside
<1>4. Spot(w, n, to.x, to.y, i) = Spot(w, n, uto.x, uto.y, j)
  BY DEF WritesAt, Spot
<1>5. to.x = uto.x /\ to.y = uto.y
  <2>1. i \in 0..n - 1 /\ j \in 0..n - 1
    OBVIOUS
  <2> HIDE DEF n, w, h, to, uto, t
  <2>2. to.y \in Nat /\ uto.y \in Nat /\ n \in Nat
    BY <1>2, <1>3, SMT
  <2> QED
    BY <1>2, <1>3, <1>4, <2>1, <2>2, PixelsApart
<1>6. x \in 0..t.width - 1 /\ y \in 0..t.height - 1
      /\ ux \in 0..t.width - 1 /\ uy \in 0..t.height - 1
  OBVIOUS
<1>7. /\ MappedCoord(Turn, x, y, t.width, t.height).x
           = MappedCoord(Turn, ux, uy, t.width, t.height).x
      /\ MappedCoord(Turn, x, y, t.width, t.height).y
           = MappedCoord(Turn, ux, uy, t.width, t.height).y
  BY <1>5
<1> HIDE DEF t, to, uto, n, w, h
<1> QED
  BY <1>1, <1>6, <1>7, SMT DEF MappedCoord, Orientations, TagName
-----------------------------------------------------------------------------
(* Baking. *)

(* One pixel more is where it belongs, and no other was touched. *)
LEMMA BakePixelKeeps ==
  ASSUME PInv, BakePixel
  PROVE  PInv'
<1> DEFINE t == file.texture
           n == BytesPerPixel(t.format)
           src == ReadsAt(at.x, at.y)
           dst == WritesAt(at.x, at.y)
<1>1. /\ file \in Files /\ apply \in BOOLEAN /\ image = AsDecoded /\ image.texture = t
      /\ pc = "bake" /\ apply
  BY DEF PInv, BakePart, BakePixel, AsDecoded
<1>2. IsShape(t) /\ IsTexture(t) /\ n \in Nat \ {0}
  BY <1>1, FileFacts, BytesArePositive DEF IsShape
<1>3. /\ at.x \in 0..t.width - 1 /\ at.y \in 0..t.height - 1
      /\ at = [x |-> at.x, y |-> at.y]
  <2>1. /\ at.x \in 0..t.width - 1 /\ at.y \in 0..t.height /\ at.y < t.height
        /\ at = [x |-> at.x, y |-> at.y]
    BY <1>1 DEF PInv, BakePart, BakePixel
  <2>2. t.height \in Nat
    BY <1>2 DEF IsShape
  <2> HIDE DEF t
  <2> QED
    BY <2>1, <2>2, SMT
<1>4. SourceOffset = src
  BY <1>1 DEF SourceOffset, ReadsAt
<1>5. TurnedOffset = dst
  <2>1. RowBytes(Turned) = TurnedWidth(Turn, t.width, t.height) * n
    BY <1>1, TurnedFacts
  <2> QED
    BY <1>1, <2>1 DEF TurnedOffset, WritesAt
<1>6. /\ src \in Nat /\ src + n <= t.len /\ dst \in Nat /\ dst + n <= Turned.len
  BY <1>1, <1>3, OffsetFacts
<1>7. Turned.len \in Nat /\ t.len \in Nat /\ t.data \in [0..t.len - 1 -> Byte]
      /\ buf \in [0..Turned.len - 1 -> Byte]
  <2>1. Turned.len \in Nat
    <3> DEFINE w == TurnedWidth(Turn, t.width, t.height)
               h == TurnedHeight(Turn, t.width, t.height)
    <3>1. Turned.len = (w * n) * h /\ w * n \in Nat /\ h \in Nat
      BY <1>1, TurnedFacts
    <3> HIDE DEF w, h, n
    <3> QED
      BY <3>1, ProductInNat
  <2> QED
    BY <1>1, <1>2, <2>1 DEF IsTexture, PInv, BakePart
<1>8. Inside(src, n, t.len) /\ Inside(dst, n, Turned.len)
  <2> HIDE DEF src, dst, n, t
  <2> QED
    BY <1>2, <1>6, <1>7, SMT DEF Inside
<1>9. /\ buf' = [o \in DOMAIN buf |->
                  IF dst <= o /\ o < dst + n THEN t.data[src + (o - dst)] ELSE buf[o]]
      /\ at' = Following(t)
      /\ UNCHANGED <<file, apply, image, frame, given, pc>>
  BY <1>1, <1>4, <1>5, <1>8 DEF BakePixel
<1>10. buf' \in [0..Turned.len - 1 -> Byte]
  <2> HIDE DEF src, dst, n, t
  <2>1. ASSUME NEW o \in 0..Turned.len - 1, dst <= o, o < dst + n
        PROVE  src + (o - dst) \in 0..t.len - 1
    BY <1>2, <1>6, <1>7, <2>1, SMT
  <2>2. ASSUME NEW o \in 0..Turned.len - 1
        PROVE  (IF dst <= o /\ o < dst + n THEN t.data[src + (o - dst)] ELSE buf[o]) \in Byte
    BY <1>7, <2>1
  <2>3. DOMAIN buf = 0..Turned.len - 1
    BY <1>7
  <2> QED
    BY <1>9, <2>2, <2>3
<1>11. UNCHANGED <<Turn, Turned.len, AsDecoded>>
  BY <1>9 DEF Turn, Turned, AsDecoded
<1>12. ASSUME NEW x \in 0..t.width - 1, NEW y \in 0..t.height - 1,
              Past(x, y) \/ (x = at.x /\ y = at.y)
       PROVE  Copied(x, y)'
  <2> DEFINE off == WritesAt(x, y)
             from == ReadsAt(x, y)
  <2>1. off \in Nat /\ off + n <= Turned.len
    BY <1>1, OffsetFacts
  <2>2. Copied(x, y)' <=> \A k \in 0..n - 1 : buf'[off + k] = t.data[from + k]
    BY <1>9, <1>11 DEF Copied, WritesAt, ReadsAt
  <2>3. SUFFICES ASSUME NEW k \in 0..n - 1 PROVE buf'[off + k] = t.data[from + k]
    BY <2>2
  <2>4. off + k \in DOMAIN buf
    <3>1. DOMAIN buf = 0..Turned.len - 1
      BY <1>7
    <3> HIDE DEF off, n
    <3> QED
      BY <1>2, <1>7, <2>1, <3>1, SMT
  <2>5. CASE x = at.x /\ y = at.y
    <3>1. off = dst /\ from = src
      BY <2>5
    <3> HIDE DEF off, from, dst, src, n, t
    <3>2. dst <= off + k /\ off + k < dst + n /\ src + ((off + k) - dst) = from + k
      BY <1>2, <1>6, <3>1, SMT
    <3> QED
      BY <1>9, <2>4, <3>2
  <2>6. CASE ~(x = at.x /\ y = at.y)
    <3>1. Copied(x, y)
      BY <1>1, <1>12, <2>6 DEF PInv, BakePart
    <3>2. buf[off + k] = t.data[from + k]
      BY <3>1 DEF Copied, WritesAt, ReadsAt
    <3>3. ~(dst <= off + k /\ off + k < dst + n)
      <4> SUFFICES ASSUME dst <= off + k, off + k < dst + n PROVE FALSE
        OBVIOUS
      <4> DEFINE j == (off + k) - dst
      <4>1. j \in 0..n - 1 /\ off + k = dst + j
        <5> HIDE DEF off, dst, n
        <5> QED
          BY <1>2, <1>6, <2>1, SMT
      <4> HIDE DEF j
      <4> QED
        BY <1>1, <1>3, <2>6, <4>1, OffsetsApart
    <3> HIDE DEF off, from, dst, src, n, t
    <3> QED
      BY <1>9, <2>4, <3>2, <3>3
  <2> QED
    BY <2>5, <2>6
<1>13. /\ at'.x \in 0..t.width - 1 /\ at'.y \in 0..t.height
       /\ at' = [x |-> at'.x, y |-> at'.y]
       /\ at'.y = t.height => at'.x = 0
  <2>1. t.width \in Nat \ {0} /\ t.height \in Nat \ {0}
    BY <1>2 DEF IsShape
  <2>2. at' = IF at.x + 1 < t.width THEN [x |-> at.x + 1, y |-> at.y]
              ELSE [x |-> 0, y |-> at.y + 1]
    BY <1>3, <1>9 DEF Following
  <2> HIDE DEF t
  <2> QED
    BY <1>3, <2>1, <2>2, SMT
<1>14. ASSUME NEW x \in 0..t.width - 1, NEW y \in 0..t.height - 1, Past(x, y)'
       PROVE  Past(x, y) \/ (x = at.x /\ y = at.y)
  <2>1. t.width \in Nat \ {0} /\ t.height \in Nat \ {0}
    BY <1>2 DEF IsShape
  <2>2. at' = IF at.x + 1 < t.width THEN [x |-> at.x + 1, y |-> at.y]
              ELSE [x |-> 0, y |-> at.y + 1]
    BY <1>3, <1>9 DEF Following
  <2> HIDE DEF t
  <2> QED
    BY <1>3, <1>14, <2>1, <2>2, SMT DEF Past
<1>15. BakePart'
  <2>1. \A x \in 0..t.width - 1, y \in 0..t.height - 1 : Past(x, y)' => Copied(x, y)'
    BY <1>12, <1>14
  <2>2. t' = t /\ image' = AsDecoded' /\ Turned'.len = Turned.len /\ apply'
    BY <1>1, <1>9, <1>11
  <2>3. buf' \in [0..Turned'.len - 1 -> Byte]
    BY <1>10, <2>2
  <2> QED
    BY <1>13, <2>1, <2>2, <2>3 DEF BakePart
<1>16. /\ file' \in Files /\ apply' \in BOOLEAN /\ OnlyCutRowsPanic' /\ pc' = "bake"
       /\ IsShape(image.texture)'
  BY <1>1, <1>2, <1>9 DEF OnlyCutRowsPanic, Loaded, IsShape
<1> QED
  BY <1>15, <1>16 DEF PInv, LoadedPart, ShapePart, Loaded

(* When the loop has ended every pixel has been copied.  Texture::from_parts
   takes the result unless its stride was cut. *)
LEMMA BakeDoneKeeps ==
  ASSUME PInv, BakeDone
  PROVE  PInv'
<1> DEFINE t == file.texture
           n == BytesPerPixel(t.format)
           w == TurnedWidth(Turn, t.width, t.height)
           h == TurnedHeight(Turn, t.width, t.height)
<1>1. /\ file \in Files /\ apply \in BOOLEAN /\ image = AsDecoded /\ image.texture = t
      /\ pc = "bake" /\ at.y = t.height /\ at = [x |-> 0, y |-> t.height]
      /\ UNCHANGED <<file, apply, frame, given, at, buf>>
  BY DEF PInv, BakePart, BakeDone, AsDecoded
<1>2. IsShape(t) /\ n \in Nat \ {0} /\ U32 \in Nat
  BY <1>1, FileFacts, BytesArePositive DEF IsShape
<1>3. /\ Turned.width = w /\ Turned.height = h /\ Turned.format = t.format
      /\ Turned.len = (w * n) * h /\ Turned.data = buf /\ RowBytes(Turned) = w * n
      /\ w * n < U32 => Turned.stride = w * n
      /\ w * n >= U32 => SwapsAxes(Turn) /\ Turned.stride < w * n
      /\ w \in Nat \ {0} /\ h \in Nat \ {0} /\ w * n \in Nat
  BY <1>1, TurnedFacts
<1>4. \/ /\ w * n < U32 /\ Turned.stride = w * n /\ WellFormed(Turned)
      \/ /\ w * n >= U32 /\ SwapsAxes(Turn) /\ ~WellFormed(Turned)
  <2> DEFINE r == w * n
  <2>1. /\ r \in Nat /\ Turned.width * BytesPerPixel(Turned.format) = r
        /\ Turned.len = r * Turned.height
        /\ r < U32 => Turned.stride = r
        /\ r >= U32 => SwapsAxes(Turn) /\ Turned.stride < r /\ Turned.stride \in Nat
    <3>1. w * n \in Nat => Turned.stride \in Nat
      <4> DEFINE q == image.texture.width * BytesPerPixel(image.texture.format)
                 p == image.texture.height * BytesPerPixel(image.texture.format)
      <4>1. Turned.stride = IF SwapsAxes(Turn) THEN p % U32 ELSE q % U32
        BY DEF Turned
      <4>2. p \in Nat /\ q \in Nat /\ U32 \in Nat \ {0}
        BY <1>1, <1>2, FileFacts, ProductInNat DEF IsShape
      <4> HIDE DEF p, q
      <4>3. p % U32 \in Nat /\ q % U32 \in Nat
        BY <4>2, SMT
      <4> QED
        BY <4>1, <4>3
    <3> QED
      BY <1>3, <3>1
  <2> HIDE DEF r
  <2>2. r < U32 \/ r >= U32
    BY <1>2, <2>1, SMT
  <2>3. r < U32 => WellFormed(Turned)
    BY <2>1, SMT DEF WellFormed
  <2>4. r >= U32 => ~WellFormed(Turned)
    <3> SUFFICES ASSUME r >= U32, Turned.stride >= r PROVE FALSE
      BY <2>1 DEF WellFormed
    <3> QED
      BY <2>1, SMT
  <2> QED
    BY <2>1, <2>2, <2>3, <2>4 DEF r
<1>5. CASE ~WellFormed(Turned)
  <2>1. pc' = "panicked" /\ image' = image
    BY <1>5 DEF BakeDone
  <2>2. apply /\ SwapsAxes(Turn) /\ RowBytes(Turned) >= U32
    BY <1>1, <1>3, <1>4, <1>5 DEF PInv, BakePart
  <2>3. Turn' = Turn /\ Turned' = Turned /\ AsDecoded' = AsDecoded
    BY <1>1, <2>1 DEF Turn, Turned, AsDecoded
  <2>4. OnlyCutRowsPanic'
    BY <1>1, <2>1, <2>2, <2>3 DEF OnlyCutRowsPanic, Loaded, RowBytes
  <2> QED
    <3>1. IsShape(image.texture)'
      BY <1>1, <1>2, <2>1 DEF IsShape
    <3> QED
      BY <1>1, <2>1, <2>3, <2>4, <3>1 DEF PInv, BakePart, LoadedPart, ShapePart, Loaded
<1>6. CASE WellFormed(Turned)
  <2>1. /\ pc' = "loaded"
        /\ image' = [width |-> IF SwapsAxes(Turn) THEN image.height ELSE image.width,
                     height |-> IF SwapsAxes(Turn) THEN image.width ELSE image.height,
                     orientation |-> "Normal", texture |-> Turned]
    BY <1>6 DEF BakeDone
  <2>2. Turned.stride = w * n
    BY <1>4, <1>6
  <2>3. IsShape(Turned)
    <3>1. Turned.len \in Nat
      <4> DEFINE r == w * n
      <4>1. r \in Nat /\ h \in Nat /\ Turned.len = r * h
        BY <1>3
      <4> HIDE DEF r, h
      <4> QED
        BY <4>1, ProductInNat
    <3> QED
      BY <1>2, <1>3, <2>2, <3>1 DEF IsShape
  <2>4. ASSUME NEW x \in 0..t.width - 1, NEW y \in 0..t.height - 1
        PROVE  LET to == MappedCoord(Turn, x, y, t.width, t.height)
               IN  Pixel(Turned, to.x, to.y) = Pixel(t, x, y)
    <3> DEFINE to == MappedCoord(Turn, x, y, t.width, t.height)
    <3>1. Past(x, y)
      <4>1. t.height \in Nat
        BY <1>2 DEF IsShape
      <4> HIDE DEF t
      <4> QED
        BY <1>1, <2>4, <4>1, SMT DEF Past
    <3>2. Copied(x, y)
      BY <1>1, <2>4, <3>1 DEF PInv, BakePart
    <3>3. \A k \in 0..n - 1 :
            buf[to.y * (w * n) + to.x * n + k] = t.data[y * t.stride + x * n + k]
      BY <3>2 DEF Copied
    <3>4. Pixel(Turned, to.x, to.y)
            = [k \in 0..n - 1 |-> buf[to.y * (w * n) + to.x * n + k]]
      BY <1>3, <2>2 DEF Pixel
    <3>5. Pixel(t, x, y) = [k \in 0..n - 1 |-> t.data[y * t.stride + x * n + k]]
      BY DEF Pixel
    <3> HIDE DEF to, w, h, n, t
    <3> QED
      BY <3>3, <3>4, <3>5 DEF to
  <2>5. IsTurned(image', file')
    <3>1. file' = file /\ Turn = FromExif(ParseOrientation(file.exif))
      BY <1>1 DEF Turn
    <3>2. image.width = file.width /\ image.height = file.height
      BY <1>1 DEF AsDecoded
    <3>3. /\ image'.orientation = "Normal" /\ image'.texture = Turned
          /\ image'.width = TurnedWidth(Turn, file.width, file.height)
          /\ image'.height = TurnedHeight(Turn, file.width, file.height)
      BY <2>1, <3>2 DEF TurnedWidth, TurnedHeight
    <3> QED
      BY <1>3, <2>4, <3>1, <3>3 DEF IsTurned
  <2>6. OnlyCutRowsPanic'
    <3>1. image'.texture = Turned
      BY <2>1
    <3> QED
      BY <1>6, <2>1, <3>1 DEF OnlyCutRowsPanic, WellFormed
  <2> QED
    BY <1>1, <2>1, <2>3, <2>5, <2>6 DEF PInv, BakePart, LoadedPart, ShapePart, Loaded
<1> QED
  BY <1>5, <1>6

LEMMA BeginBakeKeeps ==
  ASSUME PInv, BeginBake
  PROVE  PInv'
<1> DEFINE t == file.texture
<1>1. /\ file \in Files /\ apply \in BOOLEAN /\ image = AsDecoded /\ image.texture = t
      /\ pc = "decoded" /\ pc' = "bake" /\ at' = Start /\ apply
      /\ buf' = [o \in 0..Turned.len - 1 |-> 0]
      /\ UNCHANGED <<file, apply, image, frame, given>>
  BY DEF PInv, BeginBake, Goes, AsDecoded
<1>2. t.width \in Nat \ {0} /\ t.height \in Nat \ {0} /\ IsShape(t)
  BY <1>1, FileFacts DEF IsShape
<1>3. Turned'.len = Turned.len /\ AsDecoded' = AsDecoded
  BY <1>1 DEF Turned, Turn, AsDecoded
<1>4. buf' \in [0..Turned'.len - 1 -> Byte]
  BY <1>1, <1>3, SMT DEF Byte
<1>5. \A x \in 0..t.width - 1, y \in 0..t.height - 1 : ~Past(x, y)'
  <2>1. at'.x = 0 /\ at'.y = 0
    BY <1>1 DEF Start
  <2> HIDE DEF t
  <2> QED
    BY <1>2, <2>1, SMT DEF Past
<1>6. /\ at'.x \in 0..t.width - 1 /\ at'.y \in 0..t.height
      /\ at' = [x |-> at'.x, y |-> at'.y] /\ (at'.y = t.height => at'.x = 0)
  <2>1. at' = [x |-> 0, y |-> 0]
    BY <1>1 DEF Start
  <2> HIDE DEF t
  <2> QED
    BY <1>2, <2>1, SMT
<1>7. BakePart'
  BY <1>1, <1>3, <1>4, <1>5, <1>6 DEF BakePart
<1> QED
  BY <1>1, <1>2, <1>7 DEF PInv, OnlyCutRowsPanic, LoadedPart, ShapePart, Loaded, IsShape
-----------------------------------------------------------------------------
(* Delivering and encoding. *)

(* Of places among the first eight there is a first one. *)
LEMMA FirstPlace ==
  ASSUME NEW S, S \subseteq 1..8, S # {}
  PROVE  \E i \in S : \A j \in S : i <= j
<1>1. \A j \in S : j \in {1, 2, 3, 4, 5, 6, 7, 8}
  BY SMT
<1>2. CASE 1 \in S  BY <1>1, <1>2, SMT
<1>3. CASE 1 \notin S /\ 2 \in S  BY <1>1, <1>3, SMT
<1>4. CASE 1 \notin S /\ 2 \notin S /\ 3 \in S  BY <1>1, <1>4, SMT
<1>5. CASE {1, 2, 3} \cap S = {} /\ 4 \in S  BY <1>1, <1>5, SMT
<1>6. CASE {1, 2, 3, 4} \cap S = {} /\ 5 \in S  BY <1>1, <1>6, SMT
<1>7. CASE {1, 2, 3, 4, 5} \cap S = {} /\ 6 \in S  BY <1>1, <1>7, SMT
<1>8. CASE {1, 2, 3, 4, 5, 6} \cap S = {} /\ 7 \in S  BY <1>1, <1>8, SMT
<1>9. CASE {1, 2, 3, 4, 5, 6, 7} \cap S = {}
  <2>1. \A j \in S : j = 8
    BY <1>1, <1>9
  <2>2. 8 \in S
    BY <2>1
  <2>3. \A j \in S : 8 <= j
    BY <2>1, SMT
  <2> QED
    BY <2>2, <2>3
<1> QED
  BY <1>2, <1>3, <1>4, <1>5, <1>6, <1>7, <1>8, <1>9, SMT

LEMMA TargetIsFormat ==
  ASSUME NEW f, NEW selection, PickTarget(f, selection) # NoFormat
  PROVE  PickTarget(f, selection) \in Formats
<1> DEFINE candidates == Straight(f) \o Priority
           fit == {i \in DOMAIN candidates : candidates[i] \in selection}
           first == CHOOSE i \in fit : \A j \in fit : i <= j
<1>1. Straight(f) \in Seq(Formats) /\ Len(Straight(f)) \in 0..1
  <2>1. CASE f \in DOMAIN StraightForm
    <3>1. f \in {"R8G8B8A8_PRE", "B8G8R8A8_PRE", "A8R8G8B8_PRE", "G8A8_PRE", "G16A16_PRE"}
      BY <2>1 DEF StraightForm
    <3>2. StraightForm[f] \in Formats
      BY <3>1, SMT DEF StraightForm, Formats, Narrow, Wide
    <3>3. Straight(f) = <<StraightForm[f]>>
      BY <2>1 DEF Straight
    <3> HIDE DEF StraightForm
    <3> QED
      BY <3>2, <3>3, SMT
  <2>2. CASE f \notin DOMAIN StraightForm
    <3>1. Straight(f) = <<>>
      BY <2>2 DEF Straight
    <3> QED
      BY <3>1, SMT
  <2> QED
    BY <2>1, <2>2
<1>2. Priority \in Seq(Formats) /\ Len(Priority) = 7
  BY SMT DEF Priority, Formats, Narrow
<1>3. candidates \in Seq(Formats) /\ Len(candidates) \in 0..8
  <2> DEFINE s == Straight(f)
             p == Priority
  <2>1. s \in Seq(Formats) /\ Len(s) \in 0..1 /\ p \in Seq(Formats) /\ Len(p) = 7
        /\ candidates = s \o p
    BY <1>1, <1>2
  <2> HIDE DEF s, p, candidates
  <2>2. s \o p \in Seq(Formats) /\ Len(s \o p) = Len(s) + Len(p)
    BY <2>1, ConcatProperties
  <2>3. Len(s) + Len(p) \in 0..8
    BY <2>1, SMT
  <2> QED
    BY <2>1, <2>2, <2>3
<1>4. fit # {} /\ PickTarget(f, selection) = candidates[first]
  BY DEF PickTarget
<1> HIDE DEF candidates
<1>5. fit \subseteq 1..8
  BY <1>3
<1>6. first \in fit
  <2>1. \E i \in fit : \A j \in fit : i <= j
    BY <1>4, <1>5, FirstPlace
  <2> QED
    BY <2>1
<1> QED
  BY <1>3, <1>4, <1>6

(* What the shim makes of a frame has a shape. *)
LEMMA ConvertedHasShape ==
  ASSUME NEW t, NEW selection, IsShape(t)
  PROVE  IsShape(MaybeConvert(t, selection))
<1> DEFINE target == PickTarget(t.format, selection)
           n == BytesPerPixel(target)
           u == ConvertLayout(t, target)
<1>1. CASE MaybeConvert(t, selection) = t
  BY <1>1
<1>2. CASE MaybeConvert(t, selection) # t
  <2>1. target # NoFormat /\ MaybeConvert(t, selection) = u
    BY <1>2 DEF MaybeConvert
  <2>2. target \in Formats
    BY <2>1, TargetIsFormat
  <2>3. n \in Nat
    BY <2>2, BytesArePositive
  <2>4. /\ u.width = t.width /\ u.height = t.height /\ u.stride = t.width * n
        /\ u.format = target /\ u.len = t.width * t.height * n
    BY DEF ConvertLayout
  <2>6. t.width * n \in Nat /\ t.width * t.height * n \in Nat
    BY <2>3, ProductInNat DEF IsShape
  <2> QED
    BY <2>1, <2>2, <2>4, <2>6 DEF IsShape
<1> QED
  BY <1>1, <1>2

LEMMA SpreadHasShape ==
  ASSUME NEW t, NEW pad \in Nat, IsShape(t)
  PROVE  IsShape(Spread(t, pad))
<1> DEFINE row == RowBytes(t)
           stride == row + pad
           len == (t.height - 1) * stride + row
<1>1. row \in Nat
  <2>1. BytesPerPixel(t.format) \in Nat
    BY BytesArePositive DEF IsShape
  <2> QED
    BY <2>1, ProductInNat DEF IsShape, RowBytes
<1>2. stride \in Nat
  BY <1>1
<1>3. len \in Nat
  <2>1. t.height - 1 \in Nat
    BY SMT DEF IsShape
  <2> HIDE DEF stride, row
  <2>2. (t.height - 1) * stride \in Nat
    BY <1>2, <2>1, ProductInNat
  <2> QED
    BY <1>1, <2>2
<1>4. LET u == Spread(t, pad)
      IN  /\ u.width = t.width /\ u.height = t.height /\ u.stride = stride
          /\ u.format = t.format /\ u.len = len
  BY DEF Spread
<1> QED
  BY <1>2, <1>3, <1>4 DEF IsShape
-----------------------------------------------------------------------------
(* The other steps. *)

LEMMA NothingToTurnKeeps ==
  ASSUME PInv, NothingToTurn
  PROVE  PInv'
<1>1. /\ pc = "decoded" /\ pc' = "loaded" /\ image = AsDecoded /\ Turn = "Normal"
      /\ UNCHANGED <<file, apply, image, frame, given, at, buf>>
  BY DEF PInv, NothingToTurn, Goes
<1>2. /\ image.orientation = "Normal" /\ image.texture = file.texture
      /\ image.width = file.width /\ image.height = file.height /\ Turn' = Turn
  BY <1>1 DEF AsDecoded, Turn
<1>3. OnlyCutRowsPanic'
  <2>1. WellFormed(image.texture)
    BY <1>2, FileFacts DEF PInv
  <2> QED
    BY <1>1, <2>1 DEF OnlyCutRowsPanic, WellFormed
<1> QED
  BY <1>1, <1>2, <1>3 DEF PInv, BakePart, LoadedPart, ShapePart, Loaded, IsShape

LEMMA ReportTurnKeeps ==
  ASSUME PInv, ReportTurn
  PROVE  PInv'
<1>1. /\ pc = "decoded" /\ pc' = "loaded" /\ image = AsDecoded
      /\ image' = [image EXCEPT !.orientation = Turn]
      /\ UNCHANGED <<file, apply, frame, given, at, buf>>
  BY DEF PInv, ReportTurn, Goes
<1>2. /\ image'.orientation = Turn /\ image'.texture = file.texture
      /\ image'.width = file.width /\ image'.height = file.height /\ Turn' = Turn
  BY <1>1 DEF AsDecoded, Turn
<1>3. IsShape(file.texture)
  BY FileFacts DEF PInv
<1>4. OnlyCutRowsPanic'
  <2>1. WellFormed(file.texture)
    BY FileFacts DEF PInv
  <2> QED
    BY <1>1, <1>2, <2>1 DEF OnlyCutRowsPanic, WellFormed
<1> QED
  BY <1>1, <1>2, <1>3, <1>4 DEF PInv, BakePart, LoadedPart, ShapePart, Loaded, IsShape

LEMMA DeliverKeeps ==
  ASSUME PInv, NEW accepted \in Accepts, Deliver(accepted)
  PROVE  PInv'
<1> DEFINE u == MaybeConvert(image.texture, IF file.svg THEN accepted ELSE {})
<1>1. /\ pc = "loaded" /\ pc' = "delivered" /\ frame' = [texture |-> u, accepted |-> accepted]
      /\ UNCHANGED <<file, apply, image, given, at, buf>>
  BY DEF Deliver, Goes
<1>2. IsShape(u)
  BY ConvertedHasShape DEF PInv, ShapePart
<1>3. frame'.texture = u /\ Turn' = Turn
  BY <1>1 DEF Turn
<1> HIDE DEF u
<1> QED
  BY <1>1, <1>2, <1>3
     DEF PInv, OnlyCutRowsPanic, WellFormed, BakePart, LoadedPart, ShapePart, Loaded, IsShape

LEMMA AddFrameKeeps ==
  ASSUME PInv, NEW t, NEW codec, IsShape(t), AddFrame(t, codec)
  PROVE  PInv'
<1>1. /\ pc = "delivered" /\ pc' = "convert" /\ given' = [texture |-> t, codec |-> codec]
      /\ UNCHANGED <<file, apply, image, frame, at, buf>>
  BY DEF AddFrame, Goes
<1>2. given'.texture = t /\ Turn' = Turn
  BY <1>1 DEF Turn
<1> QED
  BY <1>1, <1>2
     DEF PInv, OnlyCutRowsPanic, WellFormed, BakePart, LoadedPart, ShapePart, Loaded, IsShape

LEMMA AddDeliveredKeeps ==
  ASSUME PInv, NEW pad \in Pads, NEW codec, AddDelivered(pad, codec)
  PROVE  PInv'
<1>1. pc = "delivered" /\ AddFrame(Spread(frame.texture, pad), codec)
  BY DEF AddDelivered
<1>2. IsShape(Spread(frame.texture, pad))
  BY <1>1, PixelAssumption, SpreadHasShape DEF PInv, ShapePart
<1> QED
  BY <1>1, <1>2, AddFrameKeeps

(* What is not refused can be read to its last row. *)
LEMMA ConvertKeeps ==
  ASSUME PInv, Convert
  PROVE  PInv'
<1> DEFINE t == given.texture
           row == RowBytes(t)
<1>1. /\ pc = "convert" /\ UNCHANGED <<file, apply, image, frame, given>> /\ IsShape(t)
  BY DEF PInv, Convert, ShapePart
<1>2. ASSUME ~Refused(t) PROVE Readable(t)
  <2>1. /\ ~(row > t.stride) /\ ~((t.height - 1) * t.stride + row > t.len)
        /\ t.format \in Narrow
    BY <1>2 DEF Refused
  <2>2. /\ t.stride \in Nat /\ t.len \in Nat /\ t.height \in Nat \ {0} /\ row \in Nat
    <3>1. BytesPerPixel(t.format) \in Nat /\ t.width \in Nat
      BY <1>1, BytesArePositive DEF IsShape
    <3>2. row \in Nat
      BY <3>1, ProductInNat DEF RowBytes
    <3> QED
      BY <1>1, <3>2 DEF IsShape
  <2>3. row = t.width * BytesPerPixel(t.format)
    BY DEF RowBytes
  <2> HIDE DEF row, t
  <2>4. t.height - 1 \in Nat
    BY <2>2, SMT
  <2>5. (t.height - 1) * t.stride \in Nat
    BY <2>2, <2>4, ProductInNat
  <2>6. ASSUME NEW y \in 0..t.height - 1
        PROVE  Inside(y * t.stride, row, t.len)
    <3>1. y \in Nat /\ y <= t.height - 1
      BY <2>2, SMT
    <3>2. y * t.stride <= (t.height - 1) * t.stride
      BY <2>2, <2>4, <3>1, Grows
    <3>3. y * t.stride \in Nat
      BY <2>2, <3>1, ProductInNat
    <3> QED
      BY <2>1, <2>2, <2>5, <3>2, <3>3, SMT DEF Inside
  <2> QED
    BY <2>1, <2>2, <2>3, <2>6, SMT DEF Readable
<1>3. pc' \in {"refused", "flatten", "written"}
  BY <1>2 DEF Convert
<1>4. Turn' = Turn
  BY <1>1 DEF Turn
<1> QED
  BY <1>1, <1>3, <1>4
     DEF PInv, OnlyCutRowsPanic, WellFormed, BakePart, LoadedPart, ShapePart, Loaded, IsShape

(* Flattening leaves alone what the invariant is about. *)
LEMMA FlatteningKeeps ==
  ASSUME PInv, FlattenPixel \/ Truncate
  PROVE  PInv'
<1>1. /\ pc = "flatten" /\ pc' \in {"flatten", "written"}
      /\ UNCHANGED <<file, apply, image, frame, given>>
  BY DEF FlattenPixel, Truncate, Goes
<1>2. Turn' = Turn
  BY <1>1 DEF Turn
<1> QED
  BY <1>1, <1>2
     DEF PInv, OnlyCutRowsPanic, WellFormed, BakePart, LoadedPart, ShapePart, Loaded, IsShape

LEMMA StutterKeepsPInv ==
  ASSUME PInv, UNCHANGED vars
  PROVE  PInv'
<1>1. /\ file' = file /\ apply' = apply /\ pc' = pc /\ image' = image
      /\ frame' = frame /\ given' = given /\ at' = at /\ buf' = buf
  BY DEF vars
<1>2. Turn' = Turn /\ AsDecoded' = AsDecoded
  BY <1>1 DEF Turn, AsDecoded
<1>3. Turned' = Turned
  BY <1>1, <1>2 DEF Turned
<1>4. \A x, y : Copied(x, y)' <=> Copied(x, y)
  BY <1>1, <1>2 DEF Copied
<1>5. \A x, y : Past(x, y)' <=> Past(x, y)
  BY <1>1 DEF Past
<1>6. BakePart'
  BY <1>1, <1>2, <1>3, <1>4, <1>5 DEF PInv, BakePart
<1>7. LoadedPart'
  BY <1>1, <1>2 DEF PInv, LoadedPart, Loaded
<1>8. OnlyCutRowsPanic'
  BY <1>1, <1>2, <1>3 DEF PInv, OnlyCutRowsPanic, Loaded, RowBytes, WellFormed
<1> QED
  BY <1>1, <1>2, <1>6, <1>7, <1>8 DEF PInv, ShapePart, IsShape

(* The invariant is inductive: of the bake it says which pixels have been
   copied, and of the rest of the path that every texture has a shape. *)
THEOREM PixelInductive == Spec => []PInv
<1>1. ASSUME PInv, [Next]_vars
      PROVE  PInv'
  <2>1. CASE NothingToTurn
    BY <1>1, <2>1, NothingToTurnKeeps
  <2>2. CASE ReportTurn
    BY <1>1, <2>2, ReportTurnKeeps
  <2>3. CASE BeginBake
    BY <1>1, <2>3, BeginBakeKeeps
  <2>4. CASE BakePixel
    BY <1>1, <2>4, BakePixelKeeps
  <2>5. CASE BakeDone
    BY <1>1, <2>5, BakeDoneKeeps
  <2>6. CASE \E accepted \in Accepts : Deliver(accepted)
    BY <1>1, <2>6, DeliverKeeps
  <2>7. CASE \E codec \in Codecs : \E pad \in Pads : AddDelivered(pad, codec)
    BY <1>1, <2>7, AddDeliveredKeeps
  <2>8. CASE \E codec \in Codecs : \E t \in Drawings : AddFrame(t, codec)
    <3>1. PICK codec \in Codecs, t \in Drawings : AddFrame(t, codec)
      BY <2>8
    <3>2. IsShape(t)
      BY PixelAssumption DEF IsTexture, IsShape
    <3> QED
      BY <1>1, <3>1, <3>2, AddFrameKeeps
  <2>9. CASE Convert
    BY <1>1, <2>9, ConvertKeeps
  <2>10. CASE FlattenPixel \/ Truncate
    BY <1>1, <2>10, FlatteningKeeps
  <2>11. CASE Rest \/ UNCHANGED vars
    BY <1>1, <2>11, StutterKeepsPInv DEF Rest
  <2> QED
    BY <1>1, <2>1, <2>2, <2>3, <2>4, <2>5, <2>6, <2>7, <2>8, <2>9, <2>10, <2>11 DEF Next
<1> QED
  BY <1>1, InitPInv, PTL DEF Spec

(* transform_texture and to_rgba8 index no byte outside a buffer, whatever the
   sides, the stride and the format; the expect of transform_texture fails only
   when a row that was a column has 2^32 bytes or more. *)
THEOREM OnlyCutRowsCorrect == Spec => []OnlyCutRowsPanic
<1>1. PInv => OnlyCutRowsPanic
  BY DEF PInv
<1> QED
  BY <1>1, PixelInductive, PTL

(* No column of a file has 2^32 bytes. *)
ShortColumns ==
  \A f \in Files : f.texture.height * BytesPerPixel(f.texture.format) < U32

(* So the expect is right about every image whose columns have fewer bytes than
   a stride can say. *)
THEOREM ShortColumnsNeverPanic ==
  ASSUME ShortColumns
  PROVE  Spec => []NeverPanics
<1>1. ASSUME PInv PROVE NeverPanics
  <2> SUFFICES ASSUME pc = "panicked" PROVE FALSE
    BY DEF NeverPanics
  <2> DEFINE t == file.texture
             r == t.height * BytesPerPixel(t.format)
  <2>1. file \in Files /\ image = AsDecoded /\ SwapsAxes(Turn) /\ RowBytes(Turned) >= U32
    BY <1>1 DEF PInv, OnlyCutRowsPanic
  <2>2. RowBytes(Turned) = r
    BY <2>1, TurnedFacts DEF TurnedWidth
  <2>3. r \in Nat /\ U32 \in Nat
    BY <2>1, FileFacts, BytesArePositive, ProductInNat DEF IsShape
  <2>4. r < U32 /\ r >= U32
    BY <2>1, <2>2 DEF ShortColumns
  <2> HIDE DEF r
  <2> QED
    BY <2>3, <2>4, SMT
<1> QED
  BY <1>1, PixelInductive, PTL

(* And about every image within the default limits: max_height is 32768, and
   no side of a gif, which minds neither, is over 65535. *)
THEOREM DefaultLimitsNeverPanic ==
  ASSUME U32 = 4294967296, \A f \in Files : f.texture.height <= 65535
  PROVE  Spec => []NeverPanics
<1>1. ASSUME NEW f \in Files
      PROVE  f.texture.height * BytesPerPixel(f.texture.format) < U32
  <2> DEFINE h == f.texture.height
             n == BytesPerPixel(f.texture.format)
  <2>1. h \in Nat /\ h <= 65535
    BY FileFacts DEF IsShape
  <2>2. n \in Nat /\ n <= 16
    BY SMT DEF BytesPerPixel
  <2> HIDE DEF h, n
  <2>3. h * n <= 65535 * n
    BY <2>1, <2>2, Grows
  <2>4. h * n \in Nat
    BY <2>1, <2>2, ProductInNat
  <2>5. h * n < 4294967296
    BY <2>2, <2>3, <2>4, SMT
  <2> QED
    BY <2>5 DEF h, n
<1> QED
  BY <1>1, ShortColumnsNeverPanic DEF ShortColumns
-----------------------------------------------------------------------------
(* EXIF, as a camera writes it. *)

Short == {v \in Nat : v < 256 * 256}

(* The number v lies at offset i, in one of the two byte orders. *)
Holds16(b, i, v, big) ==
  /\ b[i + 1] = IF big THEN v \div 256 ELSE v % 256
  /\ b[i + 2] = IF big THEN v % 256 ELSE v \div 256

(* A longer one is two of these. *)
Long(high, low) == 65536 * high + low

Holds32(b, i, high, low, big) ==
  /\ Holds16(b, i, IF big THEN high ELSE low, big)
  /\ Holds16(b, i + 2, IF big THEN low ELSE high, big)

(* The first directory has n entries, with these tags. *)
IsDirectory(t, big, high, low, n, tags) ==
  LET ifd == Long(high, low)
  IN  /\ Len(t) >= 8
      /\ SubSeq(t, 1, 4) = IF big THEN BigEndian ELSE LittleEndian
      /\ Holds32(t, 4, high, low, big)
      /\ ifd + 2 + 12 * n <= Len(t)
      /\ Holds16(t, ifd, n, big)
      /\ \A i \in 0..n - 1 : Holds16(t, ifd + 2 + 12 * i, tags[i], big)

(* Its first entry for the orientation is entry k and holds v. *)
IsEntry(t, big, ifd, tags, k, v) ==
  /\ tags[k] = OrientationTag
  /\ \A j \in 0..k - 1 : tags[j] # OrientationTag
  /\ Holds16(t, ifd + 2 + 12 * k + 8, v, big)

IsWritten(t, v) ==
  \E big \in BOOLEAN, high \in Short, low \in Short, n \in Short :
    \E tags \in [0..n - 1 -> Short] :
      /\ IsDirectory(t, big, high, low, n, tags)
      /\ \E k \in 0..n - 1 : IsEntry(t, big, Long(high, low), tags, k, v)

(* The TIFF structure may come with the prefix of a JPEG segment. *)
IsMeant(blob, v) ==
  \/ IsWritten(blob, v)
  \/ \E t \in Seq(Byte) : blob = ExifPrefix \o t /\ IsWritten(t, v)

(* A number is read from where it lies, and what is read lies there. *)
LEMMA Reads16 ==
  ASSUME NEW b \in Seq(Byte), NEW i \in Nat, i + 2 <= Len(b), NEW big \in BOOLEAN
  PROVE  /\ ReadU16(b, i + 1, big) \in Short
         /\ \A v \in Short : Holds16(b, i, v, big) <=> ReadU16(b, i + 1, big) = v
<1> DEFINE p == b[i + 1]
           q == b[i + 2]
<1>1. p \in Byte /\ q \in Byte
  BY SMT
<1>2. ReadU16(b, i + 1, big) = IF big THEN 256 * p + q ELSE p + 256 * q
  BY SMT DEF ReadU16
<1>3. \A v : Holds16(b, i, v, big) <=> /\ p = IF big THEN v \div 256 ELSE v % 256
                                       /\ q = IF big THEN v % 256 ELSE v \div 256
  BY DEF Holds16
<1> HIDE DEF p, q
<1>4. ASSUME NEW x \in Byte, NEW y \in Byte
      PROVE  /\ 256 * x + y \in Short
             /\ x + 256 * y = 256 * y + x
             /\ \A v \in Short : (x = v \div 256 /\ y = v % 256) <=> (256 * x + y = v)
  <2>1. 256 * x + y \in Short /\ x + 256 * y = 256 * y + x
    BY SMT DEF Byte, Short
  <2>2. ASSUME NEW v \in Nat, 256 * x + y = v
        PROVE  x = v \div 256 /\ y = v % 256
    BY <2>2, SMT DEF Byte
  <2>3. ASSUME NEW v \in Nat, x = v \div 256, y = v % 256
        PROVE  256 * x + y = v
    BY <2>3, SMT DEF Byte
  <2>4. Short \subseteq Nat
    BY SMT DEF Short
  <2> QED
    BY <2>1, <2>2, <2>3, <2>4
<1>5. CASE big
  <2>1. ReadU16(b, i + 1, big) = 256 * p + q
    BY <1>2, <1>5
  <2>2. \A v : Holds16(b, i, v, big) <=> p = v \div 256 /\ q = v % 256
    BY <1>3, <1>5
  <2> QED
    BY <1>1, <1>4, <2>1, <2>2
<1>6. CASE ~big
  <2>1. ReadU16(b, i + 1, big) = p + 256 * q
    BY <1>2, <1>6
  <2>2. \A v : Holds16(b, i, v, big) <=> q = v \div 256 /\ p = v % 256
    BY <1>3, <1>6
  <2> QED
    BY <1>1, <1>4, <2>1, <2>2
<1> QED
  BY <1>5, <1>6

LEMMA Reads32 ==
  ASSUME NEW b \in Seq(Byte), NEW i \in Nat, i + 4 <= Len(b), NEW big \in BOOLEAN
  PROVE  /\ \E high \in Short, low \in Short : Holds32(b, i, high, low, big)
         /\ \A high \in Short, low \in Short :
              Holds32(b, i, high, low, big) => ReadU32(b, i + 1, big) = Long(high, low)
<1> DEFINE p == ReadU16(b, i + 1, big)
           q == ReadU16(b, i + 3, big)
<1>1. /\ p \in Short /\ \A v \in Short : Holds16(b, i, v, big) <=> p = v
      /\ q \in Short /\ \A v \in Short : Holds16(b, i + 2, v, big) <=> q = v
  <2>1. i + 2 \in Nat /\ i + 2 <= Len(b) /\ (i + 2) + 2 <= Len(b) /\ (i + 2) + 1 = i + 3
    BY SMT
  <2> QED
    BY <2>1, Reads16
<1>2. ReadU32(b, i + 1, big) = IF big THEN Long(p, q) ELSE Long(q, p)
  <2>1. (i + 1) + 2 = i + 3
    BY SMT
  <2>2. 65536 * p + q = Long(p, q) /\ p + 65536 * q = Long(q, p)
    <3> HIDE DEF p, q
    <3>1. ASSUME NEW x \in Short, NEW y \in Short
          PROVE  x + 65536 * y = 65536 * y + x
      BY SMT DEF Short
    <3> QED
      BY <1>1, <3>1 DEF Long
  <2> QED
    BY <2>1, <2>2 DEF ReadU32
<1> HIDE DEF p, q
<1>3. CASE big
  BY <1>1, <1>2, <1>3 DEF Holds32
<1>4. CASE ~big
  BY <1>1, <1>2, <1>4 DEF Holds32
<1> QED
  BY <1>3, <1>4(* The two halves of ParseOrientation. *)
Stripped(blob) ==
  IF Len(blob) >= 6 /\ SubSeq(blob, 1, 6) = ExifPrefix
  THEN SubSeq(blob, 7, Len(blob)) ELSE blob

IsBig(t) == SubSeq(t, 1, 4) = BigEndian
Ifd(t) == ReadU32(t, 5, IsBig(t))
Entries(t) == ReadU16(t, Ifd(t) + 1, IsBig(t))
EntryAt(t, i) == Ifd(t) + 2 + 12 * i
TagAt(t, i) == ReadU16(t, EntryAt(t, i) + 1, IsBig(t))
ValueAt(t, i) == ReadU16(t, EntryAt(t, i) + 9, IsBig(t))
Found(t) == {i \in 0..Entries(t) - 1 : TagAt(t, i) = OrientationTag}
FirstFound(t) == CHOOSE i \in Found(t) : \A j \in Found(t) : i <= j

IsReadable(t) ==
  /\ Len(t) >= 8
  /\ SubSeq(t, 1, 4) \in {BigEndian, LittleEndian}
  /\ Ifd(t) + 2 <= Len(t)
  /\ EntryAt(t, Entries(t)) <= Len(t)
  /\ Found(t) # {}

LEMMA ParsedInHalves ==
  ASSUME NEW blob
  PROVE  ParseOrientation(blob) =
           LET t == Stripped(blob)
           IN  IF IsReadable(t) THEN ValueAt(t, FirstFound(t)) ELSE NoTag
BY Zenon DEF ParseOrientation, Stripped, IsReadable, FirstFound, Found, ValueAt, TagAt, EntryAt,
       Entries, Ifd, IsBig

LEMMA LeastOfNumbers ==
  ASSUME NEW S, S \subseteq Nat, S # {}
  PROVE  \E x \in S : \A y \in S : x <= y
<1>1. IsWellFoundedOn(OpToRel(<, Nat), Nat)
  BY NatLessThanWellFounded, Zenon
<1>2. PICK x \in S : \A y \in S : <<y, x>> \notin OpToRel(<, Nat)
  BY <1>1, WFMin, Zenon
<1>3. \A y \in S : ~(y < x)
  BY <1>2, Zenon DEF OpToRel
<1> QED
  BY <1>3, SMT

(* The offsets of the entries lie inside a directory that does. *)
LEMMA EntriesInside ==
  ASSUME NEW ifd \in Nat, NEW n \in Nat, NEW i \in 0..n - 1, NEW len \in Nat,
         ifd + 2 + 12 * n <= len
  PROVE  /\ ifd + 2 + 12 * i \in Nat /\ (ifd + 2 + 12 * i) + 2 <= len
         /\ ifd + 2 + 12 * i + 8 \in Nat /\ (ifd + 2 + 12 * i + 8) + 2 <= len
         /\ (ifd + 2 + 12 * i + 8) + 1 = ifd + 2 + 12 * i + 9
BY SMT

(* What a camera wrote is found: the first entry of its directory with the tag. *)
LEMMA WrittenIsRead ==
  ASSUME NEW t \in Seq(Byte), NEW v \in Short, IsWritten(t, v)
  PROVE  IsReadable(t) /\ ValueAt(t, FirstFound(t)) = v
<1>1. PICK big \in BOOLEAN, high \in Short, low \in Short, n \in Short :
        \E tags \in [0..n - 1 -> Short] :
          /\ IsDirectory(t, big, high, low, n, tags)
          /\ \E k \in 0..n - 1 : IsEntry(t, big, Long(high, low), tags, k, v)
  BY DEF IsWritten
<1>2. PICK tags \in [0..n - 1 -> Short] :
        /\ IsDirectory(t, big, high, low, n, tags)
        /\ \E k \in 0..n - 1 : IsEntry(t, big, Long(high, low), tags, k, v)
  BY <1>1
<1>3. PICK k \in 0..n - 1 : IsEntry(t, big, Long(high, low), tags, k, v)
  BY <1>2
<1> DEFINE ifd == Long(high, low)
<1>4. /\ Len(t) >= 8
      /\ SubSeq(t, 1, 4) = IF big THEN BigEndian ELSE LittleEndian
      /\ Holds32(t, 4, high, low, big)
      /\ ifd + 2 + 12 * n <= Len(t)
      /\ Holds16(t, ifd, n, big)
      /\ \A i \in 0..n - 1 : Holds16(t, ifd + 2 + 12 * i, tags[i], big)
  BY <1>2 DEF IsDirectory
<1>5. /\ tags[k] = OrientationTag
      /\ \A j \in 0..k - 1 : tags[j] # OrientationTag
      /\ Holds16(t, ifd + 2 + 12 * k + 8, v, big)
  BY <1>3 DEF IsEntry
<1>6. ifd \in Nat /\ n \in Nat /\ Len(t) \in Nat /\ k \in Nat
  <2>1. high \in Nat /\ low \in Nat /\ n \in Nat
    BY DEF Short
  <2>2. 65536 * high + low \in Nat
    BY <2>1, SMT
  <2> QED
    BY <2>1, <2>2, SMT DEF Long
<1>7. IsBig(t) = big
  <2>1. BigEndian # LittleEndian
    BY SMT DEF BigEndian, LittleEndian
  <2> QED
    BY <1>4, <2>1 DEF IsBig
<1>8. Ifd(t) = ifd
  <2>1. 4 \in Nat /\ 4 + 4 <= Len(t) /\ 4 + 1 = 5
    BY <1>4, <1>6, SMT
  <2> QED
    BY <1>4, <1>7, <2>1, Reads32 DEF Ifd
<1> HIDE DEF ifd
<1>9. Entries(t) = n
  <2>1. ifd + 2 <= Len(t)
    BY <1>4, <1>6, SMT
  <2> QED
    BY <1>4, <1>6, <1>7, <1>8, <2>1, Reads16 DEF Entries
<1>10. \A i \in 0..n - 1 : TagAt(t, i) = tags[i]
  <2> SUFFICES ASSUME NEW i \in 0..n - 1 PROVE TagAt(t, i) = tags[i]
    OBVIOUS
  <2> DEFINE o == ifd + 2 + 12 * i
  <2>1. o \in Nat /\ o + 2 <= Len(t)
    BY <1>4, <1>6, EntriesInside
  <2>2. Holds16(t, o, tags[i], big) /\ tags[i] \in Short
    BY <1>4
  <2>3. TagAt(t, i) = ReadU16(t, o + 1, big)
    BY <1>7, <1>8 DEF TagAt, EntryAt
  <2> HIDE DEF o
  <2> QED
    BY <2>1, <2>2, <2>3, Reads16
<1>11. k \in Found(t) /\ \A j \in Found(t) : k <= j
  <2>1. \A j \in Found(t) : j \in 0..n - 1 /\ tags[j] = OrientationTag
    BY <1>9, <1>10 DEF Found
  <2>2. \A j \in 0..n - 1 : j \in 0..k - 1 \/ k <= j
    BY <1>6, SMT
  <2> QED
    BY <1>5, <1>9, <1>10, <2>1, <2>2 DEF Found
<1>12. FirstFound(t) = k
  <2>1. Found(t) \subseteq Nat
    BY <1>6, <1>9, SMT DEF Found
  <2>2. \A j \in Found(t) : (\A i \in Found(t) : j <= i) => j = k
    BY <1>11, <2>1, SMT
  <2> QED
    BY <1>11, <2>2 DEF FirstFound
<1>13. ValueAt(t, k) = v
  <2> DEFINE o == ifd + 2 + 12 * k + 8
  <2>1. o \in Nat /\ o + 2 <= Len(t) /\ o + 1 = ifd + 2 + 12 * k + 9
    BY <1>4, <1>6, EntriesInside
  <2>2. Holds16(t, o, v, big)
    BY <1>5
  <2>3. ValueAt(t, k) = ReadU16(t, o + 1, big)
    BY <1>7, <1>8, <2>1 DEF ValueAt, EntryAt
  <2> HIDE DEF o
  <2> QED
    BY <2>1, <2>2, <2>3, Reads16
<1>14. IsReadable(t)
  <2>1. ifd + 2 <= Len(t)
    BY <1>4, <1>6, SMT
  <2> QED
    BY <1>4, <1>8, <1>9, <1>11, <2>1 DEF IsReadable, EntryAt
<1> QED
  BY <1>12, <1>13, <1>14

(* And what is found was written there. *)
LEMMA ReadIsWritten ==
  ASSUME NEW t \in Seq(Byte), IsReadable(t)
  PROVE  /\ ValueAt(t, FirstFound(t)) \in Short
         /\ IsWritten(t, ValueAt(t, FirstFound(t)))
<1> DEFINE big == IsBig(t)
           n == Entries(t)
           tags == [i \in 0..n - 1 |-> TagAt(t, i)]
           k == FirstFound(t)
<1>1. /\ Len(t) >= 8 /\ Len(t) \in Nat
      /\ SubSeq(t, 1, 4) = IF big THEN BigEndian ELSE LittleEndian
      /\ big \in BOOLEAN
  BY DEF IsReadable, IsBig
<1>2. PICK high \in Short, low \in Short : Holds32(t, 4, high, low, big)
  <2>1. 4 \in Nat /\ 4 + 4 <= Len(t)
    BY <1>1, SMT
  <2> QED
    BY <1>1, <2>1, Reads32
<1> DEFINE ifd == Long(high, low)
<1>3. Ifd(t) = ifd
  <2>1. 4 \in Nat /\ 4 + 4 <= Len(t) /\ 4 + 1 = 5
    BY <1>1, SMT
  <2> QED
    BY <1>1, <1>2, <2>1, Reads32 DEF Ifd
<1>4. ifd \in Nat
  <2>1. high \in Nat /\ low \in Nat
    BY DEF Short
  <2> QED
    BY <2>1, SMT DEF Long
<1> HIDE DEF ifd, big
<1>5. n \in Short /\ n \in Nat /\ Holds16(t, ifd, n, big)
  <2>1. ifd + 2 <= Len(t)
    BY <1>3 DEF IsReadable
  <2>2. Entries(t) = ReadU16(t, ifd + 1, big)
    BY <1>3 DEF Entries, big
  <2> QED
    BY <1>1, <1>4, <2>1, <2>2, Reads16 DEF Short
<1>6. ifd + 2 + 12 * n <= Len(t)
  BY <1>3 DEF IsReadable, EntryAt
<1> HIDE DEF n
<1>7. ASSUME NEW i \in 0..n - 1
      PROVE  TagAt(t, i) \in Short /\ Holds16(t, ifd + 2 + 12 * i, TagAt(t, i), big)
  <2> DEFINE o == ifd + 2 + 12 * i
  <2>1. o \in Nat /\ o + 2 <= Len(t)
    BY <1>1, <1>4, <1>5, <1>6, EntriesInside
  <2>2. TagAt(t, i) = ReadU16(t, o + 1, big)
    BY <1>3 DEF TagAt, EntryAt, big
  <2> HIDE DEF o
  <2>3. TagAt(t, i) \in Short /\ Holds16(t, o, TagAt(t, i), big)
    BY <1>1, <2>1, <2>2, Reads16
  <2> QED
    BY <2>3 DEF o
<1>8. k \in Found(t) /\ \A j \in Found(t) : k <= j
  <2>1. Found(t) \subseteq Nat
    BY <1>5, SMT DEF Found, n
  <2>2. Found(t) # {}
    BY DEF IsReadable
  <2> QED
    BY <2>1, <2>2, LeastOfNumbers DEF FirstFound
<1> HIDE DEF k
<1>9. k \in 0..n - 1 /\ TagAt(t, k) = OrientationTag
  BY <1>8 DEF Found, n
<1>10. \A j \in 0..k - 1 : j \in 0..n - 1 /\ TagAt(t, j) # OrientationTag
  <2>1. ASSUME NEW j \in 0..k - 1
        PROVE  j \in 0..n - 1 /\ ~(k <= j)
    BY <1>5, <1>9, SMT
  <2> QED
    BY <1>8, <2>1 DEF Found, n
<1>11. ValueAt(t, k) \in Short /\ Holds16(t, ifd + 2 + 12 * k + 8, ValueAt(t, k), big)
  <2> DEFINE o == ifd + 2 + 12 * k + 8
  <2>1. o \in Nat /\ o + 2 <= Len(t) /\ o + 1 = ifd + 2 + 12 * k + 9
    BY <1>1, <1>4, <1>5, <1>6, <1>9, EntriesInside
  <2>2. ValueAt(t, k) = ReadU16(t, o + 1, big)
    BY <1>3, <2>1 DEF ValueAt, EntryAt, big
  <2> HIDE DEF o
  <2>3. ValueAt(t, k) \in Short /\ Holds16(t, o, ValueAt(t, k), big)
    BY <1>1, <2>1, <2>2, Reads16
  <2> QED
    BY <2>3 DEF o
<1>12. tags \in [0..n - 1 -> Short] /\ \A i \in 0..n - 1 : tags[i] = TagAt(t, i)
  BY <1>7
<1> HIDE DEF tags
<1>13. IsDirectory(t, big, high, low, n, tags)
  BY <1>1, <1>2, <1>5, <1>6, <1>7, <1>12 DEF IsDirectory, ifd
<1>14. IsEntry(t, big, Long(high, low), tags, k, ValueAt(t, k))
  BY <1>9, <1>10, <1>11, <1>12 DEF IsEntry, ifd
<1>15. IsWritten(t, ValueAt(t, k))
  BY <1>1, <1>5, <1>9, <1>12, <1>13, <1>14 DEF IsWritten
<1> QED
  BY <1>11, <1>15 DEF k(* A blob with the prefix is the prefix and the rest. *)
LEMMA PrefixIsStripped ==
  ASSUME NEW t \in Seq(Byte)
  PROVE  ExifPrefix \o t \in Seq(Byte) /\ Stripped(ExifPrefix \o t) = t
<1> DEFINE p == ExifPrefix
           n == Len(t)
<1>1. p \in Seq(Byte) /\ Len(p) = 6 /\ n \in Nat
  BY SMT DEF ExifPrefix, Byte
<1> HIDE DEF p
<1>2. p \o t \in Seq(Byte) /\ Len(p \o t) = 6 + n
  <2>1. p \o t \in Seq(Byte) /\ Len(p \o t) = Len(p) + Len(t)
    BY <1>1, ConcatProperties, Zenon
  <2> QED
    BY <1>1, <2>1
<1>3. SubSeq(p \o t, 1, 6) = p
  <2>1. SubSeq(p \o t, 1, 6) = SubSeq(p, 1, 6)
    <3>1. 1 \in 1..Len(p) /\ 6 \in 1..Len(p)
      BY <1>1, SMT
    <3> QED
      BY <1>1, <3>1, SubSeqOfConcat1
  <2>2. SubSeq(p, 1, Len(p)) = p
    BY <1>1, SubSeqFull
  <2> QED
    BY <1>1, <2>1, <2>2
<1>4. SubSeq(p \o t, 7, 6 + n) = t
  <2>1. CASE n = 0
    <3>1. SubSeq(p \o t, 7, 6 + n) = <<>>
      BY <2>1, SubSeqEmpty, SMT
    <3>2. t = <<>>
      BY <2>1, EmptySeq
    <3> QED
      BY <3>1, <3>2
  <2>2. CASE n # 0
    <3>1. 7 \in Len(p) + 1..Len(p) + Len(t) /\ 6 + n \in Len(p) + 1..Len(p) + Len(t)
      BY <1>1, <2>2, SMT
    <3>2. SubSeq(p \o t, 7, 6 + n) = SubSeq(t, 7 - Len(p), 6 + n - Len(p))
      <4>1. \A i, j \in Len(p) + 1..Len(p) + Len(t) :
              SubSeq(p \o t, i, j) = SubSeq(t, i - Len(p), j - Len(p))
        BY <1>1, SubSeqOfConcat2, Zenon
      <4> QED
        BY <3>1, <4>1
    <3>3. 7 - Len(p) = 1 /\ 6 + n - Len(p) = n
      BY <1>1, SMT
    <3> QED
      BY <3>2, <3>3, SubSeqFull
  <2> QED
    BY <2>1, <2>2
<1>5. 6 + n >= 6
  BY <1>1, SMT
<1> QED
  BY <1>2, <1>3, <1>4, <1>5 DEF Stripped, p

(* No TIFF structure begins like the prefix. *)
LEMMA NothingToStrip ==
  ASSUME NEW t \in Seq(Byte), NEW v, IsWritten(t, v)
  PROVE  Stripped(t) = t
<1>1. Len(t) >= 8 /\ SubSeq(t, 1, 4) \in {BigEndian, LittleEndian}
  BY DEF IsWritten, IsDirectory
<1>2. SubSeq(t, 1, 4)[1] = t[1]
  <2>1. \A i \in 1..4 : t[i] \in Byte
    BY <1>1, SMT
  <2>2. 1 \in Int /\ 4 \in Int /\ 1 \in 1..4 - 1 + 1 /\ 1 + 1 - 1 = 1
    BY SMT
  <2> QED
    BY <2>1, <2>2, SubSeqProperties
<1>3. t[1] # 69
  <2>1. BigEndian[1] = 77 /\ LittleEndian[1] = 73
    BY SMT DEF BigEndian, LittleEndian
  <2>2. t[1] \in {77, 73}
    BY <1>1, <1>2, <2>1
  <2> QED
    BY <2>2, SMT
<1>4. SubSeq(t, 1, 6)[1] = t[1]
  <2>1. \A i \in 1..6 : t[i] \in Byte
    BY <1>1, SMT
  <2>2. 1 \in Int /\ 6 \in Int /\ 1 \in 1..6 - 1 + 1 /\ 1 + 1 - 1 = 1
    BY SMT
  <2> QED
    BY <2>1, <2>2, SubSeqProperties
<1>5. ExifPrefix[1] = 69
  BY SMT DEF ExifPrefix
<1> QED
  BY <1>3, <1>4, <1>5 DEF Stripped

(* What is stripped is a blob, too, and with the prefix it is the one there was. *)
LEMMA StrippedIsBlob ==
  ASSUME NEW blob \in Seq(Byte)
  PROVE  /\ Stripped(blob) \in Seq(Byte)
         /\ Stripped(blob) = blob \/ blob = ExifPrefix \o Stripped(blob)
<1>1. CASE Len(blob) >= 6 /\ SubSeq(blob, 1, 6) = ExifPrefix
  <2> DEFINE n == Len(blob)
             t == SubSeq(blob, 7, n)
  <2>1. n \in Nat /\ 6 <= n /\ n \in Int
    BY <1>1, SMT
  <2>2. t \in Seq(Byte)
    <3>1. 7 \in Int /\ \A i \in 7..n : blob[i] \in Byte
      BY <2>1, SMT
    <3> HIDE DEF n
    <3> QED
      BY <2>1, <3>1, SubSeqProperties
  <2>3. Stripped(blob) = t
    BY <1>1 DEF Stripped
  <2>4. blob = ExifPrefix \o t
    <3>1. CASE n = 6
      <4>1. t = <<>>
        BY <2>1, <3>1, SubSeqEmpty, SMT
      <4>2. blob = ExifPrefix
        BY <1>1, <3>1, SubSeqFull
      <4> QED
        BY <4>1, <4>2, ConcatEmptySeq
    <3>2. CASE n # 6
      <4>1. /\ 1 \in Int /\ 6 \in Int /\ 7 \in Int
            /\ \A i \in 1..6 : blob[i] \in Byte
            /\ \A i \in 7..n : blob[i] \in Byte
        BY <2>1, SMT
      <4>2. /\ ExifPrefix \in Seq(Byte)
            /\ Len(ExifPrefix) = 6
            /\ \A i \in 1..6 : ExifPrefix[i] = blob[i]
        <5>1. /\ SubSeq(blob, 1, 6) \in Seq(Byte)
              /\ Len(SubSeq(blob, 1, 6)) = (IF 1 <= 6 THEN 6 - 1 + 1 ELSE 0)
              /\ \A i \in 1..6 - 1 + 1 : SubSeq(blob, 1, 6)[i] = blob[1 + i - 1]
          BY <4>1, SubSeqProperties
        <5>2. (IF 1 <= 6 THEN 6 - 1 + 1 ELSE 0) = 6
          BY SMT
        <5>3. \A i \in 1..6 : i \in 1..6 - 1 + 1 /\ 1 + i - 1 = i
          BY SMT
        <5> QED
          BY <1>1, <5>1, <5>2, <5>3
      <4>3. /\ Len(t) = n - 6
            /\ \A i \in 1..n - 6 : t[i] = blob[6 + i]
        <5>1. /\ Len(SubSeq(blob, 7, n)) = (IF 7 <= n THEN n - 7 + 1 ELSE 0)
              /\ \A i \in 1..n - 7 + 1 : SubSeq(blob, 7, n)[i] = blob[7 + i - 1]
          <6> HIDE DEF n
          <6> QED
            BY <2>1, <4>1, SubSeqProperties
        <5>2. (IF 7 <= n THEN n - 7 + 1 ELSE 0) = n - 6
          <6> HIDE DEF n
          <6> QED
            BY <2>1, <3>2, SMT
        <5>3. \A i \in 1..n - 6 : i \in 1..n - 7 + 1 /\ 7 + i - 1 = 6 + i
          BY <2>1, SMT
        <5> QED
          BY <5>1, <5>2, <5>3
      <4>4. /\ ExifPrefix \o t \in Seq(Byte)
            /\ Len(ExifPrefix \o t) = n
            /\ \A i \in 1..n : (ExifPrefix \o t)[i] = blob[i]
        <5>1. /\ ExifPrefix \o t \in Seq(Byte)
              /\ Len(ExifPrefix \o t) = 6 + Len(t)
              /\ \A i \in 1..6 + Len(t) :
                   (ExifPrefix \o t)[i] = IF i <= 6 THEN ExifPrefix[i] ELSE t[i - 6]
          <6> HIDE DEF t
          <6>1. /\ ExifPrefix \o t \in Seq(Byte)
                /\ Len(ExifPrefix \o t) = Len(ExifPrefix) + Len(t)
                /\ \A i \in 1..Len(ExifPrefix) + Len(t) :
                     (ExifPrefix \o t)[i] = IF i <= Len(ExifPrefix) THEN ExifPrefix[i]
                                            ELSE t[i - Len(ExifPrefix)]
            BY <2>2, <4>2, ConcatProperties, Zenon
          <6> QED
            BY <4>2, <6>1, Zenon
        <5>2. 6 + Len(t) = n
          BY <2>1, <4>3, SMT
        <5>3. \A i \in 1..n : IF i <= 6 THEN i \in 1..6
                              ELSE i - 6 \in 1..n - 6 /\ 6 + (i - 6) = i
          BY <2>1, SMT
        <5> QED
          BY <4>2, <4>3, <5>1, <5>2, <5>3
      <4> HIDE DEF t
      <4> QED
        BY <4>4, SeqEqual
    <3> QED
      BY <3>1, <3>2
  <2> QED
    BY <2>2, <2>3, <2>4
<1>2. CASE ~(Len(blob) >= 6 /\ SubSeq(blob, 1, 6) = ExifPrefix)
  BY <1>2 DEF Stripped
<1> QED
  BY <1>1, <1>2

(* The EXIF parser reads the orientation that was written, and no other: the
   tag of a blob is the value of the first entry for it in the first directory,
   in either byte order, with the prefix or without it; and what is no such
   blob has no tag. *)
THEOREM OrientationIsRead ==
  ASSUME NEW blob \in Seq(Byte)
  PROVE  /\ \A v \in Short : IsMeant(blob, v) => ParseOrientation(blob) = v
         /\ (\A v \in Short : ~IsMeant(blob, v)) => ParseOrientation(blob) = NoTag
<1> DEFINE t == Stripped(blob)
<1>1. ParseOrientation(blob) = IF IsReadable(t) THEN ValueAt(t, FirstFound(t)) ELSE NoTag
  BY ParsedInHalves
<1>2. ASSUME NEW v \in Short, IsMeant(blob, v)
      PROVE  ParseOrientation(blob) = v
  <2>1. t \in Seq(Byte) /\ IsWritten(t, v)
    <3>1. CASE IsWritten(blob, v)
      BY <3>1, NothingToStrip
    <3>2. CASE \E u \in Seq(Byte) : blob = ExifPrefix \o u /\ IsWritten(u, v)
      BY <3>2, PrefixIsStripped
    <3> QED
      BY <1>2, <3>1, <3>2 DEF IsMeant
  <2> HIDE DEF t
  <2> QED
    BY <1>1, <2>1, WrittenIsRead
<1>3. ASSUME IsReadable(t)
      PROVE  \E v \in Short : IsMeant(blob, v)
  <2>1. t \in Seq(Byte) /\ (t = blob \/ blob = ExifPrefix \o t)
    BY StrippedIsBlob
  <2> HIDE DEF t
  <2>2. ValueAt(t, FirstFound(t)) \in Short /\ IsWritten(t, ValueAt(t, FirstFound(t)))
    BY <1>3, <2>1, ReadIsWritten
  <2> QED
    BY <2>1, <2>2 DEF IsMeant
<1> QED
  BY <1>1, <1>2, <1>3
-----------------------------------------------------------------------------
(* The view. *)

(* The orientation of a file is the one that was written into its EXIF, where
   one was; otherwise it is Normal. *)
TagsAreWritten ==
  \A f \in Files :
    /\ f.exif \in Seq(Byte)
    /\ IF \E v \in 1..8 : IsMeant(f.exif, v) THEN IsMeant(f.exif, f.tag) ELSE f.tag = 1

LEMMA BlobsAreRead ==
  ASSUME TagsAreWritten, NEW f \in Files
  PROVE  FromExif(ParseOrientation(f.exif)) = TagName[f.tag]
<1> DEFINE v == ParseOrientation(f.exif)
<1>1. /\ f.tag \in 1..8 /\ f.exif \in Seq(Byte)
      /\ IF \E u \in 1..8 : IsMeant(f.exif, u) THEN IsMeant(f.exif, f.tag) ELSE f.tag = 1
  BY PixelAssumption DEF TagsAreWritten
<1>2. /\ \A u \in Short : IsMeant(f.exif, u) => v = u
      /\ (\A u \in Short : ~IsMeant(f.exif, u)) => v = NoTag
  BY <1>1, OrientationIsRead
<1>3. 1..8 \subseteq Short
  BY SMT DEF Short
<1> HIDE DEF v
<1>4. CASE \E u \in 1..8 : IsMeant(f.exif, u)
  <2>1. v = f.tag
    BY <1>1, <1>2, <1>3, <1>4
  <2> QED
    BY <1>1, <2>1 DEF FromExif, v
<1>5. CASE \A u \in 1..8 : ~IsMeant(f.exif, u)
  <2>1. v \notin 1..8
    <3>1. NoTag \notin 1..8
      BY SMT DEF NoTag
    <3> QED
      BY <1>2, <1>5, <3>1
  <2> QED
    BY <1>1, <1>5, <2>1 DEF FromExif, v
<1> QED
  BY <1>4, <1>5

(* An image that says Normal is seen as it lies. *)
LEMMA SeenPlainly ==
  ASSUME NEW w \in Nat, NEW h \in Nat, NEW x \in 0..w - 1, NEW y \in 0..h - 1
  PROVE  /\ Seen(1, x, y, w, h) = [x |-> x, y |-> y]
         /\ SeenSides(1, w, h) = <<w, h>>
BY SMT DEF Seen, SeenSides, Sideways, From, FirstRow, FirstColumn

(* A texture shows the same picture as itself: no two of its pixels are seen in
   one place. *)
LEMMA ReportedView ==
  ASSUME NEW t, IsShape(t), NEW tag \in 1..8
  PROVE  SameView(t, tag, t, tag)
<1> DEFINE o == TagName[tag]
<1>1. t.width \in Nat /\ t.height \in Nat /\ o \in Orientations
  BY TagOfName DEF IsShape
<1>2. ASSUME NEW x \in 0..t.width - 1, NEW y \in 0..t.height - 1,
             NEW ux \in 0..t.width - 1, NEW uy \in 0..t.height - 1,
             Seen(tag, x, y, t.width, t.height) = Seen(tag, ux, uy, t.width, t.height)
      PROVE  Pixel(t, x, y) = Pixel(t, ux, uy)
  <2> DEFINE w == t.width
             h == t.height
  <2>1. /\ Seen(tag, x, y, w, h).x = MappedCoord(o, x, y, w, h).x
        /\ Seen(tag, x, y, w, h).y = MappedCoord(o, x, y, w, h).y
        /\ Seen(tag, ux, uy, w, h).x = MappedCoord(o, ux, uy, w, h).x
        /\ Seen(tag, ux, uy, w, h).y = MappedCoord(o, ux, uy, w, h).y
    BY <1>1, MappedIsSeen
  <2>2. /\ MappedCoord(o, x, y, w, h).x = MappedCoord(o, ux, uy, w, h).x
        /\ MappedCoord(o, x, y, w, h).y = MappedCoord(o, ux, uy, w, h).y
    BY <1>2, <2>1
  <2>3. x = ux /\ y = uy
    <3>1. x \in 0..w - 1 /\ y \in 0..h - 1 /\ ux \in 0..w - 1 /\ uy \in 0..h - 1
      OBVIOUS
    <3>2. w \in Nat /\ h \in Nat
      BY <1>1
    <3> HIDE DEF o, w, h
    <3> QED
      BY <1>1, <2>2, <3>1, <3>2, MappedApart
  <2> QED
    BY <2>3
<1> QED
  BY <1>2 DEF SameView

(* What was turned shows, as it lies, what the writer meant. *)
LEMMA TurnedView ==
  ASSUME NEW f \in Files, NEW i, IsTurned(i, f),
         FromExif(ParseOrientation(f.exif)) = TagName[f.tag]
  PROVE  /\ SameView(f.texture, f.tag, i.texture, 1)
         /\ SeenSides(1, i.width, i.height) = SeenSides(f.tag, f.width, f.height)
<1> DEFINE t == f.texture
           u == i.texture
           o == TagName[f.tag]
           w == t.width
           h == t.height
<1>1. /\ w \in Nat /\ h \in Nat /\ f.width \in Nat /\ f.height \in Nat
      /\ f.tag \in 1..8 /\ o \in Orientations
  BY FileFacts, PixelAssumption, TagOfName DEF IsShape
<1>2. /\ u.width = TurnedWidth(o, w, h) /\ u.height = TurnedHeight(o, w, h)
      /\ i.width = TurnedWidth(o, f.width, f.height)
      /\ i.height = TurnedHeight(o, f.width, f.height)
  BY DEF IsTurned
<1>3. SeenSides(f.tag, w, h) = <<u.width, u.height>>
  <2>1. SeenSides(f.tag, w, h) = <<TurnedWidth(o, w, h), TurnedHeight(o, w, h)>>
    BY <1>1, SMT DEF TagName, SeenSides, Sideways, FirstRow, TurnedWidth, TurnedHeight,
                     SwapsAxes
  <2> QED
    BY <1>2, <2>1
<1>4. SeenSides(f.tag, f.width, f.height) = <<i.width, i.height>>
  <2>1. SeenSides(f.tag, f.width, f.height)
          = <<TurnedWidth(o, f.width, f.height), TurnedHeight(o, f.width, f.height)>>
    BY <1>1, SMT DEF TagName, SeenSides, Sideways, FirstRow, TurnedWidth, TurnedHeight,
                     SwapsAxes
  <2> QED
    BY <1>2, <2>1
<1>5. \A a, b : SeenSides(1, a, b) = <<a, b>>
  BY SMT DEF SeenSides, Sideways, FirstRow
<1>6. ASSUME NEW x \in 0..w - 1, NEW y \in 0..h - 1,
             NEW ux \in 0..u.width - 1, NEW uy \in 0..u.height - 1,
             Seen(f.tag, x, y, w, h) = Seen(1, ux, uy, u.width, u.height)
      PROVE  Pixel(t, x, y) = Pixel(u, ux, uy)
  <2> DEFINE to == MappedCoord(o, x, y, w, h)
  <2>1. Seen(f.tag, x, y, w, h).x = to.x /\ Seen(f.tag, x, y, w, h).y = to.y
    BY <1>1, MappedIsSeen
  <2>2. u.width \in Nat /\ u.height \in Nat
    BY <1>1, <1>2 DEF TurnedWidth, TurnedHeight
  <2>3. Seen(1, ux, uy, u.width, u.height) = [x |-> ux, y |-> uy]
    BY <2>2, SeenPlainly
  <2>4. to.x = ux /\ to.y = uy
    BY <1>6, <2>1, <2>3
  <2>5. Pixel(u, to.x, to.y) = Pixel(t, x, y)
    BY DEF IsTurned
  <2> QED
    BY <2>4, <2>5
<1> QED
  BY <1>3, <1>4, <1>5, <1>6 DEF SameView

(* The loaded image shows what its writer meant, baked or reported: the turn of
   its pixels and the orientation that it reports make up the one that was written
   into its EXIF. *)
THEOREM ViewKept ==
  ASSUME TagsAreWritten
  PROVE  Spec => []ViewIsKept
<1>1. PInv => ViewIsKept
  <2> SUFFICES ASSUME PInv, Loaded
               PROVE  LET tag == ExifValue(image.orientation)
                      IN  /\ SameView(file.texture, file.tag, image.texture, tag)
                          /\ SeenSides(tag, image.width, image.height)
                               = SeenSides(file.tag, file.width, file.height)
    BY DEF ViewIsKept
  <2>1. /\ file \in Files /\ file.tag \in 1..8 /\ Turn = TagName[file.tag]
        /\ IsShape(file.texture)
    <3>1. file \in Files
      BY DEF PInv
    <3>2. file.tag \in 1..8
      BY <3>1, PixelAssumption
    <3>3. Turn = TagName[file.tag]
      BY <3>1, BlobsAreRead DEF Turn
    <3> QED
      BY <3>1, <3>2, <3>3, FileFacts
  <2>2. CASE /\ image.orientation = Turn
             /\ image.width = file.width /\ image.height = file.height
             /\ image.texture = file.texture
    <3>1. ExifValue(image.orientation) = file.tag
      BY <2>1, <2>2, TagOfName
    <3>2. SameView(file.texture, file.tag, file.texture, file.tag)
      BY <2>1, ReportedView
    <3> QED
      BY <2>2, <3>1, <3>2
  <2>3. CASE IsTurned(image, file)
    <3>1. ExifValue(image.orientation) = 1
      <4>1. image.orientation = TagName[1]
        BY <2>3, SMT DEF IsTurned, TagName
      <4> QED
        BY <4>1, TagOfName, SMT
    <3>2. FromExif(ParseOrientation(file.exif)) = TagName[file.tag]
      BY <2>1 DEF Turn
    <3> QED
      BY <2>1, <2>3, <3>1, <3>2, TurnedView
  <2> QED
    BY <2>2, <2>3 DEF PInv, LoadedPart
<1> QED
  BY <1>1, PixelInductive, PTL
-----------------------------------------------------------------------------
(* Flattening, which overwrites the bytes that it reads. *)

Source == Rgba(given.texture)

(* The three channels of pixel i have been put over white. *)
IsFlat(i) ==
  \A k \in 0..2 : buf[3 * i + k] = OverWhite(Source[4 * i + k], Source[4 * i + 3])

(* What is still to be read has not been written to. *)
IsUnread(i) == \A k \in 0..3 : buf[4 * i + k] = Source[4 * i + k]

FlattenPart ==
  /\ pc = "flatten" =>
       /\ given.codec = "jpeg"
       /\ at.x \in 0..Pixels /\ at = [x |-> at.x, y |-> 0]
       /\ DOMAIN buf = 0..4 * Pixels - 1 /\ buf = [o \in DOMAIN buf |-> buf[o]]
       /\ \A i \in 0..Pixels - 1 : IF i < at.x THEN IsFlat(i) ELSE IsUnread(i)
  /\ pc = "written" /\ given.codec = "jpeg" =>
       /\ DOMAIN buf = 0..3 * Pixels - 1
       /\ \A i \in 0..Pixels - 1 : IsFlat(i)

LEMMA PixelsAreCounted ==
  ASSUME PInv, pc \in {"convert", "flatten"}
  PROVE  Pixels \in Nat
<1>1. given.texture.width \in Nat /\ given.texture.height \in Nat
  BY DEF PInv, ShapePart, IsShape
<1> QED
  BY <1>1, ProductInNat DEF Pixels

(* At first everything is still to be read. *)
LEMMA ConvertUnread ==
  ASSUME PInv, Convert
  PROVE  FlattenPart'
<1> DEFINE P == Pixels
<1>1. /\ P \in Nat /\ UNCHANGED <<given, Pixels, Source>> /\ at' = [x |-> 0, y |-> 0]
  BY PixelsAreCounted DEF Convert, Pixels, Source, Start
<1>2. /\ pc' \in {"flatten", "written"} => buf' = Source
      /\ pc' = "flatten" => given.codec = "jpeg"
      /\ pc' = "written" => given.codec # "jpeg"
  BY DEF Convert, Source
<1>3. DOMAIN Source = 0..4 * P - 1 /\ Source = [o \in DOMAIN Source |-> Source[o]]
  <2>1. 4 * given.texture.width * given.texture.height = 4 * P
    <3>1. given.texture.width \in Nat /\ given.texture.height \in Nat
      BY DEF PInv, ShapePart, IsShape, Convert
    <3> QED
      BY <3>1, SMT DEF Pixels
  <2>2. DOMAIN Source = 0..4 * given.texture.width * given.texture.height - 1
        /\ Source = [o \in DOMAIN Source |-> Source[o]]
    BY DEF Source, Rgba
  <2> QED
    BY <2>1, <2>2
<1>4. \A i \in 0..P - 1 : ~(i < 0)
  BY SMT
<1>5. 0 \in 0..P
  BY <1>1, SMT
<1> HIDE DEF P
<1>6. ASSUME pc' = "flatten"
      PROVE  /\ given'.codec = "jpeg" /\ at'.x \in 0..Pixels'
             /\ at' = [x |-> at'.x, y |-> 0]
             /\ DOMAIN buf' = 0..4 * Pixels' - 1 /\ buf' = [o \in DOMAIN buf' |-> buf'[o]]
             /\ \A i \in 0..Pixels' - 1 : ~(i < at'.x) /\ IsUnread(i)'
  <2>1. buf' = Source' /\ Source' = Source /\ Pixels' = P
    BY <1>1, <1>2, <1>6 DEF P
  <2>2. at'.x = 0
    BY <1>1
  <2> QED
    BY <1>1, <1>2, <1>3, <1>4, <1>5, <1>6, <2>1, <2>2 DEF IsUnread
<1>7. ~(pc' = "written" /\ given'.codec = "jpeg")
  BY <1>1, <1>2
<1> QED
  BY <1>6, <1>7 DEF FlattenPart

(* A pixel is written where the pixels before it have been read. *)
LEMMA FlattenPixelKeeps ==
  ASSUME PInv, FlattenPart, FlattenPixel
  PROVE  FlattenPart'
<1> DEFINE P == Pixels
           m == at.x
           V(k) == OverWhite(Source[4 * m + k], Source[4 * m + 3])
<1>1. /\ pc = "flatten" /\ pc' = "flatten" /\ given.codec = "jpeg" /\ given' = given
      /\ m \in 0..P /\ m < P /\ at = [x |-> m, y |-> 0] /\ P \in Nat
      /\ DOMAIN buf = 0..4 * P - 1 /\ buf = [o \in DOMAIN buf |-> buf[o]]
      /\ \A i \in 0..P - 1 : IF i < m THEN IsFlat(i) ELSE IsUnread(i)
  BY PixelsAreCounted DEF FlattenPart, FlattenPixel
<1>2. m \in 0..P - 1 /\ m \in Nat
  <2> HIDE DEF m, P
  <2> QED
    BY <1>1, SMT
<1>3. at' = [x |-> m + 1, y |-> 0] /\ at'.x = m + 1
  <2>1. at' = [at EXCEPT !.x = @ + 1]
    BY DEF FlattenPixel
  <2> QED
    BY <1>1, <2>1
<1>4. UNCHANGED <<Pixels, Source>>
  BY <1>1 DEF Pixels, Source
<1>5. /\ buf[4 * m] = Source[4 * m + 0] /\ buf[4 * m + 1] = Source[4 * m + 1]
      /\ buf[4 * m + 2] = Source[4 * m + 2] /\ buf[4 * m + 3] = Source[4 * m + 3]
  <2>1. ~(m < m)
    BY <1>2, SMT
  <2>2. IsUnread(m)
    BY <1>1, <1>2, <2>1
  <2>3. /\ buf[4 * m + 0] = Source[4 * m + 0] /\ buf[4 * m + 1] = Source[4 * m + 1]
        /\ buf[4 * m + 2] = Source[4 * m + 2] /\ buf[4 * m + 3] = Source[4 * m + 3]
    BY <2>2, SMT DEF IsUnread
  <2>4. 4 * m + 0 = 4 * m
    BY <1>2, SMT
  <2> QED
    BY <2>3, <2>4
<1>6. buf' = [buf EXCEPT ![3 * m] = V(0), ![3 * m + 1] = V(1), ![3 * m + 2] = V(2)]
  BY <1>5 DEF FlattenPixel
<1> HIDE DEF P, m, V
<1>7. DOMAIN buf' = 0..4 * P - 1 /\ buf' = [o \in DOMAIN buf' |-> buf'[o]]
  BY <1>1, <1>6
<1>8. ASSUME NEW o \in 0..4 * P - 1
      PROVE  buf'[o] = IF o = 3 * m + 2 THEN V(2) ELSE IF o = 3 * m + 1 THEN V(1)
                       ELSE IF o = 3 * m THEN V(0) ELSE buf[o]
  BY <1>1, <1>6, <1>8, Zenon
<1>9. ASSUME NEW i \in 0..P - 1, i = m
      PROVE  IsFlat(i)'
  <2>1. 3 * m + 0 \in 0..4 * P - 1 /\ 3 * m + 1 \in 0..4 * P - 1 /\ 3 * m + 2 \in 0..4 * P - 1
    BY <1>1, <1>2, SMT
  <2>2. buf'[3 * m + 0] = V(0) /\ buf'[3 * m + 1] = V(1) /\ buf'[3 * m + 2] = V(2)
    BY <1>2, <1>8, <2>1, SMT
  <2>3. \A k \in 0..2 : k = 0 \/ k = 1 \/ k = 2
    BY SMT
  <2>4. \A k \in 0..2 : buf'[3 * m + k] = V(k)
    BY <2>2, <2>3
  <2> QED
    BY <1>4, <1>9, <2>4 DEF IsFlat, V
<1>10. ASSUME NEW i \in 0..P - 1, i < m, IsFlat(i)
       PROVE  IsFlat(i)'
  <2> SUFFICES ASSUME NEW k \in 0..2 PROVE buf'[3 * i + k] = buf[3 * i + k]
    BY <1>4, <1>10 DEF IsFlat
  <2>1. 3 * i + k \in 0..4 * P - 1 /\ 3 * i + k < 3 * m
    BY <1>1, <1>2, <1>10, SMT
  <2> QED
    BY <1>2, <1>8, <2>1, SMT
<1>11. ASSUME NEW i \in 0..P - 1, m < i, IsUnread(i)
       PROVE  IsUnread(i)'
  <2> SUFFICES ASSUME NEW k \in 0..3 PROVE buf'[4 * i + k] = buf[4 * i + k]
    BY <1>4, <1>11 DEF IsUnread
  <2>1. 4 * i + k \in 0..4 * P - 1 /\ 4 * i + k > 3 * m + 2
    BY <1>1, <1>2, <1>11, SMT
  <2> QED
    BY <1>2, <1>8, <2>1, SMT
<1>12. ASSUME NEW i \in 0..P - 1
       PROVE  IF i < m + 1 THEN IsFlat(i)' ELSE IsUnread(i)'
  <2>1. \/ i < m /\ i < m + 1
        \/ i = m /\ i < m + 1
        \/ m < i /\ ~(i < m) /\ ~(i < m + 1)
    BY <1>1, <1>2, SMT
  <2>2. IF i < m THEN IsFlat(i) ELSE IsUnread(i)
    BY <1>1
  <2> QED
    BY <1>9, <1>10, <1>11, <2>1, <2>2
<1>13. m + 1 \in 0..P
  BY <1>1, <1>2, SMT
<1>14. Pixels' = P
  BY <1>4 DEF P
<1> QED
  BY <1>1, <1>3, <1>7, <1>12, <1>13, <1>14 DEF FlattenPart

LEMMA TruncateKeeps ==
  ASSUME PInv, FlattenPart, Truncate
  PROVE  FlattenPart'
<1> DEFINE P == Pixels
<1>1. /\ pc = "flatten" /\ pc' = "written" /\ given' = given /\ at.x = P /\ P \in Nat
      /\ buf' = [o \in 0..3 * P - 1 |-> buf[o]]
      /\ \A i \in 0..P - 1 : IF i < at.x THEN IsFlat(i) ELSE IsUnread(i)
  BY PixelsAreCounted DEF FlattenPart, Truncate, Goes
<1>2. Pixels' = P /\ Source' = Source
  BY <1>1 DEF Pixels, Source
<1> HIDE DEF P
<1>3. ASSUME NEW i \in 0..P - 1
      PROVE  IsFlat(i)'
  <2>1. i < at.x
    BY <1>1, SMT
  <2>2. IsFlat(i)
    BY <1>1, <2>1
  <2> SUFFICES ASSUME NEW k \in 0..2 PROVE buf'[3 * i + k] = buf[3 * i + k]
    BY <1>2, <2>2 DEF IsFlat
  <2>3. 3 * i + k \in 0..3 * P - 1
    BY <1>1, SMT
  <2> QED
    BY <1>1, <2>3
<1>4. DOMAIN buf' = 0..3 * P - 1
  BY <1>1
<1> QED
  BY <1>1, <1>2, <1>3, <1>4 DEF FlattenPart

(* What the JPEG codec gets is every pixel of the source over white. *)
FlattenedExactly ==
  pc = "written" /\ given.codec = "jpeg" =>
    /\ DOMAIN buf = 0..3 * Pixels - 1
    /\ \A i \in 0..Pixels - 1 : IsFlat(i)

(* flatten_over_white rewrites the buffer that it reads, and yet computes every
   byte from the colour that to_rgba8 gave, for pictures of every size. *)
THEOREM FlatteningIsExact == Spec => []FlattenedExactly
<1>1. Init => FlattenPart
  BY DEF Init, FlattenPart
<1>2. ASSUME PInv, FlattenPart, [Next]_vars
      PROVE  FlattenPart'
  <2>1. CASE Convert
    BY <1>2, <2>1, ConvertUnread
  <2>2. CASE FlattenPixel
    BY <1>2, <2>2, FlattenPixelKeeps
  <2>3. CASE Truncate
    BY <1>2, <2>3, TruncateKeeps
  <2>4. CASE \/ NothingToTurn \/ ReportTurn \/ BeginBake \/ BakePixel \/ BakeDone
             \/ \E accepted \in Accepts : Deliver(accepted)
             \/ \E codec \in Codecs :
                  \/ \E pad \in Pads : AddDelivered(pad, codec)
                  \/ \E t \in Drawings : AddFrame(t, codec)
    <3>1. pc' \notin {"flatten", "written"}
      BY <2>4 DEF NothingToTurn, ReportTurn, BeginBake, BakePixel, BakeDone, Deliver,
                  AddDelivered, AddFrame, Goes
    <3> QED
      BY <3>1 DEF FlattenPart
  <2>5. CASE Rest \/ UNCHANGED vars
    <3>1. /\ pc' = pc /\ given' = given /\ at' = at /\ buf' = buf
      BY <2>5 DEF Rest, vars
    <3>2. Pixels' = Pixels /\ Source' = Source
      BY <3>1 DEF Pixels, Source
    <3>3. \A i : (IsFlat(i)' <=> IsFlat(i)) /\ (IsUnread(i)' <=> IsUnread(i))
      BY <3>1, <3>2 DEF IsFlat, IsUnread
    <3> QED
      BY <1>2, <3>1, <3>2, <3>3 DEF FlattenPart
  <2> QED
    BY <1>2, <2>1, <2>2, <2>3, <2>4, <2>5 DEF Next
<1>3. FlattenPart => FlattenedExactly
  BY DEF FlattenPart, FlattenedExactly
<1> QED
  BY <1>1, <1>2, <1>3, PixelInductive, PTL DEF Spec
=============================================================================
