------------------------------ MODULE Textures ------------------------------
(***************************************************************************)
(* Pixels in memory.  A texture is rows of bytes, stride bytes apart; its  *)
(* data is a function from byte offsets, which begin at 0.  The operators  *)
(* say how the library reads an orientation from EXIF bytes, where a pixel *)
(* goes when the texture is turned, how a pixel becomes a straight RGBA    *)
(* colour, and how a colour is laid out in another format.                 *)
(***************************************************************************)
EXTENDS Integers, Sequences

Byte == 0..255

(* Formats of one byte a channel, and of more. *)
Narrow == {"G8", "G8A8", "G8A8_PRE", "R8G8B8", "B8G8R8", "R8G8B8A8",
           "R8G8B8A8_PRE", "B8G8R8A8", "B8G8R8A8_PRE", "A8R8G8B8",
           "A8R8G8B8_PRE", "A8B8G8R8"}
Wide == {"G16", "G16A16", "G16A16_PRE", "R16G16B16", "R16G16B16A16",
         "R16G16B16A16_PRE", "R16G16B16_FLOAT", "R16G16B16A16_FLOAT",
         "R32G32B32_FLOAT", "R32G32B32A32_FLOAT", "R32G32B32A32_FLOAT_PRE"}
Formats == Narrow \cup Wide
NoFormat == "none"

Premultiplied8 == {"G8A8_PRE", "R8G8B8A8_PRE", "B8G8R8A8_PRE", "A8R8G8B8_PRE"}

BytesPerPixel(f) ==
  IF f = "G8" THEN 1
  ELSE IF f \in {"G8A8", "G8A8_PRE", "G16"} THEN 2
  ELSE IF f \in {"R8G8B8", "B8G8R8"} THEN 3
  ELSE IF f \in Narrow \cup {"G16A16", "G16A16_PRE"} THEN 4
  ELSE IF f \in {"R16G16B16", "R16G16B16_FLOAT"} THEN 6
  ELSE IF f \in {"R16G16B16A16", "R16G16B16A16_PRE", "R16G16B16A16_FLOAT"} THEN 8
  ELSE IF f = "R32G32B32_FLOAT" THEN 12 ELSE 16

(* What Texture::from_parts accepts, data having len bytes. *)
WellFormed(t) ==
  /\ t.len = t.stride * t.height
  /\ t.stride >= t.width * BytesPerPixel(t.format)

(* The n bytes at an offset lie inside a buffer of len bytes. *)
Inside(offset, n, len) == 0 <= offset /\ offset + n <= len

Pixel(t, x, y) ==
  [k \in 0..BytesPerPixel(t.format) - 1 |->
     t.data[y * t.stride + x * BytesPerPixel(t.format) + k]]
-----------------------------------------------------------------------------
(* Orientation. *)

TagName == <<"Normal", "FlipHorizontal", "Rotate180", "FlipVertical",
             "Transpose", "Rotate90", "Transverse", "Rotate270">>
Orientations == {TagName[i] : i \in 1..8}

FromExif(value) == TagName[IF value \in 1..8 THEN value ELSE 1]
ExifValue(o) == CHOOSE i \in 1..8 : TagName[i] = o
SwapsAxes(o) == o \in {"Transpose", "Rotate90", "Transverse", "Rotate270"}

ReadU16(b, i, big) == IF big THEN 256 * b[i] + b[i + 1] ELSE b[i] + 256 * b[i + 1]
ReadU32(b, i, big) ==
  IF big THEN 65536 * ReadU16(b, i, big) + ReadU16(b, i + 2, big)
  ELSE ReadU16(b, i, big) + 65536 * ReadU16(b, i + 2, big)

ExifPrefix == <<69, 120, 105, 102, 0, 0>>      (* "Exif", 0, 0 *)
BigEndian == <<77, 77, 0, 42>>                 (* "MM", 0, "*" *)
LittleEndian == <<73, 73, 42, 0>>              (* "II", "*", 0 *)
OrientationTag == 274                          (* 0x0112 *)
NoTag == 0

(* The tag of the first directory of the blob, a sequence of bytes; whatever
   is not as it should be counts as no tag. *)
ParseOrientation(blob) ==
  LET prefixed == Len(blob) >= 6 /\ SubSeq(blob, 1, 6) = ExifPrefix
      tiff == IF prefixed THEN SubSeq(blob, 7, Len(blob)) ELSE blob
      big == SubSeq(tiff, 1, 4) = BigEndian
      ifd == ReadU32(tiff, 5, big)
      count == ReadU16(tiff, ifd + 1, big)
      Entry(i) == ifd + 2 + 12 * i             (* its offset *)
      found == {i \in 0..count - 1 : ReadU16(tiff, Entry(i) + 1, big) = OrientationTag}
  IN  IF /\ Len(tiff) >= 8
         /\ SubSeq(tiff, 1, 4) \in {BigEndian, LittleEndian}
         /\ ifd + 2 <= Len(tiff)
         /\ Entry(count) <= Len(tiff)
         /\ found # {}
      THEN LET first == CHOOSE i \in found : \A j \in found : i <= j
           IN  ReadU16(tiff, Entry(first) + 9, big)
      ELSE NoTag

(* Mutant of MappedCoord: the quarter turns are the wrong way round. *)
MappedCoordBackwards(o, x, y, w, h) ==
  CASE o = "Normal"         -> [x |-> x, y |-> y]
    [] o = "FlipHorizontal" -> [x |-> w - 1 - x, y |-> y]
    [] o = "Rotate180"      -> [x |-> w - 1 - x, y |-> h - 1 - y]
    [] o = "FlipVertical"   -> [x |-> x, y |-> h - 1 - y]
    [] o = "Transpose"      -> [x |-> y, y |-> x]
    [] o = "Rotate90"       -> [x |-> y, y |-> w - 1 - x]
    [] o = "Transverse"     -> [x |-> h - 1 - y, y |-> w - 1 - x]
    [] o = "Rotate270"      -> [x |-> h - 1 - y, y |-> x]

(* Where the pixel in column x and row y of a w by h texture goes. *)
MappedCoord(o, x, y, w, h) ==
  CASE o = "Normal"         -> [x |-> x, y |-> y]
    [] o = "FlipHorizontal" -> [x |-> w - 1 - x, y |-> y]
    [] o = "Rotate180"      -> [x |-> w - 1 - x, y |-> h - 1 - y]
    [] o = "FlipVertical"   -> [x |-> x, y |-> h - 1 - y]
    [] o = "Transpose"      -> [x |-> y, y |-> x]
    [] o = "Rotate90"       -> [x |-> h - 1 - y, y |-> x]
    [] o = "Transverse"     -> [x |-> h - 1 - y, y |-> w - 1 - x]
    [] o = "Rotate270"      -> [x |-> y, y |-> w - 1 - x]
-----------------------------------------------------------------------------
(* Colours. *)

(* The places of red, green, blue and, where there is one, alpha in a pixel. *)
Places(f) ==
  CASE f = "G8"                            -> <<0, 0, 0>>
    [] f \in {"G8A8", "G8A8_PRE"}          -> <<0, 0, 0, 1>>
    [] f = "R8G8B8"                        -> <<0, 1, 2>>
    [] f = "B8G8R8"                        -> <<2, 1, 0>>
    [] f \in {"R8G8B8A8", "R8G8B8A8_PRE"}  -> <<0, 1, 2, 3>>
    [] f \in {"B8G8R8A8", "B8G8R8A8_PRE"}  -> <<2, 1, 0, 3>>
    [] f \in {"A8R8G8B8", "A8R8G8B8_PRE"}  -> <<1, 2, 3, 0>>
    [] f = "A8B8G8R8"                      -> <<3, 2, 1, 0>>

Capped(v) == IF v > 255 THEN 255 ELSE v
Unpremultiply(c, a) == IF a = 0 THEN 0 ELSE Capped((c * 255) \div a)

(* The straight colour of a pixel of a narrow format. *)
SampleRgba8(f, p) ==
  LET at == Places(f)
      a == IF Len(at) = 4 THEN p[at[4]] ELSE 255
      Channel(i) == IF f \in Premultiplied8 THEN Unpremultiply(p[at[i]], a) ELSE p[at[i]]
  IN  [r |-> Channel(1), g |-> Channel(2), b |-> Channel(3), a |-> a]

Luma(c) == (30 * c.r + 59 * c.g + 11 * c.b) \div 100

(* Mutant of EmitPixel: green and blue change places in one layout. *)
EmitPixelCrossed(f, c) ==
  CASE f = "B8G8R8A8" -> <<c.b, c.g, c.r, c.a>>
    [] f = "A8R8G8B8" -> <<c.a, c.r, c.b, c.g>>
    [] f = "A8B8G8R8" -> <<c.a, c.b, c.g, c.r>>
    [] f = "R8G8B8"   -> <<c.r, c.g, c.b>>
    [] f = "B8G8R8"   -> <<c.b, c.g, c.r>>
    [] f = "G8A8"     -> <<Luma(c), c.a>>
    [] f = "G8"       -> <<Luma(c)>>
    [] OTHER          -> <<c.r, c.g, c.b, c.a>>

(* The bytes of a colour in a format. *)
EmitPixel(f, c) ==
  CASE f = "B8G8R8A8" -> <<c.b, c.g, c.r, c.a>>
    [] f = "A8R8G8B8" -> <<c.a, c.r, c.g, c.b>>
    [] f = "A8B8G8R8" -> <<c.a, c.b, c.g, c.r>>
    [] f = "R8G8B8"   -> <<c.r, c.g, c.b>>
    [] f = "B8G8R8"   -> <<c.b, c.g, c.r>>
    [] f = "G8A8"     -> <<Luma(c), c.a>>
    [] f = "G8"       -> <<Luma(c)>>
    [] OTHER          -> <<c.r, c.g, c.b, c.a>>

(* The straight form of a premultiplied format that has one. *)
StraightForm ==
  [R8G8B8A8_PRE |-> "R8G8B8A8", B8G8R8A8_PRE |-> "B8G8R8A8",
   A8R8G8B8_PRE |-> "A8R8G8B8", G8A8_PRE |-> "G8A8", G16A16_PRE |-> "G16A16"]
Straight(f) == IF f \in DOMAIN StraightForm THEN <<StraightForm[f]>> ELSE <<>>

Priority == <<"R8G8B8A8", "B8G8R8A8", "A8R8G8B8", "R8G8B8", "B8G8R8", "G8A8", "G8">>

(* The format to convert to: the first of those that are accepted. *)
PickTarget(f, selection) ==
  LET candidates == Straight(f) \o Priority
      fit == {i \in DOMAIN candidates : candidates[i] \in selection}
  IN  IF fit = {} THEN NoFormat
      ELSE candidates[CHOOSE i \in fit : \A j \in fit : i <= j]

(* Every row can be read, and a pixel can be made a colour. *)
Readable(t) ==
  LET row == t.width * BytesPerPixel(t.format)
  IN  /\ t.format \in Narrow
      /\ row <= t.stride
      /\ \A y \in 0..t.height - 1 : Inside(y * t.stride, row, t.len)

(* The texture with its rows tight and its pixels in the target format. *)
ConvertLayout(t, target) ==
  LET n == BytesPerPixel(target)
      len == t.width * t.height * n
      Bytes(i) == EmitPixel(target, SampleRgba8(t.format, Pixel(t, i % t.width, i \div t.width)))
  IN  [width |-> t.width, height |-> t.height, stride |-> t.width * n,
       format |-> target, len |-> len,
       data |-> [o \in 0..len - 1 |-> Bytes(o \div n)[(o % n) + 1]]]

(* A bit of the selection that stands for none of the formats. *)
UnknownBit == "unknown"

(* What the shim makes of a frame, given the formats that are accepted. *)
MaybeConvert(t, selection) ==
  LET target == PickTarget(t.format, selection)
  IN  IF selection = {} \/ UnknownBit \in selection \/ t.format \in selection
         \/ target = NoFormat \/ ~Readable(t)
      THEN t ELSE ConvertLayout(t, target)
=============================================================================
