----------------------------- MODULE PixelPath ------------------------------
(***************************************************************************)
(* The pixels of one frame, from the decoder to the codec that writes them *)
(* again: the orientation in the EXIF blob is reported or baked into the   *)
(* pixels, the shim hands the frame to the application in a format that it *)
(* accepts, and the application gives it, or a drawing of its own, to an   *)
(* encoder.  The two loops that go over bytes in place or at computed      *)
(* offsets, baking and flattening, are one step for each pixel.            *)
(***************************************************************************)
EXTENDS Textures

CONSTANTS
  Files,      (* what a decoder returns: the sides of the image, its texture,
                 the EXIF blob and the orientation its writer meant, and
                 whether the format is svg                                   *)
  Accepts,    (* sets of formats the application accepts                     *)
  Drawings,   (* textures of the application's own                           *)
  Pads,       (* bytes the application adds to a row                         *)
  U32,        (* 2^32                                                        *)
  MaxOutput   (* MAX_OUTPUT_BYTES                                            *)

IsTexture(t) ==
  /\ t.width \in Nat \ {0} /\ t.height \in Nat \ {0} /\ t.stride \in Nat
  /\ t.format \in Formats
  /\ t.len \in Nat /\ t.data \in [0..t.len - 1 -> Byte]

RowBytes(t) == t.width * BytesPerPixel(t.format)

(* Decoders refuse a row of 2^32 bytes.  Nothing refuses a column of as many,
   and a host that lifts the limits can meet one.  No decoder makes a
   premultiplied format; that for svg undoes the premultiplication of what it
   renders. *)
ASSUME PixelAssumption ==
  /\ \A f \in Files :
       /\ f.width \in Nat /\ f.height \in Nat /\ f.svg \in BOOLEAN
       /\ IsTexture(f.texture) /\ WellFormed(f.texture)
       /\ RowBytes(f.texture) < U32
       /\ f.tag \in 1..8
       /\ f.texture.format \notin Premultiplied8
       /\ f.svg => f.texture.format = "R8G8B8A8"
  /\ \A t \in Drawings : IsTexture(t)
  /\ Accepts \subseteq SUBSET (Formats \cup {UnknownBit})
  /\ Pads \subseteq Nat
  /\ U32 \in Nat \ {0} /\ MaxOutput \in Nat

VARIABLES
  file,       (* what was decoded                                            *)
  apply,      (* apply_transformations                                       *)
  pc,
  image,      (* the Image: its sides, orientation and texture               *)
  frame,      (* the frame that the application got                          *)
  given,      (* the texture and the codec that the encoder got              *)
  at,         (* the pixel that a loop is at                                 *)
  buf         (* the bytes that a loop writes                                *)

vars == <<file, apply, pc, image, frame, given, at, buf>>
Codecs == {"jpeg", "other"}
NoTexture == [len |-> 0]
NoInput == [texture |-> NoTexture, codec |-> "other"]
Start == [x |-> 0, y |-> 0]

(* The next pixel of a texture, row by row; y is its height after the last. *)
Following(t) ==
  IF at.x + 1 < t.width THEN [at EXCEPT !.x = @ + 1] ELSE [x |-> 0, y |-> at.y + 1]

Goes(from, to) == pc = from /\ pc' = to
-----------------------------------------------------------------------------
Init ==
  /\ file \in Files
  /\ apply \in BOOLEAN
  /\ pc = "decoded"
  /\ image = [width |-> file.width, height |-> file.height,
              orientation |-> "Normal", texture |-> file.texture]
  /\ frame = NoTexture
  /\ given = NoInput
  /\ at = Start
  /\ buf = <<>>

(* apply_orientation_if_present *)

Turn == FromExif(ParseOrientation(file.exif))

NothingToTurn ==
  /\ Turn = "Normal"
  /\ Goes("decoded", "loaded")
  /\ UNCHANGED <<file, apply, image, frame, given, at, buf>>

ReportTurn ==
  /\ Turn # "Normal" /\ ~apply
  /\ Goes("decoded", "loaded")
  /\ image' = [image EXCEPT !.orientation = Turn]
  /\ UNCHANGED <<file, apply, frame, given, at, buf>>

(* The texture that transform_texture makes, with the bytes it has so far; its
   stride is cut to u32. *)
Turned ==
  LET t == image.texture
      w == IF SwapsAxes(Turn) THEN t.height ELSE t.width
      h == IF SwapsAxes(Turn) THEN t.width ELSE t.height
      row == w * BytesPerPixel(t.format)
  IN  [width |-> w, height |-> h, stride |-> row % U32, format |-> t.format,
       len |-> row * h, data |-> buf]

BeginBake ==
  /\ Turn # "Normal" /\ apply
  /\ Goes("decoded", "bake")
  /\ at' = Start
  /\ buf' = [o \in 0..Turned.len - 1 |-> 0]
  /\ UNCHANGED <<file, apply, image, frame, given>>

(* Mutant of TurnedOffset: rows as long as those of the source. *)
TurnedOffsetOfSource ==
  LET t == image.texture
      to == MappedCoord(Turn, at.x, at.y, t.width, t.height)
  IN  to.y * RowBytes(t) + to.x * BytesPerPixel(t.format)

(* Where the pixel at hand is read and where it is written. *)
SourceOffset ==
  at.y * image.texture.stride + at.x * BytesPerPixel(image.texture.format)
TurnedOffset ==
  LET t == image.texture
      to == MappedCoord(Turn, at.x, at.y, t.width, t.height)
  IN  to.y * RowBytes(Turned) + to.x * BytesPerPixel(t.format)

BakePixel ==
  LET t == image.texture
      n == BytesPerPixel(t.format)
  IN  /\ pc = "bake" /\ at.y < t.height
      /\ IF Inside(SourceOffset, n, t.len) /\ Inside(TurnedOffset, n, Turned.len)
         THEN /\ buf' = [o \in DOMAIN buf |->
                           IF TurnedOffset <= o /\ o < TurnedOffset + n
                           THEN t.data[SourceOffset + (o - TurnedOffset)] ELSE buf[o]]
              /\ at' = Following(t)
              /\ UNCHANGED pc
         ELSE pc' = "panicked" /\ UNCHANGED <<buf, at>>
      /\ UNCHANGED <<file, apply, image, frame, given>>

BakeDone ==
  /\ pc = "bake" /\ at.y = image.texture.height
  /\ IF WellFormed(Turned)
     THEN /\ pc' = "loaded"
          /\ image' = [width |-> IF SwapsAxes(Turn) THEN image.height ELSE image.width,
                       height |-> IF SwapsAxes(Turn) THEN image.width ELSE image.height,
                       orientation |-> "Normal", texture |-> Turned]
     ELSE pc' = "panicked" /\ UNCHANGED image
  /\ UNCHANGED <<file, apply, frame, given, at, buf>>
-----------------------------------------------------------------------------
(* extract_frame: only the frames of an svg are converted. *)
Deliver(accepted) ==
  /\ Goes("loaded", "delivered")
  /\ frame' = [texture  |-> MaybeConvert(image.texture, IF file.svg THEN accepted ELSE {}),
               accepted |-> accepted]
  /\ UNCHANGED <<file, apply, image, given, at, buf>>

(* The rows of a texture, each with more bytes after it but the last. *)
Spread(t, pad) ==
  LET stride == RowBytes(t) + pad
      len == (t.height - 1) * stride + RowBytes(t)
  IN  [width |-> t.width, height |-> t.height, stride |-> stride,
       format |-> t.format, len |-> len,
       data |-> [o \in 0..len - 1 |->
                   IF o % stride < RowBytes(t)
                   THEN t.data[(o \div stride) * t.stride + (o % stride)] ELSE 0]]

(* The application gives the encoder the frame, with rows of its own choice,
   or something else. *)
AddFrame(t, codec) ==
  /\ Goes("delivered", "convert")
  /\ given' = [texture |-> t, codec |-> codec]
  /\ UNCHANGED <<file, apply, image, frame, at, buf>>

AddDelivered(pad, codec) ==
  pc = "delivered" /\ AddFrame(Spread(frame.texture, pad), codec)

(* What to_rgba8 refuses before it reads a pixel, and at the first pixel. *)
Refused(t) ==
  \/ RowBytes(t) > t.stride
  \/ 4 * t.width * t.height > MaxOutput
  \/ (t.height - 1) * t.stride + RowBytes(t) > t.len
  \/ t.format \notin Narrow

Rgba(t) ==
  [o \in 0..4 * t.width * t.height - 1 |->
     LET i == o \div 4
         c == SampleRgba8(t.format, Pixel(t, i % t.width, i \div t.width))
     IN  <<c.r, c.g, c.b, c.a>>[(o % 4) + 1]]

(* to_rgba8 *)
Convert ==
  LET t == given.texture
  IN  /\ pc = "convert"
      /\ pc' = IF Refused(t) THEN "refused"
               ELSE IF ~Readable(t) THEN "panicked"
               ELSE IF given.codec = "jpeg" THEN "flatten" ELSE "written"
      /\ buf' = IF pc' \in {"flatten", "written"} THEN Rgba(t) ELSE buf
      /\ at' = Start
      /\ UNCHANGED <<file, apply, image, frame, given>>

(* A channel over an opaque white background. *)
OverWhite(c, a) == (c * a + 255 * (255 - a) + 127) \div 255

Pixels == given.texture.width * given.texture.height

(* Mutant of FlattenPixel: from the last pixel to the first. *)
FlattenPixelBackwards ==
  LET i == Pixels - 1 - at.x
      a == buf[4 * i + 3]
  IN  /\ pc = "flatten" /\ at.x < Pixels
      /\ buf' = [buf EXCEPT ![3 * i]     = OverWhite(buf[4 * i], a),
                            ![3 * i + 1] = OverWhite(buf[4 * i + 1], a),
                            ![3 * i + 2] = OverWhite(buf[4 * i + 2], a)]
      /\ at' = [at EXCEPT !.x = @ + 1]
      /\ UNCHANGED <<file, apply, pc, image, frame, given>>

(* flatten_over_white, which rewrites the buffer it reads; at.x is its i. *)
FlattenPixel ==
  LET i == at.x
      a == buf[4 * i + 3]
  IN  /\ pc = "flatten" /\ i < Pixels
      /\ buf' = [buf EXCEPT ![3 * i]     = OverWhite(buf[4 * i], a),
                            ![3 * i + 1] = OverWhite(buf[4 * i + 1], a),
                            ![3 * i + 2] = OverWhite(buf[4 * i + 2], a)]
      /\ at' = [at EXCEPT !.x = @ + 1]
      /\ UNCHANGED <<file, apply, pc, image, frame, given>>

Truncate ==
  /\ Goes("flatten", "written")
  /\ at.x = Pixels
  /\ buf' = [o \in 0..3 * Pixels - 1 |-> buf[o]]
  /\ UNCHANGED <<file, apply, image, frame, given, at>>

(* After a panic the caller's thread unwinds: there is no image. *)
Rest == pc \in {"refused", "written", "panicked"} /\ UNCHANGED vars
-----------------------------------------------------------------------------
Next ==
  \/ NothingToTurn \/ ReportTurn \/ BeginBake \/ BakePixel \/ BakeDone
  \/ \E accepted \in Accepts : Deliver(accepted)
  \/ \E codec \in Codecs :
       \/ \E pad \in Pads : AddDelivered(pad, codec)
       \/ \E t \in Drawings : AddFrame(t, codec)
  \/ Convert \/ FlattenPixel \/ Truncate
  \/ Rest

Spec == Init /\ [][Next]_vars
-----------------------------------------------------------------------------
(* What the properties compare with: EXIF 2.3 says of a tag on which side of
   the picture the first row and the first column of the pixels belong. *)
FirstRow == <<"top", "top", "bottom", "bottom", "left", "right", "right", "left">>
FirstColumn == <<"left", "right", "right", "left", "top", "top", "bottom", "bottom">>

Sideways(tag) == FirstRow[tag] \in {"left", "right"}

From(side, n, size) == IF side \in {"top", "left"} THEN n ELSE size - 1 - n

(* Where a viewer who minds the tag sees the pixel in column x and row y. *)
Seen(tag, x, y, w, h) ==
  IF Sideways(tag)
  THEN [x |-> From(FirstRow[tag], y, h), y |-> From(FirstColumn[tag], x, w)]
  ELSE [x |-> From(FirstColumn[tag], x, w), y |-> From(FirstRow[tag], y, h)]

SeenSides(tag, w, h) == IF Sideways(tag) THEN <<h, w>> ELSE <<w, h>>

(* Two textures, each with its tag, show the same picture. *)
SameView(t, tag, u, utag) ==
  /\ SeenSides(tag, t.width, t.height) = SeenSides(utag, u.width, u.height)
  /\ \A x \in 0..t.width - 1, y \in 0..t.height - 1 :
     \A ux \in 0..u.width - 1, uy \in 0..u.height - 1 :
       Seen(tag, x, y, t.width, t.height) = Seen(utag, ux, uy, u.width, u.height)
         => Pixel(t, x, y) = Pixel(u, ux, uy)

(* The channels of a pixel in memory, by the name of its format. *)
Letters(f) ==
  CASE f = "G8"                            -> <<"y">>
    [] f \in {"G8A8", "G8A8_PRE"}          -> <<"y", "a">>
    [] f = "R8G8B8"                        -> <<"r", "g", "b">>
    [] f = "B8G8R8"                        -> <<"b", "g", "r">>
    [] f \in {"R8G8B8A8", "R8G8B8A8_PRE"}  -> <<"r", "g", "b", "a">>
    [] f \in {"B8G8R8A8", "B8G8R8A8_PRE"}  -> <<"b", "g", "r", "a">>
    [] f \in {"A8R8G8B8", "A8R8G8B8_PRE"}  -> <<"a", "r", "g", "b">>
    [] f = "A8B8G8R8"                      -> <<"a", "b", "g", "r">>

(* A gray level is the weighted mean of the colour, rounded down. *)
IsLevel(v, c) ==
  LET sum == 30 * c.r + 59 * c.g + 11 * c.b
  IN  100 * v <= sum /\ sum < 100 * (v + 1)

(* The straight value c, times the alpha, is the premultiplied v, to within
   the rounding of v; v is a colour, which never exceeds its alpha. *)
IsPremultiplied(v, c, a) ==
  IF a = 0 THEN c = 0 ELSE c * a <= 255 * v /\ 255 * v < (c + 1) * a

(* The byte v for the channel l of a pixel of format f is that of the colour c. *)
Says(f, l, v, c) ==
  CASE l = "a" -> v = c.a
    [] l = "y" -> IF f \in Premultiplied8 THEN IsPremultiplied(v, c.r, c.a)
                  ELSE IsLevel(v, c)
    [] OTHER   -> IF f \in Premultiplied8 THEN IsPremultiplied(v, c[l], c.a)
                  ELSE v = c[l]

(* The pixel p of format f says that its colour is c. *)
Shows(f, p, c) ==
  \A i \in DOMAIN Letters(f) : Says(f, Letters(f)[i], p[i - 1], c)

(* Without alpha a pixel is opaque, and a gray one has no hue. *)
Plain(f, c) ==
  LET letters == {Letters(f)[i] : i \in DOMAIN Letters(f)}
  IN  /\ "a" \notin letters => c.a = 255
      /\ "y" \in letters => c.r = c.g /\ c.g = c.b

(* v is the byte next to what c with alpha a looks like on white. *)
IsOnWhite(v, c, a) ==
  LET exact == c * a + 255 * (255 - a)
  IN  255 * v <= exact + 127 /\ exact <= 255 * v + 127

Loaded == pc \notin {"decoded", "bake", "panicked"}
Delivered == pc \in {"delivered", "convert", "flatten", "refused", "written"}
-----------------------------------------------------------------------------
(* Properties. *)

(* "byte-aligned transform always produces a valid texture", says the expect
   of transform_texture.  It does not when the stride had to be cut. *)
NeverPanics == pc # "panicked"

(* That is the only panic: no offset of the bake or of a conversion leaves its
   buffer, and Texture::from_parts refuses what was turned only after every
   pixel was copied, when the axes are exchanged and a turned row has 2^32
   bytes or more.  What is loaded is a texture that from_parts takes. *)
OnlyCutRowsPanic ==
  /\ pc = "panicked" =>
       /\ apply /\ SwapsAxes(Turn)
       /\ at = [x |-> 0, y |-> image.texture.height]
       /\ RowBytes(Turned) >= U32
  /\ Loaded => WellFormed(image.texture)

(* The picture that the file's writer meant is the picture that the loaded
   image shows to a viewer who minds its orientation, whether it was baked or
   reported; so nobody turns it twice, or not at all. *)
ViewIsKept ==
  LET tag == ExifValue(image.orientation)
  IN  Loaded =>
        /\ SameView(file.texture, file.tag, image.texture, tag)
        /\ SeenSides(tag, image.width, image.height)
             = SeenSides(file.tag, file.width, file.height)

(* A frame of a vector image has a format that was asked for, when there is
   one that the shim can make, and every pixel keeps its colour as far as the
   format can tell; a frame of another image is as it was decoded. *)
DeliveredAsAsked ==
  LET t == image.texture
      u == frame.texture
      possible == {Priority[i] : i \in DOMAIN Priority} \cup {t.format}
  IN  Delivered =>
        IF file.svg
        THEN /\ frame.accepted \cap possible # {} /\ UnknownBit \notin frame.accepted
                  => u.format \in frame.accepted
             /\ u.width = t.width /\ u.height = t.height /\ WellFormed(u)
             /\ \A x \in 0..t.width - 1, y \in 0..t.height - 1 :
                  \E c \in {[r |-> p[0], g |-> p[1], b |-> p[2], a |-> p[3]] :
                             p \in {Pixel(t, x, y)}} :
                    Shows(u.format, Pixel(u, x, y), c)
        ELSE u = t

(* The colour of every pixel in the buffer that a codec gets is the colour that
   its format says, and for JPEG that colour on white: the pass that rewrites
   its own input reads nothing that it has written. *)
WrittenAsGiven ==
  LET t == given.texture
      n == IF given.codec = "jpeg" THEN 3 ELSE 4
  IN  pc = "written" =>
        /\ DOMAIN buf = 0..n * Pixels - 1
        /\ \A x \in 0..t.width - 1, y \in 0..t.height - 1 :
             LET o == n * (y * t.width + x)
                 p == Pixel(t, x, y)
             IN  IF given.codec = "jpeg"
                 THEN LET c == SampleRgba8(t.format, p)
                      IN  /\ IsOnWhite(buf[o], c.r, c.a)
                          /\ IsOnWhite(buf[o + 1], c.g, c.a)
                          /\ IsOnWhite(buf[o + 2], c.b, c.a)
                 ELSE LET c == [r |-> buf[o], g |-> buf[o + 1], b |-> buf[o + 2],
                                a |-> buf[o + 3]]
                      IN  Shows(t.format, p, c) /\ Plain(t.format, c)
=============================================================================
