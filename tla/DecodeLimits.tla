---------------------------- MODULE DecodeLimits ----------------------------
(***************************************************************************)
(* One decode inside the worker, and the orientation step after it: which  *)
(* of the Limits a decoder checks, when, and against what.  A decoder of   *)
(* one of the formats of HeaderFirst checks the header before it decodes   *)
(* any pixel; one of CheckedAfter decodes the image and then checks it;    *)
(* gif has checks of its own in its frame loop.                            *)
(*                                                                         *)
(* A file is what the format's library makes of the bytes.  The library    *)
(* may give up at any of its calls.  total_animation saturates at 2^64     *)
(* seconds, beyond the sums of the delays of 2^32 frames; and the products *)
(* of check_dimensions that leave 64 bits exceed every max_pixels.  Sides  *)
(* are small enough that a row of pixels has fewer than 2^32 bytes.        *)
(***************************************************************************)
EXTENDS Naturals, Sequences

CONSTANTS
  Files,       (* [format, width, height, animated, count, frames, color,
                  turn]: count is the number of frames the header or the
                  library tells, frames what the data holds, turn what the
                  EXIF orientation does to the sides                       *)
  LimitSets,   (* values of Limits                                         *)
  Hints,       (* sizes asked for with render_size_hint, or NoHint         *)
  U16Max       (* u16::MAX                                                 *)

HeaderFirst  == {"png", "webp", "jxl", "tiff", "svg"}
CheckedAfter == {"jpeg", "qoi", "image"}
Formats == HeaderFirst \cup CheckedAfter \cup {"gif"}

NoHint == [kind |-> "none"]
Hint(w, h) == [kind |-> "hint", width |-> w, height |-> h]

FileFrame == [width : Nat, height : Nat, delay : Nat]

File == [format : Formats, width : Nat, height : Nat, animated : BOOLEAN,
         count : Nat, frames : Seq(FileFrame), color : {"rgb", "rgba"},
         turn : {"none", "flip", "swap", "invalid"}]

Limits == [width : Nat, height : Nat, pixels : Nat, frames : Nat, duration : Nat]

(* The png library refuses a frame that leaves the canvas. *)
InsideCanvas(f) ==
  \A i \in DOMAIN f.frames : /\ f.frames[i].width <= f.width
                             /\ f.frames[i].height <= f.height

ASSUME LimitsAssumption ==
  /\ Files \subseteq File
  /\ \A f \in Files : f.format = "png" => InsideCanvas(f)
  /\ LimitSets \subseteq Limits
  /\ Hints \subseteq {NoHint} \cup [kind : {"hint"}, width : Nat, height : Nat]
  /\ U16Max \in Nat

VARIABLES
  file,     (* the file                                                    *)
  limits,   (* the call's Limits                                           *)
  hint,     (* its render_size_hint                                        *)
  apply,    (* its apply_transformations                                   *)
  pc,       (* where the decode is                                         *)
  made,     (* the frames made so far: how many, their pixels, their delays *)
  image     (* what the call returns                                       *)

input == <<file, limits, hint, apply>>
vars == <<input, pc, made, image>>

NothingMade == [frames |-> 0, pixels |-> 0, duration |-> 0]

Pending  == [kind |-> "none"]
Error(e) == [kind |-> e]
Image(w, h, turn) == [kind |-> "image", width |-> w, height |-> h, turn |-> turn]

AtLeastOne(n) == IF n = 0 THEN 1 ELSE n

(* The size that is checked and reported: of an SVG the one asked for. *)
Size ==
  IF file.format = "svg" /\ hint # NoHint
  THEN [width |-> AtLeastOne(hint.width), height |-> AtLeastOne(hint.height)]
  ELSE [width |-> file.width, height |-> file.height]

(* How many frames the loop asks for. *)
Count ==
  IF file.format \in {"png", "jxl"} \/ (file.format = "webp" /\ file.animated)
  THEN AtLeastOne(file.count)
  ELSE 1

(* Limits::check_dimensions finds nothing wrong. *)
Allowed(w, h, n) ==
  /\ w <= limits.width
  /\ h <= limits.height
  /\ n <= limits.frames
  /\ w * h * n <= limits.pixels
-----------------------------------------------------------------------------
Init ==
  /\ file \in Files
  /\ limits \in LimitSets
  /\ hint \in Hints
  /\ apply \in BOOLEAN
  /\ pc = "header"
  /\ made = NothingMade
  /\ image = Pending

Refuse(from, e) ==
  /\ pc = from
  /\ pc' = "done"
  /\ image' = Error(e)
  /\ UNCHANGED <<input, made>>

Proceed(from, to) ==
  /\ pc = from
  /\ pc' = to
  /\ UNCHANGED <<input, made, image>>

(* The library does not accept the bytes, or the decoder the colour type. *)
LibraryFails ==
  \E from \in {"header", "frame", "whole", "check"} : Refuse(from, "decoder")

(* Mutant of CheckHeader: one frame is checked in place of all. *)
CheckHeaderOneFrame ==
  /\ file.format \in HeaderFirst
  /\ IF Allowed(Size.width, Size.height, 1)
     THEN Proceed("header", "frame") ELSE Refuse("header", "limit")

CheckHeader ==
  /\ file.format \in HeaderFirst
  /\ IF Allowed(Size.width, Size.height, Count)
     THEN Proceed("header", "frame") ELSE Refuse("header", "limit")

ReadScreen == file.format = "gif" /\ Proceed("header", "frame")

ReadInfo == file.format \in CheckedAfter /\ Proceed("header", "whole")

(* A frame of w by h pixels is pushed. *)
Push(from, to, w, h, delay) ==
  /\ pc = from
  /\ pc' = to
  /\ made' = [frames |-> made.frames + 1, pixels |-> made.pixels + w * h,
              duration |-> made.duration + delay]
  /\ UNCHANGED <<input, image>>

Coming == file.frames[made.frames + 1]
HasComing == made.frames < Len(file.frames)

(* Mutant of TooLong: the frame in hand does not count. *)
TooLongBefore == made.duration > limits.duration

TooLong == made.duration + Coming.delay > limits.duration

(* A frame has its own size, and its delay counts for nothing. *)
PngFrame ==
  /\ file.format = "png" /\ made.frames < Count /\ HasComing
  /\ Push("frame", "frame", Coming.width, Coming.height, Coming.delay)

WebPFrame ==
  /\ file.format = "webp" /\ file.animated /\ made.frames < Count /\ HasComing
  /\ IF TooLong THEN Refuse("frame", "limit")
     ELSE Push("frame", "frame", Size.width, Size.height, Coming.delay)

(* The floats that the decoder makes of a pixel, and those of the texture's
   format: Texture::from_parts wants them equal. *)
JxlFloats == 4
JxlTextureFloats == IF file.color = "rgb" THEN 3 ELSE 4

JxlFrame ==
  /\ file.format = "jxl" /\ made.frames < Count /\ HasComing
  /\ IF Size.width * Size.height * JxlFloats
          # Size.width * Size.height * JxlTextureFloats
     THEN Refuse("frame", "texture")
     ELSE IF Count > 1 /\ TooLong THEN Refuse("frame", "limit")
     ELSE Push("frame", "frame", Size.width, Size.height,
               IF Count > 1 THEN Coming.delay ELSE 0)

(* A TIFF, an SVG or a WebP that is no animation. *)
StillFrame ==
  /\ \/ file.format \in {"tiff", "svg"}
     \/ file.format = "webp" /\ ~file.animated
  /\ made.frames < 1
  /\ Push("frame", "frame", Size.width, Size.height, 0)

(* Mutant of GifRefused: the frame in hand does not count. *)
GifRefusedLate ==
  \/ Coming.width * Coming.height > U16Max
  \/ made.pixels > limits.pixels
  \/ made.frames >= limits.frames
  \/ TooLong

(* Mutant of GifRefused: the last frame allowed is refused. *)
GifRefusedEarly ==
  \/ Coming.width * Coming.height > U16Max
  \/ made.pixels + Coming.width * Coming.height > limits.pixels
  \/ made.frames + 1 >= limits.frames
  \/ TooLong

(* The pixels of a frame are computed in u16. *)
GifRefused ==
  \/ Coming.width * Coming.height > U16Max
  \/ made.pixels + Coming.width * Coming.height > limits.pixels
  \/ made.frames >= limits.frames
  \/ TooLong

GifFrame ==
  /\ file.format = "gif" /\ HasComing
  /\ IF GifRefused THEN Refuse("frame", "limit")
     ELSE Push("frame", "frame", Coming.width, Coming.height, Coming.delay)

GifEmpty ==
  /\ file.format = "gif" /\ ~HasComing /\ made.frames = 0
  /\ Refuse("frame", "malformed")

DecodeWhole == Push("whole", "check", Size.width, Size.height, 0)

CheckWhole ==
  IF Allowed(Size.width, Size.height, 1)
  THEN Proceed("check", "orient") ELSE Refuse("check", "limit")

FramesDone ==
  /\ made.frames > 0
  /\ IF file.format = "gif" THEN ~HasComing ELSE made.frames = Count
  /\ Proceed("frame", "orient")

(* Mutant of Turn: a tag outside 1..8 is taken as it is. *)
TurnRaw == IF file.format \in {"png", "webp"} THEN file.turn ELSE "none"

(* Orientation::from_exif of the EXIF block of a PNG or WebP file; no other
   decoder hands one on. *)
Turn ==
  IF file.format \in {"png", "webp"} /\ file.turn # "invalid"
  THEN file.turn ELSE "none"

(* Mutant of Orient: the image is turned though nobody asked for it. *)
OrientAlways ==
  /\ pc = "orient"
  /\ pc' = "done"
  /\ image' = IF Turn = "swap" THEN Image(Size.height, Size.width, "none")
              ELSE Image(Size.width, Size.height, "none")
  /\ UNCHANGED <<input, made>>

(* apply_orientation_if_present, on the caller's thread. *)
Orient ==
  /\ pc = "orient"
  /\ pc' = "done"
  /\ image' = IF apply /\ Turn = "swap" THEN Image(Size.height, Size.width, "none")
              ELSE Image(Size.width, Size.height, IF apply THEN "none" ELSE Turn)
  /\ UNCHANGED <<input, made>>

Next ==
  \/ LibraryFails
  \/ CheckHeader \/ ReadScreen \/ ReadInfo
  \/ PngFrame \/ WebPFrame \/ JxlFrame \/ StillFrame \/ GifFrame \/ GifEmpty
  \/ DecodeWhole \/ CheckWhole
  \/ FramesDone \/ Orient

Spec == Init /\ [][Next]_vars
-----------------------------------------------------------------------------
(* Properties. *)

(* Every variable keeps its type. *)
LimitsTypeOK ==
  /\ file \in File
  /\ limits \in Limits
  /\ hint \in {NoHint} \cup [kind : {"hint"}, width : Nat, height : Nat]
  /\ apply \in BOOLEAN
  /\ pc \in {"header", "frame", "whole", "check", "orient", "done"}
  /\ made \in [frames : Nat, pixels : Nat, duration : Nat]
  /\ image \in [kind : {"none", "decoder", "limit", "texture", "malformed"}]
       \cup [kind : {"image"}, width : Nat, height : Nat, turn : {"none", "flip", "swap"}]

Returned == image.kind = "image"

(* The frames of a returned image are within max_frames and max_pixels, for
   every format and whatever its decoder checks. *)
FramesAreBounded ==
  Returned => made.frames <= limits.frames /\ made.pixels <= limits.pixels

(* A decoder that checks the header first never holds more pixels than allowed,
   not even on its way to an error; gif never keeps more. *)
PixelsInHandAreBounded ==
  file.format \notin CheckedAfter =>
    made.frames <= limits.frames /\ made.pixels <= limits.pixels

(* The animation of a returned image is as short as asked, except a png. *)
DurationIsBounded ==
  (Returned /\ file.format # "png") => made.duration <= limits.duration

(* The sides of a returned image are within the limits, except a gif; turning
   the image exchanges them after the check. *)
SidesAreBounded ==
  (Returned /\ file.format # "gif") =>
    \/ image.width <= limits.width /\ image.height <= limits.height
    \/ /\ apply /\ Turn = "swap"
       /\ image.width <= limits.height /\ image.height <= limits.width

(* "Every decode is bounded" (README): by each of the limits. *)
EveryDecodeIsBounded ==
  Returned =>
    /\ image.width <= limits.width
    /\ image.height <= limits.height
    /\ made.frames <= limits.frames
    /\ made.pixels <= limits.pixels
    /\ made.duration <= limits.duration

(* Sums(n, a)[i] is the sum of the first i of n numbers. *)
Sums(n, a) ==
  LET sum[i \in 0..n] == IF i = 0 THEN 0 ELSE sum[i - 1] + a[i]
  IN  sum

(* What the first i frames of the file have together. *)
PixelsOf(f) ==
  Sums(Len(f.frames), [i \in DOMAIN f.frames |-> f.frames[i].width * f.frames[i].height])
DurationOf(f) == Sums(Len(f.frames), [i \in DOMAIN f.frames |-> f.frames[i].delay])

(* A file exceeds none of the limits. *)
WithinLimits ==
  LET n == Len(file.frames)
  IN  /\ Allowed(Size.width, Size.height, Count)
      /\ n <= limits.frames
      /\ PixelsOf(file)[n] <= limits.pixels
      /\ DurationOf(file)[n] <= limits.duration

(* Every frame of a gif has an area that a u16 can say. *)
AreasFit ==
  file.format = "gif" =>
    \A i \in DOMAIN file.frames :
      file.frames[i].width * file.frames[i].height <= U16Max

(* A file that its library can read, with at least one frame and within all of
   the limits, gives an image; of a gif no frame may be larger than the limit
   that nobody set. *)
SoundFilesDecode ==
  (/\ pc = "done" /\ image.kind # "decoder" /\ Len(file.frames) > 0
   /\ WithinLimits /\ AreasFit)
    => Returned
=============================================================================
