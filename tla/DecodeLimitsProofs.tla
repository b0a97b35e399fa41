------------------------- MODULE DecodeLimitsProofs -------------------------
(***************************************************************************)
(* Proofs about DecodeLimits, for all files, limits and sizes.  The core   *)
(* is that every frame a decoder of HeaderFirst makes is no larger than    *)
(* the canvas that was checked, so the frames made so far never have more  *)
(* pixels than the product that check_dimensions compared; and that gif    *)
(* keeps its sums below the limits frame by frame.                         *)
(***************************************************************************)
EXTENDS DecodeLimits, WellFoundedInduction, TLAPS

Area == Size.width * Size.height

(* What is known of the frames that a decoder with a header check has made. *)
CheckedPart ==
  file.format \in HeaderFirst =>
    /\ made # NothingMade \/ pc \in {"frame", "orient"} \/ Returned
         => Allowed(Size.width, Size.height, Count)
    /\ made.frames <= Count
    /\ made.pixels <= made.frames * Area
    /\ file.format # "png" => made.duration <= limits.duration

GifPart ==
  file.format = "gif" =>
    /\ made.frames <= limits.frames
    /\ made.pixels <= limits.pixels
    /\ made.duration <= limits.duration
    /\ made.frames <= Len(file.frames)

(* What is known of an image that was decoded before it was checked. *)
WholePart ==
  file.format \in CheckedAfter =>
    /\ pc # "frame"
    /\ pc \in {"check", "orient"} \/ Returned =>
         made = [frames |-> 1, pixels |-> Area, duration |-> 0]
    /\ pc = "orient" \/ Returned => Allowed(Size.width, Size.height, 1)

EndPart ==
  /\ pc # "done" => image = Pending
  /\ pc \in {"header", "whole"} => made = NothingMade
  /\ pc \in {"whole", "check"} => file.format \in CheckedAfter
  /\ pc = "orient" \/ Returned =>
       made.frames = (IF file.format = "gif" THEN Len(file.frames) ELSE Count)
  /\ Returned =>
       \/ image.width = Size.width /\ image.height = Size.height
       \/ /\ apply /\ Turn = "swap"
          /\ image.width = Size.height /\ image.height = Size.width

LInv ==
  /\ LimitsTypeOK
  /\ file.format = "png" => InsideCanvas(file)
  /\ CheckedPart
  /\ GifPart
  /\ WholePart
  /\ EndPart
-----------------------------------------------------------------------------
(* Products of naturals grow with their factors. *)
LEMMA Monotone ==
  ASSUME NEW a \in Nat, NEW b \in Nat, NEW c \in Nat, NEW d \in Nat,
         a <= c, b <= d
  PROVE  a * b <= c * d
<1>1. a * b <= c * b  BY SMT
<1>2. c * b <= c * d  BY SMT
<1>3. a * b \in Nat /\ c * b \in Nat /\ c * d \in Nat  BY SMT
<1> QED  BY <1>1, <1>2, <1>3

(* The size and the number of frames that are checked are numbers. *)
LEMMA SizeType ==
  ASSUME LimitsTypeOK
  PROVE  /\ Size = [width |-> Size.width, height |-> Size.height]
         /\ Size.width \in Nat /\ Size.height \in Nat /\ Area \in Nat
         /\ Count \in Nat /\ Count >= 1
<1>1. Size.width \in Nat /\ Size.height \in Nat
  BY DEF LimitsTypeOK, Size, File, AtLeastOne, NoHint
<1>2. Count \in Nat /\ Count >= 1
  BY DEF LimitsTypeOK, Count, File, AtLeastOne
<1> QED  BY <1>1, <1>2 DEF Area, Size

(* The initial states satisfy the invariant. *)
LEMMA InitL == Init => LInv
<1> SUFFICES ASSUME Init PROVE LInv
  OBVIOUS
<1>1. LimitsTypeOK
  BY LimitsAssumption DEF Init, LimitsTypeOK, NothingMade, Pending
<1>2. ~Returned /\ made.frames = 0 /\ made.pixels = 0 /\ made.duration = 0
  BY DEF Init, Returned, Pending, NothingMade
<1>3. 0 * Area = 0
  BY <1>1, SizeType
<1> QED
  BY <1>1, <1>2, <1>3, SizeType, LimitsAssumption
  DEF LInv, CheckedPart, GifPart, WholePart, EndPart, Init, HeaderFirst,
      CheckedAfter, LimitsTypeOK, Limits

(* What a step that leaves the input alone does not change. *)
LEMMA Frozen ==
  ASSUME UNCHANGED input
  PROVE  /\ file' = file /\ limits' = limits /\ hint' = hint /\ apply' = apply
         /\ Size' = Size /\ Area' = Area /\ Count' = Count /\ Turn' = Turn
         /\ Allowed(Size.width, Size.height, Count)'
              = Allowed(Size.width, Size.height, Count)
         /\ Allowed(Size.width, Size.height, 1)'
              = Allowed(Size.width, Size.height, 1)
<1>1. file' = file /\ limits' = limits /\ hint' = hint /\ apply' = apply
  BY DEF input
<1>2. Size' = Size
  BY <1>1 DEF Size
<1>3. Area' = Area /\ Count' = Count /\ Turn' = Turn
  BY <1>1, <1>2 DEF Area, Count, Turn
<1> QED
  BY <1>1, <1>2, <1>3 DEF Allowed

(* A refusal leaves the frames as they are. *)
LEMMA RefuseKeeps ==
  ASSUME LInv,
         NEW from \in {"header", "frame", "whole", "check"},
         NEW e \in {"decoder", "limit", "texture", "malformed"},
         Refuse(from, e)
  PROVE  LInv'
<1>1. /\ UNCHANGED input /\ made' = made /\ pc' = "done" /\ image' = Error(e)
      /\ ~Returned'
  BY DEF Refuse, Error, Returned
<1>2. LimitsTypeOK'
  BY <1>1 DEF LInv, LimitsTypeOK, input, Error
<1>3. CheckedPart'
  BY <1>1, Frozen DEF LInv, CheckedPart
<1>4. GifPart'
  BY <1>1, Frozen DEF LInv, GifPart
<1>5. WholePart' /\ EndPart'
  BY <1>1, Frozen DEF WholePart, EndPart
<1>6. (file.format = "png" => InsideCanvas(file))'
  BY <1>1, Frozen DEF LInv, InsideCanvas
<1> QED
  BY <1>2, <1>3, <1>4, <1>5, <1>6 DEF LInv

(* A step that pushes one frame of a decoder with a frame loop. *)
LEMMA PushKeeps ==
  ASSUME LInv, NEW w \in Nat, NEW h \in Nat, NEW d \in Nat,
         Push("frame", "frame", w, h, d),
         file.format \in HeaderFirst =>
           /\ made.frames < Count
           /\ w <= Size.width /\ h <= Size.height
           /\ file.format # "png" => made.duration + d <= limits.duration,
         file.format = "gif" =>
           /\ made.frames < limits.frames
           /\ made.pixels + w * h <= limits.pixels
           /\ made.duration + d <= limits.duration
           /\ HasComing
  PROVE  LInv'
<1>1. /\ UNCHANGED input /\ pc = "frame" /\ pc' = "frame" /\ image' = image
      /\ made'.frames = made.frames + 1
      /\ made'.pixels = made.pixels + w * h
      /\ made'.duration = made.duration + d
      /\ image = Pending /\ ~Returned' /\ file.format \notin CheckedAfter
      /\ made' = [frames |-> made.frames + 1, pixels |-> made.pixels + w * h,
                  duration |-> made.duration + d]
  BY DEF LInv, EndPart, WholePart, Push, Returned, Pending
<1>2. made.frames \in Nat /\ made.pixels \in Nat /\ made.duration \in Nat
  BY DEF LInv, LimitsTypeOK
<1>3. w * h \in Nat
  OBVIOUS
<1>4. LimitsTypeOK'
  <2>1. made' \in [frames : Nat, pixels : Nat, duration : Nat]
    BY <1>1, <1>2, <1>3
  <2> QED
    BY <1>1, <2>1 DEF LInv, LimitsTypeOK, input
<1>5. CheckedPart'
  <2>1. CASE file.format \notin HeaderFirst
    BY <1>1, <2>1, Frozen DEF CheckedPart
  <2>2. CASE file.format \in HeaderFirst
    <3>1. w * h <= Area
      BY <2>2, Monotone, SizeType DEF LInv, Area
    <3>2. made.pixels <= made.frames * Area
      BY <2>2 DEF LInv, CheckedPart
    <3>3. made.pixels + w * h <= (made.frames + 1) * Area
      BY <1>2, <1>3, <3>1, <3>2, SizeType, SMT DEF LInv
    <3>4. Allowed(Size.width, Size.height, Count)
      BY <1>1, <2>2 DEF LInv, CheckedPart
    <3>5. made.frames + 1 <= Count
      BY <1>2, <2>2, SizeType DEF LInv
    <3> QED
      BY <1>1, <2>2, <3>3, <3>4, <3>5, Frozen DEF CheckedPart
  <2> QED
    BY <2>1, <2>2
<1>6. GifPart'
  <2>1. /\ made.frames < limits.frames => made.frames + 1 <= limits.frames
        /\ HasComing => made.frames + 1 <= Len(file.frames)
    BY <1>2 DEF LInv, LimitsTypeOK, Limits, HasComing, File
  <2> QED
    BY <1>1, <2>1, Frozen DEF GifPart
<1>7. WholePart' /\ EndPart'
  BY <1>1, Frozen DEF WholePart, EndPart, Returned
<1>8. (file.format = "png" => InsideCanvas(file))'
  BY <1>1, Frozen DEF LInv, InsideCanvas
<1> QED
  BY <1>4, <1>5, <1>6, <1>7, <1>8 DEF LInv

(* Going on to another place without a new frame. *)
LEMMA ProceedKeeps ==
  ASSUME LInv,
         NEW from \in {"header", "frame", "check"},
         NEW to \in {"frame", "whole", "orient"},
         Proceed(from, to),
         to \in {"frame", "orient"} =>
           /\ file.format \in HeaderFirst => Allowed(Size.width, Size.height, Count)
           /\ file.format \in CheckedAfter =>
                /\ to = "orient" /\ from = "check"
                /\ Allowed(Size.width, Size.height, 1),
         to = "whole" => from = "header" /\ file.format \in CheckedAfter,
         to = "orient" =>
           made.frames = (IF file.format = "gif" THEN Len(file.frames) ELSE Count)
  PROVE  LInv'
<1>1. /\ UNCHANGED input /\ made' = made /\ pc = from /\ pc' = to
      /\ image' = image /\ image = Pending /\ ~Returned'
  BY DEF LInv, EndPart, Proceed, Returned, Pending
<1>2. LimitsTypeOK'
  BY <1>1 DEF LInv, LimitsTypeOK, input
<1>3. CheckedPart'
  BY <1>1, Frozen DEF LInv, CheckedPart, CheckedAfter, HeaderFirst
<1>4. GifPart'
  BY <1>1, Frozen DEF LInv, GifPart
<1>5. WholePart'
  BY <1>1, Frozen DEF LInv, WholePart
<1>6. EndPart'
  BY <1>1, Frozen DEF LInv, EndPart
<1>7. (file.format = "png" => InsideCanvas(file))'
  BY <1>1, Frozen DEF LInv, InsideCanvas
<1> QED
  BY <1>2, <1>3, <1>4, <1>5, <1>6, <1>7 DEF LInv
-----------------------------------------------------------------------------
(* A frame that the data holds has a size and a delay. *)
LEMMA ComingType ==
  ASSUME LimitsTypeOK, HasComing
  PROVE  Coming \in FileFrame /\ made.frames + 1 \in DOMAIN file.frames
<1>1. file.frames \in Seq(FileFrame) /\ made.frames \in Nat
  BY DEF LimitsTypeOK, File
<1>2. made.frames + 1 \in 1..Len(file.frames)
  BY <1>1 DEF HasComing
<1> QED
  BY <1>1, <1>2 DEF Coming

(* Frames of a file: a decoder with a loop makes each within the canvas and
   within the limits that it checks. *)
LEMMA FrameStep ==
  ASSUME LInv, PngFrame \/ WebPFrame \/ JxlFrame \/ StillFrame \/ GifFrame
  PROVE  LInv'
<1>1. LimitsTypeOK /\ limits \in Limits /\ made \in [frames : Nat, pixels : Nat, duration : Nat]
  BY DEF LInv, LimitsTypeOK
<1>2. CASE PngFrame
  <2>1. /\ HasComing /\ file.format = "png" /\ made.frames < Count
        /\ Push("frame", "frame", Coming.width, Coming.height, Coming.delay)
    BY <1>2 DEF PngFrame
  <2>2. Coming \in FileFrame /\ made.frames + 1 \in DOMAIN file.frames
    BY <1>1, <2>1, ComingType
  <2>3. Coming.width <= file.width /\ Coming.height <= file.height
    BY <2>1, <2>2 DEF LInv, InsideCanvas, Coming
  <2>4. Size.width = file.width /\ Size.height = file.height
    BY <2>1 DEF Size
  <2> QED
    BY <2>1, <2>2, <2>3, <2>4, PushKeeps DEF FileFrame
<1>3. CASE WebPFrame
  <2>1. /\ HasComing /\ file.format = "webp" /\ made.frames < Count
        /\ TooLong => Refuse("frame", "limit")
        /\ ~TooLong =>
             Push("frame", "frame", Size.width, Size.height, Coming.delay)
    BY <1>3 DEF WebPFrame
  <2>2. Coming \in FileFrame
    BY <1>1, <2>1, ComingType
  <2>3. CASE TooLong
    BY <2>1, <2>3, RefuseKeeps
  <2>4. CASE ~TooLong
    <3>1. made.duration + Coming.delay <= limits.duration
      BY <1>1, <2>2, <2>4 DEF TooLong, Limits, FileFrame
    <3> QED
      BY <1>1, <2>1, <2>2, <2>4, <3>1, PushKeeps, SizeType DEF FileFrame
  <2> QED
    BY <2>3, <2>4
<1>4. CASE JxlFrame
  <2> DEFINE d == IF Count > 1 THEN Coming.delay ELSE 0
  <2>1. /\ HasComing /\ file.format = "jxl" /\ made.frames < Count
        /\ \/ Refuse("frame", "texture")
           \/ Refuse("frame", "limit")
           \/ /\ ~(Count > 1 /\ TooLong)
              /\ Push("frame", "frame", Size.width, Size.height, d)
    BY <1>4 DEF JxlFrame
  <2>2. Coming \in FileFrame
    BY <1>1, <2>1, ComingType
  <2>3. CASE Refuse("frame", "texture") \/ Refuse("frame", "limit")
    BY <2>3, RefuseKeeps
  <2>4. CASE /\ ~(Count > 1 /\ TooLong)
             /\ Push("frame", "frame", Size.width, Size.height, d)
    <3>1. d \in Nat
      BY <2>2 DEF FileFrame
    <3>2. made.duration <= limits.duration
      BY <2>1 DEF LInv, CheckedPart, HeaderFirst
    <3>3. made.duration + d <= limits.duration
      BY <1>1, <2>2, <2>4, <3>2 DEF TooLong, Limits, FileFrame
    <3> HIDE DEF d
    <3> QED
      BY <1>1, <2>1, <2>4, <3>1, <3>3, PushKeeps, SizeType
  <2> QED
    BY <2>1, <2>3, <2>4
<1>5. CASE StillFrame
  <2>1. /\ file.format \in {"tiff", "svg", "webp"} /\ made.frames < 1
        /\ Push("frame", "frame", Size.width, Size.height, 0)
    BY <1>5 DEF StillFrame
  <2>2. made.frames < Count
    BY <1>1, <2>1, SizeType
  <2>3. made.duration + 0 <= limits.duration
    BY <1>1, <2>1 DEF LInv, CheckedPart, HeaderFirst
  <2> QED
    BY <1>1, <2>1, <2>2, <2>3, PushKeeps, SizeType
<1>6. CASE GifFrame
  <2>1. /\ HasComing /\ file.format = "gif"
        /\ GifRefused => Refuse("frame", "limit")
        /\ ~GifRefused =>
             Push("frame", "frame", Coming.width, Coming.height, Coming.delay)
    BY <1>6 DEF GifFrame
  <2>2. Coming \in FileFrame
    BY <1>1, <2>1, ComingType
  <2>3. CASE GifRefused
    BY <2>1, <2>3, RefuseKeeps
  <2>4. CASE ~GifRefused
    <3>1. Coming.width * Coming.height \in Nat
      BY <2>2 DEF FileFrame
    <3>2. /\ made.frames < limits.frames
          /\ made.pixels + Coming.width * Coming.height <= limits.pixels
          /\ made.duration + Coming.delay <= limits.duration
      BY <1>1, <2>2, <2>4, <3>1 DEF GifRefused, TooLong, Limits, FileFrame
    <3> QED
      BY <2>1, <2>2, <2>4, <3>2, PushKeeps DEF FileFrame, HeaderFirst
  <2> QED
    BY <2>3, <2>4
<1> QED
  BY <1>2, <1>3, <1>4, <1>5, <1>6

(* The image decoded before it is checked. *)
LEMMA WholeStep ==
  ASSUME LInv, DecodeWhole
  PROVE  LInv'
<1>1. /\ UNCHANGED input /\ pc = "whole" /\ pc' = "check" /\ image' = image
      /\ image = Pending /\ ~Returned' /\ file.format \in CheckedAfter
      /\ made = NothingMade
      /\ made' = [frames |-> made.frames + 1, pixels |-> made.pixels + Area,
                  duration |-> made.duration + 0]
  BY DEF LInv, EndPart, DecodeWhole, Push, Pending, Returned, Area
<1>2. Area \in Nat
  BY SizeType DEF LInv
<1>3. made' = [frames |-> 1, pixels |-> Area, duration |-> 0]
  BY <1>1, <1>2 DEF NothingMade
<1>4. file.format \notin HeaderFirst /\ file.format # "gif" /\ file.format # "png"
  BY <1>1 DEF HeaderFirst, CheckedAfter
<1>5. LimitsTypeOK'
  BY <1>1, <1>2, <1>3 DEF LInv, LimitsTypeOK, input
<1> QED
  BY <1>1, <1>3, <1>4, <1>5, Frozen
  DEF LInv, CheckedPart, GifPart, WholePart, EndPart

(* The end of the decode, on the caller's thread. *)
LEMMA OrientStep ==
  ASSUME LInv, Orient
  PROVE  LInv'
<1>1. UNCHANGED input /\ made' = made /\ pc = "orient" /\ pc' = "done"
  BY DEF Orient
<1>2. Turn \in {"none", "flip", "swap"}
  BY DEF LInv, LimitsTypeOK, File, Turn
<1>3. Size.width \in Nat /\ Size.height \in Nat
  BY SizeType DEF LInv
<1>4. /\ image' \in [kind : {"image"}, width : Nat, height : Nat,
                     turn : {"none", "flip", "swap"}]
      /\ \/ image'.width = Size.width /\ image'.height = Size.height
         \/ /\ apply /\ Turn = "swap"
            /\ image'.width = Size.height /\ image'.height = Size.width
  BY <1>2, <1>3 DEF Orient, Image
<1>5. LimitsTypeOK'
  BY <1>1, <1>4 DEF LInv, LimitsTypeOK, input
<1>6. CheckedPart'
  BY <1>1, Frozen DEF LInv, CheckedPart
<1>7. GifPart'
  BY <1>1, Frozen DEF LInv, GifPart
<1>8. WholePart'
  BY <1>1, Frozen DEF LInv, WholePart
<1>9. EndPart'
  BY <1>1, <1>4, Frozen DEF LInv, EndPart
<1> QED
  BY <1>1, <1>5, <1>6, <1>7, <1>8, <1>9, Frozen DEF LInv, InsideCanvas

(* Every step preserves the invariant. *)
LEMMA StepL == LInv /\ [Next]_vars => LInv'
<1> SUFFICES ASSUME LInv, [Next]_vars PROVE LInv'
  OBVIOUS
<1>1. CASE LibraryFails
  <2>1. PICK from \in {"header", "frame", "whole", "check"} :
               Refuse(from, "decoder")
    BY <1>1 DEF LibraryFails
  <2> QED
    BY <2>1, RefuseKeeps
<1>2. CASE CheckHeader
  <2>1. file.format \in HeaderFirst /\ file.format \notin CheckedAfter
    BY <1>2 DEF CheckHeader, HeaderFirst, CheckedAfter
  <2>2. CASE Refuse("header", "limit")
    BY <2>2, RefuseKeeps
  <2>3. CASE Allowed(Size.width, Size.height, Count) /\ Proceed("header", "frame")
    BY <2>1, <2>3, ProceedKeeps
  <2> QED
    BY <1>2, <2>2, <2>3 DEF CheckHeader
<1>3. CASE ReadScreen
  BY <1>3, ProceedKeeps DEF ReadScreen, HeaderFirst, CheckedAfter
<1>4. CASE ReadInfo
  BY <1>4, ProceedKeeps DEF ReadInfo
<1>5. CASE PngFrame \/ WebPFrame \/ JxlFrame \/ StillFrame \/ GifFrame
  BY <1>5, FrameStep
<1>6. CASE GifEmpty
  BY <1>6, RefuseKeeps DEF GifEmpty
<1>7. CASE DecodeWhole
  BY <1>7, WholeStep
<1>8. CASE CheckWhole
  <2>1. CASE Refuse("check", "limit")
    BY <2>1, RefuseKeeps
  <2>2. CASE Allowed(Size.width, Size.height, 1) /\ Proceed("check", "orient")
    <3>1. pc = "check" /\ file.format \in CheckedAfter
      BY <2>2 DEF LInv, EndPart, Proceed
    <3>2. made.frames = 1 /\ Count = 1
      BY <3>1 DEF LInv, WholePart, Count, CheckedAfter
    <3>3. file.format # "gif" /\ file.format \notin HeaderFirst
      BY <3>1 DEF CheckedAfter, HeaderFirst
    <3> QED
      BY <2>2, <3>1, <3>2, <3>3, ProceedKeeps
  <2> QED
    BY <1>8, <2>1, <2>2 DEF CheckWhole
<1>9. CASE FramesDone
  <2>1. pc = "frame" /\ Proceed("frame", "orient")
    BY <1>9 DEF FramesDone, Proceed
  <2>2. file.format \notin CheckedAfter
    BY <2>1 DEF LInv, WholePart
  <2>3. file.format \in HeaderFirst => Allowed(Size.width, Size.height, Count)
    BY <2>1 DEF LInv, CheckedPart
  <2>4. made.frames = (IF file.format = "gif" THEN Len(file.frames) ELSE Count)
    <3>1. CASE file.format # "gif"
      BY <1>9, <3>1 DEF FramesDone
    <3>2. CASE file.format = "gif"
      <4>1. made.frames >= Len(file.frames)
        BY <1>9, <3>2 DEF FramesDone, HasComing, LInv, LimitsTypeOK, File
      <4>2. made.frames <= Len(file.frames)
        BY <3>2 DEF LInv, GifPart
      <4> QED
        BY <3>2, <4>1, <4>2 DEF LInv, LimitsTypeOK, File
    <3> QED
      BY <3>1, <3>2
  <2> QED
    BY <2>1, <2>2, <2>3, <2>4, ProceedKeeps
<1>10. CASE Orient
  BY <1>10, OrientStep
<1>11. CASE UNCHANGED vars
  <2>1. UNCHANGED input /\ pc' = pc /\ made' = made /\ image' = image
    BY <1>11 DEF vars
  <2> QED
    BY <2>1, Frozen
    DEF LInv, LimitsTypeOK, CheckedPart, GifPart, WholePart, EndPart,
        InsideCanvas, Returned
<1> QED
  BY <1>1, <1>2, <1>3, <1>4, <1>5, <1>6, <1>7, <1>8, <1>9, <1>10, <1>11 DEF Next
-----------------------------------------------------------------------------
(* The invariant holds of every behaviour. *)
THEOREM LimitsInductive == Spec => []LInv
<1>1. Init => LInv
  BY InitL
<1>2. LInv /\ [Next]_vars => LInv'
  BY StepL
<1> QED
  BY <1>1, <1>2, PTL DEF Spec

(* Every variable keeps its type. *)
THEOREM LimitsTypeCorrect == Spec => []LimitsTypeOK
<1>1. LInv => LimitsTypeOK
  BY DEF LInv
<1> QED
  BY <1>1, LimitsInductive, PTL

(* The frames of a decoder with a header check fit in what it checked. *)
LEMMA HeaderBounds ==
  ASSUME LInv, file.format \in HeaderFirst
  PROVE  made.frames <= limits.frames /\ made.pixels <= limits.pixels
<1>1. /\ made \in [frames : Nat, pixels : Nat, duration : Nat]
      /\ limits.frames \in Nat /\ limits.pixels \in Nat
  BY DEF LInv, LimitsTypeOK, Limits
<1>2. CASE made = NothingMade
  BY <1>1, <1>2 DEF NothingMade
<1>3. CASE made # NothingMade
  <2>1. /\ Allowed(Size.width, Size.height, Count)
        /\ made.frames <= Count
        /\ made.pixels <= made.frames * Area
    BY <1>3 DEF LInv, CheckedPart
  <2>2. Count \in Nat /\ Area \in Nat
    BY SizeType DEF LInv
  <2>3. made.frames * Area <= Count * Area
    BY <1>1, <2>1, <2>2, Monotone
  <2>4. Size.width * Size.height * Count <= limits.pixels /\ Count <= limits.frames
    BY <2>1 DEF Allowed
  <2>5. Count * Area = Size.width * Size.height * Count
    BY <2>2, SizeType DEF LInv, Area
  <2>6. made.frames * Area \in Nat /\ Count * Area \in Nat
    BY <1>1, <2>2
  <2>7. made.pixels <= limits.pixels
    BY <1>1, <2>1, <2>3, <2>4, <2>5, <2>6
  <2>8. made.frames <= limits.frames
    BY <1>1, <2>1, <2>2, <2>4
  <2> QED
    BY <2>7, <2>8
<1> QED
  BY <1>2, <1>3

(* What is in hand is within the limits while it is decoded, except where the
   decoder looks at the limits last. *)
THEOREM PixelsInHandCorrect == Spec => []PixelsInHandAreBounded
<1>1. LInv => PixelsInHandAreBounded
  <2> SUFFICES ASSUME LInv, file.format \notin CheckedAfter
               PROVE  made.frames <= limits.frames /\ made.pixels <= limits.pixels
    BY DEF PixelsInHandAreBounded
  <2>1. file.format \in HeaderFirst \/ file.format = "gif"
    BY DEF LInv, LimitsTypeOK, File, Formats
  <2> QED
    BY <2>1, HeaderBounds DEF LInv, GifPart
<1> QED
  BY <1>1, LimitsInductive, PTL

(* The frames of a returned image are within max_frames and max_pixels. *)
THEOREM FramesCorrect == Spec => []FramesAreBounded
<1>1. LInv => FramesAreBounded
  <2> SUFFICES ASSUME LInv, Returned
               PROVE  made.frames <= limits.frames /\ made.pixels <= limits.pixels
    BY DEF FramesAreBounded
  <2>1. CASE file.format \in HeaderFirst
    BY <2>1, HeaderBounds
  <2>2. CASE file.format = "gif"
    BY <2>2 DEF LInv, GifPart
  <2>3. CASE file.format \in CheckedAfter
    <3>1. /\ made = [frames |-> 1, pixels |-> Area, duration |-> 0]
          /\ Allowed(Size.width, Size.height, 1)
      BY <2>3 DEF LInv, WholePart
    <3>2. Area * 1 <= limits.pixels /\ 1 <= limits.frames
      BY <3>1 DEF Allowed, Area
    <3> QED
      BY <3>1, <3>2, SizeType DEF LInv
  <2> QED
    BY <2>1, <2>2, <2>3 DEF LInv, LimitsTypeOK, File, Formats
<1> QED
  BY <1>1, LimitsInductive, PTL

(* Only a png can last longer than max_animation_duration. *)
THEOREM DurationCorrect == Spec => []DurationIsBounded
<1>1. LInv => DurationIsBounded
  <2> SUFFICES ASSUME LInv, Returned, file.format # "png"
               PROVE  made.duration <= limits.duration
    BY DEF DurationIsBounded
  <2>1. CASE file.format \in CheckedAfter
    BY <2>1 DEF LInv, WholePart, LimitsTypeOK, Limits
  <2> QED
    BY <2>1 DEF LInv, CheckedPart, GifPart, LimitsTypeOK, File, Formats
<1> QED
  BY <1>1, LimitsInductive, PTL

(* Only a gif, or an image that was turned, has sides beyond the limits. *)
THEOREM SidesCorrect == Spec => []SidesAreBounded
<1>1. LInv => SidesAreBounded
  <2> SUFFICES ASSUME LInv, Returned, file.format # "gif" PROVE SidesAreBounded
    BY DEF SidesAreBounded
  <2>1. Size.width <= limits.width /\ Size.height <= limits.height
    BY DEF LInv, CheckedPart, WholePart, LimitsTypeOK, File, Formats, Allowed
  <2> QED
    BY <2>1 DEF LInv, EndPart, SidesAreBounded
<1> QED
  BY <1>1, LimitsInductive, PTL

(* Every decode is bounded by every limit, but for the two formats that leave one
   out and the quarter turn that exchanges the sides after the check. *)
THEOREM OtherDecodesAreBounded ==
  Spec => [](\/ file.format \in {"gif", "png"}
             \/ apply /\ Turn = "swap"
             \/ EveryDecodeIsBounded)
<1>1. FramesAreBounded /\ DurationIsBounded /\ SidesAreBounded =>
        \/ file.format \in {"gif", "png"}
        \/ apply /\ Turn = "swap"
        \/ EveryDecodeIsBounded
  BY DEF FramesAreBounded, DurationIsBounded, SidesAreBounded, EveryDecodeIsBounded
<1> QED
  BY <1>1, FramesCorrect, DurationCorrect, SidesCorrect, PTL
-----------------------------------------------------------------------------
(* Sums over the frames of a file.  Each is defined by recursion on the number
   of frames, and what holds of it is shown by induction on that number. *)

(* A set of natural numbers has a least element. *)
LEMMA LeastNumber ==
  ASSUME NEW S, S \subseteq Nat, S # {}
  PROVE  \E x \in S : \A y \in S : x <= y
<1>1. IsWellFoundedOn(OpToRel(<, Nat), Nat)
  BY NatLessThanWellFounded, Zenon
<1>2. PICK x \in S : \A y \in S : <<y, x>> \notin OpToRel(<, Nat)
  BY <1>1, WFMin, Zenon
<1>3. \A y \in S : ~(y < x)
  BY <1>2, Zenon DEF OpToRel
<1> QED
  BY <1>3, SMT

(* Induction: of the numbers that are not in S there would be a least one. *)
LEMMA InductionOnSet ==
  ASSUME NEW S, 0 \in S, \A n \in Nat : n \in S => n + 1 \in S
  PROVE  Nat \subseteq S
<1> SUFFICES ASSUME ~(Nat \subseteq S) PROVE FALSE
  OBVIOUS
<1> DEFINE T == Nat \ S
<1>1. PICK x \in T : \A y \in T : x <= y
  BY LeastNumber
<1>2. x # 0 /\ x - 1 \in Nat
  BY <1>1
<1>3. x - 1 \in S
  BY <1>1, <1>2
<1>4. x \in S
  BY <1>1, <1>2, <1>3
<1> QED
  BY <1>1, <1>4

(* The equation by which Sums is defined. *)
SumsUp(g, n, a) == g = [i \in 0..n |-> IF i = 0 THEN 0 ELSE g[i - 1] + a[i]]

(* A function meets the equation up to n, since it does up to each k. *)
LEMMA SumsExist ==
  ASSUME NEW n \in Nat, NEW a \in [1..n -> Nat]
  PROVE  \E g \in [0..n -> Nat] : SumsUp(g, n, a)
<1> DEFINE Some(k) == \E g \in [0..k -> Nat] : SumsUp(g, k, a)
           S == {k \in Nat : k <= n => Some(k)}
<1>1. 0 \in S
  <2> DEFINE g == [i \in 0..0 |-> 0]
  <2>1. g \in [0..0 -> Nat] /\ SumsUp(g, 0, a)
    BY DEF SumsUp
  <2> QED
    BY <2>1
<1>2. ASSUME NEW k \in Nat, k \in S, k + 1 <= n
      PROVE  Some(k + 1)
  <2>0. Some(k)
    <3>1. k <= n
      BY <1>2, SMT
    <3> QED
      BY <1>2, <3>1
  <2>1. PICK g \in [0..k -> Nat] : SumsUp(g, k, a)
    BY <2>0
  <2> DEFINE h == [i \in 0..k + 1 |-> IF i = k + 1 THEN g[k] + a[k + 1] ELSE g[i]]
  <2>2. h \in [0..k + 1 -> Nat]
    <3>1. g[k] \in Nat /\ a[k + 1] \in Nat
      BY <1>2
    <3>2. \A i \in 0..k + 1 : i # k + 1 => g[i] \in Nat
      OBVIOUS
    <3> QED
      BY <3>1, <3>2
  <2>3. ASSUME NEW i \in 0..k + 1
        PROVE  h[i] = IF i = 0 THEN 0 ELSE h[i - 1] + a[i]
    <3>1. CASE i = k + 1
      <4>1. i - 1 = k /\ i # 0 /\ k \in 0..k + 1 /\ k # k + 1
        BY <3>1
      <4> QED
        BY <3>1, <4>1
    <3>2. CASE i # k + 1
      <4>1. i \in 0..k
        BY <3>2
      <4>2. h[i] = g[i]
        BY <3>2
      <4>3. g[i] = IF i = 0 THEN 0 ELSE g[i - 1] + a[i]
        BY <2>1, <4>1 DEF SumsUp
      <4>4. i # 0 => i - 1 \in 0..k + 1 /\ i - 1 # k + 1
        BY <4>1
      <4> QED
        BY <4>2, <4>3, <4>4
    <3> QED
      BY <3>1, <3>2
  <2>4. SumsUp(h, k + 1, a)
    BY <2>3 DEF SumsUp
  <2> QED
    BY <2>2, <2>4
<1>3. ASSUME NEW k \in Nat, k \in S
      PROVE  k + 1 \in S
  <2>1. k + 1 <= n => Some(k + 1)
    BY <1>2, <1>3
  <2> QED
    BY <2>1
<1> HIDE DEF S
<1>4. Nat \subseteq S
  BY <1>1, <1>3, InductionOnSet
<1> QED
  BY <1>4 DEF S

(* So the one that Sums chooses meets it. *)
LEMMA SumsDefined ==
  ASSUME NEW n \in Nat, NEW a \in [1..n -> Nat]
  PROVE  SumsUp(Sums(n, a), n, a)
<1>1. \E g : SumsUp(g, n, a)
  BY SumsExist
<1> QED
  BY <1>1 DEF Sums, SumsUp

(* The sums are numbers, and none is less than an earlier one. *)
LEMMA SumsGrow ==
  ASSUME NEW n \in Nat, NEW a \in [1..n -> Nat]
  PROVE  LET s == Sums(n, a)
         IN  /\ s[0] = 0
             /\ \A i \in 0..n - 1 : s[i + 1] = s[i] + a[i + 1]
             /\ \A i \in 0..n : s[i] \in Nat /\ s[i] <= s[n]
<1> DEFINE s == Sums(n, a)
<1>1. s = [i \in 0..n |-> IF i = 0 THEN 0 ELSE s[i - 1] + a[i]]
  BY SumsDefined DEF SumsUp
<1> HIDE DEF s
<1>2. s[0] = 0
  <2>1. 0 \in 0..n
    OBVIOUS
  <2> QED
    BY <1>1, <2>1
<1>3. ASSUME NEW i \in 0..n - 1
      PROVE  s[i + 1] = s[i] + a[i + 1] /\ a[i + 1] \in Nat
  <2>1. i + 1 \in 1..n /\ i + 1 \in 0..n /\ i + 1 # 0 /\ (i + 1) - 1 = i
    OBVIOUS
  <2>2. s[i + 1] = s[(i + 1) - 1] + a[i + 1]
    BY <1>1, <2>1, Zenon
  <2> QED
    BY <2>1, <2>2
<1> DEFINE Numbers == {i \in Nat : i <= n => s[i] \in Nat}
<1>4. \A i \in 0..n : s[i] \in Nat
  <2>1. 0 \in Numbers
    BY <1>2
  <2>2. ASSUME NEW i \in Nat, i \in Numbers
        PROVE  i + 1 \in Numbers
    <3>1. i + 1 <= n => s[i + 1] \in Nat
      BY <1>3, <2>2
    <3> QED
      BY <3>1
  <2> HIDE DEF Numbers
  <2>3. Nat \subseteq Numbers
    BY <2>1, <2>2, InductionOnSet
  <2> QED
    BY <2>3 DEF Numbers
<1> DEFINE Below == {i \in Nat : i <= n => s[n - i] <= s[n]}
<1>5. \A i \in 0..n : s[i] <= s[n]
  <2>1. 0 \in Below
    BY <1>4
  <2>2. ASSUME NEW i \in Nat, i \in Below
        PROVE  i + 1 \in Below
    <3> SUFFICES ASSUME i + 1 <= n PROVE s[n - (i + 1)] <= s[n]
      OBVIOUS
    <3> DEFINE j == n - (i + 1)
    <3>1. j \in 0..n - 1 /\ j + 1 = n - i /\ j \in 0..n /\ j + 1 \in 0..n
      OBVIOUS
    <3>2. s[j + 1] <= s[n]
      BY <2>2, <3>1
    <3> HIDE DEF j
    <3>3. s[j + 1] = s[j] + a[j + 1] /\ a[j + 1] \in Nat /\ s[j] \in Nat /\ s[n] \in Nat
      BY <1>3, <1>4, <3>1
    <3>4. s[j] <= s[n]
      BY <3>2, <3>3
    <3> QED
      BY <3>4 DEF j
  <2> HIDE DEF Below
  <2>3. Nat \subseteq Below
    BY <2>1, <2>2, InductionOnSet
  <2>4. ASSUME NEW i \in 0..n
        PROVE  s[i] <= s[n]
    <3>1. n - i \in Nat /\ n - i <= n /\ n - (n - i) = i
      OBVIOUS
    <3> QED
      BY <2>3, <3>1 DEF Below
  <2> QED
    BY <2>4
<1> QED
  BY <1>2, <1>3, <1>4, <1>5 DEF s

-----------------------------------------------------------------------------
(* Files that their decoder can return. *)

(* What the JPEG XL decoder asks of a file beyond its being within the limits: an
   alpha channel. *)
DecodersTake == \A f \in Files : f.format = "jxl" => f.color = "rgba"

(* The decoder goes over the frames that the data holds, and minds their delays. *)
GoesOverFrames ==
  file.format \in {"gif", "jxl"} \/ (file.format = "webp" /\ file.animated)

(* What has been made is no more than the first frames of the file hold. *)
HandPart ==
  GoesOverFrames =>
    /\ made.frames <= Len(file.frames)
    /\ made.duration <= DurationOf(file)[made.frames]
    /\ file.format = "gif" => made.pixels = PixelsOf(file)[made.frames]

(* There are frames, and they exceed no limit, also not that of a u16. *)
Sound == Len(file.frames) > 0 /\ WithinLimits /\ AreasFit

(* A decode ends with a result, and a refusal has a cause in the file. *)
RefusalPart ==
  pc = "done" =>
    /\ image.kind # "none"
    /\ image.kind \in {"limit", "texture", "malformed"} => ~Sound

SoundInv == file \in Files /\ HandPart /\ RefusalPart
(* The sums over the frames of a file. *)
LEMMA FrameSums ==
  ASSUME NEW f \in File
  PROVE  LET n == Len(f.frames)
             p == PixelsOf(f)
             d == DurationOf(f)
         IN  /\ n \in Nat /\ DOMAIN f.frames = 1..n
             /\ p[0] = 0 /\ d[0] = 0
             /\ \A i \in 0..n - 1 :
                  /\ p[i + 1] = p[i] + f.frames[i + 1].width * f.frames[i + 1].height
                  /\ d[i + 1] = d[i] + f.frames[i + 1].delay
             /\ \A i \in 0..n : /\ p[i] \in Nat /\ p[i] <= p[n]
                               /\ d[i] \in Nat /\ d[i] <= d[n]
<1> DEFINE s == f.frames
           n == Len(s)
           area == [i \in 1..n |-> s[i].width * s[i].height]
           delay == [i \in 1..n |-> s[i].delay]
<1>1. s \in Seq(FileFrame)
  BY DEF File
<1>2. n \in Nat /\ DOMAIN s = 1..n /\ \A i \in 1..n : s[i] \in FileFrame
  BY <1>1
<1>3. area \in [1..n -> Nat] /\ delay \in [1..n -> Nat]
  <2>1. \A i \in 1..n : s[i].width * s[i].height \in Nat /\ s[i].delay \in Nat
    BY <1>2 DEF FileFrame
  <2> QED
    BY <2>1
<1>4. PixelsOf(f) = Sums(n, area) /\ DurationOf(f) = Sums(n, delay)
  BY <1>2 DEF PixelsOf, DurationOf
<1>5. \A i \in 0..n - 1 : area[i + 1] = s[i + 1].width * s[i + 1].height
                         /\ delay[i + 1] = s[i + 1].delay
  <2>1. \A i \in 0..n - 1 : i + 1 \in 1..n
    BY <1>2
  <2> QED
    BY <2>1
<1> HIDE DEF area, delay
<1> QED
  BY <1>2, <1>3, <1>4, <1>5, SumsGrow

(* The frame in hand and those before it are some of the file's. *)
LEMMA HandSums ==
  ASSUME LInv, SoundInv, GoesOverFrames, HasComing
  PROVE  LET n == made.frames
         IN  /\ Coming \in FileFrame /\ n + 1 <= Len(file.frames) /\ n + 1 \in DOMAIN file.frames
             /\ made.duration + Coming.delay <= DurationOf(file)[n + 1]
             /\ made.duration <= DurationOf(file)[n + 1]
             /\ DurationOf(file)[n + 1] \in Nat /\ PixelsOf(file)[n + 1] \in Nat
             /\ DurationOf(file)[n + 1] <= DurationOf(file)[Len(file.frames)]
             /\ PixelsOf(file)[n + 1] <= PixelsOf(file)[Len(file.frames)]
             /\ DurationOf(file)[Len(file.frames)] \in Nat
             /\ PixelsOf(file)[Len(file.frames)] \in Nat
             /\ file.format = "gif" =>
                  made.pixels + Coming.width * Coming.height = PixelsOf(file)[n + 1]
<1> DEFINE n == made.frames
           m == Len(file.frames)
           d == DurationOf(file)
           p == PixelsOf(file)
<1>1. /\ file \in File /\ n \in Nat /\ m \in Nat /\ n < m /\ made.duration \in Nat
      /\ Coming \in FileFrame /\ n + 1 \in DOMAIN file.frames
  BY ComingType DEF LInv, LimitsTypeOK, HasComing, File
<1>2. /\ \A i \in 0..m - 1 :
           /\ p[i + 1] = p[i] + file.frames[i + 1].width * file.frames[i + 1].height
           /\ d[i + 1] = d[i] + file.frames[i + 1].delay
      /\ \A i \in 0..m : p[i] \in Nat /\ p[i] <= p[m] /\ d[i] \in Nat /\ d[i] <= d[m]
  BY <1>1, FrameSums
<1>3. /\ made.duration <= d[n]
      /\ file.format = "gif" => made.pixels = p[n]
  BY DEF SoundInv, HandPart
<1>4. Coming.delay \in Nat /\ Coming = file.frames[n + 1]
  BY <1>1 DEF FileFrame, Coming
<1> HIDE DEF n, m, d, p
<1>5. n \in 0..m - 1 /\ n + 1 \in 0..m /\ n \in 0..m /\ m \in 0..m
  BY <1>1
<1>6. /\ p[n + 1] = p[n] + Coming.width * Coming.height
      /\ d[n + 1] = d[n] + Coming.delay
      /\ d[n] \in Nat /\ d[n + 1] \in Nat /\ p[n + 1] \in Nat
      /\ d[n + 1] <= d[m] /\ p[n + 1] <= p[m] /\ d[m] \in Nat /\ p[m] \in Nat
  BY <1>2, <1>4, <1>5
<1>7. made.duration + Coming.delay <= d[n + 1] /\ made.duration <= d[n + 1]
  BY <1>1, <1>3, <1>4, <1>6
<1>8. file.format = "gif" => made.pixels + Coming.width * Coming.height = p[n + 1]
  BY <1>3, <1>6
<1> QED
  BY <1>1, <1>5, <1>6, <1>7, <1>8 DEF n, m, d, p

(* A file within the limits has no frame that lasts too long. *)
LEMMA NeverTooLong ==
  ASSUME LInv, SoundInv, GoesOverFrames, HasComing, TooLong
  PROVE  ~Sound
<1> DEFINE d == DurationOf(file)[made.frames + 1]
           all == DurationOf(file)[Len(file.frames)]
<1>1. /\ made.duration + Coming.delay <= d /\ d <= all /\ d \in Nat /\ all \in Nat
      /\ Coming.delay \in Nat
  BY HandSums DEF FileFrame
<1>2. made.duration + Coming.delay > limits.duration /\ limits.duration \in Nat
      /\ made.duration \in Nat
  BY DEF TooLong, LInv, LimitsTypeOK, Limits
<1> HIDE DEF d, all
<1>3. ~(all <= limits.duration)
  BY <1>1, <1>2
<1> QED
  BY <1>3 DEF Sound, WithinLimits, all

(* Nor has a gif within the limits a frame that is refused. *)
LEMMA GifNeverRefused ==
  ASSUME LInv, SoundInv, file.format = "gif", HasComing, GifRefused
  PROVE  ~Sound
<1>1. GoesOverFrames
  BY DEF GoesOverFrames
<1>2. CASE TooLong
  BY <1>1, <1>2, NeverTooLong
<1>3. CASE Coming.width * Coming.height > U16Max
  <2>1. /\ made.frames + 1 \in DOMAIN file.frames /\ Coming = file.frames[made.frames + 1]
        /\ Coming.width * Coming.height \in Nat
    <3>1. Coming \in FileFrame /\ made.frames + 1 \in DOMAIN file.frames
      BY <1>1, HandSums
    <3> QED
      BY <3>1 DEF Coming, FileFrame
  <2>2. ~(Coming.width * Coming.height <= U16Max)
    BY <1>3, <2>1, LimitsAssumption
  <2> QED
    BY <2>1, <2>2 DEF Sound, AreasFit
<1>4. CASE made.pixels + Coming.width * Coming.height > limits.pixels
  <2> DEFINE p == PixelsOf(file)[made.frames + 1]
             all == PixelsOf(file)[Len(file.frames)]
  <2>1. made.pixels + Coming.width * Coming.height = p /\ p \in Nat /\ all \in Nat /\ p <= all
    BY <1>1, HandSums
  <2>2. limits.pixels \in Nat
    BY DEF LInv, LimitsTypeOK, Limits
  <2> HIDE DEF p, all
  <2>3. ~(all <= limits.pixels)
    BY <1>4, <2>1, <2>2
  <2> QED
    BY <2>3 DEF Sound, WithinLimits, all
<1>5. CASE made.frames >= limits.frames
  <2>1. made.frames < Len(file.frames) /\ Len(file.frames) \in Nat
        /\ made.frames \in Nat /\ limits.frames \in Nat
    BY DEF HasComing, LInv, LimitsTypeOK, Limits, File
  <2>2. ~(Len(file.frames) <= limits.frames)
    BY <1>5, <2>1
  <2> QED
    BY <2>2 DEF Sound, WithinLimits
<1> QED
  BY <1>2, <1>3, <1>4, <1>5 DEF GifRefused

(* A step that leaves the input alone changes no sum. *)
LEMMA FrozenSums ==
  ASSUME UNCHANGED input
  PROVE  /\ UNCHANGED <<file, PixelsOf(file), DurationOf(file)>>
         /\ Sound' = Sound /\ GoesOverFrames' = GoesOverFrames
<1>1. file' = file /\ limits' = limits /\ Allowed(Size.width, Size.height, Count)'
                                       = Allowed(Size.width, Size.height, Count)
  BY Frozen
<1> QED
  BY <1>1 DEF Sound, WithinLimits, AreasFit, GoesOverFrames

(* A refusal keeps the invariant when there was a reason for it, and so does a step
   that makes nothing. *)
LEMMA RefuseSound ==
  ASSUME SoundInv, NEW from, NEW e, Refuse(from, e),
         e = "decoder" \/ (e # "none" /\ ~Sound)
  PROVE  SoundInv'
<1>1. UNCHANGED input /\ made' = made /\ image' = Error(e)
  BY DEF Refuse
<1>2. HandPart'
  BY <1>1, FrozenSums DEF SoundInv, HandPart
<1>3. RefusalPart'
  BY <1>1, FrozenSums DEF RefusalPart, Error
<1> QED
  BY <1>1, <1>2, <1>3, FrozenSums DEF SoundInv

LEMMA ProceedSound ==
  ASSUME SoundInv, NEW from, NEW to, Proceed(from, to), to # "done"
  PROVE  SoundInv'
<1>1. UNCHANGED input /\ made' = made /\ pc' # "done"
  BY DEF Proceed
<1>2. HandPart'
  BY <1>1, FrozenSums DEF SoundInv, HandPart
<1> QED
  BY <1>1, <1>2, FrozenSums DEF SoundInv, RefusalPart

(* A frame of the file is added to those in hand. *)
LEMMA PushSound ==
  ASSUME LInv, SoundInv, NEW w \in Nat, NEW h \in Nat, NEW d \in Nat,
         Push("frame", "frame", w, h, d),
         GoesOverFrames =>
           /\ HasComing /\ d \in {0, Coming.delay}
           /\ file.format = "gif" => w = Coming.width /\ h = Coming.height
  PROVE  SoundInv'
<1>1. /\ UNCHANGED input /\ pc' # "done" /\ made'.frames = made.frames + 1
      /\ made'.pixels = made.pixels + w * h /\ made'.duration = made.duration + d
  BY DEF Push
<1>2. HandPart'
  <2> SUFFICES ASSUME GoesOverFrames
               PROVE  /\ made'.frames <= Len(file.frames)
                      /\ made'.duration <= DurationOf(file)[made'.frames]
                      /\ file.format = "gif" => made'.pixels = PixelsOf(file)[made'.frames]
    BY <1>1, FrozenSums DEF HandPart
  <2>1. /\ made.frames + 1 <= Len(file.frames)
        /\ made.duration + Coming.delay <= DurationOf(file)[made.frames + 1]
        /\ made.duration <= DurationOf(file)[made.frames + 1]
        /\ file.format = "gif" =>
             made.pixels + Coming.width * Coming.height = PixelsOf(file)[made.frames + 1]
    BY HandSums
  <2>2. made.duration + d <= DurationOf(file)[made.frames + 1]
    <3>1. CASE d = Coming.delay
      BY <2>1, <3>1
    <3>2. CASE d = 0
      <4>1. made.duration + 0 = made.duration
        BY DEF LInv, LimitsTypeOK
      <4> QED
        BY <2>1, <3>2, <4>1
    <3> QED
      BY <3>1, <3>2
  <2> QED
    BY <1>1, <2>1, <2>2
<1> QED
  BY <1>1, <1>2, FrozenSums DEF SoundInv, RefusalPart
LEMMA InitSound == Init => SoundInv
<1> SUFFICES ASSUME Init PROVE SoundInv
  OBVIOUS
<1>1. file \in Files /\ file \in File /\ pc = "header"
  BY LimitsAssumption DEF Init
<1>2. made.frames = 0 /\ made.pixels = 0 /\ made.duration = 0
  BY DEF Init, NothingMade
<1>3. /\ PixelsOf(file)[0] = 0 /\ DurationOf(file)[0] = 0 /\ Len(file.frames) \in Nat
  BY <1>1, FrameSums
<1>4. 0 <= Len(file.frames)
  BY <1>3
<1> QED
  BY <1>1, <1>2, <1>3, <1>4 DEF SoundInv, HandPart, RefusalPart

(* A decoder with a frame loop adds a frame of the file, or finds one that lasts
   too long or is too large. *)
LEMMA FrameSound ==
  ASSUME LInv, SoundInv, DecodersTake,
         PngFrame \/ WebPFrame \/ JxlFrame \/ StillFrame \/ GifFrame
  PROVE  SoundInv'
<1>1. LimitsTypeOK /\ Size.width \in Nat /\ Size.height \in Nat
      /\ made.frames \in Nat /\ made.duration \in Nat
  BY SizeType DEF LInv, LimitsTypeOK
<1>2. CASE PngFrame
  <2>1. /\ Push("frame", "frame", Coming.width, Coming.height, Coming.delay)
        /\ HasComing /\ ~GoesOverFrames
    BY <1>2 DEF PngFrame, GoesOverFrames
  <2>2. Coming.width \in Nat /\ Coming.height \in Nat /\ Coming.delay \in Nat
    BY <1>1, <2>1, ComingType DEF FileFrame
  <2> QED
    BY <2>1, <2>2, PushSound
<1>3. CASE WebPFrame
  <2>1. HasComing /\ GoesOverFrames /\ file.format = "webp"
    BY <1>3 DEF WebPFrame, GoesOverFrames
  <2>2. CASE TooLong
    <3>1. Refuse("frame", "limit") /\ ~Sound
      BY <1>3, <2>1, <2>2, NeverTooLong DEF WebPFrame
    <3> QED
      BY <3>1, RefuseSound
  <2>3. CASE ~TooLong
    <3>1. Push("frame", "frame", Size.width, Size.height, Coming.delay) /\ Coming.delay \in Nat
      BY <1>1, <1>3, <2>1, <2>3, ComingType DEF WebPFrame, FileFrame
    <3> QED
      BY <1>1, <2>1, <3>1, PushSound
  <2> QED
    BY <2>2, <2>3
<1>4. CASE JxlFrame
  <2>1. HasComing /\ GoesOverFrames /\ file.format = "jxl" /\ Coming.delay \in Nat
    <3>1. HasComing /\ file.format = "jxl"
      BY <1>4 DEF JxlFrame
    <3> QED
      BY <1>1, <3>1, ComingType DEF GoesOverFrames, FileFrame
  <2>2. JxlFloats = JxlTextureFloats
    BY <2>1 DEF SoundInv, DecodersTake, JxlFloats, JxlTextureFloats
  <2>3. CASE Count > 1 /\ TooLong
    <3>1. Refuse("frame", "limit") /\ ~Sound
      BY <1>4, <2>1, <2>2, <2>3, NeverTooLong DEF JxlFrame
    <3> QED
      BY <3>1, RefuseSound
  <2>4. CASE ~(Count > 1 /\ TooLong)
    <3> DEFINE d == IF Count > 1 THEN Coming.delay ELSE 0
    <3>1. Push("frame", "frame", Size.width, Size.height, d)
      BY <1>4, <2>2, <2>4 DEF JxlFrame
    <3>2. d \in Nat /\ d \in {0, Coming.delay}
      BY <2>1
    <3> HIDE DEF d
    <3> QED
      BY <1>1, <2>1, <3>1, <3>2, PushSound
  <2> QED
    BY <2>3, <2>4
<1>5. CASE StillFrame
  <2>1. /\ Push("frame", "frame", Size.width, Size.height, 0) /\ ~GoesOverFrames
    BY <1>5 DEF StillFrame, GoesOverFrames
  <2> QED
    BY <1>1, <2>1, PushSound
<1>6. CASE GifFrame
  <2>1. HasComing /\ GoesOverFrames /\ file.format = "gif"
    BY <1>6 DEF GifFrame, GoesOverFrames
  <2>2. CASE GifRefused
    <3>1. Refuse("frame", "limit") /\ ~Sound
      BY <1>6, <2>1, <2>2, GifNeverRefused DEF GifFrame
    <3> QED
      BY <3>1, RefuseSound
  <2>3. CASE ~GifRefused
    <3>1. Push("frame", "frame", Coming.width, Coming.height, Coming.delay)
      BY <1>6, <2>3 DEF GifFrame
    <3>2. Coming.width \in Nat /\ Coming.height \in Nat /\ Coming.delay \in Nat
      BY <1>1, <2>1, ComingType DEF FileFrame
    <3> QED
      BY <2>1, <3>1, <3>2, PushSound
  <2> QED
    BY <2>2, <2>3
<1> QED
  BY <1>2, <1>3, <1>4, <1>5, <1>6

(* Every refusal by the library itself apart, only a file that exceeds a limit or
   has no frame is refused. *)
LEMMA StepSound ==
  ASSUME LInv, SoundInv, DecodersTake, [Next]_vars
  PROVE  SoundInv'
<1>1. CASE LibraryFails
  BY <1>1, RefuseSound DEF LibraryFails
<1>2. CASE CheckHeader
  <2>1. CASE Allowed(Size.width, Size.height, Count)
    BY <1>2, <2>1, ProceedSound DEF CheckHeader
  <2>2. CASE ~Allowed(Size.width, Size.height, Count)
    <3>1. Refuse("header", "limit") /\ ~Sound
      BY <1>2, <2>2 DEF CheckHeader, Sound, WithinLimits
    <3> QED
      BY <3>1, RefuseSound
  <2> QED
    BY <2>1, <2>2
<1>3. CASE ReadScreen \/ ReadInfo \/ FramesDone
  BY <1>3, ProceedSound DEF ReadScreen, ReadInfo, FramesDone
<1>4. CASE PngFrame \/ WebPFrame \/ JxlFrame \/ StillFrame \/ GifFrame
  BY <1>4, FrameSound
<1>5. CASE GifEmpty
  <2>1. Refuse("frame", "malformed") /\ ~HasComing /\ made.frames = 0
    BY <1>5 DEF GifEmpty
  <2>2. ~(Len(file.frames) > 0)
    BY <2>1 DEF HasComing, LInv, LimitsTypeOK, File
  <2> QED
    BY <2>1, <2>2, RefuseSound DEF Sound
<1>6. CASE DecodeWhole
  <2>1. /\ pc' = "check" /\ UNCHANGED input /\ file.format \in CheckedAfter
    BY <1>6 DEF DecodeWhole, Push, LInv, EndPart
  <2>2. ~GoesOverFrames
    BY <2>1 DEF GoesOverFrames, CheckedAfter
  <2> QED
    BY <2>1, <2>2, FrozenSums DEF SoundInv, HandPart, RefusalPart
<1>7. CASE CheckWhole
  <2>1. CASE Allowed(Size.width, Size.height, 1)
    BY <1>7, <2>1, ProceedSound DEF CheckWhole
  <2>2. CASE ~Allowed(Size.width, Size.height, 1)
    <3>1. Refuse("check", "limit") /\ pc = "check"
      BY <1>7, <2>2 DEF CheckWhole, Refuse
    <3>2. Count = 1
      BY <3>1 DEF LInv, EndPart, Count, CheckedAfter
    <3>3. ~Sound
      BY <2>2, <3>2 DEF Sound, WithinLimits
    <3> QED
      BY <3>1, <3>3, RefuseSound
  <2> QED
    BY <2>1, <2>2
<1>8. CASE Orient
  <2>1. UNCHANGED input /\ made' = made /\ image'.kind = "image"
    BY <1>8 DEF Orient, Image
  <2> QED
    BY <2>1, FrozenSums DEF SoundInv, HandPart, RefusalPart
<1>9. CASE UNCHANGED vars
  <2>1. UNCHANGED input /\ made' = made /\ image' = image /\ pc' = pc
    BY <1>9 DEF vars
  <2> QED
    BY <2>1, FrozenSums DEF SoundInv, HandPart, RefusalPart
<1> QED
  BY <1>1, <1>2, <1>3, <1>4, <1>5, <1>6, <1>7, <1>8, <1>9 DEF Next

(* A file within all the limits is never refused for exceeding one, nor for its
   texture or its lack of frames: its sums never pass what they are in the end. *)
THEOREM SoundFilesCorrect ==
  ASSUME DecodersTake
  PROVE  Spec => []SoundFilesDecode
<1>1. Init => SoundInv
  BY InitSound
<1>2. LInv /\ SoundInv /\ [Next]_vars => SoundInv'
  BY DecodersTake, StepSound
<1>3. LInv /\ SoundInv => SoundFilesDecode
  <2> SUFFICES ASSUME LInv, SoundInv, pc = "done", image.kind # "decoder", Sound
               PROVE  Returned
    BY DEF SoundFilesDecode, Sound
  <2>1. image.kind \in {"none", "decoder", "limit", "texture", "malformed", "image"}
    BY DEF LInv, LimitsTypeOK
  <2>2. image.kind # "none"
    BY DEF SoundInv, RefusalPart
  <2> QED
    BY <2>1, <2>2 DEF SoundInv, RefusalPart, Returned
<1> QED
  BY <1>1, <1>2, <1>3, LimitsInductive, PTL DEF Spec
=============================================================================
