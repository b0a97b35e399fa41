--------------------------- MODULE MCDecodeLimits ---------------------------
(***************************************************************************)
(* DecodeLimits on files of at most two frames of at most 2 x 2 pixels,    *)
(* with only the fields varied that the file's format gives a meaning.     *)
(***************************************************************************)
EXTENDS DecodeLimits

Sides == 1..2

MCFrame(w, h, d) == [width |-> w, height |-> h, delay |-> d]

MCFrames == {MCFrame(w, h, d) : w, h \in Sides, d \in {0, 2}}

UpTo2(S) == {<< >>} \cup {<<a>> : a \in S} \cup {<<a, b>> : a, b \in S}

(* Frames that only have a delay, for a format that gives each the canvas. *)
Delays == UpTo2({MCFrame(1, 1, d) : d \in {0, 2}})

Still(format, w, h) ==
  [format |-> format, width |-> w, height |-> h, animated |-> FALSE, count |-> 0,
   frames |-> <<MCFrame(w, h, 0)>>, color |-> "rgba", turn |-> "none"]

Animated(format, w, h, n, s) ==
  [Still(format, w, h) EXCEPT !.animated = TRUE, !.count = n, !.frames = s]

Stills ==
  {Still(f, w, h) : f \in {"tiff", "svg", "jpeg", "qoi", "image", "webp"},
                    w, h \in Sides}

Pngs ==
  {f \in {[Animated("png", w, h, n, s) EXCEPT !.turn = t] :
            w, h \in Sides, n \in 0..2, t \in {"none", "swap"}, s \in UpTo2(MCFrames)} :
     InsideCanvas(f)}

WebPs == {[Animated("webp", w, h, n, s) EXCEPT !.turn = t] :
            w, h \in Sides, n \in 0..2, t \in {"none", "flip", "swap", "invalid"}, s \in Delays}

Gifs == {Animated("gif", w, 1, 0, s) : w \in Sides, s \in UpTo2(MCFrames)}

Jxls(color) == {[Animated("jxl", w, h, Len(s), s) EXCEPT !.color = color] :
                  w, h \in Sides, s \in Delays}

(* Every format, jxl with an alpha channel. *)
MCFiles == Stills \cup Pngs \cup WebPs \cup Gifs \cup Jxls("rgba")

(* Every gif, and animations that are longer or turned; of these only what has
   two frames, so that a gif is the first to leave the limits. *)
MCEscaping ==
  Gifs \cup {f \in Pngs \cup WebPs : f.count = 2 /\ Len(f.frames) = 2}

MCRgbJxl == Jxls("rgb")

MCLimits ==
  {[width |-> w, height |-> 2, pixels |-> p, frames |-> n, duration |-> d] :
     w \in Sides, p \in {3, 8}, n \in 1..2, d \in {2, 4}}

MCHints == {NoHint, Hint(0, 2)}
=============================================================================
