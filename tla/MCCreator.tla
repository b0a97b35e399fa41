----------------------------- MODULE MCCreator -----------------------------
(***************************************************************************)
(* Three calls on one creator, from two application threads and one thread *)
(* of the pool.  A u32 has four bits.                                      *)
(***************************************************************************)
EXTENDS Creator, TLC

Rgba8 == [known |-> TRUE, bpp |-> 4]
Rgb8 == [known |-> TRUE, bpp |-> 3]
NoSuchFormat == [known |-> FALSE, bpp |-> 4]

MCFrame(w, h, s, format, len) ==
  [width |-> w, height |-> h, stride |-> s, format |-> format, len |-> len]

MCFrames ==
  {MCFrame(1, 2, 0, Rgba8, 8),         (* sound                              *)
   MCFrame(1, 2, 6, Rgba8, 10),        (* sound, with padding                *)
   MCFrame(1, 2, 6, Rgba8, 8),         (* short by its padding               *)
   MCFrame(5, 1, 0, Rgba8, 20),        (* 20 wraps to a stride of 4          *)
   MCFrame(1, 3, 0, Rgba8, 12),        (* over the output limit              *)
   MCFrame(1, 0, 4, Rgba8, 1),         (* no rows                            *)
   MCFrame(2, 1, 0, Rgb8, 6),          (* three bytes a pixel                *)
   MCFrame(1, 1, 0, NoSuchFormat, 4)}  (* unknown                            *)

MCOps ==
  {[kind |-> "frame", frame |-> f] : f \in MCFrames}
  \cup {[kind |-> "set", option |-> o, value |-> "chosen"] : o \in {"icc", "quality"}}
  \cup {[kind |-> "metadata", value |-> v] : v \in {"chosen", "missing", "not text"}}
  \cup {[kind |-> "create", async |-> a] : a \in BOOLEAN}

Symmetry == Permutations(Calls)
=============================================================================
