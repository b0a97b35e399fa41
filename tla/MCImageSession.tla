--------------------------- MODULE MCImageSession ---------------------------
(***************************************************************************)
(* ImageSession on small instances: an animation of two frames that three  *)
(* calls share, and a vector image that two loads race for.                *)
(***************************************************************************)
EXTENDS ImageSession, TLC

MCMode(async, asks) == [async |-> async, request |-> asks]

(* gly_image_next_frame and gly_image_get_specific_frame_async. *)
MCModes == {MCMode(FALSE, FALSE), MCMode(TRUE, TRUE)}

MCSymmetry == Permutations(Gets)
=============================================================================
