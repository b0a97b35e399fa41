---------------------------- MODULE FrameStream ----------------------------
(***************************************************************************)
(* What GlyImage promises to the callers that share it: the frames of the  *)
(* image in order, one to each caller, from the first one again after the  *)
(* last, and an end only for a caller that does not loop.  ImageSession    *)
(* implements this specification.                                          *)
(***************************************************************************)
EXTENDS Naturals

CONSTANTS
  Gets,     (* calls that ask the image for a frame                         *)
  Frames    (* frames of the image                                          *)

(* What the stream says to a call. *)
NoReply   == [kind |-> "none"]
Reply(i)  == [kind |-> "frame", index |-> i]
EndReply  == [kind |-> "end"]

VARIABLES
  loops,    (* the caller wants the first frame after the last              *)
  reply,    (* what each call was given                                     *)
  next,     (* the frame that comes next                                    *)
  started   (* some frame was given                                         *)

streamVars == <<loops, reply, next, started>>

Init ==
  /\ loops = [c \in Gets |-> TRUE]
  /\ reply = [c \in Gets |-> NoReply]
  /\ next = 0
  /\ started = FALSE

(* The caller says whether it loops. *)
Ask(c) ==
  /\ reply[c] = NoReply
  /\ \E b \in BOOLEAN : loops' = [loops EXCEPT ![c] = b]
  /\ UNCHANGED <<reply, next, started>>

AtEnd == Frames = 0 \/ (started /\ next = 0)

Give(c) ==
  /\ reply[c] = NoReply
  /\ Frames > 0
  /\ AtEnd => loops[c]
  /\ reply' = [reply EXCEPT ![c] = Reply(next)]
  /\ next' = IF next + 1 = Frames THEN 0 ELSE next + 1
  /\ started' = TRUE
  /\ UNCHANGED loops

End(c) ==
  /\ reply[c] = NoReply
  /\ AtEnd
  /\ Frames > 0 => ~loops[c]
  /\ reply' = [reply EXCEPT ![c] = EndReply]
  /\ UNCHANGED <<loops, next, started>>

Next == \E c \in Gets : Ask(c) \/ Give(c) \/ End(c)

Spec == Init /\ [][Next]_streamVars
=============================================================================
