----------------------------- MODULE ImageMaker -----------------------------
(***************************************************************************)
(* What a GlyCreator promises to threads that share it: each call takes    *)
(* effect at one instant, and an image is made of the encoder as it is at  *)
(* that instant.                                                           *)
(***************************************************************************)
EXTENDS Naturals, Sequences

CONSTANTS Calls, OptionNames

VARIABLES
  op,        (* what each call does                                        *)
  encoder,   (* the frames, options and metadata collected so far          *)
  reply      (* what the call made of them                                 *)

vars == <<op, encoder, reply>>

NoReply  == [kind |-> "none"]
Done     == [kind |-> "ok"]
Made(frame, options) == [kind |-> "image", frame |-> frame, options |-> options]
Error(e) == [kind |-> "error", cause |-> e]

(* Why there is no image, and why a call fails at all. *)
CreateCauses == {"no frames", "many frames", "malformed", "limit", "truncated",
                 "encoder"}
Causes == CreateCauses \cup {"not text"}

Empty == [frames |-> << >>, options |-> [o \in OptionNames |-> "default"],
          metadata |-> << >>]

Init ==
  /\ encoder = Empty
  /\ reply = [c \in Calls |-> NoReply]

Replies(c, r) ==
  /\ reply[c] = NoReply
  /\ reply' = [reply EXCEPT ![c] = r]
  /\ UNCHANGED op

Add(c) ==
  /\ op[c].kind = "frame"
  /\ Replies(c, Done)
  /\ encoder' = [encoder EXCEPT !.frames = Append(@, op[c].frame)]

Set(c) ==
  /\ op[c].kind = "set"
  /\ Replies(c, Done)
  /\ encoder' = [encoder EXCEPT !.options[op[c].option] = op[c].value]

Describe(c) ==
  /\ op[c].kind = "metadata" /\ op[c].value # "not text"
  /\ Replies(c, Done)
  /\ encoder' = [encoder EXCEPT !.metadata = Append(@, op[c].value)]

(* An image has the one frame there is; the options are those of now. *)
Make(c) ==
  /\ op[c].kind = "create"
  /\ Len(encoder.frames) = 1
  /\ Replies(c, Made(encoder.frames[1], encoder.options))
  /\ UNCHANGED encoder

Fail(c) ==
  /\ op[c].kind = "create"
  /\ \E e \in CreateCauses :
       /\ e = "no frames" <=> Len(encoder.frames) = 0
       /\ e = "many frames" <=> Len(encoder.frames) > 1
       /\ Replies(c, Error(e))
  /\ UNCHANGED encoder

(* Metadata that is not text is left out. *)
Refuse(c) ==
  /\ op[c].kind = "metadata" /\ op[c].value = "not text"
  /\ Replies(c, Error("not text"))
  /\ UNCHANGED encoder

Next ==
  \E c \in Calls :
    Add(c) \/ Set(c) \/ Describe(c) \/ Make(c) \/ Fail(c) \/ Refuse(c)

Spec == Init /\ [][Next]_vars
=============================================================================
