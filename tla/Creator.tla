------------------------------ MODULE Creator ------------------------------
(***************************************************************************)
(* A GlyCreator of libglycin-shim, the encoder of the C API behind it, and *)
(* the last error of each thread, from calls of the application's threads  *)
(* and of the pool threads that gly_creator_create_async runs on.          *)
(*                                                                         *)
(* The creator is a valid one: a NULL or foreign object is refused without *)
(* touching any state.  A frame is its layout; that its bytes are copied   *)
(* and sampled correctly is no part of this module.  usize has 64 bits, so *)
(* the products that to_rgba8 checks for overflow exceed the output limit  *)
(* before they overflow.                                                   *)
(***************************************************************************)
EXTENDS Naturals, Sequences, FiniteSets

CONSTANTS
  Calls,      (* calls of gly_creator_*                                    *)
  Hosts,      (* the application's threads                                 *)
  Pool,       (* the threads of GLib's pool                                *)
  Ops,        (* what the calls do                                         *)
  U32,        (* 2^32                                                      *)
  MaxOutput,  (* MAX_OUTPUT_BYTES                                          *)
  NoCall,     (* nobody holds the mutex                                    *)
  NoThread    (* the call runs on no thread                                *)

Threads == Hosts \cup Pool

OptionNames == {"icc", "quality", "compression"}
Values == {"default", "chosen"}

(* A memory format of the shim: whether gly_to_ng knows it, and the size of a
   pixel.  Those that it knows are those that sample_rgba8 can sample. *)
Format == [known : BOOLEAN, bpp : Nat]

(* The arguments of gly_creator_add_frame_with_stride; stride 0 is that of
   gly_creator_add_frame. *)
Frame == [width : 0..U32 - 1, height : 0..U32 - 1, stride : 0..U32 - 1,
          format : Format, len : Nat]

Op == [kind : {"frame"}, frame : Frame]
      \cup [kind : {"set"}, option : OptionNames, value : Values]
      \cup [kind : {"metadata"}, value : Values \cup {"missing", "not text"}]
      \cup [kind : {"create"}, async : BOOLEAN]

ASSUME CreatorAssumption ==
  /\ IsFiniteSet(Calls)
  /\ Ops \subseteq Op
  /\ U32 \in Nat \ {0}
  /\ MaxOutput \in Nat
  /\ Hosts \cap Pool = {}
  /\ NoCall \notin Calls
  /\ NoThread \notin Threads

VARIABLES
  op,         (* what each call does                                       *)
  encoder,    (* frames, options and metadata of the GlycinNgEncoder       *)
  mutex,      (* the call that holds CreatorState.encoder                  *)
  lastError,  (* LAST_ERROR of each thread                                 *)
  pc,         (* where each call is                                        *)
  on,         (* the thread a call runs on                                 *)
  taken,      (* the frame whose pixels a create has converted             *)
  reply,      (* what the C API made of the call                           *)
  out,        (* what the call returned                                    *)
  handles,    (* the application's references to the creator: its own and
                 the frames that add_frame returned                        *)
  refs        (* the creator's reference count; at 0 the encoder is freed  *)

vars == <<op, encoder, mutex, lastError, pc, on, taken, reply, out, handles, refs>>

NoError == "none"
NoFrame == [kind |-> "none"]

(* mul in u32; a release build wraps. *)
Stride(f) == IF f.stride > 0 THEN f.stride ELSE (f.width * f.format.bpp) % U32

Queued(f) == [f EXCEPT !.stride = Stride(f)]

Resolved(o) == IF o.kind = "frame" THEN [o EXCEPT !.frame = Queued(@)] ELSE o

Maker == INSTANCE ImageMaker WITH op <- [c \in Calls |-> Resolved(op[c])]

(* What the C API returns, and what a call returns. *)
Reply ==
  [kind : {"none", "ok"}]
  \cup [kind : {"image"}, frame : Frame, options : [OptionNames -> Values]]
  \cup [kind : {"error"}, cause : Maker!Causes]
Out == Reply \cup [kind : {"error"}, cause : {"arguments", "cancelled"}]

PCs == {"idle", "queued", "lock", "call", "encode", "unlock", "message", "answer",
        "returned", "done"}

InFlight(c) == pc[c] \notin {"idle", "done"}
Async(c) == op[c].kind = "create" /\ op[c].async
Idle(t) == \A c \in Calls : on[c] # t
-----------------------------------------------------------------------------
Init ==
  /\ op \in [Calls -> Ops]
  /\ encoder = Maker!Empty
  /\ mutex = NoCall
  /\ lastError = [t \in Threads |-> NoError]
  /\ pc = [c \in Calls |-> "idle"]
  /\ on = [c \in Calls |-> NoThread]
  /\ taken = [c \in Calls |-> NoFrame]
  /\ reply = [c \in Calls |-> Maker!NoReply]
  /\ out = [c \in Calls |-> Maker!NoReply]
  /\ handles = 1
  /\ refs = 1

Goes(c, from, to) ==
  /\ pc[c] = from
  /\ pc' = [pc EXCEPT ![c] = to]

RunsOn(c, t) == Idle(t) /\ on' = [on EXCEPT ![c] = t]

(* A synchronous call begins on the caller's thread. *)
Start(c) ==
  /\ handles > 0 /\ ~Async(c)
  /\ Goes(c, "idle", "lock")
  /\ \E t \in Hosts : RunsOn(c, t)
  /\ UNCHANGED <<op, encoder, mutex, lastError, taken, reply, out, handles, refs>>

(* gly_creator_create_async: the task takes a reference to the creator. *)
StartAsync(c) ==
  /\ handles > 0 /\ Async(c)
  /\ Goes(c, "idle", "queued")
  /\ refs' = refs + 1
  /\ UNCHANGED <<op, encoder, mutex, lastError, on, taken, reply, out, handles>>

(* create_thread begins on a thread of the pool. *)
Run(c) ==
  /\ Goes(c, "queued", "lock")
  /\ \E t \in Pool : RunsOn(c, t)
  /\ UNCHANGED <<op, encoder, mutex, lastError, taken, reply, out, handles, refs>>

(* The arguments are looked at before the mutex is taken. *)
Accepted(c) ==
  /\ op[c].kind = "frame" => op[c].frame.len > 0 /\ op[c].frame.format.known
  /\ op[c].kind = "metadata" => op[c].value # "missing"

Reject(c) ==
  /\ ~Accepted(c)
  /\ Goes(c, "lock", "answer")
  /\ out' = [out EXCEPT ![c] = Maker!Error("arguments")]
  /\ UNCHANGED <<op, encoder, mutex, lastError, on, taken, reply, handles, refs>>

(* Mutant of Lock: the pointer is copied out and the guard dropped. *)
LockAndDrop(c) ==
  /\ Accepted(c) /\ mutex = NoCall
  /\ Goes(c, "lock", "call")
  /\ UNCHANGED <<op, encoder, mutex, lastError, on, taken, reply, out, handles, refs>>

(* with_encoder locks; what follows runs under the lock. *)
Lock(c) ==
  /\ Accepted(c) /\ mutex = NoCall
  /\ Goes(c, "lock", "call")
  /\ mutex' = c
  /\ UNCHANGED <<op, encoder, lastError, on, taken, reply, out, handles, refs>>
-----------------------------------------------------------------------------
(* The C API's encoder. *)

(* The call succeeds; most of them begin with clear_error. *)
Succeeds(c, from, r, clears) ==
  /\ Goes(c, from, "unlock")
  /\ reply' = [reply EXCEPT ![c] = r]
  /\ lastError' = IF clears THEN [lastError EXCEPT ![on[c]] = NoError] ELSE lastError
  /\ UNCHANGED <<op, mutex, on, taken, out, handles, refs>>

(* set_error stores the message and the caller gets NULL. *)
Fails(c, from, e) ==
  /\ Goes(c, from, "unlock")
  /\ reply' = [reply EXCEPT ![c] = Maker!Error(e)]
  /\ lastError' = [lastError EXCEPT ![on[c]] = e]
  /\ UNCHANGED <<op, encoder, mutex, on, taken, out, handles, refs>>

(* Mutant of AddFrame: a default stride is not brought back into u32. *)
AddFrameUnwrapped(c) ==
  LET f == op[c].frame
      s == IF f.stride > 0 THEN f.stride ELSE f.width * f.format.bpp
  IN  /\ op[c].kind = "frame"
      /\ Succeeds(c, "call", Maker!Done, TRUE)
      /\ encoder' = [encoder EXCEPT !.frames = Append(@, [f EXCEPT !.stride = s])]

AddFrame(c) ==
  /\ op[c].kind = "frame"
  /\ Succeeds(c, "call", Maker!Done, TRUE)
  /\ encoder' = [encoder EXCEPT !.frames = Append(@, Queued(op[c].frame))]

(* set_quality and set_compression leave the last error alone. *)
SetOption(c) ==
  /\ op[c].kind = "set"
  /\ Succeeds(c, "call", Maker!Done, op[c].option = "icc")
  /\ encoder' = [encoder EXCEPT !.options[op[c].option] = op[c].value]

AddMetadata(c) ==
  /\ op[c].kind = "metadata" /\ op[c].value \in Values
  /\ Succeeds(c, "call", Maker!Done, TRUE)
  /\ encoder' = [encoder EXCEPT !.metadata = Append(@, op[c].value)]

MetadataFails(c) ==
  /\ op[c].kind = "metadata" /\ op[c].value = "not text"
  /\ Fails(c, "call", "not text")

RowBytes(f) == f.width * f.format.bpp

(* Mutant of Short: the rows are counted without their padding. *)
ShortUnpadded(f) == f.height > 0 /\ f.len < f.height * RowBytes(f)

Short(f) == f.height > 0 /\ f.len < (f.height - 1) * f.stride + RowBytes(f)

(* What to_rgba8 says of a queued frame. *)
Verdict(f) ==
  IF RowBytes(f) > f.stride THEN "malformed"
  ELSE IF f.width * 4 * f.height > MaxOutput THEN "limit"
  ELSE IF Short(f) THEN "truncated"
  ELSE "fine"

(* Encoder::encode counts the frames and converts the one there is. *)
Convert(c) ==
  /\ op[c].kind = "create"
  /\ Len(encoder.frames) = 1
  /\ Verdict(encoder.frames[1]) = "fine"
  /\ Goes(c, "call", "encode")
  /\ taken' = [taken EXCEPT ![c] = encoder.frames[1]]
  /\ lastError' = [lastError EXCEPT ![on[c]] = NoError]
  /\ UNCHANGED <<op, encoder, mutex, on, reply, out, handles, refs>>

ConvertFails(c) ==
  /\ op[c].kind = "create"
  /\ \/ Len(encoder.frames) = 0 /\ Fails(c, "call", "no frames")
     \/ Len(encoder.frames) > 1 /\ Fails(c, "call", "many frames")
     \/ /\ Len(encoder.frames) = 1
        /\ Verdict(encoder.frames[1]) # "fine"
        /\ Fails(c, "call", Verdict(encoder.frames[1]))

(* encode_dispatch reads the options and writes the bytes. *)
Encode(c) ==
  /\ Succeeds(c, "encode", Maker!Made(taken[c], encoder.options), FALSE)
  /\ UNCHANGED encoder

EncodeFails(c) == Fails(c, "encode", "encoder")
-----------------------------------------------------------------------------
(* Back in the shim. *)

(* The setters answer FALSE and do not ask for the message. *)
AsksWhy(c) == op[c].kind = "create" /\ reply[c].kind = "error"

Unlock(c) ==
  /\ Goes(c, "unlock", IF AsksWhy(c) THEN "message" ELSE "answer")
  /\ mutex' = NoCall
  /\ UNCHANGED <<op, encoder, lastError, on, taken, reply, out, handles, refs>>

(* Mutant of Slot: one last error for the whole process. *)
SlotShared(c) == CHOOSE t \in Threads : TRUE

Slot(c) == on[c]

(* set_error_from_ng, after the mutex was released. *)
ReadMessage(c) ==
  /\ Goes(c, "message", "answer")
  /\ out' = [out EXCEPT ![c] = Maker!Error(lastError[Slot(c)])]
  /\ UNCHANGED <<op, encoder, mutex, lastError, on, taken, reply, handles, refs>>

Answer(c, to) ==
  /\ Goes(c, "answer", to)
  /\ on' = [on EXCEPT ![c] = NoThread]
  /\ out' = IF out[c].kind = "error" THEN out ELSE [out EXCEPT ![c] = reply[c]]
  /\ UNCHANGED <<op, encoder, mutex, lastError, taken, reply>>

(* Mutant of ReturnFrame: the creator is returned without a reference. *)
ReturnFrameUnowned(c) ==
  /\ op[c].kind = "frame" /\ reply[c] = Maker!Done
  /\ Answer(c, "done")
  /\ handles' = handles + 1
  /\ UNCHANGED refs

(* The frame that add_frame returns is the creator, with a reference more. *)
ReturnFrame(c) ==
  /\ op[c].kind = "frame" /\ reply[c] = Maker!Done
  /\ Answer(c, "done")
  /\ handles' = handles + 1
  /\ refs' = refs + 1

Return(c) ==
  /\ ~(op[c].kind = "frame" /\ reply[c] = Maker!Done)
  /\ Answer(c, IF Async(c) THEN "returned" ELSE "done")
  /\ UNCHANGED <<handles, refs>>

(* gly_creator_create_finish in the main loop; a task that the application
   cancelled answers so.  The task drops its reference. *)
Collect(c) ==
  /\ Goes(c, "returned", "done")
  /\ \/ UNCHANGED out
     \/ out' = [out EXCEPT ![c] = Maker!Error("cancelled")]
  /\ refs' = refs - 1
  /\ UNCHANGED <<op, encoder, mutex, lastError, on, taken, reply, handles>>

(* The application gives up a reference; the last one only after its own calls. *)
Release ==
  /\ handles > 0
  /\ handles = 1 => \A c \in Calls : InFlight(c) => Async(c)
  /\ handles' = handles - 1
  /\ refs' = refs - 1
  /\ UNCHANGED <<op, encoder, mutex, lastError, pc, on, taken, reply, out>>

(* Everything is over. *)
Rest ==
  /\ handles = 0
  /\ \A c \in Calls : ~InFlight(c)
  /\ UNCHANGED vars

Step(c) ==
  \/ Run(c) \/ Reject(c) \/ Lock(c)
  \/ AddFrame(c) \/ SetOption(c) \/ AddMetadata(c) \/ MetadataFails(c)
  \/ Convert(c) \/ ConvertFails(c) \/ Encode(c) \/ EncodeFails(c)
  \/ Unlock(c) \/ ReadMessage(c) \/ ReturnFrame(c) \/ Return(c) \/ Collect(c)

Next == (\E c \in Calls : Start(c) \/ StartAsync(c) \/ Step(c)) \/ Release \/ Rest

Spec == Init /\ [][Next]_vars
-----------------------------------------------------------------------------
(* Properties. *)

(* Every variable keeps its type; a queued stride is a u32. *)
CreatorTypeOK ==
  /\ op \in [Calls -> Op]
  /\ encoder \in [frames : Seq(Frame), options : [OptionNames -> Values],
                  metadata : Seq(Values)]
  /\ mutex \in Calls \cup {NoCall}
  /\ lastError \in [Threads -> Maker!Causes \cup {NoError}]
  /\ pc \in [Calls -> PCs]
  /\ on \in [Calls -> Threads \cup {NoThread}]
  /\ taken \in [Calls -> Frame \cup {NoFrame}]
  /\ reply \in [Calls -> Reply]
  /\ out \in [Calls -> Out]
  /\ handles \in Nat
  /\ refs \in Nat

(* Calls that share a creator take effect one after the other: an image has the
   one frame and the options that the encoder has at one instant. *)
MakerSpec == Maker!Spec

(* The message of a failed create is that of its own failure, though it is read
   after the mutex was released and other calls have failed meanwhile. *)
ErrorIsOwn ==
  \A c \in Calls :
    (out[c].kind = "error" /\ out[c].cause \notin {"arguments", "cancelled"})
      => out[c] = reply[c]

(* An image is made of rows that lie inside the bytes of its frame and do not
   overlap. *)
RowsAreInside ==
  \A c \in Calls : reply[c].kind = "image" =>
    LET f == reply[c].frame
    IN  /\ RowBytes(f) <= f.stride
        /\ \A y \in 0..f.height - 1 : y * f.stride + RowBytes(f) <= f.len

(* The encoder lives as long as a handle or a call needs it, and no longer. *)
EncoderLivesAsLongAsUsed ==
  refs = 0 <=> handles = 0 /\ \A c \in Calls : ~InFlight(c)
=============================================================================
