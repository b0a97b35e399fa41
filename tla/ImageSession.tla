---------------------------- MODULE ImageSession ----------------------------
(***************************************************************************)
(* libglycin-shim: one GlyLoader, the GlyImage it yields and the           *)
(* GlyFrameRequest of the application, called from several threads.  A     *)
(* synchronous call runs on the caller's thread; an _async call is a GTask *)
(* that runs the synchronous function on a pool thread and is collected by *)
(* its _finish function in the main loop.                                  *)
(*                                                                         *)
(* Each mutex of LoaderState, ImageState and FrameRequestState is held for *)
(* one step.  A LoaderState also has limits, which nothing changes.        *)
(***************************************************************************)
EXTENDS Naturals, FiniteSets

CONSTANTS
  Loads,      (* calls of gly_loader_load and gly_loader_load_async          *)
  Gets,       (* calls of gly_image_next_frame, _get_specific_frame, _async  *)
  Frames,     (* frame_count of the image                                    *)
  Vector,     (* the format is rescalable, that is svg                       *)
  Modes,      (* the modes of a call: [async : BOOLEAN, request : BOOLEAN]   *)
  Applies,    (* values the application gives to apply_transformations       *)
  Accepts,    (* accepted_memory_formats: "any" holds the frames' own format
                 or is 0, "narrow" does not hold it                          *)
  Loops,      (* values the application gives to loop_animation              *)
  Scales      (* scales the application asks for: "none", the image's own
                 size "same", or "other"                                     *)

ASSUME SessionAssumption ==
  /\ Frames \in Nat
  /\ Vector \in BOOLEAN
  /\ Modes \subseteq [async : BOOLEAN, request : BOOLEAN]
  /\ Applies \subseteq BOOLEAN
  /\ Accepts \subseteq {"any", "narrow"}
  /\ Loops \subseteq BOOLEAN
  /\ Scales \subseteq {"none", "same", "other"}
  /\ Loads \cap Gets = {}

Calls == Loads \cup Gets

VARIABLES
  settings,   (* apply_transformations and accepted_memory_formats           *)
  request,    (* loop_animation and scale of the frame request               *)
  inner,      (* LoaderState.inner still holds the loader                    *)
  image,      (* NoImage, or what load left in ImageState for a re-render    *)
  cursor,     (* ImageState.cursor                                           *)
  pc,         (* where each call is                                          *)
  mode,       (* synchronous or GTask, with the frame request or NULL        *)
  seen,       (* what the call read of the settings and of the request       *)
  reply,      (* what ImageState::advance returned to the call               *)
  out,        (* what the call returned to the application                   *)
  cancelled,  (* the call's GCancellable was cancelled                       *)
  held,       (* objects the application has a reference to                  *)
  refs        (* the GObject reference counts                                *)

objects == <<held, refs>>
vars == <<settings, request, inner, image, cursor, pc, mode, seen, reply, out,
          cancelled, held, refs>>

Config == [apply : BOOLEAN, accepted : {"any", "narrow"}]

(* LoaderState::new and FrameRequestState::new. *)
Defaults == [apply |-> TRUE, accepted |-> "any"]
NoRequest == [loop |-> TRUE, scale |-> "none"]

NoImage == [kind |-> "none"]

Stream == INSTANCE FrameStream WITH
  loops   <- [c \in Gets |-> seen[c].loop],
  reply   <- reply,
  next    <- IF cursor = Frames THEN 0 ELSE cursor,
  started <- cursor # 0

(* What a call returns. *)
Pending     == [kind |-> "none"]
Loaded(cfg) == [kind |-> "image", config |-> cfg]
Rendered(cfg) == [kind |-> "rendered", config |-> cfg]
Frame(i, accepted) == [kind |-> "frame", index |-> i, accepted |-> accepted]
Error(e)    == [kind |-> e]

Failures == {"consumed", "load_failed", "no_more_frames", "extraction_failed",
             "cancelled"}

Results ==
  {Pending} \cup {Error(e) : e \in Failures}
  \cup {Loaded(cfg) : cfg \in Config} \cup {Rendered(cfg) : cfg \in Config}
  \cup {Frame(i, a) : i \in 0..Frames, a \in {"any", "narrow"}}

LoadPCs == {"idle", "queued", "take", "apply", "accepted", "decode", "out", "done"}
GetPCs  == {"idle", "queued", "loop", "scale", "rerender", "advance", "extract",
            "out", "done"}

InFlight(c) == pc[c] \notin {"idle", "done"}

ObjectOf(c) == IF c \in Loads THEN "loader" ELSE "image"
-----------------------------------------------------------------------------
Init ==
  /\ settings = Defaults
  /\ request = NoRequest
  /\ inner = TRUE
  /\ image = NoImage
  /\ cursor = 0
  /\ pc = [c \in Calls |-> "idle"]
  /\ mode \in [Calls -> Modes]
  /\ seen = [c \in Calls |-> [apply |-> TRUE, accepted |-> "any", loop |-> TRUE]]
  /\ reply = [c \in Gets |-> Stream!NoReply]
  /\ out = [c \in Calls |-> Pending]
  /\ cancelled = [c \in Calls |-> FALSE]
  /\ held = {"loader"}
  /\ refs = [loader |-> 1, image |-> 0]

Goes(c, from, to) ==
  /\ pc[c] = from
  /\ pc' = [pc EXCEPT ![c] = to]

(* A synchronous call returns r to the application; a GTask keeps it until the
   application collects it. *)
Answers(c, from, r) ==
  /\ Goes(c, from, IF mode[c].async THEN "out" ELSE "done")
  /\ out' = [out EXCEPT ![c] = r]

(* Mutant of Start: the task is created without its source object. *)
StartUnowned(c, first) ==
  /\ ObjectOf(c) \in held
  /\ Goes(c, "idle", IF mode[c].async THEN "queued" ELSE first)
  /\ UNCHANGED <<settings, request, inner, image, cursor, mode, seen, reply, out,
                 cancelled, objects>>

(* The application calls; g_task_new takes a reference to the object. *)
Start(c, first) ==
  /\ ObjectOf(c) \in held
  /\ Goes(c, "idle", IF mode[c].async THEN "queued" ELSE first)
  /\ refs' = IF mode[c].async THEN [refs EXCEPT ![ObjectOf(c)] = @ + 1] ELSE refs
  /\ UNCHANGED <<settings, request, inner, image, cursor, mode, seen, reply, out,
                 cancelled, held>>

(* A pool thread calls the task's function. *)
Run(c, first) ==
  /\ Goes(c, "queued", first)
  /\ UNCHANGED <<settings, request, inner, image, cursor, mode, seen, reply, out,
                 cancelled, objects>>
-----------------------------------------------------------------------------
(* gly_loader_load *)

(* Mutant of Take: the loader is looked at here and taken later. *)
TakeLate(c) ==
  /\ IF inner
     THEN Goes(c, "take", "apply") /\ UNCHANGED out
     ELSE Answers(c, "take", Error("consumed"))
  /\ UNCHANGED <<settings, request, inner, image, cursor, mode, seen, reply,
                 cancelled, objects>>

Take(c) ==
  /\ IF inner
     THEN Goes(c, "take", "apply") /\ inner' = FALSE /\ UNCHANGED out
     ELSE Answers(c, "take", Error("consumed")) /\ UNCHANGED inner
  /\ UNCHANGED <<settings, request, image, cursor, mode, seen, reply,
                 cancelled, objects>>

ReadApply(c) ==
  /\ Goes(c, "apply", "accepted")
  /\ seen' = [seen EXCEPT ![c].apply = settings.apply]
  /\ UNCHANGED <<settings, request, inner, image, cursor, mode, reply, out,
                 cancelled, objects>>

ReadAccepted(c) ==
  /\ Goes(c, "accepted", "decode")
  /\ seen' = [seen EXCEPT ![c].accepted = settings.accepted]
  /\ UNCHANGED <<settings, request, inner, image, cursor, mode, reply, out,
                 cancelled, objects>>

(* The image belongs to the caller, or to its task. *)
DecodeOk(c) ==
  LET cfg == [apply |-> seen[c].apply, accepted |-> seen[c].accepted]
  IN  /\ Answers(c, "decode", Loaded(cfg))
      /\ image' = cfg
      /\ refs' = [refs EXCEPT !.image = 1]
      /\ held' = IF mode[c].async THEN held ELSE held \cup {"image"}
      /\ UNCHANGED <<settings, request, inner, cursor, mode, seen, reply, cancelled>>

(* glycin_ng_loader_load consumed the loader all the same. *)
DecodeFails(c) ==
  /\ Answers(c, "decode", Error("load_failed"))
  /\ UNCHANGED <<settings, request, inner, image, cursor, mode, seen, reply,
                 cancelled, objects>>
-----------------------------------------------------------------------------
(* gly_image_get_specific_frame; gly_image_next_frame is the same call with a
   NULL request. *)

ReadLoop(c) ==
  /\ Goes(c, "loop", "scale")
  /\ seen' = [seen EXCEPT ![c].loop = IF mode[c].request THEN request.loop ELSE TRUE]
  /\ UNCHANGED <<settings, request, inner, image, cursor, mode, reply, out,
                 cancelled, objects>>

(* Only a vector image is rendered again, and only at another size. *)
ReadScale(c) ==
  LET again == Vector /\ mode[c].request /\ request.scale = "other"
  IN  /\ Goes(c, "scale", IF again THEN "rerender" ELSE "advance")
      /\ UNCHANGED <<settings, request, inner, image, cursor, mode, seen, reply,
                     out, cancelled, objects>>

(* Mutant of Rerender: the settings are read again. *)
RerenderFresh(c) ==
  /\ Answers(c, "rerender", Rendered(settings))
  /\ UNCHANGED <<settings, request, inner, image, cursor, mode, seen, reply,
                 cancelled, objects>>

(* The source is decoded at the new size, with what load read. *)
Rerender(c) ==
  /\ Answers(c, "rerender", Rendered(image))
  /\ UNCHANGED <<settings, request, inner, image, cursor, mode, seen, reply,
                 cancelled, objects>>

(* Mutant of RerenderFails: the call tries until the frame can be rendered. *)
RerenderRetries(c) ==
  /\ Goes(c, "rerender", "scale")
  /\ UNCHANGED <<settings, request, inner, image, cursor, mode, seen, reply, out,
                 cancelled, objects>>

(* Mutant of RerenderFails: the call fails with the rendering. *)
RerenderFailsLoud(c) ==
  /\ Answers(c, "rerender", Error("extraction_failed"))
  /\ UNCHANGED <<settings, request, inner, image, cursor, mode, seen, reply,
                 cancelled, objects>>

(* Then the caller gets the frame there is. *)
RerenderFails(c) ==
  /\ Goes(c, "rerender", "advance")
  /\ UNCHANGED <<settings, request, inner, image, cursor, mode, seen, reply, out,
                 cancelled, objects>>

(* Mutant of Advanced: the frame given after the last one is not counted. *)
AdvancedToStart(c) ==
  IF cursor < Frames THEN cursor + 1
  ELSE IF Frames > 0 /\ seen[c].loop THEN 0 ELSE cursor

(* Mutant of Advanced: the cursor never wraps. *)
AdvancedPast(c) == cursor + 1

(* ImageState::advance, the cursor and the index it returns. *)
Advanced(c) ==
  IF cursor < Frames THEN cursor + 1
  ELSE IF Frames > 0 /\ seen[c].loop THEN 1 ELSE cursor

(* Mutant of Handed: one frame too many before the cursor wraps. *)
HandedBeyond(c) ==
  IF cursor <= Frames THEN Stream!Reply(cursor)
  ELSE IF Frames > 0 /\ seen[c].loop THEN Stream!Reply(0) ELSE Stream!EndReply

Handed(c) ==
  IF cursor < Frames THEN Stream!Reply(cursor)
  ELSE IF Frames > 0 /\ seen[c].loop THEN Stream!Reply(0) ELSE Stream!EndReply

Advance(c) ==
  /\ reply' = [reply EXCEPT ![c] = Handed(c)]
  /\ cursor' = Advanced(c)
  /\ IF Handed(c) = Stream!EndReply
     THEN Answers(c, "advance", Error("no_more_frames"))
     ELSE Goes(c, "advance", "extract") /\ UNCHANGED out
  /\ UNCHANGED <<settings, request, inner, image, mode, seen, cancelled, objects>>

(* Mutant of Extract: the frame is looked up at the cursor. *)
ExtractAtCursor(c) ==
  /\ Answers(c, "extract", Frame(cursor - 1, "any"))
  /\ UNCHANGED <<settings, request, inner, image, cursor, mode, seen, reply,
                 cancelled, objects>>

(* The formats a frame is converted for: those of the load for a vector image,
   none for any other. *)
Accepted == IF Vector THEN image.accepted ELSE "any"

Extract(c) ==
  /\ Answers(c, "extract",
             IF reply[c].index < Frames THEN Frame(reply[c].index, Accepted)
             ELSE Error("extraction_failed"))
  /\ UNCHANGED <<settings, request, inner, image, cursor, mode, seen, reply,
                 cancelled, objects>>
-----------------------------------------------------------------------------
(* The application and its main loop. *)

(* Mutant of Finish: the task, and so its reference, is never released. *)
FinishKeeps(c) ==
  /\ Goes(c, "out", "done")
  /\ out' = [out EXCEPT ![c] = IF cancelled[c] THEN Error("cancelled") ELSE @]
  /\ held' = IF out[c].kind = "image" /\ ~cancelled[c]
             THEN held \cup {"image"} ELSE held
  /\ UNCHANGED <<settings, request, inner, image, cursor, mode, seen, reply,
                 cancelled, refs>>

(* The callback collects the task, which is then released with its reference
   to the object.  A cancelled task gives an error in place of its result. *)
Finish(c) ==
  LET lost == cancelled[c] /\ out[c].kind = "image"
  IN  /\ Goes(c, "out", "done")
      /\ out' = [out EXCEPT ![c] = IF cancelled[c] THEN Error("cancelled") ELSE @]
      /\ held' = IF out[c].kind = "image" /\ ~cancelled[c]
                 THEN held \cup {"image"} ELSE held
      /\ refs' = [o \in {"loader", "image"} |->
                    IF o = ObjectOf(c) THEN refs[o] - 1
                    ELSE IF lost /\ o = "image" THEN refs[o] - 1 ELSE refs[o]]
      /\ UNCHANGED <<settings, request, inner, image, cursor, mode, seen, reply,
                     cancelled>>

Cancel(c) ==
  /\ mode[c].async /\ InFlight(c) /\ ~cancelled[c]
  /\ cancelled' = [cancelled EXCEPT ![c] = TRUE]
  /\ UNCHANGED <<settings, request, inner, image, cursor, pc, mode, seen, reply,
                 out, objects>>

(* gly_loader_set_* *)
SetSettings ==
  /\ "loader" \in held
  /\ \/ \E b \in Applies : settings' = [settings EXCEPT !.apply = b]
     \/ \E a \in Accepts : settings' = [settings EXCEPT !.accepted = a]
  /\ UNCHANGED request

(* gly_frame_request_set_* *)
SetRequest ==
  /\ \/ \E b \in Loops : request' = [request EXCEPT !.loop = b]
     \/ \E s \in Scales : request' = [request EXCEPT !.scale = s]
  /\ UNCHANGED settings

Set ==
  /\ SetSettings \/ SetRequest
  /\ UNCHANGED <<inner, image, cursor, pc, mode, seen, reply, out, cancelled, objects>>

(* g_object_unref by an application that is in no synchronous call on it. *)
Drop(o) ==
  /\ o \in held
  /\ \A c \in Calls : ObjectOf(c) = o /\ InFlight(c) => mode[c].async
  /\ held' = held \ {o}
  /\ refs' = [refs EXCEPT ![o] = @ - 1]
  /\ UNCHANGED <<settings, request, inner, image, cursor, pc, mode, seen, reply,
                 out, cancelled>>
-----------------------------------------------------------------------------
LoadStep(c) ==
  \/ Run(c, "take") \/ Take(c) \/ ReadApply(c) \/ ReadAccepted(c)
  \/ DecodeOk(c) \/ DecodeFails(c) \/ Finish(c)

GetStep(c) ==
  \/ Run(c, "loop") \/ ReadLoop(c) \/ ReadScale(c)
  \/ Rerender(c) \/ RerenderFails(c) \/ Advance(c) \/ Extract(c) \/ Finish(c)

Next ==
  \/ \E c \in Loads : Start(c, "take") \/ LoadStep(c) \/ Cancel(c)
  \/ \E c \in Gets : Start(c, "loop") \/ GetStep(c) \/ Cancel(c)
  \/ Set
  \/ \E o \in {"loader", "image"} : Drop(o)

(* Threads run, and the main loop dispatches the callbacks. *)
Fairness ==
  /\ \A c \in Loads : WF_vars(LoadStep(c))
  /\ \A c \in Gets : WF_vars(GetStep(c))

Spec == Init /\ [][Next]_vars /\ Fairness
-----------------------------------------------------------------------------
(* Properties. *)

(* Every variable keeps its type. *)
SessionTypeOK ==
  /\ settings \in Config
  /\ request \in [loop : BOOLEAN, scale : {"none", "same", "other"}]
  /\ inner \in BOOLEAN
  /\ image \in Config \cup {NoImage}
  /\ cursor \in 0..Frames
  /\ pc \in [Calls -> LoadPCs \cup GetPCs]
  /\ mode \in [Calls -> [async : BOOLEAN, request : BOOLEAN]]
  /\ seen \in [Calls -> [apply : BOOLEAN, accepted : {"any", "narrow"}, loop : BOOLEAN]]
  /\ reply \in [Gets -> {Stream!NoReply, Stream!EndReply}
                          \cup {Stream!Reply(i) : i \in 0..Frames}]
  /\ out \in [Calls -> Results]
  /\ cancelled \in [Calls -> BOOLEAN]
  /\ held \in SUBSET {"loader", "image"}
  /\ refs \in [{"loader", "image"} -> Nat]

(* gly_loader_load consumes the C loader: of the calls that race for it one
   gets it, and the others hear that it is gone. *)
LoaderIsConsumedOnce ==
  Cardinality({c \in Loads : \/ pc[c] \in {"apply", "accepted", "decode"}
                             \/ out[c].kind \in {"image", "load_failed"}}) <= 1

(* A loader or image is not freed while a call is inside it or about to be. *)
NoUseAfterFree ==
  \A c \in Calls : InFlight(c) => refs[ObjectOf(c)] > 0

(* When nobody can reach an object any more, it is freed. *)
NothingLeaks ==
  \A o \in {"loader", "image"} :
    (o \notin held /\ \A c \in Calls : ~InFlight(c)) => refs[o] = 0

(* The frame a call took from the image is the frame it returns, unless its
   caller cancelled it meanwhile. *)
FrameIsDelivered ==
  \A c \in Gets : (pc[c] = "done" /\ reply[c].kind = "frame") =>
    \/ out[c].kind = "frame" /\ out[c].index = reply[c].index
    \/ cancelled[c] /\ out[c].kind = "cancelled"

(* A frame rendered again looks as the load's settings say, whatever the
   application sets in between. *)
RerenderLikeLoad ==
  \A l \in Loads, g \in Gets :
    (out[l].kind = "image" /\ out[g].kind = "rendered")
      => out[g].config = out[l].config

(* A call that loops on an image with frames never fails but by cancellation,
   also when the frame could not be rendered at its size. *)
LoopingAlwaysShows ==
  \A c \in Gets : (Frames > 0 /\ pc[c] = "done" /\ seen[c].loop) =>
    out[c].kind \in {"frame", "rendered", "cancelled"}

(* The image is one FrameStream to all its callers. *)
StreamSpec == Stream!Spec

(* Every call that starts is answered. *)
CallsAreAnswered == \A c \in Calls : InFlight(c) ~> pc[c] = "done"
=============================================================================
