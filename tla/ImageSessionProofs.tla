------------------------- MODULE ImageSessionProofs -------------------------
(***************************************************************************)
(* Theorems about ImageSession, for every value of its constants: the      *)
(* loader is consumed once, no object is used after it is freed or kept    *)
(* when nobody can reach it, every call returns the frame it took, and the *)
(* image is one FrameStream to all its callers.                            *)
(***************************************************************************)
EXTENDS ImageSession, FiniteSetTheorems, TLAPS

(* What a call noted of the settings and of the request. *)
Notes == [apply : BOOLEAN, accepted : {"any", "narrow"}, loop : BOOLEAN]

(* SessionTypeOK without the reference counts: that they are natural numbers
   is a consequence of RefsInv. *)
Typed ==
  /\ settings \in Config
  /\ request \in [loop : BOOLEAN, scale : {"none", "same", "other"}]
  /\ inner \in BOOLEAN
  /\ image \in Config \cup {NoImage}
  /\ cursor \in 0..Frames
  /\ pc \in [Calls -> LoadPCs \cup GetPCs]
  /\ mode \in [Calls -> [async : BOOLEAN, request : BOOLEAN]]
  /\ seen \in [Calls -> Notes]
  /\ reply \in [Gets -> {Stream!NoReply, Stream!EndReply}
                          \cup {Stream!Reply(i) : i \in 0..Frames}]
  /\ out \in [Calls -> Results]
  /\ cancelled \in [Calls -> BOOLEAN]
  /\ held \in SUBSET {"loader", "image"}

(* A call has the C loader, or has used it up. *)
Busy(l) == pc[l] \in {"apply", "accepted", "decode"}
Consumed(l) == Busy(l) \/ out[l].kind \in {"image", "load_failed"}

(* While the loader is there nobody has consumed it; then one call has. *)
ConsumeInv ==
  /\ inner => \A l \in Loads : ~Consumed(l)
  /\ \A l, m \in Loads : Consumed(l) /\ Consumed(m) => l = m

(* The application got the image from a load. *)
Obtained == \E l \in Loads : pc[l] = "done" /\ out[l].kind = "image"

(* The image comes into being once, before any call can be made on it, and
   stays what load made it. *)
ImageInv ==
  /\ inner => image = NoImage
  /\ \A l \in Loads : Busy(l) => image = NoImage
  /\ \A l \in Loads : out[l].kind = "image" => image # NoImage /\ out[l] = Loaded(image)
  /\ \A g \in Gets : out[g].kind = "rendered" => image # NoImage /\ out[g] = Rendered(image)
  /\ "image" \in held => Obtained
  /\ \A g \in Gets : pc[g] # "idle" => Obtained
  /\ \A g \in Gets : out[g].kind # "image"

(* Only a GTask waits for a thread or for the main loop. *)
WaitInv ==
  /\ \A c \in Calls : pc[c] \in {"queued", "out"} => mode[c].async
  /\ \A l \in Loads : out[l].kind = "image" => pc[l] \in {"out", "done"}
  /\ \A c \in Calls : InFlight(c) /\ ~mode[c].async => ObjectOf(c) \in held

(* How far a call for a frame is says what it has in hand. *)
GetInv ==
  \A g \in Gets :
    /\ pc[g] \in {"idle", "queued", "loop", "scale", "rerender", "advance"}
         => reply[g] = Stream!NoReply
    /\ pc[g] = "extract" => reply[g].kind = "frame"
    /\ reply[g].kind = "frame" => reply[g].index < Frames
    /\ pc[g] \in {"out", "done"} =>
         \/ pc[g] = "done" /\ cancelled[g] /\ out[g].kind = "cancelled"
         \/ /\ reply[g].kind = "frame" =>
                 out[g].kind = "frame" /\ out[g].index = reply[g].index
            /\ (Frames > 0 /\ seen[g].loop) => out[g].kind \in {"frame", "rendered"}

(* The tasks that hold a reference to object o, and the load whose task holds
   the image until the application collects it. *)
Tasks(o) == {c \in Calls : mode[c].async /\ InFlight(c) /\ ObjectOf(c) = o}
ImageWaits == \E l \in Loads : pc[l] = "out" /\ out[l].kind = "image"

One(b) == IF b THEN 1 ELSE 0

Holders(o) ==
  One(o \in held) + Cardinality(Tasks(o)) + One(o = "image" /\ ImageWaits)

(* Every reference is the application's, a task's, or the image's own in the
   task that made it. *)
RefsInv ==
  /\ refs \in [{"loader", "image"} -> Nat]
  /\ \A o \in {"loader", "image"} : IsFiniteSet(Tasks(o)) /\ refs[o] = Holders(o)

(* The inductive invariant. *)
SInv == Typed /\ ConsumeInv /\ ImageInv /\ WaitInv /\ GetInv /\ RefsInv

(* What the application and the loads see of the kinds of results. *)
LEMMA NoImageDiffers == NoImage \notin Config
<1>1. \A cfg \in Config : "apply" \in DOMAIN cfg  BY DEF Config
<1>2. "apply" \notin DOMAIN NoImage  BY DEF NoImage
<1> QED  BY <1>1, <1>2

LEMMA CallsDiffer ==
  /\ Gets \subseteq Calls /\ Loads \subseteq Calls
  /\ \A c \in Calls : ObjectOf(c) \in {"loader", "image"}
  /\ \A l \in Loads : ObjectOf(l) = "loader" /\ l \notin Gets
  /\ \A g \in Gets : ObjectOf(g) = "image" /\ g \notin Loads
  BY SessionAssumption DEF Calls, ObjectOf
-----------------------------------------------------------------------------
(* Types. *)

LEMMA ResultsTyped ==
  /\ \A e \in Failures : Error(e) \in Results
  /\ \A cfg \in Config : Loaded(cfg) \in Results /\ Rendered(cfg) \in Results
  /\ \A i \in 0..Frames, a \in {"any", "narrow"} : Frame(i, a) \in Results
  /\ Pending \in Results
  BY DEF Results

LEMMA TypedInit == Init => Typed
  BY SessionAssumption, ResultsTyped
  DEF Init, Typed, Notes, Defaults, NoRequest, Config, LoadPCs, GetPCs, Calls

LEMMA AnswersTyped ==
  ASSUME Typed, NEW c \in Calls, NEW from, NEW r \in Results, Answers(c, from, r)
  PROVE  /\ pc' \in [Calls -> LoadPCs \cup GetPCs]
         /\ out' \in [Calls -> Results]
  BY DEF Answers, Goes, Typed, LoadPCs, GetPCs

LEMMA GoesTyped ==
  ASSUME Typed, NEW c \in Calls, NEW from, NEW to \in LoadPCs \cup GetPCs,
         Goes(c, from, to)
  PROVE  pc' \in [Calls -> LoadPCs \cup GetPCs]
  BY DEF Goes, Typed

LEMMA TypedKept == SInv /\ [Next]_vars => Typed'
<1> SUFFICES ASSUME SInv, [Next]_vars PROVE Typed'
  OBVIOUS
<1> USE CallsDiffer, ResultsTyped
<1>1. ASSUME NEW c \in Calls, NEW first \in {"take", "loop"}, Start(c, first)
      PROVE  Typed'
  <2>1. pc' \in [Calls -> LoadPCs \cup GetPCs]
    BY <1>1 DEF Start, SInv, Typed, Goes, LoadPCs, GetPCs
  <2> QED  BY <1>1, <2>1 DEF Start, SInv, Typed
<1>2. ASSUME NEW c \in Calls, NEW first \in {"take", "loop"}, Run(c, first)
      PROVE  Typed'
  <2>1. pc' \in [Calls -> LoadPCs \cup GetPCs]
    BY <1>2, GoesTyped DEF Run, SInv, LoadPCs, GetPCs
  <2> QED  BY <1>2, <2>1 DEF Run, SInv, Typed, objects
<1>3. ASSUME NEW c \in Loads, Take(c) PROVE Typed'
  <2>1. /\ pc' \in [Calls -> LoadPCs \cup GetPCs]
        /\ out' \in [Calls -> Results]
    BY <1>3, GoesTyped, AnswersTyped DEF Take, SInv, Typed, LoadPCs, Failures
  <2> QED  BY <1>3, <2>1 DEF Take, SInv, Typed, objects
<1>4. ASSUME NEW c \in Loads, ReadApply(c) \/ ReadAccepted(c) PROVE Typed'
  <2>1. pc' \in [Calls -> LoadPCs \cup GetPCs]
    BY <1>4, GoesTyped DEF ReadApply, ReadAccepted, SInv, LoadPCs
  <2>2. seen' \in [Calls -> Notes]
    <3> DEFINE a == [seen[c] EXCEPT !.apply = settings.apply]
               f == [seen[c] EXCEPT !.accepted = settings.accepted]
    <3>1. seen' = [seen EXCEPT ![c] = a] \/ seen' = [seen EXCEPT ![c] = f]
      BY <1>4 DEF ReadApply, ReadAccepted
    <3>2. seen[c] \in Notes /\ settings \in Config  BY DEF SInv, Typed
    <3>3. a \in Notes /\ f \in Notes  BY <3>2 DEF Config, Notes
    <3> HIDE DEF a, f
    <3> QED  BY <3>1, <3>3 DEF SInv, Typed, Notes
  <2> QED  BY <1>4, <2>1, <2>2 DEF Notes, ReadApply, ReadAccepted, SInv, Typed, objects
<1>5. ASSUME NEW c \in Loads, DecodeOk(c) PROVE Typed'
  <2>1. [apply |-> seen[c].apply, accepted |-> seen[c].accepted] \in Config
    BY DEF SInv, Typed, Notes, Config
  <2>2. /\ pc' \in [Calls -> LoadPCs \cup GetPCs]
        /\ out' \in [Calls -> Results]
    BY <1>5, <2>1, AnswersTyped DEF DecodeOk, SInv
  <2> QED  BY <1>5, <2>1, <2>2 DEF DecodeOk, SInv, Typed
<1>6. ASSUME NEW c \in Loads, DecodeFails(c) PROVE Typed'
  <2>1. /\ pc' \in [Calls -> LoadPCs \cup GetPCs]
        /\ out' \in [Calls -> Results]
    BY <1>6, AnswersTyped DEF DecodeFails, SInv, Failures
  <2> QED  BY <1>6, <2>1 DEF DecodeFails, SInv, Typed, objects
<1>7. ASSUME NEW c \in Gets, ReadLoop(c) PROVE Typed'
  <2>1. pc' \in [Calls -> LoadPCs \cup GetPCs]
    BY <1>7, GoesTyped DEF ReadLoop, SInv, GetPCs
  <2>2. seen' \in [Calls -> Notes]
    <3> DEFINE m == [seen[c] EXCEPT !.loop =
                       IF mode[c].request THEN request.loop ELSE TRUE]
    <3>1. seen' = [seen EXCEPT ![c] = m]  BY <1>7 DEF ReadLoop
    <3>2. seen[c] \in Notes /\ request.loop \in BOOLEAN  BY DEF SInv, Typed
    <3>3. m \in Notes  BY <3>2 DEF Notes
    <3> HIDE DEF m
    <3> QED  BY <3>1, <3>3 DEF SInv, Typed, Notes
  <2> QED  BY <1>7, <2>1, <2>2 DEF Notes, ReadLoop, SInv, Typed, objects
<1>8. ASSUME NEW c \in Gets, ReadScale(c) \/ RerenderFails(c) PROVE Typed'
  <2>1. pc' \in [Calls -> LoadPCs \cup GetPCs]
    BY <1>8, GoesTyped DEF ReadScale, RerenderFails, SInv, GetPCs
  <2> QED  BY <1>8, <2>1 DEF ReadScale, RerenderFails, SInv, Typed, objects
<1>9. ASSUME NEW c \in Gets, Rerender(c) PROVE Typed'
  <2>1. image \in Config
    BY <1>9 DEF Rerender, Answers, Goes, SInv, Typed, ImageInv, Obtained
  <2>2. /\ pc' \in [Calls -> LoadPCs \cup GetPCs]
        /\ out' \in [Calls -> Results]
    BY <1>9, <2>1, AnswersTyped DEF Rerender, SInv
  <2> QED  BY <1>9, <2>2 DEF Rerender, SInv, Typed, objects
<1>10. ASSUME NEW c \in Gets, Advance(c) PROVE Typed'
  <2>1. /\ pc' \in [Calls -> LoadPCs \cup GetPCs]
        /\ out' \in [Calls -> Results]
    BY <1>10, GoesTyped, AnswersTyped DEF Advance, SInv, Typed, GetPCs, Failures
  <2>2. Advanced(c) \in 0..Frames
    BY SessionAssumption DEF Advanced, SInv, Typed
  <2>3. Handed(c) \in {Stream!NoReply, Stream!EndReply}
                        \cup {Stream!Reply(i) : i \in 0..Frames}
    BY SessionAssumption DEF Handed, SInv, Typed
  <2> QED  BY <1>10, <2>1, <2>2, <2>3 DEF Advance, SInv, Typed, objects
<1>11. ASSUME NEW c \in Gets, Extract(c) PROVE Typed'
  <2>1. image \in Config /\ reply[c].kind = "frame"
    BY <1>11 DEF Extract, Answers, Goes, SInv, Typed, ImageInv, Obtained, GetInv
  <2>2. \E i \in 0..Frames : reply[c] = Stream!Reply(i)
    <3>1. reply[c] \in {Stream!NoReply, Stream!EndReply}
                        \cup {Stream!Reply(i) : i \in 0..Frames}
      BY DEF SInv, Typed
    <3>2. reply[c] # Stream!NoReply /\ reply[c] # Stream!EndReply
      BY <2>1 DEF Stream!NoReply, Stream!EndReply
    <3> QED  BY <3>1, <3>2
  <2>3. reply[c].index \in 0..Frames  BY <2>2 DEF Stream!Reply
  <2>4. Accepted \in {"any", "narrow"}  BY <2>1 DEF Accepted, Config
  <2>5. (IF reply[c].index < Frames THEN Frame(reply[c].index, Accepted)
         ELSE Error("extraction_failed")) \in Results
    BY <2>3, <2>4 DEF Failures
  <2>6. /\ pc' \in [Calls -> LoadPCs \cup GetPCs]
        /\ out' \in [Calls -> Results]
    BY <1>11, <2>5, AnswersTyped DEF Extract, SInv
  <2> QED  BY <1>11, <2>6 DEF Extract, SInv, Typed, objects
<1>12. ASSUME NEW c \in Calls, Finish(c) PROVE Typed'
  <2>1. pc' \in [Calls -> LoadPCs \cup GetPCs]
    BY <1>12, GoesTyped DEF Finish, SInv, GetPCs
  <2>2. out' \in [Calls -> Results]
    BY <1>12 DEF Finish, SInv, Typed, Failures
  <2> QED  BY <1>12, <2>1, <2>2 DEF Finish, SInv, Typed
<1>13. ASSUME NEW c \in Calls, Cancel(c) PROVE Typed'
  BY <1>13 DEF Cancel, SInv, Typed, objects
<1>14. ASSUME Set PROVE Typed'
  BY <1>14, SessionAssumption DEF Set, SetSettings, SetRequest, SInv, Typed, objects, Config
<1>15. ASSUME NEW o \in {"loader", "image"}, Drop(o) PROVE Typed'
  BY <1>15 DEF Drop, SInv, Typed
<1>16. CASE UNCHANGED vars
  BY <1>16 DEF vars, SInv, Typed
<1> QED
  BY <1>1, <1>2, <1>3, <1>4, <1>5, <1>6, <1>7, <1>8, <1>9, <1>10, <1>11, <1>12,
     <1>13, <1>14, <1>15, <1>16 DEF Next, LoadStep, GetStep, Calls
-----------------------------------------------------------------------------
(* What the steps leave alone that note something. *)

LEMMA ReadLoopMoves ==
  ASSUME NEW c, ReadLoop(c)
  PROVE  /\ Goes(c, "loop", "scale")
         /\ UNCHANGED <<settings, request, inner, image, cursor, mode, reply, out,
                        cancelled, objects>>
  BY DEF ReadLoop

LEMMA SetMoves ==
  ASSUME Set
  PROVE  UNCHANGED <<inner, image, cursor, pc, mode, seen, reply, out, cancelled,
                     objects>>
  BY DEF Set, SetSettings, SetRequest
-----------------------------------------------------------------------------
(* The loader is consumed once, and the image is made once. *)

LEMMA ConsumeKept == SInv /\ [Next]_vars => ConsumeInv'
<1> SUFFICES ASSUME SInv, [Next]_vars PROVE ConsumeInv'
  OBVIOUS
<1> DEFINE Fewer == /\ inner' => inner
                    /\ \A l \in Loads : Consumed(l)' => Consumed(l)
<1>0. /\ pc \in [Calls -> LoadPCs \cup GetPCs] /\ out \in [Calls -> Results]
      /\ ConsumeInv
  BY DEF SInv, Typed
<1> USE <1>0, CallsDiffer DEF Consumed, Busy
<1>1. ASSUME NEW c \in Loads, Start(c, "take") \/ Run(c, "take") PROVE Fewer
  BY <1>1 DEF Start, Run, Goes, objects
<1>2. ASSUME NEW c \in Loads, Take(c), ~inner PROVE Fewer
  BY <1>2 DEF Take, Answers, Goes, Error, objects
<1>3. ASSUME NEW c \in Loads, ReadApply(c) \/ ReadAccepted(c) PROVE Fewer
  BY <1>3 DEF ReadApply, ReadAccepted, Goes, objects
<1>4. ASSUME NEW c \in Loads, DecodeOk(c) \/ DecodeFails(c) PROVE Fewer
  BY <1>4 DEF DecodeOk, DecodeFails, Answers, Goes, objects
<1>5. ASSUME NEW c \in Gets, Start(c, "loop") \/ GetStep(c) PROVE Fewer
  BY <1>5, ReadLoopMoves
  DEF Start, GetStep, Run, ReadScale, Rerender, RerenderFails,
              Advance, Extract, Finish, Answers, Goes, objects
<1>6. ASSUME NEW c \in Loads, Finish(c) PROVE Fewer
  BY <1>6 DEF Finish, Goes, Error
<1>7. ASSUME \/ \E c \in Calls : Cancel(c)
             \/ Set
             \/ \E o \in {"loader", "image"} : Drop(o)
             \/ UNCHANGED vars
      PROVE  Fewer
  BY <1>7, SetMoves DEF Cancel, Drop, vars, objects
<1>8. Fewer => ConsumeInv'
  <2> HIDE DEF Consumed
  <2> QED  BY DEF ConsumeInv
<1>9. ASSUME NEW c \in Loads, Take(c), inner PROVE ConsumeInv'
  <2>1. ~inner' /\ \A l \in Loads : Consumed(l)' => Consumed(l) \/ l = c
    BY <1>9 DEF Take, Goes, objects
  <2> HIDE DEF Consumed
  <2> QED  BY <1>9, <2>1 DEF ConsumeInv
<1> HIDE DEF Fewer
<1> QED
  BY <1>1, <1>2, <1>3, <1>4, <1>5, <1>6, <1>7, <1>8, <1>9 DEF Next, LoadStep, Calls

(* Once the application got the image, it did. *)
LEMMA ObtainedStays == SInv /\ [Next]_vars /\ Obtained => Obtained'
<1> SUFFICES ASSUME SInv, [Next]_vars, NEW l \in Loads,
                    pc[l] = "done", out[l].kind = "image"
             PROVE  pc'[l] = "done" /\ out'[l].kind = "image"
  BY DEF Obtained
<1> USE CallsDiffer DEF SInv, Typed
<1>1. ASSUME NEW c \in Loads, Start(c, "take") \/ LoadStep(c)
      PROVE  pc'[l] = "done" /\ out'[l].kind = "image"
  BY <1>1 DEF Start, LoadStep, Run, Take, ReadApply, ReadAccepted, DecodeOk,
              DecodeFails, Finish, Answers, Goes, objects
<1>2. ASSUME NEW c \in Gets, Start(c, "loop") \/ GetStep(c)
      PROVE  pc'[l] = "done" /\ out'[l].kind = "image"
  BY <1>2, ReadLoopMoves
  DEF Start, GetStep, Run, ReadScale, Rerender, RerenderFails,
              Advance, Extract, Finish, Answers, Goes, objects
<1>3. ASSUME \/ \E c \in Calls : Cancel(c)
             \/ Set
             \/ \E o \in {"loader", "image"} : Drop(o)
             \/ UNCHANGED vars
      PROVE  pc'[l] = "done" /\ out'[l].kind = "image"
  BY <1>3, SetMoves DEF Cancel, Drop, vars, objects
<1> QED  BY <1>1, <1>2, <1>3 DEF Next, Calls

(* A step that makes no image, no new result with one and no new busy load
   keeps the invariant. *)
LEMMA ImageFrame ==
  ASSUME ImageInv, Obtained => Obtained', image' = image, inner' => inner,
         "image" \in held' => "image" \in held \/ Obtained',
         \A l \in Loads : Busy(l)' => image = NoImage,
         \A l \in Loads : out'[l] = out[l] \/ out'[l].kind # "image",
         \A g \in Gets : \/ out'[g] = out[g]
                         \/ out'[g].kind # "rendered"
                         \/ out'[g] = Rendered(image) /\ image # NoImage,
         \A g \in Gets : pc'[g] # "idle" => pc[g] # "idle" \/ Obtained,
         \A g \in Gets : out'[g] = out[g] \/ out'[g].kind # "image"
  PROVE  ImageInv'
<1> USE DEF ImageInv
<1>1. \A l \in Loads : out'[l].kind = "image" =>
         image' # NoImage /\ out'[l] = Loaded(image)'
  BY DEF Loaded
<1>2. \A g \in Gets : out'[g].kind = "rendered" =>
         image' # NoImage /\ out'[g] = Rendered(image)'
  BY DEF Rendered
<1>3. "image" \in held' => Obtained'  OBVIOUS
<1>4. \A g \in Gets : pc'[g] # "idle" => Obtained'  OBVIOUS
<1>5. \A g \in Gets : out'[g].kind # "image"  OBVIOUS
<1> QED  BY <1>1, <1>2, <1>3, <1>4, <1>5

LEMMA ImageKept == SInv /\ [Next]_vars => ImageInv'
<1> SUFFICES ASSUME SInv, [Next]_vars PROVE ImageInv'
  OBVIOUS
<1> DEFINE Quiet ==
      /\ image' = image /\ (inner' => inner)
      /\ "image" \in held' => "image" \in held \/ Obtained'
      /\ \A l \in Loads : Busy(l)' => image = NoImage
      /\ \A l \in Loads : out'[l] = out[l] \/ out'[l].kind # "image"
      /\ \A g \in Gets : \/ out'[g] = out[g]
                         \/ out'[g].kind # "rendered"
                         \/ out'[g] = Rendered(image) /\ image # NoImage
      /\ \A g \in Gets : pc'[g] # "idle" => pc[g] # "idle" \/ Obtained
      /\ \A g \in Gets : out'[g] = out[g] \/ out'[g].kind # "image"
<1>0. Quiet => ImageInv'  BY ObtainedStays, ImageFrame DEF SInv
<1>a. /\ pc \in [Calls -> LoadPCs \cup GetPCs] /\ out \in [Calls -> Results]
      /\ ImageInv
  BY DEF SInv, Typed
<1> USE <1>a, CallsDiffer DEF ImageInv, Busy
<1>1. ASSUME NEW c \in Loads, Start(c, "take") \/ Run(c, "take") PROVE Quiet
  BY <1>1 DEF Start, Run, Goes, objects
<1>2. ASSUME NEW c \in Gets, Start(c, "loop") PROVE Quiet
  BY <1>2 DEF Start, Goes, ObjectOf
<1>3. ASSUME NEW c \in Loads, Take(c) PROVE Quiet
  BY <1>3 DEF Take, Answers, Goes, Error, objects
<1>4. ASSUME NEW c \in Loads, ReadApply(c) \/ ReadAccepted(c) PROVE Quiet
  BY <1>4 DEF ReadApply, ReadAccepted, Goes, objects
<1>5. ASSUME NEW c \in Loads, DecodeOk(c) PROVE ImageInv'
  <2> DEFINE cfg == [apply |-> seen[c].apply, accepted |-> seen[c].accepted]
  <2>1. image = NoImage /\ ~inner /\ Busy(c)
    BY <1>5 DEF DecodeOk, Answers, Goes, SInv, ConsumeInv, Consumed
  <2>2. cfg \in Config  BY DEF SInv, Typed, Notes, Config
  <2>3. /\ \A l \in Loads : out[l].kind # "image"
        /\ \A g \in Gets : out[g].kind # "rendered" /\ pc[g] = "idle"
        /\ "image" \notin held
        /\ \A l \in Loads : Busy(l) => l = c
    BY <2>1 DEF Obtained, SInv, ConsumeInv, Consumed
  <2>4. /\ image' = cfg /\ inner' = inner
        /\ out' = [out EXCEPT ![c] = Loaded(cfg)]
        /\ pc' = [pc EXCEPT ![c] = IF mode[c].async THEN "out" ELSE "done"]
        /\ held' = IF mode[c].async THEN held ELSE held \cup {"image"}
    BY <1>5 DEF DecodeOk, Answers, Goes
  <2>5. cfg # NoImage  BY <2>2, NoImageDiffers
  <2>6. Loaded(cfg).kind = "image"  BY DEF Loaded
  <2> HIDE DEF cfg
  <2>7. "image" \in held' => Obtained'
    BY <2>3, <2>4, <2>6 DEF Obtained
  <2> QED  BY <2>1, <2>3, <2>4, <2>5, <2>6, <2>7
<1>6. ASSUME NEW c \in Loads, DecodeFails(c) PROVE Quiet
  BY <1>6 DEF DecodeFails, Answers, Goes, Error, objects
<1>7. ASSUME NEW c \in Gets,
             Run(c, "loop") \/ ReadLoop(c) \/ ReadScale(c) \/ RerenderFails(c)
      PROVE  Quiet
  BY <1>7, ReadLoopMoves DEF Run, ReadScale, RerenderFails, Goes, objects
<1>8. ASSUME NEW c \in Gets, Rerender(c) PROVE Quiet
  <2>1. image # NoImage  BY <1>8 DEF Rerender, Answers, Goes, Obtained
  <2> QED  BY <1>8, <2>1 DEF Rerender, Answers, Goes, Rendered, objects
<1>9. ASSUME NEW c \in Gets, Advance(c) PROVE Quiet
  BY <1>9 DEF Advance, Answers, Goes, Error, objects
<1>10. ASSUME NEW c \in Gets, Extract(c) PROVE Quiet
  BY <1>10 DEF Extract, Answers, Goes, Error, Frame, objects
<1>11. ASSUME NEW c \in Loads, Finish(c) PROVE Quiet
  BY <1>11 DEF Finish, Goes, Error, Obtained
<1>12. ASSUME NEW c \in Gets, Finish(c) PROVE Quiet
  <2>1. pc[c] # "idle" /\ Obtained'  BY <1>12, ObtainedStays DEF Finish, Goes
  <2> QED  BY <1>12, <2>1 DEF Finish, Goes, Error
<1>13. ASSUME \/ \E c \in Calls : Cancel(c)
              \/ Set
              \/ \E o \in {"loader", "image"} : Drop(o)
              \/ UNCHANGED vars
       PROVE  Quiet
  BY <1>13, SetMoves DEF Cancel, Drop, vars, objects
<1> HIDE DEF Quiet
<1> QED
  BY <1>0, <1>1, <1>2, <1>3, <1>4, <1>5, <1>6, <1>7, <1>8, <1>9, <1>10, <1>11,
     <1>12, <1>13 DEF Next, LoadStep, GetStep, Calls
-----------------------------------------------------------------------------
(* Who waits where. *)

LEMMA WaitKept == SInv /\ [Next]_vars => WaitInv'
<1> SUFFICES ASSUME SInv, [Next]_vars PROVE WaitInv'
  OBVIOUS
<1>0. /\ pc \in [Calls -> LoadPCs \cup GetPCs] /\ out \in [Calls -> Results]
      /\ mode \in [Calls -> [async : BOOLEAN, request : BOOLEAN]]
      /\ WaitInv
  BY DEF SInv, Typed
<1> USE <1>0, CallsDiffer DEF WaitInv, InFlight
<1>1. ASSUME NEW c \in Calls, NEW first \in {"take", "loop"}, Start(c, first)
      PROVE  WaitInv'
  <2>1. c \in Loads => out[c].kind # "image"  BY <1>1 DEF Start, Goes
  <2> QED  BY <1>1, <2>1 DEF Start, Goes
<1>2. ASSUME NEW c \in Calls, NEW first \in {"take", "loop"}, Run(c, first)
      PROVE  WaitInv'
  BY <1>2 DEF Run, Goes, objects
<1>3. ASSUME NEW c \in Loads, Take(c) PROVE WaitInv'
  BY <1>3 DEF Take, Answers, Goes, Error, objects
<1>4. ASSUME NEW c \in Loads, ReadApply(c) \/ ReadAccepted(c) PROVE WaitInv'
  BY <1>4 DEF ReadApply, ReadAccepted, Goes, objects
<1>5. ASSUME NEW c \in Loads, DecodeOk(c) \/ DecodeFails(c) PROVE WaitInv'
  <2>1. /\ pc' = [pc EXCEPT ![c] = IF mode[c].async THEN "out" ELSE "done"]
        /\ \E r : out' = [out EXCEPT ![c] = r]
        /\ mode' = mode /\ held \subseteq held'
    BY <1>5 DEF DecodeOk, DecodeFails, Answers, Goes, objects
  <2> QED  BY <2>1
<1>6. ASSUME NEW c \in Gets, ReadLoop(c) \/ ReadScale(c) \/ RerenderFails(c)
      PROVE  WaitInv'
  BY <1>6, ReadLoopMoves DEF ReadScale, RerenderFails, Goes, objects
<1>7. ASSUME NEW c \in Gets, Rerender(c) \/ Extract(c) PROVE WaitInv'
  BY <1>7 DEF Rerender, Extract, Answers, Goes, objects
<1>8. ASSUME NEW c \in Gets, Advance(c) PROVE WaitInv'
  BY <1>8 DEF Advance, Answers, Goes, objects
<1>9. ASSUME NEW c \in Calls, Finish(c) PROVE WaitInv'
  BY <1>9 DEF Finish, Goes, Error
<1>10. ASSUME NEW o \in {"loader", "image"}, Drop(o) PROVE WaitInv'
  BY <1>10 DEF Drop
<1>11. ASSUME (\E c \in Calls : Cancel(c)) \/ Set \/ UNCHANGED vars PROVE WaitInv'
  BY <1>11, SetMoves DEF Cancel, vars, objects
<1> QED
  BY <1>1, <1>2, <1>3, <1>4, <1>5, <1>6, <1>7, <1>8, <1>9, <1>10, <1>11
  DEF Next, LoadStep, GetStep, Calls
-----------------------------------------------------------------------------
(* What a call for a frame has in hand. *)

(* A step that leaves the calls for frames alone, but for a cancellation. *)
LEMMA GetFrame ==
  ASSUME GetInv,
         \A g \in Gets :
           /\ pc'[g] = pc[g] /\ reply'[g] = reply[g] /\ out'[g] = out[g]
           /\ seen'[g] = seen[g] /\ (cancelled[g] => cancelled'[g])
  PROVE  GetInv'
  BY DEF GetInv

LEMMA GetKept == SInv /\ [Next]_vars => GetInv'
<1> SUFFICES ASSUME SInv, [Next]_vars PROVE GetInv'
  OBVIOUS
<1>0. /\ pc \in [Calls -> LoadPCs \cup GetPCs] /\ out \in [Calls -> Results]
      /\ seen \in [Calls -> Notes] /\ cancelled \in [Calls -> BOOLEAN]
      /\ reply \in [Gets -> {Stream!NoReply, Stream!EndReply}
                             \cup {Stream!Reply(i) : i \in 0..Frames}]
      /\ Frames \in Nat /\ cursor \in 0..Frames
      /\ GetInv
  BY SessionAssumption DEF SInv, Typed
<1>a. Stream!NoReply.kind = "none"  BY DEF Stream!NoReply
<1> USE <1>0, <1>a, CallsDiffer
<1>1. ASSUME NEW c \in Loads, Start(c, "take") \/ LoadStep(c) PROVE GetInv'
  <2>1. \A g \in Gets : pc'[g] = pc[g] /\ reply'[g] = reply[g] /\ out'[g] = out[g]
                        /\ cancelled'[g] = cancelled[g]
    BY <1>1 DEF Start, LoadStep, Run, Take, ReadApply, ReadAccepted, DecodeOk,
                DecodeFails, Finish, Answers, Goes, objects
  <2>2. \A g \in Gets : seen'[g] = seen[g]
    <3>1. CASE ReadApply(c) \/ ReadAccepted(c)
      <4> DEFINE a == [seen[c] EXCEPT !.apply = settings.apply]
                 f == [seen[c] EXCEPT !.accepted = settings.accepted]
      <4>1. seen' = [seen EXCEPT ![c] = a] \/ seen' = [seen EXCEPT ![c] = f]
        BY <3>1 DEF ReadApply, ReadAccepted
      <4> HIDE DEF a, f
      <4> QED  BY <4>1
    <3>2. CASE ~(ReadApply(c) \/ ReadAccepted(c))
      BY <1>1, <3>2 DEF Start, LoadStep, Run, Take, DecodeOk, DecodeFails, Finish
    <3> QED  BY <3>1, <3>2
  <2> QED  BY <2>1, <2>2, GetFrame
<1>2. ASSUME NEW c \in Gets, Start(c, "loop") \/ Run(c, "loop") PROVE GetInv'
  BY <1>2 DEF Start, Run, Goes, objects, GetInv
<1>3. ASSUME NEW c \in Gets, ReadLoop(c) PROVE GetInv'
  <2> DEFINE m == [seen[c] EXCEPT !.loop =
                     IF mode[c].request THEN request.loop ELSE TRUE]
  <2>1. seen' = [seen EXCEPT ![c] = m]  BY <1>3 DEF ReadLoop
  <2> HIDE DEF m
  <2> QED  BY <1>3, <2>1, ReadLoopMoves DEF Goes, objects, GetInv
<1>4. ASSUME NEW c \in Gets, ReadScale(c) \/ RerenderFails(c) PROVE GetInv'
  BY <1>4 DEF ReadScale, RerenderFails, Goes, objects, GetInv
<1>5. ASSUME NEW c \in Gets, Rerender(c) PROVE GetInv'
  BY <1>5 DEF Rerender, Answers, Goes, objects, Rendered, GetInv
<1>6. ASSUME NEW c \in Gets, Advance(c) PROVE GetInv'
  <2>1. CASE Handed(c) = Stream!EndReply
    <3>1. ~(Frames > 0 /\ seen[c].loop)
      BY <2>1 DEF Handed, Stream!EndReply, Stream!Reply
    <3>2. /\ pc' = [pc EXCEPT ![c] = IF mode[c].async THEN "out" ELSE "done"]
          /\ out' = [out EXCEPT ![c] = Error("no_more_frames")]
          /\ reply' = [reply EXCEPT ![c] = Stream!EndReply]
          /\ UNCHANGED <<seen, cancelled>>
      BY <1>6, <2>1 DEF Advance, Answers, Goes
    <3> QED  BY <3>1, <3>2 DEF Stream!EndReply, GetInv
  <2>2. CASE Handed(c) # Stream!EndReply
    <3>1. PICK i \in 0..Frames : i < Frames /\ Handed(c) = Stream!Reply(i)
      <4>1. cursor < Frames => Handed(c) = Stream!Reply(cursor)  BY DEF Handed
      <4>2. ~(cursor < Frames) => Handed(c) = Stream!Reply(0) /\ Frames > 0
        BY <2>2 DEF Handed
      <4> QED  BY <4>1, <4>2
    <3>2. Stream!Reply(i).kind = "frame" /\ Stream!Reply(i).index = i
      BY DEF Stream!Reply
    <3>3. /\ pc' = [pc EXCEPT ![c] = "extract"]
          /\ reply' = [reply EXCEPT ![c] = Stream!Reply(i)]
          /\ UNCHANGED <<out, seen, cancelled>>
      BY <1>6, <2>2, <3>1 DEF Advance, Goes
    <3> QED  BY <3>1, <3>2, <3>3 DEF GetInv
  <2> QED  BY <2>1, <2>2
<1>7. ASSUME NEW c \in Gets, Extract(c) PROVE GetInv'
  <2>1. pc[c] = "extract" /\ reply[c].kind = "frame" /\ reply[c].index < Frames
    BY <1>7 DEF Extract, Answers, Goes, GetInv
  <2>2. /\ pc' = [pc EXCEPT ![c] = IF mode[c].async THEN "out" ELSE "done"]
        /\ out' = [out EXCEPT ![c] = Frame(reply[c].index, Accepted)]
        /\ UNCHANGED <<reply, seen, cancelled>>
    BY <1>7, <2>1 DEF Extract, Answers, Goes
  <2> QED  BY <2>1, <2>2 DEF Frame, GetInv
<1>8. ASSUME NEW c \in Calls, Finish(c) PROVE GetInv'
  <2>1. /\ pc[c] = "out" /\ pc' = [pc EXCEPT ![c] = "done"]
        /\ out' = [out EXCEPT ![c] = IF cancelled[c] THEN Error("cancelled") ELSE @]
        /\ UNCHANGED <<reply, seen, cancelled>>
    BY <1>8 DEF Finish, Goes
  <2> QED  BY <2>1 DEF Error, GetInv
<1>9. ASSUME NEW c \in Calls, Cancel(c) PROVE GetInv'
  BY <1>9, GetFrame DEF Cancel
<1>10. ASSUME \/ Set
              \/ \E o \in {"loader", "image"} : Drop(o)
              \/ UNCHANGED vars
       PROVE  GetInv'
  BY <1>10, SetMoves, GetFrame DEF Drop, vars
<1> QED
  BY <1>1, <1>2, <1>3, <1>4, <1>5, <1>6, <1>7, <1>8, <1>9, <1>10
  DEF Next, LoadStep, GetStep, Calls
-----------------------------------------------------------------------------
(* The reference counts. *)

LEMMA HoldersTyped ==
  ASSUME NEW o, IsFiniteSet(Tasks(o))
  PROVE  Holders(o) \in Nat /\ Cardinality(Tasks(o)) \in Nat
  BY FS_CardinalityType DEF Holders, One

LEMMA ImageWaitsSame ==
  ASSUME \A l \in Loads : (pc'[l] = "out" /\ out'[l].kind = "image")
                            <=> (pc[l] = "out" /\ out[l].kind = "image")
  PROVE  ImageWaits' <=> ImageWaits
  BY DEF ImageWaits

LEMMA TasksSame ==
  ASSUME mode' = mode, NEW o,
         \A c \in Calls : mode[c].async /\ ObjectOf(c) = o
                            => (InFlight(c)' <=> InFlight(c))
  PROVE  Tasks(o)' = Tasks(o)
  BY DEF Tasks, ObjectOf

(* A step that moves no reference. *)
LEMMA RefsFrame ==
  ASSUME RefsInv, refs' = refs, held' = held, mode' = mode,
         \A c \in Calls : mode[c].async => (InFlight(c)' <=> InFlight(c)),
         \A l \in Loads : (pc'[l] = "out" /\ out'[l].kind = "image")
                            <=> (pc[l] = "out" /\ out[l].kind = "image")
  PROVE  RefsInv'
<1>1. \A o : Tasks(o)' = Tasks(o)  BY TasksSame
<1>2. ImageWaits' <=> ImageWaits  BY ImageWaitsSame
<1>3. \A o : Holders(o)' = Holders(o)  BY <1>1, <1>2 DEF Holders, One
<1> QED  BY <1>1, <1>3 DEF RefsInv

LEMMA RefsKept == SInv /\ [Next]_vars => RefsInv'
<1> SUFFICES ASSUME SInv, [Next]_vars PROVE RefsInv'
  OBVIOUS
<1>0. /\ pc \in [Calls -> LoadPCs \cup GetPCs] /\ out \in [Calls -> Results]
      /\ mode \in [Calls -> [async : BOOLEAN, request : BOOLEAN]]
      /\ RefsInv /\ WaitInv /\ ImageInv /\ ConsumeInv
      /\ held \subseteq {"loader", "image"}
  BY DEF SInv, Typed
<1> USE <1>0, CallsDiffer
<1> DEFINE Moves == /\ refs' = refs /\ held' = held /\ mode' = mode
                    /\ \A c \in Calls : mode[c].async => (InFlight(c)' <=> InFlight(c))
                    /\ \A l \in Loads : (pc'[l] = "out" /\ out'[l].kind = "image")
                                          <=> (pc[l] = "out" /\ out[l].kind = "image")
<1>a. Moves => RefsInv'  BY RefsFrame
<1>1. ASSUME NEW c \in Calls, NEW first \in {"take", "loop"}, Start(c, first)
      PROVE  RefsInv'
  <2> DEFINE o == ObjectOf(c)
  <2>0. o \in {"loader", "image"}  OBVIOUS
  <2>1. /\ pc[c] = "idle"
        /\ pc' = [pc EXCEPT ![c] = IF mode[c].async THEN "queued" ELSE first]
        /\ out' = out /\ mode' = mode /\ held' = held
    BY <1>1 DEF Start, Goes
  <2>2. CASE ~mode[c].async
    <3>1. refs' = refs  BY <1>1, <2>2 DEF Start
    <3>2. Moves  BY <2>1, <2>2, <3>1 DEF InFlight
    <3> QED  BY <1>a, <3>2
  <2>3. CASE mode[c].async
    <3>1. refs' = [refs EXCEPT ![o] = @ + 1]  BY <1>1, <2>3 DEF Start
    <3>2. /\ Tasks(o)' = Tasks(o) \cup {c} /\ c \notin Tasks(o)
          /\ \A u : u # o => Tasks(u)' = Tasks(u)
      BY <2>1, <2>3 DEF Tasks, InFlight, ObjectOf
    <3>3. ImageWaits' <=> ImageWaits  BY <2>1, <2>3, ImageWaitsSame
    <3>4. IsFiniteSet(Tasks(o)) /\ Cardinality(Tasks(o)) \in Nat
      BY <2>0, HoldersTyped DEF RefsInv
    <3>5. /\ IsFiniteSet(Tasks(o)')
          /\ Cardinality(Tasks(o)') = Cardinality(Tasks(o)) + 1
      BY <3>2, <3>4, FS_AddElement
    <3>6. Holders(o)' = Holders(o) + 1
      BY <2>1, <3>3, <3>4, <3>5 DEF Holders, One
    <3>7. \A u : u # o => Holders(u)' = Holders(u)
      BY <2>1, <3>2, <3>3 DEF Holders, One
    <3> HIDE DEF o
    <3>8. refs' \in [{"loader", "image"} -> Nat]  BY <2>0, <3>1 DEF RefsInv
    <3>9. \A u \in {"loader", "image"} :
            IsFiniteSet(Tasks(u)') /\ refs'[u] = Holders(u)'
      BY <2>0, <3>1, <3>2, <3>5, <3>6, <3>7 DEF RefsInv
    <3> QED  BY <3>8, <3>9 DEF RefsInv
  <2> QED  BY <2>2, <2>3
<1>2. ASSUME NEW c \in Calls, NEW first \in {"take", "loop"}, Run(c, first)
      PROVE  Moves
  BY <1>2 DEF Run, Goes, objects, InFlight
<1>3. ASSUME NEW c \in Loads, Take(c) PROVE Moves
  BY <1>3 DEF Take, Answers, Goes, Error, objects, InFlight, WaitInv
<1>4. ASSUME NEW c \in Loads, ReadApply(c) \/ ReadAccepted(c) PROVE Moves
  BY <1>4 DEF ReadApply, ReadAccepted, Goes, objects, InFlight
<1>5. ASSUME NEW c \in Loads, DecodeOk(c) PROVE RefsInv'
  <2> DEFINE cfg == [apply |-> seen[c].apply, accepted |-> seen[c].accepted]
  <2>1. /\ pc[c] = "decode"
        /\ pc' = [pc EXCEPT ![c] = IF mode[c].async THEN "out" ELSE "done"]
        /\ out' = [out EXCEPT ![c] = Loaded(cfg)] /\ mode' = mode
        /\ refs' = [refs EXCEPT !.image = 1]
        /\ held' = IF mode[c].async THEN held ELSE held \cup {"image"}
    BY <1>5 DEF DecodeOk, Answers, Goes
  <2>2. image = NoImage  BY <2>1 DEF ImageInv, Busy
  <2>3. /\ \A l \in Loads : out[l].kind # "image"
        /\ \A g \in Gets : pc[g] = "idle"
        /\ "image" \notin held
    BY <2>2 DEF ImageInv, Obtained
  <2>4. Tasks("image") = {} /\ Tasks("image")' = {}
    BY <2>1, <2>3 DEF Tasks, InFlight, Calls, ObjectOf
  <2>5. Tasks("loader")' = Tasks("loader")
    BY <2>1, TasksSame DEF InFlight
  <2>6. ImageWaits' <=> mode[c].async
    BY <2>1, <2>3 DEF ImageWaits, Loaded
  <2>7. Cardinality({}) = 0 /\ IsFiniteSet({})  BY FS_EmptySet
  <2>8. Holders("image")' = 1
    <3>1. Cardinality(Tasks("image")') = 0  BY <2>4, <2>7
    <3>2. One("image" \in held') + One(ImageWaits') = 1
      BY <2>1, <2>3, <2>6 DEF One
    <3>3. Holders("image")' = One("image" \in held') + 0 + One(ImageWaits')
      BY <3>1 DEF Holders, One
    <3> QED  BY <3>2, <3>3 DEF One
  <2>9. Holders("loader")' = Holders("loader")
    BY <2>1, <2>5 DEF Holders, One
  <2> HIDE DEF cfg
  <2> QED  BY <2>1, <2>4, <2>5, <2>7, <2>8, <2>9 DEF RefsInv
<1>6. ASSUME NEW c \in Loads, DecodeFails(c) PROVE Moves
  BY <1>6 DEF DecodeFails, Answers, Goes, Error, objects, InFlight, WaitInv
<1>7. ASSUME NEW c \in Gets, ReadLoop(c) \/ ReadScale(c) \/ RerenderFails(c)
      PROVE  Moves
  BY <1>7, ReadLoopMoves DEF ReadScale, RerenderFails, Goes, objects, InFlight
<1>8. ASSUME NEW c \in Gets, Rerender(c) \/ Extract(c) PROVE Moves
  BY <1>8 DEF Rerender, Extract, Answers, Goes, objects, InFlight
<1>9. ASSUME NEW c \in Gets, Advance(c) PROVE Moves
  BY <1>9 DEF Advance, Answers, Goes, objects, InFlight
<1>10. ASSUME NEW c \in Calls, Finish(c) PROVE RefsInv'
  <2> DEFINE o == ObjectOf(c)
             lost == cancelled[c] /\ out[c].kind = "image"
             kept == out[c].kind = "image" /\ ~cancelled[c]
  <2>1. /\ pc[c] = "out" /\ pc' = [pc EXCEPT ![c] = "done"] /\ mode' = mode
        /\ out' = [out EXCEPT ![c] = IF cancelled[c] THEN Error("cancelled") ELSE @]
        /\ held' = IF kept THEN held \cup {"image"} ELSE held
        /\ refs' = [u \in {"loader", "image"} |->
                      IF u = o THEN refs[u] - 1
                      ELSE IF lost /\ u = "image" THEN refs[u] - 1 ELSE refs[u]]
    BY <1>10 DEF Finish, Goes
  <2>2. mode[c].async /\ o \in {"loader", "image"}
    BY <2>1 DEF WaitInv
  <2>3. /\ Tasks(o)' = Tasks(o) \ {c} /\ c \in Tasks(o)
        /\ \A u : u # o => Tasks(u)' = Tasks(u)
    BY <2>1, <2>2 DEF Tasks, InFlight, ObjectOf
  <2>4. IsFiniteSet(Tasks(o)) /\ Cardinality(Tasks(o)) \in Nat
    BY <2>2, HoldersTyped DEF RefsInv
  <2>5. /\ IsFiniteSet(Tasks(o)')
        /\ Cardinality(Tasks(o)') = Cardinality(Tasks(o)) - 1
    BY <2>3, <2>4, FS_RemoveElement
  <2>6. out[c].kind = "image" =>
          c \in Loads /\ ImageWaits /\ ~ImageWaits' /\ "image" \notin held
    <3> SUFFICES ASSUME out[c].kind = "image" PROVE
          c \in Loads /\ ImageWaits /\ ~ImageWaits' /\ "image" \notin held
      OBVIOUS
    <3>1. c \in Loads  BY DEF ImageInv, Calls
    <3>2. \A l \in Loads : out[l].kind = "image" => l = c
      BY <3>1 DEF ConsumeInv, Consumed
    <3> QED  BY <2>1, <3>1, <3>2 DEF ImageWaits, ImageInv, Obtained
  <2>7. out[c].kind # "image" => (ImageWaits' <=> ImageWaits)
    <3> SUFFICES ASSUME out[c].kind # "image" PROVE ImageWaits' <=> ImageWaits
      OBVIOUS
    <3>1. out'[c].kind # "image"  BY <2>1 DEF Error
    <3> QED  BY <2>1, <3>1, ImageWaitsSame
  <2>8. Holders(o)' = Holders(o) - 1
    <3>1. CASE out[c].kind = "image"
      <4>1. o = "loader" /\ o # "image"  BY <2>6, <3>1
      <4>2. One(o \in held') = One(o \in held)  BY <2>1, <4>1
      <4>3. One(o = "image" /\ ImageWaits') = 0 /\ One(o = "image" /\ ImageWaits) = 0
        BY <4>1 DEF One
      <4>4. One(o \in held) \in Nat  BY DEF One
      <4>5. Holders(o) = One(o \in held) + Cardinality(Tasks(o)) + 0
        BY <4>3 DEF Holders
      <4>6. Holders(o)' = One(o \in held') + Cardinality(Tasks(o)') + 0
        BY <4>1, <4>3 DEF Holders
      <4> QED  BY <2>4, <2>5, <4>2, <4>4, <4>5, <4>6
    <3>2. CASE out[c].kind # "image"
      <4>1. held' = held  BY <2>1, <3>2
      <4>2. One(o = "image" /\ ImageWaits') = One(o = "image" /\ ImageWaits)
        BY <2>7, <3>2
      <4>3. One(o \in held) \in Nat /\ One(o = "image" /\ ImageWaits) \in Nat
        BY DEF One
      <4>4. Holders(o)' = One(o \in held) + Cardinality(Tasks(o)')
                            + One(o = "image" /\ ImageWaits')
        BY <4>1 DEF Holders
      <4> QED  BY <2>4, <2>5, <4>2, <4>3, <4>4 DEF Holders
    <3> QED  BY <3>1, <3>2
  <2>9. \A u \in {"loader", "image"} :
          u # o => Holders(u)' = IF lost /\ u = "image" THEN Holders(u) - 1
                                 ELSE Holders(u)
    <3> SUFFICES ASSUME NEW u \in {"loader", "image"}, u # o
                 PROVE  Holders(u)' = IF lost /\ u = "image" THEN Holders(u) - 1
                                      ELSE Holders(u)
      OBVIOUS
    <3>1. Tasks(u)' = Tasks(u) /\ Cardinality(Tasks(u)) \in Nat
      BY <2>3, HoldersTyped DEF RefsInv
    <3>2. CASE out[c].kind = "image"
      BY <2>1, <2>6, <3>1, <3>2 DEF Holders, One
    <3>3. CASE out[c].kind # "image"
      BY <2>1, <2>7, <3>1, <3>3 DEF Holders, One
    <3> QED  BY <3>2, <3>3
  <2> HIDE DEF o, lost, kept
  <2>10. \A u \in {"loader", "image"} : refs'[u] = Holders(u)'
    BY <2>1, <2>8, <2>9 DEF RefsInv
  <2>11. \A u \in {"loader", "image"} : IsFiniteSet(Tasks(u)')
    BY <2>3, <2>5 DEF RefsInv
  <2>12. \A u \in {"loader", "image"} : Holders(u)' \in Nat
    BY <2>11, FS_CardinalityType DEF Holders, One
  <2> QED  BY <2>1, <2>10, <2>11, <2>12 DEF RefsInv
<1>11. ASSUME (\E c \in Calls : Cancel(c)) \/ Set \/ UNCHANGED vars PROVE Moves
  BY <1>11, SetMoves DEF Cancel, vars, objects, InFlight
<1>12. ASSUME NEW o \in {"loader", "image"}, Drop(o) PROVE RefsInv'
  <2>1. /\ o \in held /\ held' = held \ {o} /\ refs' = [refs EXCEPT ![o] = @ - 1]
        /\ UNCHANGED <<pc, out, mode>>
    BY <1>12 DEF Drop
  <2>2. \A u : Tasks(u)' = Tasks(u)  BY <2>1, TasksSame DEF InFlight
  <2>3. ImageWaits' <=> ImageWaits  BY <2>1, ImageWaitsSame
  <2>4. \A u \in {"loader", "image"} : Cardinality(Tasks(u)) \in Nat
    BY HoldersTyped DEF RefsInv
  <2>5. \A u \in {"loader", "image"} :
          Holders(u)' = IF u = o THEN Holders(u) - 1 ELSE Holders(u)
    BY <2>1, <2>2, <2>3, <2>4 DEF Holders, One
  <2>6. \A u \in {"loader", "image"} : Holders(u)' \in Nat
    BY <2>2, <2>4 DEF Holders, One
  <2> QED  BY <2>1, <2>2, <2>5, <2>6 DEF RefsInv
<1> HIDE DEF Moves
<1> QED
  BY <1>a, <1>1, <1>2, <1>3, <1>4, <1>5, <1>6, <1>7, <1>8, <1>9, <1>10, <1>11,
     <1>12 DEF Next, LoadStep, GetStep, Calls
-----------------------------------------------------------------------------
LEMMA SInvInit == Init => SInv
<1> SUFFICES ASSUME Init PROVE SInv
  OBVIOUS
<1>1. Typed  BY TypedInit
<1>2. ConsumeInv /\ ImageInv /\ WaitInv
  BY CallsDiffer
  DEF Init, ConsumeInv, Consumed, Busy, ImageInv, WaitInv, InFlight, Pending
<1>3. GetInv  BY CallsDiffer DEF Init, GetInv, Stream!NoReply
<1>4. Tasks("loader") = {} /\ Tasks("image") = {} /\ ~ImageWaits
  BY CallsDiffer DEF Init, Tasks, ImageWaits, InFlight
<1>5. Cardinality({}) = 0 /\ IsFiniteSet({})  BY FS_EmptySet
<1>6. Holders("loader") = 1 /\ Holders("image") = 0
  <2>1. One("loader" \in held) = 1 /\ One("image" \in held) = 0  BY DEF Init, One
  <2>2. /\ One("loader" = "image" /\ ImageWaits) = 0
        /\ One("image" = "image" /\ ImageWaits) = 0
    BY <1>4 DEF One
  <2> QED  BY <1>4, <1>5, <2>1, <2>2 DEF Holders
<1>7. refs = [loader |-> 1, image |-> 0]  BY DEF Init
<1>8. RefsInv  BY <1>4, <1>5, <1>6, <1>7 DEF RefsInv
<1> QED  BY <1>1, <1>2, <1>3, <1>8 DEF SInv

LEMMA SInvKept == SInv /\ [Next]_vars => SInv'
  BY TypedKept, ConsumeKept, ImageKept, WaitKept, GetKept, RefsKept DEF SInv

THEOREM SessionInductive == Spec => []SInv
  BY SInvInit, SInvKept, PTL DEF Spec

(* Every variable of the session keeps its type; a reference count, which
   steps decrement, never falls below zero. *)
THEOREM SessionTypes == Spec => []SessionTypeOK
<1>1. SInv => SessionTypeOK
  BY DEF SInv, Typed, Notes, RefsInv, SessionTypeOK
<1> QED  BY <1>1, SessionInductive, PTL

(* However many calls of gly_loader_load race, one consumes the loader. *)
THEOREM ConsumedOnce == Spec => []LoaderIsConsumedOnce
<1>1. ASSUME SInv PROVE LoaderIsConsumedOnce
  <2> DEFINE S == {l \in Loads : \/ pc[l] \in {"apply", "accepted", "decode"}
                                 \/ out[l].kind \in {"image", "load_failed"}}
  <2>1. \A l, m \in S : l = m  BY <1>1 DEF SInv, ConsumeInv, Consumed, Busy
  <2>2. S = {} \/ \E l : S = {l}  BY <2>1
  <2>3. Cardinality({}) = 0 /\ \A l : Cardinality({l}) = 1
    BY FS_EmptySet, FS_Singleton
  <2>4. Cardinality(S) = 0 \/ Cardinality(S) = 1  BY <2>2, <2>3
  <2> QED  BY <2>4 DEF LoaderIsConsumedOnce
<1> QED  BY <1>1, SessionInductive, PTL

(* A call, synchronous or queued or waiting to be collected, finds its object
   alive. *)
THEOREM NothingFreedInUse == Spec => []NoUseAfterFree
<1>1. ASSUME SInv PROVE NoUseAfterFree
  <2> SUFFICES ASSUME NEW c \in Calls, InFlight(c) PROVE refs[ObjectOf(c)] > 0
    BY DEF NoUseAfterFree
  <2> DEFINE o == ObjectOf(c)
  <2>1. o \in {"loader", "image"}  BY CallsDiffer
  <2>2. IsFiniteSet(Tasks(o)) /\ refs[o] = Holders(o) /\ Cardinality(Tasks(o)) \in Nat
    BY <1>1, <2>1, HoldersTyped DEF SInv, RefsInv
  <2>3. CASE mode[c].async
    <3>1. c \in Tasks(o)  BY <2>3 DEF Tasks
    <3>2. Cardinality(Tasks(o)) # 0  BY <2>2, <3>1, FS_EmptySet
    <3> QED  BY <2>2, <3>2 DEF Holders, One
  <2>4. CASE ~mode[c].async
    <3>1. o \in held  BY <1>1, <2>4 DEF SInv, WaitInv
    <3> QED  BY <2>2, <3>1 DEF Holders, One
  <2> QED  BY <2>3, <2>4
<1> QED  BY <1>1, SessionInductive, PTL

(* An object nobody holds and no task refers to has no reference left. *)
THEOREM NothingKept == Spec => []NothingLeaks
<1>1. ASSUME SInv PROVE NothingLeaks
  <2> SUFFICES ASSUME NEW o \in {"loader", "image"}, o \notin held,
                      \A c \in Calls : ~InFlight(c)
               PROVE  refs[o] = 0
    BY DEF NothingLeaks
  <2>1. Tasks(o) = {} /\ ~ImageWaits
    BY CallsDiffer DEF Tasks, ImageWaits, InFlight
  <2>2. Cardinality({}) = 0  BY FS_EmptySet
  <2> QED  BY <1>1, <2>1, <2>2 DEF SInv, RefsInv, Holders, One
<1> QED  BY <1>1, SessionInductive, PTL

(* The frame a call took is the frame it returns, unless it was cancelled. *)
THEOREM FramesAreDelivered == Spec => []FrameIsDelivered
<1>1. SInv => FrameIsDelivered
  BY CallsDiffer DEF SInv, GetInv, FrameIsDelivered
<1> QED  BY <1>1, SessionInductive, PTL

(* A looping call on an image with frames gets one, or was cancelled. *)
THEOREM LoopingShows == Spec => []LoopingAlwaysShows
<1>1. SInv => LoopingAlwaysShows
  BY CallsDiffer DEF SInv, GetInv, LoopingAlwaysShows
<1> QED  BY <1>1, SessionInductive, PTL

(* A frame rendered again has the settings of the load that made the image. *)
THEOREM RerendersAreLikeLoad == Spec => []RerenderLikeLoad
<1>1. SInv => RerenderLikeLoad
  BY DEF SInv, ImageInv, RerenderLikeLoad, Loaded, Rendered
<1> QED  BY <1>1, SessionInductive, PTL
-----------------------------------------------------------------------------
(* The image implements FrameStream. *)

LEMMA ReadLoopAsks ==
  ASSUME SInv, NEW c \in Gets, ReadLoop(c)
  PROVE  [Stream!Next]_Stream!streamVars
<1> DEFINE b == IF mode[c].request THEN request.loop ELSE TRUE
           m == [seen[c] EXCEPT !.loop = b]
           L == [g \in Gets |-> seen[g].loop]
<1>1. seen' = [seen EXCEPT ![c] = m]  BY DEF ReadLoop
<1>2. b \in BOOLEAN /\ seen \in [Calls -> Notes] /\ c \in Calls
  BY CallsDiffer DEF SInv, Typed
<1>3. m.loop = b  BY <1>2 DEF Notes
<1>4. pc[c] = "loop"  BY ReadLoopMoves DEF Goes
<1>5. reply[c] = Stream!NoReply  BY <1>4 DEF SInv, GetInv
<1> HIDE DEF b, m
<1>6. L' = [L EXCEPT ![c] = b]  BY <1>1, <1>2, <1>3, CallsDiffer
<1>7. UNCHANGED <<reply, cursor>>  BY ReadLoopMoves
<1>8. Stream!Ask(c)  BY <1>2, <1>5, <1>6, <1>7 DEF Stream!Ask
<1> QED  BY <1>8 DEF Stream!Next

LEMMA AdvanceGives ==
  ASSUME SInv, NEW c \in Gets, Advance(c)
  PROVE  [Stream!Next]_Stream!streamVars
<1>1. reply[c] = Stream!NoReply
  BY DEF Advance, Answers, Goes, SInv, GetInv
<1>2. cursor \in 0..Frames /\ Frames \in Nat  BY SessionAssumption DEF SInv, Typed
<1>3. /\ cursor' = Advanced(c) /\ reply' = [reply EXCEPT ![c] = Handed(c)]
      /\ seen' = seen
  BY DEF Advance
<1> DEFINE L == [g \in Gets |-> seen[g].loop]
           next == IF cursor = Frames THEN 0 ELSE cursor
           started == cursor # 0
<1>4. L' = L /\ L[c] = seen[c].loop  BY <1>3
<1>5. ASSUME NEW i \in Nat, i < Frames, next = i, cursor' = i + 1,
             reply' = [reply EXCEPT ![c] = Stream!Reply(i)],
             i = cursor \/ seen[c].loop
      PROVE  Stream!Give(c)
  <2>1. Frames > 0 /\ (Stream!AtEnd => L[c])
    BY <1>2, <1>4, <1>5 DEF Stream!AtEnd
  <2>2. next' = IF next + 1 = Frames THEN 0 ELSE next + 1
    BY <1>2, <1>5
  <2>3. started' = TRUE  BY <1>5
  <2> QED  BY <1>1, <1>4, <1>5, <2>1, <2>2, <2>3 DEF Stream!Give
<1>6. CASE cursor < Frames
  <2>1. Handed(c) = Stream!Reply(cursor) /\ Advanced(c) = cursor + 1
    BY <1>6 DEF Handed, Advanced
  <2>2. next = cursor /\ cursor \in Nat  BY <1>2, <1>6
  <2>3. Stream!Give(c)  BY <1>3, <1>5, <1>6, <2>1, <2>2
  <2> QED  BY <2>3 DEF Stream!Next
<1>7. CASE ~(cursor < Frames) /\ Frames > 0 /\ seen[c].loop
  <2>1. Handed(c) = Stream!Reply(0) /\ Advanced(c) = 0 + 1
    BY <1>7 DEF Handed, Advanced
  <2>2. next = 0  BY <1>2, <1>7
  <2> QED  BY <1>2, <1>3, <1>5, <1>7, <2>1, <2>2 DEF Stream!Next
<1>8. CASE ~(cursor < Frames) /\ ~(Frames > 0 /\ seen[c].loop)
  <2>1. Handed(c) = Stream!EndReply /\ Advanced(c) = cursor
    BY <1>8 DEF Handed, Advanced
  <2>2. Stream!AtEnd /\ (Frames > 0 => ~L[c])
    BY <1>2, <1>4, <1>8 DEF Stream!AtEnd
  <2>3. next' = next /\ started' = started  BY <1>3, <2>1
  <2>4. Stream!End(c)
    BY <1>1, <1>3, <1>4, <2>1, <2>2, <2>3 DEF Stream!End
  <2> QED  BY <2>4 DEF Stream!Next
<1> QED  BY <1>6, <1>7, <1>8

(* Whatever threads its callers are on, the image gives its frames in order,
   one to each caller, and an end only to one that does not loop. *)
THEOREM SessionImplementsStream == Spec => StreamSpec
<1>1. ASSUME Init PROVE Stream!Init
  <2>1. cursor = 0 /\ reply = [c \in Gets |-> Stream!NoReply]  BY <1>1 DEF Init
  <2>2. \A c \in Gets : seen[c].loop = TRUE  BY <1>1, CallsDiffer DEF Init
  <2>3. [c \in Gets |-> seen[c].loop] = [c \in Gets |-> TRUE]  BY <2>2
  <2>4. (IF cursor = Frames THEN 0 ELSE cursor) = 0 /\ (cursor # 0) = FALSE  BY <2>1
  <2> QED  BY <2>1, <2>3, <2>4 DEF Stream!Init, Stream!NoReply
<1>2. ASSUME SInv, [Next]_vars PROVE [Stream!Next]_Stream!streamVars
  <2>1. ASSUME UNCHANGED <<reply, cursor>>, \A g \in Gets : seen'[g].loop = seen[g].loop
        PROVE  UNCHANGED Stream!streamVars
    BY <2>1 DEF Stream!streamVars
  <2>2. ASSUME NEW c \in Loads, Start(c, "take") \/ LoadStep(c)
        PROVE  UNCHANGED Stream!streamVars
    <3>1. UNCHANGED <<reply, cursor>>
      BY <2>2 DEF Start, LoadStep, Run, Take, ReadApply, ReadAccepted, DecodeOk,
                  DecodeFails, Finish
    <3>2. CASE ReadApply(c) \/ ReadAccepted(c)
      <4> DEFINE a == [seen[c] EXCEPT !.apply = settings.apply]
                 f == [seen[c] EXCEPT !.accepted = settings.accepted]
      <4>1. seen' = [seen EXCEPT ![c] = a] \/ seen' = [seen EXCEPT ![c] = f]
        BY <3>2 DEF ReadApply, ReadAccepted
      <4> HIDE DEF a, f
      <4>2. \A g \in Gets : seen'[g] = seen[g]
        BY <1>2, <4>1, CallsDiffer DEF SInv, Typed
      <4> QED  BY <2>1, <3>1, <4>2
    <3>3. CASE ~(ReadApply(c) \/ ReadAccepted(c))
      <4>1. seen' = seen
        BY <2>2, <3>3 DEF Start, LoadStep, Run, Take, DecodeOk, DecodeFails, Finish
      <4> QED  BY <2>1, <3>1, <4>1
    <3> QED  BY <3>2, <3>3
  <2>3. ASSUME NEW c \in Gets,
               \/ Start(c, "loop") \/ Run(c, "loop") \/ ReadScale(c) \/ Rerender(c)
               \/ RerenderFails(c) \/ Extract(c) \/ Finish(c)
        PROVE  UNCHANGED Stream!streamVars
    BY <2>1, <2>3 DEF Start, Run, ReadScale, Rerender, RerenderFails, Extract, Finish
  <2>4. ASSUME \/ \E c \in Calls : Cancel(c)
               \/ Set
               \/ \E o \in {"loader", "image"} : Drop(o)
               \/ UNCHANGED vars
        PROVE  UNCHANGED Stream!streamVars
    BY <2>1, <2>4, SetMoves DEF Cancel, Drop, vars
  <2> QED
    BY <1>2, <2>2, <2>3, <2>4, ReadLoopAsks, AdvanceGives
    DEF Next, GetStep, Calls
<1> QED
  BY <1>1, <1>2, SessionInductive, PTL DEF Spec, StreamSpec, Stream!Spec-----------------------------------------------------------------------------
(* The end of a call.  TLC checks that every call is answered; what is proved is
   what that rests on besides fairness. *)

(* How many steps a call has before it, at most, when it is at pc. *)
Left(pcOfCall) ==
  CASE pcOfCall = "idle" -> 8     [] pcOfCall = "queued" -> 7
    [] pcOfCall = "loop" -> 6     [] pcOfCall = "scale" -> 5
    [] pcOfCall = "rerender" -> 4 [] pcOfCall = "advance" -> 3
    [] pcOfCall = "extract" -> 2
    [] pcOfCall = "take" -> 5     [] pcOfCall = "apply" -> 4
    [] pcOfCall = "accepted" -> 3 [] pcOfCall = "decode" -> 2
    [] pcOfCall = "out" -> 1      [] OTHER -> 0

Begins(c) == \/ c \in Loads /\ Start(c, "take")
             \/ c \in Gets /\ Start(c, "loop")
Proceeds(c) == \/ c \in Loads /\ LoadStep(c)
               \/ c \in Gets /\ GetStep(c)

LEMMA AnswersNearer ==
  ASSUME NEW c \in Calls, NEW from, NEW r, Answers(c, from, r), Left(from) > 1
  PROVE  \E to : Goes(c, from, to) /\ Left(to) < Left(from)
<1>1. Left("out") = 1 /\ Left("done") = 0
  BY DEF Left
<1>2. PICK to \in {"out", "done"} : Goes(c, from, to)
  BY DEF Answers
<1>3. CASE from \in LoadPCs \cup GetPCs
  <2>1. Left(from) \in Nat
    BY <1>3 DEF LoadPCs, GetPCs, Left
  <2> QED  BY <1>1, <1>2, <2>1
<1>4. CASE from \notin LoadPCs \cup GetPCs
  <2>1. Left(from) = 0
    BY <1>4 DEF LoadPCs, GetPCs, Left
  <2> QED  BY <2>1
<1> QED  BY <1>3, <1>4

LEMMA CallNearer ==
  ASSUME NEW c \in Calls, Begins(c) \/ Proceeds(c)
  PROVE  \E from, to : Goes(c, from, to) /\ Left(to) < Left(from)
<1>1. CASE Begins(c)
  <2>1. \/ Goes(c, "idle", "queued") \/ Goes(c, "idle", "take") \/ Goes(c, "idle", "loop")
    BY <1>1 DEF Begins, Start
  <2>2. /\ Left("queued") < Left("idle") /\ Left("take") < Left("idle")
        /\ Left("loop") < Left("idle")
    BY DEF Left
  <2> QED  BY <2>1, <2>2
<1>2. CASE Run(c, "take") \/ Run(c, "loop") \/ Finish(c)
  <2>1. \/ Goes(c, "queued", "take") \/ Goes(c, "queued", "loop") \/ Goes(c, "out", "done")
    BY <1>2 DEF Run, Finish
  <2>2. /\ Left("take") < Left("queued") /\ Left("loop") < Left("queued")
        /\ Left("done") < Left("out")
    BY DEF Left
  <2> QED  BY <2>1, <2>2
<1>3. CASE Take(c) \/ ReadApply(c) \/ ReadAccepted(c) \/ DecodeOk(c) \/ DecodeFails(c)
  <2>1. \/ Goes(c, "take", "apply") \/ Goes(c, "apply", "accepted")
        \/ Goes(c, "accepted", "decode")
        \/ \E r : Answers(c, "take", r) \/ Answers(c, "decode", r)
    BY <1>3 DEF Take, ReadApply, ReadAccepted, DecodeOk, DecodeFails
  <2>2. /\ Left("apply") < Left("take") /\ Left("accepted") < Left("apply")
        /\ Left("decode") < Left("accepted") /\ Left("take") > 1 /\ Left("decode") > 1
    BY DEF Left
  <2> QED  BY <2>1, <2>2, AnswersNearer
<1>4. CASE ReadLoop(c) \/ ReadScale(c) \/ Rerender(c) \/ RerenderFails(c)
  <2>1. \/ Goes(c, "loop", "scale") \/ Goes(c, "scale", "rerender")
        \/ Goes(c, "scale", "advance") \/ Goes(c, "rerender", "advance")
        \/ \E r : Answers(c, "rerender", r)
    BY <1>4 DEF ReadLoop, ReadScale, Rerender, RerenderFails
  <2>2. /\ Left("scale") < Left("loop") /\ Left("rerender") < Left("scale")
        /\ Left("advance") < Left("scale") /\ Left("advance") < Left("rerender")
        /\ Left("rerender") > 1
    BY DEF Left
  <2> QED  BY <2>1, <2>2, AnswersNearer
<1>5. CASE Advance(c) \/ Extract(c)
  <2>1. \/ Goes(c, "advance", "extract")
        \/ \E r : Answers(c, "advance", r) \/ Answers(c, "extract", r)
    BY <1>5 DEF Advance, Extract
  <2>2. Left("extract") < Left("advance") /\ Left("advance") > 1 /\ Left("extract") > 1
    BY DEF Left
  <2> QED  BY <2>1, <2>2, AnswersNearer
<1> QED  BY <1>1, <1>2, <1>3, <1>4, <1>5 DEF Proceeds, LoadStep, GetStep

(* Nothing is done twice: every step of a call brings it nearer to its answer, a
   vector frame that cannot be rendered included, and no other step, be it of
   another call on the same loader or image, of the application or a cancellation,
   brings it back. *)
THEOREM SessionGoesForward ==
  Spec => [][\A c \in Calls :
               /\ Begins(c) \/ Proceeds(c) => Left(pc[c])' < Left(pc[c])
               /\ Left(pc[c])' <= Left(pc[c])]_vars
<1>1. SInv /\ SInv' /\ [Next]_vars =>
        \A c \in Calls :
          /\ Begins(c) \/ Proceeds(c) => Left(pc[c])' < Left(pc[c])
          /\ Left(pc[c])' <= Left(pc[c])
  <2> SUFFICES ASSUME SInv, SInv', [Next]_vars, NEW c \in Calls
               PROVE  /\ Begins(c) \/ Proceeds(c) => Left(pc[c])' < Left(pc[c])
                      /\ Left(pc[c])' <= Left(pc[c])
    OBVIOUS
  <2>1. Left(pc[c]) \in Nat /\ Left(pc'[c]) \in Nat
    <3>1. pc[c] \in LoadPCs \cup GetPCs /\ pc'[c] \in LoadPCs \cup GetPCs
      BY DEF SInv, Typed
    <3>2. \A p \in LoadPCs \cup GetPCs : Left(p) \in Nat
      BY DEF LoadPCs, GetPCs, Left
    <3> QED  BY <3>1, <3>2
  <2>2. ASSUME NEW d \in Calls, Begins(d) \/ Proceeds(d)
        PROVE  Left(pc'[d]) < Left(pc[d]) /\ (c # d => pc'[c] = pc[c])
    <3>1. PICK from, to : Goes(d, from, to) /\ Left(to) < Left(from)
      BY <2>2, CallNearer
    <3>2. pc[d] = from /\ pc'[d] = to /\ (c # d => pc'[c] = pc[c])
      BY <3>1 DEF Goes, SInv, Typed
    <3> QED  BY <3>1, <3>2
  <2>3. CASE \E d \in Calls : Begins(d) \/ Proceeds(d)
    BY <2>1, <2>2, <2>3
  <2>4. CASE ~\E d \in Calls : Begins(d) \/ Proceeds(d)
    <3>1. \/ \E d \in Calls : Cancel(d)
          \/ Set \/ (\E o \in {"loader", "image"} : Drop(o)) \/ UNCHANGED vars
      BY <2>4 DEF Next, Begins, Proceeds, Calls
    <3>2. pc' = pc
      BY <3>1 DEF Cancel, Set, Drop, vars
    <3> QED  BY <2>1, <2>4, <3>2
  <2> QED  BY <2>3, <2>4
<1> QED  BY <1>1, SessionInductive, PTL DEF Spec
=============================================================================
