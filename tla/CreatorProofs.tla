---------------------------- MODULE CreatorProofs ----------------------------
(***************************************************************************)
(* Proofs about Creator, for all calls, threads and frames.                *)
(*                                                                         *)
(* The invariant says of each call what the mutex and its thread protect   *)
(* while it is at each place; a step of one call keeps it for every other  *)
(* (OtherCalls), because a step that changes the encoder or the mutex is   *)
(* one of the call that holds the mutex, and a last error belongs to the   *)
(* thread that only one call runs on.                                      *)
(***************************************************************************)
EXTENDS Creator, FiniteSetTheorems, TLAPS

Locked  == {"call", "encode", "unlock"}
Running == {"lock", "call", "encode", "unlock", "message", "answer"}
Before  == {"idle", "queued", "lock", "call", "encode"}

(* What is known of one call. *)
CallInv(c) ==
  /\ pc[c] \in Locked => mutex = c
  /\ pc[c] \in Running => on[c] \in Threads
  /\ pc[c] \in Before => reply[c] = Maker!NoReply
  /\ pc[c] \in Before \cup {"unlock", "message"} => out[c] = Maker!NoReply
  /\ pc[c] = "encode" =>
       /\ op[c].kind = "create"
       /\ Len(encoder.frames) = 1
       /\ taken[c] = encoder.frames[1]
       /\ Verdict(taken[c]) = "fine"
  /\ pc[c] = "message" => reply[c].kind = "error"
  /\ (pc[c] \in {"unlock", "message"} /\ reply[c].kind = "error") =>
       lastError[on[c]] = reply[c].cause
  /\ (out[c].kind = "error" /\ out[c].cause \notin {"arguments", "cancelled"})
       => out[c] = reply[c]
  /\ reply[c].kind = "image" => Verdict(reply[c].frame) = "fine"
  /\ pc[c] \in {"queued", "returned"} => Async(c)
  /\ (InFlight(c) /\ ~Async(c)) => handles > 0

(* Two calls never run on one thread. *)
ThreadPart ==
  \A c, d \in Calls : on[c] = on[d] /\ on[c] \in Threads => c = d

(* The calls that run as tasks, each with a reference to the creator. *)
Tasks == {c \in Calls : Async(c) /\ InFlight(c)}

RefPart == refs = handles + Cardinality(Tasks)

CInv ==
  /\ CreatorTypeOK
  /\ \A c \in Calls : CallInv(c)
  /\ ThreadPart
  /\ RefPart
-----------------------------------------------------------------------------
(* Products of naturals grow with their factors. *)
LEMMA ProductGrows ==
  ASSUME NEW a \in Nat, NEW b \in Nat, NEW s \in Nat, a <= b
  PROVE  a * s <= b * s
BY SMT

(* A queued frame is a frame: its stride is in u32. *)
LEMMA QueuedType ==
  ASSUME NEW f \in Frame
  PROVE  Queued(f) \in Frame
<1>1. f.width * f.format.bpp \in Nat
  BY SMT DEF Frame, Format
<1>2. \A n \in Nat : n % U32 \in 0..U32 - 1
  BY CreatorAssumption, SMT
<1>3. Stride(f) \in 0..U32 - 1
  BY <1>1, <1>2 DEF Stride, Frame
<1> QED
  BY <1>3 DEF Queued, Frame

(* The verdict "fine" is about every row of the frame: to_rgba8 compares the
   last row only. *)
LEMMA FineRows ==
  ASSUME NEW f \in Frame, Verdict(f) = "fine"
  PROVE  /\ RowBytes(f) <= f.stride
         /\ \A y \in 0..f.height - 1 : y * f.stride + RowBytes(f) <= f.len
<1>1. /\ f.width \in Nat /\ f.height \in Nat /\ f.stride \in Nat /\ f.len \in Nat
      /\ f.format.bpp \in Nat /\ RowBytes(f) \in Nat
  BY CreatorAssumption, SMT DEF Frame, Format, RowBytes
<1>2. RowBytes(f) <= f.stride
  BY <1>1 DEF Verdict
<1>3. ~Short(f)
  BY DEF Verdict
<1>4. ASSUME NEW y \in 0..f.height - 1
      PROVE  y * f.stride + RowBytes(f) <= f.len
  <2>1. y \in Nat /\ y <= f.height - 1 /\ f.height - 1 \in Nat /\ f.height > 0
    BY <1>1
  <2>2. y * f.stride <= (f.height - 1) * f.stride
    BY <1>1, <2>1, ProductGrows
  <2>3. (f.height - 1) * f.stride + RowBytes(f) <= f.len
    <3>1. (f.height - 1) * f.stride \in Nat
      BY <1>1, <2>1, SMT
    <3> HIDE DEF RowBytes
    <3> DEFINE p == (f.height - 1) * f.stride
    <3>2. ~(f.len < p + RowBytes(f))
      BY <1>3, <2>1 DEF Short
    <3>3. p \in Nat
      BY <3>1
    <3> HIDE DEF p
    <3>4. p + RowBytes(f) <= f.len
      BY <3>2, <3>3, <1>1
    <3> QED  BY <3>4 DEF p
  <2>4. y * f.stride \in Nat /\ (f.height - 1) * f.stride \in Nat
    BY <1>1, <2>1, SMT
  <2> QED  BY <1>1, <2>2, <2>3, <2>4
<1> QED  BY <1>2, <1>4
-----------------------------------------------------------------------------
(* The initial states satisfy the invariant. *)
LEMMA InitC == Init => CInv
<1> SUFFICES ASSUME Init PROVE CInv
  OBVIOUS
<1>1. CreatorTypeOK
  <2>1. op \in [Calls -> Op] /\ mutex \in Calls \cup {NoCall}
    BY CreatorAssumption DEF Init
  <2>2. encoder \in [frames : Seq(Frame), options : [OptionNames -> Values],
                     metadata : Seq(Values)]
    BY DEF Init, Maker!Empty, Values
  <2>3. reply \in [Calls -> Reply] /\ out \in [Calls -> Out]
    BY DEF Init, Maker!NoReply, Reply, Out
  <2> QED  BY <2>1, <2>2, <2>3 DEF Init, CreatorTypeOK, PCs, NoFrame
<1>2. \A c \in Calls : CallInv(c)
  BY DEF Init, CallInv, Locked, Running, Before, Maker!NoReply, InFlight
<1>3. ThreadPart
  BY CreatorAssumption DEF Init, ThreadPart
<1>4. Tasks = {}
  BY DEF Init, Tasks, InFlight
<1>5. RefPart
  BY <1>4, FS_EmptySet DEF Init, RefPart
<1> QED  BY <1>1, <1>2, <1>3, <1>5 DEF CInv
-----------------------------------------------------------------------------
(* A step of call c leaves the other calls where they are. *)
Elsewhere(c) ==
  /\ op' = op
  /\ \A d \in Calls \ {c} :
       pc'[d] = pc[d] /\ on'[d] = on[d] /\ taken'[d] = taken[d]
       /\ reply'[d] = reply[d] /\ out'[d] = out[d]

(* It changes the encoder and the mutex only under the mutex, and only the last
   error of its own thread. *)
Disciplined(c) ==
  /\ mutex' = mutex \/ mutex \in {NoCall, c}
  /\ encoder' = encoder \/ mutex = c
  /\ \A t \in Threads \ {on[c]} : lastError'[t] = lastError[t]
  /\ handles > 0 => handles' > 0

(* Then what was known of the other calls is still so. *)
LEMMA OtherCalls ==
  ASSUME CInv, NEW c \in Calls, Elsewhere(c), Disciplined(c)
  PROVE  \A d \in Calls \ {c} : CallInv(d)'
<1> SUFFICES ASSUME NEW d \in Calls \ {c} PROVE CallInv(d)'
  OBVIOUS
<1>1. CallInv(d) /\ CreatorTypeOK /\ ThreadPart
  BY DEF CInv
<1>2. /\ op'[d] = op[d] /\ pc'[d] = pc[d] /\ on'[d] = on[d] /\ taken'[d] = taken[d]
      /\ reply'[d] = reply[d] /\ out'[d] = out[d]
  BY DEF Elsewhere
<1>3. pc[d] \in Locked => mutex = d /\ mutex' = d /\ encoder' = encoder
  BY <1>1, CreatorAssumption DEF CallInv, Disciplined
<1>4. pc[d] \in Running => lastError'[on[d]] = lastError[on[d]]
  BY <1>1 DEF CallInv, Disciplined, ThreadPart
<1>5. Async(d)' = Async(d) /\ InFlight(d)' = InFlight(d)
  BY <1>2 DEF Async, InFlight
<1>6. Verdict(taken[d])' = Verdict(taken[d])
      /\ Verdict(reply[d].frame)' = Verdict(reply[d].frame)
  BY <1>2 DEF Verdict, RowBytes, Short
<1>7. "encode" \in Locked /\ "unlock" \in Running /\ "message" \in Running
  BY DEF Locked, Running
<1> QED
  BY <1>1, <1>2, <1>3, <1>4, <1>5, <1>6, <1>7, Zenon DEF CallInv, Disciplined

(* A call goes onto a thread that is idle, or leaves its thread. *)
LEMMA ThreadsApart ==
  ASSUME CInv, NEW c \in Calls,
         \/ on' = on
         \/ \E t \in Threads : RunsOn(c, t)
         \/ on' = [on EXCEPT ![c] = NoThread]
  PROVE  ThreadPart'
<1>1. ThreadPart /\ on \in [Calls -> Threads \cup {NoThread}]
  BY DEF CInv, CreatorTypeOK
<1>2. CASE on' = on
  BY <1>1, <1>2 DEF ThreadPart
<1>3. CASE \E t \in Threads : RunsOn(c, t)
  BY <1>1, <1>3 DEF ThreadPart, RunsOn, Idle
<1>4. CASE on' = [on EXCEPT ![c] = NoThread]
  BY <1>1, <1>4, CreatorAssumption DEF ThreadPart
<1> QED  BY <1>2, <1>3, <1>4

(* A call that does not run as a task, or goes on, leaves the tasks the same. *)
LEMMA TasksSame ==
  ASSUME CInv, NEW c \in Calls, Elsewhere(c), ~Async(c) \/ InFlight(c)' = InFlight(c)
  PROVE  Tasks' = Tasks
<1>1. \A d \in Calls : Async(d)' = Async(d)
  BY DEF Elsewhere, Async
<1>2. \A d \in Calls \ {c} : InFlight(d)' = InFlight(d)
  BY DEF Elsewhere, InFlight
<1> QED  BY <1>1, <1>2 DEF Tasks

(* The tasks are finitely many. *)
LEMMA TasksFinite == IsFiniteSet(Tasks) /\ Cardinality(Tasks) \in Nat
<1>1. Tasks \in SUBSET Calls
  BY DEF Tasks
<1>2. IsFiniteSet(Tasks)
  BY <1>1, CreatorAssumption, FS_Subset
<1> QED  BY <1>2, FS_CardinalityType

(* What a step of one call has to show for the invariant to be kept. *)
LEMMA StepKeeps ==
  ASSUME CInv, NEW c \in Calls, CreatorTypeOK', CallInv(c)', ThreadPart', RefPart',
         Elsewhere(c), Disciplined(c)
  PROVE  CInv'
BY OtherCalls DEF CInv
-----------------------------------------------------------------------------
(* One lemma for each action. *)

LEMMA StartKeeps ==
  ASSUME CInv, NEW c \in Calls, Start(c)
  PROVE  CInv'
<1>1. CreatorTypeOK /\ CallInv(c) /\ pc[c] = "idle" /\ pc'[c] = "lock"
      /\ RefPart /\ ~Async(c)
  BY DEF CInv, CreatorTypeOK, Start, Goes
<1>2. PICK t \in Hosts : RunsOn(c, t)
  BY DEF Start
<1>3. CreatorTypeOK'
  BY <1>1, <1>2 DEF CreatorTypeOK, Start, Goes, RunsOn, PCs, Threads
<1>4. Elsewhere(c) /\ Disciplined(c)
  BY <1>1, <1>2 DEF CreatorTypeOK, Start, Goes, RunsOn, Elsewhere, Disciplined
<1>5. CallInv(c)'
  BY <1>1, <1>2
  DEF CreatorTypeOK, Start, RunsOn, CallInv, Locked, Running, Before, Threads,
      Maker!NoReply, Async
<1>6. ThreadPart'
  BY <1>2, ThreadsApart DEF Threads
<1>7. RefPart'
  BY <1>1, <1>4, TasksSame DEF RefPart, Start
<1> QED  BY <1>3, <1>4, <1>5, <1>6, <1>7, StepKeeps

LEMMA StartAsyncKeeps ==
  ASSUME CInv, NEW c \in Calls, StartAsync(c)
  PROVE  CInv'
<1>1. CreatorTypeOK /\ CallInv(c) /\ pc[c] = "idle" /\ pc'[c] = "queued"
      /\ RefPart /\ Async(c) /\ Async(c)'
  BY DEF CInv, CreatorTypeOK, StartAsync, Goes, Async
<1>2. CreatorTypeOK'
  BY <1>1 DEF CreatorTypeOK, StartAsync, Goes, PCs
<1>3. Elsewhere(c) /\ Disciplined(c)
  BY <1>1 DEF CreatorTypeOK, StartAsync, Goes, Elsewhere, Disciplined
<1>4. CallInv(c)'
  BY <1>1
  DEF CreatorTypeOK, StartAsync, CallInv, Locked, Running, Before, Maker!NoReply
<1>5. ThreadPart'
  BY ThreadsApart DEF StartAsync
<1>6. Tasks' = Tasks \cup {c} /\ c \notin Tasks
  <2>1. \A d \in Calls : Async(d)' = Async(d)
    BY <1>3 DEF Elsewhere, Async
  <2>2. \A d \in Calls \ {c} : InFlight(d)' = InFlight(d)
    BY <1>3 DEF Elsewhere, InFlight
  <2>3. InFlight(c)' /\ ~InFlight(c)
    BY <1>1 DEF InFlight
  <2> QED  BY <1>1, <2>1, <2>2, <2>3 DEF Tasks
<1>7. Cardinality(Tasks') = Cardinality(Tasks) + 1
  BY <1>6, TasksFinite, FS_AddElement
<1>8. RefPart'
  BY <1>1, <1>7, TasksFinite DEF RefPart, StartAsync, CreatorTypeOK
<1> QED  BY <1>2, <1>3, <1>4, <1>5, <1>8, StepKeeps

LEMMA RunKeeps ==
  ASSUME CInv, NEW c \in Calls, Run(c)
  PROVE  CInv'
<1>1. CreatorTypeOK /\ CallInv(c) /\ pc[c] = "queued" /\ pc'[c] = "lock"
      /\ RefPart
  BY DEF CInv, CreatorTypeOK, Run, Goes
<1>2. PICK t \in Pool : RunsOn(c, t)
  BY DEF Run
<1>3. CreatorTypeOK'
  BY <1>1, <1>2 DEF CreatorTypeOK, Run, Goes, RunsOn, PCs, Threads
<1>4. Elsewhere(c) /\ Disciplined(c)
  BY <1>1, <1>2 DEF CreatorTypeOK, Run, Goes, RunsOn, Elsewhere, Disciplined
<1>5. CallInv(c)'
  BY <1>1, <1>2
  DEF CreatorTypeOK, Run, RunsOn, CallInv, Locked, Running, Before, Threads,
      Maker!NoReply, Async
<1>6. ThreadPart'
  BY <1>2, ThreadsApart DEF Threads
<1>7. RefPart'
  BY <1>1, <1>4, TasksSame DEF RefPart, Run, InFlight
<1> QED  BY <1>3, <1>4, <1>5, <1>6, <1>7, StepKeeps

LEMMA RejectKeeps ==
  ASSUME CInv, NEW c \in Calls, Reject(c)
  PROVE  CInv'
<1>1. CreatorTypeOK /\ CallInv(c) /\ pc[c] = "lock" /\ pc'[c] = "answer"
      /\ out'[c] = Maker!Error("arguments") /\ RefPart
  BY DEF CInv, CreatorTypeOK, Reject, Goes
<1>2. CreatorTypeOK'
  BY <1>1 DEF CreatorTypeOK, Reject, Goes, PCs, Out, Maker!Error
<1>3. Elsewhere(c) /\ Disciplined(c)
  BY <1>1 DEF CreatorTypeOK, Reject, Goes, Elsewhere, Disciplined
<1>4. CallInv(c)'
  BY <1>1
  DEF CreatorTypeOK, Reject, CallInv, Locked, Running, Before,
      Maker!NoReply, Maker!Error, Async, InFlight
<1>5. ThreadPart'
  BY ThreadsApart DEF Reject
<1>6. RefPart'
  BY <1>1, <1>3, TasksSame DEF RefPart, Reject, InFlight
<1> QED  BY <1>2, <1>3, <1>4, <1>5, <1>6, StepKeeps

LEMMA LockKeeps ==
  ASSUME CInv, NEW c \in Calls, Lock(c)
  PROVE  CInv'
<1>1. CreatorTypeOK /\ CallInv(c) /\ pc[c] = "lock" /\ pc'[c] = "call"
      /\ mutex' = c /\ RefPart
  BY DEF CInv, CreatorTypeOK, Lock, Goes
<1>2. CreatorTypeOK'
  BY <1>1 DEF CreatorTypeOK, Lock, Goes, PCs
<1>3. Elsewhere(c) /\ Disciplined(c)
  BY <1>1 DEF CreatorTypeOK, Lock, Goes, Elsewhere, Disciplined
<1>4. CallInv(c)'
  BY <1>1
  DEF CreatorTypeOK, Lock, CallInv, Locked, Running, Before,
      Maker!NoReply, Async, InFlight
<1>5. ThreadPart'
  BY ThreadsApart DEF Lock
<1>6. RefPart'
  BY <1>1, <1>3, TasksSame DEF RefPart, Lock, InFlight
<1> QED  BY <1>2, <1>3, <1>4, <1>5, <1>6, StepKeeps

(* A call of the C API that succeeds, whatever it does to the encoder. *)
LEMMA SucceedsKeeps ==
  ASSUME CInv, NEW c \in Calls, NEW from \in {"call", "encode"}, NEW r \in Reply,
         NEW clears \in BOOLEAN, Succeeds(c, from, r, clears),
         r.kind # "error", r.kind = "image" => Verdict(r.frame) = "fine",
         encoder' \in [frames : Seq(Frame), options : [OptionNames -> Values],
                       metadata : Seq(Values)]
  PROVE  CInv'
<1>1. CreatorTypeOK /\ CallInv(c) /\ pc[c] = from /\ pc'[c] = "unlock"
      /\ reply'[c] = r /\ RefPart /\ mutex = c
  BY DEF CInv, CreatorTypeOK, Succeeds, Goes, CallInv, Locked
<1>2. CreatorTypeOK'
  <2>1. lastError' \in [Threads -> Maker!Causes \cup {NoError}]
    BY <1>1 DEF CreatorTypeOK, Succeeds
  <2> QED  BY <1>1, <2>1 DEF CreatorTypeOK, Succeeds, Goes, PCs
<1>3. Elsewhere(c)
  BY <1>1 DEF CreatorTypeOK, Succeeds, Goes, Elsewhere
<1>4. Disciplined(c)
  BY <1>1 DEF CreatorTypeOK, Succeeds, Disciplined
<1>5. CallInv(c)'
  <2>1. on' = on /\ out' = out /\ mutex' = mutex /\ taken' = taken /\ op' = op
        /\ handles' = handles
    BY DEF Succeeds
  <2>2. out[c] = Maker!NoReply /\ on[c] \in Threads
    BY <1>1 DEF CallInv, Before, Running
  <2>3. Verdict(r.frame)' = Verdict(r.frame)
    BY DEF Verdict, RowBytes, Short
  <2>4. Async(c)' = Async(c) /\ InFlight(c)' /\ InFlight(c)
    BY <1>1, <2>1 DEF Async, InFlight
  <2> QED
    BY <1>1, <2>1, <2>2, <2>3, <2>4
    DEF CallInv, Locked, Running, Before, Maker!NoReply
<1>6. ThreadPart'
  BY ThreadsApart DEF Succeeds
<1>7. RefPart'
  BY <1>1, <1>3, TasksSame DEF RefPart, Succeeds, InFlight
<1> QED  BY <1>2, <1>3, <1>4, <1>5, <1>6, <1>7, StepKeeps

(* A call that only says it succeeded makes no image. *)
LEMMA DoneIsReply ==
  Maker!Done \in Reply /\ Maker!Done.kind = "ok"
BY DEF Maker!Done, Reply

LEMMA AddFrameKeeps ==
  ASSUME CInv, NEW c \in Calls, AddFrame(c)
  PROVE  CInv'
<1>1. op[c].frame \in Frame /\ encoder.frames \in Seq(Frame)
      /\ encoder \in [frames : Seq(Frame), options : [OptionNames -> Values],
                      metadata : Seq(Values)]
  BY DEF CInv, CreatorTypeOK, AddFrame, Op
<1>2. Queued(op[c].frame) \in Frame
  BY <1>1, QueuedType
<1>3. Append(encoder.frames, Queued(op[c].frame)) \in Seq(Frame)
  BY <1>1, <1>2
<1>4. encoder' \in [frames : Seq(Frame), options : [OptionNames -> Values],
                    metadata : Seq(Values)]
  BY <1>1, <1>3 DEF AddFrame
<1>5. Succeeds(c, "call", Maker!Done, TRUE)
  BY Zenon DEF AddFrame
<1> QED  BY <1>4, <1>5, DoneIsReply, SucceedsKeeps

LEMMA SetOptionKeeps ==
  ASSUME CInv, NEW c \in Calls, SetOption(c)
  PROVE  CInv'
<1>1. op[c].option \in OptionNames /\ op[c].value \in Values
      /\ encoder \in [frames : Seq(Frame), options : [OptionNames -> Values],
                      metadata : Seq(Values)]
  BY DEF CInv, CreatorTypeOK, SetOption, Op
<1>2. encoder' \in [frames : Seq(Frame), options : [OptionNames -> Values],
                    metadata : Seq(Values)]
  BY <1>1 DEF SetOption
<1>3. Succeeds(c, "call", Maker!Done, op[c].option = "icc")
  BY Zenon DEF SetOption
<1> QED  BY <1>2, <1>3, DoneIsReply, SucceedsKeeps

LEMMA AddMetadataKeeps ==
  ASSUME CInv, NEW c \in Calls, AddMetadata(c)
  PROVE  CInv'
<1>1. op[c].value \in Values
      /\ encoder \in [frames : Seq(Frame), options : [OptionNames -> Values],
                      metadata : Seq(Values)]
  BY DEF CInv, CreatorTypeOK, AddMetadata
<1>2. Append(encoder.metadata, op[c].value) \in Seq(Values)
  BY <1>1
<1>3. encoder' \in [frames : Seq(Frame), options : [OptionNames -> Values],
                    metadata : Seq(Values)]
  BY <1>1, <1>2 DEF AddMetadata
<1>4. Succeeds(c, "call", Maker!Done, TRUE)
  BY Zenon DEF AddMetadata
<1> QED  BY <1>3, <1>4, DoneIsReply, SucceedsKeeps

LEMMA EncodeKeeps ==
  ASSUME CInv, NEW c \in Calls, Encode(c)
  PROVE  CInv'
<1>1. CreatorTypeOK /\ CallInv(c) /\ pc[c] = "encode"
  BY DEF CInv, Encode, Succeeds, Goes
<1>2. taken[c] \in Frame /\ Verdict(taken[c]) = "fine"
  <2>1. Len(encoder.frames) = 1 /\ encoder.frames \in Seq(Frame)
    BY <1>1 DEF CallInv, CreatorTypeOK
  <2>2. encoder.frames[1] \in Frame
    BY <2>1
  <2> QED  BY <1>1, <2>2 DEF CallInv
<1>3. encoder.options \in [OptionNames -> Values] /\ UNCHANGED encoder
  BY <1>1 DEF CreatorTypeOK, Encode
<1> DEFINE r == Maker!Made(taken[c], encoder.options)
<1>4. r \in Reply /\ r.kind # "error" /\ r.frame = taken[c]
  BY <1>2, <1>3 DEF Reply, Maker!Made
<1>5. Succeeds(c, "encode", r, FALSE)
  BY DEF Encode
<1>6. encoder' \in [frames : Seq(Frame), options : [OptionNames -> Values],
                    metadata : Seq(Values)]
  BY <1>1, <1>3 DEF CreatorTypeOK
<1> HIDE DEF r
<1> QED  BY <1>2, <1>4, <1>5, <1>6, SucceedsKeeps

LEMMA FailsKeeps ==
  ASSUME CInv, NEW c \in Calls, NEW from \in {"call", "encode"},
         NEW e \in Maker!Causes, Fails(c, from, e)
  PROVE  CInv'
<1>1. CreatorTypeOK /\ CallInv(c) /\ pc[c] = from /\ pc'[c] = "unlock"
      /\ reply'[c] = Maker!Error(e) /\ RefPart /\ mutex = c /\ on[c] \in Threads
  BY DEF CInv, CreatorTypeOK, Fails, Goes, CallInv, Locked, Running
<1>2. CreatorTypeOK'
  BY <1>1 DEF CreatorTypeOK, Fails, Goes, PCs, Reply, Maker!Error
<1>3. Elsewhere(c) /\ Disciplined(c)
  BY <1>1 DEF CreatorTypeOK, Fails, Goes, Elsewhere, Disciplined
<1>4. CallInv(c)'
  <2>1. on' = on /\ out' = out /\ mutex' = mutex /\ taken' = taken /\ op' = op
        /\ handles' = handles
    BY DEF Fails
  <2>2. lastError'[on'[c]] = e
    BY <1>1, <2>1 DEF Fails, CreatorTypeOK
  <2>3. out[c] = Maker!NoReply
    BY <1>1 DEF CallInv, Before
  <2>4. Async(c)' = Async(c) /\ InFlight(c)' /\ InFlight(c)
    BY <1>1, <2>1 DEF Async, InFlight
  <2> QED
    BY <1>1, <2>1, <2>2, <2>3, <2>4
    DEF CallInv, Locked, Running, Before, Maker!NoReply, Maker!Error
<1>5. ThreadPart'
  BY ThreadsApart DEF Fails
<1>6. RefPart'
  BY <1>1, <1>3, TasksSame DEF RefPart, Fails, InFlight
<1> QED  BY <1>2, <1>3, <1>4, <1>5, <1>6, StepKeeps

LEMMA ConvertFailsKeeps ==
  ASSUME CInv, NEW c \in Calls, ConvertFails(c)
  PROVE  CInv'
<1>1. \A f : Verdict(f) # "fine" => Verdict(f) \in Maker!Causes
  BY DEF Verdict, Maker!Causes, Maker!CreateCauses
<1>2. PICK e \in Maker!Causes : Fails(c, "call", e)
  BY <1>1 DEF ConvertFails, Maker!Causes, Maker!CreateCauses
<1> QED  BY <1>2, FailsKeeps

LEMMA ConvertKeeps ==
  ASSUME CInv, NEW c \in Calls, Convert(c)
  PROVE  CInv'
<1>1. CreatorTypeOK /\ CallInv(c) /\ pc[c] = "call" /\ pc'[c] = "encode"
      /\ RefPart /\ mutex = c /\ on[c] \in Threads
  BY DEF CInv, CreatorTypeOK, Convert, Goes, CallInv, Locked, Running
<1>2. encoder.frames[1] \in Frame
  BY <1>1 DEF CreatorTypeOK, Convert
<1>3. CreatorTypeOK'
  BY <1>1, <1>2 DEF CreatorTypeOK, Convert, Goes, PCs
<1>4. Elsewhere(c) /\ Disciplined(c)
  BY <1>1 DEF CreatorTypeOK, Convert, Goes, Elsewhere, Disciplined
<1>5. CallInv(c)'
  <2>1. on' = on /\ out' = out /\ mutex' = mutex /\ encoder' = encoder /\ op' = op
        /\ handles' = handles /\ reply' = reply /\ taken'[c] = encoder.frames[1]
    BY <1>1 DEF Convert, CreatorTypeOK
  <2>2. Verdict(taken[c])' = "fine"
    BY <2>1 DEF Convert, Verdict, RowBytes, Short
  <2>3. Async(c)' = Async(c) /\ InFlight(c)' /\ InFlight(c)
    BY <1>1, <2>1 DEF Async, InFlight
  <2> QED
    BY <1>1, <2>1, <2>2, <2>3
    DEF Convert, CallInv, Locked, Running, Before, Maker!NoReply
<1>6. ThreadPart'
  BY ThreadsApart DEF Convert
<1>7. RefPart'
  BY <1>1, <1>4, TasksSame DEF RefPart, Convert, InFlight
<1> QED  BY <1>3, <1>4, <1>5, <1>6, <1>7, StepKeeps

LEMMA UnlockKeeps ==
  ASSUME CInv, NEW c \in Calls, Unlock(c)
  PROVE  CInv'
<1>1. CreatorTypeOK /\ CallInv(c) /\ pc[c] = "unlock" /\ RefPart /\ mutex = c
      /\ on[c] \in Threads /\ (AsksWhy(c) => reply[c].kind = "error")
      /\ pc'[c] = IF AsksWhy(c) THEN "message" ELSE "answer"
  BY DEF CInv, CreatorTypeOK, Unlock, Goes, CallInv, Locked, Running, AsksWhy
<1>2. CreatorTypeOK'
  BY <1>1 DEF CreatorTypeOK, Unlock, Goes, PCs
<1>3. Elsewhere(c) /\ Disciplined(c)
  BY <1>1 DEF CreatorTypeOK, Unlock, Goes, Elsewhere, Disciplined
<1>4. Async(c)' = Async(c) /\ InFlight(c)' /\ InFlight(c)
  BY <1>1 DEF Unlock, Async, InFlight
<1>5. CallInv(c)'
  BY <1>1, <1>4
  DEF Unlock, CallInv, Locked, Running, Before, Maker!NoReply, Verdict, RowBytes, Short
<1>6. ThreadPart'
  BY ThreadsApart DEF Unlock
<1>7. RefPart'
  BY <1>1, <1>3, <1>4, TasksSame DEF RefPart, Unlock
<1> QED  BY <1>2, <1>3, <1>5, <1>6, <1>7, StepKeeps

LEMMA ReadMessageKeeps ==
  ASSUME CInv, NEW c \in Calls, ReadMessage(c)
  PROVE  CInv'
<1>1. CreatorTypeOK /\ CallInv(c) /\ pc[c] = "message" /\ pc'[c] = "answer"
      /\ RefPart /\ on[c] \in Threads
  BY DEF CInv, CreatorTypeOK, ReadMessage, Goes, CallInv, Running
<1>2. reply[c] \in Reply /\ reply[c].kind = "error"
      /\ lastError[on[c]] = reply[c].cause
  BY <1>1 DEF CallInv, CreatorTypeOK
<1>3. reply[c] = Maker!Error(lastError[Slot(c)])
  BY <1>2 DEF Reply, Maker!Error, Slot
<1>4. out' = [out EXCEPT ![c] = reply[c]]
  BY <1>3 DEF ReadMessage
<1>5. CreatorTypeOK'
  BY <1>1, <1>4 DEF CreatorTypeOK, ReadMessage, Goes, PCs, Out
<1>6. Elsewhere(c) /\ Disciplined(c)
  BY <1>1 DEF CreatorTypeOK, ReadMessage, Goes, Elsewhere, Disciplined
<1>7. Async(c)' = Async(c) /\ InFlight(c)' /\ InFlight(c)
  BY <1>1 DEF ReadMessage, Async, InFlight
<1>8. CallInv(c)'
  BY <1>1, <1>2, <1>4, <1>7
  DEF ReadMessage, CreatorTypeOK, CallInv, Locked, Running, Before, Maker!NoReply,
      Verdict, RowBytes, Short
<1>9. ThreadPart'
  BY ThreadsApart DEF ReadMessage
<1>10. RefPart'
  BY <1>1, <1>6, <1>7, TasksSame DEF RefPart, ReadMessage
<1> QED  BY <1>5, <1>6, <1>8, <1>9, <1>10, StepKeeps

(* What the two actions have in common that return from a call. *)
LEMMA AnswerKeeps ==
  ASSUME CInv, NEW c \in Calls, NEW to \in {"returned", "done"}, Answer(c, to),
         to = "returned" <=> Async(c), handles' \in Nat, handles' >= handles
  PROVE  /\ (refs' \in Nat => CreatorTypeOK') /\ CallInv(c)' /\ ThreadPart'
         /\ Elsewhere(c) /\ Disciplined(c) /\ Tasks' = Tasks
<1>1. CreatorTypeOK /\ CallInv(c) /\ pc[c] = "answer" /\ pc'[c] = to
  BY DEF CInv, CreatorTypeOK, Answer, Goes
<1>2. out' \in [Calls -> Out]
  BY <1>1 DEF Answer, CreatorTypeOK, Out
<1>3. refs' \in Nat => CreatorTypeOK'
  BY <1>1, <1>2 DEF CreatorTypeOK, Answer, Goes, PCs
<1>4. Elsewhere(c)
  BY <1>1 DEF CreatorTypeOK, Answer, Goes, Elsewhere
<1>5. Disciplined(c)
  BY <1>1 DEF CreatorTypeOK, Answer, Disciplined
<1>6. CallInv(c)'
  <2>1. out'[c] = out[c] \/ out'[c] = reply[c]
    BY <1>1 DEF Answer, CreatorTypeOK
  <2>2. op' = op /\ reply' = reply /\ InFlight(c) /\ (InFlight(c)' <=> to = "returned")
        /\ Async(c)' = Async(c)
    BY <1>1 DEF Answer, InFlight, Async
  <2>3. Verdict(reply[c].frame)' = Verdict(reply[c].frame)
    BY <2>2 DEF Verdict, RowBytes, Short
  <2> QED
    BY <1>1, <2>1, <2>2, <2>3
    DEF CallInv, Locked, Running, Before
<1>7. ThreadPart'
  BY ThreadsApart DEF Answer
<1>8. Tasks' = Tasks
  BY <1>1, <1>4, TasksSame DEF InFlight
<1> QED  BY <1>3, <1>4, <1>5, <1>6, <1>7, <1>8

LEMMA ReturnFrameKeeps ==
  ASSUME CInv, NEW c \in Calls, ReturnFrame(c)
  PROVE  CInv'
<1>1. handles \in Nat /\ refs \in Nat /\ RefPart
  BY DEF CInv, CreatorTypeOK
<1>2. Answer(c, "done") /\ ~Async(c) /\ handles' = handles + 1 /\ refs' = refs + 1
  BY DEF ReturnFrame, Async
<1>3. /\ CreatorTypeOK' /\ CallInv(c)' /\ ThreadPart'
      /\ Elsewhere(c) /\ Disciplined(c) /\ Tasks' = Tasks
  BY <1>1, <1>2, AnswerKeeps
<1>4. RefPart'
  BY <1>1, <1>2, <1>3, TasksFinite DEF RefPart
<1> QED  BY <1>3, <1>4, StepKeeps

LEMMA ReturnKeeps ==
  ASSUME CInv, NEW c \in Calls, Return(c)
  PROVE  CInv'
<1>1. handles \in Nat /\ refs \in Nat /\ RefPart
  BY DEF CInv, CreatorTypeOK
<1>2. PICK to \in {"returned", "done"} : Answer(c, to) /\ (to = "returned" <=> Async(c))
  BY DEF Return
<1>3. handles' = handles /\ refs' = refs
  BY DEF Return
<1>4. /\ CreatorTypeOK' /\ CallInv(c)' /\ ThreadPart'
      /\ Elsewhere(c) /\ Disciplined(c) /\ Tasks' = Tasks
  BY <1>1, <1>2, <1>3, AnswerKeeps
<1>5. RefPart'
  BY <1>1, <1>3, <1>4 DEF RefPart
<1> QED  BY <1>4, <1>5, StepKeeps

LEMMA CollectKeeps ==
  ASSUME CInv, NEW c \in Calls, Collect(c)
  PROVE  CInv'
<1>1. CreatorTypeOK /\ CallInv(c) /\ pc[c] = "returned" /\ pc'[c] = "done"
      /\ RefPart /\ Async(c) /\ InFlight(c) /\ ~InFlight(c)'
  BY DEF CInv, CreatorTypeOK, Collect, Goes, CallInv, InFlight
<1>2. Elsewhere(c) /\ Disciplined(c)
  BY <1>1 DEF CreatorTypeOK, Collect, Goes, Elsewhere, Disciplined
<1>3. Tasks' = Tasks \ {c} /\ c \in Tasks
  <2>1. \A d \in Calls : Async(d)' = Async(d)
    BY <1>2 DEF Elsewhere, Async
  <2>2. \A d \in Calls \ {c} : InFlight(d)' = InFlight(d)
    BY <1>2 DEF Elsewhere, InFlight
  <2> QED  BY <1>1, <2>1, <2>2 DEF Tasks
<1>4. Cardinality(Tasks') = Cardinality(Tasks) - 1 /\ Cardinality(Tasks') \in Nat
  <2>1. IsFiniteSet(Tasks \ {c}) /\ Cardinality(Tasks \ {c}) = Cardinality(Tasks) - 1
    BY <1>3, TasksFinite, FS_RemoveElement
  <2> QED  BY <1>3, <2>1, FS_CardinalityType
<1>5. RefPart' /\ refs' \in Nat
  BY <1>1, <1>4, TasksFinite DEF RefPart, Collect, CreatorTypeOK
<1>6. CreatorTypeOK'
  <2>1. Maker!Error("cancelled") \in Out
    BY DEF Out, Maker!Error
  <2>2. out' \in [Calls -> Out]
    BY <1>1, <2>1 DEF Collect, CreatorTypeOK
  <2>3. pc' \in [Calls -> PCs]
    BY <1>1 DEF Collect, Goes, PCs, CreatorTypeOK
  <2> QED  BY <1>1, <1>5, <2>2, <2>3 DEF CreatorTypeOK, Collect
<1>7. CallInv(c)'
  <2>1. op' = op /\ reply' = reply /\ Async(c)' = Async(c)
    BY DEF Collect, Async
  <2>2. out'[c] = out[c] \/ out'[c] = Maker!Error("cancelled")
    BY <1>1 DEF Collect, CreatorTypeOK
  <2>3. Verdict(reply[c].frame)' = Verdict(reply[c].frame)
    BY <2>1 DEF Verdict, RowBytes, Short
  <2> QED
    BY <1>1, <2>1, <2>2, <2>3 DEF CallInv, Locked, Running, Before, Maker!Error
<1>8. ThreadPart'
  BY ThreadsApart DEF Collect
<1> QED  BY <1>2, <1>5, <1>6, <1>7, <1>8, StepKeeps

LEMMA ReleaseKeeps ==
  ASSUME CInv, Release
  PROVE  CInv'
<1>1. CreatorTypeOK /\ (\A c \in Calls : CallInv(c)) /\ ThreadPart /\ RefPart
  BY DEF CInv
<1>2. Tasks' = Tasks /\ \A c \in Calls : Async(c)' = Async(c) /\ InFlight(c)' = InFlight(c)
  BY DEF Release, Tasks, Async, InFlight
<1>3. RefPart' /\ refs' \in Nat /\ handles' \in Nat
  BY <1>1, <1>2, TasksFinite DEF Release, RefPart, CreatorTypeOK
<1>4. CreatorTypeOK'
  BY <1>1, <1>3 DEF Release, CreatorTypeOK
<1>5. ThreadPart'
  BY <1>1 DEF Release, ThreadPart
<1>6. ASSUME NEW c \in Calls PROVE CallInv(c)'
  <2>1. (InFlight(c) /\ ~Async(c)) => handles' > 0
    BY <1>1 DEF Release, CreatorTypeOK, CallInv
  <2>2. Verdict(taken[c])' = Verdict(taken[c])
        /\ Verdict(reply[c].frame)' = Verdict(reply[c].frame)
    BY DEF Release, Verdict, RowBytes, Short
  <2> QED  BY <1>1, <1>2, <2>1, <2>2 DEF Release, CallInv
<1> QED  BY <1>3, <1>4, <1>5, <1>6 DEF CInv

LEMMA StutterKeeps ==
  ASSUME CInv, UNCHANGED vars
  PROVE  CInv'
BY DEF vars, CInv, CreatorTypeOK, CallInv, ThreadPart, RefPart, Tasks, Async,
       InFlight, Verdict, RowBytes, Short

(* Every step keeps the invariant. *)
LEMMA NextC == CInv /\ [Next]_vars => CInv'
<1> SUFFICES ASSUME CInv, [Next]_vars PROVE CInv'
  OBVIOUS
<1>1. CASE \E c \in Calls : Start(c) \/ StartAsync(c)
  BY <1>1, StartKeeps, StartAsyncKeeps
<1>2. CASE \E c \in Calls : Step(c)
  <2> PICK c \in Calls : Step(c)
    BY <1>2
  <2>1. CASE EncodeFails(c)
    BY <2>1, FailsKeeps DEF EncodeFails, Maker!Causes, Maker!CreateCauses
  <2>2. CASE Run(c) \/ Reject(c) \/ Lock(c) \/ Unlock(c) \/ ReadMessage(c)
    BY <2>2, RunKeeps, RejectKeeps, LockKeeps, UnlockKeeps, ReadMessageKeeps
  <2>3. CASE AddFrame(c) \/ SetOption(c) \/ AddMetadata(c)
    BY <2>3, AddFrameKeeps, SetOptionKeeps, AddMetadataKeeps
  <2>6. CASE MetadataFails(c)
    BY <2>6, FailsKeeps DEF MetadataFails, Maker!Causes
  <2>4. CASE Convert(c) \/ ConvertFails(c) \/ Encode(c)
    BY <2>4, ConvertKeeps, ConvertFailsKeeps, EncodeKeeps
  <2>5. CASE ReturnFrame(c) \/ Return(c) \/ Collect(c)
    BY <2>5, ReturnFrameKeeps, ReturnKeeps, CollectKeeps
  <2> QED  BY <2>1, <2>2, <2>3, <2>4, <2>5, <2>6 DEF Step
<1>3. CASE Release
  BY <1>3, ReleaseKeeps
<1>4. CASE Rest \/ UNCHANGED vars
  BY <1>4, StutterKeeps DEF Rest
<1> QED  BY <1>1, <1>2, <1>3, <1>4 DEF Next
-----------------------------------------------------------------------------
(* The invariant holds in every behaviour. *)
THEOREM CreatorInductive == Spec => []CInv
BY InitC, NextC, PTL DEF Spec

(* Every variable keeps its type: a queued stride is a u32 though it may be a
   product of two of them, and the reference count never goes below zero. *)
THEOREM CreatorTypeCorrect == Spec => []CreatorTypeOK
<1>1. CInv => CreatorTypeOK
  BY DEF CInv
<1> QED  BY <1>1, CreatorInductive, PTL

(* A failed call reports its own failure, however many threads fail at once. *)
THEOREM ErrorIsOwnCorrect == Spec => []ErrorIsOwn
<1>1. CInv => ErrorIsOwn
  BY DEF CInv, CallInv, ErrorIsOwn
<1> QED  BY <1>1, CreatorInductive, PTL

(* Images are made of rows inside the bytes given, for frames of any size and
   any width of the machine's u32. *)
THEOREM RowsAreInsideCorrect == Spec => []RowsAreInside
<1>1. CInv => RowsAreInside
  <2> SUFFICES ASSUME CInv, NEW c \in Calls, reply[c].kind = "image"
               PROVE  LET f == reply[c].frame
                      IN  /\ RowBytes(f) <= f.stride
                          /\ \A y \in 0..f.height - 1 :
                               y * f.stride + RowBytes(f) <= f.len
    BY DEF RowsAreInside
  <2>1. reply[c].frame \in Frame
    BY DEF CInv, CreatorTypeOK, Reply
  <2>2. Verdict(reply[c].frame) = "fine"
    BY DEF CInv, CallInv
  <2> QED  BY <2>1, <2>2, FineRows
<1> QED  BY <1>1, CreatorInductive, PTL

(* The encoder is freed exactly when no handle, call or task is left. *)
THEOREM EncoderLivesCorrect == Spec => []EncoderLivesAsLongAsUsed
<1>1. CInv => EncoderLivesAsLongAsUsed
  <2> SUFFICES ASSUME CInv PROVE EncoderLivesAsLongAsUsed
    OBVIOUS
  <2>1. handles \in Nat /\ refs = handles + Cardinality(Tasks)
    BY DEF CInv, CreatorTypeOK, RefPart
  <2>2. Cardinality(Tasks) \in Nat /\ (Cardinality(Tasks) = 0 <=> Tasks = {})
    BY TasksFinite, FS_EmptySet
  <2>3. handles = 0 => (Tasks = {} <=> \A c \in Calls : ~InFlight(c))
    BY <2>1 DEF CInv, CallInv, Tasks
  <2> QED  BY <2>1, <2>2, <2>3 DEF EncoderLivesAsLongAsUsed
<1> QED  BY <1>1, CreatorInductive, PTL
-----------------------------------------------------------------------------
(* The refinement: the calls that share a creator take effect one by one. *)

(* The abstract operation of a call is the concrete one, its stride resolved. *)
Given == [c \in Calls |-> Resolved(op[c])]

LEMMA GivenKind ==
  ASSUME NEW c \in Calls, op[c] \in Op
  PROVE  /\ Given[c].kind = op[c].kind
         /\ op[c].kind = "frame" => Given[c].frame = Queued(op[c].frame)
         /\ op[c].kind # "frame" => Given[c] = op[c]
<1>1. Given[c] = Resolved(op[c])
  BY DEF Given
<1>2. op[c].kind # "frame" => Given[c] = op[c]
  BY <1>1 DEF Resolved
<1>3. CASE op[c].kind = "frame"
  <2>1. op[c] \in [kind : {"frame"}, frame : Frame]
    BY <1>3 DEF Op
  <2>2. Given[c] = [op[c] EXCEPT !.frame = Queued(op[c].frame)]
    BY <1>1, <1>3 DEF Resolved
  <2> QED  BY <1>3, <2>1, <2>2
<1> QED  BY <1>2, <1>3

(* The call makes its reply for the first time. *)
LEMMA RepliesOnce ==
  ASSUME CInv, NEW c \in Calls, pc[c] \in {"call", "encode"}, NEW r,
         op' = op, reply' = [reply EXCEPT ![c] = r]
  PROVE  Maker!Replies(c, r)
BY DEF CInv, CallInv, Before, Maker!Replies

LEMMA InitMaker == Init => Maker!Init
BY DEF Init, Maker!Init

(* Every step is one of ImageMaker's, or changes nothing that it sees. *)
LEMMA StepMaker ==
  ASSUME CInv, NEW c \in Calls, Step(c)
  PROVE  Maker!Next \/ UNCHANGED Maker!vars
<1>1. CreatorTypeOK /\ CallInv(c) /\ op[c] \in Op
  BY DEF CInv, CreatorTypeOK
<1>2. CASE \/ Run(c) \/ Reject(c) \/ Lock(c) \/ Unlock(c) \/ ReadMessage(c)
           \/ Convert(c) \/ ReturnFrame(c) \/ Return(c) \/ Collect(c)
  BY <1>2
  DEF Run, Reject, Lock, Unlock, ReadMessage, Convert, ReturnFrame, Return, Collect,
      Answer, Maker!vars
<1>3. CASE AddFrame(c)
  <2>1. Maker!Replies(c, Maker!Done)
    BY <1>3, RepliesOnce DEF AddFrame, Succeeds, Goes
  <2>2. Given[c].kind = "frame" /\ Given[c].frame = Queued(op[c].frame)
    BY <1>1, <1>3, GivenKind DEF AddFrame
  <2>3. Maker!Add(c)
    BY <1>3, <2>1, <2>2, Zenon DEF AddFrame, Maker!Add, Given
  <2> QED  BY <2>3 DEF Maker!Next
<1>4. CASE SetOption(c)
  <2>1. Maker!Replies(c, Maker!Done)
    BY <1>4, RepliesOnce DEF SetOption, Succeeds, Goes
  <2>2. Given[c].kind = "set" /\ Given[c] = op[c]
    BY <1>1, <1>4, GivenKind DEF SetOption
  <2>3. Maker!Set(c)
    BY <1>4, <2>1, <2>2, Zenon DEF SetOption, Maker!Set, Given
  <2> QED  BY <2>3 DEF Maker!Next
<1>5. CASE AddMetadata(c)
  <2>1. Maker!Replies(c, Maker!Done)
    BY <1>5, RepliesOnce DEF AddMetadata, Succeeds, Goes
  <2>2. Given[c].kind = "metadata" /\ Given[c] = op[c] /\ Given[c].value # "not text"
    BY <1>1, <1>5, GivenKind DEF AddMetadata, Values
  <2>3. Maker!Describe(c)
    BY <1>5, <2>1, <2>2, Zenon DEF AddMetadata, Maker!Describe, Given
  <2> QED  BY <2>3 DEF Maker!Next
<1>6. CASE Encode(c)
  <2>1. /\ op[c].kind = "create" /\ Len(encoder.frames) = 1
        /\ taken[c] = encoder.frames[1] /\ UNCHANGED encoder
    BY <1>1, <1>6 DEF Encode, Succeeds, Goes, CallInv
  <2>2. Maker!Replies(c, Maker!Made(encoder.frames[1], encoder.options))
    BY <1>6, <2>1, RepliesOnce DEF Encode, Succeeds, Goes
  <2>3. Given[c].kind = "create"
    BY <1>1, <2>1, GivenKind
  <2>4. Maker!Make(c)
    BY <2>1, <2>2, <2>3 DEF Maker!Make, Given
  <2> QED  BY <2>4 DEF Maker!Next
<1>7. ASSUME NEW from \in {"call", "encode"}, NEW e \in Maker!CreateCauses,
             Fails(c, from, e), op[c].kind = "create",
             e = "no frames" <=> Len(encoder.frames) = 0,
             e = "many frames" <=> Len(encoder.frames) > 1
      PROVE  Maker!Next
  <2>1. Maker!Replies(c, Maker!Error(e)) /\ UNCHANGED encoder
    BY <1>7, RepliesOnce DEF Fails, Goes
  <2>2. Given[c].kind = "create"
    BY <1>1, <1>7, GivenKind
  <2>3. Maker!Fail(c)
    BY <1>7, <2>1, <2>2 DEF Maker!Fail, Given
  <2> QED  BY <2>3 DEF Maker!Next
<1>8. CASE EncodeFails(c)
  <2>1. op[c].kind = "create" /\ Len(encoder.frames) = 1
    BY <1>1, <1>8 DEF EncodeFails, Fails, Goes, CallInv
  <2> QED  BY <1>7, <1>8, <2>1 DEF EncodeFails, Maker!CreateCauses
<1>9. CASE ConvertFails(c)
  <2>1. op[c].kind = "create"
    BY <1>9 DEF ConvertFails
  <2>2. encoder.frames \in Seq(Frame)
    BY <1>1 DEF CreatorTypeOK
  <2>3. Len(encoder.frames) \in Nat
    BY <2>2
  <2>4. CASE Len(encoder.frames) = 0 /\ Fails(c, "call", "no frames")
    <3> DEFINE n == Len(encoder.frames)
    <3>0. n = 0
      BY <2>4, Zenon
    <3> HIDE DEF n
    <3>1. ~(n > 1)
      BY <3>0
    <3>2. "no frames" \in Maker!CreateCauses
      BY DEF Maker!CreateCauses
    <3> QED  BY <1>7, <2>1, <2>4, <3>1, <3>2, Zenon DEF n
  <2>5. CASE Len(encoder.frames) > 1 /\ Fails(c, "call", "many frames")
    <3> DEFINE n == Len(encoder.frames)
    <3>0. n > 1 /\ n \in Nat
      BY <2>3, <2>5, Zenon
    <3> HIDE DEF n
    <3>1. n # 0
      BY <3>0
    <3>2. "many frames" \in Maker!CreateCauses
      BY DEF Maker!CreateCauses
    <3> QED  BY <1>7, <2>1, <2>5, <3>1, <3>2, Zenon DEF n
  <2>6. CASE /\ Len(encoder.frames) = 1
             /\ Verdict(encoder.frames[1]) # "fine"
             /\ Fails(c, "call", Verdict(encoder.frames[1]))
    <3>1. Verdict(encoder.frames[1])
            \in Maker!CreateCauses \ {"no frames", "many frames"}
      BY <2>6 DEF Verdict, Maker!CreateCauses
    <3>2. Len(encoder.frames) # 0 /\ ~(Len(encoder.frames) > 1)
      BY <2>6
    <3> QED  BY <1>7, <2>1, <2>6, <3>1, <3>2
  <2> QED  BY <1>9, <2>4, <2>5, <2>6, Zenon DEF ConvertFails
<1>10. CASE MetadataFails(c)
  <2>1. Maker!Replies(c, Maker!Error("not text")) /\ UNCHANGED encoder
    BY <1>10, RepliesOnce DEF MetadataFails, Fails, Goes
  <2>2. Given[c].kind = "metadata" /\ Given[c].value = "not text"
    BY <1>1, <1>10, GivenKind DEF MetadataFails
  <2>3. Maker!Refuse(c)
    BY <2>1, <2>2 DEF Maker!Refuse, Given
  <2> QED  BY <2>3 DEF Maker!Next
<1> QED  BY <1>2, <1>3, <1>4, <1>5, <1>6, <1>8, <1>9, <1>10 DEF Step

(* A creator implements ImageMaker: an image is made of the encoder as it is at
   one instant, though its pixels and its options are read at different ones. *)
THEOREM CreatorImplementsMaker == Spec => MakerSpec
<1>1. CInv /\ [Next]_vars => [Maker!Next]_(Maker!vars)
  <2> SUFFICES ASSUME CInv, [Next]_vars
               PROVE  Maker!Next \/ UNCHANGED Maker!vars
    OBVIOUS
  <2>1. CASE \E c \in Calls : Step(c)
    BY <2>1, StepMaker
  <2>2. CASE \E c \in Calls : Start(c) \/ StartAsync(c)
    BY <2>2 DEF Start, StartAsync, Maker!vars
  <2>3. CASE Release \/ Rest \/ UNCHANGED vars
    BY <2>3 DEF Release, Rest, vars, Maker!vars
  <2> QED  BY <2>1, <2>2, <2>3 DEF Next
<1> QED  BY InitMaker, <1>1, CreatorInductive, PTL DEF Spec, MakerSpec, Maker!Spec-----------------------------------------------------------------------------
(* Waiting.  A call waits for the mutex and, if it is a task, for a thread. *)

(* The mutex is held by a call under the lock, and a thread is taken by a call
   that runs; under the lock the arguments have been looked at. *)
LockPart ==
  /\ mutex \in Calls => pc[mutex] \in Locked
  /\ \A c \in Calls : pc[c] \in Locked => Accepted(c)
  /\ \A c \in Calls : on[c] \in Threads => pc[c] \in Running

(* The encoder has an answer to what call c asks. *)
HasAnswer(c) ==
  \/ op[c].kind \in {"frame", "set", "create"}
  \/ op[c].kind = "metadata" /\ op[c].value \in Values \cup {"not text"}

(* Call c has the guard of its next step. *)
CanStep(c) ==
  \/ pc[c] = "queued" /\ \E t \in Pool : Idle(t)
  \/ pc[c] = "lock" /\ (Accepted(c) => mutex = NoCall)
  \/ pc[c] = "call" /\ HasAnswer(c)
  \/ pc[c] \in {"encode", "unlock", "message", "answer", "returned"}

LEMMA InitLock == Init => LockPart
BY CreatorAssumption DEF Init, LockPart, Locked, Running

(* A step that leaves the mutex and the threads alone. *)
LEMMA KeepsLock ==
  ASSUME CInv, LockPart, NEW c \in Calls, NEW from, NEW to, Goes(c, from, to),
         op' = op, mutex' = mutex, on' = on,
         from \in Locked <=> to \in Locked, from \in Running => to \in Running
  PROVE  LockPart'
<1>1. /\ pc[c] = from /\ pc'[c] = to
      /\ \A d \in Calls : d # c => pc'[d] = pc[d]
  BY DEF Goes, CInv, CreatorTypeOK
<1>2. \A d \in Calls : Accepted(d)' = Accepted(d)
  BY DEF Accepted
<1>3. mutex' \in Calls => pc'[mutex'] \in Locked
  BY <1>1 DEF LockPart
<1>4. \A d \in Calls : pc'[d] \in Locked => Accepted(d)'
  BY <1>1, <1>2 DEF LockPart
<1>5. \A d \in Calls : on'[d] \in Threads => pc'[d] \in Running
  BY <1>1 DEF LockPart
<1> QED
  BY <1>3, <1>4, <1>5 DEF LockPart

(* A step to a thread, or off it. *)
LEMMA ThreadStep ==
  ASSUME CInv, LockPart, NEW c \in Calls, NEW from, NEW to, NEW t, Goes(c, from, to),
         op' = op, mutex' = mutex, on' = [on EXCEPT ![c] = t],
         from \notin Locked, to \notin Locked, t \in Threads => to \in Running
  PROVE  LockPart'
<1>1. /\ pc[c] = from /\ pc'[c] = to /\ on'[c] = t
      /\ \A d \in Calls : d # c => pc'[d] = pc[d] /\ on'[d] = on[d]
  BY DEF Goes, CInv, CreatorTypeOK
<1>2. \A d \in Calls : Accepted(d)' = Accepted(d)
  BY DEF Accepted
<1>3. mutex' \in Calls => pc'[mutex'] \in Locked
  BY <1>1 DEF LockPart
<1>4. \A d \in Calls : pc'[d] \in Locked => Accepted(d)'
  BY <1>1, <1>2 DEF LockPart
<1>5. \A d \in Calls : on'[d] \in Threads => pc'[d] \in Running
  BY <1>1 DEF LockPart
<1> QED
  BY <1>3, <1>4, <1>5 DEF LockPart

(* The mutex is taken and released. *)
LEMMA MutexStep ==
  ASSUME CInv, LockPart, NEW c \in Calls, Lock(c) \/ Unlock(c)
  PROVE  LockPart'
<1>1. op' = op /\ on' = on /\ \A d \in Calls : Accepted(d)' = Accepted(d)
  BY DEF Lock, Unlock, Accepted
<1>2. CASE Lock(c)
  <2>1. /\ pc[c] = "lock" /\ pc'[c] = "call" /\ mutex' = c /\ Accepted(c)
        /\ \A d \in Calls : d # c => pc'[d] = pc[d]
    BY <1>2 DEF Lock, Goes, CInv, CreatorTypeOK
  <2> QED
    BY <1>1, <2>1 DEF LockPart, Locked, Running
<1>3. CASE Unlock(c)
  <2>1. /\ pc[c] = "unlock" /\ pc'[c] \in {"message", "answer"} /\ mutex' = NoCall
        /\ \A d \in Calls : d # c => pc'[d] = pc[d]
    BY <1>3 DEF Unlock, Goes, CInv, CreatorTypeOK
  <2>2. mutex' \notin Calls
    BY <2>1, CreatorAssumption
  <2> QED
    BY <1>1, <2>1, <2>2 DEF LockPart, Locked, Running
<1> QED
  BY <1>2, <1>3

LEMMA NextLock == CInv /\ LockPart /\ [Next]_vars => LockPart'
<1> SUFFICES ASSUME CInv, LockPart, [Next]_vars PROVE LockPart'
  OBVIOUS
<1>1. ASSUME NEW c \in Calls, Start(c) \/ Run(c)
      PROVE  LockPart'
  <2>1. PICK from \in {"idle", "queued"} : Goes(c, from, "lock")
    BY <1>1 DEF Start, Run
  <2>2. PICK t \in Threads : on' = [on EXCEPT ![c] = t]
    BY <1>1 DEF Start, Run, RunsOn, Threads
  <2>3. op' = op /\ mutex' = mutex
    BY <1>1 DEF Start, Run
  <2>4. from \notin Locked /\ "lock" \notin Locked /\ "lock" \in Running
    BY DEF Locked, Running
  <2> QED
    BY <2>1, <2>2, <2>3, <2>4, ThreadStep
<1>2. ASSUME NEW c \in Calls, ReturnFrame(c) \/ Return(c)
      PROVE  LockPart'
  <2>1. PICK to \in {"done", "returned"} : Goes(c, "answer", to)
    BY <1>2 DEF ReturnFrame, Return, Answer
  <2>2. on' = [on EXCEPT ![c] = NoThread] /\ op' = op /\ mutex' = mutex
    BY <1>2 DEF ReturnFrame, Return, Answer
  <2>3. "answer" \notin Locked /\ to \notin Locked /\ NoThread \notin Threads
    BY CreatorAssumption DEF Locked
  <2> QED
    BY <2>1, <2>2, <2>3, ThreadStep
<1>3. ASSUME NEW c \in Calls,
             \/ StartAsync(c) \/ Reject(c) \/ AddFrame(c) \/ SetOption(c) \/ AddMetadata(c)
             \/ MetadataFails(c) \/ Convert(c) \/ ConvertFails(c) \/ Encode(c)
             \/ EncodeFails(c) \/ ReadMessage(c) \/ Collect(c)
      PROVE  LockPart'
  <2>1. op' = op /\ mutex' = mutex /\ on' = on
    BY <1>3 DEF StartAsync, Reject, AddFrame, SetOption, AddMetadata, MetadataFails, Convert,
                ConvertFails, Encode, EncodeFails, ReadMessage, Collect, Succeeds, Fails
  <2>2. \/ Goes(c, "idle", "queued") \/ Goes(c, "lock", "answer") \/ Goes(c, "call", "unlock")
        \/ Goes(c, "call", "encode") \/ Goes(c, "encode", "unlock")
        \/ Goes(c, "message", "answer") \/ Goes(c, "returned", "done")
    BY <1>3 DEF StartAsync, Reject, AddFrame, SetOption, AddMetadata, MetadataFails, Convert,
                ConvertFails, Encode, EncodeFails, ReadMessage, Collect, Succeeds, Fails
  <2>3. PICK from, to : /\ Goes(c, from, to)
                        /\ from \in Locked <=> to \in Locked
                        /\ from \in Running => to \in Running
    BY <2>2 DEF Locked, Running
  <2> QED
    BY <2>1, <2>3, KeepsLock
<1>4. CASE Release \/ Rest \/ UNCHANGED vars
  <2>1. op' = op /\ mutex' = mutex /\ on' = on /\ pc' = pc
    BY <1>4 DEF Release, Rest, vars
  <2> QED
    BY <2>1 DEF LockPart, Accepted
<1> QED
  BY <1>1, <1>2, <1>3, <1>4, MutexStep DEF Next, Step

(* A call that runs can step, or the one that holds the mutex can. *)
LEMMA RunningSteps ==
  ASSUME CInv, LockPart, NEW c \in Calls, pc[c] \in Running
  PROVE  \E d \in Calls : CanStep(d)
<1>1. ASSUME NEW d \in Calls, pc[d] \in Locked
      PROVE  CanStep(d)
  <2>1. CASE pc[d] = "call"
    <3>1. Accepted(d) /\ op[d] \in Op
      BY <1>1 DEF LockPart, CInv, CreatorTypeOK
    <3>2. HasAnswer(d)
      BY <3>1 DEF HasAnswer, Accepted, Op
    <3> QED
      BY <2>1, <3>2 DEF CanStep
  <2> QED
    BY <1>1, <2>1 DEF CanStep, Locked
<1>2. CASE pc[c] = "lock"
  <2>1. CASE Accepted(c) /\ mutex \in Calls
    BY <1>1, <2>1 DEF LockPart
  <2>2. CASE ~Accepted(c) \/ mutex = NoCall
    BY <1>2, <2>2 DEF CanStep
  <2> QED
    BY <2>1, <2>2 DEF CInv, CreatorTypeOK
<1>3. CASE pc[c] \in Locked
  BY <1>1, <1>3
<1> QED
  BY <1>2, <1>3 DEF Running, Locked, CanStep

(* Nobody waits for ever: while a call is in flight, some call can take its next
   step, though synchronous calls and tasks share a mutex, and tasks the threads
   of a pool, of which there is one at least. *)
THEOREM CallsNeverStall ==
  ASSUME Pool # {}
  PROVE  Spec => [](\A c \in Calls : InFlight(c) => \E d \in Calls : CanStep(d))
<1>1. CInv /\ LockPart => \A c \in Calls : InFlight(c) => \E d \in Calls : CanStep(d)
  <2> SUFFICES ASSUME CInv, LockPart, NEW c \in Calls, InFlight(c)
               PROVE  \E d \in Calls : CanStep(d)
    OBVIOUS
  <2>1. pc[c] \in {"queued", "returned"} \cup Running
    BY DEF CInv, CreatorTypeOK, PCs, InFlight, Running
  <2>2. CASE pc[c] = "queued"
    <3>1. PICK t \in Pool : TRUE
      OBVIOUS
    <3>2. CASE Idle(t)
      BY <2>2, <3>2 DEF CanStep
    <3>3. CASE ~Idle(t)
      <4>1. PICK d \in Calls : on[d] = t
        BY <3>3 DEF Idle
      <4>2. pc[d] \in Running
        BY <4>1 DEF LockPart, Threads
      <4> QED
        BY <4>2, RunningSteps
    <3> QED
      BY <3>2, <3>3
  <2>3. CASE pc[c] = "returned"
    BY <2>3 DEF CanStep
  <2> QED
    BY <2>1, <2>2, <2>3, RunningSteps
<1> QED
  BY <1>1, InitLock, NextLock, CreatorInductive, PTL DEF Spec
=============================================================================
