------------------------- MODULE DecodeWorkerProofs -------------------------
(***************************************************************************)
(* Theorems about DecodeWorker, for every set of calls, selectors, limits, *)
(* host caps, build and kernel.                                            *)
(***************************************************************************)
EXTENDS DecodeWorker, TLAPS

(* A cap in bytes is a u64. *)
LEMMA AsBytesType == ASSUME NEW m \in Nat PROVE AsBytes(m) \in 0..Infinity
  BY WorkerAssumption DEF AsBytes

(* A posture or selector has the fields the layers name. *)
LEMMA PostureFields ==
  ASSUME NEW p \in Call!Postures
  PROVE  /\ p.landlock \in {"Enforced", "Unsupported", "Disabled"}
         /\ p.seccomp \in {"Enforced", "Unsupported", "Disabled"}
         /\ p.rlimit \in {"Applied", "PartiallyApplied", "Disabled"}
  BY DEF Call!Postures

(* Filling in one layer of a posture gives a posture. *)
LEMMA PostureUpdate ==
  ASSUME NEW p \in Call!Postures
  PROVE  /\ \A v \in {"Enforced", "Unsupported"} :
              /\ [p EXCEPT !["landlock"] = v] \in Call!Postures
              /\ [p EXCEPT !["seccomp"] = v] \in Call!Postures
         /\ \A v \in {"Applied", "PartiallyApplied"} :
              [p EXCEPT !.rlimit = v] \in Call!Postures
  BY DEF Call!Postures

(* Each constructor of an answer gives an answer. *)
LEMMA AnswerTypes ==
  /\ \A p \in Call!Postures : Call!Ok(p) \in Call!Answers
  /\ \A l \in Layers : Call!Refused(l) \in Call!Answers
  /\ \A k \in Call!Failures : Call!Failed(k) \in Call!Answers
  BY DEF Call!Answers, Call!Layers, Layers

(* Every variable keeps its type, over every step. *)
LEMMA TypeStep == TypeOK /\ [Next]_vars => TypeOK'
  <1> SUFFICES ASSUME TypeOK, [Next]_vars PROVE TypeOK'
    OBVIOUS
  <1> USE DEF TypeOK, CallerGoes, WorkerGoes, Returns, Finishes, requested,
              workerVars, capVars, CallerPCs, WorkerPCs
  <1>1. ASSUME NEW d \in Decodes, Load(d) PROVE TypeOK'
    BY <1>1 DEF Load
  <1>2. ASSUME NEW d \in Decodes, CallerStep(d) PROVE TypeOK'
    <2>1. CASE ResolveFormat(d)
      BY <2>1 DEF ResolveFormat
    <2>2. CASE ResolveFails(d)
      <3>1. PICK k \in {"Io", "UnsupportedFormat"} :
                   Returns(d, "read", Call!Failed(k))
        BY <2>2 DEF ResolveFails
      <3>2. Call!Failed(k) \in Call!Answers
        BY AnswerTypes DEF Call!Failures
      <3>. QED
        BY <2>2, <3>1, <3>2 DEF ResolveFails
    <2>3. CASE Spawn(d)
      BY <2>3 DEF Spawn
    <2>4. CASE SpawnFails(d)
      <3>1. Call!Failed("Io") \in Call!Answers
        BY AnswerTypes DEF Call!Failures
      <3>. QED
        BY <2>4, <3>1 DEF SpawnFails
    <2>5. CASE Join(d)
      BY <2>5 DEF Join
    <2>6. CASE JoinPanicked(d)
      <3>1. Call!Failed("Internal") \in Call!Answers
        BY AnswerTypes DEF Call!Failures
      <3>. QED
        BY <2>6, <3>1 DEF JoinPanicked
    <2>. QED
      BY <1>2, <2>1, <2>2, <2>3, <2>4, <2>5, <2>6 DEF CallerStep
  <1>3. ASSUME NEW d \in Decodes, WorkerStep(d) PROVE TypeOK'
    <2>1. CASE SetAs(d)
      BY <2>1, AsBytesType, WorkerAssumption DEF SetAs, Permitted
    <2>2. CASE SetCpu(d)
      <3>1. /\ cpuMax' \in 0..Infinity
            /\ worker' \in [Decodes -> WorkerPCs]
        BY <2>2, WorkerAssumption DEF SetCpu, Then, Permitted
      <3>2. PICK v \in {"Applied", "PartiallyApplied"} :
                   posture' = [posture EXCEPT ![d] = [posture[d] EXCEPT !.rlimit = v]]
        BY <2>2 DEF SetCpu
      <3>3. [posture[d] EXCEPT !.rlimit = v] \in Call!Postures
        BY PostureUpdate
      <3>. QED
        BY <2>2, <3>1, <3>2, <3>3 DEF SetCpu
    <2>3. CASE SkipRlimit(d)
      BY <2>3 DEF SkipRlimit, Then
    <2>4. CASE ApplyLandlock(d)
      <3>1. PICK v \in {"Enforced", "Unsupported"} :
                   posture' = [posture EXCEPT
                                 ![d] = [posture[d] EXCEPT !["landlock"] = v]]
        BY <2>4 DEF ApplyLandlock, Confine, Refuse
      <3>2. [posture[d] EXCEPT !["landlock"] = v] \in Call!Postures
        BY PostureUpdate
      <3>3. confined' \in [Decodes -> SUBSET {"landlock", "seccomp"}]
        BY <2>4 DEF ApplyLandlock, Confine, Refuse
      <3>. QED
        BY <2>4, <3>1, <3>2, <3>3 DEF ApplyLandlock, Then
    <2>5. CASE SkipLandlock(d)
      BY <2>5 DEF SkipLandlock, Then
    <2>6. CASE ApplySeccomp(d)
      <3>1. PICK v \in {"Enforced", "Unsupported"} :
                   posture' = [posture EXCEPT
                                 ![d] = [posture[d] EXCEPT !["seccomp"] = v]]
        BY <2>6 DEF ApplySeccomp, Confine, Refuse
      <3>2. [posture[d] EXCEPT !["seccomp"] = v] \in Call!Postures
        BY PostureUpdate
      <3>3. confined' \in [Decodes -> SUBSET {"landlock", "seccomp"}]
        BY <2>6 DEF ApplySeccomp, Confine, Refuse
      <3>. QED
        BY <2>6, <3>1, <3>2, <3>3 DEF ApplySeccomp, Then
    <2>7. CASE SkipSeccomp(d)
      BY <2>7 DEF SkipSeccomp, Then
    <2>8. CASE CheckPasses(d)
      BY <2>8 DEF CheckPasses
    <2>9. CASE CheckRefuses(d)
      BY <2>9, AnswerTypes DEF CheckRefuses, FirstOf, Layers
    <2>10. CASE Decode(d)
      BY <2>10, AnswerTypes DEF Decode, Call!Failures
    <2>11. CASE Panic(d)
      BY <2>11 DEF Panic
    <2>. QED
      BY <1>3, <2>1, <2>2, <2>3, <2>4, <2>5, <2>6, <2>7, <2>8, <2>9, <2>10, <2>11
      DEF WorkerStep
  <1>4. CASE CapKills
    BY <1>4 DEF CapKills
  <1>5. CASE UNCHANGED vars
    BY <1>5 DEF vars
  <1>. QED
    BY <1>1, <1>2, <1>3, <1>4, <1>5 DEF Next, Rest

(* Loader::load, its workers and the process's limits keep their types. *)
THEOREM TypeCorrect == Spec => []TypeOK
  <1>1. Init => TypeOK
    BY WorkerAssumption
    DEF Init, TypeOK, CallerPCs, WorkerPCs, NoPosture, Call!Postures
  <1>. QED
    BY <1>1, TypeStep, PTL DEF Spec, SafeSpec
-----------------------------------------------------------------------------
(* What every step keeps. *)

(* Requests never change, and a started worker stays started. *)
LEMMA Stable ==
  ASSUME TypeOK, [Next]_vars
  PROVE  /\ asked' = asked
         /\ limits' = limits
         /\ \A d \in Decodes : worker[d] # "none" => worker'[d] # "none"
  <1> DEFINE Kept == /\ asked' = asked
                     /\ limits' = limits
                     /\ \A d \in Decodes : worker[d] # "none" => worker'[d] # "none"
  <1> USE DEF TypeOK, CallerGoes, WorkerGoes, Returns, Finishes, requested, Then
  <1>1. ASSUME NEW d \in Decodes, Load(d) \/ CallerStep(d) PROVE Kept
    BY <1>1 DEF Load, CallerStep, ResolveFormat, ResolveFails, Spawn, SpawnFails,
                Join, JoinPanicked
  <1>2. ASSUME NEW d \in Decodes, WorkerStep(d) PROVE Kept
    BY <1>2 DEF WorkerStep, SetAs, SetCpu, SkipRlimit, ApplyLandlock, SkipLandlock,
                ApplySeccomp, SkipSeccomp, CheckPasses, CheckRefuses, Decode, Panic
  <1>3. CASE CapKills \/ UNCHANGED vars
    BY <1>3 DEF CapKills, vars
  <1>. QED
    BY <1>1, <1>2, <1>3 DEF Next, Rest

(* An unprivileged process only ever lowers its caps. *)
LEMMA CapsFall ==
  ASSUME TypeOK, [Next]_vars
  PROVE  Privileged \/ (asMax' <= asMax /\ cpuMax' <= cpuMax)
  <1> DEFINE Fall == Privileged \/ (asMax' <= asMax /\ cpuMax' <= cpuMax)
  <1>0. /\ asMax \in 0..Infinity /\ cpuMax \in 0..Infinity /\ Infinity \in Nat
        /\ asMax <= asMax /\ cpuMax <= cpuMax
    BY WorkerAssumption DEF TypeOK
  <1>1. ASSUME NEW d \in Decodes, Load(d) \/ CallerStep(d) PROVE Fall
    BY <1>0, <1>1 DEF Load, CallerStep, ResolveFormat, ResolveFails, Spawn,
                SpawnFails, Join, JoinPanicked, capVars
  <1>2. ASSUME NEW d \in Decodes, WorkerStep(d) PROVE Fall
    <2>1. CASE SetAs(d)
      BY <1>0, <2>1 DEF SetAs, Permitted
    <2>2. CASE SetCpu(d)
      BY <1>0, <2>2 DEF SetCpu, Permitted
    <2>. QED
      BY <1>0, <1>2, <2>1, <2>2
      DEF WorkerStep, SkipRlimit, ApplyLandlock, SkipLandlock, ApplySeccomp,
          SkipSeccomp, CheckPasses, CheckRefuses, Decode, Panic, capVars
  <1>3. CASE CapKills \/ UNCHANGED vars
    BY <1>0, <1>3 DEF CapKills, vars, capVars
  <1>. QED
    BY <1>1, <1>2, <1>3 DEF Next, Rest

(* A cap that is lower elsewhere stays lower elsewhere. *)
LEMMA LowerStays ==
  ASSUME TypeOK, [Next]_vars, NEW d \in Decodes, LowerCapElsewhere(d)
  PROVE  LowerCapElsewhere(d)'
  BY Stable DEF LowerCapElsewhere, AsBytes

(* A process held to a call's caps stays held to them. *)
LEMMA CappedStays ==
  ASSUME TypeOK, [Next]_vars, NEW d \in Decodes, Capped(d)
  PROVE  Capped(d)'
  <1>1. /\ limits[d].mem \in Nat /\ limits[d].cpu \in 0..Infinity
        /\ Infinity \in Nat
        /\ asMax \in 0..Infinity /\ cpuMax \in 0..Infinity
        /\ asMax' \in 0..Infinity /\ cpuMax' \in 0..Infinity
    BY TypeStep, WorkerAssumption DEF TypeOK
  <1>2. AsBytes(limits[d].mem) \in 0..Infinity
    BY <1>1, AsBytesType
  <1>3. AsBytes(limits[d].mem)' = AsBytes(limits[d].mem)
    BY Stable DEF AsBytes
  <1>. QED
    BY <1>1, <1>2, <1>3, Stable, CapsFall DEF Capped

(* setrlimit refuses a call only what a lower cap elsewhere takes from it. *)
LEMMA RefusedByOwner ==
  ASSUME TypeOK, CapsHaveOwners, NEW d \in Decodes,
         \/ asMax < AsBytes(limits[d].mem)
         \/ cpuMax < limits[d].cpu
  PROVE  LowerCapElsewhere(d)
  BY DEF CapsHaveOwners, LowerCapElsewhere
-----------------------------------------------------------------------------
(* The parts of the inductive invariant, one lemma for each. *)

(* A caller and its worker move together. *)
LEMMA ThreadsStep ==
  ASSUME TypeOK, Threads, [Next]_vars
  PROVE  Threads'
  <1> USE DEF TypeOK, Threads, CallerGoes, WorkerGoes, Returns, Finishes, Then
  <1>1. ASSUME NEW d \in Decodes, Load(d) \/ CallerStep(d) PROVE Threads'
    BY <1>1 DEF Load, CallerStep, ResolveFormat, ResolveFails, Spawn, SpawnFails,
                Join, JoinPanicked
  <1>2. ASSUME NEW d \in Decodes, WorkerStep(d) PROVE Threads'
    BY <1>2 DEF WorkerStep, SetAs, SetCpu, SkipRlimit, ApplyLandlock, SkipLandlock,
                ApplySeccomp, SkipSeccomp, CheckPasses, CheckRefuses, Decode, Panic
  <1>3. CASE CapKills \/ UNCHANGED vars
    BY <1>3 DEF CapKills, vars
  <1>. QED
    BY <1>1, <1>2, <1>3 DEF Next, Rest

(* A cap only changes to what the call that changes it selected. *)
LEMMA CapsHaveOwnersStep ==
  ASSUME TypeOK, CapsHaveOwners, ProcessLayer, [Next]_vars
  PROVE  CapsHaveOwners'
  <1> DEFINE AsOwned  == \/ asMax = HostAs
                         \/ \E c \in Decodes : /\ asked[c].rlimit
                                               /\ worker[c] # "none"
                                               /\ asMax = AsBytes(limits[c].mem)
             CpuOwned == \/ cpuMax = HostCpu
                         \/ \E c \in Decodes : /\ asked[c].rlimit
                                               /\ worker[c] # "none"
                                               /\ cpuMax = limits[c].cpu
  <1>1. AsOwned /\ CpuOwned
    BY DEF CapsHaveOwners
  <1>2. AsOwned' /\ CpuOwned' => CapsHaveOwners'
    BY DEF CapsHaveOwners
  <1>3. asMax' = asMax => AsOwned'
    BY <1>1, Stable DEF AsBytes
  <1>4. cpuMax' = cpuMax => CpuOwned'
    BY <1>1, Stable
  <1> HIDE DEF AsOwned, CpuOwned
  <1>5. ASSUME NEW d \in Decodes, Load(d) \/ CallerStep(d)
        PROVE  asMax' = asMax /\ cpuMax' = cpuMax
    BY <1>5 DEF Load, CallerStep, ResolveFormat, ResolveFails, Spawn, SpawnFails,
                Join, JoinPanicked, capVars
  <1>6. ASSUME NEW d \in Decodes, WorkerStep(d) PROVE AsOwned' /\ CpuOwned'
    <2>1. CASE SetAs(d)
      <3>1. asked'[d].rlimit /\ worker'[d] # "none" /\ limits' = limits
        BY <2>1, Stable DEF SetAs, Attempts, WorkerGoes, TypeOK
      <3>2. asMax' \in {asMax, AsBytes(limits[d].mem)} /\ cpuMax' = cpuMax
        BY <2>1 DEF SetAs
      <3>. QED
        BY <3>1, <3>2, <1>3, <1>4 DEF AsOwned, AsBytes
    <2>2. CASE SetCpu(d)
      <3>1. asked'[d].rlimit /\ worker'[d] # "none" /\ limits' = limits
        BY <2>2, Stable
        DEF SetCpu, WorkerGoes, Then, TypeOK, ProcessLayer, ProcessLayerOf, Attempts
      <3>2. cpuMax' \in {cpuMax, limits[d].cpu} /\ asMax' = asMax
        BY <2>2 DEF SetCpu
      <3>. QED
        BY <3>1, <3>2, <1>3, <1>4 DEF CpuOwned
    <2>. QED
      BY <1>3, <1>4, <1>6, <2>1, <2>2
      DEF WorkerStep, SkipRlimit, ApplyLandlock, SkipLandlock, ApplySeccomp,
          SkipSeccomp, CheckPasses, CheckRefuses, Decode, Panic, capVars
  <1>7. CASE CapKills \/ UNCHANGED vars
    BY <1>2, <1>3, <1>4, <1>7 DEF CapKills, vars, capVars
  <1>. QED
    BY <1>2, <1>3, <1>4, <1>5, <1>6, <1>7 DEF Next, Rest

(* A thread layer that a step leaves alone keeps its part of the invariant. *)
LEMMA ThreadLayerFrame ==
  ASSUME NEW c \in Decodes, NEW l \in {"landlock", "seccomp"}, ThreadLayer(c, l),
         asked' = asked, posture'[c][l] = posture[c][l],
         (l \in confined'[c]) <=> (l \in confined[c]), Past(c, l)' <=> Past(c, l)
  PROVE  ThreadLayer(c, l)'
  BY DEF ThreadLayer, Attempts

(* Landlock and seccomp: the posture says what the kernel took. *)
LEMMA ThreadLayersStep ==
  ASSUME TypeOK, Threads, ThreadLayers, [Next]_vars
  PROVE  ThreadLayers'
  <1> DEFINE Same(c, l) == /\ posture'[c][l] = posture[c][l]
                           /\ (l \in confined'[c]) <=> (l \in confined[c])
                           /\ Past(c, l)' <=> Past(c, l)
  <1>0. ASSUME NEW c \in Decodes, NEW l \in {"landlock", "seccomp"}, Same(c, l)
        PROVE  ThreadLayer(c, l)'
    BY <1>0, ThreadLayerFrame, Stable DEF ThreadLayers
  <1>1. ASSUME NEW d \in Decodes, Load(d) \/ CallerStep(d),
               NEW c \in Decodes, NEW l \in {"landlock", "seccomp"}
        PROVE  Same(c, l)
    BY <1>1 DEF Load, CallerStep, ResolveFormat, ResolveFails, Spawn, SpawnFails,
                Join, JoinPanicked, CallerGoes, Returns, workerVars, Past, TypeOK,
                Threads
  <1>2. ASSUME NEW d \in Decodes, WorkerStep(d),
               NEW c \in Decodes, NEW l \in {"landlock", "seccomp"}
        PROVE  ThreadLayer(c, l)'
    <2> USE DEF WorkerGoes, Finishes, workerVars, Then, Past, TypeOK
    <2>1. CASE \/ SetAs(d) \/ SkipRlimit(d) \/ CheckPasses(d) \/ CheckRefuses(d)
               \/ Decode(d) \/ Panic(d)
      <3>1. Same(c, l)
        BY <2>1 DEF SetAs, SkipRlimit, CheckPasses, CheckRefuses, Decode, Panic
      <3>. QED
        BY <1>0, <3>1
    <2>2. CASE SetCpu(d)
      <3>1. Same(c, l)
        BY <2>2, PostureFields DEF SetCpu, Call!Postures
      <3>. QED
        BY <1>0, <3>1
    <2>3. CASE ApplyLandlock(d)
      <3>0. ~Filtered(d, "landlock")
        BY <2>3 DEF ApplyLandlock, Filtered, ThreadLayers, ThreadLayer
      <3>1. CASE c = d /\ l = "landlock"
        BY <2>3, <3>0, <3>1, Stable, PostureFields
        DEF ApplyLandlock, Confine, Refuse, ThreadLayers, ThreadLayer, Attempts,
            Call!Postures
      <3>2. CASE ~(c = d /\ l = "landlock")
        <4>1. Same(c, l)
          BY <2>3, <3>2 DEF ApplyLandlock, Confine, Refuse, Call!Postures
        <4>. QED
          BY <1>0, <4>1
      <3>. QED
        BY <3>1, <3>2
    <2>4. CASE SkipLandlock(d)
      BY <2>4, Stable DEF SkipLandlock, ThreadLayers, ThreadLayer, Attempts
    <2>5. CASE ApplySeccomp(d)
      <3>1. CASE c = d /\ l = "seccomp"
        BY <2>5, <3>1, Stable, PostureFields
        DEF ApplySeccomp, Confine, Refuse, ThreadLayers, ThreadLayer, Attempts,
            Call!Postures
      <3>2. CASE ~(c = d /\ l = "seccomp")
        <4>1. Same(c, l)
          BY <2>5, <3>2 DEF ApplySeccomp, Confine, Refuse, Call!Postures
        <4>. QED
          BY <1>0, <4>1
      <3>. QED
        BY <3>1, <3>2
    <2>6. CASE SkipSeccomp(d)
      BY <2>6, Stable DEF SkipSeccomp, ThreadLayers, ThreadLayer, Attempts
    <2>. QED
      BY <1>2, <2>1, <2>2, <2>3, <2>4, <2>5, <2>6 DEF WorkerStep
  <1>3. ASSUME CapKills \/ UNCHANGED vars,
               NEW c \in Decodes, NEW l \in {"landlock", "seccomp"}
        PROVE  Same(c, l)
    BY <1>3 DEF CapKills, vars, workerVars, Past
  <1> HIDE DEF Same
  <1>. QED
    BY <1>0, <1>1, <1>2, <1>3 DEF Next, Rest, ThreadLayers

(* The rlimit layer of a call, seen by a step that leaves its worker alone. *)
LEMMA ProcessLayerFrame ==
  ASSUME TypeOK, [Next]_vars, NEW c \in Decodes, ProcessLayerOf(c),
         posture'[c].rlimit = posture[c].rlimit, asSet'[c] = asSet[c],
         Past(c, "rlimit")' <=> Past(c, "rlimit"),
         worker'[c] = "rlimit_cpu" <=> worker[c] = "rlimit_cpu"
  PROVE  ProcessLayerOf(c)'
  <1>1. /\ AsBytes(limits[c].mem)' = AsBytes(limits[c].mem)
        /\ AsBytes(limits[c].mem) \in 0..Infinity
    BY Stable, AsBytesType, WorkerAssumption DEF AsBytes, TypeOK
  <1>2. asMax \in 0..Infinity /\ asMax' \in 0..Infinity /\ Infinity \in Nat
    BY TypeStep, WorkerAssumption DEF TypeOK
  <1>3. Privileged \/ asMax <= AsBytes(limits[c].mem)
          => Privileged \/ asMax' <= AsBytes(limits[c].mem)
    BY <1>1, <1>2, CapsFall
  <1>4. Attempts(c, "rlimit")' <=> Attempts(c, "rlimit")
    BY Stable DEF Attempts
  <1>. QED
    BY <1>1, <1>3, <1>4, CappedStays, LowerStays DEF ProcessLayerOf

(* Rlimit: the posture says what setrlimit did, and a refusal had a cause. *)
LEMMA ProcessLayerStep ==
  ASSUME TypeOK, Threads, CapsHaveOwners, ProcessLayer, [Next]_vars
  PROVE  ProcessLayer'
  <1> DEFINE Same(c) == /\ posture'[c].rlimit = posture[c].rlimit
                        /\ asSet'[c] = asSet[c]
                        /\ Past(c, "rlimit")' <=> Past(c, "rlimit")
                        /\ worker'[c] = "rlimit_cpu" <=> worker[c] = "rlimit_cpu"
  <1>0. ASSUME NEW c \in Decodes, Same(c) PROVE ProcessLayerOf(c)'
    BY <1>0, ProcessLayerFrame DEF ProcessLayer
  <1>1. ASSUME NEW d \in Decodes, Load(d) \/ CallerStep(d), NEW c \in Decodes
        PROVE  Same(c)
    BY <1>1 DEF Load, CallerStep, ResolveFormat, ResolveFails, Spawn, SpawnFails,
                Join, JoinPanicked, CallerGoes, Returns, workerVars, Past, TypeOK,
                Threads
  <1>2. ASSUME NEW d \in Decodes, WorkerStep(d), NEW c \in Decodes
        PROVE  ProcessLayerOf(c)'
    <2> USE DEF WorkerGoes, Finishes, workerVars, Then, Past, TypeOK
    <2>1. CASE \/ SkipLandlock(d) \/ SkipSeccomp(d) \/ CheckPasses(d)
               \/ CheckRefuses(d) \/ Decode(d) \/ Panic(d)
      <3>1. Same(c)
        BY <2>1 DEF SkipLandlock, SkipSeccomp, CheckPasses, CheckRefuses, Decode,
                    Panic
      <3>. QED
        BY <1>0, <3>1
    <2>2. CASE ApplyLandlock(d) \/ ApplySeccomp(d)
      <3>1. Same(c)
        BY <2>2 DEF ApplyLandlock, ApplySeccomp, Confine, Refuse, Call!Postures
      <3>. QED
        BY <1>0, <3>1
    <2>3. CASE c # d
      <3>1. Same(c)
        BY <1>2, <2>3 DEF WorkerStep, SetAs, SetCpu, SkipRlimit, ApplyLandlock,
                          SkipLandlock, ApplySeccomp, SkipSeccomp, CheckPasses,
                          CheckRefuses, Decode, Panic, Confine, Refuse
      <3>. QED
        BY <1>0, <3>1
    <2>4. CASE c = d /\ SetAs(d)
      <3>1. /\ worker'[d] = "rlimit_cpu" /\ worker[d] = "rlimit_as"
            /\ posture'[d] = posture[d] /\ Attempts(d, "rlimit")
        BY <2>4 DEF SetAs
      <3>2. Attempts(d, "rlimit")' /\ posture'[d].rlimit = "Disabled"
        BY <3>1, Stable DEF Attempts, ProcessLayer, ProcessLayerOf
      <3>3. AsBytes(limits[d].mem)' = AsBytes(limits[d].mem)
        BY Stable DEF AsBytes
      <3>4. AsBytes(limits[d].mem) \in 0..Infinity /\ asMax \in 0..Infinity
            /\ Infinity \in Nat
        BY AsBytesType, WorkerAssumption
      <3>5. CASE Permitted(asMax, AsBytes(limits[d].mem))
        <4>1. asSet'[d] /\ asMax' = AsBytes(limits[d].mem)
          BY <2>4, <3>5 DEF SetAs
        <4>. QED
          BY <2>4, <3>1, <3>2, <3>3, <3>4, <4>1 DEF ProcessLayerOf
      <3>6. CASE ~Permitted(asMax, AsBytes(limits[d].mem))
        <4>1. ~asSet'[d]
          BY <2>4, <3>6 DEF SetAs
        <4>2. LowerCapElsewhere(d)
          BY <3>4, <3>6, RefusedByOwner DEF Permitted
        <4>. QED
          BY <2>4, <3>1, <3>2, <4>1, <4>2, LowerStays DEF ProcessLayerOf
      <3>. QED
        BY <3>5, <3>6
    <2>5. CASE c = d /\ SetCpu(d)
      <3>1. worker[d] = "rlimit_cpu" /\ worker'[d] = "landlock" /\ asMax' = asMax
        BY <2>5 DEF SetCpu
      <3>2. /\ Attempts(d, "rlimit") /\ Attempts(d, "rlimit")'
            /\ asSet[d] => Privileged \/ asMax <= AsBytes(limits[d].mem)
            /\ ~asSet[d] => LowerCapElsewhere(d)
        BY <3>1, Stable DEF ProcessLayer, ProcessLayerOf, Attempts
      <3>3. limits[d].cpu \in 0..Infinity /\ cpuMax \in 0..Infinity /\ Infinity \in Nat
        BY WorkerAssumption
      <3>4. CASE asSet[d] /\ Permitted(cpuMax, limits[d].cpu)
        <4>1. posture'[d].rlimit = "Applied" /\ cpuMax' = limits[d].cpu
          BY <2>5, <3>4 DEF SetCpu, Call!Postures
        <4>2. Capped(d)'
          BY <3>1, <3>2, <3>3, <3>4, <4>1, Stable DEF Capped, AsBytes
        <4>. QED
          BY <2>5, <3>1, <3>2, <4>1, <4>2 DEF ProcessLayerOf
      <3>5. CASE ~(asSet[d] /\ Permitted(cpuMax, limits[d].cpu))
        <4>1. posture'[d].rlimit = "PartiallyApplied"
          BY <2>5, <3>5 DEF SetCpu, Call!Postures
        <4>2. LowerCapElsewhere(d)
          BY <3>2, <3>3, <3>5, RefusedByOwner DEF Permitted
        <4>. QED
          BY <2>5, <3>1, <3>2, <4>1, <4>2, LowerStays DEF ProcessLayerOf
      <3>. QED
        BY <3>4, <3>5
    <2>6. CASE c = d /\ SkipRlimit(d)
      <3>1. /\ worker'[d] = "landlock" /\ worker[d] = "rlimit_as"
            /\ posture'[d] = posture[d] /\ ~Attempts(d, "rlimit")
        BY <2>6 DEF SkipRlimit
      <3>2. ~Attempts(d, "rlimit")' /\ posture'[d].rlimit = "Disabled"
        BY <3>1, Stable DEF Attempts, ProcessLayer, ProcessLayerOf
      <3>. QED
        BY <2>6, <3>1, <3>2 DEF ProcessLayerOf
    <2>. QED
      BY <1>2, <2>1, <2>2, <2>3, <2>4, <2>5, <2>6 DEF WorkerStep
  <1>3. ASSUME CapKills \/ UNCHANGED vars, NEW c \in Decodes PROVE Same(c)
    BY <1>3 DEF CapKills, vars, workerVars, Past
  <1> HIDE DEF Same
  <1>. QED
    BY <1>0, <1>1, <1>2, <1>3 DEF Next, Rest, ProcessLayer

(* A call whose worker is left alone, or is not at its end yet. *)
LEMMA ResultFrame ==
  ASSUME NEW c \in Decodes, ResultOf(c), asked' = asked,
         \/ worker'[c] \notin {"work", "finished"}
         \/ /\ worker'[c] = worker[c]
            /\ posture'[c] = posture[c]
            /\ result'[c] = result[c]
  PROVE  ResultOf(c)'
  BY DEF ResultOf, Missing, Call!Ok, Call!Refused, Call!Failed

(* The closure returns what strict let it return. *)
LEMMA ResultsStep ==
  ASSUME TypeOK, Threads, Results, [Next]_vars
  PROVE  Results'
  <1> DEFINE Same(c) == \/ worker'[c] \notin {"work", "finished"}
                        \/ /\ worker'[c] = worker[c]
                           /\ posture'[c] = posture[c]
                           /\ result'[c] = result[c]
  <1>0. ASSUME NEW c \in Decodes, Same(c) PROVE ResultOf(c)'
    BY <1>0, ResultFrame, Stable DEF Results
  <1>1. ASSUME NEW d \in Decodes, Load(d) \/ CallerStep(d), NEW c \in Decodes
        PROVE  Same(c)
    BY <1>1 DEF Load, CallerStep, ResolveFormat, ResolveFails, Spawn, SpawnFails,
                Join, JoinPanicked, CallerGoes, Returns, workerVars, TypeOK
  <1>2. ASSUME NEW d \in Decodes, WorkerStep(d), NEW c \in Decodes
        PROVE  ResultOf(c)'
    <2> USE DEF WorkerGoes, Finishes, workerVars, Then, TypeOK
    <2>1. CASE \/ c # d \/ SetAs(d) \/ SetCpu(d) \/ SkipRlimit(d)
               \/ ApplyLandlock(d) \/ SkipLandlock(d)
               \/ ApplySeccomp(d) \/ SkipSeccomp(d) \/ Panic(d)
      <3>1. Same(c)
        BY <1>2, <2>1 DEF WorkerStep, SetAs, SetCpu, SkipRlimit, ApplyLandlock,
                          SkipLandlock, ApplySeccomp, SkipSeccomp, CheckPasses,
                          CheckRefuses, Decode, Panic, Confine, Refuse
      <3>. QED
        BY <1>0, <3>1
    <2>2. CASE c = d /\ CheckPasses(d)
      <3>1. asked' = asked /\ posture' = posture /\ worker'[d] = "work"
            /\ (asked[d].strict => Missing(d) = {})
        BY <2>2, Stable DEF CheckPasses
      <3>. QED
        BY <2>2, <3>1 DEF ResultOf, Missing
    <2>3. CASE c = d /\ CheckRefuses(d)
      <3>1. /\ asked' = asked /\ posture' = posture /\ worker'[d] = "finished"
            /\ asked[d].strict /\ FirstOf(Missing(d)) \in Missing(d)
            /\ result'[d] = Call!Refused(FirstOf(Missing(d)))
        BY <2>3, Stable DEF CheckRefuses, FirstOf, Missing, Layers
      <3>2. Missing(d)' = Missing(d)
        BY <3>1 DEF Missing
      <3>. QED
        BY <2>3, <3>1, <3>2 DEF ResultOf
    <2>4. CASE c = d /\ Decode(d)
      <3>1. /\ asked' = asked /\ posture' = posture /\ worker'[d] = "finished"
            /\ worker[d] = "work"
            /\ \/ result'[d] = Call!Ok(posture[d])
               \/ result'[d] = Call!Failed("Decode")
        BY <2>4, Stable DEF Decode
      <3>2. Missing(d)' = Missing(d)
        BY <3>1 DEF Missing
      <3>3. asked[d].strict => Missing(d) = {}
        BY <3>1 DEF Results, ResultOf
      <3>. QED
        BY <2>4, <3>1, <3>2, <3>3 DEF ResultOf, Call!Ok, Call!Failed
    <2>. QED
      BY <1>2, <2>1, <2>2, <2>3, <2>4 DEF WorkerStep
  <1>3. ASSUME CapKills \/ UNCHANGED vars, NEW c \in Decodes PROVE Same(c)
    BY <1>3 DEF CapKills, vars, workerVars
  <1> HIDE DEF Same
  <1>. QED
    BY <1>0, <1>1, <1>2, <1>3 DEF Next, Rest, Results

(* The answer of a call comes from its worker, or from the steps before it. *)
LEMMA AnswersComeStep ==
  ASSUME TypeOK, Threads, AnswersCome, [Next]_vars
  PROVE  AnswersCome'
  <1> USE DEF TypeOK, Threads, AnswersCome, AnswerOf, CallerGoes, WorkerGoes,
              Returns, Finishes, workerVars, Call!Failed
  <1>1. ASSUME NEW d \in Decodes, Load(d) \/ CallerStep(d) PROVE AnswersCome'
    <2>1. CASE Load(d) \/ ResolveFormat(d) \/ Spawn(d)
      BY <2>1 DEF Load, ResolveFormat, Spawn
    <2>2. CASE ResolveFails(d) \/ SpawnFails(d)
      BY <2>2 DEF ResolveFails, SpawnFails
    <2>3. CASE Join(d) \/ JoinPanicked(d)
      BY <2>3 DEF Join, JoinPanicked
    <2>. QED
      BY <1>1, <2>1, <2>2, <2>3 DEF CallerStep
  <1>2. ASSUME NEW d \in Decodes, WorkerStep(d) PROVE AnswersCome'
    <2>1. caller[d] = "join" /\ worker[d] \notin {"none", "finished", "panicked"}
      BY <1>2 DEF WorkerStep, SetAs, SetCpu, SkipRlimit, ApplyLandlock, SkipLandlock,
                  ApplySeccomp, SkipSeccomp, CheckPasses, CheckRefuses, Decode,
                  Panic, CallerPCs
    <2>2. /\ caller' = caller /\ answer' = answer
          /\ \A c \in Decodes : c # d =>
               worker'[c] = worker[c] /\ result'[c] = result[c]
          /\ worker'[d] = "panicked" => ~PanicAborts
      BY <1>2, <2>1
      DEF WorkerStep, SetAs, SetCpu, SkipRlimit, ApplyLandlock, SkipLandlock,
          ApplySeccomp, SkipSeccomp, CheckPasses, CheckRefuses, Decode, Panic, Then
    <2>. QED
      BY <2>1, <2>2
  <1>3. CASE CapKills \/ UNCHANGED vars
    BY <1>3 DEF CapKills, vars
  <1>. QED
    BY <1>1, <1>2, <1>3 DEF Next, Rest
-----------------------------------------------------------------------------
(* The invariant as a whole. *)

LEMMA InitIInv == Init => IInv
  <1> SUFFICES ASSUME Init PROVE IInv
    OBVIOUS
  <1>1. TypeOK
    BY WorkerAssumption DEF Init, TypeOK, CallerPCs, WorkerPCs, NoPosture, Call!Postures
  <1>2. CapsHaveOwners
    BY DEF Init, CapsHaveOwners
  <1>. QED
    BY <1>1, <1>2
    DEF Init, IInv, Threads, ThreadLayers, ThreadLayer, ProcessLayer, ProcessLayerOf,
        Results, ResultOf, AnswersCome, AnswerOf, NoPosture, Past

LEMMA StepIInv == IInv /\ [Next]_vars => IInv'
  BY TypeStep, ThreadsStep, CapsHaveOwnersStep, ThreadLayersStep, ProcessLayerStep,
     ResultsStep, AnswersComeStep
  DEF IInv

(* The inductive invariant of the calls and their workers. *)
THEOREM Inductive == Spec => []IInv
  BY InitIInv, StepIInv, PTL DEF Spec, SafeSpec
-----------------------------------------------------------------------------
(* The safety properties. *)

(* What a call that returned an image, or a refusal, says of its worker. *)
LEMMA AnswerCause ==
  ASSUME IInv, NEW d \in Decodes
  PROVE  /\ answer[d].kind = "Ok" =>
              /\ worker[d] = "finished" /\ answer[d] = Call!Ok(posture[d])
              /\ asked[d].strict => Missing(d) = {}
         /\ answer[d].kind = "SandboxUnavailable" =>
              /\ worker[d] = "finished" /\ asked[d].strict
              /\ \E l \in Missing(d) : answer[d] = Call!Refused(l)
  <1>1. \/ answer[d].kind \notin {"Ok", "SandboxUnavailable"}
        \/ worker[d] = "finished" /\ answer[d] = result[d]
    BY DEF IInv, AnswersCome, AnswerOf, Call!Failed, Call!NoAnswer
  <1>2. ASSUME worker[d] = "finished", answer[d] = result[d]
        PROVE  \/ /\ answer[d] = Call!Ok(posture[d])
                  /\ asked[d].strict => Missing(d) = {}
               \/ /\ asked[d].strict
                  /\ \E l \in Missing(d) : answer[d] = Call!Refused(l)
               \/ answer[d] = Call!Failed("Decode")
    BY <1>2 DEF IInv, Results, ResultOf
  <1>3. /\ Call!Ok(posture[d]).kind = "Ok"
        /\ Call!Failed("Decode").kind = "Decode"
        /\ \A l \in Missing(d) : Call!Refused(l).kind = "SandboxUnavailable"
    BY DEF Call!Ok, Call!Failed, Call!Refused
  <1>. QED
    BY <1>1, <1>2, <1>3

(* A selected layer that is in force after apply_layers is enforced. *)
LEMMA InForceIsInEffect ==
  ASSUME IInv, NEW d \in Decodes, NEW l \in Layers, posture[d][l] \in Call!InForce
  PROVE  InEffect(d, l)
  <1>1. posture[d] \in Call!Postures
    BY DEF IInv, TypeOK
  <1>2. CASE l = "rlimit"
    BY <1>1, <1>2, PostureFields
    DEF IInv, ProcessLayer, ProcessLayerOf, InEffect, Call!InForce
  <1>3. CASE l \in {"landlock", "seccomp"}
    BY <1>1, <1>3, PostureFields
    DEF IInv, ThreadLayers, ThreadLayer, InEffect, Call!InForce
  <1>. QED
    BY <1>2, <1>3 DEF Layers

(* Every layer a strict call selected is enforced while its decoder runs,
   whatever setrlimit calls the other workers make. *)
THEOREM StrictCorrect == Spec => []StrictIsEnforced
  <1>1. IInv => StrictIsEnforced
    <2> SUFFICES ASSUME IInv, NEW d \in Decodes, worker[d] = "work", asked[d].strict,
                        NEW l \in Layers, asked[d][l]
                 PROVE  InEffect(d, l)
      BY DEF StrictIsEnforced
    <2>1. Missing(d) = {}
      BY DEF IInv, Results, ResultOf
    <2>2. posture[d][l] \in Call!InForce
      BY <2>1 DEF Missing
    <2>. QED
      BY <2>2, InForceIsInEffect
  <1>. QED
    BY <1>1, Inductive, PTL

(* An image's posture says what its worker ran under. *)
THEOREM PostureCorrect == Spec => []PostureIsHonest
  <1>1. IInv => PostureIsHonest
    <2> SUFFICES ASSUME IInv, NEW d \in Decodes, answer[d].kind = "Ok"
                 PROVE  /\ \A l \in {"landlock", "seccomp"} :
                             (answer[d].posture[l] = "Enforced")
                               <=> (l \in confined[d])
                        /\ answer[d].posture.rlimit = "Applied" => Capped(d)
      BY DEF PostureIsHonest
    <2>0. answer[d] = Call!Ok(posture[d])
      BY AnswerCause
    <2>1. answer[d].posture = posture[d]
      BY <2>0 DEF Call!Ok
    <2>2. \A l \in {"landlock", "seccomp"} : ThreadLayer(d, l)
      BY DEF IInv, ThreadLayers
    <2>3. \A l \in {"landlock", "seccomp"} :
            (posture[d][l] = "Enforced") <=> (l \in confined[d])
      BY <2>2 DEF ThreadLayer
    <2>4. posture[d].rlimit = "Applied" => Capped(d)
      BY DEF IInv, ProcessLayer, ProcessLayerOf
    <2>. QED
      BY <2>1, <2>3, <2>4
  <1>. QED
    BY <1>1, Inductive, PTL

(* SandboxUnavailable always has a cause outside the worker that reports it. *)
THEOREM RefusalCorrect == Spec => []RefusalHasCause
  <1>1. IInv => RefusalHasCause
    <2> SUFFICES ASSUME IInv, NEW d \in Decodes,
                        answer[d].kind = "SandboxUnavailable"
                 PROVE  \/ answer[d].layer \notin Built
                        \/ answer[d].layer \in Refusing
                        \/ answer[d].layer = "rlimit" /\ LowerCapElsewhere(d)
      BY DEF RefusalHasCause
    <2>1. PICK l \in Missing(d) : answer[d] = Call!Refused(l)
      BY AnswerCause
    <2>2. /\ answer[d].layer = l /\ l \in Layers /\ asked[d][l]
          /\ posture[d][l] \notin Call!InForce /\ worker[d] = "finished"
      BY <2>1, AnswerCause DEF Missing, Call!Refused
    <2>3. posture[d] \in Call!Postures
      BY DEF IInv, TypeOK
    <2>4. CASE l = "rlimit"
      BY <2>2, <2>3, <2>4, PostureFields
      DEF IInv, ProcessLayer, ProcessLayerOf, Past, Attempts, Call!InForce
    <2>5. CASE l \in {"landlock", "seccomp"}
      <3>1. posture[d][l] \in {"Enforced", "Unsupported", "Disabled"}
        BY <2>3, <2>5, PostureFields
      <3>2. ThreadLayer(d, l) /\ Past(d, l)
        BY <2>2, <2>5 DEF IInv, ThreadLayers, Past
      <3>. QED
        BY <2>2, <3>1, <3>2 DEF ThreadLayer, Attempts, Call!InForce
    <2>. QED
      BY <2>2, <2>4, <2>5 DEF Layers
  <1>. QED
    BY <1>1, Inductive, PTL

(* The caps are the host's or those of a started call that selected rlimit. *)
THEOREM CapsCorrect == Spec => []CapsHaveOwners
  <1>1. IInv => CapsHaveOwners
    BY DEF IInv
  <1>. QED
    BY <1>1, Inductive, PTL

(* No worker outlives its call, and the call returns what its worker returned. *)
THEOREM JoinCorrect == Spec => []WorkerIsJoined
  <1>1. IInv => WorkerIsJoined
    BY DEF IInv, WorkerIsJoined, Threads, AnswersCome, AnswerOf
  <1>. QED
    BY <1>1, Inductive, PTL
-----------------------------------------------------------------------------
(* The calls implement DecodeCall. *)

(* A worker that got through apply_layers leaves a posture that fits. *)
LEMMA PostureFits ==
  ASSUME IInv, NEW d \in Decodes, worker[d] = "finished",
         asked[d].strict => Missing(d) = {}
  PROVE  Call!Fits(posture[d], asked[d])
  <1>1. ASSUME NEW l \in Layers
        PROVE  /\ (posture[d][l] = "Disabled") <=> ~(asked[d][l] /\ l \in Built)
               /\ (asked[d].strict /\ asked[d][l]) => posture[d][l] \in Call!InForce
    <2>1. CASE l = "rlimit"
      BY <2>1 DEF IInv, ProcessLayer, ProcessLayerOf, Past, Attempts, Missing, Layers
    <2>2. CASE l \in {"landlock", "seccomp"}
      BY <2>2 DEF IInv, ThreadLayers, ThreadLayer, Past, Attempts, Missing, Layers
    <2>. QED
      BY <2>1, <2>2 DEF Layers
  <1>. QED
    BY <1>1 DEF Call!Fits, Call!Layers, Layers

(* The answer of a worker that finished is one DecodeCall promises. *)
LEMMA ResultIsPromised ==
  ASSUME IInv, NEW d \in Decodes, worker[d] = "finished"
  PROVE  result[d] \in Call!Promised(asked[d])
  <1>1. CASE result[d] = Call!Ok(posture[d]) /\ (asked[d].strict => Missing(d) = {})
    <2>1. posture[d] \in Call!Postures
      BY DEF IInv, TypeOK
    <2>. QED
      BY <1>1, <2>1, PostureFits DEF Call!Promised
  <1>2. CASE asked[d].strict /\ \E l \in Missing(d) : result[d] = Call!Refused(l)
    BY <1>2 DEF Call!Promised, Missing, Layers, Call!Layers
  <1>3. CASE result[d] = Call!Failed("Decode")
    BY <1>3 DEF Call!Promised, Call!Failures
  <1>. QED
    BY <1>1, <1>2, <1>3 DEF IInv, Results, ResultOf

(* Every step of the calls and their workers is a step of DecodeCall, or none
   at all. *)
LEMMA StepImplements ==
  ASSUME IInv, [Next]_vars
  PROVE  [Call!Next]_(Call!callVars)
  <1> USE DEF CallerGoes, WorkerGoes, Returns, Finishes, requested
  <1>0. /\ caller \in [Decodes -> CallerPCs] /\ asked' = asked
        /\ \A d \in Decodes : caller[d] = "join" => worker[d] # "none"
    BY Stable DEF IInv, TypeOK, Threads
  <1> DEFINE s == [c \in Decodes |-> Status(caller[c])]
  <1>1. ASSUME NEW d \in Decodes, Load(d) PROVE Call!Begin(d)
    <2>1. /\ process = "running" /\ caller[d] = "idle" /\ answer' = answer
          /\ caller' = [caller EXCEPT ![d] = "read"] /\ process' = process
      BY <1>1 DEF Load
    <2>2. s' = [s EXCEPT ![d] = "active"] /\ s[d] = "idle"
      BY <1>0, <2>1 DEF Status
    <2>. QED
      BY <1>0, <2>1, <2>2 DEF Call!Begin
  <1>2. ASSUME NEW d \in Decodes, NEW from \in {"read", "spawn", "join"}, NEW a,
               Returns(d, from, a), a \in Call!Promised(asked[d]), process' = process
        PROVE  Call!Return(d)
    <2>1. s' = [s EXCEPT ![d] = "returned"] /\ s[d] = "active"
      BY <1>0, <1>2 DEF Status
    <2>. QED
      BY <1>0, <1>2, <2>1 DEF Call!Return
  <1>3. ASSUME caller' = caller, answer' = answer, process' = process
        PROVE  UNCHANGED Call!callVars
    BY <1>0, <1>3 DEF Call!callVars
  <1>4. ASSUME NEW d \in Decodes, CallerStep(d) PROVE [Call!Next]_(Call!callVars)
    <2>1. CASE ResolveFormat(d) \/ Spawn(d)
      <3>1. s' = s
        BY <1>0, <2>1 DEF ResolveFormat, Spawn, Status
      <3>. QED
        BY <1>0, <2>1, <3>1 DEF ResolveFormat, Spawn, Call!callVars
    <2>2. CASE ResolveFails(d) \/ SpawnFails(d)
      <3>1. PICK k \in {"Io", "UnsupportedFormat"}, from \in {"read", "spawn"} :
                   Returns(d, from, Call!Failed(k)) /\ process' = process
        BY <2>2 DEF ResolveFails, SpawnFails
      <3>2. Call!Failed(k) \in Call!Promised(asked[d])
        BY DEF Call!Promised, Call!Failures
      <3>. QED
        BY <1>2, <3>1, <3>2 DEF Call!Next
    <2>3. CASE Join(d)
      <3>1. result[d] \in Call!Promised(asked[d])
        BY <2>3, ResultIsPromised DEF Join
      <3>. QED
        BY <1>2, <2>3, <3>1 DEF Join, Call!Next
    <2>4. CASE JoinPanicked(d)
      <3>1. ~PanicAborts
        BY <2>4 DEF JoinPanicked, IInv, AnswersCome, AnswerOf
      <3>2. Call!Failed("Internal") \in Call!Promised(asked[d])
        BY <3>1 DEF Call!Promised, Call!Failures
      <3>. QED
        BY <1>2, <2>4, <3>2 DEF JoinPanicked, Call!Next
    <2>. QED
      BY <1>4, <2>1, <2>2, <2>3, <2>4 DEF CallerStep
  <1>5. ASSUME NEW d \in Decodes, WorkerStep(d) PROVE [Call!Next]_(Call!callVars)
    <2>1. CASE Panic(d) /\ PanicAborts
      <3>1. caller[d] = "join"
        BY <2>1 DEF Panic, IInv, Threads, TypeOK, CallerPCs
      <3>2. s[d] = "active" /\ s' = s
        BY <2>1, <3>1 DEF Panic, Status
      <3>. QED
        BY <1>0, <2>1, <3>2 DEF Panic, Call!Next, Call!Abort
    <2>2. CASE ~(Panic(d) /\ PanicAborts)
      <3>1. caller' = caller /\ answer' = answer /\ process' = process
        BY <1>5, <2>2
        DEF WorkerStep, SetAs, SetCpu, SkipRlimit, ApplyLandlock, SkipLandlock,
            ApplySeccomp, SkipSeccomp, CheckPasses, CheckRefuses, Decode, Panic
      <3>. QED
        BY <1>3, <3>1
    <2>. QED
      BY <2>1, <2>2
  <1>6. CASE CapKills
    BY <1>0, <1>6 DEF CapKills, Call!Next, Call!Killed
  <1>7. CASE UNCHANGED vars
    BY <1>3, <1>7 DEF vars
  <1>. QED
    BY <1>1, <1>4, <1>5, <1>6, <1>7 DEF Next, Rest, Call!Next

(* The calls and their workers implement DecodeCall: an answer that fits the
   selector, at most once per call. *)
THEOREM Implements == Spec => SafeCallSpec
  <1>1. Init => Call!Init
    BY DEF Init, Call!Init, Status
  <1>. QED
    BY <1>1, Inductive, StepImplements, PTL
    DEF Spec, SafeSpec, SafeCallSpec, Call!SafeSpec-----------------------------------------------------------------------------
(* The end of a call.  TLC checks that every call returns; what is proved is what
   that rests on besides fairness. *)

(* A thread of call d has the guard of its next step. *)
CanStep(d) ==
  \/ caller[d] \in {"read", "spawn"}
  \/ caller[d] = "join" /\ worker[d] \in {"finished", "panicked"}
  \/ worker[d] \in {"rlimit_as", "rlimit_cpu", "landlock", "seccomp", "check", "work"}

(* How many steps a call has before it, at most. *)
CallerLeft(pc) ==
  CASE pc = "idle" -> 4 [] pc = "read" -> 3 [] pc = "spawn" -> 2 [] pc = "join" -> 1
    [] OTHER -> 0

WorkerLeft(pc) ==
  CASE pc = "none" -> 7 [] pc = "rlimit_as" -> 6 [] pc = "rlimit_cpu" -> 5
    [] pc = "landlock" -> 4 [] pc = "seccomp" -> 3 [] pc = "check" -> 2 [] pc = "work" -> 1
    [] OTHER -> 0

StepsLeft(d) == CallerLeft(caller[d]) + WorkerLeft(worker[d])

(* A call never waits for another: while the process runs, a call that has begun
   and not returned can take a step of its own or of its worker. *)
THEOREM CallsNeverStall ==
  Spec => [](process = "running" =>
               \A d \in Decodes : caller[d] \in {"idle", "returned"} \/ CanStep(d))
  <1>1. IInv => (process = "running" =>
                   \A d \in Decodes : caller[d] \in {"idle", "returned"} \/ CanStep(d))
    BY DEF IInv, TypeOK, CallerPCs, WorkerPCs, Threads, CanStep
  <1>. QED
    BY <1>1, Inductive, PTL

LEMMA LeftAreNumbers ==
  ASSUME NEW p \in CallerPCs, NEW q \in WorkerPCs
  PROVE  CallerLeft(p) \in Nat /\ WorkerLeft(q) \in Nat
  BY DEF CallerPCs, WorkerPCs, CallerLeft, WorkerLeft

(* A step of the caller. *)
LEMMA CallerMoves ==
  ASSUME TypeOK, Threads, NEW d \in Decodes, Load(d) \/ CallerStep(d)
  PROVE  /\ CallerLeft(caller'[d]) < CallerLeft(caller[d])
         /\ WorkerLeft(worker'[d]) <= WorkerLeft(worker[d])
         /\ \A c \in Decodes : c # d => caller'[c] = caller[c] /\ worker'[c] = worker[c]
  <1>1. PICK from, to \in CallerPCs :
          /\ CallerGoes(d, from, to)
          /\ <<from, to>> \in {<<"idle", "read">>, <<"read", "spawn">>, <<"read", "returned">>,
                               <<"spawn", "join">>, <<"spawn", "returned">>,
                               <<"join", "returned">>}
    BY DEF Load, CallerStep, ResolveFormat, ResolveFails, Spawn, SpawnFails, Join, JoinPanicked,
           Returns, CallerPCs
  <1>2. \/ worker' = worker
        \/ worker[d] = "none" /\ worker' = [worker EXCEPT ![d] = "rlimit_as"]
    BY DEF Load, CallerStep, ResolveFormat, ResolveFails, Spawn, SpawnFails, Join, JoinPanicked,
           CallerGoes, Threads
  <1>3. CallerLeft(to) < CallerLeft(from)
    BY <1>1 DEF CallerLeft
  <1>4. /\ caller[d] = from /\ caller'[d] = to
        /\ \A c \in Decodes : c # d => caller'[c] = caller[c]
    BY <1>1 DEF CallerGoes, TypeOK
  <1>5. /\ WorkerLeft(worker'[d]) <= WorkerLeft(worker[d])
        /\ \A c \in Decodes : c # d => worker'[c] = worker[c]
    <2>1. CASE worker' = worker
      <3>1. WorkerLeft(worker[d]) \in Nat
        BY LeftAreNumbers DEF TypeOK, CallerPCs
      <3>. QED
        BY <2>1, <3>1
    <2>2. CASE worker[d] = "none" /\ worker' = [worker EXCEPT ![d] = "rlimit_as"]
      <3>1. worker'[d] = "rlimit_as" /\ \A c \in Decodes : c # d => worker'[c] = worker[c]
        BY <2>2 DEF TypeOK
      <3>2. WorkerLeft("rlimit_as") <= WorkerLeft("none")
        BY DEF WorkerLeft
      <3>. QED
        BY <2>2, <3>1, <3>2
    <2>. QED
      BY <1>2, <2>1, <2>2
  <1>. QED
    BY <1>3, <1>4, <1>5

(* A step of the worker, which may end the process. *)
LEMMA WorkerMoves ==
  ASSUME TypeOK, NEW d \in Decodes, WorkerStep(d)
  PROVE  /\ caller' = caller
         /\ \/ WorkerLeft(worker'[d]) < WorkerLeft(worker[d])
            \/ worker' = worker /\ process' # "running"
         /\ \A c \in Decodes : c # d => worker'[c] = worker[c]
  <1>1. caller' = caller
    BY DEF WorkerStep, SetAs, SetCpu, SkipRlimit, ApplyLandlock, SkipLandlock, ApplySeccomp,
           SkipSeccomp, CheckPasses, CheckRefuses, Decode, Panic
  <1>2. CASE worker' = worker /\ process' = "aborted"
    BY <1>1, <1>2
  <1>3. ASSUME NEW from, NEW to, WorkerGoes(d, from, to), WorkerLeft(to) < WorkerLeft(from)
        PROVE  /\ WorkerLeft(worker'[d]) < WorkerLeft(worker[d])
               /\ \A c \in Decodes : c # d => worker'[c] = worker[c]
    BY <1>3 DEF WorkerGoes, TypeOK
  <1>4. ASSUME ~(worker' = worker /\ process' = "aborted")
        PROVE  \E from, to : WorkerGoes(d, from, to) /\ WorkerLeft(to) < WorkerLeft(from)
    <2>1. CASE SetAs(d) \/ SetCpu(d) \/ SkipRlimit(d)
      <3>1. \/ WorkerGoes(d, "rlimit_as", "rlimit_cpu") \/ WorkerGoes(d, "rlimit_cpu", "landlock")
            \/ WorkerGoes(d, "rlimit_as", "landlock")
        BY <2>1 DEF SetAs, SetCpu, SkipRlimit, Then
      <3>2. /\ WorkerLeft("rlimit_cpu") < WorkerLeft("rlimit_as")
            /\ WorkerLeft("landlock") < WorkerLeft("rlimit_cpu")
            /\ WorkerLeft("landlock") < WorkerLeft("rlimit_as")
        BY DEF WorkerLeft
      <3>. QED
        BY <3>1, <3>2
    <2>2. CASE ApplyLandlock(d) \/ SkipLandlock(d) \/ ApplySeccomp(d) \/ SkipSeccomp(d)
      <3>1. WorkerGoes(d, "landlock", "seccomp") \/ WorkerGoes(d, "seccomp", "check")
        BY <2>2 DEF ApplyLandlock, SkipLandlock, ApplySeccomp, SkipSeccomp, Then
      <3>2. /\ WorkerLeft("seccomp") < WorkerLeft("landlock")
            /\ WorkerLeft("check") < WorkerLeft("seccomp")
        BY DEF WorkerLeft
      <3>. QED
        BY <3>1, <3>2
    <2>3. CASE CheckPasses(d) \/ CheckRefuses(d) \/ Decode(d) \/ Panic(d)
      <3>1. \/ WorkerGoes(d, "check", "work") \/ WorkerGoes(d, "check", "finished")
            \/ WorkerGoes(d, "work", "finished") \/ WorkerGoes(d, "work", "panicked")
        BY <1>4, <2>3 DEF CheckPasses, CheckRefuses, Decode, Panic, Finishes
      <3>2. /\ WorkerLeft("work") < WorkerLeft("check")
            /\ WorkerLeft("finished") < WorkerLeft("check")
            /\ WorkerLeft("finished") < WorkerLeft("work")
            /\ WorkerLeft("panicked") < WorkerLeft("work")
        BY DEF WorkerLeft
      <3>. QED
        BY <3>1, <3>2
    <2>. QED
      BY <2>1, <2>2, <2>3 DEF WorkerStep
  <1>. QED
    BY <1>1, <1>2, <1>3, <1>4

(* Nothing is done twice: every step of a call and of its worker, refusals and
   failures included, brings the call nearer to its end, and no step of another
   call or of the process brings it back. *)
THEOREM CallsGoForward ==
  Spec => [][\A d \in Decodes :
               /\ Load(d) \/ CallerStep(d) \/ WorkerStep(d)
                    => StepsLeft(d)' < StepsLeft(d) \/ process' # "running"
               /\ StepsLeft(d)' <= StepsLeft(d)]_vars
  <1>1. IInv /\ IInv' /\ [Next]_vars =>
          \A d \in Decodes :
             /\ Load(d) \/ CallerStep(d) \/ WorkerStep(d)
                  => StepsLeft(d)' < StepsLeft(d) \/ process' # "running"
             /\ StepsLeft(d)' <= StepsLeft(d)
    <2> SUFFICES ASSUME IInv, IInv', [Next]_vars, NEW d \in Decodes
                 PROVE  /\ Load(d) \/ CallerStep(d) \/ WorkerStep(d)
                             => StepsLeft(d)' < StepsLeft(d) \/ process' # "running"
                        /\ StepsLeft(d)' <= StepsLeft(d)
      OBVIOUS
    <2> DEFINE C == CallerLeft(caller[d])
               D == CallerLeft(caller'[d])
               W == WorkerLeft(worker[d])
               V == WorkerLeft(worker'[d])
    <2>1. TypeOK /\ Threads
      BY DEF IInv
    <2>2. C \in Nat /\ D \in Nat /\ W \in Nat /\ V \in Nat
      <3>1. /\ caller[d] \in CallerPCs /\ worker[d] \in WorkerPCs
            /\ caller'[d] \in CallerPCs /\ worker'[d] \in WorkerPCs
        BY DEF IInv, TypeOK
      <3>. QED
        BY <3>1, LeftAreNumbers
    <2>3. StepsLeft(d) = C + W /\ StepsLeft(d)' = D + V
      BY DEF StepsLeft
    <2>4. CASE Load(d) \/ CallerStep(d)
      <3>1. D < C /\ V <= W
        BY <2>1, <2>4, CallerMoves
      <3> HIDE DEF C, D, V, W
      <3>. QED
        BY <2>2, <2>3, <3>1
    <2>5. CASE WorkerStep(d)
      <3>1. D = C /\ (V < W \/ (V = W /\ process' # "running"))
        BY <2>1, <2>5, WorkerMoves
      <3> HIDE DEF C, D, V, W
      <3>. QED
        BY <2>2, <2>3, <3>1
    <2>6. CASE ~Load(d) /\ ~CallerStep(d) /\ ~WorkerStep(d)
      <3>1. caller'[d] = caller[d] /\ worker'[d] = worker[d]
        <4>1. ASSUME NEW e \in Decodes, Load(e) \/ CallerStep(e)
              PROVE  caller'[d] = caller[d] /\ worker'[d] = worker[d]
          BY <2>1, <2>6, <4>1, CallerMoves
        <4>2. ASSUME NEW e \in Decodes, WorkerStep(e)
              PROVE  caller'[d] = caller[d] /\ worker'[d] = worker[d]
          BY <2>1, <2>6, <4>2, WorkerMoves
        <4>3. CASE CapKills \/ Rest \/ UNCHANGED vars
          BY <4>3 DEF CapKills, Rest, vars
        <4>. QED
          BY <4>1, <4>2, <4>3 DEF Next
      <3>2. D = C /\ V = W
        BY <3>1
      <3> HIDE DEF C, D, V, W
      <3>. QED
        BY <2>2, <2>3, <2>6, <3>2
    <2>. QED
      BY <2>4, <2>5, <2>6
  <1>2. Spec => [][Next]_vars
    BY DEF Spec, SafeSpec
  <1>. QED
    BY <1>1, <1>2, Inductive, PTL
=============================================================================
