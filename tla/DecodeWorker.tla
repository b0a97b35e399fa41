---------------------------- MODULE DecodeWorker ----------------------------
(***************************************************************************)
(* Loader::load and sandbox::run_in_worker: concurrent calls, each with a  *)
(* caller thread and a glycin-ng-worker thread, over one process whose     *)
(* RLIMIT_AS and RLIMIT_CPU they share.  Landlock and seccomp confine the  *)
(* thread that asks for them; setrlimit changes the whole process, and an  *)
(* unprivileged process cannot raise a hard limit again.                   *)
(*                                                                         *)
(* A call is one element of Decodes and is made at most once; a thread     *)
(* that decodes one image after another is several elements of Decodes.    *)
(***************************************************************************)
EXTENDS Naturals

CONSTANTS
  Decodes,      (* calls of Loader::load                                    *)
  Selectors,    (* the SandboxSelector values callers pass                  *)
  MemLimits,    (* values of Limits::decode_memory_mib                      *)
  CpuLimits,    (* values of Limits::decode_cpu_seconds                     *)
  MiB,          (* bytes in a MiB                                           *)
  Infinity,     (* u64::MAX, which is also RLIM_INFINITY                    *)
  HostAs,       (* hard RLIMIT_AS of the process before any call            *)
  HostCpu,      (* hard RLIMIT_CPU of the process before any call           *)
  Built,        (* sandbox layers the build contains: Cargo features, Linux *)
  Refusing,     (* layers whose system calls this kernel may refuse         *)
  Privileged,   (* the process has CAP_SYS_RESOURCE                         *)
  PanicAborts   (* TRUE for [profile.release], whose panic strategy aborts  *)

Layers == {"landlock", "seccomp", "rlimit"}

ASSUME WorkerAssumption ==
  /\ Selectors \subseteq [landlock : BOOLEAN, seccomp : BOOLEAN,
                          rlimit : BOOLEAN, strict : BOOLEAN]
  /\ MemLimits \subseteq Nat
  /\ Infinity \in Nat
  /\ CpuLimits \subseteq 0..Infinity
  /\ MiB \in Nat
  /\ HostAs \in 0..Infinity
  /\ HostCpu \in 0..Infinity
  /\ Built \subseteq Layers
  /\ Refusing \subseteq {"landlock", "seccomp"}
  /\ Privileged \in BOOLEAN
  /\ PanicAborts \in BOOLEAN

VARIABLES
  asked,     (* the selector of each call, fixed by the Loader's builder    *)
  limits,    (* decode_memory_mib and decode_cpu_seconds of each call       *)
  caller,    (* where each calling thread is in Loader::load                *)
  worker,    (* where each worker thread is in the closure it was given     *)
  asSet,     (* the worker's as_rc: its first setrlimit succeeded           *)
  posture,   (* the SandboxPosture the worker is filling in                 *)
  confined,  (* what the kernel really enforces on the worker thread        *)
  result,    (* what the worker's closure returned                          *)
  answer,    (* what Loader::load returned                                  *)
  asMax,     (* the process's hard RLIMIT_AS                                *)
  cpuMax,    (* the process's hard RLIMIT_CPU                               *)
  process    (* running, aborted by a panic, or killed by the kernel        *)

requested  == <<asked, limits>>
workerVars == <<asSet, posture, confined>>
capVars    == <<asMax, cpuMax>>

vars == <<asked, limits, caller, worker, asSet, posture, confined, result,
          answer, asMax, cpuMax, process>>

(* Postures, answers and the promise of a call; its state is mapped from here. *)
Status(pc) == CASE pc = "idle" -> "idle" [] pc = "returned" -> "returned"
                [] OTHER -> "active"

Call == INSTANCE DecodeCall WITH status <- [d \in Decodes |-> Status(caller[d])]

(* SandboxPosture::none *)
NoPosture ==
  [landlock |-> "Disabled", seccomp |-> "Disabled", rlimit |-> "Disabled"]

CallerPCs == {"idle", "read", "spawn", "join", "returned"}

WorkerPCs == {"none", "rlimit_as", "rlimit_cpu", "landlock", "seccomp",
              "check", "work", "finished", "panicked"}

(* Mutant of Then: the system-call filter is installed before landlock. *)
ThenFilterFirst(l) ==
  CASE l = "rlimit" -> "seccomp" [] l = "seccomp" -> "landlock" [] OTHER -> "check"

(* The order of apply_layers: where the worker goes after layer l. *)
Then(l) ==
  CASE l = "rlimit" -> "landlock" [] l = "landlock" -> "seccomp" [] OTHER -> "check"
-----------------------------------------------------------------------------
Init ==
  /\ asked \in [Decodes -> Selectors]
  /\ limits \in [Decodes -> [mem : MemLimits, cpu : CpuLimits]]
  /\ caller = [d \in Decodes |-> "idle"]
  /\ worker = [d \in Decodes |-> "none"]
  /\ asSet = [d \in Decodes |-> FALSE]
  /\ posture = [d \in Decodes |-> NoPosture]
  /\ confined = [d \in Decodes |-> {}]
  /\ result = [d \in Decodes |-> Call!NoAnswer]
  /\ answer = [d \in Decodes |-> Call!NoAnswer]
  /\ asMax = HostAs
  /\ cpuMax = HostCpu
  /\ process = "running"

CallerGoes(d, from, to) ==
  /\ process = "running"
  /\ caller[d] = from
  /\ caller' = [caller EXCEPT ![d] = to]

WorkerGoes(d, from, to) ==
  /\ process = "running"
  /\ worker[d] = from
  /\ worker' = [worker EXCEPT ![d] = to]

(* Loader::load returns a to its caller. *)
Returns(d, from, a) ==
  /\ CallerGoes(d, from, "returned")
  /\ answer' = [answer EXCEPT ![d] = a]

(* The worker's closure ends with r. *)
Finishes(d, from, r) ==
  /\ WorkerGoes(d, from, "finished")
  /\ result' = [result EXCEPT ![d] = r]
-----------------------------------------------------------------------------
(* The calling thread. *)

Load(d) ==
  /\ CallerGoes(d, "idle", "read")
  /\ UNCHANGED <<requested, worker, workerVars, result, answer, capVars, process>>

(* Source::read_all gives every byte, and the hint, the signature or the
   extension gives a format. *)
ResolveFormat(d) ==
  /\ CallerGoes(d, "read", "spawn")
  /\ UNCHANGED <<requested, worker, workerVars, result, answer, capVars, process>>

(* Source::read_all fails, or nothing names a format: no worker is spawned. *)
ResolveFails(d) ==
  /\ \E k \in {"Io", "UnsupportedFormat"} : Returns(d, "read", Call!Failed(k))
  /\ UNCHANGED <<requested, worker, workerVars, result, capVars, process>>

Spawn(d) ==
  /\ CallerGoes(d, "spawn", "join")
  /\ worker' = [worker EXCEPT ![d] = "rlimit_as"]
  /\ UNCHANGED <<requested, workerVars, result, answer, capVars, process>>

SpawnFails(d) ==
  /\ Returns(d, "spawn", Call!Failed("Io"))
  /\ UNCHANGED <<requested, worker, workerVars, result, capVars, process>>

(* Mutant of Join: the caller does not wait for the thread. *)
JoinDetached(d) ==
  /\ worker[d] # "none"
  /\ Returns(d, "join", result[d])
  /\ UNCHANGED <<requested, worker, workerVars, result, capVars, process>>

(* join() yields the closure's result; an image then gets the posture. *)
Join(d) ==
  /\ worker[d] = "finished"
  /\ Returns(d, "join", result[d])
  /\ UNCHANGED <<requested, worker, workerVars, result, capVars, process>>

(* join() yields the panic payload. *)
JoinPanicked(d) ==
  /\ worker[d] = "panicked"
  /\ Returns(d, "join", Call!Failed("Internal"))
  /\ UNCHANGED <<requested, worker, workerVars, result, capVars, process>>
-----------------------------------------------------------------------------
(* The worker thread. *)

(* Mutant of Attempts: a layer is tried whether or not it is selected. *)
AttemptsAll(d, l) == l \in Built

(* A layer is tried when it is selected and its code is in the build; else
   its posture stays Disabled. *)
Attempts(d, l) == asked[d][l] /\ l \in Built

(* The saturating product of rlimit::apply. *)
AsBytes(mib) == IF mib * MiB > Infinity THEN Infinity ELSE mib * MiB

(* setrlimit with soft and hard limit v, over the hard limit max. *)
Permitted(max, v) == Privileged \/ v <= max

SetAs(d) ==
  LET v  == AsBytes(limits[d].mem)
      ok == Permitted(asMax, v)
  IN  /\ Attempts(d, "rlimit")
      /\ WorkerGoes(d, "rlimit_as", "rlimit_cpu")
      /\ asSet' = [asSet EXCEPT ![d] = ok]
      /\ asMax' = IF ok THEN v ELSE asMax
      /\ UNCHANGED <<requested, caller, posture, confined, result, answer,
                     cpuMax, process>>

(* Mutant of SetCpu: only the soft limit is set, the hard one stays. *)
SetCpuSoftOnly(d) ==
  LET ok == Permitted(cpuMax, limits[d].cpu)
      p  == IF asSet[d] /\ ok THEN "Applied" ELSE "PartiallyApplied"
  IN  /\ WorkerGoes(d, "rlimit_cpu", Then("rlimit"))
      /\ posture' = [posture EXCEPT ![d].rlimit = p]
      /\ UNCHANGED <<requested, caller, asSet, confined, result, answer, capVars,
                     process>>

(* Made whether or not the first setrlimit succeeded. *)
SetCpu(d) ==
  LET v  == limits[d].cpu
      ok == Permitted(cpuMax, v)
      p  == IF asSet[d] /\ ok THEN "Applied" ELSE "PartiallyApplied"
  IN  /\ WorkerGoes(d, "rlimit_cpu", Then("rlimit"))
      /\ cpuMax' = IF ok THEN v ELSE cpuMax
      /\ posture' = [posture EXCEPT ![d].rlimit = p]
      /\ UNCHANGED <<requested, caller, asSet, confined, result, answer, asMax,
                     process>>

SkipRlimit(d) ==
  /\ ~Attempts(d, "rlimit")
  /\ WorkerGoes(d, "rlimit_as", Then("rlimit"))
  /\ UNCHANGED <<requested, caller, workerVars, result, answer, capVars, process>>

(* The kernel takes layer l on thread d, and cannot be asked to undo it. *)
Confine(d, l) ==
  /\ posture' = [posture EXCEPT ![d][l] = "Enforced"]
  /\ confined' = [confined EXCEPT ![d] = @ \cup {l}]

(* Mutant of Refuse: the kernel's answer is not looked at. *)
RefuseUnseen(d, l) ==
  /\ posture' = [posture EXCEPT ![d][l] = "Enforced"]
  /\ UNCHANGED confined

Refuse(d, l) ==
  /\ posture' = [posture EXCEPT ![d][l] = "Unsupported"]
  /\ UNCHANGED confined

(* The layers whose system calls the seccomp allowlist lacks: prlimit64 is on
   it, landlock_create_ruleset and landlock_restrict_self are not. *)
OutsideAllowlist == {"landlock"}

(* Thread d is already filtered, and gets EPERM when it asks for layer l. *)
Filtered(d, l) == l \in OutsideAllowlist /\ "seccomp" \in confined[d]

ApplyLandlock(d) ==
  /\ Attempts(d, "landlock")
  /\ WorkerGoes(d, "landlock", Then("landlock"))
  /\ \/ ~Filtered(d, "landlock") /\ Confine(d, "landlock")
     \/ /\ "landlock" \in Refusing \/ Filtered(d, "landlock")
        /\ Refuse(d, "landlock")
  /\ UNCHANGED <<requested, caller, asSet, result, answer, capVars, process>>

SkipLandlock(d) ==
  /\ ~Attempts(d, "landlock")
  /\ WorkerGoes(d, "landlock", Then("landlock"))
  /\ UNCHANGED <<requested, caller, workerVars, result, answer, capVars, process>>

ApplySeccomp(d) ==
  /\ Attempts(d, "seccomp")
  /\ WorkerGoes(d, "seccomp", Then("seccomp"))
  /\ \/ Confine(d, "seccomp")
     \/ "seccomp" \in Refusing /\ Refuse(d, "seccomp")
  /\ UNCHANGED <<requested, caller, asSet, result, answer, capVars, process>>

SkipSeccomp(d) ==
  /\ ~Attempts(d, "seccomp")
  /\ WorkerGoes(d, "seccomp", Then("seccomp"))
  /\ UNCHANGED <<requested, caller, workerVars, result, answer, capVars, process>>

(* Mutant of Missing: a layer the build lacks does not count. *)
MissingUnsupported(d) ==
  {l \in Layers : asked[d][l] /\ posture[d][l] \in {"Unsupported", "PartiallyApplied"}}

(* The selected layers that are not in force. *)
Missing(d) ==
  {l \in Layers : asked[d][l] /\ posture[d][l] \notin Call!InForce}

(* Mutant of FirstOf: seccomp is not told apart from rlimit. *)
FirstOfTwo(missing) == IF "landlock" \in missing THEN "landlock" ELSE "rlimit"

(* check_strict looks at landlock first, then seccomp, then rlimit. *)
FirstOf(missing) ==
  CASE "landlock" \in missing -> "landlock"
    [] "landlock" \notin missing /\ "seccomp" \in missing -> "seccomp"
    [] OTHER -> "rlimit"

(* Mutant of CheckPasses: strict is read from a selector without it. *)
CheckPassesAnyway(d) ==
  /\ WorkerGoes(d, "check", "work")
  /\ UNCHANGED <<requested, caller, workerVars, result, answer, capVars, process>>

CheckPasses(d) ==
  /\ asked[d].strict => Missing(d) = {}
  /\ WorkerGoes(d, "check", "work")
  /\ UNCHANGED <<requested, caller, workerVars, result, answer, capVars, process>>

(* Mutant of CheckRefuses: a refused call applies its layers once more. *)
CheckRefusesRetries(d) ==
  /\ asked[d].strict
  /\ Missing(d) # {}
  /\ WorkerGoes(d, "check", "rlimit_as")
  /\ UNCHANGED <<requested, caller, workerVars, result, answer, capVars, process>>

(* The layers that were applied, process-wide caps included, stay. *)
CheckRefuses(d) ==
  /\ asked[d].strict
  /\ Missing(d) # {}
  /\ Finishes(d, "check", Call!Refused(FirstOf(Missing(d))))
  /\ UNCHANGED <<requested, caller, workerVars, answer, capVars, process>>

(* dispatch: the decoder produces an image or an error. *)
Decode(d) ==
  /\ \/ Finishes(d, "work", Call!Ok(posture[d]))
     \/ Finishes(d, "work", Call!Failed("Decode"))
  /\ UNCHANGED <<requested, caller, workerVars, answer, capVars, process>>

(* A panic in the decoder unwinds to the thread's entry point, or, where the
   build says panic = "abort", ends the process. *)
Panic(d) ==
  /\ IF PanicAborts
     THEN /\ process = "running" /\ worker[d] = "work"
          /\ process' = "aborted"
          /\ UNCHANGED worker
     ELSE WorkerGoes(d, "work", "panicked") /\ UNCHANGED process
  /\ UNCHANGED <<requested, caller, workerVars, result, answer, capVars>>
-----------------------------------------------------------------------------
(* SIGXCPU, SIGKILL or a failed allocation under a finite cap ends the whole
   process, whichever thread meets it. *)
CapKills ==
  /\ process = "running"
  /\ asMax < Infinity \/ cpuMax < Infinity
  /\ process' = "killed"
  /\ UNCHANGED <<requested, caller, worker, workerVars, result, answer, capVars>>

CallerStep(d) ==
  \/ ResolveFormat(d) \/ ResolveFails(d)
  \/ Spawn(d) \/ SpawnFails(d)
  \/ Join(d) \/ JoinPanicked(d)

WorkerStep(d) ==
  \/ SetAs(d) \/ SetCpu(d) \/ SkipRlimit(d)
  \/ ApplyLandlock(d) \/ SkipLandlock(d)
  \/ ApplySeccomp(d) \/ SkipSeccomp(d)
  \/ CheckPasses(d) \/ CheckRefuses(d)
  \/ Decode(d) \/ Panic(d)

(* Nothing is left to do: every call has returned, or the process is gone. *)
Rest ==
  /\ process # "running" \/ \A d \in Decodes : caller[d] = "returned"
  /\ UNCHANGED vars

Next ==
  \/ \E d \in Decodes : Load(d) \/ CallerStep(d) \/ WorkerStep(d)
  \/ CapKills
  \/ Rest

(* The scheduler runs every started thread; nobody has to call Load. *)
Fairness ==
  \A d \in Decodes : WF_vars(CallerStep(d)) /\ WF_vars(WorkerStep(d))

SafeSpec == Init /\ [][Next]_vars

Spec == SafeSpec /\ Fairness
-----------------------------------------------------------------------------
(* Properties. *)

(* Every variable keeps its type. *)
TypeOK ==
  /\ asked \in [Decodes -> Selectors]
  /\ limits \in [Decodes -> [mem : MemLimits, cpu : CpuLimits]]
  /\ caller \in [Decodes -> CallerPCs]
  /\ worker \in [Decodes -> WorkerPCs]
  /\ asSet \in [Decodes -> BOOLEAN]
  /\ posture \in [Decodes -> Call!Postures]
  /\ confined \in [Decodes -> SUBSET {"landlock", "seccomp"}]
  /\ result \in [Decodes -> Call!Answers \cup {Call!NoAnswer}]
  /\ answer \in [Decodes -> Call!Answers \cup {Call!NoAnswer}]
  /\ asMax \in 0..Infinity
  /\ cpuMax \in 0..Infinity
  /\ process \in {"running", "aborted", "killed"}

(* The process is held to what call d asked of setrlimit.  A privileged
   process can raise a cap that another call set. *)
Capped(d) ==
  Privileged \/ (asMax <= AsBytes(limits[d].mem) /\ cpuMax <= limits[d].cpu)

(* What the kernel enforces on the decoder of call d, whatever the posture says. *)
InEffect(d, l) == IF l = "rlimit" THEN Capped(d) ELSE l \in confined[d]

(* check_strict runs after apply_layers and before the closure: while a strict
   call's decoder runs, the kernel enforces every layer the call selected,
   whatever the other workers did to the process's limits in between. *)
StrictIsEnforced ==
  \A d \in Decodes :
    (worker[d] = "work" /\ asked[d].strict)
      => \A l \in Layers : asked[d][l] => InEffect(d, l)

(* Image::sandbox_posture says what the decode ran under: Enforced exactly when
   the kernel took that layer on the worker, and Applied only when both caps
   hold, then and after every later call. *)
PostureIsHonest ==
  \A d \in Decodes : answer[d].kind = "Ok" =>
    /\ \A l \in {"landlock", "seccomp"} :
         (answer[d].posture[l] = "Enforced") <=> (l \in confined[d])
    /\ answer[d].posture.rlimit = "Applied" => Capped(d)

(* Another call, or the host, holds the process to less than call d asks for. *)
LowerCapElsewhere(d) ==
  \/ HostAs < AsBytes(limits[d].mem)
  \/ HostCpu < limits[d].cpu
  \/ \E c \in Decodes :
       /\ asked[c].rlimit /\ worker[c] # "none"
       /\ \/ AsBytes(limits[c].mem) < AsBytes(limits[d].mem)
          \/ limits[c].cpu < limits[d].cpu

(* SandboxUnavailable always has a cause outside the worker: a layer missing
   from the build or refused by the kernel, or a lower cap of another call.
   The order of apply_layers never makes one layer defeat another. *)
RefusalHasCause ==
  \A d \in Decodes : answer[d].kind = "SandboxUnavailable" =>
    \/ answer[d].layer \notin Built
    \/ answer[d].layer \in Refusing
    \/ answer[d].layer = "rlimit" /\ LowerCapElsewhere(d)

(* The process-wide caps are the host's or those of a call that selected
   rlimit: a call that skips the layer never touches them. *)
CapsHaveOwners ==
  LET askers == {d \in Decodes : asked[d].rlimit /\ worker[d] # "none"}
  IN  /\ asMax \in {HostAs} \cup {AsBytes(limits[d].mem) : d \in askers}
      /\ cpuMax \in {HostCpu} \cup {limits[d].cpu : d \in askers}

(* run_in_worker joins: no worker outlives its call, and what a call answers is
   what its worker returned. *)
WorkerIsJoined ==
  \A d \in Decodes : caller[d] = "returned" =>
    /\ worker[d] \in {"none", "finished", "panicked"}
    /\ worker[d] = "finished" => answer[d] = result[d]

(* The calls keep the promise of DecodeCall: an answer that fits the selector,
   at most once, and always in the end unless the process dies. *)
CallSpec == Call!Spec

(* Safety alone of the same promise. *)
SafeCallSpec == Call!SafeSpec

(* Every call that starts returns, the panicking ones too, unless the process
   dies first. *)
EveryCallReturns ==
  \A d \in Decodes :
    (caller[d] # "idle") ~> (caller[d] = "returned" \/ process # "running")
-----------------------------------------------------------------------------
(* The inductive invariant behind the safety properties. *)

(* Where a caller and its worker can be together. *)
Threads ==
  \A d \in Decodes :
    /\ caller[d] \in {"idle", "read", "spawn"} => worker[d] = "none"
    /\ caller[d] = "join" => worker[d] # "none"
    /\ caller[d] = "returned" => worker[d] \in {"none", "finished", "panicked"}

(* The worker of call d is past layer l. *)
Past(d, l) ==
  /\ worker[d] \notin {"none", "rlimit_as", "rlimit_cpu"}
  /\ l # "rlimit" => worker[d] # "landlock"
  /\ l = "seccomp" => worker[d] # "seccomp"

(* A posture is Disabled until its layer is tried, and after that only when it
   was not; the thread layers say what the kernel took, and why it did not. *)
ThreadLayer(d, l) ==
  /\ ~Past(d, l) => posture[d][l] = "Disabled"
  /\ Past(d, l) => ((posture[d][l] = "Disabled") <=> ~Attempts(d, l))
  /\ (posture[d][l] = "Enforced") <=> (l \in confined[d])
  /\ posture[d][l] = "Unsupported" => l \in Refusing

ThreadLayers ==
  \A d \in Decodes : ThreadLayer(d, "landlock") /\ ThreadLayer(d, "seccomp")

(* The same for rlimit, with what the process's caps owe to it. *)
ProcessLayerOf(d) ==
  /\ ~Past(d, "rlimit") => posture[d].rlimit = "Disabled"
  /\ Past(d, "rlimit") =>
       ((posture[d].rlimit = "Disabled") <=> ~Attempts(d, "rlimit"))
  /\ worker[d] = "rlimit_cpu" =>
       /\ Attempts(d, "rlimit")
       /\ asSet[d] => Privileged \/ asMax <= AsBytes(limits[d].mem)
       /\ ~asSet[d] => LowerCapElsewhere(d)
  /\ posture[d].rlimit = "Applied" => Capped(d)
  /\ posture[d].rlimit = "PartiallyApplied" => LowerCapElsewhere(d)

ProcessLayer == \A d \in Decodes : ProcessLayerOf(d)

(* What the closure returned, and that strict let it. *)
ResultOf(d) ==
  /\ worker[d] = "work" /\ asked[d].strict => Missing(d) = {}
  /\ worker[d] = "finished" =>
       \/ /\ result[d] = Call!Ok(posture[d])
          /\ asked[d].strict => Missing(d) = {}
       \/ /\ asked[d].strict
          /\ \E l \in Missing(d) : result[d] = Call!Refused(l)
       \/ result[d] = Call!Failed("Decode")

Results == \A d \in Decodes : ResultOf(d)

(* Where an answer comes from. *)
AnswerOf(d) ==
  /\ caller[d] # "returned" => answer[d] = Call!NoAnswer
  /\ caller[d] = "returned" =>
       \/ worker[d] = "finished" /\ answer[d] = result[d]
       \/ worker[d] = "panicked" /\ answer[d] = Call!Failed("Internal")
       \/ /\ worker[d] = "none"
          /\ answer[d] \in {Call!Failed("Io"), Call!Failed("UnsupportedFormat")}
  /\ worker[d] = "panicked" => ~PanicAborts

AnswersCome == \A d \in Decodes : AnswerOf(d)

IInv ==
  /\ TypeOK
  /\ Threads
  /\ CapsHaveOwners
  /\ ThreadLayers
  /\ ProcessLayer
  /\ Results
  /\ AnswersCome
=============================================================================
