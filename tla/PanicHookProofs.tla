--------------------------- MODULE PanicHookProofs ---------------------------
(***************************************************************************)
(* Proofs about PanicHook, for any number of calls, threads and hooks.     *)
(* One call at most is in the closure of get_or_init, so while the hook is *)
(* taken no call has passed the installation and no worker runs.           *)
(***************************************************************************)
EXTENDS PanicHook, TLAPS

CallPCs == {"idle", "install", "take", "set", "publish", "ready", "working", "ended"}

HookTypes ==
  /\ hook.silencing \in BOOLEAN
  /\ call \in [Calls -> CallPCs]
  /\ DOMAIN told = Calls /\ DOMAIN heard = HostThreads
  /\ since \in {"before", "within", "after"}

InClosure(c) == call[c] \in {"take", "set", "publish"}
Past(c) == call[c] \in {"ready", "working", "ended"}

(* What the OnceLock is for. *)
OnceTells ==
  /\ once = "new" => \A c \in Calls : call[c] \in {"idle", "install"}
  /\ \A c \in Calls : InClosure(c) => once = "running"
  /\ \A c \in Calls : Past(c) => once = "done"
  /\ \A c, d \in Calls : InClosure(c) /\ InClosure(d) => c = d
  /\ once = "done" => Installed

(* What hook is in place, and what is in the closure's hands. *)
HookTells ==
  /\ Installed /\ since # "after" => hook.silencing
  /\ since = "after" => Installed
  /\ ~Installing /\ since # "within" => hook.passes = latest
  /\ Installing /\ since # "within" => taken.passes = latest

HInv == HookTypes /\ OnceTells /\ HookTells /\ WorkersAreSilent /\ HostsAreHeard

(* Nobody has got past an installation that is going on. *)
LEMMA NobodyPast ==
  ASSUME HInv, NEW c \in Calls, call[c] \in {"take", "set"}
  PROVE  ~Installed /\ since # "after"
<1>1. ASSUME NEW d \in Calls, call[d] \in {"publish", "ready", "working", "ended"}
      PROVE  FALSE
  <2>1. once = "running"
    BY DEF HInv, OnceTells, InClosure
  <2>2. CASE call[d] = "publish"
    <3>1. c = d
      BY <2>2 DEF HInv, OnceTells, InClosure
    <3> QED
      BY <2>2, <3>1
  <2>3. CASE Past(d)
    BY <2>1, <2>3 DEF HInv, OnceTells
  <2> QED
    BY <1>1, <2>2, <2>3 DEF Past
<1>2. ~Installed
  BY <1>1 DEF Installed
<1> QED
  BY <1>2 DEF HInv, HookTells

LEMMA InitHInv == Init => HInv
<1> SUFFICES ASSUME Init PROVE HInv
  OBVIOUS
<1>1. HookTypes
  BY DEF Init, HookTypes, CallPCs, Std
<1>2. \A c \in Calls : call[c] = "idle"
  BY DEF Init
<1>3. OnceTells
  BY <1>2 DEF Init, OnceTells, InClosure, Past
<1>4. ~Installed /\ ~Installing
  BY <1>2 DEF Installed, Installing
<1>5. HookTells
  BY <1>4 DEF Init, HookTells, Std
<1>6. WorkersAreSilent /\ HostsAreHeard
  BY DEF Init, WorkersAreSilent, HostsAreHeard
<1> QED
  BY <1>1, <1>3, <1>5, <1>6 DEF HInv

(* Where a call goes, the others stay. *)
LEMMA Moves ==
  ASSUME HInv, NEW c \in Calls, NEW from, NEW to \in CallPCs, Goes(c, from, to)
  PROVE  /\ call[c] = from /\ call'[c] = to /\ call' \in [Calls -> CallPCs]
         /\ \A d \in Calls : d # c => call'[d] = call[d]
BY DEF HInv, HookTypes, Goes

(* Every step of a call does what the OnceLock is for. *)
LEMMA OnceKept ==
  ASSUME HInv, NEW c \in Calls,
         \/ RunInWorker(c) \/ BeginInstall(c) \/ FindInstalled(c) \/ TakeHook(c) \/ SetHook(c)
         \/ Publish(c) \/ SpawnWorker(c) \/ WorkerEnds(c) \/ WorkerPanics(c)
  PROVE  OnceTells' /\ call' \in [Calls -> CallPCs] /\ (Installed => Installed')
<1> DEFINE Step(from, to) ==
             /\ call[c] = from /\ call'[c] = to /\ call' \in [Calls -> CallPCs]
             /\ \A d \in Calls : d # c => call'[d] = call[d]
<1>1. CASE RunInWorker(c)
  <2>1. Step("idle", "install") /\ once' = once
    BY <1>1, Moves DEF RunInWorker, CallPCs
  <2> QED
    BY <2>1 DEF HInv, OnceTells, InClosure, Past, Installed
<1>2. CASE BeginInstall(c)
  <2>1. Step("install", "take") /\ once = "new" /\ once' = "running"
    BY <1>2, Moves DEF BeginInstall, CallPCs
  <2> QED
    BY <2>1 DEF HInv, OnceTells, InClosure, Past, Installed
<1>3. CASE FindInstalled(c)
  <2>1. Step("install", "ready") /\ once = "done" /\ once' = once
    BY <1>3, Moves DEF FindInstalled, CallPCs
  <2> QED
    BY <2>1 DEF HInv, OnceTells, InClosure, Past, Installed
<1>4. CASE TakeHook(c)
  <2>1. Step("take", "set") /\ once' = once
    BY <1>4, Moves DEF TakeHook, CallPCs
  <2> QED
    BY <2>1 DEF HInv, OnceTells, InClosure, Past, Installed
<1>5. CASE SetHook(c)
  <2>1. Step("set", "publish") /\ once' = once
    BY <1>5, Moves DEF SetHook, CallPCs
  <2> QED
    BY <2>1 DEF HInv, OnceTells, InClosure, Past, Installed
<1>6. CASE Publish(c)
  <2>1. Step("publish", "ready") /\ once' = "done"
    BY <1>6, Moves DEF Publish, CallPCs
  <2> QED
    BY <2>1 DEF HInv, OnceTells, InClosure, Past, Installed
<1>7. CASE SpawnWorker(c)
  <2>1. Step("ready", "working") /\ once' = once
    BY <1>7, Moves DEF SpawnWorker, CallPCs
  <2> QED
    BY <2>1 DEF HInv, OnceTells, InClosure, Past, Installed
<1>8. CASE WorkerEnds(c) \/ WorkerPanics(c)
  <2>1. Step("working", "ended") /\ once' = once
    BY <1>8, Moves DEF WorkerEnds, WorkerPanics, CallPCs
  <2> QED
    BY <2>1 DEF HInv, OnceTells, InClosure, Past, Installed
<1> QED
  BY <1>1, <1>2, <1>3, <1>4, <1>5, <1>6, <1>7, <1>8

(* A step of a call that neither takes nor sets the hook. *)
LEMMA QuietStep ==
  ASSUME HInv, NEW c \in Calls,
         RunInWorker(c) \/ BeginInstall(c) \/ FindInstalled(c) \/ Publish(c)
           \/ SpawnWorker(c) \/ WorkerEnds(c) \/ WorkerPanics(c)
  PROVE  HInv'
<1>1. /\ hook' = hook /\ taken' = taken /\ heard' = heard
      /\ latest' = latest /\ since' = since
  BY DEF RunInWorker, BeginInstall, FindInstalled, Publish, SpawnWorker, WorkerEnds, WorkerPanics
<1>2. OnceTells' /\ call' \in [Calls -> CallPCs] /\ (Installed => Installed')
  BY OnceKept
<1>3. \E from, to \in CallPCs : Goes(c, from, to) /\ from # "set" /\ to # "set"
        /\ (to \in {"install", "take"} \/ Installed)
  BY DEF RunInWorker, BeginInstall, FindInstalled, Publish, SpawnWorker, WorkerEnds,
         WorkerPanics, CallPCs, Goes, HInv, OnceTells, Installed
<1>4. PICK from \in CallPCs, to \in CallPCs :
        Goes(c, from, to) /\ from # "set" /\ to # "set"
        /\ (to \in {"install", "take"} \/ Installed)
  BY <1>3
<1>5. /\ call[c] = from /\ call'[c] = to
      /\ \A d \in Calls : d # c => call'[d] = call[d]
  BY <1>4, Moves
<1>6. Installing' <=> Installing
  BY <1>4, <1>5 DEF Installing
<1>7. Installed' <=> Installed
  BY <1>2, <1>4, <1>5 DEF Installed
<1>8. HookTells'
  BY <1>1, <1>6, <1>7 DEF HInv, HookTells
<1>9. WorkersAreSilent' /\ DOMAIN told' = Calls
  <2>1. CASE WorkerPanics(c)
    <3>1. Installed
      BY <2>1 DEF WorkerPanics, Goes, Installed
    <3>2. hook.silencing \/ since = "after"
      BY <3>1 DEF HInv, HookTells
    <3>3. told' = [told EXCEPT ![c] = IF hook.silencing THEN Nobody ELSE hook.passes]
      BY <2>1 DEF WorkerPanics
    <3> QED
      BY <1>1, <3>2, <3>3 DEF HInv, HookTypes, WorkersAreSilent
  <2>2. CASE told' = told
    BY <1>1, <2>2 DEF HInv, HookTypes, WorkersAreSilent
  <2> QED
    BY <2>1, <2>2 DEF RunInWorker, BeginInstall, FindInstalled, Publish, SpawnWorker, WorkerEnds
<1>10. HostsAreHeard'
  BY <1>1 DEF HInv, HostsAreHeard
<1> QED
  BY <1>1, <1>2, <1>8, <1>9, <1>10 DEF HInv, HookTypes

LEMMA TakeHookKeeps ==
  ASSUME HInv, NEW c \in Calls, TakeHook(c)
  PROVE  HInv'
<1>1. /\ hook' = Std /\ taken' = hook /\ told' = told /\ heard' = heard
      /\ latest' = latest /\ since' = since
  BY DEF TakeHook
<1>2. /\ call[c] = "take" /\ call'[c] = "set" /\ call' \in [Calls -> CallPCs]
      /\ \A d \in Calls : d # c => call'[d] = call[d]
  BY Moves DEF TakeHook, CallPCs
<1>3. ~Installed /\ since # "after"
  BY <1>2, NobodyPast
<1>4. ~Installing
  BY <1>2 DEF Installing, HInv, OnceTells, InClosure
<1>5. ~Installed' /\ Installing'
  BY <1>2, <1>3 DEF Installed, Installing
<1>6. HookTells'
  BY <1>1, <1>3, <1>4, <1>5 DEF HInv, HookTells
<1>7. OnceTells'
  BY OnceKept
<1>8. HookTypes'
  BY <1>1, <1>2 DEF HInv, HookTypes, Std
<1> QED
  BY <1>1, <1>6, <1>7, <1>8 DEF HInv, WorkersAreSilent, HostsAreHeard

LEMMA SetHookKeeps ==
  ASSUME HInv, NEW c \in Calls, SetHook(c)
  PROVE  HInv'
<1>1. /\ hook' = [silencing |-> TRUE, passes |-> taken.passes] /\ told' = told
      /\ heard' = heard /\ taken' = taken /\ latest' = latest /\ since' = since
  BY DEF SetHook
<1>2. /\ call[c] = "set" /\ call'[c] = "publish" /\ call' \in [Calls -> CallPCs]
      /\ \A d \in Calls : d # c => call'[d] = call[d]
  BY Moves DEF SetHook, CallPCs
<1>3. since # "after"
  BY <1>2, NobodyPast
<1>4. Installing
  BY <1>2 DEF Installing
<1>5. Installed' /\ ~Installing'
  <2>1. \A d \in Calls : d # c => call[d] # "set"
    BY <1>2 DEF HInv, OnceTells, InClosure
  <2> QED
    BY <1>2, <2>1 DEF Installed, Installing
<1>6. HookTells'
  BY <1>1, <1>3, <1>4, <1>5 DEF HInv, HookTells
<1>7. OnceTells'
  BY OnceKept
<1>8. HookTypes'
  BY <1>1, <1>2 DEF HInv, HookTypes
<1> QED
  BY <1>1, <1>6, <1>7, <1>8 DEF HInv, WorkersAreSilent, HostsAreHeard

LEMMA HostPanicsKeeps ==
  ASSUME HInv, NEW t \in HostThreads, HostPanics(t)
  PROVE  HInv'
<1>1. /\ hook' = hook /\ once' = once /\ taken' = taken /\ call' = call /\ told' = told
      /\ latest' = latest /\ since' = since
      /\ heard' = [heard EXCEPT ![t] = [by |-> hook.passes, host |-> latest,
                                        when |-> IF Installing THEN "between" ELSE since]]
  BY DEF HostPanics
<1>2. heard'[t] = [by |-> hook.passes, host |-> latest,
                   when |-> IF Installing THEN "between" ELSE since]
      /\ DOMAIN heard' = HostThreads
      /\ \A u \in HostThreads : u # t => heard'[u] = heard[u]
  BY <1>1 DEF HInv, HookTypes
<1>3. heard'[t].when \in {"before", "after"} => heard'[t].by = heard'[t].host
  BY <1>2 DEF HInv, HookTells
<1>4. HostsAreHeard'
  BY <1>2, <1>3 DEF HInv, HostsAreHeard
<1>5. /\ Installing' = Installing /\ Installed' = Installed
  BY <1>1 DEF Installing, Installed
<1> QED
  BY <1>1, <1>2, <1>4, <1>5
     DEF HInv, HookTypes, OnceTells, HookTells, WorkersAreSilent, InClosure, Past

LEMMA HostSetsKeeps ==
  ASSUME HInv, NEW h \in HostHooks, HostSets(h)
  PROVE  HInv'
<1>1. /\ hook' = [silencing |-> FALSE, passes |-> h] /\ once' = once /\ taken' = taken
      /\ call' = call /\ told' = told /\ latest' = h /\ heard' = heard
      /\ since' = IF Installing THEN "within" ELSE IF Installed THEN "after" ELSE "before"
  BY DEF HostSets
<1>2. /\ Installing' = Installing /\ Installed' = Installed
  BY <1>1 DEF Installing, Installed
<1>3. Installing => ~Installed /\ since # "after"
  BY NobodyPast DEF Installing
<1>4. HookTells'
  BY <1>1, <1>2, <1>3 DEF HookTells
<1>5. WorkersAreSilent'
  BY <1>1, <1>3 DEF HInv, HookTells, WorkersAreSilent
<1>6. HookTypes'
  BY <1>1 DEF HInv, HookTypes
<1> QED
  BY <1>1, <1>2, <1>4, <1>5, <1>6 DEF HInv, OnceTells, HostsAreHeard, InClosure, Past

(* The invariant is inductive. *)
THEOREM HookInductive == Spec => []HInv
<1>1. ASSUME HInv, [Next]_vars
      PROVE  HInv'
  <2>1. ASSUME NEW c \in Calls,
               RunInWorker(c) \/ BeginInstall(c) \/ FindInstalled(c) \/ Publish(c)
                 \/ SpawnWorker(c) \/ WorkerEnds(c) \/ WorkerPanics(c)
        PROVE  HInv'
    BY <1>1, <2>1, QuietStep
  <2>2. ASSUME NEW c \in Calls, TakeHook(c)
        PROVE  HInv'
    BY <1>1, <2>2, TakeHookKeeps
  <2>3. ASSUME NEW c \in Calls, SetHook(c)
        PROVE  HInv'
    BY <1>1, <2>3, SetHookKeeps
  <2>4. ASSUME NEW t \in HostThreads, HostPanics(t)
        PROVE  HInv'
    BY <1>1, <2>4, HostPanicsKeeps
  <2>5. ASSUME NEW h \in HostHooks, HostSets(h)
        PROVE  HInv'
    BY <1>1, <2>5, HostSetsKeeps
  <2>6. CASE UNCHANGED vars
    BY <1>1, <2>6 DEF vars, HInv, HookTypes, OnceTells, HookTells, WorkersAreSilent,
                      HostsAreHeard, InClosure, Past, Installing, Installed
  <2> QED
    BY <1>1, <2>1, <2>2, <2>3, <2>4, <2>5, <2>6 DEF Next
<1> QED
  BY <1>1, InitHInv, PTL DEF Spec

(* No panic of a decode worker prints anything, however many calls begin at
   once, unless the host has set another hook since the installation. *)
THEOREM SilenceHolds == Spec => []WorkersAreSilent
<1>1. HInv => WorkersAreSilent
  BY DEF HInv
<1> QED
  BY <1>1, HookInductive, PTL

(* A panic of another thread reaches the hook that the host set last, except in
   the moment of the installation. *)
THEOREM HostHookIsKept == Spec => []HostsAreHeard
<1>1. HInv => HostsAreHeard
  BY DEF HInv
<1> QED
  BY <1>1, HookInductive, PTL-----------------------------------------------------------------------------
(* The OnceLock.  A call that waits for the installation waits for one that is
   in the closure, and whose next step asks for nothing but its own place. *)
OnceHasRunner ==
  once \in {"new", "running", "done"} /\ (once = "running" => \E c \in Calls : InClosure(c))

(* The call has the guard of its next step: it installs the hook, finds it
   installed or is in the closure. *)
GoesOn(c) == InClosure(c) \/ (call[c] = "install" /\ once \in {"new", "done"})

LEMMA RunnerStep == HInv /\ OnceHasRunner /\ [Next]_vars => OnceHasRunner'
<1> SUFFICES ASSUME HInv, OnceHasRunner, [Next]_vars PROVE OnceHasRunner'
  OBVIOUS
<1>1. ASSUME NEW c \in Calls, BeginInstall(c)
      PROVE  OnceHasRunner'
  <2>1. call'[c] = "take" /\ once' = "running"
    BY <1>1, Moves DEF BeginInstall, CallPCs
  <2> QED
    BY <2>1 DEF OnceHasRunner, InClosure
<1>2. ASSUME NEW c \in Calls, Publish(c)
      PROVE  OnceHasRunner'
  BY <1>2 DEF Publish, OnceHasRunner
<1>3. ASSUME NEW c \in Calls,
             \/ RunInWorker(c) \/ FindInstalled(c) \/ TakeHook(c) \/ SetHook(c)
             \/ SpawnWorker(c) \/ WorkerEnds(c) \/ WorkerPanics(c)
      PROVE  OnceHasRunner'
  <2>1. once' = once
    BY <1>3 DEF RunInWorker, FindInstalled, TakeHook, SetHook, SpawnWorker, WorkerEnds,
                WorkerPanics
  <2>2. InClosure(c) => InClosure(c)'
    <3>1. CASE TakeHook(c)
      <4>1. call'[c] = "set"
        BY <3>1, Moves DEF TakeHook, CallPCs
      <4> QED
        BY <4>1 DEF InClosure
    <3>2. CASE SetHook(c)
      <4>1. call'[c] = "publish"
        BY <3>2, Moves DEF SetHook, CallPCs
      <4> QED
        BY <4>1 DEF InClosure
    <3>3. CASE ~TakeHook(c) /\ ~SetHook(c)
      BY <1>3, <3>3 DEF RunInWorker, FindInstalled, SpawnWorker, WorkerEnds, WorkerPanics,
                        Goes, InClosure
    <3> QED
      BY <3>1, <3>2, <3>3
  <2>3. \A d \in Calls : d # c => call'[d] = call[d]
    BY <1>3 DEF RunInWorker, FindInstalled, TakeHook, SetHook, SpawnWorker, WorkerEnds,
                WorkerPanics, Goes, HInv, HookTypes
  <2> QED
    BY <2>1, <2>2, <2>3 DEF OnceHasRunner, InClosure
<1>4. CASE call' = call /\ once' = once
  BY <1>4 DEF OnceHasRunner, InClosure
<1>5. CASE \E t \in HostThreads : HostPanics(t)
  BY <1>4, <1>5 DEF HostPanics
<1>6. CASE \E h \in HostHooks : HostSets(h)
  BY <1>4, <1>6 DEF HostSets
<1>7. CASE UNCHANGED vars
  BY <1>4, <1>7 DEF vars
<1> QED
  BY <1>1, <1>2, <1>3, <1>5, <1>6, <1>7 DEF Next

(* The installation cannot stall: while a call has not got past it, some call has
   the guard of its next step, and the calls in the closure are never two.  That
   this step comes is the fairness of InstallationEnds. *)
THEOREM InstallationNeverStalls ==
  Spec => [](/\ \A c \in Calls : call[c] = "install" => \E d \in Calls : GoesOn(d)
             /\ \A c, d \in Calls : InClosure(c) /\ InClosure(d) => c = d)
<1>1. Init => OnceHasRunner
  BY DEF Init, OnceHasRunner
<1>2. HInv /\ OnceHasRunner =>
        /\ \A c \in Calls : call[c] = "install" => \E d \in Calls : GoesOn(d)
        /\ \A c, d \in Calls : InClosure(c) /\ InClosure(d) => c = d
  BY DEF HInv, OnceTells, OnceHasRunner, GoesOn
<1> QED
  BY <1>1, <1>2, HookInductive, RunnerStep, PTL DEF Spec
=============================================================================
