------------------------------ MODULE PanicHook ------------------------------
(***************************************************************************)
(* The process-wide panic hook.  The first call of run_in_worker puts a    *)
(* closure in front of whatever hook is there, in two steps that other     *)
(* threads can see between: take_hook leaves the default hook in place     *)
(* until set_hook.  Calls that come meanwhile wait for the OnceLock.  The  *)
(* host may set a hook of its own at any moment, and any thread may panic. *)
(* A hook runs under the lock of take_hook and set_hook: a panic is a step.*)
(***************************************************************************)
EXTENDS Naturals

CONSTANTS
  Calls,        (* calls of run_in_worker, each with its worker thread       *)
  HostThreads,  (* threads with other names                                  *)
  HostHooks     (* hooks the host sets                                       *)

Default == "default"   (* std's hook, which writes to stderr *)
Nobody == "nobody"

ASSUME HookAssumption == {Default, Nobody} \cap HostHooks = {}

VARIABLES
  hook,     (* silencing: the library's closure is in front;
               passes: the hook that other panics reach                      *)
  once,     (* INSTALLED: new, running or done                               *)
  taken,    (* prior, in the closure of get_or_init                          *)
  call,     (* where each call is                                            *)
  told,     (* of each worker that panicked, the hook that was told          *)
  heard,    (* of each host thread that panicked, the hook that was told, the
               one that the host had set, and at what time                   *)
  latest,   (* the hook the host set last                                    *)
  since     (* when it did: before the installation, within or after it      *)

vars == <<hook, once, taken, call, told, heard, latest, since>>

Std == [silencing |-> FALSE, passes |-> Default]

Installing == \E c \in Calls : call[c] = "set"
Installed == \E c \in Calls : call[c] \in {"publish", "ready", "working", "ended"}

Goes(c, from, to) == call[c] = from /\ call' = [call EXCEPT ![c] = to]
-----------------------------------------------------------------------------
Init ==
  /\ hook = Std /\ once = "new" /\ taken = Std
  /\ call = [c \in Calls |-> "idle"]
  /\ told = [c \in Calls |-> Nobody]
  /\ heard = [t \in HostThreads |-> [by |-> Nobody, host |-> Nobody, when |-> "before"]]
  /\ latest = Default
  /\ since = "before"

RunInWorker(c) ==
  /\ Goes(c, "idle", "install")
  /\ UNCHANGED <<hook, once, taken, told, heard, latest, since>>

(* Mutant of BeginInstall: without the OnceLock every call installs. *)
BeginInstallAlways(c) ==
  /\ Goes(c, "install", "take")
  /\ once' = "running"
  /\ UNCHANGED <<hook, taken, told, heard, latest, since>>

(* get_or_init: one call runs the closure. *)
BeginInstall(c) ==
  /\ once = "new"
  /\ Goes(c, "install", "take")
  /\ once' = "running"
  /\ UNCHANGED <<hook, taken, told, heard, latest, since>>

(* Mutant of FindInstalled: a flag that was raised before the hook was set. *)
FindInstalledEarly(c) ==
  /\ once # "new"
  /\ Goes(c, "install", "ready")
  /\ UNCHANGED <<hook, once, taken, told, heard, latest, since>>

(* The others wait until it has run. *)
FindInstalled(c) ==
  /\ once = "done"
  /\ Goes(c, "install", "ready")
  /\ UNCHANGED <<hook, once, taken, told, heard, latest, since>>

TakeHook(c) ==
  /\ Goes(c, "take", "set")
  /\ taken' = hook /\ hook' = Std
  /\ UNCHANGED <<once, told, heard, latest, since>>

SetHook(c) ==
  /\ Goes(c, "set", "publish")
  /\ hook' = [silencing |-> TRUE, passes |-> taken.passes]
  /\ UNCHANGED <<once, taken, told, heard, latest, since>>

(* Mutant of Publish: the calls that wait are not told. *)
PublishToNobody(c) ==
  /\ Goes(c, "publish", "ready")
  /\ UNCHANGED <<hook, once, taken, told, heard, latest, since>>

(* INSTALLED is set, and those that wait go on. *)
Publish(c) ==
  /\ Goes(c, "publish", "ready")
  /\ once' = "done"
  /\ UNCHANGED <<hook, taken, told, heard, latest, since>>

(* The thread is spawned under the name that the hook looks for. *)
SpawnWorker(c) ==
  /\ Goes(c, "ready", "working")
  /\ UNCHANGED <<hook, once, taken, told, heard, latest, since>>

WorkerEnds(c) ==
  /\ Goes(c, "working", "ended")
  /\ UNCHANGED <<hook, once, taken, told, heard, latest, since>>

WorkerPanics(c) ==
  /\ Goes(c, "working", "ended")
  /\ told' = [told EXCEPT ![c] = IF hook.silencing THEN Nobody ELSE hook.passes]
  /\ UNCHANGED <<hook, once, taken, heard, latest, since>>

(* Other threads are delegated to the hook behind the closure. *)
HostPanics(t) ==
  /\ heard[t].by = Nobody
  /\ heard' = [heard EXCEPT ![t] = [by |-> hook.passes, host |-> latest,
                                   when |-> IF Installing THEN "between" ELSE since]]
  /\ UNCHANGED <<hook, once, taken, call, told, latest, since>>

HostSets(h) ==
  /\ latest # h
  /\ hook' = [silencing |-> FALSE, passes |-> h]
  /\ latest' = h
  /\ since' = IF Installing THEN "within" ELSE IF Installed THEN "after" ELSE "before"
  /\ UNCHANGED <<once, taken, call, told, heard>>

Next ==
  \/ \E c \in Calls :
       \/ RunInWorker(c) \/ BeginInstall(c) \/ FindInstalled(c) \/ TakeHook(c) \/ SetHook(c)
       \/ Publish(c) \/ SpawnWorker(c) \/ WorkerEnds(c) \/ WorkerPanics(c)
  \/ \E t \in HostThreads : HostPanics(t)
  \/ \E h \in HostHooks : HostSets(h)

(* A call that has begun goes on: the installation does not block. *)
Progress(c) ==
  BeginInstall(c) \/ FindInstalled(c) \/ TakeHook(c) \/ SetHook(c) \/ Publish(c)

Spec == Init /\ [][Next]_vars /\ \A c \in Calls : WF_vars(Progress(c))
-----------------------------------------------------------------------------
(* Properties. *)

(* The comment on the hook: a panic of a decode worker prints nothing, of
   whichever call and however many calls begin at once, unless the host itself
   has set another hook since the installation. *)
WorkersAreSilent == \A c \in Calls : told[c] # Nobody => since = "after"

(* And a panic of another thread is delegated to the prior hook: the host's own,
   as the host last set it.  Not so between take_hook and set_hook, when std's
   hook is told; and a hook that the host sets in that moment is lost. *)
HostsAreHeard ==
  \A t \in HostThreads :
    heard[t].by # Nobody /\ heard[t].when \in {"before", "after"}
      => heard[t].by = heard[t].host

(* Every call gets past the installation, its own or another's. *)
InstallationEnds == \A c \in Calls : call[c] = "install" ~> call[c] = "ready"
=============================================================================
