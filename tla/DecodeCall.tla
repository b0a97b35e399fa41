----------------------------- MODULE DecodeCall -----------------------------
(***************************************************************************)
(* What one call of Loader::load promises its caller, with no threads, no  *)
(* kernel and no order among the layers: a call begins, and it returns at  *)
(* most once with an answer its sandbox selector allows.  DecodeWorker     *)
(* implements this specification.                                          *)
(***************************************************************************)
CONSTANTS
  Decodes,      (* calls of Loader::load                                    *)
  Selectors,    (* the SandboxSelector values callers pass                  *)
  Built,        (* sandbox layers the build contains                        *)
  PanicAborts   (* TRUE for [profile.release], whose panic strategy aborts  *)

Layers == {"landlock", "seccomp", "rlimit"}

(* LandlockPosture, SeccompPosture and RlimitPosture, without their payload. *)
Postures ==
  [landlock : {"Enforced", "Unsupported", "Disabled"},
   seccomp  : {"Enforced", "Unsupported", "Disabled"},
   rlimit   : {"Applied", "PartiallyApplied", "Disabled"}]

InForce == {"Enforced", "Applied"}

Selector ==
  [landlock : BOOLEAN, seccomp : BOOLEAN, rlimit : BOOLEAN, strict : BOOLEAN]

(* The answers of a call: an image with its posture, or an Error. *)
NoAnswer   == [kind |-> "none"]
Ok(p)      == [kind |-> "Ok", posture |-> p]
Refused(l) == [kind |-> "SandboxUnavailable", layer |-> l]
Failed(k)  == [kind |-> k]

Failures == {"Io", "UnsupportedFormat", "Decode", "Internal"}

Answers ==
  {Ok(p) : p \in Postures} \cup {Refused(l) : l \in Layers}
    \cup {Failed(k) : k \in Failures}

(***************************************************************************)
(* A posture fits a selector when exactly the layers that were selected    *)
(* and built are something other than Disabled and, under strict, every    *)
(* selected layer is in force.                                             *)
(***************************************************************************)
Fits(p, s) ==
  \A l \in Layers :
    /\ (p[l] = "Disabled") <=> ~(s[l] /\ l \in Built)
    /\ (s.strict /\ s[l]) => p[l] \in InForce

(* The answers a call with selector s may give. *)
Promised(s) ==
  {Ok(p) : p \in {q \in Postures : Fits(q, s)}}
    \cup {Refused(l) : l \in {m \in Layers : s.strict /\ s[m]}}
    \cup {Failed(k) : k \in {f \in Failures : f = "Internal" => ~PanicAborts}}
-----------------------------------------------------------------------------
VARIABLES
  asked,    (* the selector of each call                                    *)
  status,   (* idle, active or returned                                     *)
  answer,   (* what the call returned                                       *)
  process   (* running, aborted by a panic, or killed by the kernel         *)

callVars == <<asked, status, answer, process>>

Init ==
  /\ asked \in [Decodes -> Selectors]
  /\ status = [d \in Decodes |-> "idle"]
  /\ answer = [d \in Decodes |-> NoAnswer]
  /\ process = "running"

Begin(d) ==
  /\ process = "running"
  /\ status[d] = "idle"
  /\ status' = [status EXCEPT ![d] = "active"]
  /\ UNCHANGED <<asked, answer, process>>

Return(d) ==
  /\ process = "running"
  /\ status[d] = "active"
  /\ status' = [status EXCEPT ![d] = "returned"]
  /\ \E a \in Promised(asked[d]) : answer' = [answer EXCEPT ![d] = a]
  /\ UNCHANGED <<asked, process>>

Abort ==
  /\ process = "running"
  /\ PanicAborts
  /\ \E d \in Decodes : status[d] = "active"
  /\ process' = "aborted"
  /\ UNCHANGED <<asked, status, answer>>

Killed ==
  /\ process = "running"
  /\ process' = "killed"
  /\ UNCHANGED <<asked, status, answer>>

Next ==
  \/ \E d \in Decodes : Begin(d) \/ Return(d)
  \/ Abort
  \/ Killed

Fairness == \A d \in Decodes : WF_callVars(Return(d))

SafeSpec == Init /\ [][Next]_callVars

Spec == SafeSpec /\ Fairness
=============================================================================
