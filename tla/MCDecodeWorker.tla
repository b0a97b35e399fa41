--------------------------- MODULE MCDecodeWorker ---------------------------
(***************************************************************************)
(* DecodeWorker on small instances: two calls, selectors that disagree     *)
(* about every layer, and limits that are incomparable between two calls.  *)
(***************************************************************************)
EXTENDS DecodeWorker

MCSelector(ll, sc, rl, st) ==
  [landlock |-> ll, seccomp |-> sc, rlimit |-> rl, strict |-> st]

(* The default, its strict form, everything strict, rlimit without strict, and
   SandboxSelector::none(). *)
MCSelectors ==
  {MCSelector(TRUE, TRUE, FALSE, FALSE),
   MCSelector(TRUE, TRUE, TRUE, TRUE),
   MCSelector(FALSE, TRUE, TRUE, FALSE),
   MCSelector(FALSE, FALSE, FALSE, FALSE)}

(* For the degraded platform: one thread layer at a time. *)
MCDegradedSelectors ==
  {MCSelector(TRUE, TRUE, FALSE, FALSE),
   MCSelector(TRUE, FALSE, FALSE, TRUE),
   MCSelector(FALSE, TRUE, FALSE, TRUE),
   MCSelector(FALSE, TRUE, TRUE, TRUE)}
=============================================================================
