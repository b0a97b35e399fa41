----------------------------- MODULE MCPanicHook ----------------------------
(* Three calls, two threads of the host and two hooks of its own. *)
EXTENDS PanicHook
=============================================================================
