--------------------------- MODULE LoaderBuilder ---------------------------
(***************************************************************************)
(* What the C API promises of a loader handle: it remembers every setting  *)
(* the host made, each at its last value, until the host frees it or has   *)
(* it decoded, and the decode is given exactly those settings.  No boxes,  *)
(* no errors, no nesting of settings; a call that fails changes nothing.   *)
(* LoaderHandle implements this specification.                             *)
(***************************************************************************)
CONSTANTS
  Threads,    (* threads of the host                                        *)
  Handles,    (* loader handles                                             *)
  Files,      (* what a handle can be created for                           *)
  Settings,   (* what can be set on a handle                                *)
  Values      (* what it can be set to                                      *)

VARIABLES
  config,     (* the configuration of each handle, or NoConfig              *)
  decoding    (* the configuration each thread is decoding with             *)

builderVars == <<config, decoding>>

NoConfig == [kind |-> "none"]

Default == "default"

Fresh(file) == [file |-> file, set |-> [s \in Settings |-> Default]]

Init ==
  /\ config = [h \in Handles |-> NoConfig]
  /\ decoding = [t \in Threads |-> NoConfig]

Create(h) ==
  /\ config[h] = NoConfig
  /\ \E file \in Files : config' = [config EXCEPT ![h] = Fresh(file)]
  /\ UNCHANGED decoding

Set(h) ==
  /\ config[h] # NoConfig
  /\ \E s \in Settings, v \in Values :
       config' = [config EXCEPT ![h].set[s] = v]
  /\ UNCHANGED decoding

Free(h) ==
  /\ config[h] # NoConfig
  /\ config' = [config EXCEPT ![h] = NoConfig]
  /\ UNCHANGED decoding

Decode(t, h) ==
  /\ decoding[t] = NoConfig
  /\ config[h] # NoConfig
  /\ decoding' = [decoding EXCEPT ![t] = config[h]]
  /\ config' = [config EXCEPT ![h] = NoConfig]

Finish(t) ==
  /\ decoding' = [decoding EXCEPT ![t] = NoConfig]
  /\ UNCHANGED config

Next ==
  \/ \E h \in Handles : Create(h) \/ Set(h) \/ Free(h)
  \/ \E t \in Threads : Finish(t) \/ \E h \in Handles : Decode(t, h)

Spec == Init /\ [][Next]_builderVars
=============================================================================
