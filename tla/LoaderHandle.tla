---------------------------- MODULE LoaderHandle ----------------------------
(***************************************************************************)
(* The C API of loaders and images (src/c_api.rs) with Loader::load's      *)
(* choice of a decoder, called by the threads of a host that keeps to the  *)
(* API's contract: a handle is used by one thread at a time, by no thread  *)
(* once it was freed or loaded, and any thread may use it next.            *)
(*                                                                         *)
(* A loader handle is a box around an Option<Loader>.  Every setter takes  *)
(* the Loader out and puts a Loader back; load takes it for good and frees *)
(* the box when it returns, whatever it returns.  All calls but load are   *)
(* one step: the box is the calling thread's alone, the last error too.    *)
(***************************************************************************)
EXTENDS Sniff

CONSTANTS
  Threads,       (* threads of the host                                     *)
  LoaderBoxes,   (* bound: addresses of loader handles                      *)
  ImageBoxes,    (* bound: addresses of image handles                       *)
  Hints,         (* bound: formats whose GLYCIN_NG_KFMT_* the host passes   *)
  LimitFields,   (* the fields of Limits that have a setter                 *)
  Options,       (* sandbox, apply_transformations and render_size_hint, or
                    some of them                                            *)
  Given,         (* values the host sets limits and options to              *)
  Files          (* what the host creates loaders for                       *)

Default == "default"

(* A path or a buffer: whether it can be read, the format it really has, its
   bytes and its extension, of which a buffer has none. *)
File == [readable : BOOLEAN, is : KnownFormat \cup {Nothing},
         bytes : Seq(STRING), extension : STRING]

(* The formats whose bytes begin with no signature of theirs. *)
Unsigned == {f \in KnownFormat \ {"webp", "bmp", "pnm", "svg"} : Signatures[f] = {}}

ASSUME HandleAssumption ==
  /\ Files \subseteq File
  /\ Hints \subseteq KnownFormat
  /\ Default \notin Given
  /\ LimitFields \cap Options = {}
  /\ "format_hint" \notin LimitFields \cup Options

VARIABLES
  loaders,      (* each loader box: freed, emptied by take(), or a Loader   *)
  images,       (* the image boxes that are allocated                       *)
  lastError,    (* each thread's LAST_ERROR                                 *)
  call,         (* the glycin_ng_loader_load each thread is in              *)
  ownLoaders,   (* loader handles the host may use                          *)
  ownImages,    (* image handles the host may use                           *)
  message,      (* the error behind the pointer a thread may still read     *)
  told          (* what its last fallible call returned to each thread      *)

host == <<ownLoaders, ownImages>>
errors == <<lastError, message, told>>
vars == <<loaders, images, lastError, call, ownLoaders, ownImages, message, told>>

Freed == [kind |-> "freed"]
Taken == [kind |-> "taken"]
NoCall == [kind |-> "none"]

(* Loader::new *)
NewLoader(file) ==
  [file |-> file, format_hint |-> Default,
   limits |-> [f \in LimitFields |-> Default],
   options |-> [o \in Options |-> Default]]

Loader ==
  [file : Files, format_hint : KnownFormat \cup {Default},
   limits : [LimitFields -> Given \cup {Default}],
   options : [Options -> Given \cup {Default}]]

(* What set_error describes: NULL or an unknown constant, or the Error that
   Loader::load returned. *)
Failures == {"argument", "load"}

InCall(t) == call[t] # NoCall

(* The builder the handles implement. *)
Config(loader) ==
  [file |-> loader.file,
   set |-> [s \in LimitFields \cup Options \cup {"format_hint"} |->
              IF s \in LimitFields THEN loader.limits[s]
              ELSE IF s \in Options THEN loader.options[s]
              ELSE loader.format_hint]]

Builder == INSTANCE LoaderBuilder WITH
  Handles  <- LoaderBoxes,
  Settings <- LimitFields \cup Options \cup {"format_hint"},
  Values   <- Given \cup Hints,
  config   <- [b \in LoaderBoxes |->
                 IF loaders[b] \in {Freed, Taken} THEN [kind |-> "none"]
                 ELSE Config(loaders[b])],
  decoding <- [t \in Threads |->
                 IF InCall(t) THEN Config(call[t].loader) ELSE [kind |-> "none"]]
-----------------------------------------------------------------------------
Init ==
  /\ loaders = [b \in LoaderBoxes |-> Freed]
  /\ images = {}
  /\ lastError = [t \in Threads |-> Nothing]
  /\ call = [t \in Threads |-> NoCall]
  /\ ownLoaders = {}
  /\ ownImages = {}
  /\ message = [t \in Threads |-> Nothing]
  /\ told = [t \in Threads |-> "ok"]

(* A fallible call of thread t begins with clear_error; the host stops reading
   the old message. *)
Succeeds(t) ==
  /\ lastError' = [lastError EXCEPT ![t] = Nothing]
  /\ message' = [message EXCEPT ![t] = Nothing]
  /\ told' = [told EXCEPT ![t] = "ok"]

(* It sets error e and returns NULL or -1. *)
Fails(t, e) ==
  /\ lastError' = [lastError EXCEPT ![t] = e]
  /\ message' = [message EXCEPT ![t] = Nothing]
  /\ told' = [told EXCEPT ![t] = "failed"]

(* Thread t calls a function on box b, which it owns. *)
Uses(t, b) ==
  /\ ~InCall(t)
  /\ b \in ownLoaders
  /\ loaders[b] # Taken
-----------------------------------------------------------------------------
(* Handles come and go. *)

(* glycin_ng_loader_new_path, glycin_ng_loader_new_bytes *)
New(t, b, file) ==
  /\ ~InCall(t)
  /\ loaders[b] = Freed
  /\ loaders' = [loaders EXCEPT ![b] = NewLoader(file)]
  /\ ownLoaders' = ownLoaders \cup {b}
  /\ Succeeds(t)
  /\ UNCHANGED <<images, call, ownImages>>

(* The path is NULL, or the data with a length. *)
NewFails(t) ==
  /\ ~InCall(t)
  /\ Fails(t, "argument")
  /\ UNCHANGED <<loaders, images, call, host>>

FreeLoader(t, b) ==
  /\ Uses(t, b)
  /\ loaders' = [loaders EXCEPT ![b] = Freed]
  /\ ownLoaders' = ownLoaders \ {b}
  /\ UNCHANGED <<images, call, ownImages, errors>>

(* Mutant of FreeImage: it clears the error, as the fallible functions do. *)
FreeImageClears(t, i) ==
  /\ ~InCall(t)
  /\ i \in ownImages
  /\ images' = images \ {i}
  /\ ownImages' = ownImages \ {i}
  /\ lastError' = [lastError EXCEPT ![t] = Nothing]
  /\ UNCHANGED <<loaders, call, ownLoaders, message, told>>

FreeImage(t, i) ==
  /\ ~InCall(t)
  /\ i \in ownImages
  /\ images' = images \ {i}
  /\ ownImages' = ownImages \ {i}
  /\ UNCHANGED <<loaders, call, ownLoaders, errors>>
-----------------------------------------------------------------------------
(* Settings *)

(* Mutant of SetLimit: the other limits fall back to their defaults. *)
SetLimitFresh(t, b, f, v) ==
  /\ Uses(t, b)
  /\ loaders' = [loaders EXCEPT
       ![b].limits = [[g \in LimitFields |-> Default] EXCEPT ![f] = v]]
  /\ Succeeds(t)
  /\ UNCHANGED <<images, call, host>>

(* glycin_ng_loader_set_max_width and the other limits: current_limits, one
   field, limits. *)
SetLimit(t, b, f, v) ==
  /\ Uses(t, b)
  /\ loaders' = [loaders EXCEPT ![b].limits = [loaders[b].limits EXCEPT ![f] = v]]
  /\ Succeeds(t)
  /\ UNCHANGED <<images, call, host>>

(* glycin_ng_loader_sandbox, _apply_transformations, _render_size_hint *)
SetOption(t, b, o, v) ==
  /\ Uses(t, b)
  /\ loaders' = [loaders EXCEPT ![b].options[o] = v]
  /\ Succeeds(t)
  /\ UNCHANGED <<images, call, host>>

(* glycin_ng_loader_format_hint with constant c, which may be any number. *)
FormatHint(t, b, c) ==
  /\ Uses(t, b)
  /\ c \in KnownFormat
  /\ loaders' = [loaders EXCEPT ![b].format_hint = c]
  /\ Succeeds(t)
  /\ UNCHANGED <<images, call, host>>

(* Mutant of FormatHintFails: the early return forgets the Loader it took. *)
FormatHintFailsEmpty(t, b) ==
  /\ Uses(t, b)
  /\ loaders' = [loaders EXCEPT ![b] = Taken]
  /\ Fails(t, "argument")
  /\ UNCHANGED <<images, call, host>>

(* No format has this constant: the Loader is put back as it was. *)
FormatHintFails(t, b) ==
  /\ Uses(t, b)
  /\ Fails(t, "argument")
  /\ UNCHANGED <<loaders, images, call, host>>

(* A setter, or load, is given NULL. *)
NullHandle(t) ==
  /\ ~InCall(t)
  /\ Fails(t, "argument")
  /\ UNCHANGED <<loaders, images, call, host>>
-----------------------------------------------------------------------------
(* glycin_ng_loader_load *)

(* The call takes the handle from the host and the Loader from the box. *)
Load(t, b) ==
  /\ Uses(t, b)
  /\ call' = [call EXCEPT ![t] =
       [box |-> b, loader |-> loaders[b], format |-> Nothing]]
  /\ loaders' = [loaders EXCEPT ![b] = Taken]
  /\ ownLoaders' = ownLoaders \ {b}
  /\ Succeeds(t)
  /\ UNCHANGED <<images, ownImages>>

(* The call ends: what is left of the handle is dropped. *)
Ends(t) ==
  /\ InCall(t)
  /\ loaders' = [loaders EXCEPT ![call[t].box] = Freed]
  /\ call' = [call EXCEPT ![t] = NoCall]

(* The hint, else the signature, else the extension. *)
Resolved(loader) ==
  IF loader.format_hint # Default THEN loader.format_hint
  ELSE IF detect(loader.file.bytes) # Nothing THEN detect(loader.file.bytes)
  ELSE from_extension(loader.file.extension)

(* The source is read and a decoder is chosen for it. *)
Resolve(t) ==
  /\ InCall(t)
  /\ call[t].format = Nothing
  /\ call[t].loader.file.readable
  /\ Resolved(call[t].loader) # Nothing
  /\ call' = [call EXCEPT ![t].format = Resolved(call[t].loader)]
  /\ UNCHANGED <<loaders, images, host, errors>>

(* Source::read_all fails. *)
ReadFails(t) ==
  /\ Ends(t)
  /\ call[t].format = Nothing
  /\ ~call[t].loader.file.readable
  /\ Fails(t, "load")
  /\ UNCHANGED <<images, host>>

(* Nothing names a format. *)
ResolveFails(t) ==
  /\ Ends(t)
  /\ call[t].format = Nothing
  /\ call[t].loader.file.readable
  /\ Resolved(call[t].loader) = Nothing
  /\ Fails(t, "load")
  /\ UNCHANGED <<images, host>>

(* run_in_worker yields an image, which only the file's own decoder can; it
   goes to the host in a box of its own. *)
DecodeOk(t, i) ==
  /\ Ends(t)
  /\ call[t].format # Nothing
  /\ call[t].format = call[t].loader.file.is
  /\ i \notin images
  /\ images' = images \cup {i}
  /\ ownImages' = ownImages \cup {i}
  /\ Succeeds(t)
  /\ UNCHANGED ownLoaders

(* run_in_worker yields an error; any file may be refused. *)
DecodeFails(t) ==
  /\ Ends(t)
  /\ call[t].format # Nothing
  /\ Fails(t, "load")
  /\ UNCHANGED <<images, host>>
-----------------------------------------------------------------------------
(* glycin_ng_last_error: the thread gets a pointer into its own slot. *)
LastError(t) ==
  /\ ~InCall(t)
  /\ lastError[t] # Nothing
  /\ message' = [message EXCEPT ![t] = lastError[t]]
  /\ UNCHANGED <<loaders, images, call, host, lastError, told>>

(* glycin_ng_clear_last_error *)
ClearLastError(t) ==
  /\ ~InCall(t)
  /\ Succeeds(t)
  /\ UNCHANGED <<loaders, images, call, host>>

Constants == Hints \cup {"unknown"}

OnBox(t, b) ==
  \/ FreeLoader(t, b)
  \/ Load(t, b)
  \/ FormatHintFails(t, b)
  \/ \E file \in Files : New(t, b, file)
  \/ \E f \in LimitFields, v \in Given : SetLimit(t, b, f, v)
  \/ \E o \in Options, v \in Given : SetOption(t, b, o, v)
  \/ \E c \in Constants : FormatHint(t, b, c)

Next ==
  \E t \in Threads :
    \/ \E b \in LoaderBoxes : OnBox(t, b)
    \/ \E i \in ImageBoxes : FreeImage(t, i) \/ DecodeOk(t, i)
    \/ NewFails(t) \/ NullHandle(t)
    \/ Resolve(t) \/ ReadFails(t) \/ ResolveFails(t) \/ DecodeFails(t)
    \/ LastError(t) \/ ClearLastError(t)

Spec == Init /\ [][Next]_vars
-----------------------------------------------------------------------------
(* Properties *)

Call == [box : LoaderBoxes, loader : Loader, format : KnownFormat \cup {Nothing}]

(* Handles hold Loaders whose hint is a known format (not just any number a C
   host passed to glycin_ng_loader_format_hint), calls and slots what they can. *)
HandleTypeOK ==
  /\ loaders \in [LoaderBoxes -> Loader \cup {Freed, Taken}]
  /\ images \subseteq ImageBoxes
  /\ lastError \in [Threads -> Failures \cup {Nothing}]
  /\ call \in [Threads -> Call \cup {NoCall}]
  /\ ownLoaders \subseteq LoaderBoxes
  /\ ownImages \subseteq ImageBoxes
  /\ message \in [Threads -> Failures \cup {Nothing}]
  /\ told \in [Threads -> {"ok", "failed"}]

(* Every box has one owner.  A handle the host may use has a Loader inside, so
   "loader has already been consumed" is never what a host that keeps to the
   contract is told, whatever its earlier calls returned; a box without Loader
   is that of one running load; and boxes nobody owns are freed. *)
EveryBoxHasOneOwner ==
  /\ \A b \in LoaderBoxes :
       /\ b \in ownLoaders <=> loaders[b] \notin {Freed, Taken}
       /\ loaders[b] = Taken <=> \E t \in Threads : InCall(t) /\ call[t].box = b
  /\ \A t, u \in Threads :
       (InCall(t) /\ InCall(u) /\ call[t].box = call[u].box) => t = u
  /\ images = ownImages

(* A thread whose last fallible call failed finds a message, one whose call
   succeeded finds none, and a pointer it got stays valid until its own next
   fallible call, whatever it frees or other threads do meanwhile. *)
MessageIsKept ==
  \A t \in Threads :
    /\ told[t] = "failed" <=> lastError[t] # Nothing
    /\ message[t] # Nothing => message[t] = lastError[t]

(* Setters of any kind, failed calls and other handles in between: a handle is
   decoded with the last value of every setting its host made. *)
BuilderSpec == Builder!Spec

(* "the sniffer hands the file to the TGA decoder via the extension fallback"
   (loader.rs): with no hint, a file of a format without signature is decoded
   as what its extension says. *)
ExtensionNamesUnsigned ==
  \A t \in Threads :
    (/\ InCall(t)
     /\ call[t].format # Nothing
     /\ call[t].loader.format_hint = Default
     /\ call[t].loader.file.is \in Unsigned
     /\ from_extension(call[t].loader.file.extension) = call[t].loader.file.is)
    => call[t].format = call[t].loader.file.is
=============================================================================
