-------------------------- MODULE LoaderHandleProofs --------------------------
(***************************************************************************)
(* Theorems about LoaderHandle, for every value of its constants: handles  *)
(* have one owner, error messages are kept, and the handles implement      *)
(* LoaderBuilder.                                                          *)
(***************************************************************************)
EXTENDS LoaderHandle, TLAPS

(* The boxes and calls alone have their types. *)
BoxesTyped ==
  /\ loaders \in [LoaderBoxes -> Loader \cup {Freed, Taken}]
  /\ call \in [Threads -> Call \cup {NoCall}]
  /\ ownLoaders \subseteq LoaderBoxes

(* A box and its owner, the host or a call, agree. *)
BoxesOwned ==
  /\ \A b \in LoaderBoxes :
       /\ b \in ownLoaders <=> loaders[b] \notin {Freed, Taken}
       /\ loaders[b] = Taken <=> \E t \in Threads : InCall(t) /\ call[t].box = b
  /\ \A t, u \in Threads :
       (InCall(t) /\ InCall(u) /\ call[t].box = call[u].box) => t = u

BoxInv == BoxesTyped /\ BoxesOwned

ImageInv == images \subseteq ImageBoxes /\ images = ownImages

ErrorInv ==
  /\ lastError \in [Threads -> Failures \cup {Nothing}]
  /\ message \in [Threads -> Failures \cup {Nothing}]
  /\ told \in [Threads -> {"ok", "failed"}]
  /\ MessageIsKept

(* The inductive invariant.  That a box the host owns has a Loader inside is
   what types the call that takes it. *)
HInv == BoxInv /\ ImageInv /\ ErrorInv

(* A Loader is no mark of an empty box, a call is not NoCall. *)
LEMMA KindsDiffer ==
  /\ Freed \notin Loader /\ Taken \notin Loader /\ Freed # Taken
  /\ NoCall \notin Call
<1>1. \A l \in Loader : "file" \in DOMAIN l  BY DEF Loader
<1>2. \A c \in Call : "box" \in DOMAIN c  BY DEF Call
<1>3. "file" \notin DOMAIN Freed /\ "file" \notin DOMAIN Taken  BY DEF Freed, Taken
<1>4. "box" \notin DOMAIN NoCall  BY DEF NoCall
<1>5. Freed # Taken  BY DEF Freed, Taken
<1> QED  BY <1>1, <1>2, <1>3, <1>4, <1>5

(* A fresh Loader, and a Loader with one setting changed, is a Loader. *)
LEMMA SettersTyped ==
  ASSUME NEW l \in Loader
  PROVE  /\ \A f \in LimitFields, v \in Given :
              [l EXCEPT !.limits = [l.limits EXCEPT ![f] = v]] \in Loader
         /\ \A o \in Options, v \in Given :
              [l EXCEPT !.options = [l.options EXCEPT ![o] = v]] \in Loader
         /\ \A c \in KnownFormat : [l EXCEPT !.format_hint = c] \in Loader
         /\ \A file \in Files : NewLoader(file) \in Loader
  BY DEF Loader, NewLoader
-----------------------------------------------------------------------------
(* What every action does to the boxes is one of five things. *)

(* Box b gets a Loader, new or changed. *)
Fills(b) ==
  /\ loaders[b] # Taken
  /\ \E l \in Loader : loaders' = [loaders EXCEPT ![b] = l]
  /\ ownLoaders' = ownLoaders \cup {b}
  /\ call' = call

(* Box b is freed by the host. *)
Frees(b) ==
  /\ loaders[b] # Taken
  /\ loaders' = [loaders EXCEPT ![b] = Freed]
  /\ ownLoaders' = ownLoaders \ {b}
  /\ call' = call

(* A call of t takes the Loader of box b. *)
Takes(t, b) ==
  /\ Uses(t, b)
  /\ call' = [call EXCEPT ![t] =
       [box |-> b, loader |-> loaders[b], format |-> Nothing]]
  /\ loaders' = [loaders EXCEPT ![b] = Taken]
  /\ ownLoaders' = ownLoaders \ {b}

(* The call of t has found a decoder. *)
Finds(t) ==
  /\ InCall(t)
  /\ \E f \in KnownFormat : call' = [call EXCEPT ![t].format = f]
  /\ UNCHANGED <<loaders, ownLoaders>>

LeavesBoxes == UNCHANGED <<loaders, call, ownLoaders>>

LEMMA FillsKeeps == ASSUME BoxInv, NEW b \in LoaderBoxes, Fills(b) PROVE BoxInv'
<1>1. PICK l \in Loader : loaders' = [loaders EXCEPT ![b] = l]  BY DEF Fills
<1>2. l # Freed /\ l # Taken  BY KindsDiffer
<1>3. BoxesTyped'  BY <1>1 DEF BoxInv, BoxesTyped, Fills
<1>4. \A t \in Threads : InCall(t)' <=> InCall(t)  BY DEF InCall, Fills
<1>5. BoxesOwned'
  BY <1>1, <1>2, <1>4 DEF BoxInv, BoxesTyped, BoxesOwned, Fills
<1> QED  BY <1>3, <1>5 DEF BoxInv

LEMMA FreesKeeps == ASSUME BoxInv, NEW b \in LoaderBoxes, Frees(b) PROVE BoxInv'
<1>1. BoxesTyped'  BY DEF BoxInv, BoxesTyped, Frees
<1>2. \A t \in Threads : InCall(t)' <=> InCall(t)  BY DEF InCall, Frees
<1>3. BoxesOwned'
  BY <1>2, KindsDiffer DEF BoxInv, BoxesTyped, BoxesOwned, Frees
<1> QED  BY <1>1, <1>3 DEF BoxInv

LEMMA TakesKeeps ==
  ASSUME BoxInv, NEW t \in Threads, NEW b \in LoaderBoxes, Takes(t, b)
  PROVE  BoxInv'
<1> DEFINE c == [box |-> b, loader |-> loaders[b], format |-> Nothing]
<1>1. loaders[b] \in Loader
  BY DEF BoxInv, BoxesTyped, BoxesOwned, Takes, Uses
<1>2. c \in Call /\ c # NoCall  BY <1>1, KindsDiffer DEF Call
<1>3. call' = [call EXCEPT ![t] = c]  BY DEF Takes
<1> HIDE DEF c
<1>4. c.box = b  BY DEF c
<1>5. BoxesTyped'  BY <1>2, <1>3 DEF BoxInv, BoxesTyped, Takes
<1>6. /\ InCall(t)' /\ ~InCall(t) /\ call'[t].box = b
      /\ \A u \in Threads \ {t} : call'[u] = call[u] /\ (InCall(u)' <=> InCall(u))
  BY <1>2, <1>3, <1>4 DEF BoxInv, BoxesTyped, InCall, Takes, Uses
<1>7. \A u \in Threads : InCall(u) => call[u].box # b
  BY DEF BoxInv, BoxesOwned, Takes, Uses
<1>8. BoxesOwned'
  BY <1>6, <1>7, KindsDiffer DEF BoxInv, BoxesTyped, BoxesOwned, Takes
<1> QED  BY <1>5, <1>8 DEF BoxInv

LEMMA FindsKeeps == ASSUME BoxInv, NEW t \in Threads, Finds(t) PROVE BoxInv'
<1>1. PICK f \in KnownFormat : call' = [call EXCEPT ![t].format = f]  BY DEF Finds
<1>2. call[t] \in Call  BY DEF BoxInv, BoxesTyped, Finds, InCall
<1>3. call'[t] \in Call /\ call'[t].box = call[t].box
  BY <1>1, <1>2 DEF BoxInv, BoxesTyped, Call
<1>4. BoxesTyped'  BY <1>1, <1>3 DEF BoxInv, BoxesTyped, Finds
<1>5. \A u \in Threads : (InCall(u)' <=> InCall(u)) /\ call'[u].box = call[u].box
  BY <1>1, <1>2, <1>3, KindsDiffer DEF BoxInv, BoxesTyped, InCall
<1>6. BoxesOwned'  BY <1>5 DEF BoxInv, BoxesOwned, Finds
<1> QED  BY <1>4, <1>6 DEF BoxInv

LEMMA EndsKeeps ==
  ASSUME BoxInv, NEW t \in Threads, Ends(t), ownLoaders' = ownLoaders
  PROVE  BoxInv'
<1>1. call[t] \in Call  BY DEF BoxInv, BoxesTyped, Ends, InCall
<1>2. PICK b \in LoaderBoxes : b = call[t].box  BY <1>1 DEF Call
<1>3. BoxesTyped'  BY DEF BoxInv, BoxesTyped, Ends
<1>4. /\ ~InCall(t)' /\ InCall(t)
      /\ \A u \in Threads \ {t} : call'[u] = call[u] /\ (InCall(u)' <=> InCall(u))
  BY DEF BoxInv, BoxesTyped, InCall, Ends
<1>5. loaders[b] = Taken /\ b \notin ownLoaders
  BY <1>2, <1>4 DEF BoxInv, BoxesOwned
<1>6. loaders' = [loaders EXCEPT ![b] = Freed]  BY <1>2 DEF Ends
<1>7. \A u \in Threads \ {t} : InCall(u) => call[u].box # b
  BY <1>2, <1>4 DEF BoxInv, BoxesOwned
<1>8. \A d \in LoaderBoxes :
        /\ d \in ownLoaders' <=> loaders'[d] \notin {Freed, Taken}
        /\ loaders'[d] = Taken <=> \E u \in Threads : InCall(u)' /\ call'[u].box = d
  BY <1>2, <1>4, <1>5, <1>6, <1>7, KindsDiffer DEF BoxInv, BoxesTyped, BoxesOwned
<1>9. BoxesOwned'  BY <1>4, <1>8 DEF BoxInv, BoxesOwned
<1> QED  BY <1>3, <1>9 DEF BoxInv

LEMMA LeavesKeeps == ASSUME BoxInv, LeavesBoxes PROVE BoxInv'
  BY DEF BoxInv, BoxesTyped, BoxesOwned, InCall, LeavesBoxes
-----------------------------------------------------------------------------
(* The images, and the errors *)

(* The pointers that threads read stay those of their last error: a call sets
   both for its own thread, and nothing else touches them. *)
LEMMA ErrorsKept ==
  ASSUME ErrorInv, NEW t \in Threads,
         \/ Succeeds(t)
         \/ \E e \in Failures : Fails(t, e)
         \/ UNCHANGED errors
         \/ /\ lastError[t] # Nothing
            /\ message' = [message EXCEPT ![t] = lastError[t]]
            /\ UNCHANGED <<lastError, told>>
  PROVE  ErrorInv'
<1>1. Nothing \notin Failures  BY DEF Nothing, Failures
<1>2. CASE Succeeds(t)
  BY <1>2 DEF ErrorInv, MessageIsKept, Succeeds
<1>3. CASE \E e \in Failures : Fails(t, e)
  BY <1>1, <1>3 DEF ErrorInv, MessageIsKept, Fails
<1>4. CASE UNCHANGED errors
  BY <1>4 DEF ErrorInv, MessageIsKept, errors
<1>5. CASE /\ lastError[t] # Nothing
           /\ message' = [message EXCEPT ![t] = lastError[t]]
           /\ UNCHANGED <<lastError, told>>
  BY <1>5 DEF ErrorInv, MessageIsKept
<1> QED  BY <1>2, <1>3, <1>4, <1>5

(* Every action of thread t is one of the cases above. *)
LEMMA NewCase ==
  ASSUME NEW t \in Threads, NEW b \in LoaderBoxes, NEW file \in Files,
         New(t, b, file)
  PROVE  Fills(b) /\ UNCHANGED <<images, ownImages>>
<1>1. NewLoader(file) \in Loader  BY DEF NewLoader, Loader
<1>2. Freed # Taken  BY KindsDiffer
<1> QED  BY <1>1, <1>2 DEF New, Fills

LEMMA SettersFill ==
  ASSUME BoxInv, NEW t \in Threads, NEW b \in LoaderBoxes, Uses(t, b),
         \/ \E f \in LimitFields, v \in Given : SetLimit(t, b, f, v)
         \/ \E o \in Options, v \in Given : SetOption(t, b, o, v)
         \/ \E c \in Constants : FormatHint(t, b, c)
  PROVE  Fills(b) /\ UNCHANGED <<images, ownImages>> /\ Succeeds(t)
<1>1. loaders[b] \in Loader /\ loaders[b] # Taken
  BY DEF BoxInv, BoxesTyped, BoxesOwned, Uses
<1>2. ownLoaders \cup {b} = ownLoaders  BY DEF Uses
<1>3. CASE \E f \in LimitFields, v \in Given : SetLimit(t, b, f, v)
  <2>1. PICK f \in LimitFields, v \in Given : SetLimit(t, b, f, v)  BY <1>3
  <2>2. loaders' = [loaders EXCEPT ![b] =
          [loaders[b] EXCEPT !.limits = [loaders[b].limits EXCEPT ![f] = v]]]
    BY <2>1 DEF SetLimit
  <2> QED  BY <1>1, <1>2, <2>1, <2>2, SettersTyped DEF Fills, SetLimit, host
<1>4. CASE \E o \in Options, v \in Given : SetOption(t, b, o, v)
  <2>1. PICK o \in Options, v \in Given : SetOption(t, b, o, v)  BY <1>4
  <2>2. loaders' = [loaders EXCEPT ![b] =
          [loaders[b] EXCEPT !.options = [loaders[b].options EXCEPT ![o] = v]]]
    BY <2>1 DEF SetOption
  <2> QED  BY <1>1, <1>2, <2>1, <2>2, SettersTyped DEF Fills, SetOption, host
<1>5. CASE \E c \in Constants : FormatHint(t, b, c)
  <2>1. PICK c \in KnownFormat : FormatHint(t, b, c)  BY <1>5 DEF FormatHint
  <2>2. loaders' = [loaders EXCEPT ![b] = [loaders[b] EXCEPT !.format_hint = c]]
    BY <2>1 DEF FormatHint
  <2> QED  BY <1>1, <1>2, <2>1, <2>2, SettersTyped DEF Fills, FormatHint, host
<1> QED  BY <1>3, <1>4, <1>5

(* Bytes and extensions name known formats or none. *)
LEMMA NamesAreKnown ==
  /\ \A buf : detect(buf) \in KnownFormat \cup {Nothing}
  /\ \A ext : from_extension(ext) \in KnownFormat \cup {Nothing}
<1>1. \A table, name : Lookup(table, name) \in KnownFormat \cup {Nothing}
  BY DEF Lookup
<1>2. ASSUME NEW buf  PROVE detect(buf) \in KnownFormat \cup {Nothing}
  <2>1. CASE is_webp(buf) \/ is_bmp(buf) \/ is_pnm(buf) \/ looks_like_svg(buf)
    BY <2>1 DEF detect, KnownFormat
  <2>2. CASE ~(is_webp(buf) \/ is_bmp(buf) \/ is_pnm(buf) \/ looks_like_svg(buf))
    BY <1>1, <2>2 DEF detect
  <2> QED  BY <2>1, <2>2
<1> QED  BY <1>1, <1>2 DEF from_extension

(* The format that a decoder is chosen for has a decoder. *)
LEMMA ResolvedIsKnown ==
  ASSUME NEW l \in Loader, Resolved(l) # Nothing
  PROVE  Resolved(l) \in KnownFormat
<1>1. l.format_hint \in KnownFormat \cup {Default}  BY DEF Loader
<1> QED  BY <1>1, NamesAreKnown DEF Resolved
-----------------------------------------------------------------------------
LEMMA Initially == Init => HInv
<1>1. Freed # Taken /\ Freed # NoCall  BY KindsDiffer DEF Freed, NoCall
<1> QED
  BY <1>1 DEF Init, HInv, BoxInv, BoxesTyped, BoxesOwned, ImageInv, ErrorInv,
              MessageIsKept, InCall

(* Functions on loader handles and boxes keep the invariant. *)
LEMMA OnBoxKeeps ==
  ASSUME HInv, NEW t \in Threads, NEW b \in LoaderBoxes, OnBox(t, b)
  PROVE  HInv'
<1> USE DEF HInv, host
<1>1. CASE FreeLoader(t, b)
  <2>1. Frees(b)  BY <1>1 DEF FreeLoader, Frees, Uses
  <2>2. ImageInv' /\ UNCHANGED errors  BY <1>1 DEF FreeLoader, ImageInv
  <2> QED  BY <2>1, <2>2, FreesKeeps, ErrorsKept
<1>2. CASE Load(t, b)
  <2>1. Takes(t, b)  BY <1>2 DEF Load, Takes
  <2>2. ImageInv' /\ Succeeds(t)  BY <1>2 DEF Load, ImageInv
  <2> QED  BY <2>1, <2>2, TakesKeeps, ErrorsKept
<1>3. CASE FormatHintFails(t, b)
  <2>1. LeavesBoxes /\ ImageInv'  BY <1>3 DEF FormatHintFails, LeavesBoxes, ImageInv
  <2>2. \E e \in Failures : Fails(t, e)  BY <1>3 DEF FormatHintFails, Failures
  <2> QED  BY <2>1, <2>2, LeavesKeeps, ErrorsKept
<1>4. CASE \E file \in Files : New(t, b, file)
  <2>1. PICK file \in Files : New(t, b, file)  BY <1>4
  <2>2. Fills(b) /\ ImageInv'  BY <2>1, NewCase DEF ImageInv
  <2>3. Succeeds(t)  BY <2>1 DEF New
  <2> QED  BY <2>2, <2>3, FillsKeeps, ErrorsKept
<1>5. CASE \/ \E f \in LimitFields, v \in Given : SetLimit(t, b, f, v)
           \/ \E o \in Options, v \in Given : SetOption(t, b, o, v)
           \/ \E c \in Constants : FormatHint(t, b, c)
  <2>1. Uses(t, b)  BY <1>5 DEF SetLimit, SetOption, FormatHint
  <2>2. Fills(b) /\ UNCHANGED <<images, ownImages>> /\ Succeeds(t)
    BY <1>5, <2>1, SettersFill
  <2> QED  BY <2>2, FillsKeeps, ErrorsKept DEF ImageInv
<1> QED  BY <1>1, <1>2, <1>3, <1>4, <1>5 DEF OnBox

(* The steps of a running load keep it. *)
LEMMA LoadKeeps ==
  ASSUME HInv, NEW t \in Threads,
         \/ Resolve(t) \/ ReadFails(t) \/ ResolveFails(t) \/ DecodeFails(t)
         \/ \E i \in ImageBoxes : DecodeOk(t, i)
  PROVE  HInv'
<1> USE DEF HInv, host
<1>1. CASE Resolve(t)
  <2>1. call[t] \in Call  BY <1>1 DEF Resolve, InCall, BoxInv, BoxesTyped
  <2>2. Resolved(call[t].loader) \in KnownFormat
    BY <1>1, <2>1, ResolvedIsKnown DEF Resolve, Call
  <2>3. Finds(t) /\ ImageInv' /\ UNCHANGED errors
    BY <1>1, <2>2 DEF Resolve, Finds, ImageInv
  <2> QED  BY <2>3, FindsKeeps, ErrorsKept
<1>2. CASE ReadFails(t) \/ ResolveFails(t) \/ DecodeFails(t)
  <2>1. Ends(t) /\ ownLoaders' = ownLoaders /\ ImageInv'
    BY <1>2 DEF ReadFails, ResolveFails, DecodeFails, ImageInv
  <2>2. \E e \in Failures : Fails(t, e)
    BY <1>2 DEF ReadFails, ResolveFails, DecodeFails, Failures
  <2> QED  BY <2>1, <2>2, EndsKeeps, ErrorsKept
<1>3. CASE \E i \in ImageBoxes : DecodeOk(t, i)
  <2>1. Ends(t) /\ ownLoaders' = ownLoaders /\ ImageInv' /\ Succeeds(t)
    BY <1>3 DEF DecodeOk, ImageInv
  <2> QED  BY <2>1, EndsKeeps, ErrorsKept
<1> QED  BY <1>1, <1>2, <1>3

(* The other functions keep it. *)
LEMMA OthersKeep ==
  ASSUME HInv, NEW t \in Threads,
         \/ NewFails(t) \/ NullHandle(t) \/ LastError(t) \/ ClearLastError(t)
         \/ \E i \in ImageBoxes : FreeImage(t, i)
  PROVE  HInv'
<1> USE DEF HInv, host
<1>1. LeavesBoxes
  BY DEF LeavesBoxes, NewFails, NullHandle, LastError, ClearLastError, FreeImage
<1>2. ImageInv'
  BY DEF ImageInv, NewFails, NullHandle, LastError, ClearLastError, FreeImage
<1>3. ErrorInv'
  <2>1. CASE NewFails(t) \/ NullHandle(t)
    BY <2>1, ErrorsKept DEF NewFails, NullHandle, Failures
  <2>2. CASE LastError(t)
    BY <2>2, ErrorsKept DEF LastError
  <2>3. CASE ClearLastError(t)
    BY <2>3, ErrorsKept DEF ClearLastError
  <2>4. CASE \E i \in ImageBoxes : FreeImage(t, i)
    BY <2>4, ErrorsKept DEF FreeImage
  <2> QED  BY <2>1, <2>2, <2>3, <2>4
<1> QED  BY <1>1, <1>2, <1>3, LeavesKeeps

(* The invariant is inductive: it holds in every reachable state. *)
THEOREM HandleInductive == Spec => []HInv
<1>1. ASSUME HInv, [Next]_vars PROVE HInv'
  <2>1. CASE UNCHANGED vars
    BY <1>1, <2>1 DEF vars, HInv, BoxInv, BoxesTyped, BoxesOwned, InCall, ImageInv,
                      ErrorInv, MessageIsKept
  <2>2. CASE Next
    BY <1>1, <2>2, OnBoxKeeps, LoadKeeps, OthersKeep DEF Next
  <2> QED  BY <1>1, <2>1, <2>2
<1> QED  BY Initially, <1>1, PTL DEF Spec

(* Loaders, calls and slots have their types: the hint of a Loader is a known
   format, whatever constants the host passed. *)
THEOREM HandleTypeCorrect == Spec => []HandleTypeOK
<1>1. HInv => HandleTypeOK
  BY DEF HInv, BoxInv, BoxesTyped, ImageInv, ErrorInv, HandleTypeOK
<1> QED  BY <1>1, HandleInductive, PTL

(* The host never meets an emptied handle, two loads never share a box, and no
   box is lost. *)
THEOREM OwnershipCorrect == Spec => []EveryBoxHasOneOwner
<1>1. HInv => EveryBoxHasOneOwner
  BY DEF HInv, BoxInv, BoxesOwned, ImageInv, EveryBoxHasOneOwner
<1> QED  BY <1>1, HandleInductive, PTL

(* A failure leaves a message on its thread, a success none, and a pointer to it
   lasts until the thread's next fallible call. *)
THEOREM MessageCorrect == Spec => []MessageIsKept
<1>1. HInv => MessageIsKept  BY DEF HInv, ErrorInv
<1> QED  BY <1>1, HandleInductive, PTL
-----------------------------------------------------------------------------
(* Handles implement LoaderBuilder.  Shown and Decoding are its variables. *)

NoConfig == [kind |-> "none"]

Shown ==
  [b \in LoaderBoxes |->
     IF loaders[b] \in {Freed, Taken} THEN NoConfig ELSE Config(loaders[b])]

Decoding ==
  [t \in Threads |-> IF InCall(t) THEN Config(call[t].loader) ELSE NoConfig]

AllSettings == LimitFields \cup Options \cup {"format_hint"}

LEMMA ConfigIsSome == \A l : Config(l) # NoConfig
<1>1. \A l : "file" \in DOMAIN Config(l)  BY DEF Config
<1>2. "file" \notin DOMAIN NoConfig  BY DEF NoConfig
<1> QED  BY <1>1, <1>2

(* A Loader that differs in one setting has a configuration that does. *)
LEMMA ConfigFollows ==
  ASSUME NEW l \in Loader, NEW m \in Loader, NEW s \in AllSettings, NEW v,
         m.file = l.file,
         \A f \in LimitFields : m.limits[f] = IF f = s THEN v ELSE l.limits[f],
         \A o \in Options : m.options[o] = IF o = s THEN v ELSE l.options[o],
         m.format_hint = IF s = "format_hint" THEN v ELSE l.format_hint
  PROVE  Config(m) = [Config(l) EXCEPT !.set = [Config(l).set EXCEPT ![s] = v]]
<1>1. \A r \in AllSettings :
        Config(m).set[r] = IF r = s THEN v ELSE Config(l).set[r]
  BY HandleAssumption DEF Config, AllSettings
<1>2. /\ Config(l).set = [r \in AllSettings |-> Config(l).set[r]]
      /\ Config(m).set = [r \in AllSettings |-> Config(m).set[r]]
  BY DEF Config, AllSettings
<1>3. Config(m).set = [Config(l).set EXCEPT ![s] = v]  BY <1>1, <1>2
<1>4. /\ Config(l) = [file |-> l.file, set |-> Config(l).set]
      /\ Config(m) = [file |-> m.file, set |-> Config(m).set]
  BY DEF Config
<1> QED  BY <1>3, <1>4

(* A setter changes the one setting it is named for. *)
LEMMA OneSettingChanges ==
  ASSUME NEW l \in Loader
  PROVE  /\ \A f \in LimitFields, v \in Given :
              Config([l EXCEPT !.limits = [l.limits EXCEPT ![f] = v]])
                = [Config(l) EXCEPT !.set = [Config(l).set EXCEPT ![f] = v]]
         /\ \A o \in Options, v \in Given :
              Config([l EXCEPT !.options = [l.options EXCEPT ![o] = v]])
                = [Config(l) EXCEPT !.set = [Config(l).set EXCEPT ![o] = v]]
         /\ \A c \in KnownFormat :
              Config([l EXCEPT !.format_hint = c])
                = [Config(l) EXCEPT !.set = [Config(l).set EXCEPT !["format_hint"] = c]]
<1> USE HandleAssumption, SettersTyped, ConfigFollows
<1>1. ASSUME NEW f \in LimitFields, NEW v \in Given
      PROVE  Config([l EXCEPT !.limits = [l.limits EXCEPT ![f] = v]])
                = [Config(l) EXCEPT !.set = [Config(l).set EXCEPT ![f] = v]]
  <2> DEFINE m == [l EXCEPT !.limits = [l.limits EXCEPT ![f] = v]]
  <2>1. m \in Loader  BY <1>1
  <2>2. /\ m.file = l.file /\ m.options = l.options /\ m.format_hint = l.format_hint
        /\ \A r \in LimitFields : m.limits[r] = IF r = f THEN v ELSE l.limits[r]
    BY DEF Loader
  <2>3. f \notin Options /\ f # "format_hint" /\ f \in AllSettings  BY DEF AllSettings
  <2> HIDE DEF m
  <2>4. Config(m) = [Config(l) EXCEPT !.set = [Config(l).set EXCEPT ![f] = v]]
    BY <2>1, <2>2, <2>3
  <2> QED  BY <2>4 DEF m
<1>2. ASSUME NEW o \in Options, NEW v \in Given
      PROVE  Config([l EXCEPT !.options = [l.options EXCEPT ![o] = v]])
                = [Config(l) EXCEPT !.set = [Config(l).set EXCEPT ![o] = v]]
  <2> DEFINE m == [l EXCEPT !.options = [l.options EXCEPT ![o] = v]]
  <2>1. m \in Loader  BY <1>2
  <2>2. /\ m.file = l.file /\ m.limits = l.limits /\ m.format_hint = l.format_hint
        /\ \A r \in Options : m.options[r] = IF r = o THEN v ELSE l.options[r]
    BY DEF Loader
  <2>3. o \notin LimitFields /\ o # "format_hint" /\ o \in AllSettings  BY DEF AllSettings
  <2> HIDE DEF m
  <2>4. Config(m) = [Config(l) EXCEPT !.set = [Config(l).set EXCEPT ![o] = v]]
    BY <2>1, <2>2, <2>3
  <2> QED  BY <2>4 DEF m
<1>3. ASSUME NEW c \in KnownFormat
      PROVE  Config([l EXCEPT !.format_hint = c])
                = [Config(l) EXCEPT !.set = [Config(l).set EXCEPT !["format_hint"] = c]]
  <2> DEFINE m == [l EXCEPT !.format_hint = c]
  <2>1. m \in Loader  BY <1>3
  <2>2. /\ m.file = l.file /\ m.limits = l.limits /\ m.options = l.options
        /\ m.format_hint = c
    BY DEF Loader
  <2>3. "format_hint" \notin LimitFields \cup Options /\ "format_hint" \in AllSettings
    BY DEF AllSettings
  <2> HIDE DEF m
  <2>4. Config(m) = [Config(l) EXCEPT !.set = [Config(l).set EXCEPT !["format_hint"] = c]]
    BY <2>1, <2>2, <2>3
  <2> QED  BY <2>4 DEF m
<1> QED  BY <1>1, <1>2, <1>3

(* When a box is filled, freed or emptied, the builder's handle follows. *)
LEMMA ShownFollows ==
  ASSUME BoxInv, NEW b \in LoaderBoxes
  PROVE  /\ \A l \in Loader : loaders' = [loaders EXCEPT ![b] = l]
              => Shown' = [Shown EXCEPT ![b] = Config(l)]
         /\ \A mark \in {Freed, Taken} : loaders' = [loaders EXCEPT ![b] = mark]
              => Shown' = [Shown EXCEPT ![b] = NoConfig]
  BY KindsDiffer DEF BoxInv, BoxesTyped, Shown

LEMMA DecodingStays ==
  ASSUME call' = call
  PROVE  Decoding' = Decoding
  BY DEF Decoding, InCall

LEMMA CreateMaps ==
  ASSUME BoxInv, NEW t \in Threads, NEW b \in LoaderBoxes, NEW file \in Files,
         New(t, b, file)
  PROVE  Builder!Create(b)
<1>1. Shown[b] = NoConfig  BY DEF New, Shown
<1>2. NewLoader(file) \in Loader  BY DEF NewLoader, Loader
<1>3. Config(NewLoader(file)) = Builder!Fresh(file)
  BY HandleAssumption DEF Config, NewLoader, Builder!Fresh, Builder!Default, Default
<1>4. Shown' = [Shown EXCEPT ![b] = Builder!Fresh(file)]
  BY <1>2, <1>3, ShownFollows DEF New
<1>5. Decoding' = Decoding  BY DecodingStays DEF New
<1> QED
  BY <1>1, <1>4, <1>5
  DEF Builder!Create, Builder!NoConfig, Shown, Decoding, NoConfig

LEMMA SetMaps ==
  ASSUME BoxInv, NEW t \in Threads, NEW b \in LoaderBoxes,
         \/ \E f \in LimitFields, v \in Given : SetLimit(t, b, f, v)
         \/ \E o \in Options, v \in Given : SetOption(t, b, o, v)
         \/ \E c \in Constants : FormatHint(t, b, c)
  PROVE  Builder!Set(b)
<1> DEFINE Sets(s, v) ==
      Shown' = [Shown EXCEPT ![b] =
        [Config(loaders[b]) EXCEPT !.set = [Config(loaders[b]).set EXCEPT ![s] = v]]]
<1>1. Uses(t, b)  BY DEF SetLimit, SetOption, FormatHint
<1>2. loaders[b] \in Loader  BY <1>1 DEF BoxInv, BoxesTyped, BoxesOwned, Uses
<1>3. Shown[b] = Config(loaders[b]) /\ Shown[b] # NoConfig
  BY <1>2, KindsDiffer, ConfigIsSome DEF Shown
<1>4. \E s \in AllSettings, v \in Given \cup Hints : Sets(s, v)
  <2>1. CASE \E f \in LimitFields, v \in Given : SetLimit(t, b, f, v)
    <3>1. PICK f \in LimitFields, v \in Given : SetLimit(t, b, f, v)  BY <2>1
    <3>2. loaders' = [loaders EXCEPT ![b] =
            [loaders[b] EXCEPT !.limits = [loaders[b].limits EXCEPT ![f] = v]]]
      BY <3>1 DEF SetLimit
    <3>3. [loaders[b] EXCEPT !.limits = [loaders[b].limits EXCEPT ![f] = v]] \in Loader
      BY <1>2, SettersTyped
    <3>4. Config([loaders[b] EXCEPT !.limits = [loaders[b].limits EXCEPT ![f] = v]])
            = [Config(loaders[b]) EXCEPT !.set =
                 [Config(loaders[b]).set EXCEPT ![f] = v]]
      BY <1>2, OneSettingChanges
    <3>5. Sets(f, v)  BY <3>2, <3>3, <3>4, ShownFollows
    <3> QED  BY <3>5 DEF AllSettings
  <2>2. CASE \E o \in Options, v \in Given : SetOption(t, b, o, v)
    <3>1. PICK o \in Options, v \in Given : SetOption(t, b, o, v)  BY <2>2
    <3>2. loaders' = [loaders EXCEPT ![b] =
            [loaders[b] EXCEPT !.options = [loaders[b].options EXCEPT ![o] = v]]]
      BY <3>1 DEF SetOption
    <3>3. [loaders[b] EXCEPT !.options = [loaders[b].options EXCEPT ![o] = v]] \in Loader
      BY <1>2, SettersTyped
    <3>4. Config([loaders[b] EXCEPT !.options = [loaders[b].options EXCEPT ![o] = v]])
            = [Config(loaders[b]) EXCEPT !.set =
                 [Config(loaders[b]).set EXCEPT ![o] = v]]
      BY <1>2, OneSettingChanges
    <3>5. Sets(o, v)  BY <3>2, <3>3, <3>4, ShownFollows
    <3> QED  BY <3>5 DEF AllSettings
  <2>3. CASE \E c \in Constants : FormatHint(t, b, c)
    <3>1. PICK c \in Hints : FormatHint(t, b, c)
      BY <2>3 DEF FormatHint, Constants, KnownFormat
    <3>. c \in KnownFormat  BY HandleAssumption
    <3>2. loaders' = [loaders EXCEPT ![b] = [loaders[b] EXCEPT !.format_hint = c]]
      BY <3>1 DEF FormatHint
    <3>3. [loaders[b] EXCEPT !.format_hint = c] \in Loader
      BY <1>2, SettersTyped
    <3>4. Config([loaders[b] EXCEPT !.format_hint = c])
            = [Config(loaders[b]) EXCEPT !.set =
                 [Config(loaders[b]).set EXCEPT !["format_hint"] = c]]
      BY <1>2, OneSettingChanges
    <3>5. Sets("format_hint", c)  BY <3>2, <3>3, <3>4, ShownFollows
    <3> QED  BY <3>5 DEF AllSettings
  <2> QED  BY <2>1, <2>2, <2>3
<1>5. Decoding' = Decoding
  BY DecodingStays DEF SetLimit, SetOption, FormatHint
<1>6. PICK s \in AllSettings, v \in Given \cup Hints : Sets(s, v)  BY <1>4
<1>7. Shown' = [Shown EXCEPT ![b] =
        [Shown[b] EXCEPT !.set = [Shown[b].set EXCEPT ![s] = v]]]
  BY <1>3, <1>6
<1> QED
  BY <1>3, <1>5, <1>7
  DEF Builder!Set, Builder!NoConfig, Shown, Decoding, NoConfig, AllSettings

LEMMA FreeMaps ==
  ASSUME BoxInv, NEW t \in Threads, NEW b \in LoaderBoxes, FreeLoader(t, b)
  PROVE  Builder!Free(b)
<1>1. loaders[b] \in Loader
  BY DEF BoxInv, BoxesTyped, BoxesOwned, FreeLoader, Uses
<1>2. Shown[b] # NoConfig  BY <1>1, KindsDiffer, ConfigIsSome DEF Shown
<1>3. Shown' = [Shown EXCEPT ![b] = NoConfig]  BY ShownFollows DEF FreeLoader
<1>4. Decoding' = Decoding  BY DecodingStays DEF FreeLoader
<1> QED
  BY <1>2, <1>3, <1>4 DEF Builder!Free, Builder!NoConfig, Shown, Decoding, NoConfig

LEMMA LoadMaps ==
  ASSUME BoxInv, NEW t \in Threads, NEW b \in LoaderBoxes, Load(t, b)
  PROVE  Builder!Decode(t, b)
<1> DEFINE c == [box |-> b, loader |-> loaders[b], format |-> Nothing]
<1>1. loaders[b] \in Loader /\ ~InCall(t)
  BY DEF BoxInv, BoxesTyped, BoxesOwned, Load, Uses
<1>2. Shown[b] = Config(loaders[b]) /\ Shown[b] # NoConfig
  BY <1>1, KindsDiffer, ConfigIsSome DEF Shown
<1>3. Decoding[t] = NoConfig  BY <1>1 DEF Decoding
<1>4. Shown' = [Shown EXCEPT ![b] = NoConfig]  BY ShownFollows DEF Load
<1>5. c \in Call /\ c # NoCall /\ c.loader = loaders[b]
  BY <1>1, KindsDiffer DEF Call
<1>6. call' = [call EXCEPT ![t] = c]  BY DEF Load
<1> HIDE DEF c
<1>7. Decoding' = [Decoding EXCEPT ![t] = Shown[b]]
  BY <1>2, <1>5, <1>6 DEF Decoding, InCall, BoxInv, BoxesTyped
<1> QED
  BY <1>2, <1>3, <1>4, <1>7
  DEF Builder!Decode, Builder!NoConfig, Shown, Decoding, NoConfig

(* Choosing a decoder is invisible. *)
LEMMA ResolveStutters ==
  ASSUME BoxInv, NEW t \in Threads, Resolve(t)
  PROVE  Shown' = Shown /\ Decoding' = Decoding
<1>1. call[t] \in Call /\ InCall(t)  BY DEF BoxInv, BoxesTyped, Resolve, InCall
<1> DEFINE c == [call[t] EXCEPT !.format = Resolved(call[t].loader)]
<1>2. "box" \in DOMAIN c /\ c.loader = call[t].loader  BY <1>1 DEF Call
<1>3. c # NoCall  BY <1>2 DEF NoCall
<1>4. call' = [call EXCEPT ![t] = c]  BY DEF Resolve
<1> HIDE DEF c
<1>5. Decoding' = Decoding
  BY <1>1, <1>2, <1>3, <1>4 DEF Decoding, InCall, BoxInv, BoxesTyped
<1> QED  BY <1>5 DEF Resolve, Shown

LEMMA EndsMaps ==
  ASSUME BoxInv, NEW t \in Threads, Ends(t)
  PROVE  Builder!Finish(t)
<1>1. call[t] \in Call  BY DEF BoxInv, BoxesTyped, Ends, InCall
<1>2. PICK b \in LoaderBoxes : b = call[t].box  BY <1>1 DEF Call
<1>3. loaders[b] = Taken  BY <1>2 DEF BoxInv, BoxesOwned, Ends
<1>4. Shown' = [Shown EXCEPT ![b] = NoConfig]  BY <1>2, ShownFollows DEF Ends
<1>5. Shown' = Shown  BY <1>3, <1>4 DEF Shown
<1>6. Decoding' = [Decoding EXCEPT ![t] = NoConfig]
  BY DEF Decoding, InCall, Ends, BoxInv, BoxesTyped
<1> QED
  BY <1>5, <1>6 DEF Builder!Finish, Builder!NoConfig, Shown, Decoding, NoConfig

(* A handle is decoded with the last value of every setting its host made, and
   calls that fail change nothing: the handles implement LoaderBuilder. *)
THEOREM HandleImplementsBuilder == Spec => BuilderSpec
<1>1. Init => Builder!Init
  BY KindsDiffer DEF Init, Builder!Init, Builder!NoConfig, InCall
<1>2. ASSUME HInv, [Next]_vars
      PROVE  [Builder!Next]_Builder!builderVars
  <2>1. BoxInv  BY <1>2 DEF HInv
  <2>2. ASSUME Shown' = Shown, Decoding' = Decoding
        PROVE  UNCHANGED Builder!builderVars
    BY <2>2 DEF Builder!builderVars, Shown, Decoding, NoConfig
  <2>3. CASE UNCHANGED vars
    BY <2>2, <2>3 DEF vars, Shown, Decoding, InCall
  <2>4. ASSUME NEW t \in Threads, NEW b \in LoaderBoxes, OnBox(t, b)
        PROVE  [Builder!Next]_Builder!builderVars
    <3>1. CASE FreeLoader(t, b)
      BY <2>1, <3>1, FreeMaps DEF Builder!Next
    <3>2. CASE Load(t, b)
      BY <2>1, <3>2, LoadMaps DEF Builder!Next
    <3>3. CASE FormatHintFails(t, b)
      BY <2>2, <3>3 DEF FormatHintFails, Shown, Decoding, InCall
    <3>4. CASE \E file \in Files : New(t, b, file)
      BY <2>1, <3>4, CreateMaps DEF Builder!Next
    <3>5. CASE \/ \E f \in LimitFields, v \in Given : SetLimit(t, b, f, v)
               \/ \E o \in Options, v \in Given : SetOption(t, b, o, v)
               \/ \E c \in Constants : FormatHint(t, b, c)
      BY <2>1, <3>5, SetMaps DEF Builder!Next
    <3> QED  BY <2>4, <3>1, <3>2, <3>3, <3>4, <3>5 DEF OnBox
  <2>5. ASSUME NEW t \in Threads,
               \/ ReadFails(t) \/ ResolveFails(t) \/ DecodeFails(t)
               \/ \E i \in ImageBoxes : DecodeOk(t, i)
        PROVE  [Builder!Next]_Builder!builderVars
    <3>1. Ends(t)  BY <2>5 DEF ReadFails, ResolveFails, DecodeFails, DecodeOk
    <3> QED  BY <2>1, <3>1, EndsMaps DEF Builder!Next
  <2>6. ASSUME NEW t \in Threads,
               \/ NewFails(t) \/ NullHandle(t) \/ LastError(t) \/ ClearLastError(t)
               \/ \E i \in ImageBoxes : FreeImage(t, i)
        PROVE  [Builder!Next]_Builder!builderVars
    <3>1. Shown' = Shown /\ Decoding' = Decoding
      BY <2>6 DEF NewFails, NullHandle, LastError, ClearLastError, FreeImage,
                  Shown, Decoding, InCall
    <3> QED  BY <2>2, <3>1
  <2>7. ASSUME NEW t \in Threads, Resolve(t)
        PROVE  [Builder!Next]_Builder!builderVars
    BY <2>1, <2>2, <2>7, ResolveStutters
  <2> QED  BY <1>2, <2>3, <2>4, <2>5, <2>6, <2>7 DEF Next
<1> QED
  BY <1>1, <1>2, HandleInductive, PTL DEF Spec, BuilderSpec, Builder!Spec-----------------------------------------------------------------------------
(* Which decoder a file gets. *)

(* A decode goes by the hint, else the signature, else the extension that its own
   Loader has. *)
GoesByItsLoader ==
  \A t \in Threads :
    InCall(t) => call[t].format \in {Nothing, Resolved(call[t].loader)}

(* A call begins without a format and is given one at most, and what other threads
   do to their boxes leaves it alone. *)
LEMMA FormatStep ==
  ASSUME HInv, GoesByItsLoader, [Next]_vars
  PROVE  GoesByItsLoader'
<1>1. call \in [Threads -> Call \cup {NoCall}]
  BY DEF HInv, BoxInv, BoxesTyped
<1>2. CASE call' = call
  BY <1>2 DEF GoesByItsLoader, InCall
<1>3. ASSUME NEW t \in Threads, NEW b \in LoaderBoxes, Load(t, b)
      PROVE  GoesByItsLoader'
  <2>1. call'[t].format = Nothing
        /\ \A u \in Threads \ {t} : call'[u] = call[u]
    BY <1>1, <1>3 DEF Load
  <2> QED
    BY <2>1 DEF GoesByItsLoader, InCall
<1>4. ASSUME NEW t \in Threads, Ends(t)
      PROVE  GoesByItsLoader'
  <2>1. call'[t] = NoCall /\ \A u \in Threads \ {t} : call'[u] = call[u]
    BY <1>1, <1>4 DEF Ends
  <2> QED
    BY <2>1 DEF GoesByItsLoader, InCall
<1>5. ASSUME NEW t \in Threads, Resolve(t)
      PROVE  GoesByItsLoader'
  <2>1. call[t] \in Call
    BY <1>1, <1>5 DEF Resolve, InCall
  <2>2. /\ call'[t].format = Resolved(call[t].loader) /\ call'[t].loader = call[t].loader
        /\ \A u \in Threads \ {t} : call'[u] = call[u]
    BY <1>1, <1>5, <2>1 DEF Resolve, Call
  <2> QED
    BY <2>2 DEF GoesByItsLoader, InCall
<1>6. CASE UNCHANGED vars
  BY <1>2, <1>6 DEF vars
<1>7. CASE Next
  <2>1. PICK t \in Threads :
          \/ \E b \in LoaderBoxes : OnBox(t, b)
          \/ \E i \in ImageBoxes : FreeImage(t, i) \/ DecodeOk(t, i)
          \/ NewFails(t) \/ NullHandle(t)
          \/ Resolve(t) \/ ReadFails(t) \/ ResolveFails(t) \/ DecodeFails(t)
          \/ LastError(t) \/ ClearLastError(t)
    BY <1>7 DEF Next
  <2>2. ASSUME NEW b \in LoaderBoxes, OnBox(t, b) PROVE call' = call \/ Load(t, b)
    BY <2>2 DEF OnBox, FreeLoader, FormatHintFails, New, SetLimit, SetOption, FormatHint
  <2>3. ASSUME NEW i \in ImageBoxes, FreeImage(t, i) \/ DecodeOk(t, i)
        PROVE  call' = call \/ Ends(t)
    BY <2>3 DEF FreeImage, DecodeOk
  <2>4. ReadFails(t) \/ ResolveFails(t) \/ DecodeFails(t) => Ends(t)
    BY DEF ReadFails, ResolveFails, DecodeFails
  <2>5. NewFails(t) \/ NullHandle(t) \/ LastError(t) \/ ClearLastError(t) => call' = call
    BY DEF NewFails, NullHandle, LastError, ClearLastError
  <2> QED
    BY <1>2, <1>3, <1>4, <1>5, <2>1, <2>2, <2>3, <2>4, <2>5
<1> QED
  BY <1>6, <1>7

(* What the run tga refutes holds of every file that looks like no other: without a
   hint, and with bytes that detect does not know, a file is decoded as what its
   extension says.  So only a signature can keep a tga file from its decoder. *)
THEOREM OnlyLookalikesGoAstray ==
  Spec => [](\A t \in Threads :
               (/\ InCall(t)
                /\ call[t].format # Nothing
                /\ call[t].loader.format_hint = Default
                /\ detect(call[t].loader.file.bytes) = Nothing)
               => call[t].format = from_extension(call[t].loader.file.extension))
<1>1. Init => GoesByItsLoader
  BY DEF Init, GoesByItsLoader, InCall
<1>2. GoesByItsLoader =>
        \A t \in Threads :
          (/\ InCall(t)
           /\ call[t].format # Nothing
           /\ call[t].loader.format_hint = Default
           /\ detect(call[t].loader.file.bytes) = Nothing)
          => call[t].format = from_extension(call[t].loader.file.extension)
  BY DEF GoesByItsLoader, Resolved
<1> QED
  BY <1>1, <1>2, HandleInductive, FormatStep, PTL DEF Spec
=============================================================================
