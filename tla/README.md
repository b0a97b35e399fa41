# glycin-ng in TLA+

glycin-ng decodes images in-process. Every decode runs on a worker thread that
confines itself with setrlimit, landlock and seccomp before it touches the
image. Around that core there are a Rust API, a C API, and `libglycin-shim`, a
GObject library that exposes glycin's ABI. This directory models the run-time
behaviour of these parts in TLA+, checks it with TLC on small instances, and
proves with TLAPS, for every instance, each safety property that it checks.

## The system

| Component | State it keeps | Operations | What makes it hard |
|---|---|---|---|
| `Loader::load` and `run_in_worker` (`src/src/loader.rs`, `src/src/sandbox/`) | one caller and one worker thread per call; the process's `RLIMIT_AS` and `RLIMIT_CPU`; landlock and seccomp state of each thread | read and sniff, spawn, apply layers, check strict, decode, join | calls interleave on process-wide limits; layers cannot be undone and can block one another; panics |
| Panic hook (`src/src/sandbox/mod.rs:190`) | a process-wide hook and a `OnceLock` | install once, delegate | other threads panic, and the host replaces the hook, at any time |
| Decoders and limits (`src/src/limits.rs`, `src/src/formats/`) | counters of one decode | header check, per-frame loop, sums | which limit is checked when, in which order, for which format; wrap-around and saturation |
| C API (`src/src/c_api.rs`) | handles owned by the host; a thread-local last error | constructors, setters, load, getters, free | consumed-once handles, borrowed textures, the life of the last error |
| Shim session (`libglycin-shim/src/lib.rs`, `types.rs`, `asyncops.rs`) | `GlyLoader`, `GlyImage`, `GlyFrame` objects shared by threads | load, next frame, specific frame, setters, their async forms | GTask threads run at once on one object, cancellation, reference counts |
| Encoder and `GlyCreator` (`src/src/encoder.rs`, `libglycin-shim/src/lib.rs:695-973`) | the frames, options and metadata collected so far; the last error of each thread; reference counts | add frame, set option, add metadata, create, create async | calls of several threads share one creator; the error is fetched after the mutex is released; a frame handle is the creator |
| Metadata and orientation (`src/src/metadata/`, `src/src/image.rs`) | the buffer of a frame that is being turned | read the orientation from EXIF bytes, report it or bake it into the pixels | two offsets per pixel, in two buffers; eight orientations that have to match the viewer's |
| Memory formats and conversion (`src/src/memory.rs`, `memformat.rs`, `convert.rs`, `encoder.rs:250-350`) | the buffer that is rewritten in place | choose a format, convert a frame, sample, flatten over white | strides, channel order, a format nobody accepts, a loop that reads what it writes |
| Sniffing (`src/src/sniff.rs`) | none | name a format by bytes or extension | a file without signature that looks like another format |
| MIME tables, GObject registration, FFI glue | none | tables | nothing dynamic |

How they interact: the shim calls the C API, the C API owns Rust values behind
pointers and calls the Rust API, `Loader::load` runs the decoder on the worker
thread and joins it. The only state that calls on different objects share is
that of the process: resource limits, the panic hook, and the thread-local last
error of a pooled thread.

### What makes each component correct

* Decode call: the posture an image reports is what its worker ran under; a
  strict call never decodes without its layers; a refusal has a cause outside
  the worker; every call that begins returns.
* Panic hook: a panic of a decode worker prints nothing, a panic of a host thread
  reaches the hook the host set, and no call waits for the installation for ever.
* Orientation and pixels: the picture the writer of the file meant is the picture
  a viewer sees, baked or reported; no offset leaves its buffer; a conversion keeps
  the colour; flattening in place reads nothing it has written.
* Decoders: no image is returned that exceeds the limits, whatever the order of
  the checks.
* C API: a handle is used at most once after it was consumed, never after it was
  freed; the last error is that of the last fallible call of the same thread.
* Session: a loader yields at most one image; concurrent callers get distinct
  frames in order; an object lives as long as a task uses it.
* Creator: calls that share one take effect one by one; an error is reported to
  the call that failed; rows are read inside the bytes that were given; the
  encoder lives as long as somebody can use it.

## Modules

| Module | What it is | Composes |
|---|---|---|
| `DecodeCall` | abstract: what one call of `Loader::load` promises | |
| `DecodeWorker` | `Loader::load`, `run_in_worker`, the three layers, `check_strict` | `Call == INSTANCE DecodeCall` |
| `DecodeWorkerProofs` | theorems about `DecodeWorker` | |
| `PanicHook` | `install_panic_silencer_once` in a host that has hooks and panics of its own | |
| `PanicHookProofs` | theorems about `PanicHook` | |
| `DecodeLimits` | `limits.rs` and the frame loop of every decoder | |
| `DecodeLimitsProofs` | theorems about `DecodeLimits` | |
| `FrameStream` | abstract: frames handed to callers that share an image | |
| `ImageSession` | `GlyLoader`, `GlyImage`, `GlyFrameRequest`, their tasks | `Stream == INSTANCE FrameStream` |
| `ImageSessionProofs` | theorems about `ImageSession` | |
| `ImageMaker` | abstract: an encoder whose calls are atomic | |
| `Creator` | `GlyCreator`, the C API's encoder, last errors, tasks | `Maker == INSTANCE ImageMaker` |
| `CreatorProofs` | theorems about `Creator` | |
| `LoaderBuilder` | abstract: settings that add up until they are decoded with | |
| `Sniff` | `detect` and `from_extension` as operators | |
| `LoaderHandle` | the C API's loader and image handles, last errors, the choice of a decoder | `Sniff`, `Builder == INSTANCE LoaderBuilder` |
| `LoaderHandleProofs` | theorems about `LoaderHandle` | |
| `Textures` | pixels in memory: layouts, EXIF, the eight turns, sampling and writing, as operators | |
| `PixelPath` | one frame: orientation, delivery by the shim, conversion for an encoder | `Textures` |
| `PixelPathProofs` | theorems about `PixelPath`: baking, EXIF, the view, the flattening pass | |
| `ColourProofs` | theorems about `PixelPath`: what becomes of a colour | `PixelPathProofs` |
| `MC*` | values for the constants, symmetry | the module of that name |

A definition that begins with "Mutant of" in its comment is a plausible bug in
the definition that follows it. No behaviour uses it; it is what a property is
tried against to see that it can fail.

### DecodeWorker

A call is an element of `Decodes`. `caller[d]` is the program counter of the
thread in `Loader::load` (`loader.rs:134-166`): read and name the format, spawn,
join, return. `worker[d]` is that of the closure in `run_in_worker`
(`sandbox/mod.rs:155-180`): `SetAs` and `SetCpu` are the two `setrlimit` calls,
each of which reads the process's hard limit and lowers it; `ApplyLandlock` and
`ApplySeccomp` confine the thread; `CheckPasses` and `CheckRefuses` are
`check_strict`; `Decode` and `Panic` are the decoder. Each system call is a step,
so workers interleave between them. `asMax` and `cpuMax` belong to the process;
`confined[d]` is what the kernel enforces and `posture[d]` what the program
believes, and the properties compare the two. The kernel is external: an
unprivileged process can lower a hard limit and not raise it, `Refusing` names
the layers whose system calls may fail. A panic unwinds or ends the process, by
`PanicAborts`, because `Cargo.toml` sets `panic = "abort"` for the release profile. A
worker that exceeds a finite cap takes the process with it (`CapKills`).

### PanicHook

`hook` is what the standard library keeps: whether the library's closure is in front
and which hook other panics reach. `once` is the `OnceLock`, `call[c]` a call's
place in `install_panic_silencer_once` and after it. `TakeHook` and `SetHook` are the two
calls of the standard library, and between them std's own hook is in place. The
host's threads panic (`HostPanics`) and set hooks (`HostSets`) at any moment;
`heard` and `since` note when, so that the properties can say what holds before,
in and after the installation. A host that sets a hook between the two
steps loses it to `set_hook`, and a panic there reaches std's hook: `HostsAreHeard`
leaves that moment out, and says that it is the only one. A hook that the host sets later
is in front of the closure, so it hears the workers too (`WorkersAreSilent`).

### DecodeLimits

One decode of one file. `pc` is the place in the decoder: header, frame loop,
whole-image check, orientation. `HeaderFirst` formats check the header's sizes,
then decode; `CheckedAfter` formats are decoded whole and checked then; gif does
neither and sums as it goes. `made` counts frames, pixels and milliseconds so
far. A file is data: its format, header, frames and orientation; that a library
(png, webp, tiff...) refuses what it finds malformed is the nondeterministic
`LibraryFails`. The u16 product of a gif frame's sides keeps its width.

### ImageSession

`pc[c]` is where a call is; a step is what happens under one mutex, so all
interleavings of the mutexes of `LoaderState`, `ImageState` and
`FrameRequestState` are there. An asynchronous call waits in `queued`, runs on a
pool thread, and its result waits in `out` for `Finish`. `refs` are GObject
reference counts; `held` is what the application holds. A decode is one step
with one of its two outcomes: how it is made is `DecodeWorker`'s matter.

### Creator

`on[c]` is the thread a call runs on. `Lock` to `Unlock` is `with_encoder`: the C
API runs between them (`AddFrame`, `SetOption`, `AddMetadata`, `Convert` with
`to_rgba8`'s checks in their order, then `Encode`), storing failures in
`lastError[on[c]]`. `ReadMessage` is `set_error_from_ng`, after the lock.
`handles` and `refs` are the application's references and all of them.
An image is its frame and the options the codec read; a codec may fail.

### LoaderHandle

`loaders[b]` is the box behind a handle: freed, emptied by `Option::take`, or a
Loader. `ownLoaders` and `ownImages` are the handles the host may use; the host
is assumed to keep to the API's contract, and that is all that is assumed of
it. Setters are one step each, because the box and the error slot are the
calling thread's alone; `SetLimit` is any of the seven limit setters, `SetOption`
any of the other three builder calls, `FormatHintFails` the early return that puts
the Loader back. `Load` takes box and Loader, then the call reads and names the
format (`Resolve`, `ReadFails`, `ResolveFails`) and ends in `DecodeOk` or `DecodeFails`,
with other threads' calls in between. A file is what these steps tell apart: whether it
can be read, what it really is, its bytes and its extension. `message[t]` is the error behind the pointer thread `t` may still read.

### Sniff

Bytes are a sequence of tokens: a signature, a piece of white space or markup, or
any other run. `Signatures` and `Extensions` are the tables; `is_webp`, `is_bmp`,
`is_pnm` and `looks_like_svg` are the tests that need more than the first token, the
last with its byte order mark, white space, and search behind an `<?xml`. That no signature begins
another makes the order of the tests irrelevant. The unit tests of `sniff.rs` on these
are `SniffTests` of `MCLoaderHandle`, which TLC evaluates.

### Textures and PixelPath

A texture has sides, stride, format and bytes, as a function from offsets. `PixelPath`
follows one frame: `NothingToTurn`, `ReportTurn` and `BeginBake`, `BakePixel`,
`BakeDone` are `apply_orientation_if_present` with `transform_texture`, one step a pixel;
`Deliver` is `extract_frame` with `maybe_convert`; `AddFrame` is what an application
gives the encoder, the delivered frame with padded rows or a drawing of its own;
`Convert` is `to_rgba8`; `FlattenPixel` and `Truncate` are `flatten_over_white`, one step
a pixel since it reads the buffer it writes. An index outside a buffer, and the `expect` on
`Texture::from_parts`, lead to `"panicked"`. Products keep u32 where the code does: `Turned`
cuts its stride, so the `expect` can fail, and `OnlyCutRowsPanic` says that it fails in
that one case and that no index ever leaves a buffer. The
properties compare with definitions that are not the code's: `Seen` says with EXIF 2.3's words
(the side on which first row and column belong) where a viewer sees a pixel, `Shows` what
a format's name says of its bytes.

## What is checked

| Run | Instance | It shows |
|---|---|---|
| `worker` | two calls, an unprivileged process, three layers, incomparable limits, panics unwind | the posture is honest, strict is enforced while a decoder runs, a refusal has a cause outside the worker, no worker outlives its call; calls implement `DecodeCall`, and every call returns |
| `degraded` | a privileged process, landlock not built, seccomp may be refused, limits above the host's, panics abort | layers fail one by one: the posture stays honest, and the calls keep `DecodeCall`'s promise, strict included |
| `hook` | three calls at once, two threads and two hooks of the host | workers are silent and the host's hooks are told, however installations, panics and the host's own hooks interleave; every call gets past the installation |
| `frames` | an animation of two frames, three callers, a load, cancellation | frames go out in order, one to each caller, and what a caller took it gets; nothing leaks |
| `vector` | a vector image, two loads, setters, re-render | one load gets the loader; no use after free; a frame rendered again looks like the load, and when the rendering fails the call shows the frame there is; every call is answered |
| `limits` | small files of every format, limits around their sizes, gif frames around the largest area of a u16 | what is returned is within the limits its decoder checks; sound files within the limits are never refused |
| `creator` | three calls from two threads and a pool thread | calls are atomic, errors stay with their thread, rows lie inside the bytes, the encoder is freed at the right time |
| `handles` | two threads, two loader handles, a png, unreadable and unknown sources | no handle is lost or emptied by a failing call, messages stay with their thread while they can be read, a decode gets all the settings of its handle |
| `pixels` | frames of up to 3 x 2 pixels with each tag in either byte order, malformed EXIF, a part frame, columns below, at and above 2^32 bytes (64 here), a vector image, drawings in every byte order | no index leaves a buffer and nothing panics but the turn of a column too long for a stride, the meant picture is seen whether it was turned or not, frames come as asked and are written in their colours |

Three more runs each show that something said of the program is not so:

| Run | Says | The program |
|---|---|---|
| `ignored` | every decode is bounded by `max_width` and `max_height` | gif compares neither; the instance also has what escapes otherwise, png files of two long frames and animations whose turn exchanges the sides, behind the gif that is found first |
| `rgbjxl` | JPEG XL decodes | without an alpha channel the texture's stride and buffer disagree, and every such file fails |
| `tga` | the extension hands a tga file to its decoder | an uncompressed true-color file begins like a cursor, and goes to the ico decoder |

Other things the text says and the program does not do, met while modelling and
not given a run: a gif with a frame of 65536 pixels or more, 256 by 256 already, is refused
with `LimitExceeded("frame size")` under every `Limits`, since `gif.rs:35` multiplies the
sides in u16, while `max_pixels` is 256 Mpx and `Limits::unlimited` says "All caps
removed" (`limits.rs:55`; `SoundFilesDecode` leaves such a file out by `AreasFit`);
"byte-aligned transform always produces a valid texture" (`transform.rs:73`) fails, on the
caller's thread, for a quarter turn of a texture whose columns have 2^32 bytes or more, as
2^29 pixels of 8 bytes have, which the default limits refuse and `Limits::unlimited`
does not (`OnlyCutRowsPanic`, which the `pixels` run meets); "A worker panic becomes `Error::Internal`" (`sandbox/mod.rs:153`), while the
release profile is built with `panic = "abort"` (`Cargo.toml:150`), and since the hook
stays silent there, the process ends without a message; accepted formats reach
`extract_frame` only from the snapshot a vector image keeps (`libglycin-shim/src/lib.rs:246`,
`447`), so a raster frame is never converted; the orientation is said to be read
for "PNG, JPEG, and WebP" (`metadata/exif.rs:4`) and the JPEG decoder never hands over its
EXIF; the SVG path is said to make `R8G8B8A8Premultiplied` (`convert.rs:7`), and
`svg.rs:54` undoes the premultiplication; an application that accepts only `A8B8G8R8`
gets another format, though `emit_pixel` can write it; `ImageState::advance` is said to clamp to the last frame
(`types.rs:132`) and returns `None`; the sandbox is called per decode
(`src/README.md:15`) while `setrlimit` caps the process for good, as `rlimit.rs:3`
says; `image/x-tga` is on the shim's list of types it decodes, but the shim passes
neither extension nor hint, and tga bytes have no signature; the comment on
`glycin_ng_loader_format_hint` (`c_api.rs:211`) names the `GLYCIN_NG_FORMAT_*`
constants where `GLYCIN_NG_KFMT_*` are meant, as the header says.

### Bounds, and why they are enough

* `DecodeWorker`: two calls. The properties are about one call and what the other
  workers can do to it, and they can only lower a cap, raise it when privileged,
  or end the process: one other call does each. Limits `{1, 3}` and `{1, 2}` make
  two calls incomparable (one asks for more memory and less time), host caps lie
  below, between and above them, and `MiB = 2` with `Infinity = 5` makes the
  multiplication saturate.
* `DecodeLimits`: sides of 1 and 2 pixels, up to two frames, delays of 0 and 2, and
  limits around those (pixels 3 and 8, frames 1 and 2, durations 2 and 4), so
  each comparison is met from both sides, with one frame in hand and with two.
  `U16Max = 2` lies among the areas of gif frames (1, 2 and 4): those up to it must be
  accepted, and a larger one, which the code refuses, is what `AreasFit` leaves out.
* `ImageSession`: two frames and three calls go past the wrap-around once, where
  the cursor has a value more than there are frames; two loads race.
* `Creator`: three calls: one to add a frame, one to create, one in between. Two
  threads of the application and one of the pool; a thread is used again by a
  later call, so an old error can be there. `U32 = 16` makes a stride wrap, and
  `MaxOutput = 8` is met, missed by one row and exceeded.
* `LoaderHandle`: two threads and two boxes, so that a box is freed by one thread and
  used again by another while a load runs. Two limits and one option are enough to lose one setting when
  another is made; one value besides the default, since a setting is only
  compared with what was set. One image box: images are only counted as owned or not.

* `PanicHook`: three calls, one that installs and two that wait; two threads of the
  host that panic once each, at different moments; two hooks, so that one replaces
  another.
* `PixelPath`: sides that differ, so that a swapped axis shows; one to four bytes a
  pixel, all different; columns of 7, 8 and 9 pixels of 8 bytes lie around `U32 = 64`, and
  `MaxOutput = 24` between what is written. One frame, since those of an animation are turned one
  after another and share nothing. That a row of pixels has fewer than 2^32 bytes, as
  `PixelAssumption` has it, the decoders check (`png.rs:67` and its like); nothing is
  assumed of a column.
* `Sniff`: in the runs a handful of files; the tables are whole.

Deadlock is checked except in `limits`, `ignored` and `rgbjxl`: a decode ends.
In `Creator`, `DecodeWorker` and `PixelPath` the explicit `Rest` is that end, so a real
deadlock would be found. In `ImageSession` the application can always set
something, so it is `CallsAreAnswered` that says that no call is stuck. Symmetry is used
for the calls of `Creator` and of the `frames` run and for the threads and boxes of
`handles`, whose properties are safety properties in which these are interchangeable.

### Fairness

`DecodeWorker` assumes that a thread that was started is scheduled (weak fairness
of each caller's and worker's step, which the operating system's scheduler
gives) and not that anybody calls `load`. A decoder is one step: that a codec
terminates on its input is an assumption, bounded in the program by `RLIMIT_CPU`,
whose signal is `CapKills`. `ImageSession` assumes the same of calls and pool
threads, and that the main loop dispatches the callbacks of finished tasks.
`PanicHook` assumes that a call which has begun the installation, or waits for it, goes
on when it can: `get_or_init` blocks only while another call runs the closure, and the
closure does not block. `Creator`, `DecodeLimits`, `LoaderHandle`, `PixelPath` and
`FrameStream` state safety only.

## What is proved

The theorems hold for all values of the constants under the named assumptions:
`WorkerAssumption` (limits are numbers, layers are layers), `LimitsAssumption`
(files are files), `CreatorAssumption` (finitely many calls, the pool's threads
are not the application's, `U32 > 0`), `SessionAssumption` (frames are counted, loads are no gets), `HandleAssumption`
(settings have distinct names, `Default` is no value a host sets), `HookAssumption` (the
host's hooks are not std's) and `PixelAssumption` (decoders return textures that
`Texture::from_parts` took, of rows under 2^32 bytes, in no premultiplied format, and the
SVG decoder one in `R8G8B8A8`, as `svg.rs:54` makes it). TLC evaluates each in the runs. Four theorems
have a hypothesis besides, given with them below: `SoundFilesCorrect`, `ViewKept`,
`WrittenCorrect` and the creator's `CallsNeverStall`. The files of `limits`, the photos and the drawings of `pixels` and the
pool of `creator` satisfy them, so the runs check the same claims. Two more,
`ShortColumnsNeverPanic` and `DefaultLimitsNeverPanic`, say under which bound on the height
the `expect` of `transform.rs:73` is right, and the tall photos of `pixels` are outside it.

* `DecodeWorkerProofs`. `IInv` joins: where caller and worker can be together;
  the owners of the caps; for the two thread layers, that the posture is what the
  kernel took; for rlimit, that `Applied` implies the caps hold. The last is not
  inductive alone: between `SetAs` and `SetCpu` the memory cap must stay below
  what the worker asked, which holds because other workers only lower it (or the
  process is privileged, and nothing is claimed). From `Inductive` follow
  `StrictCorrect`, `PostureCorrect`, `RefusalCorrect`, `CapsCorrect` and `JoinCorrect`,
  and `Implements`: the safety part of `DecodeCall`.
* `DecodeLimitsProofs`. `LInv` says that a frame is no larger than the canvas whose
  product with the frame count was compared, hence
  `pixels <= frames * area <= count * area <= max_pixels` (the products need
  `Monotone`), and that gif's sums stay below their limits frame by frame.
  `SoundFilesCorrect` is the converse: a file within the limits is not refused for
  one. Its invariant `SoundInv` says that what was made so far is at most the sum of
  that many frames of the file, and sums only grow (by induction over the frames), so
  no comparison on the way fails that the whole file passes. Its hypothesis `DecodersTake` names the
  kind of file that is refused all the same: JPEG XL without alpha, which is the
  finding of `rgbjxl`. `OtherDecodesAreBounded`
  confines the finding of `ignored` to GIF, PNG and baked quarter turns.
* `CreatorProofs`. `CInv` says of each call what it may rely on at its place: under
  the lock `mutex = c`, on a thread nobody else is on, between conversion and
  codec that the one frame is still the one that was converted. `OtherCalls` shows once that
  a step of one call keeps this for the others, because it writes the encoder only
  under the mutex and the last error only of its own thread. `refs` is the number
  of handles and of tasks in flight. `FineRows` derives from the comparison of the last row
  that every row is inside. `CreatorImplementsMaker` is the refinement: the
  linearization points are the C API's actions. `CallsNeverStall` needs a pool of
  one thread at least: the holder of the mutex can always go on, a task that waits
  for a thread does not hold it, and a full pool is full of calls that can.
* `LoaderHandleProofs`. `HInv`: a box has a Loader exactly when the host owns it and
  is emptied exactly while one call holds it. The type of a call needs the first
  half, since the Loader it takes comes from the box. Every action does one of five
  things to the boxes (`Fills`, `Frees`, `Takes`, `Finds`, `Ends`) and one of four to the
  errors, each shown once to keep the invariant. `HandleImplementsBuilder` maps
  a setter to one setting of the builder (`OneSettingChanges`) and every call that
  fails, and every step of a load after the first, to a stutter or to `Finish`.
  `OnlyLookalikesGoAstray` confines the finding of `tga` to files whose bytes
  `detect` knows.
* `ImageSessionProofs`. `SInv` joins six parts: types; `ConsumeInv`, that while the C
  loader is there nobody has it, and then one load has; `ImageInv`, that the image comes
  into being once and stays as its load made it; `WaitInv`, that only a GTask waits
  for a thread; `GetInv`, what a frame call has in hand at each place; and `RefsInv`,
  that `refs` counts the application's reference, the tasks in flight, and an image
  that waits in its load's task. No
  part is inductive alone: that a call may not touch a freed image needs the count, and
  the count needs that only tasks outlive the application's reference.
  `SessionImplementsStream` maps each advance to one hand-out of `FrameStream`.
  `SessionGoesForward` counts the steps a call has left (`Left`): its own lower
  the number, and nobody else's raise it.
* `PanicHookProofs`. `HInv` adds to the two properties what `once` says about the calls
  (one is in the closure while it runs, none is past it before it is done) and what the
  hook looks like at each place; `TakeHook` is the step that needs both.
  `InstallationNeverStalls` adds that the call for which the others wait exists and
  waits for nobody.
* `PixelPathProofs`. `PInv` says of a bake under way that the sides are the decoded ones, that
  the buffer has the turned size, and that each pixel done is where `MappedCoord` sends it,
  which no later pixel disturbs since no two go to one place. `OnlyCutRowsCorrect` is the
  part of it that needs the others: offsets lie inside because the sides do, and what was
  turned has the stride it needs unless its row was cut, which takes an exchange of the axes
  because decoders bound the rows and nobody the columns. So the `expect` is right when the
  columns are short (`ShortColumnsNeverPanic`), as every column is that the default
  `max_height` lets through (`DefaultLimitsNeverPanic`). `OrientationIsRead` compares
  the parser with a description of what a camera writes (`IsDirectory`, `IsEntry`: which number
  lies where, as relations on the bytes, with nothing parsed): it returns an
  orientation exactly when one is written in the blob, and that one. `ViewKept` says
  the same picture is seen, for textures of any size; its hypothesis `TagsAreWritten` is that the tag
  which the viewer goes by is the one that the file's EXIF holds, or `Normal`. `FlatteningIsExact`
  rests on `FlattenPart`: before pixel `i` the bytes from `4 i` on are still those of
  `to_rgba8`, as `3 i + 2 < 4 i + 4`.
* `ColourProofs`. `OriginPart` adds where each texture comes from: the loaded one is decoded or
  baked, the delivered one is it or a conversion of it, the one given to the encoder a
  delivered one or a drawing. `ConversionIsFaithful` is about the
  operators alone: whatever `maybe_convert` picks of the accepted formats, the pixel at a
  place shows the colour that was there, by the names of the two formats (`Says`, which is
  not the code's table), division with rounding and all. From these follow `DeliveredCorrect` and
  `WrittenCorrect`; the second needs `ColoursFitAlpha`, that an application which draws in a
  premultiplied format draws colours: a channel above its alpha has no straight
  colour, and `sample_rgba8` clamps it.

The types of `DecodeWorker` and `LoaderHandle` are theorems and no property of a run.

Model-checked only are the findings, which hold of the instances that show them, and
liveness: `EveryCallReturns`, `CallsAreAnswered`, `InstallationEnds` and the fair part of `CallSpec`. A proof
of these would go from a fair specification to a step that is taken, through `ENABLED`, which the
prover does not have. What it can do without fairness is proved: that a call which is
not at its end can go on or that one it waits for can (`DecodeWorkerProofs` and
`CreatorProofs`: `CallsNeverStall`; `InstallationNeverStalls`), and that each step brings it
nearer to its end while no step of another sets it back (`CallsGoForward`, `SessionGoesForward`). The
runs then check what fairness makes of it.

Induction over data is within reach, though the library's induction theorems are not, since they take
an operator: `PixelPathProofs` derives the least number of a set from the
well-foundedness of `<` (`LeastOfNumbers`), and the sums of `DecodeLimitsProofs` are
recursive functions over that. What is not: a theorem about an operator declared
`RECURSIVE`; no module has one.

## What is not modelled

* What codecs make of bytes: `DecodeWorker` and `DecodeLimits` treat a decode as its
  outcomes, and so the conversions inside the decoders, text chunks and colour profiles.
* The rewriting of `xi:include` (`src/src/formats/svg/xinclude.rs`): a filter from a document to a
  document on the worker thread. Its errors fall back to the input, and usvg, which decides
  what comes of either, is a library.
* Conversions of formats with more than a byte a channel: the code has none.
* The content of the landlock ruleset and of the system-call allowlist, beyond
  which layer hinders which.
* The C API's getters (`c_api.rs:465-960`): they read an `Image` that nothing changes
  after the load. NULL, which every shim entry point refuses first.
* A host that breaks the C API's contract: it uses a handle after it was freed or
  loaded, or from two threads at once.
* `gly_creator_new`'s refusals, the MIME tables, GObject registration: no state.
* `Encoder::clear_frames`, which the C API does not export.
* Arithmetic that overflows in a debug build: the models are of the release build,
  in which the stride of `gly_creator_add_frame` wraps.

## Plan

Written, in this order: the decode call (the centre of the program, and the one
where threads share what they should not), the session of the shim, the limits,
the creator, the C API's handles, the session's proofs, the panic hook, the path of
the pixels, sniffing. What would come next:

1. `Xinclude`: the filter as a machine over XML events, whose output should be the
   input with each outermost element that can be expanded replaced, and balanced.
2. The decoders' own conversions (palettes and 16 bits in png and tiff, compositing
   in gif and webp) on top of `Textures`.
3. The objects of `gly_loader_new_for_bytes` and `_for_stream`, and the lists of metadata keys,
   which the application owns after the call.

Theorems worth having there: that nesting of `xi:include` leaves no end without its
start. About what there is:
that no beginning of a file is that of two formats, so that `detect` may ask in any order, and that
no extension is that of two.
