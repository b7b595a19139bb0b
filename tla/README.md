# MiSTer-GemRB: formal models

This directory holds TLA+ models of the parts of MiSTer-GemRB where order,
concurrency and failure decide whether the program is right, the TLC
configurations that check them on small instances, and theorems checked by
TLAPS for every value of the constants. `PROJECT.json` maps every definition to
the source lines it models, and lists the runs, the mutants, the hazards, the
findings and the theorems.

MiSTer-GemRB runs the GemRB engine on a MiSTer FPGA board. GemRB draws through
SDL2; an SDL render driver of its own, *noodles*, turns SDL's calls into
commands of an FPGA blitter core. A launch coordinator, started from MiSTer's
menu, takes the keyboard and mouse from MiSTer's `Main` process, starts the
game and gives them back.

## 1. Inventory

| Component | Source | Modules |
|---|---|---|
| Renderer: command queue, batches, fences | `SDL_render_noodles.c` | `CommandQueue`, `SdlOrder`, `CommandQueueProofs` |
| Renderer: shadows, surfaces, residency | `SDL_render_noodles.c` | `Coherence`, `SdlTextures`, `CoherenceProofs`, `CoherenceCasesProofs` |
| Renderer: surface tracking (alpha, content) | `SDL_render_noodles.c` | `SurfaceTracking`, `SurfaceTrackingProofs` |
| Renderer: primitives, colour conversion, statistics | `SDL_render_noodles.c` | in part, in the three above |
| Launch coordinator | `tools/noodles-launcher.c` | `Launcher`, `LauncherProofs` |
| Game start script (`run.sh`, written by `bundle.sh`) | `scripts/bundle.sh:94-360` | `RunScript`, `RunScriptProofs`, in part |
| Thread affinity library | `tools/mister-affinity.c` | `ThreadAffinity`, `GameThreadsProofs` |
| Game tick patch | `patches/0006` | `GameTick`, `GameThreadsProofs` |
| Audio lock order patch | `patches/0001` | `AudioLock`, `GameThreadsProofs`, in part |
| Area and actor preload patches | `patches/0008`, `0009`, `0010` | `ActorPreload`, `GameThreadsProofs`, in part |
| Performance sampler | `tools/noodles-perf-sampler.c` | `PerfRing`, `PerfRingProofs`, in part |
| Input harness | `tools/mister-input-harness.py` | not modelled |
| Rendering patches, SDL registration, NEON patches | `patches/0002-0005, 0007`, `patches/sdl2` | not modelled |
| Frame tracer, benches, tests, host and build scripts | `tools/`, `scripts/` | not modelled |
| FPGA core, Noodles SDK, `Main_MiSTer`, kernel | outside the repository | as far as the above use them |

### Renderer: command queue

*State.* Two arrays of pending commands (`pending_fills`, `pending_draws`) with
one target each; the core's command ring and descriptor tables; the fence of
the last PRESENT and of the last command before it; `present_pending`; the
pacing sequence.

*Operations.* SDL's callbacks on one rendering thread: the operations of a
command list (fill, blended fill, copy, CPU fallback), `RunCommandQueue`'s end,
`SetRenderTarget`, `UpdateTexture`, `RenderReadPixels`, `RenderPresent`,
`DestroyTexture`. Each calls some of `WaitPresent`, `FlushFills`, `FlushDraws`,
`SubmitFill`, `SubmitDraw`, `WaitProgress` and the SDK's push and surface
access calls.

*Hard behaviour.* The core executes the ring while the thread fills it. A batch is
pushed as one command. A push may be refused for want of room in the ring or of
a descriptor table, and is repeated after one completion; a device error or a
time-out may end any call half-way, which leaves the batch pending. Completions are counted modulo 2^31.
With two display buffers the CPU must stay off the back buffer until a PRESENT
has flipped.

*Correct when* every accepted operation takes effect once, in SDL's order; a
CPU access to a surface sees every operation accepted before it; no callback
waits for ever; no batch grows past its array or outlives what it refers to;
at most one PRESENT is in flight.

### Renderer: shadows, managed surfaces and residency

*State.* For each texture a CPU shadow and a managed surface in the core's
memory, either absent, valid or stale; the dirty rectangle; lock state;
`gpu_in_use`; least-recently-used order; `resident_bytes` against a budget; the
composition target.

*Operations.* Create, destroy, update, lock, unlock, draw, copy, geometry, read
back, present; internally `EnsureCPU`, `EnsureGPU`, `MakeResident`,
`EvictResident`, `TryRotateTexture`, `DropRedundantShadow`, `PrepareCPURegion`,
`CommitCPURegion`.

*Hard behaviour.* Several caches of one image, each invalidated by different
calls; eviction in the middle of a draw; a texture the core still reads is
replaced by a fresh surface instead of waited for; uploads are put off and
merged; each step may fail after an earlier one succeeded.

*Correct when* SDL's calls act as on plain images: no copy of a texture is used
while stale, none is dropped while it is the only one, nothing the core still
uses is touched, and residency stays within the budget.

### Renderer: surface tracking

*State.* For each surface `alpha_state` (all pixels transparent, all opaque, or
unknown) and, except for the composition, a rectangle `content` outside of
which every pixel equals `outside_pixel`. While a fill or line command runs,
`alpha_state` and `drew` are locals of the function.

*Operations.* Every draw, clear, update, lock, copy and present reads or writes
them: `FillAlphaState`, `CopyAlphaState`, `UpdateAlphaPixels`,
`OpaqueFillRegion`, `AddContent`, `ResetContent`, the trimming in `RunCopy`.

*Hard behaviour.* What is known decides which work is left out: a transparent
source is not drawn, a blend of an opaque one becomes a copy, fills and copies
shrink to the content. A wrong rule shows only after a long sequence of
calls, in other pixels than the last call drew, and depends on blend modes,
modulation, flips, clips and on whether the surface was evicted meanwhile.

*Correct when* every draw leaves the pixels SDL defines.

### Launch coordinator

*State.* A lock file; the `Main` chosen; `stop_requested` and `adapter_pid`,
written by a signal handler; the exclusive grabs of the input devices, which
the kernel keeps and which the coordinator changes through duplicates of Main's
descriptors; a virtual keyboard while an error is shown.

*Operations.* Watch for a Main started with a Noodles MGL, check its launch
record, release Main's grabs, probe that every device is free, fork the
adapter, wait for it, restore the grabs. If the record is rejected: make a
virtual keyboard, press the key that makes Main show its framebuffer, show the
error, press the key back.

*Hard behaviour.* Coordinator, adapter, Main, the kernel and the person at the
board run concurrently: devices come and go, Main opens and closes descriptors
while they are listed, exits or is restarted, the script is started twice,
signals arrive between any two system calls.

*Correct when* one game runs at a time, Main takes no input from it, Main gets
all its devices back, and no coordinator waits for ever.

### Game start script and the small protocols

- `run.sh` sets up a swap file in a background process, switches the video mode,
  starts the game, and restores all three when the game has ended. The
  background process, the game and signals from the coordinator or the system
  interleave with it; runs follow runs that were killed. Any
  command that undoes may be refused, or be ended by a signal which the script
  survives. *Correct when* a run that ends by itself leaves nothing but what it was
  kept from undoing, and undoes nothing while the game still runs.
- The *thread affinity library* is preloaded into the game: it narrows the main
  thread's CPU mask and undoes the inheritance in every thread that
  `pthread_create` makes. *Correct when* no other thread runs on the narrow mask.
- The *tick patch* decides in the main loop whether a frame runs a game tick.
  *Correct when* the simulation neither runs ahead of the clock nor falls
  behind by more than a tick, and drops no tick without a stall.
- The *audio lock patch* orders two locks between the game's thread and SDL's audio
  thread. *Correct when* neither waits for ever, and the map from channels to
  sounds is right for every sound that plays.
- The *preload patches* queue actors, resources and poses and serve one a tick,
  unless memory is short. *Correct when* the work ends and leaves nothing out.
- The *sampler* reads a ring the kernel writes. *Correct when* its summary
  accounts for every sample.

### Interaction

The coordinator and the renderer share nothing but the process tree: the
coordinator starts `run.sh`, which starts GemRB with the affinity library, and
GemRB's SDL loads the renderer. SIGTERM from the coordinator reaches the whole
process group, which is how `Launcher` and `RunScript` meet (`Signal`,
`Terminate`). The patches meet in the game's main loop but share no state; the
sampler watches from outside.

The first two renderer parts share every callback: `CommandQueue` says in which order
commands and CPU accesses reach the surfaces, `Coherence` what they do to
pixels and which surfaces they need. Each abstracts the other: `CommandQueue`
has no pixels, and `Coherence` identifies a surface's device image with the
image it has once the queued and pending commands have run. That is sound
because of what `CommandQueue` is checked to implement (`SdlOrder`: issue
order, CPU accesses wait), provided nothing touches a surface that the *pending*
batch, of which the SDK knows nothing, still names. `Coherence` checks this
proviso itself (`NoRace`). `SurfaceTracking` takes a surface's image as one, whichever
copy holds it, which is what `Coherence` shows to be right, and keeps of the
shadows only whether the surface is current (`gpuValid`), as the code's rules do.

## 2. Plan

The order is by what would hurt a player most and is hardest to test.

1. `CommandQueue` against `SdlOrder`: **done**; types, all safety invariants,
   the refinement and a bound on every callback proved.
2. `Coherence` against `SdlTextures`: **done**; types, all safety invariants and
   the refinement proved.
3. `Launcher`: **done**; types, all safety invariants and a bound on every
   coordinator proved.
4. `SurfaceTracking` against SDL's own definition of the draws: **done**; types,
   content, alpha and the equality of pixels proved.
5. `RunScript`: **done**, its main property proved.
6. Small protocols, `ThreadAffinity`, `GameTick`, `AudioLock`, `ActorPreload`,
   `PerfRing`: **done**, the safety property of each proved. `Protocols` puts them
   and `RunScript` side by side.
7. What remains is liveness under fairness. For each such property what it rests
   on without fairness is proved, where that is more than one step (section 5).

Abstract specifications: `SdlOrder` and `SdlTextures`; `SurfaceTracking` carries
SDL's image in the history variable `sdl`. Compositions: the renderer modules
are related by their abstract specifications as said above. `MCCoherenceCases`
and `Protocols` put several instances into one run; a behaviour is one of a
single instance, so that nothing is multiplied. `Protocols` also names what the
proofs assume of the constants of its parts.

Runs are meant to end within about three minutes on two workers. Four of the
twelve document disagreements between code and documentation.

Theorems worth having: types and safety invariants of every module (for any
number of textures, processes, sizes and failures, where TLC sees two or
three), and the two refinements.

## 3. The modules

### CommandQueue

The state is the thread's position (`call`, `pc`), the pending batches, and the
command ring. The ring is kept as the whole history `log` of pushed commands
with `done` counting those executed, so that order can be stated; the commands
in the ring are those after `done`. `After` gives, for each callback, the
functions it calls in order; each function is an action (`FlushFills`,
`AppendDraw`, `Access`, `PushPresent` ...) guarded by `pc`, and `Skip` passes a
function that has nothing to do. `Execute` is the core, and is interleaved with
everything.

Worth knowing when reading it beside the code:

- `Stall` and `WaitProgress` are the retry after EAGAIN. The wait compares with
  the completion count read when the push was refused, so a completion that
  comes between the refusal and the wait is not waited for again.
- The SDK's surface access waits for the last *queued* use of the surface;
  `Access` records in `seen` what it found executed.
- PRESENT is the one push that is not repeated: `RefusePresent` loses the frame
  when the ring is full at that moment. `NothingLost` counts such an operation
  as reported.
- `overrun` is the state after a write behind a batch array. It is undefined
  behaviour, and the model stops there.
- `DeviceFails` may end any function that calls the SDK, `MaxFailures` times.
  A failed flush keeps the whole batch.
- `FrameMax` bounds the commands of a frame. The fence comparison is exact only
  when a frame is shorter than half the fence range (2^30 commands).

`SdlOrder` is what SDL expects: operations accepted in order, executed in
order, and an access that sees all accepted ones. `CommandQueue` instantiates it
as `Order`, with `accepted` the operations in `log` and in the pending batch
(`Accepted`) and `executed` those of the commands the core has done
(`ExecutedIds`).

### Coherence

One action per SDL callback. The functions the callbacks share are operators
from a state of the renderer to the set of its outcomes (a new state, success
or failure), joined by `Then`, which stops at the first failure as the code's
`if (... < 0) return -1` does. Only the core's progress (`Retire`) can come
between callbacks, since one thread makes all calls.

- An invalid or fresh buffer holds `Junk`, so that reading it is seen.
- `later` is the least-recently-used order without a clock: the resident
  textures used after this one.
- `call` is a history variable: what the last call showed, returned, or which
  texture it copied. The refinement therefore compares what a *copy* drew with
  the abstract image of its source, not just the final image.
- SDL's own rules are assumed: a locked texture is neither drawn nor updated;
  SDL resets the target before it destroys a texture; no call but the queued
  ones comes between the operations of a command list. A target copied onto
  itself is drawn by the CPU (`SoftwareCopy`), as in the code.
- A failed allocation, device error or time-out counts against `MaxFailures`.
  Exhausted memory with something left to evict is not a failure; the code
  evicts and tries again.
- The composition's `gpu_in_use` is never read by the code; `busy` is kept for
  textures only.

- `MakeRoom` stands for the eviction loop of `MakeResident`: it evicts candidates
  from the least recently used on, as far as the budget or exhausted memory asks
  for, and stops where an eviction fails. `BytesOf` counts what they held.

`SdlTextures` is one image per surface that only SDL's calls change. `Coherence`
instantiates it as `Sdl`; a texture's image is that of a current copy (`ImageOf`).

### Launcher

Every coordinator is a process with its own record in `co` (`pc` and the
function's local variables); devices have at most one `holder`; each `Main` has
its list of open descriptors. `set_main_input_grabs` and `physical_input_busy`
are loops over `/proc` and `/dev/input`, modelled one device at a time, so that
anything may happen between two devices. `Passes` is how many probes fit into
the code's time-out.

- Main and the kernel are external. Main grabs what it opens unless its
  framebuffer is shown, does not retry a refused grab, and there is one Main at
  a time, a restart being a new one.
- A launch record is accepted or not (`Accepted`), the parser's detail left out.
- The handlers are set with `signal()`, which on glibc sets SA_RESTART:
  `waitpid` is not interrupted, the handler alone passes a signal on to the
  adapter, and line 641 is not reached.
- A signal that arrives between `fork` and the assignment to `adapter_pid`,
  before the process group exists or before `exec` has reset the handlers, does
  not stop the game. The model has these windows (`Fork`, `KnowAdapter`,
  `SetGroup`, `AdapterStep`, `Signal`). After the watch loop a stop request does
  not prevent the start.
- The probe's momentary grabs may make Main's own grab fail while the error
  display waits for Main to take its devices back. `InputReturned` speaks of
  the exit after a game only.
- Reuse of process ids and SIGKILL of a coordinator are not modelled.

### SurfaceTracking

A pixel is an alpha (none, some, full) and a colour (black or not), which is what
the rules tell apart. Each surface has its `image` as the renderer makes it and
`sdl` as SDL's definition of the same calls makes it; `track` has what the
renderer remembers. Fill and line commands take one step per rectangle, point or
segment, with the locals in `command`, and a last one that stores them.

- `app` is an application: the textures, colours, blend modes, views,
  rectangles, copies and segments it uses. It is chosen at the start and
  never changes, so that several kinds of drawing are checked in one run
  without all their combinations.
- `Device` is what the core has of a surface: pixels of no use while the
  surface is out of date. A fill trimmed on such a surface would show them,
  hence `gpu_valid` in `OpaqueFillRegion`.
- `Parts` are the rectangles on a surface. SDL clips what is updated and what is
  copied of a texture to it before it calls the renderer.
- Which fallback draws (lines of other slopes, blended points, scaled copies,
  triangles) is decided as in the code; what pixels a fallback draws is SDL's.
- *Fails* may end any submission. What the surface then holds is open: nothing of
  it, or all of it, was drawn, as the kept batch is flushed later or not.

### RunScript

One action per command of `run.sh` that changes the machine or waits; `Off` is the
body of `swap_off`, which is called twice, and `SwapOn(r)` the background process
of run `r`, which may outlive its run. `Terminate` and `Kill` send a signal to
the group at any point. The shell's rule that a trapped signal ends `wait` is
in `AfterWait`: the code waits twice, so one signal is survived, a second is not.
`EndsClean` says "at most one trapped signal" for that reason. GemRB ignores
SIGTERM (`README.md:277`), so `Terminate` ends no game. The commands `swap_off`
runs do not: a trap is reset in them, so a signal can end one of them while the
script goes on (`CutShort`). `swap` says what the file itself and each run's loop
device are; `swapoff` and `losetup -d` may be refused for each (`Detach`), and `left` records
what they left. A `swap_on` whose `dd` was killed still removes the file, at a
time of its own, when a later run may have begun another (`"remove"`).

### The small protocols

- `ThreadAffinity`: each thread has a mask and a stage; any running thread may
  create another. Refusals of the kernel and missing memory are inputs, and
  exempt the thread they hit.
- `GameTick`: the clock at each frame is an input. The unsigned subtraction is why
  `lastGameUpdate <= time` is part of `PaceKept`.
- `AudioLock`: the audio thread holds SDL's lock from the end of a sound to the
  end of `finishedCallback`; every `Mix_` call needs it. `stateMutex` is held
  for one step, except by the slip that shows the deadlock.
- `ActorPreload`: resources name resources, in a cycle. One `ProcessPreloadQueue`
  is a tick. After `MemoryShort` the queues are empty and what was seen stays
  seen, so `NothingSkipped` speaks of a game in which memory was never short.
- `PerfRing`: the ring's places are written by the kernel and read one at a time
  by the sampler; `unsent` is what the kernel dropped and reports with the next
  sample that fits.

`Protocols` has the variables of `RunScript` and of these five; `part` says which
one a behaviour is of. Each is implemented by `Protocols` (`ScriptAlone`,
`TickAlone` ...), since its variables change by its own steps only.

## 4. The runs

| Run | Instance | Checks |
|---|---|---|
| `queue_batched` | three buffers, fill batches, batch 2, ring 2, 1 table, 4 operations | `TypeOK`, `NoDanglingBatch`, `BatchBounded`, implements `SdlOrder` |
| `queue_two_buffers` | two buffers, scalar fills, pacing, fences that wrap | `RawFencesExact`, `BackBufferOffDisplay`, `WaitsAnswered`, `CallbacksReturn` (with `CallsBounded`), `IssuedIsExecuted` |
| `queue_failures` | two textures, 2 tables, 3 operations, 2 failures | `InOrder`, `NothingLost`, `OneBatch`, `OnePresent` |
| `queue_overrun` | failures, no texture | violates `BatchBounded` |
| `queue_dangling` | failures, one texture | violates `NoDanglingBatch` |
| `coherence_textures` | streaming texture and target, budget 1, two pixel values | `TypeOK`, `PixelsKept`, `CopiesAgree`, `InUseSound`, `NoRace`, `ResidentBytesExact`, implements `SdlTextures` |
| `coherence_cases` | `partial`: one texture, two pixels, all rectangles, two buffers | implements `SdlTextures` |
| | `crowded`: three textures, budget 2 | `BudgetKept` |
| | `faulty`: texture and target, budget 1, 1 failure | `FailuresSurvived`: pixels kept and written, no race, bytes exact |
| `coherence_stale_upload` | one texture, two pixels, 1 failure | violates `SurfaceWritten` |
| `launcher` | two coordinators, two Mains, two devices, two outside events | `TypeOK`, `OneAdapter`, `GameHasInput`, `InputReturned`, `CoordinatorEnds` (with `CoordinatorsBounded`) |
| `launcher_exits` | the same | violates `GrabsRestoredOnExit` |
| `surface_tracking` | 2x2 surfaces, two textures, five applications, the last with 1 failure | `TypeOK`, `DrawnAsSdl`, `ContentTrue`, `AlphaTrue` |
| `protocols` | `script`: two runs, two signals | `EndsClean` |
| | `affinity`: three threads, two CPUs, any mask and list | `OthersSpread` |
| | `tick`: ticks of 3, clock to 14 | `PaceKept` |
| | `audio`: two channels, three requests | `PlayingIsNamed`, `RequestsReturn` |
| | `preload`: two actors, three resources in a cycle, 1 shortage | `NothingSkipped`, `PreloadEnds` (with `WorkShrinks`) |
| | `perf`: ring of 3, table of 1, 6 samples | `SummaryExact` |

Why these bounds reach the cases that matter:

- *Batch 2, ring 2.* A batch is empty, partial and full; a flush meets a full
  ring or no free table, waits and is repeated; a fill meets a pending copy and
  the reverse. Four operations fill a batch, overflow it and follow it by a PRESENT.
- *Fences.* `queue_two_buffers` counts completions modulo 8 from 5 on, so the
  comparison is made before, across and after the wrap.
- *Two failures.* The second meets what the first left behind, which is where
  kept batches go wrong.
- *Two pixels.* A dirty rectangle covers one and not the other; unions, partial
  uploads and partial read-backs differ from whole ones. With one pixel and two
  textures the budget of one makes every use of the one evict the other. Three
  textures are the least with a candidate to evict beside the target and the
  texture in use. They are interchangeable, and symmetric in the run; only `crowded`
  has them. The textures of the other two renderers are not, and are explored apart.
- The three renderers of `coherence_cases` are instances of `CoherenceProofs`,
  which adds nothing but theorems to `Coherence`, so that these can be cited.
- *Two coordinators, two Mains.* A second start races the first, and a Main
  with an MGL follows the menu's; one Main dies while it is being handled. Two
  devices allow a partial release. `CHECK_DEADLOCK` is off because
  coordinators and Mains are used up, after which nothing need happen.
- *Two by two pixels.* The least where a rectangle, its complement, a row, a
  column, a diagonal and a point differ, and a flip or a clipped copy moves
  pixels. The applications pair the blend modes with the colours they tell
  apart: `Tints` has transparent pixels that are not black, `Modulations` the
  ones between.
- *Two runs.* The second meets what a killed first one left: its swap file, its
  swappiness, its background process.
- *A ring of three, a clock of four ticks and more, two channels.* The ring
  wraps and overflows, losses are reported with a later sample or not at all;
  frames are shorter than, equal to and longer than one and two ticks; a sound is
  replaced on its own channel and on another. `CHECK_DEADLOCK` is off in
  `protocols` because runs, requests and samples are used up.
- `queue_failures` has no deadlock check because the model stops in `overrun`.

`CallbacksReturn`, `CoordinatorEnds` and `PreloadEnds` each join two statements:
that a count falls with every step (`StepsLeft`, `StepsLeft`, `Work`), and that,
under fairness, its end is reached. TLC checks both; the first is proved.

Each property of a passing run has a mutant in `PROJECT.json`: a plausible slip
in a mapped definition under which the run fails. The slips are the operators
named `<definition>_<slip>`.

### What the violations show

- *A failed flush of a full batch* keeps the batch and its count; the next fill
  or copy is written behind the array (`:1187`, `:1378`).
- *`FreeSurface` ignores a failed flush* (`:770`) and releases a surface which
  the kept batch still names.
- *An upload to a fresh surface that fails is repeated for the dirty rectangle
  only* (`:933`): the rest of the surface stays unwritten and is declared
  current, against the comment at `:86` ("Every pixel outside content equals
  outside_pixel"): it should be zero, and a copy without blending draws what the
  memory held. The shadow keeps the pixels (`keep_shadow`), so they are not lost,
  but reach the surface only when the texture is uploaded whole again (after a
  rotation or an eviction).
- *A coordinator that fails in `release_main_input`* after having released some
  grabs exits without giving them back (`noodles-launcher.c:703`), against what
  its header says.

The first three need a device error or a time-out.

Four more disagreements are known and have no run of their own:

- When `CommitCPURegion` (`:1087`) fails, the shadow already has the new pixels
  while both copies stay marked valid, so `CopiesAgree` fails too when failures
  are allowed. This is why it is checked without failures.
- `OpaqueFillRegion` (`:729`) empties or resets `content` before the fill it
  returns is submitted. When the submission fails, pixels outside `content` differ from
  `outside_pixel`, against the comment at `:86`; later fills of that value and copies
  of the region are then trimmed wrongly. `alpha_state` errs likewise when a
  command fails after some of its rectangles. This is why `DrawnAsSdl`,
  `ContentTrue` and `AlphaTrue` stop at the first failure.
- A `swap_on` past its `dd` when the game ends is met by no part of `swap_off`
  and attaches the swap file afterwards, against the comment at `bundle.sh:258`
  ("switched off when the game exits"). `EndsClean` excepts it (`late`).
- `swap_off` ignores that `swapoff` or `losetup -d` failed (`bundle.sh:263-266`), and
  a signal to the group while it runs ends its `ps`, `awk`, `swapoff` or `losetup` but not
  the shell, which has a trap. Either way the game has exited and swap is still attached,
  against the same comment, until the next start of `run.sh`. `EndsClean` says
  that nothing else is (`left`).

### Fairness

Safety runs assume none. `CommandQueue`'s `FairSpec` assumes the core always
reaches its next command (hardware that runs on its own clock), the thread goes
on inside a callback, and SDL, whose command lists are finite, ends a list it
began. It does not assume that SDL presents, or that any further call comes.
`Launcher`'s `FairSpec` assumes the kernel runs every coordinator and adapter,
and that the game ends at last. Nothing is assumed of Main, of signals or of
devices: each wait for them ends by a time-out in the code. `AudioLock` assumes
that both threads are scheduled and a lock that is free is got; `ActorPreload`
that game ticks go on. Neither assumes that sounds end or actors leave.

## 5. The proofs

| Theorem | Module | Says |
|---|---|---|
| `TypeCorrect` | `CommandQueueProofs` | `TypeOK` |
| `OrderKept` | | `InOrder`: ring and batch hold SDL's operations in order, none twice |
| `BatchesHomogeneous` | | `OneBatch`: one kind and one target pending at a time |
| `PresentsNeverOverlap` | | `OnePresent` |
| `NothingIsLost` | | `NothingLost` |
| `FencesStayExact` | | `RawFencesExact` |
| `BackBufferStaysOff` | | `BackBufferOffDisplay` |
| `BatchesStayBounded` | | `BatchBounded`, if the device does not fail |
| `BatchesNeverDangle` | | `NoDanglingBatch`, if the device does not fail |
| `WaitsAreAnswered` | | `WaitsAnswered`: every wait is for a command in the ring |
| `CallsAreBounded` | | `CallsBounded`: `StepsLeft` falls with every step of a callback |
| `NothingStaysPending` | | without a failure so far, nothing is pending between command lists |
| `QueueRefinesOrder` | | implements `SdlOrder` |
| `CoherenceHolds` | `CoherenceProofs` | `CoherenceInv`, on which the next seven rest |
| `TypesHold` | | `TypeOK` |
| `BytesStayExact` | | `ResidentBytesExact` |
| `BudgetHolds` | | `BudgetKept` |
| `NothingRaces` | | `NoRace`, up to one device failure |
| `PixelsStay` | | `PixelsKept` and `SurfaceWritten`, if the device does not fail or surfaces are drawn whole |
| `CopiesStayEqual` | | `CopiesAgree`, if the device does not fail |
| `InUseCovers` | | `InUseSound`, if the device does not fail |
| `RendererShowsSdl` | | implements `SdlTextures`, if the device does not fail |
| `CrowdKeepsBudget` | `CoherenceCasesProofs` | `BudgetKept` of the run's crowded renderer |
| `FailureSurvived` | | `FailuresSurvived` of the renderer that fails |
| `PartsShowSdl` | | the renderer with partial updates implements `SdlTextures` |
| `LauncherTypes` | `LauncherProofs` | `TypeOK` |
| `OneGameAtATime` | | `OneAdapter` |
| `GameGetsInput` | | `GameHasInput` |
| `MainGetsInputBack` | | `InputReturned` |
| `CoordinatorsAreBounded` | | `CoordinatorsBounded`: `StepsLeft` falls with every step of a coordinator and never grows |
| `ContentStaysTrue` | `SurfaceTrackingProofs` | `ContentTrue` |
| `SurfaceTypes` | | `TypeOK` |
| `AlphaStaysTrue` | | `AlphaTrue` |
| `DrawsAsSdl` | | `DrawnAsSdl` |
| `ScriptEndsClean` | `RunScriptProofs` | `EndsClean` |
| `TicksKeepPace` | `GameThreadsProofs` | `PaceKept` |
| `SoundsNamed` | | `PlayingIsNamed` |
| `ThreadsSpread` | | `OthersSpread` |
| `PreloadComplete` | | `NothingSkipped` |
| `PreloadBounded` | | `WorkShrinks`: `Work` never grows and falls with every tick |
| `SummaryAccounts` | `PerfRingProofs` | `SummaryExact` |

The last seven are about `Protocols`; each follows from the same statement about
the module of its own (`RunsEndClean`, `PaceIsKept`, `PlayingStaysNamed`,
`OthersStaySpread`, `PreloadSkipsNothing`, `PreloadWorkShrinks`,
`SummaryStaysExact`). Those of `CoherenceCasesProofs` are about
`MCCoherenceCases`.

All hold for every value of the constants that the named assumptions admit:
sizes are positive, names are distinct, textures, cells and what is preloaded
(actors and resources) are finitely many, and a frame is shorter than half the
fence range. `CoordinatorsAreBounded` asks for finitely many devices besides, as
its bound counts them. Nothing else bounds the number of
textures, operations, processes, devices, outside events, threads, channels,
runs or signals, the sizes of batches, ring, budget and surfaces, or what an
application draws.

Where a theorem asks for a device that does not fail (`MaxFailures = 0`), the
property is false otherwise: `queue_overrun`, `queue_dangling` and
`coherence_stale_upload` show how. `PixelsStay` needs no such device when every
draw covers the whole surface, since the stale upload needs a part that was not
redrawn; `faulty` is an instance of that. `NoRace` survives one failure: it takes one
to leave a batch pending after its command list, and a second for the
flush that should then precede a release. The `SurfaceTracking` properties speak
of states before the first failure themselves.

*CommandQueue.* The safety invariants are not inductive. What a
function may rely on was established by the functions the callback called
before, so `QueueInv` adds, by `pc` and callback: which batches are already
empty (`FlushInv`), that the operation about to join a batch fits it
(`TargetInv`), that PRESENT is pushed only after the earlier one was waited for
(`PresentInv`), and that everything queued is older than the operation being
served (`OrderInv`). `Routes` reads off `After` from where each function is
reached. The invariant survives `DeviceFails` because a failed callback leaves the
batches as they were, and `OrderInv` does not require them to be empty. On top of it:

- `LostInv`: behind a full batch the operation served is queued already, so that
  a flush that fails there does not lose it.
- `FenceInv`: no more commands than the ring holds are unexecuted, no frame has
  more than `FrameMax`, and the two fences stored are those of the last PRESENT
  and the command before it. Counts less than half the range apart then
  compare right across the wrap (`WrappedOrder`).
- `BackInv`: a callback past its wait that touches the back buffer has no PRESENT
  in flight; `update` never touches it.
- `SizeInv` and `FreedInv`, for a device that does not fail: a batch is full only
  behind the operation that filled it; a texture is freed with nothing pending,
  and nothing that is about to join a batch names it.

That every callback returns has three parts, two of which need no fairness:

- `WaitsAreAnswered`. A wait for a fence is for one of the last frame, and
  `FenceInv` knows where that is; one after EAGAIN is for the completion after the
  count read when the push was refused. `StallInv` says that, until that
  completion, there is a command in the ring to complete: the ring was full, or
  it held what used the tables.
- `CallsAreBounded`. A function of a callback is called at a later stage than the
  one before it (`StagesPass`); a push adds one command to the ring, a command
  completed ends one retry. So `StepsLeft`, four for a stage, three for a
  command and at most two for a retry, falls with every step of the thread and the core.
- That the thread and the core take their steps is `FairSpec`, and TLC's.

`NothingStaysPending` rests on `PendingInv`: the operations of a command list are
served within it, no other callback adds to a batch, and until a failure both
batches are empty when the list ends, which flushes them (`FlushInv`). It is the safety part of `IssuedIsExecuted`, and what the third
conjunct of `CoherenceInv` takes from this module.

*The refinement of `SdlOrder`.* `FrameInv` numbers the operations and ties the
PRESENT of the frame to its place in the ring. Pushing a batch does not change
the set of operations accepted, so flushes, waits and refusals are stutters;
joining a batch or being pushed alone is `Accept` (`AcceptRefines`), the core's
step is `Execute` of operations that `InOrder` shows to be the oldest
(`ExecuteRefines`), and an access is `Access` because its callback has flushed
both batches and the SDK waits for the surface (`AccessRefines`).

*Coherence.* `CoherenceInv` is `TypeOK`, `Good` of the renderer's state, and that a
batch left over between command lists tells of a failure. `Good` collects what the
functions rely on from one another:

- `Backed`: a copy marked current exists, every texture has one, and what is to be
  uploaded is a rectangle. Without it `EnsureCPU` might read back a surface
  that is not there.
- `Sound`: current copies hold pixels that were written; two that are current are
  equal; a surface that is out of date differs from the shadow inside the dirty
  rectangle only. That is why uploading the dirty rectangle is enough.
- `Accounts`: `resident_bytes` is what is resident, and more than the budget only
  with at most two textures.
- the target and the composition have a current copy, locked textures are
  streaming ones with a current shadow and not in the batch, and `gpu_in_use`
  covers the core's and the batch's use.

`Sound` and the last part carry an exception `X`: the surfaces a function is in the
middle of changing. Each function of the renderer has one lemma: from a `Good`
state it leaves one, it only `Moved` pixels between copies, and what its
callers rely on holds when it succeeds. Failure half-way is the same lemma's other outcome,
which is how `BytesStayExact` and `BudgetHolds` hold for any number of failures.

*The refinement of `SdlTextures`.* What only moved pixels is the `Same` to SDL
(every `ImageOf` is kept), what a callback drew is what SDL's call `Drew`, and each
callback's outcomes are then a step of the abstract call or a stutter
(`Follows`).

*MCCoherenceCases.* A behaviour is one of the renderer it begins with, so that the
run's three properties are theorems of `CoherenceProofs`, cited through the
instances. What is left to show is that the instances meet the assumptions and
hypotheses: each image of `Faulty` has one cell, so every draw covers its
surface, and one failure is what `NothingRaces` allows.

*Launcher.* `Held` says of each coordinator: past the lock it holds the lock
file; its child lives only while it forks or waits; its virtual keyboard exists
only in the error display, never in a probe for the game. `OneAdapter` follows,
since two living children would need two holders. For `GameHasInput`, `Cleared`
says that a probe for the game which has met no busy device leaves behind it
only devices Main does not hold or has opened since the probe began, also the
device it holds at the moment, and that this stays so until the adapter is
reaped. A step of another coordinator cannot disturb it, as none works
meanwhile; Main's framebuffer keys cannot, as no keyboard exists; what Main
opens is recorded in `fresh`.

`InputReturned` speaks of all that may happen after the game, so its invariant
says who can take a device at all. `MainsInv`: one Main is alive at a time; a
device is held by a living Main or by the coordinator that probes it; only a Main with a
rejected MGL shows its framebuffer; only a living Main has descriptors.
`ServesInv`: a coordinator has seen its Main alive, works for a game only for a game's
MGL and for an error only for a rejected one. `ReturnInv`: while a coordinator
restores, Main holds what was walked already (`Retaken`); after its
exit Main holds all it has open, and any other coordinator still at work only
watches, having met that Main at its start (`Returned`), so that none
releases, probes or kills it.

`StepsLeft` counts what a coordinator has before it: the place it is at, two steps
for each device still to be probed, one for each descriptor still to be changed,
the looks left until the time-out, and its adapter's steps (`LooksWeigh`,
`StepShrinks`). It needs that the device a probe holds is among those still to
be looked at (`ProbeInv`). Other coordinators, Main, signals and devices that
come and go leave it alone (`TouchKeeps`, `Others`): a walk is over the descriptors listed at its
beginning, and a time-out runs whatever is found.

*SurfaceTracking.* `ContentInv` adds types and `TargetReady` (while a command runs
the target's surface is current) to what `ContentTrue` says of every tracked
surface (`Known`). It is needed because a fill inside a command is trimmed to
the content of the device's pixels, which are the image only when the surface is
current. Each step is reduced to one surface (`OneSurface`): what the step draws
lies in a rectangle, and the content grows by a rectangle that holds it. The
lemmas on `Meet`, `Hull` and `AddContent` carry the argument. A failed step is
outside of `ContentTrue`, but its successors must keep the types.

`PictureInv` adds to it that images are made of pixels, that every content is on
its surface (`Within`), and, until a failure, that the image is SDL's and
`alpha_state` right of it (`Right`), the running command's local instead of the
target's once it drew. The three must be shown together: a copy is skipped or turned
into another because of the source's `alpha_state` and content, so
its pixels are SDL's only if those are right, and they are right of the result
only if its pixels are SDL's. The lemmas that carry it are about the functions alone:

- `FillExact`: what an unblended fill leaves out had its colour already.
- `HardwareExact`: a copy that is skipped, drawn unblended or trimmed to the
  source's content leaves the pixels of the whole copy. It needs where a copy
  takes each pixel from (`SampledInside`, `ClippedSamples`, `TrimmedSamples`),
  with flips and clips, and what blending does to transparent and opaque
  pixels (`BlendFacts`, `ModulateFacts`).
- `ClippedAsSdl`: the effective clip is SDL's viewport and clip rectangle.
- `FilledRight`, `CopiedRight`, `UpdatedRight`, `WipedRight`: the `alpha_state`
  computed from a colour, a source or new pixels is right of the result.

*RunScript.* `ScriptInv` has four parts: a game that still runs has cost a
signal for every `wait` passed (`GameFirst`); unless the last `swap_off` was
late, no background process sets anything up after its first command, so what its
second command left is all that is attached (`SwapUndone`); while every run ended by itself, the
swappiness read is the user's (`UserKept`), and a mode that is not the menu's is
one this run must restore (`VideoKept`).

*PerfRing.* That nothing is counted twice or missed needs a sum over the records
still in the ring. `Accounted` says it without recursion: some function gives
for each record the samples that all records before it stand for, grows by a
record's weight (`Weight`) from the sampler's tail to the kernel's head, is what
was read at the tail, and with `unsent` is what was taken at the head. The sampler
moves along it, the kernel extends it (`TakeStep`); that it overwrites nothing
unread is `Window`, with `PlacesDiffer`: two counts less than a ring apart have
different places. `Drains` says that the last drain, after the event is
disabled, meets all there is.

*ActorPreload.* `PreloadInv`: an actor or resource once seen is served, gone or
still queued, what a served one names has been seen, and there is work
whenever a queue is not empty. With empty queues the seen ones are served, so
that what is served is closed under `Spells` and `Needs`. That `QueueResources`
leaves nothing out needs that `SetToSeq` lists a finite set (`Listed`). `Work`
weighs an actor with three, for itself and the two poses it may queue, and what
was never seen as if it were queued; a tick that queues resources takes them
from the unseen.

*The others.* `ThreadAffinity` needs that without a split all masks are the
process's and with one the recorded mask is (`MasksInv`); `AudioLock` that no
sound plays on the channel whose callback is due, and that until `Request` has
entered its sound that sound or none plays (`ChannelsInv`); `GameTick`'s
property is inductive with its types.

### Checked by TLC only

Every invariant, every action property and every refinement that a passing run
checks is proved. Left to TLC is liveness under fairness, which the prover does not
do: `IssuedIsExecuted`, `RequestsReturn`, and the second halves of
`CallbacksReturn`, `CoordinatorEnds` and `PreloadEnds`. What they rest on without
fairness is proved: nothing stays in a batch (`NothingStaysPending`), waits are
answered (`WaitsAreAnswered`), and callbacks, coordinators and preloading
have a bounded number of steps (`CallsAreBounded`, `CoordinatorsAreBounded`,
`PreloadBounded`). `RequestsReturn` has no such part: a request that holds no lock
waits for the other thread only.

That `SdlTextures` is implemented under failures is neither checked nor claimed:
a draw that fails half-way has no counterpart in SDL.

## 6. Not modelled

- *Pixel arithmetic, colour conversion, rasterisation of triangles and of lines of
  other slopes, NEON code*: functions of their inputs without a protocol; the
  render test compares them with SDL. `SurfaceTracking` takes them as SDL
  defines them.
- *Statistics and the frame tracer*: counters that are printed. The one part
  of the statistics that waits, the sampled fence, is in `CommandQueue`.
- *Rendering patches 0002-0005 and 0007*: local changes to GemRB code that is
  not in the repository.
- *The music stream of patch 0001*: the state it keeps is inside
  `SDL_AudioStream`, behind a mutex that is held across no other lock.
- *What preloading decodes*, and the least-recently-used order of GemRB's
  factory cache: no property here tells them apart.
- *The parts of `run.sh` that choose drives, set variables and write logs*, and
  the sampler's report: sequential, without an effect on what is restored or counted.
- *The input harness, benches, tests, host tools, build and release scripts*:
  they replay, measure, use the SDK or run once, in sequence.
- *The core's own logic, the SDK and Main*: not in the repository; modelled by
  what the code relies on, and marked external in the map.

## 7. Running

    tlc -workers 2 -config MCQueueBatched.cfg MCCommandQueue.tla
    tlc -workers 2 -config MCLauncher.cfg Launcher.tla
    tlc -workers 2 -config MCSurfaceTracking.cfg MCSurfaceTracking.tla
    tlc -workers 2 -config MCProtocols.cfg MCProtocols.tla
    tlapm CommandQueueProofs.tla
    tlapm CoherenceProofs.tla        # about twelve minutes
    tlapm CoherenceCasesProofs.tla
    tlapm LauncherProofs.tla
    tlapm SurfaceTrackingProofs.tla  # about four minutes

`MCCommandQueue`, `MCCoherence` and `MCSurfaceTracking` define the finite values
the configurations need, and so does `MCProtocols` for `Protocols`;
`MCCoherenceCases` combines instances of `CoherenceProofs`; `Launcher` is run as it is.
