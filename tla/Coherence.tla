------------------------------ MODULE Coherence ------------------------------
(***************************************************************************)
(* Where the pixels of the Noodles SDL renderer's textures are: in the CPU *)
(* shadow, in a managed surface of the core, or in both; how they move     *)
(* between the two, and how surfaces are kept within the residency budget. *)
(*                                                                         *)
(* A surface's device image is the one it has once the queued and pending  *)
(* commands have run, which CommandQueue and SdlOrder justify; pend holds  *)
(* the surfaces the unsubmitted batch names, which the CPU must not touch. *)
(*                                                                         *)
(* Each function of the renderer is an operator from a state of the        *)
(* renderer to its possible outcomes, and each callback is one action.     *)
(***************************************************************************)
EXTENDS Integers, FiniteSets

CONSTANTS
  Streaming,     \* textures SDL may lock
  Targets,       \* textures SDL may render to
  Composition,   \* the default target: the core's back buffer
  Cells,         \* pixels of a surface, on a line
  Values,        \* pixel values written
  Blank,         \* the value of a new texture's pixels
  Junk,          \* the value of memory not written yet
  Rects,         \* rectangles SDL uses
  Bytes,         \* resident_bytes of each texture
  Budget,        \* resident_budget
  ThreeBuffers,  \* three_buffers
  MaxFailures    \* bound: device errors, time-outs and failed allocations

Textures == Streaming \cup Targets
Surfaces == Textures \cup {Composition}
Pixels == Values \cup {Junk}

ASSUME NamesAssumption ==
  /\ Streaming \cap Targets = {}
  /\ Composition \notin Textures
  /\ IsFiniteSet(Textures)
ASSUME PixelsAssumption ==
  /\ Cells \subseteq Int /\ Cells # {} /\ IsFiniteSet(Cells)
  /\ Rects \subseteq SUBSET Cells /\ {} \notin Rects /\ Cells \in Rects
  /\ Blank \in Values /\ Junk \notin Values
ASSUME BoundsAssumption ==
  /\ Bytes \in [Textures -> Nat \ {0}]
  /\ Budget \in Nat
  /\ ThreeBuffers \in BOOLEAN
  /\ MaxFailures \in Nat

VARIABLES
  data,     \* NOODLES_RenderData with its textures
  inQueue,  \* RunCommandQueue is running
  call      \* what the last call showed, returned or copied (history)

vars == <<data, inQueue, call>>

Quiet == [kind |-> "quiet"]
Shown(image) == [kind |-> "present", image |-> image]
Returned(image) == [kind |-> "read", image |-> image]
Copied(source) == [kind |-> "copy", source |-> source]

NoImage == <<>>
Plain(v) == [c \in Cells |-> v]
Images == [Cells -> Values]

\* What may be drawn in a rectangle.
Drawings(r) == [r -> Values]

\* Within r, the pixels of one image; elsewhere those of another.
Over(old, r, new) == [c \in Cells |-> IF c \in r THEN new[c] ELSE old[c]]

\* SDL_UnionRect
Hull(r) == {c \in Cells : \E a, b \in r : a <= c /\ c <= b}

-----------------------------------------------------------------------------
(***************************************************************************)
(* Outcomes of a function: the state it leaves, and whether it succeeded.  *)
(***************************************************************************)

Done(s) == {[state |-> s, ok |-> TRUE]}
Failed(s) == {[state |-> s, ok |-> FALSE]}

\* A call that may report an error, having done nothing.
Call(s, done) ==
  Done(done) \cup
  IF s.failures < MaxFailures
  THEN Failed([s EXCEPT !.failures = @ + 1]) ELSE {}

\* One function after another; an error ends the callback.
Then(outcomes, Rest(_)) ==
  {o \in outcomes : ~o.ok} \cup (UNION {Rest(o.state) : o \in {p \in outcomes : p.ok}})

-----------------------------------------------------------------------------

HasShadow(s, t) == s.surf[t].shadow # NoImage
HasSurface(s, t) == s.surf[t].device # NoImage
Resident(s) == {t \in Textures : HasSurface(s, t)}

\* last_use, as the set of resident textures used later.
TouchSurface(s, t) ==
  IF t = Composition THEN s
  ELSE LET others == Resident(s) \ {t}
       IN  [s EXCEPT !.surf = [u \in Surfaces |->
              [s.surf[u] EXCEPT !.later = IF u \in others THEN @ \cup {t} ELSE {}]]]

WaitPresent(s) ==
  IF s.presentPending THEN Call(s, [s EXCEPT !.presentPending = FALSE]) ELSE Done(s)

\* The pending batch reaches the core, which from then on uses its surfaces.
FlushQueued(s) ==
  IF s.pend = {} THEN Done(s)
  ELSE Call(s, [s EXCEPT !.pend = {},
                         !.surf = [u \in Surfaces |->
                            [s.surf[u] EXCEPT !.busy = @ \/ u \in s.pend \ {Composition}]]])

\* The SDK waits until the core is done with a surface; an unsubmitted batch
\* it knows nothing of.
Reach(s, t) ==
  [s EXCEPT !.surf[t].busy = FALSE, !.raced = @ \/ t \in s.pend]

\* With two buffers, the back buffer is reached only once it is not displayed.
BackBuffer(s, t) ==
  IF t = Composition /\ ~ThreeBuffers THEN WaitPresent(s) ELSE Done(s)

SurfaceRead(s, t, r) ==
  Then(BackBuffer(s, t), LAMBDA u :
    Call(u, [Reach(u, t) EXCEPT
               !.surf[t].shadow = Over(@, r, u.surf[t].device)]))

SurfaceUpdate(s, t, r) ==
  Then(BackBuffer(s, t), LAMBDA u :
    Call(u, [Reach(u, t) EXCEPT
               !.surf[t].device = Over(@, r, u.surf[t].shadow)]))

AllocateShadow(s, t) ==
  IF HasShadow(s, t) THEN Done(s)
  ELSE Call(s, [s EXCEPT !.surf[t].shadow = Plain(Junk)])

\* Slip: the shadow is released while the surface is out of date.
DropRedundantShadow_Stale(s, t) ==
  IF /\ t # Composition /\ ~s.surf[t].keepShadow
     /\ t # s.target /\ s.surf[t].lock = {} /\ HasSurface(s, t)
  THEN [s EXCEPT !.surf[t].shadow = NoImage, !.surf[t].cpuValid = FALSE]
  ELSE s

DropRedundantShadow(s, t) ==
  IF /\ t # Composition /\ ~s.surf[t].keepShadow
     /\ t # s.target /\ s.surf[t].lock = {}
     /\ HasSurface(s, t) /\ s.surf[t].gpuValid
  THEN [s EXCEPT !.surf[t].shadow = NoImage, !.surf[t].cpuValid = FALSE]
  ELSE s

\* Slip: a readback does not submit the pending batch first.
EnsureCPU_NoFlush(s, t) ==
  IF s.surf[t].cpuValid /\ HasShadow(s, t) THEN Done(s)
  ELSE Then(AllocateShadow([s EXCEPT !.surf[t].cpuValid = FALSE], t), LAMBDA v :
    IF ~v.surf[t].gpuValid
    THEN Done([v EXCEPT !.surf[t].shadow = Plain(Blank), !.surf[t].cpuValid = TRUE])
    ELSE IF ~HasSurface(v, t) THEN Failed(v)
    ELSE Then(SurfaceRead(v, t, Cells), LAMBDA w :
      Done(TouchSurface([w EXCEPT !.surf[t].cpuValid = TRUE,
                                  !.surf[t].inUse = FALSE], t))))

EnsureCPU(s, t) ==
  Then(FlushQueued(s), LAMBDA u :
    IF u.surf[t].cpuValid /\ HasShadow(u, t) THEN Done(u)
    ELSE Then(AllocateShadow([u EXCEPT !.surf[t].cpuValid = FALSE], t), LAMBDA v :
      IF ~v.surf[t].gpuValid
      THEN Done([v EXCEPT !.surf[t].shadow = Plain(Blank), !.surf[t].cpuValid = TRUE])
      ELSE IF ~HasSurface(v, t) THEN Failed(v)
      ELSE Then(SurfaceRead(v, t, Cells), LAMBDA w :
        Done(TouchSurface([w EXCEPT !.surf[t].cpuValid = TRUE,
                                    !.surf[t].inUse = FALSE], t)))))

-----------------------------------------------------------------------------
(***************************************************************************)
(* Residency.  An eviction pass releases the least recently used textures  *)
(* among the candidates: as many as the budget requires, and more while    *)
(* the device is out of memory.                                            *)
(***************************************************************************)

Candidates(s, t) == Resident(s) \ {t, s.target}

Prefixes(s, C) ==
  {P \in SUBSET C : \A p \in P, q \in C \ P : q \in s.surf[p].later}

\* Their bytes in all, each counted by itself.
BytesOf(P) == Cardinality(UNION {{t} \X (1 .. Bytes[t]) : t \in P})

Release(s, P) ==
  [s EXCEPT
     !.residentBytes = @ - BytesOf(P),
     !.raced = @ \/ P \cap s.pend # {},
     !.surf = [u \in Surfaces |->
       IF u \in P
       THEN [s.surf[u] EXCEPT !.device = NoImage, !.gpuValid = FALSE,
                              !.busy = FALSE, !.later = {}]
       ELSE [s.surf[u] EXCEPT !.later = @ \ P]]]

\* Evicted textures keep their pixels in their shadows; NOODLES_DrainLink
\* waits for the whole queue.
Evict(s, P) ==
  IF P = {} THEN s
  ELSE Release(
    [s EXCEPT !.surf = [u \in Surfaces |->
       IF u \in P /\ ~s.surf[u].cpuValid
       THEN [s.surf[u] EXCEPT !.shadow = IF s.surf[u].gpuValid THEN s.surf[u].device
                                         ELSE Plain(Blank),
                              !.cpuValid = TRUE, !.inUse = FALSE, !.busy = FALSE]
       ELSE [s.surf[u] EXCEPT !.busy = FALSE]]], P)

\* An error in a step that had no other effect.
Stops(s) ==
  IF s.failures < MaxFailures THEN Failed([s EXCEPT !.failures = @ + 1]) ELSE {}

\* The readback, the drain, the release or the collection of one texture fails.
EvictionStops(s, u) ==
  {o \in EnsureCPU(s, u) : ~o.ok} \cup
  (UNION {Stops(o.state) \cup Stops(Release(o.state, {u})) :
            o \in {p \in EnsureCPU(s, u) : p.ok}})

\* Slip: a new surface is not counted.
Created_Uncounted(s, t) ==
  TouchSurface([s EXCEPT !.surf[t].device = Plain(Junk), !.surf[t].busy = FALSE], t)

Created(s, t) ==
  TouchSurface([s EXCEPT !.surf[t] = [@ EXCEPT !.device = Plain(Junk), !.busy = FALSE],
                         !.residentBytes = @ + Bytes[t]], t)

\* Slip: the budget is not looked at.
Enough_Always(s, t, P) == TRUE

Enough(s, t, P) == s.residentBytes - BytesOf(P) + Bytes[t] <= Budget

\* Eviction in order of last use, as far as the budget or the device demands.
MakeRoom(s, t) ==
  LET C == Candidates(s, t)
      Evictable == Prefixes(s, C)
      Sufficient == {P \in Evictable : P = C \/ Enough(s, t, P)}
      Evicted == {P \in Evictable : \E Q \in Sufficient : Q \subseteq P}
      Following(P) == {c \in C \ P : P \cup {c} \in Evictable}
  IN  (UNION {Done(Created(Evict(s, P), t)) \cup Stops(Evict(s, P)) : P \in Evicted})
      \cup UNION {UNION {EvictionStops(Evict(s, P), c) : c \in Following(P)} : P \in Evictable}

MakeResident(s, t) ==
  IF t = Composition \/ HasSurface(s, t) THEN Done(TouchSurface(s, t))
  ELSE Then(FlushQueued(s), LAMBDA u : MakeRoom(u, t))

-----------------------------------------------------------------------------
(***************************************************************************)
(* Moving pixels to the core.                                              *)
(***************************************************************************)

\* The surface now has every pixel of the shadow.
Uploaded(s, t) ==
  [s EXCEPT !.surf[t] = [@ EXCEPT !.gpuValid = TRUE, !.inUse = FALSE, !.dirty = {}]]

EnsureGPU(s, t) ==
  LET partial == t # Composition /\ HasSurface(s, t) /\ s.surf[t].dirty # {}
      Begin == IF ~HasSurface(s, t) \/ ~s.surf[t].gpuValid
               THEN FlushQueued(s) ELSE Done(s)
  IN  Then(Begin, LAMBDA u :
        Then(MakeResident(u, t), LAMBDA v :
          IF v.surf[t].gpuValid THEN Done(DropRedundantShadow(v, t))
          ELSE IF ~v.surf[t].cpuValid THEN Failed(v)
          ELSE Then(SurfaceUpdate(v, t, IF partial THEN v.surf[t].dirty ELSE Cells),
                    LAMBDA w : Done(DropRedundantShadow(Uploaded(w, t), t)))))

\* NOODLES_TryRotateTexture: a texture the core still uses gets a new surface,
\* unless there is no room for one; gpuValid then stays FALSE.
Rotate(s, t) ==
  IF /\ s.presentPending /\ HasSurface(s, t) /\ s.surf[t].inUse
     /\ s.surf[t].cpuValid /\ HasShadow(s, t)
  THEN Then(FlushQueued(s), LAMBDA u :
         Done(u) \cup
         Call(u, TouchSurface([Uploaded(u, t) EXCEPT
                   !.surf[t] = [@ EXCEPT !.device = u.surf[t].shadow, !.busy = FALSE]], t)))
  ELSE Done(s)

\* The core's copy of the rectangle is renewed at once, unless that would
\* wait for the core to finish the frame: then EnsureGPU does it when needed.
UploadNow(s, t, r) ==
  IF s.surf[t].gpuValid \/ (s.presentPending /\ s.surf[t].inUse) THEN Done(s)
  ELSE Then(SurfaceUpdate(s, t, r), LAMBDA u :
         Done(DropRedundantShadow(TouchSurface(Uploaded(u, t), t), t)))

\* The pixels of a shadow that is not valid are as good as never written.
\* The composition's gpu_in_use is never read.
MarkGPUWrite(s, t) ==
  [s EXCEPT !.surf[t] = [@ EXCEPT !.gpuValid = TRUE, !.cpuValid = FALSE,
                                  !.shadow = IF HasShadow(s, t) THEN Plain(Junk) ELSE NoImage,
                                  !.inUse = t # Composition, !.dirty = {}]]

\* Slips: only the last change is remembered; the core's copy still counts.
CPUWrite_LastRect(s, t, r, from) ==
  [s EXCEPT !.surf[t].shadow = Over(@, r, from),
            !.surf[t].cpuValid = TRUE, !.surf[t].gpuValid = FALSE,
            !.surf[t].dirty = r]
CPUWrite_StaleSurface(s, t, r, from) ==
  [s EXCEPT !.surf[t].shadow = Over(@, r, from),
            !.surf[t].cpuValid = TRUE,
            !.surf[t].dirty = Hull(@ \cup r)]

\* New pixels in the shadow, of which the core knows nothing yet.
Drawn(x, r, from, dirty) ==
  [x EXCEPT !.shadow = Over(x.shadow, r, from), !.cpuValid = TRUE, !.gpuValid = FALSE,
            !.dirty = dirty]

CPUWrite(s, t, r, from) ==
  [s EXCEPT !.surf[t] = Drawn(@, r, from, Hull(@.dirty \cup r))]

\* The whole shadow is newer than the surface.
MarkCPUWrite(s, t, r, from) ==
  [s EXCEPT !.surf[t] = Drawn(@, r, from, Cells)]

\* A fill or copy joins the pending batch; pushing a full one may fail.
Submit(s, t, refs, r, from) ==
  LET queued == [s EXCEPT !.surf[t].device = Over(@, r, from),
                          !.pend = @ \cup refs]
  IN  Call(s, queued) \cup Stops(queued)

-----------------------------------------------------------------------------
(***************************************************************************)
(* The callbacks.                                                          *)
(***************************************************************************)

Empty ==
  [live |-> FALSE, shadow |-> NoImage, device |-> NoImage,
   cpuValid |-> FALSE, gpuValid |-> FALSE, keepShadow |-> FALSE,
   lock |-> {}, dirty |-> {}, inUse |-> FALSE, busy |-> FALSE, later |-> {}]

BackBufferSurface ==
  [Empty EXCEPT !.live = TRUE, !.shadow = Plain(Junk), !.device = Plain(Blank),
                !.gpuValid = TRUE]

Init ==
  /\ data = [surf |-> [t \in Surfaces |-> IF t = Composition THEN BackBufferSurface
                                          ELSE Empty],
             target |-> Composition, pend |-> {}, presentPending |-> FALSE,
             residentBytes |-> 0, failures |-> 0, raced |-> FALSE]
  /\ inQueue = FALSE
  /\ call = Quiet

Silent == call' = Quiet

\* A callback outside a command list, and one queued command of a list.
Outside(outcomes) ==
  /\ ~inQueue
  /\ \E o \in outcomes : data' = o.state
  /\ inQueue' = inQueue
  /\ Silent

Queued(outcomes) ==
  /\ inQueue
  /\ \E o \in outcomes : data' = o.state /\ inQueue' = (inQueue /\ o.ok)
  /\ Silent

QueuedCopy(source, outcomes) ==
  /\ inQueue
  /\ \E o \in outcomes :
       /\ data' = o.state
       /\ inQueue' = (inQueue /\ o.ok)
       /\ call' = IF o.ok THEN Copied(source) ELSE Quiet

Live(t) == data.surf[t].live
Usable(t) == Live(t) /\ data.surf[t].lock = {}
target == data.target

CreateTexture(t) ==
  /\ data.surf[t] = Empty
  /\ Outside(Call(data, [data EXCEPT !.surf[t] =
       [Empty EXCEPT !.live = TRUE, !.shadow = Plain(Blank), !.cpuValid = TRUE]]))

\* Without the wait a texture stays behind, resident and never used again.
\* FreeSurface goes on when its flush fails.
DestroyTexture(t) ==
  /\ Live(t)
  /\ data.target = t => data.failures > 0
  /\ Outside(
       UNION {IF ~o.ok THEN Done([o.state EXCEPT !.surf[t].live = FALSE])
              ELSE LET s == [o.state EXCEPT !.target = IF @ = t THEN Composition ELSE @]
                   IN  {[state |-> [(IF HasSurface(f.state, t) THEN Release(f.state, {t})
                                     ELSE f.state) EXCEPT !.surf[t] = Empty],
                         ok |-> TRUE] : f \in FlushQueued(s)} :
              o \in WaitPresent(data)})

\* Without valid pixels in the shadow they are read back, which waits for the
\* frame in flight.
BeginCPUAccess(t) ==
  Then(IF HasShadow(data, t) /\ data.surf[t].cpuValid THEN Done(data)
       ELSE WaitPresent(data),
       LAMBDA s : EnsureCPU([s EXCEPT !.surf[t].keepShadow = TRUE], t))

UpdateTexture(t, r, from) ==
  /\ Usable(t)
  /\ LET was == data.surf[t].gpuValid
     IN  Outside(Then(BeginCPUAccess(t), LAMBDA u :
           Then(IF was THEN Rotate(CPUWrite(u, t, r, from), t)
                ELSE Done(CPUWrite(u, t, r, from)),
                LAMBDA v : IF HasSurface(v, t) /\ was THEN UploadNow(v, t, r)
                           ELSE Done(v))))

LockTexture(t, r) ==
  /\ Usable(t)
  /\ Outside(Then(BeginCPUAccess(t), LAMBDA s :
               Done([s EXCEPT !.surf[t].lock = r])))

\* What SDL's caller wrote into the locked rectangle takes effect here; nobody
\* reads or draws a locked texture.
UnlockTexture(t, from) ==
  /\ Live(t) /\ data.surf[t].lock # {}
  /\ LET was == data.surf[t].gpuValid
         r == data.surf[t].lock
         s == [CPUWrite(data, t, r, from) EXCEPT !.surf[t].lock = {}]
     IN  Outside(IF ~HasSurface(s, t) THEN Done(s)
                 ELSE Then(IF was THEN Rotate(s, t) ELSE Done(s), LAMBDA u :
                        UploadNow(u, t, IF was THEN r ELSE Cells)))

SetRenderTarget(t) ==
  /\ Usable(t) /\ t # data.target
  /\ Outside(Then(FlushQueued(data), LAMBDA s :
               Done(DropRedundantShadow([s EXCEPT !.target = t], data.target))))

BeginQueue ==
  /\ ~inQueue
  /\ inQueue' = TRUE
  /\ data' = data
  /\ Silent

\* The batch is full, or the next command is of the other kind.
FlushEarly ==
  data.pend # {} /\ Queued(FlushQueued(data))

EndQueue ==
  /\ inQueue
  /\ inQueue' = FALSE
  /\ \E o \in FlushQueued(data) : data' = o.state
  /\ Silent

Clear(v) ==
  Queued(Then(MakeResident(data, target), LAMBDA s :
    Then(Submit(s, target, {target}, Cells, Plain(v)), LAMBDA u :
      Done(MarkGPUWrite(u, target)))))

\* FILL_RECTS, and points and lines the core can fill.
FillRects(r, from) ==
  Queued(Then(EnsureGPU(data, target), LAMBDA s :
    Then(Submit(s, target, {target}, r, from), LAMBDA u :
      Done(MarkGPUWrite(u, target)))))

\* Only a shadow that is not valid needs the region read back.
PrepareCPURegion(s, t, r) ==
  Then(FlushQueued(s), LAMBDA u :
    Then(EnsureGPU(u, t), LAMBDA v :
      Then(AllocateShadow(v, t), LAMBDA w :
        IF w.surf[t].cpuValid THEN Done(w)
        ELSE Then(SurfaceRead(w, t, r), LAMBDA x :
          Done(TouchSurface([x EXCEPT !.surf[t].inUse = FALSE], t))))))

CommitCPURegion(s, t, r) ==
  Then(SurfaceUpdate(s, t, r), LAMBDA u :
    Done(TouchSurface([Uploaded(u, t) EXCEPT
           !.surf[t].shadow = IF u.surf[t].cpuValid THEN @ ELSE Plain(Junk)], t)))

\* Fills and primitives the core cannot do are drawn by the CPU, over the
\* pixels read back, into part of the region.
PrimitiveFallback(region, r, from) ==
  /\ r \subseteq region
  /\ Queued(Then(PrepareCPURegion(data, target, region), LAMBDA s :
       CommitCPURegion([s EXCEPT !.surf[target].shadow = Over(@, r, from)],
                       target, region)))

\* Slip: the source of a queued copy is not marked as in use.
CopyBySprite_SourceIdle(source, r) ==
  /\ Usable(source) /\ source # target
  /\ QueuedCopy(source, Then(EnsureGPU(data, target), LAMBDA s :
       Then(EnsureGPU(s, source), LAMBDA u :
         Then(Submit(u, target, {target, source}, r, u.surf[source].device), LAMBDA v :
           Done(MarkGPUWrite(v, target))))))

CopyBySprite(source, r) ==
  /\ Usable(source) /\ source # target
  /\ QueuedCopy(source, Then(EnsureGPU(data, target), LAMBDA s :
       Then(EnsureGPU(s, source), LAMBDA u :
         Then(Submit(u, target, {target, source}, r, u.surf[source].device), LAMBDA v :
           Done(MarkGPUWrite([v EXCEPT !.surf[source].inUse = TRUE], target))))))

SoftwareCopy(source, r) ==
  /\ Usable(source)
  /\ QueuedCopy(source, Then(EnsureCPU(data, source), LAMBDA s :
       Then(EnsureCPU(s, target), LAMBDA u :
         Done(MarkCPUWrite(u, target, r, u.surf[source].shadow)))))

\* Triangles of a texture, or of plain colour.
Geometry(source, r, from) ==
  /\ source \in Textures \cup {target} /\ Usable(source)
  /\ LET drawn ==
           Then(EnsureCPU(data, target), LAMBDA s :
             Then(IF source = target THEN Done(s) ELSE EnsureCPU(s, source), LAMBDA u :
               Done(MarkCPUWrite(u, target, r, IF source = target THEN from
                                               ELSE u.surf[source].shadow))))
     IN  IF source = target THEN Queued(drawn) ELSE QueuedCopy(source, drawn)

RenderReadPixels ==
  /\ ~inQueue
  /\ \E o \in Then(WaitPresent(data), LAMBDA s : EnsureCPU(s, target)) :
       /\ data' = o.state
       /\ call' = IF o.ok THEN Returned(o.state.surf[target].shadow) ELSE Quiet
  /\ inQueue' = inQueue

BeginPresent ==
  Then(WaitPresent(data), LAMBDA s :
    Then(FlushQueued(s), LAMBDA u :
      Then(EnsureGPU(u, Composition), LAMBDA v : Done(v) \cup Stops(v))))

\* The next back buffer holds some older frame.
RenderPresent ==
  /\ ~inQueue
  /\ inQueue' = inQueue
  /\ \E o \in BeginPresent :
     \/ ~o.ok /\ data' = o.state /\ Silent
     \/ \E older \in Images :
          /\ o.ok
          /\ call' = Shown(o.state.surf[Composition].device)
          /\ data' = [o.state EXCEPT
                        !.presentPending = TRUE,
                        !.surf[Composition] = [@ EXCEPT !.device = older, !.gpuValid = TRUE,
                                                        !.cpuValid = FALSE, !.shadow = Plain(Junk)]]

\* The core finishes its last queued use of a surface.
Retire(t) ==
  /\ data.surf[t].busy
  /\ data' = [data EXCEPT !.surf[t].busy = FALSE]
  /\ inQueue' = inQueue
  /\ Silent

Next ==
  \/ \E t \in Textures : CreateTexture(t) \/ DestroyTexture(t)
  \/ \E t \in Textures, r \in Rects : \E from \in Drawings(r) : UpdateTexture(t, r, from)
  \/ \E t \in Streaming, r \in Rects : LockTexture(t, r)
  \/ \E t \in Streaming : \E from \in Drawings(data.surf[t].lock) : UnlockTexture(t, from)
  \/ \E t \in Targets \cup {Composition} : SetRenderTarget(t)
  \/ BeginQueue \/ FlushEarly \/ EndQueue
  \/ \E v \in Values : Clear(v)
  \/ \E r \in Rects : \E from \in Drawings(r) : FillRects(r, from)
  \/ \E region, r \in Rects : \E from \in Drawings(r) : PrimitiveFallback(region, r, from)
  \/ \E source \in Textures, r \in Rects : CopyBySprite(source, r) \/ SoftwareCopy(source, r)
  \/ \E source \in Surfaces, r \in Rects : \E from \in Drawings(r) : Geometry(source, r, from)
  \/ RenderReadPixels
  \/ RenderPresent
  \/ \E t \in Textures : Retire(t)

Spec == Init /\ [][Next]_vars

-----------------------------------------------------------------------------
(***************************************************************************)
(* Properties.                                                             *)
(***************************************************************************)

Image == [Cells -> Pixels]

Surface ==
  [live : BOOLEAN, shadow : Image \cup {NoImage}, device : Image \cup {NoImage},
   cpuValid : BOOLEAN, gpuValid : BOOLEAN, keepShadow : BOOLEAN,
   lock : Rects \cup {{}}, dirty : SUBSET Cells,
   inUse : BOOLEAN, busy : BOOLEAN, later : SUBSET Textures]

State ==
  [surf : [Surfaces -> Surface], target : Surfaces, pend : SUBSET Surfaces,
   presentPending : BOOLEAN, residentBytes : Int, failures : 0 .. MaxFailures,
   raced : BOOLEAN]

TypeOK ==
  /\ data \in State
  /\ data.residentBytes >= 0
  /\ \A t \in Surfaces : Hull(data.surf[t].dirty) = data.surf[t].dirty
  /\ inQueue \in BOOLEAN
  /\ call \in {Quiet} \cup {Copied(t) : t \in Surfaces}
             \cup {Shown(i) : i \in Image} \cup {Returned(i) : i \in Image}

(* A texture's pixels are never lost: some copy is always current, and a   *)
(* current shadow holds only pixels SDL asked for (eviction, and dropping  *)
(* of shadows, also when they fail half-way).                              *)
PixelsKept ==
  \A t \in Surfaces :
    LET x == data.surf[t]
    IN  /\ x.live => x.cpuValid \/ x.gpuValid
        /\ x.cpuValid => x.shadow \in Images

(* A surface marked current holds no pixel that was never written to it,   *)
(* whether it was uploaded whole or in part (EnsureGPU).                   *)
SurfaceWritten ==
  \A t \in Surfaces : data.surf[t].gpuValid => data.surf[t].device \in Images

(* When both copies are marked current they are equal, so that either may  *)
(* be read, and the shadow released.                                       *)
CopiesAgree ==
  \A t \in Surfaces :
    LET x == data.surf[t]
    IN  x.cpuValid /\ x.gpuValid => x.shadow = x.device

(* Nothing touches, replaces or releases a surface while the batch that is *)
(* still pending refers to it (the flushes of EnsureCPU, EnsureGPU,        *)
(* MakeResident, TryRotateTexture, FreeSurface).                           *)
NoRace == ~data.raced

(* gpu_in_use covers every texture the queued or pending commands use;     *)
(* else UpdateTexture would wait for a frame it could have left running.   *)
InUseSound ==
  \A t \in Textures : data.surf[t].busy \/ t \in data.pend => data.surf[t].inUse

(* Beyond the budget only what the running commands need stays resident:   *)
(* the render target and the texture being used.                           *)
BudgetKept ==
  BytesOf(Resident(data)) > Budget => Cardinality(Resident(data)) <= 2

(* resident_bytes is the sum the budget is about.                          *)
ResidentBytesExact == data.residentBytes = BytesOf(Resident(data))

-----------------------------------------------------------------------------
(***************************************************************************)
(* What SDL sees of a surface: whichever copy is current.                  *)
(***************************************************************************)

ImageOf(x) ==
  IF ~x.live THEN NoImage ELSE IF x.gpuValid THEN x.device ELSE x.shadow

Sdl == INSTANCE SdlTextures WITH
  Blank <- Plain(Blank),
  image <- [t \in Surfaces |-> ImageOf(data.surf[t])]

(* Whatever is moved, dropped, evicted or rotated, SDL's calls have the    *)
(* effect they have on plain images: a draw, a read-back and a             *)
(* presentation always find the pixels that SDL put there last.            *)
ImplementsSdlTextures == Sdl!Spec

=============================================================================
