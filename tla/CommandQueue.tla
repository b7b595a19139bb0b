---------------------------- MODULE CommandQueue ----------------------------
(***************************************************************************)
(* The submission path of the Noodles SDL renderer: one rendering thread   *)
(* collects opaque fills and copies into a pending batch, pushes batches   *)
(* and single commands into the core's command ring, retries while the     *)
(* ring or its descriptor tables are full, and leaves at most one PRESENT  *)
(* in flight.  The FPGA core executes the ring in order, concurrently.     *)
(*                                                                         *)
(* The thread is always inside one SDL callback; pc names the function of  *)
(* the callback it has reached, After gives the order in which a callback  *)
(* calls them.  What a command does to pixels is in module Coherence.      *)
(***************************************************************************)
EXTENDS Integers, Sequences, FiniteSets

CONSTANTS
  Textures,          \* SDL textures
  Composition,       \* the default target: the core's back buffer
  FillBatchEnabled,  \* the core has NOODLES_CAP_FILL_BATCH
  ThreeBuffers,      \* the core has NOODLES_CAP_QUEUED_PRESENT and it is used
  BatchMax,          \* NOODLES_DRAW_BATCH_MAX = NOODLES_FILL_BATCH_MAX
  RingSize,          \* commands the ring holds
  Tables,            \* descriptor tables of the core
  FenceModulus,      \* fences count modulo 2^31 in the code
  FenceBase,         \* fence of the last command before the model starts
  PacingEnabled,     \* SDL_RENDER_NOODLES_PACING
  PacingPeriod,      \* NOODLES_PACING_SAMPLE_PERIOD
  FrameMax,          \* bound: commands issued between two PRESENTs
  MaxOps,            \* bound: operations SDL issues
  MaxFailures        \* bound: device errors and time-outs

Surfaces == Textures \cup {Composition}

ASSUME SurfacesAssumption ==
  Composition \notin Textures
ASSUME FlagsAssumption ==
  /\ FillBatchEnabled \in BOOLEAN
  /\ ThreeBuffers \in BOOLEAN
  /\ PacingEnabled \in BOOLEAN
ASSUME SizesAssumption ==
  /\ BatchMax \in Nat \ {0}
  /\ RingSize \in Nat \ {0}
  /\ Tables \in Nat \ {0}
  /\ PacingPeriod \in Nat \ {0}
  /\ MaxOps \in Nat
  /\ MaxFailures \in Nat
\* A frame is far shorter than half the fence range, as 2^30 commands would be.
ASSUME FenceAssumption ==
  /\ FenceModulus \in Nat \ {0}
  /\ FenceModulus % 2 = 0
  /\ FenceBase \in 0 .. FenceModulus - 1
  /\ FrameMax \in Nat
  /\ FrameMax + 1 < FenceModulus \div 2
  /\ RingSize <= FenceModulus \div 2

VARIABLES
  log,              \* every command pushed, in order; the ring is the part after done
  done,             \* commands the core has executed
  fills, draws,     \* pending_fills, pending_draws up to their counts
  fillTarget,       \* pending_fill_target
  drawTarget,       \* pending_draw_target
  target,           \* data->target
  live,             \* textures SDL has not destroyed
  freed,            \* textures whose data and surface are released
  presentPending,   \* present_pending
  presentFence,     \* present_fence
  presentDrawFence, \* present_draw_fence
  presentIndex,     \* place of the last PRESENT in log (history)
  pacingSeq,        \* pacing_wait_sequence modulo PacingPeriod
  inQueue,          \* RunCommandQueue is running
  call,             \* the callback, or the queued command, being served
  pc,               \* the function it has reached
  stalledAt,        \* completions seen when the last push met EAGAIN, or -1
  issued,           \* operations SDL has issued
  dropped,          \* operations whose callback failed before queueing them
  failures,         \* device errors so far
  seen              \* operations a completed CPU access found executed

batchVars == <<fills, draws, fillTarget, drawTarget>>
presentVars == <<presentPending, presentFence, presentDrawFence, presentIndex>>
sdlVars == <<target, live, freed, inQueue, issued, dropped>>
vars == <<log, done, fills, draws, fillTarget, drawTarget, target, live, freed,
          presentPending, presentFence, presentDrawFence, presentIndex,
          pacingSeq, inQueue, call, pc, stalledAt, issued, dropped, failures,
          seen>>

NoTarget == "none"

OpKinds == {"fill", "blend", "draw", "present"}

(* An operation on surfaces; a fill has no source, so it names its target. *)
Op == [id : Nat, kind : OpKinds, target : Surfaces, source : Surfaces]

CommandKinds == {"fillBatch", "drawBatch", "single", "present"}
BatchKinds == {"fillBatch", "drawBatch"}

Refs(op) == {op.target, op.source}
References(ops, s) == \E i \in DOMAIN ops : s \in Refs(ops[i])

-----------------------------------------------------------------------------
(***************************************************************************)
(* The callbacks, as the order in which each calls the functions below.    *)
(***************************************************************************)

After ==
  [fill       |-> [start |-> "flushDraws", flushDraws |-> "switchFills",
                   switchFills |-> "append", append |-> "fullFills",
                   fullFills |-> "idle"],
   scalarFill |-> [start |-> "flushDraws", flushDraws |-> "push",
                   push |-> "idle"],
   blend      |-> [start |-> "flushFills", flushFills |-> "flushDraws",
                   flushDraws |-> "push", push |-> "idle"],
   draw       |-> [start |-> "flushFills", flushFills |-> "switchDraws",
                   switchDraws |-> "append", append |-> "fullDraws",
                   fullDraws |-> "idle"],
   fallback   |-> [start |-> "flushFills", flushFills |-> "flushDraws",
                   flushDraws |-> "backBuffer", backBuffer |-> "access",
                   access |-> "idle"],
   endQueue   |-> [start |-> "flushFills", flushFills |-> "flushDraws",
                   flushDraws |-> "leave", leave |-> "idle"],
   setTarget  |-> [start |-> "flushFills", flushFills |-> "flushDraws",
                   flushDraws |-> "retarget", retarget |-> "idle"],
   update     |-> [start |-> "waitPresent", waitPresent |-> "flushFills",
                   flushFills |-> "flushDraws", flushDraws |-> "access",
                   access |-> "idle"],
   readPixels |-> [start |-> "waitPresent", waitPresent |-> "flushFills",
                   flushFills |-> "flushDraws", flushDraws |-> "access",
                   access |-> "idle"],
   present    |-> [start |-> "waitPresent", waitPresent |-> "flushFills",
                   flushFills |-> "flushDraws", flushDraws |-> "access",
                   access |-> "push", push |-> "idle"],
   destroy    |-> [start |-> "waitPresent", waitPresent |-> "flushFills",
                   flushFills |-> "flushDraws", flushDraws |-> "free",
                   free |-> "idle"]]

CallKinds == DOMAIN After
Stages == {"idle", "waitPresent", "backBuffer", "flushFills", "switchFills",
           "fullFills", "flushDraws", "switchDraws", "fullDraws", "append",
           "push", "access", "leave", "retarget", "free", "overrun"}

\* Operations of a command list; their failure ends RunCommandQueue.
QueuedKinds == {"fill", "scalarFill", "blend", "draw", "fallback", "endQueue"}
\* Calls that carry an operation of their own.
IssuingKinds == {"fill", "scalarFill", "blend", "draw", "present"}

Call == [kind : CallKinds, op : Op, surface : Surfaces, device : BOOLEAN]

OpOf(kind, id, t, s) ==
  [id |-> id,
   kind |-> IF kind = "scalarFill" THEN "fill"
            ELSE IF kind \in OpKinds THEN kind ELSE "present",
   target |-> t, source |-> s]

Start(kind, t, s, device) ==
  /\ pc = "idle"
  /\ call' = [kind |-> kind, surface |-> s, device |-> device,
              op |-> OpOf(kind, issued', t, s)]
  /\ pc' = After[kind].start
  /\ seen' = {}

Advance == pc' = After[call.kind][pc]

\* The callback reports an error. FreeSurface ignores that of its flush.
Fail ==
  IF call.kind = "destroy" /\ pc \in {"flushFills", "flushDraws"}
  THEN /\ pc' = "free"
       /\ UNCHANGED <<inQueue, dropped>>
  ELSE /\ pc' = "idle"
       /\ inQueue' = (inQueue /\ call.kind \notin QueuedKinds)
       /\ dropped' = IF call.kind \in IssuingKinds /\ pc \notin {"fullFills", "fullDraws"}
                     THEN dropped \cup {call.op.id} ELSE dropped

-----------------------------------------------------------------------------
(***************************************************************************)
(* The core and its command ring, as the renderer relies on them: a push   *)
(* either takes a ring entry (a batch also a descriptor table) or meets    *)
(* EAGAIN, and the core executes entries in order.                         *)
(***************************************************************************)

InFlight == done + 1 .. Len(log)

Room(kind) ==
  /\ Len(log) - done < RingSize
  /\ kind \in BatchKinds =>
       Cardinality({i \in InFlight : log[i].kind \in BatchKinds}) < Tables

Fence(index) == (FenceBase + index) % FenceModulus

\* Slip: the counts are compared without regard to wrapping.
FenceReached_Signed(fence) == Fence(done) - fence >= 0

\* noodles_link_done_count against a fence, as NOODLES_WaitRawFence compares.
FenceReached(fence) ==
  (Fence(done) - fence) % FenceModulus < FenceModulus \div 2

Command(kind, ops) == [kind |-> kind, ops |-> ops]

\* Slip: the completion count runs ahead of the ring.
Execute_Unguarded ==
  /\ done' = done + 1
  /\ done <= Len(log)
  /\ UNCHANGED <<log, batchVars, presentVars, sdlVars, pacingSeq, call, pc,
                 stalledAt, failures, seen>>

Execute ==
  /\ done < Len(log)
  /\ done' = done + 1
  /\ UNCHANGED <<log, batchVars, presentVars, sdlVars, pacingSeq, call, pc,
                 stalledAt, failures, seen>>

\* The SDK lets the CPU touch a surface once its last queued use retires; the
\* back buffer is a new buffer after every PRESENT.
UsesOf(s) == {i \in DOMAIN log : /\ References(log[i].ops, s)
                                 /\ s = Composition => i > presentIndex}

-----------------------------------------------------------------------------
(***************************************************************************)
(* Functions a callback is made of.                                        *)
(***************************************************************************)

\* Slips: RenderPresent, or the two-buffer back buffer access, does not wait.
WaitDue_NotForPresent ==
  presentPending /\ pc = "waitPresent" /\ call.kind # "present"
WaitDue_NotForBackBuffer ==
  presentPending /\ pc = "waitPresent" /\ (call.kind = "update" => call.device)

WaitDue ==
  /\ presentPending
  /\ \/ pc = "waitPresent" /\ (call.kind = "update" => call.device)
     \/ pc = "backBuffer" /\ call.surface = Composition /\ ~ThreeBuffers

\* Slips: SubmitFill does not flush a full batch; FlushQueued and SubmitDraw
\* forget the fills; SubmitDraw alone forgets them.
FillsDue_NotWhenFull == fills # <<>> /\ pc = "flushFills"
FillsDue_NotQueued == fills # <<>> /\ pc = "fullFills" /\ Len(fills) = BatchMax
FillsDue_NotForDraw ==
  FillsDue_NotQueued \/ (FillsDue_NotWhenFull /\ call.kind # "draw")

FillsDue ==
  /\ fills # <<>>
  /\ \/ pc = "flushFills"
     \/ pc = "switchFills" /\ fillTarget # target
     \/ pc = "fullFills" /\ Len(fills) = BatchMax

\* Slips: only a full batch of draws is flushed; SubmitFill does not flush
\* them; a software fallback does not.
DrawsDue_OnlyFull == draws # <<>> /\ pc = "fullDraws" /\ Len(draws) = BatchMax
DrawsDue_NotForFill ==
  \/ DrawsDue_OnlyFull
  \/ draws # <<>> /\ pc = "flushDraws" /\ call.kind # "fill"
DrawsDue_NotForFallback ==
  \/ DrawsDue_OnlyFull
  \/ draws # <<>> /\ pc = "flushDraws" /\ call.kind # "fallback"

DrawsDue ==
  /\ draws # <<>>
  /\ \/ pc = "flushDraws"
     \/ pc = "switchDraws" /\ drawTarget # target
     \/ pc = "fullDraws" /\ Len(draws) = BatchMax

AccessDue == pc = "access" /\ (call.kind = "update" \/ call.device)

\* An update whose upload is rotated to a new surface or left for later.
Deferred == AccessDue /\ call.kind = "update" /\ ~call.device

FlushStages == {"flushFills", "switchFills", "fullFills",
                "flushDraws", "switchDraws", "fullDraws"}

\* A function that has nothing to do returns at once.
Skip ==
  /\ pc \in {"waitPresent", "backBuffer", "access"} \cup FlushStages
  /\ ~WaitDue /\ ~FillsDue /\ ~DrawsDue
  /\ AccessDue => Deferred
  /\ Advance
  /\ UNCHANGED <<log, done, batchVars, presentVars, sdlVars, pacingSeq, call,
                 stalledAt, failures, seen>>

Sampled == PacingEnabled /\ pacingSeq = 0

CountWait ==
  pacingSeq' = IF PacingEnabled THEN (pacingSeq + 1) % PacingPeriod ELSE pacingSeq

\* A sampled wait first polls the raw count for both fences.
WaitPresent ==
  /\ WaitDue
  /\ Sampled => FenceReached(presentDrawFence) /\ FenceReached(presentFence)
  /\ done >= presentIndex
  /\ presentPending' = FALSE
  /\ CountWait
  /\ Advance
  /\ UNCHANGED <<log, done, batchVars, presentFence, presentDrawFence,
                 presentIndex, sdlVars, call, stalledAt, failures, seen>>

\* Slip: progress is awaited past the newest command instead of one command.
Stall_PastNewest(kind) ==
  /\ stalledAt = -1
  /\ ~Room(kind)
  /\ stalledAt' = Len(log)
  /\ UNCHANGED <<log, done, batchVars, presentVars, sdlVars, pacingSeq, call, pc,
                 failures, seen>>

\* Pushing meets EAGAIN: the thread enters NOODLES_WaitProgress.
Stall(kind) ==
  /\ stalledAt = -1
  /\ ~Room(kind)
  /\ stalledAt' = done
  /\ UNCHANGED <<log, done, batchVars, presentVars, sdlVars, pacingSeq, call, pc,
                 failures, seen>>

\* NOODLES_WaitProgress returns when a command has completed since EAGAIN.
WaitProgress ==
  /\ stalledAt # -1
  /\ done > stalledAt
  /\ stalledAt' = -1
  /\ UNCHANGED <<log, done, batchVars, presentVars, sdlVars, pacingSeq, call, pc,
                 failures, seen>>

Push(kind, ops) ==
  /\ stalledAt = -1
  /\ Room(kind)
  /\ log' = Append(log, Command(kind, ops))

\* Slip: EAGAIN is taken for success and the batch is forgotten.
FlushFills_Forgets ==
  /\ FillsDue
  /\ stalledAt = -1
  /\ \/ ~Room("fillBatch") /\ UNCHANGED log
     \/ Push("fillBatch", fills)
  /\ fills' = <<>>
  /\ fillTarget' = NoTarget
  /\ Advance
  /\ UNCHANGED <<done, draws, drawTarget, presentVars, sdlVars, pacingSeq, call,
                 stalledAt, failures, seen>>

FlushFills ==
  /\ FillsDue
  /\ \/ Stall("fillBatch")
     \/ /\ Push("fillBatch", fills)
        /\ fills' = <<>>
        /\ fillTarget' = NoTarget
        /\ Advance
        /\ UNCHANGED <<done, draws, drawTarget, presentVars, sdlVars, pacingSeq,
                       call, stalledAt, failures, seen>>

FlushDraws ==
  /\ DrawsDue
  /\ \/ Stall("drawBatch")
     \/ /\ Push("drawBatch", draws)
        /\ draws' = <<>>
        /\ drawTarget' = NoTarget
        /\ Advance
        /\ UNCHANGED <<done, fills, fillTarget, presentVars, sdlVars, pacingSeq,
                       call, stalledAt, failures, seen>>

AppendFill ==
  /\ pc = "append" /\ call.kind = "fill" /\ Len(fills) < BatchMax
  /\ fills' = Append(fills, call.op)
  /\ fillTarget' = IF fills = <<>> THEN target ELSE fillTarget
  /\ Advance
  /\ UNCHANGED <<log, done, draws, drawTarget, presentVars, sdlVars, pacingSeq,
                 call, stalledAt, failures, seen>>

AppendDraw ==
  /\ pc = "append" /\ call.kind = "draw" /\ Len(draws) < BatchMax
  /\ draws' = Append(draws, call.op)
  /\ drawTarget' = IF draws = <<>> THEN target ELSE drawTarget
  /\ Advance
  /\ UNCHANGED <<log, done, fills, fillTarget, presentVars, sdlVars, pacingSeq,
                 call, stalledAt, failures, seen>>

\* Appending to a batch left full by a failed flush writes past the array.
Overrun ==
  /\ pc = "append"
  /\ call.kind = "fill" => Len(fills) = BatchMax
  /\ call.kind = "draw" => Len(draws) = BatchMax
  /\ pc' = "overrun"
  /\ UNCHANGED <<log, done, batchVars, presentVars, sdlVars, pacingSeq, call,
                 stalledAt, failures, seen>>

PushSingle ==
  /\ pc = "push" /\ call.kind # "present"
  /\ \/ Stall("single")
     \/ /\ Push("single", <<call.op>>)
        /\ Advance
        /\ UNCHANGED <<done, batchVars, presentVars, sdlVars, pacingSeq, call,
                       stalledAt, failures, seen>>

PushPresent ==
  /\ pc = "push" /\ call.kind = "present"
  /\ Push("present", <<call.op>>)
  /\ presentDrawFence' = Fence(Len(log))
  /\ presentFence' = Fence(Len(log'))
  /\ presentIndex' = Len(log')
  /\ presentPending' = TRUE
  /\ Advance
  /\ UNCHANGED <<done, batchVars, sdlVars, pacingSeq, call, stalledAt, failures,
                 seen>>

\* Unlike the other pushes, PRESENT takes EAGAIN for an error.
RefusePresent ==
  /\ pc = "push" /\ call.kind = "present"
  /\ ~Room("present")
  /\ presentDrawFence' = Fence(Len(log))
  /\ Fail
  /\ UNCHANGED <<log, done, batchVars, presentPending, presentFence,
                 presentIndex, target, live, freed, issued, pacingSeq, call,
                 stalledAt, failures, seen>>

\* noodles_surface_read or _update (or the back buffer's) returns.
Access ==
  /\ AccessDue
  /\ UsesOf(call.surface) \cap InFlight = {}
  /\ seen' = {n \in 1 .. issued : \E i \in UsesOf(call.surface) :
                 \E j \in DOMAIN log[i].ops :
                    log[i].ops[j].id = n /\ call.surface \in Refs(log[i].ops[j])}
  /\ Advance
  /\ UNCHANGED <<log, done, batchVars, presentVars, sdlVars, pacingSeq, call,
                 stalledAt, failures>>

\* RunCommandQueue returns.
Leave ==
  /\ pc = "leave"
  /\ inQueue' = FALSE
  /\ Advance
  /\ UNCHANGED <<log, done, batchVars, presentVars, target, live, freed, issued,
                 dropped, pacingSeq, call, stalledAt, failures, seen>>

Retarget ==
  /\ pc = "retarget"
  /\ target' = call.surface
  /\ Advance
  /\ UNCHANGED <<log, done, batchVars, presentVars, live, freed, inQueue, issued,
                 dropped, pacingSeq, call, stalledAt, failures, seen>>

FreeTexture ==
  /\ pc = "free"
  /\ freed' = freed \cup {call.surface}
  /\ target' = IF target = call.surface THEN Composition ELSE target
  /\ Advance
  /\ UNCHANGED <<log, done, batchVars, presentVars, live, inQueue, issued,
                 dropped, pacingSeq, call, stalledAt, failures, seen>>

\* The device reports an error, or a wait for it times out.
DeviceFails ==
  /\ failures < MaxFailures
  /\ WaitDue \/ FillsDue \/ DrawsDue \/ AccessDue \/ pc = "push"
  /\ failures' = failures + 1
  /\ stalledAt' = -1
  /\ IF WaitDue THEN CountWait ELSE UNCHANGED pacingSeq
  /\ Fail
  /\ UNCHANGED <<log, done, batchVars, presentVars, target, live, freed, issued,
                 call, seen>>

-----------------------------------------------------------------------------
(***************************************************************************)
(* What SDL asks for.  A command list is run against one target, because   *)
(* SDL flushes its list before it changes the target.                      *)
(***************************************************************************)

FrameLength == Len(log) - presentIndex + Len(fills) + Len(draws)
MayIssue == issued < MaxOps /\ FrameLength < FrameMax

BeginQueue ==
  /\ pc = "idle" /\ ~inQueue
  /\ issued < MaxOps
  /\ inQueue' = TRUE
  /\ UNCHANGED <<log, done, batchVars, presentVars, target, live, freed, issued,
                 dropped, pacingSeq, call, pc, stalledAt, failures, seen>>

Issue(kind, source) ==
  /\ MayIssue
  /\ issued' = issued + 1
  /\ Start(kind, target, source, FALSE)
  /\ UNCHANGED <<log, done, batchVars, presentVars, target, live, freed, inQueue,
                 dropped, pacingSeq, stalledAt, failures>>

SubmitFill ==
  inQueue /\ Issue(IF FillBatchEnabled THEN "fill" ELSE "scalarFill", target)

SubmitBlendFill == inQueue /\ Issue("blend", target)

SubmitDraw == inQueue /\ \E s \in live \ {target} : Issue("draw", s)

Ask(kind, s, device) ==
  /\ issued' = issued
  /\ Start(kind, Composition, s, device)
  /\ UNCHANGED <<log, done, batchVars, presentVars, target, freed, inQueue,
                 dropped, pacingSeq, stalledAt, failures>>

\* A software fallback, or an upload a queued command needs first.
Fallback ==
  inQueue /\ \E s \in live \cup {target} : Ask("fallback", s, TRUE) /\ live' = live

EndQueue == inQueue /\ Ask("endQueue", target, FALSE) /\ live' = live

SetRenderTarget ==
  ~inQueue /\ \E s \in live \cup {Composition} :
                 s # target /\ Ask("setTarget", s, FALSE) /\ live' = live

\* UpdateTexture, or LockTexture and UnlockTexture; device: the shadow must be
\* read back first.
UpdateTexture ==
  ~inQueue /\ \E s \in live, device \in BOOLEAN :
                 Ask("update", s, device) /\ live' = live

RenderReadPixels ==
  ~inQueue /\ \E device \in BOOLEAN :
                 Ask("readPixels", target, device) /\ live' = live

\* SDL forgets the texture whatever DestroyTexture does.
DestroyTexture ==
  ~inQueue /\ \E s \in live : Ask("destroy", s, FALSE) /\ live' = live \ {s}

RenderPresent ==
  /\ ~inQueue /\ issued < MaxOps
  /\ issued' = issued + 1
  /\ \E device \in BOOLEAN : Start("present", Composition, Composition, device)
  /\ UNCHANGED <<log, done, batchVars, presentVars, target, live, freed, inQueue,
                 dropped, pacingSeq, stalledAt, failures>>

-----------------------------------------------------------------------------

Init ==
  /\ log = <<>> /\ done = 0
  /\ fills = <<>> /\ draws = <<>>
  /\ fillTarget = NoTarget /\ drawTarget = NoTarget
  /\ target = Composition /\ live = Textures /\ freed = {}
  /\ presentPending = FALSE /\ presentIndex = 0
  /\ presentFence = Fence(0) /\ presentDrawFence = Fence(0)
  /\ pacingSeq = 0
  /\ inQueue = FALSE
  /\ call = [kind |-> "endQueue", surface |-> Composition, device |-> FALSE,
             op |-> OpOf("endQueue", 0, Composition, Composition)]
  /\ pc = "idle" /\ stalledAt = -1
  /\ issued = 0 /\ dropped = {} /\ failures = 0 /\ seen = {}

Sdl ==
  \/ BeginQueue \/ SubmitFill \/ SubmitBlendFill \/ SubmitDraw \/ Fallback
  \/ EndQueue \/ SetRenderTarget \/ UpdateTexture \/ RenderReadPixels
  \/ DestroyTexture \/ RenderPresent

Thread ==
  \/ Skip \/ WaitPresent \/ WaitProgress \/ FlushFills \/ FlushDraws
  \/ AppendFill \/ AppendDraw \/ Overrun \/ PushSingle \/ PushPresent
  \/ RefusePresent \/ Access \/ Leave \/ Retarget \/ FreeTexture

Next == Sdl \/ Thread \/ Execute \/ DeviceFails

Spec == Init /\ [][Next]_vars

(* The core always reaches its next command and the thread its next step.  *)
(* A command list is finite, so EndQueue is not put off for ever.          *)
FairSpec ==
  Spec /\ WF_vars(Execute) /\ WF_vars(Thread) /\ SF_vars(EndQueue)

-----------------------------------------------------------------------------
(***************************************************************************)
(* Properties.                                                             *)
(***************************************************************************)

TypeOK ==
  /\ log \in Seq([kind : CommandKinds, ops : Seq(Op)])
  /\ done \in 0 .. Len(log)
  /\ fills \in Seq(Op) /\ draws \in Seq(Op)
  /\ fillTarget \in Surfaces \cup {NoTarget}
  /\ drawTarget \in Surfaces \cup {NoTarget}
  /\ target \in Surfaces /\ live \subseteq Textures /\ freed \subseteq Surfaces
  /\ presentPending \in BOOLEAN
  /\ presentFence \in 0 .. FenceModulus - 1
  /\ presentDrawFence \in 0 .. FenceModulus - 1
  /\ presentIndex \in 0 .. Len(log)
  /\ pacingSeq \in 0 .. PacingPeriod - 1
  /\ inQueue \in BOOLEAN
  /\ call \in Call
  /\ pc \in Stages
  /\ stalledAt \in -1 .. Len(log)
  /\ issued \in Nat /\ dropped \subseteq Nat
  /\ failures \in Nat /\ seen \subseteq Nat

Increasing(ops) == \A i, j \in DOMAIN ops : i < j => ops[i].id < ops[j].id
Precedes(a, b) == \A i \in DOMAIN a, j \in DOMAIN b : a[i].id < b[j].id

(* The ring and then the pending batch hold the operations in the order    *)
(* SDL issued them, none of them twice: switching between fills and copies *)
(* flushes the batch that would otherwise be overtaken (SubmitFill,        *)
(* SubmitBlendFill and SubmitDraw).                                        *)
InOrder ==
  /\ \A i \in DOMAIN log : /\ Increasing(log[i].ops)
                           /\ Precedes(log[i].ops, fills)
                           /\ Precedes(log[i].ops, draws)
  /\ \A i, j \in DOMAIN log : i < j => Precedes(log[i].ops, log[j].ops)
  /\ Increasing(fills) /\ Increasing(draws)

IdsOf(ops) == {ops[i].id : i \in DOMAIN ops}
Queued == (UNION {IdsOf(log[i].ops) : i \in DOMAIN log}) \cup IdsOf(fills) \cup IdsOf(draws)

Serving == pc # "idle" /\ call.kind \in IssuingKinds

(* No operation disappears between SDL and the ring: what was issued is    *)
(* queued, being served, or was reported to SDL as failed.                 *)
NothingLost ==
  \A n \in 1 .. issued :
     n \in Queued \/ n \in dropped \/ (Serving /\ call.op.id = n)

(* A batch is pushed with the one target pending_fill_target or            *)
(* pending_draw_target names, so every entry must be meant for it; and at  *)
(* most one of the two batches waits, else their order would be lost.      *)
OneBatch ==
  /\ fills = <<>> \/ draws = <<>>
  /\ \A i \in DOMAIN fills : fills[i].target = fillTarget
  /\ \A i \in DOMAIN draws : draws[i].target = drawTarget

InFlightPresents == {i \in InFlight : log[i].kind = "present"}

(* RenderPresent resolves the previous PRESENT first: at most one is ever  *)
(* in the ring, even when waits time out, and present_pending covers it.   *)
OnePresent ==
  \A i \in InFlightPresents : presentPending /\ i = presentIndex

(* With two buffers the CPU never touches the back buffer while a PRESENT  *)
(* that would turn it into the displayed one is in flight (SurfaceRead,    *)
(* SurfaceUpdate).                                                         *)
BackBufferOffDisplay ==
  AccessDue /\ call.surface = Composition /\ ~ThreeBuffers =>
    InFlightPresents = {}

(* The raw comparison of NOODLES_WaitRawFence, on counts that wrap, says   *)
(* neither too early nor too late that the pending PRESENT and the         *)
(* commands before it are complete.                                        *)
RawFencesExact ==
  presentPending =>
    /\ FenceReached(presentFence) <=> done >= presentIndex
    /\ FenceReached(presentDrawFence) <=> done >= presentIndex - 1

\* The thread goes on only when the core has completed more.
AwaitsCompletion ==
  \/ stalledAt # -1 /\ done <= stalledAt
  \/ /\ WaitDue
     /\ \/ done < presentIndex
        \/ Sampled /\ ~(FenceReached(presentDrawFence) /\ FenceReached(presentFence))
  \/ AccessDue /\ ~Deferred /\ UsesOf(call.surface) \cap InFlight # {}

(* The core still has a command to complete whenever the thread waits for  *)
(* it: no completion is awaited that has happened already or that nothing  *)
(* in the ring can bring (NOODLES_WaitProgress, NOODLES_WaitPresent).      *)
WaitsAnswered == AwaitsCompletion => done < Len(log)

(* An entry is never written past pending_fills or pending_draws.          *)
BatchBounded == pc # "overrun"

(* The pending batch refers to no texture that DestroyTexture has freed.   *)
NoDanglingBatch ==
  \A s \in freed : ~References(fills, s) /\ ~References(draws, s)

\* The stages a callback may still go through, itself included.
StagesLeft ==
  CASE pc = "waitPresent" -> 6
    [] pc = "flushFills" -> 5
    [] pc = "flushDraws" -> 4
    [] pc \in {"switchFills", "switchDraws", "backBuffer"} -> 3
    [] pc \in {"append", "access"} -> 2
    [] pc \in {"fullFills", "fullDraws", "push", "leave", "retarget", "free"} -> 1
    [] OTHER -> 0

\* How many steps of the thread and of the core a callback can take: a push
\* adds a command, and each command completed may answer one more EAGAIN.
StepsLeft ==
  4 * StagesLeft + 3 * (Len(log) - done)
  + (IF stalledAt = -1 THEN 1 ELSE IF done > stalledAt THEN 2 ELSE 0)

(* However often pushes are refused and whatever fails, each step of the   *)
(* thread and of the core brings the end of the running callback nearer.   *)
CallsBounded == [][pc # "idle" => StepsLeft' < StepsLeft]_vars

(* Every callback returns, after a bounded number of steps: EAGAIN retries *)
(* and fence waits end because the core keeps completing commands.         *)
CallbacksReturn == CallsBounded /\ (pc # "idle" ~> pc = "idle")

Executed(n) == \E i \in 1 .. done : n \in IdsOf(log[i].ops)

(* Every operation SDL issues is executed by the core, unless its callback *)
(* reported failure: no batch is forgotten in pending_fills or             *)
(* pending_draws.                                                          *)
IssuedIsExecuted ==
  \A n \in 1 .. MaxOps : issued >= n ~> (Executed(n) \/ n \in dropped)

OpsOf(ops) == {ops[i] : i \in DOMAIN ops}
Accepted == (UNION {OpsOf(log[i].ops) : i \in DOMAIN log}) \cup OpsOf(fills) \cup OpsOf(draws)
ExecutedIds == UNION {IdsOf(log[i].ops) : i \in 1 .. done}

Order == INSTANCE SdlOrder WITH
  Ops <- [id : 1 .. MaxOps, kind : OpKinds, target : Surfaces, source : Surfaces],
  accepted <- Accepted, executed <- ExecutedIds, seen <- seen

(* The ring, the pending batch and the core's progress implement the order *)
(* SDL expects, and a CPU access finds exactly the operations accepted     *)
(* before it (EnsureCPU, EnsureGPU flush before they touch a surface).     *)
ImplementsSdlOrder == Order!Spec

=============================================================================
