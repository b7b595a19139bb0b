-------------------------- MODULE MCCoherenceCases --------------------------
(***************************************************************************)
(* Model checking of Coherence on three small renderers, one of which a    *)
(* behaviour has from its beginning.  They are instances of the module of  *)
(* the proofs, so that its theorems can be cited for them.                 *)
(***************************************************************************)
EXTENDS Integers, TLC

CONSTANTS
  s1, q1,      \* textures of "partial" and "faulty"
  t1, t2, t3,  \* textures of "crowded"
  screen

ASSUME DistinctAssumption ==
  /\ s1 # q1 /\ screen \notin {s1, q1}
  /\ t1 # t2 /\ t1 # t3 /\ t2 # t3 /\ screen \notin {t1, t2, t3}

VARIABLES data, inQueue, call, renderer

Small(textures) == [t \in textures |-> 1]

\* Two-pixel images of a streaming texture, with two display buffers.
Partial == INSTANCE CoherenceProofs WITH
  Streaming <- {s1}, Targets <- {}, Composition <- screen,
  Cells <- {1, 2}, Values <- {0, 1}, Blank <- 0, Junk <- 2, Rects <- {{1}, {2}, {1, 2}},
  Bytes <- Small({s1}), Budget <- 1, ThreeBuffers <- FALSE, MaxFailures <- 0

\* Three textures, and room for two.
Crowded == INSTANCE CoherenceProofs WITH
  Streaming <- {}, Targets <- {t1, t2, t3}, Composition <- screen,
  Cells <- {1}, Values <- {0}, Blank <- 0, Junk <- 2, Rects <- {{1}},
  Bytes <- Small({t1, t2, t3}), Budget <- 2, ThreeBuffers <- TRUE, MaxFailures <- 0

\* Two textures and room for one, on a device that fails once.
Faulty == INSTANCE CoherenceProofs WITH
  Streaming <- {s1}, Targets <- {q1}, Composition <- screen,
  Cells <- {1}, Values <- {0}, Blank <- 0, Junk <- 2, Rects <- {{1}},
  Bytes <- Small({s1, q1}), Budget <- 1, ThreeBuffers <- TRUE, MaxFailures <- 1

Init ==
  \/ renderer = "partial" /\ Partial!Init
  \/ renderer = "crowded" /\ Crowded!Init
  \/ renderer = "faulty" /\ Faulty!Init

Next ==
  /\ UNCHANGED renderer
  /\ \/ renderer = "partial" /\ Partial!Next
     \/ renderer = "crowded" /\ Crowded!Next
     \/ renderer = "faulty" /\ Faulty!Next

Spec == Init /\ [][Next]_<<data, inQueue, call, renderer>>

\* The textures of "crowded" are alike: it is the only renderer that has them,
\* and no property names one.
Symmetry == Permutations({t1, t2, t3})

\* Nothing but the refinement asks what the last call showed or copied.
View == <<data, inQueue, renderer, IF renderer = "partial" THEN call ELSE Partial!Quiet>>

-----------------------------------------------------------------------------
(* The properties of Coherence, each on the renderer that tries it most.   *)

(* Only what the running commands need stays resident beyond the budget.   *)
BudgetKept == renderer = "crowded" => Crowded!BudgetKept

(* Wherever the device fails, no texture's pixels are lost, no surface is  *)
(* marked current that was not written, or touched while the pending batch *)
(* refers to it, and resident_bytes stays the sum of what is resident.     *)
FailuresSurvived ==
  renderer = "faulty" =>
    /\ Faulty!PixelsKept
    /\ Faulty!SurfaceWritten
    /\ Faulty!NoRace
    /\ Faulty!ResidentBytesExact

\* What SDL sees of a surface: whichever copy is current.
ImageOf(t) ==
  IF ~data.surf[t].live THEN Partial!NoImage
  ELSE IF data.surf[t].gpuValid THEN data.surf[t].device
  ELSE data.surf[t].shadow

\* The renderers other than "partial" count as an application that rests.
AtRest == [t \in {s1, screen} |-> IF t = screen THEN Partial!Plain(0) ELSE Partial!NoImage]

Sdl == INSTANCE SdlTextures WITH
  Textures <- {s1}, Composition <- screen, Cells <- {1, 2}, Rects <- {{1}, {2}, {1, 2}},
  Images <- Partial!Images, NoImage <- Partial!NoImage, Blank <- Partial!Plain(0),
  image <- IF renderer = "partial" THEN [t \in {s1, screen} |-> ImageOf(t)] ELSE AtRest,
  call <- IF renderer = "partial" THEN call ELSE Partial!Quiet

(* SDL's calls have the effect they have on plain images, also when only   *)
(* parts of these are locked, updated, drawn and uploaded.                 *)
ImplementsSdlTextures == Sdl!Spec

=============================================================================
