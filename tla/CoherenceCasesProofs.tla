------------------------ MODULE CoherenceCasesProofs ------------------------
(***************************************************************************)
(* The properties of MCCoherenceCases, from the theorems of Coherence: a   *)
(* behaviour of the three renderers is one of the renderer it begins with. *)
(***************************************************************************)
EXTENDS MCCoherenceCases, FiniteSetTheorems, TLAPS

allVars == <<data, inQueue, call, renderer>>

-----------------------------------------------------------------------------
(* The constants of the three renderers are as Coherence assumes.          *)

\* Sets of up to three.
LEMMA Few == \A a, b, c : IsFiniteSet({a}) /\ IsFiniteSet({a, b}) /\ IsFiniteSet({a, b, c})
<1> TAKE a, b, c
<1>1. IsFiniteSet({a})
  BY FS_Singleton
<1>2. IsFiniteSet({a, b})
  <2>1. {a, b} = {a} \cup {b}
    OBVIOUS
  <2> QED
    BY <1>1, <2>1, FS_AddElement
<1>3. IsFiniteSet({a, b, c})
  <2>1. {a, b, c} = {a, b} \cup {c}
    OBVIOUS
  <2> QED
    BY <1>2, <2>1, FS_AddElement
<1> QED
  BY <1>1, <1>2, <1>3

LEMMA CrowdedConstants ==
  Crowded!NamesAssumption /\ Crowded!PixelsAssumption /\ Crowded!BoundsAssumption
<1>1. \A S : Crowded!IsFiniteSet(S) <=> IsFiniteSet(S)
  BY DEF Crowded!IsFiniteSet, IsFiniteSet
<1>2. Crowded!NamesAssumption
  <2>1. Crowded!Textures = {t1, t2, t3}
    BY DEF Crowded!Textures
  <2> QED
    BY <1>1, <2>1, Few, DistinctAssumption DEF Crowded!NamesAssumption
<1>3. Crowded!PixelsAssumption
  <2>1. Crowded!IsFiniteSet({1})
    BY <1>1, Few
  <2>2. {1} \subseteq Int /\ {1} # {}
    OBVIOUS
  <2>3. {{1}} \subseteq SUBSET {1} /\ {} \notin {{1}} /\ {1} \in {{1}}
    OBVIOUS
  <2> QED
    BY <2>1, <2>2, <2>3 DEF Crowded!PixelsAssumption
<1>4. Crowded!BoundsAssumption
  BY DEF Crowded!BoundsAssumption, Crowded!Textures, Small
<1> QED
  BY <1>2, <1>3, <1>4

LEMMA FaultyConstants ==
  Faulty!NamesAssumption /\ Faulty!PixelsAssumption /\ Faulty!BoundsAssumption
<1>1. \A S : Faulty!IsFiniteSet(S) <=> IsFiniteSet(S)
  BY DEF Faulty!IsFiniteSet, IsFiniteSet
<1>2. Faulty!NamesAssumption
  <2>1. Faulty!Textures = {s1, q1}
    BY DEF Faulty!Textures
  <2> QED
    BY <1>1, <2>1, Few, DistinctAssumption DEF Faulty!NamesAssumption
<1>3. Faulty!PixelsAssumption
  <2>1. Faulty!IsFiniteSet({1})
    BY <1>1, Few
  <2>2. {1} \subseteq Int /\ {1} # {}
    OBVIOUS
  <2>3. {{1}} \subseteq SUBSET {1} /\ {} \notin {{1}} /\ {1} \in {{1}}
    OBVIOUS
  <2> QED
    BY <2>1, <2>2, <2>3 DEF Faulty!PixelsAssumption
<1>4. Faulty!BoundsAssumption
  BY DEF Faulty!BoundsAssumption, Faulty!Textures, Small
<1> QED
  BY <1>2, <1>3, <1>4

LEMMA PartialConstants ==
  Partial!NamesAssumption /\ Partial!PixelsAssumption /\ Partial!BoundsAssumption
<1>1. \A S : Partial!IsFiniteSet(S) <=> IsFiniteSet(S)
  BY DEF Partial!IsFiniteSet, IsFiniteSet
<1>2. Partial!NamesAssumption
  <2>1. Partial!Textures = {s1}
    BY DEF Partial!Textures
  <2> QED
    BY <1>1, <2>1, Few, DistinctAssumption DEF Partial!NamesAssumption
<1>3. Partial!PixelsAssumption
  <2>1. Partial!IsFiniteSet({1, 2})
    BY <1>1, Few
  <2>2. {1, 2} \subseteq Int /\ {1, 2} # {}
    OBVIOUS
  <2>3. {{1}, {2}, {1, 2}} \subseteq SUBSET {1, 2} /\ {} \notin {{1}, {2}, {1, 2}} /\ {1, 2} \in {{1}, {2}, {1, 2}}
    OBVIOUS
  <2> QED
    BY <2>1, <2>2, <2>3 DEF Partial!PixelsAssumption
<1>4. Partial!BoundsAssumption
  BY DEF Partial!BoundsAssumption, Partial!Textures, Small
<1> QED
  BY <1>2, <1>3, <1>4

-----------------------------------------------------------------------------
(* A behaviour is one of the renderer it begins with.                      *)

\* There are three of them.
LEMMA Begins == Init => renderer = "partial" \/ renderer = "crowded" \/ renderer = "faulty"
BY DEF Init

LEMMA PartialRuns == Spec /\ renderer = "partial" => [](renderer = "partial") /\ Partial!Spec
<1>1. Init /\ renderer = "partial" => Partial!Init
  BY DEF Init
<1>2. renderer = "partial" /\ [Next]_allVars =>
        (renderer = "partial")' /\ [Partial!Next]_Partial!vars
  BY DEF Next, allVars, Partial!vars
<1> QED
  BY <1>1, <1>2, PTL DEF Spec, allVars, Partial!Spec

LEMMA CrowdedRuns == Spec /\ renderer = "crowded" => [](renderer = "crowded") /\ Crowded!Spec
<1>1. Init /\ renderer = "crowded" => Crowded!Init
  BY DEF Init
<1>2. renderer = "crowded" /\ [Next]_allVars =>
        (renderer = "crowded")' /\ [Crowded!Next]_Crowded!vars
  BY DEF Next, allVars, Crowded!vars
<1> QED
  BY <1>1, <1>2, PTL DEF Spec, allVars, Crowded!Spec

LEMMA FaultyRuns == Spec /\ renderer = "faulty" => [](renderer = "faulty") /\ Faulty!Spec
<1>1. Init /\ renderer = "faulty" => Faulty!Init
  BY DEF Init
<1>2. renderer = "faulty" /\ [Next]_allVars =>
        (renderer = "faulty")' /\ [Faulty!Next]_Faulty!vars
  BY DEF Next, allVars, Faulty!vars
<1> QED
  BY <1>1, <1>2, PTL DEF Spec, allVars, Faulty!Spec

(* With three textures and room for two, residency stays within the budget *)
(* but for what the running commands need (MakeResident).                  *)
THEOREM CrowdKeepsBudget == Spec => []BudgetKept
<1>1. Crowded!Spec => []Crowded!BudgetKept
  BY CrowdedConstants, Crowded!BudgetHolds
<1>2. /\ renderer = "partial" \/ renderer = "faulty" => BudgetKept
      /\ Crowded!BudgetKept => BudgetKept
  BY DEF BudgetKept
<1> QED
  BY <1>1, <1>2, PartialRuns, CrowdedRuns, FaultyRuns, Begins, PTL DEF Spec

(* One failure of the device, wherever it comes, loses no pixel, lets      *)
(* nothing be touched that a pending batch names and leaves the account of *)
(* bytes right.                                                            *)
THEOREM FailureSurvived == Spec => []FailuresSurvived
<1>1. Faulty!Spec => [](Faulty!PixelsKept /\ Faulty!SurfaceWritten)
  BY FaultyConstants, Faulty!PixelsStay
<1>2. Faulty!Spec => []Faulty!NoRace
  BY FaultyConstants, Faulty!NothingRaces
<1>3. Faulty!Spec => []Faulty!ResidentBytesExact
  BY FaultyConstants, Faulty!BytesStayExact
<1>4. /\ renderer = "partial" \/ renderer = "crowded" => FailuresSurvived
      /\ Faulty!PixelsKept /\ Faulty!SurfaceWritten /\ Faulty!NoRace /\ Faulty!ResidentBytesExact
           => FailuresSurvived
  BY DEF FailuresSurvived
<1> QED
  BY <1>1, <1>2, <1>3, <1>4, PartialRuns, CrowdedRuns, FaultyRuns, Begins, PTL DEF Spec

-----------------------------------------------------------------------------
(* SDL's images of the renderer with two pixels are those of Coherence.    *)

sdlImage == IF renderer = "partial" THEN [t \in {s1, screen} |-> ImageOf(t)] ELSE AtRest
sdlCall == IF renderer = "partial" THEN call ELSE Partial!Quiet
partialImage == [t \in Partial!Surfaces |-> Partial!ImageOf(data.surf[t])]

LEMMA SameSurfaces ==
  /\ Partial!Surfaces = {s1, screen} /\ Partial!Sdl!Surfaces = {s1, screen}
  /\ Sdl!Surfaces = {s1, screen} /\ Partial!Textures = {s1}
BY DEF Partial!Surfaces, Partial!Textures, Partial!Sdl!Surfaces, Sdl!Surfaces

LEMMA SameImages ==
  ASSUME renderer = "partial"
  PROVE  sdlImage = partialImage /\ sdlCall = call
<1>1. \A t : ImageOf(t) = Partial!ImageOf(data.surf[t])
  BY DEF ImageOf, Partial!ImageOf
<1> QED
  BY <1>1, SameSurfaces DEF sdlImage, sdlCall, partialImage

\* A step of SDL's on the renderer's own images is one on those of Sdl.
LEMMA SdlStep ==
  ASSUME renderer = "partial", renderer' = "partial", [Partial!Sdl!Next]_(Partial!Sdl!vars)
  PROVE  [Sdl!Next]_(Sdl!vars)
<1>1. sdlImage = partialImage /\ sdlCall = call
  BY SameImages
<1>2. sdlImage' = partialImage' /\ sdlCall' = call'
  <2>1. \A t : ImageOf(t)' = Partial!ImageOf(data.surf[t])'
    BY DEF ImageOf, Partial!ImageOf
  <2> QED
    BY <2>1, SameSurfaces DEF sdlImage, sdlCall, partialImage
<1>3. \A t : Sdl!Live(t) <=> Partial!Sdl!Live(t)
  BY <1>1 DEF Sdl!Live, Partial!Sdl!Live, sdlImage, partialImage
<1>4. \A t, new : Sdl!Becomes(t, new) <=> Partial!Sdl!Becomes(t, new)
  BY <1>1, <1>2 DEF Sdl!Becomes, Partial!Sdl!Becomes, sdlImage, partialImage
<1>5. UNCHANGED sdlImage <=> UNCHANGED partialImage
  BY <1>1, <1>2
<1>6. Sdl!Forget <=> Partial!Sdl!Forget
  BY <1>1, <1>2, <1>5
     DEF Sdl!Forget, Partial!Sdl!Forget, Sdl!Quiet, Partial!Sdl!Quiet, sdlImage, partialImage, sdlCall
<1>7. \A t : Partial!Sdl!Read(t) => Sdl!Read(t)
  BY <1>1, <1>2, <1>3, <1>5
     DEF Sdl!Read, Partial!Sdl!Read, Sdl!Returned, Partial!Sdl!Returned, sdlImage, partialImage,
         sdlCall
<1>8. \A t, rect, from : Partial!Sdl!Draw(t, rect, from) => Sdl!Draw(t, rect, from)
  BY <1>1, <1>3, <1>4 DEF Sdl!Draw, Partial!Sdl!Draw, sdlImage, partialImage
<1>9. \A t, rect : Partial!Sdl!Write(t, rect) => Sdl!Write(t, rect)
  BY <1>2, <1>8 DEF Sdl!Write, Partial!Sdl!Write, Sdl!Quiet, Partial!Sdl!Quiet, sdlCall
<1>10. \A t, source, rect : Partial!Sdl!Copy(t, source, rect) => Sdl!Copy(t, source, rect)
  BY <1>1, <1>2, <1>3, <1>8
     DEF Sdl!Copy, Partial!Sdl!Copy, Sdl!Copied, Partial!Sdl!Copied, sdlImage, partialImage, sdlCall
<1>11. Partial!Sdl!Present => Sdl!Present
  BY <1>1, <1>2, <1>4
     DEF Sdl!Present, Partial!Sdl!Present, Sdl!Shown, Partial!Sdl!Shown, sdlImage, partialImage,
         sdlCall
<1>12. \A t : /\ Partial!Sdl!Create(t) => Sdl!Create(t)
              /\ Partial!Sdl!Destroy(t) => Sdl!Destroy(t)
  BY <1>2, <1>3, <1>4
     DEF Sdl!Create, Partial!Sdl!Create, Sdl!Destroy, Partial!Sdl!Destroy, Sdl!Quiet,
         Partial!Sdl!Quiet, sdlCall
<1>13. CASE Partial!Sdl!Next
  BY <1>6, <1>7, <1>9, <1>10, <1>11, <1>12, <1>13, SameSurfaces DEF Sdl!Next, Partial!Sdl!Next
<1>14. CASE UNCHANGED Partial!Sdl!vars
  BY <1>1, <1>2, <1>5, <1>14
     DEF Sdl!vars, Partial!Sdl!vars, sdlImage, partialImage, sdlCall
<1> QED
  BY <1>13, <1>14

\* Elsewhere the application rests.
LEMMA RestStep ==
  ASSUME renderer # "partial", renderer' # "partial"
  PROVE  UNCHANGED Sdl!vars
BY DEF Sdl!vars, AtRest

(* With partial updates, locks, dirty rectangles and evictions, what SDL   *)
(* shows, reads back and copies are the images it drew.                    *)
THEOREM PartsShowSdl == Spec => ImplementsSdlTextures
<1>1. Partial!Spec => Partial!Sdl!Spec
  BY PartialConstants, Partial!RendererShowsSdl DEF Partial!ImplementsSdlTextures
<1>2. renderer = "partial" /\ Partial!Sdl!Init => Sdl!Init
  BY SameImages, SameSurfaces
     DEF Sdl!Init, Partial!Sdl!Init, Sdl!Quiet, Partial!Sdl!Quiet, sdlImage, partialImage, sdlCall
<1>3. renderer # "partial" => Sdl!Init
  <2>1. Partial!Plain(0) \in Partial!Images
    BY DEF Partial!Plain, Partial!Images
  <2> QED
    BY <2>1, SameSurfaces DEF Sdl!Init, Sdl!Quiet, Partial!Quiet, AtRest
<1>4. /\ renderer = "partial" /\ (renderer = "partial")' /\ [Partial!Sdl!Next]_(Partial!Sdl!vars)
           => [Sdl!Next]_(Sdl!vars)
      /\ renderer # "partial" /\ (renderer # "partial")' => [Sdl!Next]_(Sdl!vars)
  BY SdlStep, RestStep
<1>5. renderer = "crowded" \/ renderer = "faulty" => renderer # "partial"
  OBVIOUS
<1> QED
  BY <1>1, <1>2, <1>3, <1>4, <1>5, PartialRuns, CrowdedRuns, FaultyRuns, Begins, PTL
     DEF Spec, Partial!Sdl!Spec, Sdl!Spec, ImplementsSdlTextures

=============================================================================
