----------------------- MODULE SurfaceTrackingProofs -----------------------
(***************************************************************************)
(* What SurfaceTracking promises, for every size of surface, any textures  *)
(* and any applications: ContentInv, that content is true of the pixels;   *)
(* then PictureInv, that alpha_state is too and that the pixels are SDL's. *)
(***************************************************************************)
EXTENDS SurfaceTracking, TLAPS

\* Rectangles as computed: one without pixels may have a negative size.
Boxes == [x : Int, y : Int, w : Int, h : Int]
Tracks == [content : Boxes, outside : Pixels, alpha : Alphas, gpuValid : BOOLEAN,
           tracked : BOOLEAN]
Views == [viewport : Rectangles, clip : Rectangles, enabled : BOOLEAN]
Copies == [source : Parts, destination : Rectangles, flip : [x : BOOLEAN, y : BOOLEAN]]
Commands == [kind : {"fill", "lines"}, view : Views,
             blend : {"none", "blend", "add", "mod", "custom"}, color : Pixels,
             alpha : Alphas, drew : BOOLEAN]

Typed ==
  /\ app \in Applications
  /\ image = [s \in Surfaces |-> image[s]]
  /\ track \in [Surfaces -> Tracks]
  /\ \A s \in Surfaces : track[s].tracked = (s # Composition)
  /\ target \in Surfaces
  /\ command \in {Idle} \cup Commands
  /\ failures \in Nat

\* What a tracked surface's content promises of its pixels.
Known(t, pixels) ==
  t.tracked => \A p \in Cells : In(p, t.content) \/ pixels[p] = t.outside

\* While a command runs, the target's pixels are those the core has.
TargetReady == command # Idle => track[target].gpuValid

ContentInv ==
  /\ Typed
  /\ TargetReady
  /\ failures = 0 => \A s \in Surfaces : Known(track[s], image[s])

-----------------------------------------------------------------------------
(***************************************************************************)
(* Rectangles.                                                             *)
(***************************************************************************)

LEMMA Inputs ==
  ASSUME app \in Applications
  PROVE  /\ app.textures \subseteq Textures /\ app.colors \subseteq Pixels
         /\ app.blends \subseteq {"none", "blend", "add", "mod", "custom"}
         /\ app.mods \subseteq Pixels
         /\ app.views \subseteq Views /\ app.rects \subseteq Rectangles
         /\ app.copies \subseteq Copies /\ app.segments \subseteq Cells \X Cells
BY InputsAssumption DEF Application, Views, Copies

\* Rectangles are boxes with integer corners.
LEMMA RectangleTypes ==
  /\ Rectangles \subseteq Boxes
  /\ Whole \in Boxes /\ Nothing \in Boxes
  /\ \A x, y, w, h \in Int : Rect(x, y, w, h) \in Boxes
BY SizeAssumption DEF Rectangles, Boxes, Whole, Nothing, Rect

\* SDL_IntersectRect returns a box.
LEMMA MeetType ==
  ASSUME NEW a \in Boxes, NEW b \in Boxes
  PROVE  Meet(a, b) \in Boxes
BY DEF Boxes, Meet, Rect, Larger, Smaller

\* A rectangle moved with the viewport is a box.
LEMMA ShiftType ==
  ASSUME NEW r \in Boxes, NEW by \in Boxes
  PROVE  Shift(r, by) \in Boxes
<1>1. r.x \in Int /\ r.y \in Int /\ by.x \in Int /\ by.y \in Int
  BY DEF Boxes
<1>2. r.x + by.x \in Int /\ r.y + by.y \in Int
  BY <1>1
<1> DEFINE x == r.x + by.x
           y == r.y + by.y
<1>3. Shift(r, by) = [r EXCEPT !.x = x, !.y = y]
  BY DEF Shift, Boxes
<1> HIDE DEF x, y
<1> QED
  BY <1>2, <1>3 DEF Boxes, x, y

\* NOODLES_EffectiveClip returns a box.
LEMMA ClipType ==
  ASSUME NEW view \in Views
  PROVE  EffectiveClip(view) \in Boxes
<1>1. view.viewport \in Boxes /\ view.clip \in Boxes
  BY RectangleTypes DEF Views
<1>2. Meet(Whole, view.viewport) \in Boxes
  BY <1>1, MeetType, RectangleTypes
<1>3. Shift(view.clip, view.viewport) \in Boxes
  BY <1>1, ShiftType
<1> QED
  BY <1>2, <1>3, MeetType DEF EffectiveClip

\* A pixel is a pair of coordinates; no pixel is in an empty rectangle, and
\* every one in Whole.
LEMMA CellsIn ==
  ASSUME NEW p \in Cells
  PROVE  /\ p[1] \in Int /\ p[2] \in Int
         /\ In(p, Whole)
         /\ \A r \in Boxes : Empty(r) => ~In(p, r)
<1>1. p[1] \in 0 .. Width - 1 /\ p[2] \in 0 .. Height - 1
  BY DEF Cells
<1>2. In(p, Whole)
  BY <1>1, SizeAssumption DEF In, Whole, Rect
<1>3. ASSUME NEW r \in Boxes, Empty(r) PROVE ~In(p, r)
  BY <1>1, <1>3, SizeAssumption DEF In, Boxes, Empty
<1> QED
  BY <1>1, <1>2, <1>3, SizeAssumption

\* SDL_UnionRect of two rectangles covers both.
LEMMA HullCovers ==
  ASSUME NEW a \in Boxes, NEW b \in Boxes
  PROVE  /\ Hull(a, b) \in Boxes
         /\ \A p \in Cells : In(p, a) \/ In(p, b) => In(p, Hull(a, b))
<1>1. Hull(a, b) \in Boxes
  BY DEF Boxes, Hull, Rect, Larger, Smaller
<1>2. ASSUME NEW p \in Cells, In(p, a) \/ In(p, b)
      PROVE  In(p, Hull(a, b))
  <2>1. p[1] \in Int /\ p[2] \in Int
    BY CellsIn
  <2> QED
    BY <1>2, <2>1 DEF In, Boxes, Hull, Rect, Larger, Smaller
<1> QED
  BY <1>1, <1>2

-----------------------------------------------------------------------------
(***************************************************************************)
(* The functions on a surface's tracked state: their types, and what they  *)
(* do to the content and to the value outside of it.                       *)
(***************************************************************************)

LEMMA AlphaTypes ==
  /\ \A a : AlphaFromByte(a) \in Alphas
  /\ \A pixels, r, alpha : UpdateAlphaPixels(alpha, r, pixels) \in Alphas
  /\ \A current \in Alphas : \A r, a, mode : FillAlphaState(current, r, a, mode) \in Alphas
  /\ \A current \in Alphas : \A r, source, mod, mode :
       CopyAlphaState(current, r, source, mod, mode) \in Alphas
<1>1. \A a : AlphaFromByte(a) \in Alphas
  BY DEF AlphaFromByte, Alphas
<1>2. \A pixels, r : ClassifyPixels(pixels, r) \in Alphas
  BY DEF ClassifyPixels, Alphas
<1>3. \A pixels, r, alpha : UpdateAlphaPixels(alpha, r, pixels) \in Alphas
  BY <1>2 DEF UpdateAlphaPixels, Alphas
<1>4. \A current \in Alphas : \A r, a, mode : FillAlphaState(current, r, a, mode) \in Alphas
  BY <1>1 DEF FillAlphaState, Alphas
<1>5. \A current \in Alphas : \A r, source, mod, mode :
        CopyAlphaState(current, r, source, mod, mode) \in Alphas
  BY DEF CopyAlphaState, Alphas
<1> QED
  BY <1>1, <1>3, <1>4, <1>5

\* A new surface's pixels are all zero, as its tracked state says.
LEMMA InitSurfaceTrack ==
  ASSUME NEW s \in Surfaces
  PROVE  /\ InitSurface(s) \in Tracks
         /\ InitSurface(s).tracked = (s # Composition)
         /\ Known(InitSurface(s), Blank)
<1> DEFINE t == [content |-> Whole, outside |-> Clear, alpha |-> "zero",
                 gpuValid |-> FALSE, tracked |-> s # Composition]
<1>1. t \in Tracks
  BY RectangleTypes DEF Tracks, Alphas, Clear, Pixels
<1>2. [t EXCEPT !.content = Nothing, !.outside = Clear] \in Tracks
  BY <1>1, RectangleTypes DEF Tracks, Clear, Pixels
<1>3. InitSurface(s) = IF s # Composition THEN [t EXCEPT !.content = Nothing, !.outside = Clear] ELSE t
  BY DEF InitSurface, ResetContent
<1>4. InitSurface(s) \in Tracks
  BY <1>1, <1>2, <1>3
<1>5. InitSurface(s).tracked = (s # Composition)
  BY <1>3
<1>6. InitSurface(s).outside = Clear
  BY <1>3
<1>7. \A p \in Cells : Blank[p] = Clear
  BY DEF Blank
<1> QED
  BY <1>4, <1>5, <1>6, <1>7 DEF Known

\* MarkGPUWriteState leaves content and outside_pixel alone.
LEMMA MarkTracks ==
  ASSUME NEW t \in Tracks, NEW alpha \in Alphas
  PROVE  /\ MarkGPUWriteState(t, alpha) \in Tracks
         /\ MarkGPUWriteState(t, alpha).content = t.content
         /\ MarkGPUWriteState(t, alpha).outside = t.outside
         /\ MarkGPUWriteState(t, alpha).tracked = t.tracked
         /\ MarkGPUWriteState(t, alpha).gpuValid
BY DEF Tracks, MarkGPUWriteState

\* EnsureGPU leaves content and outside_pixel alone.
LEMMA EnsureTracks ==
  ASSUME NEW t \in Tracks
  PROVE  /\ EnsureGPU(t) \in Tracks
         /\ EnsureGPU(t).content = t.content
         /\ EnsureGPU(t).outside = t.outside
         /\ EnsureGPU(t).tracked = t.tracked
         /\ EnsureGPU(t).gpuValid
BY DEF Tracks, EnsureGPU

\* MarkCPUWrite leaves content and outside_pixel alone.
LEMMA CPUTracks ==
  ASSUME NEW t \in Tracks
  PROVE  /\ MarkCPUWrite(t) \in Tracks
         /\ MarkCPUWrite(t).content = t.content
         /\ MarkCPUWrite(t).outside = t.outside
         /\ MarkCPUWrite(t).tracked = t.tracked
BY DEF Tracks, MarkCPUWrite, Alphas

\* The content grows to hold r; the rest of the state stays.
LEMMA AddContentCovers ==
  ASSUME NEW t \in Tracks, NEW r \in Boxes
  PROVE  /\ AddContent(t, r) \in Tracks
         /\ AddContent(t, r).outside = t.outside
         /\ AddContent(t, r).tracked = t.tracked
         /\ AddContent(t, r).gpuValid = t.gpuValid
         /\ t.tracked => \A p \in Cells :
              In(p, t.content) \/ In(p, r) => In(p, AddContent(t, r).content)
<1>1. t.content \in Boxes
  BY DEF Tracks
<1>2. CASE ~t.tracked \/ Empty(r)
  <2>1. AddContent(t, r) = t
    BY <1>2 DEF AddContent
  <2>2. ASSUME t.tracked, NEW p \in Cells PROVE ~In(p, r)
    BY <1>2, <2>2, CellsIn
  <2> QED
    BY <2>1, <2>2
<1>3. CASE t.tracked /\ ~Empty(r)
  <2> DEFINE grown == IF Empty(t.content) THEN r ELSE Hull(t.content, r)
  <2>1. grown \in Boxes /\ \A p \in Cells : In(p, t.content) \/ In(p, r) => In(p, grown)
    BY <1>1, HullCovers, CellsIn
  <2>2. AddContent(t, r) = [t EXCEPT !.content = grown]
    BY <1>3 DEF AddContent
  <2> HIDE DEF grown
  <2>3. AddContent(t, r).content = grown
    BY <2>2 DEF Tracks
  <2> QED
    BY <2>1, <2>2, <2>3 DEF Tracks
<1>4. t.tracked \in BOOLEAN
  BY DEF Tracks
<1> QED
  BY <1>2, <1>3, <1>4

\* Pixels that change in r only are known when the content has grown by r.
LEMMA GrownKnown ==
  ASSUME NEW t \in Tracks, NEW r \in Boxes, NEW old, NEW new,
         Known(t, old), \A p \in Cells : ~In(p, r) => new[p] = old[p]
  PROVE  Known(AddContent(t, r), new)
BY AddContentCovers DEF Known

-----------------------------------------------------------------------------
(***************************************************************************)
(* OpaqueFillRegion: what is written instead of r, and the content left.   *)
(***************************************************************************)

LEMMA FillTrack ==
  ASSUME NEW t \in Tracks, NEW r \in Boxes, NEW color \in Pixels
  PROVE  /\ OpaqueFillRegion(t, r, color).track \in Tracks
         /\ OpaqueFillRegion(t, r, color).track.tracked = t.tracked
         /\ OpaqueFillRegion(t, r, color).track.gpuValid = t.gpuValid
<1> DEFINE known == t.tracked /\ t.gpuValid /\ color = t.outside /\ RectContains(r, t.content)
<1>1. CASE known
  <2>1. OpaqueFillRegion(t, r, color).track = [t EXCEPT !.content = Nothing]
    BY <1>1 DEF OpaqueFillRegion
  <2> QED
    BY <2>1, RectangleTypes DEF Tracks
<1>2. CASE ~known
  <2>1. OpaqueFillRegion(t, r, color).track =
          IF FullRect(r) THEN ResetContent(t, color) ELSE AddContent(t, r)
    BY <1>2 DEF OpaqueFillRegion
  <2>2. CASE FullRect(r)
    <3>1. \/ OpaqueFillRegion(t, r, color).track = t
          \/ OpaqueFillRegion(t, r, color).track =
               [t EXCEPT !.content = Nothing, !.outside = color]
      BY <2>1, <2>2 DEF ResetContent
    <3> QED
      BY <3>1, RectangleTypes DEF Tracks
  <2>3. CASE ~FullRect(r)
    BY <2>1, <2>3, AddContentCovers
  <2> QED
    BY <2>2, <2>3
<1> QED
  BY <1>1, <1>2

\* Whether it is written in part, in full or not at all, the fill leaves
\* the content true of the pixels; device is what the core had.
LEMMA FillKnown ==
  ASSUME NEW t \in Tracks, NEW r \in Boxes, NEW color \in Pixels, NEW device,
         t.gpuValid => Known(t, device),
         t.gpuValid \/ FullRect(r)
  PROVE  LET region == OpaqueFillRegion(t, r, color) IN
         Known(region.track,
               IF region.needed THEN Wiped(device, {p \in Cells : In(p, region.write)}, color)
               ELSE device)
<1> DEFINE region == OpaqueFillRegion(t, r, color)
           written == Wiped(device, {p \in Cells : In(p, region.write)}, color)
           known == t.tracked /\ t.gpuValid /\ color = t.outside /\ RectContains(r, t.content)
<1>0. \A p \in Cells : written[p] = IF In(p, region.write) THEN color ELSE device[p]
  BY DEF Wiped
<1>1. CASE known
  <2>1. /\ region.track = [t EXCEPT !.content = Nothing]
        /\ region.write = t.content
        /\ region.needed = ~Empty(t.content)
    BY <1>1 DEF OpaqueFillRegion
  <2>2. t.content \in Boxes /\ region.track.outside = color
    BY <1>1, <2>1 DEF Tracks
  <2>3. \A p \in Cells : In(p, t.content) \/ device[p] = color
    BY <1>1 DEF Known
  <2>4. CASE region.needed
    BY <1>0, <2>1, <2>2, <2>3, <2>4 DEF Known
  <2>5. CASE ~region.needed
    <3>1. Empty(t.content)
      BY <2>1, <2>5
    <3>2. \A p \in Cells : device[p] = color
      BY <2>2, <2>3, <3>1, CellsIn
    <3> QED
      BY <2>2, <2>5, <3>2 DEF Known
  <2> QED
    BY <2>4, <2>5
<1>2. CASE ~known
  <2>1. /\ region.track = IF FullRect(r) THEN ResetContent(t, color) ELSE AddContent(t, r)
        /\ region.write = r
        /\ region.needed
    BY <1>2 DEF OpaqueFillRegion
  <2>2. CASE FullRect(r)
    <3>1. \A p \in Cells : written[p] = color
      BY <1>0, <2>1, <2>2, CellsIn DEF FullRect
    <3>2. region.track.tracked => region.track.outside = color
      BY <2>1, <2>2 DEF ResetContent, Tracks
    <3> QED
      BY <2>1, <3>1, <3>2 DEF Known
  <2>3. CASE ~FullRect(r)
    <3>1. Known(t, device)
      BY <2>3
    <3>2. \A p \in Cells : ~In(p, r) => written[p] = device[p]
      BY <1>0, <2>1
    <3>3. Known(AddContent(t, r), written)
      BY <3>1, <3>2, GrownKnown
    <3> QED
      BY <2>1, <2>3, <3>3
  <2> QED
    BY <2>2, <2>3
<1> QED
  BY <1>1, <1>2

-----------------------------------------------------------------------------
(***************************************************************************)
(* One surface changes; the others keep what they were.                    *)
(***************************************************************************)

LEMMA OneSurface ==
  ASSUME ContentInv, NEW s \in Surfaces, NEW t \in Tracks, NEW pixels,
         t.tracked = track[s].tracked,
         track' = [track EXCEPT ![s] = t], image' = [image EXCEPT ![s] = pixels],
         app' = app, target' \in Surfaces, command' \in {Idle} \cup Commands,
         failures' = failures,
         command' # Idle => track'[target'].gpuValid,
         failures = 0 => Known(t, pixels)
  PROVE  ContentInv'
<1> USE DEF ContentInv, Typed
<1>1. track' \in [Surfaces -> Tracks]
  OBVIOUS
<1>2. image' = [r \in Surfaces |-> image'[r]]
  OBVIOUS
<1>3. \A r \in Surfaces : track'[r].tracked = (r # Composition)
  OBVIOUS
<1>4. Typed'
  BY <1>1, <1>2, <1>3
<1>5. ASSUME failures' = 0, NEW r \in Surfaces PROVE Known(track'[r], image'[r])
  <2>1. CASE r = s
    BY <1>5, <2>1
  <2>2. CASE r # s
    <3>1. track'[r] = track[r] /\ image'[r] = image[r]
      BY <2>2
    <3> QED
      BY <1>5, <3>1
  <2> QED
    BY <2>1, <2>2
<1> QED
  BY <1>4, <1>5 DEF TargetReady

\* After a failure nothing is promised of the content.
LEMMA Failure ==
  ASSUME ContentInv, NEW t \in Tracks, NEW pixels, t.tracked = track[target].tracked,
         track' = [track EXCEPT ![target] = t], Fails(target, pixels),
         app' = app, target' = target
  PROVE  ContentInv'
<1> USE DEF ContentInv, Typed
<1>1. failures' = failures + 1 /\ command' = Idle
  BY DEF Fails
<1>2. PICK left : image' = [image EXCEPT ![target] = left]
  BY DEF Fails, Leaves
<1>3. track' \in [Surfaces -> Tracks]
  OBVIOUS
<1>4. \A r \in Surfaces : track'[r].tracked = (r # Composition)
  OBVIOUS
<1>5. image' = [r \in Surfaces |-> image'[r]]
  BY <1>2
<1>6. failures' \in Nat /\ failures' # 0
  BY <1>1
<1> QED
  BY <1>1, <1>3, <1>4, <1>5, <1>6 DEF TargetReady

-----------------------------------------------------------------------------
(***************************************************************************)
(* The callbacks that do not draw.                                         *)
(***************************************************************************)

LEMMA RecreateStep ==
  ASSUME ContentInv, app' = app, NEW s \in Textures, RecreateTexture(s)
  PROVE  ContentInv'
<1> DEFINE t == InitSurface(s)
<1>1. s \in Surfaces /\ track[s].tracked = (s # Composition) /\ target \in Surfaces
  BY DEF Surfaces, ContentInv, Typed
<1>2. t \in Tracks /\ t.tracked = track[s].tracked /\ Known(t, Blank)
  BY <1>1, InitSurfaceTrack
<1>3. track' = [track EXCEPT ![s] = t] /\ image' = [image EXCEPT ![s] = Blank]
      /\ command' = Idle /\ target' = target /\ failures' = failures
  BY DEF RecreateTexture, Leaves
<1> HIDE DEF t
<1> QED
  BY <1>1, <1>2, <1>3, OneSurface

\* An update writes within the rectangle it adds to the content.
LEMMA UpdateStep ==
  ASSUME ContentInv, app' = app, NEW s \in Textures, NEW r \in Rectangles, NEW color,
         UpdateTexture(s, r, color)
  PROVE  ContentInv'
<1> USE DEF ContentInv, Typed
<1>1. s \in Surfaces /\ track[s] \in Tracks /\ r \in Boxes
  BY RectangleTypes DEF Surfaces
<1> DEFINE pixels == Wiped(image[s], {p \in Cells : In(p, r)}, color)
           alpha == UpdateAlphaPixels(track[s].alpha, r, pixels)
           t == [track[s] EXCEPT !.alpha = alpha]
<1>2. t \in Tracks /\ t.content = track[s].content /\ t.outside = track[s].outside
      /\ t.tracked = track[s].tracked
  <2>1. alpha \in Alphas
    BY AlphaTypes
  <2> HIDE DEF alpha
  <2> QED
    BY <1>1, <2>1 DEF Tracks
<1>3. PICK uploaded \in {FALSE, track[s].gpuValid} :
        track' = [track EXCEPT ![s] = [AddContent(t, r) EXCEPT !.gpuValid = uploaded]]
  BY DEF UpdateTexture
<1>4. image' = [image EXCEPT ![s] = pixels] /\ command = Idle
      /\ UNCHANGED <<target, command, failures>>
  BY DEF UpdateTexture, Leaves
<1>5. \A p \in Cells : ~In(p, r) => pixels[p] = image[s][p]
  BY DEF Wiped
<1> HIDE DEF pixels, t
<1> DEFINE u == [AddContent(t, r) EXCEPT !.gpuValid = uploaded]
<1>6. AddContent(t, r) \in Tracks /\ AddContent(t, r).tracked = track[s].tracked
  BY <1>1, <1>2, AddContentCovers
<1>7. u \in Tracks /\ u.content = AddContent(t, r).content
      /\ u.outside = AddContent(t, r).outside /\ u.tracked = AddContent(t, r).tracked
  <2>1. uploaded \in BOOLEAN
    BY <1>1, <1>3 DEF Tracks
  <2> QED
    BY <1>6, <2>1 DEF Tracks
<1>8. failures = 0 => Known(u, pixels)
  <2> SUFFICES ASSUME failures = 0 PROVE Known(u, pixels)
    OBVIOUS
  <2>1. Known(track[s], image[s])
    BY <1>1
  <2>2. Known(t, image[s])
    BY <1>2, <2>1 DEF Known
  <2>3. Known(AddContent(t, r), pixels)
    BY <1>1, <1>2, <1>5, <2>2, GrownKnown
  <2> QED
    BY <1>7, <2>3 DEF Known
<1>9. u.tracked = track[s].tracked
  BY <1>6, <1>7
<1> HIDE DEF u
<1>10. track' = [track EXCEPT ![s] = u]
  BY <1>3 DEF u
<1> QED
  BY <1>1, <1>4, <1>7, <1>8, <1>9, <1>10, OneSurface

\* Eviction changes no pixel.
LEMMA EvictStep ==
  ASSUME ContentInv, app' = app, NEW s \in Textures, EvictSurface(s)
  PROVE  ContentInv'
<1> DEFINE t == [track[s] EXCEPT !.gpuValid = FALSE]
<1>1. s \in Surfaces /\ track[s] \in Tracks /\ target \in Surfaces
  BY DEF Surfaces, ContentInv, Typed
<1>2. t \in Tracks /\ t.content = track[s].content /\ t.outside = track[s].outside
      /\ t.tracked = track[s].tracked
  BY <1>1 DEF Tracks
<1>3. track' = [track EXCEPT ![s] = t] /\ command' = Idle /\ target' = target
      /\ failures' = failures
  BY <1>1 DEF EvictSurface, ContentInv, Typed
<1>4. image' = [image EXCEPT ![s] = image[s]]
  BY <1>1 DEF EvictSurface, ContentInv, Typed
<1>5. failures = 0 => Known(t, image[s])
  BY <1>1, <1>2 DEF Known, ContentInv
<1> HIDE DEF t
<1> QED
  BY <1>1, <1>2, <1>3, <1>4, <1>5, OneSurface

\* Turning to another target changes no pixel.
LEMMA TargetStep ==
  ASSUME ContentInv, app' = app, NEW s \in Surfaces, SetRenderTarget(s)
  PROVE  ContentInv'
BY DEF ContentInv, Typed, TargetReady, SetRenderTarget

\* The composition is not tracked.
LEMMA PresentStep ==
  ASSUME ContentInv, app' = app, RenderPresent
  PROVE  ContentInv'
<1> USE DEF ContentInv, Typed
<1> DEFINE s == Composition
           t == MarkGPUWriteState(track[s], "unknown")
<1>1. s \in Surfaces /\ track[s] \in Tracks /\ ~track[s].tracked
  BY DEF Surfaces
<1>2. t \in Tracks /\ t.tracked = track[s].tracked
  BY <1>1, MarkTracks DEF Alphas
<1>3. PICK older : image' = [image EXCEPT ![s] = older]
  BY DEF RenderPresent, Leaves
<1>4. Known(t, older)
  BY <1>1, <1>2 DEF Known
<1>5. track' = [track EXCEPT ![s] = t]
  BY DEF RenderPresent
<1>6. command = Idle /\ UNCHANGED <<target, command, failures>>
  BY DEF RenderPresent
<1> HIDE DEF t, s
<1> QED
  BY <1>1, <1>2, <1>3, <1>4, <1>5, <1>6, OneSurface

-----------------------------------------------------------------------------
(***************************************************************************)
(* Clears, fills, points and lines.                                        *)
(***************************************************************************)

\* What the core has of a surface that is up to date.
LEMMA DeviceKnown ==
  ASSUME ContentInv, failures = 0
  PROVE  track[target].gpuValid => Known(track[target], Device(target))
BY DEF ContentInv, Typed, Device

\* A clear makes every pixel the new outside_pixel, trimmed or not.
LEMMA ClearStep ==
  ASSUME ContentInv, app' = app, NEW color \in Pixels, RenderClear(color)
  PROVE  ContentInv'
<1> DEFINE region == OpaqueFillRegion(track[target], Whole, color)
           pixels == IF region.needed
                     THEN Wiped(Device(target), {p \in Cells : In(p, region.write)}, color)
                     ELSE Device(target)
           t == MarkGPUWriteState(region.track, AlphaFromByte(color.a))
<1>1. target \in Surfaces /\ track[target] \in Tracks
  BY DEF ContentInv, Typed
<1>2. region.track \in Tracks /\ region.track.tracked = track[target].tracked
  BY <1>1, FillTrack, RectangleTypes
<1>3. failures = 0 => Known(region.track, pixels)
  <2>1. FullRect(Whole)
    BY DEF FullRect
  <2> QED
    BY <1>1, <2>1, DeviceKnown, FillKnown, RectangleTypes
<1>4. target' = target
  BY DEF RenderClear
<1>5. CASE /\ track' = [track EXCEPT ![target] = t]
           /\ image' = [image EXCEPT ![target] = pixels]
           /\ command' = Idle /\ failures' = failures
  <2> HIDE DEF region, pixels
  <2>1. AlphaFromByte(color.a) \in Alphas
    BY AlphaTypes
  <2>2. t \in Tracks /\ t.tracked = track[target].tracked
        /\ t.content = region.track.content /\ t.outside = region.track.outside
    BY <1>2, <2>1, MarkTracks
  <2>3. failures = 0 => Known(t, pixels)
    BY <1>2, <1>3, <2>2 DEF Known
  <2> HIDE DEF t
  <2> QED
    BY <1>1, <1>4, <1>5, <2>2, <2>3, OneSurface
<1>6. CASE track' = [track EXCEPT ![target] = region.track] /\ Fails(target, pixels)
  <2> HIDE DEF region, pixels
  <2> QED
    BY <1>2, <1>4, <1>6, Failure
<1>7. \/ /\ track' = [track EXCEPT ![target] = t]
         /\ image' = [image EXCEPT ![target] = pixels]
         /\ command' = Idle /\ failures' = failures
      \/ track' = [track EXCEPT ![target] = region.track] /\ Fails(target, pixels)
  BY DEF RenderClear, Leaves
<1> QED
  BY <1>5, <1>6, <1>7

\* The first step of a command makes the target's surface current.
LEMMA BeginStep ==
  ASSUME ContentInv, app' = app, NEW kind \in {"fill", "lines"}, NEW view \in Views,
         NEW mode \in {"none", "blend", "add", "mod", "custom"}, NEW color \in Pixels,
         Begin(kind, view, mode, color)
  PROVE  ContentInv'
<1> DEFINE t == EnsureGPU(track[target])
<1>1. target \in Surfaces /\ track[target] \in Tracks
  BY DEF ContentInv, Typed
<1>2. t \in Tracks /\ t.tracked = track[target].tracked /\ t.gpuValid
      /\ t.content = track[target].content /\ t.outside = track[target].outside
  BY <1>1, EnsureTracks
<1>3. track' = [track EXCEPT ![target] = t] /\ target' = target /\ failures' = failures
  BY DEF Begin
<1>4. image' = [image EXCEPT ![target] = image[target]]
  BY <1>1 DEF Begin, ContentInv, Typed
<1>5. command' \in Commands
  <2>1. track[target].alpha \in Alphas
    BY <1>1 DEF Tracks
  <2> QED
    BY <2>1 DEF Begin, Commands
<1>6. failures = 0 => Known(t, image[target])
  BY <1>1, <1>2 DEF Known, ContentInv
<1> HIDE DEF t
<1>7. track'[target'].gpuValid
  BY <1>1, <1>2, <1>3 DEF ContentInv, Typed
<1> QED
  BY <1>1, <1>2, <1>3, <1>4, <1>5, <1>6, <1>7, OneSurface

\* The command is typed, and counts a rectangle in its locals.
LEMMA Accounts ==
  ASSUME ContentInv, command.kind # "idle", NEW r, Account(r)
  PROVE  command \in Commands /\ command' \in Commands /\ track[target].gpuValid
<1>1. command \in Commands
  BY DEF ContentInv, Typed, Idle
<1> DEFINE alpha == FillAlphaState(command.alpha, r, command.color.a, command.blend)
<1>2. alpha \in Alphas
  BY <1>1, AlphaTypes DEF Commands
<1> HIDE DEF alpha
<1>3. command' = [command EXCEPT !.drew = TRUE, !.alpha = alpha]
  BY DEF Account, alpha
<1>4. command' \in Commands
  BY <1>1, <1>2, <1>3 DEF Commands
<1>5. command # Idle
  BY DEF Idle
<1> QED
  BY <1>1, <1>4, <1>5 DEF ContentInv, TargetReady

\* A rectangle r of a running command, drawn without a failure.
LEMMA DrawnStep ==
  ASSUME ContentInv, app' = app, command.kind # "idle", NEW r, Account(r),
         NEW t \in Tracks, NEW pixels, t.tracked = track[target].tracked,
         t.gpuValid = track[target].gpuValid, failures = 0 => Known(t, pixels),
         track' = [track EXCEPT ![target] = t], image' = [image EXCEPT ![target] = pixels],
         target' = target, failures' = failures
  PROVE  ContentInv'
<1>1. command' \in Commands /\ track[target].gpuValid
  BY Accounts
<1>2. target \in Surfaces /\ track'[target'].gpuValid
  BY <1>1 DEF ContentInv, Typed
<1> QED
  BY <1>1, <1>2, OneSurface

\* A fill writes within the content it leaves, or the known value.
LEMMA FillRectStep ==
  ASSUME ContentInv, app' = app, NEW r \in Rectangles, FillRect(r)
  PROVE  ContentInv'
<1> DEFINE visible == Meet(Shift(r, command.view.viewport), EffectiveClip(command.view))
           region == OpaqueFillRegion(track[target], visible, command.color)
           opaque == command.blend = "none"
           written == Wiped(Device(target), {p \in Cells : In(p, region.write)}, command.color)
           blended == Filled(Device(target), {p \in Cells : In(p, visible)},
                             command.blend, command.color)
           pixels == IF opaque THEN written ELSE blended
           filled == IF region.needed THEN written ELSE Device(target)
           grown == AddContent(track[target], visible)
<1>1. command.kind = "fill" /\ target' = target
  BY DEF FillRect
<1>2. command \in Commands /\ track[target].gpuValid
  BY <1>1 DEF ContentInv, Typed, TargetReady, Idle
<1>3. target \in Surfaces /\ track[target] \in Tracks
  BY DEF ContentInv, Typed
<1>4. visible \in Boxes
  <2>1. command.view \in Views /\ command.view.viewport \in Boxes /\ r \in Boxes
    BY <1>2, RectangleTypes DEF Commands, Views
  <2> QED
    BY <2>1, ShiftType, ClipType, MeetType
<1>5. region.track \in Tracks /\ region.track.tracked = track[target].tracked
      /\ region.track.gpuValid = track[target].gpuValid
  BY <1>2, <1>3, <1>4, FillTrack DEF Commands
<1>6. grown \in Tracks /\ grown.tracked = track[target].tracked
      /\ grown.gpuValid = track[target].gpuValid
  BY <1>3, <1>4, AddContentCovers
<1>7. failures = 0 => Known(region.track, filled)
  BY <1>2, <1>3, <1>4, DeviceKnown, FillKnown DEF Commands
<1>8. failures = 0 => Known(grown, blended)
  <2> SUFFICES ASSUME failures = 0 PROVE Known(grown, blended)
    OBVIOUS
  <2>1. Known(track[target], Device(target))
    BY <1>2, DeviceKnown
  <2>2. \A p \in Cells : ~In(p, visible) => blended[p] = Device(target)[p]
    BY DEF Filled
  <2> QED
    BY <1>3, <1>4, <2>1, <2>2, GrownKnown
<1>9. CASE /\ opaque /\ track' = [track EXCEPT ![target] = region.track]
           /\ image' = [image EXCEPT ![target] = filled]
           /\ Account(visible) /\ failures' = failures
  <2> HIDE DEF region, filled, visible
  <2> QED
    BY <1>1, <1>5, <1>7, <1>9, DrawnStep
<1>10. CASE /\ ~opaque /\ track' = [track EXCEPT ![target] = grown]
            /\ image' = [image EXCEPT ![target] = blended]
            /\ Account(visible) /\ failures' = failures
  <2> HIDE DEF grown, blended, visible
  <2> QED
    BY <1>1, <1>6, <1>8, <1>10, DrawnStep
<1>11. CASE /\ track' = [track EXCEPT ![target] = IF opaque THEN region.track ELSE @]
            /\ Fails(target, pixels)
  <2> DEFINE t == IF opaque THEN region.track ELSE track[target]
  <2>1. t \in Tracks /\ t.tracked = track[target].tracked
    BY <1>3, <1>5
  <2>2. track' = [track EXCEPT ![target] = t]
    BY <1>11
  <2> HIDE DEF t, pixels
  <2> QED
    BY <1>1, <1>11, <2>1, <2>2, Failure
<1>12. \/ /\ opaque /\ track' = [track EXCEPT ![target] = region.track]
          /\ image' = [image EXCEPT ![target] = filled]
          /\ Account(visible) /\ failures' = failures
       \/ /\ ~opaque /\ track' = [track EXCEPT ![target] = grown]
          /\ image' = [image EXCEPT ![target] = blended]
          /\ Account(visible) /\ failures' = failures
       \/ /\ track' = [track EXCEPT ![target] = IF opaque THEN region.track ELSE @]
          /\ Fails(target, pixels)
  BY DEF FillRect, Leaves
<1> QED
  BY <1>9, <1>10, <1>11, <1>12

\* A segment's pixels lie in the box added to the content.
LEMMA SegmentStep ==
  ASSUME ContentInv, app' = app, NEW a \in Cells, NEW b \in Cells, OpaqueSegment(a, b)
  PROVE  ContentInv'
<1> DEFINE box == Rect(Smaller(a[1], b[1]), Smaller(a[2], b[2]),
                       Larger(a[1], b[1]) - Smaller(a[1], b[1]) + 1,
                       Larger(a[2], b[2]) - Smaller(a[2], b[2]) + 1)
           diagonal == box.w = box.h /\ box.w > 1
           cells == {p \in Cells : /\ In(p, box)
                                   /\ diagonal => (p[1] - a[1]) * (b[2] - a[2])
                                                = (p[2] - a[2]) * (b[1] - a[1])}
           last == IF diagonal THEN Rect(b[1], b[2], 1, 1) ELSE box
           pixels == Wiped(Device(target), cells, command.color)
           grown == AddContent(track[target], box)
<1>1. command.kind = "lines" /\ target' = target
  BY DEF OpaqueSegment
<1>2. command.kind # "idle" /\ track[target].gpuValid
  BY <1>1 DEF ContentInv, TargetReady, Idle
<1>3. target \in Surfaces /\ track[target] \in Tracks
  BY DEF ContentInv, Typed
<1>4. box \in Boxes
  BY CellsIn DEF Boxes, Rect, Larger, Smaller
<1>5. \A p \in Cells : ~In(p, box) => pixels[p] = Device(target)[p]
  BY DEF Wiped
<1>6. \/ /\ track' = [track EXCEPT ![target] = grown]
         /\ image' = [image EXCEPT ![target] = pixels]
         /\ Account(last) /\ failures' = failures
      \/ /\ track' = track
         /\ \E part \in IF diagonal THEN {{a}, cells} ELSE {cells} :
              Fails(target, Wiped(Device(target), part, command.color))
  BY DEF OpaqueSegment, Leaves
<1> HIDE DEF box, pixels, last, cells, diagonal
<1>7. grown \in Tracks /\ grown.tracked = track[target].tracked
      /\ grown.gpuValid = track[target].gpuValid
  BY <1>3, <1>4, AddContentCovers
<1>8. failures = 0 => Known(grown, pixels)
  BY <1>2, <1>3, <1>4, <1>5, DeviceKnown, GrownKnown
<1> HIDE DEF grown
<1>9. CASE /\ track' = [track EXCEPT ![target] = grown]
           /\ image' = [image EXCEPT ![target] = pixels]
           /\ Account(last) /\ failures' = failures
  BY <1>1, <1>2, <1>7, <1>8, <1>9, DrawnStep
<1>10. ASSUME track' = track, NEW part,
              Fails(target, Wiped(Device(target), part, command.color))
       PROVE  ContentInv'
  <2>1. track' = [track EXCEPT ![target] = track[target]]
    BY <1>3, <1>10 DEF ContentInv, Typed
  <2> QED
    BY <1>1, <1>3, <1>10, <2>1, Failure
<1> QED
  BY <1>6, <1>9, <1>10

\* The end of a command records alpha_state alone.
LEMMA EndStep ==
  ASSUME ContentInv, app' = app, EndCommand
  PROVE  ContentInv'
<1> DEFINE t == IF command.drew THEN MarkGPUWriteState(track[target], command.alpha)
                ELSE track[target]
<1>1. target \in Surfaces /\ track[target] \in Tracks
  BY DEF ContentInv, Typed
<1>2. command \in Commands
  BY DEF EndCommand, ContentInv, Typed
<1>3. t \in Tracks /\ t.tracked = track[target].tracked
      /\ t.content = track[target].content /\ t.outside = track[target].outside
  BY <1>1, <1>2, MarkTracks DEF Commands
<1>4. track' = [track EXCEPT ![target] = t]
  BY <1>1 DEF EndCommand, ContentInv, Typed
<1>5. image' = [image EXCEPT ![target] = image[target]]
  BY <1>1 DEF EndCommand, ContentInv, Typed
<1>6. failures = 0 => Known(t, image[target])
  BY <1>1, <1>3 DEF Known, ContentInv
<1>7. command' = Idle /\ target' = target /\ failures' = failures
  BY DEF EndCommand
<1> HIDE DEF t
<1> QED
  BY <1>1, <1>3, <1>4, <1>5, <1>6, <1>7, OneSurface

\* The drawing of one call, over and done with.
LEMMA CallStep ==
  ASSUME ContentInv, app' = app, command' = Idle, target' = target, failures' = failures,
         NEW t \in Tracks, NEW pixels, t.tracked = track[target].tracked,
         failures = 0 => Known(t, pixels),
         track' = [track EXCEPT ![target] = t], image' = [image EXCEPT ![target] = pixels]
  PROVE  ContentInv'
<1>1. target \in Surfaces
  BY DEF ContentInv, Typed
<1> QED
  BY <1>1, OneSurface

\* The least and greatest of two coordinates bound both.
LEMMA Extremes ==
  ASSUME NEW a \in Int, NEW b \in Int, NEW S, S = {a, b}
  PROVE  LET least == CHOOSE i \in S : \A j \in S : i <= j
             most == CHOOSE i \in S : \A j \in S : i >= j
         IN least \in Int /\ most \in Int /\ least <= a /\ least <= b /\ a <= most /\ b <= most
<1>1. \E i \in S : \A j \in S : i <= j
  <2>1. CASE a <= b
    BY <2>1
  <2>2. CASE b <= a
    BY <2>2
  <2> QED
    BY <2>1, <2>2
<1>2. \E i \in S : \A j \in S : i >= j
  <2>1. CASE a <= b
    BY <2>1
  <2>2. CASE b <= a
    BY <2>2
  <2> QED
    BY <2>1, <2>2
<1> QED
  BY <1>1, <1>2

\* A pixel of two rectangles is in their intersection.
LEMMA MeetHolds ==
  ASSUME NEW a \in Boxes, NEW b \in Boxes, NEW p \in Cells, In(p, a), In(p, b)
  PROVE  In(p, Meet(a, b))
<1>1. p[1] \in Int /\ p[2] \in Int
  BY CellsIn
<1> QED
  BY <1>1 DEF In, Boxes, Meet, Rect, Larger, Smaller

\* Points the CPU draws lie in the region it commits.
LEMMA FallbackStep ==
  ASSUME ContentInv, app' = app, NEW view \in Views, NEW a \in Cells, NEW b \in Cells,
         NEW mode, NEW color, PrimitiveFallback(view, {a, b}, mode, color)
  PROVE  ContentInv'
<1> DEFINE points == {a, b}
           clip == EffectiveClip(view)
           least(S) == CHOOSE i \in S : \A j \in S : i <= j
           most(S) == CHOOSE i \in S : \A j \in S : i >= j
           xs == {p[1] : p \in points}
           ys == {p[2] : p \in points}
           box == Rect(least(xs), least(ys), most(xs) - least(xs) + 1,
                       most(ys) - least(ys) + 1)
           region == Meet(clip, box)
           cells == {p \in points : In(p, clip)}
           pixels == Filled(image[target], cells, mode, color)
           t == CommitCPURegion(track[target], region)
           u == [track[target] EXCEPT !.gpuValid = TRUE, !.alpha = "unknown"]
<1>1. target \in Surfaces /\ track[target] \in Tracks
  BY DEF ContentInv, Typed
<1>2. command' = Idle /\ target' = target /\ failures' = failures
      /\ track' = [track EXCEPT ![target] = t] /\ image' = [image EXCEPT ![target] = pixels]
  BY DEF PrimitiveFallback, Leaves
<1>3. a[1] \in Int /\ a[2] \in Int /\ b[1] \in Int /\ b[2] \in Int
  BY CellsIn
<1>4. xs = {a[1], b[1]} /\ ys = {a[2], b[2]}
  OBVIOUS
<1> HIDE DEF xs, ys
<1>5. /\ least(xs) \in Int /\ most(xs) \in Int
      /\ least(xs) <= a[1] /\ least(xs) <= b[1] /\ a[1] <= most(xs) /\ b[1] <= most(xs)
  BY <1>3, <1>4, Extremes
<1>6. /\ least(ys) \in Int /\ most(ys) \in Int
      /\ least(ys) <= a[2] /\ least(ys) <= b[2] /\ a[2] <= most(ys) /\ b[2] <= most(ys)
  BY <1>3, <1>4, Extremes
<1> HIDE DEF least, most
<1>7. box \in Boxes /\ In(a, box) /\ In(b, box)
  BY <1>3, <1>5, <1>6 DEF Boxes, Rect, In
<1> HIDE DEF box
<1>8. clip \in Boxes /\ region \in Boxes
  BY <1>7, ClipType, MeetType
<1>9. \A p \in cells : In(p, region)
  BY <1>7, <1>8, MeetHolds
<1>10. \A p \in Cells : ~In(p, region) => pixels[p] = image[target][p]
  BY <1>9 DEF Filled
<1>11. u \in Tracks /\ u.content = track[target].content
       /\ u.outside = track[target].outside /\ u.tracked = track[target].tracked
  BY <1>1 DEF Tracks, Alphas
<1>12. t = AddContent(u, region)
  BY DEF CommitCPURegion
<1> HIDE DEF u, region, pixels, t
<1>13. t \in Tracks /\ t.tracked = track[target].tracked
  BY <1>8, <1>11, <1>12, AddContentCovers
<1>14. failures = 0 => Known(t, pixels)
  <2> SUFFICES ASSUME failures = 0 PROVE Known(t, pixels)
    OBVIOUS
  <2>1. Known(u, image[target])
    BY <1>1, <1>11 DEF Known, ContentInv
  <2> QED
    BY <1>8, <1>10, <1>11, <1>12, <2>1, GrownKnown
<1> QED
  BY <1>2, <1>13, <1>14, CallStep

\* After triangles the content is the whole surface.
LEMMA GeometryStep ==
  ASSUME ContentInv, app' = app, NEW view, NEW cells, NEW mode, NEW color,
         Geometry(view, cells, mode, color)
  PROVE  ContentInv'
<1> DEFINE u == [track[target] EXCEPT !.content = Whole]
           t == MarkCPUWrite(u)
<1>1. target \in Surfaces /\ track[target] \in Tracks
  BY DEF ContentInv, Typed
<1>2. u \in Tracks /\ u.content = Whole /\ u.tracked = track[target].tracked
  BY <1>1, RectangleTypes DEF Tracks
<1>3. PICK pixels : image' = [image EXCEPT ![target] = pixels]
  BY DEF Geometry, Leaves
<1>4. command' = Idle /\ target' = target /\ failures' = failures
      /\ track' = [track EXCEPT ![target] = t]
  BY DEF Geometry
<1> HIDE DEF u
<1>5. t \in Tracks /\ t.content = Whole /\ t.tracked = track[target].tracked
  BY <1>2, CPUTracks
<1> HIDE DEF t
<1>6. Known(t, pixels)
  BY <1>5, CellsIn DEF Known
<1> QED
  BY <1>3, <1>4, <1>5, <1>6, CallStep

-----------------------------------------------------------------------------
(***************************************************************************)
(* Copies.                                                                 *)
(***************************************************************************)

LEMMA PlaceTypes ==
  ASSUME NEW c \in Copies, NEW view \in Views
  PROVE  /\ c.source \in Boxes
         /\ Shift(c.destination, view.viewport) \in Boxes
         /\ EffectiveClip(view) \in Boxes
<1>1. c.source \in Boxes /\ c.destination \in Boxes /\ view.viewport \in Boxes
  BY RectangleTypes DEF Copies, Parts, Views
<1> QED
  BY <1>1, ShiftType, ClipType

\* A copy the CPU draws adds its visible part to the content.
LEMMA SoftwareStep ==
  ASSUME ContentInv, app' = app, command' = Idle, target' = target,
         NEW s, NEW c \in Copies, NEW view \in Views, NEW mode, NEW mod,
         SoftwareCopy(s, c, view, mode, mod)
  PROVE  ContentInv'
<1> DEFINE place == Shift(c.destination, view.viewport)
           visible == Meet(place, EffectiveClip(view))
           grown == AddContent(track[target], visible)
           t == MarkCPUWrite(grown)
           pixels == Copied(image[target], {p \in Cells : In(p, visible)}, image[s],
                            c.source, place, c.flip, mode, mod)
<1>1. target \in Surfaces /\ track[target] \in Tracks
  BY DEF ContentInv, Typed
<1>2. visible \in Boxes
  BY PlaceTypes, MeetType
<1>3. track' = [track EXCEPT ![target] = t] /\ image' = [image EXCEPT ![target] = pixels]
      /\ failures' = failures
  BY DEF SoftwareCopy, Leaves
<1>4. \A p \in Cells : ~In(p, visible) => pixels[p] = image[target][p]
  BY DEF Copied
<1> HIDE DEF place, visible, pixels
<1>5. grown \in Tracks /\ grown.tracked = track[target].tracked
  BY <1>1, <1>2, AddContentCovers
<1>6. failures = 0 => Known(grown, pixels)
  <2> SUFFICES ASSUME failures = 0 PROVE Known(grown, pixels)
    OBVIOUS
  <2>1. Known(track[target], image[target])
    BY <1>1 DEF ContentInv
  <2> QED
    BY <1>1, <1>2, <1>4, <2>1, GrownKnown
<1> HIDE DEF grown
<1>7. t \in Tracks /\ t.tracked = track[target].tracked
  BY <1>5, CPUTracks
<1>8. failures = 0 => Known(t, pixels)
  BY <1>5, <1>6, CPUTracks DEF Known
<1> HIDE DEF t
<1> QED
  BY <1>3, <1>7, <1>8, CallStep

\* Two surfaces are made ready; only the target's pixels change.
LEMMA ReadyInv ==
  ASSUME ContentInv, NEW s \in Surfaces, s # target
  PROVE  LET ready == [track EXCEPT ![target] = EnsureGPU(@), ![s] = EnsureGPU(@)] IN
         /\ ready \in [Surfaces -> Tracks]
         /\ \A r \in Surfaces : /\ ready[r].content = track[r].content
                                /\ ready[r].outside = track[r].outside
                                /\ ready[r].tracked = track[r].tracked
<1> DEFINE ready == [track EXCEPT ![target] = EnsureGPU(@), ![s] = EnsureGPU(@)]
<1>1. target \in Surfaces /\ track \in [Surfaces -> Tracks]
  BY DEF ContentInv, Typed
<1>2. \A r \in Surfaces : ready[r] = IF r \in {s, target} THEN EnsureGPU(track[r]) ELSE track[r]
  BY <1>1
<1>3. ready = [r \in Surfaces |-> ready[r]]
  BY <1>1
<1> HIDE DEF ready
<1>4. \A r \in Surfaces : /\ ready[r] \in Tracks
                          /\ ready[r].content = track[r].content
                          /\ ready[r].outside = track[r].outside
                          /\ ready[r].tracked = track[r].tracked
  BY <1>1, <1>2, EnsureTracks
<1>5. ready \in [Surfaces -> Tracks]
  BY <1>3, <1>4
<1> QED
  BY <1>4, <1>5 DEF ready

\* A copy from another surface that the core is given, or fails.
LEMMA HardwareDrawn ==
  ASSUME ContentInv, app' = app, command' = Idle, target' = target,
         NEW s \in Surfaces, s # target, NEW drawn \in Boxes, NEW alpha \in Alphas,
         NEW pixels, \A p \in Cells : ~In(p, drawn) => pixels[p] = image[target][p],
         NEW ready, ready = [track EXCEPT ![target] = EnsureGPU(@), ![s] = EnsureGPU(@)],
         \/ /\ track' = [ready EXCEPT ![target] = MarkGPUWriteState(AddContent(@, drawn), alpha)]
            /\ image' = [image EXCEPT ![target] = pixels]
            /\ failures' = failures
         \/ track' = ready /\ Fails(target, pixels)
  PROVE  ContentInv'
<1>1. /\ ready \in [Surfaces -> Tracks]
      /\ \A r \in Surfaces : /\ ready[r].content = track[r].content
                             /\ ready[r].outside = track[r].outside
                             /\ ready[r].tracked = track[r].tracked
  BY ReadyInv
<1>2. /\ app \in Applications /\ target \in Surfaces /\ failures \in Nat
      /\ image = [r \in Surfaces |-> image[r]]
      /\ \A r \in Surfaces : track[r].tracked = (r # Composition)
  BY DEF ContentInv, Typed
<1>3. CASE /\ track' = [ready EXCEPT ![target] = MarkGPUWriteState(AddContent(@, drawn), alpha)]
           /\ image' = [image EXCEPT ![target] = pixels]
           /\ failures' = failures
  <2> DEFINE grown == AddContent(ready[target], drawn)
             t == MarkGPUWriteState(grown, alpha)
  <2>1. grown \in Tracks /\ grown.tracked = track[target].tracked
    BY <1>1, <1>2, AddContentCovers
  <2>2. failures = 0 => Known(grown, pixels)
    <3> SUFFICES ASSUME failures = 0 PROVE Known(grown, pixels)
      OBVIOUS
    <3>1. Known(ready[target], image[target])
      BY <1>1, <1>2 DEF Known, ContentInv
    <3> QED
      BY <1>1, <1>2, <3>1, GrownKnown
  <2>3. track' = [ready EXCEPT ![target] = t]
    BY <1>1, <1>2, <1>3
  <2> HIDE DEF grown
  <2>4. t \in Tracks /\ t.tracked = track[target].tracked
        /\ t.content = grown.content /\ t.outside = grown.outside
    BY <2>1, MarkTracks
  <2>5. failures = 0 => Known(t, pixels)
    BY <2>1, <2>2, <2>4 DEF Known
  <2> HIDE DEF t
  <2>6. track' \in [Surfaces -> Tracks]
    BY <1>1, <1>2, <2>3, <2>4
  <2>7. \A r \in Surfaces : track'[r].tracked = (r # Composition)
    BY <1>1, <1>2, <2>3, <2>4
  <2>8. image' = [r \in Surfaces |-> image'[r]]
    BY <1>2, <1>3
  <2>9. Typed'
    BY <1>2, <1>3, <2>6, <2>7, <2>8 DEF Typed
  <2>10. ASSUME failures' = 0, NEW r \in Surfaces PROVE Known(track'[r], image'[r])
    <3>1. CASE r = target
      BY <1>1, <1>2, <1>3, <2>3, <2>5, <2>10, <3>1
    <3>2. CASE r # target
      <4>1. track'[r] = ready[r] /\ image'[r] = image[r]
        BY <1>1, <1>2, <1>3, <2>3, <3>2
      <4>2. Known(track[r], image[r])
        BY <1>3, <2>10 DEF ContentInv
      <4> QED
        BY <1>1, <4>1, <4>2 DEF Known
    <3> QED
      BY <3>1, <3>2
  <2> QED
    BY <2>9, <2>10 DEF ContentInv, TargetReady
<1>4. CASE track' = ready /\ Fails(target, pixels)
  <2>1. failures' = failures + 1
    BY <1>4 DEF Fails
  <2>2. PICK left : image' = [image EXCEPT ![target] = left]
    BY <1>4 DEF Fails, Leaves
  <2>3. image' = [r \in Surfaces |-> image'[r]]
    BY <1>2, <2>2
  <2>4. failures' \in Nat /\ failures' # 0
    BY <1>2, <2>1
  <2>5. \A r \in Surfaces : track'[r].tracked = (r # Composition)
    BY <1>1, <1>2, <1>4
  <2>6. Typed'
    BY <1>1, <1>2, <1>4, <2>3, <2>4, <2>5 DEF Typed
  <2> QED
    BY <2>4, <2>6 DEF ContentInv, TargetReady
<1> QED
  BY <1>3, <1>4

\* A copy the core draws, trimmed or not, adds what it draws.
LEMMA HardwareStep ==
  ASSUME ContentInv, app' = app, command' = Idle, target' = target,
         NEW s \in Surfaces, s # target, NEW c \in Copies, NEW view \in Views,
         NEW mode, NEW mod, HardwareCopy(s, c, view, mode, mod)
  PROVE  ContentInv'
<1> DEFINE place == Shift(c.destination, view.viewport)
           clip == EffectiveClip(view)
           clipped == ClipDraw(c.source, place, clip, c.flip)
           alphaCopy == /\ mode = "blend" /\ track[s].alpha = "opaque"
                        /\ mod = [a |-> 2, c |-> 1] /\ ~c.flip.x /\ ~c.flip.y
           alpha == CopyAlphaState(track[target].alpha, clipped.visible,
                                   track[s].alpha, mod, mode)
           kept == IF Trims(track[s], clipped.source, c.flip, mode, alphaCopy)
                   THEN Meet(clipped.source, track[s].content) ELSE clipped.source
           drawn == IF kept = clipped.source THEN clipped.visible
                    ELSE Rect(clipped.visible.x + kept.x - clipped.source.x,
                              clipped.visible.y + kept.y - clipped.source.y, kept.w, kept.h)
           pixels == Copied(image[target], {p \in Cells : In(p, drawn)}, image[s], kept, drawn,
                            c.flip, IF alphaCopy THEN "none" ELSE mode, mod)
           ready == [track EXCEPT ![target] = EnsureGPU(@), ![s] = EnsureGPU(@)]
<1>1. target \in Surfaces /\ track[target] \in Tracks /\ track[s] \in Tracks
  BY DEF ContentInv, Typed
<1>2. clipped.source \in Boxes /\ clipped.visible \in Boxes
  <2>1. c.source \in Boxes /\ place \in Boxes /\ clip \in Boxes
    BY PlaceTypes
  <2> HIDE DEF place, clip
  <2>2. clipped.visible = Meet(place, clip)
    BY DEF ClipDraw
  <2>3. clipped.visible \in Boxes
    BY <2>1, <2>2, MeetType
  <2> DEFINE visible == Meet(place, clip)
             left == visible.x - place.x
             top == visible.y - place.y
             right == place.x + place.w - (visible.x + visible.w)
             bottom == place.y + place.h - (visible.y + visible.h)
  <2>4. clipped.source = Rect(c.source.x + (IF c.flip.x THEN right ELSE left),
                              c.source.y + (IF c.flip.y THEN bottom ELSE top),
                              visible.w, visible.h)
    BY DEF ClipDraw
  <2>5. visible \in Boxes
    BY <2>1, MeetType
  <2> HIDE DEF visible
  <2>6. left \in Int /\ top \in Int /\ right \in Int /\ bottom \in Int
        /\ visible.w \in Int /\ visible.h \in Int /\ c.source.x \in Int /\ c.source.y \in Int
    BY <2>1, <2>5 DEF Boxes
  <2> HIDE DEF left, top, right, bottom
  <2>7. clipped.source \in Boxes
    BY <2>4, <2>6, RectangleTypes
  <2> QED
    BY <2>3, <2>7
<1>3. \/ UNCHANGED <<track, failures>> /\ image' = [image EXCEPT ![target] = image[target]]
      \/ /\ track' = [ready EXCEPT ![target] = MarkGPUWriteState(AddContent(@, drawn), alpha)]
         /\ image' = [image EXCEPT ![target] = pixels]
         /\ failures' = failures
      \/ track' = ready /\ Fails(target, pixels)
  BY DEF HardwareCopy, Leaves
<1>4. alpha \in Alphas
  BY <1>1, AlphaTypes DEF Tracks
<1>5. \A p \in Cells : ~In(p, drawn) => pixels[p] = image[target][p]
  BY DEF Copied
<1> HIDE DEF clipped, place, clip, alphaCopy, alpha, pixels
<1>6. kept \in Boxes
  BY <1>1, <1>2, MeetType DEF Tracks
<1> HIDE DEF kept
<1>7. drawn \in Boxes
  <2>1. clipped.visible.x + kept.x - clipped.source.x \in Int
        /\ clipped.visible.y + kept.y - clipped.source.y \in Int
        /\ kept.w \in Int /\ kept.h \in Int
    BY <1>2, <1>6 DEF Boxes
  <2> QED
    BY <1>2, <2>1, RectangleTypes
<1> HIDE DEF drawn
<1>8. CASE UNCHANGED <<track, failures>> /\ image' = [image EXCEPT ![target] = image[target]]
  <2>1. track' = [track EXCEPT ![target] = track[target]]
    BY <1>1, <1>8 DEF ContentInv, Typed
  <2>2. failures = 0 => Known(track[target], image[target])
    BY <1>1 DEF ContentInv
  <2> QED
    BY <1>1, <1>8, <2>1, <2>2, CallStep
<1>9. CASE ~(UNCHANGED <<track, failures>> /\ image' = [image EXCEPT ![target] = image[target]])
  BY <1>3, <1>4, <1>5, <1>7, <1>9, HardwareDrawn
<1> QED
  BY <1>8, <1>9

\* Either way of copying keeps the invariant.
LEMMA CopyStep ==
  ASSUME ContentInv, app' = app, NEW s \in Textures, NEW c \in Copies, NEW view \in Views,
         NEW mode, NEW mod, Copy(s, c, view, mode, mod)
  PROVE  ContentInv'
<1>1. s \in Surfaces /\ command' = Idle /\ target' = target
  BY DEF Copy, Surfaces
<1>2. SoftwareCopy(s, c, view, mode, mod) \/ (s # target /\ HardwareCopy(s, c, view, mode, mod))
  BY DEF Copy
<1> QED
  BY <1>1, <1>2, SoftwareStep, HardwareStep

-----------------------------------------------------------------------------

\* A new renderer's surfaces are as their tracked state says.
LEMMA ContentInit == Init => ContentInv
<1> SUFFICES ASSUME Init PROVE ContentInv
  OBVIOUS
<1> DEFINE t(s) == IF s = Composition THEN MarkGPUWriteState(InitSurface(s), "unknown")
                   ELSE InitSurface(s)
<1>1. ASSUME NEW s \in Surfaces
      PROVE  t(s) \in Tracks /\ t(s).tracked = (s # Composition) /\ Known(t(s), Blank)
  <2>1. /\ InitSurface(s) \in Tracks /\ InitSurface(s).tracked = (s # Composition)
        /\ Known(InitSurface(s), Blank)
    BY InitSurfaceTrack
  <2>2. CASE s = Composition
    <3>1. t(s) \in Tracks /\ t(s).tracked = InitSurface(s).tracked
      BY <2>1, <2>2, MarkTracks DEF Alphas
    <3> QED
      BY <2>1, <2>2, <3>1 DEF Known
  <2>3. CASE s # Composition
    BY <2>1, <2>3
  <2> QED
    BY <2>2, <2>3
<1>2. track = [s \in Surfaces |-> t(s)] /\ image = [s \in Surfaces |-> Blank]
  BY DEF Init
<1>3. app \in Applications /\ target \in Surfaces /\ command = Idle /\ failures = 0
  BY DEF Init, Surfaces
<1> HIDE DEF t
<1>4. Typed
  BY <1>1, <1>2, <1>3 DEF Typed
<1> QED
  BY <1>1, <1>2, <1>3, <1>4 DEF ContentInv, TargetReady

\* Every call keeps the invariant.
LEMMA DrawingStep ==
  ASSUME ContentInv, app' = app, Call
  PROVE  ContentInv'
<1>1. app \in Applications
  BY DEF ContentInv, Typed
<1>2. /\ app.textures \subseteq Textures /\ app.colors \subseteq Pixels
      /\ app.blends \subseteq {"none", "blend", "add", "mod", "custom"}
      /\ app.views \subseteq Views /\ app.rects \subseteq Rectangles
      /\ app.copies \subseteq Copies /\ app.segments \subseteq Cells \X Cells
  BY <1>1, Inputs
<1>3. ASSUME NEW s \in app.textures,
             \/ RecreateTexture(s) \/ EvictSurface(s)
             \/ \E r \in app.rects, color \in app.colors : UpdateTexture(s, r, color)
      PROVE  ContentInv'
  BY <1>2, <1>3, RecreateStep, EvictStep, UpdateStep
<1>4. ASSUME NEW s \in (app.textures \cap Targets) \cup {Composition}, SetRenderTarget(s)
      PROVE  ContentInv'
  <2>1. s \in Surfaces
    BY DEF Surfaces, Textures
  <2> QED
    BY <1>4, <2>1, TargetStep
<1>5. ASSUME NEW color \in app.colors, RenderClear(color) PROVE ContentInv'
  BY <1>2, <1>5, ClearStep
<1>6. ASSUME NEW view \in app.views, NEW color \in app.colors,
             \/ BeginOpaquePrimitives(view, color)
             \/ \E mode \in app.blends : BeginFillRects(view, mode, color)
      PROVE  ContentInv'
  BY <1>2, <1>6, BeginStep DEF BeginOpaquePrimitives, BeginFillRects
<1>7. ASSUME NEW view \in app.views, NEW color \in app.colors, NEW mode, NEW l \in app.segments,
             \/ PrimitiveFallback(view, {l[1], l[2]}, mode, color)
             \/ Geometry(view, {l[1], l[2]}, mode, color)
      PROVE  ContentInv'
  <2>1. l[1] \in Cells /\ l[2] \in Cells
    BY <1>2
  <2> QED
    BY <1>2, <1>7, <2>1, FallbackStep, GeometryStep
<1>8. ASSUME NEW r \in app.rects, FillRect(r) PROVE ContentInv'
  BY <1>2, <1>8, FillRectStep
<1>9. ASSUME NEW l \in app.segments, OpaqueSegment(l[1], l[2]) PROVE ContentInv'
  <2>1. l[1] \in Cells /\ l[2] \in Cells
    BY <1>2
  <2> QED
    BY <1>9, <2>1, SegmentStep
<1>10. ASSUME NEW s \in app.textures, NEW c \in app.copies, NEW view \in app.views,
              NEW mode, NEW mod, Copy(s, c, view, mode, mod)
       PROVE  ContentInv'
  BY <1>2, <1>10, CopyStep
<1> QED
  BY <1>3, <1>4, <1>5, <1>6, <1>7, <1>8, <1>9, <1>10, PresentStep, EndStep DEF Call

\* Every step keeps the invariant.
LEMMA ContentStep ==
  ASSUME ContentInv, [Next]_vars
  PROVE  ContentInv'
<1>1. CASE UNCHANGED vars
  BY <1>1 DEF vars, ContentInv, Typed, TargetReady
<1>2. CASE Next
  BY <1>2, DrawingStep DEF Next
<1> QED
  BY <1>1, <1>2

(* For surfaces of any size and any drawing: as long as no submission      *)
(* fails, every pixel outside a texture's content has its outside_pixel,   *)
(* so that what OpaqueFillRegion and RunCopy leave out changes nothing.    *)
THEOREM ContentStaysTrue == Spec => []ContentTrue
<1>1. Init => ContentInv
  BY ContentInit
<1>2. ContentInv /\ [Next]_vars => ContentInv'
  BY ContentStep
<1>3. ContentInv => ContentTrue
  <2> SUFFICES ASSUME ContentInv, failures = 0, NEW s \in Textures, NEW p \in Cells
               PROVE  In(p, track[s].content) \/ image[s][p] = track[s].outside
    BY DEF ContentTrue, ContentKnown
  <2>1. s \in Surfaces /\ s # Composition
    BY SurfacesAssumption DEF Surfaces
  <2> QED
    BY <2>1 DEF ContentInv, Typed, Known
<1> QED
  BY <1>1, <1>2, <1>3, PTL DEF Spec

-----------------------------------------------------------------------------
(***************************************************************************)
(* Pixels: what blending makes of them, and where a copy takes them from.  *)
(***************************************************************************)

Modes == {"none", "blend", "add", "mod", "custom"}

\* Modulating and blending pixels gives pixels.
LEMMA PixelTypes ==
  ASSUME NEW s \in Pixels, NEW d \in Pixels, NEW mod \in Pixels
  PROVE  Modulated(s, mod) \in Pixels /\ \A mode : Blended(mode, s, d) \in Pixels
<1>1. s.a \in 0 .. 2 /\ s.c \in 0 .. 1 /\ d.a \in 0 .. 2 /\ d.c \in 0 .. 1
      /\ mod.a \in 0 .. 2 /\ mod.c \in 0 .. 1
  BY DEF Pixels
<1>2. Modulated(s, mod) \in Pixels
  BY <1>1 DEF Modulated, Pixels, Smaller
<1>3. ASSUME NEW mode PROVE Blended(mode, s, d) \in Pixels
  <2>1. [a |-> Larger(d.a, 1), c |-> Larger(s.c, d.c)] \in Pixels
    BY <1>1 DEF Pixels, Larger
  <2>2. [a |-> Larger(s.a, d.a), c |-> Larger(s.c, d.c)] \in Pixels
    BY <1>1 DEF Pixels, Larger
  <2>3. [d EXCEPT !.c = Larger(s.c, @)] \in Pixels
    BY <1>1 DEF Pixels, Larger
  <2>4. [d EXCEPT !.c = Smaller(s.c, @)] \in Pixels
    BY <1>1 DEF Pixels, Smaller
  <2> QED
    BY <2>1, <2>2, <2>3, <2>4 DEF Blended
<1> QED
  BY <1>2, <1>3

\* Transparent pixels change nothing under BLEND and ADD, opaque ones replace
\* under BLEND, and which modes keep the alpha.
LEMMA BlendFacts ==
  ASSUME NEW s \in Pixels, NEW d \in Pixels
  PROVE  /\ Blended("none", s, d) = s
         /\ s.a = 0 => Blended("blend", s, d) = d /\ Blended("add", s, d) = d
         /\ s.a = 2 => Blended("blend", s, d) = s
         /\ d.a = 2 => Blended("blend", s, d).a = 2
         /\ Blended("add", s, d).a = d.a /\ Blended("mod", s, d).a = d.a
<1>1. s.a \in 0 .. 2 /\ d.a \in 0 .. 2
  BY DEF Pixels
<1>2. [d EXCEPT !.c = Larger(s.c, @)].a = d.a /\ [d EXCEPT !.c = Smaller(s.c, @)].a = d.a
  BY DEF Pixels
<1>3. Blended("none", s, d) = s
  BY DEF Blended
<1>4. Blended("blend", s, d) = IF s.a = 0 THEN d ELSE IF s.a = 2 THEN s
                                ELSE [a |-> Larger(d.a, 1), c |-> Larger(s.c, d.c)]
  BY DEF Blended
<1>5. Blended("add", s, d) = IF s.a = 0 THEN d ELSE [d EXCEPT !.c = Larger(s.c, @)]
  BY DEF Blended
<1>6. Blended("mod", s, d) = [d EXCEPT !.c = Smaller(s.c, @)]
  BY DEF Blended
<1>7. ASSUME d.a = 2 PROVE Blended("blend", s, d).a = 2
  <2>1. [a |-> Larger(d.a, 1), c |-> Larger(s.c, d.c)].a = 2
    BY <1>7 DEF Larger
  <2> QED
    BY <1>4, <1>7, <2>1
<1>8. s.a = 0 => Blended("blend", s, d) = d /\ Blended("add", s, d) = d
  BY <1>4, <1>5
<1>9. s.a = 2 => Blended("blend", s, d) = s
  BY <1>4
<1>10. Blended("add", s, d).a = d.a /\ Blended("mod", s, d).a = d.a
  BY <1>2, <1>5, <1>6
<1> QED
  BY <1>3, <1>7, <1>8, <1>9, <1>10

\* What modulation does to an alpha, and that white modulates nothing.
LEMMA ModulateFacts ==
  ASSUME NEW s \in Pixels, NEW mod \in Pixels
  PROVE  /\ s.a = 0 => Modulated(s, mod).a = 0
         /\ s.a = 2 /\ mod.a = 2 => Modulated(s, mod).a = 2
         /\ mod = [a |-> 2, c |-> 1] => Modulated(s, mod) = s
<1>1. s.a \in 0 .. 2 /\ mod.a \in 0 .. 2
  BY DEF Pixels
<1>2. Modulated(s, mod).a = IF mod.a = 2 THEN s.a ELSE Smaller(s.a, mod.a)
  BY DEF Modulated
<1>3. s.a = 0 => Modulated(s, mod).a = 0
  BY <1>1, <1>2 DEF Smaller
<1>4. ASSUME mod = [a |-> 2, c |-> 1] PROVE Modulated(s, mod) = s
  <2>1. mod.a = 2 /\ mod.c = 1
    BY <1>4
  <2>2. Modulated(s, mod) = [a |-> s.a, c |-> s.c]
    BY <2>1 DEF Modulated
  <2> QED
    BY <2>2 DEF Pixels
<1> QED
  BY <1>1, <1>2, <1>3, <1>4

\* A pixel is in an intersection when it is in both rectangles.
LEMMA MeetIff ==
  ASSUME NEW a \in Boxes, NEW b \in Boxes, NEW p \in Cells
  PROVE  In(p, Meet(a, b)) <=> In(p, a) /\ In(p, b)
<1>1. p[1] \in Int /\ p[2] \in Int
  BY CellsIn
<1> QED
  BY <1>1 DEF In, Boxes, Meet, Rect, Larger, Smaller

\* Scaling by one, and scaling a part of the destination into the source.
LEMMA Unscaled ==
  ASSUME NEW u \in Int, NEW w \in Nat, w > 0
  PROVE  (u * w) \div w = u
OBVIOUS

LEMMA Scaled ==
  ASSUME NEW u \in Nat, NEW d \in Nat, NEW w \in Nat, u < d, w > 0
  PROVE  (u * w) \div d \in 0 .. w - 1
<1> DEFINE q == (u * w) \div d
<1>1. q \in Int /\ d * q <= u * w /\ u * w < d * q + d
  OBVIOUS
<1>2. u * w < d * w /\ 0 <= u * w
  OBVIOUS
<1> HIDE DEF q
<1>3. q < w
  <2> SUFFICES ASSUME q >= w PROVE FALSE
    BY <1>1
  <2>1. d * q >= d * w
    BY <1>1
  <2> QED
    BY <1>1, <1>2, <2>1
<1>4. q >= 0
  <2> SUFFICES ASSUME q <= -1 PROVE FALSE
    BY <1>1
  <2>1. d * q <= d * (-1)
    BY <1>1
  <2> QED
    BY <1>1, <1>2, <2>1
<1> QED
  BY <1>1, <1>3, <1>4 DEF q

\* Every pixel of the destination is taken from the source, scaled or not.
LEMMA SampledInside ==
  ASSUME NEW source \in Parts, NEW place \in Boxes, NEW flip, NEW p \in Cells, In(p, place)
  PROVE  Sampled(source, place, flip, p) \in Cells
<1> DEFINE i == p[1] - place.x
           j == p[2] - place.y
           u == IF flip.x THEN place.w - 1 - i ELSE i
           v == IF flip.y THEN place.h - 1 - j ELSE j
<1>1. p[1] \in Int /\ p[2] \in Int
  BY CellsIn
<1>2. /\ source.x \in Nat /\ source.y \in Nat /\ source.w \in Nat /\ source.h \in Nat
      /\ source.w > 0 /\ source.h > 0
      /\ source.x + source.w <= Width /\ source.y + source.h <= Height
  BY DEF Parts, Rectangles
<1>3. place.x \in Int /\ place.y \in Int /\ place.w \in Int /\ place.h \in Int
  BY DEF Boxes
<1>4. i \in Nat /\ i < place.w /\ j \in Nat /\ j < place.h
  BY <1>1, <1>3 DEF In
<1>5. u \in Nat /\ u < place.w /\ v \in Nat /\ v < place.h /\ place.w \in Nat /\ place.h \in Nat
  BY <1>3, <1>4
<1>6. Sampled(source, place, flip, p) =
        <<source.x + (u * source.w) \div place.w, source.y + (v * source.h) \div place.h>>
  BY DEF Sampled
<1> HIDE DEF i, j, u, v
<1>7. (u * source.w) \div place.w \in 0 .. source.w - 1
  BY <1>2, <1>5, Scaled
<1>8. (v * source.h) \div place.h \in 0 .. source.h - 1
  BY <1>2, <1>5, Scaled
<1>9. source.x + (u * source.w) \div place.w \in 0 .. Width - 1
  BY <1>2, <1>7, SizeAssumption
<1>10. source.y + (v * source.h) \div place.h \in 0 .. Height - 1
  BY <1>2, <1>8, SizeAssumption
<1> QED
  BY <1>6, <1>9, <1>10 DEF Cells

\* An unscaled copy shifts, or mirrors.
LEMMA SampledUnscaled ==
  ASSUME NEW source \in Boxes, NEW place \in Boxes, NEW flip, NEW p \in Cells, In(p, place),
         source.w = place.w, source.h = place.h
  PROVE  Sampled(source, place, flip, p) =
           <<source.x + (IF flip.x THEN place.w - 1 - (p[1] - place.x) ELSE p[1] - place.x),
             source.y + (IF flip.y THEN place.h - 1 - (p[2] - place.y) ELSE p[2] - place.y)>>
<1> DEFINE u == IF flip.x THEN place.w - 1 - (p[1] - place.x) ELSE p[1] - place.x
           v == IF flip.y THEN place.h - 1 - (p[2] - place.y) ELSE p[2] - place.y
<1>1. p[1] \in Int /\ p[2] \in Int
  BY CellsIn
<1>2. place.x \in Int /\ place.y \in Int /\ place.w \in Int /\ place.h \in Int
  BY DEF Boxes
<1>3. place.w \in Nat /\ place.w > 0 /\ place.h \in Nat /\ place.h > 0
  BY <1>1, <1>2 DEF In
<1>4. u \in Int /\ v \in Int
  BY <1>1, <1>2
<1>5. Sampled(source, place, flip, p) =
        <<source.x + (u * source.w) \div place.w, source.y + (v * source.h) \div place.h>>
  BY DEF Sampled
<1> HIDE DEF u, v
<1>6. (u * place.w) \div place.w = u /\ (v * place.h) \div place.h = v
  BY <1>3, <1>4, Unscaled
<1>7. Sampled(source, place, flip, p) = <<source.x + u, source.y + v>>
  BY <1>5, <1>6
<1> QED
  BY <1>7 DEF u, v

-----------------------------------------------------------------------------
(***************************************************************************)
(* alpha_state: what is said of all pixels of a surface.                   *)
(***************************************************************************)

Right(alpha, pixels) ==
  \A p \in Cells : /\ alpha = "zero" => pixels[p].a = 0
                   /\ alpha = "opaque" => pixels[p].a = 2

\* NOODLES_AlphaFromByte speaks for a surface of that colour.
LEMMA ByteRight ==
  ASSUME NEW color \in Pixels, NEW pixels, \A p \in Cells : pixels[p] = color
  PROVE  Right(AlphaFromByte(color.a), pixels)
BY DEF Right, AlphaFromByte

\* NOODLES_ClassifyPixels speaks for the pixels it is shown.
LEMMA Classified ==
  ASSUME NEW pixels, NEW r, NEW p \in Cells, In(p, r)
  PROVE  /\ ClassifyPixels(pixels, r) = "zero" => pixels[p].a = 0
         /\ ClassifyPixels(pixels, r) = "opaque" => pixels[p].a = 2
<1> DEFINE alphas == {pixels[q].a : q \in {q \in Cells : In(q, r)}}
<1>1. pixels[p].a \in alphas
  OBVIOUS
<1>2. ClassifyPixels(pixels, r) =
        IF alphas = {0} THEN "zero" ELSE IF alphas = {2} THEN "opaque" ELSE "unknown"
  BY DEF ClassifyPixels
<1> HIDE DEF alphas
<1> QED
  BY <1>1, <1>2

\* An update says what holds of the pixels it wrote and of those it left.
LEMMA UpdatedRight ==
  ASSUME NEW alpha, NEW old, NEW new, NEW r \in Boxes, Right(alpha, old),
         \A p \in Cells : ~In(p, r) => new[p] = old[p]
  PROVE  Right(UpdateAlphaPixels(alpha, r, new), new)
<1> DEFINE incoming == ClassifyPixels(new, r)
<1>1. UpdateAlphaPixels(alpha, r, new) =
        IF FullRect(r) \/ alpha = incoming THEN incoming ELSE "unknown"
  BY DEF UpdateAlphaPixels
<1> SUFFICES ASSUME FullRect(r) \/ alpha = incoming, NEW p \in Cells
             PROVE  /\ incoming = "zero" => new[p].a = 0
                    /\ incoming = "opaque" => new[p].a = 2
  BY <1>1 DEF Right
<1>2. CASE In(p, r)
  BY <1>2, Classified
<1>3. CASE ~In(p, r)
  <2>1. ~FullRect(r)
    BY <1>3, CellsIn DEF FullRect
  <2> HIDE DEF incoming
  <2> QED
    BY <1>3, <2>1 DEF Right
<1> QED
  BY <1>2, <1>3

\* A fill leaves alpha_state true, for every blend mode.
LEMMA FilledRight ==
  ASSUME NEW current \in Alphas, NEW old \in Images, NEW new, NEW r \in Boxes,
         NEW color \in Pixels, NEW mode \in Modes, Right(current, old),
         \A p \in Cells : new[p] = IF In(p, r) THEN Blended(mode, color, old[p]) ELSE old[p]
  PROVE  Right(FillAlphaState(current, r, color.a, mode), new)
<1> DEFINE result == FillAlphaState(current, r, color.a, mode)
           source == AlphaFromByte(color.a)
<1>1. source = IF color.a = 0 THEN "zero" ELSE IF color.a = 2 THEN "opaque" ELSE "unknown"
  BY DEF AlphaFromByte
<1> HIDE DEF source
<1> SUFFICES ASSUME NEW p \in Cells
             PROVE  /\ result = "zero" => new[p].a = 0
                    /\ result = "opaque" => new[p].a = 2
  BY DEF Right
<1>2. old[p] \in Pixels /\ (FullRect(r) => In(p, r))
  BY CellsIn DEF Images, FullRect
<1>3. (current = "zero" => old[p].a = 0) /\ (current = "opaque" => old[p].a = 2)
  BY DEF Right
<1>4. CASE mode = "none"
  <2>1. result = IF FullRect(r) \/ current = source THEN source ELSE "unknown"
    BY <1>4 DEF FillAlphaState, source
  <2>2. In(p, r) => new[p] = color
    BY <1>2, <1>4, BlendFacts
  <2> QED
    BY <1>1, <1>2, <1>3, <2>1, <2>2
<1>5. CASE mode = "blend"
  <2>1. result = IF current = "opaque" \/ source = "zero" THEN current
                 ELSE IF FullRect(r) /\ source = "opaque" THEN "opaque" ELSE "unknown"
    BY <1>5 DEF FillAlphaState, source
  <2>2. In(p, r) => /\ color.a = 0 => new[p] = old[p]
                    /\ color.a = 2 => new[p] = color
                    /\ old[p].a = 2 => new[p].a = 2
    BY <1>2, <1>5, BlendFacts
  <2> QED
    BY <1>1, <1>2, <1>3, <2>1, <2>2
<1>6. CASE mode \in {"add", "mod"}
  <2>1. result = current
    BY <1>6 DEF FillAlphaState
  <2>2. In(p, r) => new[p].a = old[p].a
    BY <1>2, <1>6, BlendFacts
  <2> QED
    BY <1>2, <1>3, <2>1, <2>2
<1>7. CASE mode = "custom"
  BY <1>7 DEF FillAlphaState
<1> QED
  BY <1>4, <1>5, <1>6, <1>7 DEF Modes

\* A copy leaves alpha_state true, for every blend mode and modulation.
LEMMA CopiedRight ==
  ASSUME NEW current \in Alphas, NEW alpha \in Alphas, NEW old \in Images, NEW new,
         NEW r \in Boxes, NEW mod \in Pixels, NEW mode \in Modes, Right(current, old),
         \A p \in Cells : ~In(p, r) => new[p] = old[p],
         \A p \in Cells : In(p, r) =>
           \E q \in Pixels : /\ new[p] = Blended(mode, Modulated(q, mod), old[p])
                             /\ alpha = "zero" => q.a = 0
                             /\ alpha = "opaque" => q.a = 2
  PROVE  Right(CopyAlphaState(current, r, alpha, mod, mode), new)
<1> DEFINE result == CopyAlphaState(current, r, alpha, mod, mode)
           output == IF alpha = "zero" THEN "zero"
                     ELSE IF alpha = "opaque" /\ mod.a = 2 THEN "opaque" ELSE "unknown"
<1> SUFFICES ASSUME NEW p \in Cells
             PROVE  /\ result = "zero" => new[p].a = 0
                    /\ result = "opaque" => new[p].a = 2
  BY DEF Right
<1>1. old[p] \in Pixels /\ (FullRect(r) => In(p, r))
  BY CellsIn DEF Images, FullRect
<1>2. (current = "zero" => old[p].a = 0) /\ (current = "opaque" => old[p].a = 2)
  BY DEF Right
<1>3. In(p, r) => \E m \in Pixels : /\ new[p] = Blended(mode, m, old[p])
                                    /\ output = "zero" => m.a = 0
                                    /\ output = "opaque" => m.a = 2
                                    /\ alpha = "zero" => m.a = 0
  <2> SUFFICES ASSUME In(p, r)
               PROVE  \E m \in Pixels : /\ new[p] = Blended(mode, m, old[p])
                                        /\ output = "zero" => m.a = 0
                                        /\ output = "opaque" => m.a = 2
                                        /\ alpha = "zero" => m.a = 0
    OBVIOUS
  <2>1. PICK q \in Pixels : /\ new[p] = Blended(mode, Modulated(q, mod), old[p])
                            /\ alpha = "zero" => q.a = 0
                            /\ alpha = "opaque" => q.a = 2
    OBVIOUS
  <2>2. Modulated(q, mod) \in Pixels
    BY <1>1, PixelTypes
  <2>3. /\ q.a = 0 => Modulated(q, mod).a = 0
        /\ q.a = 2 /\ mod.a = 2 => Modulated(q, mod).a = 2
    BY ModulateFacts
  <2> QED
    BY <2>1, <2>2, <2>3
<1> HIDE DEF output
<1>4. CASE mode = "none"
  <2>1. result = IF FullRect(r) \/ current = output THEN output ELSE "unknown"
    BY <1>4 DEF CopyAlphaState, output
  <2>2. In(p, r) => (output = "zero" => new[p].a = 0) /\ (output = "opaque" => new[p].a = 2)
    BY <1>1, <1>3, <1>4, BlendFacts
  <2> QED
    BY <1>1, <1>2, <2>1, <2>2
<1>5. CASE mode = "blend"
  <2>1. result = IF alpha = "zero" THEN current
                 ELSE IF current = "opaque" \/ (FullRect(r) /\ output = "opaque")
                 THEN "opaque" ELSE "unknown"
    BY <1>5 DEF CopyAlphaState, output
  <2>2. In(p, r) => /\ alpha = "zero" => new[p] = old[p]
                    /\ output = "opaque" => new[p].a = 2
                    /\ old[p].a = 2 => new[p].a = 2
    BY <1>1, <1>3, <1>5, BlendFacts
  <2> QED
    BY <1>1, <1>2, <2>1, <2>2
<1>6. CASE mode \in {"add", "mod"}
  <2>1. result = current
    BY <1>6 DEF CopyAlphaState
  <2>2. In(p, r) => new[p].a = old[p].a
    BY <1>1, <1>3, <1>6, BlendFacts
  <2> QED
    BY <1>1, <1>2, <2>1, <2>2
<1>7. CASE mode = "custom"
  BY <1>7 DEF CopyAlphaState
<1> QED
  BY <1>4, <1>5, <1>6, <1>7 DEF Modes

-----------------------------------------------------------------------------
(***************************************************************************)
(* What is left out changes nothing.                                       *)
(***************************************************************************)

\* A trimmed or omitted fill leaves what the whole one would have left.
LEMMA FillExact ==
  ASSUME NEW t \in Tracks, NEW r \in Boxes, NEW color \in Pixels, NEW device \in Images,
         t.gpuValid => Known(t, device)
  PROVE  LET region == OpaqueFillRegion(t, r, color) IN
         (IF region.needed THEN Wiped(device, {p \in Cells : In(p, region.write)}, color)
          ELSE device)
         = Wiped(device, {p \in Cells : In(p, r)}, color)
<1> DEFINE region == OpaqueFillRegion(t, r, color)
           written == Wiped(device, {p \in Cells : In(p, region.write)}, color)
           whole == Wiped(device, {p \in Cells : In(p, r)}, color)
           known == t.tracked /\ t.gpuValid /\ color = t.outside /\ RectContains(r, t.content)
<1>1. CASE known
  <2>1. region.write = t.content /\ region.needed = ~Empty(t.content)
    BY <1>1 DEF OpaqueFillRegion
  <2>2. t.content \in Boxes
    BY DEF Tracks
  <2>3. \A p \in Cells : In(p, t.content) \/ device[p] = color
    BY <1>1 DEF Known
  <2>4. \A p \in Cells : In(p, t.content) => In(p, r)
    BY <1>1, <2>2, CellsIn DEF In, RectContains, Boxes
  <2>5. \A p \in Cells : Empty(t.content) => ~In(p, t.content)
    BY <2>2, CellsIn
  <2>6. device = [p \in Cells |-> device[p]]
    BY DEF Images
  <2>7. CASE region.needed
    <3>1. written = whole
      BY <2>1, <2>3, <2>4 DEF Wiped
    <3> QED
      BY <2>7, <3>1
  <2>8. CASE ~region.needed
    <3>1. \A p \in Cells : device[p] = color
      BY <2>1, <2>3, <2>5, <2>8
    <3>2. whole = device
      BY <2>6, <3>1 DEF Wiped
    <3> QED
      BY <2>8, <3>2
  <2> QED
    BY <2>7, <2>8
<1>2. CASE ~known
  BY <1>2 DEF OpaqueFillRegion
<1> QED
  BY <1>1, <1>2

\* Blending a colour without a mode is an unblended fill.
LEMMA FilledNone ==
  ASSUME NEW old, NEW cells, NEW color
  PROVE  Filled(old, cells, "none", color) = Wiped(old, cells, color)
BY DEF Filled, Wiped, Blended

\* Fills of pixels are pixels.
LEMMA FilledTypes ==
  ASSUME NEW old \in Images, NEW cells, NEW color \in Pixels, NEW mode
  PROVE  Filled(old, cells, mode, color) \in Images /\ Wiped(old, cells, color) \in Images
<1>1. \A p \in Cells : old[p] \in Pixels
  BY DEF Images
<1>2. \A p \in Cells : Blended(mode, color, old[p]) \in Pixels
  BY <1>1, PixelTypes
<1>3. Filled(old, cells, mode, color) \in Images
  BY <1>1, <1>2 DEF Filled, Images
<1> QED
  BY <1>1, <1>3 DEF Wiped, Images

\* What the renderer clips a rectangle to is what SDL draws of it.
LEMMA ClippedAsSdl ==
  ASSUME NEW r \in Boxes, NEW view \in Views
  PROVE  {p \in Cells : In(p, Meet(r, EffectiveClip(view)))} = Drawn(r, view)
<1> DEFINE bounds == Meet(Whole, view.viewport)
           moved == Shift(view.clip, view.viewport)
<1>1. view.viewport \in Boxes /\ view.clip \in Boxes
  BY RectangleTypes DEF Views
<1>2. bounds \in Boxes /\ moved \in Boxes /\ EffectiveClip(view) \in Boxes
  BY <1>1, MeetType, ShiftType, ClipType, RectangleTypes
<1>3. EffectiveClip(view) = IF view.enabled THEN Meet(bounds, moved) ELSE bounds
  BY DEF EffectiveClip
<1>4. ASSUME NEW p \in Cells
      PROVE  In(p, EffectiveClip(view)) <=>
               In(p, view.viewport) /\ (view.enabled => In(p, moved))
  <2>1. In(p, bounds) <=> In(p, view.viewport)
    BY <1>1, MeetIff, CellsIn, RectangleTypes
  <2> HIDE DEF bounds, moved
  <2>2. In(p, Meet(bounds, moved)) <=> In(p, bounds) /\ In(p, moved)
    BY <1>2, MeetIff
  <2> QED
    BY <1>3, <2>1, <2>2
<1>5. \A p \in Cells : In(p, Meet(r, EffectiveClip(view))) <=> In(p, r) /\ In(p, EffectiveClip(view))
  BY <1>2, MeetIff
<1> QED
  BY <1>4, <1>5 DEF Drawn

\* Copies of pixels that lie in the source are pixels.
LEMMA CopiedTypes ==
  ASSUME NEW old \in Images, NEW from \in Images, NEW cells, NEW source, NEW place, NEW flip,
         NEW mode, NEW mod \in Pixels,
         \A p \in Cells : p \in cells => Sampled(source, place, flip, p) \in Cells
  PROVE  Copied(old, cells, from, source, place, flip, mode, mod) \in Images
<1> DEFINE copied(p) == Blended(mode, Modulated(from[Sampled(source, place, flip, p)], mod), old[p])
<1>1. ASSUME NEW p \in Cells, p \in cells PROVE copied(p) \in Pixels
  <2>1. from[Sampled(source, place, flip, p)] \in Pixels /\ old[p] \in Pixels
    BY <1>1 DEF Images
  <2>2. Modulated(from[Sampled(source, place, flip, p)], mod) \in Pixels
    BY <2>1, PixelTypes
  <2> QED
    BY <2>1, <2>2, PixelTypes
<1>2. Copied(old, cells, from, source, place, flip, mode, mod) =
        [p \in Cells |-> IF p \in cells THEN copied(p) ELSE old[p]]
  BY DEF Copied
<1> HIDE DEF copied
<1>3. \A p \in Cells : old[p] \in Pixels
  BY DEF Images
<1> QED
  BY <1>1, <1>2, <1>3 DEF Images

\* SDL's own copy is one of pixels, and leaves alpha_state true.
LEMMA SdlCopyRight ==
  ASSUME NEW old \in Images, NEW from \in Images, NEW visible \in Boxes, NEW source \in Parts,
         NEW place \in Boxes, NEW flip, NEW mode \in Modes, NEW mod \in Pixels,
         \A p \in Cells : In(p, visible) => In(p, place),
         NEW current \in Alphas, NEW alpha \in Alphas,
         Right(current, old), Right(alpha, from)
  PROVE  Right(CopyAlphaState(current, visible, alpha, mod, mode),
               Copied(old, {p \in Cells : In(p, visible)}, from, source, place, flip, mode, mod))
<1> DEFINE cells == {p \in Cells : In(p, visible)}
           new == Copied(old, cells, from, source, place, flip, mode, mod)
<1>1. \A p \in Cells : ~In(p, visible) => new[p] = old[p]
  BY DEF Copied
<1>2. ASSUME NEW p \in Cells, In(p, visible)
      PROVE  \E q \in Pixels : /\ new[p] = Blended(mode, Modulated(q, mod), old[p])
                               /\ alpha = "zero" => q.a = 0
                               /\ alpha = "opaque" => q.a = 2
  <2> DEFINE at == Sampled(source, place, flip, p)
  <2>1. at \in Cells
    BY <1>2, SampledInside
  <2>2. new[p] = Blended(mode, Modulated(from[at], mod), old[p])
    BY <1>2 DEF Copied
  <2> HIDE DEF at, new
  <2>3. from[at] \in Pixels /\ (alpha = "zero" => from[at].a = 0)
        /\ (alpha = "opaque" => from[at].a = 2)
    BY <2>1 DEF Images, Right
  <2> QED
    BY <2>2, <2>3
<1> HIDE DEF new
<1>3. Right(CopyAlphaState(current, visible, alpha, mod, mode), new)
  BY <1>1, <1>2, CopiedRight
<1> QED
  BY <1>3 DEF new

-----------------------------------------------------------------------------
(***************************************************************************)
(* RunCopy's clipped and trimmed copy is SDL's.                            *)
(***************************************************************************)

Flips == [x : BOOLEAN, y : BOOLEAN]

\* NOODLES_ClipDraw takes from the source what it takes from the destination.
LEMMA ClipDrawn ==
  ASSUME NEW source \in Boxes, NEW place \in Boxes, NEW clip \in Boxes, NEW flip \in Flips
  PROVE  LET visible == Meet(place, clip)
             clipped == ClipDraw(source, place, clip, flip)
         IN /\ clipped.visible = visible /\ clipped.source \in Boxes
            /\ clipped.source.x =
                 source.x + (IF flip.x THEN place.x + place.w - (visible.x + visible.w)
                             ELSE visible.x - place.x)
            /\ clipped.source.y =
                 source.y + (IF flip.y THEN place.y + place.h - (visible.y + visible.h)
                             ELSE visible.y - place.y)
            /\ clipped.source.w = visible.w /\ clipped.source.h = visible.h
<1> DEFINE visible == Meet(place, clip)
           clipped == ClipDraw(source, place, clip, flip)
           left == visible.x - place.x
           top == visible.y - place.y
           right == place.x + place.w - (visible.x + visible.w)
           bottom == place.y + place.h - (visible.y + visible.h)
           x == source.x + (IF flip.x THEN right ELSE left)
           y == source.y + (IF flip.y THEN bottom ELSE top)
<1>1. clipped.visible = visible /\ clipped.source = Rect(x, y, visible.w, visible.h)
  BY DEF ClipDraw
<1>2. visible \in Boxes
  BY MeetType
<1> HIDE DEF visible, clipped
<1>3. x \in Int /\ y \in Int /\ visible.w \in Int /\ visible.h \in Int
  BY <1>2 DEF Boxes, Flips
<1> HIDE DEF x, y
<1>4. clipped.source \in Boxes /\ clipped.source.x = x /\ clipped.source.y = y
      /\ clipped.source.w = visible.w /\ clipped.source.h = visible.h
  BY <1>1, <1>3, RectangleTypes DEF Rect
<1> QED
  BY <1>1, <1>4 DEF x, y, visible, clipped

\* A visible pixel is taken from the clipped source.
LEMMA SampledClipped ==
  ASSUME NEW source \in Boxes, NEW place \in Boxes, NEW clip \in Boxes, NEW flip \in Flips,
         source.w = place.w, source.h = place.h, NEW p \in Cells, In(p, Meet(place, clip))
  PROVE  In(Sampled(source, place, flip, p), ClipDraw(source, place, clip, flip).source)
<1> DEFINE visible == Meet(place, clip)
           cs == ClipDraw(source, place, clip, flip).source
           at == Sampled(source, place, flip, p)
           x == source.x + (IF flip.x THEN place.w - 1 - (p[1] - place.x) ELSE p[1] - place.x)
           y == source.y + (IF flip.y THEN place.h - 1 - (p[2] - place.y) ELSE p[2] - place.y)
<1>1. visible \in Boxes /\ In(p, place) /\ p[1] \in Int /\ p[2] \in Int
  BY MeetType, MeetIff, CellsIn
<1>2. at = <<x, y>>
  BY <1>1, SampledUnscaled
<1>3. /\ cs.x = source.x + (IF flip.x THEN place.x + place.w - (visible.x + visible.w)
                            ELSE visible.x - place.x)
      /\ cs.y = source.y + (IF flip.y THEN place.y + place.h - (visible.y + visible.h)
                            ELSE visible.y - place.y)
      /\ cs.w = visible.w /\ cs.h = visible.h
  BY ClipDrawn
<1>4. visible.x <= p[1] /\ p[1] < visible.x + visible.w
      /\ visible.y <= p[2] /\ p[2] < visible.y + visible.h
  BY DEF In
<1> HIDE DEF visible, cs
<1>5. cs.x <= x /\ x < cs.x + cs.w
  BY <1>1, <1>3, <1>4 DEF Boxes, Flips
<1>6. cs.y <= y /\ y < cs.y + cs.h
  BY <1>1, <1>3, <1>4 DEF Boxes, Flips
<1>7. at[1] = x /\ at[2] = y
  BY <1>2
<1> HIDE DEF x, y, at
<1>8. In(at, cs)
  BY <1>5, <1>6, <1>7 DEF In
<1> QED
  BY <1>8 DEF at, cs

\* Without trimming, the clipped copy samples as the whole one.
LEMMA ClippedSamples ==
  ASSUME NEW source \in Boxes, NEW place \in Boxes, NEW clip \in Boxes, NEW flip \in Flips,
         source.w = place.w, source.h = place.h, NEW p \in Cells, In(p, Meet(place, clip))
  PROVE  LET clipped == ClipDraw(source, place, clip, flip) IN
         Sampled(clipped.source, clipped.visible, flip, p) = Sampled(source, place, flip, p)
<1> DEFINE visible == Meet(place, clip)
           cs == ClipDraw(source, place, clip, flip).source
<1>1. visible \in Boxes /\ In(p, place) /\ p[1] \in Int /\ p[2] \in Int
  BY MeetType, MeetIff, CellsIn
<1>2. /\ cs.x = source.x + (IF flip.x THEN place.x + place.w - (visible.x + visible.w)
                            ELSE visible.x - place.x)
      /\ cs.y = source.y + (IF flip.y THEN place.y + place.h - (visible.y + visible.h)
                            ELSE visible.y - place.y)
      /\ cs.w = visible.w /\ cs.h = visible.h /\ cs \in Boxes
      /\ ClipDraw(source, place, clip, flip).visible = visible
  BY ClipDrawn
<1> HIDE DEF visible, cs
<1>3. In(p, visible)
  BY DEF visible
<1>4. Sampled(cs, visible, flip, p) =
        <<cs.x + (IF flip.x THEN visible.w - 1 - (p[1] - visible.x) ELSE p[1] - visible.x),
          cs.y + (IF flip.y THEN visible.h - 1 - (p[2] - visible.y) ELSE p[2] - visible.y)>>
  BY <1>1, <1>2, <1>3, SampledUnscaled
<1>5. Sampled(source, place, flip, p) =
        <<source.x + (IF flip.x THEN place.w - 1 - (p[1] - place.x) ELSE p[1] - place.x),
          source.y + (IF flip.y THEN place.h - 1 - (p[2] - place.y) ELSE p[2] - place.y)>>
  BY <1>1, SampledUnscaled
<1>6. cs.x + (IF flip.x THEN visible.w - 1 - (p[1] - visible.x) ELSE p[1] - visible.x)
      = source.x + (IF flip.x THEN place.w - 1 - (p[1] - place.x) ELSE p[1] - place.x)
  BY <1>1, <1>2 DEF Boxes, Flips
<1>7. cs.y + (IF flip.y THEN visible.h - 1 - (p[2] - visible.y) ELSE p[2] - visible.y)
      = source.y + (IF flip.y THEN place.h - 1 - (p[2] - place.y) ELSE p[2] - place.y)
  BY <1>1, <1>2 DEF Boxes, Flips
<1>8. Sampled(cs, visible, flip, p) = Sampled(source, place, flip, p)
  BY <1>4, <1>5, <1>6, <1>7
<1> QED
  BY <1>2, <1>8 DEF visible, cs

\* Destination drawn is where the part kept of the source goes.
Trimmed(source, place, visible, flip, kept, drawn) ==
  /\ drawn \in Boxes /\ RectContains(visible, drawn)
  /\ \A p \in Cells : In(p, visible) =>
       (In(p, drawn) <=> In(Sampled(source, place, flip, p), kept))
  /\ \A p \in Cells : In(p, drawn) =>
       Sampled(kept, drawn, flip, p) = Sampled(source, place, flip, p)

\* RunCopy moves the destination with the part of the source it keeps.
LEMMA TrimmedSamples ==
  ASSUME NEW source \in Boxes, NEW place \in Boxes, NEW clip \in Boxes, NEW flip \in Flips,
         source.w = place.w, source.h = place.h, ~flip.x, ~flip.y, NEW content \in Boxes,
         NEW clipped, clipped = ClipDraw(source, place, clip, flip),
         NEW kept, kept = Meet(clipped.source, content),
         NEW drawn, drawn = Rect(clipped.visible.x + kept.x - clipped.source.x,
                                 clipped.visible.y + kept.y - clipped.source.y, kept.w, kept.h)
  PROVE  Trimmed(source, place, clipped.visible, flip, kept, drawn)
<1> DEFINE visible == Meet(place, clip)
           cs == clipped.source
<1>1. /\ cs.x = source.x + visible.x - place.x /\ cs.y = source.y + visible.y - place.y
      /\ cs.w = visible.w /\ cs.h = visible.h /\ cs \in Boxes
      /\ clipped.visible = visible /\ visible \in Boxes
  <2>1. visible \in Boxes
    BY MeetType
  <2>2. /\ cs.x = source.x + (visible.x - place.x) /\ cs.y = source.y + (visible.y - place.y)
        /\ cs.w = visible.w /\ cs.h = visible.h /\ cs \in Boxes
        /\ clipped.visible = visible
    BY ClipDrawn
  <2> HIDE DEF visible, cs
  <2> QED
    BY <2>1, <2>2 DEF Boxes
<1>2. /\ kept \in Boxes /\ kept.x >= cs.x /\ kept.y >= cs.y
      /\ kept.x + kept.w <= cs.x + cs.w /\ kept.y + kept.h <= cs.y + cs.h
  <2>1. kept \in Boxes
    BY <1>1, MeetType
  <2> QED
    BY <1>1, <2>1 DEF Boxes, Meet, Rect, Larger, Smaller
<1>3. ASSUME NEW p \in Cells, In(p, visible)
      PROVE  /\ p[1] \in Int /\ p[2] \in Int /\ In(p, place)
             /\ Sampled(source, place, flip, p) =
                  <<source.x + (p[1] - place.x), source.y + (p[2] - place.y)>>
  <2>1. In(p, place) /\ p[1] \in Int /\ p[2] \in Int
    BY <1>3, MeetIff, CellsIn
  <2> QED
    BY <2>1, SampledUnscaled
<1> HIDE DEF visible
<1>4. drawn \in Boxes /\ drawn.w = kept.w /\ drawn.h = kept.h
      /\ drawn.x = visible.x + kept.x - cs.x /\ drawn.y = visible.y + kept.y - cs.y
  <2>1. visible.x + kept.x - cs.x \in Int /\ visible.y + kept.y - cs.y \in Int
        /\ kept.w \in Int /\ kept.h \in Int
    BY <1>1, <1>2 DEF Boxes
  <2> QED
    BY <1>1, <2>1, RectangleTypes DEF Rect
<1>5. RectContains(visible, drawn)
  BY <1>1, <1>2, <1>4 DEF RectContains, Boxes
<1>6. ASSUME NEW p \in Cells, In(p, visible)
      PROVE  In(p, drawn) <=> In(Sampled(source, place, flip, p), kept)
  <2> DEFINE at == Sampled(source, place, flip, p)
  <2>1. at[1] = source.x + (p[1] - place.x) /\ at[2] = source.y + (p[2] - place.y)
        /\ p[1] \in Int /\ p[2] \in Int
    BY <1>3, <1>6
  <2> HIDE DEF at
  <2>2. In(p, drawn) <=> In(at, kept)
    BY <1>1, <1>2, <1>4, <2>1 DEF In, Boxes
  <2> QED
    BY <2>2 DEF at
<1>7. ASSUME NEW p \in Cells, In(p, drawn)
      PROVE  Sampled(kept, drawn, flip, p) = Sampled(source, place, flip, p)
  <2>1. In(p, visible)
    BY <1>1, <1>4, <1>5, <1>7, CellsIn DEF In, RectContains, Boxes
  <2>2. Sampled(kept, drawn, flip, p) =
          <<kept.x + (p[1] - drawn.x), kept.y + (p[2] - drawn.y)>>
    BY <1>2, <1>4, <1>7, SampledUnscaled
  <2>3. kept.x + (p[1] - drawn.x) = source.x + (p[1] - place.x)
        /\ kept.y + (p[2] - drawn.y) = source.y + (p[2] - place.y)
    BY <1>1, <1>2, <1>3, <1>4, <2>1 DEF Boxes
  <2> QED
    BY <1>3, <2>1, <2>2, <2>3
<1> QED
  BY <1>1, <1>4, <1>5, <1>6, <1>7 DEF Trimmed

\* What RunCopy keeps of the clipped source, and where it draws that.
LEMMA HardwareTrim ==
  ASSUME NEW t \in Tracks, NEW source \in Boxes, NEW place \in Boxes, NEW clip \in Boxes,
         NEW flip \in Flips, source.w = place.w, source.h = place.h, NEW mode, NEW alphaCopy
  PROVE  LET clipped == ClipDraw(source, place, clip, flip)
             kept == IF Trims(t, clipped.source, flip, mode, alphaCopy)
                     THEN Meet(clipped.source, t.content) ELSE clipped.source
             drawn == IF kept = clipped.source THEN clipped.visible
                      ELSE Rect(clipped.visible.x + kept.x - clipped.source.x,
                                clipped.visible.y + kept.y - clipped.source.y, kept.w, kept.h)
         IN Trimmed(source, place, clipped.visible, flip, kept, drawn)
<1> DEFINE clipped == ClipDraw(source, place, clip, flip)
           trims == Trims(t, clipped.source, flip, mode, alphaCopy)
           part == Meet(clipped.source, t.content)
           trimmed == Rect(clipped.visible.x + part.x - clipped.source.x,
                           clipped.visible.y + part.y - clipped.source.y, part.w, part.h)
           kept == IF trims THEN part ELSE clipped.source
           drawn == IF kept = clipped.source THEN clipped.visible
                    ELSE Rect(clipped.visible.x + kept.x - clipped.source.x,
                              clipped.visible.y + kept.y - clipped.source.y, kept.w, kept.h)
<1>1. t.content \in Boxes
  BY DEF Tracks
<1>2. clipped.visible = Meet(place, clip) /\ clipped.visible \in Boxes
  <2>1. Meet(place, clip) \in Boxes
    BY MeetType
  <2>2. clipped.visible = Meet(place, clip)
    BY ClipDrawn
  <2> QED
    BY <2>1, <2>2
<1>3. CASE kept = clipped.source
  <2>1. ASSUME NEW p \in Cells, In(p, clipped.visible)
        PROVE  /\ In(Sampled(source, place, flip, p), clipped.source)
               /\ Sampled(clipped.source, clipped.visible, flip, p) = Sampled(source, place, flip, p)
    BY <1>2, <2>1, SampledClipped, ClippedSamples
  <2>2. RectContains(clipped.visible, clipped.visible)
    BY <1>2 DEF RectContains, Boxes
  <2> HIDE DEF clipped
  <2>3. Trimmed(source, place, clipped.visible, flip, clipped.source, clipped.visible)
    BY <1>2, <2>1, <2>2 DEF Trimmed
  <2> QED
    BY <1>3, <2>3 DEF clipped
<1>4. CASE kept # clipped.source
  <2>1. trims /\ kept = part /\ drawn = trimmed
    BY <1>4
  <2>2. ~flip.x /\ ~flip.y
    BY <2>1 DEF Trims
  <2>3. clipped = ClipDraw(source, place, clip, flip) /\ part = Meet(clipped.source, t.content)
    OBVIOUS
  <2>4. trimmed = Rect(clipped.visible.x + part.x - clipped.source.x,
                       clipped.visible.y + part.y - clipped.source.y, part.w, part.h)
    OBVIOUS
  <2> HIDE DEF part, trimmed, clipped, trims, kept, drawn
  <2>5. Trimmed(source, place, clipped.visible, flip, part, trimmed)
    BY <1>1, <2>2, <2>3, <2>4, TrimmedSamples
  <2>6. Trimmed(source, place, clipped.visible, flip, kept, drawn)
    BY <2>1, <2>5
  <2> QED
    BY <2>6 DEF clipped, kept, drawn, trims, part
<1> QED
  BY <1>3, <1>4

\* Whatever RunCopy skips, turns into an unblended copy or trims, it leaves
\* the pixels of the whole copy.
Exact(t, from, old, source, place, clip, flip, mode, mod) ==
  LET clipped == ClipDraw(source, place, clip, flip)
        alphaSkip == mode = "blend" /\ t.alpha = "zero"
        alphaCopy == /\ mode = "blend" /\ t.alpha = "opaque"
                     /\ mod = [a |-> 2, c |-> 1] /\ ~flip.x /\ ~flip.y
        kept == IF Trims(t, clipped.source, flip, mode, alphaCopy)
                THEN Meet(clipped.source, t.content) ELSE clipped.source
        drawn == IF kept = clipped.source THEN clipped.visible
                 ELSE Rect(clipped.visible.x + kept.x - clipped.source.x,
                           clipped.visible.y + kept.y - clipped.source.y, kept.w, kept.h)
        pixels == Copied(old, {p \in Cells : In(p, drawn)}, from, kept, drawn, flip,
                         IF alphaCopy THEN "none" ELSE mode, mod)
        whole == Copied(old, {p \in Cells : In(p, clipped.visible)}, from, source, place,
                        flip, mode, mod)
    IN IF alphaSkip \/ Empty(kept) THEN whole = old ELSE whole = pixels

LEMMA HardwareExact ==
  ASSUME NEW t \in Tracks, NEW from \in Images, NEW old \in Images,
         Known(t, from), Right(t.alpha, from),
         NEW source \in Parts, NEW place \in Boxes, NEW clip \in Boxes, NEW flip \in Flips,
         source.w = place.w, source.h = place.h, ~Empty(Meet(place, clip)),
         NEW mode \in Modes, NEW mod \in Pixels
  PROVE  Exact(t, from, old, source, place, clip, flip, mode, mod)
<1> DEFINE clipped == ClipDraw(source, place, clip, flip)
           alphaSkip == mode = "blend" /\ t.alpha = "zero"
           alphaCopy == /\ mode = "blend" /\ t.alpha = "opaque"
                        /\ mod = [a |-> 2, c |-> 1] /\ ~flip.x /\ ~flip.y
           trims == Trims(t, clipped.source, flip, mode, alphaCopy)
           kept == IF trims THEN Meet(clipped.source, t.content) ELSE clipped.source
           drawn == IF kept = clipped.source THEN clipped.visible
                    ELSE Rect(clipped.visible.x + kept.x - clipped.source.x,
                              clipped.visible.y + kept.y - clipped.source.y, kept.w, kept.h)
           effective == IF alphaCopy THEN "none" ELSE mode
           pixels == Copied(old, {p \in Cells : In(p, drawn)}, from, kept, drawn, flip,
                            effective, mod)
           whole == Copied(old, {p \in Cells : In(p, clipped.visible)}, from, source, place,
                           flip, mode, mod)
           at(p) == Sampled(source, place, flip, p)
<1>1. source \in Boxes /\ t.content \in Boxes
  BY RectangleTypes DEF Parts, Tracks
<1>2. /\ clipped.visible = Meet(place, clip) /\ clipped.visible \in Boxes
      /\ clipped.source \in Boxes
      /\ clipped.source.w = clipped.visible.w /\ clipped.source.h = clipped.visible.h
  <2>1. Meet(place, clip) \in Boxes
    BY MeetType
  <2> QED
    BY <1>1, <2>1, ClipDrawn
<1>3. ASSUME NEW p \in Cells, In(p, clipped.visible)
      PROVE  /\ In(at(p), clipped.source) /\ at(p) \in Cells
             /\ Sampled(clipped.source, clipped.visible, flip, p) = at(p)
  <2>1. In(p, Meet(place, clip)) /\ In(p, place)
    BY <1>2, <1>3, MeetIff
  <2> QED
    BY <1>1, <2>1, SampledClipped, ClippedSamples, SampledInside
<1>4. trims => /\ ~alphaCopy /\ ~flip.x /\ ~flip.y /\ t.tracked
               /\ mode \in {"blend", "add"} /\ t.outside.a = 0
  BY DEF Trims
<1>5. Trimmed(source, place, clipped.visible, flip, kept, drawn)
  BY <1>1, HardwareTrim
<1> HIDE DEF clipped, trims, alphaSkip, alphaCopy
<1>6. drawn \in Boxes /\ \A p \in Cells : In(p, drawn) => In(p, clipped.visible)
  <2> HIDE DEF drawn, kept
  <2> QED
    BY <1>2, <1>5, CellsIn DEF Trimmed, In, RectContains, Boxes
<1>7. ASSUME NEW p \in Cells, In(p, clipped.visible)
      PROVE  In(p, drawn) <=> In(at(p), kept)
  BY <1>5, <1>7 DEF Trimmed
<1>8. ASSUME NEW p \in Cells, In(p, drawn)
      PROVE  Sampled(kept, drawn, flip, p) = at(p)
  BY <1>5, <1>8 DEF Trimmed
<1> HIDE DEF at
<1>9. ASSUME NEW p \in Cells, In(p, clipped.visible), ~In(p, drawn)
      PROVE  /\ mode \in {"blend", "add"} /\ from[at(p)].a = 0
  <2>1. trims /\ ~In(at(p), Meet(clipped.source, t.content))
    BY <1>3, <1>7, <1>9
  <2>2. ~In(at(p), t.content)
    BY <1>1, <1>2, <1>3, <1>9, <2>1, MeetIff
  <2>3. from[at(p)] = t.outside
    BY <1>3, <1>4, <1>9, <2>1, <2>2 DEF Known
  <2> QED
    BY <1>4, <2>1, <2>3
<1>10. Empty(kept) => \A p \in Cells : ~In(p, drawn)
  <2> SUFFICES ASSUME Empty(kept), NEW p \in Cells, In(p, drawn) PROVE FALSE
    OBVIOUS
  <2>1. In(at(p), kept) /\ at(p) \in Cells
    BY <1>3, <1>6, <1>7
  <2>2. kept \in Boxes
    BY <1>1, <1>2, MeetType
  <2> QED
    BY <2>1, <2>2, CellsIn
<1>11. ASSUME NEW p \in Cells, In(p, clipped.visible)
       PROVE  from[at(p)] \in Pixels /\ old[p] \in Pixels
              /\ (t.alpha = "zero" => from[at(p)].a = 0)
              /\ (t.alpha = "opaque" => from[at(p)].a = 2)
  BY <1>3, <1>11 DEF Images, Right
<1>12. ASSUME NEW p \in Cells
       PROVE  /\ ~In(p, clipped.visible) => whole[p] = old[p]
              /\ In(p, clipped.visible) =>
                   whole[p] = Blended(mode, Modulated(from[at(p)], mod), old[p])
  BY DEF Copied, at
<1>13. ASSUME NEW p \in Cells, In(p, clipped.visible), mode \in {"blend", "add"},
              from[at(p)].a = 0
       PROVE  whole[p] = old[p]
  <2>1. from[at(p)] \in Pixels /\ old[p] \in Pixels
    BY <1>11, <1>13
  <2>2. Modulated(from[at(p)], mod) \in Pixels /\ Modulated(from[at(p)], mod).a = 0
    BY <1>13, <2>1, PixelTypes, ModulateFacts
  <2>3. Blended(mode, Modulated(from[at(p)], mod), old[p]) = old[p]
    BY <1>13, <2>1, <2>2, BlendFacts
  <2> QED
    BY <1>12, <1>13, <2>3
<1>14. whole = [p \in Cells |-> whole[p]] /\ old = [p \in Cells |-> old[p]]
  BY DEF Copied, Images
<1>15. CASE alphaSkip \/ Empty(kept)
  <2>1. ASSUME NEW p \in Cells PROVE whole[p] = old[p]
    <3>1. CASE ~In(p, clipped.visible)
      BY <1>12, <3>1
    <3>2. CASE In(p, clipped.visible) /\ alphaSkip
      <4>1. mode \in {"blend", "add"} /\ from[at(p)].a = 0
        BY <1>11, <3>2 DEF alphaSkip
      <4> QED
        BY <1>13, <3>2, <4>1
    <3>3. CASE In(p, clipped.visible) /\ Empty(kept)
      BY <1>9, <1>10, <1>13, <3>3
    <3> QED
      BY <1>15, <3>1, <3>2, <3>3
  <2> HIDE DEF whole
  <2> QED
    BY <1>14, <1>15, <2>1 DEF Exact, whole, alphaSkip, alphaCopy, trims, clipped
<1>16. CASE ~(alphaSkip \/ Empty(kept))
  <2>1. ASSUME NEW p \in Cells PROVE whole[p] = pixels[p]
    <3>1. pixels[p] = IF In(p, drawn)
                      THEN Blended(effective, Modulated(from[Sampled(kept, drawn, flip, p)], mod),
                                   old[p])
                      ELSE old[p]
      BY DEF Copied
    <3> HIDE DEF pixels, whole, drawn, kept
    <3>2. CASE ~In(p, clipped.visible)
      BY <1>6, <1>12, <3>1, <3>2
    <3>3. CASE In(p, clipped.visible) /\ ~In(p, drawn)
      BY <1>9, <1>13, <3>1, <3>3
    <3>4. CASE In(p, clipped.visible) /\ In(p, drawn)
      <4>1. pixels[p] = Blended(effective, Modulated(from[at(p)], mod), old[p])
        BY <1>8, <3>1, <3>4
      <4>2. CASE ~alphaCopy
        BY <1>12, <3>4, <4>1, <4>2
      <4>3. CASE alphaCopy
        <5>1. from[at(p)] \in Pixels /\ old[p] \in Pixels /\ from[at(p)].a = 2
          BY <1>11, <3>4, <4>3 DEF alphaCopy
        <5>2. Modulated(from[at(p)], mod) = from[at(p)]
          BY <4>3, <5>1, ModulateFacts DEF alphaCopy
        <5>3. mode = "blend"
          BY <4>3 DEF alphaCopy
        <5> QED
          BY <1>12, <3>4, <4>1, <4>3, <5>1, <5>2, <5>3, BlendFacts
      <4> QED
        BY <4>2, <4>3
    <3> QED
      BY <3>2, <3>3, <3>4
  <2>2. pixels = [p \in Cells |-> pixels[p]]
    BY DEF Copied
  <2> HIDE DEF whole, pixels
  <2>3. whole = pixels
    BY <1>14, <2>1, <2>2
  <2> QED
    BY <1>16, <2>3 DEF Exact, whole, pixels, alphaSkip, alphaCopy, trims, clipped
<1> QED
  BY <1>15, <1>16 DEF Exact, whole, pixels, alphaSkip, alphaCopy, trims, clipped

-----------------------------------------------------------------------------
(***************************************************************************)
(* The content stays within the surface.                                   *)
(***************************************************************************)

Within(r) == Empty(r) \/ RectContains(Whole, r)

\* Clipping makes nothing larger.
LEMMA WithinMeet ==
  ASSUME NEW a \in Boxes, NEW b \in Boxes, Within(a) \/ Within(b)
  PROVE  Within(Meet(a, b))
BY SizeAssumption DEF Within, Empty, RectContains, Whole, Meet, Rect, Boxes, Larger, Smaller

\* The clip rectangle is on the surface.
LEMMA WithinClip ==
  ASSUME NEW view \in Views
  PROVE  Within(EffectiveClip(view))
<1>1. view.viewport \in Boxes /\ view.clip \in Boxes
  BY RectangleTypes DEF Views
<1>2. Within(Whole) /\ Whole \in Boxes
  BY RectangleTypes, SizeAssumption DEF Within, RectContains, Whole, Rect
<1>3. Within(Meet(Whole, view.viewport)) /\ Meet(Whole, view.viewport) \in Boxes
      /\ Shift(view.clip, view.viewport) \in Boxes
  BY <1>1, <1>2, WithinMeet, MeetType, ShiftType
<1> QED
  BY <1>3, WithinMeet DEF EffectiveClip

\* A part of what is on the surface is on it.
LEMMA WithinPart ==
  ASSUME NEW a \in Boxes, NEW b \in Boxes, Within(a), RectContains(a, b)
  PROVE  Within(b)
BY SizeAssumption DEF Within, Empty, RectContains, Whole, Rect, Boxes

\* The content grows on the surface.
LEMMA WithinAdd ==
  ASSUME NEW t \in Tracks, NEW r \in Boxes, Within(t.content), Within(r)
  PROVE  Within(AddContent(t, r).content)
<1>1. t.content \in Boxes
  BY DEF Tracks
<1>2. CASE ~t.tracked \/ Empty(r)
  BY <1>2 DEF AddContent
<1>3. CASE t.tracked /\ ~Empty(r)
  <2> DEFINE grown == IF Empty(t.content) THEN r ELSE Hull(t.content, r)
  <2>1. Within(grown)
    BY <1>1, <1>3, SizeAssumption
    DEF Within, Empty, RectContains, Whole, Hull, Rect, Boxes, Larger, Smaller
  <2>2. AddContent(t, r) = [t EXCEPT !.content = grown]
    BY <1>3 DEF AddContent
  <2> HIDE DEF grown
  <2> QED
    BY <2>1, <2>2 DEF Tracks
<1> QED
  BY <1>2, <1>3

\* A fill empties the content, or grows it.
LEMMA WithinFill ==
  ASSUME NEW t \in Tracks, NEW r \in Boxes, NEW color, Within(t.content), Within(r)
  PROVE  Within(OpaqueFillRegion(t, r, color).track.content)
<1>1. Within(Nothing)
  BY DEF Within, Empty, Nothing, Rect
<1>2. Within(AddContent(t, r).content)
  BY WithinAdd
<1>3. Within(ResetContent(t, color).content)
  BY <1>1 DEF ResetContent, Tracks
<1>4. Within([t EXCEPT !.content = Nothing].content)
  BY <1>1 DEF Tracks
<1> QED
  BY <1>2, <1>3, <1>4 DEF OpaqueFillRegion

-----------------------------------------------------------------------------
(***************************************************************************)
(* The pixels are SDL's and alpha_state is true.                           *)
(***************************************************************************)

\* While a command runs that drew, its local speaks for the target.
Running(s) == command # Idle /\ s = target /\ command.drew

PictureInv ==
  /\ ContentInv
  /\ image \in [Surfaces -> Images] /\ sdl \in [Surfaces -> Images]
  /\ \A s \in Surfaces : Within(track[s].content)
  /\ failures <= app.failures
  /\ command.kind = "lines" => command.blend = "none"
  /\ failures = 0 =>
       /\ image = sdl
       /\ \A s \in Surfaces : Running(s) \/ Right(track[s].alpha, image[s])
       /\ command # Idle => Right(command.alpha, image[target])

\* No function but those named for it touches alpha_state.
LEMMA AlphaKept ==
  ASSUME NEW t \in Tracks, NEW r \in Boxes, NEW color
  PROVE  /\ AddContent(t, r).alpha = t.alpha
         /\ OpaqueFillRegion(t, r, color).track.alpha = t.alpha
         /\ EnsureGPU(t).alpha = t.alpha
<1>1. AddContent(t, r).alpha = t.alpha
  BY DEF AddContent, Tracks
<1>2. ResetContent(t, color).alpha = t.alpha
  BY DEF ResetContent, Tracks
<1>3. [t EXCEPT !.content = Nothing].alpha = t.alpha
  BY DEF Tracks
<1>4. OpaqueFillRegion(t, r, color).track.alpha = t.alpha
  BY <1>1, <1>2, <1>3 DEF OpaqueFillRegion
<1> QED
  BY <1>1, <1>4 DEF EnsureGPU, Tracks

\* A surface the step draws, with what SDL expects there.
LEMMA OnePicture ==
  ASSUME PictureInv, ContentInv', app' = app, failures' = failures, NEW s \in Surfaces,
         NEW pixels \in Images, NEW expected \in Images,
         image' = [image EXCEPT ![s] = pixels], sdl' = [sdl EXCEPT ![s] = expected],
         Within(track'[s].content),
         \A r \in Surfaces \ {s} : /\ track'[r].content = track[r].content
                                   /\ track'[r].alpha = track[r].alpha,
         command = Idle \/ target = s, command' = Idle \/ target' = s,
         command' # Idle => (command'.kind = "lines" => command'.blend = "none"),
         failures = 0 => /\ pixels = expected
                         /\ Right(track'[s].alpha, pixels) \/ (command' # Idle /\ command'.drew)
                         /\ command' # Idle => Right(command'.alpha, pixels)
  PROVE  PictureInv'
<1> USE DEF PictureInv
<1>1. image' \in [Surfaces -> Images] /\ sdl' \in [Surfaces -> Images]
  OBVIOUS
<1>2. image'[s] = pixels
      /\ \A r \in Surfaces \ {s} : image'[r] = image[r]
  OBVIOUS
<1>3. \A r \in Surfaces : Within(track'[r].content)
  OBVIOUS
<1>4. command'.kind = "lines" => command'.blend = "none"
  BY DEF Idle
<1>5. ASSUME failures' = 0 PROVE image' = sdl'
  BY <1>5
<1>6. ASSUME failures' = 0, NEW r \in Surfaces
      PROVE  Running(r)' \/ Right(track'[r].alpha, image'[r])
  <2>1. CASE r = s
    BY <1>2, <1>6, <2>1 DEF Running
  <2>2. CASE r # s
    <3>1. Right(track[r].alpha, image[r])
      BY <1>6, <2>2 DEF Running
    <3> QED
      BY <1>2, <2>2, <3>1
  <2> QED
    BY <2>1, <2>2
<1>7. ASSUME failures' = 0, command' # Idle PROVE Right(command'.alpha, image'[target'])
  BY <1>2, <1>7
<1> QED
  BY <1>1, <1>3, <1>4, <1>5, <1>6, <1>7

\* After a failure only types are promised.
LEMMA FailedPicture ==
  ASSUME PictureInv, ContentInv', app' = app, NEW pixels \in Images, Fails(target, pixels),
         \A r \in Surfaces : Within(track'[r].content)
  PROVE  PictureInv'
<1> USE DEF PictureInv
<1>1. failures < app.failures /\ failures' = failures + 1 /\ command' = Idle
  BY DEF Fails
<1>2. PICK left \in Images : image' = [image EXCEPT ![target] = left]
                             /\ sdl' = [sdl EXCEPT ![target] = left]
  <2>1. target \in Surfaces
    BY DEF ContentInv, Typed
  <2> QED
    BY <2>1 DEF Fails, Leaves
<1>3. failures \in Nat /\ app.failures \in Nat /\ app \in Applications
  BY InputsAssumption DEF ContentInv, Typed, Application
<1>4. image' \in [Surfaces -> Images] /\ sdl' \in [Surfaces -> Images]
  BY <1>2
<1> QED
  BY <1>1, <1>3, <1>4 DEF Idle

\* What the core has of a surface: its image when it is up to date.
LEMMA DeviceTypes ==
  ASSUME PictureInv
  PROVE  Device(target) \in Images /\ (track[target].gpuValid => Device(target) = image[target])
         /\ image[target] \in Images /\ sdl[target] \in Images
         /\ target \in Surfaces /\ track[target] \in Tracks /\ Within(track[target].content)
<1>1. target \in Surfaces /\ track[target] \in Tracks /\ image[target] \in Images
      /\ sdl[target] \in Images /\ Within(track[target].content)
  BY DEF PictureInv, ContentInv, Typed
<1>2. [p \in Cells |-> [a |-> 1, c |-> 1]] \in Images
  BY DEF Images, Pixels
<1> QED
  BY <1>1, <1>2 DEF Device

-----------------------------------------------------------------------------
(***************************************************************************)
(* The callbacks that do not draw.                                         *)
(***************************************************************************)

\* A new texture is transparent, and known to be.
LEMMA RecreatePicture ==
  ASSUME PictureInv, ContentInv', app' = app, NEW s \in Textures, RecreateTexture(s)
  PROVE  PictureInv'
<1>1. s \in Surfaces /\ s # Composition /\ track \in [Surfaces -> Tracks]
  BY SurfacesAssumption DEF Surfaces, PictureInv, ContentInv, Typed
<1>2. Blank \in Images /\ \A p \in Cells : Blank[p].a = 0
  BY DEF Blank, Images, Clear, Pixels
<1>3. track' = [track EXCEPT ![s] = InitSurface(s)] /\ command = Idle
      /\ command' = command /\ target' = target /\ failures' = failures
      /\ image' = [image EXCEPT ![s] = Blank] /\ sdl' = [sdl EXCEPT ![s] = Blank]
  BY DEF RecreateTexture, Leaves
<1>4. InitSurface(s).content = Nothing /\ InitSurface(s).alpha = "zero"
  BY <1>1 DEF InitSurface, ResetContent
<1>5. Within(Nothing) /\ Right("zero", Blank)
  BY <1>2 DEF Within, Empty, Nothing, Rect, Right
<1>6. track'[s].content = Nothing /\ track'[s].alpha = "zero"
      /\ \A r \in Surfaces \ {s} : track'[r] = track[r]
  BY <1>1, <1>3, <1>4
<1> QED
  BY <1>1, <1>2, <1>3, <1>5, <1>6, OnePicture

\* An update's pixels are classified.
LEMMA UpdatePicture ==
  ASSUME PictureInv, ContentInv', app' = app, NEW s \in Textures, NEW r \in Rectangles,
         NEW color \in Pixels, UpdateTexture(s, r, color)
  PROVE  PictureInv'
<1> DEFINE cells == {p \in Cells : In(p, r)}
           pixels == Wiped(image[s], cells, color)
           expected == Wiped(sdl[s], cells, color)
           alpha == UpdateAlphaPixels(track[s].alpha, r, pixels)
           t == [track[s] EXCEPT !.alpha = alpha]
<1>1. s \in Surfaces /\ track \in [Surfaces -> Tracks] /\ track[s] \in Tracks
      /\ r \in Boxes /\ r \in Parts /\ command = Idle
      /\ image[s] \in Images /\ sdl[s] \in Images
  BY RectangleTypes DEF Surfaces, PictureInv, ContentInv, Typed, UpdateTexture
<1>2. PICK uploaded \in {FALSE, track[s].gpuValid} :
        track' = [track EXCEPT ![s] = [AddContent(t, r) EXCEPT !.gpuValid = uploaded]]
  BY DEF UpdateTexture
<1>3. image' = [image EXCEPT ![s] = pixels] /\ sdl' = [sdl EXCEPT ![s] = expected]
      /\ command' = command /\ target' = target /\ failures' = failures
  BY DEF UpdateTexture, Leaves
<1>4. pixels \in Images /\ expected \in Images
  BY <1>1, FilledTypes
<1>5. failures = 0 => pixels = expected /\ Right(track[s].alpha, image[s])
  BY <1>1 DEF PictureInv, Running
<1>6. \A p \in Cells : ~In(p, r) => pixels[p] = image[s][p]
  BY DEF Wiped
<1> HIDE DEF pixels, expected
<1>7. failures = 0 => Right(alpha, pixels)
  BY <1>1, <1>5, <1>6, UpdatedRight
<1>8. alpha \in Alphas
  BY AlphaTypes
<1> HIDE DEF alpha
<1>9. t \in Tracks /\ t.content = track[s].content /\ t.alpha = alpha
  BY <1>1, <1>8 DEF Tracks
<1>10. Within(r)
  BY <1>1, SizeAssumption DEF Within, RectContains, Parts, Rectangles, Whole, Rect
<1>11. Within(track[s].content)
  BY <1>1 DEF PictureInv
<1> HIDE DEF t
<1>12. Within(AddContent(t, r).content) /\ AddContent(t, r).alpha = alpha
       /\ AddContent(t, r) \in Tracks
  BY <1>1, <1>9, <1>10, <1>11, WithinAdd, AlphaKept, AddContentCovers
<1>13. track'[s].content = AddContent(t, r).content /\ track'[s].alpha = alpha
       /\ \A x \in Surfaces \ {s} : track'[x] = track[x]
  BY <1>1, <1>2, <1>12 DEF Tracks
<1> QED
  BY <1>1, <1>3, <1>4, <1>5, <1>7, <1>12, <1>13, OnePicture

\* Eviction changes no pixel.
LEMMA EvictPicture ==
  ASSUME PictureInv, ContentInv', app' = app, NEW s \in Textures, EvictSurface(s)
  PROVE  PictureInv'
<1>1. s \in Surfaces /\ track \in [Surfaces -> Tracks]
  BY DEF Surfaces, PictureInv, ContentInv, Typed
<1>2. \A r \in Surfaces : track'[r].content = track[r].content /\ track'[r].alpha = track[r].alpha
  BY <1>1 DEF EvictSurface, Tracks
<1>3. UNCHANGED <<image, sdl, target, command, failures>>
  BY DEF EvictSurface
<1> QED
  BY <1>2, <1>3 DEF PictureInv, Running

\* Turning to another target changes no pixel.
LEMMA TargetPicture ==
  ASSUME PictureInv, ContentInv', app' = app, NEW s \in Surfaces, SetRenderTarget(s)
  PROVE  PictureInv'
BY DEF PictureInv, Running, SetRenderTarget

\* Nothing is said of the display buffer of an earlier frame.
LEMMA PresentPicture ==
  ASSUME PictureInv, ContentInv', app' = app, RenderPresent
  PROVE  PictureInv'
<1>1. Composition \in Surfaces /\ track \in [Surfaces -> Tracks] /\ app \in Applications
  BY DEF Surfaces, PictureInv, ContentInv, Typed
<1>2. PICK older \in Images : image' = [image EXCEPT ![Composition] = older]
                              /\ sdl' = [sdl EXCEPT ![Composition] = older]
  <2>1. app.colors \subseteq Pixels
    BY <1>1, Inputs
  <2>2. \A color \in app.colors : [p \in Cells |-> color] \in Images
    BY <2>1 DEF Images
  <2> QED
    BY <2>2 DEF RenderPresent, Leaves
<1>3. command = Idle /\ UNCHANGED <<target, command, failures>>
      /\ track' = [track EXCEPT ![Composition] = MarkGPUWriteState(@, "unknown")]
  BY DEF RenderPresent
<1>4. track'[Composition].content = track[Composition].content
      /\ track'[Composition].alpha = "unknown"
      /\ \A r \in Surfaces \ {Composition} : track'[r] = track[r]
  BY <1>1, <1>3 DEF MarkGPUWriteState, Tracks
<1>5. Within(track[Composition].content) /\ Right("unknown", older)
  BY <1>1 DEF PictureInv, Right
<1> QED
  BY <1>1, <1>2, <1>3, <1>4, <1>5, OnePicture

-----------------------------------------------------------------------------
(***************************************************************************)
(* Clears, fills, points and lines.                                        *)
(***************************************************************************)

\* A clear leaves one colour, whatever it leaves out.
LEMMA ClearPicture ==
  ASSUME PictureInv, ContentInv', app' = app, NEW color \in Pixels, RenderClear(color)
  PROVE  PictureInv'
<1> DEFINE region == OpaqueFillRegion(track[target], Whole, color)
           pixels == IF region.needed
                     THEN Wiped(Device(target), {p \in Cells : In(p, region.write)}, color)
                     ELSE Device(target)
           expected == [p \in Cells |-> color]
           alpha == AlphaFromByte(color.a)
<1>1. target \in Surfaces /\ track \in [Surfaces -> Tracks] /\ track[target] \in Tracks
      /\ Device(target) \in Images
  BY DeviceTypes DEF PictureInv, ContentInv, Typed
<1>2. pixels \in Images /\ expected \in Images
  <2>1. expected \in Images
    BY DEF Images
  <2> QED
    BY <1>1, <2>1, FilledTypes
<1>3. failures = 0 => pixels = expected
  <2> SUFFICES ASSUME failures = 0 PROVE pixels = expected
    OBVIOUS
  <2>1. track[target].gpuValid => Known(track[target], Device(target))
    BY DeviceKnown DEF PictureInv
  <2>2. pixels = Wiped(Device(target), {p \in Cells : In(p, Whole)}, color)
    BY <1>1, <2>1, FillExact, RectangleTypes
  <2> HIDE DEF pixels
  <2> QED
    BY <2>2, CellsIn DEF Wiped
<1>4. Right(alpha, expected) /\ alpha \in Alphas
  BY ByteRight, AlphaTypes
<1>5. region.track \in Tracks /\ Within(region.track.content)
  <2>1. Within(Whole)
    BY SizeAssumption DEF Within, RectContains, Whole, Rect
  <2> QED
    BY <1>1, <2>1, DeviceTypes, FillTrack, WithinFill, RectangleTypes
<1>6. command = Idle /\ target' = target
  BY DEF RenderClear
<1>7. \/ /\ track' = [track EXCEPT ![target] = MarkGPUWriteState(region.track, alpha)]
         /\ image' = [image EXCEPT ![target] = pixels]
         /\ sdl' = [sdl EXCEPT ![target] = expected]
         /\ command' = command /\ failures' = failures
      \/ track' = [track EXCEPT ![target] = region.track] /\ Fails(target, pixels)
  BY DEF RenderClear, Leaves
<1> HIDE DEF region, pixels, expected, alpha
<1>8. CASE /\ track' = [track EXCEPT ![target] = MarkGPUWriteState(region.track, alpha)]
           /\ image' = [image EXCEPT ![target] = pixels]
           /\ sdl' = [sdl EXCEPT ![target] = expected]
           /\ command' = command /\ failures' = failures
  <2>1. MarkGPUWriteState(region.track, alpha).alpha = alpha
        /\ MarkGPUWriteState(region.track, alpha).content = region.track.content
    BY <1>5 DEF MarkGPUWriteState, Tracks
  <2>2. track'[target].content = region.track.content /\ track'[target].alpha = alpha
        /\ \A r \in Surfaces \ {target} : track'[r] = track[r]
    BY <1>1, <1>8, <2>1
  <2> QED
    BY <1>1, <1>2, <1>3, <1>4, <1>5, <1>6, <1>8, <2>2, OnePicture
<1>9. CASE track' = [track EXCEPT ![target] = region.track] /\ Fails(target, pixels)
  <2>1. \A r \in Surfaces : Within(track'[r].content)
    BY <1>1, <1>5, <1>9 DEF PictureInv
  <2> QED
    BY <1>2, <1>9, <2>1, FailedPicture
<1> QED
  BY <1>7, <1>8, <1>9

\* The first step of a command copies alpha_state to its local.
LEMMA BeginPicture ==
  ASSUME PictureInv, ContentInv', app' = app, NEW kind \in {"fill", "lines"}, NEW view \in Views,
         NEW mode \in Modes, NEW color \in Pixels, Begin(kind, view, mode, color),
         kind = "lines" => mode = "none"
  PROVE  PictureInv'
<1>1. target \in Surfaces /\ track \in [Surfaces -> Tracks]
  BY DEF PictureInv, ContentInv, Typed
<1>2. \A r \in Surfaces : track'[r].content = track[r].content /\ track'[r].alpha = track[r].alpha
  BY <1>1 DEF Begin, EnsureGPU, Tracks
<1>3. command = Idle /\ UNCHANGED <<image, sdl, target, failures>>
      /\ command'.kind = kind /\ command'.blend = mode
      /\ command'.alpha = track[target].alpha /\ ~command'.drew
  BY DEF Begin
<1> QED
  BY <1>1, <1>2, <1>3 DEF PictureInv, Running

\* A rectangle, point or segment that is counted in the locals.
LEMMA AccountedPicture ==
  ASSUME PictureInv, ContentInv', app' = app, command.kind # "idle", NEW r \in Boxes, Account(r),
         NEW t \in Tracks, Within(t.content), t.alpha = track[target].alpha,
         NEW pixels \in Images, NEW expected \in Images,
         track' = [track EXCEPT ![target] = t], image' = [image EXCEPT ![target] = pixels],
         sdl' = [sdl EXCEPT ![target] = expected], target' = target, failures' = failures,
         failures = 0 =>
           /\ pixels = expected
           /\ Right(FillAlphaState(command.alpha, r, command.color.a, command.blend), pixels)
  PROVE  PictureInv'
<1>1. target \in Surfaces /\ track \in [Surfaces -> Tracks] /\ command \in Commands
  BY DEF PictureInv, ContentInv, Typed, Idle
<1>2. /\ command'.alpha = FillAlphaState(command.alpha, r, command.color.a, command.blend)
      /\ command'.drew /\ command'.kind = command.kind /\ command'.blend = command.blend
      /\ command' # Idle
  BY <1>1 DEF Account, Commands, Idle
<1>3. track'[target].content = t.content
      /\ \A x \in Surfaces \ {target} : track'[x] = track[x]
  BY <1>1
<1>4. command.kind = "lines" => command.blend = "none"
  BY DEF PictureInv
<1> QED
  BY <1>1, <1>2, <1>3, <1>4, OnePicture

\* The pixels of the running command's target, and what its local says.
LEMMA CommandFacts ==
  ASSUME PictureInv, command.kind # "idle"
  PROVE  /\ command \in Commands /\ command.color \in Pixels /\ command.alpha \in Alphas
         /\ command.blend \in Modes /\ command.view \in Views
         /\ Device(target) = image[target] /\ track[target].gpuValid
         /\ failures = 0 => /\ image[target] = sdl[target]
                            /\ Known(track[target], image[target])
                            /\ Right(command.alpha, image[target])
<1>1. command \in Commands /\ command # Idle
  BY DEF PictureInv, ContentInv, Typed, Idle
<1>2. track[target].gpuValid /\ target \in Surfaces
  BY <1>1 DEF PictureInv, ContentInv, TargetReady, Typed
<1>3. Device(target) = image[target]
  BY <1>2, DeviceTypes
<1> QED
  BY <1>1, <1>2, <1>3 DEF PictureInv, ContentInv, Commands, Modes

\* A fill of a rectangle is SDL's, trimmed or not.
LEMMA FillRectPicture ==
  ASSUME PictureInv, ContentInv', app' = app, NEW r \in Rectangles, FillRect(r)
  PROVE  PictureInv'
<1> DEFINE place == Shift(r, command.view.viewport)
           visible == Meet(place, EffectiveClip(command.view))
           cells == {p \in Cells : In(p, visible)}
           region == OpaqueFillRegion(track[target], visible, command.color)
           opaque == command.blend = "none"
           written == Wiped(Device(target), {p \in Cells : In(p, region.write)}, command.color)
           blended == Filled(Device(target), cells, command.blend, command.color)
           filled == IF region.needed THEN written ELSE Device(target)
           expected == Filled(sdl[target], Drawn(place, command.view),
                              command.blend, command.color)
           grown == AddContent(track[target], visible)
<1>1. command.kind = "fill" /\ target' = target
  BY DEF FillRect
<1>2. /\ command \in Commands /\ command.color \in Pixels /\ command.alpha \in Alphas
      /\ command.blend \in Modes /\ command.view \in Views
      /\ Device(target) = image[target] /\ track[target].gpuValid
      /\ failures = 0 => /\ image[target] = sdl[target]
                         /\ Known(track[target], image[target])
                         /\ Right(command.alpha, image[target])
  BY <1>1, CommandFacts
<1>3. /\ target \in Surfaces /\ track[target] \in Tracks /\ track \in [Surfaces -> Tracks]
      /\ image[target] \in Images /\ sdl[target] \in Images /\ Within(track[target].content)
  BY DeviceTypes DEF PictureInv, ContentInv, Typed
<1>4. place \in Boxes /\ EffectiveClip(command.view) \in Boxes
  <2>1. command.view.viewport \in Boxes /\ r \in Boxes
    BY <1>2, RectangleTypes DEF Views
  <2> QED
    BY <1>2, <2>1, ShiftType, ClipType
<1>5. visible \in Boxes /\ Within(visible)
  BY <1>2, <1>4, MeetType, WithinClip, WithinMeet
<1>6. cells = Drawn(place, command.view)
  BY <1>2, <1>4, ClippedAsSdl
<1>7. written \in Images /\ blended \in Images /\ filled \in Images /\ expected \in Images
  BY <1>2, <1>3, FilledTypes
<1>8. region.track \in Tracks /\ Within(region.track.content)
      /\ region.track.alpha = track[target].alpha
  BY <1>2, <1>3, <1>5, FillTrack, WithinFill, AlphaKept
<1>9. grown \in Tracks /\ Within(grown.content) /\ grown.alpha = track[target].alpha
  BY <1>3, <1>5, AddContentCovers, WithinAdd, AlphaKept
<1>10. \/ /\ opaque /\ track' = [track EXCEPT ![target] = region.track]
          /\ image' = [image EXCEPT ![target] = filled]
          /\ sdl' = [sdl EXCEPT ![target] = expected]
          /\ Account(visible) /\ failures' = failures
       \/ /\ ~opaque /\ track' = [track EXCEPT ![target] = grown]
          /\ image' = [image EXCEPT ![target] = blended]
          /\ sdl' = [sdl EXCEPT ![target] = expected]
          /\ Account(visible) /\ failures' = failures
       \/ /\ track' = [track EXCEPT ![target] = IF opaque THEN region.track ELSE @]
          /\ Fails(target, IF opaque THEN written ELSE blended)
  BY DEF FillRect, Leaves
<1>11. ASSUME failures = 0
       PROVE  /\ blended = expected
              /\ Right(FillAlphaState(command.alpha, visible, command.color.a, command.blend), blended)
  <2>1. blended = expected
    BY <1>2, <1>6, <1>11
  <2>2. \A p \in Cells : blended[p] = IF In(p, visible)
                                      THEN Blended(command.blend, command.color, image[target][p])
                                      ELSE image[target][p]
    BY <1>2 DEF Filled
  <2> HIDE DEF visible, blended
  <2> QED
    BY <1>2, <1>3, <1>5, <1>11, <2>1, <2>2, FilledRight
<1>12. ASSUME failures = 0, opaque
       PROVE  filled = blended
  <2>1. filled = Wiped(Device(target), cells, command.color)
    BY <1>2, <1>3, <1>5, <1>12, FillExact
  <2>2. blended = Wiped(Device(target), cells, command.color)
    BY <1>12, FilledNone
  <2> QED
    BY <2>1, <2>2
<1> HIDE DEF visible, place, region, written, blended, filled, expected, grown, cells
<1>13. CASE /\ opaque /\ track' = [track EXCEPT ![target] = region.track]
            /\ image' = [image EXCEPT ![target] = filled]
            /\ sdl' = [sdl EXCEPT ![target] = expected]
            /\ Account(visible) /\ failures' = failures
  BY <1>1, <1>5, <1>7, <1>8, <1>11, <1>12, <1>13, AccountedPicture
<1>14. CASE /\ ~opaque /\ track' = [track EXCEPT ![target] = grown]
            /\ image' = [image EXCEPT ![target] = blended]
            /\ sdl' = [sdl EXCEPT ![target] = expected]
            /\ Account(visible) /\ failures' = failures
  BY <1>1, <1>5, <1>7, <1>9, <1>11, <1>14, AccountedPicture
<1>15. CASE /\ track' = [track EXCEPT ![target] = IF opaque THEN region.track ELSE @]
            /\ Fails(target, IF opaque THEN written ELSE blended)
  <2>1. \A x \in Surfaces : Within(track'[x].content)
    BY <1>3, <1>8, <1>15 DEF PictureInv
  <2> QED
    BY <1>7, <1>15, <2>1, FailedPicture
<1> QED
  BY <1>10, <1>13, <1>14, <1>15

\* Points and lines leave one colour in some pixels; only what covers the
\* surface decides on all of them.
LEMMA WipedRight ==
  ASSUME NEW current \in Alphas, NEW old, NEW new, NEW r \in Boxes, NEW color \in Pixels,
         Right(current, old), FullRect(r) => \A p \in Cells : new[p] = color,
         \A p \in Cells : new[p] \in {color, old[p]}
  PROVE  Right(FillAlphaState(current, r, color.a, "none"), new)
<1> DEFINE source == AlphaFromByte(color.a)
           result == FillAlphaState(current, r, color.a, "none")
<1>1. source = IF color.a = 0 THEN "zero" ELSE IF color.a = 2 THEN "opaque" ELSE "unknown"
  BY DEF AlphaFromByte
<1>2. result = IF FullRect(r) \/ current = source THEN source ELSE "unknown"
  BY DEF FillAlphaState
<1> HIDE DEF source, result
<1>3. ASSUME NEW p \in Cells
      PROVE  (result = "zero" => new[p].a = 0) /\ (result = "opaque" => new[p].a = 2)
  <2>1. (current = "zero" => old[p].a = 0) /\ (current = "opaque" => old[p].a = 2)
    BY DEF Right
  <2>2. new[p] = color \/ new[p] = old[p]
    OBVIOUS
  <2> QED
    BY <1>1, <1>2, <2>1, <2>2
<1> QED
  BY <1>3 DEF Right, result

\* Points, and lines of the slopes the core draws.
LEMMA SegmentPicture ==
  ASSUME PictureInv, ContentInv', app' = app, NEW a \in Cells, NEW b \in Cells, OpaqueSegment(a, b)
  PROVE  PictureInv'
<1> DEFINE box == Rect(Smaller(a[1], b[1]), Smaller(a[2], b[2]),
                       Larger(a[1], b[1]) - Smaller(a[1], b[1]) + 1,
                       Larger(a[2], b[2]) - Smaller(a[2], b[2]) + 1)
           diagonal == box.w = box.h /\ box.w > 1
           cells == {p \in Cells : /\ In(p, box)
                                   /\ diagonal => (p[1] - a[1]) * (b[2] - a[2])
                                                = (p[2] - a[2]) * (b[1] - a[1])}
           last == IF diagonal THEN Rect(b[1], b[2], 1, 1) ELSE box
           pixels == Wiped(Device(target), cells, command.color)
           expected == Wiped(sdl[target], cells, command.color)
           grown == AddContent(track[target], box)
<1>1. command.kind = "lines" /\ target' = target
  BY DEF OpaqueSegment
<1>2. /\ command \in Commands /\ command.color \in Pixels /\ command.alpha \in Alphas
      /\ Device(target) = image[target] /\ track[target].gpuValid
      /\ failures = 0 => /\ image[target] = sdl[target]
                         /\ Right(command.alpha, image[target])
  BY <1>1, CommandFacts
<1>3. /\ target \in Surfaces /\ track[target] \in Tracks /\ track \in [Surfaces -> Tracks]
      /\ image[target] \in Images /\ sdl[target] \in Images /\ Within(track[target].content)
  BY DeviceTypes DEF PictureInv, ContentInv, Typed
<1>4. command.blend = "none"
  BY <1>1 DEF PictureInv
<1>5. a[1] \in 0 .. Width - 1 /\ a[2] \in 0 .. Height - 1
      /\ b[1] \in 0 .. Width - 1 /\ b[2] \in 0 .. Height - 1
  BY DEF Cells
<1>6. box \in Boxes /\ last \in Boxes
  <2>1. box \in Boxes
    BY <1>5, SizeAssumption DEF Boxes, Rect, Larger, Smaller
  <2>2. Rect(b[1], b[2], 1, 1) \in Boxes
    BY <1>5, SizeAssumption, RectangleTypes
  <2> QED
    BY <2>1, <2>2
<1>7. Within(box)
  BY <1>5, SizeAssumption DEF Within, RectContains, Whole, Rect, Larger, Smaller
<1>8. FullRect(last) => \A p \in Cells : p \in cells
  <2>1. CASE diagonal
    <3>1. box.w > 1 => Width > 1
      BY <1>5, SizeAssumption DEF Rect, Larger, Smaller
    <3>2. last.w = 1 /\ Whole.w = Width
      BY <2>1 DEF Rect, Whole
    <3> QED
      BY <2>1, <3>1, <3>2, SizeAssumption DEF FullRect
  <2>2. CASE ~diagonal
    BY <2>2, CellsIn DEF FullRect
  <2> QED
    BY <2>1, <2>2
<1>9. grown \in Tracks /\ Within(grown.content) /\ grown.alpha = track[target].alpha
  BY <1>3, <1>6, <1>7, AddContentCovers, WithinAdd, AlphaKept
<1>10. pixels \in Images /\ expected \in Images
       /\ \A part : Wiped(Device(target), part, command.color) \in Images
  BY <1>2, <1>3, FilledTypes
<1>11. \/ /\ track' = [track EXCEPT ![target] = grown]
          /\ image' = [image EXCEPT ![target] = pixels]
          /\ sdl' = [sdl EXCEPT ![target] = expected]
          /\ Account(last) /\ failures' = failures
       \/ /\ track' = track
          /\ \E part \in IF diagonal THEN {{a}, cells} ELSE {cells} :
               Fails(target, Wiped(Device(target), part, command.color))
  BY DEF OpaqueSegment, Leaves
<1> HIDE DEF box, diagonal, cells, last, grown
<1>12. ASSUME failures = 0
       PROVE  /\ pixels = expected
              /\ Right(FillAlphaState(command.alpha, last, command.color.a, command.blend), pixels)
  <2>1. \A p \in Cells : pixels[p] = IF p \in cells THEN command.color ELSE image[target][p]
    BY <1>2 DEF Wiped
  <2>2. pixels = expected
    BY <1>2, <1>12
  <2> HIDE DEF pixels, expected
  <2>3. FullRect(last) => \A p \in Cells : pixels[p] = command.color
    BY <1>8, <2>1
  <2>4. \A p \in Cells : pixels[p] \in {command.color, image[target][p]}
    BY <2>1
  <2>5. Right(FillAlphaState(command.alpha, last, command.color.a, "none"), pixels)
    BY <1>2, <1>6, <1>12, <2>3, <2>4, WipedRight
  <2> QED
    BY <1>4, <2>2, <2>5
<1> HIDE DEF pixels, expected
<1>13. CASE /\ track' = [track EXCEPT ![target] = grown]
            /\ image' = [image EXCEPT ![target] = pixels]
            /\ sdl' = [sdl EXCEPT ![target] = expected]
            /\ Account(last) /\ failures' = failures
  BY <1>1, <1>6, <1>9, <1>10, <1>12, <1>13, AccountedPicture
<1>14. ASSUME track' = track, NEW part,
              Fails(target, Wiped(Device(target), part, command.color))
       PROVE  PictureInv'
  <2>1. \A x \in Surfaces : Within(track'[x].content)
    BY <1>14 DEF PictureInv
  <2> QED
    BY <1>10, <1>14, <2>1, FailedPicture
<1> QED
  BY <1>11, <1>13, <1>14

\* The end of a command stores its local.
LEMMA EndPicture ==
  ASSUME PictureInv, ContentInv', app' = app, EndCommand
  PROVE  PictureInv'
<1>1. target \in Surfaces /\ track \in [Surfaces -> Tracks]
  BY DEF PictureInv, ContentInv, Typed
<1>2. \A r \in Surfaces :
        /\ track'[r].content = track[r].content
        /\ track'[r].alpha = IF command.drew /\ r = target THEN command.alpha ELSE track[r].alpha
  BY <1>1 DEF EndCommand, MarkGPUWriteState, Tracks
<1>3. command # Idle /\ command' = Idle /\ UNCHANGED <<image, sdl, target, failures>>
  BY DEF EndCommand
<1> QED
  BY <1>1, <1>2, <1>3 DEF PictureInv, Running, Idle

-----------------------------------------------------------------------------
(***************************************************************************)
(* What SDL draws in the shadows, and copies.                              *)
(***************************************************************************)

\* Clipping to NOODLES_EffectiveClip is SDL's clipping.
LEMMA PointsAsSdl ==
  ASSUME NEW view \in Views, NEW points \in SUBSET Cells
  PROVE  {p \in points : In(p, EffectiveClip(view))} = points \cap Drawn(Whole, view)
<1>1. {p \in Cells : In(p, Meet(Whole, EffectiveClip(view)))} = Drawn(Whole, view)
  BY ClippedAsSdl, RectangleTypes
<1>2. \A p \in Cells : In(p, Meet(Whole, EffectiveClip(view))) <=> In(p, EffectiveClip(view))
  BY MeetIff, ClipType, CellsIn, RectangleTypes
<1> HIDE DEF Cells
<1> QED
  BY <1>1, <1>2

\* Of what the CPU has drawn alpha_state says nothing.
LEMMA UnknownPicture ==
  ASSUME PictureInv, ContentInv', app' = app, command = Idle,
         target' = target, command' = command, failures' = failures,
         NEW t, t.alpha = "unknown", Within(t.content),
         NEW pixels \in Images, NEW expected \in Images, failures = 0 => pixels = expected,
         track' = [track EXCEPT ![target] = t], image' = [image EXCEPT ![target] = pixels],
         sdl' = [sdl EXCEPT ![target] = expected]
  PROVE  PictureInv'
<1>1. target \in Surfaces /\ track \in [Surfaces -> Tracks]
  BY DEF PictureInv, ContentInv, Typed
<1>2. track'[target] = t /\ \A r \in Surfaces \ {target} : track'[r] = track[r]
  BY <1>1
<1>3. Right("unknown", pixels)
  BY DEF Right
<1> QED
  BY <1>1, <1>2, <1>3, OnePicture

\* Blended points and lines, and lines of other slopes.
LEMMA FallbackPicture ==
  ASSUME PictureInv, ContentInv', app' = app, NEW view \in Views, NEW a \in Cells, NEW b \in Cells,
         NEW mode, NEW color \in Pixels, PrimitiveFallback(view, {a, b}, mode, color)
  PROVE  PictureInv'
<1> DEFINE points == {a, b}
           clip == EffectiveClip(view)
           least(S) == CHOOSE i \in S : \A j \in S : i <= j
           most(S) == CHOOSE i \in S : \A j \in S : i >= j
           xs == {p[1] : p \in points}
           ys == {p[2] : p \in points}
           box == Rect(least(xs), least(ys), most(xs) - least(xs) + 1,
                       most(ys) - least(ys) + 1)
           region == Meet(clip, box)
           pixels == Filled(image[target], {p \in points : In(p, clip)}, mode, color)
           expected == Filled(sdl[target], points \cap Drawn(Whole, view), mode, color)
           t == CommitCPURegion(track[target], region)
           u == [track[target] EXCEPT !.gpuValid = TRUE, !.alpha = "unknown"]
<1>1. /\ command = Idle /\ command' = command /\ target' = target /\ failures' = failures
      /\ track' = [track EXCEPT ![target] = t] /\ image' = [image EXCEPT ![target] = pixels]
      /\ sdl' = [sdl EXCEPT ![target] = expected]
  BY DEF PrimitiveFallback, Leaves
<1>2. /\ target \in Surfaces /\ track[target] \in Tracks /\ Within(track[target].content)
      /\ image[target] \in Images /\ sdl[target] \in Images
      /\ failures = 0 => image[target] = sdl[target]
  BY DEF PictureInv, ContentInv, Typed
<1>3. {p \in points : In(p, clip)} = points \cap Drawn(Whole, view)
  BY PointsAsSdl
<1>4. pixels \in Images /\ expected \in Images
  BY <1>2, FilledTypes
<1>5. failures = 0 => pixels = expected
  BY <1>2, <1>3
<1>6. a[1] \in Int /\ a[2] \in Int /\ b[1] \in Int /\ b[2] \in Int
  BY CellsIn
<1>7. xs = {a[1], b[1]} /\ ys = {a[2], b[2]}
  OBVIOUS
<1> HIDE DEF xs, ys
<1>8. least(xs) \in Int /\ most(xs) \in Int /\ least(ys) \in Int /\ most(ys) \in Int
  BY <1>6, <1>7, Extremes
<1> HIDE DEF least, most
<1>9. box \in Boxes
  BY <1>8, RectangleTypes
<1> HIDE DEF box
<1>10. region \in Boxes /\ Within(region)
  BY <1>9, ClipType, WithinClip, MeetType, WithinMeet
<1>11. u \in Tracks /\ u.content = track[target].content /\ u.alpha = "unknown"
  BY <1>2 DEF Tracks, Alphas
<1>12. t = AddContent(u, region)
  BY DEF CommitCPURegion
<1> HIDE DEF u, region, pixels, expected, t
<1>13. t.alpha = "unknown" /\ Within(t.content)
  BY <1>2, <1>10, <1>11, <1>12, AlphaKept, WithinAdd
<1> QED
  BY <1>1, <1>4, <1>5, <1>13, UnknownPicture

\* Triangles.
LEMMA GeometryPicture ==
  ASSUME PictureInv, ContentInv', app' = app, NEW view \in Views, NEW cells \in SUBSET Cells,
         NEW mode, NEW color \in Pixels, Geometry(view, cells, mode, color)
  PROVE  PictureInv'
<1> DEFINE pixels == Filled(image[target], {p \in cells : In(p, EffectiveClip(view))}, mode, color)
           expected == Filled(sdl[target], cells \cap Drawn(Whole, view), mode, color)
           t == MarkCPUWrite([track[target] EXCEPT !.content = Whole])
<1>1. /\ command = Idle /\ command' = command /\ target' = target /\ failures' = failures
      /\ track' = [track EXCEPT ![target] = t] /\ image' = [image EXCEPT ![target] = pixels]
      /\ sdl' = [sdl EXCEPT ![target] = expected]
  <2>1. target \in Surfaces /\ track \in [Surfaces -> Tracks]
    BY DEF PictureInv, ContentInv, Typed
  <2> QED
    BY <2>1 DEF Geometry, Leaves
<1>2. /\ target \in Surfaces /\ track[target] \in Tracks
      /\ image[target] \in Images /\ sdl[target] \in Images
      /\ failures = 0 => image[target] = sdl[target]
  BY DEF PictureInv, ContentInv, Typed
<1>3. {p \in cells : In(p, EffectiveClip(view))} = cells \cap Drawn(Whole, view)
  BY PointsAsSdl
<1>4. pixels \in Images /\ expected \in Images
  BY <1>2, FilledTypes
<1>5. failures = 0 => pixels = expected
  BY <1>2, <1>3
<1>6. t.alpha = "unknown" /\ t.content = Whole
  BY <1>2 DEF MarkCPUWrite, Tracks
<1>7. Within(Whole)
  BY SizeAssumption DEF Within, RectContains, Whole, Rect
<1> HIDE DEF pixels, expected, t
<1> QED
  BY <1>1, <1>4, <1>5, <1>6, <1>7, UnknownPicture

\* Scaled copies, and copies of a surface to itself.
LEMMA SoftwarePicture ==
  ASSUME PictureInv, ContentInv', app' = app, command = Idle, command' = Idle, target' = target,
         NEW s \in Surfaces, NEW c \in Copies, NEW view \in Views, NEW mode, NEW mod \in Pixels,
         SoftwareCopy(s, c, view, mode, mod)
  PROVE  PictureInv'
<1> DEFINE place == Shift(c.destination, view.viewport)
           visible == Meet(place, EffectiveClip(view))
           cells == {p \in Cells : In(p, visible)}
           pixels == Copied(image[target], cells, image[s], c.source, place, c.flip, mode, mod)
           expected == Copied(sdl[target], Drawn(place, view), sdl[s], c.source, place, c.flip,
                              mode, mod)
           grown == AddContent(track[target], visible)
           t == MarkCPUWrite(grown)
<1>1. /\ failures' = failures
      /\ track' = [track EXCEPT ![target] = t] /\ image' = [image EXCEPT ![target] = pixels]
      /\ sdl' = [sdl EXCEPT ![target] = expected]
  BY DEF SoftwareCopy, SdlCopy, Leaves
<1>2. /\ target \in Surfaces /\ track[target] \in Tracks /\ Within(track[target].content)
      /\ image[target] \in Images /\ sdl[target] \in Images
      /\ image[s] \in Images /\ sdl[s] \in Images
      /\ failures = 0 => image = sdl
  BY DEF PictureInv, ContentInv, Typed
<1>3. place \in Boxes /\ EffectiveClip(view) \in Boxes /\ c.source \in Parts
  BY PlaceTypes DEF Copies
<1>4. visible \in Boxes /\ Within(visible)
  BY <1>3, MeetType, WithinClip, WithinMeet
<1>5. cells = Drawn(place, view)
  BY <1>3, ClippedAsSdl
<1>6. ASSUME NEW p \in Cells, p \in cells
      PROVE  Sampled(c.source, place, c.flip, p) \in Cells
  <2>1. In(p, place)
    BY <1>3, <1>6, MeetIff
  <2> QED
    BY <1>3, <2>1, SampledInside
<1>7. pixels \in Images /\ expected \in Images
  <2> HIDE DEF place, cells
  <2> QED
    BY <1>2, <1>5, <1>6, CopiedTypes
<1>8. failures = 0 => pixels = expected
  BY <1>2, <1>5
<1> HIDE DEF pixels, expected, visible, cells
<1>9. grown \in Tracks /\ Within(grown.content)
  BY <1>2, <1>4, AddContentCovers, WithinAdd
<1> HIDE DEF grown
<1>10. t.alpha = "unknown" /\ Within(t.content)
  BY <1>9 DEF MarkCPUWrite, Tracks
<1> HIDE DEF t
<1> QED
  BY <1>1, <1>7, <1>8, <1>10, UnknownPicture

\* Making two surfaces ready changes neither content nor alpha_state.
LEMMA ReadyKeeps ==
  ASSUME ContentInv, NEW s \in Surfaces, s # target,
         NEW ready, ready = [track EXCEPT ![target] = EnsureGPU(@), ![s] = EnsureGPU(@)]
  PROVE  /\ ready \in [Surfaces -> Tracks]
         /\ \A r \in Surfaces : ready[r].content = track[r].content /\ ready[r].alpha = track[r].alpha
<1>1. target \in Surfaces /\ track \in [Surfaces -> Tracks]
  BY DEF ContentInv, Typed
<1>2. \A r \in Surfaces : ready[r] = IF r \in {s, target} THEN EnsureGPU(track[r]) ELSE track[r]
  BY <1>1
<1>3. \A r \in Surfaces : ready[r].content = track[r].content /\ ready[r].alpha = track[r].alpha
  BY <1>1, <1>2 DEF EnsureGPU, Tracks
<1> QED
  BY <1>3, ReadyInv

\* What a copy draws is on the surface, and takes its pixels from the texture.
LEMMA HardwareTypes ==
  ASSUME NEW source \in Parts, NEW place \in Boxes, NEW view \in Views, NEW flip \in Flips,
         source.w = place.w, source.h = place.h, NEW mode, NEW mod \in Pixels,
         NEW from \in Images, NEW old \in Images, NEW visible,
         visible = Meet(place, EffectiveClip(view)),
         NEW kept \in Boxes, NEW drawn \in Boxes,
         Trimmed(source, place, visible, flip, kept, drawn)
  PROVE  /\ Within(drawn)
         /\ Copied(old, {p \in Cells : In(p, drawn)}, from, kept, drawn, flip, mode, mod) \in Images
<1>1. EffectiveClip(view) \in Boxes /\ Within(EffectiveClip(view))
  BY ClipType, WithinClip
<1>2. visible \in Boxes /\ Within(visible)
  BY <1>1, MeetType, WithinMeet
<1>3. RectContains(visible, drawn)
  BY DEF Trimmed
<1>4. Within(drawn)
  BY <1>2, <1>3, WithinPart
<1>5. ASSUME NEW p \in Cells, In(p, drawn)
      PROVE  Sampled(kept, drawn, flip, p) \in Cells
  <2>1. In(p, visible)
    BY <1>2, <1>3, <1>5, CellsIn DEF In, RectContains, Boxes
  <2>2. In(p, place)
    BY <1>1, <2>1, MeetIff
  <2>3. Sampled(source, place, flip, p) \in Cells
    BY <2>2, SampledInside
  <2>4. Sampled(kept, drawn, flip, p) = Sampled(source, place, flip, p)
    BY <1>5, <2>1 DEF Trimmed
  <2> QED
    BY <2>3, <2>4
<1>6. \A p \in Cells : p \in {q \in Cells : In(q, drawn)} => Sampled(kept, drawn, flip, p) \in Cells
  BY <1>5
<1> QED
  BY <1>4, <1>6, CopiedTypes

\* A copy the core draws is SDL's, skipped, trimmed or not.
LEMMA HardwarePicture ==
  ASSUME PictureInv, ContentInv', app' = app, command = Idle, command' = Idle, target' = target,
         NEW s \in Surfaces, s # target, NEW c \in Copies, NEW view \in Views,
         NEW mode \in Modes, NEW mod \in Pixels,
         c.source.w = c.destination.w, c.source.h = c.destination.h,
         HardwareCopy(s, c, view, mode, mod)
  PROVE  PictureInv'
<1> DEFINE place == Shift(c.destination, view.viewport)
           clip == EffectiveClip(view)
           clipped == ClipDraw(c.source, place, clip, c.flip)
           alphaSkip == mode = "blend" /\ track[s].alpha = "zero"
           alphaCopy == /\ mode = "blend" /\ track[s].alpha = "opaque"
                        /\ mod = [a |-> 2, c |-> 1] /\ ~c.flip.x /\ ~c.flip.y
           alpha == CopyAlphaState(track[target].alpha, clipped.visible,
                                   track[s].alpha, mod, mode)
           kept == IF Trims(track[s], clipped.source, c.flip, mode, alphaCopy)
                   THEN Meet(clipped.source, track[s].content) ELSE clipped.source
           drawn == IF kept = clipped.source THEN clipped.visible
                    ELSE Rect(clipped.visible.x + kept.x - clipped.source.x,
                              clipped.visible.y + kept.y - clipped.source.y, kept.w, kept.h)
           pixels == Copied(image[target], {p \in Cells : In(p, drawn)}, image[s], kept, drawn,
                            c.flip, IF alphaCopy THEN "none" ELSE mode, mod)
           whole == Copied(image[target], {p \in Cells : In(p, clipped.visible)}, image[s],
                           c.source, place, c.flip, mode, mod)
           expected == SdlCopy(s, c, view, mode, mod)
           ready == [track EXCEPT ![target] = EnsureGPU(@), ![s] = EnsureGPU(@)]
           grown == AddContent(ready[target], drawn)
           t == MarkGPUWriteState(grown, alpha)
           skipped == alphaSkip \/ Empty(kept)
<1>1. /\ target \in Surfaces /\ track \in [Surfaces -> Tracks]
      /\ track[target] \in Tracks /\ track[s] \in Tracks
      /\ Within(track[target].content)
      /\ image[target] \in Images /\ sdl[target] \in Images
      /\ image[s] \in Images /\ sdl[s] \in Images
      /\ failures = 0 => /\ image = sdl
                         /\ Right(track[s].alpha, image[s])
                         /\ Right(track[target].alpha, image[target])
                         /\ Known(track[s], image[s])
  BY DEF PictureInv, ContentInv, Typed, Running
<1>2. /\ place \in Boxes /\ clip \in Boxes /\ c.source \in Parts /\ c.source \in Boxes
      /\ c.flip \in Flips
  BY PlaceTypes DEF Copies, Flips
<1>3. c.source.w = place.w /\ c.source.h = place.h
  BY DEF Shift, Copies, Rectangles
<1>4. ready \in [Surfaces -> Tracks]
      /\ \A r \in Surfaces : ready[r].content = track[r].content /\ ready[r].alpha = track[r].alpha
  BY ReadyKeeps DEF PictureInv
<1>5. \/ /\ skipped /\ image' = [image EXCEPT ![target] = image[target]]
         /\ sdl' = [sdl EXCEPT ![target] = expected] /\ track' = track /\ failures' = failures
      \/ /\ ~skipped
         /\ track' = [ready EXCEPT ![target] = MarkGPUWriteState(AddContent(@, drawn), alpha)]
         /\ image' = [image EXCEPT ![target] = pixels]
         /\ sdl' = [sdl EXCEPT ![target] = expected] /\ failures' = failures
      \/ track' = ready /\ Fails(target, pixels)
  BY DEF HardwareCopy, Leaves
<1>6. ~Empty(Meet(place, clip))
  BY DEF HardwareCopy
<1>7. clipped.visible = Meet(place, clip) /\ clipped.visible \in Boxes /\ clipped.source \in Boxes
  <2> HIDE DEF place, clip
  <2>1. Meet(place, clip) \in Boxes
    BY <1>2, MeetType
  <2> QED
    BY <1>2, <2>1, ClipDrawn
<1>8. expected = Copied(sdl[target], Drawn(place, view), sdl[s], c.source, place, c.flip, mode, mod)
  BY DEF SdlCopy
<1>9. {p \in Cells : In(p, clipped.visible)} = Drawn(place, view)
  BY <1>2, <1>7, ClippedAsSdl
<1>10. failures = 0 => whole = expected
  BY <1>1, <1>8, <1>9
<1>11. failures = 0 => IF skipped THEN whole = image[target] ELSE whole = pixels
  <2> SUFFICES ASSUME failures = 0 PROVE IF skipped THEN whole = image[target] ELSE whole = pixels
    OBVIOUS
  <2>1. Known(track[s], image[s]) /\ Right(track[s].alpha, image[s])
    BY <1>1
  <2> HIDE DEF place, clip
  <2>2. Exact(track[s], image[s], image[target], c.source, place, clip, c.flip, mode, mod)
    BY <1>1, <1>2, <1>3, <1>6, <2>1, HardwareExact
  <2> QED
    BY <2>2 DEF Exact
<1>12. Trimmed(c.source, place, clipped.visible, c.flip, kept, drawn)
  <2> HIDE DEF place, clip
  <2> QED
    BY <1>1, <1>2, <1>3, HardwareTrim
<1>13. alpha \in Alphas
  BY <1>1, AlphaTypes DEF Tracks
<1>14. failures = 0 => Right(alpha, whole)
  <2>1. \A p \in Cells : In(p, clipped.visible) => In(p, place)
    BY <1>2, <1>7, MeetIff
  <2>2. track[s].alpha \in Alphas /\ track[target].alpha \in Alphas
    BY <1>1 DEF Tracks
  <2> HIDE DEF clipped, place, clip
  <2> QED
    BY <1>1, <1>2, <1>7, <2>1, <2>2, SdlCopyRight
<1> HIDE DEF alphaCopy, alpha, whole, clipped, place, clip
<1>15. kept \in Boxes
  BY <1>1, <1>7, MeetType DEF Tracks
<1>16. drawn \in Boxes
  <2> HIDE DEF kept
  <2>1. clipped.visible.x + kept.x - clipped.source.x \in Int
        /\ clipped.visible.y + kept.y - clipped.source.y \in Int
        /\ kept.w \in Int /\ kept.h \in Int
    BY <1>7, <1>15 DEF Boxes
  <2> QED
    BY <1>7, <2>1, RectangleTypes
<1> HIDE DEF kept, drawn
<1>17. Within(drawn) /\ pixels \in Images
  <2>1. clipped.visible = Meet(place, EffectiveClip(view))
    BY <1>7 DEF clip
  <2> QED
    BY <1>1, <1>2, <1>3, <1>12, <1>15, <1>16, <2>1, HardwareTypes
<1>18. expected \in Images
  <2>1. \A p \in Cells : p \in Drawn(place, view) => In(p, place)
    BY DEF Drawn
  <2>2. \A p \in Cells : p \in Drawn(place, view) => Sampled(c.source, place, c.flip, p) \in Cells
    BY <1>2, <2>1, SampledInside
  <2> HIDE DEF expected
  <2> QED
    BY <1>1, <1>8, <2>2, CopiedTypes
<1> HIDE DEF skipped, pixels, expected, ready
<1>19. grown \in Tracks /\ Within(grown.content)
  BY <1>1, <1>4, <1>16, <1>17, AddContentCovers, WithinAdd
<1>20. t.alpha = alpha /\ Within(t.content)
  BY <1>19 DEF MarkGPUWriteState, Tracks
<1>21. CASE /\ skipped /\ image' = [image EXCEPT ![target] = image[target]]
            /\ sdl' = [sdl EXCEPT ![target] = expected] /\ track' = track /\ failures' = failures
  BY <1>1, <1>10, <1>11, <1>18, <1>21, OnePicture
<1>22. CASE /\ ~skipped
            /\ track' = [ready EXCEPT ![target] = MarkGPUWriteState(AddContent(@, drawn), alpha)]
            /\ image' = [image EXCEPT ![target] = pixels]
            /\ sdl' = [sdl EXCEPT ![target] = expected] /\ failures' = failures
  <2>1. track'[target] = t
        /\ \A r \in Surfaces \ {target} :
             track'[r].content = track[r].content /\ track'[r].alpha = track[r].alpha
    BY <1>1, <1>4, <1>22
  <2> HIDE DEF t
  <2> QED
    BY <1>1, <1>10, <1>11, <1>14, <1>17, <1>18, <1>20, <1>22, <2>1, OnePicture
<1>23. CASE track' = ready /\ Fails(target, pixels)
  <2>1. \A r \in Surfaces : Within(track'[r].content)
    BY <1>4, <1>23 DEF PictureInv
  <2> QED
    BY <1>17, <1>23, <2>1, FailedPicture
<1> QED
  BY <1>5, <1>21, <1>22, <1>23

\* Either way of copying leaves SDL's pixels.
LEMMA CopyPicture ==
  ASSUME PictureInv, ContentInv', app' = app, NEW s \in Textures, NEW c \in Copies,
         NEW view \in Views, NEW mode \in Modes, NEW mod \in Pixels, Copy(s, c, view, mode, mod)
  PROVE  PictureInv'
<1>1. s \in Surfaces /\ command = Idle /\ command' = Idle /\ target' = target
  BY DEF Copy, Surfaces
<1>2. \/ SoftwareCopy(s, c, view, mode, mod)
      \/ /\ s # target /\ c.source.w = c.destination.w /\ c.source.h = c.destination.h
         /\ HardwareCopy(s, c, view, mode, mod)
  BY DEF Copy
<1> QED
  BY <1>1, <1>2, SoftwarePicture, HardwarePicture

-----------------------------------------------------------------------------

\* A new renderer's textures are transparent; the composition is unknown.
LEMMA PictureInit == Init => PictureInv
<1> SUFFICES ASSUME Init PROVE PictureInv
  OBVIOUS
<1>1. ContentInv
  BY ContentInit
<1>2. Blank \in Images /\ \A p \in Cells : Blank[p].a = 0
  BY DEF Blank, Images, Clear, Pixels
<1>3. /\ image = [s \in Surfaces |-> Blank] /\ sdl = image /\ command = Idle /\ failures = 0
      /\ app \in Applications
  BY DEF Init
<1>4. Within(Nothing) /\ Within(Whole)
  BY SizeAssumption DEF Within, Empty, Nothing, RectContains, Whole, Rect
<1>5. ASSUME NEW s \in Surfaces
      PROVE  track[s].content \in {Nothing, Whole} /\ track[s].alpha \in {"zero", "unknown"}
  <2>1. InitSurface(s).content \in {Nothing, Whole} /\ InitSurface(s).alpha = "zero"
    BY DEF InitSurface, ResetContent
  <2>2. MarkGPUWriteState(InitSurface(s), "unknown").content = InitSurface(s).content
        /\ MarkGPUWriteState(InitSurface(s), "unknown").alpha = "unknown"
    <3>1. InitSurface(s) \in Tracks
      BY InitSurfaceTrack
    <3> QED
      BY <3>1 DEF MarkGPUWriteState, Tracks
  <2>3. track[s] = IF s = Composition THEN MarkGPUWriteState(InitSurface(s), "unknown")
                   ELSE InitSurface(s)
    BY DEF Init
  <2> QED
    BY <2>1, <2>2, <2>3
<1>6. \A s \in Surfaces : Within(track[s].content) /\ Right(track[s].alpha, Blank)
  BY <1>2, <1>4, <1>5 DEF Right
<1>7. failures <= app.failures
  BY <1>3, InputsAssumption DEF Application
<1> QED
  BY <1>1, <1>2, <1>3, <1>6, <1>7 DEF PictureInv, Idle

\* Every call leaves SDL's pixels, and a true alpha_state.
LEMMA PictureCall ==
  ASSUME PictureInv, ContentInv', app' = app, Call
  PROVE  PictureInv'
<1>1. app \in Applications
  BY DEF PictureInv, ContentInv, Typed
<1>2. /\ app.textures \subseteq Textures /\ app.colors \subseteq Pixels
      /\ app.blends \subseteq Modes /\ app.mods \subseteq Pixels
      /\ app.views \subseteq Views /\ app.rects \subseteq Rectangles
      /\ app.copies \subseteq Copies /\ app.segments \subseteq Cells \X Cells
  BY <1>1, Inputs DEF Modes
<1>3. ASSUME NEW s \in app.textures,
             \/ RecreateTexture(s) \/ EvictSurface(s)
             \/ \E r \in app.rects, color \in app.colors : UpdateTexture(s, r, color)
      PROVE  PictureInv'
  BY <1>2, <1>3, RecreatePicture, EvictPicture, UpdatePicture
<1>4. ASSUME NEW s \in (app.textures \cap Targets) \cup {Composition}, SetRenderTarget(s)
      PROVE  PictureInv'
  <2>1. s \in Surfaces
    BY DEF Surfaces, Textures
  <2> QED
    BY <1>4, <2>1, TargetPicture
<1>5. ASSUME NEW color \in app.colors, RenderClear(color) PROVE PictureInv'
  BY <1>2, <1>5, ClearPicture
<1>6. ASSUME NEW view \in app.views, NEW color \in app.colors,
             \/ BeginOpaquePrimitives(view, color)
             \/ \E mode \in app.blends : BeginFillRects(view, mode, color)
      PROVE  PictureInv'
  <2>1. view \in Views /\ color \in Pixels /\ "none" \in Modes
    BY <1>2 DEF Modes
  <2>2. CASE BeginOpaquePrimitives(view, color)
    BY <2>1, <2>2, BeginPicture DEF BeginOpaquePrimitives
  <2>3. ASSUME NEW mode \in app.blends, BeginFillRects(view, mode, color) PROVE PictureInv'
    BY <1>2, <2>1, <2>3, BeginPicture DEF BeginFillRects
  <2> QED
    BY <1>6, <2>2, <2>3
<1>7. ASSUME NEW view \in app.views, NEW color \in app.colors, NEW mode, NEW l \in app.segments,
             \/ PrimitiveFallback(view, {l[1], l[2]}, mode, color)
             \/ Geometry(view, {l[1], l[2]}, mode, color)
      PROVE  PictureInv'
  <2>1. l[1] \in Cells /\ l[2] \in Cells /\ {l[1], l[2]} \in SUBSET Cells
    BY <1>2
  <2> QED
    BY <1>2, <1>7, <2>1, FallbackPicture, GeometryPicture
<1>8. ASSUME NEW r \in app.rects, FillRect(r) PROVE PictureInv'
  BY <1>2, <1>8, FillRectPicture
<1>9. ASSUME NEW l \in app.segments, OpaqueSegment(l[1], l[2]) PROVE PictureInv'
  <2>1. l[1] \in Cells /\ l[2] \in Cells
    BY <1>2
  <2> QED
    BY <1>9, <2>1, SegmentPicture
<1>10. ASSUME NEW s \in app.textures, NEW c \in app.copies, NEW view \in app.views,
              NEW mode \in app.blends, NEW mod \in app.mods, Copy(s, c, view, mode, mod)
       PROVE  PictureInv'
  BY <1>2, <1>10, CopyPicture
<1> QED
  BY <1>3, <1>4, <1>5, <1>6, <1>7, <1>8, <1>9, <1>10, PresentPicture, EndPicture DEF Call

\* Every step leaves SDL's pixels.
LEMMA PictureStep ==
  ASSUME PictureInv, [Next]_vars
  PROVE  PictureInv'
<1>1. ContentInv'
  BY ContentStep DEF PictureInv
<1>2. CASE UNCHANGED vars
  BY <1>1, <1>2 DEF vars, PictureInv, Running
<1>3. CASE Next
  BY <1>1, <1>3, PictureCall DEF Next
<1> QED
  BY <1>2, <1>3

\* So they are in every state.
LEMMA PictureAlways == Spec => []PictureInv
BY PictureInit, PictureStep, PTL DEF Spec

(* Pixels are pixels, and every content rectangle is on its surface: what  *)
(* OpaqueFillRegion and RunCopy trim a draw to is never off the texture.   *)
THEOREM SurfaceTypes == Spec => []TypeOK
<1>1. PictureInv => TypeOK
  <2> SUFFICES ASSUME PictureInv PROVE TypeOK
    OBVIOUS
  <2>1. /\ app \in Applications /\ track \in [Surfaces -> Tracks] /\ target \in Surfaces
        /\ \A s \in Surfaces : track[s].tracked = (s # Composition)
        /\ command \in {Idle} \cup Commands /\ failures \in Nat
    BY DEF PictureInv, ContentInv, Typed
  <2>2. command.kind \in {"idle", "fill", "lines"}
    BY <2>1 DEF Idle, Commands
  <2>3. app.failures \in Nat
    BY <2>1, InputsAssumption DEF Application
  <2>4. failures \in 0 .. app.failures
    BY <2>1, <2>3 DEF PictureInv
  <2> QED
    BY <2>1, <2>2, <2>4 DEF TypeOK, PictureInv, Within, Tracks
<1> QED
  BY <1>1, PictureAlways, PTL

(* As long as no submission fails, a surface NOODLES_AlphaState calls      *)
(* transparent (opaque) has only transparent (opaque) pixels, during a     *)
(* command too: copies may be skipped, and blends turned into copies.      *)
THEOREM AlphaStaysTrue == Spec => []AlphaTrue
<1>1. PictureInv => AlphaTrue
  BY DEF PictureInv, AlphaTrue, AlphaKnown, Running, Right
<1> QED
  BY <1>1, PictureAlways, PTL

(* As long as no submission fails, every surface has the pixels SDL's own  *)
(* definition of the same calls leaves: no draw that is skipped, trimmed,  *)
(* clipped or replaced by another shows.                                   *)
THEOREM DrawsAsSdl == Spec => []DrawnAsSdl
<1>1. PictureInv => DrawnAsSdl
  BY DEF PictureInv, DrawnAsSdl
<1> QED
  BY <1>1, PictureAlways, PTL

=============================================================================
