--------------------------- MODULE SurfaceTracking ---------------------------
(***************************************************************************)
(* What the Noodles SDL renderer remembers about the pixels of a surface,  *)
(* and the work it saves by it: whether all of them are transparent or all *)
(* opaque (alpha_state), and a rectangle (content) outside of which every  *)
(* pixel has one known value (outside_pixel).  Draws of transparent        *)
(* sources are skipped, blends of opaque ones become copies, fills and     *)
(* copies are trimmed to the content.                                      *)
(*                                                                         *)
(* A surface's image is the copy that is current, as Coherence describes;  *)
(* sdl is the image SDL's own definition of the same calls leaves.         *)
(***************************************************************************)
EXTENDS Integers

CONSTANTS
  Streaming,     \* textures that are only updated and copied from
  Targets,       \* textures SDL may render to as well
  Composition,   \* the default target, which is not tracked
  Width, Height, \* size of every surface
  Applications   \* what applications draw with, see Application

Textures == Streaming \cup Targets
Surfaces == Textures \cup {Composition}
Cells == (0 .. Width - 1) \X (0 .. Height - 1)

Rectangles == [x : Int, y : Int, w : Nat, h : Nat]

\* A pixel: its alpha (none, some, full) and whether it is black.
Pixels == [a : 0 .. 2, c : 0 .. 1]
Clear == [a |-> 0, c |-> 0]
Alphas == {"zero", "opaque", "unknown"}
Images == [Cells -> Pixels]

ASSUME SurfacesAssumption == Composition \notin Textures
ASSUME SizeAssumption == Width \in Nat \ {0} /\ Height \in Nat \ {0}

\* The parts of a surface: to these SDL clips what is updated or copied of it.
Parts ==
  {r \in Rectangles : r.w > 0 /\ r.h > 0 /\ r.x >= 0 /\ r.x + r.w <= Width
                                         /\ r.y >= 0 /\ r.y + r.h <= Height}

\* The textures it uses, the pixels it uploads and fills with, its blend
\* modes and modulations, viewports with clip rectangles, rectangles filled
\* and updated, copies with their flip, lines from first to last point; and
\* the bound on the submissions the device fails meanwhile.
Application ==
  [textures : SUBSET Textures, colors : SUBSET Pixels,
   blends : SUBSET {"none", "blend", "add", "mod", "custom"}, mods : SUBSET Pixels,
   views : SUBSET [viewport : Rectangles, clip : Rectangles, enabled : BOOLEAN],
   rects : SUBSET Rectangles,
   copies : SUBSET [source : Parts, destination : Rectangles, flip : [x : BOOLEAN, y : BOOLEAN]],
   segments : SUBSET (Cells \X Cells), failures : Nat]

ASSUME InputsAssumption == Applications \subseteq Application

VARIABLES
  app,      \* the application, one of Applications
  image,    \* the current pixels of each surface
  sdl,      \* the pixels SDL's definition of the calls gives it (history)
  track,    \* content, outside_pixel, alpha_state and gpu_valid of each surface
  target,   \* data->target
  command,  \* the fill or line command RunCommandQueue is in
  failures

vars == <<app, image, sdl, track, target, command, failures>>

-----------------------------------------------------------------------------
(***************************************************************************)
(* Rectangles, as SDL's SDL_rect functions treat them.                     *)
(***************************************************************************)

Larger(a, b) == IF a > b THEN a ELSE b
Smaller(a, b) == IF a < b THEN a ELSE b

Rect(x, y, w, h) == [x |-> x, y |-> y, w |-> w, h |-> h]
Nothing == Rect(0, 0, 0, 0)
Whole == Rect(0, 0, Width, Height)
Empty(r) == r.w <= 0 \/ r.h <= 0
Shift(r, by) == [r EXCEPT !.x = @ + by.x, !.y = @ + by.y]

In(p, r) ==
  /\ r.x <= p[1] /\ p[1] < r.x + r.w
  /\ r.y <= p[2] /\ p[2] < r.y + r.h

\* SDL_IntersectRect; it returns false when the intersection is Empty.
Meet(a, b) ==
  LET x == Larger(a.x, b.x)  y == Larger(a.y, b.y) IN
  Rect(x, y, Smaller(a.x + a.w, b.x + b.w) - x, Smaller(a.y + a.h, b.y + b.h) - y)

\* SDL_UnionRect
Hull(a, b) ==
  LET x == Smaller(a.x, b.x)  y == Smaller(a.y, b.y) IN
  Rect(x, y, Larger(a.x + a.w, b.x + b.w) - x, Larger(a.y + a.h, b.y + b.h) - y)

FullRect(r) == r = Whole

RectContains(outer, inner) ==
  /\ inner.x >= outer.x /\ inner.x + inner.w <= outer.x + outer.w
  /\ inner.y >= outer.y /\ inner.y + inner.h <= outer.y + outer.h

EffectiveClip(view) ==
  LET bounds == Meet(Whole, view.viewport) IN
  IF view.enabled THEN Meet(bounds, Shift(view.clip, view.viewport)) ELSE bounds

\* The visible part of an unscaled copy, and the part of the source in it.
ClipDraw(source, destination, clip, flip) ==
  LET visible == Meet(destination, clip)
      left == visible.x - destination.x
      top == visible.y - destination.y
      right == destination.x + destination.w - (visible.x + visible.w)
      bottom == destination.y + destination.h - (visible.y + visible.h)
  IN [visible |-> visible,
      source |-> Rect(source.x + (IF flip.x THEN right ELSE left),
                      source.y + (IF flip.y THEN bottom ELSE top),
                      visible.w, visible.h)]

-----------------------------------------------------------------------------
(***************************************************************************)
(* Blending.  SDL defines the modes and the core computes them alike.      *)
(***************************************************************************)

Modulated(p, mod) ==
  [a |-> IF mod.a = 2 THEN p.a ELSE Smaller(p.a, mod.a),
   c |-> IF mod.c = 1 THEN p.c ELSE 0]

\* Mod stands for MUL as well; custom is the sum of both with their alpha.
Blended(mode, s, d) ==
  CASE mode = "none" -> s
    [] mode = "blend" ->
         IF s.a = 0 THEN d ELSE IF s.a = 2 THEN s
         ELSE [a |-> Larger(d.a, 1), c |-> Larger(s.c, d.c)]
    [] mode = "add" -> IF s.a = 0 THEN d ELSE [d EXCEPT !.c = Larger(s.c, @)]
    [] mode = "mod" -> [d EXCEPT !.c = Smaller(s.c, @)]
    [] OTHER -> [a |-> Larger(s.a, d.a), c |-> Larger(s.c, d.c)]

\* An unblended fill.
Wiped(old, cells, color) == [p \in Cells |-> IF p \in cells THEN color ELSE old[p]]

\* The source pixel that a copy (scaled, flipped) puts at p.
Sampled(source, destination, flip, p) ==
  LET i == p[1] - destination.x
      j == p[2] - destination.y
      u == IF flip.x THEN destination.w - 1 - i ELSE i
      v == IF flip.y THEN destination.h - 1 - j ELSE j
  IN <<source.x + (u * source.w) \div destination.w,
       source.y + (v * source.h) \div destination.h>>

Filled(old, cells, mode, color) ==
  [p \in Cells |-> IF p \in cells THEN Blended(mode, color, old[p]) ELSE old[p]]

Copied(old, cells, from, source, destination, flip, mode, mod) ==
  [p \in Cells |->
     IF p \in cells
     THEN Blended(mode, Modulated(from[Sampled(source, destination, flip, p)], mod), old[p])
     ELSE old[p]]

\* What SDL draws of rectangle r: clip rectangles move with the viewport.
Drawn(r, view) ==
  {p \in Cells : /\ In(p, r) /\ In(p, view.viewport)
                 /\ view.enabled => In(p, Shift(view.clip, view.viewport))}

-----------------------------------------------------------------------------
(***************************************************************************)
(* The tracked state t of a surface, and the functions that maintain it.   *)
(***************************************************************************)

AlphaFromByte(a) == IF a = 0 THEN "zero" ELSE IF a = 2 THEN "opaque" ELSE "unknown"

ClassifyPixels(pixels, r) ==
  LET alphas == {pixels[p].a : p \in {q \in Cells : In(q, r)}} IN
  IF alphas = {0} THEN "zero" ELSE IF alphas = {2} THEN "opaque" ELSE "unknown"

UpdateAlphaPixels(alpha, r, pixels) ==
  LET incoming == ClassifyPixels(pixels, r) IN
  IF FullRect(r) \/ alpha = incoming THEN incoming ELSE "unknown"

FillAlphaState(current, r, a, mode) ==
  LET source == AlphaFromByte(a) IN
  CASE mode = "none" ->
         IF FullRect(r) \/ current = source THEN source ELSE "unknown"
    [] mode = "blend" ->
         IF current = "opaque" \/ source = "zero" THEN current
         ELSE IF FullRect(r) /\ source = "opaque" THEN "opaque" ELSE "unknown"
    [] mode \in {"add", "mod"} -> current
    [] OTHER -> "unknown"

\* Slip: an opaque source blended over part of a surface makes it opaque.
CopyAlphaState_Part(current, r, source, mod, mode) ==
  LET output == IF source = "zero" THEN "zero"
                ELSE IF source = "opaque" /\ mod.a = 2 THEN "opaque" ELSE "unknown"
  IN CASE mode = "none" -> IF FullRect(r) \/ current = output THEN output ELSE "unknown"
       [] mode = "blend" ->
            IF source = "zero" THEN current
            ELSE IF current = "opaque" \/ output = "opaque" THEN "opaque" ELSE "unknown"
       [] mode \in {"add", "mod"} -> current
       [] OTHER -> "unknown"

CopyAlphaState(current, r, source, mod, mode) ==
  LET output == IF source = "zero" THEN "zero"
                ELSE IF source = "opaque" /\ mod.a = 2 THEN "opaque" ELSE "unknown"
  IN CASE mode = "none" -> IF FullRect(r) \/ current = output THEN output ELSE "unknown"
       [] mode = "blend" ->
            IF source = "zero" THEN current
            ELSE IF current = "opaque" \/ (FullRect(r) /\ output = "opaque")
            THEN "opaque" ELSE "unknown"
       [] mode \in {"add", "mod"} -> current
       [] OTHER -> "unknown"

ResetContent(t, color) ==
  IF t.tracked THEN [t EXCEPT !.content = Nothing, !.outside = color] ELSE t

\* Slip: the new rectangle replaces the content.
AddContent_Replaces(t, r) ==
  IF ~t.tracked \/ Empty(r) THEN t ELSE [t EXCEPT !.content = r]

AddContent(t, r) ==
  IF ~t.tracked \/ Empty(r) THEN t
  ELSE [t EXCEPT !.content = IF Empty(@) THEN r ELSE Hull(@, r)]

\* Slip: fills of the known value are trimmed on an out-of-date surface too.
OpaqueFillRegion_Stale(t, r, color) ==
  IF t.tracked /\ color = t.outside /\ RectContains(r, t.content)
  THEN [track |-> [t EXCEPT !.content = Nothing], write |-> t.content,
        needed |-> ~Empty(t.content)]
  ELSE [track |-> IF FullRect(r) THEN ResetContent(t, color) ELSE AddContent(t, r),
        write |-> r, needed |-> TRUE]

\* What an unblended fill of r still has to write.
OpaqueFillRegion(t, r, color) ==
  IF t.tracked /\ t.gpuValid /\ color = t.outside /\ RectContains(r, t.content)
  THEN [track |-> [t EXCEPT !.content = Nothing], write |-> t.content,
        needed |-> ~Empty(t.content)]
  ELSE [track |-> IF FullRect(r) THEN ResetContent(t, color) ELSE AddContent(t, r),
        write |-> r, needed |-> TRUE]

EnsureGPU(t) == [t EXCEPT !.gpuValid = TRUE]
MarkGPUWriteState(t, alpha) == [t EXCEPT !.gpuValid = TRUE, !.alpha = alpha]
MarkCPUWrite(t) == [t EXCEPT !.gpuValid = FALSE, !.alpha = "unknown"]
CommitCPURegion(t, r) == AddContent([t EXCEPT !.gpuValid = TRUE, !.alpha = "unknown"], r)

\* InitSurface: all pixels zero, and known to be.
InitSurface(s) ==
  ResetContent([content |-> Whole, outside |-> Clear, alpha |-> "zero",
                gpuValid |-> FALSE, tracked |-> s # Composition], Clear)

-----------------------------------------------------------------------------

Blank == [p \in Cells |-> Clear]
Idle == [kind |-> "idle"]

\* CreateRenderer presents once: the composition is a display buffer.
Init ==
  /\ app \in Applications
  /\ image = [s \in Surfaces |-> Blank]
  /\ sdl = image
  /\ track = [s \in Surfaces |->
       IF s = Composition THEN MarkGPUWriteState(InitSurface(s), "unknown") ELSE InitSurface(s)]
  /\ target = Composition
  /\ command = Idle
  /\ failures = 0

\* What the core has of a surface: pixels of no use until it is uploaded.
Device(s) ==
  IF track[s].gpuValid THEN image[s] ELSE [p \in Cells |-> [a |-> 1, c |-> 1]]

\* One surface is left with these pixels, and SDL with those.
Leaves(s, pixels, expected) ==
  /\ image' = [image EXCEPT ![s] = pixels]
  /\ sdl' = [sdl EXCEPT ![s] = expected]

\* A submission fails: it is lost, or the batch that holds it is kept and
\* drawn later.  SDL promises nothing of the surface any more.
Fails(s, pixels) ==
  /\ failures < app.failures
  /\ failures' = failures + 1
  /\ command' = Idle
  /\ \E left \in {image[s]} \cup (IF track'[s].gpuValid THEN {pixels} ELSE {}) :
       Leaves(s, left, left)

RecreateTexture(s) ==
  /\ command = Idle /\ s # target
  /\ track' = [track EXCEPT ![s] = InitSurface(s)]
  /\ Leaves(s, Blank, Blank)
  /\ UNCHANGED <<target, command, failures>>

\* Also the end of a lock: the pixels written through it are the update.
UpdateTexture(s, r, color) ==
  /\ command = Idle /\ r \in Parts
  /\ LET cells == {p \in Cells : In(p, r)}
         pixels == Wiped(image[s], cells, color)
         known == AddContent([track[s] EXCEPT !.alpha = UpdateAlphaPixels(@, r, pixels)], r)
     IN /\ \E uploaded \in {FALSE, track[s].gpuValid} :
             track' = [track EXCEPT ![s] = [known EXCEPT !.gpuValid = uploaded]]
        /\ Leaves(s, pixels, Wiped(sdl[s], cells, color))
  /\ UNCHANGED <<target, command, failures>>

EvictSurface(s) ==
  /\ command = Idle /\ s # target
  /\ track[s].gpuValid
  /\ track' = [track EXCEPT ![s].gpuValid = FALSE]
  /\ UNCHANGED <<image, sdl, target, command, failures>>

SetRenderTarget(s) ==
  /\ command = Idle
  /\ target' = s
  /\ UNCHANGED <<image, sdl, track, command, failures>>

\* The core turns to another display buffer, of some earlier frame.
RenderPresent ==
  /\ command = Idle
  /\ track' = [track EXCEPT ![Composition] = MarkGPUWriteState(@, "unknown")]
  /\ \E color \in app.colors : LET older == [p \in Cells |-> color] IN
       Leaves(Composition, older, older)
  /\ UNCHANGED <<target, command, failures>>

RenderClear(color) ==
  LET region == OpaqueFillRegion(track[target], Whole, color)
      pixels == IF region.needed
                THEN Wiped(Device(target), {p \in Cells : In(p, region.write)}, color)
                ELSE Device(target)
  IN /\ command = Idle
     /\ \/ /\ track' = [track EXCEPT ![target] =
                         MarkGPUWriteState(region.track, AlphaFromByte(color.a))]
           /\ Leaves(target, pixels, [p \in Cells |-> color])
           /\ UNCHANGED <<command, failures>>
        \/ /\ region.needed
           /\ track' = [track EXCEPT ![target] = region.track]
           /\ Fails(target, pixels)
     /\ UNCHANGED target

-----------------------------------------------------------------------------
(***************************************************************************)
(* SDL_RENDERCMD_FILL_RECTS and opaque points and lines: one step for each *)
(* rectangle, point or segment, with alpha_state and drew in locals that   *)
(* reach the surface when the command ends.                                *)
(***************************************************************************)

Begin(kind, view, mode, color) ==
  /\ command = Idle
  /\ ~Empty(EffectiveClip(view))
  /\ command' = [kind |-> kind, view |-> view, blend |-> mode, color |-> color,
                 alpha |-> track[target].alpha, drew |-> FALSE]
  /\ track' = [track EXCEPT ![target] = EnsureGPU(@)]
  /\ UNCHANGED <<image, sdl, target, failures>>

BeginFillRects(view, mode, color) == Begin("fill", view, mode, color)
BeginOpaquePrimitives(view, color) == Begin("lines", view, "none", color)

\* The locals after one more rectangle.
Account(r) ==
  command' = [command EXCEPT !.drew = TRUE,
                !.alpha = FillAlphaState(@, r, command.color.a, command.blend)]

FillRect(r) ==
  LET visible == Meet(Shift(r, command.view.viewport), EffectiveClip(command.view))
      region == OpaqueFillRegion(track[target], visible, command.color)
      opaque == command.blend = "none"
      pixels == IF opaque
                THEN Wiped(Device(target), {p \in Cells : In(p, region.write)}, command.color)
                ELSE Filled(Device(target), {p \in Cells : In(p, visible)},
                            command.blend, command.color)
      expected == Filled(sdl[target], Drawn(Shift(r, command.view.viewport), command.view),
                         command.blend, command.color)
  IN /\ command.kind = "fill"
     /\ ~Empty(visible)
     /\ \/ /\ opaque
           /\ track' = [track EXCEPT ![target] = region.track]
           /\ IF region.needed THEN Leaves(target, pixels, expected)
              ELSE Leaves(target, Device(target), expected)
           /\ Account(visible)
           /\ UNCHANGED failures
        \/ /\ ~opaque
           /\ track' = [track EXCEPT ![target] = AddContent(@, visible)]
           /\ Leaves(target, pixels, expected)
           /\ Account(visible)
           /\ UNCHANGED failures
        \/ /\ ~opaque \/ region.needed
           /\ track' = [track EXCEPT ![target] = IF opaque THEN region.track ELSE @]
           /\ Fails(target, pixels)
     /\ UNCHANGED target

\* A point, or a horizontal, vertical or diagonal line from a to b (a point:
\* a = b) within the clip; the others are clipped away or a PrimitiveFallback.
OpaqueSegment(a, b) ==
  LET clip == EffectiveClip(command.view)
      box == Rect(Smaller(a[1], b[1]), Smaller(a[2], b[2]),
                  Larger(a[1], b[1]) - Smaller(a[1], b[1]) + 1,
                  Larger(a[2], b[2]) - Smaller(a[2], b[2]) + 1)
      diagonal == box.w = box.h /\ box.w > 1
      cells == {p \in Cells : /\ In(p, box)
                              /\ diagonal => (p[1] - a[1]) * (b[2] - a[2])
                                           = (p[2] - a[2]) * (b[1] - a[1])}
      last == IF diagonal THEN Rect(b[1], b[2], 1, 1) ELSE box
      pixels == Wiped(Device(target), cells, command.color)
  IN /\ command.kind = "lines"
     /\ In(a, clip) /\ In(b, clip)
     /\ diagonal \/ box.w = 1 \/ box.h = 1
     /\ \/ /\ track' = [track EXCEPT ![target] = AddContent(@, box)]
           /\ Leaves(target, pixels, Wiped(sdl[target], cells, command.color))
           /\ Account(last)
           /\ UNCHANGED failures
        \/ /\ UNCHANGED track
           /\ \E part \in IF diagonal THEN {{a}, cells} ELSE {cells} :
                Fails(target, Wiped(Device(target), part, command.color))
     /\ UNCHANGED target

EndCommand ==
  /\ command # Idle
  /\ command' = Idle
  /\ track' = IF command.drew
              THEN [track EXCEPT ![target] = MarkGPUWriteState(@, command.alpha)]
              ELSE track
  /\ UNCHANGED <<image, sdl, target, failures>>

\* Blended points and lines, and lines of other slopes: SDL draws them in the
\* shadow, between the points' bounds and the clip.
PrimitiveFallback(view, points, mode, color) ==
  LET clip == EffectiveClip(view)
      xs == {p[1] : p \in points}
      ys == {p[2] : p \in points}
      least(S) == CHOOSE i \in S : \A j \in S : i <= j
      most(S) == CHOOSE i \in S : \A j \in S : i >= j
      region == Meet(clip, Rect(least(xs), least(ys), most(xs) - least(xs) + 1,
                                most(ys) - least(ys) + 1))
      cells == {p \in points : In(p, clip)}
  IN /\ command = Idle
     /\ ~Empty(clip) /\ ~Empty(region)
     /\ track' = [track EXCEPT ![target] = CommitCPURegion(@, region)]
     /\ Leaves(target, Filled(image[target], cells, mode, color),
                       Filled(sdl[target], points \cap Drawn(Whole, view), mode, color))
     /\ UNCHANGED <<target, command, failures>>

\* Triangles are drawn in the shadow; the content is the whole surface.
Geometry(view, cells, mode, color) ==
  LET clip == EffectiveClip(view)
      drawn == {p \in cells : In(p, clip)}
  IN /\ command = Idle
     /\ ~Empty(clip)
     /\ track' = [track EXCEPT ![target] = MarkCPUWrite([@ EXCEPT !.content = Whole])]
     /\ Leaves(target, Filled(image[target], drawn, mode, color),
                       Filled(sdl[target], cells \cap Drawn(Whole, view), mode, color))
     /\ UNCHANGED <<target, command, failures>>

-----------------------------------------------------------------------------
(***************************************************************************)
(* Copies of texture s: of rectangle c.source to c.destination of the      *)
(* target, in blend mode mode, modulated by mod.                           *)
(***************************************************************************)

SdlCopy(s, c, view, mode, mod) ==
  LET place == Shift(c.destination, view.viewport) IN
  Copied(sdl[target], Drawn(place, view), sdl[s], c.source, place, c.flip, mode, mod)

\* Slip: the content grows by the part of the copy that is clipped away too.
SoftwareCopy_Unclipped(s, c, view, mode, mod) ==
  LET place == Shift(c.destination, view.viewport)
      visible == Meet(place, EffectiveClip(view))
  IN /\ mode # "custom" /\ ~Empty(EffectiveClip(view))
     /\ track' = [track EXCEPT ![target] = MarkCPUWrite(AddContent(@, place))]
     /\ Leaves(target,
               Copied(image[target], {p \in Cells : In(p, visible)}, image[s],
                      c.source, place, c.flip, mode, mod),
               SdlCopy(s, c, view, mode, mod))
     /\ UNCHANGED failures

\* Scaled copies, and copies of a surface to itself, by SDL in the shadows.
SoftwareCopy(s, c, view, mode, mod) ==
  LET place == Shift(c.destination, view.viewport)
      visible == Meet(place, EffectiveClip(view))
  IN /\ mode # "custom" /\ ~Empty(EffectiveClip(view))
     /\ track' = [track EXCEPT ![target] = MarkCPUWrite(AddContent(@, visible))]
     /\ Leaves(target,
               Copied(image[target], {p \in Cells : In(p, visible)}, image[s],
                      c.source, place, c.flip, mode, mod),
               SdlCopy(s, c, view, mode, mod))
     /\ UNCHANGED failures

\* The part of the visible source that is copied: under BLEND and ADD, what
\* lies outside of the content is transparent and changes nothing.
Trims(t, source, flip, mode, alphaCopy) ==
  /\ ~alphaCopy /\ ~flip.x /\ ~flip.y
  /\ t.tracked /\ mode \in {"blend", "add"} /\ t.outside.a = 0
  /\ ~RectContains(t.content, source)

\* RunCopy of an unscaled copy from another texture.
HardwareCopy(s, c, view, mode, mod) ==
  LET place == Shift(c.destination, view.viewport)
      clip == EffectiveClip(view)
      clipped == ClipDraw(c.source, place, clip, c.flip)
      alphaSkip == mode = "blend" /\ track[s].alpha = "zero"
      alphaCopy == /\ mode = "blend" /\ track[s].alpha = "opaque"
                   /\ mod = [a |-> 2, c |-> 1] /\ ~c.flip.x /\ ~c.flip.y
      targetAlpha == CopyAlphaState(track[target].alpha, clipped.visible,
                                    track[s].alpha, mod, mode)
      kept == IF Trims(track[s], clipped.source, c.flip, mode, alphaCopy)
              THEN Meet(clipped.source, track[s].content) ELSE clipped.source
      drawn == IF kept = clipped.source THEN clipped.visible
               ELSE Rect(clipped.visible.x + kept.x - clipped.source.x,
                         clipped.visible.y + kept.y - clipped.source.y, kept.w, kept.h)
      pixels == Copied(image[target], {p \in Cells : In(p, drawn)}, image[s], kept, drawn,
                       c.flip, IF alphaCopy THEN "none" ELSE mode, mod)
      ready == [track EXCEPT ![target] = EnsureGPU(@), ![s] = EnsureGPU(@)]
      skipped == alphaSkip \/ Empty(kept)
  IN /\ ~Empty(clip) /\ ~Empty(Meet(place, clip))
     /\ \/ /\ skipped
           /\ Leaves(target, image[target], SdlCopy(s, c, view, mode, mod))
           /\ UNCHANGED <<track, failures>>
        \/ /\ ~skipped
           /\ track' = [ready EXCEPT ![target] =
                          MarkGPUWriteState(AddContent(@, drawn), targetAlpha)]
           /\ Leaves(target, pixels, SdlCopy(s, c, view, mode, mod))
           /\ UNCHANGED failures
        \/ /\ ~skipped
           /\ track' = ready
           /\ Fails(target, pixels)

Copy(s, c, view, mode, mod) ==
  /\ command = Idle
  /\ IF c.source.w # c.destination.w \/ c.source.h # c.destination.h \/ s = target
     THEN SoftwareCopy(s, c, view, mode, mod)
     ELSE HardwareCopy(s, c, view, mode, mod)
  /\ UNCHANGED <<target, command>>

Call ==
  \/ \E s \in app.textures :
       \/ RecreateTexture(s)
       \/ EvictSurface(s)
       \/ \E r \in app.rects, color \in app.colors : UpdateTexture(s, r, color)
  \/ \E s \in (app.textures \cap Targets) \cup {Composition} : SetRenderTarget(s)
  \/ RenderPresent
  \/ \E color \in app.colors : RenderClear(color)
  \/ \E view \in app.views, color \in app.colors :
       \/ BeginOpaquePrimitives(view, color)
       \/ \E mode \in app.blends : BeginFillRects(view, mode, color)
       \/ \E mode \in app.blends \ {"custom"}, l \in app.segments :
            PrimitiveFallback(view, {l[1], l[2]}, mode, color)
       \/ \E mode \in app.blends \ {"custom"}, l \in app.segments :
            Geometry(view, {l[1], l[2]}, mode, color)
  \/ \E r \in app.rects : FillRect(r)
  \/ \E l \in app.segments : OpaqueSegment(l[1], l[2])
  \/ EndCommand
  \/ \E s \in app.textures, c \in app.copies, view \in app.views :
       \E mode \in app.blends, mod \in app.mods : Copy(s, c, view, mode, mod)

Next == UNCHANGED app /\ Call

Spec == Init /\ [][Next]_vars

-----------------------------------------------------------------------------
(* Types.                                                                  *)
TypeOK ==
  /\ image \in [Surfaces -> Images] /\ sdl \in [Surfaces -> Images]
  /\ \A s \in Surfaces :
       /\ track[s].alpha \in Alphas /\ track[s].outside \in Pixels
       /\ track[s].gpuValid \in BOOLEAN /\ track[s].tracked = (s # Composition)
       /\ Empty(track[s].content) \/ RectContains(Whole, track[s].content)
  /\ target \in Surfaces
  /\ command.kind \in {"idle", "fill", "lines"}
  /\ failures \in 0 .. app.failures

(* The comment of NOODLES_TextureData.content: every pixel outside content *)
(* equals outside_pixel.                                                   *)
ContentKnown ==
  \A s \in Textures, p \in Cells :
    In(p, track[s].content) \/ image[s][p] = track[s].outside

(* A surface said to be transparent (opaque) has no pixel that is not.     *)
(* While a command runs, its alpha_state local speaks for the target.      *)
AlphaKnown ==
  \A s \in Surfaces, p \in Cells :
    LET alpha == IF command # Idle /\ s = target /\ command.drew
                 THEN command.alpha ELSE track[s].alpha
    IN /\ alpha = "zero" => image[s][p].a = 0
       /\ alpha = "opaque" => image[s][p].a = 2

(* No draw that is skipped, replaced by a copy, clipped or trimmed leaves  *)
(* other pixels than SDL's definition of the call.                         *)
DrawnAsSdl == failures = 0 => image = sdl

(* As long as the device fails no submission, the content is true: fills  *)
(* and copies may be trimmed to it.                                        *)
ContentTrue == failures = 0 => ContentKnown

(* As long as the device fails no submission, alpha_state is true: draws   *)
(* may be skipped, and blends replaced by copies.                          *)
AlphaTrue == failures = 0 => AlphaKnown

=============================================================================
