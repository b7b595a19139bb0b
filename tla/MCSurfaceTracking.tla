-------------------------- MODULE MCSurfaceTracking --------------------------
(***************************************************************************)
(* Model checking of SurfaceTracking: five applications.                   *)
(***************************************************************************)
EXTENDS SurfaceTracking

CONSTANTS t1, t2, screen

Tint == [a |-> 0, c |-> 1]
Solid == [a |-> 2, c |-> 1]
Half == [a |-> 1, c |-> 1]
Straight == [x |-> FALSE, y |-> FALSE]
Unclipped == [viewport |-> Whole, clip |-> Nothing, enabled |-> FALSE]
RightCorner ==
  [viewport |-> Rect(1, 0, Width, Height), clip |-> Rect(0, 0, 1, 1), enabled |-> TRUE]

Corner == Rect(0, 0, 1, 1)
RightColumn == Rect(1, 0, 1, 2)
BottomRow == Rect(0, 1, 2, 1)
Diagonal == << <<0, 0>>, <<1, 1>> >>
Point == << <<0, 1>>, <<0, 1>> >>

CopyOf(source, destination, flip) ==
  [source |-> source, destination |-> destination, flip |-> flip]

\* Clears, fills, lines and whole or mirrored copies, through two views.
Fills ==
  [textures |-> {t1}, colors |-> {Clear, Solid}, blends |-> {"none", "blend"},
   mods |-> {Solid}, views |-> {Unclipped, RightCorner},
   rects |-> {Whole, RightColumn}, segments |-> {Diagonal}, failures |-> 0,
   copies |-> {CopyOf(Whole, Whole, Straight),
               CopyOf(Whole, Rect(-1, 0, 2, 2), [x |-> TRUE, y |-> TRUE])}]

\* Coloured transparent pixels, which ADD and a custom mode tell from clear.
Tints ==
  [textures |-> {t1}, colors |-> {Tint, Solid}, blends |-> {"none", "add", "custom"},
   mods |-> {Solid}, views |-> {Unclipped}, rects |-> {Whole, Corner}, segments |-> {},
   failures |-> 0,
   copies |-> {CopyOf(Whole, Whole, Straight), CopyOf(BottomRow, Rect(0, 0, 2, 1), Straight)}]

\* Modulated and scaled copies.
Modulations ==
  [textures |-> {t1}, colors |-> {Clear, Solid}, blends |-> {"none", "blend", "mod"},
   mods |-> {Solid, Half}, views |-> {Unclipped}, rects |-> {Whole, RightColumn}, segments |-> {},
   failures |-> 0,
   copies |-> {CopyOf(Whole, Whole, Straight), CopyOf(Corner, RightColumn, Straight)}]

\* A texture copied into another, and that one into the composition.
Pair ==
  [textures |-> {t1, t2}, colors |-> {Clear, Solid}, blends |-> {"blend"},
   mods |-> {Solid}, views |-> {Unclipped}, rects |-> {Whole, Corner}, segments |-> {},
   failures |-> 0,
   copies |-> {CopyOf(Whole, Whole, Straight), CopyOf(BottomRow, Rect(0, 0, 2, 1), Straight)}]

\* A device that fails once.
Faulty ==
  [textures |-> {t1}, colors |-> {Solid}, blends |-> {"blend"},
   mods |-> {Solid}, views |-> {Unclipped}, rects |-> {RightColumn}, segments |-> {Diagonal},
   failures |-> 1, copies |-> {CopyOf(Whole, Whole, Straight)}]

AllApplications == {Fills, Tints, Modulations, Pair, Faulty}

=============================================================================
