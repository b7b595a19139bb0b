------------------------------ MODULE GameTick ------------------------------
(***************************************************************************)
(* The cadence of the game's simulation in the main loop (patch 0006): a   *)
(* game tick runs at most once a frame, the part of a tick left over is    *)
(* kept, and the debt after a long frame is bounded.                       *)
(***************************************************************************)
EXTENDS Integers

CONSTANTS
  OneTick,  \* oneTick, in the clock's units
  Latest    \* bound: the clock

VARIABLES
  time,            \* time, as last read; nothing else moves it
  lastGameUpdate,  \* lastGameUpdate
  updates,         \* GameLoop calls so far (history)
  first,           \* lastGameUpdate at the start (history)
  stalled          \* a frame was longer than a tick (history)

vars == <<time, lastGameUpdate, updates, first, stalled>>

Init ==
  /\ time \in 0 .. 2 * OneTick
  /\ lastGameUpdate = IF time >= OneTick THEN time - OneTick ELSE 0
  /\ updates = 0 /\ first = lastGameUpdate /\ stalled = FALSE

\* Slip: the part of a tick that is left over is lost.
Updated_Now(now) == now

\* lastGameUpdate after a tick.
Updated(now) ==
  LET next == lastGameUpdate + OneTick
  IN  IF now - next > OneTick THEN now - OneTick ELSE next

\* One frame of Interface::Main.
Frame(now) ==
  /\ time' = now
  /\ IF now - lastGameUpdate >= OneTick
     THEN lastGameUpdate' = Updated(now) /\ updates' = updates + 1
     ELSE UNCHANGED <<lastGameUpdate, updates>>
  /\ stalled' = (stalled \/ now - time > OneTick)
  /\ first' = first

Next == \E now \in time .. Latest : Frame(now)

Spec == Init /\ [][Next]_vars

-----------------------------------------------------------------------------

TypeOK ==
  /\ time \in Nat /\ lastGameUpdate \in Nat /\ updates \in Nat /\ first \in Nat
  /\ stalled \in BOOLEAN

(* The simulation keeps pace with the clock however unevenly frames come:  *)
(* it is never ahead of it (the unsigned difference would wrap), never     *)
(* more than one tick behind, and no tick is dropped while no frame is     *)
(* longer than one.                                                        *)
PaceKept ==
  /\ lastGameUpdate <= time
  /\ time - lastGameUpdate <= OneTick
  /\ ~stalled => lastGameUpdate = first + updates * OneTick

=============================================================================
