------------------------------ MODULE RunScript ------------------------------
(***************************************************************************)
(* The script that starts the game (run.sh, which bundle.sh writes): the   *)
(* swap file set up by a background process while the game starts, the     *)
(* video mode, the game as a child, the trap, and what is undone when the  *)
(* game ends.  Runs follow one another; the background process of one may  *)
(* outlive it.                                                             *)
(***************************************************************************)
EXTENDS Integers

CONSTANTS
  MaxRuns,    \* bound: runs
  MaxSignals  \* bound: signals sent to the script's process group

VARIABLES
  script,     \* where run.sh is; "ended" and "killed" at its end
  run,        \* which run it is
  old,        \* old_swappiness
  swapOn,     \* where each run's swap_on & is
  file,       \* the swap file: none, partial or full
  swap,       \* the file itself (0) and the loop device of each run: none, set up, or swap
  swappiness, \* the user's, or the game's 5
  video,      \* the HDMI mode: the menu's or the game's
  switched,   \* this run switched it
  child,      \* the game: none, running or ended
  signals,    \* signals sent so far
  trapped,    \* signals that reached the trap of this run (history)
  late,       \* this run's last swap_off let a swap_on go on (history)
  left,       \* what the last swap_off did not detach (history)
  abnormal    \* a run was killed, or its swap_off was late (history)

vars == <<script, run, old, swapOn, file, swap, swappiness, video, switched, child,
          signals, trapped, late, left, abnormal>>

Runs == 1 .. MaxRuns
Places == {0} \cup Runs

Finished == {"none", "done", "dead"}

\* What a swap_on does no more than tidy up.
GivenUp == Finished \cup {"remove"}

Init ==
  /\ script = "ended" /\ run = 0 /\ old = "user"
  /\ swapOn = [r \in Runs |-> "none"]
  /\ file = "none" /\ swap = [p \in Places |-> "none"] /\ swappiness = "user"
  /\ video = "menu" /\ switched = FALSE /\ child = "none"
  /\ signals = 0 /\ trapped = 0 /\ late = FALSE /\ left = {} /\ abnormal = FALSE

-----------------------------------------------------------------------------
(***************************************************************************)
(* The script.  swap_off runs twice, as the steps of Off.                  *)
(***************************************************************************)

Goes(from, to) == script = from /\ script' = to

Start ==
  /\ script \in {"ended", "killed"} /\ run < MaxRuns
  /\ script' = "read" /\ run' = run + 1
  /\ child' = "none" /\ trapped' = 0 /\ late' = FALSE /\ left' = {}
  /\ UNCHANGED <<old, swapOn, file, swap, swappiness, video, switched, signals, abnormal>>

ReadSwappiness ==
  /\ Goes("read", "off dd")
  /\ old' = swappiness
  /\ UNCHANGED <<run, swapOn, file, swap, swappiness, video, switched, child, signals, trapped, late, left, abnormal>>

\* What "swapoff; losetup -d" may leave of a swap area, as either may be
\* refused.  A device whose swap is in use stays.
Remaining == [none |-> {"none"}, set |-> {"none", "set"}, swap |-> {"none", "set", "swap"}]

\* A refusal goes unnoticed: the script goes on to the next command.
Detach ==
  /\ swap' \in [Places -> {"none", "set", "swap"}]
  /\ swap'[0] # "set" /\ \A p \in Places : swap'[p] \in Remaining[swap[p]]
  /\ left' = {p \in Places : swap'[p] # "none"}

\* A swap_on whose dd is killed removes the file.
Stopped_Not(stage) == stage

Stopped(stage) == IF stage = "dd" THEN "remove" ELSE stage

Off(dd, swapoff, restore, next) ==
  \/ /\ Goes(dd, swapoff)
     /\ swapOn' = [r \in Runs |-> Stopped(swapOn[r])]
     /\ late' = (dd = "end dd" /\ \E r \in Runs : swapOn[r] \notin GivenUp \cup {"dd"})
     /\ UNCHANGED <<swap, swappiness, left>>
  \/ /\ Goes(swapoff, restore)
     /\ Detach
     /\ UNCHANGED <<swapOn, swappiness, late>>
  \/ /\ Goes(restore, next)
     /\ swappiness' = old
     /\ UNCHANGED <<swapOn, swap, late, left>>

SwapOff ==
  /\ \/ Off("off dd", "off swap", "off restore", "swap on")
     \/ Off("end dd", "end swap", "end restore", "video")
  /\ abnormal' = (abnormal \/ late')
  /\ UNCHANGED <<run, old, file, video, switched, child, signals, trapped>>

\* Without a swap file chosen, swap_on returns at once.
StartSwapOn ==
  /\ Goes("swap on", "mode")
  /\ \E first \in {"size", "done"} : swapOn' = [swapOn EXCEPT ![run] = first]
  /\ UNCHANGED <<run, old, file, swap, swappiness, video, switched, child, signals, trapped, late, left, abnormal>>

\* Only with a mode for the resolution, and MiSTer's command pipe.
SwitchVideo ==
  /\ Goes("mode", "child")
  /\ \E able \in BOOLEAN :
       switched' = able /\ video' = IF able THEN "game" ELSE video
  /\ UNCHANGED <<run, old, swapOn, file, swap, swappiness, child, signals, trapped, late, left, abnormal>>

StartChild ==
  /\ Goes("child", "trap")
  /\ child' = "running"
  /\ UNCHANGED <<run, old, swapOn, file, swap, swappiness, video, switched, signals, trapped, late, left, abnormal>>

SetTrap ==
  /\ Goes("trap", "wait")
  /\ UNCHANGED <<run, old, swapOn, file, swap, swappiness, video, switched, child, signals, trapped, late, left, abnormal>>

Waiting == {"wait", "wait again"}

\* A trapped signal ends a wait, so there are two.
AfterWait(at) ==
  IF at = "wait" THEN "wait again" ELSE IF at = "wait again" THEN "end dd" ELSE at

\* When the child has ended both return.
Wait ==
  /\ script \in Waiting /\ script' = AfterWait(script)
  /\ child = "ended"
  /\ UNCHANGED <<run, old, swapOn, file, swap, swappiness, video, switched, child, signals, trapped, late, left, abnormal>>

RestoreVideo ==
  /\ Goes("video", "ended")
  /\ video' = IF switched THEN "menu" ELSE video
  /\ UNCHANGED <<run, old, switched, swapOn, file, swap, swappiness, child, signals, trapped, late, left, abnormal>>

-----------------------------------------------------------------------------
(***************************************************************************)
(* swap_on, in the background.                                             *)
(***************************************************************************)

Moves(r, from, to) == swapOn[r] = from /\ swapOn' = [swapOn EXCEPT ![r] = to]

SwapOn(r) ==
  /\ \/ \* a file of the right size is kept, any other removed
        /\ Moves(r, "size", IF file = "full" THEN "mkswap" ELSE "dd")
        /\ file' = IF file = "full" THEN file ELSE "partial"
        /\ UNCHANGED <<swap, swappiness>>
     \/ \* another run's swap_on may have removed it
        /\ Moves(r, "dd", "mkswap")
        /\ file' = IF file = "none" THEN file ELSE "full"
        /\ UNCHANGED <<swap, swappiness>>
     \/ \* the disk is full
        /\ Moves(r, "dd", "remove")
        /\ UNCHANGED <<file, swap, swappiness>>
     \/ /\ Moves(r, "remove", "done")
        /\ file' = "none"
        /\ UNCHANGED <<swap, swappiness>>
     \/ /\ \E to \in {"swapon", "losetup"} : Moves(r, "mkswap", to)
        /\ UNCHANGED <<file, swap, swappiness>>
     \/ /\ Moves(r, "swapon", "echo")
        /\ file # "none" /\ swap[0] = "none" /\ swap' = [swap EXCEPT ![0] = "swap"]
        /\ UNCHANGED <<file, swappiness>>
     \/ \* the filesystem does not allow it
        /\ Moves(r, "swapon", "losetup")
        /\ UNCHANGED <<file, swap, swappiness>>
     \/ /\ Moves(r, "losetup", "swapon loop")
        /\ file # "none" /\ swap' = [swap EXCEPT ![r] = "set"]
        /\ UNCHANGED <<file, swappiness>>
     \/ \* no loop device is left
        /\ Moves(r, "losetup", "done")
        /\ UNCHANGED <<file, swap, swappiness>>
     \/ /\ Moves(r, "swapon loop", "echo")
        /\ swap[r] = "set" /\ swap' = [swap EXCEPT ![r] = "swap"]
        /\ UNCHANGED <<file, swappiness>>
     \/ \* mkswap or swapon fails on it, as when it is gone; so may losetup -d
        /\ Moves(r, "swapon loop", "done")
        /\ \E state \in Remaining[swap[r]] : swap' = [swap EXCEPT ![r] = state]
        /\ UNCHANGED <<file, swappiness>>
     \/ /\ Moves(r, "echo", "done")
        /\ swappiness' = "game"
        /\ UNCHANGED <<file, swap>>
  /\ UNCHANGED <<script, run, old, video, switched, child, signals, trapped, late, left, abnormal>>

-----------------------------------------------------------------------------
(***************************************************************************)
(* The game, and the signals of the launcher and the system.               *)
(***************************************************************************)

ChildEnds ==
  /\ child = "running" /\ child' = "ended"
  /\ UNCHANGED <<script, run, old, swapOn, file, swap, swappiness, video, switched, signals, trapped, late, left, abnormal>>

Trapping == Waiting \cup {"end dd", "end swap", "end restore", "video"}

\* Commands run by the script have its traps reset: the signal ends the one
\* swap_off runs (ps or awk, swapoff, losetup) before it has done anything.
\* Then the script goes on.
CutShort ==
  \/ /\ Goes("end dd", "end swap")
     /\ late' = (\E r \in Runs : swapOn'[r] \notin GivenUp)
     /\ abnormal' = (abnormal \/ late')
     /\ UNCHANGED left
  \/ /\ Goes("end swap", "end restore")
     /\ left' = {p \in Places : swap[p] # "none"}
     /\ UNCHANGED <<late, abnormal>>

\* TERM to the group: the trap passes it on to the game, which ends in its
\* own time, and the current wait returns; the background process has no trap.
Terminate ==
  /\ script \notin {"ended", "killed"} /\ signals < MaxSignals
  /\ signals' = signals + 1
  /\ swapOn' = [swapOn EXCEPT ![run] = IF @ \in Finished THEN @ ELSE "dead"]
  /\ \/ /\ script \notin Trapping
        /\ script' = "killed" /\ abnormal' = TRUE
        /\ UNCHANGED <<trapped, late, left>>
     \/ /\ script \in Trapping
        /\ script' = AfterWait(script) /\ trapped' = trapped + 1
        /\ UNCHANGED <<late, left, abnormal>>
     \/ /\ CutShort
        /\ trapped' = trapped + 1
  /\ UNCHANGED <<run, old, file, swap, swappiness, video, switched, child>>

\* KILL to the group, as a user or the system may send it.
Kill ==
  /\ script \notin {"ended", "killed"} /\ signals < MaxSignals
  /\ signals' = signals + 1
  /\ script' = "killed" /\ abnormal' = TRUE
  /\ child' = IF child = "running" THEN "ended" ELSE child
  /\ swapOn' = [swapOn EXCEPT ![run] = IF @ \in Finished THEN @ ELSE "dead"]
  /\ UNCHANGED <<run, old, file, swap, swappiness, video, switched, trapped, late, left>>

Next ==
  \/ Start \/ ReadSwappiness \/ SwapOff \/ StartSwapOn \/ SwitchVideo
  \/ StartChild \/ SetTrap \/ Wait \/ RestoreVideo
  \/ \E r \in Runs : SwapOn(r)
  \/ ChildEnds \/ Terminate \/ Kill

Spec == Init /\ [][Next]_vars

-----------------------------------------------------------------------------
(* Nothing is undone under a running game when one signal came.  After a   *)
(* run that ended by itself only those swap areas are attached which its   *)
(* last swap_off could not detach, as the system refused it or a signal    *)
(* ended the command: the background sets none up any more.  Whatever was  *)
(* refused, the video mode is the menu's and the swappiness the user's,    *)
(* unless an earlier run was killed.  Excepted are runs whose swap_off let *)
(* a swap_on go on, one past its dd, and for the swappiness the runs after *)
(* them.                                                                   *)
EndsClean ==
  /\ script \in {"end dd", "end swap", "end restore", "video"} /\ trapped <= 1 =>
       child = "ended"
  /\ script = "ended" =>
       /\ late \/ \A p \in Places \ left : swap[p] = "none"
       /\ abnormal \/ (swappiness = "user" /\ video = "menu")

=============================================================================
