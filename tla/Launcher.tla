------------------------------ MODULE Launcher ------------------------------
(***************************************************************************)
(* The launch coordinator (noodles-launcher) and the input devices it      *)
(* takes from Main for the game and gives back.  Each coordinator is one   *)
(* process: it waits for a Main with a Noodles MGL, releases that Main's   *)
(* exclusive grabs through duplicated descriptors, probes that the devices *)
(* are free, runs the game's adapter and restores the grabs.  A rejected   *)
(* MGL is reported on Main's framebuffer instead.                          *)
(*                                                                         *)
(* Main and the kernel's input layer are outside the repository: a device  *)
(* has at most one holder (EVIOCGRAB), Main grabs what it opens unless its *)
(* framebuffer terminal is up, and does not try again when refused.        *)
(***************************************************************************)
EXTENDS Integers, FiniteSets

CONSTANTS
  Coordinators,  \* processes started from the OSD script
  Mains,         \* Main processes; a restart is a new one
  Menu,          \* the Main running at first, without an MGL
  Devices,       \* physical event nodes
  Nobody,        \* no process
  Passes,        \* bound: probes that fit into one time-out
  MaxEvents      \* bound: devices (un)plugged, signals and failed grabs

ASSUME ProcessesAssumption ==
  /\ Coordinators \cap Mains = {}
  /\ Nobody \notin Coordinators \cup Mains \cup Devices
  /\ Menu \in Mains
ASSUME BoundsAssumption ==
  /\ Passes \in Nat \ {0}
  /\ MaxEvents \in Nat

VARIABLES
  plugged,  \* devices there are
  holder,   \* who grabbed a device exclusively
  main,     \* each Main: state, kind of MGL, descriptors, framebuffer terminal
  lock,     \* holder of LOCK_PATH
  co,       \* each coordinator
  fresh,    \* devices Main opened since the last probe for the game (history)
  events    \* how many of the bounded events happened, by kind (history)

vars == <<plugged, holder, main, lock, co, fresh, events>>
devices == <<plugged, holder>>

Kinds == {"menu", "game", "bad"}
Processes == Coordinators \cup Mains

Idle ==
  [pc |-> "off", initial |-> Nobody, mi |-> Nobody, stop |-> FALSE,
   todo |-> {}, at |-> Nobody, found |-> FALSE, missed |-> FALSE,
   goal |-> "none", busy |-> FALSE, tries |-> 0, keyboard |-> "none",
   adapter |-> "none", known |-> FALSE, exit |-> "none"]

Init ==
  /\ plugged \in SUBSET Devices
  /\ main = [m \in Mains |->
       [state |-> IF m = Menu THEN "alive" ELSE "unborn", kind |-> "menu",
        open |-> IF m = Menu THEN plugged ELSE {}, fb |-> FALSE]]
  /\ holder = [d \in Devices |-> IF d \in plugged THEN Menu ELSE Nobody]
  /\ lock = Nobody
  /\ co = [c \in Coordinators |-> Idle]
  /\ fresh = {}
  /\ events = [plug |-> 0, signal |-> 0, failure |-> 0]

Happens(kind) ==
  /\ events.plug + events.signal + events.failure < MaxEvents
  /\ events' = [events EXCEPT ![kind] = @ + 1]

Alive(m) == m # Nobody /\ main[m].state = "alive"

-----------------------------------------------------------------------------
(***************************************************************************)
(* Main and the devices.                                                   *)
(***************************************************************************)

\* Who holds each device once m tried to grab those in ds.
Grabbed(m, ds) ==
  [d \in Devices |-> IF d \in ds /\ holder[d] = Nobody THEN m ELSE holder[d]]
Released(m) ==
  [d \in Devices |-> IF holder[d] = m THEN Nobody ELSE holder[d]]

MainDies(m) ==
  /\ Alive(m)
  /\ main' = [main EXCEPT ![m].state = "dead", ![m].open = {}]
  /\ holder' = Released(m)
  /\ UNCHANGED <<plugged, lock, co, fresh, events>>

\* A restart: one Main at a time.
MainStarts(m, kind) ==
  /\ main[m].state = "unborn" /\ \A n \in Mains : ~Alive(n)
  /\ main' = [main EXCEPT ![m] =
       [state |-> "alive", kind |-> kind, open |-> plugged, fb |-> FALSE]]
  /\ holder' = Grabbed(m, plugged)
  /\ fresh' = fresh \cup plugged
  /\ UNCHANGED <<plugged, lock, co, events>>

MainOpens(m, d) ==
  /\ Alive(m) /\ d \in plugged \ main[m].open
  /\ main' = [main EXCEPT ![m].open = @ \cup {d}]
  /\ holder' = IF main[m].fb THEN holder ELSE Grabbed(m, {d})
  /\ fresh' = fresh \cup {d}
  /\ UNCHANGED <<plugged, lock, co, events>>

Plug(d) ==
  /\ Happens("plug")
  /\ plugged' = IF d \in plugged THEN plugged \ {d} ELSE plugged \cup {d}
  /\ holder' = [holder EXCEPT ![d] = Nobody]
  /\ main' = [m \in Mains |-> [main[m] EXCEPT !.open = @ \ {d}]]
  /\ UNCHANGED <<lock, co, fresh>>

\* Main notices the coordinator's virtual keyboard.
MainOpensKeyboard(c) ==
  /\ co[c].keyboard = "made" /\ Alive(co[c].mi)
  /\ co' = [co EXCEPT ![c].keyboard = "open"]
  /\ UNCHANGED <<devices, main, lock, fresh, events>>

\* F12 and Ctrl-Alt-F9 show the terminal and release the grabs; F12 leaves it
\* and takes them again.
MainReads(c) ==
  LET m == co[c].mi IN
  /\ co[c].keyboard \in {"handoff", "restore"} /\ Alive(m)
  /\ main' = [main EXCEPT ![m].fb = co[c].keyboard = "handoff"]
  /\ holder' = IF co[c].keyboard = "handoff" THEN Released(m)
               ELSE Grabbed(m, main[m].open)
  /\ co' = [co EXCEPT ![c].keyboard = "open"]
  /\ UNCHANGED <<plugged, lock, fresh, events>>

-----------------------------------------------------------------------------
(***************************************************************************)
(* The coordinator.                                                        *)
(***************************************************************************)

At(c, place) == co[c].pc = place
Goto(c, place) == co' = [co EXCEPT ![c].pc = place]

\* close(lock_fd) and return; a virtual keyboard is destroyed before.
Exit(c, rc) ==
  /\ co' = [co EXCEPT ![c].pc = "exited", ![c].exit = rc,
                      ![c].keyboard = "none", ![c].at = Nobody]
  /\ lock' = IF lock = c THEN Nobody ELSE lock

\* The Main that runs when the script is started, if one does.
CurrentMain(m) == IF m = Nobody THEN \A n \in Mains : ~Alive(n) ELSE Alive(m)

\* Slip: the lock file is opened and not locked.
Start_Unlocked(c) ==
  /\ At(c, "off")
  /\ \E m \in Mains \cup {Nobody} :
       /\ CurrentMain(m)
       /\ co' = [co EXCEPT ![c].pc = "watch", ![c].initial = m]
  /\ lock' = c
  /\ UNCHANGED <<devices, main, fresh, events>>

Start(c) ==
  /\ At(c, "off")
  /\ IF lock # Nobody THEN Exit(c, "locked")
     ELSE /\ \E m \in Mains \cup {Nobody} :
               /\ CurrentMain(m)
               /\ co' = [co EXCEPT ![c].pc = "watch", ![c].initial = m]
          /\ lock' = c
  /\ UNCHANGED <<devices, main, fresh, events>>

Find(c, m) ==
  /\ At(c, "watch") /\ ~co[c].stop
  /\ Alive(m) /\ m # co[c].initial /\ main[m].kind # "menu"
  /\ co' = [co EXCEPT ![c].pc = "settle", ![c].mi = m]
  /\ UNCHANGED <<devices, main, lock, fresh, events>>

GiveUp(c) ==
  /\ At(c, "watch")
  /\ Exit(c, IF co[c].stop THEN "stopped" ELSE "timeout")
  /\ UNCHANGED <<devices, main, fresh, events>>

\* A release-named core, and a launch record that is complete and names a
\* registered game whose files are there.
Accepted(m) == main[m].kind = "game"

Settle(c) ==
  /\ At(c, "settle")
  /\ IF ~Alive(co[c].mi) THEN Exit(c, "vanished")
     ELSE /\ Goto(c, IF Accepted(co[c].mi) THEN "release" ELSE "reject")
          /\ UNCHANGED lock
  /\ UNCHANGED <<devices, main, fresh, events>>

-----------------------------------------------------------------------------
(***************************************************************************)
(* set_main_input_grabs: Main's descriptors one by one.                    *)
(***************************************************************************)

\* restore_main_input logs what release_main_input fails for.
AfterFailure(c) == IF co[c].pc \in {"restore", "restoring"} THEN "adapter" ELSE "failed"

BeginGrabs(c) ==
  /\ co[c].pc \in {"release", "restore"}
  /\ IF ~Alive(co[c].mi) THEN Exit(c, AfterFailure(c))
     ELSE /\ co' = [co EXCEPT ![c].pc = IF @ = "release" THEN "releasing" ELSE "restoring",
                              ![c].todo = main[co[c].mi].open,
                              ![c].found = FALSE, ![c].missed = FALSE]
          /\ UNCHANGED lock
  /\ UNCHANGED <<devices, main, fresh, events>>

\* Slip: the first descriptor that cannot be changed ends the loop.
Left_Break(c, d, ok) == IF ok THEN co[c].todo \ {d} ELSE {}
Left(c, d, ok) == co[c].todo \ {d}

From(c) == IF At(c, "releasing") THEN co[c].mi ELSE Nobody
To(c) == IF At(c, "releasing") THEN Nobody ELSE co[c].mi

\* Slip: the descriptor read from the directory is taken to be open still.
CanChange_Stale(c, d) == holder[d] = From(c)
CanChange(c, d) == d \in main[co[c].mi].open /\ holder[d] = From(c)

\* EVIOCGRAB through a duplicate acts for Main: it takes a free device and
\* gives back one Main holds, and is refused otherwise.
ChangeGrab(c, d) ==
  LET ok == CanChange(c, d) IN
  /\ co[c].pc \in {"releasing", "restoring"} /\ d \in co[c].todo
  /\ holder' = IF ok THEN [holder EXCEPT ![d] = To(c)] ELSE holder
  /\ co' = [co EXCEPT ![c].todo = Left(c, d, ok), ![c].found = TRUE,
                      ![c].missed = @ \/ ~ok]
  /\ UNCHANGED <<plugged, main, lock, fresh, events>>

\* The descriptor was closed before it was looked at.
SkipClosed(c, d) ==
  /\ co[c].pc \in {"releasing", "restoring"}
  /\ d \in co[c].todo \ main[co[c].mi].open
  /\ co' = [co EXCEPT ![c].todo = @ \ {d}]
  /\ UNCHANGED <<devices, main, lock, fresh, events>>

GrabFails(c, d) ==
  /\ co[c].pc \in {"releasing", "restoring"} /\ d \in co[c].todo
  /\ Happens("failure")
  /\ co' = [co EXCEPT ![c].todo = Left(c, d, FALSE), ![c].found = TRUE,
                      ![c].missed = TRUE]
  /\ UNCHANGED <<devices, main, lock, fresh>>

EndGrabs(c) ==
  /\ co[c].pc \in {"releasing", "restoring"} /\ co[c].todo = {}
  /\ IF At(c, "restoring") \/ ~co[c].found \/ co[c].missed
     THEN Exit(c, AfterFailure(c))
     ELSE /\ co' = [co EXCEPT ![c].pc = "probe", ![c].goal = "game", ![c].tries = 0]
          /\ UNCHANGED lock
  /\ UNCHANGED <<devices, main, fresh, events>>

-----------------------------------------------------------------------------
(***************************************************************************)
(* physical_input_busy: each device is taken for a moment.                 *)
(***************************************************************************)

BeginProbe(c) ==
  /\ At(c, "probe")
  /\ co' = [co EXCEPT ![c].pc = "probing", ![c].todo = plugged,
                      ![c].found = FALSE, ![c].busy = FALSE]
  /\ fresh' = IF co[c].goal = "game" THEN {} ELSE fresh
  /\ UNCHANGED <<devices, main, lock, events>>

ProbeTakes(c, d) ==
  /\ At(c, "probing") /\ co[c].at = Nobody /\ d \in co[c].todo
  /\ IF d \notin plugged THEN
       /\ co' = [co EXCEPT ![c].todo = @ \ {d}]
       /\ UNCHANGED holder
     ELSE IF holder[d] = Nobody THEN
       /\ co' = [co EXCEPT ![c].at = d, ![c].found = TRUE]
       /\ holder' = [holder EXCEPT ![d] = c]
     ELSE
       /\ co' = [co EXCEPT ![c].todo = @ \ {d}, ![c].found = TRUE, ![c].busy = TRUE]
       /\ UNCHANGED holder
  /\ UNCHANGED <<plugged, main, lock, fresh, events>>

ProbeGives(c) ==
  /\ At(c, "probing") /\ co[c].at # Nobody
  /\ holder' = [d \in Devices |->
       IF d = co[c].at /\ holder[d] = c THEN Nobody ELSE holder[d]]
  /\ co' = [co EXCEPT ![c].todo = @ \ {co[c].at}, ![c].at = Nobody]
  /\ UNCHANGED <<plugged, main, lock, fresh, events>>

ProbeResult(c) ==
  IF ~co[c].found THEN "none" ELSE IF co[c].busy THEN "busy" ELSE "free"

\* Slip: the loop has no deadline.
Again_NoDeadline(c) ==
  /\ co[c].goal # "leaving"
  /\ ProbeResult(c) = IF co[c].goal = "back" THEN "free" ELSE "busy"
  /\ co[c].goal # "back" => ~co[c].stop

\* Main is given time to release its grabs, or to take them back.
Again(c) ==
  /\ co[c].tries + 1 < Passes
  /\ Again_NoDeadline(c)

\* Slip: a probe that is busy to the end counts as free.
Free_Hopeful(c) == ProbeResult(c) # "none"
Free(c) == ProbeResult(c) = "free"

EndProbe(c) ==
  /\ At(c, "probing") /\ co[c].todo = {} /\ co[c].at = Nobody
  /\ \/ /\ Again(c)
        /\ co' = [co EXCEPT ![c].pc = "probe", ![c].tries = (@ + 1) % Passes]
        /\ UNCHANGED lock
     \/ /\ ~Again(c) /\ co[c].goal = "game"
        /\ IF Free(c) THEN Goto(c, "fork") /\ UNCHANGED lock ELSE Exit(c, "failed")
     \/ /\ ~Again(c) /\ co[c].goal = "handoff"
        /\ IF Free(c) THEN Goto(c, "show") /\ UNCHANGED lock ELSE Exit(c, "rejected")
     \/ /\ ~Again(c) /\ co[c].goal = "leaving"
        /\ IF Free(c)
           THEN /\ co' = [co EXCEPT ![c].pc = "probe", ![c].goal = "back",
                                    ![c].tries = 0, ![c].keyboard = "restore"]
                /\ UNCHANGED lock
           ELSE Exit(c, "rejected")
     \/ /\ ~Again(c) /\ co[c].goal = "back"
        /\ Exit(c, "rejected")
  /\ UNCHANGED <<devices, main, fresh, events>>

-----------------------------------------------------------------------------
(***************************************************************************)
(* show_launch_error.                                                      *)
(***************************************************************************)

MakeKeyboard(c) ==
  /\ At(c, "reject")
  /\ \/ /\ co' = [co EXCEPT ![c].pc = "await", ![c].keyboard = "made"]
        /\ UNCHANGED lock
     \/ Exit(c, "rejected")
  /\ UNCHANGED <<devices, main, fresh, events>>

\* The keyboard's node is among Main's descriptors.
OpenedEvent(c) == co[c].keyboard = "open" /\ Alive(co[c].mi)

SendHandoffKey(c) ==
  /\ At(c, "await") /\ OpenedEvent(c)
  /\ co' = [co EXCEPT ![c].pc = "probe", ![c].goal = "handoff", ![c].tries = 0,
                      ![c].keyboard = "handoff"]
  /\ UNCHANGED <<devices, main, lock, fresh, events>>

\* Main did not open the keyboard in time, or is gone.
NotOpened(c) ==
  /\ At(c, "await") /\ ~OpenedEvent(c)
  /\ Exit(c, "rejected")
  /\ UNCHANGED <<devices, main, fresh, events>>

EndShow(c) ==
  /\ At(c, "show")
  /\ co' = [co EXCEPT ![c].pc = "probe", ![c].goal = "leaving"]
  /\ UNCHANGED <<devices, main, lock, fresh, events>>

-----------------------------------------------------------------------------
(***************************************************************************)
(* run_adapter.  A signal reaches the adapter if its pid is known, its     *)
(* process group exists and it no longer runs the coordinator's handler.   *)
(***************************************************************************)

Fork(c) ==
  /\ At(c, "fork")
  /\ \/ co' = [co EXCEPT ![c].pc = "forked", ![c].adapter = "child"]
     \/ Goto(c, "restore")
  /\ UNCHANGED <<devices, main, lock, fresh, events>>

\* adapter_pid receives fork's result.
KnowAdapter(c) ==
  /\ At(c, "forked")
  /\ co' = [co EXCEPT ![c].pc = "known", ![c].known = TRUE]
  /\ UNCHANGED <<devices, main, lock, fresh, events>>

\* Parent and child both call setpgid.
SetGroup(c) ==
  /\ At(c, "known")
  /\ co' = [co EXCEPT ![c].pc = "waiting",
                      ![c].adapter = IF @ = "child" THEN "grouped" ELSE @]
  /\ UNCHANGED <<devices, main, lock, fresh, events>>

AdapterStep(c) ==
  /\ co[c].adapter \in {"child", "grouped"}
  /\ co' = [co EXCEPT ![c].adapter = IF @ = "child" THEN "grouped" ELSE "running"]
  /\ UNCHANGED <<devices, main, lock, fresh, events>>

AdapterEnds(c) ==
  /\ co[c].adapter \in {"running", "told"}
  /\ co' = [co EXCEPT ![c].adapter = "ended"]
  /\ UNCHANGED <<devices, main, lock, fresh, events>>

\* waitpid is restarted after a signal, so only the handler passes it on.
Reap(c) ==
  /\ At(c, "waiting") /\ co[c].adapter = "ended"
  /\ co' = [co EXCEPT ![c].pc = "restore", ![c].known = FALSE]
  /\ UNCHANGED <<devices, main, lock, fresh, events>>

Signal(c) ==
  /\ co[c].pc \notin {"off", "exited"}
  /\ Happens("signal")
  /\ co' = [co EXCEPT ![c].stop = TRUE,
       ![c].adapter = IF co[c].known /\ @ = "running" THEN "told" ELSE @]
  /\ UNCHANGED <<devices, main, lock, fresh>>

-----------------------------------------------------------------------------
Coordinate(c) ==
  \/ \E m \in Mains : Find(c, m)
  \/ GiveUp(c) \/ Settle(c)
  \/ BeginGrabs(c) \/ EndGrabs(c)
  \/ \E d \in Devices : ChangeGrab(c, d) \/ SkipClosed(c, d) \/ ProbeTakes(c, d)
  \/ BeginProbe(c) \/ ProbeGives(c) \/ EndProbe(c)
  \/ MakeKeyboard(c) \/ SendHandoffKey(c) \/ NotOpened(c) \/ EndShow(c)
  \/ Fork(c) \/ KnowAdapter(c) \/ SetGroup(c) \/ Reap(c)

Adapter(c) == AdapterStep(c) \/ AdapterEnds(c)

Outside ==
  \/ \E m \in Mains :
       \/ MainDies(m)
       \/ \E kind \in Kinds : MainStarts(m, kind)
       \/ \E d \in Devices : MainOpens(m, d)
  \/ \E d \in Devices : Plug(d)
  \/ \E c \in Coordinators :
       \/ Start(c) \/ Signal(c) \/ MainOpensKeyboard(c) \/ MainReads(c)
       \/ \E d \in Devices : GrabFails(c, d)

Next == Outside \/ \E c \in Coordinators : Coordinate(c) \/ Adapter(c)

Spec == Init /\ [][Next]_vars

(* The kernel runs every process, and the player quits in the end; Main is *)
(* not assumed to do anything.                                             *)
FairSpec ==
  Spec /\ \A c \in Coordinators : WF_vars(Coordinate(c)) /\ WF_vars(Adapter(c))

-----------------------------------------------------------------------------
(***************************************************************************)
(* What the coordinator promises.                                          *)
(***************************************************************************)

(* Every variable has the values the comments name.                        *)
TypeOK ==
  /\ plugged \subseteq Devices
  /\ holder \in [Devices -> Processes \cup {Nobody}]
  /\ \A d \in Devices \ plugged : holder[d] = Nobody
  /\ main \in [Mains -> [state : {"unborn", "alive", "dead"}, kind : Kinds,
                         open : SUBSET Devices, fb : BOOLEAN]]
  /\ \A m \in Mains : main[m].open \subseteq plugged
  /\ lock \in Coordinators \cup {Nobody}
  /\ \A c \in Coordinators :
       /\ co[c].tries \in 0 .. Passes - 1
       /\ co[c].mi \in Mains \cup {Nobody}
       /\ co[c].todo \subseteq Devices
  /\ fresh \subseteq Devices

Playing(c) == co[c].adapter \in {"child", "grouped", "running", "told"}

(* One game at a time, however often the script is started and Main comes  *)
(* back (flock in coordinator).                                            *)
OneAdapter == \A c, e \in Coordinators : Playing(c) /\ Playing(e) => c = e

(* While the game runs Main keeps no device from it, except those it       *)
(* opened when the last probe was already under way (release_main_input).  *)
GameHasInput ==
  (\E c \in Coordinators : Playing(c)) =>
    \A d \in Devices : holder[d] \in Mains => d \in fresh

Holds(m) == \A d \in main[m].open : holder[d] = m

(* After a game Main has every device it knows, also those that came or    *)
(* were taken back meanwhile (restore_main_input).                         *)
InputReturned ==
  \A c \in Coordinators :
    co[c].exit = "adapter" /\ Alive(co[c].mi) /\ events.failure = 0
      => Holds(co[c].mi)

(* A coordinator that released Main's grabs restores them when it exits.   *)
GrabsRestoredOnExit ==
  \A c \in Coordinators :
    co[c].exit \in {"adapter", "failed"} /\ Alive(co[c].mi) => Holds(co[c].mi)

\* The steps of one look at all devices, and of all that are left in a time-out.
Look == 2 * Cardinality(Devices) + 2
Looks(tries) == (Passes - tries) * Look

\* At most how many steps follow the last look, by what it is for.
AfterLooks(goal) ==
  CASE goal = "game"    -> Cardinality(Devices) + 9
    [] goal = "handoff" -> 2 * Looks(0) + 1
    [] goal = "leaving" -> Looks(0)
    [] OTHER            -> 0

\* At most how many steps a coordinator in state s has left.
OwnSteps(s) ==
  LET n == Cardinality(Devices) IN
  CASE s.pc = "watch"     -> 3 * Looks(0) + 2 * n + 13
    [] s.pc = "settle"    -> 3 * Looks(0) + 2 * n + 12
    [] s.pc = "reject"    -> 3 * Looks(0) + 3
    [] s.pc = "await"     -> 3 * Looks(0) + 2
    [] s.pc = "show"      -> 2 * Looks(0) + 1
    [] s.pc = "release"   -> Looks(0) + 2 * n + 11
    [] s.pc = "releasing" -> Looks(0) + n + 10 + Cardinality(s.todo)
    [] s.pc = "probe"     -> AfterLooks(s.goal) + Looks(s.tries)
    [] s.pc = "probing"   -> AfterLooks(s.goal) + Looks(s.tries + 1)
                               + 2 * Cardinality(s.todo) + (IF s.at = Nobody THEN 1 ELSE 0)
    [] s.pc = "fork"      -> n + 9
    [] s.pc = "forked"    -> n + 5
    [] s.pc = "known"     -> n + 4
    [] s.pc = "waiting"   -> n + 3
    [] s.pc = "restore"   -> n + 2
    [] s.pc = "restoring" -> Cardinality(s.todo) + 1
    [] OTHER              -> 0
AdapterSteps(s) ==
  CASE s.adapter = "child"               -> 3
    [] s.adapter = "grouped"             -> 2
    [] s.adapter \in {"running", "told"} -> 1
    [] OTHER                             -> 0
StepsLeft(s) == OwnSteps(s) + AdapterSteps(s)

(* Whatever Main, devices, signals and other coordinators do, nothing adds *)
(* to what a coordinator has left, and each step of its own or of its      *)
(* adapter takes some away.                                                *)
CoordinatorsBounded ==
  [][\A c \in Coordinators : co[c].pc # "off" =>
       /\ StepsLeft(co[c])' <= StepsLeft(co[c])
       /\ Coordinate(c) \/ Adapter(c) => StepsLeft(co[c])' < StepsLeft(co[c])]_vars

(* Every coordinator ends, after a bounded number of steps: no wait for    *)
(* Main lasts for ever.                                                    *)
CoordinatorEnds ==
  /\ CoordinatorsBounded
  /\ \A c \in Coordinators : co[c].pc # "off" ~> co[c].pc = "exited"

=============================================================================
