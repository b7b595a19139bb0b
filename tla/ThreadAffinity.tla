--------------------------- MODULE ThreadAffinity ---------------------------
(***************************************************************************)
(* The library run.sh preloads into the game: it pins the main thread to   *)
(* some of the process's CPUs and gives every other thread all of them.    *)
(* A thread inherits the mask of the one that creates it.                  *)
(***************************************************************************)
EXTENDS Integers, FiniteSets

CONSTANTS
  Threads,  \* the game's threads
  Main,     \* the first of them
  Cpus      \* 0 .. CPU_SETSIZE - 1

VARIABLES
  library,  \* loading (pin_main_thread) or ready
  others,   \* the mask recorded; static, so empty before
  split,    \* pthread_create is to wrap the start routine
  mask,     \* each thread's CPU mask
  stage,    \* each thread: none, starting (in start_thread) or running
  process,  \* the process's mask, as run.sh set it (history)
  unlucky   \* threads without memory to wrap them, or refused (history)

vars == <<library, others, split, mask, stage, process, unlucky>>

Masks == SUBSET Cpus \ {{}}

\* MISTER_MAIN_CPUS: ranges, as parse_cpus reads them; 0 by default.
Numbers == Cpus \cup {Cardinality(Cpus), -1}
Lists == {<<>>} \cup {<<r>> : r \in Numbers \X Numbers}
         \cup {<<a, b>> : a, b \in {<<c, c>> : c \in Cpus}}

Valid(list) == \A i \in DOMAIN list :
  list[i][1] \in Cpus /\ list[i][2] \in Cpus /\ list[i][1] <= list[i][2]

Parsed(list) ==
  IF list = <<>> THEN {0}
  ELSE UNION {list[i][1] .. list[i][2] : i \in DOMAIN list}

Init ==
  /\ library = "loading" /\ others = {} /\ split = FALSE
  /\ process \in Masks
  /\ mask = [t \in Threads |-> IF t = Main THEN process ELSE {}]
  /\ stage = [t \in Threads |-> IF t = Main THEN "running" ELSE "none"]
  /\ unlucky = {}

-----------------------------------------------------------------------------

\* No mask, no valid list or no common CPU: nothing is changed.
LeaveMasks(list) ==
  /\ library = "loading" /\ library' = "ready"
  /\ \/ others' = others
     \/ /\ ~Valid(list) \/ Parsed(list) \cap mask[Main] = {}
        /\ others' = mask[Main]
  /\ UNCHANGED <<split, mask, stage, process, unlucky>>

\* pin_main_thread; sched_setaffinity may refuse.
PinMainThread(list, done) ==
  /\ library = "loading" /\ library' = "ready"
  /\ Valid(list) /\ Parsed(list) \cap mask[Main] # {}
  /\ others' = mask[Main]
  /\ mask' = IF done THEN [mask EXCEPT ![Main] = Parsed(list) \cap @] ELSE mask
  /\ split' = (done /\ Parsed(list) \cap mask[Main] # others')
  /\ UNCHANGED <<stage, process, unlucky>>

\* A call that fails frees struct start; without memory for one the real
\* pthread_create gets the routine.
PthreadCreate(creator, t, memory) ==
  /\ library = "ready"
  /\ stage[creator] = "running" /\ stage[t] = "none"
  /\ stage' = [stage EXCEPT ![t] = IF split /\ memory THEN "starting" ELSE "running"]
  /\ mask' = [mask EXCEPT ![t] = mask[creator]]
  /\ unlucky' = IF split /\ ~memory THEN unlucky \cup {t} ELSE unlucky
  /\ UNCHANGED <<library, others, split, process>>

\* Slip: the new thread does not restore the mask.
StartThread_Inherits(t, done) ==
  /\ stage[t] = "starting" /\ stage' = [stage EXCEPT ![t] = "running"]
  /\ UNCHANGED <<library, others, split, mask, process, unlucky>>

\* start_thread; what sched_setaffinity returns is not looked at.
StartThread(t, done) ==
  /\ stage[t] = "starting" /\ stage' = [stage EXCEPT ![t] = "running"]
  /\ mask' = IF done THEN [mask EXCEPT ![t] = others] ELSE mask
  /\ unlucky' = IF done THEN unlucky ELSE unlucky \cup {t}
  /\ UNCHANGED <<library, others, split, process>>

\* Any thread but the main one may end, and its name be used again.
ThreadEnds(t) ==
  /\ t # Main /\ stage[t] = "running"
  /\ stage' = [stage EXCEPT ![t] = "none"]
  /\ unlucky' = unlucky \ {t}
  /\ UNCHANGED <<library, others, split, mask, process>>

Next ==
  \/ \E list \in Lists : LeaveMasks(list) \/ \E done \in BOOLEAN : PinMainThread(list, done)
  \/ \E creator, t \in Threads, memory \in BOOLEAN : PthreadCreate(creator, t, memory)
  \/ \E t \in Threads, done \in BOOLEAN : StartThread(t, done)
  \/ \E t \in Threads : ThreadEnds(t)

Spec == Init /\ [][Next]_vars

-----------------------------------------------------------------------------

TypeOK ==
  /\ library \in {"loading", "ready"} /\ split \in BOOLEAN
  /\ others \subseteq Cpus /\ process \subseteq Cpus
  /\ mask \in [Threads -> SUBSET Cpus]
  /\ stage \in [Threads -> {"none", "starting", "running"}]
  /\ unlucky \subseteq Threads

(* The main thread's narrow mask stays its own: whatever thread created    *)
(* it, a thread runs the game's code on every CPU of the process, unless   *)
(* there was no memory to wrap its start or the kernel refused.            *)
OthersSpread ==
  \A t \in Threads \ {Main} :
    stage[t] = "running" /\ t \notin unlucky => mask[t] = process

=============================================================================
