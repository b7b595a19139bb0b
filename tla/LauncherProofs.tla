---------------------------- MODULE LauncherProofs ----------------------------
(***************************************************************************)
(* Proofs about Launcher, for any number of coordinators, Mains and        *)
(* devices, and however often devices come and go, signals arrive and      *)
(* grabs fail.                                                             *)
(***************************************************************************)
EXTENDS Launcher, FiniteSetTheorems, TLAPS

Places == {"off", "watch", "settle", "release", "releasing", "probe", "probing",
           "reject", "await", "show", "fork", "forked", "known", "waiting",
           "restore", "restoring", "exited"}
Goals == {"none", "game", "handoff", "leaving", "back"}
Keyboards == {"none", "made", "open", "handoff", "restore"}
AdapterStates == {"none", "child", "grouped", "running", "told", "ended"}
Exits == {"none", "locked", "stopped", "timeout", "vanished", "failed", "rejected",
          "adapter"}
Tries == 0 .. Passes - 1

Coordinator ==
  [pc : Places, initial : Mains \cup {Nobody}, mi : Mains \cup {Nobody},
   stop : BOOLEAN, todo : SUBSET Devices, at : Devices \cup {Nobody},
   found : BOOLEAN, missed : BOOLEAN, goal : Goals, busy : BOOLEAN, tries : Tries,
   keyboard : Keyboards, adapter : AdapterStates, known : BOOLEAN, exit : Exits]

Main == [state : {"unborn", "alive", "dead"}, kind : Kinds,
         open : SUBSET Devices, fb : BOOLEAN]

(* Devices, their holders and the Mains.                                   *)
WorldOK ==
  /\ plugged \subseteq Devices /\ fresh \subseteq Devices
  /\ holder \in [Devices -> Processes \cup {Nobody}]
  /\ \A d \in Devices \ plugged : holder[d] = Nobody
  /\ main \in [Mains -> Main]
  /\ \A m \in Mains : main[m].open \subseteq plugged

(* A coordinator walks the descriptors of a Main it has seen alive.        *)
CoordinatorsOK ==
  /\ lock \in Coordinators \cup {Nobody}
  /\ co \in [Coordinators -> Coordinator]
  /\ \A c \in Coordinators :
       co[c].pc \in {"releasing", "restoring"} => co[c].mi \in Mains

TypeInv == WorldOK /\ CoordinatorsOK

-----------------------------------------------------------------------------

\* The places, goals and keyboard states that actions name.
LEMMA Names ==
  /\ \A p \in {"off", "watch", "settle", "release", "releasing", "probe", "probing",
               "reject", "await", "show", "fork", "forked", "known", "waiting",
               "restore", "restoring", "exited"} : p \in Places
  /\ \A g \in {"none", "game", "handoff", "leaving", "back"} : g \in Goals
  /\ \A k \in {"none", "made", "open", "handoff", "restore"} : k \in Keyboards
  /\ \A a \in {"none", "child", "grouped", "running", "told", "ended"} :
       a \in AdapterStates
  /\ \A e \in {"none", "locked", "stopped", "timeout", "vanished", "failed",
               "rejected", "adapter"} : e \in Exits
  /\ 0 \in Tries
BY BoundsAssumption DEF Places, Goals, Keyboards, AdapterStates, Exits, Tries

\* The inductive types imply those TLC checks.
LEMMA TypeImplied == TypeInv => TypeOK
<1> SUFFICES ASSUME TypeInv PROVE TypeOK
  OBVIOUS
<1>1. \A c \in Coordinators : co[c] \in Coordinator
  BY DEF TypeInv, CoordinatorsOK
<1>2. \A c \in Coordinators :
        /\ co[c].tries \in Tries
        /\ co[c].mi \in Mains \cup {Nobody} /\ co[c].todo \subseteq Devices
  BY <1>1 DEF Coordinator
<1> QED BY <1>2 DEF TypeInv, TypeOK, WorldOK, CoordinatorsOK, Main, Tries

(* A step that replaces one coordinator's record by another.               *)
LEMMA Replace ==
  ASSUME CoordinatorsOK, NEW c \in Coordinators, NEW r \in Coordinator,
         co' = [co EXCEPT ![c] = r], lock' \in Coordinators \cup {Nobody},
         r.pc \in {"releasing", "restoring"} => r.mi \in Mains
  PROVE  CoordinatorsOK'
BY DEF CoordinatorsOK

-----------------------------------------------------------------------------

\* Before anything has started the types hold.
LEMMA InitType == Init => TypeInv
<1> SUFFICES ASSUME Init PROVE TypeInv
  OBVIOUS
<1>1. Idle \in Coordinator /\ Idle.pc = "off"
  BY Names DEF Idle, Coordinator
<1>2. co \in [Coordinators -> Coordinator] /\ \A c \in Coordinators : co[c].pc = "off"
  BY <1>1 DEF Init
<1>3. main \in [Mains -> Main] /\ \A m \in Mains : main[m].open \subseteq plugged
  BY DEF Init, Kinds, Main
<1>4. /\ holder \in [Devices -> Processes \cup {Nobody}]
      /\ \A d \in Devices \ plugged : holder[d] = Nobody
  BY ProcessesAssumption DEF Init, Processes
<1>5. plugged \subseteq Devices /\ lock \in Coordinators \cup {Nobody} /\ fresh \subseteq Devices
  BY DEF Init
<1> QED BY <1>2, <1>3, <1>4, <1>5 DEF TypeInv, WorldOK, CoordinatorsOK

(* Actions of Main and of the kernel keep the world's types.               *)
LEMMA OutsideWorld ==
  ASSUME TypeInv,
         \/ \E m \in Mains : \/ MainDies(m)
                             \/ \E kind \in Kinds : MainStarts(m, kind)
                             \/ \E d \in Devices : MainOpens(m, d)
         \/ \E d \in Devices : Plug(d)
         \/ \E c \in Coordinators : MainReads(c)
  PROVE  WorldOK'
<1> USE DEF TypeInv, WorldOK, Processes, Main
<1>1. ASSUME NEW m \in Mains, MainDies(m) PROVE WorldOK'
  BY <1>1 DEF MainDies, Released
<1>2. ASSUME NEW m \in Mains, NEW kind \in Kinds, MainStarts(m, kind) PROVE WorldOK'
  BY <1>2 DEF MainStarts, Grabbed
<1>3. ASSUME NEW m \in Mains, NEW d \in Devices, MainOpens(m, d) PROVE WorldOK'
  BY <1>3 DEF MainOpens, Grabbed
<1>4. ASSUME NEW d \in Devices, Plug(d) PROVE WorldOK'
  BY <1>4 DEF Plug
<1>5. ASSUME NEW c \in Coordinators, MainReads(c) PROVE WorldOK'
  <2>1. co[c].mi \in Mains
    <3>1. co[c] \in Coordinator BY DEF CoordinatorsOK
    <3> QED BY <1>5, <3>1 DEF MainReads, Alive, Coordinator
  <2>2. main' \in [Mains -> Main] /\ \A m \in Mains : main'[m].open = main[m].open
    <3> DEFINE b == co[c].keyboard = "handoff"
    <3>1. main' = [main EXCEPT ![co[c].mi].fb = b] /\ b \in BOOLEAN
      BY <1>5 DEF MainReads
    <3> HIDE DEF b
    <3> QED BY <2>1, <3>1
  <2>3. /\ holder' \in [Devices -> Processes \cup {Nobody}]
        /\ \A d \in Devices \ plugged : holder'[d] = Nobody
    BY <1>5, <2>1 DEF MainReads, Grabbed, Released
  <2> QED BY <1>5, <2>2, <2>3 DEF MainReads
<1> QED BY <1>1, <1>2, <1>3, <1>4, <1>5

(* A coordinator takes devices for itself, for Main or for nobody.         *)
LEMMA CoordinatorWorld ==
  ASSUME TypeInv, NEW c \in Coordinators, Coordinate(c)
  PROVE  WorldOK'
<1> USE DEF TypeInv, WorldOK, Processes
<1>1. ASSUME NEW d \in Devices, ChangeGrab(c, d) PROVE WorldOK'
  <2>1. co[c].mi \in Mains
    BY <1>1 DEF ChangeGrab, CoordinatorsOK
  <2> QED BY <1>1, <2>1 DEF ChangeGrab, CanChange, To
<1>2. ASSUME NEW d \in Devices, ProbeTakes(c, d) PROVE WorldOK'
  BY <1>2 DEF ProbeTakes
<1>3. CASE ProbeGives(c)
  BY <1>3 DEF ProbeGives
<1>4. CASE BeginProbe(c)
  BY <1>4 DEF BeginProbe, devices
<1>5. ASSUME UNCHANGED <<devices, main, fresh>> PROVE WorldOK'
  BY <1>5 DEF devices
<1> QED BY <1>1, <1>2, <1>3, <1>4, <1>5
     DEF Coordinate, Find, GiveUp, Settle, BeginGrabs, EndGrabs, SkipClosed,
         EndProbe, MakeKeyboard, SendHandoffKey, NotOpened, EndShow, Fork,
         KnowAdapter, SetGroup, Reap

(* A coordinator's step, or one that concerns it, changes its own record.  *)
LEMMA CoordinatorType ==
  ASSUME TypeInv, NEW c \in Coordinators,
         Coordinate(c) \/ Adapter(c) \/ Start(c) \/ Signal(c) \/ MainOpensKeyboard(c)
           \/ MainReads(c) \/ \E d \in Devices : GrabFails(c, d)
  PROVE  CoordinatorsOK'
<1> USE DEF At, Goto
<1>1. CoordinatorsOK /\ lock \in Coordinators \cup {Nobody} /\ main \in [Mains -> Main]
  BY DEF TypeInv, CoordinatorsOK, WorldOK
<1>2. /\ co[c] \in Coordinator
      /\ co[c].pc \in {"releasing", "restoring"} => co[c].mi \in Mains
  BY <1>1 DEF CoordinatorsOK
<1>3. ASSUME NEW rc \in Exits, Exit(c, rc) PROVE CoordinatorsOK'
  <2> DEFINE r == [co[c] EXCEPT !.pc = "exited", !.exit = rc, !.keyboard = "none",
                                !.at = Nobody]
  <2>1. r \in Coordinator /\ r.pc = "exited"
    BY Names, <1>2 DEF Coordinator
  <2>2. co' = [co EXCEPT ![c] = r] /\ lock' \in Coordinators \cup {Nobody}
    BY <1>1, <1>3 DEF Exit
  <2> QED BY <1>1, <2>1, <2>2, Replace
<1>4. ASSUME NEW m \in Mains, Find(c, m) PROVE CoordinatorsOK'
  <2> DEFINE r == [co[c] EXCEPT !.pc = "settle", !.mi = m]
  <2>1. r \in Coordinator /\ r.pc = "settle"
    BY Names, <1>2 DEF Coordinator
  <2>2. co' = [co EXCEPT ![c] = r] /\ lock' = lock
    BY <1>4 DEF Find
  <2> QED BY <1>1, <2>1, <2>2, Replace
<1>5. ASSUME NEW p \in {"fork", "show", "restore", "release", "reject"},
           Goto(c, p), lock' = lock
      PROVE  CoordinatorsOK'
  <2> DEFINE r == [co[c] EXCEPT !.pc = p]
  <2>1. r \in Coordinator /\ r.pc = p
    BY Names, <1>2 DEF Coordinator
  <2>2. co' = [co EXCEPT ![c] = r]
    BY <1>5
  <2> QED BY <1>1, <1>5, <2>1, <2>2, Replace
<1>6. CASE GiveUp(c)
  BY <1>3, <1>6, Names DEF GiveUp
<1>7. CASE Settle(c)
  BY <1>3, <1>5, <1>7, Names DEF Settle
<1>8. CASE BeginGrabs(c)
  <2>1. CASE ~Alive(co[c].mi)
    <3>1. AfterFailure(c) \in Exits
      BY Names DEF AfterFailure
    <3> QED BY <1>3, <1>8, <2>1, <3>1 DEF BeginGrabs
  <2>2. CASE Alive(co[c].mi)
    <3> DEFINE p == IF co[c].pc = "release" THEN "releasing" ELSE "restoring"
               r == [co[c] EXCEPT !.pc = p, !.todo = main[co[c].mi].open,
                                  !.found = FALSE, !.missed = FALSE]
    <3>1. co[c].mi \in Mains
      BY <1>2, <2>2 DEF Alive, Coordinator
    <3>2. main[co[c].mi].open \subseteq Devices /\ p \in Places
      BY <1>1, <3>1, Names DEF Main
    <3> HIDE DEF p
    <3>3. r \in Coordinator /\ r.mi = co[c].mi
      BY <1>2, <3>2 DEF Coordinator
    <3>4. co' = [co EXCEPT ![c] = r] /\ lock' = lock
      BY <1>8, <2>2 DEF BeginGrabs, p
    <3> QED BY <1>1, <3>1, <3>3, <3>4, Replace
  <2> QED BY <2>1, <2>2
<1>9. CASE EndGrabs(c)
  <2>1. CASE At(c, "restoring") \/ ~co[c].found \/ co[c].missed
    <3>1. AfterFailure(c) \in Exits
      BY Names DEF AfterFailure
    <3> QED BY <1>3, <1>9, <2>1, <3>1 DEF EndGrabs
  <2>2. CASE ~(At(c, "restoring") \/ ~co[c].found \/ co[c].missed)
    <3> DEFINE r == [co[c] EXCEPT !.pc = "probe", !.goal = "game", !.tries = 0]
    <3>1. r \in Coordinator /\ r.pc = "probe"
      BY Names, <1>2 DEF Coordinator
    <3>2. co' = [co EXCEPT ![c] = r] /\ lock' = lock
      BY <1>9, <2>2 DEF EndGrabs
    <3> QED BY <1>1, <3>1, <3>2, Replace
  <2> QED BY <2>1, <2>2
<1>10. ASSUME NEW ds \in SUBSET Devices, NEW missed \in BOOLEAN,
           co' = [co EXCEPT ![c].todo = ds, ![c].found = TRUE, ![c].missed = missed],
           lock' = lock
      PROVE  CoordinatorsOK'
  <2> DEFINE r == [co[c] EXCEPT !.todo = ds, !.found = TRUE, !.missed = missed]
  <2>1. r \in Coordinator /\ r.pc = co[c].pc /\ r.mi = co[c].mi
    BY <1>2 DEF Coordinator
  <2>2. co' = [co EXCEPT ![c] = r]
    BY <1>10
  <2> QED BY <1>1, <1>2, <1>10, <2>1, <2>2, Replace
<1>11. ASSUME NEW d \in Devices, ChangeGrab(c, d) \/ GrabFails(c, d)
      PROVE  CoordinatorsOK'
  <2>1. co[c].todo \ {d} \in SUBSET Devices /\ co[c].missed \in BOOLEAN
    BY <1>2 DEF Coordinator
  <2>2. CASE ChangeGrab(c, d)
    BY <2>1, <2>2, <1>10 DEF ChangeGrab, Left
  <2>3. CASE GrabFails(c, d)
    BY <2>1, <2>3, <1>10 DEF GrabFails, Left
  <2> QED BY <1>11, <2>2, <2>3
<1>12. ASSUME NEW d \in Devices, SkipClosed(c, d) PROVE CoordinatorsOK'
  <2> DEFINE r == [co[c] EXCEPT !.todo = @ \ {d}]
  <2>1. r \in Coordinator /\ r.pc = co[c].pc /\ r.mi = co[c].mi
    BY Names, <1>2 DEF Coordinator
  <2>2. co' = [co EXCEPT ![c] = r] /\ lock' = lock
    BY <1>12 DEF SkipClosed
  <2> QED BY <1>1, <1>2, <2>1, <2>2, Replace
<1>13. ASSUME NEW d \in Devices, ProbeTakes(c, d) PROVE CoordinatorsOK'
  <2>1. ASSUME NEW r \in Coordinator, r.pc = "probing", co' = [co EXCEPT ![c] = r]
        PROVE  CoordinatorsOK'
    BY <1>1, <1>13, <2>1, Replace DEF ProbeTakes
  <2>2. CASE d \notin plugged
    <3>1. [co[c] EXCEPT !.todo = @ \ {d}] \in Coordinator
      BY <1>2 DEF Coordinator
    <3> QED BY <1>2, <1>13, <2>1, <2>2, <3>1 DEF ProbeTakes, Coordinator
  <2>3. CASE d \in plugged /\ holder[d] = Nobody
    <3>1. [co[c] EXCEPT !.at = d, !.found = TRUE] \in Coordinator
      BY <1>2 DEF Coordinator
    <3> QED BY <1>2, <1>13, <2>1, <2>3, <3>1 DEF ProbeTakes, Coordinator
  <2>4. CASE d \in plugged /\ holder[d] # Nobody
    <3>1. [co[c] EXCEPT !.todo = @ \ {d}, !.found = TRUE, !.busy = TRUE] \in Coordinator
      BY <1>2 DEF Coordinator
    <3> QED BY <1>2, <1>13, <2>1, <2>4, <3>1 DEF ProbeTakes, Coordinator
  <2> QED BY <2>2, <2>3, <2>4
<1>14. CASE BeginProbe(c)
  <2> DEFINE r == [co[c] EXCEPT !.pc = "probing", !.todo = plugged, !.found = FALSE,
                                !.busy = FALSE]
  <2>1. r \in Coordinator /\ r.pc = "probing"
    BY Names, <1>2 DEF Coordinator, TypeInv, WorldOK
  <2>2. co' = [co EXCEPT ![c] = r] /\ lock' = lock
    BY <1>14 DEF BeginProbe
  <2> QED BY <1>1, <2>1, <2>2, Replace
<1>15. CASE ProbeGives(c)
  <2> DEFINE r == [co[c] EXCEPT !.todo = @ \ {co[c].at}, !.at = Nobody]
  <2>1. r \in Coordinator /\ r.pc = co[c].pc /\ r.mi = co[c].mi
    BY Names, <1>2 DEF Coordinator
  <2>2. co' = [co EXCEPT ![c] = r] /\ lock' = lock
    BY <1>15 DEF ProbeGives
  <2> QED BY <1>1, <1>2, <2>1, <2>2, Replace
<1>16. CASE EndProbe(c)
  <2>1. CASE Again(c)
    <3> DEFINE t == (co[c].tries + 1) % Passes
               r == [co[c] EXCEPT !.pc = "probe", !.tries = t]
    <3>1. co[c].tries \in Tries
      BY <1>2 DEF Coordinator
    <3>2. t \in Tries
      BY <3>1, BoundsAssumption DEF Tries
    <3> HIDE DEF t
    <3>3. r \in Coordinator /\ r.pc = "probe"
      BY Names, <1>2, <3>2 DEF Coordinator
    <3>4. co' = [co EXCEPT ![c] = r] /\ lock' = lock
      BY <1>16, <2>1 DEF EndProbe, t
    <3> QED BY <1>1, <3>3, <3>4, Replace
  <2>2. CASE ~Again(c) /\ co[c].goal = "game"
    BY <1>3, <1>5, <1>16, <2>2, Names DEF EndProbe
  <2>3. CASE ~Again(c) /\ co[c].goal = "handoff"
    BY <1>3, <1>5, <1>16, <2>3, Names DEF EndProbe
  <2>4. CASE ~Again(c) /\ co[c].goal = "leaving" /\ Free(c)
    <3> DEFINE r == [co[c] EXCEPT !.pc = "probe", !.goal = "back", !.tries = 0,
                                  !.keyboard = "restore"]
    <3>1. r \in Coordinator /\ r.pc = "probe"
      BY Names, <1>2 DEF Coordinator
    <3>2. co' = [co EXCEPT ![c] = r] /\ lock' = lock
      BY <1>16, <2>4 DEF EndProbe
    <3> QED BY <1>1, <3>1, <3>2, Replace
  <2>5. CASE ~Again(c) /\ co[c].goal = "leaving" /\ ~Free(c)
    BY <1>3, <1>16, <2>5, Names DEF EndProbe
  <2>6. CASE ~Again(c) /\ co[c].goal = "back"
    BY <1>3, <1>16, <2>6, Names DEF EndProbe
  <2> QED BY <1>16, <2>1, <2>2, <2>3, <2>4, <2>5, <2>6 DEF EndProbe
<1>17. CASE MakeKeyboard(c)
  <2>1. CASE Exit(c, "rejected")
    BY <1>3, <2>1, Names
  <2>2. CASE ~Exit(c, "rejected")
    <3> DEFINE r == [co[c] EXCEPT !.pc = "await", !.keyboard = "made"]
    <3>1. r \in Coordinator /\ r.pc = "await"
      BY Names, <1>2 DEF Coordinator
    <3>2. co' = [co EXCEPT ![c] = r] /\ lock' = lock
      BY <1>17, <2>2 DEF MakeKeyboard
    <3> QED BY <1>1, <3>1, <3>2, Replace
  <2> QED BY <2>1, <2>2
<1>18. CASE SendHandoffKey(c)
  <2> DEFINE r == [co[c] EXCEPT !.pc = "probe", !.goal = "handoff", !.tries = 0,
                                !.keyboard = "handoff"]
  <2>1. r \in Coordinator /\ r.pc = "probe"
    BY Names, <1>2 DEF Coordinator
  <2>2. co' = [co EXCEPT ![c] = r] /\ lock' = lock
    BY <1>18 DEF SendHandoffKey
  <2> QED BY <1>1, <1>2, <2>1, <2>2, Replace
<1>19. CASE NotOpened(c)
  BY <1>3, <1>19, Names DEF NotOpened
<1>20. CASE EndShow(c)
  <2> DEFINE r == [co[c] EXCEPT !.pc = "probe", !.goal = "leaving"]
  <2>1. r \in Coordinator /\ r.pc = "probe"
    BY Names, <1>2 DEF Coordinator
  <2>2. co' = [co EXCEPT ![c] = r] /\ lock' = lock
    BY <1>20 DEF EndShow
  <2> QED BY <1>1, <1>2, <2>1, <2>2, Replace
<1>21. CASE Fork(c)
  <2>1. CASE Goto(c, "restore")
    BY <1>5, <1>21, <2>1 DEF Fork
  <2>2. CASE ~Goto(c, "restore")
    <3> DEFINE r == [co[c] EXCEPT !.pc = "forked", !.adapter = "child"]
    <3>1. r \in Coordinator /\ r.pc = "forked"
      BY Names, <1>2 DEF Coordinator
    <3>2. co' = [co EXCEPT ![c] = r] /\ lock' = lock
      BY <1>21, <2>2 DEF Fork
    <3> QED BY <1>1, <3>1, <3>2, Replace
  <2> QED BY <2>1, <2>2
<1>22. CASE KnowAdapter(c)
  <2> DEFINE r == [co[c] EXCEPT !.pc = "known", !.known = TRUE]
  <2>1. r \in Coordinator /\ r.pc = "known"
    BY Names, <1>2 DEF Coordinator
  <2>2. co' = [co EXCEPT ![c] = r] /\ lock' = lock
    BY <1>22 DEF KnowAdapter
  <2> QED BY <1>1, <1>2, <2>1, <2>2, Replace
<1>23. CASE SetGroup(c)
  <2> DEFINE r == [co[c] EXCEPT !.pc = "waiting",
                        !.adapter = IF @ = "child" THEN "grouped" ELSE @]
  <2>1. r \in Coordinator /\ r.pc = "waiting"
    BY Names, <1>2 DEF Coordinator
  <2>2. co' = [co EXCEPT ![c] = r] /\ lock' = lock
    BY <1>23 DEF SetGroup
  <2> QED BY <1>1, <1>2, <2>1, <2>2, Replace
<1>24. CASE Reap(c)
  <2> DEFINE r == [co[c] EXCEPT !.pc = "restore", !.known = FALSE]
  <2>1. r \in Coordinator /\ r.pc = "restore"
    BY Names, <1>2 DEF Coordinator
  <2>2. co' = [co EXCEPT ![c] = r] /\ lock' = lock
    BY <1>24 DEF Reap
  <2> QED BY <1>1, <1>2, <2>1, <2>2, Replace
<1>25. CASE AdapterStep(c)
  <2> DEFINE r == [co[c] EXCEPT !.adapter = IF @ = "child" THEN "grouped" ELSE "running"]
  <2>1. r \in Coordinator /\ r.pc = co[c].pc /\ r.mi = co[c].mi
    BY Names, <1>2 DEF Coordinator
  <2>2. co' = [co EXCEPT ![c] = r] /\ lock' = lock
    BY <1>25 DEF AdapterStep
  <2> QED BY <1>1, <1>2, <2>1, <2>2, Replace
<1>26. CASE AdapterEnds(c)
  <2> DEFINE r == [co[c] EXCEPT !.adapter = "ended"]
  <2>1. r \in Coordinator /\ r.pc = co[c].pc /\ r.mi = co[c].mi
    BY Names, <1>2 DEF Coordinator
  <2>2. co' = [co EXCEPT ![c] = r] /\ lock' = lock
    BY <1>26 DEF AdapterEnds
  <2> QED BY <1>1, <1>2, <2>1, <2>2, Replace
<1>27. CASE Start(c)
  <2>1. CASE lock # Nobody
    BY <1>3, <1>27, <2>1, Names DEF Start
  <2>2. CASE lock = Nobody
    <3>1. PICK m \in Mains \cup {Nobody} :
            co' = [co EXCEPT ![c].pc = "watch", ![c].initial = m]
      BY <1>27, <2>2 DEF Start
    <3> DEFINE r == [co[c] EXCEPT !.pc = "watch", !.initial = m]
    <3>2. r \in Coordinator /\ r.pc = "watch"
      BY Names, <1>2 DEF Coordinator
    <3>3. co' = [co EXCEPT ![c] = r] /\ lock' \in Coordinators \cup {Nobody}
      BY <1>27, <2>2, <3>1 DEF Start
    <3> QED BY <1>1, <3>2, <3>3, Replace
  <2> QED BY <2>1, <2>2
<1>28. CASE Signal(c)
  <2> DEFINE r == [co[c] EXCEPT !.stop = TRUE,
             !.adapter = IF co[c].known /\ @ = "running" THEN "told" ELSE @]
  <2>1. r \in Coordinator /\ r.pc = co[c].pc /\ r.mi = co[c].mi
    BY Names, <1>2 DEF Coordinator
  <2>2. co' = [co EXCEPT ![c] = r] /\ lock' = lock
    BY <1>28 DEF Signal
  <2> QED BY <1>1, <1>2, <2>1, <2>2, Replace
<1>29. CASE MainOpensKeyboard(c)
  <2> DEFINE r == [co[c] EXCEPT !.keyboard = "open"]
  <2>1. r \in Coordinator /\ r.pc = co[c].pc /\ r.mi = co[c].mi
    BY Names, <1>2 DEF Coordinator
  <2>2. co' = [co EXCEPT ![c] = r] /\ lock' = lock
    BY <1>29 DEF MainOpensKeyboard
  <2> QED BY <1>1, <1>2, <2>1, <2>2, Replace
<1>30. CASE MainReads(c)
  <2> DEFINE r == [co[c] EXCEPT !.keyboard = "open"]
  <2>1. r \in Coordinator /\ r.pc = co[c].pc /\ r.mi = co[c].mi
    BY Names, <1>2 DEF Coordinator
  <2>2. co' = [co EXCEPT ![c] = r] /\ lock' = lock
    BY <1>30 DEF MainReads
  <2> QED BY <1>1, <1>2, <2>1, <2>2, Replace
<1> QED BY <1>4, <1>6, <1>7, <1>8, <1>9, <1>11, <1>12, <1>13, <1>14, <1>15,
           <1>16, <1>17, <1>18, <1>19, <1>20, <1>21, <1>22, <1>23, <1>24, <1>25,
           <1>26, <1>27, <1>28, <1>29, <1>30
     DEF Coordinate, Adapter

\* Every step keeps the types.
LEMMA NextType == TypeInv /\ [Next]_vars => TypeInv'
<1> SUFFICES ASSUME TypeInv, [Next]_vars PROVE TypeInv'
  OBVIOUS
<1>1. CASE UNCHANGED vars
  BY <1>1 DEF vars, TypeInv, WorldOK, CoordinatorsOK
<1>2. ASSUME NEW c \in Coordinators, Coordinate(c) PROVE TypeInv'
  BY <1>2, CoordinatorWorld, CoordinatorType DEF TypeInv
<1>3. ASSUME NEW c \in Coordinators, MainReads(c) PROVE TypeInv'
  BY <1>3, OutsideWorld, CoordinatorType DEF TypeInv
<1>4. ASSUME NEW c \in Coordinators,
             Adapter(c) \/ Start(c) \/ Signal(c) \/ MainOpensKeyboard(c)
               \/ \E d \in Devices : GrabFails(c, d)
      PROVE  TypeInv'
  <2>1. CoordinatorsOK'
    BY <1>4, CoordinatorType
  <2>2. UNCHANGED <<plugged, holder, main, fresh>>
    BY <1>4 DEF Adapter, AdapterStep, AdapterEnds, Start, Signal, MainOpensKeyboard,
                GrabFails, devices
  <2> QED BY <2>1, <2>2 DEF TypeInv, WorldOK
<1>5. ASSUME \/ \E m \in Mains : \/ MainDies(m)
                                 \/ \E kind \in Kinds : MainStarts(m, kind)
                                 \/ \E d \in Devices : MainOpens(m, d)
             \/ \E d \in Devices : Plug(d)
      PROVE  TypeInv'
  <2>1. WorldOK'
    BY <1>5, OutsideWorld
  <2>2. UNCHANGED <<lock, co>>
    BY <1>5 DEF MainDies, MainStarts, MainOpens, Plug
  <2> QED BY <2>1, <2>2 DEF TypeInv, CoordinatorsOK
<1> QED BY <1>1, <1>2, <1>3, <1>4, <1>5 DEF Next, Outside

(* The state keeps its types: no coordinator ever walks a Main it has not  *)
(* seen, and what a Main holds or has open is plugged.                     *)
THEOREM LauncherTypes == Spec => []TypeOK
<1>1. TypeInv => TypeOK
  BY TypeImplied
<1> QED BY <1>1, InitType, NextType, PTL DEF Spec

-----------------------------------------------------------------------------
(***************************************************************************)
(* One game at a time.  A coordinator past the lock holds it, and its      *)
(* child lives only while it forks or waits for it.                        *)
(***************************************************************************)

Working(c) == co[c].pc \notin {"off", "exited"}

Held(c) ==
  /\ Working(c) => lock = c
  /\ Playing(c) => co[c].pc \in {"forked", "known", "waiting"}
  /\ co[c].at # Nobody => co[c].pc = "probing"
  /\ co[c].keyboard # "none" =>
       /\ co[c].pc \in {"await", "probe", "probing", "show"}
       /\ co[c].pc \in {"probe", "probing"} => co[c].goal # "game"

LockInv == \A c \in Coordinators : Held(c)

\* No coordinator has the lock file at first.
LEMMA InitLock == Init => LockInv
BY DEF Init, Idle, LockInv, Held, Working, Playing

(* The step leaves the other coordinators alone.                           *)
LEMMA Others ==
  ASSUME TypeInv, NEW c \in Coordinators,
         Coordinate(c) \/ Adapter(c) \/ Start(c) \/ Signal(c) \/ MainOpensKeyboard(c)
           \/ MainReads(c) \/ \E d \in Devices : GrabFails(c, d),
         NEW e \in Coordinators, e # c
  PROVE  co'[e] = co[e]
<1>1. co \in [Coordinators -> Coordinator]
  BY DEF TypeInv, CoordinatorsOK
<1> QED BY <1>1
     DEF Coordinate, Find, GiveUp, Settle, BeginGrabs, EndGrabs, SkipClosed, ChangeGrab,
         BeginProbe, ProbeTakes, ProbeGives, EndProbe, MakeKeyboard, SendHandoffKey,
         NotOpened, EndShow, Fork, KnowAdapter, SetGroup, Reap, Exit, Goto, Adapter,
         AdapterStep, AdapterEnds, Start, Signal, MainOpensKeyboard, MainReads, GrabFails

\* Only its holder gives the lock file up.
LEMMA LockStep ==
  ASSUME NEW c \in Coordinators,
         Coordinate(c) \/ Adapter(c) \/ Start(c) \/ Signal(c) \/ MainOpensKeyboard(c)
           \/ MainReads(c) \/ \E d \in Devices : GrabFails(c, d),
         lock \notin {c, Nobody}
  PROVE  lock' = lock
BY DEF Coordinate, Find, GiveUp, Settle, BeginGrabs, EndGrabs, SkipClosed, ChangeGrab,
       BeginProbe, ProbeTakes, ProbeGives, EndProbe, MakeKeyboard, SendHandoffKey,
       NotOpened, EndShow, Fork, KnowAdapter, SetGroup, Reap, Exit, Adapter,
       AdapterStep, AdapterEnds, Start, Signal, MainOpensKeyboard, MainReads, GrabFails

\* A coordinator's own step keeps what it relies on the lock for.
LEMMA HeldKept ==
  ASSUME TypeInv, NEW c \in Coordinators, Held(c),
         Coordinate(c) \/ Adapter(c) \/ Start(c) \/ Signal(c) \/ MainOpensKeyboard(c)
           \/ MainReads(c) \/ \E d \in Devices : GrabFails(c, d)
  PROVE  Held(c)'
<1> USE DEF At, Goto, Held, Working, Playing
<1>1. co \in [Coordinators -> Coordinator] /\ co[c] \in Coordinator
  BY DEF TypeInv, CoordinatorsOK
<1>2. ASSUME NEW rc, Exit(c, rc), co[c].pc \notin {"forked", "known", "waiting"}
      PROVE  Held(c)'
  BY <1>1, <1>2 DEF Exit, Coordinator
<1>3. ASSUME NEW m \in Mains, Find(c, m) PROVE Held(c)'
  BY <1>1, <1>3 DEF Find, Coordinator
<1>4. CASE GiveUp(c)
  BY <1>1, <1>2, <1>4 DEF GiveUp, Coordinator
<1>5. CASE Settle(c)
  BY <1>1, <1>2, <1>5 DEF Settle, Coordinator
<1>6. CASE BeginGrabs(c)
  BY <1>1, <1>2, <1>6 DEF BeginGrabs, Coordinator
<1>7. CASE EndGrabs(c)
  BY <1>1, <1>2, <1>7 DEF EndGrabs, Coordinator
<1>8. ASSUME NEW d \in Devices, ChangeGrab(c, d) PROVE Held(c)'
  BY <1>1, <1>8 DEF ChangeGrab, Coordinator
<1>9. ASSUME NEW d \in Devices, SkipClosed(c, d) PROVE Held(c)'
  BY <1>1, <1>9 DEF SkipClosed, Coordinator
<1>10. ASSUME NEW d \in Devices, GrabFails(c, d) PROVE Held(c)'
  BY <1>1, <1>10 DEF GrabFails, Coordinator
<1>11. CASE BeginProbe(c)
  BY <1>1, <1>11 DEF BeginProbe, Coordinator
<1>12. ASSUME NEW d \in Devices, ProbeTakes(c, d) PROVE Held(c)'
  BY <1>1, <1>12 DEF ProbeTakes, Coordinator
<1>13. CASE ProbeGives(c)
  BY <1>1, <1>13 DEF ProbeGives, Coordinator
<1>14. CASE EndProbe(c)
  BY <1>1, <1>2, <1>14 DEF EndProbe, Coordinator
<1>15. CASE MakeKeyboard(c)
  BY <1>1, <1>2, <1>15 DEF MakeKeyboard, Coordinator
<1>16. CASE SendHandoffKey(c)
  BY <1>1, <1>16 DEF SendHandoffKey, Coordinator
<1>17. CASE NotOpened(c)
  BY <1>1, <1>2, <1>17 DEF NotOpened, Coordinator
<1>18. CASE EndShow(c)
  BY <1>1, <1>18 DEF EndShow, Coordinator
<1>19. CASE Fork(c)
  BY <1>1, <1>19 DEF Fork, Coordinator
<1>20. CASE KnowAdapter(c)
  BY <1>1, <1>20 DEF KnowAdapter, Coordinator
<1>21. CASE SetGroup(c)
  BY <1>1, <1>21 DEF SetGroup, Coordinator
<1>22. CASE Reap(c)
  BY <1>1, <1>22 DEF Reap, Coordinator
<1>23. CASE AdapterStep(c)
  BY <1>1, <1>23 DEF AdapterStep, Coordinator
<1>24. CASE AdapterEnds(c)
  BY <1>1, <1>24 DEF AdapterEnds, Coordinator
<1>25. CASE Start(c)
  BY <1>1, <1>2, <1>25 DEF Start, Coordinator
<1>26. CASE Signal(c)
  BY <1>1, <1>26 DEF Signal, Coordinator
<1>27. CASE MainOpensKeyboard(c)
  BY <1>1, <1>27 DEF MainOpensKeyboard, Coordinator
<1>28. CASE MainReads(c)
  BY <1>1, <1>28 DEF MainReads, Coordinator
<1> QED BY <1>3, <1>4, <1>5, <1>6, <1>7, <1>8, <1>9, <1>10, <1>11, <1>12,
           <1>13, <1>14, <1>15, <1>16, <1>17, <1>18, <1>19, <1>20, <1>21, <1>22,
           <1>23, <1>24, <1>25, <1>26, <1>27, <1>28
     DEF Coordinate, Adapter

\* Every step keeps the lock invariant.
LEMMA NextLock == TypeInv /\ LockInv /\ [Next]_vars => LockInv'
<1> SUFFICES ASSUME TypeInv, LockInv, [Next]_vars PROVE LockInv'
  OBVIOUS
<1>1. ASSUME UNCHANGED <<lock, co>> PROVE LockInv'
  BY <1>1 DEF LockInv, Held, Working, Playing
<1>2. ASSUME NEW c \in Coordinators,
             Coordinate(c) \/ Adapter(c) \/ Start(c) \/ Signal(c) \/ MainOpensKeyboard(c)
               \/ MainReads(c) \/ \E d \in Devices : GrabFails(c, d)
      PROVE  LockInv'
  <2>1. Held(c)'
    BY <1>2, HeldKept DEF LockInv
  <2>2. ASSUME NEW e \in Coordinators, e # c PROVE Held(e)'
    <3>1. co'[e] = co[e]
      BY <1>2, <2>2, Others
    <3>2. lock = e => lock' = e
      BY <1>2, <2>2, LockStep, ProcessesAssumption
    <3> QED BY <3>1, <3>2 DEF LockInv, Held, Working, Playing
  <2> QED BY <2>1, <2>2 DEF LockInv
<1> QED BY <1>1, <1>2
     DEF Next, Outside, vars, MainDies, MainStarts, MainOpens, Plug

\* Two living children would need two holders of the lock file.
LEMMA OneGame == LockInv => OneAdapter
BY DEF LockInv, Held, Working, OneAdapter

(* However often the script is started and Main restarts, the lock file    *)
(* keeps a second game from being started while one runs.                  *)
THEOREM OneGameAtATime == Spec => []OneAdapter
<1>1. Init => TypeInv /\ LockInv
  BY InitType, InitLock
<1>2. TypeInv /\ LockInv /\ [Next]_vars => (TypeInv /\ LockInv)'
  BY NextType, NextLock
<1>3. TypeInv /\ LockInv => OneAdapter
  BY OneGame
<1> QED BY <1>1, <1>2, <1>3, PTL DEF Spec

-----------------------------------------------------------------------------
(***************************************************************************)
(* The game gets the devices.  The probe for the game leaves behind it     *)
(* only devices Main does not hold or has opened since, and no other       *)
(* coordinator works while this one does.                                  *)
(***************************************************************************)

Clear(d) == holder[d] \in Mains => d \in fresh

Cleared(c) ==
  /\ co[c].pc = "probing" /\ co[c].goal = "game" /\ ~co[c].busy =>
       \A d \in Devices : d \notin co[c].todo \/ d = co[c].at => Clear(d)
  /\ co[c].pc \in {"fork", "forked", "known", "waiting"} =>
       \A d \in Devices : Clear(d)

ClearInv == \A c \in Coordinators : Cleared(c)

\* No probe has begun at first.
LEMMA InitClear == Init => ClearInv
BY DEF Init, Idle, ClearInv, Cleared

(* What Main and the kernel do to a device keeps it clear, unless a        *)
(* coordinator's keyboard tells Main to take everything back.              *)
LEMMA OutsideClear ==
  ASSUME TypeInv,
         \/ \E m \in Mains : \/ MainDies(m)
                             \/ \E kind \in Kinds : MainStarts(m, kind)
                             \/ \E d \in Devices : MainOpens(m, d)
         \/ \E d \in Devices : Plug(d),
         NEW x \in Devices, Clear(x)
  PROVE  Clear(x)'
<1> USE ProcessesAssumption DEF Clear, TypeInv, WorldOK
<1>1. ASSUME NEW m \in Mains, MainDies(m) PROVE Clear(x)'
  BY <1>1 DEF MainDies, Released
<1>2. ASSUME NEW m \in Mains, NEW kind \in Kinds, MainStarts(m, kind) PROVE Clear(x)'
  BY <1>2 DEF MainStarts, Grabbed
<1>3. ASSUME NEW m \in Mains, NEW d \in Devices, MainOpens(m, d) PROVE Clear(x)'
  BY <1>3 DEF MainOpens, Grabbed
<1>4. ASSUME NEW d \in Devices, Plug(d) PROVE Clear(x)'
  BY <1>4 DEF Plug
<1> QED BY <1>1, <1>2, <1>3, <1>4

(* A coordinator acts, or is acted upon, only between its start and exit.  *)
LEMMA StepWorks ==
  ASSUME NEW c \in Coordinators, Held(c),
         Coordinate(c) \/ Adapter(c) \/ Signal(c) \/ MainOpensKeyboard(c)
           \/ MainReads(c) \/ \E d \in Devices : GrabFails(c, d)
  PROVE  Working(c)
BY DEF Coordinate, Find, GiveUp, Settle, BeginGrabs, EndGrabs, SkipClosed, ChangeGrab,
       BeginProbe, ProbeTakes, ProbeGives, EndProbe, MakeKeyboard, SendHandoffKey,
       NotOpened, EndShow, Fork, KnowAdapter, SetGroup, Reap, Adapter, At, Held,
       AdapterStep, AdapterEnds, Signal, MainOpensKeyboard, MainReads, GrabFails,
       Working, Playing

\* A coordinator's own step keeps what its probe has found.
LEMMA ClearedKept ==
  ASSUME TypeInv, NEW c \in Coordinators, Held(c), Cleared(c),
         Coordinate(c) \/ Adapter(c) \/ Start(c) \/ Signal(c) \/ MainOpensKeyboard(c)
           \/ MainReads(c) \/ \E d \in Devices : GrabFails(c, d)
  PROVE  Cleared(c)'
<1> USE DEF At, Goto, Cleared, Clear
<1>1. /\ co \in [Coordinators -> Coordinator] /\ co[c] \in Coordinator
      /\ holder \in [Devices -> Processes \cup {Nobody}]
      /\ \A d \in Devices \ plugged : holder[d] = Nobody
  BY DEF TypeInv, CoordinatorsOK, WorldOK
<1>2. c \notin Mains /\ Nobody \notin Mains \cup Devices
  BY ProcessesAssumption
<1>3. ASSUME NEW rc, Exit(c, rc) PROVE Cleared(c)'
  BY <1>1, <1>3 DEF Exit, Coordinator
<1>4. ASSUME NEW m \in Mains, Find(c, m) PROVE Cleared(c)'
  BY <1>1, <1>4 DEF Find, Coordinator
<1>5. CASE GiveUp(c)
  BY <1>1, <1>3, <1>5 DEF GiveUp, Coordinator
<1>6. CASE Settle(c)
  BY <1>1, <1>3, <1>6 DEF Settle, Coordinator
<1>7. CASE BeginGrabs(c)
  BY <1>1, <1>3, <1>7 DEF BeginGrabs, Coordinator
<1>8. CASE EndGrabs(c)
  BY <1>1, <1>3, <1>8 DEF EndGrabs, Coordinator
<1>9. ASSUME NEW d \in Devices, ChangeGrab(c, d) PROVE Cleared(c)'
  BY <1>1, <1>9 DEF ChangeGrab, Coordinator
<1>10. ASSUME NEW d \in Devices, SkipClosed(c, d) PROVE Cleared(c)'
  BY <1>1, <1>10 DEF SkipClosed, Coordinator
<1>11. ASSUME NEW d \in Devices, GrabFails(c, d) PROVE Cleared(c)'
  BY <1>1, <1>11 DEF GrabFails, Coordinator
<1>12. CASE BeginProbe(c)
  BY <1>1, <1>2, <1>12 DEF BeginProbe, Held, devices, Coordinator
<1>13. ASSUME NEW d \in Devices, ProbeTakes(c, d) PROVE Cleared(c)'
  BY <1>1, <1>2, <1>13 DEF ProbeTakes, Coordinator
<1>14. CASE ProbeGives(c)
  BY <1>1, <1>2, <1>14 DEF ProbeGives, Coordinator
<1>15. CASE EndProbe(c)
  <2>1. co[c].todo = {} /\ co[c].pc = "probing" /\ UNCHANGED <<holder, fresh>>
    BY <1>15 DEF EndProbe, devices
  <2>2. CASE Free(c) /\ co[c].goal = "game" /\ Goto(c, "fork")
    BY <1>1, <2>1, <2>2 DEF Free, ProbeResult, Coordinator
  <2>3. CASE ~(Free(c) /\ co[c].goal = "game" /\ Goto(c, "fork"))
    BY <1>1, <1>3, <1>15, <2>3 DEF EndProbe, Coordinator
  <2> QED BY <2>2, <2>3
<1>16. CASE MakeKeyboard(c)
  BY <1>1, <1>3, <1>16 DEF MakeKeyboard, Coordinator
<1>17. CASE SendHandoffKey(c)
  BY <1>1, <1>17 DEF SendHandoffKey, Coordinator
<1>18. CASE NotOpened(c)
  BY <1>1, <1>3, <1>18 DEF NotOpened, Coordinator
<1>19. CASE EndShow(c)
  BY <1>1, <1>19 DEF EndShow, Coordinator
<1>20. CASE Fork(c)
  BY <1>1, <1>20 DEF Fork, devices, Coordinator
<1>21. CASE KnowAdapter(c)
  BY <1>1, <1>21 DEF KnowAdapter, devices, Coordinator
<1>22. CASE SetGroup(c)
  BY <1>1, <1>22 DEF SetGroup, devices, Coordinator
<1>23. CASE Reap(c)
  BY <1>1, <1>23 DEF Reap, Coordinator
<1>24. CASE AdapterStep(c)
  BY <1>1, <1>24 DEF AdapterStep, devices, Coordinator
<1>25. CASE AdapterEnds(c)
  BY <1>1, <1>25 DEF AdapterEnds, devices, Coordinator
<1>26. CASE Start(c)
  BY <1>1, <1>3, <1>26 DEF Start, Coordinator
<1>27. CASE Signal(c)
  BY <1>1, <1>27 DEF Signal, devices, Coordinator
<1>28. CASE MainOpensKeyboard(c)
  BY <1>1, <1>28 DEF MainOpensKeyboard, devices, Coordinator
<1>29. CASE MainReads(c)
  BY <1>1, <1>29 DEF MainReads, Held, Coordinator
<1> QED BY <1>4, <1>5, <1>6, <1>7, <1>8, <1>9, <1>10, <1>11, <1>12, <1>13,
           <1>14, <1>15, <1>16, <1>17, <1>18, <1>19, <1>20, <1>21, <1>22, <1>23,
           <1>24, <1>25, <1>26, <1>27, <1>28, <1>29
     DEF Coordinate, Adapter

\* Every step keeps what probes have found.
LEMMA NextClear ==
  TypeInv /\ LockInv /\ ClearInv /\ [Next]_vars => ClearInv'
<1> SUFFICES ASSUME TypeInv, LockInv, ClearInv, [Next]_vars PROVE ClearInv'
  OBVIOUS
<1>1. CASE UNCHANGED vars
  BY <1>1 DEF vars, ClearInv, Cleared, Clear
<1>2. ASSUME \/ \E m \in Mains : \/ MainDies(m)
                                 \/ \E kind \in Kinds : MainStarts(m, kind)
                                 \/ \E d \in Devices : MainOpens(m, d)
             \/ \E d \in Devices : Plug(d)
      PROVE  ClearInv'
  <2>1. co' = co
    BY <1>2 DEF MainDies, MainStarts, MainOpens, Plug
  <2>2. \A x \in Devices : Clear(x) => Clear(x)'
    BY <1>2, OutsideClear
  <2> QED BY <2>1, <2>2 DEF ClearInv, Cleared
<1>3. ASSUME NEW c \in Coordinators,
             Coordinate(c) \/ Adapter(c) \/ Start(c) \/ Signal(c) \/ MainOpensKeyboard(c)
               \/ MainReads(c) \/ \E d \in Devices : GrabFails(c, d)
      PROVE  ClearInv'
  <2>1. Cleared(c)'
    BY <1>3, ClearedKept DEF LockInv, ClearInv
  <2>2. ASSUME NEW e \in Coordinators, e # c PROVE Cleared(e)'
    <3>1. co'[e] = co[e]
      BY <1>3, <2>2, Others
    <3>2. CASE Start(c)
      BY <3>1, <3>2 DEF Start, devices, ClearInv, Cleared, Clear
    <3>3. CASE ~Start(c)
      <4>1. Working(c)
        BY <1>3, <3>3, StepWorks DEF LockInv
      <4>2. ~Working(e)
        BY <2>2, <4>1 DEF LockInv, Held
      <4> QED BY <3>1, <4>2 DEF Working, Cleared
    <3> QED BY <3>2, <3>3
  <2> QED BY <2>1, <2>2 DEF ClearInv
<1> QED BY <1>1, <1>2, <1>3 DEF Next, Outside

\* A game runs only after a probe that met no busy device.
LEMMA GameClear == LockInv /\ ClearInv => GameHasInput
BY DEF LockInv, Held, ClearInv, Cleared, Clear, GameHasInput

(* While a game runs Main holds no device except those it opened after the *)
(* probe that let the game start had begun, whatever is plugged, grabbed   *)
(* or restarted in between.                                                *)
THEOREM GameGetsInput == Spec => []GameHasInput
<1>1. Init => TypeInv /\ LockInv /\ ClearInv
  BY InitType, InitLock, InitClear
<1>2. TypeInv /\ LockInv /\ ClearInv /\ [Next]_vars => (TypeInv /\ LockInv /\ ClearInv)'
  BY NextType, NextLock, NextClear
<1>3. TypeInv /\ LockInv /\ ClearInv => GameHasInput
  BY GameClear
<1> QED BY <1>1, <1>2, <1>3, PTL DEF Spec

-----------------------------------------------------------------------------
(***************************************************************************)
(* After the game.  Main has its devices when a coordinator has walked its *)
(* descriptors, and keeps them: no later coordinator touches a Main that   *)
(* ran before it.  That rests on who can hold a device at all, on one Main *)
(* at a time, and on a Main's terminal showing only for a rejected MGL.    *)
(***************************************************************************)

OneMain == \A m, n \in Mains : Alive(m) /\ Alive(n) => m = n

HoldersLive ==
  \A d \in Devices :
    /\ holder[d] \in Mains => Alive(holder[d])
    /\ holder[d] \in Coordinators => co[holder[d]].at = d

TerminalsRejected == \A m \in Mains : main[m].fb => main[m].kind = "bad"

DescriptorsLive == \A m \in Mains : main[m].open # {} => Alive(m)

MainsInv == OneMain /\ HoldersLive /\ TerminalsRejected /\ DescriptorsLive

Probing(c) == co[c].pc \in {"probe", "probing"}

ForGame(c) ==
  \/ co[c].pc \in {"release", "releasing", "fork", "forked", "known", "waiting",
                   "restore", "restoring"}
  \/ Probing(c) /\ co[c].goal = "game"
  \/ co[c].exit = "adapter"

ForError(c) ==
  \/ co[c].pc \in {"reject", "await", "show"}
  \/ Probing(c) /\ co[c].goal # "game"

(* A coordinator has seen its Main alive, and does what its MGL asks for.  *)
Serves(c) ==
  /\ co[c].mi # Nobody => main[co[c].mi].state # "unborn"
  /\ co[c].pc = "settle" => co[c].mi # Nobody /\ main[co[c].mi].kind # "menu"
  /\ ForGame(c) => co[c].mi # Nobody /\ main[co[c].mi].kind = "game"
  /\ ForError(c) => co[c].mi # Nobody /\ main[co[c].mi].kind = "bad"
  /\ co[c].exit # "none" => co[c].pc = "exited"

ServesInv == \A c \in Coordinators : Serves(c)

Retaken(c) ==
  co[c].pc = "restoring" /\ Alive(co[c].mi) /\ events.failure = 0 =>
    \A d \in main[co[c].mi].open \ co[c].todo : holder[d] = co[c].mi

Waits(e, m) == Working(e) => co[e].pc = "watch" /\ co[e].initial = m

Returned(c) ==
  co[c].exit = "adapter" /\ Alive(co[c].mi) =>
    /\ events.failure = 0 => Holds(co[c].mi)
    /\ \A e \in Coordinators : Waits(e, co[c].mi)

ReturnInv ==
  /\ events \in [plug : Nat, signal : Nat, failure : Nat]
  /\ \A c \in Coordinators : Retaken(c) /\ Returned(c)

(* At first only the menu's Main runs, and nobody has served anything.     *)
LEMMA InitReturn == Init => MainsInv /\ ServesInv /\ ReturnInv
<1> SUFFICES ASSUME Init PROVE MainsInv /\ ServesInv /\ ReturnInv
  OBVIOUS
<1>1. /\ \A c \in Coordinators : co[c] = Idle
      /\ \A m \in Mains : Alive(m) => m = Menu
      /\ \A m \in Mains : ~main[m].fb
      /\ \A d \in Devices : holder[d] \in {Menu, Nobody}
      /\ \A m \in Mains : main[m].open # {} => m = Menu
      /\ Alive(Menu) /\ events = [plug |-> 0, signal |-> 0, failure |-> 0]
  BY ProcessesAssumption DEF Init, Alive
<1>2. MainsInv
  BY <1>1, ProcessesAssumption DEF MainsInv, OneMain, HoldersLive, TerminalsRejected,
                                    DescriptorsLive
<1>3. ServesInv
  BY <1>1 DEF ServesInv, Serves, ForGame, ForError, Probing, Idle
<1>4. ReturnInv
  BY <1>1 DEF ReturnInv, Retaken, Returned, Idle
<1> QED BY <1>2, <1>3, <1>4

\* What a Main that has run is afterwards: never unborn, alive only if it was.
Lasts(m) ==
  main[m].state # "unborn" =>
    /\ main'[m].state # "unborn" /\ main'[m].kind = main[m].kind
    /\ main'[m].state = "alive" => main[m].state = "alive"

(* No step brings a Main back or gives it another MGL.                     *)
LEMMA MainsLast ==
  ASSUME TypeInv, [Next]_vars, NEW m \in Mains
  PROVE  Lasts(m)
<1> USE DEF Lasts
<1>1. main \in [Mains -> Main]
  BY DEF TypeInv, WorldOK
<1>2. ASSUME NEW n \in Mains, MainDies(n) PROVE Lasts(m)
  BY <1>1, <1>2 DEF MainDies, Alive, Main
<1>3. ASSUME NEW n \in Mains, NEW kind \in Kinds, MainStarts(n, kind) PROVE Lasts(m)
  BY <1>1, <1>3 DEF MainStarts, Main
<1>4. ASSUME NEW n \in Mains, NEW d \in Devices, MainOpens(n, d) PROVE Lasts(m)
  BY <1>1, <1>4 DEF MainOpens, Main
<1>5. ASSUME NEW d \in Devices, Plug(d) PROVE Lasts(m)
  BY <1>1, <1>5 DEF Plug, Main
<1>6. ASSUME NEW c \in Coordinators, MainReads(c) PROVE Lasts(m)
  <2> DEFINE n == co[c].mi
             b == co[c].keyboard = "handoff"
  <2>1. main' = [main EXCEPT ![n].fb = b]
    BY <1>6 DEF MainReads
  <2> HIDE DEF n, b
  <2> QED BY <1>1, <2>1 DEF Main
<1>7. ASSUME main' = main PROVE Lasts(m)
  BY <1>7
<1>8. ASSUME NEW c \in Coordinators, Coordinate(c) PROVE Lasts(m)
  BY <1>7, <1>8
     DEF Coordinate, Find, GiveUp, Settle, BeginGrabs, EndGrabs, ChangeGrab, SkipClosed,
         BeginProbe, ProbeTakes, ProbeGives, EndProbe, MakeKeyboard, SendHandoffKey,
         NotOpened, EndShow, Fork, KnowAdapter, SetGroup, Reap
<1>9. ASSUME NEW c \in Coordinators,
             Adapter(c) \/ Start(c) \/ Signal(c) \/ MainOpensKeyboard(c)
               \/ \E d \in Devices : GrabFails(c, d)
      PROVE  Lasts(m)
  BY <1>7, <1>9 DEF Adapter, AdapterStep, AdapterEnds, Start, Signal,
                    MainOpensKeyboard, GrabFails
<1>10. CASE UNCHANGED vars
  BY <1>7, <1>10 DEF vars
<1> QED BY <1>2, <1>3, <1>4, <1>5, <1>6, <1>8, <1>9, <1>10 DEF Next, Outside

(* Its own steps take a coordinator only where its Main's MGL leads.       *)
LEMMA ServesKept ==
  ASSUME TypeInv, NEW c \in Coordinators, Serves(c), Held(c),
         \A m \in Mains : Lasts(m),
         Coordinate(c) \/ Adapter(c) \/ Start(c) \/ Signal(c) \/ MainOpensKeyboard(c)
           \/ MainReads(c) \/ \E d \in Devices : GrabFails(c, d)
  PROVE  Serves(c)'
<1> USE DEF At, Goto, Serves, ForGame, ForError, Probing
<1>1. /\ co \in [Coordinators -> Coordinator] /\ co[c] \in Coordinator
      /\ main \in [Mains -> Main]
      /\ co[c].mi \in Mains \cup {Nobody} /\ Nobody \notin Mains
  BY ProcessesAssumption DEF TypeInv, CoordinatorsOK, WorldOK, Coordinator
<1>2. ASSUME NEW rc, Exit(c, rc), rc # "none", rc = "adapter" => ForGame(c)
      PROVE  Serves(c)'
  BY <1>1, <1>2 DEF Exit, Coordinator, Lasts
<1>3. ASSUME NEW m \in Mains, Find(c, m) PROVE Serves(c)'
  BY <1>1, <1>3 DEF Find, Alive, Lasts, Coordinator
<1>4. CASE GiveUp(c)
  BY <1>1, <1>2, <1>4 DEF GiveUp, Coordinator
<1>5. CASE Settle(c)
  <2>1. CASE ~Alive(co[c].mi)
    BY <1>2, <1>5, <2>1 DEF Settle
  <2>2. CASE Alive(co[c].mi)
    <3>1. main[co[c].mi].kind \in {"game", "bad"} /\ main' = main
      BY <1>1, <1>5, <2>2 DEF Settle, Alive, Main, Kinds, devices
    <3> QED BY <1>1, <1>5, <2>2, <3>1 DEF Settle, Accepted, Alive, Coordinator
  <2> QED BY <2>1, <2>2
<1>6. CASE BeginGrabs(c)
  <2>1. CASE ~Alive(co[c].mi)
    BY <1>1, <1>2, <1>6, <2>1 DEF BeginGrabs, AfterFailure
  <2>2. CASE Alive(co[c].mi)
    BY <1>1, <1>6, <2>2 DEF BeginGrabs, devices, Coordinator
  <2> QED BY <2>1, <2>2
<1>7. CASE EndGrabs(c)
  <2>1. CASE At(c, "restoring") \/ ~co[c].found \/ co[c].missed
    BY <1>1, <1>2, <1>7, <2>1 DEF EndGrabs, AfterFailure
  <2>2. CASE ~(At(c, "restoring") \/ ~co[c].found \/ co[c].missed)
    BY <1>1, <1>7, <2>2 DEF EndGrabs, devices, Coordinator
  <2> QED BY <2>1, <2>2
<1>8. ASSUME NEW d \in Devices, ChangeGrab(c, d) PROVE Serves(c)'
  BY <1>1, <1>8 DEF ChangeGrab, Coordinator
<1>9. ASSUME NEW d \in Devices, SkipClosed(c, d) PROVE Serves(c)'
  BY <1>1, <1>9 DEF SkipClosed, Coordinator
<1>10. ASSUME NEW d \in Devices, GrabFails(c, d) PROVE Serves(c)'
  BY <1>1, <1>10 DEF GrabFails, Coordinator
<1>11. CASE BeginProbe(c)
  BY <1>1, <1>11 DEF BeginProbe, Coordinator
<1>12. ASSUME NEW d \in Devices, ProbeTakes(c, d) PROVE Serves(c)'
  BY <1>1, <1>12 DEF ProbeTakes, Coordinator
<1>13. CASE ProbeGives(c)
  BY <1>1, <1>13 DEF ProbeGives, Coordinator
<1>14. CASE EndProbe(c)
  <2>1. main' = main /\ co[c].pc = "probing"
    BY <1>14 DEF EndProbe, devices
  <2>2. CASE Exit(c, "failed") \/ Exit(c, "rejected")
    BY <1>2, <2>2
  <2>3. CASE ~(Exit(c, "failed") \/ Exit(c, "rejected"))
    BY <1>1, <1>14, <2>1, <2>3 DEF EndProbe, Coordinator
  <2> QED BY <2>2, <2>3
<1>15. CASE MakeKeyboard(c)
  BY <1>1, <1>2, <1>15 DEF MakeKeyboard, Coordinator
<1>16. CASE SendHandoffKey(c)
  BY <1>1, <1>16 DEF SendHandoffKey, Coordinator
<1>17. CASE NotOpened(c)
  BY <1>1, <1>2, <1>17 DEF NotOpened, Coordinator
<1>18. CASE EndShow(c)
  BY <1>1, <1>18 DEF EndShow, Coordinator
<1>19. CASE Fork(c)
  BY <1>1, <1>19 DEF Fork, Coordinator
<1>20. CASE KnowAdapter(c)
  BY <1>1, <1>20 DEF KnowAdapter, Coordinator
<1>21. CASE SetGroup(c)
  BY <1>1, <1>21 DEF SetGroup, Coordinator
<1>22. CASE Reap(c)
  BY <1>1, <1>22 DEF Reap, Coordinator
<1>23. CASE AdapterStep(c)
  BY <1>1, <1>23 DEF AdapterStep, Coordinator
<1>24. CASE AdapterEnds(c)
  BY <1>1, <1>24 DEF AdapterEnds, Coordinator
<1>25. CASE Start(c)
  BY <1>1, <1>2, <1>25 DEF Start, Coordinator
<1>26. CASE Signal(c)
  BY <1>1, <1>26 DEF Signal, Coordinator
<1>27. CASE MainOpensKeyboard(c)
  BY <1>1, <1>27 DEF MainOpensKeyboard, Coordinator
<1>28. CASE MainReads(c)
  <2>1. co' = [co EXCEPT ![c].keyboard = "open"]
    BY <1>28 DEF MainReads
  <2> QED BY <1>1, <2>1 DEF Lasts, Coordinator
<1> QED BY <1>3, <1>4, <1>5, <1>6, <1>7, <1>8, <1>9, <1>10, <1>11, <1>12,
           <1>13, <1>14, <1>15, <1>16, <1>17, <1>18, <1>19, <1>20, <1>21, <1>22,
           <1>23, <1>24, <1>25, <1>26, <1>27, <1>28
     DEF Coordinate, Adapter

\* Every step leaves each coordinator serving the Main it found.
LEMMA NextServes ==
  TypeInv /\ LockInv /\ ServesInv /\ [Next]_vars => ServesInv'
<1> SUFFICES ASSUME TypeInv, LockInv, ServesInv, [Next]_vars PROVE ServesInv'
  OBVIOUS
<1>1. \A m \in Mains : Lasts(m)
  BY MainsLast
<1>2. ASSUME NEW e \in Coordinators, co'[e] = co[e] PROVE Serves(e)'
  <2>1. co[e].mi \in Mains \cup {Nobody}
    BY DEF TypeInv, CoordinatorsOK, Coordinator
  <2> QED BY <1>1, <1>2, <2>1 DEF ServesInv, Serves, ForGame, ForError, Probing, Lasts
<1>3. CASE co' = co
  BY <1>2, <1>3 DEF ServesInv
<1>4. ASSUME NEW c \in Coordinators,
             Coordinate(c) \/ Adapter(c) \/ Start(c) \/ Signal(c) \/ MainOpensKeyboard(c)
               \/ MainReads(c) \/ \E d \in Devices : GrabFails(c, d)
      PROVE  ServesInv'
  <2>1. Serves(c)'
    BY <1>1, <1>4, ServesKept DEF LockInv, ServesInv
  <2>2. \A e \in Coordinators : e # c => co'[e] = co[e]
    BY <1>4, Others
  <2> QED BY <1>2, <2>1, <2>2 DEF ServesInv
<1> QED BY <1>3, <1>4 DEF Next, Outside, vars, MainDies, MainStarts, MainOpens, Plug

-----------------------------------------------------------------------------

\* Main and the kernel give devices to a live Main or to nobody.
LEMMA OutsideMains ==
  ASSUME TypeInv, MainsInv,
         \/ \E m \in Mains : \/ MainDies(m)
                             \/ \E kind \in Kinds : MainStarts(m, kind)
                             \/ \E d \in Devices : MainOpens(m, d)
         \/ \E d \in Devices : Plug(d)
  PROVE  MainsInv'
<1> USE ProcessesAssumption
    DEF MainsInv, OneMain, HoldersLive, TerminalsRejected, DescriptorsLive, Alive
<1>1. /\ main \in [Mains -> Main]
      /\ holder \in [Devices -> Processes \cup {Nobody}] /\ Nobody \notin Mains
  BY DEF TypeInv, WorldOK
<1>2. ASSUME NEW m \in Mains, MainDies(m) PROVE MainsInv'
  BY <1>1, <1>2 DEF MainDies, Released, Main
<1>3. ASSUME NEW m \in Mains, NEW kind \in Kinds, MainStarts(m, kind) PROVE MainsInv'
  BY <1>1, <1>3 DEF MainStarts, Grabbed, Main
<1>4. ASSUME NEW m \in Mains, NEW d \in Devices, MainOpens(m, d) PROVE MainsInv'
  BY <1>1, <1>4 DEF MainOpens, Grabbed, Main
<1>5. ASSUME NEW d \in Devices, Plug(d) PROVE MainsInv'
  <2>1. \A m \in Mains : /\ main'[m].state = main[m].state /\ main'[m].fb = main[m].fb
                         /\ main'[m].kind = main[m].kind
                         /\ main'[m].open \subseteq main[m].open
    BY <1>1, <1>5 DEF Plug, Main
  <2>2. co' = co /\ \A e \in Devices : holder'[e] \in {holder[e], Nobody}
    BY <1>1, <1>5 DEF Plug
  <2> QED BY <1>1, <2>1, <2>2
<1> QED BY <1>2, <1>3, <1>4, <1>5

\* A coordinator holds only the device it probes.
LEMMA CoordinatorMains ==
  ASSUME TypeInv, LockInv, MainsInv, ServesInv, NEW c \in Coordinators,
         Coordinate(c) \/ Adapter(c) \/ Start(c) \/ Signal(c) \/ MainOpensKeyboard(c)
           \/ MainReads(c) \/ \E d \in Devices : GrabFails(c, d)
  PROVE  MainsInv'
<1> USE ProcessesAssumption
    DEF MainsInv, OneMain, HoldersLive, TerminalsRejected, DescriptorsLive, Alive
<1>1. /\ co \in [Coordinators -> Coordinator] /\ co[c] \in Coordinator
      /\ main \in [Mains -> Main] /\ holder \in [Devices -> Processes \cup {Nobody}]
      /\ co[c].mi \in Mains \cup {Nobody} /\ Nobody \notin Mains
  BY DEF TypeInv, CoordinatorsOK, WorldOK, Coordinator
<1>2. \A e \in Coordinators : e # c => co'[e] = co[e]
  BY Others
<1>3. ASSUME NEW d \in Devices, ChangeGrab(c, d) PROVE MainsInv'
  <2>1. co'[c].at = co[c].at /\ main' = main
    BY <1>1, <1>3 DEF ChangeGrab, Coordinator
  <2>2. co'[c].at = co[c].at /\ \A e \in Coordinators : co'[e].at = co[e].at
    BY <1>2, <2>1
  <2>3. \A x \in Devices :
          \/ holder'[x] = holder[x]
          \/ holder'[x] = Nobody
          \/ holder'[x] = co[c].mi /\ x \in main[co[c].mi].open
    <3>1. \/ holder' = [holder EXCEPT ![d] = To(c)] /\ d \in main[co[c].mi].open
          \/ holder' = holder
      BY <1>3 DEF ChangeGrab, CanChange
    <3>2. To(c) = Nobody \/ To(c) = co[c].mi
      BY DEF To
    <3>3. CASE holder' = [holder EXCEPT ![d] = To(c)] /\ d \in main[co[c].mi].open
      <4>1. holder'[d] = To(c) /\ \A x \in Devices : x # d => holder'[x] = holder[x]
        BY <1>1, <3>3
      <4> QED BY <3>2, <3>3, <4>1
    <3> QED BY <3>1, <3>3
  <2>4. ASSUME NEW x \in Devices
        PROVE  /\ holder'[x] \in Mains => Alive(holder'[x])
               /\ holder'[x] \in Coordinators => co[holder'[x]].at = x
    BY <1>1, <2>3
  <2>5. HoldersLive'
    BY <2>1, <2>2, <2>4
  <2> QED BY <2>1, <2>5
<1>4. ASSUME NEW d \in Devices, ProbeTakes(c, d) PROVE MainsInv'
  BY <1>1, <1>2, <1>4 DEF ProbeTakes, Coordinator
<1>5. CASE ProbeGives(c)
  BY <1>1, <1>2, <1>5 DEF ProbeGives, Coordinator
<1>6. CASE MainReads(c)
  <2> DEFINE m == co[c].mi
             b == co[c].keyboard = "handoff"
  <2>1. Held(c) /\ Serves(c)
    BY DEF LockInv, ServesInv
  <2>2. main[m].kind = "bad" /\ m \in Mains
    BY <1>1, <1>6, <2>1 DEF MainReads, Held, Serves, ForError, Probing
  <2>3. /\ main' = [main EXCEPT ![m].fb = b] /\ co'[c].at = co[c].at
        /\ \A d \in Devices : holder'[d] \in {holder[d], m, Nobody} /\ main[m].state = "alive"
    BY <1>1, <1>6 DEF MainReads, Grabbed, Released, Coordinator
  <2> HIDE DEF m, b
  <2>4. \A n \in Mains : /\ main'[n].state = main[n].state /\ main'[n].kind = main[n].kind
                         /\ main'[n].open = main[n].open
                         /\ n # m => main'[n].fb = main[n].fb
    BY <1>1, <2>2, <2>3 DEF Main
  <2> QED BY <1>1, <1>2, <2>2, <2>3, <2>4
<1>7. ASSUME UNCHANGED <<holder, main>>, co'[c].at = co[c].at \/ co[c].pc # "probing"
      PROVE  MainsInv'
  <2>1. co[c].pc # "probing" => \A d \in Devices : holder[d] # c
    BY <1>1 DEF LockInv, Held
  <2> QED BY <1>1, <1>2, <1>7, <2>1
<1>8. ASSUME NEW rc, Exit(c, rc), UNCHANGED <<holder, main>>,
             co[c].pc = "probing" => co[c].at = Nobody
      PROVE  MainsInv'
  BY <1>1, <1>7, <1>8 DEF Exit, Coordinator
<1>9. CASE EndProbe(c)
  <2>1. CASE Exit(c, "failed") \/ Exit(c, "rejected")
    BY <1>8, <1>9, <2>1 DEF EndProbe, devices
  <2>2. CASE ~(Exit(c, "failed") \/ Exit(c, "rejected"))
    BY <1>1, <1>7, <1>9, <2>2 DEF EndProbe, devices, Goto, Coordinator
  <2> QED BY <2>1, <2>2
<1>10. CASE GiveUp(c) \/ Settle(c) \/ BeginGrabs(c) \/ EndGrabs(c) \/ MakeKeyboard(c)
              \/ NotOpened(c) \/ Start(c) \/ Fork(c) \/ KnowAdapter(c) \/ SetGroup(c)
              \/ Reap(c)
  <2>1. UNCHANGED <<holder, main>> /\ co[c].pc # "probing"
    BY <1>10 DEF GiveUp, Settle, BeginGrabs, EndGrabs, MakeKeyboard, NotOpened, Start,
                 Fork, KnowAdapter, SetGroup, Reap, At, devices
  <2> QED BY <1>7, <2>1
<1>11. CASE \/ \E m \in Mains : Find(c, m)
            \/ BeginProbe(c) \/ SendHandoffKey(c) \/ EndShow(c) \/ Adapter(c)
            \/ Signal(c) \/ MainOpensKeyboard(c)
            \/ \E d \in Devices : SkipClosed(c, d) \/ GrabFails(c, d)
  <2>1. UNCHANGED <<holder, main>>
    BY <1>11 DEF Find, BeginProbe, SendHandoffKey, EndShow, Adapter, AdapterStep,
                 AdapterEnds, Signal, MainOpensKeyboard, SkipClosed, GrabFails, devices
  <2>2. CASE Adapter(c) \/ Signal(c) \/ MainOpensKeyboard(c)
    <3>1. co'[c].at = co[c].at
      BY <1>1, <2>2 DEF Adapter, AdapterStep, AdapterEnds, Signal, MainOpensKeyboard,
                        Coordinator
    <3> QED BY <1>7, <2>1, <3>1
  <2>3. CASE \/ \E m \in Mains : Find(c, m)
             \/ BeginProbe(c) \/ SendHandoffKey(c) \/ EndShow(c)
    <3>1. co'[c].at = co[c].at
      BY <1>1, <2>3 DEF Find, BeginProbe, SendHandoffKey, EndShow, Coordinator
    <3> QED BY <1>7, <2>1, <3>1
  <2>4. ASSUME NEW d \in Devices, SkipClosed(c, d) \/ GrabFails(c, d) PROVE MainsInv'
    <3>1. CASE SkipClosed(c, d)
      BY <1>1, <1>7, <2>1, <3>1 DEF SkipClosed, Coordinator
    <3>2. CASE GrabFails(c, d)
      <4>1. co'[c].at = co[c].at
        BY <1>1, <3>2 DEF GrabFails, Coordinator
      <4> QED BY <1>7, <2>1, <4>1
    <3> QED BY <2>4, <3>1, <3>2
  <2> QED BY <1>11, <2>2, <2>3, <2>4
<1> QED BY <1>3, <1>4, <1>5, <1>6, <1>9, <1>10, <1>11 DEF Coordinate

\* Every step keeps what is known of Mains and of who holds a device.
LEMMA NextMains ==
  TypeInv /\ LockInv /\ MainsInv /\ ServesInv /\ [Next]_vars => MainsInv'
<1> SUFFICES ASSUME TypeInv, LockInv, MainsInv, ServesInv, [Next]_vars PROVE MainsInv'
  OBVIOUS
<1>1. CASE UNCHANGED vars
  BY <1>1 DEF vars, MainsInv, OneMain, HoldersLive, TerminalsRejected, DescriptorsLive,
              Alive
<1> QED BY <1>1, OutsideMains, CoordinatorMains DEF Next, Outside
-----------------------------------------------------------------------------

\* No step makes a failed grab forgotten.
LEMMA FailuresCounted ==
  ASSUME ReturnInv, [Next]_vars
  PROVE  /\ events' \in [plug : Nat, signal : Nat, failure : Nat]
         /\ events'.failure = 0 => events.failure = 0
<1> USE DEF ReturnInv
<1>1. ASSUME NEW k \in {"plug", "signal", "failure"}, Happens(k)
      PROVE  /\ events' \in [plug : Nat, signal : Nat, failure : Nat]
             /\ events'.failure = 0 => events.failure = 0
  BY <1>1 DEF Happens
<1>2. ASSUME NEW c \in Coordinators, Coordinate(c) PROVE events' = events
  BY <1>2
     DEF Coordinate, Find, GiveUp, Settle, BeginGrabs, EndGrabs, ChangeGrab, SkipClosed,
         BeginProbe, ProbeTakes, ProbeGives, EndProbe, MakeKeyboard, SendHandoffKey,
         NotOpened, EndShow, Fork, KnowAdapter, SetGroup, Reap
<1>3. ASSUME NEW c \in Coordinators,
             Adapter(c) \/ Start(c) \/ MainOpensKeyboard(c) \/ MainReads(c)
      PROVE  events' = events
  BY <1>3 DEF Adapter, AdapterStep, AdapterEnds, Start, MainOpensKeyboard, MainReads
<1>4. ASSUME NEW m \in Mains,
             \/ MainDies(m) \/ \E kind \in Kinds : MainStarts(m, kind)
             \/ \E d \in Devices : MainOpens(m, d)
      PROVE  events' = events
  BY <1>4 DEF MainDies, MainStarts, MainOpens
<1>5. \A d \in Devices : Plug(d) => Happens("plug")
  BY DEF Plug
<1>6. \A c \in Coordinators :
        /\ Signal(c) => Happens("signal")
        /\ \A d \in Devices : GrabFails(c, d) => Happens("failure")
  BY DEF Signal, GrabFails
<1> QED BY <1>1, <1>2, <1>3, <1>4, <1>5, <1>6 DEF Next, Outside, vars

\* A Main keeps the devices it knows and takes the ones it comes to know.
Keeps(m) ==
  \A d \in Devices :
    d \in main'[m].open =>
      \/ holder'[d] = m
      \/ d \in main[m].open /\ holder[d] # m

(* A live Main without a terminal gets what it opens when no coordinator   *)
(* holds a device.                                                         *)
LEMMA MainKeeps ==
  ASSUME TypeInv, MainsInv,
         \/ \E m \in Mains : \/ MainDies(m)
                             \/ \E kind \in Kinds : MainStarts(m, kind)
                             \/ \E d \in Devices : MainOpens(m, d)
         \/ \E d \in Devices : Plug(d),
         NEW n \in Mains, Alive(n), Alive(n)', ~main[n].fb,
         \A d \in Devices : holder[d] \notin Coordinators
  PROVE  Keeps(n)
<1> USE DEF Keeps
<1>1. /\ main \in [Mains -> Main]
      /\ holder \in [Devices -> Processes \cup {Nobody}] /\ Nobody \notin Mains
  BY ProcessesAssumption DEF TypeInv, WorldOK
<1>2. \A d \in Devices : holder[d] \in {n, Nobody}
  BY <1>1 DEF Processes, MainsInv, HoldersLive, OneMain
<1>3. ASSUME NEW m \in Mains, MainDies(m) PROVE Keeps(n)
  <2>1. m # n
    BY <1>1, <1>3 DEF MainDies, Alive, Main
  <2> QED BY <1>1, <1>2, <1>3, <2>1 DEF MainDies, Released, Main
<1>4. ASSUME NEW m \in Mains, NEW kind \in Kinds, MainStarts(m, kind) PROVE Keeps(n)
  BY <1>4 DEF MainStarts
<1>5. ASSUME NEW m \in Mains, NEW d \in Devices, MainOpens(m, d) PROVE Keeps(n)
  <2>1. m = n
    BY <1>5 DEF MainOpens, MainsInv, OneMain
  <2> QED BY <1>1, <1>2, <1>5, <2>1 DEF MainOpens, Grabbed, Main
<1>6. ASSUME NEW d \in Devices, Plug(d) PROVE Keeps(n)
  <2>1. main'[n].open = main[n].open \ {d}
    BY <1>1, <1>6 DEF Plug, Main
  <2> QED BY <1>1, <1>6, <2>1 DEF Plug
<1> QED BY <1>3, <1>4, <1>5, <1>6

\* While a coordinator restores, or after it did, none holds a device.
LEMMA NobodyProbes ==
  ASSUME TypeInv, LockInv, MainsInv, NEW c \in Coordinators,
         \/ co[c].pc = "restoring"
         \/ \E m \in Mains : \A e \in Coordinators : Waits(e, m)
  PROVE  \A d \in Devices : holder[d] \notin Coordinators
<1> SUFFICES ASSUME NEW d \in Devices, holder[d] \in Coordinators PROVE FALSE
  OBVIOUS
<1>1. co[holder[d]].at = d /\ d # Nobody
  BY ProcessesAssumption DEF MainsInv, HoldersLive
<1>2. co[holder[d]].pc = "probing"
  BY <1>1 DEF LockInv, Held
<1> QED BY <1>2 DEF LockInv, Held, Working, Waits

(* Whatever happens outside, a Main that got its devices back keeps them.  *)
LEMMA OutsideReturns ==
  ASSUME TypeInv, LockInv, MainsInv, ServesInv, ReturnInv, [Next]_vars,
         \/ \E m \in Mains : \/ MainDies(m)
                             \/ \E kind \in Kinds : MainStarts(m, kind)
                             \/ \E d \in Devices : MainOpens(m, d)
         \/ \E d \in Devices : Plug(d),
         NEW c \in Coordinators
  PROVE  (Retaken(c) /\ Returned(c))'
<1> DEFINE n == co[c].mi
<1>1. co' = co /\ n \in Mains \cup {Nobody}
  BY DEF MainDies, MainStarts, MainOpens, Plug, TypeInv, CoordinatorsOK, Coordinator
<1>2. Serves(c) /\ Retaken(c) /\ Returned(c)
  BY DEF ServesInv, ReturnInv
<1>3. events'.failure = 0 => events.failure = 0
  BY FailuresCounted
<1>4. ASSUME Alive(n)' PROVE n \in Mains /\ Alive(n)
  BY <1>1, <1>2, <1>4, MainsLast DEF Alive, Serves, Lasts
<1>5. ForGame(c) /\ n \in Mains => ~main[n].fb
  BY <1>2 DEF Serves, MainsInv, TerminalsRejected
<1>6. main' \in [Mains -> Main]
  BY NextType DEF TypeInv, WorldOK
<1> HIDE DEF n
<1>7. Retaken(c)'
  <2> SUFFICES ASSUME co[c].pc = "restoring", Alive(n)', events.failure = 0,
                      NEW d \in main'[n].open \ co[c].todo
               PROVE  holder'[d] = n
    BY <1>1, <1>3 DEF Retaken, n
  <2>1. n \in Mains /\ Alive(n) /\ ForGame(c)
    BY <1>4 DEF ForGame
  <2>2. Keeps(n)
    <3>1. \A x \in Devices : holder[x] \notin Coordinators
      BY NobodyProbes
    <3>2. ASSUME NEW k \in Mains, k = n PROVE Keeps(k)
      <4>1. Alive(k) /\ Alive(k)' /\ ~main[k].fb
        BY <1>1, <1>5, <2>1, <3>2 DEF Alive, n
      <4> QED BY <3>1, <4>1, MainKeeps
    <3> QED BY <2>1, <3>2
  <2>3. d \in Devices
    BY <1>6, <2>1 DEF Main
  <2>4. d \in main[n].open => holder[d] = n
    BY <1>2, <2>1 DEF Retaken, n
  <2> QED BY <2>2, <2>3, <2>4 DEF Keeps
<1>8. Returned(c)'
  <2> SUFFICES ASSUME co[c].exit = "adapter", Alive(n)'
               PROVE  /\ events'.failure = 0 =>
                           \A d \in main'[n].open : holder'[d] = n
                      /\ \A e \in Coordinators : Waits(e, n)
    BY <1>1 DEF Returned, Holds, Waits, Working, n
  <2>1. n \in Mains /\ Alive(n) /\ ForGame(c)
    BY <1>4 DEF ForGame
  <2>2. \A e \in Coordinators : Waits(e, n)
    BY <1>2, <2>1 DEF Returned, n
  <2>3. Keeps(n)
    <3>1. \A d \in Devices : holder[d] \notin Coordinators
      BY <2>1, <2>2, NobodyProbes
    <3>2. ASSUME NEW k \in Mains, k = n PROVE Keeps(k)
      <4>1. Alive(k) /\ Alive(k)' /\ ~main[k].fb
        BY <1>1, <1>5, <2>1, <3>2 DEF Alive, n
      <4> QED BY <3>1, <4>1, MainKeeps
    <3> QED BY <2>1, <3>2
  <2>4. events'.failure = 0 => \A d \in main[n].open : holder[d] = n
    BY <1>2, <1>3, <2>1 DEF Returned, Holds, n
  <2>5. \A d \in main'[n].open : d \in Devices
    BY <1>6, <2>1 DEF Main
  <2> QED BY <2>2, <2>3, <2>4, <2>5 DEF Keeps
<1> QED BY <1>7, <1>8
\* What one coordinator did stays done while another one acts.
LEMMA OthersReturn ==
  ASSUME TypeInv, LockInv, MainsInv, ServesInv, ReturnInv, [Next]_vars,
         NEW c \in Coordinators,
         Coordinate(c) \/ Adapter(c) \/ Start(c) \/ Signal(c) \/ MainOpensKeyboard(c)
           \/ MainReads(c) \/ \E d \in Devices : GrabFails(c, d),
         NEW e \in Coordinators, e # c
  PROVE  (Retaken(e) /\ Returned(e))'
<1> USE DEF At, Goto
<1>1. /\ co \in [Coordinators -> Coordinator] /\ co[c] \in Coordinator
      /\ main \in [Mains -> Main] /\ co[e].mi \in Mains \cup {Nobody}
  BY DEF TypeInv, CoordinatorsOK, WorldOK, Coordinator
<1>2. \A f \in Coordinators : f # c => co'[f] = co[f]
  BY Others
<1>3. events'.failure = 0 => events.failure = 0
  BY FailuresCounted
<1>4. Retaken(e) /\ Returned(e) /\ Held(c) /\ Held(e) /\ Serves(e)
  BY DEF ReturnInv, LockInv, ServesInv
<1>5. ASSUME UNCHANGED <<holder, main>>, Waits(c, co[e].mi)' \/ ~Waits(c, co[e].mi)
      PROVE  (Retaken(e) /\ Returned(e))'
  BY <1>2, <1>3, <1>4, <1>5 DEF Retaken, Returned, Holds, Alive, Waits, Working
<1>6. CASE Start(c)
  <2>1. UNCHANGED <<holder, main>>
    BY <1>6 DEF Start, devices
  <2>2. CASE lock # Nobody
    <3>1. ~Working(c)'
      BY <1>1, <1>6, <2>2 DEF Start, Exit, Working, Coordinator
    <3> QED BY <1>2, <1>5, <2>1, <3>1, <2>2 DEF Waits
  <2>3. CASE lock = Nobody /\ Alive(co[e].mi)
    <3>1. PICK m \in Mains \cup {Nobody} :
            CurrentMain(m) /\ co' = [co EXCEPT ![c].pc = "watch", ![c].initial = m]
      BY <1>6, <2>3 DEF Start
    <3>2. m = co[e].mi
      BY <1>1, <2>3, <3>1 DEF CurrentMain, Alive, MainsInv, OneMain
    <3>3. co'[c].pc = "watch" /\ co'[c].initial = co[e].mi /\ co'[e].mi = co[e].mi
      BY <1>1, <1>2, <3>1, <3>2 DEF Coordinator
    <3> QED BY <1>5, <2>1, <3>3 DEF Waits
  <2>4. CASE ~Alive(co[e].mi)
    BY <1>2, <2>1, <2>4 DEF Retaken, Returned, Alive
  <2> QED BY <2>2, <2>3, <2>4
<1>7. CASE ~Start(c)
  <2>1. Working(c)
    BY <1>4, <1>7, StepWorks
  <2>2. ~Working(e)
    BY <1>4, <2>1 DEF Held
  <2>3. Retaken(e)'
    BY <1>2, <2>2 DEF Retaken, Working
  <2>4. Returned(e)'
    <3> SUFFICES ASSUME co[e].exit = "adapter", Alive(co[e].mi)'
                 PROVE  Returned(e)'
      BY <1>2 DEF Returned
    <3>1. co[e].mi \in Mains /\ Alive(co[e].mi)
      BY <1>1, <1>2, <1>4, MainsLast DEF Alive, Serves, Lasts
    <3>2. co[c].pc = "watch" /\ co[c].initial = co[e].mi
      BY <1>4, <2>1, <3>1 DEF Returned, Waits
    <3>3. CASE \E m \in Mains : Find(c, m)
      BY <3>1, <3>2, <3>3 DEF Find, MainsInv, OneMain
    <3>4. CASE GiveUp(c)
      <4>1. ~Working(c)' /\ UNCHANGED <<holder, main>>
        BY <1>1, <3>4 DEF GiveUp, Exit, Working, devices, Coordinator
      <4> QED BY <1>5, <4>1 DEF Waits
    <3>5. CASE Signal(c)
      <4>1. co'[c].pc = co[c].pc /\ co'[c].initial = co[c].initial
        BY <1>1, <3>5 DEF Signal, Coordinator
      <4>2. UNCHANGED <<holder, main>> /\ co'[e] = co[e]
        BY <1>2, <3>5 DEF Signal, devices
      <4> QED BY <1>5, <3>2, <4>1, <4>2 DEF Waits
    <3>6. CASE ~(GiveUp(c) \/ Signal(c) \/ \E m \in Mains : Find(c, m))
      BY <1>4, <1>7, <3>2, <3>6
         DEF Coordinate, Settle, BeginGrabs, EndGrabs, SkipClosed, ChangeGrab,
             BeginProbe, ProbeTakes, ProbeGives, EndProbe, MakeKeyboard, SendHandoffKey,
             NotOpened, EndShow, Fork, KnowAdapter, SetGroup, Reap, Adapter, Held,
             AdapterStep, AdapterEnds, MainOpensKeyboard, MainReads, GrabFails, Playing
    <3> QED BY <3>3, <3>4, <3>5, <3>6
  <2> QED BY <2>3, <2>4
<1> QED BY <1>6, <1>7

(* A coordinator that restores leaves behind it a Main that holds what it  *)
(* knows, and none but itself at work.                                     *)
LEMMA OwnReturns ==
  ASSUME TypeInv, LockInv, MainsInv, ServesInv, ReturnInv, [Next]_vars,
         NEW c \in Coordinators,
         Coordinate(c) \/ Adapter(c) \/ Start(c) \/ Signal(c) \/ MainOpensKeyboard(c)
           \/ MainReads(c) \/ \E d \in Devices : GrabFails(c, d)
  PROVE  (Retaken(c) /\ Returned(c))'
<1> USE DEF At, Goto
<1>1. /\ co \in [Coordinators -> Coordinator] /\ co[c] \in Coordinator
      /\ main \in [Mains -> Main] /\ co[c].mi \in Mains \cup {Nobody}
      /\ holder \in [Devices -> Processes \cup {Nobody}]
  BY DEF TypeInv, CoordinatorsOK, WorldOK, Coordinator
<1>2. \A e \in Coordinators : e # c => co'[e] = co[e]
  BY Others
<1>3. /\ events' \in [plug : Nat, signal : Nat, failure : Nat]
      /\ events'.failure = 0 => events.failure = 0
  BY FailuresCounted
<1>4. Retaken(c) /\ Held(c) /\ Serves(c)
  BY DEF ReturnInv, LockInv, ServesInv
<1>5. co[c].exit # "adapter"
  BY <1>4, StepWorks DEF Serves, Working, Start
<1>6. ASSUME co'[c].pc # "restoring", co'[c].exit # "adapter"
      PROVE  (Retaken(c) /\ Returned(c))'
  BY <1>6 DEF Retaken, Returned
<1>7. ASSUME NEW rc, Exit(c, rc), rc # "adapter" PROVE (Retaken(c) /\ Returned(c))'
  BY <1>1, <1>6, <1>7 DEF Exit, Coordinator
<1>8. ASSUME UNCHANGED <<holder, main>>, co'[c].pc = co[c].pc, co'[c].exit = co[c].exit,
             co'[c].mi = co[c].mi, co'[c].todo = co[c].todo
      PROVE  (Retaken(c) /\ Returned(c))'
  BY <1>3, <1>4, <1>5, <1>8 DEF Retaken, Returned, Alive
<1>9. CASE BeginGrabs(c)
  <2>1. CASE ~Alive(co[c].mi)
    <3>1. co'[c].pc = "exited" /\ co'[c].mi = co[c].mi /\ main' = main
      BY <1>1, <1>9, <2>1 DEF BeginGrabs, Exit, devices, Coordinator
    <3> QED BY <2>1, <3>1 DEF Retaken, Returned, Alive
  <2>2. CASE Alive(co[c].mi)
    <3>1. /\ co'[c].todo = main[co[c].mi].open /\ co'[c].mi = co[c].mi
          /\ co'[c].exit = co[c].exit /\ main' = main
      BY <1>1, <1>9, <2>2 DEF BeginGrabs, devices, Coordinator
    <3> QED BY <1>5, <3>1 DEF Retaken, Returned
  <2> QED BY <2>1, <2>2
<1>10. ASSUME NEW d \in Devices, ChangeGrab(c, d) PROVE (Retaken(c) /\ Returned(c))'
  <2>1. /\ co'[c].pc = co[c].pc /\ co'[c].mi = co[c].mi /\ co'[c].exit = co[c].exit
        /\ co'[c].todo = co[c].todo \ {d} /\ main' = main
    BY <1>1, <1>10 DEF ChangeGrab, Left, Coordinator
  <2>2. CASE co[c].pc = "releasing"
    BY <1>5, <1>6, <2>1, <2>2
  <2>3. CASE co[c].pc = "restoring" /\ Alive(co[c].mi)
    <3>1. holder[d] \in {co[c].mi, Nobody}
      BY <1>1, <2>3, NobodyProbes DEF Processes, MainsInv, HoldersLive, OneMain, Alive
    <3>2. /\ d \in main[co[c].mi].open => holder'[d] = co[c].mi
          /\ \A x \in Devices : x # d => holder'[x] = holder[x]
      BY <1>1, <1>10, <2>3, <3>1 DEF ChangeGrab, CanChange, To, From
    <3>3. main[co[c].mi].open \subseteq Devices
      BY <1>1, <2>3 DEF Alive, Main
    <3> QED BY <1>3, <1>4, <1>5, <2>1, <3>2, <3>3 DEF Retaken, Returned, Alive
  <2>4. CASE ~Alive(co[c].mi)
    BY <1>5, <2>1, <2>4 DEF Retaken, Returned, Alive
  <2> QED BY <1>10, <2>2, <2>3, <2>4 DEF ChangeGrab
<1>11. ASSUME NEW d \in Devices, SkipClosed(c, d) PROVE (Retaken(c) /\ Returned(c))'
  <2>1. /\ co'[c].pc = co[c].pc /\ co'[c].mi = co[c].mi /\ co'[c].exit = co[c].exit
        /\ co'[c].todo = co[c].todo \ {d} /\ UNCHANGED <<holder, main>>
        /\ d \notin main[co[c].mi].open
    BY <1>1, <1>11 DEF SkipClosed, devices, Coordinator
  <2> QED BY <1>3, <1>4, <1>5, <2>1 DEF Retaken, Returned, Alive
<1>12. ASSUME NEW d \in Devices, GrabFails(c, d) PROVE (Retaken(c) /\ Returned(c))'
  <2>1. events'.failure # 0
    <3>1. events' = [events EXCEPT !["failure"] = @ + 1]
      BY <1>12 DEF GrabFails, Happens
    <3>2. events \in [plug : Nat, signal : Nat, failure : Nat]
      BY DEF ReturnInv
    <3>3. events.failure \in Nat /\ events'.failure = events.failure + 1
      BY <3>1, <3>2
    <3> QED BY <3>3
  <2>2. co'[c].exit = co[c].exit
    BY <1>1, <1>12 DEF GrabFails, Coordinator
  <2> QED BY <1>5, <2>1, <2>2 DEF Retaken, Returned
<1>13. CASE EndGrabs(c)
  <2>1. CASE co[c].pc = "restoring"
    <3>1. /\ co'[c].pc = "exited" /\ co'[c].mi = co[c].mi
          /\ UNCHANGED <<holder, main, events>> /\ co[c].todo = {}
      BY <1>1, <1>13, <2>1 DEF EndGrabs, Exit, devices, Coordinator
    <3>2. \A e \in Coordinators : e # c => ~Working(e)
      BY <2>1 DEF LockInv, Held, Working
    <3>3. \A e \in Coordinators : Waits(e, co[c].mi)'
      BY <1>2, <3>1, <3>2 DEF Waits, Working
    <3>4. Retaken(c)'
      BY <3>1 DEF Retaken
    <3>5. Returned(c)'
      BY <1>4, <2>1, <3>1, <3>3 DEF Retaken, Returned, Holds, Alive, Waits, Working
    <3> QED BY <3>4, <3>5
  <2>2. CASE co[c].pc # "restoring"
    <3>1. CASE ~co[c].found \/ co[c].missed
      BY <1>7, <1>13, <2>2, <3>1 DEF EndGrabs, AfterFailure
    <3>2. CASE ~(~co[c].found \/ co[c].missed)
      BY <1>1, <1>5, <1>6, <1>13, <2>2, <3>2 DEF EndGrabs, Coordinator
    <3> QED BY <3>1, <3>2
  <2> QED BY <2>1, <2>2
<1>14. ASSUME NEW d \in Devices, ProbeTakes(c, d) PROVE (Retaken(c) /\ Returned(c))'
  BY <1>1, <1>5, <1>6, <1>14 DEF ProbeTakes, Coordinator
<1>15. CASE EndProbe(c)
  <2>1. CASE Exit(c, "failed") \/ Exit(c, "rejected")
    BY <1>7, <2>1
  <2>2. CASE ~(Exit(c, "failed") \/ Exit(c, "rejected"))
    BY <1>1, <1>5, <1>6, <1>15, <2>2 DEF EndProbe, Coordinator
  <2> QED BY <2>1, <2>2
<1>16. CASE Adapter(c) \/ Signal(c) \/ MainOpensKeyboard(c)
  BY <1>1, <1>8, <1>16 DEF Adapter, AdapterStep, AdapterEnds, Signal, MainOpensKeyboard,
                          devices, Coordinator
<1>17. CASE MainReads(c)
  BY <1>1, <1>4, <1>5, <1>6, <1>17 DEF MainReads, Held, Coordinator
<1>18. CASE BeginProbe(c) \/ ProbeGives(c) \/ SendHandoffKey(c) \/ EndShow(c)
  BY <1>1, <1>5, <1>6, <1>18 DEF BeginProbe, ProbeGives, SendHandoffKey, EndShow,
                                Coordinator
<1>19. CASE Fork(c) \/ KnowAdapter(c) \/ SetGroup(c) \/ Reap(c)
  BY <1>1, <1>5, <1>6, <1>19 DEF Fork, KnowAdapter, SetGroup, Reap, Coordinator
<1>20. CASE \E m \in Mains : Find(c, m)
  BY <1>1, <1>5, <1>6, <1>20 DEF Find, Coordinator
<1>21. CASE GiveUp(c) \/ Settle(c) \/ MakeKeyboard(c) \/ NotOpened(c) \/ Start(c)
  BY <1>1, <1>5, <1>6, <1>7, <1>21 DEF GiveUp, Settle, MakeKeyboard, NotOpened, Start,
                                       Coordinator
<1> QED BY <1>9, <1>10, <1>11, <1>12, <1>13, <1>14, <1>15, <1>16, <1>17, <1>18, <1>19,
           <1>20, <1>21 DEF Coordinate

\* Every step keeps what coordinators returned.
LEMMA NextReturn ==
  TypeInv /\ LockInv /\ MainsInv /\ ServesInv /\ ReturnInv /\ [Next]_vars => ReturnInv'
<1> SUFFICES ASSUME TypeInv, LockInv, MainsInv, ServesInv, ReturnInv, [Next]_vars
             PROVE  ReturnInv'
  OBVIOUS
<1>1. events' \in [plug : Nat, signal : Nat, failure : Nat]
  BY FailuresCounted
<1>2. CASE UNCHANGED vars
  BY <1>2 DEF vars, ReturnInv, Retaken, Returned, Holds, Alive, Waits, Working
<1>3. CASE Next
  <2> SUFFICES ASSUME NEW e \in Coordinators PROVE (Retaken(e) /\ Returned(e))'
    BY <1>1 DEF ReturnInv
  <2>1. ASSUME NEW c \in Coordinators,
               Coordinate(c) \/ Adapter(c) \/ Start(c) \/ Signal(c)
                 \/ MainOpensKeyboard(c) \/ MainReads(c)
                 \/ \E d \in Devices : GrabFails(c, d)
        PROVE  (Retaken(e) /\ Returned(e))'
    <3>1. CASE e = c
      BY <2>1, <3>1, OwnReturns
    <3>2. CASE e # c
      BY <2>1, <3>2, OthersReturn
    <3> QED BY <3>1, <3>2
  <2> QED BY <1>3, <2>1, OutsideReturns DEF Next, Outside
<1> QED BY <1>2, <1>3

(* When no grab failed, a Main that outlives the game holds every device   *)
(* it knows from the coordinator's exit on: devices plugged in later, other *)
(* coordinators and their probes take none of them away.                   *)
THEOREM MainGetsInputBack == Spec => []InputReturned
<1>1. Init => TypeInv /\ LockInv /\ MainsInv /\ ServesInv /\ ReturnInv
  BY InitType, InitLock, InitReturn
<1>2. TypeInv /\ LockInv /\ MainsInv /\ ServesInv /\ ReturnInv /\ [Next]_vars
        => (TypeInv /\ LockInv /\ MainsInv /\ ServesInv /\ ReturnInv)'
  BY NextType, NextLock, NextMains, NextServes, NextReturn
<1>3. ReturnInv => InputReturned
  BY DEF ReturnInv, Returned, InputReturned
<1> QED BY <1>1, <1>2, <1>3, PTL DEF Spec
-----------------------------------------------------------------------------
(***************************************************************************)
(* How long a coordinator works.                                           *)
(***************************************************************************)

\* What a probe holds for a moment is still among the devices to look at.
ProbeInv == \A c \in Coordinators :
  co[c].pc = "probing" /\ co[c].at # Nobody => co[c].at \in co[c].todo

\* Before anything has started no one probes.
LEMMA InitProbe == Init => ProbeInv
BY DEF Init, Idle, ProbeInv

\* Every step keeps what probes rely on.
LEMMA NextProbe == TypeInv /\ LockInv /\ ProbeInv /\ [Next]_vars => ProbeInv'
<1> SUFFICES ASSUME TypeInv, LockInv, ProbeInv, [Next]_vars PROVE ProbeInv'
  OBVIOUS
<1>1. CASE co' = co
  BY <1>1 DEF ProbeInv
<1>2. ASSUME NEW c \in Coordinators,
             Coordinate(c) \/ Adapter(c) \/ Start(c) \/ Signal(c) \/ MainOpensKeyboard(c)
               \/ MainReads(c) \/ \E d \in Devices : GrabFails(c, d)
      PROVE  ProbeInv'
  <2> DEFINE Kept == co'[c].pc = "probing" /\ co'[c].at # Nobody => co'[c].at \in co'[c].todo
  <2>1. /\ co \in [Coordinators -> Coordinator] /\ co[c] \in Coordinator
        /\ co[c].at # Nobody => co[c].pc = "probing" /\ co[c].at \in co[c].todo
    BY DEF TypeInv, CoordinatorsOK, LockInv, Held, ProbeInv
  <2>2. ASSUME NEW d \in Devices, ProbeTakes(c, d) PROVE Kept
    BY <2>1, <2>2 DEF ProbeTakes, At, Coordinator
  <2>3. ASSUME ProbeGives(c) PROVE Kept
    BY <2>1, <2>3 DEF ProbeGives, Coordinator
  <2>4. ASSUME BeginProbe(c) PROVE Kept
    BY <2>1, <2>4 DEF BeginProbe, At, Coordinator
  <2>5. ASSUME co'[c].pc # "probing" PROVE Kept
    BY <2>5
  <2>6. ASSUME co'[c].at = co[c].at, co'[c].todo = co[c].todo PROVE Kept
    BY <2>1, <2>6
  <2>7. \/ \E d \in Devices : ProbeTakes(c, d)
        \/ ProbeGives(c) \/ BeginProbe(c)
        \/ co'[c].pc # "probing"
        \/ co'[c].at = co[c].at /\ co'[c].todo = co[c].todo
    <3> USE <2>1 DEF Goto, At, Exit, Coordinator
    <3>1. ASSUME EndProbe(c) PROVE co'[c].pc # "probing"
      BY <3>1 DEF EndProbe
    <3>2. ASSUME NEW d \in Devices, ChangeGrab(c, d) \/ SkipClosed(c, d) \/ GrabFails(c, d)
          PROVE  co'[c].pc # "probing"
      <4>1. CASE ChangeGrab(c, d)
        BY <4>1 DEF ChangeGrab
      <4>2. CASE SkipClosed(c, d)
        BY <4>2 DEF SkipClosed
      <4>3. CASE GrabFails(c, d)
        BY <4>3 DEF GrabFails
      <4> QED BY <3>2, <4>1, <4>2, <4>3
    <3>3. ASSUME Adapter(c) \/ Signal(c) \/ MainOpensKeyboard(c) \/ MainReads(c)
          PROVE  co'[c].at = co[c].at /\ co'[c].todo = co[c].todo
      BY <3>3 DEF Adapter, AdapterStep, AdapterEnds, Signal, MainOpensKeyboard, MainReads
    <3>4. ASSUME \/ Start(c) \/ (\E m \in Mains : Find(c, m)) \/ GiveUp(c) \/ Settle(c)
                 \/ BeginGrabs(c) \/ EndGrabs(c) \/ Fork(c) \/ KnowAdapter(c)
                 \/ SetGroup(c) \/ Reap(c)
          PROVE  co'[c].pc # "probing"
      BY <3>4 DEF Start, Find, GiveUp, Settle, BeginGrabs, EndGrabs, Fork, KnowAdapter,
                  SetGroup, Reap
    <3>5. ASSUME MakeKeyboard(c) \/ SendHandoffKey(c) \/ NotOpened(c) \/ EndShow(c)
          PROVE  co'[c].pc # "probing"
      BY <3>5 DEF MakeKeyboard, SendHandoffKey, NotOpened, EndShow
    <3> QED BY <1>2, <3>1, <3>2, <3>3, <3>4, <3>5 DEF Coordinate
  <2>8. Kept
    <3> HIDE DEF Kept
    <3> QED BY <2>2, <2>3, <2>4, <2>5, <2>6, <2>7 DEF Kept
  <2>9. ASSUME NEW e \in Coordinators, e # c PROVE co'[e] = co[e]
    BY <1>2, <2>9, Others
  <2> QED BY <2>8, <2>9 DEF ProbeInv
<1> QED BY <1>1, <1>2
     DEF Next, Outside, vars, MainDies, MainStarts, MainOpens, Plug

(* How many devices a set of them has, and one less.                       *)
LEMMA Counts ==
  ASSUME IsFiniteSet(Devices)
  PROVE  /\ Cardinality(Devices) \in Nat
         /\ \A ds \in SUBSET Devices :
              /\ Cardinality(ds) \in Nat /\ Cardinality(ds) <= Cardinality(Devices)
              /\ \A d \in ds : Cardinality(ds \ {d}) = Cardinality(ds) - 1
BY FS_CardinalityType, FS_Subset, FS_RemoveElement

\* A time-out of p looks with l steps each.
LEMMA LookLeft ==
  ASSUME NEW p \in Nat, NEW k \in Nat, NEW l \in Nat, k + 1 <= p
  PROVE  /\ (p - (k + 1)) * l \in Nat /\ (p - k) * l \in Nat
         /\ (p - k) * l = (p - (k + 1)) * l + l
         /\ (p - k) * l <= (p - 0) * l
<1>1. p - (k + 1) \in Nat /\ p - k \in Nat /\ p - 0 = p /\ p - k = (p - (k + 1)) + 1
  OBVIOUS
<1>2. \A a, b \in Nat : a * b \in Nat /\ (a + 1) * b = a * b + b
  OBVIOUS
<1>3. (p - k) * l + k * l = p * l /\ k * l \in Nat
  <2>1. \A a, b \in Int : (a - b) * l + b * l = a * l
    OBVIOUS
  <2> QED BY <1>2, <2>1
<1> QED BY <1>1, <1>2, <1>3

\* What the looks of a time-out weigh.
LEMMA LooksWeigh ==
  ASSUME IsFiniteSet(Devices)
  PROVE  /\ Look = 2 * Cardinality(Devices) + 2 /\ Look \in Nat /\ Looks(0) \in Nat
         /\ \A k \in Tries :
              /\ Looks(k) \in Nat /\ Looks(k + 1) \in Nat
              /\ Looks(k) = Looks(k + 1) + Look /\ Looks(k) <= Looks(0)
<1>1. Look = 2 * Cardinality(Devices) + 2 /\ Look \in Nat
  BY Counts DEF Look
<1>2. ASSUME NEW k \in Tries
      PROVE  /\ Looks(k) \in Nat /\ Looks(k + 1) \in Nat
             /\ Looks(k) = Looks(k + 1) + Look /\ Looks(k) <= Looks(0)
  <2>1. k \in Nat /\ k + 1 <= Passes /\ Passes \in Nat
    BY BoundsAssumption DEF Tries
  <2> QED BY <1>1, <2>1, LookLeft DEF Looks
<1>3. 0 \in Tries
  BY Names
<1> QED BY <1>1, <1>2, <1>3

\* What is left after the last look is a number.
LEMMA AfterLooksWeigh ==
  ASSUME IsFiniteSet(Devices)
  PROVE  \A goal : AfterLooks(goal) \in Nat
BY Counts, LooksWeigh DEF AfterLooks

\* A coordinator that works has something left.
LEMMA WorkWeighs ==
  ASSUME IsFiniteSet(Devices), NEW s \in Coordinator
  PROVE  /\ OwnSteps(s) \in Nat
         /\ s.pc \notin {"off", "exited"} /\ s.at = Nobody => OwnSteps(s) > 0
<1>1. /\ Cardinality(Devices) \in Nat /\ Looks(0) \in Nat /\ Cardinality(s.todo) \in Nat
      /\ Looks(s.tries + 1) \in Nat /\ Look \in Nat \ {0}
      /\ Looks(s.tries) = Looks(s.tries + 1) + Look
  BY Counts, LooksWeigh DEF Coordinator
<1>2. AfterLooks(s.goal) \in Nat
  BY AfterLooksWeigh
<1>3. s.pc \in Places
  BY DEF Coordinator
<1> HIDE DEF Looks, Look, AfterLooks
<1>4. CASE s.pc \in {"probe", "probing"}
  BY <1>1, <1>2, <1>4 DEF OwnSteps
<1>5. CASE s.pc \in {"watch", "settle", "reject", "await", "show", "release", "releasing"}
  BY <1>1, <1>5 DEF OwnSteps
<1>6. CASE s.pc \in {"fork", "forked", "known", "waiting", "restore", "restoring"}
  BY <1>1, <1>6 DEF OwnSteps
<1>7. CASE s.pc \in {"off", "exited"}
  BY <1>7 DEF OwnSteps
<1> QED BY <1>3, <1>4, <1>5, <1>6, <1>7 DEF Places

\* The same adapter and less of its own to do: less to do.
LEMMA Lighter ==
  ASSUME IsFiniteSet(Devices), NEW r \in Coordinator, NEW s \in Coordinator,
         s.adapter = r.adapter, OwnSteps(s) < OwnSteps(r)
  PROVE  StepsLeft(s) < StepsLeft(r)
<1>1. OwnSteps(r) \in Nat /\ OwnSteps(s) \in Nat
  BY WorkWeighs
<1>2. AdapterSteps(r) \in Nat /\ AdapterSteps(s) = AdapterSteps(r)
  BY DEF AdapterSteps
<1> HIDE DEF OwnSteps, AdapterSteps
<1> QED BY <1>1, <1>2 DEF StepsLeft

(* Each step of a coordinator, or one that fails for it, leaves it less.   *)
LEMMA StepShrinks ==
  ASSUME IsFiniteSet(Devices), TypeInv, TypeInv', LockInv, ProbeInv,
         NEW c \in Coordinators, co[c].pc # "off",
         Coordinate(c) \/ \E d \in Devices : GrabFails(c, d)
  PROVE  StepsLeft(co'[c]) < StepsLeft(co[c])
<1> DEFINE r == co[c]
           s == co'[c]
           n == Cardinality(Devices)
           Less == StepsLeft(s) < StepsLeft(r)
<1> SUFFICES Less
  OBVIOUS
<1> USE DEF At, Goto
<1>1. /\ co \in [Coordinators -> Coordinator]
      /\ r \in Coordinator /\ s \in Coordinator /\ r.pc # "off"
      /\ r.at # Nobody => r.pc = "probing" /\ r.at \in r.todo
  BY DEF TypeInv, CoordinatorsOK, LockInv, Held, ProbeInv
<1>2. n \in Nat /\ Look = 2 * n + 2 /\ Looks(0) \in Nat
  BY Counts, LooksWeigh
<1>3. /\ r.tries \in Tries /\ s.tries \in Tries /\ r.todo \in SUBSET Devices
      /\ s.todo \in SUBSET Devices
  BY <1>1 DEF Coordinator
<1>4. /\ Looks(r.tries) \in Nat /\ Looks(r.tries + 1) \in Nat
      /\ Looks(r.tries) = Looks(r.tries + 1) + Look /\ Looks(r.tries) <= Looks(0)
  BY <1>3, LooksWeigh
<1>5. /\ Cardinality(r.todo) \in Nat /\ Cardinality(r.todo) <= n
      /\ Cardinality(s.todo) \in Nat /\ Cardinality(s.todo) <= n
      /\ \A d \in r.todo : Cardinality(r.todo \ {d}) = Cardinality(r.todo) - 1
  BY <1>3, Counts
<1>6. AfterLooks(r.goal) \in Nat
  BY AfterLooksWeigh
<1> HIDE DEF Less
<1>7. ASSUME s.adapter = r.adapter, OwnSteps(s) < OwnSteps(r) PROVE Less
  BY <1>1, <1>7, Lighter DEF Less
<1>8. ASSUME NEW rc, Exit(c, rc), r.at = Nobody, r.pc # "exited" PROVE Less
  <2>1. s.pc = "exited" /\ s.adapter = r.adapter
    BY <1>1, <1>8 DEF Exit, Coordinator
  <2>2. OwnSteps(s) = 0
    BY <2>1 DEF OwnSteps
  <2>3. OwnSteps(r) \in Nat /\ OwnSteps(r) > 0
    BY <1>1, <1>8, WorkWeighs
  <2> QED BY <1>7, <2>1, <2>2, <2>3
<1>9. ASSUME NEW m \in Mains, Find(c, m) PROVE Less
  <2>1. r.pc = "watch" /\ s.pc = "settle" /\ s.adapter = r.adapter
    BY <1>1, <1>9 DEF Find, Coordinator
  <2> QED BY <1>2, <1>7, <2>1 DEF OwnSteps
<1>10. CASE GiveUp(c)
  <2>1. r.pc = "watch"
    BY <1>10 DEF GiveUp
  <2> QED BY <1>1, <1>8, <1>10, <2>1 DEF GiveUp, Less
<1>11. CASE Settle(c)
  <2>1. ASSUME Alive(r.mi) PROVE Less
    <3>1. r.pc = "settle" /\ s.pc \in {"release", "reject"} /\ s.adapter = r.adapter
      BY <1>1, <1>11, <2>1 DEF Settle, Coordinator
    <3> QED BY <1>2, <1>7, <3>1 DEF OwnSteps
  <2> QED BY <1>1, <1>8, <1>11, <2>1 DEF Settle
<1>12. CASE BeginGrabs(c)
  <2>1. ASSUME Alive(r.mi) PROVE Less
    <3>1. /\ s.adapter = r.adapter
          /\ \/ r.pc = "release" /\ s.pc = "releasing"
             \/ r.pc = "restore" /\ s.pc = "restoring"
      BY <1>1, <1>12, <2>1 DEF BeginGrabs, Coordinator
    <3> QED BY <1>2, <1>5, <1>7, <3>1 DEF OwnSteps
  <2> QED BY <1>1, <1>8, <1>12, <2>1 DEF BeginGrabs
<1>13. CASE EndGrabs(c)
  <2>1. ASSUME ~(At(c, "restoring") \/ ~r.found \/ r.missed) PROVE Less
    <3>1. /\ s.adapter = r.adapter /\ r.pc = "releasing"
          /\ s.pc = "probe" /\ s.goal = "game" /\ s.tries = 0
      BY <1>1, <1>13, <2>1 DEF EndGrabs, Coordinator
    <3>2. OwnSteps(s) = n + 9 + Looks(0)
      BY <3>1 DEF OwnSteps, AfterLooks
    <3>3. OwnSteps(r) = Looks(0) + n + 10 + Cardinality(r.todo)
      BY <3>1 DEF OwnSteps
    <3> QED BY <1>2, <1>5, <1>7, <3>1, <3>2, <3>3
  <2> QED BY <1>1, <1>8, <1>13, <2>1 DEF EndGrabs
<1>14. ASSUME NEW d \in r.todo, s.todo = r.todo \ {d}, s.pc = r.pc,
             r.pc \in {"releasing", "restoring"}, s.adapter = r.adapter
      PROVE  Less
  BY <1>2, <1>5, <1>7, <1>14 DEF OwnSteps
<1>15. ASSUME NEW d \in Devices, ChangeGrab(c, d) \/ SkipClosed(c, d) \/ GrabFails(c, d)
      PROVE  Less
  <2>1. CASE ChangeGrab(c, d)
    BY <1>1, <1>14, <2>1 DEF ChangeGrab, Left, Coordinator
  <2>2. CASE SkipClosed(c, d)
    BY <1>1, <1>14, <2>2 DEF SkipClosed, Coordinator
  <2>3. CASE GrabFails(c, d)
    BY <1>1, <1>14, <2>3 DEF GrabFails, Left, Coordinator
  <2> QED BY <1>15, <2>1, <2>2, <2>3
<1>16. CASE BeginProbe(c)
  <2>1. /\ r.pc = "probe" /\ s.pc = "probing" /\ s.goal = r.goal /\ s.tries = r.tries
        /\ s.adapter = r.adapter
    BY <1>1, <1>16 DEF BeginProbe, Coordinator
  <2>2. OwnSteps(r) = AfterLooks(r.goal) + Looks(r.tries)
    BY <2>1 DEF OwnSteps
  <2>3. OwnSteps(s) = AfterLooks(r.goal) + Looks(r.tries + 1) + 2 * Cardinality(s.todo)
                        + (IF s.at = Nobody THEN 1 ELSE 0)
    BY <2>1 DEF OwnSteps
  <2> QED BY <1>2, <1>4, <1>5, <1>6, <1>7, <2>1, <2>2, <2>3
<1>17. ASSUME s.pc = "probing", r.pc = "probing", s.goal = r.goal, s.tries = r.tries,
             s.adapter = r.adapter,
             2 * Cardinality(s.todo) + (IF s.at = Nobody THEN 1 ELSE 0)
               < 2 * Cardinality(r.todo) + (IF r.at = Nobody THEN 1 ELSE 0)
      PROVE  Less
  <2>1. OwnSteps(r) = AfterLooks(r.goal) + Looks(r.tries + 1) + 2 * Cardinality(r.todo)
                        + (IF r.at = Nobody THEN 1 ELSE 0)
    BY <1>17 DEF OwnSteps
  <2>2. OwnSteps(s) = AfterLooks(r.goal) + Looks(r.tries + 1) + 2 * Cardinality(s.todo)
                        + (IF s.at = Nobody THEN 1 ELSE 0)
    BY <1>17 DEF OwnSteps
  <2> QED BY <1>4, <1>5, <1>6, <1>7, <1>17, <2>1, <2>2
<1>18. ASSUME NEW d \in Devices, ProbeTakes(c, d) PROVE Less
  <2>1. /\ s.pc = "probing" /\ r.pc = "probing" /\ s.goal = r.goal /\ s.tries = r.tries
        /\ s.adapter = r.adapter /\ r.at = Nobody /\ d \in r.todo
        /\ \/ s.at = Nobody /\ s.todo = r.todo \ {d}
           \/ s.at = d /\ s.todo = r.todo
    BY <1>1, <1>18 DEF ProbeTakes, Coordinator
  <2>2. d # Nobody
    BY <1>18, ProcessesAssumption
  <2>3. Cardinality(r.todo \ {d}) = Cardinality(r.todo) - 1
    BY <1>5, <2>1
  <2>4. 2 * Cardinality(s.todo) + (IF s.at = Nobody THEN 1 ELSE 0)
          < 2 * Cardinality(r.todo) + (IF r.at = Nobody THEN 1 ELSE 0)
    <3>1. CASE s.at = Nobody /\ s.todo = r.todo \ {d}
      <4>1. Cardinality(s.todo) = Cardinality(r.todo) - 1
        BY <2>3, <3>1
      <4> QED BY <1>5, <2>1, <3>1, <4>1
    <3>2. CASE s.at = d /\ s.todo = r.todo
      <4>1. Cardinality(s.todo) = Cardinality(r.todo)
        BY <3>2
      <4>2. (IF s.at = Nobody THEN 1 ELSE 0) = 0 /\ (IF r.at = Nobody THEN 1 ELSE 0) = 1
        BY <2>1, <2>2, <3>2
      <4> QED BY <1>5, <4>1, <4>2
    <3> QED BY <2>1, <3>1, <3>2
  <2> QED BY <1>17, <2>1, <2>4
<1>19. CASE ProbeGives(c)
  <2>1. /\ s.pc = "probing" /\ r.pc = "probing" /\ s.goal = r.goal /\ s.tries = r.tries
        /\ s.adapter = r.adapter /\ r.at # Nobody /\ s.at = Nobody
        /\ s.todo = r.todo \ {r.at}
    BY <1>1, <1>19 DEF ProbeGives, Coordinator
  <2>2. Cardinality(r.todo \ {r.at}) = Cardinality(r.todo) - 1
    BY <1>1, <1>5, <2>1
  <2>3. Cardinality(s.todo) = Cardinality(r.todo) - 1
    BY <2>1, <2>2
  <2>4. (IF s.at = Nobody THEN 1 ELSE 0) = 1 /\ (IF r.at = Nobody THEN 1 ELSE 0) = 0
    BY <2>1
  <2>5. 2 * Cardinality(s.todo) + (IF s.at = Nobody THEN 1 ELSE 0)
          < 2 * Cardinality(r.todo) + (IF r.at = Nobody THEN 1 ELSE 0)
    BY <1>5, <2>3, <2>4
  <2> QED BY <1>17, <2>1, <2>5
<1>20. CASE EndProbe(c)
  <2>1. /\ r.pc = "probing" /\ r.at = Nobody
        /\ OwnSteps(r) = AfterLooks(r.goal) + Looks(r.tries + 1) + 2 * Cardinality(r.todo) + 1
    BY <1>20 DEF EndProbe, OwnSteps
  <2>2. ASSUME NEW rc, Exit(c, rc) PROVE Less
    BY <1>8, <2>1, <2>2
  <2>3. ASSUME Again(c), co' = [co EXCEPT ![c].pc = "probe", ![c].tries = (@ + 1) % Passes]
        PROVE  Less
    <3>1. r.tries \in Nat /\ r.tries + 1 < Passes /\ Passes \in Nat
      BY <1>3, <2>3, BoundsAssumption DEF Again, Tries
    <3>2. (r.tries + 1) % Passes = r.tries + 1
      BY <3>1
    <3>3. /\ s.pc = "probe" /\ s.goal = r.goal /\ s.tries = r.tries + 1
          /\ s.adapter = r.adapter
      BY <1>1, <2>3, <3>2 DEF Coordinator
    <3>4. OwnSteps(s) = AfterLooks(r.goal) + Looks(r.tries + 1)
      BY <3>3 DEF OwnSteps
    <3> QED BY <1>4, <1>5, <1>6, <1>7, <2>1, <3>3, <3>4
  <2>4. ASSUME r.goal = "game", Goto(c, "fork") PROVE Less
    <3>1. s.pc = "fork" /\ s.adapter = r.adapter
      BY <1>1, <2>4 DEF Coordinator
    <3>2. OwnSteps(s) = n + 9 /\ AfterLooks(r.goal) = n + 9
      BY <2>4, <3>1 DEF OwnSteps, AfterLooks
    <3> QED BY <1>2, <1>4, <1>5, <1>7, <2>1, <3>1, <3>2
  <2>5. ASSUME r.goal = "handoff", Goto(c, "show") PROVE Less
    <3>1. s.pc = "show" /\ s.adapter = r.adapter
      BY <1>1, <2>5 DEF Coordinator
    <3>2. OwnSteps(s) = 2 * Looks(0) + 1 /\ AfterLooks(r.goal) = 2 * Looks(0) + 1
      BY <2>5, <3>1 DEF OwnSteps, AfterLooks
    <3> QED BY <1>2, <1>4, <1>5, <1>7, <2>1, <3>1, <3>2
  <2>6. ASSUME r.goal = "leaving",
               co' = [co EXCEPT ![c].pc = "probe", ![c].goal = "back",
                                ![c].tries = 0, ![c].keyboard = "restore"]
        PROVE  Less
    <3>1. s.pc = "probe" /\ s.goal = "back" /\ s.tries = 0 /\ s.adapter = r.adapter
      BY <1>1, <2>6 DEF Coordinator
    <3>2. OwnSteps(s) = 0 + Looks(0) /\ AfterLooks(r.goal) = Looks(0)
      BY <2>6, <3>1 DEF OwnSteps, AfterLooks
    <3> QED BY <1>2, <1>4, <1>5, <1>7, <2>1, <3>1, <3>2
  <2> QED BY <1>20, <2>2, <2>3, <2>4, <2>5, <2>6 DEF EndProbe
<1>21. CASE MakeKeyboard(c)
  <2>1. r.pc = "reject"
    BY <1>21 DEF MakeKeyboard
  <2>2. ASSUME co' = [co EXCEPT ![c].pc = "await", ![c].keyboard = "made"] PROVE Less
    <3>1. s.pc = "await" /\ s.adapter = r.adapter
      BY <1>1, <2>2 DEF Coordinator
    <3> QED BY <1>2, <1>7, <2>1, <3>1 DEF OwnSteps
  <2> QED BY <1>1, <1>8, <1>21, <2>1, <2>2 DEF MakeKeyboard
<1>22. CASE SendHandoffKey(c)
  <2>1. /\ r.pc = "await" /\ s.pc = "probe" /\ s.goal = "handoff" /\ s.tries = 0
        /\ s.adapter = r.adapter
    BY <1>1, <1>22 DEF SendHandoffKey, Coordinator
  <2>2. OwnSteps(s) = 2 * Looks(0) + 1 + Looks(0) /\ OwnSteps(r) = 3 * Looks(0) + 2
    BY <2>1 DEF OwnSteps, AfterLooks
  <2> QED BY <1>2, <1>7, <2>1, <2>2
<1>23. CASE NotOpened(c)
  <2>1. r.pc = "await"
    BY <1>23 DEF NotOpened
  <2> QED BY <1>1, <1>8, <1>23, <2>1 DEF NotOpened
<1>24. CASE EndShow(c)
  <2>1. /\ r.pc = "show" /\ s.pc = "probe" /\ s.goal = "leaving" /\ s.tries = r.tries
        /\ s.adapter = r.adapter
    BY <1>1, <1>24 DEF EndShow, Coordinator
  <2>2. OwnSteps(s) = Looks(0) + Looks(r.tries) /\ OwnSteps(r) = 2 * Looks(0) + 1
    BY <2>1 DEF OwnSteps, AfterLooks
  <2> QED BY <1>2, <1>4, <1>7, <2>1, <2>2
<1>25. CASE Fork(c)
  <2>1. ASSUME Goto(c, "restore"), r.pc = "fork" PROVE Less
    <3>1. s.pc = "restore" /\ s.adapter = r.adapter
      BY <1>1, <2>1 DEF Coordinator
    <3> QED BY <1>2, <1>7, <2>1, <3>1 DEF OwnSteps
  <2>2. ASSUME co' = [co EXCEPT ![c].pc = "forked", ![c].adapter = "child"], r.pc = "fork"
        PROVE  Less
    <3>1. s.pc = "forked" /\ s.adapter = "child"
      BY <1>1, <2>2 DEF Coordinator
    <3>2. OwnSteps(s) = n + 5 /\ AdapterSteps(s) = 3
      BY <3>1 DEF OwnSteps, AdapterSteps
    <3>3. OwnSteps(r) = n + 9 /\ AdapterSteps(r) \in Nat
      BY <2>2 DEF OwnSteps, AdapterSteps
    <3> QED BY <1>2, <3>2, <3>3 DEF StepsLeft, Less
  <2> QED BY <1>25, <2>1, <2>2 DEF Fork
<1>26. CASE KnowAdapter(c)
  <2>1. r.pc = "forked" /\ s.pc = "known" /\ s.adapter = r.adapter
    BY <1>1, <1>26 DEF KnowAdapter, Coordinator
  <2> QED BY <1>2, <1>7, <2>1 DEF OwnSteps
<1>27. CASE SetGroup(c)
  <2>1. /\ r.pc = "known" /\ s.pc = "waiting"
        /\ \/ s.adapter = r.adapter
           \/ r.adapter = "child" /\ s.adapter = "grouped"
    BY <1>1, <1>27 DEF SetGroup, Coordinator
  <2>2. OwnSteps(r) = n + 4 /\ OwnSteps(s) = n + 3
    BY <2>1 DEF OwnSteps
  <2>3. AdapterSteps(r) \in Nat /\ AdapterSteps(s) \in Nat /\ AdapterSteps(s) <= AdapterSteps(r)
    BY <2>1 DEF AdapterSteps
  <2> QED BY <1>2, <2>2, <2>3 DEF StepsLeft, Less
<1>28. CASE Reap(c)
  <2>1. r.pc = "waiting" /\ s.pc = "restore" /\ s.adapter = r.adapter
    BY <1>1, <1>28 DEF Reap, Coordinator
  <2> QED BY <1>2, <1>7, <2>1 DEF OwnSteps
<1> QED
  BY <1>9, <1>10, <1>11, <1>12, <1>13, <1>15, <1>16, <1>18, <1>19, <1>20, <1>21,
     <1>22, <1>23, <1>24, <1>25, <1>26, <1>27, <1>28 DEF Coordinate

\* Each step of the adapter leaves it less, and a coordinator no more.
LEMMA AdapterShrinks ==
  ASSUME IsFiniteSet(Devices), TypeInv, NEW c \in Coordinators, Adapter(c)
  PROVE  StepsLeft(co'[c]) < StepsLeft(co[c])
<1> DEFINE r == co[c]
           s == co'[c]
<1>1. co \in [Coordinators -> Coordinator] /\ r \in Coordinator
  BY DEF TypeInv, CoordinatorsOK
<1>2. /\ s = [r EXCEPT !.adapter = s.adapter]
      /\ \/ r.adapter = "child" /\ s.adapter = "grouped"
         \/ r.adapter = "grouped" /\ s.adapter = "running"
         \/ r.adapter \in {"running", "told"} /\ s.adapter = "ended"
  BY <1>1 DEF Adapter, AdapterStep, AdapterEnds, Coordinator
<1>3. /\ s.pc = r.pc /\ s.todo = r.todo /\ s.goal = r.goal /\ s.tries = r.tries
      /\ s.at = r.at
  BY <1>1, <1>2 DEF Coordinator
<1> HIDE DEF s
<1>4. OwnSteps(s) = OwnSteps(r)
  BY <1>3 DEF OwnSteps
<1>5. OwnSteps(r) \in Nat
  BY <1>1, WorkWeighs
<1>6. AdapterSteps(r) \in Nat /\ AdapterSteps(s) \in Nat /\ AdapterSteps(s) < AdapterSteps(r)
  BY <1>2 DEF AdapterSteps
<1>7. StepsLeft(s) < StepsLeft(r)
  BY <1>4, <1>5, <1>6 DEF StepsLeft
<1> QED BY <1>7 DEF s

\* Signals and Main's keys change nothing that counts.
LEMMA TouchKeeps ==
  ASSUME TypeInv, NEW c \in Coordinators, Signal(c) \/ MainOpensKeyboard(c) \/ MainReads(c)
  PROVE  StepsLeft(co'[c]) = StepsLeft(co[c])
<1> DEFINE r == co[c]
           s == co'[c]
<1>1. co \in [Coordinators -> Coordinator] /\ r \in Coordinator
  BY DEF TypeInv, CoordinatorsOK
<1>2. /\ s.pc = r.pc /\ s.todo = r.todo /\ s.goal = r.goal /\ s.tries = r.tries
      /\ s.at = r.at
      /\ s.adapter = r.adapter \/ (r.adapter = "running" /\ s.adapter = "told")
  BY <1>1 DEF Signal, MainOpensKeyboard, MainReads, Coordinator
<1> HIDE DEF s
<1>3. OwnSteps(s) = OwnSteps(r) /\ AdapterSteps(s) = AdapterSteps(r)
  BY <1>2 DEF OwnSteps, AdapterSteps
<1>4. StepsLeft(s) = StepsLeft(r)
  BY <1>3 DEF StepsLeft
<1> QED BY <1>4 DEF s

\* What a coordinator has left is a number.
LEMMA StepsCount ==
  ASSUME IsFiniteSet(Devices), NEW s \in Coordinator
  PROVE  StepsLeft(s) \in Nat
<1>1. OwnSteps(s) \in Nat
  BY WorkWeighs
<1>2. AdapterSteps(s) \in Nat
  BY DEF AdapterSteps
<1> QED BY <1>1, <1>2 DEF StepsLeft

(* With any number of devices, Mains and coordinators, whatever fails and  *)
(* whoever interferes: a coordinator and its adapter take no more steps    *)
(* than StepsLeft counts once it has started: no wait is repeated without  *)
(* end (coordinator, set_main_input_grabs, physical_input_busy,            *)
(* handoff_main_framebuffer, restore_main_framebuffer, run_adapter).       *)
THEOREM CoordinatorsAreBounded ==
  ASSUME IsFiniteSet(Devices)
  PROVE  Spec => CoordinatorsBounded
<1>1. ASSUME TypeInv, LockInv, ProbeInv, [Next]_vars, ~UNCHANGED vars,
             NEW c \in Coordinators, co[c].pc # "off"
      PROVE  /\ StepsLeft(co[c])' <= StepsLeft(co[c])
             /\ Coordinate(c) \/ Adapter(c) => StepsLeft(co[c])' < StepsLeft(co[c])
  <2>1. TypeInv'
    BY <1>1, NextType
  <2>2. StepsLeft(co[c])' = StepsLeft(co'[c])
    BY DEF StepsLeft, OwnSteps, AdapterSteps, Looks, Look, AfterLooks
  <2>3. StepsLeft(co[c]) \in Nat /\ StepsLeft(co'[c]) \in Nat
    BY <1>1, <2>1, StepsCount DEF TypeInv, CoordinatorsOK
  <2>4. ASSUME Coordinate(c) \/ \E d \in Devices : GrabFails(c, d)
        PROVE  StepsLeft(co'[c]) < StepsLeft(co[c])
    BY <1>1, <2>1, <2>4, StepShrinks
  <2>5. ASSUME Adapter(c)
        PROVE  StepsLeft(co'[c]) < StepsLeft(co[c])
    BY <1>1, <2>5, AdapterShrinks
  <2>6. ASSUME Signal(c) \/ MainOpensKeyboard(c) \/ MainReads(c)
        PROVE  StepsLeft(co'[c]) = StepsLeft(co[c])
    BY <1>1, <2>6, TouchKeeps
  <2>7. ASSUME co'[c] = co[c]
        PROVE  StepsLeft(co'[c]) = StepsLeft(co[c])
    BY <2>7
  <2>8. ~Start(c)
    BY <1>1 DEF Start, At
  <2>9. \/ Coordinate(c) \/ Adapter(c) \/ Signal(c) \/ MainOpensKeyboard(c) \/ MainReads(c)
        \/ \E d \in Devices : GrabFails(c, d)
        \/ co'[c] = co[c]
    <3>1. ASSUME NEW e \in Coordinators,
                 Coordinate(e) \/ Adapter(e) \/ Start(e) \/ Signal(e) \/ MainOpensKeyboard(e)
                   \/ MainReads(e) \/ \E d \in Devices : GrabFails(e, d)
          PROVE  e = c \/ co'[c] = co[c]
      BY <1>1, <3>1, Others
    <3>2. ASSUME \/ \E m \in Mains : \/ MainDies(m)
                                     \/ \E kind \in Kinds : MainStarts(m, kind)
                                     \/ \E d \in Devices : MainOpens(m, d)
                 \/ \E d \in Devices : Plug(d)
          PROVE  co' = co
      BY <3>2 DEF MainDies, MainStarts, MainOpens, Plug
    <3> QED BY <1>1, <2>8, <3>1, <3>2 DEF Next, Outside
  <2>10. StepsLeft(co'[c]) <= StepsLeft(co[c])
    BY <2>3, <2>4, <2>5, <2>6, <2>7, <2>9
  <2> QED BY <2>2, <2>4, <2>5, <2>10
<1>2. TypeInv /\ LockInv /\ ProbeInv /\ [Next]_vars
        => [\A c \in Coordinators : co[c].pc # "off" =>
              /\ StepsLeft(co[c])' <= StepsLeft(co[c])
              /\ Coordinate(c) \/ Adapter(c) => StepsLeft(co[c])' < StepsLeft(co[c])]_vars
  BY <1>1
<1>3. Init => TypeInv /\ LockInv /\ ProbeInv
  BY InitType, InitLock, InitProbe
<1>4. TypeInv /\ LockInv /\ ProbeInv /\ [Next]_vars => (TypeInv /\ LockInv /\ ProbeInv)'
  BY NextType, NextLock, NextProbe
<1> QED BY <1>2, <1>3, <1>4, PTL DEF Spec, CoordinatorsBounded

=============================================================================
