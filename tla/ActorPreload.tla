---------------------------- MODULE ActorPreload ----------------------------
(***************************************************************************)
(* Preloading in the game (patches 0008 to 0010): actors that enter a      *)
(* loaded map are queued, and each game tick serves one queued actor,      *)
(* resource or pose; resources name further ones, in cycles as summoned    *)
(* creatures do.  All queues are dropped when memory is short.             *)
(***************************************************************************)
EXTENDS Integers, Sequences, SequencesExt, FiniteSets

CONSTANTS
  Actors,     \* global ids
  Resources,  \* the resources they may need
  Spells,     \* the resources the scripts of each actor cast
  Needs,      \* the resources each resource names
  MaxShort    \* bound: ticks that meet the memory reserve

VARIABLES
  present,               \* actors in the game
  gone,                  \* actors removed from it (history)
  preloadActors,         \* queued actors
  preloadResources,      \* queued resources
  preloadPoses,          \* the actors of the queued poses
  preloadSeenActors,     \* actors ever queued
  preloadSeenResources,  \* resources ever queued
  preloadActive,         \* there is work, as the completion message sees it
  loaded,                \* resources and actors served (history)
  short                  \* ticks that met the memory reserve

vars == <<present, gone, preloadActors, preloadResources, preloadPoses,
          preloadSeenActors, preloadSeenResources, preloadActive, loaded, short>>

Init ==
  /\ present = {} /\ gone = {} /\ loaded = {} /\ short = 0
  /\ preloadActors = <<>> /\ preloadResources = <<>> /\ preloadPoses = <<>>
  /\ preloadSeenActors = {} /\ preloadSeenResources = {}
  /\ preloadActive = FALSE

-----------------------------------------------------------------------------

\* Map::AddActor with QueueActorPreload.  An actor may enter again.
AddActor(actor) ==
  /\ actor \notin present /\ present' = present \cup {actor}
  /\ preloadSeenActors' = preloadSeenActors \cup {actor}
  /\ IF actor \in preloadSeenActors THEN UNCHANGED <<preloadActors, preloadActive>>
     ELSE preloadActors' = Append(preloadActors, actor) /\ preloadActive' = TRUE
  /\ UNCHANGED <<gone, preloadResources, preloadPoses, preloadSeenResources, loaded, short>>

RemoveActor(actor) ==
  /\ actor \in present /\ present' = present \ {actor}
  /\ gone' = gone \cup {actor}
  /\ UNCHANGED <<preloadActors, preloadResources, preloadPoses, preloadSeenActors,
                 preloadSeenResources, preloadActive, loaded, short>>

\* Each resource is queued once; among those of one call the order is open.
QueueResources(queue, refs) ==
  /\ preloadResources' = queue \o SetToSeq(refs \ preloadSeenResources)
  /\ preloadSeenResources' = preloadSeenResources \cup refs

\* Slip: an actor that is gone keeps its place.
Served_Present(actor) == IF actor \in present THEN Tail(preloadActors) ELSE preloadActors

\* The queue without the actor just served.
Served(actor) == Tail(preloadActors)

\* An actor that is gone is passed over.  Casters get poses of two kinds.
ServeActor ==
  /\ preloadActors # <<>>
  /\ LET actor == Head(preloadActors)
         here == actor \in present
     IN  /\ preloadActors' = Served(actor)
         /\ QueueResources(preloadResources, IF here THEN Spells[actor] ELSE {})
         /\ preloadPoses' = IF ~here THEN preloadPoses
                            ELSE IF Spells[actor] # {} THEN preloadPoses \o <<actor, actor>>
                            ELSE Append(preloadPoses, actor)
         /\ loaded' = IF here THEN loaded \cup {actor} ELSE loaded

\* What a spell, effect, table or creature names is queued; animations are
\* decoded at once.
ServeResource ==
  /\ preloadActors = <<>> /\ preloadResources # <<>>
  /\ LET resource == Head(preloadResources)
     IN  /\ QueueResources(Tail(preloadResources), Needs[resource])
         /\ loaded' = loaded \cup {resource}
  /\ UNCHANGED <<preloadActors, preloadPoses>>

ServePose ==
  /\ preloadActors = <<>> /\ preloadResources = <<>> /\ preloadPoses # <<>>
  /\ preloadPoses' = Tail(preloadPoses)
  /\ UNCHANGED <<preloadActors, preloadResources, preloadSeenResources, loaded>>

\* A tick with nothing queued.
ServeNothing ==
  /\ preloadActors = <<>> /\ preloadResources = <<>> /\ preloadPoses = <<>>
  /\ UNCHANGED <<preloadActors, preloadResources, preloadPoses, preloadSeenResources, loaded>>

\* Slip: the actors' queue alone is looked at.
Completed_Actors(actors, resources, poses) == actors = <<>>

Completed(actors, resources, poses) ==
  actors = <<>> /\ resources = <<>> /\ poses = <<>>

\* ProcessPreloadQueue with memory to spare.
ProcessPreloadQueue ==
  /\ ServeActor \/ ServeResource \/ ServePose \/ ServeNothing
  /\ preloadActive' =
       (preloadActive /\ ~Completed(preloadActors', preloadResources', preloadPoses'))
  /\ UNCHANGED <<present, gone, preloadSeenActors, short>>

\* Less than the reserve is available, also after the factory cache was
\* trimmed.  What was seen stays so, and is not queued again.
MemoryShort ==
  /\ short < MaxShort /\ short' = short + 1
  /\ preloadActors' = <<>> /\ preloadResources' = <<>> /\ preloadPoses' = <<>>
  /\ preloadActive' = FALSE
  /\ UNCHANGED <<present, gone, preloadSeenActors, preloadSeenResources, loaded>>

Next ==
  \/ \E actor \in Actors : AddActor(actor) \/ RemoveActor(actor)
  \/ ProcessPreloadQueue \/ MemoryShort

Spec == Init /\ [][Next]_vars

(* Game ticks go on.                                                       *)
FairSpec == Spec /\ WF_vars(ProcessPreloadQueue)

-----------------------------------------------------------------------------

\* How many ticks what is queued, or may still be queued, can take.
Work ==
  3 * (Len(preloadActors) + Cardinality(Actors \ preloadSeenActors))
  + Len(preloadResources) + Cardinality(Resources \ preloadSeenResources)
  + Len(preloadPoses)

(* Nothing adds to the work, though resources name one another in cycles   *)
(* and actors come again, and each tick takes some of what there is.       *)
WorkShrinks == [][/\ Work' <= Work
                  /\ preloadActive /\ ProcessPreloadQueue => Work' < Work]_vars

(* Preloading ends, though resources name one another in cycles and actors *)
(* leave before their turn.                                                *)
PreloadEnds == preloadActive ~> ~preloadActive

(* When it is over, and memory was never short, every actor that stayed    *)
(* and every resource it may need, however indirectly, has been served.    *)
NothingSkipped ==
  ~preloadActive /\ short = 0 =>
    /\ present \ gone \subseteq loaded
    /\ \A actor \in loaded \cap Actors : Spells[actor] \subseteq loaded
    /\ \A resource \in loaded \cap Resources : Needs[resource] \subseteq loaded

=============================================================================
