----------------------------- MODULE Protocols -----------------------------
(***************************************************************************)
(* The small protocols about the game side by side: its start script, the  *)
(* thread library, the main loop's tick, the audio locks, preloading and   *)
(* the sampler's ring.  A behaviour is one of a single protocol, part; the *)
(* variables of the others keep their first values.                        *)
(***************************************************************************)
EXTENDS Integers, FiniteSets

CONSTANTS
  MaxRuns, MaxSignals,                         \* RunScript
  Threads, Main, Cpus,                         \* ThreadAffinity
  OneTick, Latest,                             \* GameTick
  Channels, MaxRequests,                       \* AudioLock
  Actors, Resources, Spells, Needs, MaxShort,  \* ActorPreload
  Size, Addresses, Slots, MaxEvents            \* PerfRing

VARIABLES
  part,
  script, run, old, swapOn, file, swap, swappiness, video, switched, child, signals,
  trapped, late, left, abnormal,
  library, others, split, mask, stage, process, unlucky,
  time, lastGameUpdate, updates, first, stalled,
  game, sdlLock, stateMutex, playing, channelMap, request, channel,
  present, gone, preloadActors, preloadResources, preloadPoses,
  preloadSeenActors, preloadSeenResources, preloadActive, loaded, short,
  ring, dataHead, dataTail, unsent, taken, enabled, sampler, head, tail,
  samples, total, lost

Script == INSTANCE RunScript
Affinity == INSTANCE ThreadAffinity
Tick == INSTANCE GameTick
Audio == INSTANCE AudioLock
Preload == INSTANCE ActorPreload
Perf == INSTANCE PerfRing

\* main is a thread.
ASSUME ThreadsAssumption == Main \in Threads

\* A tick takes time.
ASSUME TickAssumption == OneTick \in Nat \ {0} /\ Latest \in Nat

\* A lock that is free has no channel.
ASSUME ChannelsAssumption == Audio!Free \notin Channels

\* Actors and resources are finitely many, and what actors cast and resources
\* name are resources.
ASSUME PreloadAssumption ==
  /\ IsFiniteSet(Actors) /\ IsFiniteSet(Resources) /\ Actors \cap Resources = {}
  /\ Spells \in [Actors -> SUBSET Resources]
  /\ Needs \in [Resources -> SUBSET Resources]

\* A ring holds a record.
ASSUME RingAssumption == Size \in Nat \ {0}

-----------------------------------------------------------------------------

Parts == {"script", "affinity", "tick", "audio", "preload", "perf"}

scriptVars == <<script, run, old, swapOn, file, swap, swappiness, video, switched, child,
                signals, trapped, late, left, abnormal>>
affinityVars == <<library, others, split, mask, stage, process, unlucky>>
tickVars == <<time, lastGameUpdate, updates, first, stalled>>
audioVars == <<game, sdlLock, stateMutex, playing, channelMap, request, channel>>
preloadVars == <<present, gone, preloadActors, preloadResources, preloadPoses,
                 preloadSeenActors, preloadSeenResources, preloadActive, loaded, short>>
perfVars == <<ring, dataHead, dataTail, unsent, taken, enabled, sampler, head, tail,
              samples, total, lost>>
vars == <<part, scriptVars, affinityVars, tickVars, audioVars, preloadVars, perfVars>>

Init ==
  /\ part \in Parts
  /\ Script!Init /\ Affinity!Init /\ Tick!Init /\ Audio!Init /\ Preload!Init /\ Perf!Init
  /\ part # "affinity" => process = Cpus
  /\ part # "tick" => time = 0
  /\ part # "audio" => channel = CHOOSE c \in Channels : TRUE

Next ==
  /\ UNCHANGED part
  /\ IF part = "script" THEN Script!Next ELSE UNCHANGED scriptVars
  /\ IF part = "affinity" THEN Affinity!Next ELSE UNCHANGED affinityVars
  /\ IF part = "tick" THEN Tick!Next ELSE UNCHANGED tickVars
  /\ IF part = "audio" THEN Audio!Next ELSE UNCHANGED audioVars
  /\ IF part = "preload" THEN Preload!Next ELSE UNCHANGED preloadVars
  /\ IF part = "perf" THEN Perf!Next ELSE UNCHANGED perfVars

Spec == Init /\ [][Next]_vars

\* A step of one protocol alone.
Alone(p, Action) == part = p /\ Action /\ Next

(* The fairness that AudioLock and ActorPreload state.                     *)
FairSpec ==
  /\ Spec
  /\ WF_vars(Alone("audio", Audio!Game))
  /\ WF_vars(Alone("audio", Audio!FinishedCallback))
  /\ WF_vars(Alone("preload", Preload!ProcessPreloadQueue))

-----------------------------------------------------------------------------
(* The properties of the protocols.                                        *)

(* A run of run.sh undoes nothing under a running game, and at its end     *)
(* everything but what the system or a signal kept it from undoing.        *)
EndsClean == Script!EndsClean

(* A thread other than the main one runs on every CPU of the process.      *)
OthersSpread == Affinity!OthersSpread

(* The simulation keeps pace with the clock.                               *)
PaceKept == Tick!PaceKept

(* A sound that plays is found under its channel.                          *)
PlayingIsNamed == Audio!PlayingIsNamed

(* The game never waits for ever for an audio lock.                        *)
RequestsReturn == Audio!RequestsReturn

(* Preloading leaves nothing out ...                                       *)
NothingSkipped == Preload!NothingSkipped

(* ... and ends: each tick takes some of the work away, and ticks go on.   *)
PreloadEnds == Preload!WorkShrinks /\ Preload!PreloadEnds

(* The sampler's summary accounts for every sample.                        *)
SummaryExact == Perf!SummaryExact

=============================================================================
