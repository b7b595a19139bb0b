------------------------- MODULE GameThreadsProofs --------------------------
(***************************************************************************)
(* What the patches and the library promise about the game's threads: the  *)
(* cadence of the main loop, the channels of its sounds, the CPUs of the   *)
(* threads, and what the main loop preloads.                               *)
(***************************************************************************)
EXTENDS Protocols, Sequences, FiniteSetTheorems, TLAPS

-----------------------------------------------------------------------------
(***************************************************************************)
(* The cadence of GameTick for every length of a tick and every sequence   *)
(* of frames.                                                              *)
(***************************************************************************)

\* The reading of the clock and the account of ticks.
TickInv == Tick!TypeOK /\ Tick!PaceKept

(* One more tick adds its length to what the ticks so far have taken.      *)
LEMMA NextTick ==
  ASSUME NEW n \in Nat, NEW d \in Nat
  PROVE  (n + 1) * d = n * d + d
BY SMT

(* The first frame finds at most one tick to run.                          *)
LEMMA TickInit ==
  ASSUME OneTick \in Nat \ {0}
  PROVE  Tick!Init => TickInv
<1> SUFFICES ASSUME Tick!Init PROVE TickInv
  OBVIOUS
<1>1. time \in Nat /\ lastGameUpdate \in Nat
  BY DEF Tick!Init
<1>2. lastGameUpdate <= time /\ time - lastGameUpdate <= OneTick
  BY <1>1 DEF Tick!Init
<1>3. updates * OneTick = 0
  BY DEF Tick!Init
<1>4. Tick!TypeOK
  BY <1>1 DEF Tick!Init, Tick!TypeOK
<1>5. lastGameUpdate = first + updates * OneTick
  BY <1>1, <1>3 DEF Tick!Init
<1> QED
  BY <1>2, <1>4, <1>5 DEF TickInv, Tick!PaceKept

(* A frame of any length leaves at most one tick to run, and drops ticks   *)
(* only after a frame longer than one.                                     *)
LEMMA TickStep ==
  ASSUME OneTick \in Nat \ {0}, Latest \in Nat, TickInv, [Tick!Next]_Tick!vars
  PROVE  TickInv'
<1> USE DEF TickInv, Tick!TypeOK, Tick!PaceKept
<1>1. CASE UNCHANGED Tick!vars
  BY <1>1 DEF Tick!vars
<1>2. ASSUME NEW now \in time .. Latest, Tick!Frame(now)
      PROVE  TickInv'
  <2>1. now \in Nat /\ now >= time
    BY <1>2
  <2>2. CASE now - lastGameUpdate < OneTick
    BY <1>2, <2>1, <2>2 DEF Tick!Frame
  <2>3. CASE now - lastGameUpdate >= OneTick
    <3>1. time' = now /\ lastGameUpdate' = Tick!Updated(now) /\ updates' = updates + 1
          /\ first' = first /\ stalled' = (stalled \/ now - time > OneTick)
      BY <1>2, <2>3 DEF Tick!Frame
    <3>2. CASE now - (lastGameUpdate + OneTick) > OneTick
      <4>1. lastGameUpdate' = now - OneTick
        BY <3>1, <3>2 DEF Tick!Updated
      <4>2. now - time > OneTick
        BY <2>1, <3>2
      <4>3. stalled'
        BY <3>1, <4>2, Zenon
      <4> QED
        BY <2>1, <2>3, <3>1, <4>1, <4>3
    <3>3. CASE ~(now - (lastGameUpdate + OneTick) > OneTick)
      <4>1. lastGameUpdate' = lastGameUpdate + OneTick
        BY <3>1, <3>3 DEF Tick!Updated
      <4>2. (updates + 1) * OneTick = updates * OneTick + OneTick
        BY NextTick
      <4>3. updates * OneTick \in Int
        OBVIOUS
      <4>4. ~stalled' => lastGameUpdate' = first' + updates' * OneTick
        BY <3>1, <4>1, <4>2, <4>3
      <4> QED
        BY <2>1, <2>3, <3>1, <3>3, <4>1, <4>4
    <3> QED
      BY <3>2, <3>3
  <2> QED
    BY <2>1, <2>2, <2>3
<1> QED
  BY <1>1, <1>2 DEF Tick!Next

(* The simulation keeps pace with the clock, whatever the length of a tick *)
(* and of the frames (the main loop of patch 0006).                        *)
THEOREM PaceIsKept == Tick!Spec => []Tick!PaceKept
<1>1. Tick!Init => TickInv
  BY TickAssumption, TickInit
<1>2. TickInv /\ [Tick!Next]_Tick!vars => TickInv'
  BY TickAssumption, TickStep
<1>3. TickInv => Tick!PaceKept
  BY DEF TickInv
<1> QED
  BY <1>1, <1>2, <1>3, PTL DEF Tick!Spec

\* In Protocols the steps of the others leave it alone.
LEMMA TickAlone == Spec => Tick!Spec
<1>1. Init => Tick!Init
  BY DEF Init
<1>2. [Next]_vars => [Tick!Next]_Tick!vars
  BY DEF Next, vars, tickVars, Tick!vars
<1> QED
  BY <1>1, <1>2, PTL DEF Spec, Tick!Spec

(* Among the protocols too, the main loop keeps pace.                      *)
THEOREM TicksKeepPace == Spec => []PaceKept
BY TickAlone, PaceIsKept, PTL DEF PaceKept

-----------------------------------------------------------------------------
(***************************************************************************)
(* Sounds and their channels in AudioLock, for any number of channels and  *)
(* of requests.                                                            *)
(***************************************************************************)

ChannelTypes ==
  /\ playing \in [Channels -> Nat] /\ channelMap \in [Channels -> Nat]
  /\ request \in Nat /\ channel \in Channels
  /\ sdlLock \in Channels \cup {Audio!Free}

\* The sound whose callback is due is over: nothing plays on its channel
\* until SDL's lock is released.
Ended == sdlLock # Audio!Free => playing[sdlLock] = Audio!Silence

\* Before Request enters its sound, that sound or none plays.
Entering == game = "enter" => playing[channel] \in {Audio!Silence, request}

ChannelsInv == ChannelTypes /\ Ended /\ Entering /\ Audio!PlayingIsNamed

\* No channel plays before the mixer starts.
LEMMA ChannelsInit == Audio!Init => ChannelsInv
BY DEF Audio!Init, ChannelsInv, ChannelTypes, Ended, Entering, Audio!PlayingIsNamed,
   Audio!Silence, Audio!Free

(* Mix_PlayChannel puts the new sound on a channel, and drops the entry of *)
(* the sound it ends there.                                                *)
LEMMA PlayStep ==
  ASSUME Audio!Free \notin Channels, ChannelsInv, Audio!PlayChannel
  PROVE  ChannelsInv'
<1> USE DEF ChannelsInv
<1>1. PICK c \in Channels :
        /\ playing' = [playing EXCEPT ![c] = request]
        /\ channelMap' = IF playing[c] = Audio!Silence THEN channelMap
                         ELSE [channelMap EXCEPT ![c] = Audio!Silence]
        /\ channel' = c
  BY DEF Audio!PlayChannel
<1>2. game = "play" /\ game' = "enter" /\ sdlLock = Audio!Free
      /\ UNCHANGED <<sdlLock, stateMutex, request>>
  BY DEF Audio!PlayChannel
<1>3. Audio!Silence \in Nat
  BY DEF Audio!Silence
<1>4. ChannelTypes'
  <2>1. playing' \in [Channels -> Nat]
    BY <1>1 DEF ChannelTypes
  <2>2. channelMap' \in [Channels -> Nat]
    BY <1>1, <1>3 DEF ChannelTypes
  <2> QED
    BY <1>1, <1>2, <2>1, <2>2 DEF ChannelTypes
<1>5. Ended' /\ Entering'
  BY <1>1, <1>2 DEF ChannelTypes, Ended, Entering
<1>6. Audio!PlayingIsNamed'
  <2> SUFFICES ASSUME NEW d \in Channels, playing'[d] # Audio!Silence, d # c
               PROVE  channelMap'[d] = playing'[d]
    BY <1>1, <1>2 DEF Audio!PlayingIsNamed
  <2>1. playing'[d] = playing[d] /\ channelMap'[d] = channelMap[d]
    BY <1>1 DEF ChannelTypes
  <2> QED
    BY <1>2, <2>1 DEF Audio!PlayingIsNamed
<1> QED
  BY <1>4, <1>5, <1>6

\* Request enters the sound that Mix_PlayChannel started.
LEMMA EnterStep ==
  ASSUME ChannelsInv, Audio!Enter
  PROVE  ChannelsInv'
<1> USE DEF ChannelsInv, Audio!Enter, Audio!Entered
<1>1. ChannelTypes'
  BY DEF ChannelTypes
<1>2. Ended' /\ Entering'
  BY DEF Ended, Entering
<1>3. Audio!PlayingIsNamed'
  BY DEF ChannelTypes, Audio!PlayingIsNamed, Entering
<1> QED
  BY <1>1, <1>2, <1>3

\* A sound that ends leaves an entry finishedCallback will drop.
LEMMA SoundEndsStep ==
  ASSUME ChannelsInv, NEW c \in Channels, Audio!SoundEnds(c)
  PROVE  ChannelsInv'
<1> USE DEF ChannelsInv, Audio!SoundEnds
<1>1. Audio!Silence \in Nat
  BY DEF Audio!Silence
<1>2. ChannelTypes'
  BY <1>1 DEF ChannelTypes
<1>3. Ended' /\ Entering'
  BY DEF ChannelTypes, Ended, Entering
<1>4. Audio!PlayingIsNamed'
  BY DEF ChannelTypes, Audio!PlayingIsNamed
<1> QED
  BY <1>2, <1>3, <1>4

\* finishedCallback drops the entry of a channel that is silent.
LEMMA CallbackStep ==
  ASSUME ChannelsInv, Audio!FinishedCallback
  PROVE  ChannelsInv'
<1> USE DEF ChannelsInv, Audio!FinishedCallback
<1>1. Audio!Silence \in Nat
  BY DEF Audio!Silence
<1>2. sdlLock \in Channels
  BY DEF ChannelTypes
<1>3. ChannelTypes'
  BY <1>1, <1>2 DEF ChannelTypes
<1>4. Ended' /\ Entering'
  BY DEF Ended, Entering
<1>5. Audio!PlayingIsNamed'
  BY <1>2 DEF ChannelTypes, Audio!PlayingIsNamed, Ended
<1> QED
  BY <1>3, <1>4, <1>5

\* Every step of either thread keeps the invariant.
LEMMA ChannelsStep ==
  ASSUME Audio!Free \notin Channels, ChannelsInv, [Audio!Next]_Audio!vars
  PROVE  ChannelsInv'
<1> USE DEF ChannelsInv
<1>1. CASE UNCHANGED Audio!vars
  BY <1>1 DEF Audio!vars, ChannelTypes, Ended, Entering, Audio!PlayingIsNamed
<1>2. CASE Audio!InitState \/ Audio!InitMixer \/ Audio!Request \/ Audio!PlayChannelFails
  BY <1>2 DEF Audio!InitState, Audio!InitMixer, Audio!Request, Audio!PlayChannelFails,
              ChannelTypes, Ended, Entering, Audio!PlayingIsNamed
<1> QED
  BY <1>1, <1>2, PlayStep, EnterStep, SoundEndsStep, CallbackStep DEF Audio!Next, Audio!Game

(* For any number of channels: a sound that plays is found under its       *)
(* channel, also when the sound before it ended between Mix_PlayChannel    *)
(* and the entry in channelMap (patch 0001).                               *)
THEOREM PlayingStaysNamed == Audio!Spec => []Audio!PlayingIsNamed
<1>1. Audio!Init => ChannelsInv
  BY ChannelsAssumption, ChannelsInit
<1>2. ChannelsInv /\ [Audio!Next]_Audio!vars => ChannelsInv'
  BY ChannelsAssumption, ChannelsStep
<1>3. ChannelsInv => Audio!PlayingIsNamed
  BY DEF ChannelsInv
<1> QED
  BY <1>1, <1>2, <1>3, PTL DEF Audio!Spec

\* In Protocols the steps of the others leave it alone.
LEMMA AudioAlone == Spec => Audio!Spec
<1>1. Init => Audio!Init
  BY DEF Init
<1>2. [Next]_vars => [Audio!Next]_Audio!vars
  BY DEF Next, vars, audioVars, Audio!vars
<1> QED
  BY <1>1, <1>2, PTL DEF Spec, Audio!Spec

(* Among the protocols too, channelMap names what plays.                   *)
THEOREM SoundsNamed == Spec => []PlayingIsNamed
BY AudioAlone, PlayingStaysNamed, PTL DEF PlayingIsNamed

-----------------------------------------------------------------------------
(***************************************************************************)
(* The masks of ThreadAffinity for any threads and CPUs.                   *)
(***************************************************************************)

Others == Threads \ {Main}

\* The main thread is there from the beginning, and no thread before the
\* library is ready.
Started ==
  /\ stage[Main] = "running"
  /\ library = "loading" => ~split /\ \A t \in Others : stage[t] = "none"

\* Without a split every thread has the process's mask, the main one too.
Whole ==
  ~split => /\ \A t \in Threads : stage[t] = "running" => mask[t] = process
            /\ \A t \in Threads : stage[t] # "starting"

\* With one, the recorded mask is the process's.
Recorded == split => others = process

MasksInv == Affinity!TypeOK /\ Started /\ Whole /\ Recorded /\ Affinity!OthersSpread

USE DEF Others

\* At first the main thread is alone, with the process's mask.
LEMMA MasksInit ==
  ASSUME Main \in Threads
  PROVE  Affinity!Init => MasksInv
<1> SUFFICES ASSUME Affinity!Init PROVE MasksInv
  OBVIOUS
<1> USE DEF Affinity!Init
<1>1. Affinity!TypeOK
  BY DEF Affinity!TypeOK, Affinity!Masks
<1>2. Started
  BY DEF Started
<1>3. Whole
  BY DEF Whole
<1>4. Recorded
  BY DEF Recorded
<1>5. Affinity!OthersSpread
  BY DEF Affinity!OthersSpread
<1> QED
  BY <1>1, <1>2, <1>3, <1>4, <1>5 DEF MasksInv

(* The library is loaded: it leaves the masks, or pins the main thread.    *)
LEMMA LoadStep ==
  ASSUME Main \in Threads, MasksInv, NEW list,
         Affinity!LeaveMasks(list) \/ \E done \in BOOLEAN : Affinity!PinMainThread(list, done)
  PROVE  MasksInv'
<1> USE DEF MasksInv, Affinity!TypeOK
<1>1. CASE Affinity!LeaveMasks(list)
  <2> USE <1>1 DEF Affinity!LeaveMasks
  <2>1. Affinity!TypeOK'
    OBVIOUS
  <2>2. Started' /\ Whole' /\ Recorded'
    BY DEF Started, Whole, Recorded
  <2>3. Affinity!OthersSpread'
    BY DEF Affinity!OthersSpread
  <2> QED
    BY <2>1, <2>2, <2>3
<1>2. ASSUME NEW done \in BOOLEAN, Affinity!PinMainThread(list, done)
      PROVE  MasksInv'
  <2> DEFINE kept == Affinity!Parsed(list) \cap mask[Main]
  <2>1. library = "loading" /\ library' = "ready" /\ others' = mask[Main]
        /\ UNCHANGED <<stage, process, unlucky>>
    BY <1>2 DEF Affinity!PinMainThread
  <2>2. mask' = IF done THEN [mask EXCEPT ![Main] = kept] ELSE mask
    BY <1>2 DEF Affinity!PinMainThread
  <2>3. split' = (done /\ kept # others')
    BY <1>2 DEF Affinity!PinMainThread
  <2>4. kept \subseteq Cpus
    OBVIOUS
  <2>5. mask[Main] = process /\ \A t \in Others : stage[t] = "none"
    BY <2>1, Zenon DEF Started, Whole
  <2> HIDE DEF kept
  <2>6. Affinity!TypeOK'
    <3>1. mask' \in [Threads -> SUBSET Cpus]
      BY <2>2, <2>4
    <3>2. split' \in BOOLEAN
      BY <2>3, Zenon
    <3> QED
      BY <2>1, <3>1, <3>2
  <2>7. Started'
    BY <2>1, <2>5 DEF Started
  <2>8. Whole'
    <3>1. ASSUME ~split' PROVE mask' = mask
      <4>1. ~done \/ kept = mask[Main]
        BY <2>1, <2>3, <3>1, Zenon
      <4> QED
        BY <2>2, <4>1
    <3>2. \A t \in Threads : stage'[t] # "starting"
      BY <2>1, <2>5 DEF Started
    <3> QED
      BY <2>1, <2>5, <3>1, <3>2 DEF Whole
  <2>9. Recorded' /\ Affinity!OthersSpread'
    BY <2>1, <2>5 DEF Recorded, Affinity!OthersSpread
  <2> QED
    BY <2>6, <2>7, <2>8, <2>9
<1> QED
  BY <1>1, <1>2

(* A thread inherits the mask of its creator; with a split it starts in    *)
(* the library.                                                            *)
LEMMA CreateStep ==
  ASSUME Main \in Threads, MasksInv, NEW creator \in Threads, NEW t \in Threads,
         NEW memory \in BOOLEAN, Affinity!PthreadCreate(creator, t, memory)
  PROVE  MasksInv'
<1> USE DEF MasksInv, Affinity!TypeOK, Affinity!PthreadCreate
<1>1. t # Main
  BY DEF Started
<1>2. Affinity!TypeOK'
  OBVIOUS
<1>3. Started'
  BY <1>1 DEF Started
<1>4. Whole'
  BY DEF Whole
<1>5. Recorded'
  BY DEF Recorded
<1>6. Affinity!OthersSpread'
  BY DEF Affinity!OthersSpread, Whole
<1> QED
  BY <1>2, <1>3, <1>4, <1>5, <1>6

(* The wrapped start restores the recorded mask.                           *)
LEMMA StartStep ==
  ASSUME Main \in Threads, MasksInv, NEW t \in Threads, NEW done \in BOOLEAN,
         Affinity!StartThread(t, done)
  PROVE  MasksInv'
<1> USE DEF MasksInv, Affinity!TypeOK, Affinity!StartThread
<1>1. split /\ others = process
  BY DEF Whole, Recorded
<1>2. Affinity!TypeOK'
  OBVIOUS
<1>3. Started' /\ Whole' /\ Recorded'
  BY <1>1 DEF Started, Whole, Recorded
<1>4. Affinity!OthersSpread'
  BY <1>1 DEF Affinity!OthersSpread
<1> QED
  BY <1>2, <1>3, <1>4

\* A thread that ends changes no mask.
LEMMA EndStep ==
  ASSUME Main \in Threads, MasksInv, NEW t \in Threads, Affinity!ThreadEnds(t)
  PROVE  MasksInv'
<1> USE DEF MasksInv, Affinity!TypeOK, Affinity!ThreadEnds
<1>1. Affinity!TypeOK'
  OBVIOUS
<1>2. Started' /\ Whole' /\ Recorded'
  BY DEF Started, Whole, Recorded
<1>3. Affinity!OthersSpread'
  BY DEF Affinity!OthersSpread
<1> QED
  BY <1>1, <1>2, <1>3

\* Every step keeps the invariant.
LEMMA MasksStep ==
  ASSUME Main \in Threads, MasksInv, [Affinity!Next]_Affinity!vars
  PROVE  MasksInv'
<1>1. CASE UNCHANGED Affinity!vars
  BY <1>1 DEF Affinity!vars, MasksInv, Affinity!TypeOK, Started, Whole, Recorded,
     Affinity!OthersSpread
<1>2. CASE Affinity!Next
  BY <1>2, LoadStep, CreateStep, StartStep, EndStep DEF Affinity!Next
<1> QED
  BY <1>1, <1>2

(* For any number of threads and CPUs: whatever thread creates another,    *)
(* and in whatever order, the other one runs on every CPU of the process   *)
(* (start_thread of the preloaded library).                                *)
THEOREM OthersStaySpread == Affinity!Spec => []Affinity!OthersSpread
<1>1. Affinity!Init => MasksInv
  BY ThreadsAssumption, MasksInit
<1>2. MasksInv /\ [Affinity!Next]_Affinity!vars => MasksInv'
  BY ThreadsAssumption, MasksStep
<1>3. MasksInv => Affinity!OthersSpread
  BY DEF MasksInv
<1> QED
  BY <1>1, <1>2, <1>3, PTL DEF Affinity!Spec

\* In Protocols the steps of the others leave it alone.
LEMMA AffinityAlone == Spec => Affinity!Spec
<1>1. Init => Affinity!Init
  BY DEF Init
<1>2. [Next]_vars => [Affinity!Next]_Affinity!vars
  BY DEF Next, vars, affinityVars, Affinity!vars
<1> QED
  BY <1>1, <1>2, PTL DEF Spec, Affinity!Spec

(* Among the protocols too, start_thread spreads the other threads.        *)
THEOREM ThreadsSpread == Spec => []OthersSpread
BY AffinityAlone, OthersStaySpread, PTL DEF OthersSpread

-----------------------------------------------------------------------------
(***************************************************************************)
(* Preloading leaves nothing out, queues nothing twice and comes to an     *)
(* end, for finitely many actors and resources that name one another as    *)
(* they like.                                                              *)
(***************************************************************************)

Among(x, queue) == \E i \in 1 .. Len(queue) : queue[i] = x

Typed ==
  /\ preloadActors \in Seq(Actors) /\ preloadResources \in Seq(Resources)
  /\ preloadPoses \in Seq(Actors)
  /\ preloadSeenActors \subseteq Actors /\ preloadSeenResources \subseteq Resources
  /\ short \in Nat /\ preloadActive \in BOOLEAN

\* Work is announced, actors are seen before anything else happens to them,
\* and what was seen is served or queued until memory is short.
PreloadInv ==
  /\ Typed
  /\ preloadActive <=> preloadActors # <<>> \/ preloadResources # <<>> \/ preloadPoses # <<>>
  /\ present \subseteq preloadSeenActors /\ preloadSeenActors \subseteq present \cup gone
  /\ short = 0 =>
       /\ \A actor \in preloadSeenActors : actor \in loaded \cup gone \/ Among(actor, preloadActors)
       /\ \A resource \in preloadSeenResources :
            resource \in loaded \/ Among(resource, preloadResources)
       /\ \A actor \in loaded \cap Actors : Spells[actor] \subseteq preloadSeenResources
       /\ \A resource \in loaded \cap Resources : Needs[resource] \subseteq preloadSeenResources

\* SetToSeq lists the elements of a finite set.
LEMMA Listed ==
  ASSUME NEW S, IsFiniteSet(S)
  PROVE  /\ Preload!SetToSeq(S) \in Seq(S) /\ \A x \in S : Among(x, Preload!SetToSeq(S))
         /\ Len(Preload!SetToSeq(S)) = Cardinality(S)
<1>1. PICK n \in Nat : ExistsBijection(1 .. n, S)
  BY FS_NatBijection
<1>2. Cardinality(S) = n
  BY <1>1, FS_CountingElements
<1>3. PICK f : f \in Bijection(1 .. n, S)
  BY <1>1 DEF ExistsBijection
<1>4. f \in [1 .. n -> S] /\ IsInjective(f)
  BY <1>3 DEF Bijection, Injection, IsInjective
<1> DEFINE g == Preload!SetToSeq(S)
<1>5. g \in [1 .. n -> S] /\ IsInjective(g)
  BY <1>2, <1>4 DEF Preload!SetToSeq, Preload!IsInjective, Preload!Cardinality, Cardinality,
     IsInjective
<1> HIDE DEF g
<1>6. g \in Seq(S) /\ Len(g) = n
  BY <1>5
<1>7. Cardinality(1 .. n) = n
  BY FS_Interval
<1>8. g \in Injection(1 .. n, S)
  BY <1>5 DEF Injection
<1>9. g \in Surjection(1 .. n, S)
  BY ONLY <1>2, <1>7, <1>8, IsFiniteSet(S), FS_Injection
<1>10. \A x \in S : \E i \in 1 .. n : g[i] = x
  BY <1>9 DEF Surjection
<1> QED
  BY <1>2, <1>6, <1>10 DEF g, Among

\* What is in a queue after one has joined, one has left, or two are joined.
LEMMA Joined ==
  ASSUME NEW T, NEW queue \in Seq(T), NEW e \in T, NEW x, Among(x, queue) \/ x = e
  PROVE  Append(queue, e) \in Seq(T) /\ Among(x, Append(queue, e))
<1>1. /\ Append(queue, e) \in Seq(T) /\ Len(Append(queue, e)) = Len(queue) + 1
      /\ Append(queue, e)[Len(queue) + 1] = e
      /\ \A i \in 1 .. Len(queue) : Append(queue, e)[i] = queue[i]
  OBVIOUS
<1>2. Len(queue) \in Nat
  OBVIOUS
<1> QED
  BY <1>1, <1>2 DEF Among

LEMMA Left ==
  ASSUME NEW T, NEW queue \in Seq(T), queue # <<>>
  PROVE  /\ Tail(queue) \in Seq(T) /\ Head(queue) \in T
         /\ \A x : Among(x, queue) => x = Head(queue) \/ Among(x, Tail(queue))
<1>1. /\ Tail(queue) \in Seq(T) /\ Len(Tail(queue)) = Len(queue) - 1 /\ Len(queue) \in Nat \ {0}
      /\ \A i \in 1 .. Len(queue) - 1 : Tail(queue)[i] = queue[i + 1]
      /\ Head(queue) = queue[1] /\ Head(queue) \in T
  OBVIOUS
<1>2. ASSUME NEW x, NEW i \in 1 .. Len(queue), queue[i] = x, i # 1
      PROVE  Among(x, Tail(queue))
  <2>1. i - 1 \in 1 .. Len(queue) - 1 /\ Tail(queue)[i - 1] = x
    BY <1>1, <1>2
  <2> QED
    BY <1>1, <2>1 DEF Among
<1> QED
  BY <1>1, <1>2 DEF Among

LEMMA Chained ==
  ASSUME NEW T, NEW s \in Seq(T), NEW t \in Seq(T), NEW x, Among(x, s) \/ Among(x, t)
  PROVE  s \o t \in Seq(T) /\ Among(x, s \o t)
<1>1. /\ s \o t \in Seq(T) /\ Len(s \o t) = Len(s) + Len(t) /\ Len(s) \in Nat /\ Len(t) \in Nat
      /\ \A i \in 1 .. Len(s) : (s \o t)[i] = s[i]
      /\ \A i \in 1 .. Len(t) : (s \o t)[Len(s) + i] = t[i]
  OBVIOUS
<1>2. CASE Among(x, s)
  BY <1>1, <1>2 DEF Among
<1>3. CASE Among(x, t)
  <2>1. PICK i \in 1 .. Len(t) : t[i] = x
    BY <1>3 DEF Among
  <2>2. Len(s) + i \in 1 .. Len(s \o t) /\ (s \o t)[Len(s) + i] = x
    BY <1>1, <2>1
  <2> QED
    BY <1>1, <2>2 DEF Among
<1> QED
  BY <1>2, <1>3

\* Every resource named is queued, now or earlier, behind what was queued.
LEMMA Queued ==
  ASSUME Typed, NEW queue \in Seq(Resources), NEW refs \in SUBSET Resources,
         Preload!QueueResources(queue, refs)
  PROVE  /\ preloadResources' \in Seq(Resources) /\ preloadSeenResources' \subseteq Resources
         /\ preloadSeenResources' = preloadSeenResources \cup refs
         /\ \A x : Among(x, queue) \/ x \in refs \ preloadSeenResources =>
                     Among(x, preloadResources')
<1> DEFINE fresh == refs \ preloadSeenResources
<1>1. IsFiniteSet(fresh)
  BY PreloadAssumption, FS_Subset
<1>2. Preload!SetToSeq(fresh) \in Seq(fresh) /\ \A x \in fresh : Among(x, Preload!SetToSeq(fresh))
  BY <1>1, Listed
<1>3. Preload!SetToSeq(fresh) \in Seq(Resources)
  BY <1>2
<1>4. preloadResources' = queue \o Preload!SetToSeq(fresh)
  BY DEF Preload!QueueResources
<1>5. preloadResources' \in Seq(Resources)
  BY <1>3, <1>4
<1>6. ASSUME NEW x, Among(x, queue) \/ x \in fresh PROVE Among(x, preloadResources')
  BY <1>2, <1>3, <1>4, <1>6, Chained
<1> QED
  BY <1>5, <1>6 DEF Preload!QueueResources, Typed

\* Every step keeps the invariant.
LEMMA PreloadStep ==
  ASSUME PreloadInv, [Preload!Next]_Preload!vars
  PROVE  PreloadInv'
<1> USE DEF PreloadInv, Typed
<1>1. ASSUME NEW actor \in Actors, Preload!AddActor(actor) PROVE PreloadInv'
  <2>1. CASE actor \in preloadSeenActors
    BY <1>1, <2>1 DEF Preload!AddActor
  <2>2. CASE actor \notin preloadSeenActors
    <3>1. preloadActors' = Append(preloadActors, actor) /\ preloadActive' = TRUE
      BY <1>1, <2>2 DEF Preload!AddActor
    <3>2. \A x : Among(x, preloadActors) \/ x = actor => Among(x, preloadActors')
      BY <3>1, Joined
    <3>3. preloadActors' \in Seq(Actors) /\ preloadActors' # <<>>
      BY <3>1
    <3> QED
      BY <1>1, <3>1, <3>2, <3>3 DEF Preload!AddActor
  <2> QED
    BY <2>1, <2>2
<1>2. ASSUME NEW actor \in Actors, Preload!RemoveActor(actor) PROVE PreloadInv'
  BY <1>2 DEF Preload!RemoveActor
<1>3. CASE Preload!ProcessPreloadQueue
  <2>1. /\ UNCHANGED <<present, gone, preloadSeenActors, short>>
        /\ preloadActive' \in BOOLEAN
        /\ preloadActive' <=>
             /\ preloadActive
             /\ preloadActors' # <<>> \/ preloadResources' # <<>> \/ preloadPoses' # <<>>
    BY <1>3 DEF Preload!ProcessPreloadQueue, Preload!Completed
  <2>2. CASE Preload!ServeActor
    <3> DEFINE actor == Head(preloadActors)
               refs == IF actor \in present THEN Spells[actor] ELSE {}
    <3>1. preloadActive
      BY <2>2 DEF Preload!ServeActor
    <3>2. /\ preloadActors # <<>> /\ preloadActors' = Tail(preloadActors)
          /\ Preload!QueueResources(preloadResources, refs)
          /\ loaded' = IF actor \in present THEN loaded \cup {actor} ELSE loaded
      BY <2>2 DEF Preload!ServeActor, Preload!Served
    <3>3. /\ actor \in Actors /\ preloadActors' \in Seq(Actors)
          /\ \A x : Among(x, preloadActors) => x = actor \/ Among(x, preloadActors')
      BY <3>2, Left
    <3>4. refs \in SUBSET Resources
      BY PreloadAssumption, <3>3
    <3> HIDE DEF refs
    <3>5. /\ preloadResources' \in Seq(Resources) /\ preloadSeenResources' \subseteq Resources
          /\ preloadSeenResources' = preloadSeenResources \cup refs
          /\ \A x : Among(x, preloadResources) \/ x \in refs \ preloadSeenResources =>
                      Among(x, preloadResources')
      BY <3>2, <3>4, Queued
    <3>6. actor \notin Resources
      BY PreloadAssumption, <3>3
    <3> HIDE DEF actor
    <3>7. actor \in present => Spells[actor] = refs
      BY DEF refs
    <3>8. ASSUME short = 0, NEW a \in preloadSeenActors
          PROVE  a \in loaded' \cup gone \/ Among(a, preloadActors')
      BY <3>2, <3>3, <3>8
    <3>9. ASSUME short = 0, NEW r \in preloadSeenResources'
          PROVE  r \in loaded' \/ Among(r, preloadResources')
      BY <3>2, <3>5, <3>9
    <3>10. ASSUME short = 0, NEW a \in loaded' \cap Actors
           PROVE  Spells[a] \subseteq preloadSeenResources'
      BY <3>2, <3>5, <3>7, <3>10
    <3>11. ASSUME short = 0, NEW r \in loaded' \cap Resources
           PROVE  Needs[r] \subseteq preloadSeenResources'
      BY <3>2, <3>5, <3>6, <3>11
    <3>12. preloadPoses' \in Seq(Actors)
      <4>1. preloadPoses' \in {preloadPoses, Append(preloadPoses, Head(preloadActors)),
                               preloadPoses \o <<Head(preloadActors), Head(preloadActors)>>}
        BY <2>2 DEF Preload!ServeActor
      <4>2. Head(preloadActors) \in Actors
        BY <3>3 DEF actor
      <4>3. /\ Append(preloadPoses, Head(preloadActors)) \in Seq(Actors)
            /\ preloadPoses \o <<Head(preloadActors), Head(preloadActors)>> \in Seq(Actors)
        BY <4>2
      <4> QED
        BY <4>1, <4>3
    <3> QED
      BY <2>1, <3>1, <3>3, <3>5, <3>8, <3>9, <3>10, <3>11, <3>12
  <2>3. CASE Preload!ServeResource
    <3> DEFINE resource == Head(preloadResources)
               refs == Needs[resource]
    <3>1. /\ preloadResources # <<>> /\ Preload!QueueResources(Tail(preloadResources), refs)
          /\ loaded' = loaded \cup {resource} /\ preloadActive
          /\ UNCHANGED <<preloadActors, preloadPoses>>
      BY <2>3 DEF Preload!ServeResource
    <3>2. /\ resource \in Resources /\ Tail(preloadResources) \in Seq(Resources)
          /\ \A x : Among(x, preloadResources) => x = resource \/ Among(x, Tail(preloadResources))
      BY <3>1, Left
    <3>3. refs \in SUBSET Resources
      BY PreloadAssumption, <3>2
    <3> HIDE DEF refs
    <3>4. /\ preloadResources' \in Seq(Resources) /\ preloadSeenResources' \subseteq Resources
          /\ preloadSeenResources' = preloadSeenResources \cup refs
          /\ \A x : Among(x, Tail(preloadResources)) \/ x \in refs \ preloadSeenResources =>
                      Among(x, preloadResources')
      BY <3>1, <3>2, <3>3, Queued
    <3>5. resource \notin Actors /\ refs = Needs[resource]
      BY PreloadAssumption, <3>2 DEF refs
    <3> HIDE DEF resource
    <3>6. ASSUME short = 0, NEW r \in preloadSeenResources'
          PROVE  r \in loaded' \/ Among(r, preloadResources')
      BY <3>1, <3>2, <3>4, <3>6
    <3>7. ASSUME short = 0, NEW a \in loaded' \cap Actors
          PROVE  Spells[a] \subseteq preloadSeenResources'
      BY <3>1, <3>4, <3>5, <3>7
    <3>8. ASSUME short = 0, NEW r \in loaded' \cap Resources
          PROVE  Needs[r] \subseteq preloadSeenResources'
      BY <3>1, <3>4, <3>5, <3>8
    <3> QED
      BY <2>1, <3>1, <3>4, <3>6, <3>7, <3>8
  <2>4. CASE Preload!ServePose
    <3>1. preloadActive /\ preloadPoses # <<>> /\ preloadPoses' = Tail(preloadPoses)
      BY <2>4 DEF Preload!ServePose
    <3>2. preloadPoses' \in Seq(Actors)
      BY <3>1
    <3> QED
      BY <2>1, <2>4, <3>1, <3>2 DEF Preload!ServePose
  <2>5. CASE Preload!ServeNothing
    BY <2>1, <2>5 DEF Preload!ServeNothing
  <2> QED
    BY <1>3, <2>2, <2>3, <2>4, <2>5 DEF Preload!ProcessPreloadQueue
<1>4. CASE Preload!MemoryShort
  <2>1. /\ preloadActors' = <<>> /\ preloadResources' = <<>> /\ preloadPoses' = <<>>
        /\ preloadActive' = FALSE /\ short' = short + 1
        /\ UNCHANGED <<present, gone, preloadSeenActors, preloadSeenResources>>
    BY <1>4 DEF Preload!MemoryShort
  <2>2. /\ preloadActors' \in Seq(Actors) /\ preloadResources' \in Seq(Resources)
        /\ preloadPoses' \in Seq(Actors)
    BY <2>1
  <2>3. short' \in Nat /\ short' # 0
    BY <2>1
  <2>4. Typed'
    BY <2>1, <2>2, <2>3
  <2> QED
    BY <2>1, <2>3, <2>4
<1>5. CASE UNCHANGED Preload!vars
  BY <1>5 DEF Preload!vars
<1> QED
  BY <1>1, <1>2, <1>3, <1>4, <1>5 DEF Preload!Next

\* So the invariant always holds.
LEMMA PreloadAlways == Preload!Spec => []PreloadInv
<1>1. ASSUME Preload!Init PROVE PreloadInv
  <2>1. <<>> \in Seq(Actors) /\ <<>> \in Seq(Resources)
    OBVIOUS
  <2>2. Typed
    BY <1>1, <2>1 DEF Preload!Init, Typed
  <2> QED
    BY <1>1, <2>2 DEF Preload!Init, PreloadInv
<1>2. PreloadInv /\ [Preload!Next]_Preload!vars => PreloadInv'
  BY PreloadStep
<1> QED
  BY <1>1, <1>2, PTL DEF Preload!Spec

(* However resources name one another and actors come and go: when nothing *)
(* is queued and memory was never short, every actor that stayed and every *)
(* resource it may need was served (QueueActorPreload,                     *)
(* ProcessPreloadQueue).                                                   *)
THEOREM PreloadSkipsNothing == Preload!Spec => []Preload!NothingSkipped
<1>1. PreloadInv => Preload!NothingSkipped
  <2> SUFFICES ASSUME PreloadInv, ~preloadActive, short = 0 PROVE Preload!NothingSkipped
    BY DEF Preload!NothingSkipped
  <2>1. \A x : ~Among(x, preloadActors) /\ ~Among(x, preloadResources)
    BY DEF PreloadInv, Among
  <2>2. preloadSeenResources \subseteq loaded /\ preloadSeenActors \subseteq loaded \cup gone
    BY <2>1 DEF PreloadInv
  <2> QED
    BY <2>2 DEF PreloadInv, Preload!NothingSkipped
<1> QED
  BY <1>1, PreloadAlways, PTL

\* The instance's Cardinality is the library's.
LEMMA SameCardinality == \A S : Preload!Cardinality(S) = Cardinality(S)
BY DEF Preload!Cardinality, Cardinality

\* What is noted as seen leaves what may still be queued.
LEMMA Fewer ==
  ASSUME NEW S, IsFiniteSet(S), NEW seen, NEW new \in SUBSET S
  PROVE  /\ Cardinality(S \ seen) \in Nat /\ Cardinality(new \ seen) \in Nat
         /\ Cardinality(S \ (seen \cup new)) = Cardinality(S \ seen) - Cardinality(new \ seen)
<1>1. IsFiniteSet(S \ seen) /\ IsFiniteSet(new \ seen)
  BY FS_Subset
<1>2. (S \ seen) \cap (new \ seen) = new \ seen /\ (S \ seen) \ (new \ seen) = S \ (seen \cup new)
  OBVIOUS
<1>3. Cardinality((S \ seen) \ (new \ seen))
        = Cardinality(S \ seen) - Cardinality((S \ seen) \cap (new \ seen))
  BY <1>1, FS_Difference
<1> QED
  BY <1>1, <1>2, <1>3, FS_CardinalityType

\* A queue grows by the resources it adds, and by no other.
LEMMA QueueGrows ==
  ASSUME Typed, NEW queue \in Seq(Resources), NEW refs \in SUBSET Resources,
         Preload!QueueResources(queue, refs)
  PROVE  Len(preloadResources') + Cardinality(Resources \ preloadSeenResources')
           = Len(queue) + Cardinality(Resources \ preloadSeenResources)
<1> DEFINE fresh == refs \ preloadSeenResources
<1>1. IsFiniteSet(fresh)
  BY PreloadAssumption, FS_Subset
<1>2. Preload!SetToSeq(fresh) \in Seq(fresh) /\ Len(Preload!SetToSeq(fresh)) = Cardinality(fresh)
  BY <1>1, Listed
<1>3. Preload!SetToSeq(fresh) \in Seq(Resources)
  BY <1>2
<1>4. /\ preloadResources' = queue \o Preload!SetToSeq(fresh)
      /\ preloadSeenResources' = preloadSeenResources \cup refs
  BY DEF Preload!QueueResources
<1>5. Len(preloadResources') = Len(queue) + Cardinality(fresh)
  <2> DEFINE list == Preload!SetToSeq(fresh)
  <2>1. list \in Seq(Resources) /\ Len(list) = Cardinality(fresh) /\ preloadResources' = queue \o list
    BY <1>2, <1>3, <1>4
  <2> HIDE DEF list
  <2>2. Len(queue \o list) = Len(queue) + Len(list)
    BY <2>1
  <2> QED
    BY <2>1, <2>2
<1>6. /\ Cardinality(Resources \ preloadSeenResources) \in Nat /\ Cardinality(fresh) \in Nat
      /\ Cardinality(Resources \ preloadSeenResources')
           = Cardinality(Resources \ preloadSeenResources) - Cardinality(fresh)
  BY <1>4, PreloadAssumption, Fewer
<1> QED
  BY <1>5, <1>6

\* The work weighs an actor as much as it may queue of poses, and one more.
LEMMA Weighed ==
  ASSUME NEW a \in Nat, NEW u \in Nat, NEW x \in Nat, NEW p \in Nat, NEW q \in Nat, q <= p + 2
  PROVE  /\ 3 * (a - 1 + u) + x + q < 3 * (a + u) + x + p
         /\ 3 * (a - 1 + u) + x + q <= 3 * (a + u) + x + p
OBVIOUS

(* The bound on the work: nothing adds to it and each tick with something  *)
(* queued lowers it, for resources that name one another in any cycles and *)
(* actors that come and go as they like (QueueActorPreload,                *)
(* ProcessPreloadQueue).  Preloading is over after as many ticks as Work   *)
(* counts, whatever is preloaded.                                          *)
THEOREM PreloadWorkShrinks == Preload!Spec => Preload!WorkShrinks
<1> DEFINE A == Len(preloadActors)
           R == Len(preloadResources)
           P == Len(preloadPoses)
           U == Cardinality(Actors \ preloadSeenActors)
           V == Cardinality(Resources \ preloadSeenResources)
           W == 3 * (A + U) + R + V + P
<1>1. Preload!Work = W /\ Preload!Work' = W'
  BY SameCardinality DEF Preload!Work
<1>2. \A S : Cardinality(Actors \ S) \in Nat /\ Cardinality(Resources \ S) \in Nat
  <2>1. \A S : IsFiniteSet(Actors \ S) /\ IsFiniteSet(Resources \ S)
    BY PreloadAssumption, FS_Subset
  <2> QED
    BY <2>1, FS_CardinalityType
<1>3. ASSUME PreloadInv, [Preload!Next]_Preload!vars
      PROVE  W' <= W /\ (preloadActive /\ Preload!ProcessPreloadQueue => W' < W)
  <2>1. Typed /\ Typed'
    BY <1>3, PreloadStep DEF PreloadInv
  <2>2. /\ A \in Nat /\ R \in Nat /\ P \in Nat /\ U \in Nat /\ V \in Nat
        /\ A' \in Nat /\ R' \in Nat /\ P' \in Nat /\ U' \in Nat /\ V' \in Nat
    <3>1. A \in Nat /\ R \in Nat /\ P \in Nat /\ A' \in Nat /\ R' \in Nat /\ P' \in Nat
      BY <2>1 DEF Typed
    <3>2. U \in Nat /\ V \in Nat
      BY <1>2
    <3>3. /\ Cardinality(Actors \ preloadSeenActors') \in Nat
          /\ Cardinality(Resources \ preloadSeenResources') \in Nat
      BY <1>2
    <3> QED
      BY <3>1, <3>2, <3>3
  <2>3. CASE Preload!ProcessPreloadQueue
    <3>1. UNCHANGED preloadSeenActors
      BY <2>3 DEF Preload!ProcessPreloadQueue
    <3>2. CASE Preload!ServeActor
      <4> DEFINE refs == IF Head(preloadActors) \in present THEN Spells[Head(preloadActors)] ELSE {}
      <4>1. preloadActors # <<>> /\ preloadActors' = Tail(preloadActors)
            /\ Preload!QueueResources(preloadResources, refs)
        BY <3>2 DEF Preload!ServeActor, Preload!Served
      <4>2. Head(preloadActors) \in Actors /\ A' = A - 1
        BY <2>1, <4>1 DEF Typed
      <4>3. refs \in SUBSET Resources
        BY PreloadAssumption, <4>2
      <4>4. R' + V' = R + V
        <5> HIDE DEF refs
        <5> QED
          BY <2>1, <4>1, <4>3, QueueGrows DEF Typed
      <4>5. P' <= P + 2
        <5>1. preloadPoses' \in {preloadPoses, Append(preloadPoses, Head(preloadActors)),
                                 preloadPoses \o <<Head(preloadActors), Head(preloadActors)>>}
          BY <3>2 DEF Preload!ServeActor
        <5>2. preloadPoses \in Seq(Actors)
          BY <2>1 DEF Typed
        <5>3. /\ Len(Append(preloadPoses, Head(preloadActors))) = P + 1
              /\ Len(preloadPoses \o <<Head(preloadActors), Head(preloadActors)>>) = P + 2
          BY <4>2, <5>2
        <5> QED
          BY <2>2, <5>1, <5>3
      <4>6. U' = U
        BY <3>1
      <4>7. W' = 3 * (A - 1 + U) + (R + V) + P'
        BY <2>2, <4>2, <4>4, <4>6
      <4>8. W = 3 * (A + U) + (R + V) + P
        BY <2>2
      <4>9. R + V \in Nat
        BY <2>2
      <4>10. W' < W /\ W' <= W
        BY <2>2, <4>5, <4>7, <4>8, <4>9, Weighed
      <4> QED
        BY <4>10
    <3>3. CASE Preload!ServeResource
      <4> DEFINE refs == Needs[Head(preloadResources)]
      <4>1. /\ preloadResources # <<>> /\ Preload!QueueResources(Tail(preloadResources), refs)
            /\ UNCHANGED <<preloadActors, preloadPoses>>
        BY <3>3 DEF Preload!ServeResource
      <4>2. /\ Head(preloadResources) \in Resources /\ Tail(preloadResources) \in Seq(Resources)
            /\ Len(Tail(preloadResources)) = R - 1
        BY <2>1, <4>1 DEF Typed
      <4>3. refs \in SUBSET Resources
        BY PreloadAssumption, <4>2
      <4>4. R' + V' = R - 1 + V
        <5> HIDE DEF refs
        <5> QED
          BY <2>1, <4>1, <4>2, <4>3, QueueGrows
      <4>5. A' = A /\ U' = U /\ P' = P
        BY <3>1, <4>1
      <4> QED
        BY <2>2, <4>4, <4>5
    <3>4. CASE Preload!ServePose
      <4>1. /\ preloadPoses # <<>> /\ preloadPoses' = Tail(preloadPoses)
            /\ UNCHANGED <<preloadActors, preloadResources, preloadSeenResources>>
        BY <3>4 DEF Preload!ServePose
      <4>2. P' = P - 1
        BY <2>1, <4>1 DEF Typed
      <4>3. A' = A /\ U' = U /\ R' = R /\ V' = V
        BY <3>1, <4>1
      <4> QED
        BY <2>2, <4>2, <4>3
    <3>5. CASE Preload!ServeNothing
      <4>1. ~preloadActive
        BY <1>3, <3>5 DEF Preload!ServeNothing, PreloadInv
      <4>2. A' = A /\ U' = U /\ R' = R /\ V' = V /\ P' = P
        BY <3>1, <3>5 DEF Preload!ServeNothing
      <4> QED
        BY <2>2, <4>1, <4>2
    <3> QED
      BY <2>3, <3>2, <3>3, <3>4, <3>5 DEF Preload!ProcessPreloadQueue
  <2>4. CASE ~Preload!ProcessPreloadQueue
    <3> SUFFICES W' <= W
      BY <2>4
    <3>1. ASSUME NEW actor \in Actors, Preload!AddActor(actor) PROVE W' <= W
      <4>1. UNCHANGED <<preloadResources, preloadPoses, preloadSeenResources>>
        BY <3>1 DEF Preload!AddActor
      <4>2. A' + U' = A + U
        <5>1. CASE actor \in preloadSeenActors
          <6>1. UNCHANGED <<preloadActors, preloadSeenActors>>
            BY <3>1, <5>1 DEF Preload!AddActor
          <6> QED
            BY <6>1
        <5>2. CASE actor \notin preloadSeenActors
          <6>1. /\ preloadActors' = Append(preloadActors, actor)
                /\ preloadSeenActors' = preloadSeenActors \cup {actor}
            BY <3>1, <5>2 DEF Preload!AddActor
          <6>2. A' = A + 1
            BY <2>1, <6>1 DEF Typed
          <6>3. (Actors \ preloadSeenActors) \ {actor} = Actors \ preloadSeenActors'
            BY <6>1
          <6>4. IsFiniteSet(Actors \ preloadSeenActors)
            BY PreloadAssumption, FS_Subset
          <6>5. U' = U - 1
            BY <5>2, <6>3, <6>4, FS_RemoveElement
          <6> QED
            BY <2>2, <6>2, <6>5
        <5> QED
          BY <5>1, <5>2
      <4>3. R' = R /\ V' = V /\ P' = P
        BY <4>1
      <4> QED
        BY <2>2, <4>2, <4>3
    <3>2. ASSUME NEW actor \in Actors, Preload!RemoveActor(actor) PROVE W' <= W
      <4>1. A' = A /\ U' = U /\ R' = R /\ V' = V /\ P' = P
        BY <3>2 DEF Preload!RemoveActor
      <4> QED
        BY <2>2, <4>1
    <3>3. CASE Preload!MemoryShort
      <4>1. A' = 0 /\ R' = 0 /\ P' = 0 /\ U' = U /\ V' = V
        BY <3>3 DEF Preload!MemoryShort
      <4> QED
        BY <2>2, <4>1
    <3>4. CASE UNCHANGED Preload!vars
      <4>1. A' = A /\ U' = U /\ R' = R /\ V' = V /\ P' = P
        BY <3>4 DEF Preload!vars
      <4> QED
        BY <2>2, <4>1
    <3> HIDE DEF W
    <3> QED
      BY <1>3, <2>4, <3>1, <3>2, <3>3, <3>4 DEF Preload!Next
  <2> QED
    BY <2>3, <2>4
<1>4. ASSUME PreloadInv, [Preload!Next]_Preload!vars
      PROVE  [/\ Preload!Work' <= Preload!Work
              /\ preloadActive /\ Preload!ProcessPreloadQueue
                    => Preload!Work' < Preload!Work]_Preload!vars
  <2> HIDE DEF W
  <2> QED
    BY <1>1, <1>3, <1>4
<1> QED
  BY <1>4, PreloadAlways, PTL DEF Preload!Spec, Preload!WorkShrinks

\* In Protocols the steps of the others leave it alone.
LEMMA PreloadAlone == Spec => Preload!Spec
<1>1. Init => Preload!Init
  BY DEF Init
<1>2. [Next]_vars => [Preload!Next]_Preload!vars
  BY DEF Next, vars, preloadVars, Preload!vars
<1> QED
  BY <1>1, <1>2, PTL DEF Spec, Preload!Spec

(* Among the protocols too, preloading leaves nothing out.                 *)
THEOREM PreloadComplete == Spec => []NothingSkipped
BY PreloadAlone, PreloadSkipsNothing, PTL DEF NothingSkipped

(* Among the protocols too, preloading is bounded.                         *)
THEOREM PreloadBounded == Spec => Preload!WorkShrinks
BY PreloadAlone, PreloadWorkShrinks, PTL

=============================================================================
