----------------------------- MODULE AudioLock -----------------------------
(***************************************************************************)
(* The channels of the game's sounds and the two locks about them (patch   *)
(* 0001): stateMutex, which guards channelMap, and the lock of SDL's audio *)
(* device, which SDL_mixer takes in every call, and which the audio thread *)
(* holds while it mixes and calls finishedCallback.                        *)
(***************************************************************************)
EXTENDS Integers

CONSTANTS
  Channels,    \* mixer channels
  MaxRequests  \* bound: sounds requested, each named by its number

VARIABLES
  game,        \* where the game's thread is
  sdlLock,     \* the channel whose finishedCallback the audio thread is about
               \* to run, holding SDL's lock; or free
  stateMutex,  \* held by the game's thread across a step, or free
  playing,     \* the sound each channel plays in SDL_mixer
  channelMap,  \* the sound each channel plays for the game
  request,     \* the last sound requested
  channel      \* nextChannel of Request

vars == <<game, sdlLock, stateMutex, playing, channelMap, request, channel>>

Silence == 0
Free == "free"

Init ==
  /\ game = "off" /\ sdlLock = Free /\ stateMutex = Free
  /\ playing = [c \in Channels |-> Silence]
  /\ channelMap = [c \in Channels |-> Silence]
  /\ request = 0 /\ channel \in Channels

-----------------------------------------------------------------------------
(***************************************************************************)
(* The game's thread.  It waits for a lock that is not free.               *)
(***************************************************************************)

\* ChannelManager::Init sets initialized under stateMutex ...
InitState ==
  /\ game = "off" /\ stateMutex = Free
  /\ game' = "allocate"
  /\ UNCHANGED <<sdlLock, stateMutex, playing, channelMap, request, channel>>

\* ... and releases it before it calls SDL_mixer.
InitMixer ==
  /\ game = "allocate" /\ sdlLock = Free
  /\ game' = "idle"
  /\ UNCHANGED <<sdlLock, stateMutex, playing, channelMap, request, channel>>

\* Slip: Request holds stateMutex from its first line to its last.
Request_Locked ==
  /\ game = "idle" /\ request < MaxRequests /\ stateMutex = Free
  /\ game' = "play" /\ request' = request + 1 /\ stateMutex' = "game"
  /\ UNCHANGED <<sdlLock, playing, channelMap, channel>>

Request ==
  /\ game = "idle" /\ request < MaxRequests
  /\ game' = "play" /\ request' = request + 1
  /\ UNCHANGED <<sdlLock, stateMutex, playing, channelMap, channel>>

\* Mix_PlayChannel on a silent channel, or on one the caller named: the sound
\* it plays is ended, and finishedCallback called, first.
PlayChannel ==
  /\ game = "play" /\ sdlLock = Free
  /\ \E c \in Channels :
       /\ playing' = [playing EXCEPT ![c] = request]
       /\ channelMap' = IF playing[c] = Silence THEN channelMap
                        ELSE [channelMap EXCEPT ![c] = Silence]
       /\ channel' = c
  /\ game' = "enter"
  /\ UNCHANGED <<sdlLock, stateMutex, request>>

\* No channel is free, or the chunk cannot be played.
PlayChannelFails ==
  /\ game = "play" /\ sdlLock = Free
  /\ game' = "idle" /\ stateMutex' = Free
  /\ UNCHANGED <<sdlLock, playing, channelMap, request, channel>>

\* Slip: an entry that is there is kept, as emplace does.
Entered_Emplaced == IF channelMap[channel] = Silence THEN request ELSE channelMap[channel]

\* What the map then says of the channel.
Entered == request

\* channelMap[nextChannel] = source.GetID()
Enter ==
  /\ game = "enter"
  /\ channelMap' = [channelMap EXCEPT ![channel] = Entered]
  /\ game' = "idle" /\ stateMutex' = Free
  /\ UNCHANGED <<sdlLock, playing, request, channel>>

Game ==
  InitState \/ InitMixer \/ Request \/ PlayChannel \/ PlayChannelFails \/ Enter

-----------------------------------------------------------------------------
(***************************************************************************)
(* The audio thread.                                                       *)
(***************************************************************************)

\* While it mixes, a sound ends.
SoundEnds(c) ==
  /\ sdlLock = Free /\ playing[c] # Silence
  /\ sdlLock' = c
  /\ playing' = [playing EXCEPT ![c] = Silence]
  /\ UNCHANGED <<game, stateMutex, channelMap, request, channel>>

\* finishedCallback takes stateMutex and drops the entry; SDL's lock is
\* released after it.
FinishedCallback ==
  /\ sdlLock # Free /\ stateMutex = Free
  /\ channelMap' = [channelMap EXCEPT ![sdlLock] = Silence]
  /\ sdlLock' = Free
  /\ UNCHANGED <<game, stateMutex, playing, request, channel>>

Next == Game \/ FinishedCallback \/ \E c \in Channels : SoundEnds(c)

Spec == Init /\ [][Next]_vars

(* Both threads are scheduled.                                             *)
FairSpec == Spec /\ WF_vars(Game) /\ WF_vars(FinishedCallback)

-----------------------------------------------------------------------------

(* The game never waits for ever for SDL's lock or for stateMutex, however *)
(* its requests meet the ends of sounds.                                   *)
RequestsReturn == game \in {"play", "enter"} ~> game = "idle"

(* A sound that plays is found under its channel, also when the sound      *)
(* before it ended before Request had entered it.                          *)
PlayingIsNamed ==
  \A c \in Channels :
    playing[c] # Silence /\ ~(game = "enter" /\ channel = c) =>
      channelMap[c] = playing[c]

=============================================================================
