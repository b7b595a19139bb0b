--------------------------- MODULE CoherenceProofs ---------------------------
(***************************************************************************)
(* Proofs about Coherence, for every value of its constants: any textures, *)
(* pixels, rectangles, sizes and budget.                                   *)
(*                                                                         *)
(* Each function of the renderer gets a lemma: from a state that is Good   *)
(* it leaves one that is, Moved pixels between copies but changed none,    *)
(* and, when it succeeds, did what its callers rely on.  Each callback     *)
(* then keeps CoherenceInv, and Follows the images of SdlTextures: what    *)
(* was only Moved is the Same to SDL, and what was drawn is what it Drew.  *)
(***************************************************************************)
EXTENDS Coherence, FiniteSetTheorems, TLAPS

-----------------------------------------------------------------------------
(***************************************************************************)
(* The sizes of sets of textures.                                          *)
(***************************************************************************)

\* The bytes of a set of textures, told apart.
Parts(P) == UNION {{t} \X (1 .. Bytes[t]) : t \in P}

(* They are finitely many, and BytesOf is their number.                    *)
LEMMA BytesFinite ==
  ASSUME NEW P \in SUBSET Textures
  PROVE  /\ IsFiniteSet(P) /\ IsFiniteSet(Parts(P))
         /\ BytesOf(P) = Cardinality(Parts(P)) /\ BytesOf(P) \in Nat
<1>1. IsFiniteSet(P)
  BY NamesAssumption, FS_Subset
<1> DEFINE f == [t \in P |-> {t} \X (1 .. Bytes[t])]
           T == {f[t] : t \in P}
<1>2. f \in Surjection(P, T)
  BY DEF Surjection
<1>3. IsFiniteSet(T)
  BY <1>1, <1>2, FS_Surjection
<1>4. \A x \in T : IsFiniteSet(x)
  <2>1. ASSUME NEW t \in P PROVE IsFiniteSet({t} \X (1 .. Bytes[t]))
    <3>0. Bytes[t] \in Int
      BY BoundsAssumption
    <3>1. IsFiniteSet({t})
      BY FS_Singleton
    <3>2. 1 \in Int
      OBVIOUS
    <3>3. IsFiniteSet(1 .. Bytes[t])
      BY ONLY <3>0, <3>2, FS_Interval
    <3> QED BY ONLY <3>1, <3>3, FS_Product
  <2> QED BY <2>1
<1>5. T = {{t} \X (1 .. Bytes[t]) : t \in P}
  OBVIOUS
<1>6. IsFiniteSet(Parts(P))
  BY <1>3, <1>4, <1>5, FS_UNION DEF Parts
<1> QED BY <1>1, <1>6, FS_CardinalityType DEF BytesOf, Parts

(* Textures released take their own bytes with them, and no others.        *)
LEMMA BytesOfDifference ==
  ASSUME NEW P \in SUBSET Textures, NEW Q \in SUBSET P
  PROVE  BytesOf(P \ Q) = BytesOf(P) - BytesOf(Q) /\ BytesOf(Q) <= BytesOf(P)
<1>1. Parts(P \ Q) = Parts(P) \ Parts(Q) /\ Parts(Q) \subseteq Parts(P)
  BY DEF Parts
<1>2. Parts(P) \cap Parts(Q) = Parts(Q)
  BY <1>1
<1>3. IsFiniteSet(Parts(P)) /\ IsFiniteSet(Parts(Q))
  BY BytesFinite
<1>4. Cardinality(Parts(P) \ Parts(Q)) = Cardinality(Parts(P)) - Cardinality(Parts(Q))
  BY ONLY <1>2, <1>3, FS_Difference
<1>5. Cardinality(Parts(Q)) <= Cardinality(Parts(P))
  BY ONLY <1>1, <1>3, FS_Subset
<1> QED BY <1>1, <1>4, <1>5, BytesFinite

(* A texture that becomes resident adds its own bytes.                     *)
LEMMA BytesOfAdded ==
  ASSUME NEW P \in SUBSET Textures, NEW t \in Textures \ P
  PROVE  BytesOf(P \cup {t}) = BytesOf(P) + Bytes[t]
<1>1. BytesOf({t}) = Bytes[t]
  <2>1. Parts({t}) = {t} \X (1 .. Bytes[t])
    BY DEF Parts
  <2>2. Bytes[t] \in Nat /\ IsFiniteSet({t}) /\ Cardinality({t}) = 1
    BY BoundsAssumption, FS_Singleton
  <2>3. IsFiniteSet(1 .. Bytes[t]) /\ Cardinality(1 .. Bytes[t]) = Bytes[t]
    BY <2>2, FS_Interval
  <2>4. Cardinality({t} \X (1 .. Bytes[t])) = 1 * Bytes[t]
    BY ONLY <2>2, <2>3, FS_Product
  <2>5. BytesOf({t}) = Cardinality(Parts({t}))
    BY BytesFinite
  <2>6. 1 * Bytes[t] = Bytes[t]
    BY ONLY <2>2
  <2> QED BY ONLY <2>1, <2>4, <2>5, <2>6
<1>2. P \cup {t} \in SUBSET Textures /\ P = (P \cup {t}) \ {t}
  OBVIOUS
<1>3. BytesOf(P) = BytesOf(P \cup {t}) - BytesOf({t})
  BY <1>2, BytesOfDifference
<1> QED BY <1>1, <1>2, <1>3, BytesFinite
-----------------------------------------------------------------------------
(***************************************************************************)
(* The inductive invariant, on states of the renderer.  What depends on    *)
(* pixels is claimed where the renderer can keep it: when the device does  *)
(* not fail, or when SDL changes surfaces only as a whole.                 *)
(***************************************************************************)

Clean == MaxFailures = 0
Whole == Clean \/ Rects = {Cells}

Held(x) == x.cpuValid \/ x.gpuValid

\* A copy marked current exists, and what is to be uploaded is a rectangle.
Backed(x) ==
  /\ x.cpuValid => x.shadow # NoImage
  /\ x.gpuValid => x.device # NoImage
  /\ x.live \/ x.device # NoImage => Held(x)
  /\ Hull(x.dirty) = x.dirty
  /\ Rects = {Cells} => x.dirty \in {{}, Cells}

\* Copies hold pixels that were written, and differ only where dirty says so.
Sound(x, t) ==
  /\ x.cpuValid => x.shadow \in Images
  /\ x.gpuValid => x.device \in Images
  /\ Clean /\ x.cpuValid /\ x.gpuValid => x.shadow = x.device
  /\ Clean /\ t # Composition /\ x.device # NoImage /\ ~x.gpuValid =>
       /\ x.dirty # {}
       /\ x.cpuValid => \A c \in Cells \ x.dirty : x.device[c] = x.shadow[c]

Accounts(s) ==
  /\ s.residentBytes = BytesOf(Resident(s))
  /\ BytesOf(Resident(s)) > Budget => Cardinality(Resident(s)) <= 2

\* X: the surfaces a function is in the middle of changing.
Good(s, X) ==
  /\ s \in State
  /\ s.surf[Composition].live /\ HasShadow(s, Composition) /\ HasSurface(s, Composition)
  /\ s.target \notin Streaming /\ Held(s.surf[s.target])
  /\ \A t \in Surfaces : Backed(s.surf[t])
  /\ \A t \in Surfaces : s.surf[t].lock # {} =>
                           t \in Streaming /\ s.surf[t].cpuValid /\ t \notin s.pend
  /\ Accounts(s)
  /\ MaxFailures <= 1 => ~s.raced
  /\ Whole => \A t \in Surfaces \ X : Sound(s.surf[t], t)
  /\ Clean => \A t \in Textures \ X : s.surf[t].busy \/ t \in s.pend => s.surf[t].inUse

\* A batch left over from a command list tells of a failure.
CoherenceInv ==
  /\ TypeOK
  /\ Good(data, {})
  /\ ~inQueue /\ data.pend # {} => data.failures > 0

-----------------------------------------------------------------------------

\* Two states of a surface that differ at most in the core's use of it.
Alike(x, y) ==
  /\ x.live = y.live /\ x.shadow = y.shadow /\ x.device = y.device
  /\ x.cpuValid = y.cpuValid /\ x.gpuValid = y.gpuValid /\ x.keepShadow = y.keepShadow
  /\ x.lock = y.lock /\ x.dirty = y.dirty /\ x.inUse = y.inUse

\* What moving pixels between the copies leaves as it was.
Moved(s, o) ==
  /\ o.target = s.target /\ o.pend \subseteq s.pend /\ o.failures >= s.failures
  /\ \A t \in Surfaces :
       /\ o.surf[t].live = s.surf[t].live /\ o.surf[t].lock = s.surf[t].lock
       /\ o.surf[t].keepShadow = s.surf[t].keepShadow
       /\ Held(s.surf[t]) => Held(o.surf[t])
       /\ Clean => ImageOf(o.surf[t]) = ImageOf(s.surf[t])

(* Nothing moved, and one move after another.                              *)
LEMMA MovedTwice ==
  /\ \A s : s \in State => Moved(s, s)
  /\ \A s, u, o : s \in State /\ u \in State /\ o \in State /\ Moved(s, u) /\ Moved(u, o)
                    => Moved(s, o)
<1>1. \A s \in State : s.failures \in Int
  BY BoundsAssumption DEF State
<1> QED BY <1>1 DEF Moved

(* What stands for no image is none.                                       *)
LEMMA NoImageIsNone == NoImage \notin Image /\ NoImage \notin Images
<1>1. DOMAIN NoImage = {}
  BY DEF NoImage
<1> QED BY <1>1, PixelsAssumption DEF Image, Images

(* What two states of a renderer have in common keeps a Good one Good.     *)
LEMMA AlikeGood ==
  ASSUME NEW X, NEW s, Good(s, X), NEW o \in State,
         o.target = s.target, o.pend = s.pend, o.residentBytes = s.residentBytes,
         o.failures >= s.failures, o.raced = s.raced,
         \A t \in Surfaces : Alike(s.surf[t], o.surf[t]) /\ (o.surf[t].busy => s.surf[t].busy)
  PROVE  Good(o, X) /\ Moved(s, o)
<1>1. Resident(o) = Resident(s)
  BY DEF Resident, HasSurface, Alike, Surfaces
<1>2. Moved(s, o)
  BY DEF Moved, Alike, Held, ImageOf
<1>3. \A t \in Surfaces : Backed(o.surf[t])
  BY DEF Good, Alike, Backed, Held
<1>4. Whole => \A t \in Surfaces \ X : Sound(o.surf[t], t)
  BY DEF Good, Alike, Sound
<1>5. Clean => \A t \in Textures \ X : o.surf[t].busy \/ t \in o.pend => o.surf[t].inUse
  BY DEF Good, Alike, Surfaces
<1>6. /\ o.surf[Composition].live /\ HasShadow(o, Composition) /\ HasSurface(o, Composition)
      /\ o.target \notin Streaming /\ Held(o.surf[o.target])
  BY DEF Good, Alike, HasShadow, HasSurface, Held, Surfaces, State
<1>7. \A t \in Surfaces : o.surf[t].lock # {} =>
                           t \in Streaming /\ o.surf[t].cpuValid /\ t \notin o.pend
  BY DEF Good, Alike
<1>8. Accounts(o) /\ (MaxFailures <= 1 => ~o.raced)
  BY <1>1 DEF Good, Accounts
<1> QED BY <1>2, <1>3, <1>4, <1>5, <1>6, <1>7, <1>8 DEF Good

\* SDL sees the same images.
Same(s, d) ==
  /\ d.target = s.target
  /\ \A u \in Surfaces : d.surf[u].live = s.surf[u].live /\ ImageOf(d.surf[u]) = ImageOf(s.surf[u])

\* What drawing a rectangle of one surface does to the images SDL sees.
Drew(s, d, t, r, from) ==
  /\ d.target = s.target
  /\ \A u \in Surfaces : d.surf[u].live = s.surf[u].live
  /\ \A u \in Surfaces \ {t} : ImageOf(d.surf[u]) = ImageOf(s.surf[u])
  /\ ImageOf(d.surf[t]) = Over(ImageOf(s.surf[t]), r, from)

(* Without errors nothing but the place of an image changes.               *)
LEMMA MovedIsSame ==
  ASSUME Clean, NEW s, NEW d, Moved(s, d)
  PROVE  Same(s, d)
BY DEF Moved, Same

(* One step after another that SDL does not see.                           *)
LEMMA SameTwice ==
  \A s, u, d : Same(s, u) /\ Same(u, d) => Same(s, d)
BY DEF Same

(* Before and after drawing, pixels may move.                              *)
LEMMA DrewSame ==
  ASSUME NEW s, NEW u, NEW o, NEW t \in Surfaces, NEW r, NEW from,
         (Same(s, u) /\ Drew(u, o, t, r, from)) \/ (Drew(s, u, t, r, from) /\ Same(u, o))
  PROVE  Drew(s, o, t, r, from)
<1>1. CASE Same(s, u) /\ Drew(u, o, t, r, from)
  BY <1>1 DEF Same, Drew
<1>2. CASE Drew(s, u, t, r, from) /\ Same(u, o)
  BY <1>2 DEF Same, Drew
<1> QED BY <1>1, <1>2

(* Of an image drawn all over nothing is left.                             *)
LEMMA DrawnOver ==
  \A a, b, from : Over(a, Cells, from) = Over(b, Cells, from)
BY DEF Over

-----------------------------------------------------------------------------
(***************************************************************************)
(* Calls and waits.                                                        *)
(***************************************************************************)

(* The renderer's counters are numbers.                                    *)
LEMMA CountsInt == \A s \in State : s.failures \in Int /\ s.residentBytes \in Int
BY BoundsAssumption DEF State

(* A device error moves nothing, and there is none when there may be none. *)
LEMMA ErrorKeeps ==
  ASSUME NEW X, NEW s, Good(s, X), s.failures < MaxFailures,
         NEW o, o = [s EXCEPT !.failures = @ + 1]
  PROVE  /\ Good(o, X) /\ Moved(s, o) /\ ~Clean
         /\ o.surf = s.surf /\ o.pend = s.pend /\ o.failures > 0
<1>1. s \in State /\ MaxFailures \in Nat /\ s.failures \in 0 .. MaxFailures
  BY BoundsAssumption DEF Good, State
<1>2. o \in State /\ o.failures = s.failures + 1
  BY <1>1 DEF State
<1>3. /\ o.target = s.target /\ o.pend = s.pend /\ o.residentBytes = s.residentBytes
      /\ o.failures >= s.failures /\ o.raced = s.raced /\ o.surf = s.surf
  BY <1>1 DEF State
<1>4. \A t \in Surfaces : Alike(s.surf[t], o.surf[t]) /\ (o.surf[t].busy => s.surf[t].busy)
  BY <1>3 DEF Alike
<1>5. Good(o, X) /\ Moved(s, o)
  BY <1>2, <1>3, <1>4, AlikeGood
<1> QED BY <1>1, <1>2, <1>3, <1>5 DEF Clean

(* A call to the device does what it is for, or fails.                     *)
LEMMA CallKeeps ==
  ASSUME NEW X, NEW s, Good(s, X), NEW d, NEW o \in Call(s, d)
  PROVE  /\ o.ok => o.state = d
         /\ ~o.ok => /\ Good(o.state, X) /\ Moved(s, o.state) /\ ~Clean
                     /\ o.state.surf = s.surf /\ o.state.pend = s.pend /\ o.state.failures > 0
<1>1. \/ o = [state |-> d, ok |-> TRUE]
      \/ s.failures < MaxFailures /\ o = [state |-> [s EXCEPT !.failures = @ + 1], ok |-> FALSE]
  BY DEF Call, Done, Failed
<1> QED BY <1>1, ErrorKeeps

(* A step that fails has done nothing but count the error.                 *)
LEMMA StopsKeeps ==
  ASSUME NEW X, NEW s, Good(s, X), NEW o \in Stops(s)
  PROVE  /\ ~o.ok /\ Good(o.state, X) /\ Moved(s, o.state) /\ ~Clean
         /\ o.state.surf = s.surf /\ o.state.pend = s.pend /\ o.state.failures > 0
<1>1. s.failures < MaxFailures /\ o = [state |-> [s EXCEPT !.failures = @ + 1], ok |-> FALSE]
  BY DEF Stops, Failed
<1> QED BY <1>1, ErrorKeeps

(* Waiting for the last presentation (NOODLES_WaitPresent) moves nothing.  *)
LEMMA WaitKeeps ==
  ASSUME NEW X, NEW s, Good(s, X), NEW o \in WaitPresent(s)
  PROVE  /\ Good(o.state, X) /\ Moved(s, o.state) /\ (Clean => o.ok)
         /\ o.state.surf = s.surf /\ o.state.pend = s.pend
         /\ ~o.ok => o.state.failures > 0
<1>0. s \in State
  BY DEF Good
<1>1. CASE ~s.presentPending
  <2>1. o = [state |-> s, ok |-> TRUE]
    BY <1>1 DEF WaitPresent, Done
  <2> QED BY <1>0, <2>1, MovedTwice
<1>2. CASE s.presentPending
  <2> DEFINE d == [s EXCEPT !.presentPending = FALSE]
  <2>0. d \in State
    BY <1>0 DEF State
  <2>1. /\ d.surf = s.surf /\ d.target = s.target /\ d.pend = s.pend
        /\ d.residentBytes = s.residentBytes /\ d.failures = s.failures /\ d.raced = s.raced
        /\ d.failures >= s.failures
    BY <1>0, CountsInt DEF State
  <2>2. \A t \in Surfaces : Alike(s.surf[t], d.surf[t]) /\ (d.surf[t].busy => s.surf[t].busy)
    BY <2>1 DEF Alike
  <2> HIDE DEF d
  <2>3. Good(d, X) /\ Moved(s, d)
    BY <2>0, <2>1, <2>2, AlikeGood
  <2>4. o \in Call(s, d)
    BY <1>2 DEF WaitPresent, d
  <2> QED BY <2>1, <2>3, <2>4, CallKeeps
<1> QED BY <1>1, <1>2

(* Submitting the pending batch (NOODLES_FlushQueued) moves no pixel: the  *)
(* core now uses the batch's surfaces, or an earlier error is pending still. *)
LEMMA FlushKeeps ==
  ASSUME NEW X, NEW s, Good(s, X), NEW o \in FlushQueued(s)
  PROVE  /\ Good(o.state, X) /\ Moved(s, o.state) /\ (Clean => o.ok)
         /\ \A t \in Surfaces : Alike(s.surf[t], o.state.surf[t])
         /\ o.ok => o.state.pend = {}
         /\ ~o.ok => o.state.failures > 0 /\ s.pend # {} /\ s.failures < MaxFailures
         /\ o.state.pend \in {{}, s.pend}
<1>0. s \in State
  BY DEF Good
<1>1. CASE s.pend = {}
  <2>1. o = [state |-> s, ok |-> TRUE]
    BY <1>1 DEF FlushQueued, Done
  <2> QED BY <1>0, <1>1, <2>1, MovedTwice DEF Alike
<1>2. CASE s.pend # {}
  <2> DEFINE surf == [u \in Surfaces |->
                        [s.surf[u] EXCEPT !.busy = @ \/ u \in s.pend \ {Composition}]]
             d == [s EXCEPT !.pend = {}, !.surf = surf]
  <2>1. \A u \in Surfaces : s.surf[u] \in Surface
    BY <1>0 DEF State
  <2>2. \A u \in Surfaces :
          /\ surf[u] \in Surface /\ Alike(s.surf[u], surf[u]) /\ surf[u].later = s.surf[u].later
          /\ surf[u].busy => s.surf[u].busy \/ u \in s.pend
    BY <2>1 DEF Surface, Alike
  <2>3. surf \in [Surfaces -> Surface]
    BY <2>2
  <2> HIDE DEF surf
  <2>10. d \in State
    BY <1>0, <2>3 DEF State
  <2>4. /\ d.surf = surf /\ d.target = s.target /\ d.pend = {}
        /\ d.residentBytes = s.residentBytes /\ d.failures = s.failures /\ d.raced = s.raced
        /\ d.failures >= s.failures
    BY <1>0, CountsInt, <2>3 DEF State
  <2> HIDE DEF d
  <2>5. Good(d, X) /\ Moved(s, d)
    <3>1. Resident(d) = Resident(s)
      BY <2>2, <2>4 DEF Resident, HasSurface, Alike, Surfaces
    <3>2. Moved(s, d)
      BY <2>2, <2>4 DEF Moved, Alike, Held, ImageOf
    <3>3. \A t \in Surfaces : Backed(d.surf[t])
      BY <2>2, <2>4 DEF Good, Alike, Backed, Held
    <3>4. Whole => \A t \in Surfaces \ X : Sound(d.surf[t], t)
      BY <2>2, <2>4 DEF Good, Alike, Sound
    <3>5. Clean => \A t \in Textures \ X : d.surf[t].busy \/ t \in d.pend => d.surf[t].inUse
      BY <2>2, <2>4 DEF Good, Alike, Surfaces
    <3>6. /\ d.surf[Composition].live /\ HasShadow(d, Composition) /\ HasSurface(d, Composition)
          /\ d.target \notin Streaming /\ Held(d.surf[d.target])
      BY <2>2, <2>4 DEF Good, Alike, HasShadow, HasSurface, Held, Surfaces, State
    <3>7. \A t \in Surfaces : d.surf[t].lock # {} =>
                               t \in Streaming /\ d.surf[t].cpuValid /\ t \notin d.pend
      BY <2>2, <2>4 DEF Good, Alike
    <3>8. Accounts(d) /\ (MaxFailures <= 1 => ~d.raced)
      BY <2>4, <3>1 DEF Good, Accounts
    <3> QED BY <2>4, <2>10, <3>2, <3>3, <3>4, <3>5, <3>6, <3>7, <3>8 DEF Good
  <2>6. o \in Call(s, d)
    BY <1>2 DEF FlushQueued, d, surf
  <2>7. ~o.ok => s.failures < MaxFailures
    BY <2>6 DEF Call, Done, Failed
  <2> QED BY <1>2, <2>2, <2>4, <2>5, <2>6, <2>7, CallKeeps DEF Alike
<1> QED BY <1>1, <1>2

-----------------------------------------------------------------------------
(***************************************************************************)
(* Changes of one surface.                                                 *)
(***************************************************************************)

(* What a change of one surface must keep; the others stay as they are.    *)
LEMMA OneGood ==
  ASSUME NEW X, NEW Y, NEW s, Good(s, Y), NEW t \in Surfaces, Y \subseteq X \cup {t},
         NEW o \in State, o.target = s.target, o.pend = s.pend,
         o.residentBytes = s.residentBytes,
         MaxFailures <= 1 => ~o.raced,
         \A u \in Surfaces \ {t} : Alike(s.surf[u], o.surf[u]) /\ (o.surf[u].busy => s.surf[u].busy),
         Backed(o.surf[t]),
         o.surf[t].device # NoImage <=> s.surf[t].device # NoImage,
         t = Composition => o.surf[t].live /\ o.surf[t].shadow # NoImage,
         t = s.target => Held(o.surf[t]),
         o.surf[t].lock # {} => t \in Streaming /\ o.surf[t].cpuValid /\ t \notin s.pend,
         Whole /\ t \notin X => Sound(o.surf[t], t),
         Clean /\ t \in Textures \ X => (o.surf[t].busy \/ t \in s.pend => o.surf[t].inUse)
  PROVE  Good(o, X)
<1>1. Resident(o) = Resident(s)
  BY DEF Resident, HasSurface, Alike, Surfaces
<1>2. \A u \in Surfaces : Backed(o.surf[u])
  BY DEF Good, Alike, Backed, Held
<1>3. Whole => \A u \in Surfaces \ X : Sound(o.surf[u], u)
  BY DEF Good, Alike, Sound
<1>4. Clean => \A u \in Textures \ X : o.surf[u].busy \/ u \in o.pend => o.surf[u].inUse
  BY DEF Good, Alike, Surfaces
<1>5. Composition \in Surfaces /\ s.target \in Surfaces
  BY DEF Good, State, Surfaces
<1>6. o.surf[Composition].live /\ HasShadow(o, Composition) /\ HasSurface(o, Composition)
  BY <1>5 DEF Good, Alike, HasShadow, HasSurface
<1>7. o.target \notin Streaming /\ Held(o.surf[o.target])
  BY <1>5 DEF Good, Alike, Held
<1>8. \A u \in Surfaces : o.surf[u].lock # {} =>
                           u \in Streaming /\ o.surf[u].cpuValid /\ u \notin o.pend
  BY DEF Good, Alike
<1>9. Accounts(o)
  BY <1>1 DEF Good, Accounts
<1> QED BY <1>2, <1>3, <1>4, <1>6, <1>7, <1>8, <1>9 DEF Good

(* A change of one surface that keeps its image only moves pixels.         *)
LEMMA OneMoved ==
  ASSUME NEW s, NEW t \in Surfaces, NEW o, o.target = s.target, o.pend = s.pend,
         o.failures >= s.failures,
         \A u \in Surfaces \ {t} : Alike(s.surf[u], o.surf[u]),
         o.surf[t].live = s.surf[t].live, o.surf[t].lock = s.surf[t].lock,
         o.surf[t].keepShadow = s.surf[t].keepShadow,
         Held(s.surf[t]) => Held(o.surf[t]),
         Clean => ImageOf(o.surf[t]) = ImageOf(s.surf[t])
  PROVE  Moved(s, o)
BY DEF Moved, Alike, Held, ImageOf

(* A surface is used: only the order of last uses changes.                 *)
LEMMA TouchKeeps ==
  ASSUME NEW X, NEW s, Good(s, X), NEW t \in Surfaces
  PROVE  /\ Good(TouchSurface(s, t), X) /\ Moved(s, TouchSurface(s, t))
         /\ \A u \in Surfaces : /\ Alike(s.surf[u], TouchSurface(s, t).surf[u])
                                /\ TouchSurface(s, t).surf[u].busy = s.surf[u].busy
         /\ TouchSurface(s, t).pend = s.pend /\ TouchSurface(s, t).failures = s.failures
         /\ TouchSurface(s, t).presentPending = s.presentPending
<1>0. s \in State /\ \A u \in Surfaces : s.surf[u] \in Surface
  BY DEF Good, State
<1>1. CASE t = Composition
  BY <1>0, <1>1, MovedTwice DEF TouchSurface, Alike
<1>2. CASE t # Composition
  <2> DEFINE others == Resident(s) \ {t}
             surf == [u \in Surfaces |->
                        [s.surf[u] EXCEPT !.later = IF u \in others THEN @ \cup {t} ELSE {}]]
             d == [s EXCEPT !.surf = surf]
  <2>1. \A u \in Surfaces :
          surf[u] \in Surface /\ Alike(s.surf[u], surf[u]) /\ surf[u].busy = s.surf[u].busy
    <3>1. t \in Textures
      BY <1>2 DEF Surfaces
    <3> QED BY <1>0, <3>1 DEF Surface, Alike
  <2>2. surf \in [Surfaces -> Surface]
    BY <2>1
  <2> HIDE DEF surf
  <2>3. d \in State
    BY <1>0, <2>2 DEF State
  <2>4. /\ d.surf = surf /\ d.target = s.target /\ d.pend = s.pend /\ d.raced = s.raced
        /\ d.residentBytes = s.residentBytes /\ d.failures = s.failures
        /\ d.presentPending = s.presentPending /\ d.failures >= s.failures
    BY <1>0, CountsInt DEF State
  <2> HIDE DEF d
  <2>5. Good(d, X) /\ Moved(s, d)
    BY <2>1, <2>3, <2>4, AlikeGood
  <2>6. TouchSurface(s, t) = d
    BY <1>2 DEF TouchSurface, d, surf
  <2> QED BY <2>1, <2>4, <2>5, <2>6
<1> QED BY <1>1, <1>2

(* The back buffer is waited for before the CPU reaches it.                *)
LEMMA BackBufferKeeps ==
  ASSUME NEW X, NEW s, Good(s, X), NEW t, NEW o \in BackBuffer(s, t)
  PROVE  /\ Good(o.state, X) /\ Moved(s, o.state) /\ (Clean => o.ok)
         /\ o.state.surf = s.surf /\ o.state.pend = s.pend
         /\ ~o.ok => o.state.failures > 0
<1>0. s \in State
  BY DEF Good
<1>1. CASE t = Composition /\ ~ThreeBuffers
  BY <1>1, WaitKeeps DEF BackBuffer
<1>2. CASE ~(t = Composition /\ ~ThreeBuffers)
  <2>1. o = [state |-> s, ok |-> TRUE]
    BY <1>2 DEF BackBuffer, Done
  <2> QED BY <1>0, <2>1, MovedTwice
<1> QED BY <1>1, <1>2

(* Pixels taken from another image of the right values are of these values.*)
LEMMA OverImage ==
  /\ \A a, b \in Image : \A r : Over(a, r, b) \in Image
  /\ \A a, b \in Images : \A r : Over(a, r, b) \in Images
  /\ \A a, b \in Image : Over(a, Cells, b) = b
  /\ \A a, b \in Image : \A r : \A c \in Cells : Over(a, r, b)[c] = IF c \in r THEN b[c] ELSE a[c]
  /\ Images \subseteq Image
BY DEF Over, Image, Images, Pixels

\* The state with another record for one surface.
With(s, t, y) == [s EXCEPT !.surf[t] = y]

(* What the state with another record for one surface is made of.          *)
LEMMA WithFields ==
  ASSUME NEW s \in State, NEW t \in Surfaces, NEW y \in Surface, NEW d, d = With(s, t, y)
  PROVE  /\ d \in State
         /\ d.surf[t] = y /\ \A u \in Surfaces \ {t} : d.surf[u] = s.surf[u]
         /\ d.target = s.target /\ d.pend = s.pend /\ d.presentPending = s.presentPending
         /\ d.residentBytes = s.residentBytes /\ d.failures = s.failures /\ d.raced = s.raced
         /\ d.failures >= s.failures
<1>1. d = [s EXCEPT !.surf = [s.surf EXCEPT ![t] = y]]
  BY DEF With
<1>2. [s.surf EXCEPT ![t] = y] \in [Surfaces -> Surface] /\ s.surf \in [Surfaces -> Surface]
  BY DEF State
<1>3. d.surf = [s.surf EXCEPT ![t] = y]
  BY <1>1 DEF State
<1>4. d \in State
  BY <1>1, <1>2 DEF State
<1>5. d.surf[t] = y /\ \A u \in Surfaces \ {t} : d.surf[u] = s.surf[u]
  BY <1>2, <1>3
<1>6. /\ d.target = s.target /\ d.pend = s.pend /\ d.presentPending = s.presentPending
      /\ d.residentBytes = s.residentBytes /\ d.failures = s.failures /\ d.raced = s.raced
  BY <1>1 DEF State
<1>7. d.failures >= s.failures
  BY <1>6, CountsInt
<1> QED BY <1>4, <1>5, <1>6, <1>7

(* Only the last of two changes of a surface counts.                       *)
LEMMA WithTwice ==
  ASSUME NEW s \in State, NEW t \in Surfaces, NEW a \in Surface, NEW y \in Surface
  PROVE  With(With(s, t, a), t, y) = With(s, t, y)
<1>1. s.surf \in [Surfaces -> Surface] /\ t \in DOMAIN s.surf
  BY DEF State
<1> DEFINE f == [s.surf EXCEPT ![t] = a]
           g == [s.surf EXCEPT ![t] = y]
<1>2. [f EXCEPT ![t] = y] = g
  BY <1>1
<1>3. With(s, t, a) = [s EXCEPT !.surf = f] /\ With(s, t, y) = [s EXCEPT !.surf = g]
  BY DEF With
<1>4. With(s, t, a).surf = f
  BY <1>3 DEF State
<1>5. With(With(s, t, a), t, y) = [With(s, t, a) EXCEPT !.surf = g]
  BY <1>2, <1>4 DEF With
<1> HIDE DEF f, g
<1>6. [[s EXCEPT !.surf = f] EXCEPT !.surf = g] = [s EXCEPT !.surf = g]
  BY DEF State
<1> QED BY <1>3, <1>5, <1>6

(* A surface no pending batch refers to is reached without a race.         *)
LEMMA ReachIs ==
  ASSUME NEW s \in State, NEW t \in Surfaces, t \notin s.pend
  PROVE  Reach(s, t) = With(s, t, [s.surf[t] EXCEPT !.busy = FALSE])
<1>1. s.raced \in BOOLEAN /\ (s.raced \/ t \in s.pend) = s.raced
  BY DEF State
<1>2. Reach(s, t) = [[s EXCEPT !.surf[t] = [s.surf[t] EXCEPT !.busy = FALSE]]
                       EXCEPT !.raced = s.raced]
  BY <1>1 DEF Reach
<1>3. \A d \in State : [d EXCEPT !.raced = d.raced] = d
  BY DEF State
<1>4. [s.surf[t] EXCEPT !.busy = FALSE] \in Surface
  <2>1. s.surf[t] \in Surface
    BY DEF State
  <2> QED BY <2>1 DEF Surface
<1>5. With(s, t, [s.surf[t] EXCEPT !.busy = FALSE]) \in State
      /\ With(s, t, [s.surf[t] EXCEPT !.busy = FALSE]).raced = s.raced
  BY <1>4, WithFields
<1> QED BY <1>2, <1>3, <1>5 DEF With

(* Moving pixels of one surface, as far as a Good state allows.            *)
LEMMA WithKeeps ==
  ASSUME NEW X, NEW Y, NEW s, Good(s, Y), NEW t \in Surfaces, Y \subseteq X \cup {t},
         NEW y \in Surface, Backed(y),
         y.live = s.surf[t].live, y.lock = s.surf[t].lock,
         y.keepShadow = s.surf[t].keepShadow,
         HasSurface(s, t) <=> y.device # NoImage,
         t = Composition => y.shadow # NoImage,
         Held(s.surf[t]) => Held(y),
         y.lock # {} => y.cpuValid,
         Whole /\ t \notin X => Sound(y, t),
         Clean /\ t \in Textures \ X => (y.busy \/ t \in s.pend => y.inUse),
         Clean => ImageOf(y) = ImageOf(s.surf[t])
  PROVE  Good(With(s, t, y), X) /\ Moved(s, With(s, t, y))
<1> DEFINE d == With(s, t, y)
<1>0. s \in State
  BY DEF Good
<1>1. /\ d \in State
      /\ d.surf[t] = y /\ \A u \in Surfaces \ {t} : d.surf[u] = s.surf[u]
      /\ d.target = s.target /\ d.pend = s.pend
      /\ d.residentBytes = s.residentBytes /\ d.raced = s.raced /\ d.failures >= s.failures
  BY <1>0, WithFields
<1> HIDE DEF d
<1>2. \A u \in Surfaces \ {t} : Alike(s.surf[u], d.surf[u]) /\ (d.surf[u].busy => s.surf[u].busy)
  BY <1>1 DEF Alike
<1>3. /\ t = Composition => y.live
      /\ t = s.target => Held(y)
      /\ y.lock # {} => t \in Streaming /\ t \notin s.pend
      /\ MaxFailures <= 1 => ~d.raced
  BY <1>1 DEF Good
<1>4. Good(d, X)
  BY <1>1, <1>2, <1>3, OneGood DEF HasSurface
<1>5. Moved(s, d)
  BY <1>1, <1>2, OneMoved
<1> QED BY <1>4, <1>5 DEF d

(* The transfer of a rectangle between the two copies, in one step.        *)
LEMMA TransferKeeps ==
  ASSUME NEW X, NEW s, Good(s, X), NEW t \in Surfaces, NEW d, NEW o \in Call(s, d),
         NEW y \in Surface, d = With(s, t, y), Backed(y),
         y.live = s.surf[t].live, y.lock = s.surf[t].lock, y.keepShadow = s.surf[t].keepShadow,
         y.cpuValid = s.surf[t].cpuValid, y.gpuValid = s.surf[t].gpuValid,
         ~y.busy, y.inUse = s.surf[t].inUse, t \notin s.pend,
         HasSurface(s, t), y.device # NoImage, y.shadow # NoImage,
         Whole /\ t \notin X => Sound(y, t),
         Clean => ImageOf(y) = ImageOf(s.surf[t])
  PROVE  /\ Good(o.state, X) /\ Moved(s, o.state) /\ (Clean => o.ok)
         /\ o.state.pend = s.pend
         /\ \A u \in Surfaces \ {t} : o.state.surf[u] = s.surf[u]
         /\ ~o.ok => o.state.surf = s.surf /\ o.state.failures > 0
         /\ o.ok => o.state.surf[t] = y
<1>1. y.lock # {} => y.cpuValid
  BY DEF Good
<1>2. Good(d, X) /\ Moved(s, d)
  BY <1>1, WithKeeps DEF Held
<1>3. /\ d.surf[t] = y /\ \A u \in Surfaces \ {t} : d.surf[u] = s.surf[u]
      /\ d.pend = s.pend
  BY WithFields DEF Good
<1>4. /\ o.ok => o.state = d
      /\ ~o.ok => /\ Good(o.state, X) /\ Moved(s, o.state) /\ ~Clean
                  /\ o.state.surf = s.surf /\ o.state.pend = s.pend /\ o.state.failures > 0
  BY CallKeeps
<1>5. CASE o.ok
  BY <1>2, <1>3, <1>4, <1>5
<1>6. CASE ~o.ok
  BY <1>4, <1>6
<1> QED BY <1>5, <1>6

\* A surface with the rectangle r of its shadow read back.
Filled(x, r) == [x EXCEPT !.busy = FALSE, !.shadow = Over(x.shadow, r, x.device)]

(* A read-back fills the shadow from the surface.                          *)
LEMMA ReadKeeps ==
  ASSUME NEW X, NEW s, Good(s, X), NEW t \in Surfaces, NEW r, NEW o \in SurfaceRead(s, t, r),
         t \notin s.pend, HasSurface(s, t), HasShadow(s, t), s.surf[t].gpuValid, ~s.surf[t].cpuValid
  PROVE  /\ Good(o.state, X) /\ Moved(s, o.state) /\ (Clean => o.ok)
         /\ o.state.pend = s.pend
         /\ \A u \in Surfaces \ {t} : o.state.surf[u] = s.surf[u]
         /\ ~o.ok => o.state.surf = s.surf /\ o.state.failures > 0
         /\ o.ok => o.state.surf[t] = Filled(s.surf[t], r)
<1> DEFINE x == s.surf[t]
           y == [x EXCEPT !.busy = FALSE, !.shadow = Over(x.shadow, r, x.device)]
<1>1. PICK b \in BackBuffer(s, t) :
         \/ ~b.ok /\ o = b
         \/ b.ok /\ o \in Call(b.state, [Reach(b.state, t) EXCEPT
                                    !.surf[t].shadow = Over(@, r, b.state.surf[t].device)])
  BY DEF SurfaceRead, Then
<1>2. /\ Good(b.state, X) /\ Moved(s, b.state) /\ (Clean => b.ok)
      /\ b.state.surf = s.surf /\ b.state.pend = s.pend /\ (~b.ok => b.state.failures > 0)
  BY BackBufferKeeps
<1>3. CASE ~b.ok /\ o = b
  BY <1>2, <1>3
<1>4. ASSUME NEW v, v = b.state,
             o \in Call(v, [Reach(v, t) EXCEPT !.surf[t].shadow = Over(@, r, v.surf[t].device)])
      PROVE  /\ Good(o.state, X) /\ Moved(s, o.state) /\ (Clean => o.ok)
             /\ o.state.pend = s.pend
             /\ \A u \in Surfaces \ {t} : o.state.surf[u] = s.surf[u]
             /\ ~o.ok => o.state.surf = s.surf /\ o.state.failures > 0
             /\ o.ok => o.state.surf[t] = y
  <2> DEFINE d == [Reach(v, t) EXCEPT !.surf[t].shadow = Over(@, r, v.surf[t].device)]
  <2>1. /\ v \in State /\ s \in State /\ x \in Surface /\ v.surf = s.surf /\ v.pend = s.pend
        /\ x.shadow \in Image /\ x.device \in Image /\ Good(v, X) /\ Moved(s, v)
    BY <1>2, <1>4 DEF Good, State, Surface, HasShadow, HasSurface
  <2>2. Over(x.shadow, r, x.device) \in Image
    BY <2>1, OverImage
  <2>3. y \in Surface
    BY <2>1, <2>2 DEF Surface
  <2>4. d = With(v, t, y)
    <3>1. Reach(v, t) = With(v, t, [x EXCEPT !.busy = FALSE])
      BY <2>1, ReachIs
    <3>2. [x EXCEPT !.busy = FALSE] \in Surface
      BY <2>1 DEF Surface
    <3>3. Reach(v, t).surf[t] = [x EXCEPT !.busy = FALSE] /\ t \in DOMAIN v.surf
      BY <2>1, <3>1, <3>2, WithFields DEF State
    <3>4. [Reach(v, t).surf[t] EXCEPT !.shadow = Over(Reach(v, t).surf[t].shadow, r, v.surf[t].device)] = y
      BY <2>1, <3>3 DEF Surface
    <3>5. d = With(Reach(v, t), t, y)
      BY <3>4 DEF With
    <3> QED BY <2>1, <2>3, <3>1, <3>2, <3>5, WithTwice
  <2>5. /\ y.device = x.device /\ y.gpuValid = x.gpuValid /\ y.cpuValid = x.cpuValid
        /\ y.live = x.live /\ y.lock = x.lock /\ y.keepShadow = x.keepShadow
        /\ y.dirty = x.dirty /\ y.inUse = x.inUse /\ ~y.busy
        /\ y.shadow = Over(x.shadow, r, x.device)
    BY <2>1 DEF Surface
  <2> HIDE DEF d, y
  <2>6. y.shadow # NoImage /\ y.device # NoImage
    BY <2>1, <2>2, <2>5, NoImageIsNone
  <2>7. Backed(x) /\ (Whole /\ t \notin X => Sound(x, t))
    BY <2>1 DEF Good
  <2>8. Backed(y) /\ ImageOf(y) = ImageOf(x) /\ (Whole /\ t \notin X => Sound(y, t))
    BY <2>5, <2>6, <2>7 DEF Backed, Held, ImageOf, Sound
  <2>9. /\ Good(o.state, X) /\ Moved(v, o.state) /\ (Clean => o.ok)
        /\ o.state.pend = s.pend
        /\ \A u \in Surfaces \ {t} : o.state.surf[u] = s.surf[u]
        /\ ~o.ok => o.state.surf = s.surf /\ o.state.failures > 0
        /\ o.ok => o.state.surf[t] = y
    <3>1. o \in Call(v, d)
      BY <1>4 DEF d
    <3>2. HasSurface(v, t)
      BY <2>1 DEF HasSurface
    <3>3. /\ y.live = v.surf[t].live /\ y.lock = v.surf[t].lock
          /\ y.keepShadow = v.surf[t].keepShadow /\ y.cpuValid = v.surf[t].cpuValid
          /\ y.gpuValid = v.surf[t].gpuValid /\ y.inUse = v.surf[t].inUse /\ t \notin v.pend
          /\ ImageOf(y) = ImageOf(v.surf[t])
      BY <2>1, <2>5, <2>8
    <3>4. /\ Good(o.state, X) /\ Moved(v, o.state) /\ (Clean => o.ok)
          /\ o.state.pend = v.pend
          /\ \A u \in Surfaces \ {t} : o.state.surf[u] = v.surf[u]
          /\ ~o.ok => o.state.surf = v.surf /\ o.state.failures > 0
          /\ o.ok => o.state.surf[t] = y
      BY <2>1, <2>3, <2>4, <2>5, <2>6, <2>8, <3>1, <3>2, <3>3, TransferKeeps
    <3> QED BY <2>1, <3>4
  <2> QED BY <2>1, <2>9, MovedTwice DEF Good
<1>5. y = Filled(x, r)
  BY DEF Filled
<1> HIDE DEF y
<1> QED BY <1>1, <1>3, <1>4, <1>5

-----------------------------------------------------------------------------
(***************************************************************************)
(* Reading surfaces back.                                                  *)
(***************************************************************************)

\* An outcome with which everybody may go on; errors are counted.
Kept(s, o, X) ==
  Good(o.state, X) /\ Moved(s, o.state) /\ (~o.ok => o.state.failures > 0)

(* Without errors a call succeeds.                                         *)
LEMMA CleanSucceeds ==
  ASSUME NEW X, NEW s, NEW o, Kept(s, o, X)
  PROVE  Clean => o.ok
<1>1. o.state.failures \in 0 .. MaxFailures
  BY DEF Kept, Good, State
<1> QED BY <1>1 DEF Kept, Clean

(* One function after another that moves pixels.                           *)
LEMMA KeptTwice ==
  ASSUME NEW X, NEW s, s \in State, NEW u, u \in State, Moved(s, u), NEW o, Kept(u, o, X)
  PROVE  Kept(s, o, X)
BY MovedTwice DEF Kept, Good

(* Surfaces that are as they should be need no exemption.                  *)
LEMMA Settled ==
  ASSUME NEW X, NEW s, Good(s, X), X \subseteq Surfaces,
         Whole => \A t \in X : Sound(s.surf[t], t),
         Clean => \A t \in X \cap Textures : s.surf[t].busy \/ t \in s.pend => s.surf[t].inUse
  PROVE  Good(s, {})
<1>1. Whole => \A t \in Surfaces \ {} : Sound(s.surf[t], t)
  BY DEF Good
<1>2. Clean => \A t \in Textures \ {} : s.surf[t].busy \/ t \in s.pend => s.surf[t].inUse
  BY DEF Good
<1> QED BY <1>1, <1>2 DEF Good

(* What is good without exemptions is good with some.                      *)
LEMMA Exempted ==
  ASSUME NEW X, NEW s, Good(s, {})
  PROVE  Good(s, X)
BY DEF Good

(* A shadow is allocated; its pixels are not written yet.                  *)
LEMMA AllocateKeeps ==
  ASSUME NEW X, NEW s, Good(s, X), NEW t \in Surfaces, NEW o \in AllocateShadow(s, t)
  PROVE  /\ Kept(s, o, X) /\ o.state.pend = s.pend
         /\ \A u \in Surfaces \ {t} : o.state.surf[u] = s.surf[u]
         /\ \/ o.state.surf[t] = s.surf[t]
            \/ /\ ~s.surf[t].cpuValid
               /\ o.state.surf[t] = [s.surf[t] EXCEPT !.shadow = Plain(Junk)]
         /\ o.ok => HasShadow(o.state, t)
<1>0. s \in State /\ s.surf[t] \in Surface
  BY DEF Good, State
<1>1. CASE HasShadow(s, t)
  <2>1. o = [state |-> s, ok |-> TRUE]
    BY <1>1 DEF AllocateShadow, Done
  <2> QED BY <1>0, <1>1, <2>1, MovedTwice DEF Kept
<1>2. CASE ~HasShadow(s, t)
  <2> DEFINE x == s.surf[t]
             y == [x EXCEPT !.shadow = Plain(Junk)]
             d == With(s, t, y)
  <2>1. o \in Call(s, d)
    BY <1>2 DEF AllocateShadow, With
  <2>2. Plain(Junk) \in Image
    BY DEF Plain, Image, Pixels
  <2>3. y \in Surface /\ y.shadow = Plain(Junk) /\ y.shadow # NoImage
    BY <1>0, <2>2, NoImageIsNone DEF Surface
  <2>4. /\ y.device = x.device /\ y.gpuValid = x.gpuValid /\ y.cpuValid = x.cpuValid
        /\ y.live = x.live /\ y.lock = x.lock /\ y.keepShadow = x.keepShadow
        /\ y.dirty = x.dirty /\ y.inUse = x.inUse /\ y.busy = x.busy
    BY <1>0 DEF Surface
  <2> HIDE DEF y
  <2>5. Backed(x) /\ ~x.cpuValid /\ (Whole /\ t \notin X => Sound(x, t))
    BY <1>2 DEF Good, Backed, HasShadow
  <2>6. Backed(y) /\ ImageOf(y) = ImageOf(x) /\ (Whole /\ t \notin X => Sound(y, t))
    BY <2>3, <2>4, <2>5 DEF Backed, Held, ImageOf, Sound
  <2>7. /\ x.lock # {} => x.cpuValid
        /\ Clean /\ t \in Textures \ X => (x.busy \/ t \in s.pend => x.inUse)
    BY DEF Good
  <2>8. Good(d, X) /\ Moved(s, d)
    BY <2>3, <2>4, <2>5, <2>6, <2>7, WithKeeps DEF HasSurface, Held
  <2>9. /\ d.surf[t] = y /\ \A u \in Surfaces \ {t} : d.surf[u] = s.surf[u]
        /\ d.pend = s.pend
    BY <1>0, <2>3, WithFields
  <2> HIDE DEF d
  <2>10. /\ o.ok => o.state = d
         /\ ~o.ok => /\ Good(o.state, X) /\ Moved(s, o.state)
                     /\ o.state.surf = s.surf /\ o.state.pend = s.pend /\ o.state.failures > 0
    BY <2>1, CallKeeps
  <2>11. CASE o.ok
    BY <2>3, <2>5, <2>8, <2>9, <2>10, <2>11 DEF Kept, HasShadow, y
  <2>12. CASE ~o.ok
    BY <2>10, <2>12 DEF Kept
  <2> QED BY <2>11, <2>12
<1> QED BY <1>1, <1>2

\* What a read-back of t leaves for its caller.
ReadBack(s, d, t) ==
  /\ d.surf[t].cpuValid /\ d.pend = {}
  /\ d.surf[t].gpuValid = s.surf[t].gpuValid /\ d.surf[t].device = s.surf[t].device
  /\ d.surf[t].dirty = s.surf[t].dirty

(* A valid shadow is obtained, and no pending batch is left.               *)
LEMMA EnsureCPUKeeps ==
  ASSUME NEW s, Good(s, {}), NEW t \in Surfaces, Held(s.surf[t]), NEW o \in EnsureCPU(s, t)
  PROVE  /\ Kept(s, o, {})
         /\ \A u \in Surfaces \ {t} : Alike(s.surf[u], o.state.surf[u])
         /\ o.ok => ReadBack(s, o.state, t)
<1> DEFINE Rest(u) ==
      IF u.surf[t].cpuValid /\ HasShadow(u, t) THEN Done(u)
      ELSE Then(AllocateShadow([u EXCEPT !.surf[t].cpuValid = FALSE], t), LAMBDA v :
        IF ~v.surf[t].gpuValid
        THEN Done([v EXCEPT !.surf[t].shadow = Plain(Blank), !.surf[t].cpuValid = TRUE])
        ELSE IF ~HasSurface(v, t) THEN Failed(v)
        ELSE Then(SurfaceRead(v, t, Cells), LAMBDA w :
          Done(TouchSurface([w EXCEPT !.surf[t].cpuValid = TRUE,
                                      !.surf[t].inUse = FALSE], t))))
<1>1. PICK f \in FlushQueued(s) : (~f.ok /\ o = f) \/ (f.ok /\ o \in Rest(f.state))
  BY DEF EnsureCPU, Then
<1>2. /\ Kept(s, f, {}) /\ (f.ok => f.state.pend = {})
      /\ \A u \in Surfaces : Alike(s.surf[u], f.state.surf[u])
  BY FlushKeeps DEF Kept
<1>3. CASE ~f.ok /\ o = f
  BY <1>2, <1>3
<1>4. ASSUME NEW u, u = f.state, f.ok, o \in Rest(u)
      PROVE  /\ Kept(u, o, {})
             /\ \A q \in Surfaces \ {t} : Alike(u.surf[q], o.state.surf[q])
             /\ o.ok => ReadBack(u, o.state, t)
  <2> DEFINE x == u.surf[t]
  <2>1. /\ Good(u, {}) /\ u \in State /\ x \in Surface /\ u.pend = {} /\ Backed(x) /\ Held(x)
        /\ u.surf \in [Surfaces -> Surface]
    BY <1>2, <1>4 DEF Good, State, Kept, Alike, Held
  <2>2. CASE x.cpuValid
    <3>1. o = [state |-> u, ok |-> TRUE]
      BY <1>4, <2>1, <2>2 DEF Backed, HasShadow, Done
    <3> QED BY <2>1, <2>2, <3>1, MovedTwice DEF Kept, ReadBack, Alike
  <2>3. CASE ~x.cpuValid
    <3>1. [u EXCEPT !.surf[t].cpuValid = FALSE] = u
      <4>1. x.cpuValid = FALSE
        BY <2>1, <2>3 DEF Surface
      <4>2. [x EXCEPT !.cpuValid = FALSE] = x
        BY <2>1, <4>1 DEF Surface
      <4>3. [u.surf EXCEPT ![t] = x] = u.surf
        BY <2>1
      <4>4. [u EXCEPT !.surf = u.surf] = u
        BY <2>1 DEF State
      <4> QED BY <4>2, <4>3, <4>4
    <3> DEFINE Read(v) == Then(SurfaceRead(v, t, Cells), LAMBDA w :
                 Done(TouchSurface([w EXCEPT !.surf[t].cpuValid = TRUE,
                                             !.surf[t].inUse = FALSE], t)))
    <3>2. x.gpuValid /\ x.device # NoImage
      BY <2>1, <2>3 DEF Held, Backed
    <3>3. PICK a \in AllocateShadow(u, t) :
            \/ ~a.ok /\ o = a
            \/ a.ok /\ o \in (IF ~a.state.surf[t].gpuValid
                 THEN Done([a.state EXCEPT !.surf[t].shadow = Plain(Blank), !.surf[t].cpuValid = TRUE])
                 ELSE IF ~HasSurface(a.state, t) THEN Failed(a.state) ELSE Read(a.state))
      <4> DEFINE u2 == [u EXCEPT !.surf[t].cpuValid = FALSE]
      <4>1. o \in Then(AllocateShadow(u2, t), LAMBDA v :
                 IF ~v.surf[t].gpuValid
                 THEN Done([v EXCEPT !.surf[t].shadow = Plain(Blank), !.surf[t].cpuValid = TRUE])
                 ELSE IF ~HasSurface(v, t) THEN Failed(v) ELSE Read(v))
        BY <1>4, <2>3
      <4>2. u2 = u
        BY <3>1
      <4> HIDE DEF u2, Read
      <4> QED BY <4>1, <4>2 DEF Then
    <3>4. /\ Kept(u, a, {}) /\ a.state.pend = {}
          /\ \A q \in Surfaces \ {t} : a.state.surf[q] = u.surf[q]
          /\ \/ a.state.surf[t] = x
             \/ a.state.surf[t] = [x EXCEPT !.shadow = Plain(Junk)]
          /\ a.ok => HasShadow(a.state, t)
      BY <2>1, AllocateKeeps
    <3>5. CASE ~a.ok
      BY <3>3, <3>4, <3>5 DEF Alike
    <3>6. ASSUME NEW v, v = a.state, a.ok, o \in Read(v)
          PROVE  /\ Kept(v, o, {})
                 /\ \A q \in Surfaces \ {t} : Alike(v.surf[q], o.state.surf[q])
                 /\ o.ok => ReadBack(u, o.state, t)
      <4> DEFINE z == v.surf[t]
      <4>1. /\ Good(v, {}) /\ v \in State /\ z \in Surface /\ v.pend = {}
        BY <3>4, <3>6 DEF Good, State, Kept
      <4>2. /\ z.device = x.device /\ z.gpuValid = x.gpuValid /\ z.cpuValid = x.cpuValid
            /\ z.live = x.live /\ z.lock = x.lock /\ z.keepShadow = x.keepShadow
            /\ z.dirty = x.dirty /\ z.inUse = x.inUse /\ HasShadow(v, t) /\ HasSurface(v, t)
        <5>1. z = x \/ z = [x EXCEPT !.shadow = Plain(Junk)]
          BY <3>4, <3>6
        <5>2. /\ z.device = x.device /\ z.gpuValid = x.gpuValid /\ z.cpuValid = x.cpuValid
              /\ z.live = x.live /\ z.lock = x.lock /\ z.keepShadow = x.keepShadow
              /\ z.dirty = x.dirty /\ z.inUse = x.inUse
          BY <2>1, <5>1 DEF Surface
        <5>3. HasShadow(v, t)
          BY <3>4, <3>6
        <5> HIDE DEF z
        <5> QED BY <3>2, <5>2, <5>3 DEF HasSurface, z
      <4>3. PICK b \in SurfaceRead(v, t, Cells) :
              \/ ~b.ok /\ o = b
              \/ b.ok /\ o = [state |-> TouchSurface([b.state EXCEPT !.surf[t].cpuValid = TRUE,
                                                               !.surf[t].inUse = FALSE], t),
                              ok |-> TRUE]
        BY <3>6 DEF Then, Done
      <4>4. /\ Kept(v, b, {}) /\ b.state.pend = {}
            /\ \A q \in Surfaces \ {t} : b.state.surf[q] = v.surf[q]
            /\ b.ok => b.state.surf[t] = Filled(z, Cells)
        <5>1. /\ t \notin v.pend /\ v.surf[t].gpuValid /\ ~v.surf[t].cpuValid
              /\ Good(v, {}) /\ HasShadow(v, t) /\ HasSurface(v, t)
          BY <2>3, <3>2, <4>1, <4>2
        <5>2. /\ Good(b.state, {}) /\ Moved(v, b.state) /\ (~b.ok => b.state.failures > 0)
              /\ b.state.pend = v.pend
              /\ \A q \in Surfaces \ {t} : b.state.surf[q] = v.surf[q]
              /\ b.ok => b.state.surf[t] = Filled(z, Cells)
          BY <5>1, ReadKeeps
        <5> QED BY <4>1, <5>2 DEF Kept
      <4>5. CASE ~b.ok
        BY <4>3, <4>4, <4>5 DEF Alike
      <4>6. ASSUME NEW w, w = b.state, b.ok
            PROVE  LET d == [w EXCEPT !.surf[t].cpuValid = TRUE, !.surf[t].inUse = FALSE]
                   IN  /\ Good(d, {}) /\ Moved(w, d) /\ d.pend = {}
                       /\ \A q \in Surfaces \ {t} : d.surf[q] = v.surf[q]
                       /\ ReadBack(u, d, t)
        <5> DEFINE e == w.surf[t]
                   y == [e EXCEPT !.cpuValid = TRUE, !.inUse = FALSE]
                   d == [w EXCEPT !.surf[t].cpuValid = TRUE, !.surf[t].inUse = FALSE]
        <5>1. /\ Good(w, {}) /\ w \in State /\ e \in Surface /\ w.pend = {}
              /\ w.surf \in [Surfaces -> Surface]
          BY <4>4, <4>6 DEF Good, State, Kept
        <5>2. Over(z.shadow, Cells, z.device) = z.device
          BY <4>1, <4>2, OverImage DEF Surface, HasShadow, HasSurface
        <5>3. e = [z EXCEPT !.busy = FALSE, !.shadow = z.device]
          BY <4>4, <4>6, <5>2 DEF Filled
        <5>4. /\ e.device = x.device /\ e.gpuValid = x.gpuValid /\ ~e.cpuValid
              /\ e.lock = x.lock /\ e.dirty = x.dirty /\ ~e.busy /\ e.shadow = e.device
          BY <2>3, <4>1, <4>2, <5>3 DEF Surface
        <5>5. /\ y \in Surface /\ y.cpuValid /\ ~y.inUse
              /\ y.live = e.live /\ y.shadow = e.shadow /\ y.device = e.device
              /\ y.gpuValid = e.gpuValid /\ y.keepShadow = e.keepShadow
              /\ y.lock = e.lock /\ y.dirty = e.dirty /\ y.busy = e.busy
          BY <5>1 DEF Surface
        <5>6. d = With(w, t, y)
          <6>1. d = [[w EXCEPT !.surf[t].cpuValid = TRUE] EXCEPT !.surf[t].inUse = FALSE]
            OBVIOUS
          <6>2. [e EXCEPT !.cpuValid = TRUE] \in Surface
            BY <5>1 DEF Surface
          <6>3. [w EXCEPT !.surf[t].cpuValid = TRUE] = With(w, t, [e EXCEPT !.cpuValid = TRUE])
            BY DEF With
          <6>4. d = With(With(w, t, [e EXCEPT !.cpuValid = TRUE]), t, y)
            <7>1. With(w, t, [e EXCEPT !.cpuValid = TRUE]).surf[t] = [e EXCEPT !.cpuValid = TRUE]
              BY <5>1, <6>2, WithFields
            <7> QED BY <6>1, <6>3, <7>1 DEF With
          <6> QED BY <5>1, <5>5, <6>2, <6>4, WithTwice
        <5> HIDE DEF y, d
        <5>7. Backed(e) /\ (Whole => Sound(e, t))
          BY <5>1 DEF Good
        <5>8. Backed(y) /\ ImageOf(y) = ImageOf(e) /\ (Whole => Sound(y, t)) /\ Held(y)
          BY <3>2, <5>4, <5>5, <5>7 DEF Backed, Held, ImageOf, Sound
        <5>9. y.device # NoImage /\ y.shadow # NoImage /\ HasSurface(w, t)
          BY <3>2, <5>4, <5>5 DEF HasSurface
        <5>10. ~y.busy /\ t \notin w.pend
          BY <5>1, <5>4, <5>5
        <5>11. Good(d, {}) /\ Moved(w, d)
          BY <5>1, <5>5, <5>6, <5>8, <5>9, <5>10, WithKeeps
        <5>12. d.pend = {} /\ d.surf[t] = y /\ \A q \in Surfaces \ {t} : d.surf[q] = w.surf[q]
          <6>1. w \in State /\ y \in Surface /\ w.pend = {}
            BY <5>1, <5>5
          <6> QED BY <5>6, <6>1, WithFields
        <5>13. ReadBack(u, d, t)
          BY <5>4, <5>5, <5>12 DEF ReadBack
        <5> QED BY <4>4, <4>6, <5>11, <5>12, <5>13 DEF d
      <4>7. CASE b.ok
        <5> DEFINE d == [b.state EXCEPT !.surf[t].cpuValid = TRUE, !.surf[t].inUse = FALSE]
                   e == TouchSurface(d, t)
        <5>1. o.state = e /\ o.ok
          BY <4>3, <4>7
        <5>2. /\ Good(d, {}) /\ Moved(b.state, d) /\ d.pend = {}
              /\ \A q \in Surfaces \ {t} : d.surf[q] = v.surf[q]
              /\ ReadBack(u, d, t)
          BY <4>6, <4>7
        <5> HIDE DEF d
        <5>3. /\ Good(e, {}) /\ Moved(d, e) /\ e.pend = d.pend
              /\ \A q \in Surfaces : Alike(d.surf[q], e.surf[q])
          BY <5>2, TouchKeeps
        <5> HIDE DEF e
        <5>4. ReadBack(u, e, t)
          BY <5>2, <5>3 DEF ReadBack, Alike
        <5>5. Moved(v, e)
          BY <4>1, <4>4, <5>2, <5>3, MovedTwice DEF Kept, Good
        <5> QED BY <5>1, <5>2, <5>3, <5>4, <5>5 DEF Kept
      <4> QED BY <4>3, <4>5, <4>7
    <3>7. CASE a.ok
      <4>1. a.state.surf[t].gpuValid /\ HasSurface(a.state, t)
        BY <2>1, <3>2, <3>4 DEF Surface, HasSurface
      <4>2. o \in Read(a.state)
        BY <3>3, <3>7, <4>1
      <4>3. /\ Kept(a.state, o, {})
            /\ \A q \in Surfaces \ {t} : Alike(a.state.surf[q], o.state.surf[q])
            /\ o.ok => ReadBack(u, o.state, t)
        BY <3>6, <3>7, <4>2
      <4>4. Kept(u, o, {})
        <5>1. a.state \in State /\ Moved(u, a.state)
          BY <3>4 DEF Kept, Good
        <5> QED BY <2>1, <4>3, <5>1, KeptTwice
      <4> QED BY <3>4, <4>3, <4>4
    <3> QED BY <3>5, <3>7
  <2> QED BY <2>2, <2>3
<1>5. CASE f.ok /\ o \in Rest(f.state)
  <2>1. /\ Kept(f.state, o, {})
        /\ \A q \in Surfaces \ {t} : Alike(f.state.surf[q], o.state.surf[q])
        /\ o.ok => ReadBack(f.state, o.state, t)
    BY <1>4, <1>5
  <2>2. Kept(s, o, {})
    BY <1>2, <2>1, KeptTwice DEF Kept, Good
  <2>3. o.ok => ReadBack(s, o.state, t)
    BY <1>2, <2>1 DEF ReadBack, Alike
  <2>4. \A q \in Surfaces \ {t} : Alike(s.surf[q], o.state.surf[q])
    BY <1>2, <2>1 DEF Alike
  <2> QED BY <2>2, <2>3, <2>4
<1> QED BY <1>1, <1>3, <1>5

-----------------------------------------------------------------------------
(***************************************************************************)
(* Sending pixels to surfaces.                                             *)
(***************************************************************************)

\* A surface with the rectangle r of its shadow sent to the core.
Sent(x, r) == [x EXCEPT !.busy = FALSE, !.device = Over(x.device, r, x.shadow)]

(* An upload changes the core's copy only; what SDL sees only when that is *)
(* the copy it counts on.                                                  *)
LEMMA UpdateKeeps ==
  ASSUME NEW X, NEW s, Good(s, X), NEW t \in Surfaces, NEW r, NEW o \in SurfaceUpdate(s, t, r),
         t \in X, t \notin s.pend, HasSurface(s, t), HasShadow(s, t)
  PROVE  /\ Good(o.state, X) /\ (~o.ok => o.state.failures > 0)
         /\ o.state.target = s.target /\ o.state.pend = s.pend
         /\ o.state.failures >= s.failures
         /\ \A u \in Surfaces \ {t} : o.state.surf[u] = s.surf[u]
         /\ ~o.ok => o.state.surf = s.surf
         /\ o.ok => o.state.surf[t] = Sent(s.surf[t], r)
         /\ ~s.surf[t].gpuValid => Moved(s, o.state)
<1> DEFINE x == s.surf[t]
           y == Sent(x, r)
<1>1. PICK b \in BackBuffer(s, t) :
         \/ ~b.ok /\ o = b
         \/ b.ok /\ o \in Call(b.state, [Reach(b.state, t) EXCEPT
                                    !.surf[t].device = Over(@, r, b.state.surf[t].shadow)])
  BY DEF SurfaceUpdate, Then
<1>2. /\ Good(b.state, X) /\ Moved(s, b.state)
      /\ b.state.surf = s.surf /\ b.state.pend = s.pend /\ (~b.ok => b.state.failures > 0)
  BY BackBufferKeeps
<1>3. CASE ~b.ok /\ o = b
  BY <1>2, <1>3 DEF Moved
<1>4. ASSUME NEW v, v = b.state,
             o \in Call(v, [Reach(v, t) EXCEPT !.surf[t].device = Over(@, r, v.surf[t].shadow)])
      PROVE  /\ Good(o.state, X) /\ (~o.ok => o.state.failures > 0)
             /\ o.state.target = s.target /\ o.state.pend = s.pend
             /\ o.state.failures >= s.failures
             /\ \A u \in Surfaces \ {t} : o.state.surf[u] = s.surf[u]
             /\ ~o.ok => o.state.surf = s.surf
             /\ o.ok => o.state.surf[t] = y
             /\ ~x.gpuValid => Moved(s, o.state)
  <2> DEFINE d == [Reach(v, t) EXCEPT !.surf[t].device = Over(@, r, v.surf[t].shadow)]
             q == [x EXCEPT !.busy = FALSE]
  <2>1. /\ v \in State /\ s \in State /\ x \in Surface /\ v.surf = s.surf /\ v.pend = s.pend
        /\ x.shadow \in Image /\ x.device \in Image /\ Good(v, X) /\ Moved(s, v)
        /\ v.target = s.target /\ v.failures >= s.failures
    BY <1>2, <1>4 DEF Good, State, Surface, HasShadow, HasSurface, Moved
  <2>2. Over(x.device, r, x.shadow) \in Image
    BY <2>1, OverImage
  <2>3. y \in Surface /\ q \in Surface
    BY <2>1, <2>2 DEF Surface, Sent
  <2>4. d = With(v, t, y)
    <3>1. Reach(v, t) = With(v, t, q)
      BY <2>1, ReachIs
    <3>3. Reach(v, t).surf[t] = q
      BY <2>1, <2>3, <3>1, WithFields
    <3>4. [q EXCEPT !.device = Over(q.device, r, v.surf[t].shadow)] = y
      BY <2>1 DEF Surface, Sent
    <3> HIDE DEF q, y
    <3>5. d = With(Reach(v, t), t, y)
      BY <3>3, <3>4 DEF With
    <3> QED BY <2>1, <2>3, <3>1, <3>5, WithTwice
  <2>5. /\ y.shadow = x.shadow /\ y.gpuValid = x.gpuValid /\ y.cpuValid = x.cpuValid
        /\ y.live = x.live /\ y.lock = x.lock /\ y.keepShadow = x.keepShadow
        /\ y.dirty = x.dirty /\ y.inUse = x.inUse /\ ~y.busy
        /\ y.device = Over(x.device, r, x.shadow)
    BY <2>1 DEF Surface, Sent
  <2> HIDE DEF d, y, q
  <2>6. y.shadow # NoImage /\ y.device # NoImage
    BY <2>1, <2>2, <2>5, NoImageIsNone
  <2>7. Backed(x) /\ (x.lock # {} => t \in Streaming /\ x.cpuValid /\ t \notin v.pend)
        /\ (t = Composition => x.live) /\ (t = v.target => Held(x))
        /\ (MaxFailures <= 1 => ~v.raced)
    BY <2>1 DEF Good
  <2>8. Backed(y) /\ (~x.gpuValid => ImageOf(y) = ImageOf(x)) /\ (Held(y) <=> Held(x))
    BY <2>1, <2>5, <2>6, <2>7 DEF Backed, Held, ImageOf, HasSurface
  <2>9. /\ d \in State /\ d.surf[t] = y /\ \A u \in Surfaces \ {t} : d.surf[u] = v.surf[u]
        /\ d.target = v.target /\ d.pend = v.pend
        /\ d.residentBytes = v.residentBytes /\ d.raced = v.raced /\ d.failures >= v.failures
    <3>1. v \in State /\ y \in Surface
      BY <2>1, <2>3
    <3> QED BY <3>1, <2>4, WithFields
  <2>10. \A u \in Surfaces \ {t} : Alike(v.surf[u], d.surf[u]) /\ (d.surf[u].busy => v.surf[u].busy)
    BY <2>9 DEF Alike
  <2>11. Good(d, X)
    <3>1. v.surf[t].device # NoImage
      BY <2>1 DEF HasSurface
    <3>2. y.lock # {} => t \in Streaming /\ y.cpuValid /\ t \notin v.pend
      BY <2>5, <2>7
    <3>3. (t = Composition => y.live) /\ (t = v.target => Held(y)) /\ X \subseteq X \cup {t}
      BY <2>5, <2>7, <2>8
    <3> QED BY <2>1, <2>5, <2>6, <2>7, <2>8, <2>9, <2>10, <3>1, <3>2, <3>3, OneGood
  <2>12. ~x.gpuValid => Moved(v, d)
    BY <2>1, <2>5, <2>8, <2>9, <2>10, OneMoved
  <2>13. ~x.gpuValid => Moved(s, d)
    BY <2>1, <2>9, <2>12, MovedTwice
  <2>14. /\ o.ok => o.state = d
         /\ ~o.ok => /\ Good(o.state, X) /\ Moved(v, o.state)
                     /\ o.state.surf = v.surf /\ o.state.pend = v.pend /\ o.state.failures > 0
    <3>1. o \in Call(v, d)
      BY <1>4 DEF d
    <3> QED BY <2>1, <3>1, CallKeeps
  <2>15. CASE o.ok
    <3>1. d.failures >= s.failures
      BY <2>1, <2>9, CountsInt
    <3> QED BY <2>1, <2>9, <2>11, <2>13, <2>14, <2>15, <3>1
  <2>16. CASE ~o.ok
    <3>1. o.state \in State /\ Moved(s, o.state)
      BY <2>1, <2>14, <2>16, MovedTwice DEF Good
    <3> QED BY <2>1, <2>14, <2>16, <3>1 DEF Moved
  <2> QED BY <2>15, <2>16
<1> HIDE DEF y
<1>5. y = Sent(s.surf[t], r)
  BY DEF y
<1> QED BY <1>1, <1>3, <1>4, <1>5

(* A shadow is released while the surface holds the same.                  *)
LEMMA DropKeeps ==
  ASSUME NEW X, NEW s, Good(s, X), NEW t \in Surfaces
  PROVE  /\ Good(DropRedundantShadow(s, t), X) /\ Moved(s, DropRedundantShadow(s, t))
         /\ DropRedundantShadow(s, t).pend = s.pend
         /\ DropRedundantShadow(s, t).failures = s.failures
         /\ \A u \in Surfaces \ {t} : DropRedundantShadow(s, t).surf[u] = s.surf[u]
         /\ DropRedundantShadow(s, t).surf[t].gpuValid = s.surf[t].gpuValid
         /\ DropRedundantShadow(s, t).surf[t].device = s.surf[t].device
<1> DEFINE x == s.surf[t]
           drops == /\ t # Composition /\ ~x.keepShadow
                    /\ t # s.target /\ x.lock = {}
                    /\ HasSurface(s, t) /\ x.gpuValid
<1>0. s \in State /\ x \in Surface
  BY DEF Good, State
<1>1. CASE ~drops
  <2>1. DropRedundantShadow(s, t) = s
    BY <1>1 DEF DropRedundantShadow
  <2> QED BY <1>0, <2>1, MovedTwice
<1>2. CASE drops
  <2> DEFINE y == [x EXCEPT !.shadow = NoImage, !.cpuValid = FALSE]
             d == With(s, t, y)
  <2>1. /\ y \in Surface
        /\ y.device = x.device /\ y.gpuValid /\ ~y.cpuValid /\ y.gpuValid = x.gpuValid
        /\ y.live = x.live /\ y.lock = x.lock /\ y.keepShadow = x.keepShadow
        /\ y.dirty = x.dirty /\ y.inUse = x.inUse /\ y.busy = x.busy
    BY <1>0, <1>2 DEF Surface
  <2>2. DropRedundantShadow(s, t) = d
    <3>1. DropRedundantShadow(s, t)
            = [s EXCEPT !.surf[t].shadow = NoImage, !.surf[t].cpuValid = FALSE]
      BY <1>2 DEF DropRedundantShadow
    <3>2. [x EXCEPT !.shadow = NoImage] \in Surface
      BY <1>0 DEF Surface
    <3>3. [s EXCEPT !.surf[t].shadow = NoImage] = With(s, t, [x EXCEPT !.shadow = NoImage])
      BY DEF With
    <3>4. With(s, t, [x EXCEPT !.shadow = NoImage]).surf[t] = [x EXCEPT !.shadow = NoImage]
      BY <1>0, <3>2, WithFields
    <3>5. DropRedundantShadow(s, t) = With(With(s, t, [x EXCEPT !.shadow = NoImage]), t, y)
      BY <3>1, <3>3, <3>4 DEF With
    <3> QED BY <1>0, <2>1, <3>2, <3>5, WithTwice
  <2> HIDE DEF y
  <2>3. Backed(x) /\ x.device # NoImage /\ (Whole /\ t \notin X => Sound(x, t))
        /\ (Clean /\ t \in Textures \ X => (x.busy \/ t \in s.pend => x.inUse))
    BY <1>2 DEF Good, HasSurface
  <2>4. Backed(y) /\ Held(y) /\ ImageOf(y) = ImageOf(x) /\ (Whole /\ t \notin X => Sound(y, t))
    BY <1>2, <2>1, <2>3 DEF Backed, Held, ImageOf, Sound
  <2>5. Good(d, X) /\ Moved(s, d)
    <3>1. X \subseteq X \cup {t} /\ t # Composition /\ y.lock = {}
      BY <1>2, <2>1
    <3> QED BY <2>1, <2>3, <2>4, <3>1, WithKeeps DEF HasSurface
  <2>6. /\ d.surf[t] = y /\ \A u \in Surfaces \ {t} : d.surf[u] = s.surf[u]
        /\ d.pend = s.pend /\ d.failures = s.failures
    BY <1>0, <2>1, WithFields
  <2> HIDE DEF d
  <2> QED BY <2>1, <2>2, <2>5, <2>6
<1> QED BY <1>1, <1>2

-----------------------------------------------------------------------------
(***************************************************************************)
(* Drawing into shadows, and sending what was drawn.                       *)
(***************************************************************************)

\* What may be drawn in a rectangle.
Paint(from, r) ==
  /\ \A c \in r : from[c] \in Pixels
  /\ Whole => \A c \in r : from[c] \in Values

(* Drawing over an image gives an image, of SDL's own pixels only if every *)
(* pixel left of the old one is.                                           *)
LEMMA Overlay ==
  ASSUME NEW a \in Image, NEW r \in SUBSET Cells, NEW from, Paint(from, r)
  PROVE  /\ Over(a, r, from) \in Image
         /\ \A c \in Cells \ r : Over(a, r, from)[c] = a[c]
         /\ Whole /\ (a \in Images \/ r = Cells) => Over(a, r, from) \in Images
<1>1. \A c \in Cells : a[c] \in Pixels
  BY DEF Image
<1>2. \A c \in Cells : Over(a, r, from)[c] = IF c \in r THEN from[c] ELSE a[c]
  BY DEF Over
<1>3. DOMAIN Over(a, r, from) = Cells /\ Over(a, r, from) = [c \in Cells |-> Over(a, r, from)[c]]
  BY DEF Over
<1>4. \A c \in Cells : Over(a, r, from)[c] \in Pixels
  BY <1>1, <1>2 DEF Paint
<1>5. ASSUME Whole, a \in Images \/ r = Cells PROVE \A c \in Cells : Over(a, r, from)[c] \in Values
  <2>1. \A c \in Cells \ r : a[c] \in Values
    BY <1>5 DEF Images
  <2> QED BY <1>2, <1>5, <2>1 DEF Paint
<1>6. Over(a, r, from) \in Image
  BY <1>3, <1>4 DEF Image
<1>7. Whole /\ (a \in Images \/ r = Cells) => Over(a, r, from) \in Images
  BY <1>3, <1>5 DEF Images
<1> QED BY <1>2, <1>6, <1>7

(* What SDL draws, and the copies of its surfaces, are paint.              *)
LEMMA Paints ==
  /\ \A r \in Rects : \A from \in Drawings(r) : Paint(from, r)
  /\ \A i \in Image, r \in SUBSET Cells : (Whole => i \in Images) => Paint(i, r)
BY DEF Paint, Drawings, Image, Images, Pixels

(* SDL_UnionRect is a closure.                                             *)
LEMMA HullCloses ==
  ASSUME NEW r \in SUBSET Cells
  PROVE  /\ r \subseteq Hull(r) /\ Hull(r) \subseteq Cells
         /\ Hull(Hull(r)) = Hull(r) /\ Hull(Cells) = Cells
<1>1. Cells \subseteq Int
  BY PixelsAssumption
<1>2. \A q \in SUBSET Cells : q \subseteq Hull(q) /\ Hull(q) \subseteq Cells
  BY <1>1 DEF Hull
<1>3. ASSUME NEW c \in Hull(Hull(r)) PROVE c \in Hull(r)
  <2>1. PICK a \in Hull(r), b \in Hull(r) : a <= c /\ c <= b
    BY <1>3 DEF Hull
  <2>2. PICK a2 \in r : a2 <= a
    BY <2>1 DEF Hull
  <2>3. PICK b2 \in r : b <= b2
    BY <2>1 DEF Hull
  <2>4. a2 \in Int /\ a \in Int /\ b \in Int /\ b2 \in Int /\ c \in Int /\ c \in Cells
    BY <1>1, <1>2, <1>3 DEF Hull
  <2>5. a2 <= c /\ c <= b2
    BY <2>1, <2>2, <2>3, <2>4
  <2> QED BY <2>4, <2>5 DEF Hull
<1> QED BY <1>2, <1>3

(* Drawing into a valid shadow.                                            *)
LEMMA DrawKeeps ==
  ASSUME NEW s, Good(s, {}), NEW t \in Surfaces, s.surf[t].cpuValid,
         NEW r \in Rects, NEW from, Paint(from, r),
         NEW D \in SUBSET Cells, r \subseteq D, s.surf[t].dirty \subseteq D, Hull(D) = D,
         NEW d, d = With(s, t, Drawn(s.surf[t], r, from, D))
  PROVE  /\ Good(d, {}) /\ d.target = s.target /\ d.pend = s.pend /\ d.failures = s.failures
         /\ d.surf[t] = Drawn(s.surf[t], r, from, D)
         /\ \A u \in Surfaces \ {t} : d.surf[u] = s.surf[u]
<1> DEFINE x == s.surf[t]
           y == Drawn(x, r, from, D)
<1>1. /\ s \in State /\ x \in Surface /\ Backed(x) /\ (Whole => Sound(x, t))
      /\ r \in SUBSET Cells /\ r # {} /\ (Rects = {Cells} => D = Cells)
  <2>1. s \in State /\ x \in Surface
    BY DEF Good, State
  <2>2. Backed(x) /\ (Whole => Sound(x, t))
    BY DEF Good
  <2>3. r \in SUBSET Cells /\ r # {} /\ (Rects = {Cells} => D = Cells)
    BY PixelsAssumption
  <2> QED BY <2>1, <2>2, <2>3
<1>2. x.shadow \in Image /\ (Whole => x.shadow \in Images)
  BY <1>1 DEF Backed, Sound, Surface
<1>3. /\ Over(x.shadow, r, from) \in Image
      /\ \A c \in Cells \ r : Over(x.shadow, r, from)[c] = x.shadow[c]
      /\ Whole => Over(x.shadow, r, from) \in Images
  <2>1. x.shadow \in Image /\ r \in SUBSET Cells
    BY <1>1, <1>2
  <2>2. /\ Over(x.shadow, r, from) \in Image
        /\ \A c \in Cells \ r : Over(x.shadow, r, from)[c] = x.shadow[c]
        /\ Whole /\ (x.shadow \in Images \/ r = Cells) => Over(x.shadow, r, from) \in Images
    BY <2>1, Overlay
  <2> QED BY <1>2, <2>2
<1>4. /\ y \in Surface /\ y.shadow = Over(x.shadow, r, from) /\ y.cpuValid /\ ~y.gpuValid
      /\ y.dirty = D
      /\ y.live = x.live /\ y.lock = x.lock /\ y.keepShadow = x.keepShadow
      /\ y.device = x.device /\ y.inUse = x.inUse /\ y.busy = x.busy
  BY <1>1, <1>3 DEF Surface, Drawn
<1> HIDE DEF y
<1>5. Backed(y) /\ Held(y) /\ y.shadow # NoImage
  BY <1>1, <1>3, <1>4, NoImageIsNone DEF Backed, Held
<1>6. Whole => Sound(y, t)
  <2>1. ASSUME Clean, t # Composition, x.device # NoImage
        PROVE  \A c \in Cells \ D : x.device[c] = y.shadow[c]
    <3>1. \A c \in Cells \ D : x.device[c] = x.shadow[c]
      BY <1>1, <2>1 DEF Sound, Whole
    <3> QED BY <1>3, <1>4, <3>1
  <2>2. D # {}
    BY <1>1
  <2> QED BY <1>3, <1>4, <2>1, <2>2 DEF Sound
<1>7. /\ d \in State /\ d.surf[t] = y /\ \A u \in Surfaces \ {t} : d.surf[u] = s.surf[u]
      /\ d.target = s.target /\ d.pend = s.pend
      /\ d.residentBytes = s.residentBytes /\ d.raced = s.raced /\ d.failures = s.failures
  <2>1. s \in State /\ y \in Surface /\ d = With(s, t, y)
    BY <1>1, <1>4 DEF y
  <2> QED BY <2>1, WithFields
<1>8. \A u \in Surfaces \ {t} : Alike(s.surf[u], d.surf[u]) /\ (d.surf[u].busy => s.surf[u].busy)
  BY <1>7 DEF Alike
<1>9. Good(d, {})
  <2>1. /\ d.surf[t].lock # {} => t \in Streaming /\ d.surf[t].cpuValid /\ t \notin s.pend
        /\ t = Composition => d.surf[t].live /\ d.surf[t].shadow # NoImage
        /\ MaxFailures <= 1 => ~d.raced
        /\ d.surf[t].device # NoImage <=> s.surf[t].device # NoImage
        /\ Clean /\ t \in Textures \ {} => (d.surf[t].busy \/ t \in s.pend => d.surf[t].inUse)
    BY <1>4, <1>5, <1>7 DEF Good
  <2>2. Backed(d.surf[t]) /\ Held(d.surf[t]) /\ (Whole /\ t \notin {} => Sound(d.surf[t], t))
    BY <1>5, <1>6, <1>7
  <2>3. {} \subseteq {} \cup {t} /\ d \in State /\ d.target = s.target /\ d.pend = s.pend
        /\ d.residentBytes = s.residentBytes
    BY <1>7
  <2> QED BY <1>8, <2>1, <2>2, <2>3, OneGood
<1> QED BY <1>7, <1>9 DEF y

\* A surface that got every pixel of its shadow.
Renewed(x) == [x EXCEPT !.gpuValid = TRUE, !.inUse = FALSE, !.dirty = {}]

(* The core's copy counts again once it is the same.                       *)
LEMMA UploadedKeeps ==
  ASSUME NEW s, NEW t \in Surfaces, Good(s, {t}), s.surf[t].cpuValid, ~s.surf[t].gpuValid,
         HasSurface(s, t), ~s.surf[t].busy, t \notin s.pend,
         Whole => s.surf[t].shadow \in Images /\ s.surf[t].device = s.surf[t].shadow
  PROVE  /\ Good(Uploaded(s, t), {}) /\ Moved(s, Uploaded(s, t))
         /\ Uploaded(s, t).pend = s.pend
         /\ Uploaded(s, t).surf[t] = Renewed(s.surf[t])
         /\ \A u \in Surfaces \ {t} : Uploaded(s, t).surf[u] = s.surf[u]
<1> DEFINE x == s.surf[t]
           y == Renewed(x)
           d == Uploaded(s, t)
<1>1. /\ s \in State /\ x \in Surface /\ Backed(x) /\ x.shadow # NoImage /\ x.device # NoImage
  BY DEF Good, State, Backed, HasSurface
<1>2. /\ y \in Surface /\ y.gpuValid /\ ~y.inUse /\ y.dirty = {}
      /\ y.live = x.live /\ y.lock = x.lock /\ y.keepShadow = x.keepShadow
      /\ y.shadow = x.shadow /\ y.device = x.device /\ y.busy = x.busy /\ y.cpuValid = x.cpuValid
  BY <1>1 DEF Surface, Renewed
<1>3. d = With(s, t, y)
  BY DEF Uploaded, With, Renewed
<1> HIDE DEF y, d
<1>4. Hull({}) = {} /\ (Clean => Whole)
  BY DEF Hull, Whole
<1>5. Backed(y) /\ Held(y) /\ (Clean => ImageOf(y) = ImageOf(x)) /\ (Whole => Sound(y, t))
  BY <1>1, <1>2, <1>4 DEF Backed, Held, ImageOf, Sound
<1>6. /\ Good(d, {}) /\ Moved(s, d)
  <2>1. {t} \subseteq {} \cup {t} /\ (HasSurface(s, t) <=> y.device # NoImage)
        /\ y.shadow # NoImage /\ (y.lock # {} => y.cpuValid)
    BY <1>1, <1>2 DEF HasSurface
  <2> QED BY <1>2, <1>3, <1>5, <2>1, WithKeeps
<1>7. d.surf[t] = y /\ d.pend = s.pend /\ \A u \in Surfaces \ {t} : d.surf[u] = s.surf[u]
  BY <1>1, <1>2, <1>3, WithFields
<1> QED BY <1>6, <1>7 DEF y, d

\* A state in which something was drawn into the shadow of t.
Redrawn(s, d, t, y) ==
  /\ Good(d, {}) /\ d.target = s.target /\ d.pend = s.pend /\ d.failures = s.failures
  /\ d.surf[t] = y /\ \A u \in Surfaces \ {t} : d.surf[u] = s.surf[u]

(* UpdateTexture and UnlockTexture draw into the shadow.                   *)
LEMMA CPUWriteKeeps ==
  ASSUME NEW s, Good(s, {}), NEW t \in Surfaces, s.surf[t].cpuValid,
         NEW r \in Rects, NEW from, Paint(from, r), NEW d, d = CPUWrite(s, t, r, from)
  PROVE  Redrawn(s, d, t, Drawn(s.surf[t], r, from, Hull(s.surf[t].dirty \cup r)))
<1> DEFINE q == s.surf[t].dirty \cup r
<1>1. s.surf[t] \in Surface /\ r \in SUBSET Cells
  BY PixelsAssumption DEF Good, State
<1>2. s.surf[t].dirty \in SUBSET Cells /\ q \in SUBSET Cells
  BY <1>1 DEF Surface
<1>3. /\ q \subseteq Hull(q) /\ Hull(q) \in SUBSET Cells /\ Hull(Hull(q)) = Hull(q)
  BY <1>2, HullCloses
<1>4. d = With(s, t, Drawn(s.surf[t], r, from, Hull(q)))
  BY DEF CPUWrite, With
<1>5. r \subseteq Hull(q) /\ s.surf[t].dirty \subseteq Hull(q)
  BY <1>3
<1> HIDE DEF q
<1>6. /\ Good(d, {}) /\ d.target = s.target /\ d.pend = s.pend /\ d.failures = s.failures
      /\ d.surf[t] = Drawn(s.surf[t], r, from, Hull(q))
      /\ \A u \in Surfaces \ {t} : d.surf[u] = s.surf[u]
  BY <1>3, <1>4, <1>5, DrawKeeps
<1> QED BY <1>6 DEF q, Redrawn

(* A software copy and the renderer's triangles draw into the shadow.      *)
LEMMA MarkCPUWriteKeeps ==
  ASSUME NEW s, Good(s, {}), NEW t \in Surfaces, s.surf[t].cpuValid,
         NEW r \in Rects, NEW from, Paint(from, r), NEW d, d = MarkCPUWrite(s, t, r, from)
  PROVE  Redrawn(s, d, t, Drawn(s.surf[t], r, from, Cells))
<1> DEFINE x == s.surf[t]
<1>0. Paint(from, r) /\ s.surf[t].cpuValid
  OBVIOUS
<1>1. x \in Surface /\ r \in SUBSET Cells /\ s \in State
  BY PixelsAssumption DEF Good, State
<1>2. x.dirty \in SUBSET Cells /\ Cells \in SUBSET Cells /\ Hull(Cells) = Cells
  BY <1>1, HullCloses DEF Surface
<1>3. d = With(s, t, Drawn(s.surf[t], r, from, Cells))
  BY DEF MarkCPUWrite, With
<1>4. r \subseteq Cells /\ s.surf[t].dirty \subseteq Cells
  BY <1>1, <1>2
<1>5. /\ Good(d, {}) /\ d.target = s.target /\ d.pend = s.pend /\ d.failures = s.failures
       /\ d.surf[t] = Drawn(s.surf[t], r, from, Cells)
       /\ \A u \in Surfaces \ {t} : d.surf[u] = s.surf[u]
  BY <1>0, <1>2, <1>3, <1>4, DrawKeeps
<1> QED BY <1>5 DEF Redrawn

(* A failed upload leaves a surface as it was.                             *)
LEMMA FailedUpload ==
  ASSUME NEW s, NEW t \in Surfaces, Good(s, {}), NEW d, Good(d, {t}), d.surf = s.surf,
         d.failures > 0
  PROVE  Good(d, {})
<1>1. ~Clean
  <2>1. d.failures \in 0 .. MaxFailures
    BY DEF Good, State
  <2> QED BY <2>1 DEF Clean
<1>2. Whole => Sound(s.surf[t], t)
  BY DEF Good
<1>3. {t} \subseteq Surfaces /\ (Whole => \A u \in {t} : Sound(d.surf[u], u))
  BY <1>2
<1> QED BY <1>1, <1>3, Settled

(* The changed rectangle is sent at once.                                  *)
LEMMA UploadNowKeeps ==
  ASSUME NEW s, Good(s, {}), NEW t \in Surfaces, HasSurface(s, t), s.surf[t].cpuValid,
         t \notin s.pend, NEW r, NEW o \in UploadNow(s, t, r),
         Whole /\ ~s.surf[t].gpuValid =>
           Over(s.surf[t].device, r, s.surf[t].shadow) = s.surf[t].shadow
  PROVE  Kept(s, o, {})
<1> DEFINE x == s.surf[t]
<1>0. s \in State /\ x \in Surface /\ x.shadow # NoImage /\ (Whole => x.shadow \in Images)
  BY DEF Good, State, Backed, Sound
<1>1. CASE x.gpuValid \/ (s.presentPending /\ x.inUse)
  <2>1. o = [state |-> s, ok |-> TRUE]
    BY <1>1 DEF UploadNow, Done
  <2> QED BY <1>0, <2>1, MovedTwice DEF Kept
<1>2. CASE ~(x.gpuValid \/ (s.presentPending /\ x.inUse))
  <2>1. PICK b \in SurfaceUpdate(s, t, r) :
          \/ ~b.ok /\ o = b
          \/ b.ok /\ o = [state |-> DropRedundantShadow(TouchSurface(Uploaded(b.state, t), t), t),
                          ok |-> TRUE]
    BY <1>2 DEF UploadNow, Then, Done
  <2>2. /\ Good(b.state, {t}) /\ (~b.ok => b.state.failures > 0) /\ b.state.pend = s.pend
        /\ ~b.ok => b.state.surf = s.surf
        /\ b.ok => b.state.surf[t] = Sent(s.surf[t], r)
        /\ Moved(s, b.state)
    <3>1. Good(s, {t}) /\ HasShadow(s, t) /\ t \in {t} /\ ~s.surf[t].gpuValid
      BY <1>0, <1>2, Exempted DEF HasShadow
    <3> QED BY <3>1, UpdateKeeps
  <2>3. CASE ~b.ok
    BY <2>1, <2>2, <2>3, FailedUpload DEF Kept
  <2>4. ASSUME NEW u, u = b.state, b.ok
        PROVE  LET e == Uploaded(u, t)
                   f == TouchSurface(e, t)
                   g == DropRedundantShadow(f, t)
               IN  Good(g, {}) /\ Moved(s, g)
    <3> DEFINE e == Uploaded(u, t)
               f == TouchSurface(e, t)
               g == DropRedundantShadow(f, t)
               z == u.surf[t]
    <3>1. z = Sent(x, r) /\ Good(u, {t}) /\ u \in State /\ Moved(s, u) /\ t \notin u.pend
      BY <2>2, <2>4 DEF Good
    <3>2. /\ z.device = Over(x.device, r, x.shadow) /\ ~z.busy /\ z.shadow = x.shadow
          /\ z.cpuValid = x.cpuValid /\ z.gpuValid = x.gpuValid
      BY <1>0, <3>1 DEF Surface, Sent
    <3>3. HasSurface(u, t)
      <4>1. Over(x.device, r, x.shadow) \in Image
        BY <1>0, OverImage DEF Surface, HasSurface
      <4> QED BY <3>2, <4>1, NoImageIsNone DEF HasSurface
    <3>4. Whole => z.shadow \in Images /\ z.device = z.shadow
      BY <1>0, <1>2, <3>2
    <3>5. Good(e, {}) /\ Moved(u, e)
      BY <1>2, <3>1, <3>2, <3>3, <3>4, UploadedKeeps
    <3> HIDE DEF e
    <3>6. Good(f, {}) /\ Moved(e, f)
      BY <3>5, TouchKeeps
    <3> HIDE DEF f
    <3>7. Good(g, {}) /\ Moved(f, g)
      BY <3>6, DropKeeps
    <3> HIDE DEF g
    <3>8. e \in State /\ f \in State /\ g \in State
      BY <3>5, <3>6, <3>7 DEF Good
    <3>9. Moved(s, g)
      BY <1>0, <3>1, <3>5, <3>6, <3>7, <3>8, MovedTwice
    <3> QED BY <3>7, <3>9 DEF e, f, g
  <2>5. CASE b.ok
    BY <2>1, <2>4, <2>5 DEF Kept
  <2> QED BY <2>3, <2>5
<1> QED BY <1>1, <1>2

(* A texture the core still uses gets a new surface, or keeps its old one. *)
LEMMA RotateKeeps ==
  ASSUME NEW s, Good(s, {}), NEW t \in Surfaces, ~s.surf[t].gpuValid, s.surf[t].cpuValid,
         NEW o \in Rotate(s, t)
  PROVE  /\ Kept(s, o, {})
         /\ o.ok => /\ o.state.surf[t].cpuValid
                    /\ HasSurface(o.state, t) <=> HasSurface(s, t)
                    /\ \/ o.state.surf[t].gpuValid
                       \/ /\ o.state.surf[t].device = s.surf[t].device
                          /\ o.state.surf[t].shadow = s.surf[t].shadow
<1> DEFINE x == s.surf[t]
           rotates == /\ s.presentPending /\ HasSurface(s, t) /\ x.inUse
                      /\ x.cpuValid /\ HasShadow(s, t)
<1>0. s \in State /\ x \in Surface /\ (Whole => Sound(x, t)) /\ Backed(x)
  BY DEF Good, State
<1>1. CASE ~rotates
  <2>1. o = [state |-> s, ok |-> TRUE]
    BY <1>1 DEF Rotate, Done
  <2> QED BY <1>0, <2>1, MovedTwice DEF Kept
<1>2. CASE rotates
  <2> DEFINE R(u) == [Uploaded(u, t) EXCEPT
                        !.surf[t] = [@ EXCEPT !.device = u.surf[t].shadow, !.busy = FALSE]]
  <2>1. PICK f \in FlushQueued(s) :
          \/ ~f.ok /\ o = f
          \/ f.ok /\ o \in Done(f.state) \cup Call(f.state, TouchSurface(R(f.state), t))
    BY <1>2 DEF Rotate, Then
  <2>2. /\ Kept(s, f, {}) /\ (f.ok => f.state.pend = {})
        /\ \A u \in Surfaces : Alike(s.surf[u], f.state.surf[u])
    BY FlushKeeps DEF Kept
  <2>3. CASE ~f.ok
    BY <2>1, <2>2, <2>3
  <2>4. CASE f.ok /\ o \in Done(f.state)
    <3>1. o.state = f.state /\ o.ok
      BY <2>4 DEF Done
    <3> QED BY <2>2, <3>1 DEF Kept, Alike, HasSurface
  <2>5. ASSUME NEW u, u = f.state, f.ok
        PROVE  LET e == TouchSurface(R(u), t)
               IN  /\ Good(e, {}) /\ Moved(u, e) /\ e.surf[t].cpuValid
                   /\ e.surf[t].gpuValid /\ HasSurface(e, t)
    <3> DEFINE z == u.surf[t]
               a == Renewed(z)
               y == [a EXCEPT !.device = z.shadow, !.busy = FALSE]
               d == R(u)
               e == TouchSurface(d, t)
    <3>1. /\ Good(u, {}) /\ u \in State /\ z \in Surface /\ Alike(x, z) /\ u.pend = {}
      BY <2>2, <2>5 DEF Kept, Good, State
    <3>2. /\ z.cpuValid /\ ~z.gpuValid /\ z.shadow # NoImage /\ z.device # NoImage
          /\ Whole => z.shadow \in Images
      BY <1>0, <1>2, <3>1 DEF Alike, Backed, HasSurface, Sound
    <3>3. /\ a \in Surface /\ y \in Surface /\ y.gpuValid /\ ~y.inUse /\ y.dirty = {}
          /\ y.live = z.live /\ y.lock = z.lock /\ y.keepShadow = z.keepShadow
          /\ y.shadow = z.shadow /\ y.device = z.shadow /\ ~y.busy /\ y.cpuValid = z.cpuValid
      BY <3>1, <3>2 DEF Surface, Renewed
    <3>4. Uploaded(u, t) = With(u, t, a)
      BY DEF Uploaded, With, Renewed
    <3>5. d = With(u, t, y)
      <4>1. With(u, t, a).surf[t] = a
        BY <3>1, <3>3, WithFields
      <4>2. d = With(With(u, t, a), t, y)
        BY <3>4, <4>1 DEF With
      <4> HIDE DEF a, y, d
      <4> QED BY <3>1, <3>3, <4>2, WithTwice
    <3> HIDE DEF a, y, d
    <3>6. Hull({}) = {} /\ (Clean => Whole)
      BY DEF Hull, Whole
    <3>7. Backed(y) /\ Held(y) /\ ImageOf(y) = ImageOf(z) /\ (Whole => Sound(y, t))
      BY <3>2, <3>3, <3>6 DEF Backed, Held, ImageOf, Sound
    <3>8. Good(d, {}) /\ Moved(u, d)
      <4>1. /\ {} \subseteq {} \cup {t} /\ (HasSurface(u, t) <=> y.device # NoImage)
            /\ y.shadow # NoImage /\ (y.lock # {} => y.cpuValid) /\ t \notin u.pend
        BY <3>1, <3>2, <3>3 DEF HasSurface
      <4> QED BY <3>1, <3>3, <3>5, <3>7, <4>1, WithKeeps
    <3>9. d.surf[t] = y
      BY <3>1, <3>3, <3>5, WithFields
    <3>10. Good(e, {}) /\ Moved(d, e) /\ Alike(d.surf[t], e.surf[t])
      BY <3>8, TouchKeeps
    <3> HIDE DEF e
    <3>11. d \in State /\ e \in State
      BY <3>8, <3>10 DEF Good
    <3>12. Moved(u, e)
      BY <3>1, <3>8, <3>10, <3>11, MovedTwice
    <3>13. e.surf[t].cpuValid /\ e.surf[t].gpuValid /\ HasSurface(e, t)
      BY <3>2, <3>3, <3>9, <3>10 DEF Alike, HasSurface
    <3> QED BY <3>10, <3>12, <3>13 DEF d, e
  <2>6. CASE f.ok /\ o \in Call(f.state, TouchSurface(R(f.state), t))
    <3> DEFINE e == TouchSurface(R(f.state), t)
    <3>1. /\ Good(e, {}) /\ Moved(f.state, e) /\ e.surf[t].cpuValid
          /\ e.surf[t].gpuValid /\ HasSurface(e, t)
      BY <2>5, <2>6
    <3> HIDE DEF e
    <3>2. /\ o.ok => o.state = e
          /\ ~o.ok => Good(o.state, {}) /\ Moved(f.state, o.state) /\ o.state.failures > 0
      <4>1. Good(f.state, {})
        BY <2>2 DEF Kept
      <4>2. o \in Call(f.state, e)
        BY <2>6 DEF e
      <4> QED BY <4>1, <4>2, CallKeeps
    <3>3. Kept(f.state, o, {})
      BY <3>1, <3>2 DEF Kept
    <3>4. Kept(s, o, {})
      <4>1. f.state \in State /\ Moved(s, f.state)
        BY <2>2 DEF Kept, Good
      <4> QED BY <1>0, <3>3, <4>1, KeptTwice
    <3> QED BY <1>2, <3>1, <3>2, <3>4
  <2> QED BY <2>1, <2>3, <2>4, <2>6
<1> QED BY <1>1, <1>2

-----------------------------------------------------------------------------
(***************************************************************************)
(* Residency.                                                              *)
(***************************************************************************)

\* A surface whose place in the device was given back.
Released(x) ==
  [x EXCEPT !.device = NoImage, !.gpuValid = FALSE, !.busy = FALSE, !.later = {}]

(* What a release changes.                                                 *)
LEMMA ReleaseFields ==
  ASSUME NEW s \in State, NEW P \in SUBSET Textures
  PROVE  LET d == Release(s, P)
         IN  /\ d \in State
             /\ d.target = s.target /\ d.pend = s.pend /\ d.presentPending = s.presentPending
             /\ d.failures = s.failures /\ d.residentBytes = s.residentBytes - BytesOf(P)
             /\ d.raced <=> (s.raced \/ P \cap s.pend # {})
             /\ \A u \in P : d.surf[u] = Released(s.surf[u])
             /\ \A u \in Surfaces \ P : Alike(s.surf[u], d.surf[u]) /\ d.surf[u].busy = s.surf[u].busy
<1> DEFINE d == Release(s, P)
           f == [u \in Surfaces |->
                  IF u \in P THEN Released(s.surf[u])
                  ELSE [s.surf[u] EXCEPT !.later = @ \ P]]
           b == s.residentBytes - BytesOf(P)
           r == s.raced \/ P \cap s.pend # {}
<1>1. \A u \in Surfaces : s.surf[u] \in Surface
  BY DEF State
<1>2. \A u \in Surfaces \ P : /\ [s.surf[u] EXCEPT !.later = @ \ P] \in Surface
                              /\ Alike(s.surf[u], [s.surf[u] EXCEPT !.later = @ \ P])
                              /\ [s.surf[u] EXCEPT !.later = @ \ P].busy = s.surf[u].busy
  BY <1>1 DEF Surface, Alike
<1>3. \A u \in Surfaces : Released(s.surf[u]) \in Surface
  BY <1>1 DEF Released, Surface
<1>4. P \subseteq Surfaces
  BY DEF Surfaces
<1>5. f \in [Surfaces -> Surface]
  BY <1>2, <1>3
<1>6. b \in Int
  BY CountsInt, BytesFinite
<1>7. d = [s EXCEPT !.residentBytes = b, !.raced = r, !.surf = f]
  BY DEF Release, Released
<1>8. /\ \A u \in P : f[u] = Released(s.surf[u])
      /\ \A u \in Surfaces \ P : f[u] = [s.surf[u] EXCEPT !.later = @ \ P]
  BY <1>4
<1>9. r \in BOOLEAN
  OBVIOUS
<1> HIDE DEF f, b, r, d
<1>10. d \in State
  BY <1>5, <1>6, <1>7, <1>9 DEF State
<1>11. /\ d.target = s.target /\ d.pend = s.pend /\ d.presentPending = s.presentPending
       /\ d.failures = s.failures /\ d.residentBytes = b /\ d.raced = r /\ d.surf = f
  BY <1>7 DEF State
<1> QED BY <1>2, <1>8, <1>10, <1>11 DEF b, r, d

(* The accounts stay exact when the bytes of what is released come off.    *)
LEMMA FewerAccounts ==
  ASSUME NEW s \in State, Accounts(s), NEW P \in SUBSET Resident(s),
         NEW d, d.residentBytes = s.residentBytes - BytesOf(P), Resident(d) = Resident(s) \ P
  PROVE  Accounts(d)
<1>1. Resident(s) \in SUBSET Textures /\ P \in SUBSET Textures
  BY DEF Resident
<1>2. /\ BytesOf(Resident(d)) = BytesOf(Resident(s)) - BytesOf(P)
      /\ BytesOf(P) \in Nat /\ BytesOf(Resident(s)) \in Nat /\ BytesOf(P) <= BytesOf(Resident(s))
  BY <1>1, BytesOfDifference, BytesFinite
<1>3. Cardinality(Resident(d)) <= Cardinality(Resident(s))
      /\ Cardinality(Resident(d)) \in Nat /\ Cardinality(Resident(s)) \in Nat
  <2>1. IsFiniteSet(Resident(s)) /\ Resident(d) \subseteq Resident(s)
    BY <1>1, BytesFinite
  <2>2. IsFiniteSet(Resident(d)) /\ Cardinality(Resident(d)) <= Cardinality(Resident(s))
    BY ONLY <2>1, FS_Subset
  <2> QED BY ONLY <2>1, <2>2, FS_CardinalityType
<1> QED BY <1>2, <1>3, BoundsAssumption DEF Accounts

(* Surfaces with a valid shadow can be released.                           *)
LEMMA ReleaseKeeps ==
  ASSUME NEW s, Good(s, {}), NEW P \in SUBSET Resident(s), \A u \in P : s.surf[u].cpuValid,
         MaxFailures <= 1 => P \cap s.pend = {},
         NEW d, d = Release(s, P)
  PROVE  /\ Good(d, {}) /\ Moved(s, d) /\ d.pend = s.pend /\ d.failures = s.failures
         /\ Resident(d) = Resident(s) \ P
         /\ \A u \in Surfaces \ P : Alike(s.surf[u], d.surf[u])
         /\ \A u \in P : d.surf[u].cpuValid
<1>0. s \in State /\ P \in SUBSET Textures /\ P \in SUBSET Surfaces /\ \A u \in P : s.surf[u] \in Surface
  BY DEF Good, State, Resident, Surfaces
<1>1. /\ d \in State
      /\ d.target = s.target /\ d.pend = s.pend
      /\ d.failures = s.failures /\ d.residentBytes = s.residentBytes - BytesOf(P)
      /\ d.raced <=> (s.raced \/ P \cap s.pend # {})
      /\ \A u \in P : d.surf[u] = Released(s.surf[u])
      /\ \A u \in Surfaces \ P : Alike(s.surf[u], d.surf[u]) /\ d.surf[u].busy = s.surf[u].busy
  BY <1>0, ReleaseFields
<1>2. \A u \in P : LET x == s.surf[u]
                       y == d.surf[u]
                   IN  /\ y.live = x.live /\ y.shadow = x.shadow /\ y.device = NoImage
                       /\ y.cpuValid /\ x.cpuValid /\ ~y.gpuValid /\ y.keepShadow = x.keepShadow
                       /\ y.lock = x.lock /\ y.dirty = x.dirty /\ y.inUse = x.inUse /\ ~y.busy
  <2>1. \A x \in Surface :
          /\ Released(x).live = x.live /\ Released(x).shadow = x.shadow
          /\ Released(x).device = NoImage /\ Released(x).cpuValid = x.cpuValid
          /\ ~Released(x).gpuValid /\ Released(x).keepShadow = x.keepShadow
          /\ Released(x).lock = x.lock /\ Released(x).dirty = x.dirty
          /\ Released(x).inUse = x.inUse /\ ~Released(x).busy
    BY DEF Released, Surface
  <2>2. \A u \in P : s.surf[u] \in Surface /\ d.surf[u] = Released(s.surf[u]) /\ s.surf[u].cpuValid
    BY <1>0, <1>1
  <2> QED BY <2>1, <2>2
<1>3. Resident(d) = Resident(s) \ P
  BY <1>1, <1>2 DEF Resident, HasSurface, Alike, Surfaces
<1>4. \A u \in Surfaces : Backed(s.surf[u]) /\ (Whole => Sound(s.surf[u], u))
  BY DEF Good
<1>5. \A u \in Surfaces : Backed(d.surf[u]) /\ (Held(s.surf[u]) => Held(d.surf[u]))
  <2>1. \A u \in P : Backed(d.surf[u]) /\ Held(d.surf[u])
    BY <1>0, <1>2, <1>4 DEF Backed, Held
  <2>2. \A u \in Surfaces \ P : Backed(d.surf[u]) /\ (Held(s.surf[u]) => Held(d.surf[u]))
    BY <1>1, <1>4 DEF Backed, Held, Alike
  <2> QED BY <2>1, <2>2
<1>6. Whole => \A u \in Surfaces : Sound(d.surf[u], u)
  <2>1. Whole => \A u \in P : Sound(d.surf[u], u)
    BY <1>0, <1>2, <1>4 DEF Sound
  <2>2. Whole => \A u \in Surfaces \ P : Sound(d.surf[u], u)
    BY <1>1, <1>4 DEF Sound, Alike
  <2> QED BY <2>1, <2>2
<1>7. Clean => \A u \in Surfaces : ImageOf(d.surf[u]) = ImageOf(s.surf[u])
  <2>1. Clean => \A u \in P : ImageOf(d.surf[u]) = ImageOf(s.surf[u])
    BY <1>0, <1>2, <1>4 DEF Sound, ImageOf, Whole
  <2>2. Clean => \A u \in Surfaces \ P : ImageOf(d.surf[u]) = ImageOf(s.surf[u])
    BY <1>1 DEF ImageOf, Alike
  <2> QED BY <2>1, <2>2
<1>8. Moved(s, d)
  <2>1. \A u \in Surfaces : /\ d.surf[u].live = s.surf[u].live /\ d.surf[u].lock = s.surf[u].lock
                            /\ d.surf[u].keepShadow = s.surf[u].keepShadow
    BY <1>1, <1>2 DEF Alike
  <2>2. d.failures >= s.failures
    BY <1>0, <1>1, CountsInt
  <2> QED BY <1>1, <1>5, <1>7, <2>1, <2>2 DEF Moved
<1>9. Accounts(d)
  BY <1>0, <1>1, <1>3, FewerAccounts DEF Good
<1>10. /\ d.surf[Composition].live /\ HasShadow(d, Composition) /\ HasSurface(d, Composition)
       /\ d.target \notin Streaming /\ Held(d.surf[d.target])
  <2>1. Composition \in Surfaces \ P /\ s.target \in Surfaces
    BY <1>0, NamesAssumption DEF Surfaces, State
  <2>2. /\ s.surf[Composition].live /\ HasShadow(s, Composition) /\ HasSurface(s, Composition)
        /\ s.target \notin Streaming /\ Held(s.surf[s.target])
    BY DEF Good
  <2> QED BY <1>1, <1>5, <2>1, <2>2 DEF Alike, HasShadow, HasSurface
<1>11. \A u \in Surfaces : d.surf[u].lock # {} =>
                            u \in Streaming /\ d.surf[u].cpuValid /\ u \notin d.pend
  <2>1. \A u \in Surfaces : s.surf[u].lock # {} =>
                            u \in Streaming /\ s.surf[u].cpuValid /\ u \notin s.pend
    BY DEF Good
  <2> QED BY <1>1, <1>2, <2>1 DEF Alike
<1>12. Clean => \A u \in Textures : d.surf[u].busy \/ u \in d.pend => d.surf[u].inUse
  <2>1. Clean => \A u \in Textures : s.surf[u].busy \/ u \in s.pend => s.surf[u].inUse
    BY DEF Good
  <2>2. Textures \subseteq Surfaces
    BY DEF Surfaces
  <2> QED BY <1>1, <1>2, <2>1, <2>2 DEF Alike
<1>13. MaxFailures <= 1 => ~d.raced
  BY <1>1 DEF Good
<1>14. Good(d, {})
  <2>1. Textures \ {} = Textures /\ Surfaces \ {} = Surfaces
    OBVIOUS
  <2> QED BY <1>1, <1>5, <1>6, <1>9, <1>10, <1>11, <1>12, <1>13, <2>1 DEF Good
<1> QED BY <1>1, <1>2, <1>3, <1>8, <1>14

(* An eviction keeps the pixels of what it releases.                       *)
LEMMA EvictKeeps ==
  ASSUME NEW s, Good(s, {}), NEW P \in SUBSET Resident(s), s.pend = {}, s.target \notin P,
         NEW d, d = Evict(s, P)
  PROVE  /\ Good(d, {}) /\ Moved(s, d) /\ d.pend = {} /\ d.failures = s.failures
         /\ Resident(d) = Resident(s) \ P
         /\ \A u \in Surfaces \ P : Alike(s.surf[u], d.surf[u])
<1>0. s \in State /\ \A u \in Surfaces : s.surf[u] \in Surface /\ Backed(s.surf[u])
  BY DEF Good, State
<1>1. CASE P = {}
  <2>1. d = s
    BY <1>1 DEF Evict
  <2> QED BY <1>0, <1>1, <2>1, MovedTwice DEF Alike
<1>2. CASE P # {}
  <2> DEFINE Kept2(x) == [x EXCEPT !.shadow = IF x.gpuValid THEN x.device ELSE Plain(Blank),
                                   !.cpuValid = TRUE, !.inUse = FALSE, !.busy = FALSE]
             Idle(x) == [x EXCEPT !.busy = FALSE]
             f == [u \in Surfaces |-> IF u \in P /\ ~s.surf[u].cpuValid THEN Kept2(s.surf[u])
                                      ELSE Idle(s.surf[u])]
             m == [s EXCEPT !.surf = f]
  <2>1. \A u \in Surfaces : u \in P => s.surf[u].device # NoImage /\ Held(s.surf[u])
    BY <1>0 DEF Resident, HasSurface, Backed
  <2>2. \A x \in Surface : /\ Idle(x) \in Surface /\ Alike(x, Idle(x)) /\ ~Idle(x).busy
    BY DEF Surface, Alike
  <2>3. \A x \in Surface :
          x.gpuValid /\ x.device # NoImage =>
            /\ Kept2(x) \in Surface /\ Kept2(x).shadow = x.device /\ Kept2(x).device = x.device
            /\ Kept2(x).cpuValid /\ Kept2(x).gpuValid /\ ~Kept2(x).inUse /\ ~Kept2(x).busy
            /\ Kept2(x).live = x.live /\ Kept2(x).keepShadow = x.keepShadow
            /\ Kept2(x).lock = x.lock /\ Kept2(x).dirty = x.dirty
    BY DEF Surface
  <2> HIDE DEF Kept2, Idle
  <2>5. \A u \in Surfaces :
          \/ f[u] = Idle(s.surf[u]) /\ (u \in P => s.surf[u].cpuValid)
          \/ f[u] = Kept2(s.surf[u]) /\ s.surf[u].gpuValid /\ ~s.surf[u].cpuValid
             /\ s.surf[u].device # NoImage /\ u \in P
    BY <2>1 DEF Held
  <2>6. \A u \in Surfaces : f[u] \in Surface
    BY <1>0, <2>2, <2>3, <2>5
  <2>7. f \in [Surfaces -> Surface]
    BY <2>6
  <2> HIDE DEF f
  <2>8. m \in State
    BY <1>0, <2>7 DEF State
  <2>9. /\ m.surf = f /\ m.target = s.target /\ m.pend = s.pend
        /\ m.residentBytes = s.residentBytes /\ m.failures = s.failures /\ m.raced = s.raced
        /\ m.failures >= s.failures
    BY <1>0, CountsInt DEF State
  <2>10. d = Release(m, P)
    BY <1>2 DEF Evict, f, Kept2, Idle
  <2> HIDE DEF m
  <2>11. \A u \in Surfaces : LET x == s.surf[u]
                                 y == m.surf[u]
                             IN  /\ y.live = x.live /\ y.lock = x.lock /\ y.dirty = x.dirty
                                 /\ y.keepShadow = x.keepShadow
                                 /\ y.device = x.device /\ y.gpuValid = x.gpuValid /\ ~y.busy
                                 /\ x.cpuValid => y.cpuValid
                                 /\ u \in P => y.cpuValid
                                 /\ y.shadow = x.shadow \/ y.shadow = y.device
                                 /\ \/ Alike(x, y)
                                    \/ /\ y.shadow = y.device /\ y.device # NoImage /\ y.gpuValid
                                       /\ u \in P
    <3>1. SUFFICES ASSUME NEW u \in Surfaces
                   PROVE  LET x == s.surf[u]
                              y == m.surf[u]
                          IN  /\ y.live = x.live /\ y.lock = x.lock /\ y.dirty = x.dirty
                              /\ y.keepShadow = x.keepShadow
                              /\ y.device = x.device /\ y.gpuValid = x.gpuValid /\ ~y.busy
                              /\ x.cpuValid => y.cpuValid
                              /\ u \in P => y.cpuValid
                              /\ y.shadow = x.shadow \/ y.shadow = y.device
                              /\ \/ Alike(x, y)
                                 \/ /\ y.shadow = y.device /\ y.device # NoImage /\ y.gpuValid
                                    /\ u \in P
      OBVIOUS
    <3> DEFINE x == s.surf[u]
               y == m.surf[u]
    <3>2. x \in Surface /\ y = f[u]
      BY <1>0, <2>9
    <3>3. CASE y = Idle(x) /\ (u \in P => x.cpuValid)
      BY <2>2, <3>2, <3>3 DEF Alike
    <3>4. CASE y = Kept2(x) /\ x.gpuValid /\ ~x.cpuValid /\ x.device # NoImage /\ u \in P
      <4>1. /\ y.shadow = x.device /\ y.device = x.device
            /\ y.cpuValid /\ y.gpuValid /\ ~y.busy /\ y.gpuValid = x.gpuValid
            /\ y.live = x.live /\ y.keepShadow = x.keepShadow
            /\ y.lock = x.lock /\ y.dirty = x.dirty
        <5>1. Kept2(x).gpuValid = x.gpuValid
          BY <3>2 DEF Kept2, Surface
        <5> QED BY <2>3, <3>2, <3>4, <5>1
      <4> HIDE DEF y
      <4> QED BY <3>4, <4>1 DEF y
    <3> QED BY <2>5, <3>2, <3>3, <3>4
  <2>12. \A u \in Surfaces : Backed(m.surf[u]) /\ (Held(s.surf[u]) => Held(m.surf[u]))
                             /\ ImageOf(m.surf[u]) = ImageOf(s.surf[u])
    BY <1>0, <2>11 DEF Backed, Held, Alike, ImageOf
  <2>13. Whole => \A u \in Surfaces : Sound(m.surf[u], u)
    <3>1. Whole => \A u \in Surfaces : Sound(s.surf[u], u)
      BY DEF Good
    <3> QED BY <2>11, <3>1 DEF Sound, Alike
  <2>14. Moved(s, m)
    BY <2>9, <2>11, <2>12 DEF Moved
  <2>15. Resident(m) = Resident(s)
    BY <2>11 DEF Resident, HasSurface, Surfaces
  <2>16. /\ m.surf[Composition].live /\ HasShadow(m, Composition) /\ HasSurface(m, Composition)
         /\ m.target \notin Streaming /\ Held(m.surf[m.target])
    <3>1. Composition \in Surfaces /\ s.target \in Surfaces
      BY <1>0 DEF Surfaces, State
    <3>2. /\ s.surf[Composition].live /\ HasShadow(s, Composition) /\ HasSurface(s, Composition)
          /\ s.target \notin Streaming /\ Held(s.surf[s.target])
      BY DEF Good
    <3> QED BY <2>9, <2>11, <2>12, <3>1, <3>2 DEF HasShadow, HasSurface
  <2>17. \A u \in Surfaces : m.surf[u].lock # {} =>
                              u \in Streaming /\ m.surf[u].cpuValid /\ u \notin m.pend
    <3>1. \A u \in Surfaces : s.surf[u].lock # {} =>
                              u \in Streaming /\ s.surf[u].cpuValid /\ u \notin s.pend
      BY DEF Good
    <3> QED BY <2>9, <2>11, <3>1
  <2>18. Accounts(m) /\ (MaxFailures <= 1 => ~m.raced)
    BY <2>9, <2>15 DEF Good, Accounts
  <2>19. \A u \in Textures : ~(m.surf[u].busy \/ u \in m.pend)
    BY <2>9, <2>11 DEF Surfaces
  <2>20. Good(m, {})
    BY <2>8, <2>12, <2>13, <2>16, <2>17, <2>18, <2>19 DEF Good
  <2>21. P \in SUBSET Resident(m) /\ (\A u \in P : m.surf[u].cpuValid) /\ m.pend = {} /\ P \cap m.pend = {}
    BY <2>9, <2>11, <2>15 DEF Resident, Surfaces
  <2>22. /\ Good(d, {}) /\ Moved(m, d) /\ d.pend = m.pend /\ d.failures = m.failures
         /\ Resident(d) = Resident(m) \ P
         /\ \A u \in Surfaces \ P : Alike(m.surf[u], d.surf[u])
    BY <2>10, <2>20, <2>21, ReleaseKeeps
  <2>23. Moved(s, d)
    <3>1. d \in State
      BY <2>22 DEF Good
    <3> QED BY <1>0, <2>8, <2>14, <2>22, <3>1, MovedTwice
  <2>24. \A u \in Surfaces \ P : Alike(s.surf[u], m.surf[u])
    BY <2>11
  <2>25. \A u \in Surfaces \ P : Alike(s.surf[u], d.surf[u])
    BY <2>22, <2>24 DEF Alike
  <2> QED BY <2>9, <2>15, <2>21, <2>22, <2>23, <2>25
<1> QED BY <1>1, <1>2

(* An eviction that stops half-way loses nothing either.                   *)
LEMMA EvictionStopsKeeps ==
  ASSUME NEW s, Good(s, {}), NEW t \in Resident(s), NEW o \in EvictionStops(s, t)
  PROVE  Kept(s, o, {}) /\ ~o.ok
<1>0. s \in State /\ t \in Surfaces
  BY DEF Good, Resident, Surfaces
<1>1. PICK e \in EnsureCPU(s, t) :
        \/ ~e.ok /\ o = e
        \/ e.ok /\ o \in Stops(e.state)
        \/ e.ok /\ o \in Stops(Release(e.state, {t}))
  BY DEF EvictionStops
<1>2. Held(s.surf[t])
  BY <1>0 DEF Good, Backed, Resident, HasSurface
<1>3. Kept(s, e, {}) /\ (e.ok => ReadBack(s, e.state, t))
  BY <1>0, <1>2, EnsureCPUKeeps
<1>4. Good(e.state, {}) /\ e.state \in State /\ Moved(s, e.state)
  BY <1>3 DEF Kept, Good
<1>5. CASE ~e.ok /\ o = e
  BY <1>3, <1>5
<1>6. CASE e.ok /\ o \in Stops(e.state)
  <2>1. Kept(e.state, o, {}) /\ ~o.ok
    BY <1>4, <1>6, StopsKeeps DEF Kept
  <2> QED BY <1>0, <1>4, <2>1, KeptTwice
<1>7. CASE e.ok /\ o \in Stops(Release(e.state, {t}))
  <2> DEFINE r == Release(e.state, {t})
  <2>1. e.state.surf[t].cpuValid /\ e.state.pend = {}
    BY <1>3, <1>7 DEF ReadBack
  <2>2. {t} \in SUBSET Resident(e.state)
    BY <1>3, <1>7 DEF ReadBack, Resident, HasSurface
  <2>3. Good(r, {}) /\ Moved(e.state, r)
    BY <1>4, <2>1, <2>2, ReleaseKeeps
  <2> HIDE DEF r
  <2>4. Kept(r, o, {}) /\ ~o.ok
    BY <1>7, <2>3, StopsKeeps DEF Kept, r
  <2>5. r \in State /\ Moved(s, r)
    BY <1>0, <1>4, <2>3, MovedTwice DEF Good
  <2> QED BY <1>0, <2>4, <2>5, KeptTwice
<1> QED BY <1>1, <1>5, <1>6, <1>7

\* What a new surface leaves of its texture.
Placed(x, y) ==
  /\ y.shadow = x.shadow /\ y.cpuValid = x.cpuValid /\ y.gpuValid = x.gpuValid
  /\ y.dirty = x.dirty /\ y.inUse = x.inUse

(* A surface is created where the budget, or what is left, has room for it.*)
LEMMA CreatedKeeps ==
  ASSUME NEW s, Good(s, {}), NEW t \in Textures, ~HasSurface(s, t), Held(s.surf[t]), s.pend = {},
         BytesOf(Resident(s)) + Bytes[t] > Budget => Cardinality(Resident(s)) <= 1,
         NEW d, d = Created(s, t)
  PROVE  /\ Good(d, {t}) /\ Moved(s, d) /\ d.pend = {} /\ (~Clean => Good(d, {}))
         /\ HasSurface(d, t) /\ ~d.surf[t].busy /\ Placed(s.surf[t], d.surf[t])
         /\ \A u \in Surfaces \ {t} : Alike(s.surf[u], d.surf[u])
<1> DEFINE x == s.surf[t]
           y == [x EXCEPT !.device = Plain(Junk), !.busy = FALSE]
           b == s.residentBytes + Bytes[t]
           m == [s EXCEPT !.surf[t] = y, !.residentBytes = b]
<1>0. s \in State /\ t \in Surfaces /\ x \in Surface /\ Backed(x) /\ (Whole => Sound(x, t))
  BY DEF Good, State, Surfaces
<1>1. Plain(Junk) \in Image
  BY DEF Plain, Image, Pixels
<1>2. /\ y \in Surface /\ y.device # NoImage /\ ~y.busy
      /\ y.live = x.live /\ y.lock = x.lock /\ y.keepShadow = x.keepShadow
      /\ y.shadow = x.shadow /\ y.cpuValid = x.cpuValid /\ y.gpuValid = x.gpuValid
      /\ y.dirty = x.dirty /\ y.inUse = x.inUse
  BY <1>0, <1>1, NoImageIsNone DEF Surface
<1>3. ~x.gpuValid
  BY <1>0 DEF Backed, HasSurface
<1>4. b \in Int
  BY <1>0, CountsInt, BoundsAssumption
<1>5. d = TouchSurface(m, t)
  BY DEF Created
<1>6. m = [With(s, t, y) EXCEPT !.residentBytes = b]
  BY DEF With
<1> HIDE DEF y, m
<1>7. /\ With(s, t, y) \in State
      /\ With(s, t, y).surf[t] = y /\ \A u \in Surfaces \ {t} : With(s, t, y).surf[u] = s.surf[u]
      /\ With(s, t, y).target = s.target /\ With(s, t, y).pend = s.pend
      /\ With(s, t, y).failures = s.failures /\ With(s, t, y).raced = s.raced
  BY <1>0, <1>2, WithFields
<1>8. /\ m \in State /\ m.residentBytes = b
      /\ m.surf[t] = y /\ \A u \in Surfaces \ {t} : m.surf[u] = s.surf[u]
      /\ m.target = s.target /\ m.pend = s.pend /\ m.failures = s.failures /\ m.raced = s.raced
  <2> DEFINE w == With(s, t, y)
  <2>1. w \in State /\ m = [w EXCEPT !.residentBytes = b]
    BY <1>6, <1>7
  <2> HIDE DEF w, b
  <2>2. /\ m \in State /\ m.residentBytes = b /\ m.surf = w.surf
        /\ m.target = w.target /\ m.pend = w.pend /\ m.failures = w.failures /\ m.raced = w.raced
    BY <1>4, <2>1 DEF State
  <2> QED BY <1>7, <2>2 DEF w
<1>9. Resident(m) = Resident(s) \cup {t} /\ t \notin Resident(s)
  BY <1>2, <1>8 DEF Resident, HasSurface, Surfaces
<1>10. Accounts(m)
  <2>1. Resident(s) \in SUBSET Textures /\ t \in Textures \ Resident(s) /\ Accounts(s)
    BY <1>9 DEF Resident, Good
  <2>2. BytesOf(Resident(m)) = BytesOf(Resident(s)) + Bytes[t]
    BY <1>9, <2>1, BytesOfAdded
  <2>3. IsFiniteSet(Resident(s))
    BY <2>1, BytesFinite
  <2>4. Cardinality(Resident(s) \cup {t}) = Cardinality(Resident(s)) + 1
        /\ Cardinality(Resident(s)) \in Nat
    BY ONLY <1>9, <2>3, FS_AddElement, FS_CardinalityType
  <2> QED BY <1>8, <1>9, <2>1, <2>2, <2>4 DEF Accounts
<1>11. Backed(y) /\ Held(y) /\ ImageOf(y) = ImageOf(x)
  BY <1>0, <1>2, <1>3 DEF Backed, Held, ImageOf
<1>12. Moved(s, m)
  <2>1. \A u \in Surfaces \ {t} : Alike(s.surf[u], m.surf[u])
    BY <1>8 DEF Alike
  <2>2. m.failures >= s.failures
    BY <1>0, <1>8, CountsInt
  <2> QED BY <1>0, <1>2, <1>8, <1>11, <2>1, <2>2, OneMoved
<1>13. /\ m.surf[Composition].live /\ HasShadow(m, Composition) /\ HasSurface(m, Composition)
       /\ m.target \notin Streaming /\ Held(m.surf[m.target])
  <2>1. Composition \in Surfaces \ {t} /\ s.target \in Surfaces
    BY <1>0, NamesAssumption DEF Surfaces, State
  <2>2. /\ s.surf[Composition].live /\ HasShadow(s, Composition) /\ HasSurface(s, Composition)
        /\ s.target \notin Streaming /\ Held(s.surf[s.target])
    BY DEF Good
  <2> QED BY <1>8, <1>11, <2>1, <2>2 DEF HasShadow, HasSurface
<1>14. \A u \in Surfaces : m.surf[u].lock # {} =>
                            u \in Streaming /\ m.surf[u].cpuValid /\ u \notin m.pend
  <2>1. \A u \in Surfaces : s.surf[u].lock # {} =>
                            u \in Streaming /\ s.surf[u].cpuValid /\ u \notin s.pend
    BY DEF Good
  <2> QED BY <1>2, <1>8, <2>1
<1>15. \A u \in Surfaces : Backed(m.surf[u])
  <2>1. \A u \in Surfaces : Backed(s.surf[u])
    BY DEF Good
  <2> QED BY <1>8, <1>11, <2>1
<1>16. Whole => \A u \in Surfaces \ {t} : Sound(m.surf[u], u)
  BY <1>8 DEF Good
<1>17. Clean => \A u \in Textures : m.surf[u].busy \/ u \in m.pend => m.surf[u].inUse
  <2>1. Clean => \A u \in Textures : s.surf[u].busy \/ u \in s.pend => s.surf[u].inUse
    BY DEF Good
  <2> QED BY <1>2, <1>8, <2>1 DEF Surfaces
<1>18. Good(m, {t})
  BY <1>8, <1>10, <1>13, <1>14, <1>15, <1>16, <1>17 DEF Good
<1>19. ~Clean => Good(m, {})
  <2>1. ~Clean /\ Whole => Sound(y, t)
    BY <1>0, <1>2, <1>3 DEF Sound
  <2> QED BY <1>0, <1>8, <1>18, <2>1, Settled
<1>20. /\ Good(d, {t}) /\ Moved(m, d) /\ d.pend = m.pend
       /\ \A u \in Surfaces : Alike(m.surf[u], d.surf[u]) /\ d.surf[u].busy = m.surf[u].busy
  BY <1>0, <1>5, <1>18, TouchKeeps
<1>21. ~Clean => Good(d, {})
  BY <1>0, <1>5, <1>19, TouchKeeps
<1>22. Moved(s, d)
  <2>1. d \in State
    BY <1>20 DEF Good
  <2> QED BY <1>0, <1>8, <1>12, <1>20, <2>1, MovedTwice
<1>23. HasSurface(d, t) /\ ~d.surf[t].busy /\ Placed(s.surf[t], d.surf[t])
  BY <1>0, <1>2, <1>8, <1>20 DEF HasSurface, Placed, Alike
<1>24. \A u \in Surfaces \ {t} : Alike(s.surf[u], d.surf[u])
  BY <1>8, <1>20 DEF Alike
<1> QED BY <1>8, <1>20, <1>21, <1>22, <1>23, <1>24

\* What MakeResident leaves for its caller.
MadeResident(s, d, t) ==
  /\ HasSurface(d, t) /\ Placed(s.surf[t], d.surf[t])
  /\ HasSurface(s, t) => Good(d, {}) /\ d.surf[t].device = s.surf[t].device
  /\ ~HasSurface(s, t) => d.pend = {} /\ ~d.surf[t].busy
  /\ s.target # t => Alike(s.surf[s.target], d.surf[s.target])

(* A texture gets its surface; others give theirs up as far as is needed.  *)
LEMMA MakeResidentKeeps ==
  ASSUME NEW s, Good(s, {}), NEW t \in Surfaces, Held(s.surf[t]), NEW o \in MakeResident(s, t)
  PROVE  /\ Kept(s, o, {t})
         /\ ~o.ok \/ ~Clean => Good(o.state, {})
         /\ o.ok => MadeResident(s, o.state, t)
<1>0. s \in State /\ s.target \in Surfaces
  BY DEF Good, State
<1>1. CASE t = Composition \/ HasSurface(s, t)
  <2> DEFINE d == TouchSurface(s, t)
  <2>1. HasSurface(s, t)
    BY <1>1 DEF Good
  <2>2. o.state = d /\ o.ok
    BY <1>1 DEF MakeResident, Done
  <2>3. Good(d, {}) /\ Moved(s, d) /\ \A u \in Surfaces : Alike(s.surf[u], d.surf[u])
    BY TouchKeeps
  <2> HIDE DEF d
  <2>4. Good(d, {t})
    BY <2>3, Exempted
  <2>5. MadeResident(s, d, t)
    BY <1>0, <2>1, <2>3 DEF MadeResident, HasSurface, Placed, Alike
  <2> QED BY <2>2, <2>3, <2>4, <2>5 DEF Kept
<1>2. CASE ~(t = Composition \/ HasSurface(s, t))
  <2> DEFINE Evictable(u) == Prefixes(u, Candidates(u, t))
             Sufficient(u) == {P \in Evictable(u) : P = Candidates(u, t) \/ Enough(u, t, P)}
             Evicted(u) == {P \in Evictable(u) : \E Q \in Sufficient(u) : Q \subseteq P}
  <2>1. PICK f \in FlushQueued(s) :
          \/ ~f.ok /\ o = f
          \/ /\ f.ok
             /\ \/ \E P \in Evicted(f.state) :
                     o \in Done(Created(Evict(f.state, P), t)) \cup Stops(Evict(f.state, P))
                \/ \E P \in Evictable(f.state) : \E c \in Candidates(f.state, t) \ P :
                     o \in EvictionStops(Evict(f.state, P), c)
    <3>1. PICK f \in FlushQueued(s) : \/ ~f.ok /\ o = f
                                      \/ f.ok /\ o \in MakeRoom(f.state, t)
      BY <1>2 DEF MakeResident, Then
    <3>2. ASSUME NEW u, o \in MakeRoom(u, t)
          PROVE  \/ \E P \in Evicted(u) :
                      o \in Done(Created(Evict(u, P), t)) \cup Stops(Evict(u, P))
                 \/ \E P \in Evictable(u) : \E c \in Candidates(u, t) \ P :
                      o \in EvictionStops(Evict(u, P), c)
      <4> DEFINE A == UNION {Done(Created(Evict(u, P), t)) \cup Stops(Evict(u, P)) : P \in Evicted(u)}
                 Following(P) == {c \in Candidates(u, t) \ P : P \cup {c} \in Evictable(u)}
                 B == UNION {UNION {EvictionStops(Evict(u, P), c) : c \in Following(P)} :
                               P \in Evictable(u)}
      <4>1. MakeRoom(u, t) = A \cup B
        BY DEF MakeRoom
      <4>2. \A P, c : c \in Following(P) => c \in Candidates(u, t) \ P
        OBVIOUS
      <4> HIDE DEF Evicted, Evictable, Following
      <4>3. CASE o \in A
        BY <4>3
      <4>4. CASE o \in B
        BY <4>2, <4>4
      <4> QED BY <3>2, <4>1, <4>3, <4>4
    <3> QED BY <3>1, <3>2
  <2>2. /\ Kept(s, f, {}) /\ (f.ok => f.state.pend = {})
        /\ \A u \in Surfaces : Alike(s.surf[u], f.state.surf[u])
    BY FlushKeeps DEF Kept
  <2>3. CASE ~f.ok /\ o = f
    BY <2>2, <2>3, Exempted DEF Kept
  <2>4. ASSUME NEW u, u = f.state, f.ok, NEW P \in Evictable(u), NEW e, e = Evict(u, P)
        PROVE  /\ Good(e, {}) /\ Moved(s, e) /\ e.pend = {}
               /\ Resident(e) = Resident(u) \ P /\ ~HasSurface(e, t)
               /\ P \in SUBSET Candidates(u, t)
               /\ Alike(s.surf[t], e.surf[t])
               /\ Alike(s.surf[s.target], e.surf[s.target])
    <3>1. /\ Good(u, {}) /\ u \in State /\ Moved(s, u) /\ u.pend = {} /\ u.target = s.target
          /\ \A q \in Surfaces : Alike(s.surf[q], u.surf[q])
      BY <2>2, <2>4 DEF Kept, Good, Moved
    <3>2. P \in SUBSET Candidates(u, t)
      BY <2>4 DEF Prefixes
    <3>3. P \in SUBSET Resident(u) /\ u.target \notin P /\ t \notin P
      BY <3>2 DEF Candidates
    <3>4. /\ Good(e, {}) /\ Moved(u, e) /\ e.pend = {}
          /\ Resident(e) = Resident(u) \ P
          /\ \A q \in Surfaces \ P : Alike(u.surf[q], e.surf[q])
      BY <2>4, <3>1, <3>3, EvictKeeps
    <3>5. Moved(s, e)
      <4>1. e \in State
        BY <3>4 DEF Good
      <4> QED BY <1>0, <3>1, <3>4, <4>1, MovedTwice
    <3>6. Alike(s.surf[t], e.surf[t]) /\ Alike(s.surf[s.target], e.surf[s.target])
      <4>1. t \in Surfaces \ P /\ s.target \in Surfaces \ P
        BY <1>0, <3>1, <3>3
      <4> QED BY <3>1, <3>4, <4>1 DEF Alike
    <3>7. ~HasSurface(e, t)
      BY <1>2, <3>6 DEF HasSurface, Alike
    <3> QED BY <3>2, <3>4, <3>5, <3>6, <3>7
  <2>5. CASE f.ok /\ \E P \in Evicted(f.state) :
                       o \in Done(Created(Evict(f.state, P), t)) \cup Stops(Evict(f.state, P))
    <3> DEFINE u == f.state
    <3>1. PICK P \in Evicted(u) : o \in Done(Created(Evict(u, P), t)) \cup Stops(Evict(u, P))
      BY <2>5
    <3>2. PICK Q \in Sufficient(u) : Q \subseteq P
      BY <3>1
    <3> DEFINE e == Evict(u, P)
               d == Created(e, t)
    <3>3. P \in Evictable(u)
      OBVIOUS
    <3>4. /\ Good(e, {}) /\ Moved(s, e) /\ e.pend = {}
          /\ Resident(e) = Resident(u) \ P /\ ~HasSurface(e, t)
          /\ P \in SUBSET Candidates(u, t)
          /\ Alike(s.surf[t], e.surf[t])
          /\ Alike(s.surf[s.target], e.surf[s.target])
      BY <2>4, <2>5, <3>3
    <3>5. Q = Candidates(u, t) \/ Enough(u, t, Q)
      OBVIOUS
    <3> HIDE DEF e, d, Evictable, Evicted, Sufficient
    <3>6. t \in Textures
      BY <1>2 DEF Surfaces
    <3>7. BytesOf(Resident(e)) + Bytes[t] > Budget => Cardinality(Resident(e)) <= 1
      <4>1. Resident(u) \in SUBSET Textures /\ P \in SUBSET Resident(u) /\ Q \in SUBSET P
        BY <3>2, <3>4 DEF Resident, Candidates
      <4>2. /\ BytesOf(Resident(e)) = BytesOf(Resident(u)) - BytesOf(P)
            /\ BytesOf(Q) <= BytesOf(P)
            /\ BytesOf(P) \in Nat /\ BytesOf(Q) \in Nat /\ BytesOf(Resident(u)) \in Nat
        <5>1. P \in SUBSET Textures /\ Q \in SUBSET Textures
          BY <4>1
        <5>2. BytesOf(Resident(e)) = BytesOf(Resident(u)) - BytesOf(P)
          BY <3>4, <4>1, BytesOfDifference
        <5>3. BytesOf(Q) <= BytesOf(P)
          BY <4>1, <5>1, BytesOfDifference
        <5> QED BY <4>1, <5>1, <5>2, <5>3, BytesFinite
      <4>3. u.residentBytes = BytesOf(Resident(u))
        BY <2>2 DEF Kept, Good, Accounts
      <4>4. CASE Q = Candidates(u, t)
        <5>1. Resident(e) \subseteq {u.target}
          <6>1. t \notin Resident(e)
            BY <3>4 DEF Resident
          <6>2. P = Candidates(u, t)
            BY <3>2, <3>4, <4>4
          <6> QED BY <3>4, <6>1, <6>2 DEF Candidates
        <5>2. IsFiniteSet({u.target}) /\ Cardinality({u.target}) = 1
          BY FS_Singleton
        <5>3. Cardinality(Resident(e)) <= Cardinality({u.target})
          BY ONLY <5>1, <5>2, FS_Subset
        <5> QED BY <5>2, <5>3
      <4>5. CASE Enough(u, t, Q)
        <5>1. BytesOf(Resident(u)) - BytesOf(Q) + Bytes[t] <= Budget
          BY <4>3, <4>5 DEF Enough
        <5>2. Bytes[t] \in Nat /\ Budget \in Nat
          BY <3>6, BoundsAssumption
        <5> QED BY <4>2, <5>1, <5>2
      <4> QED BY <3>5, <4>4, <4>5
    <3>8. Held(e.surf[t])
      BY <3>4 DEF Held, Alike
    <3>9. /\ Good(d, {t}) /\ Moved(e, d) /\ d.pend = {} /\ (~Clean => Good(d, {}))
          /\ HasSurface(d, t) /\ ~d.surf[t].busy /\ Placed(e.surf[t], d.surf[t])
          /\ \A q \in Surfaces \ {t} : Alike(e.surf[q], d.surf[q])
      BY <3>4, <3>6, <3>7, <3>8, CreatedKeeps DEF d
    <3>10. CASE o \in Done(d)
      <4>1. o.state = d /\ o.ok
        BY <3>10 DEF Done
      <4>2. Moved(s, d)
        <5>1. d \in State /\ e \in State
          BY <3>4, <3>9 DEF Good
        <5> QED BY <1>0, <3>4, <3>9, <5>1, MovedTwice
      <4>3. MadeResident(s, d, t)
        BY <1>0, <1>2, <3>4, <3>9 DEF MadeResident, Placed, Alike
      <4> QED BY <3>9, <4>1, <4>2, <4>3 DEF Kept
    <3>11. CASE o \in Stops(e)
      <4>1. Kept(e, o, {}) /\ ~o.ok
        BY <3>4, <3>11, StopsKeeps DEF Kept
      <4>2. e \in State
        BY <3>4 DEF Good
      <4>3. Kept(s, o, {})
        BY <1>0, <3>4, <4>1, <4>2, KeptTwice
      <4> QED BY <4>1, <4>3, Exempted DEF Kept
    <3> QED BY <3>1, <3>10, <3>11 DEF e, d
  <2>6. CASE f.ok /\ \E P \in Evictable(f.state) : \E c \in Candidates(f.state, t) \ P :
                       o \in EvictionStops(Evict(f.state, P), c)
    <3> DEFINE u == f.state
    <3>1. PICK P \in Evictable(u) : \E c \in Candidates(u, t) \ P : o \in EvictionStops(Evict(u, P), c)
      BY <2>6
    <3>2. PICK c \in Candidates(u, t) \ P : o \in EvictionStops(Evict(u, P), c)
      BY <3>1
    <3> DEFINE e == Evict(u, P)
    <3>3. Good(e, {}) /\ Moved(s, e) /\ Resident(e) = Resident(u) \ P
      BY <2>4, <2>6
    <3> HIDE DEF e
    <3>4. c \in Resident(e)
      BY <3>3 DEF Candidates
    <3>5. Kept(e, o, {}) /\ ~o.ok
      BY <3>2, <3>3, <3>4, EvictionStopsKeeps DEF e
    <3>6. e \in State
      BY <3>3 DEF Good
    <3>7. Kept(s, o, {})
      BY <1>0, <3>3, <3>5, <3>6, KeptTwice
    <3> QED BY <3>5, <3>7, Exempted DEF Kept
  <2> QED BY <2>1, <2>3, <2>5, <2>6
<1> QED BY <1>1, <1>2

(* What changed in the shadow is sent, and the surface counts again.       *)
LEMMA SendKeeps ==
  ASSUME NEW v, NEW t \in Surfaces, Good(v, {t}), ~Clean => Good(v, {}),
         v.surf[t].cpuValid, ~v.surf[t].gpuValid, HasSurface(v, t), t \notin v.pend, NEW r,
         Whole => /\ v.surf[t].shadow \in Images
                  /\ Over(v.surf[t].device, r, v.surf[t].shadow) = v.surf[t].shadow,
         NEW b \in SurfaceUpdate(v, t, r), NEW o,
         \/ ~b.ok /\ o = b
         \/ b.ok /\ o.ok /\ o.state = DropRedundantShadow(Uploaded(b.state, t), t)
  PROVE  /\ Kept(v, o, {})
         /\ \A u \in Surfaces \ {t} : o.state.surf[u] = v.surf[u]
         /\ o.ok => o.state.surf[t].gpuValid
<1> DEFINE x == v.surf[t]
<1>0. v \in State /\ x \in Surface /\ x.shadow # NoImage /\ HasShadow(v, t)
  BY DEF Good, State, Backed, HasShadow
<1>1. /\ Good(b.state, {t}) /\ (~b.ok => b.state.failures > 0) /\ b.state.pend = v.pend
      /\ \A u \in Surfaces \ {t} : b.state.surf[u] = v.surf[u]
      /\ ~b.ok => b.state.surf = v.surf
      /\ b.ok => b.state.surf[t] = Sent(v.surf[t], r)
      /\ Moved(v, b.state)
  <2>1. t \in {t}
    OBVIOUS
  <2> QED BY <1>0, <2>1, UpdateKeeps
<1>2. CASE ~b.ok
  <2>1. ~Clean
    <3>1. b.state.failures \in 0 .. MaxFailures
      BY <1>1 DEF Good, State
    <3> QED BY <1>1, <1>2, <3>1 DEF Clean
  <2>2. Good(b.state, {})
    BY <1>1, <1>2, <2>1, FailedUpload
  <2> QED BY <1>1, <1>2, <2>2 DEF Kept
<1>3. CASE b.ok
  <2> DEFINE w == b.state
             z == w.surf[t]
             e == Uploaded(w, t)
             g == DropRedundantShadow(e, t)
  <2>1. z = Sent(x, r) /\ w \in State
    BY <1>1, <1>3 DEF Good
  <2>2. /\ z.device = Over(x.device, r, x.shadow) /\ ~z.busy /\ z.shadow = x.shadow
        /\ z.cpuValid = x.cpuValid /\ z.gpuValid = x.gpuValid
    BY <1>0, <2>1 DEF Surface, Sent
  <2>3. HasSurface(w, t)
    <3>1. Over(x.device, r, x.shadow) \in Image
      BY <1>0, OverImage DEF Surface, HasSurface
    <3> QED BY <2>2, <3>1, NoImageIsNone DEF HasSurface
  <2>4. Whole => z.shadow \in Images /\ z.device = z.shadow
    BY <2>2
  <2> HIDE DEF z
  <2>5. /\ Good(e, {}) /\ Moved(w, e) /\ e.surf[t] = Renewed(z)
        /\ \A u \in Surfaces \ {t} : e.surf[u] = w.surf[u]
    <3>1. /\ w.surf[t].cpuValid /\ ~w.surf[t].gpuValid /\ ~w.surf[t].busy /\ t \notin w.pend
          /\ Good(w, {t})
          /\ Whole => w.surf[t].shadow \in Images /\ w.surf[t].device = w.surf[t].shadow
      BY <1>1, <2>2, <2>4 DEF z
    <3> QED BY <2>3, <3>1, UploadedKeeps DEF z
  <2> HIDE DEF e
  <2>6. /\ Good(g, {}) /\ Moved(e, g)
        /\ \A u \in Surfaces \ {t} : g.surf[u] = e.surf[u]
        /\ g.surf[t].gpuValid = e.surf[t].gpuValid
    BY <2>5, DropKeeps
  <2> HIDE DEF g
  <2>7. e.surf[t].gpuValid
    <3>1. z \in Surface
      BY <2>1 DEF State, z
    <3> QED BY <2>5, <3>1 DEF Renewed, Surface
  <2>8. Moved(v, g)
    <3>1. e \in State /\ g \in State
      BY <2>5, <2>6 DEF Good
    <3> QED BY <1>0, <1>1, <2>1, <2>5, <2>6, <3>1, MovedTwice
  <2>9. o.ok /\ o.state = g
    BY <1>3 DEF e, g
  <2> QED BY <1>1, <2>5, <2>6, <2>7, <2>8, <2>9 DEF Kept
<1> QED BY <1>2, <1>3

(* A valid surface is obtained.                                            *)
LEMMA EnsureGPUKeeps ==
  ASSUME NEW s, Good(s, {}), NEW t \in Surfaces, Held(s.surf[t]), NEW o \in EnsureGPU(s, t)
  PROVE  /\ Kept(s, o, {})
         /\ o.ok => /\ o.state.surf[t].gpuValid /\ HasSurface(o.state, t)
                    /\ s.target # t => Alike(s.surf[s.target], o.state.surf[s.target])
<1> DEFINE partial == t # Composition /\ HasSurface(s, t) /\ s.surf[t].dirty # {}
           Begin == IF ~HasSurface(s, t) \/ ~s.surf[t].gpuValid
                    THEN FlushQueued(s) ELSE Done(s)
           Sends(v) == Then(SurfaceUpdate(v, t, IF partial THEN v.surf[t].dirty ELSE Cells),
                            LAMBDA w : Done(DropRedundantShadow(Uploaded(w, t), t)))
           Rest(v) == IF v.surf[t].gpuValid THEN Done(DropRedundantShadow(v, t))
                      ELSE IF ~v.surf[t].cpuValid THEN Failed(v) ELSE Sends(v)
           x == s.surf[t]
<1>0. /\ s \in State /\ s.target \in Surfaces /\ x \in Surface
      /\ Backed(x) /\ (Whole => Sound(x, t))
  BY DEF Good, State
<1>1. PICK f \in Begin :
        \/ ~f.ok /\ o = f
        \/ f.ok /\ o \in Then(MakeResident(f.state, t), Rest)
  BY DEF EnsureGPU, Then
<1>2. /\ Kept(s, f, {})
      /\ \A q \in Surfaces : Alike(s.surf[q], f.state.surf[q])
      /\ f.ok /\ ~x.gpuValid => f.state.pend = {}
  <2>1. CASE ~HasSurface(s, t) \/ ~x.gpuValid
    BY <2>1, FlushKeeps DEF Kept
  <2>2. CASE ~(~HasSurface(s, t) \/ ~x.gpuValid)
    <3>1. f = [state |-> s, ok |-> TRUE]
      BY <2>2 DEF Done
    <3> QED BY <1>0, <2>2, <3>1, MovedTwice DEF Kept, Alike
  <2> QED BY <2>1, <2>2
<1>3. CASE ~f.ok /\ o = f
  BY <1>2, <1>3
<1>4. CASE f.ok /\ o \in Then(MakeResident(f.state, t), Rest)
  <2> DEFINE u == f.state
  <2>1. /\ Good(u, {}) /\ u \in State /\ Moved(s, u) /\ u.target = s.target
        /\ Held(u.surf[t]) /\ Alike(x, u.surf[t])
        /\ (~x.gpuValid => u.pend = {})
    BY <1>2, <1>4 DEF Kept, Good, Moved
  <2>2. PICK m \in MakeResident(u, t) :
          \/ ~m.ok /\ o = m
          \/ m.ok /\ o \in Rest(m.state)
    BY <1>4 DEF Then
  <2>3. /\ Kept(u, m, {t})
        /\ ~m.ok \/ ~Clean => Good(m.state, {})
        /\ m.ok => MadeResident(u, m.state, t)
    BY <2>1, MakeResidentKeeps
  <2>4. CASE ~m.ok /\ o = m
    <3>1. Kept(u, o, {})
      BY <2>3, <2>4 DEF Kept
    <3> QED BY <1>0, <2>1, <2>4, <3>1, KeptTwice
  <2>5. ASSUME m.ok, o \in Rest(m.state)
        PROVE  /\ Kept(m.state, o, {})
               /\ o.ok => o.state.surf[t].gpuValid
               /\ \A q \in Surfaces \ {t} : o.state.surf[q] = m.state.surf[q]
    <3> DEFINE v == m.state
               z == v.surf[t]
    <3>1. /\ Good(v, {t}) /\ v \in State /\ HasSurface(v, t) /\ Placed(u.surf[t], z)
          /\ (~Clean => Good(v, {})) /\ (~x.gpuValid => v.pend = {})
          /\ (HasSurface(u, t) => Good(v, {}) /\ z.device = u.surf[t].device)
      BY <2>1, <2>3, <2>5 DEF Kept, Good, MadeResident, Moved
    <3>2. /\ z.cpuValid = x.cpuValid /\ z.gpuValid = x.gpuValid /\ z.shadow = x.shadow
          /\ z.dirty = x.dirty
          /\ HasSurface(s, t) => Good(v, {}) /\ z.device = x.device
      BY <2>1, <3>1 DEF Placed, Alike, HasSurface
    <3>3. CASE z.gpuValid
      <4>1. Good(v, {})
        BY <1>0, <3>2, <3>3 DEF Backed, HasSurface
      <4>2. o.state = DropRedundantShadow(v, t) /\ o.ok
        <5>1. o \in Rest(v)
          BY <2>5
        <5> HIDE DEF Sends
        <5> QED BY <3>3, <5>1 DEF Done
      <4> HIDE DEF v, z
      <4>3. /\ Good(o.state, {}) /\ Moved(v, o.state)
            /\ \A q \in Surfaces \ {t} : o.state.surf[q] = v.surf[q]
            /\ o.state.surf[t].gpuValid = v.surf[t].gpuValid
        BY <4>1, <4>2, DropKeeps
      <4> QED BY <3>3, <4>2, <4>3 DEF Kept, v, z
    <3>4. CASE ~z.gpuValid
      <4>1. z.cpuValid /\ v.pend = {}
        BY <3>1, <3>2, <3>4 DEF Held
      <4>2. o \in Sends(v)
        BY <2>5, <3>4, <4>1
      <4> DEFINE r == IF partial THEN z.dirty ELSE Cells
      <4>3. PICK b \in SurfaceUpdate(v, t, r) :
              \/ ~b.ok /\ o = b
              \/ b.ok /\ o.ok /\ o.state = DropRedundantShadow(Uploaded(b.state, t), t)
        BY <4>2 DEF Then, Done
      <4>4. ASSUME Whole
            PROVE  z.shadow \in Images /\ Over(z.device, r, z.shadow) = z.shadow
        <5>1. x.shadow \in Images
          BY <1>0, <3>2, <4>1, <4>4 DEF Sound
        <5>2. z.device \in Image /\ z.shadow \in Image
          <6>1. z \in Surface /\ z.device # NoImage
            BY <3>1 DEF State, HasSurface
          <6> QED BY <3>2, <5>1, <6>1, OverImage DEF Surface
        <5>3. CASE r = Cells
          BY <3>2, <5>1, <5>2, <5>3, OverImage
        <5>4. CASE r # Cells
          <6>1. partial /\ r = x.dirty /\ z.device = x.device /\ x.device # NoImage
            BY <3>2, <5>4 DEF HasSurface
          <6>2. Rects # {Cells}
            BY <1>0, <5>4, <6>1 DEF Backed
          <6>3. Clean
            BY <4>4, <6>2 DEF Whole
          <6>4. \A c \in Cells \ r : z.device[c] = z.shadow[c]
            BY <1>0, <3>2, <3>4, <4>1, <4>4, <6>1, <6>3 DEF Sound
          <6>5. \A c \in Cells : Over(z.device, r, z.shadow)[c] = z.shadow[c]
            BY <5>2, <6>4, OverImage
          <6>6. Over(z.device, r, z.shadow) \in Image
            BY <5>2, OverImage
          <6>7. Over(z.device, r, z.shadow) = z.shadow
            BY <5>2, <6>5, <6>6 DEF Image
          <6> QED BY <3>2, <5>1, <6>7
        <5> QED BY <5>3, <5>4
      <4> HIDE DEF r
      <4>5. /\ Good(v, {t}) /\ (~Clean => Good(v, {}))
            /\ v.surf[t].cpuValid /\ ~v.surf[t].gpuValid /\ HasSurface(v, t) /\ t \notin v.pend
            /\ Whole => /\ v.surf[t].shadow \in Images
                        /\ Over(v.surf[t].device, r, v.surf[t].shadow) = v.surf[t].shadow
        BY <3>1, <3>4, <4>1, <4>4
      <4> HIDE DEF v, z
      <4> QED BY <4>3, <4>5, SendKeeps DEF v
    <3> QED BY <3>3, <3>4
  <2>6. CASE m.ok /\ o \in Rest(m.state)
    <3>1. Kept(m.state, o, {}) /\ (o.ok => o.state.surf[t].gpuValid)
          /\ \A q \in Surfaces \ {t} : o.state.surf[q] = m.state.surf[q]
      BY <2>5, <2>6
    <3>2. m.state \in State /\ Moved(u, m.state) /\ MadeResident(u, m.state, t)
      BY <2>3, <2>6 DEF Kept, Good
    <3>3. Moved(s, m.state)
      BY <1>0, <2>1, <3>2, MovedTwice
    <3>4. Kept(s, o, {})
      BY <1>0, <3>1, <3>2, <3>3, KeptTwice
    <3>5. o.ok => HasSurface(o.state, t)
      BY <3>1 DEF Kept, Good, Backed, HasSurface
    <3>6. s.target # t => Alike(s.surf[s.target], o.state.surf[s.target])
      <4>1. SUFFICES ASSUME s.target # t
                     PROVE  Alike(s.surf[s.target], o.state.surf[s.target])
        OBVIOUS
      <4>2. Alike(s.surf[s.target], u.surf[s.target])
        BY <1>0, <1>2
      <4>3. Alike(u.surf[s.target], m.state.surf[s.target])
        BY <2>1, <3>2, <4>1 DEF MadeResident
      <4>4. o.state.surf[s.target] = m.state.surf[s.target]
        BY <1>0, <3>1, <4>1
      <4> QED BY <4>2, <4>3, <4>4 DEF Alike
    <3> QED BY <3>1, <3>4, <3>5, <3>6
  <2> QED BY <2>2, <2>4, <2>6
<1> QED BY <1>1, <1>3, <1>4

-----------------------------------------------------------------------------
(***************************************************************************)
(* Drawing by the core.                                                    *)
(***************************************************************************)

\* A surface drawn into by the core.
Inked(x, r, from) == [x EXCEPT !.device = Over(x.device, r, from)]

\* A state with one more command, which names refs, in the pending batch.
Queueing(s, d, t, refs, y) ==
  /\ d \in State /\ d.target = s.target /\ d.pend = s.pend \cup refs
  /\ d.residentBytes = s.residentBytes /\ d.raced = s.raced /\ d.failures = s.failures
  /\ d.surf[t] = y /\ \A u \in Surfaces \ {t} : d.surf[u] = s.surf[u]

(* A command joins the batch, or is refused, or joins it and an error is   *)
(* reported all the same.                                                  *)
LEMMA SubmitKeeps ==
  ASSUME NEW s, NEW t \in Surfaces, Good(s, {t}), ~Clean => Good(s, {}), t = s.target,
         HasSurface(s, t), NEW refs \in SUBSET Surfaces, \A u \in refs : s.surf[u].lock = {},
         NEW r \in SUBSET Cells, NEW from, Paint(from, r), NEW b \in Submit(s, t, refs, r, from)
  PROVE  /\ b.ok => Queueing(s, b.state, t, refs, Inked(s.surf[t], r, from))
         /\ ~b.ok => Good(b.state, {}) /\ b.state.failures > 0
<1> DEFINE x == s.surf[t]
           y == Inked(x, r, from)
           w == With(s, t, y)
           q == [s EXCEPT !.surf[t].device = Over(@, r, from), !.pend = @ \cup refs]
<1>0. s \in State /\ x \in Surface /\ x.device # NoImage /\ x.device \in Image
  BY DEF Good, State, HasSurface, Surface
<1>1. /\ Over(x.device, r, from) \in Image
      /\ Whole /\ x.device \in Images => Over(x.device, r, from) \in Images
  BY <1>0, Overlay
<1>2. /\ y \in Surface /\ y.device = Over(x.device, r, from)
      /\ y.live = x.live /\ y.lock = x.lock /\ y.keepShadow = x.keepShadow
      /\ y.shadow = x.shadow /\ y.cpuValid = x.cpuValid /\ y.gpuValid = x.gpuValid
      /\ y.dirty = x.dirty /\ y.inUse = x.inUse /\ y.busy = x.busy
  BY <1>0, <1>1 DEF Surface, Inked
<1>3. q = [w EXCEPT !.pend = @ \cup refs]
  <2>1. q = [s EXCEPT !.surf = [s.surf EXCEPT ![t] = y], !.pend = s.pend \cup refs]
    BY DEF Inked
  <2>2. w = [s EXCEPT !.surf = [s.surf EXCEPT ![t] = y]]
    BY DEF With
  <2>3. w.pend = s.pend
    BY <1>0, <1>2, WithFields
  <2> HIDE DEF q, y, w
  <2> QED BY <2>1, <2>2, <2>3
<1> HIDE DEF y
<1>4. /\ w \in State /\ w.surf[t] = y /\ \A u \in Surfaces \ {t} : w.surf[u] = s.surf[u]
      /\ w.target = s.target /\ w.pend = s.pend
      /\ w.residentBytes = s.residentBytes /\ w.raced = s.raced /\ w.failures = s.failures
  BY <1>0, <1>2, WithFields
<1> HIDE DEF w, q
<1>5. /\ q \in State /\ q.surf = w.surf /\ q.target = w.target /\ q.pend = w.pend \cup refs
      /\ q.residentBytes = w.residentBytes /\ q.raced = w.raced /\ q.failures = w.failures
  BY <1>3, <1>4 DEF State
<1>6. Queueing(s, q, t, refs, Inked(x, r, from))
  BY <1>4, <1>5 DEF Queueing, y
<1>7. ASSUME ~Clean PROVE Good(q, {})
  <2>1. Good(s, {}) /\ Backed(x) /\ (Whole => Sound(x, t))
    BY <1>7 DEF Good
  <2>2. Backed(y) /\ (Held(x) => Held(y)) /\ y.device # NoImage /\ (Whole => Sound(y, t))
    BY <1>0, <1>1, <1>2, <1>7, <2>1, NoImageIsNone DEF Backed, Held, Sound
  <2>3. Good(w, {})
    <3>1. /\ {} \subseteq {} \cup {t} /\ (HasSurface(s, t) <=> y.device # NoImage)
          /\ t = Composition => y.shadow # NoImage
          /\ y.lock # {} => y.cpuValid
      BY <1>2, <2>1, <2>2 DEF Good, HasSurface, HasShadow
    <3> QED BY <1>2, <1>7, <2>1, <2>2, <3>1, WithKeeps DEF w
  <2>4. \A u \in Surfaces : q.surf[u].lock # {} =>
                             u \in Streaming /\ q.surf[u].cpuValid /\ u \notin q.pend
    <3>1. \A u \in Surfaces : w.surf[u].lock # {} =>
                             u \in Streaming /\ w.surf[u].cpuValid /\ u \notin w.pend
      BY <2>3 DEF Good
    <3>2. \A u \in refs : w.surf[u].lock = {}
      BY <1>2, <1>4
    <3> QED BY <1>5, <3>1, <3>2
  <2>5. Accounts(q)
    <3>1. Resident(q) = Resident(w)
      BY <1>5 DEF Resident, HasSurface
    <3> QED BY <1>5, <2>3, <3>1 DEF Good, Accounts
  <2> QED BY <1>5, <1>7, <2>3, <2>4, <2>5 DEF Good, HasShadow, HasSurface
<1>8. \/ b \in Call(s, q)
      \/ b \in Stops(q)
  BY DEF Submit, q
<1>9. CASE b.ok
  <2>1. b \notin Stops(q)
    BY <1>9 DEF Stops, Failed
  <2>2. b.state = q
    BY <1>8, <1>9, <2>1 DEF Call, Done, Failed
  <2> QED BY <1>6, <1>9, <2>2
<1>10. CASE ~b.ok
  <2>1. b \in Call(s, q) => s.failures < MaxFailures
    BY <1>10 DEF Call, Done, Failed
  <2>2. b \in Stops(q) => q.failures < MaxFailures
    BY DEF Stops
  <2>3. ~Clean
    BY <1>0, <1>4, <1>5, <1>8, <2>1, <2>2, BoundsAssumption DEF Clean, State
  <2>4. CASE b \in Call(s, q)
    BY <1>10, <2>3, <2>4, CallKeeps
  <2>5. CASE b \in Stops(q)
    BY <1>7, <1>10, <2>3, <2>5, StopsKeeps
  <2> QED BY <1>8, <2>4, <2>5
<1> QED BY <1>9, <1>10

\* A surface of which only the core's copy is current.
Marked(x, t) ==
  [x EXCEPT !.gpuValid = TRUE, !.cpuValid = FALSE,
            !.shadow = IF x.shadow = NoImage THEN NoImage ELSE Plain(Junk),
            !.inUse = t # Composition, !.dirty = {}]

\* A state with one more command of refs in the batch, all but t marked in use.
Joined(s, q, t, refs) ==
  /\ q \in State /\ q.target = s.target /\ q.pend = s.pend \cup refs
  /\ q.residentBytes = s.residentBytes /\ q.raced = s.raced /\ q.failures = s.failures
  /\ \A u \in Surfaces \ {t} :
       /\ q.surf[u] = s.surf[u] \/ q.surf[u] = [s.surf[u] EXCEPT !.inUse = TRUE]
       /\ u \in refs => q.surf[u].inUse

(* After a command of the core the target counts as written by the core.   *)
LEMMA MarkKeeps ==
  ASSUME NEW s, NEW t \in Surfaces, Good(s, {t}), t = s.target, HasSurface(s, t),
         NEW refs \in SUBSET Surfaces, \A u \in refs : s.surf[u].lock = {},
         NEW r \in SUBSET Cells, NEW from, Paint(from, r),
         Whole => s.surf[t].device \in Images \/ r = Cells,
         NEW q, Joined(s, q, t, refs), q.surf[t] = Inked(s.surf[t], r, from)
  PROVE  /\ Good(MarkGPUWrite(q, t), {})
         /\ MarkGPUWrite(q, t).failures = s.failures
         /\ s.surf[t].live /\ (s.surf[t].gpuValid \/ r = Cells) =>
              Drew(s, MarkGPUWrite(q, t), t, r, from)
<1> DEFINE x == s.surf[t]
           z == q.surf[t]
           y == Marked(z, t)
           d == MarkGPUWrite(q, t)
<1>20. /\ q \in State /\ q.target = s.target /\ q.pend = s.pend \cup refs
       /\ q.residentBytes = s.residentBytes /\ q.raced = s.raced /\ q.failures = s.failures
       /\ \A u \in Surfaces \ {t} :
            /\ q.surf[u] = s.surf[u] \/ q.surf[u] = [s.surf[u] EXCEPT !.inUse = TRUE]
            /\ u \in refs => q.surf[u].inUse
  BY DEF Joined
<1>0. /\ s \in State /\ x \in Surface /\ x.device # NoImage /\ x.device \in Image
      /\ z \in Surface /\ \A u \in Surfaces : s.surf[u] \in Surface
  BY <1>20 DEF Good, State, HasSurface, Surface
<1>1. /\ Over(x.device, r, from) \in Image
      /\ Whole => Over(x.device, r, from) \in Images
  <2>1. /\ Over(x.device, r, from) \in Image
        /\ Whole /\ (x.device \in Images \/ r = Cells) => Over(x.device, r, from) \in Images
    BY <1>0, Overlay
  <2> QED BY <2>1
<1>2. /\ z.device = Over(x.device, r, from) /\ z.shadow = x.shadow
      /\ z.live = x.live /\ z.lock = x.lock /\ z.keepShadow = x.keepShadow
  BY <1>0 DEF Surface, Inked
<1> HIDE DEF z
<1>3. Plain(Junk) \in Image
  BY DEF Plain, Image, Pixels
<1>4. /\ y \in Surface /\ y.gpuValid /\ ~y.cpuValid /\ y.device = z.device
      /\ y.live = z.live /\ y.lock = z.lock /\ y.keepShadow = z.keepShadow
      /\ (y.inUse <=> t # Composition) /\ y.dirty = {}
      /\ y.shadow = IF z.shadow = NoImage THEN NoImage ELSE Plain(Junk)
  <2> DEFINE i == IF z.shadow = NoImage THEN NoImage ELSE Plain(Junk)
             b == t # Composition
  <2>1. i \in Image \cup {NoImage} /\ b \in BOOLEAN
    BY <1>3
  <2>2. y = [z EXCEPT !.gpuValid = TRUE, !.cpuValid = FALSE, !.shadow = i, !.inUse = b, !.dirty = {}]
    BY DEF Marked
  <2> HIDE DEF i, b, y
  <2>3. /\ y \in Surface /\ y.gpuValid /\ ~y.cpuValid /\ y.device = z.device
        /\ y.live = z.live /\ y.lock = z.lock /\ y.keepShadow = z.keepShadow
        /\ y.inUse = b /\ y.dirty = {} /\ y.shadow = i
    BY <1>0, <2>1, <2>2 DEF Surface
  <2> QED BY <2>3 DEF i, b
<1>5. d = With(q, t, y)
  BY DEF MarkGPUWrite, With, Marked, HasShadow, z
<1> HIDE DEF y, d
<1>6. /\ d \in State /\ d.surf[t] = y /\ \A u \in Surfaces \ {t} : d.surf[u] = q.surf[u]
      /\ d.target = s.target /\ d.pend = s.pend \cup refs
      /\ d.residentBytes = s.residentBytes /\ d.raced = s.raced /\ d.failures = s.failures
  BY <1>4, <1>5, <1>20, WithFields
<1>7. Hull({}) = {}
  BY DEF Hull
<1>8. Backed(y) /\ Held(y) /\ y.device # NoImage /\ (Whole => Sound(y, t))
  BY <1>1, <1>2, <1>4, <1>7, NoImageIsNone DEF Backed, Held, Sound
<1>9. \A u \in Surfaces \ {t} :
        LET a == s.surf[u]
            e == d.surf[u]
        IN  /\ e.live = a.live /\ e.shadow = a.shadow /\ e.device = a.device
            /\ e.cpuValid = a.cpuValid /\ e.gpuValid = a.gpuValid /\ e.lock = a.lock
            /\ e.dirty = a.dirty /\ e.busy = a.busy
            /\ a.inUse => e.inUse
            /\ u \in refs => e.inUse
  <2>1. \A a \in Surface : LET e == [a EXCEPT !.inUse = TRUE]
                           IN  /\ e.live = a.live /\ e.shadow = a.shadow /\ e.device = a.device
                               /\ e.cpuValid = a.cpuValid /\ e.gpuValid = a.gpuValid
                               /\ e.lock = a.lock /\ e.dirty = a.dirty /\ e.busy = a.busy
                               /\ e.inUse
    BY DEF Surface
  <2>2. SUFFICES ASSUME NEW u \in Surfaces \ {t}
                 PROVE  LET a == s.surf[u]
                            e == d.surf[u]
                        IN  /\ e.live = a.live /\ e.shadow = a.shadow /\ e.device = a.device
                            /\ e.cpuValid = a.cpuValid /\ e.gpuValid = a.gpuValid
                            /\ e.lock = a.lock /\ e.dirty = a.dirty /\ e.busy = a.busy
                            /\ a.inUse => e.inUse
                            /\ u \in refs => e.inUse
    OBVIOUS
  <2>3. /\ s.surf[u] \in Surface /\ (u \in refs => d.surf[u].inUse)
        /\ d.surf[u] = s.surf[u] \/ d.surf[u] = [s.surf[u] EXCEPT !.inUse = TRUE]
    BY <1>0, <1>6, <1>20
  <2>4. CASE d.surf[u] = s.surf[u]
    BY <2>3, <2>4
  <2>5. CASE d.surf[u] = [s.surf[u] EXCEPT !.inUse = TRUE]
    BY <2>1, <2>3, <2>5
  <2> QED BY <2>3, <2>4, <2>5
<1>10. \A u \in Surfaces : Backed(d.surf[u])
  <2>1. \A u \in Surfaces : Backed(s.surf[u])
    BY DEF Good
  <2> QED BY <1>6, <1>8, <1>9, <2>1 DEF Backed, Held
<1>11. Whole => \A u \in Surfaces : Sound(d.surf[u], u)
  <2>1. Whole => \A u \in Surfaces \ {t} : Sound(s.surf[u], u)
    BY DEF Good
  <2> QED BY <1>6, <1>8, <1>9, <2>1 DEF Sound
<1>12. \A u \in Surfaces : d.surf[u].lock # {} =>
                            u \in Streaming /\ d.surf[u].cpuValid /\ u \notin d.pend
  <2>1. \A u \in Surfaces : s.surf[u].lock # {} =>
                            u \in Streaming /\ s.surf[u].cpuValid /\ u \notin s.pend
    BY DEF Good
  <2>2. y.lock = {}
    BY <1>2, <1>4, <2>1 DEF Good
  <2> QED BY <1>6, <1>9, <2>1, <2>2
<1>13. Clean => \A u \in Textures : d.surf[u].busy \/ u \in d.pend => d.surf[u].inUse
  <2>1. Clean => \A u \in Textures \ {t} : s.surf[u].busy \/ u \in s.pend => s.surf[u].inUse
    BY DEF Good
  <2>2. t \in Textures => y.inUse
    BY <1>4, NamesAssumption
  <2>3. Textures \subseteq Surfaces
    BY DEF Surfaces
  <2> QED BY <1>6, <1>9, <2>1, <2>2, <2>3
<1>14. /\ d.surf[Composition].live /\ HasShadow(d, Composition) /\ HasSurface(d, Composition)
       /\ d.target \notin Streaming /\ Held(d.surf[d.target])
  <2>1. Composition \in Surfaces
    BY DEF Surfaces
  <2>2. /\ s.surf[Composition].live /\ HasShadow(s, Composition) /\ HasSurface(s, Composition)
        /\ s.target \notin Streaming
    BY DEF Good
  <2>3. y.shadow # NoImage <=> x.shadow # NoImage
    BY <1>2, <1>3, <1>4, NoImageIsNone
  <2> QED BY <1>2, <1>4, <1>6, <1>8, <1>9, <2>1, <2>2, <2>3 DEF HasShadow, HasSurface
<1>15. Accounts(d) /\ (MaxFailures <= 1 => ~d.raced)
  <2>1. Resident(d) = Resident(s)
    BY <1>0, <1>6, <1>8, <1>9 DEF Resident, HasSurface, Surfaces
  <2>2. Accounts(s) /\ (MaxFailures <= 1 => ~s.raced)
    BY DEF Good
  <2> QED BY <1>6, <2>1, <2>2 DEF Accounts
<1>16. Good(d, {})
  <2>1. Textures \ {} = Textures /\ Surfaces \ {} = Surfaces
    OBVIOUS
  <2> QED BY <1>6, <1>10, <1>11, <1>12, <1>13, <1>14, <1>15, <2>1 DEF Good
<1>17. x.live /\ (x.gpuValid \/ r = Cells) => Drew(s, d, t, r, from)
  <2>1. SUFFICES ASSUME x.live, x.gpuValid \/ r = Cells
                 PROVE  Drew(s, d, t, r, from)
    OBVIOUS
  <2>2. ImageOf(y) = Over(x.device, r, from)
    BY <1>2, <1>4, <2>1 DEF ImageOf
  <2>3. Over(x.device, r, from) = Over(ImageOf(x), r, from)
    <3>1. CASE x.gpuValid
      BY <2>1, <3>1 DEF ImageOf
    <3>2. CASE r = Cells
      BY <3>2, DrawnOver
    <3> QED BY <2>1, <3>1, <3>2
  <2>4. \A u \in Surfaces \ {t} :
          d.surf[u].live = s.surf[u].live /\ ImageOf(d.surf[u]) = ImageOf(s.surf[u])
    BY <1>9 DEF ImageOf
  <2> QED BY <1>2, <1>4, <1>6, <2>2, <2>3, <2>4 DEF Drew
<1> QED BY <1>6, <1>16, <1>17 DEF d

-----------------------------------------------------------------------------
(***************************************************************************)
(* Drawing by the CPU into a surface of the core.                          *)
(***************************************************************************)

\* The region is in the shadow, and nobody else uses the surface.
Prepared(d, t, r) ==
  /\ d.surf[t].gpuValid /\ HasSurface(d, t) /\ HasShadow(d, t) /\ d.pend = {}
  /\ ~d.surf[t].cpuValid => \A c \in r : d.surf[t].shadow[c] = d.surf[t].device[c]

(* The last steps of PrepareCPURegion, once the surface is valid.          *)
LEMMA RegionRead ==
  ASSUME NEW v, Good(v, {}), NEW t \in Surfaces, NEW r \in SUBSET Cells, v.pend = {},
         v.surf[t].gpuValid, HasSurface(v, t), NEW a \in AllocateShadow(v, t), NEW o,
         \/ ~a.ok /\ o = a
         \/ /\ a.ok /\ a.state.surf[t].cpuValid
            /\ o.ok /\ o.state = a.state
         \/ /\ a.ok /\ ~a.state.surf[t].cpuValid
            /\ \E b \in SurfaceRead(a.state, t, r) :
                 \/ ~b.ok /\ o = b
                 \/ /\ b.ok /\ o.ok
                    /\ o.state = TouchSurface([b.state EXCEPT !.surf[t].inUse = FALSE], t)
  PROVE  Kept(v, o, {}) /\ (o.ok => Prepared(o.state, t, r))
<1>1. /\ Kept(v, a, {}) /\ a.state.pend = v.pend
      /\ \/ a.state.surf[t] = v.surf[t]
         \/ /\ ~v.surf[t].cpuValid
            /\ a.state.surf[t] = [v.surf[t] EXCEPT !.shadow = Plain(Junk)]
      /\ a.ok => HasShadow(a.state, t)
  BY AllocateKeeps
<1> DEFINE w == a.state
           z == w.surf[t]
<1>2. /\ Good(w, {}) /\ w \in State /\ z \in Surface /\ Moved(v, w) /\ w.pend = {}
      /\ v \in State /\ v.surf[t] \in Surface
  BY <1>1 DEF Kept, Good, State
<1>3. z.gpuValid /\ z.device = v.surf[t].device /\ HasSurface(w, t)
  BY <1>1, <1>2 DEF Surface, HasSurface
<1>4. CASE ~a.ok /\ o = a
  BY <1>1, <1>4
<1>5. CASE a.ok /\ z.cpuValid /\ o.ok /\ o.state = w
  BY <1>1, <1>2, <1>3, <1>5 DEF Kept, Prepared
<1>6. CASE /\ a.ok /\ ~z.cpuValid
           /\ \E b \in SurfaceRead(w, t, r) :
                \/ ~b.ok /\ o = b
                \/ /\ b.ok /\ o.ok
                   /\ o.state = TouchSurface([b.state EXCEPT !.surf[t].inUse = FALSE], t)
  <2>1. PICK b \in SurfaceRead(w, t, r) :
          \/ ~b.ok /\ o = b
          \/ /\ b.ok /\ o.ok
             /\ o.state = TouchSurface([b.state EXCEPT !.surf[t].inUse = FALSE], t)
    BY <1>6
  <2>2. HasShadow(w, t) /\ ~z.cpuValid
    BY <1>1, <1>6
  <2>3. /\ Good(b.state, {}) /\ Moved(w, b.state) /\ (~b.ok => b.state.failures > 0)
        /\ b.state.pend = w.pend
        /\ b.ok => b.state.surf[t] = Filled(z, r)
    <3>1. /\ Good(w, {}) /\ t \notin w.pend /\ HasSurface(w, t) /\ HasShadow(w, t)
          /\ w.surf[t].gpuValid /\ ~w.surf[t].cpuValid
      BY <1>2, <1>3, <2>2
    <3> HIDE DEF w, z
    <3> QED BY <3>1, ReadKeeps DEF z
  <2>4. CASE ~b.ok /\ o = b
    <3>1. Kept(w, o, {})
      BY <2>3, <2>4 DEF Kept
    <3> QED BY <1>2, <2>4, <3>1, KeptTwice
  <2>5. CASE b.ok /\ o.ok /\ o.state = TouchSurface([b.state EXCEPT !.surf[t].inUse = FALSE], t)
    <3> DEFINE c == b.state
               e == c.surf[t]
               y == [e EXCEPT !.inUse = FALSE]
               d == [c EXCEPT !.surf[t].inUse = FALSE]
               g == TouchSurface(d, t)
    <3>1. Over(z.shadow, r, z.device) \in Image
          /\ \A q \in Cells : Over(z.shadow, r, z.device)[q]
                                = IF q \in r THEN z.device[q] ELSE z.shadow[q]
      <4>1. z.shadow \in Image /\ z.device \in Image
        BY <1>2, <1>3, <2>2 DEF Surface, HasSurface, HasShadow
      <4> QED BY <4>1, OverImage
    <3>2. /\ Good(c, {}) /\ c \in State /\ e \in Surface /\ Moved(w, c) /\ c.pend = {}
          /\ ~e.busy /\ e.shadow = Over(z.shadow, r, z.device) /\ e.device = z.device
          /\ e.gpuValid = z.gpuValid /\ e.cpuValid = z.cpuValid
      <4>1. e = Filled(z, r) /\ Good(c, {}) /\ c \in State /\ e \in Surface /\ Moved(w, c) /\ c.pend = {}
        BY <1>2, <2>3, <2>5 DEF Good, State
      <4> QED BY <1>2, <4>1 DEF Filled, Surface
    <3>3. /\ y \in Surface /\ ~y.inUse
          /\ y.live = e.live /\ y.shadow = e.shadow /\ y.device = e.device
          /\ y.gpuValid = e.gpuValid /\ y.cpuValid = e.cpuValid /\ y.keepShadow = e.keepShadow
          /\ y.lock = e.lock /\ y.dirty = e.dirty /\ y.busy = e.busy
      BY <3>2 DEF Surface
    <3>4. d = With(c, t, y)
      BY DEF With
    <3> HIDE DEF e, y, d
    <3>5. Backed(e) /\ (Whole => Sound(e, t)) /\ (e.lock # {} => e.cpuValid)
      BY <3>2 DEF Good, e
    <3>6. Backed(y) /\ ImageOf(y) = ImageOf(e) /\ (Whole => Sound(y, t)) /\ (Held(e) => Held(y))
      BY <3>3, <3>5 DEF Backed, Held, ImageOf, Sound
    <3>7. y.shadow # NoImage /\ y.device # NoImage
      BY <1>3, <3>1, <3>2, <3>3, NoImageIsNone DEF HasSurface
    <3>8. Good(d, {}) /\ Moved(c, d)
      <4>1. /\ {} \subseteq {} \cup {t} /\ (HasSurface(c, t) <=> y.device # NoImage)
            /\ t \notin c.pend
        BY <3>2, <3>3, <3>7 DEF HasSurface, e
      <4> QED BY <3>2, <3>3, <3>4, <3>5, <3>6, <3>7, <4>1, WithKeeps DEF e
    <3>9. d.surf[t] = y /\ d.pend = {}
      BY <3>2, <3>3, <3>4, WithFields
    <3>10. Good(g, {}) /\ Moved(d, g) /\ g.pend = d.pend /\ Alike(d.surf[t], g.surf[t])
      BY <3>8, TouchKeeps
    <3> HIDE DEF g
    <3>11. d \in State /\ g \in State
      BY <3>8, <3>10 DEF Good
    <3>12. Moved(v, g)
      <4>1. Moved(v, c)
        BY <1>2, <3>2, MovedTwice
      <4>2. Moved(v, d)
        BY <1>2, <3>2, <3>8, <3>11, <4>1, MovedTwice
      <4> QED BY <1>2, <3>10, <3>11, <4>2, MovedTwice
    <3>13. Prepared(g, t, r)
      <4>1. /\ g.surf[t].gpuValid = y.gpuValid /\ g.surf[t].shadow = y.shadow
            /\ g.surf[t].device = y.device /\ g.pend = {}
        BY <3>9, <3>10 DEF Alike
      <4>2. /\ y.gpuValid /\ y.shadow = Over(z.shadow, r, z.device) /\ y.device = z.device
        BY <1>3, <3>2, <3>3
      <4>3. \A q \in r : g.surf[t].shadow[q] = g.surf[t].device[q]
        BY <3>1, <4>1, <4>2
      <4> QED BY <3>7, <4>1, <4>2, <4>3 DEF Prepared, HasSurface, HasShadow
    <3> QED BY <2>5, <3>10, <3>12, <3>13 DEF Kept, g, d
  <2> QED BY <2>1, <2>4, <2>5
<1> QED BY <1>4, <1>5, <1>6

(* The region a primitive will be drawn in is made available to the CPU.   *)
LEMMA PrepareKeeps ==
  ASSUME NEW s, Good(s, {}), NEW t \in Surfaces, Held(s.surf[t]), NEW r \in SUBSET Cells,
         NEW o \in PrepareCPURegion(s, t, r)
  PROVE  Kept(s, o, {}) /\ (o.ok => Prepared(o.state, t, r)) /\ o.state.target = s.target
<1> DEFINE Idle(x) == Done(TouchSurface([x EXCEPT !.surf[t].inUse = FALSE], t))
           Read(w) == IF w.surf[t].cpuValid THEN Done(w)
                      ELSE Then(SurfaceRead(w, t, r), Idle)
           Shadowed(v) == Then(AllocateShadow(v, t), Read)
           Uploads(u) == Then(EnsureGPU(u, t), Shadowed)
<1>0. s \in State
  BY DEF Good
<1>1. PICK f \in FlushQueued(s) : \/ ~f.ok /\ o = f
                                  \/ f.ok /\ o \in Uploads(f.state)
  <2> HIDE DEF Shadowed
  <2> QED BY DEF PrepareCPURegion, Then, Shadowed
<1>2. /\ Kept(s, f, {}) /\ (f.ok => f.state.pend = {})
      /\ \A q \in Surfaces : Alike(s.surf[q], f.state.surf[q])
  BY FlushKeeps DEF Kept
<1>3. Kept(s, o, {}) => o.state.target = s.target
  BY DEF Kept, Moved
<1>4. CASE ~f.ok /\ o = f
  BY <1>2, <1>3, <1>4
<1>5. CASE f.ok /\ o \in Uploads(f.state)
  <2> DEFINE u == f.state
  <2>1. Good(u, {}) /\ Held(u.surf[t]) /\ Moved(s, u) /\ u \in State /\ u.pend = {}
    BY <1>2, <1>5 DEF Kept, Good, Moved
  <2>2. PICK g \in EnsureGPU(u, t) : \/ ~g.ok /\ o = g
                                     \/ g.ok /\ o \in Shadowed(g.state)
    <3> HIDE DEF Shadowed
    <3> QED BY <1>5 DEF Then
  <2> HIDE DEF u
  <2>3. Kept(u, g, {}) /\ (g.ok => g.state.surf[t].gpuValid /\ HasSurface(g.state, t))
    BY <2>1, EnsureGPUKeeps
  <2>4. CASE ~g.ok /\ o = g
    BY <1>0, <1>3, <2>1, <2>3, <2>4, KeptTwice
  <2>5. CASE g.ok /\ o \in Shadowed(g.state)
    <3> DEFINE v == g.state
    <3>1. Good(v, {}) /\ v \in State /\ v.pend = {} /\ Moved(u, v)
      BY <2>1, <2>3 DEF Kept, Good, Moved
    <3>2. v.surf[t].gpuValid /\ HasSurface(v, t)
      BY <2>3, <2>5
    <3>3. PICK a \in AllocateShadow(v, t) : \/ ~a.ok /\ o = a
                                            \/ a.ok /\ o \in Read(a.state)
      <4> HIDE DEF Read
      <4> QED BY <2>5 DEF Then
    <3> HIDE DEF v
    <3>4. \/ ~a.ok /\ o = a
          \/ /\ a.ok /\ a.state.surf[t].cpuValid
             /\ o.ok /\ o.state = a.state
          \/ /\ a.ok /\ ~a.state.surf[t].cpuValid
             /\ \E b \in SurfaceRead(a.state, t, r) :
                  \/ ~b.ok /\ o = b
                  \/ /\ b.ok /\ o.ok
                     /\ o.state = TouchSurface([b.state EXCEPT !.surf[t].inUse = FALSE], t)
      <4>1. CASE ~a.ok /\ o = a
        BY <4>1
      <4>2. CASE a.ok /\ o \in Read(a.state) /\ a.state.surf[t].cpuValid
        <5> HIDE DEF Idle
        <5> QED BY <4>2 DEF Done
      <4>3. CASE a.ok /\ o \in Read(a.state) /\ ~a.state.surf[t].cpuValid
        <5>1. PICK b \in SurfaceRead(a.state, t, r) : \/ ~b.ok /\ o = b
                                                      \/ b.ok /\ o \in Idle(b.state)
          <6> HIDE DEF Idle
          <6> QED BY <4>3 DEF Then
        <5>2. b.ok /\ o \in Idle(b.state) =>
                o.ok /\ o.state = TouchSurface([b.state EXCEPT !.surf[t].inUse = FALSE], t)
          BY DEF Done
        <5> HIDE DEF Idle
        <5> QED BY <4>3, <5>1, <5>2
      <4> QED BY <3>3, <4>1, <4>2, <4>3
    <3>5. Kept(v, o, {}) /\ (o.ok => Prepared(o.state, t, r))
      BY <3>1, <3>2, <3>4, RegionRead
    <3>6. Moved(s, v)
      BY <1>0, <2>1, <3>1, MovedTwice
    <3>7. Kept(s, o, {})
      BY <1>0, <3>1, <3>5, <3>6, KeptTwice
    <3> QED BY <1>3, <3>5, <3>7
  <2> QED BY <2>2, <2>4, <2>5
<1> QED BY <1>1, <1>4, <1>5

(* What the CPU drew replaces the region in the surface.                   *)
LEMMA CommitKeeps ==
  ASSUME NEW s, Good(s, {}), NEW t \in Surfaces, NEW region \in Rects, NEW r \in Rects,
         r \subseteq region, Prepared(s, t, region), NEW from, Paint(from, r),
         NEW o \in CommitCPURegion([s EXCEPT !.surf[t].shadow = Over(@, r, from)], t, region)
  PROVE  /\ Good(o.state, {}) /\ (~o.ok => o.state.failures > 0)
         /\ Clean /\ s.surf[t].live => o.ok /\ Drew(s, o.state, t, r, from)
<1> DEFINE x == s.surf[t]
           y == [x EXCEPT !.shadow = Over(x.shadow, r, from)]
           d == [s EXCEPT !.surf[t].shadow = Over(@, r, from)]
<1>0. /\ s \in State /\ x \in Surface /\ Backed(x) /\ (Whole => Sound(x, t))
      /\ (x.lock # {} => x.cpuValid)
      /\ x.gpuValid /\ x.shadow \in Image /\ x.device \in Image /\ s.pend = {}
      /\ r \in SUBSET Cells /\ region \in SUBSET Cells
      /\ (~x.cpuValid => \A c \in region : x.shadow[c] = x.device[c])
  <2>1. s \in State /\ x \in Surface
    BY DEF Good, State
  <2>2. Backed(x) /\ (Whole => Sound(x, t)) /\ (x.lock # {} => x.cpuValid)
    BY DEF Good
  <2>3. x.gpuValid /\ x.shadow \in Image /\ x.device \in Image /\ s.pend = {}
        /\ (~x.cpuValid => \A c \in region : x.shadow[c] = x.device[c])
    BY <2>1 DEF Prepared, HasSurface, HasShadow, Surface
  <2> QED BY <2>1, <2>2, <2>3, PixelsAssumption
<1>1. /\ Over(x.shadow, r, from) \in Image
      /\ \A c \in Cells \ r : Over(x.shadow, r, from)[c] = x.shadow[c]
      /\ Whole /\ (x.shadow \in Images \/ r = Cells) => Over(x.shadow, r, from) \in Images
  BY <1>0, Overlay
<1>2. /\ y \in Surface /\ y.shadow = Over(x.shadow, r, from) /\ y.gpuValid
      /\ y.live = x.live /\ y.device = x.device /\ y.cpuValid = x.cpuValid
      /\ y.keepShadow = x.keepShadow /\ y.lock = x.lock /\ y.dirty = x.dirty
      /\ y.inUse = x.inUse /\ y.busy = x.busy
  BY <1>0, <1>1 DEF Surface
<1>3. d = With(s, t, y)
  BY DEF With
<1> HIDE DEF y, d
<1>4. Backed(y) /\ Held(y) /\ ImageOf(y) = ImageOf(x) /\ y.shadow # NoImage /\ y.device # NoImage
  BY <1>0, <1>1, <1>2, NoImageIsNone DEF Backed, Held, ImageOf
<1>5. /\ Good(d, {t}) /\ d.surf[t] = y /\ d.pend = {} /\ d \in State /\ d.target = s.target
      /\ \A u \in Surfaces \ {t} : d.surf[u] = s.surf[u]
  <2>1. /\ {} \subseteq {t} \cup {t} /\ t \in {t} /\ (HasSurface(s, t) <=> y.device # NoImage)
        /\ (y.lock # {} => y.cpuValid)
    BY <1>0, <1>2, <1>4 DEF HasSurface, Prepared
  <2>2. Good(d, {t})
    BY <1>2, <1>3, <1>4, <2>1, WithKeeps
  <2> QED BY <1>0, <1>2, <1>3, <2>2, WithFields
<1>6. PICK b \in SurfaceUpdate(d, t, region) :
        \/ ~b.ok /\ o = b
        \/ /\ b.ok /\ o.ok
           /\ o.state = TouchSurface([Uploaded(b.state, t) EXCEPT
                 !.surf[t].shadow = IF b.state.surf[t].cpuValid THEN @ ELSE Plain(Junk)], t)
  <2> DEFINE Left(u) == TouchSurface([Uploaded(u, t) EXCEPT
                          !.surf[t].shadow = IF u.surf[t].cpuValid THEN @ ELSE Plain(Junk)], t)
             Rest(u) == Done(Left(u))
  <2>1. o \in CommitCPURegion(d, t, region)
    BY DEF d
  <2>2. o \in Then(SurfaceUpdate(d, t, region), Rest)
    BY <2>1 DEF CommitCPURegion
  <2>3. PICK b \in SurfaceUpdate(d, t, region) : \/ ~b.ok /\ o = b
                                                 \/ b.ok /\ o \in Rest(b.state)
    <3> HIDE DEF Rest
    <3> QED BY <2>2 DEF Then
  <2>4. b.ok /\ o \in Rest(b.state) => o.ok /\ o.state = Left(b.state)
    <3> HIDE DEF Left
    <3> QED BY DEF Done
  <2> HIDE DEF Rest
  <2> QED BY <2>3, <2>4
<1>7. /\ Good(b.state, {t}) /\ (~b.ok => b.state.failures > 0) /\ b.state.pend = d.pend
      /\ ~b.ok => b.state.surf = d.surf
      /\ b.ok => b.state.surf[t] = Sent(d.surf[t], region)
      /\ b.state.target = s.target /\ \A u \in Surfaces \ {t} : b.state.surf[u] = s.surf[u]
  <2>1. t \in {t} /\ t \notin d.pend /\ HasSurface(d, t) /\ HasShadow(d, t)
    BY <1>4, <1>5 DEF HasSurface, HasShadow
  <2> QED BY <1>5, <2>1, UpdateKeeps
<1>8. CASE ~b.ok /\ o = b
  <2>1. ~Clean
    <3>1. b.state.failures \in 0 .. MaxFailures
      BY <1>7 DEF Good, State
    <3> QED BY <1>7, <1>8, <3>1 DEF Clean
  <2>2. Whole => Sound(y, t)
    BY <1>0, <1>1, <1>2, <2>1 DEF Sound
  <2>3. Good(b.state, {})
    BY <1>5, <1>7, <1>8, <2>1, <2>2, Settled
  <2> QED BY <1>7, <1>8, <2>1, <2>3
<1>9. CASE /\ b.ok /\ o.ok
           /\ o.state = TouchSurface([Uploaded(b.state, t) EXCEPT
                 !.surf[t].shadow = IF b.state.surf[t].cpuValid THEN @ ELSE Plain(Junk)], t)
  <2> DEFINE w == b.state
             z == w.surf[t]
             a == Renewed(z)
             i == IF z.cpuValid THEN z.shadow ELSE Plain(Junk)
             e == [a EXCEPT !.shadow = i]
             m == [Uploaded(w, t) EXCEPT !.surf[t].shadow = IF z.cpuValid THEN @ ELSE Plain(Junk)]
  <2>1. /\ Good(w, {t}) /\ w \in State /\ w.pend = {} /\ z \in Surface /\ z = Sent(y, region)
    BY <1>5, <1>7, <1>9 DEF Good, State
  <2>2. /\ z.device = Over(x.device, region, y.shadow) /\ ~z.busy /\ z.shadow = y.shadow
        /\ z.cpuValid = x.cpuValid /\ z.gpuValid /\ z.lock = x.lock
    BY <1>2, <2>1 DEF Sent, Surface
  <2>3. /\ Over(x.device, region, y.shadow) \in Image
        /\ \A c \in Cells : Over(x.device, region, y.shadow)[c]
                             = IF c \in region THEN y.shadow[c] ELSE x.device[c]
    BY <1>0, <1>1, <1>2, OverImage
  <2>4. i \in Image
    <3>1. Plain(Junk) \in Image
      BY DEF Plain, Image, Pixels
    <3> QED BY <1>1, <1>2, <2>2, <3>1
  <2>5. /\ a \in Surface /\ a.shadow = z.shadow
        /\ e \in Surface /\ e.gpuValid /\ ~e.inUse /\ e.dirty = {} /\ e.shadow = i
        /\ e.live = z.live /\ e.device = z.device /\ e.cpuValid = z.cpuValid
        /\ e.keepShadow = z.keepShadow /\ e.lock = z.lock /\ ~e.busy
    <3> HIDE DEF z, i
    <3> QED BY <2>1, <2>2, <2>4 DEF Surface, Renewed
  <2>6. m = With(w, t, e)
    <3>1. Uploaded(w, t) = With(w, t, a)
      BY DEF Uploaded, With, Renewed
    <3>2. With(w, t, a).surf[t] = a
      BY <2>1, <2>5, WithFields
    <3>3. m = With(With(w, t, a), t, e)
      BY <2>5, <3>1, <3>2 DEF With
    <3> HIDE DEF a, e, m
    <3> QED BY <2>1, <2>5, <3>3, WithTwice
  <2> HIDE DEF a, e, m
  <2>7. Hull({}) = {} /\ (Clean => Whole)
    BY DEF Hull, Whole
  <2>8. z.device # NoImage /\ e.shadow # NoImage
    BY <2>2, <2>3, <2>4, <2>5, NoImageIsNone
  <2>9. Whole => z.device \in Images
    <3>1. SUFFICES ASSUME Whole PROVE z.device \in Images
      OBVIOUS
    <3>2. x.device \in Images /\ (x.cpuValid => x.shadow \in Images)
      BY <1>0, <3>1 DEF Sound
    <3>3. \A c \in region : y.shadow[c] \in Values
      <4>1. CASE x.cpuValid
        BY <1>0, <1>1, <1>2, <3>1, <3>2, <4>1 DEF Images
      <4>2. CASE ~x.cpuValid
        <5>1. \A c \in region \ r : y.shadow[c] = x.device[c]
          BY <1>0, <1>1, <1>2, <4>2
        <5>2. \A c \in region \ r : y.shadow[c] \in Values
          BY <1>0, <3>2, <5>1 DEF Images
        <5>3. \A c \in r : y.shadow[c] \in Values
          BY <1>0, <1>2, <3>1 DEF Over, Paint
        <5> QED BY <5>2, <5>3
      <4> QED BY <4>1, <4>2
    <3>4. \A c \in Cells : z.device[c] \in Values
      BY <2>2, <2>3, <3>2, <3>3 DEF Images
    <3> QED BY <2>2, <2>3, <3>4 DEF Image, Images
  <2>10. Clean /\ z.cpuValid => z.shadow = z.device
    <3>1. SUFFICES ASSUME Clean, z.cpuValid PROVE z.shadow = z.device
      OBVIOUS
    <3>2. x.shadow = x.device
      BY <1>0, <2>2, <2>7, <3>1 DEF Sound
    <3>3. \A c \in Cells : z.device[c] = z.shadow[c]
      BY <1>1, <1>2, <2>2, <2>3, <3>2
    <3> QED BY <1>1, <1>2, <2>2, <2>3, <3>3 DEF Image
  <2>11. Whole /\ e.cpuValid => e.shadow \in Images
    BY <1>0, <1>1, <1>2, <2>2, <2>5 DEF Sound
  <2>12. Backed(e) /\ Held(e) /\ ImageOf(e) = ImageOf(z) /\ (Whole => Sound(e, t))
    BY <2>2, <2>5, <2>7, <2>8, <2>9, <2>10, <2>11 DEF Backed, Held, ImageOf, Sound
  <2>13. Good(m, {})
    <3>1. /\ {t} \subseteq {} \cup {t} /\ (HasSurface(w, t) <=> e.device # NoImage)
          /\ t \notin w.pend /\ (e.lock # {} => e.cpuValid)
      BY <1>0, <2>1, <2>2, <2>5, <2>8 DEF HasSurface
    <3> HIDE DEF w
    <3> QED BY <2>1, <2>5, <2>6, <2>8, <2>12, <3>1, WithKeeps
  <2>14. o.state = TouchSurface(m, t)
    BY <1>9 DEF m
  <2>15. Clean /\ x.live => Drew(s, m, t, r, from)
    <3>1. SUFFICES ASSUME Clean, x.live
                   PROVE  Drew(s, m, t, r, from)
      OBVIOUS
    <3>2. \A c \in region : x.shadow[c] = x.device[c]
      BY <1>0, <2>7, <3>1 DEF Sound
    <3>3. z.device = Over(x.device, r, from)
      <4>1. \A c \in Cells : z.device[c] = IF c \in r THEN from[c] ELSE x.device[c]
        BY <1>0, <1>2, <2>2, <2>3, <3>2 DEF Over
      <4> QED BY <1>0, <2>2, <2>3, <4>1 DEF Over, Image
    <3>4. ImageOf(x) = x.device /\ ImageOf(e) = z.device /\ e.live = x.live
      BY <1>0, <1>2, <2>1, <2>2, <2>5, <3>1 DEF ImageOf, Sent, Surface
    <3>5. m.surf[t] = e /\ m.target = s.target /\ \A u \in Surfaces \ {t} : m.surf[u] = s.surf[u]
      <4>1. m.surf[t] = e /\ m.target = w.target /\ \A u \in Surfaces \ {t} : m.surf[u] = w.surf[u]
        <5>1. w \in State /\ t \in Surfaces /\ e \in Surface
          BY <2>1, <2>5
        <5> QED BY ONLY <2>6, <5>1, WithFields
      <4> QED BY <1>7, <4>1
    <3> QED BY <3>3, <3>4, <3>5 DEF Drew
  <2>16. Good(o.state, {}) /\ Moved(m, o.state)
    BY <2>13, <2>14, TouchKeeps
  <2>17. Clean /\ x.live => Drew(s, o.state, t, r, from)
    BY <2>15, <2>16, MovedIsSame, DrewSame
  <2> QED BY <1>9, <2>16, <2>17
<1> QED BY <1>6, <1>8, <1>9

-----------------------------------------------------------------------------
(***************************************************************************)
(* Every callback keeps the invariant.                                     *)
(***************************************************************************)

\* What a call may show, return or copy.
Calls == {Quiet} \cup {Copied(t) : t \in Surfaces}
           \cup {Shown(i) : i \in Image} \cup {Returned(i) : i \in Image}

(* The state a callback leaves, with what it showed.                       *)
LEMMA LeavesInv ==
  ASSUME NEW s, Good(s, {}), data' = s, inQueue' \in BOOLEAN, call' \in Calls,
         ~inQueue' /\ s.pend # {} => s.failures > 0
  PROVE  CoherenceInv'
<1>1. s \in State /\ Accounts(s) /\ \A t \in Surfaces : Backed(s.surf[t])
  BY DEF Good
<1>2. s.residentBytes >= 0
  <2>1. Resident(s) \in SUBSET Textures
    BY DEF Resident
  <2> QED BY <1>1, <2>1, BytesFinite DEF Accounts
<1>3. \A t \in Surfaces : Hull(s.surf[t].dirty) = s.surf[t].dirty
  BY <1>1 DEF Backed
<1>4. TypeOK'
  BY <1>1, <1>2, <1>3 DEF TypeOK, Calls
<1>5. Good(data', {})
  OBVIOUS
<1> QED BY <1>4, <1>5 DEF CoherenceInv

(* A live surface shows pixels that were written, in every valid copy.     *)
LEMMA ImageWritten ==
  ASSUME Clean, NEW s, Good(s, {}), NEW t \in Surfaces, s.surf[t].live
  PROVE  /\ ImageOf(s.surf[t]) \in Images /\ ImageOf(s.surf[t]) # NoImage
         /\ s.surf[t].cpuValid => ImageOf(s.surf[t]) = s.surf[t].shadow
         /\ s.surf[t].gpuValid => ImageOf(s.surf[t]) = s.surf[t].device
<1>1. Sound(s.surf[t], t) /\ Backed(s.surf[t])
  BY DEF Good, Whole
<1> QED BY <1>1, NoImageIsNone DEF Sound, Backed, Held, ImageOf

TargetLive == data.surf[data.target].live

\* A step of the renderer is one of SDL's images, or changes none.
Follows == Clean /\ TargetLive => TargetLive' /\ [Sdl!Next]_(Sdl!vars)

(* A step that SDL does not see.                                           *)
LEMMA SameFollows ==
  ASSUME CoherenceInv, call' = Quiet, Clean => Same(data, data')
  PROVE  Follows
<1>1. SUFFICES ASSUME Clean, TargetLive
               PROVE  TargetLive' /\ Sdl!Next
  BY DEF Follows
<1>2. data.target \in Surfaces
  BY DEF CoherenceInv, Good, State
<1>3. TargetLive'
  BY <1>1, <1>2 DEF Same, TargetLive
<1>4. Sdl!Forget
  BY <1>1 DEF Same, Sdl!Forget, Sdl!Quiet, Quiet
<1> QED BY <1>3, <1>4 DEF Sdl!Next

(* A surface is drawn into.                                                *)
LEMMA DrewFollows ==
  ASSUME CoherenceInv, call' = Quiet, NEW t \in Surfaces, NEW r \in Rects, NEW from,
         \A c \in r : from[c] \in Values,
         Clean /\ TargetLive => data.surf[t].live /\ Drew(data, data', t, r, from)
  PROVE  Follows
<1>1. SUFFICES ASSUME Clean, TargetLive
               PROVE  TargetLive' /\ Sdl!Next
  BY DEF Follows
<1>2. /\ data.target \in Surfaces /\ ImageOf(data.surf[t]) # NoImage
      /\ Drew(data, data', t, r, from)
  BY <1>1, ImageWritten DEF CoherenceInv, Good, State
<1>3. TargetLive'
  BY <1>1, <1>2 DEF Drew, TargetLive
<1> DEFINE f == Over(Plain(Blank), r, from)
<1>4. f \in Images /\ \A c \in r : f[c] = from[c]
  BY PixelsAssumption DEF Over, Plain, Images
<1> HIDE DEF f
<1>5. Over(ImageOf(data.surf[t]), r, from)
        = [c \in Cells |-> IF c \in r THEN f[c] ELSE ImageOf(data.surf[t])[c]]
  BY <1>4 DEF Over
<1>6. Sdl!Draw(t, r, f)
  <2> DEFINE old == ImageOf(data.surf[t])
             new == Over(old, r, from)
  <2>1. [u \in Surfaces |-> ImageOf(data.surf[u])][t] = old
    OBVIOUS
  <2>2. new = [c \in Cells |-> IF c \in r THEN f[c] ELSE old[c]]
    BY <1>5
  <2>3. /\ ImageOf(data'.surf[t]) = new
        /\ \A u \in Surfaces \ {t} : ImageOf(data'.surf[u]) = ImageOf(data.surf[u])
    BY <1>2 DEF Drew
  <2>4. Sdl!Live(t)
    BY <1>2 DEF Sdl!Live
  <2> HIDE DEF old, new
  <2>5. Sdl!Becomes(t, new)
    BY <2>3 DEF Sdl!Becomes
  <2> QED BY <2>1, <2>2, <2>4, <2>5 DEF Sdl!Draw
<1>7. Sdl!Write(t, r)
  BY <1>4, <1>6 DEF Sdl!Write, Sdl!Quiet, Quiet
<1> QED BY <1>3, <1>7 DEF Sdl!Next, Sdl!Surfaces, Surfaces

(* A surface is copied from.                                               *)
LEMMA CopyFollows ==
  ASSUME CoherenceInv, NEW source \in Textures, data.surf[source].live, call' = Copied(source),
         NEW t \in Surfaces, NEW r \in Rects,
         Clean /\ TargetLive => /\ data.surf[t].live
                                /\ Drew(data, data', t, r, ImageOf(data.surf[source]))
  PROVE  Follows
<1>1. SUFFICES ASSUME Clean, TargetLive
               PROVE  TargetLive' /\ Sdl!Next
  BY DEF Follows
<1>2. /\ data.target \in Surfaces /\ ImageOf(data.surf[t]) # NoImage /\ source \in Surfaces
      /\ ImageOf(data.surf[source]) # NoImage
      /\ Drew(data, data', t, r, ImageOf(data.surf[source]))
  BY <1>1, ImageWritten DEF CoherenceInv, Good, State, Surfaces
<1>3. TargetLive'
  BY <1>1, <1>2 DEF Drew, TargetLive
<1>4. Sdl!Copy(t, source, r)
  BY <1>2 DEF Drew, Over, Sdl!Copy, Sdl!Draw, Sdl!Live, Sdl!Becomes, Sdl!Copied, Copied
<1> QED BY <1>3, <1>4 DEF Sdl!Next, Sdl!Surfaces, Surfaces

(* A callback outside a command list that SDL's images do not show.        *)
LEMMA OutsideKeeps ==
  ASSUME CoherenceInv, NEW outcomes, Outside(outcomes),
         \A o \in outcomes : /\ Good(o.state, {}) /\ (o.state.pend # {} => o.state.failures > 0)
                             /\ Clean => Same(data, o.state)
  PROVE  CoherenceInv' /\ Follows
<1>1. PICK o \in outcomes : data' = o.state
  BY DEF Outside
<1>2. inQueue' \in BOOLEAN /\ call' \in Calls /\ call' = Quiet
  BY DEF Outside, Silent, Calls, CoherenceInv, TypeOK
<1> QED BY <1>1, <1>2, LeavesInv, SameFollows

(* A callback outside a command list that draws into a texture.            *)
LEMMA OutsideDraws ==
  ASSUME CoherenceInv, NEW outcomes, Outside(outcomes),
         NEW t \in Surfaces, data.surf[t].live, NEW r \in Rects, NEW from,
         \A c \in r : from[c] \in Values,
         \A o \in outcomes : /\ Good(o.state, {}) /\ (o.state.pend # {} => o.state.failures > 0)
                             /\ Clean => Drew(data, o.state, t, r, from)
  PROVE  CoherenceInv' /\ Follows
<1>1. PICK o \in outcomes : data' = o.state
  BY DEF Outside
<1>2. inQueue' \in BOOLEAN /\ call' \in Calls /\ call' = Quiet
  BY DEF Outside, Silent, Calls, CoherenceInv, TypeOK
<1>3. CoherenceInv'
  BY <1>1, <1>2, LeavesInv
<1>4. Follows
  BY <1>1, <1>2, DrewFollows
<1> QED BY <1>3, <1>4

(* A command of a list leaves the invariant.                               *)
LEMMA CommandKeeps ==
  ASSUME CoherenceInv, NEW outcomes, NEW o \in outcomes, inQueue,
         data' = o.state, inQueue' = (inQueue /\ o.ok), call' \in Calls,
         Good(o.state, {}), ~o.ok => o.state.failures > 0
  PROVE  CoherenceInv'
<1>1. inQueue' \in BOOLEAN
  OBVIOUS
<1>2. ~inQueue' => o.state.failures > 0
  OBVIOUS
<1> QED BY <1>1, <1>2, LeavesInv

(* A command of a list draws into the render target.                       *)
LEMMA QueuedDraws ==
  ASSUME CoherenceInv, NEW outcomes, Queued(outcomes), NEW r \in Rects, NEW from,
         \A c \in r : from[c] \in Values,
         \A o \in outcomes : /\ Good(o.state, {}) /\ (~o.ok => o.state.failures > 0)
                             /\ Clean /\ TargetLive => Drew(data, o.state, data.target, r, from)
  PROVE  CoherenceInv' /\ Follows
<1>1. PICK o \in outcomes : data' = o.state /\ inQueue' = (inQueue /\ o.ok)
  BY DEF Queued
<1>2. call' = Quiet /\ call' \in Calls /\ inQueue /\ data.target \in Surfaces
  BY DEF Queued, Silent, Calls, CoherenceInv, Good, State
<1>3. CoherenceInv'
  BY <1>1, <1>2, CommandKeeps
<1>4. Follows
  BY <1>1, <1>2, DrewFollows DEF TargetLive
<1> QED BY <1>3, <1>4

(* A command of a list copies into the render target.                      *)
LEMMA QueuedCopies ==
  ASSUME CoherenceInv, NEW source \in Textures, data.surf[source].live, NEW outcomes,
         QueuedCopy(source, outcomes), NEW r \in Rects,
         \A o \in outcomes :
           /\ Good(o.state, {}) /\ (~o.ok => o.state.failures > 0)
           /\ Clean /\ TargetLive =>
                o.ok /\ Drew(data, o.state, data.target, r, ImageOf(data.surf[source]))
  PROVE  CoherenceInv' /\ Follows
<1>1. PICK o \in outcomes : /\ data' = o.state /\ inQueue' = (inQueue /\ o.ok)
                            /\ call' = IF o.ok THEN Copied(source) ELSE Quiet
  BY DEF QueuedCopy
<1>2. call' \in Calls /\ inQueue /\ data.target \in Surfaces
  BY <1>1 DEF QueuedCopy, Calls, Surfaces, CoherenceInv, Good, State
<1>3. CoherenceInv'
  BY <1>1, <1>2, CommandKeeps
<1>4. Follows
  <2>1. SUFFICES ASSUME Clean, TargetLive
                 PROVE  Follows
    BY DEF Follows
  <2>2. o.ok /\ Drew(data, o.state, data.target, r, ImageOf(data.surf[source]))
    BY <1>1, <2>1
  <2>3. call' = Copied(source) /\ Drew(data, data', data.target, r, ImageOf(data.surf[source]))
    BY <1>1, <2>2
  <2>4. data.surf[data.target].live
    BY <2>1 DEF TargetLive
  <2> QED BY <1>2, <2>3, <2>4, CopyFollows
<1> QED BY <1>3, <1>4

(* A batch that failed to go before is still pending, or gone.             *)
LEMMA LeftOver ==
  ASSUME CoherenceInv, ~inQueue, NEW d, Good(d, {}), d.pend \subseteq data.pend,
         d.failures >= data.failures
  PROVE  d.pend # {} => d.failures > 0
<1>1. data.failures \in Int /\ d.failures \in Int
  BY CountsInt DEF CoherenceInv, Good
<1> QED BY <1>1 DEF CoherenceInv

(* The states of the renderer's callbacks are Good.                        *)
LEMMA InvIsGood ==
  ASSUME CoherenceInv
  PROVE  /\ Good(data, {}) /\ data \in State /\ Moved(data, data)
         /\ \A t \in Surfaces : data.surf[t] \in Surface /\ Backed(data.surf[t])
         /\ \A t \in Surfaces : Live(t) => Held(data.surf[t])
         /\ data.target \in Surfaces /\ Held(data.surf[data.target])
<1>1. Good(data, {}) /\ data \in State
  BY DEF CoherenceInv, Good
<1> QED BY <1>1, MovedTwice DEF Good, State, Backed, Live

(* A command list begins: nothing moves.                                   *)
LEMMA BeginQueueKeeps == ASSUME CoherenceInv, BeginQueue PROVE CoherenceInv' /\ Follows
<1>1. Good(data, {}) /\ call' = Quiet /\ call' \in Calls /\ inQueue' \in BOOLEAN /\ inQueue'
  BY DEF CoherenceInv, BeginQueue, Silent, Calls
<1>2. Same(data, data') /\ data' = data
  BY DEF BeginQueue, Same
<1> QED BY <1>1, <1>2, LeavesInv, SameFollows DEF BeginQueue

(* A full batch goes out within a list: SDL does not see it.               *)
LEMMA FlushEarlyKeeps == ASSUME CoherenceInv, FlushEarly PROVE CoherenceInv' /\ Follows
<1>1. PICK o \in FlushQueued(data) : data' = o.state /\ inQueue' = (inQueue /\ o.ok)
  BY DEF FlushEarly, Queued
<1>2. call' = Quiet /\ call' \in Calls /\ inQueue
  BY DEF FlushEarly, Queued, Silent, Calls
<1>3. Good(o.state, {}) /\ (~o.ok => o.state.failures > 0) /\ Moved(data, o.state)
  BY InvIsGood, FlushKeeps
<1>4. CoherenceInv'
  BY <1>1, <1>2, <1>3, CommandKeeps
<1>5. Follows
  BY <1>1, <1>2, <1>3, MovedIsSame, SameFollows
<1> QED BY <1>4, <1>5

(* A list ends with its last batch sent, or an error counted.              *)
LEMMA EndQueueKeeps == ASSUME CoherenceInv, EndQueue PROVE CoherenceInv' /\ Follows
<1>1. PICK o \in FlushQueued(data) : data' = o.state
  BY DEF EndQueue
<1>2. /\ Good(o.state, {}) /\ (o.state.pend # {} => o.state.failures > 0)
      /\ Clean => Same(data, o.state)
  BY InvIsGood, FlushKeeps, MovedIsSame
<1>3. call' = Quiet /\ call' \in Calls /\ inQueue' \in BOOLEAN
  BY DEF EndQueue, Silent, Calls
<1> QED BY <1>1, <1>2, <1>3, LeavesInv, SameFollows

(* One surface gets another record.                                        *)
LEMMA OneKeeps ==
  ASSUME NEW s, Good(s, {}), NEW t \in Surfaces, NEW y \in Surface, NEW d, d = With(s, t, y),
         Backed(y), y.device # NoImage <=> s.surf[t].device # NoImage,
         t = Composition => y.live /\ y.shadow # NoImage,
         t = s.target => Held(y),
         y.lock # {} => t \in Streaming /\ y.cpuValid /\ t \notin s.pend,
         Whole => Sound(y, t),
         Clean /\ t \in Textures => (y.busy \/ t \in s.pend => y.inUse)
  PROVE  /\ Good(d, {}) /\ d.surf[t] = y /\ \A u \in Surfaces \ {t} : d.surf[u] = s.surf[u]
         /\ d.target = s.target /\ d.pend = s.pend /\ d.failures = s.failures
         /\ d.presentPending = s.presentPending
<1>1. /\ d \in State /\ d.surf[t] = y /\ \A u \in Surfaces \ {t} : d.surf[u] = s.surf[u]
      /\ d.target = s.target /\ d.pend = s.pend /\ d.presentPending = s.presentPending
      /\ d.residentBytes = s.residentBytes /\ d.raced = s.raced /\ d.failures = s.failures
  <2>1. s \in State
    BY DEF Good
  <2> QED BY <2>1, WithFields
<1>2. \A u \in Surfaces \ {t} : Alike(s.surf[u], d.surf[u]) /\ (d.surf[u].busy => s.surf[u].busy)
  BY <1>1 DEF Alike
<1>3. /\ d.surf[t].lock # {} => t \in Streaming /\ d.surf[t].cpuValid /\ t \notin s.pend
      /\ t = Composition => d.surf[t].live /\ d.surf[t].shadow # NoImage
      /\ MaxFailures <= 1 => ~d.raced
      /\ d.surf[t].device # NoImage <=> s.surf[t].device # NoImage
      /\ Clean /\ t \in Textures \ {} => (d.surf[t].busy \/ t \in s.pend => d.surf[t].inUse)
  BY <1>1 DEF Good
<1>4. /\ Backed(d.surf[t]) /\ (t = s.target => Held(d.surf[t]))
      /\ Whole /\ t \notin {} => Sound(d.surf[t], t)
  BY <1>1
<1>5. {} \subseteq {} \cup {t} /\ d \in State /\ d.target = s.target /\ d.pend = s.pend
      /\ d.residentBytes = s.residentBytes
  BY <1>1
<1>6. Good(d, {})
  <2>1. Good(s, {}) /\ t \in Surfaces
    OBVIOUS
  <2>2. ASSUME {} \subseteq {} \cup {t}, d \in State, d.target = s.target, d.pend = s.pend,
               d.residentBytes = s.residentBytes, MaxFailures <= 1 => ~d.raced,
               \A u \in Surfaces \ {t} :
                 Alike(s.surf[u], d.surf[u]) /\ (d.surf[u].busy => s.surf[u].busy),
               Backed(d.surf[t]),
               d.surf[t].device # NoImage <=> s.surf[t].device # NoImage,
               t = Composition => d.surf[t].live /\ d.surf[t].shadow # NoImage,
               t = s.target => Held(d.surf[t]),
               d.surf[t].lock # {} => t \in Streaming /\ d.surf[t].cpuValid /\ t \notin s.pend,
               Whole /\ t \notin {} => Sound(d.surf[t], t),
               Clean /\ t \in Textures \ {} => (d.surf[t].busy \/ t \in s.pend => d.surf[t].inUse)
        PROVE  Good(d, {})
    BY ONLY <2>1, <2>2, OneGood
  <2> QED BY <1>2, <1>3, <1>4, <1>5, <2>2
<1> QED BY <1>1, <1>6

(* The core is done with a surface.                                        *)
LEMMA RetireInv ==
  ASSUME CoherenceInv, NEW t \in Textures, Retire(t)
  PROVE  CoherenceInv' /\ Follows
<1> DEFINE x == data.surf[t]
           y == [x EXCEPT !.busy = FALSE]
           d == With(data, t, y)
<1>1. t \in Surfaces /\ x \in Surface /\ Good(data, {}) /\ data \in State
  BY InvIsGood DEF Surfaces
<1>2. y \in Surface /\ ~y.busy /\ Alike(x, y)
  BY <1>1 DEF Surface, Alike
<1>3. data' = d
  BY DEF Retire, With
<1> HIDE DEF y, d
<1>4. /\ d \in State /\ d.surf[t] = y /\ \A u \in Surfaces \ {t} : d.surf[u] = data.surf[u]
      /\ d.target = data.target /\ d.pend = data.pend /\ d.failures >= data.failures
      /\ d.residentBytes = data.residentBytes /\ d.raced = data.raced /\ d.failures = data.failures
  BY <1>1, <1>2, WithFields DEF d
<1>5. \A u \in Surfaces : Alike(data.surf[u], d.surf[u]) /\ (d.surf[u].busy => data.surf[u].busy)
  BY <1>2, <1>4 DEF Alike
<1>6. Good(d, {}) /\ Moved(data, d)
  BY <1>1, <1>4, <1>5, AlikeGood
<1>7. /\ inQueue' \in BOOLEAN /\ call' \in Calls /\ call' = Quiet
      /\ (~inQueue' /\ d.pend # {} => d.failures > 0)
  BY <1>4 DEF Retire, Silent, Calls, CoherenceInv, TypeOK
<1>8. CoherenceInv'
  BY <1>3, <1>6, <1>7, LeavesInv
<1>9. Follows
  BY <1>3, <1>6, <1>7, MovedIsSame, SameFollows
<1> QED BY <1>8, <1>9

(* A new texture is blank.                                                 *)
LEMMA CreateTextureInv ==
  ASSUME CoherenceInv, NEW t \in Textures, CreateTexture(t)
  PROVE  CoherenceInv' /\ Follows
<1> DEFINE y == [Empty EXCEPT !.live = TRUE, !.shadow = Plain(Blank), !.cpuValid = TRUE]
           d == With(data, t, y)
<1>1. /\ t \in Surfaces /\ t # Composition /\ Good(data, {}) /\ data \in State
      /\ data.surf[t] = Empty
  BY InvIsGood, NamesAssumption DEF Surfaces, CreateTexture
<1>2. Plain(Blank) \in Images /\ Plain(Blank) \in Image
  BY PixelsAssumption DEF Plain, Images, Image, Pixels
<1>3. /\ y.live /\ y.shadow = Plain(Blank) /\ y.device = NoImage /\ y.cpuValid /\ ~y.gpuValid
      /\ y.lock = {} /\ y.dirty = {} /\ ~y.busy
      /\ Empty.device = NoImage /\ ~Empty.inUse
      /\ y \in Surface
  BY <1>2 DEF Empty, Surface
<1>4. Backed(y) /\ Held(y) /\ Sound(y, t)
  <2>1. Hull({}) = {} /\ y.shadow # NoImage
    BY <1>2, <1>3, NoImageIsNone DEF Hull
  <2> QED BY <1>2, <1>3, <2>1 DEF Backed, Held, Sound
<1>5. Clean => t \notin data.pend
  BY <1>1, <1>3 DEF Good
<1> HIDE DEF y, d
<1>8. /\ Good(d, {}) /\ d.pend = data.pend /\ d.failures = data.failures
      /\ d.surf[t] = y /\ \A u \in Surfaces \ {t} : d.surf[u] = data.surf[u]
      /\ d.target = data.target
  <2>1. /\ d = With(data, t, y) /\ (y.device # NoImage <=> data.surf[t].device # NoImage)
        /\ ~y.busy
    BY <1>1, <1>3 DEF d
  <2> QED BY <1>1, <1>3, <1>4, <1>5, <2>1, OneKeeps
<1>9. PICK o \in Call(data, d) :
        data' = o.state /\ ~inQueue /\ inQueue' = inQueue /\ call' = Quiet
  <2>1. Outside(Call(data, d))
    BY DEF CreateTexture, d, y, With
  <2> QED BY <2>1 DEF Outside, Silent
<1>10. \/ o.state = d
       \/ Good(o.state, {}) /\ o.state.failures > 0 /\ ~Clean
  <2>1. o \in Call(data, d) /\ Good(data, {})
    BY <1>1, <1>9
  <2> QED BY <2>1, CallKeeps
<1>11. /\ Good(o.state, {}) /\ (o.state.pend # {} => o.state.failures > 0)
       /\ inQueue' \in BOOLEAN /\ call' \in Calls
  BY <1>8, <1>9, <1>10 DEF CoherenceInv, TypeOK, Calls
<1>12. CoherenceInv'
  BY <1>9, <1>11, LeavesInv
<1>13. Follows
  <2>1. SUFFICES ASSUME Clean, TargetLive
                 PROVE  TargetLive' /\ Sdl!Next
    BY DEF Follows
  <2>2. data' = d /\ data.target \in Surfaces
    BY <1>1, <1>9, <1>10, <2>1 DEF State
  <2>3. ~data.surf[t].live /\ ImageOf(data.surf[t]) = NoImage
    BY <1>1 DEF Empty, ImageOf
  <2>4. TargetLive'
    BY <1>8, <2>1, <2>2, <2>3 DEF TargetLive
  <2>5. ImageOf(d.surf[t]) = Plain(Blank)
    BY <1>3, <1>8 DEF ImageOf
  <2>6. Sdl!Create(t)
    BY <1>1, <1>8, <1>9, <2>2, <2>3, <2>5
       DEF Sdl!Create, Sdl!Live, Sdl!Becomes, Sdl!Quiet, Quiet
  <2> QED BY <2>4, <2>6 DEF Sdl!Next
<1> QED BY <1>12, <1>13

\* A texture is no more; the others are what they were.
Removed(g, e, t) ==
  /\ Good(e, {}) /\ e.pend = g.pend /\ e.failures = g.failures
  /\ e.target = g.target /\ e.surf[t] = Empty
  /\ \A u \in Surfaces \ {t} : Alike(g.surf[u], e.surf[u])

(* A texture that is destroyed gives up its surface.                       *)
LEMMA GoneKeeps ==
  ASSUME NEW g, Good(g, {}), NEW t \in Textures, t # g.target, MaxFailures <= 1 => t \notin g.pend,
         NEW e, e = [(IF HasSurface(g, t) THEN Release(g, {t}) ELSE g) EXCEPT !.surf[t] = Empty]
  PROVE  Removed(g, e, t)
<1> DEFINE h == IF HasSurface(g, t) THEN Release(g, {t}) ELSE g
           P == IF HasSurface(g, t) THEN {t} ELSE {}
<1>0. g \in State /\ t \in Surfaces /\ t # Composition /\ {t} \in SUBSET Textures
  BY NamesAssumption DEF Good, Surfaces
<1>1. /\ h \in State /\ h.target = g.target /\ h.pend = g.pend /\ h.failures = g.failures
      /\ h.residentBytes = g.residentBytes - BytesOf(P)
      /\ h.raced => g.raced \/ t \in g.pend
      /\ \A u \in Surfaces \ {t} : Alike(g.surf[u], h.surf[u]) /\ h.surf[u].busy = g.surf[u].busy
  <2>1. CASE HasSurface(g, t)
    <3>1. h = Release(g, {t}) /\ P = {t}
      BY <2>1
    <3> HIDE DEF h, P
    <3> QED BY <1>0, <3>1, ReleaseFields
  <2>2. CASE ~HasSurface(g, t)
    <3>1. h = g /\ P = {}
      BY <2>2
    <3>2. BytesOf({}) = 0
      <4>1. {} = {} \ {}
        OBVIOUS
      <4>2. BytesOf({}) = BytesOf({}) - BytesOf({}) /\ BytesOf({}) \in Nat
        BY <4>1, BytesOfDifference, BytesFinite
      <4> QED BY <4>2
    <3> HIDE DEF h, P
    <3> QED BY <1>0, <3>1, <3>2, CountsInt DEF Alike
  <2> QED BY <2>1, <2>2
<1>2. e = With(h, t, Empty)
  BY DEF With
<1> HIDE DEF h
<1>3. /\ Empty \in Surface /\ Empty.device = NoImage /\ ~Empty.cpuValid /\ ~Empty.gpuValid
      /\ ~Empty.live /\ Empty.lock = {} /\ Empty.dirty = {} /\ ~Empty.busy
  BY DEF Empty, Surface
<1>4. Backed(Empty) /\ Sound(Empty, t)
  <2>1. Hull({}) = {}
    BY DEF Hull
  <2> QED BY <1>3, <2>1 DEF Backed, Held, Sound
<1>5. /\ e \in State /\ e.surf[t] = Empty /\ \A u \in Surfaces \ {t} : e.surf[u] = h.surf[u]
      /\ e.target = g.target /\ e.pend = g.pend /\ e.failures = g.failures
      /\ e.residentBytes = g.residentBytes - BytesOf(P) /\ e.raced = h.raced
  <2> HIDE DEF P
  <2>1. h \in State /\ t \in Surfaces /\ Empty \in Surface
    BY <1>0, <1>1, <1>3
  <2>2. /\ e \in State /\ e.surf[t] = Empty /\ \A u \in Surfaces \ {t} : e.surf[u] = h.surf[u]
        /\ e.target = h.target /\ e.pend = h.pend /\ e.failures = h.failures
        /\ e.residentBytes = h.residentBytes /\ e.raced = h.raced
    <3>1. e = With(h, t, Empty)
      BY <1>2
    <3> QED BY ONLY <2>1, <3>1, WithFields
  <2> QED BY <1>1, <2>2
<1>6. \A u \in Surfaces \ {t} : Alike(g.surf[u], e.surf[u]) /\ e.surf[u].busy = g.surf[u].busy
  BY <1>1, <1>5
<1>7. Resident(e) = Resident(g) \ P /\ P \in SUBSET Resident(g)
  BY <1>0, <1>3, <1>5, <1>6 DEF Resident, HasSurface, Alike, Surfaces
<1>8. Accounts(e)
  <2> HIDE DEF P
  <2> QED BY <1>0, <1>5, <1>7, FewerAccounts DEF Good
<1>9. \A u \in Surfaces : Backed(e.surf[u]) /\ (Whole => Sound(e.surf[u], u))
  <2>1. \A u \in Surfaces : Backed(g.surf[u]) /\ (Whole => Sound(g.surf[u], u))
    BY DEF Good
  <2>2. Backed(e.surf[t]) /\ Sound(e.surf[t], t)
    BY <1>4, <1>5
  <2>3. \A u \in Surfaces \ {t} : Backed(e.surf[u]) /\ (Whole => Sound(e.surf[u], u))
    <3>1. \A x, y : Alike(x, y) /\ Backed(x) => Backed(y)
      BY DEF Backed, Held, Alike
    <3>2. \A x, y, u : Alike(x, y) /\ Sound(x, u) => Sound(y, u)
      BY DEF Sound, Alike
    <3> QED BY <1>6, <2>1, <3>1, <3>2
  <2> QED BY <2>2, <2>3
<1>10. /\ e.surf[Composition].live /\ HasShadow(e, Composition) /\ HasSurface(e, Composition)
       /\ e.target \notin Streaming /\ Held(e.surf[e.target])
  <2>1. /\ g.surf[Composition].live /\ HasShadow(g, Composition) /\ HasSurface(g, Composition)
        /\ g.target \notin Streaming /\ Held(g.surf[g.target])
    BY DEF Good
  <2>2. Composition \in Surfaces \ {t} /\ g.target \in Surfaces \ {t}
    BY <1>0 DEF Surfaces, State
  <2> QED BY <1>5, <1>6, <2>1, <2>2 DEF Alike, HasShadow, HasSurface, Held
<1>11. \A u \in Surfaces : e.surf[u].lock # {} =>
                            u \in Streaming /\ e.surf[u].cpuValid /\ u \notin e.pend
  <2>1. \A u \in Surfaces : g.surf[u].lock # {} =>
                            u \in Streaming /\ g.surf[u].cpuValid /\ u \notin g.pend
    BY DEF Good
  <2> QED BY <1>3, <1>5, <1>6, <2>1 DEF Alike
<1>12. Clean => \A u \in Textures : e.surf[u].busy \/ u \in e.pend => e.surf[u].inUse
  <2>1. Clean => \A u \in Textures : g.surf[u].busy \/ u \in g.pend => g.surf[u].inUse
    BY DEF Good
  <2>2. Textures \subseteq Surfaces /\ (Clean => t \notin g.pend)
    BY DEF Surfaces, Clean
  <2> QED BY <1>3, <1>5, <1>6, <2>1, <2>2 DEF Alike
<1>13. MaxFailures <= 1 => ~e.raced
  BY <1>1, <1>5 DEF Good
<1>14. Textures \ {} = Textures /\ Surfaces \ {} = Surfaces
  OBVIOUS
<1>15. Good(e, {})
  BY <1>5, <1>8, <1>9, <1>10, <1>11, <1>12, <1>13, <1>14 DEF Good
<1> QED BY <1>5, <1>6, <1>15 DEF Removed

(* The render target may change where there are valid pixels.              *)
LEMMA RetargetKeeps ==
  ASSUME NEW s, Good(s, {}), NEW t \in Surfaces \ Streaming, Held(s.surf[t]),
         NEW d, d = [s EXCEPT !.target = t]
  PROVE  /\ Good(d, {}) /\ d.target = t /\ d.surf = s.surf /\ d.pend = s.pend
         /\ d.failures = s.failures
<1>1. /\ d \in State /\ d.target = t /\ d.surf = s.surf /\ d.pend = s.pend
      /\ d.failures = s.failures /\ d.raced = s.raced /\ d.residentBytes = s.residentBytes
  BY DEF Good, State
<1>2. Resident(d) = Resident(s)
  BY <1>1 DEF Resident, HasSurface
<1> QED BY <1>1, <1>2 DEF Good, Accounts, HasShadow, HasSurface

\* One texture is gone, the other surfaces show what they did.
Lost(s, d, t) ==
  /\ d.target = s.target /\ d.target # t /\ d.surf[t] = Empty
  /\ \A u \in Surfaces \ {t} :
       d.surf[u].live = s.surf[u].live /\ ImageOf(d.surf[u]) = ImageOf(s.surf[u])

(* A texture is destroyed, or stays behind when the frame in flight cannot *)
(* be waited for.                                                          *)
LEMMA DestroyTextureInv ==
  ASSUME CoherenceInv, NEW t \in Textures, DestroyTexture(t)
  PROVE  CoherenceInv' /\ Follows
<1> DEFINE Back(s) == [s EXCEPT !.target = IF @ = t THEN Composition ELSE @]
           Gone(g) == [(IF HasSurface(g, t) THEN Release(g, {t}) ELSE g) EXCEPT !.surf[t] = Empty]
           Left(o) == IF ~o.ok THEN Done([o.state EXCEPT !.surf[t].live = FALSE])
                      ELSE {[state |-> Gone(f.state), ok |-> TRUE] : f \in FlushQueued(Back(o.state))}
<1>0. /\ Good(data, {}) /\ ~inQueue /\ t \in Surfaces /\ t # Composition
      /\ Composition \in Surfaces \ Streaming
  BY InvIsGood, NamesAssumption DEF DestroyTexture, Outside, Surfaces, Textures
<1>1. Outside(UNION {Left(o) : o \in WaitPresent(data)})
  BY DEF DestroyTexture
<1>2. ASSUME NEW o \in WaitPresent(data), NEW p \in Left(o)
      PROVE  /\ Good(p.state, {}) /\ (p.state.pend # {} => p.state.failures > 0)
             /\ Clean => Lost(data, p.state, t)
  <2> DEFINE s == o.state
  <2>1. /\ Good(s, {}) /\ Moved(data, s) /\ s.surf = data.surf /\ s.pend = data.pend
        /\ ~o.ok => s.failures > 0 /\ ~Clean
    BY <1>0, <1>2, WaitKeeps
  <2>2. s \in State /\ s.surf[t] \in Surface
    BY <1>0, <2>1 DEF Good, State
  <2>3. CASE ~o.ok
    <3> DEFINE x == s.surf[t]
               y == [x EXCEPT !.live = FALSE]
               d == With(s, t, y)
    <3>1. p.state = d
      BY <1>2, <2>3 DEF Done, With
    <3>2. /\ y \in Surface /\ y.shadow = x.shadow /\ y.device = x.device /\ y.cpuValid = x.cpuValid
          /\ y.gpuValid = x.gpuValid /\ y.lock = x.lock /\ y.dirty = x.dirty
          /\ y.inUse = x.inUse /\ y.busy = x.busy /\ ~y.live
      BY <2>2 DEF Surface
    <3> HIDE DEF y, d
    <3>3. /\ Backed(y) /\ (t = s.target => Held(y)) /\ (Whole => Sound(y, t))
          /\ (y.lock # {} => t \in Streaming /\ y.cpuValid /\ t \notin s.pend)
          /\ (Clean /\ t \in Textures => (y.busy \/ t \in s.pend => y.inUse))
      <4>1. /\ Backed(x) /\ (t = s.target => Held(x)) /\ (Whole => Sound(x, t))
            /\ (x.lock # {} => t \in Streaming /\ x.cpuValid /\ t \notin s.pend)
            /\ (Clean => (x.busy \/ t \in s.pend => x.inUse))
        BY <1>0, <2>1 DEF Good
      <4>2. (Backed(x) => Backed(y)) /\ (Held(x) => Held(y)) /\ (Sound(x, t) => Sound(y, t))
        BY <3>2 DEF Backed, Held, Sound
      <4> QED BY <3>2, <4>1, <4>2
    <3>4. d = With(s, t, y) /\ (y.device # NoImage <=> s.surf[t].device # NoImage)
      BY <3>2 DEF d
    <3>5. Good(d, {}) /\ d.pend = s.pend /\ d.failures = s.failures
      BY <1>0, <2>1, <3>2, <3>3, <3>4, OneKeeps
    <3> QED BY <2>1, <2>3, <3>1, <3>5
  <2>4. CASE o.ok
    <3> DEFINE b == Back(s)
    <3> HIDE DEF Gone
    <3>1. PICK f \in FlushQueued(b) : p.state = Gone(f.state)
      BY <1>2, <2>4
    <3>2. /\ Good(b, {}) /\ b.target # t /\ b.pend = s.pend /\ b.failures = s.failures
          /\ s.target # t => b = s
      <4>1. CASE s.target = t
        <5>1. Held(s.surf[Composition])
          <6>1. s.surf[Composition].live /\ Backed(s.surf[Composition])
            BY <1>0, <2>1 DEF Good
          <6> QED BY <6>1 DEF Backed
        <5>2. b = [s EXCEPT !.target = Composition]
          BY <4>1
        <5>3. /\ Good(b, {}) /\ b.target = Composition /\ b.pend = s.pend
              /\ b.failures = s.failures
          <6>1. Good(s, {}) /\ Composition \in Surfaces \ Streaming
            BY <1>0, <2>1
          <6> HIDE DEF b, s, Back
          <6> QED BY <5>1, <5>2, <6>1, RetargetKeeps
        <5> QED BY <1>0, <4>1, <5>3
      <4>2. CASE s.target # t
        <5>1. b = s
          BY <2>2, <4>2 DEF State
        <5> QED BY <2>1, <4>2, <5>1
      <4> QED BY <4>1, <4>2
    <3> HIDE DEF b
    <3>3. /\ Good(f.state, {}) /\ Moved(b, f.state) /\ f.state.pend \in {{}, b.pend}
          /\ ~f.ok => f.state.failures > 0 /\ b.pend # {} /\ b.failures < MaxFailures
          /\ f.ok => f.state.pend = {}
      BY <3>2, FlushKeeps
    <3>4. MaxFailures <= 1 => t \notin f.state.pend
      <4>1. CASE f.ok
        BY <3>3, <4>1
      <4>2. CASE ~f.ok
        <5>1. data.pend # {} /\ data.failures > 0
          BY <1>0, <2>1, <3>2, <3>3, <4>2 DEF CoherenceInv
        <5>2. data.failures \in Int /\ s.failures \in Int /\ s.failures >= data.failures
          BY <1>0, <2>1, <2>2, CountsInt DEF Good, Moved
        <5> QED BY <3>2, <3>3, <4>2, <5>1, <5>2, BoundsAssumption
      <4> QED BY <4>1, <4>2
    <3>5. f.state.target # t
      BY <3>2, <3>3 DEF Moved
    <3>6. Removed(f.state, Gone(f.state), t)
      <4>1. Gone(f.state) = [(IF HasSurface(f.state, t) THEN Release(f.state, {t}) ELSE f.state)
                                EXCEPT !.surf[t] = Empty]
        BY DEF Gone
      <4> QED BY <3>3, <3>4, <3>5, <4>1, GoneKeeps
    <3>7. Clean => Lost(data, p.state, t)
      <4>1. SUFFICES ASSUME Clean PROVE Lost(data, Gone(f.state), t)
        BY <3>1
      <4>2. data.failures \in 0 .. 0 /\ data.target # t
        <5>1. data.failures \in 0 .. 0
          BY <1>0, <4>1 DEF Good, State, Clean
        <5> QED BY <5>1 DEF DestroyTexture
      <4>3. b = s /\ Moved(data, b)
        BY <2>1, <3>2, <4>2 DEF Moved
      <4>4. Same(data, b) /\ Same(b, f.state)
        BY <3>3, <4>1, <4>3, MovedIsSame
      <4>5. \A x, y : Alike(x, y) => x.live = y.live /\ ImageOf(x) = ImageOf(y)
        BY DEF Alike, ImageOf
      <4> QED BY <3>6, <4>2, <4>4, <4>5 DEF Same, Lost, Removed
    <3> QED BY <3>1, <3>3, <3>6, <3>7 DEF Removed
  <2> QED BY <2>3, <2>4
<1> HIDE DEF Left
<1>3. PICK p \in UNION {Left(o) : o \in WaitPresent(data)} : data' = p.state
  BY <1>1 DEF Outside
<1>4. /\ Good(p.state, {}) /\ (p.state.pend # {} => p.state.failures > 0)
      /\ Clean => Lost(data, p.state, t)
  BY <1>2
<1>5. inQueue' \in BOOLEAN /\ call' \in Calls /\ call' = Quiet
  BY <1>1 DEF Outside, Silent, Calls, CoherenceInv, TypeOK
<1>6. CoherenceInv'
  BY <1>3, <1>4, <1>5, LeavesInv
<1>7. Follows
  <2>1. SUFFICES ASSUME Clean, TargetLive
                 PROVE  TargetLive' /\ Sdl!Next
    BY DEF Follows
  <2>2. Lost(data, data', t)
    BY <1>3, <1>4, <2>1
  <2>3. data.target \in Surfaces
    BY <1>0 DEF Good, State
  <2>4. TargetLive'
    BY <2>1, <2>2, <2>3 DEF TargetLive, Lost
  <2>5. ImageOf(data.surf[t]) # NoImage
    BY <1>0, <2>1, ImageWritten DEF DestroyTexture, Live
  <2>6. ImageOf(Empty) = NoImage
    BY DEF Empty, ImageOf
  <2>7. Sdl!Live(t)
    BY <1>0, <2>5 DEF Sdl!Live
  <2>8. Sdl!Becomes(t, NoImage)
    <3>1. /\ ImageOf(data'.surf[t]) = NoImage
          /\ \A u \in Surfaces \ {t} : ImageOf(data'.surf[u]) = ImageOf(data.surf[u])
      BY <2>2, <2>6 DEF Lost
    <3> QED BY <3>1 DEF Sdl!Becomes
  <2>9. Sdl!Destroy(t)
    BY <1>5, <2>7, <2>8 DEF Sdl!Destroy, Sdl!Quiet, Quiet
  <2> QED BY <2>4, <2>9 DEF Sdl!Next
<1> QED BY <1>6, <1>7

(* Another render target.                                                  *)
LEMMA SetRenderTargetInv ==
  ASSUME CoherenceInv, NEW t \in Targets \cup {Composition}, SetRenderTarget(t)
  PROVE  CoherenceInv' /\ Follows
<1> DEFINE old == data.target
           d(s) == [s EXCEPT !.target = t]
           Rest(s) == Done(DropRedundantShadow(d(s), old))
           Reimaged(s) == \A u \in Surfaces : /\ s.surf[u].live = data.surf[u].live
                                             /\ ImageOf(s.surf[u]) = ImageOf(data.surf[u])
<1>0. /\ Good(data, {}) /\ ~inQueue /\ t \in Surfaces \ Streaming /\ Held(data.surf[t])
      /\ old \in Surfaces /\ data.surf[t].live
  BY InvIsGood, NamesAssumption DEF SetRenderTarget, Usable, Live, Outside, Surfaces, Textures
<1>1. Outside(Then(FlushQueued(data), Rest))
  BY DEF SetRenderTarget
<1>2. ASSUME NEW o, o \in Then(FlushQueued(data), Rest)
      PROVE  /\ Good(o.state, {}) /\ (o.state.pend # {} => o.state.failures > 0)
             /\ Clean => o.state.target = t /\ Reimaged(o.state)
  <2>1. PICK f \in FlushQueued(data) : \/ ~f.ok /\ o = f
                                       \/ f.ok /\ o \in Rest(f.state)
    <3> HIDE DEF Rest
    <3> QED BY <1>2 DEF Then
  <2>2. /\ Good(f.state, {}) /\ (~f.ok => f.state.failures > 0) /\ Moved(data, f.state)
        /\ f.ok => f.state.pend = {}
        /\ Clean => f.ok
    BY <1>0, FlushKeeps
  <2>3. CASE ~f.ok /\ o = f
    BY <2>2, <2>3
  <2>4. CASE f.ok /\ o \in Rest(f.state)
    <3>1. o.state = DropRedundantShadow(d(f.state), old)
      <4>1. \A g : o \in Done(g) => o.state = g
        BY DEF Done
      <4> QED BY <2>4, <4>1
    <3>2. /\ Good(d(f.state), {}) /\ d(f.state).pend = f.state.pend
          /\ d(f.state).target = t /\ d(f.state).surf = f.state.surf
      <4>1. Held(f.state.surf[t])
        BY <1>0, <2>2 DEF Moved
      <4> QED BY <1>0, <2>2, <4>1, RetargetKeeps
    <3> HIDE DEF d, old
    <3>3. Good(o.state, {}) /\ Moved(d(f.state), o.state) /\ o.state.pend = {}
      BY <1>0, <2>2, <2>4, <3>1, <3>2, DropKeeps
    <3>4. Clean => o.state.target = t /\ Reimaged(o.state)
      BY <2>2, <3>2, <3>3 DEF Moved
    <3> QED BY <3>3, <3>4
  <2> QED BY <2>1, <2>2, <2>3, <2>4
<1> HIDE DEF Rest
<1>3. PICK o : o \in Then(FlushQueued(data), Rest) /\ data' = o.state
  BY <1>1 DEF Outside
<1>4. /\ Good(o.state, {}) /\ (o.state.pend # {} => o.state.failures > 0)
      /\ Clean => o.state.target = t /\ Reimaged(o.state)
  BY <1>2, <1>3
<1>5. inQueue' \in BOOLEAN /\ call' \in Calls /\ call' = Quiet
  BY <1>1 DEF Outside, Silent, Calls, CoherenceInv, TypeOK
<1>6. CoherenceInv'
  BY <1>3, <1>4, <1>5, LeavesInv
<1>7. Follows
  <2>1. SUFFICES ASSUME Clean, TargetLive
                 PROVE  TargetLive' /\ Sdl!Next
    BY DEF Follows
  <2>2. data'.target = t /\ Reimaged(data')
    BY <1>3, <1>4, <2>1
  <2>3. TargetLive'
    BY <1>0, <2>2 DEF TargetLive
  <2>4. Sdl!Forget
    BY <1>5, <2>2 DEF Sdl!Forget, Sdl!Quiet, Quiet
  <2> QED BY <2>3, <2>4 DEF Sdl!Next
<1> QED BY <1>6, <1>7

(* BeginCPUAccess: the shadow is valid, and stays.                         *)
LEMMA AccessKeeps ==
  ASSUME CoherenceInv, NEW t \in Textures, Live(t), NEW o, o \in BeginCPUAccess(t)
  PROVE  /\ Good(o.state, {}) /\ o.state.pend \subseteq data.pend
         /\ o.state.failures >= data.failures
         /\ o.state.surf[t].live /\ o.state.surf[t].lock = data.surf[t].lock
         /\ ~o.ok => o.state.failures > 0
         /\ o.ok => /\ o.state.surf[t].cpuValid /\ o.state.pend = {}
                    /\ o.state.surf[t].gpuValid = data.surf[t].gpuValid
                    /\ o.state.surf[t].device = data.surf[t].device
         /\ Clean => o.ok /\ Same(data, o.state)
<1> DEFINE x == data.surf[t]
           K(s) == [s EXCEPT !.surf[t].keepShadow = TRUE]
           Rest(s) == EnsureCPU(K(s), t)
           First == IF HasShadow(data, t) /\ data.surf[t].cpuValid THEN Done(data)
                    ELSE WaitPresent(data)
<1>0. /\ Good(data, {}) /\ data \in State /\ t \in Surfaces /\ x \in Surface /\ x.live /\ Held(x)
      /\ Moved(data, data)
  BY InvIsGood DEF Surfaces, Live
<1>1. PICK w \in First : \/ ~w.ok /\ o = w
                         \/ w.ok /\ o \in Rest(w.state)
  <2>1. o \in Then(First, Rest)
    BY DEF BeginCPUAccess
  <2> HIDE DEF First, Rest
  <2> QED BY <2>1 DEF Then
<1>2. /\ Good(w.state, {}) /\ Moved(data, w.state) /\ w.state.surf = data.surf
      /\ w.state.pend = data.pend /\ (~w.ok => w.state.failures > 0) /\ (Clean => w.ok)
  <2>1. CASE w \in Done(data)
    <3>1. w.state = data /\ w.ok
      BY <2>1 DEF Done
    <3> QED BY <1>0, <3>1
  <2>2. CASE w \in WaitPresent(data)
    BY <1>0, <2>2, WaitKeeps
  <2> QED BY <2>1, <2>2
<1>3. CASE ~w.ok /\ o = w
  BY <1>0, <1>2, <1>3 DEF Moved
<1>4. CASE w.ok /\ o \in Rest(w.state)
  <2> DEFINE s == w.state
             y == [x EXCEPT !.keepShadow = TRUE]
             d == K(s)
  <2>1. /\ Good(s, {}) /\ s.surf[t] = x /\ s.pend = data.pend /\ s.failures >= data.failures
        /\ s \in State
    BY <1>2 DEF Moved, Good
  <2>2. /\ y \in Surface /\ y.shadow = x.shadow /\ y.device = x.device /\ y.cpuValid = x.cpuValid
        /\ y.gpuValid = x.gpuValid /\ y.lock = x.lock /\ y.dirty = x.dirty
        /\ y.inUse = x.inUse /\ y.busy = x.busy /\ y.live = x.live
    BY <1>0 DEF Surface
  <2>3. d = With(s, t, y)
    BY <2>1 DEF With
  <2>4. o \in EnsureCPU(d, t)
    BY <1>4
  <2> HIDE DEF y, d, K, Rest
  <2>5. /\ Backed(y) /\ Held(y) /\ (Whole => Sound(y, t))
        /\ (t = Composition => y.live /\ y.shadow # NoImage)
        /\ (y.lock # {} => t \in Streaming /\ y.cpuValid /\ t \notin s.pend)
        /\ (Clean /\ t \in Textures => (y.busy \/ t \in s.pend => y.inUse))
        /\ (y.device # NoImage <=> s.surf[t].device # NoImage)
    <3>1. /\ Backed(x) /\ (Whole => Sound(x, t)) /\ t # Composition
          /\ (x.lock # {} => t \in Streaming /\ x.cpuValid /\ t \notin s.pend)
          /\ (Clean => (x.busy \/ t \in s.pend => x.inUse))
      BY <1>0, <2>1, NamesAssumption DEF Good
    <3>2. (Backed(x) => Backed(y)) /\ (Held(x) => Held(y)) /\ (Sound(x, t) => Sound(y, t))
      BY <2>2 DEF Backed, Held, Sound
    <3> QED BY <1>0, <2>1, <2>2, <3>1, <3>2
  <2>6. /\ Good(d, {}) /\ d.surf[t] = y /\ d.pend = s.pend /\ d.failures = s.failures
        /\ d.target = s.target /\ \A u \in Surfaces \ {t} : d.surf[u] = s.surf[u]
    <3>1. Good(s, {}) /\ t \in Surfaces /\ y \in Surface
      BY <1>0, <2>1, <2>2
    <3> QED BY ONLY <2>3, <2>5, <3>1, OneKeeps
  <2>7. Kept(d, o, {}) /\ (o.ok => ReadBack(d, o.state, t))
    BY <1>0, <2>4, <2>5, <2>6, EnsureCPUKeeps
  <2>8. /\ o.state.pend \subseteq data.pend /\ o.state.surf[t].live = y.live
        /\ o.state.surf[t].lock = y.lock
    BY <1>0, <2>1, <2>6, <2>7 DEF Kept, Moved
  <2>9. o.state.failures >= data.failures
    <3>1. data.failures \in Int /\ s.failures \in Int /\ o.state.failures \in Int
      BY <1>0, <2>1, <2>7, CountsInt DEF Kept, Good
    <3> QED BY <2>1, <2>6, <2>7, <3>1 DEF Kept, Moved
  <2>10. Clean => o.ok /\ Same(data, o.state)
    <3>1. SUFFICES ASSUME Clean PROVE o.ok /\ Same(data, o.state)
      OBVIOUS
    <3>2. ImageOf(y) = ImageOf(x)
      BY <2>2 DEF ImageOf
    <3>3. s.target = data.target /\ s.surf = data.surf
      BY <1>2 DEF Moved
    <3>4. Same(data, d)
      BY <2>2, <2>6, <3>2, <3>3 DEF Same
    <3>5. o.ok
      BY <2>7, <3>1, CleanSucceeds
    <3>6. Same(d, o.state)
      BY <2>7, <3>1, MovedIsSame DEF Kept
    <3> QED BY <3>4, <3>5, <3>6, SameTwice
  <2> QED BY <1>0, <2>2, <2>6, <2>7, <2>8, <2>9, <2>10 DEF Kept, ReadBack
<1> QED BY <1>1, <1>3, <1>4

(* What was drawn into a shadow is all that the surface lacks.             *)
LEMMA RestIsSame ==
  ASSUME NEW x \in Surface, NEW t, Sound(x, t), Whole, x.cpuValid, x.gpuValid, Backed(x),
         NEW r \in Rects, NEW from, Paint(from, r)
  PROVE  Over(x.device, r, Over(x.shadow, r, from)) = Over(x.shadow, r, from)
<1>1. r \in SUBSET Cells /\ x.shadow \in Images /\ x.device \in Images /\ Images \subseteq Image
  BY PixelsAssumption, OverImage DEF Sound
<1>2. Over(x.shadow, r, from) \in Image
  BY <1>1, Overlay
<1>3. CASE Clean
  BY <1>1, <1>3 DEF Sound, Over
<1>4. CASE Rects = {Cells}
  BY <1>1, <1>2, <1>4, OverImage
<1> QED BY <1>3, <1>4 DEF Whole

(* Drawing into a valid shadow draws what SDL sees.                        *)
LEMMA RedrawnDraws ==
  ASSUME Clean, NEW s, Good(s, {}), NEW t \in Surfaces, s.surf[t].cpuValid, s.surf[t].live,
         NEW r, NEW from, NEW dirty, NEW d, Redrawn(s, d, t, Drawn(s.surf[t], r, from, dirty))
  PROVE  Drew(s, d, t, r, from)
<1> DEFINE x == s.surf[t]
           y == Drawn(x, r, from, dirty)
<1>1. x \in Surface /\ ImageOf(x) = x.shadow /\ x.live
  BY ImageWritten DEF Good, State
<1>2. y.live = x.live /\ y.live /\ ~y.gpuValid /\ y.shadow = Over(x.shadow, r, from)
  BY <1>1 DEF Drawn, Surface
<1>3. /\ d.target = s.target /\ d.surf[t] = y
      /\ \A u \in Surfaces \ {t} : d.surf[u] = s.surf[u]
  BY DEF Redrawn
<1> HIDE DEF y
<1>4. ImageOf(y) = Over(ImageOf(x), r, from)
  BY <1>1, <1>2 DEF ImageOf
<1> QED BY <1>1, <1>2, <1>3, <1>4 DEF Drew

(* SDL writes a rectangle of a texture.                                    *)
LEMMA UpdateTextureInv ==
  ASSUME CoherenceInv, NEW t \in Textures, NEW r \in Rects, NEW from \in Drawings(r),
         UpdateTexture(t, r, from)
  PROVE  CoherenceInv' /\ Follows
<1> DEFINE was == data.surf[t].gpuValid
           Ends(v) == IF HasSurface(v, t) /\ was THEN UploadNow(v, t, r) ELSE Done(v)
           Turn(u) == IF was THEN Rotate(CPUWrite(u, t, r, from), t)
                      ELSE Done(CPUWrite(u, t, r, from))
           Writes(u) == Then(Turn(u), Ends)
<1>0. /\ ~inQueue /\ Live(t) /\ t \in Surfaces /\ Paint(from, r) /\ r \in SUBSET Cells
  BY Paints, PixelsAssumption DEF UpdateTexture, Outside, Usable, Surfaces
<1>1. Outside(Then(BeginCPUAccess(t), Writes))
  BY DEF UpdateTexture
<1>2. ASSUME NEW o, o \in Then(BeginCPUAccess(t), Writes)
      PROVE  /\ Good(o.state, {}) /\ (o.state.pend # {} => o.state.failures > 0)
             /\ Clean => Drew(data, o.state, t, r, from)
  <2>1. PICK a \in BeginCPUAccess(t) : \/ ~a.ok /\ o = a
                                       \/ a.ok /\ o \in Writes(a.state)
    <3> HIDE DEF Writes
    <3> QED BY <1>2 DEF Then
  <2>2. /\ Good(a.state, {}) /\ a.state.pend \subseteq data.pend
        /\ a.state.failures >= data.failures
        /\ a.ok => /\ a.state.surf[t].cpuValid /\ a.state.pend = {}
                   /\ a.state.surf[t].gpuValid = data.surf[t].gpuValid
        /\ a.state.surf[t].live /\ (Clean => a.ok /\ Same(data, a.state))
    BY <1>0, <2>1, AccessKeeps
  <2>3. CASE ~a.ok /\ o = a
    BY <1>0, <2>2, <2>3, LeftOver
  <2>4. CASE a.ok /\ o \in Writes(a.state)
    <3> DEFINE u == a.state
               x == u.surf[t]
               d == CPUWrite(u, t, r, from)
               y == Drawn(x, r, from, Hull(x.dirty \cup r))
    <3>1. PICK g \in Turn(u) : \/ ~g.ok /\ o = g
                               \/ g.ok /\ o \in Ends(g.state)
      <4> HIDE DEF Ends, Turn
      <4> QED BY <2>4 DEF Then
    <3>2. /\ u \in State /\ x \in Surface /\ Backed(x) /\ (Whole => Sound(x, t)) /\ x.cpuValid
          /\ x.gpuValid = was /\ Good(u, {}) /\ u.pend = {} /\ x.live
          /\ Clean => Same(data, u)
      BY <1>0, <2>2, <2>4 DEF Good, State
    <3>3. /\ Good(d, {}) /\ d.pend = {} /\ d.surf[t] = y
          /\ Clean => Drew(data, d, t, r, from)
      <4>1. Good(u, {}) /\ t \in Surfaces /\ u.surf[t].cpuValid /\ Paint(from, r) /\ r \in Rects
        BY <1>0, <3>2
      <4> HIDE DEF u, d
      <4>2. d = CPUWrite(u, t, r, from)
        BY DEF d
      <4>3. Redrawn(u, d, t, Drawn(u.surf[t], r, from, Hull(u.surf[t].dirty \cup r)))
        BY ONLY <4>1, <4>2, CPUWriteKeeps
      <4>4. Clean => Drew(u, d, t, r, from)
        BY <1>0, <3>2, <4>1, <4>3, RedrawnDraws
      <4>5. Clean => Drew(data, d, t, r, from)
        BY <1>0, <3>2, <4>4, DrewSame
      <4> QED BY <3>2, <4>3, <4>5 DEF Redrawn
    <3>4. /\ y.cpuValid /\ ~y.gpuValid /\ y.device = x.device /\ y.shadow = Over(x.shadow, r, from)
      BY <3>2 DEF Drawn, Surface
    <3>5. \/ g \in Rotate(d, t) /\ was
          \/ g.state = d /\ g.ok /\ ~was
      <4>1. \A v : g \in Done(v) => g.state = v /\ g.ok
        BY DEF Done
      <4> QED BY <3>1, <4>1
    <3>6. Good(g.state, {}) /\ g.state.pend = {}
          /\ (g.ok => /\ g.state.surf[t].cpuValid
                      /\ \/ g.state.surf[t].gpuValid
                         \/ g.state.surf[t].device = y.device /\ g.state.surf[t].shadow = y.shadow)
          /\ Moved(d, g.state)
      <4>1. CASE g \in Rotate(d, t)
        BY <1>0, <3>3, <3>4, <4>1, RotateKeeps DEF Kept, Moved
      <4>2. CASE g.state = d /\ g.ok
        <5>1. Moved(d, d)
          BY <3>3, MovedTwice DEF Good
        <5> QED BY <3>3, <3>4, <4>2, <5>1
      <4> QED BY <3>5, <4>1, <4>2
    <3>9. Clean => Drew(data, g.state, t, r, from)
      <4> HIDE DEF d
      <4> QED BY <1>0, <3>3, <3>6, MovedIsSame, DrewSame
    <3>7. CASE ~g.ok /\ o = g
      BY <3>6, <3>7, <3>9
    <3>8. CASE g.ok /\ o \in Ends(g.state)
      <4>1. CASE o \in Done(g.state)
        <5>1. o.state = g.state
          BY <4>1 DEF Done
        <5> QED BY <3>6, <3>9, <5>1
      <4>2. CASE o \in UploadNow(g.state, t, r) /\ HasSurface(g.state, t) /\ was
        <5>1. Whole /\ ~g.state.surf[t].gpuValid =>
                Over(g.state.surf[t].device, r, g.state.surf[t].shadow) = g.state.surf[t].shadow
          <6>1. Whole => Over(x.device, r, y.shadow) = y.shadow
            <7>1. Whole => Sound(x, t) /\ x.cpuValid /\ x.gpuValid /\ Backed(x)
              BY <3>2, <4>2
            <7>2. Whole => Over(x.device, r, Over(x.shadow, r, from)) = Over(x.shadow, r, from)
              BY <1>0, <3>2, <7>1, RestIsSame
            <7> QED BY <3>4, <7>2
          <6> QED BY <3>4, <3>6, <3>8, <6>1
        <5>2. t \notin g.state.pend
          BY <3>6
        <5>3. Kept(g.state, o, {})
          BY <1>0, <3>6, <3>8, <4>2, <5>1, <5>2, UploadNowKeeps
        <5>4. Clean => Drew(data, o.state, t, r, from)
          BY <1>0, <3>9, <5>3, MovedIsSame, DrewSame DEF Kept
        <5> QED BY <3>6, <5>3, <5>4 DEF Kept, Moved
      <4> QED BY <3>8, <4>1, <4>2
    <3> QED BY <3>1, <3>7, <3>8
  <2> QED BY <2>1, <2>3, <2>4
<1> HIDE DEF Writes
<1>3. /\ \A c \in r : from[c] \in Values
      /\ data.surf[t].live
  BY <1>0 DEF Drawings, Live
<1> QED BY <1>0, <1>1, <1>2, <1>3, OutsideDraws

(* SDL locks a rectangle, and may write into the shadow from then on.      *)
LEMMA LockTextureInv ==
  ASSUME CoherenceInv, NEW t \in Streaming, NEW r \in Rects, LockTexture(t, r)
  PROVE  CoherenceInv' /\ Follows
<1> DEFINE K(s) == [s EXCEPT !.surf[t].lock = r]
           Rest(s) == Done(K(s))
<1>0. ~inQueue /\ Live(t) /\ t \in Textures /\ t \in Surfaces
  BY DEF LockTexture, Outside, Usable, Surfaces, Textures
<1>1. Outside(Then(BeginCPUAccess(t), Rest))
  BY DEF LockTexture
<1>2. ASSUME NEW o, o \in Then(BeginCPUAccess(t), Rest)
      PROVE  /\ Good(o.state, {}) /\ (o.state.pend # {} => o.state.failures > 0)
             /\ Clean => Same(data, o.state)
  <2>1. PICK a \in BeginCPUAccess(t) : \/ ~a.ok /\ o = a
                                       \/ a.ok /\ o \in Rest(a.state)
    <3> HIDE DEF Rest
    <3> QED BY <1>2 DEF Then
  <2>2. /\ Good(a.state, {}) /\ a.state.pend \subseteq data.pend
        /\ a.state.failures >= data.failures
        /\ a.ok => a.state.surf[t].cpuValid /\ a.state.pend = {}
        /\ Clean => a.ok /\ Same(data, a.state)
    BY <1>0, <2>1, AccessKeeps
  <2>3. CASE ~a.ok /\ o = a
    BY <1>0, <2>2, <2>3, LeftOver
  <2>4. CASE a.ok /\ o \in Rest(a.state)
    <3> DEFINE s == a.state
               x == s.surf[t]
               y == [x EXCEPT !.lock = r]
    <3>1. o.state = K(s)
      <4>1. \A v : o \in Done(v) => o.state = v
        BY DEF Done
      <4> QED BY <2>4, <4>1
    <3>2. x \in Surface /\ Good(s, {}) /\ s.pend = {} /\ x.cpuValid
      BY <1>0, <2>2, <2>4 DEF Good, State
    <3>3. /\ y \in Surface /\ y.shadow = x.shadow /\ y.device = x.device /\ y.cpuValid = x.cpuValid
          /\ y.gpuValid = x.gpuValid /\ y.dirty = x.dirty
          /\ y.inUse = x.inUse /\ y.busy = x.busy /\ y.live = x.live
      BY <3>2 DEF Surface
    <3>4. K(s) = With(s, t, y)
      BY DEF With
    <3> HIDE DEF y, K, Rest
    <3>5. /\ Backed(y) /\ (t = s.target => Held(y)) /\ (Whole => Sound(y, t))
          /\ (t = Composition => y.live /\ y.shadow # NoImage)
          /\ (y.lock # {} => t \in Streaming /\ y.cpuValid /\ t \notin s.pend)
          /\ (Clean /\ t \in Textures => (y.busy \/ t \in s.pend => y.inUse))
          /\ (y.device # NoImage <=> s.surf[t].device # NoImage)
      <4>1. /\ Backed(x) /\ (Whole => Sound(x, t)) /\ t # Composition
            /\ (Clean => (x.busy \/ t \in s.pend => x.inUse))
        BY <1>0, <3>2, NamesAssumption DEF Good
      <4>2. (Backed(x) => Backed(y)) /\ Held(y) /\ (Sound(x, t) => Sound(y, t))
        BY <3>2, <3>3 DEF Backed, Held, Sound
      <4> QED BY <3>2, <3>3, <4>1, <4>2
    <3>6. /\ Good(K(s), {}) /\ K(s).pend = s.pend /\ K(s).target = s.target
          /\ K(s).surf[t] = y /\ \A u \in Surfaces \ {t} : K(s).surf[u] = s.surf[u]
      <4>1. Good(s, {}) /\ t \in Surfaces /\ y \in Surface
        BY <1>0, <3>2, <3>3
      <4> QED BY ONLY <3>4, <3>5, <4>1, OneKeeps
    <3>7. ImageOf(y) = ImageOf(x)
      BY <3>3 DEF ImageOf
    <3>8. Same(s, K(s))
      BY <3>3, <3>6, <3>7 DEF Same
    <3>9. Clean => Same(data, o.state)
      BY <2>2, <3>1, <3>8, SameTwice
    <3> QED BY <3>1, <3>2, <3>6, <3>9
  <2> QED BY <2>1, <2>3, <2>4
<1> HIDE DEF Rest
<1> QED BY <1>1, <1>2, OutsideKeeps

(* What was written into the locked rectangle takes effect.                *)
LEMMA UnlockTextureInv ==
  ASSUME CoherenceInv, NEW t \in Streaming, NEW from, from \in Drawings(data.surf[t].lock),
         UnlockTexture(t, from)
  PROVE  CoherenceInv' /\ Follows
<1> DEFINE was == data.surf[t].gpuValid
           x == data.surf[t]
           r == x.lock
           d == CPUWrite(data, t, r, from)
           s == [d EXCEPT !.surf[t].lock = {}]
           Turn == IF was THEN Rotate(s, t) ELSE Done(s)
           Ends(u) == UploadNow(u, t, IF was THEN r ELSE Cells)
           Ways == IF ~HasSurface(s, t) THEN Done(s) ELSE Then(Turn, Ends)
<1>0. /\ ~inQueue /\ t \in Textures /\ t \in Surfaces /\ t # Composition /\ x.live /\ r # {}
      /\ Good(data, {}) /\ x \in Surface /\ Backed(x) /\ (Whole => Sound(x, t))
  BY InvIsGood, NamesAssumption DEF UnlockTexture, Outside, Live, Surfaces, Textures, Good
<1>1. Outside(Ways)
  BY DEF UnlockTexture
<1>2. r \in Rects /\ x.cpuValid /\ t \notin data.pend
  BY <1>0 DEF Good, Surface
<1>3. Paint(from, r) /\ r \in SUBSET Cells
  BY <1>2, Paints, PixelsAssumption
<1> DEFINE y == Drawn(x, r, from, Hull(x.dirty \cup r))
           z == [y EXCEPT !.lock = {}]
<1>4. /\ Good(d, {}) /\ d.pend = data.pend /\ d.failures = data.failures /\ d.surf[t] = y
      /\ Clean => Drew(data, d, t, r, from)
  <2> HIDE DEF r, d
  <2>1. d = CPUWrite(data, t, r, from)
    BY DEF d
  <2>2. Good(data, {}) /\ t \in Surfaces /\ data.surf[t].cpuValid /\ Paint(from, r) /\ r \in Rects
    BY <1>0, <1>2, <1>3
  <2>3. Redrawn(data, d, t, y)
    BY ONLY <2>1, <2>2, CPUWriteKeeps
  <2>4. Clean => Drew(data, d, t, r, from)
    BY <1>0, <2>2, <2>3, RedrawnDraws
  <2> QED BY <2>3, <2>4 DEF Redrawn
<1> HIDE DEF d, r
<1>5. d \in State /\ y \in Surface
  BY <1>0, <1>4 DEF Good, State
<1>6. /\ y.cpuValid /\ ~y.gpuValid /\ y.device = x.device /\ y.shadow = Over(x.shadow, r, from)
  BY <1>0 DEF Drawn, Surface
<1> HIDE DEF y
<1>7. /\ z \in Surface /\ z.shadow = y.shadow /\ z.device = y.device /\ z.cpuValid = y.cpuValid
      /\ z.gpuValid = y.gpuValid /\ z.dirty = y.dirty /\ z.keepShadow = y.keepShadow
      /\ z.inUse = y.inUse /\ z.busy = y.busy /\ z.live = y.live /\ z.lock = {}
  BY <1>5 DEF Surface
<1>8. s = With(d, t, z)
  BY <1>4 DEF With
<1> HIDE DEF s, z
<1>9. /\ Good(s, {}) /\ s.surf[t] = z /\ s.pend = data.pend /\ s.failures = data.failures
      /\ Same(d, s)
  <2>1. /\ Backed(z) /\ (t = d.target => Held(z)) /\ (Whole => Sound(z, t))
        /\ (t = Composition => z.live /\ z.shadow # NoImage)
        /\ (z.lock # {} => t \in Streaming /\ z.cpuValid /\ t \notin d.pend)
        /\ (Clean /\ t \in Textures => (z.busy \/ t \in d.pend => z.inUse))
        /\ (z.device # NoImage <=> d.surf[t].device # NoImage)
    <3>1. /\ Backed(y) /\ (Whole => Sound(y, t))
          /\ (Clean => (y.busy \/ t \in d.pend => y.inUse))
      BY <1>0, <1>4 DEF Good
    <3>2. (Backed(y) => Backed(z)) /\ Held(z) /\ (Sound(y, t) => Sound(z, t))
      BY <1>6, <1>7 DEF Backed, Held, Sound
    <3> QED BY <1>0, <1>4, <1>7, <3>1, <3>2
  <2>2. Good(d, {}) /\ t \in Surfaces /\ z \in Surface
    BY <1>0, <1>4, <1>7
  <2>3. /\ Good(s, {}) /\ s.surf[t] = z /\ s.pend = d.pend /\ s.failures = d.failures
        /\ s.target = d.target /\ \A u \in Surfaces \ {t} : s.surf[u] = d.surf[u]
    BY ONLY <1>8, <2>1, <2>2, OneKeeps
  <2>4. ImageOf(z) = ImageOf(y)
    BY <1>7 DEF ImageOf
  <2>5. Same(d, s)
    BY <1>4, <1>7, <2>3, <2>4 DEF Same
  <2> QED BY <1>4, <2>3, <2>5
<1>10. /\ z.cpuValid /\ ~z.gpuValid /\ z.device = x.device /\ z.shadow = Over(x.shadow, r, from)
       /\ x.device \in Image \cup {NoImage} /\ z.shadow \in Image \cup {NoImage}
       /\ z.shadow # NoImage
  BY <1>0, <1>6, <1>7, <1>9 DEF Surface, Good, Backed
<1>11. ASSUME NEW o, o \in Ways
       PROVE  Kept(s, o, {})
  <2>1. CASE o \in Done(s)
    <3>1. o.state = s /\ o.ok
      BY <2>1 DEF Done
    <3>2. Moved(s, s)
      BY <1>9, MovedTwice DEF Good
    <3> QED BY <1>9, <3>1, <3>2 DEF Kept
  <2>2. CASE o \in Then(Turn, Ends) /\ HasSurface(s, t)
    <3>1. PICK g \in Turn : \/ ~g.ok /\ o = g
                            \/ g.ok /\ o \in Ends(g.state)
      <4> HIDE DEF Turn, Ends
      <4> QED BY <2>2 DEF Then
    <3>2. \/ g \in Rotate(s, t) /\ was
          \/ g.state = s /\ g.ok /\ ~was
      <4>1. \A v : g \in Done(v) => g.state = v /\ g.ok
        BY DEF Done
      <4> QED BY <3>1, <4>1
    <3>3. /\ Kept(s, g, {})
          /\ g.ok => /\ g.state.surf[t].cpuValid /\ HasSurface(g.state, t)
                     /\ \/ g.state.surf[t].gpuValid
                        \/ g.state.surf[t].device = z.device /\ g.state.surf[t].shadow = z.shadow
      <4>1. CASE g \in Rotate(s, t)
        BY <1>0, <1>9, <1>10, <2>2, <4>1, RotateKeeps
      <4>2. CASE g.state = s /\ g.ok
        <5>1. Moved(s, s)
          BY <1>9, MovedTwice DEF Good
        <5> QED BY <1>9, <1>10, <2>2, <4>2, <5>1 DEF Kept
      <4> QED BY <3>2, <4>1, <4>2
    <3>4. CASE ~g.ok /\ o = g
      BY <3>3, <3>4
    <3>5. CASE g.ok /\ o \in Ends(g.state)
      <4> DEFINE q == IF was THEN r ELSE Cells
      <4>1. Whole => Over(x.device, q, z.shadow) = z.shadow
        <5>1. CASE was
          <6>1. Whole => Over(x.device, r, Over(x.shadow, r, from)) = Over(x.shadow, r, from)
            BY <1>0, <1>2, <1>3, <5>1, RestIsSame
          <6> QED BY <1>10, <5>1, <6>1
        <5>2. CASE ~was
          <6>1. x.device \in Image
            BY <1>9, <1>10, <2>2 DEF HasSurface
          <6>2. Over(x.device, Cells, z.shadow) = z.shadow
            BY <1>10, <6>1, OverImage
          <6> QED BY <5>2, <6>2
        <5> QED BY <5>1, <5>2
      <4>2. o \in UploadNow(g.state, t, q)
        BY <3>5
      <4> HIDE DEF q
      <4>3. Whole /\ ~g.state.surf[t].gpuValid =>
              Over(g.state.surf[t].device, q, g.state.surf[t].shadow) = g.state.surf[t].shadow
        BY <1>10, <3>3, <3>5, <4>1
      <4>4. t \notin g.state.pend /\ Good(g.state, {}) /\ HasSurface(g.state, t)
            /\ g.state.surf[t].cpuValid
        BY <1>2, <1>9, <3>3, <3>5 DEF Kept, Moved
      <4>5. Kept(g.state, o, {})
        BY <1>0, <4>2, <4>3, <4>4, UploadNowKeeps
      <4>6. s \in State /\ g.state \in State /\ Moved(s, g.state)
        BY <1>9, <3>3 DEF Kept, Good
      <4> QED BY <4>5, <4>6, KeptTwice
    <3> QED BY <3>1, <3>4, <3>5
  <2> HIDE DEF Turn, Ends
  <2> QED BY <1>11, <2>1, <2>2
<1>12. \A o \in Ways : /\ Good(o.state, {}) /\ (o.state.pend # {} => o.state.failures > 0)
                       /\ Clean => Drew(data, o.state, t, r, from)
  <2>1. ASSUME NEW o, o \in Ways
        PROVE  /\ Good(o.state, {}) /\ (o.state.pend # {} => o.state.failures > 0)
               /\ Clean => Drew(data, o.state, t, r, from)
    <3>1. Kept(s, o, {})
      BY <1>11, <2>1
    <3> HIDE DEF Ways
    <3>2. /\ Good(o.state, {}) /\ o.state.pend \subseteq data.pend
          /\ o.state.failures >= data.failures
      BY <1>9, <3>1 DEF Kept, Moved
    <3>3. Clean => Same(s, o.state)
      BY <3>1, MovedIsSame DEF Kept
    <3>4. Clean => Drew(data, s, t, r, from)
      BY <1>0, <1>4, <1>9, DrewSame
    <3>5. Clean => Drew(data, o.state, t, r, from)
      BY <1>0, <3>3, <3>4, DrewSame
    <3> QED BY <1>0, <3>2, <3>5, LeftOver
  <2> QED BY <2>1
<1> HIDE DEF Ways
<1>13. (\A c \in r : from[c] \in Values) /\ data.surf[t].live
  BY <1>0 DEF Drawings, r
<1> QED BY <1>0, <1>1, <1>2, <1>12, <1>13, OutsideDraws

(* A fill of the render target.                                            *)
LEMMA FillKeeps ==
  ASSUME NEW s, NEW t \in Surfaces, Good(s, {t}), ~Clean => Good(s, {}), t = s.target,
         HasSurface(s, t), NEW r \in SUBSET Cells, NEW from, Paint(from, r),
         Whole => s.surf[t].device \in Images \/ r = Cells,
         NEW b \in Submit(s, t, {t}, r, from), NEW o,
         \/ ~b.ok /\ o = b
         \/ b.ok /\ o.ok /\ o.state = MarkGPUWrite(b.state, t)
  PROVE  /\ Good(o.state, {}) /\ (~o.ok => o.state.failures > 0)
         /\ s.surf[t].live /\ (s.surf[t].gpuValid \/ r = Cells) /\ o.ok =>
              Drew(s, o.state, t, r, from)
<1>1. {t} \in SUBSET Surfaces /\ \A u \in {t} : s.surf[u].lock = {}
  BY DEF Good
<1>2. /\ b.ok => Queueing(s, b.state, t, {t}, Inked(s.surf[t], r, from))
      /\ ~b.ok => Good(b.state, {}) /\ b.state.failures > 0
  BY <1>1, SubmitKeeps
<1>3. CASE ~b.ok /\ o = b
  BY <1>2, <1>3
<1>4. CASE b.ok /\ o.ok /\ o.state = MarkGPUWrite(b.state, t)
  <2> DEFINE q == b.state
             refs == {t}
  <2>1. /\ q \in State /\ q.target = s.target /\ q.pend = s.pend \cup refs
        /\ q.residentBytes = s.residentBytes /\ q.raced = s.raced /\ q.failures = s.failures
        /\ q.surf[t] = Inked(s.surf[t], r, from)
        /\ \A u \in Surfaces \ {t} : q.surf[u] = s.surf[u] /\ u \notin refs
    BY <1>2, <1>4 DEF Queueing
  <2>2. refs \in SUBSET Surfaces /\ \A u \in refs : s.surf[u].lock = {}
    BY <1>1
  <2> HIDE DEF q, refs
  <2>3. Joined(s, q, t, refs)
    BY <2>1 DEF Joined
  <2>4. /\ Good(MarkGPUWrite(q, t), {})
        /\ s.surf[t].live /\ (s.surf[t].gpuValid \/ r = Cells) =>
             Drew(s, MarkGPUWrite(q, t), t, r, from)
    BY <2>1, <2>2, <2>3, MarkKeeps
  <2> QED BY <1>4, <2>4 DEF q
<1> QED BY <1>3, <1>4

(* A copy from one surface to another.                                     *)
LEMMA CopyKeeps ==
  ASSUME NEW s, NEW t \in Surfaces, Good(s, {}), t = s.target,
         HasSurface(s, t), s.surf[t].gpuValid,
         NEW source \in Surfaces \ {t}, HasSurface(s, source), s.surf[source].gpuValid,
         s.surf[source].lock = {}, NEW r \in SUBSET Cells,
         NEW b \in Submit(s, t, {t, source}, r, s.surf[source].device), NEW o,
         \/ ~b.ok /\ o = b
         \/ /\ b.ok /\ o.ok
            /\ o.state = MarkGPUWrite([b.state EXCEPT !.surf[source].inUse = TRUE], t)
  PROVE  /\ Good(o.state, {}) /\ (~o.ok => o.state.failures > 0)
         /\ s.surf[t].live /\ o.ok => Drew(s, o.state, t, r, s.surf[source].device)
<1> DEFINE from == s.surf[source].device
           x == s.surf[source]
<1>0. /\ s \in State /\ x \in Surface /\ from \in Image /\ from # NoImage
      /\ Whole => from \in Images /\ s.surf[t].device \in Images
  BY DEF Good, State, HasSurface, Surface, Sound
<1>1. Paint(from, r)
  BY <1>0, Paints
<1>2. {t, source} \in SUBSET Surfaces /\ \A u \in {t, source} : s.surf[u].lock = {}
  BY DEF Good
<1>3. Good(s, {t})
  BY Exempted
<1>4. /\ b.ok => Queueing(s, b.state, t, {t, source}, Inked(s.surf[t], r, from))
      /\ ~b.ok => Good(b.state, {}) /\ b.state.failures > 0
  <2>1. b \in Submit(s, t, {t, source}, r, from) /\ (~Clean => Good(s, {}))
    OBVIOUS
  <2> HIDE DEF from
  <2> QED BY <1>1, <1>2, <1>3, <2>1, SubmitKeeps
<1>5. CASE ~b.ok /\ o = b
  BY <1>4, <1>5
<1>6. CASE /\ b.ok /\ o.ok
           /\ o.state = MarkGPUWrite([b.state EXCEPT !.surf[source].inUse = TRUE], t)
  <2> DEFINE w == b.state
             y == [x EXCEPT !.inUse = TRUE]
             q == [w EXCEPT !.surf[source].inUse = TRUE]
  <2>1. /\ w \in State /\ w.target = s.target /\ w.pend = s.pend \cup {t, source}
        /\ w.residentBytes = s.residentBytes /\ w.raced = s.raced /\ w.failures = s.failures
        /\ w.surf[t] = Inked(s.surf[t], r, from)
        /\ \A u \in Surfaces \ {t} : w.surf[u] = s.surf[u]
    BY <1>4, <1>6 DEF Queueing
  <2>2. y \in Surface /\ y.inUse
    BY <1>0 DEF Surface
  <2>3. w.surf[source] = x
    BY <2>1
  <2>4. q = With(w, source, y)
    BY <2>3 DEF With
  <2>5. o.state = MarkGPUWrite(q, t)
    BY <1>6
  <2> HIDE DEF q, w
  <2>6. /\ q \in State /\ q.surf[source] = y
        /\ \A u \in Surfaces \ {source} : q.surf[u] = w.surf[u]
        /\ q.target = w.target /\ q.pend = w.pend
        /\ q.residentBytes = w.residentBytes /\ q.raced = w.raced /\ q.failures = w.failures
    <3>1. w \in State /\ source \in Surfaces /\ y \in Surface
      BY <2>1, <2>2
    <3> HIDE DEF y
    <3> QED BY ONLY <2>4, <3>1, WithFields
  <2>7. q.surf[t] = Inked(s.surf[t], r, from)
    BY <2>1, <2>6
  <2>8. Joined(s, q, t, {t, source})
    BY <2>1, <2>2, <2>6 DEF Joined
  <2>9. Whole => s.surf[t].device \in Images \/ r = Cells
    BY <1>0
  <2> HIDE DEF from
  <2>10. /\ Good(MarkGPUWrite(q, t), {})
         /\ s.surf[t].live /\ (s.surf[t].gpuValid \/ r = Cells) =>
              Drew(s, MarkGPUWrite(q, t), t, r, from)
    BY <1>1, <1>2, <1>3, <2>7, <2>8, <2>9, MarkKeeps
  <2> QED BY <1>6, <2>5, <2>10 DEF from
<1> QED BY <1>5, <1>6

(* Without errors none is counted.                                         *)
LEMMA NoErrors ==
  ASSUME NEW X, NEW s, Good(s, X), s.failures > 0
  PROVE  ~Clean
<1>1. s.failures \in 0 .. MaxFailures
  BY DEF Good, State
<1> QED BY <1>1 DEF Clean

(* Clear, also of a surface that has to be made first.                     *)
LEMMA ClearInv ==
  ASSUME CoherenceInv, NEW v \in Values, Clear(v)
  PROVE  CoherenceInv' /\ Follows
<1> DEFINE t == data.target
           Marks(u) == Done(MarkGPUWrite(u, t))
           Fills(s) == Then(Submit(s, t, {t}, Cells, Plain(v)), Marks)
<1>0. Good(data, {}) /\ data \in State /\ t \in Surfaces /\ Held(data.surf[t])
  BY InvIsGood
<1>1. Queued(Then(MakeResident(data, t), Fills))
  BY DEF Clear, target
<1>2. Paint(Plain(v), Cells) /\ Cells \in SUBSET Cells
  BY DEF Paint, Plain, Pixels
<1>3. ASSUME NEW o, o \in Then(MakeResident(data, t), Fills)
      PROVE  /\ Good(o.state, {}) /\ (~o.ok => o.state.failures > 0)
             /\ Clean /\ TargetLive => Drew(data, o.state, t, Cells, Plain(v))
  <2>1. PICK m \in MakeResident(data, t) : \/ ~m.ok /\ o = m
                                           \/ m.ok /\ o \in Fills(m.state)
    <3> HIDE DEF Fills
    <3> QED BY <1>3 DEF Then
  <2>2. /\ Kept(data, m, {t})
        /\ ~m.ok \/ ~Clean => Good(m.state, {})
        /\ m.ok => HasSurface(m.state, t)
    BY <1>0, MakeResidentKeeps DEF MadeResident
  <2>3. CASE ~m.ok /\ o = m
    BY <2>2, <2>3, CleanSucceeds DEF Kept
  <2>4. CASE m.ok /\ o \in Fills(m.state)
    <3> DEFINE s == m.state
    <3>1. PICK b \in Submit(s, t, {t}, Cells, Plain(v)) : \/ ~b.ok /\ o = b
                                                          \/ b.ok /\ o \in Marks(b.state)
      <4> HIDE DEF Marks
      <4> QED BY <2>4 DEF Then
    <3>2. \/ ~b.ok /\ o = b
          \/ b.ok /\ o.ok /\ o.state = MarkGPUWrite(b.state, t)
      <4>1. \A q : o \in Done(q) => o.ok /\ o.state = q
        BY DEF Done
      <4> QED BY <3>1, <4>1
    <3>3. Good(s, {t}) /\ (~Clean => Good(s, {})) /\ HasSurface(s, t) /\ t = s.target
      BY <2>2, <2>4 DEF Kept, Moved
    <3>4. Whole => s.surf[t].device \in Images \/ Cells = Cells
      OBVIOUS
    <3>6. Clean /\ TargetLive => Same(data, s) /\ s.surf[t].live
      BY <1>0, <2>2, MovedIsSame DEF Kept, Same, TargetLive
    <3> HIDE DEF s, t
    <3>7. /\ Good(o.state, {}) /\ (~o.ok => o.state.failures > 0)
          /\ s.surf[t].live /\ o.ok => Drew(s, o.state, t, Cells, Plain(v))
      BY <1>0, <1>2, <3>1, <3>2, <3>3, <3>4, FillKeeps
    <3> QED BY <1>0, <3>6, <3>7, NoErrors, DrewSame
  <2> QED BY <2>1, <2>3, <2>4
<1> HIDE DEF Fills
<1>4. Cells \in Rects /\ \A c \in Cells : Plain(v)[c] \in Values
  BY PixelsAssumption DEF Plain
<1> QED BY <1>1, <1>3, <1>4, QueuedDraws

(* Fills of rectangles.                                                    *)
LEMMA FillRectsInv ==
  ASSUME CoherenceInv, NEW r \in Rects, NEW from \in Drawings(r), FillRects(r, from)
  PROVE  CoherenceInv' /\ Follows
<1> DEFINE t == data.target
           Marks(u) == Done(MarkGPUWrite(u, t))
           Fills(s) == Then(Submit(s, t, {t}, r, from), Marks)
<1>0. Good(data, {}) /\ data \in State /\ t \in Surfaces /\ Held(data.surf[t])
  BY InvIsGood
<1>1. Queued(Then(EnsureGPU(data, t), Fills))
  BY DEF FillRects, target
<1>2. Paint(from, r) /\ r \in SUBSET Cells
  BY Paints, PixelsAssumption
<1>3. ASSUME NEW o, o \in Then(EnsureGPU(data, t), Fills)
      PROVE  /\ Good(o.state, {}) /\ (~o.ok => o.state.failures > 0)
             /\ Clean /\ TargetLive => Drew(data, o.state, t, r, from)
  <2>1. PICK m \in EnsureGPU(data, t) : \/ ~m.ok /\ o = m
                                        \/ m.ok /\ o \in Fills(m.state)
    <3> HIDE DEF Fills
    <3> QED BY <1>3 DEF Then
  <2>2. /\ Kept(data, m, {})
        /\ m.ok => m.state.surf[t].gpuValid /\ HasSurface(m.state, t)
    BY <1>0, EnsureGPUKeeps
  <2>3. CASE ~m.ok /\ o = m
    BY <2>2, <2>3, CleanSucceeds DEF Kept
  <2>4. CASE m.ok /\ o \in Fills(m.state)
    <3> DEFINE s == m.state
    <3>1. PICK b \in Submit(s, t, {t}, r, from) : \/ ~b.ok /\ o = b
                                                  \/ b.ok /\ o \in Marks(b.state)
      <4> HIDE DEF Marks
      <4> QED BY <2>4 DEF Then
    <3>2. \/ ~b.ok /\ o = b
          \/ b.ok /\ o.ok /\ o.state = MarkGPUWrite(b.state, t)
      <4>1. \A q : o \in Done(q) => o.ok /\ o.state = q
        BY DEF Done
      <4> QED BY <3>1, <4>1
    <3>3. Good(s, {}) /\ HasSurface(s, t) /\ t = s.target /\ s.surf[t].gpuValid
      BY <2>2, <2>4 DEF Kept, Moved
    <3>4. Good(s, {t})
      BY <3>3, Exempted
    <3>5. Whole => s.surf[t].device \in Images \/ r = Cells
      BY <1>0, <2>2, <2>4, <3>3 DEF Good, Sound
    <3>6. Clean /\ TargetLive => Same(data, s) /\ s.surf[t].live
      BY <1>0, <2>2, MovedIsSame DEF Kept, Same, TargetLive
    <3> HIDE DEF s, t
    <3>7. /\ Good(o.state, {}) /\ (~o.ok => o.state.failures > 0)
          /\ s.surf[t].live /\ s.surf[t].gpuValid /\ o.ok => Drew(s, o.state, t, r, from)
      BY <1>0, <1>2, <3>1, <3>2, <3>3, <3>4, <3>5, FillKeeps
    <3> QED BY <1>0, <3>3, <3>6, <3>7, NoErrors, DrewSame
  <2> QED BY <2>1, <2>3, <2>4
<1> HIDE DEF Fills
<1>4. \A c \in r : from[c] \in Values
  BY DEF Drawings
<1> QED BY <1>1, <1>3, <1>4, QueuedDraws

(* Primitives drawn by the CPU.                                            *)
LEMMA PrimitiveFallbackInv ==
  ASSUME CoherenceInv, NEW region \in Rects, NEW r \in Rects, NEW from \in Drawings(r),
         PrimitiveFallback(region, r, from)
  PROVE  CoherenceInv' /\ Follows
<1> DEFINE t == data.target
           Draws(s) == CommitCPURegion([s EXCEPT !.surf[t].shadow = Over(@, r, from)], t, region)
<1>0. /\ Good(data, {}) /\ data \in State /\ t \in Surfaces /\ Held(data.surf[t])
      /\ r \subseteq region /\ Paint(from, r) /\ region \in SUBSET Cells
  BY InvIsGood, Paints, PixelsAssumption DEF PrimitiveFallback
<1>1. Queued(Then(PrepareCPURegion(data, t, region), Draws))
  BY DEF PrimitiveFallback, target
<1>2. ASSUME NEW o, o \in Then(PrepareCPURegion(data, t, region), Draws)
      PROVE  /\ Good(o.state, {}) /\ (~o.ok => o.state.failures > 0)
             /\ Clean /\ TargetLive => Drew(data, o.state, t, r, from)
  <2>1. PICK m \in PrepareCPURegion(data, t, region) : \/ ~m.ok /\ o = m
                                                       \/ m.ok /\ o \in Draws(m.state)
    <3> HIDE DEF Draws
    <3> QED BY <1>2 DEF Then
  <2>2. Kept(data, m, {}) /\ (m.ok => Prepared(m.state, t, region))
    BY <1>0, PrepareKeeps
  <2>3. CASE ~m.ok /\ o = m
    BY <2>2, <2>3, CleanSucceeds DEF Kept
  <2>4. CASE m.ok /\ o \in Draws(m.state)
    <3> DEFINE s == m.state
    <3>1. Good(s, {}) /\ Prepared(s, t, region)
      BY <2>2, <2>4 DEF Kept
    <3>2. o \in CommitCPURegion([s EXCEPT !.surf[t].shadow = Over(@, r, from)], t, region)
      BY <2>4
    <3>6. Clean /\ TargetLive => Same(data, s) /\ s.surf[t].live
      BY <1>0, <2>2, MovedIsSame DEF Kept, Same, TargetLive
    <3> HIDE DEF s, t, Draws
    <3>7. /\ Good(o.state, {}) /\ (~o.ok => o.state.failures > 0)
          /\ Clean /\ s.surf[t].live => o.ok /\ Drew(s, o.state, t, r, from)
      BY <1>0, <3>1, <3>2, CommitKeeps
    <3> QED BY <1>0, <3>6, <3>7, DrewSame
  <2> QED BY <2>1, <2>3, <2>4
<1> HIDE DEF Draws
<1>3. \A c \in r : from[c] \in Values
  BY DEF Drawings
<1> QED BY <1>1, <1>2, <1>3, QueuedDraws

(* A copy by the core.                                                     *)
LEMMA CopyBySpriteInv ==
  ASSUME CoherenceInv, NEW source \in Textures, NEW r \in Rects, CopyBySprite(source, r)
  PROVE  CoherenceInv' /\ Follows
<1> DEFINE t == data.target
           Marks(v) == Done(MarkGPUWrite([v EXCEPT !.surf[source].inUse = TRUE], t))
           Copies(u) == Then(Submit(u, t, {t, source}, r, u.surf[source].device), Marks)
           Sources(s) == Then(EnsureGPU(s, source), Copies)
<1>0. /\ Good(data, {}) /\ data \in State /\ t \in Surfaces /\ Held(data.surf[t])
      /\ source \in Surfaces /\ source # t /\ Held(data.surf[source])
      /\ data.surf[source].lock = {} /\ r \in SUBSET Cells /\ data.surf[source].live
  BY InvIsGood, PixelsAssumption DEF CopyBySprite, Usable, Live, target, Surfaces
<1>1. QueuedCopy(source, Then(EnsureGPU(data, t), Sources))
  BY DEF CopyBySprite, target
<1>2. ASSUME NEW o, o \in Then(EnsureGPU(data, t), Sources)
      PROVE  /\ Good(o.state, {}) /\ (~o.ok => o.state.failures > 0)
             /\ Clean /\ TargetLive =>
                  o.ok /\ Drew(data, o.state, t, r, ImageOf(data.surf[source]))
  <2>1. PICK m \in EnsureGPU(data, t) : \/ ~m.ok /\ o = m
                                        \/ m.ok /\ o \in Sources(m.state)
    <3> HIDE DEF Sources
    <3> QED BY <1>2 DEF Then
  <2>2. /\ Kept(data, m, {})
        /\ m.ok => m.state.surf[t].gpuValid /\ HasSurface(m.state, t)
    BY <1>0, EnsureGPUKeeps
  <2>3. CASE ~m.ok /\ o = m
    BY <2>2, <2>3, CleanSucceeds DEF Kept
  <2>4. CASE m.ok /\ o \in Sources(m.state)
    <3> DEFINE s == m.state
    <3>1. PICK n \in EnsureGPU(s, source) : \/ ~n.ok /\ o = n
                                            \/ n.ok /\ o \in Copies(n.state)
      <4> HIDE DEF Copies
      <4> QED BY <2>4 DEF Then
    <3>2. /\ Good(s, {}) /\ s.target = t /\ Held(s.surf[source]) /\ s.surf[source].lock = {}
          /\ s.surf[t].gpuValid /\ HasSurface(s, t)
      BY <1>0, <2>2, <2>4 DEF Kept, Moved
    <3>3. /\ Kept(s, n, {})
          /\ n.ok => /\ n.state.surf[source].gpuValid /\ HasSurface(n.state, source)
                     /\ s.target # source => Alike(s.surf[s.target], n.state.surf[s.target])
      <4> HIDE DEF s
      <4> QED BY <1>0, <3>1, <3>2, EnsureGPUKeeps
    <3>4. CASE ~n.ok /\ o = n
      BY <3>3, <3>4, CleanSucceeds DEF Kept
    <3>5. CASE n.ok /\ o \in Copies(n.state)
      <4> DEFINE u == n.state
      <4>1. PICK b \in Submit(u, t, {t, source}, r, u.surf[source].device) :
                   \/ ~b.ok /\ o = b
                   \/ b.ok /\ o \in Marks(b.state)
        <5> HIDE DEF Marks
        <5> QED BY <3>5 DEF Then
      <4>2. \/ ~b.ok /\ o = b
            \/ /\ b.ok /\ o.ok
               /\ o.state = MarkGPUWrite([b.state EXCEPT !.surf[source].inUse = TRUE], t)
        <5>1. \A q : o \in Done(q) => o.ok /\ o.state = q
          BY DEF Done
        <5> QED BY <4>1, <5>1
      <4>3. /\ Good(u, {}) /\ t = u.target /\ HasSurface(u, t) /\ u.surf[t].gpuValid
            /\ HasSurface(u, source) /\ u.surf[source].gpuValid /\ u.surf[source].lock = {}
        BY <1>0, <3>2, <3>3, <3>5 DEF Kept, Moved, Alike, HasSurface
      <4>4. source \in Surfaces \ {t}
        BY <1>0
      <4>5. Clean => Same(data, u)
        <5>1. Clean => Same(data, s) /\ Same(s, u)
          BY <2>2, <3>3, MovedIsSame DEF Kept
        <5> HIDE DEF u, s
        <5> QED BY <5>1, SameTwice
      <4>6. Clean /\ TargetLive =>
              u.surf[t].live /\ ImageOf(data.surf[source]) = u.surf[source].device
        BY <1>0, <4>3, <4>5 DEF Same, TargetLive, ImageOf
      <4> HIDE DEF u, t
      <4>7. /\ Good(o.state, {}) /\ (~o.ok => o.state.failures > 0)
            /\ u.surf[t].live /\ o.ok => Drew(u, o.state, t, r, u.surf[source].device)
        BY <1>0, <4>1, <4>2, <4>3, <4>4, CopyKeeps
      <4> QED BY <1>0, <4>5, <4>6, <4>7, NoErrors, DrewSame
    <3> QED BY <3>1, <3>4, <3>5
  <2> QED BY <2>1, <2>3, <2>4
<1> HIDE DEF Sources
<1> QED BY <1>0, <1>1, <1>2, QueuedCopies

(* Shadows of two surfaces are obtained.                                   *)
LEMMA BothRead ==
  ASSUME NEW s, Good(s, {}), NEW a \in Surfaces, NEW b \in Surfaces,
         Held(s.surf[a]), Held(s.surf[b]), NEW m \in EnsureCPU(s, a), NEW n,
         \/ n = m
         \/ m.ok /\ n \in EnsureCPU(m.state, b)
  PROVE  /\ Kept(s, n, {}) /\ Kept(s, m, {})
         /\ m.ok => m.state.surf[a].cpuValid
         /\ m.ok /\ n.ok => n.state.surf[a].cpuValid
         /\ m.ok /\ n.ok /\ n \in EnsureCPU(m.state, b) => n.state.surf[b].cpuValid
<1>1. Kept(s, m, {}) /\ (m.ok => m.state.surf[a].cpuValid)
  BY EnsureCPUKeeps DEF ReadBack
<1>2. CASE m.ok /\ n \in EnsureCPU(m.state, b)
  <2>1. Good(m.state, {}) /\ Held(m.state.surf[b]) /\ Moved(s, m.state)
        /\ s \in State /\ m.state \in State
    BY <1>1 DEF Kept, Moved, Good
  <2>2. /\ Kept(m.state, n, {})
        /\ \A u \in Surfaces \ {b} : Alike(m.state.surf[u], n.state.surf[u])
        /\ n.ok => n.state.surf[b].cpuValid
    BY <1>2, <2>1, EnsureCPUKeeps DEF ReadBack
  <2>3. Kept(s, n, {})
    BY <2>1, <2>2, KeptTwice
  <2>4. n.ok => n.state.surf[a].cpuValid
    BY <1>1, <1>2, <2>2 DEF Alike
  <2> QED BY <1>1, <1>2, <2>2, <2>3, <2>4
<1>3. CASE n = m /\ ~(m.ok /\ n \in EnsureCPU(m.state, b))
  BY <1>1, <1>3
<1> QED BY <1>2, <1>3

(* Pixels drawn by the CPU, of a surface or given.                         *)
LEMMA DrawnKeeps ==
  ASSUME NEW u, Good(u, {}), NEW t \in Surfaces, u.surf[t].cpuValid, NEW r \in Rects, NEW from,
         Paint(from, r) \/ \E source \in Surfaces :
                             u.surf[source].cpuValid /\ from = u.surf[source].shadow,
         NEW o, o \in Done(MarkCPUWrite(u, t, r, from))
  PROVE  /\ Good(o.state, {}) /\ o.ok
         /\ Clean /\ u.surf[t].live => Drew(u, o.state, t, r, from)
<1> DEFINE d == MarkCPUWrite(u, t, r, from)
<1>1. Paint(from, r)
  <2>1. r \in SUBSET Cells
    BY PixelsAssumption
  <2>2. ASSUME NEW source \in Surfaces, u.surf[source].cpuValid, from = u.surf[source].shadow
        PROVE  from \in Image /\ (Whole => from \in Images)
    <3>1. u.surf[source] \in Surface /\ Backed(u.surf[source])
          /\ (Whole => Sound(u.surf[source], source))
      BY DEF Good, State
    <3> QED BY <2>2, <3>1 DEF Backed, Sound, Surface
  <2> QED BY <2>1, <2>2, Paints
<1>2. o.state = d /\ o.ok
  BY DEF Done
<1> HIDE DEF d
<1>3. d = MarkCPUWrite(u, t, r, from)
  BY DEF d
<1>4. Redrawn(u, d, t, Drawn(u.surf[t], r, from, Cells))
  BY <1>1, <1>3, MarkCPUWriteKeeps
<1>5. Clean /\ u.surf[t].live => Drew(u, d, t, r, from)
  BY <1>4, RedrawnDraws
<1>6. Good(d, {})
  BY <1>4 DEF Redrawn
<1> QED BY <1>2, <1>5, <1>6

(* A copy by the CPU.                                                      *)
LEMMA SoftwareCopyInv ==
  ASSUME CoherenceInv, NEW source \in Textures, NEW r \in Rects, SoftwareCopy(source, r)
  PROVE  CoherenceInv' /\ Follows
<1> DEFINE t == data.target
           Draws(u) == Done(MarkCPUWrite(u, t, r, u.surf[source].shadow))
           Reads(s) == Then(EnsureCPU(s, t), Draws)
<1>0. /\ Good(data, {}) /\ t \in Surfaces /\ Held(data.surf[t])
      /\ source \in Surfaces /\ Held(data.surf[source]) /\ data.surf[source].live
  BY InvIsGood DEF SoftwareCopy, Usable, Live, Surfaces
<1>1. QueuedCopy(source, Then(EnsureCPU(data, source), Reads))
  BY DEF SoftwareCopy, target
<1>2. ASSUME NEW o, o \in Then(EnsureCPU(data, source), Reads)
      PROVE  /\ Good(o.state, {}) /\ (~o.ok => o.state.failures > 0)
             /\ Clean /\ TargetLive =>
                  o.ok /\ Drew(data, o.state, t, r, ImageOf(data.surf[source]))
  <2>1. PICK m \in EnsureCPU(data, source) : \/ ~m.ok /\ o = m
                                             \/ m.ok /\ o \in Reads(m.state)
    <3> HIDE DEF Reads
    <3> QED BY <1>2 DEF Then
  <2>2. CASE ~m.ok /\ o = m
    BY <1>0, <2>2, BothRead, CleanSucceeds DEF Kept
  <2>3. CASE m.ok /\ o \in Reads(m.state)
    <3>1. PICK n \in EnsureCPU(m.state, t) : \/ ~n.ok /\ o = n
                                             \/ n.ok /\ o \in Draws(n.state)
      <4> HIDE DEF Draws
      <4> QED BY <2>3 DEF Then
    <3>2. /\ Kept(data, n, {})
          /\ n.ok => n.state.surf[source].cpuValid /\ n.state.surf[t].cpuValid
      BY <1>0, <2>3, <3>1, BothRead
    <3>3. CASE ~n.ok /\ o = n
      BY <3>2, <3>3, CleanSucceeds DEF Kept
    <3>4. CASE n.ok /\ o \in Draws(n.state)
      <4> DEFINE u == n.state
                 from == u.surf[source].shadow
      <4>1. Good(u, {}) /\ u.surf[source].cpuValid /\ u.surf[t].cpuValid
        BY <3>2, <3>4 DEF Kept
      <4>2. o \in Done(MarkCPUWrite(u, t, r, from)) /\ from = u.surf[source].shadow
        BY <3>4
      <4>3. Clean => Same(data, u)
        BY <3>2, MovedIsSame DEF Kept
      <4>4. Clean /\ TargetLive => u.surf[t].live /\ ImageOf(data.surf[source]) = from
        BY <1>0, <4>1, <4>3, ImageWritten DEF Same, TargetLive
      <4> HIDE DEF u, from, t
      <4>5. /\ Good(o.state, {}) /\ o.ok
            /\ Clean /\ u.surf[t].live => Drew(u, o.state, t, r, from)
        BY <1>0, <4>1, <4>2, DrawnKeeps
      <4> QED BY <1>0, <4>3, <4>4, <4>5, DrewSame
    <3> QED BY <3>1, <3>3, <3>4
  <2> QED BY <2>1, <2>2, <2>3
<1> HIDE DEF Reads
<1> QED BY <1>0, <1>1, <1>2, QueuedCopies

(* Triangles, drawn by the CPU.                                            *)
LEMMA GeometryInv ==
  ASSUME CoherenceInv, NEW source \in Surfaces, NEW r \in Rects, NEW from \in Drawings(r),
         Geometry(source, r, from)
  PROVE  CoherenceInv' /\ Follows
<1> DEFINE t == data.target
           Pixel(u) == IF source = t THEN from ELSE u.surf[source].shadow
           Draws(u) == Done(MarkCPUWrite(u, t, r, Pixel(u)))
           Second(s) == IF source = t THEN Done(s) ELSE EnsureCPU(s, source)
           Reads(s) == Then(Second(s), Draws)
           Ways == Then(EnsureCPU(data, t), Reads)
           Given == IF source = t THEN from ELSE ImageOf(data.surf[source])
<1>0. /\ Good(data, {}) /\ t \in Surfaces /\ Held(data.surf[t]) /\ Held(data.surf[source])
      /\ Paint(from, r)
  BY InvIsGood, Paints DEF Geometry, Usable
<1>1. /\ source \in Textures \cup {t} /\ data.surf[source].live
      /\ source = t => Queued(Ways)
      /\ source # t => QueuedCopy(source, Ways)
  BY DEF Geometry, Usable, Live, target
<1>2. ASSUME NEW o, o \in Ways
      PROVE  /\ Good(o.state, {}) /\ (~o.ok => o.state.failures > 0)
             /\ Clean /\ TargetLive => o.ok /\ Drew(data, o.state, t, r, Given)
  <2>1. PICK m \in EnsureCPU(data, t) : \/ ~m.ok /\ o = m
                                        \/ m.ok /\ o \in Reads(m.state)
    <3> HIDE DEF Reads
    <3> QED BY <1>2 DEF Then
  <2>2. CASE ~m.ok /\ o = m
    BY <1>0, <2>2, BothRead, CleanSucceeds DEF Kept
  <2>3. CASE m.ok /\ o \in Reads(m.state)
    <3>1. PICK n \in Second(m.state) : \/ ~n.ok /\ o = n
                                       \/ n.ok /\ o \in Draws(n.state)
      <4> HIDE DEF Draws, Second
      <4> QED BY <2>3 DEF Then
    <3>2. \/ source = t /\ n.state = m.state /\ n.ok
          \/ source # t /\ n \in EnsureCPU(m.state, source)
      <4>1. \A s : n \in Done(s) => n.state = s /\ n.ok
        BY DEF Done
      <4> QED BY <3>1, <4>1
    <3>3. /\ n.ok \/ Kept(data, n, {})
          /\ Good(n.state, {}) /\ Moved(data, n.state)
          /\ n.ok => /\ n.state.surf[t].cpuValid
                     /\ source # t => n.state.surf[source].cpuValid
      <4>1. CASE source = t /\ n.state = m.state /\ n.ok
        BY <1>0, <2>3, <4>1, BothRead DEF Kept
      <4>2. CASE source # t /\ n \in EnsureCPU(m.state, source)
        BY <1>0, <2>3, <4>2, BothRead DEF Kept
      <4> QED BY <3>2, <4>1, <4>2
    <3>4. CASE ~n.ok /\ o = n
      BY <3>3, <3>4, CleanSucceeds DEF Kept
    <3>5. CASE n.ok /\ o \in Draws(n.state)
      <4> DEFINE u == n.state
                 p == Pixel(u)
      <4>1. Good(u, {}) /\ u.surf[t].cpuValid
        BY <3>3, <3>5
      <4>2. o \in Done(MarkCPUWrite(u, t, r, p))
        BY <3>5
      <4>3. Paint(p, r) \/ (u.surf[source].cpuValid /\ p = u.surf[source].shadow)
        BY <1>0, <3>3, <3>5
      <4>4. Clean => Same(data, u)
        BY <3>3, MovedIsSame
      <4>5. Clean /\ TargetLive => u.surf[t].live /\ p = Given
        <5>1. SUFFICES ASSUME Clean, TargetLive
                       PROVE  u.surf[t].live /\ p = Given
          OBVIOUS
        <5>2. u.surf[t].live
          BY <1>0, <4>4, <5>1 DEF Same, TargetLive
        <5>3. CASE source = t
          BY <5>2, <5>3
        <5>4. CASE source # t
          <6>1. u.surf[source].cpuValid /\ u.surf[source].live /\ Good(u, {})
            BY <1>1, <3>3, <3>5, <4>4, <5>1, <5>4 DEF Same
          <6> HIDE DEF u
          <6>2. ImageOf(u.surf[source]) = u.surf[source].shadow
            BY <5>1, <6>1, ImageWritten
          <6> QED BY <4>4, <5>1, <5>2, <5>4, <6>2 DEF Same
        <5> QED BY <5>3, <5>4
      <4> HIDE DEF u, p, t, Pixel, Given
      <4>6. /\ Good(o.state, {}) /\ o.ok
            /\ Clean /\ u.surf[t].live => Drew(u, o.state, t, r, p)
        BY <1>0, <4>1, <4>2, <4>3, DrawnKeeps
      <4> QED BY <1>0, <4>4, <4>5, <4>6, DrewSame
    <3> QED BY <3>1, <3>4, <3>5
  <2> QED BY <2>1, <2>2, <2>3
<1>3. CASE source = t
  <2>1. \A c \in r : from[c] \in Values
    BY DEF Drawings
  <2>2. \A o \in Ways : /\ Good(o.state, {}) /\ (~o.ok => o.state.failures > 0)
                        /\ Clean /\ TargetLive => Drew(data, o.state, t, r, from)
    <3> HIDE DEF Ways
    <3> QED BY <1>2, <1>3
  <2> HIDE DEF Ways
  <2> QED BY <1>1, <1>3, <2>1, <2>2, QueuedDraws
<1>4. CASE source # t
  <2>1. \A o \in Ways :
          /\ Good(o.state, {}) /\ (~o.ok => o.state.failures > 0)
          /\ Clean /\ TargetLive =>
               o.ok /\ Drew(data, o.state, t, r, ImageOf(data.surf[source]))
    <3> HIDE DEF Ways
    <3> QED BY <1>2, <1>4
  <2>2. source \in Textures
    BY <1>1, <1>4
  <2> HIDE DEF Ways
  <2> QED BY <1>1, <1>4, <2>1, <2>2, QueuedCopies
<1> QED BY <1>3, <1>4

(* The target's pixels are read.                                           *)
LEMMA RenderReadPixelsInv ==
  ASSUME CoherenceInv, RenderReadPixels
  PROVE  CoherenceInv' /\ Follows
<1> DEFINE t == data.target
           Reads(s) == EnsureCPU(s, t)
<1>0. /\ Good(data, {}) /\ data \in State /\ t \in Surfaces /\ Held(data.surf[t]) /\ ~inQueue
      /\ Moved(data, data)
  BY InvIsGood DEF RenderReadPixels
<1>1. PICK o \in Then(WaitPresent(data), Reads) :
        /\ data' = o.state
        /\ call' = IF o.ok THEN Returned(o.state.surf[t].shadow) ELSE Quiet
  BY DEF RenderReadPixels, target
<1>2. PICK w \in WaitPresent(data) : \/ ~w.ok /\ o = w
                                     \/ w.ok /\ o \in Reads(w.state)
  <2> HIDE DEF Reads
  <2> QED BY <1>1 DEF Then
<1>3. /\ Good(w.state, {}) /\ Moved(data, w.state) /\ w.state.surf = data.surf
      /\ Clean => w.ok
  BY <1>0, WaitKeeps
<1>4. /\ Good(o.state, {}) /\ Moved(data, o.state)
      /\ o.ok => o.state.surf[t].cpuValid
      /\ Clean => o.ok
  <2>1. CASE ~w.ok /\ o = w
    BY <1>3, <2>1
  <2>2. CASE w.ok /\ o \in Reads(w.state)
    <3>1. Kept(w.state, o, {}) /\ (o.ok => o.state.surf[t].cpuValid)
      BY <1>0, <1>3, <2>2, EnsureCPUKeeps DEF ReadBack
    <3>2. w.state \in State /\ o.state \in State
      BY <1>3, <3>1 DEF Kept, Good
    <3>3. Clean => o.ok
      BY <3>1, CleanSucceeds
    <3> QED BY <1>0, <1>3, <3>1, <3>2, <3>3, MovedTwice DEF Kept
  <2> QED BY <1>2, <2>1, <2>2
<1>5. call' \in Calls
  <2>1. o.ok => o.state.surf[t].shadow \in Image
    <3>1. o.state.surf[t] \in Surface /\ Backed(o.state.surf[t])
      BY <1>0, <1>4 DEF Good, State
    <3> QED BY <1>4, <3>1 DEF Backed, Surface
  <2> QED BY <1>1, <2>1 DEF Calls
<1>6. inQueue' = FALSE
  BY <1>0 DEF RenderReadPixels, CoherenceInv, TypeOK
<1>7. o.state.pend # {} => o.state.failures > 0
  BY <1>0, <1>4, LeftOver DEF Moved
<1>8. CoherenceInv'
  BY <1>1, <1>4, <1>5, <1>6, <1>7, LeavesInv
<1>9. Follows
  <2>1. SUFFICES ASSUME Clean, TargetLive
                 PROVE  TargetLive' /\ Sdl!Next
    BY DEF Follows
  <2>2. Same(data, data') /\ o.state.surf[t].live
    BY <1>0, <1>1, <1>4, <2>1, MovedIsSame DEF Same, TargetLive
  <2>3. TargetLive'
    BY <1>0, <2>1, <2>2 DEF Same, TargetLive
  <2>4. /\ ImageOf(o.state.surf[t]) = o.state.surf[t].shadow
        /\ ImageOf(o.state.surf[t]) # NoImage
    BY <1>0, <1>4, <2>1, <2>2, ImageWritten
  <2>5. call' = Returned(ImageOf(data.surf[t])) /\ ImageOf(data.surf[t]) # NoImage
    BY <1>0, <1>1, <1>4, <2>1, <2>2, <2>4 DEF Same
  <2> HIDE DEF t
  <2>6. Sdl!Read(t)
    BY <1>0, <2>2, <2>5 DEF Same, Sdl!Read, Sdl!Live, Sdl!Returned, Returned
  <2> QED BY <1>0, <2>3, <2>6 DEF Sdl!Next, Sdl!Surfaces, Surfaces
<1> QED BY <1>8, <1>9

\* The next back buffer is in place; the other surfaces are what they were.
Flipped(s, d, older) ==
  /\ Good(d, {}) /\ d.pend = s.pend /\ d.failures = s.failures /\ d.target = s.target
  /\ d.surf[Composition].live /\ ImageOf(d.surf[Composition]) = older
  /\ \A u \in Surfaces \ {Composition} : d.surf[u] = s.surf[u]

(* The next back buffer, of which the CPU knows nothing.                   *)
LEMMA NextBuffer ==
  ASSUME NEW s, Good(s, {}), s.target \in Surfaces, s.surf[Composition].gpuValid,
         NEW older \in Images, NEW d,
         d = [s EXCEPT !.presentPending = TRUE,
                       !.surf[Composition] = [@ EXCEPT !.device = older, !.gpuValid = TRUE,
                                                       !.cpuValid = FALSE, !.shadow = Plain(Junk)]]
  PROVE  Flipped(s, d, older)
<1> DEFINE x == s.surf[Composition]
           y == [x EXCEPT !.device = older, !.gpuValid = TRUE, !.cpuValid = FALSE,
                          !.shadow = Plain(Junk)]
           w == With(s, Composition, y)
<1>1. /\ s \in State /\ x \in Surface /\ Composition \in Surfaces /\ Backed(x) /\ x.live
      /\ x.device # NoImage /\ older \in Image /\ Plain(Junk) \in Image
      /\ Composition \notin Streaming /\ Composition \notin Textures
      /\ x.lock = {}
  BY NamesAssumption DEF Good, State, Surfaces, Textures, HasSurface, Images, Image, Pixels, Plain
<1>2. /\ y \in Surface /\ y.live /\ y.shadow = Plain(Junk) /\ y.device = older /\ y.gpuValid
      /\ ~y.cpuValid /\ y.lock = x.lock /\ y.dirty = x.dirty
  BY <1>1 DEF Surface
<1>3. w = With(s, Composition, y)
  OBVIOUS
<1>4. d = [w EXCEPT !.presentPending = TRUE]
  BY <1>1 DEF With, State
<1> HIDE DEF y, w
<1>5. /\ Backed(y) /\ (y.device # NoImage <=> s.surf[Composition].device # NoImage)
      /\ (Composition = Composition => y.live /\ y.shadow # NoImage)
      /\ (Composition = s.target => Held(y))
      /\ (y.lock # {} => Composition \in Streaming /\ y.cpuValid /\ Composition \notin s.pend)
      /\ (Whole => Sound(y, Composition))
      /\ (Clean /\ Composition \in Textures => (y.busy \/ Composition \in s.pend => y.inUse))
  BY <1>1, <1>2, NoImageIsNone DEF Backed, Held, Sound
<1>6. /\ Good(w, {}) /\ w.pend = s.pend /\ w.failures = s.failures /\ w.target = s.target
      /\ w.surf[Composition] = y /\ \A u \in Surfaces \ {Composition} : w.surf[u] = s.surf[u]
  <2>1. Good(s, {}) /\ Composition \in Surfaces /\ y \in Surface
    BY <1>1, <1>2
  <2> QED BY ONLY <1>3, <1>5, <2>1, OneKeeps
<1>7. /\ d \in State /\ d.surf = w.surf /\ d.target = w.target /\ d.pend = w.pend
      /\ d.residentBytes = w.residentBytes /\ d.failures = w.failures /\ d.raced = w.raced
      /\ d.failures >= w.failures
  <2>1. w \in State
    BY <1>6 DEF Good
  <2>2. d \in State /\ d.failures = w.failures
    <3> HIDE DEF w
    <3> QED BY <1>4, <2>1 DEF State
  <2>3. /\ d.surf = w.surf /\ d.target = w.target /\ d.pend = w.pend
        /\ d.residentBytes = w.residentBytes /\ d.raced = w.raced
    <3> HIDE DEF w
    <3> QED BY <1>4, <2>1 DEF State
  <2>4. d.failures \in Int
    BY <2>2, CountsInt
  <2> QED BY <2>2, <2>3, <2>4
<1>8. \A t \in Surfaces : Alike(w.surf[t], d.surf[t]) /\ (d.surf[t].busy => w.surf[t].busy)
  BY <1>7 DEF Alike
<1>9. Good(d, {})
  <2> HIDE DEF w
  <2> QED BY <1>6, <1>7, <1>8, AlikeGood
<1>10. y.live /\ ImageOf(y) = older
  BY <1>2 DEF ImageOf
<1> QED BY <1>6, <1>7, <1>9, <1>10 DEF Flipped

(* A frame is shown.                                                       *)
LEMMA RenderPresentInv ==
  ASSUME CoherenceInv, RenderPresent
  PROVE  CoherenceInv' /\ Follows
<1> DEFINE Shows(v) == Done(v) \cup Stops(v)
           Uploads(u) == Then(EnsureGPU(u, Composition), Shows)
           Sends(s) == Then(FlushQueued(s), Uploads)
<1>0. /\ Good(data, {}) /\ data \in State /\ Moved(data, data) /\ Composition \in Surfaces
      /\ ~inQueue /\ Held(data.surf[Composition])
  <2>1. Live(Composition) /\ Composition \in Surfaces
    BY InvIsGood DEF Good, Live, Surfaces
  <2> QED BY <2>1, InvIsGood DEF RenderPresent
<1>1. PICK o :
        /\ o \in Then(WaitPresent(data), Sends)
        /\ \/ ~o.ok /\ data' = o.state /\ Silent
           \/ \E older \in Images :
                /\ o.ok
                /\ call' = Shown(o.state.surf[Composition].device)
                /\ data' = [o.state EXCEPT
                              !.presentPending = TRUE,
                              !.surf[Composition] = [@ EXCEPT !.device = older, !.gpuValid = TRUE,
                                                     !.cpuValid = FALSE, !.shadow = Plain(Junk)]]
  BY DEF RenderPresent, BeginPresent
<1>2. /\ Good(o.state, {}) /\ Moved(data, o.state)
      /\ o.ok => o.state.surf[Composition].gpuValid /\ HasSurface(o.state, Composition)
      /\ Clean => o.ok
  <2>1. PICK w \in WaitPresent(data) : \/ ~w.ok /\ o = w
                                       \/ w.ok /\ o \in Sends(w.state)
    <3> HIDE DEF Sends
    <3> QED BY <1>1 DEF Then
  <2>2. Good(w.state, {}) /\ Moved(data, w.state) /\ w.state \in State /\ (Clean => w.ok)
    <3>1. Good(w.state, {}) /\ Moved(data, w.state) /\ (Clean => w.ok)
      BY <1>0, WaitKeeps
    <3> QED BY <3>1 DEF Good
  <2>3. CASE ~w.ok /\ o = w
    BY <2>2, <2>3
  <2>4. CASE w.ok /\ o \in Sends(w.state)
    <3>1. PICK f \in FlushQueued(w.state) : \/ ~f.ok /\ o = f
                                            \/ f.ok /\ o \in Uploads(f.state)
      <4> HIDE DEF Uploads
      <4> QED BY <2>4 DEF Then
    <3>2. Good(f.state, {}) /\ Moved(data, f.state) /\ f.state \in State
          /\ Held(f.state.surf[Composition]) /\ (Clean => f.ok)
      <4>1. Good(f.state, {}) /\ Moved(w.state, f.state) /\ (Clean => f.ok)
        BY <2>2, FlushKeeps
      <4>2. f.state \in State
        BY <4>1 DEF Good
      <4>3. Moved(data, f.state)
        BY <1>0, <2>2, <4>1, <4>2, MovedTwice
      <4> QED BY <1>0, <4>1, <4>2, <4>3 DEF Moved
    <3>3. CASE ~f.ok /\ o = f
      BY <3>2, <3>3
    <3>4. CASE f.ok /\ o \in Uploads(f.state)
      <4>1. PICK e \in EnsureGPU(f.state, Composition) : \/ ~e.ok /\ o = e
                                                         \/ e.ok /\ o \in Shows(e.state)
        <5> HIDE DEF Shows
        <5> QED BY <3>4 DEF Then
      <4>2. /\ Good(e.state, {}) /\ Moved(f.state, e.state) /\ e.state \in State
            /\ e.ok => e.state.surf[Composition].gpuValid /\ HasSurface(e.state, Composition)
            /\ Clean => e.ok
        <5>1. /\ Kept(f.state, e, {})
              /\ e.ok => e.state.surf[Composition].gpuValid /\ HasSurface(e.state, Composition)
          BY <1>0, <3>2, <4>1, EnsureGPUKeeps
        <5> QED BY <5>1, CleanSucceeds DEF Kept, Good
      <4>3. Moved(data, e.state)
        BY <1>0, <3>2, <4>2, MovedTwice
      <4>4. CASE ~e.ok /\ o = e
        BY <4>2, <4>3, <4>4
      <4>5. CASE e.ok /\ o \in Shows(e.state)
        <5>1. \/ o.state = e.state /\ o.ok
              \/ ~o.ok /\ Good(o.state, {}) /\ Moved(e.state, o.state) /\ ~Clean
          <6>1. CASE o \in Done(e.state)
            <7>1. \A v : o \in Done(v) => o.state = v /\ o.ok
              BY DEF Done
            <7> QED BY <6>1, <7>1
          <6>2. CASE o \in Stops(e.state)
            BY <4>2, <6>2, StopsKeeps
          <6> QED BY <4>5, <6>1, <6>2
        <5>2. CASE o.state = e.state /\ o.ok
          BY <4>2, <4>3, <4>5, <5>2
        <5>3. CASE ~o.ok /\ Good(o.state, {}) /\ Moved(e.state, o.state) /\ ~Clean
          <6>1. o.state \in State
            BY <5>3 DEF Good
          <6> QED BY <1>0, <4>2, <4>3, <5>3, <6>1, MovedTwice
        <5> QED BY <5>1, <5>2, <5>3
      <4> QED BY <4>1, <4>4, <4>5
    <3> QED BY <3>1, <3>3, <3>4
  <2> QED BY <2>1, <2>3, <2>4
<1>3. inQueue' = FALSE
  BY <1>0 DEF RenderPresent, CoherenceInv, TypeOK
<1>4. o.state.pend # {} => o.state.failures > 0
  BY <1>0, <1>2, LeftOver DEF Moved
<1>5. CASE ~o.ok /\ data' = o.state /\ Silent
  <2>1. call' \in Calls
    BY <1>5 DEF Silent, Calls
  <2>2. CoherenceInv'
    BY <1>2, <1>3, <1>4, <1>5, <2>1, LeavesInv
  <2>3. Follows
    BY <1>2, <1>5 DEF Follows
  <2> QED BY <2>2, <2>3
<1>6. CASE o.ok
  <2> DEFINE s == o.state
  <2>1. PICK older \in Images :
          /\ call' = Shown(s.surf[Composition].device)
          /\ data' = [s EXCEPT
                        !.presentPending = TRUE,
                        !.surf[Composition] = [@ EXCEPT !.device = older, !.gpuValid = TRUE,
                                               !.cpuValid = FALSE, !.shadow = Plain(Junk)]]
    BY <1>1, <1>6
  <2>2. /\ Good(s, {}) /\ s.target \in Surfaces /\ s.surf[Composition].gpuValid
        /\ s.surf[Composition].device \in Image
    BY <1>0, <1>2, <1>6 DEF Good, State, Surface, HasSurface
  <2>3. call' \in Calls
    BY <2>1, <2>2 DEF Calls
  <2> HIDE DEF s
  <2>4. Flipped(s, data', older)
    BY <2>1, <2>2, NextBuffer
  <2>5. s.pend # {} => s.failures > 0
    BY <1>4 DEF s
  <2>6. CoherenceInv'
    BY <1>3, <2>3, <2>4, <2>5, LeavesInv DEF Flipped
  <2>7. Follows
    <3>1. SUFFICES ASSUME Clean, TargetLive
                   PROVE  TargetLive' /\ Sdl!Next
      BY DEF Follows
    <3>2. Same(data, s)
      BY <1>2, <3>1, MovedIsSame DEF s
    <3>3. /\ data'.target = data.target /\ data'.surf[Composition].live
          /\ ImageOf(data'.surf[Composition]) = older
          /\ \A u \in Surfaces \ {Composition} :
               data'.surf[u].live = data.surf[u].live /\ ImageOf(data'.surf[u]) = ImageOf(data.surf[u])
      BY <2>4, <3>2 DEF Flipped, Same
    <3>4. TargetLive'
      BY <1>0, <3>1, <3>3 DEF TargetLive, State
    <3>5. s.surf[Composition].live /\ ImageOf(s.surf[Composition]) = s.surf[Composition].device
      BY <1>0, <2>2, <3>1, ImageWritten DEF Good
    <3>6. call' = Shown(ImageOf(data.surf[Composition]))
      BY <1>0, <2>1, <3>2, <3>5 DEF Same
    <3>7. Sdl!Becomes(Composition, older)
      BY <3>3 DEF Sdl!Becomes
    <3>8. Sdl!Present
      BY <1>0, <3>6, <3>7 DEF Sdl!Present, Sdl!Shown, Shown
    <3> QED BY <3>4, <3>8 DEF Sdl!Next
  <2> QED BY <2>6, <2>7
<1> QED BY <1>1, <1>5, <1>6

-----------------------------------------------------------------------------
(***************************************************************************)
(* The invariant holds throughout.                                         *)
(***************************************************************************)

(* No texture exists, and the back buffer holds what the core put there.   *)
LEMMA InitInv == ASSUME Init PROVE CoherenceInv
<1> DEFINE back == BackBufferSurface
<1>0. /\ Composition \in Surfaces /\ Composition \notin Textures /\ Composition \notin Streaming
      /\ Plain(Junk) \in Image /\ Plain(Blank) \in Images /\ Images \subseteq Image
      /\ MaxFailures \in Nat
  BY NamesAssumption, PixelsAssumption, BoundsAssumption, OverImage
     DEF Surfaces, Textures, Plain, Image, Images, Pixels
<1>1. /\ Empty \in Surface /\ ~Empty.live /\ Empty.shadow = NoImage /\ Empty.device = NoImage
      /\ ~Empty.cpuValid /\ ~Empty.gpuValid /\ Empty.lock = {} /\ Empty.dirty = {} /\ ~Empty.busy
  BY PixelsAssumption DEF Empty, Surface
<1>2. /\ back \in Surface /\ back.live /\ back.shadow = Plain(Junk) /\ back.device = Plain(Blank)
      /\ ~back.cpuValid /\ back.gpuValid /\ back.lock = {} /\ back.dirty = {}
  BY <1>0, PixelsAssumption DEF BackBufferSurface, Empty, Surface
<1>3. Hull({}) = {}
  BY DEF Hull
<1> HIDE DEF back
<1>4. /\ data.surf \in [Surfaces -> Surface] /\ data.surf[Composition] = back
      /\ \A t \in Textures : data.surf[t] = Empty
      /\ data.target = Composition /\ data.pend = {} /\ data.presentPending = FALSE
      /\ data.residentBytes = 0 /\ data.failures = 0 /\ data.raced = FALSE
  BY <1>0, <1>1, <1>2 DEF Init, back, Surfaces
<1>5. data \in State
  BY <1>0, <1>1, <1>2 DEF Init, back, State
<1>6. \A t \in Surfaces : t \in Textures \/ t = Composition
  BY DEF Surfaces
<1>7. Accounts(data)
  <2>1. Resident(data) = {}
    BY <1>1, <1>4 DEF Resident, HasSurface
  <2>2. {} \in SUBSET Textures /\ BytesOf({}) = 0
    BY BytesOfDifference, BytesFinite
  <2>3. Budget \in Nat
    BY BoundsAssumption
  <2> QED BY <1>4, <2>1, <2>2, <2>3 DEF Accounts
<1>8. /\ \A t \in Surfaces : Backed(data.surf[t])
      /\ Whole => \A t \in Surfaces : Sound(data.surf[t], t)
  <2>1. Backed(Empty) /\ \A t : Sound(Empty, t)
    BY <1>1, <1>3 DEF Backed, Held, Sound
  <2>2. Backed(back) /\ Sound(back, Composition)
    BY <1>0, <1>2, <1>3, NoImageIsNone DEF Backed, Held, Sound
  <2> QED BY <1>4, <1>6, <2>1, <2>2
<1>9. Good(data, {})
  <2>1. /\ data.surf[Composition].live /\ HasShadow(data, Composition) /\ HasSurface(data, Composition)
        /\ data.target \notin Streaming /\ Held(data.surf[data.target])
    BY <1>0, <1>2, <1>4, NoImageIsNone DEF HasShadow, HasSurface, Held
  <2>2. \A t \in Surfaces : data.surf[t].lock = {}
    BY <1>1, <1>2, <1>4, <1>6
  <2>3. \A t \in Textures : ~(data.surf[t].busy \/ t \in data.pend)
    BY <1>1, <1>4
  <2> QED BY <1>4, <1>5, <1>7, <1>8, <2>1, <2>2, <2>3 DEF Good
<1>10. TypeOK
  <2>1. \A t \in Surfaces : Hull(data.surf[t].dirty) = data.surf[t].dirty
    BY <1>8 DEF Backed
  <2>2. inQueue = FALSE /\ call = Quiet
    BY DEF Init
  <2>3. data.residentBytes >= 0
    BY <1>4
  <2> QED BY <1>5, <2>1, <2>2, <2>3 DEF TypeOK
<1> QED BY <1>4, <1>9, <1>10 DEF CoherenceInv

(* Every action keeps it, and so does doing nothing.                       *)
LEMMA NextInv == ASSUME CoherenceInv, [Next]_vars PROVE CoherenceInv' /\ Follows
<1>1. ASSUME NEW t \in Textures, CreateTexture(t) \/ DestroyTexture(t)
      PROVE  CoherenceInv' /\ Follows
  BY <1>1, CreateTextureInv, DestroyTextureInv
<1>2. ASSUME NEW t \in Textures, NEW r \in Rects, NEW from \in Drawings(r), UpdateTexture(t, r, from)
      PROVE  CoherenceInv' /\ Follows
  BY <1>2, UpdateTextureInv
<1>3. ASSUME NEW t \in Streaming, NEW r \in Rects, LockTexture(t, r)
      PROVE  CoherenceInv' /\ Follows
  BY <1>3, LockTextureInv
<1>4. ASSUME NEW t \in Streaming, NEW from, from \in Drawings(data.surf[t].lock),
             UnlockTexture(t, from)
      PROVE  CoherenceInv' /\ Follows
  BY <1>4, UnlockTextureInv
<1>5. ASSUME NEW t \in Targets \cup {Composition}, SetRenderTarget(t)
      PROVE  CoherenceInv' /\ Follows
  BY <1>5, SetRenderTargetInv
<1>6. CASE BeginQueue \/ FlushEarly \/ EndQueue
  BY <1>6, BeginQueueKeeps, FlushEarlyKeeps, EndQueueKeeps
<1>7. ASSUME NEW v \in Values, Clear(v)
      PROVE  CoherenceInv' /\ Follows
  BY <1>7, ClearInv
<1>8. ASSUME NEW r \in Rects, NEW from \in Drawings(r), FillRects(r, from)
      PROVE  CoherenceInv' /\ Follows
  BY <1>8, FillRectsInv
<1>9. ASSUME NEW region \in Rects, NEW r \in Rects, NEW from \in Drawings(r),
             PrimitiveFallback(region, r, from)
      PROVE  CoherenceInv' /\ Follows
  BY <1>9, PrimitiveFallbackInv
<1>10. ASSUME NEW source \in Textures, NEW r \in Rects,
              CopyBySprite(source, r) \/ SoftwareCopy(source, r)
       PROVE  CoherenceInv' /\ Follows
  BY <1>10, CopyBySpriteInv, SoftwareCopyInv
<1>11. ASSUME NEW source \in Surfaces, NEW r \in Rects, NEW from \in Drawings(r),
              Geometry(source, r, from)
       PROVE  CoherenceInv' /\ Follows
  BY <1>11, GeometryInv
<1>12. CASE RenderReadPixels
  BY <1>12, RenderReadPixelsInv
<1>13. CASE RenderPresent
  BY <1>13, RenderPresentInv
<1>14. ASSUME NEW t \in Textures, Retire(t)
       PROVE  CoherenceInv' /\ Follows
  BY <1>14, RetireInv
<1>15. CASE UNCHANGED vars
  <2>1. data' = data /\ inQueue' = inQueue /\ call' = call
    BY <1>15 DEF vars
  <2>2. CoherenceInv'
    BY <2>1 DEF CoherenceInv, TypeOK
  <2>3. Follows
    BY <2>1 DEF Follows, TargetLive, Sdl!vars
  <2> QED BY <2>2, <2>3
<1> QED BY <1>1, <1>2, <1>3, <1>4, <1>5, <1>6, <1>7, <1>8, <1>9, <1>10, <1>11, <1>12, <1>13,
           <1>14, <1>15 DEF Next

(* The inductive invariant holds throughout, whatever fails.               *)
THEOREM CoherenceHolds == Spec => []CoherenceInv
<1>1. Init => CoherenceInv
  BY InitInv
<1>2. CoherenceInv /\ [Next]_vars => CoherenceInv'
  BY NextInv
<1> QED BY <1>1, <1>2, PTL DEF Spec

(* The renderer's records keep their types, counters do not go negative,   *)
(* and what is to be uploaded stays a rectangle.                           *)
THEOREM TypesHold == Spec => []TypeOK
<1>1. CoherenceInv => TypeOK
  BY DEF CoherenceInv
<1> QED BY <1>1, CoherenceHolds, PTL

(* resident_bytes is the sum of the resident textures' bytes, whatever     *)
(* fails half-way (Created, Release, MakeRoom).                            *)
THEOREM BytesStayExact == Spec => []ResidentBytesExact
<1>1. CoherenceInv => ResidentBytesExact
  BY DEF CoherenceInv, Good, Accounts, ResidentBytesExact
<1> QED BY <1>1, CoherenceHolds, PTL

(* Eviction keeps the textures within the budget, but for the two in use,  *)
(* whatever fails half-way (MakeResident).                                 *)
THEOREM BudgetHolds == Spec => []BudgetKept
<1>1. CoherenceInv => BudgetKept
  BY DEF CoherenceInv, Good, Accounts, BudgetKept
<1> QED BY <1>1, CoherenceHolds, PTL

(* With at most one device error no surface is touched, replaced or        *)
(* released while the pending batch names it.                              *)
THEOREM NothingRaces ==
  ASSUME MaxFailures <= 1
  PROVE  Spec => []NoRace
<1>1. CoherenceInv => NoRace
  BY DEF CoherenceInv, Good, NoRace
<1> QED BY <1>1, CoherenceHolds, PTL

(* The pixels of every texture are kept, in a copy that was written, when  *)
(* the device does not fail, or SDL changes surfaces only as a whole.      *)
THEOREM PixelsStay ==
  ASSUME MaxFailures = 0 \/ Rects = {Cells}
  PROVE  Spec => [](PixelsKept /\ SurfaceWritten)
<1>1. ASSUME CoherenceInv, NEW t \in Surfaces
      PROVE  Sound(data.surf[t], t) /\ Backed(data.surf[t])
  BY <1>1 DEF CoherenceInv, Good, Whole, Clean
<1>2. CoherenceInv => PixelsKept /\ SurfaceWritten
  BY <1>1 DEF PixelsKept, SurfaceWritten, Sound, Backed, Held
<1> QED BY <1>2, CoherenceHolds, PTL

(* Without device errors two copies marked current are equal, so that      *)
(* either may be read and the shadow dropped (DropRedundantShadow).        *)
THEOREM CopiesStayEqual ==
  ASSUME MaxFailures = 0
  PROVE  Spec => []CopiesAgree
<1>1. ASSUME CoherenceInv, NEW t \in Surfaces
      PROVE  Sound(data.surf[t], t)
  BY <1>1 DEF CoherenceInv, Good, Whole, Clean
<1>2. CoherenceInv => CopiesAgree
  BY <1>1 DEF CopiesAgree, Sound, Clean
<1> QED BY <1>2, CoherenceHolds, PTL

(* Without device errors gpu_in_use covers whatever the core or the        *)
(* pending batch uses, so that an upload never waits for a frame it could  *)
(* leave running (TryRotateTexture, UpdateTexture).                        *)
THEOREM InUseCovers ==
  ASSUME MaxFailures = 0
  PROVE  Spec => []InUseSound
<1>1. CoherenceInv => InUseSound
  BY DEF CoherenceInv, Good, InUseSound, Clean
<1> QED BY <1>1, CoherenceHolds, PTL

(* Without device errors the renderer does to SDL's textures what SDL asks *)
(* for and nothing else, wherever their pixels are: every read-back, copy  *)
(* and presentation finds the image SDL drew, through eviction, dropped    *)
(* shadows, rotation and late uploads.                                     *)
THEOREM RendererShowsSdl ==
  ASSUME MaxFailures = 0
  PROVE  Spec => ImplementsSdlTextures
<1> DEFINE Inv == CoherenceInv /\ TargetLive
<1>0. Clean
  BY DEF Clean
<1>1. Init => Inv /\ Sdl!Init
  <2>1. SUFFICES ASSUME Init PROVE Inv /\ Sdl!Init
    OBVIOUS
  <2>2. /\ Composition \in Surfaces /\ Plain(Blank) \in Images
        /\ BackBufferSurface.live /\ ImageOf(BackBufferSurface) = Plain(Blank)
        /\ ImageOf(Empty) = NoImage
    BY PixelsAssumption
       DEF Surfaces, Images, Plain, BackBufferSurface, Empty, ImageOf
  <2>3. /\ data.target = Composition /\ call = Quiet
        /\ \A t \in Surfaces :
             data.surf[t] = IF t = Composition THEN BackBufferSurface ELSE Empty
    BY <2>1 DEF Init
  <2>4. [t \in Surfaces |-> ImageOf(data.surf[t])]
          = [t \in Surfaces |-> IF t = Composition THEN Plain(Blank) ELSE NoImage]
    BY <2>2, <2>3
  <2>5. Sdl!Init
    BY <2>2, <2>3, <2>4 DEF Sdl!Init, Sdl!Quiet, Quiet, Sdl!Surfaces, Surfaces
  <2> QED BY <2>1, <2>2, <2>3, <2>5, InitInv DEF TargetLive
<1>2. Inv /\ [Next]_vars => Inv' /\ [Sdl!Next]_(Sdl!vars)
  BY <1>0, NextInv DEF Follows
<1> QED BY <1>1, <1>2, PTL DEF Spec, ImplementsSdlTextures, Sdl!Spec
=============================================================================
