------------------------------ MODULE SdlOrder ------------------------------
(***************************************************************************)
(* What SDL expects of a renderer, without batches, rings or fences: the   *)
(* operations it accepts take effect in the order they were issued, and a  *)
(* CPU access to a surface finds every operation accepted before it done.  *)
(***************************************************************************)
EXTENDS Integers

CONSTANTS Surfaces, Composition, Ops

VARIABLES
  accepted,  \* operations accepted so far; their ids give the order
  executed,  \* ids of those that have taken effect
  seen       \* ids a CPU access found done, until the next callback

vars == <<accepted, executed, seen>>

Ids == {op.id : op \in accepted}

\* The frame in progress: what was accepted after the last PRESENT.
InFrame(op) ==
  \A other \in accepted : other.kind = "present" => other.id < op.id

\* The back buffer starts afresh after a PRESENT, a texture never does.
Touching(s) ==
  {op.id : op \in {o \in accepted : /\ s \in {o.target, o.source}
                                    /\ s = Composition => InFrame(o)}}

Init == accepted = {} /\ executed = {} /\ seen = {}

\* An operation is accepted once, and after every earlier one.
Accept(op) ==
  /\ \A other \in accepted : other.id < op.id
  /\ accepted' = accepted \cup {op}
  /\ UNCHANGED <<executed, seen>>

\* Everything up to some operation takes effect.
Take ==
  /\ \E n \in Ids \ executed : executed' = {m \in Ids : m <= n}
  /\ UNCHANGED <<accepted, seen>>

Access(s) ==
  /\ Touching(s) \subseteq executed
  /\ seen' = Touching(s)
  /\ UNCHANGED <<accepted, executed>>

Forget == seen' = {} /\ UNCHANGED <<accepted, executed>>

Next ==
  \/ \E op \in Ops : Accept(op)
  \/ Take
  \/ \E s \in Surfaces : Access(s)
  \/ Forget

Spec == Init /\ [][Next]_vars

=============================================================================
