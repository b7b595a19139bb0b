----------------------------- MODULE MCProtocols -----------------------------
(***************************************************************************)
(* Model checking of the small protocols: what actors cast and resources   *)
(* need.  The mage's spell summons a creature that casts it again.         *)
(***************************************************************************)
EXTENDS Protocols

CONSTANTS mage, guard, spell, summon, glow

CastSpells == [actor \in {mage, guard} |-> IF actor = mage THEN {spell} ELSE {}]

NeededResources ==
  [resource \in {spell, summon, glow} |->
     IF resource = spell THEN {summon, glow}
     ELSE IF resource = summon THEN {spell, summon} ELSE {}]

=============================================================================
