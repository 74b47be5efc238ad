----------------------------- MODULE MCGameplay -----------------------------
(***************************************************************************)
(* Gameplay with four calls, one pet id and int64 cut down to five values  *)
(* on the positive side.                                                   *)
(***************************************************************************)
EXTENDS Gameplay, TLC

\* A free action that costs life and a dear one that is worth two levels.
MCPetDecisions ==
  {[points |-> 0, life |-> -1, exp |-> -1], [points |-> -1, life |-> 1, exp |-> 2]}
\* Points, a badge alone, and a decision that is not valid.
MCRewardDecisions ==
  {[points |-> 3, badge |-> FALSE], [points |-> 0, badge |-> TRUE],
   [points |-> -1, badge |-> TRUE]}

CallSymmetry == Permutations(Calls)

=============================================================================
