------------------------------ MODULE MCSocial ------------------------------
(***************************************************************************)
(* Social with two overlapping calls and at most two failing writes.       *)
(***************************************************************************)
EXTENDS Social, TLC

HandlerSymmetry == Permutations(Handlers)

=============================================================================
