------------------------------ MODULE MCKcpMux ------------------------------
(***************************************************************************)
(* KcpMux at the server end, with one or two ids on each side.             *)
(***************************************************************************)
EXTENDS KcpMux, TLC

MuxSymmetry == Permutations(Closers)

=============================================================================
