--------------------------- MODULE MCPeerServing ---------------------------
(***************************************************************************)
(* PeerServing with two or three generations, Conns and serving runs.      *)
(***************************************************************************)
EXTENDS PeerServing, TLC

LoopSymmetry == Permutations(Loops)

=============================================================================
