----------------------------- MODULE MCUDPPeer -----------------------------
(***************************************************************************)
(* UDPPeer between nodes "a" and "b".                                      *)
(***************************************************************************)
EXTENDS UDPPeer, TLC

Pair == {"a", "b"}
PairOther == [n \in Pair |-> IF n = "a" THEN "b" ELSE "a"]

\* Callers and workers are interchangeable.
PeerSymmetry == Permutations(Callers) \union Permutations(Workers)

=============================================================================
