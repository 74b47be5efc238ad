--------------------------- MODULE MCNoiseSession ---------------------------
(***************************************************************************)
(* NoiseSession with a window of four nonces (two words of two bits) and   *)
(* six counter values: shifts stay inside a word, cross words and clear    *)
(* the window, and the counter reaches its exhaustion.                     *)
(***************************************************************************)
EXTENDS NoiseSession, TLC

\* The workers of each end are interchangeable.
WorkerSymmetry == Permutations(Encryptors) \union Permutations(Decryptors)

=============================================================================
