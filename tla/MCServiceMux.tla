---------------------------- MODULE MCServiceMux ----------------------------
(***************************************************************************)
(* ServiceMux with one or two services and up to three goroutines.         *)
(***************************************************************************)
EXTENDS ServiceMux, TLC

ProcSymmetry == Permutations(Procs)

=============================================================================
