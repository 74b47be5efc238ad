-------------------------- MODULE MCPacketPipeline --------------------------
(***************************************************************************)
(* Instances of PacketPipeline for TLC.                                    *)
(***************************************************************************)
EXTENDS PacketPipeline

=============================================================================
