---------------------------- MODULE MCAgentHost ----------------------------
(***************************************************************************)
(* Instances of AgentHost for TLC: peer p has an RPC handler and the       *)
(* goroutine that pushes its audio, peer q an RPC handler and nothing      *)
(* selected yet.                                                           *)
(***************************************************************************)
EXTENDS AgentHost

MCPeerOf == [c \in Reloaders |-> IF c = "rpcQ" THEN "q" ELSE "p"]
MCFirst == [x \in Peers |-> IF x = "p" THEN "w" ELSE NoWorkspace]

=============================================================================
