---------------------------- MODULE MCPeerEngine ----------------------------
(* Instances of PeerEngine for TLC. *)
EXTENDS PeerEngine, PeerShapes
=============================================================================
