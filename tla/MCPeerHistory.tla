---------------------------- MODULE MCPeerHistory ----------------------------
(* Instances of PeerHistory for TLC. *)
EXTENDS PeerHistory, PeerShapes
=============================================================================
