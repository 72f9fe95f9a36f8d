---------------------------- MODULE MCUplinkHistory ----------------------------
(* Instances of UplinkHistory for TLC. *)
EXTENDS UplinkHistory, UplinkShapes
=============================================================================
