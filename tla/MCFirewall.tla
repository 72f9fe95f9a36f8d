------------------------------ MODULE MCFirewall ------------------------------
(* Instances of Firewall for TLC; old, new and bare are configurations. *)
EXTENDS FirewallHistory

CONSTANTS old, new, bare, off, absent, emptied, nofile  \* model values
=============================================================================
