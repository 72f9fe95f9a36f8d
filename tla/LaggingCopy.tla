----------------------------- MODULE LaggingCopy -----------------------------
(***************************************************************************)
(* A copy of something that changes: it may be late, but it always is what *)
(* there once was, and it never goes back to something older.  Versions    *)
(* number the states of the original in their order.                       *)
(***************************************************************************)
EXTENDS Integers

VARIABLES
    original,   \* the version there is
    copy        \* the version of the copy, 0 for none

vars == <<original, copy>>

Init == original = 0 /\ copy = 0

Change == original' \in Nat /\ original' > original /\ UNCHANGED copy
Refresh ==
    /\ original' \in Nat /\ original' >= original
    /\ copy' \in Nat /\ copy < copy' /\ copy' <= original'

Next == Change \/ Refresh
Spec == Init /\ [][Next]_vars
=============================================================================
