---------------------------- MODULE DeadManSwitch ----------------------------
(***************************************************************************)
(* What the firewall promises of its automatic revert, as a switch whose   *)
(* moves are single steps.  A change that may cut its own operator off     *)
(* opens a window with a table to go back to.  The window is confirmed,    *)
(* which somebody sees, or it expires: then the generation is rejected and *)
(* the table it replaced comes back.  Nothing else drops a window that is  *)
(* open for the generation installed, unless no table is loaded, and       *)
(* nothing but a confirmation, another generation or a revert that failed  *)
(* makes a rejected generation loadable again.                             *)
(*                                                                         *)
(* What is done to the switch from outside is counted, so that nothing the *)
(* switch does itself can pass for it: it changes the table only to load   *)
(* what is not rejected, to put back, and to turn off.  It may load        *)
(* without a window, as a repair does.                                     *)
(***************************************************************************)
EXTENDS Naturals

CONSTANTS
    Gens, Guarded, Off,   \* generations, those with the switch, and none
    Tables, Absent,       \* what the kernel may have loaded, and nothing
    None                  \* no generation

VARIABLES
    gen,        \* the generation installed
    live,       \* the table loaded
    window,     \* the open window, if any: whose it is, and the table to go
                \* back to
    rejected,   \* the generation that has been rejected
    reverting,  \* the window has expired, and the table is being put back
    confirmed,  \* the last window there was has been confirmed
    deploys, meddling, faults  \* what happened to the switch from outside

outside == <<deploys, meddling, faults>>
vars == <<gen, live, window, rejected, reverting, confirmed, outside>>

OpenFor(g) == g \in Guarded /\ \E w \in window : w.of = g

Init ==
    /\ gen \in Gens \cup {Off} /\ live = Absent
    /\ window = {} /\ rejected = None /\ reverting = FALSE /\ confirmed = FALSE
    /\ deploys = 0 /\ meddling = 0 /\ faults = 0

Load ==
    /\ gen \in Gens /\ ~reverting /\ rejected # gen
    /\ live' = gen
    /\ UNCHANGED <<gen, window, rejected, reverting, confirmed, outside>>

\* Again when one is open already: the table to go back to is another then.
OpenWindow ==
    /\ gen \in Guarded /\ ~reverting /\ rejected # gen
    /\ \E t \in Tables \ {Absent} : window' = {[of |-> gen, to |-> t]}
    /\ confirmed' = FALSE
    /\ UNCHANGED <<gen, live, rejected, reverting, outside>>

\* There is nothing to go back to.
CloseEmpty ==
    /\ gen \in Guarded /\ ~reverting /\ rejected # gen
    /\ live = Absent /\ window' = {}
    /\ UNCHANGED <<gen, live, rejected, reverting, confirmed, outside>>

\* What is left of other generations is dropped; for one without the switch
\* whatever is left.
Tidy ==
    /\ gen \in Gens /\ ~reverting
    /\ window' = window \/ (window' = {} /\ ~OpenFor(gen))
    /\ \/ rejected' = rejected
       \/ rejected' = None /\ (rejected # gen \/ gen \notin Guarded)
    /\ UNCHANGED <<gen, live, reverting, confirmed, outside>>

Confirm ==
    /\ gen \in Guarded /\ ~reverting
    /\ window' = {} /\ rejected' = None /\ confirmed' = TRUE
    /\ UNCHANGED <<gen, live, reverting, outside>>

\* What has been confirmed does not expire.
Expire ==
    /\ OpenFor(gen) /\ ~reverting /\ ~confirmed
    /\ rejected' = gen /\ reverting' = TRUE
    /\ UNCHANGED <<gen, live, window, confirmed, outside>>

PutBack ==
    /\ reverting /\ \E w \in window : live' = w.to
    /\ UNCHANGED <<gen, window, rejected, reverting, confirmed, outside>>

\* The generation is out.
Reverted ==
    /\ reverting /\ live # gen
    /\ window' = {} /\ reverting' = FALSE
    /\ UNCHANGED <<gen, live, rejected, confirmed, outside>>

\* The table could not be loaded, or the generation is not out: the window
\* stays open.
RevertFails ==
    /\ reverting
    /\ \/ faults' = faults + 1
       \/ live = gen /\ UNCHANGED faults
    /\ rejected' = None /\ reverting' = FALSE
    /\ UNCHANGED <<gen, live, window, confirmed, deploys, meddling>>

\* A command fails, or its script is killed.  A revert that is interrupted
\* leaves its window open and the generation rejected, loaded or not.
Interrupt ==
    /\ faults' = faults + 1 /\ reverting' = FALSE
    /\ UNCHANGED <<gen, live, window, rejected, confirmed, deploys, meddling>>

PowerLoss ==
    /\ faults' = faults + 1 /\ reverting' = FALSE
    /\ live' = Absent
    /\ UNCHANGED <<gen, window, rejected, confirmed, deploys, meddling>>

\* What is recorded of windows and rejections outlasts a deployment.
Deploy ==
    /\ deploys' = deploys + 1 /\ reverting' = FALSE
    /\ gen' \in (Gens \cup {Off}) \ {gen}
    /\ UNCHANGED <<live, window, rejected, confirmed, meddling, faults>>

\* Somebody else loads, flushes or empties the table.
Meddle ==
    /\ meddling' = meddling + 1
    /\ live' \in Tables
    /\ UNCHANGED <<gen, window, rejected, reverting, confirmed, deploys, faults>>

TurnOff ==
    /\ gen = Off /\ live' = Absent
    /\ \/ UNCHANGED <<window, rejected>>
       \/ window' = {} /\ rejected' = None
    /\ UNCHANGED <<gen, reverting, confirmed, outside>>

Next ==
    \/ Load \/ OpenWindow \/ CloseEmpty \/ Tidy \/ Confirm
    \/ Expire \/ PutBack \/ Reverted \/ RevertFails \/ Interrupt
    \/ PowerLoss \/ Deploy \/ Meddle \/ TurnOff
Spec == Init /\ [][Next]_vars
=============================================================================
