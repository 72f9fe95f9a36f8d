------------------------------ MODULE ManagedFile ------------------------------
(***************************************************************************)
(* What nixnet promises about a file it shares with others: a block of its *)
(* own between two regions.  The daemon puts back around the block exactly *)
(* what it has read there, however long ago, and for a file that is gone   *)
(* what it read at its start.  The activation script keeps the block and   *)
(* all that is below it, and replaces what is above by a region that it    *)
(* declares: what others wrote there is lost.                              *)
(***************************************************************************)
EXTENDS Sequences

CONSTANTS
    Blocks,     \* the blocks the daemon may write
    Seeds,      \* the blocks the activation script may make
    Statics,    \* the upper regions it may declare
    Nothing     \* what a writer holds that has read nothing

VARIABLES
    file,       \* the regions above and below, and the block
    kept,       \* what the daemon read at its start
    held,       \* what the daemon is about to write
    carried     \* what the script is about to write

vars == <<file, kept, held, carried>>

Empty == [above |-> <<>>, block |-> <<>>, below |-> <<>>]
Around(f, g) == f.above = g.above /\ f.below = g.below

Init ==
    /\ file \in {[Empty EXCEPT !.above = s] : s \in Statics \cup {<<>>}}
    /\ kept = Empty /\ held = Nothing /\ carried = Nothing

\* Anybody else edits the file.
Edited ==
    UNCHANGED <<kept, held, carried>>

DaemonStart ==
    /\ held = Nothing /\ held' = Nothing
    /\ Around(kept', file)
    /\ UNCHANGED <<file, carried>>

DaemonRead ==
    /\ held = Nothing /\ held' # Nothing
    /\ Around(held', file) \/ (file = Empty /\ Around(held', kept))
    /\ held'.block \in Blocks
    /\ UNCHANGED <<file, kept, carried>>

DaemonWrite ==
    /\ held # Nothing /\ held' = Nothing
    /\ file' = held
    /\ UNCHANGED <<kept, carried>>

DaemonStop ==
    /\ held' = Nothing
    /\ Around(kept', kept) \/ Around(kept', Empty)
    /\ UNCHANGED <<file, carried>>

\* What the script carries over is the block and all below it, or a new
\* block alone; nothing of what is above.
ScriptRead ==
    /\ carried = Nothing /\ carried' # Nothing
    /\ carried'.above \in Statics
    /\ \/ carried'.block = file.block /\ carried'.below = file.below
       \/ carried'.block \in Seeds /\ carried'.below = <<>>
    /\ UNCHANGED <<file, kept, held>>

ScriptWrite ==
    /\ carried # Nothing /\ carried' = Nothing
    /\ file' = carried
    /\ UNCHANGED <<kept, held>>

ScriptStop ==
    /\ carried' = Nothing
    /\ UNCHANGED <<file, kept, held>>

Next ==
    \/ Edited
    \/ DaemonStart \/ DaemonRead \/ DaemonWrite \/ DaemonStop
    \/ ScriptRead \/ ScriptWrite \/ ScriptStop
Spec == Init /\ [][Next]_vars
=============================================================================
