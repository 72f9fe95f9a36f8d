---------------------------- MODULE FirewallHistory ----------------------------
(***************************************************************************)
(* Firewall with what an operator would remember of it.  The history       *)
(* variables are written by every step and read by no action.              *)
(***************************************************************************)
EXTENDS Firewall

VARIABLES
    rejected,   \* the installed generation's window expired and it was reverted
    blessed,    \* somebody confirmed, and no window was opened since
    cut,        \* power was lost when its ruleset was loaded and not recorded
    severed     \* the window there is was expiring when its revert was killed,
                \* or lost power, or was stopped by a deployment

historyVars == <<vars, rejected, blessed, cut, severed>>

HistoryInit ==
    /\ Init
    /\ rejected = FALSE /\ blessed = FALSE /\ cut = FALSE /\ severed = FALSE

Deploys == gen' # gen

\* The two files together: whose window it is, and the table to go back to.
WindowOf(f) == IF f.pending = NoFile \/ f.stamp = NoFile THEN {}
               ELSE {[of |-> f.stamp, to |-> f.pending]}

\* A revert that has recorded the stand-down ends without a result.
Severs == /\ step \in {"restore", "verify"} /\ step' = "idle"
          /\ bounds' # bounds /\ files' = files

HistoryNext ==
    /\ Next
    /\ rejected' = (\/ Verify /\ ~InForce
                    \/ rejected /\ ~Confirm /\ ~Deploys)
    /\ blessed' = (Confirm \/ (blessed /\ ~Stamp))
    /\ cut' = (\/ Reboot /\ step = "check" /\ InForce /\ Outstanding(files)
               \/ cut /\ ~Confirm /\ ~Deploys)
    /\ severed' = (\/ Severs
                   \/ severed /\ WindowOf(files') = WindowOf(files))

HistorySpec == HistoryInit /\ [][HistoryNext]_historyVars
FairHistorySpec == HistorySpec /\ Fairness

-----------------------------------------------------------------------------
\* FW-5: "neither reconcile, service restart nor reboot loads that rejected
\* generation again until an explicit confirm or a changed deployment".
RejectedStaysOut ==
    [][rejected /\ gen' = gen /\ table # gen /\ meddling' = meddling
         => table' # gen]_historyVars

\* What somebody confirmed is not taken back: a revert only ever runs for a
\* window that was opened after the last confirmation, whatever timers,
\* waiting services and snapshots were left when it came.
ConfirmedIsKept == step \in {"restore", "verify"} => ~blessed

\* modules/firewall.nix on why the snapshot is committed before the load: "if
\* power fails after nft commits, the next boot can still arm a revert for the
\* now-live generation".
RebootStillArms ==
    cut /\ step = "idle" /\ ~units.start /\ InForce => Outstanding(files)

\* FW-5: an installed generation's window does not stay open, whatever table is
\* loaded, failed or was flushed meanwhile -- RefinesSwitch says what may close
\* it -- unless its revert was interrupted once the stand-down was recorded, or
\* the table to go back to is the generation's own, loaded by hand before the
\* snapshot.  Then it does stay open: WindowAlwaysCloses is what FW-5 leads one
\* to expect.
Open == Outstanding(files) /\ gen \in Guarded
WindowCloses == Open ~> (~Open \/ severed \/ files.pending = gen)
WindowAlwaysCloses == Open ~> ~Open

\* FW-5 as a whole: the scripts, the files they leave half written and the
\* services that wait for the lock make one switch between them, whose moves
\* are atomic.
Switch == INSTANCE DeadManSwitch WITH
    Tables <- Table,
    None <- NoFile,
    live <- table,
    window <- WindowOf(files),
    rejected <- files.reverted,
    reverting <- step \in {"restore", "verify"},
    confirmed <- blessed
RefinesSwitch == Switch!Spec
=============================================================================
