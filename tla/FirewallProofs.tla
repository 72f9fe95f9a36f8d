----------------------------- MODULE FirewallProofs -----------------------------
(***************************************************************************)
(* What the firewall's scripts keep, for any generations and any number of *)
(* deployments, hand-written changes, killed scripts and power losses.     *)
(***************************************************************************)
EXTENDS FirewallHistory, TLAPS

\* TypeOK is not inductive: a revert loads its snapshot, which has to be there
\* and, for NeverUnfirewalled, a table.  That it is rests on what a revert
\* checked and wrote before it came so far, with nobody else at the files.
RevertInv ==
    /\ files.pending # Absent
    /\ step \in {"restore", "verify"} =>
         Outstanding(files) /\ gen \in Guarded /\ files.reverted = gen

FInv == TypeOK /\ RevertInv

LEMMA InitFInv == Init => FInv
BY FirewallAssumption
DEF Init, FInv, TypeOK, RevertInv, Table, Hash, Files, Units, Steps

-----------------------------------------------------------------------------
(* What the helpers of the scripts make of the files. *)

LEMMA FilesTypes ==
    ASSUME FInv, NEW f \in Files, f.pending # Absent
    PROVE  /\ WithoutWindow(f) \in Files /\ WithoutWindow(f).pending # Absent
           /\ gen \in Gens => Accepted(f) \in Files
           /\ Accepted(f).pending = f.pending
           /\ Confirmed(f) \in Files /\ Confirmed(f).pending # Absent
BY FirewallAssumption
DEF FInv, TypeOK, WithoutWindow, Accepted, Confirmed, Files, Hash, Table

LEMMA CleanedTypes ==
    ASSUME FInv
    PROVE  /\ CleanedFiles \in Files /\ CleanedFiles.pending # Absent
           /\ CleanedUnits \in Units
<1>1. files \in Files /\ files.pending # Absent /\ units \in Units
  BY DEF FInv, TypeOK, RevertInv
<1>2. CleanedFiles \in Files /\ CleanedFiles.pending # Absent
  BY <1>1, FirewallAssumption DEF CleanedFiles, WithoutWindow, Files, Hash, Table
<1>3. QED
  BY <1>1, <1>2 DEF CleanedUnits, Cancelled, Units

LEMMA UnitsTypes ==
    ASSUME NEW u \in Units, NEW f
    PROVE  Cancelled(u) \in Units /\ Ensured(f, u) \in Units /\ Armed(f, u) \in Units
           /\ [u EXCEPT !.start = FALSE] \in Units
<1>1. /\ (u.timer \/ (gen \in Guarded /\ Outstanding(f))) \in BOOLEAN
      /\ u.due \in BOOLEAN /\ u.start \in BOOLEAN
  BY DEF Units
<1>2. QED
  BY <1>1 DEF Cancelled, Ensured, Armed, Units

-----------------------------------------------------------------------------
(* One lemma per script. *)

LEMMA BeginFInv ==
    ASSUME FInv, NEW next \in {"snapshot", "repair"}, NEW u \in Units, Begin(next, u)
    PROVE  FInv'
<1>1. step' \in Steps /\ (step' # "idle" => step' = next)
  BY DEF Begin, Steps
<1>2. files' \in Files /\ files'.pending # Absent
  BY CleanedTypes, FilesTypes DEF Begin
<1>3. units' \in Units
  BY UnitsTypes DEF Begin
<1>4. QED
  BY <1>1, <1>2, <1>3 DEF Begin, FInv, TypeOK, RevertInv, bounds

LEMMA ApplyFInv ==
    ASSUME FInv, Apply
    PROVE  FInv'
<1>1. CASE BeginApply
  <2>1. [CleanedUnits EXCEPT !.start = FALSE] \in Units
    BY CleanedTypes, UnitsTypes
  <2>2. QED
    BY <1>1, <2>1, BeginFInv DEF BeginApply
<1>2. CASE Snapshot
  <2>1. files' \in Files /\ files'.pending # Absent
    BY <1>2, FirewallAssumption
    DEF Snapshot, Taken, WithoutWindow, FInv, TypeOK, RevertInv, Files, Hash, Table
  <2>2. QED
    BY <1>2, <2>1 DEF Snapshot, FInv, TypeOK, RevertInv, Steps, bounds
<1>3. CASE Stamp
  BY <1>3, FirewallAssumption
  DEF Stamp, FInv, TypeOK, RevertInv, Files, Hash, Steps, bounds
<1>4. CASE Load("load", "check")
  BY <1>4 DEF Load, Fault, FInv, TypeOK, RevertInv, Table, Steps
<1>5. CASE Check("check", Armed(Accepted(files), units))
  <2>1. files' \in Files /\ files'.pending # Absent
    BY <1>5, FilesTypes DEF Check, FInv, TypeOK, RevertInv
  <2>2. units' \in Units
    BY <1>5, UnitsTypes DEF Check, FInv, TypeOK
  <2>3. QED
    BY <1>5, <2>1, <2>2 DEF Check, FInv, TypeOK, RevertInv, Steps, bounds
<1>6. QED
  BY <1>1, <1>2, <1>3, <1>4, <1>5 DEF Apply

LEMMA ReconcileFInv ==
    ASSUME FInv, Reconcile
    PROVE  FInv'
<1>1. CASE BeginReconcile
  BY <1>1, BeginFInv, CleanedTypes DEF BeginReconcile
<1>2. CASE Load("repair", "recheck")
  BY <1>2 DEF Load, Fault, FInv, TypeOK, RevertInv, Table, Steps
<1>3. CASE Check("recheck", Ensured(Accepted(files), units))
  <2>1. files' \in Files /\ files'.pending # Absent
    BY <1>3, FilesTypes DEF Check, FInv, TypeOK, RevertInv
  <2>2. units' \in Units
    BY <1>3, UnitsTypes DEF Check, FInv, TypeOK
  <2>3. QED
    BY <1>3, <2>1, <2>2 DEF Check, FInv, TypeOK, RevertInv, Steps, bounds
<1>4. QED
  BY <1>1, <1>2, <1>3 DEF Reconcile

LEMMA RevertFInv ==
    ASSUME FInv, Elapse \/ Revert
    PROVE  FInv'
<1>1. CASE Elapse
  BY <1>1 DEF Elapse, Outstanding, FInv, TypeOK, RevertInv, Units, bounds
<1>2. CASE BeginRevert
  <2>1. units' \in Units
    BY <1>2 DEF BeginRevert, FInv, TypeOK, Units
  <2>2. CASE Outstanding(files) /\ gen \in Guarded
    BY <1>2, <2>1, <2>2, FirewallAssumption
    DEF BeginRevert, Rejected, Outstanding, FInv, TypeOK, RevertInv, Files, Hash,
        Steps, bounds
  <2>3. CASE ~(Outstanding(files) /\ gen \in Guarded)
    BY <1>2, <2>1, <2>3
    DEF BeginRevert, FInv, TypeOK, RevertInv, Steps, bounds
  <2>4. QED
    BY <2>2, <2>3
<1>3. CASE Restore
  <2>1. files.pending \in Table
    BY <1>3 DEF Restore, Outstanding, FInv, TypeOK, RevertInv, Files
  <2>2. CASE table' = files.pending /\ step' = "verify" /\ UNCHANGED <<files, faults>>
    BY <1>3, <2>1, <2>2, FirewallAssumption
    DEF Restore, Outstanding, FInv, TypeOK, RevertInv, Steps
  <2>3. CASE /\ Fault /\ step' = "idle" /\ UNCHANGED table
             /\ files' = [files EXCEPT !.reverted = NoFile]
    BY <1>3, <2>3
    DEF Restore, Fault, FInv, TypeOK, RevertInv, Files, Hash, Steps
  <2>4. QED
    BY <1>3, <2>2, <2>3 DEF Restore
<1>4. CASE Verify
  <2>1. files' \in Files /\ files'.pending # Absent
    BY <1>4, FirewallAssumption
    DEF Verify, WithoutWindow, FInv, TypeOK, RevertInv, Files, Hash, Table
  <2>2. QED
    BY <1>4, <2>1 DEF Verify, FInv, TypeOK, RevertInv, Steps, bounds
<1>5. QED
  BY <1>1, <1>2, <1>3, <1>4 DEF Revert

LEMMA TeardownFInv ==
    ASSUME FInv, Teardown
    PROVE  FInv'
<1>1. CASE BeginTeardown
  <2>1. units' \in Units
    BY <1>1, UnitsTypes DEF BeginTeardown, FInv, TypeOK
  <2>2. QED
    BY <1>1, <2>1 DEF BeginTeardown, FInv, TypeOK, RevertInv, Steps, bounds
<1>2. CASE Delete
  BY <1>2 DEF Delete, Fault, FInv, TypeOK, RevertInv, Table, Steps
<1>3. CASE Forget
  <2>1. files' \in Files /\ files'.pending # Absent
    BY <1>3, FirewallAssumption
    DEF Forget, FInv, TypeOK, RevertInv, Files, Hash, Table
  <2>2. QED
    BY <1>3, <2>1 DEF Forget, FInv, TypeOK, RevertInv, Steps, bounds
<1>4. QED
  BY <1>1, <1>2, <1>3 DEF Teardown

\* The operator, the units' manager, the power and other writers of the table.
LEMMA WorldFInv ==
    ASSUME FInv,
           \/ Confirm \/ Kill \/ Reboot \/ Restart
           \/ \E g \in Gens \cup {Off} : Deploy(g)
           \/ \E t \in Table : Meddle(t)
    PROVE  FInv'
<1>1. CASE Confirm
  <2>1. files' \in Files /\ files'.pending # Absent /\ units' \in Units
    BY <1>1, FilesTypes, UnitsTypes DEF Confirm, FInv, TypeOK, RevertInv
  <2>2. QED
    BY <1>1, <2>1 DEF Confirm, FInv, TypeOK, RevertInv, bounds
<1>2. CASE Kill
  BY <1>2 DEF Kill, Fault, FInv, TypeOK, RevertInv, Steps
<1>3. CASE Reboot
  BY <1>3 DEF Reboot, Fault, FInv, TypeOK, RevertInv, Table, Units, Steps
<1>4. CASE Restart
  BY <1>4 DEF Restart, Outstanding, FInv, TypeOK, RevertInv, Units, bounds
<1>5. ASSUME NEW g \in Gens \cup {Off}, Deploy(g) PROVE FInv'
  <2>1. units' \in Units
    BY <1>5 DEF Deploy, FInv, TypeOK, Units
  <2>2. QED
    BY <1>5, <2>1 DEF Deploy, FInv, TypeOK, RevertInv, Steps
<1>6. ASSUME NEW t \in Table, Meddle(t) PROVE FInv'
  BY <1>6 DEF Meddle, Outstanding, FInv, TypeOK, RevertInv
<1>7. QED
  BY <1>1, <1>2, <1>3, <1>4, <1>5, <1>6

LEMMA NextFInv == FInv /\ [Next]_vars => FInv'
<1>1. CASE UNCHANGED vars
  BY <1>1 DEF vars, Outstanding, FInv, TypeOK, RevertInv
<1>2. QED
  BY <1>1, ApplyFInv, ReconcileFInv, RevertFInv, TeardownFInv, WorldFInv DEF Next

\* Every step of every script, and everything around them, preserves FInv.
THEOREM FirewallInvariance == Spec => []FInv
BY InitFInv, NextFInv, PTL DEF Spec

\* Every variable keeps its type, through every interruption of every script.
THEOREM FirewallTypes == Spec => []TypeOK
<1>1. FInv => TypeOK
  BY DEF FInv
<1>2. QED
  BY <1>1, FirewallInvariance, PTL

\* FW-3, FW-5: nothing that fails, is killed or was meddled with makes a script
\* of an enabled firewall take the table away.
THEOREM FilterStays == Spec => NeverUnfirewalled
<1> DEFINE Taken0 == table # Absent /\ table' = Absent /\ meddling' = meddling
                       /\ faults' = faults => step = "delete"
<1>1. ASSUME FInv, Next PROVE Taken0
  <2>1. ASSUME NEW at \in Steps \ {"idle", "delete", "forget"}, NEW next, Load(at, next)
        PROVE  Taken0
    BY <1>1, <2>1, FirewallAssumption DEF Load, FInv, TypeOK
  <2>2. CASE Apply \/ Reconcile
    BY <2>1, <2>2
    DEF Apply, Reconcile, BeginApply, BeginReconcile, Begin, Snapshot, Stamp,
        Check, Steps
  <2>3. CASE Elapse \/ Revert
    BY <1>1, <2>3
    DEF Elapse, Revert, BeginRevert, Restore, Verify, FInv, RevertInv
  <2>4. CASE Teardown
    BY <2>4 DEF Teardown, BeginTeardown, Delete, Forget
  <2>5. CASE Confirm \/ Kill \/ Restart \/ \E g \in Gens \cup {Off} : Deploy(g)
    BY <2>5 DEF Confirm, Kill, Restart, Deploy
  <2>6. CASE Reboot \/ \E t \in Table : Meddle(t)
    BY <1>1, <2>6 DEF Reboot, Meddle, Fault, FInv, TypeOK
  <2>7. QED
    BY <1>1, <2>2, <2>3, <2>4, <2>5, <2>6 DEF Next
<1>2. FInv /\ [Next]_vars => [Taken0]_vars
  BY <1>1
<1>3. QED
  BY <1>2, FirewallInvariance, PTL DEF Spec, NeverUnfirewalled

-----------------------------------------------------------------------------
(* The operator's memory.  A confirmation deletes the hash of the window,  *)
(* and only an apply that opens another writes one; a rejected generation  *)
(* has its hash recorded and no window, so nothing gets past Begin.        *)

LEMMA HistoryFInv == HistorySpec => []FInv
<1>1. HistoryInit => FInv
  BY InitFInv DEF HistoryInit
<1>2. FInv /\ [HistoryNext]_historyVars => FInv'
  BY NextFInv DEF HistoryNext, historyVars
<1>3. QED
  BY <1>1, <1>2, PTL DEF HistorySpec

BlessedInv == blessed \in BOOLEAN /\ (blessed => files.stamp = NoFile)

RejectedInv == rejected => /\ gen \in Guarded /\ step = "idle"
                           /\ files.reverted = gen /\ files.pending = NoFile

LEMMA BlessedStep ==
    ASSUME FInv, BlessedInv, HistoryNext
    PROVE  BlessedInv'
<1>0. blessed' \in BOOLEAN
  BY DEF HistoryNext
<1> SUFFICES ASSUME blessed' PROVE files'.stamp = NoFile
  BY <1>0 DEF BlessedInv
<1>1. files \in Files
  BY DEF FInv, TypeOK
<1>2. CASE Confirm
  BY <1>1, <1>2 DEF Confirm, Confirmed, WithoutWindow, Files
<1>3. CASE ~Confirm
  <2>1. blessed /\ ~Stamp /\ files.stamp = NoFile
    BY <1>3 DEF HistoryNext, BlessedInv
  <2>2. CASE Apply \/ Reconcile
    BY <1>1, <2>1, <2>2
    DEF Apply, Reconcile, BeginApply, BeginReconcile, Begin, Snapshot, Load,
        Check, CleanedFiles, WithoutWindow, Accepted, Taken, Files
  <2>3. CASE Elapse \/ Revert \/ Teardown
    BY <1>1, <2>1, <2>3
    DEF Elapse, Revert, BeginRevert, Restore, Verify, Rejected, WithoutWindow,
        Teardown, BeginTeardown, Delete, Forget, Files
  <2>4. CASE \/ Kill \/ Reboot \/ Restart
             \/ \E g \in Gens \cup {Off} : Deploy(g)
             \/ \E t \in Table : Meddle(t)
    BY <2>1, <2>4 DEF Kill, Reboot, Restart, Deploy, Meddle
  <2>5. QED
    BY <1>3, <2>2, <2>3, <2>4 DEF HistoryNext, Next
<1>4. QED
  BY <1>2, <1>3

LEMMA RejectedStep ==
    ASSUME FInv, RejectedInv, HistoryNext
    PROVE  RejectedInv'
<1> SUFFICES ASSUME rejected'
             PROVE  /\ gen' \in Guarded /\ step' = "idle"
                    /\ files'.reverted = gen' /\ files'.pending = NoFile
  BY DEF RejectedInv
<1>1. files \in Files
  BY DEF FInv, TypeOK
<1>2. CASE Verify /\ ~InForce
  BY <1>1, <1>2 DEF Verify, WithoutWindow, FInv, RevertInv, Files
<1>3. CASE ~(Verify /\ ~InForce)
  <2>1. /\ ~Confirm /\ gen' = gen
        /\ gen \in Guarded /\ step = "idle"
        /\ files.reverted = gen /\ files.pending = NoFile
    BY <1>3 DEF HistoryNext, Deploys, RejectedInv
  <2>2. gen \in Gens /\ gen # Off
    BY <2>1, FirewallAssumption
  <2>3. /\ CleanedFiles.reverted = gen /\ CleanedFiles.pending = NoFile
        /\ ~Outstanding(files)
    BY <1>1, <2>1 DEF CleanedFiles, WithoutWindow, Outstanding, Files
  <2>4. CASE Apply \/ Reconcile
    BY <2>1, <2>3, <2>4
    DEF Apply, Reconcile, BeginApply, BeginReconcile, Begin, Refused, Snapshot,
        Stamp, Load, Check
  <2>5. CASE Elapse \/ Revert \/ Teardown
    BY <2>1, <2>2, <2>3, <2>5
    DEF Elapse, Revert, BeginRevert, Restore, Verify, Teardown, BeginTeardown,
        Delete, Forget
  <2>6. CASE \/ Kill \/ Reboot \/ Restart
             \/ \E g \in Gens \cup {Off} : Deploy(g)
             \/ \E t \in Table : Meddle(t)
    BY <2>1, <2>6 DEF Kill, Reboot, Restart, Deploy, Meddle
  <2>7. QED
    BY <2>1, <2>4, <2>5, <2>6 DEF HistoryNext, Next
<1>4. QED
  BY <1>2, <1>3

LEMMA MemoryInvariance == HistorySpec => [](FInv /\ BlessedInv /\ RejectedInv)
<1>1. HistoryInit => BlessedInv /\ RejectedInv
  BY DEF HistoryInit, BlessedInv, RejectedInv
<1>2. ASSUME FInv, BlessedInv, RejectedInv, [HistoryNext]_historyVars
      PROVE  BlessedInv' /\ RejectedInv'
  <2>1. CASE UNCHANGED historyVars
    BY <1>2, <2>1 DEF historyVars, vars, BlessedInv, RejectedInv
  <2>2. QED
    BY <1>2, <2>1, BlessedStep, RejectedStep
<1>3. QED
  BY <1>1, <1>2, HistoryFInv, PTL DEF HistorySpec

\* No revert ever takes back what was confirmed, whatever was left behind by
\* the window when the confirmation came.
THEOREM ConfirmedStays == HistorySpec => []ConfirmedIsKept
<1>1. FInv /\ BlessedInv => ConfirmedIsKept
  BY FirewallAssumption
  DEF FInv, RevertInv, BlessedInv, ConfirmedIsKept, Outstanding
<1>2. QED
  BY <1>1, MemoryInvariance, PTL

\* FW-5: no apply, repair, restart or boot loads a rejected generation.
THEOREM RejectedStays == HistorySpec => RejectedStaysOut
<1> DEFINE Out == rejected /\ gen' = gen /\ table # gen /\ meddling' = meddling
                    => table' # gen
<1>1. ASSUME FInv, RejectedInv, HistoryNext PROVE Out
  <2> SUFFICES ASSUME rejected, gen' = gen, table # gen, meddling' = meddling
               PROVE  table' # gen
    OBVIOUS
  <2>1. step = "idle" /\ gen \in Gens
    BY <1>1, FirewallAssumption DEF RejectedInv
  <2>2. CASE Apply \/ Reconcile
    BY <2>1, <2>2
    DEF Apply, Reconcile, BeginApply, BeginReconcile, Begin, Snapshot, Stamp,
        Load, Check
  <2>3. CASE Elapse \/ Revert \/ Teardown
    BY <2>1, <2>3
    DEF Elapse, Revert, BeginRevert, Restore, Verify, Teardown, BeginTeardown,
        Delete, Forget
  <2>4. CASE Confirm \/ Kill \/ Restart \/ \E g \in Gens \cup {Off} : Deploy(g)
    BY <2>4 DEF Confirm, Kill, Restart, Deploy
  <2>5. CASE Reboot
    BY <2>1, <2>5, FirewallAssumption DEF Reboot
  <2>6. ASSUME NEW t \in Table, Meddle(t) PROVE FALSE
    BY <1>1, <2>6 DEF Meddle, FInv, TypeOK
  <2>7. QED
    BY <1>1, <2>2, <2>3, <2>4, <2>5, <2>6 DEF HistoryNext, Next
<1>2. FInv /\ RejectedInv /\ [HistoryNext]_historyVars => [Out]_historyVars
  BY <1>1
<1>3. QED
  BY <1>2, MemoryInvariance, PTL DEF HistorySpec, RejectedStaysOut
-----------------------------------------------------------------------------
(* The scripts implement the switch.  Each step of theirs is one move of   *)
(* it, or none: what an apply leaves half done is no window yet, and what  *)
(* it relies on later is what it checked when it took the lock.            *)

\* A script that got past its decision works for a generation that is not
\* rejected, and no other generation's window is left.
DecidedInv ==
    /\ step \in {"snapshot", "stamp", "load", "check", "repair", "recheck"} =>
         /\ files.reverted # gen
         /\ gen \in Guarded => files.stamp \in {NoFile, gen}
    /\ step = "stamp" => gen \in Guarded /\ files.pending # NoFile

LEMMA DecidedStep ==
    ASSUME FInv, DecidedInv, Next
    PROVE  DecidedInv'
<1>1. files \in Files
  BY DEF FInv, TypeOK
<1>2. CASE BeginApply \/ BeginReconcile
  <2>1. PICK next \in {"snapshot", "repair"}, u \in {CleanedUnits, [CleanedUnits EXCEPT !.start = FALSE]} :
          Begin(next, u)
    BY <1>2 DEF BeginApply, BeginReconcile
  <2>2. CleanedFiles.stamp \in {NoFile, gen}
    BY <1>1 DEF CleanedFiles, Stale, Outstanding, WithoutWindow, Files
  <2>3. QED
    BY <2>1, <2>2 DEF Begin, Refused, DecidedInv
<1>3. CASE Snapshot
  BY <1>1, <1>3, FirewallAssumption
  DEF Snapshot, Taken, WithoutWindow, DecidedInv, FInv, TypeOK, Files, Table
<1>4. CASE Stamp
  BY <1>1, <1>4 DEF Stamp, DecidedInv, Files
<1>5. CASE \/ Load("load", "check") \/ Load("repair", "recheck")
           \/ Check("check", Armed(Accepted(files), units))
           \/ Check("recheck", Ensured(Accepted(files), units))
  BY <1>5 DEF Load, Check, DecidedInv
<1>6. CASE Elapse \/ Revert \/ Teardown
  BY <1>6
  DEF Elapse, Revert, BeginRevert, Restore, Verify, Teardown, BeginTeardown,
      Delete, Forget, DecidedInv
<1>7. CASE \/ Confirm \/ Kill \/ Reboot \/ Restart
           \/ \E g \in Gens \cup {Off} : Deploy(g)
           \/ \E t \in Table : Meddle(t)
  BY <1>7 DEF Confirm, Kill, Reboot, Restart, Deploy, Meddle, DecidedInv
<1>8. QED
  BY <1>2, <1>3, <1>4, <1>5, <1>6, <1>7 DEF Next, Apply, Reconcile
\* What the scripts do to the two files is seen in the window.
LEMMA WindowIs ==
    ASSUME NEW f \in Files
    PROVE  /\ WindowOf(WithoutWindow(f)) = {}
           /\ WindowOf(Confirmed(f)) = {}
           /\ WindowOf(Accepted(f)) = WindowOf(f)
           /\ WindowOf(Rejected(f)) = WindowOf(f)
           /\ WindowOf([f EXCEPT !.reverted = NoFile]) = WindowOf(f)
           /\ WindowOf([WithoutWindow(f) EXCEPT !.applied = NoFile]) = {}
BY DEF WindowOf, WithoutWindow, Confirmed, Accepted, Rejected, Files

LEMMA OutstandingIsOpen ==
    ASSUME NEW f \in Files, gen \in Gens
    PROVE  Outstanding(f) <=> \E w \in WindowOf(f) : w.of = gen
<1>1. gen # NoFile
  BY FirewallAssumption
<1>2. CASE f.pending = NoFile \/ f.stamp = NoFile
  BY <1>1, <1>2 DEF WindowOf, Outstanding
<1>3. CASE f.pending # NoFile /\ f.stamp # NoFile
  <2>1. WindowOf(f) = {[of |-> f.stamp, to |-> f.pending]}
    BY <1>3 DEF WindowOf
  <2>2. (\E w \in WindowOf(f) : w.of = gen) <=> f.stamp = gen
    BY <2>1
  <2>3. QED
    BY <1>3, <2>2 DEF Outstanding
<1>4. QED
  BY <1>2, <1>3

\* The decision of an apply or a repair tidies up and loads nothing.
LEMMA BeginIsTidy ==
    ASSUME FInv, NEW next \in {"snapshot", "repair"}, NEW u, Begin(next, u),
           UNCHANGED blessed
    PROVE  Switch!Tidy
<1>1. files \in Files /\ gen \in Gens
  BY DEF Begin, FInv, TypeOK
<1>2. step = "idle" /\ step' \in {"idle", next} /\ UNCHANGED <<gen, table, Switch!outside>>
  BY DEF Begin, bounds, Switch!outside
<1>3. /\ WindowOf(CleanedFiles) = WindowOf(files) \/
           (WindowOf(CleanedFiles) = {} /\ ~Switch!OpenFor(gen))
      /\ CleanedFiles.reverted = files.reverted \/
           (CleanedFiles.reverted = NoFile /\ gen \notin Guarded)
      /\ CleanedFiles \in Files
  <2>1. CASE gen \notin Guarded
    <3>1. CleanedFiles = [WithoutWindow(files) EXCEPT !.reverted = NoFile]
      BY <2>1 DEF CleanedFiles
    <3>2. CleanedFiles = Confirmed(files)
      BY <3>1 DEF Confirmed
    <3>3. QED
      BY <1>1, <2>1, <3>2, WindowIs, FirewallAssumption
      DEF Switch!OpenFor, Confirmed, WithoutWindow, Files, Hash
  <2>2. CASE gen \in Guarded /\ Stale(files)
    <3>1. CleanedFiles = WithoutWindow(files) /\ ~Switch!OpenFor(gen)
      BY <1>1, <2>2, OutstandingIsOpen DEF CleanedFiles, Stale, Switch!OpenFor
    <3>2. QED
      BY <1>1, <3>1, WindowIs DEF WithoutWindow, Files, Hash, Table
  <2>3. CASE gen \in Guarded /\ ~Stale(files)
    BY <1>1, <2>3 DEF CleanedFiles
  <2>4. QED
    BY <2>1, <2>2, <2>3
<1>4. \/ files' = CleanedFiles
      \/ files' = Accepted(CleanedFiles) /\ CleanedFiles.reverted # gen
  BY DEF Begin, Refused
<1>5. WindowOf(files') = WindowOf(CleanedFiles)
  BY <1>3, <1>4, WindowIs
<1>6. files'.reverted = files.reverted \/
        (files'.reverted = NoFile /\ (files.reverted # gen \/ gen \notin Guarded))
  <2>1. files' = CleanedFiles \/ files'.reverted = NoFile
    BY <1>3, <1>4 DEF Accepted, Files
  <2>2. QED
    BY <1>3, <1>4, <2>1
<1>7. QED
  BY <1>1, <1>2, <1>3, <1>5, <1>6 DEF Switch!Tidy

LEMMA ApplyIsSwitched ==
    ASSUME FInv, BlessedInv, DecidedInv, Apply \/ Reconcile,
           ~Stamp, UNCHANGED blessed
    PROVE  Switch!Next \/ UNCHANGED Switch!vars
<1>1. files \in Files
  BY DEF FInv, TypeOK
<1>2. CASE BeginApply \/ BeginReconcile
  BY <1>2, BeginIsTidy DEF BeginApply, BeginReconcile, Switch!Next
<1>3. CASE Snapshot
  <2>1. /\ step = "snapshot" /\ step' \in {"stamp", "load"}
        /\ gen \in Gens /\ files.reverted # gen
        /\ UNCHANGED <<gen, table, Switch!outside>>
    BY <1>3 DEF Snapshot, DecidedInv, FInv, TypeOK, bounds, Switch!outside
  <2>2. CASE gen \notin Guarded
    BY <1>3, <2>1, <2>2 DEF Snapshot, Switch!vars
  <2>3. CASE gen \in Guarded /\ table = Absent
    <3>1. files' = WithoutWindow(files)
      BY <1>3, <2>3 DEF Snapshot, Taken
    <3>2. WindowOf(files') = {} /\ files'.reverted = files.reverted
      BY <1>1, <3>1, WindowIs DEF WithoutWindow, Files
    <3>3. QED
      BY <2>1, <2>3, <3>2 DEF Switch!CloseEmpty, Switch!Next
  <2>4. CASE gen \in Guarded /\ table # Absent
    <3>1. files' = [files EXCEPT !.pending = table] /\ files.stamp \in {NoFile, gen}
      BY <1>3, <2>4 DEF Snapshot, Taken, DecidedInv
    <3>2. files'.reverted = files.reverted /\ table \in Table \ {Absent}
      BY <1>1, <2>4, <3>1 DEF Files, FInv, TypeOK
    <3>3. CASE files.stamp = gen
      <4>1. WindowOf(files') = {[of |-> gen, to |-> table]}
        BY <1>1, <2>1, <3>1, <3>3, FirewallAssumption
        DEF WindowOf, Files, Table, FInv, TypeOK
      <4>2. blessed' = FALSE
        BY <2>1, <3>3, FirewallAssumption DEF BlessedInv
      <4>3. QED
        BY <2>1, <2>4, <3>2, <4>1, <4>2 DEF Switch!OpenWindow, Switch!Next
    <3>4. CASE files.stamp = NoFile
      <4>1. WindowOf(files') = WindowOf(files)
        BY <1>1, <3>1, <3>4 DEF WindowOf, Files
      <4>2. QED
        BY <2>1, <3>2, <4>1 DEF Switch!vars
    <3>5. QED
      BY <3>1, <3>3, <3>4
  <2>5. QED
    BY <2>2, <2>3, <2>4
<1>4. CASE Load("load", "check") \/ Load("repair", "recheck")
  <2>1. PICK at \in {"load", "repair"}, next \in {"check", "recheck"} : Load(at, next)
    BY <1>4
  <2>2. /\ step \notin {"idle", "restore", "verify"} /\ step' \notin {"restore", "verify"}
        /\ gen \in Gens /\ files.reverted # gen
        /\ UNCHANGED <<gen, files, deploys, meddling>>
    BY <2>1 DEF Load, DecidedInv, FInv, TypeOK
  <2>3. CASE table' = gen /\ UNCHANGED faults
    BY <2>2, <2>3 DEF Switch!Load, Switch!Next, Switch!outside
  <2>4. CASE Fault /\ UNCHANGED table
    BY <2>2, <2>4 DEF Fault, Switch!Interrupt, Switch!Next
  <2>5. QED
    BY <2>1, <2>3, <2>4 DEF Load
<1>5. CASE \/ Check("check", Armed(Accepted(files), units))
           \/ Check("recheck", Ensured(Accepted(files), units))
  <2>1. /\ step \in {"check", "recheck"} /\ step' = "idle"
        /\ gen \in Gens /\ files.reverted # gen
        /\ UNCHANGED <<gen, table, Switch!outside>>
        /\ files' = files \/ files' = Accepted(files)
    BY <1>5 DEF Check, DecidedInv, FInv, TypeOK, bounds, Switch!outside
  <2>2. WindowOf(files') = WindowOf(files)
    BY <1>1, <2>1, WindowIs
  <2>3. files'.reverted \in {files.reverted, NoFile}
    BY <1>1, <2>1 DEF Accepted, Files
  <2>4. QED
    BY <2>1, <2>2, <2>3 DEF Switch!Tidy, Switch!Next
<1>6. QED
  BY <1>2, <1>3, <1>4, <1>5 DEF Apply, Reconcile

\* With its hash the window is there, and nobody has confirmed it.
LEMMA StampIsSwitched ==
    ASSUME FInv, DecidedInv, Stamp, blessed' = FALSE
    PROVE  Switch!Next
<1>1. /\ files \in Files /\ gen \in Guarded /\ gen # NoFile
      /\ files.pending \in Table \ {Absent} /\ files.pending # NoFile
      /\ files.reverted # gen
  BY FirewallAssumption DEF Stamp, DecidedInv, FInv, TypeOK, RevertInv, Files
<1>2. /\ WindowOf(files') = {[of |-> gen, to |-> files.pending]}
      /\ files'.reverted = files.reverted
  BY <1>1 DEF Stamp, WindowOf, Files
<1>3. QED
  BY <1>1, <1>2 DEF Stamp, bounds, Switch!OpenWindow, Switch!Next, Switch!outside

LEMMA RevertIsSwitched ==
    ASSUME FInv, BlessedInv, Elapse \/ Revert, UNCHANGED blessed
    PROVE  Switch!Next \/ UNCHANGED Switch!vars
<1>1. files \in Files
  BY DEF FInv, TypeOK
<1>2. CASE Elapse
  BY <1>2 DEF Elapse, bounds, Switch!vars, Switch!outside
<1>3. CASE BeginRevert
  <2>1. step = "idle" /\ UNCHANGED <<gen, table, Switch!outside>>
    BY <1>3 DEF BeginRevert, bounds, Switch!outside
  <2>2. CASE Outstanding(files) /\ gen \in Guarded
    <3>1. files' = Rejected(files) /\ step' = "restore" /\ Switch!OpenFor(gen)
      BY <1>1, <1>3, <2>2, OutstandingIsOpen, FirewallAssumption
      DEF BeginRevert, Switch!OpenFor
    <3>2. WindowOf(files') = WindowOf(files) /\ files'.reverted = gen
      BY <1>1, <3>1, WindowIs DEF Rejected, Files
    <3>3. ~blessed
      BY <2>2, FirewallAssumption DEF BlessedInv, Outstanding
    <3>4. QED
      BY <2>1, <3>1, <3>2, <3>3 DEF Switch!Expire, Switch!Next
  <2>3. CASE ~(Outstanding(files) /\ gen \in Guarded)
    BY <1>3, <2>1, <2>3 DEF BeginRevert, Switch!vars
  <2>4. QED
    BY <2>2, <2>3
<1>4. CASE Restore
  <2>1. /\ step = "restore" /\ gen \in Gens /\ Outstanding(files)
        /\ UNCHANGED <<gen, deploys, meddling>>
    BY <1>4, FirewallAssumption DEF Restore, FInv, RevertInv
  <2>2. CASE table' = files.pending /\ step' = "verify" /\ UNCHANGED <<files, faults>>
    <3>1. WindowOf(files) = {[of |-> gen, to |-> files.pending]}
      BY <2>1, FirewallAssumption DEF WindowOf, Outstanding
    <3>2. \E w \in WindowOf(files) : table' = w.to
      BY <2>2, <3>1
    <3>3. QED
      BY <2>1, <2>2, <3>2 DEF Switch!PutBack, Switch!Next, Switch!outside
  <2>3. CASE /\ Fault /\ step' = "idle" /\ UNCHANGED table
             /\ files' = [files EXCEPT !.reverted = NoFile]
    <3>1. WindowOf(files') = WindowOf(files) /\ files'.reverted = NoFile
      BY <1>1, <2>3, WindowIs DEF Files
    <3>2. QED
      BY <2>1, <2>3, <3>1 DEF Fault, Switch!RevertFails, Switch!Next
  <2>4. QED
    BY <1>4, <2>2, <2>3 DEF Restore
<1>5. CASE Verify
  <2>1. step = "verify" /\ step' = "idle" /\ UNCHANGED <<gen, table, bounds>>
    BY <1>5 DEF Verify
  <2>2. CASE InForce
    <3>1. files' = [files EXCEPT !.reverted = NoFile]
      BY <1>5, <2>2 DEF Verify
    <3>2. WindowOf(files') = WindowOf(files) /\ files'.reverted = NoFile
      BY <1>1, <3>1, WindowIs DEF Files
    <3>3. QED
      BY <2>1, <2>2, <3>2 DEF InForce, bounds, Switch!RevertFails, Switch!Next
  <2>3. CASE ~InForce
    <3>1. files' = [WithoutWindow(files) EXCEPT !.applied = NoFile]
      BY <1>5, <2>3 DEF Verify
    <3>2. WindowOf(files') = {} /\ files'.reverted = files.reverted
      BY <1>1, <3>1, WindowIs DEF WithoutWindow, Files
    <3>3. QED
      BY <2>1, <2>3, <3>2
      DEF InForce, bounds, Switch!Reverted, Switch!Next, Switch!outside
  <2>4. QED
    BY <2>2, <2>3
<1>6. QED
  BY <1>2, <1>3, <1>4, <1>5 DEF Revert

LEMMA RestIsSwitched ==
    ASSUME FInv,
           \/ Teardown \/ Kill \/ Reboot \/ Restart
           \/ \E g \in Gens \cup {Off} : Deploy(g)
           \/ \E t \in Table : Meddle(t),
           UNCHANGED blessed
    PROVE  Switch!Next \/ UNCHANGED Switch!vars
<1>1. files \in Files
  BY DEF FInv, TypeOK
<1>2. CASE BeginTeardown
  BY <1>2 DEF BeginTeardown, bounds, Switch!vars, Switch!outside
<1>3. CASE Delete
  <2>1. gen = Off /\ step = "delete" /\ step' \notin {"restore", "verify"}
        /\ UNCHANGED <<gen, files, deploys, meddling>>
    BY <1>3 DEF Delete, FInv, TypeOK
  <2>2. CASE table' = Absent /\ UNCHANGED faults
    BY <2>1, <2>2 DEF Switch!TurnOff, Switch!Next, Switch!outside
  <2>3. CASE Fault /\ UNCHANGED table
    BY <2>1, <2>3 DEF Fault, Switch!Interrupt, Switch!Next
  <2>4. QED
    BY <1>3, <2>2, <2>3 DEF Delete
<1>4. CASE Forget
  <2>1. /\ gen = Off /\ step = "forget" /\ step' = "idle"
        /\ UNCHANGED <<gen, table, Switch!outside>>
    BY <1>4 DEF Forget, FInv, TypeOK, bounds, Switch!outside
  <2>2. CASE table # Absent
    BY <1>4, <2>1, <2>2 DEF Forget, Switch!vars
  <2>3. CASE table = Absent
    <3>1. files' = [f \in DOMAIN files |-> NoFile]
      BY <1>4, <2>3 DEF Forget
    <3>2. WindowOf(files') = {} /\ files'.reverted = NoFile
      BY <1>1, <3>1 DEF WindowOf, Files
    <3>3. QED
      BY <2>1, <2>3, <3>2 DEF Switch!TurnOff, Switch!Next
  <2>4. QED
    BY <2>2, <2>3
<1>5. CASE Kill
  BY <1>5 DEF Kill, Fault, Switch!Interrupt, Switch!Next
<1>6. CASE Reboot
  BY <1>6 DEF Reboot, Fault, Switch!PowerLoss, Switch!Next
<1>7. CASE Restart
  BY <1>7 DEF Restart, bounds, Switch!vars, Switch!outside
<1>8. ASSUME NEW g \in Gens \cup {Off}, Deploy(g) PROVE Switch!Deploy
  BY <1>8 DEF Deploy, Switch!Deploy
<1>9. ASSUME NEW t \in Table, Meddle(t) PROVE Switch!Meddle
  BY <1>9 DEF Meddle, Switch!Meddle
<1>10. QED
  BY <1>2, <1>3, <1>4, <1>5, <1>6, <1>7, <1>8, <1>9
  DEF Teardown, Switch!Next

\* A confirmation is seen to be one.
LEMMA ConfirmIsSwitched ==
    ASSUME FInv, Confirm, blessed' = TRUE
    PROVE  Switch!Next
<1>1. files \in Files
  BY DEF FInv, TypeOK
<1>2. WindowOf(files') = {} /\ files'.reverted = NoFile
  BY <1>1, WindowIs DEF Confirm, Confirmed, WithoutWindow, Files
<1>3. QED
  BY <1>2 DEF Confirm, bounds, Switch!Confirm, Switch!Next, Switch!outside

LEMMA StepIsSwitched ==
    ASSUME FInv, BlessedInv, DecidedInv, HistoryNext
    PROVE  Switch!Next \/ UNCHANGED Switch!vars
<1>1. CASE Confirm
  <2>1. blessed' = TRUE
    BY <1>1 DEF HistoryNext
  <2>2. QED
    BY <1>1, <2>1, ConfirmIsSwitched
<1>2. CASE Stamp
  <2>1. ~Confirm
    BY <1>2 DEF Stamp, Confirm
  <2>2. blessed' = FALSE
    BY <1>2, <2>1 DEF HistoryNext
  <2>3. QED
    BY <1>2, <2>2, StampIsSwitched
<1>3. CASE ~Confirm /\ ~Stamp
  <2>1. UNCHANGED blessed
    BY <1>3 DEF HistoryNext, BlessedInv
  <2>2. QED
    BY <1>3, <2>1, ApplyIsSwitched, RevertIsSwitched, RestIsSwitched
    DEF HistoryNext, Next
<1>4. QED
  BY <1>1, <1>2, <1>3

\* FW-5: whatever is interrupted, killed or started again between the scripts'
\* steps, they make one switch of atomic moves between them: no script loads what
\* is rejected or touches the table otherwise than to load, put back or turn off,
\* and none drops the window of the generation installed but a confirmation, a
\* revert that got through, or an apply that finds no table.
THEOREM ScriptsAreASwitch == HistorySpec => RefinesSwitch
<1>1. HistoryInit => DecidedInv /\ Switch!Init
  BY FirewallAssumption DEF HistoryInit, Init, DecidedInv, Switch!Init, WindowOf
<1>2. FInv /\ DecidedInv /\ [HistoryNext]_historyVars => DecidedInv'
  <2>1. CASE UNCHANGED historyVars
    BY <2>1 DEF historyVars, vars, DecidedInv
  <2>2. QED
    BY <2>1, DecidedStep DEF HistoryNext
<1>3. FInv /\ BlessedInv /\ DecidedInv /\ [HistoryNext]_historyVars
        => [Switch!Next]_Switch!vars
  <2>1. CASE UNCHANGED historyVars
    BY <2>1 DEF historyVars, vars, Switch!vars, Switch!outside
  <2>2. QED
    BY <2>1, StepIsSwitched
<1>4. QED
  BY <1>1, <1>2, <1>3, MemoryInvariance, PTL DEF HistorySpec, RefinesSwitch, Switch!Spec
=============================================================================
