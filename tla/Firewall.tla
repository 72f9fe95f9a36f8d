------------------------------- MODULE Firewall -------------------------------
(***************************************************************************)
(* The lifecycle of nixnet's packet filter: the shell units that apply,    *)
(* reconcile, revert and tear down the one nftables table, the command     *)
(* that confirms it, and the files and timer they share.                   *)
(*                                                                         *)
(* Every script takes one lock first, so at most one is under way; step    *)
(* says where it is, "idle" when the lock is free.  The lock keeps scripts *)
(* apart, not the rest of the world: between two steps the kernel's table  *)
(* may be flushed, emptied or replaced, the script may be killed and the   *)
(* host may lose power.                                                    *)
(*                                                                         *)
(* A generation is one deployed configuration, which stands for its        *)
(* ruleset and the hash the ruleset is known by.  Counters and metrics     *)
(* are left out: no script decides on them.                                *)
(***************************************************************************)
EXTENDS Naturals

CONSTANTS
    Gens,       \* generations with the firewall enabled
    Guarded,    \* those of them with autoRevert.enable
    Off,        \* a generation with the firewall disabled
    Absent,     \* no table in the kernel
    Emptied,    \* a table that `nft flush table` has emptied
    NoFile,     \* a state file that does not exist
    MaxDeploys, MaxMeddling, MaxFaults  \* bounds of the model, not of the code

ASSUME FirewallAssumption ==
    /\ Guarded \subseteq Gens
    /\ Off \notin Gens
    /\ Absent \notin Gens \cup {Emptied} /\ Emptied \notin Gens
    /\ NoFile \notin Gens \cup {Absent, Emptied}
    /\ MaxDeploys \in Nat /\ MaxMeddling \in Nat /\ MaxFaults \in Nat

VARIABLES
    gen,        \* the generation whose units are installed
    table,      \* the kernel's table: a generation's rules, Emptied or Absent
    files,      \* /var/lib/nixnet-firewall
    units,      \* systemd: the revert timer and the jobs that wait for the lock
    step,       \* where the script that holds the lock is
    deploys, meddling, faults  \* only to bound them

vars == <<gen, table, files, units, step, deploys, meddling, faults>>
bounds == <<deploys, meddling, faults>>

Table == Gens \cup {Absent, Emptied}
Hash == Gens \cup {NoFile}
\* pending is the snapshot a revert restores, stamp the pending-hash that
\* says whose window it belongs to.
Files == [pending : Table \cup {NoFile}, stamp : Hash, reverted : Hash,
          applied : Hash]
\* timer: the countdown runs.  due: it has elapsed and the revert service
\* was started.  start: the apply unit was started.
Units == [timer : BOOLEAN, due : BOOLEAN, start : BOOLEAN]
Steps == {"idle", "snapshot", "stamp", "load", "check", "repair", "recheck",
          "restore", "verify", "delete", "forget"}

-----------------------------------------------------------------------------
(* The shell functions the scripts share. *)

\* The table alone, not whose it is.
FaultyInForce == table # Absent
InForce == table = gen

Cancelled(u) == [u EXCEPT !.timer = FALSE, !.due = FALSE]

\* A snapshot and its hash, both there and of the installed generation.
Outstanding(f) == f.pending # NoFile /\ f.stamp = gen

\* What only one of the two files is left of, or another generation's.
Stale(f) == (f.pending # NoFile \/ f.stamp # NoFile) /\ ~Outstanding(f)

WithoutWindow(f) == [f EXCEPT !.pending = NoFile, !.stamp = NoFile]

\* The first lines of apply and reconcile, nixnet_clean_stale_revert with them.
CleanedFiles ==
    IF gen \notin Guarded THEN [WithoutWindow(files) EXCEPT !.reverted = NoFile]
    ELSE IF Stale(files) THEN WithoutWindow(files)
    ELSE files
CleanedUnits ==
    IF gen \in Guarded /\ Stale(files) THEN Cancelled(units) ELSE units

\* The guard is forgotten.
FaultyRefused(f) == FALSE
Refused(f) == f.reverted = gen

\* Only an apply starts the countdown.
FaultyEnsured(f, u) == u
\* nixnet_ensure_revert: the countdown of an outstanding window runs.  A revert
\* that waits for the lock is "activating", which is-active does not count.
Ensured(f, u) ==
    [u EXCEPT !.timer = @ \/ (gen \in Guarded /\ Outstanding(f))]

\* nixnet_arm_revert, at the end of an apply.
Armed(f, u) == [u EXCEPT !.timer = @ \/ (gen \in Guarded /\ Outstanding(f))]

\* A restart in force is taken for a confirmation.
FaultyAccepted(f) == [WithoutWindow(f) EXCEPT !.applied = gen, !.reverted = NoFile]
Accepted(f) == [f EXCEPT !.applied = gen, !.reverted = NoFile]

Rejected(f) == [f EXCEPT !.reverted = gen]

-----------------------------------------------------------------------------
Init ==
    /\ gen \in Gens \cup {Off}
    /\ table = Absent
    /\ files = [pending |-> NoFile, stamp |-> NoFile, reverted |-> NoFile,
                applied |-> NoFile]
    /\ units = [timer |-> FALSE, due |-> FALSE, start |-> TRUE]
    /\ step = "idle"
    /\ deploys = 0 /\ meddling = 0 /\ faults = 0

Fault == faults < MaxFaults /\ faults' = faults + 1

\* apply and reconcile up to their decision: a rejected generation stays as it
\* is, one in force is accepted, another goes on at next.
Begin(next, u) ==
    LET f == CleanedFiles
    IN  /\ step = "idle" /\ gen \in Gens
        /\ IF Refused(f)
           THEN files' = f /\ units' = u /\ step' = "idle"
           ELSE IF InForce
           THEN files' = Accepted(f) /\ units' = Ensured(f, u) /\ step' = "idle"
           ELSE /\ files' = f /\ step' = next
                /\ units' = IF next = "snapshot" /\ gen \in Guarded
                            THEN Cancelled(u) ELSE u
        /\ UNCHANGED <<gen, table, bounds>>

BeginApply ==
    units.start /\ Begin("snapshot", [CleanedUnits EXCEPT !.start = FALSE])
BeginReconcile == Begin("repair", CleanedUnits)

\* A restore file that only deletes the table.
FaultyTaken == [files EXCEPT !.pending = table]
\* Nothing to restore, nothing to arm.
Taken == IF table = Absent THEN WithoutWindow(files)
                           ELSE [files EXCEPT !.pending = table]

Snapshot ==
    /\ step = "snapshot"
    /\ files' = IF gen \in Guarded THEN Taken ELSE files
    /\ step' = IF gen \in Guarded /\ table # Absent THEN "stamp" ELSE "load"
    /\ UNCHANGED <<gen, table, units, bounds>>

Stamp ==
    /\ step = "stamp"
    /\ files' = [files EXCEPT !.stamp = gen]
    /\ step' = "load"
    /\ UNCHANGED <<gen, table, units, bounds>>

\* `nft -f` of the generation's ruleset, one transaction.
Load(at, next) ==
    /\ step = at
    /\ \/ table' = gen /\ step' = next /\ UNCHANGED faults
       \/ Fault /\ step' = "idle" /\ UNCHANGED table
    /\ UNCHANGED <<gen, files, units, deploys, meddling>>

\* The marker is read back before anything is recorded.
Check(at, accepted) ==
    /\ step = at
    /\ IF InForce THEN files' = Accepted(files) /\ units' = accepted
                  ELSE UNCHANGED <<files, units>>
    /\ step' = "idle"
    /\ UNCHANGED <<gen, table, bounds>>

Apply ==
    \/ BeginApply \/ Snapshot \/ Stamp
    \/ Load("load", "check")
    \/ Check("check", Armed(Accepted(files), units))

Reconcile ==
    \/ BeginReconcile
    \/ Load("repair", "recheck")
    \/ Check("recheck", Ensured(Accepted(files), units))

\* The countdown elapses.
Elapse ==
    /\ units.timer
    /\ units' = [units EXCEPT !.timer = FALSE, !.due = TRUE]
    /\ UNCHANGED <<gen, table, files, step, bounds>>

\* The stand-down is recorded before the snapshot is restored.
BeginRevert ==
    /\ step = "idle" /\ units.due
    /\ units' = [units EXCEPT !.due = FALSE]
    /\ IF Outstanding(files) /\ gen \in Guarded
       THEN files' = Rejected(files) /\ step' = "restore"
       ELSE UNCHANGED <<files, step>>
    /\ UNCHANGED <<gen, table, bounds>>

Restore ==
    /\ step = "restore"
    /\ \/ table' = files.pending /\ step' = "verify" /\ UNCHANGED <<files, faults>>
       \/ /\ Fault /\ step' = "idle" /\ UNCHANGED table
          /\ files' = [files EXCEPT !.reverted = NoFile]
    /\ UNCHANGED <<gen, units, deploys, meddling>>

Verify ==
    /\ step = "verify"
    /\ files' = IF InForce
                THEN [files EXCEPT !.reverted = NoFile]
                ELSE [WithoutWindow(files) EXCEPT !.applied = NoFile]
    /\ step' = "idle"
    /\ UNCHANGED <<gen, table, units, bounds>>

Revert == BeginRevert \/ Restore \/ Verify

BeginTeardown ==
    /\ step = "idle" /\ units.start /\ gen = Off
    /\ units' = [Cancelled(units) EXCEPT !.start = FALSE]
    /\ step' = "delete"
    /\ UNCHANGED <<gen, table, files, bounds>>

Delete ==
    /\ step = "delete"
    /\ \/ table' = Absent /\ step' = "forget" /\ UNCHANGED faults
       \/ Fault /\ step' = "idle" /\ UNCHANGED table
    /\ UNCHANGED <<gen, files, units, deploys, meddling>>

Forget ==
    /\ step = "forget"
    /\ files' = IF table # Absent THEN files
                ELSE [f \in DOMAIN files |-> NoFile]
    /\ step' = "idle"
    /\ UNCHANGED <<gen, table, units, bounds>>

Teardown == BeginTeardown \/ Delete \/ Forget

\* The snapshot is left behind.
FaultyConfirmed(f) == [f EXCEPT !.reverted = NoFile]
Confirmed(f) == [WithoutWindow(f) EXCEPT !.reverted = NoFile]

\* nixnet-firewall-confirm; a revert that waits for the lock is stopped.
Confirm ==
    /\ step = "idle" /\ gen \in Guarded
    /\ files' = Confirmed(files)
    /\ units' = Cancelled(units)
    /\ UNCHANGED <<gen, table, step, bounds>>

-----------------------------------------------------------------------------
(* The world around the scripts. *)

\* A unit's script is killed, by its timeout or by hand.
Kill ==
    /\ step # "idle" /\ Fault
    /\ step' = "idle"
    /\ UNCHANGED <<gen, table, files, units, deploys, meddling>>

\* Power is lost.  The kernel's table and the timer go with it, the files do
\* not; the apply unit runs at boot.
Reboot ==
    /\ Fault
    /\ table' = Absent
    /\ units' = [timer |-> FALSE, due |-> FALSE, start |-> TRUE]
    /\ step' = "idle"
    /\ UNCHANGED <<gen, files, deploys, meddling>>

\* External: a switch to another configuration.  Units whose text has changed
\* are stopped if they are running, then the apply unit is started; a timer
\* that is no longer declared is stopped.
Deploy(g) ==
    /\ g # gen
    /\ deploys < MaxDeploys /\ deploys' = deploys + 1
    /\ gen' = g
    /\ step' = "idle"
    /\ units' = [timer |-> units.timer /\ g \in Guarded, due |-> FALSE,
                 start |-> TRUE]
    /\ UNCHANGED <<table, files, meddling, faults>>

\* External: the apply unit is restarted by hand.
Restart ==
    /\ ~units.start
    /\ units' = [units EXCEPT !.start = TRUE]
    /\ UNCHANGED <<gen, table, files, step, bounds>>

\* External: `nft flush ruleset`, `nft flush table`, or a ruleset loaded by hand.
Meddle(t) ==
    /\ t = Emptied => table # Absent
    /\ t # table
    /\ meddling < MaxMeddling /\ meddling' = meddling + 1
    /\ table' = t
    /\ UNCHANGED <<gen, files, units, step, deploys, faults>>

Next ==
    \/ Apply \/ Reconcile \/ Elapse \/ Revert \/ Teardown \/ Confirm
    \/ Kill \/ Reboot \/ Restart
    \/ \E g \in Gens \cup {Off} : Deploy(g)
    \/ \E t \in Table : Meddle(t)

Spec == Init /\ [][Next]_vars

\* systemd runs what was started and fires the timers, the reconcile timer
\* again and again; a script that has the lock goes on.  Nobody has to confirm.
Fairness ==
    /\ WF_vars(Snapshot \/ Stamp \/ Load("load", "check")
                 \/ Check("check", Armed(Accepted(files), units))
                 \/ Load("repair", "recheck")
                 \/ Check("recheck", Ensured(Accepted(files), units))
                 \/ Restore \/ Verify \/ Delete \/ Forget)
    /\ SF_vars(BeginApply) /\ SF_vars(BeginReconcile)
    /\ SF_vars(BeginRevert) /\ SF_vars(BeginTeardown)
    /\ WF_vars(Elapse)

FairSpec == Spec /\ Fairness

-----------------------------------------------------------------------------
\* Every variable has its type, and a script runs for the generation it is of.
TypeOK ==
    /\ gen \in Gens \cup {Off}
    /\ table \in Table
    /\ files \in Files
    /\ units \in Units
    /\ step \in Steps
    /\ step \in {"delete", "forget"} => gen = Off
    /\ step \notin {"idle", "delete", "forget"} => gen \in Gens
    /\ deploys \in Nat /\ meddling \in Nat /\ faults \in Nat

\* FW-3, FW-5: no script of an enabled firewall takes the table away, whatever
\* failed, was killed or was meddled with before; a revert never restores
\* "no firewall".
NeverUnfirewalled ==
    [][table # Absent /\ table' = Absent /\ meddling' = meddling /\ faults' = faults
         => step = "delete"]_vars

\* FW-4: again and again the installed generation is in force, unless the
\* dead-man switch has rejected it or the firewall is off.
Repaired == []<>(gen = Off \/ files.reverted = gen \/ table = gen)
=============================================================================
