------------------------------ MODULE Snapshots ------------------------------
(***************************************************************************)
(* The two files that copy the engine's memory: state.json for the next    *)
(* process and status.json for nixnetctl.  At the end of every tick a      *)
(* worker saves and then shows the state, each under a writer lock that it *)
(* holds from the snapshot to the rename; a tick that changed nothing may  *)
(* be coalesced with an earlier one.                                       *)
(*                                                                         *)
(* The memory is a version, which numbers its changes (what every tick     *)
(* refreshes, counters and times, is not counted), and whether all is well *)
(* with it: a process vouches for it, no group is degraded or without a    *)
(* winner, no publication failed.  Times count from now and stop where     *)
(* they no longer matter, so that time never ends.                         *)
(***************************************************************************)
EXTENDS Integers

CONSTANTS
    Workers, NoWorker,
    SaveEvery,  \* unforced saves are this far apart
    ShowEvery,  \* and unforced writes of status.json this far
    Ttl,        \* status_ttl
    Never,      \* this process has not written yet
    MaxVersion, MaxFaults   \* bounds of the model, not of the code

ASSUME SnapshotsAssumption ==
    /\ NoWorker \notin Workers
    /\ SaveEvery \in Nat /\ ShowEvery \in Nat /\ Ttl \in Nat
    /\ Never \notin Nat
    /\ MaxVersion \in Nat /\ MaxFaults \in Nat

VARIABLES
    running,    \* there is a process
    version, well,          \* the engine's memory
    pc,         \* where each worker is in its tick
    force,      \* what it writes whatever was written before
    taken,      \* the snapshot it is about to write
    saver, shower,          \* the holders of the two writer locks
    sinceSave, sinceShow,   \* time since the last write, Never
    disk,       \* state.json: its version, 0 for no file
    status,     \* status.json: version, whether it is well, time left
    faults,     \* only to bound them
    due,        \* the last change that has to be shown at once,
    missed,     \* the files whose last write failed, and the time since
    unwell      \* all was well (three for the properties)

memory == <<version, well>>
locks == <<saver, shower, sinceSave, sinceShow>>
history == <<due, missed, unwell>>
vars == <<running, memory, pc, force, taken, locks, disk, status, faults,
          history>>

NoStatus == [version |-> 0, well |-> FALSE, left |-> -1]
NoForce == [save |-> FALSE, show |-> FALSE]
Stages == {"idle", "probed", "publishing", "save", "saving", "show", "showing"}

\* The values of the variables.
TypeOK ==
    /\ running \in BOOLEAN
    /\ version \in Nat /\ well \in BOOLEAN
    /\ pc \in [Workers -> Stages]
    /\ force \in [Workers -> [save : BOOLEAN, show : BOOLEAN]]
    /\ taken \in [Workers -> [version : Nat, well : BOOLEAN, left : -1..Ttl]]
    /\ saver \in Workers \cup {NoWorker} /\ shower \in Workers \cup {NoWorker}
    /\ sinceSave \in {Never} \cup 0..SaveEvery
    /\ sinceShow \in {Never} \cup 0..ShowEvery
    /\ disk \in Nat
    /\ status \in [version : Nat, well : BOOLEAN, left : -1..Ttl]
    /\ faults \in Nat
    /\ due \in Nat /\ missed \subseteq {"save", "show"}
    /\ unwell \in 0..(Ttl + 1)

Init ==
    /\ running = FALSE
    /\ version = 0 /\ well = FALSE
    /\ pc = [w \in Workers |-> "idle"]
    /\ force = [w \in Workers |-> NoForce]
    /\ taken = [w \in Workers |-> NoStatus]
    /\ saver = NoWorker /\ shower = NoWorker
    /\ sinceSave = Never /\ sinceShow = Never
    /\ disk = 0 /\ status = NoStatus
    /\ faults = 0
    /\ due = 0 /\ missed = {} /\ unwell = Ttl + 1

At(w, from, to) == pc[w] = from /\ pc' = [pc EXCEPT ![w] = to]
Fault == faults < MaxFaults /\ faults' = faults + 1
Copy(v, ok) == [version |-> v, well |-> ok, left |-> Ttl]
Change(ok) ==
    /\ version' = version + 1 /\ well' = ok
    /\ unwell' = IF ok THEN 0 ELSE unwell

-----------------------------------------------------------------------------
\* load_state and write_status(true), before there are workers.  What is
\* loaded is a state of its own; a write that fails is only logged.
Start ==
    /\ ~running /\ running' = TRUE
    /\ \E ok \in BOOLEAN : Change(ok)
    /\ due' = version'
    /\ \/ /\ status' = Copy(version', well')
          /\ sinceShow' = 0 /\ missed' = {} /\ UNCHANGED faults
       \/ Fault /\ missed' = {"show"} /\ UNCHANGED <<status, sinceShow>>
    /\ UNCHANGED <<pc, force, taken, saver, shower, sinceSave, disk>>

\* What each change forces: an address that is only remembered need not be
\* shown.
FaultyForces(kind) ==
    [save |-> kind = "transition", show |-> kind = "transition"]
Forces(kind) == [save |-> kind # "none", show |-> kind = "transition"]

\* probe_once up to the end of its critical section.
Probe(w, kind) ==
    /\ running /\ At(w, "idle", "probed")
    /\ force' = [force EXCEPT ![w] = Forces(kind)]
    /\ IF kind = "none" THEN UNCHANGED <<version, due>>
       ELSE /\ version < MaxVersion /\ version' = version + 1
            /\ due' = IF kind = "transition" THEN version' ELSE due
    /\ UNCHANGED <<running, well, taken, locks, disk, status, faults, missed,
                   unwell>>

\* reconcile, with io_lock: the winner or the degradation changes when it
\* decides, and the publication's error after it has published.
Update(w, changed) ==
    /\ IF ~changed THEN UNCHANGED <<memory, force, due, unwell>>
       ELSE /\ version < MaxVersion /\ \E ok \in BOOLEAN : Change(ok)
            /\ force' = [force EXCEPT ![w] = Forces("transition")]
            /\ due' = version'
    /\ UNCHANGED <<running, taken, locks, disk, status, faults, missed>>
Decide(w, changed) ==
    /\ \A v \in Workers : pc[v] # "publishing"
    /\ At(w, "probed", "publishing") /\ Update(w, changed)
Published(w, changed) == At(w, "publishing", "save") /\ Update(w, changed)
Reconcile(w, changed) == Decide(w, changed) \/ Published(w, changed)

\* Neither forced nor due.
Coalesced(forced, since, every) == ~forced /\ since # Never /\ since < every

\* A window that every skipped tick pushes on.
FaultySaveSkipped(w) ==
    /\ saver = NoWorker
    /\ Coalesced(force[w].save, sinceSave, SaveEvery)
    /\ At(w, "save", "show")
    /\ sinceSave' = 0
    /\ UNCHANGED <<running, memory, force, taken, saver, shower, sinceShow,
                   disk, status, faults, history>>
SaveSkipped(w) ==
    /\ saver = NoWorker
    /\ Coalesced(force[w].save, sinceSave, SaveEvery)
    /\ At(w, "save", "show")
    /\ UNCHANGED <<running, memory, force, taken, locks, disk, status, faults,
                   history>>

\* save_state to serialized_state.  The fault: the writer lock is only taken
\* for the time of the last write.
FaultySave(w) ==
    /\ ~Coalesced(force[w].save, sinceSave, SaveEvery)
    /\ At(w, "save", "saving")
    /\ saver' = w /\ taken' = [taken EXCEPT ![w].version = version]
    /\ UNCHANGED <<running, memory, force, shower, sinceSave, sinceShow, disk,
                   status, faults, history>>
Save(w) ==
    /\ saver = NoWorker
    /\ ~Coalesced(force[w].save, sinceSave, SaveEvery)
    /\ At(w, "save", "saving")
    /\ saver' = w /\ taken' = [taken EXCEPT ![w].version = version]
    /\ UNCHANGED <<running, memory, force, shower, sinceSave, sinceShow, disk,
                   status, faults, history>>

\* The rename, and its failure: before it, or in the sync after it.
Saved(w) ==
    /\ At(w, "saving", "show") /\ saver' = NoWorker
    /\ \/ /\ disk' = taken[w].version /\ sinceSave' = 0
          /\ missed' = missed \ {"save"} /\ UNCHANGED faults
       \/ /\ Fault /\ disk' \in {disk, taken[w].version}
          /\ missed' = missed \cup {"save"} /\ UNCHANGED sinceSave
    /\ taken' = [taken EXCEPT ![w] = NoStatus]
    /\ UNCHANGED <<running, memory, force, shower, sinceShow, status, due,
                   unwell>>

ShowSkipped(w) ==
    /\ shower = NoWorker
    /\ Coalesced(force[w].show, sinceShow, ShowEvery)
    /\ At(w, "show", "idle") /\ force' = [force EXCEPT ![w] = NoForce]
    /\ UNCHANGED <<running, memory, taken, locks, disk, status, faults, history>>

\* write_status; status::write stamps the document a few instructions after
\* the snapshot, which is taken as one instant.
Show(w) ==
    /\ shower = NoWorker
    /\ ~Coalesced(force[w].show, sinceShow, ShowEvery)
    /\ At(w, "show", "showing")
    /\ shower' = w /\ taken' = [taken EXCEPT ![w] = Copy(version, well)]
    /\ UNCHANGED <<running, memory, force, saver, sinceSave, sinceShow, disk,
                   status, faults, history>>

Shown(w) ==
    /\ At(w, "showing", "idle") /\ shower' = NoWorker
    /\ force' = [force EXCEPT ![w] = NoForce]
    /\ taken' = [taken EXCEPT ![w] = NoStatus]
    /\ \/ /\ status' = taken[w] /\ sinceShow' = 0
          /\ missed' = missed \ {"show"} /\ UNCHANGED faults
       \/ /\ Fault /\ status' \in {status, taken[w]}
          /\ missed' = missed \cup {"show"} /\ UNCHANGED sinceShow
    /\ UNCHANGED <<running, memory, saver, sinceSave, disk, due, unwell>>

\* The process dies, and with it the memory and the snapshots.
Crash ==
    /\ running /\ Fault /\ running' = FALSE
    /\ well' = FALSE /\ UNCHANGED version
    /\ pc' = [w \in Workers |-> "idle"]
    /\ force' = [w \in Workers |-> NoForce]
    /\ taken' = [w \in Workers |-> NoStatus]
    /\ saver' = NoWorker /\ shower' = NoWorker
    /\ sinceSave' = Never /\ sinceShow' = Never
    /\ UNCHANGED <<disk, status, history>>

Older(since, limit) ==
    IF since = Never \/ since = limit THEN since ELSE since + 1
Closer(left) == IF left = -1 THEN -1 ELSE left - 1
Tick ==
    /\ sinceSave' = Older(sinceSave, SaveEvery)
    /\ sinceShow' = Older(sinceShow, ShowEvery)
    /\ status' = [status EXCEPT !.left = Closer(@)]
    /\ taken' = [w \in Workers |-> [taken[w] EXCEPT !.left = Closer(@)]]
    /\ unwell' = IF well THEN 0 ELSE Older(unwell, Ttl + 1)
    /\ UNCHANGED <<running, memory, pc, force, saver, shower, disk, faults,
                   due, missed>>

Next ==
    \/ Start \/ Crash \/ Tick
    \/ \E w \in Workers :
        \/ \E kind \in {"none", "address", "transition"} : Probe(w, kind)
        \/ \E changed \in BOOLEAN : Reconcile(w, changed)
        \/ SaveSkipped(w) \/ Save(w) \/ Saved(w)
        \/ ShowSkipped(w) \/ Show(w) \/ Shown(w)

Spec == Init /\ [][Next]_vars

\* Clocks never stop, systemd restarts the process, a worker ticks for ever
\* and its writes end.  The locks are not fair: a worker that waits for one
\* need never be the next.
FairSpec ==
    /\ Spec /\ WF_vars(Tick) /\ WF_vars(Start)
    /\ \A w \in Workers :
        /\ WF_vars(Probe(w, "none")) /\ WF_vars(Reconcile(w, FALSE))
        /\ WF_vars(SaveSkipped(w) \/ Save(w)) /\ WF_vars(Saved(w))
        /\ WF_vars(ShowSkipped(w) \/ Show(w)) /\ WF_vars(Shown(w))

-----------------------------------------------------------------------------
(* Properties. *)

\* Both files may be late, but always tell a state that the memory had, and no
\* interleaving of two workers, failure or restart puts an older one back over
\* a newer.
StateFile == INSTANCE LaggingCopy WITH original <- version, copy <- disk
StatusFile ==
    INSTANCE LaggingCopy WITH original <- version, copy <- status.version
FilesLag == StateFile!Spec /\ StatusFile!Spec

\* A change of the memory that is not in state.json is on its way: a worker
\* is going to save whatever was saved before, or the last save failed, or
\* the process has not saved yet.  Coalescing never drops it.
Pending(w) == pc[w] \in {"probed", "publishing", "save"} /\ force[w].save
ChangesAreSaved ==
    running /\ sinceSave # Never /\ "save" \notin missed =>
        \/ disk = version
        \/ \E w \in Workers :
            Pending(w) \/ (pc[w] = "saving" /\ taken[w].version = version)

\* And a change of health or of what is published reaches status.json the
\* same way.
ToShow(w) ==
    /\ pc[w] \in {"probed", "publishing", "save", "saving", "show"}
    /\ force[w].show
TransitionsAreShown ==
    running /\ "show" \notin missed =>
        \/ status.version >= due
        \/ \E w \in Workers :
            ToShow(w) \/ (pc[w] = "showing" /\ taken[w].version >= due)

\* What has to be written is written, or about to be.
NothingIsDropped == ChangesAreSaved /\ TransitionsAreShown

\* nixnetctl, read now: is_healthy_at.
FaultyHealthy == status.well
Healthy == status.left >= 0 /\ status.well

\* When nixnetctl says that all is well, all was well at most Ttl ago, also
\* if the writer is stuck in its rename or the process is dead.
GreenIsRecent == Healthy => unwell <= Ttl

\* Failed and coalesced writes are made up for: once the changes and the
\* failures stop, both files come to tell all of them.
CatchesUp == <>[](disk = version /\ status.version = version)
=============================================================================
