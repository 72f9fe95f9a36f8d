------------------------------ MODULE PeerEngine ------------------------------
(***************************************************************************)
(* The peer half of nixnetd's engine: one worker thread per transport      *)
(* (run_transport), the hysteresis and winner state behind the state       *)
(* mutex, the publication order behind io_lock, the managed block of the   *)
(* hosts file, and state.json across crashes and restarts.                 *)
(*                                                                         *)
(* A worker's loop is idle -> recorded -> publish -> save -> idle; each    *)
(* step is one critical section of the code:                               *)
(*    Record   probe_once, state mutex held                                *)
(*    Decide   reconcile takes io_lock, then the state mutex               *)
(*    Publish  the hosts file, then the state mutex for the outcome;       *)
(*             io_lock is released                                         *)
(*    Save     save_state                                                  *)
(* The probe itself holds nothing and changes nothing, so it is the choice *)
(* of Record's result.  Writing status.json is left to another module.     *)
(***************************************************************************)
EXTENDS Selection

CONSTANTS
    Addresses, NoAddr,  \* NoAddr is the empty string
    Specs,              \* the configurations a start may find: the address
                        \* declared for each transport, NoAddr for none
    Execs,              \* transports with an exec probe, which may report an
                        \* address whether one is declared or not
    Policy,             \* onAllDown of a peer
    MaxAge,             \* lastKnownGood.maxAgeSec, 0 for unbounded
    SaveEvery,          \* the 15 seconds between unforced saves
    NoState,            \* state.json missing, unreadable or corrupt
    MaxClock, MaxFaults \* bounds of the model, not of the code

ASSUME PeerAssumption ==
    /\ NoAddr \notin Addresses
    /\ Specs # {} /\ Specs \subseteq [Transports -> Addresses \cup {NoAddr}]
    /\ Execs \subseteq Transports
    /\ Policy \in [Groups -> {"lastKnownGood", "unpublish"}]
    /\ MaxAge \in [Groups -> Int]
    /\ SaveEvery \in Nat /\ MaxClock \in Nat /\ MaxFaults \in Nat

VARIABLES
    running,    \* a nixnetd process exists
    clock,      \* wall clock
    spec,       \* the declared addresses this process was started with
    tr,         \* TransportRuntime of each transport
    grp,        \* Group of each peer
    hostsErr,   \* last_hosts_error is not empty
    pc,         \* what each worker does next
    dirty,      \* a worker's argument to save_state
    io,         \* the worker that holds io_lock
    entries,    \* the block a worker has rendered and not written yet
    lastSave,   \* last_state_write
    hosts,      \* the managed block: the address a peer's names resolve to
    disk,       \* state.json
    faults      \* failures so far, only to bound them

memory == <<spec, tr, grp, hostsErr, pc, dirty, io, entries, lastSave>>
vars == <<running, clock, memory, hosts, disk, faults>>

Addr == Addresses \cup {NoAddr}
Block == [Groups -> Addr]
Runtime == [state : TransportState, succ : Nat, fail : Nat,
            addr : Addr, lastOk : Time]
Group == [winner : Transports \cup {NoTransport}, since : Time,
          confirmed : Time, degraded : BOOLEAN, lpa : Addr]
Snapshot == [tr : [Transports -> Runtime], grp : [Groups -> Group]]

ColdTransport == [state |-> "unknown", succ |-> 0, fail |-> 0,
                  addr |-> NoAddr, lastOk |-> NoTime]
ColdGroup == [winner |-> NoTransport, since |-> NoTime, confirmed |-> NoTime,
              degraded |-> FALSE, lpa |-> NoAddr]

EmptyBlock == [g \in Groups |-> NoAddr]
PeerEntries(gs) == [g \in Groups |-> gs[g].lpa]
\* One peer without an entry is enough.
FaultyNothingToPublish(gs) == \E g \in Groups : gs[g].lpa = NoAddr
NothingToPublish(gs) == \A g \in Groups : gs[g].lpa = NoAddr

-----------------------------------------------------------------------------
(* STALE-2: the age of an entry against its peer's bound. *)

Fresh(g, confirmed, now) ==
    \/ MaxAge[g] <= 0
    \/ confirmed # NoTime /\ now - confirmed <= MaxAge[g]

Withdrawn(group) == [group EXCEPT !.winner = NoTransport, !.lpa = NoAddr]

\* The bound checked once, when the peer goes down.
FaultyAllDownOutcome(g) ==
    LET down == [grp[g] EXCEPT !.degraded = TRUE]
        withdraw ==
            \/ Policy[g] = "unpublish" /\ down.winner # NoTransport
            \/ /\ Policy[g] = "lastKnownGood" /\ down.lpa # NoAddr
               /\ ~grp[g].degraded /\ ~Fresh(g, down.confirmed, clock)
    IN  [group |-> IF withdraw THEN Withdrawn(down) ELSE down,
         passive |-> ~withdraw]

\* decide_action_locked with no candidate: the group and whether the
\* publication is passive.
AllDownOutcome(g) ==
    LET down == [grp[g] EXCEPT !.degraded = TRUE]
        withdraw ==
            \/ Policy[g] = "unpublish" /\ down.winner # NoTransport
            \/ /\ Policy[g] = "lastKnownGood" /\ down.lpa # NoAddr
               /\ ~Fresh(g, down.confirmed, clock)
    IN  [group |-> IF withdraw THEN Withdrawn(down) ELSE down,
         passive |-> ~withdraw]

\* Any tick of the group confirms its entry.
FaultyChosenOutcome(g, n) ==
    LET changed == n # grp[g].winner
        drift == tr[n].addr # NoAddr /\ tr[n].addr # grp[g].lpa
    IN  [group |-> [winner |-> n,
                    since |-> IF changed THEN clock ELSE grp[g].since,
                    confirmed |-> clock,
                    degraded |-> FALSE,
                    lpa |-> IF changed \/ drift THEN tr[n].addr
                                                ELSE grp[g].lpa],
         passive |-> ~changed /\ ~drift]

\* decide_action_locked with n the transport to have as the winner.
ChosenOutcome(g, n) ==
    LET changed == n # grp[g].winner
        drift == tr[n].addr # NoAddr /\ tr[n].addr # grp[g].lpa
    IN  [group |-> [winner |-> n,
                    since |-> IF changed THEN clock ELSE grp[g].since,
                    confirmed |-> tr[n].lastOk,
                    degraded |-> FALSE,
                    lpa |-> IF changed \/ drift THEN tr[n].addr
                                                ELSE grp[g].lpa],
         passive |-> ~changed /\ ~drift]

Outcomes(g) ==
    IF Candidates(g, tr) = {}
    THEN {AllDownOutcome(g)}
    ELSE {ChosenOutcome(g, n) : n \in Chosen(g, tr, grp[g], clock)}

-----------------------------------------------------------------------------
(* load_state: what a start makes of the persisted record. *)

\* kept are the transports whose stable id is still in the configuration.
AddressEdited(t, pt, sp) ==
    sp[t] # NoAddr /\ pt.addr # NoAddr /\ sp[t] # pt.addr

RestoredTransport(t, pt, sp, kept) ==
    IF t \notin kept
    THEN ColdTransport
    ELSE LET addr == IF sp[t] = NoAddr THEN pt.addr ELSE sp[t]
         IN  IF AddressEdited(t, pt, sp)
             THEN [ColdTransport EXCEPT !.addr = addr, !.lastOk = pt.lastOk]
             ELSE [pt EXCEPT !.addr = addr]

\* expire_restored_last_known_good
Expired(g, pg, now) ==
    /\ Policy[g] = "lastKnownGood" /\ pg.lpa # NoAddr
    /\ ~Fresh(g, pg.confirmed, now)

FaultyOrphaned(group) == FALSE
Orphaned(group) == group.winner = NoTransport /\ group.lpa # NoAddr

FaultyWinnerEdited(group, snap, sp) == FALSE
WinnerEdited(group, snap, sp) ==
    /\ group.winner # NoTransport
    /\ AddressEdited(group.winner, snap.tr[group.winner], sp)

RestoredGroup(g, snap, sp, kept, now) ==
    LET pg == snap.grp[g]
        w == IF pg.winner \in kept THEN pg.winner ELSE NoTransport
        read == [pg EXCEPT !.winner = w]
        aged == IF Expired(g, read, now) THEN Withdrawn(read) ELSE read
    IN  IF Orphaned(aged) \/ WinnerEdited(aged, snap, sp)
        THEN [ColdGroup EXCEPT !.degraded = TRUE]
        ELSE aged

-----------------------------------------------------------------------------
Init ==
    /\ running = FALSE
    /\ clock = 0
    /\ spec \in Specs
    /\ tr = [t \in Transports |-> ColdTransport]
    /\ grp = [g \in Groups |-> ColdGroup]
    /\ hostsErr = FALSE
    /\ pc = [t \in Transports |-> "idle"]
    /\ dirty = [t \in Transports |-> FALSE]
    /\ io = NoTransport
    /\ entries = [t \in Transports |-> EmptyBlock]
    /\ lastSave = NoTime
    /\ hosts = EmptyBlock
    /\ disk = NoState
    /\ faults = 0

CanFail == faults < MaxFaults
Fault == CanFail /\ faults' = faults + 1

\* Engine::new, load_state, then run_with_ready up to the spawn of the
\* workers: publish_restored_peers writes unless there is nothing to publish.
Start(sp, kept) ==
    LET restored == IF disk = NoState
                    THEN [tr |-> tr, grp |-> grp]
                    ELSE [tr |-> [t \in Transports |->
                                    RestoredTransport(t, disk.tr[t], sp, kept)],
                          grp |-> [g \in Groups |->
                                    RestoredGroup(g, disk, sp, kept, clock)]]
    IN  /\ ~running
        /\ running' = TRUE
        /\ spec' = sp
        /\ tr' = restored.tr
        /\ grp' = restored.grp
        /\ IF NothingToPublish(restored.grp)
           THEN UNCHANGED <<hosts, hostsErr, faults>>
           ELSE \/ hosts' = PeerEntries(restored.grp) /\ UNCHANGED <<hostsErr, faults>>
                \/ Fault /\ hostsErr' = TRUE
                   /\ hosts' \in {hosts, PeerEntries(restored.grp)}
        /\ UNCHANGED <<clock, pc, dirty, io, entries, lastSave, disk>>

\* An unhealthy result commits its address as well.
FaultyNewAddress(t, healthy, found) ==
    IF found # NoAddr THEN found
    ELSE IF tr[t].addr = NoAddr THEN spec[t] ELSE tr[t].addr

\* Only a healthy result commits the address an exec probe reported.
NewAddress(t, healthy, found) ==
    IF healthy /\ found # NoAddr THEN found
    ELSE IF tr[t].addr = NoAddr THEN spec[t] ELSE tr[t].addr

\* probe_once up to the release of the state mutex.  found is the address the
\* probe reported, NoAddr for every method but exec; a result with an address
\* that is none has become an unhealthy one without.
Record(t, healthy, found) ==
    LET counted == IF healthy THEN Succeeded(t, tr[t], clock) ELSE Failed(t, tr[t])
        addr == NewAddress(t, healthy, found)
    IN  /\ running /\ pc[t] = "idle"
        /\ tr' = [tr EXCEPT ![t] = [counted EXCEPT !.addr = addr]]
        /\ dirty' = [dirty EXCEPT ![t] =
                        counted.state # tr[t].state \/ addr # tr[t].addr]
        /\ pc' = [pc EXCEPT ![t] = "recorded"]
        /\ UNCHANGED <<running, clock, spec, grp, hostsErr, io, entries,
                       lastSave, hosts, disk, faults>>

\* No io_lock.
FaultyLockFree == TRUE
LockFree == io = NoTransport

\* Publication on change only.
FaultySkipped(outcome, gs) == outcome.passive

\* A passive tick does not publish when no peer has an entry.
Skipped(outcome, gs) == outcome.passive /\ NothingToPublish(gs)

\* reconcile, up to the release of the state mutex; a skipped tick releases
\* io_lock as well.
Decide(t, outcome) ==
    LET g == GroupOf[t]
        gs == [grp EXCEPT ![g] = outcome.group]
        before == <<grp[g].winner, grp[g].degraded, grp[g].lpa>>
        after == <<gs[g].winner, gs[g].degraded, gs[g].lpa>>
        skip == Skipped(outcome, gs)
    IN  /\ running /\ pc[t] = "recorded" /\ LockFree
        /\ grp' = gs
        /\ dirty' = [dirty EXCEPT ![t] = @ \/ before # after]
        /\ pc' = [pc EXCEPT ![t] = IF skip THEN "save" ELSE "publish"]
        /\ io' = IF skip THEN NoTransport ELSE t
        /\ entries' = IF skip THEN entries
                                ELSE [entries EXCEPT ![t] = PeerEntries(gs)]
        /\ UNCHANGED <<running, clock, spec, tr, hostsErr, lastSave, hosts,
                       disk, faults>>

\* hosts.publish, then log_publish_error.  A write that fails may have been
\* renamed into place already: the directory is synced after the rename.
\* Another failure than the one reported before is a change as well.
Publish(t) ==
    /\ running /\ pc[t] = "publish"
    /\ \/ hosts' = entries[t] /\ hostsErr' = FALSE /\ UNCHANGED faults
       \/ Fault /\ hostsErr' = TRUE /\ hosts' \in {hosts, entries[t]}
    /\ \E changed \in BOOLEAN :
          /\ hostsErr # hostsErr' => changed
          /\ changed => hostsErr \/ hostsErr'
          /\ dirty' = [dirty EXCEPT ![t] = @ \/ changed]
    /\ pc' = [pc EXCEPT ![t] = "save"]
    /\ io' = NoTransport
    /\ entries' = [entries EXCEPT ![t] = EmptyBlock]
    /\ UNCHANGED <<running, clock, spec, tr, grp, lastSave, disk>>

\* save_state: the writer lock, the throttle, the snapshot and the rename.
Save(t) ==
    LET due == dirty[t] \/ lastSave = NoTime \/ clock - lastSave >= SaveEvery
        snapshot == [tr |-> tr, grp |-> grp]
    IN  /\ running /\ pc[t] = "save"
        /\ \/ due /\ disk' = snapshot /\ lastSave' = clock /\ UNCHANGED faults
           \/ due /\ Fault /\ disk' \in {disk, snapshot} /\ UNCHANGED lastSave
           \/ ~due /\ UNCHANGED <<disk, lastSave, faults>>
        /\ pc' = [pc EXCEPT ![t] = "idle"]
        /\ dirty' = [dirty EXCEPT ![t] = FALSE]
        /\ UNCHANGED <<running, clock, spec, tr, grp, hostsErr, io, entries,
                       hosts>>

Worker(t) ==
    \/ \E healthy \in BOOLEAN, found \in Addr :
        /\ found # NoAddr => t \in Execs
        /\ Record(t, healthy, found)
    \/ \E outcome \in Outcomes(GroupOf[t]) : Decide(t, outcome)
    \/ Publish(t)
    \/ Save(t)

\* The process dies between any two steps.  Its memory is reset here, to the
\* state Engine::new builds, so that every dead state looks the same.
Crash ==
    /\ running /\ Fault
    /\ running' = FALSE
    /\ tr' = [t \in Transports |-> ColdTransport]
    /\ grp' = [g \in Groups |-> ColdGroup]
    /\ hostsErr' = FALSE
    /\ pc' = [t \in Transports |-> "idle"]
    /\ dirty' = [t \in Transports |-> FALSE]
    /\ io' = NoTransport
    /\ entries' = [t \in Transports |-> EmptyBlock]
    /\ lastSave' = NoTime
    /\ UNCHANGED <<clock, spec, hosts, disk>>

\* state.json is lost or corrupted while no process runs; there is no bound
\* but that of crashes.
LoseState ==
    /\ ~running /\ disk # NoState
    /\ disk' = NoState
    /\ UNCHANGED <<running, clock, memory, hosts, faults>>

\* Somebody else empties the managed block.
ClearBlock ==
    /\ hosts # EmptyBlock /\ Fault
    /\ hosts' = EmptyBlock
    /\ UNCHANGED <<running, clock, memory, disk>>

Tick ==
    /\ clock < MaxClock
    /\ clock' = clock + 1
    /\ UNCHANGED <<running, memory, hosts, disk, faults>>

Next ==
    \/ \E sp \in Specs, kept \in SUBSET Transports : Start(sp, kept)
    \/ \E t \in Transports : Worker(t)
    \/ Crash
    \/ LoseState
    \/ ClearBlock
    \/ Tick

Spec == Init /\ [][Next]_vars

\* systemd restarts the daemon (Restart=always); a worker that can run again
\* and again runs: it sleeps one probe interval between ticks and std::sync's
\* mutexes do not pass a waiter over forever; time passes.  Nothing is
\* assumed of the probes' results, and failures are few but not excluded.
Fairness ==
    /\ WF_vars(\E sp \in Specs, kept \in SUBSET Transports : Start(sp, kept))
    /\ \A t \in Transports : SF_vars(Worker(t))
    /\ WF_vars(Tick)

FairSpec == Spec /\ Fairness

-----------------------------------------------------------------------------
\* Every variable has its type, the snapshot on disk included: counters never
\* go below zero and timestamps are times or none.
TypeOK ==
    /\ running \in BOOLEAN
    /\ clock \in Nat
    /\ spec \in Specs
    /\ tr \in [Transports -> Runtime]
    /\ grp \in [Groups -> Group]
    /\ hostsErr \in BOOLEAN
    /\ pc \in [Transports -> {"idle", "recorded", "publish", "save"}]
    /\ dirty \in [Transports -> BOOLEAN]
    /\ io \in Transports \cup {NoTransport}
    /\ entries \in [Transports -> Block]
    /\ lastSave \in Time
    /\ hosts \in Block
    /\ disk \in Snapshot \cup {NoState}
    /\ faults \in Nat

\* The bookkeeping the other invariants rest on: the worker that publishes is
\* the one that holds io_lock, and without a process there is no memory.
LockAndMemory ==
    /\ \A t \in Transports : pc[t] = "publish" <=> io = t
    /\ ~running => /\ io = NoTransport /\ ~hostsErr
                   /\ tr = [t \in Transports |-> ColdTransport]
                   /\ grp = [g \in Groups |-> ColdGroup]

\* Nothing is published, or saved as published, without a winner: the entry
\* of a withdrawn or orphaned peer never outlives its winner, on whichever
\* of the restore, withdrawal and selection paths the winner went away.
EntryHasWinner ==
    \A g \in Groups :
        /\ grp[g].winner = NoTransport => grp[g].lpa = NoAddr
        /\ disk # NoState /\ disk.grp[g].winner = NoTransport
              => disk.grp[g].lpa = NoAddr

\* io_lock keeps publications in order: what its holder has rendered is still
\* what the engine wants published, however many workers recorded results
\* since the state mutex was released.
RenderedIsCurrent ==
    \A t \in Transports : pc[t] = "publish" =>
        io = t /\ entries[t] = PeerEntries(grp)

\* With no publication under way and none that failed, the block holds what
\* every peer last decided -- unless there is nothing to publish, or somebody
\* emptied the block.
BlockIsIntent ==
    running /\ io = NoTransport /\ ~hostsErr
      => \/ PeerEntries(grp) = EmptyBlock
         \/ hosts = PeerEntries(grp)
         \/ hosts = EmptyBlock

\* TF-2: every write of the block is the whole of what the engine wants
\* published at that moment, for all peers, or somebody else emptying it.
WritesAreWhole ==
    [][hosts' # hosts =>
         hosts' = PeerEntries(grp') \/ hosts' = EmptyBlock]_vars

\* TF-1: a winner that is still Up is not replaced by another before minHold
\* has passed since it was selected, even when a restart lies between.
UpgradesAreDamped ==
    [][\A g \in Groups :
         /\ running /\ grp[g].winner \in Candidates(g, tr)
         /\ grp'[g].winner \notin {grp[g].winner, NoTransport}
         => clock - grp[g].since >= MinHold[g]]_vars

\* TF-2: whatever emptied the block or made writes fail, the block comes back
\* to what the engine wants published, again and again.
BlockConverges == []<>(PeerEntries(grp) = EmptyBlock \/ hosts = PeerEntries(grp))

\* TF-1: again and again, a peer with something Up has as its winner the one
\* it should have, or one that minHold still protects.
WinnerSettles ==
    \A g \in Groups :
        []<>(\/ Candidates(g, tr) = {}
             \/ grp[g].winner \in Best(g, tr)
             \/ /\ grp[g].winner \in Candidates(g, tr)
                /\ clock - grp[g].since < MinHold[g])

\* STALE-2, of what the engine wants: an entry does not stay selected past its
\* bound while every transport of its peer remains without a success.
StaleIsWithdrawn ==
    \A g \in Groups :
        <>[](Candidates(g, tr) = {})
          => []<>(\/ Policy[g] = "lastKnownGood" /\ Fresh(g, grp[g].confirmed, clock)
                 \/ grp[g].lpa = NoAddr)

\* STALE-2 as BEHAVIORS.md words it: an entry whose bound ran out across a
\* restart "that restored it from disk" is withdrawn -- once the start is
\* through, and its publication did not fail, names no longer resolve to it.
ExpiryAcrossRestartReachesTheFile ==
    [][~running /\ running' /\ disk # NoState /\ ~hostsErr'
         => \A g \in Groups :
              Expired(g, disk.grp[g], clock) => hosts'[g] # disk.grp[g].lpa]_vars
=============================================================================
