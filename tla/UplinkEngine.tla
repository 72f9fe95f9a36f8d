----------------------------- MODULE UplinkEngine -----------------------------
(***************************************************************************)
(* The uplink half of nixnetd's engine and its RoutePublisher: a worker    *)
(* per transport ranks the interfaces of its group and moves their default *)
(* routes to the metrics of that ranking, one `ip` command at a time,      *)
(* against a kernel table that DHCP clients write as well.                 *)
(*                                                                         *)
(* A worker's loop is idle -> recorded -> publish -> save -> idle as it is *)
(* for peers.  Within publish, RoutePublisher::apply takes the interfaces  *)
(* in rank order and for each of them                                      *)
(*    show      reads its default routes back                              *)
(*    replace   installs the one at the metric of its rank                 *)
(*    delete    removes the others                                         *)
(* with io_lock held, the state mutex not, and nothing that keeps a DHCP   *)
(* client from writing in between.  At a start the main thread does the    *)
(* same for the restored winners, before there are workers.                *)
(*                                                                         *)
(* Every route has a gateway here and no transport of an uplink declares   *)
(* an address.                                                             *)
(***************************************************************************)
EXTENDS Selection, FiniteSets

CONSTANTS
    Devices,            \* network interfaces
    Device,             \* the interface of a transport
    Base, Step,         \* publish.metricBase and metricStep of a group
    Gateways,           \* the gateways a lease of an interface may name
    NoGateway,          \* an interface without a lease
    LeaseMetric,        \* the metric an interface's DHCP client installs at
    Main,               \* the main thread, as a holder of the publisher
    SaveEvery,          \* the 15 seconds between unforced saves
    NoState,            \* state.json missing, unreadable or corrupt
    MaxClock, MaxFaults, MaxForeign, \* bounds of the model, not of the code:
    MaxTrouble          \* the last is of failures and foreign writes together

\* validate(): every uplink transport has an interface, and the step is
\* positive.  Configurations are finite.
ASSUME UplinkAssumption ==
    /\ IsFiniteSet(Transports)
    /\ Device \in [Transports -> Devices]
    /\ Base \in [Groups -> Int]
    /\ Step \in [Groups -> Nat \ {0}]
    /\ \A d \in Devices : NoGateway \notin Gateways[d]
    /\ LeaseMetric \in [Devices -> Nat]
    /\ Main \notin Transports \cup {NoTransport}
    /\ SaveEvery \in Nat
    /\ MaxClock \in Nat /\ MaxFaults \in Nat /\ MaxForeign \in Nat /\ MaxTrouble \in Nat

VARIABLES
    running,    \* a nixnetd process exists
    clock,      \* wall clock
    tr,         \* TransportRuntime of each transport
    grp,        \* Group of each uplink
    pc,         \* what each worker does next
    dirty,      \* a worker's argument to save_state
    io,         \* who publishes: a worker with io_lock, or Main at a start
    job,        \* the apply in progress
    lastSave,   \* last_state_write
    disk,       \* state.json
    table,      \* the kernel's default routes
    lease,      \* the gateway each interface's DHCP client was given
    faults,     \* failures so far, only to bound them
    foreign     \* what DHCP did so far, only to bound it

memory == <<tr, grp, pc, dirty, io, job, lastSave>>
kernel == <<table, lease>>
vars == <<running, clock, memory, disk, kernel, faults, foreign>>

AllGateways == UNION {Gateways[d] : d \in Devices}
Routes == [dev : Devices, via : AllGateways, metric : Int]
Runtime == [state : TransportState, succ : Nat, fail : Nat, lastOk : Time]
Group == [winner : Transports \cup {NoTransport}, since : Time,
          confirmed : Time, degraded : BOOLEAN, failed : BOOLEAN]
ColdTransport == [state |-> "unknown", succ |-> 0, fail |-> 0, lastOk |-> NoTime]
ColdGroup == [winner |-> NoTransport, since |-> NoTime, confirmed |-> NoTime,
              degraded |-> FALSE, failed |-> FALSE]
\* What the publisher has in hand: the groups after this one (at a start),
\* its group, the interfaces still to do, what to do with the first of them,
\* the route it keeps, the routes it deletes, and whether something failed.
NoJob == [left |-> {}, group |-> {}, todo |-> {}, at |-> "show",
          keep |-> {}, stale |-> {}, failed |-> FALSE]

-----------------------------------------------------------------------------
(* uplink_ranking, over the runtime records rs: the winner, then the       *)
(* healthy ones, then the rest, each by priority and position.             *)

Health(rs, t) == IF rs[t].state = "up" THEN 0 ELSE 1

Before(rs, w, t, u) ==
    \/ t = w /\ u # w
    \/ /\ t # w /\ u # w
       /\ \/ Health(rs, t) < Health(rs, u)
          \/ /\ Health(rs, t) = Health(rs, u)
             /\ \/ Priority[t] < Priority[u]
                \/ Priority[t] = Priority[u] /\ Index[t] < Index[u]

\* Every transport, whether or not it shares its interface.
FaultyRanked(rs, g, w) == Of(g)

\* Only the best ranked transport of an interface takes part.
Ranked(rs, g, w) ==
    {t \in Of(g) : \A u \in Of(g) : Device[u] = Device[t] => ~Before(rs, w, u, t)}

Item == [t : Transports, metric : Int, healthy : BOOLEAN]

\* The healthy candidates only.
FaultyItems(rs, g, w) ==
    IF w = NoTransport THEN {}
    ELSE {[t |-> t, healthy |-> TRUE,
           metric |-> Base[g] + Step[g] *
                        Cardinality({u \in Ranked(rs, g, w) :
                                        u \in Candidates(g, rs) /\ Before(rs, w, u, t)})] :
             t \in Ranked(rs, g, w) \cap Candidates(g, rs)}

\* apply() gives the i-th of the ranking the i-th metric.
Items(rs, g, w) ==
    IF w = NoTransport THEN {}
    ELSE {[t |-> t, healthy |-> rs[t].state = "up",
           metric |-> Base[g] + Step[g] *
                        Cardinality({u \in Ranked(rs, g, w) : Before(rs, w, u, t)})] :
             t \in Ranked(rs, g, w)}

-----------------------------------------------------------------------------
(* The kernel, external.  A default route is found by its metric, whatever *)
(* its interface: `ip route replace` takes the place of the first route at *)
(* the metric it is given.                                                 *)

AtMetric(m) == {r \in table : r.metric = m}

\* The tables `ip route replace` of new may leave, when it succeeds.
Replaced(new) ==
    IF AtMetric(new.metric) = {} \/ new \in table
    THEN {table \cup {new}}
    ELSE {(table \ {r}) \cup {new} : r \in AtMetric(new.metric)}

DefaultsOf(d) == {r \in table : r.dev = d}

-----------------------------------------------------------------------------
Init ==
    /\ running = FALSE
    /\ clock = 0
    /\ tr = [t \in Transports |-> ColdTransport]
    /\ grp = [g \in Groups |-> ColdGroup]
    /\ pc = [t \in Transports |-> "idle"]
    /\ dirty = [t \in Transports |-> FALSE]
    /\ io = NoTransport
    /\ job = NoJob
    /\ lastSave = NoTime
    /\ disk = NoState
    /\ lease \in [Devices -> AllGateways \cup {NoGateway}]
    /\ \A d \in Devices : lease[d] \in Gateways[d] \cup {NoGateway}
    /\ table = {[dev |-> d, via |-> lease[d], metric |-> LeaseMetric[d]] :
                   d \in {e \in Devices : lease[e] # NoGateway}}
    /\ faults = 0
    /\ foreign = 0

Quiet == faults + foreign < MaxTrouble
Fault == Quiet /\ faults < MaxFaults /\ faults' = faults + 1
Foreign == Quiet /\ foreign < MaxForeign /\ foreign' = foreign + 1

\* The apply of group g, its records being rs and gs.
JobFor(rs, gs, g, left) ==
    [NoJob EXCEPT !.group = {g}, !.left = left,
                  !.todo = Items(rs, g, gs[g].winner)]

\* publish_restored_uplinks takes the restored winners in any order.
NextRestored(rs, gs, left) ==
    IF left = {}
    THEN io' = NoTransport /\ job' = NoJob
    ELSE io' = Main /\ \E g \in left : job' = JobFor(rs, gs, g, left \ {g})

\* The group is restored whether or not its winner is still configured.
FaultyRestoredGroup(pg, kept) == pg

\* restore: records are matched by stable id, kept are the ids still there.
RestoredGroup(pg, kept) ==
    [pg EXCEPT !.winner = IF @ \in kept THEN @ ELSE NoTransport]

\* Engine::new, load_state, then run_with_ready up to the first publication.
Start(kept) ==
    LET rs == IF disk = NoState THEN tr
              ELSE [t \in Transports |-> IF t \in kept THEN disk.tr[t]
                                                       ELSE ColdTransport]
        gs == IF disk = NoState THEN grp
              ELSE [g \in Groups |-> RestoredGroup(disk.grp[g], kept)]
    IN  /\ ~running
        /\ running' = TRUE
        /\ tr' = rs
        /\ grp' = gs
        /\ NextRestored(rs, gs, {g \in Groups : gs[g].winner # NoTransport})
        /\ UNCHANGED <<clock, pc, dirty, lastSave, disk, kernel, faults, foreign>>

\* probe_once up to the release of the state mutex.
Record(t, healthy) ==
    LET counted == IF healthy THEN Succeeded(t, tr[t], clock) ELSE Failed(t, tr[t])
    IN  /\ running /\ io # Main /\ pc[t] = "idle"
        /\ tr' = [tr EXCEPT ![t] = counted]
        /\ dirty' = [dirty EXCEPT ![t] = counted.state # tr[t].state]
        /\ pc' = [pc EXCEPT ![t] = "recorded"]
        /\ UNCHANGED <<running, clock, grp, io, job, lastSave, disk, kernel,
                       faults, foreign>>

\* decide_action_locked: with everything down the winner stays.
Outcomes(g) ==
    IF Candidates(g, tr) = {}
    THEN {[grp[g] EXCEPT !.degraded = TRUE]}
    ELSE {[grp[g] EXCEPT !.winner = n,
                         !.since = IF n # grp[g].winner THEN clock ELSE @,
                         !.confirmed = tr[n].lastOk,
                         !.degraded = FALSE] :
             n \in Chosen(g, tr, grp[g], clock)}

\* reconcile, up to the release of the state mutex; a group without a winner
\* has nothing to publish.
Decide(t, outcome) ==
    LET g == GroupOf[t]
        gs == [grp EXCEPT ![g] = outcome]
        changed == \/ outcome.winner # grp[g].winner
                   \/ outcome.degraded # grp[g].degraded
        skip == outcome.winner = NoTransport
    IN  /\ running /\ pc[t] = "recorded" /\ io = NoTransport
        /\ grp' = gs
        /\ dirty' = [dirty EXCEPT ![t] = @ \/ changed]
        /\ pc' = [pc EXCEPT ![t] = IF skip THEN "save" ELSE "publish"]
        /\ io' = IF skip THEN NoTransport ELSE t
        /\ job' = IF skip THEN NoJob ELSE JobFor(tr, gs, g, {})
        /\ UNCHANGED <<running, clock, tr, lastSave, disk, kernel, faults, foreign>>

-----------------------------------------------------------------------------
(* RoutePublisher::apply: reprioritize, for one interface after the other. *)

Publishing == running /\ io # NoTransport
Current(i) == i \in job.todo /\ \A j \in job.todo : i.metric <= j.metric
Untouched == UNCHANGED <<running, clock, tr, grp, pc, dirty, io, lastSave, disk,
                         lease, foreign>>

\* On to the next interface; apply reports the first failure and goes on.
Done(i, failed) ==
    [job EXCEPT !.todo = @ \ {i}, !.at = "show", !.keep = {}, !.stale = {},
                !.failed = @ \/ failed]

\* A route where there is none, through any gateway the interface may have.
FaultyPlan(i) ==
    LET here == DefaultsOf(Device[i.t])
    IN  IF Cardinality(here) = 1 /\ \A r \in here : r.metric = i.metric
        THEN {Done(i, FALSE)}
        ELSE {[job EXCEPT !.at = "replace",
                          !.keep = {[dev |-> Device[i.t], via |-> gw, metric |-> i.metric]},
                          !.stale = {q \in here : q.metric # i.metric}] :
                 gw \in Gateways[Device[i.t]]}

\* The read-back of an interface, when it succeeds.
Plan(i) ==
    LET here == DefaultsOf(Device[i.t])
    IN  IF here = {}
        THEN {Done(i, i.healthy)}
        ELSE IF Cardinality(here) = 1 /\ \A r \in here : r.metric = i.metric
        THEN {Done(i, FALSE)}
        ELSE {[job EXCEPT !.at = "replace",
                          !.keep = {[r EXCEPT !.metric = i.metric]},
                          !.stale = {q \in here : q.metric # i.metric}] :
                 r \in {r \in here : \A q \in here : r.metric <= q.metric}}

Show(i) ==
    /\ Publishing /\ Current(i) /\ job.at = "show"
    /\ \/ job' \in Plan(i) /\ UNCHANGED faults
       \/ Fault /\ job' = Done(i, TRUE)
    /\ UNCHANGED table /\ Untouched

\* A replace that failed and is deleted after all.
FaultyAfterReplace(i, ok) ==
    IF job.stale = {} THEN Done(i, ~ok)
    ELSE [job EXCEPT !.at = "delete", !.failed = @ \/ ~ok]

\* Only after a successful replace are the other routes deleted.
AfterReplace(i, ok) ==
    IF ~ok \/ job.stale = {} THEN Done(i, ~ok)
    ELSE [job EXCEPT !.at = "delete"]

\* A command that times out is killed before or after it took effect; the
\* kernel refuses a route it has already unless it is the first at its metric.
Replace(i) ==
    \E new \in job.keep :
        /\ Publishing /\ Current(i) /\ job.at = "replace"
        /\ \/ /\ table' \in Replaced(new) /\ UNCHANGED faults
              /\ job' = AfterReplace(i, TRUE)
           \/ /\ new \in table /\ AtMetric(new.metric) # {new}
              /\ UNCHANGED <<table, faults>>
              /\ job' = AfterReplace(i, FALSE)
           \/ /\ Fault /\ table' \in Replaced(new) \cup {table}
              /\ job' = AfterReplace(i, FALSE)
        /\ Untouched

\* A route that is gone by now is a failure too.
Delete(i) ==
    \E r \in job.stale :
        LET ended(failed) ==
                IF job.stale = {r} THEN Done(i, failed)
                ELSE [job EXCEPT !.stale = @ \ {r}, !.failed = @ \/ failed]
        IN  /\ Publishing /\ Current(i) /\ job.at = "delete"
            /\ \/ table' = table \ {r} /\ job' = ended(r \notin table)
                  /\ UNCHANGED faults
               \/ Fault /\ table' \in {table, table \ {r}} /\ job' = ended(TRUE)
            /\ Untouched

\* log_publish_error, under the state mutex.  Another failure than the one
\* reported before is a change as well.
Report ==
    \E g \in job.group :
        LET gs == [grp EXCEPT ![g].failed = job.failed]
        IN  /\ Publishing /\ job.todo = {}
            /\ grp' = gs
            /\ \/ /\ io = Main /\ NextRestored(tr, gs, job.left)
                  /\ UNCHANGED <<pc, dirty>>
               \/ /\ io # Main /\ io' = NoTransport /\ job' = NoJob
                  /\ pc' = [pc EXCEPT ![io] = "save"]
                  /\ \E changed \in BOOLEAN :
                        /\ job.failed # grp[g].failed => changed
                        /\ changed => job.failed \/ grp[g].failed
                        /\ dirty' = [dirty EXCEPT ![io] = @ \/ changed]
            /\ UNCHANGED <<running, clock, tr, lastSave, disk, kernel, faults,
                           foreign>>

Publisher == (\E i \in job.todo : Show(i) \/ Replace(i) \/ Delete(i)) \/ Report

\* save_state, the publication error is not part of it.
Save(t) ==
    LET due == dirty[t] \/ lastSave = NoTime \/ clock - lastSave >= SaveEvery
        snapshot == [tr |-> tr, grp |-> [g \in Groups |->
                                           [grp[g] EXCEPT !.failed = FALSE]]]
    IN  /\ running /\ pc[t] = "save"
        /\ \/ due /\ disk' = snapshot /\ lastSave' = clock /\ UNCHANGED faults
           \/ due /\ Fault /\ disk' \in {disk, snapshot} /\ UNCHANGED lastSave
           \/ ~due /\ UNCHANGED <<disk, lastSave, faults>>
        /\ pc' = [pc EXCEPT ![t] = "idle"]
        /\ dirty' = [dirty EXCEPT ![t] = FALSE]
        /\ UNCHANGED <<running, clock, tr, grp, io, job, kernel, foreign>>

Worker(t) ==
    \/ \E healthy \in BOOLEAN : Record(t, healthy)
    \/ \E outcome \in Outcomes(GroupOf[t]) : Decide(t, outcome)
    \/ io = t /\ Publisher
    \/ Save(t)

MainThread == io = Main /\ Publisher

\* The process dies between any two steps; its memory is reset here.
Crash ==
    /\ running /\ Fault
    /\ running' = FALSE
    /\ tr' = [t \in Transports |-> ColdTransport]
    /\ grp' = [g \in Groups |-> ColdGroup]
    /\ pc' = [t \in Transports |-> "idle"]
    /\ dirty' = [t \in Transports |-> FALSE]
    /\ io' = NoTransport
    /\ job' = NoJob
    /\ lastSave' = NoTime
    /\ UNCHANGED <<clock, disk, kernel, foreign>>

\* External: a DHCP client renews its lease, with a gateway of its choice,
\* and replaces the route it believes to be its own.
Renew(d, gw) ==
    LET own == [dev |-> d, via |-> lease[d], metric |-> LeaseMetric[d]]
    IN  /\ Foreign
        /\ lease' = [lease EXCEPT ![d] = gw]
        /\ table' = (table \ {own}) \cup {[own EXCEPT !.via = gw]}
        /\ UNCHANGED <<running, clock, memory, disk, faults>>

\* External: an interface goes away, and its routes with it.
Withdraw(d) ==
    /\ lease[d] # NoGateway
    /\ Foreign
    /\ lease' = [lease EXCEPT ![d] = NoGateway]
    /\ table' = table \ DefaultsOf(d)
    /\ UNCHANGED <<running, clock, memory, disk, faults>>

Tick ==
    /\ clock < MaxClock
    /\ clock' = clock + 1
    /\ UNCHANGED <<running, memory, disk, kernel, faults, foreign>>

Next ==
    \/ \E kept \in SUBSET Transports : Start(kept)
    \/ \E t \in Transports : Worker(t)
    \/ MainThread
    \/ Crash
    \/ \E d \in Devices : \E gw \in Gateways[d] : Renew(d, gw)
    \/ \E d \in Devices : Withdraw(d)
    \/ Tick

Spec == Init /\ [][Next]_vars

\* As for peers.  DHCP acts a few times and is not made to.
Fairness ==
    /\ WF_vars(\E kept \in SUBSET Transports : Start(kept))
    /\ \A t \in Transports : SF_vars(Worker(t))
    /\ WF_vars(MainThread)
    /\ WF_vars(Tick)

FairSpec == Spec /\ Fairness

-----------------------------------------------------------------------------
\* Every variable has its type, the apply in progress and the snapshot on disk
\* included.
TypeOK ==
    /\ running \in BOOLEAN /\ clock \in Nat
    /\ tr \in [Transports -> Runtime]
    /\ grp \in [Groups -> Group]
    /\ pc \in [Transports -> {"idle", "recorded", "publish", "save"}]
    /\ dirty \in [Transports -> BOOLEAN]
    /\ io \in Transports \cup {NoTransport, Main}
    /\ job \in [left : SUBSET Groups, group : SUBSET Groups,
                todo : SUBSET Item, at : {"show", "replace", "delete"},
                keep : SUBSET Routes, stale : SUBSET Routes, failed : BOOLEAN]
    /\ lastSave \in Time
    /\ disk \in [tr : [Transports -> Runtime], grp : [Groups -> Group]] \cup {NoState}
    /\ table \in SUBSET Routes
    /\ lease \in [Devices -> AllGateways \cup {NoGateway}]
    /\ faults \in Nat /\ foreign \in Nat

\* TF-6: a winner has evidence of its own.  Whatever was added or removed
\* while the daemon was down, the transport that is ranked first passed a
\* probe, and its record with that observation is in memory.
WinnerHasEvidence ==
    \A g \in Groups :
        LET w == grp[g].winner
        IN  w # NoTransport => tr[w].lastOk # NoTime

\* TF-2: again and again, the winner of a group has no default route at all, or
\* one at the group's base metric, cheaper than every one of the other
\* interfaces and the only one of its own -- after renewals, failed and
\* timed-out commands and crashes, as long as a lease does not move to another
\* gateway: two routes of one interface at one metric are not told apart.
CheapestIsWinner(g) ==
    LET w == grp[g].winner
        here == DefaultsOf(Device[w])
        others == {Device[t] : t \in Of(g)} \ {Device[w]}
    IN  w # NoTransport /\ here # {} =>
          \E r \in here :
              /\ here = {r} /\ r.metric = Base[g]
              /\ \A d \in others : \A q \in DefaultsOf(d) : r.metric < q.metric

RoutesConverge == \A g \in Groups : []<>CheapestIsWinner(g)

\* "Reconcile is not a rewrite" (TF-2): when the states of the transports
\* and the winners change no more, the table is not written any more, though
\* the workers go on.
Verdicts == <<[t \in Transports |-> tr[t].state],
              [g \in Groups |-> grp[g].winner]>>
ChurnStops ==
    <>[][UNCHANGED Verdicts]_vars => <>[][UNCHANGED table]_vars
=============================================================================
