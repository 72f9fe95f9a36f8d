# nixnet: specifications and proofs

TLA+ models of nixnet's run-time behaviour, the TLC runs that check them on
small instances and the TLAPS proofs of what holds for every instance. Paths
and line numbers are those of the repository; `PROJECT.json` maps every
definition that models code to its lines.

nixnet keeps a host reachable. A daemon, `nixnetd`, probes several ways to
reach each peer and publishes the address of the best one as a managed block in
the hosts file; it also probes several uplinks and gives the default route of
the best one the lowest metric. NixOS and system-manager modules around it own
one nftables table with a dead-man switch, and supervise NetBird and cloudflared.

## 1. Inventory

| component | state | operations |
| --- | --- | --- |
| hysteresis and selection (`src/engine/mod.rs:585-829`) | per transport: state, success and failure counts, last success, address; per group: winner, since when, confirmed when, degraded, last published address | fold one probe result into the counts; choose a winner by priority, position, stickiness and `minHold` |
| peer engine (`src/engine/mod.rs`) | the above behind the state mutex, `io_lock`, `last_hosts_error` | `probe_once`, `reconcile`, `decide_action_locked`, publication of all peers at once |
| uplink engine and `RoutePublisher` (`src/engine/mod.rs`, `src/publish/route.rs`) | the above; the kernel's routes | ranking, read-back, `ip route replace`, `ip route del`, re-publication at start |
| `HostsPublisher` (`src/publish/hosts.rs`, `modules/core.nix`) | the hosts file, its static content at start | split off the managed block, render, replace the file; the activation script seeds it |
| state persistence (`src/engine/state.rs`, `src/atomic.rs`) | `state.json` | throttled snapshot under a writer lock, restore by stable id, expiry at restore |
| status (`src/status.rs`, `src/bin/nixnetctl.rs`) | `status.json` | write with an expiry, judge health and freshness from it |
| supervision (`src/engine/mod.rs:387-559`, `src/bin/nixnetd.rs`, `src/shutdown.rs`, `src/sdnotify.rs`) | a shutdown latch, worker handles, the notify socket | start, watchdog heartbeat while healthy, worker death, stop |
| probes (`src/probe/`), subprocess runner (`src/subprocess.rs`) | none between calls | tcp, http, icmp, exec; deadlines, reply matching |
| firewall lifecycle (`modules/firewall.nix:255-681`, `1350-1403`) | the kernel's table; `pending.nft`, `pending-hash`, `reverted-hash`, `applied-hash`; the revert timer | apply, reconcile, auto-revert, confirm, teardown |
| NetBird and cloudflared providers (`modules/netbird-*.nix`, `modules/cloudflared-provider.nix`) | enrolment files, failure counts, other daemons | watchdogs, group reconciliation |
| configuration (`src/config.rs`), rendered options (`lib/`, other `modules/`) | none at run time | parse, validate, render |

**Interactions.** One worker thread per transport loops probe -> record ->
reconcile -> save -> status -> sleep. Workers share the state mutex (held for
records and decisions, not for I/O) and `io_lock` (held over decision *and*
publication). The hosts file is shared with the activation script and with
whoever edits it; the routes with DHCP clients; the nftables table with
everybody who can run `nft`. State outlives the process in `state.json`, the
hosts file, the kernel, and the files under `/var/lib/nixnet-firewall`.

**What is hard.** A decision taken on what another worker has changed since; a
rendering written after a newer one; failures that took effect (a rename before
a failed directory sync, an `ip` command killed by its deadline); a restart in
between any two steps, with an edited configuration; entries whose age has to be
noticed at restore, at the seed and on every tick; DHCP clients that write the
same routes between two commands of one apply; a countdown that elapses while an
operator confirms; a power cut in the middle of a firewall transaction.

**What makes each part correct.**

- *Selection*: a winner is Up and, `minHold` and stickiness aside, the best; an
  Up winner is not replaced early, and a better one is taken eventually.
- *Peers*: decisions follow from the transports as they are; the block is
  written as a whole and in decision order; a published address was seen to
  work, when the entry says it was; a declared address gives way to what a probe
  reports and to nothing else; an entry no probe confirms goes at its bound; the
  block always comes back.
- *Uplinks*: the winner's interface ends up with the cheapest default route of
  its group, however often a lease is renewed, without the host ever losing its
  last default route, and nothing is written once nothing changes.
- *Hosts file*: what others wrote outside the block survives the daemon, and
  what they wrote below it the seed script and their races too, which replaces the
  region above by the declared one; the block comes to say what was decided, and
  once it does nothing is written; a vanished file is rebuilt from the daemon's
  last static content.
- *Persistence and status*: an older snapshot never replaces a newer one; no
  change is lost by coalescing; a green document from a dead writer expires.
- *Supervision*: a hung worker costs the process its life within a bounded time,
  a slow or sleeping one does not; every transport is probed for ever; no single
  worker, however slow, lets the document expire.
- *Probes*: a transport is healthy on evidence of its own probe; a probe ends in
  time and leaves nothing running; it asks whom the target names.
- *Configuration*: what the loader accepts the daemon can run; state is carried
  over an edit to a transport only if it is still the same path.
- *Firewall*: no script takes the filter away; the window of an unconfirmed change
  ends in a confirmation or a revert that got through, unless the revert is
  interrupted; what was confirmed is not taken back; what was rejected stays out;
  drift is repaired.

## 2. Modules

| module | what it is |
| --- | --- |
| `Selection` | counters and winner choice as operators on records; extended by both engines |
| `PeerEngine` | the peer half of the engine, hosts block, `state.json`; its properties |
| `PeerHistory` | `PeerEngine` with history variables no action reads: the evidence probes gave, which addresses they brought up, what this process has seen pass and reconciled |
| `UplinkEngine` | the uplink half, `RoutePublisher` command by command, the kernel's table and DHCP clients |
| `UplinkHistory` | `UplinkEngine` with an observer that knows whether an apply was disturbed |
| `Firewall` | the scripts of the firewall step by step, their files, timer and the world around them |
| `DeadManSwitch` | what they promise of the automatic revert, abstractly: a switch whose moves are atomic, and which is disturbed only as often as somebody disturbs it |
| `FirewallHistory` | `Firewall` with what an operator remembers: rejected, confirmed, cut off by a power loss, reverts that were interrupted; its refinement of the switch |
| `HostsFile` | the hosts file line by line: `HostsPublisher`, the activation script, everybody else |
| `ManagedFile` | what it promises, abstractly: regions above and below a block, a daemon that puts back what it read around it, a script that keeps all but the region above |
| `Snapshots` | the writers of `state.json` and `status.json`: locks, coalescing windows, failures, restarts |
| `LaggingCopy` | what both promise: a copy that may be late and never goes back |
| `Supervision` | worker threads, main thread, heartbeat thread and systemd, in discrete time |
| `Configuration` | `apply_defaults`, derived identities and `validate` as operators on a `config.json` |
| `HttpTarget` | `plain_request` and `split_authority` on sequences of tokens |
| `Probes` | the four probe methods and the subprocess runner, under the two above |
| `SelectionProofs`, `PeerProofs`, `UplinkProofs`, `FirewallProofs`, `HostsFileProofs`, `SnapshotsProofs`, `SupervisionProofs`, `ProbesProofs` | theorems and proofs |
| `PeerShapes`, `UplinkShapes`, `MC*` | small instances for TLC |

A definition named `Faulty...` stands before the definition it is a wrong
version of. Nothing uses it: put in the place of the right one it breaks a
property (`mutants` in `PROJECT.json`), which shows that the property depends on
that line of the code.

### Peers

`tr[t]` is a transport's `TransportRuntime`, `grp[g]` a peer's `Group`, `disk`
is `state.json`, `hosts` the managed block as a function from peers to
addresses. `pc[t]` says where worker `t` is; one action is one critical section:

| action | code |
| --- | --- |
| `Start` | `Engine::new`, `load_state`, `publish_restored_peers` (a restart may find another configuration: `sp` is what it declares, `kept` the transports it still has) |
| `Record` | `probe_once` under the state mutex; the verdict and, for a transport in `Execs`, any address or none are the inputs, whether or not it declares one |
| `Decide` | `reconcile` up to the release of the state mutex, `io_lock` being taken; `entries` is the block rendered there |
| `Publish` | `hosts.publish` and `log_publish_error`, `io_lock` being released |
| `Save` | `save_state` with its throttle |
| `Crash`, `LoseState`, `ClearBlock`, `Tick` | a dead process, a lost `state.json`, another writer of the block, the wall clock |

Between `Decide` and `Publish` other workers record but cannot decide: that is
what `io_lock` is for. Between `Record` and `Decide` nothing is held.
`Save` is one step because the writer lock of `save_state` covers its snapshot
and its rename, which `Snapshots` takes apart. A failed write may still have taken
effect: the rename precedes the sync that fails.

### Uplinks

The worker loop is the same, but `Publish` is taken apart: `job` is the apply in
progress, with the interfaces still to do, what to do with the first (`show`,
`replace`, `delete`), the route to keep and those to delete. Each `ip` command
is one action; it may fail without or, killed by its deadline, with its effect.
Between any two, `Renew` and `Withdraw` change `table` as a DHCP client does. At
a start the main thread republishes the restored winners before there are
workers (`io = Main`). The kernel is external: a default route is identified by
its metric, so `ip route replace` takes the place of the first route at that
metric whatever its interface. Every route has a gateway, and no uplink transport
declares an address; `publish.routeMetric` is true.

### Firewall

`gen` is the installed generation, which stands for a ruleset and its hash;
`table` is the kernel's table: a generation's rules, `Emptied` (`nft flush
table`) or `Absent`. `files` holds the four state files, `units` the revert timer,
the revert service waiting for the lock, and a start of the apply unit. All
scripts take one `flock`, so `step` is where the holder is:

| actions | script |
| --- | --- |
| `BeginApply`, `Snapshot`, `Stamp`, `Load`, `Check` | `applyScript` |
| `BeginReconcile`, `Load`, `Check` | `reconcileScript` |
| `Elapse`, `BeginRevert`, `Restore`, `Verify` | the timer and `revertScript` |
| `BeginTeardown`, `Delete`, `Forget` | `teardownScript` |
| `Confirm` | `nixnet-firewall-confirm` |
| `Kill`, `Reboot`, `Deploy`, `Restart`, `Meddle` | timeouts, power, configuration switches, hand-written `nft` |

The lock is between scripts only: `Meddle`, `Kill`, `Reboot` and `Deploy` may
come between any two steps. Two kinds of half-written state are abstracted: a
snapshot file or a hash file is there or not (both are renamed into place and
synced), and any pair that does not match is stale. Left out: counters, metrics
and the wording of log lines, on which no script decides. A switch stops units
whose text changed, then starts the apply unit; the generated ruleset always
contains its generation's mark, so a loaded ruleset is in force.

### Hosts file

`PeerEngine` takes the block as a register. `HostsFile` is the file around it: a
sequence of lines, each a marker, an entry, one of the two comments that carry a
time, a blank, or bytes that are not UTF-8.

| actions | code |
| --- | --- |
| `Start` | `HostsPublisher::new`: the static content of the start, kept as `fallback` |
| `PublishRead`, `PublishRename`, `PublishFails` | `publish`: read, split, render, compare; then the rename, before or after which it may fail. `draft` is what is about to be renamed |
| `SeedCheck`, `SeedCopy`, `SeedMake`, `SeedInstall`, `SeedKilled` | the activation script of `modules/core.nix`: the first awk, the second one (which reads the file again) or the block from `state.json`, `mv` |
| `AppendName`, `InsertAbove`, `Unterminate`, `Delete`, `Repair` | editors: under the block, above it, through it, all of it |

Any of these may come between a writer's read and its rename. `ManagedFile` says
what is promised nevertheless: the daemon installs the regions *it has read* (or, when
there was no file, what it remembers) around a block that was decided; the script
installs the block and the region below *it has read* under the region it declares,
so that what others had put above is lost (section 6). `HostsFile` implements it:
`RefinesManagedFile`.
The regions are defined there without the code's own `SplitStatic`. The fallback
and the two drafts are mapped to `kept`, `held` and `carried`.

### State file and status

`Snapshots` counts the changes of the engine's memory (`version`) and knows
whether all is well with it. A worker's tick is `Probe`, `Reconcile` (`Decide` and
`Published`, between which it holds `io_lock`), then `SaveSkipped` or `Save` and
`Saved`, then `ShowSkipped` or `Show` and `Shown`.
`saver` and `shower` hold the two writer locks, from the snapshot to the rename.
`force` is what a change makes unconditional, `sinceSave` and `sinceShow` are the
coalescing windows, `status.left` is the document's validity. `Start` loads and
writes a first document; it does not save. The counters and times that every tick
refreshes are not numbered: they are why an unforced write is worth having, and
none of the properties is about them. Both files refine `LaggingCopy`.

### Supervision

`proc` is the process: down, starting (before `READY=1`), up, joining its threads.
`at[w]` is a worker of `run_transport`: at the top of the loop, asleep in
`Shutdown::wait`, busy in `probe_once`, dead by a panic, returned. `busy[w]` and
`next[w]` are the ages the watchdog judges, `beat` the heartbeat thread's own
timer, `timer` systemd's (start, watchdog, or stop timeout: one runs at a time).
A panic may poison the state mutex, and with it every worker that locks it. Time
passes (`Tick`) only when nobody has anything to do at this instant, so that a
deadline is a bound and not a matter of scheduling; a worker that works is busy
for at most `Longest`, which includes its waits for `io_lock` and is nothing the
code knows: `status_ttl` is computed, as there, from the configured intervals and
timeouts. `shown` is the age of `status.json`: a quiet tick leaves alone what was
written a moment ago (`Coalescing`), and a write may fail (`missed`). systemd is
external.

### Configuration and probes

`Configuration` treats a `config.json` as a record; texts are taken apart only as
far as the code does, as sequences of tokens. The identity derived for a transport
is the tuple that is hashed. `Probes` restarts with one accepted configuration
after another. `p[w]` is the probe a worker is in (`at`, the time `spent`, its
result), `env[w]` its peer: a server's status line, a helper and its descendants.
`sent` and `answered` are the echo requests and replies, which *every* raw socket
hears. Time is an amount that each step adds to `spent`: what matters is which
limit each blocking call was given.

## 3. Runs

Bounds are constants of the model: `MaxClock`, `MaxFaults`, `MaxForeign`,
`MaxTrouble` (of the last two together), `MaxDeploys`, `MaxMeddling` and the like.
None is in the code.

| run | question | instance |
| --- | --- | --- |
| `peer_pair` | do decisions follow from the transports, is every change of winner damped, do the winner and the block settle? | one peer, two transports, `minHold` 1, bound 1 |
| `peer_split` | do two peers that share the block keep it in step with their decisions? | two peers with different policies, one whose declared address is edited between starts and overruled by its provider, one fault |
| `peer_discovered` | was every published address seen to work, what may take the place of a declared one, and does an entry go at its bound? | one peer with an exec provider that reports either of two addresses or none, which declares either or none, edited between starts; clock to 2 with bound 1 |
| `uplink_pair` | what may an apply do to the kernel's table, and is the winner's route the cheapest again afterwards? | two interfaces whose DHCP clients install below and above the published metrics; a failed or timed-out command, a crash or a DHCP write, whichever it is |
| `uplink_shared` | do two probe targets over one interface fight over its route? | one interface, two transports, `minHold` 1, clock to 1, one failure, crash or DHCP write |
| `firewall` | do the scripts make one dead-man switch, what may it take away and give back, is drift repaired, do windows close? | three generations, one without auto-revert, and a disabled one; two deployments, one hand-written change, two faults |
| `hosts_file` | do the daemon, the seed script and an editor keep each other's lines, and does publication settle? | two decisions of one and two entries, two generations' static content, two edits, one run of the script, one fault |
| `snapshots` | do the two files follow the memory, and how far may they be behind? | two workers, windows of 2 and 1, validity 2, three changes, one fault |
| `supervision` | whom does the watchdog kill, and is every transport probed for ever? | two workers, intervals 4 and 5, timeouts 1, probes up to 3, `WatchdogSec` 4, slack and coalescing 2, two faults, one contended check, one stop |
| `probes` | when is a transport healthy, how long does it take to say so, whom was it asked of, and under whose identity is it kept? | 57 configurations, one or two fields apart, with each method, target notation and defect; timeouts 3 and 1, a resolver that takes 4 |
| `peer_laundering`, `uplink_loser` | documented claims the code does not keep (section 6) | the smallest instance that shows it |

What the properties say:

- `TypeOK`, in `peer_pair`; of the other models it is proved, or was checked with TLC
  while they were written.
- `DecisionIsCurrent`: when no worker of a peer is between a result and its
  decision, flag, winner, confirmation and address are those of its transports
  *now*. `UpgradesAreDamped`: `minHold`, across restarts too.
  `WinnerSettles`: a peer with something Up has the winner it should, again and
  again. `BlockConverges`: the block comes back to the intent.
- `EntryHasWinner`, `ConfirmedByProbe`, `StaleIsWithdrawn`: what restore, selection
  and withdrawal may leave published. `DeclarationWins`: a declared address is
  published unless a probe of the winner reported another, and a report of an
  earlier process counts no more once this one has decided.
- `RenderedIsCurrent`, `BlockIsIntent`: what `io_lock` is for.
- `WinnerHasEvidence` (TF-6), `RankedAfterApply` (TF-3), `NeverWithoutDefault`,
  `OnlyMovesRoutes`, `RoutesConverge` (TF-2: again and again the winner's interface has
  one default route, at the base metric, and every other interface of the group is
  dearer; where gateways stay as they are, see section 6), `ChurnStops`. The three about
  single commands speak of an apply that no DHCP client disturbed: `show` then
  `replace` cannot be atomic against one, and an interface withdrawn in between
  may get a route back.
- `RefinesSwitch` (FW-5): between them the scripts are `DeadManSwitch`, in which opening a
  window, its confirmation, its expiry and each stage of a revert are single moves.
  What comes from outside (deployments, hand-written `nft`, failures) is counted in
  both, and a confirmation is seen (`blessed`), so that no step of a script can pass
  for one of these: it loads nothing rejected, touches the table only to load, to put
  back and to turn off, and drops the window of the installed generation only on a
  confirmation, on a revert that got through, or when an apply finds no table.
  `NeverUnfirewalled` (FW-3, FW-5), `RejectedStaysOut` and `ConfirmedIsKept`
  (FW-5), `Repaired` (FW-4). `WindowCloses`: a window does not stay open, but for the
  two ways of section 6; `RefinesSwitch` says what closes it.
- `AppendsSurvive` (PUB-1): what was appended while nobody was between a read and
  a rename is never dropped afterwards. `RefinesManagedFile`: nor is anything else
  the daemon has read, or the script in the block and below it. `Converges` (TF-2): a decision that stands gets into the file,
  and then no tick writes.
- `FilesLag`, `NothingIsDropped`, `CatchesUp`: the files are late by what is on its
  way and by failed writes, and by nothing else. `GreenIsRecent`: nixnetctl calls
  nothing well that has not been within the document's validity.
- `HangsAreCut`, `WellIsNotKilled`: the watchdog's two sides. `ProbedForEver`:
  whatever hangs, panics or is stopped. `StatusStaysValid`: while `status.json` can be
  written, it expires only when *every* worker is in a `probe_once` that has overrun its
  timeout by more than the slack less the coalescing window. There is no bound on
  `probe_once` in it: a dripping http server or a queue for `io_lock` does overrun
  the timeout, and expires the document only if no worker gets through meanwhile.
- `HealthyIsEarned`, `EndsInTime`, `NoOrphans`, `AsksWhoIsNamed`,
  `AcceptedIsUsable`, `IdNamesThePath`, each with the exceptions its comment lists.

**Why the bounds suffice.** Two workers are what a race needs, two peers what
sharing the block needs, two transports what a ranking needs. Thresholds of 1
and 2 give the counter its three cases (below, reaching, at the threshold).
The clock has to pass `minHold`, `maxAge` and the save throttle once; in
`uplink_pair` it stands still, with `minHold` 0. One fault is a crash at any step
*or* one failed write, and every liveness run has to recover from it. In the uplink runs
that end without an error it is one failure, crash or DHCP write of either kind; what
several do together to a single apply is what the proofs of section 4 cover. In
`firewall`, two deployments make a window that is superseded, and
two faults a failure during the recovery from another. In `hosts_file`, one run of
the script overlaps a publication in every way, one edit comes before and one
between; in `snapshots`, a forced and an unforced tick of two workers overlap at
each lock, and a window and a validity are passed. In `supervision`, the stall
limit (4) lies above the longest probe and below an interval, so that a busy, a
sleeping and a hung worker all reach it; two faults are a hang during the
recovery from a panic, or both workers hung, and then the validity of 8 is passed. In `probes`, the resolver may take longer than the
timeout, and four sequence numbers are more than two probes use at once.

**Fairness.** *Engines.* A start is weakly fair (`Restart=always`). Every worker
is strongly fair: it sleeps one interval and comes again, and the mutexes it waits
for are released by whoever holds them; strong because `io_lock` is taken and
freed in between. Time passes. No probe verdict, DHCP write, crash or failure is
assumed to happen, or to happen again. *Firewall.* A script that holds the lock
goes on (weak: nobody else can take the lock); what systemd has started, and the
reconcile timer's service, get the lock some time (strong: others hold it in
between); the countdown elapses. Nobody has to confirm. Faults are bounded, so
`nft` does not fail for ever. Under these, `Repaired` holds "again and again":
a disabled firewall or a rejected generation is excepted, and nothing else.

*Hosts file.* The daemon is restarted, its workers tick and renames end; a script
that has started ends; a file that is not UTF-8 is repaired by somebody some time,
for the daemon refuses it until then. Editors are not assumed to do anything else.
*Snapshots.* Clocks go on, systemd restarts, ticks go on and writes end. The
writer locks are not fair, and no change has to happen. *Supervision.* Threads are
scheduled and a probe that does not hang ends; `Restart=always`; `Ready` is
strongly fair, since a start may be told to stop or time out, but not every time.
*Probes* has safety properties only.

`CHECK_DEADLOCK` stays on everywhere: the worker loop, and the reconcile timer,
never stop.

## 4. Proofs

TLAPS checks these for every set of peers, uplinks, transports, interfaces,
generations, names, hosts and configurations, all thresholds and bounds, any number
of crashes, failures and foreign writes, and an unbounded clock. Every safety
property that a run checks is proved, invariants and action properties, and both
refinements. What is left to TLC is liveness.

**Assumptions.** Each is an `ASSUME` of the module that declares the constant, and
TLC evaluates it on the instances.

- `SelectionAssumption`, `PeerAssumption`, `UplinkAssumption`, `FirewallAssumption`,
  `SnapshotsAssumption`, `SupervisionAssumption`, `ConfigurationAssumption`,
  `ProbesAssumption`: what configuration validation guarantees (two transports of a
  group are not at the same position), that the sets are finite where they are
  counted, that `WatchdogSec` is even (its half is the period of the heartbeat), that
  the coalescing window of 1 s is within the slack of 5 s, and one real restriction,
  that a transport has an exec probe in all the configurations of one `state.json` or
  in none (`Execs` is constant). What it declares may change in any way.
- `HostsAssumption`, `NoFileAssumption`: a decision is a finite set of entries, names
  of peers are no names of others, and "no file" is not a file.
- `WorldAssumption`: `config.json` is typed as serde leaves it, and a status line that
  ends does so within the 4096 bytes that are read.
- `TokensAssumption`: what is written around a host (brackets, a scheme, a path) is no
  part of it; a literal IPv6 address has two colons or more, nothing else has one;
  every port that an http probe is configured with can be written.

**`SelectionProofs`.** What is chosen is declared, Up, and best or protected, and
exactly one transport is chosen (`ChosenIsUnique`): the choice does not depend on
the order in which the code looks at them.

**`PeerProofs`.** `Spec => []IInv` with `IInv == TypeOK /\ LockAndMemory /\
EntryHasWinner /\ RenderedIsCurrent /\ BlockIsIntent`. `RenderedIsCurrent` and
`BlockIsIntent` are not inductive alone: a worker about to publish has to be the
holder of `io_lock`, and a dead process to have no memory (`LockAndMemory`), or a
publication could overtake a decision. There is one lemma per action, and the
action properties `WritesAreWhole` and `UpgradesAreDamped` follow from `IInv`
and the action they are about. `DeclarationsWin` needs to know where the address of
an entry comes from: the winner's record has the declared address or one that a
probe brought up (`Follows`), in memory at every step and after every restore
(`Declared`). `ConfirmedByProbe` needs more than itself: a decision takes address and time from the winner's record, and a
restore from the disk; `EvidenceInv` says the same of every Up transport, in memory
and in the snapshot. `DecisionIsCurrent` is strengthened by `CurrentInv`, which also
says where a record that waits for its decision is.

**`UplinkProofs`.** `WinnerHasEvidence` follows from `EvidenceInv` (every Up
transport has a success on record, in memory and in the snapshot). The two
theorems about single commands rest on `RouteInv`, what an undisturbed publisher
knows: before a `replace`, the interface has a default route; before a `delete`, the
kept route is installed and not among those to go. A DHCP write clears `calm`, and
`StepKinds` shows that nothing but the start of another apply sets it again.
`AppliesRank` is about a whole apply, and its invariant `ApplyInv` about one in
progress: the interfaces that are done sit at the metrics of the ranking, and those
to do are the rest of it (`Progress`); the ranking was made of a group with a winner
of its own, and gives each interface a metric that no other has and the winner's the
lowest (`ItemsAreTheRanking`).

**`FirewallProofs`.** `FInv` adds to the types that a snapshot is never of an absent
table and that a script about to restore has a window and has recorded its
rejection. `BlessedInv` says that after a confirmation there is no hash of a window on
disk until another window is opened, `RejectedInv` that a rejected one has its hash recorded, no
snapshot and no script past its first step, where it is refused.

`ScriptsAreASwitch` (`RefinesSwitch`) goes script by script: each step is one move of
`DeadManSwitch` or none. The window is the pair of files, there when both are, so that
writing the snapshot opens none yet and writing its hash does; `reverting` is where
the revert service is. What makes it go through is `DecidedInv`: a script past its
decision still works for a generation that is not rejected and meets no other
generation's hash, although it looked at the files only when it took the lock and
a kill or a switch may have left anything there. The abstract switch needs no lock, no
timer and no services; what they can do wrong shows as a move it does not have. It is
`HistorySpec` that implements it: its `confirmed` is `blessed`, its counters are the
scripts' own.

**`HostsFileProofs`.** Both theorems are about three readers of one file: the
daemon's `split_static`, the script's two awk passes, and `Regions`, which says what
a region is without either. `Cut` characterises where a file is cut, `CutIsUnique`
shows that this leaves one answer, and `CodeCuts` that the code gives it.
`WritersKeepRegions` (`RefinesManagedFile`) then goes action by action
(`ManagedSteps`) from `FInv`, which adds to the types that the upper region the
daemon remembers contains no marker and ends in no blank (`IsAbove`), or writing it back
and reading it again would give something else. `AppendsAreKept` (`AppendsSurvive`)
needs `OwedInv`: an appended name is below the block in the file *and in every draft
that is about to replace it*, and no script is between its two readings.

**`SnapshotsProofs`.** `SInv == TypeOK /\ Holders /\ Ordered`. The holder of a writer
lock is the one worker between its snapshot and its rename (`Holders`), so that
what it is about to write lies between the file and the memory (`Ordered`); from
that `FilesRefine` shows, for both files, that every step is one of `LaggingCopy`'s
or a stutter. `NothingDropped` needs `Covered` besides: a lock's holder had a
forced or current snapshot. `GreenStaysRecent` follows from `Recent`: no document,
on disk or about to be, has more validity left than the time since all was well
leaves it.

**`SupervisionProofs`.** `Stages` and `Reasons` tie the threads to the stage of the
process. `Cutting` bounds, for each busy worker, its age by what is left of systemd's
timer: a heartbeat resets the timer only when no age is over the stall limit.
That is `HangsStayCut`. `WellIsSpared` assumes `Longest <= StallLimit`, which the
code does not enforce; then a heartbeat always finds a blameless process healthy
(`Working`), and the next heartbeat comes before the timer ends (`Punctual`).
`StatusIsKeptValid`: when a worker begins a probe, the document is at most one interval
and one coalescing window old (`Paced`, `Written`); what is older than the validity,
which is no less than any interval and timeout with the slack (`TtlCovers`,
`OneIsSlowest`), has outlasted the timeout of each. `StopsHaveReasons` proves `StopsForAReason`, which is in no
run.

**`ProbesProofs`.** `Owned` is what is true of a worker by itself: which steps its
method takes (`Course`), what it may have spent at each (`Budget`: a read has had
the same limit as each before it), who lives of its helper (`Tended`), what a verdict
rests on (`Evidence`). Only a reply to an echo is anybody else's affair: `Heard` says
that the one a probe counts stays among the `answered`, because its number is not
given away again while the probe lasts (`Outlasted`). From these `HealthIsEarned`,
`NoneIsOrphaned`, `ProbesEndInTime` and `LoadedIsUsable`. `IdentitiesArePaths` takes
any two configurations: the derived identity is the tuple of what is probed, after the
defaults. `AsksTheNamed` is about sequences of tokens: where the first and the last
of a separator are (`FirstAndLast`) decides how an authority is split; so a host is
read back from each of its notations (`WritingsSplit`) and from the `Host` header
(`HeaderSplit`), and whatever is read as a host without being a literal has no colon
left in it (`HostsSplit`).

Only model-checked: all liveness (`WinnerSettles`, `BlockConverges`,
`StaleIsWithdrawn`, `RoutesConverge`, `ChurnStops`, `Repaired`, `WindowCloses`,
`Converges`, `CatchesUp`, `ProbedForEver`), which needs fairness and is beyond this
prover. A maximum over a finite set, or the first place in a sequence, is had from
the well-foundedness of the naturals (`Extremes`, `OneIsSlowest`), where the library's
induction rules would be of no use to these provers.
`WritesAreWhole` (`PeerEngine`) is proved and no longer run: `BlockIsIntent` is
stronger in what can go wrong.

## 5. Not modelled

- *NetBird and cloudflared watchdogs and reprovisioning* (`modules/netbird-*.nix`,
  `modules/cloudflared-provider.nix`): planned, see section 7.
- *Overlay, WireGuard, mesh gateway, ingress, wireless, composition of modules*:
  options and rendered units, evaluated before anything runs.
- *The firewall's ruleset*: its text and what it filters. A generation stands for it.
- *Command-line parsing, printed text, log lines; packet layouts and checksums*:
  conversions no property here is about. An ICMP reply is the (host, sequence
  number) it carries.
- *A marker's text inside a longer line*: the daemon searches the text, the script
  the line (`HostsFile`, `BeginAt`).
- *IPv6, on-link routes, `routeMetric = false`*: the commands are the same with
  another family or fewer of them.
- *A daemon without transports*: it has no worker, and nothing to supervise.
- *A clock that steps back*: the age of an entry is a difference of wall clock
  times, and a negative one counts as fresh.

## 6. What the models showed

Two documented claims have a run that ends in a counterexample:

1. `peer_laundering`. The restore clears an expired entry but loads its transport
   as Up; the first tick, even a failing one, selects it and publishes the
   expired address again (`src/engine/state.rs:326`).
2. `uplink_loser`. A promotion to the base metric takes the place of the
   ex-winner's route at that metric: that interface has no default route until
   its lease is renewed (`src/publish/route.rs:244`; BEHAVIORS.md:364).

Others are definitions in the modules and in no run; put into a `.cfg` as an
INVARIANT or PROPERTY, TLC finds them violated.

- `OnlyWhatPassedIsPublished` (`PeerHistory`, instance of `peer_discovered`). An exec
  transport that is Up without an address is restored Up after an edit that declares
  one, and the first tick, even a failing one below `downThreshold`, publishes that
  address, which no probe has passed. `src/engine/state.rs:279-280` has it "publish
  neither the old address nor a new one that has not yet passed a probe", of a winner
  whose declared address was changed. `ConfirmedByProbe` is the same with this case
  allowed.
- `ActivationKeepsNames` (`HostsFile`, instance of `hosts_file`). PUB-1
  (BEHAVIORS.md:404-408) has "the daemon owns the published hosts file; activation never
  rewrites it" and "any entry written outside nixnet's markers survives". The
  activation script puts the declared static prefix in the place of all that is above
  the block (`modules/core.nix:610-637`): a name that somebody added there is gone
  after the next activation. The names in and below the block survive.
- `WindowAlwaysCloses` (`FirewallHistory`, instance of `firewall`, two deployments, one
  fault, nobody meddling). FW-5 (BEHAVIORS.md:176-178) has "a revert that FAILS keeps its
  snapshot and leaves the reconcile loop enabled". One that is *killed*, or stopped by a
  switch, after it has recorded its stand-down (`modules/firewall.nix:385`) keeps
  the snapshot too, but reconcile and apply stand down from then on and the timer is
  gone: the rejected ruleset is live until somebody confirms, deploys or reverts by
  hand. With a hand-written `nft` between an apply's decision and its snapshot the
  table to go back to can also be the generation's own, and each revert then ends
  where it began. `WindowCloses` excepts these two.

- `ExpiryAcrossRestartReachesTheFile` (`PeerEngine`, instance of
  `peer_laundering`). An entry that expired while the daemon was down is withdrawn
  from memory, but with no other entry left nothing is published, so the hosts
  file keeps it (`src/engine/mod.rs:1032`; BEHAVIORS.md:458-460). A withdrawal of
  the last entry whose write fails ends the same way, by line 966: a passive tick
  with nothing to publish does not publish.
- `LeaseGatewayIsKept` (`UplinkHistory`, with the `Moving` shape of `UplinkShapes`:
  one transport, one interface, two foreign writes). When a renewal names another
  gateway, the next tick keeps the old route, which has the lowest metric, and
  deletes the new one (`src/publish/route.rs:206`).
- `RebootStillArms` (`FirewallHistory`, instance of `firewall`). The comment at
  `modules/firewall.nix:559` expects the boot after a power cut to arm a revert. The
  kernel's table is gone by then, so the apply deletes the snapshot and arms nothing.
- `StopIsClean` (`Supervision`; the instance is described in `MCSupervision`). A
  worker whose probe lasts as long as its interval is due again at the end of each,
  never calls `wait` and so never sees the shutdown (`src/engine/mod.rs:534`), while
  `src/shutdown.rs:3-7` has a stop take effect at once. systemd's stop timeout ends
  it. With probes shorter than the interval it holds.
- `ProgressIsEnough` (`Supervision`, instance of `supervision`). A check that finds
  the state mutex locked skips one heartbeat; the next comes exactly when
  `WatchdogSec` has passed since the last, and races the kill. The comment at
  `src/sdnotify.rs:45-49` has half of `WatchdogSec` "comfortably stay inside" it.
  `WellIsNotKilled` is the same without contention.
- `RefusalIsHeard` (`Probes`, instance of `probes`). A connection that closes
  inside the status line leaves `5` or `50` of `503`, which is below 400, so the
  transport is healthy (`src/probe/http.rs:299-315`). Nor is a server cut
  off that drips its answer: each read has the whole of what was left for the first
  (`src/probe/http.rs:101`); `EndsInTime` states the bound that remains.

Proving `RankedAfterApply` showed that its first form was false: it had each
interface of the group at one route. `reprioritize` keeps the lowest route of an
interface, writes it at its metric and deletes the others, but not one that sits at
that metric already (`src/publish/route.rs:262-268`, "the one the `replace` above just
wrote"). With two routes at one metric through different gateways that one is
another, and it stays, while the comment at `src/publish/route.rs:200-205` has "the
rest" cleaned up. Whoever wrote it there decides whether the kernel uses it. The
metrics are right nevertheless, which is what the property says now. The gateways of
`uplink_pair` do not move, so its `RoutesConverge`, which wants one route of the
winner's interface, does not meet this.

A reported address: `docs/providers.md:55-57` and `src/probe/mod.rs:18-20` have what an
exec probe reports override the declared address "for this tick". `probe_once` commits
it to the transport's record (`src/engine/mod.rs:619-620`), where it stays for the ticks
that report none, until another is reported or the daemon restarts, when the declared
one counts again. `DeclarationWins` and `ConfirmedByProbe` hold of what the code does.

Seen while modelling the firewall and left without a property, because FW-1 to
FW-6 do not say what should happen: a host rebooted after a revert refuses its only
ruleset and has no table to go back to; a reconcile that runs after a switch and before
the apply unit, or after an apply that was killed at its snapshot, loads the new
generation without a window ("a repair is not an operator change",
`modules/firewall.nix:462-464`), and the apply then finds it in force; an apply inside an open window replaces the snapshot by whatever is loaded then,
which after `nft flush table` is an emptied table, and after `nft flush ruleset`
is nothing, so that the window is dropped.

## 7. Plan

Order of the work, the most important behaviour first. Done: selection, the two
engines with their histories, the firewall, the hosts file, persistence and
status, supervision, configuration and probes, and the proofs of section 4.
Next:

1. `Watchdogs`: NetBird's and cloudflared's restart rules and the failure counts
   they keep in files between two runs of a timer.
2. An abstract specification of `PeerEngine`, "publication is an atomic register
   written by whoever holds `io_lock`", and its refinement proved.

The dozen runs are for distinct questions. A property that is proved makes room
in them for one that is not: `LeaseGatewayIsKept` and the others of section 6 left
that way, and so did `WritesAreWhole`.
