----------------------------- MODULE Supervision -----------------------------
(***************************************************************************)
(* What keeps nixnetd probing: a thread for each transport, the main       *)
(* thread that waits for them, the heartbeat thread, and systemd, which    *)
(* restarts a process that ends and kills one whose heartbeat is late.     *)
(*                                                                         *)
(* Times count from now and stop where they no longer matter.  Time passes *)
(* only when nobody has anything left to do at this instant.               *)
(***************************************************************************)
EXTENDS Integers, FiniteSets

CONSTANTS
    Workers,        \* one for each transport
    Interval,       \* of each worker
    Longest,        \* the longest probe_once of a worker that does not hang:
                    \* probe, publications of others to wait for, its own
    WatchdogSec, TimeoutStartSec, TimeoutStopSec,
    Timeout,        \* of the probe of each worker, which need not keep to it
    Slack, MinTtl,  \* what status_ttl adds to them, and its least value
    Coalescing,     \* a quiet tick does not write again within this time
    Contention,     \* how many checks may find the state mutex locked
    MaxFaults, MaxStops     \* bounds of the model, not of the code

ASSUME SupervisionAssumption ==
    /\ IsFiniteSet(Workers) /\ Workers # {}
    /\ Interval \in [Workers -> Nat \ {0}]
    /\ Longest \in Nat
    /\ WatchdogSec \in Nat \ {0} /\ WatchdogSec % 2 = 0
    /\ TimeoutStartSec \in Nat \ {0} /\ TimeoutStopSec \in Nat \ {0}
    /\ Timeout \in [Workers -> Nat]
    /\ Slack \in Nat /\ MinTtl \in Nat /\ Coalescing \in 0..Slack
    /\ Contention \in Nat /\ MaxFaults \in Nat /\ MaxStops \in Nat

\* watchdog_interval, and the stall_limit of the heartbeat thread
WatchdogInterval == WatchdogSec \div 2
FaultyStallLimit == WatchdogInterval
StallLimit == 2 * WatchdogInterval

VARIABLES
    proc,       \* down, starting, up, joining
    shutdown,   \* the flag of Shutdown
    initialized,
    poisoned,   \* a thread has panicked with the state mutex
    at,         \* where each worker is
    busy,       \* time since probe_started_at, while it is busy
    next,       \* time until it is due, negative when it is overdue
    stuck,      \* its probe or its publication hangs
    beat,       \* time until the heartbeat thread looks again
    timer,      \* time until systemd kills the process
    told,       \* what the process was doing when it got a signal
    shown,      \* age of status.json
    missed,     \* a newer status.json could not be written
    blame,      \* a worker hung since the last heartbeat (for the properties)
    contended, faults, stops    \* only to bound them

thread == <<at, busy, next, stuck>>
bounds == <<contended, faults, stops>>
vars == <<proc, shutdown, initialized, poisoned, thread, beat, timer, told,
          shown, missed, blame, bounds>>

Most(S) == CHOOSE n \in S : \A m \in S : m <= n
Longer(S) == Most({0} \cup S)

\* status_ttl
LongestTick == Longer({Interval[w] + Timeout[w] : w \in Workers})
FaultyStatusTtl == Longer({LongestTick, MinTtl})
StatusTtl == Longer({LongestTick + Slack, MinTtl})

BusyLimit == StallLimit + WatchdogSec + 1
Alive == {"top", "asleep", "busy"}
Ended == {"dead", "returned"}

\* The values of the variables; a worker that has ended a tick is never
\* overdue by then.
TypeOK ==
    /\ proc \in {"down", "starting", "up", "joining"}
    /\ shutdown \in BOOLEAN /\ initialized \in BOOLEAN
    /\ poisoned \in BOOLEAN /\ blame \in BOOLEAN /\ missed \in BOOLEAN
    /\ told \in {"no", "starting", "up", "joining"}
    /\ at \in [Workers -> {"none"} \cup Alive \cup Ended]
    /\ busy \in [Workers -> 0..BusyLimit]
    /\ \A w \in Workers : next[w] \in -BusyLimit..Interval[w]
    /\ \A w \in Workers : at[w] = "top" => next[w] >= 0
    /\ stuck \in [Workers -> BOOLEAN]
    /\ beat \in -1..WatchdogInterval
    /\ timer \in Nat
    /\ shown \in 0..(StatusTtl + 1)
    /\ contended \in Nat /\ faults \in Nat /\ stops \in Nat

NoThreads ==
    /\ at' = [w \in Workers |-> "none"]
    /\ busy' = [w \in Workers |-> 0] /\ next' = [w \in Workers |-> 0]
    /\ stuck' = [w \in Workers |-> FALSE]

Init ==
    /\ proc = "down" /\ shutdown = FALSE /\ initialized = FALSE
    /\ poisoned = FALSE /\ told = "no"
    /\ at = [w \in Workers |-> "none"]
    /\ busy = [w \in Workers |-> 0] /\ next = [w \in Workers |-> 0]
    /\ stuck = [w \in Workers |-> FALSE]
    /\ beat = -1 /\ timer = 0 /\ shown = 0 /\ missed = FALSE /\ blame = FALSE
    /\ contended = 0 /\ faults = 0 /\ stops = 0

Fault == faults < MaxFaults /\ faults' = faults + 1

-----------------------------------------------------------------------------
(* The process as a whole. *)

\* nixnetd::run to the call of run_with_ready, which first publishes what was
\* restored and writes status.json; the heartbeat thread is there already.
Launch ==
    /\ proc = "down" /\ proc' = "starting"
    /\ beat' = WatchdogInterval /\ timer' = TimeoutStartSec
    /\ UNCHANGED <<shutdown, initialized, poisoned, thread, told, shown, missed,
                   blame, bounds>>

\* The configuration, a directory or the hosts file cannot be read.
StartFails ==
    /\ proc = "starting" /\ Fault
    /\ proc' = "down" /\ beat' = -1 /\ timer' = 0
    /\ shutdown' = FALSE /\ told' = "no"
    /\ UNCHANGED <<initialized, poisoned, thread, shown, missed, blame, contended,
                   stops>>

\* status::write, which may fail.
Writes ==
    \/ shown' = 0 /\ missed' = FALSE /\ UNCHANGED faults
    \/ missed' = TRUE /\ Fault /\ UNCHANGED shown

\* status.json, whatever its age; the workers are spawned, then READY=1.
Ready ==
    /\ proc = "starting" /\ proc' = "up"
    /\ initialized' = TRUE
    /\ at' = [w \in Workers |-> "top"]
    /\ timer' = IF told = "no" THEN WatchdogSec ELSE timer
    /\ Writes
    /\ UNCHANGED <<shutdown, poisoned, busy, next, stuck, beat, told, blame,
                   contended, stops>>

\* SIGTERM, which the signal thread turns into the flag.
Sigterm ==
    /\ proc # "down" /\ told = "no"
    /\ stops < MaxStops /\ stops' = stops + 1
    /\ told' = proc /\ shutdown' = TRUE
    /\ timer' = TimeoutStopSec
    /\ UNCHANGED <<proc, initialized, poisoned, thread, beat, shown, missed, blame,
                   contended, faults>>

\* A worker that is gone takes the daemon with it.
Finished(w) == at[w] \in Ended
Supervise ==
    /\ proc = "up"
    /\ \/ shutdown /\ UNCHANGED <<shutdown, initialized>>
       \/ /\ ~shutdown /\ \E w \in Workers : Finished(w)
          /\ shutdown' = TRUE /\ initialized' = FALSE
    /\ proc' = "joining"
    /\ UNCHANGED <<poisoned, thread, beat, timer, told, shown, missed, blame,
                   bounds>>

\* There is no process any more.
Gone ==
    /\ proc' = "down" /\ NoThreads
    /\ shutdown' = FALSE /\ initialized' = FALSE /\ poisoned' = FALSE
    /\ told' = "no" /\ beat' = -1 /\ timer' = 0 /\ blame' = FALSE
    /\ UNCHANGED <<shown, missed, bounds>>

\* All are joined, run_with_ready returns and so does main.
Exit == proc = "joining" /\ (\A w \in Workers : at[w] \in Ended) /\ Gone

\* systemd: no READY=1, no WATCHDOG=1, or no end of a process told to stop.
Kill == proc # "down" /\ timer = 0 /\ Gone

-----------------------------------------------------------------------------
(* run_transport. *)

\* The lock of the state mutex is unwrapped.
Locks(w, to) == at' = [at EXCEPT ![w] = IF poisoned THEN "dead" ELSE to]

\* Shutdown::wait and what follows it, at a worker that is early.  Only the
\* flag ends it.
Return(w) ==
    /\ at[w] = "asleep" /\ shutdown
    /\ at' = [at EXCEPT ![w] = "returned"]
    /\ UNCHANGED <<proc, shutdown, initialized, poisoned, busy, next, stuck,
                   beat, timer, told, shown, missed, blame, bounds>>

\* A worker that is due does not wait and does not look at the flag.
Begin(w) ==
    /\ \/ at[w] = "top" /\ next[w] <= 0
       \/ at[w] = "asleep" /\ next[w] <= 0 /\ ~shutdown
    /\ Locks(w, "busy")
    /\ busy' = [busy EXCEPT ![w] = 0]
    /\ UNCHANGED <<proc, shutdown, initialized, poisoned, next, stuck, beat,
                   timer, told, shown, missed, blame, bounds>>

Sleep(w) ==
    /\ at[w] = "top" /\ next[w] > 0
    /\ at' = [at EXCEPT ![w] = "asleep"]
    /\ UNCHANGED <<proc, shutdown, initialized, poisoned, busy, next, stuck,
                   beat, timer, told, shown, missed, blame, bounds>>

\* write_status: a tick on which nothing changed leaves alone what was
\* written a moment ago.
WriteStatus ==
    \/ Writes
    \/ shown < Coalescing /\ UNCHANGED <<shown, missed, faults>>

\* From start to start, and never in the past.  probe_once ends with
\* write_status.
Following(w) == Longer({next[w] + Interval[w]})
End(w) ==
    /\ at[w] = "busy" /\ Locks(w, "top")
    /\ busy' = [busy EXCEPT ![w] = 0]
    /\ next' = [next EXCEPT ![w] = Following(w)]
    /\ stuck' = [stuck EXCEPT ![w] = FALSE]
    /\ IF poisoned THEN UNCHANGED <<shown, missed, faults>> ELSE WriteStatus
    /\ UNCHANGED <<proc, shutdown, initialized, poisoned, beat, timer, told,
                   blame, contended, stops>>

Hang(w) ==
    /\ at[w] = "busy" /\ ~stuck[w] /\ Fault
    /\ stuck' = [stuck EXCEPT ![w] = TRUE] /\ blame' = TRUE
    /\ UNCHANGED <<proc, shutdown, initialized, poisoned, at, busy, next, beat,
                   timer, told, shown, missed, contended, stops>>

\* With the state mutex, if it is unlucky.
Panic(w) ==
    /\ at[w] = "busy" /\ Fault
    /\ at' = [at EXCEPT ![w] = "dead"]
    /\ poisoned' \in {poisoned, TRUE}
    /\ UNCHANGED <<proc, shutdown, initialized, busy, next, stuck, beat, timer,
                   told, shown, missed, blame, contended, stops>>

-----------------------------------------------------------------------------
(* heartbeat. *)

\* watchdog_healthy, when the state mutex is free.
FaultyHealthy == initialized
WatchdogHealthy ==
    /\ initialized /\ ~poisoned
    /\ \A w \in Workers :
        IF at[w] \in {"busy", "dead"} THEN busy[w] <= StallLimit
                                      ELSE next[w] + StallLimit >= 0

\* It looks, and notifies systemd or not.
Heartbeat ==
    /\ proc # "down" /\ beat = 0 /\ ~shutdown
    /\ beat' = WatchdogInterval
    /\ \/ /\ WatchdogHealthy /\ timer' = WatchdogSec
          /\ blame' = (\E w \in Workers : stuck[w]) /\ UNCHANGED contended
       \/ ~WatchdogHealthy /\ UNCHANGED <<timer, blame, contended>>
       \/ \* try_lock finds that somebody has the mutex
          /\ contended < Contention /\ contended' = contended + 1
          /\ UNCHANGED <<timer, blame>>
    /\ UNCHANGED <<proc, shutdown, initialized, poisoned, thread, told, shown, missed,
                   faults, stops>>

\* Shutdown::wait again.
HeartbeatEnds ==
    /\ proc # "down" /\ beat >= 0 /\ shutdown
    /\ beat' = -1
    /\ UNCHANGED <<proc, shutdown, initialized, poisoned, thread, timer, told,
                   shown, missed, blame, bounds>>

-----------------------------------------------------------------------------
\* Who has something to do at this instant.
Prompt(w) ==
    /\ at[w] # "top"
    /\ at[w] = "asleep" => next[w] > 0 /\ ~shutdown
    /\ at[w] = "busy" /\ ~stuck[w] => busy[w] < Longest
Quiet ==
    /\ \A w \in Workers : Prompt(w)
    /\ proc # "down" => beat # 0 /\ timer > 0 /\ ~(shutdown /\ beat > 0)
    /\ proc = "up" => ~shutdown /\ \A w \in Workers : ~Finished(w)
    /\ proc = "joining" => \E w \in Workers : at[w] \notin Ended

Below(n, limit) == IF n < limit THEN n + 1 ELSE n
Tick ==
    /\ Quiet
    /\ busy' = [w \in Workers |-> IF at[w] \in {"busy", "dead"}
                                  THEN Below(busy[w], BusyLimit) ELSE busy[w]]
    /\ next' = [w \in Workers |-> IF at[w] \in Alive /\ next[w] > -BusyLimit
                                  THEN next[w] - 1 ELSE next[w]]
    /\ beat' = IF beat > 0 THEN beat - 1 ELSE beat
    /\ timer' = IF timer > 0 THEN timer - 1 ELSE timer
    /\ shown' = Below(shown, StatusTtl + 1)
    /\ UNCHANGED <<proc, shutdown, initialized, poisoned, at, stuck, told,
                   missed, blame, bounds>>

Next ==
    \/ Launch \/ StartFails \/ Ready \/ Sigterm \/ Supervise \/ Exit \/ Kill
    \/ Heartbeat \/ HeartbeatEnds \/ Tick
    \/ \E w \in Workers :
        Return(w) \/ Begin(w) \/ Sleep(w) \/ End(w) \/ Hang(w) \/ Panic(w)

Spec == Init /\ [][Next]_vars

\* Restart=always, and a start does not time out every time; the threads are
\* scheduled; a probe that does not hang ends.
FairSpec ==
    /\ Spec /\ WF_vars(Tick) /\ WF_vars(Launch) /\ SF_vars(Ready)
    /\ WF_vars(Supervise) /\ WF_vars(Exit) /\ WF_vars(Kill)
    /\ WF_vars(Heartbeat) /\ WF_vars(HeartbeatEnds)
    /\ \A w \in Workers :
        /\ WF_vars(Begin(w)) /\ WF_vars(Sleep(w)) /\ WF_vars(Return(w))
        /\ WF_vars(~stuck[w] /\ End(w))

-----------------------------------------------------------------------------
(* Properties. *)

\* The process was told to stop, has not become ready, or a worker hangs, hung
\* since the last heartbeat, or died.
Deserved ==
    \/ told # "no" \/ proc = "starting" \/ blame
    \/ \E w \in Workers : stuck[w] \/ at[w] = "dead"

\* systemd kills a daemon only when it deserves it.  A probe as long as the
\* stall limit, and a worker that waits for its next tick, do not cost the
\* process its life; only a check that found the state mutex locked may.
WellIsNotKilled == [][Kill => Deserved \/ contended > 0]_vars

\* Bounded progress is enough to stay alive, whoever has the mutex at the
\* moment of a check.
ProgressIsEnough == [][Kill => Deserved]_vars

\* No worker hangs for longer than the watchdog takes to see it and to act,
\* although the thread that reports to systemd is another one and hangs never.
HangsAreCut ==
    \A w \in Workers :
        at[w] = "busy" /\ told = "no" => busy[w] <= StallLimit + WatchdogSec

\* The daemon stops for a reason: a signal, or a worker that died.  A wakeup
\* that nobody asked for retires nobody.
StopsForAReason ==
    \A w \in Workers :
        at[w] = "returned" => told # "no" \/ \E v \in Workers : at[v] = "dead"

\* A thread that ended never leaves its transport unprobed: every transport
\* is probed again and again, whatever hangs, panics or is stopped.
ProbedForEver == \A w \in Workers : []<>(at[w] = "busy" /\ ~stuck[w])

\* While the daemon runs and can write, status.json expires only if every
\* single worker is in a probe_once, hung or slow, that has gone past its
\* probe's timeout by what is left of the slack after a coalesced write: what
\* one worker holds up, and writes that are left out, cost nothing.
StatusStaysValid ==
    proc = "up" /\ ~shutdown /\ ~missed /\ (\A w \in Workers : at[w] \in Alive)
        => shown <= StatusTtl \/ \A w \in Workers :
            at[w] = "busy" /\ busy[w] > Timeout[w] + Slack - Coalescing

\* A process that was told to stop, and in which nothing hangs, ends before
\* systemd kills it.
StopIsClean ==
    [][Kill /\ told \in {"up", "joining"} => \E w \in Workers : stuck[w]]_vars
=============================================================================
