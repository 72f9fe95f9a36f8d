------------------------------- MODULE Selection -------------------------------
(***************************************************************************)
(* The part of the engine that is the same for peers and for uplinks: the  *)
(* per-transport hysteresis (probe_once) and the choice of a group's       *)
(* winner among its Up transports (decide_action_locked).  Everything here *)
(* is a function of the records it is given; the state that holds those    *)
(* records belongs to the modules that extend this one.                    *)
(***************************************************************************)
EXTENDS Integers

CONSTANTS
    Groups,         \* the declared groups: peers, or uplinks
    Transports,     \* the declared transports of all the groups
    NoTransport,    \* Option::None of a group's winner
    GroupOf,        \* the group a transport is declared in
    Index,          \* its position in the group's transport list
    Priority,       \* its configured priority: the lower wins
    UpThreshold,    \* probe.upThreshold, after threshold()'s default
    DownThreshold,  \* probe.downThreshold, after threshold()'s default
    MinHold         \* hysteresis.minHoldMs of a group, in clock units

ASSUME SelectionAssumption ==
    /\ NoTransport \notin Transports
    /\ GroupOf \in [Transports -> Groups]
    /\ Index \in [Transports -> Nat]
    /\ \A t, u \in Transports :
          GroupOf[t] = GroupOf[u] /\ Index[t] = Index[u] => t = u
    /\ Priority \in [Transports -> Int]
    /\ UpThreshold \in [Transports -> Nat \ {0}]
    /\ DownThreshold \in [Transports -> Nat \ {0}]
    /\ MinHold \in [Groups -> Nat]

NoTime == -1                          \* Option::None of a timestamp
Time == Nat \cup {NoTime}
TransportState == {"unknown", "up", "down"}

Of(g) == {t \in Transports : GroupOf[t] = g}

-----------------------------------------------------------------------------
(* One probe result, folded into a transport's runtime record. *)

Succeeded(t, r, now) ==
    LET n == IF r.succ < UpThreshold[t] THEN r.succ + 1 ELSE UpThreshold[t]
    IN  [r EXCEPT !.fail = 0, !.succ = n, !.lastOk = now,
                  !.state = IF n = UpThreshold[t] THEN "up" ELSE @]

\* A failure that takes one success back instead of all of them.
FaultyFailed(t, r) ==
    LET n == IF r.fail < DownThreshold[t] THEN r.fail + 1 ELSE DownThreshold[t]
    IN  [r EXCEPT !.succ = @ - 1, !.fail = n,
                  !.state = IF n = DownThreshold[t] THEN "down" ELSE @]

Failed(t, r) ==
    LET n == IF r.fail < DownThreshold[t] THEN r.fail + 1 ELSE DownThreshold[t]
    IN  [r EXCEPT !.succ = 0, !.fail = n,
                  !.state = IF n = DownThreshold[t] THEN "down" ELSE @]

-----------------------------------------------------------------------------
(* The winner of group g, given the runtime records rs of all transports.  *)

Candidates(g, rs) == {t \in Of(g) : rs[t].state = "up"}

Best(g, rs) ==
    {t \in Candidates(g, rs) :
        \A u \in Candidates(g, rs) : Priority[t] <= Priority[u]}

\* A winner that is kept for as long as it is Up.
FaultyPreferred(g, rs, winner) ==
    IF winner \in Candidates(g, rs)
    THEN {winner}
    ELSE {t \in Best(g, rs) : \A u \in Best(g, rs) : Index[t] <= Index[u]}

\* A tie keeps the current winner; otherwise the first declared wins it.
Preferred(g, rs, winner) ==
    IF winner \in Best(g, rs)
    THEN {winner}
    ELSE {t \in Best(g, rs) : \A u \in Best(g, rs) : Index[t] <= Index[u]}

\* The comparison the wrong way round.
FaultyDamped(g, rs, group, t, now) ==
    /\ t # group.winner
    /\ group.winner \in Candidates(g, rs)
    /\ now - (IF group.since = NoTime THEN now ELSE group.since) > MinHold[g]

\* minHold damps a move to t only while the current winner is still Up.
Damped(g, rs, group, t, now) ==
    /\ t # group.winner
    /\ group.winner \in Candidates(g, rs)
    /\ now - (IF group.since = NoTime THEN now ELSE group.since) < MinHold[g]

\* The transports the group may have as its winner after this decision: one,
\* when something is Up.
Chosen(g, rs, group, now) ==
    {IF Damped(g, rs, group, t, now) THEN group.winner ELSE t :
        t \in Preferred(g, rs, group.winner)}
=============================================================================
