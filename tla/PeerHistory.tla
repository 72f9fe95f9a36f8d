------------------------------ MODULE PeerHistory ------------------------------
(***************************************************************************)
(* PeerEngine with what an observer of it would remember.  The history     *)
(* variables are written by every step and read by no action.              *)
(***************************************************************************)
EXTENDS PeerEngine

VARIABLES
    evidence,  \* <<t, a, c>>: a probe of t passed at time c and vouched for a
    proved,    \* transports that passed a probe in the current process
    settled,   \* peers that were reconciled in the current process
    reports,   \* <<t, a>>: a probe of t brought up a in the current process
    told       \* transports whose probe brought up an address in any process

historyVars == <<vars, evidence, proved, settled, reports, told>>

\* The transports whose probe result this step records, and the passed ones.
RecordedNow == {t \in Transports : pc[t] = "idle" /\ pc'[t] = "recorded"}
PassedNow == {t \in RecordedNow : tr'[t].succ > 0}

\* Addresses that are news to the engine: neither declared nor known.
NamedNow == {t \in PassedNow : tr'[t].addr \notin {tr[t].addr, spec[t]}}

DecidedNow == {t \in Transports : pc[t] = "recorded" /\ pc'[t] # "recorded"}

HistoryInit ==
    /\ Init
    /\ evidence = {} /\ proved = {} /\ settled = {}
    /\ reports = {} /\ told = {}

HistoryNext ==
    /\ Next
    /\ evidence' = evidence \cup {<<t, tr'[t].addr, clock>> : t \in PassedNow}
    /\ proved' = IF running' THEN proved \cup PassedNow ELSE {}
    /\ settled' = IF running' THEN settled \cup {GroupOf[t] : t \in DecidedNow}
                              ELSE {}
    /\ reports' = IF running' THEN reports \cup {<<t, tr'[t].addr>> : t \in NamedNow}
                              ELSE {}
    /\ told' = told \cup NamedNow

HistorySpec == HistoryInit /\ [][HistoryNext]_historyVars
FairHistorySpec == HistorySpec /\ Fairness

-----------------------------------------------------------------------------
\* STALE-1: what a peer publishes rests on a probe of one of its own
\* transports that passed at the very instant the entry says it was confirmed,
\* in this process or in one before it, whatever was restored, edited or
\* reordered in between; and that probe was of the address published, or of a
\* transport that had no address then.
ConfirmedByProbe ==
    \A g \in Groups : grp[g].lpa # NoAddr =>
        \E t \in Of(g), a \in {grp[g].lpa, NoAddr} :
            <<t, a, grp[g].confirmed>> \in evidence

\* The same without the last exception, as src/engine/state.rs:279 has it:
\* "Publish neither the old address nor a new one that has not yet passed a
\* probe".
OnlyWhatPassedIsPublished ==
    \A g \in Groups : grp[g].lpa # NoAddr =>
        \E t \in Of(g) : <<t, grp[g].lpa, grp[g].confirmed>> \in evidence

\* A declared address gives way to what a probe reports, and to nothing else:
\* not to one remembered from a configuration edited since.  As long as no
\* probe of the winner has ever brought up another, its declaration is what is
\* published; and once this process has reconciled a peer that has something
\* Up, what a probe brought up in an earlier process does not count either.
DeclarationWins ==
    \A g \in Groups :
        LET w == grp[g].winner
        IN  (running /\ grp[g].lpa # NoAddr /\ w # NoTransport /\ spec[w] # NoAddr) =>
                /\ w \notin told => grp[g].lpa = spec[w]
                /\ /\ g \in settled /\ \A t \in Of(g) : pc[t] # "recorded"
                   /\ Candidates(g, tr) # {}
                   => grp[g].lpa = spec[w] \/ <<w, grp[g].lpa>> \in reports

\* Once a peer was reconciled in this process, and none of its workers is
\* between recording a result and deciding on it, its flag, its winner, its
\* confirmation and its address are those of its transports as they are now:
\* a decision taken on a state another worker has changed since is always
\* followed by one more.
DecisionIsCurrent ==
    \A g \in settled :
        (\A t \in Of(g) : pc[t] # "recorded") =>
            LET up == Candidates(g, tr)
                w == grp[g].winner
            IN  /\ grp[g].degraded <=> up = {}
                /\ up # {} =>
                     /\ w \in up
                     /\ grp[g].confirmed = tr[w].lastOk
                     /\ tr[w].addr # NoAddr => grp[g].lpa = tr[w].addr

\* STALE-2 as src/engine/state.rs words it: "an entry confirmed a month ago is
\* too old whether or not the daemon had noticed it was failing before it
\* stopped".  A process does not begin to publish, on the word of a transport
\* it has not seen pass, an address older than the bound.
RestartDoesNotLaunder ==
    [][\A g \in Groups :
         /\ running /\ Policy[g] = "lastKnownGood"
         /\ grp[g].lpa = NoAddr /\ grp'[g].lpa # NoAddr
         /\ grp'[g].winner \notin proved
         => Fresh(g, grp'[g].confirmed, clock)]_historyVars
=============================================================================
