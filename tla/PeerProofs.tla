------------------------------ MODULE PeerProofs ------------------------------
(***************************************************************************)
(* The safety of the peer engine for every configuration: any peers and    *)
(* transports, thresholds, bounds, and number of crashes and failures.     *)
(* Then, with the observer of PeerHistory: what every entry the engine     *)
(* publishes rests on, and how current its decisions are.                  *)
(***************************************************************************)
EXTENDS PeerHistory, SelectionProofs

-----------------------------------------------------------------------------
(* Types of the records the steps compute. *)

LEMMA SucceededType ==
    ASSUME NEW t \in Transports, NEW r \in Runtime, NEW now \in Nat, NEW a \in Addr
    PROVE  [Succeeded(t, r, now) EXCEPT !.addr = a] \in Runtime
<1>1. UpThreshold[t] \in Nat
  BY SelectionAssumption
<1>2. (IF r.succ < UpThreshold[t] THEN r.succ + 1 ELSE UpThreshold[t]) \in Nat
  BY <1>1 DEF Runtime
<1>3. QED
  BY <1>2 DEF Succeeded, Runtime, TransportState, Time

LEMMA FailedType ==
    ASSUME NEW t \in Transports, NEW r \in Runtime, NEW a \in Addr
    PROVE  [Failed(t, r) EXCEPT !.addr = a] \in Runtime
<1>1. DownThreshold[t] \in Nat
  BY SelectionAssumption
<1>2. (IF r.fail < DownThreshold[t] THEN r.fail + 1 ELSE DownThreshold[t]) \in Nat
  BY <1>1 DEF Runtime
<1>3. QED
  BY <1>2 DEF Failed, Runtime, TransportState

LEMMA ColdTypes == ColdTransport \in Runtime /\ ColdGroup \in Group
BY DEF ColdTransport, ColdGroup, Runtime, Group, TransportState, Time, NoTime, Addr

\* A decision yields a well-typed group, and one with a winner if it has an
\* entry; a decision that is passive changed no entry.
LEMMA OutcomeType ==
    ASSUME TypeOK, NEW g \in Groups, NEW o \in Outcomes(g)
    PROVE  o.group \in Group /\ o.passive \in BOOLEAN
<1>1. grp[g] \in Group /\ clock \in Nat
  BY DEF TypeOK
<1>2. CASE o = AllDownOutcome(g)
  BY <1>1, <1>2 DEF AllDownOutcome, Withdrawn, Group, Addr
<1>3. ASSUME NEW n \in Chosen(g, tr, grp[g], clock), o = ChosenOutcome(g, n)
      PROVE  o.group \in Group /\ o.passive \in BOOLEAN
  <2>1. n \in Transports
    BY ChosenIsDeclared
  <2>2. tr[n] \in Runtime
    BY <2>1 DEF TypeOK
  <2>3. QED
    BY <1>1, <1>3, <2>1, <2>2 DEF ChosenOutcome, Group, Runtime, Time
<1>4. QED
  BY <1>2, <1>3 DEF Outcomes

LEMMA OutcomeHasWinner ==
    ASSUME TypeOK, EntryHasWinner, NEW g \in Groups, NEW o \in Outcomes(g),
           o.group.winner = NoTransport
    PROVE  o.group.lpa = NoAddr
<1>1. grp[g] \in Group /\ (grp[g].winner = NoTransport => grp[g].lpa = NoAddr)
  BY DEF TypeOK, EntryHasWinner
<1>2. CASE o = AllDownOutcome(g)
  BY <1>1, <1>2 DEF AllDownOutcome, Withdrawn, Group
<1>3. ASSUME NEW n \in Chosen(g, tr, grp[g], clock), o = ChosenOutcome(g, n)
      PROVE  FALSE
  <2>1. n \in Transports
    BY ChosenIsDeclared
  <2>2. QED
    BY <1>3, <2>1, SelectionAssumption DEF ChosenOutcome
<1>4. QED
  BY <1>2, <1>3 DEF Outcomes

LEMMA RestoredTypes ==
    ASSUME NEW snap \in Snapshot, NEW sp \in Specs, NEW kept \in SUBSET Transports,
           NEW now \in Nat
    PROVE  /\ \A t \in Transports :
                 RestoredTransport(t, snap.tr[t], sp, kept) \in Runtime
           /\ \A g \in Groups : RestoredGroup(g, snap, sp, kept, now) \in Group
<1>1. sp \in [Transports -> Addr]
  BY PeerAssumption DEF Addr
<1>2. ASSUME NEW t \in Transports
      PROVE  RestoredTransport(t, snap.tr[t], sp, kept) \in Runtime
  <2>1. snap.tr[t] \in Runtime
    BY DEF Snapshot
  <2>2. QED
    BY <1>1, <2>1, ColdTypes DEF RestoredTransport, Runtime
<1>3. ASSUME NEW g \in Groups
      PROVE  RestoredGroup(g, snap, sp, kept, now) \in Group
  <2>1. snap.grp[g] \in Group
    BY DEF Snapshot
  <2>2. [ColdGroup EXCEPT !.degraded = TRUE] \in Group
    BY ColdTypes DEF Group
  <2>3. QED
    BY <2>1, <2>2 DEF RestoredGroup, Orphaned, Withdrawn, Group, Addr
<1>4. QED
  BY <1>2, <1>3

\* TF-6: a restored peer whose winner is gone publishes nothing.
LEMMA RestoredHasWinner ==
    ASSUME NEW snap \in Snapshot, NEW sp, NEW kept, NEW now, NEW g \in Groups,
           RestoredGroup(g, snap, sp, kept, now).winner = NoTransport
    PROVE  RestoredGroup(g, snap, sp, kept, now).lpa = NoAddr
<1>1. snap.grp[g] \in Group
  BY DEF Snapshot
<1>2. [ColdGroup EXCEPT !.degraded = TRUE].lpa = NoAddr
  BY DEF ColdGroup
<1>3. QED
  BY <1>1, <1>2 DEF RestoredGroup, Orphaned, Withdrawn, Group

-----------------------------------------------------------------------------
(* The inductive invariant.  EntryHasWinner and BlockIsIntent are seldom   *)
(* inductive by themselves: the first needs the snapshot on disk to be one *)
(* of a state in which it held, the second that io_lock's holder renders   *)
(* what is still current, which needs the lock's bookkeeping.              *)

IInv == TypeOK /\ LockAndMemory /\ EntryHasWinner /\ RenderedIsCurrent /\ BlockIsIntent

LEMMA InitIInv == Init => IInv
<1> SUFFICES ASSUME Init PROVE IInv
  OBVIOUS
<1>1. TypeOK
  BY ColdTypes, PeerAssumption
  DEF Init, TypeOK, EmptyBlock, Block, Addr, Time
<1>2. LockAndMemory /\ EntryHasWinner /\ RenderedIsCurrent /\ BlockIsIntent
  BY SelectionAssumption
  DEF Init, LockAndMemory, EntryHasWinner, RenderedIsCurrent, BlockIsIntent, ColdGroup
<1>3. QED
  BY <1>1, <1>2 DEF IInv

\* What a start restores is well typed, and has a winner wherever it has an
\* entry.
LEMMA StartIInv ==
    ASSUME IInv, NEW sp \in Specs, NEW kept \in SUBSET Transports, Start(sp, kept)
    PROVE  IInv'
<1> DEFINE T == IF disk = NoState THEN tr
                ELSE [t \in Transports |-> RestoredTransport(t, disk.tr[t], sp, kept)]
           G == IF disk = NoState THEN grp
                ELSE [g \in Groups |-> RestoredGroup(g, disk, sp, kept, clock)]
<1>1. /\ tr' = T /\ grp' = G
      /\ hosts' = hosts \/ hosts' = PeerEntries(G)
  BY DEF Start
<1>2. disk # NoState => disk \in Snapshot
  BY DEF IInv, TypeOK
<1>3. T \in [Transports -> Runtime] /\ G \in [Groups -> Group]
  BY <1>2, RestoredTypes DEF IInv, TypeOK
<1>4. PeerEntries(G) \in Block
  BY <1>3 DEF PeerEntries, Block, Group
<1>5. TypeOK'
  <2>1. hosts' \in Block
    BY <1>1, <1>4 DEF IInv, TypeOK
  <2>2. faults' \in Nat
    BY DEF Start, IInv, TypeOK, Fault
  <2>3. hostsErr' \in BOOLEAN
    BY DEF Start, IInv, TypeOK
  <2>4. QED
    BY <1>1, <1>3, <2>1, <2>2, <2>3 DEF Start, IInv, TypeOK
<1>6. LockAndMemory'
  BY DEF Start, IInv, LockAndMemory
<1>7. EntryHasWinner'
  <2>1. ASSUME NEW g \in Groups, G[g].winner = NoTransport PROVE G[g].lpa = NoAddr
    <3>1. CASE disk = NoState
      BY <2>1, <3>1 DEF IInv, EntryHasWinner
    <3>2. CASE disk # NoState
      BY <1>2, <2>1, <3>2, RestoredHasWinner
    <3>3. QED
      BY <3>1, <3>2
  <2>2. disk' = disk
    BY DEF Start
  <2>3. QED
    BY <1>1, <2>1, <2>2 DEF IInv, EntryHasWinner
<1>8. RenderedIsCurrent'
  BY SelectionAssumption DEF Start, IInv, LockAndMemory, RenderedIsCurrent
<1>9. BlockIsIntent'
  <2>1. CASE NothingToPublish(G)
    BY <1>1, <2>1 DEF NothingToPublish, PeerEntries, EmptyBlock, BlockIsIntent
  <2>2. CASE ~NothingToPublish(G)
    BY <1>1, <2>2 DEF Start, BlockIsIntent
  <2>3. QED
    BY <2>1, <2>2
<1>10. QED
  BY <1>5, <1>6, <1>7, <1>8, <1>9 DEF IInv

LEMMA RecordIInv ==
    ASSUME IInv, NEW t \in Transports, NEW healthy \in BOOLEAN, NEW found \in Addr,
           Record(t, healthy, found)
    PROVE  IInv'
<1> DEFINE counted == IF healthy THEN Succeeded(t, tr[t], clock) ELSE Failed(t, tr[t])
           addr == NewAddress(t, healthy, found)
<1>1. tr[t] \in Runtime /\ clock \in Nat /\ spec[t] \in Addr
  BY PeerAssumption DEF IInv, TypeOK, Addr
<1>2. addr \in Addr
  BY <1>1 DEF NewAddress, Runtime
<1>3. [counted EXCEPT !.addr = addr] \in Runtime
  BY <1>1, <1>2, SucceededType, FailedType
<1>4. tr' = [tr EXCEPT ![t] = [counted EXCEPT !.addr = addr]]
  BY DEF Record
<1>5. tr' \in [Transports -> Runtime]
  BY <1>3, <1>4 DEF IInv, TypeOK
<1>6. TypeOK'
  BY <1>5 DEF Record, IInv, TypeOK
<1>7. LockAndMemory'
  BY DEF Record, IInv, TypeOK, LockAndMemory
<1>8. EntryHasWinner'
  BY DEF Record, IInv, EntryHasWinner
<1>9. RenderedIsCurrent' /\ BlockIsIntent'
  BY DEF Record, IInv, TypeOK, RenderedIsCurrent, BlockIsIntent
<1>10. QED
  BY <1>6, <1>7, <1>8, <1>9 DEF IInv

LEMMA DecideIInv ==
    ASSUME IInv, NEW t \in Transports, NEW o \in Outcomes(GroupOf[t]), Decide(t, o)
    PROVE  IInv'
<1> DEFINE g == GroupOf[t]
           gs == [grp EXCEPT ![g] = o.group]
<1>1. g \in Groups
  BY SelectionAssumption
<1>2. o.group \in Group /\ o.passive \in BOOLEAN
  BY <1>1, OutcomeType DEF IInv
<1>3. grp' = gs /\ gs \in [Groups -> Group]
  BY <1>2 DEF Decide, IInv, TypeOK
<1>4. PeerEntries(gs) \in Block
  BY <1>3 DEF PeerEntries, Block, Group
<1>5. TypeOK'
  BY <1>3, <1>4 DEF Decide, IInv, TypeOK
<1>6. LockAndMemory'
  BY SelectionAssumption DEF Decide, LockFree, IInv, TypeOK, LockAndMemory
<1>7. EntryHasWinner'
  <2>1. o.group.winner = NoTransport => o.group.lpa = NoAddr
    BY <1>1, OutcomeHasWinner DEF IInv
  <2>2. disk' = disk
    BY DEF Decide
  <2>3. QED
    BY <1>3, <2>1, <2>2 DEF IInv, TypeOK, EntryHasWinner
<1>8. RenderedIsCurrent'
  <2>1. ASSUME NEW u \in Transports, pc'[u] = "publish"
        PROVE  u = t /\ io' = u /\ entries'[u] = PeerEntries(gs)
    BY <2>1, SelectionAssumption
    DEF Decide, LockFree, IInv, TypeOK, LockAndMemory
  <2>2. QED
    BY <1>3, <2>1 DEF RenderedIsCurrent
<1>9. BlockIsIntent'
  <2>1. CASE o.passive /\ NothingToPublish(gs)
    BY <1>3, <2>1 DEF NothingToPublish, PeerEntries, EmptyBlock, BlockIsIntent
  <2>2. CASE ~(o.passive /\ NothingToPublish(gs))
    BY <2>2, SelectionAssumption DEF Decide, Skipped, BlockIsIntent
  <2>3. QED
    BY <2>1, <2>2
<1>10. QED
  BY <1>5, <1>6, <1>7, <1>8, <1>9 DEF IInv

LEMMA PublishIInv ==
    ASSUME IInv, NEW t \in Transports, Publish(t)
    PROVE  IInv'
<1>1. TypeOK'
  <2>1. dirty' \in [Transports -> BOOLEAN] /\ hostsErr' \in BOOLEAN
    BY DEF Publish, IInv, TypeOK
  <2>2. entries' \in [Transports -> Block] /\ entries[t] \in Block
    BY DEF Publish, EmptyBlock, Block, Addr, IInv, TypeOK
  <2>3. faults' \in Nat
    BY DEF Publish, Fault, IInv, TypeOK
  <2>4. QED
    BY <2>1, <2>2, <2>3 DEF Publish, IInv, TypeOK
<1>2. io = t /\ entries[t] = PeerEntries(grp)
  BY DEF Publish, IInv, RenderedIsCurrent
<1>3. LockAndMemory'
  BY <1>2, SelectionAssumption DEF Publish, IInv, TypeOK, LockAndMemory
<1>4. EntryHasWinner'
  BY DEF Publish, IInv, EntryHasWinner
<1>5. RenderedIsCurrent'
  BY <1>2 DEF Publish, IInv, TypeOK, LockAndMemory, RenderedIsCurrent
<1>6. BlockIsIntent'
  BY <1>2 DEF Publish, BlockIsIntent
<1>7. QED
  BY <1>1, <1>3, <1>4, <1>5, <1>6 DEF IInv

LEMMA SaveIInv ==
    ASSUME IInv, NEW t \in Transports, Save(t)
    PROVE  IInv'
<1>1. [tr |-> tr, grp |-> grp] \in Snapshot
  BY DEF IInv, TypeOK, Snapshot
<1>2. TypeOK'
  BY <1>1 DEF Save, Fault, IInv, TypeOK, Time
<1>3. LockAndMemory'
  BY DEF Save, IInv, TypeOK, LockAndMemory
<1>4. EntryHasWinner'
  BY DEF Save, IInv, EntryHasWinner
<1>5. RenderedIsCurrent' /\ BlockIsIntent'
  BY DEF Save, IInv, TypeOK, RenderedIsCurrent, BlockIsIntent
<1>6. QED
  BY <1>2, <1>3, <1>4, <1>5 DEF IInv

\* The steps of everybody else: the crash, the disk, the block, the clock.
LEMMA OthersIInv ==
    ASSUME IInv, Crash \/ LoseState \/ ClearBlock \/ Tick \/ UNCHANGED vars
    PROVE  IInv'
<1>1. CASE Crash
  <2>1. TypeOK'
    <3>1. tr' \in [Transports -> Runtime] /\ grp' \in [Groups -> Group]
      BY <1>1, ColdTypes DEF Crash
    <3>2. entries' \in [Transports -> Block]
      BY <1>1 DEF Crash, EmptyBlock, Block, Addr
    <3>3. faults' \in Nat
      BY <1>1 DEF Crash, Fault, IInv, TypeOK
    <3>4. QED
      BY <1>1, <3>1, <3>2, <3>3 DEF Crash, IInv, TypeOK, Time
  <2>2. QED
    BY <1>1, <2>1, SelectionAssumption
    DEF Crash, IInv, LockAndMemory, EntryHasWinner, RenderedIsCurrent,
        BlockIsIntent, ColdGroup
<1>2. CASE LoseState
  BY <1>2 DEF LoseState, Fault, memory, IInv, TypeOK, LockAndMemory, EntryHasWinner,
              RenderedIsCurrent, BlockIsIntent
<1>3. CASE ClearBlock
  BY <1>3 DEF ClearBlock, Fault, memory, IInv, TypeOK, LockAndMemory, EntryHasWinner,
              RenderedIsCurrent, BlockIsIntent, EmptyBlock, Block, Addr
<1>4. CASE Tick
  BY <1>4 DEF Tick, memory, IInv, TypeOK, LockAndMemory, EntryHasWinner,
              RenderedIsCurrent, BlockIsIntent
<1>5. CASE UNCHANGED vars
  BY <1>5 DEF vars, memory, IInv, TypeOK, LockAndMemory, EntryHasWinner,
              RenderedIsCurrent, BlockIsIntent
<1>6. QED
  BY <1>1, <1>2, <1>3, <1>4, <1>5

LEMMA NextIInv == IInv /\ [Next]_vars => IInv'
<1> SUFFICES ASSUME IInv, [Next]_vars PROVE IInv'
  OBVIOUS
<1>1. ASSUME NEW t \in Transports, Worker(t) PROVE IInv'
  BY <1>1, RecordIInv, DecideIInv, PublishIInv, SaveIInv DEF Worker
<1>2. QED
  BY <1>1, StartIInv, OthersIInv DEF Next

\* The engine's invariant holds of every behaviour.
THEOREM Invariance == Spec => []IInv
BY InitIInv, NextIInv, PTL DEF Spec

\* The engine's records keep their shape through every probe, decision,
\* save, crash and restore.
THEOREM TypeCorrect == Spec => []TypeOK
<1>1. IInv => TypeOK
  BY DEF IInv
<1>2. QED
  BY <1>1, Invariance, PTL

\* No entry outlives its winner, in memory or on disk.
THEOREM EntriesHaveWinners == Spec => []EntryHasWinner
<1>1. IInv => EntryHasWinner
  BY DEF IInv
<1>2. QED
  BY <1>1, Invariance, PTL

\* What io_lock's holder is about to write is never out of date.
THEOREM RenderedStaysCurrent == Spec => []RenderedIsCurrent
<1>1. IInv => RenderedIsCurrent
  BY DEF IInv
<1>2. QED
  BY <1>1, Invariance, PTL

\* Between publications the block holds what was decided.
THEOREM BlockHoldsIntent == Spec => []BlockIsIntent
<1>1. IInv => BlockIsIntent
  BY DEF IInv
<1>2. QED
  BY <1>1, Invariance, PTL

\* Every write of the block is whole: it is what the engine wants of all its
\* peers, rendered before the state mutex was released and still wanted.
THEOREM WholeWrites == Spec => WritesAreWhole
<1> DEFINE Whole == hosts' # hosts =>
                      hosts' = PeerEntries(grp') \/ hosts' = EmptyBlock
<1>1. ASSUME IInv, Next PROVE Whole
  <2>1. ASSUME NEW sp \in Specs, NEW kept \in SUBSET Transports, Start(sp, kept)
        PROVE  Whole
    BY <2>1 DEF Start
  <2>2. ASSUME NEW t \in Transports, Worker(t) PROVE Whole
    <3>1. CASE Publish(t)
      BY <1>1, <3>1 DEF Publish, IInv, RenderedIsCurrent
    <3>2. CASE ~Publish(t)
      BY <2>2, <3>2 DEF Worker, Record, Decide, Save
    <3>3. QED
      BY <3>1, <3>2
  <2>3. CASE Crash \/ LoseState \/ ClearBlock \/ Tick
    BY <2>3 DEF Crash, LoseState, ClearBlock, Tick
  <2>4. QED
    BY <1>1, <2>1, <2>2, <2>3 DEF Next
<1>2. IInv /\ [Next]_vars => [Whole]_vars
  BY <1>1
<1>3. QED
  BY <1>2, Invariance, PTL DEF Spec, WritesAreWhole

\* An Up winner keeps its place for minHold, whatever becomes Up besides it.
THEOREM DampedUpgrades == Spec => UpgradesAreDamped
<1> DEFINE Held(g) == /\ running /\ grp[g].winner \in Candidates(g, tr)
                      /\ grp'[g].winner \notin {grp[g].winner, NoTransport}
                      => clock - grp[g].since >= MinHold[g]
<1>1. ASSUME IInv, Next, NEW g \in Groups PROVE Held(g)
  <2>1. ASSUME NEW t \in Transports, NEW o \in Outcomes(GroupOf[t]), Decide(t, o)
        PROVE  Held(g)
    <3>1. CASE g # GroupOf[t]
      BY <1>1, <2>1, <3>1 DEF Decide, IInv, TypeOK
    <3>2. CASE g = GroupOf[t]
      <4>1. grp'[g] = o.group
        BY <1>1, <2>1, <3>2 DEF Decide, IInv, TypeOK
      <4>2. CASE o = AllDownOutcome(g)
        BY <1>1, <4>1, <4>2 DEF AllDownOutcome, Withdrawn, IInv, TypeOK, Group
      <4>3. ASSUME NEW n \in Chosen(g, tr, grp[g], clock), o = ChosenOutcome(g, n)
            PROVE  Held(g)
        <5>1. grp'[g].winner = n
          BY <4>1, <4>3 DEF ChosenOutcome
        <5>2. n = grp[g].winner \/ ~Damped(g, tr, grp[g], n, clock)
          BY DEF Chosen
        <5>3. clock \in Nat /\ grp[g].since \in Time /\ MinHold[g] \in Nat
          BY <1>1, SelectionAssumption DEF IInv, TypeOK, Group
        <5>4. QED
          BY <5>1, <5>2, <5>3 DEF Damped, Time, NoTime
      <4>4. QED
        BY <2>1, <3>2, <4>2, <4>3 DEF Outcomes
    <3>3. QED
      BY <3>1, <3>2
  <2>2. ASSUME NEW t \in Transports, Worker(t) PROVE Held(g)
    BY <2>1, <2>2 DEF Worker, Record, Publish, Save
  <2>3. CASE \E sp \in Specs, kept \in SUBSET Transports : Start(sp, kept)
    BY <2>3 DEF Start
  <2>4. CASE Crash
    BY <2>4 DEF Crash, ColdGroup
  <2>5. CASE LoseState \/ ClearBlock \/ Tick
    BY <2>5 DEF LoseState, ClearBlock, Tick, memory
  <2>6. QED
    BY <1>1, <2>2, <2>3, <2>4, <2>5 DEF Next
<1>2. IInv /\ [Next]_vars => [\A g \in Groups : Held(g)]_vars
  BY <1>1
<1>3. QED
  BY <1>2, Invariance, PTL DEF Spec, UpgradesAreDamped
-----------------------------------------------------------------------------
\* The engine's own invariant carries over: history changes nothing.
LEMMA HistoryInvariance == HistorySpec => []IInv
<1>1. HistoryInit => IInv
  BY InitIInv DEF HistoryInit
<1>2. IInv /\ [HistoryNext]_historyVars => IInv'
  BY NextIInv DEF HistoryNext, historyVars
<1>3. QED
  BY <1>1, <1>2, PTL DEF HistorySpec

-----------------------------------------------------------------------------
(* ConfirmedByProbe is not inductive: a decision takes the address and the *)
(* time from the winner's record, and a restore from the disk.  So the     *)
(* same must be known of every Up transport, and of the snapshot.          *)

TransportVouched(ev, t, r) ==
    r.state = "up" => \E a \in {r.addr, NoAddr} : <<t, a, r.lastOk>> \in ev

GroupVouched(ev, g, group, rs) ==
    /\ group.winner # NoTransport => group.winner \in Of(g)
    /\ group.lpa # NoAddr =>
         /\ rs[group.winner].addr # NoAddr
         /\ \E t \in Of(g), a \in {group.lpa, NoAddr} :
                <<t, a, group.confirmed>> \in ev

Vouched(ev, rs, gs) ==
    /\ \A t \in Transports : TransportVouched(ev, t, rs[t])
    /\ \A g \in Groups : GroupVouched(ev, g, gs[g], rs)

EvidenceInv ==
    /\ Vouched(evidence, tr, grp)
    /\ disk # NoState => Vouched(evidence, disk.tr, disk.grp)

\* Evidence only grows, so what it vouches for stays vouched for.
LEMMA VouchedStays ==
    ASSUME NEW ev, NEW ev2, ev \subseteq ev2, NEW rs, NEW gs, Vouched(ev, rs, gs)
    PROVE  Vouched(ev2, rs, gs)
BY DEF Vouched, TransportVouched, GroupVouched

LEMMA ColdVouched ==
    ASSUME NEW ev
    PROVE  Vouched(ev, [t \in Transports |-> ColdTransport], [g \in Groups |-> ColdGroup])
BY DEF Vouched, TransportVouched, GroupVouched, ColdTransport, ColdGroup

\* A probe result keeps every Up transport vouched for, the recorded one by
\* the evidence this very step adds.
LEMMA RecordVouched ==
    ASSUME IInv, Vouched(evidence, tr, grp),
           NEW t \in Transports, NEW healthy \in BOOLEAN, NEW found \in Addr,
           Record(t, healthy, found),
           evidence' = evidence \cup {<<u, tr'[u].addr, clock>> : u \in PassedNow}
    PROVE  Vouched(evidence', tr', grp')
<1> DEFINE counted == IF healthy THEN Succeeded(t, tr[t], clock) ELSE Failed(t, tr[t])
           addr == NewAddress(t, healthy, found)
<1>1. tr[t] \in Runtime /\ clock \in Nat /\ tr \in [Transports -> Runtime]
  BY DEF IInv, TypeOK
<1>2. tr' = [tr EXCEPT ![t] = [counted EXCEPT !.addr = addr]] /\ grp' = grp
  BY DEF Record
<1>3. tr'[t] = [counted EXCEPT !.addr = addr]
  BY <1>1, <1>2
<1>6. tr'[t].addr = addr
  BY <1>1, <1>3 DEF Succeeded, Failed, Runtime
<1>7. tr[t].addr # NoAddr => addr # NoAddr
  BY DEF NewAddress
<1>8. TransportVouched(evidence', t, tr'[t])
  <2>1. CASE healthy
    <3>1. tr'[t].lastOk = clock
      BY <1>1, <1>3, <2>1 DEF Succeeded, Runtime
    <3>2. tr'[t].succ > 0
      <4>1. UpThreshold[t] \in Nat \ {0} /\ tr[t].succ \in Nat
        BY <1>1, SelectionAssumption DEF Runtime
      <4>2. tr'[t].succ = IF tr[t].succ < UpThreshold[t] THEN tr[t].succ + 1
                                                        ELSE UpThreshold[t]
        BY <1>1, <1>3, <2>1 DEF Succeeded, Runtime
      <4>3. QED
        BY <4>1, <4>2
    <3>3. t \in PassedNow
      BY <3>2 DEF PassedNow, RecordedNow, Record, IInv, TypeOK
    <3>4. <<t, tr'[t].addr, clock>> \in evidence'
      BY <3>3
    <3>5. QED
      BY <1>6, <3>1, <3>4 DEF TransportVouched
  <2>2. CASE ~healthy
    <3>1. /\ tr'[t].lastOk = tr[t].lastOk
          /\ tr'[t].state = "up" => tr[t].state = "up"
      BY <1>1, <1>3, <2>2 DEF Failed, Runtime
    <3>2. tr[t].addr = NoAddr \/ addr = tr[t].addr
      BY <2>2 DEF NewAddress
    <3>3. TransportVouched(evidence, t, tr[t])
      BY DEF Vouched
    <3>4. QED
      BY <1>6, <3>1, <3>2, <3>3 DEF TransportVouched
  <2>3. QED
    BY <2>1, <2>2
<1>9. ASSUME NEW u \in Transports PROVE TransportVouched(evidence', u, tr'[u])
  <2>1. CASE u # t
    BY <1>1, <1>2, <2>1 DEF Vouched, TransportVouched
  <2>2. QED
    BY <1>8, <2>1
<1>10. ASSUME NEW g \in Groups PROVE GroupVouched(evidence', g, grp'[g], tr')
  <2>1. GroupVouched(evidence, g, grp[g], tr)
    BY DEF Vouched
  <2>2. grp[g].lpa # NoAddr => grp[g].winner \in Transports
    BY DEF IInv, EntryHasWinner, TypeOK, Group
  <2>3. grp[g].lpa # NoAddr => tr'[grp[g].winner].addr # NoAddr
    BY <1>1, <1>2, <1>6, <1>7, <2>1, <2>2 DEF GroupVouched
  <2>4. QED
    BY <1>2, <2>1, <2>3 DEF GroupVouched
<1>11. QED
  BY <1>9, <1>10 DEF Vouched

\* A decision hands on what its winner is vouched for.
LEMMA DecideVouched ==
    ASSUME IInv, Vouched(evidence, tr, grp),
           NEW t \in Transports, NEW o \in Outcomes(GroupOf[t]), Decide(t, o)
    PROVE  Vouched(evidence, tr', grp')
<1> DEFINE g == GroupOf[t]
<1>1. g \in Groups
  BY SelectionAssumption
<1>2. tr' = tr /\ grp' = [grp EXCEPT ![g] = o.group]
  BY DEF Decide
<1>3. GroupVouched(evidence, g, grp[g], tr) /\ grp[g] \in Group
  BY <1>1 DEF Vouched, IInv, TypeOK
<1>4. GroupVouched(evidence, g, o.group, tr)
  <2>1. CASE o = AllDownOutcome(g)
    BY <1>3, <2>1 DEF AllDownOutcome, Withdrawn, GroupVouched, Group
  <2>2. ASSUME NEW n \in Chosen(g, tr, grp[g], clock), o = ChosenOutcome(g, n)
        PROVE  GroupVouched(evidence, g, o.group, tr)
    <3>1. n \in Of(g) /\ n \in Transports /\ tr[n].state = "up"
      BY <1>1, ChosenIsUp, ChosenIsDeclared
    <3>2. TransportVouched(evidence, n, tr[n])
      BY <3>1 DEF Vouched
    <3>3. o.group.winner = n /\ o.group.confirmed = tr[n].lastOk
      BY <2>2 DEF ChosenOutcome
    <3>4. o.group.lpa # NoAddr => o.group.lpa = tr[n].addr
      BY <1>3, <2>2 DEF ChosenOutcome, GroupVouched
    <3>5. QED
      BY <3>1, <3>2, <3>3, <3>4 DEF TransportVouched, GroupVouched
  <2>3. QED
    BY <2>1, <2>2 DEF Outcomes
<1>5. QED
  BY <1>2, <1>4 DEF Vouched, IInv, TypeOK

\* A restore is vouched for by what the snapshot was, whatever the
\* configuration has become.
LEMMA StartVouched ==
    ASSUME IInv, EvidenceInv, NEW sp \in Specs, NEW kept \in SUBSET Transports,
           Start(sp, kept)
    PROVE  Vouched(evidence, tr', grp')
<1>1. CASE disk = NoState
  BY <1>1 DEF Start, EvidenceInv
<1>2. CASE disk # NoState
  <2> DEFINE T == [t \in Transports |-> RestoredTransport(t, disk.tr[t], sp, kept)]
             G == [g \in Groups |-> RestoredGroup(g, disk, sp, kept, clock)]
  <2>1. tr' = T /\ grp' = G
    BY <1>2 DEF Start
  <2>2. disk \in Snapshot /\ Vouched(evidence, disk.tr, disk.grp)
    BY <1>2 DEF IInv, TypeOK, EvidenceInv
  <2>3. ASSUME NEW t \in Transports
        PROVE  /\ TransportVouched(evidence, t, T[t])
               /\ t \in kept /\ disk.tr[t].addr # NoAddr => T[t].addr # NoAddr
    <3>1. disk.tr[t] \in Runtime /\ TransportVouched(evidence, t, disk.tr[t])
      BY <2>2 DEF Snapshot, Vouched
    <3>3. T[t] = RestoredTransport(t, disk.tr[t], sp, kept)
      OBVIOUS
    <3>4. CASE t \notin kept
      BY <3>3, <3>4 DEF RestoredTransport, ColdTransport, TransportVouched
    <3>5. CASE t \in kept /\ AddressEdited(t, disk.tr[t], sp)
      <4>1. T[t].state = "unknown" /\ T[t].addr = sp[t]
        BY <3>3, <3>5 DEF RestoredTransport, AddressEdited, ColdTransport
      <4>2. QED
        BY <3>5, <4>1 DEF TransportVouched, AddressEdited
    <3>6. CASE t \in kept /\ ~AddressEdited(t, disk.tr[t], sp)
      <4>1. T[t] = [disk.tr[t] EXCEPT !.addr = IF sp[t] = NoAddr THEN disk.tr[t].addr
                                                               ELSE sp[t]]
        BY <3>3, <3>6 DEF RestoredTransport
      <4>2. /\ T[t].state = disk.tr[t].state /\ T[t].lastOk = disk.tr[t].lastOk
            /\ T[t].addr = IF sp[t] = NoAddr THEN disk.tr[t].addr ELSE sp[t]
        BY <3>1, <4>1 DEF Runtime
      <4>3. QED
        BY <3>1, <3>6, <4>2 DEF TransportVouched, AddressEdited
    <3>7. QED
      BY <3>4, <3>5, <3>6
  <2>4. ASSUME NEW g \in Groups PROVE GroupVouched(evidence, g, G[g], T)
    <3>1. disk.grp[g] \in Group /\ GroupVouched(evidence, g, disk.grp[g], disk.tr)
      BY <2>2 DEF Snapshot, Vouched
    <3>2. G[g] = RestoredGroup(g, disk, sp, kept, clock)
      OBVIOUS
    <3>3. G[g].winner # NoTransport
            => G[g].winner = disk.grp[g].winner /\ G[g].winner \in kept
      BY <3>1, <3>2 DEF RestoredGroup, Orphaned, Withdrawn, ColdGroup, Group
    <3>4. G[g].lpa # NoAddr
            => G[g].lpa = disk.grp[g].lpa /\ G[g].confirmed = disk.grp[g].confirmed
      BY <3>1, <3>2 DEF RestoredGroup, Orphaned, Withdrawn, ColdGroup, Group
    <3>5. G[g].lpa # NoAddr => G[g].winner # NoTransport
      BY <2>2, <3>2, RestoredHasWinner
    <3>6. QED
      BY <2>3, <3>1, <3>3, <3>4, <3>5 DEF GroupVouched
  <2>5. QED
    BY <2>1, <2>3, <2>4 DEF Vouched
<1>3. QED
  BY <1>1, <1>2

LEMMA EvidenceStep ==
    ASSUME IInv, EvidenceInv, HistoryNext
    PROVE  EvidenceInv'
<1>1. evidence \subseteq evidence'
  BY DEF HistoryNext
<1>2. ASSUME Vouched(evidence, tr', grp') \/ Vouched(evidence', tr', grp'),
             disk' # NoState => disk' = disk \/ disk' = [tr |-> tr', grp |-> grp']
      PROVE  EvidenceInv'
  <2>1. Vouched(evidence', tr', grp')
    BY <1>1, <1>2, VouchedStays
  <2>2. disk # NoState => Vouched(evidence', disk.tr, disk.grp)
    BY <1>1, VouchedStays DEF EvidenceInv
  <2>3. disk' # NoState => Vouched(evidence', disk'.tr, disk'.grp)
    BY <1>2, <2>1, <2>2
  <2>4. QED
    BY <2>1, <2>3 DEF EvidenceInv, Vouched, TransportVouched, GroupVouched
<1>3. CASE \E sp \in Specs, kept \in SUBSET Transports : Start(sp, kept)
  BY <1>2, <1>3, StartVouched DEF Start
<1>4. ASSUME NEW t \in Transports, Worker(t) PROVE EvidenceInv'
  <2>1. CASE \E healthy \in BOOLEAN, found \in Addr :
               /\ found # NoAddr => t \in Execs
               /\ Record(t, healthy, found)
    <3>1. Vouched(evidence', tr', grp')
      BY <2>1, RecordVouched DEF HistoryNext, EvidenceInv
    <3>2. disk' = disk
      BY <2>1 DEF Record
    <3>3. QED
      BY <1>2, <3>1, <3>2
  <2>2. CASE \E o \in Outcomes(GroupOf[t]) : Decide(t, o)
    <3>1. Vouched(evidence, tr', grp')
      BY <2>2, DecideVouched DEF EvidenceInv
    <3>2. disk' = disk
      BY <2>2 DEF Decide
    <3>3. QED
      BY <1>2, <3>1, <3>2
  <2>3. CASE Publish(t)
    BY <1>2, <2>3 DEF Publish, EvidenceInv
  <2>4. CASE Save(t)
    BY <1>2, <2>4 DEF Save, EvidenceInv
  <2>5. QED
    BY <1>4, <2>1, <2>2, <2>3, <2>4 DEF Worker
<1>5. CASE Crash
  BY <1>2, <1>5, ColdVouched DEF Crash
<1>6. CASE LoseState \/ ClearBlock \/ Tick
  BY <1>2, <1>6 DEF LoseState, ClearBlock, Tick, memory, EvidenceInv
<1>7. QED
  BY <1>3, <1>4, <1>5, <1>6 DEF HistoryNext, Next

LEMMA EvidenceStutter ==
    ASSUME EvidenceInv, UNCHANGED historyVars
    PROVE  EvidenceInv'
BY DEF EvidenceInv, historyVars, vars, memory, Vouched, TransportVouched, GroupVouched

\* STALE-1: whatever is published rests on a probe that passed at the time it
\* claims.
THEOREM EntriesAreConfirmed == HistorySpec => []ConfirmedByProbe
<1>1. HistoryInit => EvidenceInv
  BY ColdVouched DEF HistoryInit, Init, EvidenceInv
<1>2. IInv /\ EvidenceInv /\ [HistoryNext]_historyVars => EvidenceInv'
  BY EvidenceStep, EvidenceStutter
<1>3. EvidenceInv => ConfirmedByProbe
  BY DEF EvidenceInv, Vouched, GroupVouched, ConfirmedByProbe
<1>4. QED
  BY <1>1, <1>2, <1>3, HistoryInvariance, PTL DEF HistorySpec

-----------------------------------------------------------------------------
(* DecisionIsCurrent is inductive once a stopped engine has settled peers  *)
(* no more: a start must not inherit them.                                 *)

Current(g, rs, group) ==
    LET up == Candidates(g, rs)
        w == group.winner
    IN  /\ group.degraded <=> up = {}
        /\ up # {} =>
             /\ w \in up
             /\ group.confirmed = rs[w].lastOk
             /\ rs[w].addr # NoAddr => group.lpa = rs[w].addr

CurrentInv ==
    /\ DecisionIsCurrent
    /\ settled \subseteq Groups
    /\ ~running => settled = {}

\* A decision leaves its group current with respect to the records it read.
LEMMA OutcomeIsCurrent ==
    ASSUME IInv, NEW g \in Groups, NEW o \in Outcomes(g)
    PROVE  Current(g, tr, o.group)
<1>1. grp[g] \in Group
  BY DEF IInv, TypeOK
<1>2. CASE Candidates(g, tr) = {}
  <2>1. o = AllDownOutcome(g)
    BY <1>2 DEF Outcomes
  <2>2. o.group.degraded = TRUE
    BY <1>1, <2>1 DEF AllDownOutcome, Withdrawn, Group
  <2>3. QED
    BY <1>2, <2>2 DEF Current
<1>3. CASE Candidates(g, tr) # {}
  <2>1. PICK n \in Chosen(g, tr, grp[g], clock) : o = ChosenOutcome(g, n)
    BY <1>3 DEF Outcomes
  <2>2. n \in Candidates(g, tr)
    BY ChosenIsDeclared
  <2>3. /\ o.group.winner = n /\ o.group.degraded = FALSE
        /\ o.group.confirmed = tr[n].lastOk
    BY <2>1 DEF ChosenOutcome
  <2>4. tr[n].addr # NoAddr => o.group.lpa = tr[n].addr
    BY <2>1 DEF ChosenOutcome
  <2>5. QED
    BY <1>3, <2>2, <2>3, <2>4 DEF Current
<1>4. QED
  BY <1>2, <1>3

LEMMA CurrentStep ==
    ASSUME IInv, CurrentInv, HistoryNext
    PROVE  CurrentInv'
<1> DEFINE Quiet(g) == \A t \in Of(g) : pc[t] # "recorded"
<1>1. DecisionIsCurrent <=> \A g \in settled : Quiet(g) => Current(g, tr, grp[g])
  BY DEF DecisionIsCurrent, Current
<1>2. DecisionIsCurrent' <=>
        \A g \in settled' : Quiet(g)' => Current(g, tr', grp'[g])
  BY DEF DecisionIsCurrent, Current, Candidates, Of
<1>3. settled \subseteq Groups /\ settled' \subseteq Groups
  BY SelectionAssumption DEF CurrentInv, HistoryNext, DecidedNow
<1>4. ASSUME UNCHANGED <<running, tr, grp>>,
             \A t \in Transports : pc'[t] = "recorded" <=> pc[t] = "recorded"
      PROVE  CurrentInv'
  <2>1. DecidedNow = {}
    BY <1>4 DEF DecidedNow
  <2>2. settled' = IF running THEN settled ELSE {}
    BY <1>4, <2>1 DEF HistoryNext
  <2>3. settled' = settled
    BY <2>2 DEF CurrentInv
  <2>4. \A g : Quiet(g)' => Quiet(g)
    BY <1>4 DEF Of
  <2>5. DecisionIsCurrent'
    BY <1>1, <1>2, <1>4, <2>3, <2>4 DEF CurrentInv
  <2>6. QED
    BY <1>3, <1>4, <2>3, <2>5 DEF CurrentInv
<1>5. CASE \E sp \in Specs, kept \in SUBSET Transports : Start(sp, kept)
  <2>1. running' /\ ~running /\ pc' = pc
    BY <1>5 DEF Start
  <2>2. DecidedNow = {}
    BY <2>1 DEF DecidedNow
  <2>3. settled' = {}
    BY <2>1, <2>2 DEF HistoryNext, CurrentInv
  <2>4. QED
    BY <1>2, <1>3, <2>1, <2>3 DEF CurrentInv
<1>6. ASSUME NEW t \in Transports, Worker(t) PROVE CurrentInv'
  <2>1. ASSUME NEW healthy \in BOOLEAN, NEW found \in Addr, Record(t, healthy, found)
        PROVE  CurrentInv'
    <3>1. running /\ running' /\ grp' = grp /\ pc' = [pc EXCEPT ![t] = "recorded"]
          /\ \A u \in Transports : u # t => tr'[u] = tr[u]
      BY <2>1 DEF Record, IInv, TypeOK
    <3>2. DecidedNow = {}
      BY <2>1, <3>1 DEF DecidedNow, Record, IInv, TypeOK
    <3>3. settled' = settled
      BY <3>1, <3>2 DEF HistoryNext
    <3>4. ASSUME NEW g \in settled, Quiet(g)' PROVE Current(g, tr', grp'[g])
      <4>1. t \notin Of(g) /\ Quiet(g)
        BY <3>1, <3>4 DEF Of, IInv, TypeOK
      <4>2. Current(g, tr, grp[g])
        BY <1>1, <4>1 DEF CurrentInv
      <4>3. \A u \in Of(g) : tr'[u] = tr[u]
        BY <3>1, <4>1 DEF Of
      <4>4. Candidates(g, tr') = Candidates(g, tr)
        BY <4>3 DEF Candidates
      <4>5. QED
        BY <3>1, <4>2, <4>3, <4>4 DEF Current, Candidates
    <3>5. QED
      BY <1>2, <1>3, <3>1, <3>3, <3>4 DEF CurrentInv
  <2>2. ASSUME NEW o \in Outcomes(GroupOf[t]), Decide(t, o)
        PROVE  CurrentInv'
    <3> DEFINE h == GroupOf[t]
    <3>1. h \in Groups /\ t \in Of(h)
      BY SelectionAssumption DEF Of
    <3>2. /\ running /\ running' /\ tr' = tr
          /\ grp' = [grp EXCEPT ![h] = o.group]
          /\ pc[t] = "recorded" /\ pc'[t] # "recorded"
          /\ \A u \in Transports : u # t => pc'[u] = pc[u]
      BY <2>2 DEF Decide, IInv, TypeOK
    <3>3. DecidedNow = {t}
      BY <3>2 DEF DecidedNow
    <3>4. settled' = settled \cup {h}
      BY <3>2, <3>3 DEF HistoryNext
    <3>5. Current(h, tr', grp'[h])
      BY <3>1, <3>2, OutcomeIsCurrent DEF IInv, TypeOK
    <3>6. ASSUME NEW g \in settled', Quiet(g)', g # h PROVE Current(g, tr', grp'[g])
      <4>1. Quiet(g)
        BY <3>2, <3>6 DEF Of
      <4>2. g \in settled
        BY <3>4, <3>6
      <4>3. Current(g, tr, grp[g])
        BY <1>1, <4>1, <4>2 DEF CurrentInv
      <4>4. grp'[g] = grp[g]
        BY <1>3, <3>2, <3>6, <4>2 DEF IInv, TypeOK
      <4>5. QED
        BY <3>2, <4>3, <4>4
    <3>7. QED
      BY <1>2, <1>3, <3>2, <3>5, <3>6 DEF CurrentInv
  <2>3. CASE Publish(t) \/ Save(t)
    BY <1>4, <2>3 DEF Publish, Save, IInv, TypeOK
  <2>4. QED
    BY <1>6, <2>1, <2>2, <2>3 DEF Worker
<1>7. CASE Crash
  <2>1. ~running' /\ settled' = {}
    BY <1>7 DEF Crash, HistoryNext
  <2>2. QED
    BY <1>2, <1>3, <2>1 DEF CurrentInv
<1>8. CASE LoseState \/ ClearBlock \/ Tick
  BY <1>4, <1>8 DEF LoseState, ClearBlock, Tick, memory
<1>9. QED
  BY <1>5, <1>6, <1>7, <1>8 DEF HistoryNext, Next

\* No decision is left standing on a state that has moved on since.
THEOREM DecisionsAreCurrent == HistorySpec => []DecisionIsCurrent
<1>1. HistoryInit => CurrentInv
  BY DEF HistoryInit, CurrentInv, DecisionIsCurrent
<1>2. ASSUME CurrentInv, UNCHANGED historyVars PROVE CurrentInv'
  BY <1>2 DEF CurrentInv, DecisionIsCurrent, historyVars, vars, memory, Candidates, Of
<1>3. IInv /\ CurrentInv /\ [HistoryNext]_historyVars => CurrentInv'
  BY <1>2, CurrentStep
<1>4. CurrentInv => DecisionIsCurrent
  BY DEF CurrentInv
<1>5. QED
  BY <1>1, <1>3, <1>4, HistoryInvariance, PTL DEF HistorySpec
-----------------------------------------------------------------------------
(* A declared address gives way to a reported one only.  What a running    *)
(* process remembers of a transport is its declaration or what one of its  *)
(* own probes brought up; and the entry of a winner that was never told    *)
(* another address is the one its record has, in memory and on disk.  The  *)
(* second carries over a restart: it tells that a winner with another      *)
(* address than the one declared now was edited.                           *)

\* The entries of groups gs are those of the transports ts, but for those in
\* besides.
Follows(ts, gs, besides) ==
    \A g \in Groups :
        LET w == gs[g].winner
        IN  w \in Transports \ besides /\ gs[g].lpa # NoAddr => gs[g].lpa = ts[w].addr

\* The record r of a transport t with a declared address.
Obeys(t, r, reported) ==
    IF r.addr = NoAddr THEN r.state # "up"
                       ELSE r.addr = spec[t] \/ <<t, r.addr>> \in reported

Declared ==
    /\ running => \A t \in Transports : spec[t] # NoAddr => Obeys(t, tr[t], reports)
    /\ \A t \in Transports, a \in Addr : <<t, a>> \in reports => t \in told
    /\ Follows(tr, grp, told)
    /\ disk # NoState => Follows(disk.tr, disk.grp, told)

LEMMA RestoredFollows ==
    ASSUME NEW snap \in Snapshot, NEW sp \in Specs, NEW kept \in SUBSET Transports,
           NEW now \in Nat, NEW g \in Groups,
           RestoredGroup(g, snap, sp, kept, now).lpa # NoAddr,
           RestoredGroup(g, snap, sp, kept, now).winner \in Transports
    PROVE  LET w == RestoredGroup(g, snap, sp, kept, now).winner
           IN  /\ w \in kept /\ w = snap.grp[g].winner
               /\ RestoredGroup(g, snap, sp, kept, now).lpa = snap.grp[g].lpa
               /\ ~AddressEdited(w, snap.tr[w], sp)
<1> DEFINE pg == snap.grp[g]
           read == [pg EXCEPT !.winner = IF pg.winner \in kept THEN pg.winner
                                                               ELSE NoTransport]
           aged == IF Expired(g, read, now) THEN Withdrawn(read) ELSE read
<1>1. pg \in Group
  BY DEF Snapshot
<1>2. RestoredGroup(g, snap, sp, kept, now) =
        IF Orphaned(aged) \/ WinnerEdited(aged, snap, sp)
        THEN [ColdGroup EXCEPT !.degraded = TRUE] ELSE aged
  BY DEF RestoredGroup
<1>3. RestoredGroup(g, snap, sp, kept, now) = aged /\ ~WinnerEdited(aged, snap, sp)
  BY <1>2 DEF ColdGroup
<1>4. aged = read
  BY <1>1, <1>3 DEF Withdrawn, Group
<1>5. aged.winner = pg.winner /\ pg.winner \in kept /\ aged.lpa = pg.lpa
  BY <1>1, <1>3, <1>4, SelectionAssumption DEF Group
<1>6. QED
  BY <1>3, <1>5, SelectionAssumption DEF WinnerEdited

\* What a step tells only adds to the exceptions.
LEMMA FollowsStays ==
    ASSUME NEW ts, NEW gs, NEW A, NEW B, A \subseteq B, Follows(ts, gs, A)
    PROVE  Follows(ts, gs, B)
BY DEF Follows

\* A step that names no address leaves the history of addresses alone.
LEMMA NothingNamed ==
    ASSUME HistoryNext, RecordedNow = {}
    PROVE  told' = told /\ reports' = IF running' THEN reports ELSE {}
BY DEF HistoryNext, NamedNow, PassedNow

LEMMA StartDeclared ==
    ASSUME IInv, Declared, HistoryNext,
           NEW sp \in Specs, NEW kept \in SUBSET Transports, Start(sp, kept)
    PROVE  Declared'
<1>1. running' /\ spec' = sp /\ disk' = disk /\ clock \in Nat
  BY DEF Start, IInv, TypeOK
<1>2. told' = told /\ reports' = reports
  <2>1. RecordedNow = {}
    BY DEF RecordedNow, Start
  <2>2. QED
    BY <1>1, <2>1, NothingNamed
<1>3. disk' # NoState => Follows(disk.tr, disk.grp, told)'
  BY <1>1, <1>2 DEF Declared, Follows
<1>4. CASE disk = NoState
  <2>1. /\ grp' = grp
        /\ tr' = tr /\ tr = [t \in Transports |-> ColdTransport]
    BY <1>4 DEF Start, IInv, LockAndMemory
  <2>2. \A t \in Transports : Obeys(t, tr[t], reports)'
    BY <2>1 DEF ColdTransport, Obeys
  <2>3. QED
    BY <1>1, <1>2, <1>3, <2>1, <2>2 DEF Declared, Follows
<1>5. CASE disk # NoState
  <2>1. disk \in Snapshot
    BY <1>5 DEF IInv, TypeOK
  <2>2. /\ tr' = [t \in Transports |-> RestoredTransport(t, disk.tr[t], sp, kept)]
        /\ grp' = [g \in Groups |-> RestoredGroup(g, disk, sp, kept, clock)]
    BY <1>5 DEF Start
  <2>3. ASSUME NEW t \in Transports
        PROVE  /\ sp[t] # NoAddr => Obeys(t, tr[t], reports)'
               /\ t \in kept => tr'[t].addr = IF sp[t] = NoAddr THEN disk.tr[t].addr
                                                               ELSE sp[t]
    <3>1. disk.tr[t] \in Runtime
      BY <2>1 DEF Snapshot
    <3>2. tr'[t] = RestoredTransport(t, disk.tr[t], sp, kept)
      BY <2>2
    <3>3. t \in kept => tr'[t].addr = IF sp[t] = NoAddr THEN disk.tr[t].addr
                                                       ELSE sp[t]
      BY <3>1, <3>2 DEF RestoredTransport, ColdTransport, Runtime
    <3>4. t \notin kept => tr'[t].addr = NoAddr /\ tr'[t].state = "unknown"
      BY <3>2 DEF RestoredTransport, ColdTransport
    <3>5. QED
      BY <1>1, <3>3, <3>4 DEF Obeys
  <2>4. ASSUME NEW g \in Groups, grp'[g].winner \in Transports \ told,
               grp'[g].lpa # NoAddr
        PROVE  grp'[g].lpa = tr'[grp'[g].winner].addr
    <3> DEFINE w == grp'[g].winner
    <3>1. /\ w \in kept /\ w = disk.grp[g].winner
          /\ grp'[g].lpa = disk.grp[g].lpa
          /\ ~AddressEdited(w, disk.tr[w], sp)
      BY <1>1, <2>1, <2>2, <2>4, RestoredFollows
    <3>2. disk.grp[g].lpa = disk.tr[w].addr
      BY <1>5, <2>4, <3>1 DEF Declared, Follows
    <3>3. sp[w] = NoAddr \/ disk.tr[w].addr = sp[w]
      BY <2>4, <3>1, <3>2 DEF AddressEdited
    <3>4. QED
      BY <2>3, <2>4, <3>1, <3>2, <3>3
  <2>5. QED
    BY <1>1, <1>2, <1>3, <2>3, <2>4 DEF Declared, Follows
<1>6. QED
  BY <1>4, <1>5

\* Whatever the probe says: what it brings up is on record, and what it does
\* not bring up was known or declared.
LEMMA RecordDeclared ==
    ASSUME IInv, Declared, HistoryNext, NEW t \in Transports, NEW healthy \in BOOLEAN,
           NEW found \in Addr, Record(t, healthy, found)
    PROVE  Declared'
<1>1. /\ running /\ running' /\ spec' = spec /\ grp' = grp /\ disk' = disk
      /\ tr \in [Transports -> Runtime] /\ spec[t] \in Addr /\ clock \in Nat
  BY PeerAssumption DEF Record, IInv, TypeOK, Addr
<1>2. \A u \in Transports \ {t} : tr'[u] = tr[u]
  BY <1>1 DEF Record
<1>3. tr[t] \in Runtime
  BY <1>1
<1>4. tr'[t] = [(IF healthy THEN Succeeded(t, tr[t], clock) ELSE Failed(t, tr[t]))
                  EXCEPT !.addr = NewAddress(t, healthy, found)]
  BY <1>1 DEF Record
<1>5. /\ tr'[t].addr = NewAddress(t, healthy, found)
      /\ ~healthy => (tr'[t].state = "up" => tr[t].state = "up")
  BY <1>3, <1>4 DEF Succeeded, Failed, Runtime
<1>6. healthy => t \in PassedNow
  <2>1. ASSUME healthy PROVE tr'[t].succ > 0
    <3>1. UpThreshold[t] \in Nat \ {0} /\ tr[t].succ \in Nat
      BY <1>3, SelectionAssumption DEF Runtime
    <3>2. tr'[t].succ = IF tr[t].succ < UpThreshold[t] THEN tr[t].succ + 1
                                                      ELSE UpThreshold[t]
      BY <1>3, <1>4, <2>1 DEF Succeeded, Runtime
    <3>3. QED
      BY <3>1, <3>2
  <2>2. QED
    BY <2>1 DEF PassedNow, RecordedNow, Record, IInv, TypeOK
<1>7. /\ told \subseteq told' /\ reports \subseteq reports'
      /\ tr'[t].addr \notin {tr[t].addr, spec[t]} =>
            t \in told' /\ <<t, tr'[t].addr>> \in reports'
  <2>1. tr'[t].addr \notin {tr[t].addr, spec[t]} => healthy
    BY <1>5 DEF NewAddress
  <2>2. tr'[t].addr \notin {tr[t].addr, spec[t]} => t \in NamedNow
    BY <1>6, <2>1 DEF NamedNow
  <2>3. QED
    BY <1>1, <2>2 DEF HistoryNext
<1>8. \A u \in Transports, a \in Addr : <<u, a>> \in reports' => u \in told'
  BY <1>1 DEF HistoryNext, Declared
<1>9. spec[t] # NoAddr => Obeys(t, tr'[t], reports')
  <2>1. spec[t] # NoAddr => tr'[t].addr # NoAddr
    BY <1>5 DEF NewAddress
  <2>2. tr'[t].addr = tr[t].addr /\ spec[t] # NoAddr => Obeys(t, tr'[t], reports')
    BY <1>1, <1>7, <2>1 DEF Declared, Obeys
  <2>3. QED
    BY <1>7, <2>1, <2>2 DEF Obeys
<1>10. ASSUME NEW u \in Transports, spec[u] # NoAddr, u # t
       PROVE  Obeys(u, tr'[u], reports')
  BY <1>1, <1>2, <1>7, <1>10 DEF Declared, Obeys
<1>11. ASSUME NEW g \in Groups, grp[g].winner \in Transports \ told', grp[g].lpa # NoAddr
       PROVE  grp[g].lpa = tr'[grp[g].winner].addr
  <2>1. grp[g].lpa = tr[grp[g].winner].addr
    BY <1>7, <1>11 DEF Declared, Follows
  <2>2. CASE grp[g].winner # t
    BY <1>2, <1>11, <2>1, <2>2
  <2>3. CASE grp[g].winner = t
    <3>1. tr'[t].addr \in {tr[t].addr, spec[t]}
      BY <1>7, <1>11, <2>3
    <3>2. tr[t].addr \in Addr \ {NoAddr} /\ t \notin told
      BY <1>3, <1>7, <1>11, <2>1, <2>3 DEF Runtime
    <3>3. spec[t] # NoAddr => tr[t].addr = spec[t]
      BY <1>1, <3>2 DEF Declared, Obeys
    <3>4. spec[t] = NoAddr => tr'[t].addr # spec[t]
      BY <1>5, <3>2 DEF NewAddress
    <3>5. QED
      BY <2>1, <2>3, <3>1, <3>3, <3>4
  <2>4. QED
    BY <2>2, <2>3
<1>12. Follows(tr, grp, told)'
  BY <1>1, <1>11 DEF Follows
<1>13. disk' # NoState => Follows(disk.tr, disk.grp, told)'
  BY <1>1, <1>7 DEF Declared, Follows
<1>14. (running => \A u \in Transports : spec[u] # NoAddr => Obeys(u, tr[u], reports))'
  BY <1>1, <1>9, <1>10 DEF Obeys
<1>15. QED
  BY <1>8, <1>12, <1>13, <1>14 DEF Declared

LEMMA DecideDeclared ==
    ASSUME IInv, Declared, HistoryNext,
           NEW t \in Transports, NEW o \in Outcomes(GroupOf[t]), Decide(t, o)
    PROVE  Declared'
<1> DEFINE g == GroupOf[t]
<1>1. /\ running' = running /\ spec' = spec /\ tr' = tr /\ disk' = disk
      /\ g \in Groups /\ grp \in [Groups -> Group]
      /\ grp' = [grp EXCEPT ![g] = o.group]
  BY SelectionAssumption DEF Decide, IInv, TypeOK
<1>2. o.group.winner \in Transports \ told /\ o.group.lpa # NoAddr
      => o.group.lpa = tr[o.group.winner].addr
  <2>1. CASE o = AllDownOutcome(g)
    <3>1. grp[g] \in Group
      BY <1>1
    <3>2. \/ o.group.lpa = NoAddr
          \/ o.group.winner = grp[g].winner /\ o.group.lpa = grp[g].lpa
      BY <2>1, <3>1 DEF AllDownOutcome, Withdrawn, Group
    <3>3. QED
      BY <1>1, <3>2 DEF Declared, Follows
  <2>2. ASSUME NEW n \in Chosen(g, tr, grp[g], clock), o = ChosenOutcome(g, n)
        PROVE  \/ o.group.winner = n /\ o.group.lpa = tr[n].addr
               \/ /\ o.group.winner = n /\ n = grp[g].winner
                  /\ o.group.lpa = grp[g].lpa
    BY <2>2 DEF ChosenOutcome
  <2>3. QED
    BY <1>1, <2>1, <2>2 DEF Outcomes, Declared, Follows
<1>3. told' = told /\ reports' = reports
  <2>1. running' /\ RecordedNow = {}
    BY DEF Decide, RecordedNow, IInv, TypeOK
  <2>2. QED
    BY <2>1, NothingNamed
<1>4. QED
  BY <1>1, <1>2, <1>3 DEF Declared, Follows, Obeys

LEMMA NextDeclared ==
    IInv /\ Declared /\ [HistoryNext]_historyVars => Declared'
<1> SUFFICES ASSUME IInv, Declared, [HistoryNext]_historyVars PROVE Declared'
  OBVIOUS
<1>1. CASE UNCHANGED historyVars
  BY <1>1 DEF historyVars, vars, memory, Declared, Follows, Obeys
<1>2. CASE HistoryNext
  <2>1. ASSUME RecordedNow = {}, UNCHANGED <<spec, grp, tr>>, running' => running,
               disk' \in {disk, NoState, [tr |-> tr, grp |-> grp]}
        PROVE  Declared'
    <3>1. told' = told /\ reports' = IF running' THEN reports ELSE {}
      BY <1>2, <2>1, NothingNamed
    <3>2. QED
      BY <2>1, <3>1 DEF Declared, Follows, Obeys
  <2>2. ASSUME NEW t \in Transports, Worker(t) PROVE Declared'
    <3>1. CASE Publish(t) \/ Save(t)
      <4>1. RecordedNow = {}
        BY <3>1 DEF Publish, Save, RecordedNow, IInv, TypeOK
      <4>2. QED
        BY <2>1, <3>1, <4>1 DEF Publish, Save
    <3>2. QED
      BY <1>2, <2>2, <3>1, RecordDeclared, DecideDeclared DEF Worker
  <2>3. CASE Crash
    <3>1. RecordedNow = {}
      BY <2>3 DEF Crash, RecordedNow
    <3>2. told' = told /\ reports' = {}
      BY <1>2, <2>3, <3>1, NothingNamed DEF Crash
    <3>3. QED
      BY <2>3, <3>2 DEF Crash, Declared, Follows, ColdGroup
  <2>4. CASE LoseState \/ ClearBlock \/ Tick
    <3>1. RecordedNow = {}
      BY <2>4 DEF LoseState, ClearBlock, Tick, memory, RecordedNow
    <3>2. QED
      BY <2>1, <2>4, <3>1 DEF LoseState, ClearBlock, Tick, memory
  <2>5. QED
    BY <1>2, <2>2, <2>3, <2>4, StartDeclared DEF HistoryNext, Next
<1>3. QED
  BY <1>1, <1>2

\* A declared address is overruled by what a probe reports and by nothing that
\* is remembered, through any edits of the configuration between two starts,
\* crashes and losses of state.json.
THEOREM DeclarationsWin == HistorySpec => []DeclarationWins
<1>1. HistoryInit => Declared
  BY DEF HistoryInit, Init, Declared, Follows, ColdGroup
<1>2. IInv /\ Declared /\ DecisionIsCurrent => DeclarationWins
  <2> SUFFICES ASSUME IInv, Declared, DecisionIsCurrent, NEW g \in Groups, running,
                      grp[g].lpa # NoAddr, grp[g].winner # NoTransport,
                      spec[grp[g].winner] # NoAddr
               PROVE  LET w == grp[g].winner
                      IN  /\ w \notin told => grp[g].lpa = spec[w]
                          /\ /\ g \in settled /\ \A t \in Of(g) : pc[t] # "recorded"
                             /\ Candidates(g, tr) # {}
                             => grp[g].lpa = spec[w] \/ <<w, grp[g].lpa>> \in reports
    BY DEF DeclarationWins
  <2> DEFINE w == grp[g].winner
  <2>1. w \in Transports /\ tr[w] \in Runtime /\ grp[g].lpa \in Addr
    BY DEF IInv, TypeOK, Group
  <2>2. Obeys(w, tr[w], reports)
    BY <2>1 DEF Declared
  <2>3. w \notin told => grp[g].lpa = tr[w].addr /\ <<w, tr[w].addr>> \notin reports
    BY <2>1 DEF Declared, Follows
  <2>4. ASSUME g \in settled, \A t \in Of(g) : pc[t] # "recorded", Candidates(g, tr) # {}
        PROVE  grp[g].lpa = tr[w].addr
    <3>1. w \in Candidates(g, tr) /\ (tr[w].addr # NoAddr => grp[g].lpa = tr[w].addr)
      BY <2>4 DEF DecisionIsCurrent
    <3>2. tr[w].state = "up"
      BY <3>1 DEF Candidates
    <3>3. QED
      BY <2>2, <3>1, <3>2 DEF Obeys
  <2>5. QED
    BY <2>2, <2>3, <2>4 DEF Obeys
<1>3. QED
  BY <1>1, <1>2, HistoryInvariance, DecisionsAreCurrent, NextDeclared, PTL DEF HistorySpec
=============================================================================
