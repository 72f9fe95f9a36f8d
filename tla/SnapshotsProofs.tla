---------------------------- MODULE SnapshotsProofs ----------------------------
(***************************************************************************)
(* What state.json and status.json tell, for any number of workers, any    *)
(* throttles and any crashes and failed writes.                            *)
(***************************************************************************)
EXTENDS Snapshots, TLAPS

\* A writer lock is held from the snapshot to the rename, and a process that
\* is not there holds and writes nothing.
Holders ==
    /\ \A w \in Workers :
        /\ pc[w] = "saving" => saver = w
        /\ pc[w] = "showing" => shower = w
    /\ ~running => sinceSave = Never /\ \A w \in Workers : pc[w] = "idle"

\* So a snapshot is between its file and the memory.
Ordered ==
    /\ disk <= version /\ status.version <= version /\ due <= version
    /\ \A w \in Workers :
        /\ pc[w] = "saving" =>
             disk <= taken[w].version /\ taken[w].version <= version
        /\ pc[w] = "showing" =>
             status.version <= taken[w].version /\ taken[w].version <= version

\* What a document has left to live is not more than its news allows.
Fresh(doc) == doc.well /\ doc.left >= 0 => unwell + doc.left <= Ttl
Recent ==
    /\ well => unwell = 0
    /\ Fresh(status) /\ \A w \in Workers : Fresh(taken[w])

SInv == TypeOK /\ Holders /\ Ordered

Docs == [version : Nat, well : BOOLEAN, left : -1..Ttl]

LEMMA DocTypes ==
    /\ NoStatus \in Docs
    /\ \A v \in Nat, ok \in BOOLEAN : Copy(v, ok) \in Docs
    /\ \A doc \in Docs : [doc EXCEPT !.left = Closer(@)] \in Docs
    /\ \A doc \in Docs, v \in Nat : [doc EXCEPT !.version = v] \in Docs
BY SnapshotsAssumption DEF Docs, NoStatus, Copy, Closer

LEMMA OlderTypes ==
    /\ \A n \in {Never} \cup 0..SaveEvery :
         Older(n, SaveEvery) \in {Never} \cup 0..SaveEvery
    /\ \A n \in {Never} \cup 0..ShowEvery :
         Older(n, ShowEvery) \in {Never} \cup 0..ShowEvery
    /\ \A n \in 0..(Ttl + 1) :
         Older(n, Ttl + 1) \in 0..(Ttl + 1) /\ Older(n, Ttl + 1) <= n + 1
BY SnapshotsAssumption DEF Older

LEMMA ForceTypes ==
    /\ NoForce \in [save : BOOLEAN, show : BOOLEAN]
    /\ \A kind : Forces(kind) \in [save : BOOLEAN, show : BOOLEAN]
BY DEF NoForce, Forces

LEMMA ChangeTypes ==
    ASSUME TypeOK, NEW ok \in BOOLEAN, Change(ok)
    PROVE  /\ version' = version + 1 /\ version' \in Nat
           /\ well' \in BOOLEAN /\ unwell' \in 0..(Ttl + 1)
BY SnapshotsAssumption DEF TypeOK, Change

-----------------------------------------------------------------------------
(* Types. *)

LEMMA InitTypes == Init => TypeOK
<1> SUFFICES ASSUME Init PROVE TypeOK
  OBVIOUS
<1>1. /\ 0 \in 0..SaveEvery /\ 0 \in Nat /\ Ttl + 1 \in 0..(Ttl + 1)
      /\ missed \subseteq {"save", "show"}
  BY SnapshotsAssumption DEF Init
<1>2. pc \in [Workers -> Stages]
  BY DEF Init, Stages
<1>3. /\ taken \in [Workers -> Docs] /\ status \in Docs
      /\ force \in [Workers -> [save : BOOLEAN, show : BOOLEAN]]
  BY DocTypes, ForceTypes DEF Init
<1>4. QED
  BY <1>1, <1>2, <1>3 DEF Init, TypeOK, Docs

LEMMA TypesStep == TypeOK /\ [Next]_vars => TypeOK'
<1> SUFFICES ASSUME TypeOK, [Next]_vars PROVE TypeOK'
  OBVIOUS
<1> USE SnapshotsAssumption, DocTypes, ForceTypes
    DEF TypeOK, Stages, Docs
<1>1. CASE Start
  <2>1. PICK ok \in BOOLEAN : Change(ok)
    BY <1>1 DEF Start
  <2>2. /\ version' \in Nat /\ well' \in BOOLEAN /\ due' \in Nat
        /\ unwell' \in 0..(Ttl + 1)
    BY <1>1, <2>1, ChangeTypes DEF Start
  <2>3. status' \in Docs /\ sinceShow' \in {Never} \cup 0..ShowEvery
    BY <1>1, <2>2 DEF Start
  <2>4. QED
    BY <1>1, <2>2, <2>3 DEF Start, Fault
<1>2. CASE Crash
  <2>1. /\ pc' \in [Workers -> Stages] /\ taken' \in [Workers -> Docs]
        /\ force' \in [Workers -> [save : BOOLEAN, show : BOOLEAN]]
    BY <1>2 DEF Crash
  <2>2. /\ disk' \in Nat /\ status' \in Docs /\ due' \in Nat
        /\ missed' \subseteq {"save", "show"} /\ unwell' \in 0..(Ttl + 1)
        /\ faults' \in Nat /\ version' \in Nat
    BY <1>2 DEF Crash, Fault, history
  <2>3. QED
    BY <1>2, <2>1, <2>2 DEF Crash
<1>3. CASE Tick
  BY <1>3, OlderTypes DEF Tick, memory
<1>4. ASSUME NEW w \in Workers, NEW kind \in {"none", "address", "transition"},
             Probe(w, kind)
      PROVE  TypeOK'
  <2>1. force' \in [Workers -> [save : BOOLEAN, show : BOOLEAN]]
    BY <1>4 DEF Probe
  <2>2. version' \in Nat /\ due' \in Nat /\ pc' \in [Workers -> Stages]
    BY <1>4 DEF Probe, At
  <2>3. QED
    BY <1>4, <2>1, <2>2 DEF Probe, locks
<1>5. ASSUME NEW w \in Workers, NEW changed \in BOOLEAN, Reconcile(w, changed)
      PROVE  TypeOK'
  <2>1. /\ version' \in Nat /\ well' \in BOOLEAN /\ due' \in Nat
        /\ unwell' \in 0..(Ttl + 1)
    BY <1>5, ChangeTypes DEF Reconcile, Decide, Published, Update, memory
  <2>2. force' \in [Workers -> [save : BOOLEAN, show : BOOLEAN]]
    BY <1>5 DEF Reconcile, Decide, Published, Update
  <2>3. pc' \in [Workers -> Stages]
    BY <1>5 DEF Reconcile, Decide, Published, Update, At
  <2>4. QED
    BY <1>5, <2>1, <2>2, <2>3 DEF Reconcile, Decide, Published, Update, locks
<1>6. ASSUME NEW w \in Workers, SaveSkipped(w) PROVE TypeOK'
  BY <1>6 DEF SaveSkipped, At, memory, locks, history
<1>7. ASSUME NEW w \in Workers, Save(w) PROVE TypeOK'
  BY <1>7 DEF Save, At, memory, history
<1>8. ASSUME NEW w \in Workers, Saved(w) PROVE TypeOK'
  BY <1>8 DEF Saved, At, memory, Fault
<1>9. ASSUME NEW w \in Workers, ShowSkipped(w) PROVE TypeOK'
  BY <1>9 DEF ShowSkipped, At, memory, locks, history
<1>10. ASSUME NEW w \in Workers, Show(w) PROVE TypeOK'
  BY <1>10 DEF Show, At, memory, history
<1>11. ASSUME NEW w \in Workers, Shown(w) PROVE TypeOK'
  BY <1>11 DEF Shown, At, memory, Fault
<1>12. CASE UNCHANGED vars
  BY <1>12 DEF vars, memory, locks, history
<1>13. QED
  BY <1>1, <1>2, <1>3, <1>4, <1>5, <1>6, <1>7, <1>8, <1>9, <1>10, <1>11,
     <1>12 DEF Next

\* Every variable keeps its type.
THEOREM SnapshotTypes == Spec => []TypeOK
<1>1. QED
  BY InitTypes, TypesStep, PTL DEF Spec

-----------------------------------------------------------------------------
(* The locks, and what stands between a file and the memory. *)

LEMMA InitHolders == Init => Holders /\ Ordered
BY DEF Init, Holders, Ordered, NoStatus

LEMMA HoldersStep == TypeOK /\ Holders /\ [Next]_vars => Holders'
<1> SUFFICES ASSUME TypeOK, Holders, [Next]_vars PROVE Holders'
  OBVIOUS
<1> USE SnapshotsAssumption DEF TypeOK, Holders, At
<1>1. CASE Start
  BY <1>1 DEF Start
<1>2. CASE Crash
  BY <1>2 DEF Crash
<1>3. CASE Tick
  BY <1>3 DEF Tick, Older
<1>4. ASSUME NEW w \in Workers, NEW kind \in {"none", "address", "transition"},
             Probe(w, kind)
      PROVE  Holders'
  BY <1>4 DEF Probe, locks
<1>5. ASSUME NEW w \in Workers, NEW changed \in BOOLEAN, Reconcile(w, changed)
      PROVE  Holders'
  BY <1>5 DEF Reconcile, Decide, Published, Update, locks
<1>6. ASSUME NEW w \in Workers, SaveSkipped(w) PROVE Holders'
  BY <1>6 DEF SaveSkipped, locks
<1>7. ASSUME NEW w \in Workers, Save(w) PROVE Holders'
  BY <1>7 DEF Save
<1>8. ASSUME NEW w \in Workers, Saved(w) PROVE Holders'
  BY <1>8 DEF Saved
<1>9. ASSUME NEW w \in Workers, ShowSkipped(w) PROVE Holders'
  BY <1>9 DEF ShowSkipped, locks
<1>10. ASSUME NEW w \in Workers, Show(w) PROVE Holders'
  BY <1>10 DEF Show
<1>11. ASSUME NEW w \in Workers, Shown(w) PROVE Holders'
  BY <1>11 DEF Shown
<1>12. CASE UNCHANGED vars
  BY <1>12 DEF vars, locks
<1>13. QED
  BY <1>1, <1>2, <1>3, <1>4, <1>5, <1>6, <1>7, <1>8, <1>9, <1>10, <1>11,
     <1>12 DEF Next

\* One lemma for both files: no step takes the memory back.
LEMMA VersionsRise == TypeOK /\ [Next]_vars => version' \in Nat /\ version' >= version
BY DEF TypeOK, Next, vars, memory, Start, Crash, Tick, Probe, Reconcile,
       Decide, Published, Update, Change, SaveSkipped, Save, Saved, ShowSkipped, Show, Shown

LEMMA OrderedStep == SInv /\ [Next]_vars => Ordered'
<1> SUFFICES ASSUME SInv, [Next]_vars PROVE Ordered'
  OBVIOUS
<1> USE DEF SInv, TypeOK, Ordered, At
<1>1. CASE Start
  BY <1>1 DEF Start, Holders, Change, Copy
<1>2. CASE Crash
  BY <1>2 DEF Crash, history
<1>3. CASE Tick
  BY <1>3 DEF Tick, memory
<1>4. ASSUME NEW w \in Workers, NEW kind \in {"none", "address", "transition"},
             Probe(w, kind)
      PROVE  Ordered'
  BY <1>4 DEF Probe
<1>5. ASSUME NEW w \in Workers, NEW changed \in BOOLEAN, Reconcile(w, changed)
      PROVE  Ordered'
  BY <1>5 DEF Reconcile, Decide, Published, Update, memory, Change
<1>6. ASSUME NEW w \in Workers, SaveSkipped(w) PROVE Ordered'
  BY <1>6 DEF SaveSkipped, memory, history
<1>7. ASSUME NEW w \in Workers, Save(w) PROVE Ordered'
  BY <1>7 DEF Save, memory, history
<1>8. ASSUME NEW w \in Workers, Saved(w) PROVE Ordered'
  BY <1>8 DEF Saved, Holders, memory
<1>9. ASSUME NEW w \in Workers, ShowSkipped(w) PROVE Ordered'
  BY <1>9 DEF ShowSkipped, memory, history
<1>10. ASSUME NEW w \in Workers, Show(w) PROVE Ordered'
  BY <1>10 DEF Show, memory, history, Copy
<1>11. ASSUME NEW w \in Workers, Shown(w) PROVE Ordered'
  BY <1>11 DEF Shown, Holders, memory
<1>12. CASE UNCHANGED vars
  BY <1>12 DEF vars, memory, history
<1>13. QED
  BY <1>1, <1>2, <1>3, <1>4, <1>5, <1>6, <1>7, <1>8, <1>9, <1>10, <1>11,
     <1>12 DEF Next

LEMMA SInvHolds == Spec => []SInv
<1>1. Init => SInv
  BY InitTypes, InitHolders DEF SInv
<1>2. SInv /\ [Next]_vars => SInv'
  BY TypesStep, HoldersStep, OrderedStep DEF SInv
<1>3. QED
  BY <1>1, <1>2, PTL DEF Spec

-----------------------------------------------------------------------------
(* The refinement. *)

\* state.json and status.json both lag behind the memory, as LaggingCopy
\* says: they only tell what was, and never go back.  This is what the writer
\* locks are for: save_state and write_status hold them from the snapshot to
\* the rename.
THEOREM FilesRefine == Spec => FilesLag
<1>1. Init => StateFile!Init /\ StatusFile!Init
  BY DEF Init, StateFile!Init, StatusFile!Init, NoStatus
<1>2. ASSUME SInv, SInv', [Next]_vars
      PROVE  [StateFile!Next]_<<version, disk>>
  <2>1. version' \in Nat /\ version' >= version /\ disk' \in Nat
    BY <1>2, VersionsRise DEF SInv, TypeOK
  <2>2. disk' = disk \/ (disk <= disk' /\ disk' <= version')
    BY <1>2 DEF SInv, TypeOK, Ordered, Next, vars, memory, locks, At, Start, Crash,
       Tick, Probe, Reconcile, Decide, Published, Update, SaveSkipped, Save,
       Saved, ShowSkipped, Show, Shown
  <2>3. QED
    BY <1>2, <2>1, <2>2
    DEF SInv, TypeOK, StateFile!Next, StateFile!Change, StateFile!Refresh
<1>3. ASSUME SInv, SInv', [Next]_vars
      PROVE  [StatusFile!Next]_<<version, status.version>>
  <2>1. /\ version' \in Nat /\ version' >= version
        /\ status.version \in Nat /\ (status.version)' \in Nat
    BY <1>3, VersionsRise DEF SInv, TypeOK
  <2>2. \/ (status.version)' = status.version
        \/ status.version <= (status.version)' /\ (status.version)' <= version'
    <3>1. CASE Tick
      BY <1>3, <3>1 DEF SInv, TypeOK, Tick
    <3>2. CASE Start
      BY <1>3, <3>2 DEF SInv, TypeOK, Ordered, Start, Copy, Change
    <3>3. ASSUME NEW w \in Workers, Shown(w)
          PROVE  /\ status.version <= (status.version)'
                 /\ (status.version)' <= version'
      BY <1>3, <3>3 DEF SInv, TypeOK, Ordered, Shown, At, memory
    <3>4. QED
      BY <1>3, <3>1, <3>2, <3>3
      DEF Next, vars, locks, Crash, Probe, Reconcile, Decide, Published, Update,
          SaveSkipped, Save, Saved, ShowSkipped, Show
  <2>3. CASE version' = version /\ (status.version)' = status.version
    BY <2>3
  <2>4. CASE version' > version /\ (status.version)' = status.version
    BY <2>1, <2>4 DEF StatusFile!Next, StatusFile!Change
  <2>5. CASE (status.version)' > status.version
    BY <2>1, <2>2, <2>5 DEF StatusFile!Next, StatusFile!Refresh
  <2>6. version' = version \/ version' > version
    BY <2>1, <1>3 DEF SInv, TypeOK
  <2>7. (status.version)' = status.version \/ (status.version)' > status.version
    BY <2>1, <2>2
  <2>8. QED
    BY <2>3, <2>4, <2>5, <2>6, <2>7
<1>4. QED
  BY <1>1, <1>2, <1>3, SInvHolds, PTL
  DEF Spec, FilesLag, StateFile!Spec, StatusFile!Spec, StateFile!vars,
      StatusFile!vars

-----------------------------------------------------------------------------
(* Nothing that has to be written is forgotten. *)

\* What waits for its rename was all there was to write, or somebody is going
\* to write again: he cannot have done so, because the lock is taken.
Covered ==
    \A w \in Workers :
        /\ pc[w] = "saving" =>
             taken[w].version = version \/ \E v \in Workers : Pending(v)
        /\ pc[w] = "showing" =>
             taken[w].version >= due \/ \E v \in Workers : ToShow(v)

LEMMA InitKept == Init => Covered /\ NothingIsDropped
BY DEF Init, Covered, NothingIsDropped, ChangesAreSaved, TransitionsAreShown

LEMMA CoveredStep == SInv /\ Covered /\ [Next]_vars => Covered'
<1> SUFFICES ASSUME SInv, Covered, [Next]_vars PROVE Covered'
  OBVIOUS
<1> USE DEF SInv, TypeOK, Covered, Pending, ToShow, At
<1>1. CASE Start
  BY <1>1 DEF Start, Holders
<1>2. CASE Crash
  BY <1>2 DEF Crash
<1>3. CASE Tick
  BY <1>3 DEF Tick, memory
<1>4. ASSUME NEW w \in Workers, NEW kind \in {"none", "address", "transition"},
             Probe(w, kind)
      PROVE  Covered'
  <2>1. /\ w \in Workers /\ pc[w] = "idle" /\ taken' = taken
        /\ \A u \in Workers : u # w => pc'[u] = pc[u] /\ force'[u] = force[u]
        /\ pc'[w] = "probed"
    BY <1>4 DEF Probe
  <2>2. \A u \in Workers : /\ Pending(u) => Pending(u)'
                           /\ ToShow(u) => ToShow(u)'
    BY <2>1
  <2>3. version' = version \/ Pending(w)'
    BY <1>4, <2>1 DEF Probe, Forces
  <2>4. due' = due \/ ToShow(w)'
    BY <1>4, <2>1 DEF Probe, Forces
  <2>5. QED
    BY <2>1, <2>2, <2>3, <2>4
<1>5. ASSUME NEW w \in Workers, NEW changed \in BOOLEAN, Reconcile(w, changed)
      PROVE  Covered'
  BY <1>5 DEF Reconcile, Decide, Published, Update, Forces, memory
<1>6. ASSUME NEW w \in Workers, SaveSkipped(w) PROVE Covered'
  BY <1>6 DEF SaveSkipped, memory, locks, history, Coalesced
<1>7. ASSUME NEW w \in Workers, Save(w) PROVE Covered'
  <2>1. /\ \A u \in Workers : pc[u] # "saving"
        /\ \A u \in Workers : u # w => pc'[u] = pc[u] /\ taken'[u] = taken[u]
        /\ pc'[w] = "saving" /\ taken'[w].version = version
        /\ version' = version /\ due' = due /\ force' = force
    BY <1>7, SnapshotsAssumption DEF Save, Holders, memory, history
  <2>2. \A u \in Workers : ToShow(u) => ToShow(u)'
    BY <1>7, <2>1 DEF Save
  <2>3. QED
    BY <2>1, <2>2
<1>8. ASSUME NEW w \in Workers, Saved(w) PROVE Covered'
  BY <1>8 DEF Saved, memory
<1>9. ASSUME NEW w \in Workers, ShowSkipped(w) PROVE Covered'
  BY <1>9 DEF ShowSkipped, memory, locks, history, Coalesced
<1>10. ASSUME NEW w \in Workers, Show(w) PROVE Covered'
  <2>1. /\ \A u \in Workers : pc[u] # "showing"
        /\ \A u \in Workers : u # w => pc'[u] = pc[u] /\ taken'[u] = taken[u]
        /\ pc[w] = "show" /\ pc'[w] = "showing"
        /\ taken'[w].version = version /\ due <= version
        /\ version' = version /\ due' = due /\ force' = force
    BY <1>10, SnapshotsAssumption
    DEF Show, Holders, Ordered, Copy, memory, history
  <2>2. \A u \in Workers : Pending(u) => Pending(u)'
    BY <2>1
  <2>3. QED
    BY <2>1, <2>2
<1>11. ASSUME NEW w \in Workers, Shown(w) PROVE Covered'
  BY <1>11 DEF Shown, memory
<1>12. CASE UNCHANGED vars
  BY <1>12 DEF vars, memory, history
<1>13. QED
  BY <1>1, <1>2, <1>3, <1>4, <1>5, <1>6, <1>7, <1>8, <1>9, <1>10, <1>11,
     <1>12 DEF Next

LEMMA SavedStep ==
    SInv /\ Covered /\ ChangesAreSaved /\ [Next]_vars => ChangesAreSaved'
<1> SUFFICES ASSUME SInv, Covered, ChangesAreSaved, [Next]_vars
             PROVE  ChangesAreSaved'
  OBVIOUS
<1> USE DEF SInv, TypeOK, ChangesAreSaved, Pending, At
<1>1. CASE Start
  BY <1>1 DEF Start, Holders
<1>2. CASE Crash
  BY <1>2 DEF Crash
<1>3. CASE Tick
  BY <1>3 DEF Tick, memory, Older
<1>4. ASSUME NEW w \in Workers, NEW kind \in {"none", "address", "transition"},
             Probe(w, kind)
      PROVE  ChangesAreSaved'
  BY <1>4 DEF Probe, Forces, locks
<1>5. ASSUME NEW w \in Workers, NEW changed \in BOOLEAN, Reconcile(w, changed)
      PROVE  ChangesAreSaved'
  <2>1. CASE Decide(w, changed)
    BY <2>1 DEF Decide, Update, Forces, memory, locks
  <2>2. CASE Published(w, changed)
    BY <2>2 DEF Published, Update, Forces, memory, locks
  <2>3. QED
    BY <1>5, <2>1, <2>2 DEF Reconcile
<1>6. ASSUME NEW w \in Workers, SaveSkipped(w) PROVE ChangesAreSaved'
  BY <1>6 DEF SaveSkipped, Coalesced, memory, locks, history
<1>7. ASSUME NEW w \in Workers, Save(w) PROVE ChangesAreSaved'
  BY <1>7 DEF Save, memory, history
<1>8. ASSUME NEW w \in Workers, Saved(w) PROVE ChangesAreSaved'
  <2>1. /\ pc[w] = "saving" /\ version' = version
        /\ disk' = taken[w].version \/ "save" \in missed'
    BY <1>8 DEF Saved, memory
  <2>2. CASE taken[w].version = version
    BY <2>1, <2>2
  <2>3. ASSUME NEW v \in Workers, Pending(v) PROVE Pending(v)'
    BY <1>8, <2>1, <2>3 DEF Saved
  <2>4. QED
    BY <2>1, <2>2, <2>3 DEF Covered
<1>9. ASSUME NEW w \in Workers, ShowSkipped(w) PROVE ChangesAreSaved'
  BY <1>9 DEF ShowSkipped, memory, locks, history
<1>10. ASSUME NEW w \in Workers, Show(w) PROVE ChangesAreSaved'
  BY <1>10 DEF Show, memory, history
<1>11. ASSUME NEW w \in Workers, Shown(w) PROVE ChangesAreSaved'
  BY <1>11 DEF Shown, memory
<1>12. CASE UNCHANGED vars
  BY <1>12 DEF vars, memory, locks, history
<1>13. QED
  BY <1>1, <1>2, <1>3, <1>4, <1>5, <1>6, <1>7, <1>8, <1>9, <1>10, <1>11,
     <1>12 DEF Next

LEMMA ShownStep ==
    SInv /\ Covered /\ TransitionsAreShown /\ [Next]_vars
        => TransitionsAreShown'
<1> SUFFICES ASSUME SInv, Covered, TransitionsAreShown, [Next]_vars
             PROVE  TransitionsAreShown'
  OBVIOUS
<1> USE DEF SInv, TypeOK, TransitionsAreShown, ToShow, At
<1>1. CASE Start
  BY <1>1 DEF Start, Copy, Change
<1>2. CASE Crash
  BY <1>2 DEF Crash
<1>3. CASE Tick
  BY <1>3 DEF Tick
<1>4. ASSUME NEW w \in Workers, NEW kind \in {"none", "address", "transition"},
             Probe(w, kind)
      PROVE  TransitionsAreShown'
  BY <1>4 DEF Probe, Forces
<1>5. ASSUME NEW w \in Workers, NEW changed \in BOOLEAN, Reconcile(w, changed)
      PROVE  TransitionsAreShown'
  <2>1. CASE Decide(w, changed)
    BY <2>1 DEF Decide, Update, Forces
  <2>2. CASE Published(w, changed)
    BY <2>2 DEF Published, Update, Forces
  <2>3. QED
    BY <1>5, <2>1, <2>2 DEF Reconcile
<1>6. ASSUME NEW w \in Workers, SaveSkipped(w) PROVE TransitionsAreShown'
  BY <1>6 DEF SaveSkipped, history
<1>7. ASSUME NEW w \in Workers, Save(w) PROVE TransitionsAreShown'
  BY <1>7 DEF Save, history
<1>8. ASSUME NEW w \in Workers, Saved(w) PROVE TransitionsAreShown'
  BY <1>8 DEF Saved
<1>9. ASSUME NEW w \in Workers, ShowSkipped(w) PROVE TransitionsAreShown'
  BY <1>9 DEF ShowSkipped, Coalesced, history
<1>10. ASSUME NEW w \in Workers, Show(w) PROVE TransitionsAreShown'
  BY <1>10 DEF Show, history, Copy, Ordered
<1>11. ASSUME NEW w \in Workers, Shown(w) PROVE TransitionsAreShown'
  <2>1. /\ pc[w] = "showing" /\ due' = due
        /\ (status' = taken[w] \/ "show" \in missed')
    BY <1>11 DEF Shown
  <2>2. CASE taken[w].version >= due
    BY <2>1, <2>2
  <2>3. ASSUME NEW v \in Workers, ToShow(v) PROVE ToShow(v)'
    BY <1>11, <2>1, <2>3 DEF Shown
  <2>4. QED
    BY <2>1, <2>2, <2>3 DEF Covered
<1>12. CASE UNCHANGED vars
  BY <1>12 DEF vars, history
<1>13. QED
  BY <1>1, <1>2, <1>3, <1>4, <1>5, <1>6, <1>7, <1>8, <1>9, <1>10, <1>11,
     <1>12 DEF Next

\* No change is lost between the memory and state.json, and no transition
\* between the memory and status.json: whoever made it forces its own write.
THEOREM NothingDropped == Spec => []NothingIsDropped
<1>1. SInv /\ Covered /\ NothingIsDropped /\ [Next]_vars
        => Covered' /\ NothingIsDropped'
  BY CoveredStep, SavedStep, ShownStep DEF NothingIsDropped
<1>2. QED
  BY <1>1, InitKept, SInvHolds, PTL DEF Spec

-----------------------------------------------------------------------------
(* What a green document means. *)

LEMMA InitRecent == Init => Recent
BY DEF Init, Recent, Fresh, NoStatus

LEMMA RecentStep == TypeOK /\ Recent /\ [Next]_vars => Recent'
<1> SUFFICES ASSUME TypeOK, Recent, [Next]_vars PROVE Recent'
  OBVIOUS
<1> USE SnapshotsAssumption DEF TypeOK, Recent, Fresh
<1>1. CASE Start
  BY <1>1 DEF Start, Copy, Change
<1>2. CASE Crash
  BY <1>2 DEF Crash, history, NoStatus
<1>3. CASE Tick
  <2>1. unwell' <= unwell + 1 /\ (well => unwell' = 0)
    BY <1>3, OlderTypes DEF Tick
  <2>2. ASSUME NEW doc \in Docs, Fresh(doc)
        PROVE  doc.well /\ Closer(doc.left) >= 0
                 => unwell' + Closer(doc.left) <= Ttl
    <3>1. /\ doc.left \in Int /\ doc.left >= -1 /\ unwell \in Int /\ unwell' \in Int
      BY <1>3, OlderTypes DEF Docs, Tick
    <3>2. Closer(doc.left) >= 0 => doc.left >= 0 /\ Closer(doc.left) = doc.left - 1
      BY <3>1 DEF Closer
    <3>3. QED
      BY <2>1, <2>2, <3>1, <3>2
  <2>3. \A doc \in Docs : /\ [doc EXCEPT !.left = Closer(@)].well = doc.well
                          /\ [doc EXCEPT !.left = Closer(@)].left = Closer(doc.left)
    BY DEF Docs
  <2>4. Fresh(status)'
    BY <1>3, <2>2, <2>3 DEF Tick, Docs
  <2>5. ASSUME NEW w \in Workers PROVE Fresh(taken[w])'
    BY <1>3, <2>2, <2>3 DEF Tick, Docs
  <2>6. QED
    BY <1>3, <2>1, <2>4, <2>5 DEF Tick, memory
<1>4. ASSUME NEW w \in Workers, NEW kind \in {"none", "address", "transition"},
             Probe(w, kind)
      PROVE  Recent'
  BY <1>4 DEF Probe
<1>5. ASSUME NEW w \in Workers, NEW changed \in BOOLEAN, Reconcile(w, changed)
      PROVE  Recent'
  BY <1>5 DEF Reconcile, Decide, Published, Update, memory, Change
<1>6. ASSUME NEW w \in Workers, SaveSkipped(w) PROVE Recent'
  BY <1>6 DEF SaveSkipped, memory, history
<1>7. ASSUME NEW w \in Workers, Save(w) PROVE Recent'
  BY <1>7 DEF Save, memory, history
<1>8. ASSUME NEW w \in Workers, Saved(w) PROVE Recent'
  BY <1>8 DEF Saved, memory, NoStatus
<1>9. ASSUME NEW w \in Workers, ShowSkipped(w) PROVE Recent'
  BY <1>9 DEF ShowSkipped, memory, history
<1>10. ASSUME NEW w \in Workers, Show(w) PROVE Recent'
  BY <1>10 DEF Show, memory, history, Copy
<1>11. ASSUME NEW w \in Workers, Shown(w) PROVE Recent'
  BY <1>11 DEF Shown, memory, NoStatus
<1>12. CASE UNCHANGED vars
  BY <1>12 DEF vars, memory, history
<1>13. QED
  BY <1>1, <1>2, <1>3, <1>4, <1>5, <1>6, <1>7, <1>8, <1>9, <1>10, <1>11,
     <1>12 DEF Next

\* A nixnetctl that says healthy speaks of an instant that is at most Ttl
\* past, whatever became of the process since.
THEOREM GreenStaysRecent == Spec => []GreenIsRecent
<1>1. TypeOK /\ Recent => GreenIsRecent
  BY SnapshotsAssumption DEF TypeOK, Recent, Fresh, GreenIsRecent, Healthy
<1>2. QED
  BY <1>1, InitTypes, TypesStep, InitRecent, RecentStep, PTL DEF Spec
=============================================================================
