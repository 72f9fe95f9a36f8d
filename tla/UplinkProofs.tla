------------------------------ MODULE UplinkProofs ------------------------------
(***************************************************************************)
(* What the uplink engine keeps, and what its commands never do to the     *)
(* kernel's table, for any groups, interfaces and gateways and any number  *)
(* of crashes, failed commands and DHCP writes.                            *)
(***************************************************************************)
EXTENDS UplinkHistory, SelectionProofs, FiniteSetTheorems, WellFoundedInduction

Jobs == [left : SUBSET Groups, group : SUBSET Groups,
         todo : SUBSET Item, at : {"show", "replace", "delete"},
         keep : SUBSET Routes, stale : SUBSET Routes, failed : BOOLEAN]

-----------------------------------------------------------------------------
(* Types of what the steps compute. *)

LEMMA CountedType ==
    ASSUME NEW t \in Transports, NEW r \in Runtime, NEW now \in Nat
    PROVE  Succeeded(t, r, now) \in Runtime /\ Failed(t, r) \in Runtime
<1>1. UpThreshold[t] \in Nat /\ DownThreshold[t] \in Nat
  BY SelectionAssumption
<1>2. /\ (IF r.succ < UpThreshold[t] THEN r.succ + 1 ELSE UpThreshold[t]) \in Nat
      /\ (IF r.fail < DownThreshold[t] THEN r.fail + 1 ELSE DownThreshold[t]) \in Nat
  BY <1>1 DEF Runtime
<1>3. QED
  BY <1>2 DEF Succeeded, Failed, Runtime, TransportState, Time

LEMMA ColdTypes ==
    ColdTransport \in Runtime /\ ColdGroup \in Group /\ NoJob \in Jobs /\ NoJob.at = "show"
BY DEF ColdTransport, ColdGroup, NoJob, Runtime, Group, Jobs, TransportState,
       Time, NoTime

LEMMA MetricType ==
    ASSUME NEW g \in Groups, NEW S \in SUBSET Transports
    PROVE  Base[g] + Step[g] * Cardinality(S) \in Int
<1>1. Cardinality(S) \in Nat
  BY UplinkAssumption, FS_Subset, FS_CardinalityType
<1>2. Base[g] \in Int /\ Step[g] \in Int
  BY UplinkAssumption
<1>3. QED
  BY <1>1, <1>2

LEMMA ItemsType ==
    ASSUME NEW rs, NEW g \in Groups, NEW w
    PROVE  Items(rs, g, w) \in SUBSET Item
<1> SUFFICES ASSUME NEW i \in Items(rs, g, w) PROVE i \in Item
  OBVIOUS
<1> DEFINE ahead(t) == {u \in Ranked(rs, g, w) : Before(rs, w, u, t)}
<1>1. Ranked(rs, g, w) \subseteq Transports
  BY DEF Ranked, Of
<1>2. PICK t \in Ranked(rs, g, w) :
        i = [t |-> t, healthy |-> rs[t].state = "up",
             metric |-> Base[g] + Step[g] * Cardinality(ahead(t))]
  <2>1. w # NoTransport
    BY DEF Items
  <2>2. QED
    BY <2>1, Zenon DEF Items
<1>3. ahead(t) \in SUBSET Transports
  BY <1>1
<1>4. Base[g] + Step[g] * Cardinality(ahead(t)) \in Int
  BY <1>3, MetricType, Zenon
<1> HIDE DEF ahead
<1>5. (rs[t].state = "up") \in BOOLEAN
  OBVIOUS
<1>6. QED
  BY <1>1, <1>2, <1>4, <1>5 DEF Item

LEMMA JobForType ==
    ASSUME NEW rs, NEW gs, NEW g \in Groups, NEW left \in SUBSET Groups
    PROVE  JobFor(rs, gs, g, left) \in Jobs /\ JobFor(rs, gs, g, left).at = "show"
BY ItemsType DEF JobFor, NoJob, Jobs

LEMMA NextRestoredType ==
    ASSUME NEW rs, NEW gs, NEW left \in SUBSET Groups, NextRestored(rs, gs, left)
    PROVE  job' \in Jobs /\ job'.at = "show" /\ io' \in {Main, NoTransport}
<1>1. CASE left = {}
  BY <1>1, ColdTypes DEF NextRestored
<1>2. CASE left # {}
  <2>1. PICK g \in left : job' = JobFor(rs, gs, g, left \ {g})
    BY <1>2 DEF NextRestored
  <2>2. g \in Groups /\ left \ {g} \in SUBSET Groups
    OBVIOUS
  <2>3. QED
    BY <1>2, <2>1, <2>2, JobForType DEF NextRestored
<1>3. QED
  BY <1>1, <1>2

LEMMA FaultType ==
    ASSUME faults \in Nat, UNCHANGED faults \/ Fault
    PROVE  faults' \in Nat
<1>1. CASE UNCHANGED faults
  BY <1>1
<1>2. CASE Fault
  <2>1. faults' = faults + 1
    BY <1>2 DEF Fault
  <2>2. QED
    BY <2>1
<1>3. QED
  BY <1>1, <1>2

LEMMA DoneType ==
    ASSUME job \in Jobs, NEW i, NEW failed \in BOOLEAN
    PROVE  Done(i, failed) \in Jobs /\ Done(i, failed).at = "show"
<1>1. (job.failed \/ failed) \in BOOLEAN
  OBVIOUS
<1>2. QED
  BY <1>1 DEF Done, Jobs

LEMMA ReplacedType ==
    ASSUME TypeOK, NEW new \in Routes, NEW T \in Replaced(new)
    PROVE  T \in SUBSET Routes /\ new \in T
BY DEF TypeOK, Replaced, AtMetric

-----------------------------------------------------------------------------
(* A winner has evidence because an Up transport has.  Both survive in the *)
(* snapshot, and a start restores a winner only with its transport.        *)

Evidenced(rs, gs) ==
    /\ \A t \in Transports : rs[t].state = "up" => rs[t].lastOk # NoTime
    /\ \A g \in Groups :
          gs[g].winner # NoTransport => rs[gs[g].winner].lastOk # NoTime

EvidenceInv ==
    /\ Evidenced(tr, grp)
    /\ disk # NoState => Evidenced(disk.tr, disk.grp)

UInv == TypeOK /\ EvidenceInv

LEMMA ColdEvidenced ==
    Evidenced([t \in Transports |-> ColdTransport], [g \in Groups |-> ColdGroup])
BY DEF Evidenced, ColdTransport, ColdGroup

LEMMA InitUInv == Init => UInv
<1> SUFFICES ASSUME Init PROVE UInv
  OBVIOUS
<1>1. table \in SUBSET Routes
  <2> SUFFICES ASSUME NEW d \in Devices, lease[d] # NoGateway
               PROVE  [dev |-> d, via |-> lease[d], metric |-> LeaseMetric[d]] \in Routes
    BY DEF Init
  <2>1. lease[d] \in Gateways[d] /\ LeaseMetric[d] \in Int
    BY UplinkAssumption DEF Init
  <2>2. lease[d] \in AllGateways
    BY <2>1 DEF AllGateways
  <2>3. QED
    BY <2>1, <2>2 DEF Routes
<1>2. TypeOK
  BY <1>1, ColdTypes DEF Init, TypeOK, Jobs, Time
<1>3. EvidenceInv
  BY ColdEvidenced DEF Init, EvidenceInv
<1>4. QED
  BY <1>2, <1>3 DEF UInv

LEMMA StartUInv ==
    ASSUME UInv, NEW kept \in SUBSET Transports, Start(kept)
    PROVE  UInv' /\ job'.at = "show"
<1> DEFINE T == IF disk = NoState THEN tr
                ELSE [t \in Transports |-> IF t \in kept THEN disk.tr[t]
                                                         ELSE ColdTransport]
           G == IF disk = NoState THEN grp
                ELSE [g \in Groups |-> RestoredGroup(disk.grp[g], kept)]
           L == {g \in Groups : G[g].winner # NoTransport}
<1>1. tr' = T /\ grp' = G /\ NextRestored(T, G, L)
  BY DEF Start
<1>2. disk # NoState => disk \in [tr : [Transports -> Runtime], grp : [Groups -> Group]]
  BY DEF UInv, TypeOK
<1>3. T \in [Transports -> Runtime] /\ G \in [Groups -> Group]
  BY <1>2, ColdTypes DEF UInv, TypeOK, RestoredGroup, Group
<1>4. job' \in Jobs /\ job'.at = "show" /\ io' \in {Main, NoTransport}
  <2>1. L \in SUBSET Groups
    OBVIOUS
  <2>2. QED
    BY <1>1, <2>1, NextRestoredType
<1>5. TypeOK'
  BY <1>1, <1>3, <1>4 DEF Start, UInv, TypeOK, Jobs, kernel
<1>6. Evidenced(T, G)
  <2>1. CASE disk = NoState
    BY <2>1 DEF UInv, EvidenceInv
  <2>2. CASE disk # NoState
    <3>1. ASSUME NEW t \in Transports, T[t].state = "up" PROVE T[t].lastOk # NoTime
      BY <2>2, <3>1 DEF UInv, EvidenceInv, Evidenced, ColdTransport
    <3>2. ASSUME NEW g \in Groups, G[g].winner # NoTransport
          PROVE  T[G[g].winner].lastOk # NoTime
      <4>1. disk.grp[g] \in Group
        BY <1>2, <2>2
      <4>2. /\ G[g].winner = disk.grp[g].winner /\ G[g].winner \in kept
            /\ disk.grp[g].winner # NoTransport
        BY <2>2, <3>2, <4>1 DEF RestoredGroup, Group
      <4>3. disk.tr[disk.grp[g].winner].lastOk # NoTime
        BY <2>2, <4>2 DEF UInv, EvidenceInv, Evidenced
      <4>4. QED
        BY <2>2, <4>2, <4>3
    <3>3. QED
      BY <3>1, <3>2 DEF Evidenced
  <2>3. QED
    BY <2>1, <2>2
<1>7. EvidenceInv'
  BY <1>1, <1>6 DEF Start, UInv, EvidenceInv
<1>8. QED
  BY <1>4, <1>5, <1>7 DEF UInv

LEMMA RecordUInv ==
    ASSUME UInv, NEW t \in Transports, NEW healthy \in BOOLEAN, Record(t, healthy)
    PROVE  UInv'
<1> DEFINE counted == IF healthy THEN Succeeded(t, tr[t], clock) ELSE Failed(t, tr[t])
<1>1. tr[t] \in Runtime /\ clock \in Nat /\ tr \in [Transports -> Runtime]
  BY DEF UInv, TypeOK
<1>2. counted \in Runtime
  BY <1>1, CountedType
<1>3. tr' = [tr EXCEPT ![t] = counted]
  BY DEF Record
<1>4. TypeOK'
  BY <1>1, <1>2, <1>3 DEF Record, UInv, TypeOK, kernel
<1>5. /\ tr[t].lastOk # NoTime => counted.lastOk # NoTime
      /\ (tr[t].state = "up" => tr[t].lastOk # NoTime)
           => (counted.state = "up" => counted.lastOk # NoTime)
  BY <1>1 DEF Succeeded, Failed, Runtime, NoTime
<1>6. Evidenced(tr', grp')
  BY <1>1, <1>3, <1>5 DEF Record, UInv, TypeOK, EvidenceInv, Evidenced
<1>7. EvidenceInv'
  BY <1>6 DEF Record, UInv, EvidenceInv
<1>8. QED
  BY <1>4, <1>7 DEF UInv

LEMMA DecideUInv ==
    ASSUME UInv, NEW t \in Transports, NEW o \in Outcomes(GroupOf[t]), Decide(t, o)
    PROVE  UInv' /\ job'.at = "show"
<1> DEFINE g == GroupOf[t]
           gs == [grp EXCEPT ![g] = o]
<1>1. g \in Groups /\ grp[g] \in Group /\ clock \in Nat
  BY SelectionAssumption DEF UInv, TypeOK
<1>2. o \in Group /\ (o.winner # NoTransport => tr[o.winner].lastOk # NoTime)
  <2>1. CASE o = [grp[g] EXCEPT !.degraded = TRUE]
    BY <1>1, <2>1 DEF UInv, EvidenceInv, Evidenced, Group
  <2>2. ASSUME NEW n \in Chosen(g, tr, grp[g], clock),
               o = [grp[g] EXCEPT !.winner = n,
                                  !.since = IF n # grp[g].winner THEN clock ELSE @,
                                  !.confirmed = tr[n].lastOk,
                                  !.degraded = FALSE]
        PROVE  o \in Group /\ tr[o.winner].lastOk # NoTime
    <3>1. n \in Transports /\ tr[n].state = "up"
      BY <1>1, ChosenIsDeclared, ChosenIsUp
    <3>2. tr[n] \in Runtime /\ tr[n].lastOk # NoTime
      BY <3>1 DEF UInv, TypeOK, EvidenceInv, Evidenced
    <3>3. /\ tr[n].lastOk \in Time
          /\ (IF n # grp[g].winner THEN clock ELSE grp[g].since) \in Time
      BY <1>1, <3>2 DEF Group, Runtime, Time
    <3>4. PICK s \in Time : s = IF n # grp[g].winner THEN clock ELSE grp[g].since
      BY <3>3
    <3>5. o = [grp[g] EXCEPT !.winner = n, !.since = s, !.confirmed = tr[n].lastOk,
                             !.degraded = FALSE]
      BY <2>2, <3>4
    <3> HIDE DEF g
    <3>6. o.winner = n /\ o \in Group
      BY <1>1, <3>1, <3>3, <3>5 DEF Group
    <3>7. QED
      BY <3>2, <3>6
  <2>3. QED
    BY <2>1, <2>2 DEF Outcomes
<1>3. grp' = gs /\ gs \in [Groups -> Group]
  BY <1>1, <1>2 DEF Decide, UInv, TypeOK
<1>4. job' \in Jobs /\ job'.at = "show"
  BY <1>1, ColdTypes, JobForType DEF Decide
<1>5. TypeOK'
  BY <1>3, <1>4 DEF Decide, UInv, TypeOK, Jobs, kernel
<1>6. Evidenced(tr', grp')
  BY <1>1, <1>2, <1>3 DEF Decide, UInv, TypeOK, EvidenceInv, Evidenced
<1>7. EvidenceInv'
  BY <1>6 DEF Decide, UInv, EvidenceInv
<1>8. QED
  BY <1>4, <1>5, <1>7 DEF UInv

-----------------------------------------------------------------------------
(* The commands of an apply: what each does to the job and the table. *)

LEMMA PlanType ==
    ASSUME TypeOK, NEW i \in job.todo, NEW j \in Plan(i)
    PROVE  /\ j \in Jobs /\ j.at \in {"show", "replace"}
           /\ j.at = "replace" =>
                \A k \in j.keep : DefaultsOf(k.dev) # {} /\ k \notin j.stale
<1> DEFINE here == DefaultsOf(Device[i.t])
<1>1. job \in Jobs /\ i \in Item /\ here \subseteq Routes
  BY DEF TypeOK, Jobs, DefaultsOf
<1>2. CASE j \in {Done(i, i.healthy), Done(i, FALSE)}
  <2>1. i.healthy \in BOOLEAN
    BY <1>1 DEF Item
  <2>2. QED
    BY <1>1, <1>2, <2>1, DoneType
<1>3. ASSUME NEW r \in here,
             j = [job EXCEPT !.at = "replace",
                             !.keep = {[r EXCEPT !.metric = i.metric]},
                             !.stale = {q \in here : q.metric # i.metric}]
      PROVE  /\ j \in Jobs /\ j.at = "replace"
             /\ \A k \in j.keep : DefaultsOf(k.dev) # {} /\ k \notin j.stale
  <2> DEFINE k == [r EXCEPT !.metric = i.metric]
  <2>1. r \in Routes /\ i.metric \in Int
    BY <1>1 DEF Item
  <2>2. k \in Routes /\ k.dev = r.dev /\ k.metric = i.metric
    BY <2>1 DEF Routes
  <2>3. r.dev = Device[i.t] /\ DefaultsOf(r.dev) # {}
    BY DEF DefaultsOf
  <2>4. {q \in here : q.metric # i.metric} \subseteq Routes
    BY <1>1
  <2> HIDE DEF k, here
  <2>5. /\ j \in Jobs /\ j.at = "replace" /\ j.keep = {k}
        /\ j.stale = {q \in here : q.metric # i.metric}
    BY <1>1, <1>3, <2>2, <2>4 DEF Jobs, k
  <2>6. QED
    BY <2>2, <2>3, <2>5
<1>4. QED
  BY <1>2, <1>3 DEF Plan

LEMMA ShowUInv ==
    ASSUME UInv, NEW i \in job.todo, Show(i)
    PROVE  /\ UInv' /\ job'.at \in {"show", "replace"}
           /\ job'.at = "replace" =>
                \A k \in job'.keep : DefaultsOf(k.dev)' # {} /\ k \notin job'.stale
<1>1. table' = table /\ Untouched
  BY DEF Show
<1>2. faults \in Nat /\ job \in Jobs /\ TypeOK
  BY DEF UInv, TypeOK, Jobs
<1>3. faults' \in Nat
  <2>1. UNCHANGED faults \/ Fault
    BY DEF Show
  <2>2. QED
    BY <1>2, <2>1, FaultType
<1>4. /\ job' \in Jobs /\ job'.at \in {"show", "replace"}
      /\ job'.at = "replace" =>
           \A k \in job'.keep : DefaultsOf(k.dev) # {} /\ k \notin job'.stale
  <2>1. CASE job' \in Plan(i)
    BY <1>2, <2>1, PlanType
  <2>2. CASE job' = Done(i, TRUE)
    BY <1>2, <2>2, DoneType
  <2>3. QED
    BY <2>1, <2>2 DEF Show
<1>5. UInv'
  BY <1>1, <1>3, <1>4 DEF Untouched, UInv, TypeOK, Jobs, EvidenceInv
<1>6. QED
  BY <1>1, <1>4, <1>5 DEF DefaultsOf

LEMMA AfterReplaceType ==
    ASSUME job \in Jobs, NEW i, NEW ok \in BOOLEAN
    PROVE  LET j == AfterReplace(i, ok)
           IN  /\ j \in Jobs /\ j.at \in {"show", "delete"}
               /\ j.at = "delete" => ok /\ j.keep = job.keep /\ j.stale = job.stale
<1>1. Done(i, ~ok) \in Jobs /\ Done(i, ~ok).at = "show"
  <2>1. (~ok) \in BOOLEAN
    OBVIOUS
  <2>2. QED
    BY <2>1, DoneType
<1>2. LET j == [job EXCEPT !.at = "delete"]
      IN  /\ j \in Jobs /\ j.at = "delete"
          /\ j.keep = job.keep /\ j.stale = job.stale
  BY DEF Jobs
<1>3. QED
  BY <1>1, <1>2 DEF AfterReplace

\* A replace adds the route it is to install before anything is deleted.
LEMMA ReplaceUInv ==
    ASSUME UInv, NEW i \in job.todo, Replace(i)
    PROVE  /\ UInv' /\ job'.at \in {"show", "delete"}
           /\ job'.at = "delete" =>
                /\ job'.keep = job.keep /\ job'.stale = job.stale
                /\ \E k \in job.keep : k \in table'
<1>1. PICK new \in job.keep :
        /\ job.at = "replace" /\ Untouched
        /\ \/ /\ table' \in Replaced(new) /\ UNCHANGED faults
              /\ job' = AfterReplace(i, TRUE)
           \/ /\ new \in table /\ AtMetric(new.metric) # {new}
              /\ UNCHANGED <<table, faults>>
              /\ job' = AfterReplace(i, FALSE)
           \/ /\ Fault /\ table' \in Replaced(new) \cup {table}
              /\ job' = AfterReplace(i, FALSE)
  BY DEF Replace
<1>2. TypeOK /\ job \in Jobs /\ faults \in Nat /\ table \in SUBSET Routes
  BY DEF UInv, TypeOK, Jobs
<1>3. new \in Routes
  BY <1>2 DEF Jobs
<1>4. \A T \in Replaced(new) : T \in SUBSET Routes /\ new \in T
  BY <1>2, <1>3, ReplacedType
<1>5. faults' \in Nat /\ table' \in SUBSET Routes
  <2>1. faults' \in Nat
    BY <1>1, <1>2, FaultType
  <2>2. table' \in Replaced(new) \cup {table}
    BY <1>1
  <2>3. QED
    BY <1>2, <1>4, <2>1, <2>2
<1>6. /\ job' \in Jobs /\ job'.at \in {"show", "delete"}
      /\ job'.at = "delete" =>
           /\ job'.keep = job.keep /\ job'.stale = job.stale
           /\ new \in table'
  <2>1. CASE table' \in Replaced(new) /\ job' = AfterReplace(i, TRUE)
    BY <1>2, <1>4, <2>1, AfterReplaceType
  <2>2. CASE job' = AfterReplace(i, FALSE)
    BY <1>2, <2>2, AfterReplaceType
  <2>3. QED
    BY <1>1, <2>1, <2>2
<1>7. UInv'
  <2>1. UNCHANGED <<running, clock, tr, grp, pc, dirty, io, lastSave, disk,
                    lease, foreign>>
    BY <1>1 DEF Untouched
  <2>2. TypeOK'
    BY <1>5, <1>6, <2>1 DEF UInv, TypeOK, Jobs
  <2>3. EvidenceInv'
    BY <2>1 DEF UInv, EvidenceInv
  <2>4. QED
    BY <2>2, <2>3 DEF UInv
<1>8. QED
  BY <1>6, <1>7

LEMMA DeleteUInv ==
    ASSUME UInv, NEW i \in job.todo, Delete(i)
    PROVE  /\ UInv' /\ job'.at \in {"show", "delete"}
           /\ job.at = "delete"
           /\ \E r \in job.stale : table' \in {table, table \ {r}}
           /\ job'.at = "delete" => job'.keep = job.keep /\ job'.stale \subseteq job.stale
<1> DEFINE ended(r, failed) ==
             IF job.stale = {r} THEN Done(i, failed)
             ELSE [job EXCEPT !.stale = @ \ {r}, !.failed = @ \/ failed]
<1>1. PICK r \in job.stale :
        /\ job.at = "delete" /\ Untouched
        /\ \/ /\ table' = table \ {r} /\ job' = ended(r, r \notin table)
              /\ UNCHANGED faults
           \/ /\ Fault /\ table' \in {table, table \ {r}} /\ job' = ended(r, TRUE)
  BY DEF Delete
<1>2. TypeOK /\ job \in Jobs /\ faults \in Nat /\ table \in SUBSET Routes
  BY DEF UInv, TypeOK, Jobs
<1>3. faults' \in Nat
  BY <1>1, <1>2, FaultType
<1>4. table' \in {table, table \ {r}}
  BY <1>1
<1>5. PICK failed \in BOOLEAN : job' = ended(r, failed)
  <2>1. (r \notin table) \in BOOLEAN
    OBVIOUS
  <2>2. QED
    BY <1>1, <2>1
<1>6. /\ job' \in Jobs /\ job'.at \in {"show", "delete"}
      /\ job'.at = "delete" => job'.keep = job.keep /\ job'.stale \subseteq job.stale
  <2>1. CASE job' = Done(i, failed)
    BY <1>2, <2>1, DoneType
  <2>2. CASE job' = [job EXCEPT !.stale = @ \ {r}, !.failed = @ \/ failed]
    <3>1. (job.failed \/ failed) \in BOOLEAN /\ job.stale \ {r} \in SUBSET Routes
      BY <1>2 DEF Jobs
    <3>2. QED
      BY <1>1, <1>2, <2>2, <3>1 DEF Jobs
  <2>3. QED
    BY <1>5, <2>1, <2>2
<1>7. UInv'
  <2>1. UNCHANGED <<running, clock, tr, grp, pc, dirty, io, lastSave, disk,
                    lease, foreign>>
    BY <1>1 DEF Untouched
  <2>2. TypeOK'
    BY <1>2, <1>3, <1>4, <1>6, <2>1 DEF UInv, TypeOK, Jobs
  <2>3. EvidenceInv'
    BY <2>1 DEF UInv, EvidenceInv
  <2>4. QED
    BY <2>2, <2>3 DEF UInv
<1>8. QED
  BY <1>1, <1>4, <1>6, <1>7

LEMMA ReportUInv ==
    ASSUME UInv, Report
    PROVE  UInv' /\ job'.at = "show" /\ table' = table
<1>1. PICK g \in job.group :
        LET gs == [grp EXCEPT ![g].failed = job.failed]
        IN  /\ grp' = gs
            /\ \/ /\ io = Main /\ NextRestored(tr, gs, job.left)
                  /\ UNCHANGED <<pc, dirty>>
               \/ /\ io # Main /\ io' = NoTransport /\ job' = NoJob
                  /\ pc' = [pc EXCEPT ![io] = "save"]
                  /\ \E changed \in BOOLEAN :
                        dirty' = [dirty EXCEPT ![io] = @ \/ changed]
            /\ UNCHANGED <<running, clock, tr, lastSave, disk, kernel, faults,
                           foreign>>
  BY DEF Report
<1> DEFINE gs == [grp EXCEPT ![g].failed = job.failed]
<1>2. /\ job \in Jobs /\ grp \in [Groups -> Group] /\ TypeOK
      /\ pc \in [Transports -> {"idle", "recorded", "publish", "save"}]
      /\ dirty \in [Transports -> BOOLEAN]
  BY DEF UInv, TypeOK, Jobs
<1>3. g \in Groups /\ job.failed \in BOOLEAN /\ job.left \in SUBSET Groups
  BY <1>2 DEF Jobs
<1>4. gs \in [Groups -> Group]
  BY <1>2, <1>3 DEF Group
<1>5. /\ job' \in Jobs /\ job'.at = "show" /\ io' \in {Main, NoTransport}
  <2>1. CASE NextRestored(tr, gs, job.left)
    BY <1>3, <2>1, NextRestoredType
  <2>2. CASE io' = NoTransport /\ job' = NoJob
    BY <2>2, ColdTypes
  <2>3. QED
    BY <1>1, <2>1, <2>2
<1>6. pc' \in [Transports -> {"idle", "recorded", "publish", "save"}]
  BY <1>1, <1>2
<1>7. dirty' \in [Transports -> BOOLEAN]
  <2>1. CASE UNCHANGED dirty
    BY <1>2, <2>1
  <2>2. ASSUME NEW changed \in BOOLEAN, dirty' = [dirty EXCEPT ![io] = @ \/ changed]
        PROVE  dirty' \in [Transports -> BOOLEAN]
    <3>1. \A b \in BOOLEAN : (b \/ changed) \in BOOLEAN
      OBVIOUS
    <3>2. QED
      BY <1>2, <2>2, <3>1
  <2>3. QED
    BY <1>1, <2>1, <2>2
<1>8. TypeOK'
  BY <1>1, <1>4, <1>5, <1>6, <1>7 DEF UInv, TypeOK, Jobs, kernel
<1>9. Evidenced(tr', grp')
  <2>1. \A h \in Groups : gs[h].winner = grp[h].winner
    BY <1>2, <1>3 DEF Group
  <2>2. QED
    BY <1>1, <2>1 DEF UInv, EvidenceInv, Evidenced
<1>10. EvidenceInv'
  BY <1>1, <1>9 DEF UInv, EvidenceInv
<1>11. QED
  BY <1>1, <1>5, <1>8, <1>10 DEF UInv, kernel

LEMMA SaveUInv ==
    ASSUME UInv, NEW t \in Transports, Save(t)
    PROVE  UInv'
<1> DEFINE snapshot == [tr |-> tr, grp |-> [h \in Groups |->
                                              [grp[h] EXCEPT !.failed = FALSE]]]
<1>1. /\ tr \in [Transports -> Runtime] /\ grp \in [Groups -> Group]
      /\ clock \in Nat /\ faults \in Nat /\ lastSave \in Time
      /\ disk \in [tr : [Transports -> Runtime], grp : [Groups -> Group]] \cup {NoState}
      /\ pc \in [Transports -> {"idle", "recorded", "publish", "save"}]
      /\ dirty \in [Transports -> BOOLEAN]
  BY DEF UInv, TypeOK
<1>2. [h \in Groups |-> [grp[h] EXCEPT !.failed = FALSE]] \in [Groups -> Group]
  BY <1>1 DEF Group
<1>3. snapshot \in [tr : [Transports -> Runtime], grp : [Groups -> Group]]
  BY <1>1, <1>2
<1>4. disk' \in {disk, snapshot} /\ lastSave' \in {lastSave, clock}
  BY DEF Save
<1>5. faults' \in Nat
  BY <1>1, FaultType DEF Save
<1>6. pc' \in [Transports -> {"idle", "recorded", "publish", "save"}]
      /\ dirty' \in [Transports -> BOOLEAN]
  BY <1>1 DEF Save
<1>7. /\ disk' \in [tr : [Transports -> Runtime], grp : [Groups -> Group]] \cup {NoState}
      /\ lastSave' \in Time
  BY <1>1, <1>3, <1>4 DEF Time
<1>8. UNCHANGED <<running, clock, tr, grp, io, job, kernel, foreign>>
  BY DEF Save
<1>9. TypeOK'
  BY <1>5, <1>6, <1>7, <1>8 DEF UInv, TypeOK, kernel
<1>10. Evidenced(snapshot.tr, snapshot.grp)
  <2>1. \A h \in Groups : snapshot.grp[h].winner = grp[h].winner
    BY <1>1 DEF Group
  <2>2. QED
    BY <2>1 DEF UInv, EvidenceInv, Evidenced
<1>11. EvidenceInv'
  BY <1>4, <1>8, <1>10 DEF UInv, EvidenceInv
<1>12. QED
  BY <1>9, <1>11 DEF UInv

LEMMA CrashUInv ==
    ASSUME UInv, Crash
    PROVE  UInv' /\ job'.at = "show"
<1>1. /\ tr' = [t \in Transports |-> ColdTransport]
      /\ grp' = [g \in Groups |-> ColdGroup]
      /\ pc' = [t \in Transports |-> "idle"]
      /\ dirty' = [t \in Transports |-> FALSE]
      /\ running' = FALSE /\ io' = NoTransport /\ job' = NoJob /\ lastSave' = NoTime
      /\ UNCHANGED <<clock, disk, table, lease, foreign>>
  BY DEF Crash, kernel
<1>2. faults' \in Nat
  <2>1. faults \in Nat
    BY DEF UInv, TypeOK
  <2>2. QED
    BY <2>1, FaultType DEF Crash
<1>3. TypeOK'
  BY <1>1, <1>2, ColdTypes DEF UInv, TypeOK, Jobs, Time
<1>4. EvidenceInv'
  BY <1>1, ColdEvidenced DEF UInv, EvidenceInv
<1>5. QED
  BY <1>1, <1>3, <1>4, ColdTypes DEF UInv

LEMMA RenewUInv ==
    ASSUME UInv, NEW d \in Devices, NEW gw \in Gateways[d], Renew(d, gw)
    PROVE  UInv' /\ foreign' # foreign
<1> DEFINE own == [dev |-> d, via |-> lease[d], metric |-> LeaseMetric[d]]
<1>1. gw \in AllGateways /\ LeaseMetric[d] \in Int /\ foreign \in Nat
  BY UplinkAssumption DEF AllGateways, UInv, TypeOK
<1>2. [own EXCEPT !.via = gw] \in Routes
  BY <1>1 DEF Routes
<1>3. table' \in SUBSET Routes
  BY <1>2 DEF Renew, UInv, TypeOK
<1>4. lease' \in [Devices -> AllGateways \cup {NoGateway}]
  BY <1>1 DEF Renew, UInv, TypeOK
<1>5. foreign' = foreign + 1
      /\ UNCHANGED <<running, clock, tr, grp, pc, dirty, io, job, lastSave, disk, faults>>
  BY DEF Renew, Foreign, memory
<1>6. TypeOK'
  BY <1>1, <1>3, <1>4, <1>5 DEF UInv, TypeOK
<1>7. EvidenceInv'
  BY <1>5 DEF UInv, EvidenceInv
<1>8. QED
  BY <1>1, <1>5, <1>6, <1>7 DEF UInv

LEMMA WithdrawUInv ==
    ASSUME UInv, NEW d \in Devices, Withdraw(d)
    PROVE  UInv' /\ foreign' # foreign
<1>1. foreign \in Nat
  BY DEF UInv, TypeOK
<1>2. foreign' = foreign + 1
      /\ UNCHANGED <<running, clock, tr, grp, pc, dirty, io, job, lastSave, disk, faults>>
  BY DEF Withdraw, Foreign, memory
<1>3. /\ table' \in SUBSET Routes
      /\ lease' \in [Devices -> AllGateways \cup {NoGateway}]
  BY DEF Withdraw, UInv, TypeOK
<1>4. TypeOK'
  BY <1>1, <1>2, <1>3 DEF UInv, TypeOK
<1>5. EvidenceInv'
  BY <1>2 DEF UInv, EvidenceInv
<1>6. QED
  BY <1>1, <1>2, <1>4, <1>5 DEF UInv

LEMMA TickUInv ==
    ASSUME UInv, Tick
    PROVE  UInv'
BY DEF Tick, UInv, TypeOK, EvidenceInv, memory, kernel

-----------------------------------------------------------------------------
LEMMA PublisherUInv ==
    ASSUME UInv, Publisher
    PROVE  UInv'
BY ShowUInv, ReplaceUInv, DeleteUInv, ReportUInv DEF Publisher

LEMMA NextUInv ==
    ASSUME UInv, [Next]_vars
    PROVE  UInv'
<1>1. CASE \E kept \in SUBSET Transports : Start(kept)
  BY <1>1, StartUInv
<1>2. CASE \E t \in Transports : Worker(t)
  <2>1. PICK t \in Transports : Worker(t)
    BY <1>2
  <2>2. QED
    BY <2>1, RecordUInv, DecideUInv, PublisherUInv, SaveUInv DEF Worker
<1>3. CASE MainThread
  BY <1>3, PublisherUInv DEF MainThread
<1>4. CASE Crash
  BY <1>4, CrashUInv
<1>5. CASE \E d \in Devices : \E gw \in Gateways[d] : Renew(d, gw)
  BY <1>5, RenewUInv
<1>6. CASE \E d \in Devices : Withdraw(d)
  BY <1>6, WithdrawUInv
<1>7. CASE Tick
  BY <1>7, TickUInv
<1>8. CASE UNCHANGED vars
  BY <1>8 DEF vars, memory, kernel, UInv, TypeOK, EvidenceInv
<1>9. QED
  BY <1>1, <1>2, <1>3, <1>4, <1>5, <1>6, <1>7, <1>8 DEF Next

\* The types and the evidence hold throughout.
THEOREM UplinkInvariance == Spec => []UInv
<1>1. Init => UInv
  BY InitUInv
<1>2. UInv /\ [Next]_vars => UInv'
  BY NextUInv
<1>3. QED
  BY <1>1, <1>2, PTL DEF Spec

\* Every variable keeps its type, whatever the workers, the publisher, DHCP
\* and the crashes do (state.rs, engine/mod.rs, route.rs).
THEOREM UplinkTypes == Spec => []TypeOK
<1>1. UInv => TypeOK
  BY DEF UInv
<1>2. QED
  BY <1>1, UplinkInvariance, PTL

\* TF-6: the transport ranked first passed a probe whose time is on record,
\* through every crash, restore and change of the configuration.
THEOREM WinnersHaveEvidence == Spec => []WinnerHasEvidence
<1>1. UInv => WinnerHasEvidence
  BY DEF UInv, EvidenceInv, Evidenced, WinnerHasEvidence
<1>2. QED
  BY <1>1, UplinkInvariance, PTL

-----------------------------------------------------------------------------
(* The routes.  While DHCP is quiet, the route an apply is about to install *)
(* is on an interface that has one already, and the route it keeps is in    *)
(* the table and not among those it deletes.                                *)

JobRoutes ==
    /\ job.at = "replace" => \A k \in job.keep : DefaultsOf(k.dev) # {} /\ k \notin job.stale
    /\ job.at = "delete" => \E k \in job.keep : k \in table /\ k \notin job.stale

RouteInv == calm => JobRoutes

\* What a step does to the table when nothing else gets in its way.
Effect ==
    /\ table # {} => table' # {}
    /\ \A d \in Devices : DefaultsOf(d) = {} => DefaultsOf(d)' = {}

LEMMA SameTable ==
    ASSUME UNCHANGED table
    PROVE  Effect /\ \A d : DefaultsOf(d)' = DefaultsOf(d)
BY DEF Effect, DefaultsOf

LEMMA ReplaceRoutes ==
    ASSUME UInv, JobRoutes, NEW i \in job.todo, Replace(i)
    PROVE  JobRoutes' /\ Effect
<1>1. PICK new \in job.keep : job.at = "replace" /\ table' \in Replaced(new) \cup {table}
  BY DEF Replace
<1>2. new \notin job.stale /\ DefaultsOf(new.dev) # {} /\ new \in Routes
  BY <1>1 DEF JobRoutes, UInv, TypeOK
<1>3. TypeOK
  BY DEF UInv
<1>4. /\ job'.at \in {"show", "delete"}
      /\ job'.at = "delete" =>
           /\ job'.keep = job.keep /\ job'.stale = job.stale
           /\ \E k \in job.keep : k \in table'
  BY ReplaceUInv
<1>5. JobRoutes'
  BY <1>1, <1>4 DEF JobRoutes
<1>6. table' \subseteq table \cup {new} /\ (table # {} => table' # {})
  <2>1. CASE table' \in Replaced(new)
    BY <1>2, <1>3, <2>1, ReplacedType DEF Replaced, AtMetric
  <2>2. CASE table' = table
    BY <2>2
  <2>3. QED
    BY <1>1, <2>1, <2>2
<1>7. ASSUME NEW d \in Devices, DefaultsOf(d) = {}
      PROVE  DefaultsOf(d)' = {}
  <2>1. new.dev # d
    BY <1>2, <1>7
  <2>2. QED
    BY <1>6, <1>7, <2>1 DEF DefaultsOf
<1>8. QED
  BY <1>5, <1>6, <1>7 DEF Effect

LEMMA DeleteRoutes ==
    ASSUME UInv, JobRoutes, NEW i \in job.todo, Delete(i)
    PROVE  JobRoutes' /\ Effect
<1>1. /\ job'.at \in {"show", "delete"} /\ job.at = "delete"
      /\ job'.at = "delete" => job'.keep = job.keep /\ job'.stale \subseteq job.stale
  BY DeleteUInv
<1>2. PICK r \in job.stale : table' \in {table, table \ {r}}
  BY DeleteUInv
<1>3. PICK k \in job.keep : k \in table /\ k \notin job.stale
  BY <1>1 DEF JobRoutes
<1>4. k \in table'
  BY <1>2, <1>3
<1>5. JobRoutes'
  BY <1>1, <1>3, <1>4 DEF JobRoutes
<1>6. table' \subseteq table
  BY <1>2
<1>7. QED
  BY <1>4, <1>5, <1>6 DEF Effect, DefaultsOf

LEMMA ShowRoutes ==
    ASSUME UInv, NEW i \in job.todo, Show(i)
    PROVE  JobRoutes' /\ Effect
<1>1. UNCHANGED table
  BY DEF Show
<1>2. QED
  BY <1>1, ShowUInv, SameTable DEF JobRoutes

LEMMA PublisherRoutes ==
    ASSUME UInv, JobRoutes, Publisher
    PROVE  JobRoutes' /\ Effect
<1>1. CASE Report
  BY <1>1, ReportUInv, SameTable DEF JobRoutes
<1>2. QED
  BY <1>1, ShowRoutes, ReplaceRoutes, DeleteRoutes DEF Publisher

\* Only the end of one apply is the beginning of another.
LEMMA BeginsShowing ==
    ASSUME UInv, Publisher, BeginsNow
    PROVE  job'.at = "show"
<1>1. ASSUME NEW i \in job.todo, Show(i) \/ Replace(i) \/ Delete(i)
      PROVE  FALSE
  <2>1. io' = io
    BY <1>1 DEF Show, Replace, Delete, Untouched
  <2>2. QED
    BY <1>1, <2>1 DEF BeginsNow
<1>2. QED
  BY <1>1, ReportUInv DEF Publisher

\* Every step runs a command, resets the job, leaves it alone, or is DHCP's.
LEMMA StepKinds ==
    ASSUME UInv, Next
    PROVE  \/ Publisher
           \/ job'.at = "show" /\ UNCHANGED table
           \/ UNCHANGED <<job, io, table>>
           \/ foreign' # foreign
<1>1. CASE \E kept \in SUBSET Transports : Start(kept)
  BY <1>1, StartUInv DEF Start, kernel
<1>2. CASE \E t \in Transports : Worker(t)
  <2>1. PICK t \in Transports : Worker(t)
    BY <1>2
  <2>2. CASE \E healthy \in BOOLEAN : Record(t, healthy)
    BY <2>2 DEF Record, kernel
  <2>3. CASE \E o \in Outcomes(GroupOf[t]) : Decide(t, o)
    <3>1. PICK o \in Outcomes(GroupOf[t]) : Decide(t, o)
      BY <2>3
    <3>2. UNCHANGED table
      BY <3>1 DEF Decide, kernel
    <3>3. QED
      BY <3>1, <3>2, DecideUInv
  <2>4. CASE Save(t)
    BY <2>4 DEF Save, kernel
  <2>5. QED
    BY <2>1, <2>2, <2>3, <2>4 DEF Worker
<1>3. CASE MainThread
  BY <1>3 DEF MainThread
<1>4. CASE Crash
  BY <1>4, CrashUInv DEF Crash, kernel
<1>5. CASE \E d \in Devices : \E gw \in Gateways[d] : Renew(d, gw)
  BY <1>5, RenewUInv
<1>6. CASE \E d \in Devices : Withdraw(d)
  BY <1>6, WithdrawUInv
<1>7. CASE Tick
  BY <1>7 DEF Tick, memory, kernel
<1>8. QED
  BY <1>1, <1>2, <1>3, <1>4, <1>5, <1>6, <1>7 DEF Next

LEMMA StepRoutes ==
    ASSUME UInv, RouteInv, [HistoryNext]_historyVars
    PROVE  RouteInv' /\ (Undisturbed => Effect)
<1>1. CASE HistoryNext
  <2>1. calm' => foreign' = foreign /\ (BeginsNow \/ calm)
    BY <1>1 DEF HistoryNext
  <2>2. CASE Publisher
    <3>1. calm => JobRoutes' /\ Effect
      BY <2>2, PublisherRoutes DEF RouteInv
    <3>2. BeginsNow => JobRoutes'
      BY <2>2, BeginsShowing DEF JobRoutes
    <3>3. QED
      BY <2>1, <3>1, <3>2 DEF RouteInv, Undisturbed
  <2>3. CASE job'.at = "show" /\ UNCHANGED table
    BY <2>3, SameTable DEF RouteInv, JobRoutes
  <2>4. CASE UNCHANGED <<job, io, table>>
    <3>1. ~BeginsNow
      BY <2>4 DEF BeginsNow
    <3>2. QED
      BY <2>1, <2>4, <3>1, SameTable DEF RouteInv, JobRoutes
  <2>5. CASE foreign' # foreign
    BY <2>1, <2>5 DEF RouteInv, Undisturbed
  <2>6. Next
    BY <1>1 DEF HistoryNext
  <2>7. QED
    BY <2>2, <2>3, <2>4, <2>5, <2>6, StepKinds
<1>2. CASE UNCHANGED historyVars
  <2>1. UNCHANGED <<job, table, calm>>
    BY <1>2 DEF historyVars, vars, memory, kernel
  <2>2. QED
    BY <2>1, SameTable DEF RouteInv, JobRoutes
<1>3. QED
  BY <1>1, <1>2

\* UplinkHistory is the engine with an observer: what holds of the engine
\* holds here, and the routes with it.
THEOREM HistoryInvariance ==
    HistorySpec => [](UInv /\ RouteInv) /\ [][Undisturbed => Effect]_historyVars
<1>1. HistoryInit => UInv /\ RouteInv
  BY InitUInv DEF HistoryInit, Init, NoJob, RouteInv, JobRoutes
<1>2. UInv /\ [HistoryNext]_historyVars => UInv'
  <2>1. [HistoryNext]_historyVars => [Next]_vars
    BY DEF HistoryNext, historyVars
  <2>2. QED
    BY <2>1, NextUInv
<1>3. UInv /\ RouteInv /\ [HistoryNext]_historyVars
        => RouteInv' /\ [Undisturbed => Effect]_historyVars
  BY StepRoutes
<1>4. QED
  BY <1>1, <1>2, <1>3, PTL DEF HistorySpec

\* "The box is never even momentarily left without a default route"
\* (src/publish/route.rs): no command of an apply, failed and timed-out ones
\* included, takes the last default route away.
THEOREM DefaultRouteStays == HistorySpec => NeverWithoutDefault
<1>1. [Undisturbed => Effect]_historyVars
        => [Undisturbed /\ table # {} => table' # {}]_historyVars
  BY DEF Effect
<1>2. QED
  BY <1>1, HistoryInvariance, PTL DEF NeverWithoutDefault

\* "Never creates a default route where there was none": an apply moves the
\* routes there are, on whatever interface and with whatever failures.
THEOREM RoutesOnlyMove == HistorySpec => OnlyMovesRoutes
<1>1. [Undisturbed => Effect]_historyVars
        => [Undisturbed =>
              \A d \in Devices : DefaultsOf(d) = {} => DefaultsOf(d)' = {}]_historyVars
  BY DEF Effect
<1>2. QED
  BY <1>1, HistoryInvariance, PTL DEF OnlyMovesRoutes

-----------------------------------------------------------------------------
(* The ranking of a group's interfaces, over any records and any winner.   *)

\* The ranking is a strict order on the transports of a group.
LEMMA BeforeIsStrict ==
    ASSUME NEW rs, NEW w, NEW g \in Groups
    PROVE  /\ \A t \in Of(g) : ~Before(rs, w, t, t)
           /\ \A t, u, v \in Of(g) :
                Before(rs, w, t, u) /\ Before(rs, w, u, v) => Before(rs, w, t, v)
           /\ \A t, u \in Of(g) : t # u => Before(rs, w, t, u) \/ Before(rs, w, u, t)
<1>1. /\ \A t \in Of(g) : /\ t \in Transports /\ GroupOf[t] = g
                          /\ Priority[t] \in Int /\ Index[t] \in Int
                          /\ Health(rs, t) \in {0, 1}
      /\ \A t, u \in Of(g) : Index[t] = Index[u] => t = u
  BY SelectionAssumption DEF Of, Health
<1> DEFINE pr(t) == Priority[t]
           ix(t) == Index[t]
           he(t) == Health(rs, t)
<1>2. \A t, u : Before(rs, w, t, u) <=>
        \/ t = w /\ u # w
        \/ /\ t # w /\ u # w
           /\ \/ he(t) < he(u)
              \/ /\ he(t) = he(u)
                 /\ pr(t) < pr(u) \/ (pr(t) = pr(u) /\ ix(t) < ix(u))
  BY Zenon DEF Before
<1>3. /\ \A t \in Of(g) : pr(t) \in Int /\ ix(t) \in Int /\ he(t) \in Int
      /\ \A t, u \in Of(g) : ix(t) = ix(u) => t = u
  BY <1>1
<1> HIDE DEF pr, ix, he
<1>4. \A t \in Of(g) : ~Before(rs, w, t, t)
  BY <1>2, <1>3
<1>5. ASSUME NEW t \in Of(g), NEW u \in Of(g), NEW v \in Of(g),
             Before(rs, w, t, u), Before(rs, w, u, v)
      PROVE  Before(rs, w, t, v)
  BY <1>2, <1>3, <1>5
<1>6. ASSUME NEW t \in Of(g), NEW u \in Of(g), t # u
      PROVE  Before(rs, w, t, u) \/ Before(rs, w, u, t)
  BY <1>2, <1>3, <1>6
<1>7. QED
  BY <1>4, <1>5, <1>6

LEMMA GroupsAreFinite ==
    ASSUME NEW g, NEW S \in SUBSET Of(g)
    PROVE  IsFiniteSet(S)
<1>1. S \in SUBSET Transports
  BY DEF Of
<1>2. QED
  BY <1>1, UplinkAssumption, FS_Subset

\* Each interface of the group takes part in the ranking, by one transport.
LEMMA EveryInterfaceIsRanked ==
    ASSUME NEW rs, NEW w, NEW g \in Groups, NEW t \in Of(g)
    PROVE  \E u \in Ranked(rs, g, w) : Device[u] = Device[t]
<1> DEFINE S == {v \in Of(g) : Device[v] = Device[t]}
           ahead(v) == {x \in S : Before(rs, w, x, v)}
           T == {ahead(v) : v \in S}
           R == StrictSubsetOrdering(S)
<1>1. IsFiniteSet(S)
  BY GroupsAreFinite
<1>2. IsWellFoundedOn(R, SUBSET S)
  BY <1>1, FS_StrictSubsetOrderingWellFounded, FS_FiniteSubsetsOfFinite, Zenon
<1>3. T \subseteq SUBSET S /\ T # {}
  OBVIOUS
<1>4. \E a \in T : \A b \in T : ~(<<b, a>> \in R)
  <2> HIDE DEF R, T, S
  <2>1. QED
    BY <1>2, <1>3, WFMin
<1>5. PICK u \in S : \A v \in S : <<ahead(v), ahead(u)>> \notin R
  BY <1>4
<1>6. ASSUME NEW v \in S, Before(rs, w, v, u)
      PROVE  FALSE
  <2>1. ahead(v) \subseteq ahead(u)
    BY <1>6, BeforeIsStrict
  <2>2. v \in ahead(u) /\ v \notin ahead(v)
    BY <1>6, BeforeIsStrict
  <2>3. <<ahead(v), ahead(u)>> \in R
    <3> DEFINE a == ahead(v)
               b == ahead(u)
    <3>1. a \in SUBSET S /\ b \in SUBSET S /\ a \subseteq b /\ a # b
      BY <2>1, <2>2
    <3> HIDE DEF a, b, S
    <3>2. <<a, b>> \in R
      BY <3>1 DEF StrictSubsetOrdering
    <3>3. QED
      BY <3>2 DEF a, b
  <2>4. QED
    BY <1>5, <2>3
<1>7. u \in Ranked(rs, g, w)
  BY <1>6 DEF Ranked
<1>8. QED
  BY <1>7

LEMMA OneIsRanked ==
    ASSUME NEW rs, NEW w, NEW g \in Groups,
           NEW t \in Ranked(rs, g, w), NEW u \in Ranked(rs, g, w),
           Device[t] = Device[u]
    PROVE  t = u
BY BeforeIsStrict DEF Ranked

\* The metric apply() gives to a transport of the ranking.
MetricOf(rs, g, w, t) ==
    Base[g] + Step[g] * Cardinality({u \in Ranked(rs, g, w) : Before(rs, w, u, t)})

LEMMA MetricsGrow ==
    ASSUME NEW b \in Int, NEW s \in Nat \ {0}, NEW m \in Nat, NEW n \in Nat, m < n
    PROVE  b + s * m < b + s * n
<1>1. n - m >= 1 /\ n - m \in Nat
  OBVIOUS
<1>2. s * (n - m) >= 1
  BY <1>1
<1>3. s * n = s * m + s * (n - m)
  OBVIOUS
<1>4. QED
  BY <1>2, <1>3

\* Whoever comes first in the ranking is cheaper.
LEMMA EarlierIsCheaper ==
    ASSUME NEW rs, NEW w, NEW g \in Groups,
           NEW t \in Ranked(rs, g, w), NEW u \in Ranked(rs, g, w),
           Before(rs, w, t, u)
    PROVE  /\ MetricOf(rs, g, w, t) \in Int /\ MetricOf(rs, g, w, u) \in Int
           /\ MetricOf(rs, g, w, t) < MetricOf(rs, g, w, u)
<1> DEFINE ahead(v) == {x \in Ranked(rs, g, w) : Before(rs, w, x, v)}
           A == ahead(t)
           B == ahead(u)
<1>1. Ranked(rs, g, w) \subseteq Of(g)
  BY DEF Ranked
<1>2. A \subseteq B /\ A # B
  <2>1. t \in Of(g) /\ u \in Of(g)
    BY <1>1
  <2>2. A \subseteq B
    BY <1>1, <2>1, BeforeIsStrict
  <2>3. t \in B /\ t \notin A
    BY <2>1, BeforeIsStrict
  <2>4. QED
    BY <2>2, <2>3
<1>3. IsFiniteSet(B) /\ IsFiniteSet(A)
  BY <1>1, GroupsAreFinite
<1>4. MetricOf(rs, g, w, t) = Base[g] + Step[g] * Cardinality(A)
  BY DEF MetricOf
<1>5. MetricOf(rs, g, w, u) = Base[g] + Step[g] * Cardinality(B)
  BY DEF MetricOf
<1> HIDE DEF A, B
<1>6. Cardinality(A) \in Nat /\ Cardinality(B) \in Nat /\ Cardinality(A) < Cardinality(B)
  BY <1>2, <1>3, FS_Subset, FS_CardinalityType
<1>7. Base[g] \in Int /\ Step[g] \in Nat \ {0} /\ Step[g] \in Int
  BY UplinkAssumption
<1>8. Base[g] + Step[g] * Cardinality(A) < Base[g] + Step[g] * Cardinality(B)
  BY <1>6, <1>7, MetricsGrow
<1>9. /\ Base[g] + Step[g] * Cardinality(A) \in Int
      /\ Base[g] + Step[g] * Cardinality(B) \in Int
  BY <1>6, <1>7
<1>10. QED
  BY <1>4, <1>5, <1>8, <1>9

\* The items of an apply: a metric of its own for each interface of the group,
\* and the smallest for the winner's.
LEMMA ItemsAreTheRanking ==
    ASSUME NEW rs, NEW g \in Groups, NEW w \in Of(g)
    PROVE  LET I == Items(rs, g, w)
           IN  /\ \A i \in I : i.metric \in Int
               /\ \A t \in Of(g) : \E i \in I : Device[i.t] = Device[t]
               /\ \A i, j \in I : Device[i.t] = Device[j.t] => i = j
               /\ \A i, j \in I : i.metric = j.metric => i = j
               /\ \A i, j \in I : Device[i.t] = Device[w] /\ i # j => i.metric < j.metric
<1> DEFINE I == Items(rs, g, w)
           R == Ranked(rs, g, w)
           m(t) == MetricOf(rs, g, w, t)
           item(t) == [t |-> t, healthy |-> rs[t].state = "up", metric |-> m(t)]
<1>1. I = {item(t) : t \in R}
  <2>1. w # NoTransport
    BY SelectionAssumption DEF Of
  <2>2. QED
    BY <2>1, Zenon DEF Items, MetricOf
<1>2. \A t \in R : item(t).t = t /\ item(t).metric = m(t)
  OBVIOUS
<1>3. R \subseteq Of(g)
  BY DEF Ranked
<1>4. \A t, u \in R : Before(rs, w, t, u) => m(t) \in Int /\ m(u) \in Int /\ m(t) < m(u)
  BY EarlierIsCheaper
<1>5. \A t, u \in R : t # u => Before(rs, w, t, u) \/ Before(rs, w, u, t)
  BY <1>3, BeforeIsStrict
<1>6. \A t, u \in R : Device[t] = Device[u] => t = u
  BY OneIsRanked
<1>7. \A t \in Of(g) : \E u \in R : Device[u] = Device[t]
  BY EveryInterfaceIsRanked
<1>8. \A t \in R : m(t) \in Int
  <2> SUFFICES ASSUME NEW t \in R PROVE m(t) \in Int
    OBVIOUS
  <2>1. {u \in R : Before(rs, w, u, t)} \in SUBSET Transports
    BY <1>3 DEF Of
  <2>2. QED
    BY <2>1, MetricType, Zenon DEF MetricOf
<1>9. \A u \in R : u # w => Before(rs, w, w, u)
  BY DEF Before
<1>10. w \in R
  BY DEF Ranked, Before
<1> HIDE DEF I, R, m, item
<1>11. \A i \in I : i = item(i.t) /\ i.t \in R /\ i.metric = m(i.t)
  BY <1>1, <1>2
<1>12. \A i, j \in I : i.t = j.t => i = j
  BY <1>11
<1>13. \A i \in I : i.metric \in Int
  BY <1>8, <1>11
<1>14. \A t \in Of(g) : \E i \in I : Device[i.t] = Device[t]
  BY <1>1, <1>2, <1>7
<1>15. \A i, j \in I : Device[i.t] = Device[j.t] => i = j
  BY <1>6, <1>11, <1>12
<1>16. ASSUME NEW i \in I, NEW j \in I, i.metric = j.metric
       PROVE  i = j
  <2>1. i.t \in R /\ j.t \in R /\ m(i.t) = m(j.t)
    BY <1>11, <1>16
  <2>2. i.t = j.t
    BY <1>4, <1>5, <2>1
  <2>3. QED
    BY <1>12, <2>2
<1>17. ASSUME NEW i \in I, NEW j \in I, Device[i.t] = Device[w], i # j
       PROVE  i.metric < j.metric
  <2>1. i.t = w
    BY <1>6, <1>10, <1>11, <1>17
  <2>2. j.t \in R /\ j.t # w
    BY <1>11, <1>12, <1>17, <2>1
  <2>3. Before(rs, w, i.t, j.t)
    BY <1>9, <2>1, <2>2
  <2>4. QED
    BY <1>4, <1>11, <2>2, <2>3
<1>18. QED
  BY <1>13, <1>14, <1>15, <1>16, <1>17 DEF I

-----------------------------------------------------------------------------
(* Where an apply of the items I stands.  The interfaces that are done have *)
(* no default route at another metric; on the one at hand those that have   *)
(* are about to be deleted.  A failure ends the claim, for this apply.      *)

Progress(I) ==
    /\ job.todo \subseteq I
    /\ ~job.failed =>
         /\ \A i \in I \ job.todo : \A r \in DefaultsOf(Device[i.t]) : r.metric = i.metric
         /\ job.at # "show" =>
              \A i \in job.todo : Current(i) =>
                /\ \A k \in job.keep : k.dev = Device[i.t] /\ k.metric = i.metric
                /\ \A r \in DefaultsOf(Device[i.t]) :
                      r.metric = i.metric \/ r \in job.stale

\* What the steps need to know of the items: one for an interface, and for a
\* metric.
Spread(I) ==
    /\ \A i, j \in I : Device[i.t] = Device[j.t] => i = j
    /\ \A i, j \in I : i.metric = j.metric => i = j

LEMMA DoneFields ==
    ASSUME job \in Jobs, NEW i, NEW failed \in BOOLEAN
    PROVE  LET j == Done(i, failed)
           IN  /\ j.todo = job.todo \ {i} /\ j.group = job.group /\ j.left = job.left
               /\ j.at = "show" /\ j.failed = (job.failed \/ failed)
BY DEF Done, Jobs

LEMMA OneIsCurrent ==
    ASSUME NEW I, Spread(I), job.todo \subseteq I, TypeOK,
           NEW i \in job.todo, Current(i), NEW j \in job.todo, Current(j)
    PROVE  i = j
<1>1. i.metric \in Int /\ j.metric \in Int
  BY DEF TypeOK, Item
<1>2. i.metric = j.metric
  BY <1>1 DEF Current
<1>3. QED
  BY <1>2 DEF Spread

LEMMA CommandFields ==
    ASSUME UInv, NEW i \in job.todo, Show(i) \/ Replace(i) \/ Delete(i)
    PROVE  UNCHANGED <<job.group, job.left>>
<1>1. job \in Jobs
  BY DEF UInv, TypeOK, Jobs
<1>2. ASSUME NEW f, job' = Done(i, f)
      PROVE  UNCHANGED <<job.group, job.left>>
  BY <1>1, <1>2 DEF Done, Jobs
<1>3. CASE Show(i)
  BY <1>1, <1>2, <1>3 DEF Show, Plan, Jobs
<1>4. CASE Replace(i)
  BY <1>1, <1>2, <1>4 DEF Replace, AfterReplace, Jobs
<1>5. CASE Delete(i)
  BY <1>1, <1>2, <1>5 DEF Delete, Jobs
<1>6. QED
  BY <1>3, <1>4, <1>5

LEMMA ShowProgress ==
    ASSUME UInv, NEW I, Spread(I), Progress(I), NEW i \in job.todo, Show(i)
    PROVE  Progress(I)'
<1>1. /\ Current(i) /\ job.at = "show" /\ UNCHANGED table
      /\ job' \in Plan(i) \/ job' = Done(i, TRUE)
  BY DEF Show
<1>2. job \in Jobs /\ i \in Item /\ TypeOK
  BY DEF UInv, TypeOK, Jobs
<1>3. \A d : DefaultsOf(d)' = DefaultsOf(d)
  BY <1>1, SameTable
<1> DEFINE here == DefaultsOf(Device[i.t])
<1>4. ASSUME NEW f \in BOOLEAN, job' = Done(i, f),
             ~f => \A r \in here : r.metric = i.metric
      PROVE  Progress(I)'
  <2>1. /\ job'.todo = job.todo \ {i}
        /\ job'.at = "show" /\ job'.failed = (job.failed \/ f)
    BY <1>2, <1>4, DoneFields
  <2>2. QED
    BY <1>3, <1>4, <2>1 DEF Progress
<1>5. ASSUME NEW r \in here,
             job' = [job EXCEPT !.at = "replace",
                                !.keep = {[r EXCEPT !.metric = i.metric]},
                                !.stale = {q \in here : q.metric # i.metric}]
      PROVE  Progress(I)'
  <2> DEFINE k == [r EXCEPT !.metric = i.metric]
  <2>1. r \in Routes /\ r.dev = Device[i.t]
    BY DEF DefaultsOf, UInv, TypeOK
  <2>2. k.dev = Device[i.t] /\ k.metric = i.metric
    BY <2>1 DEF Routes
  <2> HIDE DEF k, here
  <2>3. /\ job'.todo = job.todo
        /\ job'.failed = job.failed /\ job'.keep = {k}
        /\ job'.stale = {q \in here : q.metric # i.metric}
    BY <1>2, <1>5 DEF Jobs, k
  <2>4. \A j \in job.todo : Current(j)' => j = i
    <3>1. \A j \in job.todo : Current(j)' => Current(j)
      BY <2>3 DEF Current
    <3>2. QED
      BY <1>1, <1>2, <3>1, OneIsCurrent DEF Progress
  <2>5. QED
    BY <1>3, <2>2, <2>3, <2>4 DEF Progress, here
<1>6. QED
  <2>1. CASE job' = Done(i, TRUE)
    BY <1>4, <2>1
  <2>2. CASE here = {} /\ job' = Done(i, i.healthy)
    <3>1. i.healthy \in BOOLEAN
      BY <1>2 DEF Item
    <3>2. QED
      BY <1>4, <2>2, <3>1
  <2>3. CASE (\A r \in here : r.metric = i.metric) /\ job' = Done(i, FALSE)
    BY <1>4, <2>3
  <2>4. QED
    BY <1>1, <1>5, <2>1, <2>2, <2>3 DEF Plan

LEMMA ReplaceProgress ==
    ASSUME UInv, NEW I, Spread(I), Progress(I), NEW i \in job.todo, Replace(i)
    PROVE  Progress(I)'
<1>1. PICK new \in job.keep :
        /\ Current(i) /\ job.at = "replace"
        /\ \/ table' \in Replaced(new) /\ job' = AfterReplace(i, TRUE)
           \/ job' = AfterReplace(i, FALSE)
  BY DEF Replace
<1>2. job \in Jobs /\ TypeOK
  BY DEF UInv, TypeOK, Jobs
<1>3. CASE job' = AfterReplace(i, FALSE)
  <2>1. job' = Done(i, TRUE)
    BY <1>3 DEF AfterReplace
  <2>2. job'.todo = job.todo \ {i} /\ job'.failed
    BY <1>2, <2>1, DoneFields
  <2>3. QED
    BY <2>2 DEF Progress
<1>4. CASE table' \in Replaced(new) /\ job' = AfterReplace(i, TRUE)
  <2>1. table' \subseteq table \cup {new}
    BY <1>4 DEF Replaced
  <2>2. ASSUME ~job.failed
        PROVE  /\ new.dev = Device[i.t] /\ new.metric = i.metric
               /\ \A r \in DefaultsOf(Device[i.t])' :
                     r.metric = i.metric \/ r \in job.stale
               /\ \A j \in I \ job.todo :
                     \A r \in DefaultsOf(Device[j.t])' : r.metric = j.metric
    <3>1. /\ new.dev = Device[i.t] /\ new.metric = i.metric
          /\ \A r \in DefaultsOf(Device[i.t]) : r.metric = i.metric \/ r \in job.stale
      BY <1>1, <2>2 DEF Progress
    <3>2. \A j \in I \ job.todo : Device[j.t] # Device[i.t]
      BY DEF Progress, Spread
    <3>3. \A d : \A r \in DefaultsOf(d)' : r \in DefaultsOf(d) \/ (r = new /\ d = new.dev)
      BY <2>1 DEF DefaultsOf
    <3>4. QED
      BY <2>2, <3>1, <3>2, <3>3 DEF Progress
  <2>3. CASE job.stale = {}
    <3>1. job' = Done(i, FALSE)
      BY <1>4, <2>3 DEF AfterReplace
    <3>2. /\ job'.todo = job.todo \ {i}
          /\ job'.at = "show" /\ job'.failed = job.failed
      BY <1>2, <3>1, DoneFields DEF Jobs
    <3>3. QED
      BY <2>2, <2>3, <3>2 DEF Progress
  <2>4. CASE job.stale # {}
    <3>1. job' = [job EXCEPT !.at = "delete"]
      BY <1>4, <2>4 DEF AfterReplace
    <3>2. /\ job'.todo = job.todo
          /\ job'.failed = job.failed /\ job'.keep = job.keep /\ job'.stale = job.stale
      BY <1>2, <3>1 DEF Jobs
    <3>3. \A j \in job.todo : Current(j)' => j = i
      <4>1. \A j \in job.todo : Current(j)' => Current(j)
        BY <3>2 DEF Current
      <4>2. QED
        BY <1>1, <1>2, <4>1, OneIsCurrent DEF Progress
    <3>4. ~job.failed => \A k \in job.keep : k.dev = Device[i.t] /\ k.metric = i.metric
      BY <1>1 DEF Progress
    <3>5. QED
      BY <2>2, <3>2, <3>3, <3>4 DEF Progress
  <2>5. QED
    BY <2>3, <2>4
<1>5. QED
  BY <1>1, <1>3, <1>4

LEMMA DeleteProgress ==
    ASSUME UInv, NEW I, Spread(I), Progress(I), NEW i \in job.todo, Delete(i)
    PROVE  Progress(I)'
<1> DEFINE ended(r, f) ==
             IF job.stale = {r} THEN Done(i, f)
             ELSE [job EXCEPT !.stale = @ \ {r}, !.failed = @ \/ f]
<1>1. PICK r \in job.stale :
        /\ Current(i) /\ job.at = "delete"
        /\ \/ table' = table \ {r} /\ job' = ended(r, r \notin table)
           \/ job' = ended(r, TRUE)
  BY Zenon DEF Delete
<1>2. job \in Jobs /\ TypeOK
  BY DEF UInv, TypeOK, Jobs
<1>3. PICK f \in BOOLEAN : job' = ended(r, f) /\ (table' = table \ {r} \/ f)
  <2>1. CASE job' = ended(r, TRUE)
    BY <2>1
  <2>2. CASE table' = table \ {r} /\ job' = ended(r, r \notin table)
    <3>1. (r \notin table) \in BOOLEAN
      OBVIOUS
    <3>2. QED
      BY <2>2, <3>1
  <2>3. QED
    BY <1>1, <2>1, <2>2
<1>4. CASE job.stale = {r}
  <2>1. job' = Done(i, f)
    BY <1>3, <1>4
  <2>2. /\ job'.todo = job.todo \ {i}
        /\ job'.at = "show" /\ job'.failed = (job.failed \/ f)
    BY <1>2, <2>1, DoneFields
  <2>3. ASSUME ~job.failed, ~f
        PROVE  /\ \A d : DefaultsOf(d)' \subseteq DefaultsOf(d) \ {r}
               /\ \A q \in DefaultsOf(Device[i.t]) : q.metric = i.metric \/ q = r
    <3>1. \A d : DefaultsOf(d)' \subseteq DefaultsOf(d) \ {r}
      BY <1>3, <2>3 DEF DefaultsOf
    <3>2. \A q \in DefaultsOf(Device[i.t]) : q.metric = i.metric \/ q \in job.stale
      BY <1>1, <2>3 DEF Progress
    <3>3. QED
      BY <1>4, <3>1, <3>2
  <2>4. QED
    BY <2>2, <2>3 DEF Progress
<1>5. CASE job.stale # {r}
  <2>1. job' = [job EXCEPT !.stale = @ \ {r}, !.failed = @ \/ f]
    BY <1>3, <1>5
  <2>2. /\ job'.todo = job.todo
        /\ job'.at = job.at /\ job'.keep = job.keep
        /\ job'.stale = job.stale \ {r} /\ job'.failed = (job.failed \/ f)
    BY <1>2, <2>1 DEF Jobs
  <2>3. \A j \in job.todo : Current(j)' => Current(j)
    BY <2>2 DEF Current
  <2>4. ASSUME ~job.failed, ~f
        PROVE  \A d : DefaultsOf(d)' \subseteq DefaultsOf(d) \ {r}
    BY <1>3, <2>4 DEF DefaultsOf
  <2>5. ASSUME ~job.failed, ~f
        PROVE  Progress(I)'
    <3>1. job'.todo \subseteq I /\ ~job'.failed
      BY <2>2, <2>5 DEF Progress
    <3>2. \A j \in I \ job'.todo : \A q \in DefaultsOf(Device[j.t])' : q.metric = j.metric
      BY <2>2, <2>4, <2>5 DEF Progress
    <3>3. ASSUME NEW j \in job.todo, Current(j)'
          PROVE  /\ \A k \in job.keep : k.dev = Device[j.t] /\ k.metric = j.metric
                 /\ \A q \in DefaultsOf(Device[j.t])' :
                       q.metric = j.metric \/ q \in job.stale \ {r}
      <4>1. /\ \A k \in job.keep : k.dev = Device[j.t] /\ k.metric = j.metric
            /\ \A q \in DefaultsOf(Device[j.t]) : q.metric = j.metric \/ q \in job.stale
        BY <1>1, <2>3, <2>5, <3>3 DEF Progress
      <4>2. QED
        BY <2>4, <2>5, <4>1
    <3>4. QED
      BY <2>2, <3>1, <3>2, <3>3 DEF Progress
  <2>6. CASE job.failed \/ f
    <3>1. job'.todo \subseteq I /\ job'.failed
      BY <2>2, <2>6 DEF Progress
    <3>2. QED
      BY <2>2, <3>1 DEF Progress
  <2>7. QED
    BY <2>2, <2>5, <2>6
<1>6. QED
  BY <1>4, <1>5

-----------------------------------------------------------------------------
(* Which groups are published: those with a winner, and it is one of their *)
(* own transports, in memory and in the snapshot.                          *)

HasOwnWinners(gs) == \A g \in Groups : gs[g].winner \in Of(g) \cup {NoTransport}

\* A job that has just begun, the groups being gs.
Fresh(j, gs) ==
    \/ j = NoJob
    \/ \E rs : \E g \in Groups, left \in SUBSET Groups :
          /\ \A h \in left \cup {g} : gs[h].winner # NoTransport
          /\ j = JobFor(rs, gs, g, left)

WinnersInv ==
    /\ HasOwnWinners(grp)
    /\ disk # NoState => HasOwnWinners(disk.grp)
    /\ \A g \in job.group \cup job.left : grp[g].winner # NoTransport

LEMMA FreshFields ==
    ASSUME NEW j, NEW gs, Fresh(j, gs)
    PROVE  /\ \A g \in j.group \cup j.left : gs[g].winner # NoTransport
           /\ \/ j.group = {} /\ j.todo = {}
              \/ \E rs : \E g \in Groups :
                    /\ j.group = {g} /\ j.at = "show"
                    /\ j.todo = Items(rs, g, gs[g].winner)
<1>1. CASE j = NoJob
  BY <1>1 DEF NoJob
<1>2. ASSUME NEW g \in Groups, NEW left \in SUBSET Groups, NEW rs,
             \A h \in left \cup {g} : gs[h].winner # NoTransport,
             j = JobFor(rs, gs, g, left)
      PROVE  /\ \A h \in j.group \cup j.left : gs[h].winner # NoTransport
             /\ \E ss : \E h \in Groups :
                    /\ j.group = {h} /\ j.at = "show"
                    /\ j.todo = Items(ss, h, gs[h].winner)
  <2> DEFINE I == Items(rs, g, gs[g].winner)
  <2>1. j = [NoJob EXCEPT !.group = {g}, !.left = left, !.todo = I]
    BY <1>2 DEF JobFor
  <2> HIDE DEF I
  <2>2. j.group = {g} /\ j.left = left /\ j.todo = I /\ j.at = "show"
    BY <2>1 DEF NoJob
  <2>3. QED
    BY <1>2, <2>2 DEF I
<1>3. QED
  BY <1>1, <1>2 DEF Fresh

LEMMA NextRestoredIsFresh ==
    ASSUME NEW rs, NEW gs, NEW left \in SUBSET Groups, NextRestored(rs, gs, left),
           \A h \in left : gs[h].winner # NoTransport
    PROVE  Fresh(job', gs)
<1>1. CASE left = {}
  BY <1>1 DEF NextRestored, Fresh
<1>2. CASE left # {}
  <2>1. PICK g \in left : job' = JobFor(rs, gs, g, left \ {g})
    BY <1>2 DEF NextRestored
  <2>2. g \in Groups /\ left \ {g} \in SUBSET Groups
    OBVIOUS
  <2>3. QED
    BY <2>1, <2>2 DEF Fresh
<1>3. QED
  BY <1>1, <1>2

LEMMA StartWinners ==
    ASSUME UInv, WinnersInv, NEW kept \in SUBSET Transports, Start(kept)
    PROVE  HasOwnWinners(grp') /\ Fresh(job', grp') /\ disk' = disk
<1> DEFINE T == IF disk = NoState THEN tr
                ELSE [t \in Transports |-> IF t \in kept THEN disk.tr[t]
                                                         ELSE ColdTransport]
           G == IF disk = NoState THEN grp
                ELSE [g \in Groups |-> RestoredGroup(disk.grp[g], kept)]
           L == {g \in Groups : G[g].winner # NoTransport}
<1>1. grp' = G /\ NextRestored(T, G, L) /\ disk' = disk
  BY DEF Start
<1>2. HasOwnWinners(G)
  <2>1. CASE disk = NoState
    BY <2>1 DEF WinnersInv
  <2>2. CASE disk # NoState
    <3> SUFFICES ASSUME NEW g \in Groups
                 PROVE  G[g].winner \in Of(g) \cup {NoTransport}
      BY DEF HasOwnWinners
    <3>1. disk.grp[g] \in Group /\ disk.grp[g].winner \in Of(g) \cup {NoTransport}
      BY <2>2 DEF UInv, TypeOK, WinnersInv, HasOwnWinners
    <3>2. G[g] = RestoredGroup(disk.grp[g], kept)
      BY <2>2
    <3>3. RestoredGroup(disk.grp[g], kept).winner \in {disk.grp[g].winner, NoTransport}
      BY <3>1 DEF RestoredGroup, Group
    <3>4. QED
      BY <3>1, <3>2, <3>3
  <2>3. QED
    BY <2>1, <2>2
<1>3. L \in SUBSET Groups /\ \A h \in L : G[h].winner # NoTransport
  OBVIOUS
<1> HIDE DEF T, G, L
<1>4. Fresh(job', G)
  BY <1>1, <1>3, NextRestoredIsFresh
<1>5. QED
  BY <1>1, <1>2, <1>4

LEMMA DecideWinners ==
    ASSUME UInv, WinnersInv, NEW t \in Transports, NEW o \in Outcomes(GroupOf[t]),
           Decide(t, o)
    PROVE  HasOwnWinners(grp') /\ Fresh(job', grp') /\ disk' = disk
<1> DEFINE g == GroupOf[t]
<1>1. g \in Groups /\ grp[g] \in Group /\ grp \in [Groups -> Group]
  BY SelectionAssumption DEF UInv, TypeOK
<1>2. o.winner \in Of(g) \cup {NoTransport}
  <2>1. CASE o = [grp[g] EXCEPT !.degraded = TRUE]
    BY <1>1, <2>1 DEF Group, WinnersInv, HasOwnWinners
  <2>2. ASSUME NEW n \in Chosen(g, tr, grp[g], clock),
               o = [grp[g] EXCEPT !.winner = n,
                                  !.since = IF n # grp[g].winner THEN clock ELSE @,
                                  !.confirmed = tr[n].lastOk,
                                  !.degraded = FALSE]
        PROVE  o.winner \in Of(g)
    <3>1. n \in Of(g)
      BY <1>1, ChosenIsUp
    <3>2. o.winner = n
      BY <1>1, <2>2 DEF Group
    <3>3. QED
      BY <3>1, <3>2
  <2>3. QED
    BY <2>1, <2>2 DEF Outcomes
<1>3. /\ grp' = [grp EXCEPT ![g] = o] /\ disk' = disk
      /\ job' = IF o.winner = NoTransport THEN NoJob ELSE JobFor(tr, grp', g, {})
  BY DEF Decide
<1>4. grp'[g] = o /\ \A h \in Groups : h # g => grp'[h] = grp[h]
  BY <1>1, <1>3
<1>5. HasOwnWinners(grp')
  BY <1>2, <1>4 DEF HasOwnWinners, WinnersInv
<1>6. Fresh(job', grp')
  <2>1. CASE o.winner = NoTransport
    BY <1>3, <2>1 DEF Fresh
  <2>2. CASE o.winner # NoTransport
    <3>1. \A h \in {} \cup {g} : grp'[h].winner # NoTransport
      BY <1>4, <2>2
    <3>2. {} \in SUBSET Groups /\ job' = JobFor(tr, grp', g, {})
      BY <1>3, <2>2
    <3>3. QED
      BY <1>1, <3>1, <3>2 DEF Fresh
  <2>3. QED
    BY <2>1, <2>2
<1>7. QED
  BY <1>3, <1>5, <1>6

LEMMA ReportWinners ==
    ASSUME UInv, WinnersInv, Report
    PROVE  HasOwnWinners(grp') /\ Fresh(job', grp') /\ disk' = disk
<1>1. PICK g \in job.group :
        /\ grp' = [grp EXCEPT ![g].failed = job.failed] /\ disk' = disk
        /\ NextRestored(tr, grp', job.left) \/ job' = NoJob
  BY DEF Report
<1>2. grp \in [Groups -> Group] /\ job.left \in SUBSET Groups
  BY DEF UInv, TypeOK
<1>3. \A h \in Groups : grp'[h].winner = grp[h].winner
  BY <1>1, <1>2 DEF Group
<1>4. HasOwnWinners(grp')
  BY <1>3 DEF HasOwnWinners, WinnersInv
<1>5. \A h \in job.left : grp'[h].winner # NoTransport
  BY <1>2, <1>3 DEF WinnersInv
<1>6. Fresh(job', grp')
  <2>1. CASE job' = NoJob
    BY <2>1 DEF Fresh
  <2>2. CASE NextRestored(tr, grp', job.left)
    BY <1>2, <1>5, <2>2, NextRestoredIsFresh
  <2>3. QED
    BY <1>1, <2>1, <2>2
<1>7. QED
  BY <1>1, <1>4, <1>6

LEMMA SaveWinners ==
    ASSUME UInv, WinnersInv, NEW t \in Transports, Save(t)
    PROVE  disk' # NoState => HasOwnWinners(disk'.grp)
<1> DEFINE gs == [h \in Groups |-> [grp[h] EXCEPT !.failed = FALSE]]
           snapshot == [tr |-> tr, grp |-> gs]
<1>1. disk' \in {disk, snapshot}
  BY DEF Save
<1>2. \A h \in Groups : gs[h].winner = grp[h].winner
  BY DEF UInv, TypeOK, Group
<1>3. HasOwnWinners(gs)
  BY <1>2 DEF HasOwnWinners, WinnersInv
<1> HIDE DEF gs
<1>4. QED
  BY <1>1, <1>3 DEF WinnersInv

LEMMA CrashWinners ==
    ASSUME Crash
    PROVE  HasOwnWinners(grp') /\ Fresh(job', grp') /\ disk' = disk
BY DEF Crash, HasOwnWinners, ColdGroup, Fresh

Command == \E i \in job.todo : Show(i) \/ Replace(i) \/ Delete(i)

\* Every step runs a command, begins or drops a job, leaves job and table
\* alone, or is DHCP's.
LEMMA ApplyKinds ==
    ASSUME UInv, WinnersInv, Next
    PROVE  /\ HasOwnWinners(grp')
           /\ disk' # NoState => HasOwnWinners(disk'.grp)
           /\ \/ Command /\ UNCHANGED <<grp, io, foreign>>
              \/ Fresh(job', grp')
              \/ UNCHANGED <<grp, job, io, table>>
              \/ UNCHANGED <<grp, job>> /\ foreign' # foreign
<1>1. CASE \E kept \in SUBSET Transports : Start(kept)
  BY <1>1, StartWinners DEF WinnersInv
<1>2. ASSUME Publisher
      PROVE  /\ HasOwnWinners(grp') /\ disk' = disk
             /\ \/ Command /\ UNCHANGED <<grp, io, foreign>>
                \/ Fresh(job', grp')
  <2>1. CASE Command
    <3>1. UNCHANGED <<grp, io, foreign, disk>>
      BY <2>1 DEF Command, Show, Replace, Delete, Untouched
    <3>2. QED
      BY <2>1, <3>1 DEF WinnersInv
  <2>2. CASE Report
    BY <2>2, ReportWinners
  <2>3. QED
    BY <1>2, <2>1, <2>2 DEF Publisher, Command
<1>3. CASE \E t \in Transports : Worker(t)
  <2>1. PICK t \in Transports : Worker(t)
    BY <1>3
  <2>2. CASE \E healthy \in BOOLEAN : Record(t, healthy)
    BY <2>2 DEF Record, kernel, WinnersInv
  <2>3. CASE \E o \in Outcomes(GroupOf[t]) : Decide(t, o)
    BY <2>3, DecideWinners DEF WinnersInv
  <2>4. CASE Save(t)
    <3>1. UNCHANGED <<grp, job, io, table>>
      BY <2>4 DEF Save, kernel
    <3>2. QED
      BY <2>4, <3>1, SaveWinners DEF WinnersInv
  <2>5. CASE Publisher
    BY <1>2, <2>5 DEF WinnersInv
  <2>6. QED
    BY <2>1, <2>2, <2>3, <2>4, <2>5 DEF Worker
<1>4. CASE MainThread
  BY <1>2, <1>4 DEF MainThread, WinnersInv
<1>5. CASE Crash
  BY <1>5, CrashWinners DEF WinnersInv
<1>6. CASE \E d \in Devices : \E gw \in Gateways[d] : Renew(d, gw)
  <2>1. PICK d \in Devices : \E gw \in Gateways[d] : Renew(d, gw)
    BY <1>6
  <2>2. UNCHANGED <<grp, job, disk>>
    BY <2>1 DEF Renew, Foreign, memory
  <2>3. QED
    BY <2>1, <2>2, RenewUInv DEF WinnersInv
<1>7. CASE \E d \in Devices : Withdraw(d)
  <2>1. PICK d \in Devices : Withdraw(d)
    BY <1>7
  <2>2. UNCHANGED <<grp, job, disk>>
    BY <2>1 DEF Withdraw, Foreign, memory
  <2>3. QED
    BY <2>1, <2>2, WithdrawUInv DEF WinnersInv
<1>8. CASE Tick
  BY <1>8 DEF Tick, memory, kernel, WinnersInv
<1>9. QED
  BY <1>1, <1>3, <1>4, <1>5, <1>6, <1>7, <1>8 DEF Next

\* The apply in progress is one of a group with a winner, over the ranking of
\* some records of its transports: those of when it began.
Applying ==
    \/ job.group = {} /\ job.todo = {}
    \/ \E rs : \E g \in Groups : job.group = {g} /\ Progress(Items(rs, g, grp[g].winner))

ApplyInv == WinnersInv /\ (calm => Applying)

LEMMA ItemsAreSpread ==
    ASSUME NEW rs, NEW g \in Groups, NEW w \in Of(g)
    PROVE  Spread(Items(rs, g, w))
BY ItemsAreTheRanking DEF Spread

LEMMA CommandApplies ==
    ASSUME UInv, WinnersInv, Applying, Command, UNCHANGED grp
    PROVE  Applying'
<1>1. PICK i \in job.todo : Show(i) \/ Replace(i) \/ Delete(i)
  BY DEF Command
<1>2a. PICK rs : \E g \in Groups :
         job.group = {g} /\ Progress(Items(rs, g, grp[g].winner))
  BY <1>1 DEF Applying
<1>2. PICK g \in Groups : job.group = {g} /\ Progress(Items(rs, g, grp[g].winner))
  BY <1>2a
<1>3. grp[g].winner \in Of(g)
  BY <1>2 DEF WinnersInv, HasOwnWinners
<1>4. PICK w \in Of(g) : w = grp[g].winner
  BY <1>3
<1>5. Progress(Items(rs, g, w)) /\ Spread(Items(rs, g, w))
  BY <1>2, <1>4, ItemsAreSpread
<1>6. PICK I : I = Items(rs, g, w)
  OBVIOUS
<1>7. Progress(I) /\ Spread(I)
  BY <1>5, <1>6
<1>8. Progress(I)'
  BY <1>1, <1>7, ShowProgress, ReplaceProgress, DeleteProgress
<1>9. job'.group = {g} /\ grp'[g].winner = w
  BY <1>1, <1>2, <1>4, CommandFields
<1>10. Progress(Items(rs, g, grp[g].winner))'
  BY <1>6, <1>8, <1>9
<1>11. QED
  BY <1>8, <1>9, <1>10 DEF Applying

LEMMA FreshApplies ==
    ASSUME Fresh(job', grp')
    PROVE  Applying' /\ \A g \in job'.group \cup job'.left : grp'[g].winner # NoTransport
<1>1. \A g \in job'.group \cup job'.left : grp'[g].winner # NoTransport
  BY FreshFields
<1>2. CASE job'.group = {} /\ job'.todo = {}
  BY <1>1, <1>2 DEF Applying
<1>3. ASSUME NEW g \in Groups, NEW rs, job'.group = {g}, job'.at = "show",
             job'.todo = Items(rs, g, grp'[g].winner)
      PROVE  Applying'
  <2>1. Progress(Items(rs, g, grp[g].winner))'
    BY <1>3 DEF Progress
  <2>2. QED
    BY <1>3, <2>1 DEF Applying
<1>4. QED
  BY <1>1, <1>2, <1>3, FreshFields

LEMMA StepApplies ==
    ASSUME UInv, ApplyInv, [HistoryNext]_historyVars
    PROVE  ApplyInv'
<1>1. CASE HistoryNext
  <2>1. Next /\ (calm' => foreign' = foreign /\ (BeginsNow \/ calm))
    BY <1>1 DEF HistoryNext
  <2>2. WinnersInv
    BY DEF ApplyInv
  <2>3. /\ HasOwnWinners(grp')
        /\ disk' # NoState => HasOwnWinners(disk'.grp)
    BY <2>1, <2>2, ApplyKinds
  <2>4. CASE Command /\ UNCHANGED <<grp, io, foreign>>
    <3>1. UNCHANGED <<job.group, job.left>>
      <4>1. PICK i \in job.todo : Show(i) \/ Replace(i) \/ Delete(i)
        BY <2>4 DEF Command
      <4>2. QED
        BY <4>1, CommandFields
    <3>2. ~BeginsNow
      BY <2>4 DEF BeginsNow, Command
    <3>3. calm => Applying'
      BY <2>2, <2>4, CommandApplies DEF ApplyInv
    <3>4. WinnersInv'
      BY <2>2, <2>3, <2>4, <3>1 DEF WinnersInv
    <3>5. QED
      BY <2>1, <3>2, <3>3, <3>4 DEF ApplyInv
  <2>5. CASE Fresh(job', grp')
    BY <2>3, <2>5, FreshApplies DEF ApplyInv, WinnersInv
  <2>6. CASE UNCHANGED <<grp, job, io, table>>
    <3>1. ~BeginsNow
      BY <2>6 DEF BeginsNow
    <3>2. Applying => Applying'
      BY <2>6 DEF Applying, Progress, Current, DefaultsOf
    <3>3. QED
      BY <2>1, <2>2, <2>3, <2>6, <3>1, <3>2 DEF ApplyInv, WinnersInv
  <2>7. CASE UNCHANGED <<grp, job>> /\ foreign' # foreign
    BY <2>1, <2>2, <2>3, <2>7 DEF ApplyInv, WinnersInv
  <2>8. QED
    BY <2>1, <2>2, <2>4, <2>5, <2>6, <2>7, ApplyKinds
<1>2. CASE UNCHANGED historyVars
  <2>1. UNCHANGED <<grp, job, disk, table, calm>>
    BY <1>2 DEF historyVars, vars, memory, kernel
  <2>2. QED
    BY <2>1 DEF ApplyInv, WinnersInv, Applying, Progress, Current, DefaultsOf
<1>3. QED
  BY <1>1, <1>2

\* Where the items are done and nothing failed, the routes are ranked.
LEMMA DoneIsRanked ==
    ASSUME UInv, ApplyInv
    PROVE  RankedAfterApply
<1> SUFFICES ASSUME calm, job.todo = {}, ~job.failed, NEW g \in job.group
             PROVE  LET routes == {r \in table : \E t \in Of(g) : Device[t] = r.dev}
                        first == Device[grp[g].winner]
                    IN  \A r, q \in routes :
                            /\ r.dev = q.dev <=> r.metric = q.metric
                            /\ r.dev = first /\ q.dev # first => r.metric < q.metric
  BY DEF RankedAfterApply
<1>1. PICK rs : Progress(Items(rs, g, grp[g].winner)) /\ g \in Groups
  BY DEF ApplyInv, Applying
<1>2. grp[g].winner \in Of(g)
  BY <1>1 DEF ApplyInv, WinnersInv, HasOwnWinners
<1>3. PICK w \in Of(g) : w = grp[g].winner
  BY <1>2
<1> DEFINE I == Items(rs, g, w)
<1>4. /\ \A t \in Of(g) : \E i \in I : Device[i.t] = Device[t]
      /\ \A i, j \in I : Device[i.t] = Device[j.t] => i = j
      /\ \A i, j \in I : i.metric = j.metric => i = j
      /\ \A i, j \in I : Device[i.t] = Device[w] /\ i # j => i.metric < j.metric
  BY <1>1, ItemsAreTheRanking
<1>5. \A i \in I : \A r \in DefaultsOf(Device[i.t]) : r.metric = i.metric
  BY <1>1, <1>3 DEF Progress
<1> HIDE DEF I
<1>6. ASSUME NEW r \in table, NEW q \in table,
             \E t \in Of(g) : Device[t] = r.dev, \E t \in Of(g) : Device[t] = q.dev
      PROVE  /\ r.dev = q.dev <=> r.metric = q.metric
             /\ r.dev = Device[w] /\ q.dev # Device[w] => r.metric < q.metric
  <2>1. PICK i \in I : Device[i.t] = r.dev
    BY <1>4, <1>6
  <2>2. PICK j \in I : Device[j.t] = q.dev
    BY <1>4, <1>6
  <2>3. r.metric = i.metric /\ q.metric = j.metric
    BY <1>5, <2>1, <2>2 DEF DefaultsOf
  <2>4. QED
    BY <1>4, <2>1, <2>2, <2>3
<1>7. QED
  BY <1>3, <1>6

\* TF-3: an apply that is through without a failure, and without a DHCP write
\* in between, leaves every interface of the group at a metric of its own and
\* the winner's cheapest, whatever the table was when it began
\* (RoutePublisher::apply and reprioritize, route.rs).
THEOREM AppliesRank == HistorySpec => []RankedAfterApply
<1>1. HistoryInit => ApplyInv
  BY DEF HistoryInit, Init, ApplyInv, WinnersInv, HasOwnWinners, ColdGroup, NoJob, Applying
<1>2. UInv /\ ApplyInv /\ [HistoryNext]_historyVars => ApplyInv'
  BY StepApplies
<1>3. UInv /\ ApplyInv => RankedAfterApply
  BY DoneIsRanked
<1>4. QED
  BY <1>1, <1>2, <1>3, HistoryInvariance, PTL DEF HistorySpec
=============================================================================
