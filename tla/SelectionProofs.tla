---------------------------- MODULE SelectionProofs ----------------------------
(***************************************************************************)
(* Facts about hysteresis and winner selection, for every configuration.   *)
(***************************************************************************)
EXTENDS Selection, TLAPS

\* What the selection needs to know of runtime records: their fields.
LEMMA ChosenIsDeclared ==
    ASSUME NEW g \in Groups, NEW rs, NEW group, NEW now,
           NEW n \in Chosen(g, rs, group, now)
    PROVE  n \in Candidates(g, rs) /\ n \in Transports
BY DEF Chosen, Damped, Preferred, Best, Candidates, Of

\* TF-1: a decision leaves a group with a winner that is Up, whatever it had
\* before: damping never holds on to a winner that is not.
THEOREM ChosenIsUp ==
    ASSUME NEW g \in Groups, NEW rs, NEW group, NEW now
    PROVE  \A n \in Chosen(g, rs, group, now) : n \in Of(g) /\ rs[n].state = "up"
BY DEF Chosen, Damped, Preferred, Best, Candidates, Of

\* TF-1: a decision that keeps neither a protected winner nor a tied one takes
\* a transport no Up transport of the group outranks.
THEOREM ChosenIsBest ==
    ASSUME NEW g \in Groups, NEW rs, NEW group, NEW now,
           NEW n \in Chosen(g, rs, group, now)
    PROVE  \/ n \in Best(g, rs)
           \/ /\ n = group.winner /\ n \in Candidates(g, rs)
              /\ now - (IF group.since = NoTime THEN now ELSE group.since)
                   < MinHold[g]
BY DEF Chosen, Damped, Preferred

\* TF-1: "the winner is deterministic": the same records and the same time
\* give the same winner.
THEOREM ChosenIsUnique ==
    ASSUME NEW g \in Groups, NEW rs, NEW group, NEW now,
           NEW m \in Chosen(g, rs, group, now),
           NEW n \in Chosen(g, rs, group, now)
    PROVE  m = n
<1>1. \A t, u \in Preferred(g, rs, group.winner) : t = u
  <2>1. CASE group.winner \in Best(g, rs)
    BY <2>1 DEF Preferred
  <2>2. CASE group.winner \notin Best(g, rs)
    <3>1. ASSUME NEW t \in Preferred(g, rs, group.winner),
                 NEW u \in Preferred(g, rs, group.winner)
          PROVE  t = u
      <4>1. t \in Of(g) /\ u \in Of(g) /\ t \in Transports /\ u \in Transports
        BY <2>2 DEF Preferred, Best, Candidates, Of
      <4>2. Index[t] <= Index[u] /\ Index[u] <= Index[t]
        BY <2>2 DEF Preferred
      <4>3. Index[t] = Index[u]
        BY <4>1, <4>2, SelectionAssumption
      <4>4. QED
        BY <4>1, <4>3, SelectionAssumption DEF Of
    <3>2. QED
      BY <3>1
  <2>3. QED
    BY <2>1, <2>2
<1>2. PICK t \in Preferred(g, rs, group.winner) :
        m = IF Damped(g, rs, group, t, now) THEN group.winner ELSE t
  BY DEF Chosen
<1>3. PICK u \in Preferred(g, rs, group.winner) :
        n = IF Damped(g, rs, group, u, now) THEN group.winner ELSE u
  BY DEF Chosen
<1>4. QED
  BY <1>1, <1>2, <1>3
=============================================================================
