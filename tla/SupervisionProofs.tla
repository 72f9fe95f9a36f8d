--------------------------- MODULE SupervisionProofs ---------------------------
(***************************************************************************)
(* What the heartbeat is worth, for any number of workers with any         *)
(* intervals, any WatchdogSec, and any hangs, panics, stops and restarts.  *)
(***************************************************************************)
EXTENDS Supervision, FiniteSetTheorems, WellFoundedInduction, TLAPS

States == {"none"} \cup Alive \cup Ended

\* The types the proofs need.
Typed ==
    /\ proc \in {"down", "starting", "up", "joining"}
    /\ shutdown \in BOOLEAN /\ initialized \in BOOLEAN
    /\ poisoned \in BOOLEAN /\ blame \in BOOLEAN /\ missed \in BOOLEAN
    /\ told \in {"no", "starting", "up", "joining"}
    /\ at \in [Workers -> States]
    /\ busy \in [Workers -> Nat] /\ next \in [Workers -> Int]
    /\ stuck \in [Workers -> BOOLEAN]
    /\ beat \in -1..WatchdogInterval /\ timer \in Nat /\ contended \in Nat

Dead == \E w \in Workers : at[w] = "dead"

\* Where a process is, its threads are.
Stages ==
    /\ proc \in {"up", "joining"} => \A w \in Workers : at[w] # "none"
    /\ proc \in {"down", "starting"} => \A w \in Workers : at[w] = "none"
    /\ proc = "down" => ~shutdown /\ told = "no"
    /\ proc = "up" => initialized
    /\ proc = "joining" => shutdown
    /\ proc # "down" /\ ~shutdown => beat >= 0

\* Nothing happens to a worker for no reason.
Reasons ==
    /\ shutdown => told # "no" \/ Dead
    /\ poisoned => Dead
    /\ \A w \in Workers :
        /\ stuck[w] => blame
        /\ at[w] = "returned" => shutdown

LEMMA Halves ==
    /\ WatchdogInterval \in Nat \ {0}
    /\ WatchdogSec = 2 * WatchdogInterval
    /\ StallLimit = WatchdogSec /\ WatchdogSec \in Nat
    /\ {-1, 0, WatchdogInterval} \subseteq -1..WatchdogInterval
BY SupervisionAssumption DEF WatchdogInterval, StallLimit

LEMMA LongerTypes == \A n \in Int : Longer({n}) \in Nat /\ Longer({n}) >= n
<1>1. ASSUME NEW n \in Int
      PROVE  \E m \in {0} \cup {n} : \A k \in {0} \cup {n} : k <= m
  <2>1. CASE n >= 0
    BY <2>1
  <2>2. CASE n < 0
    BY <2>2
  <2>3. QED
    BY <2>1, <2>2
<1>2. ASSUME NEW n \in Int PROVE Longer({n}) \in Nat /\ Longer({n}) >= n
  <2>1. /\ Longer({n}) \in {0} \cup {n}
        /\ \A k \in {0} \cup {n} : k <= Longer({n})
    BY <1>1 DEF Longer, Most
  <2>2. QED
    BY <2>1
<1>3. QED
  BY <1>2

-----------------------------------------------------------------------------
(* Types, and the stages of a process. *)

LEMMA GoneTyped == Typed /\ Gone => Typed'
<1> SUFFICES ASSUME Typed, Gone PROVE Typed'
  OBVIOUS
<1>1. /\ at' \in [Workers -> States] /\ busy' \in [Workers -> Nat]
      /\ next' \in [Workers -> Int] /\ stuck' \in [Workers -> BOOLEAN]
  BY DEF Gone, NoThreads, States
<1>2. beat' \in -1..WatchdogInterval /\ timer' \in Nat /\ contended' \in Nat
  BY Halves DEF Gone, bounds, Typed
<1>3. QED
  BY <1>1, <1>2 DEF Gone, Typed

LEMMA InitSound == Init => Typed /\ Stages /\ Reasons
<1> SUFFICES ASSUME Init PROVE Typed /\ Stages /\ Reasons
  OBVIOUS
<1>1. beat \in -1..WatchdogInterval /\ timer \in Nat /\ contended \in Nat
  BY Halves DEF Init
<1>2. /\ at \in [Workers -> States] /\ busy \in [Workers -> Nat]
      /\ next \in [Workers -> Int] /\ stuck \in [Workers -> BOOLEAN]
  BY DEF Init, States
<1>3. Typed
  BY <1>1, <1>2 DEF Init, Typed
<1>4. Stages /\ Reasons
  BY DEF Init, Stages, Reasons
<1>5. QED
  BY <1>3, <1>4

LEMMA TypedStep == Typed /\ [Next]_vars => Typed'
<1> SUFFICES ASSUME Typed, [Next]_vars PROVE Typed'
  OBVIOUS
<1> USE SupervisionAssumption, Halves, LongerTypes
    DEF Typed, States, Alive, Ended
<1>1. CASE Launch
  BY <1>1 DEF Launch, thread, bounds
<1>2. CASE StartFails
  <2>1. beat' \in -1..WatchdogInterval /\ timer' \in Nat
    BY <1>2 DEF StartFails
  <2>2. QED
    BY <1>2, <2>1 DEF StartFails, thread
<1>3. CASE Ready
  BY <1>3 DEF Ready, thread, bounds, Writes, Fault
<1>4. CASE Sigterm
  BY <1>4 DEF Sigterm, thread, bounds
<1>5. CASE Supervise
  BY <1>5 DEF Supervise, thread, bounds
<1>6. CASE Exit
  BY <1>6, GoneTyped DEF Exit
<1>7. CASE Kill
  BY <1>7, GoneTyped DEF Kill
<1>8. CASE Heartbeat
  <2>1. beat' \in -1..WatchdogInterval /\ timer' \in Nat
    <3>1. beat' = WatchdogInterval /\ (timer' = WatchdogSec \/ timer' = timer)
      BY <1>8 DEF Heartbeat
    <3>2. QED
      BY <3>1
  <2>2. contended' \in Nat
    <3>1. contended' = contended \/ contended' = contended + 1
      BY <1>8 DEF Heartbeat
    <3>2. QED
      BY <3>1
  <2>3. blame' \in BOOLEAN
    BY <1>8 DEF Heartbeat
  <2>4. QED
    BY <1>8, <2>1, <2>2, <2>3 DEF Heartbeat, thread
<1>9. CASE HeartbeatEnds
  BY <1>9 DEF HeartbeatEnds, thread, bounds
<1>10. CASE Tick
  BY <1>10 DEF Tick, bounds, Below
<1>11. ASSUME NEW w \in Workers, Return(w) PROVE Typed'
  BY <1>11 DEF Return, bounds
<1>12. ASSUME NEW w \in Workers, Begin(w) PROVE Typed'
  BY <1>12 DEF Begin, bounds, Locks
<1>13. ASSUME NEW w \in Workers, Sleep(w) PROVE Typed'
  BY <1>13 DEF Sleep, bounds
<1>14. ASSUME NEW w \in Workers, End(w) PROVE Typed'
  <2>1. missed' \in BOOLEAN
    BY <1>14 DEF End, WriteStatus, Writes
  <2>2. QED
    BY <1>14, <2>1 DEF End, bounds, Locks, Following
<1>15. ASSUME NEW w \in Workers, Hang(w) PROVE Typed'
  BY <1>15 DEF Hang, Fault
<1>16. ASSUME NEW w \in Workers, Panic(w) PROVE Typed'
  BY <1>16 DEF Panic, Fault
<1>17. CASE UNCHANGED vars
  BY <1>17 DEF vars, thread, bounds
<1>18. QED
  BY <1>1, <1>2, <1>3, <1>4, <1>5, <1>6, <1>7, <1>8, <1>9, <1>10, <1>11,
     <1>12, <1>13, <1>14, <1>15, <1>16, <1>17 DEF Next

LEMMA StagesStep == Typed /\ Stages /\ [Next]_vars => Stages'
<1> SUFFICES ASSUME Typed, Stages, [Next]_vars PROVE Stages'
  OBVIOUS
<1> USE Halves DEF Typed, Stages
<1>1. CASE Launch
  BY <1>1 DEF Launch, thread, bounds
<1>2. CASE StartFails
  BY <1>2 DEF StartFails, thread
<1>3. CASE Ready
  BY <1>3 DEF Ready, thread, bounds, Writes, Fault
<1>4. CASE Sigterm
  BY <1>4 DEF Sigterm, thread, bounds
<1>5. CASE Supervise
  BY <1>5 DEF Supervise, thread, bounds
<1>6. CASE Exit
  BY <1>6 DEF Exit, Gone, NoThreads, bounds
<1>7. CASE Kill
  BY <1>7 DEF Kill, Gone, NoThreads, bounds
<1>8. CASE Heartbeat
  BY <1>8 DEF Heartbeat, thread
<1>9. CASE HeartbeatEnds
  BY <1>9 DEF HeartbeatEnds, thread, bounds
<1>10. CASE Tick
  BY <1>10 DEF Tick, bounds, Quiet
<1>11. ASSUME NEW w \in Workers, Return(w) PROVE Stages'
  BY <1>11 DEF Return, bounds
<1>12. ASSUME NEW w \in Workers, Begin(w) PROVE Stages'
  BY <1>12 DEF Begin, bounds, Locks
<1>13. ASSUME NEW w \in Workers, Sleep(w) PROVE Stages'
  BY <1>13 DEF Sleep, bounds
<1>14. ASSUME NEW w \in Workers, End(w) PROVE Stages'
  BY <1>14 DEF End, bounds, Locks, WriteStatus, Writes, Fault
<1>15. ASSUME NEW w \in Workers, Hang(w) PROVE Stages'
  BY <1>15 DEF Hang
<1>16. ASSUME NEW w \in Workers, Panic(w) PROVE Stages'
  BY <1>16 DEF Panic
<1>17. CASE UNCHANGED vars
  BY <1>17 DEF vars, thread, bounds
<1>18. QED
  BY <1>1, <1>2, <1>3, <1>4, <1>5, <1>6, <1>7, <1>8, <1>9, <1>10, <1>11,
     <1>12, <1>13, <1>14, <1>15, <1>16, <1>17 DEF Next

LEMMA ReasonsStep == Typed /\ Stages /\ Reasons /\ [Next]_vars => Reasons'
<1> SUFFICES ASSUME Typed, Stages, Reasons, [Next]_vars PROVE Reasons'
  OBVIOUS
<1> USE DEF Typed, Stages, Reasons, Dead
<1>1. CASE Launch
  BY <1>1 DEF Launch, thread, bounds
<1>2. CASE StartFails
  BY <1>2 DEF StartFails, thread
<1>3. CASE Ready
  BY <1>3 DEF Ready, thread, bounds, Writes, Fault
<1>4. CASE Sigterm
  BY <1>4 DEF Sigterm, thread, bounds
<1>5. CASE Supervise
  BY <1>5 DEF Supervise, thread, bounds, Finished, Ended
<1>6. CASE Exit
  BY <1>6 DEF Exit, Gone, NoThreads, bounds
<1>7. CASE Kill
  BY <1>7 DEF Kill, Gone, NoThreads, bounds
<1>8. CASE Heartbeat
  <2>1. ASSUME NEW w \in Workers, stuck[w] PROVE blame'
    <3>1. blame' = blame \/ blame' = (\E v \in Workers : stuck[v])
      BY <1>8 DEF Heartbeat
    <3>2. blame
      BY <2>1
    <3>3. QED
      BY <2>1, <3>1, <3>2
  <2>2. QED
    BY <1>8, <2>1 DEF Heartbeat, thread
<1>9. CASE HeartbeatEnds
  BY <1>9 DEF HeartbeatEnds, thread, bounds
<1>10. CASE Tick
  BY <1>10 DEF Tick, bounds
<1>11. ASSUME NEW w \in Workers, Return(w) PROVE Reasons'
  BY <1>11 DEF Return, bounds
<1>12. ASSUME NEW w \in Workers, Begin(w) PROVE Reasons'
  BY <1>12 DEF Begin, bounds, Locks
<1>13. ASSUME NEW w \in Workers, Sleep(w) PROVE Reasons'
  BY <1>13 DEF Sleep, bounds
<1>14. ASSUME NEW w \in Workers, End(w) PROVE Reasons'
  BY <1>14 DEF End, bounds, Locks, WriteStatus, Writes, Fault
<1>15. ASSUME NEW w \in Workers, Hang(w) PROVE Reasons'
  BY <1>15 DEF Hang
<1>16. ASSUME NEW w \in Workers, Panic(w) PROVE Reasons'
  BY <1>16 DEF Panic
<1>17. CASE UNCHANGED vars
  BY <1>17 DEF vars, thread, bounds
<1>18. QED
  BY <1>1, <1>2, <1>3, <1>4, <1>5, <1>6, <1>7, <1>8, <1>9, <1>10, <1>11,
     <1>12, <1>13, <1>14, <1>15, <1>16, <1>17 DEF Next

-----------------------------------------------------------------------------
(* The heartbeat. *)

\* A worker that does not hang is never far behind.
Working ==
    \A w \in Workers :
        /\ at[w] = "busy" /\ ~stuck[w] => busy[w] <= Longest
        /\ at[w] \in {"none", "top", "asleep"} => next[w] >= 0

\* systemd was told of no progress since a worker is behind.
Cutting ==
    /\ told = "no" /\ proc \in {"up", "joining"} => timer <= WatchdogSec
    /\ \A w \in Workers :
        at[w] = "busy" /\ told = "no" /\ busy[w] > StallLimit
            => busy[w] + timer <= StallLimit + WatchdogSec

\* And was told in time as long as none is.
Punctual ==
    proc # "down" /\ ~Deserved /\ contended = 0
        => timer >= beat + WatchdogInterval

LEMMA InitTimes == Init => Working /\ Cutting /\ Punctual
BY DEF Init, Working, Cutting, Punctual

LEMMA WorkingStep == Typed /\ Stages /\ Working /\ [Next]_vars => Working'
<1> SUFFICES ASSUME Typed, Stages, Working, [Next]_vars PROVE Working'
  OBVIOUS
<1> USE SupervisionAssumption, LongerTypes DEF Typed, Stages, Working
<1>1. CASE Launch
  BY <1>1 DEF Launch, thread, bounds
<1>2. CASE StartFails
  BY <1>2 DEF StartFails, thread
<1>3. CASE Ready
  BY <1>3 DEF Ready, thread, bounds, Writes, Fault
<1>4. CASE Sigterm
  BY <1>4 DEF Sigterm, thread, bounds
<1>5. CASE Supervise
  BY <1>5 DEF Supervise, thread, bounds
<1>6. CASE Exit
  BY <1>6 DEF Exit, Gone, NoThreads, bounds
<1>7. CASE Kill
  BY <1>7 DEF Kill, Gone, NoThreads, bounds
<1>8. CASE Heartbeat
  BY <1>8 DEF Heartbeat, thread
<1>9. CASE HeartbeatEnds
  BY <1>9 DEF HeartbeatEnds, thread, bounds
<1>10. CASE Tick
  BY <1>10 DEF Tick, bounds, Quiet, Prompt, Below, Alive
<1>11. ASSUME NEW w \in Workers, Return(w) PROVE Working'
  BY <1>11 DEF Return, bounds
<1>12. ASSUME NEW w \in Workers, Begin(w) PROVE Working'
  BY <1>12 DEF Begin, bounds, Locks
<1>13. ASSUME NEW w \in Workers, Sleep(w) PROVE Working'
  BY <1>13 DEF Sleep, bounds
<1>14. ASSUME NEW w \in Workers, End(w) PROVE Working'
  BY <1>14 DEF End, bounds, Locks, WriteStatus, Writes, Fault, Following
<1>15. ASSUME NEW w \in Workers, Hang(w) PROVE Working'
  BY <1>15 DEF Hang
<1>16. ASSUME NEW w \in Workers, Panic(w) PROVE Working'
  BY <1>16 DEF Panic
<1>17. CASE UNCHANGED vars
  BY <1>17 DEF vars, thread, bounds
<1>18. QED
  BY <1>1, <1>2, <1>3, <1>4, <1>5, <1>6, <1>7, <1>8, <1>9, <1>10, <1>11,
     <1>12, <1>13, <1>14, <1>15, <1>16, <1>17 DEF Next

LEMMA CuttingStep == Typed /\ Stages /\ Cutting /\ [Next]_vars => Cutting'
<1> SUFFICES ASSUME Typed, Stages, Cutting, [Next]_vars PROVE Cutting'
  OBVIOUS
<1> USE Halves DEF Typed, Stages, Cutting
<1>1. CASE Launch
  BY <1>1 DEF Launch, thread, bounds
<1>2. CASE StartFails
  BY <1>2 DEF StartFails, thread
<1>3. CASE Ready
  BY <1>3 DEF Ready, thread, bounds, Writes, Fault
<1>4. CASE Sigterm
  BY <1>4 DEF Sigterm, thread, bounds
<1>5. CASE Supervise
  BY <1>5 DEF Supervise, thread, bounds
<1>6. CASE Exit
  BY <1>6 DEF Exit, Gone, NoThreads, bounds
<1>7. CASE Kill
  BY <1>7 DEF Kill, Gone, NoThreads, bounds
<1>8. CASE Heartbeat
  <2>1. /\ told' = told /\ at' = at /\ busy' = busy /\ proc' = proc
        /\ \/ timer' = WatchdogSec /\ WatchdogHealthy
           \/ timer' = timer
    BY <1>8 DEF Heartbeat, thread
  <2>2. ASSUME WatchdogHealthy, NEW w \in Workers, at[w] = "busy"
        PROVE  ~(busy[w] > StallLimit)
    BY <2>2 DEF WatchdogHealthy
  <2>3. QED
    BY <2>1, <2>2
<1>9. CASE HeartbeatEnds
  BY <1>9 DEF HeartbeatEnds, thread, bounds
<1>10. CASE Tick
  BY <1>10 DEF Tick, bounds, Quiet, Below
<1>11. ASSUME NEW w \in Workers, Return(w) PROVE Cutting'
  BY <1>11 DEF Return, bounds
<1>12. ASSUME NEW w \in Workers, Begin(w) PROVE Cutting'
  BY <1>12 DEF Begin, bounds, Locks
<1>13. ASSUME NEW w \in Workers, Sleep(w) PROVE Cutting'
  BY <1>13 DEF Sleep, bounds
<1>14. ASSUME NEW w \in Workers, End(w) PROVE Cutting'
  BY <1>14 DEF End, bounds, Locks, WriteStatus, Writes, Fault
<1>15. ASSUME NEW w \in Workers, Hang(w) PROVE Cutting'
  BY <1>15 DEF Hang
<1>16. ASSUME NEW w \in Workers, Panic(w) PROVE Cutting'
  BY <1>16 DEF Panic
<1>17. CASE UNCHANGED vars
  BY <1>17 DEF vars, thread, bounds
<1>18. QED
  BY <1>1, <1>2, <1>3, <1>4, <1>5, <1>6, <1>7, <1>8, <1>9, <1>10, <1>11,
     <1>12, <1>13, <1>14, <1>15, <1>16, <1>17 DEF Next

LEMMA PunctualStep ==
    ASSUME Longest <= StallLimit,
           Typed, Stages, Reasons, Working, Punctual, [Next]_vars
    PROVE  Punctual'
<1> SUFFICES ASSUME (proc # "down" /\ ~Deserved /\ contended = 0)'
             PROVE  (timer >= beat + WatchdogInterval)'
  BY DEF Punctual
<1> USE Halves DEF Typed, Stages, Reasons, Dead, Deserved, Punctual
<1>1. CASE Launch
  BY <1>1 DEF Launch, thread, bounds
<1>2. CASE StartFails
  BY <1>2 DEF StartFails, thread
<1>3. CASE Ready
  BY <1>3 DEF Ready, thread, bounds, Writes, Fault
<1>4. CASE Sigterm
  BY <1>4 DEF Sigterm, thread, bounds
<1>5. CASE Supervise
  BY <1>5 DEF Supervise, thread, bounds
<1>6. CASE Exit
  BY <1>6 DEF Exit, Gone, NoThreads, bounds
<1>7. CASE Kill
  BY <1>7 DEF Kill, Gone, NoThreads, bounds
<1>8. CASE Heartbeat
  <2>1. /\ proc' = proc /\ told' = told /\ at' = at /\ stuck' = stuck
        /\ beat = 0 /\ beat' = WatchdogInterval /\ ~shutdown
    BY <1>8 DEF Heartbeat, thread
  <2>2. CASE WatchdogHealthy /\ timer' = WatchdogSec
    BY <2>1, <2>2
  <2>3. CASE ~WatchdogHealthy /\ blame' = blame /\ contended' = contended
    <3>1. /\ proc = "up" /\ initialized /\ ~poisoned
          /\ \A w \in Workers : at[w] # "dead" /\ ~stuck[w]
      BY <2>1, <2>3
    <3>2. ASSUME NEW w \in Workers
          PROVE  IF at[w] \in {"busy", "dead"} THEN busy[w] <= StallLimit
                 ELSE next[w] + StallLimit >= 0
      BY <2>1, <3>1, SupervisionAssumption DEF Working, States, Alive, Ended
    <3>3. QED
      BY <2>3, <3>1, <3>2 DEF WatchdogHealthy
  <2>4. CASE contended' = contended + 1
    BY <2>4
  <2>5. QED
    BY <1>8, <2>2, <2>3, <2>4 DEF Heartbeat
<1>9. CASE HeartbeatEnds
  BY <1>9 DEF HeartbeatEnds, thread, bounds
<1>10. CASE Tick
  BY <1>10 DEF Tick, bounds, Quiet
<1>11. ASSUME NEW w \in Workers, Return(w)
      PROVE  (timer >= beat + WatchdogInterval)'
  BY <1>11 DEF Return, bounds
<1>12. ASSUME NEW w \in Workers, Begin(w)
      PROVE  (timer >= beat + WatchdogInterval)'
  BY <1>12 DEF Begin, bounds, Locks
<1>13. ASSUME NEW w \in Workers, Sleep(w)
      PROVE  (timer >= beat + WatchdogInterval)'
  BY <1>13 DEF Sleep, bounds
<1>14. ASSUME NEW w \in Workers, End(w)
      PROVE  (timer >= beat + WatchdogInterval)'
  BY <1>14 DEF End, bounds, Locks, WriteStatus, Writes, Fault
<1>15. ASSUME NEW w \in Workers, Hang(w)
      PROVE  (timer >= beat + WatchdogInterval)'
  BY <1>15 DEF Hang
<1>16. ASSUME NEW w \in Workers, Panic(w)
      PROVE  (timer >= beat + WatchdogInterval)'
  BY <1>16 DEF Panic
<1>17. CASE UNCHANGED vars
  BY <1>17 DEF vars, thread, bounds
<1>18. QED
  BY <1>1, <1>2, <1>3, <1>4, <1>5, <1>6, <1>7, <1>8, <1>9, <1>10, <1>11,
     <1>12, <1>13, <1>14, <1>15, <1>16, <1>17 DEF Next

-----------------------------------------------------------------------------
(* status.json. *)

\* Where a worker is in its interval.  A signal is what raises the flag,
\* unless a worker died.
Paced ==
    /\ told # "no" => shutdown
    /\ \A w \in Workers :
        /\ next[w] <= Interval[w]
        /\ at[w] = "busy" => next[w] <= 0
        /\ at[w] = "none" => next[w] = 0

\* Every worker has seen to it that the status was current within an interval
\* and a coalesced write before its probe began.
Written ==
    /\ shown \in Nat
    /\ proc = "up" /\ ~shutdown /\ ~missed /\ (\A w \in Workers : at[w] \in Alive)
        => \A w \in Workers :
            /\ at[w] \in {"top", "asleep"}
                => shown + next[w] <= Interval[w] + Coalescing
            /\ at[w] = "busy" => shown <= Interval[w] + Coalescing + busy[w]

LEMMA InitWritten == Init => Paced /\ Written
BY SupervisionAssumption DEF Init, Paced, Written

LEMMA LongerExact == \A n \in Int : Longer({n}) = n \/ (Longer({n}) = 0 /\ n <= 0)
<1> SUFFICES ASSUME NEW n \in Int
             PROVE  Longer({n}) = n \/ (Longer({n}) = 0 /\ n <= 0)
  OBVIOUS
<1>1. \E m \in {0} \cup {n} : \A k \in {0} \cup {n} : k <= m
  <2>1. CASE n >= 0
    BY <2>1
  <2>2. CASE n < 0
    BY <2>2
  <2>3. QED
    BY <2>1, <2>2
<1>2. /\ Longer({n}) \in {0} \cup {n}
      /\ \A k \in {0} \cup {n} : k <= Longer({n})
  BY <1>1 DEF Longer, Most
<1>3. QED
  BY <1>2

LEMMA PacedStep == Typed /\ Stages /\ Working /\ Paced /\ [Next]_vars => Paced'
<1> SUFFICES ASSUME Typed, Stages, Working, Paced, [Next]_vars PROVE Paced'
  OBVIOUS
<1> USE SupervisionAssumption, LongerTypes, LongerExact
    DEF Typed, Stages, Working, Paced
<1>1. CASE Launch
  BY <1>1 DEF Launch, thread, bounds
<1>2. CASE StartFails
  BY <1>2 DEF StartFails, thread, Fault
<1>3. CASE Ready
  BY <1>3 DEF Ready, thread, bounds, Writes, Fault
<1>4. CASE Sigterm
  BY <1>4 DEF Sigterm, thread, bounds
<1>5. CASE Supervise
  BY <1>5 DEF Supervise, thread, bounds
<1>6. CASE Exit
  BY <1>6 DEF Exit, Gone, NoThreads, bounds
<1>7. CASE Kill
  BY <1>7 DEF Kill, Gone, NoThreads, bounds
<1>8. CASE Heartbeat
  BY <1>8 DEF Heartbeat, thread
<1>9. CASE HeartbeatEnds
  BY <1>9 DEF HeartbeatEnds, thread, bounds
<1>10. CASE Tick
  BY <1>10 DEF Tick, bounds, Alive
<1>11. ASSUME NEW w \in Workers, Return(w) PROVE Paced'
  BY <1>11 DEF Return, bounds
<1>12. ASSUME NEW w \in Workers, Begin(w) PROVE Paced'
  BY <1>12 DEF Begin, bounds, Locks
<1>13. ASSUME NEW w \in Workers, Sleep(w) PROVE Paced'
  BY <1>13 DEF Sleep, bounds
<1>14. ASSUME NEW w \in Workers, End(w) PROVE Paced'
  BY <1>14 DEF End, bounds, Locks, WriteStatus, Writes, Fault, Following
<1>15. ASSUME NEW w \in Workers, Hang(w) PROVE Paced'
  BY <1>15 DEF Hang, Fault
<1>16. ASSUME NEW w \in Workers, Panic(w) PROVE Paced'
  BY <1>16 DEF Panic, Fault
<1>17. CASE UNCHANGED vars
  BY <1>17 DEF vars, thread, bounds
<1>18. QED
  BY <1>1, <1>2, <1>3, <1>4, <1>5, <1>6, <1>7, <1>8, <1>9, <1>10, <1>11,
     <1>12, <1>13, <1>14, <1>15, <1>16, <1>17 DEF Next

\* The watchdog cuts a probe before the end of its clock.
LEMMA WrittenStep ==
    ASSUME Typed, Stages, Reasons, Working, Cutting, Paced, Written, [Next]_vars
    PROVE  Written'
<1> USE SupervisionAssumption, Halves, LongerTypes, LongerExact
    DEF Typed, Stages, Working, Paced, Written, Alive
<1>1. CASE Launch
  BY <1>1 DEF Launch, thread, bounds
<1>2. CASE StartFails
  BY <1>2 DEF StartFails, thread, Fault
<1>3. CASE Ready
  BY <1>3 DEF Ready, thread, bounds, Writes, Fault
<1>4. CASE Sigterm
  BY <1>4 DEF Sigterm, thread, bounds
<1>5. CASE Supervise
  BY <1>5 DEF Supervise, thread, bounds
<1>6. CASE Exit
  BY <1>6 DEF Exit, Gone, NoThreads, bounds
<1>7. CASE Kill
  BY <1>7 DEF Kill, Gone, NoThreads, bounds
<1>8. CASE Heartbeat
  BY <1>8 DEF Heartbeat, thread
<1>9. CASE HeartbeatEnds
  BY <1>9 DEF HeartbeatEnds, thread, bounds
<1>10. CASE Tick
  <2>1. shown' \in Nat /\ shown' <= shown + 1
    BY <1>10 DEF Tick, Below
  <2>2. ASSUME proc = "up", ~shutdown, NEW w \in Workers, at[w] = "busy"
        PROVE  busy'[w] = busy[w] + 1
    <3>1. told = "no"
      BY <2>2
    <3>2. busy[w] < BusyLimit
      BY <2>2, <3>1 DEF Cutting, BusyLimit
    <3>3. QED
      BY <1>10, <2>2, <3>2 DEF Tick, Below
  <2>3. ASSUME NEW w \in Workers, at[w] = "asleep" PROVE next'[w] = next[w] - 1
    <3>1. next[w] >= 0 /\ BusyLimit \in Nat \ {0}
      BY <2>3 DEF BusyLimit
    <3>2. QED
      BY <1>10, <2>3, <3>1 DEF Tick, Alive
  <2>4. \A w \in Workers : at[w] # "top" /\ at'[w] = at[w] /\ stuck'[w] = stuck[w]
    BY <1>10 DEF Tick, Quiet, Prompt
  <2>5. proc' = proc /\ shutdown' = shutdown /\ missed' = missed
    BY <1>10 DEF Tick
  <2>6. QED
    BY <2>1, <2>2, <2>3, <2>4, <2>5
<1>11. ASSUME NEW w \in Workers, Return(w) PROVE Written'
  BY <1>11 DEF Return, bounds
<1>12. ASSUME NEW w \in Workers, Begin(w) PROVE Written'
  BY <1>12 DEF Begin, bounds, Locks
<1>13. ASSUME NEW w \in Workers, Sleep(w) PROVE Written'
  BY <1>13 DEF Sleep, bounds
<1>14. ASSUME NEW w \in Workers, End(w) PROVE Written'
  <2>1. \/ at'[w] = "dead" \/ shown' = 0 \/ missed'
        \/ shown' = shown /\ missed' = missed /\ shown <= Coalescing
    BY <1>14 DEF End, Locks, WriteStatus, Writes
  <2>2. shown' \in Nat
    BY <1>14 DEF End, WriteStatus, Writes
  <2>3. \A v \in Workers :
          /\ next'[v] \in Int /\ next'[v] <= Interval[v] /\ busy'[v] \in Nat
          /\ v # w => /\ next'[v] = next[v] /\ busy'[v] = busy[v]
                      /\ at'[v] = at[v]
          /\ at'[w] \in {"dead", "top"} /\ at[w] = "busy"
    BY <1>14 DEF End, Following, Locks
  <2>4. proc' = proc /\ shutdown' = shutdown
    BY <1>14 DEF End
  <2>5. QED
    BY <2>1, <2>2, <2>3, <2>4
<1>15. ASSUME NEW w \in Workers, Hang(w) PROVE Written'
  BY <1>15 DEF Hang, Fault
<1>16. ASSUME NEW w \in Workers, Panic(w) PROVE Written'
  BY <1>16 DEF Panic, Fault
<1>17. CASE UNCHANGED vars
  BY <1>17 DEF vars, thread, bounds
<1>18. QED
  BY <1>1, <1>2, <1>3, <1>4, <1>5, <1>6, <1>7, <1>8, <1>9, <1>10, <1>11,
     <1>12, <1>13, <1>14, <1>15, <1>16, <1>17 DEF Next

-----------------------------------------------------------------------------
(* Theorems. *)

\* A worker that hangs is never waited for any longer than it takes the
\* heartbeat to miss it and systemd to act: the heartbeat thread, which does
\* not hang with it, hides nothing.
THEOREM HangsStayCut == Spec => []HangsAreCut
<1>1. Typed /\ Stages /\ Reasons /\ Cutting => HangsAreCut
  BY Halves DEF Typed, Cutting, HangsAreCut
<1>2. QED
  BY <1>1, InitSound, InitTimes, TypedStep, StagesStep, ReasonsStep, CuttingStep,
     PTL DEF Spec

\* A daemon whose probes end within the stall limit is not killed unless it
\* was told to stop, is starting, or one of its workers hangs or is dead.
THEOREM WellIsSpared ==
    ASSUME Longest <= StallLimit
    PROVE  Spec => WellIsNotKilled
<1>1. Typed /\ Stages /\ Reasons /\ Working /\ Punctual /\ [Next]_vars
        => [Kill => Deserved \/ contended > 0]_vars
  BY Halves DEF Typed, Stages, Reasons, Dead, Punctual, Kill, Deserved
<1>2. QED
  BY <1>1, InitSound, InitTimes, TypedStep, StagesStep, ReasonsStep, WorkingStep,
     PunctualStep, PTL DEF Spec, WellIsNotKilled

\* No worker retires for no reason.
THEOREM StopsHaveReasons == Spec => []StopsForAReason
<1>1. Reasons => StopsForAReason
  BY DEF Reasons, Dead, StopsForAReason
<1>2. QED
  BY <1>1, InitSound, TypedStep, StagesStep, ReasonsStep, PTL DEF Spec

\* Of finitely many workers one has the longest interval and timeout.
LEMMA OneIsSlowest ==
    \E v \in Workers : \A w \in Workers :
        Interval[w] + Timeout[w] <= Interval[v] + Timeout[v]
<1>1. PICK n \in Nat : ExistsSurjection(1..n, Workers)
  BY SupervisionAssumption, FS_NatSurjection
<1>2. PICK f \in Surjection(1..n, Workers) : TRUE
  BY <1>1 DEF ExistsSurjection
<1>3. f \in [1..n -> Workers] /\ \A w \in Workers : \E i \in 1..n : f[i] = w
  BY <1>2 DEF Surjection
<1>4. n # 0
  BY <1>3, SupervisionAssumption
<1> DEFINE m == [i \in 1..n |-> Interval[f[i]] + Timeout[f[i]]]
           Attained(k) == \E i \in 1..k : \A j \in 1..k : m[j] <= m[i]
           Bad == {k \in Nat : k \in 1..n /\ ~Attained(k)}
           R == OpToRel(<, Nat)
<1>5. \A i \in 1..n : m[i] \in Nat
  BY <1>3, SupervisionAssumption
<1> HIDE DEF m
<1>6. Bad = {}
  <2> SUFFICES ASSUME Bad # {} PROVE FALSE
    OBVIOUS
  <2>1. IsWellFoundedOn(R, Nat)
    BY NatLessThanWellFounded, Zenon
  <2>2. \A x, y \in Nat : x < y => <<x, y>> \in R
    BY DEF OpToRel
  <2> HIDE DEF R
  <2>3. Bad \in SUBSET Nat
    OBVIOUS
  <2>4. PICK k \in Bad : \A j \in Bad : <<j, k>> \notin R
    <3> HIDE DEF Bad
    <3>1. QED
      BY <2>1, <2>3, WFMin
  <2>5. k \in 1..n /\ ~Attained(k)
    OBVIOUS
  <2> HIDE DEF Bad, Attained
  <2>6. CASE k = 1
    BY <1>5, <2>5, <2>6 DEF Attained
  <2>7. CASE k # 1
    <3>1. k - 1 \in Nat /\ k - 1 \in 1..n /\ k \in Nat /\ k - 1 < k
      BY <2>5, <2>7
    <3>2. k - 1 \notin Bad
      BY <2>2, <2>4, <3>1
    <3>3. Attained(k - 1)
      BY <3>1, <3>2 DEF Bad
    <3>4. PICK i \in 1..(k - 1) : \A j \in 1..(k - 1) : m[j] <= m[i]
      BY <3>3 DEF Attained
    <3>5. /\ \A j \in 1..k : j \in 1..(k - 1) \/ j = k
          /\ i \in 1..k /\ k \in 1..k /\ \A j \in 1..k : j \in 1..n
      BY <2>5, <3>1
    <3>6. CASE m[k] <= m[i]
      BY <2>5, <3>4, <3>5, <3>6 DEF Attained
    <3>7. CASE ~(m[k] <= m[i])
      <4>1. \A j \in 1..k : m[j] <= m[k]
        BY <1>5, <3>4, <3>5, <3>7
      <4>2. QED
        BY <2>5, <3>5, <4>1 DEF Attained
    <3>8. QED
      BY <3>6, <3>7
  <2>8. QED
    BY <2>6, <2>7
<1>7. PICK i \in 1..n : \A j \in 1..n : m[j] <= m[i]
  <2>1. n \in 1..n
    BY <1>4
  <2>2. Attained(n)
    <3> HIDE DEF Attained
    <3>1. QED
      BY <1>6, <2>1
  <2>3. QED
    BY <2>2
<1>8. \A j \in 1..n : m[j] = Interval[f[j]] + Timeout[f[j]]
  BY DEF m
<1>9. \A w \in Workers : Interval[w] + Timeout[w] <= Interval[f[i]] + Timeout[f[i]]
  BY <1>3, <1>7, <1>8
<1>10. QED
  BY <1>3, <1>9

\* And the validity covers it, whichever of the two is longer.
LEMMA TtlCovers ==
    /\ StatusTtl \in Nat
    /\ \A w \in Workers : Interval[w] + Timeout[w] + Slack <= StatusTtl
<1>1. PICK v \in Workers : \A w \in Workers :
        Interval[w] + Timeout[w] <= Interval[v] + Timeout[v]
  BY OneIsSlowest
<1> DEFINE S == {0} \cup {Interval[w] + Timeout[w] : w \in Workers}
           T == {0} \cup {LongestTick + Slack, MinTtl}
<1>2. LongestTick \in Nat /\ \A w \in Workers : Interval[w] + Timeout[w] <= LongestTick
  <2>1. /\ Interval[v] + Timeout[v] \in S
        /\ \A m \in S : m <= Interval[v] + Timeout[v] /\ m \in Nat
    BY <1>1, SupervisionAssumption
  <2>2. Most(S) \in S /\ \A m \in S : m <= Most(S)
    BY <2>1 DEF Most
  <2>3. LongestTick = Most(S)
    BY DEF LongestTick, Longer
  <2>4. QED
    BY <2>1, <2>2, <2>3
<1>3. StatusTtl \in Nat /\ LongestTick + Slack <= StatusTtl
  <2>1. \A m \in T : m \in Nat
    BY <1>2, SupervisionAssumption
  <2>2. \E n \in T : \A m \in T : m <= n
    <3>1. CASE LongestTick + Slack <= MinTtl
      BY <1>2, <3>1, SupervisionAssumption
    <3>2. CASE ~(LongestTick + Slack <= MinTtl)
      BY <1>2, <3>2, SupervisionAssumption
    <3>3. QED
      BY <3>1, <3>2
  <2>3. Most(T) \in T /\ \A m \in T : m <= Most(T)
    BY <2>2 DEF Most
  <2>4. StatusTtl = Most(T)
    BY DEF StatusTtl, Longer
  <2>5. QED
    BY <2>1, <2>3, <2>4
<1>4. QED
  BY <1>2, <1>3, SupervisionAssumption

\* What the validity that the daemon writes into status.json is worth, for any
\* intervals and timeouts, and however long a probe and its publications really
\* take: a document that is not followed by a failed write expires only when
\* every worker is in a probe_once that has overrun its timeout.
THEOREM StatusIsKeptValid == Spec => []StatusStaysValid
<1>1. Typed /\ Working /\ Written => StatusStaysValid
  <2> SUFFICES ASSUME Typed, Working, Written,
                      proc = "up", ~shutdown, ~missed,
                      \A w \in Workers : at[w] \in Alive,
                      ~(shown <= StatusTtl),
                      NEW w \in Workers
               PROVE  /\ at[w] = "busy"
                      /\ busy[w] > Timeout[w] + Slack - Coalescing
    BY DEF StatusStaysValid
  <2>1. /\ Interval[w] \in Nat /\ Timeout[w] \in Nat /\ Coalescing \in Nat
        /\ Slack \in Nat /\ Coalescing <= Slack
        /\ shown \in Nat /\ next[w] \in Int /\ busy[w] \in Nat
    BY SupervisionAssumption DEF Typed, Written
  <2>2. shown > Interval[w] + Timeout[w] + Slack
    BY <2>1, TtlCovers
  <2>3. at[w] = "busy"
    <3>1. CASE at[w] \in {"top", "asleep"}
      BY <2>1, <2>2, <3>1 DEF Written, Working
    <3>2. QED
      BY <3>1 DEF Alive
  <2>4. shown <= Interval[w] + Coalescing + busy[w]
    BY <2>3 DEF Written
  <2>5. QED
    BY <2>1, <2>2, <2>3, <2>4
<1>2. QED
  BY <1>1, InitSound, InitTimes, InitWritten, TypedStep, StagesStep, ReasonsStep,
     WorkingStep, CuttingStep, PacedStep, WrittenStep, PTL DEF Spec
=============================================================================
