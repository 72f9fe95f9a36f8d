----------------------------- MODULE ProbesProofs -----------------------------
(***************************************************************************)
(* What a probe's verdict is worth, for any configurations, hosts, servers *)
(* and helpers.                                                            *)
(***************************************************************************)
EXTENDS Probes, SequenceTheorems, FiniteSetTheorems, WellFoundedInduction, TLAPS

-----------------------------------------------------------------------------
(* What is known of a transport once the defaults are filled in. *)

Loaded == {ApplyDefaults(c) : c \in Configs}

FilledIn(kind, t) ==
    /\ t.probe.pace \in ProbeDefaults
    /\ t.address \in Seq(STRING) /\ t.probe.target \in Seq(STRING)
    /\ t.id = [given |-> t.id.given, derived |-> t.id.derived]
    /\ t.id.given = "" => t.id.derived = Mechanism(t)
    /\ kind = "peer" /\ t.probe.target = <<>> => t.address = <<>>

LEMMA FilledDefaults ==
    ASSUME NEW d \in ProbeDefaults, NEW def \in ProbeDefaults
    PROVE  Filled(d, def) \in ProbeDefaults
BY DEF Filled, Or, ProbeDefaults

\* The provers do not know a literal to be a STRING.
FilledProbes ==
    [method : STRING \cup {"tcp"}, target : Seq(STRING), port : Int,
     path : STRING \cup {"/"}, bind : BOOLEAN, exec : STRING, pace : ProbeDefaults]
FilledTransportConfig ==
    [id : [given : STRING, derived : {<<>>}], provider : STRING,
     interface : STRING, address : Seq(STRING), priority : Int,
     probe : FilledProbes]

LEMMA TransportIsFilled ==
    ASSUME NEW kind, NEW raw \in TransportConfig, NEW def \in ProbeDefaults
    PROVE  FilledIn(kind, FilledTransport(kind, raw, def))
<1> DEFINE probed == [raw EXCEPT !.probe = FilledProbe(@, def)]
           t == IF kind = "peer" /\ probed.probe.target = <<>>
                THEN [probed EXCEPT !.probe.target = raw.address] ELSE probed
<1>1. /\ raw.probe \in ProbeConfig /\ raw.address \in Seq(STRING)
      /\ Filled(raw.probe.pace, def) \in ProbeDefaults
  BY FilledDefaults DEF TransportConfig, ProbeConfig
<1>2. FilledProbe(raw.probe, def) \in FilledProbes
  <2> DEFINE q == raw.probe
  <2>1. q.method \in STRING /\ q.path \in STRING /\ q.port \in Int
    BY <1>1 DEF ProbeConfig
  <2>2. OrText(q.method, "tcp") \in STRING \cup {"tcp"}
    BY <2>1, Zenon DEF OrText
  <2>3. OrText(q.path, "/") \in STRING \cup {"/"}
    BY <2>1, Zenon DEF OrText
  <2>4. Or(q.port, 22) \in Int
    BY <2>1 DEF Or
  <2>5. QED
    BY <1>1, <2>2, <2>3, <2>4 DEF FilledProbe, ProbeConfig, FilledProbes
<1>3. probed \in FilledTransportConfig /\ probed.address = raw.address
  BY <1>2 DEF TransportConfig, FilledTransportConfig
<1>4. /\ t \in FilledTransportConfig
      /\ kind = "peer" /\ t.probe.target = <<>> => t.address = <<>>
  BY <1>1, <1>3 DEF FilledTransportConfig, FilledProbes
<1>5. FilledTransport(kind, raw, def) = Identified(t)
  BY DEF FilledTransport
<1> HIDE DEF t
<1>6. CASE t.id.given # ""
  BY <1>4, <1>5, <1>6
  DEF Identified, FilledIn, FilledTransportConfig, FilledProbes
<1>7. CASE t.id.given = ""
  <2> DEFINE u == [t EXCEPT !.id.derived = Mechanism(t)]
  <2>1. /\ u.provider = t.provider /\ u.interface = t.interface
        /\ u.address = t.address /\ u.probe = t.probe
        /\ u.id.derived = Mechanism(t)
        /\ u.id = [given |-> u.id.given, derived |-> u.id.derived]
    BY <1>4 DEF FilledTransportConfig
  <2>2. Mechanism(u) = Mechanism(t)
    BY <2>1 DEF Mechanism
  <2>3. FilledTransport(kind, raw, def) = u
    BY <1>5, <1>7 DEF Identified
  <2> HIDE DEF u
  <2>4. QED
    BY <1>4, <2>1, <2>2, <2>3 DEF FilledIn, FilledTransportConfig, FilledProbes
<1>8. QED
  BY <1>6, <1>7

\* A worker is that of a transport of an accepted configuration.
LEMMA WorkersAreLoaded ==
    ASSUME NEW c \in Loaded, NEW w \in Workers(c)
    PROVE  /\ Valid(c) /\ FilledIn(w[1], Transport(c, w))
           /\ \/ /\ w[1] = "peer" /\ w[2] \in DOMAIN c.peers
                 /\ w[3] \in DOMAIN c.peers[w[2]].transports
                 /\ Transport(c, w) = c.peers[w[2]].transports[w[3]]
              \/ /\ w[1] = "uplink" /\ w[2] \in DOMAIN c.uplinks
                 /\ w[3] \in DOMAIN c.uplinks[w[2]].transports
                 /\ Transport(c, w) = c.uplinks[w[2]].transports[w[3]]
           /\ w = <<w[1], w[2], w[3]>>
<1>1. PICK raw \in Configs : c = ApplyDefaults(raw)
  BY DEF Loaded
<1> DEFINE def == Filled(raw.defaults, BuiltIn)
<1>2. Parsed(raw) /\ def \in ProbeDefaults
  BY FilledDefaults, WorldAssumption, ConfigurationAssumption DEF Parsed
<1>3. Valid(c) /\ w \in Of("peer", c.peers) \cup Of("uplink", c.uplinks)
  BY DEF Workers
<1>4. CASE w \in Of("peer", c.peers)
  <2>1. PICK n \in DOMAIN c.peers : \E i \in DOMAIN c.peers[n].transports :
            w = <<"peer", n, i>>
    BY <1>4 DEF Of
  <2>2. PICK i \in DOMAIN c.peers[n].transports : w = <<"peer", n, i>>
    BY <2>1
  <2>3. n \in DOMAIN raw.peers /\ raw.peers[n] \in PeerConfig
    BY <1>1, <1>2, <2>1 DEF ApplyDefaults, Parsed
  <2>4. c.peers[n].transports = FilledTransports("peer", raw.peers[n].transports, def)
    BY <1>1, <2>3 DEF ApplyDefaults, PeerConfig
  <2>5. /\ i \in DOMAIN raw.peers[n].transports
        /\ raw.peers[n].transports[i] \in TransportConfig
        /\ c.peers[n].transports[i] =
              FilledTransport("peer", raw.peers[n].transports[i], def)
    BY <2>2, <2>3, <2>4 DEF FilledTransports, PeerConfig
  <2>6. FilledIn("peer", c.peers[n].transports[i])
    BY <1>2, <2>5, TransportIsFilled
  <2>7. QED
    BY <1>3, <2>2, <2>6 DEF Transport
<1>5. CASE w \in Of("uplink", c.uplinks)
  <2>1. PICK n \in DOMAIN c.uplinks : \E i \in DOMAIN c.uplinks[n].transports :
            w = <<"uplink", n, i>>
    BY <1>5 DEF Of
  <2>2. PICK i \in DOMAIN c.uplinks[n].transports : w = <<"uplink", n, i>>
    BY <2>1
  <2>3. n \in DOMAIN raw.uplinks /\ raw.uplinks[n] \in UplinkConfig
    BY <1>1, <1>2, <2>1 DEF ApplyDefaults, Parsed
  <2>4. c.uplinks[n].transports =
            FilledTransports("uplink", raw.uplinks[n].transports, def)
    BY <1>1, <2>3 DEF ApplyDefaults, UplinkConfig
  <2>5. /\ i \in DOMAIN raw.uplinks[n].transports
        /\ raw.uplinks[n].transports[i] \in TransportConfig
        /\ c.uplinks[n].transports[i] =
              FilledTransport("uplink", raw.uplinks[n].transports[i], def)
    BY <2>2, <2>3, <2>4 DEF FilledTransports, UplinkConfig
  <2>6. FilledIn("uplink", c.uplinks[n].transports[i])
    BY <1>2, <2>5, TransportIsFilled
  <2>7. QED
    BY <1>3, <2>2, <2>6 DEF Transport
<1>6. QED
  BY <1>3, <1>4, <1>5

\* What validate leaves of its probe.
LEMMA ProbesAreValid ==
    ASSUME NEW c \in Loaded, NEW w \in Workers(c)
    PROVE  LET t == Transport(c, w)
           IN  /\ t.probe.method \in {"tcp", "icmp", "http", "exec"}
               /\ t.probe.pace.timeout \in Nat \ {0}
               /\ t.probe.pace.interval > 0 /\ t.probe.pace.up > 0
               /\ t.probe.pace.down > 0
               /\ t.probe.method = "exec" => t.probe.exec # ""
               /\ w[1] = "uplink" /\ t.probe.method # "exec"
                    => t.probe.target # <<>>
<1> DEFINE t == Transport(c, w)
<1>1. ValidProbe(t.probe) /\ t.probe.pace \in ProbeDefaults
  BY WorkersAreLoaded DEF Valid, ValidPeer, ValidUplink, FilledIn
<1>2. w[1] = "uplink" /\ t.probe.method # "exec" => t.probe.target # <<>>
  BY WorkersAreLoaded DEF Valid, ValidUplink
<1> HIDE DEF t
<1>3. /\ DOMAIN t.probe.pace = {"interval", "timeout", "up", "down"}
      /\ t.probe.pace.timeout \in Int
  BY <1>1 DEF ProbeDefaults
<1>4. /\ t.probe.pace.interval > 0 /\ t.probe.pace.timeout > 0
      /\ t.probe.pace.up > 0 /\ t.probe.pace.down > 0
  BY <1>1, <1>3 DEF ValidProbe, Positive
<1>5. /\ t.probe.method \in {"tcp", "icmp", "http", "exec"}
      /\ t.probe.method = "exec" => t.probe.exec # ""
  BY <1>1 DEF ValidProbe
<1>6. t.probe.pace.timeout \in Nat \ {0}
  BY <1>3, <1>4
<1>7. QED
  BY <1>2, <1>4, <1>5, <1>6 DEF t
-----------------------------------------------------------------------------
(* The types, and what is true of each worker by itself: of its transport  *)
(* t, its probe r and the environment e of that.                           *)

ProbeState ==
    [at : {"idle", "resolve", "dial", "read", "send", "listen", "watch", "kill",
           "close", "done", "judged"},
     spent : Nat, left : Seq({"v4", "v6"}), window : Nat, got : Nat, seq : Int,
     late : BOOLEAN, error : BOOLEAN, healthy : BOOLEAN, address : Seq(STRING)]
EnvState ==
    [child : {"none", "runs", "exit 0", "failed"},
     kids : SUBSET {"in group", "in session"}, says : Seq(STRING),
     status : Seq(Nat), whole : BOOLEAN]

Typed ==
    /\ cfg \in Loaded
    /\ p \in [Workers(cfg) -> ProbeState] /\ env \in [Workers(cfg) -> EnvState]
    /\ nextSeq \in Nat

\* Where a probe is, by its method; the verdict comes at the end.
Course(t, r) ==
    /\ r.at = "resolve" => t.probe.method # "exec"
    /\ r.at = "dial" => t.probe.method \in {"tcp", "http"}
    /\ r.at = "read" => t.probe.method = "http"
    /\ r.at \in {"send", "listen"} => t.probe.method = "icmp"
    /\ r.at \in {"watch", "kill", "close"} => t.probe.method = "exec"
    /\ r.at \in {"idle", "resolve", "send"} => r.spent = 0
    /\ r.at \in {"idle", "resolve", "dial"} => r.got = 0
    /\ r.healthy => r.at \in {"done", "judged"}
    /\ t.probe.method = "http" /\ (r.at \in {"resolve", "dial", "read"} \/ r.healthy)
        => ~IsHttps(EffectiveTarget(t))

\* An answer that drips costs the limit of a read for each of its pieces.
Reads(n, limit) == n * limit
Dialled(limit) == IF SlowestName > limit THEN SlowestName ELSE limit
Within(t, n) ==
    LET limit == t.probe.pace.timeout
    IN  /\ t.probe.method = "icmp" => n <= limit
        /\ t.probe.method = "tcp" => n <= Dialled(limit)
        /\ t.probe.method = "exec" => n < limit + Nap
        /\ t.probe.method = "http" => n <= Dialled(limit) + Reads(Full, limit)
Budget(t, r) ==
    LET limit == t.probe.pace.timeout
    IN  /\ Within(t, r.spent)
        /\ t.probe.method = "http" /\ r.at \in {"idle", "resolve", "dial"}
            => r.spent <= Dialled(limit)
        /\ r.at = "read" => /\ r.window > 0 /\ r.window <= limit /\ r.got <= Full
                            /\ r.spent <= limit + Reads(r.got, r.window)

\* Nobody of a helper's group outlives its probe.
Tended(r, e) ==
    e.child = "runs" \/ "in group" \in e.kids => r.at \in {"watch", "kill", "close"}

\* What a verdict rests on, but for the reply to an echo.
Evidence(t, r, e) ==
    /\ r.at = "read" => e.status \in Statuses
    /\ r.healthy /\ t.probe.method = "exec" =>
        /\ e.child = "exit 0" /\ ~r.late
        /\ r.at = "judged" => r.address \in {<<>>} \cup Literals
    /\ r.healthy /\ t.probe.method = "http" /\ ~r.late => Code(e.status) < 400

Blamed(kind, t, r) ==
    r.error => \/ t.probe.exec \in {" ", "'helper"}
               \/ kind = "peer" /\ t.address = <<>>

Own(kind, t, r, e) ==
    /\ Course(t, r) /\ Budget(t, r) /\ Tended(r, e) /\ Evidence(t, r, e)
    /\ Blamed(kind, t, r)

Owned == \A w \in Workers(cfg) : Own(w[1], Tr(w), p[w], env[w])

\* The reply to the very request of the probe is among those that came.
Heard ==
    \A w \in Workers(cfg) :
        p[w].healthy /\ Method(w) = "icmp" => Echo(w) \in answered

LEMMA ReadsAdd ==
    /\ \A a, b \in Nat : Reads(a, b) \in Nat
    /\ \A a, b, c, d \in Nat : a <= c /\ b <= d => Reads(a, b) <= Reads(c, d)
    /\ \A a, b \in Nat : Reads(a, b) + b = Reads(a + 1, b)
<1>1. \A a, b \in Nat : a * b \in Nat
  OBVIOUS
<1>2. ASSUME NEW a \in Nat, NEW b \in Nat, NEW c \in Nat, NEW d \in Nat,
             a <= c, b <= d
      PROVE  a * b <= c * d
  <2>1. a * b <= a * d
    <3>1. a * (d - b) >= 0
      BY <1>2
    <3>2. QED
      BY <3>1, <1>2
  <2>2. a * d <= c * d
    <3>1. (c - a) * d >= 0
      BY <1>2
    <3>2. QED
      BY <3>1, <1>2
  <2>3. a * b \in Nat /\ a * d \in Nat /\ c * d \in Nat
    BY <1>1
  <2>4. QED
    BY <2>1, <2>2, <2>3
<1>3. \A a, b \in Nat : a * b + b = (a + 1) * b
  OBVIOUS
<1>4. QED
  BY <1>1, <1>2, <1>3 DEF Reads

LEMMA NothingYet ==
    /\ NoProbe \in ProbeState /\ NoEnv \in EnvState
    /\ \A c \in Loaded : \A w \in Workers(c) :
        Own(w[1], Transport(c, w), NoProbe, NoEnv)
<1>1. NoProbe \in ProbeState /\ NoEnv \in EnvState
  BY DEF NoProbe, NoEnv, ProbeState, EnvState
<1>2. ASSUME NEW c \in Loaded, NEW w \in Workers(c)
      PROVE  Own(w[1], Transport(c, w), NoProbe, NoEnv)
  <2> DEFINE t == Transport(c, w)
  <2>1. t.probe.pace.timeout \in Nat \ {0}
    BY <1>2, ProbesAreValid
  <2>2. Reads(Full, t.probe.pace.timeout) \in Nat
    BY <2>1, ReadsAdd, ProbesAssumption
  <2> HIDE DEF t
  <2>3. Course(t, NoProbe) /\ Tended(NoProbe, NoEnv) /\ Evidence(t, NoProbe, NoEnv)
        /\ Blamed(w[1], t, NoProbe)
    BY DEF NoProbe, NoEnv, Course, Tended, Evidence, Blamed
  <2>4. Budget(t, NoProbe)
    BY <2>1, <2>2, ProbesAssumption DEF NoProbe, Budget, Within, Dialled
  <2>5. QED
    BY <2>3, <2>4 DEF Own, t
<1>3. QED
  BY <1>1, <1>2

LEMMA StartsOwn ==
    /\ Init => Typed /\ Owned /\ Heard
    /\ \A c \in Configs : Restart(c) => (Typed /\ Owned /\ Heard)'
<1>1. ASSUME NEW c \in Loaded, NEW w \in Workers(c)
      PROVE  Own(w[1], Transport(c, w), NoProbe, NoEnv) /\ ~NoProbe.healthy
  BY <1>1, NothingYet DEF NoProbe
<1>2. ASSUME Init PROVE Typed /\ Owned /\ Heard
  <2>1. cfg \in Loaded
    BY <1>2 DEF Init, Loaded
  <2>2. QED
    BY <1>1, <1>2, <2>1, NothingYet DEF Init, Typed, Owned, Heard, Tr
<1>3. ASSUME NEW c \in Configs, Restart(c) PROVE (Typed /\ Owned /\ Heard)'
  <2>1. cfg' \in Loaded
    BY <1>3 DEF Restart, Loaded
  <2>2. QED
    BY <1>1, <1>3, <2>1, NothingYet DEF Restart, Typed, Owned, Heard, Tr
<1>4. QED
  BY <1>2, <1>3
-----------------------------------------------------------------------------
(* A step of a worker. *)

Steps(w) ==
    /\ cfg' = cfg
    /\ \E r \in ProbeState, e \in EnvState :
        /\ p' = [p EXCEPT ![w] = r] /\ env' = [env EXCEPT ![w] = e]
        /\ Own(w[1], Tr(w), r, e)
    /\ nextSeq' \in Nat

LEMMA OthersKeep ==
    ASSUME Typed, Owned, NEW w \in Workers(cfg), Steps(w)
    PROVE  /\ Typed' /\ Owned'
           /\ \A v \in Workers(cfg) \ {w} : p'[v] = p[v] /\ env'[v] = env[v]
BY DEF Typed, Owned, Steps, Tr

LEMMA WorkerFacts ==
    ASSUME Typed, Owned, NEW w \in Workers(cfg)
    PROVE  /\ p[w] \in ProbeState /\ env[w] \in EnvState
           /\ p = [p EXCEPT ![w] = p[w]] /\ env = [env EXCEPT ![w] = env[w]]
           /\ Own(w[1], Tr(w), p[w], env[w])
           /\ w[1] \in {"peer", "uplink"}
           /\ Method(w) = Tr(w).probe.method
           /\ Method(w) \in {"tcp", "icmp", "http", "exec"}
           /\ Timeout(w) = Tr(w).probe.pace.timeout
           /\ Timeout(w) \in Nat \ {0} /\ Reads(Full, Timeout(w)) \in Nat
           /\ Dialled(Timeout(w)) \in Nat /\ Dialled(Timeout(w)) >= Timeout(w)
           /\ Dialled(Timeout(w)) >= SlowestName
           /\ Method(w) = "exec" => Tr(w).probe.exec # ""
           /\ w[1] = "uplink" /\ Method(w) # "exec" => Tr(w).probe.target # <<>>
           /\ Tr(w).address \in Seq(STRING)
<1>1. /\ p[w] \in ProbeState /\ env[w] \in EnvState
      /\ p = [p EXCEPT ![w] = p[w]] /\ env = [env EXCEPT ![w] = env[w]]
      /\ Own(w[1], Tr(w), p[w], env[w])
  BY DEF Typed, Owned
<1>2. w[1] \in {"peer", "uplink"} /\ Tr(w).address \in Seq(STRING)
  BY WorkersAreLoaded DEF Typed, FilledIn, Tr
<1>3. /\ Method(w) = Tr(w).probe.method
      /\ Method(w) \in {"tcp", "icmp", "http", "exec"}
      /\ Timeout(w) = Tr(w).probe.pace.timeout
      /\ Timeout(w) \in Nat \ {0}
      /\ Method(w) = "exec" => Tr(w).probe.exec # ""
      /\ w[1] = "uplink" /\ Method(w) # "exec" => Tr(w).probe.target # <<>>
  BY ProbesAreValid DEF Typed, Tr, Method, Timeout
<1>4. Reads(Full, Timeout(w)) \in Nat
  <2>1. Timeout(w) \in Nat /\ Full \in Nat
    BY <1>3, ProbesAssumption
  <2>2. QED
    BY <2>1, ReadsAdd
<1>5. /\ Dialled(Timeout(w)) \in Nat /\ Dialled(Timeout(w)) >= Timeout(w)
      /\ Dialled(Timeout(w)) >= SlowestName
  <2> DEFINE limit == Timeout(w)
  <2>1. limit \in Nat
    BY <1>3
  <2> HIDE DEF limit
  <2>2. Dialled(limit) \in Nat /\ Dialled(limit) >= limit /\ Dialled(limit) >= SlowestName
    BY <2>1, ProbesAssumption DEF Dialled
  <2>3. QED
    BY <2>2 DEF limit
<1>6. QED
  BY <1>1, <1>2, <1>3, <1>4, <1>5

LEMMA Verdicts ==
    ASSUME NEW q \in ProbeState, NEW r \in {Healthy(q), Unhealthy(q)}
    PROVE  /\ r \in ProbeState /\ r.at = "done"
           /\ r.spent = q.spent /\ r.error = q.error /\ r.late = q.late
           /\ r.address = q.address /\ r.seq = q.seq
           /\ r = Unhealthy(q) => r.healthy = q.healthy
<1>1. CASE r = Unhealthy(q)
  BY <1>1 DEF Unhealthy, ProbeState
<1>2. CASE r = Healthy(q)
  <2>1. /\ r \in ProbeState /\ r.at = "done" /\ r.healthy
        /\ r.spent = q.spent /\ r.error = q.error /\ r.late = q.late
        /\ r.address = q.address /\ r.seq = q.seq
    BY <1>2 DEF Healthy, ProbeState
  <2>2. Unhealthy(q).healthy = q.healthy
    BY DEF Unhealthy, ProbeState
  <2>3. QED
    BY <2>1, <2>2
<1>3. QED
  BY <1>1, <1>2

\* A probe that comes to its verdict.
LEMMA VerdictSteps ==
    ASSUME Typed, Owned, NEW w \in Workers(cfg),
           NEW r \in ProbeState, NEW e \in EnvState,
           p' = [p EXCEPT ![w] = r], env' = [env EXCEPT ![w] = e], cfg' = cfg,
           nextSeq' = nextSeq,
           r.at = "done", Within(Tr(w), r.spent), Tended(r, e),
           Evidence(Tr(w), r, e), Blamed(w[1], Tr(w), r),
           r.healthy /\ Method(w) = "http" => ~IsHttps(EffectiveTarget(Tr(w)))
    PROVE  Steps(w)
<1>1. Course(Tr(w), r)
  BY WorkerFacts DEF Course
<1>2. Budget(Tr(w), r)
  BY DEF Budget
<1>3. QED
  BY <1>1, <1>2 DEF Steps, Own, Typed

\* At any moment but while it has a helper, a probe may fail.
LEMMA FailureSteps ==
    ASSUME Typed, Owned, NEW w \in Workers(cfg), NEW q \in ProbeState,
           q.healthy = p[w].healthy, q.error = p[w].error,
           p' = [p EXCEPT ![w] = Unhealthy(q)],
           env' = env, cfg' = cfg, nextSeq' = nextSeq,
           p[w].at \notin {"watch", "kill", "close", "done", "judged"},
           Within(Tr(w), q.spent)
    PROVE  Steps(w)
<1> DEFINE r == Unhealthy(q)
<1>1. /\ r \in ProbeState /\ r.at = "done" /\ r.spent = q.spent
      /\ r.healthy = p[w].healthy /\ r.error = p[w].error
  BY DEF Unhealthy, ProbeState
<1>2. ~r.healthy
  BY <1>1, WorkerFacts DEF Own, Course
<1> HIDE DEF r
<1>3. Tended(r, env[w]) /\ Evidence(Tr(w), r, env[w]) /\ Blamed(w[1], Tr(w), r)
  BY <1>1, <1>2, WorkerFacts DEF Own, Tended, Evidence, Blamed
<1>4. env' = [env EXCEPT ![w] = env[w]] /\ p' = [p EXCEPT ![w] = r]
  BY WorkerFacts DEF r
<1>5. QED
  BY <1>1, <1>2, <1>3, <1>4, WorkerFacts, VerdictSteps

LEMMA BeginSteps ==
    ASSUME Typed, Owned, NEW w \in Workers(cfg), Begin(w)
    PROVE  Steps(w)
<1> DEFINE target == EffectiveTarget(Tr(w))
<1>1. /\ cfg' = cfg /\ env' = env /\ nextSeq' = nextSeq
      /\ p[w].at = "idle" /\ Method(w) # "exec"
      /\ Within(Tr(w), p[w].spent) /\ p[w].spent = 0
      /\ ~p[w].healthy
  BY WorkerFacts DEF Begin, network, Own, Budget, Course
<1>2. CASE target = <<>>
  <2> DEFINE r == Misconfigured(p[w])
  <2>1. /\ r \in ProbeState /\ r.at = "done" /\ r.spent = p[w].spent
        /\ ~r.healthy
    BY <1>1, WorkerFacts DEF Misconfigured, ProbeState
  <2>2. Tr(w).probe.target = <<>> /\ Tr(w).address = <<>>
    BY <1>2 DEF EffectiveTarget
  <2>3. p' = [p EXCEPT ![w] = r] /\ env' = [env EXCEPT ![w] = env[w]]
    BY <1>1, <1>2, WorkerFacts DEF Begin, Goes
  <2> HIDE DEF r
  <2>4. Tended(r, env[w]) /\ Evidence(Tr(w), r, env[w]) /\ Blamed(w[1], Tr(w), r)
    BY <1>1, <2>1, <2>2, WorkerFacts DEF Own, Tended, Evidence, Blamed
  <2>5. QED
    BY <1>1, <2>1, <2>3, <2>4, WorkerFacts, VerdictSteps
<1>3. CASE target # <<>> /\ Method(w) = "http" /\ IsHttps(target)
  <2>1. p' = [p EXCEPT ![w] = Unhealthy(p[w])]
    BY <1>3 DEF Begin, Goes
  <2>2. QED
    BY <1>1, <2>1, WorkerFacts, FailureSteps
<1>4. CASE target # <<>> /\ ~(Method(w) = "http" /\ IsHttps(target))
  <2> DEFINE r == [p[w] EXCEPT !.at = "resolve"]
  <2>1. p' = [p EXCEPT ![w] = r] /\ env' = [env EXCEPT ![w] = env[w]]
    BY <1>1, <1>4, WorkerFacts DEF Begin, Goes
  <2>2. /\ r \in ProbeState /\ r.at = "resolve" /\ r.spent = p[w].spent
        /\ ~r.healthy /\ r.error = p[w].error /\ r.got = p[w].got
    BY <1>1, WorkerFacts DEF ProbeState
  <2> HIDE DEF r
  <2>3. Own(w[1], Tr(w), r, env[w])
    BY <1>1, <1>4, <2>2, WorkerFacts
    DEF Own, Course, Budget, Tended, Evidence, Blamed
  <2>4. QED
    BY <1>1, <2>1, <2>2, <2>3, WorkerFacts DEF Steps, Typed
<1>5. QED
  BY <1>2, <1>3, <1>4

LEMMA ResolveSteps ==
    ASSUME Typed, Owned, NEW w \in Workers(cfg), Resolve(w)
    PROVE  Steps(w)
<1>1. /\ cfg' = cfg /\ env' = env /\ nextSeq' = nextSeq
      /\ p[w].at = "resolve" /\ Method(w) # "exec"
      /\ Within(Tr(w), p[w].spent) /\ p[w].spent = 0 /\ ~p[w].healthy
      /\ Method(w) = "http" => ~IsHttps(EffectiveTarget(Tr(w)))
  BY WorkerFacts DEF Resolve, network, Own, Budget, Course
<1>2. PICK found \in {<<>>, Addresses(w)}, d \in 0..SlowestName :
        p' = [p EXCEPT ![w] =
                IF found = <<>> THEN Unhealthy(p[w])
                ELSE IF Method(w) = "icmp" THEN [p[w] EXCEPT !.at = "send"]
                ELSE [p[w] EXCEPT !.at = "dial", !.left = found, !.spent = d]]
  BY DEF Resolve, Goes
<1>3. CASE found = <<>>
  BY <1>1, <1>2, <1>3, WorkerFacts, FailureSteps
<1>4. CASE found # <<>> /\ Method(w) = "icmp"
  <2> DEFINE r == [p[w] EXCEPT !.at = "send"]
  <2>1. p' = [p EXCEPT ![w] = r] /\ env' = [env EXCEPT ![w] = env[w]]
    BY <1>1, <1>2, <1>4, WorkerFacts
  <2>2. /\ r \in ProbeState /\ r.at = "send" /\ r.spent = p[w].spent
        /\ ~r.healthy /\ r.error = p[w].error
    BY <1>1, WorkerFacts DEF ProbeState
  <2> HIDE DEF r
  <2>3. Own(w[1], Tr(w), r, env[w])
    BY <1>1, <1>4, <2>2, WorkerFacts
    DEF Own, Course, Budget, Tended, Evidence, Blamed
  <2>4. QED
    BY <1>1, <2>1, <2>2, <2>3, WorkerFacts DEF Steps, Typed
<1>5. CASE found # <<>> /\ Method(w) # "icmp"
  <2> DEFINE r == [p[w] EXCEPT !.at = "dial", !.left = found, !.spent = d]
  <2>1. p' = [p EXCEPT ![w] = r] /\ env' = [env EXCEPT ![w] = env[w]]
    BY <1>1, <1>2, <1>5, WorkerFacts
  <2>2. found \in Seq({"v4", "v6"}) /\ d \in Nat
    BY <1>5, WorldAssumption, ProbesAssumption DEF Addresses
  <2>3. /\ r \in ProbeState /\ r.at = "dial" /\ r.spent = d
        /\ ~r.healthy /\ r.error = p[w].error /\ r.got = p[w].got
    BY <1>1, <2>2, WorkerFacts DEF ProbeState
  <2> HIDE DEF r
  <2>4. Course(Tr(w), r) /\ Tended(r, env[w]) /\ Evidence(Tr(w), r, env[w])
        /\ Blamed(w[1], Tr(w), r)
    BY <1>1, <1>5, <2>3, WorkerFacts DEF Own, Course, Tended, Evidence, Blamed
  <2>5. Budget(Tr(w), r)
    <3>1. d <= Dialled(Timeout(w)) + Reads(Full, Timeout(w)) /\ d <= Dialled(Timeout(w))
      <4> DEFINE D == Dialled(Timeout(w))
                 R == Reads(Full, Timeout(w))
      <4>1. D \in Nat /\ R \in Nat /\ D >= SlowestName
        BY WorkerFacts
      <4> HIDE DEF D, R
      <4>2. d <= D + R /\ d <= D
        BY <2>2, <4>1, ProbesAssumption
      <4>3. QED
        BY <4>2 DEF D, R
    <3>2. QED
      BY <1>1, <1>5, <2>3, <3>1, WorkerFacts DEF Budget, Within
  <2>6. QED
    BY <1>1, <2>1, <2>3, <2>4, <2>5, WorkerFacts DEF Steps, Typed, Own
<1>6. QED
  BY <1>3, <1>4, <1>5

\* Time that is spent while some remains.
LEMMA InTime ==
    ASSUME Typed, Owned, NEW w \in Workers(cfg), Remaining(w) > 0,
           NEW d \in 0..Remaining(w)
    PROVE  /\ d \in Nat /\ p[w].spent + d \in Nat /\ p[w].spent + d <= Timeout(w)
           /\ Within(Tr(w), p[w].spent + d)
<1> DEFINE limit == Timeout(w)
           most == Dialled(limit)
           drips == Reads(Full, limit)
<1>1. /\ limit \in Nat \ {0} /\ most \in Nat /\ drips \in Nat /\ limit <= most
      /\ p[w].spent \in Nat
  BY WorkerFacts DEF ProbeState
<1>2. Remaining(w) = limit - p[w].spent
  BY DEF Remaining
<1> HIDE DEF limit, most, drips
<1>3. /\ d \in Nat /\ p[w].spent + d \in Nat /\ p[w].spent + d <= limit
      /\ p[w].spent + d <= most /\ p[w].spent + d <= most + drips
      /\ p[w].spent + d < limit + Nap
  BY <1>1, <1>2, ProbesAssumption
<1>4. QED
  BY <1>3, WorkerFacts DEF limit, most, drips, Within

LEMMA DialSteps ==
    ASSUME Typed, Owned, NEW w \in Workers(cfg), DialEnds(w) \/ DialFails(w)
    PROVE  Steps(w)
<1>1. /\ cfg' = cfg /\ env' = env /\ nextSeq' = nextSeq
      /\ p[w].at = "dial" /\ Method(w) \in {"tcp", "http"}
      /\ Within(Tr(w), p[w].spent) /\ ~p[w].healthy
  BY WorkerFacts DEF DialEnds, DialFails, network, Own, Budget, Course
<1>2. CASE DialEnds(w)
  <2>1. p' = [p EXCEPT ![w] = Unhealthy(p[w])]
    BY <1>2 DEF DialEnds, Goes
  <2>2. QED
    BY <1>1, <2>1, WorkerFacts, FailureSteps
<1>3. CASE DialFails(w)
  <2>1. PICK d \in 0..Remaining(w) :
          p' = [p EXCEPT ![w] = [p[w] EXCEPT !.left = Tail(@), !.spent = @ + d]]
    BY <1>3 DEF DialFails, Goes
  <2>2. /\ p[w].spent + d \in Nat /\ p[w].spent + d <= Timeout(w)
        /\ Within(Tr(w), p[w].spent + d)
    BY <1>3, InTime DEF DialFails
  <2> DEFINE r == [p[w] EXCEPT !.left = Tail(@), !.spent = @ + d]
  <2>3. Tail(p[w].left) \in Seq({"v4", "v6"})
    <3>1. p[w].left \in Seq({"v4", "v6"}) /\ p[w].left # <<>>
      BY <1>3, WorkerFacts DEF DialFails, ProbeState
    <3>2. QED
      BY <3>1
  <2>4. /\ r \in ProbeState /\ r.at = "dial" /\ r.spent = p[w].spent + d
        /\ ~r.healthy /\ r.error = p[w].error /\ r.got = p[w].got
    BY <1>1, <2>2, <2>3, WorkerFacts DEF ProbeState
  <2>5. p' = [p EXCEPT ![w] = r] /\ env' = [env EXCEPT ![w] = env[w]]
    BY <1>1, <2>1, WorkerFacts
  <2> HIDE DEF r
  <2>6. Course(Tr(w), r) /\ Tended(r, env[w]) /\ Evidence(Tr(w), r, env[w])
        /\ Blamed(w[1], Tr(w), r)
    BY <1>1, <2>4, WorkerFacts DEF Own, Course, Tended, Evidence, Blamed
  <2>7. r.spent <= Dialled(Timeout(w))
    <3> DEFINE D == Dialled(Timeout(w))
               limit == Timeout(w)
    <3>1. D \in Nat /\ limit \in Nat /\ limit <= D /\ r.spent <= limit
      BY <2>2, <2>4, WorkerFacts
    <3>2. r.spent \in Nat
      BY <2>4 DEF ProbeState
    <3> HIDE DEF D, limit
    <3>3. r.spent <= D
      BY <3>1, <3>2
    <3>4. QED
      BY <3>3 DEF D
  <2>8. Budget(Tr(w), r)
    BY <2>2, <2>4, <2>7, WorkerFacts DEF Budget
  <2>9. QED
    BY <1>1, <2>4, <2>5, <2>6, <2>8, WorkerFacts DEF Steps, Typed, Own
<1>4. QED
  BY <1>2, <1>3

LEMMA ConnectSteps ==
    ASSUME Typed, Owned, NEW w \in Workers(cfg), Connect(w)
    PROVE  Steps(w)
<1>1. /\ cfg' = cfg /\ nextSeq' = nextSeq /\ Remaining(w) > 0
      /\ p[w].at = "dial" /\ Method(w) \in {"tcp", "http"} /\ ~p[w].healthy
      /\ p[w].got = 0
      /\ Method(w) = "http" => ~IsHttps(EffectiveTarget(Tr(w)))
  BY WorkerFacts DEF Connect, network, Own, Course
<1>2. PICK d \in 0..Remaining(w), status \in Statuses, whole \in BOOLEAN :
        LET q == [p[w] EXCEPT !.spent = @ + d]
            http == Method(w) = "http" /\ d < Remaining(w)
        IN  /\ p' = [p EXCEPT ![w] =
                        IF Method(w) = "tcp" THEN Healthy(q)
                        ELSE IF http THEN [q EXCEPT !.at = "read",
                                                    !.window = Remaining(w) - d]
                        ELSE Unhealthy(q)]
            /\ env' = IF http THEN [env EXCEPT ![w].status = status,
                                               ![w].whole = whole] ELSE env
  BY DEF Connect, Goes
<1> DEFINE q == [p[w] EXCEPT !.spent = @ + d]
<1>3. /\ d \in Nat /\ p[w].spent + d \in Nat /\ p[w].spent + d <= Timeout(w)
      /\ Within(Tr(w), p[w].spent + d)
  BY <1>1, InTime
<1>4. /\ q \in ProbeState /\ q.spent = p[w].spent + d /\ q.at = "dial"
      /\ q.healthy = p[w].healthy /\ q.error = p[w].error /\ q.got = 0
  BY <1>1, <1>3, WorkerFacts DEF ProbeState
<1>5. CASE Method(w) = "tcp"
  <2> DEFINE r == Healthy(q)
  <2>1. p' = [p EXCEPT ![w] = r] /\ env' = [env EXCEPT ![w] = env[w]]
    BY <1>2, <1>5, WorkerFacts
  <2>2. /\ r \in ProbeState /\ r.at = "done" /\ r.spent = q.spent
        /\ r.error = p[w].error
    BY <1>4 DEF Healthy, ProbeState
  <2> HIDE DEF r, q
  <2>3. Tended(r, env[w]) /\ Evidence(Tr(w), r, env[w]) /\ Blamed(w[1], Tr(w), r)
    BY <1>1, <1>5, <2>2, WorkerFacts DEF Own, Tended, Evidence, Blamed
  <2>4. QED
    BY <1>1, <1>3, <1>4, <1>5, <2>1, <2>2, <2>3, WorkerFacts, VerdictSteps
<1>6. CASE Method(w) = "http" /\ d < Remaining(w)
  <2> DEFINE r == [q EXCEPT !.at = "read", !.window = Remaining(w) - d]
             e == [env[w] EXCEPT !.status = status, !.whole = whole]
  <2>1. p' = [p EXCEPT ![w] = r] /\ env' = [env EXCEPT ![w] = e]
    <3>1. p' = [p EXCEPT ![w] = r]
      BY <1>2, <1>6
    <3>2. env' = [env EXCEPT ![w].status = status, ![w].whole = whole]
      BY <1>2, <1>6
    <3>3. [env EXCEPT ![w].status = status, ![w].whole = whole]
            = [env EXCEPT ![w] = e]
      BY DEF Typed, EnvState
    <3>4. QED
      BY <3>1, <3>2, <3>3
  <2>2. /\ e \in EnvState /\ e.status = status /\ e.child = env[w].child
        /\ e.kids = env[w].kids
    BY WorkerFacts, WorldAssumption DEF EnvState
  <2>3. /\ Remaining(w) - d \in Nat /\ Remaining(w) - d > 0
        /\ Remaining(w) - d <= Timeout(w)
    <3> DEFINE limit == Timeout(w)
    <3>1. limit \in Nat /\ p[w].spent \in Nat /\ Remaining(w) = limit - p[w].spent
      BY WorkerFacts DEF ProbeState, Remaining
    <3> HIDE DEF limit
    <3>2. QED
      BY <1>3, <1>6, <3>1 DEF limit
  <2>4. /\ r \in ProbeState /\ r.at = "read" /\ r.spent = q.spent
        /\ ~r.healthy /\ r.error = p[w].error /\ r.got = 0
        /\ r.window = Remaining(w) - d
    BY <1>1, <1>4, <2>3 DEF ProbeState
  <2> HIDE DEF r, q, e
  <2>5. Course(Tr(w), r) /\ Tended(r, e) /\ Evidence(Tr(w), r, e)
        /\ Blamed(w[1], Tr(w), r)
    BY <1>1, <1>6, <2>2, <2>4, WorkerFacts DEF Own, Course, Tended, Evidence, Blamed
  <2>6. Budget(Tr(w), r)
    <3>1. Reads(0, r.window) = 0
      BY <2>3, <2>4 DEF Reads
    <3> DEFINE limit == Timeout(w)
    <3>2. limit \in Nat /\ r.spent \in Nat /\ r.spent <= limit
      BY <1>3, <1>4, <2>4, WorkerFacts
    <3>3. r.spent <= limit + Reads(r.got, r.window)
      BY <2>4, <3>1, <3>2
    <3>4. Within(Tr(w), r.spent) /\ 0 <= Full /\ limit = Tr(w).probe.pace.timeout
      <4>1. r.spent = p[w].spent + d
        BY <1>4, <2>4
      <4>2. Within(Tr(w), r.spent)
        BY <1>3, <4>1, Zenon
      <4>3. limit = Tr(w).probe.pace.timeout
        BY DEF Timeout
      <4>4. 0 <= Full
        BY ProbesAssumption
      <4>5. QED
        BY <4>2, <4>3, <4>4
    <3> HIDE DEF limit
    <3>5. r.window > 0 /\ r.window <= limit
      BY <2>3, <2>4 DEF limit
    <3>6. QED
      BY <2>4, <3>3, <3>4, <3>5 DEF Budget
  <2>7. QED
    BY <1>1, <2>1, <2>2, <2>4, <2>5, <2>6, WorkerFacts DEF Steps, Typed, Own
<1>7. CASE Method(w) = "http" /\ ~(d < Remaining(w))
  <2>1. p' = [p EXCEPT ![w] = Unhealthy(q)] /\ env' = env
    BY <1>2, <1>7
  <2> HIDE DEF q
  <2>2. QED
    BY <1>1, <1>3, <1>4, <2>1, WorkerFacts, FailureSteps
<1>8. QED
  BY <1>1, <1>5, <1>6, <1>7

\* A read takes its time and at least a piece.
LEMMA ReadTime ==
    ASSUME Typed, Owned, NEW w \in Workers(cfg), ReadsOn(w),
           NEW d \in 0..p[w].window
    PROVE  /\ p[w].got \in Nat /\ p[w].got + 1 <= Shorter(Pieces(w), Full)
           /\ Shorter(Pieces(w), Full) = Pieces(w) /\ Pieces(w) \in Nat
           /\ d \in Nat /\ p[w].spent + d \in Nat
           /\ p[w].spent + d <= Timeout(w) + Reads(p[w].got + 1, p[w].window)
           /\ Within(Tr(w), p[w].spent + d)
<1>1. /\ p[w].at = "read" /\ p[w].got \in Nat /\ p[w].window \in Nat
      /\ p[w].spent \in Nat /\ env[w].status \in Statuses
      /\ p[w].window <= Timeout(w)
      /\ p[w].spent <= Timeout(w) + Reads(p[w].got, p[w].window)
      /\ Method(w) = "http"
  BY WorkerFacts DEF ReadsOn, ProbeState, Own, Course, Budget, Evidence
<1>2. Pieces(w) \in Nat /\ Pieces(w) <= Full
  <2>1. env[w].status \in Seq(Nat) /\ Len(env[w].status) + 2 <= Full
    BY <1>1, WorldAssumption
  <2>2. QED
    BY <2>1, ProbesAssumption DEF Pieces
<1>3. Shorter(Pieces(w), Full) = Pieces(w)
  BY <1>2, ProbesAssumption DEF Shorter
<1>4. p[w].got + 1 <= Pieces(w)
  BY <1>1, <1>2, <1>3 DEF ReadsOn
<1> DEFINE limit == Timeout(w)
           window == p[w].window
           got == p[w].got
           spent == p[w].spent
           D == Dialled(limit)
<1>5. /\ limit \in Nat /\ D \in Nat /\ limit <= D
      /\ window \in Nat /\ window <= limit /\ got \in Nat /\ got + 1 <= Full
      /\ spent \in Nat /\ spent <= limit + Reads(got, window)
      /\ Full \in Nat
  <2>1. limit \in Nat /\ D \in Nat /\ limit <= D
    BY WorkerFacts
  <2>2. got + 1 <= Full /\ Full \in Nat
    BY <1>1, <1>2, <1>4, ProbesAssumption
  <2>3. QED
    BY <1>1, <2>1, <2>2
<1> HIDE DEF limit, window, got, spent, D
<1>6. /\ Reads(got, window) \in Nat
      /\ Reads(got, window) + window = Reads(got + 1, window)
      /\ Reads(got + 1, window) \in Nat /\ Reads(Full, limit) \in Nat
      /\ Reads(got + 1, window) <= Reads(Full, limit)
  <2>1. got + 1 \in Nat
    BY <1>5
  <2>2. QED
    BY <1>5, <2>1, ReadsAdd
<1>7. d \in Nat /\ d <= window
  BY <1>5 DEF window
<1> DEFINE A == Reads(got, window)
           B == Reads(got + 1, window)
           C == Reads(Full, limit)
<1>8. /\ A \in Nat /\ B \in Nat /\ C \in Nat /\ A + window = B /\ B <= C
      /\ spent <= limit + A
  BY <1>5, <1>6
<1> HIDE DEF A, B, C
<1>9. spent + d \in Nat /\ spent + d <= limit + B /\ spent + d <= D + C
  BY <1>5, <1>7, <1>8
<1>10. Within(Tr(w), spent + d)
  <2>1. limit = Tr(w).probe.pace.timeout /\ Tr(w).probe.method = "http"
    BY <1>1 DEF Timeout, Method, limit
  <2>2. spent + d <= Dialled(limit) + Reads(Full, limit)
    BY <1>9 DEF C, D
  <2>3. QED
    BY <2>1, <2>2 DEF Within
<1>11. QED
  BY <1>2, <1>3, <1>4, <1>5, <1>7, <1>9, <1>10 DEF B, limit, window, got, spent

LEMMA ReadSteps ==
    ASSUME Typed, Owned, NEW w \in Workers(cfg), Read(w) \/ ReadFails(w)
    PROVE  Steps(w)
<1>1. /\ cfg' = cfg /\ env' = env /\ nextSeq' = nextSeq /\ ReadsOn(w)
      /\ p[w].at = "read" /\ Method(w) = "http" /\ ~p[w].healthy
      /\ ~IsHttps(EffectiveTarget(Tr(w)))
      /\ p[w].window \in Nat /\ p[w].window > 0 /\ p[w].window <= Timeout(w)
      /\ p[w].got \in Nat
  BY WorkerFacts DEF Read, ReadFails, ReadsOn, network, Own, Course, Budget, ProbeState
<1>2. CASE ReadFails(w)
  <2>1. PICK d \in 0..p[w].window :
          p' = [p EXCEPT ![w] = Unhealthy([p[w] EXCEPT !.spent = @ + d])]
    BY <1>2 DEF ReadFails, Goes
  <2> DEFINE q == [p[w] EXCEPT !.spent = @ + d]
  <2>2. p[w].spent + d \in Nat /\ Within(Tr(w), p[w].spent + d)
    BY <1>1, ReadTime
  <2>3. /\ q \in ProbeState /\ q.healthy = p[w].healthy /\ q.error = p[w].error
        /\ q.spent = p[w].spent + d
    BY <2>2, WorkerFacts DEF ProbeState
  <2>4. p' = [p EXCEPT ![w] = Unhealthy(q)]
    BY <2>1
  <2> HIDE DEF q
  <2>5. Within(Tr(w), q.spent)
    BY <2>2, <2>3, Zenon
  <2>6. QED
    BY <1>1, <2>3, <2>4, <2>5, FailureSteps
<1>3. CASE Read(w)
  <2>1. PICK d \in 0..p[w].window, n \in 1..(Pieces(w) - p[w].got) :
          p' = [p EXCEPT ![w] = [p[w] EXCEPT !.got = @ + n, !.spent = @ + d]]
    BY <1>3 DEF Read, Goes
  <2> DEFINE r == [p[w] EXCEPT !.got = @ + n, !.spent = @ + d]
  <2>2. /\ p[w].spent + d \in Nat /\ Within(Tr(w), p[w].spent + d)
        /\ p[w].spent + d <= Timeout(w) + Reads(p[w].got + 1, p[w].window)
        /\ Pieces(w) \in Nat /\ Shorter(Pieces(w), Full) = Pieces(w)
    BY <1>1, ReadTime
  <2>3. /\ p[w].got + n \in Nat /\ p[w].got + 1 <= p[w].got + n
        /\ p[w].got + n <= Full
    <3>1. Pieces(w) <= Full
      BY <2>2, ProbesAssumption DEF Shorter
    <3>2. n \in Nat /\ n >= 1 /\ n <= Pieces(w) - p[w].got
      BY <1>1, <2>2
    <3>3. QED
      BY <1>1, <2>2, <3>1, <3>2, ProbesAssumption
  <2>4. /\ r \in ProbeState /\ r.at = "read" /\ r.spent = p[w].spent + d
        /\ ~r.healthy /\ r.error = p[w].error /\ r.got = p[w].got + n
        /\ r.window = p[w].window
    BY <1>1, <2>2, <2>3, WorkerFacts DEF ProbeState
  <2>5. p' = [p EXCEPT ![w] = r] /\ env' = [env EXCEPT ![w] = env[w]]
    BY <1>1, <2>1, WorkerFacts
  <2> HIDE DEF r
  <2>6. Course(Tr(w), r) /\ Tended(r, env[w]) /\ Evidence(Tr(w), r, env[w])
        /\ Blamed(w[1], Tr(w), r)
    BY <1>1, <2>4, WorkerFacts DEF Own, Course, Tended, Evidence, Blamed
  <2>7. Reads(p[w].got + 1, p[w].window) <= Reads(r.got, r.window)
    <3> DEFINE a == p[w].got + 1
               c == r.got
               b == p[w].window
    <3>1. a \in Nat /\ c \in Nat /\ b \in Nat /\ a <= c /\ b <= b
      BY <1>1, <2>3, <2>4
    <3> HIDE DEF a, b, c
    <3>2. Reads(a, b) <= Reads(c, b)
      BY <3>1, ReadsAdd
    <3>3. r.window = b
      BY <2>4 DEF b
    <3>4. QED
      BY <3>2, <3>3 DEF a, b, c
  <2>8. r.spent <= Timeout(w) + Reads(r.got, r.window)
    <3> DEFINE limit == Timeout(w)
               A == Reads(p[w].got + 1, p[w].window)
               B == Reads(r.got, r.window)
    <3>1. limit \in Nat /\ A \in Nat /\ B \in Nat /\ A <= B /\ r.spent <= limit + A
          /\ r.spent \in Nat
      <4>1. p[w].got + 1 \in Nat /\ r.got \in Nat /\ r.window \in Nat
        BY <1>1, <2>3, <2>4
      <4>2. A \in Nat /\ B \in Nat
        BY <1>1, <4>1, ReadsAdd
      <4>3. QED
        BY <2>2, <2>4, <2>7, <4>2, WorkerFacts
    <3> HIDE DEF limit, A, B
    <3>2. r.spent <= limit + B
      BY <3>1
    <3>3. QED
      BY <3>2 DEF limit, B
  <2>9. Budget(Tr(w), r)
    <3>1. Timeout(w) = Tr(w).probe.pace.timeout
      BY DEF Timeout
    <3>2. Within(Tr(w), r.spent)
      BY <2>2, <2>4, Zenon
    <3>3. QED
      BY <1>1, <2>3, <2>4, <2>8, <3>1, <3>2 DEF Budget
  <2>10. QED
    BY <1>1, <2>4, <2>5, <2>6, <2>9, WorkerFacts DEF Steps, Typed, Own
<1>4. QED
  BY <1>2, <1>3

\* A line that is read to its end is read as it is.
LEMMA HeardOut ==
    ASSUME NEW w, env[w].status \in Statuses, p[w].got \in Nat,
           ~(p[w].got < Pieces(w))
    PROVE  Digits(w, p[w].got) = env[w].status
<1> DEFINE s == env[w].status
           n == p[w].got
<1>1. s \in Seq(Nat) /\ Len(s) \in Nat /\ Len(s) + 2 <= Full
  BY WorldAssumption
<1>2. n >= Len(s) + 2
  BY <1>1, ProbesAssumption DEF Pieces
<1>3. Shorter(n - 1, Len(s)) = Len(s)
  BY <1>1, <1>2 DEF Shorter
<1>4. SubSeq(s, 1, Len(s)) = s
  BY <1>1
<1>5. QED
  BY <1>3, <1>4 DEF Digits

LEMMA ParseSteps ==
    ASSUME Typed, Owned, NEW w \in Workers(cfg), Parse(w)
    PROVE  Steps(w)
<1> DEFINE digits == Digits(w, p[w].got)
           q == [p[w] EXCEPT !.late = p[w].got < Pieces(w)]
           r == IF digits # <<>> /\ Code(digits) < 400 THEN Healthy(q)
                ELSE Unhealthy(q)
<1>1. /\ cfg' = cfg /\ nextSeq' = nextSeq
      /\ p' = [p EXCEPT ![w] = r] /\ env' = [env EXCEPT ![w] = env[w]]
      /\ p[w].at = "read" /\ ~p[w].healthy /\ Method(w) = "http"
      /\ ~IsHttps(EffectiveTarget(Tr(w)))
      /\ Within(Tr(w), p[w].spent) /\ env[w].status \in Statuses
      /\ p[w].got \in Nat
  BY WorkerFacts DEF Parse, Goes, network, Own, Course, Budget, Evidence, ProbeState
<1>2. (p[w].got < Pieces(w)) \in BOOLEAN
  OBVIOUS
<1>3. /\ q \in ProbeState /\ q.spent = p[w].spent /\ q.error = p[w].error
      /\ q.late = (p[w].got < Pieces(w)) /\ q.healthy = p[w].healthy
  BY <1>2, WorkerFacts DEF ProbeState
<1> HIDE DEF q
<1>4. /\ r \in ProbeState /\ r.at = "done" /\ r.spent = p[w].spent
      /\ r.error = p[w].error /\ r.late = q.late
      /\ r.healthy => Code(digits) < 400
  <2> HIDE DEF digits
  <2>1. r \in {Healthy(q), Unhealthy(q)}
    OBVIOUS
  <2>2. r = Unhealthy(q) \/ Code(digits) < 400
    OBVIOUS
  <2> HIDE DEF r
  <2>3. QED
    BY <1>1, <1>3, <2>1, <2>2, Verdicts
<1>5. r.healthy /\ ~r.late => Code(env[w].status) < 400
  <2>1. ~r.late => digits = env[w].status
    BY <1>1, <1>3, <1>4, HeardOut
  <2>2. QED
    BY <1>4, <2>1
<1> HIDE DEF r
<1>6. Tended(r, env[w]) /\ Evidence(Tr(w), r, env[w]) /\ Blamed(w[1], Tr(w), r)
  BY <1>1, <1>4, <1>5, WorkerFacts DEF Own, Tended, Evidence, Blamed
<1>7. Within(Tr(w), r.spent)
  BY <1>1, <1>4, Zenon
<1>8. QED
  BY <1>1, <1>4, <1>6, <1>7, WorkerFacts, VerdictSteps

LEMMA SendSteps ==
    ASSUME Typed, Owned, NEW w \in Workers(cfg), Send(w)
    PROVE  Steps(w)
<1>1. /\ cfg' = cfg /\ env' = env /\ p[w].at = "send" /\ Method(w) = "icmp"
      /\ ~p[w].healthy /\ Within(Tr(w), p[w].spent) /\ nextSeq \in Nat
  BY WorkerFacts DEF Send, Own, Course, Budget, Typed
<1>2. CASE p' = [p EXCEPT ![w] = Unhealthy(p[w])] /\ nextSeq' = nextSeq
  BY <1>1, <1>2, WorkerFacts, FailureSteps
<1>3. CASE /\ p' = [p EXCEPT ![w] = [p[w] EXCEPT !.at = "listen", !.seq = nextSeq]]
           /\ nextSeq' = (nextSeq + 1) % SeqSpan
  <2> DEFINE r == [p[w] EXCEPT !.at = "listen", !.seq = nextSeq]
  <2>1. /\ r \in ProbeState /\ r.at = "listen" /\ r.spent = p[w].spent
        /\ ~r.healthy /\ r.error = p[w].error
    <3>1. p[w] \in ProbeState
      BY WorkerFacts
    <3>2. nextSeq \in Int
      BY <1>1
    <3>3. QED
      BY <1>1, <3>1, <3>2 DEF ProbeState
  <2>2. nextSeq' \in Nat
    BY <1>1, <1>3, ProbesAssumption
  <2>3. p' = [p EXCEPT ![w] = r] /\ env' = [env EXCEPT ![w] = env[w]]
    BY <1>1, <1>3, WorkerFacts
  <2> HIDE DEF r
  <2>4. Own(w[1], Tr(w), r, env[w])
    BY <1>1, <2>1, WorkerFacts DEF Own, Course, Budget, Tended, Evidence, Blamed
  <2>5. QED
    BY <1>1, <2>1, <2>2, <2>3, <2>4, WorkerFacts DEF Steps
<1>4. QED
  BY <1>2, <1>3 DEF Send, Goes, network

LEMMA HearSteps ==
    ASSUME Typed, Owned, NEW w \in Workers(cfg), Hear(w) \/ HearsNothing(w)
    PROVE  Steps(w)
<1>1. /\ cfg' = cfg /\ env' = env /\ nextSeq' = nextSeq
      /\ p[w].at = "listen" /\ Method(w) = "icmp"
      /\ ~p[w].healthy /\ Within(Tr(w), p[w].spent)
  BY WorkerFacts DEF Hear, HearsNothing, network, Own, Course, Budget
<1>2. CASE HearsNothing(w)
  <2>1. p' = [p EXCEPT ![w] = Unhealthy(p[w])]
    BY <1>2 DEF HearsNothing, Goes
  <2>2. QED
    BY <1>1, <2>1, WorkerFacts, FailureSteps
<1>3. CASE Hear(w)
  <2>1. PICK d \in 0..Remaining(w) :
          LET q == [p[w] EXCEPT !.spent = @ + d]
          IN  p' \in {[p EXCEPT ![w] = Healthy(q)], [p EXCEPT ![w] = q],
                      [p EXCEPT ![w] = Unhealthy(q)]}
    BY <1>3 DEF Hear, Goes
  <2> DEFINE q == [p[w] EXCEPT !.spent = @ + d]
  <2>2. p[w].spent + d \in Nat /\ Within(Tr(w), p[w].spent + d)
    BY <1>3, InTime DEF Hear
  <2>3. /\ q \in ProbeState /\ q.healthy = p[w].healthy /\ q.error = p[w].error
        /\ q.spent = p[w].spent + d /\ q.at = "listen"
    BY <1>1, <2>2, WorkerFacts DEF ProbeState
  <2>4. \/ p' = [p EXCEPT ![w] = Healthy(q)] \/ p' = [p EXCEPT ![w] = q]
        \/ p' = [p EXCEPT ![w] = Unhealthy(q)]
    BY <2>1
  <2> HIDE DEF q
  <2>5. Within(Tr(w), q.spent)
    BY <2>2, <2>3, Zenon
  <2>6. env' = [env EXCEPT ![w] = env[w]]
    BY <1>1, WorkerFacts
  <2>7. CASE p' = [p EXCEPT ![w] = Unhealthy(q)]
    BY <1>1, <2>3, <2>5, <2>7, FailureSteps
  <2>8. CASE p' = [p EXCEPT ![w] = q]
    <3>1. Own(w[1], Tr(w), q, env[w])
      BY <1>1, <2>3, <2>5, WorkerFacts
      DEF Own, Course, Budget, Tended, Evidence, Blamed
    <3>2. QED
      BY <1>1, <2>3, <2>6, <2>8, <3>1, WorkerFacts DEF Steps, Typed
  <2>9. CASE p' = [p EXCEPT ![w] = Healthy(q)]
    <3> DEFINE r == Healthy(q)
    <3>1. /\ r \in ProbeState /\ r.at = "done" /\ r.spent = q.spent
          /\ r.error = p[w].error
      BY <2>3 DEF Healthy, ProbeState
    <3>2. p' = [p EXCEPT ![w] = r]
      BY <2>9
    <3> HIDE DEF r
    <3>3. Tended(r, env[w]) /\ Evidence(Tr(w), r, env[w]) /\ Blamed(w[1], Tr(w), r)
      BY <1>1, <3>1, WorkerFacts DEF Own, Tended, Evidence, Blamed
    <3>4. QED
      BY <1>1, <2>5, <2>6, <3>1, <3>2, <3>3, WorkerFacts, VerdictSteps
  <2>10. QED
    BY <2>4, <2>7, <2>8, <2>9
<1>4. QED
  BY <1>2, <1>3

LEMMA SpawnSteps ==
    ASSUME Typed, Owned, NEW w \in Workers(cfg), Spawn(w)
    PROVE  Steps(w)
<1>1. /\ cfg' = cfg /\ nextSeq' = nextSeq
      /\ p[w].at = "idle" /\ Method(w) = "exec" /\ ~p[w].healthy
      /\ Within(Tr(w), p[w].spent) /\ p[w].spent = 0
  BY WorkerFacts DEF Spawn, network, Own, Budget, Course
<1>2. CASE /\ Tr(w).probe.exec \in NoCommand
           /\ p' = [p EXCEPT ![w] = Misconfigured(p[w])] /\ env' = env
  <2> DEFINE r == Misconfigured(p[w])
  <2>1. /\ r \in ProbeState /\ r.at = "done" /\ r.spent = p[w].spent
        /\ ~r.healthy
    BY <1>1, WorkerFacts DEF Misconfigured, ProbeState
  <2>2. p' = [p EXCEPT ![w] = r] /\ env' = [env EXCEPT ![w] = env[w]]
    BY <1>2, WorkerFacts
  <2> HIDE DEF r
  <2>3. Tr(w).probe.exec \in {" ", "'helper"}
    BY <1>1, <1>2, WorkerFacts DEF NoCommand
  <2>4. Tended(r, env[w]) /\ Evidence(Tr(w), r, env[w]) /\ Blamed(w[1], Tr(w), r)
    BY <1>1, <2>1, <2>3, WorkerFacts DEF Own, Tended, Evidence, Blamed
  <2>5. QED
    BY <1>1, <2>1, <2>2, <2>4, WorkerFacts, VerdictSteps
<1>3. CASE p' = [p EXCEPT ![w] = Unhealthy(p[w])] /\ env' = env
  BY <1>1, <1>3, WorkerFacts, FailureSteps
<1>4. ASSUME NEW says \in {<<>>} \cup Said,
             p' = [p EXCEPT ![w] = [p[w] EXCEPT !.at = "watch"]],
             env' = [env EXCEPT ![w].child = "runs", ![w].says = says]
      PROVE  Steps(w)
  <2> DEFINE r == [p[w] EXCEPT !.at = "watch"]
             e == [env[w] EXCEPT !.child = "runs", !.says = says]
  <2>1. env' = [env EXCEPT ![w] = e]
    BY <1>4 DEF Typed, EnvState
  <2>2. e \in EnvState
    <3>1. says \in Seq(STRING)
      <4>1. CASE says = <<>>
        BY <4>1
      <4>2. CASE says \in Said
        BY <4>2, WorldAssumption, Zenon
      <4>3. QED
        BY <4>1, <4>2
    <3>2. env[w] \in EnvState
      BY WorkerFacts
    <3>3. QED
      BY <3>1, <3>2 DEF EnvState
  <2>3. /\ r \in ProbeState /\ r.at = "watch" /\ r.spent = p[w].spent
        /\ ~r.healthy /\ r.error = p[w].error
    BY <1>1, WorkerFacts DEF ProbeState
  <2>4. p' = [p EXCEPT ![w] = r]
    BY <1>4
  <2> HIDE DEF r, e
  <2>5. Own(w[1], Tr(w), r, e)
    BY <1>1, <2>3, WorkerFacts DEF Own, Course, Budget, Tended, Evidence, Blamed
  <2>6. QED
    BY <1>1, <2>1, <2>2, <2>3, <2>4, <2>5 DEF Steps, Typed
<1>5. QED
  BY <1>2, <1>3, <1>4 DEF Spawn, Goes

\* What a helper does while its probe looks after it.
LEMMA HelperSteps ==
    ASSUME Typed, Owned, NEW w \in Workers(cfg), Fork(w) \/ Exits(w)
    PROVE  Steps(w)
<1>1. /\ cfg' = cfg /\ p' = [p EXCEPT ![w] = p[w]] /\ nextSeq' = nextSeq
      /\ env[w].child = "runs" /\ p[w].at \in {"watch", "kill", "close"}
      /\ ~p[w].healthy
  BY WorkerFacts DEF Fork, Exits, network, Own, Tended, Course
<1>2. ASSUME NEW e \in EnvState, env' = [env EXCEPT ![w] = e]
      PROVE  Steps(w)
  <2>1. Own(w[1], Tr(w), p[w], e)
    BY <1>1, WorkerFacts DEF Own, Course, Tended, Evidence
  <2>2. QED
    BY <1>1, <1>2, <2>1, WorkerFacts DEF Steps, Typed
<1>3. CASE Fork(w)
  <2>1. PICK kid \in {"in group", "in session"} :
          env' = [env EXCEPT ![w].kids = @ \cup {kid}]
    BY <1>3 DEF Fork
  <2> DEFINE e == [env[w] EXCEPT !.kids = @ \cup {kid}]
  <2>2. e \in EnvState
    BY WorkerFacts DEF EnvState
  <2>3. env' = [env EXCEPT ![w] = e]
    BY <2>1 DEF Typed, EnvState
  <2> HIDE DEF e
  <2>4. QED
    BY <1>2, <2>2, <2>3
<1>4. CASE Exits(w)
  <2>1. PICK how \in {"exit 0", "failed"} : env' = [env EXCEPT ![w].child = how]
    BY <1>4 DEF Exits
  <2> DEFINE e == [env[w] EXCEPT !.child = how]
  <2>2. e \in EnvState
    BY WorkerFacts DEF EnvState
  <2>3. env' = [env EXCEPT ![w] = e]
    BY <2>1 DEF Typed, EnvState
  <2> HIDE DEF e
  <2>4. QED
    BY <1>2, <2>2, <2>3
<1>5. QED
  BY <1>3, <1>4

LEMMA WatchSteps ==
    ASSUME Typed, Owned, NEW w \in Workers(cfg), Watch(w)
    PROVE  Steps(w)
<1>1. /\ cfg' = cfg /\ nextSeq' = nextSeq /\ env' = [env EXCEPT ![w] = env[w]]
      /\ p[w].at = "watch" /\ Method(w) = "exec" /\ ~p[w].healthy
      /\ p[w].spent \in Nat
  BY WorkerFacts DEF Watch, network, Own, Course, ProbeState
<1>2. ASSUME NEW at \in {"close", "kill"},
             p' = [p EXCEPT ![w] = [p[w] EXCEPT !.at = at]]
      PROVE  Steps(w)
  <2> DEFINE r == [p[w] EXCEPT !.at = at]
  <2>1. /\ r \in ProbeState /\ r.at = at /\ r.spent = p[w].spent
        /\ ~r.healthy /\ r.error = p[w].error
    BY <1>1, <1>2, WorkerFacts DEF ProbeState
  <2>2. p' = [p EXCEPT ![w] = r]
    BY <1>2
  <2> HIDE DEF r
  <2>3. Own(w[1], Tr(w), r, env[w])
    BY <1>1, <1>2, <2>1, WorkerFacts
    DEF Own, Course, Budget, Tended, Evidence, Blamed
  <2>4. QED
    BY <1>1, <2>1, <2>2, <2>3, WorkerFacts DEF Steps, Typed
<1>3. CASE Remaining(w) > 0 /\ env[w].child = "runs"
  <2> DEFINE limit == Timeout(w)
             n == p[w].spent + Shorter(Nap, limit)
             r == [p[w] EXCEPT !.spent = @ + Shorter(Nap, limit)]
  <2>1. limit \in Nat \ {0} /\ Remaining(w) = limit - p[w].spent
    BY WorkerFacts DEF Remaining
  <2> HIDE DEF limit
  <2>2. n \in Nat /\ n < limit + Nap
    BY <1>1, <1>3, <2>1, ProbesAssumption DEF Shorter
  <2>3. /\ r \in ProbeState /\ r.at = "watch" /\ r.spent = n
        /\ ~r.healthy /\ r.error = p[w].error
    <3>1. p[w] \in ProbeState
      BY WorkerFacts
    <3>2. r = [p[w] EXCEPT !.spent = n]
      BY <3>1 DEF ProbeState
    <3> HIDE DEF n, r
    <3>3. QED
      BY <1>1, <2>2, <3>1, <3>2 DEF ProbeState
  <2>4. p' = [p EXCEPT ![w] = r]
    <3> DEFINE left == Remaining(w)
    <3>1. ~(left <= 0)
      <4>1. left \in Int /\ left > 0
        BY <1>1, <1>3, <2>1
      <4> HIDE DEF left
      <4>2. QED
        BY <4>1
    <3>2. QED
      BY <1>3, <3>1 DEF Watch, Goes, limit
  <2> HIDE DEF r, n
  <2>5. Within(Tr(w), r.spent)
    BY <1>1, <2>2, <2>3, WorkerFacts DEF Within, limit
  <2>6. Own(w[1], Tr(w), r, env[w])
    BY <1>1, <2>3, <2>5, WorkerFacts
    DEF Own, Course, Budget, Tended, Evidence, Blamed
  <2>7. QED
    BY <1>1, <2>3, <2>4, <2>6, WorkerFacts DEF Steps, Typed
<1>4. Remaining(w) <= 0 \/ Remaining(w) > 0
  <2> DEFINE limit == Timeout(w)
             spent == p[w].spent
  <2>1. limit \in Nat /\ spent \in Nat
    BY <1>1, WorkerFacts
  <2>2. Remaining(w) = limit - spent
    BY DEF Remaining
  <2> HIDE DEF limit, spent
  <2>3. QED
    BY <2>1, <2>2
<1>5. QED
  BY <1>2, <1>3, <1>4 DEF Watch, Goes

LEMMA KilledEnds ==
    ASSUME NEW e \in EnvState
    PROVE  /\ Killed(e) \in EnvState /\ Killed(e).child # "runs"
           /\ "in group" \notin Killed(e).kids
           /\ e.child = "exit 0" <=> Killed(e).child = "exit 0"
           /\ Killed(e).status = e.status
BY DEF Killed, EnvState

LEMMA KillSteps ==
    ASSUME Typed, Owned, NEW w \in Workers(cfg), Kill(w)
    PROVE  Steps(w)
<1> DEFINE r == [p[w] EXCEPT !.at = "close", !.late = TRUE]
           e == Killed(env[w])
<1>1. /\ cfg' = cfg /\ nextSeq' = nextSeq /\ env' = [env EXCEPT ![w] = e]
      /\ p' = [p EXCEPT ![w] = r]
      /\ p[w].at = "kill" /\ Method(w) = "exec" /\ ~p[w].healthy
  BY WorkerFacts DEF Kill, Goes, network, Own, Course
<1>2. /\ r \in ProbeState /\ r.at = "close" /\ r.spent = p[w].spent
      /\ ~r.healthy /\ r.error = p[w].error
  BY <1>1, WorkerFacts DEF ProbeState
<1>3. e \in EnvState
  BY WorkerFacts, KilledEnds
<1> HIDE DEF r, e
<1>4. Own(w[1], Tr(w), r, e)
  BY <1>1, <1>2, WorkerFacts DEF Own, Course, Budget, Tended, Evidence, Blamed
<1>5. QED
  BY <1>1, <1>2, <1>3, <1>4 DEF Steps, Typed

LEMMA CloseSteps ==
    ASSUME Typed, Owned, NEW w \in Workers(cfg), Close(w)
    PROVE  Steps(w)
<1> DEFINE q == [p[w] EXCEPT !.address = env[w].says]
           well == env[w].child = "exit 0" /\ ~p[w].late
           r == IF well THEN Healthy(q) ELSE Unhealthy(q)
           e == Killed(env[w])
<1>1. /\ cfg' = cfg /\ nextSeq' = nextSeq /\ env' = [env EXCEPT ![w] = e]
      /\ p' = [p EXCEPT ![w] = r]
      /\ p[w].at = "close" /\ Method(w) = "exec" /\ ~p[w].healthy
      /\ Within(Tr(w), p[w].spent)
  BY WorkerFacts DEF Close, Closed, Goes, network, Own, Course, Budget
<1>2. /\ q \in ProbeState /\ q.spent = p[w].spent /\ q.error = p[w].error
      /\ q.late = p[w].late /\ q.healthy = p[w].healthy
  BY WorkerFacts DEF ProbeState, EnvState
<1> HIDE DEF q
<1>3. /\ e \in EnvState /\ e.child # "runs" /\ "in group" \notin e.kids
      /\ env[w].child = "exit 0" => e.child = "exit 0"
  BY WorkerFacts, KilledEnds
<1> HIDE DEF e
<1>4. /\ r \in {Healthy(q), Unhealthy(q)}
      /\ r = Unhealthy(q) \/ well
  <2> HIDE DEF well
  <2>1. QED
    OBVIOUS
<1> HIDE DEF r
<1>5. /\ r \in ProbeState /\ r.at = "done" /\ r.spent = p[w].spent
      /\ r.error = p[w].error /\ r.late = p[w].late
      /\ r.healthy => env[w].child = "exit 0" /\ ~p[w].late
  BY <1>1, <1>2, <1>4, Verdicts
<1>6. Tended(r, e) /\ Evidence(Tr(w), r, e) /\ Blamed(w[1], Tr(w), r)
  BY <1>1, <1>3, <1>5, WorkerFacts DEF Own, Tended, Evidence, Blamed
<1>7. Within(Tr(w), r.spent)
  BY <1>1, <1>5, Zenon
<1>8. QED
  BY <1>1, <1>3, <1>5, <1>6, <1>7, WorkerFacts, VerdictSteps

\* probe_once: a healthy helper keeps its verdict only with an address that
\* is one.
LEMMA JudgeSteps ==
    ASSUME Typed, Owned, NEW w \in Workers(cfg), Judge(w) \/ Record(w)
    PROVE  Steps(w)
<1>1. CASE Record(w)
  <2>1. /\ cfg' = cfg /\ nextSeq' = nextSeq
        /\ p' = [p EXCEPT ![w] = NoProbe] /\ env' = [env EXCEPT ![w] = NoEnv]
    BY <1>1 DEF Record, Goes, network
  <2>2. Own(w[1], Tr(w), NoProbe, NoEnv)
    BY NothingYet DEF Typed, Tr
  <2>3. QED
    BY <2>1, <2>2, NothingYet DEF Steps, Typed
<1>2. CASE Judge(w)
  <2> DEFINE r == Judged(p[w])
  <2>1. /\ cfg' = cfg /\ nextSeq' = nextSeq /\ env' = [env EXCEPT ![w] = env[w]]
        /\ p' = [p EXCEPT ![w] = r] /\ p[w].at = "done"
        /\ Within(Tr(w), p[w].spent)
    BY <1>2, WorkerFacts DEF Judge, Goes, network, Own, Budget
  <2>2. /\ r \in ProbeState /\ r.at = "judged" /\ r.spent = p[w].spent
        /\ r.error = p[w].error /\ r.late = p[w].late
        /\ r.healthy => /\ p[w].healthy
                        /\ r.address \in {<<>>} \cup Literals
    <3>1. p[w] \in ProbeState
      BY WorkerFacts
    <3>2. CASE p[w].healthy /\ p[w].address \notin {<<>>} \cup Literals
      <4>1. r = [p[w] EXCEPT !.at = "judged", !.healthy = FALSE, !.address = <<>>]
        BY <3>2 DEF Judged
      <4>2. <<>> \in Seq(STRING)
        OBVIOUS
      <4> HIDE DEF r
      <4>3. QED
        BY <3>1, <4>1, <4>2 DEF ProbeState
    <3>3. CASE ~(p[w].healthy /\ p[w].address \notin {<<>>} \cup Literals)
      <4>1. r = [p[w] EXCEPT !.at = "judged"]
        BY <3>3 DEF Judged
      <4> HIDE DEF r
      <4>2. QED
        BY <3>1, <3>3, <4>1 DEF ProbeState
    <3>4. QED
      BY <3>2, <3>3
  <2> HIDE DEF r
  <2>3. Own(w[1], Tr(w), r, env[w])
    BY <2>1, <2>2, WorkerFacts DEF Own, Course, Budget, Tended, Evidence, Blamed
  <2>4. QED
    BY <2>1, <2>2, <2>3, WorkerFacts DEF Steps, Typed
<1>3. QED
  BY <1>1, <1>2

-----------------------------------------------------------------------------
(* The invariant. *)

Acts(w) ==
    \/ Begin(w) \/ Resolve(w) \/ DialEnds(w) \/ DialFails(w) \/ Connect(w)
    \/ Read(w) \/ ReadFails(w) \/ Parse(w)
    \/ Send(w) \/ Hear(w) \/ HearsNothing(w)
    \/ Spawn(w) \/ Fork(w) \/ Exits(w) \/ Watch(w) \/ Kill(w) \/ Close(w)
    \/ Judge(w) \/ Record(w)

LEMMA ActsAreSteps ==
    ASSUME Typed, Owned, NEW w \in Workers(cfg), Acts(w)
    PROVE  Steps(w)
BY BeginSteps, ResolveSteps, DialSteps, ConnectSteps, ReadSteps, ParseSteps,
   SendSteps, HearSteps, SpawnSteps, HelperSteps, WatchSteps, KillSteps,
   CloseSteps, JudgeSteps
DEF Acts

\* Who is not asking hears nothing new and forgets nothing.
LEMMA StillHeard ==
    ASSUME Typed, Owned, Heard, NEW w \in Workers(cfg), Steps(w),
           answered' = answered,
           p'[w].healthy /\ Method(w) = "icmp"
             => p'[w].seq = p[w].seq /\ Echo(w) \in answered
    PROVE  Heard'
<1>1. /\ cfg' = cfg /\ \A v \in Workers(cfg) : Method(v)' = Method(v)
      /\ \A v \in Workers(cfg) : p'[v].seq = p[v].seq => Echo(v)' = Echo(v)
  BY DEF Steps, Method, Tr, Echo
<1>2. SUFFICES ASSUME NEW v \in Workers(cfg), p'[v].healthy, Method(v) = "icmp"
               PROVE  Echo(v)' \in answered'
  BY <1>1 DEF Heard
<1>3. CASE v = w
  BY <1>1, <1>2, <1>3
<1>4. CASE v # w
  <2>1. p'[v] = p[v]
    BY <1>4, OthersKeep
  <2>2. QED
    BY <1>1, <1>2, <2>1 DEF Heard
<1>5. QED
  BY <1>3, <1>4

\* A new request takes nothing from a probe that has its answer.
LEMMA SendKeepsHeard ==
    ASSUME Typed, Owned, Heard, NEW w \in Workers(cfg), Steps(w), Send(w)
    PROVE  Heard'
<1>1. /\ p[w] \in ProbeState /\ ~p[w].healthy /\ cfg' = cfg
  BY WorkerFacts DEF Send, Own, Course
<1>2. ~p'[w].healthy
  <2>1. PICK r \in {Unhealthy(p[w]), [p[w] EXCEPT !.at = "listen", !.seq = nextSeq]} :
          p' = [p EXCEPT ![w] = r]
    BY DEF Send, Goes
  <2>2. ~r.healthy
    BY <1>1 DEF Unhealthy, ProbeState
  <2>3. QED
    BY <2>1, <2>2 DEF Typed
<1>3. CASE UNCHANGED network
  BY <1>2, <1>3, StillHeard DEF network
<1>4. CASE Outlasted /\ answered' = {e \in answered : e.seq # nextSeq}
  <2>1. SUFFICES ASSUME NEW v \in Workers(cfg), p'[v].healthy, Method(v) = "icmp"
                 PROVE  Echo(v)' \in answered'
    BY <1>1 DEF Heard, Method, Tr
  <2>2. v # w
    BY <1>2, <2>1
  <2>3. p'[v] = p[v]
    BY <2>2, OthersKeep
  <2>4. Echo(v) \in answered /\ p[v].at \in {"done", "judged"}
    BY <2>1, <2>3, WorkerFacts DEF Heard, Own, Course
  <2>5. p[v].seq # nextSeq
    BY <1>4, <2>4 DEF Outlasted, Typed
  <2>6. Echo(v)' = Echo(v) /\ Echo(v).seq = p[v].seq
    BY <1>1, <2>3 DEF Echo, Tr
  <2>7. QED
    BY <1>4, <2>4, <2>5, <2>6
<1>5. QED
  BY <1>3, <1>4 DEF Send

LEMMA HearKeepsHeard ==
    ASSUME Typed, Owned, Heard, NEW w \in Workers(cfg), Steps(w), Hear(w)
    PROVE  Heard'
<1>1. p[w] \in ProbeState /\ ~p[w].healthy /\ answered' = answered
  BY WorkerFacts DEF Hear, network, Own, Course
<1>2. PICK d \in 0..Remaining(w) :
        LET q == [p[w] EXCEPT !.spent = @ + d]
        IN  \/ \E e \in answered : p' = [p EXCEPT ![w] = IF Ours(w, e) THEN Healthy(q) ELSE q]
            \/ p' = [p EXCEPT ![w] = q]
            \/ p' = [p EXCEPT ![w] = Unhealthy(q)]
  BY DEF Hear, Goes
<1> DEFINE q == [p[w] EXCEPT !.spent = @ + d]
<1>3. q.seq = p[w].seq /\ q.healthy = p[w].healthy
  BY <1>1 DEF ProbeState
<1>4. /\ Healthy(q).seq = q.seq
      /\ Unhealthy(q).seq = q.seq /\ Unhealthy(q).healthy = q.healthy
  BY <1>1 DEF Healthy, Unhealthy, ProbeState
<1>5. \/ p'[w] = Healthy(q) /\ Echo(w) \in answered
      \/ p'[w] = q
      \/ p'[w] = Unhealthy(q)
  <2> HIDE DEF q
  <2>1. DOMAIN p = Workers(cfg)
    BY DEF Typed
  <2>2. QED
    BY <1>2, <2>1 DEF Ours, q
<1> HIDE DEF q
<1>6. QED
  BY <1>1, <1>3, <1>4, <1>5, StillHeard

LEMMA ActsKeepHeard ==
    ASSUME Typed, Owned, Heard, NEW w \in Workers(cfg), Acts(w)
    PROVE  Heard'
<1>1. Steps(w)
  BY ActsAreSteps
<1>2. p[w] \in ProbeState /\ DOMAIN p = Workers(cfg)
  BY WorkerFacts DEF Typed
<1>3. CASE Method(w) # "icmp" /\ answered' = answered
  BY <1>1, <1>3, StillHeard
<1>4. CASE /\ Begin(w) \/ Resolve(w) \/ HearsNothing(w)
  <2>1. ~p[w].healthy /\ answered' = answered
    BY <1>4, WorkerFacts DEF Begin, Resolve, HearsNothing, network, Own, Course
  <2>2. \/ Method(w) # "icmp"
        \/ p' = [p EXCEPT ![w] = Misconfigured(p[w])]
        \/ p' = [p EXCEPT ![w] = Unhealthy(p[w])]
        \/ \E at \in {"resolve", "send"} : p' = [p EXCEPT ![w] = [p[w] EXCEPT !.at = at]]
    BY <1>4 DEF Begin, Resolve, HearsNothing, Goes
  <2>3. /\ ~Misconfigured(p[w]).healthy /\ ~Unhealthy(p[w]).healthy
        /\ \A at \in {"resolve", "send"} : ~[p[w] EXCEPT !.at = at].healthy
    BY <1>2, <2>1 DEF Misconfigured, Unhealthy, ProbeState
  <2>4. Method(w) # "icmp" \/ ~p'[w].healthy
    BY <1>2, <2>2, <2>3
  <2>5. QED
    BY <1>1, <2>1, <2>4, StillHeard
<1>5. CASE Judge(w)
  <2>1. /\ answered' = answered /\ p'[w] = Judged(p[w])
    BY <1>2, <1>5 DEF Judge, Goes, network
  <2>2. Judged(p[w]).healthy => p[w].healthy /\ Judged(p[w]).seq = p[w].seq
    BY <1>2 DEF Judged, ProbeState
  <2>3. QED
    BY <1>1, <2>1, <2>2, StillHeard DEF Heard
<1>6. CASE Record(w)
  <2>1. answered' = answered /\ ~p'[w].healthy
    BY <1>2, <1>6 DEF Record, Goes, network, NoProbe
  <2>2. QED
    BY <1>1, <2>1, StillHeard
<1>7. CASE Fork(w) \/ Exits(w)
  <2>1. answered' = answered /\ p' = p
    BY <1>7 DEF Fork, Exits, network
  <2>2. QED
    BY <1>1, <2>1, StillHeard DEF Heard
<1>8. CASE Send(w) \/ Hear(w)
  BY <1>1, <1>8, SendKeepsHeard, HearKeepsHeard
<1>9. CASE \/ DialEnds(w) \/ DialFails(w) \/ Connect(w)
           \/ Read(w) \/ ReadFails(w) \/ Parse(w)
           \/ Spawn(w) \/ Watch(w) \/ Kill(w) \/ Close(w)
  <2>1. p[w].at \in {"dial", "read", "watch", "kill", "close"} \/ Method(w) = "exec"
    BY <1>9 DEF DialEnds, DialFails, Connect, Read, ReadFails, ReadsOn, Parse,
                Spawn, Watch, Kill, Close
  <2>2. answered' = answered
    BY <1>9 DEF DialEnds, DialFails, Connect, Read, ReadFails, Parse, Spawn,
                Watch, Kill, Close, network
  <2>3. Method(w) # "icmp"
    BY <2>1, WorkerFacts DEF Own, Course
  <2>4. QED
    BY <1>3, <2>2, <2>3
<1>10. QED
  BY <1>4, <1>5, <1>6, <1>7, <1>8, <1>9 DEF Acts

LEMMA NextInv ==
    Typed /\ Owned /\ Heard /\ [Next]_vars => (Typed /\ Owned /\ Heard)'
<1> SUFFICES ASSUME Typed, Owned, Heard, [Next]_vars
             PROVE  (Typed /\ Owned /\ Heard)'
  OBVIOUS
<1>1. CASE \E c \in Configs : Restart(c)
  BY <1>1, StartsOwn
<1>2. ASSUME cfg' = cfg, p' = p, env' = env, nextSeq' = nextSeq,
             answered \subseteq answered'
      PROVE  (Typed /\ Owned /\ Heard)'
  BY <1>2 DEF Typed, Owned, Heard, Method, Tr, Echo
<1>3. CASE \E e \in sent : Answer(e)
  BY <1>2, <1>3 DEF Answer
<1>4. CASE UNCHANGED vars
  BY <1>2, <1>4 DEF vars
<1>5. ASSUME NEW w \in DOMAIN p, Acts(w) PROVE (Typed /\ Owned /\ Heard)'
  <2>1. w \in Workers(cfg)
    BY DEF Typed
  <2>2. QED
    BY <1>5, <2>1, ActsAreSteps, ActsKeepHeard, OthersKeep
<1>6. QED
  BY <1>1, <1>3, <1>4, <1>5 DEF Next, Acts

LEMMA ProbesInv == Spec => [](Typed /\ Owned /\ Heard)
<1>1. Init => Typed /\ Owned /\ Heard
  BY StartsOwn
<1>2. QED
  BY <1>1, NextInv, PTL DEF Spec

-----------------------------------------------------------------------------
(* Whom an http probe asks: the tokens of a target, taken apart and put    *)
(* together.                                                               *)

LEMMA Extremes ==
    ASSUME NEW n \in Nat, NEW I \in SUBSET (1..n), I # {}
    PROVE  /\ Min(I) \in I /\ \A j \in I : Min(I) <= j
           /\ Max(I) \in I /\ \A j \in I : Max(I) >= j
<1> DEFINE R == OpToRel(<, Nat)
<1>1. \A x, y \in Nat : x < y => <<x, y>> \in R
  BY DEF OpToRel
<1>2. IsWellFoundedOn(R, Nat)
  BY NatLessThanWellFounded, Zenon
<1> HIDE DEF R
<1>3. ASSUME NEW T \in SUBSET Nat, T # {}
      PROVE  \E x \in T : \A y \in T : x <= y
  <2>1. PICK x \in T : \A y \in T : <<y, x>> \notin R
    BY <1>2, <1>3, WFMin
  <2>2. ASSUME NEW y \in T PROVE x <= y
    <3>1. x \in Nat /\ y \in Nat
      OBVIOUS
    <3>2. ~(y < x)
      BY <1>1, <2>1, <3>1
    <3>3. QED
      BY <3>1, <3>2
  <2>3. QED
    BY <2>2
<1>4. \E i \in I : \A j \in I : i <= j
  BY <1>3
<1>5. \E i \in I : \A j \in I : i >= j
  <2> DEFINE T == {n - i : i \in I}
  <2>1. T \in SUBSET Nat /\ T # {}
    <3>1. \A i \in I : n - i \in Nat
      OBVIOUS
    <3>2. QED
      BY <3>1, Zenon
  <2>2. PICK x \in T : \A y \in T : x <= y
    BY <1>3, <2>1
  <2>3. PICK i \in I : x = n - i
    BY <2>2
  <2>4. \A j \in I : n - i <= n - j
    BY <2>2, <2>3
  <2>5. QED
    BY <2>4
<1>6. Min(I) \in I /\ \A j \in I : Min(I) <= j
  BY <1>4 DEF Min
<1>7. Max(I) \in I /\ \A j \in I : Max(I) >= j
  BY <1>5 DEF Max
<1>8. QED
  BY <1>6, <1>7

Places(f, x) == {i \in 1..Len(f) : f[i] = x}
FirstAt(f, x) == IF Places(f, x) # {} THEN Min(Places(f, x)) ELSE 0
LastAt(f, x) == IF Places(f, x) # {} THEN Max(Places(f, x)) ELSE 0

LEMMA FirstAndLast ==
    ASSUME NEW T, NEW f \in Seq(T), NEW x
    PROVE  /\ \/ FirstAt(f, x) = 0 /\ LastAt(f, x) = 0 /\ \A j \in 1..Len(f) : f[j] # x
              \/ /\ FirstAt(f, x) \in 1..Len(f) /\ f[FirstAt(f, x)] = x
                 /\ LastAt(f, x) \in 1..Len(f) /\ f[LastAt(f, x)] = x
           /\ \A j \in 1..Len(f) : f[j] = x => FirstAt(f, x) <= j /\ j <= LastAt(f, x)
<1> DEFINE I == Places(f, x)
           n == Len(f)
<1>1. n \in Nat
  BY LenProperties
<1>2. \A i : i \in I <=> i \in 1..n /\ f[i] = x
  BY DEF Places
<1>3. I \in SUBSET (1..n)
  BY <1>2
<1> HIDE DEF I, n
<1>4. I # {} => /\ Min(I) \in I /\ \A j \in I : Min(I) <= j
                /\ Max(I) \in I /\ \A j \in I : Max(I) >= j
  BY <1>1, <1>3, Extremes
<1>5. /\ FirstAt(f, x) = IF I # {} THEN Min(I) ELSE 0
      /\ LastAt(f, x) = IF I # {} THEN Max(I) ELSE 0
  BY DEF FirstAt, LastAt, I
<1>6. CASE I = {}
  BY <1>2, <1>5, <1>6 DEF n
<1>7. CASE I # {}
  <2> DEFINE b == Min(I)
             e == Max(I)
  <2>1. b \in I /\ e \in I /\ \A j \in I : b <= j /\ e >= j
    BY <1>4, <1>7
  <2>2. FirstAt(f, x) = b /\ LastAt(f, x) = e
    BY <1>5, <1>7
  <2> HIDE DEF b, e
  <2>3. \A j \in 1..n : f[j] = x => b <= j /\ j <= e
    <3> SUFFICES ASSUME NEW j \in 1..n, f[j] = x PROVE b <= j /\ j <= e
      OBVIOUS
    <3>1. j \in I /\ b \in 1..n /\ e \in 1..n
      BY <1>2, <2>1
    <3>2. b <= j /\ e >= j
      BY <2>1, <3>1
    <3>3. QED
      BY <1>1, <3>1, <3>2
  <2>4. QED
    BY <1>2, <2>1, <2>2, <2>3 DEF n
<1>8. QED
  BY <1>6, <1>7

LEMMA PieceIs ==
    ASSUME NEW T, NEW f, NEW q \in Seq(T), NEW m \in Int,
           \A i \in 1..Len(q) : f[m + i] = q[i]
    PROVE  SubSeq(f, m + 1, m + Len(q)) = q
<1> DEFINE n == Len(q)
           x == SubSeq(f, m + 1, m + n)
<1>1. n \in Nat /\ \A i \in 1..n : q[i] \in T
  BY LenProperties, ElementOfSeq
<1> HIDE DEF n
<1>2. \A i \in 1..n : f[m + i] = q[i]
  BY DEF n
<1>3. \A i \in (m + 1)..(m + n) : f[i] \in T
  <2> SUFFICES ASSUME NEW i \in (m + 1)..(m + n) PROVE f[i] \in T
    OBVIOUS
  <2>1. i - m \in 1..n /\ m + (i - m) = i
    BY <1>1
  <2>2. QED
    BY <1>1, <1>2, <2>1
<1>4. m + 1 \in Int /\ m + n \in Int
  BY <1>1
<1>5. /\ x \in Seq(T)
      /\ Len(x) = IF m + 1 <= m + n THEN (m + n) - (m + 1) + 1 ELSE 0
      /\ \A i \in 1..((m + n) - (m + 1) + 1) : x[i] = f[(m + 1) + i - 1]
  BY <1>3, <1>4, SubSeqProperties
<1>6. Len(x) = n
  BY <1>1, <1>5
<1>7. \A i \in 1..n : x[i] = q[i]
  <2> SUFFICES ASSUME NEW i \in 1..n PROVE x[i] = q[i]
    OBVIOUS
  <2>1. i \in 1..((m + n) - (m + 1) + 1) /\ (m + 1) + i - 1 = m + i
    BY <1>1
  <2>2. QED
    BY <1>2, <1>5, <2>1
<1> HIDE DEF x
<1>8. x = q
  BY <1>5, <1>6, <1>7, SeqEqual DEF n
<1>9. QED
  BY <1>8 DEF x, n

\* A word in front of and one behind a piece of a target.
LEMMA WordAround ==
    ASSUME NEW T, NEW x \in T, NEW y \in T, NEW h \in Seq(T), NEW s \in Seq(T)
    PROVE  LET a == <<x>> \o h \o <<y>> \o s
           IN  /\ a \in Seq(T) /\ Len(a) = 2 + Len(h) + Len(s) /\ a[1] = x
               /\ \A i \in 1..Len(h) : a[1 + i] = h[i]
               /\ a[2 + Len(h)] = y
               /\ \A i \in 1..Len(s) : a[2 + Len(h) + i] = s[i]
<1> DEFINE k == Len(h)
           n == Len(s)
           u == <<x>>
           v == <<y>>
           b == u \o h
           c == b \o v
           a == c \o s
<1>1. k \in Nat /\ n \in Nat
  BY LenProperties
<1>2. u \in Seq(T) /\ Len(u) = 1 /\ u[1] = x /\ v \in Seq(T) /\ Len(v) = 1 /\ v[1] = y
  OBVIOUS
<1> HIDE DEF u, v
<1>3. \A f, g \in Seq(T) :
        /\ f \o g \in Seq(T) /\ Len(f \o g) = Len(f) + Len(g)
        /\ \A i \in 1..Len(f) + Len(g) :
              (f \o g)[i] = IF i <= Len(f) THEN f[i] ELSE g[i - Len(f)]
  BY ConcatProperties
<1>4. /\ b \in Seq(T) /\ Len(b) = 1 + k
      /\ \A i \in 1..1 + k : b[i] = IF i <= 1 THEN u[i] ELSE h[i - 1]
  <2>1. /\ b \in Seq(T) /\ Len(b) = Len(u) + Len(h)
        /\ \A i \in 1..Len(u) + Len(h) :
              b[i] = IF i <= Len(u) THEN u[i] ELSE h[i - Len(u)]
    BY <1>2, <1>3
  <2>2. QED
    BY <1>2, <2>1
<1> HIDE DEF b
<1>5. /\ c \in Seq(T) /\ Len(c) = Len(b) + Len(v)
      /\ \A i \in 1..Len(b) + Len(v) :
            c[i] = IF i <= Len(b) THEN b[i] ELSE v[i - Len(b)]
  BY <1>2, <1>3, <1>4
<1> HIDE DEF c
<1>6. /\ a \in Seq(T) /\ Len(a) = Len(c) + n
      /\ \A i \in 1..Len(c) + n : a[i] = IF i <= Len(c) THEN c[i] ELSE s[i - Len(c)]
  BY <1>3, <1>5
<1> HIDE DEF a, k, n
<1>7. Len(c) = 2 + k /\ Len(a) = 2 + k + n
  BY <1>1, <1>2, <1>4, <1>5, <1>6
<1>8. \A i \in 1..(2 + k) : a[i] = c[i]
  BY <1>1, <1>6, <1>7
<1>9. \A i \in 1..(1 + k) : c[i] = b[i]
  BY <1>1, <1>2, <1>4, <1>5
<1>10. a[1] = x
  <2>1. a[1] = c[1] /\ c[1] = b[1]
    BY <1>1, <1>8, <1>9
  <2>2. b[1] = u[1]
    BY <1>1, <1>4
  <2>3. QED
    BY <1>2, <2>1, <2>2
<1>11. ASSUME NEW i \in 1..k PROVE a[1 + i] = h[i]
  <2>1. 1 + i \in 1..(2 + k) /\ 1 + i \in 1..(1 + k) /\ (1 + i) - 1 = i /\ ~(1 + i <= 1)
    BY <1>1
  <2>2. QED
    BY <1>4, <1>8, <1>9, <2>1
<1>12. a[2 + k] = y
  <2>1. 2 + k \in 1..(2 + k) /\ (2 + k) - Len(b) = 1 /\ ~(2 + k <= Len(b))
        /\ 2 + k \in 1..Len(b) + Len(v)
    BY <1>1, <1>2, <1>4
  <2>2. QED
    BY <1>2, <1>5, <1>8, <2>1
<1>13. ASSUME NEW i \in 1..n PROVE a[2 + k + i] = s[i]
  <2>1. 2 + k + i \in 1..Len(c) + n /\ ~(2 + k + i <= Len(c)) /\ (2 + k + i) - Len(c) = i
    BY <1>1, <1>7
  <2>2. QED
    BY <1>6, <2>1
<1>14. QED
  BY <1>6, <1>7, <1>10, <1>11, <1>12, <1>13 DEF a, b, c, u, v, k, n


LEMMA SplitIs ==
    ASSUME NEW a
    PROVE  LET close == FirstAt(a, "]")
               first == FirstAt(a, ":")
               last == LastAt(a, ":")
               bracket == a # <<>> /\ a[1] = "["
               port == first > 0 /\ last = Len(a) - 1 /\ IsPort(a[Len(a)])
           IN  /\ bracket /\ close # 0 => SplitAuthority(a) =
                    [host |-> SubSeq(a, 2, close - 1),
                     port |-> After(SubSeq(a, close + 1, Len(a))), v6 |-> TRUE]
               /\ bracket /\ close = 0 => SplitAuthority(a) = Opaque(a)
               /\ ~bracket /\ first # last => SplitAuthority(a) =
                    [host |-> a, port |-> NoPort, v6 |-> TRUE]
               /\ ~bracket /\ first = last /\ port => SplitAuthority(a) =
                    [host |-> SubSeq(a, 1, last - 1), port |-> PortOf[a[Len(a)]],
                     v6 |-> FALSE]
               /\ ~bracket /\ first = last /\ ~port => SplitAuthority(a) = Opaque(a)
<1> DEFINE close == FirstAt(a, "]")
           first == FirstAt(a, ":")
           last == LastAt(a, ":")
<1>1. /\ SelectInSeq(a, LAMBDA w : w = "]") = close
      /\ SelectInSeq(a, LAMBDA w : w = ":") = first
      /\ SelectLastInSeq(a, LAMBDA w : w = ":") = last
  BY DEF SelectInSeq, SelectLastInSeq, FirstAt, LastAt, Places
<1>2. SplitAuthority(a) =
        IF a # <<>> /\ a[1] = "["
        THEN IF close = 0 THEN Opaque(a)
             ELSE [host |-> SubSeq(a, 2, close - 1),
                   port |-> After(SubSeq(a, close + 1, Len(a))), v6 |-> TRUE]
        ELSE IF first # last THEN [Opaque(a) EXCEPT !.v6 = TRUE]
        ELSE IF first > 0 /\ last = Len(a) - 1 /\ IsPort(a[Len(a)])
        THEN [host |-> SubSeq(a, 1, last - 1), port |-> PortOf[a[Len(a)]],
              v6 |-> FALSE]
        ELSE Opaque(a)
  BY <1>1 DEF SplitAuthority
<1> HIDE DEF close, first, last
<1>3. [Opaque(a) EXCEPT !.v6 = TRUE] = [host |-> a, port |-> NoPort, v6 |-> TRUE]
  <2> DEFINE R == [host : {a}, port : {NoPort}, v6 : BOOLEAN]
             e == [Opaque(a) EXCEPT !.v6 = TRUE]
  <2>1. Opaque(a) \in R
    BY DEF Opaque
  <2>2. e \in R /\ e.v6 = TRUE
    BY <2>1
  <2> HIDE DEF e
  <2>3. e = [host |-> a, port |-> NoPort, v6 |-> TRUE]
    BY <2>2
  <2>4. QED
    BY <2>3 DEF e
<1>4. QED
  BY <1>2, <1>3, Zenon DEF close, first, last

\* A literal in brackets ends at the first "]", whatever follows.
LEMMA BracketsSplit ==
    ASSUME NEW T, "[" \in T, "]" \in T, NEW h \in Seq(T), NEW s \in Seq(T),
           \A i \in 1..Len(h) : h[i] # "]"
    PROVE  LET a == <<"[">> \o h \o <<"]">> \o s
           IN  /\ a \in Seq(T) /\ a # <<>> /\ a[1] = "["
               /\ SplitAuthority(a) = [host |-> h, port |-> After(s), v6 |-> TRUE]
               /\ \A i \in 1..Len(a) : \/ a[i] \in {"[", "]"}
                                       \/ \E j \in 1..Len(h) : a[i] = h[j]
                                       \/ \E j \in 1..Len(s) : a[i] = s[j]
<1> DEFINE k == Len(h)
           n == Len(s)
           a == <<"[">> \o h \o <<"]">> \o s
           close == FirstAt(a, "]")
<1>1. k \in Nat /\ n \in Nat
  BY LenProperties
<1>2. /\ a \in Seq(T) /\ Len(a) = 2 + Len(h) + Len(s) /\ a[1] = "["
      /\ \A i \in 1..Len(h) : a[1 + i] = h[i]
      /\ a[2 + Len(h)] = "]"
      /\ \A i \in 1..Len(s) : a[2 + Len(h) + i] = s[i]
  BY WordAround
<1> HIDE DEF a
<1>3. /\ Len(a) = 2 + k + n /\ a[2 + k] = "]" /\ \A i \in 1..k : a[1 + i] = h[i]
      /\ \A i \in 1..n : a[2 + k + i] = s[i]
      /\ \A i \in 1..k : h[i] # "]"
  BY <1>2
<1>4. /\ \/ close = 0 /\ \A j \in 1..Len(a) : a[j] # "]"
         \/ close \in 1..Len(a) /\ a[close] = "]"
      /\ \A j \in 1..Len(a) : a[j] = "]" => close <= j
  <2>1. /\ \/ /\ close = 0 /\ LastAt(a, "]") = 0
              /\ \A j \in 1..Len(a) : a[j] # "]"
           \/ /\ close \in 1..Len(a) /\ a[close] = "]"
              /\ LastAt(a, "]") \in 1..Len(a) /\ a[LastAt(a, "]")] = "]"
        /\ \A j \in 1..Len(a) : a[j] = "]" => close <= j /\ j <= LastAt(a, "]")
    BY <1>2, FirstAndLast
  <2> HIDE DEF close
  <2>2. QED
    BY <2>1
<1> HIDE DEF close, k, n
<1>5. close = 2 + k
  <2>1. 2 + k \in 1..Len(a)
    BY <1>1, <1>3
  <2>2. close \in 1..Len(a) /\ a[close] = "]" /\ close <= 2 + k
    BY <1>3, <1>4, <2>1
  <2>3. close # 1
    BY <1>2, <2>2
  <2>4. ~(close \in 2..(1 + k))
    <3> SUFFICES ASSUME close \in 2..(1 + k) PROVE FALSE
      OBVIOUS
    <3>1. close - 1 \in 1..k /\ 1 + (close - 1) = close
      BY <1>1
    <3>2. QED
      BY <1>3, <2>2, <3>1
  <2>5. QED
    BY <1>1, <1>3, <2>2, <2>3, <2>4
<1>6. SubSeq(a, 2, close - 1) = h
  <2>1. SubSeq(a, 1 + 1, 1 + Len(h)) = h
    BY <1>2, PieceIs
  <2>2. 1 + 1 = 2 /\ 1 + Len(h) = close - 1
    BY <1>1, <1>5 DEF k
  <2>3. QED
    BY <2>1, <2>2
<1>7. SubSeq(a, close + 1, Len(a)) = s
  <2>1. 2 + k \in Int
    BY <1>1
  <2>2. SubSeq(a, (2 + k) + 1, (2 + k) + Len(s)) = s
    <3> DEFINE m == 2 + k
    <3>1. m \in Int /\ \A i \in 1..Len(s) : a[m + i] = s[i]
      BY <1>3, <2>1 DEF n
    <3> HIDE DEF m
    <3>2. \A q \in Seq(T) : (\A i \in 1..Len(q) : a[m + i] = q[i]) =>
            SubSeq(a, m + 1, m + Len(q)) = q
      BY <3>1, PieceIs
    <3>3. SubSeq(a, m + 1, m + Len(s)) = s
      BY <3>1, <3>2
    <3>4. QED
      BY <3>3 DEF m
  <2>3. QED
    BY <1>3, <1>5, <2>2 DEF n
<1>8. a # <<>>
  BY <1>1, <1>3
<1>9. SplitAuthority(a) = [host |-> h, port |-> After(s), v6 |-> TRUE]
  <2>1. close # 0
    BY <1>1, <1>5
  <2>2. SplitAuthority(a) =
          [host |-> SubSeq(a, 2, close - 1),
           port |-> After(SubSeq(a, close + 1, Len(a))), v6 |-> TRUE]
    BY <1>2, <1>8, <2>1, SplitIs DEF close
  <2>3. QED
    BY <1>6, <1>7, <2>2
<1>10. ASSUME NEW i \in 1..Len(a)
       PROVE  \/ a[i] \in {"[", "]"} \/ \E j \in 1..k : a[i] = h[j]
              \/ \E j \in 1..n : a[i] = s[j]
  <2>1. \/ i = 1 \/ i = 2 + k
        \/ i - 1 \in 1..k /\ i = 1 + (i - 1)
        \/ i - (2 + k) \in 1..n /\ i = 2 + k + (i - (2 + k))
    BY <1>1, <1>3
  <2>2. CASE i = 1 \/ i = 2 + k
    BY <1>2, <1>3, <2>2
  <2>3. CASE i - 1 \in 1..k /\ i = 1 + (i - 1)
    BY <1>3, <2>3
  <2>4. CASE i - (2 + k) \in 1..n /\ i = 2 + k + (i - (2 + k))
    BY <1>3, <2>4
  <2>5. QED
    BY <2>1, <2>2, <2>3, <2>4
<1>11. QED
  BY <1>2, <1>8, <1>9, <1>10 DEF a, k, n

\* No colon, or more of them than one: all of it is the host.
LEMMA ColonsSplit ==
    ASSUME NEW T, NEW h \in Seq(T), h # <<>>, h[1] # "["
    PROVE  /\ (\A i \in 1..Len(h) : h[i] # ":") => SplitAuthority(h) = Opaque(h)
           /\ (\E i, j \in 1..Len(h) : i # j /\ h[i] = ":" /\ h[j] = ":") =>
                SplitAuthority(h) = [host |-> h, port |-> NoPort, v6 |-> TRUE]
<1> DEFINE first == FirstAt(h, ":")
           last == LastAt(h, ":")
<1>1. Len(h) \in Nat
  BY LenProperties
<1>2. /\ \/ first = 0 /\ last = 0 /\ \A j \in 1..Len(h) : h[j] # ":"
         \/ first \in 1..Len(h) /\ h[first] = ":" /\ last \in 1..Len(h) /\ h[last] = ":"
      /\ \A j \in 1..Len(h) : h[j] = ":" => first <= j /\ j <= last
  BY FirstAndLast
<1>3. /\ first # last => SplitAuthority(h) =
            [host |-> h, port |-> NoPort, v6 |-> TRUE]
      /\ first = last /\ ~(first > 0) => SplitAuthority(h) = Opaque(h)
  BY SplitIs
<1> HIDE DEF first, last
<1>4. ASSUME \A i \in 1..Len(h) : h[i] # ":" PROVE SplitAuthority(h) = Opaque(h)
  <2>1. first = 0 /\ last = 0
    BY <1>2, <1>4
  <2>2. QED
    BY <1>3, <2>1
<1>5. ASSUME NEW i \in 1..Len(h), NEW j \in 1..Len(h), i # j, h[i] = ":", h[j] = ":"
      PROVE  first # last
  <2>1. first <= i /\ i <= last /\ first <= j /\ j <= last
    BY <1>2, <1>5
  <2>2. first \in Int /\ last \in Int
    BY <1>1, <1>2
  <2>3. QED
    BY <1>5, <2>1, <2>2
<1>6. QED
  BY <1>3, <1>4, <1>5

\* One colon and a port behind it.
LEMMA PortSplits ==
    ASSUME NEW T, NEW h \in Seq(T), h # <<>>, h[1] # "[",
           \A i \in 1..Len(h) : h[i] # ":",
           ":" \in T, NEW w \in T, IsPort(w), w # ":"
    PROVE  LET a == h \o <<":", w>>
           IN  /\ a \in Seq(T) /\ a # <<>> /\ a[1] = h[1]
               /\ SplitAuthority(a) = [host |-> h, port |-> PortOf[w], v6 |-> FALSE]
               /\ \A i \in 1..Len(a) : \/ a[i] \in {":", w}
                                       \/ \E j \in 1..Len(h) : a[i] = h[j]
<1> DEFINE k == Len(h)
           s == <<":", w>>
           a == h \o s
           first == FirstAt(a, ":")
           last == LastAt(a, ":")
<1>1. k \in Nat /\ k > 0 /\ Len(h) = k
  BY LenProperties, EmptySeq
<1>2. s \in Seq(T) /\ Len(s) = 2 /\ s[1] = ":" /\ s[2] = w
  OBVIOUS
<1> HIDE DEF s
<1>3. \A f, g \in Seq(T) :
        /\ f \o g \in Seq(T) /\ Len(f \o g) = Len(f) + Len(g)
        /\ \A i \in 1..Len(f) + Len(g) :
              (f \o g)[i] = IF i <= Len(f) THEN f[i] ELSE g[i - Len(f)]
  BY ConcatProperties
<1>4. /\ a \in Seq(T) /\ Len(a) = Len(h) + Len(s)
      /\ \A i \in 1..Len(h) + Len(s) :
            a[i] = IF i <= Len(h) THEN h[i] ELSE s[i - Len(h)]
  BY <1>2, <1>3
<1> HIDE DEF a, k
<1>5. /\ Len(a) = k + 2
      /\ \A i \in 1..(k + 2) : a[i] = IF i <= k THEN h[i] ELSE s[i - k]
  BY <1>1, <1>2, <1>4
<1>6. \A i \in 1..k : a[i] = h[i]
  BY <1>1, <1>5
<1>7. a[k + 1] = ":"
  <2>1. k + 1 \in 1..(k + 2) /\ ~(k + 1 <= k) /\ (k + 1) - k = 1
    BY <1>1
  <2>2. QED
    BY <1>2, <1>5, <2>1
<1>8. a[k + 2] = w
  <2>1. k + 2 \in 1..(k + 2) /\ ~(k + 2 <= k) /\ (k + 2) - k = 2
    BY <1>1
  <2>2. QED
    BY <1>2, <1>5, <2>1
<1>9. /\ \/ first = 0 /\ last = 0 /\ \A j \in 1..Len(a) : a[j] # ":"
         \/ first \in 1..Len(a) /\ a[first] = ":" /\ last \in 1..Len(a) /\ a[last] = ":"
      /\ \A j \in 1..Len(a) : a[j] = ":" => first <= j /\ j <= last
  BY <1>4, FirstAndLast
<1> HIDE DEF first, last
<1>10. \A i \in 1..Len(a) : a[i] = ":" => i = k + 1
  <2> SUFFICES ASSUME NEW i \in 1..Len(a), a[i] = ":" PROVE i = k + 1
    OBVIOUS
  <2>1. i \in 1..k \/ i = k + 1 \/ i = k + 2
    BY <1>1, <1>5
  <2>2. ~(i \in 1..k)
    BY <1>1, <1>6
  <2>3. QED
    BY <1>8, <2>1, <2>2
<1>11. first = k + 1 /\ last = k + 1
  <2>1. k + 1 \in 1..Len(a)
    BY <1>1, <1>5
  <2>2. QED
    BY <1>7, <1>9, <1>10, <2>1
<1>12. a # <<>> /\ a[1] = h[1] /\ 1 \in 1..k
  BY <1>1, <1>5, <1>6
<1>13. SubSeq(a, 1, last - 1) = h
  <2>1. \A i \in 1..Len(h) : a[0 + i] = h[i]
    BY <1>1, <1>6
  <2>2. SubSeq(a, 0 + 1, 0 + Len(h)) = h
    BY <2>1, PieceIs
  <2>3. 0 + 1 = 1 /\ 0 + Len(h) = last - 1
    BY <1>1, <1>11
  <2>4. QED
    BY <2>2, <2>3
<1>14. SplitAuthority(a) = [host |-> h, port |-> PortOf[w], v6 |-> FALSE]
  <2>1. /\ first = last /\ first > 0 /\ last = Len(a) - 1 /\ a[Len(a)] = w
        /\ a[1] # "["
    BY <1>1, <1>5, <1>8, <1>11, <1>12
  <2>2. SplitAuthority(a) =
          [host |-> SubSeq(a, 1, last - 1), port |-> PortOf[a[Len(a)]], v6 |-> FALSE]
    BY <2>1, SplitIs DEF first, last
  <2>3. QED
    BY <1>13, <2>1, <2>2
<1>15. ASSUME NEW i \in 1..Len(a)
       PROVE  a[i] \in {":", w} \/ \E j \in 1..k : a[i] = h[j]
  <2>1. i \in 1..k \/ i = k + 1 \/ i = k + 2
    BY <1>1, <1>5
  <2>2. QED
    BY <1>6, <1>7, <1>8, <2>1
<1>16. QED
  BY <1>4, <1>12, <1>14, <1>15 DEF a, k, s

AllTokens == STRING \cup Punctuation \cup DOMAIN PortOf

LEMMA HostFacts ==
    ASSUME NEW h \in Hosts
    PROVE  /\ h \in Seq(AllTokens) /\ h # <<>> /\ Len(h) \in Nat /\ 1 \in 1..Len(h)
           /\ \A i \in 1..Len(h) : h[i] \notin {"[", "]", "/x", "http://"}
           /\ Literal6(h) =>
                \E i, j \in 1..Len(h) : i # j /\ h[i] = ":" /\ h[j] = ":"
           /\ ~Literal6(h) => \A i \in 1..Len(h) : h[i] # ":"
<1>1. /\ h \in Seq(STRING) /\ h # <<>>
      /\ \A i \in DOMAIN h : h[i] \notin Punctuation \ {":"}
      /\ ~Literal6(h) => \A i \in DOMAIN h : h[i] # ":"
  BY TokensAssumption DEF Hosts
<1>2. DOMAIN h = 1..Len(h) /\ Len(h) \in Nat \ {0}
  BY <1>1, LenProperties, EmptySeq
<1>3. h \in Seq(AllTokens)
  <2>1. STRING \subseteq AllTokens
    BY DEF AllTokens
  <2>2. QED
    BY <1>1, <2>1, SeqMonotonic
<1>4. ASSUME Literal6(h)
      PROVE  \E i, j \in 1..Len(h) : i # j /\ h[i] = ":" /\ h[j] = ":"
  <2> DEFINE C == {i \in DOMAIN h : h[i] = ":"}
  <2>1. Cardinality(C) > 1
    BY <1>4 DEF Literal6
  <2>2. \A i \in C : i \in 1..Len(h) /\ h[i] = ":"
    BY <1>2
  <2> HIDE DEF C
  <2>3. C # {}
    BY <2>1, FS_EmptySet
  <2>4. PICK i \in C : TRUE
    BY <2>3
  <2>5. C # {i}
    BY <2>1, FS_Singleton
  <2>6. PICK j \in C : j # i
    BY <2>4, <2>5
  <2>7. QED
    BY <2>2, <2>4, <2>6
<1>5. \A i \in 1..Len(h) : h[i] \notin {"[", "]", "/x", "http://"}
  BY <1>1, <1>2 DEF Punctuation
<1>6. 1 \in 1..Len(h)
  BY <1>2
<1>7. QED
  BY <1>1, <1>2, <1>3, <1>4, <1>5, <1>6

LEMMA PortFacts ==
    /\ \A t \in Punctuation : t \in AllTokens /\ ~IsPort(t)
    /\ \A q \in Range(PortOf) :
        /\ q \in 0..LargestU16
        /\ PortToken(q) \in AllTokens /\ IsPort(PortToken(q))
        /\ PortOf[PortToken(q)] = q /\ PortToken(q) \notin Punctuation
    /\ \A w : IsPort(w) => PortOf[w] \in Range(PortOf)
    /\ NoPort \notin Range(PortOf)
<1>1. \A t \in Punctuation : t \in AllTokens /\ ~IsPort(t)
  BY TokensAssumption DEF AllTokens, IsPort
<1>2. ASSUME NEW q \in Range(PortOf)
      PROVE  /\ q \in 0..LargestU16
             /\ PortToken(q) \in AllTokens /\ IsPort(PortToken(q))
             /\ PortOf[PortToken(q)] = q /\ PortToken(q) \notin Punctuation
  <2>1. \E w \in DOMAIN PortOf : PortOf[w] = q
    BY DEF Range
  <2>2. PortToken(q) \in DOMAIN PortOf /\ PortOf[PortToken(q)] = q
    BY <2>1 DEF PortToken
  <2>3. QED
    BY <2>2, TokensAssumption DEF AllTokens, IsPort
<1>3. \A w : IsPort(w) => PortOf[w] \in Range(PortOf)
  BY DEF IsPort, Range
<1>4. NoPort \notin Range(PortOf)
  BY <1>2 DEF NoPort
<1>5. QED
  BY <1>1, <1>2, <1>3, <1>4

\* A host as it is written before a port or the end.
Authority(h, q, b) == [host |-> h, port |-> q, v6 |-> b]

LEMMA BracketedSplit ==
    ASSUME NEW h \in Hosts, NEW q \in Range(PortOf) \cup {NoPort}
    PROVE  LET a == <<"[">> \o h \o <<"]">>
                    \o (IF q = NoPort THEN <<>> ELSE <<":", PortToken(q)>>)
           IN  /\ a \in Seq(AllTokens) /\ a # <<>>
               /\ \A i \in 1..Len(a) : a[i] \notin {"http://", "/x"}
               /\ SplitAuthority(a) = Authority(h, q, TRUE)
<1> DEFINE s == IF q = NoPort THEN <<>> ELSE <<":", PortToken(q)>>
           a == <<"[">> \o h \o <<"]">> \o s
<1>1. /\ s \in Seq(AllTokens) /\ After(s) = q
      /\ \A i \in 1..Len(s) : s[i] \notin {"http://", "/x"}
  <2>1. CASE q = NoPort
    <3>1. s = <<>> /\ Len(s) = 0 /\ s \in Seq(AllTokens)
      BY <2>1
    <3> HIDE DEF s
    <3>2. QED
      BY <2>1, <3>1 DEF After
  <2>2. CASE q # NoPort
    <3> DEFINE w == PortToken(q)
    <3>1. /\ w \in AllTokens /\ ":" \in AllTokens /\ IsPort(w) /\ PortOf[w] = q
          /\ w \notin {"http://", "/x"}
      BY <2>2, PortFacts DEF Punctuation
    <3>2. s = <<":", w>>
      BY <2>2
    <3> HIDE DEF s, w
    <3>3. s \in Seq(AllTokens) /\ Len(s) = 2 /\ s[1] = ":" /\ s[2] = w
      BY <3>1, <3>2
    <3>4. QED
      BY <3>1, <3>3 DEF After
  <2>3. QED
    BY <2>1, <2>2
<1>2. "[" \in AllTokens /\ "]" \in AllTokens
  BY PortFacts DEF Punctuation
<1> HIDE DEF s
<1>3. /\ h \in Seq(AllTokens)
      /\ \A i \in 1..Len(h) : h[i] \notin {"[", "]", "/x", "http://"}
  BY HostFacts
<1>4. /\ a \in Seq(AllTokens) /\ a # <<>>
      /\ SplitAuthority(a) = [host |-> h, port |-> After(s), v6 |-> TRUE]
      /\ \A i \in 1..Len(a) : \/ a[i] \in {"[", "]"}
                              \/ \E j \in 1..Len(h) : a[i] = h[j]
                              \/ \E j \in 1..Len(s) : a[i] = s[j]
  <2>1. \A f, g \in Seq(AllTokens) : (\A i \in 1..Len(f) : f[i] # "]") =>
          LET x == <<"[">> \o f \o <<"]">> \o g
          IN  /\ x \in Seq(AllTokens) /\ x # <<>>
              /\ SplitAuthority(x) = [host |-> f, port |-> After(g), v6 |-> TRUE]
              /\ \A i \in 1..Len(x) : \/ x[i] \in {"[", "]"}
                                      \/ \E j \in 1..Len(f) : x[i] = f[j]
                                      \/ \E j \in 1..Len(g) : x[i] = g[j]
    BY <1>2, BracketsSplit
  <2>2. QED
    BY <1>1, <1>3, <2>1
<1> HIDE DEF a
<1>5. \A i \in 1..Len(a) : a[i] \notin {"http://", "/x"}
  BY <1>1, <1>3, <1>4
<1>6. QED
  BY <1>1, <1>4, <1>5 DEF Authority, a, s

LEMMA BareSplit ==
    ASSUME NEW h \in Hosts, ~Literal6(h), NEW q \in Range(PortOf) \cup {NoPort}
    PROVE  LET a == h \o (IF q = NoPort THEN <<>> ELSE <<":", PortToken(q)>>)
           IN  /\ a \in Seq(AllTokens) /\ a # <<>>
               /\ \A i \in 1..Len(a) : a[i] \notin {"http://", "/x"}
               /\ SplitAuthority(a) = Authority(h, q, FALSE)
<1>1. /\ h \in Seq(AllTokens) /\ h # <<>> /\ 1 \in 1..Len(h)
      /\ \A i \in 1..Len(h) : h[i] \notin {"[", "]", "/x", "http://"} /\ h[i] # ":"
  BY HostFacts
<1>2. CASE q = NoPort
  <2>1. h \o <<>> = h
    BY <1>1, ConcatEmptySeq
  <2>2. h[1] # "["
    BY <1>1
  <2>3. SplitAuthority(h) = Opaque(h)
    BY <1>1, <2>2, ColonsSplit
  <2>4. QED
    BY <1>1, <1>2, <2>1, <2>3 DEF Opaque, Authority
<1>3. CASE q # NoPort
  <2> DEFINE w == PortToken(q)
             a == h \o <<":", w>>
  <2>1. /\ w \in AllTokens /\ ":" \in AllTokens /\ IsPort(w) /\ PortOf[w] = q
        /\ w \notin {"http://", "/x"} /\ w # ":"
    BY <1>3, PortFacts DEF Punctuation
  <2> HIDE DEF w
  <2>2. h[1] # "["
    BY <1>1
  <2>3. /\ a \in Seq(AllTokens) /\ a # <<>>
        /\ SplitAuthority(a) = [host |-> h, port |-> PortOf[w], v6 |-> FALSE]
        /\ \A i \in 1..Len(a) : \/ a[i] \in {":", w}
                                \/ \E j \in 1..Len(h) : a[i] = h[j]
    BY <1>1, <2>1, <2>2, PortSplits
  <2> HIDE DEF a
  <2>4. \A i \in 1..Len(a) : a[i] \notin {"http://", "/x"}
    BY <1>1, <2>1, <2>3
  <2>5. a = h \o (IF q = NoPort THEN <<>> ELSE <<":", PortToken(q)>>)
    BY <1>3 DEF a, w
  <2>6. QED
    BY <2>1, <2>3, <2>4, <2>5 DEF Authority
<1>4. QED
  BY <1>2, <1>3

\* However a host and a port are written, they are read back.
LEMMA WritingsSplit ==
    ASSUME NEW h \in Hosts, NEW q \in Range(PortOf) \cup {NoPort},
           NEW a \in Writings(h, q)
    PROVE  /\ a \in Seq(AllTokens) /\ a # <<>>
           /\ \A i \in 1..Len(a) : a[i] \notin {"http://", "/x"}
           /\ \E b \in BOOLEAN : SplitAuthority(a) = Authority(h, q, b)
<1> DEFINE s == IF q = NoPort THEN <<>> ELSE <<":", PortToken(q)>>
<1>1. \/ q = NoPort /\ a \in {h, Bracketed(h)}
      \/ q # NoPort /\ a = Bracketed(h) \o <<":", PortToken(q)>>
  BY DEF Writings
<1>2. a = Bracketed(h) \o s \/ (q = NoPort /\ a = h)
  <2>1. CASE a = Bracketed(h) /\ q = NoPort
    <3>1. Bracketed(h) \in Seq(AllTokens)
      <4>1. h \in Seq(AllTokens) /\ "[" \in AllTokens /\ "]" \in AllTokens
        BY HostFacts, PortFacts DEF Punctuation
      <4>2. <<"[">> \o h \o <<"]">> \in Seq(AllTokens)
        BY <4>1
      <4>3. QED
        BY <4>1, <4>2 DEF Bracketed
    <3>2. Bracketed(h) \o <<>> = Bracketed(h)
      BY <3>1, ConcatEmptySeq
    <3>3. QED
      BY <2>1, <3>2
  <2>2. QED
    BY <1>1, <2>1
<1>3. CASE Literal6(h) /\ a = Bracketed(h) \o s
  <2>1. a = <<"[">> \o h \o <<"]">> \o s
    BY <1>3 DEF Bracketed
  <2>2. QED
    BY <2>1, BracketedSplit
<1>4. CASE ~Literal6(h)
  <2>1. a = h \o s
    <3>1. h \o <<>> = h
      BY HostFacts, ConcatEmptySeq
    <3>2. QED
      BY <1>2, <1>4, <3>1 DEF Bracketed
  <2>2. QED
    BY <1>4, <2>1, BareSplit
<1>5. CASE Literal6(h) /\ q = NoPort /\ a = h
  <2>1. /\ h \in Seq(AllTokens) /\ h # <<>> /\ 1 \in 1..Len(h)
        /\ \A i \in 1..Len(h) : h[i] \notin {"[", "]", "/x", "http://"}
        /\ \E i, j \in 1..Len(h) : i # j /\ h[i] = ":" /\ h[j] = ":"
    BY <1>5, HostFacts
  <2>2. h[1] # "["
    BY <2>1
  <2>3. SplitAuthority(h) = [host |-> h, port |-> NoPort, v6 |-> TRUE]
    BY <2>1, <2>2, ColonsSplit
  <2>4. QED
    BY <1>5, <2>1, <2>3 DEF Authority
<1>6. QED
  BY <1>2, <1>3, <1>4, <1>5

\* What has been read as a host has no colon but in a literal.
LEMMA HostsSplit ==
    ASSUME NEW a \in Seq(AllTokens), NEW h \in Hosts, SplitAuthority(a).host = h
    PROVE  \E q \in Range(PortOf) \cup {NoPort}, b \in BOOLEAN :
              SplitAuthority(a) = Authority(h, q, b) /\ (~b => ~Literal6(h))
<1> DEFINE close == FirstAt(a, "]")
           first == FirstAt(a, ":")
           last == LastAt(a, ":")
           bracket == a # <<>> /\ a[1] = "["
           port == first > 0 /\ last = Len(a) - 1 /\ IsPort(a[Len(a)])
<1>1. Len(a) \in Nat
  BY LenProperties
<1>2. /\ \/ first = 0 /\ last = 0 /\ \A j \in 1..Len(a) : a[j] # ":"
         \/ first \in 1..Len(a) /\ a[first] = ":" /\ last \in 1..Len(a) /\ a[last] = ":"
      /\ \A j \in 1..Len(a) : a[j] = ":" => first <= j /\ j <= last
  BY FirstAndLast
<1>3. /\ bracket /\ close # 0 => SplitAuthority(a) =
            [host |-> SubSeq(a, 2, close - 1),
             port |-> After(SubSeq(a, close + 1, Len(a))), v6 |-> TRUE]
      /\ bracket /\ close = 0 => SplitAuthority(a) = Opaque(a)
      /\ ~bracket /\ first # last => SplitAuthority(a) =
            [host |-> a, port |-> NoPort, v6 |-> TRUE]
      /\ ~bracket /\ first = last /\ port => SplitAuthority(a) =
            [host |-> SubSeq(a, 1, last - 1), port |-> PortOf[a[Len(a)]],
             v6 |-> FALSE]
      /\ ~bracket /\ first = last /\ ~port => SplitAuthority(a) = Opaque(a)
  BY SplitIs
<1>4. \A s : After(s) \in Range(PortOf) \cup {NoPort}
  BY PortFacts DEF After
<1>5. /\ h # <<>> /\ 1 \in 1..Len(h) /\ h[1] # "["
      /\ Literal6(h) => \E i, j \in 1..Len(h) : i # j /\ h[i] = ":" /\ h[j] = ":"
  BY HostFacts
<1> HIDE DEF close, first, last
<1>6. CASE bracket /\ close # 0
  <2>1. SplitAuthority(a) = Authority(h, After(SubSeq(a, close + 1, Len(a))), TRUE)
    BY <1>3, <1>6 DEF Authority
  <2>2. QED
    BY <1>4, <2>1
<1>7. CASE bracket /\ close = 0
  BY <1>3, <1>5, <1>7 DEF Opaque
<1>8. CASE ~bracket /\ first # last
  <2>1. SplitAuthority(a) = Authority(h, NoPort, TRUE)
    BY <1>3, <1>8 DEF Authority
  <2>2. QED
    BY <2>1
<1>9. ASSUME first = last, NEW i \in 1..Len(a), NEW j \in 1..Len(a), i # j,
             a[i] = ":", a[j] = ":"
      PROVE  FALSE
  <2>1. first <= i /\ i <= last /\ first <= j /\ j <= last
    BY <1>2, <1>9
  <2>2. first \in Int
    BY <1>1, <1>2
  <2>3. QED
    BY <1>9, <2>1, <2>2
<1>10. CASE ~bracket /\ first = last /\ port
  <2>1. /\ SplitAuthority(a) = Authority(h, PortOf[a[Len(a)]], FALSE)
        /\ h = SubSeq(a, 1, last - 1)
    BY <1>3, <1>10 DEF Authority
  <2>2. last \in 1..Len(a) /\ last - 1 \in Int
    BY <1>1, <1>2, <1>10
  <2>3. \A i \in 1..(last - 1) : i \in 1..Len(a) /\ a[i] \in AllTokens
    <3>1. \A i \in 1..Len(a) : a[i] \in AllTokens
      BY ElementOfSeq
    <3>2. QED
      BY <1>1, <2>2, <3>1
  <2>4. /\ Len(h) = IF 1 <= last - 1 THEN (last - 1) - 1 + 1 ELSE 0
        /\ \A i \in 1..((last - 1) - 1 + 1) : h[i] = a[1 + i - 1]
    BY <2>1, <2>2, <2>3, SubSeqProperties
  <2>5. \A i \in 1..Len(h) : i \in 1..Len(a) /\ h[i] = a[i]
    <3> SUFFICES ASSUME NEW i \in 1..Len(h) PROVE i \in 1..Len(a) /\ h[i] = a[i]
      OBVIOUS
    <3>1. i \in 1..((last - 1) - 1 + 1) /\ 1 + i - 1 = i /\ i \in 1..(last - 1)
      BY <2>2, <2>4
    <3>2. QED
      BY <2>3, <2>4, <3>1
  <2>6. ~Literal6(h)
    BY <1>5, <1>9, <1>10, <2>5
  <2>7. PortOf[a[Len(a)]] \in Range(PortOf)
    BY <1>10, PortFacts
  <2>8. QED
    BY <2>1, <2>6, <2>7
<1>11. CASE ~bracket /\ first = last /\ ~port
  <2>1. a = h /\ SplitAuthority(a) = Authority(h, NoPort, FALSE)
    BY <1>3, <1>11 DEF Opaque, Authority
  <2>2. ~Literal6(h)
    BY <1>5, <1>9, <1>11, <2>1
  <2>3. QED
    BY <2>1, <2>2
<1>12. QED
  BY <1>6, <1>7, <1>8, <1>10, <1>11

\* The Host header says the same.
LEMMA HeaderSplit ==
    ASSUME NEW h \in Hosts, NEW q \in Range(PortOf) \cup {NoPort}, NEW b \in BOOLEAN,
           ~b => ~Literal6(h)
    PROVE  SplitAuthority(HeaderHost(Authority(h, q, b))).host = h
<1> DEFINE s == IF q = NoPort THEN <<>> ELSE <<":", PortToken(q)>>
           auth == Authority(h, q, b)
<1>1. auth.host = h /\ auth.port = q /\ auth.v6 = b
  BY DEF Authority
<1>2. HeaderHost(auth) = (IF b THEN <<"[">> \o h \o <<"]">> ELSE h) \o s
  BY <1>1, Zenon DEF HeaderHost
<1> HIDE DEF auth
<1>3. CASE b
  <2>1. HeaderHost(auth) = <<"[">> \o h \o <<"]">> \o s
    BY <1>2, <1>3
  <2>2. SplitAuthority(HeaderHost(auth)) = Authority(h, q, TRUE)
    BY <2>1, BracketedSplit
  <2>3. QED
    BY <2>2 DEF auth, Authority
<1>4. CASE ~b
  <2>1. HeaderHost(auth) = h \o s
    BY <1>2, <1>4
  <2>2. SplitAuthority(HeaderHost(auth)) = Authority(h, q, FALSE)
    BY <1>4, <2>1, BareSplit
  <2>3. QED
    BY <2>2 DEF auth, Authority
<1>5. QED
  BY <1>3, <1>4

LEMMA Renumbered ==
    ASSUME NEW h, NEW q, NEW b, NEW n
    PROVE  [Authority(h, q, b) EXCEPT !.port = n] = Authority(h, n, b)
<1> DEFINE e == [Authority(h, q, b) EXCEPT !.port = n]
<1>1. Authority(h, q, b) \in [host : {h}, port : {q, n}, v6 : {b}]
  BY DEF Authority
<1>2. e \in [host : {h}, port : {q, n}, v6 : {b}] /\ e.port = n
  BY <1>1
<1> HIDE DEF e
<1>3. e = Authority(h, n, b)
  BY <1>2 DEF Authority
<1>4. QED
  BY <1>3 DEF e

\* What is read of a target: without the scheme, up to the path.
Rest(target) ==
    IF target # <<>> /\ target[1] = "http://" THEN Tail(target) ELSE target
Named(target) ==
    IF target # <<>> /\ target[1] = "http://" /\ FirstAt(Rest(target), "/x") > 0
    THEN SubSeq(Rest(target), 1, FirstAt(Rest(target), "/x") - 1) ELSE Rest(target)

LEMMA RequestReads ==
    ASSUME NEW target, NEW own \in 1..LargestU16, NEW path,
           NEW h, NEW q, NEW b, SplitAuthority(Named(target)) = Authority(h, q, b)
    PROVE  LET url == target # <<>> /\ target[1] = "http://"
               n == IF ~url /\ q = NoPort /\ own # 80 THEN own ELSE q
               asked == PlainRequest(target, own, path)
           IN  /\ asked.host = h /\ asked.header = HeaderHost(Authority(h, n, b))
               /\ asked.port = IF n = NoPort THEN 80 ELSE n
<1> DEFINE url == target # <<>> /\ target[1] = "http://"
           rest == IF url THEN Tail(target) ELSE target
           slash == SelectInSeq(rest, LAMBDA w : w = "/x")
           auth == SplitAuthority(IF url /\ slash > 0
                                  THEN SubSeq(rest, 1, slash - 1) ELSE rest)
           named == IF ~url /\ auth.port = NoPort /\ own # 80
                       /\ own > 0 /\ own <= LargestU16
                    THEN [auth EXCEPT !.port = own] ELSE auth
           n == IF ~url /\ q = NoPort /\ own # 80 THEN own ELSE q
           asked == PlainRequest(target, own, path)
<1>1. slash = FirstAt(rest, "/x")
  BY DEF SelectInSeq, FirstAt, Places
<1>2. auth = Authority(h, q, b)
  BY <1>1 DEF Named, Rest
<1>3. /\ asked.host = named.host /\ asked.header = HeaderHost(named)
      /\ asked.port = IF named.port = NoPort THEN 80 ELSE named.port
  BY DEF PlainRequest
<1> HIDE DEF auth, rest, slash, asked
<1>4. auth.port = q
  BY <1>2 DEF Authority
<1>5. own > 0 /\ own <= LargestU16
  BY DEF LargestU16
<1>6. named = Authority(h, n, b)
  <2>1. [auth EXCEPT !.port = own] = Authority(h, own, b)
    BY <1>2, Renumbered
  <2>2. named = IF ~url /\ q = NoPort /\ own # 80
                THEN [auth EXCEPT !.port = own] ELSE auth
    BY <1>4, <1>5
  <2> HIDE DEF named, url
  <2>3. CASE ~url /\ q = NoPort /\ own # 80
    <3>1. named = [auth EXCEPT !.port = own] /\ n = own
      BY <2>2, <2>3
    <3> HIDE DEF n
    <3>2. QED
      BY <2>1, <3>1
  <2>4. CASE ~(~url /\ q = NoPort /\ own # 80)
    <3>1. named = auth /\ n = q
      BY <2>2, <2>4
    <3> HIDE DEF n
    <3>2. QED
      BY <1>2, <3>1
  <2>5. QED
    BY <2>3, <2>4
<1> HIDE DEF named, n
<1>7. named.host = h /\ named.port = n
  BY <1>6 DEF Authority
<1>8. /\ asked.host = h /\ asked.header = HeaderHost(Authority(h, n, b))
      /\ asked.port = IF n = NoPort THEN 80 ELSE n
  BY <1>3, <1>6, <1>7, Zenon
<1>9. QED
  BY <1>8 DEF n, asked

LEMMA NamedIsRead ==
    ASSUME NEW target \in Seq(AllTokens) PROVE Named(target) \in Seq(AllTokens)
<1> DEFINE rest == Rest(target)
           slash == FirstAt(rest, "/x")
<1>1. rest \in Seq(AllTokens)
  BY HeadTailProperties DEF Rest
<1> HIDE DEF rest
<1>2. Len(rest) \in Nat /\ (slash = 0 \/ slash \in 1..Len(rest))
  BY <1>1, FirstAndLast, LenProperties
<1> HIDE DEF slash
<1>3. slash > 0 => SubSeq(rest, 1, slash - 1) \in Seq(AllTokens)
  <2> SUFFICES ASSUME slash > 0 PROVE SubSeq(rest, 1, slash - 1) \in Seq(AllTokens)
    OBVIOUS
  <2>1. slash \in 1..Len(rest) /\ slash - 1 \in Int
    BY <1>2
  <2>2. \A i \in 1..(slash - 1) : rest[i] \in AllTokens
    <3>1. \A i \in 1..Len(rest) : rest[i] \in AllTokens
      BY <1>1, ElementOfSeq
    <3>2. QED
      BY <1>2, <2>1, <3>1
  <2>3. QED
    BY <2>1, <2>2, SubSeqProperties
<1>4. QED
  BY <1>1, <1>3 DEF Named, rest, slash

LEMMA PrefixedNames ==
    ASSUME NEW a \in Seq(AllTokens), a # <<>>,
           \A i \in 1..Len(a) : a[i] \notin {"http://", "/x"}
    PROVE  /\ Named(a) = a /\ ~(a[1] = "http://")
           /\ \A t \in {<<"http://">> \o a, <<"http://">> \o a \o <<"/x">>} :
                t # <<>> /\ t[1] = "http://" /\ Named(t) = a
<1>1. Len(a) \in Nat /\ 1 \in 1..Len(a) /\ ~(a[1] = "http://")
  BY LenProperties, EmptySeq
<1>2. "http://" \in AllTokens /\ "/x" \in AllTokens
  BY PortFacts DEF Punctuation
<1>3. Named(a) = a
  BY <1>1 DEF Named, Rest
<1>4. \A r \in Seq(AllTokens) :
        LET t == <<"http://">> \o r IN t # <<>> /\ t[1] = "http://" /\ Rest(t) = r
  <2> SUFFICES ASSUME NEW r \in Seq(AllTokens)
               PROVE  LET t == <<"http://">> \o r
                      IN  t # <<>> /\ t[1] = "http://" /\ Rest(t) = r
    OBVIOUS
  <2> DEFINE u == <<"http://">>
             t == u \o r
  <2>1. u \in Seq(AllTokens) /\ Len(u) = 1 /\ u[1] = "http://" /\ Len(r) \in Nat
    BY <1>2, LenProperties
  <2> HIDE DEF u
  <2>2. /\ t \in Seq(AllTokens) /\ Len(t) = Len(u) + Len(r)
        /\ \A i \in 1..Len(u) + Len(r) :
              t[i] = IF i <= Len(u) THEN u[i] ELSE r[i - Len(u)]
    <3>1. \A f, g \in Seq(AllTokens) :
            /\ f \o g \in Seq(AllTokens) /\ Len(f \o g) = Len(f) + Len(g)
            /\ \A i \in 1..Len(f) + Len(g) :
                  (f \o g)[i] = IF i <= Len(f) THEN f[i] ELSE g[i - Len(f)]
      BY ConcatProperties
    <3>2. QED
      BY <2>1, <3>1
  <2> HIDE DEF t
  <2>3. /\ Len(t) = 1 + Len(r) /\ t[1] = "http://"
        /\ \A i \in 1..Len(r) : t[1 + i] = r[i]
    <3>1. Len(t) = 1 + Len(r) /\ t[1] = "http://"
      BY <2>1, <2>2
    <3>2. ASSUME NEW i \in 1..Len(r) PROVE t[1 + i] = r[i]
      <4>1. 1 + i \in 1..Len(u) + Len(r) /\ ~(1 + i <= Len(u)) /\ (1 + i) - Len(u) = i
        BY <2>1
      <4>2. QED
        BY <2>2, <4>1
    <3>3. QED
      BY <3>1, <3>2
  <2>4. t # <<>>
    BY <2>1, <2>3
  <2>5. Tail(t) = r
    <3>1. SubSeq(t, 1 + 1, 1 + Len(r)) = r
      <4>1. \A f : (\A i \in 1..Len(r) : f[1 + i] = r[i]) =>
              SubSeq(f, 1 + 1, 1 + Len(r)) = r
        BY PieceIs
      <4>2. QED
        BY <2>3, <4>1
    <3>2. 1 + 1 = 2 /\ 1 + Len(r) = Len(t)
      BY <2>3
    <3>3. Tail(t) = SubSeq(t, 2, Len(t))
      BY <2>2, <2>4, TailIsSubSeq
    <3>4. QED
      BY <3>1, <3>2, <3>3
  <2>6. Rest(t) = r
    BY <2>3, <2>4, <2>5 DEF Rest
  <2>7. QED
    BY <2>3, <2>4, <2>6 DEF t, u
<1>5. FirstAt(a, "/x") = 0
  <2>1. \A j \in 1..Len(a) : a[j] # "/x"
    OBVIOUS
  <2>2. FirstAt(a, "/x") = 0 \/ /\ FirstAt(a, "/x") \in 1..Len(a)
                                /\ a[FirstAt(a, "/x")] = "/x"
    BY FirstAndLast
  <2>3. QED
    BY <2>1, <2>2
<1> DEFINE s == <<"/x">>
           r == a \o s
           slash == FirstAt(r, "/x")
<1>6. s \in Seq(AllTokens) /\ Len(s) = 1 /\ s[1] = "/x"
  BY <1>2
<1>7. SubSeq(r, 1, slash - 1) = a /\ slash > 0 /\ r \in Seq(AllTokens)
  <2> HIDE DEF s
  <2>1. /\ r \in Seq(AllTokens) /\ Len(r) = Len(a) + Len(s)
        /\ \A i \in 1..Len(a) + Len(s) :
              r[i] = IF i <= Len(a) THEN a[i] ELSE s[i - Len(a)]
    <3>1. \A f, g \in Seq(AllTokens) :
            /\ f \o g \in Seq(AllTokens) /\ Len(f \o g) = Len(f) + Len(g)
            /\ \A i \in 1..Len(f) + Len(g) :
                  (f \o g)[i] = IF i <= Len(f) THEN f[i] ELSE g[i - Len(f)]
      BY ConcatProperties
    <3>2. QED
      BY <1>6, <3>1
  <2> HIDE DEF r
  <2>2. /\ Len(r) = Len(a) + 1 /\ \A i \in 1..Len(a) : r[i] = a[i]
        /\ Len(a) + 1 \in 1..Len(r)
    BY <1>1, <1>6, <2>1
  <2>3. r[Len(a) + 1] = "/x"
    <3>1. /\ Len(a) + 1 \in 1..Len(a) + Len(s) /\ ~(Len(a) + 1 <= Len(a))
          /\ (Len(a) + 1) - Len(a) = 1
      BY <1>1, <1>6
    <3>2. QED
      BY <1>6, <2>1, <3>1
  <2>4. /\ \/ slash = 0 /\ \A j \in 1..Len(r) : r[j] # "/x"
           \/ slash \in 1..Len(r) /\ r[slash] = "/x"
        /\ \A j \in 1..Len(r) : r[j] = "/x" => slash <= j
    BY <2>1, FirstAndLast
  <2> HIDE DEF slash
  <2>5. slash = Len(a) + 1
    <3>1. slash \in 1..Len(r) /\ r[slash] = "/x" /\ slash <= Len(a) + 1
      BY <2>2, <2>3, <2>4
    <3>2. ~(slash \in 1..Len(a))
      BY <2>2, <3>1
    <3>3. QED
      BY <1>1, <2>2, <3>1, <3>2
  <2>6. SubSeq(r, 0 + 1, 0 + Len(a)) = a
    <3>1. \A i \in 1..Len(a) : r[0 + i] = a[i]
      BY <1>1, <2>2
    <3>2. QED
      BY <3>1, PieceIs
  <2>7. 0 + 1 = 1 /\ 0 + Len(a) = slash - 1 /\ slash > 0
    BY <1>1, <2>5
  <2>8. QED
    BY <2>1, <2>6, <2>7
<1>8. <<"http://">> \o a \o s = <<"http://">> \o r
  <2>1. <<"http://">> \in Seq(AllTokens)
    BY <1>2
  <2>2. QED
    BY <1>6, <2>1, ConcatAssociative
<1> HIDE DEF r, s
<1>9. ASSUME NEW t, t = <<"http://">> \o a \/ t = <<"http://">> \o r
      PROVE  t # <<>> /\ t[1] = "http://" /\ Named(t) = a
  <2>1. CASE t = <<"http://">> \o a
    <3>1. t # <<>> /\ t[1] = "http://" /\ Rest(t) = a
      BY <1>4, <2>1
    <3>2. QED
      BY <1>5, <3>1 DEF Named
  <2>2. CASE t = <<"http://">> \o r
    <3>1. t # <<>> /\ t[1] = "http://" /\ Rest(t) = r
      BY <1>4, <1>7, <2>2
    <3>2. QED
      BY <1>7, <3>1 DEF Named
  <2>3. QED
    BY <1>9, <2>1, <2>2
<1>10. QED
  BY <1>1, <1>3, <1>8, <1>9 DEF s

\* The port a transport has of its own is the one of the file, and has a token.
LEMMA FilledPort ==
    ASSUME NEW kind, NEW raw \in TransportConfig, NEW def \in ProbeDefaults
    PROVE  LET t == FilledTransport(kind, raw, def)
           IN  /\ t.probe.port = Or(raw.probe.port, 22)
               /\ t.probe.method = "http" => raw.probe.method = "http"
<1> DEFINE q == FilledProbe(raw.probe, def)
           probed == [raw EXCEPT !.probe = FilledProbe(@, def)]
           t == IF kind = "peer" /\ probed.probe.target = <<>>
                THEN [probed EXCEPT !.probe.target = raw.address] ELSE probed
           u == Identified(t)
<1>1. /\ q.port = Or(raw.probe.port, 22)
      /\ q.method = "http" => raw.probe.method = "http"
  BY DEF FilledProbe, OrText, TransportConfig, ProbeConfig
<1>2. probed.probe = q
  BY DEF TransportConfig
<1>3. t.probe.port = q.port /\ t.probe.method = q.method
  BY DEF TransportConfig, ProbeConfig, FilledProbe
<1> HIDE DEF t
<1>4. u.probe = t.probe
  BY DEF Identified
<1>5. FilledTransport(kind, raw, def) = u
  BY DEF FilledTransport, t
<1> HIDE DEF q, u
<1>6. QED
  BY <1>1, <1>3, <1>4, <1>5

LEMMA PortsHaveTokens ==
    ASSUME NEW c \in Loaded, NEW w \in Workers(c), Transport(c, w).probe.method = "http"
    PROVE  /\ Transport(c, w).probe.port \in 1..LargestU16
           /\ Transport(c, w).probe.port \in Range(PortOf)
<1>1. PICK raw \in Configs : c = ApplyDefaults(raw)
  BY DEF Loaded
<1> DEFINE def == Filled(raw.defaults, BuiltIn)
           port == Transport(c, w).probe.port
<1>2. Parsed(raw) /\ def \in ProbeDefaults
  BY FilledDefaults, WorldAssumption, ConfigurationAssumption DEF Parsed
<1>3. \E kind, t :
        /\ t \in TransportConfig /\ Transport(c, w) = FilledTransport(kind, t, def)
        /\ t.probe.method = "http" /\ Or(t.probe.port, 22) \in 1..LastPort =>
              Or(t.probe.port, 22) \in Range(PortOf)
  <2>1. \/ /\ w[1] = "peer" /\ w[2] \in DOMAIN c.peers
           /\ w[3] \in DOMAIN c.peers[w[2]].transports
           /\ Transport(c, w) = c.peers[w[2]].transports[w[3]]
        \/ /\ w[1] = "uplink" /\ w[2] \in DOMAIN c.uplinks
           /\ w[3] \in DOMAIN c.uplinks[w[2]].transports
           /\ Transport(c, w) = c.uplinks[w[2]].transports[w[3]]
    BY WorkersAreLoaded
  <2>2. CASE /\ w[1] = "peer" /\ w[2] \in DOMAIN c.peers
             /\ w[3] \in DOMAIN c.peers[w[2]].transports
             /\ Transport(c, w) = c.peers[w[2]].transports[w[3]]
    <3> DEFINE n == w[2]
               i == w[3]
               t == raw.peers[n].transports[i]
    <3>1. n \in DOMAIN raw.peers /\ raw.peers[n] \in PeerConfig
      BY <1>1, <1>2, <2>2 DEF ApplyDefaults, Parsed
    <3>2. c.peers[n].transports = FilledTransports("peer", raw.peers[n].transports, def)
      BY <1>1, <3>1 DEF ApplyDefaults, PeerConfig
    <3>3. /\ i \in DOMAIN raw.peers[n].transports /\ t \in TransportConfig
          /\ Transport(c, w) = FilledTransport("peer", t, def)
      BY <2>2, <3>1, <3>2 DEF FilledTransports, PeerConfig
    <3>4. t.probe.method = "http" /\ Or(t.probe.port, 22) \in 1..LastPort =>
              Or(t.probe.port, 22) \in Range(PortOf)
      BY <3>1, <3>3, TokensAssumption
    <3>5. QED
      BY <3>3, <3>4
  <2>3. CASE /\ w[1] = "uplink" /\ w[2] \in DOMAIN c.uplinks
             /\ w[3] \in DOMAIN c.uplinks[w[2]].transports
             /\ Transport(c, w) = c.uplinks[w[2]].transports[w[3]]
    <3> DEFINE n == w[2]
               i == w[3]
               t == raw.uplinks[n].transports[i]
    <3>1. n \in DOMAIN raw.uplinks /\ raw.uplinks[n] \in UplinkConfig
      BY <1>1, <1>2, <2>3 DEF ApplyDefaults, Parsed
    <3>2. c.uplinks[n].transports =
              FilledTransports("uplink", raw.uplinks[n].transports, def)
      BY <1>1, <3>1 DEF ApplyDefaults, UplinkConfig
    <3>3. /\ i \in DOMAIN raw.uplinks[n].transports /\ t \in TransportConfig
          /\ Transport(c, w) = FilledTransport("uplink", t, def)
      BY <2>3, <3>1, <3>2 DEF FilledTransports, UplinkConfig
    <3>4. t.probe.method = "http" /\ Or(t.probe.port, 22) \in 1..LastPort =>
              Or(t.probe.port, 22) \in Range(PortOf)
      BY <3>1, <3>3, TokensAssumption
    <3>5. QED
      BY <3>3, <3>4
  <2>4. QED
    BY <2>1, <2>2, <2>3
<1> HIDE DEF def
<1>4. PICK kind, t :
        /\ t \in TransportConfig /\ Transport(c, w) = FilledTransport(kind, t, def)
        /\ t.probe.method = "http" /\ Or(t.probe.port, 22) \in 1..LastPort =>
              Or(t.probe.port, 22) \in Range(PortOf)
  BY <1>3
<1>5. port = Or(t.probe.port, 22) /\ t.probe.method = "http" /\ port \in Int
  <2>1. port = Or(t.probe.port, 22) /\ t.probe.method = "http"
    BY <1>2, <1>4, FilledPort
  <2>2. t.probe.port \in Int
    BY <1>4 DEF TransportConfig, ProbeConfig
  <2>3. QED
    BY <2>1, <2>2 DEF Or
<1>6. ValidProbe(Transport(c, w).probe)
  BY WorkersAreLoaded DEF Valid, ValidPeer, ValidUplink
<1>7. port > 0 /\ port <= LastPort
  BY <1>6 DEF ValidProbe
<1> HIDE DEF port
<1>8. port \in 1..LastPort /\ port \in 1..LargestU16
  <2>1. port \in Int
    BY <1>5
  <2>2. LastPort = LargestU16 /\ LastPort \in Int
    BY DEF LastPort, LargestU16
  <2>3. QED
    BY <1>7, <2>1, <2>2
<1>9. QED
  BY <1>4, <1>5, <1>8 DEF port

-----------------------------------------------------------------------------
(* The theorems. *)

\* What a verdict of exec_probe, icmp_probe or http_probe rests on: the exit
\* of the helper itself, the reply to this very request, a status that was
\* read to its end.
THEOREM HealthIsEarned == Spec => []HealthyIsEarned
<1>1. Typed /\ Owned /\ Heard => HealthyIsEarned
  <2> SUFFICES ASSUME Typed, Owned, Heard, NEW w \in DOMAIN p,
                      p[w].at = "judged", p[w].healthy
               PROVE  /\ Method(w) = "icmp" => Echo(w) \in answered
                      /\ Method(w) = "exec" =>
                            /\ env[w].child = "exit 0" /\ ~p[w].late
                            /\ p[w].address \in {<<>>} \cup Literals
                      /\ Method(w) = "http" =>
                            /\ ~IsHttps(EffectiveTarget(Tr(w)))
                            /\ ~p[w].late => Code(env[w].status) < 400
    BY DEF HealthyIsEarned
  <2>1. w \in Workers(cfg)
    BY DEF Typed
  <2>2. Method(w) = "icmp" => Echo(w) \in answered
    BY <2>1 DEF Heard
  <2>3. QED
    BY <2>1, <2>2, WorkerFacts DEF Own, Course, Evidence
<1>2. QED
  BY <1>1, ProbesInv, PTL

\* subprocess::run: on every way out nothing of the helper's group runs, and
\* the next helper finds none of the last one's.
THEOREM NoneIsOrphaned == Spec => []NoOrphans
<1>1. Typed /\ Owned => NoOrphans
  <2> SUFFICES ASSUME Typed, Owned, NEW w \in DOMAIN p,
                      p[w].at \in {"idle", "done", "judged"}
               PROVE  env[w].child # "runs" /\ "in group" \notin env[w].kids
    BY DEF NoOrphans
  <2>1. w \in Workers(cfg)
    BY DEF Typed
  <2>2. QED
    BY <2>1, WorkerFacts DEF Own, Tended
<1>2. QED
  BY <1>1, ProbesInv, PTL

\* However many addresses, strangers' replies, pieces of an answer and looks
\* at a helper there are, a probe of any method is over in the time stated,
\* and a read never gets the limit 0, which would be none.
THEOREM ProbesEndInTime == Spec => []EndsInTime
<1>1. Typed /\ Owned => EndsInTime
  <2> SUFFICES ASSUME Typed, Owned, NEW w \in DOMAIN p
               PROVE  LET dialled == IF SlowestName > Timeout(w) THEN SlowestName
                                     ELSE Timeout(w)
                      IN  /\ Method(w) = "icmp" => p[w].spent <= Timeout(w)
                          /\ Method(w) = "tcp" => p[w].spent <= dialled
                          /\ Method(w) = "http" =>
                                p[w].spent <= dialled + Full * Timeout(w)
                          /\ Method(w) = "exec" => p[w].spent < Timeout(w) + Nap
                          /\ p[w].at = "read" => p[w].window > 0
    BY DEF EndsInTime
  <2>1. w \in Workers(cfg)
    BY DEF Typed
  <2>2. Within(Tr(w), p[w].spent) /\ (p[w].at = "read" => p[w].window > 0)
    BY <2>1, WorkerFacts DEF Own, Budget
  <2>3. ASSUME NEW t, NEW n, Within(t, n)
        PROVE  LET limit == t.probe.pace.timeout
                   dialled == IF SlowestName > limit THEN SlowestName ELSE limit
               IN  /\ t.probe.method = "icmp" => n <= limit
                   /\ t.probe.method = "tcp" => n <= dialled
                   /\ t.probe.method = "http" => n <= dialled + Full * limit
                   /\ t.probe.method = "exec" => n < limit + Nap
    BY <2>3, Zenon DEF Within, Dialled, Reads
  <2>4. QED
    BY <2>2, <2>3, Zenon DEF Method, Timeout
<1>2. QED
  BY <1>1, ProbesInv, PTL

\* config.rs refuses what the workers could not run with, whatever is in the
\* file: an interval, a timeout or a number of rounds that is 0 or below, two
\* transports of one identity, a hostname of two peers, a route metric that
\* cannot tell transports apart.
THEOREM LoadedIsUsable == Spec => []AcceptedIsUsable
<1>1. Typed /\ Owned => AcceptedIsUsable
  <2> SUFFICES ASSUME Typed, Owned, Valid(cfg) PROVE AcceptedIsUsable
    BY DEF AcceptedIsUsable
  <2>1. ASSUME NEW w \in DOMAIN p
        PROVE  /\ Tr(w).probe.pace.interval > 0 /\ Tr(w).probe.pace.timeout > 0
               /\ Tr(w).probe.pace.up > 0 /\ Tr(w).probe.pace.down > 0
               /\ p[w].error => \/ Tr(w).probe.exec \in {" ", "'helper"}
                                \/ w[1] = "peer" /\ Tr(w).address = <<>>
    <3>1. w \in Workers(cfg) /\ cfg \in Loaded
      BY DEF Typed
    <3>2. Blamed(w[1], Tr(w), p[w])
      BY <3>1, WorkerFacts DEF Own
    <3> DEFINE pace == Tr(w).probe.pace
    <3>3. pace.timeout \in Nat \ {0} /\ pace.interval > 0 /\ pace.up > 0 /\ pace.down > 0
      BY <3>1, ProbesAreValid DEF Tr
    <3> HIDE DEF pace
    <3>4. pace.timeout > 0
      BY <3>3
    <3>5. QED
      BY <3>2, <3>3, <3>4 DEF Blamed, pace
  <2>2. ASSUME NEW w \in DOMAIN p, NEW v \in DOMAIN p,
               v[1] = w[1], v[2] = w[2], Tr(v).id = Tr(w).id
        PROVE  v = w
    <3>1. w \in Workers(cfg) /\ v \in Workers(cfg) /\ cfg \in Loaded
      BY DEF Typed
    <3>2. /\ w = <<w[1], w[2], w[3]>> /\ v = <<v[1], v[2], v[3]>>
          /\ \/ /\ w[2] \in DOMAIN cfg.peers
                /\ w[3] \in DOMAIN cfg.peers[w[2]].transports
                /\ v[3] \in DOMAIN cfg.peers[w[2]].transports
                /\ Tr(w) = cfg.peers[w[2]].transports[w[3]]
                /\ Tr(v) = cfg.peers[w[2]].transports[v[3]]
             \/ /\ w[2] \in DOMAIN cfg.uplinks
                /\ w[3] \in DOMAIN cfg.uplinks[w[2]].transports
                /\ v[3] \in DOMAIN cfg.uplinks[w[2]].transports
                /\ Tr(w) = cfg.uplinks[w[2]].transports[w[3]]
                /\ Tr(v) = cfg.uplinks[w[2]].transports[v[3]]
      BY <2>2, <3>1, WorkersAreLoaded DEF Tr
    <3>3. /\ \A n \in DOMAIN cfg.peers : ValidIds(cfg.peers[n].transports)
          /\ \A n \in DOMAIN cfg.uplinks : ValidIds(cfg.uplinks[n].transports)
      BY DEF Valid, ValidPeer, ValidUplink
    <3>4. ASSUME NEW ts, ValidIds(ts), NEW i \in DOMAIN ts, NEW j \in DOMAIN ts,
                 ts[i].id = ts[j].id
          PROVE  i = j
      BY <3>4 DEF ValidIds
    <3>5. v[3] = w[3]
      BY <2>2, <3>2, <3>3, <3>4
    <3>6. QED
      BY <2>2, <3>2, <3>5
  <2>3. \A n \in DOMAIN cfg.uplinks :
          cfg.uplinks[n].routeMetric => cfg.uplinks[n].step > 0
    BY DEF Valid, ValidUplink
  <2>4. \A n, m \in DOMAIN cfg.peers :
          Range(cfg.peers[n].hostnames) \cap Range(cfg.peers[m].hostnames) # {}
            => n = m
    BY DEF Valid, Disjoint, Range
  <2>5. QED
    BY <2>1, <2>2, <2>3, <2>4 DEF AcceptedIsUsable
<1>2. QED
  BY <1>1, ProbesInv, PTL

\* plain_request, split_authority and Authority::header: the resolver is asked
\* for the host that the target names and the server for its port, with or
\* without a scheme, a path, brackets and a port, and the Host header is read
\* back as that host, whatever hosts, literals and ports there are.
THEOREM AsksTheNamed == Spec => []AsksWhoIsNamed
<1> DEFINE Asks(target, asked, own) ==
             \A h \in Hosts, port \in Range(PortOf) \cup {NoPort} :
                \A a \in Writings(h, port) :
                  /\ target = a =>
                       /\ asked.host = h
                       /\ asked.port = IF port = NoPort THEN own ELSE port
                  /\ target \in {<<"http://">> \o a, <<"http://">> \o a \o <<"/x">>} =>
                       /\ asked.host = h
                       /\ asked.port = IF port = NoPort THEN 80 ELSE port
                  /\ asked.host = h => SplitAuthority(asked.header).host = h
<1>1. ASSUME NEW target \in Seq(AllTokens), NEW own \in 1..LargestU16,
             own \in Range(PortOf), NEW path
      PROVE  Asks(target, PlainRequest(target, own, path), own)
  <2> DEFINE asked == PlainRequest(target, own, path)
             url == target # <<>> /\ target[1] = "http://"
  <2>1. ASSUME NEW h, NEW q, NEW b, SplitAuthority(Named(target)) = Authority(h, q, b)
        PROVE  LET n == IF ~url /\ q = NoPort /\ own # 80 THEN own ELSE q
               IN  /\ asked.host = h /\ asked.header = HeaderHost(Authority(h, n, b))
                   /\ asked.port = IF n = NoPort THEN 80 ELSE n
    BY <2>1, RequestReads
  <2> HIDE DEF asked
  <2> SUFFICES ASSUME NEW h \in Hosts, NEW port \in Range(PortOf) \cup {NoPort},
                      NEW a \in Writings(h, port)
               PROVE  /\ target = a =>
                           /\ asked.host = h
                           /\ asked.port = IF port = NoPort THEN own ELSE port
                      /\ target \in {<<"http://">> \o a, <<"http://">> \o a \o <<"/x">>} =>
                           /\ asked.host = h
                           /\ asked.port = IF port = NoPort THEN 80 ELSE port
                      /\ asked.host = h => SplitAuthority(asked.header).host = h
    BY DEF asked
  <2>2. /\ a \in Seq(AllTokens) /\ a # <<>>
        /\ \A i \in 1..Len(a) : a[i] \notin {"http://", "/x"}
    BY WritingsSplit
  <2>3. PICK b \in BOOLEAN : SplitAuthority(a) = Authority(h, port, b)
    BY WritingsSplit
  <2>4. /\ Named(a) = a /\ ~(a[1] = "http://")
        /\ \A t \in {<<"http://">> \o a, <<"http://">> \o a \o <<"/x">>} :
             t # <<>> /\ t[1] = "http://" /\ Named(t) = a
    BY <2>2, PrefixedNames
  <2>5. own # NoPort
    BY <1>1, PortFacts
  <2>6. ASSUME target = a
        PROVE  asked.host = h /\ asked.port = IF port = NoPort THEN own ELSE port
    <3>1. SplitAuthority(Named(target)) = Authority(h, port, b) /\ ~url
      BY <2>3, <2>4, <2>6
    <3> HIDE DEF url
    <3>2. /\ asked.host = h
          /\ asked.port = IF (IF port = NoPort /\ own # 80 THEN own ELSE port) = NoPort
                          THEN 80
                          ELSE IF port = NoPort /\ own # 80 THEN own ELSE port
      BY <2>1, <3>1
    <3>3. QED
      BY <2>5, <3>2
  <2>7. ASSUME target \in {<<"http://">> \o a, <<"http://">> \o a \o <<"/x">>}
        PROVE  asked.host = h /\ asked.port = IF port = NoPort THEN 80 ELSE port
    <3>1. SplitAuthority(Named(target)) = Authority(h, port, b) /\ url
      BY <2>3, <2>4, <2>7
    <3> HIDE DEF url
    <3>2. QED
      BY <2>1, <3>1
  <2>8. ASSUME asked.host = h PROVE SplitAuthority(asked.header).host = h
    <3>1. Named(target) \in Seq(AllTokens)
      BY NamedIsRead
    <3>2. ASSUME NEW g, NEW q, NEW c, SplitAuthority(Named(target)) = Authority(g, q, c)
          PROVE  g = h
      BY <2>1, <2>8, <3>2
    <3>3. SplitAuthority(Named(target)).host = h
      <4>1. \E g, q, c : SplitAuthority(Named(target)) = Authority(g, q, c)
        BY SplitIs DEF Opaque, Authority
      <4>2. QED
        BY <3>2, <4>1 DEF Authority
    <3>4. PICK q \in Range(PortOf) \cup {NoPort}, c \in BOOLEAN :
             SplitAuthority(Named(target)) = Authority(h, q, c) /\ (~c => ~Literal6(h))
      BY <3>1, <3>3, HostsSplit
    <3> DEFINE n == IF ~url /\ q = NoPort /\ own # 80 THEN own ELSE q
    <3>5. asked.header = HeaderHost(Authority(h, n, c))
      BY <2>1, <3>4
    <3>6. n \in Range(PortOf) \cup {NoPort}
      BY <1>1
    <3> HIDE DEF n
    <3>7. QED
      BY <3>4, <3>5, <3>6, HeaderSplit
  <2>9. QED
    BY <2>6, <2>7, <2>8
<1>2. Typed => AsksWhoIsNamed
  <2> SUFFICES ASSUME Typed, NEW w \in DOMAIN p, Method(w) = "http"
               PROVE  Asks(EffectiveTarget(Tr(w)), Request(Tr(w)), Tr(w).probe.port)
    BY DEF AsksWhoIsNamed
  <2>1. w \in Workers(cfg) /\ cfg \in Loaded /\ Tr(w) = Transport(cfg, w)
    BY DEF Typed, Tr
  <2> DEFINE t == Tr(w)
             target == EffectiveTarget(t)
  <2>2. t.probe.port \in 1..LargestU16 /\ t.probe.port \in Range(PortOf)
    BY <2>1, PortsHaveTokens DEF Method
  <2>3. target \in Seq(AllTokens)
    <3>1. t.address \in Seq(STRING) /\ t.probe.target \in Seq(STRING)
      BY <2>1, WorkersAreLoaded DEF FilledIn
    <3>2. target \in Seq(STRING)
      BY <3>1 DEF EffectiveTarget
    <3>3. STRING \subseteq AllTokens
      BY DEF AllTokens
    <3>4. QED
      BY <3>2, <3>3, SeqMonotonic
  <2>4. Request(t) = PlainRequest(target, t.probe.port, t.probe.path)
    BY DEF Request
  <2> HIDE DEF t, target, Asks
  <2>5. Asks(target, PlainRequest(target, t.probe.port, t.probe.path), t.probe.port)
    BY <1>1, <2>2, <2>3
  <2>6. QED
    BY <2>4, <2>5 DEF t, target
<1>3. QED
  BY <1>2, ProbesInv, PTL

\* derive_transport_id: what was restored under an identity was observed on
\* the path that has it now.
THEOREM IdentitiesArePaths == Spec => IdNamesThePath
<1> DEFINE Same(t, u) ==
             t.id.given = "" /\ u.id.given = "" =>
               /\ t.id = u.id => Path(t) = Path(u)
               /\ Path(t) = Path(u) /\ t.probe.method # "exec" => t.id = u.id
<1>1. ASSUME NEW c \in Loaded, NEW v \in Workers(c),
             NEW d \in Loaded, NEW w \in Workers(d)
      PROVE  Same(Transport(c, v), Transport(d, w))
  <2> DEFINE t == Transport(c, v)
             u == Transport(d, w)
  <2>1. /\ FilledIn(v[1], t) /\ FilledIn(w[1], u)
        /\ v[1] \in {"peer", "uplink"} /\ w[1] \in {"peer", "uplink"}
    BY WorkersAreLoaded
  <2>2. /\ v[1] = "uplink" /\ t.probe.method # "exec" => t.probe.target # <<>>
        /\ w[1] = "uplink" /\ u.probe.method # "exec" => u.probe.target # <<>>
    BY ProbesAreValid
  <2> HIDE DEF t, u
  <2>3. SUFFICES ASSUME t.id.given = "", u.id.given = "" PROVE Same(t, u)
    BY DEF t, u
  <2>4. t.id.derived = Mechanism(t) /\ u.id.derived = Mechanism(u)
    BY <2>1, <2>3 DEF FilledIn
  <2>5. ASSUME t.id = u.id PROVE Path(t) = Path(u)
    BY <2>4, <2>5 DEF Mechanism, Path, EffectiveTarget
  <2>6. ASSUME Path(t) = Path(u), t.probe.method # "exec" PROVE t.id = u.id
    <3>1. /\ t.probe.method = u.probe.method
          /\ EffectiveTarget(t) = EffectiveTarget(u)
      BY <2>6 DEF Path
    <3>2. EffectiveTarget(t) = t.probe.target /\ EffectiveTarget(u) = u.probe.target
      BY <2>1, <2>2, <2>6, <3>1 DEF FilledIn, EffectiveTarget
    <3>3. Mechanism(t) = Mechanism(u)
      BY <2>6, <3>1, <3>2 DEF Path, Mechanism
    <3>4. QED
      BY <2>1, <2>3, <2>4, <3>3 DEF FilledIn
  <2>7. QED
    BY <2>5, <2>6
<1>2. ASSUME Typed, Owned, Heard, [Next]_vars
      PROVE  [\A v \in DOMAIN p, w \in DOMAIN p' :
                 Same(Transport(cfg, v), Transport(cfg', w))]_cfg
  <2>1. Typed'
    BY <1>2, NextInv
  <2>2. /\ cfg \in Loaded /\ DOMAIN p = Workers(cfg)
        /\ cfg' \in Loaded /\ DOMAIN p' = Workers(cfg')
    BY <1>2, <2>1 DEF Typed
  <2> HIDE DEF Same
  <2>3. QED
    BY <1>1, <2>2
<1>3. QED
  BY <1>2, ProbesInv, PTL DEF Spec, IdNamesThePath
=============================================================================
