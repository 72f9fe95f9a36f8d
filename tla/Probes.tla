-------------------------------- MODULE Probes --------------------------------
(***************************************************************************)
(* nixnetd loads a configuration and its workers probe the transports, each *)
(* with its own method: a TCP connection, an HTTP request over one, an ICMP *)
(* echo on a raw socket that hears everybody's replies, or a helper with    *)
(* its descendants.  The network, the servers, the resolver and the helpers *)
(* do what they like, and take their time.                                  *)
(***************************************************************************)
EXTENDS Configuration, HttpTarget

CONSTANTS
    Configs,        \* config.json files
    Known,          \* the families of the addresses of each host with a name
                    \* or of each literal, as the resolver lists them
    SlowestName,    \* the longest the resolver takes
    Nap,            \* between two looks at a helper: 10 ms
    Full,           \* pieces of an answer read at most: 4096 bytes
    SeqSpan,        \* ICMP sequence numbers: 2^16
    Statuses,       \* the digits a server has for its status
    Said            \* the addresses a helper prints

ASSUME ProbesAssumption ==
    /\ SlowestName \in Nat /\ Nap \in Nat \ {0} /\ Full \in Nat
    /\ SeqSpan \in Nat \ {0}

\* A status line that has its end fits into what is read.
ASSUME WorldAssumption ==
    /\ \A c \in Configs : Parsed(c)
    /\ Known \in [DOMAIN Known -> Seq({"v4", "v6"})]
    /\ Statuses \subseteq Seq(Nat) /\ \A s \in Statuses : Len(s) + 2 <= Full
    /\ Said \subseteq Seq(STRING)

\* What is written around a name or a literal is no part of it; a literal IPv6
\* address has two colons, and nothing else has one.  Every port has a token.
Punctuation == {"[", "]", ":", "/x", "http://"}
Literal6(h) == Cardinality({i \in DOMAIN h : h[i] = ":"}) > 1
ASSUME TokensAssumption ==
    /\ PortOf \in [DOMAIN PortOf -> 0..LargestU16]
    /\ DOMAIN PortOf \cap Punctuation = {}
    /\ \A h \in DOMAIN Known :
        /\ h \in Seq(STRING) \ {<<>>}
        /\ \A i \in DOMAIN h : h[i] \notin Punctuation \ {":"}
        /\ ~Literal6(h) => \A i \in DOMAIN h : h[i] # ":"
    /\ \A c \in Configs : \A kind \in {"peers", "uplinks"} : \A n \in DOMAIN c[kind] :
        \A i \in DOMAIN c[kind][n].transports :
            LET probe == c[kind][n].transports[i].probe
            IN  probe.method = "http" /\ Or(probe.port, 22) \in 1..LastPort =>
                    Or(probe.port, 22) \in Range(PortOf)

VARIABLES
    cfg,        \* the configuration, defaults filled in
    p,          \* the probe of each worker: what its code remembers
    env,        \* and what it deals with
    sent, answered, \* echo requests on the way, and those with a reply
    nextSeq     \* the counter of next_echo_identity

vars == <<cfg, p, env, sent, answered, nextSeq>>
network == <<sent, answered, nextSeq>>

\* A worker for every transport of every peer and uplink.
Of(kind, groups) ==
    UNION {{<<kind, n, i>> : i \in DOMAIN groups[n].transports} : n \in DOMAIN groups}
Workers(c) ==
    IF Valid(c) THEN Of("peer", c.peers) \cup Of("uplink", c.uplinks) ELSE {}
Transport(c, w) ==
    (IF w[1] = "peer" THEN c.peers ELSE c.uplinks)[w[2]].transports[w[3]]

Tr(w) == Transport(cfg, w)
Timeout(w) == Tr(w).probe.pace.timeout
Method(w) == Tr(w).probe.method

\* Time counts from the moment the deadline does: `started`, `start`.
NoProbe ==
    [at |-> "idle", spent |-> 0, left |-> <<>>, window |-> 0, got |-> 0,
     seq |-> -1, late |-> FALSE, error |-> FALSE, healthy |-> FALSE,
     address |-> <<>>]
\* A helper, who else lives of what it started, what it prints; the server's
\* status line and whether it sends all of it.
NoEnv ==
    [child |-> "none", kids |-> {}, says |-> <<>>,
     status |-> <<>>, whole |-> TRUE]

Init ==
    /\ cfg \in {ApplyDefaults(c) : c \in Configs}
    /\ p = [w \in Workers(cfg) |-> NoProbe]
    /\ env = [w \in Workers(cfg) |-> NoEnv]
    /\ sent = {} /\ answered = {} /\ nextSeq = 0

\* The file is edited and the daemon started again.  Replies to the previous
\* process are strays to this one: its identifier is another.
Restart(c) ==
    /\ \A w \in DOMAIN p : p[w].at = "idle"
    /\ cfg' = ApplyDefaults(c)
    /\ p' = [w \in Workers(cfg') |-> NoProbe]
    /\ env' = [w \in Workers(cfg') |-> NoEnv]
    /\ sent' = {} /\ answered' = {} /\ nextSeq' = 0

Shorter(m, n) == IF m < n THEN m ELSE n

Goes(w, r) == p' = [p EXCEPT ![w] = r]
Unhealthy(r) == [r EXCEPT !.at = "done"]
Healthy(r) == [r EXCEPT !.at = "done", !.healthy = TRUE]
Misconfigured(r) == [r EXCEPT !.at = "done", !.error = TRUE]

FaultyRemaining(w) == Timeout(w)
Remaining(w) == Timeout(w) - p[w].spent

-----------------------------------------------------------------------------
(* run of tcp, http and icmp: whom they dial. *)

Request(t) == PlainRequest(EffectiveTarget(t), t.probe.port, t.probe.path)
Host(w) ==
    IF Method(w) = "http" THEN Request(Tr(w)).host ELSE EffectiveTarget(Tr(w))

Begin(w) ==
    /\ p[w].at = "idle" /\ Method(w) # "exec"
    /\ Goes(w, IF EffectiveTarget(Tr(w)) = <<>> THEN Misconfigured(p[w])
               ELSE IF Method(w) = "http" /\ IsHttps(EffectiveTarget(Tr(w)))
                    THEN Unhealthy(p[w])
                    ELSE [p[w] EXCEPT !.at = "resolve"])
    /\ UNCHANGED <<cfg, env, network>>

\* to_socket_addrs has no deadline.  For icmp the clock has not started, and
\* the first IPv4 address is the one.
Addresses(w) ==
    IF Host(w) \notin DOMAIN Known THEN <<>>
    ELSE IF Method(w) = "icmp"
         THEN SelectSeq(Known[Host(w)], LAMBDA family : family = "v4")
         ELSE Known[Host(w)]
Resolve(w) ==
    /\ p[w].at = "resolve"
    /\ \E found \in {<<>>, Addresses(w)}, d \in 0..SlowestName :
        Goes(w, IF found = <<>> THEN Unhealthy(p[w])
                ELSE IF Method(w) = "icmp" THEN [p[w] EXCEPT !.at = "send"]
                ELSE [p[w] EXCEPT !.at = "dial", !.left = found, !.spent = d])
    /\ UNCHANGED <<cfg, env, network>>

\* The loop over the addresses: out of them or out of time.
DialEnds(w) ==
    /\ p[w].at = "dial" /\ (p[w].left = <<>> \/ Remaining(w) <= 0)
    /\ Goes(w, Unhealthy(p[w]))
    /\ UNCHANGED <<cfg, env, network>>

\* No socket, no such interface, refused or not answered in what remains.
DialFails(w) ==
    /\ p[w].at = "dial" /\ p[w].left # <<>> /\ Remaining(w) > 0
    /\ \E d \in 0..Remaining(w) :
        Goes(w, [p[w] EXCEPT !.left = Tail(@), !.spent = @ + d])
    /\ UNCHANGED <<cfg, env, network>>

\* Connected: to be healthy, or to ask with what is left as the limit of each
\* read (a limit of 0 would be none).
Connect(w) ==
    /\ p[w].at = "dial" /\ p[w].left # <<>> /\ Remaining(w) > 0
    /\ \E d \in 0..Remaining(w), status \in Statuses, whole \in BOOLEAN :
        LET r == [p[w] EXCEPT !.spent = @ + d]
            http == Method(w) = "http" /\ d < Remaining(w)
        IN  /\ Goes(w, IF Method(w) = "tcp" THEN Healthy(r)
                       ELSE IF http THEN [r EXCEPT !.at = "read",
                                                   !.window = Remaining(w) - d]
                       ELSE Unhealthy(r))
            /\ env' = IF http THEN [env EXCEPT ![w].status = status,
                                               ![w].whole = whole] ELSE env
    /\ UNCHANGED <<cfg, network>>

-----------------------------------------------------------------------------
(* do_get.  The pieces of an answer: the version, each digit, the line end,
   which a server that sends anything else never reaches. *)

Pieces(w) == IF env[w].whole THEN Len(env[w].status) + 2 ELSE Full
Digits(w, n) ==
    SubSeq(env[w].status, 1, Shorter(n - 1, Len(env[w].status)))
Code(digits) == FoldLeft(LAMBDA code, d : 10 * code + d, 0, digits)

\* The loop reads on: the line is not complete and the buffer not full.
ReadsOn(w) == p[w].at = "read" /\ p[w].got < Shorter(Pieces(w), Full)

\* Every read may take the limit again.
Read(w) ==
    /\ ReadsOn(w)
    /\ \E d \in 0..p[w].window, n \in 1..(Pieces(w) - p[w].got) :
        Goes(w, [p[w] EXCEPT !.got = @ + n, !.spent = @ + d])
    /\ UNCHANGED <<cfg, env, network>>

ReadFails(w) ==
    /\ ReadsOn(w)
    /\ \E d \in 0..p[w].window : Goes(w, Unhealthy([p[w] EXCEPT !.spent = @ + d]))
    /\ UNCHANGED <<cfg, env, network>>

\* The line is complete, the buffer full, or the server closed (late: before
\* its line was complete).
Parse(w) ==
    /\ p[w].at = "read"
    /\ LET digits == Digits(w, p[w].got)
           r == [p[w] EXCEPT !.late = p[w].got < Pieces(w)]
       IN  Goes(w, IF digits # <<>> /\ Code(digits) < 400 THEN Healthy(r)
                   ELSE Unhealthy(r))
    /\ UNCHANGED <<cfg, env, network>>

-----------------------------------------------------------------------------
(* icmp *)

Echo(w) == [dst |-> EffectiveTarget(Tr(w)), seq |-> p[w].seq]

\* No probe and no reply is taken to last for 2^16 requests of others.
Outlasted == \A v \in DOMAIN p : p[v].at \in {"listen", "done", "judged"}
                                 => p[v].seq # nextSeq
Send(w) ==
    /\ p[w].at = "send"
    /\ \/ \* no CAP_NET_RAW, no interface, no route
          Goes(w, Unhealthy(p[w])) /\ UNCHANGED network
       \/ /\ Outlasted
          /\ Goes(w, [p[w] EXCEPT !.at = "listen", !.seq = nextSeq])
          /\ nextSeq' = (nextSeq + 1) % SeqSpan
          /\ sent' = {e \in sent : e.seq # nextSeq}
                     \cup {[dst |-> EffectiveTarget(Tr(w)), seq |-> nextSeq]}
          /\ answered' = {e \in answered : e.seq # nextSeq}
    /\ UNCHANGED <<cfg, env>>

\* The host answers; every raw socket gets a copy, late, twice or never.
Answer(e) ==
    /\ e \in sent
    /\ sent' = sent \ {e} /\ answered' = answered \cup {e}
    /\ UNCHANGED <<cfg, p, env, nextSeq>>

\* recv_from: a reply to some probe of this process.  Anything else (a reply
\* to another process, an error, another host) is passed over.
FaultyOurs(w, e) == e.dst = EffectiveTarget(Tr(w))
Ours(w, e) == e = Echo(w)
Hear(w) ==
    /\ p[w].at = "listen" /\ Remaining(w) > 0
    /\ \E d \in 0..Remaining(w) :
        LET r == [p[w] EXCEPT !.spent = @ + d]
        IN  \/ \E e \in answered : Goes(w, IF Ours(w, e) THEN Healthy(r) ELSE r)
            \/ Goes(w, r)
            \/ Goes(w, Unhealthy(r))
    /\ UNCHANGED <<cfg, env, network>>

HearsNothing(w) ==
    /\ p[w].at = "listen" /\ Remaining(w) <= 0
    /\ Goes(w, Unhealthy(p[w]))
    /\ UNCHANGED <<cfg, env, network>>

-----------------------------------------------------------------------------
(* exec and subprocess::run *)

Spawn(w) ==
    /\ p[w].at = "idle" /\ Method(w) = "exec"
    /\ IF Tr(w).probe.exec \in NoCommand
       THEN Goes(w, Misconfigured(p[w])) /\ UNCHANGED env
       ELSE \/ Goes(w, Unhealthy(p[w])) /\ UNCHANGED env
            \/ \E says \in {<<>>} \cup Said :
                /\ Goes(w, [p[w] EXCEPT !.at = "watch"])
                /\ env' = [env EXCEPT ![w].child = "runs", ![w].says = says]
    /\ UNCHANGED <<cfg, network>>

\* The helper leaves somebody in its group, or in a session of their own.
Fork(w) ==
    /\ env[w].child = "runs"
    /\ \E kid \in {"in group", "in session"} :
        env' = [env EXCEPT ![w].kids = @ \cup {kid}]
    /\ UNCHANGED <<cfg, p, network>>
Exits(w) ==
    /\ env[w].child = "runs"
    /\ \E how \in {"exit 0", "failed"} : env' = [env EXCEPT ![w].child = how]
    /\ UNCHANGED <<cfg, p, network>>

\* try_wait sees the end, or the deadline has passed, or it is looked again
\* later.
Watch(w) ==
    /\ p[w].at = "watch"
    /\ Goes(w, IF env[w].child # "runs" THEN [p[w] EXCEPT !.at = "close"]
               ELSE IF Remaining(w) <= 0 THEN [p[w] EXCEPT !.at = "kill"]
               ELSE [p[w] EXCEPT !.spent = @ + Shorter(Nap, Timeout(w))])
    /\ UNCHANGED <<cfg, env, network>>

\* kill_process_group.  A helper that had ended meanwhile ended as it did.
Killed(e) ==
    [e EXCEPT !.kids = @ \ {"in group"},
              !.child = IF @ = "runs" THEN "failed" ELSE @]
Kill(w) ==
    /\ p[w].at = "kill"
    /\ env' = [env EXCEPT ![w] = Killed(@)]
    /\ Goes(w, [p[w] EXCEPT !.at = "close", !.late = TRUE])
    /\ UNCHANGED <<cfg, network>>

\* Whatever happened, the group ends; the helper's address is taken from its
\* output, healthy or not.
FaultyClosed(e) == e
Closed(e) == Killed(e)
Close(w) ==
    /\ p[w].at = "close"
    /\ env' = [env EXCEPT ![w] = Closed(@)]
    /\ LET r == [p[w] EXCEPT !.address = env[w].says]
       IN  Goes(w, IF env[w].child = "exit 0" /\ ~p[w].late THEN Healthy(r)
                   ELSE Unhealthy(r))
    /\ UNCHANGED <<cfg, network>>

-----------------------------------------------------------------------------
\* probe_once judges the result.
Judged(r) ==
    IF r.healthy /\ r.address \notin {<<>>} \cup Literals
    THEN [r EXCEPT !.at = "judged", !.healthy = FALSE, !.address = <<>>]
    ELSE [r EXCEPT !.at = "judged"]
Judge(w) ==
    /\ p[w].at = "done" /\ Goes(w, Judged(p[w]))
    /\ UNCHANGED <<cfg, env, network>>

\* And records it, until the next tick.
Record(w) ==
    /\ p[w].at = "judged" /\ Goes(w, NoProbe)
    /\ env' = [env EXCEPT ![w] = NoEnv]
    /\ UNCHANGED <<cfg, network>>

Next ==
    \/ \E c \in Configs : Restart(c)
    \/ \E e \in sent : Answer(e)
    \/ \E w \in DOMAIN p :
        \/ Begin(w) \/ Resolve(w) \/ DialEnds(w) \/ DialFails(w) \/ Connect(w)
        \/ Read(w) \/ ReadFails(w) \/ Parse(w)
        \/ Send(w) \/ Hear(w) \/ HearsNothing(w)
        \/ Spawn(w) \/ Fork(w) \/ Exits(w) \/ Watch(w) \/ Kill(w) \/ Close(w)
        \/ Judge(w) \/ Record(w)

Spec == Init /\ [][Next]_vars

-----------------------------------------------------------------------------
(* Properties. *)

\* There is a probe for every transport of an accepted configuration, and an
\* environment for each.
TypeOK ==
    /\ DOMAIN p = Workers(cfg) /\ DOMAIN env = Workers(cfg)
    /\ \A w \in DOMAIN p :
        /\ p[w].at \in {"idle", "resolve", "dial", "read", "send", "listen",
                        "watch", "kill", "close", "done", "judged"}
        /\ p[w].spent \in Nat /\ p[w].window \in Nat /\ p[w].got \in 0..Full
        /\ p[w].left \in Seq({"v4", "v6"}) /\ p[w].seq \in -1..(SeqSpan - 1)
        /\ p[w].late \in BOOLEAN /\ p[w].error \in BOOLEAN
        /\ p[w].healthy \in BOOLEAN /\ p[w].address \in Said \cup {<<>>}
        /\ env[w].child \in {"none", "runs", "exit 0", "failed"}
        /\ env[w].kids \subseteq {"in group", "in session"}
        /\ env[w].says \in Said \cup {<<>>}
        /\ env[w].status \in Statuses \cup {<<>>} /\ env[w].whole \in BOOLEAN
    /\ \A e \in sent \cup answered : e.seq \in 0..(SeqSpan - 1)
    /\ nextSeq \in 0..(SeqSpan - 1)

\* A transport is called healthy on evidence of its own: the reply to the
\* request of this very probe, whoever else pings the same host from this
\* one; a helper that ended well, by itself and in time, and whose address is
\* one; a server that did not refuse, as long as it was heard out (a status
\* line that is cut short reads as a smaller number).
HealthyIsEarned ==
    \A w \in DOMAIN p : p[w].at = "judged" /\ p[w].healthy =>
        /\ Method(w) = "icmp" => Echo(w) \in answered
        /\ Method(w) = "exec" => /\ env[w].child = "exit 0" /\ ~p[w].late
                                 /\ p[w].address \in {<<>>} \cup Literals
        /\ Method(w) = "http" =>
            /\ ~IsHttps(EffectiveTarget(Tr(w)))
            /\ ~p[w].late => Code(env[w].status) < 400

\* The same of a server whatever it sends of its status line.
RefusalIsHeard ==
    \A w \in DOMAIN p :
        p[w].at = "judged" /\ p[w].healthy /\ Method(w) = "http"
            => Code(env[w].status) < 400

\* A probe takes its timeout and no longer, whatever the network, strangers'
\* datagrams or a helper do: but for the resolver, the last nap, and a server
\* that drips its answer, each read of which has what was left for the first.
EndsInTime ==
    \A w \in DOMAIN p :
        LET dialled == IF SlowestName > Timeout(w) THEN SlowestName
                       ELSE Timeout(w)
        IN  /\ Method(w) = "icmp" => p[w].spent <= Timeout(w)
            /\ Method(w) = "tcp" => p[w].spent <= dialled
            /\ Method(w) = "http" => p[w].spent <= dialled + Full * Timeout(w)
            /\ Method(w) = "exec" => p[w].spent < Timeout(w) + Nap
            /\ p[w].at = "read" => p[w].window > 0

\* With a probe ends everything its helper has started in its group, even if
\* the helper itself ended well and long before: nothing of it runs when the
\* next one starts.
NoOrphans ==
    \A w \in DOMAIN p : p[w].at \in {"idle", "done", "judged"} =>
        env[w].child # "runs" /\ "in group" \notin env[w].kids

\* An http probe asks the host and the port that its target names, however
\* they are written: a literal IPv6 address has colons and brackets of its
\* own.  The Host header takes them apart the same way.
Hosts == DOMAIN Known
Bracketed(h) == IF Literal6(h) THEN <<"[">> \o h \o <<"]">> ELSE h
Writings(h, port) ==
    IF port = NoPort THEN {h, Bracketed(h)}
    ELSE {Bracketed(h) \o <<":", PortToken(port)>>}
AsksWhoIsNamed ==
    \A w \in DOMAIN p : Method(w) = "http" =>
        LET target == EffectiveTarget(Tr(w))
            asked == Request(Tr(w))
            own == Tr(w).probe.port
        IN  \A h \in Hosts, port \in Range(PortOf) \cup {NoPort} :
            \A a \in Writings(h, port) :
              /\ target = a =>
                   /\ asked.host = h
                   /\ asked.port = IF port = NoPort THEN own ELSE port
              /\ target \in {<<"http://">> \o a, <<"http://">> \o a \o <<"/x">>} =>
                   /\ asked.host = h
                   /\ asked.port = IF port = NoPort THEN 80 ELSE port
              /\ asked.host = h =>
                   SplitAuthority(asked.header).host = h

\* What the loader accepts can be run by the rest of the daemon, but for a
\* peer that has neither target nor address, a command line without a word or
\* with an open quote, and a peer's minHold below 0.
AcceptedIsUsable ==
    Valid(cfg) =>
        /\ \A w \in DOMAIN p :
            LET t == Tr(w)
            IN  /\ t.probe.pace.interval > 0 /\ t.probe.pace.timeout > 0
                /\ t.probe.pace.up > 0 /\ t.probe.pace.down > 0
                /\ p[w].error => \/ t.probe.exec \in {" ", "'helper"}
                                 \/ w[1] = "peer" /\ t.address = <<>>
                /\ \A v \in DOMAIN p :
                    v[1] = w[1] /\ v[2] = w[2] /\ Tr(v).id = t.id => v = w
        /\ \A n \in DOMAIN cfg.uplinks :
            cfg.uplinks[n].routeMetric => cfg.uplinks[n].step > 0
        /\ \A n, m \in DOMAIN cfg.peers :
            Range(cfg.peers[n].hostnames) \cap Range(cfg.peers[m].hostnames) # {}
                => n = m

\* What is restored for a transport was observed on the same path: after an
\* edit, a transport has the derived identity of one before it only if both
\* are probed the same way, and has it then, whatever their priority and pace
\* and whether a peer's target was written down or left to be its address.
\* (An uplink's helper may lose its identity for a target that it never uses.)
Path(t) ==
    <<t.provider, t.interface, t.address, t.probe.method, EffectiveTarget(t),
      t.probe.port, t.probe.path, t.probe.bind, t.probe.exec>>
IdNamesThePath ==
    [][\A v \in DOMAIN p, w \in DOMAIN p' :
        LET t == Transport(cfg, v)
            u == Transport(cfg', w)
        IN  t.id.given = "" /\ u.id.given = "" =>
                /\ t.id = u.id => Path(t) = Path(u)
                /\ Path(t) = Path(u) /\ t.probe.method # "exec" => t.id = u.id]_cfg
=============================================================================
