---------------------------- MODULE Configuration ----------------------------
(***************************************************************************)
(* config.json as nixnetd takes it: what is filled in, what is refused, and *)
(* which transports are the same one.  Peers and uplinks are functions from *)
(* their names; a text that is missing or null is empty, a number 0.        *)
(*                                                                         *)
(* Targets and addresses are sequences of tokens, as far as anything takes  *)
(* them apart: a name or a group of an address, "[", "]", ":", a scheme, a  *)
(* path, a port.                                                            *)
(***************************************************************************)
EXTENDS Integers, Sequences

CONSTANTS
    Literals,   \* targets that are an IPv4 or IPv6 address
    Tokens,     \* words that can stand in a hosts file
    BuiltIn,    \* the probe defaults of the loader
    BuiltInHold \* and its minHoldMs, of "peer" and "uplink"

ProbeDefaults == [interval : Int, timeout : Int, up : Int, down : Int]

\* What serde leaves of a file: every value has its type.
ProbeConfig ==
    [method : STRING, target : Seq(STRING), port : Int, path : STRING,
     bind : BOOLEAN, exec : STRING, pace : ProbeDefaults]
TransportConfig ==
    [id : [given : STRING, derived : {<<>>}], provider : STRING,
     interface : STRING, address : Seq(STRING), priority : Int,
     probe : ProbeConfig]
PeerConfig ==
    [hostnames : Seq(STRING), transports : Seq(TransportConfig),
     onAllDown : STRING, minHold : Int,
     maxAge : {"unbounded", "positive", "negative"}]
UplinkConfig ==
    [transports : Seq(TransportConfig), minHold : Int, base : Int, step : Int,
     routeMetric : BOOLEAN]
Parsed(c) ==
    /\ c.defaults \in ProbeDefaults
    /\ \A n \in DOMAIN c.peers : c.peers[n] \in PeerConfig
    /\ \A n \in DOMAIN c.uplinks : c.uplinks[n] \in UplinkConfig

ASSUME ConfigurationAssumption ==
    /\ BuiltIn \in ProbeDefaults
    /\ \A f \in DOMAIN BuiltIn : BuiltIn[f] > 0
    /\ \A kind \in {"peer", "uplink"} : BuiltInHold[kind] > 0

Or(n, def) == IF n = 0 THEN def ELSE n
OrText(s, def) == IF s = "" THEN def ELSE s

-----------------------------------------------------------------------------
(* apply_defaults *)

Filled(d, def) == [f \in DOMAIN def |-> Or(d[f], def[f])]

FilledProbe(p, def) ==
    [p EXCEPT !.method = OrText(@, "tcp"), !.port = Or(@, 22),
              !.path = OrText(@, "/"), !.pace = Filled(@, def)]

\* The mechanism of a transport: its policy, priority and pace, is no part.
FaultyMechanism(t) ==
    <<t.provider, t.interface, t.probe.method, t.probe.target, t.probe.port,
      t.probe.path, t.probe.bind, t.probe.exec>>
Mechanism(t) ==
    <<t.provider, t.interface, t.address, t.probe.method, t.probe.target,
      t.probe.port, t.probe.path, t.probe.bind, t.probe.exec>>

\* The stable identity: the one given, or the mechanism (its hash: no two of
\* them are taken to collide, nor with one given).
Identified(t) ==
    IF t.id.given # "" THEN t ELSE [t EXCEPT !.id.derived = Mechanism(t)]

FilledTransport(kind, t, def) ==
    LET probed == [t EXCEPT !.probe = FilledProbe(@, def)]
    IN  Identified(IF kind = "peer" /\ probed.probe.target = <<>>
                   THEN [probed EXCEPT !.probe.target = t.address]
                   ELSE probed)

FilledTransports(kind, ts, def) ==
    [i \in DOMAIN ts |-> FilledTransport(kind, ts[i], def)]

ApplyDefaults(c) ==
    LET def == Filled(c.defaults, BuiltIn)
        Peer(p) ==
            [p EXCEPT !.onAllDown = OrText(@, "lastKnownGood"),
                      !.minHold = Or(@, BuiltInHold["peer"]),
                      !.transports = FilledTransports("peer", @, def)]
        Uplink(u) ==
            [u EXCEPT !.minHold = Or(@, BuiltInHold["uplink"]),
                      !.base = Or(@, 100), !.step = Or(@, 10),
                      !.transports = FilledTransports("uplink", @, def)]
    IN  [defaults |-> def,
         peers |-> [n \in DOMAIN c.peers |-> Peer(c.peers[n])],
         uplinks |-> [n \in DOMAIN c.uplinks |-> Uplink(c.uplinks[n])]]

-----------------------------------------------------------------------------
(* validate *)

Positive(d) == \A f \in DOMAIN d : d[f] > 0

Blank == {"", " "}
ValidIds(ts) ==
    \A i \in DOMAIN ts :
        /\ ts[i].id.given \in Blank => ts[i].id.derived # <<>>
        /\ \A j \in DOMAIN ts : ts[i].id = ts[j].id => i = j

LastPort == 65535

ValidProbe(p) ==
    /\ p.method \in {"tcp", "icmp", "http", "exec"}
    /\ p.method = "exec" => p.exec # ""
    /\ p.method \in {"tcp", "http"} => p.port > 0 /\ p.port <= LastPort
    /\ Positive(p.pace)

ValidPeer(p) ==
    /\ p.hostnames # <<>>
    /\ \A i \in DOMAIN p.hostnames : p.hostnames[i] \in Tokens
    /\ ValidIds(p.transports)
    /\ \A i \in DOMAIN p.transports :
        /\ ValidProbe(p.transports[i].probe)
        /\ p.transports[i].address \in {<<>>} \cup Literals
    /\ p.onAllDown \in {"lastKnownGood", "unpublish"}
    /\ p.maxAge = "unbounded" \/ p.maxAge = "positive"

FaultyValidUplink(u) ==
    /\ ValidIds(u.transports)
    /\ \A i \in DOMAIN u.transports :
        LET t == u.transports[i]
        IN  /\ t.interface # "" /\ ValidProbe(t.probe)
            /\ t.probe.method # "exec" => t.probe.target # <<>>
ValidUplink(u) ==
    /\ ValidIds(u.transports)
    /\ u.routeMetric => u.step > 0
    /\ \A i \in DOMAIN u.transports :
        LET t == u.transports[i]
        IN  /\ t.interface # "" /\ ValidProbe(t.probe)
            /\ t.probe.method # "exec" => t.probe.target # <<>>

\* Every hostname belongs to one peer, and to it once.
Disjoint(peers) ==
    \A n, m \in DOMAIN peers :
        \A i \in DOMAIN peers[n].hostnames, j \in DOMAIN peers[m].hostnames :
            peers[n].hostnames[i] = peers[m].hostnames[j] => n = m /\ i = j

Valid(c) ==
    /\ Positive(c.defaults)
    /\ Disjoint(c.peers)
    /\ \A n \in DOMAIN c.peers : ValidPeer(c.peers[n])
    /\ \A n \in DOMAIN c.uplinks : ValidUplink(c.uplinks[n])

-----------------------------------------------------------------------------
(* What the others read of a transport. *)

EffectiveTarget(t) ==
    IF t.probe.target # <<>> THEN t.probe.target ELSE t.address

\* A command line that tokenize refuses or that has no word is not one.
NoCommand == {"", " ", "'helper"}
=============================================================================
