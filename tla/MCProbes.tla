------------------------------- MODULE MCProbes -------------------------------
(***************************************************************************)
(* Configurations for TLC: a peer and an uplink with a transport or two,   *)
(* and what can be edited in them, one or two fields at a time.            *)
(***************************************************************************)
EXTENDS Probes

v4 == <<"192.0.2.1">>
other4 == <<"192.0.2.2">>
v6 == <<"2001", ":", "db8", ":", "1">>
name == <<"gw">>

const_Literals == {v4, other4, v6}
const_Known == v4 :> <<"v4">> @@ v6 :> <<"v6">> @@ name :> <<"v6", "v4">>
const_PortOf == "1" :> 1 @@ "22" :> 22 @@ "80" :> 80 @@ "8080" :> 8080
const_BuiltIn == [interval |-> 3, timeout |-> 3, up |-> 2, down |-> 3]
const_BuiltInHold == "peer" :> 10 @@ "uplink" :> 15
const_Statuses == {<<2, 0, 0>>, <<5, 0, 3>>, <<>>}
const_Said == {other4, name}

Unset == [interval |-> 0, timeout |-> 0, up |-> 0, down |-> 0]

Transported ==
    [id |-> [given |-> "", derived |-> <<>>], provider |-> "", interface |-> "",
     address |-> v4, priority |-> 0,
     probe |-> [method |-> "", target |-> <<>>, port |-> 0, path |-> "",
                bind |-> FALSE, exec |-> "", pace |-> Unset]]
By(method, target) ==
    [Transported EXCEPT !.probe.method = method, !.probe.target = target]
Helper(command) ==
    [Transported EXCEPT !.address = <<>>, !.interface = "eth",
                        !.probe.method = "exec", !.probe.exec = command]

Peered(ts) ==
    [hostnames |-> <<"alpha">>, transports |-> ts, onAllDown |-> "",
     minHold |-> 0, maxAge |-> "unbounded"]
Uplinked(ts) ==
    [transports |-> ts, minHold |-> 0, base |-> 0, step |-> 0,
     routeMetric |-> TRUE]
Whole(ps, us) == [defaults |-> Unset, peers |-> ps, uplinks |-> us]
Solo(p1) == Whole("p" :> p1, <<>>)
Pair(p1, p2) == Whole("p" :> p1 @@ "q" :> p2, <<>>)
Up(u) == Whole(<<>>, "u" :> u)

Plain == Peered(<<Transported>>)
OnEth(t) == [t EXCEPT !.interface = "eth", !.probe.bind = TRUE]

Targets ==
    {name, v4, v6, Bracketed(v6), Bracketed(v6) \o <<":", "8080">>,
     name \o <<":", "8080">>, name \o <<":", "none">>, <<"[">> \o v6,
     <<"http://">> \o name, <<"http://">> \o name \o <<":", "8080", "/x">>,
     <<"http://">> \o Bracketed(v6) \o <<"/x">>, <<"https://">> \o name}

\* Probed by a peer, over http by target and by port; over tcp and with a
\* helper; two echoes of one host over two interfaces.
ProbedConfigs ==
    {Solo(Peered(<<By("http", t)>>)) : t \in Targets}
    \cup {Solo(Peered(<<[By("http", v6) EXCEPT !.probe.port = n]>>)) : n \in {80, 8080}}
    \cup {Solo(Peered(<<t>>)) : t \in {By("tcp", <<>>), By("tcp", name),
              By("icmp", name), By("smtp", name), Helper("helper")}}
    \cup {Up(Uplinked(<<OnEth(By("icmp", v4)),
                        [OnEth(By("icmp", v4)) EXCEPT !.interface = "wifi"]>>))}

\* One field of a transport, of a peer, of an uplink or of the defaults.
EditedTransports ==
    {[Transported EXCEPT !.address = a] : a \in {<<>>, other4, name}}
    \cup {[Transported EXCEPT !.address = other4, !.probe.target = v4]}
    \cup {[Transported EXCEPT !.priority = 1], By("tcp", v4), Helper(""),
          Helper(" "), Helper("'helper"),
          [Transported EXCEPT !.id.given = " "]}
    \cup {[Transported EXCEPT !.probe.port = n] : n \in {-1, 22, 65536}}
    \cup {[Transported EXCEPT !.probe.pace.timeout = n] : n \in {-1, 1}}
    \cup {[Transported EXCEPT !.probe.pace.up = -1]}
EditedPeers ==
    {[Plain EXCEPT !.hostnames = h] :
        h \in {<<>>, <<"two words">>, <<"alpha", "alpha">>}}
    \cup {[Plain EXCEPT !.onAllDown = o] : o \in {"unpublish", "keep"}}
    \cup {[Plain EXCEPT !.maxAge = m] : m \in {"positive", "negative"}}
    \cup {[Plain EXCEPT !.transports = <<>>], [Plain EXCEPT !.minHold = -1],
          [Plain EXCEPT !.transports = <<Transported, Transported>>],
          [Plain EXCEPT !.transports =
              <<Transported, [Transported EXCEPT !.address = other4]>>]}
EditedUplinks ==
    {[Uplinked(<<OnEth(By("tcp", v4))>>) EXCEPT !.step = n] : n \in {-1, 5}}
    \cup {[Uplinked(<<OnEth(By("tcp", v4))>>) EXCEPT !.step = -1, !.routeMetric = FALSE]}
    \cup {Uplinked(<<t>>) : t \in {By("tcp", v4), OnEth(By("tcp", <<>>)),
                                   Helper("helper")}}
EditedConfigs ==
    {Solo(Peered(<<t>>)) : t \in EditedTransports}
    \cup {Solo(q) : q \in EditedPeers} \cup {Up(u) : u \in EditedUplinks}
    \cup {Pair(Plain, Plain),
          Pair(Plain, [Plain EXCEPT !.hostnames = <<"beta">>])}
    \cup {[Solo(Plain) EXCEPT !.defaults.interval = n] : n \in {-1, 5}}

const_Configs == ProbedConfigs \cup EditedConfigs
=============================================================================
