------------------------------ MODULE HttpTarget ------------------------------
(***************************************************************************)
(* What an http probe asks whom for: the target's tokens taken apart into  *)
(* what the resolver, the Host header and the request line need.           *)
(***************************************************************************)
EXTENDS Integers, SequencesExt

CONSTANT PortOf     \* the number of each token that is one of 0..65535

IsPort(w) == w \in DOMAIN PortOf
NoPort == -1

Opaque(a) == [host |-> a, port |-> NoPort, v6 |-> FALSE]

\* What is behind "]": a colon and a port, or nothing that counts.
After(s) ==
    IF Len(s) = 2 /\ s[1] = ":" /\ IsPort(s[2]) THEN PortOf[s[2]] ELSE NoPort

\* The last colon delimits a port only when it is the only one.
FaultySplitAuthority(a) ==
    LET colon == SelectLastInSeq(a, LAMBDA w : w = ":")
    IN  IF colon = Len(a) - 1 /\ colon > 0 /\ IsPort(a[Len(a)])
        THEN [host |-> SubSeq(a, 1, colon - 1), port |-> PortOf[a[Len(a)]],
              v6 |-> FALSE]
        ELSE Opaque(a)
SplitAuthority(a) ==
    LET close == SelectInSeq(a, LAMBDA w : w = "]")
        first == SelectInSeq(a, LAMBDA w : w = ":")
        last == SelectLastInSeq(a, LAMBDA w : w = ":")
    IN  IF a # <<>> /\ a[1] = "["
        THEN IF close = 0 THEN Opaque(a)
             ELSE [host |-> SubSeq(a, 2, close - 1),
                   port |-> After(SubSeq(a, close + 1, Len(a))), v6 |-> TRUE]
        ELSE IF first # last THEN [Opaque(a) EXCEPT !.v6 = TRUE]
        ELSE IF first > 0 /\ last = Len(a) - 1 /\ IsPort(a[Len(a)])
        THEN [host |-> SubSeq(a, 1, last - 1), port |-> PortOf[a[Len(a)]],
              v6 |-> FALSE]
        ELSE Opaque(a)

PortToken(p) == CHOOSE w \in DOMAIN PortOf : PortOf[w] = p
HeaderHost(auth) ==
    (IF auth.v6 THEN <<"[">> \o auth.host \o <<"]">> ELSE auth.host)
    \o (IF auth.port = NoPort THEN <<>> ELSE <<":", PortToken(auth.port)>>)

IsHttps(target) == target # <<>> /\ target[1] = "https://"

LargestU16 == 65535

\* A URL is complete; to anything else probe.port and probe.path are added.
PlainRequest(target, port, path) ==
    LET url == target # <<>> /\ target[1] = "http://"
        rest == IF url THEN Tail(target) ELSE target
        slash == SelectInSeq(rest, LAMBDA w : w = "/x")
        auth == SplitAuthority(IF url /\ slash > 0
                               THEN SubSeq(rest, 1, slash - 1) ELSE rest)
        named == IF ~url /\ auth.port = NoPort /\ port # 80
                    /\ port > 0 /\ port <= LargestU16
                 THEN [auth EXCEPT !.port = port] ELSE auth
    IN  [header |-> HeaderHost(named), host |-> named.host,
         port |-> IF named.port = NoPort THEN 80 ELSE named.port,
         path |-> IF ~url THEN path ELSE IF slash > 0 THEN "/x" ELSE "/"]
=============================================================================
