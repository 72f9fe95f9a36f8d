----------------------------- MODULE UplinkShapes -----------------------------
(* The small configurations of uplinks the MC modules run on. *)
EXTENDS Integers, TLC

CONSTANTS g1, t1, t2, e1, e2, r1, r2, nobody, nothing, main, nogw  \* model values

\* Pair: one group of two interfaces, t1 preferred.
PairGroupOf == t1 :> g1 @@ t2 :> g1
PairDevice == t1 :> e1 @@ t2 :> e2
PairGateways == e1 :> {r1} @@ e2 :> {r2}
\* The one client installs below the published metrics, the other above.
PairLease == e1 :> 0 @@ e2 :> 6
\* Shared: two probe targets over one interface.
SharedDevice == t1 :> e1 @@ t2 :> e1
SharedGateways == e1 :> {r1}
\* Moving: one interface whose lease may name another gateway.
SoloGroupOf == t1 :> g1
SoloDevice == t1 :> e1
SoloOnce == t1 :> 1
SoloInOrder == t1 :> 0
MovingGateways == e1 :> {r1, r2}
SoloLease == e1 :> 5

InOrder == t1 :> 0 @@ t2 :> 1
Once == t1 :> 1 @@ t2 :> 1
Zero == g1 :> 0
One == g1 :> 1
=============================================================================
