------------------------------ MODULE PeerShapes ------------------------------
(***************************************************************************)
(* The small configurations the MC modules run on.                         *)
(***************************************************************************)
EXTENDS Integers, TLC

CONSTANTS g1, g2, t1, t2, a1, a2, none, nobody, nothing  \* model values

\* Pair: one peer reached over two transports, t1 preferred.
PairGroupOf == t1 :> g1 @@ t2 :> g1
\* Split: two peers with one transport each, sharing the block.
SplitGroupOf == t1 :> g1 @@ t2 :> g2
\* Solo: one peer with one transport.
SoloGroupOf == t1 :> g1

InOrder == t1 :> 0 @@ t2 :> 1
Tied == t1 :> 5 @@ t2 :> 5
Twice == t1 :> 2 @@ t2 :> 2
Once == t1 :> 1 @@ t2 :> 1
SoloInOrder == t1 :> 0
SoloTwice == t1 :> 2
SoloOnce == t1 :> 1

OnePeer(v) == g1 :> v
Hold0 == OnePeer(0)
Hold1 == OnePeer(1)
Hold2 == OnePeer(2)
Age1 == OnePeer(1)
Keep == OnePeer("lastKnownGood")
Drop == OnePeer("unpublish")

TwoHold0 == g1 :> 0 @@ g2 :> 0
TwoAges == g1 :> 1 @@ g2 :> 0
KeepAndDrop == g1 :> "lastKnownGood" @@ g2 :> "unpublish"

\* The addresses the configurations declare: fixed, or edited between starts,
\* to another, to none, and back.
Fixed == {t1 :> a1 @@ t2 :> a2}
SoloFixed == {t1 :> a1}
SplitEdited == {t1 :> a1 @@ t2 :> a2, t1 :> a2 @@ t2 :> a2}
SoloEdited == {t1 :> none, t1 :> a1, t1 :> a2}
=============================================================================
