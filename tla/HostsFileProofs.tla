---------------------------- MODULE HostsFileProofs ----------------------------
(***************************************************************************)
(* What the two writers of the hosts file keep of it, for any names,       *)
(* decisions and static contents, and whatever others do to the file: the  *)
(* detailed writers implement those of ManagedFile, and a name appended    *)
(* under the block survives them.                                          *)
(***************************************************************************)
EXTENDS HostsFile, SequenceTheorems, FiniteSetTheorems, WellFoundedInduction, TLAPS

-----------------------------------------------------------------------------
(* The first and the last of some positions. *)

LEMMA Extremes ==
    ASSUME NEW n \in Nat, NEW I \in SUBSET (1..n), I # {}
    PROVE  /\ \E i \in I : \A j \in I : i <= j
           /\ \E i \in I : \A j \in I : i >= j
<1> DEFINE R == OpToRel(<, Nat)
<1>1. \A x, y \in Nat : x < y => <<x, y>> \in R
  BY DEF OpToRel
<1>2. IsWellFoundedOn(R, Nat)
  BY NatLessThanWellFounded, Zenon
<1> HIDE DEF R
<1>3. ASSUME NEW T \in SUBSET Nat, T # {}
      PROVE  \E x \in T : \A y \in T : x <= y
  <2>1. PICK x \in T : \A y \in T : <<y, x>> \notin R
    BY <1>2, <1>3, WFMin
  <2>2. ASSUME NEW y \in T PROVE x <= y
    <3>1. x \in Nat /\ y \in Nat
      OBVIOUS
    <3>2. ~(y < x)
      BY <1>1, <2>1, <3>1
    <3>3. QED
      BY <3>1, <3>2
  <2>3. QED
    BY <2>2
<1>4. \E i \in I : \A j \in I : i <= j
  BY <1>3
<1>5. \E i \in I : \A j \in I : i >= j
  <2> DEFINE T == {n - i : i \in I}
  <2>1. T \in SUBSET Nat /\ T # {}
    <3>1. \A i \in I : n - i \in Nat
      OBVIOUS
    <3>2. QED
      BY <3>1, Zenon
  <2>2. PICK x \in T : \A y \in T : x <= y
    BY <1>3, <2>1
  <2>3. PICK i \in I : x = n - i
    BY <2>2
  <2>4. \A j \in I : n - i <= n - j
    BY <2>2, <2>3
  <2>5. QED
    BY <2>4
<1>6. QED
  BY <1>4, <1>5

LEMMA FirstOf ==
    ASSUME NEW n \in Nat, NEW I \in SUBSET (1..n), I # {}
    PROVE  Min(I) \in I /\ \A j \in I : Min(I) <= j
<1>1. \E i \in I : \A j \in I : i <= j
  BY Extremes
<1>2. QED
  BY <1>1 DEF Min

LEMMA LastOf ==
    ASSUME NEW n \in Nat, NEW I \in SUBSET (1..n), I # {}
    PROVE  Max(I) \in I /\ \A j \in I : Max(I) >= j
<1>1. \E i \in I : \A j \in I : i >= j
  BY Extremes
<1>2. QED
  BY <1>1 DEF Max

-----------------------------------------------------------------------------
(* Where the code finds the block. *)

LEMMA BeginAtIs ==
    ASSUME NEW f \in Seq(Line)
    PROVE  LET b == BeginAt(f)
           IN  \/ b = 0 /\ \A j \in 1..Len(f) : f[j].kind # "begin"
               \/ /\ b \in 1..Len(f) /\ f[b].kind = "begin"
                  /\ \A j \in 1..(b - 1) : f[j].kind # "begin"
<1> DEFINE I == {i \in 1..Len(f) : f[i].kind = "begin"}
<1>1. BeginAt(f) = IF I # {} THEN Min(I) ELSE 0
  BY DEF BeginAt, SelectInSeq
<1>2. Len(f) \in Nat
  BY LenProperties
<1>3. I # {} => Min(I) \in I /\ \A j \in I : Min(I) <= j
  BY <1>2, FirstOf
<1>4. CASE I = {}
  BY <1>1, <1>4
<1>5. CASE I # {}
  <2> DEFINE m == Min(I)
  <2>1. m \in I /\ \A j \in I : m <= j
    BY <1>3, <1>5
  <2>2. BeginAt(f) = m
    BY <1>1, <1>5
  <2> HIDE DEF m
  <2>3. QED
    BY <1>2, <2>1, <2>2
<1>6. QED
  BY <1>4, <1>5

LEMMA BlockEndIs ==
    ASSUME NEW f \in Seq(Line), NEW b \in Nat \ {0}
    PROVE  LET e == BlockEnd(f, b)
           IN  \/ e = 0 /\ \A j \in b..Len(f) : f[j].kind # "end"
               \/ /\ e \in b..Len(f) /\ f[e].kind = "end"
                  /\ \A j \in b..(e - 1) : f[j].kind # "end"
<1> DEFINE I == {i \in b..Len(f) : f[i].kind = "end"}
<1>1. BlockEnd(f, b) = IF I # {} THEN Min(I) ELSE 0
  BY DEF BlockEnd, SelectInSubSeq
<1>2. Len(f) \in Nat /\ I \in SUBSET (1..Len(f))
  BY LenProperties
<1>3. I # {} => Min(I) \in I /\ \A j \in I : Min(I) <= j
  BY <1>2, FirstOf
<1>4. CASE I = {}
  BY <1>1, <1>4
<1>5. CASE I # {}
  <2> DEFINE m == Min(I)
  <2>1. m \in I /\ \A j \in I : m <= j
    BY <1>3, <1>5
  <2>2. BlockEnd(f, b) = m
    BY <1>1, <1>5
  <2> HIDE DEF m
  <2>3. QED
    BY <1>2, <2>1, <2>2
<1>6. QED
  BY <1>4, <1>5

LEMMA TrimIs ==
    ASSUME NEW f \in Seq(Line)
    PROVE  \E t \in 0..Len(f) :
              /\ TrimBlanks(f) = SubSeq(f, 1, t)
              /\ \A j \in (t + 1)..Len(f) : f[j].kind = "blank"
              /\ t = 0 \/ f[t].kind # "blank"
<1> DEFINE I == {i \in 1..Len(f) : f[i].kind # "blank"}
           t == IF I # {} THEN Max(I) ELSE 0
<1>1. TrimBlanks(f) = SubSeq(f, 1, t)
  BY DEF TrimBlanks, SelectLastInSeq
<1>2. Len(f) \in Nat
  BY LenProperties
<1>3. I # {} => Max(I) \in I /\ \A j \in I : Max(I) >= j
  BY <1>2, LastOf
<1>4. CASE I = {}
  <2>1. t = 0 /\ \A j \in (t + 1)..Len(f) : f[j].kind = "blank"
    BY <1>4
  <2>2. QED
    BY <1>1, <1>2, <2>1
<1>5. CASE I # {}
  <2>1. t = Max(I)
    BY <1>5
  <2> DEFINE m == Max(I)
  <2>2. m \in 1..Len(f) /\ f[m].kind # "blank" /\ \A j \in I : m >= j
    BY <1>3, <1>5
  <2> HIDE DEF m
  <2>3. \A j \in (m + 1)..Len(f) : f[j].kind = "blank"
    BY <1>2, <2>2
  <2>4. TrimBlanks(f) = SubSeq(f, 1, m)
    BY <1>1, <2>1 DEF m
  <2>5. m \in 0..Len(f)
    BY <1>2, <2>2
  <2>6. QED
    BY <2>2, <2>3, <2>4, <2>5
<1>6. QED
  BY <1>4, <1>5

(* A way to cut a file up; there is one, and the code and the reader's view *)
(* of the file both take it.                                                *)

Cut(f, top, first, last) ==
    /\ first \in 1..(Len(f) + 1) /\ Begins(f, first)
    /\ last \in (first - 1)..Len(f) /\ Ends(f, first, last)
    /\ top \in 0..(first - 1) /\ Tops(f, first, top)

LEMMA CutIsUnique ==
    ASSUME NEW f \in Seq(Line), NEW t, NEW b, NEW e, Cut(f, t, b, e),
           NEW u, NEW c, NEW d, Cut(f, u, c, d)
    PROVE  t = u /\ b = c /\ e = d
<1>1. Len(f) \in Nat
  BY LenProperties
<1>2. b = c
  BY <1>1 DEF Cut, Begins
<1>3. e = d
  BY <1>1, <1>2 DEF Cut, Ends
<1>4. t = u
  BY <1>1, <1>2 DEF Cut, Tops
<1>5. QED
  BY <1>2, <1>3, <1>4

LEMMA RegionsAre ==
    ASSUME NEW f \in Seq(Line), NEW t, NEW b, NEW e, Cut(f, t, b, e)
    PROVE  Regions(f) = [above |-> SubSeq(f, 1, t), block |-> SubSeq(f, b, e),
                         below |-> SubSeq(f, e + 1, Len(f))]
<1> DEFINE first == CHOOSE i \in 1..(Len(f) + 1) : Begins(f, i)
           last == CHOOSE i \in (first - 1)..Len(f) : Ends(f, first, i)
           top == CHOOSE i \in 0..(first - 1) : Tops(f, first, i)
<1>1. first \in 1..(Len(f) + 1) /\ Begins(f, first)
  BY DEF Cut
<1>2. Len(f) \in Nat
  BY LenProperties
<1>3. first = b
  BY <1>1, <1>2 DEF Cut, Begins
<1>4. last \in (b - 1)..Len(f) /\ Ends(f, b, last)
  BY <1>3 DEF Cut
<1>5. top \in 0..(b - 1) /\ Tops(f, b, top)
  BY <1>3 DEF Cut
<1>6. Cut(f, top, b, last)
  BY <1>4, <1>5 DEF Cut
<1>7. last = e /\ top = t
  BY <1>6, CutIsUnique
<1>8. QED
  BY <1>3, <1>7 DEF Regions

\* split_static and the script's awk cut the file where its reader does.
LEMMA CodeCuts ==
    ASSUME NEW f \in Seq(Line)
    PROVE  \E t, b, e :
              /\ Cut(f, t, b, e)
              /\ SplitStatic(f) = [prefix |-> SubSeq(f, 1, t),
                                   suffix |-> SubSeq(f, e + 1, Len(f))]
              /\ FromBlock(f) = SubSeq(f, b, Len(f))
              /\ BeginAt(f) # 0 => b = BeginAt(f)
              /\ HasBlock(f) => e >= b /\ f[e].kind = "end" /\ e = BlockEnd(f, b)
<1>1. Len(f) \in Nat /\ f # NoFile
  BY LenProperties, NoFileAssumption
<1>2. CASE BeginAt(f) = 0
  <2>1. PICK t \in 0..Len(f) : /\ TrimBlanks(f) = SubSeq(f, 1, t)
                               /\ \A j \in (t + 1)..Len(f) : f[j].kind = "blank"
                               /\ t = 0 \/ f[t].kind # "blank"
    BY TrimIs
  <2>2. Cut(f, t, Len(f) + 1, Len(f))
    BY <1>1, <1>2, <2>1, BeginAtIs DEF Cut, Begins, Ends, Tops
  <2>3. SubSeq(f, Len(f) + 1, Len(f)) = <<>>
    BY <1>1, SubSeqEmpty
  <2>4. SplitStatic(f) = [prefix |-> SubSeq(f, 1, t), suffix |-> <<>>]
    BY <1>2, <2>1 DEF SplitStatic
  <2>5. FromBlock(f) = <<>> /\ ~HasBlock(f)
    BY <1>2 DEF FromBlock, HasBlock
  <2>6. QED
    BY <1>2, <2>2, <2>3, <2>4, <2>5
<1>3. CASE BeginAt(f) # 0
  <2> DEFINE b == BeginAt(f)
             p == SubSeq(f, 1, b - 1)
             x == BlockEnd(f, b)
             e == IF x = 0 THEN Len(f) ELSE x
  <2>1. /\ b \in 1..Len(f) /\ f[b].kind = "begin"
        /\ \A j \in 1..(b - 1) : f[j].kind # "begin"
    BY <1>3, BeginAtIs
  <2>2. \/ x = 0 /\ \A j \in b..Len(f) : f[j].kind # "end"
        \/ /\ x \in b..Len(f) /\ f[x].kind = "end"
           /\ \A j \in b..(x - 1) : f[j].kind # "end"
    BY <1>1, <2>1, BlockEndIs
  <2>3. /\ p \in Seq(Line) /\ Len(p) = b - 1
        /\ \A j \in 1..(b - 1) : p[j] = f[j]
    <3>1. \A j \in 1..(b - 1) : f[j] \in Line
      BY <1>1, <2>1, ElementOfSeq
    <3>2. b - 1 \in Int
      BY <1>1, <2>1
    <3> HIDE DEF b
    <3>3. QED
      BY <1>1, <2>1, <3>1, <3>2, SubSeqProperties
  <2>4. PICK t \in 0..(b - 1) : /\ TrimBlanks(p) = SubSeq(p, 1, t)
                                /\ \A j \in (t + 1)..(b - 1) : p[j].kind = "blank"
                                /\ t = 0 \/ p[t].kind # "blank"
    BY <2>3, TrimIs
  <2>5. SubSeq(p, 1, t) = SubSeq(f, 1, t)
    <3> HIDE DEF b, p
    <3>1. QED
      BY <1>1, <2>1, <2>3, <2>4
  <2>6. Cut(f, t, b, e)
    <3> HIDE DEF b, p, x
    <3>1. t = 0 \/ f[t].kind # "blank"
      BY <2>1, <2>3, <2>4
    <3>2. Tops(f, b, t)
      <4>1. b \in Int /\ t \in Int
        BY <1>1, <2>1, <2>4
      <4>2. \A j \in (t + 1)..(b - 1) : j \in 1..(b - 1)
        BY <2>4, <4>1
      <4>3. \A j \in (t + 1)..(b - 1) : f[j].kind = "blank"
        BY <2>3, <2>4, <4>2
      <4>4. QED
        BY <3>1, <4>3 DEF Tops
    <3>3. Begins(f, b)
      BY <1>1, <2>1 DEF Begins
    <3>4. Ends(f, b, e) /\ e \in (b - 1)..Len(f)
      BY <1>1, <2>1, <2>2 DEF Ends
    <3>5. QED
      BY <1>1, <2>1, <2>4, <3>2, <3>3, <3>4 DEF Cut
  <2>7. SplitStatic(f) = [prefix |-> SubSeq(f, 1, t),
                          suffix |-> IF x = 0 THEN <<>> ELSE SubSeq(f, x + 1, Len(f))]
    BY <1>3, <2>4, <2>5 DEF SplitStatic
  <2>8. (IF x = 0 THEN <<>> ELSE SubSeq(f, x + 1, Len(f))) = SubSeq(f, e + 1, Len(f))
    <3> HIDE DEF b, x
    <3>1. SubSeq(f, Len(f) + 1, Len(f)) = <<>>
      BY <1>1, SubSeqEmpty
    <3>2. QED
      BY <3>1
  <2>9. FromBlock(f) = SubSeq(f, b, Len(f))
    BY <1>1, <1>3 DEF FromBlock
  <2>10. HasBlock(f) => e >= b /\ f[e].kind = "end" /\ e = BlockEnd(f, b)
    <3>1. HasBlock(f) => x # 0
      BY DEF HasBlock
    <3> HIDE DEF b, x
    <3>2. QED
      BY <1>1, <2>1, <2>2, <3>1 DEF x
  <2> HIDE DEF e, x, p
  <2>11. QED
    BY <2>6, <2>7, <2>8, <2>9, <2>10
<1>4. QED
  BY <1>2, <1>3

-----------------------------------------------------------------------------
(* What the writers put together: something above, a block, something      *)
(* below.                                                                  *)

LEMMA JoinedIs ==
    ASSUME NEW L, NEW p \in Seq(L), NEW b \in Seq(L), NEW s \in Seq(L)
    PROVE  LET f == p \o b \o s
           IN  /\ f \in Seq(L) /\ Len(f) = Len(p) + Len(b) + Len(s)
               /\ \A i \in 1..Len(p) : f[i] = p[i]
               /\ \A i \in 1..Len(b) : f[Len(p) + i] = b[i]
               /\ \A i \in 1..Len(s) : f[Len(p) + Len(b) + i] = s[i]
<1>1. /\ p \o b \in Seq(L) /\ Len(p \o b) = Len(p) + Len(b)
      /\ \A i \in 1..Len(p) + Len(b) :
            (p \o b)[i] = IF i <= Len(p) THEN p[i] ELSE b[i - Len(p)]
  BY ConcatProperties
<1> DEFINE q == p \o b
<1>2. /\ q \o s \in Seq(L) /\ Len(q \o s) = Len(q) + Len(s)
      /\ \A i \in 1..Len(q) + Len(s) :
            (q \o s)[i] = IF i <= Len(q) THEN q[i] ELSE s[i - Len(q)]
  BY <1>1, ConcatProperties
<1>3. Len(p) \in Nat /\ Len(b) \in Nat /\ Len(s) \in Nat
  BY LenProperties
<1> DEFINE f == q \o s
           k == Len(p)
           m == Len(b)
           n == Len(s)
<1>4. /\ k \in Nat /\ m \in Nat /\ n \in Nat /\ Len(q) = k + m
      /\ Len(f) = k + m + n
      /\ \A i \in 1..(k + m) : q[i] = IF i <= k THEN p[i] ELSE b[i - k]
      /\ \A i \in 1..(k + m + n) : f[i] = IF i <= k + m THEN q[i] ELSE s[i - (k + m)]
  BY <1>1, <1>2, <1>3
<1>5. f \in Seq(L)
  BY <1>2
<1> HIDE DEF f, q, k, m, n
<1>6. ASSUME NEW i \in 1..k PROVE f[i] = p[i]
  BY <1>4
<1>7. ASSUME NEW i \in 1..m PROVE f[k + i] = b[i]
  <2>1. k + i \in 1..(k + m) /\ k + i \in 1..(k + m + n) /\ (k + i) - k = i
    BY <1>4
  <2>2. ~(k + i <= k)
    BY <1>4
  <2>3. QED
    BY <1>4, <2>1, <2>2
<1>8. ASSUME NEW i \in 1..n PROVE f[k + m + i] = s[i]
  <2>1. k + m + i \in 1..(k + m + n) /\ (k + m + i) - (k + m) = i
    BY <1>4
  <2>2. ~(k + m + i <= k + m)
    BY <1>4
  <2>3. QED
    BY <1>4, <2>1, <2>2
<1>9. QED
  BY <1>4, <1>5, <1>6, <1>7, <1>8 DEF f, q, k, m, n

IsBlock(b) ==
    /\ b \in Seq(Line) /\ Len(b) > 1
    /\ b[1].kind = "begin" /\ b[Len(b)].kind = "end"
    /\ \A i \in 1..(Len(b) - 1) : b[i].kind # "end"

\* What may be above a block: no other block, and no empty line at its end.
IsAbove(p) ==
    /\ \A i \in 1..Len(p) : p[i].kind # "begin"
    /\ Len(p) # 0 => p[Len(p)].kind # "blank"

\* A piece of f of n lines from m on.
LEMMA PieceIs ==
    ASSUME NEW f, NEW q \in Seq(Line), NEW m \in Int,
           \A i \in 1..Len(q) : f[m + i] = q[i]
    PROVE  SubSeq(f, m + 1, m + Len(q)) = q
<1> DEFINE n == Len(q)
           x == SubSeq(f, m + 1, m + n)
<1>1. n \in Nat /\ \A i \in 1..n : q[i] \in Line
  BY LenProperties, ElementOfSeq
<1> HIDE DEF n
<1>2. \A i \in 1..n : f[m + i] = q[i]
  BY DEF n
<1>3. \A i \in (m + 1)..(m + n) : f[i] \in Line
  <2> SUFFICES ASSUME NEW i \in (m + 1)..(m + n) PROVE f[i] \in Line
    OBVIOUS
  <2>1. i - m \in 1..n /\ m + (i - m) = i
    BY <1>1
  <2>2. QED
    BY <1>1, <1>2, <2>1
<1>4. m + 1 \in Int /\ m + n \in Int
  BY <1>1
<1>5. /\ x \in Seq(Line)
      /\ Len(x) = IF m + 1 <= m + n THEN (m + n) - (m + 1) + 1 ELSE 0
      /\ \A i \in 1..((m + n) - (m + 1) + 1) : x[i] = f[(m + 1) + i - 1]
  BY <1>3, <1>4, SubSeqProperties
<1>6. Len(x) = n
  BY <1>1, <1>5
<1>7. \A i \in 1..n : x[i] = q[i]
  <2> SUFFICES ASSUME NEW i \in 1..n PROVE x[i] = q[i]
    OBVIOUS
  <2>1. i \in 1..((m + n) - (m + 1) + 1) /\ (m + 1) + i - 1 = m + i
    BY <1>1
  <2>2. QED
    BY <1>2, <1>5, <2>1
<1> HIDE DEF x
<1>8. x = q
  BY <1>5, <1>6, <1>7, SeqEqual DEF n
<1>9. QED
  BY <1>8 DEF x, n

LEMMA JoinedRegions ==
    ASSUME NEW p \in Seq(Line), IsAbove(p), NEW b, IsBlock(b), NEW s \in Seq(Line)
    PROVE  Regions(p \o b \o s) = [above |-> p, block |-> b, below |-> s]
<1> DEFINE f == p \o b \o s
           k == Len(p)
           m == Len(b)
           n == Len(s)
<1>1. b \in Seq(Line)
  BY DEF IsBlock
<1>2. /\ f \in Seq(Line) /\ Len(f) = k + m + n
      /\ \A i \in 1..k : f[i] = p[i]
      /\ \A i \in 1..m : f[k + i] = b[i]
      /\ \A i \in 1..n : f[k + m + i] = s[i]
  BY <1>1, JoinedIs
<1>3. k \in Nat /\ m \in Nat /\ n \in Nat /\ m > 1
  BY <1>1, LenProperties DEF IsBlock
<1>4. /\ \A i \in 1..k : p[i].kind # "begin"
      /\ k # 0 => p[k].kind # "blank"
      /\ b[1].kind = "begin" /\ b[m].kind = "end"
      /\ \A i \in 1..(m - 1) : b[i].kind # "end"
  BY DEF IsAbove, IsBlock
<1>5. f = p \o b \o s
  OBVIOUS
<1>6. SubSeq(f, 1, k) = p /\ SubSeq(f, k + 1, k + m) = b /\ SubSeq(f, k + m + 1, Len(f)) = s
  <2> HIDE DEF f
  <2>1. SubSeq(f, 0 + 1, 0 + Len(p)) = p
    <3>1. \A i \in 1..Len(p) : f[0 + i] = p[i]
      BY <1>2
    <3>2. QED
      BY <3>1, PieceIs
  <2>2. SubSeq(f, k + 1, k + Len(b)) = b
    <3>1. k \in Int
      BY <1>3
    <3>2. \A i \in 1..Len(b) : f[k + i] = b[i]
      BY <1>2
    <3> HIDE DEF k
    <3>3. QED
      BY <1>1, <3>1, <3>2, PieceIs
  <2>3. SubSeq(f, (k + m) + 1, (k + m) + Len(s)) = s
    <3>1. k + m \in Int
      BY <1>3
    <3>2. QED
      BY <1>2, <3>1, PieceIs
  <2>4. QED
    BY <1>2, <1>3, <2>1, <2>2, <2>3
<1> HIDE DEF f, k, m, n
<1>7. Cut(f, k, k + 1, k + m)
  <2>1. k + 1 \in 1..(Len(f) + 1) /\ k + m \in (k + 1 - 1)..Len(f) /\ k \in 0..(k + 1 - 1)
    BY <1>2, <1>3
  <2>2. Begins(f, k + 1)
    <3>1. f[k + 1].kind = "begin"
      BY <1>2, <1>3, <1>4
    <3>2. \A j \in 1..(k + 1 - 1) : f[j].kind # "begin"
      BY <1>2, <1>3, <1>4
    <3>3. QED
      BY <1>3, <3>1, <3>2 DEF Begins
  <2>3. Ends(f, k + 1, k + m)
    <3>1. f[k + m].kind = "end" /\ k + m >= k + 1
      BY <1>2, <1>3, <1>4
    <3>2. ASSUME NEW j \in (k + 1)..(k + m - 1)
          PROVE  f[j].kind # "end"
      <4>1. j - k \in 1..(m - 1) /\ j - k \in 1..m /\ k + (j - k) = j
        BY <1>3
      <4>2. QED
        BY <1>2, <1>4, <4>1
    <3>3. QED
      BY <1>3, <3>1, <3>2 DEF Ends
  <2>4. Tops(f, k + 1, k)
    <3>1. k = 0 \/ f[k].kind # "blank"
      BY <1>2, <1>3, <1>4
    <3>2. \A j \in (k + 1)..(k + 1 - 1) : FALSE
      BY <1>3
    <3>3. QED
      BY <1>3, <3>1, <3>2 DEF Tops
  <2>5. QED
    BY <1>3, <2>1, <2>2, <2>3, <2>4 DEF Cut
<1>8. Regions(f) = [above |-> p, block |-> b, below |-> s]
  <2>1. (k + m) + 1 = k + m + 1
    BY <1>3
  <2>2. Regions(f) = [above |-> SubSeq(f, 1, k), block |-> SubSeq(f, k + 1, k + m),
                      below |-> SubSeq(f, (k + m) + 1, Len(f))]
    BY <1>2, <1>7, RegionsAre
  <2>3. QED
    BY <1>6, <2>1, <2>2
<1>9. QED
  BY <1>5, <1>8

\* What the script carries over: another upper region, the rest as it was.
LEMMA CopiedRegions ==
    ASSUME NEW s \in Seq(Line), IsAbove(s), NEW f \in Seq(Line)
    PROVE  LET c == s \o FromBlock(f)
           IN  /\ c \in Seq(Line)
               /\ Regions(c) = [above |-> s, block |-> Regions(f).block,
                                below |-> Regions(f).below]
<1> DEFINE k == Len(s)
           n == Len(f)
<1>1. PICK t, b, e : Cut(f, t, b, e) /\ FromBlock(f) = SubSeq(f, b, n)
  BY CodeCuts
<1>2. k \in Nat /\ n \in Nat /\ \A i \in 1..n : f[i] \in Line
  BY LenProperties, ElementOfSeq
<1>3. b \in 1..(n + 1) /\ e \in (b - 1)..n
  BY <1>1 DEF Cut
<1> DEFINE q == SubSeq(f, b, n)
           c == s \o q
<1>4. /\ q \in Seq(Line) /\ Len(q) = n - b + 1
      /\ \A i \in 1..(n - b + 1) : q[i] = f[b + i - 1]
  <2>1. b \in Int /\ n \in Int /\ \A i \in b..n : f[i] \in Line
    BY <1>2, <1>3
  <2>2. /\ q \in Seq(Line) /\ Len(q) = (IF b <= n THEN n - b + 1 ELSE 0)
        /\ \A i \in 1..(n - b + 1) : q[i] = f[b + i - 1]
    BY <2>1, SubSeqProperties
  <2>3. QED
    BY <1>2, <1>3, <2>2
<1>5. /\ c \in Seq(Line) /\ Len(c) = k + Len(q)
      /\ \A i \in 1..(k + Len(q)) : c[i] = IF i <= k THEN s[i] ELSE q[i - k]
  BY <1>4, ConcatProperties
<1>6. c = s \o FromBlock(f)
  BY <1>1
<1> HIDE DEF c, q, k, n
<1>7. /\ Len(c) = k + (n - b + 1)
      /\ \A i \in 1..k : c[i] = s[i]
      /\ \A i \in b..n : c[k + i - b + 1] = f[i]
  <2>1. ASSUME NEW i \in b..n PROVE c[k + i - b + 1] = f[i]
    <3>1. /\ k + i - b + 1 \in 1..(k + Len(q)) /\ ~(k + i - b + 1 <= k)
          /\ (k + i - b + 1) - k = i - b + 1 /\ i - b + 1 \in 1..(n - b + 1)
          /\ b + (i - b + 1) - 1 = i
      BY <1>2, <1>3, <1>4
    <3>2. QED
      BY <1>4, <1>5, <3>1
  <2>2. ASSUME NEW i \in 1..k PROVE c[i] = s[i]
    BY <1>2, <1>3, <1>4, <1>5
  <2>3. QED
    BY <1>4, <1>5, <2>1, <2>2
<1>8. /\ Begins(f, b) /\ Ends(f, b, e)
      /\ \A i \in 1..k : s[i].kind # "begin"
      /\ k # 0 => s[k].kind # "blank"
  BY <1>1 DEF Cut, IsAbove, k
<1>9. Cut(c, k, k + 1, k + e - b + 1)
  <2>1. /\ k + 1 \in 1..(Len(c) + 1) /\ k + e - b + 1 \in (k + 1 - 1)..Len(c)
        /\ k \in 0..(k + 1 - 1)
    BY <1>2, <1>3, <1>7
  <2>2. Begins(c, k + 1)
    <3>1. \A j \in 1..(k + 1 - 1) : c[j].kind # "begin"
      BY <1>2, <1>7, <1>8
    <3>2. CASE b = n + 1
      BY <1>2, <1>7, <3>1, <3>2 DEF Begins
    <3>3. CASE b \in 1..n
      <4>1. c[k + b - b + 1] = f[b] /\ k + b - b + 1 = k + 1
        BY <1>2, <1>7, <3>3
      <4>2. f[b].kind = "begin"
        BY <1>2, <1>8, <3>3 DEF Begins, n
      <4>3. QED
        BY <1>2, <3>1, <4>1, <4>2 DEF Begins
    <3>4. QED
      BY <1>2, <1>3, <3>2, <3>3
  <2>3. Ends(c, k + 1, k + e - b + 1)
    <3>1. ASSUME NEW j \in (k + 1)..(k + e - b + 1 - 1)
          PROVE  c[j].kind # "end"
      <4>1. (j - k + b - 1) \in b..(e - 1) /\ (j - k + b - 1) \in b..n
            /\ k + (j - k + b - 1) - b + 1 = j
        BY <1>2, <1>3
      <4>2. QED
        BY <1>7, <1>8, <4>1 DEF Ends
    <3>2. CASE e = n
      <4>1. k + e - b + 1 = Len(c)
        BY <1>2, <1>3, <1>7, <3>2
      <4>2. QED
        BY <1>2, <1>3, <3>1, <4>1 DEF Ends
    <3>3. CASE e # n
      <4>1. e >= b /\ f[e].kind = "end"
        BY <1>8, <3>3 DEF Ends, n
      <4>2. e \in b..n /\ k + e - b + 1 >= k + 1
        BY <1>2, <1>3, <4>1
      <4>3. c[k + e - b + 1].kind = "end"
        BY <1>7, <4>1, <4>2
      <4>4. QED
        BY <1>2, <1>3, <3>1, <4>2, <4>3 DEF Ends
    <3>4. QED
      BY <3>2, <3>3
  <2>4. Tops(c, k + 1, k)
    <3>1. \A j \in (k + 1)..(k + 1 - 1) : FALSE
      BY <1>2
    <3>2. k = 0 \/ c[k].kind # "blank"
      BY <1>2, <1>7, <1>8
    <3>3. QED
      BY <1>2, <3>1, <3>2 DEF Tops
  <2>5. QED
    BY <1>2, <2>1, <2>2, <2>3, <2>4 DEF Cut
<1>10. Regions(c) = [above |-> SubSeq(c, 1, k), block |-> SubSeq(c, k + 1, k + e - b + 1),
                     below |-> SubSeq(c, k + e - b + 1 + 1, Len(c))]
  BY <1>5, <1>9, RegionsAre
<1>11. Regions(f) = [above |-> SubSeq(f, 1, t), block |-> SubSeq(f, b, e),
                     below |-> SubSeq(f, e + 1, n)]
  BY <1>1, RegionsAre DEF n
<1>12. SubSeq(c, 1, k) = s
  <2>1. \A i \in 1..Len(s) : c[0 + i] = s[i]
    BY <1>7 DEF k
  <2>2. SubSeq(c, 0 + 1, 0 + Len(s)) = s
    BY <2>1, PieceIs
  <2>3. QED
    BY <1>2, <2>2 DEF k
<1>13. ASSUME NEW x \in b..(n + 1), NEW y \in (x - 1)..n
       PROVE  SubSeq(c, k + x - b + 1, k + y - b + 1) = SubSeq(f, x, y)
  <2> DEFINE u == SubSeq(f, x, y)
             m == k + x - b
  <2>1. x \in Int /\ y \in Int /\ m \in Int /\ \A i \in x..y : f[i] \in Line
    BY <1>2, <1>3
  <2>2. /\ u \in Seq(Line) /\ Len(u) = (IF x <= y THEN y - x + 1 ELSE 0)
        /\ \A i \in 1..(y - x + 1) : u[i] = f[x + i - 1]
    BY <2>1, SubSeqProperties
  <2>3. Len(u) = y - x + 1
    BY <1>3, <2>1, <2>2
  <2> HIDE DEF u
  <2>4. ASSUME NEW i \in 1..Len(u) PROVE c[m + i] = u[i]
    <3>1. x + i - 1 \in b..n /\ k + (x + i - 1) - b + 1 = m + i /\ i \in 1..(y - x + 1)
      BY <1>2, <1>3, <2>1, <2>3
    <3>2. QED
      BY <1>7, <2>2, <3>1
  <2>5. SubSeq(c, m + 1, m + Len(u)) = u
    BY <2>1, <2>2, <2>4, PieceIs
  <2>6. m + 1 = k + x - b + 1 /\ m + Len(u) = k + y - b + 1
    BY <1>2, <1>3, <2>1, <2>3
  <2>7. QED
    BY <2>5, <2>6 DEF u
<1>14. SubSeq(c, k + 1, k + e - b + 1) = SubSeq(f, b, e)
  <2>1. SubSeq(c, k + b - b + 1, k + e - b + 1) = SubSeq(f, b, e)
    <3>1. b \in b..(n + 1)
      BY <1>2, <1>3
    <3>2. QED
      BY <1>3, <1>13, <3>1
  <2>2. k + b - b + 1 = k + 1
    BY <1>2, <1>3
  <2>3. QED
    BY <2>1, <2>2
<1>15. SubSeq(c, k + e - b + 1 + 1, Len(c)) = SubSeq(f, e + 1, n)
  <2>1. e + 1 \in b..(n + 1) /\ n \in ((e + 1) - 1)..n
    BY <1>2, <1>3
  <2>2. SubSeq(c, k + (e + 1) - b + 1, k + n - b + 1) = SubSeq(f, e + 1, n)
    BY <1>13, <2>1
  <2>3. k + (e + 1) - b + 1 = k + e - b + 1 + 1 /\ k + n - b + 1 = Len(c)
    BY <1>2, <1>3, <1>7
  <2>4. QED
    BY <2>2, <2>3
<1>16. Regions(f).block = SubSeq(f, b, e) /\ Regions(f).below = SubSeq(f, e + 1, n)
  <2> DEFINE above == SubSeq(f, 1, t)
             block == SubSeq(f, b, e)
             below == SubSeq(f, e + 1, n)
  <2>1. Regions(f) = [above |-> above, block |-> block, below |-> below]
    BY <1>11
  <2> HIDE DEF above, block, below
  <2>2. Regions(f).block = block /\ Regions(f).below = below
    BY <2>1
  <2>3. QED
    BY <2>2 DEF block, below
<1>17. Regions(c) = [above |-> s, block |-> Regions(f).block, below |-> Regions(f).below]
  <2>1. k + e - b + 1 + 1 = (k + e - b + 1) + 1
    BY <1>2, <1>3
  <2>2. QED
    BY <1>10, <1>12, <1>14, <1>15, <1>16, <2>1
<1>18. QED
  BY <1>5, <1>6, <1>17

-----------------------------------------------------------------------------
(* The blocks, the declared contents and the lines of others.              *)

\* A line of a file at rest: no time in it is that of this tick.
Old == {l \in Line : l.at = 0}

LEMMA OldFiles ==
    ASSUME NEW f \in Seq(Old)
    PROVE  f \in Seq(Line) /\ f # NoFile
<1>1. f \in Seq(Line)
  BY SeqMonotonic DEF Old
<1>2. QED
  BY <1>1, NoFileAssumption

LEMMA FunctionIsSeq ==
    ASSUME NEW n \in Nat, NEW L, NEW f \in [1..n -> L]
    PROVE  f \in Seq(L) /\ Len(f) = n
OBVIOUS

LEMMA MarksAreLines ==
    /\ Begin \in Old /\ End \in Old /\ Blank \in Old /\ Bytes \in Old
    /\ Written \in Line
    /\ Begin.kind = "begin" /\ End.kind = "end" /\ Blank.kind = "blank"
    /\ Bytes.kind = "bytes" /\ Written.kind = "written"
BY DEF Begin, End, Blank, Bytes, Mark, Written, Line, Old

LEMMA NamesAreLines ==
    ASSUME NEW h \in Others
    PROVE  Foreign(h) \in Old /\ Foreign(h).kind = "entry" /\ Foreign(h).at = 0
BY DEF Foreign, Line, Old

LEMMA EntriesAreLines ==
    ASSUME NEW d \in Decisions, NEW k \in 1..Cardinality(d)
    PROVE  LET e == ByAddress[d][k]
           IN  /\ EntryLine(e) \in Old /\ EntryLine(e).kind = "entry"
               /\ Confirmed(e) \in Line /\ Confirmed(e).kind = "confirmed"
<1> DEFINE e == ByAddress[d][k]
<1>1. e \in Rendered
  BY DEF Rendered
<1> HIDE DEF e
<1>2. EntryLine(e) \in Old /\ EntryLine(e).kind = "entry"
  BY <1>1 DEF EntryLine, Line, Old
<1>3. Confirmed(e) \in Line /\ Confirmed(e).kind = "confirmed"
  BY <1>1 DEF Confirmed, Line
<1>4. QED
  BY <1>2, <1>3 DEF e

LEMMA Counts ==
    ASSUME NEW d \in Decisions
    PROVE  Cardinality(d) \in Nat
BY HostsAssumption, FS_CardinalityType

\* Lines between a BEGIN and an END, none of them an END.
LEMMA Enclosed ==
    ASSUME NEW L, NEW q \in Seq(L), NEW p \in Seq(L), L \subseteq Line,
           Begin \in L, End \in L,
           \A i \in 1..Len(p) : p[i].kind # "end",
           \A i \in 1..Len(q) : q[i].kind # "end"
    PROVE  /\ IsBlock(<<Begin>> \o p \o q \o <<End>>)
           /\ <<Begin>> \o p \o q \o <<End>> \in Seq(L)
<1> DEFINE b == <<Begin>> \o p \o q
           c == b \o <<End>>
           m == Len(p)
           n == Len(q)
<1>1. <<Begin>> \in Seq(L) /\ Len(<<Begin>>) = 1 /\ <<Begin>>[1] = Begin
  OBVIOUS
<1>2. <<End>> \in Seq(L) /\ Len(<<End>>) = 1 /\ <<End>>[1] = End
  OBVIOUS
<1>3. m \in Nat /\ n \in Nat
  BY LenProperties
<1>4. /\ b \in Seq(L) /\ Len(b) = 1 + m + n
      /\ \A i \in 1..1 : b[i] = <<Begin>>[i]
      /\ \A i \in 1..m : b[1 + i] = p[i]
      /\ \A i \in 1..n : b[1 + m + i] = q[i]
  BY <1>1, JoinedIs
<1>5. /\ c \in Seq(L) /\ Len(c) = Len(b) + 1
      /\ \A i \in 1..Len(b) + 1 :
            c[i] = IF i <= Len(b) THEN b[i] ELSE <<End>>[i - Len(b)]
  BY <1>2, <1>4, ConcatProperties
<1> HIDE DEF b, c
<1>6. \A i \in 1..m : p[i].kind # "end"
  OBVIOUS
<1>7. \A i \in 1..n : q[i].kind # "end"
  OBVIOUS
<1> HIDE DEF m, n
<1>8. Len(c) = 2 + m + n /\ c[1] = Begin /\ c[2 + m + n] = End
  <2>1. 1 \in 1..Len(b) + 1 /\ 1 <= Len(b) /\ b[1] = Begin
    BY <1>1, <1>3, <1>4
  <2>2. /\ 2 + m + n \in 1..Len(b) + 1 /\ ~(2 + m + n <= Len(b))
        /\ (2 + m + n) - Len(b) = 1
    BY <1>3, <1>4
  <2>3. QED
    BY <1>2, <1>3, <1>4, <1>5, <2>1, <2>2
<1>9. ASSUME NEW i \in 1..(1 + m + n)
      PROVE  c[i].kind # "end"
  <2>1. c[i] = b[i]
    BY <1>3, <1>4, <1>5
  <2>2. CASE i = 1
    BY <1>1, <1>4, <2>1, <2>2, MarksAreLines
  <2>3. CASE i \in 2..(1 + m)
    <3>1. i - 1 \in 1..m /\ 1 + (i - 1) = i
      BY <1>3, <2>3
    <3>2. QED
      BY <1>4, <1>6, <2>1, <3>1
  <2>4. CASE i \in (2 + m)..(1 + m + n)
    <3>1. i - 1 - m \in 1..n /\ 1 + m + (i - 1 - m) = i
      BY <1>3, <2>4
    <3>2. QED
      BY <1>4, <1>7, <2>1, <3>1
  <2>5. QED
    BY <1>3, <2>2, <2>3, <2>4
<1>10. c \in Seq(Line)
  BY <1>5, SeqMonotonic
<1>11. IsBlock(c)
  <2>1. Len(c) > 1 /\ Len(c) - 1 = 1 + m + n
    BY <1>3, <1>8
  <2>2. QED
    BY <1>8, <1>9, <1>10, <2>1, MarksAreLines DEF IsBlock
<1>12. QED
  BY <1>5, <1>11 DEF b, c

LEMMA RenderIsBlock ==
    ASSUME NEW d \in Decisions
    PROVE  IsBlock(Render(d)) /\ Render(d) \in Seq(Line)
<1> DEFINE n == Cardinality(d)
           q == RenderEntries(d)
<1>1. n \in Nat
  BY Counts
<1> HIDE DEF n
<1>2. ASSUME NEW k \in 1..(2 * n)
      PROVE  q[k] \in Line /\ q[k].kind # "end"
  <2> DEFINE i == (k + 1) \div 2
             e == ByAddress[d][i]
  <2>1. i \in 1..n
    BY <1>1
  <2>2. q[k] = IF k % 2 = 1 THEN Confirmed(e) ELSE EntryLine(e)
    BY DEF RenderEntries, n
  <2> HIDE DEF i, q
  <2>3. /\ EntryLine(e) \in Line /\ EntryLine(e).kind = "entry"
        /\ Confirmed(e) \in Line /\ Confirmed(e).kind = "confirmed"
    BY <2>1, EntriesAreLines DEF n, Old
  <2>4. QED
    BY <2>2, <2>3
<1>3. q \in [1..(2 * n) -> Line]
  <2>1. q = [k \in 1..(2 * n) |-> q[k]]
    BY DEF RenderEntries, n
  <2> HIDE DEF q
  <2>2. QED
    BY <1>2, <2>1
<1>4. q \in Seq(Line) /\ Len(q) = 2 * n
  <2> HIDE DEF q
  <2>1. 2 * n \in Nat
    BY <1>1
  <2>2. QED
    BY <1>3, <2>1, FunctionIsSeq
<1>5. \A i \in 1..Len(q) : q[i].kind # "end"
  BY <1>2, <1>4
<1>6. <<Written>> \in Seq(Line) /\ \A i \in 1..Len(<<Written>>) : <<Written>>[i].kind # "end"
  BY MarksAreLines
<1> HIDE DEF q
<1>7. <<Begin>> \o <<Written>> = <<Begin, Written>>
  <2>1. <<Begin>> \in Seq(Line) /\ <<Written>> \in Seq(Line) /\ <<Begin, Written>> \in Seq(Line)
    BY MarksAreLines DEF Old
  <2> DEFINE x == <<Begin>>
             y == <<Written>>
             z == <<Begin, Written>>
  <2>2. Len(x) = 1 /\ Len(y) = 1 /\ Len(z) = 2 /\ x[1] = z[1] /\ y[1] = z[2]
    OBVIOUS
  <2> HIDE DEF x, y, z
  <2>3. /\ x \o y \in Seq(Line) /\ Len(x \o y) = 2
        /\ \A i \in 1..2 : (x \o y)[i] = IF i <= 1 THEN x[i] ELSE y[i - 1]
    BY <2>1, <2>2, ConcatProperties DEF x, y
  <2>4. \A i \in 1..2 : (x \o y)[i] = z[i]
    BY <2>2, <2>3
  <2>5. x \o y = z
    BY <2>1, <2>2, <2>3, <2>4, SeqEqual DEF z
  <2>6. QED
    BY <2>5 DEF x, y, z
<1>8. Begin \in Line /\ End \in Line
  BY MarksAreLines DEF Old
<1>9. /\ IsBlock(<<Begin>> \o <<Written>> \o q \o <<End>>)
      /\ <<Begin>> \o <<Written>> \o q \o <<End>> \in Seq(Line)
  BY <1>4, <1>5, <1>6, <1>8, Enclosed
<1>10. QED
  BY <1>7, <1>9 DEF Render, q

LEMMA RenderSeedIsBlock ==
    ASSUME NEW d \in Decisions
    PROVE  IsBlock(RenderSeed(d)) /\ RenderSeed(d) \in Seq(Old)
<1> DEFINE n == Cardinality(d)
           q == [i \in 1..n |-> EntryLine(ByAddress[d][i])]
<1>1. n \in Nat
  BY Counts
<1>2. \A i \in 1..n : q[i] \in Old /\ q[i].kind # "end"
  BY EntriesAreLines
<1>3. q \in [1..n -> Old]
  BY <1>2
<1> HIDE DEF n
<1>4. RenderSeed(d) = <<Begin>> \o q \o <<End>>
  BY DEF RenderSeed, n
<1> HIDE DEF q
<1>5. q \in Seq(Old) /\ Len(q) = n
  BY <1>1, <1>3, FunctionIsSeq
<1>6. <<>> \in Seq(Old) /\ \A i \in 1..Len(<<>>) : <<>>[i].kind # "end"
  OBVIOUS
<1>7. Old \subseteq Line
  BY DEF Old
<1>8. /\ IsBlock(<<Begin>> \o q \o <<>> \o <<End>>)
      /\ <<Begin>> \o q \o <<>> \o <<End>> \in Seq(Old)
  BY <1>2, <1>5, <1>6, <1>7, MarksAreLines, Enclosed
<1>9. <<Begin>> \o q \in Seq(Old)
  BY <1>5, MarksAreLines, ConcatProperties
<1>10. <<Begin>> \o q \o <<>> = <<Begin>> \o q
  BY <1>9, ConcatEmptySeq
<1>11. QED
  BY <1>4, <1>8, <1>10

LEMMA StaticsAre ==
    ASSUME NEW s \in Statics
    PROVE  s \in Seq(Old) /\ IsAbove(s)
<1> DEFINE E == [kind : {"entry"}, addr : {0}, host : STRING, at : {0}]
<1>1. s \in Seq(E)
  BY HostsAssumption
<1>2. E \subseteq Old
  BY DEF Line, Old
<1>3. s \in Seq(Old)
  BY <1>1, <1>2, SeqMonotonic
<1>4. \A i \in 1..Len(s) : s[i].kind = "entry"
  <2> SUFFICES ASSUME NEW i \in 1..Len(s) PROVE s[i].kind = "entry"
    OBVIOUS
  <2>1. s[i] \in E
    BY <1>1, ElementOfSeq
  <2>2. QED
    BY <2>1
<1>5. Len(s) # 0 => Len(s) \in 1..Len(s)
  BY <1>3, LenProperties
<1>6. QED
  BY <1>3, <1>4, <1>5 DEF IsAbove

(* Time goes on: the comments are those of an earlier tick, all else stays. *)

LEMMA AgedLine ==
    ASSUME NEW l \in Line
    PROVE  LET x == [l EXCEPT !.at = 0]
           IN  x \in Old /\ x.kind = l.kind /\ (l.at = 0 => x = l)
<1> DEFINE x == [l EXCEPT !.at = 0]
<1>1. x \in Line /\ x.at = 0 /\ x.kind = l.kind
  BY DEF Line
<1>2. l.at = 0 => x = l
  BY DEF Line
<1>3. QED
  BY <1>1, <1>2 DEF Old

LEMMA AgedIs ==
    ASSUME NEW f \in Seq(Line)
    PROVE  /\ Aged(f) \in Seq(Old) /\ Len(Aged(f)) = Len(f)
           /\ \A i \in 1..Len(f) : /\ Aged(f)[i] = [f[i] EXCEPT !.at = 0]
                                   /\ Aged(f)[i].kind = f[i].kind
                                   /\ f[i].at = 0 => Aged(f)[i] = f[i]
<1>1. Len(f) \in Nat /\ \A i \in 1..Len(f) : f[i] \in Line
  BY LenProperties, ElementOfSeq
<1>2. \A i \in 1..Len(f) : Aged(f)[i] = [f[i] EXCEPT !.at = 0]
  BY DEF Aged
<1>3. \A i \in 1..Len(f) : /\ Aged(f)[i] \in Old /\ Aged(f)[i].kind = f[i].kind
                           /\ f[i].at = 0 => Aged(f)[i] = f[i]
  BY <1>1, <1>2, AgedLine
<1> DEFINE g == Aged(f)
<1>4. g = [i \in 1..Len(f) |-> g[i]]
  BY DEF Aged
<1> HIDE DEF g
<1>5. g \in [1..Len(f) -> Old]
  BY <1>3, <1>4 DEF g
<1>6. g \in Seq(Old) /\ Len(g) = Len(f)
  BY <1>1, <1>5, FunctionIsSeq
<1>7. QED
  BY <1>2, <1>3, <1>6 DEF g

LEMMA AgedIsBlock ==
    ASSUME NEW b, IsBlock(b)
    PROVE  IsBlock(Aged(b)) /\ Aged(b) \in Seq(Old)
<1>1. b \in Seq(Line) /\ Len(b) > 1
  BY DEF IsBlock
<1>2. Len(b) \in Nat
  BY <1>1, LenProperties
<1>3. Aged(b) \in Seq(Old) /\ Len(Aged(b)) = Len(b)
      /\ \A i \in 1..Len(b) : Aged(b)[i].kind = b[i].kind
  BY <1>1, AgedIs
<1>4. 1 \in 1..Len(b) /\ Len(b) \in 1..Len(b) /\ \A i \in 1..(Len(b) - 1) : i \in 1..Len(b)
  BY <1>1, <1>2
<1>5. Aged(b) \in Seq(Line)
  BY <1>3, OldFiles
<1>6. QED
  BY <1>1, <1>3, <1>4, <1>5 DEF IsBlock

LEMMA AgedJoined ==
    ASSUME NEW p \in Seq(Old), NEW b \in Seq(Line), NEW s \in Seq(Old)
    PROVE  Aged(p \o b \o s) = p \o Aged(b) \o s
<1> DEFINE f == p \o b \o s
           c == Aged(b)
           g == p \o c \o s
           k == Len(p)
           m == Len(b)
           n == Len(s)
<1>1. p \in Seq(Line) /\ s \in Seq(Line)
  BY OldFiles
<1>2. k \in Nat /\ m \in Nat /\ n \in Nat
  BY LenProperties
<1>3. /\ f \in Seq(Line) /\ Len(f) = k + m + n
      /\ \A i \in 1..k : f[i] = p[i]
      /\ \A i \in 1..m : f[k + i] = b[i]
      /\ \A i \in 1..n : f[k + m + i] = s[i]
  BY <1>1, JoinedIs
<1>4. c \in Seq(Old) /\ Len(c) = m
  BY AgedIs
<1>11. \A i \in 1..m : c[i] = [b[i] EXCEPT !.at = 0]
  BY AgedIs
<1> HIDE DEF c
<1>5. /\ g \in Seq(Old) /\ Len(g) = k + m + n
      /\ \A i \in 1..k : g[i] = p[i]
      /\ \A i \in 1..m : g[k + i] = c[i]
      /\ \A i \in 1..n : g[k + m + i] = s[i]
  <2>1. /\ g \in Seq(Old) /\ Len(g) = k + Len(c) + n
        /\ \A i \in 1..k : g[i] = p[i]
        /\ \A i \in 1..Len(c) : g[k + i] = c[i]
        /\ \A i \in 1..n : g[k + Len(c) + i] = s[i]
    <3>1. c \in Seq(Old)
      BY <1>4
    <3>2. ASSUME NEW y \in Seq(Old)
          PROVE  LET x == p \o y \o s
                 IN  /\ x \in Seq(Old) /\ Len(x) = k + Len(y) + n
                     /\ \A i \in 1..k : x[i] = p[i]
                     /\ \A i \in 1..Len(y) : x[k + i] = y[i]
                     /\ \A i \in 1..n : x[k + Len(y) + i] = s[i]
      BY JoinedIs
    <3> HIDE DEF k, m, n
    <3>3. QED
      BY <3>1, <3>2
  <2> HIDE DEF g, k, m, n
  <2>2. QED
    BY <1>4, <2>1
<1>6. (\A i \in 1..k : p[i].at = 0) /\ \A i \in 1..n : s[i].at = 0
  BY ElementOfSeq DEF Old
<1> DEFINE h == Aged(f)
<1> HIDE DEF f, g, k, m, n
<1>7. /\ h \in Seq(Old) /\ Len(h) = Len(f)
      /\ \A i \in 1..Len(f) : f[i].at = 0 => h[i] = f[i]
  BY <1>3, AgedIs
<1>12. \A i \in 1..Len(f) : h[i] = [f[i] EXCEPT !.at = 0]
  BY <1>3, AgedIs
<1> HIDE DEF h
<1>8. ASSUME NEW i \in 1..(k + m + n)
      PROVE  h[i] = g[i]
  <2>1. CASE i \in 1..k
    <3>1. f[i] = p[i] /\ g[i] = p[i] /\ p[i].at = 0
      BY <1>3, <1>5, <1>6, <2>1
    <3>2. QED
      BY <1>3, <1>7, <3>1
  <2>2. CASE i \in (k + 1)..(k + m)
    <3>1. i - k \in 1..m /\ k + (i - k) = i
      BY <1>2, <2>2
    <3>2. f[i] = b[i - k] /\ g[i] = c[i - k]
      BY <1>3, <1>5, <3>1
    <3>3. QED
      BY <1>3, <1>11, <1>12, <3>1, <3>2
  <2>3. CASE i \in (k + m + 1)..(k + m + n)
    <3>1. i - k - m \in 1..n /\ k + m + (i - k - m) = i
      BY <1>2, <2>3
    <3>2. f[i] = s[i - k - m] /\ g[i] = s[i - k - m]
      BY <1>3, <1>5, <3>1
    <3>3. QED
      BY <1>3, <1>6, <1>7, <3>1, <3>2
  <2>4. QED
    BY <1>2, <2>1, <2>2, <2>3
<1>9. h = g
  BY <1>3, <1>5, <1>7, <1>8, SeqEqual
<1>10. QED
  BY <1>9 DEF f, g, h, c

LEMMA AgedOld ==
    ASSUME NEW f \in Seq(Old)
    PROVE  Aged(f) = f
<1>1. f \in Seq(Line) /\ \A i \in 1..Len(f) : f[i].at = 0
  BY OldFiles, ElementOfSeq DEF Old
<1>2. Aged(f) \in Seq(Old) /\ Len(Aged(f)) = Len(f) /\ \A i \in 1..Len(f) : Aged(f)[i] = f[i]
  BY <1>1, AgedIs
<1>3. QED
  BY <1>2, SeqEqual
-----------------------------------------------------------------------------
(* What a writer has read of a file, and a name under the block.           *)

Holds(q, h) == \E i \in 1..Len(q) : q[i] = Foreign(h)
Below(f, h) ==
    \E b, e, i \in 1..Len(f) :
        /\ b < e /\ e < i
        /\ f[b].kind = "begin" /\ f[e].kind = "end" /\ f[i] = Foreign(h)

LEMMA PiecesAreFiles ==
    ASSUME NEW L, NEW f \in Seq(L), NEW m \in Nat \ {0}, NEW n \in 0..Len(f), m - 1 <= n
    PROVE  /\ SubSeq(f, m, n) \in Seq(L) /\ Len(SubSeq(f, m, n)) = n - m + 1
           /\ \A i \in 1..(n - m + 1) : SubSeq(f, m, n)[i] = f[m + i - 1]
<1>1. Len(f) \in Nat /\ \A i \in 1..Len(f) : f[i] \in L
  BY LenProperties, ElementOfSeq
<1>2. m \in Int /\ n \in Int /\ \A i \in m..n : f[i] \in L
  BY <1>1
<1>3. /\ SubSeq(f, m, n) \in Seq(L)
      /\ Len(SubSeq(f, m, n)) = (IF m <= n THEN n - m + 1 ELSE 0)
      /\ \A i \in 1..(n - m + 1) : SubSeq(f, m, n)[i] = f[m + i - 1]
  BY <1>2, SubSeqProperties
<1>4. (IF m <= n THEN n - m + 1 ELSE 0) = n - m + 1
  BY <1>2
<1>5. QED
  BY <1>3, <1>4

LEMMA SplitIs ==
    ASSUME NEW f \in Seq(Old)
    PROVE  LET x == SplitStatic(f)
           IN  /\ x = [prefix |-> Regions(f).above, suffix |-> Regions(f).below]
               /\ x.prefix \in Seq(Old) /\ IsAbove(x.prefix) /\ x.suffix \in Seq(Old)
               /\ FromBlock(f) \in Seq(Old)
               /\ \A h \in Others : Below(f, h) => Holds(x.suffix, h)
<1> DEFINE n == Len(f)
<1>1. f \in Seq(Line) /\ n \in Nat
  BY OldFiles, LenProperties
<1>2. PICK t, b, e :
        /\ Cut(f, t, b, e)
        /\ SplitStatic(f) = [prefix |-> SubSeq(f, 1, t), suffix |-> SubSeq(f, e + 1, n)]
        /\ FromBlock(f) = SubSeq(f, b, n)
  BY <1>1, CodeCuts
<1>3. /\ b \in 1..(n + 1) /\ Begins(f, b) /\ e \in (b - 1)..n /\ Ends(f, b, e)
      /\ t \in 0..(b - 1) /\ Tops(f, b, t)
  BY <1>2 DEF Cut
<1> DEFINE p == SubSeq(f, 1, t)
           s == SubSeq(f, e + 1, n)
           q == SubSeq(f, b, n)
<1> HIDE DEF n
<1>4. p \in Seq(Old) /\ Len(p) = t /\ \A i \in 1..t : p[i] = f[i]
  <2>1. t \in 0..Len(f) /\ 1 - 1 <= t
    BY <1>1, <1>3 DEF n
  <2>2. /\ p \in Seq(Old) /\ Len(p) = t - 1 + 1
        /\ \A i \in 1..(t - 1 + 1) : p[i] = f[1 + i - 1]
    BY <2>1, PiecesAreFiles
  <2> HIDE DEF p
  <2>3. QED
    BY <2>1, <2>2, <1>1 DEF n
<1>5. s \in Seq(Old) /\ Len(s) = n - e /\ \A i \in 1..(n - e) : s[i] = f[e + i]
  <2>1. e + 1 \in Nat \ {0} /\ n \in 0..Len(f) /\ (e + 1) - 1 <= n
    BY <1>1, <1>3 DEF n
  <2>2. /\ s \in Seq(Old) /\ Len(s) = n - (e + 1) + 1
        /\ \A i \in 1..(n - (e + 1) + 1) : s[i] = f[(e + 1) + i - 1]
    BY <2>1, PiecesAreFiles
  <2> HIDE DEF s
  <2>3. n - (e + 1) + 1 = n - e
    BY <1>1, <1>3
  <2>4. ASSUME NEW i \in 1..(n - e) PROVE s[i] = f[e + i]
    <3>1. (e + 1) + i - 1 = e + i
      BY <1>1, <1>3
    <3>2. QED
      BY <2>2, <2>3, <3>1
  <2>5. QED
    BY <2>2, <2>3, <2>4
<1>6. q \in Seq(Old)
  <2>1. b \in Nat \ {0} /\ n \in 0..Len(f) /\ b - 1 <= n
    BY <1>1, <1>3 DEF n
  <2>2. QED
    BY <2>1, PiecesAreFiles
<1> HIDE DEF p, s, q
<1>7. IsAbove(p)
  <2>1. \A i \in 1..t : f[i].kind # "begin"
    BY <1>1, <1>3 DEF Begins
  <2>2. t # 0 => f[t].kind # "blank" /\ t \in 1..t
    BY <1>1, <1>3 DEF Tops
  <2>3. QED
    BY <1>4, <2>1, <2>2 DEF IsAbove
<1>8. ASSUME NEW h \in Others, Below(f, h)
      PROVE  Holds(s, h)
  <2>1. PICK x, y, i \in 1..n :
          /\ x < y /\ y < i
          /\ f[x].kind = "begin" /\ f[y].kind = "end" /\ f[i] = Foreign(h)
    BY <1>8 DEF Below, n
  <2>2. b <= x
    BY <1>1, <1>3, <2>1 DEF Begins
  <2>3. e <= y
    BY <1>1, <1>3, <2>1, <2>2 DEF Ends
  <2>4. i - e \in 1..(n - e) /\ e + (i - e) = i
    BY <1>1, <1>3, <2>1, <2>3
  <2>5. s[i - e] = Foreign(h)
    BY <1>5, <2>1, <2>4
  <2>6. QED
    BY <1>5, <2>4, <2>5 DEF Holds
<1>9. Regions(f) = [above |-> p, block |-> SubSeq(f, b, e), below |-> s]
  BY <1>1, <1>2, RegionsAre DEF n, p, s
<1>10. SplitStatic(f) = [prefix |-> p, suffix |-> s]
  BY <1>2 DEF p, s
<1>11. Regions(f).above = p /\ Regions(f).below = s
  <2> DEFINE m == SubSeq(f, b, e)
  <2>1. Regions(f) = [above |-> p, block |-> m, below |-> s]
    BY <1>9
  <2> HIDE DEF m
  <2>2. QED
    BY <2>1
<1>12. FromBlock(f) = q
  BY <1>2 DEF q
<1>13. SplitStatic(f).prefix = p /\ SplitStatic(f).suffix = s
  BY <1>10
<1>14. QED
  BY <1>4, <1>5, <1>6, <1>7, <1>8, <1>10, <1>11, <1>12, <1>13

\* What the daemon puts around its block, and its block, are what a reader of
\* the file will find there.
LEMMA RewrittenIs ==
    ASSUME NEW p \in Seq(Old), IsAbove(p), NEW s \in Seq(Old), NEW d \in Decisions
    PROVE  LET f == p \o Render(d) \o s
           IN  /\ f \in Seq(Line) /\ f # NoFile
               /\ Regions(Aged(f)) = [above |-> p, block |-> Aged(Render(d)), below |-> s]
               /\ \A h \in Others : Holds(s, h) => Below(f, h)
<1> DEFINE b == Render(d)
           f == p \o b \o s
           k == Len(p)
           m == Len(b)
           n == Len(s)
<1>1. p \in Seq(Line) /\ s \in Seq(Line) /\ b \in Seq(Line) /\ IsBlock(b)
  BY OldFiles, RenderIsBlock
<1> HIDE DEF b
<1>2. /\ f \in Seq(Line) /\ Len(f) = k + m + n
      /\ \A i \in 1..k : f[i] = p[i]
      /\ \A i \in 1..m : f[k + i] = b[i]
      /\ \A i \in 1..n : f[k + m + i] = s[i]
  <2>1. ASSUME NEW y \in Seq(Line)
        PROVE  LET x == p \o y \o s
               IN  /\ x \in Seq(Line) /\ Len(x) = k + Len(y) + n
                   /\ \A i \in 1..k : x[i] = p[i]
                   /\ \A i \in 1..Len(y) : x[k + i] = y[i]
                   /\ \A i \in 1..n : x[k + Len(y) + i] = s[i]
    BY <1>1, JoinedIs
  <2>2. b \in Seq(Line)
    BY <1>1
  <2> HIDE DEF k, n
  <2>3. QED
    BY <2>1, <2>2
<1>3. IsBlock(Aged(b)) /\ Aged(f) = p \o Aged(b) \o s
  BY <1>1, AgedIsBlock, AgedJoined
<1>4. Regions(Aged(f)) = [above |-> p, block |-> Aged(b), below |-> s]
  BY <1>1, <1>3, JoinedRegions
<1>5. k \in Nat /\ m \in Nat /\ n \in Nat
  BY <1>1, LenProperties
<1>6. m > 1 /\ b[1].kind = "begin" /\ b[m].kind = "end"
  BY <1>1 DEF IsBlock
<1>7. \A h \in Others : Holds(s, h) => \E i \in 1..n : s[i] = Foreign(h)
  BY DEF Holds
<1> HIDE DEF f, k, m, n
<1>8. ASSUME NEW h \in Others, Holds(s, h)
      PROVE  Below(f, h)
  <2>1. PICK i \in 1..n : s[i] = Foreign(h)
    BY <1>7, <1>8
  <2>2. f[k + m + i] = Foreign(h) /\ k + m + i \in 1..Len(f)
    BY <1>2, <1>5, <2>1
  <2>3. f[k + 1].kind = "begin" /\ k + 1 \in 1..Len(f)
    BY <1>2, <1>5, <1>6
  <2>4. f[k + m].kind = "end" /\ k + m \in 1..Len(f)
    BY <1>2, <1>5, <1>6
  <2>5. k + 1 < k + m /\ k + m < k + m + i
    BY <1>5, <1>6
  <2>6. QED
    BY <2>2, <2>3, <2>4, <2>5 DEF Below
<1>9. f # NoFile
  BY <1>2, NoFileAssumption
<1>10. QED
  BY <1>2, <1>4, <1>8, <1>9 DEF f, b

LEMMA AgedBelow ==
    ASSUME NEW f \in Seq(Line), NEW h \in Others, Below(f, h)
    PROVE  Below(Aged(f), h)
<1>1. PICK x, y, i \in 1..Len(f) :
        /\ x < y /\ y < i
        /\ f[x].kind = "begin" /\ f[y].kind = "end" /\ f[i] = Foreign(h)
  BY DEF Below
<1>2. /\ Len(Aged(f)) = Len(f) /\ Aged(f)[x].kind = f[x].kind
      /\ Aged(f)[y].kind = f[y].kind /\ (f[i].at = 0 => Aged(f)[i] = f[i])
  BY AgedIs
<1>3. f[i].at = 0
  BY <1>1, NamesAreLines
<1>4. QED
  BY <1>1, <1>2, <1>3 DEF Below

LEMMA BelowABlock ==
    ASSUME NEW f \in Seq(Line), NEW h \in Others, Below(f, h)
    PROVE  HasBlock(f) /\ Foreign(h) \in ToSet(f)
<1>1. PICK x, y, i \in 1..Len(f) :
        /\ x < y /\ y < i
        /\ f[x].kind = "begin" /\ f[y].kind = "end" /\ f[i] = Foreign(h)
  BY DEF Below
<1>2. Len(f) \in Nat /\ DOMAIN f = 1..Len(f) /\ f # NoFile
  BY LenProperties, NoFileAssumption
<1> DEFINE b == BeginAt(f)
           e == BlockEnd(f, b)
<1>3. b \in 1..Len(f) /\ b <= x
  <2>1. \/ b = 0 /\ \A j \in 1..Len(f) : f[j].kind # "begin"
        \/ /\ b \in 1..Len(f) /\ f[b].kind = "begin"
           /\ \A j \in 1..(b - 1) : f[j].kind # "begin"
    BY BeginAtIs
  <2> HIDE DEF b
  <2>2. QED
    BY <1>1, <1>2, <2>1
<1>4. e # 0
  <2>1. b \in Nat \ {0}
    BY <1>2, <1>3
  <2> HIDE DEF b
  <2>2. \/ e = 0 /\ \A j \in b..Len(f) : f[j].kind # "end"
        \/ /\ e \in b..Len(f) /\ f[e].kind = "end"
           /\ \A j \in b..(e - 1) : f[j].kind # "end"
    BY <2>1, BlockEndIs
  <2> HIDE DEF e
  <2>3. QED
    BY <1>1, <1>2, <1>3, <2>1, <2>2
<1>5. HasBlock(f)
  <2>1. b # 0
    BY <1>3
  <2>2. QED
    BY <1>2, <1>4, <2>1 DEF HasBlock
<1>6. Foreign(h) \in ToSet(f)
  BY <1>1, <1>2 DEF ToSet
<1>7. QED
  BY <1>5, <1>6

\* The lines of f, in their order, stand in g as well.
LEMMA Shifted ==
    ASSUME NEW f, NEW g, NEW h \in Others, Below(f, h), NEW at,
           \A i, j \in 1..Len(f) : i < j /\ f[i].kind \in {"begin", "end"} => at[i] < at[j],
           \A i \in 1..Len(f) : f[i].kind \in {"begin", "end"} \/ f[i] = Foreign(h) =>
                at[i] \in 1..Len(g) /\ g[at[i]] = f[i]
    PROVE  Below(g, h)
<1>1. PICK x, y, i \in 1..Len(f) :
        /\ x < y /\ y < i
        /\ f[x].kind = "begin" /\ f[y].kind = "end" /\ f[i] = Foreign(h)
  BY DEF Below
<1>2. at[x] < at[y] /\ at[y] < at[i]
  BY <1>1
<1>3. /\ at[x] \in 1..Len(g) /\ at[y] \in 1..Len(g) /\ at[i] \in 1..Len(g)
      /\ g[at[x]] = f[x] /\ g[at[y]] = f[y] /\ g[at[i]] = f[i]
  BY <1>1
<1>4. g[at[x]].kind = "begin" /\ g[at[y]].kind = "end" /\ g[at[i]] = Foreign(h)
  BY <1>1, <1>3
<1>5. QED
  BY <1>2, <1>3, <1>4, Zenon DEF Below
LEMMA AppendedBelow ==
    ASSUME NEW f \in Seq(Old), NEW l \in Old
    PROVE  /\ Append(f, l) \in Seq(Old)
           /\ \A h \in Others : Below(f, h) => Below(Append(f, l), h)
           /\ \A h \in Others : HasBlock(f) /\ l = Foreign(h) => Below(Append(f, l), h)
<1> DEFINE g == Append(f, l)
           n == Len(f)
<1>1. /\ g \in Seq(Old) /\ Len(g) = n + 1 /\ n \in Nat
      /\ \A i \in 1..n : g[i] = f[i]
      /\ g[n + 1] = l
  BY AppendProperties, LenProperties
<1>2. f \in Seq(Line)
  BY OldFiles
<1>3. \A h \in Others : Below(f, h) =>
        \E x, y, i \in 1..n : /\ x < y /\ y < i /\ f[x].kind = "begin"
                              /\ f[y].kind = "end" /\ f[i] = Foreign(h)
  BY DEF Below
<1> DEFINE b == BeginAt(f)
           e == BlockEnd(f, b)
<1>4. HasBlock(f) => b \in 1..n /\ f[b].kind = "begin" /\ e \in b..n /\ f[e].kind = "end"
  <2> SUFFICES ASSUME HasBlock(f)
               PROVE  b \in 1..n /\ f[b].kind = "begin" /\ e \in b..n /\ f[e].kind = "end"
    OBVIOUS
  <2>1. b # 0 /\ e # 0
    BY DEF HasBlock
  <2>2. \/ b = 0 /\ \A j \in 1..n : f[j].kind # "begin"
        \/ /\ b \in 1..n /\ f[b].kind = "begin"
           /\ \A j \in 1..(b - 1) : f[j].kind # "begin"
    BY <1>2, BeginAtIs
  <2>3. b \in Nat \ {0}
    BY <1>1, <2>1, <2>2
  <2>4. \/ e = 0 /\ \A j \in b..n : f[j].kind # "end"
        \/ /\ e \in b..n /\ f[e].kind = "end"
           /\ \A j \in b..(e - 1) : f[j].kind # "end"
    BY <1>2, <2>3, BlockEndIs
  <2>5. QED
    BY <2>1, <2>2, <2>4
<1> HIDE DEF g, n, b, e
<1>5. ASSUME NEW h \in Others, Below(f, h)
      PROVE  Below(g, h)
  <2>1. PICK x, y, i \in 1..n : /\ x < y /\ y < i /\ f[x].kind = "begin"
                                /\ f[y].kind = "end" /\ f[i] = Foreign(h)
    BY <1>3, <1>5
  <2>2. x \in 1..Len(g) /\ y \in 1..Len(g) /\ i \in 1..Len(g)
    BY <1>1
  <2>3. g[x].kind = "begin" /\ g[y].kind = "end" /\ g[i] = Foreign(h)
    BY <1>1, <2>1
  <2>4. QED
    BY <2>1, <2>2, <2>3, Zenon DEF Below
<1>6. ASSUME NEW h \in Others, HasBlock(f), l = Foreign(h)
      PROVE  Below(g, h)
  <2>1. b \in 1..n /\ f[b].kind = "begin" /\ e \in b..n /\ f[e].kind = "end"
    BY <1>4, <1>6
  <2>2. b # e
    BY <2>1
  <2>3. b < e /\ e < n + 1 /\ b \in 1..Len(g) /\ e \in 1..Len(g) /\ n + 1 \in 1..Len(g)
    BY <1>1, <2>1, <2>2
  <2>4. g[b].kind = "begin" /\ g[e].kind = "end" /\ g[n + 1] = Foreign(h)
    BY <1>1, <1>6, <2>1, <2>3
  <2>5. QED
    BY <2>3, <2>4, Zenon DEF Below
<1>7. QED
  BY <1>1, <1>5, <1>6 DEF g

LEMMA InsertedBelow ==
    ASSUME NEW f \in Seq(Old), NEW l \in Old, NEW r \in 1..(Len(f) + 1)
    PROVE  /\ InsertAt(f, r, l) \in Seq(Old)
           /\ \A h \in Others : Below(f, h) => Below(InsertAt(f, r, l), h)
<1> DEFINE n == Len(f)
           p == SubSeq(f, 1, r - 1)
           q == SubSeq(f, r, n)
           m == <<l>>
           g == p \o m \o q
<1>1. n \in Nat
  BY LenProperties
<1>2. InsertAt(f, r, l) = g
  BY DEF InsertAt
<1>3. m \in Seq(Old) /\ Len(m) = 1
  OBVIOUS
<1>4. r \in Nat \ {0} /\ r - 1 \in 0..n /\ r - 1 <= n
  BY <1>1
<1> DEFINE k == r - 1
<1>5. p \in Seq(Old) /\ Len(p) = k /\ \A i \in 1..k : p[i] = f[i]
  <2>1. k \in 0..Len(f) /\ 1 - 1 <= k /\ k - 1 + 1 = k
    BY <1>4
  <2> HIDE DEF k
  <2>2. /\ SubSeq(f, 1, k) \in Seq(Old) /\ Len(SubSeq(f, 1, k)) = k - 1 + 1
        /\ \A i \in 1..(k - 1 + 1) : SubSeq(f, 1, k)[i] = f[1 + i - 1]
    BY <2>1, PiecesAreFiles
  <2>3. \A i \in 1..k : SubSeq(f, 1, k)[i] = f[i]
    <3> DEFINE z == SubSeq(f, 1, k)
    <3> HIDE DEF z
    <3>1. \A i \in 1..k : z[i] = f[1 + i - 1]
      BY <2>1, <2>2 DEF z
    <3>2. QED
      BY <3>1, <2>1 DEF z
  <2>4. p = SubSeq(f, 1, k)
    BY DEF k
  <2>5. QED
    BY <2>1, <2>2, <2>3, <2>4
<1>6. q \in Seq(Old) /\ Len(q) = n - r + 1 /\ \A i \in 1..(n - r + 1) : q[i] = f[r + i - 1]
  BY <1>1, <1>4, PiecesAreFiles
<1> HIDE DEF p, q, m, k, n
<1>7. /\ g \in Seq(Old) /\ Len(g) = Len(p) + Len(m) + Len(q)
      /\ \A i \in 1..Len(p) : g[i] = p[i]
      /\ \A i \in 1..Len(q) : g[Len(p) + Len(m) + i] = q[i]
  <2>1. \A x, y, z \in Seq(Old) :
          /\ x \o y \o z \in Seq(Old) /\ Len(x \o y \o z) = Len(x) + Len(y) + Len(z)
          /\ \A i \in 1..Len(x) : (x \o y \o z)[i] = x[i]
          /\ \A i \in 1..Len(z) : (x \o y \o z)[Len(x) + Len(y) + i] = z[i]
    BY JoinedIs
  <2>2. p \in Seq(Old) /\ m \in Seq(Old) /\ q \in Seq(Old)
    BY <1>3, <1>5, <1>6
  <2>3. QED
    BY <2>1, <2>2
<1> HIDE DEF g
<1>8. k = r - 1
  BY DEF k
<1>9. Len(g) = n + 1
  BY <1>1, <1>3, <1>4, <1>5, <1>6, <1>7, <1>8
<1>10. ASSUME NEW i \in 1..k PROVE g[i] = f[i]
  BY <1>5, <1>7
<1>11. ASSUME NEW i \in r..n PROVE g[i + 1] = f[i]
  <2>1. i - r + 1 \in 1..(n - r + 1) /\ k + 1 + (i - r + 1) = i + 1 /\ r + (i - r + 1) - 1 = i
    BY <1>1, <1>4, <1>8
  <2>2. \A j \in 1..(n - r + 1) : g[k + 1 + j] = f[r + j - 1]
    BY <1>3, <1>5, <1>6, <1>7
  <2>3. QED
    BY <2>1, <2>2
<1> DEFINE at == [i \in 1..n |-> IF i < r THEN i ELSE i + 1]
<1>12. ASSUME NEW i \in 1..n
       PROVE  at[i] \in 1..Len(g) /\ g[at[i]] = f[i]
  <2>1. at[i] = IF i < r THEN i ELSE i + 1
    OBVIOUS
  <2> HIDE DEF at
  <2>2. CASE i < r
    BY <1>1, <1>4, <1>8, <1>9, <1>10, <2>1, <2>2
  <2>3. CASE ~(i < r)
    BY <1>1, <1>4, <1>9, <1>11, <2>1, <2>3
  <2>4. QED
    BY <2>2, <2>3
<1>13. \A i, j \in 1..n : i < j => at[i] < at[j]
  BY <1>1, <1>4
<1> HIDE DEF at
<1>14. ASSUME NEW h \in Others, Below(f, h)
       PROVE  Below(g, h)
  BY <1>12, <1>13, <1>14, Shifted DEF n
<1>15. QED
  BY <1>2, <1>7, <1>14

LEMMA RemovedBelow ==
    ASSUME NEW f \in Seq(Old), NEW r \in 1..Len(f)
    PROVE  /\ RemoveAt(f, r) \in Seq(Old)
           /\ f[r] = Bytes => \A h \in Others : Below(f, h) => Below(RemoveAt(f, r), h)
<1> DEFINE n == Len(f)
           p == SubSeq(f, 1, r - 1)
           q == SubSeq(f, r + 1, n)
           g == p \o q
           k == r - 1
<1>1. n \in Nat
  BY LenProperties
<1>2. RemoveAt(f, r) = g
  BY DEF RemoveAt
<1>3. r \in Nat /\ r > 0 /\ r <= n /\ k \in 0..n /\ k = r - 1
  BY <1>1
<1>4. p \in Seq(Old) /\ Len(p) = k /\ \A i \in 1..k : p[i] = f[i]
  <2>1. k \in 0..Len(f) /\ 1 - 1 <= k /\ k - 1 + 1 = k
    BY <1>3
  <2> HIDE DEF k
  <2>2. /\ SubSeq(f, 1, k) \in Seq(Old) /\ Len(SubSeq(f, 1, k)) = k - 1 + 1
        /\ \A i \in 1..(k - 1 + 1) : SubSeq(f, 1, k)[i] = f[1 + i - 1]
    BY <2>1, PiecesAreFiles
  <2>3. \A i \in 1..k : SubSeq(f, 1, k)[i] = f[i]
    <3> DEFINE z == SubSeq(f, 1, k)
    <3> HIDE DEF z
    <3>1. \A i \in 1..k : z[i] = f[1 + i - 1]
      BY <2>1, <2>2 DEF z
    <3>2. QED
      BY <3>1, <2>1 DEF z
  <2>4. p = SubSeq(f, 1, k)
    BY DEF k
  <2>5. QED
    BY <2>1, <2>2, <2>3, <2>4
<1>5. q \in Seq(Old) /\ Len(q) = n - r /\ \A i \in 1..(n - r) : q[i] = f[r + i]
  <2>1. /\ r + 1 \in Nat \ {0} /\ n \in 0..Len(f) /\ (r + 1) - 1 <= n
        /\ n - (r + 1) + 1 = n - r
    BY <1>1
  <2>2. /\ q \in Seq(Old) /\ Len(q) = n - (r + 1) + 1
        /\ \A i \in 1..(n - (r + 1) + 1) : q[i] = f[(r + 1) + i - 1]
    BY <2>1, PiecesAreFiles
  <2> HIDE DEF q
  <2>3. ASSUME NEW i \in 1..(n - r) PROVE q[i] = f[r + i]
    <3>1. (r + 1) + i - 1 = r + i
      BY <1>1
    <3>2. QED
      BY <2>1, <2>2, <3>1
  <2>4. QED
    BY <2>1, <2>2, <2>3
<1> HIDE DEF p, q, k, n
<1>6. /\ g \in Seq(Old) /\ Len(g) = k + (n - r)
      /\ \A i \in 1..k + (n - r) : g[i] = IF i <= k THEN p[i] ELSE q[i - k]
  <2>1. \A x, y \in Seq(Old) :
          /\ x \o y \in Seq(Old) /\ Len(x \o y) = Len(x) + Len(y)
          /\ \A i \in 1..Len(x) + Len(y) :
                (x \o y)[i] = IF i <= Len(x) THEN x[i] ELSE y[i - Len(x)]
    BY ConcatProperties
  <2>2. p \in Seq(Old) /\ q \in Seq(Old) /\ Len(p) = k /\ Len(q) = n - r
    BY <1>4, <1>5
  <2>3. /\ g \in Seq(Old) /\ Len(g) = Len(p) + Len(q)
        /\ \A i \in 1..Len(p) + Len(q) :
              g[i] = IF i <= Len(p) THEN p[i] ELSE q[i - Len(p)]
    BY <2>1, <2>2
  <2> HIDE DEF g
  <2>4. QED
    BY <2>2, <2>3
<1> HIDE DEF g
<1>7. ASSUME NEW i \in 1..k PROVE g[i] = f[i]
  BY <1>1, <1>3, <1>4, <1>6
<1>8. ASSUME NEW i \in (r + 1)..n PROVE g[i - 1] = f[i]
  <2>1. /\ i - 1 \in 1..k + (n - r) /\ ~(i - 1 <= k) /\ (i - 1) - k = i - r
        /\ i - r \in 1..(n - r) /\ r + (i - r) = i
    BY <1>1, <1>3
  <2>2. QED
    BY <1>5, <1>6, <2>1
<1> DEFINE at == [i \in 1..n |-> IF i <= r THEN i ELSE i - 1]
<1>9. ASSUME NEW i \in 1..n, i # r
      PROVE  at[i] \in 1..Len(g) /\ g[at[i]] = f[i]
  <2>1. at[i] = IF i <= r THEN i ELSE i - 1
    OBVIOUS
  <2> HIDE DEF at
  <2>2. CASE i < r
    BY <1>1, <1>3, <1>6, <1>7, <2>1, <2>2
  <2>3. CASE i > r
    BY <1>1, <1>3, <1>6, <1>8, <2>1, <2>3
  <2>4. QED
    BY <1>3, <1>9, <2>2, <2>3
<1>10. \A i, j \in 1..n : i < j /\ i # r => at[i] < at[j]
  BY <1>1, <1>3
<1> HIDE DEF at
<1>11. ASSUME NEW h \in Others, Below(f, h), f[r] = Bytes
       PROVE  Below(g, h)
  <2>1. \A i \in 1..n : f[i].kind \in {"begin", "end"} \/ f[i] = Foreign(h) => i # r
    BY <1>11, MarksAreLines, NamesAreLines
  <2>2. QED
    BY <1>9, <1>10, <1>11, <2>1, Shifted DEF n
<1>12. QED
  BY <1>2, <1>6, <1>11

\* What the script copies holds what is under the block.
LEMMA CopiedBelow ==
    ASSUME NEW s \in Seq(Old), NEW f \in Seq(Old), NEW h \in Others, Below(f, h)
    PROVE  Below(s \o FromBlock(f), h)
<1> DEFINE n == Len(f)
           k == Len(s)
<1>1. f \in Seq(Line) /\ n \in Nat /\ k \in Nat
  BY OldFiles, LenProperties
<1>2. PICK t, b, e : Cut(f, t, b, e) /\ FromBlock(f) = SubSeq(f, b, n)
  BY <1>1, CodeCuts
<1>3. b \in 1..(n + 1) /\ Begins(f, b)
  BY <1>2 DEF Cut
<1>4. PICK x, y, i \in 1..n : /\ x < y /\ y < i /\ f[x].kind = "begin"
                              /\ f[y].kind = "end" /\ f[i] = Foreign(h)
  BY DEF Below
<1> DEFINE q == SubSeq(f, b, n)
           g == s \o q
<1>5. q \in Seq(Old) /\ Len(q) = n - b + 1 /\ \A j \in 1..(n - b + 1) : q[j] = f[b + j - 1]
  <2>1. b \in Nat \ {0} /\ n \in 0..Len(f) /\ b - 1 <= n
    BY <1>1, <1>3
  <2>2. QED
    BY <2>1, PiecesAreFiles
<1> HIDE DEF q, n, k
<1>6. /\ g \in Seq(Old) /\ Len(g) = k + (n - b + 1)
      /\ \A j \in 1..k + (n - b + 1) : g[j] = IF j <= k THEN s[j] ELSE q[j - k]
  BY <1>5, ConcatProperties DEF k
<1> HIDE DEF g
<1>7. b <= x
  BY <1>1, <1>3, <1>4 DEF Begins
<1>8. ASSUME NEW j \in b..n
      PROVE  k + j - b + 1 \in 1..Len(g) /\ g[k + j - b + 1] = f[j]
  <2>1. /\ k + j - b + 1 \in 1..k + (n - b + 1) /\ ~(k + j - b + 1 <= k)
        /\ (k + j - b + 1) - k = j - b + 1 /\ j - b + 1 \in 1..(n - b + 1)
        /\ b + (j - b + 1) - 1 = j
    BY <1>1, <1>3
  <2>2. QED
    BY <1>5, <1>6, <2>1
<1>9. x \in b..n /\ y \in b..n /\ i \in b..n
  BY <1>1, <1>3, <1>4, <1>7
<1>10. k + x - b + 1 < k + y - b + 1 /\ k + y - b + 1 < k + i - b + 1
  BY <1>1, <1>3, <1>4
<1>11. /\ g[k + x - b + 1].kind = "begin" /\ g[k + y - b + 1].kind = "end"
       /\ g[k + i - b + 1] = Foreign(h)
  BY <1>4, <1>8, <1>9
<1>12. Below(g, h)
  BY <1>8, <1>9, <1>10, <1>11, Zenon DEF Below
<1>13. QED
  BY <1>2, <1>12 DEF g, q
-----------------------------------------------------------------------------
(* The states the writers can be in.                                       *)

LEMMA NoBlockRegions ==
    ASSUME NEW p \in Seq(Line), IsAbove(p)
    PROVE  Regions(p) = [above |-> p, block |-> <<>>, below |-> <<>>]
<1> DEFINE n == Len(p)
<1>1. n \in Nat
  BY LenProperties
<1>2. SubSeq(p, 1, n) = p
  BY SubSeqFull
<1>3. SubSeq(p, n + 1, n) = <<>>
  BY <1>1, SubSeqEmpty
<1>4. (\A i \in 1..n : p[i].kind # "begin") /\ (n # 0 => p[n].kind # "blank")
  BY DEF IsAbove
<1>5. Cut(p, n, n + 1, n)
  <2> HIDE DEF n
  <2>1. n = Len(p)
    BY DEF n
  <2>2. QED
    BY <1>1, <1>4, <2>1 DEF Cut, Begins, Ends, Tops
<1>6. Regions(p) = [above |-> SubSeq(p, 1, n), block |-> SubSeq(p, n + 1, n),
                    below |-> SubSeq(p, n + 1, n)]
  BY <1>5, RegionsAre
<1>7. QED
  BY <1>2, <1>3, <1>6

LEMMA RegionsAreRegions ==
    ASSUME NEW f \in Seq(Line)
    PROVE  Regions(f) # NoFile
<1>1. PICK t, b, e : Cut(f, t, b, e)
  BY CodeCuts
<1> DEFINE n == Len(f)
           p == SubSeq(f, 1, t)
           m == SubSeq(f, b, e)
           s == SubSeq(f, e + 1, n)
<1>2. /\ n \in Nat /\ b \in 1..(n + 1) /\ e \in (b - 1)..n /\ t \in 0..(b - 1)
  BY <1>1, LenProperties DEF Cut
<1>3. p \in Seq(Line)
  <2>1. t \in 0..n /\ 1 - 1 <= t
    BY <1>2
  <2>2. QED
    BY <2>1, PiecesAreFiles
<1>4. m \in Seq(Line)
  <2>1. b \in Nat \ {0} /\ e \in 0..n /\ b - 1 <= e
    BY <1>2
  <2>2. QED
    BY <2>1, PiecesAreFiles
<1>5. s \in Seq(Line)
  <2>1. e + 1 \in Nat \ {0} /\ n \in 0..n /\ (e + 1) - 1 <= n
    BY <1>2
  <2>2. QED
    BY <2>1, PiecesAreFiles
<1>6. Regions(f) = [above |-> p, block |-> m, below |-> s]
  BY <1>1, RegionsAre
<1> HIDE DEF p, m, s
<1>7. Regions(f) \in [above : Seq(Line), block : Seq(Line), below : Seq(Line)]
  BY <1>3, <1>4, <1>5, <1>6
<1>8. QED
  BY <1>7, NoFileAssumption

FInv ==
    /\ file \in Seq(Old) \cup {NoFile}
    /\ draft \in Seq(Line) \cup {NoFile}
    /\ seed \in Seq(Old) \cup {NoFile}
    /\ fallback \in [prefix : Seq(Old), suffix : Seq(Old)] /\ IsAbove(fallback.prefix)
    /\ seeding = Idle \/ seeding \in [at : {"copy", "make", "install"}, static : Statics]
    /\ seed # NoFile <=> seeding.at = "install"
    /\ ~running => draft = NoFile
    /\ owed \subseteq Others

LEMMA EmptyContent ==
    /\ <<>> \in Seq(Old) /\ IsAbove(<<>>) /\ Len(<<>>) = 0
    /\ [prefix |-> <<>>, suffix |-> <<>>] \in [prefix : Seq(Old), suffix : Seq(Old)]
    /\ Regions(<<>>) = [above |-> <<>>, block |-> <<>>, below |-> <<>>]
<1>1. <<>> \in Seq(Old) /\ Len(<<>>) = 0
  BY EmptySeq
<1>2. IsAbove(<<>>)
  BY <1>1 DEF IsAbove
<1>3. <<>> \in Seq(Line)
  BY EmptySeq
<1>4. QED
  BY <1>1, <1>2, <1>3, NoBlockRegions

\* What publish puts around the block.
LEMMA RestIs ==
    ASSUME FInv
    PROVE  LET rest == IF file = NoFile THEN fallback ELSE SplitStatic(file)
           IN  /\ rest.prefix \in Seq(Old) /\ IsAbove(rest.prefix)
               /\ rest.suffix \in Seq(Old)
<1>1. CASE file = NoFile
  BY <1>1 DEF FInv
<1>2. CASE file # NoFile
  <2>1. file \in Seq(Old)
    BY <1>2 DEF FInv
  <2>2. QED
    BY <1>2, <2>1, SplitIs
<1>3. QED
  BY <1>1, <1>2

\* What the script builds.
LEMMA SeedIs ==
    ASSUME FInv
    PROVE  /\ file # NoFile => \A s \in Statics : s \o FromBlock(file) \in Seq(Old)
           /\ \A s \in Statics, d \in Decisions : s \o RenderSeed(d) \in Seq(Old)
<1>1. file # NoFile => FromBlock(file) \in Seq(Old)
  BY SplitIs DEF FInv
<1>2. ASSUME file # NoFile, NEW s \in Statics PROVE s \o FromBlock(file) \in Seq(Old)
  BY <1>1, <1>2, StaticsAre, ConcatProperties
<1>3. ASSUME NEW s \in Statics, NEW d \in Decisions PROVE s \o RenderSeed(d) \in Seq(Old)
  BY StaticsAre, RenderSeedIsBlock, ConcatProperties
<1>4. QED
  BY <1>2, <1>3

\* What an edit leaves of a file.
LEMMA EditedIs ==
    ASSUME FInv, file # NoFile
    PROVE  /\ \A h \in Others : Append(file, Foreign(h)) \in Seq(Old)
           /\ \A l \in Strays :
                InsertAt(file, IF BeginAt(file) = 0 THEN 1 ELSE BeginAt(file), l) \in Seq(Old)
           /\ HasBlock(file) => RemoveAt(file, BlockEnd(file, BeginAt(file))) \in Seq(Old)
           /\ \A i \in 1..Len(file) : RemoveAt(file, i) \in Seq(Old)
           /\ \A h \in Others : Below(file, h) =>
                /\ \A l \in Others : Below(Append(file, Foreign(l)), h)
                /\ \A l \in Strays :
                     Below(InsertAt(file, IF BeginAt(file) = 0 THEN 1 ELSE BeginAt(file), l), h)
                /\ \A i \in 1..Len(file) : file[i] = Bytes => Below(RemoveAt(file, i), h)
<1>1. file \in Seq(Old) /\ file \in Seq(Line) /\ Len(file) \in Nat
  <2>1. file \in Seq(Old)
    BY DEF FInv
  <2>2. QED
    BY <2>1, OldFiles, LenProperties
<1>2. ASSUME NEW l \in Others
      PROVE  /\ Append(file, Foreign(l)) \in Seq(Old)
             /\ \A h \in Others : Below(file, h) => Below(Append(file, Foreign(l)), h)
  BY <1>1, NamesAreLines, AppendedBelow
<1> DEFINE r == IF BeginAt(file) = 0 THEN 1 ELSE BeginAt(file)
<1>3. BeginAt(file) = 0 \/ BeginAt(file) \in 1..Len(file)
  BY <1>1, BeginAtIs
<1>4. r \in 1..(Len(file) + 1)
  BY <1>1, <1>3
<1> HIDE DEF r
<1>5. ASSUME NEW l \in Strays
      PROVE  /\ InsertAt(file, r, l) \in Seq(Old)
             /\ \A h \in Others : Below(file, h) => Below(InsertAt(file, r, l), h)
  <2>1. l \in Old
    BY MarksAreLines, NamesAreLines DEF Strays
  <2>2. QED
    BY <1>1, <1>4, <2>1, InsertedBelow
<1>6. ASSUME NEW i \in 1..Len(file)
      PROVE  /\ RemoveAt(file, i) \in Seq(Old)
             /\ file[i] = Bytes =>
                  \A h \in Others : Below(file, h) => Below(RemoveAt(file, i), h)
  BY <1>1, RemovedBelow
<1>7. HasBlock(file) => BlockEnd(file, BeginAt(file)) \in 1..Len(file)
  <2> SUFFICES ASSUME HasBlock(file) PROVE BlockEnd(file, BeginAt(file)) \in 1..Len(file)
    OBVIOUS
  <2> DEFINE b == BeginAt(file)
             e == BlockEnd(file, b)
  <2>1. b # 0 /\ e # 0
    BY DEF HasBlock
  <2>2. b \in Nat \ {0}
    BY <1>1, <1>3, <2>1
  <2> HIDE DEF b
  <2>3. \/ e = 0 /\ \A j \in b..Len(file) : file[j].kind # "end"
        \/ /\ e \in b..Len(file) /\ file[e].kind = "end"
           /\ \A j \in b..(e - 1) : file[j].kind # "end"
    BY <1>1, <2>2, BlockEndIs
  <2> HIDE DEF e
  <2>4. e \in 1..Len(file)
    BY <1>1, <2>1, <2>2, <2>3
  <2>5. QED
    BY <2>4 DEF e, b
<1>8. QED
  BY <1>2, <1>5, <1>6, <1>7 DEF r

LEMMA FInvStarts ==
    ASSUME Init PROVE FInv
<1>1. file \in Seq(Old) \cup {NoFile}
  BY StaticsAre DEF Init
<1>2. seeding.at = "no"
  BY DEF Init, Idle
<1>3. QED
  BY <1>1, <1>2, EmptyContent DEF Init, FInv

LEMMA FInvStays ==
    ASSUME FInv, [Next]_vars PROVE FInv'
<1> USE DEF daemon, script
<1>1. CASE Start
  <2>1. fallback' \in [prefix : Seq(Old), suffix : Seq(Old)] /\ IsAbove(fallback'.prefix)
    <3>1. CASE file = NoFile
      BY <1>1, <3>1, EmptyContent DEF Start
    <3>2. CASE file # NoFile
      <4>1. file \in Seq(Old)
        BY <3>2 DEF FInv
      <4>2. fallback' = SplitStatic(file)
        BY <1>1, <3>2 DEF Start
      <4> DEFINE x == SplitStatic(file)
                 r == Regions(file)
      <4>3. /\ x = [prefix |-> r.above, suffix |-> r.below]
            /\ x.prefix \in Seq(Old) /\ IsAbove(x.prefix) /\ x.suffix \in Seq(Old)
        BY <4>1, SplitIs
      <4> HIDE DEF x, r
      <4>4. QED
        BY <4>2, <4>3 DEF x
    <3>3. QED
      BY <3>1, <3>2
  <2>2. QED
    BY <1>1, <2>1 DEF Start, FInv
<1>2. ASSUME NEW d \in Decisions, PublishRead(d)
      PROVE  FInv'
  <2>1. Rewritten(d) \in Seq(Line)
    <3> DEFINE rest == IF file = NoFile THEN fallback ELSE SplitStatic(file)
    <3>1. rest.prefix \in Seq(Old) /\ IsAbove(rest.prefix) /\ rest.suffix \in Seq(Old)
      BY RestIs
    <3>2. Rewritten(d) = rest.prefix \o Render(d) \o rest.suffix
      BY DEF Rewritten
    <3> HIDE DEF rest
    <3>3. QED
      BY <3>1, <3>2, RewrittenIs
  <2>2. QED
    BY <1>2, <2>1 DEF PublishRead, FInv
<1>3. CASE PublishRename
  <2>1. Aged(draft) \in Seq(Old)
    BY <1>3, AgedIs DEF PublishRename, FInv
  <2>2. QED
    BY <1>3, <2>1 DEF PublishRename, FInv
<1>4. CASE PublishFails
  <2>1. Aged(draft) \in Seq(Old)
    BY <1>4, AgedIs DEF PublishFails, FInv
  <2>2. QED
    BY <1>4, <2>1 DEF PublishFails, FInv
<1>5. CASE Crash
  <2>1. fallback' = [prefix |-> <<>>, suffix |-> <<>>]
    BY <1>5 DEF Crash
  <2>2. fallback' \in [prefix : Seq(Old), suffix : Seq(Old)] /\ IsAbove(fallback'.prefix)
    BY <2>1, EmptyContent
  <2>3. QED
    BY <1>5, <2>2 DEF Crash, FInv
<1>6. ASSUME NEW s \in Statics, SeedCheck(s)
      PROVE  FInv'
  <2>1. seed = NoFile
    BY <1>6 DEF SeedCheck, FInv, Idle
  <2>2. /\ seeding' \in [at : {"copy", "make", "install"}, static : Statics]
        /\ seeding'.at # "install"
    BY <1>6 DEF SeedCheck
  <2>3. QED
    BY <1>6, <2>1, <2>2 DEF SeedCheck, FInv
<1>7. CASE SeedCopy
  <2>1. seeding \in [at : {"copy", "make", "install"}, static : Statics]
    BY <1>7 DEF SeedCopy, FInv, Idle
  <2>2. CASE file = NoFile
    BY <1>7, <2>2 DEF SeedCopy, FInv, Idle
  <2>3. CASE file # NoFile
    <3>1. seed' \in Seq(Old)
      BY <1>7, <2>1, <2>3, SeedIs DEF SeedCopy
    <3>2. /\ seeding' \in [at : {"copy", "make", "install"}, static : Statics]
          /\ seeding'.at = "install"
      BY <1>7, <2>1, <2>3 DEF SeedCopy
    <3>3. seed' # NoFile
      BY <3>1, OldFiles
    <3>4. QED
      BY <1>7, <3>1, <3>2, <3>3 DEF SeedCopy, FInv
  <2>4. QED
    BY <2>2, <2>3
<1>8. ASSUME NEW d \in Decisions, SeedMake(d)
      PROVE  FInv'
  <2>1. seeding \in [at : {"copy", "make", "install"}, static : Statics]
    BY <1>8 DEF SeedMake, FInv, Idle
  <2>2. seed' \in Seq(Old)
    BY <1>8, <2>1, SeedIs DEF SeedMake
  <2>3. /\ seeding' \in [at : {"copy", "make", "install"}, static : Statics]
        /\ seeding'.at = "install"
    BY <1>8, <2>1 DEF SeedMake
  <2>4. seed' # NoFile
    BY <2>2, OldFiles
  <2>5. QED
    BY <1>8, <2>2, <2>3, <2>4 DEF SeedMake, FInv
<1>9. CASE SeedInstall
  BY <1>9 DEF SeedInstall, FInv, Idle
<1>10. CASE SeedKilled
  BY <1>10 DEF SeedKilled, FInv, Idle
<1>11. ASSUME NEW h \in Others, AppendName(h)
       PROVE  FInv'
  <2>1. file' \in Seq(Old)
    BY <1>11, EditedIs DEF AppendName, Edit
  <2>2. owed' \subseteq Others
    BY <1>11 DEF AppendName, FInv
  <2>3. QED
    BY <1>11, <2>1, <2>2 DEF AppendName, Edit, FInv
<1>12. ASSUME NEW l \in Strays, InsertAbove(l)
       PROVE  FInv'
  <2>1. file' \in Seq(Old)
    BY <1>12, EditedIs DEF InsertAbove, Edit
  <2>2. QED
    BY <1>12, <2>1 DEF InsertAbove, Edit, FInv
<1>13. CASE Unterminate
  <2>1. file' \in Seq(Old)
    BY <1>13, EditedIs DEF Unterminate, Edit, HasBlock
  <2>2. QED
    BY <1>13, <2>1 DEF Unterminate, Edit, FInv
<1>14. CASE Delete
  BY <1>14 DEF Delete, Edit, FInv
<1>15. CASE Repair
  <2>1. file' \in Seq(Old)
    BY <1>15, EditedIs DEF Repair
  <2>2. QED
    BY <1>15, <2>1 DEF Repair, FInv
<1>16. CASE UNCHANGED vars
  BY <1>16 DEF vars, FInv
<1>17. QED
  BY <1>1, <1>2, <1>3, <1>4, <1>5, <1>6, <1>7, <1>8, <1>9, <1>10, <1>11, <1>12,
     <1>13, <1>14, <1>15, <1>16 DEF Next

LEMMA FInvAlways == Spec => []FInv
<1>1. Init => FInv
  BY FInvStarts
<1>2. FInv /\ [Next]_vars => FInv'
  BY FInvStays
<1>3. QED
  BY <1>1, <1>2, PTL DEF Spec
-----------------------------------------------------------------------------
(* A name appended under the block while nobody was writing is below the   *)
(* block wherever the file, or what a writer is about to make of it, has   *)
(* one: neither writer has read a file without it.                         *)

OwedInv ==
    /\ owed # {} => file # NoFile /\ seeding.at # "make"
    /\ \A h \in owed :
        /\ Below(file, h)
        /\ draft # NoFile => Below(draft, h)
        /\ seeding.at = "install" => Below(seed, h)

\* What publish writes holds what is below the block it read.
LEMMA RewrittenBelow ==
    ASSUME FInv, NEW d \in Decisions, file # NoFile, NEW h \in Others, Below(file, h)
    PROVE  Below(Rewritten(d), h)
<1> DEFINE x == SplitStatic(file)
<1>1. file \in Seq(Old)
  BY DEF FInv
<1>2. /\ x.prefix \in Seq(Old) /\ IsAbove(x.prefix) /\ x.suffix \in Seq(Old)
      /\ Holds(x.suffix, h)
  BY <1>1, SplitIs
<1>3. Rewritten(d) = x.prefix \o Render(d) \o x.suffix
  BY DEF Rewritten
<1> HIDE DEF x
<1>4. QED
  BY <1>2, <1>3, RewrittenIs

LEMMA OwedInvStays ==
    ASSUME FInv, OwedInv, [Next]_vars PROVE OwedInv'
<1> USE DEF daemon, script
<1>1. CASE Start
  <2>1. draft' = draft
    BY <1>1 DEF Start
  <2>2. QED
    BY <1>1, <2>1 DEF Start, OwedInv
<1>2. ASSUME NEW d \in Decisions, PublishRead(d)
      PROVE  OwedInv'
  <2>1. \A h \in owed : Below(Rewritten(d), h)
    BY RewrittenBelow DEF OwedInv, FInv
  <2>2. draft' # NoFile => draft' = Rewritten(d)
    BY <1>2 DEF PublishRead
  <2>3. /\ owed' = owed /\ file' = file /\ seeding' = seeding /\ seed' = seed
    BY <1>2 DEF PublishRead
  <2>4. QED
    BY <2>1, <2>2, <2>3 DEF OwedInv
<1>3. ASSUME draft # NoFile
      PROVE  \A h \in owed : Below(Aged(draft), h) /\ Aged(draft) # NoFile
  <2>1. draft \in Seq(Line)
    BY <1>3 DEF FInv
  <2>2. Aged(draft) # NoFile
    BY <2>1, AgedIs, OldFiles
  <2>3. QED
    BY <1>3, <2>1, <2>2, AgedBelow DEF OwedInv, FInv
<1>4. CASE PublishRename
  BY <1>3, <1>4 DEF PublishRename, OwedInv
<1>5. CASE PublishFails
  BY <1>3, <1>5 DEF PublishFails, OwedInv
<1>6. CASE Crash
  BY <1>6 DEF Crash, OwedInv
<1>7. ASSUME NEW s \in Statics, SeedCheck(s)
      PROVE  OwedInv'
  <2>1. owed # {} => HasBlock(file)
    BY BelowABlock, OldFiles DEF OwedInv, FInv
  <2>2. /\ seeding'.at # "install" /\ (HasBlock(file) => seeding'.at # "make")
        /\ owed' = owed /\ file' = file /\ draft' = draft
    BY <1>7 DEF SeedCheck
  <2>3. QED
    BY <2>1, <2>2 DEF OwedInv
<1>8. CASE SeedCopy
  <2>1. seeding \in [at : {"copy", "make", "install"}, static : Statics]
    BY <1>8 DEF SeedCopy, FInv, Idle
  <2>2. seeding.static \in Seq(Old)
    BY <2>1, StaticsAre
  <2>3. CASE file = NoFile
    BY <1>8, <2>3 DEF SeedCopy, OwedInv, Idle
  <2>4. CASE file # NoFile
    <3>1. ASSUME NEW h \in owed PROVE Below(seed', h)
      <4>1. file \in Seq(Old) /\ Below(file, h) /\ h \in Others
        BY <2>4 DEF OwedInv, FInv
      <4>2. QED
        BY <1>8, <2>2, <2>4, <4>1, CopiedBelow DEF SeedCopy
    <3>2. /\ seeding'.at = "install" /\ owed' = owed /\ file' = file /\ draft' = draft
      BY <1>8, <2>1, <2>4 DEF SeedCopy
    <3>3. QED
      BY <3>1, <3>2 DEF OwedInv
  <2>5. QED
    BY <2>3, <2>4
<1>9. ASSUME NEW d \in Decisions, SeedMake(d)
      PROVE  OwedInv'
  <2>1. owed = {}
    BY <1>9 DEF SeedMake, OwedInv
  <2>2. owed' = {}
    BY <1>9, <2>1 DEF SeedMake
  <2>3. QED
    BY <2>2 DEF OwedInv
<1>10. CASE SeedInstall
  <2>1. seed # NoFile /\ seeding.at = "install"
    BY <1>10 DEF SeedInstall, FInv
  <2>2. QED
    BY <1>10, <2>1 DEF SeedInstall, OwedInv, Idle
<1>11. CASE SeedKilled
  BY <1>11 DEF SeedKilled, OwedInv, Idle
<1>12. ASSUME NEW l \in Others, AppendName(l)
       PROVE  OwedInv'
  <2>1. /\ file # NoFile /\ file' = Append(file, Foreign(l)) /\ draft' = draft
        /\ seeding' = seeding /\ seed' = seed
        /\ owed' = IF NobodyWrites /\ HasBlock(file) THEN owed \cup {l} ELSE owed
    BY <1>12 DEF AppendName, Edit
  <2>2. file \in Seq(Old) /\ file' \in Seq(Old)
    BY <2>1, EditedIs DEF FInv
  <2>3. file' # NoFile
    BY <2>2, OldFiles
  <2>4. \A h \in owed : Below(file', h)
    BY <2>1, EditedIs DEF OwedInv, FInv
  <2>5. CASE NobodyWrites /\ HasBlock(file)
    <3>1. Below(file', l)
      BY <2>1, <2>2, <2>5, NamesAreLines, AppendedBelow
    <3>2. draft' = NoFile /\ seeding'.at = "no"
      BY <2>1, <2>5 DEF NobodyWrites, Idle
    <3>3. QED
      BY <2>1, <2>3, <2>4, <2>5, <3>1, <3>2 DEF OwedInv
  <2>6. CASE ~(NobodyWrites /\ HasBlock(file))
    BY <2>1, <2>3, <2>4, <2>6 DEF OwedInv
  <2>7. QED
    BY <2>5, <2>6
<1>13. ASSUME NEW l \in Strays, InsertAbove(l)
       PROVE  OwedInv'
  <2>1. /\ file # NoFile /\ draft' = draft /\ seeding' = seeding /\ seed' = seed
        /\ file' = InsertAt(file, IF BeginAt(file) = 0 THEN 1 ELSE BeginAt(file), l)
        /\ owed' = owed
    BY <1>13 DEF InsertAbove, Edit
  <2>2. file' \in Seq(Old)
    BY <2>1, EditedIs
  <2>3. file' # NoFile
    BY <2>2, OldFiles
  <2>4. \A h \in owed : Below(file', h)
    BY <2>1, EditedIs DEF OwedInv, FInv
  <2>5. QED
    BY <2>1, <2>3, <2>4 DEF OwedInv
<1>14. CASE Unterminate
  BY <1>14 DEF Unterminate, Edit, OwedInv
<1>15. CASE Delete
  BY <1>15 DEF Delete, Edit, OwedInv
<1>16. CASE Repair
  <2>1. PICK i \in 1..Len(file) : file[i] = Bytes /\ file' = RemoveAt(file, i)
    BY <1>16 DEF Repair
  <2>2. /\ file # NoFile /\ draft' = draft /\ seeding' = seeding /\ seed' = seed
        /\ owed' = owed
    BY <1>16 DEF Repair
  <2>3. file' \in Seq(Old)
    BY <2>1, <2>2, EditedIs
  <2>4. file' # NoFile
    BY <2>3, OldFiles
  <2>5. \A h \in owed : Below(file', h)
    BY <2>1, <2>2, EditedIs DEF OwedInv, FInv
  <2>6. QED
    BY <2>2, <2>4, <2>5 DEF OwedInv
<1>17. CASE UNCHANGED vars
  BY <1>17 DEF vars, OwedInv
<1>18. QED
  BY <1>1, <1>2, <1>4, <1>5, <1>6, <1>7, <1>8, <1>9, <1>10, <1>11, <1>12,
     <1>13, <1>14, <1>15, <1>16, <1>17 DEF Next

\* Publishing, seeding, restarts and failures of both never drop a name that
\* was appended under the block at a moment when neither writer was between its
\* read and its rename (hosts.rs: PUB-1), whatever the names and the decisions.
THEOREM AppendsAreKept == Spec => []AppendsSurvive
<1>1. Init => OwedInv
  BY DEF Init, OwedInv, Idle
<1>2. FInv /\ OwedInv /\ [Next]_vars => OwedInv'
  BY OwedInvStays
<1>3. FInv /\ OwedInv => AppendsSurvive
  <2> SUFFICES ASSUME FInv, OwedInv, file # NoFile, NEW h \in owed
               PROVE  Foreign(h) \in ToSet(file)
    BY DEF AppendsSurvive
  <2>1. file \in Seq(Line) /\ h \in Others /\ Below(file, h)
    BY OldFiles DEF FInv, OwedInv
  <2>2. QED
    BY <2>1, BelowABlock
<1>4. QED
  BY <1>1, <1>2, <1>3, FInvAlways, PTL DEF Spec

-----------------------------------------------------------------------------
(* The writers are those of ManagedFile.                                   *)

Shown == Regions(Content(file))
Kept == [above |-> fallback.prefix, block |-> <<>>, below |-> fallback.suffix]
Held == RegionsOf(Later(draft))
Carried == RegionsOf(seed)

LEMMA HeldIs ==
    ASSUME NEW f \in Seq(Line) \cup {NoFile}
    PROVE  /\ f = NoFile => RegionsOf(Later(f)) = NoFile
           /\ f # NoFile => /\ RegionsOf(Later(f)) = Regions(Aged(f))
                            /\ Regions(Aged(f)) # NoFile
                            /\ Content(Aged(f)) = Aged(f)
<1>1. CASE f = NoFile
  BY <1>1 DEF RegionsOf, Later
<1>2. CASE f # NoFile
  <2>1. Aged(f) \in Seq(Line) /\ Aged(f) # NoFile
    BY <1>2, AgedIs, OldFiles
  <2>2. QED
    BY <1>2, <2>1, RegionsAreRegions DEF RegionsOf, Later, Content
<1>3. QED
  BY <1>1, <1>2

LEMMA CarriedIs ==
    ASSUME NEW f \in Seq(Old) \cup {NoFile}
    PROVE  /\ f = NoFile => RegionsOf(f) = NoFile
           /\ f # NoFile => /\ RegionsOf(f) = Regions(f) /\ Regions(f) # NoFile
                            /\ Content(f) = f
<1>1. CASE f = NoFile
  BY <1>1 DEF RegionsOf
<1>2. CASE f # NoFile
  <2>1. f \in Seq(Line)
    BY <1>2, OldFiles
  <2>2. QED
    BY <1>2, <2>1, RegionsAreRegions DEF RegionsOf, Content
<1>3. QED
  BY <1>1, <1>2

LEMMA ManagedStarts ==
    ASSUME Init PROVE Managed!Init
<1>1. Shown \in {[Managed!Empty EXCEPT !.above = s] : s \in Statics \cup {<<>>}}
  <2>1. CASE file = NoFile
    <3>1. Shown = [above |-> <<>>, block |-> <<>>, below |-> <<>>]
      BY <2>1, EmptyContent DEF Shown, Content
    <3>2. Shown = [Managed!Empty EXCEPT !.above = <<>>]
      BY <3>1 DEF Managed!Empty
    <3>3. QED
      BY <3>2
  <2>2. CASE file # NoFile
    <3>1. file \in Statics
      BY <2>2 DEF Init
    <3>2. file \in Seq(Line) /\ IsAbove(file)
      BY <3>1, StaticsAre, OldFiles
    <3>3. Shown = [above |-> file, block |-> <<>>, below |-> <<>>]
      BY <2>2, <3>2, NoBlockRegions DEF Shown, Content
    <3>4. Shown = [Managed!Empty EXCEPT !.above = file]
      BY <3>3 DEF Managed!Empty
    <3>5. QED
      BY <3>1, <3>4
  <2>3. QED
    BY <2>1, <2>2
<1>2. Kept = Managed!Empty
  BY DEF Init, Kept, Managed!Empty
<1>3. Held = NoFile /\ Carried = NoFile
  BY DEF Init, Held, Carried, RegionsOf, Later
<1>4. QED
  BY <1>1, <1>2, <1>3 DEF Managed!Init, Shown, Kept, Held, Carried
LEMMA ManagedSteps ==
    ASSUME FInv, FInv', [Next]_vars
    PROVE  Managed!Next \/ UNCHANGED <<Shown, Kept, Held, Carried>>
<1> USE DEF daemon, script
<1>1. /\ fallback' = fallback => Kept' = Kept
      /\ draft' = draft => Held' = Held
      /\ seed' = seed => Carried' = Carried
      /\ file' = file => Shown' = Shown
  BY DEF Kept, Held, Carried, Shown, RegionsOf, Later, Content
<1>2. /\ draft = NoFile => Held = NoFile
      /\ draft # NoFile => /\ Held = Regions(Aged(draft)) /\ Held # NoFile
                           /\ Content(Aged(draft)) = Aged(draft)
      /\ seed = NoFile => Carried = NoFile
      /\ seed # NoFile => /\ Carried = Regions(seed) /\ Carried # NoFile
                          /\ Content(seed) = seed
  BY HeldIs, CarriedIs DEF FInv, Held, Carried
<1>3. /\ draft' = NoFile => Held' = NoFile
      /\ draft' # NoFile => Held' = Regions(Aged(draft')) /\ Held' # NoFile
      /\ seed' = NoFile => Carried' = NoFile
      /\ seed' # NoFile => Carried' = Regions(seed') /\ Carried' # NoFile
  BY HeldIs, CarriedIs DEF FInv, Held, Carried
<1>4. /\ Kept.above = fallback.prefix /\ Kept.below = fallback.suffix
      /\ Kept'.above = fallback'.prefix /\ Kept'.below = fallback'.suffix
  BY DEF Kept
<1>5. file # NoFile => Shown = Regions(file) /\ file \in Seq(Old)
  BY DEF Shown, Content, FInv
<1>6. file = NoFile => Shown = Managed!Empty
  BY EmptyContent DEF Shown, Content, Managed!Empty
<1>7. CASE Start
  <2>1. draft = NoFile /\ UNCHANGED <<file, draft, seed>>
    BY <1>7 DEF Start, FInv
  <2>2. Kept'.above = Shown.above /\ Kept'.below = Shown.below
    <3>1. CASE file = NoFile
      <4>1. fallback' = [prefix |-> <<>>, suffix |-> <<>>]
        BY <1>7, <3>1 DEF Start
      <4>2. QED
        BY <1>4, <1>6, <3>1, <4>1 DEF Managed!Empty
    <3>2. CASE file # NoFile
      <4>1. fallback' = SplitStatic(file)
        BY <1>7, <3>2 DEF Start
      <4>2. fallback' = [prefix |-> Shown.above, suffix |-> Shown.below]
        BY <1>5, <3>2, <4>1, SplitIs
      <4>3. QED
        BY <1>4, <4>2
    <3>3. QED
      BY <3>1, <3>2
  <2>3. Held = NoFile /\ Held' = NoFile /\ Shown' = Shown /\ Carried' = Carried
    BY <1>1, <1>2, <1>3, <2>1
  <2>4. Managed!DaemonStart
    BY <2>2, <2>3 DEF Managed!DaemonStart, Managed!Around, Kept, Held, Shown, Carried
  <2>5. QED
    BY <2>4 DEF Managed!Next
<1>8. ASSUME NEW d \in Decisions, PublishRead(d)
      PROVE  Managed!Next \/ UNCHANGED <<Shown, Kept, Held, Carried>>
  <2>1. draft = NoFile /\ UNCHANGED <<file, fallback, seed>>
    BY <1>8 DEF PublishRead
  <2>2. CASE draft' = NoFile
    BY <1>1, <2>1, <2>2
  <2>3. CASE draft' # NoFile
    <3> DEFINE rest == IF file = NoFile THEN fallback ELSE SplitStatic(file)
               p == rest.prefix
               s == rest.suffix
               b == Aged(Render(d))
    <3>1. p \in Seq(Old) /\ IsAbove(p) /\ s \in Seq(Old)
      BY RestIs
    <3>2. draft' = p \o Render(d) \o s
      BY <1>8, <2>3 DEF PublishRead, Rewritten
    <3>3. \/ p = Shown.above /\ s = Shown.below
          \/ Shown = Managed!Empty /\ p = Kept.above /\ s = Kept.below
      <4>1. CASE file = NoFile
        BY <1>4, <1>6, <4>1
      <4>2. CASE file # NoFile
        <5>1. SplitStatic(file) = [prefix |-> Shown.above, suffix |-> Shown.below]
          BY <1>5, <4>2, SplitIs
        <5>2. QED
          BY <4>2, <5>1
      <4>3. QED
        BY <4>1, <4>2
    <3>4. b \in DaemonBlocks
      BY DEF DaemonBlocks
    <3> HIDE DEF rest, p, s
    <3>5. Regions(Aged(draft')) = [above |-> p, block |-> b, below |-> s]
      BY <3>1, <3>2, RewrittenIs
    <3> HIDE DEF b
    <3>6. Held'.above = p /\ Held'.block = b /\ Held'.below = s
      BY <1>3, <2>3, <3>5
    <3>7. Held = NoFile /\ Held' # NoFile
      BY <1>2, <1>3, <2>1, <2>3
    <3>8. Shown' = Shown /\ Kept' = Kept /\ Carried' = Carried
      BY <1>1, <2>1
    <3>9. Managed!DaemonRead
      BY <3>3, <3>4, <3>6, <3>7, <3>8
         DEF Managed!DaemonRead, Managed!Around, Kept, Held, Shown, Carried
    <3>10. QED
      BY <3>9 DEF Managed!Next
  <2>4. QED
    BY <2>2, <2>3
<1>9. ASSUME draft # NoFile, file' = Aged(draft), draft' = NoFile,
             UNCHANGED <<fallback, seed>>
      PROVE  Managed!DaemonWrite
  <2>1. Shown' = Held /\ Held # NoFile
    BY <1>2, <1>9 DEF Shown, Content
  <2>2. Held' = NoFile /\ Kept' = Kept /\ Carried' = Carried
    BY <1>1, <1>3, <1>9
  <2>3. QED
    BY <2>1, <2>2 DEF Managed!DaemonWrite, Kept, Held, Shown, Carried
<1>10. ASSUME draft' = NoFile, UNCHANGED <<file, seed>>,
              fallback' = fallback \/ fallback' = [prefix |-> <<>>, suffix |-> <<>>]
       PROVE  Managed!DaemonStop
  <2>1. /\ Held' = NoFile /\ Shown' = Shown /\ Carried' = Carried
    BY <1>1, <1>3, <1>10
  <2>2. \/ Kept'.above = Kept.above /\ Kept'.below = Kept.below
        \/ Kept'.above = <<>> /\ Kept'.below = <<>>
    BY <1>4, <1>10
  <2>3. QED
    BY <2>1, <2>2 DEF Managed!DaemonStop, Managed!Around, Managed!Empty,
                      Kept, Held, Shown, Carried
<1>11. CASE PublishRename
  BY <1>9, <1>11 DEF PublishRename, Managed!Next
<1>12. CASE PublishFails
  BY <1>9, <1>10, <1>12 DEF PublishFails, Managed!Next
<1>13. CASE Crash
  BY <1>10, <1>13 DEF Crash, Managed!Next
<1>14. ASSUME UNCHANGED <<file, fallback, draft, seed>>
       PROVE  UNCHANGED <<Shown, Kept, Held, Carried>>
  BY <1>1, <1>14
<1>15. ASSUME UNCHANGED <<fallback, draft, seed>>
       PROVE  Managed!Next
  <2>1. Managed!Edited
    BY <1>1, <1>15 DEF Managed!Edited, Kept, Held, Carried
  <2>2. QED
    BY <2>1 DEF Managed!Next
<1>16. ASSUME NEW s \in Statics, SeedCheck(s)
       PROVE  UNCHANGED <<Shown, Kept, Held, Carried>>
  BY <1>14, <1>16 DEF SeedCheck
<1>17. ASSUME seed = NoFile, seed' # NoFile, UNCHANGED <<file, fallback, draft>>,
              Carried'.above \in Statics,
              \/ Carried'.block = Shown.block /\ Carried'.below = Shown.below
              \/ Carried'.block \in ScriptBlocks /\ Carried'.below = <<>>
       PROVE  Managed!Next
  <2>1. /\ Carried = NoFile /\ Carried' # NoFile
        /\ Shown' = Shown /\ Kept' = Kept /\ Held' = Held
    BY <1>1, <1>2, <1>3, <1>17
  <2>2. Managed!ScriptRead
    BY <1>17, <2>1 DEF Managed!ScriptRead, Kept, Held, Shown, Carried
  <2>3. QED
    BY <2>2 DEF Managed!Next
<1>stop. ASSUME seed' = NoFile, UNCHANGED <<file, fallback, draft>>
       PROVE  Managed!Next
  <2>1. Carried' = NoFile /\ Kept' = Kept /\ Held' = Held /\ Shown' = Shown
    BY <1>1, <1>3, <1>stop
  <2>2. Managed!ScriptStop
    BY <2>1 DEF Managed!ScriptStop, Kept, Held, Shown, Carried
  <2>3. QED
    BY <2>2 DEF Managed!Next
<1>18. CASE SeedCopy
  <2> DEFINE s == seeding.static
  <2>1. s \in Statics /\ seed = NoFile /\ UNCHANGED <<file, fallback, draft>>
    BY <1>18 DEF SeedCopy, FInv, Idle
  <2>2. CASE file = NoFile
    <3>1. seed' = NoFile
      BY <1>18, <2>2 DEF SeedCopy
    <3>2. QED
      BY <1>stop, <2>1, <3>1
  <2>3. CASE file # NoFile
    <3>1. file \in Seq(Line) /\ Content(file) = file
      BY <1>5, <2>3, OldFiles DEF Content
    <3>2. s \in Seq(Line) /\ IsAbove(s)
      BY <2>1, StaticsAre, OldFiles
    <3>3. seed' = s \o FromBlock(file)
      BY <1>18, <2>3 DEF SeedCopy
    <3> HIDE DEF s
    <3>4. Regions(seed') = [above |-> s, block |-> Regions(file).block,
                            below |-> Regions(file).below]
      BY <3>1, <3>2, <3>3, CopiedRegions
    <3>5. seed' # NoFile
      <4>1. seeding \in [at : {"copy", "make", "install"}, static : Statics]
        BY <1>18 DEF SeedCopy, FInv, Idle
      <4>2. seeding'.at = "install"
        BY <1>18, <2>3, <4>1 DEF SeedCopy
      <4>3. QED
        BY <4>2 DEF FInv
    <3>6. Shown = Regions(file)
      BY <3>1 DEF Shown
    <3>7. Carried'.above = s /\ Carried'.block = Shown.block /\ Carried'.below = Shown.below
      BY <1>3, <3>4, <3>5, <3>6
    <3>8. QED
      BY <1>17, <2>1, <3>5, <3>7
  <2>4. QED
    BY <2>2, <2>3
<1>19. ASSUME NEW d \in Decisions, SeedMake(d)
       PROVE  Managed!Next
  <2> DEFINE s == seeding.static
             b == RenderSeed(d)
  <2>1. s \in Statics /\ seed = NoFile
    BY <1>19 DEF SeedMake, FInv, Idle
  <2>2. /\ s \in Seq(Line) /\ IsAbove(s) /\ IsBlock(b) /\ b \in Seq(Line)
        /\ <<>> \in Seq(Line)
    BY <2>1, StaticsAre, RenderSeedIsBlock, OldFiles, EmptySeq
  <2>3. seed' = s \o b /\ UNCHANGED <<file, fallback, draft>>
    BY <1>19 DEF SeedMake
  <2>4. b \in ScriptBlocks
    BY DEF ScriptBlocks
  <2> HIDE DEF s, b
  <2>5. s \o b \o <<>> = s \o b
    <3>1. s \o b \in Seq(Line)
      BY <2>2, ConcatProperties
    <3>2. QED
      BY <3>1, ConcatEmptySeq
  <2>6. Regions(s \o b \o <<>>) = [above |-> s, block |-> b, below |-> <<>>]
    BY <2>2, JoinedRegions
  <2>7. Regions(seed') = [above |-> s, block |-> b, below |-> <<>>]
    BY <2>3, <2>5, <2>6
  <2>8. seed' # NoFile
    BY <1>19 DEF SeedMake, FInv
  <2>9. Carried'.above = s /\ Carried'.block = b /\ Carried'.below = <<>>
    BY <1>3, <2>7, <2>8
  <2>10. QED
    BY <1>17, <2>1, <2>3, <2>4, <2>8, <2>9
<1>20. CASE SeedInstall
  <2>1. seed # NoFile /\ file' = seed /\ seed' = NoFile /\ UNCHANGED <<fallback, draft>>
    BY <1>20 DEF SeedInstall, FInv
  <2>2. Shown' = Carried /\ Carried # NoFile
    BY <1>2, <2>1 DEF Shown, Content
  <2>3. Carried' = NoFile /\ Kept' = Kept /\ Held' = Held
    BY <1>1, <1>3, <2>1
  <2>4. Managed!ScriptWrite
    BY <2>2, <2>3 DEF Managed!ScriptWrite, Kept, Held, Shown, Carried
  <2>5. QED
    BY <2>4 DEF Managed!Next
<1>21. CASE SeedKilled
  BY <1>21, <1>stop DEF SeedKilled
<1>22. ASSUME NEW h \in Others, AppendName(h)
       PROVE  Managed!Next
  BY <1>15, <1>22 DEF AppendName, Edit
<1>23. ASSUME NEW l \in Strays, InsertAbove(l)
       PROVE  Managed!Next
  BY <1>15, <1>23 DEF InsertAbove, Edit
<1>24. CASE Unterminate
  BY <1>15, <1>24 DEF Unterminate, Edit
<1>25. CASE Delete
  BY <1>15, <1>25 DEF Delete, Edit
<1>26. CASE Repair
  BY <1>15, <1>26 DEF Repair
<1>27. CASE UNCHANGED vars
  BY <1>14, <1>27 DEF vars
<1>28. QED
  BY <1>7, <1>8, <1>11, <1>12, <1>13, <1>16, <1>18, <1>19, <1>20, <1>21, <1>22,
     <1>23, <1>24, <1>25, <1>26, <1>27 DEF Next

\* The daemon and the script implement the writers of ManagedFile, whatever the
\* other, an editor, a crash or a failure did between a read and its rename, for
\* any names, decisions and contents: the daemon puts both regions back as it has
\* read them, the script the block and what is below it.  Of what was above the
\* block the script keeps nothing: it installs the region that it declares.
THEOREM WritersKeepRegions == Spec => RefinesManagedFile
<1>1. Init => Managed!Init
  BY ManagedStarts
<1>2. FInv /\ FInv' /\ [Next]_vars => [Managed!Next]_(Managed!vars)
  BY ManagedSteps DEF Managed!vars, Shown, Kept, Held, Carried
<1>3. QED
  BY <1>1, <1>2, FInvAlways, PTL DEF Spec, RefinesManagedFile, Managed!Spec
=============================================================================
