----------------------------- MODULE StripProofs -----------------------------
(***************************************************************************)
(* Proofs about Strip: every property that the run checks on strips of up  *)
(* to four surfaces, for strips of every length, every device width, every *)
(* width of a surface and every distance scrolled.  First lemmas about the *)
(* operators of StripOps: the edges, the scroll range, the hits, and what  *)
(* the mutators return.                                                    *)
(***************************************************************************)
EXTENDS Strip, SequenceTheorems, FiniteSetTheorems, WellFoundedInduction,
        TLAPS

(***************************************************************************)
(* Edge is defined by recursion on the position, so facts about it need an *)
(* induction.  It takes the form of the least counterexample: a set of     *)
(* naturals that is not empty has a smallest element.                      *)
(***************************************************************************)
Below == {pair \in Nat \X Nat : pair[1] < pair[2]}

LEMMA Smallest ==
  ASSUME NEW T, T \subseteq Nat, T # {}
  PROVE  \E x \in T : \A y \in T : x <= y
<1>1. IsWellFoundedOn(Below, Nat)
  BY NatLessThanWellFounded DEF OpToRel, Below
<1>2. PICK x \in T : \A y \in T : ~(<<y, x>> \in Below)
  BY <1>1, WFMin
<1>3. \A y \in T : ~(y < x)
  BY <1>2 DEF Below
<1> QED
  BY <1>3

\* a set that holds 0 and with every number the next one holds every number
LEMMA Induction ==
  ASSUME NEW n \in Nat, NEW T, 0 \in T,
         \A i \in 0 .. n - 1 : i \in T => i + 1 \in T
  PROVE  0 .. n \subseteq T
<1> SUFFICES ASSUME 0 .. n \ T # {} PROVE FALSE
  OBVIOUS
<1>1. PICK x \in 0 .. n \ T : \A y \in 0 .. n \ T : x <= y
  <2> DEFINE U == 0 .. n \ T
  <2>1. U \subseteq Nat /\ U # {}
    OBVIOUS
  <2> HIDE DEF U
  <2>2. \E x \in U : \A y \in U : x <= y
    BY <2>1, Smallest
  <2> QED
    BY <2>2 DEF U
<1>2. x # 0
  BY <1>1
<1>3. x - 1 \in 0 .. n - 1 /\ ~(x <= x - 1)
  BY <1>1, <1>2
<1>4. x - 1 \in T
  BY <1>1, <1>3
<1>5. (x - 1) + 1 \in T
  BY <1>3, <1>4
<1> QED
  BY <1>1, <1>5
-----------------------------------------------------------------------------
(***************************************************************************)
(* Edges.                                                                  *)
(***************************************************************************)
\* a sequence of surfaces, of which only the widths matter
Widthy(s) == /\ Len(s) \in Nat
             /\ DOMAIN s = 1 .. Len(s)
             /\ \A i \in 1 .. Len(s) : s[i].width \in Int

Edges(s, n, e) == e = [i \in 0 .. n |-> IF i = 0 THEN 0
                                        ELSE e[i - 1] + s[i].width]

LEMMA EdgesExist ==
  ASSUME NEW s, Len(s) \in Nat
  PROVE  \E e : Edges(s, Len(s), e)
<1> DEFINE T == {n \in Nat : \E e : Edges(s, n, e)}
<1>1. 0 \in T
  <2> DEFINE e == [i \in 0 .. 0 |-> 0]
  <2>1. Edges(s, 0, e)
    BY DEF Edges
  <2> QED
    BY <2>1
<1>2. ASSUME NEW n \in 0 .. Len(s) - 1, n \in T PROVE n + 1 \in T
  <2>1. PICK e : Edges(s, n, e)
    BY <1>2
  <2> DEFINE f == [i \in 0 .. n + 1 |-> IF i = n + 1 THEN e[n] + s[n + 1].width
                                        ELSE e[i]]
  <2>2. n \in Nat
    BY <1>2
  <2>3. \A i \in 0 .. n : e[i] = IF i = 0 THEN 0 ELSE e[i - 1] + s[i].width
    BY <2>1 DEF Edges
  <2>4. ASSUME NEW i \in 0 .. n + 1
        PROVE  f[i] = IF i = 0 THEN 0 ELSE f[i - 1] + s[i].width
    <3>1. CASE i = n + 1
      BY <2>2, <3>1
    <3>2. CASE i \in 1 .. n
      BY <2>2, <2>3, <3>2
    <3>3. CASE i = 0
      BY <2>2, <2>3, <3>3
    <3> QED
      BY <2>2, <3>1, <3>2, <3>3
  <2>5. f = [i \in 0 .. n + 1 |-> f[i]]
    OBVIOUS
  <2>6. Edges(s, n + 1, f)
    <3> HIDE DEF f
    <3> QED
      BY <2>4, <2>5 DEF Edges
  <2> QED
    BY <2>2, <2>6
<1>3. 0 .. Len(s) \subseteq T
  <2> HIDE DEF T
  <2> QED
    BY <1>1, <1>2, Induction, Zenon
<1> QED
  BY <1>3

LEMMA EdgeValues ==
  ASSUME NEW s, Len(s) \in Nat
  PROVE  /\ Edge(s)[0] = 0
         /\ \A i \in 1 .. Len(s) : Edge(s)[i] = Edge(s)[i - 1] + s[i].width
<1>1. Edge(s) = CHOOSE e : Edges(s, Len(s), e)
  BY DEF Edge, Edges
<1>2. Edges(s, Len(s), Edge(s))
  BY <1>1, EdgesExist
<1> QED
  BY <1>2 DEF Edges

LEMMA EdgeType ==
  ASSUME NEW s, Widthy(s)
  PROVE  \A i \in 0 .. Len(s) : Edge(s)[i] \in Int
<1> DEFINE T == {i \in Nat : Edge(s)[i] \in Int}
<1>1. Len(s) \in Nat
  BY DEF Widthy
<1>2. 0 \in T
  BY <1>1, EdgeValues
<1>3. ASSUME NEW i \in 0 .. Len(s) - 1, i \in T PROVE i + 1 \in T
  <2>1. i + 1 \in 1 .. Len(s) /\ (i + 1) - 1 = i
    BY <1>1, <1>3
  <2>2. Edge(s)[i + 1] = Edge(s)[i] + s[i + 1].width
    BY <1>1, <2>1, EdgeValues
  <2> QED
    BY <1>3, <2>1, <2>2 DEF Widthy
<1>4. 0 .. Len(s) \subseteq T
  <2> HIDE DEF T
  <2> QED
    BY <1>1, <1>2, <1>3, Induction, Zenon
<1> QED
  BY <1>4

\* the edges depend on the widths alone, and only on those to the left
LEMMA EdgeAgrees ==
  ASSUME NEW s, NEW t, Len(s) \in Nat, Len(t) \in Nat,
         NEW n \in 0 .. Len(s), n <= Len(t),
         \A i \in 1 .. n : s[i].width = t[i].width
  PROVE  \A i \in 0 .. n : Edge(s)[i] = Edge(t)[i]
<1> DEFINE T == {i \in Nat : Edge(s)[i] = Edge(t)[i]}
<1>1. 0 \in T
  BY EdgeValues
<1>2. ASSUME NEW i \in 0 .. n - 1, i \in T PROVE i + 1 \in T
  <2>1. /\ i + 1 \in 1 .. Len(s) /\ i + 1 \in 1 .. Len(t) /\ i + 1 \in 1 .. n
        /\ (i + 1) - 1 = i
    BY <1>2
  <2>2. /\ Edge(s)[i + 1] = Edge(s)[i] + s[i + 1].width
        /\ Edge(t)[i + 1] = Edge(t)[i] + t[i + 1].width
    BY <2>1, EdgeValues
  <2> QED
    BY <1>2, <2>1, <2>2
<1>3. 0 .. n \subseteq T
  <2>1. n \in Nat
    OBVIOUS
  <2> HIDE DEF T
  <2>2. \A i \in 0 .. n - 1 : i \in T => i + 1 \in T
    BY <1>2
  <2> QED
    BY <1>1, <2>1, <2>2, Induction, Zenon
<1> QED
  BY <1>3

\* surfaces that have a width follow each other from left to right
LEMMA EdgesAscend ==
  ASSUME NEW s, Widthy(s), \A i \in 1 .. Len(s) : s[i].width > 0,
         NEW j \in 0 .. Len(s)
  PROVE  \A i \in 0 .. j : Edge(s)[i] <= Edge(s)[j]
<1> DEFINE T == {k \in Nat : \A i \in 0 .. k : Edge(s)[i] <= Edge(s)[k]}
<1>1. Len(s) \in Nat
  BY DEF Widthy
<1>2. 0 \in T
  BY <1>1, EdgeValues
<1>3. ASSUME NEW k \in 0 .. Len(s) - 1, k \in T PROVE k + 1 \in T
  <2>1. k + 1 \in 1 .. Len(s) /\ (k + 1) - 1 = k /\ k \in 0 .. Len(s)
    BY <1>1, <1>3
  <2>2. /\ Edge(s)[k + 1] = Edge(s)[k] + s[k + 1].width
        /\ s[k + 1].width > 0 /\ s[k + 1].width \in Int
    BY <1>1, <2>1, EdgeValues DEF Widthy
  <2>3. Edge(s)[k] \in Int
    BY <2>1, EdgeType
  <2>4. ASSUME NEW i \in 0 .. k + 1 PROVE Edge(s)[i] <= Edge(s)[k + 1]
    <3>1. CASE i \in 0 .. k
      <4>1. Edge(s)[i] <= Edge(s)[k] /\ Edge(s)[i] \in Int
        BY <1>1, <1>3, <2>1, <3>1, EdgeType
      <4> QED
        BY <2>2, <2>3, <4>1
    <3>2. CASE i = k + 1
      BY <2>2, <2>3, <3>2
    <3> QED
      BY <2>1, <3>1, <3>2
  <2> QED
    BY <2>1, <2>4
<1>4. 0 .. Len(s) \subseteq T
  <2> HIDE DEF T
  <2> QED
    BY <1>1, <1>2, <1>3, Induction, Zenon
<1> QED
  BY <1>4

LEMMA EdgeUniform ==
  ASSUME NEW s, Len(s) \in Nat, NEW w \in Int,
         \A i \in 1 .. Len(s) : s[i].width = w
  PROVE  \A i \in 0 .. Len(s) : Edge(s)[i] = i * w
<1> DEFINE T == {i \in Nat : Edge(s)[i] = i * w}
<1>1. 0 \in T
  BY EdgeValues
<1>2. ASSUME NEW i \in 0 .. Len(s) - 1, i \in T PROVE i + 1 \in T
  <2>1. i + 1 \in 1 .. Len(s) /\ (i + 1) - 1 = i /\ i \in Nat
    BY <1>2
  <2>2. Edge(s)[i + 1] = i * w + w
    BY <1>2, <2>1, EdgeValues
  <2>3. (i + 1) * w = i * w + w
    BY <2>1
  <2> QED
    BY <2>1, <2>2, <2>3
<1>3. 0 .. Len(s) \subseteq T
  <2> HIDE DEF T
  <2> QED
    BY <1>1, <1>2, Induction, Zenon
<1> QED
  BY <1>3
-----------------------------------------------------------------------------
(***************************************************************************)
(* The scroll range.                                                       *)
(***************************************************************************)
LEMMA ScrollRange ==
  ASSUME NEW s, Widthy(s), NEW viewport \in Int
  PROVE  /\ ContentWidth(s) \in Int
         /\ MaxScroll(s, viewport) \in Nat
         /\ \A pos \in Int :
              /\ ClampScroll(s, viewport, pos) \in 0 .. MaxScroll(s, viewport)
              /\ pos \in 0 .. MaxScroll(s, viewport) =>
                   ClampScroll(s, viewport, pos) = pos
              /\ pos >= 0 /\ ClampScroll(s, viewport, pos) # pos =>
                   /\ pos > MaxScroll(s, viewport)
                   /\ ClampScroll(s, viewport, pos) = MaxScroll(s, viewport)
<1>1. ContentWidth(s) \in Int
  BY EdgeType DEF ContentWidth, Widthy
<1>2. MaxScroll(s, viewport) \in Nat
  BY <1>1 DEF MaxScroll
<1> QED
  BY <1>1, <1>2 DEF ClampScroll

LEMMA MaxScrollAgrees ==
  ASSUME NEW s, NEW t, NEW viewport, Len(s) \in Nat, Len(t) = Len(s),
         \A i \in 1 .. Len(s) : s[i].width = t[i].width
  PROVE  MaxScroll(t, viewport) = MaxScroll(s, viewport)
<1>1. Edge(s)[Len(s)] = Edge(t)[Len(t)]
  <2> DEFINE n == Len(s)
  <2>1. n \in Nat /\ Len(t) = n /\ n \in 0 .. n /\ n <= n
    OBVIOUS
  <2>2. \A i \in 1 .. n : s[i].width = t[i].width
    OBVIOUS
  <2> HIDE DEF n
  <2>3. \A i \in 0 .. n : Edge(s)[i] = Edge(t)[i]
    BY <2>1, <2>2, EdgeAgrees DEF n
  <2> QED
    BY <2>1, <2>3 DEF n
<1> QED
  BY <1>1 DEF MaxScroll, ContentWidth

LEMMA MaxScrollGrows ==
  ASSUME NEW s, NEW t, Widthy(s), Widthy(t), NEW viewport \in Int,
         Len(t) = Len(s) + 1, \A i \in 1 .. Len(s) : t[i] = s[i],
         t[Len(s) + 1].width > 0
  PROVE  MaxScroll(s, viewport) <= MaxScroll(t, viewport)
<1>1. Len(s) \in Nat /\ Len(t) \in Nat /\ Len(s) + 1 \in 1 .. Len(t)
  BY DEF Widthy
<1>2. Edge(s)[Len(s)] = Edge(t)[Len(s)]
  <2> DEFINE n == Len(s)
  <2>1. n \in Nat /\ Len(t) \in Nat /\ n \in 0 .. Len(s) /\ n <= Len(t)
    BY <1>1
  <2>2. \A i \in 1 .. n : s[i].width = t[i].width
    OBVIOUS
  <2>3. \A i \in 0 .. n : Edge(s)[i] = Edge(t)[i]
    <3> HIDE DEF n
    <3> QED
      BY <1>1, <2>1, <2>2, EdgeAgrees
  <2> QED
    BY <2>1, <2>3
<1>3. Edge(t)[Len(t)] = Edge(t)[Len(s)] + t[Len(s) + 1].width
  BY <1>1, EdgeValues
<1>4. Edge(s)[Len(s)] \in Int /\ t[Len(s) + 1].width \in Int
  BY <1>1, EdgeType DEF Widthy
<1> QED
  BY <1>1, <1>2, <1>3, <1>4 DEF MaxScroll, ContentWidth
-----------------------------------------------------------------------------
(***************************************************************************)
(* Mutators.                                                               *)
(***************************************************************************)
LEMMA FirstFound ==
  ASSUME NEW s, NEW id, Len(s) \in Nat, DOMAIN s = 1 .. Len(s), OnStrip(s, id)
  PROVE  First(s, id) \in 1 .. Len(s) /\ s[First(s, id)].id = id
<1>1. Positions(s, id) \subseteq Nat /\ Positions(s, id) # {}
  BY DEF Positions, OnStrip
<1>2. \E i \in Positions(s, id) : \A j \in Positions(s, id) : i <= j
  <2> HIDE DEF Positions
  <2> QED
    BY <1>1, Smallest
<1>3. First(s, id) \in Positions(s, id)
  BY <1>2 DEF First
<1> QED
  BY <1>3 DEF Positions

\* the newcomer of a resume goes to the end, because its order is the highest
LEMMA InsertedLast ==
  ASSUME NEW R, NEW s \in Seq(R), NEW surface \in R,
         \A i \in 1 .. Len(s) : s[i].order = i - 1,
         surface.order = Len(s)
  PROVE  Inserted(s, surface) = Append(s, surface)
<1>1. Len(s) \in Nat /\ DOMAIN s = 1 .. Len(s)
  BY LenProperties
<1>2. {i \in DOMAIN s : s[i].order <= surface.order} = 1 .. Len(s)
  BY <1>1
<1>3. Cardinality(1 .. Len(s)) = Len(s)
  <2>1. Cardinality(1 .. Len(s)) = IF 1 > Len(s) THEN 0 ELSE Len(s) - 1 + 1
    <3>1. 1 \in Int /\ Len(s) \in Int
      BY <1>1
    <3> QED
      BY <3>1, FS_Interval, Zenon
  <2> QED
    BY <1>1, <2>1
<1>4. Inserted(s, surface)
        = [i \in 1 .. Len(s) + 1 |-> IF i <= Len(s) THEN s[i]
                                     ELSE IF i = Len(s) + 1 THEN surface
                                     ELSE s[i - 1]]
  BY <1>2, <1>3 DEF Inserted
<1>5. /\ Append(s, surface) \in Seq(R)
      /\ Len(Append(s, surface)) = Len(s) + 1
      /\ \A i \in 1 .. Len(s) : Append(s, surface)[i] = s[i]
      /\ Append(s, surface)[Len(s) + 1] = surface
  BY AppendProperties
<1>6. \A i \in 1 .. Len(s) + 1 : /\ Inserted(s, surface)[i] \in R
                                /\ Inserted(s, surface)[i] = Append(s, surface)[i]
  <2> SUFFICES ASSUME NEW i \in 1 .. Len(s) + 1
               PROVE  /\ Inserted(s, surface)[i] \in R
                      /\ Inserted(s, surface)[i] = Append(s, surface)[i]
    OBVIOUS
  <2>1. CASE i \in 1 .. Len(s)
    BY <1>1, <1>4, <1>5, <2>1, ElementOfSeq
  <2>2. CASE i = Len(s) + 1
    BY <1>1, <1>4, <1>5, <2>2
  <2> QED
    BY <1>1, <2>1, <2>2
<1>7. Inserted(s, surface) \in Seq(R) /\ Len(Inserted(s, surface)) = Len(s) + 1
  <2>1. Inserted(s, surface) = [i \in 1 .. Len(s) + 1 |-> Inserted(s, surface)[i]]
    BY <1>4
  <2> QED
    BY <1>1, <1>6, <2>1
<1> QED
  BY <1>1, <1>5, <1>6, <1>7, SeqEqual
-----------------------------------------------------------------------------
(***************************************************************************)
(* Hits.  A point of the strip is on one surface at most.                  *)
(***************************************************************************)
Covers(s, i, x) == x >= Edge(s)[i - 1] /\ x < Edge(s)[i]

LEMMA OneCovers ==
  ASSUME NEW s, Widthy(s), \A k \in 1 .. Len(s) : s[k].width > 0,
         NEW x \in Int, NEW i \in 1 .. Len(s), NEW j \in 1 .. Len(s),
         Covers(s, i, x), Covers(s, j, x)
  PROVE  i = j
<1>1. ASSUME NEW a \in 1 .. Len(s), NEW b \in 1 .. Len(s), a < b,
             Covers(s, a, x), Covers(s, b, x)
      PROVE  FALSE
  <2>1. Len(s) \in Nat
    BY DEF Widthy
  <2>2. a \in 0 .. b - 1 /\ b - 1 \in 0 .. Len(s) /\ a \in 0 .. Len(s)
    BY <1>1, <2>1
  <2>3. Edge(s)[a] <= Edge(s)[b - 1]
    BY <2>2, EdgesAscend
  <2>4. Edge(s)[a] \in Int /\ Edge(s)[b - 1] \in Int
    BY <2>2, EdgeType
  <2> QED
    BY <1>1, <2>3, <2>4 DEF Covers
<1> QED
  BY <1>1 DEF Widthy

LEMMA HitsCover ==
  ASSUME NEW s, DOMAIN s = 1 .. Len(s), NEW scroll, NEW vx
  PROVE  Hits(s, scroll, vx)
           = {[pos |-> i, id |-> s[i].id, dx |-> vx + scroll - Edge(s)[i - 1]] :
                i \in {j \in 1 .. Len(s) : Covers(s, j, vx + scroll)}}
BY DEF Hits, Covers

LEMMA OneHit ==
  ASSUME NEW s, Widthy(s), \A k \in 1 .. Len(s) : s[k].width > 0,
         NEW scroll \in Int, NEW vx \in Int
  PROVE  Cardinality(Hits(s, scroll, vx)) <= 1
<1>1. ASSUME NEW p \in Hits(s, scroll, vx), NEW q \in Hits(s, scroll, vx)
      PROVE  p = q
  <2> DEFINE hit(i) == [pos |-> i, id |-> s[i].id,
                        dx |-> vx + scroll - Edge(s)[i - 1]]
  <2>1. PICK i \in 1 .. Len(s) : Covers(s, i, vx + scroll) /\ p = hit(i)
    BY HitsCover DEF Widthy
  <2>2. PICK j \in 1 .. Len(s) : Covers(s, j, vx + scroll) /\ q = hit(j)
    BY HitsCover DEF Widthy
  <2>3. i = j
    BY <2>1, <2>2, OneCovers
  <2> QED
    BY <2>1, <2>2, <2>3
<1>2. CASE Hits(s, scroll, vx) = {}
  BY <1>2, FS_EmptySet
<1>3. CASE Hits(s, scroll, vx) # {}
  <2>1. PICK p : p \in Hits(s, scroll, vx)
    BY <1>3
  <2>2. Hits(s, scroll, vx) = {p}
    BY <1>1, <2>1
  <2>3. Cardinality({p}) = 1
    BY FS_Singleton, Zenon
  <2> QED
    BY <2>2, <2>3
<1> QED
  BY <1>2, <1>3

\* a surface in view shows its left end, or the left edge of the viewport
LEMMA VisibleHit ==
  ASSUME NEW s, Widthy(s), \A k \in 1 .. Len(s) : s[k].width > 0,
         NEW viewport \in Nat \ {0}, NEW scroll \in Int
  PROVE  Visible(s, viewport, scroll)
           = {i \in 1 .. Len(s) :
                \E vx \in 0 .. viewport - 1 : Covers(s, i, vx + scroll)}
<1>1. Len(s) \in Nat /\ DOMAIN s = 1 .. Len(s)
  BY DEF Widthy
<1>2. ASSUME NEW i \in 1 .. Len(s)
      PROVE  /\ Edge(s)[i] \in Int /\ Edge(s)[i - 1] \in Int
             /\ Edge(s)[i - 1] < Edge(s)[i]
  <2>1. i \in 0 .. Len(s) /\ i - 1 \in 0 .. Len(s)
    BY <1>1
  <2>2. Edge(s)[i] = Edge(s)[i - 1] + s[i].width
    BY <1>1, EdgeValues
  <2> QED
    BY <2>1, <2>2, EdgeType DEF Widthy
<1>3. ASSUME NEW i \in 1 .. Len(s),
             Edge(s)[i] > scroll, Edge(s)[i - 1] < scroll + viewport
      PROVE  \E vx \in 0 .. viewport - 1 : Covers(s, i, vx + scroll)
  <2>1. CASE Edge(s)[i - 1] <= scroll
    <3>1. 0 \in 0 .. viewport - 1 /\ Covers(s, i, 0 + scroll)
      BY <1>2, <1>3, <2>1 DEF Covers
    <3> QED
      BY <3>1
  <2>2. CASE Edge(s)[i - 1] > scroll
    <3> DEFINE vx == Edge(s)[i - 1] - scroll
    <3>1. vx \in 0 .. viewport - 1 /\ vx + scroll = Edge(s)[i - 1]
      BY <1>2, <1>3, <2>2
    <3>2. Covers(s, i, vx + scroll)
      BY <1>2, <3>1 DEF Covers
    <3> QED
      BY <3>1, <3>2
  <2> QED
    BY <1>2, <2>1, <2>2
<1>4. ASSUME NEW i \in 1 .. Len(s), NEW vx \in 0 .. viewport - 1,
             Covers(s, i, vx + scroll)
      PROVE  Edge(s)[i] > scroll /\ Edge(s)[i - 1] < scroll + viewport
  BY <1>2, <1>4 DEF Covers
<1> QED
  BY <1>1, <1>3, <1>4 DEF Visible

-----------------------------------------------------------------------------
LEMMA ViewportFacts ==
  ASSUME NEW v \in Viewports
  PROVE  /\ v \in Nat \ {0}
         /\ DefaultSurfaceWidth(v) \in Nat /\ DefaultSurfaceWidth(v) > 0
BY ViewportsAssumption DEF DefaultSurfaceWidth

LEMMA SurfacesFacts ==
  ASSUME NEW s \in Seq(Surface)
  PROVE  /\ Widthy(s) /\ Len(s) \in Nat /\ DOMAIN s = 1 .. Len(s)
         /\ \A i \in 1 .. Len(s) : s[i] \in Surface
<1>1. Len(s) \in Nat /\ DOMAIN s = 1 .. Len(s)
  BY LenProperties
<1>2. \A i \in 1 .. Len(s) : s[i] \in Surface
  BY ElementOfSeq
<1>3. \A surface \in Surface : surface.width \in Int
  BY DEF Surface
<1> QED
  BY <1>1, <1>2, <1>3 DEF Widthy

-----------------------------------------------------------------------------
(***************************************************************************)
(* What the mutators return on a strip.                                    *)
(***************************************************************************)
LEMMA AppendedIs ==
  ASSUME NEW s \in Seq(Surface), NEW v \in Viewports, NEW id \in Ids,
         NEW w \in Widths
  PROVE  /\ Appended(s, v, id, w) \in Seq(Surface)
         /\ Len(Appended(s, v, id, w)) = Len(s) + 1
         /\ \A i \in 1 .. Len(s) : Appended(s, v, id, w)[i] = s[i]
         /\ Appended(s, v, id, w)[Len(s) + 1].order = Len(s)
         /\ Appended(s, v, id, w)[Len(s) + 1].width > 0
<1> DEFINE width == IF w <= 0 THEN DefaultSurfaceWidth(v) ELSE w
           newcomer == [id |-> id, order |-> Len(s), width |-> width,
                        frames |-> 0]
<1>1. width \in Int /\ width > 0
  BY WidthsAssumption, ViewportFacts
<1>2. newcomer \in Surface
  BY <1>1, SurfacesFacts DEF Surface
<1>3. Appended(s, v, id, w) = Append(s, newcomer)
  BY DEF Appended
<1>4. newcomer.order = Len(s) /\ newcomer.width > 0
  BY <1>1
<1> HIDE DEF newcomer
<1> QED
  BY <1>2, <1>3, <1>4, AppendProperties

LEMMA RemovedIs ==
  ASSUME NEW s \in Seq(Surface), NEW id, OnStrip(s, id)
  PROVE  /\ First(s, id) \in 1 .. Len(s) /\ s[First(s, id)].id = id
         /\ Removed(s, id) \in Seq(Surface)
         /\ Len(Removed(s, id)) = Len(s) - 1
         /\ \A i \in 1 .. Len(s) - 1 :
              LET old == IF i < First(s, id) THEN s[i] ELSE s[i + 1]
              IN  /\ Removed(s, id)[i].id = old.id
                  /\ Removed(s, id)[i].width = old.width
                  /\ Removed(s, id)[i].order = i - 1
<1>1. First(s, id) \in 1 .. Len(s) /\ s[First(s, id)].id = id
  BY FirstFound, SurfacesFacts
<1>2. Len(s) \in Nat /\ Len(s) > 0 /\ Len(s) - 1 \in Nat
  BY <1>1, SurfacesFacts
<1> DEFINE p == First(s, id)
           old(i) == IF i < p THEN s[i] ELSE s[i + 1]
<1>3. Removed(s, id) = [i \in 1 .. Len(s) - 1 |-> [old(i) EXCEPT !.order = i - 1]]
  BY DEF Removed
<1>4. ASSUME NEW i \in 1 .. Len(s) - 1 PROVE old(i) \in Surface
  <2>1. i \in 1 .. Len(s) /\ i + 1 \in 1 .. Len(s)
    BY <1>2
  <2> QED
    BY <2>1, SurfacesFacts
<1> HIDE DEF p, old
<1>5. ASSUME NEW i \in 1 .. Len(s) - 1
      PROVE  /\ Removed(s, id)[i] \in Surface
             /\ Removed(s, id)[i].id = old(i).id
             /\ Removed(s, id)[i].width = old(i).width
             /\ Removed(s, id)[i].order = i - 1
  <2>1. Removed(s, id)[i] = [old(i) EXCEPT !.order = i - 1]
    BY <1>3
  <2>2. i - 1 \in Nat
    BY <1>2
  <2> QED
    BY <1>4, <2>1, <2>2 DEF Surface
<1>6. Removed(s, id) \in Seq(Surface) /\ Len(Removed(s, id)) = Len(s) - 1
  <2>1. Removed(s, id) = [i \in 1 .. Len(s) - 1 |-> Removed(s, id)[i]]
    BY <1>3
  <2> QED
    BY <1>2, <1>5, <2>1
<1> QED
  BY <1>1, <1>5, <1>6 DEF p, old

LEMMA NotedIs ==
  ASSUME NEW s \in Seq(Surface), NEW id
  PROVE  /\ FrameNoted(s, id) \in Seq(Surface)
         /\ Len(FrameNoted(s, id)) = Len(s)
         /\ \A i \in 1 .. Len(s) :
              /\ FrameNoted(s, id)[i].id = s[i].id
              /\ FrameNoted(s, id)[i].width = s[i].width
              /\ FrameNoted(s, id)[i].order = s[i].order
<1>1. CASE ~OnStrip(s, id)
  BY <1>1 DEF FrameNoted
<1>2. CASE OnStrip(s, id)
  <2> DEFINE p == First(s, id)
             noted == [s[p] EXCEPT !.frames = s[p].frames + 1]
  <2>1. p \in 1 .. Len(s)
    BY <1>2, RemovedIs
  <2>2. s[p] \in Surface
    BY <2>1, SurfacesFacts
  <2>3. FrameNoted(s, id) = [s EXCEPT ![p] = noted]
    BY <1>2 DEF FrameNoted
  <2> HIDE DEF p
  <2>4. /\ noted \in Surface /\ noted.id = s[p].id
        /\ noted.width = s[p].width /\ noted.order = s[p].order
    <3>1. ASSUME NEW surface \in Surface, NEW n \in Nat
          PROVE  LET counted == [surface EXCEPT !.frames = n]
                 IN  /\ counted \in Surface /\ counted.id = surface.id
                     /\ counted.width = surface.width
                     /\ counted.order = surface.order
      BY DEF Surface
    <3>2. s[p].frames + 1 \in Nat
      BY <2>2 DEF Surface
    <3> QED
      BY <2>2, <3>1, <3>2
  <2> HIDE DEF noted
  <2> QED
    BY <2>1, <2>3, <2>4, ExceptSeq
<1> QED
  BY <1>1, <1>2
-----------------------------------------------------------------------------
(***************************************************************************)
(* ShapeInv: the types, the numbering of the strip and of an image, and    *)
(* that no surface is without width.  A restore relies on the numbering of *)
(* the image to put every surface at the end.                              *)
(***************************************************************************)
Entry == [id : Ids, order : Nat]

Numbered(s) == \A i \in 1 .. Len(s) : s[i].order = i - 1
AllWide(s) == \A i \in 1 .. Len(s) : s[i].width > 0

ShapeInv ==
  /\ surfaces \in Seq(Surface) /\ Numbered(surfaces) /\ AllWide(surfaces)
  /\ focus \in Ids \cup {NoSurface}
  /\ viewport_width \in Viewports
  /\ mode \in {"live", "restoring"}
  /\ image.entries \in Seq(Entry) /\ Numbered(image.entries)
  /\ image.focus \in Ids \cup {NoSurface}
  /\ mode = "restoring" => Len(surfaces) <= Len(image.entries)

LEMMA OneMore ==
  ASSUME NEW s, NEW t, Len(s) \in Nat, Len(t) = Len(s) + 1,
         \A i \in 1 .. Len(s) : t[i] = s[i],
         t[Len(s) + 1].order = Len(s), t[Len(s) + 1].width > 0,
         Numbered(s), AllWide(s)
  PROVE  Numbered(t) /\ AllWide(t)
<1> SUFFICES ASSUME NEW i \in 1 .. Len(t)
             PROVE  t[i].order = i - 1 /\ t[i].width > 0
  BY DEF Numbered, AllWide
<1>1. CASE i \in 1 .. Len(s)
  BY <1>1 DEF Numbered, AllWide
<1>2. CASE i = Len(s) + 1
  BY <1>2
<1> QED
  BY <1>1, <1>2

\* the surface that one turn of a restore adds, at the end of the strip
Restored ==
  [id     |-> image.entries[Len(surfaces) + 1].id,
   order  |-> image.entries[Len(surfaces) + 1].order,
   width  |-> DefaultSurfaceWidth(viewport_width),
   frames |-> 0]

LEMMA RestoreAppends ==
  ASSUME ShapeInv, RestoreNext
  PROVE  /\ Len(surfaces) + 1 \in 1 .. Len(image.entries)
         /\ Restored \in Surface
         /\ Restored.order = Len(surfaces)
         /\ Restored.width = DefaultSurfaceWidth(viewport_width)
         /\ surfaces' = Append(surfaces, Restored)
         /\ surfaces' \in Seq(Surface)
         /\ Len(surfaces') = Len(surfaces) + 1
         /\ \A i \in 1 .. Len(surfaces) : surfaces'[i] = surfaces[i]
         /\ surfaces'[Len(surfaces) + 1] = Restored
<1>1. /\ surfaces \in Seq(Surface) /\ Len(surfaces) \in Nat
      /\ image.entries \in Seq(Entry) /\ Len(image.entries) \in Nat
  BY LenProperties DEF ShapeInv
<1>2. Len(surfaces) + 1 \in 1 .. Len(image.entries)
  BY <1>1 DEF RestoreNext
<1>3. /\ image.entries[Len(surfaces) + 1] \in Entry
      /\ image.entries[Len(surfaces) + 1].order = Len(surfaces)
  <2>1. image.entries[Len(surfaces) + 1].order = (Len(surfaces) + 1) - 1
    BY <1>2 DEF ShapeInv, Numbered
  <2> QED
    BY <1>1, <1>2, <2>1, ElementOfSeq
<1>4. DefaultSurfaceWidth(viewport_width) \in Int
  BY ViewportFacts DEF ShapeInv
<1>5. /\ Restored \in Surface /\ Restored.order = Len(surfaces)
      /\ Restored.width = DefaultSurfaceWidth(viewport_width)
  BY <1>1, <1>3, <1>4 DEF Restored, Surface, Entry
<1>6. surfaces' = Append(surfaces, Restored)
  <2>1. surfaces' = Inserted(surfaces, Restored)
    BY DEF RestoreNext, Restored
  <2> QED
    BY <1>1, <1>5, <2>1, InsertedLast DEF ShapeInv, Numbered
<1> QED
  BY <1>1, <1>2, <1>5, <1>6, AppendProperties

LEMMA ShapeStep ==
  ASSUME ShapeInv, [Next]_vars
  PROVE  ShapeInv'
<1>0. /\ surfaces \in Seq(Surface) /\ Len(surfaces) \in Nat
      /\ viewport_width \in Viewports
  BY SurfacesFacts DEF ShapeInv
<1>1. ASSUME NEW id \in Ids, NEW w \in Widths, AppendSurface(id, w)
      PROVE  ShapeInv'
  <2>1. /\ surfaces' = Appended(surfaces, viewport_width, id, w)
        /\ UNCHANGED <<focus, viewport_width, mode, image>> /\ mode = "live"
    BY <1>1 DEF AppendSurface
  <2>2. /\ surfaces' \in Seq(Surface) /\ Len(surfaces') = Len(surfaces) + 1
        /\ \A i \in 1 .. Len(surfaces) : surfaces'[i] = surfaces[i]
        /\ surfaces'[Len(surfaces) + 1].order = Len(surfaces)
        /\ surfaces'[Len(surfaces) + 1].width > 0
    BY <1>0, <2>1, AppendedIs
  <2>3. Numbered(surfaces') /\ AllWide(surfaces')
    BY <1>0, <2>2, OneMore DEF ShapeInv
  <2> QED
    BY <2>1, <2>2, <2>3 DEF ShapeInv
<1>2. ASSUME NEW id \in Ids, Remove(id) PROVE ShapeInv'
  <2>1. /\ surfaces' = Removed(surfaces, id) /\ OnStrip(surfaces, id)
        /\ UNCHANGED <<viewport_width, mode, image>> /\ mode = "live"
        /\ focus' \in {focus, NoSurface}
    BY <1>2 DEF Remove
  <2>2. surfaces' \in Seq(Surface) /\ Len(surfaces') = Len(surfaces) - 1
    BY <1>0, <2>1, RemovedIs
  <2>3. \A i \in 1 .. Len(surfaces') : surfaces'[i].order = i - 1
    BY <1>0, <2>1, <2>2, RemovedIs
  <2>4. ASSUME NEW i \in 1 .. Len(surfaces') PROVE surfaces'[i].width > 0
    <3>1. \/ surfaces'[i].width = surfaces[i].width
          \/ surfaces'[i].width = surfaces[i + 1].width
      BY <1>0, <2>1, <2>2, RemovedIs
    <3>2. i \in 1 .. Len(surfaces) /\ i + 1 \in 1 .. Len(surfaces)
      BY <1>0, <2>2
    <3> QED
      BY <3>1, <3>2 DEF ShapeInv, AllWide
  <2> QED
    BY <2>1, <2>2, <2>3, <2>4 DEF ShapeInv, Numbered, AllWide
<1>3. ASSUME NEW id \in Ids, NoteFrame(id) PROVE ShapeInv'
  <2>1. /\ surfaces' = FrameNoted(surfaces, id)
        /\ UNCHANGED <<focus, viewport_width, mode, image>>
    BY <1>3 DEF NoteFrame
  <2>2. /\ surfaces' \in Seq(Surface) /\ Len(surfaces') = Len(surfaces)
        /\ \A i \in 1 .. Len(surfaces) :
             /\ surfaces'[i].order = surfaces[i].order
             /\ surfaces'[i].width = surfaces[i].width
    BY <1>0, <2>1, NotedIs
  <2> QED
    BY <2>1, <2>2 DEF ShapeInv, Numbered, AllWide
<1>4. ASSUME NEW id \in Ids, SetFocus(id) PROVE ShapeInv'
  BY <1>4 DEF SetFocus, ShapeInv
<1>5. ASSUME NEW vx \in Points, Click(vx) PROVE ShapeInv'
  <2>1. PICK hit \in Hits(surfaces, scroll_pos, vx) : focus' = hit.id
    BY <1>5 DEF Click
  <2>2. PICK i \in 1 .. Len(surfaces) : focus' = surfaces[i].id
    BY <1>0, <2>1, HitsCover, SurfacesFacts
  <2>3. focus' \in Ids
    BY <1>0, <2>2, SurfacesFacts DEF Surface
  <2> QED
    BY <1>5, <2>3 DEF Click, ShapeInv
<1>6. ASSUME NEW dx \in Deltas, ScrollBy(dx) PROVE ShapeInv'
  BY <1>6 DEF ScrollBy, ShapeInv
<1>7. ASSUME NEW v \in Viewports, Checkpoint(v) PROVE ShapeInv'
  <2>1. /\ surfaces' = <<>> /\ focus' = NoSurface /\ viewport_width' = v
        /\ mode' = "restoring" /\ image' = ImageFromStrip
    BY <1>7 DEF Checkpoint
  <2>2. /\ ImageFromStrip.entries
             = [i \in 1 .. Len(surfaces) |->
                  [id |-> surfaces[i].id, order |-> surfaces[i].order]]
        /\ ImageFromStrip.focus = focus
    BY <1>0, SurfacesFacts DEF ImageFromStrip
  <2>3. \A i \in 1 .. Len(surfaces) :
          [id |-> surfaces[i].id, order |-> surfaces[i].order] \in Entry
    BY <1>0, SurfacesFacts DEF Surface, Entry
  <2>4. /\ image'.entries \in Seq(Entry) /\ Len(image'.entries) = Len(surfaces)
        /\ \A i \in 1 .. Len(surfaces) :
             image'.entries[i].order = surfaces[i].order
    BY <1>0, <2>1, <2>2, <2>3
  <2>5. Numbered(image'.entries)
    BY <2>4 DEF ShapeInv, Numbered
  <2>6. /\ surfaces' \in Seq(Surface) /\ Len(surfaces') = 0
        /\ Numbered(surfaces') /\ AllWide(surfaces')
    BY <2>1, EmptySeq DEF Numbered, AllWide
  <2> QED
    BY <1>0, <2>1, <2>2, <2>4, <2>5, <2>6 DEF ShapeInv
<1>8. CASE RestoreNext
  <2>1. Numbered(surfaces') /\ AllWide(surfaces')
    BY <1>0, <1>8, RestoreAppends, ViewportFacts, OneMore DEF ShapeInv
  <2> QED
    BY <1>0, <1>8, <2>1, RestoreAppends DEF RestoreNext, ShapeInv
<1>9. CASE RestoreLayout
  <2>1. image'.entries = <<>> /\ image'.focus = NoSurface
    BY <1>9 DEF RestoreLayout, EmptyImage
  <2>2. image'.entries \in Seq(Entry) /\ Numbered(image'.entries)
    BY <2>1, EmptySeq DEF Numbered
  <2> QED
    BY <1>9, <2>1, <2>2 DEF RestoreLayout, ShapeInv
<1>10. CASE UNCHANGED vars
  BY <1>10 DEF vars, ShapeInv
<1> QED
  BY <1>1, <1>2, <1>3, <1>4, <1>5, <1>6, <1>7, <1>8, <1>9, <1>10 DEF Next

LEMMA StripShape == Spec => []ShapeInv
<1>1. Init => ShapeInv
  <2> SUFFICES ASSUME Init PROVE ShapeInv
    OBVIOUS
  <2>1. /\ surfaces = <<>> /\ image.entries = <<>> /\ image.focus = NoSurface
    BY DEF Init, EmptyImage
  <2>2. /\ \A S : <<>> \in Seq(S)
        /\ Numbered(<<>>) /\ AllWide(<<>>)
    BY EmptySeq DEF Numbered, AllWide
  <2> QED
    BY <2>1, <2>2 DEF Init, ShapeInv
<1> QED
  BY <1>1, ShapeStep, PTL DEF Spec
-----------------------------------------------------------------------------
(***************************************************************************)
(* LayoutInv: scroll and focus fit the strip, and while a restore runs,    *)
(* the strip is the beginning of the image, and scroll and focus of the    *)
(* image fit the strip it was taken from.                                  *)
(***************************************************************************)
\* MaxScroll of n surfaces of the default width
Room(n, viewport) ==
  LET content == n * DefaultSurfaceWidth(viewport)
  IN  IF content > viewport THEN content - viewport ELSE 0

RestoreInv ==
  /\ scroll_pos = 0 /\ focus = NoSurface /\ image.scroll \in Int
  /\ \A i \in 1 .. Len(surfaces) :
       /\ surfaces[i].id = image.entries[i].id
       /\ surfaces[i].width = DefaultSurfaceWidth(viewport_width)
  /\ image.focus # NoSurface => OnStrip(image.entries, image.focus)
  /\ image.uniform => /\ image.viewport \in Viewports
                      /\ image.scroll \in 0 .. Room(Len(image.entries),
                                                    image.viewport)

LayoutInv ==
  /\ ScrollInRange
  /\ FocusOnStrip
  /\ mode = "restoring" => RestoreInv

LEMMA UniformRoom ==
  ASSUME NEW s, Len(s) \in Nat, NEW v \in Viewports,
         \A i \in 1 .. Len(s) : s[i].width = DefaultSurfaceWidth(v)
  PROVE  MaxScroll(s, v) = Room(Len(s), v)
<1>1. DefaultSurfaceWidth(v) \in Int
  BY ViewportFacts
<1>2. Edge(s)[Len(s)] = Len(s) * DefaultSurfaceWidth(v)
  <2> HIDE DEF DefaultSurfaceWidth
  <2> QED
    BY <1>1, EdgeUniform
<1> QED
  BY <1>2 DEF MaxScroll, ContentWidth, Room

LEMMA ScrollFacts ==
  ASSUME ShapeInv, ScrollInRange
  PROVE  /\ scroll_pos \in Nat /\ viewport_width \in Nat \ {0}
         /\ MaxScroll(surfaces, viewport_width) \in Nat
         /\ scroll_pos <= MaxScroll(surfaces, viewport_width)
<1>1. Widthy(surfaces) /\ viewport_width \in Nat \ {0}
  BY SurfacesFacts, ViewportFacts DEF ShapeInv
<1>2. MaxScroll(surfaces, viewport_width) \in Nat
  BY <1>1, ScrollRange
<1> QED
  BY <1>1, <1>2 DEF ScrollInRange

LEMMA LayoutAppend ==
  ASSUME ShapeInv, ShapeInv', LayoutInv, NEW id \in Ids, NEW w \in Widths,
         AppendSurface(id, w)
  PROVE  LayoutInv'
<1>1. /\ surfaces' = Appended(surfaces, viewport_width, id, w)
      /\ UNCHANGED <<scroll_pos, focus, viewport_width, mode>> /\ mode = "live"
  BY DEF AppendSurface
<1>2. /\ Len(surfaces) \in Nat /\ Len(surfaces') = Len(surfaces) + 1
      /\ \A i \in 1 .. Len(surfaces) : surfaces'[i] = surfaces[i]
      /\ surfaces'[Len(surfaces) + 1].width > 0
      /\ Widthy(surfaces) /\ Widthy(surfaces')
  BY <1>1, AppendedIs, SurfacesFacts DEF ShapeInv
<1>3. viewport_width \in Int
  BY ViewportFacts DEF ShapeInv
<1>4. ScrollInRange'
  <2>1. MaxScroll(surfaces, viewport_width) <= MaxScroll(surfaces', viewport_width)
    BY <1>2, <1>3, MaxScrollGrows
  <2>2. MaxScroll(surfaces', viewport_width) \in Nat
    BY <1>2, <1>3, ScrollRange
  <2> QED
    BY <1>1, <2>1, <2>2, ScrollFacts DEF LayoutInv, ScrollInRange
<1>5. FocusOnStrip'
  BY <1>1, <1>2 DEF LayoutInv, FocusOnStrip, OnStrip, Widthy
<1> QED
  BY <1>1, <1>4, <1>5 DEF LayoutInv

LEMMA LayoutRemove ==
  ASSUME ShapeInv, ShapeInv', LayoutInv, NEW id \in Ids, Remove(id)
  PROVE  LayoutInv'
<1>1. /\ surfaces' = Removed(surfaces, id) /\ OnStrip(surfaces, id)
      /\ focus' = IF focus = id THEN NoSurface ELSE focus
      /\ scroll_pos' = ClampScroll(surfaces', viewport_width, scroll_pos)
      /\ UNCHANGED <<viewport_width, mode>> /\ mode = "live"
  BY DEF Remove
<1>2. /\ Len(surfaces) \in Nat /\ Len(surfaces') = Len(surfaces) - 1
      /\ Widthy(surfaces) /\ Widthy(surfaces')
      /\ surfaces \in Seq(Surface)
  BY <1>1, RemovedIs, SurfacesFacts DEF ShapeInv
<1>3. ScrollInRange'
  <2>1. viewport_width \in Int /\ scroll_pos \in Int
    BY ScrollFacts DEF LayoutInv
  <2> QED
    BY <1>1, <1>2, <2>1, ScrollRange DEF ScrollInRange
<1>4. FocusOnStrip'
  <2> SUFFICES ASSUME focus' # NoSurface PROVE OnStrip(surfaces', focus')
    BY DEF FocusOnStrip
  <2>1. focus' = focus /\ focus # id
    BY <1>1
  <2>2. PICK j \in 1 .. Len(surfaces) : surfaces[j].id = focus
    BY <1>2, <2>1 DEF LayoutInv, FocusOnStrip, OnStrip, Widthy
  <2> DEFINE p == First(surfaces, id)
  <2>3. p \in 1 .. Len(surfaces) /\ surfaces[p].id = id
    BY <1>1, <1>2, RemovedIs
  <2>4. j # p
    BY <2>1, <2>2, <2>3
  <2>5. \A i \in 1 .. Len(surfaces) - 1 :
          surfaces'[i].id = (IF i < p THEN surfaces[i] ELSE surfaces[i + 1]).id
    BY <1>1, <1>2, RemovedIs
  <2> HIDE DEF p
  <2>6. CASE j < p
    <3>1. j \in 1 .. Len(surfaces) - 1 /\ surfaces'[j].id = surfaces[j].id
      BY <1>2, <2>3, <2>5, <2>6
    <3> QED
      BY <1>2, <2>1, <2>2, <3>1 DEF OnStrip, Widthy
  <2>7. CASE j > p
    <3>1. /\ j - 1 \in 1 .. Len(surfaces) - 1 /\ ~(j - 1 < p)
          /\ (j - 1) + 1 = j
      BY <1>2, <2>3, <2>7
    <3>2. surfaces'[j - 1].id = surfaces[j].id
      BY <2>5, <3>1
    <3> QED
      BY <1>2, <2>1, <2>2, <3>1, <3>2 DEF OnStrip, Widthy
  <2> QED
    BY <2>3, <2>4, <2>6, <2>7
<1> QED
  BY <1>1, <1>3, <1>4 DEF LayoutInv

LEMMA LayoutFrame ==
  ASSUME ShapeInv, ShapeInv', LayoutInv, NEW id \in Ids, NoteFrame(id)
  PROVE  LayoutInv'
<1>1. /\ surfaces' = FrameNoted(surfaces, id)
      /\ UNCHANGED <<scroll_pos, focus, viewport_width, mode, image>>
  BY DEF NoteFrame
<1>2. /\ Len(surfaces) \in Nat /\ Len(surfaces') = Len(surfaces)
      /\ \A i \in 1 .. Len(surfaces) :
           /\ surfaces'[i].id = surfaces[i].id
           /\ surfaces'[i].width = surfaces[i].width
      /\ Widthy(surfaces) /\ Widthy(surfaces')
  BY <1>1, NotedIs, SurfacesFacts DEF ShapeInv
<1>3. MaxScroll(surfaces', viewport_width) = MaxScroll(surfaces, viewport_width)
  BY <1>2, MaxScrollAgrees
<1>4. FocusOnStrip'
  BY <1>1, <1>2 DEF LayoutInv, FocusOnStrip, OnStrip, Widthy
<1>5. mode = "restoring" => RestoreInv'
  BY <1>1, <1>2 DEF LayoutInv, RestoreInv
<1> QED
  BY <1>1, <1>3, <1>4, <1>5 DEF LayoutInv, ScrollInRange

LEMMA LayoutCheckpoint ==
  ASSUME ShapeInv, ShapeInv', LayoutInv, NEW v \in Viewports, Checkpoint(v)
  PROVE  LayoutInv'
<1>1. /\ surfaces' = <<>> /\ focus' = NoSurface /\ viewport_width' = v
      /\ scroll_pos' = 0 /\ image' = ImageFromStrip /\ mode = "live"
  BY DEF Checkpoint
<1>2. ScrollInRange'
  <2>1. MaxScroll(surfaces', v) \in Nat
    BY ScrollRange, SurfacesFacts, ViewportFacts DEF ShapeInv
  <2> QED
    BY <1>1, <2>1 DEF ScrollInRange
<1>3. /\ DOMAIN surfaces = 1 .. Len(surfaces) /\ Len(surfaces) \in Nat
      /\ image'.entries = [i \in 1 .. Len(surfaces) |->
                             [id |-> surfaces[i].id, order |-> surfaces[i].order]]
      /\ DOMAIN image'.entries = 1 .. Len(surfaces)
      /\ Len(image'.entries) = Len(surfaces)
  BY <1>1, SurfacesFacts DEF ShapeInv, ImageFromStrip
<1>4. image'.focus # NoSurface => OnStrip(image'.entries, image'.focus)
  <2>1. image'.focus = focus
    BY <1>1 DEF ImageFromStrip
  <2> QED
    BY <1>3, <2>1 DEF LayoutInv, FocusOnStrip, OnStrip
<1>5. ASSUME image'.uniform
      PROVE  /\ image'.viewport \in Viewports
             /\ image'.scroll \in 0 .. Room(Len(image'.entries), image'.viewport)
  <2>1. image'.viewport = viewport_width /\ image'.scroll = scroll_pos
    BY <1>1 DEF ImageFromStrip
  <2>2. \A i \in 1 .. Len(surfaces) :
          surfaces[i].width = DefaultSurfaceWidth(viewport_width)
    BY <1>1, <1>3, <1>5 DEF ImageFromStrip
  <2>3. MaxScroll(surfaces, viewport_width)
          = Room(Len(surfaces), viewport_width)
    BY <1>3, <2>2, UniformRoom DEF ShapeInv
  <2> QED
    BY <1>3, <2>1, <2>3 DEF LayoutInv, ScrollInRange, ShapeInv
<1>6. Len(surfaces') = 0
  BY <1>1
<1>7. image'.scroll \in Int
  BY <1>1, ScrollFacts DEF LayoutInv, ImageFromStrip
<1> QED
  BY <1>1, <1>2, <1>4, <1>5, <1>6, <1>7 DEF LayoutInv, RestoreInv, FocusOnStrip

LEMMA LayoutRestoreNext ==
  ASSUME ShapeInv, ShapeInv', LayoutInv, RestoreNext
  PROVE  LayoutInv'
<1>1. /\ mode = "restoring"
      /\ UNCHANGED <<scroll_pos, focus, viewport_width, mode, image>>
  BY DEF RestoreNext
<1>2. RestoreInv
  BY <1>1 DEF LayoutInv
<1>3. ScrollInRange'
  <2>1. MaxScroll(surfaces', viewport_width') \in Nat
    BY ScrollRange, SurfacesFacts, ViewportFacts DEF ShapeInv
  <2> QED
    BY <1>1, <1>2, <2>1 DEF ScrollInRange, RestoreInv
<1>4. ASSUME NEW i \in 1 .. Len(surfaces')
      PROVE  /\ surfaces'[i].id = image.entries[i].id
             /\ surfaces'[i].width = DefaultSurfaceWidth(viewport_width)
  <2>0. Len(surfaces) \in Nat
    BY SurfacesFacts DEF ShapeInv
  <2>1. CASE i \in 1 .. Len(surfaces)
    BY <1>2, <2>1, RestoreAppends DEF RestoreInv
  <2>2. CASE i = Len(surfaces) + 1
    BY <2>2, RestoreAppends DEF Restored
  <2> QED
    BY <2>0, <2>1, <2>2, RestoreAppends
<1> QED
  BY <1>1, <1>2, <1>3, <1>4 DEF LayoutInv, RestoreInv, FocusOnStrip

LEMMA LayoutStep ==
  ASSUME ShapeInv, ShapeInv', LayoutInv, [Next]_vars
  PROVE  LayoutInv'
<1>1. ASSUME NEW id \in Ids, NEW w \in Widths, AppendSurface(id, w)
      PROVE  LayoutInv'
  BY <1>1, LayoutAppend
<1>2. ASSUME NEW id \in Ids, Remove(id) PROVE LayoutInv'
  BY <1>2, LayoutRemove
<1>3. ASSUME NEW id \in Ids, NoteFrame(id) PROVE LayoutInv'
  BY <1>3, LayoutFrame
<1>4. ASSUME NEW id \in Ids, SetFocus(id) PROVE LayoutInv'
  BY <1>4 DEF SetFocus, LayoutInv, ScrollInRange, FocusOnStrip
<1>5. ASSUME NEW vx \in Points, Click(vx) PROVE LayoutInv'
  <2>1. PICK hit \in Hits(surfaces, scroll_pos, vx) : focus' = hit.id
    BY <1>5 DEF Click
  <2>2. PICK i \in 1 .. Len(surfaces) : focus' = surfaces[i].id
    BY <2>1, HitsCover, SurfacesFacts DEF ShapeInv
  <2>3. OnStrip(surfaces, focus')
    BY <2>2, SurfacesFacts DEF ShapeInv, OnStrip
  <2> QED
    BY <1>5, <2>3 DEF Click, LayoutInv, ScrollInRange, FocusOnStrip
<1>6. ASSUME NEW dx \in Deltas, ScrollBy(dx) PROVE LayoutInv'
  <2>1. scroll_pos + dx \in Int /\ viewport_width \in Int
    BY ScrollFacts, DeltasAssumption DEF LayoutInv
  <2>2. scroll_pos' \in 0 .. MaxScroll(surfaces, viewport_width)
    BY <1>6, <2>1, ScrollRange, SurfacesFacts DEF ScrollBy, ShapeInv
  <2> QED
    BY <1>6, <2>2 DEF ScrollBy, LayoutInv, ScrollInRange, FocusOnStrip
<1>7. ASSUME NEW v \in Viewports, Checkpoint(v) PROVE LayoutInv'
  BY <1>7, LayoutCheckpoint
<1>8. CASE RestoreNext
  BY <1>8, LayoutRestoreNext
<1>9. CASE RestoreLayout
  <2>1. /\ UNCHANGED <<surfaces, viewport_width>> /\ mode' = "live"
        /\ scroll_pos' = ClampScroll(surfaces, viewport_width, image.scroll)
        /\ focus' = IF OnStrip(surfaces, image.focus) THEN image.focus
                                                      ELSE NoSurface
    BY <1>9 DEF RestoreLayout
  <2>2. image.scroll \in Int
    BY <1>9 DEF RestoreLayout, LayoutInv, RestoreInv
  <2>3. scroll_pos' \in 0 .. MaxScroll(surfaces, viewport_width)
    <3>1. Widthy(surfaces) /\ viewport_width \in Int
      BY ScrollFacts, SurfacesFacts DEF LayoutInv, ShapeInv
    <3> QED
      BY <2>1, <2>2, <3>1, ScrollRange
  <2> QED
    BY <2>1, <2>3 DEF LayoutInv, ScrollInRange, FocusOnStrip
<1>10. CASE UNCHANGED vars
  BY <1>10 DEF vars, LayoutInv, ScrollInRange, FocusOnStrip, RestoreInv
<1> QED
  BY <1>1, <1>2, <1>3, <1>4, <1>5, <1>6, <1>7, <1>8, <1>9, <1>10 DEF Next

LEMMA StripLayout == Spec => [](ShapeInv /\ LayoutInv)
<1>1. Init /\ ShapeInv => LayoutInv
  <2> SUFFICES ASSUME Init, ShapeInv PROVE LayoutInv
    OBVIOUS
  <2>1. MaxScroll(surfaces, viewport_width) \in Nat
    BY ScrollRange, SurfacesFacts, ViewportFacts DEF ShapeInv
  <2> QED
    BY <2>1 DEF Init, LayoutInv, ScrollInRange, FocusOnStrip
<1>2. ShapeInv /\ ShapeInv' /\ LayoutInv /\ [Next]_vars => LayoutInv'
  BY LayoutStep
<1> QED
  BY <1>1, <1>2, StripShape, PTL DEF Spec

(***************************************************************************)
(* The focus names a surface on the strip, orders are positions, and the   *)
(* viewport is scrolled past neither end, on strips of every length.       *)
(***************************************************************************)
THEOREM StripLayoutFits == Spec => []LayoutFitsTheStrip
<1>1. ShapeInv => OrderIsPosition
  BY SurfacesFacts DEF ShapeInv, Numbered, OrderIsPosition
<1>2. LayoutInv => FocusOnStrip /\ ScrollInRange
  BY DEF LayoutInv
<1> QED
  BY <1>1, <1>2, StripShape, StripLayout, PTL DEF LayoutFitsTheStrip

(***************************************************************************)
(* Every variable keeps its type.                                          *)
(***************************************************************************)
THEOREM StripTypeOK == Spec => []TypeOK
<1>1. ShapeInv /\ LayoutInv => TypeOK
  BY ScrollFacts DEF LayoutInv, ShapeInv, TypeOK, Entry
<1> QED
  BY <1>1, StripLayout, PTL
-----------------------------------------------------------------------------
(***************************************************************************)
(* What is drawn is what can be clicked.  The surfaces have a width, so    *)
(* their right edges ascend: no point is under two of them, and one that   *)
(* reaches into the viewport covers an integer point of it.                *)
(***************************************************************************)
THEOREM StripVisibleIsClickable == Spec => []VisibleIsClickable
<1>1. ASSUME ShapeInv, LayoutInv PROVE VisibleIsClickable
  <2>1. /\ Widthy(surfaces) /\ \A k \in 1 .. Len(surfaces) : surfaces[k].width > 0
        /\ DOMAIN surfaces = 1 .. Len(surfaces)
        /\ viewport_width \in Nat \ {0} /\ scroll_pos \in Int
    BY <1>1, SurfacesFacts, ScrollFacts DEF ShapeInv, LayoutInv, AllWide
  <2>2. \A vx \in 0 .. viewport_width - 1 :
          Cardinality(Hits(surfaces, scroll_pos, vx)) <= 1
    BY <2>1, OneHit
  <2> DEFINE covered(vx) == {i \in 1 .. Len(surfaces) :
                               Covers(surfaces, i, vx + scroll_pos)}
  <2>3. ASSUME NEW vx
        PROVE  {hit.pos : hit \in Hits(surfaces, scroll_pos, vx)} = covered(vx)
    <3> DEFINE hit(i) == [pos |-> i, id |-> surfaces[i].id,
                          dx |-> vx + scroll_pos - Edge(surfaces)[i - 1]]
    <3>1. Hits(surfaces, scroll_pos, vx) = {hit(i) : i \in covered(vx)}
      BY <2>1, HitsCover
    <3>2. \A i : hit(i).pos = i
      OBVIOUS
    <3> HIDE DEF covered, hit
    <3>3. {h.pos : h \in {hit(i) : i \in covered(vx)}} = covered(vx)
      BY <3>2
    <3> QED
      BY <3>1, <3>3
  <2>4. Visible(surfaces, viewport_width, scroll_pos)
          = UNION {covered(vx) : vx \in 0 .. viewport_width - 1}
    <3>1. Visible(surfaces, viewport_width, scroll_pos)
            = {i \in 1 .. Len(surfaces) : \E vx \in 0 .. viewport_width - 1 :
                 Covers(surfaces, i, vx + scroll_pos)}
      BY <2>1, VisibleHit
    <3> QED
      BY <3>1
  <2> HIDE DEF covered
  <2> QED
    BY <2>2, <2>3, <2>4 DEF VisibleIsClickable
<1> QED
  BY <1>1, StripLayout, PTL
-----------------------------------------------------------------------------
(***************************************************************************)
(* Which action a change of the strip is due to.                           *)
(***************************************************************************)
LEMMA LengthSteps ==
  ASSUME ShapeInv, [Next]_vars, mode = "live", mode' = "live"
  PROVE  /\ Len(surfaces) \in Nat /\ Len(surfaces') \in Nat
         /\ \/ \E id \in Ids, w \in Widths : AppendSurface(id, w)
            \/ /\ \E id \in Ids : Remove(id)
               /\ Len(surfaces') = Len(surfaces) - 1
            \/ Len(surfaces') = Len(surfaces)
<1>1. Len(surfaces) \in Nat /\ surfaces \in Seq(Surface)
  BY SurfacesFacts DEF ShapeInv
<1>2. Len(surfaces') \in Nat
  BY ShapeStep, SurfacesFacts DEF ShapeInv
<1>3. ASSUME NEW id \in Ids, Remove(id)
      PROVE  Len(surfaces') = Len(surfaces) - 1
  BY <1>1, <1>3, RemovedIs DEF Remove
<1>4. ASSUME NEW id \in Ids, NoteFrame(id) PROVE Len(surfaces') = Len(surfaces)
  BY <1>1, <1>4, NotedIs DEF NoteFrame
<1>5. ASSUME NEW id \in Ids, SetFocus(id) PROVE surfaces' = surfaces
  BY <1>5 DEF SetFocus
<1>6. ASSUME NEW dx \in Deltas, ScrollBy(dx) PROVE surfaces' = surfaces
  BY <1>6 DEF ScrollBy
<1>7. ASSUME NEW vx \in Points, Click(vx) PROVE surfaces' = surfaces
  BY <1>7 DEF Click
<1>8. ASSUME NEW v \in Viewports, Checkpoint(v) PROVE FALSE
  BY <1>8 DEF Checkpoint
<1>9. ~RestoreNext /\ ~RestoreLayout
  BY DEF RestoreNext, RestoreLayout
<1>10. CASE UNCHANGED vars
  BY <1>1, <1>2, <1>10 DEF vars
<1>11. CASE Next
  BY <1>1, <1>2, <1>3, <1>4, <1>5, <1>6, <1>7, <1>8, <1>9, <1>11 DEF Next
<1> QED
  BY <1>10, <1>11

LEMMA ArrivalKeepsHits ==
  ASSUME NEW s, NEW t, Widthy(s), Widthy(t), Len(t) = Len(s) + 1,
         \A i \in 1 .. Len(s) : t[i] = s[i],
         \A i \in 1 .. Len(t) : t[i].width > 0,
         NEW scroll \in Int, NEW vx \in Int, Hits(s, scroll, vx) # {}
  PROVE  Hits(t, scroll, vx) = Hits(s, scroll, vx)
<1> DEFINE x == vx + scroll
<1>1. Len(s) \in Nat /\ Len(t) \in Nat /\ x \in Int
  BY DEF Widthy
<1>2. \A i \in 0 .. Len(s) : Edge(s)[i] = Edge(t)[i]
  <2>1. Len(s) \in 0 .. Len(s) /\ Len(s) <= Len(t)
    BY <1>1
  <2> QED
    BY <1>1, <2>1, EdgeAgrees
<1>3. \A i \in 1 .. Len(s) : /\ Covers(t, i, x) <=> Covers(s, i, x)
                             /\ Edge(t)[i - 1] = Edge(s)[i - 1]
  BY <1>1, <1>2 DEF Covers
<1>4. PICK i \in 1 .. Len(s) : Covers(s, i, x)
  BY HitsCover DEF Widthy
<1> HIDE DEF x
<1>5. ~Covers(t, Len(s) + 1, x)
  <2> SUFFICES ASSUME Covers(t, Len(s) + 1, x) PROVE FALSE
    OBVIOUS
  <2>1. i \in 1 .. Len(t) /\ Len(s) + 1 \in 1 .. Len(t) /\ i # Len(s) + 1
    BY <1>1
  <2>2. Covers(t, i, x)
    BY <1>3, <1>4
  <2> QED
    BY <1>1, <2>1, <2>2, OneCovers
<1> DEFINE S == {j \in 1 .. Len(s) : Covers(s, j, x)}
           T == {j \in 1 .. Len(t) : Covers(t, j, x)}
           hit(u, j) == [pos |-> j, id |-> u[j].id,
                         dx |-> vx + scroll - Edge(u)[j - 1]]
<1>6. S = T
  <2>1. 1 .. Len(t) = 1 .. Len(s) \cup {Len(s) + 1}
    BY <1>1
  <2> QED
    BY <1>3, <1>5, <2>1
<1>7. \A j \in S : hit(t, j) = hit(s, j)
  BY <1>3
<1>8. /\ Hits(s, scroll, vx) = {hit(s, j) : j \in S}
      /\ Hits(t, scroll, vx) = {hit(t, j) : j \in T}
  <2>1. DOMAIN s = 1 .. Len(s) /\ DOMAIN t = 1 .. Len(t)
    BY DEF Widthy
  <2>2. /\ S = {j \in 1 .. Len(s) : Covers(s, j, vx + scroll)}
        /\ T = {j \in 1 .. Len(t) : Covers(t, j, vx + scroll)}
    BY DEF x
  <2> HIDE DEF S, T
  <2>3. ASSUME NEW u, DOMAIN u = 1 .. Len(u), NEW C,
               C = {j \in 1 .. Len(u) : Covers(u, j, vx + scroll)}
        PROVE  Hits(u, scroll, vx) = {hit(u, j) : j \in C}
    BY <2>3, HitsCover
  <2> HIDE DEF hit
  <2> QED
    BY <2>1, <2>2, <2>3
<1> HIDE DEF S, T, hit
<1> QED
  BY <1>6, <1>7, <1>8

(***************************************************************************)
(* A surface that arrives moves nothing the user sees: it starts at the    *)
(* right edge of the last one, so no point that showed a surface is under  *)
(* it.                                                                     *)
(***************************************************************************)
THEOREM StripArrivalsKeepTheView == Spec => ArrivalsKeepTheView
<1> DEFINE Keeps == mode = "live" /\ Len(surfaces') > Len(surfaces) =>
                      \A vx \in 0 .. viewport_width - 1 :
                        Hits(surfaces, scroll_pos, vx) # {} =>
                          Hits(surfaces', scroll_pos', vx)
                            = Hits(surfaces, scroll_pos, vx)
<1>1. ASSUME ShapeInv, LayoutInv, [Next]_vars PROVE Keeps
  <2> SUFFICES ASSUME mode = "live", Len(surfaces') > Len(surfaces),
                      NEW vx \in 0 .. viewport_width - 1,
                      Hits(surfaces, scroll_pos, vx) # {}
               PROVE  Hits(surfaces', scroll_pos', vx)
                        = Hits(surfaces, scroll_pos, vx)
    OBVIOUS
  <2>1. mode' = "live"
    <3> SUFFICES ASSUME mode' # "live" PROVE FALSE
      OBVIOUS
    <3>1. PICK v \in Viewports : Checkpoint(v)
      BY <1>1 DEF Next, vars, AppendSurface, Remove, NoteFrame, SetFocus,
                  ScrollBy, Click, RestoreNext, RestoreLayout
    <3>2. Len(surfaces') = 0
      BY <3>1 DEF Checkpoint
    <3> QED
      BY <1>1, <3>2, SurfacesFacts DEF ShapeInv
  <2>2. PICK id \in Ids, w \in Widths : AppendSurface(id, w)
    BY <1>1, <2>1, LengthSteps
  <2>3. scroll_pos' = scroll_pos
        /\ surfaces' = Appended(surfaces, viewport_width, id, w)
    BY <2>2 DEF AppendSurface
  <2>4. /\ Len(surfaces') = Len(surfaces) + 1
        /\ \A i \in 1 .. Len(surfaces) : surfaces'[i] = surfaces[i]
    BY <1>1, <2>3, AppendedIs DEF ShapeInv
  <2>5. ShapeInv'
    BY <1>1, ShapeStep
  <2>6. /\ Widthy(surfaces) /\ Widthy(surfaces')
        /\ \A i \in 1 .. Len(surfaces') : surfaces'[i].width > 0
    BY <1>1, <2>5, SurfacesFacts DEF ShapeInv, AllWide
  <2>7. scroll_pos \in Int /\ vx \in Int
    BY <1>1, ScrollFacts DEF LayoutInv
  <2> QED
    BY <2>3, <2>4, <2>6, <2>7, ArrivalKeepsHits
<1> QED
  BY <1>1, StripLayout, PTL DEF Spec, ArrivalsKeepTheView

(***************************************************************************)
(* A resume gives the session back.  The strip is the whole image by the   *)
(* time the layout is restored, every surface of an image has the order of *)
(* its position, and a scroll position within a strip of default widths is *)
(* within every strip of as many of them on the same viewport.             *)
(***************************************************************************)
THEOREM StripResumeRestoresTheSession == Spec => ResumeRestoresTheSession
<1> DEFINE Back ==
      mode = "restoring" /\ mode' = "live" =>
        /\ [i \in DOMAIN surfaces' |->
              [id |-> surfaces'[i].id, order |-> surfaces'[i].order]]
             = image.entries
        /\ focus' = image.focus
        /\ image.uniform /\ image.viewport = viewport_width =>
             scroll_pos' = image.scroll
<1>1. ASSUME ShapeInv, LayoutInv, [Next]_vars PROVE Back
  <2> SUFFICES ASSUME mode = "restoring", mode' = "live"
               PROVE  /\ [i \in DOMAIN surfaces' |->
                             [id |-> surfaces'[i].id, order |-> surfaces'[i].order]]
                            = image.entries
                      /\ focus' = image.focus
                      /\ image.uniform /\ image.viewport = viewport_width =>
                           scroll_pos' = image.scroll
    OBVIOUS
  <2>1. RestoreLayout
    BY <1>1 DEF Next, vars, AppendSurface, Remove, NoteFrame, SetFocus,
                ScrollBy, Click, Checkpoint, RestoreNext
  <2>2. /\ surfaces' = surfaces /\ Len(surfaces) = Len(image.entries)
        /\ scroll_pos' = ClampScroll(surfaces, viewport_width, image.scroll)
        /\ focus' = IF OnStrip(surfaces, image.focus) THEN image.focus
                                                      ELSE NoSurface
    BY <2>1 DEF RestoreLayout
  <2>3. RestoreInv
    BY <1>1 DEF LayoutInv
  <2>4. /\ DOMAIN surfaces = 1 .. Len(surfaces) /\ Len(surfaces) \in Nat
        /\ Widthy(surfaces) /\ viewport_width \in Viewports
        /\ \A i \in 1 .. Len(surfaces) : surfaces[i].order = i - 1
    BY <1>1, SurfacesFacts DEF ShapeInv, Numbered
  <2>5. /\ image.entries \in Seq(Entry)
        /\ DOMAIN image.entries = 1 .. Len(surfaces)
        /\ \A i \in 1 .. Len(surfaces) : image.entries[i].order = i - 1
    BY <1>1, <2>2, LenProperties DEF ShapeInv, Numbered
  <2>6. \A i \in 1 .. Len(surfaces) :
          image.entries[i] = [id    |-> image.entries[i].id,
                              order |-> image.entries[i].order]
    <3>1. \A entry \in Entry : entry = [id |-> entry.id, order |-> entry.order]
      BY DEF Entry
    <3>2. \A i \in 1 .. Len(surfaces) : image.entries[i] \in Entry
      BY <2>2, <2>5, ElementOfSeq
    <3> QED
      BY <3>1, <3>2
  <2>7. image.entries = [i \in 1 .. Len(surfaces) |->
                           [id |-> surfaces[i].id, order |-> surfaces[i].order]]
    <3>1. image.entries = [i \in 1 .. Len(surfaces) |-> image.entries[i]]
      BY <2>5
    <3>2. \A i \in 1 .. Len(surfaces) :
            image.entries[i] = [id |-> surfaces[i].id, order |-> surfaces[i].order]
      BY <2>3, <2>4, <2>5, <2>6 DEF RestoreInv
    <3> QED
      BY <3>1, <3>2
  <2>8. focus' = image.focus
    <3>1. OnStrip(image.entries, image.focus) => OnStrip(surfaces, image.focus)
      BY <2>3, <2>4, <2>5 DEF OnStrip, RestoreInv
    <3> QED
      BY <2>2, <2>3, <3>1 DEF RestoreInv
  <2>9. ASSUME image.uniform, image.viewport = viewport_width
        PROVE  scroll_pos' = image.scroll
    <3>1. MaxScroll(surfaces, viewport_width) = Room(Len(surfaces), viewport_width)
      BY <2>3, <2>4, UniformRoom DEF RestoreInv
    <3>2. /\ image.scroll \in Int
          /\ image.scroll \in 0 .. MaxScroll(surfaces, viewport_width)
      BY <2>2, <2>3, <2>9, <3>1 DEF RestoreInv
    <3>3. viewport_width \in Int
      BY <2>4, ViewportFacts
    <3> QED
      BY <2>2, <2>4, <3>2, <3>3, ScrollRange
  <2> QED
    BY <2>2, <2>4, <2>7, <2>8, <2>9
<1> QED
  BY <1>1, StripLayout, PTL DEF Spec, ResumeRestoresTheSession

(***************************************************************************)
(* Removing a surface only closes its gap: in front of it every surface    *)
(* stays, behind it every surface moves up by one place.                   *)
(***************************************************************************)
LEMMA RemovedShape ==
  ASSUME NEW s \in Seq(Surface), NEW id, OnStrip(s, id)
  PROVE  Shape(Removed(s, id))
           = SubSeq(Shape(s), 1, First(s, id) - 1)
               \o SubSeq(Shape(s), First(s, id) + 1, Len(s))
<1> DEFINE n == Len(s)
           p == First(s, id)
           r == Removed(s, id)
           left == SubSeq(Shape(s), 1, p - 1)
           right == SubSeq(Shape(s), p + 1, n)
           place(i) == IF i < p THEN i ELSE i + 1
           Pairs == {Shape(s)[i] : i \in 1 .. n}
<1>1. /\ n \in Nat /\ DOMAIN s = 1 .. n /\ p \in 1 .. n
      /\ r \in Seq(Surface) /\ Len(r) = n - 1 /\ n - 1 \in Nat
  BY RemovedIs, SurfacesFacts
<1>2. \A i \in 1 .. n - 1 : /\ r[i].id = s[place(i)].id
                            /\ r[i].width = s[place(i)].width
  BY RemovedIs
<1> HIDE DEF n, p, r, place
<1>3. /\ Shape(s) = [i \in 1 .. n |-> <<s[i].id, s[i].width>>]
      /\ \A i \in 1 .. n : Shape(s)[i] = <<s[i].id, s[i].width>>
  BY <1>1 DEF Shape
<1>4. \A i \in 1 .. n - 1 : place(i) \in 1 .. n
  BY <1>1 DEF place
<1>5. Shape(r) = [i \in 1 .. n - 1 |-> Shape(s)[place(i)]]
  <2>1. DOMAIN r = 1 .. n - 1
    BY <1>1, SurfacesFacts
  <2>2. Shape(r) = [i \in 1 .. n - 1 |-> <<r[i].id, r[i].width>>]
    BY <2>1 DEF Shape
  <2>3. \A i \in 1 .. n - 1 : <<r[i].id, r[i].width>> = Shape(s)[place(i)]
    BY <1>2, <1>3, <1>4
  <2> QED
    BY <2>2, <2>3
<1> HIDE DEF Shape
<1>6. /\ left \in Seq(Pairs) /\ Len(left) = p - 1
      /\ \A i \in 1 .. p - 1 : left[i] = Shape(s)[i]
  <2>1. 1 \in Int /\ p - 1 \in Int /\ \A i \in 1 .. p - 1 : Shape(s)[i] \in Pairs
    BY <1>1
  <2> HIDE DEF Pairs
  <2>2. /\ left \in Seq(Pairs)
        /\ Len(left) = IF 1 <= p - 1 THEN p - 1 - 1 + 1 ELSE 0
        /\ \A i \in 1 .. p - 1 - 1 + 1 : left[i] = Shape(s)[1 + i - 1]
    BY <2>1, SubSeqProperties
  <2> QED
    BY <1>1, <2>2
<1>7. /\ right \in Seq(Pairs) /\ Len(right) = n - p
      /\ \A i \in 1 .. n - p : right[i] = Shape(s)[p + i]
  <2>1. p + 1 \in Int /\ n \in Int /\ \A i \in p + 1 .. n : Shape(s)[i] \in Pairs
    BY <1>1
  <2> HIDE DEF Pairs
  <2>2. /\ right \in Seq(Pairs)
        /\ Len(right) = IF p + 1 <= n THEN n - (p + 1) + 1 ELSE 0
        /\ \A i \in 1 .. n - (p + 1) + 1 : right[i] = Shape(s)[(p + 1) + i - 1]
    BY <2>1, SubSeqProperties
  <2> QED
    BY <1>1, <2>2
<1> HIDE DEF left, right, Pairs
<1>8. /\ left \o right \in Seq(Pairs) /\ Len(left \o right) = n - 1
      /\ \A i \in 1 .. n - 1 :
           (left \o right)[i] = IF i <= p - 1 THEN left[i] ELSE right[i - (p - 1)]
  <2>1. /\ left \o right \in Seq(Pairs)
        /\ Len(left \o right) = Len(left) + Len(right)
        /\ \A i \in 1 .. Len(left) + Len(right) : (left \o right)[i] =
             IF i <= Len(left) THEN left[i] ELSE right[i - Len(left)]
    BY <1>6, <1>7, ConcatProperties, Zenon
  <2>2. Len(left) + Len(right) = n - 1
    BY <1>1, <1>6, <1>7
  <2> HIDE DEF left, right
  <2> QED
    BY <1>6, <2>1, <2>2
<1>9. ASSUME NEW i \in 1 .. n - 1 PROVE (left \o right)[i] = Shape(s)[place(i)]
  <2>1. CASE i < p
    BY <1>1, <1>6, <1>8, <2>1 DEF place
  <2>2. CASE ~(i < p)
    <3>1. /\ i - (p - 1) \in 1 .. n - p /\ p + (i - (p - 1)) = i + 1
          /\ ~(i <= p - 1)
      BY <1>1, <2>2
    <3> QED
      BY <1>7, <1>8, <2>2, <3>1 DEF place
  <2> QED
    BY <2>1, <2>2
<1>10. left \o right = [i \in 1 .. n - 1 |-> (left \o right)[i]]
  <2>1. \A u \in Seq(Pairs) : u = [i \in 1 .. Len(u) |-> u[i]]
    BY LenProperties
  <2> QED
    BY <1>8, <2>1
<1>11. left \o right = Shape(r)
  BY <1>5, <1>9, <1>10
<1> QED
  BY <1>11 DEF left, right, n, p, r

THEOREM StripRemovalClosesTheGap == Spec => RemovalClosesTheGap
<1> DEFINE Closes ==
      mode = "live" /\ mode' = "live" /\ Len(surfaces') < Len(surfaces) =>
        /\ \E p \in DOMAIN surfaces :
             Shape(surfaces') = SubSeq(Shape(surfaces), 1, p - 1)
                                  \o SubSeq(Shape(surfaces), p + 1, Len(surfaces))
        /\ scroll_pos' # scroll_pos =>
             /\ scroll_pos > MaxScroll(surfaces', viewport_width)
             /\ scroll_pos' = MaxScroll(surfaces', viewport_width)
<1>1. ASSUME ShapeInv, LayoutInv, [Next]_vars PROVE Closes
  <2> SUFFICES ASSUME mode = "live", mode' = "live",
                      Len(surfaces') < Len(surfaces)
               PROVE  Closes
    OBVIOUS
  <2>1. PICK id \in Ids : Remove(id)
    <3>1. ASSUME NEW id \in Ids, NEW w \in Widths, AppendSurface(id, w)
          PROVE  Len(surfaces') = Len(surfaces) + 1
      BY <1>1, <3>1, AppendedIs DEF AppendSurface, ShapeInv
    <3> QED
      BY <1>1, <3>1, LengthSteps
  <2>2. /\ OnStrip(surfaces, id) /\ surfaces' = Removed(surfaces, id)
        /\ scroll_pos' = ClampScroll(surfaces', viewport_width, scroll_pos)
    BY <2>1 DEF Remove
  <2>3. /\ First(surfaces, id) \in DOMAIN surfaces
        /\ surfaces' \in Seq(Surface) /\ surfaces \in Seq(Surface)
    BY <1>1, <2>2, RemovedIs, SurfacesFacts DEF ShapeInv
  <2>4. Shape(surfaces')
          = SubSeq(Shape(surfaces), 1, First(surfaces, id) - 1)
              \o SubSeq(Shape(surfaces), First(surfaces, id) + 1, Len(surfaces))
    BY <2>2, <2>3, RemovedShape
  <2>5. scroll_pos' # scroll_pos =>
          /\ scroll_pos > MaxScroll(surfaces', viewport_width)
          /\ scroll_pos' = MaxScroll(surfaces', viewport_width)
    <3>1. /\ Widthy(surfaces') /\ viewport_width \in Int
          /\ scroll_pos \in Int /\ scroll_pos >= 0
      BY <1>1, <2>3, ScrollFacts, SurfacesFacts DEF LayoutInv
    <3> QED
      BY <2>2, <3>1, ScrollRange
  <2> QED
    BY <2>3, <2>4, <2>5
<1> QED
  BY <1>1, StripLayout, PTL DEF Spec, RemovalClosesTheGap
=============================================================================
