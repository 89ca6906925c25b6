---------------------------- MODULE ParserProofs ------------------------------
(***************************************************************************)
(* Proofs about ImageParser, for images of any number of surfaces and of   *)
(* coefficients, and for any texts, numbers and levels: the types of its   *)
(* variables, and what the readers find in a document of which everything  *)
(* before the coefficient block is as it was written, and in all of it.    *)
(***************************************************************************)
EXTENDS ImageParser, GaloisProofs, FunctionTheorems, WellFoundedInduction

(***************************************************************************)
(* FlattenSeq of the library is a recursive function on the positions of   *)
(* its argument, so facts about it need an induction.  It takes the form   *)
(* of the least counterexample in a set of naturals.                       *)
(***************************************************************************)
Descent == {pair \in Nat \X Nat : pair[1] < pair[2]}

LEMMA CountingUp ==
  ASSUME NEW n \in Nat, NEW T, 1 \in T,
         \A i \in 1 .. n - 1 : i \in T => i + 1 \in T
  PROVE  1 .. n \subseteq T
<1> DEFINE U == 1 .. n \ T
<1> SUFFICES ASSUME U # {} PROVE FALSE
  OBVIOUS
<1>1. IsWellFoundedOn(Descent, Nat)
  BY NatLessThanWellFounded DEF OpToRel, Descent
<1>2. U \subseteq Nat
  OBVIOUS
<1>3. PICK x \in U : \A y \in U : ~(<<y, x>> \in Descent)
  <2> HIDE DEF U
  <2> QED
    BY <1>1, <1>2, WFMin
<1>4. x # 1 /\ x \in 1 .. n /\ x \notin T
  BY <1>3
<1>5. x - 1 \in 1 .. n - 1 /\ <<x - 1, x>> \in Descent
  BY <1>4 DEF Descent
<1>6. x - 1 \in T
  BY <1>3, <1>5
<1>7. (x - 1) + 1 \in T
  BY <1>5, <1>6
<1> QED
  BY <1>4, <1>7

Flattens(ss, n, f) ==
  f = [i \in 1 .. n |-> IF i = 1 THEN ss[i] ELSE f[i - 1] \o ss[i]]

LEMMA FlattensExist ==
  ASSUME NEW ss, NEW m \in Nat \ {0}
  PROVE  \E f : Flattens(ss, m, f)
<1> DEFINE T == {n \in Nat : \E f : Flattens(ss, n, f)}
<1>1. 1 \in T
  <2> DEFINE f == [i \in 1 .. 1 |-> ss[1]]
  <2>1. Flattens(ss, 1, f)
    BY DEF Flattens
  <2> QED
    BY <2>1
<1>2. ASSUME NEW n \in 1 .. m - 1, n \in T PROVE n + 1 \in T
  <2>1. PICK f : Flattens(ss, n, f)
    BY <1>2
  <2> DEFINE g == [i \in 1 .. n + 1 |-> IF i = n + 1 THEN f[n] \o ss[n + 1] ELSE f[i]]
  <2>2. n \in Nat /\ n >= 1
    BY <1>2
  <2>3. \A i \in 1 .. n : f[i] = IF i = 1 THEN ss[i] ELSE f[i - 1] \o ss[i]
    BY <2>1 DEF Flattens
  <2>4. ASSUME NEW i \in 1 .. n + 1
        PROVE  g[i] = IF i = 1 THEN ss[i] ELSE g[i - 1] \o ss[i]
    <3>1. CASE i = n + 1
      <4>1. i # 1 /\ i - 1 = n /\ n \in 1 .. n + 1 /\ n # n + 1
        BY <2>2, <3>1
      <4>2. g[i] = f[n] \o ss[i] /\ g[n] = f[n]
        BY <3>1, <4>1
      <4> QED
        BY <4>1, <4>2
    <3>2. CASE i \in 2 .. n
      BY <2>2, <2>3, <3>2
    <3>3. CASE i = 1
      BY <2>2, <2>3, <3>3
    <3> QED
      BY <2>2, <3>1, <3>2, <3>3
  <2>5. g = [i \in 1 .. n + 1 |-> g[i]]
    OBVIOUS
  <2>6. Flattens(ss, n + 1, g)
    <3> HIDE DEF g
    <3> QED
      BY <2>4, <2>5 DEF Flattens
  <2> QED
    BY <2>2, <2>6
<1>3. 1 .. m \subseteq T
  <2> HIDE DEF T
  <2> QED
    BY <1>1, <1>2, CountingUp, Zenon
<1> QED
  BY <1>3

LEMMA FlattenIs ==
  ASSUME NEW ss, Len(ss) \in Nat \ {0}
  PROVE  \E f : Flattens(ss, Len(ss), f) /\ FlattenSeq(ss) = f[Len(ss)]
<1> DEFINE f == CHOOSE f : Flattens(ss, Len(ss), f)
<1>1. Flattens(ss, Len(ss), f)
  BY FlattensExist
<1>2. FlattenSeq(ss) = f[Len(ss)]
  BY DEF FlattenSeq, Flattens
<1> QED
  BY <1>1, <1>2

\* what holds of the pieces, and of two sequences that are joined
LEMMA FlattenClosed ==
  ASSUME NEW T, <<>> \in T, \A a, b \in T : a \o b \in T, NEW ss \in Seq(T)
  PROVE  FlattenSeq(ss) \in T
<1>1. Len(ss) \in Nat /\ DOMAIN ss = 1 .. Len(ss) /\ \A i \in 1 .. Len(ss) : ss[i] \in T
  BY LenProperties, ElementOfSeq
<1>2. CASE Len(ss) = 0
  <2>1. FlattenSeq(ss) = ss /\ ss = <<>>
    BY <1>2, EmptySeq DEF FlattenSeq
  <2> QED
    BY <2>1
<1>3. CASE Len(ss) # 0
  <2>1. PICK f : Flattens(ss, Len(ss), f) /\ FlattenSeq(ss) = f[Len(ss)]
    BY <1>1, <1>3, FlattenIs
  <2>2. \A i \in 1 .. Len(ss) : f[i] = IF i = 1 THEN ss[i] ELSE f[i - 1] \o ss[i]
    BY <2>1 DEF Flattens
  <2> DEFINE U == {i \in 1 .. Len(ss) : f[i] \in T}
  <2>3. 1 \in U
    BY <1>1, <1>3, <2>2
  <2>4. \A i \in 1 .. Len(ss) - 1 : i \in U => i + 1 \in U
    <3> SUFFICES ASSUME NEW i \in 1 .. Len(ss) - 1, f[i] \in T PROVE f[i + 1] \in T
      BY <1>1
    <3>1. i + 1 \in 1 .. Len(ss) /\ i + 1 # 1 /\ (i + 1) - 1 = i
      BY <1>1
    <3>2. f[i + 1] = f[i] \o ss[i + 1]
      BY <2>2, <3>1
    <3> QED
      BY <1>1, <3>1, <3>2
  <2>5. 1 .. Len(ss) \subseteq U
    <3> HIDE DEF U
    <3> QED
      BY <1>1, <2>3, <2>4, CountingUp, Zenon
  <2> QED
    BY <1>1, <1>3, <2>1, <2>5
<1> QED
  BY <1>2, <1>3

LEMMA JoinFacts ==
  ASSUME NEW S, NEW a \in Seq(S), NEW b \in Seq(S)
  PROVE  /\ a \o b \in Seq(S) /\ Len(a \o b) = Len(a) + Len(b)
         /\ Len(a) \in Nat /\ Len(b) \in Nat
         /\ \A i \in 1 .. Len(a) : (a \o b)[i] = a[i]
         /\ \A i \in 1 .. Len(b) : (a \o b)[Len(a) + i] = b[i]
BY ConcatProperties, LenProperties

(***************************************************************************)
(* t is what the first n pieces of ss make when they are joined: the i-th  *)
(* ends at at[i].                                                          *)
(***************************************************************************)
LaidOut(S, t, ss, n, at) ==
  /\ t \in Seq(S) /\ at \in [0 .. n -> Nat]
  /\ at[0] = 0 /\ at[n] = Len(t)
  /\ \A i \in 1 .. n : at[i] = at[i - 1] + Len(ss[i])
  /\ \A i \in 1 .. n : \A k \in 1 .. Len(ss[i]) : t[at[i - 1] + k] = ss[i][k]
  /\ \A i, j \in 0 .. n : i <= j => at[i] <= at[j]
  /\ \A p \in 1 .. Len(t) : \E i \in 1 .. n : \E k \in 1 .. Len(ss[i]) : p = at[i - 1] + k

LEMMA LaidOutNext ==
  ASSUME NEW S, NEW ss, NEW n \in Nat, NEW t, NEW at, LaidOut(S, t, ss, n, at),
         ss[n + 1] \in Seq(S)
  PROVE  \E bt : LaidOut(S, t \o ss[n + 1], ss, n + 1, bt)
<1> DEFINE b == ss[n + 1]
           bt == [i \in 0 .. n + 1 |-> IF i = n + 1 THEN at[n] + Len(b) ELSE at[i]]
<1>1. /\ t \in Seq(S) /\ b \in Seq(S) /\ Len(b) \in Nat /\ Len(t) = at[n]
      /\ at \in [0 .. n -> Nat] /\ at[0] = 0
  BY LenProperties DEF LaidOut
<1>2. /\ t \o b \in Seq(S) /\ Len(t \o b) = Len(t) + Len(b)
      /\ \A i \in 1 .. Len(t) : (t \o b)[i] = t[i]
      /\ \A i \in 1 .. Len(b) : (t \o b)[Len(t) + i] = b[i]
  <2> HIDE DEF b
  <2>1. t \in Seq(S) /\ b \in Seq(S)
    BY <1>1
  <2> QED
    BY ONLY <2>1, JoinFacts
<1>3. /\ bt \in [0 .. n + 1 -> Nat] /\ bt[n + 1] = at[n] + Len(b)
      /\ \A i \in 0 .. n : bt[i] = at[i]
  <2>1. at[n] \in Nat /\ \A i \in 0 .. n + 1 : i # n + 1 => i \in 0 .. n
    BY <1>1
  <2>2. n + 1 \in 0 .. n + 1
    OBVIOUS
  <2> HIDE DEF b
  <2> QED
    BY <1>1, <2>1, <2>2
<1> HIDE DEF bt
<1>4. \A i \in 1 .. n + 1 : bt[i] = bt[i - 1] + Len(ss[i])
  <2> SUFFICES ASSUME NEW i \in 1 .. n + 1 PROVE bt[i] = bt[i - 1] + Len(ss[i])
    OBVIOUS
  <2>1. CASE i = n + 1
    BY <1>3, <2>1
  <2>2. CASE i \in 1 .. n
    <3>1. at[i] = at[i - 1] + Len(ss[i]) /\ i \in 0 .. n /\ i - 1 \in 0 .. n
      BY <2>2 DEF LaidOut
    <3> QED
      BY <1>3, <3>1
  <2> QED
    BY <2>1, <2>2
<1>5. \A i \in 1 .. n + 1 : \A k \in 1 .. Len(ss[i]) : (t \o b)[bt[i - 1] + k] = ss[i][k]
  <2> SUFFICES ASSUME NEW i \in 1 .. n + 1, NEW k \in 1 .. Len(ss[i])
               PROVE  (t \o b)[bt[i - 1] + k] = ss[i][k]
    OBVIOUS
  <2>1. CASE i = n + 1
    <3>1. bt[i - 1] = Len(t) /\ k \in 1 .. Len(b)
      BY <1>1, <1>3, <2>1
    <3> QED
      BY <1>2, <2>1, <3>1
  <2>2. CASE i \in 1 .. n
    <3>1. at[i] = at[i - 1] + Len(ss[i]) /\ i \in 0 .. n /\ i - 1 \in 0 .. n /\ at[i] <= at[n]
      BY <2>2 DEF LaidOut
    <3>2. t[at[i - 1] + k] = ss[i][k]
      BY <2>2 DEF LaidOut
    <3>3. at[i - 1] + k \in 1 .. Len(t)
      <4> DEFINE a == at[i - 1]
                 m == Len(ss[i])
      <4>1. a \in Nat /\ a + m <= at[n] /\ at[n] = Len(t) /\ Len(t) \in Nat
            /\ a + m \in Nat
        <5>1. a \in Nat /\ at[i] \in Nat /\ at[n] = Len(t) /\ at[i] = a + m
          BY <1>1, <3>1
        <5>2. Len(t) \in Nat
          BY <1>1, LenProperties
        <5> QED
          BY <3>1, <5>1, <5>2
      <4>2. m \in Nat /\ k \in Nat /\ k >= 1 /\ k <= m
        <5>1. m \in Nat
          BY <2>2, LenProperties DEF LaidOut
        <5> QED
          BY <5>1
      <4> HIDE DEF a, m
      <4>3. a + k \in 1 .. Len(t)
        BY <4>1, <4>2
      <4> QED
        BY <4>3 DEF a
    <3> QED
      BY <1>2, <1>3, <3>1, <3>2, <3>3
  <2>3. i = n + 1 \/ i \in 1 .. n
    OBVIOUS
  <2> QED
    BY <2>1, <2>2, <2>3, Zenon
<1>6. \A i, j \in 0 .. n + 1 : i <= j => bt[i] <= bt[j]
  <2> SUFFICES ASSUME NEW i \in 0 .. n + 1, NEW j \in 0 .. n + 1, i <= j
               PROVE  bt[i] <= bt[j]
    OBVIOUS
  <2>1. CASE j \in 0 .. n
    <3>1. i \in 0 .. n
      BY <2>1
    <3> QED
      BY <1>3, <2>1, <3>1 DEF LaidOut
  <2>2. CASE j = n + 1 /\ i \in 0 .. n
    <3>1. at[i] <= at[n] /\ at[i] \in Nat /\ at[n] \in Nat
      BY <1>1, <2>2 DEF LaidOut
    <3> QED
      BY <1>1, <1>3, <2>2, <3>1
  <2>3. CASE i = n + 1
    BY <1>3, <2>3
  <2> QED
    BY <2>1, <2>2, <2>3
<1>7. \A p \in 1 .. Len(t \o b) : \E i \in 1 .. n + 1 : \E k \in 1 .. Len(ss[i]) :
        p = bt[i - 1] + k
  <2> SUFFICES ASSUME NEW p \in 1 .. Len(t \o b)
               PROVE  \E i \in 1 .. n + 1 : \E k \in 1 .. Len(ss[i]) : p = bt[i - 1] + k
    OBVIOUS
  <2>1. CASE p \in 1 .. Len(t)
    <3>1. PICK i \in 1 .. n : \E k \in 1 .. Len(ss[i]) : p = at[i - 1] + k
      BY <2>1 DEF LaidOut
    <3>2. i \in 1 .. n + 1 /\ i - 1 \in 0 .. n
      OBVIOUS
    <3> QED
      BY <1>3, <3>1, <3>2
  <2>2. CASE p > Len(t)
    <3>1. p - Len(t) \in 1 .. Len(b) /\ p = Len(t) + (p - Len(t)) /\ n + 1 \in 1 .. n + 1
          /\ (n + 1) - 1 = n
      BY <1>1, <1>2, <2>2
    <3>2. bt[(n + 1) - 1] = Len(t)
      BY <1>1, <1>3
    <3> QED
      BY <3>1, <3>2
  <2>3. p \in 1 .. Len(t) \/ p > Len(t)
    BY <1>1
  <2> QED
    BY <2>1, <2>2, <2>3, Zenon
<1>8. bt[0] = 0 /\ bt[n + 1] = Len(t \o b)
  BY <1>1, <1>2, <1>3
<1>9. LaidOut(S, t \o b, ss, n + 1, bt)
  BY <1>2, <1>3, <1>4, <1>5, <1>6, <1>7, <1>8 DEF LaidOut
<1> QED
  BY <1>9

LEMMA FlattenLaidOut ==
  ASSUME NEW S, NEW ss \in Seq(Seq(S))
  PROVE  \E at : LaidOut(S, FlattenSeq(ss), ss, Len(ss), at)
<1>1. Len(ss) \in Nat /\ DOMAIN ss = 1 .. Len(ss)
      /\ \A i \in 1 .. Len(ss) : ss[i] \in Seq(S)
  BY LenProperties, ElementOfSeq
<1>2. \A t \in Seq(S) : Len(t) \in Nat
  BY LenProperties
<1>3. CASE Len(ss) = 0
  <2>1. FlattenSeq(ss) = ss /\ ss = <<>> /\ <<>> \in Seq(S)
    BY <1>3, EmptySeq DEF FlattenSeq
  <2> DEFINE at == [i \in 0 .. 0 |-> 0]
  <2>2. LaidOut(S, <<>>, ss, 0, at)
    BY <2>1 DEF LaidOut
  <2> QED
    BY <1>3, <2>1, <2>2
<1>4. CASE Len(ss) # 0
  <2>1. PICK f : Flattens(ss, Len(ss), f) /\ FlattenSeq(ss) = f[Len(ss)]
    BY <1>1, <1>4, FlattenIs
  <2>2. \A i \in 1 .. Len(ss) : f[i] = IF i = 1 THEN ss[i] ELSE f[i - 1] \o ss[i]
    BY <2>1 DEF Flattens
  <2> DEFINE U == {n \in 1 .. Len(ss) : \E at : LaidOut(S, f[n], ss, n, at)}
  <2>3. 1 \in U
    <3>1. 1 \in 1 .. Len(ss) /\ f[1] = ss[1]
      BY <1>1, <1>4, <2>2
    <3>2. ss[1] \in Seq(S) /\ Len(ss[1]) \in Nat
      BY <1>1, <1>2, <3>1
    <3> DEFINE at == [i \in 0 .. 1 |-> IF i = 0 THEN 0 ELSE Len(ss[1])]
    <3>3. at \in [0 .. 1 -> Nat] /\ at[0] = 0 /\ at[1] = Len(ss[1])
      BY <3>2
    <3> HIDE DEF at
    <3>4. \A i \in 1 .. 1 : i = 1 /\ i - 1 = 0
      OBVIOUS
    <3>5. \A i, j \in 0 .. 1 : i <= j => at[i] <= at[j]
      <4> SUFFICES ASSUME NEW i \in 0 .. 1, NEW j \in 0 .. 1, i <= j PROVE at[i] <= at[j]
        OBVIOUS
      <4>1. i = j \/ (i = 0 /\ j = 1)
        OBVIOUS
      <4> QED
        BY <3>2, <3>3, <4>1
    <3>6. LaidOut(S, ss[1], ss, 1, at)
      BY <3>2, <3>3, <3>4, <3>5 DEF LaidOut
    <3> QED
      BY <3>1, <3>6
  <2>4. \A n \in 1 .. Len(ss) - 1 : n \in U => n + 1 \in U
    <3> SUFFICES ASSUME NEW n \in 1 .. Len(ss) - 1, n \in U PROVE n + 1 \in U
      OBVIOUS
    <3>0. PICK at : LaidOut(S, f[n], ss, n, at)
      OBVIOUS
    <3>1. n + 1 \in 1 .. Len(ss) /\ n + 1 # 1 /\ (n + 1) - 1 = n /\ n \in Nat
      BY <1>1
    <3>2. f[n + 1] = f[n] \o ss[n + 1]
      BY <2>2, <3>1
    <3>3. ss[n + 1] \in Seq(S)
      BY <1>1, <3>1
    <3>4. \E bt : LaidOut(S, f[n] \o ss[n + 1], ss, n + 1, bt)
      BY <3>0, <3>1, <3>3, LaidOutNext, Zenon
    <3> QED
      BY <3>1, <3>2, <3>4
  <2>5. 1 .. Len(ss) \subseteq U
    <3> HIDE DEF U
    <3> QED
      BY <1>1, <2>3, <2>4, CountingUp, Zenon
  <2>6. Len(ss) \in 1 .. Len(ss)
    BY <1>1, <1>4
  <2>7. Len(ss) \in U
    <3> HIDE DEF U
    <3> QED
      BY <2>5, <2>6
  <2> QED
    BY <2>1, <2>7
<1> QED
  BY <1>3, <1>4

(***************************************************************************)
(* The events of documents.  Fields gives the attributes of an element and *)
(* the values that the writers put there.                                  *)
(***************************************************************************)
Elements == {"session", "surfaces", "surface", "host", "dimensions", "layout", "strip",
             "focus", "coefficients", "surface-coefficient", "timing", "delay-path",
             "security", "linearity"} \cup TextElements

Fields(x, el) ==
  CASE el = "session" -> [created |-> Texts, id |-> {ComputeId(x.base)},
                          schemaVersion |-> Nat]
    [] el = "surface" -> [id |-> SurfaceIds, name |-> Texts, order |-> Nat]
    [] el = "dimensions" -> [height |-> Nat, width |-> Nat]
    [] el = "strip" -> [scrollPos |-> Int]
    [] el \in {"focus", "surface-coefficient"} -> [surfaceRef |-> SurfaceIds]
    [] el = "delay-path" -> [lo |-> Bound, hi |-> Bound]
    [] el = "security" -> [confidentiality |-> Confidentiality, integrity |-> Integrity]
    [] el = "linearity" -> [count |-> Linearity]
    [] OTHER -> <<>>

(***************************************************************************)
(* Some of the attributes that F names, each with a value that F gives it  *)
(* or misspelt.                                                            *)
(***************************************************************************)
AttrsOf(F) ==
  UNION {{f \in [D -> (UNION {F[a] : a \in D}) \cup {Unknown}] :
            \A a \in D : f[a] \in F[a] \cup {Unknown}} : D \in SUBSET DOMAIN F}

Tag(x, el) == [kind : {"open", "empty", "close"}, el : {el},
               attrs : AttrsOf(Fields(x, el)), text : {None}]

TextEvents == [kind : {"text"}, el : {""}, attrs : {<<>>}, text : Texts]

EventOf(x) == (UNION {Tag(x, el) : el \in Elements}) \cup TextEvents

LEMMA UnionIs == ASSUME NEW M, NEW e PROVE e \in UNION M <=> \E m \in M : e \in m
OBVIOUS

LEMMA AttrsAre ==
  ASSUME NEW F, NEW f
  PROVE  f \in AttrsOf(F) <=> /\ f = [a \in DOMAIN f |-> f[a]]
                              /\ DOMAIN f \subseteq DOMAIN F
                              /\ \A a \in DOMAIN f : f[a] \in F[a] \cup {Unknown}
<1>1. ASSUME f \in AttrsOf(F)
      PROVE  /\ f = [a \in DOMAIN f |-> f[a]]
             /\ DOMAIN f \subseteq DOMAIN F
             /\ \A a \in DOMAIN f : f[a] \in F[a] \cup {Unknown}
  <2>1. PICK D \in SUBSET DOMAIN F :
          /\ f \in [D -> (UNION {F[a] : a \in D}) \cup {Unknown}]
          /\ \A a \in D : f[a] \in F[a] \cup {Unknown}
    BY <1>1 DEF AttrsOf
  <2>2. DOMAIN f = D /\ f = [a \in DOMAIN f |-> f[a]]
    BY <2>1
  <2> QED
    BY <2>1, <2>2
<1>2. ASSUME f = [a \in DOMAIN f |-> f[a]], DOMAIN f \subseteq DOMAIN F,
             \A a \in DOMAIN f : f[a] \in F[a] \cup {Unknown}
      PROVE  f \in AttrsOf(F)
  <2> DEFINE D == DOMAIN f
  <2>1. f \in [D -> (UNION {F[a] : a \in D}) \cup {Unknown}]
    <3>1. ASSUME NEW a \in D PROVE f[a] \in (UNION {F[b] : b \in D}) \cup {Unknown}
      <4>1. CASE f[a] \in F[a]
        <5> DEFINE M == {F[b] : b \in D}
        <5>1. F[a] \in M
          OBVIOUS
        <5>2. \E m \in M : f[a] \in m
          BY <4>1, <5>1, Zenon
        <5>3. f[a] \in UNION M
          BY <5>2, UnionIs, Zenon
        <5> QED
          BY <5>3, Zenon
      <4> QED
        BY <1>2, <4>1
    <3> HIDE DEF D
    <3> QED
      BY <1>2, <3>1 DEF D
  <2>2. f \in {g \in [D -> (UNION {F[a] : a \in D}) \cup {Unknown}] :
                \A a \in D : g[a] \in F[a] \cup {Unknown}}
    BY <1>2, <2>1
  <2>3. D \in SUBSET DOMAIN F
    BY <1>2
  <2> HIDE DEF D
  <2> QED
    BY <2>2, <2>3, Zenon DEF AttrsOf
<1> QED
  BY <1>1, <1>2

LEMMA EventsAre ==
  ASSUME NEW x, NEW e
  PROVE  e \in EventOf(x) <=>
           /\ e = [kind |-> e.kind, el |-> e.el, attrs |-> e.attrs, text |-> e.text]
           /\ \/ /\ e.kind \in {"open", "empty", "close"} /\ e.el \in Elements
                 /\ e.attrs \in AttrsOf(Fields(x, e.el)) /\ e.text = None
              \/ /\ e.kind = "text" /\ e.el = "" /\ e.attrs = <<>> /\ e.text \in Texts
<1>1. ASSUME e \in EventOf(x)
      PROVE  /\ e = [kind |-> e.kind, el |-> e.el, attrs |-> e.attrs, text |-> e.text]
             /\ \/ /\ e.kind \in {"open", "empty", "close"} /\ e.el \in Elements
                   /\ e.attrs \in AttrsOf(Fields(x, e.el)) /\ e.text = None
                \/ /\ e.kind = "text" /\ e.el = "" /\ e.attrs = <<>> /\ e.text \in Texts
  <2>1. CASE e \in TextEvents
    BY <2>1 DEF TextEvents
  <2>2. ASSUME NEW el \in Elements, e \in Tag(x, el)
        PROVE  /\ e = [kind |-> e.kind, el |-> e.el, attrs |-> e.attrs, text |-> e.text]
               /\ e.kind \in {"open", "empty", "close"} /\ e.el = el
               /\ e.attrs \in AttrsOf(Fields(x, el)) /\ e.text = None
    <3> DEFINE A == AttrsOf(Fields(x, el))
    <3>1. e \in [kind : {"open", "empty", "close"}, el : {el}, attrs : A, text : {None}]
      BY <2>2 DEF Tag
    <3> HIDE DEF A
    <3>2. /\ e = [kind |-> e.kind, el |-> e.el, attrs |-> e.attrs, text |-> e.text]
          /\ e.kind \in {"open", "empty", "close"} /\ e.el = el
          /\ e.attrs \in A /\ e.text = None
      BY <3>1
    <3> QED
      BY <3>2 DEF A
  <2>3. \/ e \in TextEvents
        \/ \E el \in Elements : e \in Tag(x, el)
    <3> DEFINE M == {Tag(x, el) : el \in Elements}
    <3>1. \A m \in M : \E el \in Elements : m = Tag(x, el)
      OBVIOUS
    <3>2. e \in UNION M \/ e \in TextEvents
      BY <1>1, Zenon DEF EventOf
    <3>3. e \in TextEvents \/ \E m \in M : e \in m
      BY <3>2, UnionIs, Zenon
    <3> QED
      BY <3>1, <3>3
  <2> QED
    BY <2>1, <2>2, <2>3
<1>2. ASSUME e = [kind |-> e.kind, el |-> e.el, attrs |-> e.attrs, text |-> e.text],
             e.kind \in {"open", "empty", "close"}, e.el \in Elements,
             e.attrs \in AttrsOf(Fields(x, e.el)), e.text = None
      PROVE  e \in EventOf(x)
  <2> DEFINE A == AttrsOf(Fields(x, e.el))
  <2>1. e.attrs \in A
    BY <1>2
  <2> HIDE DEF A
  <2>2. e \in [kind : {"open", "empty", "close"}, el : {e.el}, attrs : A, text : {None}]
    BY <1>2, <2>1
  <2>3. e \in Tag(x, e.el)
    BY <2>2 DEF Tag, A
  <2> QED
    <3> DEFINE M == {Tag(x, el) : el \in Elements}
    <3>1. Tag(x, e.el) \in M
      BY <1>2
    <3>2. e \in UNION M
      BY <2>3, <3>1, UnionIs, Zenon
    <3> QED
      BY <3>2, Zenon DEF EventOf
<1>3. ASSUME e = [kind |-> e.kind, el |-> e.el, attrs |-> e.attrs, text |-> e.text],
             e.kind = "text", e.el = "", e.attrs = <<>>, e.text \in Texts
      PROVE  e \in EventOf(x)
  <2>1. e \in TextEvents
    BY <1>3 DEF TextEvents
  <2> QED
    BY <2>1, Zenon DEF EventOf
<1> QED
  BY <1>1, <1>2, <1>3

LEMMA FieldsAre ==
  ASSUME NEW x
  PROVE  /\ DOMAIN Fields(x, "session") = {"created", "id", "schemaVersion"}
         /\ Fields(x, "session")["created"] = Texts
         /\ Fields(x, "session")["id"] = {ComputeId(x.base)}
         /\ Fields(x, "session")["schemaVersion"] = Nat
         /\ DOMAIN Fields(x, "surface") = {"id", "name", "order"}
         /\ Fields(x, "surface")["id"] = SurfaceIds
         /\ Fields(x, "surface")["name"] = Texts
         /\ Fields(x, "surface")["order"] = Nat
         /\ DOMAIN Fields(x, "dimensions") = {"height", "width"}
         /\ Fields(x, "dimensions")["height"] = Nat
         /\ Fields(x, "dimensions")["width"] = Nat
         /\ DOMAIN Fields(x, "strip") = {"scrollPos"}
         /\ Fields(x, "strip")["scrollPos"] = Int
         /\ DOMAIN Fields(x, "focus") = {"surfaceRef"}
         /\ Fields(x, "focus")["surfaceRef"] = SurfaceIds
         /\ DOMAIN Fields(x, "surface-coefficient") = {"surfaceRef"}
         /\ Fields(x, "surface-coefficient")["surfaceRef"] = SurfaceIds
         /\ DOMAIN Fields(x, "delay-path") = {"lo", "hi"}
         /\ Fields(x, "delay-path")["lo"] = Bound
         /\ Fields(x, "delay-path")["hi"] = Bound
         /\ DOMAIN Fields(x, "security") = {"confidentiality", "integrity"}
         /\ Fields(x, "security")["confidentiality"] = Confidentiality
         /\ Fields(x, "security")["integrity"] = Integrity
         /\ DOMAIN Fields(x, "linearity") = {"count"}
         /\ Fields(x, "linearity")["count"] = Linearity
<1>1. /\ DOMAIN Fields(x, "session") = {"created", "id", "schemaVersion"}
     /\ Fields(x, "session")["created"] = Texts
     /\ Fields(x, "session")["id"] = {ComputeId(x.base)}
     /\ Fields(x, "session")["schemaVersion"] = Nat
  <2>1. Fields(x, "session") = [created |-> Texts, id |-> {ComputeId(x.base)}, schemaVersion |-> Nat]
    BY DEF Fields
  <2> QED
    BY <2>1
<1>2. /\ DOMAIN Fields(x, "surface") = {"id", "name", "order"}
     /\ Fields(x, "surface")["id"] = SurfaceIds
     /\ Fields(x, "surface")["name"] = Texts
     /\ Fields(x, "surface")["order"] = Nat
  <2>1. Fields(x, "surface") = [id |-> SurfaceIds, name |-> Texts, order |-> Nat]
    BY DEF Fields
  <2> QED
    BY <2>1
<1>3. /\ DOMAIN Fields(x, "dimensions") = {"height", "width"}
     /\ Fields(x, "dimensions")["height"] = Nat
     /\ Fields(x, "dimensions")["width"] = Nat
  <2>1. Fields(x, "dimensions") = [height |-> Nat, width |-> Nat]
    BY DEF Fields
  <2> QED
    BY <2>1
<1>4. /\ DOMAIN Fields(x, "strip") = {"scrollPos"}
     /\ Fields(x, "strip")["scrollPos"] = Int
  <2>1. Fields(x, "strip") = [scrollPos |-> Int]
    BY DEF Fields
  <2> QED
    BY <2>1
<1>5. /\ DOMAIN Fields(x, "focus") = {"surfaceRef"}
     /\ Fields(x, "focus")["surfaceRef"] = SurfaceIds
  <2>1. Fields(x, "focus") = [surfaceRef |-> SurfaceIds]
    BY DEF Fields
  <2> QED
    BY <2>1
<1>6. /\ DOMAIN Fields(x, "surface-coefficient") = {"surfaceRef"}
     /\ Fields(x, "surface-coefficient")["surfaceRef"] = SurfaceIds
  <2>1. Fields(x, "surface-coefficient") = [surfaceRef |-> SurfaceIds]
    BY DEF Fields
  <2> QED
    BY <2>1
<1>7. /\ DOMAIN Fields(x, "delay-path") = {"lo", "hi"}
     /\ Fields(x, "delay-path")["lo"] = Bound
     /\ Fields(x, "delay-path")["hi"] = Bound
  <2>1. Fields(x, "delay-path") = [lo |-> Bound, hi |-> Bound]
    BY DEF Fields
  <2> QED
    BY <2>1
<1>8. /\ DOMAIN Fields(x, "security") = {"confidentiality", "integrity"}
     /\ Fields(x, "security")["confidentiality"] = Confidentiality
     /\ Fields(x, "security")["integrity"] = Integrity
  <2>1. Fields(x, "security") = [confidentiality |-> Confidentiality, integrity |-> Integrity]
    BY DEF Fields
  <2> QED
    BY <2>1
<1>9. /\ DOMAIN Fields(x, "linearity") = {"count"}
     /\ Fields(x, "linearity")["count"] = Linearity
  <2>1. Fields(x, "linearity") = [count |-> Linearity]
    BY DEF Fields
  <2> QED
    BY <2>1
<1> QED
  BY <1>1, <1>2, <1>3, <1>4, <1>5, <1>6, <1>7, <1>8, <1>9

LEMMA PlainEvents ==
  ASSUME NEW x, NEW el \in Elements, NEW t \in Texts, NEW attrs \in AttrsOf(Fields(x, el))
  PROVE  /\ Open(el, <<>>) \in EventOf(x)
         /\ Open(el, attrs) \in EventOf(x)
         /\ Empty(el, attrs) \in EventOf(x)
         /\ Close(el) \in EventOf(x)
         /\ TextEvent(t) \in EventOf(x)
<1>1. <<>> \in AttrsOf(Fields(x, el))
  <2>1. DOMAIN <<>> = {} /\ <<>> = [a \in DOMAIN <<>> |-> <<>>[a]]
    OBVIOUS
  <2> QED
    BY <2>1, AttrsAre
<1>2. ASSUME NEW f \in AttrsOf(Fields(x, el)), NEW k \in {"open", "empty", "close"}
      PROVE  [kind |-> k, el |-> el, attrs |-> f, text |-> None] \in EventOf(x)
  BY EventsAre
<1>3. TextEvent(t) \in EventOf(x)
  BY EventsAre DEF TextEvent
<1> QED
  BY <1>1, <1>2, <1>3 DEF Open, Empty, Close

LEMMA WrittenAttributes ==
  ASSUME NEW x, NEW f
  PROVE  /\ f \in [created : Texts, id : {ComputeId(x.base)}, schemaVersion : Nat]
              => f \in AttrsOf(Fields(x, "session"))
         /\ f \in [id : SurfaceIds, name : Texts, order : Nat]
              => f \in AttrsOf(Fields(x, "surface"))
         /\ f \in [height : Nat, width : Nat]
              => f \in AttrsOf(Fields(x, "dimensions"))
         /\ f \in [scrollPos : Int]
              => f \in AttrsOf(Fields(x, "strip"))
         /\ f \in [surfaceRef : SurfaceIds]
              => f \in AttrsOf(Fields(x, "focus"))
         /\ f \in [surfaceRef : SurfaceIds]
              => f \in AttrsOf(Fields(x, "surface-coefficient"))
         /\ f \in [lo : Bound, hi : Bound]
              => f \in AttrsOf(Fields(x, "delay-path"))
         /\ f \in [confidentiality : Confidentiality, integrity : Integrity]
              => f \in AttrsOf(Fields(x, "security"))
         /\ f \in [count : Linearity]
              => f \in AttrsOf(Fields(x, "linearity"))
<1>1. ASSUME f \in [created : Texts, id : {ComputeId(x.base)}, schemaVersion : Nat]
      PROVE  f \in AttrsOf(Fields(x, "session"))
  <2> DEFINE F == Fields(x, "session")
  <2>1. /\ DOMAIN f = {"created", "id", "schemaVersion"} /\ f = [a \in DOMAIN f |-> f[a]]
        /\ f["created"] \in Texts
        /\ f["id"] \in {ComputeId(x.base)}
        /\ f["schemaVersion"] \in Nat
    BY <1>1
  <2>2. /\ DOMAIN F = {"created", "id", "schemaVersion"}
        /\ F["created"] = Texts
        /\ F["id"] = {ComputeId(x.base)}
        /\ F["schemaVersion"] = Nat
    BY FieldsAre
  <2> HIDE DEF F
  <2> QED
    BY <2>1, <2>2, AttrsAre DEF F
<1>2. ASSUME f \in [id : SurfaceIds, name : Texts, order : Nat]
      PROVE  f \in AttrsOf(Fields(x, "surface"))
  <2> DEFINE F == Fields(x, "surface")
  <2>1. /\ DOMAIN f = {"id", "name", "order"} /\ f = [a \in DOMAIN f |-> f[a]]
        /\ f["id"] \in SurfaceIds
        /\ f["name"] \in Texts
        /\ f["order"] \in Nat
    BY <1>2
  <2>2. /\ DOMAIN F = {"id", "name", "order"}
        /\ F["id"] = SurfaceIds
        /\ F["name"] = Texts
        /\ F["order"] = Nat
    BY FieldsAre
  <2> HIDE DEF F
  <2> QED
    BY <2>1, <2>2, AttrsAre DEF F
<1>3. ASSUME f \in [height : Nat, width : Nat]
      PROVE  f \in AttrsOf(Fields(x, "dimensions"))
  <2> DEFINE F == Fields(x, "dimensions")
  <2>1. /\ DOMAIN f = {"height", "width"} /\ f = [a \in DOMAIN f |-> f[a]]
        /\ f["height"] \in Nat
        /\ f["width"] \in Nat
    BY <1>3
  <2>2. /\ DOMAIN F = {"height", "width"}
        /\ F["height"] = Nat
        /\ F["width"] = Nat
    BY FieldsAre
  <2> HIDE DEF F
  <2> QED
    BY <2>1, <2>2, AttrsAre DEF F
<1>4. ASSUME f \in [scrollPos : Int]
      PROVE  f \in AttrsOf(Fields(x, "strip"))
  <2> DEFINE F == Fields(x, "strip")
  <2>1. /\ DOMAIN f = {"scrollPos"} /\ f = [a \in DOMAIN f |-> f[a]]
        /\ f["scrollPos"] \in Int
    BY <1>4
  <2>2. /\ DOMAIN F = {"scrollPos"}
        /\ F["scrollPos"] = Int
    BY FieldsAre
  <2> HIDE DEF F
  <2> QED
    BY <2>1, <2>2, AttrsAre DEF F
<1>5. ASSUME f \in [surfaceRef : SurfaceIds]
      PROVE  f \in AttrsOf(Fields(x, "focus"))
  <2> DEFINE F == Fields(x, "focus")
  <2>1. /\ DOMAIN f = {"surfaceRef"} /\ f = [a \in DOMAIN f |-> f[a]]
        /\ f["surfaceRef"] \in SurfaceIds
    BY <1>5
  <2>2. /\ DOMAIN F = {"surfaceRef"}
        /\ F["surfaceRef"] = SurfaceIds
    BY FieldsAre
  <2> HIDE DEF F
  <2> QED
    BY <2>1, <2>2, AttrsAre DEF F
<1>6. ASSUME f \in [surfaceRef : SurfaceIds]
      PROVE  f \in AttrsOf(Fields(x, "surface-coefficient"))
  <2> DEFINE F == Fields(x, "surface-coefficient")
  <2>1. /\ DOMAIN f = {"surfaceRef"} /\ f = [a \in DOMAIN f |-> f[a]]
        /\ f["surfaceRef"] \in SurfaceIds
    BY <1>6
  <2>2. /\ DOMAIN F = {"surfaceRef"}
        /\ F["surfaceRef"] = SurfaceIds
    BY FieldsAre
  <2> HIDE DEF F
  <2> QED
    BY <2>1, <2>2, AttrsAre DEF F
<1>7. ASSUME f \in [lo : Bound, hi : Bound]
      PROVE  f \in AttrsOf(Fields(x, "delay-path"))
  <2> DEFINE F == Fields(x, "delay-path")
  <2>1. /\ DOMAIN f = {"lo", "hi"} /\ f = [a \in DOMAIN f |-> f[a]]
        /\ f["lo"] \in Bound
        /\ f["hi"] \in Bound
    BY <1>7
  <2>2. /\ DOMAIN F = {"lo", "hi"}
        /\ F["lo"] = Bound
        /\ F["hi"] = Bound
    BY FieldsAre
  <2> HIDE DEF F
  <2> QED
    BY <2>1, <2>2, AttrsAre DEF F
<1>8. ASSUME f \in [confidentiality : Confidentiality, integrity : Integrity]
      PROVE  f \in AttrsOf(Fields(x, "security"))
  <2> DEFINE F == Fields(x, "security")
  <2>1. /\ DOMAIN f = {"confidentiality", "integrity"} /\ f = [a \in DOMAIN f |-> f[a]]
        /\ f["confidentiality"] \in Confidentiality
        /\ f["integrity"] \in Integrity
    BY <1>8
  <2>2. /\ DOMAIN F = {"confidentiality", "integrity"}
        /\ F["confidentiality"] = Confidentiality
        /\ F["integrity"] = Integrity
    BY FieldsAre
  <2> HIDE DEF F
  <2> QED
    BY <2>1, <2>2, AttrsAre DEF F
<1>9. ASSUME f \in [count : Linearity]
      PROVE  f \in AttrsOf(Fields(x, "linearity"))
  <2> DEFINE F == Fields(x, "linearity")
  <2>1. /\ DOMAIN f = {"count"} /\ f = [a \in DOMAIN f |-> f[a]]
        /\ f["count"] \in Linearity
    BY <1>9
  <2>2. /\ DOMAIN F = {"count"}
        /\ F["count"] = Linearity
    BY FieldsAre
  <2> HIDE DEF F
  <2> QED
    BY <2>1, <2>2, AttrsAre DEF F
<1> QED
  BY <1>1, <1>2, <1>3, <1>4, <1>5, <1>6, <1>7, <1>8, <1>9

(***************************************************************************)
(* What the writers make, event by event.                                  *)
(***************************************************************************)
LEMMA OneEvent ==
  ASSUME NEW S, NEW e \in S
  PROVE  <<e>> \in Seq(S) /\ Len(<<e>>) = 1 /\ <<e>>[1] = e
OBVIOUS

ElementOf(S, w, el, attrs, d) ==
  /\ w \in Seq(S) /\ Len(w) = Len(d) + 2
  /\ w[1] = Open(el, attrs) /\ w[Len(d) + 2] = Close(el)
  /\ \A i \in 1 .. Len(d) : w[1 + i] = d[i]

LEMMA ElementIs ==
  ASSUME NEW S, NEW el, NEW attrs, Open(el, attrs) \in S, Close(el) \in S, NEW d \in Seq(S)
  PROVE  ElementOf(S, Element(el, attrs, d), el, attrs, d)
<1> DEFINE a == <<Open(el, attrs)>>
           c == <<Close(el)>>
           w == a \o d \o c
<1>1. /\ a \in Seq(S) /\ Len(a) = 1 /\ a[1] = Open(el, attrs)
      /\ c \in Seq(S) /\ Len(c) = 1 /\ c[1] = Close(el)
  BY OneEvent, Zenon
<1> HIDE DEF a, c
<1>2. /\ a \o d \in Seq(S) /\ Len(a \o d) = Len(a) + Len(d)
      /\ Len(a) \in Nat /\ Len(d) \in Nat
      /\ \A i \in 1 .. Len(a) : (a \o d)[i] = a[i]
      /\ \A i \in 1 .. Len(d) : (a \o d)[Len(a) + i] = d[i]
  <2>1. a \in Seq(S) /\ d \in Seq(S)
    BY <1>1
  <2> QED
    BY ONLY <2>1, JoinFacts
<1> DEFINE b == a \o d
<1>3. b \in Seq(S)
  BY <1>2
<1> HIDE DEF b
<1>4. /\ b \o c \in Seq(S) /\ Len(b \o c) = Len(b) + Len(c)
      /\ \A i \in 1 .. Len(b) : (b \o c)[i] = b[i]
      /\ \A i \in 1 .. Len(c) : (b \o c)[Len(b) + i] = c[i]
  <2>1. b \in Seq(S) /\ c \in Seq(S)
    BY <1>1, <1>3
  <2> QED
    BY ONLY <2>1, JoinFacts
<1>5. Len(b) = 1 + Len(d) /\ b[1] = a[1] /\ \A i \in 1 .. Len(d) : b[1 + i] = d[i]
  BY <1>1, <1>2 DEF b
<1>6. w = b \o c
  BY DEF b
<1>7. \A i \in 1 .. Len(d) : (b \o c)[1 + i] = d[i]
  BY <1>2, <1>4, <1>5
<1>8. (b \o c)[1] = a[1] /\ (b \o c)[Len(d) + 2] = c[1]
  <2>1. 1 \in 1 .. Len(b) /\ 1 \in 1 .. Len(c) /\ Len(d) + 2 = Len(b) + 1
    BY <1>1, <1>2, <1>5
  <2> QED
    BY <1>4, <1>5, <2>1
<1>9. Element(el, attrs, d) = b \o c
  BY <1>6 DEF Element, a, c
<1>10. ElementOf(S, b \o c, el, attrs, d)
  BY <1>1, <1>2, <1>4, <1>5, <1>7, <1>8 DEF ElementOf
<1> QED
  BY <1>9, <1>10

LEMMA TextElementIs ==
  ASSUME NEW x, NEW s \in SurfaceEntry, NEW el \in TextElements
  PROVE  LET w == TextElement(s, el)
         IN  /\ w \in Seq(EventOf(x)) /\ Len(w) = 3
             /\ w[1] = Open(el, <<>>) /\ w[2] = TextEvent(s.text[el]) /\ w[3] = Close(el)
<1> DEFINE t == TextEvent(s.text[el])
           w == TextElement(s, el)
<1>1. s.text[el] \in Texts
  BY DEF SurfaceEntry, SurfaceText
<1>2. el \in Elements
  BY DEF Elements
<1>3. <<>> \in AttrsOf(Fields(x, el))
  <2>1. DOMAIN <<>> = {} /\ <<>> = [a \in DOMAIN <<>> |-> <<>>[a]]
    OBVIOUS
  <2> QED
    BY <2>1, AttrsAre
<1>4. Open(el, <<>>) \in EventOf(x) /\ Close(el) \in EventOf(x) /\ t \in EventOf(x)
  BY <1>1, <1>2, <1>3, PlainEvents
<1>5. <<t>> \in Seq(EventOf(x)) /\ Len(<<t>>) = 1 /\ <<t>>[1] = t
  BY <1>4, OneEvent, Zenon
<1> HIDE DEF t
<1>6. ElementOf(EventOf(x), Element(el, <<>>, <<t>>), el, <<>>, <<t>>)
  BY <1>4, <1>5, ElementIs, Zenon
<1>7. w = Element(el, <<>>, <<t>>)
  BY DEF TextElement, t
<1> HIDE DEF w
<1>8. ElementOf(EventOf(x), w, el, <<>>, <<t>>)
  BY <1>6, <1>7
<1>9. 1 \in 1 .. Len(<<t>>) /\ 1 + 1 = 2 /\ Len(<<t>>) + 2 = 3
  BY <1>5
<1>10. /\ w \in Seq(EventOf(x)) /\ Len(w) = 3
       /\ w[1] = Open(el, <<>>) /\ w[2] = t /\ w[3] = Close(el)
  BY <1>5, <1>8, <1>9 DEF ElementOf
<1> QED
  BY <1>10 DEF w, t

\* where the text elements of a surface are among its events
TextStart == [address |-> 3, os |-> 6, machine |-> 9, capture |-> 12, codec |-> 16]

TextAt(w, s, el) ==
  LET k == TextStart[el]
  IN  w[k] = Open(el, <<>>) /\ w[k + 1] = TextEvent(s.text[el]) /\ w[k + 2] = Close(el)

SurfaceAttrs(s) == [id |-> s.id, name |-> s.name, order |-> s.order]
SizeAttrs(s) == [height |-> s.height, width |-> s.width]

SurfaceTable(w, s) ==
  /\ w[1] = Open("surface", SurfaceAttrs(s))
  /\ w[2] = Open("host", <<>>)
  /\ \A el \in TextElements : TextAt(w, s, el)
  /\ w[15] = Close("host")
  /\ w[19] = Empty("dimensions", SizeAttrs(s))
  /\ w[20] = Close("surface")

Long(S, a, n) == a \in Seq(S) /\ Len(a) = n

\* w is a, of length n, and then the three of b
Extended(S, w, a, n, b) ==
  /\ w \in Seq(S) /\ Len(w) = n + 3
  /\ \A i \in 1 .. n : w[i] = a[i]
  /\ w[n + 1] = b[1] /\ w[n + 2] = b[2] /\ w[n + 3] = b[3]

LEMMA JoinThree ==
  ASSUME NEW S, NEW a, NEW b, NEW n \in Nat, Long(S, a, n), Long(S, b, 3)
  PROVE  Extended(S, a \o b, a, n, b)
<1> DEFINE w == a \o b
<1>0. a \in Seq(S) /\ b \in Seq(S) /\ Len(a) = n /\ Len(b) = 3
  BY DEF Long
<1>1. /\ w \in Seq(S) /\ Len(w) = Len(a) + Len(b)
      /\ \A i \in 1 .. Len(a) : w[i] = a[i]
      /\ \A i \in 1 .. Len(b) : w[Len(a) + i] = b[i]
  <2>1. a \in Seq(S) /\ b \in Seq(S)
    BY <1>0
  <2> QED
    BY ONLY <2>1, JoinFacts
<1>2. 1 \in 1 .. 3 /\ 2 \in 1 .. 3 /\ 3 \in 1 .. 3
  OBVIOUS
<1> HIDE DEF w
<1>3. Extended(S, w, a, n, b)
  BY <1>0, <1>1, <1>2 DEF Extended
<1> QED
  BY <1>3 DEF w

LEMMA HostPlain ==
  ASSUME NEW x
  PROVE  Open("host", <<>>) \in EventOf(x) /\ Close("host") \in EventOf(x)
<1>1. "host" \in Elements
  BY DEF Elements
<1>2. <<>> \in AttrsOf(Fields(x, "host"))
  <2>1. DOMAIN <<>> = {} /\ <<>> = [a \in DOMAIN <<>> |-> <<>>[a]]
    OBVIOUS
  <2> QED
    BY <2>1, AttrsAre
<1>3. PICK t : t \in Texts
  BY ParserAssumption
<1> QED
  BY <1>1, <1>2, <1>3, PlainEvents

LEMMA HostElementIs ==
  ASSUME NEW x, NEW s \in SurfaceEntry
  PROVE  LET w == Element("host", <<>>,
                     TextElement(s, "address") \o TextElement(s, "os")
                  \o TextElement(s, "machine") \o TextElement(s, "capture"))
         IN  /\ w \in Seq(EventOf(x)) /\ Len(w) = 14
             /\ w[1] = Open("host", <<>>) /\ w[14] = Close("host")
             /\ \A el \in HostElements :
                  LET k == TextStart[el] - 1
                  IN  w[k] = Open(el, <<>>) /\ w[k + 1] = TextEvent(s.text[el])
                      /\ w[k + 2] = Close(el)
<1> DEFINE S == EventOf(x)
           a == TextElement(s, "address")
           o == TextElement(s, "os")
           m == TextElement(s, "machine")
           c == TextElement(s, "capture")
           d == a \o o \o m \o c
           w == Element("host", <<>>, d)
<1>1. /\ a \in Seq(S) /\ Len(a) = 3
      /\ a[1] = Open("address", <<>>) /\ a[2] = TextEvent(s.text["address"])
      /\ a[3] = Close("address")
  <2>1. "address" \in TextElements
    BY DEF TextElements, HostElements
  <2> QED
    BY <2>1, TextElementIs, Zenon
<1>2. /\ o \in Seq(S) /\ Len(o) = 3
      /\ o[1] = Open("os", <<>>) /\ o[2] = TextEvent(s.text["os"]) /\ o[3] = Close("os")
  <2>1. "os" \in TextElements
    BY DEF TextElements, HostElements
  <2> QED
    BY <2>1, TextElementIs, Zenon
<1>3. /\ m \in Seq(S) /\ Len(m) = 3
      /\ m[1] = Open("machine", <<>>) /\ m[2] = TextEvent(s.text["machine"])
      /\ m[3] = Close("machine")
  <2>1. "machine" \in TextElements
    BY DEF TextElements, HostElements
  <2> QED
    BY <2>1, TextElementIs, Zenon
<1>4. /\ c \in Seq(S) /\ Len(c) = 3
      /\ c[1] = Open("capture", <<>>) /\ c[2] = TextEvent(s.text["capture"])
      /\ c[3] = Close("capture")
  <2>1. "capture" \in TextElements
    BY DEF TextElements, HostElements
  <2> QED
    BY <2>1, TextElementIs, Zenon
<1>5. Open("host", <<>>) \in S /\ Close("host") \in S
  BY HostPlain
<1> HIDE DEF a, o, m, c, S
<1> DEFINE p == a \o o
           q == p \o m
<1>6. Long(S, a, 3) /\ Long(S, o, 3) /\ Long(S, m, 3) /\ Long(S, c, 3)
      /\ 3 \in Nat /\ 6 \in Nat /\ 9 \in Nat
  BY <1>1, <1>2, <1>3, <1>4 DEF Long
<1>7. Extended(S, p, a, 3, o)
  BY <1>6, JoinThree, Zenon
<1> HIDE DEF p
<1>8. Long(S, p, 6)
  BY <1>7 DEF Extended, Long
<1>9. Extended(S, q, p, 6, m)
  BY <1>6, <1>8, JoinThree, Zenon
<1> HIDE DEF q
<1>10. Long(S, q, 9)
  BY <1>9 DEF Extended, Long
<1>11. d = q \o c
  BY DEF p, q
<1>12. Extended(S, d, q, 9, c)
  BY <1>6, <1>10, <1>11, JoinThree, Zenon
<1> HIDE DEF d
<1>13. /\ p[1] = a[1] /\ p[2] = a[2] /\ p[3] = a[3]
       /\ p[4] = o[1] /\ p[5] = o[2] /\ p[6] = o[3]
  BY <1>7 DEF Extended
<1>14. /\ d \in Seq(S) /\ Len(d) = 12
       /\ d[1] = a[1] /\ d[2] = a[2] /\ d[3] = a[3]
       /\ d[4] = o[1] /\ d[5] = o[2] /\ d[6] = o[3]
       /\ d[7] = m[1] /\ d[8] = m[2] /\ d[9] = m[3]
       /\ d[10] = c[1] /\ d[11] = c[2] /\ d[12] = c[3]
  BY <1>9, <1>12, <1>13 DEF Extended
<1>15. ElementOf(S, w, "host", <<>>, d)
  BY <1>5, <1>14, ElementIs, Zenon
<1> HIDE DEF w
<1>16. /\ w \in Seq(S) /\ Len(w) = 14 /\ w[1] = Open("host", <<>>) /\ w[14] = Close("host")
       /\ \A i \in 1 .. 12 : w[1 + i] = d[i]
  BY <1>14, <1>15 DEF ElementOf
<1>17. /\ w[2] = d[1] /\ w[3] = d[2] /\ w[4] = d[3] /\ w[5] = d[4] /\ w[6] = d[5]
       /\ w[7] = d[6] /\ w[8] = d[7] /\ w[9] = d[8] /\ w[10] = d[9] /\ w[11] = d[10]
       /\ w[12] = d[11] /\ w[13] = d[12]
  BY <1>16
<1>18. ASSUME NEW el \in HostElements
       PROVE  /\ w[TextStart[el] - 1] = Open(el, <<>>)
              /\ w[(TextStart[el] - 1) + 1] = TextEvent(s.text[el])
              /\ w[(TextStart[el] - 1) + 2] = Close(el)
  <2>1. CASE el = "address"
    <3>1. TextStart[el] - 1 = 2 /\ 2 + 1 = 3 /\ 2 + 2 = 4
      BY <2>1 DEF TextStart
    <3> QED
      BY <1>1, <1>14, <1>17, <2>1, <3>1
  <2>2. CASE el = "os"
    <3>1. TextStart[el] - 1 = 5 /\ 5 + 1 = 6 /\ 5 + 2 = 7
      BY <2>2 DEF TextStart
    <3> QED
      BY <1>2, <1>14, <1>17, <2>2, <3>1
  <2>3. CASE el = "machine"
    <3>1. TextStart[el] - 1 = 8 /\ 8 + 1 = 9 /\ 8 + 2 = 10
      BY <2>3 DEF TextStart
    <3> QED
      BY <1>3, <1>14, <1>17, <2>3, <3>1
  <2>4. CASE el = "capture"
    <3>1. TextStart[el] - 1 = 11 /\ 11 + 1 = 12 /\ 11 + 2 = 13
      BY <2>4 DEF TextStart
    <3> QED
      BY <1>4, <1>14, <1>17, <2>4, <3>1
  <2> QED
    BY <2>1, <2>2, <2>3, <2>4 DEF HostElements
<1> QED
  BY <1>16, <1>18 DEF w, d, S, a, o, m, c

LEMMA SurfaceAttrsFit ==
  ASSUME NEW x, NEW s \in SurfaceEntry
  PROVE  /\ SurfaceAttrs(s) \in AttrsOf(Fields(x, "surface"))
         /\ SizeAttrs(s) \in AttrsOf(Fields(x, "dimensions"))
         /\ "surface" \in Elements /\ "dimensions" \in Elements /\ "codec" \in TextElements
<1>1. SurfaceAttrs(s) \in [id : SurfaceIds, name : Texts, order : Nat]
  BY DEF SurfaceAttrs, SurfaceEntry
<1>2. SizeAttrs(s) \in [height : Nat, width : Nat]
  BY DEF SizeAttrs, SurfaceEntry
<1>3. "surface" \in Elements /\ "dimensions" \in Elements /\ "codec" \in TextElements
  BY DEF Elements, TextElements
<1> QED
  BY <1>1, <1>2, <1>3, WrittenAttributes

LEMMA SurfaceIs ==
  ASSUME NEW x, NEW s \in SurfaceEntry
  PROVE  /\ WriteSurface(s) \in Seq(EventOf(x)) /\ Len(WriteSurface(s)) = 20
         /\ SurfaceTable(WriteSurface(s), s)
<1> DEFINE S == EventOf(x)
           h == Element("host", <<>>,
                     TextElement(s, "address") \o TextElement(s, "os")
                  \o TextElement(s, "machine") \o TextElement(s, "capture"))
           c == TextElement(s, "codec")
           e == <<Empty("dimensions", SizeAttrs(s))>>
           p == h \o c
           d == p \o e
           w == Element("surface", SurfaceAttrs(s), d)
<1>1. /\ h \in Seq(S) /\ Len(h) = 14
      /\ h[1] = Open("host", <<>>) /\ h[14] = Close("host")
      /\ \A el \in HostElements :
           /\ h[TextStart[el] - 1] = Open(el, <<>>)
           /\ h[(TextStart[el] - 1) + 1] = TextEvent(s.text[el])
           /\ h[(TextStart[el] - 1) + 2] = Close(el)
  BY HostElementIs, Zenon
<1>2. /\ c \in Seq(S) /\ Len(c) = 3
      /\ c[1] = Open("codec", <<>>) /\ c[2] = TextEvent(s.text["codec"])
      /\ c[3] = Close("codec")
  BY SurfaceAttrsFit, TextElementIs, Zenon
<1>3. PICK t : t \in Texts
  BY ParserAssumption
<1>4. /\ Open("surface", SurfaceAttrs(s)) \in S /\ Close("surface") \in S
      /\ Empty("dimensions", SizeAttrs(s)) \in S
  BY <1>3, SurfaceAttrsFit, PlainEvents
<1>5. e \in Seq(S) /\ Len(e) = 1 /\ e[1] = Empty("dimensions", SizeAttrs(s))
  BY <1>4, OneEvent, Zenon
<1>6. WriteSurface(s) = w
  BY DEF WriteSurface, SurfaceAttrs, SizeAttrs
<1> HIDE DEF S, h, c, e
<1>7. Long(S, h, 14) /\ Long(S, c, 3) /\ 14 \in Nat
  BY <1>1, <1>2 DEF Long
<1>8. Extended(S, p, h, 14, c)
  BY <1>7, JoinThree, Zenon
<1> HIDE DEF p
<1>9. p \in Seq(S) /\ Len(p) = 17
  BY <1>8 DEF Extended
<1>10. /\ d \in Seq(S) /\ Len(d) = Len(p) + Len(e)
       /\ \A i \in 1 .. Len(p) : d[i] = p[i]
       /\ \A i \in 1 .. Len(e) : d[Len(p) + i] = e[i]
  <2>1. p \in Seq(S) /\ e \in Seq(S)
    BY <1>5, <1>9
  <2> QED
    BY ONLY <2>1, JoinFacts
<1> HIDE DEF d
<1>11. ElementOf(S, w, "surface", SurfaceAttrs(s), d)
  BY <1>4, <1>10, ElementIs, Zenon
<1> HIDE DEF w
<1>12. /\ Len(d) = 18 /\ d[18] = Empty("dimensions", SizeAttrs(s))
       /\ \A i \in 1 .. 14 : d[i] = h[i]
       /\ d[15] = c[1] /\ d[16] = c[2] /\ d[17] = c[3]
  <2>1. Len(p) = 17 /\ Len(e) = 1 /\ 17 + 1 = 18 /\ 1 \in 1 .. 1
    BY <1>5, <1>9
  <2>2. \A i \in 1 .. 17 : d[i] = p[i]
    BY <1>10, <2>1
  <2>3. p[15] = c[1] /\ p[16] = c[2] /\ p[17] = c[3] /\ \A i \in 1 .. 14 : p[i] = h[i]
    BY <1>8 DEF Extended
  <2>4. d[18] = Empty("dimensions", SizeAttrs(s)) /\ Len(d) = 18
    BY <1>5, <1>10, <2>1
  <2> QED
    BY <2>2, <2>3, <2>4
<1>13. /\ w \in Seq(S) /\ Len(w) = 20
       /\ w[1] = Open("surface", SurfaceAttrs(s)) /\ w[20] = Close("surface")
       /\ \A i \in 1 .. 14 : w[1 + i] = h[i]
       /\ w[16] = c[1] /\ w[17] = c[2] /\ w[18] = c[3]
       /\ w[19] = Empty("dimensions", SizeAttrs(s))
  <2>1. \A i \in 1 .. 18 : w[1 + i] = d[i]
    BY <1>11, <1>12 DEF ElementOf
  <2>2. 15 \in 1 .. 18 /\ 16 \in 1 .. 18 /\ 17 \in 1 .. 18 /\ 18 \in 1 .. 18
        /\ 1 + 15 = 16 /\ 1 + 16 = 17 /\ 1 + 17 = 18 /\ 1 + 18 = 19
    OBVIOUS
  <2>3. w[16] = c[1] /\ w[17] = c[2] /\ w[18] = c[3]
        /\ w[19] = Empty("dimensions", SizeAttrs(s))
    BY <1>12, <2>1, <2>2
  <2>4. \A i \in 1 .. 14 : w[1 + i] = h[i]
    BY <1>12, <2>1
  <2> QED
    BY <1>11, <1>12, <2>3, <2>4 DEF ElementOf
<1>14. ASSUME NEW el \in TextElements PROVE TextAt(w, s, el)
  <2>1. CASE el = "codec"
    <3>1. TextStart[el] = 16
      BY <2>1 DEF TextStart
    <3> QED
      BY <1>2, <1>13, <2>1, <3>1 DEF TextAt
  <2>2. CASE el \in HostElements
    <3> DEFINE k == TextStart[el]
    <3>1. k \in 3 .. 12
      BY <2>2 DEF HostElements, TextStart
    <3> HIDE DEF k
    <3>2. /\ h[k - 1] = Open(el, <<>>) /\ h[(k - 1) + 1] = TextEvent(s.text[el])
          /\ h[(k - 1) + 2] = Close(el)
      BY <1>1, <2>2 DEF k
    <3>3. ASSUME NEW j \in 1 .. 14, NEW i, i = 1 + j PROVE w[i] = h[j]
      BY <1>13, <3>3
    <3>4. w[k] = h[k - 1] /\ w[k + 1] = h[(k - 1) + 1] /\ w[k + 2] = h[(k - 1) + 2]
      <4>1. w[k] = h[k - 1]
        BY <3>1, <3>3
      <4>2. w[k + 1] = h[(k - 1) + 1]
        BY <3>1, <3>3
      <4>3. w[k + 2] = h[(k - 1) + 2]
        BY <3>1, <3>3
      <4> QED
        BY <4>1, <4>2, <4>3
    <3> QED
      BY <3>2, <3>4 DEF TextAt, k
  <2> QED
    BY <2>1, <2>2 DEF TextElements
<1>15. w[2] = Open("host", <<>>) /\ w[15] = Close("host")
  <2>1. 1 \in 1 .. 14 /\ 14 \in 1 .. 14 /\ 1 + 1 = 2 /\ 1 + 14 = 15
    OBVIOUS
  <2> QED
    BY <1>1, <1>13, <2>1
<1>16. SurfaceTable(w, s)
  BY <1>13, <1>14, <1>15 DEF SurfaceTable
<1> QED
  BY <1>6, <1>13, <1>16 DEF S

Pieces(s) == [i \in DOMAIN s |-> WriteSurface(s[i])]

LEMMA SurfacesOf ==
  ASSUME NEW s \in Seq(SurfaceEntry)
  PROVE  /\ Len(s) \in Nat /\ DOMAIN s = 1 .. Len(s)
         /\ \A i \in 1 .. Len(s) : s[i] \in SurfaceEntry
BY LenProperties, ElementOfSeq

LEMMA PiecesAre ==
  ASSUME NEW x, NEW s \in Seq(SurfaceEntry)
  PROVE  /\ Pieces(s) \in Seq(Seq(EventOf(x))) /\ Len(Pieces(s)) = Len(s)
         /\ \A i \in 1 .. Len(s) : Pieces(s)[i] = WriteSurface(s[i]) /\ Len(Pieces(s)[i]) = 20
<1> DEFINE T == Seq(EventOf(x))
<1>1. /\ Len(s) \in Nat /\ DOMAIN s = 1 .. Len(s)
      /\ \A i \in 1 .. Len(s) : WriteSurface(s[i]) \in T /\ Len(WriteSurface(s[i])) = 20
  BY SurfacesOf, SurfaceIs
<1> HIDE DEF T
<1>2. Pieces(s) = [i \in 1 .. Len(s) |-> WriteSurface(s[i])]
  BY <1>1 DEF Pieces
<1>3. /\ Pieces(s) \in Seq(T) /\ Len(Pieces(s)) = Len(s)
      /\ \A i \in 1 .. Len(s) : Pieces(s)[i] = WriteSurface(s[i])
  BY <1>1, <1>2
<1> QED
  BY <1>1, <1>3 DEF T

LEMMA FlatSurfaces ==
  ASSUME NEW x, NEW s \in Seq(SurfaceEntry)
  PROVE  LET f == FlattenSeq(Pieces(s))
         IN  /\ f \in Seq(EventOf(x)) /\ Len(f) = 20 * Len(s)
             /\ \A i \in 1 .. Len(s) : \A k \in 1 .. 20 :
                  f[20 * (i - 1) + k] = WriteSurface(s[i])[k]
             /\ \A p \in 1 .. Len(f) : \E i \in 1 .. Len(s) : \E k \in 1 .. 20 :
                  p = 20 * (i - 1) + k
<1> DEFINE S == EventOf(x)
           f == FlattenSeq(Pieces(s))
           n == Len(s)
           ss == Pieces(s)
<1>1. /\ ss \in Seq(Seq(S)) /\ Len(ss) = n /\ n \in Nat
      /\ \A i \in 1 .. n : ss[i] = WriteSurface(s[i]) /\ Len(ss[i]) = 20
  BY PiecesAre, SurfacesOf
<1> HIDE DEF S, n, ss
<1>2. PICK at : LaidOut(S, FlattenSeq(ss), ss, Len(ss), at)
  BY <1>1, FlattenLaidOut, Zenon
<1>3. f = FlattenSeq(ss)
  BY DEF ss
<1> HIDE DEF f
<1>4. LaidOut(S, f, ss, n, at)
  BY <1>1, <1>2, <1>3
<1>5. ASSUME NEW j \in 0 .. n PROVE at[j] = 20 * j
  <2> DEFINE U == {i \in 1 .. n : at[i] = 20 * i}
  <2>1. ASSUME n # 0 PROVE 1 .. n \subseteq U
    <3>1. 1 \in U
      <4>1. 1 \in 1 .. n /\ 1 - 1 = 0
        BY <1>1, <2>1
      <4>2. at[1] = at[1 - 1] + Len(ss[1]) /\ at[0] = 0
        BY <1>4, <4>1 DEF LaidOut
      <4>3. at[1] = 0 + 20
        BY <1>1, <4>1, <4>2
      <4> QED
        BY <4>1, <4>3
    <3>2. \A i \in 1 .. n - 1 : i \in U => i + 1 \in U
      <4> SUFFICES ASSUME NEW i \in 1 .. n - 1, at[i] = 20 * i
                   PROVE  at[i + 1] = 20 * (i + 1)
        BY <1>1
      <4>1. i + 1 \in 1 .. n /\ (i + 1) - 1 = i
        BY <1>1
      <4>2. at[i + 1] = at[(i + 1) - 1] + Len(ss[i + 1])
        BY <1>4, <4>1 DEF LaidOut
      <4>3. at[i + 1] = 20 * i + 20
        BY <1>1, <4>1, <4>2
      <4> QED
        BY <4>1, <4>3
    <3> HIDE DEF U
    <3> QED
      BY <1>1, <3>1, <3>2, CountingUp, Zenon
  <2>2. CASE j = 0
    BY <1>4, <2>2 DEF LaidOut
  <2>3. CASE j # 0
    <3>1. n # 0 /\ j \in 1 .. n
      BY <1>1, <2>3
    <3> QED
      BY <2>1, <3>1
  <2> QED
    BY <2>2, <2>3
<1>6. Len(f) = 20 * n /\ f \in Seq(S)
  <2>1. n \in 0 .. n
    BY <1>1
  <2> QED
    BY <1>4, <1>5, <2>1 DEF LaidOut
<1>7. ASSUME NEW i \in 1 .. n, NEW k \in 1 .. 20
      PROVE  f[20 * (i - 1) + k] = WriteSurface(s[i])[k]
  <2>1. f[at[i - 1] + k] = ss[i][k]
    BY <1>1, <1>4 DEF LaidOut
  <2>2. i - 1 \in 0 .. n
    BY <1>1
  <2> QED
    BY <1>1, <1>5, <2>1, <2>2
<1>8. ASSUME NEW p \in 1 .. Len(f)
      PROVE  \E i \in 1 .. n : \E k \in 1 .. 20 : p = 20 * (i - 1) + k
  <2>1. PICK i \in 1 .. n : \E k \in 1 .. Len(ss[i]) : p = at[i - 1] + k
    BY <1>4 DEF LaidOut
  <2>2. i - 1 \in 0 .. n
    BY <1>1
  <2> QED
    BY <1>1, <1>5, <2>1, <2>2
<1> QED
  BY <1>6, <1>7, <1>8 DEF S, f, n

(***************************************************************************)
(* Every element that is opened is closed later on: what ClosingOf chooses *)
(* from.                                                                   *)
(***************************************************************************)
Balanced(d) ==
  \A i \in 1 .. Len(d) : d[i].kind = "open" =>
    \E j \in i + 1 .. Len(d) : d[j] = Close(d[i].el)

Documents(S) == {d \in Seq(S) : Balanced(d)}

LEMMA BalancedJoin ==
  ASSUME NEW S, NEW a \in Documents(S), NEW b \in Documents(S)
  PROVE  a \o b \in Documents(S)
<1> DEFINE w == a \o b
<1>1. a \in Seq(S) /\ b \in Seq(S) /\ Balanced(a) /\ Balanced(b)
  BY DEF Documents
<1>2. /\ w \in Seq(S) /\ Len(w) = Len(a) + Len(b) /\ Len(a) \in Nat /\ Len(b) \in Nat
      /\ \A i \in 1 .. Len(a) : w[i] = a[i]
      /\ \A i \in 1 .. Len(b) : w[Len(a) + i] = b[i]
  <2>1. a \in Seq(S) /\ b \in Seq(S)
    BY <1>1
  <2> QED
    BY ONLY <2>1, JoinFacts
<1> HIDE DEF w
<1>3. ASSUME NEW i \in 1 .. Len(w), w[i].kind = "open"
      PROVE  \E j \in i + 1 .. Len(w) : w[j] = Close(w[i].el)
  <2>1. CASE i <= Len(a)
    <3>1. i \in 1 .. Len(a) /\ w[i] = a[i]
      BY <1>2, <2>1
    <3>2. PICK j \in i + 1 .. Len(a) : a[j] = Close(a[i].el)
      BY <1>1, <1>3, <3>1 DEF Balanced
    <3>3. j \in i + 1 .. Len(w) /\ j \in 1 .. Len(a)
      BY <1>2, <3>1
    <3>4. w[j] = a[j]
      BY <1>2, <3>3
    <3> QED
      BY <3>1, <3>2, <3>3, <3>4
  <2>2. CASE i > Len(a)
    <3> DEFINE k == i - Len(a)
    <3>1. k \in 1 .. Len(b) /\ i = Len(a) + k
      BY <1>2, <2>2
    <3> HIDE DEF k
    <3>2. w[i] = b[k]
      BY <1>2, <3>1
    <3>3. PICK j \in k + 1 .. Len(b) : b[j] = Close(b[k].el)
      BY <1>1, <1>3, <3>1, <3>2 DEF Balanced
    <3>4. Len(a) + j \in i + 1 .. Len(w) /\ j \in 1 .. Len(b)
      BY <1>2, <3>1
    <3>5. w[Len(a) + j] = b[j]
      BY <1>2, <3>4
    <3> QED
      BY <3>2, <3>3, <3>4, <3>5
  <2> QED
    BY <1>2, <2>1, <2>2
<1>4. Balanced(w)
  BY <1>3 DEF Balanced
<1> QED
  BY <1>2, <1>4 DEF Documents, w

LEMMA BalancedElement ==
  ASSUME NEW S, NEW el, NEW attrs, Open(el, attrs) \in S, Close(el) \in S,
         NEW d \in Documents(S)
  PROVE  Element(el, attrs, d) \in Documents(S)
<1> DEFINE w == Element(el, attrs, d)
<1>3. d \in Seq(S) /\ Balanced(d) /\ Len(d) \in Nat
  BY LenProperties DEF Documents
<1>4. ElementOf(S, w, el, attrs, d)
  BY <1>3, ElementIs, Zenon
<1> HIDE DEF w
<1>5. ASSUME NEW i \in 1 .. Len(w), w[i].kind = "open"
      PROVE  \E j \in i + 1 .. Len(w) : w[j] = Close(w[i].el)
  <2>1. /\ Len(w) = Len(d) + 2 /\ w[1] = Open(el, attrs) /\ w[Len(d) + 2] = Close(el)
        /\ \A k \in 1 .. Len(d) : w[1 + k] = d[k]
    BY <1>4 DEF ElementOf
  <2>2. CASE i = 1
    <3>1. w[i].el = el
      BY <2>1, <2>2 DEF Open
    <3>2. Len(d) + 2 \in i + 1 .. Len(w)
      BY <1>3, <2>1, <2>2
    <3> QED
      BY <2>1, <3>1, <3>2
  <2>3. CASE i = Len(d) + 2
    BY <1>5, <2>1, <2>3 DEF Close
  <2>4. CASE i \in 2 .. Len(d) + 1
    <3> DEFINE k == i - 1
    <3>1. k \in 1 .. Len(d) /\ i = 1 + k
      BY <1>3, <2>4
    <3> HIDE DEF k
    <3>2. w[i] = d[k]
      BY <2>1, <3>1
    <3>3. PICK j \in k + 1 .. Len(d) : d[j] = Close(d[k].el)
      BY <1>3, <1>5, <3>1, <3>2 DEF Balanced
    <3>4. 1 + j \in i + 1 .. Len(w) /\ j \in 1 .. Len(d)
      BY <1>3, <2>1, <3>1
    <3>5. w[1 + j] = d[j]
      BY <2>1, <3>4
    <3> QED
      BY <3>2, <3>3, <3>4, <3>5
  <2>5. i = 1 \/ i = Len(d) + 2 \/ i \in 2 .. Len(d) + 1
    BY <1>3, <2>1
  <2> QED
    BY <2>2, <2>3, <2>4, <2>5
<1>6. Balanced(w)
  BY <1>5 DEF Balanced
<1> QED
  BY <1>4, <1>6 DEF Documents, w, ElementOf

LEMMA BalancedEvent ==
  ASSUME NEW S, NEW e \in S, e.kind # "open"
  PROVE  <<e>> \in Documents(S)
<1> DEFINE w == <<e>>
<1>1. w \in Seq(S) /\ Len(w) = 1 /\ w[1] = e
  BY OneEvent, Zenon
<1> HIDE DEF w
<1>2. Balanced(w)
  BY <1>1 DEF Balanced
<1> QED
  BY <1>1, <1>2 DEF Documents, w

LEMMA BalancedNothing ==
  ASSUME NEW S
  PROVE  <<>> \in Documents(S)
BY DEF Documents, Balanced

LEMMA NoAttrs ==
  ASSUME NEW x, NEW el \in Elements
  PROVE  Open(el, <<>>) \in EventOf(x) /\ Close(el) \in EventOf(x)
<1>1. <<>> \in AttrsOf(Fields(x, el))
  <2>1. DOMAIN <<>> = {} /\ <<>> = [a \in DOMAIN <<>> |-> <<>>[a]]
    OBVIOUS
  <2> QED
    BY <2>1, AttrsAre
<1>2. PICK t : t \in Texts
  BY ParserAssumption
<1> QED
  BY <1>1, <1>2, PlainEvents

LEMMA WithAttrs ==
  ASSUME NEW x, NEW el \in Elements, NEW attrs \in AttrsOf(Fields(x, el))
  PROVE  /\ Open(el, attrs) \in EventOf(x) /\ Empty(el, attrs) \in EventOf(x)
         /\ Close(el) \in EventOf(x)
<1>1. PICK t : t \in Texts
  BY ParserAssumption
<1> QED
  BY <1>1, PlainEvents

LEMMA Kinds ==
  ASSUME NEW el, NEW attrs, NEW t
  PROVE  /\ Open(el, attrs).kind = "open" /\ Open(el, attrs).el = el
         /\ Open(el, attrs).attrs = attrs
         /\ Empty(el, attrs).kind = "empty" /\ Empty(el, attrs).el = el
         /\ Empty(el, attrs).attrs = attrs
         /\ Close(el).kind = "close" /\ Close(el).el = el
         /\ TextEvent(t).kind = "text" /\ TextEvent(t).el = "" /\ TextEvent(t).text = t
BY DEF Open, Empty, Close, TextEvent

LEMMA BalancedTextElement ==
  ASSUME NEW x, NEW s \in SurfaceEntry, NEW el \in TextElements
  PROVE  TextElement(s, el) \in Documents(EventOf(x))
<1> DEFINE t == TextEvent(s.text[el])
<1>1. s.text[el] \in Texts
  BY DEF SurfaceEntry, SurfaceText
<1>2. t \in EventOf(x)
  BY <1>1, EventsAre DEF TextEvent
<1>3. t.kind # "open"
  BY Kinds
<1>4. el \in Elements
  BY DEF Elements
<1> HIDE DEF t
<1>5. <<t>> \in Documents(EventOf(x))
  BY <1>2, <1>3, BalancedEvent, Zenon
<1>6. Open(el, <<>>) \in EventOf(x) /\ Close(el) \in EventOf(x)
  BY <1>4, NoAttrs
<1>7. Element(el, <<>>, <<t>>) \in Documents(EventOf(x))
  BY <1>5, <1>6, BalancedElement, Zenon
<1> QED
  BY <1>7 DEF TextElement, t

LEMMA BalancedSurface ==
  ASSUME NEW x, NEW s \in SurfaceEntry
  PROVE  WriteSurface(s) \in Documents(EventOf(x))
<1> DEFINE D == Documents(EventOf(x))
           a == TextElement(s, "address")
           o == TextElement(s, "os")
           m == TextElement(s, "machine")
           c == TextElement(s, "capture")
           cc == TextElement(s, "codec")
           e == <<Empty("dimensions", SizeAttrs(s))>>
<1>1. a \in D /\ o \in D /\ m \in D /\ c \in D /\ cc \in D
  <2>1. /\ "address" \in TextElements /\ "os" \in TextElements /\ "machine" \in TextElements
        /\ "capture" \in TextElements /\ "codec" \in TextElements
    BY DEF TextElements, HostElements
  <2> QED
    BY <2>1, BalancedTextElement, Zenon
<1>2. e \in D
  <2>1. Empty("dimensions", SizeAttrs(s)) \in EventOf(x)
    BY SurfaceAttrsFit, WithAttrs
  <2>2. Empty("dimensions", SizeAttrs(s)).kind # "open"
    BY Kinds
  <2> QED
    BY <2>1, <2>2, BalancedEvent, Zenon
<1>3. Open("host", <<>>) \in EventOf(x) /\ Close("host") \in EventOf(x)
  BY HostPlain
<1>4. \A u, v \in D : u \o v \in D
  BY BalancedJoin, Zenon
<1>5. WriteSurface(s) = Element("surface", SurfaceAttrs(s),
                          Element("host", <<>>, a \o o \o m \o c) \o cc \o e)
  BY DEF WriteSurface, SurfaceAttrs, SizeAttrs
<1>6. Open("surface", SurfaceAttrs(s)) \in EventOf(x) /\ Close("surface") \in EventOf(x)
  BY SurfaceAttrsFit, WithAttrs
<1> HIDE DEF D, a, o, m, c, cc, e
<1>7. a \o o \o m \o c \in D
  <2>1. a \o o \in D
    BY <1>1, <1>4, Zenon
  <2>2. (a \o o) \o m \in D
    BY <1>1, <1>4, <2>1, Zenon
  <2> QED
    BY <1>1, <1>4, <2>2, Zenon
<1>8. Element("host", <<>>, a \o o \o m \o c) \in D
  BY <1>3, <1>7, BalancedElement, Zenon DEF D
<1>9. Element("host", <<>>, a \o o \o m \o c) \o cc \o e \in D
  <2>1. Element("host", <<>>, a \o o \o m \o c) \o cc \in D
    BY <1>1, <1>4, <1>8, Zenon
  <2> QED
    BY <1>2, <1>4, <2>1, Zenon
<1>10. Element("surface", SurfaceAttrs(s),
         Element("host", <<>>, a \o o \o m \o c) \o cc \o e) \in D
  BY <1>6, <1>9, BalancedElement, Zenon DEF D
<1> QED
  BY <1>5, <1>10 DEF D

LEMMA LeastOf ==
  ASSUME NEW S \in SUBSET Nat, S # {}
  PROVE  \E i \in S : \A j \in S : i <= j
<1>1. IsWellFoundedOn(Descent, Nat)
  BY NatLessThanWellFounded DEF OpToRel, Descent
<1>2. PICK i \in S : \A j \in S : ~(<<j, i>> \in Descent)
  BY <1>1, WFMin
<1>3. ASSUME NEW j \in S PROVE i <= j
  <2> SUFFICES ASSUME j < i PROVE FALSE
    OBVIOUS
  <2>1. <<j, i>> \in Descent
    BY DEF Descent
  <2> QED
    BY <1>2, <2>1
<1> QED
  BY <1>3

LEMMA CoefficientForIs ==
  ASSUME NEW x \in ImageV1, NEW id, References(x.coefficients, id) # {}
  PROVE  CoefficientFor(x.coefficients, id) \in Coefficient
<1> DEFINE cs == x.coefficients
           R == References(cs, id)
           i == CHOOSE i \in R : \A j \in R : i <= j
<1>1. cs \in Seq(SurfaceCoefficient)
  BY DEF ImageV1
<1>2. R \subseteq 1 .. Len(cs) /\ Len(cs) \in Nat /\ R # {}
  BY <1>1, ReferencesAreFinite, Zenon
<1>3. R \in SUBSET Nat
  BY <1>2
<1> HIDE DEF R
<1>4. i \in R
  BY <1>2, <1>3, LeastOf
<1>5. CoefficientFor(cs, id) = cs[i].coefficient
  BY DEF CoefficientFor, R
<1> HIDE DEF i
<1>6. cs[i] \in SurfaceCoefficient
  BY <1>1, <1>2, <1>4, ElementOfSeq
<1> QED
  BY <1>5, <1>6, ImageParts

(***************************************************************************)
(* The coefficient block, and what else may follow the layout.             *)
(***************************************************************************)
TailElements == {"coefficients", "surface-coefficient", "timing", "delay-path",
                 "security", "linearity", "session"}

TailEvents(x) ==
  {e \in EventOf(x) : /\ e.kind # "text" /\ e.el \in TailElements
                      /\ e.el = "session" => e.kind = "close"}

LabelAttrs(c) == [confidentiality |-> c.confidentiality, integrity |-> c.integrity]
UseAttrs(c) == [count |-> c.linearity]
RefAttrs(ref) == [surfaceRef |-> ref]

CoefficientTable(w, ref, c) ==
  LET m == Len(c.timing)
  IN  /\ w[1] = Open("surface-coefficient", RefAttrs(ref))
      /\ w[2] = Open("timing", <<>>)
      /\ \A k \in 1 .. m : w[2 + k] = Empty("delay-path", c.timing[k])
      /\ w[m + 3] = Close("timing")
      /\ w[m + 4] = Empty("security", LabelAttrs(c))
      /\ w[m + 5] = Empty("linearity", UseAttrs(c))
      /\ w[m + 6] = Close("surface-coefficient")

LEMMA CoefficientAttrsFit ==
  ASSUME NEW x, NEW ref \in SurfaceIds, NEW c \in Coefficient
  PROVE  /\ RefAttrs(ref) \in AttrsOf(Fields(x, "surface-coefficient"))
         /\ \A k \in 1 .. Len(c.timing) : c.timing[k] \in AttrsOf(Fields(x, "delay-path"))
         /\ LabelAttrs(c) \in AttrsOf(Fields(x, "security"))
         /\ UseAttrs(c) \in AttrsOf(Fields(x, "linearity"))
<1>1. RefAttrs(ref) \in [surfaceRef : SurfaceIds]
  BY DEF RefAttrs
<1>2. LabelAttrs(c) \in [confidentiality : Confidentiality, integrity : Integrity]
      /\ UseAttrs(c) \in [count : Linearity]
  BY CoefficientParts DEF LabelAttrs, UseAttrs
<1>3. \A k \in 1 .. Len(c.timing) : c.timing[k] \in [lo : Bound, hi : Bound]
  BY CoefficientParts, ElementOfSeq DEF Interval
<1> QED
  BY <1>1, <1>2, <1>3, WrittenAttributes

LEMMA TailEventsAre ==
  ASSUME NEW x, NEW el \in TailElements \ {"session"}, NEW attrs \in AttrsOf(Fields(x, el))
  PROVE  /\ Open(el, attrs) \in TailEvents(x) /\ Empty(el, attrs) \in TailEvents(x)
         /\ Open(el, <<>>) \in TailEvents(x) /\ Close(el) \in TailEvents(x)
<1>1. el \in Elements /\ el \in TailElements /\ el # "session"
  BY DEF Elements, TailElements
<1>2. Open(el, attrs) \in EventOf(x) /\ Empty(el, attrs) \in EventOf(x)
      /\ Close(el) \in EventOf(x) /\ Open(el, <<>>) \in EventOf(x)
  BY <1>1, WithAttrs, NoAttrs
<1> QED
  BY <1>1, <1>2 DEF TailEvents, Open, Empty, Close

LEMMA CoefficientIs ==
  ASSUME NEW x, NEW ref \in SurfaceIds, NEW c \in Coefficient
  PROVE  LET w == WriteCoefficient(ref, c)
         IN  /\ w \in Documents(TailEvents(x)) /\ w \in Seq(TailEvents(x))
             /\ Len(w) = Len(c.timing) + 6
             /\ CoefficientTable(w, ref, c)
<1> DEFINE S == TailEvents(x)
           m == Len(c.timing)
           q == [k \in DOMAIN c.timing |-> Empty("delay-path", c.timing[k])]
           t == Element("timing", <<>>, q)
           e == <<Empty("security", LabelAttrs(c)), Empty("linearity", UseAttrs(c))>>
           d == t \o e
           w == Element("surface-coefficient", RefAttrs(ref), d)
<1>1. m \in Nat /\ DOMAIN c.timing = 1 .. m
  BY CoefficientParts, LenProperties
<1>2. /\ "surface-coefficient" \in TailElements \ {"session"}
      /\ "timing" \in TailElements \ {"session"} /\ "delay-path" \in TailElements \ {"session"}
      /\ "security" \in TailElements \ {"session"} /\ "linearity" \in TailElements \ {"session"}
  BY DEF TailElements
<1>3. /\ Open("surface-coefficient", RefAttrs(ref)) \in S /\ Close("surface-coefficient") \in S
      /\ \A k \in 1 .. m : Empty("delay-path", c.timing[k]) \in S
      /\ Empty("security", LabelAttrs(c)) \in S /\ Empty("linearity", UseAttrs(c)) \in S
  BY <1>2, CoefficientAttrsFit, TailEventsAre
<1>4. Open("timing", <<>>) \in S /\ Close("timing") \in S
  <2>1. <<>> \in AttrsOf(Fields(x, "timing"))
    <3>1. DOMAIN <<>> = {} /\ <<>> = [a \in DOMAIN <<>> |-> <<>>[a]]
      OBVIOUS
    <3> QED
      BY <3>1, AttrsAre
  <2> QED
    BY <1>2, <2>1, TailEventsAre
<1>5. WriteCoefficient(ref, c) = w
  BY DEF WriteCoefficient, RefAttrs, LabelAttrs, UseAttrs
<1> HIDE DEF S
<1>6. /\ q \in Seq(S) /\ Len(q) = m
      /\ \A k \in 1 .. m : q[k] = Empty("delay-path", c.timing[k])
  <2>1. q = [k \in 1 .. m |-> Empty("delay-path", c.timing[k])]
    BY <1>1
  <2> HIDE DEF m
  <2> QED
    BY <1>1, <1>3, <2>1
<1> HIDE DEF q, m
<1>7. q \in Documents(S)
  <2>1. \A k \in 1 .. Len(q) : q[k].kind # "open"
    BY <1>6 DEF Empty
  <2> QED
    BY <1>6, <2>1 DEF Documents, Balanced
<1>8. /\ e \in Seq(S) /\ Len(e) = 2
      /\ e[1] = Empty("security", LabelAttrs(c)) /\ e[2] = Empty("linearity", UseAttrs(c))
  BY <1>3
<1>9. e \in Documents(S)
  <2>1. e[1].kind # "open" /\ e[2].kind # "open"
    BY <1>8, Kinds
  <2> HIDE DEF e
  <2>2. Balanced(e)
    <3>1. \A i \in 1 .. Len(e) : i = 1 \/ i = 2
      BY <1>8
    <3> QED
      BY <2>1, <3>1 DEF Balanced
  <2> QED
    BY <1>8, <2>2 DEF Documents
<1> HIDE DEF e
<1>10. t \in Documents(S)
  BY <1>4, <1>7, BalancedElement, Zenon
<1>11. ElementOf(S, t, "timing", <<>>, q)
  BY <1>4, <1>6, ElementIs, Zenon
<1> HIDE DEF t
<1>12. d \in Documents(S)
  BY <1>9, <1>10, BalancedJoin, Zenon
<1>13. t \in Seq(S) /\ Len(t) = m + 2
  BY <1>6, <1>11 DEF ElementOf
<1>14. /\ d \in Seq(S) /\ Len(d) = Len(t) + Len(e)
       /\ \A i \in 1 .. Len(t) : d[i] = t[i]
       /\ \A i \in 1 .. Len(e) : d[Len(t) + i] = e[i]
  <2>1. t \in Seq(S) /\ e \in Seq(S)
    BY <1>8, <1>13
  <2> QED
    BY ONLY <2>1, JoinFacts
<1> HIDE DEF d
<1>15. w \in Documents(S)
  BY <1>3, <1>12, BalancedElement, Zenon
<1>16. ElementOf(S, w, "surface-coefficient", RefAttrs(ref), d)
  BY <1>3, <1>14, ElementIs, Zenon
<1> HIDE DEF w
<1>17. /\ w[1] = Open("surface-coefficient", RefAttrs(ref)) /\ Len(d) = m + 4
       /\ Len(w) = m + 6 /\ w[m + 6] = Close("surface-coefficient")
       /\ \A i \in 1 .. m + 4 : w[1 + i] = d[i]
  BY <1>1, <1>8, <1>13, <1>14, <1>16 DEF ElementOf
<1>18. /\ d[1] = Open("timing", <<>>) /\ d[m + 2] = Close("timing")
       /\ \A k \in 1 .. m : d[1 + k] = Empty("delay-path", c.timing[k])
  <2>1. /\ t[1] = Open("timing", <<>>) /\ t[m + 2] = Close("timing")
        /\ \A k \in 1 .. m : t[1 + k] = Empty("delay-path", c.timing[k])
    BY <1>6, <1>11 DEF ElementOf
  <2>2. /\ 1 \in 1 .. Len(t) /\ m + 2 \in 1 .. Len(t)
        /\ \A k \in 1 .. m : 1 + k \in 1 .. Len(t)
    BY <1>1, <1>13
  <2> QED
    BY <1>14, <2>1, <2>2
<1>19. d[m + 3] = e[1] /\ d[m + 4] = e[2]
  <2>1. 1 \in 1 .. Len(e) /\ 2 \in 1 .. Len(e) /\ Len(t) + 1 = m + 3 /\ Len(t) + 2 = m + 4
    BY <1>1, <1>8, <1>13
  <2> QED
    BY <1>14, <2>1
<1>20. ASSUME NEW j \in 1 .. m + 4, NEW i, i = 1 + j PROVE w[i] = d[j]
  BY <1>17, <1>20
<1>21. /\ w[2] = d[1] /\ w[m + 3] = d[m + 2] /\ w[m + 4] = d[m + 3] /\ w[m + 5] = d[m + 4]
  BY <1>1, <1>20
<1>22. \A k \in 1 .. m : w[2 + k] = d[1 + k]
  BY <1>1, <1>20
<1>23. CoefficientTable(w, ref, c)
  BY <1>8, <1>17, <1>18, <1>19, <1>21, <1>22 DEF CoefficientTable, m
<1> QED
  BY <1>5, <1>15, <1>16, <1>17, <1>23 DEF S, w, m, ElementOf

LEMMA ImageFields ==
  ASSUME NEW x \in ImageV1
  PROVE  /\ x.base.body \in Body /\ x.base.body.surfaces \in Seq(SurfaceEntry)
         /\ x.base.body.created \in Texts /\ x.base.body.schema \in Nat
         /\ x.base.body.scroll \in Int /\ x.base.body.focus \in SurfaceIds \cup {None}
         /\ x.coefficients \in Seq(SurfaceCoefficient)
<1>1. x.base \in Image /\ x.coefficients \in Seq(SurfaceCoefficient)
  BY ImageParts
<1>2. x.base.body \in Body
  BY <1>1 DEF Image
<1> QED
  BY <1>1, <1>2 DEF Body

CoefficientPieces(x) ==
  [i \in DOMAIN x.base.body.surfaces |->
      LET id == x.base.body.surfaces[i].id
      IN  IF References(x.coefficients, id) = {} THEN <<>>
          ELSE WriteCoefficient(id, CoefficientFor(x.coefficients, id))]

LEMMA SurfaceFields ==
  ASSUME NEW s \in SurfaceEntry
  PROVE  /\ s.id \in SurfaceIds /\ s.name \in Texts /\ s.order \in Nat
         /\ s.text \in [TextElements -> Texts] /\ s.text["os"] \in OsNames
         /\ s.text["codec"] \in CodecNames /\ s.width \in Nat /\ s.height \in Nat
         /\ s = [id |-> s.id, name |-> s.name, order |-> s.order, text |-> s.text,
                 width |-> s.width, height |-> s.height]
BY DEF SurfaceEntry, SurfaceText

LEMMA CoefficientPiecesAre ==
  ASSUME NEW x \in ImageV1
  PROVE  /\ CoefficientPieces(x) \in Seq(Documents(TailEvents(x)))
         /\ CoefficientPieces(x) \in Seq(Seq(TailEvents(x)))
         /\ Len(CoefficientPieces(x)) = Len(x.base.body.surfaces)
<1> DEFINE s == x.base.body.surfaces
           T == Documents(TailEvents(x))
           R == Seq(TailEvents(x))
           p(i) == IF References(x.coefficients, s[i].id) = {} THEN <<>>
                   ELSE WriteCoefficient(s[i].id, CoefficientFor(x.coefficients, s[i].id))
<1>1. Len(s) \in Nat /\ DOMAIN s = 1 .. Len(s) /\ \A i \in 1 .. Len(s) : s[i] \in SurfaceEntry
  BY ImageFields, SurfacesOf
<1>2. ASSUME NEW i \in 1 .. Len(s) PROVE p(i) \in T /\ p(i) \in R
  <2>1. s[i].id \in SurfaceIds
    BY <1>1, SurfaceFields
  <2>2. CASE References(x.coefficients, s[i].id) = {}
    <3>1. <<>> \in T /\ <<>> \in R
      BY BalancedNothing
    <3> QED
      BY <2>2, <3>1
  <2>3. CASE References(x.coefficients, s[i].id) # {}
    <3>1. CoefficientFor(x.coefficients, s[i].id) \in Coefficient
      BY <2>3, CoefficientForIs, Zenon
    <3>2. WriteCoefficient(s[i].id, CoefficientFor(x.coefficients, s[i].id)) \in T
          /\ WriteCoefficient(s[i].id, CoefficientFor(x.coefficients, s[i].id)) \in R
      BY <2>1, <3>1, CoefficientIs, Zenon
    <3> QED
      BY <2>3, <3>2
  <2> QED
    BY <2>2, <2>3
<1> DEFINE P == [i \in 1 .. Len(s) |-> p(i)]
<1>3. CoefficientPieces(x) = P
  BY <1>1 DEF CoefficientPieces
<1> HIDE DEF T, R, p, s
<1>4. P \in Seq(T) /\ P \in Seq(R) /\ Len(P) = Len(s)
  BY <1>1, <1>2
<1> QED
  BY <1>3, <1>4 DEF T, R, s

LEMMA BlockIs ==
  ASSUME NEW x \in ImageV1
  PROVE  /\ WriteCoefficients(x) \in Documents(TailEvents(x))
         /\ ElementOf(TailEvents(x), WriteCoefficients(x), "coefficients", <<>>,
                      FlattenSeq(CoefficientPieces(x)))
         /\ \E at : LaidOut(TailEvents(x), FlattenSeq(CoefficientPieces(x)),
                            CoefficientPieces(x), Len(x.base.body.surfaces), at)
<1> DEFINE S == TailEvents(x)
           ss == CoefficientPieces(x)
           f == FlattenSeq(ss)
           T == Documents(S)
<1>1. ss \in Seq(T) /\ ss \in Seq(Seq(S)) /\ Len(ss) = Len(x.base.body.surfaces)
  BY CoefficientPiecesAre
<1>2. <<>> \in T /\ \A a, b \in T : a \o b \in T
  BY BalancedNothing, BalancedJoin, Zenon
<1>3. Open("coefficients", <<>>) \in S /\ Close("coefficients") \in S
  <2>1. "coefficients" \in TailElements \ {"session"}
    BY DEF TailElements
  <2>2. <<>> \in AttrsOf(Fields(x, "coefficients"))
    <3>1. DOMAIN <<>> = {} /\ <<>> = [a \in DOMAIN <<>> |-> <<>>[a]]
      OBVIOUS
    <3> QED
      BY <3>1, AttrsAre
  <2> QED
    BY <2>1, <2>2, TailEventsAre
<1>4. WriteCoefficients(x) = Element("coefficients", <<>>, f)
  BY DEF WriteCoefficients, CoefficientPieces
<1> HIDE DEF S, ss
<1>5. f \in T
  <2> HIDE DEF T, f
  <2> QED
    BY <1>1, <1>2, FlattenClosed, Zenon DEF f
<1>6. f \in Seq(S)
  BY <1>5 DEF Documents
<1>7. Element("coefficients", <<>>, f) \in T
  <2> HIDE DEF f
  <2> QED
    BY <1>3, <1>5, BalancedElement, Zenon DEF T
<1>8. ElementOf(S, Element("coefficients", <<>>, f), "coefficients", <<>>, f)
  <2> HIDE DEF f
  <2> QED
    BY <1>3, <1>6, ElementIs, Zenon
<1>9. \E at : LaidOut(S, f, ss, Len(ss), at)
  BY <1>1, FlattenLaidOut, Zenon
<1> QED
  BY <1>1, <1>4, <1>7, <1>8, <1>9 DEF S, ss

LEMMA DocumentsOfMore ==
  ASSUME NEW S, NEW T, S \subseteq T
  PROVE  Documents(S) \subseteq Documents(T) /\ Seq(S) \subseteq Seq(T)
BY DEF Documents

(***************************************************************************)
(* A written document: the session and its surfaces, the layout, whatever  *)
(* is spliced in, and the end.                                             *)
(***************************************************************************)
SessionAttrs(x) == [created |-> x.base.body.created, id |-> ComputeId(x.base),
                    schemaVersion |-> x.base.body.schema]

\* events of the surfaces, and of the focus
SurfaceLines(x) == 20 * Len(x.base.body.surfaces)
FocusLines(x) == IF x.base.body.focus = None THEN 0 ELSE 1

\* the last event of the layout
PreludeEnd(x) == SurfaceLines(x) + 6 + FocusLines(x)

PreludeTable(w, x) ==
  /\ w[1] = Open("session", SessionAttrs(x))
  /\ w[2] = Open("surfaces", <<>>)
  /\ \A i \in 1 .. Len(x.base.body.surfaces) : \A k \in 1 .. 20 :
       w[2 + 20 * (i - 1) + k] = WriteSurface(x.base.body.surfaces[i])[k]
  /\ w[SurfaceLines(x) + 3] = Close("surfaces")
  /\ w[SurfaceLines(x) + 4] = Open("layout", <<>>)
  /\ w[SurfaceLines(x) + 5] = Empty("strip", [scrollPos |-> x.base.body.scroll])
  /\ x.base.body.focus # None =>
       w[SurfaceLines(x) + 6] = Empty("focus", RefAttrs(x.base.body.focus))
  /\ w[PreludeEnd(x)] = Close("layout")

DocumentTable(w, x, extra) ==
  /\ PreludeTable(w, x)
  /\ \A i \in 1 .. Len(extra) : w[PreludeEnd(x) + i] = extra[i]
  /\ Len(w) = PreludeEnd(x) + Len(extra) + 1
  /\ w[Len(w)] = Close("session")

LEMMA LayoutIs ==
  ASSUME NEW x \in ImageV1
  PROVE  LET w == WriteLayout(x.base.body)
             m == FocusLines(x)
         IN  /\ w \in Documents(EventOf(x)) /\ w \in Seq(EventOf(x)) /\ Len(w) = 3 + m
             /\ w[1] = Open("layout", <<>>)
             /\ w[2] = Empty("strip", [scrollPos |-> x.base.body.scroll])
             /\ x.base.body.focus # None => w[3] = Empty("focus", RefAttrs(x.base.body.focus))
             /\ w[3 + m] = Close("layout")
<1> DEFINE S == EventOf(x)
           b == x.base.body
           m == FocusLines(x)
           st == Empty("strip", [scrollPos |-> b.scroll])
           fo == Empty("focus", RefAttrs(b.focus))
           d == <<st>> \o IF b.focus = None THEN <<>> ELSE <<fo>>
           w == Element("layout", <<>>, d)
<1>1. b.scroll \in Int /\ b.focus \in SurfaceIds \cup {None}
  BY ImageFields
<1>2. "layout" \in Elements /\ "strip" \in Elements /\ "focus" \in Elements
  BY DEF Elements
<1>3. Open("layout", <<>>) \in S /\ Close("layout") \in S
  BY <1>2, NoAttrs
<1>4. st \in S
  <2>1. [scrollPos |-> b.scroll] \in [scrollPos : Int]
    BY <1>1
  <2>2. [scrollPos |-> b.scroll] \in AttrsOf(Fields(x, "strip"))
    BY <2>1, WrittenAttributes
  <2> QED
    BY <1>2, <2>2, WithAttrs
<1>5. b.focus # None => fo \in S
  <2> SUFFICES ASSUME b.focus # None PROVE fo \in S
    OBVIOUS
  <2>1. RefAttrs(b.focus) \in [surfaceRef : SurfaceIds]
    BY <1>1 DEF RefAttrs
  <2>2. RefAttrs(b.focus) \in AttrsOf(Fields(x, "focus"))
    BY <2>1, WrittenAttributes
  <2> QED
    BY <1>2, <2>2, WithAttrs
<1>6. st.kind # "open" /\ fo.kind # "open"
  BY Kinds
<1>7. WriteLayout(b) = w
  BY DEF WriteLayout, RefAttrs
<1> HIDE DEF S, st, fo
<1>8. /\ d \in Documents(S) /\ d \in Seq(S) /\ Len(d) = 1 + m /\ d[1] = st
      /\ b.focus # None => d[2] = fo
  <2>1. CASE b.focus = None
    <3>1. d = <<st>> /\ m = 0
      BY <2>1 DEF FocusLines
    <3>2. <<st>> \in Documents(S)
      BY <1>4, <1>6, BalancedEvent, Zenon
    <3>3. <<st>> \in Seq(S) /\ Len(<<st>>) = 1 /\ <<st>>[1] = st
      BY <1>4, OneEvent, Zenon
    <3> QED
      BY <2>1, <3>1, <3>2, <3>3
  <2>2. CASE b.focus # None
    <3>1. d = <<st>> \o <<fo>> /\ m = 1
      BY <2>2 DEF FocusLines
    <3>2. <<st>> \in Documents(S) /\ <<fo>> \in Documents(S)
      BY <1>4, <1>5, <1>6, <2>2, BalancedEvent, Zenon
    <3>3. <<st>> \o <<fo>> \in Documents(S)
      BY <3>2, BalancedJoin, Zenon
    <3>4. /\ <<st>> \in Seq(S) /\ Len(<<st>>) = 1 /\ <<st>>[1] = st
          /\ <<fo>> \in Seq(S) /\ Len(<<fo>>) = 1 /\ <<fo>>[1] = fo
      BY <1>4, <1>5, <2>2, OneEvent, Zenon
    <3> DEFINE a == <<st>>
               c == <<fo>>
               y == a \o c
    <3>5. a \in Seq(S) /\ c \in Seq(S) /\ Len(a) = 1 /\ Len(c) = 1 /\ a[1] = st /\ c[1] = fo
      BY <3>4
    <3> HIDE DEF a, c
    <3>6. /\ y \in Seq(S) /\ Len(y) = Len(a) + Len(c)
          /\ \A i \in 1 .. Len(a) : y[i] = a[i]
          /\ \A i \in 1 .. Len(c) : y[Len(a) + i] = c[i]
      <4>1. a \in Seq(S) /\ c \in Seq(S)
        BY <3>5
      <4> QED
        BY ONLY <4>1, JoinFacts
    <3> HIDE DEF y
    <3>7. y \in Seq(S) /\ Len(y) = 2 /\ y[1] = st /\ y[2] = fo
      BY <3>5, <3>6
    <3>8. y = d
      BY <3>1 DEF y, a, c
    <3> QED
      BY <3>1, <3>3, <3>7, <3>8
  <2> QED
    BY <2>1, <2>2
<1>9. m \in {0, 1} /\ (b.focus # None => m = 1)
  BY DEF FocusLines
<1> HIDE DEF d, m
<1>10. w \in Documents(S)
  BY <1>3, <1>8, BalancedElement, Zenon
<1>11. ElementOf(S, w, "layout", <<>>, d)
  BY <1>3, <1>8, ElementIs, Zenon
<1> HIDE DEF w
<1>12. /\ w \in Seq(S) /\ Len(w) = 3 + m /\ w[1] = Open("layout", <<>>) /\ w[2] = st
       /\ b.focus # None => w[3] = fo
       /\ w[3 + m] = Close("layout")
  BY <1>8, <1>9, <1>11 DEF ElementOf
<1> QED
  BY <1>7, <1>10, <1>12 DEF S, st, fo, m

LEMMA FlatSurfacesBalanced ==
  ASSUME NEW x, NEW s \in Seq(SurfaceEntry)
  PROVE  FlattenSeq(Pieces(s)) \in Documents(EventOf(x))
<1> DEFINE T == Documents(EventOf(x))
<1>1. Len(s) \in Nat /\ DOMAIN s = 1 .. Len(s) /\ \A i \in 1 .. Len(s) : WriteSurface(s[i]) \in T
  BY SurfacesOf, BalancedSurface
<1>2. <<>> \in T /\ \A a, b \in T : a \o b \in T
  BY BalancedNothing, BalancedJoin, Zenon
<1> HIDE DEF T
<1>3. Pieces(s) \in Seq(T)
  <2>1. Pieces(s) = [i \in 1 .. Len(s) |-> WriteSurface(s[i])]
    BY <1>1 DEF Pieces
  <2> QED
    BY <1>1, <2>1
<1>4. FlattenSeq(Pieces(s)) \in T
  BY <1>2, <1>3, FlattenClosed, Zenon
<1> QED
  BY <1>4 DEF T

SplitAt(S, w, a, b) ==
  /\ w \in Seq(S) /\ Len(w) = Len(a) + Len(b)
  /\ \A i \in 1 .. Len(a) : w[i] = a[i]
  /\ \A i \in 1 .. Len(b) : w[Len(a) + i] = b[i]

LEMMA JoinSplits ==
  ASSUME NEW S, NEW a \in Seq(S), NEW b \in Seq(S)
  PROVE  SplitAt(S, a \o b, a, b)
<1>1. a \in Seq(S) /\ b \in Seq(S)
  OBVIOUS
<1>2. /\ a \o b \in Seq(S) /\ Len(a \o b) = Len(a) + Len(b)
      /\ Len(a) \in Nat /\ Len(b) \in Nat
      /\ \A i \in 1 .. Len(a) : (a \o b)[i] = a[i]
      /\ \A i \in 1 .. Len(b) : (a \o b)[Len(a) + i] = b[i]
  BY ONLY <1>1, JoinFacts
<1> QED
  BY <1>2, Zenon DEF SplitAt

LEMMA DocumentIs ==
  ASSUME NEW x \in ImageV1, NEW extra \in Documents(TailEvents(x))
  PROVE  LET w == WriteDocument(x.base, ComputeId(x.base), extra)
         IN  w \in Documents(EventOf(x)) /\ DocumentTable(w, x, extra)
<1> DEFINE S == EventOf(x)
           D == Documents(S)
           s == x.base.body.surfaces
           f == FlattenSeq(Pieces(s))
           a == Element("surfaces", <<>>, f)
           l == WriteLayout(x.base.body)
           p == a \o l
           d == p \o extra
           w == Element("session", SessionAttrs(x), d)
           n == Len(s)
           m == FocusLines(x)
<1>1. /\ s \in Seq(SurfaceEntry) /\ n \in Nat /\ m \in {0, 1}
      /\ x.base.body.focus # None => m = 1
  BY ImageFields, SurfacesOf DEF FocusLines
<1>2. /\ f \in Seq(S) /\ Len(f) = 20 * n
      /\ \A i \in 1 .. n : \A k \in 1 .. 20 : f[20 * (i - 1) + k] = WriteSurface(s[i])[k]
  BY <1>1, FlatSurfaces, Zenon
<1>3. f \in D
  BY <1>1, FlatSurfacesBalanced, Zenon
<1>4. /\ l \in D /\ l \in Seq(S) /\ Len(l) = 3 + m
      /\ l[1] = Open("layout", <<>>)
      /\ l[2] = Empty("strip", [scrollPos |-> x.base.body.scroll])
      /\ x.base.body.focus # None => l[3] = Empty("focus", RefAttrs(x.base.body.focus))
      /\ l[3 + m] = Close("layout")
  BY LayoutIs, Zenon
<1>5. extra \in D /\ extra \in Seq(S) /\ Len(extra) \in Nat
  <2>1. TailEvents(x) \subseteq S
    BY DEF TailEvents
  <2>2. extra \in D
    BY <2>1, DocumentsOfMore
  <2> QED
    BY <2>2, LenProperties DEF Documents
<1>6. /\ Open("surfaces", <<>>) \in S /\ Close("surfaces") \in S
      /\ Open("session", SessionAttrs(x)) \in S /\ Close("session") \in S
  <2>1. "surfaces" \in Elements /\ "session" \in Elements
    BY DEF Elements
  <2>2. SessionAttrs(x) \in [created : Texts, id : {ComputeId(x.base)}, schemaVersion : Nat]
    BY ImageFields DEF SessionAttrs
  <2>3. SessionAttrs(x) \in AttrsOf(Fields(x, "session"))
    BY <2>2, WrittenAttributes
  <2> QED
    BY <2>1, <2>3, NoAttrs, WithAttrs
<1>7. WriteDocument(x.base, ComputeId(x.base), extra) = w
  <2>1. f = FlattenSeq([i \in DOMAIN x.base.body.surfaces |->
                          WriteSurface(x.base.body.surfaces[i])])
    BY DEF Pieces
  <2> HIDE DEF f
  <2> QED
    BY <2>1 DEF WriteDocument, SessionAttrs
<1> HIDE DEF S, f, l
<1>8. a \in D
  BY <1>3, <1>6, BalancedElement, Zenon DEF D
<1>9. ElementOf(S, a, "surfaces", <<>>, f)
  BY <1>2, <1>6, ElementIs, Zenon
<1> HIDE DEF a
<1>10. p \in D /\ a \in Seq(S)
  <2> HIDE DEF p
  <2>1. p \in D
    BY <1>4, <1>8, BalancedJoin, Zenon DEF D, p
  <2> QED
    BY <2>1, <1>9 DEF ElementOf
<1>11. SplitAt(S, p, a, l)
  BY <1>4, <1>10, JoinSplits, Zenon
<1> HIDE DEF p
<1>12. p \in Seq(S) /\ Len(a) = 20 * n + 2 /\ Len(p) = 20 * n + 5 + m
  <2>1. p \in Seq(S) /\ Len(p) = Len(a) + Len(l)
    BY <1>11, Zenon DEF SplitAt
  <2>2. Len(a) = Len(f) + 2
    BY <1>9, Zenon DEF ElementOf
  <2>0. m \in Nat
    BY <1>1
  <2>3. Len(f) = 20 * n /\ Len(l) = 3 + m /\ n \in Nat /\ m \in Nat
    BY <1>1, <1>2, <1>4, <2>0, Zenon
  <2> DEFINE la == Len(a)
             lp == Len(p)
             lf == Len(f)
             ll == Len(l)
  <2>4. lp = la + ll /\ la = lf + 2 /\ lf = 20 * n /\ ll = 3 + m /\ n \in Nat /\ m \in Nat
    BY <2>1, <2>2, <2>3, Zenon
  <2>5. la = 20 * n + 2 /\ lp = 20 * n + 5 + m
    <3> HIDE DEF la, lp, lf, ll, n, m
    <3> QED
      BY <2>4
  <2> QED
    BY <2>1, <2>5, Zenon
<1>13. d \in D
  <2> HIDE DEF d
  <2> QED
    BY <1>5, <1>10, BalancedJoin, Zenon DEF D, d
<1>14. SplitAt(S, d, p, extra)
  BY <1>5, <1>12, JoinSplits, Zenon
<1> HIDE DEF d
<1>15. w \in D
  BY <1>6, <1>13, BalancedElement, Zenon DEF D
<1>16. d \in Seq(S)
  BY <1>14 DEF SplitAt
<1>17. ElementOf(S, w, "session", SessionAttrs(x), d)
  BY <1>6, <1>16, ElementIs, Zenon
<1> HIDE DEF w
<1> HIDE DEF n, m
<1>18. /\ Len(d) = 20 * n + 5 + m + Len(extra) /\ Len(w) = 20 * n + 7 + m + Len(extra)
       /\ w[1] = Open("session", SessionAttrs(x)) /\ w[Len(w)] = Close("session")
  <2>1. Len(d) = Len(p) + Len(extra)
    BY <1>14 DEF SplitAt
  <2>2. /\ Len(w) = Len(d) + 2 /\ w[1] = Open("session", SessionAttrs(x))
        /\ w[Len(d) + 2] = Close("session")
    BY <1>17 DEF ElementOf
  <2>3. n \in Nat /\ m \in Nat /\ Len(extra) \in Nat /\ Len(p) = 20 * n + 5 + m
    BY <1>1, <1>5, <1>12
  <2>4. Len(d) = 20 * n + 5 + m + Len(extra) /\ Len(w) = 20 * n + 7 + m + Len(extra)
    BY <2>1, <2>2, <2>3
  <2> QED
    BY <2>2, <2>4
<1>32. /\ n \in Nat /\ m \in Nat /\ Len(extra) \in Nat /\ Len(a) = 20 * n + 2
          /\ Len(p) = 20 * n + 5 + m /\ Len(d) = 20 * n + 5 + m + Len(extra)
  BY <1>1, <1>5, <1>12, <1>18
<1>19. ASSUME NEW j \in 1 .. Len(d), NEW i, i = 1 + j PROVE w[i] = d[j]
  BY <1>17, <1>19 DEF ElementOf
<1>20. ASSUME NEW j \in 1 .. 20 * n + 5 + m, NEW i, i = 1 + j PROVE w[i] = p[j]
  <2>1. j \in 1 .. Len(p) /\ j \in 1 .. Len(d)
    BY <1>32
  <2>2. d[j] = p[j]
    BY <1>14, <2>1 DEF SplitAt
  <2> QED
    BY <1>19, <1>20, <2>1, <2>2
<1>21. ASSUME NEW j \in 1 .. Len(extra), NEW i, i = 20 * n + 6 + m + j PROVE w[i] = extra[j]
  <2>1. d[Len(p) + j] = extra[j]
    BY <1>14 DEF SplitAt
  <2>2. Len(p) + j \in 1 .. Len(d) /\ i = 1 + (Len(p) + j)
    BY <1>32, <1>21
  <2> QED
    BY <1>19, <2>1, <2>2
<1>22. ASSUME NEW j \in 1 .. 20 * n + 2, NEW i, i = 1 + j PROVE w[i] = a[j]
  <2>1. j \in 1 .. Len(a) /\ j \in 1 .. 20 * n + 5 + m
    BY <1>1, <1>12
  <2>2. p[j] = a[j]
    BY <1>11, <2>1 DEF SplitAt
  <2> QED
    BY <1>20, <1>22, <2>1, <2>2
<1>23. ASSUME NEW j \in 1 .. 3 + m, NEW i, i = 20 * n + 3 + j PROVE w[i] = l[j]
  <2>1. p[Len(a) + j] = l[j]
    BY <1>4, <1>11 DEF SplitAt
  <2>2. Len(a) + j \in 1 .. 20 * n + 5 + m /\ i = 1 + (Len(a) + j)
    BY <1>32, <1>23
  <2> QED
    BY <1>20, <2>1, <2>2
<1>24. ASSUME NEW j \in 1 .. 20 * n, NEW i, i = 2 + j PROVE w[i] = f[j]
  <2>1. a[1 + j] = f[j]
    BY <1>2, <1>9 DEF ElementOf
  <2>2. 1 + j \in 1 .. 20 * n + 2 /\ i = 1 + (1 + j)
    BY <1>1, <1>24
  <2> QED
    BY <1>22, <2>1, <2>2
<1>25. a[1] = Open("surfaces", <<>>) /\ a[20 * n + 2] = Close("surfaces")
  BY <1>2, <1>9 DEF ElementOf
<1>26. w[2] = Open("surfaces", <<>>) /\ w[20 * n + 3] = Close("surfaces")
  <2>1. /\ 1 \in 1 .. 20 * n + 2 /\ 2 = 1 + 1
        /\ 20 * n + 2 \in 1 .. 20 * n + 2 /\ 20 * n + 3 = 1 + (20 * n + 2)
    BY <1>1
  <2> QED
    BY <1>22, <1>25, <2>1
<1>27. ASSUME NEW i \in 1 .. n, NEW k \in 1 .. 20
       PROVE  w[2 + 20 * (i - 1) + k] = WriteSurface(s[i])[k]
  <2>1. /\ 20 * (i - 1) + k \in 1 .. 20 * n
        /\ 2 + 20 * (i - 1) + k = 2 + (20 * (i - 1) + k)
    BY <1>1
  <2>2. w[2 + 20 * (i - 1) + k] = f[20 * (i - 1) + k]
    BY <1>24, <2>1
  <2> QED
    BY <1>2, <2>2
<1>28. /\ w[20 * n + 4] = Open("layout", <<>>)
       /\ w[20 * n + 5] = Empty("strip", [scrollPos |-> x.base.body.scroll])
       /\ w[20 * n + 6 + m] = Close("layout")
       /\ x.base.body.focus # None => w[20 * n + 6] = Empty("focus", RefAttrs(x.base.body.focus))
  <2>1. /\ 1 \in 1 .. 3 + m /\ 20 * n + 4 = 20 * n + 3 + 1
        /\ 2 \in 1 .. 3 + m /\ 20 * n + 5 = 20 * n + 3 + 2
        /\ 3 + m \in 1 .. 3 + m /\ 20 * n + 6 + m = 20 * n + 3 + (3 + m)
        /\ 3 \in 1 .. 3 + m /\ 20 * n + 6 = 20 * n + 3 + 3
    BY <1>1
  <2>2. w[20 * n + 4] = l[1] /\ w[20 * n + 5] = l[2]
    BY <1>23, <2>1
  <2>3. w[20 * n + 6] = l[3]
    BY <1>23, <2>1
  <2>4. w[20 * n + 6 + m] = l[3 + m]
    BY <1>23, <2>1
  <2> QED
    BY <1>4, <2>2, <2>3, <2>4
<1>29. SurfaceLines(x) = 20 * n /\ PreludeEnd(x) = 20 * n + 6 + m
  BY DEF SurfaceLines, PreludeEnd, n, m
<1>30. PreludeTable(w, x)
  BY <1>18, <1>26, <1>27, <1>28, <1>29 DEF PreludeTable, n
<1>31. DocumentTable(w, x, extra)
  <2>1. \A j \in 1 .. Len(extra) : w[PreludeEnd(x) + j] = extra[j]
    BY <1>21, <1>29
  <2>2. Len(w) = PreludeEnd(x) + Len(extra) + 1
    BY <1>1, <1>5, <1>18, <1>29
  <2> QED
    BY <1>18, <1>30, <2>1, <2>2 DEF DocumentTable
<1> QED
  BY <1>7, <1>15, <1>31 DEF D, S

PieceIs(S, y, s, m, n) ==
  /\ y \in Seq(S) /\ Len(y) = n - m + 1
  /\ \A i \in 1 .. n - m + 1 : y[i] = s[m - 1 + i]

LEMMA PieceOf ==
  ASSUME NEW S, NEW s \in Seq(S), NEW m \in Nat, NEW n \in Nat,
         1 <= m, m <= n + 1, n <= Len(s)
  PROVE  PieceIs(S, SubSeq(s, m, n), s, m, n)
<1> DEFINE w == SubSeq(s, m, n)
<1>1. \A i \in m .. n : s[i] \in S
  BY ElementOfSeq, LenProperties
<1>2. /\ w \in Seq(S) /\ Len(w) = IF m <= n THEN n - m + 1 ELSE 0
      /\ \A i \in 1 .. n - m + 1 : w[i] = s[m + i - 1]
  <2>1. m \in Int /\ n \in Int
    OBVIOUS
  <2> QED
    BY <1>1, <2>1, SubSeqProperties
<1> HIDE DEF w
<1>3. Len(w) = n - m + 1
  BY <1>2
<1>4. ASSUME NEW i \in 1 .. n - m + 1 PROVE w[i] = s[m - 1 + i]
  <2>1. m + i - 1 = m - 1 + i
    OBVIOUS
  <2> QED
    BY <1>2, <2>1
<1>5. PieceIs(S, w, s, m, n)
  BY <1>2, <1>3, <1>4 DEF PieceIs
<1> QED
  BY <1>5 DEF w

LEMMA ClosingIs ==
  ASSUME NEW S, NEW w \in Documents(S), NEW i \in Starts(w)
  PROVE  /\ ClosingOf(w, i) \in i .. Len(w) /\ i \in 1 .. Len(w) /\ Len(w) \in Nat
         /\ w[i].kind = "empty" => ClosingOf(w, i) = i
         /\ w[i].kind = "open" =>
              /\ w[ClosingOf(w, i)] = Close(w[i].el) /\ i < ClosingOf(w, i)
              /\ \A k \in i + 1 .. ClosingOf(w, i) - 1 : w[k] # Close(w[i].el)
<1>1. /\ Len(w) \in Nat /\ i \in 1 .. Len(w) /\ Balanced(w)
      /\ w[i].kind \in {"open", "empty"}
  BY LenProperties DEF Documents, Starts
<1>2. CASE w[i].kind = "empty"
  BY <1>1, <1>2 DEF ClosingOf
<1>3. CASE w[i].kind = "open"
  <2> DEFINE U == {j \in i + 1 .. Len(w) : w[j] = Close(w[i].el)}
             P(j) == /\ w[j] = Close(w[i].el)
                     /\ \A k \in i + 1 .. j - 1 : w[k] # Close(w[i].el)
             c == CHOOSE j \in i .. Len(w) : P(j)
  <2>1. U # {} /\ U \in SUBSET Nat
    BY <1>1, <1>3 DEF Balanced
  <2>2. PICK j \in U : \A k \in U : j <= k
    BY <2>1, LeastOf
  <2>3. j \in i .. Len(w) /\ P(j)
    BY <1>1, <2>2
  <2>4. c \in i .. Len(w) /\ P(c)
    <3> HIDE DEF P
    <3> QED
      BY <2>3
  <2>5. ClosingOf(w, i) = c
    BY <1>3 DEF ClosingOf
  <2> HIDE DEF c
  <2>6. w[c].kind = "close"
    BY <2>4 DEF Close
  <2>7. c # i
    BY <1>3, <2>6
  <2> QED
    BY <1>1, <1>3, <2>4, <2>5, <2>7
<1> QED
  BY <1>1, <1>2, <1>3

(***************************************************************************)
(* What one change makes of a document w.                                  *)
(***************************************************************************)
IsCut(d, w) == Len(d) < Len(w) /\ \A k \in 1 .. Len(d) : d[k] = w[k]

LacksElement(d, w, i, c) ==
  /\ i \in Starts(w) /\ c = ClosingOf(w, i)
  /\ Len(d) = Len(w) - (c - i + 1)
  /\ \A k \in 1 .. i - 1 : d[k] = w[k]
  /\ \A k \in i .. Len(d) : d[k] = w[k + (c - i + 1)]

LacksTags(d, w, i, c) ==
  /\ i \in Starts(w) /\ w[i].kind = "open" /\ c = ClosingOf(w, i)
  /\ Len(d) = Len(w) - 2
  /\ \A k \in 1 .. i - 1 : d[k] = w[k]
  /\ \A k \in i .. c - 2 : d[k] = w[k + 1]
  /\ \A k \in c - 1 .. Len(d) : d[k] = w[k + 2]

\* e has lost some of its attributes, or their or its text are misspelt
Weaker(e, f) ==
  /\ e.kind = f.kind /\ e.el = f.el
  /\ DOMAIN e.attrs \subseteq DOMAIN f.attrs
  /\ \A a \in DOMAIN e.attrs : Perhaps(e.attrs[a], f.attrs[a])
  /\ Perhaps(e.text, f.text)

Differs(d, w, i) ==
  /\ i \in 1 .. Len(w) /\ Len(d) = Len(w)
  /\ \A k \in 1 .. Len(d) : k # i => d[k] = w[k]
  /\ Weaker(d[i], w[i])

LEMMA CutIs ==
  ASSUME NEW S, NEW w \in Documents(S), NEW d \in CutShort(w)
  PROVE  d \in Seq(S) /\ IsCut(d, w)
<1>1. w \in Seq(S) /\ Len(w) \in Nat
  BY LenProperties DEF Documents
<1>2. PICK n \in 0 .. Len(w) - 1 : d = SubSeq(w, 1, n)
  BY DEF CutShort
<1> DEFINE y == SubSeq(w, 1, n)
<1>3. /\ y \in Seq(S) /\ Len(y) = n - 1 + 1 /\ \A k \in 1 .. n - 1 + 1 : y[k] = w[1 - 1 + k]
  <2>1. n \in Nat /\ 1 \in Nat /\ 1 <= 1 /\ 1 <= n + 1 /\ n <= Len(w)
    BY <1>1
  <2>2. PieceIs(S, y, w, 1, n)
    BY <1>1, <2>1, PieceOf, Zenon
  <2> QED
    BY <2>2 DEF PieceIs
<1> HIDE DEF y
<1>4. \A k \in 1 .. n : y[k] = w[k]
  <2> TAKE k \in 1 .. n
  <2>1. k \in 1 .. n - 1 + 1 /\ 1 - 1 + k = k
    OBVIOUS
  <2> QED
    BY <1>3, <2>1
<1>5. d = y
  BY <1>2 DEF y
<1> QED
  BY <1>1, <1>3, <1>4, <1>5 DEF IsCut

LEMMA LacksElementIs ==
  ASSUME NEW S, NEW w \in Documents(S), NEW d \in WithoutElement(w)
  PROVE  d \in Seq(S) /\ \E i, c : LacksElement(d, w, i, c)
<1>1. w \in Seq(S) /\ Len(w) \in Nat
  BY LenProperties DEF Documents
<1>2. PICK i \in Starts(w) :
        d = SubSeq(w, 1, i - 1) \o SubSeq(w, ClosingOf(w, i) + 1, Len(w))
  BY DEF WithoutElement
<1> DEFINE c == ClosingOf(w, i)
           a == SubSeq(w, 1, i - 1)
           b == SubSeq(w, c + 1, Len(w))
           y == a \o b
<1>3. c \in i .. Len(w) /\ i \in 1 .. Len(w)
  BY ClosingIs, Zenon
<1> HIDE DEF c
<1>4. /\ a \in Seq(S) /\ Len(a) = (i - 1) - 1 + 1
      /\ \A k \in 1 .. (i - 1) - 1 + 1 : a[k] = w[1 - 1 + k]
  <2>1. i - 1 \in Nat /\ 1 \in Nat /\ 1 <= 1 /\ 1 <= (i - 1) + 1 /\ i - 1 <= Len(w)
    BY <1>1, <1>3
  <2>2. PieceIs(S, a, w, 1, i - 1)
    BY <1>1, <2>1, PieceOf, Zenon
  <2> QED
    BY <2>2 DEF PieceIs
<1>5. /\ b \in Seq(S) /\ Len(b) = Len(w) - (c + 1) + 1
      /\ \A k \in 1 .. Len(w) - (c + 1) + 1 : b[k] = w[(c + 1) - 1 + k]
  <2>1. c + 1 \in Nat /\ 1 <= c + 1 /\ c + 1 <= Len(w) + 1 /\ Len(w) <= Len(w)
    BY <1>1, <1>3
  <2>2. PieceIs(S, b, w, c + 1, Len(w))
    BY <1>1, <2>1, PieceOf, Zenon
  <2> QED
    BY <2>2 DEF PieceIs
<1> HIDE DEF a, b
<1>6. SplitAt(S, y, a, b)
  BY <1>4, <1>5, JoinSplits, Zenon
<1> HIDE DEF y
<1>7. /\ y \in Seq(S) /\ Len(y) = Len(a) + Len(b)
      /\ \A k \in 1 .. Len(a) : y[k] = a[k]
      /\ \A k \in 1 .. Len(b) : y[Len(a) + k] = b[k]
  BY <1>6 DEF SplitAt
<1>8. Len(a) = i - 1 /\ Len(b) = Len(w) - c /\ Len(y) = Len(w) - (c - i + 1)
  BY <1>1, <1>3, <1>4, <1>5, <1>7
<1>9. ASSUME NEW k \in 1 .. i - 1 PROVE y[k] = w[k]
  <2>1. k \in 1 .. (i - 1) - 1 + 1 /\ 1 - 1 + k = k /\ k \in 1 .. Len(a)
    BY <1>3, <1>8
  <2> QED
    BY <1>4, <1>7, <2>1
<1>10. ASSUME NEW k \in i .. Len(y) PROVE y[k] = w[k + (c - i + 1)]
  <2> DEFINE j == k - (i - 1)
  <2>1. /\ j \in 1 .. Len(b) /\ j \in 1 .. Len(w) - (c + 1) + 1 /\ k = Len(a) + j
        /\ (c + 1) - 1 + j = k + (c - i + 1)
    BY <1>1, <1>3, <1>8
  <2> HIDE DEF j
  <2>2. y[k] = b[j]
    BY <1>7, <2>1
  <2>3. b[j] = w[(c + 1) - 1 + j]
    BY <1>5, <2>1
  <2> QED
    BY <2>1, <2>2, <2>3
<1>11. d = y
  BY <1>2 DEF y, a, b, c
<1>12. LacksElement(d, w, i, c)
  BY <1>8, <1>9, <1>10, <1>11 DEF LacksElement, c
<1> QED
  BY <1>7, <1>11, <1>12

LEMMA LacksTagsIs ==
  ASSUME NEW S, NEW w \in Documents(S), NEW d \in WithoutTags(w)
  PROVE  d \in Seq(S) /\ \E i, c : LacksTags(d, w, i, c)
<1>1. w \in Seq(S) /\ Len(w) \in Nat
  BY LenProperties DEF Documents
<1>2. PICK i \in {j \in Starts(w) : w[j].kind = "open"} :
        d = SubSeq(w, 1, i - 1) \o SubSeq(w, i + 1, ClosingOf(w, i) - 1)
              \o SubSeq(w, ClosingOf(w, i) + 1, Len(w))
  BY DEF WithoutTags
<1> DEFINE c == ClosingOf(w, i)
           a == SubSeq(w, 1, i - 1)
           m == SubSeq(w, i + 1, c - 1)
           b == SubSeq(w, c + 1, Len(w))
           p == a \o m
           y == p \o b
<1>3. i \in Starts(w) /\ w[i].kind = "open"
  BY <1>2
<1>4. c \in i + 1 .. Len(w) /\ i \in 1 .. Len(w)
  <2>1. c \in i .. Len(w) /\ i \in 1 .. Len(w) /\ i < c
    BY <1>3, ClosingIs, Zenon
  <2> HIDE DEF c
  <2> QED
    BY <1>1, <2>1
<1>5. d = y
  BY <1>2
<1> HIDE DEF c
<1>6. /\ a \in Seq(S) /\ Len(a) = (i - 1) - 1 + 1
      /\ \A k \in 1 .. (i - 1) - 1 + 1 : a[k] = w[1 - 1 + k]
  <2>1. i - 1 \in Nat /\ 1 \in Nat /\ 1 <= 1 /\ 1 <= (i - 1) + 1 /\ i - 1 <= Len(w)
    BY <1>1, <1>4
  <2>2. PieceIs(S, a, w, 1, i - 1)
    BY <1>1, <2>1, PieceOf, Zenon
  <2> QED
    BY <2>2 DEF PieceIs
<1>7. /\ m \in Seq(S) /\ Len(m) = (c - 1) - (i + 1) + 1
      /\ \A k \in 1 .. (c - 1) - (i + 1) + 1 : m[k] = w[(i + 1) - 1 + k]
  <2>1. /\ i + 1 \in Nat /\ c - 1 \in Nat /\ 1 <= i + 1 /\ i + 1 <= (c - 1) + 1
        /\ c - 1 <= Len(w)
    BY <1>1, <1>4
  <2>2. PieceIs(S, m, w, i + 1, c - 1)
    BY <1>1, <2>1, PieceOf, Zenon
  <2> QED
    BY <2>2 DEF PieceIs
<1>8. /\ b \in Seq(S) /\ Len(b) = Len(w) - (c + 1) + 1
      /\ \A k \in 1 .. Len(w) - (c + 1) + 1 : b[k] = w[(c + 1) - 1 + k]
  <2>1. c + 1 \in Nat /\ 1 <= c + 1 /\ c + 1 <= Len(w) + 1 /\ Len(w) <= Len(w)
    BY <1>1, <1>4
  <2>2. PieceIs(S, b, w, c + 1, Len(w))
    BY <1>1, <2>1, PieceOf, Zenon
  <2> QED
    BY <2>2 DEF PieceIs
<1> HIDE DEF a, b, m
<1>9. SplitAt(S, p, a, m)
  BY <1>6, <1>7, JoinSplits, Zenon
<1> HIDE DEF p
<1>10. p \in Seq(S) /\ Len(p) = c - 2 /\ Len(a) = i - 1 /\ Len(m) = c - i - 1
       /\ Len(b) = Len(w) - c
  BY <1>1, <1>4, <1>6, <1>7, <1>8, <1>9 DEF SplitAt
<1>11. SplitAt(S, y, p, b)
  BY <1>8, <1>10, JoinSplits, Zenon
<1> HIDE DEF y
<1>12. y \in Seq(S) /\ Len(y) = Len(w) - 2
  <2>1. y \in Seq(S) /\ Len(y) = Len(p) + Len(b)
    BY <1>11 DEF SplitAt
  <2> QED
    BY <1>1, <1>4, <1>10, <2>1
<1>13. ASSUME NEW k \in 1 .. c - 2 PROVE y[k] = p[k]
  BY <1>10, <1>11 DEF SplitAt
<1>14. ASSUME NEW k \in 1 .. i - 1 PROVE y[k] = w[k]
  <2>1. /\ k \in 1 .. (i - 1) - 1 + 1 /\ 1 - 1 + k = k /\ k \in 1 .. Len(a)
        /\ k \in 1 .. c - 2
    <3> DEFINE l == Len(a)
    <3>1. /\ k \in 1 .. i - 1 /\ l = i - 1
          /\ i \in Nat /\ c \in Nat /\ i < c
      BY <1>1, <1>4, <1>10
    <3> HIDE DEF l
    <3>2. /\ k \in 1 .. (i - 1) - 1 + 1 /\ 1 - 1 + k = k /\ k \in 1 .. l /\ k \in 1 .. c - 2
      BY <3>1
    <3> QED
      BY <3>2 DEF l
  <2>2. p[k] = a[k]
    BY <1>9, <2>1 DEF SplitAt
  <2> QED
    BY <1>6, <1>13, <2>1, <2>2
<1>15. ASSUME NEW k \in i .. c - 2 PROVE y[k] = w[k + 1]
  <2> DEFINE j == k - (i - 1)
  <2>1. /\ j \in 1 .. Len(m) /\ j \in 1 .. (c - 1) - (i + 1) + 1 /\ k = Len(a) + j
        /\ (i + 1) - 1 + j = k + 1 /\ k \in 1 .. c - 2
    BY <1>1, <1>4, <1>10
  <2> HIDE DEF j
  <2>2. p[Len(a) + j] = m[j]
    BY <1>9, <2>1 DEF SplitAt
  <2>3. m[j] = w[(i + 1) - 1 + j]
    BY <1>7, <2>1
  <2> QED
    BY <1>13, <2>1, <2>2, <2>3
<1>16. ASSUME NEW k \in c - 1 .. Len(y) PROVE y[k] = w[k + 2]
  <2> DEFINE j == k - (c - 2)
  <2>1. /\ j \in 1 .. Len(b) /\ j \in 1 .. Len(w) - (c + 1) + 1 /\ k = Len(p) + j
        /\ (c + 1) - 1 + j = k + 2
    BY <1>1, <1>4, <1>10, <1>12
  <2> HIDE DEF j
  <2>2. y[Len(p) + j] = b[j]
    BY <1>11, <2>1 DEF SplitAt
  <2>3. b[j] = w[(c + 1) - 1 + j]
    BY <1>8, <2>1
  <2> QED
    BY <2>1, <2>2, <2>3
<1>17. LacksTags(d, w, i, c)
  BY <1>3, <1>5, <1>12, <1>14, <1>15, <1>16 DEF LacksTags, c
<1> QED
  BY <1>5, <1>12, <1>17

LEMMA EventFields ==
  ASSUME NEW x, NEW e \in EventOf(x)
  PROVE  /\ e = [kind |-> e.kind, el |-> e.el, attrs |-> e.attrs, text |-> e.text]
         /\ \/ /\ e.kind \in {"open", "empty", "close"} /\ e.el \in Elements
               /\ e.attrs \in AttrsOf(Fields(x, e.el)) /\ e.text = None
            \/ /\ e.kind = "text" /\ e.el = "" /\ e.attrs = <<>> /\ e.text \in Texts
BY EventsAre

LEMMA WithOtherAttrs ==
  ASSUME NEW e, NEW f, NEW g,
         e = [kind |-> e.kind, el |-> e.el, attrs |-> e.attrs, text |-> e.text],
         g = [e EXCEPT !.attrs = f]
  PROVE  /\ g.kind = e.kind /\ g.el = e.el /\ g.attrs = f /\ g.text = e.text
         /\ g = [kind |-> g.kind, el |-> g.el, attrs |-> g.attrs, text |-> g.text]
<1>1. [[kind |-> e.kind, el |-> e.el, attrs |-> e.attrs, text |-> e.text] EXCEPT !.attrs = f]
           = [kind |-> e.kind, el |-> e.el, attrs |-> f, text |-> e.text]
  OBVIOUS
<1>2. g = [kind |-> e.kind, el |-> e.el, attrs |-> f, text |-> e.text]
  BY <1>1
<1> QED
  BY ONLY <1>2

LEMMA WithOtherText ==
  ASSUME NEW e, NEW f, NEW g,
         e = [kind |-> e.kind, el |-> e.el, attrs |-> e.attrs, text |-> e.text],
         g = [e EXCEPT !.text = f]
  PROVE  /\ g.kind = e.kind /\ g.el = e.el /\ g.attrs = e.attrs /\ g.text = f
         /\ g = [kind |-> g.kind, el |-> g.el, attrs |-> g.attrs, text |-> g.text]
<1>1. [[kind |-> e.kind, el |-> e.el, attrs |-> e.attrs, text |-> e.text] EXCEPT !.text = f]
           = [kind |-> e.kind, el |-> e.el, attrs |-> e.attrs, text |-> f]
  OBVIOUS
<1>2. g = [kind |-> e.kind, el |-> e.el, attrs |-> e.attrs, text |-> f]
  BY <1>1
<1> QED
  BY ONLY <1>2

LEMMA EventWithAttrs ==
  ASSUME NEW x, NEW e \in EventOf(x), e.kind \in Start, NEW f, f = [a \in DOMAIN f |-> f[a]],
         DOMAIN f \subseteq DOMAIN e.attrs,
         \A a \in DOMAIN f : Perhaps(f[a], e.attrs[a])
  PROVE  /\ [e EXCEPT !.attrs = f] \in EventOf(x)
         /\ Weaker([e EXCEPT !.attrs = f], e)
<1> DEFINE g == [e EXCEPT !.attrs = f]
<1>1. /\ e = [kind |-> e.kind, el |-> e.el, attrs |-> e.attrs, text |-> e.text]
      /\ e.el \in Elements /\ e.attrs \in AttrsOf(Fields(x, e.el)) /\ e.text = None
      /\ e.kind \in {"open", "empty", "close"}
  BY EventFields DEF Start
<1>2. /\ g.kind = e.kind /\ g.el = e.el /\ g.attrs = f /\ g.text = e.text
      /\ g = [kind |-> g.kind, el |-> g.el, attrs |-> g.attrs, text |-> g.text]
  <2>1. e = [kind |-> e.kind, el |-> e.el, attrs |-> e.attrs, text |-> e.text]
    BY <1>1
  <2>2. g = [e EXCEPT !.attrs = f]
    OBVIOUS
  <2> HIDE DEF g
  <2> QED
    BY <2>1, <2>2, WithOtherAttrs, Zenon
<1> HIDE DEF g
<1>3. f \in AttrsOf(Fields(x, e.el))
  <2> DEFINE F == Fields(x, e.el)
  <2>1. /\ DOMAIN e.attrs \subseteq DOMAIN F
        /\ \A a \in DOMAIN e.attrs : e.attrs[a] \in F[a] \cup {Unknown}
    BY <1>1, AttrsAre
  <2> HIDE DEF F
  <2>2. DOMAIN f \subseteq DOMAIN F /\ \A a \in DOMAIN f : f[a] \in F[a] \cup {Unknown}
    BY <2>1 DEF Perhaps
  <2>3. f \in AttrsOf(F)
    BY <2>2, AttrsAre
  <2> QED
    BY <2>3 DEF F
<1>4. g \in EventOf(x)
  BY <1>1, <1>2, <1>3, EventsAre
<1>5. Weaker(g, e)
  BY <1>2 DEF Weaker, Perhaps
<1> QED
  BY <1>4, <1>5 DEF g

LEMMA EventMisspelt ==
  ASSUME NEW x, NEW e \in EventOf(x), e.kind = "text"
  PROVE  /\ [e EXCEPT !.text = Unknown] \in EventOf(x)
         /\ Weaker([e EXCEPT !.text = Unknown], e)
<1> DEFINE g == [e EXCEPT !.text = Unknown]
<1>1. /\ e = [kind |-> e.kind, el |-> e.el, attrs |-> e.attrs, text |-> e.text]
      /\ e.el = "" /\ e.attrs = <<>>
  BY EventFields
<1>2. /\ g.kind = e.kind /\ g.el = e.el /\ g.attrs = e.attrs /\ g.text = Unknown
      /\ g = [kind |-> g.kind, el |-> g.el, attrs |-> g.attrs, text |-> g.text]
  <2>1. e = [kind |-> e.kind, el |-> e.el, attrs |-> e.attrs, text |-> e.text]
    BY <1>1
  <2>2. g = [e EXCEPT !.text = Unknown]
    OBVIOUS
  <2> HIDE DEF g
  <2> QED
    BY <2>1, <2>2, WithOtherText, Zenon
<1>3. Unknown \in Texts
  BY ParserAssumption
<1> HIDE DEF g
<1>4. g \in EventOf(x)
  BY <1>1, <1>2, <1>3, EventsAre
<1>5. Weaker(g, e)
  BY <1>2 DEF Weaker, Perhaps
<1> QED
  BY <1>4, <1>5 DEF g

LEMMA OneChanged ==
  ASSUME NEW S, NEW w \in Seq(S), NEW i \in 1 .. Len(w), NEW e \in S, Weaker(e, w[i])
  PROVE  /\ [w EXCEPT ![i] = e] \in Seq(S)
         /\ Differs([w EXCEPT ![i] = e], w, i)
<1> DEFINE d == [w EXCEPT ![i] = e]
<1>1. d \in Seq(S) /\ Len(d) = Len(w) /\ d[i] = e /\ \A k \in 1 .. Len(w) : k # i => d[k] = w[k]
  BY ExceptSeq
<1> HIDE DEF d
<1>2. Differs(d, w, i)
  BY <1>1 DEF Differs
<1> QED
  BY <1>1, <1>2 DEF d

LEMMA WithoutAttributeIs ==
  ASSUME NEW x, NEW w \in Seq(EventOf(x)), NEW d \in WithoutAttribute(w)
  PROVE  d \in Seq(EventOf(x)) /\ \E i : Differs(d, w, i)
<1> DEFINE A(i) == {[w EXCEPT ![i].attrs = [b \in DOMAIN w[i].attrs \ {a} |-> w[i].attrs[b]]] :
                      a \in DOMAIN w[i].attrs}
           M == {A(i) : i \in Starts(w)}
<1>1. d \in UNION M
  BY DEF WithoutAttribute
<1>2. \E m \in M : d \in m
  BY <1>1, UnionIs, Zenon
<1>3. PICK i \in Starts(w) : d \in A(i)
  BY <1>2
<1>4. PICK a \in DOMAIN w[i].attrs :
        d = [w EXCEPT ![i].attrs = [b \in DOMAIN w[i].attrs \ {a} |-> w[i].attrs[b]]]
  BY <1>3
<1> DEFINE f == [b \in DOMAIN w[i].attrs \ {a} |-> w[i].attrs[b]]
           e == [w[i] EXCEPT !.attrs = f]
<1>5. i \in 1 .. Len(w) /\ w[i] \in EventOf(x) /\ w[i].kind \in Start
  BY ElementOfSeq, LenProperties DEF Starts, Start
<1>6. /\ f = [b \in DOMAIN f |-> f[b]] /\ DOMAIN f \subseteq DOMAIN w[i].attrs
      /\ \A b \in DOMAIN f : Perhaps(f[b], w[i].attrs[b])
  BY DEF Perhaps
<1>7. d = [w EXCEPT ![i] = e]
  BY <1>4
<1> HIDE DEF f
<1>8. e \in EventOf(x) /\ Weaker(e, w[i])
  BY <1>5, <1>6, EventWithAttrs, Zenon
<1> HIDE DEF e
<1> QED
  BY <1>5, <1>7, <1>8, OneChanged, Zenon

LEMMA MisspeltIs ==
  ASSUME NEW x, NEW w \in Seq(EventOf(x)), NEW d \in Misspelt(w)
  PROVE  d \in Seq(EventOf(x)) /\ \E i : Differs(d, w, i)
<1> DEFINE A(i) == {[w EXCEPT ![i].attrs[a] = Unknown] : a \in DOMAIN w[i].attrs}
           M == {A(i) : i \in Starts(w)}
           N == {[w EXCEPT ![i].text = Unknown] : i \in {j \in DOMAIN w : w[j].kind = "text"}}
<1>1. d \in UNION M \/ d \in N
  BY Zenon DEF Misspelt
<1>2. CASE d \in UNION M
  <2>2. \E m \in M : d \in m
    BY <1>2, UnionIs, Zenon
  <2>3. PICK i \in Starts(w) : d \in A(i)
    BY <2>2
  <2>4. PICK a \in DOMAIN w[i].attrs : d = [w EXCEPT ![i].attrs[a] = Unknown]
    BY <2>3
  <2> DEFINE f == [w[i].attrs EXCEPT ![a] = Unknown]
             e == [w[i] EXCEPT !.attrs = f]
  <2>5. i \in 1 .. Len(w) /\ w[i] \in EventOf(x) /\ w[i].kind \in Start
    BY ElementOfSeq, LenProperties DEF Starts, Start
  <2>6. /\ f = [b \in DOMAIN f |-> f[b]] /\ DOMAIN f \subseteq DOMAIN w[i].attrs
        /\ \A b \in DOMAIN f : Perhaps(f[b], w[i].attrs[b])
    BY DEF Perhaps
  <2>7. d = [w EXCEPT ![i] = e]
    BY <2>4
  <2> HIDE DEF f
  <2>8. e \in EventOf(x) /\ Weaker(e, w[i])
    BY <2>5, <2>6, EventWithAttrs, Zenon
  <2> HIDE DEF e
  <2> QED
    BY <2>5, <2>7, <2>8, OneChanged, Zenon
<1>3. CASE d \in N
  <2>1. PICK i \in DOMAIN w : w[i].kind = "text" /\ d = [w EXCEPT ![i].text = Unknown]
    BY <1>3
  <2> DEFINE e == [w[i] EXCEPT !.text = Unknown]
  <2>2. i \in 1 .. Len(w) /\ w[i] \in EventOf(x) /\ w[i].kind = "text"
    BY <2>1, ElementOfSeq, LenProperties
  <2>3. d = [w EXCEPT ![i] = e]
    BY <2>1
  <2>4. e \in EventOf(x) /\ Weaker(e, w[i])
    BY <2>2, EventMisspelt, Zenon
  <2> HIDE DEF e
  <2> QED
    BY <2>2, <2>3, <2>4, OneChanged, Zenon
<1> QED
  BY <1>1, <1>2, <1>3

(***************************************************************************)
(* What a document that is read may look like: w is as it was written.     *)
(***************************************************************************)
ComesFrom(d, w) ==
  \/ d = w
  \/ IsCut(d, w)
  \/ \E i, c : LacksElement(d, w, i, c)
  \/ \E i, c : LacksTags(d, w, i, c)
  \/ \E i : Differs(d, w, i)

LEMMA DamageIs ==
  ASSUME NEW x, NEW w \in Documents(EventOf(x)), NEW d, d = w \/ d \in Damaged(w)
  PROVE  d \in Seq(EventOf(x)) /\ ComesFrom(d, w)
<1>1. w \in Seq(EventOf(x))
  BY DEF Documents
<1>2. CASE d = w
  BY <1>1, <1>2 DEF ComesFrom
<1>3. CASE d \in CutShort(w)
  BY <1>3, CutIs DEF ComesFrom
<1>4. CASE d \in WithoutElement(w)
  BY <1>4, LacksElementIs DEF ComesFrom
<1>5. CASE d \in WithoutTags(w)
  BY <1>5, LacksTagsIs DEF ComesFrom
<1>6. CASE d \in WithoutAttribute(w)
  BY <1>1, <1>6, WithoutAttributeIs DEF ComesFrom
<1>7. CASE d \in Misspelt(w)
  BY <1>1, <1>7, MisspeltIs DEF ComesFrom
<1> QED
  BY <1>2, <1>3, <1>4, <1>5, <1>6, <1>7 DEF Damaged

\* every event of d is, by its kind and element, one that stands there or
\* later in w
LEMMA EventsMoveForward ==
  ASSUME NEW S, NEW w \in Documents(S), NEW d \in Seq(S), ComesFrom(d, w), NEW k \in 1 .. Len(d)
  PROVE  \E j \in k .. Len(w) : d[k].kind = w[j].kind /\ d[k].el = w[j].el
<1>1. Len(w) \in Nat /\ Len(d) \in Nat
  BY LenProperties DEF Documents
<1>2. CASE d = w
  BY <1>1, <1>2
<1>3. CASE IsCut(d, w)
  BY <1>1, <1>3 DEF IsCut
<1>4. ASSUME NEW i, NEW c, LacksElement(d, w, i, c)
      PROVE  \E j \in k .. Len(w) : d[k] = w[j]
  <2>1. c \in i .. Len(w) /\ i \in 1 .. Len(w)
    BY <1>4, ClosingIs DEF LacksElement
  <2>2. CASE k \in 1 .. i - 1
    <3>1. d[k] = w[k] /\ k \in k .. Len(w)
      BY <1>1, <1>4, <2>1, <2>2 DEF LacksElement
    <3> QED
      BY <3>1
  <2>3. CASE k \in i .. Len(d)
    <3>1. k + (c - i + 1) \in k .. Len(w)
      BY <1>1, <1>4, <2>1, <2>3 DEF LacksElement
    <3> QED
      BY <1>4, <2>3, <3>1 DEF LacksElement
  <2> QED
    BY <1>1, <2>1, <2>2, <2>3
<1>5. ASSUME NEW i, NEW c, LacksTags(d, w, i, c)
      PROVE  \E j \in k .. Len(w) : d[k] = w[j]
  <2>1. c \in i .. Len(w) /\ i \in 1 .. Len(w) /\ i < c
    BY <1>5, ClosingIs DEF LacksTags
  <2>2. Len(d) = Len(w) - 2
    BY <1>5 DEF LacksTags
  <2>3. CASE k \in 1 .. i - 1
    <3>1. d[k] = w[k] /\ k \in k .. Len(w)
      BY <1>1, <1>5, <2>1, <2>2, <2>3 DEF LacksTags
    <3> QED
      BY <3>1
  <2>4. CASE k \in i .. c - 2
    <3>1. d[k] = w[k + 1] /\ k + 1 \in k .. Len(w)
      BY <1>1, <1>5, <2>1, <2>2, <2>4 DEF LacksTags
    <3> QED
      BY <3>1
  <2>5. CASE k \in c - 1 .. Len(d)
    <3>1. d[k] = w[k + 2] /\ k + 2 \in k .. Len(w)
      BY <1>1, <1>5, <2>1, <2>2, <2>5 DEF LacksTags
    <3> QED
      BY <3>1
  <2> QED
    BY <1>1, <2>1, <2>3, <2>4, <2>5
<1>6. ASSUME NEW i, Differs(d, w, i)
      PROVE  k \in k .. Len(w) /\ d[k].kind = w[k].kind /\ d[k].el = w[k].el
  BY <1>1, <1>6 DEF Differs, Weaker
<1> QED
  BY <1>2, <1>3, <1>4, <1>5, <1>6 DEF ComesFrom

(***************************************************************************)
(* Sorting.  Place is a permutation of the positions, whose order it keeps.*)
(***************************************************************************)
\* what is sorted in front of i, and i itself
Upto(s, i) == {j \in DOMAIN s : \/ s[j].order < s[i].order
                                \/ s[j].order = s[i].order /\ j <= i}

LEMMA PlaceIs ==
  ASSUME NEW s \in Seq(SurfaceEntry)
  PROVE  /\ \A i \in 1 .. Len(s) : Place(s, i) \in 1 .. Len(s)
         /\ \A i, j \in 1 .. Len(s) :
              (s[i].order < s[j].order \/ (s[i].order = s[j].order /\ i < j))
                => Place(s, i) < Place(s, j)
         /\ \A k \in 1 .. Len(s) : \E i \in 1 .. Len(s) : Place(s, i) = k
<1> DEFINE n == Len(s)
           D == 1 .. n
<1>1. n \in Nat /\ DOMAIN s = D /\ \A i \in D : s[i].order \in Nat
  BY SurfacesOf, SurfaceFields
<1>2. \A i : Place(s, i) = Cardinality(Upto(s, i))
  BY DEF Place, Upto
<1>3. IsFiniteSet(D) /\ Cardinality(D) = n
  <2>1. 1 \in Int /\ n \in Int
    BY <1>1
  <2>2. IsFiniteSet(1 .. n) /\ Cardinality(1 .. n) = IF 1 > n THEN 0 ELSE n - 1 + 1
    BY ONLY <2>1, FS_Interval
  <2> QED
    BY <1>1, <2>2
<1>4. ASSUME NEW i \in D
      PROVE  /\ Upto(s, i) \in SUBSET D /\ IsFiniteSet(Upto(s, i))
             /\ Place(s, i) \in 1 .. n
  <2>1. Upto(s, i) \in SUBSET D /\ i \in Upto(s, i)
    BY <1>1 DEF Upto
  <2>2. /\ IsFiniteSet(Upto(s, i)) /\ Cardinality(Upto(s, i)) <= Cardinality(D)
    BY <1>3, <2>1, FS_Subset, Zenon
  <2>3. {i} \in SUBSET Upto(s, i)
    BY <2>1
  <2>4. Cardinality({i}) <= Cardinality(Upto(s, i))
    BY <2>2, <2>3, FS_Subset, Zenon
  <2>5. Cardinality({i}) = 1
    BY FS_Singleton
  <2>6. Cardinality(Upto(s, i)) \in Nat
    BY <2>2, FS_CardinalityType, Zenon
  <2> HIDE DEF D
  <2>7. Cardinality(Upto(s, i)) \in 1 .. n
    BY <1>3, <2>2, <2>4, <2>5, <2>6
  <2> QED
    BY <1>2, <2>1, <2>2, <2>7
<1>5. ASSUME NEW i \in D, NEW j \in D,
             s[i].order < s[j].order \/ (s[i].order = s[j].order /\ i < j)
      PROVE  Place(s, i) < Place(s, j)
  <2>1. Upto(s, i) \in SUBSET Upto(s, j)
    BY <1>1, <1>5 DEF Upto
  <2>2. j \in Upto(s, j) /\ j \notin Upto(s, i)
    BY <1>1, <1>5 DEF Upto
  <2>3. IsFiniteSet(Upto(s, j))
    BY <1>4
  <2>4. /\ Cardinality(Upto(s, i)) <= Cardinality(Upto(s, j))
        /\ Cardinality(Upto(s, j)) # Cardinality(Upto(s, i))
    <3>1. /\ Cardinality(Upto(s, i)) <= Cardinality(Upto(s, j))
          /\ Cardinality(Upto(s, j)) = Cardinality(Upto(s, i)) => Upto(s, j) = Upto(s, i)
      BY <2>1, <2>3, FS_Subset, Zenon
    <3> QED
      BY <2>2, <3>1
  <2>5. Place(s, i) \in Nat /\ Place(s, j) \in Nat
    BY <1>1, <1>4
  <2> QED
    BY <1>2, <2>4, <2>5
<1>6. ASSUME NEW k \in D PROVE \E i \in D : Place(s, i) = k
  <2> DEFINE f == [i \in D |-> Place(s, i)]
  <2>1. f \in [D -> D]
    BY <1>4
  <2>2. ASSUME NEW i \in D, NEW j \in D, f[i] = f[j] PROVE i = j
    <3>1. Place(s, i) = Place(s, j) /\ Place(s, i) \in Nat
      BY <1>1, <1>4, <2>2
    <3>2. /\ ~ (s[i].order < s[j].order \/ (s[i].order = s[j].order /\ i < j))
          /\ ~ (s[j].order < s[i].order \/ (s[j].order = s[i].order /\ j < i))
      BY <1>5, <3>1
    <3>3. s[i].order \in Nat /\ s[j].order \in Nat /\ i \in Nat /\ j \in Nat
      BY <1>1
    <3> QED
      BY <3>2, <3>3
  <2> HIDE DEF f, D
  <2>3. f \in Injection(D, D)
    BY <2>1, <2>2 DEF Injection, IsInjective
  <2>4. f \in Surjection(D, D)
    BY <1>3, <2>3, FS_Injection, Zenon
  <2>5. \E i \in D : f[i] = k
    BY <2>4 DEF Surjection
  <2> QED
    BY <2>5 DEF f
<1> HIDE DEF D
<1>7. /\ \A i \in D : Place(s, i) \in D
      /\ \A i, j \in D : (s[i].order < s[j].order \/ (s[i].order = s[j].order /\ i < j))
                            => Place(s, i) < Place(s, j)
      /\ \A k \in D : \E i \in D : Place(s, i) = k
  BY <1>4, <1>5, <1>6 DEF D
<1> QED
  BY <1>7 DEF D, n

\* a sorted sequence holds the same surfaces, in order; one that was in order
\* is not changed
LEMMA SortedIs ==
  ASSUME NEW s \in Seq(SurfaceEntry)
  PROVE  /\ SortedByOrder(s) \in Seq(SurfaceEntry)
         /\ Len(SortedByOrder(s)) = Len(s)
         /\ Ordered(SortedByOrder(s))
         /\ Ordered(s) => SortedByOrder(s) = s
<1> DEFINE n == Len(s)
           D == 1 .. n
           t == SortedByOrder(s)
           c(k) == CHOOSE i \in D : Place(s, i) = k
<1>1. /\ n \in Nat /\ DOMAIN s = D
      /\ \A i \in D : s[i] \in SurfaceEntry /\ s[i].order \in Nat
  BY SurfacesOf, SurfaceFields
<1>2. /\ \A i \in D : Place(s, i) \in D
      /\ \A i, j \in D : (s[i].order < s[j].order \/ (s[i].order = s[j].order /\ i < j))
                            => Place(s, i) < Place(s, j)
      /\ \A k \in D : \E i \in D : Place(s, i) = k
  BY PlaceIs
<1>3. \A k \in D : c(k) \in D /\ Place(s, c(k)) = k
  BY <1>2
<1>4. t = [k \in D |-> s[c(k)]]
  BY <1>1 DEF SortedByOrder
<1> HIDE DEF c, t
<1>5. t \in Seq(SurfaceEntry) /\ Len(t) = n /\ DOMAIN t = D
  <2>1. t \in [1 .. n -> SurfaceEntry]
    BY <1>1, <1>3, <1>4
  <2> QED
    BY <1>1, <2>1
<1> HIDE DEF D
<1>6. Ordered(t)
  <2> SUFFICES ASSUME NEW i \in D, NEW j \in D, i <= j PROVE t[i].order <= t[j].order
    BY <1>5 DEF Ordered
  <2>1. /\ c(i) \in D /\ c(j) \in D /\ Place(s, c(i)) = i /\ Place(s, c(j)) = j
        /\ t[i] = s[c(i)] /\ t[j] = s[c(j)]
    BY <1>3, <1>4
  <2>2. ~ (j < i)
    BY <1>1 DEF D
  <2>3. ~ (s[c(j)].order < s[c(i)].order)
    BY <1>2, <2>1, <2>2
  <2> QED
    BY <1>1, <2>1, <2>3
<1>7. ASSUME Ordered(s) PROVE t = s
  <2>1. ASSUME NEW i \in D PROVE Place(s, i) = i
    <3>1. Upto(s, i) = 1 .. i
      <4>1. ASSUME NEW j \in D, j <= i PROVE j \in Upto(s, i)
        <5>1. s[j].order <= s[i].order
          BY <1>1, <1>7, <4>1 DEF Ordered
        <5> QED
          BY <1>1, <4>1, <5>1 DEF Upto
      <4>2. ASSUME NEW j \in D, i < j PROVE j \notin Upto(s, i)
        <5>1. i <= j /\ ~ (j <= i)
          BY <1>1, <4>2 DEF D
        <5>2. s[i].order <= s[j].order
          BY <1>1, <1>7, <5>1 DEF Ordered
        <5> QED
          BY <1>1, <5>1, <5>2 DEF Upto
      <4>3. \A j \in D : j \in Nat /\ (j <= i \/ i < j)
        BY <1>1 DEF D
      <4>4. Upto(s, i) \subseteq D
        BY <1>1 DEF Upto
      <4>5. \A j : j \in Upto(s, i) <=> j \in D /\ j <= i
        BY <4>1, <4>2, <4>3, <4>4
      <4>6. \A j : (j \in D /\ j <= i) <=> j \in 1 .. i
        BY <1>1 DEF D
      <4> QED
        BY <4>5, <4>6
    <3>2. 1 \in Int /\ i \in Int /\ i >= 1
      BY <1>1 DEF D
    <3>3. Cardinality(1 .. i) = IF 1 > i THEN 0 ELSE i - 1 + 1
      BY ONLY <3>2, FS_Interval
    <3>4. Cardinality(1 .. i) = i
      BY <3>2, <3>3
    <3> QED
      BY <3>1, <3>4 DEF Place, Upto
  <2>2. \A k \in D : c(k) = k
    BY <1>3, <2>1
  <2>3. \A k \in 1 .. n : t[k] = s[k]
    BY <1>4, <2>2 DEF D
  <2> QED
    BY <1>5, <2>3, SeqEqual
<1> QED
  BY <1>5, <1>6, <1>7 DEF t

LEMMA TrimmedTextIs ==
  ASSUME NEW s \in SurfaceEntry
  PROVE  /\ [el \in TextElements |-> Trim[s.text[el]]] \in SurfaceText
         /\ s.text = [el \in TextElements |-> s.text[el]]
<1> DEFINE u == [el \in TextElements |-> Trim[s.text[el]]]
<1>1. /\ s.text \in [TextElements -> Texts] /\ s.text["os"] \in OsNames
      /\ s.text["codec"] \in CodecNames
  BY SurfaceFields
<1>2. Trim \in [Texts -> Texts] /\ \A t \in OsNames \cup CodecNames : Trim[t] = t
  BY ImageAssumption
<1>3. u \in [TextElements -> Texts]
  BY <1>1, <1>2
<1>4. "os" \in TextElements /\ "codec" \in TextElements
  BY DEF TextElements, HostElements
<1>5. u["os"] = s.text["os"] /\ u["codec"] = s.text["codec"]
  BY <1>1, <1>2, <1>4
<1> QED
  BY <1>1, <1>3, <1>5 DEF SurfaceText

LEMMA TrimmedSurfaceIs ==
  ASSUME NEW s \in SurfaceEntry
  PROVE  /\ TrimmedSurface(s) =
              [id |-> s.id, name |-> s.name, order |-> s.order,
               text |-> [el \in TextElements |-> Trim[s.text[el]]],
               width |-> s.width, height |-> s.height]
         /\ TrimmedSurface(s) \in SurfaceEntry
         /\ TrimmedSurface(s).order = s.order
         /\ TrimmedSurface(s) = s
              <=> \A el \in TextElements : Trim[s.text[el]] = s.text[el]
<1> DEFINE u == [el \in TextElements |-> Trim[s.text[el]]]
           t == TrimmedSurface(s)
<1>1. /\ s.id \in SurfaceIds /\ s.name \in Texts /\ s.order \in Nat
      /\ s.width \in Nat /\ s.height \in Nat
      /\ s = [id |-> s.id, name |-> s.name, order |-> s.order, text |-> s.text,
              width |-> s.width, height |-> s.height]
  BY SurfaceFields
<1>2. u \in SurfaceText /\ s.text = [el \in TextElements |-> s.text[el]]
  BY TrimmedTextIs
<1>3. u = s.text <=> \A el \in TextElements : Trim[s.text[el]] = s.text[el]
  BY <1>2
<1>4. t = [s EXCEPT !.text = u]
  BY DEF TrimmedSurface
<1> HIDE DEF u, t
<1>5. t = [id |-> s.id, name |-> s.name, order |-> s.order, text |-> u,
           width |-> s.width, height |-> s.height]
  <2>1. [[id |-> s.id, name |-> s.name, order |-> s.order, text |-> s.text,
          width |-> s.width, height |-> s.height] EXCEPT !.text = u]
          = [id |-> s.id, name |-> s.name, order |-> s.order, text |-> u,
             width |-> s.width, height |-> s.height]
    OBVIOUS
  <2> QED
    BY <1>1, <1>4, <2>1
<1>6. t \in SurfaceEntry /\ t.order = s.order
  BY <1>1, <1>2, <1>5 DEF SurfaceEntry
<1>7. t = s <=> u = s.text
  BY <1>1, <1>5
<1> QED
  BY <1>3, <1>5, <1>6, <1>7 DEF t, u

TrimmedList(s) == [i \in DOMAIN s |-> TrimmedSurface(s[i])]

LEMMA TrimmedListIs ==
  ASSUME NEW s \in Seq(SurfaceEntry)
  PROVE  /\ TrimmedList(s) \in Seq(SurfaceEntry) /\ Len(TrimmedList(s)) = Len(s)
         /\ \A i \in 1 .. Len(s) : TrimmedList(s)[i] = TrimmedSurface(s[i])
         /\ Ordered(TrimmedList(s)) <=> Ordered(s)
         /\ TrimmedList(s) = s <=> Trimmed(s)
<1> DEFINE n == Len(s)
           t == TrimmedList(s)
<1>1. /\ n \in Nat /\ DOMAIN s = 1 .. n
      /\ \A i \in 1 .. n : s[i] \in SurfaceEntry
  BY SurfacesOf
<1>2. \A i \in 1 .. n : /\ TrimmedSurface(s[i]) \in SurfaceEntry
                        /\ TrimmedSurface(s[i]).order = s[i].order
  BY <1>1, TrimmedSurfaceIs
<1>3. t = [i \in 1 .. n |-> TrimmedSurface(s[i])]
  BY <1>1 DEF TrimmedList
<1> HIDE DEF t
<1>4. t \in [1 .. n -> SurfaceEntry]
  BY <1>2, <1>3
<1>5. t \in Seq(SurfaceEntry) /\ Len(t) = n /\ DOMAIN t = 1 .. n
  BY <1>1, <1>4
<1>6. Ordered(t) <=> Ordered(s)
  BY <1>1, <1>2, <1>3, <1>5 DEF Ordered
<1>7. t = s <=> \A i \in 1 .. n : t[i] = s[i]
  <2>1. (\A i \in 1 .. n : t[i] = s[i]) => t = s
    BY <1>5, SeqEqual
  <2> QED
    BY <2>1
<1>8. t = s <=> Trimmed(s)
  <2>1. \A i \in 1 .. n : t[i] = s[i] <=>
          \A el \in TextElements : Trim[s[i].text[el]] = s[i].text[el]
    BY <1>1, <1>3, TrimmedSurfaceIs
  <2> QED
    BY <1>1, <1>7, <2>1 DEF Trimmed
<1> QED
  BY <1>3, <1>5, <1>6, <1>8 DEF t

\* reading the text form of a body
LEMMA RereadIs ==
  ASSUME NEW b \in Body
  PROVE  /\ Reread(b) = [created |-> b.created, schema |-> b.schema,
                         surfaces |-> SortedByOrder(TrimmedList(b.surfaces)),
                         scroll |-> b.scroll, focus |-> b.focus]
         /\ Reread(b) \in Body
         /\ Reread(b) = b <=> Trimmed(b.surfaces) /\ Ordered(b.surfaces)
<1> DEFINE s == b.surfaces
           t == TrimmedList(s)
           u == SortedByOrder(t)
           r == Reread(b)
<1>1. /\ s \in Seq(SurfaceEntry) /\ b.created \in Texts /\ b.schema \in Nat
      /\ b.scroll \in Int /\ b.focus \in SurfaceIds \cup {None}
      /\ b = [created |-> b.created, schema |-> b.schema, surfaces |-> s,
              scroll |-> b.scroll, focus |-> b.focus]
  BY DEF Body
<1>2. /\ t \in Seq(SurfaceEntry) /\ (Ordered(t) <=> Ordered(s)) /\ (t = s <=> Trimmed(s))
      /\ Len(t) = Len(s) /\ \A i \in 1 .. Len(s) : t[i] = TrimmedSurface(s[i])
  BY <1>1, TrimmedListIs
<1>3. u \in Seq(SurfaceEntry) /\ Ordered(u) /\ (Ordered(t) => u = t)
  BY <1>2, SortedIs
<1>4. r = [b EXCEPT !.surfaces = u]
  BY DEF Reread, TrimmedList
<1>5. u = s <=> Trimmed(s) /\ Ordered(s)
  <2>1. ASSUME u = s PROVE Trimmed(s) /\ Ordered(s)
    <3>1. Ordered(s)
      BY <1>3, <2>1
    <3>2. u = t
      BY <1>2, <1>3, <3>1
    <3> QED
      BY <1>2, <2>1, <3>1, <3>2
  <2>2. ASSUME Trimmed(s), Ordered(s) PROVE u = s
    BY <1>2, <1>3, <2>2
  <2> QED
    BY <2>1, <2>2
<1> HIDE DEF u, t, s, r
<1>6. r = [created |-> b.created, schema |-> b.schema, surfaces |-> u,
           scroll |-> b.scroll, focus |-> b.focus]
  <2>1. [[created |-> b.created, schema |-> b.schema, surfaces |-> s,
          scroll |-> b.scroll, focus |-> b.focus] EXCEPT !.surfaces = u]
          = [created |-> b.created, schema |-> b.schema, surfaces |-> u,
             scroll |-> b.scroll, focus |-> b.focus]
    OBVIOUS
  <2> QED
    BY <1>1, <1>4, <2>1
<1>7. r \in Body
  BY <1>1, <1>3, <1>6 DEF Body
<1>8. r = b <=> u = s
  BY <1>1, <1>6
<1> QED
  BY <1>5, <1>6, <1>7, <1>8 DEF r, u, t, s

WrittenOf(x) == {ToXml(x.base), ToXmlV1(x)}

LEMMA WrittenIs ==
  ASSUME NEW x \in Sources
  PROVE  /\ \A w \in WrittenOf(x) :
              /\ w \in Documents(EventOf(x))
              /\ \E extra \in Documents(TailEvents(x)) : DocumentTable(w, x, extra)
         /\ ToXmlV1(x) \in WrittenOf(x)
         /\ DocumentTable(ToXmlV1(x), x, WriteCoefficients(x))
         /\ DocumentTable(ToXml(x.base), x, <<>>)
<1>1. x \in ImageV1 /\ x.base.id \in {None, ComputeId(x.base)}
  BY ParserAssumption
<1>2. <<>> \in Documents(TailEvents(x)) /\ WriteCoefficients(x) \in Documents(TailEvents(x))
  BY <1>1, BalancedNothing, BlockIs, Zenon
<1>3. ToXml(x.base) = WriteDocument(x.base, ComputeId(x.base), <<>>)
  <2>1. (IF x.base.id = None THEN ComputeId(x.base) ELSE x.base.id) = ComputeId(x.base)
    BY <1>1
  <2> QED
    BY <2>1, Zenon DEF ToXml
<1>4. ToXmlV1(x) = WriteDocument(x.base, ComputeId(x.base), WriteCoefficients(x))
  <2>1. SessionId(x) = ComputeId(x.base)
    BY <1>1 DEF SessionId
  <2> QED
    BY <2>1, Zenon DEF ToXmlV1
<1>5. ASSUME NEW extra \in Documents(TailEvents(x))
      PROVE  /\ WriteDocument(x.base, ComputeId(x.base), extra) \in Documents(EventOf(x))
             /\ DocumentTable(WriteDocument(x.base, ComputeId(x.base), extra), x, extra)
  BY <1>1, DocumentIs, Zenon
<1>6. /\ ToXml(x.base) \in Documents(EventOf(x))
      /\ DocumentTable(ToXml(x.base), x, <<>>)
      /\ ToXmlV1(x) \in Documents(EventOf(x))
      /\ DocumentTable(ToXmlV1(x), x, WriteCoefficients(x))
  BY <1>2, <1>3, <1>4, <1>5, Zenon
<1>7. ASSUME NEW w \in WrittenOf(x)
      PROVE  /\ w \in Documents(EventOf(x))
             /\ \E extra \in Documents(TailEvents(x)) : DocumentTable(w, x, extra)
  <2>1. w = ToXml(x.base) \/ w = ToXmlV1(x)
    BY DEF WrittenOf
  <2> QED
    BY <1>2, <1>6, <2>1, Zenon
<1> QED
  BY <1>6, <1>7, Zenon DEF WrittenOf

(***************************************************************************)
(* A document whose base part is as it was written: what follows is never  *)
(* more than the coefficient block and the end of the session.             *)
(***************************************************************************)
Intact(d, x) ==
  /\ Len(d) >= PreludeEnd(x)
  /\ PreludeTable(d, x)
  /\ \A k \in PreludeEnd(x) + 1 .. Len(d) : d[k] \in TailEvents(x)

LEMMA PreludeEndIs ==
  ASSUME NEW x \in ImageV1
  PROVE  /\ Len(x.base.body.surfaces) \in Nat
         /\ SurfaceLines(x) = 20 * Len(x.base.body.surfaces) /\ SurfaceLines(x) \in Nat
         /\ FocusLines(x) \in {0, 1} /\ (x.base.body.focus # None => FocusLines(x) = 1)
         /\ (x.base.body.focus = None => FocusLines(x) = 0)
         /\ PreludeEnd(x) = SurfaceLines(x) + 6 + FocusLines(x) /\ PreludeEnd(x) \in Nat
<1>1. Len(x.base.body.surfaces) \in Nat
  BY ImageFields, SurfacesOf
<1>2. FocusLines(x) \in {0, 1} /\ (x.base.body.focus # None => FocusLines(x) = 1)
      /\ (x.base.body.focus = None => FocusLines(x) = 0)
  BY DEF FocusLines
<1>3. SurfaceLines(x) = 20 * Len(x.base.body.surfaces)
  BY DEF SurfaceLines
<1>4. PreludeEnd(x) = SurfaceLines(x) + 6 + FocusLines(x)
  BY DEF PreludeEnd
<1> DEFINE n == Len(x.base.body.surfaces)
           l == SurfaceLines(x)
           m == FocusLines(x)
<1>5. n \in Nat /\ l = 20 * n /\ m \in {0, 1}
  BY <1>1, <1>2, <1>3
<1>6. l \in Nat /\ l + 6 + m \in Nat
  <2> HIDE DEF n, l, m
  <2> QED
    BY <1>5
<1> QED
  BY <1>1, <1>2, <1>3, <1>4, <1>6, Zenon

\* the positions of a surface's events lie before the end of the surfaces
LEMMA PlaceOfLine ==
  ASSUME NEW n \in Nat, NEW i \in 1 .. n, NEW k \in 1 .. 20
  PROVE  2 + 20 * (i - 1) + k \in 3 .. 20 * n + 2
OBVIOUS

LEMMA SamePrelude ==
  ASSUME NEW x \in ImageV1, NEW w, NEW d, PreludeTable(w, x),
         \A k \in 1 .. PreludeEnd(x) : d[k] = w[k]
  PROVE  PreludeTable(d, x)
<1> DEFINE n == Len(x.base.body.surfaces)
           L == SurfaceLines(x)
           M == PreludeEnd(x)
<1>1. /\ n \in Nat /\ L = 20 * n /\ FocusLines(x) \in {0, 1}
      /\ (x.base.body.focus # None => FocusLines(x) = 1) /\ M = L + 6 + FocusLines(x)
  BY PreludeEndIs
<1> HIDE DEF n, L, M
<1>2. ASSUME NEW i \in 1 .. n, NEW k \in 1 .. 20
      PROVE  2 + 20 * (i - 1) + k \in 1 .. M
  <2>1. 2 + 20 * (i - 1) + k \in 3 .. 20 * n + 2
    BY <1>1, PlaceOfLine
  <2> QED
    BY <1>1, <2>1
<1>3. {1, 2, L + 3, L + 4, L + 5, M} \subseteq 1 .. M
  BY <1>1
<1>4. x.base.body.focus # None => L + 6 \in 1 .. M
  BY <1>1
<1>5. \A k \in 1 .. M : d[k] = w[k]
  BY DEF M
<1> QED
  BY <1>2, <1>3, <1>4, <1>5 DEF PreludeTable, n, L, M

LEMMA TextStarts ==
  /\ TextElements = {"address", "os", "machine", "capture", "codec"}
  /\ TextStart["address"] = 3 /\ TextStart["os"] = 6 /\ TextStart["machine"] = 9
  /\ TextStart["capture"] = 12 /\ TextStart["codec"] = 16
  /\ HostElements = {"address", "os", "machine", "capture"}
BY DEF TextElements, HostElements, TextStart

LEMMA SurfaceCover ==
  ASSUME NEW k \in 1 .. 20
  PROVE  \/ k \in {1, 2, 15, 19, 20}
         \/ \E el \in TextElements : k \in {TextStart[el], TextStart[el] + 1, TextStart[el] + 2}
<1>1. \/ k \in {1, 2, 15, 19, 20}
      \/ k \in {3, 3 + 1, 3 + 2} \/ k \in {6, 6 + 1, 6 + 2} \/ k \in {9, 9 + 1, 9 + 2}
      \/ k \in {12, 12 + 1, 12 + 2} \/ k \in {16, 16 + 1, 16 + 2}
  OBVIOUS
<1> QED
  BY <1>1, TextStarts

LEMMA PreludeCover ==
  ASSUME NEW x \in ImageV1, NEW q \in 1 .. PreludeEnd(x)
  PROVE  \/ q \in {1, 2, SurfaceLines(x) + 3, SurfaceLines(x) + 4, SurfaceLines(x) + 5,
                   PreludeEnd(x)}
         \/ x.base.body.focus # None /\ q = SurfaceLines(x) + 6
         \/ \E i \in 1 .. Len(x.base.body.surfaces) : \E k \in 1 .. 20 :
              q = 2 + 20 * (i - 1) + k
<1> DEFINE s == x.base.body.surfaces
           n == Len(s)
           L == SurfaceLines(x)
           M == PreludeEnd(x)
           f == FlattenSeq(Pieces(s))
<1>1. /\ n \in Nat /\ L = 20 * n /\ FocusLines(x) \in {0, 1}
      /\ (x.base.body.focus = None => FocusLines(x) = 0) /\ M = L + 6 + FocusLines(x)
  BY PreludeEndIs
<1>2. s \in Seq(SurfaceEntry)
  BY ImageFields
<1>3. Len(f) = 20 * n /\ \A p \in 1 .. Len(f) : \E i \in 1 .. n : \E k \in 1 .. 20 :
                           p = 20 * (i - 1) + k
  BY <1>2, FlatSurfaces, Zenon
<1> HIDE DEF f, n, L, M
<1>4. CASE q \in 3 .. L + 2
  <2> DEFINE p == q - 2
  <2>1. p \in 1 .. Len(f) /\ q = 2 + p
    BY <1>1, <1>3, <1>4
  <2> HIDE DEF p
  <2>2. PICK i \in 1 .. n, k \in 1 .. 20 : p = 20 * (i - 1) + k
    BY <1>3, <2>1
  <2>3. q = 2 + 20 * (i - 1) + k
    BY <1>1, <2>1, <2>2
  <2> QED
    BY <2>3 DEF n
<1>5. CASE q \notin 3 .. L + 2
  <2>1. q \in {1, 2, L + 3, L + 4, L + 5, M} \/ (FocusLines(x) = 1 /\ q = L + 6)
    BY <1>1, <1>5 DEF M
  <2> QED
    BY <1>1, <2>1 DEF L, M
<1> QED
  BY <1>4, <1>5

\* what the second pass takes up
BlockWords == BlockElements \cup {"coefficients"}

LEMMA SurfaceEvents ==
  ASSUME NEW w, NEW s, SurfaceTable(w, s), NEW k \in 1 .. 20
  PROVE  w[k].el \notin BlockWords
<1>1. CASE k \in {1, 2, 15, 19, 20}
  BY <1>1 DEF SurfaceTable, Open, Close, Empty, BlockWords, BlockElements
<1>2. ASSUME NEW el \in TextElements, k \in {TextStart[el], TextStart[el] + 1, TextStart[el] + 2}
      PROVE  w[k].el \notin BlockWords
  <2>1. TextAt(w, s, el)
    BY DEF SurfaceTable
  <2>2. w[k] = Open(el, <<>>) \/ w[k] = TextEvent(s.text[el]) \/ w[k] = Close(el)
    BY <1>2, <2>1 DEF TextAt
  <2>3. w[k].el \in {el, ""}
    <3> DEFINE e == w[k]
    <3>1. e = Open(el, <<>>) \/ e = TextEvent(s.text[el]) \/ e = Close(el)
      BY <2>2
    <3> HIDE DEF e
    <3>2. Open(el, <<>>).el = el /\ TextEvent(s.text[el]).el = "" /\ Close(el).el = el
      BY DEF Open, Close, TextEvent
    <3>3. e.el = el \/ e.el = ""
      BY <3>1, <3>2, Zenon
    <3> QED
      BY <3>3 DEF e
  <2> QED
    BY <2>3, TextStarts DEF BlockWords, BlockElements
<1> QED
  BY <1>1, <1>2, SurfaceCover

LEMMA PreludeEvents ==
  ASSUME NEW x \in ImageV1, NEW w, PreludeTable(w, x), NEW q \in 1 .. PreludeEnd(x)
  PROVE  w[q].el \notin BlockWords
<1>1. CASE q \in {1, 2, SurfaceLines(x) + 3, SurfaceLines(x) + 4, SurfaceLines(x) + 5,
                   PreludeEnd(x)}
  <2>1. w[q] \in {Open("session", SessionAttrs(x)), Open("surfaces", <<>>), Close("surfaces"),
                  Open("layout", <<>>), Empty("strip", [scrollPos |-> x.base.body.scroll]),
                  Close("layout")}
    BY <1>1 DEF PreludeTable
  <2> QED
    BY <2>1 DEF Open, Close, Empty, BlockWords, BlockElements
<1>2. CASE x.base.body.focus # None /\ q = SurfaceLines(x) + 6
  <2>1. w[q] = Empty("focus", RefAttrs(x.base.body.focus))
    BY <1>2 DEF PreludeTable
  <2> QED
    BY <2>1 DEF Empty, BlockWords, BlockElements
<1>3. ASSUME NEW i \in 1 .. Len(x.base.body.surfaces), NEW k \in 1 .. 20,
             q = 2 + 20 * (i - 1) + k
      PROVE  w[q].el \notin BlockWords
  <2> DEFINE e == WriteSurface(x.base.body.surfaces[i])
  <2>1. w[q] = e[k]
    BY <1>3 DEF PreludeTable
  <2>2. x.base.body.surfaces[i] \in SurfaceEntry
    BY ImageFields, SurfacesOf
  <2>3. SurfaceTable(e, x.base.body.surfaces[i])
    BY <2>2, SurfaceIs, Zenon
  <2> HIDE DEF e
  <2> QED
    BY <2>1, <2>3, SurfaceEvents
<1> QED
  BY <1>1, <1>2, <1>3, PreludeCover

\* a written document is intact
LEMMA WrittenIntact ==
  ASSUME NEW x \in Sources, NEW w \in WrittenOf(x)
  PROVE  Intact(w, x)
<1>1. PICK extra \in Documents(TailEvents(x)) : DocumentTable(w, x, extra)
  BY WrittenIs
<1> DEFINE M == PreludeEnd(x)
<1>2. /\ PreludeTable(w, x) /\ Len(w) = M + Len(extra) + 1 /\ w[Len(w)] = Close("session")
      /\ \A i \in 1 .. Len(extra) : w[M + i] = extra[i]
  BY <1>1 DEF DocumentTable
<1>3. M \in Nat
  BY ParserAssumption, PreludeEndIs
<1>4. Len(extra) \in Nat /\ \A i \in 1 .. Len(extra) : extra[i] \in TailEvents(x)
  BY LenProperties, ElementOfSeq DEF Documents
<1>5. Close("session") \in TailEvents(x)
  <2>1. "session" \in Elements
    BY DEF Elements
  <2>2. Close("session") \in EventOf(x)
    BY <2>1, NoAttrs
  <2> QED
    BY <2>2 DEF TailEvents, TailElements, Close
<1> HIDE DEF M
<1>6. ASSUME NEW k \in M + 1 .. Len(w) PROVE w[k] \in TailEvents(x)
  <2>1. CASE k = Len(w)
    BY <1>2, <1>5, <2>1
  <2>2. CASE k # Len(w)
    <3> DEFINE i == k - M
    <3>1. i \in 1 .. Len(extra) /\ k = M + i
      BY <1>2, <1>3, <1>4, <2>2
    <3> HIDE DEF i
    <3> QED
      BY <1>2, <1>4, <3>1
  <2> QED
    BY <2>1, <2>2
<1>7. Len(w) >= M
  BY <1>2, <1>3, <1>4
<1> QED
  BY <1>2, <1>6, <1>7 DEF Intact, M

BlockStartsAt(d, i) == d[i].kind = "open" /\ d[i].el = "coefficients"

PreludeEndsAt(S, d, m) ==
  /\ m \in 0 .. Len(d)
  /\ Prelude(d) \in Seq(S) /\ Len(Prelude(d)) = m
  /\ \A k \in 1 .. m : Prelude(d)[k] = d[k] /\ ~ BlockStartsAt(d, k)
  /\ m = Len(d) \/ BlockStartsAt(d, m + 1)

LEMMA PreludeIs ==
  ASSUME NEW S, NEW d \in Seq(S)
  PROVE  \E m : PreludeEndsAt(S, d, m)
<1> DEFINE starts == {i \in DOMAIN d : d[i].kind = "open" /\ d[i].el = "coefficients"}
           c == CHOOSE i \in starts : \A j \in starts : i <= j
<1>1. Len(d) \in Nat /\ DOMAIN d = 1 .. Len(d)
  BY LenProperties
<1>2. \A i \in 1 .. Len(d) : i \in starts <=> BlockStartsAt(d, i)
  BY <1>1 DEF BlockStartsAt
<1>3. starts \subseteq 1 .. Len(d)
  BY <1>1
<1>4. Prelude(d) = IF starts = {} THEN d ELSE SubSeq(d, 1, c - 1)
  BY DEF Prelude
<1> HIDE DEF starts
<1>5. CASE starts = {}
  <2>1. PreludeEndsAt(S, d, Len(d))
    BY <1>1, <1>2, <1>4, <1>5 DEF PreludeEndsAt
  <2> QED
    BY <2>1
<1>6. CASE starts # {}
  <2>1. starts \in SUBSET Nat
    BY <1>1, <1>3
  <2>2. \E i \in starts : \A j \in starts : i <= j
    BY <1>6, <2>1, LeastOf, Zenon
  <2>3. c \in starts /\ \A j \in starts : c <= j
    BY <2>2
  <2> HIDE DEF c
  <2>4. /\ c \in 1 .. Len(d) /\ BlockStartsAt(d, c)
        /\ \A k \in 1 .. c - 1 : ~ BlockStartsAt(d, k)
    BY <1>1, <1>2, <1>3, <2>3
  <2> DEFINE y == SubSeq(d, 1, c - 1)
  <2>5. PieceIs(S, y, d, 1, c - 1)
    <3>1. 1 \in Nat /\ c - 1 \in Nat /\ 1 <= 1 /\ 1 <= (c - 1) + 1 /\ c - 1 <= Len(d)
      BY <1>1, <2>4
    <3> QED
      BY <3>1, PieceOf, Zenon
  <2>6. Prelude(d) = y
    BY <1>4, <1>6
  <2> HIDE DEF y
  <2>7. y \in Seq(S) /\ Len(y) = c - 1 /\ \A k \in 1 .. c - 1 : y[k] = d[k]
    <3>1. /\ y \in Seq(S) /\ Len(y) = (c - 1) - 1 + 1
          /\ \A k \in 1 .. (c - 1) - 1 + 1 : y[k] = d[1 - 1 + k]
      BY <2>5 DEF PieceIs
    <3>2. ASSUME NEW k \in 1 .. c - 1 PROVE y[k] = d[k]
      <4>1. k \in 1 .. (c - 1) - 1 + 1 /\ 1 - 1 + k = k
        BY <1>1, <2>4
      <4> QED
        BY <3>1, <4>1
    <3> QED
      BY <1>1, <2>4, <3>1, <3>2
  <2>8. (c - 1) + 1 = c /\ c - 1 \in 0 .. Len(d)
    BY <1>1, <2>4
  <2>9. PreludeEndsAt(S, d, c - 1)
    BY <2>4, <2>6, <2>7, <2>8 DEF PreludeEndsAt
  <2> QED
    BY <2>9
<1> QED
  BY <1>5, <1>6

\* a document that begins as the v1 form does, up to its coefficient block,
\* has all of the base part
LEMMA SamePreludeIsIntact ==
  ASSUME NEW x \in Sources, NEW w \in WrittenOf(x), NEW d \in Seq(EventOf(x)),
         ComesFrom(d, w), Prelude(d) = Prelude(ToXmlV1(x))
  PROVE  Intact(d, x)
<1> DEFINE v == ToXmlV1(x)
           M == PreludeEnd(x)
           S == EventOf(x)
           u == WriteCoefficients(x)
<1>1. x \in ImageV1 /\ M \in Nat
  BY ParserAssumption, PreludeEndIs
<1>2. v \in Documents(S) /\ w \in Documents(S) /\ DocumentTable(v, x, u)
  BY WrittenIs
<1>3. u[1] = Open("coefficients", <<>>) /\ Len(u) \in Nat /\ Len(u) >= 2
  <2> DEFINE f == FlattenSeq(CoefficientPieces(x))
             T == TailEvents(x)
  <2>1. ElementOf(T, u, "coefficients", <<>>, f) /\ \E at : LaidOut(T, f, CoefficientPieces(x),
                Len(x.base.body.surfaces), at)
    BY <1>1, BlockIs, Zenon
  <2> HIDE DEF f, T, u
  <2>2. f \in Seq(T)
    BY <2>1 DEF LaidOut
  <2>3. Len(f) \in Nat
    BY <2>2, LenProperties
  <2> QED
    BY <2>1, <2>3 DEF ElementOf
<1> HIDE DEF v, M, S, u
<1>4. v \in Seq(S) /\ w \in Seq(S) /\ d \in Seq(S)
  BY <1>2 DEF Documents, S
<1>5. /\ PreludeTable(v, x) /\ Len(v) = M + Len(u) + 1
      /\ \A i \in 1 .. Len(u) : v[M + i] = u[i]
  BY <1>2 DEF DocumentTable, M
<1>6. \A k \in 1 .. M : ~ BlockStartsAt(v, k)
  BY <1>1, <1>5, PreludeEvents DEF BlockStartsAt, M, BlockWords
<1>7. BlockStartsAt(v, M + 1)
  <2>1. v[M + 1] = Open("coefficients", <<>>)
    BY <1>3, <1>5
  <2> QED
    BY <2>1 DEF BlockStartsAt, Open
<1>8. PICK m : PreludeEndsAt(S, v, m)
  BY <1>4, PreludeIs
<1>9. m = M
  <2>1. /\ m \in Nat /\ m <= Len(v) /\ \A k \in 1 .. m : ~ BlockStartsAt(v, k)
        /\ m = Len(v) \/ BlockStartsAt(v, m + 1)
    BY <1>1, <1>3, <1>5, <1>8 DEF PreludeEndsAt
  <2>2. ~ (m > M)
    BY <1>1, <1>7, <2>1
  <2>3. ~ (m < M)
    <3> SUFFICES ASSUME m < M PROVE FALSE
      OBVIOUS
    <3>1. m # Len(v) /\ m + 1 \in 1 .. M
      BY <1>1, <1>3, <1>5, <2>1
    <3> QED
      BY <1>6, <2>1, <3>1
  <2> QED
    BY <1>1, <2>1, <2>2, <2>3
<1>10. PICK l : PreludeEndsAt(S, d, l)
  BY <1>4, PreludeIs
<1>11. l = M /\ Len(d) >= M /\ Len(d) \in Nat
  <2>1. Prelude(d) = Prelude(v)
    BY DEF v
  <2>2. Len(d) \in Nat
    BY <1>4, LenProperties
  <2> QED
    BY <1>1, <1>8, <1>9, <1>10, <2>1, <2>2 DEF PreludeEndsAt
<1>12. \A k \in 1 .. M : d[k] = v[k]
  <2>1. Prelude(d) = Prelude(v)
    BY DEF v
  <2> QED
    BY <1>8, <1>9, <1>10, <1>11, <2>1 DEF PreludeEndsAt
<1>13. PreludeTable(d, x)
  BY <1>1, <1>5, <1>12, SamePrelude, Zenon DEF M
<1>14. ASSUME NEW k \in M + 1 .. Len(d) PROVE d[k] \in TailEvents(x)
  <2>1. k \in 1 .. Len(d) /\ k \in Nat /\ k > M
    BY <1>1, <1>11
  <2>2. w \in Documents(EventOf(x)) /\ d \in Seq(EventOf(x))
    BY <1>2 DEF S
  <2>3. PICK j \in k .. Len(w) : d[k].kind = w[j].kind /\ d[k].el = w[j].el
    BY <2>1, <2>2, EventsMoveForward
  <2>4. Len(w) \in Nat
    BY <1>4, LenProperties
  <2>5. j \in M + 1 .. Len(w)
    BY <1>1, <2>1, <2>4
  <2>6. w[j] \in TailEvents(x)
    BY <2>5, WrittenIntact DEF Intact, M
  <2>7. d[k] \in EventOf(x)
    BY <2>1, <2>2, ElementOfSeq
  <2> QED
    BY <2>3, <2>6, <2>7 DEF TailEvents
<1> QED
  BY <1>11, <1>13, <1>14 DEF Intact, M

(***************************************************************************)
(* The types of the variables, strengthened so that they are inductive:    *)
(* what the document holds, and what a builder has checked so far.         *)
(***************************************************************************)
BuilderOK(b) ==
  /\ b \in Builder
  /\ "os" \in DOMAIN b.text => b.text["os"] \in OsNames
  /\ "codec" \in DOMAIN b.text => b.text["codec"] \in CodecNames

DocumentInv ==
  /\ source \in Sources
  /\ reader \in {"v0", "v1"}
  /\ doc \in Seq(EventOf(source))
  /\ \E w \in WrittenOf(source) : ComesFrom(doc, w)

BaseTypes ==
  /\ session \in [id : {None, Unknown, ComputeId(source.base)},
                  created : Texts \cup {None}, schema : Nat]
  /\ surfaces \in Seq(SurfaceEntry)
  /\ layout \in [scroll : Int, focus : SurfaceIds \cup {None}]
  /\ surface # None => BuilderOK(surface)
  /\ inHost \in BOOLEAN
  /\ target \in TextElements \cup {None}
  /\ buf \in Texts

BlockTypes ==
  /\ inCoefficients \in BOOLEAN
  /\ entry # None => entry \in EntryBuilder
  /\ coefficients \in Seq(SurfaceCoefficient)

ReadInv ==
  /\ DocumentInv
  /\ pos \in 1 .. Len(doc) + 1
  /\ phase \in {"base", "coefficients", "accepted", "rejected"}
  /\ BaseTypes
  /\ phase \in {"coefficients", "accepted"} => image \in ReadImage
  /\ BlockTypes

LEMMA ReadAttribute ==
  ASSUME NEW x, NEW e \in EventOf(x), e.kind \in Start
  PROVE  /\ DOMAIN e.attrs \subseteq DOMAIN Fields(x, e.el)
         /\ \A a \in DOMAIN e.attrs : e.attrs[a] \in Fields(x, e.el)[a] \cup {Unknown}
         /\ e.attrs = [a \in DOMAIN e.attrs |-> e.attrs[a]]
<1>1. e.attrs \in AttrsOf(Fields(x, e.el))
  BY EventFields DEF Start
<1> QED
  BY <1>1, AttrsAre

LEMMA ReadInit == Init => ReadInv
<1> SUFFICES ASSUME Init PROVE ReadInv
  OBVIOUS
<1>1. source \in Sources /\ reader \in {"v0", "v1"} /\ source \in ImageV1
  BY ParserAssumption DEF Init
<1>2. PICK w \in WrittenOf(source) : doc = w \/ doc \in Damaged(w)
  <2>1. Written = WrittenOf(source)
    BY DEF Written, WrittenOf
  <2>2. doc \in Written \/ \E d \in Written : doc \in Damaged(d)
    BY DEF Init
  <2> QED
    BY <2>1, <2>2
<1>3. w \in Documents(EventOf(source))
  BY <1>1, <1>2, WrittenIs
<1>4. doc \in Seq(EventOf(source)) /\ ComesFrom(doc, w)
  BY <1>2, <1>3, DamageIs, Zenon
<1>5. pos \in 1 .. Len(doc) + 1
  <2>1. Len(doc) \in Nat
    BY <1>4, LenProperties
  <2> QED
    BY <2>1 DEF Init
<1>6. DocumentInv
  BY <1>1, <1>4 DEF DocumentInv
<1>7. BaseTypes
  <2>1. session \in [id : {None, Unknown, ComputeId(source.base)},
                     created : Texts \cup {None}, schema : Nat]
    <3>1. session = [id |-> None, created |-> None, schema |-> 1]
      BY DEF Init
    <3> QED
      BY <3>1
  <2>2. surfaces \in Seq(SurfaceEntry) /\ surface = None /\ inHost \in BOOLEAN
    <3>1. surfaces = <<>> /\ surface = None /\ inHost = FALSE
      BY DEF Init
    <3>2. <<>> \in Seq(SurfaceEntry)
      OBVIOUS
    <3> QED
      BY <3>1, <3>2
  <2>3. layout \in [scroll : Int, focus : SurfaceIds \cup {None}]
    <3>1. layout = [scroll |-> 0, focus |-> None]
      BY DEF Init
    <3> QED
      BY <3>1
  <2>4. target \in TextElements \cup {None} /\ buf \in Texts
    BY ParserAssumption DEF Init
  <2> QED
    BY <2>1, <2>2, <2>3, <2>4 DEF BaseTypes
<1>8. BlockTypes /\ phase = "base"
  <2>1. /\ inCoefficients = FALSE /\ entry = None /\ coefficients = <<>> /\ phase = "base"
    BY DEF Init
  <2>2. <<>> \in Seq(SurfaceCoefficient)
    OBVIOUS
  <2> QED
    BY <2>1, <2>2 DEF BlockTypes
<1> QED
  BY <1>5, <1>6, <1>7, <1>8 DEF ReadInv

\* taking an event keeps what does not depend on it
LEMMA Taking ==
  ASSUME ReadInv, NEW pass, NEW kinds, Takes(pass, kinds)
  PROVE  /\ Event \in EventOf(source) /\ Event.kind \in kinds /\ pos \in 1 .. Len(doc)
         /\ DocumentInv' /\ pos' \in 1 .. Len(doc') + 1
         /\ phase' = phase /\ phase = pass /\ source' = source
<1>1. Len(doc) \in Nat
  BY LenProperties DEF ReadInv, DocumentInv
<1>2. /\ pos \in 1 .. Len(doc) /\ pos' = pos + 1 /\ Event.kind \in kinds
      /\ source' = source /\ reader' = reader /\ doc' = doc /\ phase' = phase /\ phase = pass
  BY <1>1 DEF Takes, ReadInv, documentVars
<1>3. Event \in EventOf(source)
  BY <1>2, ElementOfSeq DEF Event, ReadInv, DocumentInv
<1>4. DocumentInv'
  BY <1>2 DEF ReadInv, DocumentInv
<1> QED
  BY <1>1, <1>2, <1>3, <1>4

\* a step of the first pass
LEMMA BaseStepTypes ==
  ASSUME ReadInv, NEW kinds, Takes("base", kinds), BaseTypes', UNCHANGED <<image, coefficientVars>>
  PROVE  ReadInv'
<1>1. DocumentInv' /\ pos' \in 1 .. Len(doc') + 1 /\ phase' = "base"
  BY Taking
<1>2. BlockTypes'
  BY DEF ReadInv, BlockTypes, coefficientVars
<1> QED
  BY <1>1, <1>2 DEF ReadInv

\* a step of the second
LEMMA BlockStepTypes ==
  ASSUME ReadInv, NEW kinds, Takes("coefficients", kinds), BlockTypes', UNCHANGED baseVars
  PROVE  ReadInv'
<1>1. /\ DocumentInv' /\ pos' \in 1 .. Len(doc') + 1
      /\ phase' = phase /\ source' = source
  BY Taking
<1>2. BaseTypes' /\ image' = image
  BY <1>1 DEF ReadInv, BaseTypes, baseVars
<1> QED
  BY <1>1, <1>2 DEF ReadInv

(***************************************************************************)
(* The steps of the first pass.                                            *)
(***************************************************************************)
LEMMA SessionTypes == ASSUME ReadInv, StartSession PROVE ReadInv'
<1>1. Takes("base", Start) /\ Event.el = "session" /\ UNCHANGED <<image, coefficientVars>>
  BY DEF StartSession, BaseStart
<1>2. /\ Event \in EventOf(source) /\ Event.kind \in Start /\ source' = source
  BY <1>1, Taking
<1> DEFINE e == Event
           x == source
<1>3. \A a \in DOMAIN e.attrs : e.attrs[a] \in Fields(x, e.el)[a] \cup {Unknown}
  BY <1>2, ReadAttribute
<1>4. e.el = "session"
  BY <1>1
<1> HIDE DEF e, x
<1>5. /\ "id" \in DOMAIN e.attrs => e.attrs["id"] \in {ComputeId(x.base), Unknown}
      /\ "created" \in DOMAIN e.attrs => e.attrs["created"] \in Texts \cup {Unknown}
      /\ "schemaVersion" \in DOMAIN e.attrs => e.attrs["schemaVersion"] \in Nat \cup {Unknown}
  <2> DEFINE F == Fields(x, "session")
  <2>1. /\ F["id"] = {ComputeId(x.base)} /\ F["created"] = Texts /\ F["schemaVersion"] = Nat
    BY FieldsAre
  <2>2. \A a \in DOMAIN e.attrs : e.attrs[a] \in F[a] \cup {Unknown}
    BY <1>3, <1>4
  <2> HIDE DEF F
  <2> QED
    BY <2>1, <2>2
<1>6. /\ Attribute("id", None) \in {None, Unknown, ComputeId(x.base)}
      /\ Attribute("created", None) \in Texts \cup {None}
      /\ Attribute("schemaVersion", 1) \in Nat
  <2>1. Unknown \in Texts
    BY ParserAssumption
  <2>2. Attribute("schemaVersion", 1) # Unknown
    BY DEF StartSession
  <2> QED
    BY <1>5, <2>1, <2>2 DEF Attribute, e
<1>7. session' = [id |-> Attribute("id", None), created |-> Attribute("created", None),
                  schema |-> Attribute("schemaVersion", 1)]
  BY DEF StartSession
<1>8. session' \in [id : {None, Unknown, ComputeId(source'.base)},
                    created : Texts \cup {None}, schema : Nat]
  <2> DEFINE i == Attribute("id", None)
             c == Attribute("created", None)
             v == Attribute("schemaVersion", 1)
  <2>1. /\ session' = [id |-> i, created |-> c, schema |-> v]
        /\ i \in {None, Unknown, ComputeId(x.base)} /\ c \in Texts \cup {None} /\ v \in Nat
    BY <1>6, <1>7
  <2>2. source'.base = x.base
    BY <1>2 DEF x
  <2> HIDE DEF i, c, v
  <2> QED
    BY <2>1, <2>2
<1>9. BaseTypes'
  <2>1. buf' \in Texts
    BY ParserAssumption DEF StartSession, BaseStart
  <2> QED
    BY <1>8, <2>1 DEF StartSession, ReadInv, BaseTypes
<1> QED
  BY <1>1, <1>9, BaseStepTypes, Zenon

\* the fields of a surface's start tag
LEMMA SurfaceTag ==
  ASSUME NEW x, NEW e \in EventOf(x), e.kind \in Start, e.el = "surface",
         {"id", "order", "name"} \subseteq DOMAIN e.attrs,
         e.attrs["id"] # Unknown, e.attrs["order"] # Unknown
  PROVE  /\ e.attrs["id"] \in SurfaceIds /\ e.attrs["order"] \in Nat
         /\ e.attrs["name"] \in Texts
<1>1. \A a \in DOMAIN e.attrs : e.attrs[a] \in Fields(x, e.el)[a] \cup {Unknown}
  BY ReadAttribute
<1>2. Unknown \in Texts
  BY ParserAssumption
<1> DEFINE F == Fields(x, "surface")
<1>3. F["id"] = SurfaceIds /\ F["order"] = Nat /\ F["name"] = Texts
  BY FieldsAre
<1>4. \A a \in DOMAIN e.attrs : e.attrs[a] \in F[a] \cup {Unknown}
  BY <1>1
<1> HIDE DEF F
<1> QED
  BY <1>2, <1>3, <1>4

LEMMA SizeTag ==
  ASSUME NEW x, NEW e \in EventOf(x), e.kind \in Start, e.el = "dimensions",
         {"width", "height"} \subseteq DOMAIN e.attrs,
         e.attrs["width"] # Unknown, e.attrs["height"] # Unknown
  PROVE  e.attrs \in [width : Nat, height : Nat]
<1>1. /\ \A a \in DOMAIN e.attrs : e.attrs[a] \in Fields(x, e.el)[a] \cup {Unknown}
      /\ DOMAIN e.attrs \subseteq DOMAIN Fields(x, e.el)
      /\ e.attrs = [a \in DOMAIN e.attrs |-> e.attrs[a]]
  BY ReadAttribute
<1> DEFINE f == e.attrs
           F == Fields(x, "dimensions")
<1>5. F["width"] = Nat /\ F["height"] = Nat /\ DOMAIN F = {"width", "height"}
  <2>1. F["width"] = Nat /\ F["height"] = Nat /\ DOMAIN F = {"height", "width"}
    BY FieldsAre, Zenon
  <2> HIDE DEF F
  <2> QED
    BY <2>1
<1>6. /\ \A a \in DOMAIN f : f[a] \in F[a] \cup {Unknown}
      /\ DOMAIN f \subseteq DOMAIN F /\ f = [a \in DOMAIN f |-> f[a]]
  BY <1>1
<1>7. {"width", "height"} \subseteq DOMAIN f /\ f["width"] # Unknown /\ f["height"] # Unknown
  OBVIOUS
<1> HIDE DEF f, F
<1>2. /\ DOMAIN f = {"width", "height"} /\ f = [a \in DOMAIN f |-> f[a]]
      /\ f["width"] \in Nat /\ f["height"] \in Nat
  BY <1>5, <1>6, <1>7
<1> HIDE DEF f
<1>3. f = [width |-> f["width"], height |-> f["height"]]
  BY <1>2
<1>4. f \in [width : Nat, height : Nat]
  BY <1>2, <1>3
<1> QED
  BY <1>4 DEF f

LEMMA OneFieldTag ==
  ASSUME NEW x, NEW e \in EventOf(x), e.kind \in Start
  PROVE  /\ (e.el = "strip" /\ "scrollPos" \in DOMAIN e.attrs /\ e.attrs["scrollPos"] # Unknown)
              => e.attrs["scrollPos"] \in Int
         /\ (e.el = "focus" /\ "surfaceRef" \in DOMAIN e.attrs /\ e.attrs["surfaceRef"] # Unknown)
              => e.attrs["surfaceRef"] \in SurfaceIds
         /\ (e.el = "surface-coefficient" /\ "surfaceRef" \in DOMAIN e.attrs
               /\ e.attrs["surfaceRef"] # Unknown)
              => e.attrs["surfaceRef"] \in SurfaceIds
         /\ (e.el = "linearity" /\ "count" \in DOMAIN e.attrs /\ e.attrs["count"] # Unknown)
              => e.attrs["count"] \in Linearity
<1>1. \A a \in DOMAIN e.attrs : e.attrs[a] \in Fields(x, e.el)[a] \cup {Unknown}
  BY ReadAttribute
<1>2. /\ Fields(x, "strip")["scrollPos"] = Int
      /\ Fields(x, "focus")["surfaceRef"] = SurfaceIds
      /\ Fields(x, "surface-coefficient")["surfaceRef"] = SurfaceIds
      /\ Fields(x, "linearity")["count"] = Linearity
  BY FieldsAre
<1>3. ASSUME NEW el, NEW a, NEW T, Fields(x, el)[a] = T, e.el = el, a \in DOMAIN e.attrs,
             e.attrs[a] # Unknown
      PROVE  e.attrs[a] \in T
  BY <1>1, <1>3
<1> QED
  BY <1>2, <1>3

LEMMA NewBuilder ==
  ASSUME NEW i \in SurfaceIds, NEW n \in Texts, NEW o \in Nat
  PROVE  BuilderOK([id |-> i, name |-> n, order |-> o, text |-> <<>>, size |-> None])
<1> DEFINE T == UNION {[E -> Texts] : E \in SUBSET TextElements}
<1>1. <<>> \in T
  <2>1. <<>> \in [{} -> Texts] /\ {} \in SUBSET TextElements
    OBVIOUS
  <2> QED
    BY <2>1
<1>2. DOMAIN <<>> = {}
  OBVIOUS
<1> DEFINE b == [id |-> i, name |-> n, order |-> o, text |-> <<>>, size |-> None]
<1>3. b \in [id : SurfaceIds, name : Texts, order : Nat, text : T,
             size : [width : Nat, height : Nat] \cup {None}]
  <2> HIDE DEF T
  <2> QED
    BY <1>1
<1>4. b \in Builder
  BY <1>3 DEF Builder
<1>5. DOMAIN b.text = {}
  BY <1>2
<1> HIDE DEF b
<1>6. BuilderOK(b)
  BY <1>4, <1>5 DEF BuilderOK
<1> QED
  BY <1>6 DEF b

LEMMA BuilderFields ==
  ASSUME NEW b
  PROVE  b \in Builder <=>
           /\ b = [id |-> b.id, name |-> b.name, order |-> b.order, text |-> b.text,
                   size |-> b.size]
           /\ b.id \in SurfaceIds /\ b.name \in Texts /\ b.order \in Nat
           /\ b.text = [el \in DOMAIN b.text |-> b.text[el]]
           /\ DOMAIN b.text \subseteq TextElements
           /\ \A el \in DOMAIN b.text : b.text[el] \in Texts
           /\ b.size \in [width : Nat, height : Nat] \cup {None}
<1> DEFINE T == UNION {[E -> Texts] : E \in SUBSET TextElements}
           Z == [width : Nat, height : Nat] \cup {None}
<1>1. ASSUME NEW f
      PROVE  f \in T <=> /\ f = [el \in DOMAIN f |-> f[el]] /\ DOMAIN f \subseteq TextElements
                         /\ \A el \in DOMAIN f : f[el] \in Texts
  <2>1. f \in T <=> \E E \in SUBSET TextElements : f \in [E -> Texts]
    BY UnionIs
  <2> QED
    BY <2>1
<1>2. b \in Builder <=> b \in [id : SurfaceIds, name : Texts, order : Nat, text : T, size : Z]
  BY DEF Builder
<1> HIDE DEF T, Z
<1>3. b \in [id : SurfaceIds, name : Texts, order : Nat, text : T, size : Z] <=>
        /\ b = [id |-> b.id, name |-> b.name, order |-> b.order, text |-> b.text,
                size |-> b.size]
        /\ b.id \in SurfaceIds /\ b.name \in Texts /\ b.order \in Nat /\ b.text \in T
        /\ b.size \in Z
  OBVIOUS
<1> QED
  BY <1>1, <1>2, <1>3 DEF Z

LEMMA SurfaceStartTypes == ASSUME ReadInv, StartSurface PROVE ReadInv'
<1>1. Takes("base", Start) /\ Event.el = "surface" /\ UNCHANGED <<image, coefficientVars>>
  BY DEF StartSurface, BaseStart
<1>2. Event \in EventOf(source) /\ Event.kind \in Start /\ source' = source
  BY <1>1, Taking
<1> DEFINE e == Event
<1>3. /\ {"id", "order", "name"} \subseteq DOMAIN e.attrs
      /\ e.attrs["id"] # Unknown /\ e.attrs["order"] # Unknown
  BY DEF StartSurface, Knows, Has
<1>4. /\ e.attrs["id"] \in SurfaceIds /\ e.attrs["order"] \in Nat /\ e.attrs["name"] \in Texts
  BY <1>1, <1>2, <1>3, SurfaceTag
<1>5. BuilderOK([id |-> e.attrs["id"], name |-> e.attrs["name"], order |-> e.attrs["order"],
                 text |-> <<>>, size |-> None])
  BY <1>4, NewBuilder
<1>6. surface' = [id |-> e.attrs["id"], name |-> e.attrs["name"], order |-> e.attrs["order"],
                  text |-> <<>>, size |-> None]
  BY DEF StartSurface
<1> HIDE DEF e
<1>7. BuilderOK(surface')
  BY <1>5, <1>6
<1>8. buf' \in Texts
  BY ParserAssumption DEF StartSurface, BaseStart
<1>9. BaseTypes'
  BY <1>2, <1>7, <1>8 DEF StartSurface, ReadInv, BaseTypes
<1> QED
  BY <1>1, <1>9, BaseStepTypes, Zenon

LEMMA PlainStartTypes ==
  ASSUME ReadInv, StartHost \/ StartText \/ StartOther PROVE ReadInv'
<1>1. \E el : BaseStart(el) /\ (StartText => el \in TextElements)
  BY DEF StartHost, StartText, StartOther
<1>2. Takes("base", Start) /\ UNCHANGED <<image, coefficientVars>> /\ buf' = Blank
  BY <1>1 DEF BaseStart
<1>3. source' = source
  BY <1>2, Taking
<1>4. buf' \in Texts
  BY <1>2, ParserAssumption
<1>5. CASE StartHost
  BY <1>3, <1>4, <1>5, BaseStepTypes, <1>2 DEF StartHost, ReadInv, BaseTypes
<1>6. CASE StartText
  <2>1. target' \in TextElements
    BY <1>6 DEF StartText, BaseStart
  <2>2. BaseTypes'
    BY <1>3, <1>4, <1>6, <2>1 DEF StartText, ReadInv, BaseTypes
  <2> QED
    BY <1>2, <2>2, BaseStepTypes, Zenon
<1>7. CASE StartOther
  <2>2. BaseTypes'
    BY <1>3, <1>4, <1>7 DEF StartOther, ReadInv, BaseTypes
  <2> QED
    BY <1>2, <2>2, BaseStepTypes, Zenon
<1> QED
  BY <1>5, <1>6, <1>7

LEMMA SizedBuilder ==
  ASSUME NEW b, BuilderOK(b), NEW z \in [width : Nat, height : Nat]
  PROVE  BuilderOK([b EXCEPT !.size = z])
<1> DEFINE c == [b EXCEPT !.size = z]
           T == UNION {[E -> Texts] : E \in SUBSET TextElements}
           Z == [width : Nat, height : Nat] \cup {None}
<1>1. b \in [id : SurfaceIds, name : Texts, order : Nat, text : T, size : Z] /\ z \in Z
  BY DEF BuilderOK, Builder
<1> HIDE DEF T, Z
<1>2. c \in [id : SurfaceIds, name : Texts, order : Nat, text : T, size : Z] /\ c.text = b.text
  BY <1>1
<1>3. c \in Builder
  BY <1>2 DEF Builder, T, Z
<1> HIDE DEF c
<1>4. BuilderOK(c)
  BY <1>2, <1>3 DEF BuilderOK
<1> QED
  BY <1>4 DEF c

LEMMA DimensionTypes == ASSUME ReadInv, StartDimensions PROVE ReadInv'
<1>1. Takes("base", Start) /\ Event.el = "dimensions" /\ UNCHANGED <<image, coefficientVars>>
  BY DEF StartDimensions, BaseStart
<1>2. Event \in EventOf(source) /\ Event.kind \in Start /\ source' = source
  BY <1>1, Taking
<1> DEFINE e == Event
<1>3. /\ {"width", "height"} \subseteq DOMAIN e.attrs
      /\ e.attrs["width"] # Unknown /\ e.attrs["height"] # Unknown
  BY DEF StartDimensions, Knows, Has
<1>4. e.attrs \in [width : Nat, height : Nat]
  BY <1>1, <1>2, <1>3, SizeTag
<1>5. surface' = [surface EXCEPT !.size = e.attrs]
  BY DEF StartDimensions
<1>6. BuilderOK(surface)
  BY DEF StartDimensions, ReadInv, BaseTypes
<1> DEFINE z == e.attrs
<1> HIDE DEF z
<1>7. BuilderOK([surface EXCEPT !.size = z])
  BY <1>4, <1>6, SizedBuilder, Zenon DEF z
<1>8. BuilderOK(surface')
  BY <1>5, <1>7 DEF z
<1>9. buf' \in Texts
  BY ParserAssumption DEF StartDimensions, BaseStart
<1>10. BaseTypes'
  BY <1>2, <1>8, <1>9 DEF StartDimensions, ReadInv, BaseTypes
<1> QED
  BY <1>1, <1>10, BaseStepTypes, Zenon

LEMMA LayoutTypes == ASSUME ReadInv, StartStrip \/ StartFocus PROVE ReadInv'
<1> DEFINE e == Event
<1>1. Takes("base", Start) /\ UNCHANGED <<image, coefficientVars>>
  BY DEF StartStrip, StartFocus, BaseStart
<1>2. e \in EventOf(source) /\ e.kind \in Start /\ source' = source
  BY <1>1, Taking
<1>3. CASE StartStrip
  <2>1. /\ e.el = "strip" /\ "scrollPos" \in DOMAIN e.attrs /\ e.attrs["scrollPos"] # Unknown
        /\ layout' = [layout EXCEPT !.scroll = e.attrs["scrollPos"]]
    BY <1>3 DEF StartStrip, BaseStart, Knows, Has
  <2>2. e.attrs["scrollPos"] \in Int
    BY <1>2, <2>1, OneFieldTag
  <2>3. layout' \in [scroll : Int, focus : SurfaceIds \cup {None}]
    BY <2>1, <2>2 DEF ReadInv, BaseTypes
  <2>4. buf' \in Texts
    BY <1>3, ParserAssumption DEF StartStrip, BaseStart
  <2> QED
    BY <1>1, <1>2, <1>3, <2>3, <2>4, BaseStepTypes DEF StartStrip, ReadInv, BaseTypes
<1>4. CASE StartFocus
  <2>1. /\ e.el = "focus" /\ "surfaceRef" \in DOMAIN e.attrs /\ e.attrs["surfaceRef"] # Unknown
        /\ layout' = [layout EXCEPT !.focus = e.attrs["surfaceRef"]]
    BY <1>4 DEF StartFocus, BaseStart, Knows, Has
  <2>2. e.attrs["surfaceRef"] \in SurfaceIds
    BY <1>2, <2>1, OneFieldTag
  <2>3. layout' \in [scroll : Int, focus : SurfaceIds \cup {None}]
    BY <2>1, <2>2 DEF ReadInv, BaseTypes
  <2>4. buf' \in Texts
    BY <1>4, ParserAssumption DEF StartFocus, BaseStart
  <2> QED
    BY <1>1, <1>2, <1>4, <2>3, <2>4, BaseStepTypes DEF StartFocus, ReadInv, BaseTypes
<1> QED
  BY <1>3, <1>4

LEMMA TextTypes == ASSUME ReadInv, TakeText PROVE ReadInv'
<1>1. Takes("base", {"text"}) /\ UNCHANGED <<image, coefficientVars>>
  BY DEF TakeText
<1>2. Event \in EventOf(source) /\ Event.kind = "text" /\ source' = source
  BY <1>1, Taking
<1>3. Event.text \in Texts
  BY <1>2, EventFields
<1>4. buf' \in Texts
  <2>1. Trim[Event.text] \in Texts
    BY <1>3, ImageAssumption
  <2> QED
    BY <2>1 DEF TakeText, ReadInv, BaseTypes
<1>5. BaseTypes'
  BY <1>2, <1>4 DEF TakeText, ReadInv, BaseTypes
<1> QED
  BY <1>1, <1>5, BaseStepTypes, Zenon

LEMMA PlainEndTypes == ASSUME ReadInv, EndHost \/ EndOther PROVE ReadInv'
<1>1. Takes("base", {"close"}) /\ UNCHANGED <<image, coefficientVars>>
  BY DEF EndHost, EndOther, BaseEnd
<1>2. source' = source
  BY <1>1, Taking
<1>3. BaseTypes'
  BY <1>2 DEF EndHost, EndOther, BaseEnd, ReadInv, BaseTypes
<1> QED
  BY <1>1, <1>3, BaseStepTypes, Zenon

LEMMA BuiltSurface ==
  ASSUME NEW b, BuilderOK(b), Complete(b)
  PROVE  Built(b) \in SurfaceEntry
<1> DEFINE u == b.text
           z == b.size
<1>1. /\ b.id \in SurfaceIds /\ b.name \in Texts /\ b.order \in Nat
      /\ u = [el \in DOMAIN u |-> u[el]] /\ \A el \in DOMAIN u : u[el] \in Texts
      /\ z \in [width : Nat, height : Nat] \cup {None}
  BY BuilderFields DEF BuilderOK
<1>2. DOMAIN u = TextElements /\ z # None
  BY DEF Complete
<1>3. u["os"] \in OsNames /\ u["codec"] \in CodecNames
  BY <1>2, TextStarts DEF BuilderOK
<1> HIDE DEF u, z
<1>4. u \in SurfaceText
  BY <1>1, <1>2, <1>3 DEF SurfaceText
<1>5. z.width \in Nat /\ z.height \in Nat
  BY <1>1, <1>2
<1>6. Built(b) = [id |-> b.id, name |-> b.name, order |-> b.order, text |-> u,
                  width |-> z.width, height |-> z.height]
  BY DEF Built, u, z
<1> QED
  BY <1>1, <1>4, <1>5, <1>6 DEF SurfaceEntry

LEMMA SurfaceEndTypes == ASSUME ReadInv, EndSurface PROVE ReadInv'
<1>1. Takes("base", {"close"}) /\ UNCHANGED <<image, coefficientVars>>
  BY DEF EndSurface, BaseEnd
<1>2. source' = source
  BY <1>1, Taking
<1>3. BuilderOK(surface) /\ Complete(surface)
  BY DEF EndSurface, ReadInv, BaseTypes
<1>4. Built(surface) \in SurfaceEntry
  BY <1>3, BuiltSurface, Zenon
<1>5. surfaces' = Append(surfaces, Built(surface)) /\ surfaces \in Seq(SurfaceEntry)
  BY DEF EndSurface, ReadInv, BaseTypes
<1>6. surfaces' \in Seq(SurfaceEntry)
  BY <1>4, <1>5, AppendProperties
<1>7. surface' = None
  BY DEF EndSurface
<1>8. BaseTypes'
  BY <1>2, <1>6, <1>7 DEF EndSurface, BaseEnd, ReadInv, BaseTypes
<1> QED
  BY <1>1, <1>8, BaseStepTypes, Zenon

\* c is b and the text t of el
Gains(c, b, el, t) ==
  /\ c \in Builder /\ DOMAIN c.text = DOMAIN b.text \cup {el}
  /\ c.text[el] = t /\ \A e \in DOMAIN b.text : e # el => c.text[e] = b.text[e]
  /\ c = [id |-> b.id, name |-> b.name, order |-> b.order, text |-> c.text, size |-> b.size]
  /\ c.text = [e \in DOMAIN c.text |-> c.text[e]]

LEMMA AddedText ==
  ASSUME NEW b, BuilderOK(b), NEW el \in TextElements, NEW t \in Texts
  PROVE  Gains(WithText(b, el, t), b, el, t)
<1> DEFINE u == b.text
           v == [e \in DOMAIN u \cup {el} |-> IF e = el THEN t ELSE u[e]]
           c == WithText(b, el, t)
<1>1. /\ b = [id |-> b.id, name |-> b.name, order |-> b.order, text |-> u, size |-> b.size]
      /\ b.id \in SurfaceIds /\ b.name \in Texts /\ b.order \in Nat
      /\ u = [e \in DOMAIN u |-> u[e]] /\ DOMAIN u \subseteq TextElements
      /\ \A e \in DOMAIN u : u[e] \in Texts
      /\ b.size \in [width : Nat, height : Nat] \cup {None}
  BY BuilderFields DEF BuilderOK
<1>2. c = [b EXCEPT !.text = v]
  BY DEF WithText
<1>3. /\ DOMAIN v = DOMAIN u \cup {el} /\ v[el] = t
      /\ \A e \in DOMAIN u : e # el => v[e] = u[e]
      /\ v = [e \in DOMAIN v |-> v[e]]
  OBVIOUS
<1> HIDE DEF u, v, c
<1>4. c = [id |-> b.id, name |-> b.name, order |-> b.order, text |-> v, size |-> b.size]
  <2>1. [[id |-> b.id, name |-> b.name, order |-> b.order, text |-> u, size |-> b.size]
           EXCEPT !.text = v]
         = [id |-> b.id, name |-> b.name, order |-> b.order, text |-> v, size |-> b.size]
    OBVIOUS
  <2> QED
    BY <1>1, <1>2, <2>1
<1>5. /\ c.id = b.id /\ c.name = b.name /\ c.order = b.order /\ c.text = v /\ c.size = b.size
  BY <1>4
<1>6. \A e \in DOMAIN v : v[e] \in Texts
  BY <1>1, <1>3
<1>7. c \in Builder
  <2>1. DOMAIN v \subseteq TextElements
    BY <1>1, <1>3
  <2>2. c = [id |-> c.id, name |-> c.name, order |-> c.order, text |-> c.text, size |-> c.size]
    BY <1>4, <1>5
  <2>3. /\ c.id \in SurfaceIds /\ c.name \in Texts /\ c.order \in Nat
        /\ c.text = [e \in DOMAIN c.text |-> c.text[e]] /\ DOMAIN c.text \subseteq TextElements
        /\ \A e \in DOMAIN c.text : c.text[e] \in Texts
        /\ c.size \in [width : Nat, height : Nat] \cup {None}
    BY <1>1, <1>3, <1>5, <1>6, <2>1
  <2> QED
    BY <2>2, <2>3, BuilderFields
<1> QED
  BY <1>3, <1>4, <1>5, <1>7 DEF c, u, Gains

LEMMA TextEndTypes == ASSUME ReadInv, EndText PROVE ReadInv'
<1>1. Takes("base", {"close"}) /\ UNCHANGED <<image, coefficientVars>>
  BY DEF EndText, BaseEnd
<1>2. source' = source
  BY <1>1, Taking
<1>3. BuilderOK(surface)
  BY DEF EndText, ReadInv, BaseTypes
<1>4. BuilderOK(surface')
  <2>1. CASE ~ Applies
    BY <1>3, <2>1 DEF EndText
  <2>2. CASE Applies
    <3>1. /\ surface' = WithText(surface, target, buf) /\ Spelt
          /\ target \in TextElements /\ buf \in Texts
      BY <2>2 DEF EndText, Applies, ReadInv, BaseTypes
    <3> DEFINE c == WithText(surface, target, buf)
    <3>2. Gains(c, surface, target, buf)
      BY <1>3, <3>1, AddedText, Zenon
    <3> HIDE DEF c
    <3>3. BuilderOK(c)
      BY <1>3, <3>1, <3>2 DEF BuilderOK, Gains, Spelt
    <3> QED
      BY <3>1, <3>3 DEF c
  <2> QED
    BY <2>1, <2>2
<1>5. target' = None /\ buf' \in Texts
  BY ParserAssumption DEF EndText
<1>6. BaseTypes'
  BY <1>2, <1>4, <1>5 DEF EndText, BaseEnd, ReadInv, BaseTypes
<1> QED
  BY <1>1, <1>6, BaseStepTypes, Zenon

LEMMA BaseEofTypes == ASSUME ReadInv, BaseEof PROVE ReadInv'
<1> DEFINE b == [created |-> session.created, schema |-> session.schema,
                 surfaces |-> SortedByOrder(surfaces), scroll |-> layout.scroll,
                 focus |-> layout.focus]
<1>1. /\ source' = source /\ reader' = reader /\ doc' = doc
      /\ session' = session /\ surfaces' = surfaces /\ layout' = layout /\ surface' = surface
      /\ inHost' = inHost /\ target' = target /\ buf' = buf
      /\ inCoefficients' = inCoefficients /\ entry' = entry /\ coefficients' = coefficients
  BY DEF BaseEof, documentVars, coefficientVars
<1>2. DocumentInv' /\ BaseTypes' /\ BlockTypes'
  BY <1>1 DEF ReadInv, DocumentInv, BaseTypes, BlockTypes
<1>3. SortedByOrder(surfaces) \in Seq(SurfaceEntry)
  BY SortedIs DEF ReadInv, BaseTypes
<1>4. /\ session.id \in {None, Unknown, ComputeId(source.base)} /\ session.created \in Texts
      /\ session.schema \in Nat /\ layout.scroll \in Int
      /\ layout.focus \in SurfaceIds \cup {None}
  BY DEF BaseEof, ReadInv, BaseTypes
<1>5. b \in Body
  BY <1>3, <1>4 DEF Body
<1>6. ComputeId(source.base) \in Body
  BY ParserAssumption, ImageFields DEF ReadInv, DocumentInv, ComputeId
<1>7. image' = [id |-> session.id, body |-> b]
  BY DEF BaseEof
<1>8. image' \in ReadImage
  <2> HIDE DEF b
  <2>1. session.id \in Body \cup {None, Unknown}
    BY <1>4, <1>6
  <2> QED
    BY <1>5, <1>7, <2>1 DEF ReadImage
<1>9. pos' \in 1 .. Len(doc') + 1 /\ phase' \in {"accepted", "coefficients"}
  <2>1. Len(doc) \in Nat
    BY LenProperties DEF ReadInv, DocumentInv
  <2>2. pos \in 1 .. Len(doc) + 1
    BY DEF ReadInv
  <2>3. (phase' = "accepted" /\ pos' = pos) \/ (phase' = "coefficients" /\ pos' = 1)
    BY DEF BaseEof
  <2> QED
    BY <1>1, <2>1, <2>2, <2>3
<1> QED
  BY <1>2, <1>8, <1>9 DEF ReadInv

\* a step that leaves all but the phase as it is
LEMMA StoppingTypes ==
  ASSUME ReadInv, UNCHANGED <<documentVars, pos, baseVars, coefficientVars>>,
         phase' = phase \/ phase' = "rejected" \/ (phase = "coefficients" /\ phase' = "accepted")
  PROVE  ReadInv'
<1>1. DocumentInv' /\ BaseTypes' /\ BlockTypes'
  BY DEF documentVars, baseVars, coefficientVars, ReadInv, DocumentInv, BaseTypes, BlockTypes
<1>2. pos' = pos /\ doc' = doc /\ image' = image
  BY DEF documentVars, baseVars
<1> QED
  BY <1>1, <1>2 DEF ReadInv

(***************************************************************************)
(* The steps of the second pass.                                           *)
(***************************************************************************)
LEMMA EntryTypes == ASSUME ReadInv, StartEntry PROVE ReadInv'
<1> DEFINE e == Event
<1>1. /\ Takes("coefficients", Start) /\ UNCHANGED baseVars /\ e.el = "surface-coefficient"
      /\ "surfaceRef" \in DOMAIN e.attrs /\ e.attrs["surfaceRef"] # Unknown
  BY DEF StartEntry, BlockStart, Knows, Has
<1>2. e \in EventOf(source) /\ e.kind \in Start
  BY <1>1, Taking
<1>3. e.attrs["surfaceRef"] \in SurfaceIds
  BY <1>1, <1>2, OneFieldTag
<1> DEFINE r == e.attrs["surfaceRef"]
           n == [ref |-> r, timing |-> <<>>, confidentiality |-> None, integrity |-> None,
                 linearity |-> None]
<1>4. n \in EntryBuilder
  <2>1. r \in SurfaceIds
    BY <1>3
  <2>2. <<>> \in Seq(Interval)
    OBVIOUS
  <2> HIDE DEF r
  <2> QED
    BY <2>1, <2>2 DEF EntryBuilder
<1>5. entry' = n
  BY DEF StartEntry
<1> HIDE DEF n
<1>6. BlockTypes'
  BY <1>4, <1>5 DEF StartEntry, BlockStart, ReadInv, BlockTypes
<1> QED
  BY <1>1, <1>6, BlockStepTypes, Zenon

LEMMA EntryFields ==
  ASSUME NEW b
  PROVE  b \in EntryBuilder <=>
           /\ b = [ref |-> b.ref, timing |-> b.timing, confidentiality |-> b.confidentiality,
                   integrity |-> b.integrity, linearity |-> b.linearity]
           /\ b.ref \in SurfaceIds /\ b.timing \in Seq(Interval)
           /\ b.confidentiality \in Confidentiality \cup {None}
           /\ b.integrity \in Integrity \cup {None}
           /\ b.linearity \in Linearity \cup {None}
<1> DEFINE T == Seq(Interval)
           C == Confidentiality \cup {None}
           I == Integrity \cup {None}
           L == Linearity \cup {None}
<1>1. EntryBuilder = [ref : SurfaceIds, timing : T, confidentiality : C, integrity : I,
                      linearity : L]
  BY DEF EntryBuilder
<1> HIDE DEF T, C, I, L
<1>2. b \in EntryBuilder <=>
           /\ b = [ref |-> b.ref, timing |-> b.timing, confidentiality |-> b.confidentiality,
                   integrity |-> b.integrity, linearity |-> b.linearity]
           /\ b.ref \in SurfaceIds /\ b.timing \in T /\ b.confidentiality \in C
           /\ b.integrity \in I /\ b.linearity \in L
  BY <1>1
<1> QED
  BY <1>2 DEF T, C, I, L

LEMMA EntryWithTiming ==
  ASSUME NEW b \in EntryBuilder, NEW t \in Seq(Interval)
  PROVE  [b EXCEPT !.timing = t] \in EntryBuilder
<1> DEFINE T == Seq(Interval)
           C == Confidentiality \cup {None}
           I == Integrity \cup {None}
           L == Linearity \cup {None}
<1>1. EntryBuilder = [ref : SurfaceIds, timing : T, confidentiality : C, integrity : I,
                      linearity : L]
  BY DEF EntryBuilder
<1>2. t \in T
  OBVIOUS
<1> HIDE DEF T, C, I, L
<1> QED
  BY <1>1, <1>2

LEMMA EntryWithLabel ==
  ASSUME NEW b \in EntryBuilder, NEW c \in Confidentiality, NEW i \in Integrity
  PROVE  [b EXCEPT !.confidentiality = c, !.integrity = i] \in EntryBuilder
<1> DEFINE T == Seq(Interval)
           C == Confidentiality \cup {None}
           I == Integrity \cup {None}
           L == Linearity \cup {None}
<1>1. EntryBuilder = [ref : SurfaceIds, timing : T, confidentiality : C, integrity : I,
                      linearity : L]
  BY DEF EntryBuilder
<1>2. c \in C /\ i \in I
  OBVIOUS
<1> HIDE DEF T, C, I, L
<1> QED
  BY <1>1, <1>2

LEMMA EntryWithUse ==
  ASSUME NEW b \in EntryBuilder, NEW l \in Linearity
  PROVE  [b EXCEPT !.linearity = l] \in EntryBuilder
<1> DEFINE T == Seq(Interval)
           C == Confidentiality \cup {None}
           I == Integrity \cup {None}
           L == Linearity \cup {None}
<1>1. EntryBuilder = [ref : SurfaceIds, timing : T, confidentiality : C, integrity : I,
                      linearity : L]
  BY DEF EntryBuilder
<1>2. l \in L
  OBVIOUS
<1> HIDE DEF T, C, I, L
<1> QED
  BY <1>1, <1>2

\* the attributes of an element of the block, once they are known
LEMMA BlockTag ==
  ASSUME NEW x, NEW e \in EventOf(x), e.kind \in Start
  PROVE  /\ (e.el = "delay-path" /\ {"lo", "hi"} \subseteq DOMAIN e.attrs
               /\ e.attrs["lo"] # Unknown /\ e.attrs["hi"] # Unknown)
              => e.attrs \in Interval
         /\ (e.el = "security" /\ {"confidentiality", "integrity"} \subseteq DOMAIN e.attrs
               /\ e.attrs["confidentiality"] # Unknown /\ e.attrs["integrity"] # Unknown)
              => /\ e.attrs["confidentiality"] \in Confidentiality
                 /\ e.attrs["integrity"] \in Integrity
<1> DEFINE f == e.attrs
<1>1. /\ DOMAIN f \subseteq DOMAIN Fields(x, e.el)
      /\ \A a \in DOMAIN f : f[a] \in Fields(x, e.el)[a] \cup {Unknown}
      /\ f = [a \in DOMAIN f |-> f[a]]
  BY ReadAttribute
<1> HIDE DEF f
<1>2. ASSUME e.el = "delay-path", {"lo", "hi"} \subseteq DOMAIN f, f["lo"] # Unknown,
             f["hi"] # Unknown
      PROVE  f \in Interval
  <2> DEFINE F == Fields(x, "delay-path")
  <2>1. DOMAIN F = {"lo", "hi"} /\ F["lo"] = Bound /\ F["hi"] = Bound
    BY FieldsAre
  <2>2. DOMAIN f \subseteq DOMAIN F /\ \A a \in DOMAIN f : f[a] \in F[a] \cup {Unknown}
    BY <1>1, <1>2
  <2> HIDE DEF F
  <2>3. DOMAIN f = {"lo", "hi"} /\ f["lo"] \in Bound /\ f["hi"] \in Bound
    BY <1>2, <2>1, <2>2
  <2>4. f = [lo |-> f["lo"], hi |-> f["hi"]]
    BY <1>1, <2>3
  <2> QED
    BY <2>3, <2>4 DEF Interval
<1>3. ASSUME e.el = "security", {"confidentiality", "integrity"} \subseteq DOMAIN f,
             f["confidentiality"] # Unknown, f["integrity"] # Unknown
      PROVE  f["confidentiality"] \in Confidentiality /\ f["integrity"] \in Integrity
  <2> DEFINE F == Fields(x, "security")
  <2>1. F["confidentiality"] = Confidentiality /\ F["integrity"] = Integrity
    BY FieldsAre
  <2>2. \A a \in DOMAIN f : f[a] \in F[a] \cup {Unknown}
    BY <1>1, <1>3
  <2> HIDE DEF F
  <2> QED
    BY <1>3, <2>1, <2>2
<1> QED
  BY <1>2, <1>3 DEF f

LEMMA EntryGraded ==
  ASSUME ReadInv, StartDelayPath \/ StartSecurity \/ StartLinearity
  PROVE  entry \in EntryBuilder /\ entry' \in EntryBuilder
<1> DEFINE e == Event
<1>1. /\ Takes("coefficients", Start) /\ UNCHANGED baseVars /\ entry # None
      /\ inCoefficients' = inCoefficients /\ coefficients' = coefficients
  BY DEF StartDelayPath, StartSecurity, StartLinearity, BlockStart
<1>2. e \in EventOf(source) /\ e.kind \in Start
  BY <1>1, Taking
<1>3. entry \in EntryBuilder
  BY <1>1 DEF ReadInv, BlockTypes
<1>4. entry.timing \in Seq(Interval)
  BY <1>3, EntryFields
<1> HIDE DEF e
<1>5. entry' \in EntryBuilder
  <2>1. CASE StartDelayPath
    <3>1. /\ e.el = "delay-path" /\ {"lo", "hi"} \subseteq DOMAIN e.attrs
          /\ e.attrs["lo"] # Unknown /\ e.attrs["hi"] # Unknown
          /\ entry' = [entry EXCEPT !.timing = Append(entry.timing, e.attrs)]
      BY <2>1 DEF StartDelayPath, BlockStart, Knows, Has, e
    <3>2. e.attrs \in Interval
      BY <1>2, <3>1, BlockTag
    <3> DEFINE t == Append(entry.timing, e.attrs)
    <3>3. t \in Seq(Interval)
      BY <1>4, <3>2, AppendProperties
    <3>4. entry' = [entry EXCEPT !.timing = t]
      BY <3>1
    <3> HIDE DEF t
    <3> QED
      BY <1>3, <3>3, <3>4, EntryWithTiming
  <2>2. CASE StartSecurity
    <3> DEFINE c == e.attrs["confidentiality"]
               i == e.attrs["integrity"]
    <3>1. /\ e.el = "security" /\ {"confidentiality", "integrity"} \subseteq DOMAIN e.attrs
          /\ c # Unknown /\ i # Unknown
          /\ entry' = [entry EXCEPT !.confidentiality = c, !.integrity = i]
      BY <2>2 DEF StartSecurity, BlockStart, Knows, Has, e
    <3>2. c \in Confidentiality /\ i \in Integrity
      BY <1>2, <3>1, BlockTag
    <3> HIDE DEF c, i
    <3> QED
      BY <1>3, <3>1, <3>2, EntryWithLabel
  <2>3. CASE StartLinearity
    <3> DEFINE l == e.attrs["count"]
    <3>1. /\ e.el = "linearity" /\ "count" \in DOMAIN e.attrs /\ l # Unknown
          /\ entry' = [entry EXCEPT !.linearity = l]
      BY <2>3 DEF StartLinearity, BlockStart, Knows, Has, e
    <3>2. l \in Linearity
      BY <1>2, <3>1, OneFieldTag
    <3> HIDE DEF l
    <3> QED
      BY <1>3, <3>1, <3>2, EntryWithUse
  <2> QED
    BY <2>1, <2>2, <2>3
<1> QED
  BY <1>3, <1>5

LEMMA GradingTypes ==
  ASSUME ReadInv, StartDelayPath \/ StartSecurity \/ StartLinearity PROVE ReadInv'
<1>1. /\ Takes("coefficients", Start) /\ UNCHANGED baseVars /\ entry # None
      /\ inCoefficients' = inCoefficients /\ coefficients' = coefficients
  BY DEF StartDelayPath, StartSecurity, StartLinearity, BlockStart
<1>2. entry' \in EntryBuilder
  BY EntryGraded
<1>3. BlockTypes'
  BY <1>1, <1>2 DEF ReadInv, BlockTypes
<1> QED
  BY <1>1, <1>3, BlockStepTypes, Zenon

LEMMA PlainBlockTypes ==
  ASSUME ReadInv, StartCoefficients \/ EndCoefficients \/ Ignore PROVE ReadInv'
<1>1. \E kinds : Takes("coefficients", kinds)
  BY DEF StartCoefficients, EndCoefficients, Ignore, BlockStart
<1>2. UNCHANGED baseVars
  BY DEF StartCoefficients, EndCoefficients, Ignore, BlockStart
<1>3. BlockTypes'
  BY DEF StartCoefficients, EndCoefficients, Ignore, BlockStart, coefficientVars,
         ReadInv, BlockTypes
<1> QED
  BY <1>1, <1>2, <1>3, BlockStepTypes, Zenon

\* what an entry's builder leaves behind
ReadEntry(b) == [surfaceRef |-> b.ref,
                 coefficient |-> [timing |-> b.timing, confidentiality |-> b.confidentiality,
                                  integrity |-> b.integrity, linearity |-> b.linearity]]

LEMMA EndEntryTypes == ASSUME ReadInv, EndEntry PROVE ReadInv'
<1>1. /\ Takes("coefficients", {"close"}) /\ UNCHANGED baseVars /\ entry' = None
      /\ inCoefficients' = inCoefficients
  BY DEF EndEntry
<1>2. coefficients \in Seq(SurfaceCoefficient)
  BY DEF ReadInv, BlockTypes
<1>3. CASE entry = None
  BY <1>1, <1>3, BlockStepTypes DEF EndEntry, ReadInv, BlockTypes
<1>4. CASE entry # None
  <2>1. coefficients' = Append(coefficients, ReadEntry(entry)) /\ Graded(entry)
    BY <1>4 DEF EndEntry, ReadEntry
  <2>2. entry \in EntryBuilder
    BY <1>4 DEF ReadInv, BlockTypes
  <2>3. /\ entry.ref \in SurfaceIds /\ entry.timing \in Seq(Interval)
        /\ entry.confidentiality \in Confidentiality /\ entry.integrity \in Integrity
        /\ entry.linearity \in Linearity
    BY <2>1, <2>2, EntryFields DEF Graded
  <2>4. ReadEntry(entry) \in SurfaceCoefficient
    BY <2>3 DEF ReadEntry, SurfaceCoefficient, Coefficient
  <2>5. coefficients' \in Seq(SurfaceCoefficient)
    BY <1>2, <2>1, <2>4, AppendProperties
  <2>6. BlockTypes'
    BY <1>1, <2>5 DEF ReadInv, BlockTypes
  <2> QED
    BY <1>1, <2>6, BlockStepTypes, Zenon
<1> QED
  BY <1>3, <1>4

LEMMA ReadStep == ASSUME ReadInv, [Next]_vars PROVE ReadInv'
<1>1. CASE BaseNext
  <2>1. ASSUME BaseFails PROVE ReadInv'
    BY <2>1, StoppingTypes DEF BaseFails
  <2> QED
    BY <1>1, <2>1, SessionTypes, SurfaceStartTypes, PlainStartTypes, DimensionTypes,
       LayoutTypes, TextTypes, PlainEndTypes, SurfaceEndTypes, TextEndTypes, BaseEofTypes
       DEF BaseNext
<1>2. CASE BlockNext
  <2>1. ASSUME BlockFails PROVE ReadInv'
    BY <2>1, StoppingTypes DEF BlockFails
  <2>2. ASSUME BlockEof PROVE ReadInv'
    <3>1. phase = "coefficients" /\ (phase' = "accepted" \/ phase' = "rejected")
      BY <2>2 DEF BlockEof
    <3> QED
      BY <2>2, <3>1, StoppingTypes DEF BlockEof
  <2> QED
    BY <1>2, <2>1, <2>2, PlainBlockTypes, EntryTypes, GradingTypes, EndEntryTypes DEF BlockNext
<1>3. CASE Returned \/ UNCHANGED vars
  <2>1. UNCHANGED vars
    BY <1>3 DEF Returned
  <2> QED
    BY <2>1, StoppingTypes DEF vars
<1> QED
  BY <1>1, <1>2, <1>3 DEF Next

LEMMA ReadInvHolds == Spec => []ReadInv
BY ReadInit, ReadStep, PTL DEF Spec

LEMMA ReadInvTypes == ASSUME ReadInv PROVE ParserTypeOK
<1>1. None \notin ReadImage
  BY OptionAssumption
<1>2. \A i \in DOMAIN surfaces : surfaces[i] \in SurfaceEntry
  BY SurfacesOf DEF ReadInv, BaseTypes
<1>3. /\ session.schema \in Nat /\ {session.id} \subseteq {None, Unknown, ComputeId(source.base)}
      /\ session.created \in Texts \cup {None}
  BY DEF ReadInv, BaseTypes
<1> QED
  BY <1>1, <1>2, <1>3 DEF ReadInv, BaseTypes, BuilderOK, BlockTypes, ParserTypeOK

\* Theorem: in every state of either reader, on every document that was
\* written from one of the images, whole or damaged in one place, every
\* variable holds a value of its type (session.rs, mod parse; galois.rs,
\* from_xml).
THEOREM ParserTypes == Spec => []ParserTypeOK
BY ReadInvHolds, ReadInvTypes, PTL

(***************************************************************************)
(* Which action takes an event that the first pass does not refuse.        *)
(***************************************************************************)
AtEvent(k) ==
  BaseNext /\ phase = "base" /\ pos \in 1 .. Len(doc) /\ Len(doc) \in Nat /\ Event.kind = k

LEMMA NotAtEnd == ASSUME NEW k, AtEvent(k) PROVE ~ BaseEof /\ ~ (pos > Len(doc))
<1>1. pos # Len(doc) + 1 /\ ~ (pos > Len(doc))
  BY DEF AtEvent
<1> QED
  BY <1>1 DEF BaseEof

LEMMA StartTaken ==
  ASSUME NEW k \in Start, AtEvent(k), ~ BaseRefusesStart
  PROVE  \/ Event.el = "session" /\ StartSession
         \/ Event.el = "surface" /\ StartSurface
         \/ Event.el = "host" /\ StartHost
         \/ Event.el \in TextElements /\ StartText
         \/ Event.el = "dimensions" /\ StartDimensions
         \/ Event.el = "strip" /\ StartStrip
         \/ Event.el = "focus" /\ StartFocus
         \/ /\ Event.el \in {"surfaces", "layout", "coefficients", "surface-coefficient",
                             "timing", "delay-path", "security", "linearity"}
            /\ StartOther
<1>1. Event.kind \in Start /\ Event.kind \notin {"text", "close"}
  BY DEF AtEvent, Start
<1>2. ~ BaseEof /\ ~ BaseFails
  BY <1>1, NotAtEnd DEF BaseFails
<1>3. ~ TakeText /\ ~ EndHost /\ ~ EndSurface /\ ~ EndText /\ ~ EndOther
  BY <1>1 DEF TakeText, EndHost, EndSurface, EndText, EndOther, BaseEnd, Takes
<1>4. \/ StartSession \/ StartSurface \/ StartHost \/ StartText \/ StartDimensions
      \/ StartStrip \/ StartFocus \/ StartOther
  BY <1>2, <1>3 DEF AtEvent, BaseNext
<1> QED
  BY <1>4 DEF StartSession, StartSurface, StartHost, StartText, StartDimensions,
         StartStrip, StartFocus, StartOther, BaseStart

LEMMA CloseTaken ==
  ASSUME AtEvent("close"), ~ BaseRefusesEnd
  PROVE  \/ Event.el = "host" /\ EndHost
         \/ Event.el = "surface" /\ EndSurface
         \/ Event.el \in TextElements /\ EndText
         \/ /\ Event.el \in {"session", "surfaces", "layout", "coefficients",
                             "surface-coefficient", "timing"}
            /\ EndOther
<1>1. Event.kind = "close" /\ Event.kind \notin Start /\ Event.kind \notin {"text"}
  BY DEF AtEvent, Start
<1>2. ~ BaseEof /\ ~ BaseFails
  BY <1>1, NotAtEnd DEF BaseFails
<1>3. /\ ~ TakeText /\ ~ StartSession /\ ~ StartSurface /\ ~ StartHost /\ ~ StartText
      /\ ~ StartDimensions /\ ~ StartStrip /\ ~ StartFocus /\ ~ StartOther
  BY <1>1 DEF TakeText, StartSession, StartSurface, StartHost, StartText, StartDimensions,
         StartStrip, StartFocus, StartOther, BaseStart, Takes
<1>4. EndHost \/ EndSurface \/ EndText \/ EndOther
  BY <1>2, <1>3 DEF AtEvent, BaseNext
<1> QED
  BY <1>4 DEF EndHost, EndSurface, EndText, EndOther, BaseEnd

LEMMA TextTaken == ASSUME AtEvent("text") PROVE TakeText
<1>1. Event.kind = "text" /\ Event.kind \notin Start /\ Event.kind # "close"
  BY DEF AtEvent, Start
<1>2. ~ BaseEof /\ ~ BaseFails
  BY <1>1, NotAtEnd DEF BaseFails
<1>3. /\ ~ StartSession /\ ~ StartSurface /\ ~ StartHost /\ ~ StartText
      /\ ~ StartDimensions /\ ~ StartStrip /\ ~ StartFocus /\ ~ StartOther
      /\ ~ EndHost /\ ~ EndSurface /\ ~ EndText /\ ~ EndOther
  BY <1>1 DEF EndHost, EndSurface, EndText, EndOther, BaseEnd,
         StartSession, StartSurface, StartHost, StartText, StartDimensions,
         StartStrip, StartFocus, StartOther, BaseStart, Takes
<1> QED
  BY <1>2, <1>3 DEF AtEvent, BaseNext

\* what every such step does
Moved == /\ pos' = pos + 1 /\ phase' = "base"
         /\ source' = source /\ doc' = doc /\ reader' = reader

LEMMA TakenMoves == ASSUME NEW kinds, Takes("base", kinds) PROVE Moved
BY DEF Takes, Moved, documentVars

(***************************************************************************)
(* Where the state of the first pass stands between the events of an       *)
(* intact document.  The first i surfaces are read.                        *)
(***************************************************************************)
FirstSurfaces(s, i) == [j \in 1 .. i |-> TrimmedSurface(s[j])]

Between(s, i) ==
  surfaces = FirstSurfaces(s, i) /\ surface = None /\ target = None /\ inHost = FALSE

\* the texts that the first k events of a surface complete
TextsUpto(k) == {el \in TextElements : TextStart[el] + 2 <= k}

\* the builder after them
Partial(e, k) ==
  [id |-> e.id, name |-> e.name, order |-> e.order,
   text |-> [el \in TextsUpto(k) |-> Trim[e.text[el]]],
   size |-> IF k = 19 THEN SizeAttrs(e) ELSE None]

\* the text element that they leave open
OpenAt(el, k) == k \in {TextStart[el], TextStart[el] + 1}

Within(s, i, k) ==
  /\ surfaces = FirstSurfaces(s, i - 1)
  /\ surface = Partial(s[i], k)
  /\ k \in 2 .. 14 => inHost = TRUE
  /\ k \notin 2 .. 14 => inHost = FALSE
  /\ \A el \in TextElements : OpenAt(el, k) => target = el
  /\ (\A el \in TextElements : ~ OpenAt(el, k)) => target = None
  /\ \A el \in TextElements : k = TextStart[el] + 1 => buf = Trim[s[i].text[el]]

LEMMA TextPlaces ==
  ASSUME NEW el \in TextElements
  PROVE  LET t == TextStart[el]
         IN  /\ t \in 3 .. 16 /\ t \in Nat
             /\ TextsUpto(t) = TextsUpto(t - 1) /\ TextsUpto(t + 1) = TextsUpto(t)
             /\ TextsUpto(t + 2) = TextsUpto(t + 1) \cup {el}
             /\ \A e \in TextElements : /\ OpenAt(e, t) <=> e = el
                                        /\ OpenAt(e, t + 1) <=> e = el
                                        /\ ~ OpenAt(e, t + 2) /\ ~ OpenAt(e, t - 1)
                                        /\ t # TextStart[e] + 1 /\ t + 2 # TextStart[e] + 1
                                        /\ t + 1 = TextStart[e] + 1 <=> e = el
             /\ t \in 2 .. 14 <=> t - 1 \in 2 .. 14
             /\ t + 1 \in 2 .. 14 <=> t \in 2 .. 14
             /\ t + 2 \in 2 .. 14 <=> t + 1 \in 2 .. 14
             /\ el \in HostElements => t + 1 \in 2 .. 14
<1> DEFINE t == TextStart[el]
<1>1. t \in Nat /\ \A e \in TextElements : TextStart[e] \in {3, 6, 9, 12, 16}
  BY TextStarts
<1>2. t \in {3, 6, 9, 12, 16} /\ (el \in HostElements => t # 16)
  BY TextStarts
<1>3. \A e \in TextElements : e # el => TextStart[e] # t
  BY TextStarts
<1> HIDE DEF t
<1>4. ASSUME NEW e \in TextElements
      PROVE  /\ OpenAt(e, t) <=> e = el
             /\ OpenAt(e, t + 1) <=> e = el
             /\ ~ OpenAt(e, t + 2) /\ ~ OpenAt(e, t - 1)
             /\ t # TextStart[e] + 1 /\ t + 2 # TextStart[e] + 1
             /\ t + 1 = TextStart[e] + 1 <=> e = el
             /\ (TextStart[e] + 2 <= t <=> TextStart[e] + 2 <= t - 1)
             /\ (TextStart[e] + 2 <= t + 1 <=> TextStart[e] + 2 <= t)
             /\ (TextStart[e] + 2 <= t + 2 <=> (TextStart[e] + 2 <= t + 1 \/ e = el))
  <2> DEFINE u == TextStart[e]
  <2>1. u \in {3, 6, 9, 12, 16} /\ (e # el => u # t) /\ (e = el => u = t)
    BY <1>1, <1>3 DEF t
  <2>2. \A k : OpenAt(e, k) <=> k = u \/ k = u + 1
    BY DEF OpenAt
  <2> HIDE DEF u
  <2>3. /\ (t = u \/ t = u + 1) <=> e = el
        /\ (t + 1 = u \/ t + 1 = u + 1) <=> e = el
        /\ ~ (t + 2 = u \/ t + 2 = u + 1) /\ ~ (t - 1 = u \/ t - 1 = u + 1)
        /\ t # u + 1 /\ t + 2 # u + 1
        /\ t + 1 = u + 1 <=> e = el
        /\ (u + 2 <= t <=> u + 2 <= t - 1)
        /\ (u + 2 <= t + 1 <=> u + 2 <= t)
        /\ (u + 2 <= t + 2 <=> (u + 2 <= t + 1 \/ e = el))
    BY <1>2, <2>1
  <2> QED
    BY <2>2, <2>3 DEF u
<1>5. /\ TextsUpto(t) = TextsUpto(t - 1) /\ TextsUpto(t + 1) = TextsUpto(t)
      /\ TextsUpto(t + 2) = TextsUpto(t + 1) \cup {el}
  BY <1>4 DEF TextsUpto
<1>6. /\ t \in 2 .. 14 <=> t - 1 \in 2 .. 14
      /\ t + 1 \in 2 .. 14 <=> t \in 2 .. 14
      /\ t + 2 \in 2 .. 14 <=> t + 1 \in 2 .. 14
      /\ el \in HostElements => t + 1 \in 2 .. 14
      /\ t \in 3 .. 16
  BY <1>2
<1> QED
  BY <1>1, <1>4, <1>5, <1>6 DEF t

\* the other events of a surface
LEMMA PlainPlaces ==
  /\ TextsUpto(1) = {} /\ TextsUpto(2) = TextsUpto(1) /\ TextsUpto(15) = TextsUpto(14)
  /\ TextsUpto(19) = TextsUpto(18) /\ TextsUpto(18) = TextElements
  /\ \A el \in TextElements :
       /\ ~ OpenAt(el, 1) /\ ~ OpenAt(el, 2) /\ ~ OpenAt(el, 15) /\ ~ OpenAt(el, 19)
       /\ ~ OpenAt(el, 14) /\ ~ OpenAt(el, 18)
       /\ TextStart[el] + 1 \notin {1, 2, 15, 19}
<1>1. \A el \in TextElements : TextStart[el] \in {3, 6, 9, 12, 16}
  BY TextStarts
<1> QED
  BY <1>1 DEF TextsUpto, OpenAt

\* a line of the first pass: it takes an event, outside of the layout
Line == Moved /\ session' = session /\ layout' = layout

LEMMA EntryValues ==
  ASSUME NEW s \in Seq(SurfaceEntry), NEW i \in 1 .. Len(s)
  PROVE  /\ s[i] \in SurfaceEntry
         /\ s[i].id \in SurfaceIds /\ s[i].order \in Nat /\ s[i].name \in Texts
         /\ s[i].width \in Nat /\ s[i].height \in Nat
         /\ s[i].id # Unknown /\ s[i].order # Unknown /\ s[i].width # Unknown
         /\ s[i].height # Unknown
<1>1. s[i] \in SurfaceEntry
  BY SurfacesOf
<1>2. /\ s[i].id \in SurfaceIds /\ s[i].order \in Nat /\ s[i].name \in Texts
      /\ s[i].width \in Nat /\ s[i].height \in Nat
  BY <1>1, SurfaceFields
<1>3. Unknown \notin SurfaceIds /\ Unknown \notin Nat
  BY OptionAssumption
<1> QED
  BY <1>1, <1>2, <1>3

LEMMA SurfaceOpens ==
  ASSUME NEW s \in Seq(SurfaceEntry), NEW i \in 1 .. Len(s), AtEvent("open"),
         Event = Open("surface", SurfaceAttrs(s[i])), Between(s, i - 1)
  PROVE  Line /\ Within(s, i, 1)'
<1> DEFINE e == s[i]
<1>1. /\ Event.el = "surface" /\ Event.attrs = [id |-> e.id, name |-> e.name, order |-> e.order]
  BY DEF Open, SurfaceAttrs
<1>2. /\ Event.attrs.id = e.id /\ Event.attrs.name = e.name /\ Event.attrs.order = e.order
      /\ DOMAIN Event.attrs = {"id", "name", "order"}
  BY <1>1
<1>3. Knows({"id", "order"}) /\ Has({"name"})
  BY <1>2, EntryValues DEF Knows, Has
<1>4. ~ BaseRefusesStart
  BY <1>1, <1>3 DEF BaseRefusesStart
<1>5. StartSurface
  BY <1>1, <1>4, StartTaken, TextStarts DEF Start
<1>6. surface' = [id |-> e.id, name |-> e.name, order |-> e.order, text |-> <<>>, size |-> None]
  BY <1>2, <1>5 DEF StartSurface
<1>7. <<>> = [el \in TextsUpto(1) |-> Trim[e.text[el]]]
  <2>1. TextsUpto(1) = {}
    BY PlainPlaces
  <2> QED
    BY <2>1
<1>8. surface' = Partial(e, 1)
  <2> DEFINE u == [el \in TextsUpto(1) |-> Trim[e.text[el]]]
  <2>1. Partial(e, 1) = [id |-> e.id, name |-> e.name, order |-> e.order, text |-> u,
                         size |-> None]
    BY DEF Partial
  <2>2. u = <<>>
    BY <1>7
  <2> HIDE DEF e, u
  <2> QED
    BY <1>6, <2>1, <2>2
<1>9. /\ Line /\ surfaces' = surfaces /\ inHost' = inHost /\ target' = target
  BY <1>5, TakenMoves DEF StartSurface, BaseStart, Line
<1> QED
  BY <1>8, <1>9, PlainPlaces DEF Within, Between

LEMMA HostOpens ==
  ASSUME NEW s, NEW i, AtEvent("open"), Event = Open("host", <<>>), Within(s, i, 1)
  PROVE  Line /\ Within(s, i, 2)'
<1>1. Event.el = "host"
  BY DEF Open
<1>2. ~ BaseRefusesStart
  BY <1>1 DEF BaseRefusesStart
<1>3. StartHost
  BY <1>1, <1>2, StartTaken, TextStarts DEF Start
<1>4. /\ Line /\ surfaces' = surfaces /\ inHost' = TRUE /\ target' = target
      /\ surface' = surface
  BY <1>3, TakenMoves DEF StartHost, BaseStart, Line
<1>5. Partial(s[i], 2) = Partial(s[i], 1)
  BY PlainPlaces DEF Partial
<1> QED
  BY <1>4, <1>5, PlainPlaces DEF Within

LEMMA HostCloses ==
  ASSUME NEW s, NEW i, AtEvent("close"), Event = Close("host"), Within(s, i, 14)
  PROVE  Line /\ Within(s, i, 15)'
<1>1. Event.el = "host"
  BY DEF Close
<1>2. ~ BaseRefusesEnd
  BY <1>1, TextStarts DEF BaseRefusesEnd
<1>3. EndHost
  BY <1>1, <1>2, CloseTaken, TextStarts
<1>4. /\ Line /\ surfaces' = surfaces /\ inHost' = FALSE /\ target' = target
      /\ surface' = surface
  BY <1>3, TakenMoves DEF EndHost, BaseEnd, Line
<1>5. Partial(s[i], 15) = Partial(s[i], 14)
  BY PlainPlaces DEF Partial
<1> QED
  BY <1>4, <1>5, PlainPlaces DEF Within

\* a builder is not None
LEMMA PartialThere ==
  ASSUME ReadInv, NEW s \in Seq(SurfaceEntry), NEW i \in 1 .. Len(s), NEW k \in 1 .. 19,
         surface = Partial(s[i], k)
  PROVE  surface # None
<1> DEFINE e == s[i]
           T == TextsUpto(k)
           u == [el \in T |-> Trim[e.text[el]]]
           z == IF k = 19 THEN SizeAttrs(e) ELSE None
           b == [id |-> e.id, name |-> e.name, order |-> e.order, text |-> u, size |-> z]
<1>1. e.id \in SurfaceIds /\ e.order \in Nat /\ e.name \in Texts /\ e.width \in Nat
      /\ e.height \in Nat /\ e \in SurfaceEntry
  BY EntryValues
<1>2. e.text \in [TextElements -> Texts]
  BY <1>1, SurfaceFields
<1>3. T \subseteq TextElements
  BY DEF TextsUpto
<1>4. z \in [width : Nat, height : Nat] \cup {None}
  BY <1>1 DEF SizeAttrs
<1> HIDE DEF T, e, z
<1>5. /\ u = [el \in DOMAIN u |-> u[el]] /\ DOMAIN u \subseteq TextElements
      /\ \A el \in DOMAIN u : u[el] \in Texts
  BY <1>2, <1>3, ImageAssumption
<1> HIDE DEF u
<1>6. /\ b.id = e.id /\ b.name = e.name /\ b.order = e.order /\ b.text = u /\ b.size = z
      /\ b = [id |-> b.id, name |-> b.name, order |-> b.order, text |-> b.text, size |-> b.size]
  OBVIOUS
<1> HIDE DEF b
<1>7. b \in Builder
  BY <1>1, <1>4, <1>5, <1>6, BuilderFields
<1>8. surface = b
  BY DEF Partial, b, u, T, e, z
<1> QED
  BY <1>7, <1>8, OptionAssumption

LEMMA DimensionsRead ==
  ASSUME ReadInv, NEW s \in Seq(SurfaceEntry), NEW i \in 1 .. Len(s), AtEvent("empty"),
         Event = Empty("dimensions", SizeAttrs(s[i])), Within(s, i, 18)
  PROVE  Line /\ Within(s, i, 19)'
<1> DEFINE e == s[i]
           z == SizeAttrs(e)
<1>1. Event.el = "dimensions" /\ Event.attrs = z
  BY DEF Empty
<1>2. /\ Event.attrs["width"] = e.width /\ Event.attrs["height"] = e.height
      /\ DOMAIN Event.attrs = {"height", "width"}
  BY <1>1 DEF SizeAttrs
<1>3. Knows({"width", "height"})
  BY <1>2, EntryValues DEF Knows, Has
<1>4. surface = Partial(e, 18) /\ surface # None
  <2>1. surface = Partial(s[i], 18) /\ 18 \in 1 .. 19
    BY DEF Within
  <2> QED
    BY <2>1, PartialThere
<1>5. ~ BaseRefusesStart
  BY <1>1, <1>3, <1>4 DEF BaseRefusesStart
<1>6. StartDimensions
  BY <1>1, <1>5, StartTaken, TextStarts DEF Start
<1>7. /\ Line /\ surfaces' = surfaces /\ inHost' = inHost /\ target' = target
      /\ surface' = [surface EXCEPT !.size = z]
  BY <1>1, <1>6, TakenMoves DEF StartDimensions, BaseStart, Line
<1>8. surface' = Partial(e, 19)
  <2> DEFINE u == [el \in TextsUpto(18) |-> Trim[e.text[el]]]
  <2>1. Partial(e, 18) = [id |-> e.id, name |-> e.name, order |-> e.order, text |-> u,
                          size |-> None]
    BY DEF Partial
  <2>2. Partial(e, 19) = [id |-> e.id, name |-> e.name, order |-> e.order, text |-> u,
                          size |-> z]
    BY PlainPlaces DEF Partial
  <2> HIDE DEF u, e, z
  <2>3. [[id |-> e.id, name |-> e.name, order |-> e.order, text |-> u, size |-> None]
           EXCEPT !.size = z]
          = [id |-> e.id, name |-> e.name, order |-> e.order, text |-> u, size |-> z]
    OBVIOUS
  <2> QED
    BY <1>4, <1>7, <2>1, <2>2, <2>3
<1> QED
  BY <1>7, <1>8, PlainPlaces DEF Within

LEMMA NextSurface ==
  ASSUME NEW s \in Seq(SurfaceEntry), NEW i \in 1 .. Len(s)
  PROVE  Append(FirstSurfaces(s, i - 1), TrimmedSurface(s[i])) = FirstSurfaces(s, i)
<1> DEFINE T == SurfaceEntry
           a == FirstSurfaces(s, i - 1)
           b == FirstSurfaces(s, i)
           t(j) == TrimmedSurface(s[j])
<1>1. i \in Nat /\ i - 1 \in Nat /\ \A j \in 1 .. i : s[j] \in T
  BY SurfacesOf
<1>2. \A j \in 1 .. i : t(j) \in T
  BY <1>1, TrimmedSurfaceIs
<1>3. a = [j \in 1 .. i - 1 |-> t(j)] /\ b = [j \in 1 .. i |-> t(j)]
  BY DEF FirstSurfaces
<1> HIDE DEF T, a, b, t
<1>4. a \in Seq(T) /\ b \in Seq(T) /\ Len(a) = i - 1 /\ Len(b) = i
  BY <1>1, <1>2, <1>3
<1> DEFINE c == Append(a, t(i))
<1>5. c \in Seq(T) /\ Len(c) = i /\ c[i] = t(i) /\ \A j \in 1 .. i - 1 : c[j] = a[j]
  <2>1. t(i) \in T /\ Len(a) + 1 = i
    BY <1>1, <1>2, <1>4
  <2>2. /\ c \in Seq(T) /\ Len(c) = Len(a) + 1 /\ c[Len(a) + 1] = t(i)
        /\ \A j \in 1 .. Len(a) : c[j] = a[j]
    BY <1>4, <2>1, AppendProperties
  <2> QED
    BY <1>4, <2>1, <2>2
<1> HIDE DEF c
<1>6. ASSUME NEW j \in 1 .. Len(c) PROVE c[j] = b[j]
  BY <1>1, <1>3, <1>5
<1>7. c = b
  BY <1>4, <1>5, <1>6, SeqEqual
<1> QED
  BY <1>7 DEF c, a, b, t

LEMMA SurfaceCloses ==
  ASSUME NEW s \in Seq(SurfaceEntry), NEW i \in 1 .. Len(s), ReadInv, AtEvent("close"),
         Event = Close("surface"), Within(s, i, 19)
  PROVE  Line /\ Between(s, i)'
<1> DEFINE e == s[i]
           z == SizeAttrs(e)
           u == [el \in TextElements |-> Trim[e.text[el]]]
<1>1. Event.el = "surface"
  BY DEF Close
<1>2. e \in SurfaceEntry /\ e.width \in Nat /\ e.height \in Nat
  BY EntryValues
<1>3. z \in [width : Nat, height : Nat] /\ z.width = e.width /\ z.height = e.height
  BY <1>2 DEF SizeAttrs
<1>4. surface = [id |-> e.id, name |-> e.name, order |-> e.order, text |-> u, size |-> z]
  <2>1. TextsUpto(19) = TextElements
    BY PlainPlaces
  <2> QED
    BY <2>1 DEF Within, Partial
<1>5. surface # None
  <2>1. surface = Partial(s[i], 19) /\ 19 \in 1 .. 19
    BY DEF Within
  <2> QED
    BY <2>1, PartialThere
<1>6. DOMAIN u = TextElements /\ z # None
  BY <1>3, OptionAssumption
<1>7. TrimmedSurface(e) = [id |-> e.id, name |-> e.name, order |-> e.order, text |-> u,
                           width |-> e.width, height |-> e.height]
  BY <1>2, TrimmedSurfaceIs
<1> HIDE DEF u, z
<1>8. Complete(surface) /\ Built(surface) = TrimmedSurface(e)
  BY <1>3, <1>4, <1>6, <1>7 DEF Complete, Built
<1>9. ~ BaseRefusesEnd
  BY <1>1, <1>5, <1>8, TextStarts DEF BaseRefusesEnd
<1>10. EndSurface
  BY <1>1, <1>9, CloseTaken, TextStarts
<1>11. /\ Line /\ inHost' = inHost /\ target' = target /\ surface' = None
       /\ surfaces' = Append(surfaces, Built(surface))
  BY <1>10, TakenMoves DEF EndSurface, BaseEnd, Line
<1>12. surfaces' = FirstSurfaces(s, i)
  BY <1>8, <1>11, NextSurface DEF Within
<1>13. inHost = FALSE /\ target = None
  BY PlainPlaces DEF Within
<1> QED
  BY <1>11, <1>12, <1>13 DEF Between

LEMMA TextOpens ==
  ASSUME NEW s, NEW i, NEW el \in TextElements, AtEvent("open"), Event = Open(el, <<>>),
         Within(s, i, TextStart[el] - 1)
  PROVE  Line /\ Within(s, i, TextStart[el])'
<1> DEFINE t == TextStart[el]
<1>1. Event.el = el
  BY DEF Open
<1>2. ~ BaseRefusesStart
  BY <1>1, TextStarts DEF BaseRefusesStart
<1>3. StartText
  BY <1>1, <1>2, StartTaken, TextStarts DEF Start
<1>4. Line /\ surfaces' = surfaces /\ inHost' = inHost /\ surface' = surface /\ target' = el
  BY <1>1, <1>3, TakenMoves DEF StartText, BaseStart, Line
<1>5. /\ t \in 3 .. 16 /\ TextsUpto(t) = TextsUpto(t - 1)
      /\ \A e \in TextElements : (OpenAt(e, t) <=> e = el) /\ t # TextStart[e] + 1
      /\ t \in 2 .. 14 <=> t - 1 \in 2 .. 14
  BY TextPlaces
<1> HIDE DEF t
<1>6. Partial(s[i], t) = Partial(s[i], t - 1)
  <2>1. t # 19 /\ t - 1 # 19
    BY <1>5
  <2> QED
    BY <1>5, <2>1 DEF Partial
<1>7. Within(s, i, t - 1)
  BY DEF t
<1>8. Within(s, i, t)'
  BY <1>4, <1>5, <1>6, <1>7 DEF Within
<1> QED
  BY <1>4, <1>8 DEF t

LEMMA TextRead ==
  ASSUME NEW s, NEW i, NEW el \in TextElements, AtEvent("text"),
         Event = TextEvent(s[i].text[el]), Within(s, i, TextStart[el])
  PROVE  Line /\ Within(s, i, TextStart[el] + 1)'
<1> DEFINE t == TextStart[el]
<1>1. Event.text = s[i].text[el]
  BY DEF TextEvent
<1>3. TakeText
  BY TextTaken
<1>5. /\ t \in 3 .. 16 /\ TextsUpto(t + 1) = TextsUpto(t)
      /\ \A e \in TextElements : /\ OpenAt(e, t) <=> e = el
                                 /\ OpenAt(e, t + 1) <=> e = el
                                 /\ t + 1 = TextStart[e] + 1 <=> e = el
      /\ t + 1 \in 2 .. 14 <=> t \in 2 .. 14
  BY TextPlaces
<1> HIDE DEF t
<1>7. Within(s, i, t)
  BY DEF t
<1>2. target = el /\ target # None
  BY <1>5, <1>7, OptionAssumption DEF Within
<1>4. /\ Line /\ surfaces' = surfaces /\ inHost' = inHost /\ surface' = surface
      /\ target' = target /\ buf' = Trim[s[i].text[el]]
  BY <1>1, <1>2, <1>3, TakenMoves DEF TakeText, Line
<1>6. Partial(s[i], t + 1) = Partial(s[i], t)
  <2>1. t # 19 /\ t + 1 # 19
    BY <1>5
  <2> QED
    BY <1>5, <2>1 DEF Partial
<1>8. Within(s, i, t + 1)'
  BY <1>2, <1>4, <1>5, <1>6, <1>7 DEF Within
<1> QED
  BY <1>4, <1>8 DEF t

LEMMA MoreText ==
  ASSUME NEW e, NEW el \in TextElements, NEW k, NEW l, k # 19, l # 19,
         TextsUpto(l) = TextsUpto(k) \cup {el}
  PROVE  WithText(Partial(e, k), el, Trim[e.text[el]]) = Partial(e, l)
<1> DEFINE b == Partial(e, k)
           u == [x \in TextsUpto(k) |-> Trim[e.text[x]]]
           v == [x \in TextsUpto(l) |-> Trim[e.text[x]]]
           w == [x \in DOMAIN b.text \cup {el} |-> IF x = el THEN Trim[e.text[el]] ELSE b.text[x]]
<1>1. b = [id |-> e.id, name |-> e.name, order |-> e.order, text |-> u, size |-> None]
  BY DEF Partial
<1>2. Partial(e, l) = [id |-> e.id, name |-> e.name, order |-> e.order, text |-> v, size |-> None]
  BY DEF Partial
<1>3. WithText(b, el, Trim[e.text[el]]) = [b EXCEPT !.text = w]
  BY DEF WithText
<1>4. w = v
  <2>1. b.text = u
    BY <1>1
  <2>2. w = [x \in DOMAIN u \cup {el} |-> IF x = el THEN Trim[e.text[el]] ELSE u[x]]
    BY <2>1
  <2> HIDE DEF b, w
  <2> QED
    BY <2>2
<1> HIDE DEF b, u, v, w
<1>5. [[id |-> e.id, name |-> e.name, order |-> e.order, text |-> u, size |-> None]
         EXCEPT !.text = v]
        = [id |-> e.id, name |-> e.name, order |-> e.order, text |-> v, size |-> None]
  OBVIOUS
<1>6. WithText(b, el, Trim[e.text[el]]) = Partial(e, l)
  BY <1>1, <1>2, <1>3, <1>4, <1>5
<1> QED
  BY <1>6 DEF b

LEMMA TextCloses ==
  ASSUME NEW s \in Seq(SurfaceEntry), NEW i \in 1 .. Len(s), NEW el \in TextElements,
         ReadInv, AtEvent("close"), Event = Close(el), Within(s, i, TextStart[el] + 1)
  PROVE  Line /\ Within(s, i, TextStart[el] + 2)'
<1> DEFINE t == TextStart[el]
           e == s[i]
<1>1. Event.el = el
  BY DEF Close
<1>2. e \in SurfaceEntry /\ e.text["os"] \in OsNames /\ e.text["codec"] \in CodecNames
  BY EntryValues, SurfaceFields
<1>3. /\ t \in 3 .. 16
      /\ TextsUpto(t + 2) = TextsUpto(t + 1) \cup {el}
      /\ \A x \in TextElements : /\ OpenAt(x, t + 1) <=> x = el
                                 /\ t + 1 = TextStart[x] + 1 <=> x = el
                                 /\ ~ OpenAt(x, t + 2) /\ t + 2 # TextStart[x] + 1
      /\ t + 2 \in 2 .. 14 <=> t + 1 \in 2 .. 14
      /\ el \in HostElements => t + 1 \in 2 .. 14
  BY TextPlaces
<1> HIDE DEF t
<1>4. Within(s, i, t + 1)
  BY DEF t
<1>5. /\ target = el /\ target # None /\ buf = Trim[e.text[el]]
      /\ el \in HostElements => inHost = TRUE
      /\ surface = Partial(e, t + 1)
  BY <1>3, <1>4, OptionAssumption DEF Within
<1>6. surface # None
  <2>1. t + 1 \in 1 .. 19
    BY <1>3
  <2> QED
    BY <1>5, <2>1, PartialThere
<1>7. Applies
  BY <1>5 DEF Applies
<1>8. Spelt
  <2>1. Trim[e.text["os"]] = e.text["os"] /\ Trim[e.text["codec"]] = e.text["codec"]
    BY <1>2, ImageAssumption
  <2> QED
    BY <1>2, <1>5, <2>1 DEF Spelt
<1>9. ~ BaseRefusesEnd
  BY <1>1, <1>6, <1>8, TextStarts DEF BaseRefusesEnd
<1>10. EndText
  BY <1>1, <1>9, CloseTaken, TextStarts
<1>11. /\ Line /\ inHost' = inHost /\ surfaces' = surfaces /\ target' = None
       /\ surface' = WithText(surface, target, buf)
  BY <1>7, <1>10, TakenMoves DEF EndText, BaseEnd, Line
<1>12. surface' = Partial(e, t + 2)
  <2>1. t + 1 # 19 /\ t + 2 # 19
    BY <1>3
  <2>2. WithText(Partial(e, t + 1), el, Trim[e.text[el]]) = Partial(e, t + 2)
    BY <1>3, <2>1, MoreText, Zenon
  <2> QED
    BY <1>5, <1>11, <2>2
<1>13. Within(s, i, t + 2)'
  BY <1>3, <1>4, <1>11, <1>12 DEF Within
<1> QED
  BY <1>11, <1>13 DEF t

(***************************************************************************)
(* A line of a surface.                                                    *)
(***************************************************************************)
LEMMA SurfaceLine ==
  ASSUME NEW s \in Seq(SurfaceEntry), NEW i \in 1 .. Len(s), NEW k \in 1 .. 20,
         ReadInv, AtEvent(Event.kind), Event = WriteSurface(s[i])[k],
         k = 1 => Between(s, i - 1), k # 1 => Within(s, i, k - 1)
  PROVE  /\ Line
         /\ k # 20 => Within(s, i, k)'
         /\ k = 20 => Between(s, i)'
<1> DEFINE w == WriteSurface(s[i])
<1>1. SurfaceTable(w, s[i])
  <2>1. s[i] \in SurfaceEntry
    BY EntryValues
  <2> QED
    BY <2>1, SurfaceIs, Zenon
<1> HIDE DEF w
<1>2. Event = w[k]
  BY DEF w
<1>3. ASSUME NEW el, NEW a
      PROVE  /\ Event = Open(el, a) => AtEvent("open")
             /\ Event = Empty(el, a) => AtEvent("empty")
             /\ Event = Close(el) => AtEvent("close")
             /\ Event = TextEvent(a) => AtEvent("text")
  <2>1. /\ Open(el, a).kind = "open" /\ Empty(el, a).kind = "empty"
        /\ Close(el).kind = "close" /\ TextEvent(a).kind = "text"
    BY DEF Open, Empty, Close, TextEvent
  <2>2. /\ Event = Open(el, a) => Event.kind = "open"
        /\ Event = Empty(el, a) => Event.kind = "empty"
        /\ Event = Close(el) => Event.kind = "close"
        /\ Event = TextEvent(a) => Event.kind = "text"
    BY <2>1, Zenon
  <2> QED
    BY <2>2 DEF AtEvent
<1>4. CASE k = 1
  <2>1. Event = Open("surface", SurfaceAttrs(s[i]))
    BY <1>1, <1>2, <1>4 DEF SurfaceTable
  <2> QED
    BY <1>3, <1>4, <2>1, SurfaceOpens
<1>5. CASE k = 2
  <2>1. Event = Open("host", <<>>) /\ Within(s, i, 1)
    BY <1>1, <1>2, <1>5 DEF SurfaceTable
  <2>2. AtEvent("open")
    BY <1>3, <2>1
  <2> QED
    BY <1>5, <2>1, <2>2, HostOpens
<1>6. CASE k = 15
  <2>1. Event = Close("host") /\ Within(s, i, 14)
    BY <1>1, <1>2, <1>6 DEF SurfaceTable
  <2>2. AtEvent("close")
    BY <1>3, <2>1
  <2> QED
    BY <1>6, <2>1, <2>2, HostCloses
<1>7. CASE k = 19
  <2>1. Event = Empty("dimensions", SizeAttrs(s[i])) /\ Within(s, i, 18)
    BY <1>1, <1>2, <1>7 DEF SurfaceTable
  <2>2. AtEvent("empty")
    BY <1>3, <2>1
  <2> QED
    BY <1>7, <2>1, <2>2, DimensionsRead
<1>8. CASE k = 20
  <2>1. Event = Close("surface") /\ Within(s, i, 19)
    BY <1>1, <1>2, <1>8 DEF SurfaceTable
  <2>2. AtEvent("close")
    BY <1>3, <2>1
  <2> QED
    BY <1>8, <2>1, <2>2, SurfaceCloses
<1>9. ASSUME NEW el \in TextElements, k \in {TextStart[el], TextStart[el] + 1, TextStart[el] + 2}
      PROVE  Line /\ Within(s, i, k)' /\ k # 20
  <2> DEFINE t == TextStart[el]
  <2>1. /\ w[t] = Open(el, <<>>) /\ w[t + 1] = TextEvent(s[i].text[el])
        /\ w[t + 2] = Close(el)
    BY <1>1 DEF SurfaceTable, TextAt
  <2>2. t \in 3 .. 16
    BY TextPlaces
  <2>7. k \in {t, t + 1, t + 2}
    BY <1>9
  <2> HIDE DEF t
  <2>8. k # 1 /\ k # 20
    BY <2>2, <2>7
  <2>3. k # 1 /\ k # 20 /\ Within(s, i, k - 1)
    BY <2>8
  <2>4. CASE k = t
    <3>1. Event = Open(el, <<>>)
      BY <1>2, <2>1, <2>4
    <3>2. Within(s, i, TextStart[el] - 1) /\ AtEvent("open")
      BY <1>3, <2>3, <2>4, <3>1 DEF t
    <3>3. Line /\ Within(s, i, TextStart[el])'
      BY <3>1, <3>2, TextOpens
    <3> QED
      BY <2>3, <2>4, <3>3 DEF t
  <2>5. CASE k = t + 1
    <3>1. Event = TextEvent(s[i].text[el])
      BY <1>2, <2>1, <2>5
    <3>2. k - 1 = t
      BY <2>2, <2>5
    <3>3. Within(s, i, TextStart[el]) /\ AtEvent("text")
      BY <1>3, <2>3, <3>1, <3>2 DEF t
    <3>4. Line /\ Within(s, i, TextStart[el] + 1)'
      BY <3>1, <3>3, TextRead
    <3> QED
      BY <2>3, <2>5, <3>4 DEF t
  <2>6. CASE k = t + 2
    <3>1. Event = Close(el)
      BY <1>2, <2>1, <2>6
    <3>2. k - 1 = t + 1
      BY <2>2, <2>6
    <3>3. Within(s, i, TextStart[el] + 1) /\ AtEvent("close")
      BY <1>3, <2>3, <3>1, <3>2 DEF t
    <3>4. Line /\ Within(s, i, TextStart[el] + 2)'
      BY <3>1, <3>3, TextCloses
    <3> QED
      BY <2>3, <2>6, <3>4 DEF t
  <2> QED
    BY <1>9, <2>4, <2>5, <2>6 DEF t
<1> QED
  BY <1>4, <1>5, <1>6, <1>7, <1>8, <1>9, SurfaceCover

(***************************************************************************)
(* The first pass after p events of an intact document of x.               *)
(***************************************************************************)
SessionRead(x) == [id |-> ComputeId(x.base), created |-> x.base.body.created,
                   schema |-> x.base.body.schema]

LayoutRead(x, p) ==
  [scroll |-> IF p < SurfaceLines(x) + 5 THEN 0 ELSE x.base.body.scroll,
   focus  |-> IF p < SurfaceLines(x) + 6 THEN None ELSE x.base.body.focus]

SurfacesRead(s, p) ==
  /\ p <= 2 => Between(s, 0)
  /\ \A i \in 1 .. Len(s) : p = 2 + 20 * i => Between(s, i)
  /\ \A i \in 1 .. Len(s) : \A k \in 1 .. 19 : p = 2 + 20 * (i - 1) + k => Within(s, i, k)
  /\ p >= 20 * Len(s) + 2 => Between(s, Len(s))

BaseAt(x, p) ==
  /\ p >= 1 => session = SessionRead(x)
  /\ layout = LayoutRead(x, p)
  /\ SurfacesRead(x.base.body.surfaces, p)

LEMMA SurfacesBefore ==
  ASSUME NEW s, NEW p, p \in {0, 1}, Len(s) \in Nat,
         SurfacesRead(s, p), UNCHANGED <<surfaces, surface, inHost, target>>
  PROVE  SurfacesRead(s, p + 1)'
<1>1. Between(s, 0)' /\ p + 1 \in {1, 2}
  BY DEF SurfacesRead, Between
<1>2. \A i \in 1 .. Len(s) : p + 1 # 2 + 20 * i
  BY <1>1
<1>3. \A i \in 1 .. Len(s) : \A k \in 1 .. 19 : p + 1 # 2 + 20 * (i - 1) + k
  BY <1>1
<1>4. p + 1 >= 20 * Len(s) + 2 => Len(s) = 0
  BY <1>1
<1> QED
  BY <1>1, <1>2, <1>3, <1>4 DEF SurfacesRead

LEMMA SurfacesAfter ==
  ASSUME NEW s, NEW p \in Nat, Len(s) \in Nat, p >= 20 * Len(s) + 2,
         SurfacesRead(s, p), UNCHANGED <<surfaces, surface, inHost, target>>
  PROVE  SurfacesRead(s, p + 1)'
<1>1. Between(s, Len(s))' /\ ~ (p + 1 <= 2)
  BY DEF SurfacesRead, Between
<1>2. \A i \in 1 .. Len(s) : p + 1 # 2 + 20 * i
  OBVIOUS
<1>3. \A i \in 1 .. Len(s) : \A k \in 1 .. 19 : p + 1 # 2 + 20 * (i - 1) + k
  OBVIOUS
<1> QED
  BY <1>1, <1>2, <1>3 DEF SurfacesRead

\* a line belongs to one surface
LEMMA OneLine ==
  ASSUME NEW n \in Nat, NEW i \in 1 .. n, NEW k \in 1 .. 20, NEW j \in 1 .. n
  PROVE  /\ 2 + 20 * (i - 1) + k = 2 + 20 * j => k = 20 /\ j = i
         /\ \A l \in 1 .. 19 : 2 + 20 * (i - 1) + k = 2 + 20 * (j - 1) + l => l = k /\ j = i
         /\ 2 + 20 * (i - 1) + k >= 20 * n + 2 => k = 20 /\ i = n
         /\ ~ (2 + 20 * (i - 1) + k <= 2)
OBVIOUS

LEMMA SurfacesWithin ==
  ASSUME NEW s \in Seq(SurfaceEntry), NEW i \in 1 .. Len(s), NEW k \in 1 .. 20, NEW p \in Nat,
         p + 1 = 2 + 20 * (i - 1) + k, SurfacesRead(s, p),
         ReadInv, AtEvent(Event.kind), Event = WriteSurface(s[i])[k]
  PROVE  Line /\ SurfacesRead(s, p + 1)'
<1> DEFINE n == Len(s)
<1>1. n \in Nat
  BY SurfacesOf
<1>2. k = 1 => Between(s, i - 1)
  <2>1. CASE i = 1
    BY <2>1 DEF SurfacesRead
  <2>2. CASE i # 1
    <3>1. k = 1 => p = 2 + 20 * (i - 1) /\ i - 1 \in 1 .. Len(s)
      BY <1>1, <2>2
    <3> QED
      BY <3>1 DEF SurfacesRead
  <2> QED
    BY <2>1, <2>2
<1>3. k # 1 => Within(s, i, k - 1)
  <2>1. k # 1 => p = 2 + 20 * (i - 1) + (k - 1) /\ k - 1 \in 1 .. 19
    OBVIOUS
  <2> QED
    BY <2>1 DEF SurfacesRead
<1>4. Line /\ (k # 20 => Within(s, i, k)') /\ (k = 20 => Between(s, i)')
  BY <1>2, <1>3, SurfaceLine
<1> DEFINE q == p + 1
<1>5. \A j \in 1 .. n : /\ q = 2 + 20 * j => k = 20 /\ j = i
                        /\ \A l \in 1 .. 19 : q = 2 + 20 * (j - 1) + l => l = k /\ j = i
                        /\ q >= 20 * n + 2 => k = 20 /\ i = n
                        /\ ~ (q <= 2)
  BY <1>1, OneLine
<1>6. ~ (q <= 2) /\ (q >= 20 * n + 2 => k = 20 /\ i = n)
  BY <1>5
<1> HIDE DEF q
<1>7. \A j \in 1 .. Len(s) : q = 2 + 20 * j => Between(s, j)'
  BY <1>4, <1>5
<1>8. ASSUME NEW j \in 1 .. Len(s), NEW l \in 1 .. 19, q = 2 + 20 * (j - 1) + l
      PROVE  Within(s, j, l)'
  <2>1. l = k /\ j = i /\ k # 20
    BY <1>5, <1>8
  <2> QED
    BY <1>4, <2>1
<1>9. q >= 20 * Len(s) + 2 => Between(s, Len(s))'
  BY <1>4, <1>6
<1>10. SurfacesRead(s, q)'
  BY <1>6, <1>7, <1>8, <1>9 DEF SurfacesRead
<1> QED
  BY <1>4, <1>10 DEF q

\* a line that reads nothing of a surface
Outside == Moved /\ UNCHANGED <<surfaces, surface, inHost, target>>

LEMMA BodyFields ==
  ASSUME NEW x \in ImageV1
  PROVE  LET b == x.base.body
         IN  /\ b \in Body /\ b.surfaces \in Seq(SurfaceEntry) /\ b.created \in Texts
             /\ b.schema \in Nat /\ b.scroll \in Int /\ b.focus \in SurfaceIds \cup {None}
<1>1. x.base.body \in Body
  BY DEF ImageV1, Image
<1> QED
  BY <1>1 DEF Body

LEMMA AnEvent ==
  ASSUME ReadInv, BaseNext, phase = "base", pos <= Len(doc)
  PROVE  AtEvent(Event.kind) /\ Event \in EventOf(source) /\ source \in ImageV1
<1>1. Len(doc) \in Nat /\ pos \in 1 .. Len(doc) /\ source \in ImageV1
  BY LenProperties, ParserAssumption DEF ReadInv, DocumentInv
<1>2. Event \in EventOf(source)
  BY <1>1, ElementOfSeq DEF Event, ReadInv, DocumentInv
<1> QED
  BY <1>1, <1>2 DEF AtEvent

LEMMA SessionOpens ==
  ASSUME NEW x \in ImageV1, AtEvent(Event.kind), Event = Open("session", SessionAttrs(x))
  PROVE  Outside /\ session' = SessionRead(x) /\ layout' = layout
<1>1. /\ Event.kind = "open" /\ Event.el = "session" /\ Event.attrs = SessionAttrs(x)
  <2>1. /\ Open("session", SessionAttrs(x)).kind = "open"
        /\ Open("session", SessionAttrs(x)).el = "session"
        /\ Open("session", SessionAttrs(x)).attrs = SessionAttrs(x)
    BY DEF Open
  <2> QED
    BY <2>1, Zenon
<1>2. x.base.body.schema \in Nat /\ Unknown \notin Nat
  BY OptionAssumption, BodyFields
<1> DEFINE a == SessionAttrs(x)
<1>3. /\ DOMAIN a = {"created", "id", "schemaVersion"} /\ a["created"] = x.base.body.created
      /\ a["id"] = ComputeId(x.base) /\ a["schemaVersion"] = x.base.body.schema
  BY DEF SessionAttrs
<1> HIDE DEF a
<1>4. /\ Attribute("schemaVersion", 1) = x.base.body.schema
      /\ Attribute("id", None) = ComputeId(x.base)
      /\ Attribute("created", None) = x.base.body.created
  <2>1. Event.attrs = a
    BY <1>1 DEF a
  <2> QED
    BY <1>3, <2>1 DEF Attribute
<1>5. ~ BaseRefusesStart
  BY <1>1, <1>2, <1>4 DEF BaseRefusesStart
<1>6. StartSession
  BY <1>1, <1>5, StartTaken, TextStarts DEF Start
<1>7. /\ Moved /\ UNCHANGED <<surfaces, layout, surface, inHost, target>>
  BY <1>6, TakenMoves DEF StartSession, BaseStart
<1>8. session' = SessionRead(x)
  BY <1>4, <1>6 DEF StartSession, SessionRead
<1> QED
  BY <1>7, <1>8 DEF Outside

LEMMA Opens ==
  ASSUME NEW el \in {"surfaces", "layout"}, AtEvent(Event.kind), Event = Open(el, <<>>)
  PROVE  Outside /\ session' = session /\ layout' = layout
<1>1. /\ Event.kind = "open" /\ Event.el = el
  <2>1. Open(el, <<>>).kind = "open" /\ Open(el, <<>>).el = el
    BY DEF Open
  <2> QED
    BY <2>1, Zenon
<1>2. ~ BaseRefusesStart
  BY <1>1 DEF BaseRefusesStart
<1>3. StartOther
  BY <1>1, <1>2, StartTaken, TextStarts DEF Start
<1> QED
  BY <1>3, TakenMoves DEF StartOther, BaseStart, Outside

LEMMA Closes ==
  ASSUME NEW el \in {"surfaces", "layout"}, AtEvent(Event.kind), Event = Close(el)
  PROVE  Outside /\ session' = session /\ layout' = layout
<1>1. /\ Event.kind = "close" /\ Event.el = el
  <2>1. Close(el).kind = "close" /\ Close(el).el = el
    BY DEF Close
  <2> QED
    BY <2>1, Zenon
<1>2. ~ BaseRefusesEnd
  BY <1>1, TextStarts DEF BaseRefusesEnd
<1>3. EndOther
  BY <1>1, <1>2, CloseTaken, TextStarts
<1> QED
  BY <1>3, TakenMoves DEF EndOther, BaseEnd, Outside

LEMMA StripRead ==
  ASSUME NEW n \in Int, AtEvent(Event.kind), Event = Empty("strip", [scrollPos |-> n])
  PROVE  Outside /\ session' = session /\ layout' = [layout EXCEPT !.scroll = n]
<1> DEFINE a == [scrollPos |-> n]
<1>1. /\ Event.kind = "empty" /\ Event.el = "strip" /\ Event.attrs = a
  <2>1. /\ Empty("strip", a).kind = "empty" /\ Empty("strip", a).el = "strip"
        /\ Empty("strip", a).attrs = a
    BY DEF Empty
  <2> QED
    BY <2>1, Zenon
<1>2. Event.attrs.scrollPos = n /\ DOMAIN Event.attrs = {"scrollPos"}
  BY <1>1
<1>3. Knows({"scrollPos"})
  BY <1>2, OptionAssumption DEF Knows, Has
<1>4. ~ BaseRefusesStart
  BY <1>1, <1>3 DEF BaseRefusesStart
<1>5. StartStrip
  BY <1>1, <1>4, StartTaken, TextStarts DEF Start
<1> QED
  BY <1>2, <1>5, TakenMoves DEF StartStrip, BaseStart, Outside

LEMMA FocusRead ==
  ASSUME NEW ref \in SurfaceIds, AtEvent(Event.kind), Event = Empty("focus", RefAttrs(ref))
  PROVE  Outside /\ session' = session /\ layout' = [layout EXCEPT !.focus = ref]
<1>1. /\ Event.kind = "empty" /\ Event.el = "focus" /\ Event.attrs = RefAttrs(ref)
  <2>1. /\ Empty("focus", RefAttrs(ref)).kind = "empty"
        /\ Empty("focus", RefAttrs(ref)).el = "focus"
        /\ Empty("focus", RefAttrs(ref)).attrs = RefAttrs(ref)
    BY DEF Empty
  <2> QED
    BY <2>1, Zenon
<1>2. Event.attrs.surfaceRef = ref /\ DOMAIN Event.attrs = {"surfaceRef"}
  BY <1>1 DEF RefAttrs
<1>3. Knows({"surfaceRef"})
  BY <1>2, OptionAssumption DEF Knows, Has
<1>4. ~ BaseRefusesStart
  BY <1>1, <1>3 DEF BaseRefusesStart
<1>5. StartFocus
  BY <1>1, <1>4, StartTaken, TextStarts DEF Start
<1> QED
  BY <1>2, <1>5, TakenMoves DEF StartFocus, BaseStart, Outside

LEMMA TailRead ==
  ASSUME NEW x, AtEvent(Event.kind), Event \in TailEvents(x)
  PROVE  Outside /\ session' = session /\ layout' = layout
<1>1. /\ Event.kind # "text" /\ Event.el \in TailElements
      /\ Event.el = "session" => Event.kind = "close"
      /\ Event \in EventOf(x)
  BY DEF TailEvents
<1>2. Event.kind \in {"open", "empty", "close"}
  BY <1>1, EventFields
<1>3. CASE Event.kind = "close"
  <2>1. ~ BaseRefusesEnd
    BY <1>1, TextStarts DEF BaseRefusesEnd, TailElements
  <2>2. EndOther
    BY <1>1, <1>3, <2>1, CloseTaken, TextStarts DEF TailElements
  <2> QED
    BY <2>2, TakenMoves DEF EndOther, BaseEnd, Outside
<1>4. CASE Event.kind \in {"open", "empty"}
  <2>1. ~ BaseRefusesStart
    BY <1>1, <1>4 DEF BaseRefusesStart, TailElements
  <2>2. StartOther
    BY <1>1, <1>4, <2>1, StartTaken, TextStarts DEF TailElements, Start
  <2> QED
    BY <2>2, TakenMoves DEF StartOther, BaseStart, Outside
<1> QED
  BY <1>2, <1>3, <1>4

LEMMA LayoutKept ==
  ASSUME NEW x \in ImageV1, NEW p \in Nat,
         p + 1 # SurfaceLines(x) + 5,
         x.base.body.focus # None => p + 1 # SurfaceLines(x) + 6
  PROVE  LayoutRead(x, p + 1) = LayoutRead(x, p)
<1> DEFINE L == SurfaceLines(x)
           f == x.base.body.focus
           g == x.base.body.scroll
<1>1. L \in Nat
  BY PreludeEndIs
<1> HIDE DEF L, f, g
<1>2. (IF p + 1 < L + 5 THEN 0 ELSE g) = (IF p < L + 5 THEN 0 ELSE g)
  BY <1>1 DEF L
<1>3. (IF p + 1 < L + 6 THEN None ELSE f) = (IF p < L + 6 THEN None ELSE f)
  BY <1>1 DEF L, f
<1> QED
  BY <1>2, <1>3 DEF LayoutRead, L, f, g

LEMMA LayoutSet ==
  ASSUME NEW x \in ImageV1
  PROVE  LET L == SurfaceLines(x)
             b == x.base.body
         IN  /\ [LayoutRead(x, L + 4) EXCEPT !.scroll = b.scroll] = LayoutRead(x, L + 5)
             /\ [LayoutRead(x, L + 5) EXCEPT !.focus = b.focus] = LayoutRead(x, L + 6)
<1> DEFINE L == SurfaceLines(x)
           g == x.base.body.scroll
           f == x.base.body.focus
<1>1. L \in Nat
  BY PreludeEndIs
<1>2. \A p : LayoutRead(x, p) = [scroll |-> IF p < L + 5 THEN 0 ELSE g,
                                 focus  |-> IF p < L + 6 THEN None ELSE f]
  BY DEF LayoutRead
<1> HIDE DEF L, f, g
<1>3. /\ LayoutRead(x, L + 4) = [scroll |-> 0, focus |-> None]
      /\ LayoutRead(x, L + 5) = [scroll |-> g, focus |-> None]
      /\ LayoutRead(x, L + 6) = [scroll |-> g, focus |-> f]
  BY <1>1, <1>2
<1>4. /\ [[scroll |-> 0, focus |-> None] EXCEPT !.scroll = g] = [scroll |-> g, focus |-> None]
      /\ [[scroll |-> g, focus |-> None] EXCEPT !.focus = f] = [scroll |-> g, focus |-> f]
  OBVIOUS
<1> QED
  BY <1>3, <1>4 DEF L, f, g

\* after an event that reads nothing of a surface
LEMMA OutsideRead ==
  ASSUME NEW x \in ImageV1, NEW p \in Nat, BaseAt(x, p), Outside,
         p \in {0, 1} \/ p >= SurfaceLines(x) + 2,
         session' = SessionRead(x), layout' = LayoutRead(x, p + 1)
  PROVE  BaseAt(x, p + 1)'
<1> DEFINE s == x.base.body.surfaces
<1>1. Len(s) \in Nat /\ SurfaceLines(x) = 20 * Len(s)
  BY PreludeEndIs
<1>2. SurfacesRead(s, p) /\ UNCHANGED <<surfaces, surface, inHost, target>>
  BY DEF BaseAt, Outside
<1>3. SurfacesRead(s, p + 1)'
  <2>1. CASE p \in {0, 1}
    BY <1>1, <1>2, <2>1, SurfacesBefore
  <2>2. CASE p >= 20 * Len(s) + 2
    BY <1>1, <1>2, <2>2, SurfacesAfter
  <2> QED
    BY <1>1, <2>1, <2>2
<1> QED
  BY <1>3 DEF BaseAt

LEMMA BaseLine ==
  ASSUME NEW x, x = source, ReadInv, BaseNext, phase = "base", pos <= Len(doc), Intact(doc, x),
         NEW p \in Nat, pos = p + 1, BaseAt(x, p)
  PROVE  Moved /\ BaseAt(x, p + 1)'
<1> DEFINE s == x.base.body.surfaces
           L == SurfaceLines(x)
           M == PreludeEnd(x)
           f == x.base.body.focus
<1>1. /\ AtEvent(Event.kind) /\ Event = doc[pos] /\ x \in ImageV1
  BY AnEvent DEF Event
<1>2. /\ Len(s) \in Nat /\ L = 20 * Len(s) /\ L \in Nat
      /\ f # None => M = L + 7
      /\ f = None => M = L + 6
      /\ s \in Seq(SurfaceEntry) /\ x.base.body.scroll \in Int /\ f \in SurfaceIds \cup {None}
  <2>1. /\ Len(s) \in Nat /\ L = 20 * Len(s) /\ L \in Nat
        /\ FocusLines(x) \in {0, 1} /\ (f # None => FocusLines(x) = 1)
        /\ (f = None => FocusLines(x) = 0) /\ M = L + 6 + FocusLines(x)
    BY <1>1, PreludeEndIs
  <2>2. s \in Seq(SurfaceEntry) /\ x.base.body.scroll \in Int /\ f \in SurfaceIds \cup {None}
    BY <1>1, BodyFields
  <2> HIDE DEF s, L, M, f
  <2> QED
    BY <2>1, <2>2
<1>3. /\ layout = LayoutRead(x, p) /\ (p # 0 => session = SessionRead(x))
      /\ SurfacesRead(s, p)
  BY DEF BaseAt
<1>4. PreludeTable(doc, x) /\ \A k \in M + 1 .. Len(doc) : doc[k] \in TailEvents(x)
  BY DEF Intact
<1>0. /\ doc[1] = Open("session", SessionAttrs(x)) /\ doc[2] = Open("surfaces", <<>>)
      /\ doc[L + 3] = Close("surfaces") /\ doc[L + 4] = Open("layout", <<>>)
      /\ doc[L + 5] = Empty("strip", [scrollPos |-> x.base.body.scroll])
      /\ f # None => doc[L + 6] = Empty("focus", RefAttrs(f))
      /\ doc[M] = Close("layout")
  BY <1>4, Zenon DEF PreludeTable
<1> HIDE DEF s, L, M, f
<1>5. CASE pos = 1
  <2>1. Event = Open("session", SessionAttrs(x)) /\ p = 0
    <3>1. Event = doc[1]
      BY <1>1, <1>5, Zenon
    <3>2. p = 0
      BY <1>2, <1>5
    <3> QED
      BY <1>0, <3>1, <3>2, Zenon
  <2>2. Outside /\ session' = SessionRead(x) /\ layout' = layout
    BY <1>1, <2>1, SessionOpens
  <2>3. LayoutRead(x, p + 1) = LayoutRead(x, p)
    BY <1>1, <1>2, <2>1, LayoutKept DEF L
  <2> QED
    BY <1>1, <1>3, <2>1, <2>2, <2>3, OutsideRead DEF Outside
<1>6. CASE pos = 2
  <2>1. Event = Open("surfaces", <<>>) /\ p = 1
    <3>1. Event = doc[2]
      BY <1>1, <1>6, Zenon
    <3>2. p = 1
      BY <1>2, <1>6
    <3> QED
      BY <1>0, <3>1, <3>2, Zenon
  <2>2. Outside /\ session' = session /\ layout' = layout
    BY <1>1, <2>1, Opens
  <2>3. LayoutRead(x, p + 1) = LayoutRead(x, p)
    BY <1>1, <1>2, <2>1, LayoutKept DEF L
  <2> QED
    BY <1>1, <1>3, <2>1, <2>2, <2>3, OutsideRead DEF Outside
<1>7. ASSUME NEW i \in 1 .. Len(s), NEW k \in 1 .. 20, pos = 2 + 20 * (i - 1) + k
      PROVE  Moved /\ BaseAt(x, p + 1)'
  <2>1. Event = WriteSurface(s[i])[k]
    BY <1>1, <1>4, <1>7 DEF PreludeTable, s
  <2>2. Line /\ SurfacesRead(s, p + 1)'
    BY <1>1, <1>2, <1>3, <1>7, <2>1, SurfacesWithin
  <2>3. p # 0 /\ p + 1 # L + 5 /\ p + 1 # L + 6
    BY <1>2, <1>7
  <2>4. LayoutRead(x, p + 1) = LayoutRead(x, p)
    BY <1>1, <2>3, LayoutKept DEF L
  <2> QED
    BY <1>3, <2>2, <2>3, <2>4 DEF BaseAt, Line, s
<1>8. CASE pos = L + 3
  <2>1. Event = Close("surfaces") /\ p >= L + 2
    <3>1. Event = doc[L + 3]
      BY <1>1, <1>8, Zenon
    <3>2. p >= L + 2
      BY <1>2, <1>8
    <3> QED
      BY <1>0, <3>1, <3>2, Zenon
  <2>2. Outside /\ session' = session /\ layout' = layout
    BY <1>1, <2>1, Closes
  <2>3. LayoutRead(x, p + 1) = LayoutRead(x, p) /\ p # 0
    BY <1>1, <1>2, <1>8, <2>1, LayoutKept DEF L
  <2> QED
    BY <1>1, <1>3, <2>1, <2>2, <2>3, OutsideRead DEF Outside, L
<1>9. CASE pos = L + 4
  <2>1. Event = Open("layout", <<>>) /\ p >= L + 2
    <3>1. Event = doc[L + 4]
      BY <1>1, <1>9, Zenon
    <3>2. p >= L + 2
      BY <1>2, <1>9
    <3> QED
      BY <1>0, <3>1, <3>2, Zenon
  <2>2. Outside /\ session' = session /\ layout' = layout
    BY <1>1, <2>1, Opens
  <2>3. LayoutRead(x, p + 1) = LayoutRead(x, p) /\ p # 0
    BY <1>1, <1>2, <1>9, <2>1, LayoutKept DEF L
  <2> QED
    BY <1>1, <1>3, <2>1, <2>2, <2>3, OutsideRead DEF Outside, L
<1>10. CASE pos = L + 5
  <2>1. Event = Empty("strip", [scrollPos |-> x.base.body.scroll]) /\ p = L + 4
    <3>1. Event = doc[L + 5]
      BY <1>1, <1>10, Zenon
    <3>2. p = L + 4
      BY <1>2, <1>10
    <3> QED
      BY <1>0, <3>1, <3>2, Zenon
  <2>2. Outside /\ session' = session /\ layout' = [layout EXCEPT !.scroll = x.base.body.scroll]
    BY <1>1, <1>2, <2>1, StripRead
  <2>3. layout' = LayoutRead(x, p + 1) /\ p # 0 /\ p >= L + 2
    <3>1. p + 1 = L + 5 /\ p # 0 /\ p >= L + 2
      BY <1>2, <2>1
    <3>2. [LayoutRead(x, L + 4) EXCEPT !.scroll = x.base.body.scroll] = LayoutRead(x, L + 5)
      BY <1>1, LayoutSet DEF L
    <3> QED
      BY <1>3, <2>1, <2>2, <3>1, <3>2
  <2> QED
    BY <1>1, <1>3, <2>1, <2>2, <2>3, OutsideRead DEF Outside, L
<1>11. CASE f # None /\ pos = L + 6
  <2>1. Event = Empty("focus", RefAttrs(f)) /\ p = L + 5 /\ f \in SurfaceIds
    <3>4. f \in SurfaceIds
      BY <1>2, <1>11
    <3>1. Event = doc[L + 6]
      BY <1>1, <1>11, Zenon
    <3>2. p = L + 5
      BY <1>2, <1>11
    <3> QED
      BY <1>11, <1>0, <3>1, <3>2, <3>4, Zenon
  <2>2. Outside /\ session' = session /\ layout' = [layout EXCEPT !.focus = f]
    BY <1>1, <2>1, FocusRead
  <2>3. layout' = LayoutRead(x, p + 1) /\ p # 0 /\ p >= L + 2
    <3>1. p + 1 = L + 6 /\ p # 0 /\ p >= L + 2
      BY <1>2, <2>1
    <3>2. [LayoutRead(x, L + 5) EXCEPT !.focus = f] = LayoutRead(x, L + 6)
      BY <1>1, LayoutSet DEF L, f
    <3> QED
      BY <1>3, <2>1, <2>2, <3>1, <3>2
  <2> QED
    BY <1>1, <1>3, <2>1, <2>2, <2>3, OutsideRead DEF Outside, L
<1>12. CASE pos = M
  <2>1. Event = Close("layout") /\ p >= L + 2 /\ p # 0
    <3>1. Event = doc[M]
      BY <1>1, <1>12, Zenon
    <3>2. p >= L + 2 /\ p # 0
      BY <1>2, <1>12
    <3> QED
      BY <1>0, <3>1, <3>2, Zenon
  <2>2. Outside /\ session' = session /\ layout' = layout
    BY <1>1, <2>1, Closes
  <2>3. LayoutRead(x, p + 1) = LayoutRead(x, p)
    <3>1. p + 1 # L + 5 /\ (f # None => p + 1 # L + 6)
      BY <1>2, <1>12
    <3> QED
      BY <1>1, <3>1, LayoutKept DEF L, f
  <2> QED
    BY <1>1, <1>3, <2>1, <2>2, <2>3, OutsideRead DEF Outside, L
<1>13. CASE pos > M
  <2>1. M \in Nat /\ Len(doc) \in Nat /\ pos \in M + 1 .. Len(doc)
    BY <1>1, <1>2, <1>13 DEF AtEvent
  <2>2. Event \in TailEvents(x) /\ p >= L + 2 /\ p # 0
    BY <1>1, <1>2, <1>4, <2>1
  <2>3. Outside /\ session' = session /\ layout' = layout
    BY <1>1, <2>2, TailRead
  <2>4. LayoutRead(x, p + 1) = LayoutRead(x, p)
    <3>1. p + 1 # L + 5 /\ (f # None => p + 1 # L + 6)
      BY <1>2, <2>1
    <3> QED
      BY <1>1, <3>1, LayoutKept DEF L, f
  <2> QED
    BY <1>1, <1>3, <2>2, <2>3, <2>4, OutsideRead DEF Outside, L
<1>14. \/ pos > M \/ pos \in {1, 2, L + 3, L + 4, L + 5, M} \/ (f # None /\ pos = L + 6)
       \/ \E i \in 1 .. Len(s) : \E k \in 1 .. 20 : pos = 2 + 20 * (i - 1) + k
  <2>1. M \in Nat /\ (pos > M \/ pos \in 1 .. M)
    BY <1>2
  <2> QED
    BY <1>1, <2>1, PreludeCover DEF s, L, M, f
<1> QED
  BY <1>5, <1>6, <1>7, <1>8, <1>9, <1>10, <1>11, <1>12, <1>13, <1>14

(***************************************************************************)
(* The first pass reads an intact document to its end, and reads from it   *)
(* the image that was written, as the text form keeps it.                  *)
(***************************************************************************)
BaseRead(x) == [id |-> ComputeId(x.base), body |-> Reread(x.base.body)]

BaseHere == \A x, p : x = source /\ p = pos - 1 => BaseAt(x, p)

FirstPassInv ==
  /\ phase = "coefficients" => reader = "v1"
  /\ Intact(doc, source) =>
       /\ phase = "base" => BaseHere
       /\ phase \in {"coefficients", "accepted"} => image = BaseRead(source)
       /\ phase = "rejected" => reader = "v1"

LEMMA FirstPassInit == ASSUME Init PROVE FirstPassInv
<1>1. source \in ImageV1
  BY ParserAssumption DEF Init
<1>2. /\ phase = "base" /\ pos - 1 = 0 /\ layout = [scroll |-> 0, focus |-> None]
      /\ surfaces = <<>> /\ surface = None /\ target = None /\ inHost = FALSE
  BY DEF Init
<1> DEFINE s == source.base.body.surfaces
<1>3. /\ SurfaceLines(source) \in Nat /\ Len(s) \in Nat
  BY <1>1, PreludeEndIs
<1>4. layout = LayoutRead(source, 0)
  BY <1>2, <1>3 DEF LayoutRead
<1>5. Between(s, 0)
  BY <1>2 DEF Between, FirstSurfaces
<1>6. SurfacesRead(s, 0)
  <2>1. ~ (0 >= 20 * Len(s) + 2) /\ 0 <= 2 /\ \A i \in 1 .. Len(s) : 0 # 2 + 20 * i
    BY <1>3
  <2>2. \A i \in 1 .. Len(s) : \A k \in 1 .. 19 : 0 # 2 + 20 * (i - 1) + k
    BY <1>3
  <2> QED
    BY <1>5, <2>1, <2>2 DEF SurfacesRead
<1>7. BaseAt(source, 0)
  BY <1>4, <1>6 DEF BaseAt
<1> QED
  BY <1>2, <1>7 DEF FirstPassInv, BaseHere

LEMMA AtTheEnd ==
  ASSUME ReadInv, BaseNext, ~ (pos <= Len(doc)) PROVE BaseEof \/ BaseFails
<1>1. \A pass, kinds : ~ Takes(pass, kinds)
  BY DEF Takes
<1> QED
  BY <1>1 DEF BaseNext, EndHost, EndSurface, EndText, EndOther, BaseEnd, TakeText,
         StartSession, StartSurface, StartHost, StartText, StartDimensions,
         StartStrip, StartFocus, StartOther, BaseStart

LEMMA BaseOver ==
  ASSUME NEW x, x = source, ReadInv, Intact(doc, x), phase = "base", pos = Len(doc) + 1,
         BaseAt(x, pos - 1)
  PROVE  /\ session = SessionRead(x) /\ x.base.body.created # None
         /\ surfaces = TrimmedList(x.base.body.surfaces)
         /\ layout = [scroll |-> x.base.body.scroll, focus |-> x.base.body.focus]
<1> DEFINE s == x.base.body.surfaces
           p == pos - 1
           M == PreludeEnd(x)
           L == SurfaceLines(x)
<1>1. x \in ImageV1 /\ Len(doc) \in Nat
  BY LenProperties, ParserAssumption DEF ReadInv, DocumentInv
<1>2. /\ Len(s) \in Nat /\ L = 20 * Len(s) /\ M >= L + 6 /\ s \in Seq(SurfaceEntry)
      /\ x.base.body.created \in Texts /\ L \in Nat /\ M \in Nat
  BY <1>1, PreludeEndIs, BodyFields
<1>3. Len(doc) >= M /\ p = Len(doc)
  BY <1>1 DEF Intact
<1>4. BaseAt(x, p)
  OBVIOUS
<1> HIDE DEF p, L, M
<1>5. session = SessionRead(x) /\ layout = LayoutRead(x, p) /\ SurfacesRead(s, p)
  BY <1>1, <1>2, <1>3, <1>4 DEF BaseAt
<1>6. layout = [scroll |-> x.base.body.scroll, focus |-> x.base.body.focus]
  <2>1. ~ (p < L + 5) /\ ~ (p < L + 6)
    BY <1>1, <1>2, <1>3
  <2> QED
    BY <1>5, <2>1 DEF LayoutRead, L
<1>7. surfaces = TrimmedList(s)
  <2>1. p >= 20 * Len(s) + 2
    BY <1>1, <1>2, <1>3
  <2>2. Between(s, Len(s))
    BY <1>5, <2>1 DEF SurfacesRead
  <2>3. DOMAIN s = 1 .. Len(s)
    BY <1>2, SurfacesOf
  <2> QED
    BY <2>2, <2>3 DEF Between, FirstSurfaces, TrimmedList
<1> QED
  BY <1>2, <1>5, <1>6, <1>7, OptionAssumption

LEMMA BaseEofReads ==
  ASSUME NEW x, x = source, ReadInv, Intact(doc, x), BaseAt(x, pos - 1), BaseEof
  PROVE  image' = BaseRead(x)
<1> DEFINE b == x.base.body
           t == TrimmedList(b.surfaces)
<1>1. /\ session = SessionRead(x) /\ surfaces = t
      /\ layout = [scroll |-> b.scroll, focus |-> b.focus]
  BY BaseOver DEF BaseEof
<1>2. x \in ImageV1
  BY ParserAssumption DEF ReadInv, DocumentInv
<1>3. Reread(b) = [created |-> b.created, schema |-> b.schema, surfaces |-> SortedByOrder(t),
                   scroll |-> b.scroll, focus |-> b.focus]
  BY <1>2, BodyFields, RereadIs
<1>4. /\ session.id = ComputeId(x.base) /\ session.created = b.created
      /\ session.schema = b.schema
  BY <1>1 DEF SessionRead
<1>5. layout.scroll = b.scroll /\ layout.focus = b.focus
  BY <1>1
<1> HIDE DEF b, t
<1>6. image' = [id |-> session.id,
                body |-> [created |-> session.created, schema |-> session.schema,
                          surfaces |-> SortedByOrder(surfaces), scroll |-> layout.scroll,
                          focus |-> layout.focus]]
  BY DEF BaseEof
<1>7. image' = [id |-> ComputeId(x.base),
                body |-> [created |-> b.created, schema |-> b.schema,
                          surfaces |-> SortedByOrder(t), scroll |-> b.scroll,
                          focus |-> b.focus]]
  BY <1>1, <1>4, <1>5, <1>6
<1> QED
  BY <1>3, <1>7 DEF BaseRead, b

LEMMA BlockKeeps ==
  ASSUME BlockNext
  PROVE  /\ phase = "coefficients" /\ phase' \in {"coefficients", "accepted", "rejected"}
         /\ UNCHANGED <<source, reader, doc, image>>
<1>1. CASE BlockEof \/ BlockFails
  BY <1>1 DEF BlockEof, BlockFails, documentVars, baseVars
<1>2. CASE ~ (BlockEof \/ BlockFails)
  BY <1>2 DEF BlockNext, StartCoefficients, StartEntry, StartDelayPath, StartSecurity,
         StartLinearity, EndCoefficients, EndEntry, Ignore, BlockStart, Takes, documentVars,
         baseVars
<1> QED
  BY <1>1, <1>2

LEMMA BasePhase == ASSUME BaseNext PROVE phase = "base"
BY DEF BaseNext, EndHost, EndSurface, EndText, EndOther, BaseEnd, TakeText,
       StartSession, StartSurface, StartHost, StartText, StartDimensions,
       StartStrip, StartFocus, StartOther, BaseStart, Takes, BaseEof, BaseFails

\* what a step of the first pass does in any document
LEMMA BaseKeeps ==
  ASSUME ReadInv, BaseNext
  PROVE  /\ UNCHANGED <<source, reader, doc>>
         /\ phase' = "coefficients" => reader = "v1"
<1>1. CASE BaseEof \/ BaseFails
  <2>1. UNCHANGED <<source, reader, doc>>
    BY <1>1 DEF BaseEof, BaseFails, documentVars
  <2>2. BaseFails => phase' = "rejected"
    BY DEF BaseFails
  <2>3. BaseEof /\ reader = "v0" => phase' = "accepted"
    BY DEF BaseEof
  <2>4. BaseEof /\ reader # "v0" => phase' = "coefficients"
    BY DEF BaseEof
  <2> QED
    BY <1>1, <2>1, <2>2, <2>3, <2>4 DEF ReadInv, DocumentInv
<1>2. CASE ~ (BaseEof \/ BaseFails)
  <2>1. \A kinds : Takes("base", kinds) => UNCHANGED <<source, reader, doc>> /\ phase' = "base"
    BY DEF Takes, documentVars
  <2> QED
    BY <1>2, <2>1 DEF BaseNext, EndHost, EndSurface, EndText, EndOther, BaseEnd, TakeText,
       StartSession, StartSurface, StartHost, StartText, StartDimensions,
       StartStrip, StartFocus, StartOther, BaseStart
<1> QED
  BY <1>1, <1>2

\* the first pass of an intact document goes on to its end
LEMMA FirstPassGoesOn ==
  ASSUME ReadInv, FirstPassInv, BaseNext, Intact(doc, source)
  PROVE  /\ phase' = "base" => BaseHere'
         /\ phase' \in {"accepted", "coefficients"} => image' = BaseRead(source)'
         /\ phase' # "rejected"
<1>1. UNCHANGED <<source, reader, doc>> /\ phase = "base"
  BY BaseKeeps, BasePhase
<1>2. CASE pos <= Len(doc)
  <2>1. pos \in Nat /\ pos >= 1
    BY LenProperties DEF ReadInv, DocumentInv
  <2>2. ASSUME NEW x, NEW p, x = source, p = pos - 1
        PROVE  Moved /\ BaseAt(x, p + 1)'
    <3>1. p \in Nat /\ pos = p + 1
      BY <2>1, <2>2
    <3>2. BaseAt(x, p)
      BY <1>1, <2>2 DEF FirstPassInv, BaseHere
    <3>3. Intact(doc, x) /\ pos <= Len(doc)
      BY <1>2, <2>2
    <3> QED
      BY <1>1, <2>2, <3>1, <3>2, <3>3, BaseLine
  <2>3. Moved
    BY <2>2
  <2>4. phase' = "base" /\ pos' = pos + 1
    BY <2>3 DEF Moved
  <2>5. ASSUME NEW x, NEW q, x = source', q = pos' - 1
        PROVE  BaseAt(x, q)'
    <3> DEFINE p == q - 1
    <3>1. x = source /\ p = pos - 1 /\ p + 1 = q
      BY <1>1, <2>1, <2>4, <2>5
    <3>2. BaseAt(x, p + 1)'
      BY <2>2, <3>1
    <3> QED
      BY <3>1, <3>2
  <2> QED
    BY <2>4, <2>5 DEF BaseHere
<1>3. CASE ~ (pos <= Len(doc))
  <2>1. pos = Len(doc) + 1 /\ BaseHere /\ pos > Len(doc)
    BY <1>1, <1>3, LenProperties DEF ReadInv, DocumentInv, FirstPassInv
  <2>2. BaseEof \/ BaseFails
    BY <1>3, AtTheEnd
  <2>3. ASSUME NEW x, x = source
        PROVE  /\ session.created # None
               /\ BaseEof => image' = BaseRead(x)
    <3>1. BaseAt(x, pos - 1)
      BY <2>1, <2>3 DEF BaseHere
    <3>2. session = SessionRead(x) /\ x.base.body.created # None
      BY <1>1, <2>1, <2>3, <3>1, BaseOver
    <3>3. BaseEof => image' = BaseRead(x)
      BY <2>3, <3>1, BaseEofReads
    <3> QED
      BY <3>2, <3>3 DEF SessionRead
  <2>4. ~ BaseFails
    BY <2>1, <2>3 DEF BaseFails
  <2>5. image' = BaseRead(source)' /\ phase' \in {"accepted", "coefficients"}
    BY <1>1, <2>2, <2>3, <2>4 DEF BaseEof
  <2> QED
    BY <2>5
<1> QED
  BY <1>2, <1>3

LEMMA FirstPassStep == ASSUME ReadInv, FirstPassInv, [Next]_vars PROVE FirstPassInv'
<1>1. CASE BaseNext
  <2>1. UNCHANGED <<source, reader, doc>> /\ (phase' = "coefficients" => reader' = "v1")
    BY <1>1, BaseKeeps
  <2>2. CASE ~ Intact(doc, source)
    BY <2>1, <2>2 DEF FirstPassInv
  <2>3. CASE Intact(doc, source)
    BY <1>1, <2>1, <2>3, FirstPassGoesOn DEF FirstPassInv
  <2> QED
    BY <2>2, <2>3
<1>2. CASE BlockNext
  BY <1>2, BlockKeeps DEF FirstPassInv
<1>3. CASE Returned \/ UNCHANGED vars
  <2>1. UNCHANGED <<source, reader, doc, pos, phase, session, surfaces, layout, surface, inHost,
                    target, buf, image>>
    BY <1>3 DEF Returned, vars, documentVars, baseVars
  <2>2. ASSUME NEW x, NEW p, BaseAt(x, p) PROVE BaseAt(x, p)'
    BY <2>1, <2>2 DEF BaseAt, SurfacesRead, Between, Within
  <2> QED
    BY <2>1, <2>2 DEF FirstPassInv, BaseHere
<1> QED
  BY <1>1, <1>2, <1>3 DEF Next

LEMMA FirstPassHolds == Spec => []FirstPassInv
BY FirstPassInit, FirstPassStep, ReadInvHolds, PTL DEF Spec

LEMMA PreludeReads ==
  ASSUME ReadInv, FirstPassInv PROVE CoefficientsAreInvisible
<1> SUFFICES ASSUME Done, Prelude(doc) = Prelude(ToXmlV1(source))
             PROVE  /\ reader = "v0" => phase = "accepted"
                    /\ phase = "accepted" => /\ image.id = ComputeId(source.base)
                                             /\ image.body = Reread(source.base.body)
  BY DEF CoefficientsAreInvisible
<1>1. Intact(doc, source)
  <2>1. PICK w \in WrittenOf(source) : ComesFrom(doc, w)
    BY DEF ReadInv, DocumentInv
  <2> QED
    BY <2>1, SamePreludeIsIntact DEF ReadInv, DocumentInv
<1>2. phase = "rejected" => reader = "v1"
  BY <1>1 DEF FirstPassInv
<1>3. phase = "accepted" => image = BaseRead(source)
  BY <1>1 DEF FirstPassInv
<1> QED
  BY <1>2, <1>3 DEF Done, BaseRead

LEMMA WrittenReads ==
  ASSUME ReadInv, FirstPassInv PROVE IdentitySurvivesTheText
<1> SUFFICES ASSUME phase = "accepted", doc \in Written
             PROVE  Verify(image) <=> /\ Trimmed(source.base.body.surfaces)
                                      /\ Ordered(source.base.body.surfaces)
  BY DEF IdentitySurvivesTheText
<1> DEFINE b == source.base.body
<1>1. Intact(doc, source)
  BY WrittenIntact DEF Written, WrittenOf, ReadInv, DocumentInv
<1>2. image = BaseRead(source)
  BY <1>1 DEF FirstPassInv
<1>3. b \in Body /\ None \notin Body
  BY BodyFields, ParserAssumption, OptionAssumption DEF ReadInv, DocumentInv
<1> HIDE DEF b
<1>4. image.id = b /\ image.body = Reread(b)
  BY <1>2 DEF BaseRead, ComputeId, b
<1>5. Verify(image) <=> Reread(b) = b
  BY <1>3, <1>4 DEF Verify, ComputeId
<1> QED
  BY <1>3, <1>5, RereadIs DEF b

\* Theorem: what comes from the coefficient block on, whatever damage it took,
\* is invisible to the base that either reader finds (galois.rs, alpha;
\* session.rs, mod parse), in every state, for all written images.
THEOREM BlockIsInvisible == Spec => []CoefficientsAreInvisible
BY ReadInvHolds, FirstPassHolds, PreludeReads, PTL

\* Theorem: the text form keeps the content address of an image exactly when
\* its texts are trimmed and its surfaces in order (session.rs, to_xml,
\* parse and verify).
THEOREM IdentitySurvives == Spec => []IdentitySurvivesTheText
BY ReadInvHolds, FirstPassHolds, WrittenReads, PTL

(***************************************************************************)
(* The second pass: which action takes an event that is not refused, and   *)
(* what it does.                                                           *)
(***************************************************************************)
AtBlock == BlockNext /\ phase = "coefficients" /\ pos \in 1 .. Len(doc) /\ Len(doc) \in Nat

BlockMoved == /\ pos' = pos + 1 /\ phase' = "coefficients"
              /\ source' = source /\ doc' = doc /\ reader' = reader /\ image' = image

Passed == BlockMoved /\ UNCHANGED coefficientVars

LEMMA NotAtBlockEnd == ASSUME AtBlock PROVE ~ BlockEof
<1>1. pos # Len(doc) + 1
  BY DEF AtBlock
<1> QED
  BY <1>1 DEF BlockEof

LEMMA BlockTakes ==
  ASSUME NEW kinds, Takes("coefficients", kinds), UNCHANGED baseVars
  PROVE  BlockMoved /\ Event.kind \in kinds
BY DEF Takes, BlockMoved, documentVars, baseVars

LEMMA IgnoreIs == ASSUME Ignore PROVE Passed /\ Ignored
<1>1. Takes("coefficients", Start \cup {"text", "close"}) /\ UNCHANGED baseVars
      /\ UNCHANGED coefficientVars /\ Ignored
  BY DEF Ignore
<1> QED
  BY <1>1, BlockTakes DEF Passed

LEMMA BlockStartIs ==
  ASSUME NEW el, BlockStart(el)
  PROVE  BlockMoved /\ Event.kind \in Start /\ Event.el = el /\ coefficients' = coefficients
<1>1. Takes("coefficients", Start) /\ UNCHANGED baseVars
  BY DEF BlockStart
<1> QED
  BY <1>1, BlockTakes DEF BlockStart

LEMMA BlockStartTaken ==
  ASSUME AtBlock, Event.kind \in Start, ~ BlockRefusesStart
  PROVE  \/ Ignore
         \/ Event.el = "coefficients" /\ StartCoefficients
         \/ Event.el = "surface-coefficient" /\ StartEntry
         \/ Event.el = "delay-path" /\ StartDelayPath
         \/ Event.el = "security" /\ StartSecurity
         \/ Event.el = "linearity" /\ StartLinearity
<1>1. Event.kind # "close" /\ Event.kind \notin {"close"}
  BY DEF Start
<1>2. ~ BlockEof /\ ~ BlockFails
  BY <1>1, NotAtBlockEnd DEF BlockFails
<1>3. ~ EndCoefficients /\ ~ EndEntry
  BY <1>1 DEF EndCoefficients, EndEntry, Takes
<1>4. \/ StartCoefficients \/ StartEntry \/ StartDelayPath \/ StartSecurity \/ StartLinearity
      \/ Ignore
  BY <1>2, <1>3 DEF AtBlock, BlockNext
<1> QED
  BY <1>4 DEF StartCoefficients, StartEntry, StartDelayPath, StartSecurity, StartLinearity,
         BlockStart

LEMMA BlockCloseTaken ==
  ASSUME AtBlock, Event.kind = "close", ~ BlockRefusesEnd
  PROVE  \/ Ignore
         \/ Event.el = "coefficients" /\ EndCoefficients
         \/ Event.el = "surface-coefficient" /\ EndEntry
<1>1. Event.kind \notin Start
  BY DEF Start
<1>2. ~ BlockEof /\ ~ BlockFails
  BY <1>1, NotAtBlockEnd DEF BlockFails
<1>3. /\ ~ StartCoefficients /\ ~ StartEntry /\ ~ StartDelayPath /\ ~ StartSecurity
      /\ ~ StartLinearity
  BY <1>1 DEF StartCoefficients, StartEntry, StartDelayPath, StartSecurity, StartLinearity,
         BlockStart, Takes
<1>4. EndCoefficients \/ EndEntry \/ Ignore
  BY <1>2, <1>3 DEF AtBlock, BlockNext
<1> QED
  BY <1>4 DEF EndCoefficients, EndEntry

\* an event that means nothing to the second pass
LEMMA PassedBy ==
  ASSUME AtBlock,
         \/ Event.kind = "text"
         \/ Event.kind \in Start /\ Event.el \notin BlockElements \cup {"coefficients"}
         \/ Event.kind = "close" /\ Event.el \notin {"coefficients", "surface-coefficient"}
  PROVE  Passed
<1>1. CASE Event.kind = "text"
  <2>1. Event.kind \notin Start /\ Event.kind # "close" /\ Event.kind \notin {"close"}
    BY <1>1 DEF Start
  <2>2. ~ BlockEof /\ ~ BlockFails
    BY <2>1, NotAtBlockEnd DEF BlockFails
  <2>3. /\ ~ StartCoefficients /\ ~ StartEntry /\ ~ StartDelayPath /\ ~ StartSecurity
        /\ ~ StartLinearity /\ ~ EndCoefficients /\ ~ EndEntry
    BY <2>1 DEF StartCoefficients, StartEntry, StartDelayPath, StartSecurity, StartLinearity,
           BlockStart, EndCoefficients, EndEntry, Takes
  <2> QED
    BY <2>2, <2>3, IgnoreIs DEF AtBlock, BlockNext
<1>2. CASE Event.kind \in Start /\ Event.el \notin BlockElements \cup {"coefficients"}
  <2>1. ~ BlockRefusesStart
    BY <1>2 DEF BlockRefusesStart, BlockElements
  <2> QED
    BY <1>2, <2>1, BlockStartTaken, IgnoreIs DEF BlockElements
<1>3. CASE Event.kind = "close" /\ Event.el \notin {"coefficients", "surface-coefficient"}
  <2>1. ~ BlockRefusesEnd
    BY <1>3 DEF BlockRefusesEnd
  <2> QED
    BY <1>3, <2>1, BlockCloseTaken, IgnoreIs
<1> QED
  BY <1>1, <1>2, <1>3

\* nothing of the block is ignored inside of it
LEMMA NotIgnored ==
  ASSUME Ignored, inCoefficients = TRUE, Event.kind \in Start
  PROVE  Event.el \notin BlockElements \cup {"coefficients"}
<1>1. Event.kind # "close" /\ Event.kind # "text"
  BY DEF Start
<1> QED
  BY <1>1 DEF Ignored

LEMMA BlockOpens ==
  ASSUME AtBlock, Event = Open("coefficients", <<>>)
  PROVE  /\ BlockMoved /\ inCoefficients' = TRUE /\ entry' = entry
         /\ coefficients' = coefficients
<1>1. /\ Event.kind = "open" /\ Event.el = "coefficients"
  <2>1. /\ Open("coefficients", <<>>).kind = "open"
        /\ Open("coefficients", <<>>).el = "coefficients"
    BY DEF Open
  <2> QED
    BY <2>1, Zenon
<1>2. ~ BlockRefusesStart
  BY <1>1 DEF BlockRefusesStart, BlockElements
<1>3. Event.kind \in Start
  BY <1>1 DEF Start
<1>4. ~ Ignored
  <2>1. Event.kind # "text" /\ Event.kind # "close" /\ Event.el \notin BlockElements
    BY <1>1 DEF BlockElements
  <2> QED
    BY <1>1, <2>1 DEF Ignored
<1>5. StartCoefficients
  BY <1>1, <1>2, <1>3, <1>4, BlockStartTaken, IgnoreIs
<1> QED
  BY <1>5, BlockStartIs DEF StartCoefficients

LEMMA BlockCloses ==
  ASSUME AtBlock, Event = Close("coefficients")
  PROVE  /\ BlockMoved /\ inCoefficients' = FALSE /\ entry' = entry
         /\ coefficients' = coefficients
<1>1. /\ Event.kind = "close" /\ Event.el = "coefficients"
  <2>1. /\ Close("coefficients").kind = "close" /\ Close("coefficients").el = "coefficients"
    BY DEF Close
  <2> QED
    BY <2>1, Zenon
<1>2. ~ BlockRefusesEnd
  BY <1>1 DEF BlockRefusesEnd
<1>3. ~ Ignored
  <2>1. Event.kind # "text" /\ Event.kind \notin Start
    BY <1>1 DEF Start
  <2> QED
    BY <1>1, <2>1 DEF Ignored
<1>4. EndCoefficients
  BY <1>1, <1>2, <1>3, BlockCloseTaken, IgnoreIs
<1>5. Takes("coefficients", {"close"}) /\ UNCHANGED baseVars
  BY <1>4 DEF EndCoefficients
<1> QED
  BY <1>4, <1>5, BlockTakes DEF EndCoefficients

\* the builder of an entry: so many delay paths read, the label and the count or not yet
Paths(c, m) == [j \in 1 .. m |-> c.timing[j]]

EntryWith(ref, t, conf, int, lin) ==
  [ref |-> ref, timing |-> t, confidentiality |-> conf, integrity |-> int, linearity |-> lin]

Fresh(ref, t) == EntryWith(ref, t, None, None, None)

EntryAt(ref, c, k) ==
  LET m == Len(c.timing)
  IN  CASE k \in {1, 2}       -> Fresh(ref, <<>>)
        [] k \in 3 .. m + 2   -> Fresh(ref, Paths(c, k - 2))
        [] k = m + 3          -> Fresh(ref, c.timing)
        [] k = m + 4          -> EntryWith(ref, c.timing, c.confidentiality, c.integrity, None)
        [] OTHER              -> EntryWith(ref, c.timing, c.confidentiality, c.integrity,
                                           c.linearity)

LEMMA CoefficientValues ==
  ASSUME NEW c \in Coefficient
  PROVE  /\ Len(c.timing) \in Nat /\ c.timing \in Seq(Interval)
         /\ \A k \in 1 .. Len(c.timing) : c.timing[k] \in Interval
         /\ c.confidentiality \in Confidentiality /\ c.integrity \in Integrity
         /\ c.linearity \in Linearity
<1>1. c.timing \in Seq(Interval) /\ c.confidentiality \in Confidentiality
      /\ c.integrity \in Integrity /\ c.linearity \in Linearity
  BY DEF Coefficient
<1> QED
  BY <1>1, LenProperties, ElementOfSeq

LEMMA PathsAre ==
  ASSUME NEW c \in Coefficient, NEW m \in 0 .. Len(c.timing)
  PROVE  /\ Paths(c, m) \in Seq(Interval)
         /\ m = 0 => Paths(c, m) = <<>>
         /\ m = Len(c.timing) => Paths(c, m) = c.timing
         /\ m < Len(c.timing) => Append(Paths(c, m), c.timing[m + 1]) = Paths(c, m + 1)
<1> DEFINE T == Interval
           t == c.timing
           a == Paths(c, m)
           b == Paths(c, m + 1)
<1>1. Len(t) \in Nat /\ t \in Seq(T) /\ (\A k \in 1 .. Len(t) : t[k] \in T)
  BY CoefficientValues
<1>2. a = [j \in 1 .. m |-> t[j]] /\ b = [j \in 1 .. m + 1 |-> t[j]]
  BY DEF Paths
<1> HIDE DEF T, t, a, b
<1>3. m \in Nat /\ m <= Len(t)
  BY <1>1 DEF t
<1>4. a \in Seq(T) /\ Len(a) = m
  BY <1>1, <1>2, <1>3
<1>5. m = Len(t) => a = t
  <2> SUFFICES ASSUME m = Len(t) PROVE a = t
    OBVIOUS
  <2>1. \A j \in 1 .. Len(a) : a[j] = t[j]
    BY <1>2, <1>4
  <2> QED
    BY <1>1, <1>4, <2>1, SeqEqual
<1>6. ASSUME m < Len(t) PROVE Append(a, t[m + 1]) = b
  <2> DEFINE d == Append(a, t[m + 1])
  <2>1. b \in Seq(T) /\ Len(b) = m + 1 /\ t[m + 1] \in T
    BY <1>1, <1>2, <1>3, <1>6
  <2>2. d \in Seq(T) /\ Len(d) = m + 1 /\ d[m + 1] = t[m + 1] /\ \A j \in 1 .. m : d[j] = a[j]
    <3>1. /\ d \in Seq(T) /\ Len(d) = Len(a) + 1 /\ d[Len(a) + 1] = t[m + 1]
          /\ \A j \in 1 .. Len(a) : d[j] = a[j]
      BY <1>4, <2>1, AppendProperties
    <3> QED
      BY <1>4, <3>1
  <2> HIDE DEF d
  <2>3. \A j \in 1 .. Len(d) : d[j] = b[j]
    BY <1>2, <1>3, <2>2
  <2>4. d = b
    BY <2>1, <2>2, <2>3, SeqEqual
  <2> QED
    BY <2>4 DEF d
<1>7. m = 0 => a = <<>>
  BY <1>2
<1> QED
  BY <1>4, <1>5, <1>6, <1>7 DEF a, b, t, T

LEMMA EntryThere ==
  ASSUME NEW ref \in SurfaceIds, NEW t \in Seq(Interval), NEW conf \in Confidentiality \cup {None},
         NEW int \in Integrity \cup {None}, NEW lin \in Linearity \cup {None}
  PROVE  EntryWith(ref, t, conf, int, lin) # None
<1> DEFINE T == Seq(Interval)
           C == Confidentiality \cup {None}
           I == Integrity \cup {None}
           N == Linearity \cup {None}
<1>1. EntryBuilder = [ref : SurfaceIds, timing : T, confidentiality : C, integrity : I,
                      linearity : N]
  BY DEF EntryBuilder
<1>2. t \in T /\ conf \in C /\ int \in I /\ lin \in N
  OBVIOUS
<1> HIDE DEF T, C, I, N
<1>3. EntryWith(ref, t, conf, int, lin) \in EntryBuilder
  BY <1>1, <1>2 DEF EntryWith
<1> QED
  BY <1>3, OptionAssumption

LEMMA EntryOpens ==
  ASSUME AtBlock, NEW ref \in SurfaceIds, inCoefficients = TRUE,
         Event = Open("surface-coefficient", RefAttrs(ref))
  PROVE  /\ BlockMoved /\ inCoefficients' = TRUE /\ coefficients' = coefficients
         /\ entry' = Fresh(ref, <<>>)
<1>1. /\ Event.kind = "open" /\ Event.el = "surface-coefficient" /\ Event.attrs = RefAttrs(ref)
  <2> DEFINE e == Open("surface-coefficient", RefAttrs(ref))
  <2>1. e.kind = "open" /\ e.el = "surface-coefficient" /\ e.attrs = RefAttrs(ref)
    BY DEF Open
  <2> QED
    BY <2>1, Zenon
<1>2. Event.attrs.surfaceRef = ref /\ DOMAIN Event.attrs = {"surfaceRef"}
  BY <1>1 DEF RefAttrs
<1>3. Knows({"surfaceRef"})
  BY <1>2, OptionAssumption DEF Knows, Has
<1>4. ~ BlockRefusesStart
  BY <1>1, <1>3 DEF BlockRefusesStart, BlockElements
<1>5. Event.kind \in Start
  BY <1>1 DEF Start
<1>6. StartEntry
  BY <1>1, <1>4, <1>5, BlockStartTaken, IgnoreIs, NotIgnored DEF BlockElements
<1> QED
  BY <1>2, <1>6, BlockStartIs DEF StartEntry, Fresh, EntryWith

LEMMA PathRead ==
  ASSUME AtBlock, NEW i \in Interval, inCoefficients = TRUE, entry # None,
         Event = Empty("delay-path", i)
  PROVE  /\ BlockMoved /\ inCoefficients' = TRUE /\ coefficients' = coefficients
         /\ entry' = [entry EXCEPT !.timing = Append(entry.timing, i)]
<1>1. /\ Event.kind = "empty" /\ Event.el = "delay-path" /\ Event.attrs = i
  <2> DEFINE e == Empty("delay-path", i)
  <2>1. e.kind = "empty" /\ e.el = "delay-path" /\ e.attrs = i
    BY DEF Empty
  <2> QED
    BY <2>1, Zenon
<1>2. i["lo"] \in Bound /\ i["hi"] \in Bound /\ DOMAIN i = {"lo", "hi"}
  <2> DEFINE B == Bound
  <2>1. i \in [lo : B, hi : B]
    BY DEF Interval
  <2> HIDE DEF B
  <2>2. i["lo"] \in B /\ i["hi"] \in B /\ DOMAIN i = {"lo", "hi"}
    BY <2>1
  <2> QED
    BY <2>2 DEF B
<1>3. Knows({"lo", "hi"})
  BY <1>1, <1>2, OptionAssumption DEF Knows, Has
<1>4. ~ BlockRefusesStart
  BY <1>1, <1>3 DEF BlockRefusesStart, BlockElements
<1>5. Event.kind \in Start
  BY <1>1 DEF Start
<1>6. StartDelayPath
  BY <1>1, <1>4, <1>5, BlockStartTaken, IgnoreIs, NotIgnored DEF BlockElements
<1> QED
  BY <1>1, <1>6, BlockStartIs DEF StartDelayPath

Labelled(e, conf, int) == [e EXCEPT !.confidentiality = conf, !.integrity = int]

LEMMA LabelRead ==
  ASSUME AtBlock, NEW c \in Coefficient, inCoefficients = TRUE, entry # None,
         Event = Empty("security", LabelAttrs(c))
  PROVE  /\ BlockMoved /\ inCoefficients' = TRUE /\ coefficients' = coefficients
         /\ entry' = Labelled(entry, c.confidentiality, c.integrity)
<1>1. /\ Event.kind = "empty" /\ Event.el = "security" /\ Event.attrs = LabelAttrs(c)
  <2> DEFINE e == Empty("security", LabelAttrs(c))
  <2>1. e.kind = "empty" /\ e.el = "security" /\ e.attrs = LabelAttrs(c)
    BY DEF Empty
  <2> QED
    BY <2>1, Zenon
<1>2. /\ Event.attrs["confidentiality"] = c.confidentiality
      /\ Event.attrs["integrity"] = c.integrity
      /\ DOMAIN Event.attrs = {"confidentiality", "integrity"}
  BY <1>1 DEF LabelAttrs
<1>3. Knows({"confidentiality", "integrity"})
  BY <1>2, OptionAssumption, CoefficientValues DEF Knows, Has
<1>4. ~ BlockRefusesStart
  BY <1>1, <1>3 DEF BlockRefusesStart, BlockElements
<1>5. Event.kind \in Start
  BY <1>1 DEF Start
<1>6. StartSecurity
  BY <1>1, <1>4, <1>5, BlockStartTaken, IgnoreIs, NotIgnored DEF BlockElements
<1> QED
  BY <1>2, <1>6, BlockStartIs DEF StartSecurity, Labelled

LEMMA UseRead ==
  ASSUME AtBlock, NEW c \in Coefficient, inCoefficients = TRUE, entry # None,
         Event = Empty("linearity", UseAttrs(c))
  PROVE  /\ BlockMoved /\ inCoefficients' = TRUE /\ coefficients' = coefficients
         /\ entry' = [entry EXCEPT !.linearity = c.linearity]
<1>1. /\ Event.kind = "empty" /\ Event.el = "linearity" /\ Event.attrs = UseAttrs(c)
  <2> DEFINE e == Empty("linearity", UseAttrs(c))
  <2>1. e.kind = "empty" /\ e.el = "linearity" /\ e.attrs = UseAttrs(c)
    BY DEF Empty
  <2> QED
    BY <2>1, Zenon
<1>2. Event.attrs["count"] = c.linearity /\ DOMAIN Event.attrs = {"count"}
  BY <1>1 DEF UseAttrs
<1>3. Knows({"count"})
  BY <1>2, OptionAssumption, CoefficientValues DEF Knows, Has
<1>4. ~ BlockRefusesStart
  BY <1>1, <1>3 DEF BlockRefusesStart, BlockElements
<1>5. Event.kind \in Start
  BY <1>1 DEF Start
<1>6. StartLinearity
  BY <1>1, <1>4, <1>5, BlockStartTaken, IgnoreIs, NotIgnored DEF BlockElements
<1> QED
  BY <1>2, <1>6, BlockStartIs DEF StartLinearity

LEMMA EntryAtIs ==
  ASSUME NEW ref, NEW c \in Coefficient
  PROVE  LET m == Len(c.timing)
         IN  /\ EntryAt(ref, c, 1) = Fresh(ref, <<>>) /\ EntryAt(ref, c, 2) = Fresh(ref, <<>>)
             /\ \A k \in 3 .. m + 2 : EntryAt(ref, c, k) = Fresh(ref, Paths(c, k - 2))
             /\ EntryAt(ref, c, m + 2) = Fresh(ref, c.timing)
             /\ EntryAt(ref, c, m + 3) = Fresh(ref, c.timing)
             /\ EntryAt(ref, c, m + 4) =
                  EntryWith(ref, c.timing, c.confidentiality, c.integrity, None)
             /\ EntryAt(ref, c, m + 5) =
                  EntryWith(ref, c.timing, c.confidentiality, c.integrity, c.linearity)
<1> DEFINE m == Len(c.timing)
<1>1. m \in Nat
  BY CoefficientValues
<1>2. Paths(c, m) = c.timing /\ Paths(c, 0) = <<>>
  <2>1. m \in 0 .. Len(c.timing) /\ 0 \in 0 .. Len(c.timing)
    BY <1>1
  <2> QED
    BY <2>1, PathsAre
<1>3. \A k : EntryAt(ref, c, k) =
        CASE k \in {1, 2}       -> Fresh(ref, <<>>)
          [] k \in 3 .. m + 2   -> Fresh(ref, Paths(c, k - 2))
          [] k = m + 3          -> Fresh(ref, c.timing)
          [] k = m + 4          -> EntryWith(ref, c.timing, c.confidentiality, c.integrity, None)
          [] OTHER              -> EntryWith(ref, c.timing, c.confidentiality, c.integrity,
                                             c.linearity)
  BY DEF EntryAt
<1> HIDE DEF m
<1>4. EntryAt(ref, c, 1) = Fresh(ref, <<>>) /\ EntryAt(ref, c, 2) = Fresh(ref, <<>>)
  <2>1. 1 \notin 3 .. m + 2 /\ 1 # m + 3 /\ 1 # m + 4 /\ 2 \notin 3 .. m + 2 /\ 2 # m + 3
        /\ 2 # m + 4
    BY <1>1
  <2> QED
    BY <1>3, <2>1
<1>5. ASSUME NEW k \in 3 .. m + 2 PROVE EntryAt(ref, c, k) = Fresh(ref, Paths(c, k - 2))
  <2>1. k \notin {1, 2} /\ k # m + 3 /\ k # m + 4
    BY <1>1
  <2> QED
    BY <1>3, <2>1
<1>6. EntryAt(ref, c, m + 2) = Fresh(ref, c.timing)
  <2>1. CASE m = 0
    <3>1. m + 2 = 2 /\ c.timing = <<>>
      BY <1>2, <2>1
    <3> QED
      BY <1>4, <3>1
  <2>2. CASE m # 0
    <3> DEFINE k == m + 2
    <3>1. k \in 3 .. m + 2 /\ k - 2 = m
      BY <1>1, <2>2
    <3> HIDE DEF k
    <3>2. EntryAt(ref, c, k) = Fresh(ref, Paths(c, k - 2))
      BY <1>5, <3>1
    <3>3. EntryAt(ref, c, k) = Fresh(ref, c.timing)
      BY <1>2, <3>1, <3>2
    <3> QED
      BY <3>3 DEF k
  <2> QED
    BY <2>1, <2>2
<1>7. EntryAt(ref, c, m + 3) = Fresh(ref, c.timing)
  <2>1. m + 3 \notin {1, 2} /\ m + 3 \notin 3 .. m + 2 /\ m + 3 # m + 4
    BY <1>1
  <2> QED
    BY <1>3, <2>1
<1>8. /\ EntryAt(ref, c, m + 4) = EntryWith(ref, c.timing, c.confidentiality, c.integrity, None)
  <2>1. m + 4 \notin {1, 2} /\ m + 4 \notin 3 .. m + 2 /\ m + 4 # m + 3
    BY <1>1
  <2> QED
    BY <1>3, <2>1
<1>9. EntryAt(ref, c, m + 5) =
        EntryWith(ref, c.timing, c.confidentiality, c.integrity, c.linearity)
  <2>1. m + 5 \notin {1, 2} /\ m + 5 \notin 3 .. m + 2 /\ m + 5 # m + 3 /\ m + 5 # m + 4
    BY <1>1
  <2> QED
    BY <1>3, <2>1
<1> QED
  BY <1>4, <1>5, <1>6, <1>7, <1>8, <1>9 DEF m

\* the builder of an entry that is being read is there
LEMMA EntryAtThere ==
  ASSUME NEW ref \in SurfaceIds, NEW c \in Coefficient, NEW k \in 1 .. Len(c.timing) + 5
  PROVE  EntryAt(ref, c, k) # None
<1> DEFINE m == Len(c.timing)
<1>1. /\ m \in Nat /\ c.timing \in Seq(Interval) /\ c.confidentiality \in Confidentiality
      /\ c.integrity \in Integrity /\ c.linearity \in Linearity
  BY CoefficientValues
<1>2. <<>> \in Seq(Interval)
  OBVIOUS
<1>3. \A t \in Seq(Interval) : Fresh(ref, t) # None
  BY EntryThere DEF Fresh
<1>4. k \in {1, 2} \/ k \in 3 .. m + 2 \/ k = m + 3 \/ k = m + 4 \/ k = m + 5
  BY <1>1
<1>5. ASSUME k \in 3 .. m + 2 PROVE Paths(c, k - 2) \in Seq(Interval)
  <2>1. k - 2 \in 0 .. Len(c.timing)
    BY <1>1, <1>5
  <2> QED
    BY <2>1, PathsAre
<1>6. /\ EntryWith(ref, c.timing, c.confidentiality, c.integrity, None) # None
      /\ EntryWith(ref, c.timing, c.confidentiality, c.integrity, c.linearity) # None
  BY <1>1, EntryThere
<1> HIDE DEF m
<1> QED
  BY <1>1, <1>2, <1>3, <1>4, <1>5, <1>6, EntryAtIs DEF m

LEMMA PathAdded ==
  ASSUME NEW e, NEW ref, NEW t, NEW i, e = Fresh(ref, t)
  PROVE  [e EXCEPT !.timing = Append(e.timing, i)] = Fresh(ref, Append(t, i))
<1> DEFINE u == Append(t, i)
<1>1. e = [ref |-> ref, timing |-> t, confidentiality |-> None, integrity |-> None,
           linearity |-> None]
  BY DEF Fresh, EntryWith
<1>2. [e EXCEPT !.timing = Append(e.timing, i)] = [e EXCEPT !.timing = u]
  BY <1>1
<1> HIDE DEF u
<1>3. [e EXCEPT !.timing = u]
        = [ref |-> ref, timing |-> u, confidentiality |-> None, integrity |-> None,
           linearity |-> None]
  BY <1>1
<1> QED
  BY <1>2, <1>3 DEF Fresh, EntryWith, u

LEMMA LabelAdded ==
  ASSUME NEW e, NEW ref, NEW t, NEW conf, NEW int, e = Fresh(ref, t)
  PROVE  Labelled(e, conf, int) = EntryWith(ref, t, conf, int, None)
<1>1. e = [ref |-> ref, timing |-> t, confidentiality |-> None, integrity |-> None,
           linearity |-> None]
  BY DEF Fresh, EntryWith
<1>2. [e EXCEPT !.confidentiality = conf, !.integrity = int]
        = [ref |-> ref, timing |-> t, confidentiality |-> conf, integrity |-> int,
           linearity |-> None]
  <2> DEFINE f == [e EXCEPT !.confidentiality = conf]
             g == [f EXCEPT !.integrity = int]
  <2>1. f = [ref |-> ref, timing |-> t, confidentiality |-> conf, integrity |-> None,
             linearity |-> None]
    BY <1>1
  <2>2. [e EXCEPT !.confidentiality = conf, !.integrity = int] = g
    OBVIOUS
  <2> HIDE DEF f
  <2>3. g = [ref |-> ref, timing |-> t, confidentiality |-> conf, integrity |-> int,
             linearity |-> None]
    BY <2>1
  <2> HIDE DEF g
  <2> QED
    BY <2>2, <2>3
<1> QED
  BY <1>2 DEF EntryWith, Labelled

LEMMA UseAdded ==
  ASSUME NEW e, NEW ref, NEW t, NEW conf, NEW int, NEW lin, e = EntryWith(ref, t, conf, int, None)
  PROVE  [e EXCEPT !.linearity = lin] = EntryWith(ref, t, conf, int, lin)
BY DEF EntryWith

LEMMA EntryLine ==
  ASSUME AtBlock, NEW ref \in SurfaceIds, NEW c \in Coefficient,
         NEW k \in 2 .. Len(c.timing) + 5, NEW w, CoefficientTable(w, ref, c), Event = w[k],
         inCoefficients = TRUE, entry = EntryAt(ref, c, k - 1)
  PROVE  /\ BlockMoved /\ inCoefficients' = TRUE /\ coefficients' = coefficients
         /\ entry' = EntryAt(ref, c, k)
<1> DEFINE m == Len(c.timing)
<1>1. m \in Nat /\ \A j \in 1 .. m : c.timing[j] \in Interval
  BY CoefficientValues
<1>2. /\ w[2] = Open("timing", <<>>)
      /\ \A j \in 1 .. m : w[2 + j] = Empty("delay-path", c.timing[j])
      /\ w[m + 3] = Close("timing")
      /\ w[m + 4] = Empty("security", LabelAttrs(c))
      /\ w[m + 5] = Empty("linearity", UseAttrs(c))
  BY DEF CoefficientTable
<1>3. entry # None
  <2>1. k - 1 \in 1 .. m + 5
    BY <1>1
  <2> QED
    BY <2>1, EntryAtThere
<1>4. /\ EntryAt(ref, c, 1) = Fresh(ref, <<>>) /\ EntryAt(ref, c, 2) = Fresh(ref, <<>>)
      /\ \A j \in 3 .. m + 2 : EntryAt(ref, c, j) = Fresh(ref, Paths(c, j - 2))
      /\ EntryAt(ref, c, m + 2) = Fresh(ref, c.timing)
      /\ EntryAt(ref, c, m + 3) = Fresh(ref, c.timing)
      /\ EntryAt(ref, c, m + 4) =
           EntryWith(ref, c.timing, c.confidentiality, c.integrity, None)
      /\ EntryAt(ref, c, m + 5) =
           EntryWith(ref, c.timing, c.confidentiality, c.integrity, c.linearity)
  BY EntryAtIs
<1> HIDE DEF m
<1>5. k = 2 \/ k \in 3 .. m + 2 \/ k = m + 3 \/ k = m + 4 \/ k = m + 5
  BY <1>1 DEF m
<1>6. CASE k = 2
  <2>1. Event = Open("timing", <<>>) /\ entry = EntryAt(ref, c, 1)
    BY <1>2, <1>6
  <2>2. Event.kind = "open" /\ Event.el = "timing"
    <3>1. Open("timing", <<>>).kind = "open" /\ Open("timing", <<>>).el = "timing"
      BY DEF Open
    <3> QED
      BY <2>1, <3>1, Zenon
  <2>3. Passed
    BY <2>2, PassedBy DEF Start, BlockElements
  <2> QED
    BY <1>4, <1>6, <2>1, <2>3 DEF Passed, coefficientVars
<1>7. CASE k \in 3 .. m + 2
  <2> DEFINE j == k - 2
  <2>1. j \in 1 .. m /\ k = 2 + j /\ j - 1 \in 0 .. m /\ j - 1 < m /\ (j - 1) + 1 = j
    BY <1>1, <1>7
  <2>2. Event = Empty("delay-path", c.timing[j])
    BY <1>2, <2>1
  <2>3. /\ BlockMoved /\ inCoefficients' = TRUE /\ coefficients' = coefficients
        /\ entry' = [entry EXCEPT !.timing = Append(entry.timing, c.timing[j])]
    <3>1. c.timing[j] \in Interval
      BY <1>1, <2>1
    <3> QED
      BY <1>3, <2>2, <3>1, PathRead
  <2>4. entry = Fresh(ref, Paths(c, j - 1))
    <3>1. CASE j = 1
      <4>1. k - 1 = 2 /\ j - 1 = 0
        BY <3>1
      <4>2. Paths(c, 0) = <<>>
        BY <1>1, PathsAre DEF m
      <4> QED
        BY <1>4, <4>1, <4>2
    <3>2. CASE j # 1
      <4>1. k - 1 \in 3 .. m + 2 /\ k - 1 - 2 = j - 1
        BY <1>1, <2>1, <3>2
      <4> QED
        BY <1>4, <4>1
    <3> QED
      BY <3>1, <3>2
  <2>5. Append(Paths(c, j - 1), c.timing[j]) = Paths(c, j)
    BY <2>1, PathsAre DEF m
  <2>6. entry' = Fresh(ref, Paths(c, j))
    <3>1. [entry EXCEPT !.timing = Append(entry.timing, c.timing[j])]
            = Fresh(ref, Append(Paths(c, j - 1), c.timing[j]))
      <4> DEFINE t == Paths(c, j - 1)
                 i == c.timing[j]
      <4>1. entry = Fresh(ref, t)
        BY <2>4
      <4> HIDE DEF t, i
      <4>2. [entry EXCEPT !.timing = Append(entry.timing, i)] = Fresh(ref, Append(t, i))
        BY <4>1, PathAdded
      <4> QED
        BY <4>2 DEF t, i
    <3> QED
      BY <2>3, <2>5, <3>1
  <2> QED
    BY <1>4, <1>7, <2>3, <2>6
<1>8. CASE k = m + 3
  <2>1. Event = Close("timing") /\ k - 1 = m + 2
    BY <1>1, <1>2, <1>8
  <2>2. Event.kind = "close" /\ Event.el = "timing"
    <3>1. Close("timing").kind = "close" /\ Close("timing").el = "timing"
      BY DEF Close
    <3> QED
      BY <2>1, <3>1, Zenon
  <2>3. Passed
    BY <2>2, PassedBy
  <2> QED
    BY <1>4, <1>8, <2>1, <2>3 DEF Passed, coefficientVars
<1>9. CASE k = m + 4
  <2>1. Event = Empty("security", LabelAttrs(c)) /\ k - 1 = m + 3
    BY <1>1, <1>2, <1>9
  <2>2. /\ BlockMoved /\ inCoefficients' = TRUE /\ coefficients' = coefficients
        /\ entry' = Labelled(entry, c.confidentiality, c.integrity)
    BY <1>3, <2>1, LabelRead
  <2> QED
    <3>1. Labelled(entry, c.confidentiality, c.integrity)
            = EntryWith(ref, c.timing, c.confidentiality, c.integrity, None)
      <4>1. entry = Fresh(ref, c.timing)
        BY <1>4, <2>1
      <4> QED
        BY <4>1, LabelAdded
    <3> QED
      BY <1>4, <1>9, <2>2, <3>1
<1>10. CASE k = m + 5
  <2>1. Event = Empty("linearity", UseAttrs(c)) /\ k - 1 = m + 4
    BY <1>1, <1>2, <1>10
  <2>2. /\ BlockMoved /\ inCoefficients' = TRUE /\ coefficients' = coefficients
        /\ entry' = [entry EXCEPT !.linearity = c.linearity]
    BY <1>3, <2>1, UseRead
  <2> QED
    <3>1. [entry EXCEPT !.linearity = c.linearity]
            = EntryWith(ref, c.timing, c.confidentiality, c.integrity, c.linearity)
      <4>1. entry = EntryWith(ref, c.timing, c.confidentiality, c.integrity, None)
        BY <1>4, <2>1
      <4> QED
        BY <4>1, UseAdded
    <3> QED
      BY <1>4, <1>10, <2>2, <3>1
<1> QED
  BY <1>5, <1>6, <1>7, <1>8, <1>9, <1>10

LEMMA EntryEnds ==
  ASSUME AtBlock, NEW ref \in SurfaceIds, NEW c \in Coefficient,
         Event = Close("surface-coefficient"), entry = EntryAt(ref, c, Len(c.timing) + 5)
  PROVE  /\ c.timing # <<>> =>
              /\ BlockMoved /\ inCoefficients' = inCoefficients /\ entry' = None
              /\ coefficients' = Append(coefficients, [surfaceRef |-> ref, coefficient |-> c])
         /\ c.timing = <<>> => phase' = "rejected" /\ UNCHANGED <<source, reader, doc>>
<1>1. /\ Event.kind = "close" /\ Event.el = "surface-coefficient"
  <2> DEFINE e == Close("surface-coefficient")
  <2>1. e.kind = "close" /\ e.el = "surface-coefficient"
    BY DEF Close
  <2> QED
    BY <2>1, Zenon
<1>2. entry = EntryWith(ref, c.timing, c.confidentiality, c.integrity, c.linearity)
  BY EntryAtIs
<1>3. /\ entry.ref = ref /\ entry.timing = c.timing /\ entry.linearity = c.linearity
      /\ entry.confidentiality = c.confidentiality /\ entry.integrity = c.integrity
  BY <1>2 DEF EntryWith
<1>4. entry # None
  BY <1>2, EntryThere, CoefficientValues
<1>5. None \notin {c.confidentiality, c.integrity, c.linearity}
  BY CoefficientValues, OptionAssumption
<1>6. Graded(entry) <=> c.timing # <<>>
  BY <1>3, <1>5 DEF Graded
<1>7. ~ Ignored
  <2>1. Event.kind # "text" /\ Event.kind \notin Start
    BY <1>1 DEF Start
  <2> QED
    BY <1>1, <2>1 DEF Ignored
<1>8. CASE c.timing # <<>>
  <2>1. ~ BlockRefusesEnd
    BY <1>6, <1>8 DEF BlockRefusesEnd
  <2>2. EndEntry
    BY <1>1, <1>7, <2>1, BlockCloseTaken, IgnoreIs
  <2>3. Takes("coefficients", {"close"}) /\ UNCHANGED baseVars
    BY <2>2 DEF EndEntry
  <2>4. [timing |-> c.timing, confidentiality |-> c.confidentiality, integrity |-> c.integrity,
         linearity |-> c.linearity] = c
    BY DEF Coefficient
  <2>5. coefficients' = Append(coefficients, [surfaceRef |-> ref, coefficient |-> c])
    BY <1>3, <1>4, <2>2, <2>4 DEF EndEntry
  <2> QED
    BY <1>8, <2>2, <2>3, <2>5, BlockTakes DEF EndEntry
<1>9. CASE c.timing = <<>>
  <2>1. ~ EndEntry
    BY <1>4, <1>6, <1>9 DEF EndEntry
  <2>2. /\ ~ StartCoefficients /\ ~ StartEntry /\ ~ StartDelayPath /\ ~ StartSecurity
        /\ ~ StartLinearity /\ ~ EndCoefficients
    <3>1. Event.kind \notin Start
      BY <1>1 DEF Start
    <3> QED
      BY <1>1, <3>1 DEF StartCoefficients, StartEntry, StartDelayPath, StartSecurity,
         StartLinearity, BlockStart, EndCoefficients, Takes
  <2>3. ~ Ignore /\ ~ BlockEof
    BY <1>7, IgnoreIs, NotAtBlockEnd
  <2>4. BlockFails
    BY <2>1, <2>2, <2>3 DEF AtBlock, BlockNext
  <2> QED
    BY <1>9, <2>4 DEF BlockFails, documentVars
<1> QED
  BY <1>8, <1>9

(***************************************************************************)
(* Where the lines of the coefficient block stand in a v1 document.        *)
(***************************************************************************)
IdOf(x, i) == x.base.body.surfaces[i].id
Listed(x, i) == References(x.coefficients, IdOf(x, i)) # {}
GradeOf(x, i) == CoefficientFor(x.coefficients, IdOf(x, i))
EntryOf(x, i) == [surfaceRef |-> IdOf(x, i), coefficient |-> GradeOf(x, i)]

Offsets(x) ==
  CHOOSE at : LaidOut(TailEvents(x), FlattenSeq(CoefficientPieces(x)), CoefficientPieces(x),
                      Len(x.base.body.surfaces), at)

PieceLen(x, i) == Len(CoefficientPieces(x)[i])

\* offsets that grow by the lengths of the pieces
Growing(at, len, n) ==
  /\ at \in [0 .. n -> Nat] /\ at[0] = 0
  /\ \A i \in 1 .. n : len[i] \in Nat /\ at[i] = at[i - 1] + len[i]
  /\ \A i, j \in 0 .. n : i <= j => at[i] <= at[j]

\* no two lines in one place
LEMMA PlacesDiffer ==
  ASSUME NEW n \in Nat, NEW at, NEW len, Growing(at, len, n),
         NEW i \in 1 .. n, NEW k \in 1 .. len[i]
  PROVE  /\ at[i - 1] + k <= at[n]
         /\ \A j \in 1 .. n : \A l \in 1 .. len[j] : at[i - 1] + k = at[j - 1] + l => j = i /\ l = k
         /\ k < len[i] => \A j \in 0 .. n : at[i - 1] + k # at[j]
         /\ k = len[i] => \A j \in 0 .. n : at[i - 1] + k = at[j] => at[j] = at[i] /\ i <= j
<1>1. /\ \A j \in 0 .. n : at[j] \in Nat
      /\ \A j \in 1 .. n : len[j] \in Nat /\ at[j] = at[j - 1] + len[j]
      /\ \A a, b \in 0 .. n : a <= b => at[a] <= at[b]
  BY DEF Growing
<1>2. /\ i - 1 \in 0 .. n /\ i \in 0 .. n /\ n \in 0 .. n
      /\ at[i - 1] \in Nat /\ at[i] \in Nat /\ at[n] \in Nat /\ len[i] \in Nat
      /\ at[i] = at[i - 1] + len[i] /\ at[i] <= at[n]
  BY <1>1
<1>3. at[i - 1] + k <= at[n]
  BY <1>2
<1>4. ASSUME NEW j \in 0 .. n
      PROVE  /\ at[j] \in Nat
             /\ j <= i - 1 => at[j] <= at[i - 1]
             /\ j >= i => at[j] >= at[i]
             /\ j <= i - 1 \/ j >= i
  BY <1>1, <1>2
<1>5. ASSUME NEW j \in 1 .. n, NEW l \in 1 .. len[j], at[i - 1] + k = at[j - 1] + l
      PROVE  j = i /\ l = k
  <2>1. /\ j - 1 \in 0 .. n /\ j \in 0 .. n /\ at[j - 1] \in Nat /\ at[j] \in Nat /\ len[j] \in Nat
        /\ at[j] = at[j - 1] + len[j]
    BY <1>1
  <2>2. j <= i - 1 => at[j] <= at[i - 1]
    BY <1>4, <2>1
  <2>3. i <= j - 1 => at[i] <= at[j - 1]
    BY <1>1, <1>2, <2>1
  <2> DEFINE a == at[i - 1]
             b == at[i]
             c == at[j - 1]
             d == at[j]
             u == len[i]
             v == len[j]
  <2>4. /\ a \in Nat /\ b = a + u /\ c \in Nat /\ d = c + v /\ k \in 1 .. u /\ l \in 1 .. v
        /\ a + k = c + l /\ (j <= i - 1 => d <= a) /\ (i <= j - 1 => b <= c)
        /\ u \in Nat /\ v \in Nat
    BY <1>2, <1>5, <2>1, <2>2, <2>3
  <2> HIDE DEF a, b, c, d, u, v
  <2>5. i = j
    BY <2>4
  <2>6. a = c
    BY <2>5 DEF a, c
  <2> QED
    BY <2>4, <2>5, <2>6
<1>6. ASSUME k < len[i], NEW j \in 0 .. n PROVE at[i - 1] + k # at[j]
  BY <1>2, <1>4, <1>6
<1>7. ASSUME k = len[i], NEW j \in 0 .. n, at[i - 1] + k = at[j] PROVE at[j] = at[i] /\ i <= j
  BY <1>2, <1>4, <1>7
<1> QED
  BY <1>3, <1>5, <1>6, <1>7

\* where the offset has not grown, the pieces are empty
LEMMA Standstill ==
  ASSUME NEW n \in Nat, NEW at, NEW len, Growing(at, len, n),
         NEW i \in 0 .. n, NEW j \in 0 .. n, i <= j, at[i] = at[j], NEW l \in i + 1 .. j
  PROVE  len[l] = 0
<1>1. /\ l \in 1 .. n /\ l \in 0 .. n /\ l - 1 \in 0 .. n /\ i <= l - 1 /\ l <= j
  OBVIOUS
<1>2. /\ at[i] <= at[l - 1] /\ at[l] <= at[j] /\ at[l] = at[l - 1] + len[l] /\ len[l] \in Nat
      /\ at[l - 1] \in Nat /\ at[l] \in Nat /\ at[j] \in Nat
  BY <1>1 DEF Growing
<1> QED
  BY <1>2

LEMMA PieceIsBlock ==
  ASSUME NEW x \in ImageV1, NEW i \in 1 .. Len(x.base.body.surfaces)
  PROVE  LET p == CoefficientPieces(x)[i]
         IN  /\ ~ Listed(x, i) => PieceLen(x, i) = 0
             /\ Listed(x, i) => /\ IdOf(x, i) \in SurfaceIds /\ GradeOf(x, i) \in Coefficient
                                /\ PieceLen(x, i) = Len(GradeOf(x, i).timing) + 6
                                /\ CoefficientTable(p, IdOf(x, i), GradeOf(x, i))
<1> DEFINE s == x.base.body.surfaces
           id == IdOf(x, i)
           c == GradeOf(x, i)
           p == CoefficientPieces(x)[i]
<1>1. s \in Seq(SurfaceEntry) /\ x.coefficients \in Seq(SurfaceCoefficient)
  BY ImageFields
<1>2. DOMAIN s = 1 .. Len(s) /\ s[i] \in SurfaceEntry
  BY <1>1, SurfacesOf
<1>3. p = IF References(x.coefficients, id) = {} THEN <<>> ELSE WriteCoefficient(id, c)
  BY <1>2 DEF CoefficientPieces, IdOf, GradeOf
<1>4. id \in SurfaceIds
  BY <1>2, SurfaceFields DEF IdOf
<1>5. CASE ~ Listed(x, i)
  <2>1. p = <<>> /\ Len(<<>>) = 0
    BY <1>3, <1>5 DEF Listed
  <2> QED
    BY <1>5, <2>1 DEF PieceLen
<1>6. CASE Listed(x, i)
  <2>1. c \in Coefficient
    BY <1>1, <1>6, CoefficientForIs DEF Listed, GradeOf
  <2>2. p = WriteCoefficient(id, c)
    BY <1>3, <1>6 DEF Listed
  <2> HIDE DEF id, c, p
  <2>3. Len(p) = Len(c.timing) + 6 /\ CoefficientTable(p, id, c)
    BY <1>4, <2>1, <2>2, CoefficientIs
  <2> QED
    BY <1>4, <1>6, <2>1, <2>3 DEF PieceLen, id, c, p
<1> QED
  BY <1>5, <1>6

\* a v1 document: M lines up to the layout, the block, and the end
BlockTable(v, x) ==
  LET n == Len(x.base.body.surfaces)
      M == PreludeEnd(x)
      at == Offsets(x)
  IN  /\ Growing(at, [i \in 1 .. n |-> PieceLen(x, i)], n)
      /\ Len(v) = M + at[n] + 3
      /\ v[M + 1] = Open("coefficients", <<>>)
      /\ \A i \in 1 .. n : \A k \in 1 .. PieceLen(x, i) :
           v[M + 1 + (at[i - 1] + k)] = CoefficientPieces(x)[i][k]
      /\ v[M + 2 + at[n]] = Close("coefficients")
      /\ v[M + 3 + at[n]] = Close("session")
      /\ \A q \in 1 .. at[n] : \E i \in 1 .. n : \E k \in 1 .. PieceLen(x, i) :
           q = at[i - 1] + k

LEMMA BlockTableHolds ==
  ASSUME NEW x \in Sources
  PROVE  BlockTable(ToXmlV1(x), x) /\ PreludeTable(ToXmlV1(x), x)
<1> DEFINE n == Len(x.base.body.surfaces)
           M == PreludeEnd(x)
           at == Offsets(x)
           v == ToXmlV1(x)
           u == WriteCoefficients(x)
           S == TailEvents(x)
           f == FlattenSeq(CoefficientPieces(x))
           ss == CoefficientPieces(x)
           len == [i \in 1 .. n |-> PieceLen(x, i)]
<1>1. x \in ImageV1 /\ DocumentTable(v, x, u)
  BY WrittenIs, ParserAssumption
<1>2. n \in Nat /\ M \in Nat
  BY <1>1, PreludeEndIs
<1>3. ElementOf(S, u, "coefficients", <<>>, f) /\ \E bt : LaidOut(S, f, ss, n, bt)
  BY <1>1, BlockIs
<1>4. LaidOut(S, f, ss, n, at)
  BY <1>3 DEF Offsets
<1> HIDE DEF n, M, at, v, u, S, f, ss
<1>5. /\ PreludeTable(v, x) /\ Len(v) = M + Len(u) + 1
      /\ \A i \in 1 .. Len(u) : v[M + i] = u[i]
      /\ v[Len(v)] = Close("session")
  BY <1>1 DEF DocumentTable, M
<1>6. /\ f \in Seq(S) /\ at \in [0 .. n -> Nat] /\ at[0] = 0 /\ at[n] = Len(f)
      /\ \A i \in 1 .. n : at[i] = at[i - 1] + Len(ss[i])
      /\ \A i \in 1 .. n : \A k \in 1 .. Len(ss[i]) : f[at[i - 1] + k] = ss[i][k]
      /\ \A i, j \in 0 .. n : i <= j => at[i] <= at[j]
      /\ \A p \in 1 .. Len(f) : \E i \in 1 .. n : \E k \in 1 .. Len(ss[i]) : p = at[i - 1] + k
  BY <1>4 DEF LaidOut
<1>7. /\ Len(u) = Len(f) + 2 /\ u[1] = Open("coefficients", <<>>)
      /\ u[Len(f) + 2] = Close("coefficients") /\ \A i \in 1 .. Len(f) : u[1 + i] = f[i]
  BY <1>3 DEF ElementOf
<1>8. Len(f) \in Nat
  BY <1>6, LenProperties
<1>9. \A i \in 1 .. n : PieceLen(x, i) = Len(ss[i]) /\ len[i] = Len(ss[i]) /\ len[i] \in Nat
  <2>1. \A i \in 1 .. n : PieceLen(x, i) \in Nat
    <3> SUFFICES ASSUME NEW i \in 1 .. n PROVE PieceLen(x, i) \in Nat
      OBVIOUS
    <3>1. ~ Listed(x, i) => PieceLen(x, i) = 0
      BY <1>1, PieceIsBlock DEF n
    <3>2. Listed(x, i) => PieceLen(x, i) \in Nat
      <4>1. Listed(x, i) => GradeOf(x, i) \in Coefficient
                            /\ PieceLen(x, i) = Len(GradeOf(x, i).timing) + 6
        BY <1>1, PieceIsBlock DEF n
      <4> QED
        BY <4>1, CoefficientValues
    <3> QED
      BY <3>1, <3>2
  <2> QED
    BY <2>1 DEF PieceLen, ss
<1>10. Growing(at, len, n)
  BY <1>6, <1>9 DEF Growing
<1>11. v[M + 1] = Open("coefficients", <<>>)
  BY <1>5, <1>7, <1>8
<1>12. v[M + 2 + at[n]] = Close("coefficients")
  <2>1. Len(f) + 2 \in 1 .. Len(u) /\ M + (Len(f) + 2) = M + 2 + at[n]
    BY <1>2, <1>6, <1>7, <1>8
  <2> QED
    BY <1>5, <1>7, <2>1
<1>13. v[M + 3 + at[n]] = Close("session") /\ Len(v) = M + at[n] + 3
  <2>1. Len(u) = at[n] + 2 /\ at[n] \in Nat /\ Len(v) = M + Len(u) + 1
    BY <1>5, <1>6, <1>7, <1>8
  <2> DEFINE l == Len(v)
             q == M + 3 + at[n]
  <2>2. l = q /\ l = M + at[n] + 3
    BY <1>2, <2>1
  <2>3. v[l] = Close("session")
    BY <1>5
  <2> HIDE DEF l, q
  <2>4. v[q] = Close("session")
    BY <2>2, <2>3, Zenon
  <2> QED
    BY <2>2, <2>4 DEF l, q
<1>14. ASSUME NEW i \in 1 .. n, NEW k \in 1 .. PieceLen(x, i)
       PROVE  v[M + 1 + (at[i - 1] + k)] = ss[i][k]
  <2> DEFINE q == at[i - 1] + k
  <2>1. PieceLen(x, i) = len[i]
    BY <1>9
  <2>2. q <= at[n] /\ at[i - 1] \in Nat
    <3>1. k \in 1 .. len[i] /\ i - 1 \in 0 .. n
      BY <1>2, <2>1
    <3> HIDE DEF len
    <3>2. at[i - 1] + k <= at[n]
      BY <1>2, <1>10, <3>1, PlacesDiffer, Zenon
    <3> QED
      BY <1>6, <3>1, <3>2
  <2>3. f[q] = ss[i][k]
    BY <1>6, <1>9
  <2>4. q \in 1 .. Len(f)
    BY <1>6, <1>8, <2>2
  <2> HIDE DEF q
  <2>5. u[1 + q] = f[q] /\ 1 + q \in 1 .. Len(u) /\ M + (1 + q) = M + 1 + q
    BY <1>2, <1>7, <1>8, <2>4
  <2>6. v[M + 1 + q] = f[q]
    BY <1>5, <2>5
  <2> QED
    BY <2>3, <2>6 DEF q
<1>15. \A q \in 1 .. at[n] : \E i \in 1 .. n : \E k \in 1 .. PieceLen(x, i) : q = at[i - 1] + k
  BY <1>6, <1>9
<1>16. \A i \in 1 .. n : \A k \in 1 .. PieceLen(x, i) : v[M + 1 + (at[i - 1] + k)] = ss[i][k]
  BY <1>14
<1> HIDE DEF len
<1>17. BlockTable(v, x)
  <2>1. Len(v) = M + at[n] + 3
    BY <1>13
  <2> QED
    BY <1>10, <1>11, <1>12, <1>13, <1>15, <1>16, <2>1, Zenon DEF BlockTable, n, M, at, ss, len
<1> QED
  BY <1>5, <1>17 DEF v

(***************************************************************************)
(* What the second pass has read after the entries of so many surfaces.    *)
(***************************************************************************)
ReadOf(cs, x, i) ==
  /\ cs \in Seq(SurfaceCoefficient)
  /\ (\A j \in 1 .. i : Listed(x, j)) =>
       Len(cs) = i /\ \A j \in 1 .. i : cs[j] = EntryOf(x, j)
  /\ (\E j \in 1 .. i : ~ Listed(x, j)) => Len(cs) < i
  /\ \A j \in 1 .. i : Listed(x, j) => GradeOf(x, j).timing # <<>>

\* no entry has been read
LEMMA NoneRead == ASSUME NEW x PROVE ReadOf(<<>>, x, 0)
BY DEF ReadOf

\* a surface without a coefficient
LEMMA UnlistedRead ==
  ASSUME NEW cs, NEW x, NEW i \in Nat, NEW j \in Nat, i <= j, ReadOf(cs, x, i),
         \A l \in i + 1 .. j : ~ Listed(x, l)
  PROVE  ReadOf(cs, x, j)
<1>1. CASE i = j
  BY <1>1
<1>2. CASE i < j
  <2>1. i + 1 \in 1 .. j /\ ~ Listed(x, i + 1)
    BY <1>2
  <2>2. Len(cs) \in Nat /\ Len(cs) <= i
    <3>1. Len(cs) \in Nat
      BY LenProperties DEF ReadOf
    <3> QED
      BY <3>1 DEF ReadOf
  <2>3. ASSUME NEW l \in 1 .. j, Listed(x, l) PROVE GradeOf(x, l).timing # <<>>
    <3>1. l \in 1 .. i
      BY <2>3
    <3> QED
      BY <2>3, <3>1 DEF ReadOf
  <2> QED
    BY <1>2, <2>1, <2>2, <2>3 DEF ReadOf
<1> QED
  BY <1>1, <1>2

\* a surface with one
LEMMA ListedRead ==
  ASSUME NEW cs, NEW x, NEW i \in Nat, i >= 1, ReadOf(cs, x, i - 1), Listed(x, i),
         GradeOf(x, i).timing # <<>>, EntryOf(x, i) \in SurfaceCoefficient
  PROVE  ReadOf(Append(cs, EntryOf(x, i)), x, i)
<1> DEFINE T == SurfaceCoefficient
           e == EntryOf(x, i)
           d == Append(cs, e)
<1>1. cs \in Seq(T) /\ Len(cs) \in Nat /\ e \in T
  BY LenProperties DEF ReadOf
<1>2. (\A j \in 1 .. i - 1 : Listed(x, j)) =>
        Len(cs) = i - 1 /\ \A j \in 1 .. i - 1 : cs[j] = EntryOf(x, j)
  BY DEF ReadOf
<1>3. (\E j \in 1 .. i - 1 : ~ Listed(x, j)) => Len(cs) < i - 1
  BY DEF ReadOf
<1>4. \A j \in 1 .. i - 1 : Listed(x, j) => GradeOf(x, j).timing # <<>>
  BY DEF ReadOf
<1> HIDE DEF T
<1>5. /\ d \in Seq(T) /\ Len(d) = Len(cs) + 1 /\ d[Len(cs) + 1] = e
      /\ \A j \in 1 .. Len(cs) : d[j] = cs[j]
  BY <1>1, AppendProperties
<1> HIDE DEF d
<1>6. ASSUME \A j \in 1 .. i : Listed(x, j)
      PROVE  Len(d) = i /\ \A j \in 1 .. i : d[j] = EntryOf(x, j)
  <2>1. Len(cs) = i - 1 /\ \A j \in 1 .. i - 1 : cs[j] = EntryOf(x, j)
    BY <1>2, <1>6
  <2> QED
    BY <1>5, <2>1 DEF e
<1>7. ASSUME NEW j \in 1 .. i, ~ Listed(x, j) PROVE Len(d) < i
  <2>1. j \in 1 .. i - 1
    BY <1>7
  <2> QED
    BY <1>1, <1>3, <1>5, <1>7, <2>1
<1>8. \A j \in 1 .. i : Listed(x, j) => GradeOf(x, j).timing # <<>>
  BY <1>4
<1> QED
  BY <1>5, <1>6, <1>7, <1>8 DEF ReadOf, d, T

(***************************************************************************)
(* The state of the second pass between two lines of a v1 document.        *)
(***************************************************************************)
BlockState(inside, e, cs, x, p) ==
  LET n == Len(x.base.body.surfaces)
      M == PreludeEnd(x)
      at == Offsets(x)
  IN  /\ p <= M => inside = FALSE /\ e = None /\ cs = <<>>
      /\ \A i \in 0 .. n :
           p = M + 1 + at[i] => inside = TRUE /\ e = None /\ ReadOf(cs, x, i)
      /\ \A i \in 1 .. n : \A k \in 1 .. PieceLen(x, i) :
           p = M + 1 + (at[i - 1] + k) /\ k < PieceLen(x, i) =>
             /\ inside = TRUE /\ e = EntryAt(IdOf(x, i), GradeOf(x, i), k)
             /\ ReadOf(cs, x, i - 1)
      /\ p >= M + 2 + at[n] => inside = FALSE /\ e = None /\ ReadOf(cs, x, n)

Placed(x) ==
  /\ x \in ImageV1
  /\ Growing(Offsets(x), [i \in 1 .. Len(x.base.body.surfaces) |-> PieceLen(x, i)],
             Len(x.base.body.surfaces))

LEMMA PlacedAre ==
  ASSUME NEW x, Placed(x)
  PROVE  LET n == Len(x.base.body.surfaces)
             at == Offsets(x)
         IN  /\ n \in Nat /\ PreludeEnd(x) \in Nat /\ at[0] = 0 /\ at[n] \in Nat
             /\ \A i \in 0 .. n : at[i] \in Nat /\ at[i] <= at[n]
             /\ \A i \in 1 .. n : PieceLen(x, i) \in Nat /\ at[i] = at[i - 1] + PieceLen(x, i)
             /\ \A i \in 1 .. n : i \in 0 .. n /\ i - 1 \in 0 .. n
<1> DEFINE n == Len(x.base.body.surfaces)
           at == Offsets(x)
           len == [i \in 1 .. n |-> PieceLen(x, i)]
<1>1. n \in Nat /\ PreludeEnd(x) \in Nat
  BY PreludeEndIs DEF Placed
<1>2. Growing(at, len, n)
  BY DEF Placed
<1>3. \A i \in 1 .. n : len[i] = PieceLen(x, i)
  OBVIOUS
<1> HIDE DEF n, at, len
<1>4. at[0] = 0 /\ 0 \in 0 .. n /\ n \in 0 .. n
  BY <1>1, <1>2 DEF Growing
<1>5. \A i \in 0 .. n : at[i] \in Nat /\ at[i] <= at[n]
  BY <1>1, <1>2, <1>4 DEF Growing
<1>6. \A i \in 1 .. n : PieceLen(x, i) \in Nat /\ at[i] = at[i - 1] + PieceLen(x, i)
  BY <1>2, <1>3 DEF Growing
<1>7. \A i \in 1 .. n : i \in 0 .. n /\ i - 1 \in 0 .. n
  BY <1>1
<1> QED
  BY <1>1, <1>4, <1>5, <1>6, <1>7 DEF n, at

LEMMA PlacesOf ==
  ASSUME NEW x, Placed(x), NEW i \in 1 .. Len(x.base.body.surfaces), NEW k \in 1 .. PieceLen(x, i)
  PROVE  LET n == Len(x.base.body.surfaces)
             at == Offsets(x)
         IN  /\ at[i - 1] + k <= at[n] /\ at[i - 1] \in Nat
             /\ \A j \in 1 .. n : \A l \in 1 .. PieceLen(x, j) :
                  at[i - 1] + k = at[j - 1] + l => j = i /\ l = k
             /\ k < PieceLen(x, i) => \A j \in 0 .. n : at[i - 1] + k # at[j]
             /\ k = PieceLen(x, i) =>
                  \A j \in 0 .. n : at[i - 1] + k = at[j] => at[j] = at[i] /\ i <= j
<1> DEFINE n == Len(x.base.body.surfaces)
           at == Offsets(x)
           len == [j \in 1 .. n |-> PieceLen(x, j)]
<1>1. n \in Nat /\ Growing(at, len, n) /\ at[i - 1] \in Nat
  BY PlacedAre DEF Placed
<1>2. \A j \in 1 .. n : len[j] = PieceLen(x, j)
  OBVIOUS
<1>3. i \in 1 .. n /\ k \in 1 .. len[i]
  BY <1>2
<1> HIDE DEF n, at, len
<1>4. /\ at[i - 1] + k <= at[n]
      /\ \A j \in 1 .. n : \A l \in 1 .. len[j] : at[i - 1] + k = at[j - 1] + l => j = i /\ l = k
      /\ k < len[i] => \A j \in 0 .. n : at[i - 1] + k # at[j]
      /\ k = len[i] => \A j \in 0 .. n : at[i - 1] + k = at[j] => at[j] = at[i] /\ i <= j
  BY <1>1, <1>3, PlacesDiffer
<1>5. \A j \in 1 .. n : \A l \in 1 .. PieceLen(x, j) :
        at[i - 1] + k = at[j - 1] + l => j = i /\ l = k
  BY <1>2, <1>4
<1> QED
  BY <1>1, <1>2, <1>3, <1>4, <1>5 DEF n, at

LEMMA PlaceBefore ==
  ASSUME NEW x, Placed(x), NEW p \in Nat, p <= PreludeEnd(x)
  PROVE  BlockState(FALSE, None, <<>>, x, p)
<1> DEFINE n == Len(x.base.body.surfaces)
           M == PreludeEnd(x)
           at == Offsets(x)
<1>1. /\ n \in Nat /\ M \in Nat /\ at[n] \in Nat
      /\ \A i \in 0 .. n : at[i] \in Nat
      /\ \A i \in 1 .. n : i - 1 \in 0 .. n /\ PieceLen(x, i) \in Nat
  BY PlacedAre
<1> HIDE DEF n, M, at
<1>2. \A i \in 0 .. n : p # M + 1 + at[i]
  BY <1>1 DEF M
<1>3. ASSUME NEW i \in 1 .. n, NEW k \in 1 .. PieceLen(x, i) PROVE p # M + 1 + (at[i - 1] + k)
  <2>1. at[i - 1] \in Nat /\ k \in Nat
    BY <1>1
  <2> QED
    BY <1>1, <2>1 DEF M
<1>4. ~ (p >= M + 2 + at[n])
  BY <1>1 DEF M
<1> QED
  BY <1>2, <1>3, <1>4 DEF BlockState, n, M, at

LEMMA PlaceBetween ==
  ASSUME NEW x, Placed(x), NEW cs, NEW i \in 0 .. Len(x.base.body.surfaces), ReadOf(cs, x, i),
         i = 0 \/ PieceLen(x, i) # 0, NEW p, p = PreludeEnd(x) + 1 + Offsets(x)[i]
  PROVE  BlockState(TRUE, None, cs, x, p)
<1> DEFINE n == Len(x.base.body.surfaces)
           M == PreludeEnd(x)
           at == Offsets(x)
           len == [j \in 1 .. n |-> PieceLen(x, j)]
<1>1. /\ n \in Nat /\ M \in Nat /\ at[n] \in Nat
      /\ \A j \in 0 .. n : at[j] \in Nat /\ at[j] <= at[n]
      /\ \A j \in 1 .. n : PieceLen(x, j) \in Nat /\ at[j] = at[j - 1] + PieceLen(x, j)
      /\ \A j \in 1 .. n : j \in 0 .. n /\ j - 1 \in 0 .. n
  BY PlacedAre
<1>2. Growing(at, len, n) /\ x \in ImageV1
  BY DEF Placed
<1>3. \A j \in 1 .. n : len[j] = PieceLen(x, j)
  OBVIOUS
<1>4. \A j \in 1 .. n : \A k \in 1 .. PieceLen(x, j) : k < PieceLen(x, j) => at[j - 1] + k # at[i]
  BY PlacesOf
<1>5. \A j \in 1 .. n : PieceLen(x, j) = 0 => ~ Listed(x, j)
  <2> SUFFICES ASSUME NEW j \in 1 .. n, PieceLen(x, j) = 0, Listed(x, j) PROVE FALSE
    OBVIOUS
  <2>1. GradeOf(x, j) \in Coefficient /\ PieceLen(x, j) = Len(GradeOf(x, j).timing) + 6
    BY <1>2, PieceIsBlock
  <2> QED
    BY <2>1, CoefficientValues
<1> HIDE DEF n, M, at, len
<1>6. i \in 0 .. n /\ p = M + 1 + at[i] /\ at[i] \in Nat
  BY <1>1 DEF n, M, at
<1>0. M \in Nat
  BY <1>1
<1>7. ASSUME NEW j \in 0 .. n, p = M + 1 + at[j] PROVE ReadOf(cs, x, j)
  <2>1. at[j] = at[i]
    BY <1>1, <1>6, <1>7, SMTT(30)
  <2>2. i <= j
    <3>1. CASE i = 0
      BY <1>1, <3>1
    <3>2. CASE i # 0
      <4>1. i \in 1 .. n /\ i - 1 \in 0 .. n
        BY <1>1, <1>6, <3>2
      <4>2. PieceLen(x, i) \in Nat /\ PieceLen(x, i) # 0 /\ at[i] = at[i - 1] + PieceLen(x, i)
            /\ at[i - 1] \in Nat
        BY <1>1, <3>2, <4>1
      <4>3. j <= i - 1 => at[j] <= at[i - 1]
        BY <1>2, <4>1 DEF Growing
      <4> QED
        BY <1>1, <1>6, <2>1, <4>2, <4>3, SMTT(30)
    <3> QED
      BY <3>1, <3>2
  <2>3. ASSUME NEW l \in i + 1 .. j PROVE ~ Listed(x, l)
    <3>1. l \in 1 .. n
      BY <1>1, <1>6
    <3>2. len[l] = 0
      BY <1>1, <1>2, <1>6, <2>1, <2>2, Standstill
    <3> QED
      BY <1>3, <1>5, <3>1, <3>2
  <2>4. i \in Nat /\ j \in Nat
    BY <1>1, <1>6
  <2> QED
    BY <2>2, <2>3, <2>4, UnlistedRead
<1>8. ASSUME NEW j \in 1 .. n, NEW k \in 1 .. PieceLen(x, j), k < PieceLen(x, j)
      PROVE  p # M + 1 + (at[j - 1] + k)
  <2> DEFINE q == at[j - 1] + k
             a == at[i]
  <2>1. at[j - 1] \in Nat /\ k \in Nat /\ q # a
    BY <1>1, <1>4, <1>8
  <2>2. q \in Nat /\ a \in Nat /\ p = M + 1 + a
    BY <1>6, <2>1
  <2> HIDE DEF q, a
  <2>3. p # M + 1 + q
    BY <1>0, <2>1, <2>2
  <2> QED
    BY <2>3 DEF q
<1>9. ~ (p <= M) /\ ~ (p >= M + 2 + at[n])
  <2> DEFINE a == at[i]
             b == at[n]
  <2>1. a \in Nat /\ b \in Nat /\ a <= b /\ M \in Nat
    BY <1>1, <1>6
  <2>2. p = M + 1 + a
    BY <1>6
  <2> HIDE DEF a, b
  <2>3. ~ (p <= M) /\ ~ (p >= M + 2 + b)
    BY <2>1, <2>2
  <2> QED
    BY <2>3 DEF b
<1> QED
  BY <1>7, <1>8, <1>9 DEF BlockState, n, M, at

LEMMA PlaceWithin ==
  ASSUME NEW x, Placed(x), NEW cs, NEW i \in 1 .. Len(x.base.body.surfaces),
         NEW k \in 1 .. PieceLen(x, i), k < PieceLen(x, i), ReadOf(cs, x, i - 1),
         NEW p, p = PreludeEnd(x) + 1 + (Offsets(x)[i - 1] + k)
  PROVE  BlockState(TRUE, EntryAt(IdOf(x, i), GradeOf(x, i), k), cs, x, p)
<1> DEFINE n == Len(x.base.body.surfaces)
           M == PreludeEnd(x)
           at == Offsets(x)
           q == at[i - 1] + k
<1>1. /\ n \in Nat /\ M \in Nat /\ at[n] \in Nat
      /\ \A j \in 0 .. n : at[j] \in Nat
      /\ \A j \in 1 .. n : PieceLen(x, j) \in Nat
      /\ \A j \in 1 .. n : j - 1 \in 0 .. n
  BY PlacedAre
<1>2. /\ q <= at[n] /\ at[i - 1] \in Nat
      /\ \A j \in 1 .. n : \A l \in 1 .. PieceLen(x, j) : q = at[j - 1] + l => j = i /\ l = k
      /\ \A j \in 0 .. n : q # at[j]
  BY PlacesOf
<1>3. q \in Nat /\ q >= 1 /\ p = M + 1 + q
  <2> DEFINE a == at[i - 1]
  <2>1. a \in Nat
    BY <1>2
  <2>2. k \in Nat /\ k >= 1
    <3>1. PieceLen(x, i) \in Nat
      BY <1>1
    <3> QED
      BY <3>1
  <2>3. p = M + 1 + (a + k)
    OBVIOUS
  <2> HIDE DEF a
  <2> QED
    BY <2>1, <2>2, <2>3 DEF a
<1> HIDE DEF n, M, at, q
<1>4. \A j \in 0 .. n : p # M + 1 + at[j]
  <2> SUFFICES ASSUME NEW j \in 0 .. n PROVE p # M + 1 + at[j]
    OBVIOUS
  <2> DEFINE b == at[j]
  <2>1. b \in Nat /\ q # b
    BY <1>1, <1>2
  <2> HIDE DEF b
  <2>2. p # M + 1 + b
    BY <1>1, <1>3, <2>1
  <2> QED
    BY <2>2 DEF b
<1>5. ASSUME NEW j \in 1 .. n, NEW l \in 1 .. PieceLen(x, j), p = M + 1 + (at[j - 1] + l)
      PROVE  j = i /\ l = k
  <2> DEFINE r == at[j - 1] + l
  <2>1. r \in Nat /\ p = M + 1 + r
    <3>1. at[j - 1] \in Nat
      BY <1>1
    <3>2. l \in Nat
      BY <1>1, <1>5
    <3> QED
      BY <1>5, <3>1, <3>2
  <2> HIDE DEF r
  <2>3. q = r
    BY <1>1, <1>3, <2>1
  <2>2. q = at[j - 1] + l
    BY <2>3 DEF r
  <2> QED
    BY <1>2, <2>2
<1>6. ~ (p <= M) /\ ~ (p >= M + 2 + at[n])
  BY <1>1, <1>2, <1>3
<1> QED
  BY <1>4, <1>5, <1>6 DEF BlockState, n, M, at

LEMMA PlaceAfter ==
  ASSUME NEW x, Placed(x), NEW cs, ReadOf(cs, x, Len(x.base.body.surfaces)),
         NEW p \in Nat, p >= PreludeEnd(x) + 2 + Offsets(x)[Len(x.base.body.surfaces)]
  PROVE  BlockState(FALSE, None, cs, x, p)
<1> DEFINE n == Len(x.base.body.surfaces)
           M == PreludeEnd(x)
           at == Offsets(x)
<1>1. /\ n \in Nat /\ M \in Nat /\ at[n] \in Nat
      /\ \A j \in 0 .. n : at[j] \in Nat /\ at[j] <= at[n]
      /\ \A j \in 1 .. n : PieceLen(x, j) \in Nat
      /\ \A j \in 1 .. n : j - 1 \in 0 .. n
  BY PlacedAre
<1>2. \A j \in 1 .. n : \A k \in 1 .. PieceLen(x, j) : at[j - 1] + k <= at[n]
  BY PlacesOf
<1> HIDE DEF n, M, at
<1>3. p >= M + 2 + at[n]
  BY DEF n, M, at
<1>4. \A j \in 0 .. n : p # M + 1 + at[j]
  BY <1>1, <1>3
<1>5. ASSUME NEW j \in 1 .. n, NEW k \in 1 .. PieceLen(x, j) PROVE p # M + 1 + (at[j - 1] + k)
  <2>1. at[j - 1] \in Nat /\ k \in Nat /\ at[j - 1] + k <= at[n]
    BY <1>1, <1>2
  <2> QED
    BY <1>1, <1>3, <2>1, SMTT(30)
<1>6. ~ (p <= M)
  BY <1>1, <1>3
<1> QED
  BY <1>4, <1>5, <1>6 DEF BlockState, n, M, at

BlockAt(x, p) == BlockState(inCoefficients, entry, coefficients, x, p)

\* a surface that the v1 reader will not take back
Refused(x) ==
  /\ phase' = "rejected" /\ UNCHANGED <<source, reader, doc>>
  /\ ~ ReadsBack(x) /\ x.base.body.surfaces # <<>>

LEMMA PlacedWritten ==
  ASSUME NEW x \in Sources
  PROVE  Placed(x) /\ BlockTable(ToXmlV1(x), x) /\ PreludeTable(ToXmlV1(x), x) /\ x \in ImageV1
<1>1. x \in ImageV1 /\ BlockTable(ToXmlV1(x), x) /\ PreludeTable(ToXmlV1(x), x)
  BY BlockTableHolds, ParserAssumption
<1> QED
  BY <1>1 DEF BlockTable, Placed

\* an event of a document that is none of the block's
LEMMA OutsideBlock ==
  ASSUME AtBlock, NEW x, Event \in EventOf(x), Event.el \notin BlockWords
  PROVE  Passed
<1>1. \/ Event.kind \in {"open", "empty", "close"}
      \/ Event.kind = "text"
  BY EventFields
<1>2. Event.el \notin BlockElements \cup {"coefficients"}
      /\ Event.el \notin {"coefficients", "surface-coefficient"}
  BY DEF BlockWords, BlockElements
<1> QED
  BY <1>1, <1>2, PassedBy DEF Start

LEMMA BeforeBlock ==
  ASSUME NEW x \in Sources, NEW p \in Nat, AtBlock, doc = ToXmlV1(x), Event = doc[p + 1],
         doc[p + 1] \in EventOf(x), BlockAt(x, p), p < PreludeEnd(x)
  PROVE  BlockMoved /\ BlockAt(x, p + 1)'
<1>1. Placed(x) /\ PreludeTable(doc, x) /\ x \in ImageV1
  BY PlacedWritten
<1>2. PreludeEnd(x) \in Nat
  BY <1>1, PreludeEndIs
<1>3. p + 1 \in 1 .. PreludeEnd(x)
  BY <1>2
<1>4. Event.el \notin BlockWords
  BY <1>1, <1>3, PreludeEvents
<1>5. Passed
  BY <1>4, OutsideBlock
<1>6. inCoefficients = FALSE /\ entry = None /\ coefficients = <<>>
  BY <1>2 DEF BlockAt, BlockState
<1>7. BlockState(FALSE, None, <<>>, x, p + 1)
  <2>1. p + 1 \in Nat /\ p + 1 <= PreludeEnd(x)
    BY <1>2
  <2> QED
    BY <1>1, <2>1, PlaceBefore
<1> QED
  BY <1>5, <1>6, <1>7 DEF Passed, coefficientVars, BlockAt

LEMMA SumsAre ==
  ASSUME NEW m \in Nat, NEW a \in Nat, NEW k \in Nat
  PROVE  /\ m + 1 + (a + k) = m + (a + k) + 1 /\ m + (a + 1) = m + 1 + a
         /\ m + (a + k) = m + 1 + (a + (k - 1))
         /\ m + 1 + a + 1 = m + 2 + a /\ m + 2 + a + 1 = m + 3 + a
         /\ m + (a + 1) + 1 = m + 1 + (a + 1)
OBVIOUS

LEMMA BlockBegins ==
  ASSUME NEW x \in Sources, NEW p \in Nat, AtBlock, doc = ToXmlV1(x), Event = doc[p + 1],
         BlockAt(x, p), p = PreludeEnd(x)
  PROVE  BlockMoved /\ BlockAt(x, p + 1)'
<1>1. Placed(x) /\ doc[PreludeEnd(x) + 1] = Open("coefficients", <<>>) /\ x \in ImageV1
  BY PlacedWritten DEF BlockTable
<1>2. Event = Open("coefficients", <<>>)
  BY <1>1
<1>3. inCoefficients = FALSE /\ entry = None /\ coefficients = <<>>
  BY DEF BlockAt, BlockState
<1>4. BlockMoved /\ inCoefficients' = TRUE /\ entry' = None /\ coefficients' = <<>>
  BY <1>2, <1>3, BlockOpens
<1>5. BlockState(TRUE, None, <<>>, x, p + 1)
  <2>1. 0 \in 0 .. Len(x.base.body.surfaces) /\ p + 1 = PreludeEnd(x) + 1 + Offsets(x)[0]
    BY <1>1, PlacedAre
  <2>2. ReadOf(<<>>, x, 0)
    BY NoneRead
  <2> QED
    BY <1>1, <2>1, <2>2, PlaceBetween
<1> QED
  BY <1>4, <1>5 DEF BlockAt

LEMMA BlockLineIs ==
  ASSUME NEW x \in Sources, NEW i \in 1 .. Len(x.base.body.surfaces),
         NEW k \in 1 .. PieceLen(x, i), NEW p, p = PreludeEnd(x) + (Offsets(x)[i - 1] + k),
         doc = ToXmlV1(x)
  PROVE  /\ doc[p + 1] = CoefficientPieces(x)[i][k]
         /\ Listed(x, i) /\ IdOf(x, i) \in SurfaceIds /\ GradeOf(x, i) \in Coefficient
         /\ PieceLen(x, i) = Len(GradeOf(x, i).timing) + 6
         /\ CoefficientTable(CoefficientPieces(x)[i], IdOf(x, i), GradeOf(x, i))
<1> DEFINE n == Len(x.base.body.surfaces)
           M == PreludeEnd(x)
           at == Offsets(x)
           c == GradeOf(x, i)
           piece == CoefficientPieces(x)[i]
<1>1. Placed(x) /\ x \in ImageV1
  BY PlacedWritten
<1>2. doc[M + 1 + (at[i - 1] + k)] = piece[k]
  BY PlacedWritten DEF BlockTable
<1>3. /\ M \in Nat /\ at[i - 1] \in Nat /\ PieceLen(x, i) \in Nat /\ i - 1 \in 0 .. n
  BY <1>1, PlacedAre
<1>4. Listed(x, i)
  <2> DEFINE l == PieceLen(x, i)
  <2>1. l # 0
    <3>1. k \in 1 .. l /\ l \in Nat
      BY <1>3
    <3> HIDE DEF l
    <3> QED
      BY <3>1
  <2> QED
    BY <1>1, <2>1, PieceIsBlock
<1>5. /\ IdOf(x, i) \in SurfaceIds /\ c \in Coefficient
      /\ PieceLen(x, i) = Len(c.timing) + 6
      /\ CoefficientTable(piece, IdOf(x, i), c)
  BY <1>1, <1>4, PieceIsBlock
<1>8. k \in Nat
  <2> DEFINE l == PieceLen(x, i)
  <2>1. k \in 1 .. l /\ l \in Nat
    BY <1>3
  <2> HIDE DEF l
  <2> QED
    BY <2>1
<1>6. M + 1 + (at[i - 1] + k) = p + 1
  <2> DEFINE a == at[i - 1]
  <2>1. M \in Nat /\ a \in Nat /\ k \in Nat /\ p = M + (a + k)
    BY <1>3, <1>8
  <2> HIDE DEF a, M
  <2>2. M + 1 + (a + k) = p + 1
    BY <2>1
  <2> QED
    BY <2>2 DEF a
<1>7. doc[p + 1] = piece[k]
  BY <1>2, <1>6
<1> QED
  BY <1>4, <1>5, <1>7

LEMMA EntryBegins ==
  ASSUME NEW x \in Sources, NEW p \in Nat, AtBlock, doc = ToXmlV1(x), Event = doc[p + 1],
         BlockAt(x, p), NEW i \in 1 .. Len(x.base.body.surfaces), PieceLen(x, i) >= 1,
         p = PreludeEnd(x) + (Offsets(x)[i - 1] + 1)
  PROVE  BlockMoved /\ BlockAt(x, p + 1)'
<1> DEFINE n == Len(x.base.body.surfaces)
           M == PreludeEnd(x)
           at == Offsets(x)
           id == IdOf(x, i)
           c == GradeOf(x, i)
           piece == CoefficientPieces(x)[i]
<1>1. Placed(x) /\ x \in ImageV1
  BY PlacedWritten
<1>2. /\ M \in Nat /\ at[i - 1] \in Nat /\ PieceLen(x, i) \in Nat /\ i - 1 \in 0 .. n
      /\ at[i] = at[i - 1] + PieceLen(x, i)
  BY <1>1, PlacedAre
<1>3. 1 \in 1 .. PieceLen(x, i)
  BY <1>2
<1>4. /\ doc[p + 1] = piece[1] /\ id \in SurfaceIds /\ c \in Coefficient
      /\ PieceLen(x, i) = Len(c.timing) + 6 /\ CoefficientTable(piece, id, c)
  BY <1>3, BlockLineIs
<1>5. Event = Open("surface-coefficient", RefAttrs(id))
  BY <1>4 DEF CoefficientTable
<1>6. inCoefficients = TRUE /\ ReadOf(coefficients, x, i - 1)
  <2>1. p = M + 1 + at[i - 1]
    BY <1>2, SumsAre
  <2> QED
    BY <1>2, <2>1 DEF BlockAt, BlockState
<1>7. /\ BlockMoved /\ inCoefficients' = TRUE /\ coefficients' = coefficients
      /\ entry' = EntryAt(id, c, 1)
  <2>1. EntryAt(id, c, 1) = Fresh(id, <<>>)
    BY <1>4, EntryAtIs
  <2> QED
    BY <1>4, <1>5, <1>6, <2>1, EntryOpens
<1>8. BlockState(TRUE, EntryAt(id, c, 1), coefficients, x, p + 1)
  <2>1. 1 < PieceLen(x, i)
    BY <1>4, CoefficientValues
  <2>2. p + 1 = M + 1 + (at[i - 1] + 1)
    BY <1>2, SumsAre
  <2> QED
    BY <1>1, <1>3, <1>6, <2>1, <2>2, PlaceWithin
<1> QED
  BY <1>7, <1>8 DEF BlockAt

LEMMA EntryGoesOn ==
  ASSUME NEW x \in Sources, NEW p \in Nat, AtBlock, doc = ToXmlV1(x), Event = doc[p + 1],
         BlockAt(x, p), NEW i \in 1 .. Len(x.base.body.surfaces),
         NEW k \in 1 .. PieceLen(x, i), k # 1, k < PieceLen(x, i),
         p = PreludeEnd(x) + (Offsets(x)[i - 1] + k)
  PROVE  BlockMoved /\ BlockAt(x, p + 1)'
<1> DEFINE n == Len(x.base.body.surfaces)
           M == PreludeEnd(x)
           at == Offsets(x)
           id == IdOf(x, i)
           c == GradeOf(x, i)
           piece == CoefficientPieces(x)[i]
<1>1. Placed(x) /\ x \in ImageV1
  BY PlacedWritten
<1>2. /\ M \in Nat /\ at[i - 1] \in Nat /\ PieceLen(x, i) \in Nat
  BY <1>1, PlacedAre
<1>3. /\ doc[p + 1] = piece[k] /\ id \in SurfaceIds /\ c \in Coefficient
      /\ PieceLen(x, i) = Len(c.timing) + 6 /\ CoefficientTable(piece, id, c)
  BY BlockLineIs
<1>4. k \in 2 .. Len(c.timing) + 5 /\ k - 1 \in 1 .. PieceLen(x, i) /\ k - 1 < PieceLen(x, i)
  <2> DEFINE l == PieceLen(x, i)
             t == Len(c.timing)
  <2>1. l \in Nat /\ k \in 1 .. l /\ k # 1 /\ k < l /\ l = t + 6 /\ t \in Nat
    BY <1>2, <1>3, CoefficientValues
  <2> HIDE DEF l, t
  <2>2. k \in 2 .. t + 5 /\ k - 1 \in 1 .. l /\ k - 1 < l
    BY <2>1
  <2> QED
    BY <2>2 DEF l, t
<1>5. inCoefficients = TRUE /\ entry = EntryAt(id, c, k - 1) /\ ReadOf(coefficients, x, i - 1)
  <2>1. p = M + 1 + (at[i - 1] + (k - 1))
    <3> DEFINE a == at[i - 1]
    <3>1. M \in Nat /\ a \in Nat /\ k \in Nat /\ p = M + (a + k)
      BY <1>2, <1>4
    <3> HIDE DEF a, M
    <3>2. p = M + 1 + (a + (k - 1))
      BY <3>1
    <3> QED
      BY <3>2 DEF a
  <2> QED
    BY <1>4, <2>1 DEF BlockAt, BlockState
<1>6. /\ BlockMoved /\ inCoefficients' = TRUE /\ coefficients' = coefficients
      /\ entry' = EntryAt(id, c, k)
  <2>1. Event = piece[k]
    BY <1>3
  <2> HIDE DEF id, c, piece
  <2> QED
    BY <1>3, <1>4, <1>5, <2>1, EntryLine
<1>8. k \in Nat
  <2> DEFINE l == PieceLen(x, i)
  <2>1. k \in 1 .. l /\ l \in Nat
    BY <1>2
  <2> HIDE DEF l
  <2> QED
    BY <2>1
<1>7. BlockState(TRUE, EntryAt(id, c, k), coefficients, x, p + 1)
  <2>1. p + 1 = M + 1 + (at[i - 1] + k)
    <3> DEFINE a == at[i - 1]
    <3>1. M \in Nat /\ a \in Nat /\ k \in Nat /\ p = M + (a + k)
      BY <1>2, <1>8
    <3> HIDE DEF M, a
    <3>2. p + 1 = M + 1 + (a + k)
      BY <3>1
    <3> QED
      BY <3>2 DEF a
  <2> QED
    BY <1>1, <1>5, <2>1, PlaceWithin
<1> QED
  BY <1>6, <1>7 DEF BlockAt

LEMMA EntryIsOver ==
  ASSUME NEW x \in Sources, NEW p \in Nat, AtBlock, doc = ToXmlV1(x), Event = doc[p + 1],
         BlockAt(x, p), NEW i \in 1 .. Len(x.base.body.surfaces), PieceLen(x, i) >= 1,
         p = PreludeEnd(x) + (Offsets(x)[i - 1] + PieceLen(x, i))
  PROVE  (BlockMoved /\ BlockAt(x, p + 1)') \/ Refused(x)
<1> DEFINE n == Len(x.base.body.surfaces)
           M == PreludeEnd(x)
           at == Offsets(x)
           id == IdOf(x, i)
           c == GradeOf(x, i)
           piece == CoefficientPieces(x)[i]
           k == PieceLen(x, i)
<1>1. Placed(x) /\ x \in ImageV1
  BY PlacedWritten
<1>2. /\ M \in Nat /\ at[i - 1] \in Nat /\ k \in Nat /\ at[i] = at[i - 1] + k /\ n \in Nat
  BY <1>1, PlacedAre
<1>0. k \in 1 .. PieceLen(x, i)
  BY <1>2
<1>3. /\ doc[p + 1] = piece[k] /\ id \in SurfaceIds /\ c \in Coefficient /\ Listed(x, i)
      /\ k = Len(c.timing) + 6 /\ CoefficientTable(piece, id, c)
  BY <1>0, BlockLineIs
<1>4. k - 1 \in 1 .. PieceLen(x, i) /\ k - 1 < PieceLen(x, i) /\ k - 1 = Len(c.timing) + 5
  BY <1>2, <1>3, CoefficientValues
<1>5. inCoefficients = TRUE /\ entry = EntryAt(id, c, k - 1) /\ ReadOf(coefficients, x, i - 1)
  <2>1. p = M + 1 + (at[i - 1] + (k - 1))
    <3> DEFINE a == at[i - 1]
    <3>1. M \in Nat /\ a \in Nat /\ k \in Nat /\ p = M + (a + k)
      BY <1>2
    <3> HIDE DEF a, M, k
    <3>2. p = M + 1 + (a + (k - 1))
      BY <3>1
    <3> QED
      BY <3>2 DEF a
  <2> QED
    BY <1>4, <2>1 DEF BlockAt, BlockState
<1>6. Event = Close("surface-coefficient")
  BY <1>3 DEF CoefficientTable
<1>7. entry = EntryAt(id, c, Len(c.timing) + 5)
  BY <1>4, <1>5
<1>8. CASE c.timing # <<>>
  <2>1. /\ BlockMoved /\ inCoefficients' = TRUE /\ entry' = None
        /\ coefficients' = Append(coefficients, EntryOf(x, i))
    BY <1>3, <1>5, <1>6, <1>7, <1>8, EntryEnds DEF EntryOf
  <2>2. EntryOf(x, i) \in SurfaceCoefficient
    BY <1>3 DEF EntryOf, SurfaceCoefficient
  <2>3. ReadOf(Append(coefficients, EntryOf(x, i)), x, i)
    BY <1>2, <1>3, <1>5, <1>8, <2>2, ListedRead, SMTT(30)
  <2>4. p + 1 = M + 1 + at[i] /\ i \in 0 .. n /\ k # 0
    BY <1>2, SMTT(30)
  <2>5. BlockState(TRUE, None, Append(coefficients, EntryOf(x, i)), x, p + 1)
    BY <1>1, <2>3, <2>4, PlaceBetween
  <2> QED
    BY <2>1, <2>5 DEF BlockAt
<1>9. CASE c.timing = <<>>
  <2>1. phase' = "rejected" /\ UNCHANGED <<source, reader, doc>>
    BY <1>3, <1>6, <1>7, <1>9, EntryEnds
  <2>2. x.base.body.surfaces \in Seq(SurfaceEntry)
    BY <1>1, ImageFields
  <2>3. i \in DOMAIN x.base.body.surfaces /\ x.base.body.surfaces # <<>>
    <3>1. DOMAIN x.base.body.surfaces = 1 .. Len(x.base.body.surfaces)
      BY <2>2, SurfacesOf
    <3>2. x.base.body.surfaces = <<>> => Len(x.base.body.surfaces) = 0
      OBVIOUS
    <3> QED
      BY <3>1, <3>2
  <2>4. ~ ReadsBack(x)
    BY <1>9, <2>3 DEF ReadsBack, GradeOf, IdOf
  <2> QED
    BY <2>1, <2>3, <2>4 DEF Refused
<1> QED
  BY <1>8, <1>9

LEMMA BlockIsOver ==
  ASSUME NEW x \in Sources, NEW p \in Nat, AtBlock, doc = ToXmlV1(x), Event = doc[p + 1],
         BlockAt(x, p), p = PreludeEnd(x) + 1 + Offsets(x)[Len(x.base.body.surfaces)]
  PROVE  BlockMoved /\ BlockAt(x, p + 1)'
<1> DEFINE n == Len(x.base.body.surfaces)
           M == PreludeEnd(x)
           at == Offsets(x)
<1>1. Placed(x) /\ x \in ImageV1
  BY PlacedWritten
<1>2. M \in Nat /\ at[n] \in Nat /\ n \in Nat
  BY <1>1, PlacedAre
<1>3. doc[M + 2 + at[n]] = Close("coefficients")
  BY PlacedWritten DEF BlockTable
<1>4. Event = Close("coefficients")
  <2>1. M + 2 + at[n] = p + 1
    BY <1>2
  <2> QED
    BY <1>3, <2>1
<1>5. inCoefficients = TRUE /\ entry = None /\ ReadOf(coefficients, x, n)
  <2>1. n \in 0 .. n
    BY <1>2
  <2> QED
    BY <2>1 DEF BlockAt, BlockState
<1>6. BlockMoved /\ inCoefficients' = FALSE /\ entry' = None /\ coefficients' = coefficients
  BY <1>4, <1>5, BlockCloses
<1>7. BlockState(FALSE, None, coefficients, x, p + 1)
  <2> DEFINE a == at[n]
  <2>1. M \in Nat /\ a \in Nat /\ p = M + 1 + a
    BY <1>2
  <2> HIDE DEF a, M
  <2>2. p + 1 \in Nat /\ p + 1 >= M + 2 + a
    BY <2>1
  <2> QED
    BY <1>1, <1>5, <2>2, PlaceAfter DEF M, a
<1> QED
  BY <1>6, <1>7 DEF BlockAt

LEMMA AfterBlock ==
  ASSUME NEW x \in Sources, NEW p \in Nat, AtBlock, doc = ToXmlV1(x), Event = doc[p + 1],
         BlockAt(x, p), p < Len(doc),
         p >= PreludeEnd(x) + 2 + Offsets(x)[Len(x.base.body.surfaces)]
  PROVE  BlockMoved /\ BlockAt(x, p + 1)'
<1> DEFINE n == Len(x.base.body.surfaces)
           M == PreludeEnd(x)
           at == Offsets(x)
<1>1. Placed(x) /\ x \in ImageV1
  BY PlacedWritten
<1>2. M \in Nat /\ at[n] \in Nat /\ n \in Nat
  BY <1>1, PlacedAre
<1>3. Len(doc) = M + at[n] + 3 /\ doc[M + 3 + at[n]] = Close("session")
  BY PlacedWritten DEF BlockTable
<1>4. M + 3 + at[n] = p + 1
  <2> DEFINE a == at[n]
             l == Len(doc)
  <2>1. /\ M \in Nat /\ a \in Nat /\ p < l /\ p >= M + 2 + a /\ l = M + a + 3
    BY <1>2, <1>3
  <2> HIDE DEF a, M, l
  <2>2. M + 3 + a = p + 1
    BY <2>1
  <2> QED
    BY <2>2 DEF a
<1>5. Event = Close("session")
  BY <1>3, <1>4
<1>6. Passed
  <2>1. Event.kind = "close" /\ Event.el = "session"
    <3>1. Close("session").kind = "close" /\ Close("session").el = "session"
      BY DEF Close
    <3> QED
      BY <1>5, <3>1, Zenon
  <2> QED
    BY <2>1, PassedBy
<1>7. inCoefficients = FALSE /\ entry = None /\ ReadOf(coefficients, x, n)
  BY DEF BlockAt, BlockState
<1>8. BlockState(FALSE, None, coefficients, x, p + 1)
  <2>1. p + 1 \in Nat /\ p + 1 >= M + 2 + at[n]
    BY <1>2
  <2> QED
    BY <1>1, <1>7, <2>1, PlaceAfter
<1> QED
  BY <1>6, <1>7, <1>8 DEF Passed, coefficientVars, BlockAt

LEMMA LineIs ==
  ASSUME NEW M \in Nat, NEW b \in Nat, NEW p \in Nat, p < M + b + 3
  PROVE  \/ p < M \/ p = M
         \/ \E q \in 1 .. b : p = M + q
         \/ p = M + 1 + b \/ p >= M + 2 + b
<1>1. CASE p > M /\ p <= M + b
  <2>1. p - M \in 1 .. b /\ p = M + (p - M)
    BY <1>1
  <2> QED
    BY <2>1
<1> QED
  BY <1>1

\* every line of a v1 document is read, or an entry without a delay path is met
LEMMA BlockLine ==
  ASSUME NEW x \in Sources, NEW p \in Nat, AtBlock, doc = ToXmlV1(x), doc \in Seq(EventOf(x)),
         pos = p + 1, BlockAt(x, p)
  PROVE  (BlockMoved /\ BlockAt(x, p + 1)') \/ Refused(x)
<1> DEFINE n == Len(x.base.body.surfaces)
           M == PreludeEnd(x)
           at == Offsets(x)
           b == at[n]
<1>1. Placed(x) /\ x \in ImageV1 /\ Len(doc) = M + b + 3
  BY PlacedWritten DEF BlockTable
<1>2. M \in Nat /\ b \in Nat /\ n \in Nat
  BY <1>1, PlacedAre
<1>3. p < Len(doc) /\ p + 1 \in 1 .. Len(doc) /\ Event = doc[p + 1]
  BY DEF AtBlock, Event
<1>4. doc[p + 1] \in EventOf(x)
  BY <1>3, ElementOfSeq
<1>5. p < M + b + 3
  BY <1>1, <1>3
<1>6. CASE p < M
  BY <1>3, <1>4, <1>6, BeforeBlock
<1>7. CASE p = M
  BY <1>3, <1>7, BlockBegins
<1>8. ASSUME NEW q \in 1 .. b, p = M + q
      PROVE  (BlockMoved /\ BlockAt(x, p + 1)') \/ Refused(x)
  <2>1. PICK i \in 1 .. n : \E k \in 1 .. PieceLen(x, i) : q = at[i - 1] + k
    BY PlacedWritten DEF BlockTable
  <2>2. PICK k \in 1 .. PieceLen(x, i) : q = at[i - 1] + k
    BY <2>1
  <2>3. p = M + (at[i - 1] + k)
    BY <1>8, <2>2
  <2>4. k \in Nat /\ PieceLen(x, i) \in Nat /\ PieceLen(x, i) >= 1
        /\ (k = 1 \/ k = PieceLen(x, i) \/ (k # 1 /\ k < PieceLen(x, i)))
    <3> DEFINE l == PieceLen(x, i)
    <3>1. k \in 1 .. l /\ l \in Nat
      BY <1>1, <2>2, PlacedAre
    <3> HIDE DEF l
    <3>2. k \in Nat /\ l \in Nat /\ l >= 1 /\ (k = 1 \/ k = l \/ (k # 1 /\ k < l))
      BY <3>1
    <3> QED
      BY <3>2 DEF l
  <2>5. CASE k = 1
    <3>1. p = M + (at[i - 1] + 1)
      BY <2>3, <2>5
    <3> QED
      BY <1>3, <2>4, <3>1, EntryBegins
  <2>6. CASE k = PieceLen(x, i)
    <3>1. p = M + (at[i - 1] + PieceLen(x, i))
      BY <2>3, <2>6
    <3> QED
      BY <1>3, <2>4, <3>1, EntryIsOver
  <2>7. CASE k # 1 /\ k < PieceLen(x, i)
    BY <1>3, <2>3, <2>7, EntryGoesOn
  <2> QED
    BY <2>4, <2>5, <2>6, <2>7
<1>9. CASE p = M + 1 + b
  BY <1>3, <1>9, BlockIsOver
<1>10. CASE p >= M + 2 + b
  BY <1>3, <1>10, AfterBlock
<1> HIDE DEF M, b
<1>11. \/ p < M \/ p = M
       \/ \E q \in 1 .. b : p = M + q
       \/ p = M + 1 + b \/ p >= M + 2 + b
  BY <1>2, <1>5, LineIs
<1> QED
  BY <1>6, <1>7, <1>8, <1>9, <1>10, <1>11

\* a v0 document has no block
Idle == inCoefficients = FALSE /\ entry = None /\ coefficients = <<>>

LEMMA PlainIs ==
  ASSUME NEW x \in Sources
  PROVE  LET w == ToXml(x.base)
         IN  /\ Len(w) = PreludeEnd(x) + 1 /\ w # ToXmlV1(x)
             /\ \A q \in 1 .. Len(w) : w[q].el \notin BlockWords
<1> DEFINE w == ToXml(x.base)
           v == ToXmlV1(x)
           M == PreludeEnd(x)
           n == Len(x.base.body.surfaces)
           b == Offsets(x)[n]
<1>1. x \in ImageV1 /\ DocumentTable(w, x, <<>>) /\ Placed(x) /\ Len(v) = M + b + 3
  BY WrittenIs, PlacedWritten DEF BlockTable
<1>2. M \in Nat /\ b \in Nat
  BY <1>1, PlacedAre
<1>3. Len(w) = M + Len(<<>>) + 1 /\ PreludeTable(w, x) /\ w[Len(w)] = Close("session")
  BY <1>1 DEF DocumentTable
<1> HIDE DEF w, v, M, b
<1>4. Len(w) = M + 1 /\ w # v
  <2>1. Len(w) = M + 1
    BY <1>2, <1>3
  <2> QED
    BY <1>1, <1>2, <2>1
<1>5. ASSUME NEW q \in 1 .. Len(w) PROVE w[q].el \notin BlockWords
  <2>1. CASE q = Len(w)
    <3>1. w[q] = Close("session") /\ Close("session").el = "session"
      BY <1>3, <2>1 DEF Close
    <3>2. w[q].el = "session"
      BY <3>1, Zenon
    <3> QED
      BY <3>2 DEF BlockWords, BlockElements
  <2>2. CASE q # Len(w)
    <3>1. q \in 1 .. M
      BY <1>2, <1>4, <2>2
    <3> QED
      BY <1>1, <1>3, <3>1, PreludeEvents DEF M
  <2> QED
    BY <2>1, <2>2
<1> QED
  BY <1>4, <1>5 DEF w, v, M

LEMMA PlainLine ==
  ASSUME NEW x \in Sources, AtBlock, doc = ToXml(x.base), doc \in Seq(EventOf(x)), Idle
  PROVE  BlockMoved /\ Idle'
<1>1. pos \in 1 .. Len(doc) /\ Event = doc[pos]
  BY DEF AtBlock, Event
<1>2. Event \in EventOf(x)
  BY <1>1, ElementOfSeq
<1>3. Event.el \notin BlockWords
  BY <1>1, PlainIs
<1>4. Passed
  BY <1>2, <1>3, OutsideBlock
<1> QED
  BY <1>4 DEF Passed, coefficientVars, Idle

(***************************************************************************)
(* Validation: the surfaces of the base that was read have the ids that    *)
(* were written.                                                           *)
(***************************************************************************)
SurfaceNamed(s, id) == \E i \in DOMAIN s : s[i].id = id

LEMMA SortedNames ==
  ASSUME NEW s \in Seq(SurfaceEntry), NEW id
  PROVE  SurfaceNamed(SortedByOrder(s), id) <=> SurfaceNamed(s, id)
<1> DEFINE n == Len(s)
           t == SortedByOrder(s)
           c(k) == CHOOSE i \in DOMAIN s : Place(s, i) = k
<1>1. DOMAIN s = 1 .. n /\ n \in Nat
  BY SurfacesOf
<1>2. /\ \A i \in 1 .. n : Place(s, i) \in 1 .. n
      /\ \A i, j \in 1 .. n :
           (s[i].order < s[j].order \/ (s[i].order = s[j].order /\ i < j))
             => Place(s, i) < Place(s, j)
      /\ \A k \in 1 .. n : \E i \in 1 .. n : Place(s, i) = k
  BY PlaceIs
<1>3. \A i \in 1 .. n : s[i].order \in Nat
  BY <1>1, SurfacesOf, SurfaceFields
<1>4. DOMAIN t = 1 .. n /\ \A k \in 1 .. n : t[k] = s[c(k)]
  BY <1>1 DEF SortedByOrder
<1>5. \A k \in 1 .. n : c(k) \in 1 .. n /\ Place(s, c(k)) = k
  BY <1>1, <1>2
<1>6. ASSUME NEW i \in 1 .. n, NEW j \in 1 .. n, Place(s, i) = Place(s, j) PROVE i = j
  <2> DEFINE a == s[i].order
             b == s[j].order
             q == Place(s, i)
             r == Place(s, j)
  <2>1. a \in Nat /\ b \in Nat
    BY <1>3
  <2>2. q \in 1 .. n /\ r \in 1 .. n /\ q = r
    BY <1>2, <1>6
  <2>3. /\ (a < b \/ (a = b /\ i < j)) => q < r
        /\ (b < a \/ (b = a /\ j < i)) => r < q
    BY <1>2
  <2>4. i \in Nat /\ j \in Nat
    BY <1>1
  <2> HIDE DEF a, b, q, r
  <2> QED
    BY <1>1, <2>1, <2>2, <2>3, <2>4
<1>7. \A i \in 1 .. n : Place(s, i) \in 1 .. n /\ c(Place(s, i)) = i
  BY <1>2, <1>5, <1>6
<1> HIDE DEF t, c
<1> QED
  BY <1>1, <1>4, <1>5, <1>7 DEF SurfaceNamed, t

LEMMA RereadNames ==
  ASSUME NEW x \in ImageV1, NEW id
  PROVE  /\ SurfaceNamed(Reread(x.base.body).surfaces, id)
              <=> SurfaceNamed(x.base.body.surfaces, id)
         /\ Len(Reread(x.base.body).surfaces) = Len(x.base.body.surfaces)
<1> DEFINE s == x.base.body.surfaces
           t == TrimmedList(s)
           u == Reread(x.base.body).surfaces
<1>1. x.base.body \in Body /\ s \in Seq(SurfaceEntry)
  BY ImageFields
<1>2. Reread(x.base.body) = [created |-> x.base.body.created, schema |-> x.base.body.schema,
                             surfaces |-> SortedByOrder(t), scroll |-> x.base.body.scroll,
                             focus |-> x.base.body.focus]
  BY <1>1, RereadIs
<1>3. u = SortedByOrder(t)
  BY <1>2
<1>4. /\ t \in Seq(SurfaceEntry) /\ Len(t) = Len(s)
      /\ \A i \in 1 .. Len(s) : t[i] = TrimmedSurface(s[i])
  BY <1>1, TrimmedListIs
<1>5. DOMAIN s = 1 .. Len(s) /\ DOMAIN t = 1 .. Len(s)
      /\ \A i \in 1 .. Len(s) : s[i] \in SurfaceEntry
  BY <1>1, <1>4, SurfacesOf
<1>6. \A i \in 1 .. Len(s) : TrimmedSurface(s[i]).id = s[i].id
  BY <1>5 DEF TrimmedSurface
<1>7. SurfaceNamed(t, id) <=> SurfaceNamed(s, id)
  BY <1>4, <1>5, <1>6 DEF SurfaceNamed
<1> HIDE DEF s, t, u
<1>8. (SurfaceNamed(u, id) <=> SurfaceNamed(t, id)) /\ Len(u) = Len(t)
  BY <1>3, <1>4, SortedNames, SortedIs
<1> QED
  BY <1>4, <1>7, <1>8 DEF s, u

\* the entries that name a surface, when every surface has its entry
LEMMA NamedByEntries ==
  ASSUME NEW x \in ImageV1, NEW cs \in Seq(SurfaceCoefficient),
         Len(cs) = Len(x.base.body.surfaces),
         \A j \in 1 .. Len(x.base.body.surfaces) : cs[j] = EntryOf(x, j), NEW id
  PROVE  References(cs, id) = {j \in 1 .. Len(x.base.body.surfaces) : IdOf(x, j) = id}
<1>1. DOMAIN cs = 1 .. Len(x.base.body.surfaces)
  BY LenProperties
<1>2. \A j \in 1 .. Len(x.base.body.surfaces) : cs[j].surfaceRef = IdOf(x, j)
  <2> SUFFICES ASSUME NEW j \in 1 .. Len(x.base.body.surfaces)
               PROVE  cs[j].surfaceRef = IdOf(x, j)
    OBVIOUS
  <2>1. cs[j] = EntryOf(x, j)
    OBVIOUS
  <2>2. EntryOf(x, j).surfaceRef = IdOf(x, j)
    BY DEF EntryOf
  <2> QED
    BY <2>1, <2>2, Zenon
<1> QED
  BY <1>1, <1>2 DEF References

\* validate accepts what was read of the block exactly when the image reads back
LEMMA ValidWhen ==
  ASSUME NEW x \in ImageV1, NEW cs, ReadOf(cs, x, Len(x.base.body.surfaces)),
         NEW y, y = [base |-> BaseRead(x), coefficients |-> cs]
  PROVE  /\ Validate(y) <=> x.base.body.surfaces = <<>> \/ ReadsBack(x)
         /\ Validate(y) => cs = Entries(x)
<1> DEFINE s == x.base.body.surfaces
           u == Reread(x.base.body).surfaces
           n == Len(s)
<1>1. s \in Seq(SurfaceEntry) /\ DOMAIN s = 1 .. n /\ n \in Nat
  BY ImageFields, SurfacesOf
<1>2. Len(u) = n /\ DOMAIN u = 1 .. n
  <2>1. Reread(x.base.body) \in Body
    BY ImageFields, RereadIs
  <2>2. u \in Seq(SurfaceEntry)
    BY <2>1 DEF Body
  <2>3. Len(u) = n
    BY RereadNames
  <2> QED
    BY <2>2, <2>3, LenProperties
<1>3. \A id : (\E i \in 1 .. n : u[i].id = id) <=> (\E i \in 1 .. n : IdOf(x, i) = id)
  <2>1. \A id : SurfaceNamed(u, id) <=> SurfaceNamed(s, id)
    BY RereadNames
  <2> QED
    BY <1>1, <1>2, <2>1 DEF SurfaceNamed, IdOf
<1>4. y.coefficients = cs /\ y.base.body.surfaces = u
  BY DEF BaseRead
<1>5. Validate(y) <=> /\ Len(cs) = n
                      /\ \A i \in 1 .. n : Cardinality(References(cs, u[i].id)) = 1
  BY <1>2, <1>4 DEF Validate
<1>6. ReadsBack(x) <=>
        /\ \A i, j \in 1 .. n : IdOf(x, i) = IdOf(x, j) => i = j
        /\ \A i \in 1 .. n : Listed(x, i) /\ GradeOf(x, i).timing # <<>>
  BY <1>1 DEF ReadsBack, DistinctSurfaces, IdOf, Listed, GradeOf
<1>7. /\ cs \in Seq(SurfaceCoefficient)
      /\ (\A j \in 1 .. n : Listed(x, j)) =>
           Len(cs) = n /\ \A j \in 1 .. n : cs[j] = EntryOf(x, j)
      /\ (\E j \in 1 .. n : ~ Listed(x, j)) => Len(cs) < n
      /\ \A j \in 1 .. n : Listed(x, j) => GradeOf(x, j).timing # <<>>
  BY DEF ReadOf
<1>8. (\A j \in 1 .. n : Listed(x, j)) =>
        \A id : References(cs, id) = {j \in 1 .. n : IdOf(x, j) = id}
  BY <1>7, NamedByEntries
<1>9. s = <<>> <=> n = 0
  BY <1>1
<1>10. Entries(x) = [j \in 1 .. n |-> EntryOf(x, j)]
  BY <1>1 DEF Entries, EntryOf, IdOf, GradeOf
<1> HIDE DEF s, u, n
<1>11. ASSUME Validate(y) PROVE (s = <<>> \/ ReadsBack(x)) /\ cs = Entries(x)
  <2>1. Len(cs) = n /\ \A i \in 1 .. n : Cardinality(References(cs, u[i].id)) = 1
    BY <1>5, <1>11
  <2>2. \A j \in 1 .. n : Listed(x, j)
    BY <1>1, <1>7, <2>1
  <2>3. \A id : References(cs, id) = {j \in 1 .. n : IdOf(x, j) = id}
    BY <1>8, <2>2
  <2>4. ASSUME NEW i \in 1 .. n, NEW j \in 1 .. n, IdOf(x, i) = IdOf(x, j) PROVE i = j
    <3> DEFINE R == References(cs, IdOf(x, i))
    <3>1. i \in R /\ j \in R
      BY <2>3, <2>4
    <3>2. PICK k \in 1 .. n : u[k].id = IdOf(x, i)
      BY <1>3
    <3>3. Cardinality(R) = 1
      BY <2>1, <3>2
    <3>4. IsFiniteSet(R)
      <4>1. R \subseteq 1 .. n /\ IsFiniteSet(1 .. n)
        BY <1>1, <2>3, FS_Interval
      <4> HIDE DEF R
      <4> QED
        BY <4>1, FS_Subset
    <3> HIDE DEF R
    <3>5. \E e : R = {e}
      BY <3>3, <3>4, FS_Singleton
    <3> QED
      BY <3>1, <3>5
  <2>5. ReadsBack(x)
    BY <1>6, <1>7, <2>2, <2>4
  <2>6. cs = Entries(x)
    <3> DEFINE T == SurfaceCoefficient
    <3>1. cs \in Seq(T) /\ Len(cs) = n /\ \A j \in 1 .. n : cs[j] = EntryOf(x, j)
      BY <1>7, <2>2
    <3> HIDE DEF T
    <3>2. cs = [j \in 1 .. n |-> cs[j]]
      BY <3>1
    <3> QED
      BY <1>10, <3>1, <3>2
  <2> QED
    BY <2>5, <2>6
<1>12. ASSUME s = <<>> \/ ReadsBack(x) PROVE Validate(y)
  <2>1. CASE s = <<>>
    <3>1. n = 0
      BY <1>9, <2>1
    <3>2. \A j \in 1 .. n : Listed(x, j)
      BY <3>1
    <3>3. Len(cs) = n
      BY <1>7, <3>2
    <3> QED
      BY <1>5, <3>1, <3>3
  <2>2. CASE ReadsBack(x)
    <3>1. /\ \A i, j \in 1 .. n : IdOf(x, i) = IdOf(x, j) => i = j
          /\ \A i \in 1 .. n : Listed(x, i)
      BY <1>6, <2>2
    <3>2. /\ Len(cs) = n
          /\ \A id : References(cs, id) = {j \in 1 .. n : IdOf(x, j) = id}
      BY <1>7, <1>8, <3>1
    <3>3. ASSUME NEW i \in 1 .. n PROVE Cardinality(References(cs, u[i].id)) = 1
      <4>1. PICK j \in 1 .. n : IdOf(x, j) = u[i].id
        BY <1>3
      <4>2. References(cs, u[i].id) = {j}
        BY <3>1, <3>2, <4>1
      <4> QED
        BY <4>2, FS_Singleton
    <3> QED
      BY <1>5, <3>2, <3>3
  <2> QED
    BY <1>12, <2>1, <2>2
<1> QED
  BY <1>11, <1>12 DEF s

\* a document without a block, for the v1 reader
LEMMA ValidPlain ==
  ASSUME NEW x \in ImageV1, NEW y, y = [base |-> BaseRead(x), coefficients |-> <<>>]
  PROVE  /\ Validate(y) <=> x.base.body.surfaces = <<>>
         /\ Validate(y) => Entries(x) = <<>>
<1> DEFINE s == x.base.body.surfaces
           n == Len(s)
<1>1. s \in Seq(SurfaceEntry) /\ DOMAIN s = 1 .. n /\ n \in Nat /\ (s = <<>> <=> n = 0)
  BY ImageFields, SurfacesOf
<1>2. y.coefficients = <<>> /\ Len(y.base.body.surfaces) = n
  BY RereadNames DEF BaseRead
<1>3. Validate(y) => n = 0
  BY <1>2 DEF Validate
<1>4. ASSUME n = 0 PROVE Validate(y) /\ Entries(x) = <<>>
  <2>1. s = <<>>
    BY <1>1, <1>4
  <2>2. ReadOf(<<>>, x, n)
    BY <1>4, NoneRead
  <2> QED
    BY <2>1, <2>2, ValidWhen
<1> QED
  BY <1>1, <1>3, <1>4

(***************************************************************************)
(* The second pass reads the block of a v1 document, entry by entry, and   *)
(* its verdict is the one that RoundTrip states.                           *)
(***************************************************************************)
TakenBack(x, d) == x.base.body.surfaces = <<>> \/ (d = ToXmlV1(x) /\ ReadsBack(x))

BlockHere ==
  \A x, p : x = source /\ p = pos - 1 =>
    /\ doc = ToXmlV1(x) => BlockAt(x, p)
    /\ doc = ToXml(x.base) => Idle

Verdict ==
  \A x : x = source =>
    /\ phase = "rejected" => ~ TakenBack(x, doc)
    /\ phase = "accepted" => TakenBack(x, doc) /\ coefficients = Entries(x)

SecondPassInv ==
  /\ phase = "base" => Idle
  /\ doc \in WrittenOf(source) =>
       /\ phase = "coefficients" => BlockHere
       /\ Done /\ reader = "v1" => Verdict

LEMMA SecondPassInit == ASSUME Init PROVE SecondPassInv
BY DEF Init, SecondPassInv, Idle, Done

LEMMA FirstPassKeepsBlock ==
  ASSUME BaseNext
  PROVE  /\ UNCHANGED coefficientVars
         /\ phase' = "coefficients" => pos' = 1
         /\ phase' = "accepted" => reader = "v0"
<1>1. CASE BaseEof \/ BaseFails
  BY <1>1 DEF BaseEof, BaseFails, documentVars
<1>2. CASE ~ (BaseEof \/ BaseFails)
  <2>1. \A kinds : Takes("base", kinds) => phase' = "base"
    BY DEF Takes
  <2> QED
    BY <1>2, <2>1 DEF BaseNext, EndHost, EndSurface, EndText, EndOther, BaseEnd, TakeText,
       StartSession, StartSurface, StartHost, StartText, StartDimensions,
       StartStrip, StartFocus, StartOther, BaseStart
<1> QED
  BY <1>1, <1>2

LEMMA EndOfBlock ==
  ASSUME BlockNext, ~ (pos <= Len(doc)) PROVE BlockEof
<1>1. \A pass, kinds : ~ Takes(pass, kinds)
  BY DEF Takes
<1> QED
  BY <1>1 DEF BlockNext, StartCoefficients, StartEntry, StartDelayPath, StartSecurity,
     StartLinearity, EndCoefficients, EndEntry, Ignore, BlockStart, BlockFails

\* the second pass begins
LEMMA SecondPassBegins ==
  ASSUME ReadInv, FirstPassInv, SecondPassInv, BaseNext PROVE SecondPassInv'
<1>1. /\ phase = "base" /\ UNCHANGED <<source, reader, doc>> /\ UNCHANGED coefficientVars
      /\ phase' = "coefficients" => pos' = 1
      /\ phase' = "accepted" => reader = "v0"
  BY BaseKeeps, BasePhase, FirstPassKeepsBlock
<1>2. Idle /\ Idle'
  BY <1>1 DEF SecondPassInv, Idle, coefficientVars
<1>3. ASSUME doc \in WrittenOf(source) PROVE phase' # "rejected"
  <2>1. Intact(doc, source)
    BY <1>3, WrittenIntact DEF ReadInv, DocumentInv
  <2> QED
    BY <2>1, FirstPassGoesOn
<1>4. ASSUME phase' = "coefficients", NEW x, NEW p, x = source, p = pos' - 1
      PROVE  BlockAt(x, p)'
  <2>1. p = 0 /\ x \in Sources
    BY <1>1, <1>4 DEF ReadInv, DocumentInv
  <2>2. Placed(x) /\ p \in Nat /\ p <= PreludeEnd(x)
    BY <2>1, PlacedWritten, PreludeEndIs
  <2>3. BlockState(FALSE, None, <<>>, x, p)
    BY <2>2, PlaceBefore
  <2> QED
    BY <1>2, <2>3 DEF BlockAt, Idle
<1>5. phase' = "coefficients" => BlockHere'
  <2> SUFFICES ASSUME phase' = "coefficients", NEW x, NEW p, x = source', p = pos' - 1
               PROVE  BlockAt(x, p)' /\ Idle'
    BY DEF BlockHere
  <2> QED
    BY <1>1, <1>2, <1>4
<1> QED
  BY <1>1, <1>2, <1>3, <1>5 DEF SecondPassInv, Done

\* and reads a line
LEMMA SecondPassReads ==
  ASSUME NEW x, NEW p, x = source, p = pos - 1, ReadInv, BlockNext, pos <= Len(doc),
         BlockHere, doc \in WrittenOf(x)
  PROVE  \/ BlockMoved /\ (doc = ToXmlV1(x) => BlockAt(x, p + 1)')
                       /\ (doc = ToXml(x.base) => Idle')
         \/ doc = ToXmlV1(x) /\ Refused(x)
<1>1. x \in Sources /\ doc \in Seq(EventOf(x)) /\ Len(doc) \in Nat /\ pos \in 1 .. Len(doc)
  BY LenProperties DEF ReadInv, DocumentInv
<1>2. AtBlock
  BY <1>1, BlockKeeps DEF AtBlock
<1>3. p \in Nat /\ pos = p + 1
  BY <1>1
<1>4. doc = ToXmlV1(x) => BlockAt(x, p)
  BY DEF BlockHere
<1>5. doc = ToXml(x.base) => Idle
  BY DEF BlockHere
<1>6. ToXml(x.base) # ToXmlV1(x)
  BY <1>1, PlainIs
<1>7. CASE doc = ToXmlV1(x)
  <2>1. (BlockMoved /\ BlockAt(x, p + 1)') \/ Refused(x)
    BY <1>1, <1>2, <1>3, <1>4, <1>7, BlockLine
  <2> QED
    BY <1>3, <1>6, <1>7, <2>1
<1>8. CASE doc = ToXml(x.base)
  <2>1. BlockMoved /\ Idle'
    BY <1>1, <1>2, <1>5, <1>8, PlainLine
  <2> QED
    BY <1>6, <1>8, <2>1
<1> QED
  BY <1>7, <1>8 DEF WrittenOf

\* and comes to its end
LEMMA SecondPassEnds ==
  ASSUME NEW x, x = source, ReadInv, BlockEof, BlockHere, doc \in WrittenOf(x),
         image = BaseRead(x)
  PROVE  /\ Validate(ParsedV1) <=> TakenBack(x, doc)
         /\ Validate(ParsedV1) => coefficients = Entries(x)
<1>1. x \in Sources /\ x \in ImageV1
  BY ParserAssumption DEF ReadInv, DocumentInv
<1>2. ParsedV1 = [base |-> BaseRead(x), coefficients |-> coefficients]
  BY DEF ParsedV1
<1>3. CASE doc = ToXmlV1(x)
  <2> DEFINE n == Len(x.base.body.surfaces)
             p == pos - 1
             M == PreludeEnd(x)
             b == Offsets(x)[n]
  <2>1. BlockState(inCoefficients, entry, coefficients, x, p)
    BY <1>3 DEF BlockHere, BlockAt
  <2>2. Placed(x) /\ Len(doc) = M + b + 3
    BY <1>1, <1>3, PlacedWritten DEF BlockTable
  <2>3. M \in Nat /\ b \in Nat
    BY <2>2, PlacedAre
  <2>4. pos = Len(doc) + 1
    BY DEF BlockEof
  <2> HIDE DEF M, b
  <2>5. p >= M + 2 + b
    BY <2>2, <2>3, <2>4
  <2> HIDE DEF p
  <2>6. ReadOf(coefficients, x, n)
    BY <2>1, <2>5 DEF BlockState, M, b
  <2> QED
    BY <1>1, <1>2, <1>3, <2>6, ValidWhen DEF TakenBack
<1>4. CASE doc = ToXml(x.base)
  <2>1. coefficients = <<>> /\ doc # ToXmlV1(x)
    BY <1>1, <1>4, PlainIs DEF BlockHere, Idle
  <2> QED
    BY <1>1, <1>2, <2>1, ValidPlain DEF TakenBack
<1> QED
  BY <1>3, <1>4 DEF WrittenOf

LEMMA SecondPassGoesOn ==
  ASSUME ReadInv, FirstPassInv, SecondPassInv, BlockNext PROVE SecondPassInv'
<1>1. /\ phase = "coefficients" /\ phase' \in {"coefficients", "accepted", "rejected"}
      /\ UNCHANGED <<source, reader, doc, image>>
  BY BlockKeeps
<1>2. CASE doc \notin WrittenOf(source)
  BY <1>1, <1>2 DEF SecondPassInv
<1>3. CASE doc \in WrittenOf(source) /\ pos <= Len(doc)
  <2>1. ASSUME NEW x, NEW p, x = source, p = pos - 1
        PROVE  \/ BlockMoved /\ (doc = ToXmlV1(x) => BlockAt(x, p + 1)')
                             /\ (doc = ToXml(x.base) => Idle')
               \/ doc = ToXmlV1(x) /\ Refused(x)
    BY <1>1, <1>3, <2>1, SecondPassReads DEF SecondPassInv
  <2>2. ASSUME phase' = "coefficients", NEW x, NEW q, x = source', q = pos' - 1
        PROVE  /\ doc' = ToXmlV1(x) => BlockAt(x, q)'
               /\ doc' = ToXml(x.base) => Idle'
    <3> DEFINE p == q - 1
    <3>1. ~ Refused(x) /\ x = source
      BY <1>1, <2>2 DEF Refused
    <3>2. BlockMoved /\ pos \in Nat
      BY <2>1, <3>1, LenProperties DEF ReadInv, DocumentInv
    <3>3. p = pos - 1 /\ p + 1 = q
      BY <2>2, <3>2 DEF BlockMoved
    <3>4. /\ doc = ToXmlV1(x) => BlockAt(x, p + 1)'
          /\ doc = ToXml(x.base) => Idle'
      BY <2>1, <3>1, <3>3
    <3> QED
      BY <1>1, <3>3, <3>4
  <2>3. ASSUME phase' # "coefficients", NEW x, x = source'
        PROVE  phase' = "rejected" /\ ~ TakenBack(x, doc')
    <3>1. x = source /\ ~ BlockMoved
      BY <1>1, <2>3 DEF BlockMoved
    <3>2. Refused(x)
      BY <2>1, <3>1
    <3> QED
      BY <3>2 DEF Refused, TakenBack
  <2> QED
    BY <1>1, <2>2, <2>3 DEF SecondPassInv, BlockHere, Verdict, Done
<1>4. CASE doc \in WrittenOf(source) /\ ~ (pos <= Len(doc))
  <2>1. BlockEof
    BY <1>4, EndOfBlock
  <2>2. image = BaseRead(source)
    <3>1. Intact(doc, source)
      BY <1>4, WrittenIntact DEF ReadInv, DocumentInv
    <3> QED
      BY <1>1, <3>1 DEF FirstPassInv
  <2>3. ASSUME NEW x, x = source
        PROVE  /\ Validate(ParsedV1) <=> TakenBack(x, doc)
               /\ Validate(ParsedV1) => coefficients = Entries(x)
    BY <1>1, <1>4, <2>1, <2>2, <2>3, SecondPassEnds DEF SecondPassInv
  <2>4. /\ coefficients' = coefficients
        /\ Validate(ParsedV1) => phase' = "accepted"
        /\ ~ Validate(ParsedV1) => phase' = "rejected"
    BY <2>1 DEF BlockEof, coefficientVars
  <2>5. Verdict'
    <3> SUFFICES ASSUME NEW x, x = source'
                 PROVE  /\ phase' = "rejected" => ~ TakenBack(x, doc')
                        /\ phase' = "accepted" =>
                             TakenBack(x, doc') /\ coefficients' = Entries(x)
      BY DEF Verdict
    <3> QED
      BY <1>1, <2>3, <2>4
  <2> QED
    BY <2>4, <2>5 DEF SecondPassInv
<1> QED
  BY <1>2, <1>3, <1>4

LEMMA SecondPassStep ==
  ASSUME ReadInv, FirstPassInv, SecondPassInv, [Next]_vars PROVE SecondPassInv'
<1>1. CASE Returned \/ UNCHANGED vars
  <2>1. UNCHANGED <<source, reader, doc, pos, phase, inCoefficients, entry, coefficients>>
    BY <1>1 DEF Returned, vars, documentVars, coefficientVars
  <2>2. Idle <=> Idle'
    BY <2>1 DEF Idle
  <2>3. ASSUME NEW x, NEW p, BlockAt(x, p) PROVE BlockAt(x, p)'
    BY <2>1, <2>3 DEF BlockAt
  <2>4. BlockHere => BlockHere'
    BY <2>1, <2>2, <2>3 DEF BlockHere
  <2>5. Verdict => Verdict'
    BY <2>1 DEF Verdict
  <2> QED
    BY <2>1, <2>2, <2>4, <2>5 DEF SecondPassInv, Done
<1> QED
  BY <1>1, SecondPassBegins, SecondPassGoesOn DEF Next

LEMMA SecondPassHolds == Spec => []SecondPassInv
BY SecondPassInit, SecondPassStep, ReadInvHolds, FirstPassHolds, PTL DEF Spec

LEMMA ReadsAsWritten ==
  ASSUME ReadInv, FirstPassInv, SecondPassInv PROVE RoundTrip
<1> SUFFICES ASSUME Done, doc \in Written
             PROVE  /\ phase = "accepted" <=>
                         \/ reader = "v0"
                         \/ source.base.body.surfaces = <<>>
                         \/ doc = ToXmlV1(source) /\ ReadsBack(source)
                    /\ phase = "accepted" =>
                         /\ image = [id |-> ComputeId(source.base),
                                     body |-> Reread(source.base.body)]
                         /\ reader = "v1" => coefficients = Entries(source)
  BY DEF RoundTrip
<1>1. doc \in WrittenOf(source) /\ reader \in {"v0", "v1"} /\ phase \in {"accepted", "rejected"}
  BY DEF Written, WrittenOf, ReadInv, DocumentInv, Done
<1>2. Intact(doc, source)
  BY <1>1, WrittenIntact DEF ReadInv, DocumentInv
<1>3. /\ phase = "accepted" => image = BaseRead(source)
      /\ phase = "rejected" => reader = "v1"
  BY <1>2 DEF FirstPassInv
<1>4. reader = "v1" => /\ phase = "rejected" => ~ TakenBack(source, doc)
                       /\ phase = "accepted" =>
                            TakenBack(source, doc) /\ coefficients = Entries(source)
  BY <1>1 DEF SecondPassInv, Verdict
<1> QED
  BY <1>1, <1>3, <1>4 DEF TakenBack, BaseRead

\* Theorem: reading what was written fails exactly where the v1 reader asks for
\* more than the writer does, and otherwise returns the image with its texts
\* trimmed, its surfaces in order and its coefficients in the order in which
\* the surfaces were written (session.rs, to_xml and parse; galois.rs, to_xml,
\* from_xml and validate), for all written images.
THEOREM WrittenIsRead == Spec => []RoundTrip
BY ReadInvHolds, FirstPassHolds, SecondPassHolds, ReadsAsWritten, PTL
=============================================================================
