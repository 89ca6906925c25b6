----------------------------- MODULE ImageProofs -----------------------------
(***************************************************************************)
(* Proofs about what a reader makes of a damaged document, for images of   *)
(* any size.  The events of what is read are traced to those of what was   *)
(* written.  With them, the first part traces the builder of the v0        *)
(* parser, its text and its list: every surface of an image that was read  *)
(* is one surface that was written.  The second traces the entries of the  *)
(* coefficient parser: no image that from_xml accepts lists a surface      *)
(* twice, so that it obeys the laws of alpha and gamma.                    *)
(***************************************************************************)
EXTENDS ParserProofs

(***************************************************************************)
(* Where the events of a document that is read stood in the written one.   *)
(***************************************************************************)
\* c closes what a opens: nothing else ends at c, and what begins between the
\* two ends there
Bracket(w, a, c) ==
  /\ a \in 1 .. Len(w) /\ c \in 1 .. Len(w) /\ a < c /\ w[c].kind = "close"
  /\ \A i \in Starts(w) : i # a => ClosingOf(w, i) # c
  /\ \A i \in Starts(w) : a < i /\ i < c => ClosingOf(w, i) < c

\* one event further, nothing but whole elements and the tags of one element
\* has been lost
NextOrigin(f, w, k) ==
  /\ f[k] < f[k + 1]
  /\ w[f[k] + 1].kind = "text" => f[k + 1] = f[k] + 1
  /\ \A a, c : Bracket(w, a, c) /\ a <= f[k] /\ f[k] < c /\ (\E j \in 1 .. k : f[j] = a)
                 => f[k + 1] <= c

Origin(f, d, w) ==
  /\ f \in [1 .. Len(d) -> 1 .. Len(w)]
  /\ \A k \in 1 .. Len(d) : Weaker(d[k], w[f[k]])
  /\ \A k \in 1 .. Len(d) : k + 1 <= Len(d) => NextOrigin(f, w, k)

\* the damage is beyond the first m events, or among them, or it took the first
Kept(f, d, w, m) ==
  \/ \A k \in 1 .. Len(d) : k <= m => f[k] = k /\ d[k] = w[k]
  \/ \A v \in m + 1 .. Len(w) - 1 : \E k \in 1 .. Len(d) : f[k] = v
  \/ \A k \in 1 .. Len(d) : f[k] # 1

LEMMA WeakerSelf == ASSUME NEW e PROVE Weaker(e, e)
BY DEF Weaker, Perhaps

\* the steps of a map that goes one further each time, or that leaves out what
\* no bracket ends in
LEMMA NextIs ==
  ASSUME NEW f, NEW w, NEW k, NEW n \in Nat, f[k] \in 1 .. n, f[k + 1] = f[k] + 1
  PROVE  NextOrigin(f, w, k)
<1> DEFINE u == f[k]
           v == f[k + 1]
<1>1. u \in Nat /\ v = u + 1
  OBVIOUS
<1> HIDE DEF u, v
<1>2. u < v
  BY <1>1
<1>3. ASSUME NEW a, NEW c, Bracket(w, a, c), u < c PROVE v <= c
  <2>1. c \in Nat
    BY <1>3 DEF Bracket
  <2> QED
    BY <1>1, <1>3, <2>1
<1> QED
  BY <1>1, <1>2, <1>3 DEF NextOrigin, u, v

LEMMA OriginOfPrefix ==
  ASSUME NEW d, NEW w, Len(d) \in Nat, Len(w) \in Nat, Len(d) <= Len(w),
         \A k \in 1 .. Len(d) : Weaker(d[k], w[k])
  PROVE  Origin([k \in 1 .. Len(d) |-> k], d, w)
<1> DEFINE n == Len(d)
           f == [k \in 1 .. n |-> k]
<1>1. f \in [1 .. n -> 1 .. Len(w)] /\ \A k \in 1 .. n : f[k] = k
  OBVIOUS
<1>2. \A k \in 1 .. n : Weaker(d[k], w[f[k]])
  BY <1>1
<1>3. n \in Nat
  OBVIOUS
<1> HIDE DEF n, f
<1>4. ASSUME NEW k \in 1 .. n, k + 1 <= n PROVE NextOrigin(f, w, k)
  <2>1. k + 1 \in 1 .. n /\ k \in Nat
    BY <1>3, <1>4
  <2>2. f[k] \in 1 .. n /\ f[k + 1] = f[k] + 1
    BY <1>1, <2>1
  <2> QED
    BY <1>3, <2>2, NextIs
<1> QED
  BY <1>1, <1>2, <1>4 DEF Origin, n, f

LEMMA OriginWithoutElement ==
  ASSUME NEW S, NEW w \in Documents(S), NEW d, Len(d) \in Nat, NEW i, NEW c,
         LacksElement(d, w, i, c)
  PROVE  \E f : /\ Origin(f, d, w)
                /\ \A k \in 1 .. Len(d) : k < i => f[k] = k /\ d[k] = w[k]
                /\ \A v \in 1 .. Len(w) : v < i \/ v > c => \E k \in 1 .. Len(d) : f[k] = v
                /\ i = 1 => \A k \in 1 .. Len(d) : f[k] # 1
<1> DEFINE n == Len(d)
           l == Len(w)
           f == [k \in 1 .. n |-> IF k < i THEN k ELSE k + (c - i + 1)]
<1>1. /\ c \in i .. l /\ i \in 1 .. l /\ l \in Nat /\ n \in Nat /\ n = l - (c - i + 1)
      /\ c = ClosingOf(w, i) /\ i \in Starts(w) /\ w[i].kind \in {"open", "empty"}
  <2>1. i \in Starts(w) /\ c = ClosingOf(w, i) /\ n = l - (c - i + 1)
    BY DEF LacksElement
  <2>2. c \in i .. l /\ i \in 1 .. l /\ l \in Nat
    BY <2>1, ClosingIs
  <2>3. w[i].kind \in {"open", "empty"}
    BY <2>1 DEF Starts
  <2> QED
    BY <2>1, <2>2, <2>3
<1>2. /\ \A k \in 1 .. i - 1 : d[k] = w[k]
      /\ \A k \in i .. n : d[k] = w[k + (c - i + 1)]
  BY DEF LacksElement
<1>3. /\ \A k \in 1 .. n : k < i => f[k] = k
      /\ \A k \in 1 .. n : k >= i => f[k] = k + (c - i + 1)
  BY <1>1
<1> HIDE DEF n, l, f
<1>4. ASSUME NEW k \in 1 .. n PROVE f[k] \in 1 .. l /\ d[k] = w[f[k]]
  <2>1. CASE k < i
    <3>1. k \in 1 .. i - 1 /\ k \in 1 .. l
      BY <1>1, <2>1
    <3> QED
      BY <1>2, <1>3, <2>1, <3>1
  <2>2. CASE k >= i
    <3>1. k \in i .. n /\ k + (c - i + 1) \in 1 .. l
      BY <1>1, <2>2
    <3> QED
      BY <1>2, <1>3, <2>2, <3>1
  <2> QED
    BY <1>1, <2>1, <2>2
<1>5. f \in [1 .. n -> 1 .. l]
  <2>1. f = [k \in 1 .. n |-> f[k]]
    BY DEF f
  <2> QED
    BY <1>4, <2>1
<1>6. ASSUME NEW k \in 1 .. n, k + 1 <= n PROVE NextOrigin(f, w, k)
  <2>1. k + 1 \in 1 .. n /\ k \in Nat
    BY <1>1, <1>6
  <2>2. CASE k + 1 < i
    <3>1. f[k + 1] = f[k] + 1
      <4>1. k < i
        BY <1>1, <2>1, <2>2
      <4> QED
        BY <1>3, <2>1, <2>2, <4>1
    <3> QED
      BY <1>1, <1>4, <3>1, NextIs
  <2>3. CASE k >= i
    <3>1. k + 1 >= i
      BY <1>1, <2>1, <2>3
    <3>2. f[k] = k + (c - i + 1)
      BY <1>3, <2>3
    <3> DEFINE q == k + 1
    <3>4. q \in 1 .. n /\ q >= i
      BY <2>1, <3>1
    <3> HIDE DEF q
    <3>5. f[q] = q + (c - i + 1)
      BY <1>3, <3>4
    <3>3. f[k + 1] = f[k] + 1
      BY <1>1, <2>1, <3>2, <3>5 DEF q
    <3> QED
      BY <1>1, <1>4, <3>3, NextIs
  <2>4. CASE k + 1 = i
    <3>1. f[k] = i - 1 /\ f[k + 1] = c + 1
      <4>1. k < i /\ k + 1 >= i /\ k = i - 1 /\ (k + 1) + (c - i + 1) = c + 1
        BY <1>1, <2>1, <2>4
      <4> QED
        BY <1>3, <2>1, <4>1
    <3>2. f[k] < f[k + 1] /\ f[k] + 1 = i
      BY <1>1, <3>1
    <3>3. w[f[k] + 1].kind # "text"
      BY <1>1, <3>2
    <3>4. ASSUME NEW a, NEW b, Bracket(w, a, b), a <= f[k], f[k] < b PROVE f[k + 1] <= b
      <4>1. a \in Nat /\ b \in Nat /\ w[b].kind = "close"
        BY <1>1, <3>4 DEF Bracket, l
      <4>2. b # i
        BY <1>1, <4>1
      <4>3. a < i /\ i < b
        BY <1>1, <3>1, <3>4, <4>1, <4>2
      <4>4. c < b
        BY <1>1, <3>4, <4>3 DEF Bracket
      <4> QED
        BY <1>1, <3>1, <4>1, <4>4
    <3> QED
      BY <3>2, <3>3, <3>4 DEF NextOrigin
  <2> QED
    BY <1>1, <2>1, <2>2, <2>3, <2>4
<1>7. Origin(f, d, w)
  BY <1>4, <1>5, <1>6, WeakerSelf DEF Origin, n, l
<1>8. ASSUME NEW k \in 1 .. n, k < i PROVE f[k] = k /\ d[k] = w[k]
  <2>1. k \in 1 .. i - 1
    BY <1>1, <1>8
  <2> QED
    BY <1>2, <1>3, <1>8, <2>1
<1>9. ASSUME NEW v \in 1 .. l, v < i \/ v > c PROVE \E k \in 1 .. n : f[k] = v
  <2>1. CASE v < i
    <3>1. v \in 1 .. n
      BY <1>1, <2>1
    <3>2. f[v] = v
      BY <1>3, <2>1, <3>1
    <3> QED
      BY <3>1, <3>2
  <2>2. CASE v > c
    <3> DEFINE k == v - (c - i + 1)
    <3>2. v \in Int /\ v <= l
      BY <1>1, <1>9
    <3>3. k \in Int /\ k + (c - i + 1) = v
      BY <1>1, <3>2
    <3> HIDE DEF k
    <3>4. k >= i /\ k <= n
      BY <1>1, <2>2, <3>2, <3>3
    <3>1. k \in 1 .. n /\ k >= i /\ k + (c - i + 1) = v
      BY <1>1, <3>3, <3>4
    <3> HIDE DEF k
    <3> QED
      BY <1>3, <3>1
  <2> QED
    BY <1>9, <2>1, <2>2
<1>10. ASSUME i = 1, NEW k \in 1 .. n PROVE f[k] # 1
  <2>1. k >= i /\ k + (c - i + 1) # 1
    BY <1>1, <1>10
  <2> QED
    BY <1>3, <2>1
<1> QED
  BY <1>7, <1>8, <1>9, <1>10 DEF n, l

LEMMA OriginWithoutTags ==
  ASSUME NEW S, NEW w \in Documents(S), NEW d, Len(d) \in Nat, NEW i, NEW c, LacksTags(d, w, i, c)
  PROVE  \E f : /\ Origin(f, d, w)
                /\ \A k \in 1 .. Len(d) : k < i => f[k] = k /\ d[k] = w[k]
                /\ \A v \in 1 .. Len(w) : v # i /\ v # c => \E k \in 1 .. Len(d) : f[k] = v
                /\ i = 1 => \A k \in 1 .. Len(d) : f[k] # 1
<1> DEFINE n == Len(d)
           l == Len(w)
           f == [k \in 1 .. n |-> IF k < i THEN k ELSE IF k <= c - 2 THEN k + 1 ELSE k + 2]
<1>1. /\ c \in i .. l /\ i \in 1 .. l /\ l \in Nat /\ n \in Nat /\ n = l - 2 /\ i < c
      /\ c = ClosingOf(w, i) /\ i \in Starts(w) /\ w[i].kind = "open"
  <2>1. i \in Starts(w) /\ c = ClosingOf(w, i) /\ n = l - 2 /\ w[i].kind = "open"
    BY DEF LacksTags
  <2>2. c \in i .. l /\ i \in 1 .. l /\ l \in Nat /\ i < c
    BY <2>1, ClosingIs
  <2> QED
    BY <2>1, <2>2
<1>0. w[c].kind = "close"
  <2>1. w[c] = Close(w[i].el)
    BY <1>1, ClosingIs
  <2> QED
    BY <2>1 DEF Close
<1>2. /\ \A k \in 1 .. i - 1 : d[k] = w[k]
      /\ \A k \in i .. c - 2 : d[k] = w[k + 1]
      /\ \A k \in c - 1 .. n : d[k] = w[k + 2]
  BY DEF LacksTags
<1>3. /\ \A k \in 1 .. n : k < i => f[k] = k
      /\ \A k \in 1 .. n : k >= i /\ k <= c - 2 => f[k] = k + 1
      /\ \A k \in 1 .. n : k >= c - 1 => f[k] = k + 2
  <2>1. \A k \in 1 .. n : /\ k >= i => ~ (k < i)
                          /\ k >= c - 1 => ~ (k < i) /\ ~ (k <= c - 2)
    BY <1>1
  <2> QED
    BY <2>1
<1> HIDE DEF n, l, f
<1>4. ASSUME NEW k \in 1 .. n PROVE f[k] \in 1 .. l /\ d[k] = w[f[k]] /\ f[k] # i /\ f[k] # c
  <2>1. CASE k < i
    <3>1. k \in 1 .. i - 1 /\ k \in 1 .. l /\ k # i /\ k # c
      BY <1>1, <2>1
    <3> QED
      BY <1>2, <1>3, <2>1, <3>1
  <2>2. CASE k >= i /\ k <= c - 2
    <3>1. k \in i .. c - 2 /\ k + 1 \in 1 .. l /\ k + 1 # i /\ k + 1 # c
      BY <1>1, <2>2
    <3> QED
      BY <1>2, <1>3, <2>2, <3>1
  <2>3. CASE k >= c - 1
    <3>1. k \in c - 1 .. n /\ k + 2 \in 1 .. l /\ k + 2 # i /\ k + 2 # c
      BY <1>1, <2>3
    <3> QED
      BY <1>2, <1>3, <2>3, <3>1
  <2> QED
    BY <1>1, <2>1, <2>2, <2>3
<1>5. f \in [1 .. n -> 1 .. l]
  <2>1. f = [k \in 1 .. n |-> f[k]]
    BY DEF f
  <2> QED
    BY <1>4, <2>1
<1>6. ASSUME NEW k \in 1 .. n, k + 1 <= n PROVE NextOrigin(f, w, k)
  <2>1. k + 1 \in 1 .. n /\ k \in Nat
    BY <1>1, <1>6
  <2>2. ASSUME f[k] + 1 # f[k + 1]
        PROVE  \/ f[k] + 1 = i
               \/ f[k] + 1 = c /\ f[k + 1] = c + 1
    <3>1. CASE k + 1 < i
      <4>1. k < i
        BY <1>1, <2>1, <3>1
      <4> QED
        BY <1>3, <2>1, <2>2, <3>1, <4>1
    <3>2. CASE k + 1 = i
      <4>1. k < i
        BY <1>1, <2>1, <3>2
      <4>2. f[k] = k
        BY <1>3, <4>1
      <4> QED
        BY <3>2, <4>2
    <3>3. CASE k >= i /\ k + 1 <= c - 2
      <4>1. k <= c - 2 /\ k + 1 >= i
        BY <1>1, <2>1, <3>3
      <4>2. f[k] = k + 1 /\ f[k + 1] = (k + 1) + 1
        BY <1>3, <2>1, <3>3, <4>1
      <4> QED
        BY <2>2, <4>2
    <3>4. CASE k >= i /\ k = c - 2
      <4>1. k <= c - 2 /\ k + 1 >= c - 1 /\ k + 2 = c /\ (k + 1) + 2 = c + 1
        BY <1>1, <2>1, <3>4
      <4>2. f[k] = k + 1 /\ f[k + 1] = (k + 1) + 2
        BY <1>3, <2>1, <3>4, <4>1
      <4>3. (k + 1) + 1 = c
        BY <2>1, <4>1
      <4> QED
        BY <4>1, <4>2, <4>3
    <3>5. CASE k >= c - 1
      <4>1. k + 1 >= c - 1
        BY <1>1, <2>1, <3>5
      <4>2. f[k] = k + 2 /\ f[k + 1] = (k + 1) + 2
        BY <1>3, <2>1, <3>5, <4>1
      <4>3. (k + 2) + 1 = (k + 1) + 2
        BY <2>1
      <4> QED
        BY <2>2, <4>2, <4>3
    <3> QED
      BY <1>1, <2>1, <3>1, <3>2, <3>3, <3>4, <3>5
  <2>3. f[k] < f[k + 1]
    <3>1. f[k] \in {k, k + 1, k + 2} /\ f[k + 1] \in {k + 1, k + 2, k + 3}
      <4>1. /\ k < i \/ (k >= i /\ k <= c - 2) \/ k >= c - 1
            /\ k + 1 < i \/ (k + 1 >= i /\ k + 1 <= c - 2) \/ k + 1 >= c - 1
            /\ (k + 1) + 1 = k + 2 /\ (k + 1) + 2 = k + 3
        BY <1>1, <2>1
      <4> QED
        BY <1>3, <2>1, <4>1
    <3>2. CASE f[k] + 1 = f[k + 1]
      BY <2>1, <3>1, <3>2
    <3>3. CASE f[k] + 1 = c /\ f[k + 1] = c + 1
      BY <1>1, <2>1, <3>1, <3>3
    <3>4. CASE f[k] + 1 = i /\ f[k] + 1 # f[k + 1]
      <4>1. f[k + 1] \in 1 .. l /\ f[k + 1] # i /\ k < i
        BY <1>1, <1>4, <2>1, <3>1, <3>4
      <4>2. f[k] = k /\ f[k + 1] >= k + 1
        BY <1>3, <2>1, <3>1, <4>1
      <4> QED
        BY <2>1, <4>2, <4>1
    <3> QED
      BY <2>2, <3>2, <3>3, <3>4
  <2>4. CASE f[k] + 1 = f[k + 1]
    BY <1>1, <1>4, <2>4, NextIs
  <2>5. CASE f[k] + 1 # f[k + 1]
    <3> DEFINE u == f[k]
               v == f[k + 1]
    <3>1. u \in Nat /\ v \in Nat /\ u < v /\ (u + 1 = i \/ (u + 1 = c /\ v = c + 1))
      BY <1>1, <1>4, <2>1, <2>2, <2>3, <2>5
    <3>2. w[u + 1].kind # "text"
      BY <1>0, <1>1, <3>1
    <3>4. ASSUME NEW a, NEW b, Bracket(w, a, b), a <= u, u < b, NEW j \in 1 .. k, f[j] = a
          PROVE  v <= b
      <4>1. a \in Nat /\ b \in Nat /\ w[b].kind = "close" /\ a < b
        BY <1>1, <3>4 DEF Bracket, l
      <4>2. j \in 1 .. n
        BY <1>1, <2>1, <3>4
      <4>3. a # i
        BY <1>4, <3>4, <4>2
      <4>4. b # c
        BY <1>1, <3>4, <4>3 DEF Bracket
      <4>5. b # i
        BY <1>1, <4>1
      <4>6. CASE u + 1 = c /\ v = c + 1
        BY <1>1, <3>1, <3>4, <4>1, <4>4, <4>6
      <4>7. CASE u + 1 = i
        <5>1. a < i /\ i < b
          BY <1>1, <3>1, <3>4, <4>1, <4>5, <4>7
        <5>2. c < b
          BY <1>1, <3>4, <5>1 DEF Bracket
        <5>3. v <= c + 1
          <6>1. k < i /\ k = i - 1
            <7>1. f[k] = i - 1
              BY <1>1, <3>1, <4>7
            <7>2. ~ (k >= i /\ k <= c - 2) /\ ~ (k >= c - 1)
              <8>1. k >= i /\ k <= c - 2 => k + 1 # i - 1
                BY <1>1, <2>1
              <8>2. k >= c - 1 => k + 2 # i - 1
                BY <1>1, <2>1
              <8> QED
                BY <1>3, <7>1, <8>1, <8>2
            <7>3. k < i
              BY <1>1, <2>1, <7>2
            <7> QED
              BY <1>3, <7>1, <7>3
          <6>2. k + 1 <= c - 2 => v = (k + 1) + 1
            <7>1. k + 1 >= i
              BY <1>1, <2>1, <6>1
            <7> QED
              BY <1>3, <2>1, <7>1
          <6>3. k + 1 >= c - 1 => v = (k + 1) + 2
            BY <1>3, <2>1
          <6>4. k + 1 >= c - 1 => k + 1 = c - 1
            BY <1>1, <2>1, <6>1
          <6>5. k + 1 <= c - 2 \/ k + 1 >= c - 1
            BY <1>1, <2>1
          <6> HIDE DEF v
          <6> QED
            BY <1>1, <2>1, <6>1, <6>2, <6>3, <6>4, <6>5
        <5> QED
          BY <1>1, <3>1, <4>1, <5>2, <5>3
      <4> QED
        BY <3>1, <4>6, <4>7
    <3> QED
      BY <2>5, <3>1, <3>2, <3>4 DEF NextOrigin
  <2> QED
    BY <2>4, <2>5
<1>7. Origin(f, d, w)
  BY <1>4, <1>5, <1>6, WeakerSelf DEF Origin, n, l
<1>8. ASSUME NEW k \in 1 .. n, k < i PROVE f[k] = k /\ d[k] = w[k]
  <2>1. k \in 1 .. i - 1
    BY <1>1, <1>8
  <2> QED
    BY <1>2, <1>3, <1>8, <2>1
<1>9. ASSUME NEW v \in 1 .. l, v # i, v # c PROVE \E k \in 1 .. n : f[k] = v
  <2>1. CASE v < i
    <3>1. v \in 1 .. n
      BY <1>1, <2>1
    <3> QED
      BY <1>3, <2>1, <3>1
  <2>2. CASE v > i /\ v < c
    <3> DEFINE k == v - 1
    <3>1. k \in 1 .. n /\ k >= i /\ k <= c - 2 /\ k + 1 = v
      BY <1>1, <2>2
    <3> HIDE DEF k
    <3> QED
      BY <1>3, <3>1
  <2>3. CASE v > c
    <3> DEFINE k == v - 2
    <3>1. k \in 1 .. n /\ k >= c - 1 /\ k + 2 = v
      BY <1>1, <2>3
    <3> HIDE DEF k
    <3> QED
      BY <1>3, <3>1
  <2> QED
    BY <1>1, <1>9, <2>1, <2>2, <2>3
<1>10. ASSUME i = 1, NEW k \in 1 .. n PROVE f[k] # 1
  BY <1>4, <1>10
<1> QED
  BY <1>7, <1>8, <1>9, <1>10 DEF n, l

LEMMA OriginExists ==
  ASSUME NEW S, NEW w \in Documents(S), NEW d \in Seq(S), ComesFrom(d, w), NEW m \in Nat,
         \A i \in Starts(w) : i <= m /\ i # 1 => ClosingOf(w, i) <= m
  PROVE  \E f : Origin(f, d, w) /\ Kept(f, d, w, m)
<1>1. Len(w) \in Nat /\ Len(d) \in Nat
  BY LenProperties DEF Documents
<1>2. ASSUME Len(d) <= Len(w), \A k \in 1 .. Len(d) : Weaker(d[k], w[k])
      PROVE  Origin([k \in 1 .. Len(d) |-> k], d, w)
  BY <1>1, <1>2, OriginOfPrefix
<1> DEFINE e == [k \in 1 .. Len(d) |-> k]
<1>3. \A k \in 1 .. Len(d) : e[k] = k
  OBVIOUS
<1>4. CASE IsCut(d, w)
  <2>1. Len(d) <= Len(w) /\ \A k \in 1 .. Len(d) : d[k] = w[k]
    BY <1>1, <1>4 DEF IsCut
  <2>2. Origin(e, d, w)
    BY <1>2, <2>1, WeakerSelf
  <2>3. Kept(e, d, w, m)
    BY <1>3, <2>1 DEF Kept
  <2> QED
    BY <2>2, <2>3
<1>5. CASE d = w \/ \E i : Differs(d, w, i)
  <2>1. Len(d) = Len(w) /\ \A k \in 1 .. Len(d) : Weaker(d[k], w[k])
    BY <1>5, WeakerSelf DEF Differs
  <2>2. Origin(e, d, w)
    BY <1>1, <1>2, <2>1
  <2>3. ASSUME NEW v \in m + 1 .. Len(w) - 1 PROVE v \in 1 .. Len(d)
    BY <1>1, <2>1
  <2>4. Kept(e, d, w, m)
    BY <1>3, <2>3 DEF Kept
  <2> QED
    BY <2>2, <2>4
<1>6. ASSUME NEW f, NEW i \in Starts(w), NEW c, c = ClosingOf(w, i),
             \A k \in 1 .. Len(d) : k < i => f[k] = k /\ d[k] = w[k],
             \A v \in 1 .. Len(w) : v < i \/ v > c => \E k \in 1 .. Len(d) : f[k] = v,
             i = 1 => \A k \in 1 .. Len(d) : f[k] # 1
      PROVE  Kept(f, d, w, m)
  <2>1. c \in i .. Len(w) /\ i \in 1 .. Len(w)
    BY <1>6, ClosingIs
  <2>2. CASE i = 1
    BY <1>6, <2>2 DEF Kept
  <2>3. CASE i > m
    <3>1. \A k \in 1 .. Len(d) : k <= m => k < i
      BY <1>1, <2>1, <2>3
    <3> QED
      BY <1>6, <3>1 DEF Kept
  <2>4. CASE i <= m /\ i # 1
    <3>1. c <= m
      BY <1>6, <2>4
    <3>2. \A v \in m + 1 .. Len(w) - 1 : v \in 1 .. Len(w) /\ v > c
      BY <1>1, <2>1, <3>1
    <3> QED
      BY <1>6, <3>2 DEF Kept
  <2> QED
    BY <1>1, <2>1, <2>2, <2>3, <2>4
<1>7. ASSUME NEW i, NEW c, LacksElement(d, w, i, c)
      PROVE  \E f : Origin(f, d, w) /\ Kept(f, d, w, m)
  <2>1. PICK f : /\ Origin(f, d, w)
                 /\ \A k \in 1 .. Len(d) : k < i => f[k] = k /\ d[k] = w[k]
                 /\ \A v \in 1 .. Len(w) : v < i \/ v > c => \E k \in 1 .. Len(d) : f[k] = v
                 /\ i = 1 => \A k \in 1 .. Len(d) : f[k] # 1
    BY <1>1, <1>7, OriginWithoutElement
  <2>2. i \in Starts(w) /\ c = ClosingOf(w, i)
    BY <1>7 DEF LacksElement
  <2>3. Kept(f, d, w, m)
    BY <1>6, <2>1, <2>2
  <2> QED
    BY <2>1, <2>3
<1>8. ASSUME NEW i, NEW c, LacksTags(d, w, i, c)
      PROVE  \E f : Origin(f, d, w) /\ Kept(f, d, w, m)
  <2>1. PICK f : /\ Origin(f, d, w)
                 /\ \A k \in 1 .. Len(d) : k < i => f[k] = k /\ d[k] = w[k]
                 /\ \A v \in 1 .. Len(w) : v # i /\ v # c => \E k \in 1 .. Len(d) : f[k] = v
                 /\ i = 1 => \A k \in 1 .. Len(d) : f[k] # 1
    BY <1>1, <1>8, OriginWithoutTags
  <2>2. i \in Starts(w) /\ c = ClosingOf(w, i)
    BY <1>8 DEF LacksTags
  <2>3. \A v \in 1 .. Len(w) : v < i \/ v > c => v # i /\ v # c
    <3>1. c \in Nat /\ i \in Nat /\ i <= c
      BY <1>1, <2>2, ClosingIs
    <3> QED
      BY <3>1
  <2>4. Kept(f, d, w, m)
    BY <1>6, <2>1, <2>2, <2>3
  <2> QED
    BY <2>1, <2>4
<1> QED
  BY <1>4, <1>5, <1>7, <1>8 DEF ComesFrom

(***************************************************************************)
(* The lines of a written document, and the brackets among them.           *)
(***************************************************************************)
Count(x) == Len(x.base.body.surfaces)
SurfaceOf(x, i) == x.base.body.surfaces[i]

\* the k-th event of the i-th surface
LineAt(i, k) == 2 + 20 * (i - 1) + k

\* what lies between two lines of a surface is a line of it
LEMMA LineBetween ==
  ASSUME NEW i \in Nat, NEW k \in 1 .. 20, NEW m \in 1 .. 20, NEW v \in Nat,
         LineAt(i, k) < v, v < LineAt(i, m)
  PROVE  \E l \in 1 .. 20 : k < l /\ l < m /\ v = LineAt(i, l)
<1> DEFINE l == v - LineAt(i, 0)
<1>1. l \in 1 .. 20 /\ k < l /\ l < m /\ v = LineAt(i, l)
  BY DEF LineAt
<1> QED
  BY <1>1

LineTable(w, i, s) ==
  /\ w[LineAt(i, 1)] = Open("surface", SurfaceAttrs(s))
  /\ w[LineAt(i, 2)] = Open("host", <<>>)
  /\ w[LineAt(i, 15)] = Close("host")
  /\ w[LineAt(i, 19)] = Empty("dimensions", SizeAttrs(s))
  /\ w[LineAt(i, 20)] = Close("surface")

TextTable(w, i, s, el) ==
  /\ w[LineAt(i, TextStart[el])] = Open(el, <<>>)
  /\ w[LineAt(i, TextStart[el] + 1)] = TextEvent(s.text[el])
  /\ w[LineAt(i, TextStart[el] + 2)] = Close(el)

LEMMA TextStartIs ==
  ASSUME NEW el \in TextElements
  PROVE  /\ TextStart[el] \in 3 .. 16
         /\ {TextStart[el], TextStart[el] + 1, TextStart[el] + 2} \subseteq 1 .. 20
BY TextStarts

LEMMA LinesAre ==
  ASSUME NEW x \in ImageV1, NEW w, PreludeTable(w, x), NEW i \in 1 .. Count(x)
  PROVE  /\ LineTable(w, i, SurfaceOf(x, i))
         /\ \A el \in TextElements : TextTable(w, i, SurfaceOf(x, i), el)
<1> DEFINE s == SurfaceOf(x, i)
           e == WriteSurface(s)
<1>1. \A k \in 1 .. 20 : w[LineAt(i, k)] = e[k]
  BY DEF PreludeTable, LineAt, Count, SurfaceOf
<1>2. s \in SurfaceEntry
  BY ImageFields, SurfacesOf DEF SurfaceOf, Count
<1>3. SurfaceTable(e, s)
  BY <1>2, SurfaceIs, Zenon
<1> HIDE DEF e, s
<1>4. LineTable(w, i, s)
  BY <1>1, <1>3 DEF SurfaceTable, LineTable
<1>5. ASSUME NEW el \in TextElements PROVE TextTable(w, i, s, el)
  <2>1. TextAt(e, s, el)
    BY <1>3 DEF SurfaceTable
  <2>2. TextStart[el] \in 1 .. 20 /\ TextStart[el] + 1 \in 1 .. 20 /\ TextStart[el] + 2 \in 1 .. 20
    BY TextStartIs
  <2> QED
    BY <1>1, <2>1, <2>2 DEF TextAt, TextTable
<1> QED
  BY <1>4, <1>5 DEF s

LEMMA OpenTag ==
  ASSUME NEW e, NEW el, NEW a, e = Open(el, a)
  PROVE  e.kind = "open" /\ e.el = el /\ e.attrs = a
BY DEF Open

LEMMA EmptyTag ==
  ASSUME NEW e, NEW el, NEW a, e = Empty(el, a)
  PROVE  e.kind = "empty" /\ e.el = el /\ e.attrs = a
BY DEF Empty

LEMMA CloseTag == ASSUME NEW e, NEW el, e = Close(el) PROVE e.kind = "close" /\ e.el = el
BY DEF Close

LEMMA TextTag ==
  ASSUME NEW e, NEW t, e = TextEvent(t) PROVE e.kind = "text" /\ e.el = "" /\ e.text = t
BY DEF TextEvent

\* where an event may stand
NoLine(e) == e.kind # "text" /\ e.el \notin {"surface", "dimensions", "host"} \cup TextElements

AtLine(x, v) ==
  \E i \in 1 .. Count(x) :
     \/ v \in {LineAt(i, 1), LineAt(i, 2), LineAt(i, 15), LineAt(i, 19), LineAt(i, 20)}
     \/ \E el \in TextElements :
          v \in {LineAt(i, TextStart[el]), LineAt(i, TextStart[el] + 1), LineAt(i, TextStart[el] + 2)}

LEMMA TailHasNoLine == ASSUME NEW x, NEW e \in TailEvents(x) PROVE NoLine(e)
BY TextStarts DEF TailEvents, TailElements, NoLine

LEMMA EdgeHasNoLine ==
  ASSUME NEW attrs
  PROVE  /\ NoLine(Open("session", attrs)) /\ NoLine(Open("surfaces", <<>>))
         /\ NoLine(Close("surfaces")) /\ NoLine(Open("layout", <<>>))
         /\ NoLine(Empty("strip", attrs)) /\ NoLine(Empty("focus", attrs))
         /\ NoLine(Close("layout"))
<1>1. ASSUME NEW e, e.kind # "text", e.el \in {"session", "surfaces", "layout", "strip", "focus"}
      PROVE  NoLine(e)
  BY <1>1, TextStarts DEF NoLine
<1>2. ASSUME NEW el \in {"session", "surfaces", "layout", "strip", "focus"}, NEW a
      PROVE  NoLine(Open(el, a)) /\ NoLine(Empty(el, a)) /\ NoLine(Close(el))
  <2>1. /\ Open(el, a).kind = "open" /\ Open(el, a).el = el
        /\ Empty(el, a).kind = "empty" /\ Empty(el, a).el = el
        /\ Close(el).kind = "close" /\ Close(el).el = el
    BY DEF Open, Empty, Close
  <2> QED
    BY <1>1, <2>1
<1> QED
  BY <1>2

LEMMA LineCover ==
  ASSUME NEW x \in ImageV1, NEW w, Intact(w, x), NEW v \in 1 .. Len(w), Len(w) \in Nat
  PROVE  AtLine(x, v) \/ NoLine(w[v])
<1>1. PreludeTable(w, x) /\ PreludeEnd(x) \in Nat
  BY PreludeEndIs DEF Intact
<1>2. CASE v > PreludeEnd(x)
  <2>1. v \in PreludeEnd(x) + 1 .. Len(w)
    BY <1>1, <1>2
  <2> QED
    BY <2>1, TailHasNoLine DEF Intact
<1>3. CASE v <= PreludeEnd(x)
  <2>1. v \in 1 .. PreludeEnd(x)
    BY <1>1, <1>3
  <2>2. CASE v \in {1, 2, SurfaceLines(x) + 3, SurfaceLines(x) + 4, SurfaceLines(x) + 5,
                    PreludeEnd(x)}
    BY <1>1, <2>2, EdgeHasNoLine DEF PreludeTable
  <2>3. CASE x.base.body.focus # None /\ v = SurfaceLines(x) + 6
    BY <1>1, <2>3, EdgeHasNoLine DEF PreludeTable
  <2>4. ASSUME NEW i \in 1 .. Len(x.base.body.surfaces), NEW k \in 1 .. 20,
               v = 2 + 20 * (i - 1) + k
        PROVE  AtLine(x, v)
    <3>1. v = LineAt(i, k) /\ i \in 1 .. Count(x)
      BY <2>4 DEF LineAt, Count
    <3> QED
      BY <3>1, SurfaceCover DEF AtLine
  <2> QED
    BY <2>1, <2>2, <2>3, <2>4, PreludeCover
<1> QED
  BY <1>1, <1>2, <1>3

\* a written document of x
Writing(x, w) ==
  x \in ImageV1 /\ w \in Documents(EventOf(x)) /\ Intact(w, x) /\ Len(w) \in Nat

LEMMA WritingIs ==
  ASSUME NEW x \in Sources, NEW w \in WrittenOf(x) PROVE Writing(x, w)
<1>1. w \in Documents(EventOf(x))
  BY WrittenIs
<1>2. Len(w) \in Nat
  BY <1>1, LenProperties DEF Documents
<1> QED
  BY <1>1, <1>2, WrittenIntact, ParserAssumption DEF Writing

(***************************************************************************)
(* What kind of event stands where.                                        *)
(***************************************************************************)
LEMMA WhereIs ==
  ASSUME NEW x, NEW w, Writing(x, w), NEW v \in 1 .. Len(w)
  PROVE  /\ w[v].kind = "text" =>
              \E i \in 1 .. Count(x) : \E el \in TextElements : v = LineAt(i, TextStart[el] + 1)
         /\ w[v].el = "surface" /\ w[v].kind # "close" => \E i \in 1 .. Count(x) : v = LineAt(i, 1)
         /\ w[v].el = "surface" /\ w[v].kind = "close" => \E i \in 1 .. Count(x) : v = LineAt(i, 20)
         /\ w[v].el = "host" /\ w[v].kind # "close" => \E i \in 1 .. Count(x) : v = LineAt(i, 2)
         /\ w[v].el = "dimensions" => \E i \in 1 .. Count(x) : v = LineAt(i, 19)
         /\ \A el \in TextElements :
              /\ w[v].el = el /\ w[v].kind # "close" =>
                   \E i \in 1 .. Count(x) : v = LineAt(i, TextStart[el])
              /\ w[v].el = el /\ w[v].kind = "close" =>
                   \E i \in 1 .. Count(x) : v = LineAt(i, TextStart[el] + 2)
<1>1. AtLine(x, v) \/ NoLine(w[v])
  BY LineCover DEF Writing
<1>2. CASE NoLine(w[v])
  BY <1>2 DEF NoLine
<1>3. ASSUME NEW i \in 1 .. Count(x)
      PROVE  /\ w[LineAt(i, 1)].el = "surface" /\ w[LineAt(i, 1)].kind = "open"
             /\ w[LineAt(i, 2)].el = "host" /\ w[LineAt(i, 2)].kind = "open"
             /\ w[LineAt(i, 15)].el = "host" /\ w[LineAt(i, 15)].kind = "close"
             /\ w[LineAt(i, 19)].el = "dimensions" /\ w[LineAt(i, 19)].kind = "empty"
             /\ w[LineAt(i, 20)].el = "surface" /\ w[LineAt(i, 20)].kind = "close"
  <2>1. LineTable(w, i, SurfaceOf(x, i))
    BY LinesAre DEF Writing, Intact
  <2>2. w[LineAt(i, 1)].el = "surface" /\ w[LineAt(i, 1)].kind = "open"
    BY <2>1, OpenTag DEF LineTable
  <2>3. w[LineAt(i, 2)].el = "host" /\ w[LineAt(i, 2)].kind = "open"
    BY <2>1, OpenTag DEF LineTable
  <2>4. w[LineAt(i, 15)].el = "host" /\ w[LineAt(i, 15)].kind = "close"
    BY <2>1, CloseTag DEF LineTable
  <2>5. w[LineAt(i, 19)].el = "dimensions" /\ w[LineAt(i, 19)].kind = "empty"
    BY <2>1, EmptyTag DEF LineTable
  <2>6. w[LineAt(i, 20)].el = "surface" /\ w[LineAt(i, 20)].kind = "close"
    BY <2>1, CloseTag DEF LineTable
  <2> QED
    BY <2>2, <2>3, <2>4, <2>5, <2>6
<1>5. \A el \in TextElements : el \notin {"surface", "host", "dimensions", ""}
  BY TextStarts
<1>6. CASE AtLine(x, v)
  <2>1. PICK i \in 1 .. Count(x) :
          \/ v \in {LineAt(i, 1), LineAt(i, 2), LineAt(i, 15), LineAt(i, 19), LineAt(i, 20)}
          \/ \E el \in TextElements :
               v \in {LineAt(i, TextStart[el]), LineAt(i, TextStart[el] + 1),
                      LineAt(i, TextStart[el] + 2)}
    BY <1>6 DEF AtLine
  <2>2. CASE v \in {LineAt(i, 1), LineAt(i, 2), LineAt(i, 15), LineAt(i, 19), LineAt(i, 20)}
    <3>1. \/ v = LineAt(i, 1) /\ w[v].el = "surface" /\ w[v].kind = "open"
          \/ v = LineAt(i, 2) /\ w[v].el = "host" /\ w[v].kind = "open"
          \/ v = LineAt(i, 15) /\ w[v].el = "host" /\ w[v].kind = "close"
          \/ v = LineAt(i, 19) /\ w[v].el = "dimensions" /\ w[v].kind = "empty"
          \/ v = LineAt(i, 20) /\ w[v].el = "surface" /\ w[v].kind = "close"
      <4>1. CASE v = LineAt(i, 1)
        BY <1>3, <4>1, Zenon
      <4>2. CASE v = LineAt(i, 2)
        BY <1>3, <4>2, Zenon
      <4>3. CASE v = LineAt(i, 15)
        BY <1>3, <4>3, Zenon
      <4>4. CASE v = LineAt(i, 19)
        BY <1>3, <4>4, Zenon
      <4>5. CASE v = LineAt(i, 20)
        BY <1>3, <4>5, Zenon
      <4> QED
        BY <2>2, <4>1, <4>2, <4>3, <4>4, <4>5
    <3> DEFINE e == w[v]
    <3> HIDE DEF e
    <3>2. \/ v = LineAt(i, 1) /\ e.el = "surface" /\ e.kind = "open"
          \/ v = LineAt(i, 2) /\ e.el = "host" /\ e.kind = "open"
          \/ v = LineAt(i, 15) /\ e.el = "host" /\ e.kind = "close"
          \/ v = LineAt(i, 19) /\ e.el = "dimensions" /\ e.kind = "empty"
          \/ v = LineAt(i, 20) /\ e.el = "surface" /\ e.kind = "close"
      BY <3>1 DEF e
    <3>3. /\ e.kind # "text" /\ e.el \notin TextElements
          /\ e.el = "surface" /\ e.kind # "close" => v = LineAt(i, 1)
          /\ e.el = "surface" /\ e.kind = "close" => v = LineAt(i, 20)
          /\ e.el = "host" /\ e.kind # "close" => v = LineAt(i, 2)
          /\ e.el = "dimensions" => v = LineAt(i, 19)
      BY <1>5, <3>2
    <3> QED
      BY <3>3 DEF e
  <2>3. ASSUME NEW el \in TextElements,
               v \in {LineAt(i, TextStart[el]), LineAt(i, TextStart[el] + 1),
                      LineAt(i, TextStart[el] + 2)}
        PROVE  /\ w[v].kind = "text" => v = LineAt(i, TextStart[el] + 1)
               /\ w[v].el \in {el, ""} /\ (w[v].el = "" => w[v].kind = "text")
               /\ w[v].el = el /\ w[v].kind # "close" => v = LineAt(i, TextStart[el])
               /\ w[v].el = el /\ w[v].kind = "close" => v = LineAt(i, TextStart[el] + 2)
    <3>1. \/ v = LineAt(i, TextStart[el]) /\ w[v].el = el /\ w[v].kind = "open"
          \/ v = LineAt(i, TextStart[el] + 1) /\ w[v].el = "" /\ w[v].kind = "text"
          \/ v = LineAt(i, TextStart[el] + 2) /\ w[v].el = el /\ w[v].kind = "close"
      <4> DEFINE a == LineAt(i, TextStart[el])
                 b == LineAt(i, TextStart[el] + 1)
                 c == LineAt(i, TextStart[el] + 2)
      <4>1. TextTable(w, i, SurfaceOf(x, i), el)
        BY LinesAre DEF Writing, Intact
      <4>4. w[a].el = el /\ w[a].kind = "open"
        BY <4>1, OpenTag DEF TextTable
      <4>5. w[b].el = "" /\ w[b].kind = "text"
        BY <4>1, TextTag DEF TextTable
      <4>6. w[c].el = el /\ w[c].kind = "close"
        BY <4>1, CloseTag DEF TextTable
      <4>2. v \in {a, b, c}
        BY <2>3
      <4> HIDE DEF a, b, c
      <4>3. \/ v = a /\ w[v].el = el /\ w[v].kind = "open"
            \/ v = b /\ w[v].el = "" /\ w[v].kind = "text"
            \/ v = c /\ w[v].el = el /\ w[v].kind = "close"
        BY <4>2, <4>4, <4>5, <4>6
      <4> QED
        BY <4>3 DEF a, b, c
    <3> QED
      BY <1>5, <3>1
  <2> QED
    BY <1>5, <2>1, <2>2, <2>3
<1> QED
  BY <1>1, <1>2, <1>6

LEMMA LineInside ==
  ASSUME NEW x, NEW w, Writing(x, w), NEW i \in 1 .. Count(x), NEW k \in 1 .. 20
  PROVE  /\ LineAt(i, k) \in 1 .. Len(w) /\ LineAt(i, k) \in Nat /\ LineAt(i, k) > 2
         /\ LineAt(i, k) < PreludeEnd(x) /\ i \in Nat
<1> DEFINE n == Count(x)
           q == LineAt(i, k)
           L == SurfaceLines(x)
           M == PreludeEnd(x)
<1>1. n \in Nat /\ L = 20 * n /\ M = L + 6 + FocusLines(x) /\ FocusLines(x) \in {0, 1}
  BY PreludeEndIs DEF Writing, Count
<1>2. i \in 1 .. n
  OBVIOUS
<1> HIDE DEF n
<1>3. q \in 3 .. 20 * n + 2
  BY <1>1, <1>2, PlaceOfLine DEF LineAt
<1>4. Len(w) >= M /\ Len(w) \in Nat
  BY DEF Writing, Intact
<1> HIDE DEF q, L, M
<1>5. q \in 1 .. Len(w) /\ q \in Nat /\ q > 2 /\ q < M /\ i \in Nat
  BY <1>1, <1>2, <1>3, <1>4
<1> QED
  BY <1>5 DEF q, M

LEMMA LineOrder ==
  ASSUME NEW x, NEW w, Writing(x, w), NEW i \in 1 .. Count(x), NEW k \in 1 .. 20,
         NEW j \in 1 .. Count(x), NEW m \in 1 .. 20
  PROVE  /\ LineAt(i, k) < LineAt(j, m) <=> i < j \/ (i = j /\ k < m)
         /\ LineAt(i, k) = LineAt(j, m) <=> i = j /\ k = m
         /\ LineAt(i, k) + 1 = LineAt(i, k + 1) /\ LineAt(i, k) + 2 = LineAt(i, k + 2)
<1>1. Count(x) \in Nat
  BY PreludeEndIs DEF Writing, Count
<1>2. i \in Int /\ j \in Int
  BY <1>1
<1> QED
  BY <1>2 DEF LineAt

LEMMA ClosesBy ==
  ASSUME NEW S, NEW w \in Documents(S), NEW v \in Starts(w), NEW u \in 1 .. Len(w), v <= u,
         w[v].kind = "empty" \/ w[u] = Close(w[v].el)
  PROVE  ClosingOf(w, v) <= u
<1> DEFINE c == ClosingOf(w, v)
<1>1. /\ c \in v .. Len(w) /\ v \in 1 .. Len(w) /\ Len(w) \in Nat
      /\ w[v].kind = "empty" => c = v
      /\ w[v].kind = "open" => \A k \in v + 1 .. c - 1 : w[k] # Close(w[v].el)
      /\ w[v].kind \in {"open", "empty"}
  BY ClosingIs DEF Starts
<1>2. CASE w[v].kind = "empty"
  BY <1>1, <1>2
<1>3. CASE w[v].kind = "open" /\ w[u] = Close(w[v].el)
  <2>1. w[u].kind = "close"
    BY <1>3, CloseTag
  <2>2. v # u
    BY <1>3, <2>1
  <2>3. u \in Nat /\ c \in Nat /\ v < u
    BY <1>1, <2>2
  <2>4. u \notin v + 1 .. c - 1
    BY <1>1, <1>3
  <2> HIDE DEF c
  <2>5. c <= u
    BY <1>1, <2>3, <2>4
  <2> QED
    BY <2>5 DEF c
<1> QED
  BY <1>1, <1>2, <1>3

\* the elements inside a surface end inside it
LEMMA ClosesInside ==
  ASSUME NEW x, NEW w, Writing(x, w), NEW i \in 1 .. Count(x), NEW k \in 1 .. 20,
         LineAt(i, k) \in Starts(w)
  PROVE  /\ ClosingOf(w, LineAt(i, k)) <= LineAt(i, 20)
         /\ k # 1 => ClosingOf(w, LineAt(i, k)) < LineAt(i, 20)
<1> DEFINE v == LineAt(i, k)
           s == SurfaceOf(x, i)
           c == ClosingOf(w, v)
<1>1. /\ LineTable(w, i, s) /\ \A el \in TextElements : TextTable(w, i, s, el)
      /\ w \in Documents(EventOf(x)) /\ Count(x) \in Nat
  BY LinesAre, PreludeEndIs DEF Writing, Intact, Count
<1>2. \A m \in 1 .. 20 : LineAt(i, m) \in 1 .. Len(w) /\ LineAt(i, m) \in Nat
  BY LineInside
<1>3. \A m \in 1 .. 20 : \A l \in 1 .. 20 : LineAt(i, l) < LineAt(i, m) <=> l < m
  BY LineOrder
<1>4. w[v].kind \in {"open", "empty"} /\ v \in Starts(w)
  BY DEF Starts
<1>5. c \in Nat
  BY <1>1, <1>4, ClosingIs
<1>6. ASSUME NEW m \in 1 .. 20, k < m, w[v].kind = "empty" \/ w[LineAt(i, m)] = Close(w[v].el)
      PROVE  c <= LineAt(i, m)
  <2>1. v < LineAt(i, m)
    BY <1>3, <1>6
  <2>2. v <= LineAt(i, m)
    <3> DEFINE u == LineAt(i, m)
    <3>1. u \in Nat
      BY <1>2
    <3>3. v \in Nat
      BY <1>2
    <3>4. v < u
      BY <2>1
    <3> HIDE DEF u, v
    <3>2. v <= u
      BY <3>1, <3>3, <3>4
    <3> QED
      BY <3>2 DEF u
  <2> QED
    BY <1>1, <1>2, <1>4, <1>6, <2>2, ClosesBy
<1>7. ASSUME NEW m \in 1 .. 19, k < m, w[v].kind = "empty" \/ w[LineAt(i, m)] = Close(w[v].el)
      PROVE  c < LineAt(i, 20)
  <2> DEFINE u == LineAt(i, m)
             t == LineAt(i, 20)
  <2>1. m \in 1 .. 20 /\ m < 20
    OBVIOUS
  <2>2. c <= u
    BY <1>6, <1>7, <2>1
  <2>3. u < t
    BY <1>3, <2>1
  <2>4. u \in Nat /\ t \in Nat
    <3>1. u \in Nat
      BY <1>2, <2>1, Zenon
    <3>2. 20 \in 1 .. 20
      OBVIOUS
    <3>3. t \in Nat
      BY <1>2, <3>2, Zenon
    <3> QED
      BY <3>1, <3>3
  <2> HIDE DEF c, u, t
  <2>5. c < t
    BY <1>5, <2>2, <2>3, <2>4
  <2> QED
    BY <2>5 DEF t
<1>14. c < LineAt(i, 20) => c <= LineAt(i, 20)
  <2> DEFINE u == LineAt(i, 20)
  <2>1. u \in Nat
    BY <1>2
  <2> HIDE DEF c, u
  <2>2. c < u => c <= u
    BY <1>5, <2>1
  <2> QED
    BY <2>2 DEF u
<1>8. CASE k = 1
  <2>1. w[v].el = "surface"
    BY <1>1, <1>8, OpenTag DEF LineTable
  <2>2. w[LineAt(i, 20)] = Close("surface")
    BY <1>1 DEF LineTable
  <2> QED
    BY <1>6, <1>8, <2>1, <2>2
<1>9. CASE k = 2
  <2>1. w[v].el = "host"
    BY <1>1, <1>9, OpenTag DEF LineTable
  <2>2. w[LineAt(i, 15)] = Close("host")
    BY <1>1 DEF LineTable
  <2>3. 15 \in 1 .. 19 /\ k < 15
    BY <1>9
  <2>4. c < LineAt(i, 20)
    BY <1>7, <2>1, <2>2, <2>3
  <2> QED
    BY <1>14, <2>4
<1>10. CASE k = 15 \/ k = 20
  <2>1. w[v].kind = "close"
    BY <1>1, <1>10, CloseTag DEF LineTable
  <2> QED
    BY <1>4, <2>1
<1>11. CASE k = 19
  <2>1. w[v].kind = "empty"
    BY <1>1, <1>11, EmptyTag DEF LineTable
  <2>2. c = v
    BY <1>1, <1>4, <2>1, ClosingIs
  <2>3. v < LineAt(i, 20) /\ v \in Nat /\ LineAt(i, 20) \in Nat
    BY <1>2, <1>3, <1>11
  <2> HIDE DEF c, v
  <2> QED
    BY <2>2, <2>3 DEF c, v
<1>12. ASSUME NEW el \in TextElements, k = TextStart[el]
       PROVE  c < LineAt(i, 20)
  <2>1. w[v].el = el
    BY <1>1, <1>12, OpenTag DEF TextTable
  <2>2. w[LineAt(i, TextStart[el] + 2)] = Close(el)
    BY <1>1 DEF TextTable
  <2>3. TextStart[el] + 2 \in 1 .. 19 /\ k < TextStart[el] + 2
    BY <1>12, TextStartIs
  <2> QED
    BY <1>7, <2>1, <2>2, <2>3
<1>13. ASSUME NEW el \in TextElements, k = TextStart[el] + 1 \/ k = TextStart[el] + 2
       PROVE  FALSE
  <2>1. CASE k = TextStart[el] + 1
    <3>1. TextTable(w, i, s, el)
      BY <1>1
    <3>2. w[v] = TextEvent(s.text[el])
      BY <2>1, <3>1 DEF TextTable
    <3>3. w[v].kind = "text"
      BY <3>2, TextTag
    <3> QED
      BY <1>4, <3>3
  <2>2. CASE k = TextStart[el] + 2
    <3>1. w[v].kind = "close"
      BY <1>1, <2>2, CloseTag DEF TextTable
    <3> QED
      BY <1>4, <3>1
  <2> QED
    BY <1>13, <2>1, <2>2
<1> QED
  BY <1>8, <1>9, <1>10, <1>11, <1>12, <1>13, <1>14, SurfaceCover

LEMMA SurfaceBracket ==
  ASSUME NEW x, NEW w, Writing(x, w), NEW i \in 1 .. Count(x)
  PROVE  Bracket(w, LineAt(i, 1), LineAt(i, 20))
<1> DEFINE a == LineAt(i, 1)
           c == LineAt(i, 20)
<1>1. /\ a \in 1 .. Len(w) /\ c \in 1 .. Len(w) /\ a \in Nat /\ c \in Nat /\ a < c
      /\ w \in Documents(EventOf(x)) /\ Count(x) \in Nat /\ Len(w) \in Nat /\ i \in Nat
  <2>1. /\ a \in 1 .. Len(w) /\ c \in 1 .. Len(w) /\ a \in Nat /\ c \in Nat /\ i \in Nat
    BY LineInside
  <2>2. a < c
    BY LineOrder
  <2>3. w \in Documents(EventOf(x)) /\ Count(x) \in Nat /\ Len(w) \in Nat
    BY PreludeEndIs DEF Writing, Count
  <2> QED
    BY <2>1, <2>2, <2>3
<1>2. w[c] = Close("surface") /\ w[c].kind = "close"
  <2>1. w[c] = Close("surface")
    BY LinesAre DEF Writing, Intact, LineTable
  <2> QED
    BY <2>1, CloseTag
<1>3. ASSUME NEW v \in Starts(w), v # a, ClosingOf(w, v) = c PROVE FALSE
  <2>1. v \in 1 .. Len(w) /\ v <= c /\ w[v].kind \in {"open", "empty"} /\ v \in Nat
    BY <1>1, <1>3, ClosingIs DEF Starts
  <2>2. w[v].kind = "open"
    BY <1>1, <1>2, <1>3, <2>1, ClosingIs
  <2>3. w[c] = Close(w[v].el) /\ v < c /\ \A k \in v + 1 .. c - 1 : w[k] # Close(w[v].el)
    BY <1>1, <1>3, <2>2, ClosingIs
  <2>4. w[v].el = "surface"
    BY <1>2, <2>3, CloseTag
  <2>5. PICK j \in 1 .. Count(x) : v = LineAt(j, 1)
    BY <2>1, <2>2, <2>4, WhereIs
  <2>6. j < i
    <3>1. LineAt(j, 1) < LineAt(i, 20)
      BY <2>3, <2>5
    <3>2. j < i \/ j = i
      BY <3>1, LineOrder
    <3> QED
      BY <1>3, <2>5, <3>2
  <2>7. w[LineAt(j, 20)] = Close("surface") /\ LineAt(j, 20) \in Nat
    BY LinesAre, LineInside DEF Writing, Intact, LineTable
  <2>8. v < LineAt(j, 20) /\ LineAt(j, 20) < c
    BY <2>5, <2>6, LineOrder
  <2> DEFINE u == LineAt(j, 20)
  <2>9. u \in Nat /\ v < u /\ u < c
    BY <2>7, <2>8
  <2> HIDE DEF u, c
  <2>10. u \in v + 1 .. c - 1
    BY <1>1, <2>1, <2>9
  <2> QED
    BY <2>3, <2>4, <2>7, <2>10 DEF u
<1>4. ASSUME NEW v \in Starts(w), a < v, v < c PROVE ClosingOf(w, v) < c
  <2>1. v \in Nat
    BY <1>1 DEF Starts
  <2>3. LineAt(i, 1) < v /\ v < LineAt(i, 20) /\ 1 \in 1 .. 20 /\ 20 \in 1 .. 20 /\ i \in Nat
    BY <1>1, <1>4
  <2>4. \E l \in 1 .. 20 : 1 < l /\ l < 20 /\ v = LineAt(i, l)
    BY <2>1, <2>3, LineBetween, Zenon
  <2>2. PICK l \in 1 .. 20 : 1 < l /\ v = LineAt(i, l)
    BY <2>4
  <2>5. l # 1
    BY <2>2
  <2> QED
    BY <1>1, <1>4, <2>2, <2>5, ClosesInside
<1> QED
  BY <1>1, <1>2, <1>3, <1>4 DEF Bracket

LEMMA TextBracket ==
  ASSUME NEW x, NEW w, Writing(x, w), NEW i \in 1 .. Count(x), NEW el \in TextElements
  PROVE  Bracket(w, LineAt(i, TextStart[el]), LineAt(i, TextStart[el] + 2))
<1> DEFINE k == TextStart[el]
           a == LineAt(i, k)
           c == LineAt(i, k + 2)
<1>1. k \in 1 .. 20 /\ k + 1 \in 1 .. 20 /\ k + 2 \in 1 .. 20 /\ k < k + 2
  BY TextStartIs
<1>2. Count(x) \in Nat /\ Len(w) \in Nat /\ w \in Documents(EventOf(x)) /\ i \in Nat
  BY LineInside, PreludeEndIs DEF Writing, Count
<1>3. TextTable(w, i, SurfaceOf(x, i), el)
  BY LinesAre DEF Writing, Intact
<1>4. w[c] = Close(el) /\ w[c].kind = "close" /\ w[LineAt(i, k + 1)].kind = "text"
  <2>1. w[c] = Close(el) /\ w[LineAt(i, k + 1)] = TextEvent(SurfaceOf(x, i).text[el])
    BY <1>3 DEF TextTable
  <2>2. w[c].kind = "close"
    BY <2>1, CloseTag
  <2>3. w[LineAt(i, k + 1)].kind = "text"
    BY <2>1, TextTag
  <2> QED
    BY <2>1, <2>2, <2>3
<1> HIDE DEF k
<1>5. /\ a \in 1 .. Len(w) /\ c \in 1 .. Len(w) /\ a \in Nat /\ c \in Nat
  BY <1>1, LineInside
<1>6. a < c
  BY <1>1, LineOrder
<1>7. ASSUME NEW v \in Starts(w), v # a, ClosingOf(w, v) = c PROVE FALSE
  <2>1. v \in 1 .. Len(w) /\ v <= c /\ w[v].kind \in {"open", "empty"} /\ v \in Nat
    BY <1>2, <1>7, ClosingIs DEF Starts
  <2>2. w[v].kind = "open"
    BY <1>2, <1>4, <1>7, <2>1, ClosingIs
  <2>3. w[c] = Close(w[v].el) /\ v < c /\ \A m \in v + 1 .. c - 1 : w[m] # Close(w[v].el)
    BY <1>2, <1>7, <2>2, ClosingIs
  <2>4. w[v].el = el
    <3>1. Close(w[v].el).el = w[v].el /\ Close(el).el = el
      BY DEF Close
    <3>2. Close(w[v].el) = Close(el)
      BY <1>4, <2>3
    <3> QED
      BY <3>1, <3>2
  <2>5. PICK j \in 1 .. Count(x) : v = LineAt(j, k)
    BY <2>1, <2>2, <2>4, WhereIs DEF k
  <2>6. j < i
    <3>1. LineAt(j, k) < LineAt(i, k + 2)
      BY <2>3, <2>5
    <3>2. j < i \/ j = i
      BY <1>1, <3>1, LineOrder
    <3> QED
      BY <1>7, <2>5, <3>2
  <2>7. TextTable(w, j, SurfaceOf(x, j), el) /\ LineAt(j, k + 2) \in Nat
    BY <1>1, LinesAre, LineInside DEF Writing, Intact
  <2>8. w[LineAt(j, k + 2)] = Close(el)
    BY <2>7 DEF TextTable, k
  <2>9. v < LineAt(j, k + 2) /\ LineAt(j, k + 2) < c
    BY <1>1, <2>5, <2>6, LineOrder
  <2> DEFINE u == LineAt(j, k + 2)
  <2>10. u \in Nat /\ v < u /\ u < c
    BY <2>7, <2>9
  <2> HIDE DEF u, c
  <2>11. u \in v + 1 .. c - 1
    BY <1>5, <2>1, <2>10
  <2> QED
    BY <2>3, <2>4, <2>8, <2>11 DEF u
<1>8. ASSUME NEW v \in Starts(w), a < v, v < c PROVE FALSE
  <2>1. v \in Nat /\ w[v].kind \in {"open", "empty"}
    BY <1>2 DEF Starts
  <2>2. PICK l \in 1 .. 20 : k < l /\ l < k + 2 /\ v = LineAt(i, l)
    BY <1>1, <1>2, <1>8, <2>1, LineBetween
  <2>3. l = k + 1
    BY <1>1, <2>2
  <2> QED
    BY <1>4, <2>1, <2>2, <2>3
<1> QED
  BY <1>4, <1>5, <1>6, <1>7, <1>8 DEF Bracket, k

\* what begins before the coefficient block, apart from the session, ends there
LEMMA PreludeCloses ==
  ASSUME NEW x, NEW w, Writing(x, w), NEW v \in Starts(w), v <= PreludeEnd(x), v # 1
  PROVE  ClosingOf(w, v) <= PreludeEnd(x)
<1> DEFINE M == PreludeEnd(x)
           L == SurfaceLines(x)
           c == ClosingOf(w, v)
<1>1. /\ x \in ImageV1 /\ w \in Documents(EventOf(x)) /\ PreludeTable(w, x) /\ Len(w) >= M
      /\ Len(w) \in Nat /\ v \in 1 .. Len(w) /\ w[v].kind \in {"open", "empty"}
  BY DEF Writing, Intact, Starts
<1>2. M = L + 6 + FocusLines(x) /\ FocusLines(x) \in {0, 1} /\ M \in Nat /\ L \in Nat
      /\ (x.base.body.focus # None => FocusLines(x) = 1)
  BY <1>1, PreludeEndIs
<1>3. c \in Nat
  BY <1>1, ClosingIs
<1>4. /\ w[2] = Open("surfaces", <<>>) /\ w[L + 3] = Close("surfaces")
      /\ w[L + 4] = Open("layout", <<>>) /\ w[M] = Close("layout")
      /\ w[L + 5] = Empty("strip", [scrollPos |-> x.base.body.scroll])
      /\ x.base.body.focus # None => w[L + 6] = Empty("focus", RefAttrs(x.base.body.focus))
  BY <1>1 DEF PreludeTable
<1>5. v \in 1 .. M
  BY <1>1, <1>2
<1> HIDE DEF M, L
<1>6. ASSUME NEW u \in 1 .. M, v <= u, w[v].kind = "empty" \/ w[u] = Close(w[v].el)
      PROVE  c <= M
  <2>1. u \in 1 .. Len(w)
    BY <1>1, <1>2
  <2>2. c <= u
    BY <1>1, <1>6, <2>1, ClosesBy
  <2> HIDE DEF c
  <2> QED
    BY <1>2, <1>3, <2>2
<1>7. CASE v = 2
  <2>1. w[v].el = "surfaces" /\ L + 3 \in 1 .. M /\ v <= L + 3
    BY <1>2, <1>4, <1>7, OpenTag
  <2>2. w[L + 3] = Close(w[v].el)
    BY <1>4, <2>1
  <2> QED
    BY <1>6, <2>1, <2>2 DEF M
<1>8. CASE v = L + 4
  <2>1. w[v].el = "layout" /\ M \in 1 .. M /\ v <= M
    BY <1>2, <1>4, <1>8, OpenTag
  <2>2. w[M] = Close(w[v].el)
    BY <1>4, <2>1
  <2> QED
    BY <1>6, <2>1, <2>2 DEF M
<1>9. CASE v = L + 3 \/ v = M
  <2>1. w[v].kind = "close"
    BY <1>4, <1>9, CloseTag
  <2> QED
    BY <1>1, <2>1
<1>10. CASE v = L + 5 \/ (v = L + 6 /\ x.base.body.focus # None)
  <2>1. w[v].kind = "empty"
    BY <1>4, <1>10, EmptyTag
  <2>2. v <= v
    BY <1>5
  <2> QED
    BY <1>5, <1>6, <2>1, <2>2 DEF M
<1>11. ASSUME NEW i \in 1 .. Count(x), NEW k \in 1 .. 20, v = LineAt(i, k)
       PROVE  c <= M
  <2> DEFINE t == LineAt(i, 20)
  <2>1. c <= t
    BY <1>11, ClosesInside
  <2>2. t < M /\ t \in Nat
    BY LineInside DEF M
  <2> HIDE DEF c, t
  <2> QED
    BY <1>2, <1>3, <2>1, <2>2
<1>12. \/ v \in {1, 2, L + 3, L + 4, L + 5, M}
       \/ x.base.body.focus # None /\ v = L + 6
       \/ \E i \in 1 .. Count(x) : \E k \in 1 .. 20 : v = LineAt(i, k)
  <2>1. v \in 1 .. PreludeEnd(x)
    BY <1>5 DEF M
  <2> QED
    BY <1>1, <2>1, PreludeCover DEF M, L, LineAt, Count
<1> QED
  BY <1>7, <1>8, <1>9, <1>10, <1>11, <1>12 DEF M

\* every event that is read comes from one that was written
LEMMA DocumentTraced ==
  ASSUME NEW x \in Sources, NEW w \in WrittenOf(x), NEW d \in Seq(EventOf(x)), ComesFrom(d, w)
  PROVE  \E f : Origin(f, d, w) /\ Kept(f, d, w, PreludeEnd(x))
<1>1. Writing(x, w)
  BY WritingIs
<1>2. w \in Documents(EventOf(x)) /\ PreludeEnd(x) \in Nat
  BY <1>1, PreludeEndIs DEF Writing
<1>3. \A v \in Starts(w) : v <= PreludeEnd(x) /\ v # 1 => ClosingOf(w, v) <= PreludeEnd(x)
  BY <1>1, PreludeCloses
<1> QED
  BY <1>2, <1>3, OriginExists

(***************************************************************************)
(* Reading a document whose events f takes from those of w: after p of     *)
(* them, and d[p + 1] is next.                                             *)
(***************************************************************************)
NextOf(x, w, f, d, p) ==
  /\ Writing(x, w) /\ Origin(f, d, w) /\ d \in Seq(EventOf(x))
  /\ p \in Nat /\ p + 1 \in 1 .. Len(d)

LEMMA NextFacts ==
  ASSUME NEW x, NEW w, NEW f, NEW d, NEW p, NextOf(x, w, f, d, p)
  PROVE  /\ f[p + 1] \in 1 .. Len(w) /\ f[p + 1] \in Nat /\ Weaker(d[p + 1], w[f[p + 1]])
         /\ p >= 1 => /\ f[p] \in 1 .. Len(w) /\ f[p] \in Nat /\ NextOrigin(f, w, p)
                      /\ f[p] < f[p + 1]
<1>1. Len(d) \in Nat /\ p \in Nat /\ p + 1 \in 1 .. Len(d) /\ Len(w) \in Nat
  BY LenProperties DEF NextOf, Writing
<1>2. /\ f \in [1 .. Len(d) -> 1 .. Len(w)]
      /\ \A k \in 1 .. Len(d) : Weaker(d[k], w[f[k]])
      /\ \A k \in 1 .. Len(d) : k + 1 <= Len(d) => NextOrigin(f, w, k)
  BY DEF NextOf, Origin
<1>3. p >= 1 => p \in 1 .. Len(d) /\ p + 1 <= Len(d)
  BY <1>1
<1>4. f[p + 1] \in 1 .. Len(w) /\ Weaker(d[p + 1], w[f[p + 1]])
  BY <1>1, <1>2
<1>5. p >= 1 => f[p] \in 1 .. Len(w) /\ NextOrigin(f, w, p)
  BY <1>2, <1>3
<1>6. p >= 1 => f[p] < f[p + 1]
  BY <1>5 DEF NextOrigin
<1>7. \A v \in 1 .. Len(w) : v \in Nat
  BY <1>1
<1> QED
  BY <1>4, <1>5, <1>6, <1>7

\* the last event is one of the i-th surface, its end apart, and its start was read
InsideOf(f, p, i) ==
  /\ \E j \in 1 .. p : f[j] = LineAt(i, 1)
  /\ LineAt(i, 1) <= f[p] /\ f[p] < LineAt(i, 20)

LEMMA StillInside ==
  ASSUME NEW x, NEW w, NEW f, NEW d, NEW p, NextOf(x, w, f, d, p),
         NEW i \in 1 .. Count(x), InsideOf(f, p, i)
  PROVE  /\ LineAt(i, 1) < f[p + 1] /\ f[p + 1] <= LineAt(i, 20)
         /\ ~ (d[p + 1].kind = "close" /\ d[p + 1].el = "surface") => InsideOf(f, p + 1, i)
<1> DEFINE a == LineAt(i, 1)
           c == LineAt(i, 20)
           u == f[p]
           v == f[p + 1]
<1>1. PICK j \in 1 .. p : f[j] = a
  BY DEF InsideOf
<1>2. p \in Nat /\ p >= 1
  BY <1>1 DEF NextOf
<1>3. u \in Nat /\ v \in Nat /\ u < v /\ NextOrigin(f, w, p) /\ Weaker(d[p + 1], w[v])
  BY <1>2, NextFacts
<1>4. a <= u /\ u < c
  BY DEF InsideOf
<1>5. a \in Nat /\ c \in Nat /\ Bracket(w, a, c)
  BY LineInside, SurfaceBracket DEF NextOf
<1>6. v <= c
  BY <1>1, <1>3, <1>4, <1>5 DEF NextOrigin
<1>7. v = c => d[p + 1].kind = "close" /\ d[p + 1].el = "surface"
  <2>1. Writing(x, w)
    BY DEF NextOf
  <2>2. w[c] = Close("surface")
    BY <2>1, LinesAre DEF Writing, Intact, LineTable
  <2>3. w[c].kind = "close" /\ w[c].el = "surface"
    BY <2>2, CloseTag
  <2> QED
    BY <1>3, <2>3 DEF Weaker
<1>8. f[j] = a
  BY <1>1
<1> HIDE DEF a, c, u, v
<1>9. a < v /\ a <= v /\ (v # c => v < c)
  BY <1>3, <1>4, <1>5, <1>6
<1>10. j \in 1 .. p + 1
  BY <1>2
<1>11. v # c => InsideOf(f, p + 1, i)
  BY <1>8, <1>9, <1>10 DEF InsideOf, a, c, v
<1> QED
  BY <1>6, <1>7, <1>9, <1>11 DEF a, c, v

\* a line that comes next is one of that surface
LEMMA SameSurface ==
  ASSUME NEW x, NEW w, NEW f, NEW d, NEW p, NextOf(x, w, f, d, p),
         NEW i \in 1 .. Count(x), InsideOf(f, p, i),
         NEW j \in 1 .. Count(x), NEW k \in 1 .. 20, f[p + 1] = LineAt(j, k)
  PROVE  j = i
<1>1. LineAt(i, 1) < LineAt(j, k) /\ LineAt(j, k) <= LineAt(i, 20)
  BY StillInside
<1>2. Writing(x, w) /\ i \in Nat /\ j \in Nat
  BY LineInside DEF NextOf
<1>3. i < j \/ i = j
  BY <1>1, <1>2, LineOrder
<1>4. ~ (i < j)
  <2>1. i < j => LineAt(i, 20) < LineAt(j, k)
    BY <1>2, LineOrder
  <2> DEFINE u == LineAt(i, 20)
             v == LineAt(j, k)
  <2>2. u \in Nat
    BY <1>2, LineInside
  <2>4. v \in Nat
    BY <1>2, LineInside
  <2>5. v <= u
    BY <1>1
  <2> HIDE DEF u, v
  <2>3. ~ (u < v)
    BY <2>2, <2>4, <2>5
  <2> QED
    BY <2>1, <2>3 DEF u, v
<1> QED
  BY <1>3, <1>4

(***************************************************************************)
(* The text of an element follows its start tag, and its end tag the text. *)
(***************************************************************************)
TextBegun(f, p, i, el) == p >= 1 /\ f[p] = LineAt(i, TextStart[el])

TextHeld(f, p, i, el) ==
  /\ f[p] = LineAt(i, TextStart[el] + 1)
  /\ \E j \in 1 .. p : f[j] = LineAt(i, TextStart[el])

LEMMA TextFollows ==
  ASSUME NEW x, NEW w, NEW f, NEW d, NEW p, NextOf(x, w, f, d, p),
         NEW i \in 1 .. Count(x), NEW el \in TextElements, TextBegun(f, p, i, el)
  PROVE  /\ d[p + 1].kind = "text" /\ Perhaps(d[p + 1].text, SurfaceOf(x, i).text[el])
         /\ TextHeld(f, p + 1, i, el)
<1>1. p \in Nat /\ p >= 1 /\ Writing(x, w)
  BY DEF NextOf, TextBegun
<1>2. NextOrigin(f, w, p) /\ Weaker(d[p + 1], w[f[p + 1]])
  BY <1>1, NextFacts
<1>3. TextTable(w, i, SurfaceOf(x, i), el)
  BY <1>1, LinesAre DEF Writing, Intact
<1> DEFINE k == TextStart[el]
           t == SurfaceOf(x, i).text[el]
<1>4. k \in 1 .. 20 /\ LineAt(i, k) + 1 = LineAt(i, k + 1)
  <2>1. k \in 1 .. 20
    BY TextStartIs
  <2> HIDE DEF k
  <2> QED
    BY <1>1, <2>1, LineOrder
<1>5. f[p] = LineAt(i, k)
  BY DEF TextBegun
<1>6. w[LineAt(i, k + 1)].kind = "text" /\ w[LineAt(i, k + 1)].text = t
  <2> DEFINE e == w[LineAt(i, k + 1)]
  <2>1. e = TextEvent(t)
    BY <1>3 DEF TextTable
  <2> HIDE DEF e, k, t
  <2>2. e.kind = "text" /\ e.text = t
    BY <2>1, TextTag
  <2> QED
    BY <2>2 DEF e
<1>7. f[p + 1] = LineAt(i, k + 1)
  BY <1>2, <1>4, <1>5, <1>6 DEF NextOrigin
<1>8. d[p + 1].kind = "text" /\ Perhaps(d[p + 1].text, t)
  BY <1>2, <1>6, <1>7 DEF Weaker
<1>9. p \in 1 .. p + 1
  BY <1>1
<1> QED
  BY <1>5, <1>7, <1>8, <1>9 DEF TextHeld

LEMMA TextEnds ==
  ASSUME NEW x, NEW w, NEW f, NEW d, NEW p, NextOf(x, w, f, d, p),
         NEW i \in 1 .. Count(x), NEW el \in TextElements, TextHeld(f, p, i, el)
  PROVE  d[p + 1].kind = "close" /\ d[p + 1].el = el /\ f[p + 1] = LineAt(i, TextStart[el] + 2)
<1> DEFINE k == TextStart[el]
           a == LineAt(i, k)
           b == LineAt(i, k + 1)
           c == LineAt(i, k + 2)
           v == f[p + 1]
<1>1. PICK j \in 1 .. p : f[j] = a
  BY DEF TextHeld
<1>2. p \in Nat /\ p >= 1 /\ Writing(x, w)
  BY <1>1 DEF NextOf
<1>3. v \in Nat /\ f[p] < v /\ NextOrigin(f, w, p) /\ Weaker(d[p + 1], w[v])
  BY <1>2, NextFacts
<1>4. f[p] = b
  BY DEF TextHeld
<1>5. Bracket(w, a, c) /\ TextTable(w, i, SurfaceOf(x, i), el)
  BY <1>2, TextBracket, LinesAre DEF Writing, Intact
<1>6. w[c].kind = "close" /\ w[c].el = el
  <2>1. w[c] = Close(el)
    BY <1>5 DEF TextTable
  <2> QED
    BY <2>1, CloseTag
<1>7. a \in Nat /\ b \in Nat /\ c \in Nat /\ b = a + 1 /\ c = a + 2
  <2>1. k \in 1 .. 20 /\ k + 1 \in 1 .. 20 /\ k + 2 \in 1 .. 20
    BY TextStartIs
  <2> HIDE DEF k
  <2>2. a \in Nat /\ b \in Nat /\ c \in Nat
    BY <1>2, <2>1, LineInside
  <2>3. b = a + 1 /\ c = a + 2
    BY <1>2, <2>1, LineOrder
  <2> QED
    BY <2>2, <2>3
<1> HIDE DEF a, b, c, v
<1>8. a <= f[p] /\ f[p] < c
  BY <1>4, <1>7
<1>9. v <= c
  BY <1>1, <1>3, <1>5, <1>8 DEF NextOrigin, v
<1>10. v = c
  BY <1>3, <1>4, <1>7, <1>9
<1> QED
  BY <1>3, <1>6, <1>10 DEF Weaker, v, c

(***************************************************************************)
(* What has been read so far is what was written, as f traces it.          *)
(***************************************************************************)
\* a finished surface, and one that is being built, of the written t
Fits(s, t) ==
  /\ s.id = t.id /\ s.order = t.order /\ Perhaps(s.name, t.name)
  /\ DOMAIN s.text = TextElements
  /\ \A el \in TextElements : Perhaps(s.text[el], Trim[t.text[el]])
  /\ s.width = t.width /\ s.height = t.height

PartOf(b, t) ==
  /\ b.id = t.id /\ b.order = t.order /\ Perhaps(b.name, t.name)
  /\ \A el \in DOMAIN b.text : Perhaps(b.text[el], Trim[t.text[el]])
  /\ b.size # None => b.size.width = t.width /\ b.size.height = t.height

HeldBy(x, f, p, b) ==
  \E i \in 1 .. Count(x) : InsideOf(f, p, i) /\ PartOf(b, SurfaceOf(x, i))

TextOf(x, f, p, el, t) ==
  \E i \in 1 .. Count(x) :
    \/ TextBegun(f, p, i, el)
    \/ TextHeld(f, p, i, el) /\ Perhaps(t, Trim[SurfaceOf(x, i).text[el]])

\* h tells the surface that each was
ReadAs(x, f, p, ss, h) ==
  /\ h \in [1 .. Len(ss) -> 1 .. Count(x)]
  /\ \A m \in 1 .. Len(ss) : /\ Fits(ss[m], SurfaceOf(x, h[m]))
                            /\ p >= 1 /\ LineAt(h[m], 20) <= f[p]
                            /\ \A l \in 1 .. Len(ss) : h[l] = h[m] => l = m

ReadFrom(x, f, p, ss) == \E h : ReadAs(x, f, p, ss, h)

LEMMA HeldStill ==
  ASSUME NEW x, NEW w, NEW f, NEW d, NEW p, NextOf(x, w, f, d, p), NEW b, HeldBy(x, f, p, b),
         ~ (d[p + 1].kind = "close" /\ d[p + 1].el = "surface")
  PROVE  HeldBy(x, f, p + 1, b)
<1>1. PICK i \in 1 .. Count(x) : InsideOf(f, p, i) /\ PartOf(b, SurfaceOf(x, i))
  BY DEF HeldBy
<1>2. InsideOf(f, p + 1, i)
  BY <1>1, StillInside
<1> QED
  BY <1>1, <1>2 DEF HeldBy

LEMMA EndsBefore ==
  ASSUME NEW x, NEW w, NEW f, NEW d, NEW p, NextOf(x, w, f, d, p), NEW i \in 1 .. Count(x),
         p >= 1, LineAt(i, 20) <= f[p]
  PROVE  p + 1 >= 1 /\ LineAt(i, 20) < f[p + 1] /\ LineAt(i, 20) <= f[p + 1]
<1> DEFINE u == f[p]
           v == f[p + 1]
           a == LineAt(i, 20)
<1>1. u \in Nat /\ v \in Nat /\ u < v
  BY NextFacts
<1>2. a \in Nat /\ p \in Nat
  BY LineInside DEF NextOf
<1>3. a <= u
  OBVIOUS
<1> HIDE DEF u, v, a
<1>4. p + 1 >= 1 /\ a < v /\ a <= v
  BY <1>1, <1>2, <1>3
<1> QED
  BY <1>4 DEF a, v

LEMMA ReadStill ==
  ASSUME NEW x, NEW w, NEW f, NEW d, NEW p, NextOf(x, w, f, d, p), NEW ss, ReadFrom(x, f, p, ss)
  PROVE  ReadFrom(x, f, p + 1, ss)
<1>1. PICK h : ReadAs(x, f, p, ss, h)
  BY DEF ReadFrom
<1>2. ASSUME NEW m \in 1 .. Len(ss)
      PROVE  /\ Fits(ss[m], SurfaceOf(x, h[m]))
             /\ p + 1 >= 1 /\ LineAt(h[m], 20) <= f[p + 1]
             /\ \A l \in 1 .. Len(ss) : h[l] = h[m] => l = m
  <2>1. h[m] \in 1 .. Count(x) /\ p >= 1 /\ LineAt(h[m], 20) <= f[p]
    BY <1>1 DEF ReadAs
  <2>2. p + 1 >= 1 /\ LineAt(h[m], 20) <= f[p + 1]
    BY <2>1, EndsBefore
  <2> QED
    BY <1>1, <2>2 DEF ReadAs
<1>3. h \in [1 .. Len(ss) -> 1 .. Count(x)]
  BY <1>1 DEF ReadAs
<1> QED
  BY <1>2, <1>3 DEF ReadFrom, ReadAs

LEMMA ReadMore ==
  ASSUME NEW x, NEW w, NEW f, NEW d, NEW p, NextOf(x, w, f, d, p),
         NEW ss \in Seq(SurfaceEntry), ReadFrom(x, f, p, ss),
         NEW i \in 1 .. Count(x), f[p + 1] = LineAt(i, 20), NEW s, Fits(s, SurfaceOf(x, i))
  PROVE  ReadFrom(x, f, p + 1, Append(ss, s))
<1>1. PICK h : ReadAs(x, f, p, ss, h)
  BY DEF ReadFrom
<1> DEFINE n == Len(ss)
           y == Append(ss, s)
           g == [m \in 1 .. n + 1 |-> IF m = n + 1 THEN i ELSE h[m]]
<1>2. n \in Nat /\ Len(y) = n + 1 /\ y[n + 1] = s /\ \A m \in 1 .. n : y[m] = ss[m]
  BY LenProperties, AppendProperties
<1>3. /\ h \in [1 .. n -> 1 .. Count(x)]
      /\ \A m \in 1 .. n : /\ Fits(ss[m], SurfaceOf(x, h[m])) /\ p >= 1
                          /\ LineAt(h[m], 20) <= f[p]
                          /\ \A l \in 1 .. n : h[l] = h[m] => l = m
  BY <1>1 DEF ReadAs
<1>4. p \in Nat /\ Writing(x, w) /\ LineAt(i, 20) \in Nat
  BY LineInside DEF NextOf
<1> HIDE DEF n, y
<1>5. /\ g \in [1 .. n + 1 -> 1 .. Count(x)] /\ g[n + 1] = i
      /\ \A m \in 1 .. n : g[m] = h[m] /\ m \in 1 .. n + 1 /\ m # n + 1
      /\ \A m \in 1 .. n + 1 : m \in 1 .. n \/ m = n + 1
  BY <1>2, <1>3
<1> HIDE DEF g
<1>6. \A m \in 1 .. n : LineAt(h[m], 20) < LineAt(i, 20) /\ LineAt(h[m], 20) <= f[p + 1]
  BY <1>3, EndsBefore
<1>7. \A m \in 1 .. n : h[m] # i
  <2> TAKE m \in 1 .. n
  <2> DEFINE a == LineAt(i, 20)
  <2>1. LineAt(h[m], 20) < a /\ a \in Nat
    BY <1>4, <1>6
  <2>2. ~ (a < a)
    <3> HIDE DEF a
    <3> QED
      BY <2>1
  <2> QED
    BY <2>1, <2>2
<1>8. ASSUME NEW m \in 1 .. n + 1
      PROVE  /\ Fits(y[m], SurfaceOf(x, g[m])) /\ p + 1 >= 1 /\ LineAt(g[m], 20) <= f[p + 1]
             /\ \A l \in 1 .. n + 1 : g[l] = g[m] => l = m
  <2>1. p + 1 >= 1
    BY <1>4
  <2>2. CASE m = n + 1
    <3>1. LineAt(i, 20) <= f[p + 1]
      <4> DEFINE a == LineAt(i, 20)
      <4>1. a \in Nat /\ f[p + 1] = a
        BY <1>4
      <4> HIDE DEF a
      <4>2. a <= a
        BY <4>1
      <4> QED
        BY <4>1, <4>2 DEF a
    <3> QED
      BY <1>2, <1>5, <1>7, <2>1, <2>2, <3>1
  <2>3. CASE m \in 1 .. n
    BY <1>2, <1>3, <1>5, <1>6, <1>7, <2>1, <2>3
  <2> QED
    BY <1>5, <2>2, <2>3
<1>9. ReadAs(x, f, p + 1, y, g)
  BY <1>2, <1>5, <1>8 DEF ReadAs
<1> QED
  BY <1>9 DEF ReadFrom, y

(***************************************************************************)
(* The builder of a surface.                                               *)
(***************************************************************************)
LEMMA NewPart ==
  ASSUME NEW x, NEW w, NEW f, NEW d, NEW p, NextOf(x, w, f, d, p), NEW e, e = d[p + 1],
         e.kind \in Start, e.el = "surface", {"id", "order", "name"} \subseteq DOMAIN e.attrs,
         e.attrs["id"] # Unknown, e.attrs["order"] # Unknown
  PROVE  HeldBy(x, f, p + 1, [id |-> e.attrs["id"], name |-> e.attrs["name"],
                              order |-> e.attrs["order"], text |-> <<>>, size |-> None])
<1> DEFINE v == f[p + 1]
           b == [id |-> e.attrs["id"], name |-> e.attrs["name"], order |-> e.attrs["order"],
                 text |-> <<>>, size |-> None]
<1>1. v \in 1 .. Len(w) /\ Weaker(e, w[v]) /\ Writing(x, w) /\ p \in Nat
  BY NextFacts DEF NextOf
<1>2. w[v].el = "surface" /\ w[v].kind # "close"
  BY <1>1 DEF Weaker, Start
<1>3. PICK i \in 1 .. Count(x) : v = LineAt(i, 1)
  BY <1>1, <1>2, WhereIs
<1> DEFINE s == SurfaceOf(x, i)
<1>4. w[v] = Open("surface", SurfaceAttrs(s))
  BY <1>1, <1>3, LinesAre DEF Writing, Intact, LineTable
<1>5. w[v].attrs = SurfaceAttrs(s)
  BY <1>4, OpenTag
<1>6. /\ SurfaceAttrs(s)["id"] = s.id /\ SurfaceAttrs(s)["name"] = s.name
      /\ SurfaceAttrs(s)["order"] = s.order
  BY DEF SurfaceAttrs
<1>7. \A a \in DOMAIN e.attrs : Perhaps(e.attrs[a], SurfaceAttrs(s)[a])
  BY <1>1, <1>5 DEF Weaker
<1>8. e.attrs["id"] = s.id /\ e.attrs["order"] = s.order /\ Perhaps(e.attrs["name"], s.name)
  BY <1>6, <1>7 DEF Perhaps
<1>9. PartOf(b, s)
  <2>1. /\ b.id = e.attrs["id"] /\ b.name = e.attrs["name"] /\ b.order = e.attrs["order"]
        /\ b.text = <<>> /\ b.size = None
    OBVIOUS
  <2>2. DOMAIN <<>> = {}
    OBVIOUS
  <2> HIDE DEF b, s
  <2>3. DOMAIN b.text = {}
    BY <2>1, <2>2
  <2> QED
    BY <1>8, <2>1, <2>3 DEF PartOf
<1>10. InsideOf(f, p + 1, i)
  <2> DEFINE a == LineAt(i, 1)
             c == LineAt(i, 20)
  <2>1. a \in Nat /\ a < c
    BY <1>1, LineInside, LineOrder
  <2>2. p + 1 \in 1 .. p + 1
    BY <1>1
  <2>3. v = a
    BY <1>3
  <2> HIDE DEF a, c, v
  <2>4. a <= v /\ v < c
    BY <2>1, <2>3
  <2> QED
    BY <2>2, <2>3, <2>4 DEF InsideOf, a, c, v
<1> QED
  BY <1>9, <1>10 DEF HeldBy

LEMMA SizedPart ==
  ASSUME NEW x, NEW w, NEW f, NEW d, NEW p, NextOf(x, w, f, d, p), NEW e, e = d[p + 1],
         e.kind \in Start, e.el = "dimensions", e.attrs \in [width : Nat, height : Nat],
         e.attrs["width"] # Unknown, e.attrs["height"] # Unknown,
         NEW b, BuilderOK(b), HeldBy(x, f, p, b)
  PROVE  HeldBy(x, f, p + 1, [b EXCEPT !.size = e.attrs])
<1> DEFINE v == f[p + 1]
           z == e.attrs
           c == [b EXCEPT !.size = z]
<1>1. v \in 1 .. Len(w) /\ Weaker(e, w[v]) /\ Writing(x, w) /\ p \in Nat
  BY NextFacts DEF NextOf
<1>2. w[v].el = "dimensions"
  BY <1>1 DEF Weaker
<1>3. PICK j \in 1 .. Count(x) : v = LineAt(j, 19)
  BY <1>1, <1>2, WhereIs
<1>4. PICK i \in 1 .. Count(x) : InsideOf(f, p, i) /\ PartOf(b, SurfaceOf(x, i))
  BY DEF HeldBy
<1>5. j = i
  BY <1>3, <1>4, SameSurface
<1> DEFINE s == SurfaceOf(x, i)
<1>6. w[v] = Empty("dimensions", SizeAttrs(s))
  BY <1>1, <1>3, <1>5, LinesAre DEF Writing, Intact, LineTable
<1>7. w[v].attrs = SizeAttrs(s)
  BY <1>6, EmptyTag
<1>8. SizeAttrs(s)["height"] = s.height /\ SizeAttrs(s)["width"] = s.width
  BY DEF SizeAttrs
<1>9. \A a \in DOMAIN z : Perhaps(z[a], SizeAttrs(s)[a])
  BY <1>1, <1>7 DEF Weaker
<1>10. DOMAIN z = {"width", "height"} /\ z["width"] # Unknown /\ z["height"] # Unknown
  OBVIOUS
<1> HIDE DEF z, s
<1>11. z["height"] = s.height /\ z["width"] = s.width
  BY <1>8, <1>9, <1>10 DEF Perhaps
<1>12. b = [id |-> b.id, name |-> b.name, order |-> b.order, text |-> b.text, size |-> b.size]
  BY BuilderFields DEF BuilderOK
<1>13. c = [id |-> b.id, name |-> b.name, order |-> b.order, text |-> b.text, size |-> z]
  <2>1. [[id |-> b.id, name |-> b.name, order |-> b.order, text |-> b.text, size |-> b.size]
           EXCEPT !.size = z]
        = [id |-> b.id, name |-> b.name, order |-> b.order, text |-> b.text, size |-> z]
    OBVIOUS
  <2> QED
    BY <1>12, <2>1
<1>14. c.id = b.id /\ c.name = b.name /\ c.order = b.order /\ c.text = b.text /\ c.size = z
  BY <1>13
<1> HIDE DEF c
<1>15. PartOf(c, s)
  <2>1. PartOf(b, s)
    BY <1>4 DEF s
  <2>2. z.height = s.height /\ z.width = s.width
    BY <1>11
  <2> QED
    BY <1>14, <2>1, <2>2 DEF PartOf
<1>16. InsideOf(f, p + 1, i)
  BY <1>4, StillInside
<1> QED
  BY <1>15, <1>16 DEF HeldBy, c, z, s

LEMMA TextPart ==
  ASSUME NEW x, NEW w, NEW f, NEW d, NEW p, NextOf(x, w, f, d, p), NEW el \in TextElements,
         d[p + 1].kind = "close", d[p + 1].el = el,
         NEW j \in 1 .. Count(x), f[p + 1] = LineAt(j, TextStart[el] + 2),
         NEW t \in Texts, Perhaps(t, Trim[SurfaceOf(x, j).text[el]]),
         NEW b, BuilderOK(b), HeldBy(x, f, p, b)
  PROVE  HeldBy(x, f, p + 1, WithText(b, el, t))
<1>1. PICK i \in 1 .. Count(x) : InsideOf(f, p, i) /\ PartOf(b, SurfaceOf(x, i))
  BY DEF HeldBy
<1>2. j = i
  <2>1. TextStart[el] + 2 \in 1 .. 20
    BY TextStartIs
  <2> QED
    BY <1>1, <2>1, SameSurface
<1>3. InsideOf(f, p + 1, i)
  <2>1. el # "surface"
    BY TextStarts
  <2> QED
    BY <1>1, <2>1, StillInside
<1> DEFINE c == WithText(b, el, t)
           s == SurfaceOf(x, i)
<1>4. Gains(c, b, el, t)
  BY AddedText
<1> HIDE DEF c
<1>5. /\ DOMAIN c.text = DOMAIN b.text \cup {el} /\ c.text[el] = t
      /\ \A e \in DOMAIN b.text : e # el => c.text[e] = b.text[e]
      /\ c.id = b.id /\ c.name = b.name /\ c.order = b.order /\ c.size = b.size
  <2>1. c = [id |-> b.id, name |-> b.name, order |-> b.order, text |-> c.text, size |-> b.size]
    BY <1>4 DEF Gains
  <2>2. c.id = b.id /\ c.name = b.name /\ c.order = b.order /\ c.size = b.size
    BY <2>1
  <2> QED
    BY <1>4, <2>2 DEF Gains
<1>6. PartOf(b, s) /\ Perhaps(t, Trim[s.text[el]])
  BY <1>1, <1>2
<1> HIDE DEF s
<1>7. \A e \in DOMAIN c.text : Perhaps(c.text[e], Trim[s.text[e]])
  BY <1>5, <1>6 DEF PartOf
<1>8. PartOf(c, s)
  BY <1>5, <1>6, <1>7 DEF PartOf
<1> QED
  BY <1>3, <1>8 DEF HeldBy, c, s

LEMMA WholePart ==
  ASSUME NEW x, NEW w, NEW f, NEW d, NEW p, NextOf(x, w, f, d, p),
         d[p + 1].kind = "close", d[p + 1].el = "surface",
         NEW b, Complete(b), HeldBy(x, f, p, b)
  PROVE  \E i \in 1 .. Count(x) : f[p + 1] = LineAt(i, 20) /\ Fits(Built(b), SurfaceOf(x, i))
<1> DEFINE v == f[p + 1]
<1>1. v \in 1 .. Len(w) /\ Weaker(d[p + 1], w[v]) /\ Writing(x, w)
  BY NextFacts DEF NextOf
<1>2. w[v].el = "surface" /\ w[v].kind = "close"
  BY <1>1 DEF Weaker
<1>3. PICK j \in 1 .. Count(x) : v = LineAt(j, 20)
  BY <1>1, <1>2, WhereIs
<1>4. PICK i \in 1 .. Count(x) : InsideOf(f, p, i) /\ PartOf(b, SurfaceOf(x, i))
  BY DEF HeldBy
<1>5. j = i
  BY <1>3, <1>4, SameSurface
<1> DEFINE c == Built(b)
<1>6. /\ c.id = b.id /\ c.name = b.name /\ c.order = b.order /\ c.text = b.text
      /\ c.width = b.size.width /\ c.height = b.size.height
  BY DEF Built
<1>7. DOMAIN b.text = TextElements /\ b.size # None
  BY DEF Complete
<1> HIDE DEF c
<1>8. Fits(c, SurfaceOf(x, i))
  BY <1>4, <1>6, <1>7 DEF PartOf, Fits
<1> QED
  BY <1>3, <1>5, <1>8 DEF c

Traced(x, f, p) ==
  /\ surface # None => HeldBy(x, f, p, surface)
  /\ target # None => TextOf(x, f, p, target, buf)
  /\ ReadFrom(x, f, p, surfaces)

Tracing(x, w, f, p) ==
  /\ NextOf(x, w, f, doc, p) /\ pos = p + 1 /\ x = source
  /\ ReadInv /\ Traced(x, f, p)

LEMMA TracingIs ==
  ASSUME NEW x, NEW w, NEW f, NEW p, Tracing(x, w, f, p)
  PROVE  /\ Event = doc[p + 1] /\ Event \in EventOf(x) /\ NextOf(x, w, f, doc, p)
         /\ surface # None => BuilderOK(surface) /\ HeldBy(x, f, p, surface)
         /\ target # None => target \in TextElements
         /\ ReadFrom(x, f, p, surfaces) /\ surfaces \in Seq(SurfaceEntry) /\ buf \in Texts
<1>1. Event = doc[p + 1] /\ NextOf(x, w, f, doc, p)
  BY DEF Tracing, Event
<1>2. doc \in Seq(EventOf(x)) /\ p + 1 \in 1 .. Len(doc)
  BY <1>1 DEF NextOf
<1>3. doc[p + 1] \in EventOf(x)
  BY <1>2, ElementOfSeq
<1> QED
  BY <1>1, <1>3 DEF Tracing, Traced, ReadInv, BaseTypes

\* while a text is awaited, nothing but that text and its end comes next
LEMMA TargetNext ==
  ASSUME NEW x, NEW w, NEW f, NEW p, Tracing(x, w, f, p), target # None
  PROVE  \/ /\ Event.kind = "text"
            /\ TextOf(x, f, p + 1, target, Trim[Event.text])
         \/ /\ Event.kind = "close" /\ Event.el = target
            /\ \E i \in 1 .. Count(x) : /\ f[p + 1] = LineAt(i, TextStart[target] + 2)
                                        /\ Perhaps(buf, Trim[SurfaceOf(x, i).text[target]])
<1> DEFINE el == target
           e == doc[p + 1]
<1>1. NextOf(x, w, f, doc, p) /\ el \in TextElements /\ Event = e
  BY TracingIs
<1>2. PICK i \in 1 .. Count(x) :
        \/ TextBegun(f, p, i, el)
        \/ TextHeld(f, p, i, el) /\ Perhaps(buf, Trim[SurfaceOf(x, i).text[el]])
  BY DEF Tracing, Traced, TextOf
<1>3. CASE TextBegun(f, p, i, el)
  <2> DEFINE t == SurfaceOf(x, i).text[el]
  <2>1. e.kind = "text" /\ Perhaps(e.text, t) /\ TextHeld(f, p + 1, i, el)
    BY <1>1, <1>3, TextFollows
  <2>2. Perhaps(Trim[e.text], Trim[t])
    <3> HIDE DEF e, t
    <3> QED
      BY <2>1, ParserAssumption DEF Perhaps
  <2>3. TextOf(x, f, p + 1, el, Trim[e.text])
    BY <2>1, <2>2 DEF TextOf
  <2> QED
    BY <1>1, <2>1, <2>3
<1>4. CASE TextHeld(f, p, i, el) /\ Perhaps(buf, Trim[SurfaceOf(x, i).text[el]])
  <2>1. e.kind = "close" /\ e.el = el /\ f[p + 1] = LineAt(i, TextStart[el] + 2)
    BY <1>1, <1>4, TextEnds
  <2> QED
    BY <1>1, <1>4, <2>1
<1> QED
  BY <1>2, <1>3, <1>4

\* an event that touches neither the surfaces nor the text
LEMMA NothingTouched ==
  ASSUME NEW x, NEW w, NEW f, NEW p, Tracing(x, w, f, p),
         UNCHANGED <<surface, surfaces, target>>, Event.kind # "text",
         Event.kind = "close" => Event.el \notin TextElements \cup {"surface"}
  PROVE  Traced(x, f, p + 1)'
<1>1. /\ Event = doc[p + 1] /\ NextOf(x, w, f, doc, p)
      /\ surface # None => HeldBy(x, f, p, surface)
      /\ target # None => target \in TextElements
      /\ ReadFrom(x, f, p, surfaces)
  BY TracingIs
<1>2. target = None
  BY <1>1, TargetNext
<1>3. ReadFrom(x, f, p + 1, surfaces)
  BY <1>1, ReadStill
<1>4. surface # None => HeldBy(x, f, p + 1, surface)
  BY <1>1, HeldStill
<1> QED
  BY <1>2, <1>3, <1>4 DEF Traced

LEMMA BaseStartIs ==
  ASSUME NEW el, BaseStart(el)
  PROVE  Event.kind \in Start /\ Event.kind # "text" /\ Event.kind # "close" /\ Event.el = el
BY DEF BaseStart, Takes, Start

\* no text is awaited where an element begins
LEMMA NoTarget ==
  ASSUME NEW x, NEW w, NEW f, NEW p, Tracing(x, w, f, p),
         Event.kind # "text", Event.kind # "close" \/ Event.el \notin TextElements
  PROVE  target = None
<1>1. target # None => target \in TextElements
  BY TracingIs
<1> QED
  BY <1>1, TargetNext

LEMMA TracedPlain ==
  ASSUME NEW x, NEW w, NEW f, NEW p, Tracing(x, w, f, p),
         \/ StartSession \/ StartHost \/ StartStrip \/ StartFocus \/ StartOther
         \/ EndHost \/ EndOther
  PROVE  Traced(x, f, p + 1)'
<1>1. UNCHANGED <<surface, surfaces, target>>
  BY DEF StartSession, StartHost, StartStrip, StartFocus, StartOther, EndHost, EndOther
<1>2. CASE EndHost \/ EndOther
  <2>1. Event.kind = "close" /\ Event.el \notin TextElements \cup {"surface"}
    BY <1>2, TextStarts DEF EndHost, EndOther, BaseEnd, Takes
  <2> QED
    BY <1>1, <2>1, NothingTouched
<1>3. CASE ~ (EndHost \/ EndOther)
  <2>1. \E el : BaseStart(el)
    BY <1>3 DEF StartSession, StartHost, StartStrip, StartFocus, StartOther
  <2>2. Event.kind # "text" /\ Event.kind # "close"
    BY <2>1, BaseStartIs
  <2> QED
    BY <1>1, <2>2, NothingTouched
<1> QED
  BY <1>2, <1>3

LEMMA TracedSurfaceStart ==
  ASSUME NEW x, NEW w, NEW f, NEW p, Tracing(x, w, f, p), StartSurface
  PROVE  Traced(x, f, p + 1)'
<1> DEFINE e == Event
           b == [id |-> e.attrs["id"], name |-> e.attrs["name"], order |-> e.attrs["order"],
                 text |-> <<>>, size |-> None]
<1>1. e.kind \in Start /\ e.kind # "text" /\ e.kind # "close" /\ e.el = "surface"
  BY BaseStartIs DEF StartSurface
<1>2. /\ e = doc[p + 1] /\ NextOf(x, w, f, doc, p) /\ ReadFrom(x, f, p, surfaces)
  BY TracingIs
<1>3. /\ {"id", "order", "name"} \subseteq DOMAIN e.attrs
      /\ e.attrs["id"] # Unknown /\ e.attrs["order"] # Unknown
  BY DEF StartSurface, Knows, Has
<1>4. surface' = b /\ surfaces' = surfaces /\ target' = target
  BY DEF StartSurface
<1>5. HeldBy(x, f, p + 1, b)
  <2> HIDE DEF e
  <2> QED
    BY <1>1, <1>2, <1>3, NewPart
<1>6. target = None
  BY <1>1, NoTarget
<1>7. ReadFrom(x, f, p + 1, surfaces)
  BY <1>2, ReadStill
<1> HIDE DEF b
<1> QED
  BY <1>4, <1>5, <1>6, <1>7 DEF Traced

LEMMA TracedDimensions ==
  ASSUME NEW x, NEW w, NEW f, NEW p, Tracing(x, w, f, p), StartDimensions
  PROVE  Traced(x, f, p + 1)'
<1> DEFINE e == Event
           b == surface
           c == [b EXCEPT !.size = e.attrs]
<1>1. e.kind \in Start /\ e.kind # "text" /\ e.kind # "close" /\ e.el = "dimensions"
  BY BaseStartIs DEF StartDimensions
<1>2. /\ e = doc[p + 1] /\ NextOf(x, w, f, doc, p) /\ ReadFrom(x, f, p, surfaces)
      /\ e \in EventOf(x) /\ (b # None => BuilderOK(b) /\ HeldBy(x, f, p, b))
  BY TracingIs
<1>3. /\ {"width", "height"} \subseteq DOMAIN e.attrs
      /\ e.attrs["width"] # Unknown /\ e.attrs["height"] # Unknown
      /\ b # None
  BY DEF StartDimensions, Knows, Has
<1>4. surface' = c /\ surfaces' = surfaces /\ target' = target
  BY DEF StartDimensions
<1>5. e.attrs \in [width : Nat, height : Nat]
  BY <1>1, <1>2, <1>3, SizeTag
<1>6. HeldBy(x, f, p + 1, c)
  <2> HIDE DEF e, b
  <2> QED
    BY <1>1, <1>2, <1>3, <1>5, SizedPart
<1>7. target = None
  BY <1>1, NoTarget
<1>8. ReadFrom(x, f, p + 1, surfaces)
  BY <1>2, ReadStill
<1> HIDE DEF c
<1> QED
  BY <1>4, <1>6, <1>7, <1>8 DEF Traced

LEMMA TracedTextStart ==
  ASSUME NEW x, NEW w, NEW f, NEW p, Tracing(x, w, f, p), StartText
  PROVE  Traced(x, f, p + 1)'
<1>1. PICK el \in TextElements : BaseStart(el)
  BY DEF StartText
<1>2. Event.kind # "text" /\ Event.kind # "close" /\ Event.el = el
  BY <1>1, BaseStartIs
<1>3. /\ Event = doc[p + 1] /\ NextOf(x, w, f, doc, p) /\ ReadFrom(x, f, p, surfaces)
      /\ surface # None => HeldBy(x, f, p, surface)
  BY TracingIs
<1>4. f[p + 1] \in 1 .. Len(w) /\ Weaker(Event, w[f[p + 1]]) /\ Writing(x, w) /\ p \in Nat
  BY <1>3, NextFacts DEF NextOf
<1>5. w[f[p + 1]].el = el /\ w[f[p + 1]].kind # "close"
  BY <1>2, <1>4 DEF Weaker
<1>6. PICK i \in 1 .. Count(x) : f[p + 1] = LineAt(i, TextStart[el])
  BY <1>4, <1>5, WhereIs
<1>7. p + 1 >= 1
  BY <1>4
<1>8. TextOf(x, f, p + 1, el, Blank)
  BY <1>6, <1>7 DEF TextOf, TextBegun
<1>9. target' = el /\ buf' = Blank /\ surface' = surface /\ surfaces' = surfaces
  BY <1>1, <1>2 DEF StartText, BaseStart
<1>10. ReadFrom(x, f, p + 1, surfaces)
  BY <1>3, ReadStill
<1>11. surface # None => HeldBy(x, f, p + 1, surface)
  BY <1>2, <1>3, HeldStill
<1> QED
  BY <1>8, <1>9, <1>10, <1>11 DEF Traced

LEMMA TracedText ==
  ASSUME NEW x, NEW w, NEW f, NEW p, Tracing(x, w, f, p), TakeText
  PROVE  Traced(x, f, p + 1)'
<1>1. Event.kind = "text" /\ Event.kind # "close"
  BY DEF TakeText, Takes
<1>2. /\ Event = doc[p + 1] /\ NextOf(x, w, f, doc, p) /\ ReadFrom(x, f, p, surfaces)
      /\ surface # None => HeldBy(x, f, p, surface)
  BY TracingIs
<1>3. /\ UNCHANGED <<surface, surfaces, target>>
      /\ target # None => buf' = Trim[Event.text]
  BY DEF TakeText
<1>4. target # None => TextOf(x, f, p + 1, target, Trim[Event.text])
  BY <1>1, TargetNext
<1>5. ReadFrom(x, f, p + 1, surfaces)
  BY <1>2, ReadStill
<1>6. surface # None => HeldBy(x, f, p + 1, surface)
  BY <1>1, <1>2, HeldStill
<1> QED
  BY <1>3, <1>4, <1>5, <1>6 DEF Traced

LEMMA TracedSurfaceEnd ==
  ASSUME NEW x, NEW w, NEW f, NEW p, Tracing(x, w, f, p), EndSurface
  PROVE  Traced(x, f, p + 1)'
<1>1. /\ Event.kind = "close" /\ Event.el = "surface" /\ Event.kind # "text"
      /\ surface # None /\ Complete(surface)
  BY DEF EndSurface, BaseEnd, Takes
<1>2. /\ Event = doc[p + 1] /\ NextOf(x, w, f, doc, p) /\ ReadFrom(x, f, p, surfaces)
      /\ HeldBy(x, f, p, surface) /\ surfaces \in Seq(SurfaceEntry)
  BY <1>1, TracingIs
<1>3. PICK i \in 1 .. Count(x) : f[p + 1] = LineAt(i, 20) /\ Fits(Built(surface), SurfaceOf(x, i))
  BY <1>1, <1>2, WholePart
<1>4. ReadFrom(x, f, p + 1, Append(surfaces, Built(surface)))
  BY <1>2, <1>3, ReadMore
<1>5. target = None
  BY <1>1, NoTarget, TextStarts
<1>6. surfaces' = Append(surfaces, Built(surface)) /\ surface' = None /\ target' = target
  BY DEF EndSurface
<1> QED
  BY <1>4, <1>5, <1>6 DEF Traced

LEMMA TracedTextEnd ==
  ASSUME NEW x, NEW w, NEW f, NEW p, Tracing(x, w, f, p), EndText
  PROVE  Traced(x, f, p + 1)'
<1>1. Event.kind = "close" /\ Event.el \in TextElements /\ Event.kind # "text" /\ surface # None
  BY DEF EndText, BaseEnd, Takes
<1>2. /\ Event = doc[p + 1] /\ NextOf(x, w, f, doc, p) /\ ReadFrom(x, f, p, surfaces)
      /\ HeldBy(x, f, p, surface) /\ BuilderOK(surface) /\ buf \in Texts
      /\ target # None => target \in TextElements
  BY <1>1, TracingIs
<1>3. /\ surface' = IF Applies THEN WithText(surface, target, buf) ELSE surface
      /\ surfaces' = surfaces /\ target' = None
  BY DEF EndText
<1>4. HeldBy(x, f, p + 1, surface)
  <2>1. Event.el # "surface"
    BY <1>1, TextStarts
  <2> QED
    BY <1>2, <2>1, HeldStill
<1>5. ASSUME Applies PROVE HeldBy(x, f, p + 1, WithText(surface, target, buf))
  <2>1. target # None
    BY <1>5 DEF Applies
  <2>2. PICK i \in 1 .. Count(x) : /\ f[p + 1] = LineAt(i, TextStart[target] + 2)
                                   /\ Perhaps(buf, Trim[SurfaceOf(x, i).text[target]])
    BY <1>1, <2>1, TargetNext
  <2>3. Event.el = target
    BY <1>1, <2>1, TargetNext
  <2> QED
    BY <1>1, <1>2, <2>1, <2>2, <2>3, TextPart
<1>6. HeldBy(x, f, p + 1, surface')
  BY <1>3, <1>4, <1>5
<1>7. ReadFrom(x, f, p + 1, surfaces)
  BY <1>2, ReadStill
<1> QED
  BY <1>3, <1>6, <1>7 DEF Traced

LEMMA TracedEvent ==
  ASSUME NEW x, NEW w, NEW f, NEW p, Tracing(x, w, f, p), BaseNext, ~ BaseEof, ~ BaseFails
  PROVE  Traced(x, f, p + 1)'
<1>1. \/ StartSession \/ StartHost \/ StartStrip \/ StartFocus \/ StartOther
      \/ EndHost \/ EndOther
      \/ StartSurface \/ StartDimensions \/ StartText \/ TakeText \/ EndSurface \/ EndText
  BY DEF BaseNext
<1> QED
  BY <1>1, TracedPlain, TracedSurfaceStart, TracedDimensions, TracedTextStart, TracedText,
     TracedSurfaceEnd, TracedTextEnd

TraceInv ==
  /\ phase = "base" =>
       \A x, w, f, p :
         x = source /\ p = pos - 1 /\ w \in WrittenOf(x) /\ Origin(f, doc, w) => Traced(x, f, p)
  /\ phase \in {"coefficients", "accepted"} =>
       /\ image.body.surfaces = SortedByOrder(surfaces)
       /\ \A x, w, f :
            x = source /\ w \in WrittenOf(x) /\ Origin(f, doc, w)
              => ReadFrom(x, f, Len(doc), surfaces)

LEMMA TraceInit == ASSUME Init PROVE TraceInv
<1>1. phase = "base" /\ surface = None /\ target = None /\ surfaces = <<>>
  BY DEF Init
<1>2. ASSUME NEW x, NEW f, NEW p PROVE ReadFrom(x, f, p, <<>>)
  <2> DEFINE h == [m \in 1 .. 0 |-> m]
  <2>1. Len(<<>>) = 0 /\ h \in [1 .. 0 -> 1 .. Count(x)]
    OBVIOUS
  <2>2. ReadAs(x, f, p, <<>>, h)
    BY <2>1 DEF ReadAs
  <2> QED
    BY <2>2 DEF ReadFrom
<1> QED
  BY <1>1, <1>2 DEF TraceInv, Traced

LEMMA BaseFrame ==
  ASSUME ReadInv, BaseNext
  PROVE  /\ UNCHANGED <<source, doc>> /\ phase = "base" /\ pos \in Nat /\ Len(doc) \in Nat
         /\ pos \in 1 .. Len(doc) + 1
         /\ ~ BaseEof /\ ~ BaseFails => /\ pos' = pos + 1 /\ phase' = "base"
                                        /\ pos \in 1 .. Len(doc)
         /\ BaseEof => /\ pos = Len(doc) + 1 /\ phase' \in {"accepted", "coefficients"}
                       /\ surfaces' = surfaces
                       /\ image'.body.surfaces = SortedByOrder(surfaces)
         /\ BaseFails => phase' = "rejected"
<1>1. UNCHANGED <<source, doc>> /\ phase = "base"
  BY BaseKeeps, BasePhase
<1>2. Len(doc) \in Nat /\ pos \in 1 .. Len(doc) + 1
  BY LenProperties DEF ReadInv, DocumentInv
<1>3. ASSUME ~ BaseEof, ~ BaseFails PROVE pos' = pos + 1 /\ phase' = "base" /\ pos <= Len(doc)
  <2>1. \A kinds : Takes("base", kinds) => pos' = pos + 1 /\ phase' = "base" /\ pos <= Len(doc)
    BY DEF Takes
  <2> QED
    BY <1>3, <2>1 DEF BaseNext, EndHost, EndSurface, EndText, EndOther, BaseEnd, TakeText,
       StartSession, StartSurface, StartHost, StartText, StartDimensions,
       StartStrip, StartFocus, StartOther, BaseStart
<1>4. ASSUME BaseEof
      PROVE  /\ pos = Len(doc) + 1 /\ phase' \in {"accepted", "coefficients"}
             /\ surfaces' = surfaces /\ image'.body.surfaces = SortedByOrder(surfaces)
  <2>1. /\ pos = Len(doc) + 1 /\ phase' \in {"accepted", "coefficients"} /\ surfaces' = surfaces
    BY <1>4 DEF BaseEof
  <2> DEFINE b == [created  |-> session.created, schema   |-> session.schema,
                   surfaces |-> SortedByOrder(surfaces), scroll   |-> layout.scroll,
                   focus    |-> layout.focus]
  <2>2. image' = [id |-> session.id, body |-> b]
    BY <1>4 DEF BaseEof
  <2>3. b.surfaces = SortedByOrder(surfaces)
    OBVIOUS
  <2> HIDE DEF b
  <2>4. image'.body = b
    BY <2>2
  <2> QED
    BY <2>1, <2>3, <2>4
<1>5. BaseFails => phase' = "rejected"
  BY DEF BaseFails
<1> QED
  BY <1>1, <1>2, <1>3, <1>4, <1>5

LEMMA TraceBase == ASSUME ReadInv, TraceInv, BaseNext PROVE TraceInv'
<1>1. UNCHANGED <<source, doc>> /\ phase = "base" /\ Len(doc) \in Nat /\ pos \in Nat
  BY BaseFrame
<1>2. CASE BaseFails
  <2>1. phase' = "rejected"
    BY <1>2, BaseFrame
  <2> QED
    BY <2>1 DEF TraceInv
<1>3. CASE BaseEof
  <2>1. /\ pos = Len(doc) + 1 /\ phase' \in {"accepted", "coefficients"}
        /\ surfaces' = surfaces /\ image'.body.surfaces = SortedByOrder(surfaces)
    BY <1>3, BaseFrame
  <2>2. Len(doc) = pos - 1
    BY <1>1, <2>1
  <2>3. ASSUME NEW x, NEW w, NEW f, x = source, w \in WrittenOf(x), Origin(f, doc, w)
        PROVE  ReadFrom(x, f, Len(doc), surfaces)
    BY <1>1, <2>2, <2>3 DEF TraceInv, Traced
  <2> QED
    BY <1>1, <2>1, <2>3 DEF TraceInv
<1>4. CASE ~ BaseEof /\ ~ BaseFails
  <2>1. pos' = pos + 1 /\ phase' = "base" /\ pos \in 1 .. Len(doc)
    BY <1>4, BaseFrame
  <2>2. ASSUME NEW x, NEW w, NEW f, NEW q,
               x = source', q = pos' - 1, w \in WrittenOf(x), Origin(f, doc', w)
        PROVE  Traced(x, f, q)'
    <3> DEFINE p == q - 1
    <3>1. p \in Nat /\ pos = p + 1 /\ p = pos - 1 /\ q = p + 1 /\ p + 1 \in 1 .. Len(doc)
      BY <1>1, <2>1, <2>2
    <3> HIDE DEF p
    <3>2. x = source /\ Origin(f, doc, w) /\ Writing(x, w) /\ doc \in Seq(EventOf(x))
      BY <1>1, <2>2, WritingIs DEF ReadInv, DocumentInv
    <3>3. NextOf(x, w, f, doc, p)
      BY <3>1, <3>2 DEF NextOf
    <3>4. Traced(x, f, p)
      BY <1>1, <2>2, <3>1, <3>2 DEF TraceInv
    <3>5. Tracing(x, w, f, p)
      BY <3>1, <3>2, <3>3, <3>4 DEF Tracing
    <3>6. Traced(x, f, p + 1)'
      BY <1>4, <3>5, TracedEvent
    <3> QED
      BY <3>1, <3>6
  <2> QED
    BY <2>1, <2>2 DEF TraceInv
<1> QED
  BY <1>2, <1>3, <1>4

LEMMA BlockFrame == ASSUME BlockNext PROVE UNCHANGED baseVars
<1>1. CASE BlockEof \/ BlockFails
  BY <1>1 DEF BlockEof, BlockFails
<1>2. CASE ~ (BlockEof \/ BlockFails)
  BY <1>2 DEF BlockNext, StartCoefficients, StartEntry, StartDelayPath, StartSecurity,
         StartLinearity, EndCoefficients, EndEntry, Ignore, BlockStart
<1> QED
  BY <1>1, <1>2

LEMMA TraceStep == ASSUME ReadInv, TraceInv, [Next]_vars PROVE TraceInv'
<1>1. CASE BaseNext
  BY <1>1, TraceBase
<1>2. CASE BlockNext
  <2>1. UNCHANGED <<source, doc, surfaces, image>> /\ phase = "coefficients"
        /\ phase' \in {"coefficients", "accepted", "rejected"}
    BY <1>2, BlockKeeps, BlockFrame DEF baseVars
  <2> QED
    BY <2>1 DEF TraceInv
<1>3. CASE Returned \/ UNCHANGED vars
  <2>1. UNCHANGED <<source, doc, pos, phase, surfaces, surface, target, buf, image>>
    BY <1>3 DEF Returned, vars, documentVars, baseVars
  <2>2. ASSUME NEW x, NEW f, NEW p, Traced(x, f, p) PROVE Traced(x, f, p)'
    BY <2>1, <2>2 DEF Traced
  <2> QED
    BY <2>1, <2>2 DEF TraceInv
<1> QED
  BY <1>1, <1>2, <1>3 DEF Next

LEMMA TraceHolds == Spec => []TraceInv
BY TraceInit, TraceStep, ReadInvHolds, PTL DEF Spec

(***************************************************************************)
(* The texts of a document that was not refused stand inside surfaces.     *)
(***************************************************************************)
OpenedIn(d, p) ==
  \E j \in 1 .. p : /\ d[j].kind = "open" /\ d[j].el = "surface"
                    /\ \A k \in j .. p : d[k] # Close("surface")

Surrounded(d, i) ==
  \E j \in 1 .. i - 1 : /\ d[j].kind = "open" /\ d[j].el = "surface"
                        /\ \A k \in j .. i : d[k] # Close("surface")

ClosedInside(d, p) ==
  \A i \in 1 .. p : d[i].kind = "close" /\ d[i].el \in TextElements => Surrounded(d, i)

LEMMA OpenedStill ==
  ASSUME NEW d, NEW p \in Nat, OpenedIn(d, p), d[p + 1] # Close("surface")
  PROVE  OpenedIn(d, p + 1) /\ Surrounded(d, p + 1)
<1>1. PICK j \in 1 .. p : /\ d[j].kind = "open" /\ d[j].el = "surface"
                          /\ \A k \in j .. p : d[k] # Close("surface")
  BY DEF OpenedIn
<1>2. \A k \in j .. p + 1 : k \in j .. p \/ k = p + 1
  BY <1>1
<1>3. \A k \in j .. p + 1 : d[k] # Close("surface")
  BY <1>1, <1>2
<1>4. j \in 1 .. p + 1 /\ j \in 1 .. (p + 1) - 1
  BY <1>1
<1> QED
  BY <1>1, <1>3, <1>4 DEF OpenedIn, Surrounded

LEMMA ClosedStill ==
  ASSUME NEW d, NEW p \in Nat, ClosedInside(d, p),
         d[p + 1].kind = "close" /\ d[p + 1].el \in TextElements => OpenedIn(d, p)
  PROVE  ClosedInside(d, p + 1)
<1>1. ASSUME d[p + 1].kind = "close", d[p + 1].el \in TextElements PROVE Surrounded(d, p + 1)
  <2>1. d[p + 1].el # "surface"
    BY <1>1, TextStarts
  <2>2. d[p + 1] # Close("surface")
    BY <2>1, CloseTag
  <2> QED
    BY <1>1, <2>2, OpenedStill
<1>2. \A i \in 1 .. p + 1 : i \in 1 .. p \/ i = p + 1
  OBVIOUS
<1> QED
  BY <1>1, <1>2 DEF ClosedInside

InsideInv ==
  /\ phase = "base" => /\ surface # None => OpenedIn(doc, pos - 1)
                       /\ ClosedInside(doc, pos - 1)
  /\ phase \in {"coefficients", "accepted"} => ClosedInside(doc, Len(doc))

LEMMA InsideInit == ASSUME Init PROVE InsideInv
<1>1. phase = "base" /\ surface = None /\ pos - 1 = 0
  BY DEF Init
<1> QED
  BY <1>1 DEF InsideInv, ClosedInside

\* a surface is opened by a start tag that has an end tag of its own
LEMMA OpensAsOpen ==
  ASSUME ReadInv, pos \in 1 .. Len(doc), Event.el = "surface", Event.kind \in Start
  PROVE  Event.kind = "open"
<1>1. PICK w \in WrittenOf(source) : ComesFrom(doc, w)
  BY DEF ReadInv, DocumentInv
<1>2. source \in Sources /\ doc \in Seq(EventOf(source)) /\ Writing(source, w)
  BY WritingIs DEF ReadInv, DocumentInv
<1>3. PICK f : Origin(f, doc, w)
  BY <1>1, <1>2, DocumentTraced
<1> DEFINE v == f[pos]
<1>4. v \in 1 .. Len(w) /\ Weaker(Event, w[v])
  BY <1>3 DEF Origin, Event
<1>5. w[v].el = "surface" /\ w[v].kind # "close" /\ Event.kind = w[v].kind
  BY <1>4 DEF Weaker, Start
<1>6. PICK i \in 1 .. Count(source) : v = LineAt(i, 1)
  BY <1>2, <1>4, <1>5, WhereIs
<1>7. w[v] = Open("surface", SurfaceAttrs(SurfaceOf(source, i)))
  BY <1>2, <1>6, LinesAre DEF Writing, Intact, LineTable
<1>8. w[v].kind = "open"
  BY <1>7, OpenTag
<1> QED
  BY <1>5, <1>8

LEMMA InsideEvent ==
  ASSUME ReadInv, InsideInv, BaseNext, ~ BaseEof, ~ BaseFails
  PROVE  /\ surface' # None => OpenedIn(doc, pos)
         /\ ClosedInside(doc, pos)
<1> DEFINE p == pos - 1
<1>1. /\ pos \in 1 .. Len(doc) /\ phase = "base" /\ p \in Nat /\ p + 1 = pos
  BY BaseFrame
<1>2. /\ surface # None => OpenedIn(doc, p)
      /\ ClosedInside(doc, p) /\ Event = doc[p + 1]
  BY <1>1 DEF InsideInv, Event
<1> HIDE DEF p
<1>3. CASE StartSurface
  <2>1. Event.el = "surface" /\ Event.kind \in Start
    BY <1>3, BaseStartIs DEF StartSurface
  <2>2. Event.kind = "open"
    BY <1>1, <2>1, OpensAsOpen
  <2>3. doc[p + 1] # Close("surface")
    BY <1>2, <2>2, CloseTag
  <2>4. \A k \in p + 1 .. p + 1 : k = p + 1
    BY <1>1
  <2>5. p + 1 \in 1 .. p + 1
    BY <1>1
  <2>6. OpenedIn(doc, p + 1)
    BY <1>2, <2>1, <2>2, <2>3, <2>4, <2>5 DEF OpenedIn
  <2>7. ClosedInside(doc, p + 1)
    BY <1>1, <1>2, <2>2, ClosedStill
  <2> QED
    BY <1>1, <2>6, <2>7
<1>4. CASE EndSurface
  <2>1. surface' = None /\ Event.el = "surface"
    BY <1>4 DEF EndSurface, BaseEnd, Takes
  <2>2. Event.el \notin TextElements
    BY <2>1, TextStarts
  <2>3. ClosedInside(doc, p + 1)
    BY <1>1, <1>2, <2>2, ClosedStill
  <2> QED
    BY <1>1, <2>1, <2>3
<1>5. CASE EndText
  <2>1. surface # None /\ Event.el \in TextElements
    BY <1>5 DEF EndText, BaseEnd, Takes
  <2>2. Event.el # "surface"
    BY <2>1, TextStarts
  <2>3. doc[p + 1] # Close("surface")
    BY <1>2, <2>2, CloseTag
  <2>4. ClosedInside(doc, p + 1) /\ OpenedIn(doc, p + 1)
    BY <1>1, <1>2, <2>1, <2>3, ClosedStill, OpenedStill
  <2> QED
    BY <1>1, <2>4
<1>6. CASE ~ (StartSurface \/ EndSurface \/ EndText)
  <2>1. /\ surface' # None => surface # None
        /\ Event.kind = "close" => Event.el \notin TextElements \cup {"surface"}
    <3>1. CASE EndHost \/ EndOther
      BY <3>1, TextStarts DEF EndHost, EndOther, BaseEnd, Takes
    <3>2. CASE TakeText
      BY <3>2 DEF TakeText, Takes
    <3>3. CASE \/ StartSession \/ StartHost \/ StartText \/ StartDimensions \/ StartStrip
               \/ StartFocus \/ StartOther
      <4>1. \E el : BaseStart(el)
        BY <3>3 DEF StartSession, StartHost, StartText, StartDimensions, StartStrip, StartFocus,
                    StartOther
      <4>2. Event.kind # "close"
        BY <4>1, BaseStartIs
      <4>3. surface' # None => surface # None
        BY <3>3 DEF StartSession, StartHost, StartText, StartDimensions, StartStrip, StartFocus,
                    StartOther
      <4> QED
        BY <4>2, <4>3
    <3> QED
      BY <1>6, <3>1, <3>2, <3>3 DEF BaseNext
  <2>2. doc[p + 1] # Close("surface")
    BY <1>2, <2>1, CloseTag
  <2>3. surface' # None => OpenedIn(doc, p + 1)
    BY <1>1, <1>2, <2>1, <2>2, OpenedStill
  <2>4. ClosedInside(doc, p + 1)
    BY <1>1, <1>2, <2>1, ClosedStill
  <2> QED
    BY <1>1, <2>3, <2>4
<1> QED
  BY <1>3, <1>4, <1>5, <1>6

LEMMA InsideStep == ASSUME ReadInv, InsideInv, [Next]_vars PROVE InsideInv'
<1>1. CASE BaseNext
  <2>1. UNCHANGED <<source, doc>> /\ phase = "base" /\ Len(doc) \in Nat /\ pos \in Nat
    BY <1>1, BaseFrame
  <2>2. CASE BaseFails
    BY <1>1, <2>2, BaseFrame DEF InsideInv
  <2>3. CASE BaseEof
    <3>1. pos = Len(doc) + 1 /\ phase' \in {"accepted", "coefficients"}
      BY <1>1, <2>3, BaseFrame
    <3>2. pos - 1 = Len(doc)
      BY <2>1, <3>1
    <3> QED
      BY <2>1, <3>1, <3>2 DEF InsideInv
  <2>4. CASE ~ BaseEof /\ ~ BaseFails
    <3>1. pos' = pos + 1 /\ phase' = "base"
      BY <1>1, <2>4, BaseFrame
    <3>2. pos' - 1 = pos
      BY <2>1, <3>1
    <3>3. /\ surface' # None => OpenedIn(doc, pos)
          /\ ClosedInside(doc, pos)
      BY <1>1, <2>4, InsideEvent
    <3> QED
      BY <2>1, <3>1, <3>2, <3>3 DEF InsideInv
  <2> QED
    BY <2>2, <2>3, <2>4
<1>2. CASE BlockNext
  BY <1>2, BlockKeeps DEF InsideInv
<1>3. CASE Returned \/ UNCHANGED vars
  BY <1>3 DEF Returned, vars, documentVars, baseVars, InsideInv
<1> QED
  BY <1>1, <1>2, <1>3 DEF Next

LEMMA InsideHolds == Spec => []InsideInv
BY InsideInit, InsideStep, ReadInvHolds, PTL DEF Spec

\* what is sorted is what there was
LEMMA SortedFrom ==
  ASSUME NEW s \in Seq(SurfaceEntry), NEW k \in DOMAIN SortedByOrder(s)
  PROVE  \E i \in 1 .. Len(s) : Place(s, i) = k /\ SortedByOrder(s)[k] = s[i]
<1> DEFINE P(i) == Place(s, i) = k
           c == CHOOSE i \in DOMAIN s : P(i)
<1>1. DOMAIN s = 1 .. Len(s) /\ k \in 1 .. Len(s)
  BY SurfacesOf DEF SortedByOrder
<1>2. \E i \in DOMAIN s : P(i)
  BY <1>1, PlaceIs
<1>3. c \in DOMAIN s /\ P(c)
  <2> HIDE DEF P
  <2> QED
    BY <1>2
<1>4. SortedByOrder(s)[k] = s[c]
  BY <1>1 DEF SortedByOrder
<1> HIDE DEF c
<1> QED
  BY <1>1, <1>3, <1>4

LEMMA NothingMixed ==
  ASSUME ReadInv, TraceInv, InsideInv PROVE NothingBlended
<1> SUFFICES ASSUME phase = "accepted" PROVE NothingBlended
  BY DEF NothingBlended
<1>1. PICK w \in WrittenOf(source) : ComesFrom(doc, w)
  BY DEF ReadInv, DocumentInv
<1>2. source \in Sources /\ doc \in Seq(EventOf(source)) /\ source \in ImageV1
  BY ParserAssumption DEF ReadInv, DocumentInv
<1>3. PICK f : Origin(f, doc, w)
  BY <1>1, <1>2, DocumentTraced
<1>4. image.body.surfaces = SortedByOrder(surfaces) /\ surfaces \in Seq(SurfaceEntry)
  BY DEF TraceInv, ReadInv, BaseTypes
<1>5. PICK h : ReadAs(source, f, Len(doc), surfaces, h)
  BY <1>3 DEF TraceInv, ReadFrom
<1>6. DOMAIN source.base.body.surfaces = 1 .. Count(source)
  BY <1>2, ImageFields, SurfacesOf DEF Count
<1>7. ASSUME NEW k \in DOMAIN image.body.surfaces
      PROVE  \E j \in DOMAIN source.base.body.surfaces :
               Fits(image.body.surfaces[k], source.base.body.surfaces[j])
  <2>1. PICK i \in 1 .. Len(surfaces) : image.body.surfaces[k] = surfaces[i]
    BY <1>4, <1>7, SortedFrom
  <2>2. h[i] \in 1 .. Count(source) /\ Fits(surfaces[i], SurfaceOf(source, h[i]))
    BY <1>5, <2>1 DEF ReadAs
  <2> QED
    BY <1>6, <2>1, <2>2 DEF SurfaceOf
<1>8. ASSUME NEW i \in DOMAIN doc, doc[i].kind = "close", doc[i].el \in TextElements
      PROVE  InsideSurface(i)
  <2>1. i \in 1 .. Len(doc)
    BY <1>2
  <2>2. Surrounded(doc, i)
    BY <1>8, <2>1 DEF InsideInv, ClosedInside
  <2> QED
    BY <2>2 DEF Surrounded, InsideSurface
<1> QED
  BY <1>7, <1>8 DEF NothingBlended, Fits

(***************************************************************************)
(* Every surface of an image that was read has the identifier, the name,   *)
(* the texts, the place and the dimensions of one surface of the source,   *)
(* and a text element that is closed outside every surface is refused.     *)
(* The reader carries its builder, its open text element and its list from *)
(* event to event; a tag or an element that is missing never leaves it     *)
(* with parts of two surfaces: what is incomplete is refused where the     *)
(* surface closes.                                                         *)
(***************************************************************************)
THEOREM NothingIsBlended == Spec => []NothingBlended
BY ReadInvHolds, TraceHolds, InsideHolds, NothingMixed, PTL

(***************************************************************************)
(* The entries of a written coefficient block, and the brackets they are.  *)
(***************************************************************************)
Source(x, w) == x \in Sources /\ w \in WrittenOf(x)

\* the surfaces that have an entry in w
EntriesIn(x, w) == {i \in 1 .. Count(x) : w = ToXmlV1(x) /\ Listed(x, i)}

BlockFirst(x) == PreludeEnd(x) + 1
BlockLast(x) == PreludeEnd(x) + 2 + Offsets(x)[Count(x)]
EntryLineAt(x, i, k) == PreludeEnd(x) + 1 + (Offsets(x)[i - 1] + k)
EntryStart(x, i) == EntryLineAt(x, i, 1)
EntryEnd(x, i) == EntryLineAt(x, i, PieceLen(x, i))

LEMMA SourceIs ==
  ASSUME NEW x, NEW w, Source(x, w)
  PROVE  /\ Writing(x, w) /\ x \in ImageV1 /\ Placed(x)
         /\ w \in Documents(EventOf(x)) /\ Len(w) \in Nat
         /\ Count(x) = Len(x.base.body.surfaces) /\ Count(x) \in Nat /\ PreludeEnd(x) \in Nat
         /\ PreludeEnd(x) >= 1 /\ Intact(w, x)
<1>1. x \in Sources /\ w \in WrittenOf(x)
  BY DEF Source
<1>2. Writing(x, w) /\ Placed(x) /\ x \in ImageV1
  BY <1>1, WritingIs, PlacedWritten
<1>3. Count(x) = Len(x.base.body.surfaces)
  BY DEF Count
<1>4. /\ Count(x) \in Nat /\ PreludeEnd(x) \in Nat
      /\ PreludeEnd(x) = SurfaceLines(x) + 6 + FocusLines(x) /\ SurfaceLines(x) \in Nat
      /\ FocusLines(x) \in {0, 1}
  BY <1>2, <1>3, PreludeEndIs
<1>5. PreludeEnd(x) >= 1
  BY <1>4
<1> QED
  BY <1>2, <1>3, <1>4, <1>5 DEF Writing

LEMMA EntryIs ==
  ASSUME NEW x, NEW w, Source(x, w), NEW i \in EntriesIn(x, w)
  PROVE  /\ i \in 1 .. Count(x) /\ w = ToXmlV1(x) /\ i \in Nat
         /\ GradeOf(x, i) \in Coefficient /\ Len(GradeOf(x, i).timing) \in Nat
         /\ PieceLen(x, i) = Len(GradeOf(x, i).timing) + 6
         /\ CoefficientTable(CoefficientPieces(x)[i], IdOf(x, i), GradeOf(x, i))
         /\ IdOf(x, i) \in SurfaceIds
         /\ \A k \in 1 .. PieceLen(x, i) : w[EntryLineAt(x, i, k)] = CoefficientPieces(x)[i][k]
<1>1. i \in 1 .. Count(x) /\ w = ToXmlV1(x) /\ Listed(x, i)
  BY DEF EntriesIn
<1>2. x \in ImageV1 /\ Count(x) = Len(x.base.body.surfaces) /\ Count(x) \in Nat
  BY SourceIs
<1>3. /\ IdOf(x, i) \in SurfaceIds /\ GradeOf(x, i) \in Coefficient
      /\ PieceLen(x, i) = Len(GradeOf(x, i).timing) + 6
      /\ CoefficientTable(CoefficientPieces(x)[i], IdOf(x, i), GradeOf(x, i))
  BY <1>1, <1>2, PieceIsBlock
<1>4. Len(GradeOf(x, i).timing) \in Nat
  BY <1>3, CoefficientValues
<1>5. BlockTable(w, x)
  BY <1>1, PlacedWritten DEF Source
<1>6. \A k \in 1 .. PieceLen(x, i) : w[EntryLineAt(x, i, k)] = CoefficientPieces(x)[i][k]
  BY <1>1, <1>2, <1>5 DEF BlockTable, EntryLineAt
<1>7. i \in Nat
  BY <1>1, <1>2
<1> QED
  BY <1>1, <1>3, <1>4, <1>6, <1>7

\* where an entry lies
LEMMA EntryLies ==
  ASSUME NEW x, NEW w, Source(x, w), NEW i \in EntriesIn(x, w)
  PROVE  /\ EntryStart(x, i) \in Nat /\ EntryEnd(x, i) \in Nat /\ BlockLast(x) \in Nat
         /\ BlockFirst(x) \in Nat /\ BlockFirst(x) < EntryStart(x, i)
         /\ EntryStart(x, i) < EntryEnd(x, i) /\ EntryEnd(x, i) < BlockLast(x)
         /\ BlockLast(x) < Len(w)
<1> DEFINE n == Count(x)
           M == PreludeEnd(x)
           at == Offsets(x)
           l == PieceLen(x, i)
           a == at[i - 1]
           b == at[n]
<1>1. i \in 1 .. n /\ w = ToXmlV1(x) /\ l = Len(GradeOf(x, i).timing) + 6
      /\ Len(GradeOf(x, i).timing) \in Nat
  BY EntryIs
<1>2. M \in Nat /\ n \in Nat /\ n = Len(x.base.body.surfaces) /\ Placed(x)
  BY SourceIs
<1>3. b \in Nat /\ a \in Nat /\ at[i] = a + l /\ at[i] <= b
  BY <1>1, <1>2, PlacedAre
<1>4. Len(w) = M + b + 3
  BY <1>1, <1>2, PlacedWritten DEF Source, BlockTable
<1> DEFINE t == Len(GradeOf(x, i).timing)
<1>5. l = t + 6 /\ t \in Nat /\ a + l <= b
  BY <1>1, <1>3
<1>6. /\ EntryStart(x, i) = M + 1 + (a + 1) /\ EntryEnd(x, i) = M + 1 + (a + l)
      /\ BlockLast(x) = M + 2 + b /\ BlockFirst(x) = M + 1
  BY DEF EntryStart, EntryEnd, EntryLineAt, BlockLast, BlockFirst
<1> DEFINE u == EntryStart(x, i)
           v == EntryEnd(x, i)
           y == BlockLast(x)
           z == BlockFirst(x)
           m == Len(w)
<1>7. u = M + 1 + (a + 1) /\ v = M + 1 + (a + l) /\ y = M + 2 + b /\ z = M + 1 /\ m = M + b + 3
  BY <1>4, <1>6
<1> HIDE DEF n, M, at, l, a, b, t, u, v, y, z, m
<1>8. u \in Nat /\ v \in Nat /\ y \in Nat /\ z \in Nat /\ z < u /\ u < v /\ v < y /\ y < m
  BY <1>2, <1>3, <1>5, <1>7
<1> QED
  BY <1>8 DEF u, v, y, z, m

\* entries do not overlap
LEMMA EntryOrder ==
  ASSUME NEW x, NEW w, Source(x, w), NEW i \in EntriesIn(x, w), NEW j \in EntriesIn(x, w)
  PROVE  /\ EntryStart(x, j) < EntryEnd(x, i) /\ EntryStart(x, i) < EntryEnd(x, j) => i = j
         /\ EntryEnd(x, j) = EntryEnd(x, i) => i = j
         /\ i # j => EntryEnd(x, i) < EntryStart(x, j) \/ EntryEnd(x, j) < EntryStart(x, i)
<1> DEFINE n == Count(x)
           M == PreludeEnd(x)
           at == Offsets(x)
           Before(k, m) == EntryEnd(x, k) < EntryStart(x, m)
<1>1. i \in 1 .. n /\ j \in 1 .. n /\ i \in Nat /\ j \in Nat
  BY EntryIs
<1>2. M \in Nat /\ n \in Nat /\ n = Len(x.base.body.surfaces) /\ Placed(x)
  BY SourceIs
<1>3. ASSUME NEW k \in 1 .. n, NEW m \in 1 .. n, k < m PROVE Before(k, m)
  <2>1. k \in 0 .. n /\ m - 1 \in 0 .. n /\ k <= m - 1
    BY <1>2, <1>3
  <2>2. at[k] <= at[m - 1]
    BY <1>2, <2>1 DEF Placed, Growing
  <2>3. at[k] = at[k - 1] + PieceLen(x, k) /\ at[k] \in Nat /\ at[m - 1] \in Nat
    BY <1>2, <2>1, PlacedAre
  <2> DEFINE a == at[k]
             b == at[m - 1]
  <2>4. EntryEnd(x, k) = M + 1 + a /\ EntryStart(x, m) = M + 1 + (b + 1) /\ a <= b
        /\ a \in Nat /\ b \in Nat
    BY <2>2, <2>3 DEF EntryStart, EntryEnd, EntryLineAt
  <2> DEFINE u == EntryEnd(x, k)
             v == EntryStart(x, m)
  <2> HIDE DEF a, b, M, u, v
  <2>5. u < v
    BY <1>2, <2>4 DEF u, v
  <2> QED
    BY <2>5 DEF u, v
<1>4. i # j => Before(i, j) \/ Before(j, i)
  <2> HIDE DEF Before
  <2>1. i < j \/ j < i \/ i = j
    BY <1>1
  <2> QED
    BY <1>1, <1>3, <2>1
<1>5. /\ EntryStart(x, i) \in Nat /\ EntryEnd(x, i) \in Nat /\ EntryStart(x, j) \in Nat
      /\ EntryEnd(x, j) \in Nat
      /\ EntryStart(x, i) < EntryEnd(x, i) /\ EntryStart(x, j) < EntryEnd(x, j)
  BY EntryLies
<1> DEFINE a == EntryStart(x, i)
           b == EntryEnd(x, i)
           c == EntryStart(x, j)
           d == EntryEnd(x, j)
<1>6. a \in Nat /\ b \in Nat /\ c \in Nat /\ d \in Nat /\ a < b /\ c < d
      /\ (i # j => b < c \/ d < a)
  BY <1>4, <1>5
<1> HIDE DEF a, b, c, d
<1>7. (c < b /\ a < d => i = j) /\ (d = b => i = j)
  BY <1>6
<1> QED
  BY <1>6, <1>7 DEF a, b, c, d

\* what stands on a line of an entry
LEMMA EntryLineIs ==
  ASSUME NEW x, NEW w, Source(x, w), NEW i \in EntriesIn(x, w), NEW k \in 1 .. PieceLen(x, i)
  PROVE  LET e == w[EntryLineAt(x, i, k)]
             m == Len(GradeOf(x, i).timing)
         IN  /\ k = 1 => e = Open("surface-coefficient", RefAttrs(IdOf(x, i)))
             /\ k = 2 => e = Open("timing", <<>>)
             /\ k = m + 3 => e = Close("timing")
             /\ k = m + 6 => e = Close("surface-coefficient")
             /\ k \notin {1, 2, m + 3, m + 6} =>
                  e.kind = "empty" /\ e.el \in {"delay-path", "security", "linearity"}
<1> DEFINE e == w[EntryLineAt(x, i, k)]
           c == GradeOf(x, i)
           m == Len(c.timing)
           p == CoefficientPieces(x)[i]
           l == PieceLen(x, i)
<1>1. /\ m \in Nat /\ l = m + 6 /\ CoefficientTable(p, IdOf(x, i), c) /\ e = p[k]
  BY EntryIs
<1>2. k \in 1 .. m + 6
  BY <1>1
<1>3. /\ p[1] = Open("surface-coefficient", RefAttrs(IdOf(x, i)))
      /\ p[2] = Open("timing", <<>>)
      /\ \A j \in 1 .. m : p[2 + j] = Empty("delay-path", c.timing[j])
      /\ p[m + 3] = Close("timing")
      /\ p[m + 4] = Empty("security", LabelAttrs(c))
      /\ p[m + 5] = Empty("linearity", UseAttrs(c))
      /\ p[m + 6] = Close("surface-coefficient")
  BY <1>1 DEF CoefficientTable
<1> HIDE DEF e, p, l, m, c
<1>4. CASE k = m + 4
  <2>1. e = Empty("security", LabelAttrs(c))
    BY <1>1, <1>3, <1>4
  <2>2. e.kind = "empty" /\ e.el = "security"
    BY <2>1, EmptyTag
  <2> QED
    BY <1>1, <1>4, <2>2 DEF e, m, c
<1>5. CASE k = m + 5
  <2>1. e = Empty("linearity", UseAttrs(c))
    BY <1>1, <1>3, <1>5
  <2>2. e.kind = "empty" /\ e.el = "linearity"
    BY <2>1, EmptyTag
  <2> QED
    BY <1>1, <1>5, <2>2 DEF e, m, c
<1>6. CASE k \in 3 .. m + 2
  <2> DEFINE j == k - 2
  <2>1. j \in 1 .. m /\ k = 2 + j
    BY <1>1, <1>6
  <2> HIDE DEF j
  <2>2. e = Empty("delay-path", c.timing[j])
    BY <1>1, <1>3, <2>1
  <2>3. e.kind = "empty" /\ e.el = "delay-path"
    BY <2>2, EmptyTag
  <2> QED
    BY <1>1, <1>6, <2>3 DEF e, m, c
<1>7. CASE k \in {1, 2, m + 3, m + 6}
  BY <1>1, <1>3, <1>7 DEF e, m, c
<1>8. k \in 3 .. m + 2 \/ k \in {1, 2, m + 3, m + 4, m + 5, m + 6}
  BY <1>1, <1>2
<1> QED
  BY <1>4, <1>5, <1>6, <1>7, <1>8 DEF e, m, c

LEMMA EntryTags ==
  ASSUME NEW x, NEW w, Source(x, w), NEW i \in EntriesIn(x, w)
  PROVE  /\ w[EntryStart(x, i)] = Open("surface-coefficient", RefAttrs(IdOf(x, i)))
         /\ w[EntryEnd(x, i)] = Close("surface-coefficient")
<1>1. Len(GradeOf(x, i).timing) \in Nat /\ PieceLen(x, i) = Len(GradeOf(x, i).timing) + 6
  BY EntryIs
<1>2. 1 \in 1 .. PieceLen(x, i) /\ PieceLen(x, i) \in 1 .. PieceLen(x, i)
  BY <1>1
<1>3. w[EntryLineAt(x, i, 1)] = Open("surface-coefficient", RefAttrs(IdOf(x, i)))
  BY <1>2, EntryLineIs
<1>4. w[EntryLineAt(x, i, PieceLen(x, i))] = Close("surface-coefficient")
  BY <1>1, <1>2, EntryLineIs
<1> QED
  BY <1>3, <1>4 DEF EntryStart, EntryEnd

\* what stands after the layout
LEMMA TailCover ==
  ASSUME NEW x, NEW w, Source(x, w), NEW v \in 1 .. Len(w), v > PreludeEnd(x)
  PROVE  \/ w[v] = Close("session")
         \/ w = ToXmlV1(x) /\ v = BlockFirst(x) /\ w[v] = Open("coefficients", <<>>)
         \/ w = ToXmlV1(x) /\ v = BlockLast(x) /\ w[v] = Close("coefficients")
         \/ \E i \in EntriesIn(x, w) : \E k \in 1 .. PieceLen(x, i) : v = EntryLineAt(x, i, k)
<1> DEFINE n == Count(x)
           M == PreludeEnd(x)
           at == Offsets(x)
<1>1. /\ x \in Sources /\ w \in WrittenOf(x) /\ M \in Nat /\ n \in Nat
      /\ n = Len(x.base.body.surfaces) /\ Placed(x) /\ x \in ImageV1 /\ Len(w) \in Nat
  BY SourceIs DEF Source
<1>2. CASE w = ToXml(x.base)
  <2>1. DocumentTable(w, x, <<>>)
    BY <1>1, <1>2, WrittenIs
  <2>2. Len(w) = M + 1 /\ w[Len(w)] = Close("session")
    BY <1>1, <2>1 DEF DocumentTable
  <2>3. v = Len(w)
    BY <1>1, <2>2
  <2> QED
    BY <2>2, <2>3
<1>3. CASE w = ToXmlV1(x)
  <2>1. BlockTable(w, x)
    BY <1>1, <1>3, PlacedWritten
  <2>2. /\ Len(w) = M + at[n] + 3 /\ w[M + 1] = Open("coefficients", <<>>)
        /\ w[M + 2 + at[n]] = Close("coefficients") /\ w[M + 3 + at[n]] = Close("session")
        /\ \A q \in 1 .. at[n] : \E i \in 1 .. n : \E k \in 1 .. PieceLen(x, i) :
             q = at[i - 1] + k
    BY <1>1, <2>1 DEF BlockTable
  <2>3. at[n] \in Nat
    BY <1>1, PlacedAre
  <2> DEFINE b == at[n]
             q == v - M - 1
  <2>4. b \in Nat /\ Len(w) = M + b + 3 /\ v \in 1 .. Len(w)
    BY <2>2, <2>3
  <2>5. v \in Int /\ v > M /\ v <= M + b + 3
    <3> HIDE DEF b
    <3> QED
      BY <1>1, <2>4
  <2>6. \/ v = M + 1 \/ v = M + 2 + b \/ v = M + 3 + b
        \/ q \in 1 .. b /\ v = M + 1 + q
    <3> HIDE DEF b, M
    <3> QED
      BY <1>1, <2>4, <2>5
  <2>7. CASE q \in 1 .. b /\ v = M + 1 + q
    <3>1. PICK i \in 1 .. n : \E k \in 1 .. PieceLen(x, i) : q = at[i - 1] + k
      BY <2>2, <2>7
    <3>2. PICK k \in 1 .. PieceLen(x, i) : q = at[i - 1] + k
      BY <3>1
    <3>3. Listed(x, i)
      <4> DEFINE l == PieceLen(x, i)
      <4>1. k \in 1 .. l
        BY <3>2
      <4> HIDE DEF l
      <4>2. l # 0
        BY <4>1
      <4> QED
        BY <1>1, <4>2, PieceIsBlock DEF l
    <3>4. i \in EntriesIn(x, w)
      BY <1>3, <3>3 DEF EntriesIn
    <3>5. v = EntryLineAt(x, i, k)
      BY <2>7, <3>2 DEF EntryLineAt
    <3> QED
      BY <3>4, <3>5
  <2>8. BlockFirst(x) = M + 1 /\ BlockLast(x) = M + 2 + b
    BY DEF BlockFirst, BlockLast
  <2>9. CASE v = M + 3 + b
    BY <2>2, <2>9
  <2>10. CASE v = M + 1
    BY <1>3, <2>2, <2>8, <2>10
  <2>11. CASE v = M + 2 + b
    BY <1>3, <2>2, <2>8, <2>11
  <2> QED
    BY <2>6, <2>7, <2>9, <2>10, <2>11
<1> QED
  BY <1>1, <1>2, <1>3 DEF WrittenOf

\* where the tags of the block and of its entries stand
LEMMA WhereTags ==
  ASSUME NEW x, NEW w, Source(x, w), NEW v \in 1 .. Len(w)
  PROVE  /\ w[v].el = "surface-coefficient" =>
              \E i \in EntriesIn(x, w) : \/ v = EntryStart(x, i) /\ w[v].kind = "open"
                                         \/ v = EntryEnd(x, i) /\ w[v].kind = "close"
         /\ w[v].el = "coefficients" =>
              /\ w = ToXmlV1(x)
              /\ \/ v = BlockFirst(x) /\ w[v].kind = "open"
                 \/ v = BlockLast(x) /\ w[v].kind = "close"
<1> DEFINE e == w[v]
<1>1. x \in ImageV1 /\ PreludeTable(w, x) /\ PreludeEnd(x) \in Nat /\ Len(w) \in Nat
  BY SourceIs DEF Intact
<1>2. CASE v <= PreludeEnd(x)
  <2>1. v \in 1 .. PreludeEnd(x)
    BY <1>1, <1>2
  <2>2. w[v].el \notin BlockWords
    BY <1>1, <2>1, PreludeEvents
  <2> QED
    BY <2>2 DEF BlockWords, BlockElements
<1>3. CASE v > PreludeEnd(x)
  <2>1. CASE e = Close("session")
    <3> HIDE DEF e
    <3>1. e.el = "session"
      BY <2>1, CloseTag
    <3> QED
      BY <3>1 DEF e
  <2>2. CASE w = ToXmlV1(x) /\ v = BlockFirst(x) /\ e = Open("coefficients", <<>>)
    <3>1. e.el = "coefficients" /\ e.kind = "open"
      BY <2>2, OpenTag
    <3> QED
      BY <2>2, <3>1
  <2>3. CASE w = ToXmlV1(x) /\ v = BlockLast(x) /\ e = Close("coefficients")
    <3>1. e.el = "coefficients" /\ e.kind = "close"
      BY <2>3, CloseTag
    <3> QED
      BY <2>3, <3>1
  <2>4. ASSUME NEW i \in EntriesIn(x, w), NEW k \in 1 .. PieceLen(x, i),
               v = EntryLineAt(x, i, k)
        PROVE  /\ e.el # "coefficients"
               /\ e.el = "surface-coefficient" =>
                    \/ v = EntryStart(x, i) /\ e.kind = "open"
                    \/ v = EntryEnd(x, i) /\ e.kind = "close"
    <3> DEFINE m == Len(GradeOf(x, i).timing)
    <3>1. /\ k = 1 => e = Open("surface-coefficient", RefAttrs(IdOf(x, i)))
          /\ k = 2 => e = Open("timing", <<>>)
          /\ k = m + 3 => e = Close("timing")
          /\ k = m + 6 => e = Close("surface-coefficient")
          /\ k \notin {1, 2, m + 3, m + 6} =>
               e.kind = "empty" /\ e.el \in {"delay-path", "security", "linearity"}
      BY <2>4, EntryLineIs
    <3>2. PieceLen(x, i) = m + 6
      BY EntryIs
    <3>4. k = 1 => v = EntryStart(x, i)
      BY <2>4 DEF EntryStart
    <3>5. k = m + 6 => v = EntryEnd(x, i)
      BY <2>4, <3>2 DEF EntryEnd
    <3> HIDE DEF e, m
    <3>6. k = 1 => e.kind = "open" /\ e.el = "surface-coefficient"
      BY <3>1, OpenTag
    <3>7. k = 2 => e.el = "timing"
      BY <3>1, OpenTag
    <3>8. k = m + 3 => e.el = "timing"
      BY <3>1, CloseTag
    <3>9. k = m + 6 => e.kind = "close" /\ e.el = "surface-coefficient"
      BY <3>1, CloseTag
    <3> QED
      BY <3>1, <3>4, <3>5, <3>6, <3>7, <3>8, <3>9
  <2> QED
    BY <1>3, <2>1, <2>2, <2>3, <2>4, TailCover
<1> QED
  BY <1>1, <1>2, <1>3

LEMMA EntryLineLies ==
  ASSUME NEW x, NEW w, Source(x, w), NEW i \in EntriesIn(x, w), NEW k \in 1 .. PieceLen(x, i)
  PROVE  /\ k \in Nat /\ EntryLineAt(x, i, k) \in Nat /\ EntryLineAt(x, i, k) \in 1 .. Len(w)
         /\ EntryStart(x, i) + (k - 1) = EntryLineAt(x, i, k)
         /\ EntryEnd(x, i) = EntryStart(x, i) + (PieceLen(x, i) - 1)
<1> DEFINE M == PreludeEnd(x)
           a == Offsets(x)[i - 1]
           l == PieceLen(x, i)
           t == Len(GradeOf(x, i).timing)
<1>1. l = t + 6 /\ t \in Nat /\ i \in 1 .. Count(x)
  BY EntryIs
<1>2. M \in Nat /\ a \in Nat /\ Len(w) \in Nat
  <2>1. Placed(x) /\ Count(x) = Len(x.base.body.surfaces) /\ M \in Nat /\ Len(w) \in Nat
    BY SourceIs
  <2> QED
    BY <1>1, <2>1, PlacedAre
<1>3. EntryEnd(x, i) < BlockLast(x) /\ BlockLast(x) < Len(w) /\ BlockLast(x) \in Nat
  BY EntryLies
<1> DEFINE u == EntryLineAt(x, i, k)
           v == EntryEnd(x, i)
           s == EntryStart(x, i)
           m == Len(w)
           b == BlockLast(x)
<1>4. u = M + 1 + (a + k) /\ v = M + 1 + (a + l) /\ s = M + 1 + (a + 1) /\ k \in 1 .. l
  BY DEF EntryLineAt, EntryEnd, EntryStart
<1> HIDE DEF M, a, l, t, u, v, s, m, b
<1>5. k \in Nat /\ k >= 1 /\ k <= l /\ l \in Nat
  BY <1>1, <1>4
<1>6. u \in Nat /\ u <= v /\ u >= 1 /\ s + (k - 1) = u /\ v = s + (l - 1) /\ v \in Nat
  BY <1>2, <1>4, <1>5
<1>7. u \in 1 .. m
  BY <1>2, <1>3, <1>6 DEF m, v, b
<1> QED
  BY <1>5, <1>6, <1>7 DEF u, v, s, l, m

\* the elements inside an entry end inside it
LEMMA EntryCloses ==
  ASSUME NEW x, NEW w, Source(x, w), NEW i \in EntriesIn(x, w),
         NEW v \in Starts(w), EntryStart(x, i) < v, v < EntryEnd(x, i)
  PROVE  ClosingOf(w, v) < EntryEnd(x, i)
<1> DEFINE a == EntryStart(x, i)
           b == EntryEnd(x, i)
           t == Len(GradeOf(x, i).timing)
           l == PieceLen(x, i)
           c == ClosingOf(w, v)
           k == v - a + 1
<1>1. l = t + 6 /\ t \in Nat
  BY EntryIs
<1>2. a \in Nat /\ b \in Nat /\ b = a + (l - 1)
  <2>1. 1 \in 1 .. l
    BY <1>1
  <2> QED
    BY <2>1, EntryLies, EntryLineLies
<1>3. /\ w \in Documents(EventOf(x)) /\ Len(w) \in Nat /\ v \in 1 .. Len(w)
      /\ w[v].kind \in {"open", "empty"}
  BY SourceIs DEF Starts
<1>4. /\ c \in Nat
      /\ w[v].kind = "empty" => c = v
  BY <1>3, ClosingIs
<1>5. k \in 2 .. l - 1 /\ v = a + (k - 1)
  <2>1. v \in Nat /\ a < v /\ v < b /\ l \in Nat
    BY <1>1, <1>3
  <2> HIDE DEF a, b, l
  <2> QED
    BY <1>2, <2>1
<1> HIDE DEF k
<1>6. k \in 1 .. l
  BY <1>1, <1>5
<1>7. v = EntryLineAt(x, i, k)
  BY <1>5, <1>6, EntryLineLies
<1> DEFINE e == w[v]
<1>8. /\ k = 2 => e = Open("timing", <<>>)
      /\ k = t + 3 => e = Close("timing")
      /\ k \notin {1, 2, t + 3, t + 6} => e.kind = "empty"
  BY <1>6, <1>7, EntryLineIs
<1> HIDE DEF e
<1>9. CASE k = t + 3
  <2>1. e.kind = "close"
    BY <1>8, <1>9, CloseTag
  <2> QED
    BY <1>3, <2>1 DEF e
<1>10. CASE k = 2
  <2>1. e.el = "timing"
    BY <1>8, <1>10, OpenTag
  <2> DEFINE m == t + 3
             u == EntryLineAt(x, i, m)
  <2>2. m \in 1 .. l
    BY <1>1
  <2>3. u \in Nat /\ u \in 1 .. Len(w) /\ a + (m - 1) = u
    BY <2>2, EntryLineLies
  <2>4. w[u] = Close("timing")
    BY <2>2, EntryLineIs
  <2> HIDE DEF u
  <2>5. v <= u /\ u < b
    <3> HIDE DEF a, b, t, l
    <3> QED
      BY <1>1, <1>2, <1>5, <1>10, <2>3
  <2>6. w[u] = Close(w[v].el)
    BY <2>1, <2>4 DEF e
  <2>7. c <= u
    BY <1>3, <2>3, <2>5, <2>6, ClosesBy
  <2> HIDE DEF a, b, c
  <2>8. c < b
    BY <1>2, <1>4, <2>3, <2>5, <2>7
  <2> QED
    BY <2>8 DEF b, c
<1>11. CASE k \notin {2, t + 3}
  <2>1. k \notin {1, 2, t + 3, t + 6}
    BY <1>1, <1>5, <1>11
  <2>2. c = v
    BY <1>4, <1>8, <2>1 DEF e
  <2> QED
    BY <2>2
<1> QED
  BY <1>9, <1>10, <1>11

LEMMA EntryBracket ==
  ASSUME NEW x, NEW w, Source(x, w), NEW i \in EntriesIn(x, w)
  PROVE  Bracket(w, EntryStart(x, i), EntryEnd(x, i))
<1> DEFINE a == EntryStart(x, i)
           c == EntryEnd(x, i)
<1>1. a \in Nat /\ c \in Nat /\ a < c /\ a \in 1 .. Len(w) /\ c \in 1 .. Len(w)
  <2>1. /\ a \in Nat /\ c \in Nat /\ a < c /\ c < BlockLast(x) /\ BlockLast(x) < Len(w)
        /\ BlockFirst(x) < a /\ BlockFirst(x) \in Nat /\ BlockLast(x) \in Nat
    BY EntryLies
  <2>2. Len(w) \in Nat
    BY SourceIs
  <2> DEFINE l == Len(w)
             b == BlockLast(x)
             d == BlockFirst(x)
  <2> HIDE DEF a, c, l, b, d
  <2>3. a \in 1 .. l /\ c \in 1 .. l
    BY <2>1, <2>2 DEF b, d, l
  <2> QED
    BY <2>1, <2>3 DEF l
<1>2. w[c] = Close("surface-coefficient") /\ w[c].kind = "close"
  <2>1. w[c] = Close("surface-coefficient")
    BY EntryTags
  <2> QED
    BY <2>1, CloseTag
<1>3. ASSUME NEW v \in Starts(w), v # a, ClosingOf(w, v) = c PROVE FALSE
  <2>0. w \in Documents(EventOf(x))
    BY SourceIs
  <2>1. v \in 1 .. Len(w) /\ v <= c /\ w[v].kind \in {"open", "empty"} /\ v \in Nat
    BY <1>1, <1>3, <2>0, ClosingIs DEF Starts
  <2>2. w[v].kind = "open"
    BY <1>1, <1>2, <1>3, <2>0, <2>1, ClosingIs
  <2>3. w[c] = Close(w[v].el) /\ v < c /\ \A k \in v + 1 .. c - 1 : w[k] # Close(w[v].el)
    BY <1>1, <1>3, <2>0, <2>2, ClosingIs
  <2>4. w[v].el = "surface-coefficient"
    BY <1>2, <2>3, CloseTag
  <2>5. PICK j \in EntriesIn(x, w) : v = EntryStart(x, j)
    BY <2>1, <2>2, <2>4, WhereTags
  <2>6. i # j /\ EntryEnd(x, j) \in Nat
    BY <1>3, <2>5, EntryLies
  <2>7. w[EntryEnd(x, j)] = Close("surface-coefficient")
    BY EntryTags
  <2>8. /\ EntryEnd(x, i) < EntryStart(x, j) \/ EntryEnd(x, j) < EntryStart(x, i)
        /\ EntryStart(x, j) < EntryEnd(x, j)
    BY <2>6, EntryOrder, EntryLies
  <2> DEFINE u == EntryEnd(x, j)
  <2>9. u \in Nat /\ v < u /\ (c < v \/ u < a)
    BY <2>5, <2>6, <2>8
  <2> HIDE DEF u, c, a
  <2>10. u \in v + 1 .. c - 1
    BY <1>1, <2>1, <2>3, <2>9
  <2> QED
    BY <2>3, <2>4, <2>7, <2>10 DEF u
<1>4. ASSUME NEW v \in Starts(w), a < v, v < c PROVE ClosingOf(w, v) < c
  BY <1>4, EntryCloses
<1> QED
  BY <1>1, <1>2, <1>3, <1>4 DEF Bracket

LEMMA BlockLies ==
  ASSUME NEW x, NEW w, Source(x, w), w = ToXmlV1(x)
  PROVE  /\ BlockFirst(x) \in Nat /\ BlockLast(x) \in Nat /\ BlockFirst(x) < BlockLast(x)
         /\ BlockLast(x) < Len(w) /\ BlockFirst(x) \in PreludeEnd(x) + 1 .. Len(w) - 1
         /\ BlockFirst(x) \in 1 .. Len(w)
         /\ w[BlockFirst(x)].el = "coefficients" /\ w[BlockFirst(x)].kind = "open"
<1> DEFINE n == Count(x)
           M == PreludeEnd(x)
           b == Offsets(x)[n]
           a == BlockFirst(x)
           c == BlockLast(x)
           l == Len(w)
<1>1. /\ x \in Sources /\ M \in Nat /\ n = Len(x.base.body.surfaces) /\ Placed(x)
  BY SourceIs DEF Source
<1>2. BlockTable(w, x)
  BY <1>1, PlacedWritten
<1>3. l = M + b + 3 /\ w[M + 1] = Open("coefficients", <<>>)
  BY <1>1, <1>2 DEF BlockTable
<1>4. b \in Nat
  BY <1>1, PlacedAre
<1>5. a = M + 1 /\ c = M + 2 + b
  BY DEF BlockFirst, BlockLast
<1>6. w[a].el = "coefficients" /\ w[a].kind = "open"
  <2> DEFINE e == w[a]
  <2>1. e = Open("coefficients", <<>>)
    BY <1>3, <1>5
  <2> HIDE DEF e
  <2>2. e.el = "coefficients" /\ e.kind = "open"
    BY <2>1, OpenTag
  <2> QED
    BY <2>2 DEF e
<1>8. M \in Nat /\ l = M + b + 3
  BY <1>1, <1>3
<1> HIDE DEF n, M, b, a, c, l
<1>7. a \in Nat /\ c \in Nat /\ a < c /\ c < l /\ a \in M + 1 .. l - 1 /\ a \in 1 .. l
  BY <1>4, <1>5, <1>8
<1> QED
  BY <1>6, <1>7 DEF M, a, c, l

(***************************************************************************)
(* A document that has all events of the block.                            *)
(***************************************************************************)
Whole(x, w, f, d) ==
  \A v \in PreludeEnd(x) + 1 .. Len(w) - 1 : \E k \in 1 .. Len(d) : f[k] = v

LEMMA OriginClimbs ==
  ASSUME NEW f, NEW d, NEW w, Origin(f, d, w), Len(d) \in Nat, Len(w) \in Nat,
         NEW j \in 1 .. Len(d), NEW k \in 1 .. Len(d), j < k
  PROVE  f[j] < f[k]
<1> DEFINE n == Len(d)
           T == {m \in 1 .. n : j + m <= n => f[j] < f[j + m]}
<1>1. n \in Nat /\ j \in 1 .. n /\ k \in 1 .. n
  OBVIOUS
<1>2. \A i \in 1 .. n : f[i] \in Nat
  BY DEF Origin
<1>3. \A i \in 1 .. n : i + 1 <= n => f[i] < f[i + 1]
  BY DEF Origin, NextOrigin
<1> HIDE DEF n
<1>4. 1 \in T
  BY <1>1, <1>3
<1>5. ASSUME NEW m \in 1 .. n - 1, m \in T PROVE m + 1 \in T
  <2>1. m + 1 \in 1 .. n
    BY <1>1
  <2>2. ASSUME j + (m + 1) <= n PROVE f[j] < f[j + (m + 1)]
    <3> DEFINE i == j + m
    <3>1. i \in 1 .. n /\ i + 1 <= n /\ i + 1 = j + (m + 1) /\ i + 1 \in 1 .. n /\ j + m <= n
      BY <1>1, <2>2
    <3>2. f[j] < f[i]
      BY <1>5, <3>1
    <3> HIDE DEF i
    <3>3. f[i] < f[i + 1]
      BY <1>3, <3>1
    <3>4. f[j] \in Nat /\ f[i] \in Nat /\ f[i + 1] \in Nat
      BY <1>1, <1>2, <3>1
    <3>5. f[j] < f[i + 1]
      BY <3>2, <3>3, <3>4
    <3> QED
      BY <3>1, <3>5
  <2> QED
    BY <2>1, <2>2
<1> HIDE DEF T
<1>6. 1 .. n \subseteq T
  BY <1>1, <1>4, <1>5, CountingUp
<1> DEFINE m == k - j
<1>7. m \in 1 .. n /\ j + m = k /\ k <= n
  BY <1>1
<1> HIDE DEF m
<1>8. j + m <= n => f[j] < f[j + m]
  BY <1>6, <1>7 DEF T
<1> QED
  BY <1>7, <1>8

\* then nothing of the block is leapt over
LEMMA NextWhole ==
  ASSUME NEW x, NEW w, NEW f, NEW d, NEW p, NextOf(x, w, f, d, p), Whole(x, w, f, d),
         NEW v \in PreludeEnd(x) + 1 .. Len(w) - 1, v <= f[p + 1], p >= 1 => f[p] < v
  PROVE  v = f[p + 1]
<1>1. /\ Len(d) \in Nat /\ Len(w) \in Nat /\ p \in Nat /\ p + 1 \in 1 .. Len(d)
      /\ Origin(f, d, w)
  BY LenProperties DEF NextOf, Writing
<1>2. PICK k \in 1 .. Len(d) : f[k] = v
  BY DEF Whole
<1>3. \A i \in 1 .. Len(d) : f[i] \in Nat
  BY <1>1 DEF Origin
<1>4. f[k] \in Nat /\ f[p + 1] \in Nat /\ (p >= 1 => f[p] \in Nat)
  <2>1. p >= 1 => p \in 1 .. Len(d)
    BY <1>1
  <2> QED
    BY <1>1, <1>3, <2>1
<1>5. ~ (p + 1 < k)
  <2>1. p + 1 < k => f[p + 1] < f[k]
    BY <1>1, OriginClimbs
  <2> QED
    BY <1>2, <1>4, <2>1
<1>6. ~ (k <= p)
  <2>1. CASE k <= p
    <3>1. p \in 1 .. Len(d) /\ p >= 1
      BY <1>1, <2>1
    <3>2. k < p => f[k] < f[p]
      BY <1>1, <3>1, OriginClimbs
    <3>3. k = p => f[k] = f[p]
      OBVIOUS
    <3>4. k < p \/ k = p
      BY <1>1, <2>1
    <3>5. f[p] < v
      BY <3>1
    <3> QED
      BY <1>2, <1>4, <3>1, <3>2, <3>3, <3>4, <3>5
  <2> QED
    BY <2>1
<1>7. k = p + 1
  BY <1>1, <1>5, <1>6
<1> QED
  BY <1>2, <1>7

LEMMA EntryInBlock ==
  ASSUME NEW x, NEW w, Source(x, w), NEW i \in EntriesIn(x, w)
  PROVE  /\ EntryStart(x, i) \in PreludeEnd(x) + 1 .. Len(w) - 1
         /\ EntryEnd(x, i) \in PreludeEnd(x) + 1 .. Len(w) - 1
<1> DEFINE a == EntryStart(x, i)
           c == EntryEnd(x, i)
           b == BlockLast(x)
           l == Len(w)
           M == PreludeEnd(x)
<1>1. a \in Nat /\ c \in Nat /\ b \in Nat /\ BlockFirst(x) < a /\ a < c /\ c < b /\ b < l
  BY EntryLies
<1>2. M \in Nat /\ l \in Nat /\ BlockFirst(x) = M + 1
  BY SourceIs DEF BlockFirst
<1> HIDE DEF a, c, b, l, M
<1>3. a \in M + 1 .. l - 1 /\ c \in M + 1 .. l - 1
  BY <1>1, <1>2
<1> QED
  BY <1>3 DEF a, c, l, M

(***************************************************************************)
(* The builder of an entry is that of the entry whose events come next.    *)
(***************************************************************************)
InsideEntry(x, f, p, i) ==
  /\ \E j \in 1 .. p : f[j] = EntryStart(x, i)
  /\ EntryStart(x, i) <= f[p] /\ f[p] < EntryEnd(x, i)

HeldEntry(x, w, f, p, e) ==
  \E i \in EntriesIn(x, w) : InsideEntry(x, f, p, i) /\ e.ref = IdOf(x, i)

ClosesEntry(e) == e.kind = "close" /\ e.el = "surface-coefficient"

Stepping(x, w, f, d, p) == Source(x, w) /\ NextOf(x, w, f, d, p)

LEMMA EntryStill ==
  ASSUME NEW x, NEW w, NEW f, NEW d, NEW p, Stepping(x, w, f, d, p),
         NEW i \in EntriesIn(x, w), InsideEntry(x, f, p, i)
  PROVE  /\ EntryStart(x, i) < f[p + 1] /\ f[p + 1] <= EntryEnd(x, i)
         /\ ~ ClosesEntry(d[p + 1]) => InsideEntry(x, f, p + 1, i)
<1> DEFINE a == EntryStart(x, i)
           c == EntryEnd(x, i)
           u == f[p]
           v == f[p + 1]
<1>0. Source(x, w) /\ NextOf(x, w, f, d, p)
  BY DEF Stepping
<1>1. PICK j \in 1 .. p : f[j] = a
  BY DEF InsideEntry
<1>2. p \in Nat /\ p >= 1
  BY <1>0, <1>1 DEF NextOf
<1>3. u \in Nat /\ v \in Nat /\ u < v /\ NextOrigin(f, w, p) /\ Weaker(d[p + 1], w[v])
  BY <1>0, <1>2, NextFacts
<1>4. a <= u /\ u < c
  BY DEF InsideEntry
<1>5. a \in Nat /\ c \in Nat /\ Bracket(w, a, c)
  BY <1>0, EntryLies, EntryBracket
<1>6. v <= c
  BY <1>1, <1>3, <1>4, <1>5 DEF NextOrigin
<1>7. v = c => ClosesEntry(d[p + 1])
  <2>2. w[c] = Close("surface-coefficient")
    BY <1>0, EntryTags
  <2>3. w[c].kind = "close" /\ w[c].el = "surface-coefficient"
    BY <2>2, CloseTag
  <2> QED
    BY <1>3, <2>3 DEF Weaker, ClosesEntry
<1>8. f[j] = a
  BY <1>1
<1> HIDE DEF a, c, u, v
<1>9. a < v /\ a <= v /\ (v # c => v < c)
  BY <1>3, <1>4, <1>5, <1>6
<1>10. j \in 1 .. p + 1
  BY <1>2
<1>11. v # c => InsideEntry(x, f, p + 1, i)
  BY <1>8, <1>9, <1>10 DEF InsideEntry, a, c, v
<1> QED
  BY <1>6, <1>7, <1>9, <1>11 DEF a, c, v

LEMMA HeldEntryStill ==
  ASSUME NEW x, NEW w, NEW f, NEW d, NEW p, Stepping(x, w, f, d, p),
         NEW e, HeldEntry(x, w, f, p, e), NEW g, g.ref = e.ref, ~ ClosesEntry(d[p + 1])
  PROVE  HeldEntry(x, w, f, p + 1, g)
<1>1. PICK i \in EntriesIn(x, w) : InsideEntry(x, f, p, i) /\ e.ref = IdOf(x, i)
  BY DEF HeldEntry
<1>2. InsideEntry(x, f, p + 1, i)
  BY <1>1, EntryStill
<1> QED
  BY <1>1, <1>2 DEF HeldEntry

LEMMA NextStands ==
  ASSUME NEW x, NEW w, NEW f, NEW d, NEW p, Stepping(x, w, f, d, p)
  PROVE  /\ f[p + 1] \in 1 .. Len(w) /\ f[p + 1] \in Nat /\ p \in Nat /\ p + 1 >= 1
         /\ d[p + 1].kind = w[f[p + 1]].kind /\ d[p + 1].el = w[f[p + 1]].el
         /\ p >= 1 => f[p] \in Nat /\ f[p] < f[p + 1]
<1>1. NextOf(x, w, f, d, p)
  BY DEF Stepping
<1>2. p \in Nat
  BY <1>1 DEF NextOf
<1>3. /\ f[p + 1] \in 1 .. Len(w) /\ f[p + 1] \in Nat /\ Weaker(d[p + 1], w[f[p + 1]])
      /\ p >= 1 => f[p] \in Nat /\ f[p] < f[p + 1]
  BY <1>1, NextFacts
<1> QED
  BY <1>2, <1>3 DEF Weaker

\* an entry is opened
LEMMA HeldEntryNew ==
  ASSUME NEW x, NEW w, NEW f, NEW d, NEW p, Stepping(x, w, f, d, p),
         d[p + 1].kind \in Start, d[p + 1].el = "surface-coefficient",
         "surfaceRef" \in DOMAIN d[p + 1].attrs, d[p + 1].attrs.surfaceRef # Unknown,
         NEW e, e.ref = d[p + 1].attrs.surfaceRef
  PROVE  HeldEntry(x, w, f, p + 1, e)
<1> DEFINE v == f[p + 1]
<1>1. /\ v \in 1 .. Len(w) /\ v \in Nat /\ p \in Nat
      /\ d[p + 1].kind = w[v].kind /\ d[p + 1].el = w[v].el /\ Source(x, w)
  BY NextStands DEF Stepping
<1>2. w[v].kind # "close" /\ w[v].el = "surface-coefficient"
  BY <1>1 DEF Start
<1>3. PICK i \in EntriesIn(x, w) : v = EntryStart(x, i)
  BY <1>1, <1>2, WhereTags
<1>4. EntryStart(x, i) <= v /\ v < EntryEnd(x, i) /\ p + 1 \in 1 .. p + 1
  BY <1>1, <1>3, EntryLies
<1>5. InsideEntry(x, f, p + 1, i)
  BY <1>3, <1>4 DEF InsideEntry
<1>6. e.ref = IdOf(x, i)
  <2> DEFINE t == w[v]
  <2>1. t = Open("surface-coefficient", RefAttrs(IdOf(x, i)))
    BY <1>1, <1>3, EntryTags
  <2>2. Weaker(d[p + 1], t)
    BY NextFacts DEF Stepping
  <2> HIDE DEF t
  <2>3. t.attrs = RefAttrs(IdOf(x, i))
    BY <2>1, OpenTag
  <2>4. t.attrs.surfaceRef = IdOf(x, i)
    BY <2>3 DEF RefAttrs
  <2>5. Perhaps(d[p + 1].attrs["surfaceRef"], t.attrs["surfaceRef"])
    BY <2>2 DEF Weaker
  <2>6. d[p + 1].attrs.surfaceRef = t.attrs.surfaceRef
    BY <2>5 DEF Perhaps
  <2> QED
    BY <2>4, <2>6
<1> QED
  BY <1>5, <1>6 DEF HeldEntry

\* the entry that is closed is the one that is held
LEMMA HeldEntryCloses ==
  ASSUME NEW x, NEW w, NEW f, NEW d, NEW p, Stepping(x, w, f, d, p), ClosesEntry(d[p + 1]),
         NEW i \in EntriesIn(x, w), InsideEntry(x, f, p, i)
  PROVE  f[p + 1] = EntryEnd(x, i) /\ p >= 1 /\ f[p] < EntryEnd(x, i)
<1> DEFINE v == f[p + 1]
           u == f[p]
<1>1. /\ v \in 1 .. Len(w) /\ v \in Nat /\ p \in Nat /\ Source(x, w)
      /\ w[v].kind = "close" /\ w[v].el = "surface-coefficient"
      /\ p >= 1 => u \in Nat /\ u < v
  BY NextStands DEF Stepping, ClosesEntry
<1>2. PICK j \in EntriesIn(x, w) : v = EntryEnd(x, j)
  BY <1>1, WhereTags
<1>3. EntryStart(x, i) < v /\ v <= EntryEnd(x, i)
  BY EntryStill
<1>4. p >= 1 /\ u < EntryEnd(x, i) /\ EntryStart(x, i) <= u
  BY <1>1 DEF InsideEntry
<1>5. EntryStart(x, j) < EntryEnd(x, j) /\ EntryStart(x, j) \in Nat /\ EntryEnd(x, i) \in Nat
      /\ EntryEnd(x, j) \in Nat
  BY <1>1, EntryLies
<1> DEFINE a == EntryStart(x, i)
           b == EntryEnd(x, i)
           c == EntryStart(x, j)
           e == EntryEnd(x, j)
<1>6. c < e /\ e <= b /\ a < e /\ c \in Nat /\ e \in Nat /\ b \in Nat
  BY <1>2, <1>3, <1>5
<1> HIDE DEF a, b, c, e
<1>7. c < b /\ a < e
  BY <1>6
<1>8. i = j
  BY <1>1, <1>7, EntryOrder DEF a, b, c, e
<1> QED
  BY <1>2, <1>4, <1>8

(***************************************************************************)
(* The entries that have been read are entries of the document, each read  *)
(* once, and all of them where nothing of the block is lost.               *)
(***************************************************************************)
Ended(x, f, p, i) == p >= 1 /\ EntryEnd(x, i) <= f[p]

GradedAs(x, w, f, d, p, cs, g) ==
  /\ g \in [1 .. Len(cs) -> EntriesIn(x, w)]
  /\ \A m \in 1 .. Len(cs) : /\ cs[m].surfaceRef = IdOf(x, g[m])
                            /\ Ended(x, f, p, g[m])
                            /\ \A l \in 1 .. Len(cs) : g[l] = g[m] => l = m
  /\ Whole(x, w, f, d) =>
       \A i \in EntriesIn(x, w) : Ended(x, f, p, i) => \E m \in 1 .. Len(cs) : g[m] = i

GradedFrom(x, w, f, d, p, cs) == \E g : GradedAs(x, w, f, d, p, cs, g)

LEMMA EndedStill ==
  ASSUME NEW x, NEW w, NEW f, NEW d, NEW p, Stepping(x, w, f, d, p),
         NEW i \in EntriesIn(x, w), Ended(x, f, p, i)
  PROVE  Ended(x, f, p + 1, i)
<1> DEFINE u == f[p]
           v == f[p + 1]
           b == EntryEnd(x, i)
<1>1. p >= 1 /\ u \in Nat /\ v \in Nat /\ u < v /\ b \in Nat /\ b <= u /\ p \in Nat
  BY NextStands, EntryLies DEF Ended, Stepping
<1> HIDE DEF u, v, b
<1>2. p + 1 >= 1 /\ b <= v
  BY <1>1
<1> QED
  BY <1>2 DEF Ended, b, v

\* no other entry ends with this event
LEMMA EndedBefore ==
  ASSUME NEW x, NEW w, NEW f, NEW d, NEW p, Stepping(x, w, f, d, p), Whole(x, w, f, d),
         NEW i \in EntriesIn(x, w), Ended(x, f, p + 1, i), f[p + 1] # EntryEnd(x, i)
  PROVE  Ended(x, f, p, i)
<1> DEFINE b == EntryEnd(x, i)
           u == f[p]
           v == f[p + 1]
<1>1. /\ Source(x, w) /\ NextOf(x, w, f, d, p) /\ p \in Nat /\ v \in Nat
      /\ p >= 1 => u \in Nat
  BY NextStands DEF Stepping
<1>2. b <= v /\ b \in PreludeEnd(x) + 1 .. Len(w) - 1 /\ b \in Nat
  BY <1>1, EntryInBlock, EntryLies DEF Ended
<1>3. (p >= 1 => u < b) => b = v
  BY <1>1, <1>2, NextWhole
<1>4. p >= 1 /\ ~ (u < b)
  BY <1>3
<1> HIDE DEF b, u, v
<1>5. b <= u
  BY <1>1, <1>2, <1>4
<1> QED
  BY <1>4, <1>5 DEF Ended, b, u

LEMMA EndsWithClose ==
  ASSUME NEW x, NEW w, NEW f, NEW d, NEW p, Stepping(x, w, f, d, p),
         NEW i \in EntriesIn(x, w), f[p + 1] = EntryEnd(x, i)
  PROVE  ClosesEntry(d[p + 1])
<1> DEFINE e == w[f[p + 1]]
<1>1. e = Close("surface-coefficient")
  BY EntryTags DEF Stepping
<1>2. d[p + 1].kind = e.kind /\ d[p + 1].el = e.el
  BY NextStands
<1> HIDE DEF e
<1>3. e.kind = "close" /\ e.el = "surface-coefficient"
  BY <1>1, CloseTag
<1> QED
  BY <1>2, <1>3 DEF ClosesEntry

\* nothing more has been read, and nothing more was to be read
LEMMA GradedStill ==
  ASSUME NEW x, NEW w, NEW f, NEW d, NEW p, Stepping(x, w, f, d, p),
         NEW cs, GradedFrom(x, w, f, d, p, cs),
         Whole(x, w, f, d) => ~ ClosesEntry(d[p + 1])
  PROVE  GradedFrom(x, w, f, d, p + 1, cs)
<1>1. PICK g : GradedAs(x, w, f, d, p, cs, g)
  BY DEF GradedFrom
<1>2. /\ g \in [1 .. Len(cs) -> EntriesIn(x, w)]
      /\ \A m \in 1 .. Len(cs) : /\ cs[m].surfaceRef = IdOf(x, g[m])
                                /\ Ended(x, f, p, g[m])
                                /\ \A l \in 1 .. Len(cs) : g[l] = g[m] => l = m
  BY <1>1 DEF GradedAs
<1>3. ASSUME NEW m \in 1 .. Len(cs) PROVE Ended(x, f, p + 1, g[m])
  BY <1>2, EndedStill
<1>4. ASSUME Whole(x, w, f, d), NEW i \in EntriesIn(x, w), Ended(x, f, p + 1, i)
      PROVE  \E m \in 1 .. Len(cs) : g[m] = i
  <2>1. f[p + 1] # EntryEnd(x, i)
    BY <1>4, EndsWithClose
  <2>2. Ended(x, f, p, i)
    BY <1>4, <2>1, EndedBefore
  <2> QED
    BY <1>1, <1>4, <2>2 DEF GradedAs
<1>5. GradedAs(x, w, f, d, p + 1, cs, g)
  BY <1>2, <1>3, <1>4 DEF GradedAs
<1> QED
  BY <1>5 DEF GradedFrom

\* the entry that was held is added
LEMMA GradedMore ==
  ASSUME NEW x, NEW w, NEW f, NEW d, NEW p, Stepping(x, w, f, d, p),
         NEW cs \in Seq(SurfaceCoefficient), GradedFrom(x, w, f, d, p, cs),
         ClosesEntry(d[p + 1]), NEW e, HeldEntry(x, w, f, p, e),
         NEW c \in SurfaceCoefficient, c.surfaceRef = e.ref
  PROVE  GradedFrom(x, w, f, d, p + 1, Append(cs, c))
<1>1. PICK g : GradedAs(x, w, f, d, p, cs, g)
  BY DEF GradedFrom
<1>2. PICK i \in EntriesIn(x, w) : InsideEntry(x, f, p, i) /\ e.ref = IdOf(x, i)
  BY DEF HeldEntry
<1>3. f[p + 1] = EntryEnd(x, i) /\ p >= 1 /\ f[p] < EntryEnd(x, i)
  BY <1>2, HeldEntryCloses
<1> DEFINE n == Len(cs)
           E == EntriesIn(x, w)
           s == Append(cs, c)
           h == [m \in 1 .. n + 1 |-> IF m = n + 1 THEN i ELSE g[m]]
<1>4. n \in Nat /\ Len(s) = n + 1 /\ s[n + 1] = c /\ \A m \in 1 .. n : s[m] = cs[m]
  BY LenProperties, AppendProperties
<1>5. /\ g \in [1 .. n -> E]
      /\ \A m \in 1 .. n : /\ cs[m].surfaceRef = IdOf(x, g[m])
                           /\ Ended(x, f, p, g[m])
                           /\ \A l \in 1 .. n : g[l] = g[m] => l = m
  BY <1>1 DEF GradedAs
<1>6. ~ Ended(x, f, p, i) /\ Ended(x, f, p + 1, i)
  <2> DEFINE b == EntryEnd(x, i)
             u == f[p]
             v == f[p + 1]
  <2>1. b \in Nat /\ p \in Nat /\ u \in Nat /\ u < b /\ v = b
    BY <1>3, EntryLies, NextStands DEF Stepping
  <2> HIDE DEF b, u, v
  <2>2. ~ (b <= u) /\ b <= v /\ p + 1 >= 1
    BY <2>1
  <2> QED
    BY <2>2 DEF Ended, b, u, v
<1> HIDE DEF n, s
<1>7. h \in [1 .. n + 1 -> E] /\ h[n + 1] = i /\ \A m \in 1 .. n : h[m] = g[m]
  <2>1. \A m \in 1 .. n + 1 : m # n + 1 => m \in 1 .. n
    BY <1>4
  <2>2. \A m \in 1 .. n + 1 : h[m] \in E
    BY <1>5, <2>1
  <2>3. n + 1 \in 1 .. n + 1
    BY <1>4
  <2>4. \A m \in 1 .. n : m \in 1 .. n + 1 /\ m # n + 1
    BY <1>4
  <2> QED
    BY <2>2, <2>3, <2>4
<1> HIDE DEF h, E
<1>8. \A m \in 1 .. n + 1 : m = n + 1 \/ m \in 1 .. n
  BY <1>4
<1>9. \A m \in 1 .. n : g[m] # i /\ g[m] \in E
  BY <1>5, <1>6
<1>10. ASSUME NEW m \in 1 .. n + 1
       PROVE  /\ s[m].surfaceRef = IdOf(x, h[m]) /\ Ended(x, f, p + 1, h[m])
              /\ \A l \in 1 .. n + 1 : h[l] = h[m] => l = m
  <2>1. CASE m = n + 1
    <3>1. \A l \in 1 .. n + 1 : h[l] = h[m] => l = m
      BY <1>7, <1>8, <1>9, <2>1
    <3> QED
      BY <1>2, <1>4, <1>6, <1>7, <2>1, <3>1
  <2>2. CASE m \in 1 .. n
    <3>1. Ended(x, f, p + 1, g[m])
      BY <1>5, <1>9, <2>2, EndedStill DEF E
    <3>2. \A l \in 1 .. n + 1 : h[l] = h[m] => l = m
      BY <1>5, <1>7, <1>8, <1>9, <2>2
    <3> QED
      BY <1>4, <1>5, <1>7, <2>2, <3>1, <3>2
  <2> QED
    BY <1>8, <2>1, <2>2
<1>11. ASSUME Whole(x, w, f, d), NEW j \in E, Ended(x, f, p + 1, j)
       PROVE  \E m \in 1 .. n + 1 : h[m] = j
  <2>1. CASE j = i
    <3>1. n + 1 \in 1 .. n + 1
      BY <1>4
    <3> QED
      BY <1>7, <2>1, <3>1
  <2>2. CASE j # i
    <3>1. EntryEnd(x, j) # EntryEnd(x, i)
      BY <2>2, EntryOrder DEF Stepping, E
    <3>2. Ended(x, f, p, j)
      BY <1>3, <1>11, <3>1, EndedBefore DEF E
    <3>3. PICK m \in 1 .. n : g[m] = j
      BY <1>1, <1>11, <3>2 DEF GradedAs, n, E
    <3>4. m \in 1 .. n + 1
      BY <1>4
    <3> QED
      BY <1>7, <3>3, <3>4
  <2> QED
    BY <2>1, <2>2
<1>12. GradedAs(x, w, f, d, p + 1, s, h)
  BY <1>4, <1>7, <1>10, <1>11 DEF GradedAs, E
<1> QED
  BY <1>12 DEF GradedFrom, s

(***************************************************************************)
(* Where nothing of the block is lost, the reader is in it and in its      *)
(* entries when the events are.                                            *)
(***************************************************************************)
BlockHeld(x, w, f, d, p, inside, e) ==
  Whole(x, w, f, d) =>
    /\ w = ToXmlV1(x) /\ p >= 1 /\ BlockFirst(x) <= f[p] /\ f[p] < BlockLast(x) => inside = TRUE
    /\ \A i \in EntriesIn(x, w) :
         p >= 1 /\ EntryStart(x, i) <= f[p] /\ f[p] < EntryEnd(x, i) => e # None

LEMMA InsideNext ==
  ASSUME NEW x, NEW w, NEW f, NEW d, NEW p, Stepping(x, w, f, d, p),
         NEW inside, NEW e, BlockHeld(x, w, f, d, p, inside, e), Whole(x, w, f, d),
         w = ToXmlV1(x), BlockFirst(x) < f[p + 1], f[p + 1] < BlockLast(x)
  PROVE  inside = TRUE
<1> DEFINE a == BlockFirst(x)
           b == BlockLast(x)
           u == f[p]
           v == f[p + 1]
<1>1. /\ Source(x, w) /\ NextOf(x, w, f, d, p) /\ p \in Nat /\ v \in Nat
      /\ p >= 1 => u \in Nat /\ u < v
  BY NextStands DEF Stepping
<1>2. a \in Nat /\ b \in Nat /\ a \in PreludeEnd(x) + 1 .. Len(w) - 1
  BY <1>1, BlockLies
<1>3. a < v /\ v < b
  OBVIOUS
<1>4. (p >= 1 => u < a) => a = v
  <2>1. a <= v
    <3> HIDE DEF a, v
    <3> QED
      BY <1>1, <1>2, <1>3
  <2> QED
    BY <1>1, <1>2, <2>1, NextWhole
<1>5. p >= 1 /\ a <= u /\ u < b
  <2> HIDE DEF a, b, u, v
  <2> QED
    BY <1>1, <1>2, <1>3, <1>4
<1> QED
  BY <1>5 DEF BlockHeld

LEMMA BlockHeldNext ==
  ASSUME NEW x, NEW w, NEW f, NEW d, NEW p, Stepping(x, w, f, d, p),
         NEW inside, NEW e, BlockHeld(x, w, f, d, p, inside, e),
         NEW inside2, NEW e2,
         d[p + 1].el # "coefficients" => inside2 = inside,
         d[p + 1].el = "coefficients" /\ d[p + 1].kind # "close" => inside2 = TRUE,
         d[p + 1].el = "surface-coefficient" /\ d[p + 1].kind # "close" /\ inside = TRUE
           => e2 # None,
         d[p + 1].el # "surface-coefficient" /\ e # None => e2 # None
  PROVE  BlockHeld(x, w, f, d, p + 1, inside2, e2)
<1> SUFFICES ASSUME Whole(x, w, f, d) PROVE BlockHeld(x, w, f, d, p + 1, inside2, e2)
  BY DEF BlockHeld
<1> DEFINE u == f[p]
           v == f[p + 1]
           t == d[p + 1]
<1>1. /\ Source(x, w) /\ NextOf(x, w, f, d, p) /\ p \in Nat /\ v \in Nat /\ v \in 1 .. Len(w)
      /\ t.kind = w[v].kind /\ t.el = w[v].el
      /\ p >= 1 => u \in Nat /\ u < v
  BY NextStands DEF Stepping
<1>2. ASSUME w = ToXmlV1(x), BlockFirst(x) <= v, v < BlockLast(x) PROVE inside2 = TRUE
  <2>1. CASE t.el = "coefficients"
    <3>1. \/ v = BlockFirst(x) /\ w[v].kind = "open"
          \/ v = BlockLast(x)
      <4>1. Source(x, w) /\ v \in 1 .. Len(w) /\ w[v].el = "coefficients"
        BY <1>1, <2>1
      <4> HIDE DEF v
      <4> QED
        BY <4>1, WhereTags
    <3>2. BlockLast(x) \in Nat
      BY <1>1, <1>2, BlockLies
    <3>3. v # BlockLast(x)
      BY <1>1, <1>2, <3>2
    <3>4. t.kind = "open"
      BY <1>1, <3>1, <3>3
    <3> QED
      BY <2>1, <3>4
  <2>2. CASE t.el # "coefficients"
    <3>1. v # BlockFirst(x)
      BY <1>1, <1>2, <2>2, BlockLies
    <3>2. BlockFirst(x) \in Nat
      BY <1>1, <1>2, BlockLies
    <3>3. BlockFirst(x) < v
      BY <1>1, <1>2, <3>1, <3>2
    <3>4. inside = TRUE
      BY <1>2, <3>3, InsideNext
    <3> QED
      BY <2>2, <3>4
  <2> QED
    BY <2>1, <2>2
<1>3. ASSUME NEW i \in EntriesIn(x, w), EntryStart(x, i) <= v, v < EntryEnd(x, i)
      PROVE  e2 # None
  <2> DEFINE a == EntryStart(x, i)
             b == EntryEnd(x, i)
  <2>1. /\ a \in Nat /\ b \in Nat /\ a \in PreludeEnd(x) + 1 .. Len(w) - 1
        /\ BlockFirst(x) < a /\ b < BlockLast(x) /\ BlockFirst(x) \in Nat /\ BlockLast(x) \in Nat
    BY <1>1, EntryLies, EntryInBlock
  <2>2. CASE v = a
    <3> DEFINE g == w[v]
    <3>1. g = Open("surface-coefficient", RefAttrs(IdOf(x, i)))
      BY <1>1, <2>2, EntryTags
    <3> HIDE DEF g
    <3>2. g.kind = "open" /\ g.el = "surface-coefficient"
      BY <3>1, OpenTag
    <3>3. t.kind # "close" /\ t.el = "surface-coefficient"
      BY <1>1, <3>2 DEF g
    <3>4. BlockFirst(x) < v /\ v < BlockLast(x)
      BY <1>1, <1>3, <2>1, <2>2
    <3>5. w = ToXmlV1(x)
      BY <1>3 DEF EntriesIn
    <3>6. inside = TRUE
      BY <3>4, <3>5, InsideNext
    <3> QED
      BY <3>3, <3>6
  <2>3. CASE v # a
    <3>1. ~ (p >= 1 => u < a)
      BY <1>1, <1>3, <2>1, <2>3, NextWhole
    <3>2. p >= 1 /\ a <= u /\ u < b
      <4>1. p >= 1 /\ ~ (u < a) /\ u \in Nat /\ u < v /\ v < b
        BY <1>1, <1>3, <3>1
      <4> HIDE DEF a, b, u, v
      <4> QED
        BY <1>1, <2>1, <4>1
    <3>3. e # None
      BY <1>3, <3>2 DEF BlockHeld
    <3>4. t.el # "surface-coefficient"
      <4>1. SUFFICES ASSUME t.el = "surface-coefficient" PROVE FALSE
        OBVIOUS
      <4>6. v \in 1 .. Len(w) /\ w[v].el = "surface-coefficient"
        BY <1>1, <4>1
      <4>7. \E j \in EntriesIn(x, w) : v = EntryStart(x, j) \/ v = EntryEnd(x, j)
        <5>1. Source(x, w)
          BY <1>1
        <5> HIDE DEF v
        <5> QED
          BY <4>6, <5>1, WhereTags
      <4>2. PICK j \in EntriesIn(x, w) : v = EntryStart(x, j) \/ v = EntryEnd(x, j)
        BY <4>7
      <4>3. i # j => EntryEnd(x, i) < EntryStart(x, j) \/ EntryEnd(x, j) < EntryStart(x, i)
        BY <1>1, <1>3, EntryOrder
      <4>4. EntryStart(x, j) \in Nat /\ EntryEnd(x, j) \in Nat /\ EntryStart(x, j) < EntryEnd(x, j)
        BY <1>1, EntryLies
      <4> DEFINE c == EntryStart(x, j)
                 g == EntryEnd(x, j)
      <4>5. /\ c \in Nat /\ g \in Nat /\ c < g /\ (v = c \/ v = g)
            /\ a <= v /\ v < b /\ v # a
            /\ i # j => b < c \/ g < a
            /\ i = j => a = c /\ b = g
        BY <1>3, <2>3, <4>2, <4>3, <4>4
      <4> HIDE DEF a, b, c, g, v
      <4> QED
        BY <1>1, <2>1, <4>5
    <3> QED
      BY <3>3, <3>4
  <2> QED
    BY <2>2, <2>3
<1> QED
  BY <1>2, <1>3 DEF BlockHeld

\* an entry ends that the reader does not hold: the block is not whole
LEMMA NoEntryEnds ==
  ASSUME NEW x, NEW w, NEW f, NEW d, NEW p, Stepping(x, w, f, d, p),
         NEW inside, BlockHeld(x, w, f, d, p, inside, None), ClosesEntry(d[p + 1])
  PROVE  ~ Whole(x, w, f, d)
<1> SUFFICES ASSUME Whole(x, w, f, d) PROVE FALSE
  OBVIOUS
<1> DEFINE u == f[p]
           v == f[p + 1]
<1>1. /\ Source(x, w) /\ NextOf(x, w, f, d, p) /\ p \in Nat /\ v \in Nat /\ v \in 1 .. Len(w)
      /\ w[v].kind = "close" /\ w[v].el = "surface-coefficient"
      /\ p >= 1 => u \in Nat /\ u < v
  BY NextStands DEF Stepping, ClosesEntry
<1>2. PICK i \in EntriesIn(x, w) : v = EntryEnd(x, i)
  BY <1>1, WhereTags
<1> DEFINE a == EntryStart(x, i)
<1>3. a \in Nat /\ a < v /\ a \in PreludeEnd(x) + 1 .. Len(w) - 1
  BY <1>1, <1>2, EntryLies, EntryInBlock
<1>4. a <= v /\ a # v
  <2> HIDE DEF a, v
  <2> QED
    BY <1>1, <1>3
<1>5. ~ (p >= 1 => u < a)
  BY <1>1, <1>3, <1>4, NextWhole
<1>6. p >= 1 /\ a <= u /\ u < v
  <2>1. p >= 1 /\ ~ (u < a) /\ u \in Nat /\ u < v
    BY <1>1, <1>5
  <2> HIDE DEF a, u, v
  <2> QED
    BY <1>3, <2>1
<1> QED
  BY <1>2, <1>6 DEF BlockHeld

(***************************************************************************)
(* The second pass over a document, after p of its events.                 *)
(***************************************************************************)
Grading(x, w, f, d, p, inside, e, cs) ==
  /\ e # None => HeldEntry(x, w, f, p, e)
  /\ BlockHeld(x, w, f, d, p, inside, e)
  /\ GradedFrom(x, w, f, d, p, cs)

Following(x, w, f, p) ==
  /\ Stepping(x, w, f, doc, p) /\ pos = p + 1 /\ x = source /\ ReadInv
  /\ Grading(x, w, f, doc, p, inCoefficients, entry, coefficients)

LEMMA GradingBegins ==
  ASSUME NEW x, NEW w, NEW f, NEW d
  PROVE  Grading(x, w, f, d, 0, FALSE, None, <<>>)
<1>1. ~ (0 >= 1)
  OBVIOUS
<1>2. BlockHeld(x, w, f, d, 0, FALSE, None)
  BY <1>1 DEF BlockHeld
<1> DEFINE g == [m \in 1 .. 0 |-> m]
<1>3. Len(<<>>) = 0 /\ g \in [1 .. 0 -> EntriesIn(x, w)]
  OBVIOUS
<1>4. \A i : ~ Ended(x, f, 0, i)
  BY <1>1 DEF Ended
<1>5. GradedAs(x, w, f, d, 0, <<>>, g)
  BY <1>3, <1>4 DEF GradedAs
<1> QED
  BY <1>2, <1>5 DEF Grading, GradedFrom

\* an event that leaves the entries read as they are
LEMMA GradingStill ==
  ASSUME NEW x, NEW w, NEW f, NEW d, NEW p, Stepping(x, w, f, d, p),
         NEW inside, NEW e, NEW cs, Grading(x, w, f, d, p, inside, e, cs),
         NEW inside2, NEW e2, ~ ClosesEntry(d[p + 1]),
         d[p + 1].el # "coefficients" => inside2 = inside,
         d[p + 1].el = "coefficients" /\ d[p + 1].kind # "close" => inside2 = TRUE,
         d[p + 1].el = "surface-coefficient" /\ d[p + 1].kind # "close" /\ inside = TRUE
           => e2 # None,
         e # None => e2 # None,
         e2 # None => (e # None /\ e2.ref = e.ref) \/ HeldEntry(x, w, f, p + 1, e2)
  PROVE  Grading(x, w, f, d, p + 1, inside2, e2, cs)
<1>1. BlockHeld(x, w, f, d, p, inside, e) /\ GradedFrom(x, w, f, d, p, cs)
      /\ (e # None => HeldEntry(x, w, f, p, e))
  BY DEF Grading
<1>2. BlockHeld(x, w, f, d, p + 1, inside2, e2)
  BY <1>1, BlockHeldNext
<1>3. GradedFrom(x, w, f, d, p + 1, cs)
  BY <1>1, GradedStill
<1>4. e2 # None => HeldEntry(x, w, f, p + 1, e2)
  BY <1>1, HeldEntryStill
<1> QED
  BY <1>2, <1>3, <1>4 DEF Grading

LEMMA FollowingIs ==
  ASSUME NEW x, NEW w, NEW f, NEW p, Following(x, w, f, p)
  PROVE  /\ Event = doc[p + 1] /\ Event \in EventOf(x) /\ Stepping(x, w, f, doc, p)
         /\ Grading(x, w, f, doc, p, inCoefficients, entry, coefficients)
         /\ entry # None => entry \in EntryBuilder
         /\ inCoefficients \in BOOLEAN /\ coefficients \in Seq(SurfaceCoefficient)
<1>1. Event = doc[p + 1] /\ Stepping(x, w, f, doc, p)
  BY DEF Following, Event
<1>2. doc \in Seq(EventOf(x)) /\ p + 1 \in 1 .. Len(doc)
  BY <1>1 DEF Stepping, NextOf
<1>3. doc[p + 1] \in EventOf(x)
  BY <1>2, ElementOfSeq
<1> QED
  BY <1>1, <1>3 DEF Following, ReadInv, BlockTypes

GradingHere(x, w, f, p) == Grading(x, w, f, doc, p, inCoefficients, entry, coefficients)

LEMMA TakenInBlock ==
  ASSUME NEW kinds, Takes("coefficients", kinds)
  PROVE  Event.kind \in kinds /\ doc' = doc
BY DEF Takes, documentVars

LEMMA GradedIgnored ==
  ASSUME NEW x, NEW w, NEW f, NEW p, Following(x, w, f, p), Ignore
  PROVE  GradingHere(x, w, f, p + 1)'
<1> DEFINE t == doc[p + 1]
<1>1. /\ t = Event /\ t \in EventOf(x) /\ Stepping(x, w, f, doc, p)
      /\ Grading(x, w, f, doc, p, inCoefficients, entry, coefficients)
  BY FollowingIs
<1>2. Ignored /\ doc' = doc /\ UNCHANGED coefficientVars
  BY TakenInBlock DEF Ignore
<1>3. t.kind = "text" => t.el = ""
  BY <1>1, EventFields
<1>4. /\ t.el # "coefficients" /\ ~ ClosesEntry(t)
      /\ ~ (t.el = "surface-coefficient" /\ t.kind # "close" /\ inCoefficients = TRUE)
  BY <1>1, <1>2, <1>3 DEF Ignored, Start, BlockElements, ClosesEntry
<1> HIDE DEF t
<1>5. Grading(x, w, f, doc, p + 1, inCoefficients, entry, coefficients)
  BY <1>1, <1>4, GradingStill DEF t
<1> QED
  BY <1>2, <1>5 DEF GradingHere, coefficientVars

LEMMA GradedBlockTag ==
  ASSUME NEW x, NEW w, NEW f, NEW p, Following(x, w, f, p),
         StartCoefficients \/ EndCoefficients
  PROVE  GradingHere(x, w, f, p + 1)'
<1> DEFINE t == doc[p + 1]
<1>1. /\ t = Event /\ Stepping(x, w, f, doc, p)
      /\ Grading(x, w, f, doc, p, inCoefficients, entry, coefficients)
  BY FollowingIs
<1>2. /\ t.el = "coefficients" /\ (t.kind # "close" => inCoefficients' = TRUE)
      /\ doc' = doc /\ entry' = entry /\ coefficients' = coefficients
  BY <1>1 DEF StartCoefficients, EndCoefficients, BlockStart, Takes, documentVars
<1>3. ~ ClosesEntry(t)
  BY <1>2 DEF ClosesEntry
<1> HIDE DEF t
<1>4. \A i : (i = inCoefficients') => Grading(x, w, f, doc, p + 1, i, entry, coefficients)
  <2> SUFFICES ASSUME NEW i, i = inCoefficients'
               PROVE  Grading(x, w, f, doc, p + 1, i, entry, coefficients)
    OBVIOUS
  <2>1. t.kind # "close" => i = TRUE
    BY <1>2
  <2> QED
    BY <1>1, <1>2, <1>3, <2>1, GradingStill DEF t
<1> QED
  BY <1>2, <1>4 DEF GradingHere

LEMMA GradedEntryStart ==
  ASSUME NEW x, NEW w, NEW f, NEW p, Following(x, w, f, p), StartEntry
  PROVE  GradingHere(x, w, f, p + 1)'
<1> DEFINE t == doc[p + 1]
<1>1. /\ t = Event /\ Stepping(x, w, f, doc, p)
      /\ Grading(x, w, f, doc, p, inCoefficients, entry, coefficients)
  BY FollowingIs
<1>2. /\ t.el = "surface-coefficient" /\ t.kind \in Start /\ "surfaceRef" \in DOMAIN t.attrs
      /\ t.attrs["surfaceRef"] # Unknown /\ entry'.ref = t.attrs["surfaceRef"]
      /\ doc' = doc /\ inCoefficients' = inCoefficients /\ coefficients' = coefficients
  BY <1>1 DEF StartEntry, BlockStart, Takes, documentVars, Knows, Has
<1>3. entry' # None
  <2>1. Event \in EventOf(source) /\ Event.kind \in Start
    BY Taking DEF StartEntry, BlockStart, Following
  <2>2. Event.attrs["surfaceRef"] \in SurfaceIds
    BY <1>1, <1>2, <2>1, OneFieldTag
  <2>3. entry' = Fresh(Event.attrs["surfaceRef"], <<>>)
    BY DEF StartEntry, Fresh, EntryWith
  <2>4. <<>> \in Seq(Interval)
    OBVIOUS
  <2> QED
    BY <2>2, <2>3, <2>4, EntryThere DEF Fresh
<1>4. ~ ClosesEntry(t)
  BY <1>2 DEF ClosesEntry, Start
<1> HIDE DEF t
<1>5. \A g : g = entry' => Grading(x, w, f, doc, p + 1, inCoefficients, g, coefficients)
  <2> SUFFICES ASSUME NEW g, g = entry'
               PROVE  Grading(x, w, f, doc, p + 1, inCoefficients, g, coefficients)
    OBVIOUS
  <2>1. g # None /\ g.ref = t.attrs["surfaceRef"]
    BY <1>2, <1>3
  <2>2. HeldEntry(x, w, f, p + 1, g)
    BY <1>1, <1>2, <2>1, HeldEntryNew DEF t
  <2> QED
    BY <1>1, <1>2, <1>4, <2>1, <2>2, GradingStill DEF t
<1> QED
  BY <1>2, <1>5 DEF GradingHere

\* what an entry may gain keeps the surface that it is for
LEMMA EntryGains ==
  ASSUME ReadInv, StartDelayPath \/ StartSecurity \/ StartLinearity
  PROVE  /\ entry # None /\ entry' # None /\ entry'.ref = entry.ref
         /\ Event.el \in {"delay-path", "security", "linearity"} /\ doc' = doc
         /\ inCoefficients' = inCoefficients /\ coefficients' = coefficients
<1>1. /\ Takes("coefficients", Start) /\ entry # None
      /\ Event.el \in {"delay-path", "security", "linearity"}
      /\ inCoefficients' = inCoefficients /\ coefficients' = coefficients
  BY DEF StartDelayPath, StartSecurity, StartLinearity, BlockStart
<1>2. entry \in EntryBuilder /\ entry' \in EntryBuilder
  BY EntryGraded
<1>3. entry' # None
  BY <1>2, OptionAssumption
<1>4. entry = [ref |-> entry.ref, timing |-> entry.timing,
               confidentiality |-> entry.confidentiality,
               integrity |-> entry.integrity, linearity |-> entry.linearity]
  BY <1>2, EntryFields
<1>5. entry'.ref = entry.ref
  BY <1>4 DEF StartDelayPath, StartSecurity, StartLinearity
<1>6. doc' = doc
  BY <1>1, TakenInBlock
<1> QED
  BY <1>1, <1>3, <1>5, <1>6

LEMMA GradedGain ==
  ASSUME NEW x, NEW w, NEW f, NEW p, Following(x, w, f, p),
         StartDelayPath \/ StartSecurity \/ StartLinearity
  PROVE  GradingHere(x, w, f, p + 1)'
<1> DEFINE t == doc[p + 1]
<1>1. /\ t = Event /\ Stepping(x, w, f, doc, p)
      /\ Grading(x, w, f, doc, p, inCoefficients, entry, coefficients)
  BY FollowingIs
<1>2. /\ entry # None /\ entry' # None /\ entry'.ref = entry.ref
      /\ t.el \in {"delay-path", "security", "linearity"} /\ doc' = doc
      /\ inCoefficients' = inCoefficients /\ coefficients' = coefficients
  BY <1>1, EntryGains DEF Following
<1>3. t.el # "coefficients" /\ t.el # "surface-coefficient" /\ ~ ClosesEntry(t)
  BY <1>2 DEF ClosesEntry
<1> HIDE DEF t
<1>4. \A g : g = entry' => Grading(x, w, f, doc, p + 1, inCoefficients, g, coefficients)
  <2> SUFFICES ASSUME NEW g, g = entry'
               PROVE  Grading(x, w, f, doc, p + 1, inCoefficients, g, coefficients)
    OBVIOUS
  <2>1. g # None /\ g.ref = entry.ref
    BY <1>2
  <2> QED
    BY <1>1, <1>2, <1>3, <2>1, GradingStill DEF t
<1> QED
  BY <1>2, <1>4 DEF GradingHere

LEMMA GradedEntryEnd ==
  ASSUME NEW x, NEW w, NEW f, NEW p, Following(x, w, f, p), EndEntry
  PROVE  GradingHere(x, w, f, p + 1)'
<1> DEFINE t == doc[p + 1]
<1>1. /\ t = Event /\ Stepping(x, w, f, doc, p)
      /\ Grading(x, w, f, doc, p, inCoefficients, entry, coefficients)
      /\ entry # None => entry \in EntryBuilder
      /\ coefficients \in Seq(SurfaceCoefficient)
  BY FollowingIs
<1>2. /\ t.el = "surface-coefficient" /\ t.kind = "close" /\ doc' = doc /\ entry' = None
      /\ inCoefficients' = inCoefficients
      /\ entry = None => coefficients' = coefficients
      /\ entry # None => Graded(entry) /\ coefficients' = Append(coefficients, ReadEntry(entry))
  BY <1>1 DEF EndEntry, Takes, documentVars, ReadEntry
<1>3. ClosesEntry(t)
  BY <1>2 DEF ClosesEntry
<1> HIDE DEF t
<1>4. /\ BlockHeld(x, w, f, doc, p, inCoefficients, entry)
      /\ GradedFrom(x, w, f, doc, p, coefficients)
      /\ (entry # None => HeldEntry(x, w, f, p, entry))
  BY <1>1 DEF Grading
<1>5. BlockHeld(x, w, f, doc, p + 1, inCoefficients, None)
  BY <1>1, <1>2, <1>4, BlockHeldNext DEF t
<1>6. CASE entry = None
  <2>1. ~ Whole(x, w, f, doc)
    BY <1>1, <1>3, <1>4, <1>6, NoEntryEnds DEF t
  <2>2. GradedFrom(x, w, f, doc, p + 1, coefficients)
    BY <1>1, <1>4, <2>1, GradedStill
  <2> QED
    BY <1>2, <1>5, <1>6, <2>2 DEF GradingHere, Grading
<1>7. CASE entry # None
  <2>1. entry \in EntryBuilder /\ Graded(entry)
    BY <1>1, <1>2, <1>7
  <2>2. /\ entry.ref \in SurfaceIds /\ entry.timing \in Seq(Interval)
        /\ entry.confidentiality \in Confidentiality /\ entry.integrity \in Integrity
        /\ entry.linearity \in Linearity
    BY <2>1, EntryFields DEF Graded
  <2>3. ReadEntry(entry) \in SurfaceCoefficient /\ ReadEntry(entry).surfaceRef = entry.ref
    BY <2>2 DEF ReadEntry, SurfaceCoefficient, Coefficient
  <2>4. GradedFrom(x, w, f, doc, p + 1, Append(coefficients, ReadEntry(entry)))
    BY <1>1, <1>3, <1>4, <1>7, <2>3, GradedMore DEF t
  <2> QED
    BY <1>2, <1>5, <1>7, <2>4 DEF GradingHere, Grading
<1> QED
  BY <1>6, <1>7

LEMMA GradedEvent ==
  ASSUME NEW x, NEW w, NEW f, NEW p, Following(x, w, f, p), BlockNext, ~ BlockEof, ~ BlockFails
  PROVE  GradingHere(x, w, f, p + 1)'
BY GradedIgnored, GradedBlockTag, GradedEntryStart, GradedGain, GradedEntryEnd DEF BlockNext

(***************************************************************************)
(* The entries of the second pass, whatever happened to the document.      *)
(***************************************************************************)
EntryInv ==
  /\ phase = "coefficients" =>
       \A x, w, f, p :
         x = source /\ p = pos - 1 /\ w \in WrittenOf(x) /\ Origin(f, doc, w)
           => GradingHere(x, w, f, p)
  /\ phase = "accepted" /\ reader = "v1" =>
       /\ Validate(ParsedV1)
       /\ \A x, w, f :
            x = source /\ w \in WrittenOf(x) /\ Origin(f, doc, w)
              => GradedFrom(x, w, f, doc, Len(doc), coefficients)

LEMMA EntryInit == ASSUME Init PROVE EntryInv
BY DEF Init, EntryInv

LEMMA BlockEventMoves ==
  ASSUME BlockNext, ~ BlockEof, ~ BlockFails
  PROVE  pos <= Len(doc) /\ pos' = pos + 1 /\ phase' = "coefficients"
<1>1. \A kinds : Takes("coefficients", kinds)
                   => pos' = pos + 1 /\ phase' = "coefficients" /\ pos <= Len(doc)
  BY DEF Takes
<1> QED
  BY <1>1 DEF BlockNext, StartCoefficients, StartEntry, StartDelayPath, StartSecurity,
     StartLinearity, EndCoefficients, EndEntry, Ignore, BlockStart

LEMMA EntryFromBase ==
  ASSUME ReadInv, SecondPassInv, EntryInv, BaseNext PROVE EntryInv'
<1>1. /\ phase = "base" /\ UNCHANGED <<source, reader, doc>> /\ UNCHANGED coefficientVars
      /\ phase' = "coefficients" => pos' = 1
      /\ phase' = "accepted" => reader = "v0"
  BY BaseKeeps, BasePhase, FirstPassKeepsBlock
<1>2. inCoefficients' = FALSE /\ entry' = None /\ coefficients' = <<>>
  BY <1>1 DEF SecondPassInv, Idle, coefficientVars
<1>3. ASSUME phase' = "coefficients", NEW x, NEW w, NEW f, NEW p, p = pos' - 1
      PROVE  GradingHere(x, w, f, p)'
  <2>1. p = 0
    BY <1>1, <1>3
  <2>2. Grading(x, w, f, doc, 0, FALSE, None, <<>>)
    BY GradingBegins
  <2> QED
    BY <1>1, <1>2, <2>1, <2>2 DEF GradingHere
<1> QED
  BY <1>1, <1>3 DEF EntryInv

LEMMA EntryFromBlock ==
  ASSUME ReadInv, EntryInv, BlockNext PROVE EntryInv'
<1>1. /\ phase = "coefficients" /\ UNCHANGED <<source, reader, doc, image>>
      /\ pos \in 1 .. Len(doc) + 1 /\ Len(doc) \in Nat /\ pos \in Nat
  BY BlockKeeps, LenProperties DEF ReadInv, DocumentInv
<1>2. CASE BlockFails
  <2>1. phase' = "rejected"
    BY <1>2 DEF BlockFails
  <2> QED
    BY <2>1 DEF EntryInv
<1>3. CASE BlockEof
  <2>1. /\ pos = Len(doc) + 1 /\ (phase' = "accepted" => Validate(ParsedV1))
        /\ phase' \in {"accepted", "rejected"} /\ UNCHANGED coefficientVars
    BY <1>3 DEF BlockEof
  <2>2. Len(doc) = pos - 1
    BY <1>1, <2>1
  <2>3. ASSUME NEW x, NEW w, NEW f, x = source, w \in WrittenOf(x), Origin(f, doc, w)
        PROVE  GradedFrom(x, w, f, doc, Len(doc), coefficients)
    BY <1>1, <2>2, <2>3 DEF EntryInv, GradingHere, Grading
  <2>4. ParsedV1' = ParsedV1 /\ coefficients' = coefficients
    BY <1>1, <2>1 DEF ParsedV1, coefficientVars
  <2>5. Validate(ParsedV1)' <=> Validate(ParsedV1)
    BY <2>4
  <2> QED
    BY <1>1, <2>1, <2>3, <2>4, <2>5 DEF EntryInv
<1>4. CASE ~ BlockEof /\ ~ BlockFails
  <2>1. pos <= Len(doc) /\ pos' = pos + 1 /\ phase' = "coefficients"
    BY <1>4, BlockEventMoves
  <2>2. ASSUME NEW x, NEW w, NEW f, NEW q,
               x = source', q = pos' - 1, w \in WrittenOf(x), Origin(f, doc', w)
        PROVE  GradingHere(x, w, f, q)'
    <3> DEFINE p == q - 1
    <3>1. p \in Nat /\ pos = p + 1 /\ p = pos - 1 /\ q = p + 1 /\ p + 1 \in 1 .. Len(doc)
      BY <1>1, <2>1, <2>2
    <3> HIDE DEF p
    <3>2. /\ x = source /\ Origin(f, doc, w) /\ Writing(x, w) /\ doc \in Seq(EventOf(x))
          /\ Source(x, w)
      BY <1>1, <2>2, WritingIs DEF ReadInv, DocumentInv, Source
    <3>3. Stepping(x, w, f, doc, p)
      BY <3>1, <3>2 DEF NextOf, Stepping
    <3>4. GradingHere(x, w, f, p)
      BY <1>1, <2>2, <3>1, <3>2 DEF EntryInv
    <3>5. Following(x, w, f, p)
      BY <3>1, <3>2, <3>3, <3>4 DEF Following, GradingHere
    <3>6. GradingHere(x, w, f, p + 1)'
      BY <1>4, <3>5, GradedEvent
    <3> QED
      BY <3>1, <3>6
  <2> QED
    BY <2>1, <2>2 DEF EntryInv
<1> QED
  BY <1>2, <1>3, <1>4

LEMMA EntryStep ==
  ASSUME ReadInv, SecondPassInv, EntryInv, [Next]_vars PROVE EntryInv'
<1>1. CASE Returned \/ UNCHANGED vars
  <2>1. UNCHANGED <<source, reader, doc, pos, phase, image, inCoefficients, entry, coefficients>>
    BY <1>1 DEF Returned, vars, documentVars, baseVars, coefficientVars
  <2>2. ASSUME NEW x, NEW w, NEW f, NEW p, GradingHere(x, w, f, p) PROVE GradingHere(x, w, f, p)'
    BY <2>1, <2>2 DEF GradingHere
  <2>3. ParsedV1' = ParsedV1
    BY <2>1 DEF ParsedV1
  <2>4. Validate(ParsedV1)' <=> Validate(ParsedV1)
    BY <2>3
  <2> QED
    BY <2>1, <2>2, <2>4 DEF EntryInv
<1> QED
  BY <1>1, EntryFromBase, EntryFromBlock DEF Next

LEMMA EntriesHold == Spec => []EntryInv
BY EntryInit, EntryStep, ReadInvHolds, SecondPassHolds, PTL DEF Spec

(***************************************************************************)
(* A document that was not refused has kept its session tag.               *)
(***************************************************************************)
SessionSeen(d, n) ==
  \E k \in 1 .. n : k \in 1 .. Len(d) /\ d[k].el = "session" /\ d[k].kind # "close"

SessionInv ==
  /\ phase = "base" /\ session.created # None => SessionSeen(doc, pos - 1)
  /\ phase \in {"coefficients", "accepted"} => SessionSeen(doc, Len(doc))

LEMMA SessionInit == ASSUME Init PROVE SessionInv
BY DEF Init, SessionInv

LEMMA SessionKept ==
  ASSUME BaseNext, ~ StartSession, ~ BaseFails PROVE session' = session
BY DEF BaseNext, EndHost, EndSurface, EndText, EndOther, BaseEnd, TakeText, BaseEof,
   StartSession, StartSurface, StartHost, StartText, StartDimensions,
   StartStrip, StartFocus, StartOther, BaseStart

LEMMA SessionStep == ASSUME ReadInv, SessionInv, [Next]_vars PROVE SessionInv'
<1>1. CASE BaseNext
  <2>1. /\ UNCHANGED <<source, doc>> /\ phase = "base" /\ pos \in Nat /\ Len(doc) \in Nat
        /\ pos \in 1 .. Len(doc) + 1
        /\ ~ BaseEof /\ ~ BaseFails => /\ pos' = pos + 1 /\ phase' = "base"
                                       /\ pos \in 1 .. Len(doc)
        /\ BaseEof => pos = Len(doc) + 1 /\ phase' \in {"accepted", "coefficients"}
        /\ BaseFails => phase' = "rejected"
    BY <1>1, BaseFrame
  <2>2. CASE BaseFails
    BY <2>1, <2>2 DEF SessionInv
  <2>3. CASE BaseEof
    <3>1. session.created # None /\ pos - 1 = Len(doc)
      BY <2>1, <2>3 DEF BaseEof
    <3>2. SessionSeen(doc, Len(doc))
      BY <2>1, <3>1 DEF SessionInv
    <3> QED
      BY <2>1, <2>3, <3>2 DEF SessionInv
  <2>4. CASE ~ BaseEof /\ ~ BaseFails
    <3>1. pos' - 1 = pos /\ pos \in 1 .. pos
      BY <2>1, <2>4
    <3>2. CASE StartSession
      <4>1. Event.el = "session" /\ Event.kind # "close"
        BY <3>2, BaseStartIs DEF StartSession
      <4>2. doc[pos].el = "session" /\ doc[pos].kind # "close"
        BY <4>1 DEF Event
      <4>3. SessionSeen(doc, pos)
        BY <2>1, <2>4, <3>1, <4>2 DEF SessionSeen
      <4> QED
        BY <2>1, <2>4, <3>1, <4>3 DEF SessionInv
    <3>3. CASE ~ StartSession
      <4>1. session' = session
        BY <1>1, <2>4, <3>3, SessionKept
      <4>2. SessionSeen(doc, pos - 1) => SessionSeen(doc, pos)
        BY <2>1 DEF SessionSeen
      <4> QED
        BY <2>1, <2>4, <3>1, <4>1, <4>2 DEF SessionInv
    <3> QED
      BY <3>2, <3>3
  <2> QED
    BY <2>2, <2>3, <2>4
<1>2. CASE BlockNext
  <2>1. /\ phase = "coefficients" /\ phase' \in {"coefficients", "accepted", "rejected"}
        /\ UNCHANGED doc
    BY <1>2, BlockKeeps
  <2> QED
    BY <2>1 DEF SessionInv
<1>3. CASE Returned \/ UNCHANGED vars
  BY <1>3 DEF Returned, vars, documentVars, baseVars, SessionInv
<1> QED
  BY <1>1, <1>2, <1>3 DEF Next

LEMMA SessionHolds == Spec => []SessionInv
BY SessionInit, SessionStep, ReadInvHolds, PTL DEF Spec

NoSession(e) == e.el # "session" \/ e.kind = "close"

LEMMA SurfaceHasNoSession ==
  ASSUME NEW w, NEW s, SurfaceTable(w, s), NEW k \in 1 .. 20
  PROVE  NoSession(w[k])
<1> DEFINE e == w[k]
<1>1. CASE k \in {1, 2, 15, 19, 20}
  BY <1>1 DEF SurfaceTable, Open, Close, Empty, NoSession
<1>2. ASSUME NEW el \in TextElements, k \in {TextStart[el], TextStart[el] + 1, TextStart[el] + 2}
      PROVE  NoSession(e)
  <2>1. TextAt(w, s, el)
    BY DEF SurfaceTable
  <2>2. e = Open(el, <<>>) \/ e = TextEvent(s.text[el]) \/ e = Close(el)
    BY <1>2, <2>1 DEF TextAt
  <2> HIDE DEF e
  <2>5. Open(el, <<>>).el = el /\ TextEvent(s.text[el]).el = "" /\ Close(el).el = el
    BY DEF Open, Close, TextEvent
  <2>3. e.el = el \/ e.el = ""
    BY <2>2, <2>5, Zenon
  <2>4. el # "session"
    BY TextStarts
  <2> QED
    BY <2>3, <2>4 DEF NoSession
<1> QED
  BY <1>1, <1>2, SurfaceCover

LEMMA SessionTagIs ==
  ASSUME NEW x, NEW w, Writing(x, w), NEW v \in 1 .. Len(w), ~ NoSession(w[v])
  PROVE  v = 1
<1>1. x \in ImageV1 /\ PreludeTable(w, x) /\ PreludeEnd(x) \in Nat
  BY PreludeEndIs DEF Writing, Intact
<1>2. CASE v > PreludeEnd(x)
  <2>1. v \in PreludeEnd(x) + 1 .. Len(w)
    BY <1>1, <1>2
  <2>2. w[v] \in TailEvents(x)
    BY <2>1 DEF Writing, Intact
  <2> QED
    BY <2>2 DEF TailEvents, NoSession
<1>3. CASE v <= PreludeEnd(x)
  <2>1. v \in 1 .. PreludeEnd(x)
    BY <1>1, <1>3
  <2>2. CASE v \in {2, SurfaceLines(x) + 3, SurfaceLines(x) + 4, SurfaceLines(x) + 5,
                    PreludeEnd(x)}
    <3>1. w[v] \in {Open("surfaces", <<>>), Close("surfaces"), Open("layout", <<>>),
                    Empty("strip", [scrollPos |-> x.base.body.scroll]), Close("layout")}
      BY <1>1, <2>2 DEF PreludeTable
    <3> QED
      BY <3>1 DEF Open, Close, Empty, NoSession
  <2>3. CASE x.base.body.focus # None /\ v = SurfaceLines(x) + 6
    <3>1. w[v] = Empty("focus", RefAttrs(x.base.body.focus))
      BY <1>1, <2>3 DEF PreludeTable
    <3> QED
      BY <3>1 DEF Empty, NoSession
  <2>4. ASSUME NEW i \in 1 .. Len(x.base.body.surfaces), NEW k \in 1 .. 20,
               v = 2 + 20 * (i - 1) + k
        PROVE  NoSession(w[v])
    <3> DEFINE e == WriteSurface(x.base.body.surfaces[i])
    <3>1. w[v] = e[k]
      BY <1>1, <2>4 DEF PreludeTable
    <3>2. x.base.body.surfaces[i] \in SurfaceEntry
      BY <1>1, ImageFields, SurfacesOf
    <3>3. SurfaceTable(e, x.base.body.surfaces[i])
      BY <3>2, SurfaceIs, Zenon
    <3> HIDE DEF e
    <3> QED
      BY <3>1, <3>3, SurfaceHasNoSession
  <2> QED
    BY <1>1, <2>1, <2>2, <2>3, <2>4, PreludeCover
<1>4. v \in Int
  OBVIOUS
<1> QED
  BY <1>1, <1>2, <1>3, <1>4

\* a document that has lost its session tag was refused
LEMMA SessionTraced ==
  ASSUME NEW x, NEW w, NEW f, NEW d, Writing(x, w), Origin(f, d, w), SessionSeen(d, Len(d))
  PROVE  \E k \in 1 .. Len(d) : f[k] = 1
<1>1. PICK k \in 1 .. Len(d) : d[k].el = "session" /\ d[k].kind # "close"
  BY DEF SessionSeen
<1>2. f[k] \in 1 .. Len(w) /\ d[k].kind = w[f[k]].kind /\ d[k].el = w[f[k]].el
  BY <1>1 DEF Origin, Weaker
<1>3. ~ NoSession(w[f[k]])
  BY <1>1, <1>2 DEF NoSession
<1> QED
  BY <1>1, <1>2, <1>3, SessionTagIs

\* as many different numbers up to n as there are
LEMMA AllTaken ==
  ASSUME NEW n \in Nat, NEW g \in [1 .. n -> 1 .. n],
         \A l, m \in 1 .. n : g[l] = g[m] => l = m, NEW i \in 1 .. n
  PROVE  \E m \in 1 .. n : g[m] = i
<1> DEFINE D == 1 .. n
<1>1. IsFiniteSet(D)
  BY IndexesAreFinite, Zenon
<1> HIDE DEF D
<1>2. g \in Injection(D, D)
  BY DEF Injection, IsInjective, D
<1>3. g \in Surjection(D, D)
  BY <1>1, <1>2, FS_Injection, Zenon
<1> QED
  BY <1>3 DEF Surjection, D

\* an entry of which nothing was lost has ended by the end
LEMMA WholeEnds ==
  ASSUME NEW x, NEW w, NEW f, NEW d, Source(x, w), Origin(f, d, w), Len(d) \in Nat,
         Whole(x, w, f, d), NEW i \in EntriesIn(x, w)
  PROVE  Ended(x, f, Len(d), i)
<1> DEFINE n == Len(d)
           b == EntryEnd(x, i)
<1>1. b \in PreludeEnd(x) + 1 .. Len(w) - 1 /\ Len(w) \in Nat
  BY EntryInBlock, SourceIs
<1>2. PICK k \in 1 .. n : f[k] = b
  BY <1>1 DEF Whole
<1>3. n \in 1 .. n /\ n >= 1 /\ k <= n /\ n \in Nat
  BY <1>2
<1>4. f[k] \in Nat /\ f[n] \in Nat
  BY <1>1, <1>2, <1>3 DEF Origin
<1>5. k # n => f[k] < f[n]
  BY <1>1, <1>2, <1>3, OriginClimbs
<1>6. b <= f[n]
  <2> HIDE DEF b, n
  <2> QED
    BY <1>2, <1>3, <1>4, <1>5
<1> QED
  BY <1>3, <1>6 DEF Ended

\* a document that still has an entry of the block, and its session tag, has
\* either everything that was written before the block or everything after
LEMMA NothingLost ==
  ASSUME NEW x, NEW w, NEW f, NEW d, Source(x, w), Origin(f, d, w),
         Kept(f, d, w, PreludeEnd(x)), d \in Seq(EventOf(x)), SessionSeen(d, Len(d)),
         NEW i \in EntriesIn(x, w), Ended(x, f, Len(d), i)
  PROVE  Whole(x, w, f, d) \/ Intact(d, x)
<1> DEFINE M == PreludeEnd(x)
           n == Len(d)
<1>1. /\ Writing(x, w) /\ x \in ImageV1 /\ M \in Nat /\ M >= 1 /\ n \in Nat /\ Intact(w, x)
      /\ Len(w) \in Nat
  BY SourceIs, LenProperties
<1>2. \E k \in 1 .. n : f[k] = 1
  BY <1>1, SessionTraced
<1>3. SUFFICES ASSUME \A k \in 1 .. n : k <= M => f[k] = k /\ d[k] = w[k]
               PROVE  Intact(d, x)
  BY <1>2 DEF Kept, Whole
<1>4. n > M
  <2> DEFINE b == EntryEnd(x, i)
             q == f[n]
  <2>1. n >= 1 /\ b <= q /\ b \in Nat /\ b > M
    <3>1. n >= 1 /\ b <= q
      BY DEF Ended
    <3>2. b \in M + 1 .. Len(w) - 1
      BY EntryInBlock
    <3> QED
      BY <1>1, <3>1, <3>2
  <2>2. n <= M => q = n
    BY <1>1, <1>3, <2>1
  <2> HIDE DEF M, n, b, q
  <2> QED
    BY <1>1, <2>1, <2>2
<1>5. PreludeTable(d, x)
  <2>1. \A k \in 1 .. M : d[k] = w[k]
    BY <1>1, <1>3, <1>4
  <2> QED
    BY <1>1, <2>1, SamePrelude DEF Intact
<1>6. ASSUME NEW k \in M + 1 .. n PROVE d[k] \in TailEvents(x)
  <2>1. M \in 1 .. n /\ k \in 1 .. n /\ M < k
    BY <1>1, <1>4, <1>6
  <2>2. f[M] = M /\ f[k] \in 1 .. Len(w)
    BY <1>1, <1>3, <2>1 DEF Origin
  <2>3. f[M] < f[k]
    BY <1>1, <2>1, OriginClimbs
  <2> DEFINE v == f[k]
  <2>4. v \in M + 1 .. Len(w)
    BY <1>1, <2>2, <2>3
  <2>5. w[v] \in TailEvents(x)
    BY <1>1, <2>4 DEF Intact
  <2>6. d[k] \in EventOf(x)
    BY <2>1, ElementOfSeq
  <2>7. d[k].kind = w[v].kind /\ d[k].el = w[v].el
    BY <2>1 DEF Origin, Weaker
  <2> QED
    BY <2>5, <2>6, <2>7 DEF TailEvents
<1>7. n >= M
  BY <1>1, <1>4
<1> QED
  BY <1>5, <1>6, <1>7 DEF Intact

\* two surfaces that were read share no identifier: each has an entry of its own
\* in the block that was written, and both entries were read
LEMMA SurfacesDiffer ==
  ASSUME ReadInv, FirstPassInv, TraceInv, EntryInv, SessionInv,
         phase = "accepted", reader = "v1"
  PROVE  DistinctSurfaces(image.body.surfaces)
<1> DEFINE x == source
           s == image.body.surfaces
           ss == surfaces
           cs == coefficients
           n == Len(doc)
<1>1. PICK w \in WrittenOf(x) : ComesFrom(doc, w)
  BY DEF ReadInv, DocumentInv
<1>2. x \in Sources /\ doc \in Seq(EventOf(x)) /\ Source(x, w) /\ n \in Nat
  BY LenProperties DEF ReadInv, DocumentInv, Source
<1>3. PICK f : Origin(f, doc, w) /\ Kept(f, doc, w, PreludeEnd(x))
  BY <1>1, <1>2, DocumentTraced
<1>4. s = SortedByOrder(ss) /\ ss \in Seq(SurfaceEntry) /\ cs \in Seq(SurfaceCoefficient)
  BY DEF TraceInv, ReadInv, BaseTypes, BlockTypes
<1>5. PICK h : ReadAs(x, f, n, ss, h)
  BY <1>3 DEF TraceInv, ReadFrom
<1>6. PICK g : GradedAs(x, w, f, doc, n, cs, g)
  BY <1>1, <1>3 DEF EntryInv, GradedFrom
<1>7. /\ Len(cs) = Len(s)
      /\ \A i \in DOMAIN s : Cardinality(References(cs, s[i].id)) = 1
  BY DEF EntryInv, Validate, ParsedV1
<1>8. SessionSeen(doc, n)
  BY DEF SessionInv
<1>9. SUFFICES ASSUME NEW i \in DOMAIN s, NEW j \in DOMAIN s, s[i].id = s[j].id, i # j
               PROVE  FALSE
  BY DEF DistinctSurfaces
<1> DEFINE A == s[i].id
<1>10. PICK a \in 1 .. Len(ss) : Place(ss, a) = i /\ s[i] = ss[a]
  BY <1>4, SortedFrom
<1>11. PICK b \in 1 .. Len(ss) : Place(ss, b) = j /\ s[j] = ss[b]
  BY <1>4, SortedFrom
<1>12. a # b /\ ss[a].id = A /\ ss[b].id = A
  BY <1>9, <1>10, <1>11
<1> DEFINE u == h[a]
           v == h[b]
<1>13. u \in 1 .. Count(x) /\ v \in 1 .. Count(x) /\ u # v
  BY <1>5, <1>12 DEF ReadAs
<1>14. IdOf(x, u) = A /\ IdOf(x, v) = A
  BY <1>5, <1>12 DEF ReadAs, Fits, SurfaceOf, IdOf
<1>15. PICK m : References(cs, A) = {m}
  <2>1. IsFiniteSet(References(cs, A)) /\ Cardinality(References(cs, A)) = 1
    BY <1>4, <1>7, ReferencesAreFinite
  <2> QED
    BY <2>1, FS_Singleton, Zenon
<1>16. /\ m \in 1 .. Len(cs) /\ cs[m].surfaceRef = A
       /\ \A l \in 1 .. Len(cs) : cs[l].surfaceRef = A => l = m
  <2>1. References(cs, A) \subseteq 1 .. Len(cs) /\ DOMAIN cs = 1 .. Len(cs)
    BY <1>4, ReferencesAreFinite
  <2> QED
    BY <1>15, <2>1 DEF References
<1>17. g[m] \in EntriesIn(x, w) /\ IdOf(x, g[m]) = A /\ Ended(x, f, n, g[m])
  BY <1>6, <1>16 DEF GradedAs
<1>18. u \in EntriesIn(x, w) /\ v \in EntriesIn(x, w)
  BY <1>13, <1>14, <1>17 DEF EntriesIn, Listed
<1>19. SUFFICES /\ \E l \in 1 .. Len(cs) : g[l] = u
                /\ \E l \in 1 .. Len(cs) : g[l] = v
  <2>1. PICK k \in 1 .. Len(cs) : g[k] = u
    BY <1>19
  <2>2. PICK l \in 1 .. Len(cs) : g[l] = v
    BY <1>19
  <2>3. cs[k].surfaceRef = A /\ cs[l].surfaceRef = A
    BY <1>6, <1>14, <2>1, <2>2 DEF GradedAs
  <2>4. k = l
    BY <1>16, <2>3
  <2> QED
    BY <1>13, <2>1, <2>2, <2>4
<1>20. Whole(x, w, f, doc) \/ Intact(doc, x)
  BY <1>2, <1>3, <1>8, <1>17, NothingLost
<1>21. CASE Whole(x, w, f, doc)
  <2>1. Ended(x, f, n, u) /\ Ended(x, f, n, v)
    BY <1>2, <1>3, <1>18, <1>21, WholeEnds
  <2> QED
    BY <1>6, <1>18, <1>21, <2>1 DEF GradedAs
<1>22. CASE Intact(doc, x)
  <2>1. image = BaseRead(x) /\ x \in ImageV1
    BY <1>2, <1>22, SourceIs DEF FirstPassInv
  <2>2. Len(s) = Count(x) /\ Count(x) \in Nat
    BY <1>2, <2>1, RereadNames, SourceIs DEF BaseRead, Count
  <2>3. /\ g \in [1 .. Count(x) -> 1 .. Count(x)]
        /\ \A l, k \in 1 .. Count(x) : g[l] = g[k] => l = k
    BY <1>6, <1>7, <2>2 DEF GradedAs, EntriesIn
  <2>4. Len(cs) = Count(x)
    BY <1>7, <2>2
  <2>5. \A k \in 1 .. Count(x) : \E l \in 1 .. Count(x) : g[l] = k
    BY <2>2, <2>3, AllTaken, Zenon
  <2>6. (\E l \in 1 .. Count(x) : g[l] = u) /\ (\E l \in 1 .. Count(x) : g[l] = v)
    BY <1>13, <2>5
  <2> QED
    BY <2>4, <2>6
<1> QED
  BY <1>20, <1>21, <1>22

\* the declared id plays no part in the laws
LEMMA LeqOfParts ==
  ASSUME NEW a, NEW b, NEW c, NEW d,
         a.base.body = c.base.body, a.coefficients = c.coefficients,
         b.base.body = d.base.body, b.coefficients = d.coefficients
  PROVE  ImageLeq(a, b) <=> ImageLeq(c, d)
BY DEF ImageLeq, BaseEq

LEMMA GammaOfParts ==
  ASSUME NEW a, NEW b, a.body = b.body
  PROVE  Gamma(a).base.body = Gamma(b).base.body /\ Gamma(a).coefficients = Gamma(b).coefficients
BY DEF Gamma

LEMMA LawsOfParts ==
  ASSUME NEW y, NEW z, z.base.body = y.base.body, z.coefficients = y.coefficients
  PROVE  /\ Validate(z) <=> Validate(y)
         /\ Inflationary(z) <=> Inflationary(y)
         /\ \A b : Adjoint(z, b) <=> Adjoint(y, b)
<1>1. Validate(z) <=> Validate(y)
  BY DEF Validate
<1>2. (AllOnePath(z) <=> AllOnePath(y)) /\ (CoeffIsTop(z) <=> CoeffIsTop(y))
  BY DEF AllOnePath, CoeffIsTop
<1> DEFINE gy == Gamma(Alpha(y))
           gz == Gamma(Alpha(z))
<1>3. gz.base.body = gy.base.body /\ gz.coefficients = gy.coefficients
  BY GammaOfParts DEF Alpha
<1> HIDE DEF gy, gz
<1>4. /\ ImageLeq(z, gz) <=> ImageLeq(y, gy)
      /\ ImageLeq(gz, z) <=> ImageLeq(gy, y)
  BY <1>3, LeqOfParts
<1>5. Inflationary(z) <=> Inflationary(y)
  BY <1>2, <1>4 DEF Inflationary, gy, gz
<1>6. ASSUME NEW b PROVE Adjoint(z, b) <=> Adjoint(y, b)
  <2>1. BaseLeq(Alpha(z), b) <=> BaseLeq(Alpha(y), b)
    BY DEF BaseLeq, Alpha
  <2> DEFINE g == Gamma(b)
  <2>2. ImageLeq(z, g) <=> ImageLeq(y, g)
    BY LeqOfParts
  <2> QED
    BY <1>2, <2>1, <2>2 DEF Adjoint
<1> QED
  BY <1>1, <1>5, <1>6

LEMMA LawsFromParts ==
  ASSUME NEW y, Validate(y), y.base.body \in Body, y.coefficients \in Seq(SurfaceCoefficient),
         DistinctSurfaces(y.base.body.surfaces)
  PROVE  Inflationary(y) /\ \A img \in Image : Adjoint(y, img)
<1> DEFINE b == [id |-> None, body |-> y.base.body]
           z == [base |-> b, coefficients |-> y.coefficients]
<1>1. b \in Image /\ b.body = y.base.body
  BY DEF Image
<1> HIDE DEF b
<1>2. z \in ImageV1 /\ z.base.body = y.base.body /\ z.coefficients = y.coefficients
  BY <1>1 DEF ImageV1
<1> HIDE DEF z
<1>3. Validate(z) /\ DistinctSurfaces(z.base.body.surfaces)
  BY <1>2, LawsOfParts
<1>4. Inflationary(z) /\ \A img \in Image : Adjoint(z, img)
  BY <1>2, <1>3, GammaAlphaMovesUp, AlphaGammaAreAdjoint
<1> QED
  BY <1>2, <1>4, LawsOfParts

LEMMA LawsRead ==
  ASSUME ReadInv, FirstPassInv, TraceInv, EntryInv, SessionInv PROVE ReadImagesObeyTheLaws
<1> SUFFICES ASSUME phase = "accepted", reader = "v1" PROVE ReadImagesObeyTheLaws
  BY DEF ReadImagesObeyTheLaws
<1> DEFINE y == ParsedV1
<1>1. y.base = image /\ y.coefficients = coefficients
  BY DEF ParsedV1
<1>2. image.body \in Body /\ coefficients \in Seq(SurfaceCoefficient)
  BY DEF ReadInv, BlockTypes, ReadImage
<1>3. Validate(y) /\ DistinctSurfaces(image.body.surfaces)
  BY SurfacesDiffer DEF EntryInv
<1> HIDE DEF y
<1>4. Inflationary(y) /\ \A img \in Image : Adjoint(y, img)
  BY <1>1, <1>2, <1>3, LawsFromParts
<1>5. \A x \in Sources : x.base \in Image
  BY ParserAssumption, ImageParts
<1> QED
  BY <1>4, <1>5 DEF ReadImagesObeyTheLaws, y

(***************************************************************************)
(* Every v1 image that from_xml accepts, from a document as written or a   *)
(* damaged one, obeys the laws of alpha and gamma.  The laws need distinct *)
(* surfaces, which validate does not ask for: a repeated identifier would  *)
(* have to come from a source that repeats it, its block holds an entry    *)
(* for each of the two surfaces, and one damage cannot take an entry away  *)
(* without leaving the surfaces, and with them the count that validate     *)
(* compares, as they were.                                                 *)
(***************************************************************************)
THEOREM ReadImagesKeepTheLaws == Spec => []ReadImagesObeyTheLaws
BY ReadInvHolds, FirstPassHolds, TraceHolds, EntriesHold, SessionHolds, LawsRead, PTL
=============================================================================
