---------------------------- MODULE GaloisProofs ----------------------------
(***************************************************************************)
(* Theorems about the coefficients and the two maps of galois.rs, for      *)
(* every image: the order is an order, top is the top of the coefficients  *)
(* of one delay path and of no others, gamma makes valid images, and alpha *)
(* and gamma are a Galois connection that moves images up.                 *)
(***************************************************************************)
EXTENDS Galois, FunctionTheorems, FiniteSetTheorems, SequenceTheorems, TLAPS

(***************************************************************************)
(* The components of a coefficient, and their orders.                      *)
(***************************************************************************)
LEMMA BoundOrder ==
  ASSUME NEW a \in Bound, NEW b \in Bound, NEW c \in Bound
  PROVE  /\ BoundLe(a, a)
         /\ BoundLe(a, b) /\ BoundLe(b, a) => a = b
         /\ BoundLe(a, b) /\ BoundLe(b, c) => BoundLe(a, c)
BY DEF Bound, BoundLe

LEMMA Infinities ==
  /\ NegInf \in Bound /\ PosInf \in Bound
  /\ \A b \in Bound : BoundLe(NegInf, b) /\ BoundLe(b, PosInf)
BY DEF Bound, BoundLe, NegInf, PosInf

LEMMA IntervalOrder ==
  ASSUME NEW i \in Interval, NEW j \in Interval, NEW k \in Interval
  PROVE  /\ ContainedIn(i, i)
         /\ ContainedIn(i, j) /\ ContainedIn(j, i) => i = j
         /\ ContainedIn(i, j) /\ ContainedIn(j, k) => ContainedIn(i, k)
         /\ ContainedIn(i, Unbounded)
         /\ Unbounded \in Interval
<1>1. i.lo \in Bound /\ i.hi \in Bound /\ j.lo \in Bound /\ j.hi \in Bound
      /\ k.lo \in Bound /\ k.hi \in Bound
  BY DEF Interval
<1>2. ContainedIn(i, i)
  BY <1>1, BoundOrder DEF ContainedIn
<1>3. ContainedIn(i, j) /\ ContainedIn(j, i) => i = j
  <2>1. ContainedIn(i, j) /\ ContainedIn(j, i) => i.lo = j.lo /\ i.hi = j.hi
    BY <1>1, BoundOrder DEF ContainedIn
  <2> QED BY <2>1 DEF Interval
<1>4. ContainedIn(i, j) /\ ContainedIn(j, k) => ContainedIn(i, k)
  BY <1>1, BoundOrder DEF ContainedIn
<1>5. ContainedIn(i, Unbounded) /\ Unbounded \in Interval
  BY <1>1, Infinities DEF ContainedIn, Unbounded, Interval
<1> QED BY <1>2, <1>3, <1>4, <1>5

LEMMA TimingOrder ==
  ASSUME NEW s \in Seq(Interval), NEW t \in Seq(Interval), NEW u \in Seq(Interval)
  PROVE  /\ TimingLe(s, s)
         /\ TimingLe(s, t) /\ TimingLe(t, s) => s = t
         /\ TimingLe(s, t) /\ TimingLe(t, u) => TimingLe(s, u)
<1>0. /\ \A n \in DOMAIN s : s[n] \in Interval
      /\ \A n \in DOMAIN t : t[n] \in Interval
      /\ \A n \in DOMAIN u : u[n] \in Interval
      /\ DOMAIN s = 1 .. Len(s) /\ DOMAIN t = 1 .. Len(t) /\ DOMAIN u = 1 .. Len(u)
  OBVIOUS
<1>1. TimingLe(s, s)
  BY <1>0, IntervalOrder DEF TimingLe
<1>2. ASSUME TimingLe(s, t), TimingLe(t, s) PROVE s = t
  <2>1. DOMAIN s = DOMAIN t
    BY <1>0, <1>2 DEF TimingLe
  <2>2. ASSUME NEW n \in DOMAIN s PROVE s[n] = t[n]
    BY <1>0, <1>2, <2>1, IntervalOrder DEF TimingLe
  <2> QED BY <2>1, <2>2, <1>0, <1>2, SeqEqual DEF TimingLe
<1>3. ASSUME TimingLe(s, t), TimingLe(t, u) PROVE TimingLe(s, u)
  <2>1. DOMAIN s = DOMAIN t /\ DOMAIN t = DOMAIN u /\ Len(s) = Len(u)
    BY <1>0, <1>3 DEF TimingLe
  <2>2. ASSUME NEW n \in DOMAIN s PROVE ContainedIn(s[n], u[n])
    BY <1>0, <1>3, <2>1, IntervalOrder DEF TimingLe
  <2> QED BY <2>1, <2>2 DEF TimingLe
<1> QED BY <1>1, <1>2, <1>3

LEMMA TimingTop ==
  ASSUME NEW s \in Seq(Interval)
  PROVE  /\ <<Unbounded>> \in Seq(Interval)
         /\ TimingLe(s, <<Unbounded>>) <=> Len(s) = 1
<1>1. Unbounded \in Interval /\ \A i \in Interval : ContainedIn(i, Unbounded)
  BY IntervalOrder, Infinities DEF Interval, Unbounded
<1>2. <<Unbounded>> \in Seq(Interval) /\ Len(<<Unbounded>>) = 1 /\ <<Unbounded>>[1] = Unbounded
  BY <1>1
<1>3. TimingLe(s, <<Unbounded>>) => Len(s) = 1
  BY <1>2 DEF TimingLe
<1>4. ASSUME Len(s) = 1 PROVE TimingLe(s, <<Unbounded>>)
  <2>1. DOMAIN s = {1} /\ s[1] \in Interval
    BY <1>4
  <2> QED BY <1>1, <1>2, <1>4, <2>1 DEF TimingLe
<1> QED BY <1>2, <1>3, <1>4

LEMMA RankOrder ==
  /\ \A c, d \in Confidentiality :
       /\ ConfidentialityRank[c] \in 0 .. 2
       /\ ConfidentialityRank[c] = ConfidentialityRank[d] => c = d
       /\ ConfidentialityRank[c] <= ConfidentialityRank["public"]
  /\ \A i, j \in Integrity :
       /\ IntegrityRank[i] \in 0 .. 2
       /\ IntegrityRank[i] = IntegrityRank[j] => i = j
       /\ IntegrityRank[i] <= IntegrityRank["untrusted"]
BY DEF Confidentiality, Integrity, ConfidentialityRank, IntegrityRank

LEMMA LinearityOrder ==
  ASSUME NEW l \in Linearity, NEW m \in Linearity, NEW n \in Linearity
  PROVE  /\ LinearityLe(l, l)
         /\ LinearityLe(l, m) /\ LinearityLe(m, l) => l = m
         /\ LinearityLe(l, m) /\ LinearityLe(m, n) => LinearityLe(l, n)
         /\ LinearityLe(l, Omega)
         /\ Omega \in Linearity
<1>1. /\ l.tag \in {0, 1} /\ l.value \in Nat /\ m.tag \in {0, 1} /\ m.value \in Nat
      /\ n.tag \in {0, 1} /\ n.value \in Nat
  BY DEF Linearity
<1>2. ASSUME NEW a \in Linearity PROVE a = Omega <=> a.tag = 1
  BY DEF Linearity, Omega
<1>3. ASSUME l.tag = m.tag, l.value = m.value PROVE l = m
  BY <1>3 DEF Linearity
<1>4. l.tag = 1 /\ m.tag = 1 => l.value = m.value
  BY DEF Linearity
<1>5. Omega \in Linearity
  BY DEF Linearity, Omega
<1>6. LinearityLe(l, l) /\ LinearityLe(l, Omega)
  BY <1>1 DEF LinearityLe
<1>7. LinearityLe(l, m) /\ LinearityLe(m, l) => l = m
  BY <1>1, <1>2, <1>3, <1>4 DEF LinearityLe
<1>8. LinearityLe(l, m) /\ LinearityLe(m, n) => LinearityLe(l, n)
  BY <1>1 DEF LinearityLe
<1> QED BY <1>5, <1>6, <1>7, <1>8

(***************************************************************************)
(* The coefficients.                                                       *)
(***************************************************************************)
LEMMA CoefficientParts ==
  ASSUME NEW c \in Coefficient
  PROVE  /\ c.timing \in Seq(Interval) /\ c.confidentiality \in Confidentiality
         /\ c.integrity \in Integrity /\ c.linearity \in Linearity
BY DEF Coefficient

LEMMA SameCoefficient ==
  ASSUME NEW c \in Coefficient, NEW d \in Coefficient,
         c.timing = d.timing, c.confidentiality = d.confidentiality,
         c.integrity = d.integrity, c.linearity = d.linearity
  PROVE  c = d
BY DEF Coefficient

LEMMA TopIsCoefficient ==
  /\ Top \in Coefficient
  /\ Top.timing = <<Unbounded>> /\ Top.confidentiality = "public"
  /\ Top.integrity = "untrusted" /\ Top.linearity = Omega
<1>1. Omega \in Linearity
  BY DEF Linearity, Omega
<1>2. Unbounded \in Interval
  BY Infinities DEF Unbounded, Interval
<1>3. <<Unbounded>> \in Seq(Interval)
  BY <1>2
<1> QED BY <1>1, <1>3 DEF Top, Coefficient, Confidentiality, Integrity

\* Coefficient::leq is a partial order on all coefficients, whatever the number
\* of their delay paths: the pointwise product of four orders, of which timing
\* compares multi-intervals of one length only.
THEOREM CoefficientLeqIsAnOrder ==
  ASSUME NEW c \in Coefficient, NEW d \in Coefficient, NEW e \in Coefficient
  PROVE  /\ CoefficientLeq(c, c)
         /\ CoefficientLeq(c, d) /\ CoefficientLeq(d, c) => c = d
         /\ CoefficientLeq(c, d) /\ CoefficientLeq(d, e) => CoefficientLeq(c, e)
<1>1. CoefficientLeq(c, c)
  BY CoefficientParts, TimingOrder, RankOrder, LinearityOrder DEF CoefficientLeq
<1>2. ASSUME CoefficientLeq(c, d), CoefficientLeq(d, c) PROVE c = d
  <2>1. c.timing = d.timing
    BY <1>2, CoefficientParts, TimingOrder DEF CoefficientLeq
  <2>2. c.confidentiality = d.confidentiality /\ c.integrity = d.integrity
    BY <1>2, CoefficientParts, RankOrder, SMTT(30) DEF CoefficientLeq
  <2>3. c.linearity = d.linearity
    BY <1>2, CoefficientParts, LinearityOrder DEF CoefficientLeq
  <2> QED BY <2>1, <2>2, <2>3, SameCoefficient
<1>3. ASSUME CoefficientLeq(c, d), CoefficientLeq(d, e) PROVE CoefficientLeq(c, e)
  <2>1. TimingLe(c.timing, e.timing)
    BY <1>3, CoefficientParts, TimingOrder DEF CoefficientLeq
  <2>2. /\ ConfidentialityRank[c.confidentiality] <= ConfidentialityRank[e.confidentiality]
        /\ IntegrityRank[c.integrity] <= IntegrityRank[e.integrity]
    BY <1>3, CoefficientParts, RankOrder DEF CoefficientLeq
  <2>3. LinearityLe(c.linearity, e.linearity)
    BY <1>3, CoefficientParts, LinearityOrder DEF CoefficientLeq
  <2> QED BY <2>1, <2>2, <2>3 DEF CoefficientLeq
<1> QED BY <1>1, <1>2, <1>3

\* Coefficient::top is above exactly the coefficients of one delay path: it is
\* the greatest of those, and unrelated to all others.
THEOREM TopOfOnePath ==
  ASSUME NEW c \in Coefficient
  PROVE  /\ CoefficientLeq(c, Top) <=> OnePath(c)
         /\ CoefficientLeq(Top, c) <=> IsTop(c)
<1>1. CoefficientLeq(c, Top) <=> OnePath(c)
  BY CoefficientParts, TopIsCoefficient, TimingTop, RankOrder, LinearityOrder
     DEF CoefficientLeq, OnePath
<1>2. ASSUME CoefficientLeq(Top, c) PROVE c = Top
  <2>1. OnePath(c)
    BY <1>2, TopIsCoefficient, TimingTop, CoefficientParts DEF CoefficientLeq, OnePath, TimingLe
  <2> QED BY <1>1, <1>2, <2>1, TopIsCoefficient, CoefficientLeqIsAnOrder
<1>3. CoefficientLeq(Top, Top)
  BY TopIsCoefficient, CoefficientLeqIsAnOrder
<1> QED BY <1>1, <1>2, <1>3 DEF IsTop

(***************************************************************************)
(* References and the images of gamma.                                     *)
(***************************************************************************)
LEMMA OnlyReference ==
  ASSUME NEW cs, NEW id, NEW j \in Nat, References(cs, id) = {j}
  PROVE  CoefficientFor(cs, id) = cs[j].coefficient
BY DEF CoefficientFor

LEMMA IndexesAreFinite ==
  ASSUME NEW n \in Nat
  PROVE  IsFiniteSet(1 .. n)
<1>1. 1 \in Int /\ n \in Int
  OBVIOUS
<1> QED BY <1>1, FS_Interval, Zenon

LEMMA ReferencesAreFinite ==
  ASSUME NEW T, NEW cs \in Seq(T), NEW id
  PROVE  /\ References(cs, id) \subseteq 1 .. Len(cs)
         /\ Len(cs) \in Nat
         /\ IsFiniteSet(References(cs, id))
<1>1. References(cs, id) \subseteq 1 .. Len(cs) /\ Len(cs) \in Nat
  BY DEF References
<1>2. IsFiniteSet(1 .. Len(cs))
  BY <1>1, IndexesAreFinite, Zenon
<1>3. IsFiniteSet(References(cs, id))
  BY <1>1, <1>2, FS_Subset, Zenon
<1> QED BY <1>1, <1>3

LEMMA ImageParts ==
  /\ \A img \in Image : img.body.surfaces \in Seq(SurfaceEntry)
  /\ \A x \in ImageV1 : x.base \in Image /\ x.coefficients \in Seq(SurfaceCoefficient)
  /\ \A sc \in SurfaceCoefficient : sc.coefficient \in Coefficient
BY DEF Image, Body, ImageV1, SurfaceCoefficient

LEMMA GammaParts ==
  ASSUME NEW img \in Image
  PROVE  /\ Gamma(img).base = img
         /\ DOMAIN Gamma(img).coefficients = DOMAIN img.body.surfaces
         /\ Len(Gamma(img).coefficients) = Len(img.body.surfaces)
         /\ \A i \in DOMAIN img.body.surfaces :
              /\ Gamma(img).coefficients[i].surfaceRef = img.body.surfaces[i].id
              /\ Gamma(img).coefficients[i].coefficient = Top
<1> DEFINE s == img.body.surfaces
           g == [i \in DOMAIN s |-> [surfaceRef |-> s[i].id, coefficient |-> Top]]
<1>1. Gamma(img) = [base |-> img, coefficients |-> g]
  BY DEF Gamma
<1>2. s \in Seq(SurfaceEntry)
  BY ImageParts
<1>3. DOMAIN s = 1 .. Len(s) /\ Len(s) \in Nat
  BY <1>2
<1>4. DOMAIN g = DOMAIN s /\ Len(g) = Len(s)
  BY <1>3
<1>5. \A i \in DOMAIN s : g[i].surfaceRef = s[i].id /\ g[i].coefficient = Top
  OBVIOUS
<1> QED BY <1>1, <1>4, <1>5

LEMMA OneElement ==
  ASSUME NEW S, IsFiniteSet(S), NEW e \in S
  PROVE  Cardinality(S) = 1 <=> S = {e}
<1>1. Cardinality(S) = 1 <=> \E d : S = {d}
  BY FS_Singleton, Zenon
<1> QED BY <1>1, Zenon

\* gamma(base) is a valid v1 image, one that from_xml reads back, exactly when no
\* surface of the base is listed twice.
THEOREM GammaIsValid ==
  ASSUME NEW img \in Image
  PROVE  Validate(Gamma(img)) <=> DistinctSurfaces(img.body.surfaces)
<1> DEFINE s == img.body.surfaces
           g == Gamma(img).coefficients
           R(i) == References(g, s[i].id)
<1>1. /\ DOMAIN g = DOMAIN s /\ Len(g) = Len(s) /\ Gamma(img).base = img
      /\ \A i \in DOMAIN s : g[i].surfaceRef = s[i].id
  BY GammaParts
<1>2. DOMAIN s = 1 .. Len(s) /\ Len(s) \in Nat
  BY ImageParts
<1>3. \A i \in DOMAIN s : R(i) = {k \in DOMAIN s : s[k].id = s[i].id}
  BY <1>1 DEF References
<1>4. \A i \in DOMAIN s : IsFiniteSet(R(i)) /\ i \in R(i)
  <2>1. TAKE i \in DOMAIN s
  <2>2. R(i) \subseteq 1 .. Len(s)
    BY <1>2, <1>3
  <2>3. IsFiniteSet(1 .. Len(s))
    BY <1>2, IndexesAreFinite, Zenon
  <2>4. IsFiniteSet(R(i))
    BY <2>2, <2>3, FS_Subset, Zenon
  <2> QED BY <2>1, <2>4, <1>3
<1>5. ASSUME NEW i \in DOMAIN s PROVE Cardinality(R(i)) = 1 <=> R(i) = {i}
  BY <1>4, OneElement, Zenon
<1>6. Validate(Gamma(img)) <=> \A i \in DOMAIN s : Cardinality(R(i)) = 1
  BY <1>1 DEF Validate
<1>7. DistinctSurfaces(s) <=> \A i \in DOMAIN s : R(i) = {i}
  BY <1>3 DEF DistinctSurfaces
<1> QED BY <1>5, <1>6, <1>7

LEMMA GammaGradesAtTop ==
  ASSUME NEW img \in Image, DistinctSurfaces(img.body.surfaces),
         NEW i \in DOMAIN img.body.surfaces
  PROVE  /\ References(Gamma(img).coefficients, img.body.surfaces[i].id) = {i}
         /\ CoefficientFor(Gamma(img).coefficients, img.body.surfaces[i].id) = Top
<1>1. References(Gamma(img).coefficients, img.body.surfaces[i].id) = {i}
  BY GammaParts DEF References, DistinctSurfaces
<1>2. i \in Nat
  BY ImageParts
<1>3. Gamma(img).coefficients[i].coefficient = Top
  BY GammaParts
<1> QED BY <1>1, <1>2, <1>3, OnlyReference

(***************************************************************************)
(* In a valid image whose surfaces are distinct, surfaces and coefficients *)
(* correspond one to one: validate counts per surface, and the lengths     *)
(* then leave no coefficient that names none.                              *)
(***************************************************************************)
LEMMA OneCoefficientEach ==
  ASSUME NEW x \in ImageV1, Validate(x), NEW i \in DOMAIN x.base.body.surfaces
  PROVE  \E j \in DOMAIN x.coefficients :
           /\ References(x.coefficients, x.base.body.surfaces[i].id) = {j}
           /\ x.coefficients[j].surfaceRef = x.base.body.surfaces[i].id
<1> DEFINE R == References(x.coefficients, x.base.body.surfaces[i].id)
<1>1. Cardinality(R) = 1
  BY DEF Validate
<1>2. IsFiniteSet(R)
  BY ImageParts, ReferencesAreFinite
<1>3. PICK j : R = {j}
  BY <1>1, <1>2, FS_Singleton, Zenon
<1>4. j \in R
  BY <1>3
<1> QED BY <1>3, <1>4 DEF References

LEMMA OneSurfaceEach ==
  ASSUME NEW x \in ImageV1, Validate(x), DistinctSurfaces(x.base.body.surfaces),
         NEW j \in DOMAIN x.coefficients
  PROVE  \E i \in DOMAIN x.base.body.surfaces :
           /\ References(x.coefficients, x.base.body.surfaces[i].id) = {j}
           /\ x.coefficients[j].surfaceRef = x.base.body.surfaces[i].id
<1> DEFINE s == x.base.body.surfaces
           cs == x.coefficients
           f == [i \in DOMAIN s |-> CHOOSE k \in DOMAIN cs :
                   References(cs, s[i].id) = {k} /\ cs[k].surfaceRef = s[i].id]
<1>1. \A i \in DOMAIN s : /\ f[i] \in DOMAIN cs
                          /\ References(cs, s[i].id) = {f[i]}
                          /\ cs[f[i]].surfaceRef = s[i].id
  BY OneCoefficientEach
<1>2. DOMAIN s = 1 .. Len(s) /\ DOMAIN cs = 1 .. Len(cs) /\ Len(s) = Len(cs) /\ Len(s) \in Nat
  BY ImageParts DEF Validate
<1>3. f \in Injection(DOMAIN s, DOMAIN cs)
  <2>1. f \in [DOMAIN s -> DOMAIN cs]
    BY <1>1
  <2>2. ASSUME NEW a \in DOMAIN s, NEW b \in DOMAIN s, f[a] = f[b] PROVE a = b
    <3>1. s[a].id = s[b].id
      BY <1>1, <2>2
    <3> QED BY <3>1 DEF DistinctSurfaces
  <2> HIDE DEF f
  <2> QED BY <2>1, <2>2, Fun_IsInj, Zenon
<1> HIDE DEF f
<1>4. f \in Surjection(DOMAIN s, DOMAIN cs)
  <2>0. IsFiniteSet(1 .. Len(cs))
    BY <1>2, IndexesAreFinite, Zenon
  <2>1. IsFiniteSet(DOMAIN cs) /\ Cardinality(DOMAIN s) = Cardinality(DOMAIN cs)
    BY <1>2, <2>0
  <2> QED BY <1>3, <2>1, FS_Injection, Zenon
<1>5. PICK i \in DOMAIN s : f[i] = j
  BY <1>4 DEF Surjection
<1> QED BY <1>1, <1>5

\* a valid image lies below another with the same base exactly when each of its
\* coefficients does: stated for gamma, below and above
LEMMA BelowGamma ==
  ASSUME NEW x \in ImageV1, Validate(x), DistinctSurfaces(x.base.body.surfaces),
         NEW img \in Image, img.body = x.base.body
  PROVE  ImageLeq(x, Gamma(img)) <=> AllOnePath(x)
<1> DEFINE s == x.base.body.surfaces
           cs == x.coefficients
           g == Gamma(img).coefficients
<1>1. BaseEq(x, Gamma(img)) /\ Len(cs) = Len(g)
  BY GammaParts DEF BaseEq, Validate
<1>2. ASSUME NEW j \in DOMAIN cs
      PROVE  /\ References(g, cs[j].surfaceRef) # {}
             /\ CoefficientFor(g, cs[j].surfaceRef) = Top
             /\ cs[j].coefficient \in Coefficient
  <2>1. PICK i \in DOMAIN s : cs[j].surfaceRef = s[i].id
    BY OneSurfaceEach
  <2>2. cs[j].coefficient \in Coefficient
    BY ImageParts
  <2>3. /\ i \in DOMAIN img.body.surfaces /\ img.body.surfaces[i].id = cs[j].surfaceRef
        /\ DistinctSurfaces(img.body.surfaces)
    BY <2>1
  <2> DEFINE ref == img.body.surfaces[i].id
  <2>4. References(g, ref) = {i} /\ CoefficientFor(g, ref) = Top
    BY <2>3, GammaGradesAtTop, Zenon
  <2> QED BY <2>2, <2>3, <2>4, Zenon
<1>3. \A j \in DOMAIN cs :
        CoefficientLeq(cs[j].coefficient, Top) <=> OnePath(cs[j].coefficient)
  BY <1>2, TopOfOnePath
<1> QED BY <1>1, <1>2, <1>3, Zenon DEF ImageLeq, AllOnePath

LEMMA AboveGamma ==
  ASSUME NEW x \in ImageV1, Validate(x), DistinctSurfaces(x.base.body.surfaces)
  PROVE  ImageLeq(Gamma(x.base), x) <=> CoeffIsTop(x)
<1> DEFINE s == x.base.body.surfaces
           cs == x.coefficients
           g == Gamma(x.base).coefficients
<1>1. /\ BaseEq(Gamma(x.base), x) /\ Len(g) = Len(cs) /\ DOMAIN g = DOMAIN s
      /\ \A i \in DOMAIN s : g[i].surfaceRef = s[i].id /\ g[i].coefficient = Top
  BY ImageParts, GammaParts DEF BaseEq, Validate
<1>2. ASSUME NEW i \in DOMAIN s
      PROVE  \E j \in DOMAIN cs : /\ References(cs, s[i].id) = {j}
                                  /\ CoefficientFor(cs, s[i].id) = cs[j].coefficient
                                  /\ cs[j].coefficient \in Coefficient
  <2>1. PICK j \in DOMAIN cs : References(cs, s[i].id) = {j}
    BY OneCoefficientEach
  <2>2. j \in Nat /\ cs[j].coefficient \in Coefficient
    BY ImageParts
  <2> QED BY <2>1, <2>2, OnlyReference
<1>3. ASSUME NEW j \in DOMAIN cs
      PROVE  \E i \in DOMAIN s : /\ References(cs, s[i].id) # {}
                                 /\ CoefficientFor(cs, s[i].id) = cs[j].coefficient
  <2>1. PICK i \in DOMAIN s : References(cs, s[i].id) = {j}
    BY OneSurfaceEach
  <2>2. j \in Nat
    BY ImageParts
  <2> QED BY <2>1, <2>2, OnlyReference
<1>4. \A j \in DOMAIN cs : cs[j].coefficient \in Coefficient
  BY ImageParts
<1>5. ASSUME ImageLeq(Gamma(x.base), x) PROVE CoeffIsTop(x)
  <2>1. \A i \in DOMAIN s : CoefficientLeq(Top, CoefficientFor(cs, s[i].id))
    BY <1>1, <1>5 DEF ImageLeq
  <2>2. \A j \in DOMAIN cs : CoefficientLeq(Top, cs[j].coefficient)
    BY <1>3, <2>1
  <2> QED BY <1>4, <2>2, TopOfOnePath DEF CoeffIsTop
<1>6. ASSUME CoeffIsTop(x) PROVE ImageLeq(Gamma(x.base), x)
  <2>1. \A j \in DOMAIN cs : CoefficientLeq(Top, cs[j].coefficient)
    BY <1>4, <1>6, TopOfOnePath DEF CoeffIsTop
  <2>2. \A i \in DOMAIN s : /\ References(cs, s[i].id) # {}
                            /\ CoefficientLeq(Top, CoefficientFor(cs, s[i].id))
    BY <1>2, <2>1
  <2> QED BY <1>1, <2>2 DEF ImageLeq
<1> QED BY <1>5, <1>6

\* Law L2 of galois.rs, for every valid image whose surfaces are distinct:
\* gamma(alpha(x)) is above x exactly when every surface of x is graded along one
\* delay path, and below x exactly when x was at the top.
THEOREM GammaAlphaMovesUp ==
  ASSUME NEW x \in ImageV1, Validate(x), DistinctSurfaces(x.base.body.surfaces)
  PROVE  Inflationary(x)
<1>1. Alpha(x) = x.base /\ x.base \in Image
  BY ImageParts DEF Alpha
<1> QED BY <1>1, BelowGamma, AboveGamma DEF Inflationary

\* The Galois connection: for every valid image x with distinct surfaces, each
\* graded along one delay path, and every v0 image, alpha(x) is below the one
\* exactly when x is below gamma of it.
THEOREM AlphaGammaAreAdjoint ==
  ASSUME NEW x \in ImageV1, Validate(x), DistinctSurfaces(x.base.body.surfaces),
         NEW img \in Image
  PROVE  Adjoint(x, img)
<1>1. ASSUME img.body = x.base.body, AllOnePath(x) PROVE ImageLeq(x, Gamma(img))
  BY <1>1, BelowGamma
<1>2. ASSUME ImageLeq(x, Gamma(img)) PROVE x.base.body = img.body
  BY <1>2, GammaParts DEF ImageLeq, BaseEq
<1> QED BY <1>1, <1>2 DEF Adjoint, BaseLeq, Alpha
=============================================================================
