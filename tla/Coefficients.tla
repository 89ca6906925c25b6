---------------------------- MODULE Coefficients ----------------------------
(***************************************************************************)
(* The v1 coefficients (simulboot-common/src/coefficients.rs): a timing    *)
(* multi-interval, an information flow label and a usage count, with their *)
(* order.  Smaller is more constrained.  A finite delay is an integer: the *)
(* order and equality are all that is ever asked of the f64 of the code.   *)
(***************************************************************************)
EXTENDS Integers, Sequences

\* Bound::key: the tag orders the infinities around the finite values
NegInf == [tag |-> -1, value |-> 0]
FiniteBound(v) == [tag |-> 0, value |-> v]
PosInf == [tag |-> 1, value |-> 0]

Bound == {b \in [tag : {-1, 0, 1}, value : Int] : b.tag # 0 => b.value = 0}

BoundLe(a, b) == IF a.tag # b.tag THEN a.tag < b.tag ELSE a.value <= b.value

Interval == [lo : Bound, hi : Bound]

Unbounded == [lo |-> NegInf, hi |-> PosInf]

ContainedIn(i, j) == BoundLe(j.lo, i.lo) /\ BoundLe(i.hi, j.hi)

(***************************************************************************)
(* The labels, each with its rank, and the usage counts.                   *)
(***************************************************************************)
Confidentiality == {"secret", "restricted", "public"}
Integrity == {"trusted", "endorsed", "untrusted"}

ConfidentialityRank ==
  [c \in Confidentiality |-> CASE c = "secret"     -> 0
                               [] c = "restricted" -> 1
                               [] c = "public"     -> 2]

IntegrityRank ==
  [i \in Integrity |-> CASE i = "trusted"   -> 0
                         [] i = "endorsed"  -> 1
                         [] i = "untrusted" -> 2]

Omega == [tag |-> 1, value |-> 0]
FiniteUse(n) == [tag |-> 0, value |-> n]

Linearity == {l \in [tag : {0, 1}, value : Nat] : l.tag # 0 => l.value = 0}

LinearityLe(a, b) == \/ b = Omega
                     \/ a # Omega /\ a.value <= b.value

Coefficient ==
  [timing          : Seq(Interval),
   confidentiality : Confidentiality,
   integrity       : Integrity,
   linearity       : Linearity]

Top == [timing          |-> <<Unbounded>>,
        confidentiality |-> "public",
        integrity       |-> "untrusted",
        linearity       |-> Omega]

IsTop(c) == c = Top

\* multi-intervals of different lengths are incomparable
TimingLe(s, t) ==
  /\ Len(s) = Len(t)
  /\ \A k \in DOMAIN s : ContainedIn(s[k], t[k])

\* fault: the zip stops at the shorter multi-interval
CoefficientLeqZipped(x, y) ==
  /\ \A k \in DOMAIN x.timing \cap DOMAIN y.timing :
       ContainedIn(x.timing[k], y.timing[k])
  /\ ConfidentialityRank[x.confidentiality] <= ConfidentialityRank[y.confidentiality]
  /\ IntegrityRank[x.integrity] <= IntegrityRank[y.integrity]
  /\ LinearityLe(x.linearity, y.linearity)

CoefficientLeq(x, y) ==
  /\ TimingLe(x.timing, y.timing)
  /\ ConfidentialityRank[x.confidentiality] <= ConfidentialityRank[y.confidentiality]
  /\ IntegrityRank[x.integrity] <= IntegrityRank[y.integrity]
  /\ LinearityLe(x.linearity, y.linearity)

\* how many delay paths a coefficient grades
OnePath(c) == Len(c.timing) = 1
=============================================================================
