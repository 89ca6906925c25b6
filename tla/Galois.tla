------------------------------- MODULE Galois -------------------------------
(***************************************************************************)
(* v1 session images and the maps between them and v0 images               *)
(* (simulboot-common/src/galois.rs).  A v1 image is a v0 image, its base,  *)
(* and a list of coefficients, each naming a surface of the base.          *)
(***************************************************************************)
EXTENDS Coefficients, SessionImage

SurfaceCoefficient == [surfaceRef : SurfaceIds, coefficient : Coefficient]

ImageV1 == [base : Image, coefficients : Seq(SurfaceCoefficient)]

\* computed over the base only
SessionId(x) == ComputeId(x.base)

References(cs, id) == {i \in DOMAIN cs : cs[i].surfaceRef = id}

\* fault: the count is not compared
ValidateByName(x) ==
  \A i \in DOMAIN x.base.body.surfaces :
    References(x.coefficients, x.base.body.surfaces[i].id) # {}

\* exactly one coefficient per surface
Validate(x) ==
  /\ Len(x.coefficients) = Len(x.base.body.surfaces)
  /\ \A i \in DOMAIN x.base.body.surfaces :
       Cardinality(References(x.coefficients, x.base.body.surfaces[i].id)) = 1

\* the first one that names the surface
CoefficientFor(cs, id) ==
  cs[CHOOSE i \in References(cs, id) : \A j \in References(cs, id) : i <= j].coefficient

CoeffIsTop(x) == \A i \in DOMAIN x.coefficients : IsTop(x.coefficients[i].coefficient)

BaseEq(x, y) == x.base.body = y.base.body

ImageLeq(x, y) ==
  /\ BaseEq(x, y)
  /\ \A i \in DOMAIN x.coefficients :
       LET ref == x.coefficients[i].surfaceRef
       IN  /\ References(y.coefficients, ref) # {}
           /\ CoefficientLeq(x.coefficients[i].coefficient,
                             CoefficientFor(y.coefficients, ref))
  /\ Len(x.coefficients) = Len(y.coefficients)

Alpha(x) == x.base

Gamma(base) ==
  [base         |-> base,
   coefficients |-> [i \in DOMAIN base.body.surfaces |->
                       [surfaceRef  |-> base.body.surfaces[i].id,
                        coefficient |-> Top]]]

\* the order of v0 images, which all sit at the top: equal bases
BaseLeq(b, c) == b.body = c.body

-----------------------------------------------------------------------------
(***************************************************************************)
(* The laws of alpha and gamma.                                            *)
(***************************************************************************)
AllOnePath(x) == \A i \in DOMAIN x.coefficients : OnePath(x.coefficients[i].coefficient)

\* Law L2: taking a v1 image down to v0 and back moves it up in the order,
\* provided that every surface is graded along one delay path, as the top is;
\* with any other number the two are not related.  The image was at the top
\* already exactly when the round trip also moves it down.
Inflationary(x) ==
  /\ ImageLeq(x, Gamma(Alpha(x))) <=> AllOnePath(x)
  /\ ImageLeq(Gamma(Alpha(x)), x) <=> CoeffIsTop(x)

\* The Galois connection: alpha(x) is below b exactly when x is below gamma(b),
\* for images graded along one delay path.
Adjoint(x, b) ==
  AllOnePath(x) => (BaseLeq(Alpha(x), b) <=> ImageLeq(x, Gamma(b)))
=============================================================================
