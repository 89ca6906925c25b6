---------------------------- MODULE MCImageParser ----------------------------
(***************************************************************************)
(* Images of up to two surfaces: padded and unpadded names and machines,   *)
(* surfaces listed in order, out of order, with equal orders and twice the *)
(* same; with and without a focus; coefficients at the top, below it,      *)
(* along two delay paths and along none, out of order, and missing.        *)
(***************************************************************************)
EXTENDS ImageParser

CONSTANTS
  s1, s2, tidy, padded

MCIds == {s1, s2}
MCTexts == {tidy, padded, Unknown, Blank, "Linux", "H265"}
MCOsNames == {"Linux"}
MCCodecNames == {"H265"}
MCTrim == [t \in MCTexts |-> IF t = padded THEN tidy ELSE t]

Surf(id, name, order, machine) ==
  [id |-> id, name |-> name, order |-> order,
   text |-> [address |-> tidy, os |-> "Linux", machine |-> machine,
             capture |-> tidy, codec |-> "H265"],
   width |-> 3, height |-> 2]

SurfaceLists ==
  {<<>>, <<Surf(s1, padded, 0, tidy)>>, <<Surf(s1, tidy, 0, padded)>>}
  \cup {<<Surf(s1, tidy, i, tidy), Surf(id, padded, j, m)>> :
          i \in {0, 1}, j \in {0, 1}, id \in MCIds, m \in {tidy, padded}}

Narrow == [timing |-> <<[lo |-> FiniteBound(2), hi |-> FiniteBound(5)]>>,
           confidentiality |-> "secret", integrity |-> "endorsed",
           linearity |-> FiniteUse(2)]
TwoPaths == [Top EXCEPT !.timing = <<Unbounded, [lo |-> NegInf, hi |-> FiniteBound(0)]>>]
Untimed == [Top EXCEPT !.linearity = FiniteUse(1)]

\* the first surface is graded c, the others at the top
Graded1(base, c) ==
  [base |-> base,
   coefficients |-> [i \in DOMAIN base.body.surfaces |->
                       [surfaceRef |-> base.body.surfaces[i].id,
                        coefficient |-> IF i = 1 THEN c ELSE Top]]]

Bases == {WithComputedId([id |-> None,
            body |-> [created |-> tidy, schema |-> 1, surfaces |-> s, scroll |-> 4,
                      focus |-> f]]) : s \in SurfaceLists, f \in {None, s1}}

\* lists of coefficients that from_xml would refuse, or that are in another
\* order than the surfaces: to_xml asks nothing of them
Relisted(x) ==
  {[x EXCEPT !.coefficients = Reverse(@)],
   [x EXCEPT !.coefficients = SubSeq(@, 1, Len(@) - 1)],
   [x EXCEPT !.coefficients[1].coefficient.timing = <<>>]}

MCSources ==
  {Graded1(b, c) : b \in Bases, c \in {Top, Narrow, TwoPaths, Untimed}}
  \cup UNION {Relisted(Graded1(b, Narrow)) : b \in {c \in Bases : c.body.surfaces # <<>>}}

MCDamagedSources ==
  {x \in MCSources :
     /\ x.base.body.surfaces = <<Surf(s1, tidy, 0, tidy), Surf(s2, padded, 1, padded)>>
     /\ x.base.body.focus = s1
     /\ x.coefficients[1].coefficient = TwoPaths}
=============================================================================
