---------------------------- MODULE SessionImage ----------------------------
(***************************************************************************)
(* The v0 session image (simulboot-common/src/session.rs) and its content  *)
(* address.  An image is its id and everything else, its body: the         *)
(* canonical form is the body, written without loss and without the id.    *)
(* SHA-256 is taken to be free of collisions: an id is the very body it    *)
(* addresses.                                                              *)
(***************************************************************************)
EXTENDS Integers, Sequences, FiniteSets

CONSTANTS
  SurfaceIds,
  Texts,           \* names, machines, captures, addresses, ...
  OsNames,         \* those that os_from_str knows
  CodecNames,      \* those that codec_from_str knows
  Trim,            \* a text without its leading and trailing white space
  None             \* Option::None

ASSUME ImageAssumption ==
  /\ OsNames \cup CodecNames \subseteq Texts
  /\ Trim \in [Texts -> Texts]
  /\ \A t \in Texts : Trim[Trim[t]] = Trim[t]
  /\ \A t \in OsNames \cup CodecNames : Trim[t] = t
  /\ None \notin SurfaceIds

HostElements == {"address", "os", "machine", "capture"}
TextElements == HostElements \cup {"codec"}

\* the texts of a HostEntry, and the codec
SurfaceText == {text \in [TextElements -> Texts] : /\ text["os"] \in OsNames
                                                 /\ text["codec"] \in CodecNames}

SurfaceEntry ==
  [id     : SurfaceIds,
   name   : Texts,
   order  : Nat,
   text   : SurfaceText,
   width  : Nat,
   height : Nat]

Body ==
  [created  : Texts,
   schema   : Nat,
   surfaces : Seq(SurfaceEntry),
   scroll   : Int,
   focus    : SurfaceIds \cup {None}]

Image == [id : Body \cup {None}, body : Body]

ComputeId(img) == img.body

WithComputedId(img) == [img EXCEPT !.id = ComputeId(img)]

Verify(img) == img.id # None /\ img.id = ComputeId(img)

DistinctSurfaces(s) == \A i, j \in DOMAIN s : s[i].id = s[j].id => i = j

(***************************************************************************)
(* What the text form does not keep: the parser trims text elements (not   *)
(* attributes, so the name keeps its padding) and stably sorts by order.   *)
(***************************************************************************)
\* where sort_by_key puts the i-th surface
Place(s, i) ==
  Cardinality({j \in DOMAIN s : \/ s[j].order < s[i].order
                                \/ s[j].order = s[i].order /\ j <= i})

\* fault: equal orders are reversed
SortedUnstably(s) ==
  [k \in DOMAIN s |->
     s[CHOOSE i \in DOMAIN s :
         k = Cardinality({j \in DOMAIN s : \/ s[j].order < s[i].order
                                           \/ s[j].order = s[i].order /\ j >= i})]]

SortedByOrder(s) ==
  [k \in DOMAIN s |-> s[CHOOSE i \in DOMAIN s : Place(s, i) = k]]

Ordered(s) == \A i, j \in DOMAIN s : i <= j => s[i].order <= s[j].order

Trimmed(s) == \A i \in DOMAIN s : \A el \in TextElements :
                Trim[s[i].text[el]] = s[i].text[el]

TrimmedSurface(surface) ==
  [surface EXCEPT !.text = [el \in TextElements |-> Trim[surface.text[el]]]]

\* the body that reading the text form of a body gives
Reread(body) ==
  [body EXCEPT !.surfaces =
     SortedByOrder([i \in DOMAIN body.surfaces |-> TrimmedSurface(body.surfaces[i])])]
=============================================================================
