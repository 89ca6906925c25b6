------------------------------ MODULE StripOps ------------------------------
(***************************************************************************)
(* The geometry of the scrollable strip (simulboot-client/src/strip.rs) as *)
(* operators on a sequence of surfaces.  A surface is a record             *)
(*    [id, order, width, frames]                                           *)
(* and lengths are integers: the f32 arithmetic of the code is exact here. *)
(* Two surfaces of one strip may have the same id: nothing in the code     *)
(* prevents the same host from being listed twice.                         *)
(*                                                                         *)
(* Definitions marked "fault" are not part of the model: each is what its  *)
(* neighbour would be with a plausible bug, and shows that a property of   *)
(* the runs would notice the bug.  The other modules use the same mark.    *)
(***************************************************************************)
EXTENDS Integers, Sequences, FiniteSets

CONSTANT NoSurface        \* stands for Option::None where an id is expected

(***************************************************************************)
(* Edge(s)[i] is the right edge of the i-th surface in strip space, and    *)
(* Edge(s)[i - 1] its left edge.                                           *)
(***************************************************************************)
Edge(s) ==
  LET e[i \in 0 .. Len(s)] == IF i = 0 THEN 0 ELSE e[i - 1] + s[i].width
  IN  e

ContentWidth(s) == Edge(s)[Len(s)]

MaxScroll(s, viewport) ==
  IF ContentWidth(s) > viewport THEN ContentWidth(s) - viewport ELSE 0

\* f32::clamp(0, max_scroll)
ClampScroll(s, viewport, pos) ==
  IF pos < 0 THEN 0
  ELSE IF pos > MaxScroll(s, viewport) THEN MaxScroll(s, viewport) ELSE pos

DefaultSurfaceWidth(viewport) == viewport \div 3

(***************************************************************************)
(* Looking a surface up by id finds the first one that has it.             *)
(***************************************************************************)
Positions(s, id) == {i \in DOMAIN s : s[i].id = id}

OnStrip(s, id) == \E i \in DOMAIN s : s[i].id = id

First(s, id) == CHOOSE i \in Positions(s, id) :
                  \A j \in Positions(s, id) : i <= j

(***************************************************************************)
(* Mutators.  Appended numbers the newcomer with the current count and     *)
(* gives it the default width when it has none.  Inserted pushes it and    *)
(* stably sorts by order: on a strip that is sorted already, that puts it  *)
(* after every surface whose order is not greater.  Removed closes the gap *)
(* and renumbers what is left.                                             *)
(***************************************************************************)
\* fault: the order is taken one too low
AppendedFromBelow(s, viewport, id, width) ==
  Append(s, [id |-> id, order |-> Len(s) - 1, width |-> 1, frames |-> 0])

Appended(s, viewport, id, width) ==
  Append(s, [id     |-> id,
             order  |-> Len(s),
             width  |-> IF width <= 0 THEN DefaultSurfaceWidth(viewport)
                                      ELSE width,
             frames |-> 0])

Inserted(s, surface) ==
  LET k == Cardinality({i \in DOMAIN s : s[i].order <= surface.order})
  IN  [i \in 1 .. Len(s) + 1 |-> IF i <= k THEN s[i]
                                 ELSE IF i = k + 1 THEN surface ELSE s[i - 1]]

\* fault: the last surface fills the gap (swap_remove)
RemovedBySwap(s, id) ==
  [i \in 1 .. Len(s) - 1 |->
     [(IF i = First(s, id) THEN s[Len(s)] ELSE s[i]) EXCEPT !.order = i - 1]]

Removed(s, id) ==
  LET p == First(s, id)
  IN  [i \in 1 .. Len(s) - 1 |->
         [(IF i < p THEN s[i] ELSE s[i + 1]) EXCEPT !.order = i - 1]]

FrameNoted(s, id) ==
  IF OnStrip(s, id) THEN [s EXCEPT ![First(s, id)].frames = @ + 1] ELSE s

(***************************************************************************)
(* Queries.  Hits is the set of surfaces under a viewport-space point, as  *)
(* [pos, id, dx]: at most one, and dx is the offset into it (the code      *)
(* divides by the surface's width to obtain nx).                           *)
(***************************************************************************)
\* fault: a surface that only touches the left edge of the view counts
VisibleInclusive(s, viewport, scroll) ==
  {i \in DOMAIN s : Edge(s)[i] >= scroll /\ Edge(s)[i - 1] < scroll + viewport}

Visible(s, viewport, scroll) ==
  {i \in DOMAIN s : Edge(s)[i] > scroll /\ Edge(s)[i - 1] < scroll + viewport}

Hits(s, scroll, vx) ==
  { [pos |-> i, id |-> s[i].id, dx |-> vx + scroll - Edge(s)[i - 1]] :
      i \in {j \in DOMAIN s : /\ vx + scroll >= Edge(s)[j - 1]
                              /\ vx + scroll < Edge(s)[j]} }
=============================================================================
