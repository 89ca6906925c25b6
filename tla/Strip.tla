------------------------------- MODULE Strip --------------------------------
(***************************************************************************)
(* The strip of a compositor (strip.rs), driven through its whole API: the *)
(* calls of the live session, and the two of a resume (main.rs, resume):   *)
(* insert every surface of the session image, then restore the layout.     *)
(* Checkpoint is image_from_strip followed by the start of a new process   *)
(* that resumes from the image, possibly with another viewport.            *)
(***************************************************************************)
EXTENDS StripOps

CONSTANTS
  Ids,            \* surface ids
  Widths,         \* widths a caller may ask for; 0 asks for the default
  Viewports,      \* viewport widths of the devices, multiples of 3
  Deltas,         \* distances a swipe may scroll by
  Points,         \* viewport x coordinates of clicks
  MaxSurfaces,    \* bound on the surfaces of a strip
  MaxFrames       \* bound on the frames counted per surface

ASSUME NoSurfaceIsNoId == NoSurface \notin Ids
ASSUME ViewportsAssumption == \A v \in Viewports : v \in Nat /\ v >= 3
ASSUME WidthsAssumption == Widths \subseteq Nat
ASSUME DeltasAssumption == Deltas \subseteq Int
ASSUME PointsAssumption == Points \subseteq Int
ASSUME BoundsAssumption == MaxSurfaces \in Nat /\ MaxFrames \in Nat

VARIABLES
  surfaces,        \* Strip.surfaces
  scroll_pos,
  focus,           \* an id, or NoSurface
  viewport_width,
  mode,            \* "live", or "restoring" while resume() runs
  image            \* the session image being restored

vars == <<surfaces, scroll_pos, focus, viewport_width, mode, image>>

Surface == [id : Ids, order : Nat, width : Int, frames : Nat]

(***************************************************************************)
(* What image_from_strip keeps of a strip: the ids in order, the scroll    *)
(* position and the focus.  Widths are not in the image.  viewport and     *)
(* uniform are history: where the image was taken, and whether every       *)
(* surface had the default width there.                                    *)
(***************************************************************************)
EmptyImage == [entries |-> <<>>, scroll |-> 0, focus |-> NoSurface,
               viewport |-> 0, uniform |-> FALSE]

ImageFromStrip ==
  [entries  |-> [i \in DOMAIN surfaces |->
                   [id |-> surfaces[i].id, order |-> surfaces[i].order]],
   scroll   |-> scroll_pos,
   focus    |-> focus,
   viewport |-> viewport_width,
   uniform  |-> \A i \in DOMAIN surfaces :
                  surfaces[i].width = DefaultSurfaceWidth(viewport_width)]

Init ==
  /\ surfaces = <<>>
  /\ scroll_pos = 0
  /\ focus = NoSurface
  /\ viewport_width \in Viewports
  /\ mode = "live"
  /\ image = EmptyImage
-----------------------------------------------------------------------------
\* fault: the view jumps to the newcomer
AppendAndReveal(id, width) ==
  /\ mode = "live"
  /\ Len(surfaces) < MaxSurfaces
  /\ surfaces' = Appended(surfaces, viewport_width, id, width)
  /\ scroll_pos' = MaxScroll(surfaces', viewport_width)
  /\ UNCHANGED <<focus, viewport_width, mode, image>>

AppendSurface(id, width) ==
  /\ mode = "live"
  /\ Len(surfaces) < MaxSurfaces
  /\ surfaces' = Appended(surfaces, viewport_width, id, width)
  /\ UNCHANGED <<scroll_pos, focus, viewport_width, mode, image>>

\* fault: the focus is left behind
RemoveKeepingFocus(id) ==
  /\ mode = "live"
  /\ OnStrip(surfaces, id)
  /\ surfaces' = Removed(surfaces, id)
  /\ scroll_pos' = ClampScroll(surfaces', viewport_width, scroll_pos)
  /\ UNCHANGED <<focus, viewport_width, mode, image>>

\* remove: the first surface with the id, its focus, and the scroll clamp
Remove(id) ==
  /\ mode = "live"
  /\ OnStrip(surfaces, id)
  /\ surfaces' = Removed(surfaces, id)
  /\ focus' = IF focus = id THEN NoSurface ELSE focus
  /\ scroll_pos' = ClampScroll(surfaces', viewport_width, scroll_pos)
  /\ UNCHANGED <<viewport_width, mode, image>>

\* the frame pump runs beside everything else, a resume included
NoteFrame(id) ==
  /\ \A i \in Positions(surfaces, id) : surfaces[i].frames < MaxFrames
  /\ surfaces' = FrameNoted(surfaces, id)
  /\ UNCHANGED <<scroll_pos, focus, viewport_width, mode, image>>

ScrollBy(dx) ==
  /\ mode = "live"
  /\ scroll_pos' = ClampScroll(surfaces, viewport_width, scroll_pos + dx)
  /\ UNCHANGED <<surfaces, focus, viewport_width, mode, image>>

SetFocus(id) ==
  /\ mode = "live"
  /\ OnStrip(surfaces, id)
  /\ focus' = id
  /\ UNCHANGED <<surfaces, scroll_pos, viewport_width, mode, image>>

\* click: focus what is under the point; a miss changes nothing
Click(vx) ==
  /\ mode = "live"
  /\ \E hit \in Hits(surfaces, scroll_pos, vx) : focus' = hit.id
  /\ UNCHANGED <<surfaces, scroll_pos, viewport_width, mode, image>>

Checkpoint(viewport) ==
  /\ mode = "live"
  /\ image' = ImageFromStrip
  /\ mode' = "restoring"
  /\ viewport_width' = viewport
  /\ surfaces' = <<>>
  /\ scroll_pos' = 0
  /\ focus' = NoSurface

\* one turn of resume's loop: the host announced the surface it had before
RestoreNext ==
  /\ mode = "restoring"
  /\ Len(surfaces) < Len(image.entries)
  /\ LET entry == image.entries[Len(surfaces) + 1]
     IN  surfaces' = Inserted(surfaces,
                       [id     |-> entry.id,
                        order  |-> entry.order,
                        width  |-> DefaultSurfaceWidth(viewport_width),
                        frames |-> 0])
  /\ UNCHANGED <<scroll_pos, focus, viewport_width, mode, image>>

\* fault: the layout is restored against the strip as it was before
RestoreLayoutFirst ==
  /\ mode = "restoring"
  /\ Len(surfaces) = Len(image.entries)
  /\ scroll_pos' = ClampScroll(<<>>, viewport_width, image.scroll)
  /\ focus' = IF OnStrip(surfaces, image.focus) THEN image.focus ELSE NoSurface
  /\ mode' = "live"
  /\ image' = EmptyImage
  /\ UNCHANGED <<surfaces, viewport_width>>

\* set_scroll and set_focus_opt, once every surface is back
RestoreLayout ==
  /\ mode = "restoring"
  /\ Len(surfaces) = Len(image.entries)
  /\ scroll_pos' = ClampScroll(surfaces, viewport_width, image.scroll)
  /\ focus' = IF OnStrip(surfaces, image.focus) THEN image.focus ELSE NoSurface
  /\ mode' = "live"
  /\ image' = EmptyImage
  /\ UNCHANGED <<surfaces, viewport_width>>

Next ==
  \/ \E id \in Ids, w \in Widths : AppendSurface(id, w)
  \/ \E id \in Ids : Remove(id) \/ NoteFrame(id) \/ SetFocus(id)
  \/ \E dx \in Deltas : ScrollBy(dx)
  \/ \E vx \in Points : Click(vx)
  \/ \E v \in Viewports : Checkpoint(v)
  \/ RestoreNext
  \/ RestoreLayout

Spec == Init /\ [][Next]_vars
-----------------------------------------------------------------------------
(***************************************************************************)
(* Every variable has the type the code gives it.  (strip.rs, Strip)       *)
(***************************************************************************)
TypeOK ==
  /\ surfaces \in Seq(Surface)
  /\ scroll_pos \in Int
  /\ focus \in Ids \cup {NoSurface}
  /\ viewport_width \in Viewports
  /\ mode \in {"live", "restoring"}
  /\ image.entries \in Seq([id : Ids, order : Nat])
  /\ image.focus \in Ids \cup {NoSurface}

FocusOnStrip == focus # NoSurface => OnStrip(surfaces, focus)

OrderIsPosition == \A i \in DOMAIN surfaces : surfaces[i].order = i - 1

ScrollInRange ==
  scroll_pos \in 0 .. MaxScroll(surfaces, viewport_width)

(***************************************************************************)
(* Three fields follow the surfaces through any mix of appends, removals   *)
(* and restores.  The focus names a surface that is on the strip, so that  *)
(* input is never routed to one that has left.  A surface's order is its   *)
(* position: the session image and insert_ordered rely on it.  And the     *)
(* viewport is scrolled past neither end, removals on the right of the     *)
(* view and restores on a wider device included.                           *)
(* (strip.rs, append, insert_ordered, remove, set_focus_opt, clamp_scroll) *)
(***************************************************************************)
LayoutFitsTheStrip == FocusOnStrip /\ OrderIsPosition /\ ScrollInRange

(***************************************************************************)
(* What is drawn is what can be clicked: the visible surfaces are those    *)
(* under some point of the viewport, and no point is under two, at every   *)
(* scroll position and with surfaces that end exactly at an edge.          *)
(* (strip.rs, visible, hit_test)                                           *)
(***************************************************************************)
VisibleIsClickable ==
  /\ UNION { {hit.pos : hit \in Hits(surfaces, scroll_pos, vx)} :
                vx \in 0 .. viewport_width - 1 }
       = Visible(surfaces, viewport_width, scroll_pos)
  /\ \A vx \in 0 .. viewport_width - 1 :
       Cardinality(Hits(surfaces, scroll_pos, vx)) <= 1

(***************************************************************************)
(* A surface that arrives moves nothing the user sees: every point of the  *)
(* viewport that showed a surface still shows the same place of it.        *)
(* (F10; strip.rs, append)                                                 *)
(***************************************************************************)
ArrivalsKeepTheView ==
  [][ mode = "live" /\ Len(surfaces') > Len(surfaces) =>
        \A vx \in 0 .. viewport_width - 1 :
          Hits(surfaces, scroll_pos, vx) # {} =>
            Hits(surfaces', scroll_pos', vx) = Hits(surfaces, scroll_pos, vx)
    ]_vars

(***************************************************************************)
(* Removing a surface only closes its gap: the others keep their width and *)
(* their relative order, and the scroll position changes only if it would  *)
(* leave the shorter strip.  (F13; strip.rs, remove)                       *)
(***************************************************************************)
Shape(s) == [i \in DOMAIN s |-> <<s[i].id, s[i].width>>]

RemovalClosesTheGap ==
  [][ mode = "live" /\ mode' = "live" /\ Len(surfaces') < Len(surfaces) =>
        /\ \E p \in DOMAIN surfaces :
             Shape(surfaces') = SubSeq(Shape(surfaces), 1, p - 1)
                                  \o SubSeq(Shape(surfaces), p + 1, Len(surfaces))
        /\ scroll_pos' # scroll_pos =>
             /\ scroll_pos > MaxScroll(surfaces', viewport_width)
             /\ scroll_pos' = MaxScroll(surfaces', viewport_width)
    ]_vars

(***************************************************************************)
(* Resuming a session image gives the session back: the same surfaces in   *)
(* the same order and the same focus on every device, and the same scroll  *)
(* position on a device of the same viewport if no surface had a width of  *)
(* its own.  (F4; main.rs, resume)                                         *)
(***************************************************************************)
ResumeRestoresTheSession ==
  [][ mode = "restoring" /\ mode' = "live" =>
        /\ [i \in DOMAIN surfaces' |->
              [id |-> surfaces'[i].id, order |-> surfaces'[i].order]]
             = image.entries
        /\ focus' = image.focus
        /\ image.uniform /\ image.viewport = viewport_width =>
             scroll_pos' = image.scroll
    ]_vars
=============================================================================
