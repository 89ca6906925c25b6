------------------------------- MODULE Content -------------------------------
(***************************************************************************)
(* The content channel: what becomes of a frame between the capture        *)
(* backend and the counter of its surface on the strip.  On the host, the  *)
(* frame channel and the frame task of HostConnection, and send_frame      *)
(* (host main.rs); then QUIC datagrams (external: quinn), which are lost   *)
(* and reordered but not repeated; on the compositor, the datagram pump of *)
(* connect (conn.rs), the channel of frame events, and the task that notes *)
(* them on the strip (client main.rs), which is filled meanwhile.          *)
(*                                                                         *)
(* The connection around it is Connection, step by step.  Frames are       *)
(* numbered in the order of their capture: the frame channel is a queue,   *)
(* so it holds the last frameQ of them.                                    *)
(***************************************************************************)
EXTENDS Connection, StripOps

CONSTANTS
  EventCap,              \* capacity of the channel of frame events (256)
  MaxFrames,             \* bound on the frames captured
  Resumes                \* values of resuming that are explored

ASSUME ContentAssumption ==
  /\ EventCap \in Nat \ {0}
  /\ MaxFrames \in Nat
  /\ Resumes \subseteq BOOLEAN

VARIABLES
  captured,              \* how many frames the backend has captured
  flight,                \* datagrams sent, and not read by the pump
  pump,                  \* "reading", "sending" or "ended", once it is started
  held,                  \* the frames in the pump's hands, one at most
  events,                \* the channel of frame events
  strip,                 \* the surfaces of StripOps, with what they counted
  placed,                \* connect_live has put this host's surface there
  counted, missed,       \* history: frames noted on a surface, or on none
  dropped,               \* history: frames that never reached the pump
  early                  \* history: frames captured before it was placed

historyOfFrames == <<counted, missed, dropped, early>>
contentVars == <<captured, flight, pump, held, events, strip, placed,
                 historyOfFrames>>
allVars == <<vars, contentVars>>

(***************************************************************************)
(* This host announces "own", and another one is on the strip already.  It *)
(* may have announced the same: an id is the hash of what the command line *)
(* calls machine, capture and name.                                        *)
(***************************************************************************)
Viewport == 3
SurfaceFor(id) == Appended(<<>>, Viewport, id, 0)
Announced == {"other", "own"}

ContentInit ==
  /\ resuming \in Resumes
  /\ captured = 0
  /\ flight = {}
  /\ pump = "reading"
  /\ held = {}
  /\ events = <<>>
  /\ strip \in {SurfaceFor(id) : id \in Announced}
  /\ placed = FALSE
  /\ counted = {}
  /\ missed = {}
  /\ dropped = {}
  /\ early = {}

Queued == captured - frameQ + 1 .. captured
-----------------------------------------------------------------------------
(***************************************************************************)
(* The host.  Whatever its tasks do to the frame channel happens to the    *)
(* frames in it.                                                           *)
(***************************************************************************)
FrameCaptured ==
  /\ frameQ' > frameQ
  /\ captured < MaxFrames
  /\ captured' = captured + 1
  /\ early' = IF placed THEN early ELSE early \cup {captured'}
  /\ UNCHANGED <<flight, dropped>>

\* send_frame: one datagram, unless the frame exceeds max_datagram_size or the
\* connection is gone; either way the frame task goes on
FrameSent ==
  /\ frameQ' < frameQ /\ forwarder' = "running"
  /\ LET n == captured - frameQ + 1
     IN  \/ conn = "up" /\ flight' = flight \cup {n} /\ UNCHANGED dropped
         \/ dropped' = dropped \cup {n} /\ UNCHANGED flight
  /\ UNCHANGED <<captured, early>>

\* the frame task is cancelled, or dropped with the handler
FramesCancelled ==
  /\ forwarder' = "stopped"
  /\ dropped' = dropped \cup Queued
  /\ UNCHANGED <<captured, flight, early>>

NoFrameMoves ==
  /\ frameQ' = frameQ /\ forwarder' # "stopped"
  /\ UNCHANGED <<captured, flight, dropped, early>>

ContentHost ==
  /\ HostNext
  /\ FrameCaptured \/ FrameSent \/ FramesCancelled \/ NoFrameMoves
  /\ UNCHANGED <<linkVars, pump, held, events, strip, placed, counted, missed>>
-----------------------------------------------------------------------------
(***************************************************************************)
(* The compositor.  Its main task returns from connect with the pump       *)
(* running, and places the surface next.                                   *)
(***************************************************************************)
MainPlaces == linkPc = "live" /\ ~placed

ContentLink ==
  /\ LinkNext
  /\ MainPlaces => linkPc' = linkPc /\ log' = log
  /\ UNCHANGED <<hostVars, contentVars>>

PlaceSurface ==
  /\ MainPlaces
  /\ strip' = Appended(strip, Viewport, "own", 0)
  /\ placed' = TRUE
  /\ UNCHANGED <<vars, captured, flight, pump, held, events, historyOfFrames>>

\* connect has spawned its tasks
Spawned == reader # "none"

PumpReads ==
  /\ Spawned
  /\ pump = "reading"
  /\ \E n \in flight : held' = {n} /\ flight' = flight \ {n}
  /\ pump' = "sending"
  /\ UNCHANGED <<vars, captured, events, strip, placed, historyOfFrames>>

\* fault: an event is let go when the channel is full (try_send)
PumpTriesToSend ==
  /\ pump = "sending"
  /\ \E n \in held : events' = IF Len(events) < EventCap THEN Append(events, n)
                               ELSE events
  /\ held' = {}
  /\ pump' = "reading"
  /\ UNCHANGED <<vars, captured, flight, strip, placed, historyOfFrames>>

\* fault: a full channel ends the pump
PumpSendsOrEnds ==
  /\ pump = "sending"
  /\ \E n \in held : events' = IF Len(events) < EventCap THEN Append(events, n)
                               ELSE events
  /\ held' = IF Len(events) < EventCap THEN {} ELSE held
  /\ pump' = IF Len(events) < EventCap THEN "reading" ELSE "ended"
  /\ UNCHANGED <<vars, captured, flight, strip, placed, historyOfFrames>>

\* frames.send waits while the channel is full
PumpSends ==
  /\ pump = "sending"
  /\ Len(events) < EventCap
  /\ \E n \in held : events' = Append(events, n)
  /\ held' = {}
  /\ pump' = "reading"
  /\ UNCHANGED <<vars, captured, flight, strip, placed, historyOfFrames>>

\* what has arrived is still read after the connection is lost
PumpEnds ==
  /\ Spawned
  /\ pump = "reading"
  /\ conn = "lost"
  /\ flight = {}
  /\ pump' = "ended"
  /\ UNCHANGED <<vars, captured, flight, held, events, strip, placed,
                 historyOfFrames>>

\* fault: a strip that somebody else has locked is not waited for (try_lock)
NoteOrSkip ==
  /\ events # <<>>
  /\ events' = Tail(events)
  /\ \/ /\ strip' = FrameNoted(strip, "own")
        /\ counted' = counted \cup {Head(events)}
        /\ UNCHANGED missed
     \/ /\ missed' = missed \cup {Head(events)}
        /\ UNCHANGED <<strip, counted>>
  /\ UNCHANGED <<vars, captured, flight, pump, held, placed, dropped, early>>

\* note_frame, under the strip's lock
NoteFrame ==
  /\ events # <<>>
  /\ events' = Tail(events)
  /\ strip' = FrameNoted(strip, "own")
  /\ IF OnStrip(strip, "own")
       THEN counted' = counted \cup {Head(events)} /\ UNCHANGED missed
       ELSE missed' = missed \cup {Head(events)} /\ UNCHANGED counted
  /\ UNCHANGED <<vars, captured, flight, pump, held, placed, dropped, early>>
-----------------------------------------------------------------------------
(***************************************************************************)
(* The network.                                                            *)
(***************************************************************************)
LoseDatagram ==
  /\ \E n \in flight : flight' = flight \ {n} /\ dropped' = dropped \cup {n}
  /\ UNCHANGED <<vars, captured, pump, held, events, strip, placed, counted,
                 missed, early>>

ContentLost == ConnectionLost /\ UNCHANGED contentVars

ContentNext ==
  \/ ContentHost \/ ContentLink \/ ContentLost \/ LoseDatagram
  \/ PlaceSurface \/ PumpReads \/ PumpSends \/ PumpEnds \/ NoteFrame

(***************************************************************************)
(* The tasks of both processes run when they can.  The network may lose    *)
(* every datagram, the backend need not capture anything nor take input,   *)
(* and users need not do anything.                                         *)
(***************************************************************************)
ContentFairness ==
  /\ WF_allVars(ContentHost /\ HostTask)
  /\ WF_allVars(ContentHost /\ (ForwardFrame \/ ForwarderEnds))
  /\ WF_allVars(ContentLink /\ Connecting)
  /\ WF_allVars(PlaceSurface)
  /\ WF_allVars(PumpReads \/ PumpSends \/ PumpEnds)
  /\ WF_allVars(NoteFrame)

ContentSpec == Init /\ ContentInit /\ [][ContentNext]_allVars /\ ContentFairness
-----------------------------------------------------------------------------
InEvents == {events[i] : i \in DOMAIN events}

Places == <<Queued, flight, held, InEvents, counted, missed, dropped>>

(***************************************************************************)
(* Every captured frame is in exactly one place: in one of the two         *)
(* channels, under way, in the pump's hands, noted, missed or dropped.  No *)
(* frame is noted twice, none vanishes between two tasks, and what the     *)
(* strip shows is what was noted, all of it on the leftmost surface with   *)
(* this host's id.  (host main.rs, send_frame; conn.rs, datagram pump;     *)
(* client main.rs, frame task; strip.rs, note_frame)                       *)
(***************************************************************************)
FramesAccountedFor ==
  /\ captured \in 0 .. MaxFrames
  /\ pump \in {"reading", "sending", "ended"}
  /\ pump = "sending" <=> held # {}
  /\ Len(events) <= EventCap
  /\ UNION {Places[i] : i \in DOMAIN Places} = 1 .. captured
  /\ \A i, j \in DOMAIN Places : i # j => Places[i] \cap Places[j] = {}
  /\ Len(events) = Cardinality(InEvents)
  /\ \A i \in DOMAIN strip :
       strip[i].frames = IF i \in Positions(strip, "own") /\ i = First(strip, "own")
                         THEN Cardinality(counted) ELSE 0

(***************************************************************************)
(* Only frames that were captured before the surface was on the strip can  *)
(* be missed: the pump starts earlier than the strip is filled, but no     *)
(* frame is lost to that once it is.  (conn.rs, connect; client main.rs,   *)
(* connect_live)                                                           *)
(***************************************************************************)
OnlyEarlyFramesAreMissed == missed \subseteq early

(***************************************************************************)
(* F5: a suspended surface goes on streaming.  While the connection that   *)
(* acknowledged its suspend is up and the backend runs, the whole way from *)
(* the backend to the strip is in place, also after the end of the writer. *)
(* (host main.rs, Suspend; conn.rs, datagram pump)                         *)
(***************************************************************************)
SuspendedSurfacesStream ==
  result = "acked" /\ linkPc = "suspended" /\ conn = "up" /\ capture = "running" =>
      forwarder = "running" /\ pump # "ended" /\ OnStrip(strip, "own")

(***************************************************************************)
(* Every frame is settled in the end, whatever is lost, blocked or         *)
(* suspended: it is noted, or gone, and no queue keeps it.  The capture is *)
(* bounded, so it pauses; then all of them are.  A connect that failed     *)
(* has dropped everything with the connection.                             *)
(* (conn.rs, datagram pump; client main.rs, frame task)                    *)
(***************************************************************************)
AllSettled == 1 .. captured = counted \cup missed \cup dropped

FramesAreSettled == []<>(AllSettled \/ linkPc = "failed")
=============================================================================
