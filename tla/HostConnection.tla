--------------------------- MODULE HostConnection ----------------------------
(***************************************************************************)
(* The host's side of one connection (simulboot-host/src/main.rs,          *)
(* serve_connection): the handler task with its control loop, the capture  *)
(* backend on the blocking pool, and the frame forwarder task, joined by   *)
(* the bounded input and frame channels.                                   *)
(*                                                                         *)
(* Native chooses the backend.  NullCapture (capture.rs) is what every     *)
(* build runs: it drains input and returns when input is closed.  A native *)
(* backend is anything the CaptureSource trait allows: it produces frames, *)
(* may block freely, and runs until the source ends or both channels are   *)
(* closed.                                                                 *)
(*                                                                         *)
(* That an event is for this surface (sid == surface_id) is not modelled:  *)
(* Link::send_input always fills in the id that this host announced.       *)
(***************************************************************************)
EXTENDS StructureStream

CONSTANTS
  InCap,                 \* capacity of the input channel (64)
  FrameCap,              \* capacity of the frame channel (8)
  Native                 \* the backend is a native one

ASSUME HostAssumption ==
  /\ InCap \in Nat \ {0}
  /\ FrameCap \in Nat \ {0}
  /\ Native \in BOOLEAN

VARIABLES
  hostPc,                \* where serve_connection is
  hand,                  \* the input event the handler is routing
  inputQ,                \* the input channel, as numbers of messages
  inputOpen,             \* input_tx is alive
  capture,               \* the capture task
  frameQ,                \* frames in the frame channel
  forwarder,             \* the frame task, which owns frame_rx
  got,                   \* history: messages the handler has read
  routed,                \* history: events put into the input channel
  acks,                  \* history: SuspendAcks written
  reoks                  \* history: ReconnectOks written

\* the two channels and the tasks at their other ends
pipes == <<inputQ, inputOpen, capture, frameQ, forwarder>>
history == <<got, routed, acks, reoks>>
hostVars == <<hostPc, hand, pipes, history>>

\* the control loop is running
Serving == hostPc \in {"read", "route", "ack", "reok"}
\* the loop was left by a break
TearingDown == hostPc \in {"drop", "await", "cancel"}
\* serve_connection has returned, with Ok or with Err
HostOver == hostPc \in {"done", "failed"}

HostTypeOK ==
  /\ hostPc \in {"announce", "read", "route", "ack", "reok",
                 "drop", "await", "cancel", "done", "failed"}
  /\ hand \in Nat
  /\ inputQ \in Seq(Nat)
  /\ Len(inputQ) <= InCap
  /\ inputOpen \in BOOLEAN
  /\ capture \in {"none", "running", "returned"}
  /\ frameQ \in 0 .. FrameCap
  /\ forwarder \in {"none", "running", "stopped"}
  /\ got \in Nat
  /\ routed \in Seq(Nat)
  /\ acks \in Nat
  /\ reoks \in Nat

HostInit ==
  /\ hostPc = "announce"
  /\ hand = 0
  /\ inputQ = <<>>
  /\ inputOpen = TRUE
  /\ capture = "none"
  /\ frameQ = 0
  /\ forwarder = "none"
  /\ got = 0
  /\ routed = <<>>
  /\ acks = 0
  /\ reoks = 0
-----------------------------------------------------------------------------
(***************************************************************************)
(* The handler task.                                                       *)
(***************************************************************************)

\* open_bi, Announce, then start the capture task and the frame task
HostAnnounce ==
  /\ hostPc = "announce"
  /\ WriteToClient("Announce")
  /\ hostPc' = "read"
  /\ capture' = "running"
  /\ forwarder' = "running"
  /\ UNCHANGED <<hand, inputQ, inputOpen, frameQ, history>>

\* one turn of the loop: the message decides where the handler goes next
Receive(type, pc) ==
  /\ hostPc = "read"
  /\ ReadFromClient(type)
  /\ hostPc' = pc
  /\ got' = got + 1
  /\ UNCHANGED <<pipes, routed, acks, reoks>>

HostInput == Receive("Input", "route") /\ hand' = Head(toHost).n

HostResize == Receive("Resize", "read") /\ UNCHANGED hand

HostSuspend == Receive("Suspend", "ack") /\ UNCHANGED hand

HostReconnect == Receive("Reconnect", "reok") /\ UNCHANGED hand

HostDisconnect == Receive("Disconnect", "drop") /\ UNCHANGED hand

\* fault: a full input channel drops the event instead of waiting (try_send)
HostRouteOrDrop ==
  /\ hostPc = "route"
  /\ capture = "running"
  /\ inputQ' = IF Len(inputQ) < InCap THEN Append(inputQ, hand) ELSE inputQ
  /\ routed' = IF Len(inputQ) < InCap THEN Append(routed, hand) ELSE routed
  /\ hand' = 0
  /\ hostPc' = "read"
  /\ UNCHANGED <<inputOpen, capture, frameQ, forwarder, got, acks, reoks>>
  /\ UNCHANGED streamVars

\* input_tx.send waits while the channel is full
HostRoute ==
  /\ hostPc = "route"
  /\ capture = "running"
  /\ Len(inputQ) < InCap
  /\ inputQ' = Append(inputQ, hand)
  /\ routed' = Append(routed, hand)
  /\ hand' = 0
  /\ hostPc' = "read"
  /\ UNCHANGED <<inputOpen, capture, frameQ, forwarder, got, acks, reoks>>
  /\ UNCHANGED streamVars

\* the backend is gone: stop routing
HostRouteFails ==
  /\ hostPc = "route"
  /\ capture = "returned"
  /\ hand' = 0
  /\ hostPc' = "drop"
  /\ UNCHANGED <<pipes, history>>
  /\ UNCHANGED streamVars

\* fault: a suspended surface stops forwarding its frames
HostAckAndFreeze ==
  /\ hostPc = "ack"
  /\ WriteToClient("SuspendAck")
  /\ acks' = acks + 1
  /\ hostPc' = "read"
  /\ forwarder' = "stopped"
  /\ frameQ' = 0
  /\ UNCHANGED <<hand, inputQ, inputOpen, capture, got, routed, reoks>>

\* fault: the handler ends the connection once it has acknowledged
HostAckAndLeave ==
  /\ hostPc = "ack"
  /\ WriteToClient("SuspendAck")
  /\ acks' = acks + 1
  /\ hostPc' = "drop"
  /\ UNCHANGED <<hand, pipes, got, routed, reoks>>

HostAck ==
  /\ hostPc = "ack"
  /\ WriteToClient("SuspendAck")
  /\ acks' = acks + 1
  /\ hostPc' = "read"
  /\ UNCHANGED <<hand, pipes, got, routed, reoks>>

HostReconnectOk ==
  /\ hostPc = "reok"
  /\ WriteToClient("ReconnectOk")
  /\ reoks' = reoks + 1
  /\ hostPc' = "read"
  /\ UNCHANGED <<hand, pipes, got, routed, acks>>

\* read_message returned None
HostEof ==
  /\ hostPc = "read"
  /\ toHost = <<>>
  /\ toHostFin
  /\ hostPc' = "drop"
  /\ UNCHANGED <<hand, pipes, history>>
  /\ UNCHANGED streamVars

\* fault: the frame task was detached, so returning early leaves it running
HostFailsDetached ==
  /\ conn = "lost"
  /\ \/ hostPc \in {"announce", "ack", "reok"}
     \/ hostPc = "read" /\ toHost = <<>> /\ ~toHostFin
  /\ hostPc' = "failed"
  /\ inputOpen' = FALSE
  /\ UNCHANGED <<hand, inputQ, capture, frameQ, forwarder, history>>
  /\ UNCHANGED streamVars

\* a read or a write failed: `?` returns, and dropping the locals closes input
\* and frames at once; the capture task runs on until its backend returns
HostFails ==
  /\ conn = "lost"
  /\ \/ hostPc \in {"announce", "ack", "reok"}
     \/ hostPc = "read" /\ toHost = <<>> /\ ~toHostFin
  /\ hostPc' = "failed"
  /\ inputOpen' = FALSE
  /\ forwarder' = "stopped"
  /\ frameQ' = 0
  /\ UNCHANGED <<hand, inputQ, capture, history>>
  /\ UNCHANGED streamVars

\* fault: the teardown awaits the capture task with input_tx still alive
HostKeepInput ==
  /\ hostPc = "drop"
  /\ hostPc' = "await"
  /\ UNCHANGED <<hand, pipes, history>>
  /\ UNCHANGED streamVars

HostDropInput ==
  /\ hostPc = "drop"
  /\ inputOpen' = FALSE
  /\ hostPc' = "await"
  /\ UNCHANGED <<hand, inputQ, capture, frameQ, forwarder, history>>
  /\ UNCHANGED streamVars

HostAwaitCapture ==
  /\ hostPc = "await"
  /\ capture = "returned"
  /\ hostPc' = "cancel"
  /\ UNCHANGED <<hand, pipes, history>>
  /\ UNCHANGED streamVars

\* cancel the forwarder and return: the last handle on the connection goes
HostCancelForwarder ==
  /\ hostPc = "cancel"
  /\ forwarder' = "stopped"
  /\ frameQ' = 0
  /\ hostPc' = "done"
  /\ ClosedByHost
  /\ UNCHANGED <<hand, inputQ, inputOpen, capture, history>>

HostTask ==
  \/ HostAnnounce \/ HostInput \/ HostResize \/ HostSuspend \/ HostReconnect
  \/ HostDisconnect \/ HostRoute \/ HostRouteFails \/ HostAck \/ HostReconnectOk
  \/ HostEof \/ HostFails \/ HostDropInput \/ HostAwaitCapture
  \/ HostCancelForwarder
-----------------------------------------------------------------------------
(***************************************************************************)
(* The capture backend.  Returning drops its ends of both channels.        *)
(***************************************************************************)
BackendTakesInput ==
  /\ capture = "running"
  /\ inputQ # <<>>
  /\ inputQ' = Tail(inputQ)
  /\ UNCHANGED <<hostPc, hand, inputOpen, capture, frameQ, forwarder, history>>
  /\ UNCHANGED streamVars

InputClosed == ~inputOpen /\ inputQ = <<>>
FramesClosed == forwarder = "stopped"

BackendReturns ==
  /\ capture = "running"
  /\ InputClosed
  /\ Native => FramesClosed
  /\ capture' = "returned"
  /\ UNCHANGED <<hostPc, hand, inputQ, inputOpen, frameQ, forwarder, history>>
  /\ UNCHANGED streamVars

SourceEnds ==
  /\ Native
  /\ capture = "running"
  /\ capture' = "returned"
  /\ inputQ' = <<>>
  /\ UNCHANGED <<hostPc, hand, inputOpen, frameQ, forwarder, history>>
  /\ UNCHANGED streamVars

BackendCaptures ==
  /\ Native
  /\ capture = "running"
  /\ forwarder = "running"
  /\ frameQ < FrameCap
  /\ frameQ' = frameQ + 1
  /\ UNCHANGED <<hostPc, hand, inputQ, inputOpen, capture, forwarder, history>>
  /\ UNCHANGED streamVars
-----------------------------------------------------------------------------
(***************************************************************************)
(* The frame task: it forwards what is in the channel, also after the      *)
(* backend returned, and ends when that is empty and closed.  A send error *)
(* drops the frame and goes on.                                            *)
(***************************************************************************)
ForwardFrame ==
  /\ forwarder = "running"
  /\ frameQ > 0
  /\ frameQ' = frameQ - 1
  /\ UNCHANGED <<hostPc, hand, inputQ, inputOpen, capture, forwarder, history>>
  /\ UNCHANGED streamVars

ForwarderEnds ==
  /\ forwarder = "running"
  /\ frameQ = 0
  /\ capture = "returned"
  /\ forwarder' = "stopped"
  /\ UNCHANGED <<hostPc, hand, inputQ, inputOpen, capture, frameQ, history>>
  /\ UNCHANGED streamVars

HostNext ==
  \/ HostTask
  \/ BackendTakesInput \/ BackendReturns \/ SourceEnds \/ BackendCaptures
  \/ ForwardFrame \/ ForwarderEnds
=============================================================================
