-------------------------------- MODULE Link ---------------------------------
(***************************************************************************)
(* The compositor's side of one connection (simulboot-client/src/conn.rs): *)
(* connect, the writer and reader tasks it spawns, and the Link that the   *)
(* rest of the compositor uses to send control messages and to suspend.    *)
(* A message that enters the structure channel or the control channel gets *)
(* the next number, and log records its type.                              *)
(***************************************************************************)
EXTENDS StructureStream

CONSTANTS
  CtlCap,                \* capacity of the control channel (64)
  Sends,                 \* what users of the Link send beside Suspend
  MaxSends               \* bound on the messages sent over the connection

ASSUME LinkAssumption ==
  /\ CtlCap \in Nat \ {0}
  /\ Sends \subseteq {"Input", "Resize", "Disconnect"}
  /\ MaxSends \in Nat

VARIABLES
  resuming,              \* connect was given a session id to resume
  linkPc,                \* connect, then the owner of the Link
  control,               \* the control channel
  writer,                \* the writer task
  writing,               \* the message the writer is writing
  reader,                \* the reader task
  ackQ,                  \* messages in the ack channel, whose capacity is 1
  result,                \* what suspend() returned
  log                    \* history: types of the messages sent, in order

linkVars == <<resuming, linkPc, control, writer, writing, reader, ackQ, result, log>>

NoMessage == [type |-> "None", n |-> 0]

\* connect has returned the Link, and it has not been dropped
Linked == linkPc \in {"live", "sending", "waiting", "suspended"}

LinkTypeOK ==
  /\ resuming \in BOOLEAN
  /\ linkPc \in {"announce", "reconnect", "live", "sending", "waiting",
                 "suspended", "dropped", "failed"}
  /\ control \in Seq(ClientMessage)
  /\ Len(control) <= CtlCap
  /\ writer \in {"none", "idle", "writing", "ended"}
  /\ writing \in ClientMessage \cup {NoMessage}
  /\ writer = "writing" => writing \in ClientMessage
  /\ reader \in {"none", "running", "ended"}
  /\ ackQ \in 0 .. 1
  /\ result \in {"none", "acked", "unacked"}
  /\ log \in Seq(ClientTypes)

LinkInit ==
  /\ resuming \in BOOLEAN
  /\ linkPc = "announce"
  /\ control = <<>>
  /\ writer = "none"
  /\ writing = NoMessage
  /\ reader = "none"
  /\ ackQ = 0
  /\ result = "none"
  /\ log = <<>>
-----------------------------------------------------------------------------
(***************************************************************************)
(* connect.  The first message must announce the surface.                  *)
(***************************************************************************)
Announces(m) == m.type \in {"Announce", "ReconnectOk"}

StartTasks == writer' = "idle" /\ reader' = "running"

ReadAnnounce ==
  /\ linkPc = "announce"
  /\ toClient # <<>>
  /\ IF Announces(Head(toClient))
       THEN /\ ReadFromHost
            /\ IF resuming
                 THEN linkPc' = "reconnect" /\ UNCHANGED <<writer, reader>>
                 ELSE linkPc' = "live" /\ StartTasks
       ELSE /\ ClosedByClient
            /\ linkPc' = "failed"
            /\ UNCHANGED <<writer, reader>>
  /\ UNCHANGED <<resuming, control, writing, ackQ, result, log>>

\* Reconnect is written directly, before the writer task exists
WriteReconnect ==
  /\ linkPc = "reconnect"
  /\ WriteToHost([type |-> "Reconnect", n |-> Len(log) + 1])
  /\ log' = Append(log, "Reconnect")
  /\ linkPc' = "live"
  /\ StartTasks
  /\ UNCHANGED <<resuming, control, writing, ackQ, result, toHostFin>>

\* the host is lost before connect returns: dropping the locals closes
ConnectFails ==
  /\ conn = "lost"
  /\ \/ linkPc = "announce" /\ toClient = <<>>
     \/ linkPc = "reconnect"
  /\ linkPc' = "failed"
  /\ UNCHANGED <<resuming, control, writer, writing, reader, ackQ, result, log>>
  /\ UNCHANGED streamVars
-----------------------------------------------------------------------------
(***************************************************************************)
(* The Link.  A send waits while the control channel is full, and fails    *)
(* when the writer, its receiver, has ended.                               *)
(***************************************************************************)
\* fault: the control channel is unbounded
EnqueueUnbounded(type) ==
  /\ writer # "ended"
  /\ control' = Append(control, [type |-> type, n |-> Len(log) + 1])
  /\ log' = Append(log, type)

Enqueue(type) ==
  /\ writer # "ended"
  /\ Len(control) < CtlCap
  /\ control' = Append(control, [type |-> type, n |-> Len(log) + 1])
  /\ log' = Append(log, type)

Send(type) ==
  /\ Linked
  /\ Len(log) < MaxSends
  /\ Enqueue(type)
  /\ UNCHANGED <<resuming, linkPc, writer, writing, reader, ackQ, result>>
  /\ UNCHANGED streamVars

Suspend ==
  /\ linkPc = "live"
  /\ linkPc' = "sending"
  /\ UNCHANGED <<resuming, control, writer, writing, reader, ackQ, result, log>>
  /\ UNCHANGED streamVars

Finish(outcome) ==
  /\ linkPc' = "suspended"
  /\ result' = outcome
  /\ UNCHANGED <<resuming, writer, writing, reader>>
  /\ UNCHANGED streamVars

\* this await is outside the timeout
SendSuspend ==
  /\ linkPc = "sending"
  /\ Enqueue("Suspend")
  /\ linkPc' = "waiting"
  /\ UNCHANGED <<resuming, writer, writing, reader, ackQ, result>>
  /\ UNCHANGED streamVars

\* fault: the end of the writer leaves the sender waiting
SendSuspendWaits ==
  /\ linkPc = "sending"
  /\ writer = "ended"
  /\ UNCHANGED linkVars
  /\ UNCHANGED streamVars

SendSuspendFails ==
  /\ linkPc = "sending"
  /\ writer = "ended"
  /\ Finish("unacked")
  /\ UNCHANGED <<control, ackQ, log>>

\* or(ack, timer) polls the ack channel first
SuspendAcked ==
  /\ linkPc = "waiting"
  /\ ackQ = 1
  /\ ackQ' = 0
  /\ Finish("acked")
  /\ UNCHANGED <<control, log>>

\* the reader has ended and with it the ack channel's sender
SuspendRefused ==
  /\ linkPc = "waiting"
  /\ ackQ = 0
  /\ reader = "ended"
  /\ Finish("unacked")
  /\ UNCHANGED <<control, ackQ, log>>

\* `within` elapses first
SuspendTimesOut ==
  /\ linkPc = "waiting"
  /\ ackQ = 0
  /\ Finish("unacked")
  /\ UNCHANGED <<control, ackQ, log>>

\* the owner lets go of the Link, the only sender of the control channel
DropLink ==
  /\ linkPc \in {"live", "suspended"}
  /\ linkPc' = "dropped"
  /\ UNCHANGED <<resuming, control, writer, writing, reader, ackQ, result, log>>
  /\ UNCHANGED streamVars
-----------------------------------------------------------------------------
(***************************************************************************)
(* The writer task.  When it ends, the control channel is closed and the   *)
(* SendStream it owns is dropped, which finishes the stream.               *)
(***************************************************************************)
\* fault: the message stays at the head of the channel
WriterPeeks ==
  /\ writer = "idle"
  /\ control # <<>>
  /\ writing' = Head(control)
  /\ writer' = "writing"
  /\ UNCHANGED <<resuming, linkPc, control, reader, ackQ, result, log>>
  /\ UNCHANGED streamVars

WriterTakes ==
  /\ writer = "idle"
  /\ control # <<>>
  /\ writing' = Head(control)
  /\ control' = Tail(control)
  /\ writer' = "writing"
  /\ UNCHANGED <<resuming, linkPc, reader, ackQ, result, log>>
  /\ UNCHANGED streamVars

EndWriter ==
  /\ writer' = "ended"
  /\ control' = <<>>

WriterWrites ==
  /\ writer = "writing"
  /\ WriteToHost(writing)
  /\ writing' = NoMessage
  /\ IF writing.type = "Disconnect"
       THEN EndWriter /\ toHostFin' = TRUE
       ELSE writer' = "idle" /\ UNCHANGED <<control, toHostFin>>
  /\ UNCHANGED <<resuming, linkPc, reader, ackQ, result, log>>

WriterFails ==
  /\ writer = "writing"
  /\ conn = "lost"
  /\ EndWriter
  /\ writing' = NoMessage
  /\ UNCHANGED <<resuming, linkPc, reader, ackQ, result, log>>
  /\ UNCHANGED streamVars

WriterEnds ==
  /\ writer = "idle"
  /\ control = <<>>
  /\ linkPc = "dropped"
  /\ EndWriter
  /\ toHostFin' = IF conn = "up" THEN TRUE ELSE toHostFin
  /\ UNCHANGED <<resuming, linkPc, writing, reader, ackQ, result, log>>
  /\ UNCHANGED <<toHost, toClient, conn>>
-----------------------------------------------------------------------------
(***************************************************************************)
(* The reader task: an ack goes into the ack channel unless that is full,  *)
(* everything else is only logged.                                         *)
(***************************************************************************)

\* fault: any answer of the host counts as the ack
ReaderTakesAny ==
  /\ reader = "running"
  /\ ReadFromHost
  /\ ackQ' = 1
  /\ UNCHANGED <<resuming, linkPc, control, writer, writing, reader, result, log>>

ReaderTakes ==
  /\ reader = "running"
  /\ ReadFromHost
  /\ ackQ' = IF Head(toClient).type = "SuspendAck" THEN 1 ELSE ackQ
  /\ UNCHANGED <<resuming, linkPc, control, writer, writing, reader, result, log>>

ReaderEnds ==
  /\ reader = "running"
  /\ toClient = <<>>
  /\ conn = "lost"
  /\ reader' = "ended"
  /\ UNCHANGED <<resuming, linkPc, control, writer, writing, ackQ, result, log>>
  /\ UNCHANGED streamVars

Connecting == ReadAnnounce \/ WriteReconnect \/ ConnectFails
Suspending == \/ SendSuspend \/ SendSuspendFails
              \/ SuspendAcked \/ SuspendRefused \/ SuspendTimesOut
Writer == WriterTakes \/ WriterWrites \/ WriterFails \/ WriterEnds
Reader == ReaderTakes \/ ReaderEnds

LinkNext ==
  \/ Connecting
  \/ \E type \in Sends : Send(type)
  \/ Suspend
  \/ Suspending
  \/ DropLink
  \/ Writer
  \/ Reader
=============================================================================
