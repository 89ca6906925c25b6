--------------------------- MODULE StructureStream ---------------------------
(***************************************************************************)
(* The structure channel of one connection: the bidirectional QUIC stream  *)
(* that the host opens (external: quinn).  Each direction delivers its     *)
(* messages reliably and in order, with flow control: a writer waits while *)
(* StreamCap messages are unread.  When the connection is lost, what has   *)
(* not arrived yet is lost with it, and readers still get what has.        *)
(* A message is [type, n]; n numbers what the compositor writes (0 for     *)
(* what the host writes).                                                  *)
(***************************************************************************)
EXTENDS Naturals, Sequences

CONSTANT StreamCap       \* flow control window, in messages

ASSUME StreamCapAssumption == StreamCap \in Nat \ {0}

VARIABLES
  toHost,                \* messages written by the compositor and not yet read
  toHostFin,             \* the compositor finished, or dropped, its SendStream
  toClient,              \* messages written by the host and not yet read
  conn                   \* "up", or "lost" for good

streamVars == <<toHost, toHostFin, toClient, conn>>

ClientTypes == {"Input", "Resize", "Suspend", "Reconnect", "Disconnect"}
HostTypes == {"Announce", "SuspendAck", "ReconnectOk"}

ClientMessage == [type : ClientTypes, n : Nat]
HostMessage == [type : HostTypes, n : {0}]

StreamTypeOK ==
  /\ toHost \in Seq(ClientMessage)
  /\ toHostFin \in BOOLEAN
  /\ toClient \in Seq(HostMessage)
  /\ conn \in {"up", "lost"}

StreamInit ==
  /\ toHost = <<>>
  /\ toHostFin = FALSE
  /\ toClient = <<>>
  /\ conn = "up"

WriteToHost(m) ==
  /\ conn = "up"
  /\ Len(toHost) < StreamCap
  /\ toHost' = Append(toHost, m)
  /\ UNCHANGED <<toClient, conn>>

WriteToClient(type) ==
  /\ conn = "up"
  /\ Len(toClient) < StreamCap
  /\ toClient' = Append(toClient, [type |-> type, n |-> 0])
  /\ UNCHANGED <<toHost, toHostFin, conn>>

ReadFromClient(type) ==
  /\ toHost # <<>>
  /\ Head(toHost).type = type
  /\ toHost' = Tail(toHost)
  /\ UNCHANGED <<toHostFin, toClient, conn>>

ReadFromHost ==
  /\ toClient # <<>>
  /\ toClient' = Tail(toClient)
  /\ UNCHANGED <<toHost, toHostFin, conn>>

\* the connection goes down: any suffix of either direction is lost
Lose ==
  /\ conn' = "lost"
  /\ \E i \in 0 .. Len(toHost), j \in 0 .. Len(toClient) :
       /\ toHost' = SubSeq(toHost, 1, i)
       /\ toClient' = SubSeq(toClient, 1, j)
       /\ toHostFin' \in {FALSE, toHostFin /\ i = Len(toHost)}

\* one side has dropped every handle: quinn closes the connection
ClosedByHost ==
  /\ conn' = "lost"
  /\ toHost' = <<>>
  /\ \E j \in 0 .. Len(toClient) : toClient' = SubSeq(toClient, 1, j)
  /\ UNCHANGED toHostFin

ClosedByClient ==
  /\ conn' = "lost"
  /\ toClient' = <<>>
  /\ \E i \in 0 .. Len(toHost) : toHost' = SubSeq(toHost, 1, i)
  /\ UNCHANGED toHostFin
=============================================================================
