-------------------------- MODULE ConnectionProofs ---------------------------
(***************************************************************************)
(* Theorems about Connection.tla, for every capacity, either backend and   *)
(* any number of messages; and, from the type invariant of Content.tla on, *)
(* about the content channel beside it, for any number of frames: each     *)
(* frame is in one place and is counted once at most, only early frames    *)
(* are missed, and a suspended surface goes on streaming.                  *)
(***************************************************************************)
EXTENDS Content, SequenceTheorems, FiniteSetTheorems, WellFoundedInduction, TLAPS

(***************************************************************************)
(* What the operations of the structure stream do to its type.             *)
(***************************************************************************)
LEMMA WriteToHostType ==
  ASSUME StreamTypeOK, NEW m \in ClientMessage, WriteToHost(m),
         toHostFin' \in BOOLEAN
  PROVE  StreamTypeOK'
BY AppendProperties DEF StreamTypeOK, WriteToHost

LEMMA WriteToClientType ==
  ASSUME StreamTypeOK, NEW type \in HostTypes, WriteToClient(type)
  PROVE  StreamTypeOK'
<1>1. [type |-> type, n |-> 0] \in HostMessage
  BY DEF HostMessage
<1> QED
  BY <1>1, AppendProperties DEF StreamTypeOK, WriteToClient

LEMMA ReadFromClientType ==
  ASSUME StreamTypeOK, NEW type, ReadFromClient(type)
  PROVE  StreamTypeOK' /\ Head(toHost) \in ClientMessage
BY HeadTailProperties DEF StreamTypeOK, ReadFromClient

LEMMA ReadFromHostType ==
  ASSUME StreamTypeOK, ReadFromHost
  PROVE  StreamTypeOK' /\ Head(toClient) \in HostMessage
BY HeadTailProperties DEF StreamTypeOK, ReadFromHost

LEMMA CutType ==
  ASSUME NEW S, NEW s \in Seq(S), NEW i \in 0 .. Len(s)
  PROVE  /\ SubSeq(s, 1, i) \in Seq(S)
         /\ Len(SubSeq(s, 1, i)) = i
         /\ \A k \in 1 .. i : SubSeq(s, 1, i)[k] = s[k]
BY SubSeqProperties, LenProperties

LEMMA LossType ==
  ASSUME StreamTypeOK, Lose \/ ClosedByHost \/ ClosedByClient
  PROVE  StreamTypeOK'
<1>1. /\ toHost \in Seq(ClientMessage)
      /\ toClient \in Seq(HostMessage)
      /\ toHostFin \in BOOLEAN
  BY DEF StreamTypeOK
<1>2. CASE Lose
  <2>1. PICK i \in 0 .. Len(toHost), j \in 0 .. Len(toClient) :
          /\ toHost' = SubSeq(toHost, 1, i)
          /\ toClient' = SubSeq(toClient, 1, j)
          /\ toHostFin' \in {FALSE, toHostFin /\ i = Len(toHost)}
    BY <1>2 DEF Lose
  <2>2. toHost' \in Seq(ClientMessage) /\ toClient' \in Seq(HostMessage)
    BY <1>1, <2>1, CutType
  <2>3. toHostFin' \in BOOLEAN
    BY <1>1, <2>1
  <2> QED
    BY <1>2, <2>2, <2>3 DEF StreamTypeOK, Lose
<1>3. CASE ClosedByHost
  <2>1. toClient' \in Seq(HostMessage)
    BY <1>1, <1>3, CutType DEF ClosedByHost
  <2> QED
    BY <1>1, <1>3, <2>1, EmptySeq DEF StreamTypeOK, ClosedByHost
<1>4. CASE ClosedByClient
  <2>1. toHost' \in Seq(ClientMessage)
    BY <1>1, <1>4, CutType DEF ClosedByClient
  <2> QED
    BY <1>1, <1>4, <2>1, EmptySeq DEF StreamTypeOK, ClosedByClient
<1> QED
  BY <1>2, <1>3, <1>4

LEMMA UnchangedStreamType ==
  ASSUME StreamTypeOK, UNCHANGED streamVars
  PROVE  StreamTypeOK'
BY DEF StreamTypeOK, streamVars
-----------------------------------------------------------------------------
(***************************************************************************)
(* Type correctness, host and compositor apart.                            *)
(***************************************************************************)
LEMMA QueueType ==
  ASSUME NEW S, NEW q \in Seq(S), NEW e \in S
  PROVE  /\ Append(q, e) \in Seq(S)
         /\ Len(Append(q, e)) = Len(q) + 1
         /\ Len(q) \in Nat
         /\ q # <<>> => /\ Head(q) \in S
                        /\ Tail(q) \in Seq(S)
                        /\ Len(Tail(q)) = Len(q) - 1
BY AppendProperties, HeadTailProperties, LenProperties

LEMMA HostStepType ==
  ASSUME TypeOK, HostNext
  PROVE  StreamTypeOK' /\ HostTypeOK'
<1> USE DEF TypeOK
<1>1. CASE HostAnnounce
  BY <1>1, WriteToClientType DEF HostAnnounce, HostTypeOK, HostTypes, history
<1>2. CASE HostInput
  <2>1. StreamTypeOK' /\ Head(toHost) \in ClientMessage
    BY <1>2, ReadFromClientType DEF HostInput, Receive
  <2>2. Head(toHost).n \in Nat
    BY <2>1 DEF ClientMessage
  <2> QED
    BY <1>2, <2>1, <2>2 DEF HostInput, Receive, HostTypeOK, pipes
<1>3. CASE HostResize
  BY <1>3, ReadFromClientType DEF HostResize, Receive, HostTypeOK, pipes
<1>4. CASE HostSuspend
  BY <1>4, ReadFromClientType DEF HostSuspend, Receive, HostTypeOK, pipes
<1>5. CASE HostReconnect
  BY <1>5, ReadFromClientType DEF HostReconnect, Receive, HostTypeOK, pipes
<1>6. CASE HostDisconnect
  BY <1>6, ReadFromClientType DEF HostDisconnect, Receive, HostTypeOK, pipes
<1>7. CASE HostRoute
  <2>1. inputQ' \in Seq(Nat) /\ Len(inputQ') <= InCap /\ routed' \in Seq(Nat)
    BY <1>7, QueueType, HostAssumption DEF HostRoute, HostTypeOK
  <2> QED
    BY <1>7, <2>1, UnchangedStreamType DEF HostRoute, HostTypeOK
<1>8. CASE HostRouteFails
  BY <1>8, UnchangedStreamType DEF HostRouteFails, HostTypeOK, pipes, history
<1>9. CASE HostAck
  BY <1>9, WriteToClientType DEF HostAck, HostTypeOK, HostTypes, pipes
<1>10. CASE HostReconnectOk
  BY <1>10, WriteToClientType DEF HostReconnectOk, HostTypeOK, HostTypes, pipes
<1>11. CASE HostEof
  BY <1>11, UnchangedStreamType DEF HostEof, HostTypeOK, pipes, history
<1>12. CASE HostFails
  <2>1. StreamTypeOK'
    BY <1>12, UnchangedStreamType DEF HostFails
  <2>2. 0 \in 0 .. FrameCap
    BY HostAssumption
  <2> QED
    BY <1>12, <2>1, <2>2 DEF HostFails, HostTypeOK, history
<1>13. CASE HostDropInput
  BY <1>13, UnchangedStreamType DEF HostDropInput, HostTypeOK, history
<1>14. CASE HostAwaitCapture
  BY <1>14, UnchangedStreamType DEF HostAwaitCapture, HostTypeOK, pipes, history
<1>15. CASE HostCancelForwarder
  BY <1>15, LossType, HostAssumption
     DEF HostCancelForwarder, HostTypeOK, history
<1>16. CASE BackendTakesInput
  <2>1. inputQ' \in Seq(Nat) /\ Len(inputQ') <= InCap
    BY <1>16, QueueType, HeadTailProperties, HostAssumption
       DEF BackendTakesInput, HostTypeOK
  <2> QED
    BY <1>16, <2>1, UnchangedStreamType DEF BackendTakesInput, HostTypeOK, history
<1>17. CASE BackendReturns
  BY <1>17, UnchangedStreamType DEF BackendReturns, HostTypeOK, history
<1>18. CASE SourceEnds
  BY <1>18, UnchangedStreamType, EmptySeq, HostAssumption
     DEF SourceEnds, HostTypeOK, history
<1>19. CASE BackendCaptures
  BY <1>19, UnchangedStreamType, HostAssumption
     DEF BackendCaptures, HostTypeOK, history
<1>20. CASE ForwardFrame
  BY <1>20, UnchangedStreamType, HostAssumption
     DEF ForwardFrame, HostTypeOK, history
<1>21. CASE ForwarderEnds
  BY <1>21, UnchangedStreamType DEF ForwarderEnds, HostTypeOK, history
<1> QED
  BY <1>1, <1>2, <1>3, <1>4, <1>5, <1>6, <1>7, <1>8, <1>9, <1>10, <1>11,
     <1>12, <1>13, <1>14, <1>15, <1>16, <1>17, <1>18, <1>19, <1>20, <1>21
     DEF HostNext, HostTask

LEMMA EnqueueType ==
  ASSUME LinkTypeOK, NEW type \in ClientTypes, Enqueue(type)
  PROVE  /\ control' \in Seq(ClientMessage)
         /\ Len(control') <= CtlCap
         /\ log' \in Seq(ClientTypes)
<1>1. control \in Seq(ClientMessage) /\ log \in Seq(ClientTypes)
  BY DEF LinkTypeOK
<1>2. [type |-> type, n |-> Len(log) + 1] \in ClientMessage
  BY <1>1, LenProperties DEF ClientMessage
<1> QED
  BY <1>1, <1>2, QueueType, LinkAssumption DEF Enqueue

LEMMA LinkStepType ==
  ASSUME TypeOK, LinkNext
  PROVE  StreamTypeOK' /\ LinkTypeOK'
<1> USE DEF TypeOK
<1>1. CASE ReadAnnounce
  <2>1. StreamTypeOK'
    BY <1>1, ReadFromHostType, LossType DEF ReadAnnounce
  <2> QED
    BY <1>1, <2>1 DEF ReadAnnounce, LinkTypeOK, StartTasks
<1>2. CASE WriteReconnect
  <2>1. /\ [type |-> "Reconnect", n |-> Len(log) + 1] \in ClientMessage
        /\ log' \in Seq(ClientTypes)
    BY <1>2, LenProperties, AppendProperties
       DEF WriteReconnect, LinkTypeOK, ClientMessage, ClientTypes
  <2>2. toHostFin' \in BOOLEAN
    BY <1>2 DEF WriteReconnect, StreamTypeOK
  <2>3. StreamTypeOK'
    BY <1>2, <2>1, <2>2, WriteToHostType DEF WriteReconnect
  <2> QED
    BY <1>2, <2>1, <2>3 DEF WriteReconnect, LinkTypeOK, StartTasks
<1>3. CASE ConnectFails
  BY <1>3, UnchangedStreamType DEF ConnectFails, LinkTypeOK
<1>4. ASSUME NEW type \in Sends, Send(type)
      PROVE  StreamTypeOK' /\ LinkTypeOK'
  <2>1. type \in ClientTypes
    BY <1>4, LinkAssumption DEF ClientTypes
  <2>2. /\ control' \in Seq(ClientMessage)
        /\ Len(control') <= CtlCap
        /\ log' \in Seq(ClientTypes)
    BY <1>4, <2>1, EnqueueType DEF Send
  <2> QED
    BY <1>4, <2>2, UnchangedStreamType DEF Send, LinkTypeOK
<1>5. CASE Suspend
  BY <1>5, UnchangedStreamType DEF Suspend, LinkTypeOK
<1>6. CASE SendSuspend
  <2>1. /\ control' \in Seq(ClientMessage)
        /\ Len(control') <= CtlCap
        /\ log' \in Seq(ClientTypes)
    BY <1>6, EnqueueType DEF SendSuspend, ClientTypes
  <2> QED
    BY <1>6, <2>1, UnchangedStreamType DEF SendSuspend, LinkTypeOK
<1>7. CASE SendSuspendFails
  BY <1>7, UnchangedStreamType DEF SendSuspendFails, Finish, LinkTypeOK
<1>8. CASE SuspendAcked
  BY <1>8, UnchangedStreamType DEF SuspendAcked, Finish, LinkTypeOK
<1>9. CASE SuspendRefused
  BY <1>9, UnchangedStreamType DEF SuspendRefused, Finish, LinkTypeOK
<1>10. CASE SuspendTimesOut
  BY <1>10, UnchangedStreamType DEF SuspendTimesOut, Finish, LinkTypeOK
<1>11. CASE DropLink
  BY <1>11, UnchangedStreamType DEF DropLink, LinkTypeOK
<1>12. CASE WriterTakes
  <2>1. /\ Head(control) \in ClientMessage
        /\ control' \in Seq(ClientMessage)
        /\ Len(control') <= CtlCap
    BY <1>12, HeadTailProperties, LenProperties, LinkAssumption
       DEF WriterTakes, LinkTypeOK
  <2> QED
    BY <1>12, <2>1, UnchangedStreamType DEF WriterTakes, LinkTypeOK
<1>13. CASE WriterWrites
  <2>1. writing \in ClientMessage
    BY <1>13 DEF WriterWrites, LinkTypeOK
  <2>2. toHostFin' \in BOOLEAN
    BY <1>13 DEF WriterWrites, StreamTypeOK
  <2>3. StreamTypeOK'
    BY <1>13, <2>1, <2>2, WriteToHostType DEF WriterWrites
  <2>4. control' \in Seq(ClientMessage) /\ Len(control') <= CtlCap
    <3>1. control' = control \/ control' = <<>>
      BY <1>13 DEF WriterWrites, EndWriter
    <3>2. /\ control \in Seq(ClientMessage)
          /\ Len(control) <= CtlCap
      BY DEF LinkTypeOK
    <3>3. /\ <<>> \in Seq(ClientMessage)
          /\ Len(<<>>) <= CtlCap
      BY EmptySeq, LinkAssumption
    <3> QED
      BY <3>1, <3>2, <3>3
  <2>5. writer' \in {"idle", "ended"}
    BY <1>13 DEF WriterWrites, EndWriter
  <2> QED
    BY <1>13, <2>3, <2>4, <2>5 DEF WriterWrites, LinkTypeOK
<1>14. CASE WriterFails
  BY <1>14, UnchangedStreamType, EmptySeq, LinkAssumption
     DEF WriterFails, EndWriter, LinkTypeOK
<1>15. CASE WriterEnds
  <2>1. StreamTypeOK'
    BY <1>15 DEF WriterEnds, StreamTypeOK
  <2> QED
    BY <1>15, <2>1, EmptySeq, LinkAssumption DEF WriterEnds, EndWriter, LinkTypeOK
<1>16. CASE ReaderTakes
  BY <1>16, ReadFromHostType DEF ReaderTakes, LinkTypeOK
<1>17. CASE ReaderEnds
  BY <1>17, UnchangedStreamType DEF ReaderEnds, LinkTypeOK
<1> QED
  BY <1>1, <1>2, <1>3, <1>4, <1>5, <1>6, <1>7, <1>8, <1>9, <1>10, <1>11,
     <1>12, <1>13, <1>14, <1>15, <1>16, <1>17
     DEF LinkNext, Connecting, Suspending, Writer, Reader

(***************************************************************************)
(* Every variable has the type the code gives it, and no channel holds     *)
(* more than its capacity, whatever the capacities are.                    *)
(***************************************************************************)
THEOREM ConnectionTypeOK == Spec => []TypeOK
<1>1. Init => TypeOK
  <2> SUFFICES ASSUME Init PROVE TypeOK
    OBVIOUS
  <2>1. StreamTypeOK
    BY EmptySeq DEF Init, StreamInit, StreamTypeOK
  <2>2. HostTypeOK
    BY EmptySeq, HostAssumption DEF Init, HostInit, HostTypeOK
  <2>3. LinkTypeOK
    BY EmptySeq, LinkAssumption DEF Init, LinkInit, LinkTypeOK
  <2> QED
    BY <2>1, <2>2, <2>3 DEF TypeOK
<1>2. TypeOK /\ [Next]_vars => TypeOK'
  <2> SUFFICES ASSUME TypeOK, [Next]_vars PROVE TypeOK'
    OBVIOUS
  <2>1. CASE HostNext /\ UNCHANGED linkVars
    BY <2>1, HostStepType DEF TypeOK, LinkTypeOK, linkVars
  <2>2. CASE LinkNext /\ UNCHANGED hostVars
    BY <2>2, LinkStepType DEF TypeOK, HostTypeOK, hostVars, pipes, history
  <2>3. CASE ConnectionLost
    BY <2>3, LossType DEF ConnectionLost, TypeOK, HostTypeOK, LinkTypeOK,
                          hostVars, linkVars, pipes, history
  <2>4. CASE UNCHANGED vars
    BY <2>4 DEF vars, TypeOK, StreamTypeOK, HostTypeOK, LinkTypeOK,
                streamVars, hostVars, linkVars, pipes, history
  <2> QED
    BY <2>1, <2>2, <2>3, <2>4 DEF Next
<1> QED
  BY <1>1, <1>2, PTL DEF Spec
-----------------------------------------------------------------------------
(***************************************************************************)
(* What the operations of the stream do to what is in it.                  *)
(***************************************************************************)
LEMMA QueueShift ==
  ASSUME NEW S, NEW q \in Seq(S), q # <<>>
  PROVE  /\ Len(q) \in Nat /\ Len(q) > 0
         /\ Head(q) = q[1]
         /\ Len(Tail(q)) = Len(q) - 1
         /\ \A i \in 1 .. Len(q) - 1 : Tail(q)[i] = q[i + 1]
BY HeadTailProperties, LenProperties, EmptySeq

LEMMA QueueGrowth ==
  ASSUME NEW S, NEW q \in Seq(S), NEW e \in S
  PROVE  /\ Len(q) \in Nat
         /\ Len(Append(q, e)) = Len(q) + 1
         /\ \A i \in 1 .. Len(q) : Append(q, e)[i] = q[i]
         /\ Append(q, e)[Len(q) + 1] = e
BY AppendProperties, LenProperties

LEMMA LossCuts ==
  ASSUME StreamTypeOK, Lose \/ ClosedByHost \/ ClosedByClient
  PROVE  /\ Len(toHost) \in Nat /\ Len(toClient) \in Nat
         /\ Len(toHost') \in 0 .. Len(toHost)
         /\ \A i \in 1 .. Len(toHost') : toHost'[i] = toHost[i]
         /\ Len(toClient') \in 0 .. Len(toClient)
         /\ \A i \in 1 .. Len(toClient') : toClient'[i] = toClient[i]
         /\ conn' = "lost"
         /\ toHostFin' => toHostFin
<1> DEFINE Cut(q, r) == /\ Len(r) \in 0 .. Len(q)
                        /\ \A k \in 1 .. Len(r) : r[k] = q[k]
<1>1. Len(toHost) \in Nat /\ Len(toClient) \in Nat
  BY LenProperties DEF StreamTypeOK
<1>2. \A i \in 0 .. Len(toHost) : Cut(toHost, SubSeq(toHost, 1, i))
  BY <1>1, CutType DEF StreamTypeOK
<1>3. \A j \in 0 .. Len(toClient) : Cut(toClient, SubSeq(toClient, 1, j))
  BY <1>1, CutType DEF StreamTypeOK
<1>4. Cut(toHost, <<>>) /\ Cut(toClient, <<>>)
  BY <1>1, EmptySeq
<1>5. Cut(toHost, toHost') /\ Cut(toClient, toClient')
  <2> HIDE DEF Cut
  <2> QED
    BY <1>2, <1>3, <1>4 DEF Lose, ClosedByHost, ClosedByClient
<1>6. conn' = "lost"
  BY DEF Lose, ClosedByHost, ClosedByClient
<1>7. toHostFin' => toHostFin
  <2>1. CASE Lose
    <3>1. \E i \in 0 .. Len(toHost) :
            toHostFin' \in {FALSE, toHostFin /\ i = Len(toHost)}
      BY <2>1 DEF Lose
    <3> QED
      BY <3>1, Zenon
  <2>2. CASE ClosedByHost \/ ClosedByClient
    BY <2>2 DEF ClosedByHost, ClosedByClient
  <2> QED
    BY <2>1, <2>2
<1> QED
  BY <1>1, <1>5, <1>6, <1>7
-----------------------------------------------------------------------------
(***************************************************************************)
(* The strengthening, in parts.  LifeInv ties the ends of the host's loop  *)
(* to the writer: what tells the host to leave is written last.            *)
(***************************************************************************)
LifeInv ==
  /\ linkPc \in {"announce", "reconnect", "failed"} <=> writer = "none"
  /\ writer = "none" => control = <<>> /\ log = <<>>
  /\ toHostFin => writer = "ended"
  /\ \A i \in 1 .. Len(toHost) : toHost[i].type = "Disconnect" => writer = "ended"
  /\ TearingDown => writer = "ended" \/ capture = "returned"
  /\ hostPc = "failed" => conn = "lost"
  /\ hostPc \in {"await", "cancel", "done", "failed"} => ~inputOpen
  /\ HostOver => forwarder = "stopped"

(***************************************************************************)
(* NumberInv: the messages read, in the stream, in the writer's hands and  *)
(* in the control channel are consecutive parts of the log.  What is       *)
(* behind the stream is of no use once the connection is lost.             *)
(***************************************************************************)
InHands == IF writer = "writing" THEN 1 ELSE 0

NumberInv ==
  /\ got + Len(toHost) <= Len(log)
  /\ \A i \in 1 .. Len(toHost) : /\ toHost[i].n = got + i
                                 /\ toHost[i].type = log[got + i]
  /\ conn = "up" =>
       /\ writer # "ended" =>
            Len(log) = got + Len(toHost) + InHands + Len(control)
       /\ writer = "writing" =>
            /\ writing.n = got + Len(toHost) + 1
            /\ writing.type = log[got + Len(toHost) + 1]
       /\ \A i \in 1 .. Len(control) :
            /\ control[i].n = got + Len(toHost) + InHands + i
            /\ control[i].type = log[got + Len(toHost) + InHands + i]

(***************************************************************************)
(* RouteInv: while the loop runs, every input event read so far is routed  *)
(* or in hand; what is routed is so in order and without a gap.            *)
(***************************************************************************)
RouteInv ==
  /\ hostPc = "announce" => got = 0
  /\ \A i \in 1 .. Len(routed) : /\ routed[i] \in 1 .. got
                                 /\ log[routed[i]] = "Input"
                                 /\ InputsBefore(routed[i]) \subseteq Routed
  /\ \A i, j \in 1 .. Len(routed) : i < j => routed[i] < routed[j]
  /\ hostPc = "route" => /\ hand = got
                         /\ got > 0
                         /\ log[hand] = "Input"
                         /\ \A i \in 1 .. Len(routed) : routed[i] < hand
  /\ Serving => \A k \in 1 .. got : log[k] = "Input" =>
                   k \in Routed \/ (hostPc = "route" /\ k = hand)

(***************************************************************************)
(* SuspendInv: there is one Suspend at most, the host answers it once, and *)
(* an answer anywhere on its way back is that one.                         *)
(***************************************************************************)
SuspendInv ==
  /\ \A m, n \in 1 .. Len(log) : SuspendAt(m) /\ SuspendAt(n) => m = n
  /\ \A n \in 1 .. Len(log) :
       SuspendAt(n) => linkPc \in {"waiting", "suspended", "dropped"}
  /\ hostPc = "ack" => SuspendAt(got) /\ acks = 0
  /\ acks > 0 => \E n \in 1 .. got : SuspendAt(n)
  /\ hostPc = "ack" \/ acks > 0 =>
       \A n \in 1 .. Len(log) : SuspendAt(n) => InputsBefore(n) \subseteq Routed
  /\ \A i \in 1 .. Len(toClient) : toClient[i].type = "SuspendAck" => acks > 0
  /\ ackQ = 1 \/ result = "acked" => acks > 0

(***************************************************************************)
(* ReconnectInv: a resuming link sends Reconnect first and only once.      *)
(***************************************************************************)
ReconnectInv ==
  /\ \A n \in 1 .. Len(log) : log[n] = "Reconnect" => n = 1
  /\ resuming /\ writer # "none" => Len(log) > 0 /\ log[1] = "Reconnect"
  /\ hostPc = "reok" => got = 1 /\ reoks = 0 /\ routed = <<>>
  /\ got = 0 => reoks = 0
  /\ resuming /\ got > 0 /\ Serving /\ hostPc # "reok" => reoks = 1
  /\ resuming /\ routed # <<>> => reoks = 1
-----------------------------------------------------------------------------
(***************************************************************************)
(* LifeInv is an invariant.                                                *)
(***************************************************************************)
LEMMA LifeReceive ==
  ASSUME TypeOK, LifeInv, NEW type, NEW pc, Receive(type, pc),
         UNCHANGED linkVars,
         \/ pc \in {"read", "route", "ack", "reok"}
         \/ type = "Disconnect" /\ pc = "drop"
  PROVE  LifeInv'
<1>1. /\ hostPc = "read" /\ hostPc' = pc
      /\ Head(toHost).type = type
      /\ UNCHANGED <<toHostFin, conn, inputOpen, capture, forwarder>>
      /\ UNCHANGED <<linkPc, writer, control, log>>
  BY DEF Receive, ReadFromClient, pipes, linkVars
<1>2. /\ Len(toHost) \in Nat /\ Len(toHost) > 0
      /\ Head(toHost) = toHost[1]
      /\ Len(toHost') = Len(toHost) - 1
      /\ \A i \in 1 .. Len(toHost) - 1 : toHost'[i] = toHost[i + 1]
  BY QueueShift DEF TypeOK, StreamTypeOK, Receive, ReadFromClient
<1>3. \A i \in 1 .. Len(toHost') :
        toHost'[i].type = "Disconnect" => writer' = "ended"
  BY <1>1, <1>2, SMTT(30) DEF LifeInv
<1>4. pc = "drop" => writer = "ended"
  BY <1>1, <1>2 DEF LifeInv
<1> QED
  BY <1>1, <1>3, <1>4 DEF LifeInv, TearingDown, HostOver

LEMMA LifeHostStep ==
  ASSUME TypeOK, LifeInv, HostNext, UNCHANGED linkVars
  PROVE  LifeInv'
<1>0. UNCHANGED <<linkPc, writer, control, log>>
  BY DEF linkVars
<1> USE DEF LifeInv, TearingDown, HostOver
<1>1. CASE HostAnnounce
  BY <1>0, <1>1 DEF HostAnnounce, WriteToClient
<1>2. CASE HostInput
  BY <1>2, LifeReceive DEF HostInput
<1>3. CASE HostResize
  BY <1>3, LifeReceive DEF HostResize
<1>4. CASE HostSuspend
  BY <1>4, LifeReceive DEF HostSuspend
<1>5. CASE HostReconnect
  BY <1>5, LifeReceive DEF HostReconnect
<1>6. CASE HostDisconnect
  BY <1>6, LifeReceive DEF HostDisconnect
<1>7. CASE HostRoute
  BY <1>0, <1>7 DEF HostRoute, streamVars
<1>8. CASE HostRouteFails
  BY <1>0, <1>8 DEF HostRouteFails, streamVars, pipes
<1>9. CASE HostAck
  BY <1>0, <1>9 DEF HostAck, WriteToClient, pipes
<1>10. CASE HostReconnectOk
  BY <1>0, <1>10 DEF HostReconnectOk, WriteToClient, pipes
<1>11. CASE HostEof
  BY <1>0, <1>11 DEF HostEof, streamVars, pipes
<1>12. CASE HostFails
  BY <1>0, <1>12 DEF HostFails, streamVars
<1>13. CASE HostDropInput
  BY <1>0, <1>13 DEF HostDropInput, streamVars
<1>14. CASE HostAwaitCapture
  BY <1>0, <1>14 DEF HostAwaitCapture, streamVars, pipes
<1>15. CASE HostCancelForwarder
  BY <1>0, <1>15, LossCuts DEF HostCancelForwarder, ClosedByHost, TypeOK
<1>16. CASE BackendTakesInput
  BY <1>0, <1>16 DEF BackendTakesInput, streamVars
<1>17. CASE BackendReturns
  BY <1>0, <1>17 DEF BackendReturns, streamVars
<1>18. CASE SourceEnds
  BY <1>0, <1>18 DEF SourceEnds, streamVars
<1>19. CASE BackendCaptures
  BY <1>0, <1>19 DEF BackendCaptures, streamVars
<1>20. CASE ForwardFrame
  BY <1>0, <1>20 DEF ForwardFrame, streamVars
<1>21. CASE ForwarderEnds
  BY <1>0, <1>21 DEF ForwarderEnds, streamVars
<1> QED
  BY <1>1, <1>2, <1>3, <1>4, <1>5, <1>6, <1>7, <1>8, <1>9, <1>10, <1>11,
     <1>12, <1>13, <1>14, <1>15, <1>16, <1>17, <1>18, <1>19, <1>20, <1>21
     DEF HostNext, HostTask

\* a message enters the stream: only a Disconnect may end what LifeInv says of it
LEMMA LifeWrite ==
  ASSUME TypeOK, LifeInv, NEW m \in ClientMessage, WriteToHost(m),
         m.type = "Disconnect" \/ toHostFin' => writer' = "ended",
         writer = "ended" => writer' = "ended"
  PROVE  /\ toHostFin' => writer' = "ended"
         /\ \A i \in 1 .. Len(toHost') :
              toHost'[i].type = "Disconnect" => writer' = "ended"
BY QueueGrowth DEF WriteToHost, TypeOK, StreamTypeOK, LifeInv

LEMMA LifeLinkStep ==
  ASSUME TypeOK, LifeInv, LinkNext, UNCHANGED hostVars
  PROVE  LifeInv'
<1>0. UNCHANGED <<hostPc, capture, inputOpen, forwarder>>
  BY DEF hostVars, pipes
<1> USE DEF LifeInv, TearingDown, HostOver
<1>1. CASE ReadAnnounce
  BY <1>0, <1>1, LossCuts DEF ReadAnnounce, ReadFromHost, StartTasks,
                              ClosedByClient, TypeOK
<1>2. CASE WriteReconnect
  <2>1. writer = "none" /\ writer' = "idle" /\ ~toHostFin'
    BY <1>2 DEF WriteReconnect, StartTasks
  <2>2. [type |-> "Reconnect", n |-> Len(log) + 1] \in ClientMessage
    BY LenProperties DEF ClientMessage, ClientTypes, TypeOK, LinkTypeOK
  <2>3. \A i \in 1 .. Len(toHost') : toHost'[i].type # "Disconnect"
    BY <1>2, <2>1, <2>2, QueueGrowth
       DEF WriteReconnect, WriteToHost, TypeOK, StreamTypeOK
  <2> QED
    BY <1>0, <1>2, <2>1, <2>3 DEF WriteReconnect, WriteToHost
<1>3. CASE ConnectFails
  BY <1>0, <1>3 DEF ConnectFails, streamVars
<1>4. ASSUME NEW type \in Sends, Send(type) PROVE LifeInv'
  BY <1>0, <1>4 DEF Send, Linked, streamVars
<1>5. CASE Suspend
  BY <1>0, <1>5 DEF Suspend, streamVars
<1>6. CASE SendSuspend
  BY <1>0, <1>6 DEF SendSuspend, streamVars
<1>7. CASE SendSuspendFails
  BY <1>0, <1>7 DEF SendSuspendFails, Finish, streamVars
<1>8. CASE SuspendAcked
  BY <1>0, <1>8 DEF SuspendAcked, Finish, streamVars
<1>9. CASE SuspendRefused
  BY <1>0, <1>9 DEF SuspendRefused, Finish, streamVars
<1>10. CASE SuspendTimesOut
  BY <1>0, <1>10 DEF SuspendTimesOut, Finish, streamVars
<1>11. CASE DropLink
  BY <1>0, <1>11 DEF DropLink, streamVars
<1>12. CASE WriterTakes
  BY <1>0, <1>12 DEF WriterTakes, streamVars
<1>13. CASE WriterWrites
  <2>1. /\ writing \in ClientMessage
        /\ WriteToHost(writing)
        /\ writer = "writing"
    BY <1>13 DEF WriterWrites, TypeOK, LinkTypeOK
  <2>2. /\ writer' \in {"idle", "ended"}
        /\ writing.type = "Disconnect" \/ toHostFin' => writer' = "ended"
    BY <1>13, <2>1 DEF WriterWrites, EndWriter
  <2>3. /\ toHostFin' => writer' = "ended"
        /\ \A i \in 1 .. Len(toHost') :
             toHost'[i].type = "Disconnect" => writer' = "ended"
    BY <2>1, <2>2, LifeWrite
  <2> QED
    BY <1>0, <1>13, <2>1, <2>2, <2>3 DEF WriterWrites, WriteToHost
<1>14. CASE WriterFails
  BY <1>0, <1>14 DEF WriterFails, EndWriter, streamVars
<1>15. CASE WriterEnds
  BY <1>0, <1>15 DEF WriterEnds, EndWriter
<1>16. CASE ReaderTakes
  BY <1>0, <1>16 DEF ReaderTakes, ReadFromHost
<1>17. CASE ReaderEnds
  BY <1>0, <1>17 DEF ReaderEnds, streamVars
<1> QED
  BY <1>1, <1>2, <1>3, <1>4, <1>5, <1>6, <1>7, <1>8, <1>9, <1>10, <1>11,
     <1>12, <1>13, <1>14, <1>15, <1>16, <1>17
     DEF LinkNext, Connecting, Suspending, Writer, Reader

LEMMA ConnectionLife == Spec => []LifeInv
<1>1. Init => LifeInv
  BY EmptySeq DEF Init, StreamInit, HostInit, LinkInit, LifeInv, TearingDown,
                  HostOver
<1>2. TypeOK /\ LifeInv /\ [Next]_vars => LifeInv'
  <2> SUFFICES ASSUME TypeOK, LifeInv, [Next]_vars PROVE LifeInv'
    OBVIOUS
  <2>1. CASE HostNext /\ UNCHANGED linkVars
    BY <2>1, LifeHostStep
  <2>2. CASE LinkNext /\ UNCHANGED hostVars
    BY <2>2, LifeLinkStep
  <2>3. CASE ConnectionLost
    <3>1. UNCHANGED <<linkPc, writer, control, log, hostPc, capture, inputOpen,
                      forwarder>>
      BY <2>3 DEF ConnectionLost, hostVars, linkVars, pipes
    <3> QED
      BY <2>3, <3>1, LossCuts DEF ConnectionLost, TypeOK, LifeInv, TearingDown,
                                  HostOver
  <2>4. CASE UNCHANGED vars
    BY <2>4 DEF vars, streamVars, hostVars, linkVars, pipes, LifeInv,
                TearingDown, HostOver
  <2> QED
    BY <2>1, <2>2, <2>3, <2>4 DEF Next
<1> QED
  BY <1>1, <1>2, ConnectionTypeOK, PTL DEF Spec

(***************************************************************************)
(* F5: a host that was told to suspend stays, and leaves its loop only     *)
(* after the compositor's writer has ended or its own backend is gone.     *)
(***************************************************************************)
THEOREM ConnectionHostOutlivesSuspend == Spec => []HostOutlivesSuspend
<1>1. LifeInv => HostOutlivesSuspend
  BY DEF LifeInv, HostOutlivesSuspend
<1> QED
  BY <1>1, ConnectionLife, PTL

(***************************************************************************)
(* However serve_connection returns, both channels of the backend are      *)
(* closed by then.                                                         *)
(***************************************************************************)
THEOREM ConnectionNothingHeldAfterReturn == Spec => []NothingHeldAfterReturn
<1>1. LifeInv => NothingHeldAfterReturn
  BY DEF LifeInv, NothingHeldAfterReturn, HostOver, FramesClosed
<1> QED
  BY <1>1, ConnectionLife, PTL
-----------------------------------------------------------------------------
(***************************************************************************)
(* NumberInv is an invariant.                                              *)
(***************************************************************************)
numberVars == <<got, toHost, log, writer, writing, control, conn>>

LEMMA NumberUnchanged ==
  ASSUME NumberInv, UNCHANGED numberVars
  PROVE  NumberInv'
BY DEF NumberInv, numberVars, InHands

LEMMA Lengths ==
  ASSUME TypeOK
  PROVE  /\ Len(toHost) \in Nat /\ Len(control) \in Nat /\ Len(log) \in Nat
         /\ got \in Nat /\ InHands \in 0 .. 1
         /\ Len(toClient) \in Nat /\ Len(routed) \in Nat
BY LenProperties DEF TypeOK, StreamTypeOK, HostTypeOK, LinkTypeOK, InHands

\* the connection goes: what is left of the stream is its beginning
LEMMA NumberLoss ==
  ASSUME TypeOK, NumberInv, Lose \/ ClosedByHost \/ ClosedByClient,
         UNCHANGED <<got, log>>
  PROVE  NumberInv'
<1>1. /\ Len(toHost') \in 0 .. Len(toHost)
      /\ \A i \in 1 .. Len(toHost') : toHost'[i] = toHost[i]
      /\ conn' = "lost"
  BY LossCuts DEF TypeOK
<1> QED
  BY <1>1, Lengths DEF NumberInv

LEMMA NumberReceive ==
  ASSUME TypeOK, NumberInv, NEW type, NEW pc, Receive(type, pc),
         UNCHANGED linkVars
  PROVE  /\ NumberInv'
         /\ got' = got + 1
         /\ got' \in 1 .. Len(log)
         /\ Head(toHost).n = got'
         /\ log[got'] = type
<1>1. /\ Head(toHost).type = type
      /\ got' = got + 1
      /\ UNCHANGED <<conn, log, writer, writing, control>>
  BY DEF Receive, ReadFromClient, linkVars
<1>2. /\ Len(toHost) > 0
      /\ Head(toHost) = toHost[1]
      /\ Len(toHost') = Len(toHost) - 1
      /\ \A i \in 1 .. Len(toHost) - 1 : toHost'[i] = toHost[i + 1]
  BY QueueShift DEF TypeOK, StreamTypeOK, Receive, ReadFromClient
<1>3. got' \in 1 .. Len(log) /\ Head(toHost).n = got' /\ log[got'] = type
  BY <1>1, <1>2, Lengths DEF NumberInv
<1>4. \A i \in 1 .. Len(toHost') : /\ toHost'[i].n = got' + i
                                  /\ toHost'[i].type = log[got' + i]
  <2> SUFFICES ASSUME NEW i \in 1 .. Len(toHost')
               PROVE  toHost'[i].n = got' + i /\ toHost'[i].type = log[got' + i]
    OBVIOUS
  <2>1. i + 1 \in 1 .. Len(toHost) /\ toHost'[i] = toHost[i + 1]
    BY <1>2, Lengths
  <2>2. got' + i = got + (i + 1)
    BY <1>1, Lengths
  <2> QED
    BY <2>1, <2>2 DEF NumberInv
<1>5. got' + Len(toHost') = got + Len(toHost)
  BY <1>1, <1>2, Lengths
<1> QED
  BY <1>1, <1>3, <1>4, <1>5 DEF NumberInv, InHands

LEMMA NumberEnqueue ==
  ASSUME TypeOK, NumberInv, NEW type \in ClientTypes, Enqueue(type),
         UNCHANGED <<got, toHost, writer, writing, conn>>
  PROVE  NumberInv'
<1>1. [type |-> type, n |-> Len(log) + 1] \in ClientMessage
  BY Lengths DEF ClientMessage
<1>2. /\ Len(log') = Len(log) + 1
      /\ \A i \in 1 .. Len(log) : log'[i] = log[i]
      /\ log'[Len(log) + 1] = type
  BY QueueGrowth DEF Enqueue, TypeOK, LinkTypeOK
<1>3. /\ Len(control') = Len(control) + 1
      /\ \A i \in 1 .. Len(control) : control'[i] = control[i]
      /\ control'[Len(control) + 1] = [type |-> type, n |-> Len(log) + 1]
  BY <1>1, QueueGrowth DEF Enqueue, TypeOK, LinkTypeOK
<1> DEFINE base == got + Len(toHost) + InHands
<1>4. base \in Nat
  BY Lengths
<1>5. got + Len(toHost) <= Len(log')
  BY <1>2, Lengths DEF NumberInv
<1>6. ASSUME NEW i \in 1 .. Len(toHost)
      PROVE  toHost[i].n = got + i /\ toHost[i].type = log'[got + i]
  <2>1. got + i \in 1 .. Len(log)
    BY Lengths DEF NumberInv
  <2>2. log'[got + i] = log[got + i]
    BY <1>2, <2>1
  <2> QED
    BY <2>2 DEF NumberInv
<1>7. ASSUME conn = "up"
      PROVE  Len(log) = base + Len(control) /\ Len(log') = base + Len(control')
  <2>1. Len(log) = base + Len(control)
    BY <1>7 DEF NumberInv, Enqueue
  <2> QED
    BY <1>2, <1>3, <1>4, <2>1, Lengths
<1>8. ASSUME conn = "up", writer = "writing"
      PROVE  /\ writing.n = got + Len(toHost) + 1
             /\ writing.type = log'[got + Len(toHost) + 1]
  <2>1. got + Len(toHost) + 1 \in 1 .. Len(log)
    BY <1>7, <1>8, Lengths DEF InHands
  <2>2. log'[got + Len(toHost) + 1] = log[got + Len(toHost) + 1]
    BY <1>2, <2>1
  <2> QED
    BY <1>8, <2>2 DEF NumberInv
<1>9. ASSUME conn = "up", NEW i \in 1 .. Len(control')
      PROVE  control'[i].n = base + i /\ control'[i].type = log'[base + i]
  <2>1. CASE i \in 1 .. Len(control)
    <3>1. base + i \in 1 .. Len(log)
      BY <1>4, <1>7, <1>9, <2>1, Lengths
    <3>2. log'[base + i] = log[base + i] /\ control'[i] = control[i]
      BY <1>2, <1>3, <2>1, <3>1
    <3> QED
      BY <1>9, <2>1, <3>2 DEF NumberInv
  <2>2. CASE i = Len(control) + 1
    <3>1. base + i = Len(log) + 1
      <4> DEFINE c == Len(control)
                 l == Len(log)
      <4>1. /\ i = c + 1 /\ base \in Nat /\ c \in Nat /\ l \in Nat
            /\ l = base + c
        BY <1>4, <1>7, <1>9, <2>2, Lengths
      <4> HIDE DEF c, l, base
      <4>2. base + i = l + 1
        BY <4>1
      <4> QED
        BY <4>2 DEF l
    <3> QED
      BY <1>2, <1>3, <2>2, <3>1
  <2> QED
    BY <1>3, <1>9, <2>1, <2>2, Lengths
<1>10. InHands' = InHands
  BY DEF InHands
<1> QED
  BY <1>5, <1>6, <1>7, <1>8, <1>9, <1>10 DEF NumberInv

LEMMA NumberTakes ==
  ASSUME TypeOK, NumberInv, WriterTakes, got' = got
  PROVE  NumberInv'
<1>1. /\ Len(control) > 0
      /\ Head(control) = control[1]
      /\ Len(control') = Len(control) - 1
      /\ \A i \in 1 .. Len(control) - 1 : control'[i] = control[i + 1]
  BY QueueShift DEF WriterTakes, TypeOK, LinkTypeOK
<1>2. /\ UNCHANGED <<toHost, log, conn>>
      /\ InHands = 0 /\ InHands' = 1
      /\ writer = "idle" /\ writer' = "writing"
      /\ writing' = control[1]
  BY <1>1 DEF WriterTakes, streamVars, InHands
<1> DEFINE read == got + Len(toHost)
<1>3. read \in Nat
  BY Lengths
<1>4. ASSUME conn = "up"
      PROVE  /\ Len(log) = read + 1 + Len(control')
             /\ writing'.n = read + 1 /\ writing'.type = log[read + 1]
  <2>1. Len(log) = read + 0 + Len(control)
    BY <1>2, <1>4 DEF NumberInv
  <2>2. 1 \in 1 .. Len(control) /\ read + 0 + 1 = read + 1
    BY <1>1, <1>3, Lengths
  <2>3. control[1].n = read + 0 + 1 /\ control[1].type = log[read + 0 + 1]
    BY <1>2, <1>4, <2>2 DEF NumberInv
  <2>4. Len(log) = read + 1 + Len(control')
    BY <1>1, <1>3, <2>1, Lengths
  <2>5. writing'.n = read + 1 /\ writing'.type = log[read + 1]
    BY <1>2, <2>2, <2>3
  <2> QED
    BY <2>4, <2>5
<1>5. ASSUME conn = "up", NEW i \in 1 .. Len(control')
      PROVE  /\ control'[i].n = read + 1 + i
             /\ control'[i].type = log[read + 1 + i]
  <2>1. i + 1 \in 1 .. Len(control) /\ read + 0 + (i + 1) = read + 1 + i
    BY <1>1, <1>3, Lengths
  <2>2. control'[i] = control[i + 1]
    BY <1>1, Lengths
  <2>3. /\ control[i + 1].n = read + 0 + (i + 1)
        /\ control[i + 1].type = log[read + 0 + (i + 1)]
    BY <1>2, <1>5, <2>1 DEF NumberInv
  <2> QED
    BY <2>1, <2>2, <2>3
<1> QED
  BY <1>2, <1>4, <1>5 DEF NumberInv

LEMMA NumberWrites ==
  ASSUME TypeOK, NumberInv, WriterWrites, got' = got
  PROVE  NumberInv'
<1>1. /\ writer = "writing" /\ writing \in ClientMessage
      /\ conn = "up" /\ log' = log
      /\ toHost' = Append(toHost, writing)
      /\ InHands = 1 /\ InHands' = 0
      /\ \/ writer' = "idle" /\ control' = control
         \/ writer' = "ended" /\ control' = <<>>
  BY DEF WriterWrites, WriteToHost, EndWriter, TypeOK, LinkTypeOK, InHands
<1>2. /\ Len(toHost') = Len(toHost) + 1
      /\ \A i \in 1 .. Len(toHost) : toHost'[i] = toHost[i]
      /\ toHost'[Len(toHost) + 1] = writing
  BY <1>1, QueueGrowth DEF TypeOK, StreamTypeOK
<1> DEFINE read == got + Len(toHost)
<1>3. read \in Nat /\ got' + Len(toHost') = read + 1
  <2> DEFINE l == Len(toHost)
             m == Len(toHost')
  <2>1. l \in Nat /\ got \in Nat /\ m = l + 1 /\ got' = got
    BY <1>2, Lengths
  <2> HIDE DEF l, m
  <2>2. got + l \in Nat /\ got' + m = (got + l) + 1
    BY <2>1
  <2> QED
    BY <2>2 DEF l, m
<1>4. /\ Len(log) = read + 1 + Len(control)
      /\ writing.n = read + 1 /\ writing.type = log[read + 1]
  BY <1>1 DEF NumberInv
<1>5. ASSUME NEW i \in 1 .. Len(toHost')
      PROVE  toHost'[i].n = got' + i /\ toHost'[i].type = log'[got' + i]
  <2>1. CASE i \in 1 .. Len(toHost)
    BY <1>1, <1>2, <2>1 DEF NumberInv
  <2>2. CASE i = Len(toHost) + 1
    <3>1. got' + i = read + 1
      BY <2>2, Lengths
    <3> QED
      BY <1>1, <1>2, <1>4, <2>2, <3>1
  <2> QED
    BY <1>2, <2>1, <2>2, Lengths
<1>6. ASSUME writer' = "idle"
      PROVE  /\ Len(log') = got' + Len(toHost') + InHands' + Len(control')
             /\ \A i \in 1 .. Len(control') :
                  /\ control'[i].n = got' + Len(toHost') + InHands' + i
                  /\ control'[i].type = log'[got' + Len(toHost') + InHands' + i]
  <2>1. control' = control
    BY <1>1, <1>6
  <2>2. Len(log') = got' + Len(toHost') + InHands' + Len(control')
    BY <1>1, <1>3, <1>4, <2>1, Lengths
  <2>3. ASSUME NEW i \in 1 .. Len(control')
        PROVE  /\ control'[i].n = got' + Len(toHost') + InHands' + i
               /\ control'[i].type = log'[got' + Len(toHost') + InHands' + i]
    <3>1. got' + Len(toHost') + InHands' + i = read + 1 + i
      BY <1>1, <1>3
    <3>2. control[i].n = read + 1 + i /\ control[i].type = log[read + 1 + i]
      BY <1>1, <2>1 DEF NumberInv
    <3> QED
      BY <1>1, <2>1, <3>1, <3>2
  <2> QED
    BY <2>2, <2>3
<1>7. writer' = "ended" => control' = <<>> /\ Len(control') = 0
  BY <1>1, EmptySeq
<1>8. got' + Len(toHost') <= Len(log')
  BY <1>1, <1>3, <1>4, Lengths
<1> QED
  BY <1>1, <1>5, <1>6, <1>7, <1>8 DEF NumberInv

LEMMA NumberReconnect ==
  ASSUME TypeOK, LifeInv, NumberInv, WriteReconnect, got' = got
  PROVE  NumberInv'
<1>1. /\ log = <<>> /\ control = <<>> /\ control' = <<>>
      /\ Len(log) = 0 /\ Len(control') = 0
      /\ writer' = "idle" /\ InHands' = 0
  BY EmptySeq DEF WriteReconnect, LifeInv, StartTasks, InHands
<1>2. got = 0 /\ Len(toHost) = 0
  BY <1>1, Lengths DEF NumberInv
<1>3. [type |-> "Reconnect", n |-> Len(log) + 1] \in ClientMessage
  BY <1>1 DEF ClientMessage, ClientTypes
<1>4. /\ Len(toHost') = 1
      /\ toHost'[1] = [type |-> "Reconnect", n |-> 1]
  BY <1>1, <1>2, <1>3, QueueGrowth
     DEF WriteReconnect, WriteToHost, TypeOK, StreamTypeOK
<1>5. "Reconnect" \in ClientTypes
  BY DEF ClientTypes
<1>6. Len(log') = 1 /\ log'[1] = "Reconnect"
  BY <1>1, <1>5, QueueGrowth DEF WriteReconnect, TypeOK, LinkTypeOK
<1> QED
  BY <1>1, <1>2, <1>4, <1>6 DEF NumberInv

LEMMA NumberHostStep ==
  ASSUME TypeOK, NumberInv, HostNext, UNCHANGED linkVars
  PROVE  NumberInv'
<1>0. UNCHANGED <<log, writer, writing, control>>
  BY DEF linkVars
<1>1. ASSUME NEW type, NEW pc, Receive(type, pc) PROVE NumberInv'
  BY <1>1, NumberReceive
<1>2. CASE HostCancelForwarder
  BY <1>0, <1>2, NumberLoss DEF HostCancelForwarder, history
<1>3. CASE HostAnnounce \/ HostAck \/ HostReconnectOk
  BY <1>0, <1>3, NumberUnchanged
     DEF HostAnnounce, HostAck, HostReconnectOk, WriteToClient, history,
         numberVars
<1>4. CASE HostRoute \/ HostRouteFails \/ HostEof \/ HostFails
           \/ HostDropInput \/ HostAwaitCapture
  BY <1>0, <1>4, NumberUnchanged
     DEF HostRoute, HostRouteFails, HostEof, HostFails, HostDropInput,
         HostAwaitCapture, history, streamVars, numberVars
<1>5. CASE BackendTakesInput \/ BackendReturns \/ SourceEnds
           \/ BackendCaptures \/ ForwardFrame \/ ForwarderEnds
  BY <1>0, <1>5, NumberUnchanged
     DEF BackendTakesInput, BackendReturns, SourceEnds, BackendCaptures,
         ForwardFrame, ForwarderEnds, history, streamVars, numberVars
<1> QED
  BY <1>1, <1>2, <1>3, <1>4, <1>5
     DEF HostNext, HostTask, HostInput, HostResize, HostSuspend, HostReconnect,
         HostDisconnect

LEMMA NumberLinkStep ==
  ASSUME TypeOK, LifeInv, NumberInv, LinkNext, UNCHANGED hostVars
  PROVE  NumberInv'
<1>0. got' = got
  BY DEF hostVars, history
<1>1. CASE ReadAnnounce
  <2>1. UNCHANGED <<log, control, writing>> /\ writer = "none"
    BY <1>1 DEF ReadAnnounce, LifeInv
  <2>2. CASE ClosedByClient
    BY <1>0, <2>1, <2>2, NumberLoss
  <2>3. CASE ReadFromHost
    <3>1. UNCHANGED <<toHost, conn>> /\ writer' \in {"none", "idle"}
      BY <1>1, <2>1, <2>3 DEF ReadAnnounce, ReadFromHost, StartTasks
    <3> QED
      BY <1>0, <2>1, <3>1 DEF NumberInv, InHands
  <2> QED
    BY <1>1, <2>2, <2>3 DEF ReadAnnounce
<1>2. CASE WriteReconnect
  BY <1>0, <1>2, NumberReconnect
<1>3. ASSUME NEW type \in Sends, Send(type) PROVE NumberInv'
  <2>1. type \in ClientTypes
    BY LinkAssumption DEF ClientTypes
  <2> QED
    BY <1>0, <1>3, <2>1, NumberEnqueue DEF Send, streamVars
<1>4. CASE SendSuspend
  <2>1. "Suspend" \in ClientTypes
    BY DEF ClientTypes
  <2> QED
    BY <1>0, <1>4, <2>1, NumberEnqueue DEF SendSuspend, streamVars
<1>5. CASE ConnectFails \/ Suspend \/ SendSuspendFails \/ SuspendAcked
           \/ SuspendRefused \/ SuspendTimesOut \/ DropLink \/ ReaderEnds
  BY <1>0, <1>5, NumberUnchanged
     DEF ConnectFails, Suspend, SendSuspendFails, SuspendAcked, SuspendRefused,
         SuspendTimesOut, Finish, DropLink, ReaderEnds, streamVars, numberVars
<1>6. CASE WriterTakes
  BY <1>0, <1>6, NumberTakes
<1>7. CASE WriterWrites
  BY <1>0, <1>7, NumberWrites
<1>8. CASE WriterFails \/ WriterEnds
  <2>1. /\ UNCHANGED <<log, toHost, conn>>
        /\ writer' = "ended" /\ control' = <<>>
    BY <1>8 DEF WriterFails, WriterEnds, EndWriter, streamVars
  <2>2. Len(control') = 0
    BY <2>1, EmptySeq
  <2> QED
    BY <1>0, <2>1, <2>2 DEF NumberInv
<1>9. CASE ReaderTakes
  BY <1>0, <1>9, NumberUnchanged DEF ReaderTakes, ReadFromHost, numberVars
<1> QED
  BY <1>1, <1>2, <1>3, <1>4, <1>5, <1>6, <1>7, <1>8, <1>9
     DEF LinkNext, Connecting, Suspending, Writer, Reader

LEMMA ConnectionNumbers == Spec => []NumberInv
<1>1. Init => NumberInv
  BY EmptySeq DEF Init, StreamInit, HostInit, LinkInit, NumberInv, InHands
<1>2. TypeOK /\ LifeInv /\ NumberInv /\ [Next]_vars => NumberInv'
  <2> SUFFICES ASSUME TypeOK, LifeInv, NumberInv, [Next]_vars PROVE NumberInv'
    OBVIOUS
  <2>1. CASE HostNext /\ UNCHANGED linkVars
    BY <2>1, NumberHostStep
  <2>2. CASE LinkNext /\ UNCHANGED hostVars
    BY <2>2, NumberLinkStep
  <2>3. CASE ConnectionLost
    BY <2>3, NumberLoss DEF ConnectionLost, hostVars, linkVars, history
  <2>4. CASE UNCHANGED vars
    BY <2>4, NumberUnchanged
       DEF vars, streamVars, hostVars, linkVars, history, numberVars
  <2> QED
    BY <2>1, <2>2, <2>3, <2>4 DEF Next
<1> QED
  BY <1>1, <1>2, ConnectionTypeOK, ConnectionLife, PTL DEF Spec
-----------------------------------------------------------------------------
(***************************************************************************)
(* The log only grows.                                                     *)
(***************************************************************************)
LogGrows == /\ log' \in Seq(ClientTypes)
            /\ Len(log') \in Nat
            /\ Len(log) <= Len(log')
            /\ \A i \in 1 .. Len(log) : log'[i] = log[i]

LEMMA LogUnchanged ==
  ASSUME TypeOK, log' = log
  PROVE  LogGrows
BY Lengths DEF LogGrows, TypeOK, LinkTypeOK

LEMMA LogAppends ==
  ASSUME TypeOK, NEW type \in ClientTypes, log' = Append(log, type)
  PROVE  /\ LogGrows
         /\ Len(log') = Len(log) + 1
         /\ log'[Len(log) + 1] = type
<1>1. log \in Seq(ClientTypes)
  BY DEF TypeOK, LinkTypeOK
<1>2. log' \in Seq(ClientTypes)
  BY <1>1, QueueType
<1> QED
  BY <1>1, <1>2, QueueGrowth DEF LogGrows

LEMMA LinkStepLog ==
  ASSUME TypeOK, LinkNext
  PROVE  LogGrows
<1>1. CASE WriteReconnect
  BY <1>1, LogAppends DEF WriteReconnect, ClientTypes
<1>2. ASSUME NEW type \in Sends, Send(type) PROVE LogGrows
  BY <1>2, LogAppends, LinkAssumption DEF Send, Enqueue, ClientTypes
<1>3. CASE SendSuspend
  BY <1>3, LogAppends DEF SendSuspend, Enqueue, ClientTypes
<1>4. CASE \/ ReadAnnounce \/ ConnectFails \/ Suspend \/ SendSuspendFails
           \/ SuspendAcked \/ SuspendRefused \/ SuspendTimesOut \/ DropLink
  BY <1>4, LogUnchanged
     DEF ReadAnnounce, ConnectFails, Suspend, SendSuspendFails, SuspendAcked,
         SuspendRefused, SuspendTimesOut, Finish, DropLink
<1>5. CASE Writer \/ Reader
  BY <1>5, LogUnchanged
     DEF Writer, Reader, WriterTakes, WriterWrites, WriterFails, WriterEnds,
         ReaderTakes, ReaderEnds
<1> QED
  BY <1>1, <1>2, <1>3, <1>4, <1>5 DEF LinkNext, Connecting, Suspending

LEMMA InputsStay ==
  ASSUME TypeOK, LogGrows, NEW n \in 1 .. Len(log)
  PROVE  {i \in DOMAIN log' : i < n /\ log'[i] = "Input"} = InputsBefore(n)
<1>1. DOMAIN log = 1 .. Len(log) /\ DOMAIN log' = 1 .. Len(log')
  BY LenProperties DEF LogGrows, TypeOK, LinkTypeOK
<1> QED
  BY <1>1, Lengths DEF InputsBefore, LogGrows
-----------------------------------------------------------------------------
(***************************************************************************)
(* RouteInv is an invariant.                                               *)
(***************************************************************************)
LEMMA RoutedSet ==
  ASSUME TypeOK
  PROVE  Routed = {routed[i] : i \in 1 .. Len(routed)}
BY LenProperties DEF Routed, TypeOK, HostTypeOK

LEMMA RouteUnchanged ==
  ASSUME TypeOK, NumberInv, RouteInv, LogGrows,
         UNCHANGED <<hostPc, got, routed, hand>>
  PROVE  RouteInv'
<1>1. got \in 0 .. Len(log)
  BY Lengths DEF NumberInv
<1>2. \A k \in 1 .. got : log'[k] = log[k]
  BY <1>1, Lengths DEF LogGrows
<1>3. \A n \in 1 .. got : InputsBefore(n)' = InputsBefore(n)
  BY <1>1, InputsStay, Lengths DEF InputsBefore
<1>4. Routed' = Routed
  BY DEF Routed
<1>5. \A i \in 1 .. Len(routed) :
        /\ routed[i] \in 1 .. got
        /\ log'[routed[i]] = "Input"
        /\ InputsBefore(routed[i])' \subseteq Routed'
  BY <1>2, <1>3, <1>4 DEF RouteInv
<1>6. hostPc = "route" => hand = got /\ got > 0 /\ log'[hand] = "Input"
  BY <1>2, Lengths DEF RouteInv
<1>7. Serving => \A k \in 1 .. got : log'[k] = "Input" =>
                   k \in Routed \/ (hostPc = "route" /\ k = hand)
  BY <1>2 DEF RouteInv
<1> QED
  BY <1>4, <1>5, <1>6, <1>7 DEF RouteInv, Serving

\* the loop goes on, or ends, with nothing read
LEMMA RouteMoves ==
  ASSUME RouteInv, UNCHANGED <<got, routed, log>>,
         hostPc' \notin {"announce", "route"},
         Serving' => (Serving /\ hostPc # "route") \/ got = 0
  PROVE  RouteInv'
BY DEF RouteInv, Serving, InputsBefore, Routed

LEMMA RouteReceive ==
  ASSUME TypeOK, NumberInv, RouteInv, NEW type, NEW pc, Receive(type, pc),
         UNCHANGED linkVars,
         \/ type # "Input" /\ pc \in {"read", "ack", "reok", "drop"}
         \/ type = "Input" /\ pc = "route" /\ hand' = Head(toHost).n
  PROVE  RouteInv'
<1>1. /\ got' = got + 1 /\ got' \in 1 .. Len(log)
      /\ Head(toHost).n = got' /\ log[got'] = type
  BY NumberReceive
<1>2. hostPc = "read" /\ hostPc' = pc /\ routed' = routed /\ log' = log
  BY DEF Receive, linkVars
<1>3. Routed' = Routed /\ \A n : InputsBefore(n)' = InputsBefore(n)
  BY <1>2 DEF Routed, InputsBefore
<1>4. \A i \in 1 .. Len(routed) : /\ routed[i] \in 1 .. got'
                                 /\ routed[i] < got'
  BY <1>1, Lengths DEF RouteInv
<1>5. \A k \in 1 .. got' : log[k] = "Input" =>
         k \in Routed \/ (type = "Input" /\ k = got')
  <2>1. \A k \in 1 .. got : log[k] = "Input" => k \in Routed
    BY <1>2 DEF RouteInv, Serving
  <2> QED
    BY <1>1, <2>1, Lengths
<1> QED
  BY <1>1, <1>2, <1>3, <1>4, <1>5, Lengths DEF RouteInv, Serving

LEMMA RouteRoutes ==
  ASSUME TypeOK, NumberInv, RouteInv, HostRoute, UNCHANGED linkVars
  PROVE  RouteInv'
<1>1. /\ hostPc = "route" /\ hostPc' = "read"
      /\ got' = got /\ log' = log /\ routed' = Append(routed, hand)
  BY DEF HostRoute, linkVars
<1>2. /\ hand = got /\ hand \in 1 .. got /\ log[hand] = "Input"
      /\ \A i \in 1 .. Len(routed) : routed[i] < hand
  BY <1>1, Lengths DEF RouteInv
<1>3. /\ Len(routed') = Len(routed) + 1
      /\ \A i \in 1 .. Len(routed) : routed'[i] = routed[i]
      /\ routed'[Len(routed) + 1] = hand
      /\ routed' \in Seq(Nat)
  BY <1>1, <1>2, QueueGrowth, QueueType DEF TypeOK, HostTypeOK
<1>4. Routed' = Routed \cup {hand}
  <2> DEFINE n == Len(routed)
             q == routed'
  <2>1. Routed = {routed[i] : i \in 1 .. n} /\ n \in Nat
    BY RoutedSet, Lengths
  <2>2. Len(q) = n + 1 /\ DOMAIN q = 1 .. n + 1
    BY <1>3, LenProperties
  <2>3. Routed' = {q[i] : i \in 1 .. n + 1}
    BY <2>2 DEF Routed
  <2>4. /\ \A i \in 1 .. n : q[i] = routed[i]
        /\ q[n + 1] = hand
    BY <1>3
  <2> HIDE DEF n, q
  <2>5. \A i : i \in 1 .. n + 1 <=> i \in 1 .. n \/ i = n + 1
    BY <2>1
  <2>6. {q[i] : i \in 1 .. n + 1} = {routed[i] : i \in 1 .. n} \cup {hand}
    BY <2>4, <2>5
  <2> QED
    BY <2>1, <2>3, <2>6
<1>5. \A n : InputsBefore(n)' = InputsBefore(n)
  BY <1>1 DEF InputsBefore
<1>6. \A k \in 1 .. got : log[k] = "Input" => k \in Routed'
  BY <1>1, <1>4 DEF RouteInv, Serving
<1>7. InputsBefore(hand) \subseteq Routed'
  <2>1. got <= Len(log) /\ DOMAIN log = 1 .. Len(log)
    BY Lengths, LenProperties DEF NumberInv, TypeOK, LinkTypeOK
  <2> QED
    BY <1>2, <1>6, <2>1, Lengths DEF InputsBefore
<1>8. ASSUME NEW i \in 1 .. Len(routed')
      PROVE  /\ routed'[i] \in 1 .. got
             /\ log[routed'[i]] = "Input"
             /\ InputsBefore(routed'[i]) \subseteq Routed'
  <2>1. CASE i \in 1 .. Len(routed)
    BY <1>3, <1>4, <2>1 DEF RouteInv
  <2>2. CASE i = Len(routed) + 1
    BY <1>2, <1>3, <1>7, <2>2
  <2> QED
    BY <1>3, <2>1, <2>2, Lengths
<1>9. ASSUME NEW i \in 1 .. Len(routed'), NEW j \in 1 .. Len(routed'), i < j
      PROVE  routed'[i] < routed'[j]
  <2>1. i \in 1 .. Len(routed) /\ routed'[i] = routed[i]
    BY <1>3, <1>9, Lengths, SMTT(30)
  <2>2. CASE j \in 1 .. Len(routed)
    BY <1>3, <1>9, <2>1, <2>2 DEF RouteInv
  <2>3. CASE j = Len(routed) + 1
    BY <1>2, <1>3, <2>1, <2>3
  <2> QED
    BY <1>3, <2>2, <2>3, Lengths
<1> QED
  BY <1>1, <1>5, <1>6, <1>8, <1>9 DEF RouteInv, Serving

LEMMA RouteHostStep ==
  ASSUME TypeOK, NumberInv, RouteInv, HostNext, UNCHANGED linkVars
  PROVE  RouteInv'
<1>0. log' = log /\ LogGrows
  BY LogUnchanged DEF linkVars
<1>1. CASE HostAnnounce
  <2>1. got = 0
    BY <1>1 DEF HostAnnounce, RouteInv
  <2> QED
    BY <1>0, <1>1, <2>1, RouteMoves DEF HostAnnounce, history
<1>2. CASE HostInput
  BY <1>2, RouteReceive DEF HostInput
<1>3. CASE HostResize \/ HostSuspend \/ HostReconnect \/ HostDisconnect
  BY <1>3, RouteReceive
     DEF HostResize, HostSuspend, HostReconnect, HostDisconnect
<1>4. CASE HostRoute
  BY <1>4, RouteRoutes
<1>5. CASE HostAck \/ HostReconnectOk
  BY <1>0, <1>5, RouteMoves DEF HostAck, HostReconnectOk, Serving
<1>6. CASE HostRouteFails \/ HostEof \/ HostFails \/ HostDropInput
           \/ HostAwaitCapture \/ HostCancelForwarder
  BY <1>0, <1>6, RouteMoves
     DEF HostRouteFails, HostEof, HostFails, HostDropInput, HostAwaitCapture,
         HostCancelForwarder, Serving, history
<1>7. CASE BackendTakesInput \/ BackendReturns \/ SourceEnds
           \/ BackendCaptures \/ ForwardFrame \/ ForwarderEnds
  BY <1>0, <1>7, RouteUnchanged
     DEF BackendTakesInput, BackendReturns, SourceEnds, BackendCaptures,
         ForwardFrame, ForwarderEnds, history
<1> QED
  BY <1>1, <1>2, <1>3, <1>4, <1>5, <1>6, <1>7 DEF HostNext, HostTask

LEMMA ConnectionRoutes == Spec => []RouteInv
<1>1. Init => RouteInv
  BY EmptySeq DEF Init, HostInit, RouteInv, Serving
<1>2. TypeOK /\ NumberInv /\ RouteInv /\ [Next]_vars => RouteInv'
  <2> SUFFICES ASSUME TypeOK, NumberInv, RouteInv, [Next]_vars PROVE RouteInv'
    OBVIOUS
  <2>1. CASE HostNext /\ UNCHANGED linkVars
    BY <2>1, RouteHostStep
  <2>2. CASE LinkNext /\ UNCHANGED hostVars
    BY <2>2, LinkStepLog, RouteUnchanged DEF hostVars, history
  <2>3. CASE ConnectionLost
    BY <2>3, LogUnchanged, RouteUnchanged
       DEF ConnectionLost, hostVars, linkVars, history
  <2>4. CASE UNCHANGED vars
    BY <2>4, LogUnchanged, RouteUnchanged DEF vars, hostVars, linkVars, history
  <2> QED
    BY <2>1, <2>2, <2>3, <2>4 DEF Next
<1> QED
  BY <1>1, <1>2, ConnectionTypeOK, ConnectionNumbers, PTL DEF Spec

(***************************************************************************)
(* Input is routed in the order it was sent, with no gap and no            *)
(* repetition.                                                             *)
(***************************************************************************)
LEMMA ConnectionNoGaps == Spec => []NoGaps
<1>1. TypeOK /\ RouteInv => NoGaps
  <2> SUFFICES ASSUME TypeOK, RouteInv PROVE NoGaps
    OBVIOUS
  <2>1. DOMAIN routed = 1 .. Len(routed)
    BY LenProperties DEF TypeOK, HostTypeOK
  <2> QED
    BY <2>1 DEF RouteInv, NoGaps
<1> QED
  BY <1>1, ConnectionTypeOK, ConnectionRoutes, PTL
-----------------------------------------------------------------------------
(***************************************************************************)
(* SuspendInv is an invariant.                                             *)
(***************************************************************************)
AckComesBack(q) == \E i \in 1 .. Len(q) : q[i].type = "SuspendAck"

LEMMA AckInTail ==
  ASSUME NEW S, NEW q \in Seq(S), q # <<>>, AckComesBack(Tail(q))
  PROVE  AckComesBack(q)
<1>1. PICK i \in 1 .. Len(q) - 1 : Tail(q)[i].type = "SuspendAck"
  BY QueueShift DEF AckComesBack
<1>2. i + 1 \in 1 .. Len(q) /\ q[i + 1] = Tail(q)[i]
  BY QueueShift
<1> QED
  BY <1>1, <1>2 DEF AckComesBack

LEMMA LogDomain ==
  ASSUME TypeOK
  PROVE  DOMAIN log = 1 .. Len(log)
BY LenProperties DEF TypeOK, LinkTypeOK

\* a step that sends, reads and answers no Suspend
LEMMA SuspendKeeps ==
  ASSUME TypeOK, NumberInv, SuspendInv, LogGrows,
         \A n \in 1 .. Len(log') : log'[n] = "Suspend" => n \in 1 .. Len(log),
         linkPc \in {"waiting", "suspended", "dropped"} =>
           linkPc' \in {"waiting", "suspended", "dropped"},
         acks' = acks, got' \in Nat, got <= got', Routed \subseteq Routed',
         hostPc' = "ack" => hostPc = "ack" /\ got' = got,
         AckComesBack(toClient') => AckComesBack(toClient),
         ackQ' = 1 \/ result' = "acked" => acks > 0
  PROVE  SuspendInv'
<1>1. DOMAIN log = 1 .. Len(log) /\ DOMAIN log' = 1 .. Len(log')
  BY LogDomain, LenProperties DEF LogGrows
<1>2. \A n : SuspendAt(n)' <=> SuspendAt(n)
  BY <1>1, Lengths DEF SuspendAt, LogGrows
<1>3. \A n : SuspendAt(n) => n \in 1 .. Len(log)
  BY <1>1 DEF SuspendAt
<1>4. \A n \in 1 .. Len(log) : InputsBefore(n)' = InputsBefore(n)
  BY InputsStay DEF InputsBefore
<1>5. \A m, n \in 1 .. Len(log') : SuspendAt(m)' /\ SuspendAt(n)' => m = n
  BY <1>2, <1>3 DEF SuspendInv
<1>6. \A n \in 1 .. Len(log') :
        SuspendAt(n)' => linkPc' \in {"waiting", "suspended", "dropped"}
  BY <1>2, <1>3 DEF SuspendInv
<1>7. hostPc' = "ack" => SuspendAt(got)' /\ acks' = 0
  BY <1>2 DEF SuspendInv
<1>8. acks' > 0 => \E n \in 1 .. got' : SuspendAt(n)'
  BY <1>2, Lengths DEF SuspendInv
<1>9. hostPc' = "ack" \/ acks' > 0 =>
        \A n \in 1 .. Len(log') :
          SuspendAt(n)' => InputsBefore(n)' \subseteq Routed'
  BY <1>2, <1>3, <1>4 DEF SuspendInv
<1>10. \A i \in 1 .. Len(toClient') :
         toClient'[i].type = "SuspendAck" => acks' > 0
  BY DEF SuspendInv, AckComesBack
<1> QED
  BY <1>5, <1>6, <1>7, <1>8, <1>9, <1>10 DEF SuspendInv

LEMMA RoutedGrows ==
  ASSUME TypeOK, HostNext
  PROVE  Routed \subseteq Routed'
<1>1. CASE HostRoute
  <2>1. /\ Len(routed') = Len(routed) + 1
        /\ \A i \in 1 .. Len(routed) : routed'[i] = routed[i]
        /\ routed' \in Seq(Nat)
    BY <1>1, QueueGrowth, QueueType DEF HostRoute, TypeOK, HostTypeOK
  <2>2. /\ DOMAIN routed = 1 .. Len(routed)
        /\ DOMAIN routed' = 1 .. Len(routed')
    BY <2>1, LenProperties DEF TypeOK, HostTypeOK
  <2>3. \A i \in DOMAIN routed : i \in DOMAIN routed' /\ routed'[i] = routed[i]
    BY <2>1, <2>2, Lengths
  <2> QED
    BY <2>3 DEF Routed
<1>2. CASE ~HostRoute
  <2>1. routed' = routed
    BY <1>2 DEF HostNext, HostTask, HostAnnounce, HostInput, HostResize,
                HostSuspend, HostReconnect, HostDisconnect, Receive,
                HostRouteFails, HostAck, HostReconnectOk, HostEof, HostFails,
                HostDropInput, HostAwaitCapture, HostCancelForwarder,
                BackendTakesInput, BackendReturns, SourceEnds, BackendCaptures,
                ForwardFrame, ForwarderEnds, history
  <2> QED
    BY <2>1 DEF Routed
<1> QED
  BY <1>1, <1>2

LEMMA WriteToClientAdds ==
  ASSUME TypeOK, NEW type \in HostTypes, WriteToClient(type),
         AckComesBack(toClient')
  PROVE  AckComesBack(toClient) \/ type = "SuspendAck"
<1>1. [type |-> type, n |-> 0] \in HostMessage
  BY DEF HostMessage
<1>2. /\ Len(toClient') = Len(toClient) + 1
      /\ \A i \in 1 .. Len(toClient) : toClient'[i] = toClient[i]
      /\ toClient'[Len(toClient) + 1] = [type |-> type, n |-> 0]
  BY <1>1, QueueGrowth DEF WriteToClient, TypeOK, StreamTypeOK
<1> QED
  BY <1>2, Lengths DEF AckComesBack

LEMMA SuspendReceived ==
  ASSUME TypeOK, NumberInv, RouteInv, SuspendInv, HostSuspend,
         UNCHANGED linkVars
  PROVE  SuspendInv'
<1>1. /\ got' = got + 1 /\ got' \in 1 .. Len(log) /\ log[got'] = "Suspend"
  BY NumberReceive DEF HostSuspend
<1>2. /\ hostPc = "read" /\ hostPc' = "ack"
      /\ UNCHANGED <<routed, acks, toClient, log, linkPc, ackQ, result>>
  BY DEF HostSuspend, Receive, ReadFromClient, linkVars
<1>3. /\ Routed' = Routed
      /\ \A n : /\ SuspendAt(n)' <=> SuspendAt(n)
               /\ InputsBefore(n)' = InputsBefore(n)
  BY <1>2 DEF Routed, SuspendAt, InputsBefore
<1>4. SuspendAt(got')
  BY <1>1, LogDomain DEF SuspendAt
<1>5. \A n \in 1 .. Len(log) : SuspendAt(n) => n = got'
  BY <1>1, <1>4 DEF SuspendInv
<1>6. acks = 0
  <2>1. ~(acks > 0)
    BY <1>1, <1>5, Lengths DEF SuspendInv
  <2> QED
    BY <2>1 DEF TypeOK, HostTypeOK
<1>7. InputsBefore(got') \subseteq Routed
  BY <1>1, <1>2, LogDomain, Lengths DEF InputsBefore, RouteInv, Serving
<1>8. SuspendAt(got)'
  BY <1>2, <1>4 DEF SuspendAt
<1> QED
  BY <1>2, <1>3, <1>5, <1>6, <1>7, <1>8 DEF SuspendInv

LEMMA SuspendAnswered ==
  ASSUME TypeOK, NumberInv, SuspendInv, HostAck, UNCHANGED linkVars
  PROVE  SuspendInv'
<1>1. /\ hostPc = "ack" /\ hostPc' = "read" /\ acks' = acks + 1
      /\ UNCHANGED <<got, routed, log, linkPc, ackQ, result>>
  BY DEF HostAck, linkVars
<1>2. /\ Routed' = Routed
      /\ \A n : /\ SuspendAt(n)' <=> SuspendAt(n)
               /\ InputsBefore(n)' = InputsBefore(n)
  BY <1>1 DEF Routed, SuspendAt, InputsBefore
<1>3. SuspendAt(got) /\ acks' = 1
  BY <1>1 DEF SuspendInv
<1>4. got \in 1 .. got
  BY <1>3, LogDomain, Lengths DEF SuspendAt
<1> QED
  BY <1>1, <1>2, <1>3, <1>4 DEF SuspendInv

LEMMA SuspendHostStep ==
  ASSUME TypeOK, NumberInv, RouteInv, SuspendInv, HostNext, UNCHANGED linkVars
  PROVE  SuspendInv'
<1>0. /\ UNCHANGED <<log, linkPc, ackQ, result>>
      /\ LogGrows
      /\ Routed \subseteq Routed'
      /\ got \in Nat
  BY LogUnchanged, RoutedGrows, Lengths DEF linkVars
<1>1. CASE HostSuspend
  BY <1>1, SuspendReceived
<1>2. CASE HostAck
  BY <1>2, SuspendAnswered
<1>3. CASE HostInput \/ HostResize \/ HostReconnect \/ HostDisconnect
  <2>1. /\ got' = got + 1 /\ acks' = acks /\ toClient' = toClient
        /\ hostPc' # "ack"
    BY <1>3 DEF HostInput, HostResize, HostReconnect, HostDisconnect, Receive,
                ReadFromClient
  <2>2. got' \in Nat /\ got <= got'
    BY <1>0, <2>1
  <2> QED
    BY <1>0, <2>1, <2>2, SuspendKeeps DEF SuspendInv
<1>4. CASE HostAnnounce \/ HostReconnectOk
  <2>1. /\ got' = got /\ acks' = acks /\ hostPc' # "ack"
        /\ WriteToClient("Announce") \/ WriteToClient("ReconnectOk")
    BY <1>4 DEF HostAnnounce, HostReconnectOk, history
  <2>2. AckComesBack(toClient') => AckComesBack(toClient)
    BY <2>1, WriteToClientAdds DEF HostTypes
  <2> QED
    BY <1>0, <2>1, <2>2, SuspendKeeps DEF SuspendInv
<1>5. CASE HostCancelForwarder
  <2>1. /\ got' = got /\ acks' = acks /\ hostPc' # "ack"
    BY <1>5 DEF HostCancelForwarder, history
  <2>2. AckComesBack(toClient') => AckComesBack(toClient)
    BY <1>5, LossCuts DEF HostCancelForwarder, AckComesBack, TypeOK
  <2> QED
    BY <1>0, <2>1, <2>2, SuspendKeeps DEF SuspendInv
<1>6. CASE HostRoute \/ HostRouteFails \/ HostEof \/ HostFails
           \/ HostDropInput \/ HostAwaitCapture
  <2>1. /\ got' = got /\ acks' = acks /\ toClient' = toClient
        /\ hostPc' # "ack"
    BY <1>6 DEF HostRoute, HostRouteFails, HostEof, HostFails, HostDropInput,
                HostAwaitCapture, history, streamVars
  <2> QED
    BY <1>0, <2>1, SuspendKeeps DEF SuspendInv
<1>7. CASE BackendTakesInput \/ BackendReturns \/ SourceEnds
           \/ BackendCaptures \/ ForwardFrame \/ ForwarderEnds
  <2>1. /\ got' = got /\ acks' = acks /\ toClient' = toClient
        /\ hostPc' = hostPc
    BY <1>7 DEF BackendTakesInput, BackendReturns, SourceEnds, BackendCaptures,
                ForwardFrame, ForwarderEnds, history, streamVars
  <2> QED
    BY <1>0, <2>1, SuspendKeeps DEF SuspendInv
<1> QED
  BY <1>1, <1>2, <1>3, <1>4, <1>5, <1>6, <1>7 DEF HostNext, HostTask

\* nothing the host knows of changes
LEMMA SuspendLinkKeeps ==
  ASSUME TypeOK, NumberInv, SuspendInv, UNCHANGED hostVars, LogGrows,
         \A n \in 1 .. Len(log') : log'[n] = "Suspend" => n \in 1 .. Len(log),
         linkPc \in {"waiting", "suspended", "dropped"} =>
           linkPc' \in {"waiting", "suspended", "dropped"},
         AckComesBack(toClient') => AckComesBack(toClient),
         ackQ' = 1 \/ result' = "acked" =>
           ackQ = 1 \/ result = "acked" \/ AckComesBack(toClient)
  PROVE  SuspendInv'
<1>1. UNCHANGED <<acks, got, routed, hostPc>>
  BY DEF hostVars, history
<1>2. Routed \subseteq Routed' /\ got' \in Nat /\ got <= got'
  BY <1>1, Lengths DEF Routed
<1>3. ackQ' = 1 \/ result' = "acked" => acks > 0
  BY DEF SuspendInv, AckComesBack
<1> QED
  BY <1>1, <1>2, <1>3, SuspendKeeps

LEMMA SuspendSent ==
  ASSUME TypeOK, NumberInv, SuspendInv, SendSuspend, UNCHANGED hostVars
  PROVE  SuspendInv'
<1>1. /\ linkPc = "sending" /\ linkPc' = "waiting"
      /\ log' = Append(log, "Suspend")
      /\ UNCHANGED <<hostPc, acks, got, routed, toClient, ackQ, result>>
  BY DEF SendSuspend, Enqueue, hostVars, history, streamVars
<1>2. /\ LogGrows
      /\ Len(log') = Len(log) + 1
      /\ DOMAIN log' = 1 .. Len(log')
  BY <1>1, LogAppends, LenProperties DEF ClientTypes, LogGrows
<1>3. \A n : ~SuspendAt(n)
  BY <1>1, LogDomain DEF SuspendInv, SuspendAt
<1>4. hostPc # "ack" /\ ~(acks > 0)
  BY <1>3 DEF SuspendInv
<1>5. \A n \in 1 .. Len(log') : SuspendAt(n)' => n = Len(log) + 1
  BY <1>2, <1>3, LogDomain, Lengths DEF SuspendAt, LogGrows
<1> QED
  BY <1>1, <1>4, <1>5 DEF SuspendInv

LEMMA SuspendLinkStep ==
  ASSUME TypeOK, LifeInv, NumberInv, SuspendInv, LinkNext, UNCHANGED hostVars
  PROVE  SuspendInv'
<1>0. LogGrows
  BY LinkStepLog
<1>1. CASE ReadAnnounce
  <2>1. /\ log' = log /\ UNCHANGED <<ackQ, result>>
        /\ linkPc = "announce"
    BY <1>1 DEF ReadAnnounce
  <2>2. AckComesBack(toClient') => AckComesBack(toClient)
    <3>1. CASE ReadFromHost
      BY <3>1, AckInTail DEF ReadFromHost, TypeOK, StreamTypeOK
    <3>2. CASE ClosedByClient
      BY <3>2, LossCuts DEF AckComesBack, TypeOK
    <3> QED
      BY <1>1, <3>1, <3>2 DEF ReadAnnounce
  <2> QED
    BY <1>0, <2>1, <2>2, SuspendLinkKeeps
<1>2. CASE WriteReconnect
  <2>1. /\ log' = Append(log, "Reconnect") /\ UNCHANGED <<ackQ, result, toClient>>
        /\ linkPc = "reconnect"
    BY <1>2 DEF WriteReconnect, WriteToHost
  <2>2. \A n \in 1 .. Len(log') : log'[n] = "Suspend" => n \in 1 .. Len(log)
    BY <2>1, LogAppends, Lengths DEF ClientTypes
  <2> QED
    BY <1>0, <2>1, <2>2, SuspendLinkKeeps
<1>3. ASSUME NEW type \in Sends, Send(type) PROVE SuspendInv'
  <2>1. /\ log' = Append(log, type) /\ type # "Suspend" /\ type \in ClientTypes
        /\ UNCHANGED <<ackQ, result, toClient, linkPc>>
    BY <1>3, LinkAssumption DEF Send, Enqueue, ClientTypes, streamVars
  <2>2. \A n \in 1 .. Len(log') : log'[n] = "Suspend" => n \in 1 .. Len(log)
    BY <2>1, LogAppends, Lengths
  <2> QED
    BY <1>0, <2>1, <2>2, SuspendLinkKeeps
<1>4. CASE SendSuspend
  BY <1>4, SuspendSent
<1>5. CASE ReaderTakes
  <2>1. /\ UNCHANGED <<log, linkPc, result>>
        /\ toClient # <<>> /\ toClient' = Tail(toClient)
        /\ ackQ' = 1 => ackQ = 1 \/ Head(toClient).type = "SuspendAck"
    BY <1>5 DEF ReaderTakes, ReadFromHost
  <2>2. /\ Len(toClient) > 0 /\ Head(toClient) = toClient[1]
        /\ Len(toClient') = Len(toClient) - 1
        /\ \A i \in 1 .. Len(toClient) - 1 : toClient'[i] = toClient[i + 1]
    BY <2>1, QueueShift DEF TypeOK, StreamTypeOK
  <2>3. AckComesBack(toClient') => AckComesBack(toClient)
    BY <2>1, AckInTail DEF TypeOK, StreamTypeOK
  <2>4. Head(toClient).type = "SuspendAck" => AckComesBack(toClient)
    BY <2>2, Lengths DEF AckComesBack
  <2> QED
    BY <1>0, <2>1, <2>3, <2>4, SuspendLinkKeeps
<1>6. CASE ConnectFails \/ Suspend \/ SendSuspendFails \/ SuspendAcked
           \/ SuspendRefused \/ SuspendTimesOut \/ DropLink \/ ReaderEnds
  <2>1. /\ log' = log /\ toClient' = toClient
        /\ ackQ' = 1 \/ result' = "acked" => ackQ = 1 \/ result = "acked"
        /\ linkPc \in {"waiting", "suspended", "dropped"} =>
             linkPc' \in {"waiting", "suspended", "dropped"}
    BY <1>6 DEF ConnectFails, Suspend, SendSuspendFails, SuspendAcked,
                SuspendRefused, SuspendTimesOut, Finish, DropLink, ReaderEnds,
                streamVars
  <2> QED
    BY <1>0, <2>1, SuspendLinkKeeps
<1>7. CASE Writer
  <2>1. UNCHANGED <<log, toClient, ackQ, result, linkPc>>
    BY <1>7 DEF Writer, WriterTakes, WriterWrites, WriterFails, WriterEnds,
                WriteToHost, streamVars
  <2> QED
    BY <1>0, <2>1, SuspendLinkKeeps
<1> QED
  BY <1>1, <1>2, <1>3, <1>4, <1>5, <1>6, <1>7
     DEF LinkNext, Connecting, Suspending, Reader

LEMMA ConnectionSuspends == Spec => []SuspendInv
<1>1. Init => SuspendInv
  BY EmptySeq DEF Init, StreamInit, HostInit, LinkInit, SuspendInv, SuspendAt
<1>2. TypeOK /\ LifeInv /\ NumberInv /\ RouteInv /\ SuspendInv /\ [Next]_vars
        => SuspendInv'
  <2> SUFFICES ASSUME TypeOK, LifeInv, NumberInv, RouteInv, SuspendInv, [Next]_vars
               PROVE  SuspendInv'
    OBVIOUS
  <2>1. CASE HostNext /\ UNCHANGED linkVars
    BY <2>1, SuspendHostStep
  <2>2. CASE LinkNext /\ UNCHANGED hostVars
    BY <2>2, SuspendLinkStep
  <2>3. CASE ConnectionLost
    <3>1. UNCHANGED <<log, linkPc, ackQ, result>> /\ UNCHANGED hostVars
      BY <2>3 DEF ConnectionLost, linkVars
    <3>2. AckComesBack(toClient') => AckComesBack(toClient)
      BY <2>3, LossCuts DEF ConnectionLost, AckComesBack, TypeOK
    <3> QED
      BY <3>1, <3>2, LogUnchanged, SuspendLinkKeeps
  <2>4. CASE UNCHANGED vars
    BY <2>4 DEF vars, streamVars, hostVars, linkVars, history, SuspendInv,
                SuspendAt, InputsBefore, Routed
  <2> QED
    BY <2>1, <2>2, <2>3, <2>4 DEF Next
<1> QED
  BY <1>1, <1>2, ConnectionTypeOK, ConnectionLife, ConnectionNumbers,
     ConnectionRoutes, PTL DEF Spec

(***************************************************************************)
(* An acknowledged suspend has flushed: when suspend() returns true, this  *)
(* host answered, and every input event sent before is routed.             *)
(***************************************************************************)
THEOREM ConnectionAckMeansFlushed == Spec => []AckMeansFlushed
<1>1. TypeOK /\ SuspendInv => AckMeansFlushed
  BY LogDomain DEF SuspendInv, AckMeansFlushed
<1> QED
  BY <1>1, ConnectionTypeOK, ConnectionSuspends, PTL
-----------------------------------------------------------------------------
(***************************************************************************)
(* ReconnectInv is an invariant.                                           *)
(***************************************************************************)
\* a message that is not Reconnect is read on a resume only after it
LEMMA ReconnectRead ==
  ASSUME TypeOK, LifeInv, NumberInv, RouteInv, ReconnectInv,
         NEW type \in {"Input", "Resize", "Suspend", "Disconnect"},
         NEW pc \in {"read", "route", "ack", "drop"},
         Receive(type, pc), UNCHANGED linkVars
  PROVE  ReconnectInv'
<1>1. /\ got' = got + 1 /\ got' \in 1 .. Len(log) /\ log[got'] = type
  BY NumberReceive
<1>2. /\ hostPc = "read" /\ hostPc' = pc
      /\ UNCHANGED <<routed, reoks, log, resuming, writer>>
  BY DEF Receive, linkVars
<1>3. writer # "none"
  BY <1>1, EmptySeq, Lengths DEF LifeInv
<1>4. resuming => got > 0
  BY <1>1, <1>3, Lengths DEF ReconnectInv
<1>5. resuming => reoks = 1
  BY <1>2, <1>4 DEF ReconnectInv, Serving
<1>6. got' # 0
  BY <1>1, Lengths
<1> QED
  BY <1>2, <1>5, <1>6 DEF ReconnectInv

LEMMA ReconnectIsRead ==
  ASSUME TypeOK, LifeInv, NumberInv, RouteInv, ReconnectInv, HostReconnect,
         UNCHANGED linkVars
  PROVE  ReconnectInv'
<1>1. /\ got' = got + 1 /\ got' \in 1 .. Len(log) /\ log[got'] = "Reconnect"
  BY NumberReceive DEF HostReconnect
<1>2. /\ hostPc' = "reok"
      /\ UNCHANGED <<routed, reoks, log, resuming, writer>>
  BY DEF HostReconnect, Receive, linkVars
<1>3. got' = 1 /\ got = 0
  BY <1>1, Lengths DEF ReconnectInv
<1>4. Len(routed) = 0
  BY <1>3, Lengths DEF RouteInv
<1>5. routed = <<>>
  BY <1>4, EmptySeq DEF TypeOK, HostTypeOK
<1> QED
  BY <1>2, <1>3, <1>5 DEF ReconnectInv

LEMMA ReconnectHostStep ==
  ASSUME TypeOK, LifeInv, NumberInv, RouteInv, ReconnectInv, HostNext,
         UNCHANGED linkVars
  PROVE  ReconnectInv'
<1>0. UNCHANGED <<log, resuming, writer>>
  BY DEF linkVars
<1>1. CASE HostAnnounce
  <2>1. got = 0
    BY <1>1 DEF HostAnnounce, RouteInv
  <2> QED
    BY <1>0, <1>1, <2>1 DEF HostAnnounce, history, ReconnectInv
<1>2. CASE HostInput \/ HostResize \/ HostSuspend \/ HostDisconnect
  BY <1>2, ReconnectRead
     DEF HostInput, HostResize, HostSuspend, HostDisconnect
<1>3. CASE HostReconnect
  BY <1>3, ReconnectIsRead
<1>4. CASE HostReconnectOk
  BY <1>0, <1>4 DEF HostReconnectOk, ReconnectInv
<1>5. CASE HostRoute
  <2>1. /\ hostPc = "route" /\ hostPc' = "read" /\ got > 0
        /\ UNCHANGED <<got, reoks>>
    BY <1>5 DEF HostRoute, RouteInv
  <2> QED
    BY <1>0, <2>1 DEF ReconnectInv, Serving
<1>6. CASE HostAck
  BY <1>0, <1>6 DEF HostAck, ReconnectInv, Serving
<1>7. CASE HostRouteFails \/ HostEof \/ HostFails \/ HostDropInput
           \/ HostAwaitCapture \/ HostCancelForwarder
  BY <1>0, <1>7
     DEF HostRouteFails, HostEof, HostFails, HostDropInput, HostAwaitCapture,
         HostCancelForwarder, history, ReconnectInv, Serving
<1>8. CASE BackendTakesInput \/ BackendReturns \/ SourceEnds
           \/ BackendCaptures \/ ForwardFrame \/ ForwarderEnds
  BY <1>0, <1>8
     DEF BackendTakesInput, BackendReturns, SourceEnds, BackendCaptures,
         ForwardFrame, ForwarderEnds, history, ReconnectInv, Serving
<1> QED
  BY <1>1, <1>2, <1>3, <1>4, <1>5, <1>6, <1>7, <1>8 DEF HostNext, HostTask

\* neither the host nor what the log begins with changes
LEMMA ReconnectKeeps ==
  ASSUME TypeOK, ReconnectInv, UNCHANGED hostVars, resuming' = resuming,
         LogGrows,
         \A n \in 1 .. Len(log') : log'[n] = "Reconnect" => n \in 1 .. Len(log),
         resuming /\ writer' # "none" => writer # "none"
  PROVE  ReconnectInv'
<1>1. UNCHANGED <<hostPc, got, reoks, routed>>
  BY DEF hostVars, history
<1>2. \A n \in 1 .. Len(log') : log'[n] = "Reconnect" => n = 1
  BY DEF ReconnectInv, LogGrows
<1>3. resuming' /\ writer' # "none" => Len(log') > 0 /\ log'[1] = "Reconnect"
  BY Lengths DEF ReconnectInv, LogGrows
<1> QED
  BY <1>1, <1>2, <1>3 DEF ReconnectInv, Serving

LEMMA ReconnectLinkStep ==
  ASSUME TypeOK, LifeInv, ReconnectInv, LinkNext, UNCHANGED hostVars
  PROVE  ReconnectInv'
<1>0. LogGrows /\ resuming' = resuming
  <2>1. resuming' = resuming
    BY DEF LinkNext, Connecting, Suspending, Writer, Reader, ReadAnnounce,
           WriteReconnect, ConnectFails, Send, Suspend, SendSuspend,
           SendSuspendFails, SuspendAcked, SuspendRefused, SuspendTimesOut,
           Finish, DropLink, WriterTakes, WriterWrites, WriterFails, WriterEnds,
           ReaderTakes, ReaderEnds
  <2> QED
    BY <2>1, LinkStepLog
<1>1. CASE WriteReconnect
  <2>1. /\ log = <<>> /\ log' = Append(log, "Reconnect")
        /\ linkPc = "reconnect"
        /\ UNCHANGED <<hostPc, got, reoks, routed>>
    BY <1>1 DEF WriteReconnect, LifeInv, hostVars, history
  <2>2. Len(log') = 1 /\ log'[1] = "Reconnect"
    BY <2>1, LogAppends, EmptySeq DEF ClientTypes
  <2> QED
    BY <1>0, <2>1, <2>2 DEF ReconnectInv, Serving
<1>2. ASSUME NEW type \in ClientTypes \ {"Reconnect"}, writer # "none",
             writer' = writer, Enqueue(type)
      PROVE  ReconnectInv'
  <2>1. /\ Len(log') = Len(log) + 1 /\ log'[Len(log) + 1] = type
    BY <1>2, LogAppends DEF Enqueue
  <2>2. \A n \in 1 .. Len(log') : log'[n] = "Reconnect" => n \in 1 .. Len(log)
    BY <2>1, Lengths
  <2> QED
    BY <1>0, <1>2, <2>2, ReconnectKeeps
<1>3. ASSUME NEW type \in Sends, Send(type) PROVE ReconnectInv'
  <2>1. type \in ClientTypes \ {"Reconnect"} /\ writer # "none"
    BY <1>3, LinkAssumption DEF Send, Linked, LifeInv, ClientTypes
  <2> QED
    BY <1>2, <1>3, <2>1 DEF Send
<1>4. CASE SendSuspend
  <2>1. writer # "none" /\ writer' = writer /\ Enqueue("Suspend")
    BY <1>4 DEF SendSuspend, LifeInv
  <2> QED
    BY <1>2, <2>1 DEF ClientTypes
<1>5. CASE \/ ReadAnnounce \/ ConnectFails \/ Suspend \/ SendSuspendFails
           \/ SuspendAcked \/ SuspendRefused \/ SuspendTimesOut \/ DropLink
           \/ Reader \/ Writer
  <2>1. log' = log
    BY <1>5
       DEF ReadAnnounce, ConnectFails, Suspend, SendSuspendFails, SuspendAcked,
           SuspendRefused, SuspendTimesOut, Finish, DropLink, Reader,
           ReaderTakes, ReaderEnds, Writer, WriterTakes, WriterWrites,
           WriterFails, WriterEnds
  <2>2. resuming /\ writer' # "none" => writer # "none"
    BY <1>5
       DEF ReadAnnounce, ConnectFails, Suspend, SendSuspendFails, SuspendAcked,
           SuspendRefused, SuspendTimesOut, Finish, DropLink, Reader,
           ReaderTakes, ReaderEnds, Writer, WriterTakes, WriterWrites,
           WriterFails, WriterEnds
  <2> QED
    BY <1>0, <2>1, <2>2, ReconnectKeeps
<1> QED
  BY <1>1, <1>3, <1>4, <1>5 DEF LinkNext, Connecting, Suspending

LEMMA ConnectionReconnects == Spec => []ReconnectInv
<1>1. Init => ReconnectInv
  BY EmptySeq DEF Init, HostInit, LinkInit, ReconnectInv, Serving
<1>2. TypeOK /\ LifeInv /\ NumberInv /\ RouteInv /\ ReconnectInv /\ [Next]_vars
        => ReconnectInv'
  <2> SUFFICES ASSUME TypeOK, LifeInv, NumberInv, RouteInv, ReconnectInv,
                      [Next]_vars
               PROVE  ReconnectInv'
    OBVIOUS
  <2>1. CASE HostNext /\ UNCHANGED linkVars
    BY <2>1, ReconnectHostStep
  <2>2. CASE LinkNext /\ UNCHANGED hostVars
    BY <2>2, ReconnectLinkStep
  <2>3. CASE ConnectionLost
    BY <2>3, LogUnchanged, ReconnectKeeps DEF ConnectionLost, linkVars
  <2>4. CASE UNCHANGED vars
    BY <2>4, LogUnchanged, ReconnectKeeps DEF vars, linkVars
  <2> QED
    BY <2>1, <2>2, <2>3, <2>4 DEF Next
<1> QED
  BY <1>1, <1>2, ConnectionTypeOK, ConnectionLife, ConnectionNumbers,
     ConnectionRoutes, PTL DEF Spec

(***************************************************************************)
(* Input is routed in the order it was sent, with no gap and no            *)
(* repetition, and on a resume not before Reconnect is answered, whatever  *)
(* the capacities and wherever the connection breaks.                      *)
(***************************************************************************)
THEOREM ConnectionInputInOrder == Spec => []InputInOrder
<1>1. ReconnectInv => ReconnectComesFirst
  BY DEF ReconnectInv, ReconnectComesFirst
<1> QED
  BY <1>1, ConnectionNoGaps, ConnectionReconnects, PTL DEF InputInOrder
-----------------------------------------------------------------------------
(***************************************************************************)
(* The connection implements LinkContract.                                 *)
(***************************************************************************)
LEMMA StatusOfLink ==
  ASSUME TypeOK
  PROVE  /\ linkPc \in {"announce", "reconnect"} => LinkStatus = "connecting"
         /\ linkPc = "live" => LinkStatus = "up"
         /\ linkPc \in {"sending", "waiting"} => LinkStatus = "suspending"
         /\ linkPc = "suspended" => LinkStatus = "resolved"
         /\ linkPc \in {"dropped", "failed"} => LinkStatus = "over"
BY DEF LinkStatus

\* what the contract does not see
LEMMA ContractStutters ==
  ASSUME UNCHANGED <<linkPc, acks, result>>
  PROVE  UNCHANGED Contract!contractVars
BY DEF Contract!contractVars, LinkStatus

LEMMA ContractHostStep ==
  ASSUME TypeOK, SuspendInv, HostNext, UNCHANGED linkVars
  PROVE  [Contract!ContractNext]_(Contract!contractVars)
<1>0. UNCHANGED <<linkPc, result>>
  BY DEF linkVars
<1>1. CASE HostAck
  <2>1. SuspendAt(got) /\ acks = 0 /\ acks' = 1
    BY <1>1 DEF HostAck, SuspendInv
  <2>2. linkPc \in {"waiting", "suspended", "dropped"}
    BY <2>1, LogDomain DEF SuspendInv, SuspendAt
  <2>3. LinkStatus \in {"suspending", "resolved", "over"}
    BY <2>2, StatusOfLink
  <2>4. LinkStatus' = LinkStatus
    BY <1>0 DEF LinkStatus
  <2>5. ~(acks > 0) /\ (acks > 0)' = TRUE
    BY <2>1
  <2> QED
    BY <1>0, <2>3, <2>4, <2>5 DEF Contract!ContractNext, Contract!Answers
<1>2. CASE ~HostAck
  <2>1. acks' = acks
    BY <1>2 DEF HostNext, HostTask, HostAnnounce, HostInput, HostResize,
                HostSuspend, HostReconnect, HostDisconnect, Receive, HostRoute,
                HostRouteFails, HostReconnectOk, HostEof, HostFails,
                HostDropInput, HostAwaitCapture, HostCancelForwarder,
                BackendTakesInput, BackendReturns, SourceEnds, BackendCaptures,
                ForwardFrame, ForwarderEnds, history
  <2> QED
    BY <1>0, <2>1, ContractStutters
<1> QED
  BY <1>1, <1>2

LEMMA ContractLinkStep ==
  ASSUME TypeOK, TypeOK', SuspendInv, LinkNext, UNCHANGED hostVars
  PROVE  [Contract!ContractNext]_(Contract!contractVars)
<1>0. acks' = acks
  BY DEF hostVars, history
<1>s. /\ linkPc' \in {"announce", "reconnect"} => LinkStatus' = "connecting"
      /\ linkPc' = "live" => LinkStatus' = "up"
      /\ linkPc' \in {"sending", "waiting"} => LinkStatus' = "suspending"
      /\ linkPc' = "suspended" => LinkStatus' = "resolved"
      /\ linkPc' \in {"dropped", "failed"} => LinkStatus' = "over"
  BY DEF LinkStatus
<1> USE DEF Contract!ContractNext, Contract!contractVars
<1>1. CASE ReadAnnounce
  BY <1>0, <1>1, <1>s, StatusOfLink
     DEF ReadAnnounce, Contract!ComesUp, Contract!FailsToConnect
<1>2. CASE WriteReconnect
  BY <1>0, <1>2, <1>s, StatusOfLink DEF WriteReconnect, Contract!ComesUp
<1>3. CASE ConnectFails
  BY <1>0, <1>3, <1>s, StatusOfLink DEF ConnectFails, Contract!FailsToConnect
<1>4. CASE Suspend
  BY <1>0, <1>4, <1>s, StatusOfLink DEF Suspend, Contract!CallsSuspend
<1>5. CASE SendSuspend
  BY <1>0, <1>5, <1>s, StatusOfLink DEF SendSuspend
<1>6. CASE SendSuspendFails \/ SuspendRefused \/ SuspendTimesOut
  BY <1>0, <1>6, <1>s, StatusOfLink
     DEF SendSuspendFails, SuspendRefused, SuspendTimesOut, Finish,
         Contract!ResolvesFalse
<1>7. CASE SuspendAcked
  <2>1. acks > 0
    BY <1>7 DEF SuspendAcked, SuspendInv
  <2> QED
    BY <1>0, <1>7, <1>s, <2>1, StatusOfLink
       DEF SuspendAcked, Finish, Contract!ResolvesTrue
<1>8. CASE DropLink
  BY <1>0, <1>8, <1>s, StatusOfLink DEF DropLink, Contract!IsDropped
<1>9. CASE (\E type \in Sends : Send(type)) \/ Writer \/ Reader
  <2>1. UNCHANGED <<linkPc, result>>
    BY <1>9 DEF Send, Writer, Reader, WriterTakes, WriterWrites, WriterFails,
                WriterEnds, ReaderTakes, ReaderEnds
  <2> QED
    BY <1>0, <2>1, ContractStutters
<1> QED
  BY <1>1, <1>2, <1>3, <1>4, <1>5, <1>6, <1>7, <1>8, <1>9
     DEF LinkNext, Connecting, Suspending

(***************************************************************************)
(* The connection, with every queue, task and loss, is a link as the       *)
(* compositor relies on it.                                                *)
(***************************************************************************)
THEOREM ConnectionKeepsLinkContract == Spec => KeepsLinkContract
<1>1. Init => Contract!ContractInit
  BY DEF Init, HostInit, LinkInit, Contract!ContractInit, LinkStatus
<1>2. TypeOK /\ TypeOK' /\ SuspendInv /\ [Next]_vars
        => [Contract!ContractNext]_(Contract!contractVars)
  <2> SUFFICES ASSUME TypeOK, TypeOK', SuspendInv, [Next]_vars
               PROVE  [Contract!ContractNext]_(Contract!contractVars)
    OBVIOUS
  <2>1. CASE HostNext /\ UNCHANGED linkVars
    BY <2>1, ContractHostStep
  <2>2. CASE LinkNext /\ UNCHANGED hostVars
    BY <2>2, ContractLinkStep
  <2>3. CASE ConnectionLost \/ UNCHANGED vars
    BY <2>3, ContractStutters
       DEF ConnectionLost, vars, hostVars, linkVars, history
  <2> QED
    BY <2>1, <2>2, <2>3 DEF Next
<1> QED
  BY <1>1, <1>2, ConnectionTypeOK, ConnectionSuspends, PTL
     DEF Spec, KeepsLinkContract, Contract!ContractSpec

(***************************************************************************)
(* Content takes the steps of Connection, so what is proved of Connection  *)
(* holds here.                                                             *)
(***************************************************************************)
LEMMA ContentStep == [ContentNext]_allVars => [Next]_vars
BY DEF ContentNext, ContentHost, ContentLink, ContentLost, LoseDatagram,
       PlaceSurface, PumpReads, PumpSends, PumpEnds, NoteFrame, Next, allVars

LEMMA ContentTypes == ContentSpec => []TypeOK
<1>1. ContentSpec => Spec
  BY ContentStep, PTL DEF ContentSpec, Spec
<1> QED
  BY <1>1, ConnectionTypeOK, PTL

(***************************************************************************)
(* What a step of the host does to the frame channel and the frame task.   *)
(***************************************************************************)
ForwarderInv ==
  /\ forwarder # "running" => frameQ = 0
  /\ forwarder = "none" => capture = "none"
  /\ forwarder = "stopped" => conn = "lost" \/ capture = "returned"

Captures == frameQ' = frameQ + 1 /\ forwarder' = "running"
Forwards == frameQ > 0 /\ frameQ' = frameQ - 1 /\ forwarder' = "running"
Stops == frameQ' = 0 /\ forwarder' = "stopped"
Rests == frameQ' = frameQ /\ forwarder' # "stopped"

LEMMA HostFrames ==
  ASSUME TypeOK, ForwarderInv, HostNext
  PROVE  /\ ForwarderInv'
         /\ Captures \/ Forwards \/ Stops \/ Rests
<1>1. frameQ \in Nat /\ forwarder \in {"none", "running", "stopped"}
      /\ conn \in {"up", "lost"} /\ capture \in {"none", "running", "returned"}
  BY HostAssumption DEF TypeOK, HostTypeOK, StreamTypeOK
<1> USE DEF ForwarderInv, Captures, Forwards, Stops, Rests, pipes, streamVars
<1>2. CASE HostAnnounce
  BY <1>1, <1>2 DEF HostAnnounce, WriteToClient
<1>3. ASSUME NEW type, NEW pc, Receive(type, pc)
      PROVE  ForwarderInv' /\ (Captures \/ Forwards \/ Stops \/ Rests)
  BY <1>1, <1>3 DEF Receive, ReadFromClient
<1>4. CASE HostInput \/ HostResize \/ HostSuspend \/ HostReconnect \/ HostDisconnect
  BY <1>3, <1>4, Zenon DEF HostInput, HostResize, HostSuspend, HostReconnect, HostDisconnect
<1>5. CASE HostRoute \/ HostRouteFails \/ HostEof \/ HostDropInput \/ HostAwaitCapture
  BY <1>1, <1>5 DEF HostRoute, HostRouteFails, HostEof, HostDropInput, HostAwaitCapture
<1>6. CASE HostAck \/ HostReconnectOk
  BY <1>1, <1>6 DEF HostAck, HostReconnectOk, WriteToClient
<1>7. CASE HostFails
  BY <1>1, <1>7 DEF HostFails
<1>8. CASE HostCancelForwarder
  BY <1>1, <1>8 DEF HostCancelForwarder, ClosedByHost
<1>9. CASE BackendTakesInput \/ BackendReturns \/ SourceEnds
  BY <1>1, <1>9 DEF BackendTakesInput, BackendReturns, SourceEnds
<1>10. CASE BackendCaptures \/ ForwardFrame \/ ForwarderEnds
  BY <1>1, <1>10 DEF BackendCaptures, ForwardFrame, ForwarderEnds
<1> QED
  BY <1>2, <1>4, <1>5, <1>6, <1>7, <1>8, <1>9, <1>10 DEF HostNext, HostTask

\* and a step of the link
Past == {"sending", "waiting", "suspended", "dropped"}

LEMMA LinkMoves ==
  ASSUME LinkNext
  PROVE  /\ conn = "lost" => conn' = "lost"
         /\ linkPc' \in Past => linkPc \in Past \/ linkPc = "live"
<1> USE DEF Past, streamVars
<1>1. CASE Connecting
  BY <1>1 DEF Connecting, ReadAnnounce, WriteReconnect, ConnectFails, ReadFromHost,
              ClosedByClient, WriteToHost
<1>2. CASE Writer
  BY <1>2 DEF Writer, WriterTakes, WriterWrites, WriterFails, WriterEnds, WriteToHost
<1>3. CASE Reader
  BY <1>3 DEF Reader, ReaderTakes, ReaderEnds, ReadFromHost
<1>4. CASE Suspending
  BY <1>4 DEF Suspending, SendSuspend, SendSuspendFails, SuspendAcked, SuspendRefused,
              SuspendTimesOut, Finish
<1>5. CASE Suspend \/ DropLink \/ \E type \in Sends : Send(type)
  BY <1>5 DEF Suspend, DropLink, Send
<1> QED
  BY <1>1, <1>2, <1>3, <1>4, <1>5 DEF LinkNext
-----------------------------------------------------------------------------
(***************************************************************************)
(* WayInv: what a suspended surface needs is not given up while the        *)
(* connection is there, and the surface has been placed before anything    *)
(* can be suspended.                                                       *)
(***************************************************************************)
WayInv ==
  /\ ForwarderInv
  /\ pump = "ended" => conn = "lost"
  /\ linkPc \in Past => placed

LEMMA AppendedFinds ==
  ASSUME NEW R, NEW s \in Seq(R), NEW r, r \in R
  PROVE  /\ Append(s, r) \in Seq(R)
         /\ Len(Append(s, r)) = Len(s) + 1 /\ Len(s) \in Nat
         /\ DOMAIN s = 1 .. Len(s) /\ DOMAIN Append(s, r) = 1 .. Len(s) + 1
         /\ \A i \in 1 .. Len(s) : Append(s, r)[i] = s[i]
         /\ Append(s, r)[Len(s) + 1] = r
BY AppendProperties, LenProperties

StripSurface == [id : {"own", "other"}, order : Nat, width : Int, frames : Nat]

Newcomer(s, id) == [id |-> id, order |-> Len(s), width |-> 1, frames |-> 0]

LEMMA AppendedIs ==
  ASSUME NEW s \in Seq(StripSurface), NEW id \in {"own", "other"}
  PROVE  /\ Appended(s, Viewport, id, 0) = Append(s, Newcomer(s, id))
         /\ Newcomer(s, id) \in StripSurface
<1>1. Len(s) \in Nat
  BY LenProperties
<1>2. DefaultSurfaceWidth(Viewport) = 1
  BY DEF DefaultSurfaceWidth, Viewport
<1> QED
  BY <1>1, <1>2 DEF Appended, Newcomer, StripSurface

\* the surface that counts
LEMMA FirstIs ==
  ASSUME NEW s, NEW id, DOMAIN s \subseteq Nat, NEW p \in Positions(s, id),
         \A j \in Positions(s, id) : p <= j
  PROVE  First(s, id) = p
<1>1. Positions(s, id) \subseteq Nat
  BY DEF Positions
<1>2. \A q \in Positions(s, id) : (\A j \in Positions(s, id) : q <= j) => q = p
  <2> SUFFICES ASSUME NEW q \in Positions(s, id), q <= p PROVE q = p
    OBVIOUS
  <2> QED
    BY <1>1
<1> QED
  BY <1>2 DEF First

\* of any naturals there is a least one
Precedes == {pair \in Nat \X Nat : pair[1] < pair[2]}

LEMMA LeastNat ==
  ASSUME NEW T, T \subseteq Nat, T # {}
  PROVE  \E x \in T : \A y \in T : x <= y
<1>1. IsWellFoundedOn(Precedes, Nat)
  BY NatLessThanWellFounded DEF OpToRel, Precedes
<1>2. PICK x \in T : \A y \in T : ~(<<y, x>> \in Precedes)
  BY <1>1, WFMin
<1>3. \A y \in T : ~(y < x)
  BY <1>2 DEF Precedes
<1> QED
  BY <1>3

LEMMA FirstLeast ==
  ASSUME NEW s, NEW id, Len(s) \in Nat, DOMAIN s = 1 .. Len(s), OnStrip(s, id)
  PROVE  /\ First(s, id) \in Positions(s, id)
         /\ \A j \in Positions(s, id) : First(s, id) <= j
<1>1. Positions(s, id) \subseteq Nat /\ Positions(s, id) # {}
  BY DEF Positions, OnStrip
<1>2. \E p \in Positions(s, id) : \A j \in Positions(s, id) : p <= j
  BY <1>1, LeastNat
<1> QED
  BY <1>2 DEF First

\* what the strip shows, when k frames were noted
Shows(s, k) ==
  \A i \in DOMAIN s :
    s[i].frames = IF i \in Positions(s, "own") /\ i = First(s, "own") THEN k ELSE 0

LEMMA OneMore ==
  ASSUME NEW c \in StripSurface
  PROVE  LET r == [c EXCEPT !.frames = @ + 1]
         IN  r \in StripSurface /\ r.id = c.id /\ r.frames = c.frames + 1
BY DEF StripSurface

LEMMA FrameNotedFacts ==
  ASSUME NEW s \in Seq(StripSurface), NEW k \in Nat, Shows(s, k), OnStrip(s, "own")
  PROVE  /\ FrameNoted(s, "own") \in Seq(StripSurface)
         /\ Shows(FrameNoted(s, "own"), k + 1)
         /\ OnStrip(FrameNoted(s, "own"), "own")
<1> DEFINE p == First(s, "own")
           t == FrameNoted(s, "own")
<1>1. Len(s) \in Nat /\ DOMAIN s = 1 .. Len(s)
  BY LenProperties
<1>2. p \in Positions(s, "own") /\ \A j \in Positions(s, "own") : p <= j
  BY <1>1, FirstLeast
<1>3. p \in 1 .. Len(s) /\ s[p].id = "own" /\ s[p].frames = k /\ s[p] \in StripSurface
  <2>1. p \in 1 .. Len(s) /\ s[p].id = "own"
    BY <1>1, <1>2 DEF Positions
  <2> QED
    BY <1>1, <1>2, <2>1, ElementOfSeq DEF Shows
<1> DEFINE r == [s[p] EXCEPT !.frames = @ + 1]
<1>4. r \in StripSurface /\ r.id = "own" /\ r.frames = k + 1
  <2> HIDE DEF p
  <2>1. r \in StripSurface /\ r.id = s[p].id /\ r.frames = s[p].frames + 1
    BY <1>3, OneMore
  <2> QED
    BY <1>3, <2>1
<1>5. t = [s EXCEPT ![p] = r]
  BY DEF FrameNoted
<1> HIDE DEF r, p, t
<1>6. t \in Seq(StripSurface)
  BY <1>3, <1>4, <1>5, ExceptSeq
<1>7. DOMAIN t = DOMAIN s /\ t[p] = r /\ \A i \in DOMAIN s : i # p => t[i] = s[i]
  BY <1>1, <1>3, <1>5
<1>8. \A i \in DOMAIN s : t[i].id = s[i].id
  BY <1>3, <1>4, <1>7
<1>9. Positions(t, "own") = Positions(s, "own")
  BY <1>7, <1>8 DEF Positions
<1>10. First(t, "own") = p
  BY <1>1, <1>2, <1>7, <1>9, FirstIs
<1>11. Shows(t, k + 1)
  <2> SUFFICES ASSUME NEW i \in DOMAIN s
               PROVE  t[i].frames = IF i \in Positions(s, "own") /\ i = p THEN k + 1 ELSE 0
    BY <1>7, <1>9, <1>10 DEF Shows
  <2>1. CASE i = p
    BY <1>2, <1>4, <1>7, <2>1
  <2>2. CASE i # p
    BY <1>7, <2>2 DEF Shows, p
  <2> QED
    BY <2>1, <2>2
<1>12. OnStrip(t, "own")
  BY <1>1, <1>3, <1>7, <1>8 DEF OnStrip
<1> QED
  BY <1>6, <1>11, <1>12 DEF t

LEMMA AppendedFacts ==
  ASSUME NEW s \in Seq(StripSurface), NEW k \in Nat, Shows(s, k),
         k # 0 => OnStrip(s, "own"), NEW id \in {"own", "other"}
  PROVE  /\ Appended(s, Viewport, id, 0) \in Seq(StripSurface)
         /\ Shows(Appended(s, Viewport, id, 0), k)
         /\ OnStrip(s, "own") \/ id = "own" => OnStrip(Appended(s, Viewport, id, 0), "own")
<1> DEFINE t == Appended(s, Viewport, id, 0)
           n == Len(s) + 1
<1>1. /\ t \in Seq(StripSurface) /\ Len(s) \in Nat
      /\ DOMAIN s = 1 .. Len(s) /\ DOMAIN t = 1 .. Len(s) + 1
      /\ \A i \in 1 .. Len(s) : t[i] = s[i]
      /\ t[n] = Newcomer(s, id) /\ Newcomer(s, id) \in StripSurface
  <2> DEFINE c == Newcomer(s, id)
  <2>1. t = Append(s, c) /\ c \in StripSurface
    BY AppendedIs
  <2> HIDE DEF t, c
  <2>2. /\ Append(s, c) \in Seq(StripSurface) /\ Len(s) \in Nat
        /\ DOMAIN s = 1 .. Len(s) /\ DOMAIN Append(s, c) = 1 .. Len(s) + 1
        /\ \A i \in 1 .. Len(s) : Append(s, c)[i] = s[i]
        /\ Append(s, c)[Len(s) + 1] = c
    BY <2>1, AppendedFinds
  <2> QED
    BY <2>1, <2>2 DEF c
<1>2. t[n].id = id /\ t[n].frames = 0
  BY <1>1 DEF Newcomer
<1> HIDE DEF t
<1>3. /\ \A i \in 1 .. Len(s) : i \in Positions(t, "own") <=> i \in Positions(s, "own")
      /\ n \in Positions(t, "own") <=> id = "own"
      /\ Positions(t, "own") \subseteq 1 .. n /\ Positions(s, "own") \subseteq 1 .. Len(s)
  BY <1>1, <1>2 DEF Positions
<1>4. CASE OnStrip(s, "own")
  <2>1. First(s, "own") \in Positions(s, "own")
        /\ \A j \in Positions(s, "own") : First(s, "own") <= j
    BY <1>1, <1>4, FirstLeast
  <2> DEFINE p == First(s, "own")
  <2>2. p \in Positions(t, "own") /\ p \in 1 .. Len(s)
    BY <1>3, <2>1
  <2>3. \A j \in Positions(t, "own") : p <= j
    BY <1>1, <1>3, <2>1, <2>2
  <2>4. First(t, "own") = p
    BY <1>1, <2>2, <2>3, FirstIs
  <2> HIDE DEF p
  <2>5. Shows(t, k)
    <3> SUFFICES ASSUME NEW i \in 1 .. n
                 PROVE  t[i].frames = IF i \in Positions(t, "own") /\ i = p THEN k ELSE 0
      BY <1>1, <2>4 DEF Shows
    <3>1. CASE i = n
      BY <1>1, <1>2, <2>2, <3>1
    <3>2. CASE i \in 1 .. Len(s)
      BY <1>1, <1>3, <3>2 DEF Shows, p
    <3> QED
      BY <1>1, <3>1, <3>2
  <2>6. OnStrip(t, "own")
    BY <1>1, <2>2 DEF OnStrip, Positions
  <2> QED
    BY <1>1, <2>5, <2>6 DEF t
<1>5. CASE ~OnStrip(s, "own")
  <2>1. k = 0 /\ \A i \in 1 .. Len(s) : i \notin Positions(s, "own")
    BY <1>1, <1>5 DEF OnStrip, Positions
  <2>2. Shows(t, k)
    <3> SUFFICES ASSUME NEW i \in 1 .. n PROVE t[i].frames = 0
      BY <1>1, <2>1 DEF Shows
    <3>1. CASE i = n
      BY <1>2, <3>1
    <3>2. CASE i \in 1 .. Len(s)
      BY <1>1, <2>1, <3>2 DEF Shows
    <3> QED
      BY <1>1, <3>1, <3>2
  <2>3. id = "own" => OnStrip(t, "own")
    BY <1>1, <1>2 DEF OnStrip
  <2> QED
    BY <1>1, <1>5, <2>2, <2>3 DEF t
<1> QED
  BY <1>4, <1>5

-----------------------------------------------------------------------------
LEMMA ConnectionStaysLost ==
  ASSUME HostNext, conn = "lost"
  PROVE  conn' = "lost"
BY DEF HostNext, HostTask, HostAnnounce, WriteToClient, HostInput, HostResize,
       HostSuspend, HostReconnect, HostDisconnect, Receive, ReadFromClient, HostRoute,
       HostRouteFails, HostAck, HostReconnectOk, HostEof, HostFails, HostDropInput,
       HostAwaitCapture, HostCancelForwarder, ClosedByHost, BackendTakesInput,
       BackendReturns, SourceEnds, BackendCaptures, ForwardFrame, ForwarderEnds,
       streamVars

LEMMA InitialStrip ==
  ASSUME ContentInit
  PROVE  strip \in Seq(StripSurface) /\ Shows(strip, 0)
<1>1. PICK id \in {"own", "other"} : strip = Appended(<<>>, Viewport, id, 0)
  BY DEF ContentInit, SurfaceFor, Announced
<1>2. <<>> \in Seq(StripSurface) /\ Shows(<<>>, 0)
  BY EmptySeq DEF Shows
<1> QED
  BY <1>1, <1>2, AppendedFacts

LEMMA WayStarts == Init /\ ContentInit => WayInv
BY DEF Init, StreamInit, HostInit, LinkInit, ContentInit, WayInv, ForwarderInv, Past

LEMMA WayStep ==
  ASSUME TypeOK, WayInv, [ContentNext]_allVars
  PROVE  WayInv'
<1> USE DEF WayInv
<1>1. ASSUME UNCHANGED vars, pump' = pump \/ conn = "lost", placed => placed'
      PROVE  WayInv'
  BY <1>1 DEF vars, streamVars, hostVars, pipes, linkVars, ForwarderInv
<1>2. CASE ContentHost
  <2>1. ForwarderInv' /\ (conn = "lost" => conn' = "lost")
    BY <1>2, HostFrames, ConnectionStaysLost DEF ContentHost
  <2> QED
    BY <1>2, <2>1 DEF ContentHost, linkVars
<1>3. CASE ContentLink
  <2>1. /\ conn = "lost" => conn' = "lost"
        /\ linkPc' \in Past => linkPc \in Past \/ linkPc = "live"
    BY <1>3, LinkMoves DEF ContentLink
  <2>2. linkPc' = "live" => linkPc' \notin Past
    BY DEF Past
  <2>3. UNCHANGED <<capture, frameQ, forwarder, pump, placed>>
    BY <1>3 DEF ContentLink, hostVars, pipes, contentVars
  <2> QED
    BY <1>3, <2>1, <2>2, <2>3 DEF ContentLink, MainPlaces, ForwarderInv
<1>4. CASE ContentLost
  BY <1>4 DEF ContentLost, ConnectionLost, Lose, hostVars, pipes, linkVars,
              contentVars, ForwarderInv
<1>5. CASE LoseDatagram \/ PlaceSurface \/ PumpEnds \/ NoteFrame
  BY <1>1, <1>5 DEF LoseDatagram, PlaceSurface, PumpEnds, NoteFrame
<1>6. CASE PumpReads \/ PumpSends
  BY <1>6 DEF PumpReads, PumpSends, vars, streamVars, hostVars, pipes, linkVars,
              ForwarderInv
<1>7. CASE UNCHANGED allVars
  BY <1>1, <1>7 DEF allVars, contentVars
<1> QED
  BY <1>2, <1>3, <1>4, <1>5, <1>6, <1>7 DEF ContentNext
-----------------------------------------------------------------------------
(***************************************************************************)
(* StripInv: the surface that counts is on the strip once it is placed, or *)
(* has counted anything, and shows just what was counted.                  *)
(***************************************************************************)
StripInv ==
  /\ strip \in Seq(StripSurface)
  /\ Shows(strip, Cardinality(counted))
  /\ placed \/ counted # {} => OnStrip(strip, "own")

LEMMA StripStarts == Init /\ ContentInit => StripInv
<1> SUFFICES ASSUME Init, ContentInit PROVE StripInv
  OBVIOUS
<1>1. counted = {} /\ ~placed
  BY DEF ContentInit
<1>2. Cardinality(counted) = 0
  BY <1>1, FS_EmptySet
<1> QED
  BY <1>1, <1>2, InitialStrip DEF StripInv

LEMMA StripStep ==
  ASSUME StripInv, [ContentNext]_allVars, IsFiniteSet(counted),
         events # <<>> => Head(events) \notin counted
  PROVE  StripInv'
<1> USE DEF StripInv
<1>1. Cardinality(counted) \in Nat /\ (Cardinality(counted) # 0 => counted # {})
  BY FS_CardinalityType, FS_EmptySet
<1>2. ASSUME UNCHANGED <<strip, placed, counted>>
      PROVE  StripInv'
  BY <1>2 DEF Shows, OnStrip
<1>3. CASE PlaceSurface
  <2>1. /\ Appended(strip, Viewport, "own", 0) \in Seq(StripSurface)
        /\ Shows(Appended(strip, Viewport, "own", 0), Cardinality(counted))
        /\ OnStrip(Appended(strip, Viewport, "own", 0), "own")
    BY <1>1, AppendedFacts
  <2>2. counted' = counted /\ strip' = Appended(strip, Viewport, "own", 0)
    BY <1>3 DEF PlaceSurface, historyOfFrames
  <2>3. Cardinality(counted') = Cardinality(counted)
    BY <2>2
  <2> QED
    BY <2>1, <2>2, <2>3 DEF Shows, OnStrip
<1>4. CASE NoteFrame /\ OnStrip(strip, "own")
  <2>1. /\ strip' = FrameNoted(strip, "own")
        /\ counted' = counted \cup {Head(events)} /\ Head(events) \notin counted
        /\ placed' = placed
    BY <1>4 DEF NoteFrame
  <2>2. Cardinality(counted') = Cardinality(counted) + 1
    BY <2>1, FS_AddElement
  <2>3. /\ FrameNoted(strip, "own") \in Seq(StripSurface)
        /\ Shows(FrameNoted(strip, "own"), Cardinality(counted) + 1)
        /\ OnStrip(FrameNoted(strip, "own"), "own")
    BY <1>1, <1>4, FrameNotedFacts
  <2> QED
    BY <2>1, <2>2, <2>3 DEF Shows, OnStrip
<1>5. CASE NoteFrame /\ ~OnStrip(strip, "own")
  BY <1>2, <1>5 DEF NoteFrame, FrameNoted
<1>6. CASE ContentHost \/ ContentLink \/ ContentLost \/ LoseDatagram \/ PumpReads
           \/ PumpSends \/ PumpEnds
  BY <1>2, <1>6 DEF ContentHost, ContentLink, ContentLost, LoseDatagram, PumpReads,
                    PumpSends, PumpEnds, contentVars, historyOfFrames
<1>7. CASE UNCHANGED allVars
  BY <1>2, <1>7 DEF allVars, contentVars, historyOfFrames
<1> QED
  BY <1>3, <1>4, <1>5, <1>6, <1>7 DEF ContentNext
-----------------------------------------------------------------------------
(***************************************************************************)
(* A frame is in one of seven places, and moves from one to the next.      *)
(***************************************************************************)
Split(q, f, h, e, c, m, d, all) ==
  /\ q \cup f \cup h \cup e \cup c \cup m \cup d = all
  /\ q \cap (f \cup h \cup e \cup c \cup m \cup d) = {}
  /\ f \cap (h \cup e \cup c \cup m \cup d) = {}
  /\ h \cap (e \cup c \cup m \cup d) = {}
  /\ e \cap (c \cup m \cup d) = {}
  /\ c \cap (m \cup d) = {}
  /\ m \cap d = {}

LEMMA Moves ==
  ASSUME NEW q, NEW f, NEW h, NEW e, NEW c, NEW m, NEW d, NEW all,
         Split(q, f, h, e, c, m, d, all), NEW n
  PROVE  /\ n \notin all => Split(q \cup {n}, f, h, e, c, m, d, all \cup {n})
         /\ n \in q => Split(q \ {n}, f \cup {n}, h, e, c, m, d, all)
         /\ n \in q => Split(q \ {n}, f, h, e, c, m, d \cup {n}, all)
         /\ Split({}, f, h, e, c, m, d \cup q, all)
         /\ n \in f => Split(q, f \ {n}, h, e, c, m, d \cup {n}, all)
         /\ h = {} /\ n \in f => Split(q, f \ {n}, {n}, e, c, m, d, all)
         /\ h = {n} => Split(q, f, {}, e \cup {n}, c, m, d, all)
         /\ n \in e => Split(q, f, h, e \ {n}, c \cup {n}, m, d, all)
         /\ n \in e => Split(q, f, h, e \ {n}, c, m \cup {n}, d, all)
BY SMTT(30) DEF Split

Elements(q) == {q[i] : i \in DOMAIN q}

Distinct(q) == \A i, j \in DOMAIN q : q[i] = q[j] => i = j

LEMMA EventSent ==
  ASSUME NEW q \in Seq(Nat), NEW n \in Nat, Distinct(q), n \notin Elements(q)
  PROVE  /\ Append(q, n) \in Seq(Nat) /\ Len(Append(q, n)) = Len(q) + 1
         /\ Distinct(Append(q, n))
         /\ Elements(Append(q, n)) = Elements(q) \cup {n}
<1> DEFINE t == Append(q, n)
<1>1. /\ t \in Seq(Nat) /\ Len(t) = Len(q) + 1 /\ Len(q) \in Nat
      /\ DOMAIN q = 1 .. Len(q) /\ DOMAIN t = 1 .. Len(q) + 1
      /\ \A i \in 1 .. Len(q) : t[i] = q[i]
      /\ t[Len(q) + 1] = n
  BY AppendedFinds
<1> HIDE DEF t
<1>2. \A i \in 1 .. Len(q) + 1 : i \in 1 .. Len(q) \/ i = Len(q) + 1
  BY <1>1
<1>3. \A i \in 1 .. Len(q) : t[i] # n
  BY <1>1 DEF Elements
<1>4. Distinct(t)
  <2> SUFFICES ASSUME NEW i \in 1 .. Len(q) + 1, NEW j \in 1 .. Len(q) + 1, t[i] = t[j]
               PROVE  i = j
    BY <1>1 DEF Distinct
  <2>1. CASE i \in 1 .. Len(q) /\ j \in 1 .. Len(q)
    BY <1>1, <2>1 DEF Distinct
  <2>2. CASE i = Len(q) + 1 \/ j = Len(q) + 1
    BY <1>1, <1>2, <1>3, <2>2
  <2> QED
    BY <1>2, <2>1, <2>2
<1>5. Elements(t) = Elements(q) \cup {n}
  <2>1. Elements(t) \subseteq Elements(q) \cup {n}
    BY <1>1, <1>2 DEF Elements
  <2>2. Len(q) + 1 \in DOMAIN t /\ \A i \in 1 .. Len(q) : i \in DOMAIN t
    BY <1>1
  <2>3. Elements(q) \cup {n} \subseteq Elements(t)
    BY <1>1, <2>2 DEF Elements
  <2> QED
    BY <2>1, <2>3
<1> QED
  BY <1>1, <1>4, <1>5 DEF t

LEMMA EventTaken ==
  ASSUME NEW q \in Seq(Nat), Distinct(q), q # <<>>
  PROVE  /\ Tail(q) \in Seq(Nat) /\ Len(Tail(q)) = Len(q) - 1
         /\ Distinct(Tail(q))
         /\ Head(q) \in Elements(q) /\ Head(q) \in Nat
         /\ Elements(Tail(q)) = Elements(q) \ {Head(q)}
<1> DEFINE t == Tail(q)
<1>1. /\ t \in Seq(Nat) /\ Len(t) = Len(q) - 1 /\ Len(q) \in Nat /\ Len(q) > 0
      /\ \A i \in 1 .. Len(q) - 1 : t[i] = q[i + 1]
      /\ Head(q) = q[1]
  BY QueueShift, HeadTailProperties
<1>2. DOMAIN q = 1 .. Len(q) /\ DOMAIN t = 1 .. Len(q) - 1
  BY <1>1, LenProperties
<1>3. 1 \in 1 .. Len(q) /\ \A i \in 1 .. Len(q) - 1 : i + 1 \in 1 .. Len(q) /\ i + 1 # 1
  BY <1>1
<1>4. q[1] \in Nat
  BY <1>1, <1>3, ElementOfSeq
<1> HIDE DEF t
<1>5. Distinct(t)
  <2> SUFFICES ASSUME NEW i \in 1 .. Len(q) - 1, NEW j \in 1 .. Len(q) - 1, t[i] = t[j]
               PROVE  i = j
    BY <1>2 DEF Distinct
  <2>1. q[i + 1] = q[j + 1]
    BY <1>1
  <2>2. i + 1 = j + 1
    BY <1>2, <1>3, <2>1 DEF Distinct
  <2> QED
    BY <1>1, <2>2
<1>6. Elements(t) \subseteq Elements(q) \ {q[1]}
  <2> SUFFICES ASSUME NEW i \in 1 .. Len(q) - 1 PROVE t[i] \in Elements(q) /\ t[i] # q[1]
    BY <1>2 DEF Elements
  <2>1. t[i] = q[i + 1] /\ i + 1 \in DOMAIN q /\ 1 \in DOMAIN q /\ i + 1 # 1
    BY <1>1, <1>2, <1>3
  <2>2. q[i + 1] # q[1]
    BY <2>1 DEF Distinct
  <2>3. q[i + 1] \in Elements(q)
    BY <2>1 DEF Elements
  <2> QED
    BY <2>1, <2>2, <2>3
<1>7. Elements(q) \ {q[1]} \subseteq Elements(t)
  <2> SUFFICES ASSUME NEW j \in 1 .. Len(q), j # 1 PROVE q[j] \in Elements(t)
    BY <1>2 DEF Elements
  <2>1. j - 1 \in 1 .. Len(q) - 1 /\ (j - 1) + 1 = j
    BY <1>1
  <2> QED
    BY <1>1, <1>2, <2>1 DEF Elements
<1> QED
  BY <1>1, <1>2, <1>3, <1>4, <1>5, <1>6, <1>7 DEF t, Elements

(***************************************************************************)
(* FrameInv: the frames are split between their places, the pump has one   *)
(* in its hands just when it is sending, and the channel of events repeats *)
(* none, which is what makes taking its head remove that frame from it.    *)
(***************************************************************************)
FramesSplit ==
  Split(Queued, flight, held, InEvents, counted, missed, dropped, 1 .. captured)

PumpInv ==
  /\ pump \in {"reading", "sending", "ended"}
  /\ pump = "sending" <=> held # {}
  /\ held # {} => \E n : held = {n}

EventsInv ==
  /\ events \in Seq(Nat)
  /\ Len(events) <= EventCap
  /\ Distinct(events)

FrameInv ==
  /\ captured \in 0 .. MaxFrames /\ frameQ <= captured
  /\ FramesSplit
  /\ PumpInv
  /\ EventsInv

LEMMA FramesStart == Init /\ ContentInit => FrameInv
<1> SUFFICES ASSUME Init, ContentInit PROVE FrameInv
  OBVIOUS
<1>1. /\ captured = 0 /\ frameQ = 0 /\ flight = {} /\ held = {} /\ events = <<>>
      /\ counted = {} /\ missed = {} /\ dropped = {} /\ pump = "reading"
  BY DEF Init, HostInit, ContentInit
<1>2. InEvents = {} /\ EventsInv
  BY <1>1, EmptySeq, ContentAssumption DEF InEvents, EventsInv, Distinct
<1>3. Queued = {} /\ 1 .. captured = {}
  BY <1>1 DEF Queued
<1> QED
  BY <1>1, <1>2, <1>3, ContentAssumption DEF FrameInv, FramesSplit, Split, PumpInv

\* what the frames' places depend on
frameVars == <<captured, frameQ, flight, pump, held, events, counted, missed, dropped>>

LEMMA FramesRest ==
  ASSUME FrameInv, UNCHANGED frameVars
  PROVE  FrameInv'
BY DEF frameVars, FrameInv, FramesSplit, PumpInv, EventsInv, Queued, InEvents

LEMMA QueueOfFrames ==
  ASSUME NEW c \in Nat, NEW q \in Nat, q <= c
  PROVE  /\ c + 1 \notin 1 .. c
         /\ 1 .. c + 1 = (1 .. c) \cup {c + 1}
         /\ (c + 1) - (q + 1) + 1 .. c + 1 = (c - q + 1 .. c) \cup {c + 1}
         /\ q > 0 => /\ c - q + 1 \in c - q + 1 .. c
                     /\ c - (q - 1) + 1 .. c = (c - q + 1 .. c) \ {c - q + 1}
         /\ c - 0 + 1 .. c = {}
OBVIOUS

LEMMA FramesHost ==
  ASSUME TypeOK, ForwarderInv, FrameInv, ContentHost
  PROVE  FrameInv'
<1>1. captured \in Nat /\ frameQ \in Nat /\ frameQ <= captured /\ MaxFrames \in Nat
      /\ captured <= MaxFrames
  BY HostAssumption, ContentAssumption DEF FrameInv, TypeOK, HostTypeOK
<1>2. /\ UNCHANGED <<pump, held, events, counted, missed>>
      /\ PumpInv' /\ EventsInv' /\ InEvents' = InEvents
  BY DEF ContentHost, FrameInv, PumpInv, EventsInv, InEvents
<1>3. Captures \/ Forwards \/ Stops \/ Rests
  BY HostFrames DEF ContentHost
<1> USE DEF Captures, Forwards, Stops, Rests
<1> DEFINE n == captured - frameQ + 1
<1>4. CASE FrameCaptured
  <2>1. /\ frameQ' = frameQ + 1 /\ captured' = captured + 1 /\ captured < MaxFrames
        /\ UNCHANGED <<flight, dropped>>
    BY <1>1, <1>3, <1>4 DEF FrameCaptured
  <2>2. /\ Queued' = Queued \cup {captured + 1}
        /\ 1 .. captured' = (1 .. captured) \cup {captured + 1}
        /\ captured + 1 \notin 1 .. captured
    BY <1>1, <2>1, QueueOfFrames DEF Queued
  <2>3. FramesSplit'
    <3>1. FramesSplit
      BY DEF FrameInv
    <3>2. Split(Queued \cup {captured + 1}, flight, held, InEvents, counted, missed,
                dropped, (1 .. captured) \cup {captured + 1})
      BY <2>2, <3>1, Moves, Zenon DEF FramesSplit
    <3> QED
      BY <1>2, <2>1, <2>2, <3>2 DEF FramesSplit
  <2> QED
    BY <1>1, <1>2, <2>1, <2>3 DEF FrameInv
<1>5. CASE FrameSent
  <2>1. /\ frameQ > 0 /\ frameQ' = frameQ - 1 /\ captured' = captured
        /\ \/ flight' = flight \cup {n} /\ UNCHANGED dropped
           \/ dropped' = dropped \cup {n} /\ UNCHANGED flight
    BY <1>1, <1>3, <1>5 DEF FrameSent
  <2>2. Queued' = Queued \ {n} /\ n \in Queued
    BY <1>1, <2>1, QueueOfFrames DEF Queued
  <2> HIDE DEF n
  <2>3. FramesSplit'
    <3>1. FramesSplit
      BY DEF FrameInv
    <3>2. /\ Split(Queued \ {n}, flight \cup {n}, held, InEvents, counted, missed,
                   dropped, 1 .. captured)
          /\ Split(Queued \ {n}, flight, held, InEvents, counted, missed,
                   dropped \cup {n}, 1 .. captured)
      BY <2>2, <3>1, Moves, Zenon DEF FramesSplit
    <3> QED
      BY <1>2, <2>1, <2>2, <3>2 DEF FramesSplit
  <2> QED
    BY <1>1, <1>2, <2>1, <2>3 DEF FrameInv
<1>6. CASE FramesCancelled
  <2>1. /\ frameQ' = 0 /\ captured' = captured /\ flight' = flight
        /\ dropped' = dropped \cup Queued
    BY <1>3, <1>6 DEF FramesCancelled
  <2>2. Queued' = {}
    BY <1>1, <2>1, QueueOfFrames DEF Queued
  <2>3. FramesSplit'
    BY <1>2, <2>1, <2>2, Moves DEF FrameInv, FramesSplit
  <2> QED
    BY <1>1, <1>2, <2>1, <2>3 DEF FrameInv
<1>7. CASE NoFrameMoves
  BY <1>2, <1>7, FramesRest DEF NoFrameMoves, frameVars
<1> QED
  BY <1>4, <1>5, <1>6, <1>7 DEF ContentHost

LEMMA FramesCompositor ==
  ASSUME FrameInv,
         LoseDatagram \/ PumpReads \/ PumpSends \/ NoteFrame
  PROVE  FrameInv'
<1>1. UNCHANGED <<captured, frameQ>> /\ Queued' = Queued
  BY DEF LoseDatagram, PumpReads, PumpSends, NoteFrame, vars, hostVars, pipes, Queued
<1>2. FramesSplit /\ PumpInv /\ EventsInv /\ InEvents = Elements(events)
      /\ InEvents' = Elements(events')
  BY DEF FrameInv, InEvents, Elements
<1>3. SUFFICES FramesSplit' /\ PumpInv' /\ EventsInv'
  BY <1>1 DEF FrameInv
<1>4. CASE LoseDatagram
  <2>1. PICK n \in flight : flight' = flight \ {n} /\ dropped' = dropped \cup {n}
    BY <1>4 DEF LoseDatagram
  <2>2. UNCHANGED <<pump, held, events, counted, missed>>
    BY <1>4 DEF LoseDatagram
  <2>3. FramesSplit'
    BY <1>1, <1>2, <2>1, <2>2, Moves DEF FramesSplit
  <2> QED
    BY <1>2, <2>2, <2>3 DEF PumpInv, EventsInv
<1>5. CASE PumpReads
  <2>1. PICK n \in flight : held' = {n} /\ flight' = flight \ {n}
    BY <1>5 DEF PumpReads
  <2>2. UNCHANGED <<events, counted, missed, dropped>> /\ pump' = "sending" /\ held = {}
    BY <1>2, <1>5 DEF PumpReads, PumpInv, historyOfFrames
  <2>3. FramesSplit'
    BY <1>1, <1>2, <2>1, <2>2, Moves DEF FramesSplit
  <2> QED
    BY <1>2, <2>1, <2>2, <2>3 DEF PumpInv, EventsInv
<1>6. CASE PumpSends
  <2>1. PICK n : held = {n} /\ events' = Append(events, n)
    BY <1>2, <1>6 DEF PumpSends, PumpInv
  <2>2. UNCHANGED <<flight, counted, missed, dropped>> /\ pump' = "reading" /\ held' = {}
        /\ Len(events) < EventCap
    BY <1>6 DEF PumpSends, historyOfFrames
  <2>3. n \in 1 .. captured /\ n \notin InEvents
    BY <1>2, <2>1 DEF FramesSplit, Split
  <2>4. n \in Nat /\ EventCap \in Nat /\ Len(events) \in Nat
    BY <1>2, <2>3, ContentAssumption, LenProperties DEF EventsInv
  <2>5. EventsInv' /\ InEvents' = InEvents \cup {n}
    BY <1>2, <2>1, <2>2, <2>3, <2>4, EventSent DEF EventsInv
  <2>6. FramesSplit'
    <3>1. Split(Queued, flight, {}, InEvents \cup {n}, counted, missed, dropped,
                1 .. captured)
      BY <1>2, <2>1, Moves, Zenon DEF FramesSplit
    <3> QED
      BY <1>1, <2>2, <2>5, <3>1 DEF FramesSplit
  <2> QED
    BY <2>2, <2>5, <2>6 DEF PumpInv
<1>7. CASE NoteFrame
  <2> DEFINE n == Head(events)
  <2>1. /\ events # <<>> /\ events' = Tail(events)
        /\ \/ counted' = counted \cup {n} /\ UNCHANGED missed
           \/ missed' = missed \cup {n} /\ UNCHANGED counted
        /\ UNCHANGED <<flight, pump, held, dropped>>
    BY <1>7 DEF NoteFrame
  <2>2. /\ Tail(events) \in Seq(Nat) /\ Len(Tail(events)) = Len(events) - 1
        /\ Distinct(Tail(events)) /\ n \in Elements(events)
        /\ Elements(Tail(events)) = Elements(events) \ {n}
    BY <1>2, <2>1, EventTaken DEF EventsInv
  <2>3. Len(events) \in Nat /\ EventCap \in Nat
    BY <1>2, ContentAssumption, LenProperties DEF EventsInv
  <2> HIDE DEF n
  <2>4. FramesSplit'
    <3>1. n \in InEvents
      BY <1>2, <2>2
    <3>2. /\ Split(Queued, flight, held, InEvents \ {n}, counted \cup {n}, missed,
                   dropped, 1 .. captured)
          /\ Split(Queued, flight, held, InEvents \ {n}, counted, missed \cup {n},
                   dropped, 1 .. captured)
      BY <1>2, <3>1, Moves, Zenon DEF FramesSplit
    <3>3. InEvents' = InEvents \ {n}
      BY <1>2, <2>1, <2>2
    <3> QED
      BY <1>1, <2>1, <3>2, <3>3 DEF FramesSplit
  <2>5. EventsInv'
    BY <1>2, <2>1, <2>2, <2>3 DEF EventsInv
  <2>6. PumpInv'
    BY <1>2, <2>1 DEF PumpInv
  <2> QED
    BY <2>4, <2>5, <2>6
<1> QED
  BY <1>4, <1>5, <1>6, <1>7

LEMMA FramesStep ==
  ASSUME TypeOK, ForwarderInv, FrameInv, [ContentNext]_allVars
  PROVE  FrameInv'
<1>1. CASE ContentLink \/ ContentLost \/ PlaceSurface \/ UNCHANGED allVars
  BY <1>1, FramesRest DEF ContentLink, ContentLost, ConnectionLost, PlaceSurface, allVars,
     vars, hostVars, pipes, contentVars, historyOfFrames, frameVars
<1>2. CASE PumpEnds
  <2>1. UNCHANGED <<captured, frameQ, flight, held, events, counted, missed, dropped>>
        /\ pump = "reading" /\ pump' = "ended"
    BY <1>2 DEF PumpEnds, vars, hostVars, pipes, historyOfFrames
  <2> QED
    BY <2>1 DEF FrameInv, FramesSplit, PumpInv, EventsInv, Queued, InEvents
<1> QED
  BY <1>1, <1>2, FramesHost, FramesCompositor DEF ContentNext
-----------------------------------------------------------------------------
(***************************************************************************)
(* EarlyInv: until the surface is placed every frame is early, and only    *)
(* then is a frame noted on no surface.                                    *)
(***************************************************************************)
EarlyInv ==
  /\ ~placed => early = 1 .. captured
  /\ missed \subseteq early

LEMMA EarlyStep ==
  ASSUME TypeOK, ForwarderInv, FrameInv, StripInv, EarlyInv, [ContentNext]_allVars
  PROVE  EarlyInv'
<1> USE DEF EarlyInv
<1>1. CASE ContentHost
  <2>1. UNCHANGED <<placed, missed>>
    BY <1>1 DEF ContentHost
  <2>2. CASE FrameCaptured
    <3>1. captured \in Nat /\ captured' = captured + 1
          /\ early' = IF placed THEN early ELSE early \cup {captured'}
      BY <2>2, ContentAssumption DEF FrameCaptured, FrameInv
    <3>2. 1 .. captured + 1 = (1 .. captured) \cup {captured + 1}
      BY <3>1
    <3> QED
      BY <2>1, <3>1, <3>2
  <2>3. CASE FrameSent \/ FramesCancelled \/ NoFrameMoves
    BY <2>1, <2>3 DEF FrameSent, FramesCancelled, NoFrameMoves
  <2> QED
    BY <1>1, <2>2, <2>3 DEF ContentHost
<1>2. CASE NoteFrame
  <2>1. UNCHANGED <<captured, placed, early>>
    BY <1>2 DEF NoteFrame
  <2>2. CASE OnStrip(strip, "own")
    BY <1>2, <2>1, <2>2 DEF NoteFrame
  <2>3. CASE ~OnStrip(strip, "own")
    <3>1. ~placed /\ missed' = missed \cup {Head(events)} /\ events # <<>>
      BY <1>2, <2>3 DEF NoteFrame, StripInv
    <3>2. Head(events) \in Elements(events)
      BY <3>1, EventTaken DEF FrameInv, EventsInv
    <3>3. Head(events) \in 1 .. captured
      BY <3>2 DEF FrameInv, FramesSplit, Split, InEvents, Elements
    <3> QED
      BY <2>1, <3>1, <3>3
  <2> QED
    BY <2>2, <2>3
<1>3. CASE PlaceSurface
  BY <1>3 DEF PlaceSurface, historyOfFrames
<1>4. CASE ContentLink \/ ContentLost \/ LoseDatagram \/ PumpReads \/ PumpSends \/ PumpEnds
  BY <1>4 DEF ContentLink, ContentLost, LoseDatagram, PumpReads, PumpSends, PumpEnds,
              contentVars, historyOfFrames
<1>5. CASE UNCHANGED allVars
  BY <1>5 DEF allVars, contentVars, historyOfFrames
<1> QED
  BY <1>1, <1>2, <1>3, <1>4, <1>5 DEF ContentNext

ContentInv == WayInv /\ StripInv /\ FrameInv /\ EarlyInv

LEMMA ContentInvariant == ContentSpec => []ContentInv
<1>1. Init /\ ContentInit => ContentInv
  <2>1. Init /\ ContentInit => EarlyInv
    BY DEF ContentInit, EarlyInv
  <2> QED
    BY <2>1, WayStarts, StripStarts, FramesStart DEF ContentInv
<1>2. TypeOK /\ ContentInv /\ [ContentNext]_allVars => ContentInv'
  <2> SUFFICES ASSUME TypeOK, ContentInv, [ContentNext]_allVars
               PROVE  ContentInv'
    OBVIOUS
  <2> USE DEF ContentInv
  <2>1. ForwarderInv
    BY DEF WayInv
  <2>2. IsFiniteSet(counted) /\ (events # <<>> => Head(events) \notin counted)
    <3>1. counted \subseteq 1 .. captured /\ captured \in Nat
      BY ContentAssumption DEF FrameInv, FramesSplit, Split
    <3>2. IsFiniteSet(1 .. captured)
      BY <3>1, FS_Interval
    <3>3. events # <<>> => Head(events) \in InEvents
      BY EventTaken DEF FrameInv, EventsInv, InEvents, Elements
    <3> QED
      BY <3>1, <3>2, <3>3, FS_Subset DEF FrameInv, FramesSplit, Split
  <2> QED
    BY <2>1, <2>2, WayStep, StripStep, FramesStep, EarlyStep
<1> QED
  BY <1>1, <1>2, ContentTypes, PTL DEF ContentSpec

-----------------------------------------------------------------------------
(***************************************************************************)
(* F5: a suspended surface goes on streaming.  WayInv says that what it    *)
(* needs is given up only when the connection is lost, the stream ended or *)
(* the backend gone; StripInv that the surface is there to count.          *)
(***************************************************************************)
THEOREM ContentSuspendedSurfacesStream == ContentSpec => []SuspendedSurfacesStream
<1>1. TypeOK /\ ContentInv => SuspendedSurfacesStream
  BY DEF TypeOK, HostTypeOK, ContentInv, WayInv, ForwarderInv, StripInv, Past,
         SuspendedSurfacesStream
<1> QED
  BY <1>1, ContentTypes, ContentInvariant, PTL

(***************************************************************************)
(* Only frames captured before the surface was on the strip are missed.    *)
(***************************************************************************)
THEOREM ContentOnlyEarlyFramesAreMissed == ContentSpec => []OnlyEarlyFramesAreMissed
<1>1. ContentInv => OnlyEarlyFramesAreMissed
  BY DEF ContentInv, EarlyInv, OnlyEarlyFramesAreMissed
<1> QED
  BY <1>1, ContentInvariant, PTL

LEMMA ElementsCount ==
  ASSUME NEW q \in Seq(Nat), Distinct(q)
  PROVE  Cardinality(Elements(q)) = Len(q)
<1>1. Len(q) \in Nat /\ DOMAIN q = 1 .. Len(q)
  BY LenProperties
<1>2. IsFiniteSet(1 .. Len(q)) /\ Cardinality(1 .. Len(q)) = Len(q)
  BY SMTT(30), <1>1, FS_Interval
<1> DEFINE f == [i \in 1 .. Len(q) |-> q[i]]
<1>3. f \in Bijection(1 .. Len(q), Elements(q))
  <2>1. \A i, j \in 1 .. Len(q) : f[i] = f[j] => i = j
    BY <1>1 DEF Distinct
  <2>2. f \in [1 .. Len(q) -> Elements(q)]
    BY <1>1 DEF Elements
  <2>3. \A e \in Elements(q) : \E i \in 1 .. Len(q) : f[i] = e
    BY <1>1 DEF Elements
  <2> HIDE DEF f
  <2> QED
    BY <2>1, <2>2, <2>3 DEF Bijection, Injection, Surjection, IsInjective
<1> HIDE DEF f
<1>4. ExistsBijection(1 .. Len(q), Elements(q))
  BY <1>3 DEF ExistsBijection
<1> QED
  BY <1>2, <1>4, FS_Bijection, Zenon

LEMMA SplitPlaces ==
  ASSUME FramesSplit
  PROVE  /\ UNION {Places[i] : i \in DOMAIN Places} = 1 .. captured
         /\ \A i, j \in DOMAIN Places : i # j => Places[i] \cap Places[j] = {}
<1>1. /\ Places[1] = Queued /\ Places[2] = flight /\ Places[3] = held
      /\ Places[4] = InEvents /\ Places[5] = counted /\ Places[6] = missed
      /\ Places[7] = dropped
      /\ DOMAIN Places = 1 .. 7
  BY DEF Places
<1>2. 1 .. 7 = {1, 2, 3, 4, 5, 6, 7}
  OBVIOUS
<1> DEFINE P == Places
<1> HIDE DEF P
<1>3. UNION {P[i] : i \in {1, 2, 3, 4, 5, 6, 7}}
        = P[1] \cup P[2] \cup P[3] \cup P[4] \cup P[5] \cup P[6] \cup P[7]
  OBVIOUS
<1>4. UNION {Places[i] : i \in DOMAIN Places} = 1 .. captured
  BY <1>1, <1>2, <1>3 DEF P, FramesSplit, Split
<1>5. \A i, j \in {1, 2, 3, 4, 5, 6, 7} : i # j => Places[i] \cap Places[j] = {}
  <2> SUFFICES ASSUME NEW i \in {1, 2, 3, 4, 5, 6, 7}, NEW j \in {1, 2, 3, 4, 5, 6, 7},
                      i # j, NEW n \in Places[i], n \in Places[j]
               PROVE  FALSE
    OBVIOUS
  <2> QED
    BY <1>1 DEF FramesSplit, Split
<1> QED
  BY <1>1, <1>2, <1>4, <1>5

(***************************************************************************)
(* Every captured frame is in exactly one place, none is noted twice, and  *)
(* the strip shows what was noted: FrameInv and StripInv together.         *)
(***************************************************************************)
THEOREM ContentFramesAccountedFor == ContentSpec => []FramesAccountedFor
<1>1. ContentInv => FramesAccountedFor
  <2> SUFFICES ASSUME ContentInv PROVE FramesAccountedFor
    OBVIOUS
  <2>1. Len(events) = Cardinality(InEvents)
    BY ElementsCount DEF ContentInv, FrameInv, EventsInv, InEvents, Elements
  <2>2. \A i \in DOMAIN strip :
          strip[i].frames = IF i \in Positions(strip, "own") /\ i = First(strip, "own")
                            THEN Cardinality(counted) ELSE 0
    BY DEF ContentInv, StripInv, Shows
  <2> QED
    BY <2>1, <2>2, SplitPlaces DEF FramesAccountedFor, ContentInv, FrameInv, PumpInv,
                                   EventsInv
<1> QED
  BY <1>1, ContentInvariant, PTL
=============================================================================
