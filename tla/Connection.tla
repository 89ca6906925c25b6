----------------------------- MODULE Connection ------------------------------
(***************************************************************************)
(* One connection between the compositor and a host: the Link and the      *)
(* host's handler, composed over the structure stream, which can be lost   *)
(* at any moment (a crash of either process, a network failure).           *)
(***************************************************************************)
EXTENDS HostConnection, Link

vars == <<streamVars, hostVars, linkVars>>

ConnectionLost ==
  /\ conn = "up"
  /\ Lose
  /\ UNCHANGED <<hostVars, linkVars>>

Init == StreamInit /\ HostInit /\ LinkInit

Next ==
  \/ HostNext /\ UNCHANGED linkVars
  \/ LinkNext /\ UNCHANGED hostVars
  \/ ConnectionLost

Spec == Init /\ [][Next]_vars

(***************************************************************************)
(* Every async task is polled again once what it waits for is ready, the   *)
(* timer of suspend() fires, and NullCapture keeps draining; a native      *)
(* backend may block for as long as it likes, but returns once its         *)
(* contract says so.  Users need not send, suspend or drop anything,       *)
(* sources need not end, and a connection need not be lost.                *)
(***************************************************************************)
Fairness ==
  /\ WF_vars(HostTask /\ UNCHANGED linkVars)
  /\ WF_vars(BackendReturns /\ UNCHANGED linkVars)
  /\ ~Native => WF_vars(BackendTakesInput /\ UNCHANGED linkVars)
  /\ WF_vars((ForwardFrame \/ ForwarderEnds) /\ UNCHANGED linkVars)
  /\ WF_vars(Connecting /\ UNCHANGED hostVars)
  /\ WF_vars(Suspending /\ UNCHANGED hostVars)
  /\ WF_vars(Writer /\ UNCHANGED hostVars)
  /\ WF_vars(Reader /\ UNCHANGED hostVars)

FairSpec == Spec /\ Fairness
-----------------------------------------------------------------------------
(***************************************************************************)
(* Every variable has the type the code gives it, and no channel holds     *)
(* more than its capacity.                                                 *)
(***************************************************************************)
TypeOK == StreamTypeOK /\ HostTypeOK /\ LinkTypeOK

SuspendAt(n) == n \in DOMAIN log /\ log[n] = "Suspend"

\* the events the compositor sent before message n
InputsBefore(n) == {i \in DOMAIN log : i < n /\ log[i] = "Input"}

Routed == {routed[i] : i \in DOMAIN routed}

(***************************************************************************)
(* When suspend() returns true, the host of this very connection answered, *)
(* and every input event that was sent before the Suspend had been handed  *)
(* to the host's input channel by then: suspending loses no input.         *)
(* (conn.rs, suspend; host main.rs, Suspend and InputEvent)                *)
(***************************************************************************)
AckMeansFlushed ==
  result = "acked" =>
    /\ acks > 0
    /\ \A n \in DOMAIN log : SuspendAt(n) => InputsBefore(n) \subseteq Routed

NoGaps ==
  /\ \A i, j \in DOMAIN routed : i < j => routed[i] < routed[j]
  /\ \A i \in DOMAIN routed :
       /\ log[routed[i]] = "Input"
       /\ InputsBefore(routed[i]) \subseteq Routed

ReconnectComesFirst == resuming /\ routed # <<>> => reoks = 1

(***************************************************************************)
(* Input events reach the input channel in the order they were sent, with  *)
(* no gap and no repetition, across three queues and a lossy connection;   *)
(* and on a resume, none before the host has answered Reconnect, which     *)
(* connect writes itself and everything else leaves to the writer task.    *)
(* (conn.rs, connect, writer task; host main.rs, InputEvent)               *)
(***************************************************************************)
InputInOrder == NoGaps /\ ReconnectComesFirst

(***************************************************************************)
(* F5: the host's surface outlives a suspend.  A handler that leaves its   *)
(* loop was told to by Disconnect or by the end of the stream, which both  *)
(* come after the writer's end, or lost its backend; and it returns early  *)
(* only with the connection lost.                                          *)
(* (host main.rs, serve_connection)                                        *)
(***************************************************************************)
HostOutlivesSuspend ==
  /\ TearingDown => writer = "ended" \/ capture = "returned"
  /\ hostPc = "failed" => conn = "lost"

(***************************************************************************)
(* Once the handler has returned, no backend is left waiting on a channel  *)
(* that nobody will close.  (host main.rs, tear down)                      *)
(***************************************************************************)
NothingHeldAfterReturn ==
  HostOver => ~inputOpen /\ FramesClosed

\* a connect that fails is over, and a dropped Link too
LinkStatus ==
  CASE linkPc \in {"announce", "reconnect"} -> "connecting"
    [] linkPc = "live"                      -> "up"
    [] linkPc \in {"sending", "waiting"}    -> "suspending"
    [] linkPc = "suspended"                 -> "resolved"
    [] linkPc \in {"dropped", "failed"}     -> "over"

Contract == INSTANCE LinkContract WITH status   <- LinkStatus,
                                       answered <- acks > 0,
                                       outcome  <- result

(***************************************************************************)
(* The whole connection, with its queues, tasks and losses, is a link that *)
(* keeps LinkContract.  (conn.rs, connect, suspend)                        *)
(***************************************************************************)
KeepsLinkContract == Contract!ContractSpec

(***************************************************************************)
(* suspend() returns, whatever the host and the connection do.             *)
(* (conn.rs:53, "resolves when SuspendAck is observed or `within` elapses") *)
(***************************************************************************)
SuspendResolves == linkPc = "sending" ~> linkPc = "suspended"

(***************************************************************************)
(* A host whose compositor has let go of the Link, or whose connection is  *)
(* lost, finishes its handler and releases the capture backend.            *)
(* (host main.rs, tear down)                                               *)
(***************************************************************************)
HostReleasesCapture ==
  linkPc = "dropped" \/ conn = "lost" ~> HostOver /\ capture # "running"

(***************************************************************************)
(* When the compositor goes away, the host's runtime closes the frame      *)
(* channel.  (capture.rs:48, "`frames` is closed by the runtime when the   *)
(* connection drops")                                                      *)
(***************************************************************************)
FramesClosedWhenDropped == TearingDown ~> FramesClosed
=============================================================================
