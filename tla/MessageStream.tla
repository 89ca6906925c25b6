---------------------------- MODULE MessageStream ----------------------------
(***************************************************************************)
(* What the users of the structure channel rely on, in one direction:      *)
(* messages arrive once each and in order; the stream ends cleanly only    *)
(* when it was finished and everything has arrived, and it fails only      *)
(* when the connection is lost or the next message is larger than MaxLen.  *)
(* A message is its number and its length, [n, len].                       *)
(***************************************************************************)
EXTENDS Naturals, Sequences

CONSTANTS
  Lengths,         \* of messages
  MaxLen,          \* MAX_FRAME_LEN
  MaxMessages      \* bound: messages ever sent

VARIABLES
  sent,            \* the number of messages sent
  finished,        \* no more will be, and the reader will get to know
  queue,           \* messages that will arrive
  delivered,       \* messages that have
  lost,            \* the connection is lost
  end              \* "open", "ended" or "failed", as the reader sees it

streamVars == <<sent, finished, queue, delivered, lost, end>>

StreamInit ==
  /\ sent = 0
  /\ finished = FALSE
  /\ queue = <<>>
  /\ delivered = <<>>
  /\ lost = FALSE
  /\ end = "open"

Send ==
  /\ ~ finished /\ ~ lost
  /\ sent < MaxMessages
  /\ sent' = sent + 1
  /\ \E len \in Lengths : queue' = Append(queue, [n |-> sent + 1, len |-> len])
  /\ UNCHANGED <<finished, delivered, lost, end>>

Finish ==
  /\ ~ lost
  /\ finished' = TRUE
  /\ UNCHANGED <<sent, queue, delivered, lost, end>>

\* what had not arrived may be lost with the connection, from some point on,
\* and with it the end of the stream
Lose ==
  /\ lost' = TRUE
  /\ \E k \in 0 .. Len(queue) :
       /\ queue' = SubSeq(queue, 1, k)
       /\ finished' \in {FALSE, finished /\ k = Len(queue)}
  /\ UNCHANGED <<sent, delivered, end>>

Deliver ==
  /\ end = "open"
  /\ queue # <<>>
  /\ Head(queue).len <= MaxLen
  /\ delivered' = Append(delivered, Head(queue))
  /\ queue' = Tail(queue)
  /\ UNCHANGED <<sent, finished, lost, end>>

End ==
  /\ end = "open"
  /\ finished /\ queue = <<>>
  /\ end' = "ended"
  /\ UNCHANGED <<sent, finished, queue, delivered, lost>>

Fail ==
  /\ end = "open"
  /\ lost \/ (queue # <<>> /\ Head(queue).len > MaxLen)
  /\ end' = "failed"
  /\ UNCHANGED <<sent, finished, queue, delivered, lost>>

StreamNext == Send \/ Finish \/ Lose \/ Deliver \/ End \/ Fail

\* an arrived message, an end or a failure is noticed some day
StreamFairness == WF_streamVars(Deliver \/ End \/ Fail)

StreamSpec == StreamInit /\ [][StreamNext]_streamVars
=============================================================================
