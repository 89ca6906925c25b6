------------------------------- MODULE Framing -------------------------------
(***************************************************************************)
(* How messages travel on the structure stream: encode_frame prefixes the  *)
(* body with its length (simulboot-common/src/wire.rs), quinn delivers     *)
(* bytes in chunks of any size, and read_message (client and host have the *)
(* same) collects them in a buffer and decodes frames from its front.  The *)
(* compositor reads the first message in connect, and hands the buffer to  *)
(* the reader task with whatever else has arrived in it.                   *)
(*                                                                         *)
(* A byte is [n, len, at]: the at-th byte of the frame of message n.       *)
(***************************************************************************)
EXTENDS Naturals, Sequences

CONSTANTS
  Lengths, MaxLen, MaxMessages,
  PrefixLen,       \* bytes of a length prefix (4 in the code)
  ChunkLen         \* size of the array given to read (4096 in the code)

ASSUME FramingAssumption ==
  /\ Lengths \subseteq Nat /\ MaxLen \in Nat /\ MaxMessages \in Nat
  /\ PrefixLen \in Nat \ {0} /\ ChunkLen \in Nat \ {0}

VARIABLES
  sent,            \* the number of messages written
  finished,        \* the stream is finished, and its end will arrive
  wire,            \* bytes written and not yet read
  lost,            \* the connection is lost
  buf,             \* the reader's buffer
  received,        \* messages that read_message has returned
  reader           \* "connect", "task", "ended" or "failed"

writerVars == <<sent, finished>>
vars == <<writerVars, wire, lost, buf, received, reader>>

Init ==
  /\ sent = 0
  /\ finished = FALSE
  /\ wire = <<>>
  /\ lost = FALSE
  /\ buf = <<>>
  /\ received = <<>>
  /\ reader = "connect"

(***************************************************************************)
(* The writer, and the stream (external: quinn).                           *)
(***************************************************************************)
\* encode_frame: a length above MaxLen is written like any other
Frame(n, len) == [k \in 1 .. PrefixLen + len |-> [n |-> n, len |-> len, at |-> k]]

SendMessage ==
  /\ ~ finished /\ ~ lost
  /\ sent < MaxMessages
  /\ sent' = sent + 1
  /\ \E len \in Lengths : wire' = wire \o Frame(sent + 1, len)
  /\ UNCHANGED <<finished, lost, buf, received, reader>>

FinishStream ==
  /\ ~ finished /\ ~ lost
  /\ finished' = TRUE
  /\ UNCHANGED <<sent, wire, lost, buf, received, reader>>

\* any suffix of what is under way is lost, the end of the stream first of all;
\* what has arrived is still read
LoseConnection ==
  /\ ~ lost
  /\ lost' = TRUE
  /\ \E k \in 0 .. Len(wire) :
       /\ wire' = SubSeq(wire, 1, k)
       /\ finished' \in {FALSE, finished /\ k = Len(wire)}
  /\ UNCHANGED <<sent, buf, received, reader>>

(***************************************************************************)
(* read_message: decode_frame first, and read more only if it asks to.     *)
(***************************************************************************)
Reading == reader \in {"connect", "task"}

\* the length that the first bytes of the buffer spell
Declared == buf[1].len

\* fault: complete as soon as the prefix is
DecodesEarly == Len(buf) >= PrefixLen /\ Declared <= MaxLen

Decodes == /\ Len(buf) >= PrefixLen
           /\ Declared <= MaxLen
           /\ Len(buf) >= PrefixLen + Declared

TooLarge == Len(buf) >= PrefixLen /\ Declared > MaxLen

\* fault: the reader task starts with a buffer of its own
ReturnMessageAfresh ==
  /\ Reading /\ Decodes
  /\ received' = Append(received, [n |-> buf[1].n, len |-> Declared])
  /\ buf' = IF reader = "connect" THEN <<>>
            ELSE SubSeq(buf, PrefixLen + Declared + 1, Len(buf))
  /\ reader' = "task"
  /\ UNCHANGED <<writerVars, wire, lost>>

\* drain(..consumed); the rest stays for the next call
ReturnMessage ==
  /\ Reading /\ Decodes
  /\ received' = Append(received, [n |-> buf[1].n, len |-> Declared])
  /\ buf' = SubSeq(buf, PrefixLen + Declared + 1, Len(buf))
  /\ reader' = "task"
  /\ UNCHANGED <<writerVars, wire, lost>>

RefuseFrame ==
  /\ Reading /\ TooLarge
  /\ reader' = "failed"
  /\ UNCHANGED <<writerVars, wire, lost, buf, received>>

NeedsMore == Reading /\ ~ Decodes /\ ~ TooLarge

ReadChunk ==
  /\ NeedsMore
  /\ \E n \in 1 .. ChunkLen :
       /\ n <= Len(wire)
       /\ buf' = buf \o SubSeq(wire, 1, n)
       /\ wire' = SubSeq(wire, n + 1, Len(wire))
  /\ UNCHANGED <<writerVars, lost, received, reader>>

\* the stream was finished and is read to its end: a frame that is still
\* incomplete then would be an error
ReadEnd ==
  /\ NeedsMore
  /\ wire = <<>> /\ finished
  /\ reader' = IF buf = <<>> THEN "ended" ELSE "failed"
  /\ UNCHANGED <<writerVars, wire, lost, buf, received>>

ReadFails ==
  /\ NeedsMore
  /\ wire = <<>> /\ lost /\ ~ finished
  /\ reader' = "failed"
  /\ UNCHANGED <<writerVars, wire, lost, buf, received>>

ReadMessage == ReturnMessage \/ RefuseFrame \/ ReadChunk \/ ReadEnd \/ ReadFails

Next == SendMessage \/ FinishStream \/ LoseConnection \/ ReadMessage

\* the reader's task runs; writers and the network owe nothing
Spec == Init /\ [][Next]_vars /\ WF_vars(ReadMessage)

-----------------------------------------------------------------------------
(***************************************************************************)
(* Properties.                                                             *)
(***************************************************************************)
Bytes == [n : 1 .. MaxMessages, len : Lengths, at : Nat \ {0}]

Pending == buf \o wire

Whole(i) == Pending[i].at = PrefixLen + Pending[i].len

\* The bytes that are still to be decoded begin with a first byte and follow one
\* another without a gap, up to a frame that may be incomplete only after the
\* connection is lost: the buffer never holds the tail of a frame whose head
\* was drained, in whatever chunks the bytes came.
BytesInOrder ==
  /\ sent \in 0 .. MaxMessages /\ finished \in BOOLEAN /\ lost \in BOOLEAN
  /\ reader \in {"connect", "task", "ended", "failed"}
  /\ \A i \in DOMAIN Pending : Pending[i] \in Bytes
  /\ Pending # <<>> => Pending[1].at = 1 /\ Pending[1].n = Len(received) + 1
  /\ \A i \in 1 .. Len(Pending) - 1 :
       IF Whole(i)
       THEN Pending[i + 1].at = 1 /\ Pending[i + 1].n = Pending[i].n + 1
       ELSE Pending[i + 1] = [Pending[i] EXCEPT !.at = @ + 1]
  /\ Pending # <<>> /\ ~ lost => Whole(Len(Pending))

\* the last message whose frame is complete, in the buffer or under way
LastComplete ==
  IF Pending = <<>> THEN Len(received)
  ELSE LET b == Pending[Len(Pending)] IN IF Whole(Len(Pending)) THEN b.n ELSE b.n - 1

LengthOf(n) == Pending[CHOOSE i \in DOMAIN Pending : Pending[i].n = n].len

\* the messages from the next one to that
Undelivered ==
  [i \in 1 .. LastComplete - Len(received) |->
     [n |-> Len(received) + i, len |-> LengthOf(Len(received) + i)]]

Messages == INSTANCE MessageStream WITH
  queue <- Undelivered, delivered <- received,
  end <- CASE Reading            -> "open"
           [] reader = "ended"   -> "ended"
           [] reader = "failed"  -> "failed"

\* Framing implements a stream of messages: each one arrives once, in order and
\* whole, the reader ends cleanly only after the last one, and it fails only on
\* a lost connection or an oversized message.
KeepsMessages == Messages!StreamSpec

\* And it does not stop before either: neither in the middle of a message of
\* which all has arrived, nor with another one left in its buffer.
ImplementsMessages == KeepsMessages /\ Messages!StreamFairness
=============================================================================
