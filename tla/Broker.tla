------------------------------- MODULE Broker -------------------------------
(***************************************************************************)
(* The broker (simulboot-broker/src/lib.rs) and the compositors that fetch *)
(* an image from it (simulboot-client/src/session/mod.rs, fetch_image).    *)
(* serve accepts connections one at a time and hands each to a task of its *)
(* own; when it returns the process ends, and the tasks with it.           *)
(*                                                                         *)
(* The document is a sequence of pieces: the <session> tag, one piece per  *)
(* surface, and the elements of the layout; what follows them holds        *)
(* nothing that a v0 reader keeps.  TCP delivers a prefix of a response,   *)
(* in order; a reader of the socket cannot tell a response that was cut    *)
(* short from one that is complete, and http_get does not compare what it  *)
(* got with Content-Length.                                                *)
(***************************************************************************)
EXTENDS Naturals, Sequences

CONSTANTS
  Visitors,        \* who connects, at most once each: resuming compositors,
  Strangers,       \*   and anybody else, a subset of Visitors
  Surfaces         \* how many surfaces the image has

ASSUME BrokerAssumption == Strangers \subseteq Visitors /\ Surfaces \in Nat

VARIABLES
  document,        \* "faithful": parsed again, it has the id it is served under;
                   \*   "plain": and its layout is the default; or "changed"
  server,          \* pc of serve: "binding", "polling", "waiting", "returned"
  outcome,         \* "ok", "error", or "none" while serve runs
  ctrlC,           \* the shutdown future is ready
  handler,         \* each connection's task: "none", "reading", "writing", "over"
  visitor,         \* each visitor: "idle", "queued" or "connected", "resumed",
                   \*   "refused" (it bailed out), "gone" (it hung up)
  request,         \* what each one asks for: [method, path, slash]
  arrived,         \* how much of the request: "nothing", "line" or "head"
  response,        \* [status, pieces] as far as it was written
  closed,          \* the connection is closed, as the visitor will see
  cut,             \* it was not the handler that closed it
  taken            \* pieces in the document a visitor accepted

serverVars == <<server, outcome, ctrlC>>
connectionVars == <<handler, visitor, request, arrived, response, closed,
                    cut, taken>>
vars == <<document, serverVars, connectionVars>>

Documents == {"faithful", "plain", "changed"}

Pieces == Surfaces + 2

\* path: /session/ and the full id, or its bare hex form, or anything else
Requests == [method : {"GET", "POST"}, path : {"id", "hex", "other"},
             slash : BOOLEAN]

\* what http_get can send for a --resume URL
Fetches == {r \in Requests : r.method = "GET"}

NoRequest == [method |-> "GET", path |-> "other", slash |-> FALSE]
Silence == [status |-> 0, pieces |-> 0]

Init ==
  /\ document \in Documents
  /\ server = "binding"
  /\ outcome = "none"
  /\ ctrlC = FALSE
  /\ handler = [v \in Visitors |-> "none"]
  /\ visitor = [v \in Visitors |-> "idle"]
  /\ request = [v \in Visitors |-> NoRequest]
  /\ arrived = [v \in Visitors |-> "nothing"]
  /\ response = [v \in Visitors |-> Silence]
  /\ closed = [v \in Visitors |-> FALSE]
  /\ cut = [v \in Visitors |-> FALSE]
  /\ taken = [v \in Visitors |-> 0]

(***************************************************************************)
(* serve.                                                                  *)
(***************************************************************************)
Listening == server \in {"polling", "waiting"}

Bind ==
  /\ server = "binding"
  /\ server' = "polling"
  /\ UNCHANGED <<document, outcome, ctrlC, connectionVars>>

\* serve returns and the process exits: whoever is connected, or waits to be
\* accepted, is cut off with what has been written so far
Exit(result) ==
  /\ server' = "returned"
  /\ outcome' = result
  /\ handler' = [v \in Visitors |-> IF handler[v] = "none" THEN "none" ELSE "over"]
  /\ closed' = [v \in Visitors |-> closed[v] \/ visitor[v] \in {"queued", "connected"}]
  /\ cut' = [v \in Visitors |-> cut[v] \/ (closed'[v] /\ ~ closed[v])]
  /\ UNCHANGED <<document, ctrlC, visitor, request, arrived, response, taken>>

BindFails == server = "binding" /\ Exit("error")

PressCtrlC ==
  /\ ~ ctrlC /\ server # "returned"
  /\ ctrlC' = TRUE
  /\ UNCHANGED <<document, server, outcome, connectionVars>>

\* or() polls the shutdown future first: it wins over a connection that waits
PollShutdown == server = "polling" /\ ctrlC /\ Exit("ok")

PollAccept ==
  /\ server = "polling"
  /\ ~ ctrlC
  /\ server' = "waiting"
  /\ UNCHANGED <<document, outcome, ctrlC, connectionVars>>

\* in the listener's backlog, where one that has hung up stays
Pending(v) == visitor[v] \in {"queued", "gone"} /\ handler[v] = "none"

Accepted(v) ==
  /\ visitor' = [visitor EXCEPT ![v] = IF @ = "queued" THEN "connected" ELSE @]
  /\ handler' = [handler EXCEPT ![v] = "reading"]

\* fault: the connection is handled before the next one is accepted
AcceptInTurn(v) ==
  /\ server = "waiting"
  /\ Pending(v)
  /\ \A u \in Visitors : handler[u] \in {"none", "over"}
  /\ server' = "polling"
  /\ Accepted(v)
  /\ UNCHANGED <<document, outcome, ctrlC, request, arrived, response, closed,
                 cut, taken>>

Accept(v) ==
  /\ server = "waiting"
  /\ Pending(v)
  /\ server' = "polling"
  /\ Accepted(v)
  /\ UNCHANGED <<document, outcome, ctrlC, request, arrived, response, closed,
                 cut, taken>>

\* fault: the signal is only looked at when a connection arrives
WakeOnConnection ==
  /\ server = "waiting" /\ ctrlC
  /\ \E v \in Visitors : Pending(v)
  /\ server' = "polling"
  /\ UNCHANGED <<document, outcome, ctrlC, connectionVars>>

\* woken by the signal
Wake ==
  /\ server = "waiting" /\ ctrlC
  /\ server' = "polling"
  /\ UNCHANGED <<document, outcome, ctrlC, connectionVars>>

\* accept fails (out of descriptors, an aborted connection): so does serve
AcceptFails == server = "waiting" /\ Exit("error")

(***************************************************************************)
(* handle_connection.                                                      *)
(***************************************************************************)
NamesImage(r) == r.path \in {"id", "hex"}

\* the path segment with its trailing slashes trimmed is compared; a request
\* that ends before its first line is complete has no method
Route(v) ==
  IF arrived[v] = "nothing" \/ request[v].method # "GET" THEN 405
  ELSE IF NamesImage(request[v]) THEN 200 ELSE 404

\* the head is complete, or the visitor has hung up
HandlerRoutes(v) ==
  /\ handler[v] = "reading"
  /\ arrived[v] = "head" \/ visitor[v] = "gone"
  /\ handler' = [handler EXCEPT ![v] = "writing"]
  /\ response' = [response EXCEPT ![v] = [status |-> Route(v), pieces |-> 0]]
  /\ UNCHANGED <<document, serverVars, visitor, request, arrived, closed,
                 cut, taken>>

\* how much follows the head of a response
BodyLength(status) == IF status = 200 THEN Pieces ELSE 1

\* fault: one piece too many
HandlerWritesPast(v) ==
  /\ handler[v] = "writing"
  /\ response[v].pieces <= BodyLength(response[v].status)
  /\ response' = [response EXCEPT ![v].pieces = @ + 1]
  /\ UNCHANGED <<document, serverVars, handler, visitor, request, arrived, closed,
                 cut, taken>>

HandlerWrites(v) ==
  /\ handler[v] = "writing"
  /\ response[v].pieces < BodyLength(response[v].status)
  /\ response' = [response EXCEPT ![v].pieces = @ + 1]
  /\ UNCHANGED <<document, serverVars, handler, visitor, request, arrived, closed,
                 cut, taken>>

\* everything is written, or writing fails: the stream is dropped
HandlerEnds(v) ==
  /\ handler[v] = "writing"
  /\ \/ response[v].pieces = BodyLength(response[v].status)
     \/ visitor[v] = "gone"
  /\ handler' = [handler EXCEPT ![v] = "over"]
  /\ closed' = [closed EXCEPT ![v] = TRUE]
  /\ UNCHANGED <<document, serverVars, visitor, request, arrived, response,
                 cut, taken>>

(***************************************************************************)
(* Visitors.                                                               *)
(***************************************************************************)
Connect(v) ==
  /\ visitor[v] = "idle"
  /\ visitor' = [visitor EXCEPT ![v] = IF Listening THEN "queued" ELSE "refused"]
  /\ \E r \in (IF v \in Strangers THEN Requests ELSE Fetches) :
       request' = [request EXCEPT ![v] = r]
  /\ UNCHANGED <<document, serverVars, handler, arrived, response, closed,
                 cut, taken>>

InTouch(v) == visitor[v] \in {"queued", "connected"} /\ ~ closed[v]

\* a compositor writes the head at once, and it arrives in one go or in two
SendLine(v) ==
  /\ InTouch(v) /\ arrived[v] = "nothing"
  /\ arrived' = [arrived EXCEPT ![v] = "line"]
  /\ UNCHANGED <<document, serverVars, handler, visitor, request, response, closed,
                 cut, taken>>

SendHead(v) ==
  /\ InTouch(v) /\ arrived[v] # "head"
  /\ arrived' = [arrived EXCEPT ![v] = "head"]
  /\ UNCHANGED <<document, serverVars, handler, visitor, request, response, closed,
                 cut, taken>>

HangUp(v) ==
  /\ v \in Strangers
  /\ visitor[v] \in {"queued", "connected"}
  /\ visitor' = [visitor EXCEPT ![v] = "gone"]
  /\ UNCHANGED <<document, serverVars, handler, request, arrived, response, closed,
                 cut, taken>>

\* what from_xml makes of the first n pieces and part of the next: the end of the
\* input closes whatever is open, a surface that is still open is dropped, a
\* layout that is missing is the default, only the creation date is required,
\* and only a torn tag is refused
Parses(n, torn) == n >= 1 /\ ~ torn
SurfacesIn(n) == IF n - 1 > Surfaces THEN Surfaces ELSE n - 1

Faithful == document # "changed"

\* the content id of what was read is that of the document as it was written
SameContent(n) ==
  \/ Faithful /\ n = Pieces
  \/ document = "plain" /\ n = Pieces - 1

\* fault: the id of the document is compared as it is declared
IdMatchesDeclared(v, n) == NamesImage(request[v]) /\ ~ request[v].slash /\ Faithful

\* fault: only the full id is compared
IdMatchesInFull(v, n) ==
  request[v].path = "id" /\ ~ request[v].slash /\ SameContent(n)

\* the last segment of the URL's path is empty if the URL ends with a slash
IdMatches(v, n) ==
  /\ NamesImage(request[v]) /\ ~ request[v].slash
  /\ SameContent(n)

\* read_to_end, from_xml and the check against the URL; a connection that was
\* cut may have lost the end of what was written, and torn a piece
Receive(v) ==
  /\ v \notin Strangers
  /\ visitor[v] \in {"queued", "connected"}
  /\ closed[v]
  /\ \E n \in 0 .. response[v].pieces, torn \in BOOLEAN :
       /\ ~ cut[v] => n = response[v].pieces /\ ~ torn
       /\ LET accepts == response[v].status = 200 /\ Parses(n, torn) /\ IdMatches(v, n)
          IN  /\ visitor' = [visitor EXCEPT ![v] = IF accepts THEN "resumed" ELSE "refused"]
              /\ taken' = [taken EXCEPT ![v] = IF accepts THEN n ELSE 0]
  /\ UNCHANGED <<document, serverVars, handler, request, arrived, response, closed, cut>>

\* the network drops a connection; either end notices in its own time
Lose(v) ==
  /\ visitor[v] = "connected"
  /\ ~ closed[v]
  /\ closed' = [closed EXCEPT ![v] = TRUE]
  /\ cut' = [cut EXCEPT ![v] = TRUE]
  /\ handler' = [handler EXCEPT ![v] = "over"]
  /\ UNCHANGED <<document, serverVars, visitor, request, arrived, response, taken>>

(***************************************************************************)
(* A live process.                                                         *)
(***************************************************************************)
Serve ==
  \/ Bind \/ BindFails \/ PollShutdown \/ PollAccept \/ Wake
  \/ \E v \in Visitors : Accept(v)

Handle(v) == HandlerRoutes(v) \/ HandlerWrites(v) \/ HandlerEnds(v)

Fetch(v) == v \notin Strangers /\ (SendHead(v) \/ Receive(v))

Idle == server = "returned" /\ UNCHANGED vars

Next ==
  \/ Serve \/ PressCtrlC \/ AcceptFails \/ Idle
  \/ \E v \in Visitors :
       \/ Handle(v)
       \/ Connect(v) \/ SendLine(v) \/ SendHead(v) \/ HangUp(v) \/ Receive(v) \/ Lose(v)

\* the executor runs every task that can move; visitors other than a fetching
\* compositor, Ctrl-C and failures owe nothing
Fairness ==
  /\ WF_vars(Serve)
  /\ \A v \in Visitors : WF_vars(Handle(v)) /\ WF_vars(Fetch(v))

Spec == Init /\ [][Next]_vars /\ Fairness

-----------------------------------------------------------------------------
\* Every variable holds a value of its type; nobody is served before it was
\* accepted, and a response grows only while it is written.
BrokerTypeOK ==
  /\ document \in Documents
  /\ server \in {"binding", "polling", "waiting", "returned"}
  /\ outcome \in {"none", "ok", "error"}
  /\ server = "returned" <=> outcome # "none"
  /\ ctrlC \in BOOLEAN
  /\ handler \in [Visitors -> {"none", "reading", "writing", "over"}]
  /\ visitor \in [Visitors -> {"idle", "queued", "connected", "resumed", "refused", "gone"}]
  /\ request \in [Visitors -> Requests]
  /\ arrived \in [Visitors -> {"nothing", "line", "head"}]
  /\ response \in [Visitors -> [status : {0, 200, 404, 405}, pieces : 0 .. Pieces]]
  /\ \A v \in Visitors : response[v].status # 0 => handler[v] \in {"writing", "over"}
  /\ closed \in [Visitors -> BOOLEAN]
  /\ cut \in [Visitors -> BOOLEAN]
  /\ taken \in [Visitors -> 0 .. Pieces]

\* A compositor that resumes has every surface, and the layout or the default
\* that it equals, although Ctrl-C, a failing accept or the network may cut a
\* response anywhere, and a parser that comes to the end of its input early
\* does not mind.
ResumesTheWholeSession ==
  \A v \in Visitors : visitor[v] = "resumed" =>
    /\ SurfacesIn(taken[v]) = Surfaces
    /\ taken[v] = Pieces \/ document = "plain"

\* The broker and the compositor agree on names: an image that the broker gave
\* out whole is resumed, under its full id and under the bare hex form, but for
\* two cases in which the compositor refuses what the broker answered: a URL
\* with a trailing slash, and a document that no longer has the id it is
\* served under.
AnswersAreTakenUp ==
  \A v \in Visitors \ Strangers :
    /\ response[v].status = 200 /\ ~ cut[v] /\ visitor[v] = "refused" =>
         request[v].slash \/ ~ Faithful
    /\ visitor[v] = "resumed" => ~ request[v].slash /\ Faithful

\* The first Ctrl-C stops the broker, whatever the visitors do: one that
\* connects and stays silent holds up neither serve nor the exit.
CtrlCStops == ctrlC ~> server = "returned"

\* A compositor that asks by the right name gets its session, however many
\* visitors stall, unless the broker stops or the connection is lost.
Wanted(v) ==
  /\ visitor[v] = "queued"
  /\ NamesImage(request[v]) /\ ~ request[v].slash /\ Faithful

FetchSucceeds ==
  \A v \in Visitors \ Strangers :
    Wanted(v) ~> \/ visitor[v] = "resumed"
                 \/ server = "returned"
                 \/ cut[v]
=============================================================================
