----------------------------- MODULE BrokerProofs -----------------------------
(***************************************************************************)
(* Proofs about Broker, for any visitors and any number of surfaces: what  *)
(* a compositor resumes is the whole session, and it refuses no image that *)
(* the broker gave out whole but for the cases AnswersAreTakenUp names.    *)
(***************************************************************************)
EXTENDS Broker, TLAPS

(***************************************************************************)
(* Types.                                                                  *)
(***************************************************************************)
ServerTypeOK ==
  /\ document \in Documents
  /\ server \in {"binding", "polling", "waiting", "returned"}
  /\ outcome \in {"none", "ok", "error"}
  /\ server = "returned" <=> outcome # "none"
  /\ ctrlC \in BOOLEAN

Responses == [status : {0, 200, 404, 405}, pieces : 0 .. Pieces]

ConnectionTypeOK ==
  /\ handler \in [Visitors -> {"none", "reading", "writing", "over"}]
  /\ visitor \in [Visitors -> {"idle", "queued", "connected", "resumed", "refused", "gone"}]
  /\ request \in [Visitors -> Requests]
  /\ arrived \in [Visitors -> {"nothing", "line", "head"}]
  /\ response \in [Visitors -> Responses]
  /\ \A v \in Visitors : response[v].status # 0 => handler[v] \in {"writing", "over"}
  /\ closed \in [Visitors -> BOOLEAN]
  /\ cut \in [Visitors -> BOOLEAN]
  /\ taken \in [Visitors -> 0 .. Pieces]

LEMMA TypeParts == BrokerTypeOK <=> ServerTypeOK /\ ConnectionTypeOK
BY Zenon DEF BrokerTypeOK, ServerTypeOK, ConnectionTypeOK, Responses

LEMMA PiecesType == Pieces \in Nat /\ Pieces >= 2 /\ Surfaces \in Nat
BY BrokerAssumption DEF Pieces

LEMMA HeadType ==
  ASSUME NEW s \in {0, 200, 404, 405}
  PROVE  [status |-> s, pieces |-> 0] \in Responses
BY PiecesType DEF Responses

\* how far a response grows
LEMMA ResponseType ==
  ASSUME NEW r \in Responses, r.pieces < BodyLength(r.status)
  PROVE  /\ [r EXCEPT !.pieces = @ + 1] \in Responses
         /\ [r EXCEPT !.pieces = @ + 1].status = r.status
BY PiecesType DEF Responses, BodyLength

LEMMA BrokerTypeInit == Init => ServerTypeOK /\ ConnectionTypeOK
<1> SUFFICES ASSUME Init PROVE ServerTypeOK /\ ConnectionTypeOK
  OBVIOUS
<1>1. ServerTypeOK
  BY DEF Init, ServerTypeOK
<1>2. NoRequest \in Requests
  BY DEF NoRequest, Requests
<1>3. Silence \in Responses /\ Silence.status = 0 /\ 0 \in 0 .. Pieces
  BY PiecesType DEF Silence, Responses
<1> QED
  BY <1>1, <1>2, <1>3 DEF Init, ConnectionTypeOK

\* serve, until it returns
LEMMA ServerTypeStep ==
  ASSUME ServerTypeOK, Bind \/ PressCtrlC \/ PollAccept \/ Wake
  PROVE  ServerTypeOK' /\ UNCHANGED connectionVars
BY DEF ServerTypeOK, Bind, PressCtrlC, PollAccept, Wake

LEMMA ExitTypeStep ==
  ASSUME ServerTypeOK, ConnectionTypeOK,
         NEW result \in {"ok", "error"}, Exit(result)
  PROVE  ServerTypeOK' /\ ConnectionTypeOK'
<1>1. ServerTypeOK'
  BY DEF ServerTypeOK, Exit
<1>2. handler' \in [Visitors -> {"none", "reading", "writing", "over"}]
  BY DEF ConnectionTypeOK, Exit
<1>3. closed' \in [Visitors -> BOOLEAN] /\ cut' \in [Visitors -> BOOLEAN]
  BY Zenon DEF ConnectionTypeOK, Exit
<1>4. \A v \in Visitors : response'[v].status # 0 => handler'[v] \in {"writing", "over"}
  BY DEF ConnectionTypeOK, Exit
<1> QED
  BY <1>1, <1>2, <1>3, <1>4 DEF ConnectionTypeOK, Exit

LEMMA AcceptTypeStep ==
  ASSUME ServerTypeOK, ConnectionTypeOK,
         NEW v \in Visitors, Accept(v)
  PROVE  ServerTypeOK' /\ ConnectionTypeOK'
BY DEF ServerTypeOK, ConnectionTypeOK, Accept, Accepted, Pending

\* the task of a connection
LEMMA HandleTypeStep ==
  ASSUME ServerTypeOK, ConnectionTypeOK, NEW v \in Visitors, Handle(v)
  PROVE  ServerTypeOK' /\ ConnectionTypeOK'
<1>1. CASE HandlerRoutes(v)
  <2>1. Route(v) \in {0, 200, 404, 405}
    BY DEF Route
  <2>2. [status |-> Route(v), pieces |-> 0] \in Responses
    BY <2>1, HeadType
  <2>3. response' \in [Visitors -> Responses]
    BY <1>1, <2>2 DEF ConnectionTypeOK, HandlerRoutes
  <2>4. \A u \in Visitors : u # v => response'[u] = response[u]
    BY <1>1 DEF ConnectionTypeOK, HandlerRoutes
  <2>5. handler' = [handler EXCEPT ![v] = "writing"]
    BY <1>1 DEF HandlerRoutes
  <2>6. \A u \in Visitors : response'[u].status # 0 => handler'[u] \in {"writing", "over"}
    BY <2>4, <2>5 DEF ConnectionTypeOK
  <2> QED
    BY <1>1, <2>3, <2>5, <2>6 DEF ServerTypeOK, ConnectionTypeOK, HandlerRoutes, serverVars
<1>2. CASE HandlerWrites(v)
  <2>1. /\ [response[v] EXCEPT !.pieces = @ + 1] \in Responses
        /\ [response[v] EXCEPT !.pieces = @ + 1].status = response[v].status
    BY <1>2, ResponseType DEF HandlerWrites, ConnectionTypeOK
  <2>2. response' = [response EXCEPT ![v] = [response[v] EXCEPT !.pieces = @ + 1]]
    BY <1>2 DEF HandlerWrites
  <2> QED
    BY <1>2, <2>1, <2>2 DEF ServerTypeOK, ConnectionTypeOK, HandlerWrites, serverVars
<1>3. CASE HandlerEnds(v)
  BY <1>3 DEF ServerTypeOK, ConnectionTypeOK, HandlerEnds, serverVars
<1> QED
  BY <1>1, <1>2, <1>3 DEF Handle

\* a visitor, and the network
Visit(v) ==
  Connect(v) \/ SendLine(v) \/ SendHead(v) \/ HangUp(v) \/ Receive(v) \/ Lose(v)

LEMMA VisitTypeStep ==
  ASSUME ServerTypeOK, ConnectionTypeOK, NEW v \in Visitors, Visit(v)
  PROVE  ServerTypeOK' /\ ConnectionTypeOK'
<1>1. ServerTypeOK'
  BY DEF ServerTypeOK, Visit, Connect, SendLine, SendHead, HangUp, Receive, Lose,
         serverVars
<1>2. CASE Connect(v)
  BY <1>1, <1>2 DEF ConnectionTypeOK, Connect, Fetches
<1>3. CASE SendLine(v) \/ SendHead(v) \/ HangUp(v) \/ Lose(v)
  BY <1>1, <1>3 DEF ConnectionTypeOK, SendLine, SendHead, HangUp, Lose
<1>4. CASE Receive(v)
  <2>1. PICK n \in 0 .. response[v].pieces :
          /\ visitor' \in {[visitor EXCEPT ![v] = "resumed"], [visitor EXCEPT ![v] = "refused"]}
          /\ taken' \in {[taken EXCEPT ![v] = n], [taken EXCEPT ![v] = 0]}
    BY <1>4 DEF Receive
  <2>2. n \in 0 .. Pieces /\ 0 \in 0 .. Pieces
    BY PiecesType DEF ConnectionTypeOK, Responses
  <2> QED
    BY <1>1, <1>4, <2>1, <2>2 DEF ConnectionTypeOK, Receive
<1> QED
  BY <1>2, <1>3, <1>4 DEF Visit
-----------------------------------------------------------------------------
(***************************************************************************)
(* FetchInv: a connection that its handler closed has its whole response   *)
(* in it, and nothing is written to one that is closed.                    *)
(***************************************************************************)
Orderly(v) ==
  /\ visitor[v] \in {"idle", "queued"} => handler[v] = "none"
  /\ visitor[v] \in {"refused", "resumed"} => cut[v] \/ handler[v] \in {"none", "over"}
  /\ visitor[v] = "gone" => v \in Strangers
  /\ closed[v] /\ ~ cut[v] => handler[v] = "over"
  /\ closed[v] /\ ~ cut[v] /\ v \notin Strangers /\ response[v].status = 200 =>
       response[v].pieces = Pieces
  /\ response[v].status = 200 => NamesImage(request[v])

Resumed(v) ==
  /\ visitor[v] = "resumed" =>
       /\ SurfacesIn(taken[v]) = Surfaces
       /\ taken[v] = Pieces \/ document = "plain"
  /\ v \notin Strangers =>
       /\ response[v].status = 200 /\ ~ cut[v] /\ visitor[v] = "refused" =>
            request[v].slash \/ ~ Faithful
       /\ visitor[v] = "resumed" => ~ request[v].slash /\ Faithful

FetchInv == \A v \in Visitors : Orderly(v) /\ Resumed(v)

\* a step that does not concern a visitor
Apart(u) ==
  /\ handler'[u] = handler[u] /\ visitor'[u] = visitor[u]
  /\ request'[u] = request[u] /\ response'[u] = response[u]
  /\ closed'[u] = closed[u] /\ cut'[u] = cut[u] /\ taken'[u] = taken[u]

LEMMA ApartKeeps ==
  ASSUME NEW u \in Visitors, Apart(u), document' = document, Orderly(u), Resumed(u)
  PROVE  Orderly(u)' /\ Resumed(u)'
BY DEF Apart, Orderly, Resumed, Faithful, NamesImage

LEMMA VisitApart ==
  ASSUME ConnectionTypeOK, NEW v \in Visitors, Visit(v) \/ Handle(v) \/ Accept(v),
         NEW u \in Visitors \ {v}
  PROVE  Apart(u) /\ document' = document
<1>1. CASE Connect(v)
  BY <1>1 DEF ConnectionTypeOK, Apart, Connect, serverVars
<1>2. CASE SendLine(v) \/ SendHead(v) \/ HangUp(v) \/ Lose(v)
  BY <1>2 DEF ConnectionTypeOK, Apart, SendLine, SendHead, HangUp, Lose, serverVars
<1>3. CASE Receive(v)
  <2>1. visitor'[u] = visitor[u] /\ taken'[u] = taken[u]
    BY <1>3 DEF ConnectionTypeOK, Receive
  <2> QED
    BY <1>3, <2>1 DEF Apart, Receive
<1>4. CASE Handle(v)
  BY <1>4 DEF ConnectionTypeOK, Apart, Handle, HandlerRoutes, HandlerWrites, HandlerEnds
<1>5. CASE Accept(v)
  BY <1>5 DEF ConnectionTypeOK, Apart, Accept, Accepted
<1> QED
  BY <1>1, <1>2, <1>3, <1>4, <1>5 DEF Visit

\* what a response of 200 answers
LEMMA RouteNames ==
  ASSUME NEW v \in Visitors, Route(v) = 200
  PROVE  NamesImage(request[v])
BY DEF Route

LEMMA HandleKeeps ==
  ASSUME ConnectionTypeOK, NEW v \in Visitors, Orderly(v), Resumed(v), Handle(v)
  PROVE  Orderly(v)' /\ Resumed(v)'
<1>1. CASE HandlerRoutes(v)
  <2>1. /\ handler'[v] = "writing" /\ handler[v] = "reading"
        /\ response'[v].status = Route(v)
        /\ UNCHANGED <<document, visitor, request, closed, cut, taken>>
    BY <1>1 DEF HandlerRoutes, ConnectionTypeOK
  <2> QED
    BY <2>1, RouteNames DEF Orderly, Resumed, Faithful, NamesImage
<1>2. CASE HandlerWrites(v)
  <2>1. /\ handler[v] = "writing"
        /\ response'[v].status = response[v].status
        /\ UNCHANGED <<document, handler, visitor, request, closed, cut, taken>>
    BY <1>2 DEF HandlerWrites, ConnectionTypeOK, Responses
  <2> QED
    BY <2>1 DEF Orderly, Resumed, Faithful, NamesImage
<1>3. CASE HandlerEnds(v)
  <2>1. /\ handler[v] = "writing" /\ handler'[v] = "over"
        /\ response[v].pieces = BodyLength(response[v].status) \/ visitor[v] = "gone"
        /\ UNCHANGED <<document, visitor, request, response, cut, taken>>
    BY <1>3 DEF HandlerEnds, ConnectionTypeOK
  <2> QED
    BY <2>1 DEF Orderly, Resumed, Faithful, NamesImage, BodyLength
<1> QED
  BY <1>1, <1>2, <1>3 DEF Handle

LEMMA AcceptKeeps ==
  ASSUME ConnectionTypeOK, NEW v \in Visitors, Orderly(v), Resumed(v), Accept(v)
  PROVE  Orderly(v)' /\ Resumed(v)'
<1>1. /\ handler[v] = "none" /\ visitor'[v] \in {"connected", "gone"}
      /\ visitor'[v] = "gone" => visitor[v] = "gone"
      /\ UNCHANGED <<document, request, response, closed, cut, taken>>
  BY DEF Accept, Accepted, Pending, ConnectionTypeOK
<1>2. ~ (closed[v] /\ ~ cut[v])
  BY <1>1 DEF Orderly
<1> QED
  BY <1>1, <1>2 DEF Orderly, Resumed, Faithful, NamesImage
-----------------------------------------------------------------------------
(***************************************************************************)
(* What a compositor accepts.                                              *)
(***************************************************************************)
LEMMA AcceptedIsWhole ==
  ASSUME NEW v, NEW n \in Nat, IdMatches(v, n)
  PROVE  /\ SurfacesIn(n) = Surfaces
         /\ n = Pieces \/ document = "plain"
         /\ ~ request[v].slash /\ Faithful
BY PiecesType DEF IdMatches, SameContent, SurfacesIn, Pieces, Faithful

LEMMA WholeIsAccepted ==
  ASSUME NEW v, NamesImage(request[v]), ~ request[v].slash, Faithful
  PROVE  Parses(Pieces, FALSE) /\ IdMatches(v, Pieces)
BY PiecesType DEF Parses, IdMatches, SameContent

LEMMA ReceiveKeeps ==
  ASSUME ConnectionTypeOK, NEW v \in Visitors, Orderly(v), Resumed(v), Receive(v)
  PROVE  Orderly(v)' /\ Resumed(v)'
<1> DEFINE Accepts(n, torn) ==
             response[v].status = 200 /\ Parses(n, torn) /\ IdMatches(v, n)
<1>1. PICK n \in 0 .. response[v].pieces, torn \in BOOLEAN :
        /\ ~ cut[v] => n = response[v].pieces /\ ~ torn
        /\ visitor' = [visitor EXCEPT ![v] = IF Accepts(n, torn) THEN "resumed" ELSE "refused"]
        /\ taken' = [taken EXCEPT ![v] = IF Accepts(n, torn) THEN n ELSE 0]
  BY DEF Receive
<1> HIDE DEF Accepts
<1>2. /\ v \notin Strangers /\ closed[v]
      /\ UNCHANGED <<document, handler, request, response, closed, cut>>
  BY DEF Receive
<1>3. cut[v] \/ handler[v] = "over"
  BY <1>2 DEF Orderly
<1>4. CASE Accepts(n, torn)
  <2>1. visitor'[v] = "resumed" /\ taken'[v] = n
    BY <1>1, <1>4 DEF ConnectionTypeOK
  <2>2. /\ SurfacesIn(n) = Surfaces
        /\ n = Pieces \/ document = "plain"
        /\ ~ request[v].slash /\ Faithful
    BY <1>4, AcceptedIsWhole DEF Accepts
  <2> QED
    BY <1>2, <1>3, <2>1, <2>2 DEF Orderly, Resumed, SurfacesIn, Faithful, NamesImage
<1>5. CASE ~ Accepts(n, torn)
  <2>1. visitor'[v] = "refused"
    BY <1>1, <1>5 DEF ConnectionTypeOK
  <2>2. ASSUME response[v].status = 200, ~ cut[v]
        PROVE  request[v].slash \/ ~ Faithful
    <3>1. response[v].pieces = Pieces /\ NamesImage(request[v])
      BY <1>2, <2>2 DEF Orderly
    <3>2. n = Pieces /\ torn = FALSE
      BY <1>1, <2>2, <3>1
    <3> QED
      BY <1>5, <2>2, <3>1, <3>2, WholeIsAccepted DEF Accepts
  <2> QED
    BY <1>2, <1>3, <2>1, <2>2 DEF Orderly, Resumed, Faithful, NamesImage
<1> QED
  BY <1>4, <1>5

LEMMA VisitKeeps ==
  ASSUME ConnectionTypeOK, NEW v \in Visitors, Orderly(v), Resumed(v), Visit(v)
  PROVE  Orderly(v)' /\ Resumed(v)'
<1>1. CASE Connect(v)
  <2>1. /\ visitor[v] = "idle" /\ visitor'[v] \in {"queued", "refused"}
        /\ UNCHANGED <<document, handler, response, closed, cut, taken>>
    BY <1>1 DEF Connect, ConnectionTypeOK, serverVars
  <2>2. handler[v] = "none"
    BY <2>1 DEF Orderly
  <2>3. response[v].status # 200
    BY <2>2 DEF ConnectionTypeOK
  <2> QED
    BY <2>1, <2>2, <2>3 DEF Orderly, Resumed
<1>2. CASE SendLine(v) \/ SendHead(v)
  <2>1. UNCHANGED <<document, handler, visitor, request, response, closed, cut, taken>>
    BY <1>2 DEF SendLine, SendHead, serverVars
  <2> QED
    BY <2>1 DEF Orderly, Resumed, Faithful, NamesImage, SurfacesIn
<1>3. CASE HangUp(v)
  <2>1. /\ v \in Strangers /\ visitor'[v] = "gone"
        /\ UNCHANGED <<document, handler, request, response, closed, cut, taken>>
    BY <1>3 DEF HangUp, ConnectionTypeOK, serverVars
  <2> QED
    BY <2>1 DEF Orderly, Resumed, NamesImage
<1>4. CASE Receive(v)
  BY <1>4, ReceiveKeeps
<1>5. CASE Lose(v)
  <2>1. /\ visitor[v] = "connected" /\ cut'[v] = TRUE
        /\ UNCHANGED <<document, visitor, request, response, taken>>
    BY <1>5 DEF Lose, ConnectionTypeOK, serverVars
  <2> QED
    BY <2>1 DEF Orderly, Resumed, NamesImage
<1> QED
  BY <1>1, <1>2, <1>3, <1>4, <1>5 DEF Visit

\* the end of the process cuts off whoever was connected
LEMMA ExitKeeps ==
  ASSUME ConnectionTypeOK, NEW result, Exit(result),
         NEW v \in Visitors, Orderly(v), Resumed(v)
  PROVE  Orderly(v)' /\ Resumed(v)'
<1>1. handler'[v] = IF handler[v] = "none" THEN "none" ELSE "over"
  BY DEF Exit
<1>2. cut[v] => cut'[v]
  BY DEF Exit
<1>3. closed'[v] /\ ~ cut'[v] => closed[v] /\ ~ cut[v]
  BY DEF Exit
<1>4. UNCHANGED <<document, visitor, request, response, taken>>
  BY DEF Exit
<1> QED
  BY <1>1, <1>2, <1>3, <1>4 DEF Orderly, Resumed, Faithful, NamesImage, SurfacesIn
-----------------------------------------------------------------------------
BrokerInv == ServerTypeOK /\ ConnectionTypeOK /\ FetchInv

LEMMA BrokerInvInit == Init => BrokerInv
<1>1. ASSUME Init, NEW v \in Visitors PROVE Orderly(v) /\ Resumed(v)
  <2>1. /\ handler[v] = "none" /\ visitor[v] = "idle"
        /\ response[v].status = 0 /\ closed[v] = FALSE
    BY <1>1 DEF Init, Silence
  <2> QED
    BY <2>1 DEF Orderly, Resumed
<1> QED
  BY <1>1, BrokerTypeInit DEF BrokerInv, FetchInv

LEMMA BrokerInvStep == BrokerInv /\ [Next]_vars => BrokerInv'
<1> SUFFICES ASSUME BrokerInv, [Next]_vars PROVE BrokerInv'
  OBVIOUS
<1> USE DEF BrokerInv, FetchInv
<1>1. ASSUME UNCHANGED connectionVars, document' = document, ServerTypeOK'
      PROVE  BrokerInv'
  <2>1. ConnectionTypeOK'
    BY <1>1 DEF ConnectionTypeOK, connectionVars
  <2>2. \A v \in Visitors : Apart(v)
    BY <1>1 DEF Apart, connectionVars
  <2> QED
    BY <1>1, <2>1, <2>2, ApartKeeps
<1>2. CASE Bind \/ PressCtrlC \/ PollAccept \/ Wake
  <2>1. document' = document
    BY <1>2 DEF Bind, PressCtrlC, PollAccept, Wake
  <2> QED
    BY <1>1, <1>2, <2>1, ServerTypeStep
<1>3. CASE BindFails \/ PollShutdown \/ AcceptFails
  <2>1. PICK result \in {"ok", "error"} : Exit(result)
    BY <1>3 DEF BindFails, PollShutdown, AcceptFails
  <2> QED
    BY <2>1, ExitTypeStep, ExitKeeps
<1>4. ASSUME NEW v \in Visitors, Accept(v) PROVE BrokerInv'
  <2>1. ServerTypeOK' /\ ConnectionTypeOK'
    BY <1>4, AcceptTypeStep
  <2>2. Orderly(v)' /\ Resumed(v)'
    BY <1>4, AcceptKeeps
  <2>3. \A u \in Visitors \ {v} : Orderly(u)' /\ Resumed(u)'
    BY <1>4, VisitApart, ApartKeeps
  <2> QED
    BY <2>1, <2>2, <2>3
<1>5. ASSUME NEW v \in Visitors, Handle(v) PROVE BrokerInv'
  <2>1. Orderly(v)' /\ Resumed(v)'
    BY <1>5, HandleKeeps
  <2>2. \A u \in Visitors \ {v} : Orderly(u)' /\ Resumed(u)'
    BY <1>5, VisitApart, ApartKeeps
  <2> QED
    BY <1>5, <2>1, <2>2, HandleTypeStep
<1>6. ASSUME NEW v \in Visitors, Visit(v) PROVE BrokerInv'
  <2>1. Orderly(v)' /\ Resumed(v)'
    BY <1>6, VisitKeeps
  <2>2. \A u \in Visitors \ {v} : Orderly(u)' /\ Resumed(u)'
    BY <1>6, VisitApart, ApartKeeps
  <2> QED
    BY <1>6, <2>1, <2>2, VisitTypeStep
<1>7. CASE UNCHANGED vars
  BY <1>1, <1>7 DEF vars, serverVars, ServerTypeOK
<1> QED
  BY <1>2, <1>3, <1>4, <1>5, <1>6, <1>7 DEF Next, Serve, Idle, Visit

LEMMA BrokerInvariant == Spec => []BrokerInv
BY BrokerInvInit, BrokerInvStep, PTL DEF Spec

\* In a broker with any visitors every variable holds a value of its type, and
\* no response grows past its document.
THEOREM BrokerTypeCorrect == Spec => []BrokerTypeOK
<1>1. BrokerInv => BrokerTypeOK
  BY TypeParts DEF BrokerInv
<1> QED
  BY <1>1, BrokerInvariant, PTL

\* Wherever responses are cut, a compositor that resumes has the whole session.
THEOREM BrokerResumesTheWholeSession == Spec => []ResumesTheWholeSession
<1>1. BrokerInv => ResumesTheWholeSession
  BY DEF BrokerInv, FetchInv, Resumed, ResumesTheWholeSession
<1> QED
  BY <1>1, BrokerInvariant, PTL

\* Broker and compositor agree on which requests name the image, but for the two
\* cases AnswersAreTakenUp lists.
THEOREM BrokerAnswersAreTakenUp == Spec => []AnswersAreTakenUp
<1>1. BrokerInv => AnswersAreTakenUp
  BY DEF BrokerInv, FetchInv, Resumed, AnswersAreTakenUp
<1> QED
  BY <1>1, BrokerInvariant, PTL
=============================================================================
