-------------------------- MODULE CompositorProofs ---------------------------
(***************************************************************************)
(* Proofs about Compositor: for every number of hosts, every timeout and   *)
(* every number of presses, its types, the completeness of the session     *)
(* image, the order of suspension and checkpoint, the bounds on the wait,  *)
(* and the use of every link by LinkContract; and about Session, for every *)
(* number of devices, processes and hosts: every move keeps the session,   *)
(* and a printed URL has its image on disk.                                *)
(***************************************************************************)
EXTENDS Session, SequenceTheorems, FiniteSetTheorems, TLAPS

LEMMA Extend ==
  ASSUME NEW S, NEW s \in Seq(S), NEW e \in S
  PROVE  /\ Append(s, e) \in Seq(S)
         /\ Len(Append(s, e)) = Len(s) + 1
         /\ \A i \in 1 .. Len(s) : Append(s, e)[i] = s[i]
         /\ Append(s, e)[Len(s) + 1] = e
BY AppendProperties, LenProperties

LEMMA Replace ==
  ASSUME NEW S, NEW s \in Seq(S), NEW p \in 1 .. Len(s), NEW e \in S
  PROVE  /\ [s EXCEPT ![p] = e] \in Seq(S)
         /\ Len([s EXCEPT ![p] = e]) = Len(s)
         /\ \A i \in 1 .. Len(s) :
              [s EXCEPT ![p] = e][i] = IF i = p THEN e ELSE s[i]
BY ExceptSeq

LinkStates == {"up", "suspending", "resolved"}

LEMMA Sizes ==
  ASSUME TypeOK
  PROVE  /\ hosts \in Nat
         /\ Len(links) \in Nat /\ DOMAIN links = 1 .. Len(links)
         /\ Len(results) \in Nat /\ DOMAIN results = 1 .. Len(results)
         /\ Len(answered) = Len(links) /\ DOMAIN answered = 1 .. Len(links)
BY LenProperties, CompositorAssumption DEF TypeOK
-----------------------------------------------------------------------------
(***************************************************************************)
(* TypeOK is not inductive: the Ctrl-C channel stays within MaxPresses     *)
(* because it holds at most what was pressed.                              *)
(***************************************************************************)
TypeInv == TypeOK /\ presses <= pressed

LEMMA TypeStep ==
  ASSUME TypeInv, [Next]_vars
  PROVE  TypeInv'
<1> USE CompositorAssumption DEF TypeInv
<1>0. /\ links \in Seq(LinkStates) /\ answered \in Seq(BOOLEAN)
      /\ results \in Seq(BOOLEAN) /\ strip \in Seq(1 .. hosts)
      /\ hosts \in 0 .. MaxHosts
      /\ presses \in Nat /\ pressed \in Nat
  BY DEF TypeOK, LinkStates
<1>1. CASE PressCtrlC
  BY <1>0, <1>1 DEF PressCtrlC, TypeOK, linkVars, stripVars, suspendVars
<1>2. ASSUME NEW i \in DOMAIN links, HostAnswers(i) PROVE TypeInv'
  <2>1. /\ answered' \in Seq(BOOLEAN) /\ Len(answered') = Len(answered)
    BY <1>0, <1>2, Sizes, Replace DEF HostAnswers
  <2> QED
    BY <1>2, <2>1 DEF HostAnswers, TypeOK, stripVars, suspendVars, pressVars
<1>3. ASSUME NEW i \in DOMAIN links, LinkLost(i) PROVE TypeInv'
  BY <1>3 DEF LinkLost, TypeOK, stripVars, suspendVars, pressVars
<1>4. CASE FetchImage \/ StartFails \/ AllConnected \/ AllResolved
           \/ WriteImage \/ BindBroker \/ ServeFails
  BY <1>4
     DEF FetchImage, StartFails, AllConnected, AllResolved, WriteImage,
         BindBroker, ServeFails, Abort, TypeOK, Phases, linkVars, stripVars,
         suspendVars, pressVars
<1>5. CASE ConnectNext
  <2>1. /\ links' \in Seq(LinkStates) /\ Len(links') = Len(links) + 1
        /\ answered' \in Seq(BOOLEAN) /\ Len(answered') = Len(answered) + 1
    BY <1>0, <1>5, Extend DEF ConnectNext, LinkStates
  <2>2. Len(links) + 1 \in 1 .. hosts
    BY <1>5, Sizes DEF ConnectNext
  <2>3. strip' \in Seq(1 .. hosts)
    BY <1>0, <1>5, <2>2, Extend DEF ConnectNext
  <2>4. DOMAIN links \subseteq DOMAIN links'
    BY <2>1, Sizes, LenProperties
  <2> QED
    BY <1>5, <2>1, <2>2, <2>3, <2>4
       DEF ConnectNext, TypeOK, LinkStates, suspendVars, pressVars
<1>6. CASE RestoreLayout
  BY <1>6 DEF RestoreLayout, TypeOK, Phases, linkVars, suspendVars, pressVars
<1>7. CASE FirstCtrlC \/ NextCtrlC
  BY <1>0, <1>7, SMTT(30)
     DEF FirstCtrlC, NextCtrlC, TypeOK, Phases, linkVars, stripVars, suspendVars
<1>8. CASE CallSuspend
  <2>1. Current \in 1 .. Len(links)
    BY <1>8, Sizes DEF CallSuspend, Current
  <2>2. /\ links' \in Seq(LinkStates) /\ Len(links') = Len(links)
        /\ DOMAIN links' = DOMAIN links
    BY <1>0, <1>8, <2>1, Replace DEF CallSuspend, LinkStates
  <2>3. deadline' \in Nat
    BY <1>8 DEF CallSuspend, TypeOK
  <2> QED
    BY <1>8, <2>2, <2>3 DEF CallSuspend, TypeOK, LinkStates, stripVars, pressVars
<1>9. ASSUME NEW ok \in BOOLEAN, Awaiting, Resolve(ok) PROVE TypeInv'
  <2>1. Current \in 1 .. Len(links)
    BY <1>9, Sizes DEF Awaiting, Current
  <2>2. /\ links' \in Seq(LinkStates) /\ Len(links') = Len(links)
        /\ DOMAIN links' = DOMAIN links
    BY <1>0, <1>9, <2>1, Replace DEF Resolve, LinkStates
  <2>3. results' \in Seq(BOOLEAN)
    BY <1>0, <1>9, Extend DEF Resolve
  <2> QED
    BY <1>9, <2>2, <2>3 DEF Resolve, TypeOK, LinkStates, stripVars, pressVars
<1>10. CASE SuspendAcked \/ SuspendOnLostLink \/ SuspendTimesOut
  BY <1>9, <1>10 DEF SuspendAcked, SuspendOnLostLink, SuspendTimesOut
<1>11. CASE TakeImage
  BY <1>11
     DEF TakeImage, TypeOK, Phases, linkVars, stripVars, suspendVars, pressVars
<1>12. CASE Tick
  BY <1>12 DEF Tick, TypeOK, linkVars, stripVars, pressVars
<1>13. CASE UNCHANGED vars
  BY <1>13 DEF vars, TypeOK, linkVars, stripVars, suspendVars, pressVars
<1> QED
  BY <1>1, <1>2, <1>3, <1>4, <1>5, <1>6, <1>7, <1>8, <1>10, <1>11, <1>12, <1>13
     DEF Next, Main

LEMMA TypeInit == Init => TypeInv
<1> SUFFICES ASSUME Init PROVE TypeInv
  OBVIOUS
<1>1. hosts \in 0 .. MaxHosts /\ resuming \in BOOLEAN
  BY DEF Init, Configured
<1>2. /\ links = <<>> /\ answered = <<>> /\ results = <<>> /\ strip = <<>>
      /\ Len(links) = 0 /\ Len(answered) = 0 /\ Len(links) <= hosts
      /\ \A S : <<>> \in Seq(S)
  BY <1>1, EmptySeq, CompositorAssumption DEF Init, Configured
<1>3. /\ image.surfaces \in Seq(1 .. hosts)
      /\ image.layout \in {"none", "initial", "restored"}
  BY <1>2 DEF Init, Configured, NoImage
<1>4. phase \in Phases
  BY <1>1 DEF Init, Configured, Phases
<1>5. /\ presses \in 0 .. MaxPresses /\ pressed \in 0 .. MaxPresses
      /\ presses <= pressed
  BY CompositorAssumption DEF Init, Configured
<1>6. /\ lost \subseteq DOMAIN links /\ layout \in {"initial", "restored"}
      /\ waited \in Nat /\ deadline \in Nat
  BY DEF Init, Configured
<1> QED
  BY <1>1, <1>2, <1>3, <1>4, <1>5, <1>6 DEF TypeInv, TypeOK

(***************************************************************************)
(* Every variable keeps its type.                                          *)
(***************************************************************************)
LEMMA CompositorTypes == Spec => []TypeInv
BY TypeInit, TypeStep, PTL DEF Spec

THEOREM CompositorTypeOK == Spec => []TypeOK
<1>1. TypeInv => TypeOK
  BY DEF TypeInv
<1> QED
  BY <1>1, CompositorTypes, PTL
-----------------------------------------------------------------------------
(***************************************************************************)
(* ProgressInv: the strip shows the hosts connected so far, all of them    *)
(* once connecting is over, and the image was taken after that.            *)
(***************************************************************************)
ProgressInv ==
  /\ strip = [i \in 1 .. Len(links) |-> i]
  /\ phase \in {"restoring", "live", "suspending", "checkpoint"} =>
       Len(links) = hosts
  /\ resuming /\ phase \in {"live", "suspending", "checkpoint"} =>
       layout = "restored"
  /\ HasImage => phase \in {"writing", "binding", "serving", "ended", "aborted"}
  /\ ImageIsWholeSession

LEMMA ProgressStep ==
  ASSUME TypeInv, ProgressInv, [Next]_vars
  PROVE  ProgressInv'
<1> USE DEF ProgressInv, ImageIsWholeSession, HasImage
<1>1. CASE ConnectNext
  <2>1. /\ phase = "connecting" /\ ~HasImage
        /\ UNCHANGED <<phase, image, hosts, resuming>>
        /\ Len(links') = Len(links) + 1
    BY <1>1, Extend DEF ConnectNext, TypeInv, TypeOK
  <2>2. strip' = [i \in 1 .. Len(links') |-> i]
    <3>1. strip \in Seq(Nat) /\ Len(strip) = Len(links)
      BY Sizes, LenProperties DEF TypeInv, TypeOK
    <3>2. strip' \in Seq(Nat) /\ Len(strip') = Len(links')
      BY <1>1, <2>1, <3>1, Sizes, Extend DEF ConnectNext, TypeInv
    <3>3. \A i \in 1 .. Len(links') : strip'[i] = i
      BY <1>1, <2>1, <3>1, Sizes, Extend DEF ConnectNext, TypeInv
    <3> QED
      BY <3>2, <3>3, LenProperties
  <2> QED
    BY <2>1, <2>2
<1>2. CASE AllConnected \/ RestoreLayout
  BY <1>2, Sizes
     DEF AllConnected, RestoreLayout, linkVars, stripVars, TypeInv, TypeOK
<1>3. CASE TakeImage
  BY <1>3 DEF TakeImage, linkVars, stripVars
<1>4. CASE CallSuspend
  <2>1. Current \in 1 .. Len(links)
    BY <1>4, Sizes DEF CallSuspend, Current, TypeInv
  <2>2. Len(links') = Len(links)
    BY <1>4, <2>1, Replace DEF CallSuspend, TypeInv, TypeOK
  <2> QED
    BY <1>4, <2>2 DEF CallSuspend, stripVars
<1>5. ASSUME NEW ok, Awaiting, Resolve(ok) PROVE ProgressInv'
  <2>1. Current \in 1 .. Len(links)
    BY <1>5, Sizes DEF Awaiting, Current, TypeInv
  <2>2. Len(links') = Len(links)
    BY <1>5, <2>1, Replace DEF Resolve, TypeInv, TypeOK
  <2> QED
    BY <1>5, <2>2 DEF Resolve, stripVars
<1>6. CASE SuspendAcked \/ SuspendOnLostLink \/ SuspendTimesOut
  BY <1>5, <1>6 DEF SuspendAcked, SuspendOnLostLink, SuspendTimesOut
<1>7. CASE \/ FetchImage \/ StartFails \/ FirstCtrlC \/ AllResolved
           \/ WriteImage \/ BindBroker \/ ServeFails \/ NextCtrlC
  <2>1. UNCHANGED <<hosts, resuming, strip, layout, links, image>>
    BY <1>7
       DEF FetchImage, StartFails, FirstCtrlC, AllResolved, WriteImage,
           BindBroker, ServeFails, NextCtrlC, Abort, linkVars, stripVars
  <2>2. /\ phase' = "suspending" => phase = "live"
        /\ phase' = "checkpoint" => phase = "suspending"
        /\ phase' \notin {"restoring", "live"}
        /\ HasImage => phase' \in {"binding", "serving", "ended", "aborted"}
    BY <1>7
       DEF FetchImage, StartFails, FirstCtrlC, AllResolved, WriteImage,
           BindBroker, ServeFails, NextCtrlC, Abort
  <2> QED
    BY <2>1, <2>2
<1>8. CASE Tick \/ PressCtrlC \/ UNCHANGED vars
           \/ \E i \in DOMAIN links : HostAnswers(i) \/ LinkLost(i)
  <2>1. UNCHANGED <<hosts, resuming, strip, layout, links, image, phase>>
    BY <1>8
       DEF Tick, PressCtrlC, HostAnswers, LinkLost, vars, linkVars, stripVars
  <2> QED
    BY <2>1
<1> QED
  BY <1>1, <1>2, <1>3, <1>4, <1>6, <1>7, <1>8 DEF Next, Main

LEMMA ProgressInit == Init => ProgressInv
<1> SUFFICES ASSUME Init PROVE ProgressInv
  OBVIOUS
<1>1. Len(links) = 0 /\ strip = <<>> /\ links = <<>>
  BY EmptySeq DEF Init, Configured
<1>2. strip = [i \in 1 .. Len(links) |-> i]
  BY <1>1
<1> QED
  BY <1>2 DEF Init, Configured, ProgressInv, ImageIsWholeSession, HasImage

LEMMA CompositorProgress == Spec => []ProgressInv
BY ProgressInit, ProgressStep, CompositorTypes, PTL DEF Spec

(***************************************************************************)
(* The image a compositor writes and serves is of the whole session,       *)
(* however many hosts it has and whenever Ctrl-C was pressed.              *)
(***************************************************************************)
THEOREM CompositorImageIsWholeSession == Spec => []ImageIsWholeSession
<1>1. ProgressInv => ImageIsWholeSession
  BY DEF ProgressInv
<1> QED
  BY <1>1, CompositorProgress, PTL
-----------------------------------------------------------------------------
(***************************************************************************)
(* ResultInv: links are resolved from the left, the one at Current may be  *)
(* waiting, and those behind it have not been told anything.               *)
(***************************************************************************)
ResultInv ==
  /\ phase \in {"fetching", "connecting", "restoring", "live"} =>
       Len(results) = 0 /\ \A i \in 1 .. Len(links) : links[i] = "up"
  /\ Len(results) <= Len(links)
  /\ \A i \in 1 .. Len(results) : /\ links[i] = "resolved"
                                  /\ results[i] => answered[i]
  /\ \A i \in 1 .. Len(links) :
       /\ i > Len(results) + 1 => links[i] = "up"
       /\ i > Len(results) => links[i] # "resolved"
       /\ links[i] = "up" => ~answered[i]
  /\ phase = "checkpoint" \/ HasImage => Len(results) = Len(links)

\* nothing but the phase, or the clock, changes
LEMMA ResultKeeps ==
  ASSUME ResultInv, UNCHANGED <<links, answered, results, image>>,
         phase' \in {"fetching", "connecting", "restoring", "live"} =>
           phase \in {"fetching", "connecting", "restoring", "live"},
         phase' = "checkpoint" => Len(results) = Len(links)
  PROVE  ResultInv'
BY DEF ResultInv, HasImage

LEMMA AnswersExtended ==
  ASSUME TypeInv, ConnectNext
  PROVE  /\ ~answered'[Len(links) + 1]
         /\ \A i \in 1 .. Len(links) : answered'[i] = answered[i]
<1> DEFINE no == FALSE
<1>1. /\ answered \in Seq(BOOLEAN) /\ Len(answered) = Len(links)
      /\ answered' = Append(answered, no)
      /\ no \in BOOLEAN
  BY DEF ConnectNext, TypeInv, TypeOK
<1>2. ~no
  OBVIOUS
<1> HIDE DEF no
<1>3. /\ answered'[Len(links) + 1] = no
      /\ \A i \in 1 .. Len(links) : answered'[i] = answered[i]
  BY <1>1, Extend
<1> QED
  BY <1>2, <1>3

LEMMA ResultConnects ==
  ASSUME TypeInv, ProgressInv, ResultInv, ConnectNext
  PROVE  ResultInv'
<1>1. /\ phase = "connecting" /\ phase' = phase /\ image' = image
      /\ results' = results /\ ~HasImage /\ ~HasImage'
  BY DEF ConnectNext, suspendVars, ProgressInv, HasImage
<1>2. /\ Len(links') = Len(links) + 1
      /\ links'[Len(links) + 1] = "up"
      /\ \A i \in 1 .. Len(links) : links'[i] = links[i]
  BY Extend DEF ConnectNext, TypeInv, TypeOK
<1>3. /\ ~answered'[Len(links) + 1]
      /\ \A i \in 1 .. Len(links) : answered'[i] = answered[i]
  BY AnswersExtended
<1>4. Len(results) = 0 /\ Len(links) \in Nat
  BY <1>1, Sizes DEF ResultInv, TypeInv
<1>5. \A i \in 1 .. Len(links') : links'[i] = "up" /\ ~answered'[i]
  <2> SUFFICES ASSUME NEW i \in 1 .. Len(links')
               PROVE  links'[i] = "up" /\ ~answered'[i]
    OBVIOUS
  <2>1. CASE i \in 1 .. Len(links)
    BY <1>1, <1>2, <1>3, <2>1 DEF ResultInv
  <2>2. CASE i = Len(links) + 1
    BY <1>2, <1>3, <2>2
  <2> QED
    BY <1>2, <1>4, <2>1, <2>2
<1> QED
  BY <1>1, <1>2, <1>4, <1>5 DEF ResultInv

LEMMA ResultCalls ==
  ASSUME TypeInv, ResultInv, ProgressInv, CallSuspend
  PROVE  ResultInv'
<1>1. /\ phase = "suspending" /\ phase' = phase /\ image' = image
      /\ UNCHANGED <<results, answered>> /\ ~HasImage /\ ~HasImage'
      /\ Current = Len(results) + 1 /\ Current \in 1 .. Len(links)
  BY Sizes DEF CallSuspend, ProgressInv, HasImage, Current, TypeInv
<1>2. /\ Len(links') = Len(links)
      /\ \A i \in 1 .. Len(links) :
           links'[i] = IF i = Current THEN "suspending" ELSE links[i]
  BY <1>1, Replace DEF CallSuspend, TypeInv, TypeOK
<1> QED
  BY <1>1, <1>2, Sizes DEF ResultInv, TypeInv

LEMMA ResultResolves ==
  ASSUME TypeInv, ResultInv, ProgressInv, NEW ok \in BOOLEAN, Awaiting,
         Resolve(ok), ok => answered[Current]
  PROVE  ResultInv'
<1>1. /\ phase = "suspending" /\ phase' = phase /\ image' = image
      /\ answered' = answered /\ ~HasImage /\ ~HasImage'
      /\ Current = Len(results) + 1 /\ Current \in 1 .. Len(links)
  BY Sizes DEF Awaiting, Resolve, ProgressInv, HasImage, Current, TypeInv
<1>2. /\ Len(links') = Len(links)
      /\ \A i \in 1 .. Len(links) :
           links'[i] = IF i = Current THEN "resolved" ELSE links[i]
  BY <1>1, Replace DEF Resolve, TypeInv, TypeOK
<1>3. /\ Len(results') = Current
      /\ \A i \in 1 .. Len(results) : results'[i] = results[i]
      /\ results'[Current] = ok
  BY <1>1, Extend DEF Resolve, TypeInv, TypeOK
<1>4. Len(results) \in Nat /\ Len(links) \in Nat
  BY Sizes DEF TypeInv
<1>5. ASSUME NEW i \in 1 .. Len(results')
      PROVE  links'[i] = "resolved" /\ (results'[i] => answered'[i])
  <2>1. CASE i \in 1 .. Len(results)
    <3>1. i \in 1 .. Len(links) /\ i # Current
      BY <1>1, <1>4, <2>1 DEF ResultInv
    <3> QED
      BY <1>1, <1>2, <1>3, <2>1, <3>1 DEF ResultInv
  <2>2. CASE i = Current
    BY <1>1, <1>2, <1>3, <2>2
  <2> QED
    BY <1>1, <1>3, <1>4, <2>1, <2>2
<1>6. ASSUME NEW i \in 1 .. Len(links')
      PROVE  /\ i > Len(results') + 1 => links'[i] = "up"
             /\ i > Len(results') => links'[i] # "resolved"
             /\ links'[i] = "up" => ~answered'[i]
  BY <1>1, <1>2, <1>3, <1>4 DEF ResultInv
<1> QED
  BY <1>1, <1>2, <1>3, <1>5, <1>6 DEF ResultInv

LEMMA ResultAnswers ==
  ASSUME TypeInv, ResultInv, NEW j \in DOMAIN links, HostAnswers(j)
  PROVE  ResultInv'
<1>1. /\ UNCHANGED <<phase, image, links, results>>
      /\ links[j] # "up"
      /\ \A i \in 1 .. Len(links) :
           answered'[i] = IF i = j THEN TRUE ELSE answered[i]
  BY Sizes, Replace DEF HostAnswers, suspendVars, TypeInv, TypeOK
<1>2. Len(results) \in Nat /\ Len(links) \in Nat
  BY Sizes DEF TypeInv
<1>3. \A i \in 1 .. Len(links) : /\ answered[i] => answered'[i]
                                 /\ i # j /\ ~answered[i] => ~answered'[i]
  BY <1>1
<1>4. \A i \in 1 .. Len(results') :
        links'[i] = "resolved" /\ (results'[i] => answered'[i])
  BY <1>1, <1>2, <1>3 DEF ResultInv
<1>5. \A i \in 1 .. Len(links') :
        /\ i > Len(results') + 1 => links'[i] = "up"
        /\ i > Len(results') => links'[i] # "resolved"
        /\ links'[i] = "up" => ~answered'[i]
  BY <1>1, <1>2, <1>3 DEF ResultInv
<1>6. HasImage' => HasImage
  BY <1>1 DEF HasImage
<1> QED
  BY <1>1, <1>4, <1>5, <1>6 DEF ResultInv

LEMMA ResultStep ==
  ASSUME TypeInv, ProgressInv, ResultInv, [Next]_vars
  PROVE  ResultInv'
<1>1. CASE ConnectNext
  BY <1>1, ResultConnects
<1>2. CASE CallSuspend
  BY <1>2, ResultCalls
<1>3. CASE SuspendAcked \/ SuspendOnLostLink \/ SuspendTimesOut
  BY <1>3, ResultResolves DEF SuspendAcked, SuspendOnLostLink, SuspendTimesOut
<1>4. ASSUME NEW j \in DOMAIN links, HostAnswers(j) PROVE ResultInv'
  BY <1>4, ResultAnswers
<1>5. CASE TakeImage
  <2>1. Len(results) = Len(links) /\ UNCHANGED <<links, answered, results>>
        /\ phase' = "writing"
    BY <1>5 DEF TakeImage, ResultInv, linkVars, suspendVars
  <2> QED
    BY <2>1 DEF ResultInv
<1>6. CASE \/ FetchImage \/ StartFails \/ AllConnected \/ RestoreLayout
           \/ FirstCtrlC \/ AllResolved \/ WriteImage \/ BindBroker
           \/ ServeFails \/ NextCtrlC
  <2>1. UNCHANGED <<links, answered, results, image>>
    BY <1>6
       DEF FetchImage, StartFails, AllConnected, RestoreLayout, FirstCtrlC,
           AllResolved, WriteImage, BindBroker, ServeFails, NextCtrlC, Abort,
           linkVars, suspendVars
  <2>2. /\ phase' \in {"fetching", "connecting", "restoring", "live"} =>
             phase \in {"fetching", "connecting", "restoring", "live"}
        /\ phase' = "checkpoint" => Len(results) = Len(links)
    BY <1>6
       DEF FetchImage, StartFails, AllConnected, RestoreLayout, FirstCtrlC,
           AllResolved, WriteImage, BindBroker, ServeFails, NextCtrlC, Abort
  <2> QED
    BY <2>1, <2>2, ResultKeeps
<1>7. CASE Tick \/ PressCtrlC \/ UNCHANGED vars
           \/ \E i \in DOMAIN links : LinkLost(i)
  <2>1. UNCHANGED <<links, answered, results, image, phase>>
    BY <1>7 DEF Tick, PressCtrlC, LinkLost, vars, linkVars, suspendVars
  <2>2. phase' = "checkpoint" => Len(results) = Len(links)
    BY <2>1 DEF ResultInv
  <2> QED
    BY <2>1, <2>2, ResultKeeps
<1> QED
  BY <1>1, <1>2, <1>3, <1>4, <1>5, <1>6, <1>7 DEF Next, Main

LEMMA CompositorResults == Spec => []ResultInv
<1>1. Init => ResultInv
  BY EmptySeq DEF Init, Configured, ResultInv, HasImage
<1> QED
  BY <1>1, ResultStep, CompositorTypes, CompositorProgress, PTL DEF Spec

(***************************************************************************)
(* No image is taken before every link was resolved, and an ack is counted *)
(* only for the link whose host answered, however many hosts there are.    *)
(***************************************************************************)
THEOREM CompositorCheckpointAfterSuspend == Spec => []CheckpointAfterSuspend
<1>1. TypeInv /\ ResultInv => CheckpointAfterSuspend
  BY Sizes DEF TypeInv, ResultInv, CheckpointAfterSuspend
<1> QED
  BY <1>1, CompositorTypes, CompositorResults, PTL
-----------------------------------------------------------------------------
(***************************************************************************)
(* WaitInv: the links resolved so far cost one timeout each at most, and   *)
(* those that were silent one each at least; the one that is waited for    *)
(* has a deadline within the next, and a whole timeout after what the      *)
(* silent ones cost.                                                       *)
(***************************************************************************)
Cost(n) == n * Timeout

SilentCost == Cost(Cardinality(Silent))

WaitInv ==
  /\ SilentCost <= waited
  /\ Awaiting => /\ waited <= deadline /\ deadline <= Cost(Current)
                 /\ SilentCost + Timeout <= deadline
  /\ ~Awaiting => waited <= Cost(Len(results))

LEMMA CostType ==
  ASSUME NEW n \in Nat
  PROVE  Cost(n) \in Nat /\ Cost(n + 1) = Cost(n) + Timeout
BY CompositorAssumption DEF Cost

LEMMA CostMonotone ==
  ASSUME NEW m \in Nat, NEW n \in Nat, m <= n
  PROVE  Cost(m) <= Cost(n)
<1>1. PICK d \in Nat : n = m + d
  <2>1. n - m \in Nat /\ n = m + (n - m)
    OBVIOUS
  <2> QED
    BY <2>1
<1>2. n * Timeout = m * Timeout + d * Timeout
  BY <1>1, CompositorAssumption
<1>3. m * Timeout \in Nat /\ d * Timeout \in Nat
  BY CompositorAssumption
<1> QED
  BY <1>2, <1>3 DEF Cost

LEMMA SilentType ==
  ASSUME TypeInv
  PROVE  /\ IsFiniteSet(Silent) /\ Cardinality(Silent) \in Nat
         /\ SilentCost \in Nat
<1>1. IsFiniteSet(1 .. Len(results)) /\ Silent \in SUBSET (1 .. Len(results))
  BY Sizes, FS_Interval DEF TypeInv, Silent
<1>2. IsFiniteSet(Silent)
  BY <1>1, FS_Subset
<1>3. Cardinality(Silent) \in Nat
  BY <1>2, FS_CardinalityType
<1> QED
  BY <1>2, <1>3, CostType DEF SilentCost

\* fewer hosts were silent than before, or as many
LEMMA SilentShrinks ==
  ASSUME TypeInv, Silent' \subseteq Silent
  PROVE  SilentCost' \in Nat /\ SilentCost' <= SilentCost
<1>1. IsFiniteSet(Silent) /\ Cardinality(Silent) \in Nat
  BY SilentType
<1>2. IsFiniteSet(Silent') /\ Cardinality(Silent') <= Cardinality(Silent)
  BY <1>1, FS_Subset
<1>3. Cardinality(Silent') \in Nat
  BY <1>2, FS_CardinalityType
<1>4. SilentCost' = Cost(Cardinality(Silent'))
  BY DEF SilentCost, Cost
<1> QED
  BY <1>1, <1>2, <1>3, <1>4, CostType, CostMonotone DEF SilentCost

LEMMA LessCostLess ==
  \A a, b, t, d \in Nat : a <= b /\ b + t <= d => a + t <= d
OBVIOUS

\* a step that neither starts nor ends a wait, nor lets time pass
LEMMA WaitKeeps ==
  ASSUME TypeInv, WaitInv, UNCHANGED <<results, waited, deadline>>,
         lost \subseteq lost', Awaiting' <=> Awaiting
  PROVE  WaitInv'
<1>1. Silent' \subseteq Silent
  BY DEF Silent
<1>2. /\ SilentCost' <= SilentCost /\ SilentCost \in Nat /\ SilentCost' \in Nat
  BY <1>1, SilentShrinks, SilentType
<1>3. Timeout \in Nat /\ waited \in Nat /\ deadline \in Nat
  BY CompositorAssumption DEF TypeInv, TypeOK
<1>4. Cost(Current)' = Cost(Current) /\ Cost(Len(results))' = Cost(Len(results))
  BY DEF Current, Cost
<1>5. SilentCost <= waited => SilentCost' <= waited'
  BY <1>2, <1>3
<1>6. SilentCost + Timeout <= deadline => SilentCost' + Timeout <= deadline
  BY <1>2, <1>3, LessCostLess
<1> QED
  BY <1>4, <1>5, <1>6 DEF WaitInv

LEMMA WaitCalls ==
  ASSUME TypeInv, ResultInv, WaitInv, CallSuspend
  PROVE  WaitInv'
<1>1. /\ Current = Len(results) + 1 /\ Current \in 1 .. Len(links)
      /\ links[Current] = "up" /\ phase' = "suspending"
      /\ results' = results /\ lost' = lost
      /\ waited' = waited /\ deadline' = waited + Timeout
  BY Sizes DEF CallSuspend, Current, TypeInv
<1>2. waited <= Cost(Len(results)) /\ SilentCost <= waited
  BY <1>1 DEF WaitInv, Awaiting
<1>3. Awaiting'
  BY <1>1, Replace DEF CallSuspend, Awaiting, Current, TypeInv, TypeOK
<1>4. waited \in Nat /\ Timeout \in Nat /\ SilentCost \in Nat
  BY SilentType, CompositorAssumption DEF TypeInv, TypeOK
<1>5. /\ Cost(Current) = Cost(Len(results)) + Timeout
      /\ Cost(Len(results)) \in Nat
  BY <1>1, Sizes, CostType DEF TypeInv
<1>6. /\ SilentCost' = SilentCost /\ Cost(Current)' = Cost(Current)
  BY <1>1 DEF SilentCost, Cost, Silent, Current
<1> QED
  BY <1>1, <1>2, <1>3, <1>4, <1>5, <1>6 DEF WaitInv

\* one more link is resolved; it counts as silent if it was up and had no ack
LEMMA SilentGrows ==
  ASSUME TypeInv, NEW ok \in BOOLEAN, Awaiting, Resolve(ok)
  PROVE  /\ SilentCost' \in Nat /\ SilentCost' <= SilentCost + Timeout
         /\ ok \/ Current \in lost => SilentCost' = SilentCost
<1>1. /\ results \in Seq(BOOLEAN) /\ results' = Append(results, ok)
      /\ lost' = lost /\ Current = Len(results) + 1
      /\ Len(results) \in Nat /\ DOMAIN results = 1 .. Len(results)
  BY Sizes DEF Resolve, Current, TypeInv, TypeOK
<1>2. /\ DOMAIN results' = 1 .. Current /\ results'[Current] = ok
      /\ \A i \in 1 .. Len(results) : results'[i] = results[i]
  BY <1>1, Extend, LenProperties
<1>3. Silent' = IF ok \/ Current \in lost THEN Silent ELSE Silent \cup {Current}
  <2>1. ASSUME NEW i
        PROVE  i \in Silent' <=> i \in Silent \/ (i = Current /\ ~ok /\ i \notin lost)
    <3>1. CASE i = Current
      BY <1>1, <1>2, <3>1 DEF Silent
    <3>2. CASE i # Current
      <4>1. i \in 1 .. Current <=> i \in 1 .. Len(results)
        BY <1>1, <3>2
      <4> QED
        BY <1>1, <1>2, <3>2, <4>1 DEF Silent
    <3> QED
      BY <3>1, <3>2
  <2> QED
    BY <2>1
<1>4. CASE ok \/ Current \in lost
  <2>1. SilentCost' = SilentCost
    BY <1>3, <1>4 DEF SilentCost, Cost
  <2> QED
    BY <2>1, SilentType, CompositorAssumption
<1>5. CASE ~ok /\ Current \notin lost
  <2>1. Silent' = Silent \cup {Current} /\ Current \notin Silent
    BY <1>1, <1>3, <1>5 DEF Silent
  <2>2. Cardinality(Silent') = Cardinality(Silent) + 1
    BY <2>1, SilentType, FS_AddElement
  <2>3. SilentCost' = SilentCost + Timeout
    BY <2>2, SilentType, CostType DEF SilentCost, Cost
  <2> QED
    BY <1>5, <2>3, SilentType, CompositorAssumption
<1> QED
  BY <1>4, <1>5

LEMMA WaitResolves ==
  ASSUME TypeInv, ResultInv, WaitInv, NEW ok \in BOOLEAN, Awaiting,
         Resolve(ok), ok \/ Current \in lost \/ TimedOut
  PROVE  WaitInv'
<1>1. /\ Current = Len(results) + 1 /\ Current \in 1 .. Len(links)
      /\ UNCHANGED <<waited, deadline, phase>>
  BY Sizes DEF Awaiting, Resolve, Current, TypeInv
<1>2. Len(results') = Current
  BY <1>1, Extend DEF Resolve, TypeInv, TypeOK
<1>3. ~Awaiting'
  <2>1. /\ Len(links') = Len(links) /\ Current' = Current + 1
        /\ \A i \in 1 .. Len(links) : i # Current => links'[i] = links[i]
    BY <1>1, <1>2, Replace DEF Resolve, Current, TypeInv, TypeOK
  <2>2. ASSUME Current + 1 <= Len(links) PROVE links'[Current + 1] = "up"
    <3>1. /\ Current + 1 \in 1 .. Len(links) /\ Current + 1 # Current
          /\ Current + 1 > Len(results) + 1
      BY <1>1, <2>2, Sizes DEF TypeInv
    <3> QED
      BY <2>1, <3>1 DEF ResultInv
  <2> QED
    BY <2>1, <2>2 DEF Awaiting
<1>4. /\ waited <= deadline /\ deadline <= Cost(Current)
      /\ SilentCost <= waited /\ SilentCost + Timeout <= deadline
  BY DEF WaitInv
<1>5. /\ waited \in Nat /\ deadline \in Nat /\ Timeout \in Nat
      /\ SilentCost \in Nat /\ SilentCost' \in Nat /\ Cost(Current) \in Nat
  <2>1. waited \in Nat /\ deadline \in Nat /\ Timeout \in Nat
    BY CompositorAssumption DEF TypeInv, TypeOK
  <2>2. Current \in Nat /\ Cost(Current) \in Nat
    BY <1>1, CostType
  <2> QED
    BY <2>1, <2>2, SilentType, SilentGrows
<1>6. waited' <= Cost(Len(results))'
  <2>1. Cost(Len(results))' = Cost(Current)
    BY <1>2 DEF Cost
  <2> QED
    BY <1>1, <1>4, <1>5, <2>1
<1>7. SilentCost' <= waited'
  <2>1. CASE ok \/ Current \in lost
    BY <1>1, <1>4, <2>1, SilentGrows
  <2>2. CASE TimedOut
    <3>1. waited = deadline /\ SilentCost' <= SilentCost + Timeout
      BY <2>2, SilentGrows DEF TimedOut
    <3> QED
      BY <1>1, <1>4, <1>5, <3>1
  <2> QED
    BY <2>1, <2>2
<1> QED
  BY <1>3, <1>6, <1>7 DEF WaitInv

LEMMA WaitTicks ==
  ASSUME TypeInv, WaitInv, Tick
  PROVE  WaitInv'
<1>1. /\ Awaiting /\ Awaiting' /\ waited < deadline /\ waited' = waited + 1
      /\ UNCHANGED <<deadline, results, lost>>
  BY DEF Tick, Awaiting, Current, linkVars
<1>2. waited \in Nat /\ deadline \in Nat /\ SilentCost \in Nat
  BY SilentType DEF TypeInv, TypeOK
<1>3. SilentCost' = SilentCost /\ Cost(Current)' = Cost(Current)
  BY <1>1 DEF SilentCost, Cost, Silent, Current
<1> QED
  BY <1>1, <1>2, <1>3 DEF WaitInv

LEMMA WaitStep ==
  ASSUME TypeInv, ResultInv, WaitInv, [Next]_vars
  PROVE  WaitInv'
<1>1. CASE CallSuspend
  BY <1>1, WaitCalls
<1>2. CASE SuspendAcked \/ SuspendOnLostLink \/ SuspendTimesOut
  BY <1>2, WaitResolves DEF SuspendAcked, SuspendOnLostLink, SuspendTimesOut
<1>3. CASE Tick
  BY <1>3, WaitTicks
<1>4. CASE ConnectNext \/ FirstCtrlC \/ FetchImage \/ StartFails
           \/ AllConnected \/ RestoreLayout \/ TakeImage \/ WriteImage
           \/ BindBroker \/ ServeFails \/ NextCtrlC
  <2>1. /\ UNCHANGED <<results, waited, deadline, lost>>
        /\ phase' # "suspending" \/ FirstCtrlC
    BY <1>4
       DEF ConnectNext, FetchImage, StartFails, AllConnected, RestoreLayout,
           TakeImage, WriteImage, BindBroker, ServeFails, NextCtrlC, Abort,
           FirstCtrlC, suspendVars, linkVars
  <2>2. phase # "suspending"
    BY <1>4
       DEF ConnectNext, FirstCtrlC, FetchImage, StartFails, AllConnected,
           RestoreLayout, TakeImage, WriteImage, BindBroker, ServeFails,
           NextCtrlC, Abort
  <2>3. FirstCtrlC => /\ UNCHANGED <<results, waited, deadline, links>>
                      /\ \A i \in 1 .. Len(links) : links[i] = "up"
    BY DEF FirstCtrlC, linkVars, suspendVars, ResultInv
  <2>4. ~Awaiting /\ ~Awaiting'
    BY <2>1, <2>2, <2>3, Sizes DEF Awaiting, Current, TypeInv
  <2> QED
    BY <2>1, <2>4, WaitKeeps
<1>5. CASE AllResolved
  <2>1. /\ UNCHANGED <<results, waited, deadline, lost>>
        /\ ~Awaiting /\ ~Awaiting'
    BY <1>5, Sizes
       DEF AllResolved, Awaiting, Current, suspendVars, linkVars, TypeInv
  <2> QED
    BY <2>1, WaitKeeps
<1>6. CASE PressCtrlC \/ UNCHANGED vars
           \/ \E i \in DOMAIN links : HostAnswers(i) \/ LinkLost(i)
  <2>1. /\ UNCHANGED <<results, waited, deadline, phase, links>>
        /\ lost \subseteq lost'
    BY <1>6 DEF PressCtrlC, HostAnswers, LinkLost, vars, linkVars, suspendVars
  <2> QED
    BY <2>1, WaitKeeps DEF Awaiting, Current
<1> QED
  BY <1>1, <1>2, <1>3, <1>4, <1>5, <1>6 DEF Next, Main

(***************************************************************************)
(* Suspending takes one timeout for each host at most, and one for each    *)
(* that was silent at least, for every timeout and every number of hosts.  *)
(***************************************************************************)
THEOREM CompositorWaitIsBounded == Spec => []WaitIsBounded
<1>1. Init => WaitInv
  <2> SUFFICES ASSUME Init PROVE WaitInv
    OBVIOUS
  <2>1. results = <<>> /\ waited = 0 /\ ~Awaiting
    BY DEF Init, Configured, Awaiting
  <2>2. Silent = {} /\ Cardinality(Silent) = 0 /\ Len(results) = 0
    BY <2>1, FS_EmptySet, EmptySeq DEF Silent
  <2> QED
    BY <2>1, <2>2, CompositorAssumption DEF WaitInv, SilentCost, Cost
<1>2. TypeInv /\ ResultInv /\ WaitInv => WaitIsBounded
  <2> SUFFICES ASSUME TypeInv, ResultInv, WaitInv PROVE WaitIsBounded
    OBVIOUS
  <2> DEFINE n == IF Awaiting THEN Current ELSE Len(results)
  <2>1. /\ n \in Nat /\ n <= Len(links) /\ Len(links) \in Nat
        /\ waited \in Nat /\ deadline \in Nat
    BY Sizes DEF TypeInv, TypeOK, ResultInv, Awaiting, Current
  <2>2. Cost(n) \in Nat /\ Cost(n) <= Cost(Len(links)) /\ Cost(Len(links)) \in Nat
    BY <2>1, CostType, CostMonotone
  <2>3. waited <= Cost(n)
    <3>1. CASE Awaiting
      <4>1. waited <= deadline /\ deadline <= Cost(n)
        BY <3>1 DEF WaitInv
      <4> QED
        BY <2>1, <2>2, <4>1
    <3>2. CASE ~Awaiting
      BY <3>2 DEF WaitInv
    <3> QED
      BY <3>1, <3>2
  <2> HIDE DEF n
  <2>4. waited <= Cost(Len(links))
    BY <2>1, <2>2, <2>3
  <2>5. SilentCost <= waited
    BY DEF WaitInv
  <2> QED
    BY <2>4, <2>5 DEF WaitIsBounded, Cost, SilentCost
<1> QED
  BY <1>1, <1>2, WaitStep, CompositorTypes, CompositorResults, PTL DEF Spec
-----------------------------------------------------------------------------
(***************************************************************************)
(* Every link is used as LinkContract allows.                              *)
(***************************************************************************)
LEMMA LinkStutters ==
  ASSUME NEW i, UNCHANGED <<links, answered, results>>
  PROVE  UNCHANGED Contract(i)!contractVars
BY DEF Status, Answered, Outcome, Contract!contractVars

LEMMA LinkComesUp ==
  ASSUME TypeInv, ResultInv, ConnectNext, NEW i \in 1 .. MaxHosts
  PROVE  Contract(i)!ContractNext \/ UNCHANGED Contract(i)!contractVars
<1>1. /\ results' = results /\ Len(results) = 0
      /\ DOMAIN results = {}
  BY Sizes DEF ConnectNext, suspendVars, ResultInv, TypeInv
<1>2. /\ DOMAIN links = 1 .. Len(links) /\ Len(links) \in Nat
      /\ DOMAIN links' = 1 .. Len(links) + 1
      /\ links'[Len(links) + 1] = "up"
      /\ \A j \in 1 .. Len(links) : links'[j] = links[j]
  BY Extend, Sizes, LenProperties DEF ConnectNext, TypeInv, TypeOK
<1>3. /\ ~answered'[Len(links) + 1]
      /\ \A j \in 1 .. Len(links) : answered'[j] = answered[j]
  BY AnswersExtended
<1>4. Outcome(i)' = Outcome(i)
  BY <1>1 DEF Outcome
<1>5. CASE i = Len(links) + 1
  <2>1. Status(i) = "connecting" /\ Status(i)' = "up"
    BY <1>2, <1>5 DEF Status
  <2>2. ~Answered(i) /\ ~Answered(i)'
    BY <1>2, <1>3, <1>5 DEF Answered
  <2>3. Answered(i)' = Answered(i)
    BY <2>2 DEF Answered
  <2> QED
    BY <1>4, <2>1, <2>3 DEF Contract!ComesUp, Contract!ContractNext
<1>6. CASE i # Len(links) + 1
  <2>1. i \in DOMAIN links' <=> i \in DOMAIN links
    BY <1>2, <1>6
  <2>2. Status(i)' = Status(i)
    BY <1>2, <2>1 DEF Status
  <2>3. Answered(i)' <=> Answered(i)
    BY <1>2, <1>3, <2>1 DEF Answered
  <2>4. Answered(i)' = Answered(i)
    BY <2>3 DEF Answered
  <2> QED
    BY <1>4, <2>2, <2>4 DEF Contract!contractVars
<1> QED
  BY <1>5, <1>6

\* the links are as they were, up to the state of one of them
LEMMA OthersStutter ==
  ASSUME TypeInv, NEW p \in 1 .. Len(links), NEW state,
         links' = [links EXCEPT ![p] = state],
         NEW i, i # p, answered' = answered, Outcome(i)' = Outcome(i)
  PROVE  UNCHANGED Contract(i)!contractVars
<1>1. DOMAIN links' = DOMAIN links /\ i \in DOMAIN links => links'[i] = links[i]
  OBVIOUS
<1>2. Status(i)' = Status(i) /\ Answered(i)' = Answered(i)
  BY <1>1 DEF Status, Answered
<1> QED
  BY <1>2 DEF Contract!contractVars

LEMMA LinkIsCalled ==
  ASSUME TypeInv, CallSuspend, NEW i \in 1 .. MaxHosts
  PROVE  Contract(i)!ContractNext \/ UNCHANGED Contract(i)!contractVars
<1>1. /\ Current \in 1 .. Len(links) /\ links[Current] = "up"
      /\ links' = [links EXCEPT ![Current] = "suspending"]
      /\ DOMAIN links = 1 .. Len(links)
      /\ answered' = answered /\ results' = results
  BY Sizes DEF CallSuspend, Current, TypeInv
<1>2. Outcome(i)' = Outcome(i)
  BY <1>1 DEF Outcome
<1>3. CASE i = Current
  <2>1. Status(i) = "up" /\ Status(i)' = "suspending"
    BY <1>1, <1>3 DEF Status
  <2>2. Answered(i)' = Answered(i)
    BY <1>1 DEF Answered
  <2> QED
    BY <1>2, <2>1, <2>2 DEF Contract!CallsSuspend, Contract!ContractNext
<1>4. CASE i # Current
  BY <1>1, <1>2, <1>4, OthersStutter
<1> QED
  BY <1>3, <1>4

LEMMA LinkIsResolved ==
  ASSUME TypeInv, ResultInv, NEW ok \in BOOLEAN, Awaiting, Resolve(ok),
         ok => answered[Current], NEW i \in 1 .. MaxHosts
  PROVE  Contract(i)!ContractNext \/ UNCHANGED Contract(i)!contractVars
<1>1. /\ Current \in 1 .. Len(links) /\ links[Current] = "suspending"
      /\ links' = [links EXCEPT ![Current] = "resolved"]
      /\ DOMAIN links = 1 .. Len(links)
      /\ Current = Len(results) + 1 /\ Len(results) \in Nat
      /\ answered' = answered
  BY Sizes DEF Awaiting, Resolve, Current, TypeInv
<1>2. /\ DOMAIN results = 1 .. Len(results)
      /\ DOMAIN results' = 1 .. Len(results) + 1
      /\ \A j \in 1 .. Len(results) : results'[j] = results[j]
      /\ results'[Current] = ok
  BY <1>1, Extend, Sizes, LenProperties DEF Resolve, TypeInv, TypeOK
<1>3. CASE i = Current
  <2>1. Status(i) = "suspending" /\ Status(i)' = "resolved"
    BY <1>1, <1>3 DEF Status
  <2>2. Answered(i)' = Answered(i)
    BY <1>1 DEF Answered
  <2>3. Outcome(i)' = IF ok THEN "acked" ELSE "unacked"
    BY <1>1, <1>2, <1>3 DEF Outcome
  <2>4. ok => Answered(i)
    BY <1>1, <1>3 DEF Answered
  <2> QED
    BY <2>1, <2>2, <2>3, <2>4
       DEF Contract!ResolvesTrue, Contract!ResolvesFalse, Contract!ContractNext
<1>4. CASE i # Current
  <2>1. i \in DOMAIN results' <=> i \in DOMAIN results
    BY <1>1, <1>2, <1>4
  <2>2. Outcome(i)' = Outcome(i)
    BY <1>2, <2>1 DEF Outcome
  <2> QED
    BY <1>1, <1>4, <2>2, OthersStutter
<1> QED
  BY <1>3, <1>4

LEMMA LinkAnswers ==
  ASSUME TypeInv, NEW j \in DOMAIN links, HostAnswers(j), NEW i \in 1 .. MaxHosts
  PROVE  Contract(i)!ContractNext \/ UNCHANGED Contract(i)!contractVars
<1>1. /\ links' = links /\ results' = results
      /\ links[j] \in {"suspending", "resolved"} /\ ~answered[j]
      /\ DOMAIN links = DOMAIN answered
      /\ answered' = [answered EXCEPT ![j] = TRUE]
  BY Sizes DEF HostAnswers, suspendVars, TypeInv
<1>2. Status(i)' = Status(i) /\ Outcome(i)' = Outcome(i)
  BY <1>1 DEF Status, Outcome
<1>3. CASE i = j
  <2>1. Status(i) \in {"suspending", "resolved"}
    BY <1>1, <1>3 DEF Status
  <2>2. ~Answered(i)
    BY <1>1, <1>3 DEF Answered
  <2>3. Answered(i)' = TRUE
    BY <1>1, <1>3 DEF Answered
  <2> QED
    BY <1>2, <2>1, <2>2, <2>3 DEF Contract!Answers, Contract!ContractNext
<1>4. CASE i # j
  <2>1. Answered(i)' = Answered(i)
    BY <1>1, <1>4 DEF Answered
  <2> QED
    BY <1>2, <2>1 DEF Contract!contractVars
<1> QED
  BY <1>3, <1>4

LEMMA LinkStep ==
  ASSUME TypeInv, ResultInv, [Next]_vars, NEW i \in 1 .. MaxHosts
  PROVE  Contract(i)!ContractNext \/ UNCHANGED Contract(i)!contractVars
<1>1. CASE ConnectNext
  BY <1>1, LinkComesUp
<1>2. CASE CallSuspend
  BY <1>2, LinkIsCalled
<1>3. CASE SuspendAcked \/ SuspendOnLostLink \/ SuspendTimesOut
  BY <1>3, LinkIsResolved DEF SuspendAcked, SuspendOnLostLink, SuspendTimesOut
<1>4. CASE \E j \in DOMAIN links : HostAnswers(j)
  BY <1>4, LinkAnswers
<1>5. CASE \/ FetchImage \/ StartFails \/ AllConnected \/ RestoreLayout
           \/ FirstCtrlC \/ AllResolved \/ TakeImage \/ WriteImage
           \/ BindBroker \/ ServeFails \/ NextCtrlC
  BY <1>5, LinkStutters
     DEF FetchImage, StartFails, AllConnected, RestoreLayout, FirstCtrlC,
         AllResolved, TakeImage, WriteImage, BindBroker, ServeFails, NextCtrlC,
         Abort, linkVars, suspendVars
<1>6. CASE Tick \/ PressCtrlC \/ UNCHANGED vars
           \/ \E j \in DOMAIN links : LinkLost(j)
  BY <1>6, LinkStutters
     DEF Tick, PressCtrlC, LinkLost, vars, linkVars, suspendVars
<1> QED
  BY <1>1, <1>2, <1>3, <1>4, <1>5, <1>6 DEF Next, Main

(***************************************************************************)
(* The compositor uses each of its links as LinkContract allows.  With     *)
(* ConnectionKeepsLinkContract, which says that a link keeps the contract, *)
(* this justifies the abstraction of a link in Compositor.                 *)
(***************************************************************************)
THEOREM CompositorUsesLinksByContract == Spec => UsesLinksByContract
<1>1. Init => \A i \in 1 .. MaxHosts : Contract(i)!ContractInit
  BY EmptySeq
     DEF Init, Status, Answered, Outcome, Contract!ContractInit
<1>2. TypeInv /\ ResultInv /\ [Next]_vars
        => \A i \in 1 .. MaxHosts :
             Contract(i)!ContractNext \/ UNCHANGED Contract(i)!contractVars
  BY LinkStep
<1> QED
  BY <1>1, <1>2, CompositorTypes, CompositorResults, PTL
     DEF Spec, UsesLinksByContract
-----------------------------------------------------------------------------
(***************************************************************************)
(* Session: the steps of a compositor, and those of its surroundings.      *)
(***************************************************************************)
allVars == <<vars, sessionVars>>

Quiet ==
  \/ ConnectNext \/ StartFails \/ AllConnected \/ RestoreLayout
  \/ FirstCtrlC \/ CallSuspend \/ SuspendAcked \/ SuspendOnLostLink
  \/ SuspendTimesOut \/ AllResolved \/ Tick \/ PressCtrlC
  \/ \E i \in DOMAIN links : HostAnswers(i) \/ LinkLost(i)
-----------------------------------------------------------------------------
(***************************************************************************)
(* In all its processes, the compositor keeps the invariants it has in     *)
(* one: it steps, crashes, or starts afresh.                               *)
(***************************************************************************)
BaseInv == TypeInv /\ ProgressInv

LEMMA CrashKeepsBase ==
  ASSUME BaseInv, Crash
  PROVE  BaseInv'
<1>1. /\ phase' = "aborted"
      /\ UNCHANGED <<hosts, resuming, linkVars, stripVars, suspendVars,
                     pressVars, image>>
  BY DEF Crash, Abort
<1>2. TypeInv'
  BY <1>1 DEF BaseInv, TypeInv, TypeOK, Phases, linkVars, stripVars, suspendVars,
              pressVars
<1>3. ProgressInv'
  BY <1>1 DEF BaseInv, ProgressInv, ImageIsWholeSession, HasImage, linkVars,
              stripVars
<1> QED
  BY <1>2, <1>3 DEF BaseInv

LEMMA InitKeepsBase == Init => BaseInv
BY TypeInit, ProgressInit DEF BaseInv

LEMMA BaseStep == BaseInv /\ [SessionNext]_allVars => BaseInv'
<1>1. BaseInv /\ [Next]_vars => BaseInv'
  BY TypeStep, ProgressStep DEF BaseInv
<1>2. BaseInv /\ Crash => BaseInv'
  BY CrashKeepsBase
<1>3. Start \/ Resume => Init'
  BY DEF Start, Resume, ComesUp, Init, Configured
<1>4. Init' => BaseInv'
  BY InitKeepsBase, PTL
<1>5. [SessionNext]_allVars => [Next]_vars \/ Crash \/ Start \/ Resume
  BY DEF SessionNext, Fetch, Checkpoint, WritePart, Write, Bind, Stop, OtherStep,
         ParkFile, BrokerGone, Next, Main, allVars
<1> QED
  BY <1>1, <1>2, <1>3, <1>4, <1>5

LEMMA SessionBase == SessionSpec => []BaseInv
<1>1. SessionInit => BaseInv
  BY InitKeepsBase DEF SessionInit
<1> QED
  BY <1>1, BaseStep, PTL DEF SessionSpec, allVars
-----------------------------------------------------------------------------
(***************************************************************************)
(* SessionInv: every id there is, in a document, a URL or a command line,  *)
(* is that of an image that was taken, a checkpoint of some session, even  *)
(* if what is under it was torn; the compositor continues the session of   *)
(* the image it was told to resume; its roster is complete once it has     *)
(* one; and an image that is being written was not printed before.         *)
(***************************************************************************)
Contents == [created : Nat, surfaces : Seq(Nat \X Nat),
             layout : {"none", "initial", "restored"}]
Checkpoints == [content : Contents, session : Nat]

IsTaken(id) == id.created \in 1 .. Len(taken) /\ taken[id.created].content = id

Stored(docs) == /\ DOMAIN docs = Devices
                /\ \A d \in Devices : docs[d] = NoDocument \/ IsTaken(docs[d].id)

HasRoster == phase \notin {"fetching", "aborted"}

HistoryInv ==
  /\ given \in Seq(Nat)
  /\ taken \in Seq(Checkpoints)
  /\ \A n \in 1 .. Len(taken) : /\ taken[n].content.created = n
                                /\ taken[n].session \in 1 .. Len(given)
                                /\ taken[n].content.surfaces = Named(taken[n].session)

PlacesInv ==
  /\ device \in Devices
  /\ Stored(file) /\ Stored(served)
  /\ \A url \in printed : url.device \in Devices /\ IsTaken(url.id)
  /\ PrintedIsOnDisk

ProcessInv ==
  /\ session \in 1 .. Len(given)
  /\ phase = "fetching" => resuming
  /\ resuming => IsTaken(wanted.id) /\ session = taken[wanted.id.created].session
  /\ HasRoster => given[session] = hosts /\ roster = Named(session)
  /\ phase \in {"writing", "binding"} =>
       IsTaken(Document.id) /\ Document.id.created = Len(taken)
  /\ phase = "writing" => \A url \in printed : url.id.created # Len(taken)

SessionInv == HistoryInv /\ PlacesInv /\ ProcessInv

\* a taken image is of its session, and the printed URLs keep theirs
LEMMA TakenHasNumber ==
  ASSUME HistoryInv, NEW id, IsTaken(id)
  PROVE  /\ id.created \in 1 .. Len(taken) /\ id \in Contents
         /\ id.surfaces = Named(taken[id.created].session)
         /\ taken[id.created].session \in 1 .. Len(given)
<1>1. taken[id.created] \in Checkpoints
  BY ElementOfSeq DEF HistoryInv, IsTaken
<1> QED
  BY <1>1 DEF HistoryInv, IsTaken, Checkpoints

\* steps that leave behind nothing but, perhaps, another broker
LEMMA QuietKeeps ==
  ASSUME SessionInv,
         UNCHANGED <<hosts, resuming, image, wantVars, roster, file, printed, taken>>,
         Stored(served)',
         HasRoster' => HasRoster,
         phase' = "writing" => phase = "writing",
         phase' \in {"writing", "binding"} => phase \in {"writing", "binding"},
         phase' = "fetching" => phase = "fetching"
  PROVE  SessionInv'
<1>1. HistoryInv'
  BY DEF SessionInv, HistoryInv, wantVars, Named, CommandLine
<1>2. PlacesInv'
  BY DEF SessionInv, PlacesInv, Stored, IsTaken, PrintedIsOnDisk, wantVars
<1>3. Document' = Document
  BY DEF Document, Declared, Addresses
<1>4. ProcessInv'
  BY <1>3 DEF SessionInv, ProcessInv, IsTaken, wantVars, Named, CommandLine
<1> QED
  BY <1>1, <1>2, <1>4 DEF SessionInv

LEMMA QuietPhases ==
  ASSUME Quiet \/ ServeFails \/ NextCtrlC \/ BindBroker \/ Crash
  PROVE  /\ UNCHANGED <<hosts, resuming, image>>
         /\ HasRoster' => HasRoster
         /\ phase' = "writing" => phase = "writing"
         /\ phase' \in {"writing", "binding"} => phase \in {"writing", "binding"}
         /\ phase' = "fetching" => phase = "fetching"
<1> USE DEF HasRoster
<1>1. CASE ConnectNext \/ AllConnected \/ RestoreLayout \/ FirstCtrlC \/ AllResolved
  BY <1>1 DEF ConnectNext, AllConnected, RestoreLayout, FirstCtrlC, AllResolved
<1>2. CASE CallSuspend \/ Tick \/ PressCtrlC
           \/ \E i \in DOMAIN links : HostAnswers(i) \/ LinkLost(i)
  BY <1>2 DEF CallSuspend, Tick, PressCtrlC, HostAnswers, LinkLost
<1>3. CASE SuspendAcked \/ SuspendOnLostLink \/ SuspendTimesOut
  BY <1>3 DEF SuspendAcked, SuspendOnLostLink, SuspendTimesOut, Resolve
<1>4. CASE StartFails \/ ServeFails \/ Crash
  BY <1>4 DEF StartFails, ServeFails, Crash, Abort
<1>5. CASE NextCtrlC \/ BindBroker
  BY <1>5 DEF NextCtrlC, BindBroker
<1> QED
  BY <1>1, <1>2, <1>3, <1>4, <1>5 DEF Quiet

\* the brokers serve what was there before, what a file holds, or the new image
LEMMA ServedKeeps ==
  ASSUME SessionInv, taken' = taken,
         \/ served' = served
         \/ PortClosed
         \/ \E d \in Devices :
              \E doc \in {NoDocument, file[d]} : served' = [served EXCEPT ![d] = doc]
         \/ phase = "binding" /\ served' = [served EXCEPT ![device] = Document]
  PROVE  Stored(served)'
<1>1. /\ Stored(served) /\ Stored(file) /\ device \in Devices
      /\ phase = "binding" => IsTaken(Document.id)
  BY DEF SessionInv, PlacesInv, ProcessInv
<1>2. \A id : IsTaken(id)' <=> IsTaken(id)
  BY DEF IsTaken
<1>3. \/ served' = served
      \/ \E d \in Devices : \E doc :
           /\ doc = NoDocument \/ IsTaken(doc.id)
           /\ served' = [served EXCEPT ![d] = doc]
  BY <1>1 DEF PortClosed, Stored
<1>4. /\ DOMAIN served' = Devices
      /\ \A d \in Devices : served'[d] = NoDocument \/ IsTaken(served'[d].id)
  BY <1>1, <1>3 DEF Stored
<1> QED
  BY <1>4 DEF Stored, IsTaken

LEMMA FetchKeeps ==
  ASSUME SessionInv, BaseInv, Fetch
  PROVE  SessionInv'
<1>1. /\ phase = "fetching" /\ phase' = "connecting"
      /\ UNCHANGED <<hosts, resuming, image, wantVars, file, served, printed, taken>>
  BY DEF Fetch, FetchImage
<1>2. PICK doc \in Answers : doc.content = wanted.id /\ Loads(doc)
  BY DEF Fetch
<1>3. IsTaken(wanted.id) /\ session = taken[wanted.id.created].session
  BY <1>1 DEF SessionInv, ProcessInv
<1>4. roster' = Named(session) /\ Len(Named(session)) = hosts
  BY <1>2, <1>3, TakenHasNumber DEF Loads, SessionInv
<1>5. given[session] = hosts
  <2>1. given[session] \in Nat
    BY ElementOfSeq DEF SessionInv, HistoryInv, ProcessInv
  <2>2. Len(Named(session)) = given[session]
    BY <2>1, LenProperties DEF Named, CommandLine
  <2> QED
    BY <1>4, <2>2
<1>6. HistoryInv'
  BY <1>1 DEF SessionInv, HistoryInv, wantVars, Named, CommandLine
<1>7. PlacesInv'
  BY <1>1 DEF SessionInv, PlacesInv, Stored, IsTaken, PrintedIsOnDisk, wantVars
<1>8. ProcessInv'
  BY <1>1, <1>3, <1>4, <1>5
     DEF SessionInv, ProcessInv, IsTaken, wantVars, Named, CommandLine
<1> QED
  BY <1>6, <1>7, <1>8 DEF SessionInv

LEMMA AddressesOfAll ==
  ASSUME SessionInv, HasRoster
  PROVE  /\ Addresses([i \in 1 .. hosts |-> i]) = Named(session)
         /\ Named(session) \in Seq(Nat \X Nat)
<1>1. roster = Named(session) /\ given[session] = hosts /\ hosts \in Nat
      /\ session \in Nat
  BY ElementOfSeq, LenProperties DEF SessionInv, ProcessInv, HistoryInv
<1>2. Named(session) = [i \in 1 .. hosts |-> <<session, i>>]
  BY <1>1 DEF Named, CommandLine
<1>3. Addresses([i \in 1 .. hosts |-> i]) = [i \in 1 .. hosts |-> roster[i]]
  BY DEF Addresses
<1>4. \A i \in 1 .. hosts : /\ roster[i] = <<session, i>>
                           /\ <<session, i>> \in Nat \X Nat
  BY <1>1, <1>2
<1>5. Addresses([i \in 1 .. hosts |-> i]) = Named(session)
  BY <1>2, <1>3, <1>4
<1>6. Named(session) \in [1 .. hosts -> Nat \X Nat]
  BY <1>2, <1>4
<1>7. Named(session) \in Seq(Nat \X Nat)
  BY <1>1, <1>6
<1> QED
  BY <1>5, <1>7

\* a checkpoint is of the roster
LEMMA CheckpointKeeps ==
  ASSUME SessionInv, BaseInv, Checkpoint
  PROVE  SessionInv'
<1> DEFINE n == Len(taken) + 1
           content == [created |-> n, surfaces |-> Addresses(strip), layout |-> layout]
           new == [content |-> content, session |-> session]
<1>1. /\ phase = "checkpoint" /\ phase' = "writing"
      /\ image' = [surfaces |-> strip, layout |-> layout]
      /\ taken' = Append(taken, new)
      /\ UNCHANGED <<hosts, resuming, wantVars, roster, file, served, printed>>
  BY DEF Checkpoint, TakeImage
<1>2. HasRoster /\ strip = [i \in 1 .. hosts |-> i]
  BY <1>1 DEF HasRoster, BaseInv, ProgressInv
<1>3. Addresses(strip) = Named(session) /\ Named(session) \in Seq(Nat \X Nat)
  BY <1>2, AddressesOfAll
<1>4. /\ taken \in Seq(Checkpoints) /\ Len(taken) \in Nat
      /\ session \in 1 .. Len(given) /\ Len(given) \in Nat
  BY LenProperties DEF SessionInv, HistoryInv, ProcessInv
<1>5. new \in Checkpoints
  BY <1>3, <1>4 DEF Checkpoints, Contents, BaseInv, TypeInv, TypeOK
<1>6. /\ new.content = content /\ new.session = session
      /\ content.created = n /\ content.surfaces = Named(session)
  BY <1>3
<1> HIDE DEF new
<1>7. /\ taken' \in Seq(Checkpoints) /\ Len(taken') = n
      /\ \A i \in 1 .. Len(taken) : taken'[i] = taken[i]
      /\ taken'[n] = new
  BY <1>1, <1>4, <1>5, Extend
<1>8. /\ given' = given /\ session' = session /\ wanted' = wanted /\ device' = device
      /\ \A s : Named(s)' = Named(s)
  BY <1>1 DEF wantVars, Named, CommandLine
<1>9. \A id : IsTaken(id) => /\ IsTaken(id)'
                             /\ id.created # n
                             /\ taken'[id.created] = taken[id.created]
  BY <1>4, <1>7 DEF IsTaken
<1>10. HistoryInv'
  <2> SUFFICES ASSUME NEW k \in 1 .. n
               PROVE  /\ taken'[k].content.created = k
                      /\ taken'[k].session \in 1 .. Len(given)
                      /\ taken'[k].content.surfaces = Named(taken'[k].session)
    BY <1>7, <1>8 DEF SessionInv, HistoryInv
  <2>1. CASE k \in 1 .. Len(taken)
    BY <1>7, <2>1 DEF SessionInv, HistoryInv
  <2>2. CASE k = n
    BY <1>4, <1>6, <1>7, <2>2
  <2> QED
    BY <1>4, <2>1, <2>2
<1>11. PlacesInv'
  <2>1. Stored(file)' /\ Stored(served)'
    BY <1>1, <1>9 DEF Stored, SessionInv, PlacesInv
  <2> QED
    BY <1>1, <1>8, <1>9, <2>1 DEF SessionInv, PlacesInv, PrintedIsOnDisk
<1>12. Document' = Declared(content)
  BY <1>1, <1>7 DEF Document, Declared, Addresses
<1>13. IsTaken(Document.id)' /\ (Document.id.created)' = n
  BY <1>4, <1>6, <1>7, <1>12 DEF IsTaken, Declared
<1>14. ProcessInv'
  <2>1. resuming => /\ IsTaken(wanted.id)'
                    /\ session = taken'[wanted.id.created].session
    BY <1>9, <1>8 DEF SessionInv, ProcessInv
  <2>2. \A url \in printed : url.id.created # n
    BY <1>9 DEF SessionInv, PlacesInv
  <2> QED
    BY <1>1, <1>2, <1>7, <1>8, <1>13, <2>1, <2>2
       DEF SessionInv, ProcessInv, HasRoster
<1> QED
  BY <1>10, <1>11, <1>14 DEF SessionInv

\* the file of this device holds the newest checkpoint, or a part of it
LEMMA FileKeeps ==
  ASSUME SessionInv, phase = "writing", NEW doc, doc.id = Document.id,
         file' = [file EXCEPT ![device] = doc], taken' = taken
  PROVE  /\ Stored(file)'
         /\ \A url \in printed :
              /\ file'[url.device].id.created >= url.id.created
              /\ file'[url.device].id.created = url.id.created =>
                   file'[url.device] = Declared(url.id)
<1>1. /\ device \in Devices /\ DOMAIN file = Devices
      /\ IsTaken(doc.id) /\ doc.id.created = Len(taken) /\ Len(taken) \in Nat
  BY LenProperties
     DEF SessionInv, PlacesInv, ProcessInv, HistoryInv, Stored
<1>2. Stored(file)'
  BY <1>1 DEF Stored, IsTaken, SessionInv, PlacesInv
<1>3. ASSUME NEW url \in printed
      PROVE  /\ file'[url.device].id.created >= url.id.created
             /\ file'[url.device].id.created = url.id.created =>
                  file'[url.device] = Declared(url.id)
  <2>1. /\ url.device \in Devices /\ url.id.created \in 1 .. Len(taken)
        /\ url.id.created # Len(taken)
        /\ file[url.device].id.created >= url.id.created
        /\ file[url.device].id.created = url.id.created =>
             file[url.device] = Declared(url.id)
    BY DEF SessionInv, PlacesInv, ProcessInv, PrintedIsOnDisk, IsTaken
  <2>2. file'[url.device] = IF url.device = device THEN doc ELSE file[url.device]
    BY <1>1, <2>1
  <2> QED
    BY <1>1, <2>1, <2>2
<1> QED
  BY <1>2, <1>3

LEMMA WritePartKeeps ==
  ASSUME SessionInv, WritePart
  PROVE  SessionInv'
<1>1. /\ phase = "writing"
      /\ UNCHANGED <<vars, wantVars, roster, served, printed, taken>>
  BY DEF WritePart
<1>2. PICK doc \in CutOff(Document) : file' = [file EXCEPT ![device] = doc]
  BY DEF WritePart
<1>3. doc.id = Document.id
  BY <1>2 DEF CutOff, Document, Declared
<1>4. HistoryInv'
  BY <1>1 DEF SessionInv, HistoryInv, wantVars, Named, CommandLine
<1>5. PlacesInv'
  <2>1. Stored(file)' /\ PrintedIsOnDisk'
    BY <1>1, <1>2, <1>3, FileKeeps DEF PrintedIsOnDisk
  <2> QED
    BY <1>1, <2>1 DEF SessionInv, PlacesInv, Stored, IsTaken, wantVars
<1>6. Document' = Document
  BY <1>1 DEF Document, Declared, Addresses, vars
<1>7. ProcessInv'
  BY <1>1, <1>6
     DEF SessionInv, ProcessInv, IsTaken, HasRoster, wantVars, vars, Named,
         CommandLine
<1> QED
  BY <1>4, <1>5, <1>7 DEF SessionInv

LEMMA WriteKeeps ==
  ASSUME SessionInv, Write
  PROVE  SessionInv'
<1> DEFINE new == [device |-> device, id |-> Document.id]
<1>1. /\ phase = "writing" /\ phase' = "binding"
      /\ UNCHANGED <<hosts, resuming, image, wantVars, roster, served, taken>>
      /\ file' = [file EXCEPT ![device] = Document]
      /\ printed' = printed \cup {new}
  BY DEF Write, WriteImage, UrlPrinted
<1>2. /\ IsTaken(Document.id) /\ device \in Devices
      /\ Document = Declared(Document.id)
      /\ Document.id.created \in Nat
  BY <1>1, LenProperties
     DEF SessionInv, ProcessInv, PlacesInv, HistoryInv, Document, Declared
<1>3. file'[device] = Document
  BY <1>1, <1>2 DEF SessionInv, PlacesInv, Stored
<1>4. HistoryInv'
  BY <1>1 DEF SessionInv, HistoryInv, wantVars, Named, CommandLine
<1>5. PlacesInv'
  <2>1. Stored(file)'
    BY <1>1, FileKeeps
  <2>2. PrintedIsOnDisk'
    <3> SUFFICES ASSUME NEW url \in printed'
                 PROVE  /\ file'[url.device].id.created >= url.id.created
                        /\ file'[url.device].id.created = url.id.created =>
                             file'[url.device] = Declared(url.id)
      BY DEF PrintedIsOnDisk
    <3>1. CASE url \in printed
      BY <1>1, <3>1, FileKeeps
    <3>2. CASE url = new
      <4>1. url.device = device /\ url.id = Document.id
        BY <3>2
      <4> QED
        BY <1>2, <1>3, <4>1
    <3> QED
      BY <1>1, <3>1, <3>2
  <2>3. \A url \in printed' : url.device \in Devices /\ IsTaken(url.id)'
    BY <1>1, <1>2 DEF SessionInv, PlacesInv, IsTaken
  <2> QED
    BY <1>1, <2>1, <2>2, <2>3 DEF SessionInv, PlacesInv, Stored, IsTaken, wantVars
<1>6. Document' = Document
  BY <1>1 DEF Document, Declared, Addresses
<1>7. ProcessInv'
  BY <1>1, <1>6
     DEF SessionInv, ProcessInv, IsTaken, HasRoster, wantVars, Named, CommandLine
<1> QED
  BY <1>4, <1>5, <1>7 DEF SessionInv

LEMMA StartKeeps ==
  ASSUME SessionInv, BaseInv', Start
  PROVE  SessionInv'
<1>1. /\ resuming' = FALSE /\ phase' = "connecting" /\ device' \in Devices
      /\ session' = Len(given) + 1 /\ given' = Append(given, hosts')
      /\ roster' = CommandLine(session', hosts')
      /\ UNCHANGED <<file, served, printed, taken>>
  BY DEF Start, ComesUp
<1>2. given \in Seq(Nat) /\ Len(given) \in Nat /\ hosts' \in Nat
  BY LenProperties, CompositorAssumption
     DEF SessionInv, HistoryInv, BaseInv, TypeInv, TypeOK
<1>3. /\ given' \in Seq(Nat) /\ Len(given') = Len(given) + 1
      /\ \A s \in 1 .. Len(given) : given'[s] = given[s]
      /\ given'[session'] = hosts'
  BY <1>1, <1>2, Extend
<1>4. \A s \in 1 .. Len(given) : Named(s)' = Named(s)
  BY <1>3 DEF Named, CommandLine
<1>5. HistoryInv'
  BY <1>1, <1>2, <1>3, <1>4 DEF SessionInv, HistoryInv
<1>6. PlacesInv'
  BY <1>1 DEF SessionInv, PlacesInv, Stored, IsTaken, PrintedIsOnDisk
<1>7. roster' = Named(session)'
  BY <1>1, <1>3 DEF Named, CommandLine
<1>8. ProcessInv'
  BY <1>1, <1>2, <1>3, <1>7 DEF ProcessInv
<1> QED
  BY <1>5, <1>6, <1>8 DEF SessionInv

LEMMA ResumeKeeps ==
  ASSUME SessionInv, Resume
  PROVE  SessionInv'
<1>1. /\ resuming' = TRUE /\ phase' = "fetching" /\ device' \in Devices
      /\ wanted' \in printed \cup Logged
      /\ session' = taken[wanted'.id.created].session
      /\ UNCHANGED <<file, served, printed, taken, given>>
  BY DEF Resume, ComesUp
<1>2. IsTaken(wanted'.id)
  BY <1>1 DEF Logged, Stored, SessionInv, PlacesInv
<1>3. session' \in 1 .. Len(given)
  BY <1>1, <1>2, TakenHasNumber DEF SessionInv
<1>4. HistoryInv'
  <2>1. given' = given /\ taken' = taken
    BY <1>1
  <2>2. \A s : Named(s)' = Named(s)
    BY <2>1 DEF Named, CommandLine
  <2> QED
    BY <2>1, <2>2 DEF SessionInv, HistoryInv
<1>5. PlacesInv'
  BY <1>1 DEF SessionInv, PlacesInv, Stored, IsTaken, PrintedIsOnDisk
<1>6. ProcessInv'
  BY <1>1, <1>2, <1>3 DEF ProcessInv, HasRoster, IsTaken
<1> QED
  BY <1>4, <1>5, <1>6 DEF SessionInv

LEMMA SessionStep ==
  ASSUME SessionInv, BaseInv, BaseInv', [SessionNext]_allVars
  PROVE  SessionInv'
<1>1. CASE Bind \/ Stop \/ OtherStep \/ Crash
  <2>1. Quiet \/ ServeFails \/ NextCtrlC \/ BindBroker \/ Crash
    BY <1>1 DEF Bind, Stop, OtherStep, Quiet
  <2>2. UNCHANGED <<wantVars, roster, file, printed, taken>>
    BY <1>1 DEF Bind, Stop, OtherStep, Crash, sessionVars
  <2>3. Stored(served)'
    <3>1. \/ served' = served \/ PortClosed
          \/ phase = "binding" /\ served' = [served EXCEPT ![device] = Document]
      BY <1>1 DEF Bind, BindBroker, Stop, OtherStep, Crash, sessionVars
    <3> QED
      BY <2>2, <3>1, ServedKeeps
  <2> QED
    BY <2>1, <2>2, <2>3, QuietPhases, QuietKeeps
<1>2. CASE UNCHANGED allVars \/ \E d \in Devices : ParkFile(d) \/ BrokerGone(d)
  <2>1. UNCHANGED <<vars, wantVars, roster, file, printed, taken>>
    BY <1>2 DEF ParkFile, BrokerGone, allVars, sessionVars
  <2>2. \/ served' = served
        \/ \E d \in Devices :
             \E doc \in {NoDocument, file[d]} : served' = [served EXCEPT ![d] = doc]
    BY <1>2 DEF ParkFile, BrokerGone, allVars, sessionVars
  <2> QED
    BY <2>1, <2>2, ServedKeeps, QuietKeeps DEF vars, HasRoster
<1> QED
  BY <1>1, <1>2, FetchKeeps, CheckpointKeeps, WritePartKeeps, WriteKeeps,
     StartKeeps, ResumeKeeps DEF SessionNext

LEMMA SessionInvHolds == SessionSpec => []SessionInv
<1>1. SessionInit => SessionInv
  <2> SUFFICES ASSUME SessionInit PROVE SessionInv
    OBVIOUS
  <2>1. /\ ~resuming /\ phase = "connecting" /\ hosts \in Nat
        /\ given = <<hosts>> /\ session = 1
        /\ printed = {} /\ taken = <<>> /\ device \in Devices
        /\ roster = CommandLine(1, hosts)
        /\ file = [d \in Devices |-> NoDocument]
        /\ served = [d \in Devices |-> NoDocument]
    BY CompositorAssumption DEF SessionInit, Init, Configured
  <2>2. /\ given \in Seq(Nat) /\ Len(given) = 1 /\ given[1] = hosts
    BY <2>1
  <2>3. taken \in Seq(Checkpoints) /\ Len(taken) = 0
    BY <2>1, EmptySeq
  <2>4. HistoryInv
    BY <2>2, <2>3 DEF HistoryInv
  <2>5. PlacesInv
    BY <2>1 DEF PlacesInv, Stored, PrintedIsOnDisk
  <2>6. ProcessInv
    BY <2>1, <2>2 DEF ProcessInv, Named
  <2> QED
    BY <2>4, <2>5, <2>6 DEF SessionInv
<1>2. SessionInv /\ BaseInv /\ BaseInv' /\ [SessionNext]_allVars => SessionInv'
  BY SessionStep
<1> QED
  BY <1>1, <1>2, SessionBase, PTL DEF SessionSpec, allVars
-----------------------------------------------------------------------------
(***************************************************************************)
(* A session keeps its hosts in their order through any number of moves,   *)
(* crashes, torn files and other sessions, on any number of devices.       *)
(***************************************************************************)
THEOREM SessionMovesKeepTheSession == SessionSpec => []MovesKeepTheSession
<1>1. SessionInv => MovesKeepTheSession
  <2> SUFFICES ASSUME SessionInv PROVE MovesKeepTheSession
    OBVIOUS
  <2>1. DOMAIN taken = 1 .. Len(taken)
    BY LenProperties DEF SessionInv, HistoryInv
  <2> QED
    BY <2>1 DEF SessionInv, HistoryInv, ProcessInv, HasRoster, MovesKeepTheSession
<1> QED
  BY <1>1, SessionInvHolds, PTL

(***************************************************************************)
(* A printed URL has its whole image on the disk of its device until a     *)
(* later checkpoint there overwrites it.                                   *)
(***************************************************************************)
THEOREM SessionPrintedIsOnDisk == SessionSpec => []PrintedIsOnDisk
<1>1. SessionInv => PrintedIsOnDisk
  BY DEF SessionInv, PlacesInv
<1> QED
  BY <1>1, SessionInvHolds, PTL
=============================================================================
