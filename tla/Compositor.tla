----------------------------- MODULE Compositor ------------------------------
(***************************************************************************)
(* The life of one compositor process (simulboot-client/src/main.rs): it   *)
(* connects to its hosts or resumes a session, waits for Ctrl-C, suspends  *)
(* every link in turn, takes the session image, writes it and serves it.   *)
(* A link is what LinkContract says of it, and a surface is the number of  *)
(* its host: host i is the i-th on the command line, or in the image.      *)
(***************************************************************************)
EXTENDS Naturals, Sequences, FiniteSets

CONSTANTS
  MaxHosts,              \* bound on the hosts of a session
  Timeout,               \* what suspend() waits for an ack, in clock ticks (5s)
  MaxPresses             \* bound on the presses of Ctrl-C

ASSUME CompositorAssumption ==
  /\ MaxHosts \in Nat
  /\ Timeout \in Nat \ {0}
  /\ MaxPresses \in Nat

VARIABLES
  hosts,                 \* how many hosts the command line or the image names
  resuming,              \* Mode::Resume
  phase,
  links,                 \* the Links that connect returned, in order
  lost,                  \* those whose connection is gone and tasks have ended
  answered,              \* per link: the SuspendAck is in the ack channel
  strip,                 \* the surfaces on the strip, left to right
  layout,                \* scroll and focus: "initial", or "restored"
  results,               \* acks of suspend_and_serve, so far
  waited,                \* the clock, started at the first suspend()
  deadline,              \* when the running suspend() gives up
  presses,               \* unread messages of the Ctrl-C channel
  pressed,               \* history: presses so far
  image                  \* the session image, or NoImage

linkVars == <<links, lost, answered>>
stripVars == <<strip, layout>>
suspendVars == <<results, waited, deadline>>
pressVars == <<presses, pressed>>
vars == <<hosts, resuming, phase, linkVars, stripVars, suspendVars, pressVars,
          image>>

NoImage == [surfaces |-> <<>>, layout |-> "none"]

Phases == {"fetching", "connecting", "restoring", "live", "suspending",
           "checkpoint", "writing", "binding", "serving", "ended", "aborted"}
Running == phase \notin {"ended", "aborted"}

TypeOK ==
  /\ hosts \in 0 .. MaxHosts
  /\ resuming \in BOOLEAN
  /\ phase \in Phases
  /\ links \in Seq({"up", "suspending", "resolved"})
  /\ Len(links) <= hosts
  /\ lost \subseteq DOMAIN links
  /\ answered \in Seq(BOOLEAN)
  /\ Len(answered) = Len(links)
  /\ strip \in Seq(1 .. hosts)
  /\ layout \in {"initial", "restored"}
  /\ results \in Seq(BOOLEAN)
  /\ waited \in Nat /\ deadline \in Nat
  /\ presses \in 0 .. MaxPresses /\ pressed \in 0 .. MaxPresses
  /\ image.surfaces \in Seq(1 .. hosts)
  /\ image.layout \in {"none", "initial", "restored"}

\* Config::from_args wants hosts or a URL to resume, and not both; a command line
\* for hosts names one at least, the image behind a URL may name none
Configured ==
  /\ resuming \in BOOLEAN
  /\ hosts \in {n \in 0 .. MaxHosts : resuming \/ n > 0}

Init ==
  /\ Configured
  /\ phase = IF resuming THEN "fetching" ELSE "connecting"
  /\ links = <<>>
  /\ lost = {}
  /\ answered = <<>>
  /\ strip = <<>>
  /\ layout = "initial"
  /\ results = <<>>
  /\ waited = 0
  /\ deadline = 0
  /\ presses = 0
  /\ pressed = 0
  /\ image = NoImage
-----------------------------------------------------------------------------
(***************************************************************************)
(* The user and the hosts.  The handler of SIGINT is there from the start  *)
(* and only queues the press.  A host acknowledges once it was told, and   *)
(* any link can be lost.                                                   *)
(***************************************************************************)
PressCtrlC ==
  /\ Running
  /\ pressed < MaxPresses
  /\ pressed' = pressed + 1
  /\ presses' = presses + 1
  /\ UNCHANGED <<hosts, resuming, phase, linkVars, stripVars, suspendVars, image>>

HostAnswers(i) ==
  /\ i \notin lost
  /\ links[i] \in {"suspending", "resolved"}
  /\ ~answered[i]
  /\ answered' = [answered EXCEPT ![i] = TRUE]
  /\ UNCHANGED <<hosts, resuming, phase, links, lost, stripVars, suspendVars,
                 pressVars, image>>

LinkLost(i) ==
  /\ i \notin lost
  /\ lost' = lost \cup {i}
  /\ UNCHANGED <<hosts, resuming, phase, links, answered, stripVars, suspendVars,
                 pressVars, image>>
-----------------------------------------------------------------------------
(***************************************************************************)
(* connect_live and resume.                                                *)
(***************************************************************************)
Abort(from) ==
  /\ phase \in from
  /\ phase' = "aborted"
  /\ UNCHANGED <<hosts, resuming, linkVars, stripVars, suspendVars, pressVars, image>>

FetchImage ==
  /\ phase = "fetching"
  /\ phase' = "connecting"
  /\ UNCHANGED <<hosts, resuming, linkVars, stripVars, suspendVars, pressVars, image>>

\* fault: surfaces are numbered from 0
ConnectFromZero ==
  /\ phase = "connecting"
  /\ Len(links) < hosts
  /\ links' = Append(links, "up")
  /\ answered' = Append(answered, FALSE)
  /\ strip' = Append(strip, Len(links))
  /\ UNCHANGED <<hosts, resuming, phase, lost, layout, suspendVars, pressVars,
                 image>>

ConnectNext ==
  /\ phase = "connecting"
  /\ Len(links) < hosts
  /\ links' = Append(links, "up")
  /\ answered' = Append(answered, FALSE)
  /\ strip' = Append(strip, Len(links) + 1)
  /\ UNCHANGED <<hosts, resuming, phase, lost, layout, suspendVars, pressVars,
                 image>>

\* the fetch or a host fails: `?` ends the process with what it had connected
StartFails ==
  /\ phase = "connecting" => Len(links) < hosts
  /\ Abort({"fetching", "connecting"})

AllConnected ==
  /\ phase = "connecting"
  /\ Len(links) = hosts
  /\ phase' = IF resuming THEN "restoring" ELSE "live"
  /\ UNCHANGED <<hosts, resuming, linkVars, stripVars, suspendVars, pressVars, image>>

\* set_scroll and set_focus_opt; a session without surfaces ends here
RestoreLayout ==
  /\ phase = "restoring"
  /\ layout' = "restored"
  /\ phase' = IF hosts = 0 THEN "aborted" ELSE "live"
  /\ UNCHANGED <<hosts, resuming, linkVars, strip, suspendVars, pressVars, image>>
-----------------------------------------------------------------------------
(***************************************************************************)
(* suspend_and_serve.  futures_join_all awaits one link after the other: a *)
(* link is told to suspend when the one before it has resolved.            *)
(***************************************************************************)
Current == Len(results) + 1

\* fault: Ctrl-C is awaited beside the connecting, not after it
FirstCtrlCAnytime ==
  /\ phase \in {"connecting", "restoring", "live"}
  /\ presses > 0
  /\ presses' = presses - 1
  /\ phase' = "suspending"
  /\ UNCHANGED <<hosts, resuming, linkVars, stripVars, suspendVars, pressed,
                 image>>

FirstCtrlC ==
  /\ phase = "live"
  /\ presses > 0
  /\ presses' = presses - 1
  /\ phase' = "suspending"
  /\ UNCHANGED <<hosts, resuming, linkVars, stripVars, suspendVars, pressed,
                 image>>

CallSuspend ==
  /\ phase = "suspending"
  /\ Current <= Len(links)
  /\ links[Current] = "up"
  /\ links' = [links EXCEPT ![Current] = "suspending"]
  /\ deadline' = waited + Timeout
  /\ UNCHANGED <<hosts, resuming, phase, lost, answered, stripVars, results,
                 waited, pressVars, image>>

Resolve(ok) ==
  /\ results' = Append(results, ok)
  /\ links' = [links EXCEPT ![Current] = "resolved"]
  /\ UNCHANGED <<hosts, resuming, phase, lost, answered, stripVars, waited,
                 deadline, pressVars, image>>

Awaiting ==
  /\ phase = "suspending"
  /\ Current <= Len(links)
  /\ links[Current] = "suspending"

\* fault: the links share one ack channel
SuspendAckedByAny ==
  Awaiting /\ (\E i \in DOMAIN links : answered[i]) /\ Resolve(TRUE)

SuspendAcked == Awaiting /\ answered[Current] /\ Resolve(TRUE)

\* the reader has ended, and no ack came before
SuspendOnLostLink ==
  Awaiting /\ Current \in lost /\ ~answered[Current] /\ Resolve(FALSE)

TimedOut == waited = deadline

\* fault: a suspend that timed out is tried again
SuspendRetried ==
  /\ Awaiting
  /\ TimedOut
  /\ deadline' = waited + Timeout
  /\ UNCHANGED <<hosts, resuming, phase, linkVars, stripVars, results, waited,
                 pressVars, image>>

\* fault: the timer only wakes the wait for the ack
SuspendWaitsOn == Awaiting /\ TimedOut /\ ~answered[Current] /\ UNCHANGED vars

SuspendTimesOut ==
  Awaiting /\ TimedOut /\ ~answered[Current] /\ Resolve(FALSE)

\* time passes while a suspend() is waiting, and its timer is not late
Tick ==
  /\ Awaiting
  /\ waited < deadline
  /\ waited' = waited + 1
  /\ UNCHANGED <<hosts, resuming, phase, linkVars, stripVars, results, deadline,
                 pressVars, image>>

\* fault: one ack is enough to go on
FirstResolved ==
  /\ phase = "suspending"
  /\ results # <<>>
  /\ phase' = "checkpoint"
  /\ UNCHANGED <<hosts, resuming, linkVars, stripVars, suspendVars, pressVars, image>>

AllResolved ==
  /\ phase = "suspending"
  /\ Len(results) = Len(links)
  /\ phase' = "checkpoint"
  /\ UNCHANGED <<hosts, resuming, linkVars, stripVars, suspendVars, pressVars, image>>

\* image_from_strip, under the strip's lock
TakeImage ==
  /\ phase = "checkpoint"
  /\ image' = [surfaces |-> strip, layout |-> layout]
  /\ phase' = "writing"
  /\ UNCHANGED <<hosts, resuming, linkVars, stripVars, suspendVars, pressVars>>

\* the file, then the printed URL, then the broker's socket
WriteImage ==
  /\ phase = "writing"
  /\ phase' = "binding"
  /\ UNCHANGED <<hosts, resuming, linkVars, stripVars, suspendVars, pressVars, image>>

BindBroker ==
  /\ phase = "binding"
  /\ phase' = "serving"
  /\ UNCHANGED <<hosts, resuming, linkVars, stripVars, suspendVars, pressVars, image>>

\* the file cannot be written, the port is taken, or accept fails
ServeFails == Abort({"writing", "binding", "serving"})

\* serve polls its shutdown future, the next press in the channel, first
NextCtrlC ==
  /\ phase = "serving"
  /\ presses > 0
  /\ presses' = presses - 1
  /\ phase' = "ended"
  /\ UNCHANGED <<hosts, resuming, linkVars, stripVars, suspendVars, pressed,
                 image>>

Main ==
  \/ FetchImage \/ ConnectNext \/ StartFails \/ AllConnected \/ RestoreLayout
  \/ FirstCtrlC \/ CallSuspend \/ SuspendAcked \/ SuspendOnLostLink
  \/ SuspendTimesOut \/ AllResolved \/ TakeImage \/ WriteImage \/ BindBroker
  \/ ServeFails \/ NextCtrlC

Next ==
  \/ Main
  \/ Tick
  \/ PressCtrlC
  \/ \E i \in DOMAIN links : HostAnswers(i) \/ LinkLost(i)

Spec == Init /\ [][Next]_vars

(***************************************************************************)
(* The main task runs on when what it awaits is ready, and time passes.    *)
(* Hosts need not answer and the user need not press anything.             *)
(***************************************************************************)
FairSpec == Spec /\ WF_vars(Main) /\ WF_vars(Tick)
-----------------------------------------------------------------------------
HasImage == image # NoImage

(***************************************************************************)
(* A session image is always of the whole session: every surface, in its   *)
(* place, and after a resume the restored scroll and focus, even if Ctrl-C *)
(* was pressed while the session was still coming up.                      *)
(* (main.rs, run, resume)                                                  *)
(***************************************************************************)
ImageIsWholeSession ==
  HasImage =>
    /\ image.surfaces = [i \in 1 .. hosts |-> i]
    /\ resuming => image.layout = "restored"

(***************************************************************************)
(* The checkpoint comes after the suspension: no image is taken before     *)
(* every host was told to suspend and answered, was lost, or used up its   *)
(* time, and a link counts as acknowledged only if its own host answered.  *)
(* (main.rs, suspend_and_serve; F3)                                        *)
(***************************************************************************)
CheckpointAfterSuspend ==
  HasImage =>
    /\ Len(results) = Len(links)
    /\ \A i \in DOMAIN results :
         /\ links[i] = "resolved"
         /\ results[i] => answered[i]

(***************************************************************************)
(* Suspending takes as long as it has to and no longer: one timeout for    *)
(* each host at most, whatever is lost and whoever answers late, and no    *)
(* host with its link up is given up before a whole timeout went by, for   *)
(* it alone.  (main.rs, futures_join_all; conn.rs, suspend)                *)
(***************************************************************************)
Silent == {i \in DOMAIN results : ~results[i] /\ i \notin lost}

WaitIsBounded ==
  /\ waited <= Len(links) * Timeout
  /\ Cardinality(Silent) * Timeout <= waited

(***************************************************************************)
(* A press of Ctrl-C in a live session ends in the session being served,   *)
(* or in an error, whatever the hosts do.  (main.rs, suspend_and_serve)    *)
(***************************************************************************)
CtrlCSuspends ==
  phase = "live" /\ presses > 0 ~> phase \in {"serving", "aborted"}

(***************************************************************************)
(* A live session does not keep a surface on its strip for ever once the   *)
(* surface's host is lost.  (SIMULBOOT_HANDOFF.md:113, "A disconnecting    *)
(* surface disappears cleanly")                                            *)
(***************************************************************************)
Stale(i) == phase = "live" /\ i \in lost /\ \E p \in DOMAIN strip : strip[p] = i

LostSurfaceLeaves == \A i \in 1 .. MaxHosts : []<>~Stale(i)

Status(i) == IF i \in DOMAIN links THEN links[i] ELSE "connecting"
Answered(i) == i \in DOMAIN links /\ answered[i]
Outcome(i) == IF i \notin DOMAIN results THEN "none"
              ELSE IF results[i] THEN "acked" ELSE "unacked"

Contract(i) == INSTANCE LinkContract WITH status   <- Status(i),
                                          answered <- Answered(i),
                                          outcome  <- Outcome(i)

(***************************************************************************)
(* Each link is used as LinkContract allows: suspend() is called once, on  *)
(* a link that came up, and believed only if the host answered.            *)
(* (main.rs, suspend_and_serve)                                            *)
(***************************************************************************)
UsesLinksByContract ==
  /\ \A i \in 1 .. MaxHosts : Contract(i)!ContractInit
  /\ [][\A i \in 1 .. MaxHosts :
          Contract(i)!ContractNext \/ UNCHANGED Contract(i)!contractVars]_vars
=============================================================================
