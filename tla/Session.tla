------------------------------- MODULE Session -------------------------------
(***************************************************************************)
(* The life of sessions across processes and devices: compositors that     *)
(* come up, suspend, serve, end and crash one after the other, linked by   *)
(* what they leave behind, which is the image file of their device, the    *)
(* broker on its port, and the URLs they printed.                          *)
(*                                                                         *)
(* The compositor started last is Compositor, action by action; the ones   *)
(* before it have ended or are brokers in the background.  Every device    *)
(* uses the default file and the default port.  A compositor continues the *)
(* session whose URL it is given, or starts one with the hosts of its      *)
(* command line; <<s, i>> is the address of the i-th host of session s.    *)
(*                                                                         *)
(* The id of an image stands for its content, as in SessionImage: equal    *)
(* ids mean equal content.  The number of the checkpoint stands for the    *)
(* time, which is part of what is hashed.                                  *)
(***************************************************************************)
EXTENDS Compositor

CONSTANTS
  Devices,               \* machines that run compositors and brokers
  MaxProcesses           \* bound on the compositors started

ASSUME SessionAssumption == MaxProcesses \in Nat

VARIABLES
  device,                \* where the compositor runs
  wanted,                \* the URL it was told to resume, or NoUrl
  session,               \* history: the session it continues or starts
  roster,                \* addresses, of the command line or the image
  file,                  \* per device: what --out names
  served,                \* per device: what the broker on the port serves
  printed,               \* history: the URLs printed so far
  taken,                 \* history: per checkpoint, its content and session
  given,                 \* history: per session, how many hosts it was given
  processes              \* history: compositors started so far

wantVars == <<device, wanted, session, given>>
sessionVars == <<wantVars, roster, file, served, printed, taken, processes>>

NoContent == [created |-> 0, surfaces |-> <<>>, layout |-> "none"]
NoUrl == [device |-> "none", id |-> NoContent]
NoDocument == [id |-> NoContent, content |-> NoContent]

CommandLine(s, n) == [i \in 1 .. n |-> <<s, i>>]
Named(s) == CommandLine(s, given[s])

SessionInit ==
  /\ Init /\ ~resuming
  /\ device \in Devices
  /\ wanted = NoUrl
  /\ session = 1
  /\ given = <<hosts>>
  /\ roster = CommandLine(1, hosts)
  /\ file = [d \in Devices |-> NoDocument]
  /\ served = [d \in Devices |-> NoDocument]
  /\ printed = {}
  /\ taken = <<>>
  /\ processes = 1
-----------------------------------------------------------------------------
(***************************************************************************)
(* Documents.  The id that one declares stands in front.  One that was cut *)
(* off, in a file or on its way, still declares it, and still parses: it   *)
(* just names fewer surfaces, or lacks its layout.  (A document cut so     *)
(* that it does not parse is refused by all who read it.)                  *)
(***************************************************************************)
Declared(content) == [id |-> content, content |-> content]

CutOff(doc) ==
  LET all == doc.content.surfaces
  IN  {[doc EXCEPT !.content.surfaces = SubSeq(all, 1, k),
                   !.content.layout = "none"] : k \in 0 .. Len(all)}

Addresses(surfaces) == [i \in DOMAIN surfaces |-> roster[surfaces[i]]]

\* the image that the compositor has taken
Document == Declared([created  |-> Len(taken),
                      surfaces |-> Addresses(image.surfaces),
                      layout   |-> image.layout])

\* one that has lost its broker stops answering on its port
PortClosed == served' = IF phase = "serving"
                        THEN [served EXCEPT ![device] = NoDocument]
                        ELSE served
-----------------------------------------------------------------------------
(***************************************************************************)
(* Steps of the compositor that read or leave behind something.            *)
(***************************************************************************)

\* what the broker at that URL answers: its document, or a part if it dies
Answers == LET doc == served[wanted.device]
           IN  IF doc.id = wanted.id THEN {doc} \cup CutOff(doc) ELSE {}

\* the compositor connects to what the document names
Loads(doc) ==
  /\ Len(doc.content.surfaces) = hosts
  /\ roster' = doc.content.surfaces

\* fault: the document is believed under the id that it declares
FetchDeclared ==
  /\ FetchImage
  /\ \E doc \in Answers : doc.id = wanted.id /\ Loads(doc)
  /\ UNCHANGED <<wantVars, file, served, printed, taken, processes>>

\* fetch_image: the id computed from what was parsed must be the one in the URL
Fetch ==
  /\ FetchImage
  /\ \E doc \in Answers : doc.content = wanted.id /\ Loads(doc)
  /\ UNCHANGED <<wantVars, file, served, printed, taken, processes>>

Checkpoint ==
  /\ TakeImage
  /\ LET content == [created  |-> Len(taken) + 1,
                     surfaces |-> Addresses(strip),
                     layout   |-> layout]
     IN  taken' = Append(taken, [content |-> content, session |-> session])
  /\ UNCHANGED <<wantVars, roster, file, served, printed, processes>>

UrlPrinted == printed' = printed \cup {[device |-> device, id |-> Document.id]}

\* fault: the URL is printed before the file is written
WriteAfterPrint ==
  /\ phase = "writing"
  /\ \E doc \in CutOff(Document) : file' = [file EXCEPT ![device] = doc]
  /\ UrlPrinted
  /\ UNCHANGED <<vars, wantVars, roster, served, taken, processes>>

\* fs::write has truncated the previous image, and written a part of this one
WritePart ==
  /\ phase = "writing"
  /\ \E doc \in CutOff(Document) : file' = [file EXCEPT ![device] = doc]
  /\ UNCHANGED <<vars, wantVars, roster, served, printed, taken, processes>>

\* then the URL
Write ==
  /\ WriteImage
  /\ file' = [file EXCEPT ![device] = Document]
  /\ UrlPrinted
  /\ UNCHANGED <<wantVars, roster, served, taken, processes>>

\* the port must be free
Bind ==
  /\ BindBroker
  /\ served[device] = NoDocument
  /\ served' = [served EXCEPT ![device] = Document]
  /\ UNCHANGED <<wantVars, roster, file, printed, taken, processes>>

Stop ==
  /\ ServeFails \/ NextCtrlC
  /\ PortClosed
  /\ UNCHANGED <<wantVars, roster, file, printed, taken, processes>>

OtherStep ==
  /\ \/ ConnectNext \/ StartFails \/ AllConnected \/ RestoreLayout
     \/ FirstCtrlC \/ CallSuspend \/ SuspendAcked \/ SuspendOnLostLink
     \/ SuspendTimesOut \/ AllResolved \/ Tick \/ PressCtrlC
     \/ \E i \in DOMAIN links : HostAnswers(i) \/ LinkLost(i)
  /\ UNCHANGED sessionVars
-----------------------------------------------------------------------------
(***************************************************************************)
(* Crashes, and what users do around the compositor.                       *)
(***************************************************************************)
Crash ==
  /\ Running
  /\ Abort(Phases)
  /\ PortClosed
  /\ UNCHANGED <<wantVars, roster, file, printed, taken, processes>>

\* the next compositor comes up as in Init; the one before ended, or serves on
ComesUp ==
  /\ phase \in {"serving", "ended", "aborted"}
  /\ processes < MaxProcesses
  /\ processes' = processes + 1
  /\ device' \in Devices
  /\ hosts' \in {n \in 0 .. MaxHosts : resuming' \/ n > 0}
  /\ phase' = IF resuming' THEN "fetching" ELSE "connecting"
  /\ links' = <<>> /\ lost' = {} /\ answered' = <<>>
  /\ strip' = <<>> /\ layout' = "initial"
  /\ results' = <<>> /\ waited' = 0 /\ deadline' = 0
  /\ presses' = 0 /\ pressed' = 0
  /\ image' = NoImage
  /\ UNCHANGED <<file, served, printed, taken>>

\* it starts a session of its own
Start ==
  /\ resuming' = FALSE
  /\ ComesUp
  /\ wanted' = NoUrl
  /\ session' = Len(given) + 1
  /\ given' = Append(given, hosts')
  /\ roster' = CommandLine(session', hosts')

\* a standalone broker logs the URL of what it serves, under the declared id
Logged == {[device |-> d, id |-> served[d].id] :
             d \in {e \in Devices : served[e] # NoDocument}}

\* it resumes a URL that was printed or logged, on any device
Resume ==
  /\ resuming' = TRUE
  /\ ComesUp
  /\ wanted' \in printed \cup Logged
  /\ session' = taken[wanted'.id.created].session
  /\ roster' = <<>>
  /\ UNCHANGED given

\* the standalone broker parks what the file holds when it is read
ParkFile(d) ==
  /\ served[d] = NoDocument
  /\ file[d] # NoDocument
  /\ served' = [served EXCEPT ![d] = file[d]]
  /\ UNCHANGED <<vars, wantVars, roster, file, printed, taken, processes>>

\* a broker in the background, of either kind, is stopped or crashes
BrokerGone(d) ==
  /\ served[d] # NoDocument
  /\ ~ (phase = "serving" /\ d = device)
  /\ served' = [served EXCEPT ![d] = NoDocument]
  /\ UNCHANGED <<vars, wantVars, roster, file, printed, taken, processes>>

SessionNext ==
  \/ Fetch \/ Checkpoint \/ WritePart \/ Write \/ Bind \/ Stop \/ OtherStep
  \/ Crash \/ Start \/ Resume
  \/ \E d \in Devices : ParkFile(d) \/ BrokerGone(d)

SessionSpec == SessionInit /\ [][SessionNext]_<<vars, sessionVars>>
-----------------------------------------------------------------------------
(***************************************************************************)
(* A session keeps its hosts in their order through every move: each image *)
(* of a session names what the command line that started it did, and so    *)
(* does each compositor that continues it once it has read the image, but  *)
(* for one that could not come up.  No crash, torn file, document cut off  *)
(* on its way, other session on the device or early Ctrl-C gets a host     *)
(* lost, swapped or added.                                                 *)
(* (main.rs, run, resume; session/mod.rs, image_from_strip, fetch_image)   *)
(***************************************************************************)
MovesKeepTheSession ==
  /\ \A n \in DOMAIN taken :
       taken[n].content.surfaces = Named(taken[n].session)
  /\ phase \notin {"fetching", "aborted"} => roster = Named(session)

(***************************************************************************)
(* A printed URL has its whole image on the disk of its device, so that it *)
(* can be parked again after a crash, until a later checkpoint there       *)
(* overwrites it.  (main.rs, suspend_and_serve)                            *)
(***************************************************************************)
PrintedIsOnDisk ==
  \A url \in printed :
    LET doc == file[url.device]
    IN  /\ doc.id.created >= url.id.created
        /\ doc.id.created = url.id.created => doc = Declared(url.id)

(***************************************************************************)
(* The broker at the address of a printed URL serves the image the URL     *)
(* names, if there is one, the compositor is not just about to start it,   *)
(* and nothing newer was printed there.                                    *)
(* (main.rs:14, "parks it on the broker so a second device can resume from *)
(* the printed URL")                                                       *)
(***************************************************************************)
Newest(url) ==
  \A other \in printed :
    other.device = url.device => other.id.created <= url.id.created

PrintedUrlIsServed ==
  phase # "binding" =>
    \A url \in printed :
      Newest(url) /\ served[url.device] # NoDocument =>
        served[url.device].id = url.id
=============================================================================
