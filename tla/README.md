# A TLA+ model of Simulboot

Simulboot shows surfaces that are streamed by several *hosts* on one horizontally
scrollable strip of a *compositor*. On Ctrl-C the compositor suspends its hosts, writes a
*session image*, and turns into a *broker* that serves the image over HTTP; another
compositor resumes the session from that URL, on another device if need be. This
directory models the parts of that program where things happen concurrently or in an
order that matters, checks them with TLC, and proves the safety properties with TLAPS.

Paths below are relative to `src/`. `client`, `host`, `common` and `broker` stand for
`simulboot-client/src`, `simulboot-host/src`, `simulboot-common/src` and
`simulboot-broker/src`.

## 1. The system

| Component | State | Operations | Talks to |
|---|---|---|---|
| Strip (`client/strip.rs`) | ordered surfaces, scroll position, focus, viewport | append, insert_ordered, remove, scroll, set_scroll, click, set_focus_opt, note_frame, visible | compositor tasks, by a shared lock |
| Compositor life cycle (`client/main.rs`) | mode, links, queue of Ctrl-C presses, image | run, connect_live, resume, suspend_and_serve | Link, Strip, broker |
| Link (`client/conn.rs`) | control channel (64), ack channel (1), writer and reader task, datagram pump | connect, send_input, suspend | host, over QUIC |
| Host connection (`host/main.rs`, serve_connection) | input channel (64), frame channel (8), capture task, frame task | announce, the control loop, tear down | Link, CaptureSource |
| Capture (`host/capture.rs`) | none of its own | run | the two channels of the host connection |
| Structure stream (`common/wire.rs`, quinn) | bytes under way, flow control | encode_frame, decode_frame, read_message | both ends |
| Content channel (`send_frame`, datagrams, the pump of `connect`) | frame channel (8), datagrams under way, frame event channel (256) | forward, pump, note | capture to strip |
| Session image (`common/session.rs`, `client/session/mod.rs`) | XML, content id | image_from_strip, to_xml, from_xml, verify, fetch_image | strip, broker |
| Coefficients and migration (`common/coefficients.rs`, `common/galois.rs`) | none | alpha, gamma, the order of coefficients | session image |
| Broker (`broker/lib.rs`, `broker/main.rs`) | listening socket, handlers | serve, handle, shutdown | resuming compositors |
| Renderer, TLS and QUIC set-up, command lines, native capture stubs | none that matters here | | |

What is hard in it:

- **Concurrency.** The host's handler, its blocking capture backend and its frame task
  meet in two bounded channels; the compositor's owner, writer and reader meet in two
  more. Three bounded queues in a row carry back pressure from a slow backend to the user.
- **Ordering.** A `SuspendAck` promises that earlier input has arrived. A resume must send
  `Reconnect` before anything else, and must insert all surfaces before it restores scroll
  and focus.
- **Loss.** A connection can break at any moment, between the host's ack and its arrival
  included, and `?` leaves `serve_connection` from many points.
- **Timeouts.** `suspend()` races an ack, the end of the reader and a timer, and is called
  for one link after the other.
- **Early and repeated signals.** Ctrl-C is queued from the start of the program, whatever
  phase it is in.
- **Persistence.** A session leaves the process as text and comes back through a parser
  that carries builders from event to event, over a connection that can be cut anywhere;
  its identity is a hash that is computed at both ends.
- **Crashes.** What a process leaves behind is a file that is overwritten in place, a
  printed URL and a broker on a port. The next compositor starts from those, and so does
  the standalone broker.
- **Boundaries.** Scroll clamping, surfaces ending at the edge of the view, default widths
  on another viewport.

`PROJECT.json` lists these under "hazards", each at its line with the properties that
cover it.

## 2. Modules

| Module | Models | Composed by |
|---|---|---|
| `StripOps` | the geometry and the mutators of the strip as operators on sequences | `Strip` |
| `Strip` | every operation of the strip, checkpoint and resume | |
| `StructureStream` | one bidirectional QUIC stream: two FIFOs with flow control that can break | `HostConnection`, `Link` |
| `HostConnection` | `serve_connection`, the capture backend, the frame task | `Connection` |
| `Link` | `connect`, the writer and reader tasks, `send_input`, `suspend` | `Connection` |
| `LinkContract` | abstract: what the rest of the compositor relies on from one link | refined by `Connection`, used by `Compositor` |
| `Connection` | `HostConnection` and `Link` over one `StructureStream` | |
| `Content` | frames from the backend to the strip: frame task, datagrams, pump, frame events | extends `Connection` |
| `Compositor` | `run`, `connect_live`, `resume`, `suspend_and_serve` with any number of links | `Session` |
| `Session` | compositors one after the other on several devices, with files, brokers, URLs, crashes | extends `Compositor` |
| `MessageStream` | abstract: messages arrive whole, once and in order, and the stream ends or fails for a reason | refined by `Framing` |
| `Framing` | `encode_frame`, `decode_frame`, `read_message` over bytes in chunks | |
| `Coefficients` | the v1 coefficients and their order | `Galois` |
| `SessionImage` | the v0 image, its content id, what its text form loses | `Galois` |
| `Galois` | v1 images, `validate`, `alpha`, `gamma`, the order and the laws | `ImageDocument` |
| `ImageDocument` | the writers, as sequences of XML events, and damaged documents | `ImageParser` |
| `ImageParser` | both parsers, one action per kind of event | |
| `Broker` | `serve`, its connection tasks, and `fetch_image` at the other end | |
| `ConnectionProofs` (with `Content`), `CompositorProofs` (with `Session`), `BrokerProofs`, `FramingProofs`, `StripProofs`, `GaloisProofs`, `ParserProofs`, `ImageProofs` | theorems | |

`LinkContract` is the seam between the two halves. `Connection` (queues, tasks, losses)
implements it, with `acks > 0` as "the host has answered"; `Compositor` takes only steps
that `LinkContract` allows, for each of its links. So what `Compositor` shows with
abstract links holds with the detailed ones, as far as safety goes.

Definitions marked `fault` are not part of any specification. Each is what its neighbour
would be with a plausible bug: a clamp left out, an ack channel shared by all links, a
`try_send` where the code awaits. `PROJECT.json` "mutants" substitutes them one at a
time, and a property of the run must then fail.

### 2.1 Strip

A surface is `[id, order, width, frames]`; `surfaces` is the `Vec`, from left to right.
`Edge(s)[i]` is the running sum of `surface_left`. Actions and code:

| Action | `client/strip.rs` |
|---|---|
| `AppendSurface` | `append`: order = count, default width viewport / 3 |
| `Remove` | `remove`: first match, renumber, drop focus, clamp scroll |
| `ScrollBy`, `SetFocus`, `Click` | `scroll`, `set_focus_opt`, `click` / `hit_test` |
| `NoteFrame` | `note_frame`, called by the datagram pump in every mode |
| `Checkpoint` | `image_from_strip`, then the start of a process that resumes on some viewport |
| `RestoreNext`, `RestoreLayout` | the loop of `resume` with `insert_ordered`, then `set_scroll` and `set_focus_opt` |

Abstractions: lengths are integers, where the code has `f32` (the geometry only adds,
subtracts and compares; rounding is not modelled); the vertical band test is left out; a
viewport is at least 3 wide, so that the default width is positive. `Widths` stands for
hints of any caller. The shipped compositor is headless: it only appends, notes frames,
checkpoints and restores. The model drives the rest of the public API as an interactive
front end would. A resume assumes that each host announces the surface id that the image
has for it. The code compares the two nowhere: `resume` takes the announced id
(`client/main.rs:155`) with the image's order, so a host that was started again under
another id comes back under that one, and a focus on the old id is dropped.

Inserting keeps the order of equal keys: `Inserted` is push plus *stable* sort.

### 2.2 Connection

`hostPc` is where `serve_connection` is: `read`, `route` (awaiting room in the input
channel), `ack`, `reok`, then `drop`, `await`, `cancel` for the tear down, `done` or
`failed` for its two ways to return. `linkPc` is where the owner of the `Link` is:
connecting, live, `sending` and `waiting` inside `suspend()`. Each task takes one step per
await, so every interleaving at an await is a behaviour of the model. Messages are
numbered in the order in which their senders were admitted (`log`), which lets the
properties compare what was sent with what was routed.

- *External*: QUIC is a reliable FIFO per direction whose unread suffix is lost when the
  connection is. `StreamCap` is flow control counted in messages.
- *Drop semantics*: returning with `Err` drops `input_tx`, aborts nothing, closes the
  connection; a task that ends drops its channel ends. These are parts of the actions.
- *Backends*: `Native = FALSE` is `NullCapture`, the only backend there is. `Native =
  TRUE` is any backend that keeps the contract in `host/capture.rs`: it may produce
  frames, block without taking input, end when its source does, and must return when both
  channels are closed.
- *Not modelled*: `sid == surface_id` for input events. `send_input` always fills in the
  id this host announced, so the comparison cannot fail. Nor does the handler fail with
  the connection up: the `?` operators of `host/main.rs:82-108` would also pass on a message
  that does not decode or exceeds 16 MiB, but all that this compositor sends is encoded by
  the same enum and a few bytes long. (The one exception is the id in `Reconnect`, which a
  document declares; one of 16 MiB is left out.) `Framing` has what a message that is too
  large does to a reader.

### 2.3 Compositor

`phase` follows `run` to the end of the program. `links[i]`, `answered[i]` and
`results[i]` are the abstract link, its ack and what `suspend()` returned. `waited` counts
clock ticks since the first `suspend()`; `deadline` is when the running one gives up. The
phases `checkpoint`, `writing`, `binding`, `serving` separate the steps between which
hosts, losses and key presses can come. `suspend()` is bounded by its timer here, which
with `NullCapture` it is; see finding 2 for what `Connection` says of other backends.

`Configured` is what `Config::from_args` lets through: a URL or at least one host, never
both. An image may name no surface at all; a resume of it restores the layout of an empty
strip and then ends with "no surfaces connected" (`client/main.rs:86-88`), which is
`RestoreLayout`'s way to abort.

### 2.4 Content channel

`Content` runs on every step of `Connection` and adds what happens to frames. They are
numbered in the order of capture, so the frame channel, a count in `HostConnection`, holds
the last `frameQ` of them. `ContentHost` says what each step of the host means for them:
captured, sent, cancelled or untouched. `flight` is a *set*: datagrams overtake each other
and `LoseDatagram` takes any of them (quinn is external). `pump`, `held` and `events` are
the datagram pump and the channel of frame events; `NoteFrame` is the task that takes the
strip's lock. `placed` is the moment in which `connect_live` appends the surface: the pump
runs before it, so `Connection`'s link is live for a while with no surface to count on.
The strip starts with a surface of another host, which may have announced the same id.

Left out: the contents and time of a frame, which v0 neither decodes nor shows, and
`max_datagram_size` as a number: any frame may be too large.

### 2.5 Framing

A byte is `[n, len, at]`: which byte of the frame of which message. `read_message` decodes
first and reads only if the frame at the front of the buffer is incomplete
(`NeedsMore`), so `ReadChunk` may append the end of one frame and the beginning of the
next. `reader` moves from `connect` to `task` with the first message, as in
`client/conn.rs:91-133`, and takes the buffer along; the host's copy is the same without
the handover. The refinement maps the messages whose frames are complete, in the buffer or
on the wire, to the queue of `MessageStream` (`Undelivered`). Writing a frame is one step, since `write_all` is called by
one task at a time; a frame that was written in part when the connection broke is a frame
of which a suffix was lost. Postcard is external: a body that has arrived decodes.

### 2.6 Session images

`id` is modelled as the very body it addresses: equal ids if and only if equal canonical
forms. The texts of a surface are one function from element names to texts; `Trim` is what
`trim_text` does to them. Text elements are trimmed, the `name` attribute is not. An image
is written as a sequence of events (`ImageDocument`), and `ImageParser` takes one event per
step, each branch of the two `match` statements being an action. `BaseFails` and
`BlockFails` are the `?` operators, with the conditions under which each kind of event is
refused. `from_xml` of a v1 image runs both parsers on one document, then `validate`.

`Damaged` has every document with one change that leaves the tags nested: cut short before
an event, an element or a pair of tags lost, an attribute lost, or an attribute or text
misspelt. Tags that do not nest, and half tags, are refused by quick-xml 0.31 itself; an
end of input inside an element is not, and `session.rs:408` does not ask. The spelling of
numbers, bounds, enumerations and ids is a value or `Unknown`; lengths and delays are
integers, and NaN, which the coefficient parser rejects, is left out.

### 2.7 Broker

`server` is where `serve` is: `binding`, `polling` (about to poll both futures, the
shutdown first), `waiting` for either, `returned`. Each connection has a task, `handler`:
reading the head, writing the response piece by piece, over. `visitor` is the other end: a
compositor in `fetch_image`, or a stranger that may ask for anything, stall or hang up.
One that hangs up before it was accepted stays in the backlog (`Pending`): it is accepted
like any other, and its task reads the end of the stream.
`Exit` is the end of the process, which cuts off whoever is connected; `Lose` is the
network's doing. `Receive` is `read_to_end`, `from_xml` and the id check in one step,
since nothing else of that process can interfere: after a cut it sees any prefix, perhaps
with a torn tag at its end. `document` tells apart the cases that the two id checks see
differently: a document that parses to the id it is served under, the same with the
default layout (whose loss cannot be noticed and does no harm), and one that does not,
because it was edited or because its texts were padded.

### 2.8 The life of a session

`Session` takes `Compositor` action by action for the compositor that was started last and
adds what outlives it: per device, the file that `--out` names and the document that the
broker on the port serves; the URLs that were printed; and the addresses that the command
line or the fetched image gave (`roster`). `Start` starts the next compositor with hosts of
its own, and with them a new session; `Resume` starts it with any URL that was printed, or
that a standalone broker has logged, on any device. So several sessions share the devices,
their files and their ports, and may be taken up again from an older image. `Crash` ends
the compositor between any two steps; `WritePart` is `fs::write` after it has truncated the
file. `ParkFile` is the standalone broker, which reads whatever the file then holds, and
`BrokerGone` ends a broker in the background.

A document is `[id, content]`: the id it *declares*, in its first tag, and what a parser
makes of the rest. `CutOff` takes surfaces from the end of the content and the layout with
them, and leaves the declared id; that is a torn file as well as a response that was cut.
The broker compares a request with the declared id (`Answers`), and logs it (`Logged`);
only `fetch_image` computes an id of what it has parsed and compares that with the URL
(`Fetch`). As in `SessionImage`, the id of a content stands for the content itself. What
comes before and after decides nothing there: a torn file that was parked is answered
under its id, parses, and is refused. (A layout that is the default can be lost without
notice, and without harm; `Broker` has that case as `"plain"`.)

The history variables are there for the properties: `session` is the session that the
compositor continues, `given` the number of hosts on the command line of each session, and
`taken` the content and session of each checkpoint. The hosts of a session have addresses
of their own, so a host in a wrong session would show.

The results of the other modules are its premises: a document cut off names its id and
fewer surfaces, or fails to parse (`ImageParser`, `NothingBlended`), an edited document
has another id (`IdentitySurvivesTheText`), a response can be cut anywhere (`Broker`).
`created` counts checkpoints where the code has the time of day; it is part of what is
hashed. Not modelled: `--out` and `--port` other than the defaults, surfaces that
answer with another id than the image's, and more than one compositor up at a time.

## 3. What is checked

| Run | Instance | States | Shows |
|---|---|---|---|
| `strip` | 2 ids, up to 4 surfaces, widths default/1/5, viewports 3 and 6 | 91 thousand | layout properties |
| `connection` | NullCapture, all channels of capacity 1, 5 messages of inputs, resizes and disconnects | 615 thousand | safety, refinement, liveness |
| `content` | any native backend, 2 frames, all channels of capacity 1, 1 input | 676 thousand | safety, liveness of the frames |
| `compositor` | up to 3 hosts, timeout of 2 ticks, 2 presses | 47 thousand | safety, liveness, use of links |
| `session` | 2 devices, 3 compositors, up to 2 hosts, timeout of 1 tick, 1 press | 5.4 million | safety across crashes and moves |
| `framing` | messages of 0, 2 and 3 bytes (3 is too large), prefix 2, chunks up to 5 | 4.6 thousand | refinement |
| `image_parser` | images of up to 2 surfaces in both formats and for both readers, one of them with every damage | 109 thousand | what text keeps, laws of migration |
| `broker` | one surface, a resuming compositor, a stranger | 1.5 million | safety, liveness |
| `native_teardown`, `stalled_suspend`, `lost_surface`, `printed_url` | | | the findings below |

**Strip.** `LayoutFitsTheStrip` (orders are positions, the focus names a surface, the
scroll position is within the strip) relates pieces of state that different operations
maintain. `VisibleIsClickable` compares two functions that each decide what is in view.
`ArrivalsKeepTheView` and `RemovalClosesTheGap` say what a step must leave alone (F10 and
F13 of `SIMULBOOT_HANDOFF.md`). `ResumeRestoresTheSession` is F4 for the layout. Its
scroll clause is limited to sessions of default widths on the same viewport: widths are
not part of the image and a narrower strip clamps.

**Connection.** `AckMeansFlushed`: after `suspend()` returned true, no input sent before
is still on its way. `InputInOrder`: no gap, no repetition, no reordering through three
queues, and on a resume nothing before `Reconnect`. `HostOutlivesSuspend` (F5);
`NothingHeldAfterReturn`: no path out of the handler leaves a backend waiting.
`KeepsLinkContract` is the refinement. Liveness: `SuspendResolves` and
`HostReleasesCapture`. With a native backend, the `content` run explores the connection, and
the theorems on its invariants hold as they do for `NullCapture`.

**Content.** `FramesAccountedFor`: every frame is in exactly one place, from the backend to
the counter of the surface, and noted once at most. `OnlyEarlyFramesAreMissed`: the pump
starts before the surface is on the strip, but only what was captured before that can find
no surface. `SuspendedSurfacesStream` (F5): after an acknowledged suspend, while
the connection is up and the backend runs, the whole way is in place. `FramesAreSettled`: no queue keeps a frame for ever, whatever the network, the
backend and the control channel do.

**Compositor.** `ImageIsWholeSession`, `CheckpointAfterSuspend` (F3), `WaitIsBounded`
(suspending takes at most one timeout for each host, and at least one for each that was
given up with its link up: a deadline that is not moved on from host to host would break
it), `UsesLinksByContract`, and the liveness property
`CtrlCSuspends`.

**Session.** `MovesKeepTheSession`: through every move, each image of a session names the
hosts of the command line that started it, in their order, and so does each compositor
that continues it; with torn files that are parked, cut responses, crashes and other
sessions on the same devices. It fails when a document is believed under the id that it
declares, and when an early Ctrl-C is acted on before all hosts are back.
`PrintedIsOnDisk`: a URL that was printed can be parked again after a crash, until a later
checkpoint there.

**Framing.** `BytesInOrder`: the undecoded bytes always start at a frame and run on
without a gap. `ImplementsMessages` is the refinement of `MessageStream`. Its safety half
is `KeepsMessages`: what is returned is what was sent, once each and in order, and the
reader stops only at the end, on a lost connection or at an oversized message. The other
half is fairness: every message that arrives is returned, or the reader stops.

**Session images.** `RoundTrip` and `IdentitySurvivesTheText` say exactly what the text
form keeps and when the content id survives it. A reader accepts the document of an image
exactly when every entry of its coefficient block reads back (`ReadsBack`) and the surfaces
and coefficients then pass `validate`; the instance has images whose coefficients are
relisted, missing, without a delay path, and v0 documents given to the v1 reader. `NothingBlended` and
`CoefficientsAreInvisible` are about damaged documents: a surface is read as it was
written or not at all, and nothing in the coefficient block reaches the base.
`ReadImagesObeyTheLaws` has law L2 and the adjunction for whatever `from_xml` accepts.

**Broker.** `ResumesTheWholeSession`, although neither end checks lengths; it rests on the
id that is computed from what was parsed. `AnswersAreTakenUp` relates the two ends' ideas
of an id. `CtrlCStops` and `FetchSucceeds`: silent visitors hold up nobody.

**Bounds.** Capacity 1 makes every queue full and empty within two messages, so each
sender blocks and each receiver waits; a larger capacity adds room and no new way to wait.
Five messages put input before and after a Suspend while the writer holds one, and leave
one for a Disconnect. Three hosts give a first, a middle and a last link; a timeout of 2
ticks separates "not yet" from "now"; two presses are one for the suspend and one early or
for the broker. Two frames are enough for one to overtake, to be lost, or to find a queue
full with the other; the single input lets the backend stall or the host suspend
meanwhile. `Resumes` keeps the content run to live sessions: a Reconnect touches no frame.
Three compositors are a session that moves twice, over the same device or over both, or
two sessions of which one is moved while the other is on one of the devices; of their
hosts two suffice to be lost, swapped or added. There a timeout of one tick and a single
press do, since `Compositor` is checked with more; `printed_url` takes two presses, the
second for the broker that is left behind. Four
surfaces with two ids give duplicates, and a removal on either side of the view; explicit
widths 1 and 5 are narrower and wider than a viewport. Chunks of up to 5 bytes hold a
whole frame and part of the next, and chunks of 1 cut every prefix and body; three
messages let the buffer hold the end of one, the whole of another and the beginning of a
third. Two surfaces can be in order, out of order, of equal order or the same one twice,
and can lend each other texts; the 4 coefficients are the top, one below it in every
component, one below it in one component, and one with two delay paths. One compositor and
one stranger are enough at the broker, whose tasks share nothing but the listener and the
life of the process; one surface makes a response of three pieces, cut before, between and
after. The proofs in section 5 do not depend on any of them. Surface ids are
interchangeable and only safety is checked on `Strip`, and likewise the devices of
`Session`, so symmetry is sound there. `CHECK_DEADLOCK FALSE` is set where the program
ends: a closed connection, a compositor that has stopped.

**Fairness.** `Connection!Fairness`: each async task is polled again when what it awaits
is ready (smol), the timer of `suspend()` fires, and `NullCapture` keeps draining. A
native backend has to return when its contract says so, but need not take input. Nothing
obliges a user to send, suspend or drop, a source to end, or a connection to break.
`Compositor!FairSpec`: the main task runs on when what it awaits is ready, and time
passes; hosts need not answer and nobody need press a key. `Content` keeps to the same for
the frame task, the pump, the strip's task and a pending connect, and lets the network
drop everything. `Session` needs none. `Framing`: the reader's task runs.
`Broker!Fairness`: the loop of `serve`, each connection's task and a compositor in
`fetch_image` run on; strangers, Ctrl-C, failures and the network owe nothing. All of it
is weak fairness: no step of the code waits for a condition that comes and goes without a
queue to keep it.

## 4. Where the code and its words differ

1. `native_teardown`. The tear down awaits the capture task before it cancels the frame
   task, which owns the receiving end of `frames` (`host/main.rs:148`).
   `host/capture.rs:47-48` lets a backend run until both channels close and says the
   runtime closes `frames` when the connection drops. A backend that relies on it never
   returns. `NullCapture` does not.
2. `stalled_suspend`. `Link::suspend` awaits room in the control channel before its timer
   starts (`client/conn.rs:56`), while line 53 promises to resolve within the timeout. It
   takes a backend that stops taking input.
3. `lost_surface`. The end of a host's connection is only logged (`client/conn.rs:144`);
   its surface stays on the strip and in the image. F13 (`SIMULBOOT_HANDOFF.md:113`) says it
   disappears. `docs/denotation.md:242` says the opposite of F13 and what the code does: a
   disconnected surface does not vanish from the session but holds its last value. One of
   the two documents has to give way.
4. `printed_url`. The resume URL is printed before the port is bound
   (`client/main.rs:220`). If an older broker holds the port, the bind fails
   (`broker/lib.rs:77`), and its error is returned through `run` and `main` and printed, with
   a failing exit. But the URL was printed before, and nothing takes it back: it is
   answered, with 404, by the other broker. `client/main.rs:14` promises resumption from the
   printed URL. The image is on disk (`PrintedIsOnDisk`).

Some differences need no run of their own; they are clauses of properties that hold:

- `futures_join_all` awaits one future after the other (`client/main.rs:239`), so silent
  hosts cost one timeout each (`WaitIsBounded`); `client/main.rs:13` speaks of at most 5 s.
- A second Ctrl-C pressed while hosts are still being suspended stays in the channel and
  stops the broker before it serves (`client/main.rs:228`); line 60 gives the second press
  a meaning during serve only. `NextCtrlC` of `Compositor` does what the code does.
- `README.md:109-111` has a session keep a stable hash when it is checkpointed again;
  `created` is part of the hash and stamped anew, so each checkpoint has an id of its own.
- `broker/lib.rs:13` has the server stay up until all hosts have acknowledged Reconnect.
  Nothing tells it; it stays up until Ctrl-C.
- `SIMULBOOT_HANDOFF.md:653` has a resume wait for `ReconnectOk`. `connect` returns with
  the announcement that comes first, and the reader logs the `ReconnectOk`.
- `SIMULBOOT_HANDOFF.md:114` has a reconnecting surface appear at the right end. Nothing
  reconnects within a session.
- `common/coefficients.rs:28` says that the top is above every coefficient. `leq` makes it
  so for one delay path and for no other number (`ReadImagesObeyTheLaws`, theorem
  `TopOfOnePath`); a surface graded along two paths is not moved up by migration.
  `docs/persistence/galois-connection.md` makes the same claim: `gamma` embeds at one delay
  path (lines 79-84), the proof of the connection takes that to be above every coefficient
  (line 104), and law L2 is stated for all of `I₁` (lines 137-139). Law and adjunction hold
  for images whose surfaces are all graded along one path; the comment at
  `common/coefficients.rs:240` and the test at line 323 agree with the code.
- A surface that is listed twice makes an image that `gamma` produces and
  `SessionImageV1::from_xml` refuses (`RoundTrip`, theorem `GammaIsValid`). Two hosts that
  announce one id make such a v0 image.
- A text with white space around it, a host's machine name say, gives an image that fails
  its own integrity check when it is resumed (`IdentitySurvivesTheText`).
- A resume URL with a slash at its end is answered by the broker
  (`broker/lib.rs:160`) and refused by the compositor (`client/session/mod.rs:51`).
- `broker/main.rs:7` says that the broker derives the content id; it takes the declared
  one if there is one (line 42), and a compositor refuses the document if they differ.
- A failing accept ends `serve`, which by its comment (`broker/lib.rs:67`) runs until
  shutdown.
- `encode_frame` does not enforce `MAX_FRAME_LEN`.

## 5. What is proved

TLAPS proves the following for every value of the constants that the ASSUMEs allow:
channel capacities of at least 1, viewports of at least 3, natural bounds. Nothing else is
assumed, and the bounds on messages, surfaces, frames, hosts and presses may be any
number.

**`ConnectionProofs`.** All six invariants of `Connection`, and `KeepsLinkContract`. None
of them is inductive by itself. The strengthening comes in layers, each proved with the
help of those before it:

- `TypeOK`, with the capacities;
- `LifeInv`: what tells the host to leave its loop (Disconnect, the end of the stream) is
  written last by the writer, so a host in tear down has a writer that ended; what the
  handler has let go of at each stage of its tear down;
- `NumberInv`: the messages read, those in the stream, the one in the writer's hands and
  those in the control channel are consecutive segments of `log`. Once the connection is
  lost, only the first two count;
- `RouteInv`: every input event among the messages read is routed or in hand, and the
  routed ones ascend;
- `SuspendInv`: there is at most one Suspend, the host answers it once, and any ack on
  its way back (stream, ack channel, result) is that one. `AckMeansFlushed` follows;
- `ReconnectInv`: a resuming link has Reconnect as its first message and only there.

For the refinement, each action of the three parts is shown to be an action of
`LinkContract` or to stutter; `SuspendInv` is what makes `ResolvesTrue` legal.

**`CompositorProofs`.** `TypeInv`, then `ProgressInv` (links before the current one are
resolved, those after it are untouched, the strip grows with the links), `ResultInv`
(a result of TRUE is an answer of that host), and `WaitInv` (the clock stays within the
timeouts of the calls made so far, and has passed one timeout for each silent host; the
running deadline lies a whole timeout after those, so a host that is given up adds one to
both). They give the four invariants of the run, and
`UsesLinksByContract`.

*The life of a session*, in the same module: both properties of the run, for any
number of devices, processes, sessions and hosts. A crash and a start keep `TypeInv` and
`ProgressInv`, since a start is `Init` (`BaseStep`). On top of them stand three parts.
`HistoryInv`: the n-th image taken is the n-th by its number, belongs to a session that
was started, and names that session's hosts. `PlacesInv`: the documents in files and
brokers declare ids that were taken, which says nothing of their contents, and
`PrintedIsOnDisk`. `ProcessInv`: a compositor that resumes was given an id that was taken,
and continues its session; past fetching it has the roster of its session; and the image
being written is the newest and was not printed yet. That an image on the strip names all
hosts comes from `ProgressInv`; that a fetched one does comes from the comparison of the
computed id with one that was taken. The newest-and-not-printed clause is what makes a torn
file harmless: it is never the file of a URL that has nothing newer.

**`BrokerProofs`.** The three invariants, for any visitors and any number of surfaces.
`Orderly` relates, for each visitor, what has arrived of its head, what its task has written
and what it has read; `Resumed` is the claim about what it makes of it. `FetchInv` is both
for all visitors. It is needed because a resume is judged by what was read, which is only
a part of what was written once the connection was cut.

**`FramingProofs`.** `BytesInOrder`; `EachOnceInOrder`: the messages returned are the
first ones sent, each once; and the refinement `KeepsMessages`. `FramesInv` says that the bytes pending, in the buffer and on
the wire, are `Tiled`: each byte determines all others of its frame, and each last byte
the first of the next. Said of all pairs within a frame instead of neighbours, it gives the
end of a frame from its head without an induction, and every part of a tiled sequence is
tiled (`TiledPart`), which is what chunks and decoding come down to. For the refinement,
`QueueOf` is the queue that a tiled sequence holds; its messages are numbered without a
gap and each has one length (`AllNumbered`, by the least position that would not). Then a
frame appended is a message appended (`QueueGrows`), a suffix lost is a suffix of messages
lost (`QueueIsCut`), a frame drained is the head delivered (`QueueIsServed`), and reading a
chunk changes nothing. `EndIsClean` is why an end inside a frame means a lost connection.

**`StripProofs`.** First the operators of `StripOps`. `Edge` is a recursive function over a
sequence, so its properties need induction on a prefix of it. They are proved from the
least counterexample: `Smallest` takes a minimum of a set of naturals from the library's
theorem on well-founded orders, and `Induction` concludes for a *set* of naturals, which
avoids a predicate parameter. From it come: the function exists (`EdgesExist`), edges
depend on the prefix only (`EdgeAgrees`), they ascend (`EdgesAscend`), and are multiples of
the width on a uniform strip (`EdgeUniform`); then `OneHit`, `VisibleHit`, `ScrollRange`.
With them, all six properties of the run. `ShapeInv` has the numbering of the
strip *and* of the image: only because of it does the stable sort of a restore append
(`RestoreAppends`). `LayoutInv` adds scroll and focus; `RestoreInv` says that during a
restore the strip is the beginning of the image. The four action properties follow from
these and lemmas on what each mutator returns.

**`ConnectionProofs`, about `Content`.** All three invariants of the run. `Content` takes the steps of
`Connection`, so the types, capacities and life cycle proved there hold here
(`ContentTypes`). `ContentInv` has four parts. `WayInv`: the frame task stops only with the
connection or after the backend has returned, the pump ends only with the connection, and
a link that got past connecting has its surface on the strip. `StripInv`: the strip counts
exactly the frames noted, all of them on the first surface with this host's id. `FrameInv`:
the frames captured are split among the frame channel, the network, the pump, the channel
of events, the ones counted, missed and dropped; that channel is a sequence without
repetition, since only then is a frame that is noted gone from it. `EarlyInv`: what is missed was captured before the surface
was placed. `SuspendedSurfacesStream` follows from `WayInv` and says of every place on the
way, the pump and the strip's task included, that it is still there after an acknowledged
suspend, while the connection is up and the backend runs.

**`GaloisProofs`.** The order of coefficients is a partial order, and its top is above
exactly the coefficients of one delay path: products of the orders of bounds, intervals,
labels and counts, proved component by component. `GammaIsValid`. For every valid image
whose surfaces are distinct, law L2 (`GammaAlphaMovesUp`) and the adjunction
(`AlphaGammaAreAdjoint`). Both need that surfaces and coefficients correspond one to one,
while `validate` only counts the coefficients of each surface and compares two lengths;
`OneSurfaceEach` closes the gap with an injection between finite sets of one size. Without
distinct surfaces it does not hold: a surface listed twice, one coefficient for it and one
that names no surface pass `validate`. No assumption on the constants is used.

**`ParserProofs`.** `ParserTypeOK`, `CoefficientsAreInvisible`, `RoundTrip` and
`IdentitySurvivesTheText`, for images of any size in either format and either reader, and
for the damaged documents of any of them. The assumptions (`ParserAssumption`,
`OptionAssumption`) say that `None`, `Unknown` and misspelt texts are none of the values
they stand against, which the code has by its types. The argument:

- a written document is a concatenation; tables give the event at each offset of each of
  its parts, so that what the readers meet at `pos` is a matter of arithmetic;
- every document, damaged or not, is a sequence of events of known shapes (`ReadInv`), which
  with the types of the builders gives `ParserTypeOK`;
- the first pass is compared with what it must have gathered up to its offset
  (`FirstPassInv` with `BaseAt`): the surfaces closed so far, and of the open one the texts
  already closed. Nothing after the opening of the coefficient block changes it, which is
  `CoefficientsAreInvisible` on damaged documents too;
- the second pass likewise (`SecondPassInv` with `BlockState`): which entry of the block is
  open, how much of it has been read, and whether it will be refused. `ReadOf` is the entry
  it makes, and `validate` of the entries is restated as `ValidWhen`, a condition on the
  written image;
- the id of what was read is compared with the id of what was written, by the canonical
  form that both define.

**`ImageProofs`.** `NothingBlended`, for images of any size, either reader, and every
document with one tag or one element missing. `ParserProofs` compares the reader with the
written document offset by offset, which is of no use once something before the coefficient
block is missing: the offsets then differ. So a document that is read is traced to the
written one by a map `f` from its positions to theirs (`Origin`): `f` steps by one, except
where it leaps over an element, from just before its opening tag to just after its closing
one; leaving out a tag is a leap of one. `OriginExists` gives such a map for every kind of
damage; `Bracket` says that what opens inside an element closes inside it, so a leap that
starts in an element cannot end outside it. The invariant (`TraceInv`) then says, of the
reader at any position: the builder of the open surface holds only what one written surface
has, and that surface is still open at `f[pos]` (`HeldBy`); a text target that is set has,
in the buffer, nothing but the beginning of its own text (`TextOf`); and the surfaces read
so far are written surfaces, in their order, each closed before `f[pos]` (`ReadAs`). It has
to say all three at once: that a field is not from another surface depends on the target,
and that the target is from this surface on the builder. `InsideInv` is the second
conjunct: a text target is set only between the tags of a surface.

`ReadImagesObeyTheLaws`, for v1 images of any size. `GaloisProofs` has the laws for valid
images that list no surface twice, and `validate` does not ask for that: it wants one
coefficient for each surface, found by its id, and as many coefficients as surfaces. So what
is proved is that `from_xml` accepts no image in which a surface is listed twice
(`SurfacesDiffer`). Two surfaces that were read with one id are two that were written with
it, and the block then holds an entry for each. If both entries were read, `validate` finds
two coefficients for the id and refuses. They were both read:

- if something before the block is missing, the block itself is whole (`Kept`), and so are
  both entries in what was read (`WholeEnds`);
- if everything before the block is there, the surfaces are those of the source, so
  `validate` asks for as many coefficients as the source has surfaces; the entries read are
  distinct entries of the source, so they are all of them (`AllTaken`);
- if the session's opening tag is missing, nothing is accepted (`SessionInv`).

The invariant behind it (`EntryInv`) says of the second pass, by the map `f`: the
coefficients read so far are distinct entries of the written block, each closed before
`f[pos]`; if the block is whole, they are all the entries closed there; and the entry that
is open holds the reference of the written entry that is open at `f[pos]`.

These invariants choose offsets, and maps of offsets, in documents of any length from
infinite sets, so TLC checks the properties and not the invariants themselves.

**Only model-checked.** Liveness (`SuspendResolves`, `HostReleasesCapture`,
`FramesAreSettled`, `CtrlCSuspends`, `CtrlCStops`, `FetchSucceeds`, and the half of
`ImplementsMessages` beyond `KeepsMessages`), which rests on fairness and is beyond this
prover. And the four runs that end in a violation. Every invariant and every action property
that a passing run checks is stated by a theorem.

## 6. Not modelled

Every operation that changes state and meets another task, process or device is an action
of a module. What is left, and why:

- *Seams that are argued and not composed*: `Connection` over `StructureStream` over
  `MessageStream`, whose composition would multiply bytes with queues; the broker of
  `Compositor`'s phase `serving`, which `Broker` has in detail; and the text of the
  documents of `Session`, which `ImageParser` has. Each seam names the property on one side
  that the other side takes as its premise (sections 2.3, 2.5 and 2.8).
- *Several interactive front ends*: the shipped compositor is headless and sends no input
  and no resize. `Strip` and `Connection` drive the public operations as one would.
- *Native capture backends*: stubs that return `NullCapture`. `Native = TRUE` is what the
  contract in `host/capture.rs` allows one.
- *Renderer*: it logs what `visible` returns and changes nothing.
- *TLS and QUIC set-up*: configuration of libraries, with no state of its own.
- *Command lines, number formats and time stamps*: sequential code without interaction,
  which unit tests reach. Of the command line, the choice of the mode is modelled.
- *XML syntax, postcard, SHA-256*: libraries. They are external in the modules that need
  them, with the assumption named there.
