# FluxCast in TLA+

FluxCast mirrors a Linux desktop to a television: over Wi-Fi Direct with Wi-Fi
Display (WFD, "Miracast"), or over the LAN with DLNA or Chromecast. This
directory holds TLA+ models of the program in `src/src`, the TLC configurations
that check them on small instances, and TLAPS proofs of the properties that
matter most. Paths below are relative to `src/src` unless they start otherwise.

## 1. The system

### Components

| Component | State it keeps | Operations | Correct when |
|---|---|---|---|
| RTSP server (`wfd/rtsp/rtsp_server.py`) | owner of the receiver, its generation and confirmation; tracked sockets; registered pipelines; group interface | accept, authenticate, claim, confirm, release, track, `stop_all_media`, `server_close` | one confirmed owner at a time, nothing leaked, every socket reached at shutdown |
| RTSP session (`wfd/rtsp/handler.py`) | pending requests, negotiation flags, pipeline, keepalive and sender-health timers | one handler per message; three timer callbacks | negotiation reaches M5, keepalive runs while it should and never afterwards, a bounded table, an end that leaves nothing |
| Source-initiated probe (`wfd/probe.py`) | one outgoing session with a negotiation of its own | wait, resolve, connect, claim, negotiate, stream | gives way to a receiver that negotiates, takes over one that does not |
| Session (`wfd/session.py`) | what has been set up so far | setup, then ordered cleanup steps | what was changed on the host is taken back, whatever fails or is interrupted |
| P2P back ends (`wfd/p2p/nm.py`, `wpas.py`, `wpas_ip.py`, `device.py`) | Wi-Fi Direct link or group, GO intent, DHCP server | connect, wait, configure IP, release | no group, DHCP server or lowered intent left behind |
| Firewall (`wfd/firewall.py`) | ports opened by this session | open, close | a port of the user's is left alone |
| Peer addressing (`wfd/p2p/addressing.py`) | none; it reads the neighbour table | MAC to address, check of an address | fails closed when the table is ambiguous |
| Discovery (`wfd/p2p/peers.py`, `nm.py`, `wfd/ie.py`) | the peers of a scan | scan through NetworkManager or wpa_cli, verdicts, choice | the verdicts are about the peer they are shown with |
| RTSP reader (`wfd/rtsp/message.py`) | a buffer, a deadline | read a message within limits | chunks do not matter, one deadline from the first byte on |
| Modes and ports (`wfd/modes.py`, `wfd/net.py`) | none | choose a mode, a level, a source port | the choice is one the sink offered |
| Media pipeline (`wfd/media/`) | sender processes, portal session, LPCM muxer | start with back-end fallback, stop | no sender survives, none is started twice |
| LPCM muxer (`drivers/wfd_lpcm_mux.py`) | two bounded queues, continuity and sequence counters | callbacks, mux loop, stop | drops instead of blocking, counters wrap correctly |
| Portal capture (`capture/portal_capture.py`) | D-Bus session, PipeWire descriptor | start, close, revoke | a revoked share ends the cast |
| UIBC (`drivers/uibc.py`) | input server thread, virtual devices | start, stop, packets | a finger or key that went down is lifted |
| HTTP server (`server.py`) | growing transport stream, readers, generations | reset, start, append, read | a reader never sees bytes of another generation |
| LAN cast (`main.py`, `capture/capture.py`, `dlna/`, `cast/`) | the capture, the server, the television told | try back ends, serve, tell the television, shut down on a signal | a signal leaves no capture and no server |
| Tray (`ui/tray.py`) | the cast it remembers, the menu, the monitors | launch, stop, scan, rebuild | the menu catches up, a running cast is forgotten only for a stated reason |
| Others: `ui/settings.py`, `diagnostics.py`, `wfd/ts_probe.py`, `i18n/` | little | windows, reports, tables of strings | |

### How they interact

`start_experimental_backend` starts the RTSP server, forms the Wi-Fi Direct
link, and publishes the group interface to the server by a callback. The
receiver then opens an RTSP connection to the source (one thread each), or the
probe thread opens one to the receiver after four seconds. Whoever claims the
receiver negotiates and, on PLAY, starts a media pipeline of child processes.
Timers of a session run in threads of their own and share its table of pending
requests, its socket and its timer attributes. A portal capture that is revoked
sends SIGINT to the process, as the tray and the user do: the resulting
KeyboardInterrupt ends the main thread's wait and runs the cleanup. During the
stream the sink's touches and keys come back over UIBC into two uinput devices. A
LAN cast is another program run: it starts a capture that writes HLS segments,
serves them as one growing stream, and tells the television its address. The tray
starts either as a child process and watches it.

### What is hard

* **Threads**: accept loop, up to four handlers, the probe, timers, the main
  thread; they meet in `_connected_client`, `_requests`, `_active_media`,
  `pending` and the timer attributes.
* **Interrupts**: Ctrl+C anywhere in setup and cleanup, more than once; a signal
  handler that runs a whole shutdown on top of what it interrupted.
* **Partial failure**: a D-Bus call that times out may have taken effect.
* **Late answers**: the receiver answers requests that are no longer in the
  table; a blocked handler reads them much later.
* **Stale state**: a neighbour table, a list of monitors, a menu or a descriptor
  that changed between its reading and its use.
* **Bounds**: four connection slots, sixteen pending requests, bounded queues,
  clocks of 33 bits and counters of four.

`PROJECT.json` lists each hazard with its line and the properties that cover it.

## 2. The modules

| Module | Models | Checked by |
|---|---|---|
| `SessionLease` | the abstract promise: one exclusive lease, confirmed before media | refined by `RTSPOwnership` |
| `RTSPOwnership` | server, handlers, probe and teardown, reduced to ownership, slots and media | `MCRTSPOwnership` |
| `RTSPHandler` | one session: messages, pending table, timers, end | `MCRTSPHandler`, `MCRTSPHandlerLive` |
| `Negotiation` | what M3, SETUP and PLAY agree on: mode, level, ports | `MCLink` |
| `RTSPReader` | how messages are cut out of a byte stream in time | `MCLink` |
| `PeerAddress` | who the receiver is, by a neighbour table that changes | `MCLink` |
| `Discovery` | the scan, the Wi-Fi Display bytes, the choice of a receiver | `MCLink` |
| `WFDSession` | setup and cleanup of the host, both P2P back ends | `MCLink`, `MCWFDSession` |
| `MediaPipeline` | one media pipeline with its back ends, senders and portal session | `MCMediaPipeline` |
| `LPCMMux` | the transport stream multiplexer for the Microsoft adapter | `MCDrivers` |
| `UIBCInput` | the input back channel and its two uinput devices | `MCDrivers` |
| `ProgressiveTS` | the growing transport stream of the HTTP server: requests, writers, restarts | `MCProgressiveTS`, `MCLan` |
| `LanCast` | the program of a DLNA or Chromecast cast, with signals | `MCLan` |
| `TrayCast` | the tray: casts, watchers, scans, the menu | `MCLan` |
| `RTSPOwnership_proofs`, `RTSPHandler_proofs`, `WFDSession_proofs`, `MediaPipeline_proofs`, `ProgressiveTS_proofs` | theorems about the module of that name | TLAPS |
| `Link_proofs` | theorems about `Negotiation`, `RTSPReader`, `PeerAddress` and `Discovery` | TLAPS |
| `Drivers_proofs` | theorems about `LPCMMux` and `UIBCInput` | TLAPS |
| `Lan_proofs` | theorems about `LanCast` and `TrayCast` | TLAPS |

`MCDrivers`, `MCLan` and `MCLink` put components side by side that share no state in
the program (some by EXTENDS, the others as an INSTANCE): a behaviour is one of a
single component, chosen at the start by
`driver` or `part`, while the others keep one initial state. The state space is
the sum of theirs and each property is about its own component; the fairness of
a component is required in its behaviours only.

### RTSPOwnership

Each session is a thread with a program counter. A passive session goes
`idle, accepted, serving, ..., halting, releasing, finishing, closed`; the probe
goes `waiting, resolving, connecting, connected` first and gives its slot back
before its claim, as `_active_rtsp_probe`'s finally clause does. `client`,
`confirmed` and `claimCount` are `_connected_client`, `has_connected_client` and
`_client_claim`; each locked section of the server is one action. `Play` to
`MediaStarted` splits `_start_media` where another thread can see a difference:
pipeline constructed and registered (`made`), children spawned but not listed
(`spawned`), listed (`up`). A sender that outlives SIGKILL makes `stop()` raise;
such a pipeline is `stuck` and no promise is made about it.
Authentication (`Authentic`) needs a published group and may fail for anyone: `Refuse`
and `ClaimRefused` are always possible, the two-second deadline being one reason. It
may also succeed for any host, since a lone neighbour on the group interface is let in
whatever its MAC; who is let in is the question of `PeerAddress`.

### RTSPHandler

The handler thread's program counter, the requests in the table (`pending`), and
what the receiver has been asked and may still answer (`unanswered`); an answer
whose request has left the table is the code's `UNKNOWN`. `threading.Timer`
objects are elements of `Timers`; `timer` holds the two attributes, `thread`
where each timer's thread is. `cancel()` works on a waiting thread only, and the
identity test of `run()` is done at its two places (`Run`, `Finish`). A callback
that asks for another call arms a new `Timer` object in the code; the model
reuses the name of the finished one.

While `start()` runs, a portal attempt is listed before it is known to live
(`AttemptListed`), one of its processes may exit (`SenderExits`), and some polls later the
list is empty again (`AttemptFails`) and the next attempt follows. A keepalive callback
in between takes the exited process for the end of the stream and gives up for good
(`KeepaliveChecks`), and the next attempt then streams without a keepalive: Play,
AttemptListed, Fire, SenderExits, Run, KeepaliveChecks, AttemptFails, MediaStarted, Finish.
This contradicts the comment at `wfd/rtsp/handler.py:459`, which arms the timer before
the capture so that the session is kept alive meanwhile. `FirstStreamKeepsAlive` excepts
exactly this (`gaveup`) and says that nothing else costs the first stream its keepalive.

### WFDSession

One action per call of the setup, in program order. `Fails` is an exception of
the call at `pc`, `Interrupted` a Ctrl+C in it; both may leave the call's effect
on the host (`MayHaveHappened`) without the program having noted it. The `finally`
clause becomes the sequence `todo` of cleanup steps that are due; a step returns,
fails or is interrupted (`_cleanup_step` catches both), and between two steps a
Ctrl+C ends the process.

### ProgressiveTS

A request of `progressive.ts` is a thread, `at` says where it is between two
accesses to the shared counters; `offset` is the code's `read_start + sent`, and
`seek` its `is_future_seek`. A writer is one thread of `_run` with the generation
it was started for (`wgen`) and the segments it has still to append (`todo`). The
lock makes each access to `generation`, `started`, `size`, `readers` and `known`
one action, but it does not cover the file: `Remove` (the end of `reset()`) and
`Truncate` (the start of `_run`) empty it at any later moment. A segment is a
number and counts as one unit of size. `file` remembers which writer appended
what, which the program does not know.

The first segment of a stream is the newest one of the playlist, so that a viewer
starts at the live edge; the older ones that the playlist still holds are unknown
to the stream and follow it. `OrderedAfterFirst` states the order that results.
The writer opens the file by name for each segment, so a late `Truncate` or
`Remove` of another thread can leave `size` larger than the file: a request that
reads there gets nothing and tries again without an end (`Starved`).
`ServedIsCurrent` is what remains true: as long as a request may read, the file
holds segments of the current generation only.

A request ends when its client is gone, its range is complete, or a wait reaches its
deadline. The write to the client has no time-out (`server.py:666`), so it returns
only when the client reads (`ClientReads`), and of that nothing is assumed: `RequestsEnd`
excepts the request whose client keeps the connection and does not read (`Unread`) beside
the starved one. `reset()` forgets the readers of the stream before, and a client lost at
the headers keeps its place in the count (`lost`): `ReadersExplained` is therefore an upper
bound, and the hazards say what it does not cover.

### MediaPipeline

`pc` is the session's thread in `start()`: it takes the back ends of `order` one
after the other, opens a portal session for those that need one, and spawns
attempts. A back end is abstracted to what its failures look like: one process or
a pair, listed in `self.processes` at once (`portal-ffmpeg`, that is
`_spawn_capture_pipe`) or after it has lived for a while, a portal session or none.
`x11grab` stands for every back end with one process and no portal session, the
test patterns included. `stop` and `left` say where a thread is in `stop()` and
which processes its loop has still to visit; `processes` is the list object that
`clear()` empties for everyone. `close` is the same for `close_portal_capture`.
`portal`, `signal` and `Revoke` are the desktop's side; `loop` is the thread of
`_PortalRuntime`, which reads the callback in one step and calls it in another.
The LPCM muxer as a back end has a module of its own, `LPCMMux`.

What the model says about this code besides its properties: a Ctrl+C while
`start()` runs can leave a sender that neither stop terminates (`Clear` empties the
list that `start()` has just stored), and one between the creation of the portal
session and the assignment of its callback makes our own `Close` raise a second
SIGINT. Both are found by TLC when `SessionStopsAll` and `OwnCloseSilent` are
stated without their exception for interrupts. A revoke that arrives before the
callback is assigned is dropped (`HandleClosed`), although the comment at
`capture/portal_capture.py:302` means to prevent that.

### Negotiation

`asked` is the last request the source has sent; the sink's answers, its SETUP and
PLAY come in any order `handle_m3` to `Play` allow, also again while media runs.
`announced` is what M4 said, `replied` what SETUP answered, `media` what the
pipeline was started with: the code takes them from four attributes that are
set at different times, and the properties compare them. A mode is its size and
rate; `_choose_cea_mode` tries the modes in the order of the code and forces one if
the sink supports none: for a wish of 1920x1200 that is one of 1200 or 1080 lines, and
last 720p30 or 640p60. `sink_video_format` is a set of modes, a level and a
maximal size instead of bit masks.

Three things it shows that no property forbids: a second SETUP during the
stream is answered with ports the media does not use (`PortsAsAgreed`
speaks of the SETUP before the PLAY); a mode of 1920x1200 is announced with a level that
was never compared with the sink's; a sink whose R2 formats were taken is told
the R2 tuple also when it asks for `wfd_video_formats`. `_safe_source_port` has no
upper bound, as in the code: a port near 65535 leads beyond it.

### RTSPReader

A byte is one of six kinds, just enough to end a line, to make a header
invalid and to declare a body. `recv` takes any number of bytes that have
arrived; `Tick` is time, which passes only while the reader waits or the handler
works. The idle time-out is on or off per message, as the handler sets it around the
stream. A blank line before a message is returned as `None`, which the handler
takes for the end of the connection; the model keeps that. `MessagesFrom` is the
reference: the messages in the bytes and how they end, found with no buffer, chunk or clock.

### PeerAddress

The kernel changes the neighbour table at any time. `_get_peer_ip_from_arp` and
`_is_expected_peer_ip` are operators on the table as it is when they run; a waiting
client or probe asks again until the answer is yes or time is up. `moved` says
that table or interface changed since the probe's lookup: the properties that
compare the lookup with the check are about tables that did not.

### Discovery

What a peer advertises is a sequence of subelements, serialised as it goes over
the air and parsed by the code's own loop; `_wfd_source_ie` is among the devices, so
that another FluxCast is seen as a source. `Moves` takes devices in and out of
reach between any two reads. NetworkManager's peers are merged with what
wpa_supplicant says, and wpa_cli is the fallback with details of its own. A peer whose address cannot be read goes by
the tail of its D-Bus path (`PathTail`), which wpa_supplicant knows nobody by, so that its
verdicts are unknown; an empty field of wpa_cli is unknown, too, where NetworkManager
would say that the peer advertises nothing. A
selector of digits is read as an index, as in the code, and `prompt_device`'s index
may be any: the choice follows the index, and no property is stated of it. A scan that raises ends the selection without another attempt.

### LPCMMux

`owner` is the pipeline's thread: start, play, probe, stop, and its failures.
`VideoSample` and `AudioSample` are the GStreamer callbacks with their different ways
to meet a full queue; `Check` to `Send` is one round of the mux thread. Time stamps
are numbers modulo `Wrap`; `GST` time is read relative to the first buffer, and a
buffer may come late (`MaxLag`) or without a stamp. A packet is its PID and its
continuity counter. `probe` looks at whether the thread lives and at nothing else, as
the code does: a muxer that sends nothing passes. Also kept: a failed start leaves
the socket open (`StartRaises`), and the collector is switched off by the thread and on again
at its end. The muxer is not registered during its probe of 5.5 seconds, so that a
stop in that time does not see it; that is `MediaPipeline`'s interrupt during `start()`.

### UIBCInput

`server` is the input thread: accept, read any chunk, parse, write each event. A
write to a device is three steps (test the attribute, take the descriptor,
write), because `stop()` destroys the device in another thread between them; `Reuse`
gives the number of a closed descriptor to somebody else. Bytes are small numbers,
a packet a length and a type; a length that is absurd empties the buffer.
`contact` is the finger in the kernel, `pressed` what `press()` and `release()`
remember, `lastTouch` what the sink last said. A bind that fails leaves both devices
behind with nobody to destroy them (`BindFails`): `StopDestroys`, a part of `StopIsFinal`, speaks
of a `stop()`.

### LanCast

One action per call of `main()` and `start_capture`, and one per step of
`shutdown()`, which runs on the same thread on top of it: `Signal` moves the thread
to the first step of `shutdown`, from within another `shutdown` too. `cut` remembers
where. The locks of `ProgressiveTS` and of the socket server are modelled where a
signal can hang on them: `lock` is held by a frame below. The back ends are tried
in the order of the session, with the portal, `wf-recorder` and `x11grab` standing
for a back end with a portal session, one that is watched for three seconds and the last one.
`SignalEnds` says that the program, once signalled, ends or hangs where `HangsOnlyThere`
says it can.

What the model says besides its properties: an exception between the capture and
the end of `main()` leaves the capture running. `FailureLeavesCapture` names the four
places: the bind, where only an OSError is met by a `shutdown()` but `--port 70000` raises
an OverflowError and a bad `--host` a UnicodeError, the search for the television, its
admission, and the call that starts the cast. A Stop that the television does not
accept is swallowed, so nothing is said of what it plays after the end. A signal between the creation of the socket server and the start of
its thread, or within a reset, makes `shutdown()` wait for ever (`HangsOnlyThere`); a
capture that dies after its first segment is not noticed; while the portal's
dialog is open its session is the D-Bus connection's, so a signal there leaves none.

### TrayCast

The GTK thread, a watcher per cast and a scan thread per scan. `shown` is the
menu as it was built, and a click acts on it however old it is: `_launch` is two steps
(start the process, assign it), because the watcher of the cast before may run in
between. `pending` and `idle` are the flag and the queued callback that coalesce
rebuilds. `launch` and `pick` remember from which menu the last cast was started and
the last monitor picked, and `launch.replaced` the casts whose place another one took.
The monitor that a configuration names for a kind of device overrides the pick, and a
cast through the portal's dialog takes none (`_launch`). Where `notify-send` is missing
a notification raises and what follows it does not happen (`NotifyRaises`, for the casts in
`Unheard`): the refresh, and after a launch also the start of the watcher, so that the
end of that cast is never noticed (`Unwatched`). A scan for devices whose optional package is
missing exits on `SystemExit` with its flag set (`ScanExits`). `MenuCatchesUp` excepts
exactly the notifications and `ScanningEnds` the exit.
Of the three kinds of devices one is kept. pystray's own update after a click is left
out; it would only add rebuilds. The scan of the menu and the one of a cast share the
radio; that is outside the model.

## 3. The runs

A run checks one property per question; several are conjunctions of parts that are
defined, and where possible proved, by themselves: `TeardownComplete` is
`StepsAllBegun`, `LeftoversExplained` and `UserPortsKept`; `NoSenderSurvives` is
`SessionStopsAll` and `InterruptStopsAll`; `ModeAsAgreed` is `WithinTheOffer` and
`StreamsWhatItAnnounced`; `PortsAsAgreed` is `MediaOnTheAnsweredPorts` and `PortsApart`;
`StreamWhole` is `Accounted`, `Continuous` and `TablesLead`; `StampsInOrder` is
`PTSAheadOfClock` and `PTSBackwardsOnlyAfterLate`; `StopIsFinal` has `InputSurvives`,
`StopDestroys` and `OneStrayAtMost` beside the end of the thread; `EndLeavesNothing` is
`ShutdownReleases` and `FailureLeavesCapture`; `SignalEnds` has `HangsOnlyThere` beside
the end of the program.

| Run | Instance | Shows |
|---|---|---|
| `ownership` | 3 inbound connections (one of another host, which may be let in), the probe, 2 slots, fairness | whoever owns the receiver will release it; the refinement of `SessionLease`; after `server_close` every session ends |
| `handler` | 1 keepalive timer, 2 sender-health timers, 2 starts of media, 4 pending; R2, and a Microsoft adapter with and without UIBC | timers that wait and their attributes, the keepalive of the first stream through failed attempts, room in the table |
| `handler_live` | every configuration, 1 start, 3 pending, fairness | the table when it is full; keepalive chain and session end; a cooperative receiver gets to M5 |
| `handler_rejected` | as `handler` | **violated**: a late rejection of a heartbeat ends the stream |
| `link` | the session with both back ends, failing releases and 2 interrupts; 2 devices in reach, 2 scans; 2 groups and a LAN, 7 neighbours; 10 byte streams; 6 configurations with 64 sink formats | cleanup, leftovers and the user's ports; the verdicts of a scan; who is let in; how messages are read; what is agreed on |
| `r2` | the negotiation of `link` alone | **violated**: R2 formats are taken also for a worse mode |
| `session_dnsmasq` | wpa_supplicant, 1 interrupt | **violated**: Ctrl+C in `configure_ip` leaves dnsmasq |
| `session_group` | wpa_supplicant, no interrupt | **violated**: a failure after group formation leaves the group |
| `progressive` | 2 requests, 2 writers at once, 2 segments, 1 in the playlist, a shutdown | what the file holds; what the count of readers means |
| `lan` | 1 request, 3 segments, 2 in the playlist; 3 kinds of session, 2 protocols, 2 signals; 2 casts (the notifications of one may raise), 2 scans, 1 pick, a monitor that the configuration names, monitors that change; fairness | the order of the segments and the end of requests; what a signal leaves; a menu that catches up |
| `media` | 3 orders of back ends, 3 attempts, 1 Ctrl+C, fairness | senders, portal session and revoke |
| `drivers` | queues of 2 and 1, clock of 10 ticks, 3 frames, 2 audio buffers; 4 byte streams, 2 connections; fairness | time stamps, counters and the end of the muxer; touches, devices and the end of the input thread |

Bounds. Two slots for four sessions fill the table as four slots would for more
connections; three inbound connections give an owner, a superseded one and a
late one. The generation counter needs no bound: each session claims once. Two starts of media are the smallest number
for which a callback of the first stream meets a timer of the second; one
keepalive timer and two sender-health timers are as many as can exist at once
then. `MaxPending` is 4 instead of 16: without UIBC at most three requests are
ever outstanding, which is what `PendingHasRoom` says; it is 3 with UIBC, so that the
table does fill. Two interrupts allow one
that ends the session and one that disturbs its cleanup. Two requests are the
smallest number for which one restarts a stream that the other is about to read,
and two writers the smallest for which a late one meets its successor; with the
shutdown's reset they reach the fourth generation. In `lan`, three segments let the window
of two leave the first one behind; in `progressive` a window of one does so with two. Three attempts let a portal back end try twice
before its fallback tries.

In `link`, the devices are a television, one that owns a group and has a second
address, another FluxCast, a printer and one that advertises too little; two in reach at a
time allow the answers of one to be taken for the other's, and a second scan finds other ones. The neighbours
include the receiver on both groups and on the LAN, a stranger with its address
and a stranger alone. The streams of bytes hold two messages at once, a blank line
between, a message cut short and one beyond each limit; a limit of three bytes
per line stands for 8192. The sink's formats are every subset of four modes, without a level, with a
level that is too low, one that is composite with a maximal size, and a size that excludes every mode.
In `drivers`, the clock of 10 ticks is read at 0, 1, 10 and 11, around its wrap; the
interval of two frames sends the tables twice and counters of three wrap within a
frame; the byte streams hold a DOWN, an UP, keys, an
event without its pointer, an absurd length and a packet cut short, and are
delivered in every division into reads. In `lan`, two signals allow one that
interrupts a `shutdown`; two casts allow one to replace the other, and two scans one that
changes the list of monitors after a pick.

Deadlock is not checked: every model ends when its sessions have ended.

Fairness. `RTSPOwnership` and `RTSPHandler` assume that threads run, that
blocking calls of the program return (each has a time-out), that timers fire and that a read on a
socket that was shut down ends. `ProgressiveTS` assumes that threads run and that
its waits for data end at their deadlines; the capture may stop, and the client may stop
reading (there is no fairness on `ClientStep`). `MediaPipeline`
assumes that a pending signal of the portal is read, that its callback returns, that
the main thread wakes on SIGINT and that `stop()` goes on. `LPCMMux` assumes that the
mux thread runs (`Loop`; its wait for a frame has a time-out), nothing of the
callbacks or the owner. `UIBCInput` assumes that the input thread and `stop()`
go on and that a read ends when the connection or the socket is shut down, not that the sink sends. `LanCast`
assumes that the thread goes on, `TrayCast` that the GTK loop, the watchers of ended casts and the scans
do. Of the receiver, the client of the HTTP server and the user nothing is assumed, except
in `CooperativeSpec`, whose receiver answers what it is asked and says so. Where
the code depends on them without a time-out, the property names the exception:
`Unread` and `Starved` in `RequestsEnd`, the places of `HangsOnlyThere` in
`SignalEnds`, `unasked` and `Unwatched` in `MenuCatchesUp`.

## 4. The proofs

`RTSPOwnership_proofs` proves, for any number of connections, slots and hosts,
that `Spec` implies the type invariant and `OwnerWillRelease`, that it implements
`SessionLease`, and what no run checks by itself: media only under a current and
confirmed claim (`StreamOwned`), never two streams (`OneStream`), slots bounded (`SlotsBounded`), a confirmed owner that
only releases by itself (`ConfirmedIsKept`), no socket tracked behind the snapshot of
`server_close` (`NoneMissedByClose`).

The safety properties are not inductive. `IInv` adds what the code relies on:

* `ClaimsInv`: generations are unique, never above `_client_claim` and zero before a
  session claims; a confirmed flag implies an owner.
* `MediaInv`: a pipeline exists only between PLAY and `_stop_media`, under a
  claim that is current and confirmed.
* `OwnerWillRelease`: whoever owns the receiver has its release ahead of it.
* `SlotsInv`: the tracked set is finite, bounded, and its members will untrack.

`MediaInv` is preserved because a confirmed owner cannot be replaced
(`claim_client` refuses) and releases only after `_stop_media`; both need
`ClaimsInv` (unique generations) to know that a late release of a superseded
session does nothing. The refinement maps the holder to the session whose
generation is current; a step of the server is a lease step or stutters.

`RTSPHandler_proofs` proves, for any number of timers, any size of the table, any
number of starts of media and any set of configurations, the properties of the run
`handler`, the type invariant, that no timer outlives the session (`TimersEnd`) and that the
table stays bounded with UIBC, too (`PendingBounded`). Its `IInv` has three parts beside the types:

* `TimersInv`: a waiting timer is the one its attribute names; the keepalive
  attribute is None once the session leaves for good, the sender-health attribute
  while the pipeline is stopped and after the end. `NoTimerOutlivesSession` follows:
  a timer that waited after the end would be named by an attribute that is None.
* `StreamInv`: no keepalive thread is older than the first PLAY, and one that is
  about to give up during the first stream has a reason (refused, connection lost,
  sender dead, a failed attempt still listed). Without it a callback could clear the attribute of a healthy stream.
  That is what does happen to the second stream, see the hazards.
* `TableInv`: without UIBC the table is a subset of the five requests sent once (the
  heartbeat replaces itself), so that `RoomForRequests` holds for every table of
  more than five; with UIBC each of the three senders checks before it adds.

`ProgressiveTS_proofs` proves, for any number of requests and of writers at once,
any window and any number of segments, the three properties of the run
`progressive`, the order of the segments (`OrderedAfterFirst`) and the type invariant; TLC needs a bound on the writers and the segments, the proofs do
not. `IInv` adds to them:

* `WritersInv`: no writer's generation is ahead of the stream's, and of the current
  one there is at most one writer; a stream that has not started is empty. So
  `ResetStream` turns every writer into a stale one, and `Start` creates the only one
  that is not.
* `FileInv`: until the current writer has emptied the file nothing has been
  appended (`size = 0`), whatever is left in it; afterwards every entry is of the
  current generation and known, and what the writer is about to append is not
  known. `AppendedFile` is the lemma behind `AppendSegment` and `WriterDies`.
* `OrderInv`: a segment that is listed, or has yet to be listed, lies beyond everything
  the current writer has appended, the first one apart. Only the current writer's steps
  can disturb it, since the generation test keeps the others from appending.
* `ReadersInv`: `readers` never exceeds the requests between acquire and release;
  it may be less, since `ResetStream` forgets them.

`WFDSession_proofs` proves, for either back end, any number of interrupts and
releases that fail or not, `TeardownComplete` and the type invariant. `IInv` adds to the types:

* `ControlInv`: in the teardown every step that is due was begun or is still in
  `todo`, and nothing else is in it.
* `PortsInv`: a port noted as opened was not the user's.
* `WpasInv`: `connect_via_wpa_supplicant` gives the GO intent back on each way out, and
  a DHCP server that is there when it returns is one that the lease file leads to.
* `LeftInv`: what is left on the host is owed to a step that is still to come or was
  lost. Without `WpasInv` it would fail for the intent, which no cleanup step restores.

`MediaPipeline_proofs` proves, for any orders of back ends and any number of attempts
and interrupts, the five safety properties of the run `media`. Its `IInv` beside the types:

* `ControlInv` ties the two threads' places in `stop()` and `close_portal_capture` to
  where they are otherwise.
* `FreshInv`, `ReleasedInv`, `ClosesInv`, `SilentInv` follow the portal session: a new one
  finds nothing of one before, a session that nobody holds is closed, each of the two
  threads closes the descriptor at most once and the main thread only after an interrupt, and
  while nobody pressed Ctrl+C only a revoke reaches the callback.
* `SendersInv`, `OwnStopInv`, `MainStopInv` follow the processes: between two attempts
  nothing runs; what runs is in the list, or among those a loop of `stop()` has still to
  visit. `MainStopInv` is why two loops over one list, cleared by either, lose none.

`Drivers_proofs` is about both drivers. Of `LPCMMux` it proves `StreamWhole`,
`NothingAfterStop`, `StampsInOrder` and the types, for any sizes of queues, frames and
buffers and any period of the counters. `ChainInv` says that counters go on from packet to
packet through the socket, the batch and the packet to be built (`Chained`), `LeadInv` that a
batch that is sent first began with the tables. `StampInv` relates stamps to the clock:
`ClockInv` (queued frames are in order and at most `MaxLag` old), `OriginInv` (the
offset is the stamp of the first frame, at most `MaxLag` before the clock's start), `LastInv`.
`StampsInOrder` needs `Lead` and `MaxLag` below half of `Wrap`: 9000 and
some seconds against 2^32 ticks, which are thirteen hours.

Of `UIBCInput` it proves the types, `FingerAsTold`, the three safety parts of `StopIsFinal`,
that the kernel never has two fingers (`OneFinger`) and `ChunksDoNotMatter`, for any byte streams,
sizes and number of connections, with `MaxId` positive. `FingerInv` says how the
kernel's contact, `pressed` and the sink's last word are related while an event is half
written: of the writes of an event only the first moves the finger (`WritesInv`).
`DevicesInv` and `StrayInv` follow `stop()` through the devices: once both attributes
are gone no test succeeds, so only the write that had passed its test can go astray.
`ChunkInv` says that what was done and what is queued are the events of the bytes so far
and that the buffer is what the parser left of them; `ParseInParts` is the lemma it rests on, that
the parse of a stream is the parse of a part followed by that of the rest.

`Link_proofs` is about the parts of the link:

* `PeerAddress`: `NoStranger` and, beside it, that the lookup takes the receiver's own
  address before the group is known (`FoundByMAC`), and that lookup and check are about one
  group and agree (`OneGroup`, `FoundIsExpected`), for any receiver,
  clients and interfaces and any finite set of neighbours; finiteness is what
  `Cardinality` needs. `LookupIsExpected` says why lookup and check agree:
  both fall back to a single neighbour, which the set being a singleton turns into the same row.
* `Negotiation`: `PortsAsAgreed` and `ModeAsAgreed`, for any configurations, ports and offers.
  `PortsInv` says that the answer in force is the one the next media takes. `PortFound` is a
  pigeonhole: of three even ports one pair is apart from the sink's two. `ModeInv` says that
  what was announced is the mode chosen from the format that was answered; `ChosenMode`
  goes through the choice, `Levels` through the table of levels.
* `RTSPReader`: `OneDeadline`, by `ReaderInv`: while a message is read its deadline is that of
  its first byte and has not passed. And `ReadAsSent`, for any bytes, limits and chunks: `ReadInv` says
  that some place in the bytes is where the message being read begins, that the messages before it
  and those from there on are all that was sent, and that the lines read so far (`InHeader`) or
  the body so far (`InBody`) are what the bytes say from there. Each end that the reader
  comes to by a limit (`Overlong`), a missing byte (`CutShort`) or a bad header is then the end that
  the reference definition `MessagesFrom` comes to at that place. A step of `readline`
  never takes a byte behind the end of the line (`TakenBytes`), and what stays in the buffer is
  what follows in the stream (`BytesMove`).
* `Discovery`: `PeersAsAdvertised` for devices that are `WellAdvertised`, by `DiscInv` (an
  entry and an answer are about one device). Unknown is allowed where the address was not
  read and where wpa_cli asked of a peer that advertises nothing.
  `Laid` and `InfoFound` say that the code's loop over the bytes finds the first whole
  Device Information of the subelements they were laid out from.

`WellAdvertised` is a hypothesis and excludes what the code reads otherwise: a leading
Device Information of a length other than six and other than a short one alone, and a total of exactly six
bytes. `wpa_cli` may give the body of the first subelement alone, and the code takes a
value for that only if it has six bytes and cannot be read as subelements (`wfd/ie.py`,
`_wfd_capability_from_hex`). The standard gives the Device Information six bytes, and every device of
the run is well advertised (`MCAdvertised`).

The recursive functions over bytes, the parser of `UIBCInput`, `InfoFrom`, `Headers` and
`MessagesFrom`, are defined by `CHOOSE`, so the proofs first show that a function satisfying the equation exists
(`RecursionExists`) and then argue about the place where it stands: by the
least counterexample in a well-founded order, which needs no induction rule that takes an operator.

`Lan_proofs` proves of `LanCast` `EndLeavesNothing`, `HangsOnlyThere`, the type invariant, that only one back
end ever captures (`OneCapture`) and that the television is admitted before it is told
(`AdmittedBeforeTold`), for any kinds of
session, protocols and number of signals. Almost everything is a function of
where the main thread is or was when it was cut off (`Where`); `LockInv` and
`TornDownInv` say what holds on top of it within `shutdown`, for any number of
shutdowns on top of each other.

Of `TrayCast` it proves `LostCastsFromStaleMenus`, `MonitorAsPicked`, the type invariant and, beside
them, that no refresh is lost but to a notification that raised (`NoLostRefresh`), that the tray forgets only the dead
(`ForgetsOnlyTheDead`) and shows a scan only while one is under way or after one that exited (`ScanningEnds`), for any number of casts,
scans and choices and any lists of monitors. `CastsInv` orders casts, processes
and watchers; `FreshInv` says that while the menu is built the icon already shows
the present state or somebody will ask again; `LostInv` says the cast about
to be forgotten is noted as replaced before it is.

Assumptions on constants are as weak as the code allows and stand in the module that
declares them (`MuxAssumption`, `NegotiationAssumption`, `ReaderAssumption`,
`DiscoveryAssumption` and so on: counts and ports are natural numbers, `MaxId` and sizes are positive), where
TLC evaluates them in each run, or with the one theorem that needs more (a finite set of
neighbours, lists of monitors, the two halves of `Wrap`, `WellAdvertised`).

Only model-checked: all liveness and what has a liveness part (`MuxStops`, `StopIsFinal`,
`SignalEnds`, whose safety parts are proved by themselves).

## 5. Plan

1. Done: the core (`SessionLease`, `RTSPOwnership`, `RTSPHandler`, `ProgressiveTS`, `WFDSession`,
   `MediaPipeline`), then the link (`Negotiation`, `RTSPReader`, `PeerAddress`,
   `Discovery`), the drivers (`LPCMMux`, `UIBCInput`) and the LAN (`LanCast`,
   `TrayCast`), with proofs about all of them.
2. Done: proofs of every safety invariant the runs check.
3. Composition: `Negotiation` with `RTSPHandler`, so that a second SETUP meets the
   timers; `LPCMMux` as a back end of `MediaPipeline`, with its probe unregistered.

## 6. Not modelled

Message texts and layout (start lines, CSeq headers); the content of media and of
packets; D-Bus replies and polling intervals; time itself outside `RTSPReader` and
`LPCMMux` (a deadline is a nondeterministic failure); argument parsing and command
lines of ffmpeg and GStreamer; settings, diagnostics, translations and
packaging, which report or store and take no part in a session.

Left out of modelled parts, with the reason:

* The search for the receiver over interfaces other than the group's
  (`_get_peer_ip_from_p2p_iface`) runs only with `allow_interface_fallback=True`, which no
  caller in `src` passes; the parent branch of `_on_session_group_interface` is unreachable.
* Which of several P2P devices NetworkManager offers is taken; polling of D-Bus.
* `restart_video` of the pipeline has no caller. The choice among the streams of a
  portal answer is parsing.
* `live.ts`, plain files and HTTP headers: stateless.
* The tray's settings, which write one key of a file each.
* `_send_request` takes the write lock twice, once for the CSeq and once for the bytes,
  so that two threads can write in the other order; the receiver matches answers by CSeq,
  and nothing in the program promises the order.
* The keepalive of a second stream may be lost to a callback of the first, see the
  hazards; the code does that, and no document promises otherwise.
