------------------------------- MODULE LanCast -------------------------------
(***************************************************************************)
(* A cast over the LAN (main.py, protocols dlna and cast): one thread      *)
(* chooses a monitor, starts the capture with a fall-back over the back    *)
(* ends (capture/capture.py), starts the HTTP server (server.py), waits    *)
(* for segments, finds the television and tells it the address.  SIGINT    *)
(* and SIGTERM run shutdown() on the same thread, on top of whatever it is *)
(* doing, a second signal on top of the first; shutdown() ends in SystemExit*)
(* so nothing below it resumes, but a lock held below it stays held.       *)
(* The command line, the HLS files and the calls to the television are     *)
(* kept only in their outcomes.                                            *)
(***************************************************************************)
EXTENDS Integers, Sequences, FiniteSets

CONSTANTS Sessions,     \* kinds of desktop session
          Protocols,    \* "dlna", "cast"
          MaxSignals    \* bound: signals delivered

VARIABLES at,        \* where the thread is
          choice,    \* the protocol and the back ends to try
          tried,     \* how many of them were tried
          procs,     \* capture processes running
          portal,    \* portal sessions open
          capture,   \* ffmpeg_procs: the back end assigned
          server,    \* stream_server and the socket server in it
          lock,      \* a frame of the thread is inside ProgressiveTS.reset
          tv, allowed,
          told,      \* the television was told the address, and not to stop since
          signals,   \* signals delivered
          cut        \* where the thread was when shutdown or an error cut it off

vars == <<at, choice, tried, procs, portal, capture, server, lock, tv, allowed, told, signals, cut>>
captureVars == <<choice, tried, procs, portal, capture>>
tvVars == <<tv, allowed, told>>

None == "none"
BackEnds == {"portal", "wf-recorder", "x11grab"}

_auto_capture_backend_order(session) ==
  CASE session = "hyprland" -> <<"wf-recorder", "x11grab">>
    [] session = "wayland"  -> <<"portal", "wf-recorder">>
    [] OTHER                -> <<"x11grab", "wf-recorder">>

Main == {"monitor", "try", "dialog", "settle", "captured", "resetting", "bind", "bound",
         "serving", "discover", "allow", "send", "paused"}
Shutdown == {"tv", "server", "close", "reset", "clearing", "capture", "waiting", "portal", "exit"}
Ends == {"exited", "failed", "hung"}

Goes(from, to) == at = from /\ at' = to
ShutsDown(from) == Goes(from, "tv") /\ cut' = from
\* An exception nobody catches, or sys.exit outside shutdown().
Fails(from) == Goes(from, "failed") /\ cut' = from

Init ==
  /\ at = "monitor"
  /\ \E s \in Sessions, p \in Protocols, forced \in {"auto", "wf-recorder", "x11grab"} :
       choice = [protocol |-> p,
                 order |-> IF forced = "auto" THEN _auto_capture_backend_order(s) ELSE <<forced>>]
  /\ tried = 0 /\ procs = {} /\ portal = 0 /\ capture = None
  /\ server = None /\ lock = FALSE /\ tv = None /\ allowed = None /\ told = FALSE
  /\ signals = 0 /\ cut = None

-----------------------------------------------------------------------------
(* The capture.                                                             *)

ChooseMonitor ==
  /\ \/ Goes("monitor", "try") /\ UNCHANGED cut
     \/ ShutsDown("monitor")                    \* no monitor of that name
     \/ Fails("monitor")                        \* no input to choose with
  /\ UNCHANGED <<captureVars, server, lock, tvVars, signals>>

Candidate == IF tried < Len(choice.order) THEN choice.order[tried + 1] ELSE None

\* A back end whose tools are missing, or whose portal dialog fails, is passed over;
\* after the last the program exits.
PassedOver(from) ==
  /\ tried' = tried + 1
  /\ \/ tried + 1 < Len(choice.order) /\ Goes(from, "try") /\ UNCHANGED cut
     \/ tried + 1 = Len(choice.order) /\ Fails(from)

Unavailable ==
  /\ \E from \in {"try", "dialog"} : PassedOver(from)
  /\ UNCHANGED <<choice, procs, portal, capture, server, lock, tvVars, signals>>

\* A bitrate or a size that does not parse is no CaptureStartError; x11grab parses none.
BadOption ==
  /\ Candidate # "x11grab" /\ Fails("try")
  /\ UNCHANGED <<captureVars, server, lock, tvVars, signals>>

OpenDialog ==
  /\ Candidate = "portal" /\ Goes("try", "dialog")
  /\ UNCHANGED <<captureVars, server, lock, tvVars, signals, cut>>

Spawn ==
  /\ \/ Candidate = "portal" /\ Goes("dialog", "settle") /\ portal' = portal + 1
     \/ Candidate # "portal" /\ Goes("try", "settle") /\ UNCHANGED portal
  /\ procs' = procs \cup {Candidate}
  /\ UNCHANGED <<choice, tried, capture, server, lock, tvVars, signals, cut>>

\* The process is looked at after a pause.
\* mutant: a process still alive is passed over, too
SettleImpatient ==
  /\ \/ /\ Candidate \in procs /\ Goes("settle", "captured")
        /\ capture' = Candidate /\ UNCHANGED <<tried, portal, cut>>
     \/ /\ PassedOver("settle") /\ UNCHANGED capture
        /\ portal' = IF Candidate = "portal" THEN portal - 1 ELSE portal
  /\ UNCHANGED <<choice, procs, server, lock, tvVars, signals>>
Settle ==
  /\ \/ /\ Candidate \in procs /\ Goes("settle", "captured")
        /\ capture' = Candidate /\ UNCHANGED <<tried, portal, cut>>
     \/ /\ Candidate \notin procs /\ PassedOver("settle") /\ UNCHANGED capture
        /\ portal' = IF Candidate = "portal" THEN portal - 1 ELSE portal
  /\ UNCHANGED <<choice, procs, server, lock, tvVars, signals>>

\* The process ends by itself, or by SIGTERM at last.
Dies(b) ==
  /\ b \in procs /\ procs' = procs \ {b}
  /\ UNCHANGED <<at, choice, tried, portal, capture, server, lock, tvVars, signals, cut>>

-----------------------------------------------------------------------------
(* The server and the television.                                           *)

\* The StreamServer is assigned, and start() begins by resetting the progressive
\* stream, under its lock.
Construct ==
  /\ Goes("captured", "resetting")
  /\ server' = "made" /\ lock' = TRUE
  /\ UNCHANGED <<captureVars, tvVars, signals, cut>>

ResetDone ==
  /\ Goes("resetting", "bind") /\ lock' = FALSE
  /\ UNCHANGED <<captureVars, server, tvVars, signals, cut>>

\* An OSError shuts down; a port out of range or a host that is no name raises
\* something else, which nothing catches.
Bind ==
  /\ \/ Goes("bind", "bound") /\ server' = "bound" /\ UNCHANGED cut
     \/ (ShutsDown("bind") \/ Fails("bind")) /\ UNCHANGED server
  /\ UNCHANGED <<captureVars, lock, tvVars, signals>>

StartThread ==
  /\ Goes("bound", "serving") /\ server' = "serving"
  /\ UNCHANGED <<captureVars, lock, tvVars, signals, cut>>

_wait_for_hls_segments ==
  /\ \/ Goes("serving", "discover") /\ UNCHANGED cut
     \/ ShutsDown("serving")
  /\ UNCHANGED <<captureVars, server, lock, tvVars, signals>>

\* discover_devices, connect_by_ip and prompt_device: a television, or an exit.
Discover ==
  /\ \/ Goes("discover", "allow") /\ tv' = "tv" /\ UNCHANGED cut
     \/ Fails("discover") /\ UNCHANGED tv
  /\ UNCHANGED <<captureVars, server, lock, allowed, told, signals>>

\* The address of a UPnP device without a location raises.
allow_client ==
  /\ \/ Goes("allow", "send") /\ allowed' = tv /\ UNCHANGED cut
     \/ choice.protocol = "dlna" /\ Fails("allow") /\ UNCHANGED allowed
  /\ UNCHANGED <<captureVars, server, lock, tv, told, signals>>

\* dlna.start_cast swallows every exception, cast.start_cast none.
start_cast ==
  /\ \/ Goes("send", "paused") /\ told' \in (IF choice.protocol = "dlna" THEN BOOLEAN ELSE {TRUE})
        /\ UNCHANGED cut
     \/ choice.protocol = "cast" /\ Fails("send") /\ told' \in BOOLEAN
  /\ UNCHANGED <<captureVars, server, lock, tv, allowed, signals>>

-----------------------------------------------------------------------------
(* shutdown().                                                              *)

Signal ==
  /\ signals < MaxSignals /\ at \in Main \cup Shutdown
  /\ signals' = signals + 1 /\ at' = "tv"
  /\ cut' = IF cut = None THEN at ELSE cut
  /\ told' \in IF at = "send" THEN BOOLEAN ELSE {told}
  /\ UNCHANGED <<captureVars, server, lock, tv, allowed>>

\* The television, if there is one, is told to stop; where that fails, the failure is
\* swallowed and it plays on.
stop_cast ==
  /\ Goes("tv", "server")
  /\ told' \in IF tv = None THEN {told} ELSE {told, FALSE}
  /\ UNCHANGED <<captureVars, server, lock, tv, allowed, signals, cut>>

\* StreamServer.stop: shutdown() waits until serve_forever has returned, and waits
\* for ever if it never began.
StopServer ==
  /\ \/ server = None /\ Goes("server", "capture") /\ UNCHANGED server
     \/ server = "made" /\ Goes("server", "reset") /\ UNCHANGED server
     \/ server = "bound" /\ Goes("server", "hung") /\ UNCHANGED server
     \/ server \in {"serving", "stopped", "closed"} /\ Goes("server", "close")
        /\ server' = "stopped"
  /\ UNCHANGED <<captureVars, lock, tvVars, signals, cut>>

CloseServer ==
  /\ Goes("close", "reset") /\ server' = "closed"
  /\ UNCHANGED <<captureVars, lock, tvVars, signals, cut>>

\* The lock is not reentrant: a frame below that holds it never lets it go.
Reset ==
  /\ \/ lock /\ Goes("reset", "hung") /\ UNCHANGED lock
     \/ ~lock /\ Goes("reset", "clearing") /\ lock' = TRUE
  /\ UNCHANGED <<captureVars, server, tvVars, signals, cut>>

Cleared ==
  /\ Goes("clearing", "capture") /\ lock' = FALSE
  /\ UNCHANGED <<captureVars, server, tvVars, signals, cut>>

\* stop_capture: SIGTERM, and SIGKILL after five seconds.
Terminate ==
  /\ \/ capture \in procs /\ Goes("capture", "waiting")
     \/ capture \notin procs /\ Goes("capture", "portal")
  /\ UNCHANGED <<captureVars, server, lock, tvVars, signals, cut>>

\* mutant: it is waited for without a limit
WaitForever ==
  /\ capture \notin procs /\ Goes("waiting", "portal")
  /\ UNCHANGED <<captureVars, server, lock, tvVars, signals, cut>>
WaitOrKill ==
  /\ Goes("waiting", "portal") /\ procs' = procs \ {capture}
  /\ UNCHANGED <<choice, tried, portal, capture, server, lock, tvVars, signals, cut>>

\* A portal session that was closed before is closed again without harm.
ClosePortal ==
  /\ Goes("portal", "exit")
  /\ portal' = IF capture = "portal" THEN 0 ELSE portal
  /\ UNCHANGED <<choice, tried, procs, capture, server, lock, tvVars, signals, cut>>

Exit ==
  /\ Goes("exit", "exited")
  /\ UNCHANGED <<captureVars, server, lock, tvVars, signals, cut>>

MainStep ==
  \/ ChooseMonitor \/ Unavailable \/ BadOption \/ OpenDialog \/ Spawn \/ Settle \/ Construct
  \/ ResetDone \/ Bind \/ StartThread \/ _wait_for_hls_segments \/ Discover \/ allow_client
  \/ start_cast
ShutdownStep ==
  \/ stop_cast \/ StopServer \/ CloseServer \/ Reset \/ Cleared \/ Terminate \/ WaitOrKill
  \/ ClosePortal \/ Exit

Next == MainStep \/ ShutdownStep \/ Signal \/ \E b \in BackEnds : Dies(b)
Spec == Init /\ [][Next]_vars /\ WF_vars(MainStep \/ ShutdownStep)

-----------------------------------------------------------------------------
TypeOK ==
  /\ at \in Main \cup Shutdown \cup Ends /\ cut \in Main \cup Shutdown \cup {None}
  /\ tried \in 0..Len(choice.order) /\ procs \subseteq BackEnds /\ portal \in 0..1
  /\ server \in {None, "made", "bound", "serving", "stopped", "closed"}
  /\ {lock, told} \subseteq BOOLEAN /\ signals \in 0..MaxSignals

\* A back end that was passed over leaves no process and no portal session behind:
\* only the back end being tried, which is the one assigned in the end, has any.
OneCapture ==
  /\ procs \subseteq {Candidate}
  /\ portal = 1 => Candidate = "portal" /\ at \notin {"try", "dialog"}
  /\ capture \in {None, Candidate}

\* shutdown() leaves no capture, no portal session and no server behind, except when
\* it cut start_capture off before its result was assigned.  Of the television
\* nothing is said: a stop that fails is swallowed.
ShutdownReleases ==
  at = "exited" => \/ procs = {} /\ portal = 0 /\ server \in {None, "made", "closed"}
                   \/ cut = "settle" /\ capture = None

\* An exception leaves the capture running only after the capture was assigned: where
\* the HTTP server is bound, in the search for the television, its admission or the
\* call that starts the cast.
FailureLeavesCapture ==
  (at = "failed" /\ (procs # {} \/ portal > 0)) => cut \in {"bind", "discover", "allow", "send"}

\* However the program ends, it leaves a capture or a portal session only where the
\* two exceptions above say so.
EndLeavesNothing == ShutdownReleases /\ FailureLeavesCapture

\* One signal hangs the thread only between the creation of the socket server and
\* the start of its thread, or inside a reset of the progressive stream: the one of
\* the start, or the one of a shutdown() already under way.
HangsOnlyThere ==
  at = "hung" => \/ cut \in {"bound", "resetting"}
                 \/ signals > 1 \/ (signals = 1 /\ cut \in {"bind", "serving"})

\* The television learns an address only when the server already serves it and
\* admits the television.
AdmittedBeforeTold ==
  told => allowed = tv /\ tv # None /\ server \notin {None, "made", "bound"}

\* A signal ends the program, unless it hangs as above.
SignalEnds ==
  /\ []HangsOnlyThere
  /\ []<>(signals > 0 => at \in Ends)
=============================================================================
