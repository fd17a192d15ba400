---------------------------- MODULE MediaPipeline ----------------------------
(***************************************************************************)
(* One WFDMediaPipeline: start() with its fallbacks (pipeline.py, the      *)
(* mixins of wfd/media), the portal session it may hold                    *)
(* (portal_capture.py), and stop(), which the session's own thread and the *)
(* main thread's stop_all_media may run at the same time.  The portal's    *)
(* Closed signal is handled by a third thread, the loop of _PortalRuntime. *)
(*                                                                         *)
(* A sender is <<a, i>>: process i of the a-th attempt.                    *)
(***************************************************************************)
EXTENDS Naturals, Sequences, FiniteSets

CONSTANTS Orders,       \* the orders in which capture back ends are tried
          MaxAttempts,  \* bound: attempts of all back ends together
          MaxCtrlC      \* bound: interrupts by the user or the tray

Pairs   == {"wf-recorder", "portal-ffmpeg"}   \* producer | encoder
Portals == {"portal", "portal-ffmpeg"}
Backends == Pairs \cup Portals \cup {"x11grab"}

ASSUME PipelineAssumption ==
  /\ Orders \subseteq Seq(Backends)
  /\ \A o \in Orders : o # <<>> /\ \A i, j \in 1..Len(o) :
       o[i] \in Portals /\ o[j] \in Portals => i = j
  /\ MaxAttempts \in Nat /\ MaxCtrlC \in Nat

VARIABLES
  order, n, pc, attempt,         \* the session's thread in start(), at the n-th back end
  proc, processes,               \* the senders, self.processes
  portal, signal, fd, closes,    \* the session at the portal, its Closed signal, pw_fd
  held, on_closed, loop, fired,  \* self.portal_session, the callback, the D-Bus loop
  stop, left, close,             \* where a thread is in stop(), in close_portal_capture
  main, seen, ctrlc, sigint      \* the main thread, if it saw a started pipeline

startVars  == <<order, n, pc, attempt>>
senderVars == <<proc, processes>>
portalVars == <<portal, signal, fd, closes, held, on_closed>>
loopVars   == <<loop, fired>>
stopVars   == <<stop, left, close>>
mainVars   == <<main, seen, ctrlc, sigint>>
vars == <<startVars, senderVars, portalVars, loopVars, stopVars, mainVars>>

Threads == {"session", "main"}
Senders == (1..MaxAttempts) \X {1, 2}
Backend == order[n]
Size(b) == IF b \in Pairs THEN 2 ELSE 1
Of(a)   == {s \in Senders : s[1] = a}
Running == {s \in Senders : proc[s] = "running"}

\* Registered with the RTSP server, not yet stopped by its own session.
Registered == pc \notin {"stopping", "over"}

Init ==
  /\ order \in Orders /\ n = 1 /\ pc = "backend" /\ attempt = 0
  /\ proc = [s \in Senders |-> "unborn"] /\ processes = {}
  /\ portal = "none" /\ signal = FALSE /\ fd = "none" /\ closes = 0
  /\ held = FALSE /\ on_closed = FALSE /\ loop = "waits" /\ fired = "no"
  /\ stop = [t \in Threads |-> "no"] /\ left = [t \in Threads |-> {}]
  /\ close = [t \in Threads |-> "no"]
  /\ main = "waits" /\ seen = FALSE /\ ctrlc = 0 /\ sigint = FALSE

-----------------------------------------------------------------------------
(* start(): the next back end, and its portal session.                     *)

Begin ==
  /\ pc = "backend"
  /\ pc' = IF Backend \in Portals THEN "asking" ELSE "attempt"
  /\ UNCHANGED <<order, n, attempt, senderVars, portalVars, loopVars, stopVars, mainVars>>

NextBackendAlways == \* mutant: the last back end is not recognised
  n' = n + 1 /\ pc' = "backend" /\ UNCHANGED order

\* WFDNotReady: the next back end, if there is one.
NextBackend ==
  /\ UNCHANGED order
  /\ IF n < Len(order)
     THEN n' = n + 1 /\ pc' = "backend"
     ELSE pc' = "failed" /\ UNCHANGED n

\* A program or an element is missing, or the user rejects the dialog.
NotReady ==
  /\ pc = "asking" \/ (pc = "attempt" /\ Backend \notin Portals)
  /\ NextBackend
  /\ UNCHANGED <<attempt, senderVars, portalVars, loopVars, stopVars, mainVars>>

\* CreateSession, SelectSources and Start have succeeded.
Shared ==
  /\ pc = "asking" /\ pc' = "opening"
  /\ portal' = "open"
  /\ UNCHANGED <<order, n, attempt, senderVars, signal, fd, closes, held, on_closed,
                 loopVars, stopVars, mainVars>>

\* The portal answers OpenPipeWireRemote with a descriptor.
RemoteOpened ==
  /\ pc = "opening" /\ portal = "open" /\ pc' = "replied"
  /\ fd' = "open"
  /\ UNCHANGED <<order, n, attempt, senderVars, portal, signal, closes, held, on_closed,
                 loopVars, stopVars, mainVars>>

\* start_portal_capture fails or times out: it leaves the bus, which ends the
\* session; a descriptor that has arrived is not closed.
OpeningFails ==
  /\ pc \in {"opening", "replied"}
  /\ NextBackend
  /\ portal' = "closed" /\ signal' = FALSE
  /\ fd' = IF pc = "replied" THEN "lost" ELSE fd
  /\ UNCHANGED <<attempt, senderVars, closes, held, on_closed, loopVars, stopVars, mainVars>>

\* The coroutine has put the session in "opened", and the thread has stored it.
Opened ==
  /\ pc = "replied" /\ pc' = "opened"
  /\ held' = TRUE
  /\ UNCHANGED <<order, n, attempt, senderVars, portal, signal, fd, closes, on_closed,
                 loopVars, stopVars, mainVars>>

Assign ==
  /\ pc = "opened" /\ pc' = "attempt"
  /\ on_closed' = TRUE
  /\ UNCHANGED <<order, n, attempt, senderVars, portal, signal, fd, closes, held,
                 loopVars, stopVars, mainVars>>

CloseKeepsCallback(t) == \* mutant: on_closed is not set to None
  /\ UNCHANGED on_closed
  /\ IF held THEN close' = [close EXCEPT ![t] = "calling"] ELSE UNCHANGED close

\* close_portal_capture: forget the callback, then call Close.
CloseBegins(t) ==
  IF held
  THEN on_closed' = FALSE /\ close' = [close EXCEPT ![t] = "calling"]
  ELSE UNCHANGED <<on_closed, close>>

\* The source is not one the pipeline can use: the session is closed again.
Unsupported ==
  /\ pc = "opened" /\ pc' = "closing"
  /\ CloseBegins("session")
  /\ UNCHANGED <<order, n, attempt, senderVars, portal, signal, fd, closes, held,
                 loopVars, stop, left, mainVars>>

-----------------------------------------------------------------------------
(* start(): the attempts of a back end.                                    *)

\* The portal back ends have a list of pipelines to try.
MayRetry == Backend \in Portals /\ attempt < MaxAttempts

\* The processes of an attempt are children before anyone can find them:
\* _spawn_capture_pipe lists them at once, the others when they have lived.
Spawn ==
  /\ pc = "attempt" /\ attempt < MaxAttempts
  /\ attempt' = attempt + 1
  /\ pc' = IF Backend = "portal-ffmpeg" THEN "listing" ELSE "spawned"
  /\ proc' = [s \in Senders |-> IF s[1] = attempt + 1 /\ s[2] <= Size(Backend)
                               THEN "running" ELSE proc[s]]
  /\ UNCHANGED <<order, n, processes, portalVars, loopVars, stopVars, mainVars>>

Born == {s \in Of(attempt) : proc[s] # "unborn"}

ListPipe ==
  /\ pc = "listing" /\ pc' = "spawned"
  /\ processes' = Born
  /\ UNCHANGED <<order, n, attempt, proc, portalVars, loopVars, stopVars, mainVars>>

\* A Popen raises OSError, which start() does not catch; the first process of a
\* pair may be there already.
SpawnFails ==
  /\ pc = "attempt" /\ attempt < MaxAttempts
  /\ attempt' = attempt + 1 /\ pc' = "failed"
  /\ \/ UNCHANGED proc
     \/ Backend \in Pairs /\ proc' = [proc EXCEPT ![<<attempt + 1, 1>>] = "running"]
  /\ UNCHANGED <<order, n, processes, portalVars, loopVars, stopVars, mainVars>>

Alive(a) == \A s \in Of(a) : proc[s] # "gone"

\* The attempt has lived long enough, or has delivered its first frame.
Started ==
  /\ pc = "spawned" /\ Alive(attempt)
  /\ pc' = "streaming"
  /\ processes' = IF Backend = "portal-ffmpeg" THEN processes ELSE Born
  /\ UNCHANGED <<order, n, attempt, proc, portalVars, loopVars, stopVars, mainVars>>

LeavePartner == \* mutant: the living process of a pair is not terminated
  /\ UNCHANGED proc
  /\ processes' = IF Backend = "portal-ffmpeg" THEN {} ELSE processes

\* The living process of a pair is told to terminate and not waited for.
GiveUpAttempt ==
  /\ proc' = [s \in Senders |-> IF s \in Of(attempt) \cap Running THEN "told" ELSE proc[s]]
  /\ processes' = IF Backend = "portal-ffmpeg" THEN {} ELSE processes

\* A process has exited, or a portal pipe delivers no frames.
AttemptFails ==
  /\ pc = "spawned"
  /\ ~Alive(attempt) \/ Backend = "portal-ffmpeg"
  /\ GiveUpAttempt
  /\ (MayRetry /\ pc' = "attempt") \/ pc' = "exhausted"
  /\ UNCHANGED <<order, n, attempt, portalVars, loopVars, stopVars, mainVars>>

\* Every attempt of the back end has failed.  The all-GStreamer portal back end
\* closes its session; the one with ffmpeg leaves it to stop().
Exhausted ==
  /\ pc = "exhausted"
  /\ IF Backend = "portal"
     THEN CloseBegins("session") /\ pc' = "closing" /\ UNCHANGED <<order, n>>
     ELSE NextBackend /\ UNCHANGED <<on_closed, close>>
  /\ UNCHANGED <<attempt, senderVars, portal, signal, fd, closes, held, loopVars,
                 stop, left, mainVars>>

Rejected ==
  /\ pc = "closing" /\ close["session"] = "no"
  /\ NextBackend
  /\ UNCHANGED <<attempt, senderVars, portalVars, loopVars, stopVars, mainVars>>

-----------------------------------------------------------------------------
(* The portal, the D-Bus loop, the senders and the user.                   *)

\* The shared window is closed, or sharing is stopped from the desktop.
Revoke ==
  /\ portal = "open" /\ portal' = "revoked"
  /\ signal' = TRUE
  /\ UNCHANGED <<startVars, senderVars, fd, closes, held, on_closed, loopVars, stopVars,
                 mainVars>>

\* _closed_handler; without a session or a callback the signal is dropped.
HandleClosed ==
  /\ signal /\ loop = "waits"
  /\ signal' = FALSE
  /\ loop' = IF on_closed THEN "fires" ELSE "waits"
  /\ UNCHANGED <<startVars, senderVars, portal, fd, closes, held, on_closed, fired,
                 stopVars, mainVars>>

FireNothing == \* mutant: the revoke is reported and nothing else
  /\ loop = "fires" /\ loop' = "waits"
  /\ UNCHANGED <<startVars, senderVars, portalVars, fired, stopVars, mainVars>>

\* _end_session_on_portal_revoke: SIGINT.
Fire ==
  /\ loop = "fires" /\ loop' = "waits"
  /\ fired' = IF portal = "revoked" THEN "revoked" ELSE "own"
  /\ sigint' = TRUE
  /\ UNCHANGED <<startVars, senderVars, portalVars, stopVars, main, seen, ctrlc>>

Exits(s) ==
  /\ proc[s] = "running" /\ proc' = [proc EXCEPT ![s] = "gone"]
  /\ UNCHANGED <<startVars, processes, portalVars, loopVars, stopVars, mainVars>>

CtrlC ==
  /\ ctrlc < MaxCtrlC /\ ctrlc' = ctrlc + 1
  /\ sigint' = TRUE
  /\ UNCHANGED <<startVars, senderVars, portalVars, loopVars, stopVars, main, seen>>

\* KeyboardInterrupt in the main thread: it ends the wait, and aborts a step of
\* the cleanup (_cleanup_step goes on with the next); between two steps it ends
\* the program.
Interrupted ==
  /\ sigint /\ sigint' = FALSE
  /\ main' = IF main = "waits" THEN "interrupted" ELSE "over"
  /\ IF main = "stops"
     THEN stop' = [stop EXCEPT !["main"] = "raised"] /\ close' = [close EXCEPT !["main"] = "no"]
     ELSE UNCHANGED <<stop, close>>
  /\ UNCHANGED <<startVars, senderVars, portalVars, loopVars, left, seen, ctrlc>>

-----------------------------------------------------------------------------
(* stop().                                                                 *)

StopBegins(t) ==
  /\ stop' = [stop EXCEPT ![t] = "senders"]
  /\ left' = [left EXCEPT ![t] = processes]

\* _stop_media: it leaves the server's list first.
EndSession ==
  /\ pc \in {"streaming", "failed"} /\ pc' = "stopping"
  /\ StopBegins("session")
  /\ UNCHANGED <<order, n, attempt, senderVars, portalVars, loopVars, close, mainVars>>

\* stop_all_media finds the pipeline in its list, or not.
MainStops ==
  /\ main = "interrupted"
  /\ seen' = (pc = "streaming")
  /\ IF Registered
     THEN main' = "stops" /\ StopBegins("main")
     ELSE main' = "over" /\ UNCHANGED <<stop, left>>
  /\ UNCHANGED <<startVars, senderVars, portalVars, loopVars, close, ctrlc, sigint>>

\* SIGTERM, four seconds, SIGKILL, one second.
StopSender(t) ==
  /\ stop[t] = "senders"
  /\ \E s \in left[t] :
       /\ proc' = [proc EXCEPT ![s] = "gone"]
       /\ left' = [left EXCEPT ![t] = @ \ {s}]
  /\ UNCHANGED <<startVars, processes, portalVars, loopVars, stop, close, mainVars>>

\* A sender that survives SIGKILL for a second: TimeoutExpired.
StopRaises(t) ==
  /\ stop[t] = "senders" /\ \E s \in left[t] : proc[s] # "gone"
  /\ stop' = [stop EXCEPT ![t] = "raised"]
  /\ UNCHANGED <<startVars, senderVars, portalVars, loopVars, left, close, mainVars>>

ClearFirst(t) == \* mutant: the list is cleared before its processes are stopped
  /\ stop[t] = "senders"
  /\ processes' = {} /\ left' = [u \in Threads |-> left[u] \ processes]
  /\ stop' = [stop EXCEPT ![t] = "portal"]
  /\ UNCHANGED <<startVars, proc, portalVars, loopVars, close, mainVars>>

\* clear() empties the list that is there now, which another thread may be
\* iterating over, or which start() may have stored meanwhile.
Clear(t) ==
  /\ stop[t] = "senders" /\ left[t] = {}
  /\ processes' = {} /\ left' = [u \in Threads |-> left[u] \ processes]
  /\ stop' = [stop EXCEPT ![t] = "portal"]
  /\ UNCHANGED <<startVars, proc, portalVars, loopVars, close, mainVars>>

StopPortal(t) ==
  /\ stop[t] = "portal"
  /\ stop' = [stop EXCEPT ![t] = "last"]
  /\ CloseBegins(t)
  /\ UNCHANGED <<startVars, senderVars, portal, signal, fd, closes, held, loopVars, left,
                 mainVars>>

\* The portal closes the session and says so; or it does not answer in time.
CallClose(t) ==
  /\ close[t] = "calling" /\ close' = [close EXCEPT ![t] = "called"]
  /\ \/ UNCHANGED <<portal, signal>>
     \/ portal = "open" /\ portal' = "closed" /\ signal' = TRUE
  /\ UNCHANGED <<startVars, senderVars, fd, closes, held, on_closed, loopVars, stop, left,
                 mainVars>>

\* The bus is left, the loop ends, the descriptor is closed.
Disconnect(t) ==
  /\ close[t] = "called" /\ close' = [close EXCEPT ![t] = "forgetting"]
  /\ portal' = IF portal = "open" THEN "closed" ELSE portal
  /\ signal' = FALSE
  /\ fd' = "closed" /\ closes' = closes + 1
  /\ UNCHANGED <<startVars, senderVars, held, on_closed, loopVars, stop, left, mainVars>>

ForgetNothing(t) == \* mutant: portal_session is not set to None
  /\ close[t] = "forgetting" /\ close' = [close EXCEPT ![t] = "no"]
  /\ UNCHANGED <<startVars, senderVars, portalVars, loopVars, stop, left, mainVars>>

\* self.portal_session = None
Forget(t) ==
  /\ close[t] = "forgetting" /\ close' = [close EXCEPT ![t] = "no"]
  /\ held' = FALSE
  /\ UNCHANGED <<startVars, senderVars, portal, signal, fd, closes, on_closed, loopVars,
                 stop, left, mainVars>>

StopReturns(t) ==
  /\ stop[t] = "last" /\ close[t] = "no"
  /\ stop' = [stop EXCEPT ![t] = "done"]
  /\ UNCHANGED <<startVars, senderVars, portalVars, loopVars, left, close, mainVars>>

SessionOver ==
  /\ pc = "stopping" /\ stop["session"] \in {"done", "raised"} /\ pc' = "over"
  /\ UNCHANGED <<order, n, attempt, senderVars, portalVars, loopVars, stopVars, mainVars>>

MainOver ==
  /\ main = "stops" /\ stop["main"] \in {"done", "raised"} /\ main' = "over"
  /\ UNCHANGED <<startVars, senderVars, portalVars, loopVars, stopVars, seen, ctrlc, sigint>>

-----------------------------------------------------------------------------
StopStep(t) == \/ StopSender(t)
               \/ StopRaises(t)
               \/ Clear(t)
               \/ StopPortal(t)
               \/ CallClose(t)
               \/ Disconnect(t)
               \/ Forget(t)
               \/ StopReturns(t)

StartStep == \/ Begin
             \/ NotReady
             \/ Shared
             \/ RemoteOpened
             \/ OpeningFails
             \/ Opened
             \/ Assign
             \/ Unsupported
             \/ Spawn
             \/ ListPipe
             \/ SpawnFails
             \/ Started
             \/ AttemptFails
             \/ Exhausted
             \/ Rejected

Next == \/ StartStep
        \/ EndSession
        \/ SessionOver
        \/ Revoke
        \/ HandleClosed
        \/ Fire
        \/ \E s \in Senders : Exits(s)
        \/ CtrlC
        \/ Interrupted
        \/ MainStops
        \/ MainOver
        \/ \E t \in Threads : StopStep(t)

Spec == Init /\ [][Next]_vars

\* Threads run; every wait of stop() has a time-out.
FairSpec ==
  /\ Spec
  /\ WF_vars(HandleClosed)
  /\ WF_vars(Fire)
  /\ WF_vars(Interrupted)
  /\ WF_vars(MainStops \/ MainOver)
  /\ \A t \in Threads : WF_vars(StopStep(t))
-----------------------------------------------------------------------------
(* Properties.                                                             *)

Places == {"backend", "asking", "opening", "replied", "opened", "closing", "attempt",
           "listing", "spawned", "exhausted", "streaming", "failed", "stopping", "over"}

TypeOK ==
  /\ order \in Orders /\ n \in 1..Len(order)
  /\ pc \in Places /\ attempt \in 0..MaxAttempts
  /\ proc \in [Senders -> {"unborn", "running", "told", "gone"}]
  /\ processes \subseteq Senders
  /\ portal \in {"none", "open", "revoked", "closed"} /\ signal \in BOOLEAN
  /\ fd \in {"none", "open", "lost", "closed"} /\ closes \in 0..2
  /\ held \in BOOLEAN /\ on_closed \in BOOLEAN
  /\ loop \in {"waits", "fires"} /\ fired \in {"no", "revoked", "own"}
  /\ stop \in [Threads -> {"no", "senders", "portal", "last", "done", "raised"}]
  /\ left \in [Threads -> SUBSET Senders]
  /\ close \in [Threads -> {"no", "calling", "called", "forgetting"}]
  /\ main \in {"waits", "interrupted", "stops", "over"}
  /\ seen \in BOOLEAN /\ ctrlc \in 0..MaxCtrlC /\ sigint \in BOOLEAN

\* The first process of a pair whose second could not be started.
Orphans == {s \in Senders : s[2] = 1 /\ attempt = s[1] /\ proc[<<s[1], 2>>] = "unborn"
                             /\ Backend \in Pairs}

\* A fallback never sends beside the back end it replaces: the senders that
\* live and were not told to terminate belong to one attempt, whatever failed
\* and however often, and even if the main thread stops them meanwhile.
OneCapture == \A s, t \in Running : s[1] = t[1]

\* When the session's own thread has stopped its pipeline and no interrupt
\* came between, nothing sends any more but the orphan of a failed start.
SessionStopsAll ==
  main = "waits" /\ stop["session"] = "done" => Running \subseteq Orphans

\* The cleanup's stop of a pipeline that had started reaches every sender, also
\* when the session's own thread is stopping the same pipeline.
InterruptStopsAll ==
  stop["main"] = "done" /\ seen => Running = {}

\* Whichever thread stops a pipeline, and if both do, no sender outlives it, but for
\* the orphan of a failed start and an interrupt of the start itself.
NoSenderSurvives == SessionStopsAll /\ InterruptStopsAll

\* Another back end runs with a portal session at its side only after the
\* portal's senders with ffmpeg have failed.
PortalServesItsBackend ==
  held /\ Backend \notin Portals => \E i \in 1..n : order[i] = "portal-ffmpeg"

\* Without an interrupt, the session at the portal is closed exactly once: it
\* does not stay open, and its descriptor, which may be another file's by then,
\* is not closed a second time.  Only a descriptor that arrived when
\* start_portal_capture had given up stays open.  Until then it serves its back end.
PortalReleasedOnce ==
  /\ main = "waits" => closes <= 1
  /\ main = "waits" /\ stop["session"] = "done" => portal # "open" /\ fd # "open" /\ ~held
  /\ PortalServesItsBackend

\* The Closed signal of our own Close is not taken for a revoke, unless the
\* interrupted main thread closed the session before it had its callback.
OwnCloseSilent == fired = "own" => ctrlc > 0

\* A revoke that finds the callback in place ends the main thread's wait, if
\* nobody closes the session first.
RevokeEndsCast ==
  (portal = "revoked" /\ signal /\ on_closed) ~> (main # "waits" \/ ~on_closed)
=============================================================================
