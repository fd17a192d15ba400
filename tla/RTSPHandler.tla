---------------------------- MODULE RTSPHandler ----------------------------
(***************************************************************************)
(* One RTSP session of _WFDRTSPHandler (wfd/rtsp/handler.py), from M1 to   *)
(* the end of the connection.  The handler thread reads and answers the    *)
(* receiver; beside it run threading.Timer threads: the keepalive (M16)    *)
(* chain, the sender-health chain (_probe_tx) and, with UIBC, the delayed  *)
(* M14.  They share the table of pending requests, the connection and the  *)
(* timer attributes.                                                       *)
(*                                                                         *)
(* A request is known by its name; CSeq numbers are not modelled, only     *)
(* whether the number still leads to an entry of the table.  Requests to   *)
(* which the source gives an answer that changes nothing (GET_PARAMETER,   *)
(* SET_PARAMETER, unknown methods) are left out, and so is who owns the    *)
(* receiver (module RTSPOwnership).                                        *)
(***************************************************************************)
EXTENDS Integers, FiniteSets

CONSTANTS Timers,       \* threading.Timer objects
          KindOf,       \* the attribute each is for
          NoTimer,      \* _keepalive_timer or _probe_timer is None
          Configs,      \* the configurations: microsoft adapter, UIBC, R2
          MaxPending,   \* RTSP_MAX_PENDING
          MaxStarts     \* bound: how often PLAY starts media

Kinds == {"keepalive", "probe"}

ASSUME HandlerAssumption ==
  /\ KindOf \in [Timers -> Kinds]
  /\ NoTimer \notin Timers
  /\ Configs \subseteq [microsoft : BOOLEAN, uibc : BOOLEAN, r2 : BOOLEAN]
  /\ MaxPending \in Nat /\ MaxStarts \in Nat

VARIABLES
  microsoft, uibc,    \* the session's configuration
  pc,                 \* the handler thread
  sock,               \* the connection: "open" or "shut"
  pending,            \* the table of requests that wait for an answer
  unanswered,         \* what the receiver has been asked and may yet answer
  port,               \* sink_rtp_port is known
  m3_r2, m3_sent,     \* R2 parameters in M3; M3 has been sent
  sink_uibc,          \* sink_supports_uibc
  media,              \* the session's pipeline
  starts,             \* how often media was started
  m14,                \* UIBC-enable timers that have not fired
  keepalive_active,
  timer,              \* the two timer attributes
  thread,             \* where each timer's thread is
  again,              \* whether its callback asked to be called again
  gaveup              \* history: a keepalive gave up on an attempt of start()

configVars == <<microsoft, uibc>>
askVars    == <<pending, unanswered>>
negVars    == <<port, m3_r2, m3_sent, sink_uibc>>
mediaVars  == <<media, starts, m14>>
timerVars  == <<timer, thread, again>>
vars == <<microsoft, uibc, pc, sock, pending, unanswered, port, m3_r2, m3_sent,
          sink_uibc, media, starts, m14, keepalive_active, timer, thread, again, gaveup>>

(***************************************************************************)
(* Requests of the source.  n tells the M14 of one PLAY from that of the   *)
(* next; a heartbeat has n = 0 while it is the latest, 1 afterwards (of    *)
(* several old heartbeats the receiver still has, one is remembered).      *)
(***************************************************************************)
Once(name) == [name |-> name, n |-> 0]
M1 == Once("M1_OPTIONS")
M3 == Once("M3_GET_PARAMETER")
M4 == Once("M4_SET_PARAMETER")
M5 == Once("M5_TRIGGER_SETUP")
Heartbeat    == Once("M16_KEEPALIVE")
OldHeartbeat == [name |-> "M16_KEEPALIVE", n |-> 1]
M14Requests  == {[name |-> "M14_UIBC_ENABLE", n |-> k] : k \in 1..MaxStarts}
Requests     == {M1, M3, M4, M5, Heartbeat, OldHeartbeat} \cup M14Requests

\* The handler thread: before M1, reading, in media.start(), in media.stop()
\* after PAUSE or TEARDOWN, in handle()'s finally clause, gone.
PCs == {"connecting", "reading", "starting", "pausing", "ending", "halting", "closed"}

\* The pipeline: None; constructed, no process listed; an attempt of start()
\* is listed and runs; one of its processes has exited; start() returned and
\* all senders run; one has exited; being stopped.
MediaStates == {"none", "made", "tried", "failed", "up", "dead", "stopping"}

\* A timer's thread: does not exist; waits; is past the wait; enters the
\* callback; has passed its checks; is about to write; past the callback.
ThreadStates == {"free", "armed", "fired", "calling", "passed", "sending", "finishing"}

Init ==
  /\ \E c \in Configs : microsoft = c.microsoft /\ uibc = c.uibc /\ m3_r2 = c.r2
  /\ pc = "connecting" /\ sock = "open"
  /\ pending = {} /\ unanswered = {}
  /\ port = FALSE /\ m3_sent = FALSE /\ sink_uibc = FALSE
  /\ media = "none" /\ starts = 0 /\ m14 = {}
  /\ keepalive_active = TRUE
  /\ timer = [k \in Kinds |-> NoTimer]
  /\ thread = [t \in Timers |-> "free"]
  /\ again = [t \in Timers |-> FALSE]
  /\ gaveup = FALSE

-----------------------------------------------------------------------------
(* Helpers.                                                                *)

\* _schedule_timer: nothing if the attribute already holds a timer.
FreeTimers(kind) == {t \in Timers : KindOf[t] = kind /\ thread[t] = "free"}

ScheduleTimer(kind) ==
  IF timer[kind] # NoTimer
  THEN UNCHANGED <<timer, thread>>
  ELSE \E t \in FreeTimers(kind) :
         /\ timer' = [timer EXCEPT ![kind] = t]
         /\ thread' = [thread EXCEPT ![t] = "armed"]

\* Timer.cancel() stops a timer that still waits and no other; the
\* attribute is cleared.
CancelTimer(kind) ==
  /\ thread' = [t \in Timers |->
                  IF t = timer[kind] /\ thread[t] = "armed" THEN "free" ELSE thread[t]]
  /\ timer' = [timer EXCEPT ![kind] = NoTimer]

\* _send_request in the handler thread: r enters the table, its bytes are
\* written.  A full table or a dead connection ends the read loop.  table and
\* asked are what the handling of the current message has left of the two.
SendRequest(r, table, asked) ==
  IF Cardinality(table) >= MaxPending
  THEN pending' = table /\ unanswered' = asked /\ pc' = "ending"
  ELSE /\ pending' = table \cup {r}
       /\ unanswered' = IF sock = "open" THEN asked \cup {r} ELSE asked
       /\ pc' = IF sock = "open" THEN "reading" ELSE "ending"

\* What the receiver has been asked once the last heartbeat is an old one.
HeartbeatAged == IF Heartbeat \in unanswered
                 THEN (unanswered \ {Heartbeat}) \cup {OldHeartbeat}
                 ELSE unanswered

\* The receiver's answer to r is read and its entry leaves the table; the
\* name is UNKNOWN if there is none.
Answer(r) == pc = "reading" /\ r \in unanswered
Known(r) == r \in pending
Answered(r) == pending' = pending \ {r} /\ unanswered' = unanswered \ {r}

-----------------------------------------------------------------------------
(* The handler thread: M1, and the receiver's answers (_handle_response).  *)

Connect ==
  /\ pc = "connecting"
  /\ SendRequest(M1, pending, unanswered)
  /\ UNCHANGED <<configVars, gaveup, sock, negVars, mediaVars, keepalive_active, timerVars>>

\* 200 for M1, M5, M14, M16 or an unknown CSeq: nothing follows.
Acknowledged(r) ==
  /\ Answer(r)
  /\ Known(r) => r \notin {M3, M4}
  /\ Answered(r)
  /\ UNCHANGED <<configVars, gaveup, pc, sock, negVars, mediaVars, keepalive_active, timerVars>>

\* 200 for M3 with a usable RTP port: M4 follows.
M3Accepted ==
  /\ Answer(M3) /\ Known(M3)
  /\ port' = TRUE
  /\ sink_uibc' \in IF uibc THEN BOOLEAN ELSE {FALSE}
  /\ SendRequest(M4, pending \ {M3}, unanswered \ {M3})
  /\ UNCHANGED <<configVars, gaveup, sock, m3_r2, m3_sent, mediaVars, keepalive_active, timerVars>>

M4Accepted ==
  /\ Answer(M4) /\ Known(M4)
  /\ SendRequest(M5, pending \ {M4}, unanswered \ {M4})
  /\ UNCHANGED <<configVars, gaveup, sock, negVars, mediaVars, keepalive_active, timerVars>>

M3RejectedStuck == \* mutant: m3_sent is not reset, M3 is not repeated
  /\ Answer(M3) /\ Known(M3) /\ m3_r2
  /\ m3_r2' = FALSE
  /\ Answered(M3)
  /\ UNCHANGED <<configVars, gaveup, pc, sock, port, m3_sent, sink_uibc, mediaVars,
                 keepalive_active, timerVars>>

\* An error for M3 with R2 parameters: once more, without them.
M3Rejected ==
  /\ Answer(M3) /\ Known(M3) /\ m3_r2
  /\ m3_r2' = FALSE
  /\ SendRequest(M3, pending \ {M3}, unanswered \ {M3})
  /\ UNCHANGED <<configVars, gaveup, sock, port, m3_sent, sink_uibc, mediaVars,
                 keepalive_active, timerVars>>

\* An error for a heartbeat the table still lists.
KeepaliveRejected ==
  /\ Answer(Heartbeat) /\ Known(Heartbeat)
  /\ keepalive_active' = FALSE
  /\ Answered(Heartbeat)
  /\ UNCHANGED <<configVars, gaveup, pc, sock, negVars, mediaVars, timerVars>>

\* Any other error, one for an unknown CSeq included, and an M3 answer
\* without a usable port: WFDNotReady.
AnswerRaises(r) ==
  /\ Answer(r)
  /\ Known(r) => r # Heartbeat
  /\ Answered(r)
  /\ pc' = "ending"
  /\ UNCHANGED <<configVars, gaveup, sock, negVars, mediaVars, keepalive_active, timerVars>>

-----------------------------------------------------------------------------
(* The handler thread: the receiver's requests (_handle_request).          *)

\* OPTIONS is answered, and the first one followed by M3.
Options ==
  /\ pc = "reading" /\ ~m3_sent
  /\ m3_sent' = TRUE
  /\ SendRequest(M3, pending, unanswered)
  /\ UNCHANGED <<configVars, gaveup, sock, port, m3_r2, sink_uibc, mediaVars,
                 keepalive_active, timerVars>>

\* SETUP names the sink's port, or port 19000 is assumed.
Setup ==
  /\ pc = "reading"
  /\ port' = TRUE
  /\ UNCHANGED <<configVars, gaveup, pc, sock, askVars, m3_r2, m3_sent, sink_uibc,
                 mediaVars, keepalive_active, timerVars>>

PlayArmsLate == \* mutant: the keepalive is armed only once there is a pipeline
  /\ pc = "reading"
  /\ IF ~microsoft /\ keepalive_active /\ media # "none"
     THEN ScheduleTimer("keepalive")
     ELSE UNCHANGED <<timer, thread>>
  /\ IF ~port
     THEN pc' = "ending" /\ UNCHANGED <<media, starts>>
     ELSE IF media = "none"
          THEN /\ starts < MaxStarts
               /\ pc' = "starting" /\ media' = "made" /\ starts' = starts + 1
          ELSE UNCHANGED <<pc, media, starts>>
  /\ UNCHANGED <<configVars, gaveup, sock, askVars, negVars, m14, keepalive_active, again>>

\* PLAY arms the keepalive before _start_media, which needs a port and does
\* nothing if there is a pipeline already.
Play ==
  /\ pc = "reading"
  /\ IF ~microsoft /\ keepalive_active
     THEN ScheduleTimer("keepalive")
     ELSE UNCHANGED <<timer, thread>>
  /\ IF ~port
     THEN pc' = "ending" /\ UNCHANGED <<media, starts>>
     ELSE IF media = "none"
          THEN /\ starts < MaxStarts
               /\ pc' = "starting" /\ media' = "made" /\ starts' = starts + 1
          ELSE UNCHANGED <<pc, media, starts>>
  /\ UNCHANGED <<configVars, gaveup, sock, askVars, negVars, m14, keepalive_active, again>>

\* _spawn_capture_pipe lists the two processes of a portal attempt before it
\* knows that they live (portal.py:231) ...
AttemptListed ==
  /\ pc = "starting" /\ media = "made"
  /\ media' = "tried"
  /\ UNCHANGED <<configVars, gaveup, pc, sock, askVars, negVars, starts, m14,
                 keepalive_active, timerVars>>

\* ... and clears the list some polls after one of them has exited, or when no
\* frame came; the next attempt, or the next back end, follows.
AttemptFails ==
  /\ pc = "starting" /\ media \in {"tried", "failed"}
  /\ media' = "made"
  /\ UNCHANGED <<configVars, gaveup, pc, sock, askVars, negVars, starts, m14,
                 keepalive_active, timerVars>>

\* media.start() returns: the M14 and sender-health timers are armed.  The
\* process last seen running may have exited by then.
MediaStarted ==
  /\ pc = "starting" /\ media \in {"made", "tried", "failed"}
  /\ pc' = "reading" /\ media' = IF media = "failed" THEN "dead" ELSE "up"
  /\ m14' = IF sink_uibc THEN m14 \cup {starts} ELSE m14
  /\ ScheduleTimer("probe")
  /\ UNCHANGED <<configVars, gaveup, sock, askVars, negVars, starts, keepalive_active, again>>

MediaFails ==
  /\ pc = "starting"
  /\ pc' = "ending"
  /\ UNCHANGED <<configVars, gaveup, sock, askVars, negVars, mediaVars, keepalive_active,
                 timerVars>>

\* PAUSE or TEARDOWN: _stop_media cancels the sender-health timer, then
\* stops the pipeline.  The keepalive timer stays.
Pause ==
  /\ pc = "reading"
  /\ CancelTimer("probe")
  /\ IF media = "none"
     THEN UNCHANGED <<pc, media>>
     ELSE pc' = "pausing" /\ media' = "stopping"
  /\ UNCHANGED <<configVars, gaveup, sock, askVars, negVars, starts, m14, keepalive_active,
                 again>>

Paused ==
  /\ pc = "pausing"
  /\ pc' = "reading" /\ media' = "none"
  /\ UNCHANGED <<configVars, gaveup, sock, askVars, negVars, starts, m14, keepalive_active,
                 timerVars>>

\* media.stop() raised.
PauseFails ==
  /\ pc = "pausing"
  /\ pc' = "ending"
  /\ UNCHANGED <<configVars, gaveup, sock, askVars, negVars, mediaVars, keepalive_active,
                 timerVars>>

-----------------------------------------------------------------------------
(* The handler thread: leaving.                                            *)

\* End of stream, a read or write deadline, a superseded claim.
Leave ==
  /\ pc = "reading"
  /\ pc' = "ending"
  /\ UNCHANGED <<configVars, gaveup, sock, askVars, negVars, mediaVars, keepalive_active,
                 timerVars>>

EndKeepalive ==
  /\ pc = "ending"
  /\ pc' = "halting"
  /\ keepalive_active' = FALSE
  /\ CancelTimer("keepalive")
  /\ UNCHANGED <<configVars, gaveup, sock, askVars, negVars, mediaVars, again>>


\* _stop_media, after which the connection is closed.
EndMedia ==
  /\ pc = "halting" /\ media # "stopping"
  /\ CancelTimer("probe")
  /\ media' = IF media = "none" THEN "none" ELSE "stopping"
  /\ pc' = IF media = "none" THEN "closed" ELSE "halting"
  /\ sock' = IF media = "none" THEN "shut" ELSE sock
  /\ UNCHANGED <<configVars, gaveup, askVars, negVars, starts, m14, keepalive_active, again>>

MediaEnded ==
  /\ pc = "halting" /\ media = "stopping"
  /\ media' = "none" /\ pc' = "closed" /\ sock' = "shut"
  /\ UNCHANGED <<configVars, gaveup, askVars, negVars, starts, m14, keepalive_active, timerVars>>

-----------------------------------------------------------------------------
(* Timer threads: run() of _schedule_timer and the two callbacks.          *)

Moves(t, from, to) == thread[t] = from /\ thread' = [thread EXCEPT ![t] = to]

\* The wait is over; cancel() comes too late from here on.
Fire(t) ==
  /\ Moves(t, "armed", "fired")
  /\ UNCHANGED <<configVars, gaveup, pc, sock, askVars, negVars, mediaVars,
                 keepalive_active, timer, again>>

\* run() calls back only if the attribute still holds this timer.
Run(t) ==
  /\ Moves(t, "fired", IF timer[KindOf[t]] = t THEN "calling" ELSE "free")
  /\ again' = [again EXCEPT ![t] = FALSE]
  /\ UNCHANGED <<configVars, gaveup, pc, sock, askVars, negVars, mediaVars,
                 keepalive_active, timer>>

KeepaliveChecksMedia(t) == \* mutant: _keepalive_active is not read
  /\ KindOf[t] = "keepalive"
  /\ \/ Moves(t, "calling", "finishing") /\ media \in {"failed", "dead", "stopping"}
     \/ Moves(t, "calling", "passed") /\ media \notin {"failed", "dead"}
  /\ UNCHANGED <<configVars, gaveup, pc, sock, askVars, negVars, mediaVars,
                 keepalive_active, timer, again>>

\* _send_rtsp_keepalive sends nothing once the keepalive is off or a listed
\* process has exited: a sender of the stream, also while it is stopped, but
\* also a process of an attempt start() is about to give up.
KeepaliveChecks(t) ==
  /\ KindOf[t] = "keepalive"
  /\ \/ /\ Moves(t, "calling", "finishing")
        /\ ~keepalive_active \/ media \in {"failed", "dead", "stopping"}
        /\ gaveup' = (gaveup \/ (keepalive_active /\ media = "failed"))
     \/ /\ Moves(t, "calling", "passed")
        /\ keepalive_active /\ media \notin {"failed", "dead"}
        /\ UNCHANGED gaveup
  /\ UNCHANGED <<configVars, pc, sock, askVars, negVars, mediaVars,
                 keepalive_active, timer, again>>

KeepaliveKeepsOld(t) == \* mutant: the last heartbeat stays in the table
  /\ LET table == IF Heartbeat \in pending THEN pending \cup {OldHeartbeat} ELSE pending IN
       IF Cardinality(table) >= MaxPending
       THEN Moves(t, "passed", "finishing") /\ sock' = "shut" /\ pending' = table
       ELSE Moves(t, "passed", "sending") /\ pending' = table \cup {Heartbeat}
                                           /\ UNCHANGED sock
  /\ unanswered' = HeartbeatAged
  /\ UNCHANGED <<configVars, gaveup, pc, negVars, mediaVars, keepalive_active, timer, again>>

\* _send_request under _write_lock: the last heartbeat leaves the table
\* before the new one enters it.  The connection is shut down if it is full.
Keepalive(t) ==
  /\ LET table == pending \ {Heartbeat} IN
       IF Cardinality(table) >= MaxPending
       THEN Moves(t, "passed", "finishing") /\ sock' = "shut" /\ pending' = table
       ELSE Moves(t, "passed", "sending") /\ pending' = table \cup {Heartbeat}
                                           /\ UNCHANGED sock
  /\ unanswered' = HeartbeatAged
  /\ UNCHANGED <<configVars, gaveup, pc, negVars, mediaVars, keepalive_active, timer, again>>

\* The lock is taken again for the bytes.
KeepaliveWritten(t) ==
  /\ Moves(t, "sending", "finishing")
  /\ sock = "open"
  /\ unanswered' = unanswered \cup {Heartbeat}
  /\ again' = [again EXCEPT ![t] = TRUE]
  /\ UNCHANGED <<configVars, gaveup, pc, sock, pending, negVars, mediaVars, keepalive_active,
                 timer>>

KeepaliveWriteFails(t) ==
  /\ Moves(t, "sending", "finishing")
  /\ sock' = "shut"
  /\ UNCHANGED <<configVars, gaveup, pc, askVars, negVars, mediaVars, keepalive_active,
                 timer, again>>

\* _probe_tx asks to be called again while all senders run.
ProbeTx(t) ==
  /\ KindOf[t] = "probe"
  /\ Moves(t, "calling", "finishing")
  /\ \E healthy \in BOOLEAN :
       /\ healthy => media \in {"tried", "up", "stopping"}
       /\ media \in {"tried", "up"} => healthy
       /\ again' = [again EXCEPT ![t] = healthy]
  /\ UNCHANGED <<configVars, gaveup, pc, sock, askVars, negVars, mediaVars,
                 keepalive_active, timer>>

FinishAnyTimer(t) == \* mutant: the attribute is not compared before re-arming
  /\ thread[t] = "finishing"
  /\ thread' = [thread EXCEPT ![t] = IF again[t] THEN "armed" ELSE "free"]
  /\ timer' = [timer EXCEPT ![KindOf[t]] =
                 IF again[t] THEN t ELSE IF @ = t THEN NoTimer ELSE @]
  /\ UNCHANGED <<configVars, gaveup, pc, sock, askVars, negVars, mediaVars,
                 keepalive_active, again>>

\* run()'s finally clause: a timer that is still the current one clears the
\* attribute and arms its successor (which takes over the name t here).
Finish(t) ==
  /\ thread[t] = "finishing"
  /\ LET current == timer[KindOf[t]] = t IN
       /\ thread' = [thread EXCEPT ![t] = IF current /\ again[t] THEN "armed" ELSE "free"]
       /\ timer' = [timer EXCEPT ![KindOf[t]] = IF current /\ ~again[t] THEN NoTimer ELSE @]
  /\ UNCHANGED <<configVars, gaveup, pc, sock, askVars, negVars, mediaVars,
                 keepalive_active, again>>

\* schedule_post_play_enable: nothing cancels this timer.  M14 is not sent
\* without a UIBC server or with a full table; that, and a dead connection,
\* ends only the timer's thread.
UIBCEnable(k) ==
  /\ k \in m14
  /\ m14' = m14 \ {k}
  /\ LET r == [name |-> "M14_UIBC_ENABLE", n |-> k] IN
       \/ UNCHANGED askVars
       \/ /\ Cardinality(pending) < MaxPending
          /\ pending' = pending \cup {r}
          /\ unanswered' = IF sock = "open" THEN unanswered \cup {r} ELSE unanswered
  /\ UNCHANGED <<configVars, gaveup, pc, sock, negVars, media, starts, keepalive_active,
                 timerVars>>

-----------------------------------------------------------------------------
SenderExits ==
  /\ media \in {"tried", "up"}
  /\ media' = IF media = "tried" THEN "failed" ELSE "dead"
  /\ UNCHANGED <<configVars, gaveup, pc, sock, askVars, negVars, starts, m14,
                 keepalive_active, timerVars>>

\* What the handler thread does without waiting for the receiver.
HandlerStep == \/ Connect
               \/ MediaStarted
               \/ MediaFails
               \/ Paused
               \/ PauseFails
               \/ EndKeepalive
               \/ EndMedia
               \/ MediaEnded

Answers == \/ M3Accepted
           \/ M4Accepted
           \/ M3Rejected
           \/ KeepaliveRejected
           \/ \E r \in Requests : Acknowledged(r) \/ AnswerRaises(r)

\* start() makes finitely many attempts; that it ends is in HandlerStep.
Attempts == AttemptListed \/ AttemptFails

Asks == Options \/ Setup \/ Play \/ Pause

TimerStep(t) == \/ Fire(t)
                \/ Run(t)
                \/ KeepaliveChecks(t)
                \/ Keepalive(t)
                \/ KeepaliveWritten(t)
                \/ KeepaliveWriteFails(t)
                \/ ProbeTx(t)
                \/ Finish(t)

Next == \/ HandlerStep
        \/ Attempts
        \/ Answers
        \/ Asks
        \/ Leave
        \/ \E t \in Timers : TimerStep(t)
        \/ \E k \in 1..MaxStarts : UIBCEnable(k)
        \/ SenderExits

Spec == Init /\ [][Next]_vars

\* Threads run, blocking calls return, timers fire, and a read on a
\* connection that was shut down ends.  Nothing is assumed of the receiver.
Fairness ==
  /\ WF_vars(HandlerStep)
  /\ WF_vars(sock = "shut" /\ Leave)
  /\ \A t \in Timers : WF_vars(TimerStep(t))

FairSpec == Spec /\ Fairness

\* A receiver that asks for OPTIONS, answers M3 and M4, with an error only
\* for R2 parameters, and does not end the session meanwhile.
CooperativeNext ==
  \/ Connect
  \/ Options
  \/ M3Accepted
  \/ M3Rejected
  \/ M4Accepted
  \/ \E r \in Requests : Acknowledged(r)

CooperativeSpec ==
  /\ Init
  /\ [][CooperativeNext]_vars
  /\ WF_vars(Connect)
  /\ WF_vars(Options)
  /\ WF_vars(M3Accepted \/ M3Rejected)
  /\ WF_vars(M4Accepted)

-----------------------------------------------------------------------------
(* Properties.                                                             *)

TypeOK ==
  /\ microsoft \in BOOLEAN /\ uibc \in BOOLEAN
  /\ pc \in PCs
  /\ sock \in {"open", "shut"}
  /\ pending \subseteq Requests
  /\ unanswered \subseteq Requests
  /\ port \in BOOLEAN /\ m3_r2 \in BOOLEAN /\ m3_sent \in BOOLEAN /\ sink_uibc \in BOOLEAN
  /\ media \in MediaStates
  /\ starts \in 0..MaxStarts
  /\ m14 \subseteq 1..MaxStarts
  /\ keepalive_active \in BOOLEAN
  /\ timer \in [Kinds -> Timers \cup {NoTimer}]
  /\ thread \in [Timers -> ThreadStates]
  /\ again \in [Timers -> BOOLEAN]
  /\ gaveup \in BOOLEAN

\* A timer that waits is always the one the attribute names, so whoever
\* cancels the attribute cancels it: there is never a second chain of
\* keepalives or health checks, whatever PAUSE, PLAY and running callbacks
\* do to each other.
NoOrphanTimer ==
  \A t \in Timers : thread[t] = "armed" => timer[KindOf[t]] = t

\* When the connection is gone no timer waits any more, not even one whose
\* callback was running while the session ended.
TimersEnd == pc = "closed" => \A t \in Timers : thread[t] # "armed"

\* Without UIBC a receiver that answers nothing, or everything late, never
\* fills the table of pending requests: neither the negotiation nor the
\* keepalive is given up for that reason.
PendingHasRoom == ~uibc => Cardinality(pending) < MaxPending

\* With UIBC a silent receiver can fill the table; three threads add to it,
\* and it never holds more than RTSP_MAX_PENDING requests.
PendingBounded == Cardinality(pending) <= MaxPending

\* A keepalive timer waits or is at work, unless the receiver refuses
\* keepalives or the connection is lost.
KeepsAlive ==
  timer["keepalive"] # NoTimer \/ microsoft \/ ~keepalive_active \/ sock = "shut"

FirstStream ==
  starts = 1 /\ media \in {"made", "tried", "failed", "up"} /\ pc \in {"starting", "reading"}

\* From the first PLAY on, while media.start() is still busy with the portal
\* dialog and its attempts and while the senders run, the session is kept
\* alive, unless a callback came while an attempt that had failed was still
\* listed: this one coincidence, and nothing else, costs the keepalive.
FirstStreamKeepsAlive == FirstStream => KeepsAlive \/ gaveup

\* The inductive invariant behind the theorems of RTSPHandler_proofs.
\* Timers: once a timer is cancelled for good its attribute stays None.
TimersInv ==
  /\ NoOrphanTimer
  /\ pc \in {"halting", "closed"} => timer["keepalive"] = NoTimer
  /\ media = "stopping" \/ pc = "closed" => timer["probe"] = NoTimer

\* The first stream: no keepalive thread is older than it, and one that is
\* about to give up during it has a reason.
StreamInv ==
  /\ pc = "connecting" => starts = 0
  /\ media # "none" \/ pc \in {"starting", "pausing"} => starts > 0
  /\ \A t \in Timers :
       KindOf[t] = "keepalive" =>
         /\ starts = 0 /\ pc \in {"connecting", "reading"} => thread[t] = "free"
         /\ starts = 1 /\ thread[t] = "finishing" /\ ~again[t] =>
              \/ ~keepalive_active \/ sock = "shut" \/ gaveup
              \/ media \in {"dead", "stopping", "none"}
  /\ FirstStreamKeepsAlive

\* The table: only UIBC adds more than the requests that are sent once.
TableInv ==
  /\ IsFiniteSet(pending) /\ PendingBounded
  /\ ~uibc => ~sink_uibc /\ m14 = {} /\ pending \subseteq {M1, M3, M4, M5, Heartbeat}

\* The parts together with the type invariant are preserved by every step.
IInv == TypeOK /\ TimersInv /\ StreamInv /\ TableInv

\* handler.py:298: a keepalive the receiver rejects does not end the
\* stream.  No step that leaves the read loop is the answer to a heartbeat.
RejectionKeepsStream ==
  [][pc = "reading" /\ pc' = "ending" =>
        {Heartbeat, OldHeartbeat} \cap unanswered \subseteq unanswered']_vars

\* Once the keepalive is off, its chain ends and is not started again.
KeepaliveEnds == ~keepalive_active ~> [](timer["keepalive"] = NoTimer)


\* With a receiver that cooperates, R2 parameters refused or not, the source
\* gets as far as M5: neither side waits for the other for ever.
NegotiationCompletes == <>(M5 \in unanswered)
=============================================================================
