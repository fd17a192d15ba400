--------------------------- MODULE RTSPOwnership ---------------------------
(***************************************************************************)
(* Who owns the receiver.  WFDRTSPServer (wfd/rtsp/rtsp_server.py) hands   *)
(* out one claim at a time to the RTSP sessions that run in threads of     *)
(* their own: one handler per connection the receiver opens                *)
(* (_WFDRTSPHandler, wfd/rtsp/handler.py), and the source-initiated probe  *)
(* (_active_rtsp_probe, wfd/probe.py).  The thread that runs               *)
(* start_experimental_backend (wfd/session.py) publishes the group         *)
(* interface, starts the probe and tears everything down.                  *)
(*                                                                         *)
(* The RTSP messages of a session are reduced to what they do to           *)
(* ownership and media; module RTSPHandler has the negotiation itself.     *)
(***************************************************************************)
EXTENDS Integers, FiniteSets

CONSTANTS Passive,         \* connections opened towards the source
          Probe,           \* the one source-initiated session
          Hosts,           \* addresses a connection can come from
                  NoClient,        \* _connected_client is None
          NoSession,       \* no session holds the lease (refinement mapping)
          HostOf,          \* the address each session talks to
          MaxConnections   \* _ThreadingTCPServer.max_connections

Sessions == Passive \cup {Probe}

ASSUME OwnershipAssumption ==
  /\ Probe \notin Passive
  /\ NoSession \notin Sessions
  /\ NoClient \notin Hosts
  /\ HostOf \in [Sessions -> Hosts]
  /\ MaxConnections \in Nat

VARIABLES
  groupUp,     \* the group interface has been published
  accepting,   \* the accept loop (serve_forever) still runs
  closing,     \* _ThreadingTCPServer._closing
  tracked,     \* _ThreadingTCPServer._requests
  shut,        \* sockets server_close has shut down
  client,      \* WFDRTSPServer._connected_client
  confirmed,   \* WFDRTSPServer.has_connected_client
  claimCount,  \* WFDRTSPServer._client_claim
  registered,  \* WFDRTSPServer._active_media, by session
  pc,          \* where each session's thread is
  claim,       \* the generation each session was given, 0 before
  media,       \* each session's pipeline
  main,        \* where start_experimental_backend is
  todo         \* what the teardown's current loop still has to visit

serverVars == <<groupUp, accepting, closing, shut>>
ownerVars  == <<client, confirmed, claimCount>>
mainVars   == <<main, todo>>
vars == <<groupUp, accepting, closing, tracked, shut, client, confirmed,
          claimCount, registered, pc, claim, media, main, todo>>

(***************************************************************************)
(* A session's thread.  Passive: idle, accepted, serving, ..., releasing,  *)
(* finishing, closed.  Probe: idle, waiting, resolving, connecting,        *)
(* connected, accepted, serving, ..., finishing, releasing, closed.        *)
(***************************************************************************)
PCs == {"idle", "waiting", "resolving", "connecting", "connected",
        "accepted", "serving", "starting", "pausing", "stopping",
        "halting", "releasing", "finishing", "closed"}

(***************************************************************************)
(* A pipeline: not there; constructed; its sender processes spawned but    *)
(* not yet in pipeline.processes; running and listed; stopped by the       *)
(* teardown while the session still refers to it; or given up on because   *)
(* a sender outlived SIGKILL.                                              *)
(***************************************************************************)
MediaStates == {"none", "made", "spawned", "up", "down", "stuck"}

Init ==
  /\ groupUp = FALSE
  /\ accepting = TRUE
  /\ closing = FALSE
  /\ tracked = {}
  /\ shut = {}
  /\ client = NoClient
  /\ confirmed = FALSE
  /\ claimCount = 0
  /\ registered = {}
  /\ pc = [s \in Sessions |-> "idle"]
  /\ claim = [s \in Sessions |-> 0]
  /\ media = [s \in Sessions |-> "none"]
  /\ main = "connecting"
  /\ todo = {}

-----------------------------------------------------------------------------
(* Helpers: the guards of WFDRTSPServer and _ThreadingTCPServer.           *)

\* authenticate_client succeeds only once the group interface is published,
\* and may fail for anyone (deadline).  Whom it lets in is PeerAddress's
\* question: a host alone in the group is, whatever its MAC, so any may be.
Authentic == groupUp

\* track_request has room.
CanTrack == ~closing /\ Cardinality(tracked) < MaxConnections

\* claim_client: the receiver is free, or the caller is the probe, which
\* passes replace_unconfirmed=True, and the owner has not been confirmed.
CanClaim(s) ==
  /\ Authentic
  /\ client # NoClient => s = Probe /\ ~confirmed

TakeClaim(s) ==
  /\ claimCount' = claimCount + 1
  /\ client' = HostOf[s]
  /\ confirmed' = FALSE
  /\ claim' = [claim EXCEPT ![s] = claimCount + 1]

\* confirm_client and release_client act only for the current claim.
Holds(s) == client = HostOf[s] /\ claimCount = claim[s]

ConfirmAnyClient(s) == \* mutant: a superseded session may confirm
  /\ client = HostOf[s]
  /\ confirmed' = TRUE
  /\ UNCHANGED <<client, claimCount>>

ConfirmClient(s) ==
  /\ Holds(s)
  /\ confirmed' = TRUE
  /\ UNCHANGED <<client, claimCount>>

ReleaseClient(s) ==
  IF Holds(s)
  THEN client' = NoClient /\ confirmed' = FALSE /\ UNCHANGED claimCount
  ELSE UNCHANGED ownerVars

Goto(s, where) == pc' = [pc EXCEPT ![s] = where]
SetMedia(s, state) == media' = [media EXCEPT ![s] = state]

\* The session has a pipeline it started and has not given up.
HasMedia(s) == media[s] \in {"made", "spawned", "up", "down"}

-----------------------------------------------------------------------------
(* The listener: verify_request and process_request, in the accept thread. *)

Accept(c) ==
  /\ accepting /\ pc[c] = "idle"
  /\ Authentic
  /\ CanTrack
  /\ tracked' = tracked \cup {c}
  /\ Goto(c, "accepted")
  /\ UNCHANGED <<serverVars, ownerVars, registered, claim, media, mainVars>>

\* The address is not admitted (in time), or every slot is taken.
Refuse(c) ==
  /\ accepting /\ pc[c] = "idle"
  /\ Goto(c, "closed")
  /\ UNCHANGED <<serverVars, ownerVars, tracked, registered, claim, media, mainVars>>

\* No thread could be started for the accepted connection: process_request
\* closes it and gives its slot back.
ThreadStartFails(c) ==
  /\ c \in Passive /\ pc[c] = "accepted"
  /\ Goto(c, "closed")
  /\ tracked' = tracked \ {c}
  /\ UNCHANGED <<serverVars, ownerVars, registered, claim, media, mainVars>>

-----------------------------------------------------------------------------
(* The probe, until it owns a slot like any other session.                 *)

ProbeStep(from, to) ==
  /\ pc[Probe] = from
  /\ Goto(Probe, to)
  /\ UNCHANGED <<serverVars, ownerVars, tracked, registered, claim, media, mainVars>>

\* Four seconds after activation, and again once the address is known, the
\* probe gives way to a receiver that already negotiates.
ProbeWaits    == ProbeStep("waiting", IF confirmed THEN "closed" ELSE "resolving")
ProbeResolves == ProbeStep("resolving", IF confirmed THEN "closed" ELSE "connecting")
ProbeConnects == ProbeStep("connecting", "connected")

\* The address was not found, or the connection was refused.
ProbeGivesUp == \E from \in {"resolving", "connecting"} : ProbeStep(from, "closed")

ProbeRegisters ==
  /\ pc[Probe] = "connected"
  /\ IF CanTrack
     THEN tracked' = tracked \cup {Probe} /\ Goto(Probe, "accepted")
     ELSE UNCHANGED tracked /\ Goto(Probe, "closed")
  /\ UNCHANGED <<serverVars, ownerVars, registered, claim, media, mainVars>>

ProbeSteps == \/ ProbeWaits
              \/ ProbeResolves
              \/ ProbeConnects
              \/ ProbeGivesUp
              \/ ProbeRegisters

-----------------------------------------------------------------------------
(* Claiming.                                                               *)

ClaimClient(s) ==
  /\ pc[s] = "accepted"
  /\ CanClaim(s)
  /\ TakeClaim(s)
  /\ Goto(s, "serving")
  /\ UNCHANGED <<serverVars, tracked, registered, media, mainVars>>

\* Somebody else owns the receiver, or the address check timed out.
ClaimRefused(s) ==
  /\ pc[s] = "accepted"
  /\ Goto(s, "finishing")
  /\ UNCHANGED <<serverVars, ownerVars, tracked, registered, claim, media, mainVars>>

-----------------------------------------------------------------------------
(* Messages.  The probe stops calling confirm_client once it streams.      *)

ConfirmsMessages(s) == s # Probe \/ media[s] = "none"

\* Negotiation traffic that changes neither media nor thread.
Negotiate(s) ==
  /\ pc[s] = "serving" /\ ConfirmsMessages(s)
  /\ ConfirmClient(s)
  /\ UNCHANGED <<serverVars, tracked, registered, pc, claim, media, mainVars>>

\* Negotiation traffic whose handling raises: an unusable M3 answer, PLAY
\* without a port, a reply that cannot be written any more.
NegotiateFails(s) ==
  /\ pc[s] = "serving" /\ ConfirmsMessages(s)
  /\ ConfirmClient(s)
  /\ Goto(s, "stopping")
  /\ UNCHANGED <<serverVars, tracked, registered, claim, media, mainVars>>

\* Negotiation traffic of a session whose claim was taken over.
Superseded(s) ==
  /\ pc[s] = "serving" /\ ConfirmsMessages(s)
  /\ ~Holds(s)
  /\ Goto(s, "stopping")
  /\ UNCHANGED <<serverVars, ownerVars, tracked, registered, claim, media, mainVars>>

\* PLAY is answered; _start_media is next.  A session that has media
\* answers a second PLAY and starts nothing (Negotiate).
Play(s) ==
  /\ pc[s] = "serving" /\ s \notin shut
  /\ media[s] = "none"
  /\ ConfirmClient(s)
  /\ Goto(s, "starting")
  /\ UNCHANGED <<serverVars, tracked, registered, claim, media, mainVars>>

\* The handler keeps the connection after PAUSE and TEARDOWN.  PAUSE is not
\* in WFD_NEGOTIATION_METHODS, so it does not confirm.
BeginPause(c) ==
  /\ pc[c] = "serving" /\ c \notin shut /\ c \in Passive
  /\ media[c] # "none"
  /\ registered' = registered \ {c}
  /\ Goto(c, "pausing")
  /\ UNCHANGED <<serverVars, tracked, claim, media, mainVars>>

Pause(c)    == BeginPause(c) /\ UNCHANGED ownerVars
Teardown(c) == BeginPause(c) /\ ConfirmClient(c)

\* End of stream, a read deadline, an error answer, the probe's TEARDOWN, a
\* failed socket setup: the read loop is left.
EndSession(s) ==
  /\ pc[s] = "serving"
  /\ Goto(s, "stopping")
  /\ UNCHANGED <<serverVars, ownerVars, tracked, registered, claim, media, mainVars>>

-----------------------------------------------------------------------------
(* Media: WFDMediaPipeline.start and .stop, in the session's own thread.   *)

\* The pipeline is constructed; the handler also registers it for
\* stop_all_media, the probe does not.
BeginMedia(s) ==
  /\ pc[s] = "starting" /\ media[s] = "none"
  /\ SetMedia(s, "made")
  /\ registered' = IF s = Probe THEN registered ELSE registered \cup {s}
  /\ UNCHANGED <<serverVars, ownerVars, tracked, pc, claim, mainVars>>

SpawnMedia(s) ==
  /\ pc[s] = "starting" /\ media[s] = "made"
  /\ SetMedia(s, "spawned")
  /\ UNCHANGED <<serverVars, ownerVars, tracked, registered, pc, claim, mainVars>>

MediaStarted(s) ==
  /\ pc[s] = "starting" /\ media[s] = "spawned"
  /\ SetMedia(s, "up")
  /\ Goto(s, "serving")
  /\ UNCHANGED <<serverVars, ownerVars, tracked, registered, claim, mainVars>>

\* No backend came up; each killed what it had spawned.
MediaFails(s) ==
  /\ pc[s] = "starting" /\ media[s] \in {"made", "spawned"}
  /\ SetMedia(s, "made")
  /\ Goto(s, "stopping")
  /\ UNCHANGED <<serverVars, ownerVars, tracked, registered, claim, mainVars>>

-----------------------------------------------------------------------------
(* Leaving: _stop_media, then the claim, then the slot; the probe gives    *)
(* its slot back before its claim.                                         *)

LeaveLoop(s) ==
  /\ pc[s] = "stopping"
  /\ registered' = registered \ {s}
  /\ Goto(s, "halting")
  /\ UNCHANGED <<serverVars, ownerVars, tracked, claim, media, mainVars>>

AfterHalt(s) == IF s = Probe THEN "finishing" ELSE "releasing"

StopMedia(s) ==
  /\ pc[s] \in {"pausing", "halting"}
  /\ SetMedia(s, "none")
  /\ Goto(s, IF pc[s] = "pausing" THEN "serving" ELSE AfterHalt(s))
  /\ UNCHANGED <<serverVars, ownerVars, tracked, registered, claim, mainVars>>

\* A sender is still there a second after SIGKILL: stop() raises, the
\* senders after it are not terminated and the pipeline is given up.
StopMediaFails(s) ==
  /\ pc[s] \in {"pausing", "halting"}
  /\ media[s] \in {"up", "stuck"}
  /\ SetMedia(s, "stuck")
  /\ Goto(s, IF pc[s] = "pausing" THEN "stopping" ELSE AfterHalt(s))
  /\ UNCHANGED <<serverVars, ownerVars, tracked, registered, claim, mainVars>>

Release(s) ==
  /\ pc[s] = "releasing"
  /\ ReleaseClient(s)
  /\ Goto(s, IF s = Probe THEN "closed" ELSE "finishing")
  /\ UNCHANGED <<serverVars, tracked, registered, claim, media, mainVars>>

FinishForgetsClaim(s) == \* mutant: the probe's error path misses its release
  /\ pc[s] = "finishing"
  /\ tracked' = tracked \ {s}
  /\ Goto(s, "closed")
  /\ UNCHANGED <<serverVars, ownerVars, registered, claim, media, mainVars>>

Finish(s) ==
  /\ pc[s] = "finishing"
  /\ tracked' = tracked \ {s}
  /\ Goto(s, IF s = Probe /\ claim[s] # 0 THEN "releasing" ELSE "closed")
  /\ UNCHANGED <<serverVars, ownerVars, registered, claim, media, mainVars>>

-----------------------------------------------------------------------------
(* start_experimental_backend: activation, then the ordered teardown.      *)

PublishGroup ==
  /\ main = "connecting"
  /\ groupUp' = TRUE
  /\ UNCHANGED <<accepting, closing, tracked, shut, ownerVars, registered, pc,
                 claim, media, mainVars>>

StartProbe ==
  /\ main = "connecting" /\ groupUp
  /\ main' = "serving"
  /\ Goto(Probe, "waiting")
  /\ UNCHANGED <<serverVars, tracked, ownerVars, registered, claim, media, todo>>

\* Ctrl+C or a failed activation: stop_all_media takes its snapshot.
BeginTeardown ==
  /\ main \in {"connecting", "serving"}
  /\ main' = "stopMedia"
  /\ todo' = registered
  /\ UNCHANGED <<serverVars, tracked, ownerVars, registered, pc, claim, media>>

\* stop_all_media: pipeline.stop() reaches the senders only once start() has listed them.
StopRegistered(s) ==
  /\ main = "stopMedia" /\ s \in todo
  /\ todo' = todo \ {s}
  /\ media' = [media EXCEPT ![s] = IF @ = "up" THEN "down" ELSE @]
  /\ UNCHANGED <<serverVars, tracked, ownerVars, registered, pc, claim, main>>

\* stop() raises (a sender outlived SIGKILL); the rest of the list is skipped.
StopRegisteredFails(s) ==
  /\ main = "stopMedia" /\ s \in todo /\ media[s] \in {"up", "stuck"}
  /\ todo' = {}
  /\ SetMedia(s, "stuck")
  /\ UNCHANGED <<serverVars, tracked, ownerVars, registered, pc, claim, main>>

ShutdownServer ==
  /\ main = "stopMedia" /\ todo = {}
  /\ accepting' = FALSE
  /\ main' = "stopServer"
  /\ UNCHANGED <<groupUp, closing, shut, tracked, ownerVars, registered, pc,
                 claim, media, todo>>

ServerCloseHandlersOnly == \* mutant: the probe's socket is not shut down
  /\ main = "stopServer"
  /\ closing' = TRUE
  /\ todo' = tracked \ {Probe}
  /\ main' = "closeSockets"
  /\ UNCHANGED <<groupUp, accepting, shut, tracked, ownerVars, registered, pc,
                 claim, media>>

ServerClose ==
  /\ main = "stopServer"
  /\ closing' = TRUE
  /\ todo' = tracked
  /\ main' = "closeSockets"
  /\ UNCHANGED <<groupUp, accepting, shut, tracked, ownerVars, registered, pc,
                 claim, media>>

ShutSocket(s) ==
  /\ main = "closeSockets" /\ s \in todo
  /\ shut' = shut \cup {s}
  /\ todo' = todo \ {s}
  /\ UNCHANGED <<groupUp, accepting, closing, tracked, ownerVars, registered,
                 pc, claim, media, main>>

TeardownSteps == \/ \E s \in Sessions : StopRegistered(s) \/ StopRegisteredFails(s)
                 \/ ShutdownServer
                 \/ ServerClose
                 \/ \E s \in Sessions : ShutSocket(s)

-----------------------------------------------------------------------------
\* What a session's thread does without waiting for the receiver.
OwnStep(s) == \/ ClaimClient(s)
              \/ ClaimRefused(s)
              \/ BeginMedia(s)
              \/ SpawnMedia(s)
              \/ MediaStarted(s)
              \/ MediaFails(s)
              \/ LeaveLoop(s)
              \/ StopMedia(s)
              \/ StopMediaFails(s)
              \/ Release(s)
              \/ Finish(s)

\* What the receiver makes a session do.
Receive(s) == \/ Negotiate(s)
              \/ NegotiateFails(s)
              \/ Superseded(s)
              \/ Play(s)
              \/ Pause(s)
              \/ Teardown(s)
              \/ EndSession(s)

Next == \/ \E c \in Passive : Accept(c) \/ Refuse(c) \/ ThreadStartFails(c)
        \/ ProbeSteps
        \/ \E s \in Sessions : OwnStep(s) \/ Receive(s)
        \/ PublishGroup
        \/ StartProbe
        \/ BeginTeardown
        \/ TeardownSteps

Spec == Init /\ [][Next]_vars

\* Threads run, blocking calls return, and a read on a socket that was shut
\* down ends.  Nothing is assumed of the receiver, of the user, or of a
\* session whose socket is open.
Fairness ==
  /\ \A s \in Sessions : WF_vars(OwnStep(s))
  /\ \A s \in Sessions : WF_vars(s \in shut /\ EndSession(s))
  /\ WF_vars(ProbeSteps)
  /\ WF_vars(TeardownSteps)

FairSpec == Spec /\ Fairness
-----------------------------------------------------------------------------
(* Properties.                                                             *)

TypeOK ==
  /\ groupUp \in BOOLEAN /\ accepting \in BOOLEAN /\ closing \in BOOLEAN
  /\ tracked \subseteq Sessions
  /\ shut \subseteq Sessions
  /\ client \in Hosts \cup {NoClient}
  /\ confirmed \in BOOLEAN
  /\ claimCount \in Nat
  /\ registered \subseteq Sessions
  /\ pc \in [Sessions -> PCs]
  /\ claim \in [Sessions -> Nat]
  /\ media \in [Sessions -> MediaStates]
  /\ main \in {"connecting", "serving", "stopMedia", "stopServer", "closeSockets"}
  /\ todo \subseteq Sessions

\* A session has a pipeline only while it holds the current claim and the
\* claim is confirmed: from the moment _start_media constructs it until
\* _stop_media has returned.  Passive handlers, the probe and late handlers
\* of replaced connections never stream beside each other.
StreamOwned == \A s \in Sessions : HasMedia(s) => Holds(s) /\ confirmed

\* Two sessions never have a pipeline at the same time.
OneStream == \A s, t \in Sessions : HasMedia(s) /\ HasMedia(t) => s = t

\* A session whose thread still has a release_client call ahead of it.
WillRelease(s) ==
  \/ pc[s] \in {"serving", "starting", "pausing", "stopping", "halting", "releasing"}
  \/ s = Probe /\ pc[s] = "finishing" /\ claim[s] # 0

\* The receiver is never left owned by a session that is gone: whoever owns
\* it will still release it, so a reconnecting receiver is not locked out.
OwnerWillRelease ==
  client # NoClient => \E s \in Sessions : Holds(s) /\ WillRelease(s)

\* No more sockets are served at once than max_connections, the probe's
\* outgoing one included; a slot is given back exactly when its session ends.
SlotsBounded ==
  /\ Cardinality(tracked) <= MaxConnections
  /\ \A s \in Sessions : pc[s] = "closed" => s \notin tracked

\* Ownership of a confirmed session ends only in that session's own thread,
\* in its release_client call; nothing another session or a superseded
\* session does late can take it away or reset its confirmation.
ConfirmedIsKept ==
  [][\A s \in Sessions :
        Holds(s) /\ confirmed /\ ~(client' = client /\ claimCount' = claimCount /\ confirmed')
          => pc[s] = "releasing" /\ pc'[s] # "releasing"]_vars

\* Once server_close has taken its snapshot no socket is served that the
\* snapshot does not list: every socket is shut down.
NoneMissedByClose == [][closing => tracked' \subseteq tracked]_vars

\* The inductive invariant behind the theorems of RTSPOwnership_proofs.
\* Claims: generations are unique and follow the thread that drew them.
Early == {"idle", "waiting", "resolving", "connecting", "connected", "accepted"}
Live  == {"serving", "starting", "pausing", "stopping", "halting", "releasing"}

ClaimsInv ==
  /\ \A s \in Sessions : claim[s] <= claimCount
  /\ \A s, t \in Sessions : claim[s] # 0 /\ claim[s] = claim[t] => s = t
  /\ \A s \in Sessions : pc[s] \in Live => claim[s] # 0
  /\ \A s \in Sessions : pc[s] \in Early => claim[s] = 0
  /\ client # NoClient => claimCount # 0
  /\ confirmed => client # NoClient
  /\ main = "connecting" => pc[Probe] = "idle"

\* Media: a pipeline exists only inside its session's loop, under a claim
\* that is confirmed from PLAY on.
MediaInv ==
  /\ \A s \in Sessions :
        HasMedia(s) => pc[s] \in Live \ {"releasing"}
  /\ \A s \in Sessions :
        HasMedia(s) \/ pc[s] = "starting" => Holds(s) /\ confirmed

\* Slots: a tracked socket belongs to a session that will still untrack it.
SlotsInv ==
  /\ IsFiniteSet(tracked)
  /\ Cardinality(tracked) <= MaxConnections
  /\ \A s \in tracked : pc[s] \in Live \cup {"accepted", "finishing"}
  /\ pc[Probe] = "releasing" => Probe \notin tracked

\* The four parts together are preserved by every step.
IInv == ClaimsInv /\ MediaInv /\ OwnerWillRelease /\ SlotsInv

\* The sessions' leases, seen from outside.
Holder == IF \E s \in Sessions : Holds(s)
          THEN CHOOSE s \in Sessions : Holds(s)
          ELSE NoSession

Streaming == {s \in Sessions : HasMedia(s)}

Lease == INSTANCE SessionLease
           WITH Sessions <- Sessions, Preemptors <- {Probe}, NoSession <- NoSession,
                holder <- Holder, confirmed <- confirmed, streaming <- Streaming

\* The claims, generations and threads implement the exclusive lease.
ImplementsLease == Lease!LeaseSpec

\* After server_close has shut the sockets down every session ends: its
\* media is stopped, its claim and its slot are given back, for good.  (The
\* main thread stays where it closes the sockets; nothing follows.)
CloseEndsSessions ==
  <>[](main = "closeSockets" =>
         client = NoClient /\ tracked = {} /\ \A s \in Sessions : ~HasMedia(s))

=============================================================================
