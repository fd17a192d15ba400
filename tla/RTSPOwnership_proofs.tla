------------------------ MODULE RTSPOwnership_proofs ------------------------
(* Theorems about RTSPOwnership, for any set of connections, any hosts and *)
(* any number of slots.                                                    *)
EXTENDS RTSPOwnership, FiniteSetTheorems, TLAPS

\* The probe and every inbound connection are sessions; only the former is
\* the probe.
LEMMA SessionKinds == /\ Probe \in Sessions
                      /\ Passive \subseteq Sessions
                      /\ \A s \in Sessions : s \in Passive <=> s # Probe
BY OwnershipAssumption DEF Sessions, OwnershipAssumption

-----------------------------------------------------------------------------
(* Type correctness.                                                       *)

\* Every variable keeps its type through every handler, probe and teardown step.
THEOREM TypeCorrect == Spec => []TypeOK
<1> USE DEF TypeOK, PCs, MediaStates
<1>1. Init => TypeOK
  <2> SUFFICES ASSUME Init PROVE TypeOK
    OBVIOUS
  <2>1. pc \in [Sessions -> PCs] /\ claim \in [Sessions -> Nat]
    BY DEF Init
  <2>2. media \in [Sessions -> MediaStates]
    BY DEF Init
  <2> QED
    BY <2>1, <2>2 DEF Init
<1>2. TypeOK /\ [Next]_vars => TypeOK'
  <2> SUFFICES ASSUME TypeOK, [Next]_vars PROVE TypeOK'
    OBVIOUS
  <2>0. /\ Probe \in Sessions
        /\ Passive \subseteq Sessions
        /\ HostOf \in [Sessions -> Hosts]
    BY SessionKinds, OwnershipAssumption
  <2> USE <2>0 DEF Goto, SetMedia, serverVars, ownerVars,
                   mainVars
  <2>1. ASSUME NEW c \in Passive, Accept(c) \/ Refuse(c) \/ ThreadStartFails(c)
        PROVE  TypeOK'
    BY <2>1 DEF Accept, Refuse, ThreadStartFails
  <2>2. CASE ProbeSteps
    <3>1. CASE ProbeWaits \/ ProbeResolves
      BY <3>1 DEF ProbeWaits, ProbeResolves, ProbeStep
    <3>2. CASE ProbeConnects \/ ProbeGivesUp
      BY <3>2 DEF ProbeConnects, ProbeGivesUp, ProbeStep
    <3>3. CASE ProbeRegisters
      BY <3>3 DEF ProbeRegisters
    <3> QED
      BY <2>2, <3>1, <3>2, <3>3 DEF ProbeSteps
  <2>3. ASSUME NEW s \in Sessions, ClaimClient(s) \/ ClaimRefused(s)
        PROVE  TypeOK'
    <3>1. CASE ClaimClient(s)
      <4>1. client' \in Hosts
        BY <3>1 DEF ClaimClient, TakeClaim
      <4>2. claimCount' \in Nat
        BY <3>1 DEF ClaimClient, TakeClaim
      <4>3. confirmed' \in BOOLEAN
        BY <3>1 DEF ClaimClient, TakeClaim
      <4>4. claim' \in [Sessions -> Nat] /\ pc' \in [Sessions -> PCs]
        BY <3>1 DEF ClaimClient, TakeClaim
      <4> QED
        BY <3>1, <4>1, <4>2, <4>3, <4>4 DEF ClaimClient
    <3>2. CASE ClaimRefused(s)
      BY <3>2 DEF ClaimRefused
    <3> QED
      BY <2>3, <3>1, <3>2
  <2>4. ASSUME NEW s \in Sessions,
               \/ BeginMedia(s) \/ SpawnMedia(s) \/ MediaStarted(s) \/ MediaFails(s)
        PROVE  TypeOK'
    BY <2>4 DEF BeginMedia, SpawnMedia, MediaStarted, MediaFails
  <2>5. ASSUME NEW s \in Sessions,
               LeaveLoop(s) \/ StopMedia(s) \/ StopMediaFails(s)
        PROVE  TypeOK'
    BY <2>5 DEF LeaveLoop, StopMedia, StopMediaFails, AfterHalt
  <2>6. ASSUME NEW s \in Sessions, Release(s) \/ Finish(s)
        PROVE  TypeOK'
    BY <2>6 DEF Release, Finish, ReleaseClient
  <2>7. ASSUME NEW s \in Sessions, Receive(s)
        PROVE  TypeOK'
    BY <2>7 DEF Receive, Negotiate, NegotiateFails, Superseded, Play, Pause,
                Teardown, BeginPause, EndSession, ConfirmClient
  <2>8. CASE PublishGroup \/ StartProbe \/ BeginTeardown
    BY <2>8 DEF PublishGroup, StartProbe, BeginTeardown
  <2>9. CASE TeardownSteps
    BY <2>9 DEF TeardownSteps, StopRegistered, StopRegisteredFails,
                ShutdownServer, ServerClose, ShutSocket
  <2>10. CASE UNCHANGED vars
    BY <2>10 DEF vars
  <2> QED
    BY <2>1, <2>2, <2>3, <2>4, <2>5, <2>6, <2>7, <2>8, <2>9, <2>10
       DEF Next, OwnStep
<1> QED
  BY <1>1, <1>2, PTL DEF Spec
-----------------------------------------------------------------------------
(* The inductive invariant: one lemma per part, one step per group of      *)
(* actions that disturb that part in the same way.                         *)

\* Generations stay unique and follow the thread that drew them.
LEMMA ClaimsStep ==
  ASSUME TypeOK, ClaimsInv, [Next]_vars
  PROVE  ClaimsInv'
<1>0. /\ Probe \in Sessions /\ Passive \subseteq Sessions /\ Probe \notin Passive
      /\ HostOf \in [Sessions -> Hosts] /\ NoClient \notin Hosts
      /\ claim \in [Sessions -> Nat] /\ claimCount \in Nat
      /\ pc \in [Sessions -> PCs]
  BY SessionKinds, OwnershipAssumption DEF TypeOK
<1> USE <1>0 DEF ClaimsInv, Early, Live, Goto, serverVars,
                 ownerVars, mainVars
<1>1. ASSUME NEW c \in Passive, Accept(c) \/ Refuse(c) \/ ThreadStartFails(c)
      PROVE  ClaimsInv'
  BY <1>1 DEF Accept, Refuse, ThreadStartFails
<1>2. CASE ProbeSteps
  <2>1. CASE ProbeWaits \/ ProbeResolves
    BY <2>1 DEF ProbeWaits, ProbeResolves, ProbeStep
  <2>2. CASE ProbeConnects \/ ProbeGivesUp
    BY <2>2 DEF ProbeConnects, ProbeGivesUp, ProbeStep
  <2>3. CASE ProbeRegisters
    BY <2>3 DEF ProbeRegisters
  <2> QED
    BY <1>2, <2>1, <2>2, <2>3 DEF ProbeSteps
<1>3. ASSUME NEW s \in Sessions, ClaimClient(s)
      PROVE  ClaimsInv'
  <2>1. /\ claimCount' = claimCount + 1 /\ client' = HostOf[s]
        /\ claim' = [claim EXCEPT ![s] = claimCount + 1]
        /\ pc' = [pc EXCEPT ![s] = "serving"] /\ pc[s] = "accepted" /\ main' = main
    BY <1>3 DEF ClaimClient, TakeClaim
  <2>2. client' # NoClient
    BY <2>1
  <2> QED
    BY <2>1, <2>2
<1>4. ASSUME NEW s \in Sessions, ClaimRefused(s) \/ LeaveLoop(s) \/ Finish(s)
      PROVE  ClaimsInv'
  BY <1>4 DEF ClaimRefused, LeaveLoop, Finish
<1>5. ASSUME NEW s \in Sessions,
             \/ BeginMedia(s) \/ SpawnMedia(s) \/ MediaStarted(s) \/ MediaFails(s)
      PROVE  ClaimsInv'
  BY <1>5 DEF BeginMedia, SpawnMedia, MediaStarted, MediaFails
<1>6. ASSUME NEW s \in Sessions, StopMedia(s) \/ StopMediaFails(s)
      PROVE  ClaimsInv'
  BY <1>6 DEF StopMedia, StopMediaFails, AfterHalt
<1>7. ASSUME NEW s \in Sessions, Release(s)
      PROVE  ClaimsInv'
  BY <1>7 DEF Release, ReleaseClient
<1>8. ASSUME NEW s \in Sessions, Receive(s)
      PROVE  ClaimsInv'
  <2>1. UNCHANGED <<client, claimCount, claim, main>>
    BY <1>8 DEF Receive, Negotiate, NegotiateFails, Superseded, Play, Pause,
                Teardown, BeginPause, EndSession, ConfirmClient
  <2>2. confirmed' = confirmed \/ client # NoClient
    BY <1>8 DEF Receive, Negotiate, NegotiateFails, Superseded, Play, Pause,
                Teardown, BeginPause, EndSession, ConfirmClient, Holds
  <2>3. /\ pc[s] = "serving"
        /\ pc'[s] \in Live
        /\ \A t \in Sessions : t # s => pc'[t] = pc[t]
    BY <1>8 DEF Receive, Negotiate, NegotiateFails, Superseded, Play, Pause,
                Teardown, BeginPause, EndSession
  <2>4. s # Probe \/ main # "connecting"
    BY <2>3
  <2> QED
    BY <2>1, <2>2, <2>3, <2>4
<1>9. CASE PublishGroup \/ StartProbe \/ BeginTeardown
  BY <1>9 DEF PublishGroup, StartProbe, BeginTeardown
<1>10. CASE TeardownSteps
  BY <1>10 DEF TeardownSteps, StopRegistered, StopRegisteredFails,
               ShutdownServer, ServerClose, ShutSocket
<1>11. CASE UNCHANGED vars
  BY <1>11 DEF vars
<1> QED
  BY <1>1, <1>2, <1>3, <1>4, <1>5, <1>6, <1>7, <1>8, <1>9, <1>10, <1>11
     DEF Next, OwnStep
\* A pipeline is built, run and stopped inside its session's loop, under a
\* claim that stays current and confirmed meanwhile.
LEMMA MediaStep ==
  ASSUME TypeOK, ClaimsInv, MediaInv, [Next]_vars
  PROVE  MediaInv'
<1>0. /\ Probe \in Sessions /\ Passive \subseteq Sessions /\ Probe \notin Passive
      /\ HostOf \in [Sessions -> Hosts] /\ NoClient \notin Hosts
      /\ claim \in [Sessions -> Nat] /\ claimCount \in Nat
      /\ pc \in [Sessions -> PCs]
      /\ media \in [Sessions -> MediaStates]
  BY SessionKinds, OwnershipAssumption DEF TypeOK
<1> USE <1>0 DEF MediaInv, HasMedia, Holds, Live, Goto, SetMedia, serverVars,
                 ownerVars, mainVars
<1>1. ASSUME NEW c \in Passive, Accept(c) \/ Refuse(c) \/ ThreadStartFails(c)
      PROVE  MediaInv'
  BY <1>1 DEF Accept, Refuse, ThreadStartFails
<1>2. CASE ProbeSteps
  <2>1. CASE ProbeWaits \/ ProbeResolves
    BY <2>1 DEF ProbeWaits, ProbeResolves, ProbeStep
  <2>2. CASE ProbeConnects \/ ProbeGivesUp
    BY <2>2 DEF ProbeConnects, ProbeGivesUp, ProbeStep
  <2>3. CASE ProbeRegisters
    BY <2>3 DEF ProbeRegisters
  <2> QED
    BY <1>2, <2>1, <2>2, <2>3 DEF ProbeSteps
<1>3. ASSUME NEW s \in Sessions, ClaimClient(s)
      PROVE  MediaInv'
  <2>1. client = NoClient \/ ~confirmed
    BY <1>3 DEF ClaimClient, CanClaim
  <2>2. \A t \in Sessions : ~HasMedia(t) /\ pc[t] # "starting"
    BY <2>1
  <2>3. pc' = [pc EXCEPT ![s] = "serving"] /\ media' = media
    BY <1>3 DEF ClaimClient
  <2> QED
    BY <2>2, <2>3
<1>4. ASSUME NEW s \in Sessions, ClaimRefused(s) \/ LeaveLoop(s) \/ Finish(s)
      PROVE  MediaInv'
  BY <1>4 DEF ClaimRefused, LeaveLoop, Finish
<1>5. ASSUME NEW s \in Sessions,
             \/ BeginMedia(s) \/ SpawnMedia(s) \/ MediaStarted(s) \/ MediaFails(s)
      PROVE  MediaInv'
  BY <1>5 DEF BeginMedia, SpawnMedia, MediaStarted, MediaFails
<1>6. ASSUME NEW s \in Sessions, StopMedia(s) \/ StopMediaFails(s)
      PROVE  MediaInv'
  BY <1>6 DEF StopMedia, StopMediaFails, AfterHalt
<1>7. ASSUME NEW s \in Sessions, Release(s)
      PROVE  MediaInv'
  <2>1. pc[s] = "releasing" /\ media' = media
        /\ pc' = [pc EXCEPT ![s] = IF s = Probe THEN "closed" ELSE "finishing"]
        /\ claim' = claim
    BY <1>7 DEF Release
  <2>2. CASE Holds(s)
    <3>1. claim[s] # 0
      BY <2>1 DEF ClaimsInv
    <3>2. \A t \in Sessions : Holds(t) => t = s
      BY <2>2, <3>1 DEF ClaimsInv
    <3>3. \A t \in Sessions : ~HasMedia(t) /\ pc[t] # "starting"
      BY <2>1, <3>2
    <3> QED
      BY <2>1, <3>3
  <2>3. CASE ~Holds(s)
    BY <1>7, <2>1, <2>3 DEF ReleaseClient, Release
  <2> QED
    BY <2>2, <2>3
<1>8. ASSUME NEW s \in Sessions, Receive(s)
      PROVE  MediaInv'
  <2>1. UNCHANGED <<client, claimCount, claim, media>>
    BY <1>8 DEF Receive, Negotiate, NegotiateFails, Superseded, Play, Pause,
                Teardown, BeginPause, EndSession, ConfirmClient
  <2>2. confirmed => confirmed'
    BY <1>8 DEF Receive, Negotiate, NegotiateFails, Superseded, Play, Pause,
                Teardown, BeginPause, EndSession, ConfirmClient
  <2>3. /\ pc[s] = "serving"
        /\ pc'[s] \in Live \ {"releasing"}
        /\ \A t \in Sessions : t # s => pc'[t] = pc[t]
    BY <1>8 DEF Receive, Negotiate, NegotiateFails, Superseded, Play, Pause,
                Teardown, BeginPause, EndSession
  <2>4. pc'[s] = "starting" => Holds(s) /\ confirmed'
    BY <1>8 DEF Receive, Negotiate, NegotiateFails, Superseded, Play, Pause,
                Teardown, BeginPause, EndSession, ConfirmClient
  <2> QED
    BY <2>1, <2>2, <2>3, <2>4
<1>9. CASE PublishGroup \/ StartProbe \/ BeginTeardown
  BY <1>9 DEF PublishGroup, StartProbe, BeginTeardown, ClaimsInv
<1>10. CASE TeardownSteps
  BY <1>10 DEF TeardownSteps, StopRegistered, StopRegisteredFails,
               ShutdownServer, ServerClose, ShutSocket
<1>11. CASE UNCHANGED vars
  BY <1>11 DEF vars
<1> QED
  BY <1>1, <1>2, <1>3, <1>4, <1>5, <1>6, <1>7, <1>8, <1>9, <1>10, <1>11
     DEF Next, OwnStep
\* Whoever owns the receiver keeps its release_client call ahead of it.
LEMMA OwnerStep ==
  ASSUME TypeOK, ClaimsInv, OwnerWillRelease, [Next]_vars
  PROVE  OwnerWillRelease'
<1>0. /\ Probe \in Sessions /\ Passive \subseteq Sessions /\ Probe \notin Passive
      /\ HostOf \in [Sessions -> Hosts] /\ NoClient \notin Hosts
      /\ claim \in [Sessions -> Nat] /\ claimCount \in Nat
      /\ pc \in [Sessions -> PCs]
  BY SessionKinds, OwnershipAssumption DEF TypeOK
<1> USE <1>0 DEF OwnerWillRelease, WillRelease, Holds, Goto, serverVars,
                 ownerVars, mainVars
\* Most steps leave the claims alone and keep every owner's thread where it
\* will still release.
<1>a. ASSUME UNCHANGED <<client, claimCount, claim>>,
             \A t \in Sessions : WillRelease(t) => WillRelease(t)'
      PROVE  OwnerWillRelease'
  BY <1>a
<1>1. ASSUME NEW c \in Passive, Accept(c) \/ Refuse(c) \/ ThreadStartFails(c)
      PROVE  OwnerWillRelease'
  BY <1>1, <1>a DEF Accept, Refuse, ThreadStartFails
<1>2. CASE ProbeSteps
  <2>1. CASE ProbeWaits \/ ProbeResolves
    BY <2>1, <1>a DEF ProbeWaits, ProbeResolves, ProbeStep
  <2>2. CASE ProbeConnects \/ ProbeGivesUp
    BY <2>2, <1>a DEF ProbeConnects, ProbeGivesUp, ProbeStep
  <2>3. CASE ProbeRegisters
    BY <2>3, <1>a DEF ProbeRegisters
  <2> QED
    BY <1>2, <2>1, <2>2, <2>3 DEF ProbeSteps
<1>3. ASSUME NEW s \in Sessions, ClaimClient(s)
      PROVE  OwnerWillRelease'
  <2>1. Holds(s)' /\ pc'[s] = "serving"
    BY <1>3 DEF ClaimClient, TakeClaim
  <2> QED
    BY <2>1
<1>4. ASSUME NEW s \in Sessions, ClaimRefused(s) \/ LeaveLoop(s) \/ Finish(s)
      PROVE  OwnerWillRelease'
  BY <1>4, <1>a DEF ClaimRefused, LeaveLoop, Finish
<1>5. ASSUME NEW s \in Sessions,
             \/ BeginMedia(s) \/ SpawnMedia(s) \/ MediaStarted(s) \/ MediaFails(s)
      PROVE  OwnerWillRelease'
  BY <1>5, <1>a DEF BeginMedia, SpawnMedia, MediaStarted, MediaFails
<1>6. ASSUME NEW s \in Sessions, StopMedia(s) \/ StopMediaFails(s)
      PROVE  OwnerWillRelease'
  <2>1. claim[s] # 0
    BY <1>6 DEF StopMedia, StopMediaFails, ClaimsInv, Live
  <2> QED
    BY <1>6, <1>a, <2>1 DEF StopMedia, StopMediaFails, AfterHalt
<1>7. ASSUME NEW s \in Sessions, Release(s)
      PROVE  OwnerWillRelease'
  <2>1. CASE Holds(s)
    BY <1>7, <2>1 DEF Release, ReleaseClient
  <2>2. CASE ~Holds(s)
    <3>1. SUFFICES ASSUME client # NoClient PROVE OwnerWillRelease'
      BY <1>7, <2>2 DEF Release, ReleaseClient
    <3>2. PICK t \in Sessions : Holds(t) /\ WillRelease(t)
      BY <3>1
    <3>3. t # s
      BY <2>2, <3>2
    <3>4. Holds(t)' /\ WillRelease(t)'
      BY <1>7, <2>2, <3>2, <3>3 DEF Release, ReleaseClient
    <3> QED
      BY <3>4
  <2> QED
    BY <2>1, <2>2
<1>8. ASSUME NEW s \in Sessions, Receive(s)
      PROVE  OwnerWillRelease'
  <2>1. UNCHANGED <<client, claimCount, claim>>
    BY <1>8 DEF Receive, Negotiate, NegotiateFails, Superseded, Play, Pause,
                Teardown, BeginPause, EndSession, ConfirmClient
  <2>2. /\ pc'[s] \in {"serving", "starting", "pausing", "stopping"}
        /\ \A t \in Sessions : t # s => pc'[t] = pc[t]
    BY <1>8 DEF Receive, Negotiate, NegotiateFails, Superseded, Play, Pause,
                Teardown, BeginPause, EndSession
  <2> QED
    BY <1>a, <2>1, <2>2
<1>9. CASE PublishGroup \/ StartProbe \/ BeginTeardown
  BY <1>9, <1>a DEF PublishGroup, StartProbe, BeginTeardown, ClaimsInv
<1>10. CASE TeardownSteps
  BY <1>10, <1>a DEF TeardownSteps, StopRegistered, StopRegisteredFails,
                     ShutdownServer, ServerClose, ShutSocket
<1>11. CASE UNCHANGED vars
  BY <1>11, <1>a DEF vars
<1> QED
  BY <1>1, <1>2, <1>3, <1>4, <1>5, <1>6, <1>7, <1>8, <1>9, <1>10, <1>11
     DEF Next, OwnStep
\* Taking a slot needs room; giving one back never hurts.
LEMMA SlotCount ==
  ASSUME IsFiniteSet(tracked), Cardinality(tracked) <= MaxConnections, NEW s
  PROVE  /\ CanTrack => /\ IsFiniteSet(tracked \cup {s})
                        /\ Cardinality(tracked \cup {s}) <= MaxConnections
         /\ IsFiniteSet(tracked \ {s})
         /\ Cardinality(tracked \ {s}) <= MaxConnections
<1>1. MaxConnections \in Nat /\ Cardinality(tracked) \in Nat
  BY OwnershipAssumption, FS_CardinalityType
<1>2. /\ IsFiniteSet(tracked \cup {s}) /\ IsFiniteSet(tracked \ {s})
      /\ \/ Cardinality(tracked \cup {s}) = Cardinality(tracked)
         \/ Cardinality(tracked \cup {s}) = Cardinality(tracked) + 1
  BY FS_AddElement, FS_RemoveElement
<1>3. \/ Cardinality(tracked \ {s}) = Cardinality(tracked)
      \/ Cardinality(tracked \ {s}) = Cardinality(tracked) - 1
  BY FS_RemoveElement
<1>4. CanTrack => Cardinality(tracked \cup {s}) <= MaxConnections
  BY <1>1, <1>2 DEF CanTrack
<1> QED
  BY <1>1, <1>2, <1>3, <1>4

\* Sockets are tracked one by one, up to the limit, and a tracked socket's
\* session has its shutdown_request or _unregister_rtsp_socket still ahead.
LEMMA SlotsStep ==
  ASSUME TypeOK, ClaimsInv, SlotsInv, [Next]_vars
  PROVE  SlotsInv'
<1>0. /\ Probe \in Sessions /\ Passive \subseteq Sessions /\ Probe \notin Passive
      /\ pc \in [Sessions -> PCs] /\ tracked \subseteq Sessions
  BY SessionKinds, OwnershipAssumption DEF TypeOK
<1> USE <1>0 DEF SlotsInv, Live, Goto, serverVars, ownerVars, mainVars
\* Most steps track and untrack nothing and move only a thread.
<1>a. ASSUME UNCHANGED tracked, NEW s \in Sessions,
             \A t \in Sessions : t # s => pc'[t] = pc[t],
             s \in tracked => pc'[s] \in Live \cup {"accepted", "finishing"},
             s = Probe /\ pc'[s] = "releasing" => pc[s] = "releasing"
      PROVE  SlotsInv'
  BY <1>a
<1>b. ASSUME UNCHANGED <<tracked, pc>>
      PROVE  SlotsInv'
  BY <1>b
<1>1. ASSUME NEW c \in Passive, Accept(c)
      PROVE  SlotsInv'
  BY <1>1, SlotCount DEF Accept
<1>2. ASSUME NEW c \in Passive, Refuse(c)
      PROVE  SlotsInv'
  BY <1>2, <1>a DEF Refuse
<1>3. ASSUME NEW c \in Passive, ThreadStartFails(c)
      PROVE  SlotsInv'
  BY <1>3, SlotCount DEF ThreadStartFails
<1>4. CASE ProbeSteps
  <2>1. CASE ProbeWaits \/ ProbeResolves \/ ProbeConnects \/ ProbeGivesUp
    <3>1. pc[Probe] \in {"waiting", "resolving", "connecting"}
      BY <2>1 DEF ProbeWaits, ProbeResolves, ProbeConnects, ProbeGivesUp, ProbeStep
    <3>2. Probe \notin tracked
      BY <3>1
    <3>3. UNCHANGED tracked /\ pc'[Probe] # "releasing"
          /\ \A t \in Sessions : t # Probe => pc'[t] = pc[t]
      BY <2>1 DEF ProbeWaits, ProbeResolves, ProbeConnects, ProbeGivesUp, ProbeStep
    <3> QED
      BY <1>a, <3>2, <3>3
  <2>2. CASE ProbeRegisters
    BY <2>2, SlotCount DEF ProbeRegisters
  <2> QED
    BY <1>4, <2>1, <2>2 DEF ProbeSteps
<1>5. ASSUME NEW s \in Sessions, ClaimClient(s) \/ ClaimRefused(s) \/ LeaveLoop(s)
      PROVE  SlotsInv'
  BY <1>5, <1>a DEF ClaimClient, ClaimRefused, LeaveLoop
<1>6. ASSUME NEW s \in Sessions,
             \/ BeginMedia(s) \/ SpawnMedia(s) \/ MediaStarted(s) \/ MediaFails(s)
      PROVE  SlotsInv'
  BY <1>6, <1>a DEF BeginMedia, SpawnMedia, MediaStarted, MediaFails
<1>7. ASSUME NEW s \in Sessions, StopMedia(s) \/ StopMediaFails(s)
      PROVE  SlotsInv'
  BY <1>7, <1>a DEF StopMedia, StopMediaFails, AfterHalt
<1>8. ASSUME NEW s \in Sessions, Release(s)
      PROVE  SlotsInv'
  BY <1>8, <1>a DEF Release
<1>9. ASSUME NEW s \in Sessions, Finish(s)
      PROVE  SlotsInv'
  BY <1>9, SlotCount DEF Finish
<1>10. ASSUME NEW s \in Sessions, Receive(s)
       PROVE  SlotsInv'
  <2>1. /\ pc'[s] \in {"serving", "starting", "pausing", "stopping"}
        /\ \A t \in Sessions : t # s => pc'[t] = pc[t]
        /\ UNCHANGED tracked
    BY <1>10 DEF Receive, Negotiate, NegotiateFails, Superseded, Play, Pause,
                 Teardown, BeginPause, EndSession
  <2> QED
    BY <1>a, <2>1
<1>11. CASE StartProbe
  <2>1. pc[Probe] = "idle" /\ pc' = [pc EXCEPT ![Probe] = "waiting"]
        /\ UNCHANGED tracked
    BY <1>11 DEF StartProbe, ClaimsInv
  <2> QED
    BY <1>a, <2>1
<1>12. CASE PublishGroup \/ BeginTeardown \/ TeardownSteps \/ UNCHANGED vars
  BY <1>12, <1>b DEF PublishGroup, BeginTeardown, TeardownSteps, StopRegistered,
       StopRegisteredFails, ShutdownServer, ServerClose, ShutSocket, vars
<1> QED
  BY <1>1, <1>2, <1>3, <1>4, <1>5, <1>6, <1>7, <1>8, <1>9, <1>10, <1>11, <1>12
     DEF Next, OwnStep
-----------------------------------------------------------------------------
(* The theorems.                                                           *)

LEMMA InitInv == Init => IInv
<1> SUFFICES ASSUME Init PROVE IInv
  OBVIOUS
<1>1. ClaimsInv
  BY SessionKinds, OwnershipAssumption
     DEF Init, ClaimsInv, Live, Early
<1>2. MediaInv
  BY DEF Init, MediaInv, HasMedia
<1>3. OwnerWillRelease
  BY DEF Init, OwnerWillRelease
<1>4. SlotsInv
  BY FS_EmptySet, OwnershipAssumption, SessionKinds DEF Init, SlotsInv
<1> QED
  BY <1>1, <1>2, <1>3, <1>4 DEF IInv

\* The strengthening every safety theorem below rests on is an invariant.
THEOREM InductiveInvariant == Spec => []IInv
<1>1. TypeOK /\ IInv /\ [Next]_vars => IInv'
  BY ClaimsStep, MediaStep, OwnerStep, SlotsStep DEF IInv
<1> QED
  BY InitInv, TypeCorrect, <1>1, PTL DEF Spec

\* Only the holder of the current, confirmed claim has a media pipeline.
THEOREM MediaNeedsClaim == Spec => []StreamOwned
<1>1. IInv => StreamOwned
  BY DEF IInv, MediaInv, StreamOwned
<1> QED
  BY InductiveInvariant, <1>1, PTL

\* Two sessions hold the current claim only if they are the same session.
LEMMA HolderUnique ==
  ASSUME IInv, TypeOK, NEW s \in Sessions, NEW t \in Sessions,
         Holds(s), Holds(t)
  PROVE  s = t
<1>1. client # NoClient
  BY OwnershipAssumption DEF Holds
<1>2. claim[s] # 0 /\ claim[s] = claim[t]
  BY <1>1 DEF IInv, ClaimsInv, Holds
<1> QED
  BY <1>2 DEF IInv, ClaimsInv

\* The receiver never gets two streams at once.
THEOREM AtMostOneStream == Spec => []OneStream
<1>1. IInv /\ TypeOK => OneStream
  BY HolderUnique DEF IInv, MediaInv, OneStream
<1> QED
  BY InductiveInvariant, TypeCorrect, <1>1, PTL

\* The receiver is never left owned by a session that will not release it.
THEOREM NoLeakedClaim == Spec => []OwnerWillRelease
<1>1. IInv => OwnerWillRelease
  BY DEF IInv
<1> QED
  BY InductiveInvariant, <1>1, PTL

\* The connection table never exceeds its limit or keeps a finished session.
THEOREM BoundedSlots == Spec => []SlotsBounded
<1>1. IInv /\ TypeOK => SlotsBounded
  BY DEF IInv, SlotsInv, SlotsBounded, TypeOK, Live
<1> QED
  BY InductiveInvariant, TypeCorrect, <1>1, PTL
-----------------------------------------------------------------------------
(* Action properties.                                                      *)

\* The actions of a session that draw, confirm or release no claim.
LEMMA OwnershipSteps ==
  ASSUME [Next]_vars
  PROVE  \/ UNCHANGED <<client, confirmed, claimCount, claim>>
         \/ \E s \in Sessions : ClaimClient(s) \/ Release(s)
         \/ \E s \in Sessions :
               /\ ConfirmClient(s)
               /\ UNCHANGED <<claim, media>>
<1> USE DEF serverVars, ownerVars, mainVars
<1>1. ASSUME NEW c \in Passive, Accept(c) \/ Refuse(c) \/ ThreadStartFails(c)
      PROVE  UNCHANGED <<client, confirmed, claimCount, claim>>
  BY <1>1 DEF Accept, Refuse, ThreadStartFails
<1>2. CASE ProbeSteps
  BY <1>2 DEF ProbeSteps, ProbeWaits, ProbeResolves, ProbeConnects,
              ProbeGivesUp, ProbeRegisters, ProbeStep
<1>3. ASSUME NEW s \in Sessions, OwnStep(s), ~ClaimClient(s), ~Release(s)
      PROVE  UNCHANGED <<client, confirmed, claimCount, claim>>
  BY <1>3 DEF OwnStep, ClaimRefused, BeginMedia, SpawnMedia, MediaStarted,
              MediaFails, LeaveLoop, StopMedia, StopMediaFails, Finish
<1>4. ASSUME NEW s \in Sessions, Receive(s)
      PROVE  \/ UNCHANGED <<client, confirmed, claimCount, claim>>
             \/ ConfirmClient(s) /\ UNCHANGED <<claim, media>>
  BY <1>4 DEF Receive, Negotiate, NegotiateFails, Superseded, Play, Pause,
              Teardown, BeginPause, EndSession
<1>5. CASE PublishGroup \/ StartProbe \/ BeginTeardown \/ TeardownSteps \/ UNCHANGED vars
  BY <1>5 DEF PublishGroup, StartProbe, BeginTeardown, TeardownSteps,
       StopRegistered, StopRegisteredFails, ShutdownServer, ServerClose,
       ShutSocket, vars
<1> QED
  BY <1>1, <1>2, <1>3, <1>4, <1>5 DEF Next

\* A confirmed owner loses the receiver only by releasing it itself.
THEOREM ConfirmedOwnerKeepsReceiver == Spec => ConfirmedIsKept
<1> DEFINE Kept == \A s \in Sessions :
             Holds(s) /\ confirmed
             /\ ~(client' = client /\ claimCount' = claimCount /\ confirmed')
               => pc[s] = "releasing" /\ pc'[s] # "releasing"
<1>1. IInv /\ TypeOK /\ [Next]_vars => [Kept]_vars
  <2> SUFFICES ASSUME IInv, TypeOK, [Next]_vars, NEW s \in Sessions,
                      Holds(s), confirmed,
                      ~(client' = client /\ claimCount' = claimCount /\ confirmed')
               PROVE  pc[s] = "releasing" /\ pc'[s] # "releasing"
    OBVIOUS
  <2>1. client # NoClient
    BY OwnershipAssumption DEF Holds
  <2>2. ASSUME NEW t \in Sessions PROVE ~ClaimClient(t)
    BY <2>1 DEF ClaimClient, CanClaim
  <2>3. ASSUME NEW t \in Sessions PROVE ~ConfirmClient(t)
    BY DEF ConfirmClient
  <2>4. PICK t \in Sessions : Release(t)
    BY <2>2, <2>3, OwnershipSteps
  <2>5. Holds(t)
    BY <2>4 DEF Release, ReleaseClient, ownerVars
  <2>6. t = s
    BY <2>5, HolderUnique
  <2> QED
    BY <2>4, <2>6 DEF Release, Goto, TypeOK
<1> QED
  BY <1>1, InductiveInvariant, TypeCorrect, PTL DEF Spec, ConfirmedIsKept

\* server_close misses no socket: nothing is tracked once it has begun.
THEOREM CloseSeesEverySocket == Spec => NoneMissedByClose
<1>1. [Next]_vars => [closing => tracked' \subseteq tracked]_vars
  <2> SUFFICES ASSUME [Next]_vars, closing PROVE tracked' \subseteq tracked
    OBVIOUS
  <2> USE DEF serverVars, ownerVars, mainVars
  <2>1. ASSUME NEW c \in Passive, Accept(c) \/ Refuse(c) \/ ThreadStartFails(c)
        PROVE  tracked' \subseteq tracked
    BY <2>1 DEF Accept, Refuse, ThreadStartFails, CanTrack
  <2>2. CASE ProbeSteps
    BY <2>2 DEF ProbeSteps, ProbeWaits, ProbeResolves, ProbeConnects,
                ProbeGivesUp, ProbeRegisters, ProbeStep, CanTrack
  <2>3. ASSUME NEW s \in Sessions, OwnStep(s)
        PROVE  tracked' \subseteq tracked
    BY <2>3 DEF OwnStep, ClaimClient, ClaimRefused, BeginMedia, SpawnMedia,
         MediaStarted, MediaFails, LeaveLoop, StopMedia, StopMediaFails,
         Release, Finish
  <2>4. ASSUME NEW s \in Sessions, Receive(s)
        PROVE  tracked' \subseteq tracked
    BY <2>4 DEF Receive, Negotiate, NegotiateFails, Superseded, Play, Pause,
                Teardown, BeginPause, EndSession
  <2>5. CASE PublishGroup \/ StartProbe \/ BeginTeardown \/ TeardownSteps \/ UNCHANGED vars
    BY <2>5 DEF PublishGroup, StartProbe, BeginTeardown, TeardownSteps,
         StopRegistered, StopRegisteredFails, ShutdownServer, ServerClose,
         ShutSocket, vars
  <2> QED
    BY <2>1, <2>2, <2>3, <2>4, <2>5 DEF Next
<1> QED
  BY <1>1, PTL DEF Spec, NoneMissedByClose
-----------------------------------------------------------------------------
(* Refinement: the claims implement the lease of module SessionLease.      *)

\* The refinement mapping's CHOOSE is determined: Holder is the session that
\* holds the claim, and NoSession when there is none.
HolderRight ==
  /\ \A s \in Sessions : Holds(s) <=> Holder = s
  /\ Holder \in Sessions \cup {NoSession}

LEMMA HolderMapped == Spec => []HolderRight
<1>1. IInv /\ TypeOK => HolderRight
  <2> SUFFICES ASSUME IInv, TypeOK PROVE HolderRight
    OBVIOUS
  <2>1. CASE \E s \in Sessions : Holds(s)
    <3>1. Holder \in Sessions /\ Holds(Holder)
      BY <2>1 DEF Holder
    <3> QED
      BY <3>1, HolderUnique DEF HolderRight
  <2>2. CASE ~ \E s \in Sessions : Holds(s)
    BY <2>2, OwnershipAssumption DEF HolderRight, Holder
  <2> QED
    BY <2>1, <2>2
<1> QED
  BY <1>1, InductiveInvariant, TypeCorrect, PTL

\* What a step can do to the set of streaming sessions.
LEMMA StreamingSteps ==
  ASSUME TypeOK, [Next]_vars
  PROVE  \/ Streaming' = Streaming
         \/ \E s \in Sessions : BeginMedia(s)
         \/ \E s \in Sessions :
               /\ Streaming' = Streaming \ {s}
               /\ UNCHANGED <<client, confirmed, claimCount, claim>>
<1> USE DEF TypeOK, Streaming, HasMedia, SetMedia, serverVars, ownerVars, mainVars
<1>1. ASSUME NEW c \in Passive, Accept(c) \/ Refuse(c) \/ ThreadStartFails(c)
      PROVE  Streaming' = Streaming
  BY <1>1 DEF Accept, Refuse, ThreadStartFails
<1>2. CASE ProbeSteps
  BY <1>2 DEF ProbeSteps, ProbeWaits, ProbeResolves, ProbeConnects,
              ProbeGivesUp, ProbeRegisters, ProbeStep
<1>3. ASSUME NEW s \in Sessions,
             \/ ClaimClient(s) \/ ClaimRefused(s) \/ LeaveLoop(s) \/ Release(s)
             \/ Finish(s) \/ Receive(s)
      PROVE  Streaming' = Streaming
  BY <1>3 DEF ClaimClient, ClaimRefused, LeaveLoop, Release, Finish, Receive,
       Negotiate, NegotiateFails, Superseded, Play, Pause, Teardown, BeginPause,
       EndSession
<1>4. ASSUME NEW s \in Sessions, SpawnMedia(s) \/ MediaStarted(s) \/ MediaFails(s)
      PROVE  Streaming' = Streaming
  BY <1>4 DEF SpawnMedia, MediaStarted, MediaFails
<1>5. ASSUME NEW s \in Sessions,
             \/ StopMedia(s) \/ StopMediaFails(s) \/ StopRegisteredFails(s)
      PROVE  /\ Streaming' = Streaming \ {s}
             /\ UNCHANGED <<client, confirmed, claimCount, claim>>
  BY <1>5 DEF StopMedia, StopMediaFails, StopRegisteredFails
<1>6. ASSUME NEW s \in Sessions, StopRegistered(s) \/ ShutSocket(s)
      PROVE  Streaming' = Streaming
  BY <1>6 DEF StopRegistered, ShutSocket
<1>7. CASE PublishGroup \/ StartProbe \/ BeginTeardown \/ ShutdownServer
           \/ ServerClose \/ UNCHANGED vars
  BY <1>7 DEF PublishGroup, StartProbe, BeginTeardown, ShutdownServer,
              ServerClose, vars
<1> QED
  BY <1>1, <1>2, <1>3, <1>4, <1>5, <1>6, <1>7 DEF Next, OwnStep, TeardownSteps

\* Every step of the sessions is a step of the lease or leaves it alone.
LEMMA LeaseStep ==
  ASSUME TypeOK, IInv, HolderRight, HolderRight', [Next]_vars
  PROVE  [Lease!LeaseNext]_(Lease!leaseVars)
<1>0. NoSession \notin Sessions /\ NoClient \notin Hosts
      /\ HostOf \in [Sessions -> Hosts]
  BY OwnershipAssumption
<1> USE <1>0 DEF Lease!LeaseNext, Lease!leaseVars
<1>1. CASE UNCHANGED <<client, confirmed, claimCount, claim>>
  <2>1. Holder' = Holder /\ confirmed' = confirmed
    BY <1>1 DEF Holder, Holds
  <2>2. CASE Streaming' = Streaming
    BY <2>1, <2>2
  <2>3. ASSUME NEW s \in Sessions, BeginMedia(s)
        PROVE  Lease!BeginStream(s)
    <3>1. Holds(s) /\ confirmed
      BY <2>3 DEF BeginMedia, IInv, MediaInv
    <3>2. Streaming' = Streaming \cup {s}
      BY <2>3 DEF BeginMedia, SetMedia, Streaming, HasMedia, TypeOK
    <3> QED
      BY <2>1, <3>1, <3>2 DEF HolderRight, Lease!BeginStream
  <2>4. ASSUME NEW s \in Sessions, Streaming' = Streaming \ {s}
        PROVE  Lease!EndStream(s)
    BY <2>1, <2>4 DEF Lease!EndStream
  <2> QED
    BY <2>2, <2>3, <2>4, StreamingSteps
<1>2. ASSUME NEW s \in Sessions, ClaimClient(s)
      PROVE  Lease!Acquire(s)
  <2>1. client # NoClient => s = Probe /\ ~confirmed
    BY <1>2 DEF ClaimClient, CanClaim
  <2>2. client = NoClient => Holder = NoSession
    BY DEF HolderRight, Holds
  <2>3. Holds(s)' /\ ~confirmed'
    BY <1>2 DEF ClaimClient, TakeClaim, Holds, TypeOK
  <2>4. Holder' = s
    BY <2>3 DEF HolderRight
  <2>5. Streaming' = Streaming
    BY <1>2 DEF ClaimClient, Streaming, HasMedia
  <2> QED
    BY <2>1, <2>2, <2>3, <2>4, <2>5 DEF Lease!Acquire
<1>3. ASSUME NEW s \in Sessions, Release(s)
      PROVE  Lease!Release(s) \/ UNCHANGED Lease!leaseVars
  <2>1. Streaming' = Streaming /\ s \notin Streaming
    BY <1>3 DEF Release, Streaming, HasMedia, IInv, MediaInv
  <2>2. CASE Holds(s)
    <3>1. client' = NoClient /\ ~confirmed'
      BY <1>3, <2>2 DEF Release, ReleaseClient
    <3>2. Holder' = NoSession
      BY <3>1 DEF HolderRight, Holds
    <3> QED
      BY <2>1, <2>2, <3>1, <3>2 DEF HolderRight, Lease!Release
  <2>3. CASE ~Holds(s)
    <3>1. UNCHANGED <<client, confirmed, claimCount, claim>>
      BY <1>3, <2>3 DEF Release, ReleaseClient, ownerVars
    <3> QED
      BY <2>1, <3>1 DEF Holder, Holds
  <2> QED
    BY <2>2, <2>3
<1>4. ASSUME NEW s \in Sessions, ConfirmClient(s), UNCHANGED <<claim, media>>
      PROVE  Lease!Confirm(s)
  <2>1. Holder = s /\ Holder' = Holder /\ confirmed' = TRUE
    BY <1>4 DEF ConfirmClient, HolderRight, Holder, Holds
  <2>2. Streaming' = Streaming
    BY <1>4 DEF Streaming, HasMedia
  <2> QED
    BY <2>1, <2>2 DEF Lease!Confirm
<1> QED
  BY <1>1, <1>2, <1>3, <1>4, OwnershipSteps

\* claim_client, confirm_client and release_client, called from any number
\* of handler threads and the probe, implement one exclusive lease.
THEOREM ImplementsExclusiveLease == Spec => ImplementsLease
<1>1. Init => Lease!LeaseInit
  <2> SUFFICES ASSUME Init PROVE Lease!LeaseInit
    OBVIOUS
  <2>1. \A s \in Sessions : ~Holds(s) /\ ~HasMedia(s)
    BY OwnershipAssumption DEF Init, Holds, HasMedia
  <2> QED
    BY <2>1 DEF Init, Holder, Streaming, Lease!LeaseInit
<1>2. TypeOK /\ IInv /\ HolderRight /\ HolderRight' /\ [Next]_vars
        => [Lease!LeaseNext]_(Lease!leaseVars)
  BY LeaseStep
<1> QED
  BY <1>1, <1>2, TypeCorrect, InductiveInvariant, HolderMapped, PTL
     DEF Spec, ImplementsLease, Lease!LeaseSpec
=============================================================================
