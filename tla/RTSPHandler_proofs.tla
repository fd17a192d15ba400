------------------------ MODULE RTSPHandler_proofs ------------------------
(* Theorems about RTSPHandler, for any timers, any configurations, any     *)
(* size of the pending table and any number of starts of media.            *)
EXTENDS RTSPHandler, FiniteSetTheorems, TLAPS

-----------------------------------------------------------------------------
(* What the helpers of the handler do.                                     *)

\* A timer is armed only for an attribute that was None; afterwards the
\* attribute is not None and only a thread that did not exist has changed.
LEMMA ScheduleFacts ==
  ASSUME TypeOK, NEW kind \in Kinds, ScheduleTimer(kind)
  PROVE  /\ timer' \in [Kinds -> Timers \cup {NoTimer}]
         /\ thread' \in [Timers -> ThreadStates]
         /\ timer'[kind] # NoTimer
         /\ \A k \in Kinds : k # kind => timer'[k] = timer[k]
         /\ \A t \in Timers : thread'[t] = thread[t] \/ thread'[t] = "armed"
         /\ \A t \in Timers : KindOf[t] # kind => thread'[t] = thread[t]
         /\ NoOrphanTimer => NoOrphanTimer'
<1> USE HandlerAssumption DEF HandlerAssumption, TypeOK
<1>1. CASE timer[kind] # NoTimer
  BY <1>1 DEF ScheduleTimer, NoOrphanTimer
<1>2. CASE timer[kind] = NoTimer
  <2>1. PICK t \in FreeTimers(kind) :
              /\ timer' = [timer EXCEPT ![kind] = t]
              /\ thread' = [thread EXCEPT ![t] = "armed"]
    BY <1>2 DEF ScheduleTimer
  <2>2. t \in Timers /\ KindOf[t] = kind
    BY DEF FreeTimers
  <2>3. NoOrphanTimer => NoOrphanTimer'
    BY <1>2, <2>1, <2>2 DEF NoOrphanTimer
  <2> QED
    BY <2>1, <2>2, <2>3 DEF ThreadStates
<1> QED
  BY <1>1, <1>2

\* Cancelling clears the attribute and stops a waiting timer of that kind.
LEMMA CancelFacts ==
  ASSUME TypeOK, NEW kind \in Kinds, CancelTimer(kind)
  PROVE  /\ timer' \in [Kinds -> Timers \cup {NoTimer}]
         /\ thread' \in [Timers -> ThreadStates]
         /\ timer'[kind] = NoTimer
         /\ \A k \in Kinds : k # kind => timer'[k] = timer[k]
         /\ \A t \in Timers : thread'[t] = thread[t] \/ thread'[t] = "free"
         /\ NoOrphanTimer => NoOrphanTimer'
BY HandlerAssumption
   DEF HandlerAssumption, TypeOK, CancelTimer, ThreadStates, NoOrphanTimer

\* A request enters the table only if there is room.
LEMMA SendFacts ==
  ASSUME TypeOK, TableInv, NEW r \in Requests,
         NEW table \in SUBSET pending, NEW asked \in SUBSET Requests,
         SendRequest(r, table, asked)
  PROVE  /\ pending' \subseteq table \cup {r}
         /\ pending' \subseteq Requests /\ unanswered' \subseteq Requests
         /\ pc' \in {"reading", "ending"}
         /\ IsFiniteSet(pending') /\ Cardinality(pending') <= MaxPending
<1>1. /\ IsFiniteSet(table) /\ Cardinality(table) \in Nat
      /\ Cardinality(table) <= Cardinality(pending)
      /\ Cardinality(pending) <= MaxPending /\ Cardinality(pending) \in Nat
  BY FS_Subset, FS_CardinalityType DEF TableInv, PendingBounded
<1>2. /\ IsFiniteSet(table \cup {r})
      /\ Cardinality(table \cup {r}) <= Cardinality(table) + 1
  BY <1>1, FS_AddElement
<1>3. Cardinality(table \cup {r}) \in Nat /\ MaxPending \in Nat
  BY <1>2, FS_CardinalityType, HandlerAssumption DEF HandlerAssumption
<1>4. CASE Cardinality(table) >= MaxPending
  <2>1. pending' = table /\ unanswered' = asked /\ pc' = "ending"
    BY <1>4 DEF SendRequest
  <2> QED
    BY <2>1, <1>1, <1>3 DEF TypeOK
<1>5. CASE ~(Cardinality(table) >= MaxPending)
  <2>1. /\ pending' = table \cup {r}
        /\ unanswered' = IF sock = "open" THEN asked \cup {r} ELSE asked
        /\ pc' = IF sock = "open" THEN "reading" ELSE "ending"
    BY <1>5 DEF SendRequest
  <2>2. Cardinality(pending') <= MaxPending
    BY <2>1, <1>1, <1>2, <1>3, <1>5
  <2> QED
    BY <2>1, <2>2, <1>2 DEF TypeOK
<1> QED
  BY <1>4, <1>5

\* The requests the handler thread and the keepalive timer send are requests.
LEMMA RequestNames ==
  /\ {M1, M3, M4, M5, Heartbeat, OldHeartbeat} \subseteq Requests
  /\ \A k \in 1..MaxStarts : [name |-> "M14_UIBC_ENABLE", n |-> k] \in Requests
  /\ HeartbeatAged \subseteq unanswered \cup Requests
BY DEF Requests, M14Requests, HeartbeatAged

\* The step relation, one disjunct for each action.
LEMMA NextCases ==
  ASSUME Next
  PROVE  \/ Connect \/ MediaStarted \/ MediaFails \/ Paused \/ PauseFails
         \/ EndKeepalive \/ EndMedia \/ MediaEnded
         \/ AttemptListed \/ AttemptFails
         \/ M3Accepted \/ M4Accepted \/ M3Rejected \/ KeepaliveRejected
         \/ \E r \in Requests : Acknowledged(r) \/ AnswerRaises(r)
         \/ Options \/ Setup \/ Play \/ Pause \/ Leave
         \/ \E t \in Timers : \/ Fire(t) \/ Run(t) \/ KeepaliveChecks(t)
                             \/ Keepalive(t) \/ KeepaliveWritten(t)
                             \/ KeepaliveWriteFails(t) \/ ProbeTx(t) \/ Finish(t)
         \/ \E k \in 1..MaxStarts : UIBCEnable(k)
         \/ SenderExits
BY DEF Next, HandlerStep, Attempts, Answers, Asks, TimerStep

-----------------------------------------------------------------------------
(* The initial states.                                                     *)

\* Every configuration's initial state satisfies the inductive invariant.
LEMMA InitHolds == Init => IInv
<1> SUFFICES ASSUME Init PROVE IInv
  OBVIOUS
<1>1. TypeOK
  <2>1. microsoft \in BOOLEAN /\ uibc \in BOOLEAN /\ m3_r2 \in BOOLEAN
    BY HandlerAssumption DEF HandlerAssumption, Init
  <2>2. starts \in 0..MaxStarts
    BY HandlerAssumption DEF HandlerAssumption, Init
  <2>3. /\ timer \in [Kinds -> Timers \cup {NoTimer}]
        /\ thread \in [Timers -> ThreadStates]
        /\ again \in [Timers -> BOOLEAN]
    BY DEF Init, ThreadStates
  <2> QED
    BY <2>1, <2>2, <2>3 DEF Init, TypeOK, PCs, MediaStates
<1>2. TimersInv
  BY DEF Init, TimersInv, NoOrphanTimer
<1>3. StreamInv
  BY DEF Init, StreamInv, FirstStreamKeepsAlive, FirstStream, KeepsAlive
<1>4. TableInv
  BY FS_EmptySet, HandlerAssumption DEF HandlerAssumption, Init, TableInv, PendingBounded
<1> QED
  BY <1>1, <1>2, <1>3, <1>4 DEF IInv

-----------------------------------------------------------------------------
(* Types.                                                                  *)

\* Every step keeps the types; the number of a start of media, which M14
\* carries, is positive once there is media (StreamInv).
LEMMA TypeStep == IInv /\ Next => TypeOK'
<1> SUFFICES ASSUME IInv, Next PROVE TypeOK'
  OBVIOUS
<1>0. TypeOK /\ TableInv /\ StreamInv
  BY DEF IInv
<1> USE <1>0 DEF configVars, askVars, negVars, mediaVars, timerVars
<1>1. ASSUME Connect \/ M3Accepted \/ M4Accepted \/ M3Rejected \/ Options
      PROVE  TypeOK'
  <2>1. /\ pending' \subseteq Requests /\ unanswered' \subseteq Requests
        /\ pc' \in {"reading", "ending"}
    <3>1. CASE Connect
      BY <3>1, SendFacts, RequestNames DEF Connect, TypeOK
    <3>2. CASE M3Accepted
      BY <3>2, SendFacts, RequestNames DEF M3Accepted, TypeOK
    <3>3. CASE M4Accepted
      BY <3>3, SendFacts, RequestNames DEF M4Accepted, TypeOK
    <3>4. CASE M3Rejected
      BY <3>4, SendFacts, RequestNames DEF M3Rejected, TypeOK
    <3>5. CASE Options
      BY <3>5, SendFacts, RequestNames DEF Options, TypeOK
    <3> QED
      BY <1>1, <3>1, <3>2, <3>3, <3>4, <3>5
  <2>2. /\ UNCHANGED <<microsoft, uibc, sock, media, starts, m14, keepalive_active,
                       timer, thread, again, gaveup>>
        /\ port' \in BOOLEAN /\ m3_r2' \in BOOLEAN /\ m3_sent' \in BOOLEAN
        /\ sink_uibc' \in BOOLEAN
    BY <1>1 DEF Connect, M3Accepted, M4Accepted, M3Rejected, Options, TypeOK
  <2> QED
    BY <2>1, <2>2 DEF TypeOK, PCs
<1>2. ASSUME NEW r \in Requests, Acknowledged(r) \/ AnswerRaises(r)
      PROVE  TypeOK'
  <2>1. /\ pending' \subseteq Requests /\ unanswered' \subseteq Requests
        /\ pc' \in PCs
    BY <1>2 DEF Acknowledged, AnswerRaises, Answered, TypeOK, PCs
  <2>2. UNCHANGED <<microsoft, uibc, sock, port, m3_r2, m3_sent, sink_uibc, media, starts,
                    m14, keepalive_active, timer, thread, again, gaveup>>
    BY <1>2 DEF Acknowledged, AnswerRaises
  <2> QED
    BY <2>1, <2>2 DEF TypeOK
<1>3. ASSUME KeepaliveRejected PROVE TypeOK'
  BY <1>3 DEF KeepaliveRejected, Answered, TypeOK
<1>4. ASSUME Leave \/ MediaFails \/ PauseFails PROVE TypeOK'
  BY <1>4 DEF Leave, MediaFails, PauseFails, TypeOK, PCs
<1>5. ASSUME Setup PROVE TypeOK'
  <2>1. port' \in BOOLEAN
    BY <1>5 DEF Setup
  <2>2. UNCHANGED <<microsoft, uibc, pc, sock, pending, unanswered, m3_r2, m3_sent,
                    sink_uibc, media, starts, m14, keepalive_active, timer, thread, again, gaveup>>
    BY <1>5 DEF Setup
  <2> QED
    BY <2>1, <2>2 DEF TypeOK
<1>6. ASSUME Paused \/ MediaEnded \/ SenderExits \/ AttemptListed \/ AttemptFails
      PROVE  TypeOK'
  <2>1. pc' \in PCs /\ media' \in MediaStates /\ sock' \in {"open", "shut"}
    BY <1>6 DEF Paused, MediaEnded, SenderExits, AttemptListed, AttemptFails, TypeOK, PCs, MediaStates
  <2>2. UNCHANGED <<microsoft, uibc, pending, unanswered, port, m3_r2, m3_sent,
                    sink_uibc, starts, m14, keepalive_active, timer, thread, again, gaveup>>
    BY <1>6 DEF Paused, MediaEnded, SenderExits, AttemptListed, AttemptFails
  <2> QED
    BY <2>1, <2>2 DEF TypeOK
<1>7. ASSUME Play PROVE TypeOK'
  <2>1. /\ timer' \in [Kinds -> Timers \cup {NoTimer}]
        /\ thread' \in [Timers -> ThreadStates]
    BY <1>7, ScheduleFacts DEF Play, TypeOK, Kinds
  <2>2. starts' \in 0..MaxStarts
    BY <1>7, HandlerAssumption DEF HandlerAssumption, Play, TypeOK
  <2> QED
    BY <1>7, <2>1, <2>2 DEF Play, TypeOK, PCs, MediaStates
<1>8. ASSUME MediaStarted PROVE TypeOK'
  <2>1. /\ timer' \in [Kinds -> Timers \cup {NoTimer}]
        /\ thread' \in [Timers -> ThreadStates]
    BY <1>8, ScheduleFacts DEF MediaStarted, TypeOK, Kinds
  <2>2. m14' \subseteq 1..MaxStarts
    BY <1>8, HandlerAssumption
       DEF HandlerAssumption, MediaStarted, TypeOK, StreamInv
  <2> QED
    BY <1>8, <2>1, <2>2 DEF MediaStarted, TypeOK, PCs, MediaStates
<1>9. ASSUME Pause \/ EndKeepalive \/ EndMedia PROVE TypeOK'
  <2>1. /\ timer' \in [Kinds -> Timers \cup {NoTimer}]
        /\ thread' \in [Timers -> ThreadStates]
    BY <1>9, CancelFacts DEF Pause, EndKeepalive, EndMedia, Kinds
  <2>2. CASE Pause
    BY <2>2, <2>1 DEF Pause, TypeOK, PCs, MediaStates
  <2>3. CASE EndKeepalive
    BY <2>3, <2>1 DEF EndKeepalive, TypeOK, PCs
  <2>4. CASE EndMedia
    BY <2>4, <2>1 DEF EndMedia, TypeOK, PCs, MediaStates
  <2> QED
    BY <1>9, <2>2, <2>3, <2>4
<1>10. ASSUME NEW t \in Timers, Fire(t) \/ Run(t) \/ KeepaliveChecks(t) \/ ProbeTx(t)
      PROVE  TypeOK'
  <2>1. thread' \in [Timers -> ThreadStates]
    BY <1>10 DEF Fire, Run, KeepaliveChecks, ProbeTx, Moves, TypeOK, ThreadStates
  <2>2. again' \in [Timers -> BOOLEAN] /\ gaveup' \in BOOLEAN
    BY <1>10 DEF Fire, Run, KeepaliveChecks, ProbeTx, TypeOK
  <2>3. UNCHANGED <<microsoft, uibc, pc, sock, pending, unanswered, port, m3_r2, m3_sent,
                    sink_uibc, media, starts, m14, keepalive_active, timer>>
    BY <1>10 DEF Fire, Run, KeepaliveChecks, ProbeTx
  <2> QED
    BY <2>1, <2>2, <2>3 DEF TypeOK
<1>11. ASSUME NEW t \in Timers,
             Keepalive(t) \/ KeepaliveWritten(t) \/ KeepaliveWriteFails(t)
      PROVE  TypeOK'
  <2>1. pending' \subseteq Requests /\ unanswered' \subseteq Requests
    BY <1>11, RequestNames
       DEF Keepalive, KeepaliveWritten, KeepaliveWriteFails, TypeOK
  <2>2. thread' \in [Timers -> ThreadStates]
    BY <1>11 DEF Keepalive, KeepaliveWritten, KeepaliveWriteFails, Moves, TypeOK,
                ThreadStates
  <2> QED
    BY <1>11, <2>1, <2>2 DEF Keepalive, KeepaliveWritten, KeepaliveWriteFails, TypeOK
<1>12. ASSUME NEW t \in Timers, Finish(t) PROVE TypeOK'
  BY <1>12, HandlerAssumption DEF HandlerAssumption, Finish, TypeOK, ThreadStates
<1>13. ASSUME NEW k \in 1..MaxStarts, UIBCEnable(k) PROVE TypeOK'
  BY <1>13, RequestNames DEF UIBCEnable, TypeOK
<1> QED
  BY <1>1, <1>2, <1>3, <1>4, <1>7, <1>8, <1>9, <1>10, <1>11, <1>12, <1>13, <1>6,
     <1>5, NextCases

-----------------------------------------------------------------------------
(* The timers.                                                             *)

\* Steps that touch no timer, and leave the handler thread and the pipeline
\* where the cancelled timers stay cancelled, keep TimersInv.
LEMMA TimersQuiet ==
  ASSUME TimersInv, UNCHANGED timer,
         \A t \in Timers : thread'[t] = "armed" => thread[t] = "armed",
         pc' \in {"halting", "closed"} => pc \in {"halting", "closed"},
         pc' = "closed" => pc = "closed",
         media' = "stopping" => media = "stopping"
  PROVE  TimersInv'
BY DEF TimersInv, NoOrphanTimer

\* Every step keeps the waiting timers named and the cancelled ones None.
LEMMA TimersStep == IInv /\ Next => TimersInv'
<1> SUFFICES ASSUME IInv, Next PROVE TimersInv'
  OBVIOUS
<1>0. TypeOK /\ TableInv /\ TimersInv
  BY DEF IInv
<1> USE <1>0 DEF configVars, askVars, negVars, mediaVars, timerVars
<1>1. ASSUME Connect \/ M3Accepted \/ M4Accepted \/ M3Rejected \/ Options
      PROVE  TimersInv'
  <2>1. UNCHANGED <<media, timer, thread>>
    BY <1>1 DEF Connect, M3Accepted, M4Accepted, M3Rejected, Options
  <2>2. pc' \in {"reading", "ending"}
    BY <1>1 DEF Connect, M3Accepted, M4Accepted, M3Rejected, Options, SendRequest
  <2> QED
    BY <2>1, <2>2, TimersQuiet
<1>2. ASSUME NEW r \in Requests, Acknowledged(r) \/ AnswerRaises(r)
      PROVE  TimersInv'
  BY <1>2, TimersQuiet DEF Acknowledged, AnswerRaises
<1>3. ASSUME \/ KeepaliveRejected \/ Setup \/ Leave \/ MediaFails
             \/ Paused \/ PauseFails \/ SenderExits \/ AttemptListed \/ AttemptFails
      PROVE  TimersInv'
  BY <1>3, TimersQuiet DEF KeepaliveRejected, Setup, Leave, MediaFails, Paused,
                           PauseFails, SenderExits, AttemptListed, AttemptFails
<1>4. ASSUME Play PROVE TimersInv'
  <2>1. /\ NoOrphanTimer'
        /\ timer'["probe"] = timer["probe"]
    BY <1>4, ScheduleFacts DEF Play, TimersInv, NoOrphanTimer, Kinds
  <2>2. /\ pc' \in {"reading", "ending", "starting"}
        /\ media' = "stopping" => media = "stopping"
    BY <1>4 DEF Play
  <2> QED
    BY <2>1, <2>2 DEF TimersInv
<1>5. ASSUME MediaStarted PROVE TimersInv'
  <2>1. NoOrphanTimer'
    BY <1>5, ScheduleFacts DEF MediaStarted, TimersInv, Kinds
  <2> QED
    BY <1>5, <2>1 DEF MediaStarted, TimersInv
<1>6. ASSUME Pause \/ EndMedia PROVE TimersInv'
  <2>1. /\ NoOrphanTimer'
        /\ timer'["probe"] = NoTimer
        /\ timer'["keepalive"] = timer["keepalive"]
    BY <1>6, CancelFacts DEF Pause, EndMedia, TimersInv, Kinds
  <2>2. pc' \in {"halting", "closed"} => pc \in {"halting", "closed"}
    BY <1>6 DEF Pause, EndMedia
  <2> QED
    BY <2>1, <2>2 DEF TimersInv
<1>7. ASSUME EndKeepalive PROVE TimersInv'
  <2>1. /\ NoOrphanTimer'
        /\ timer'["keepalive"] = NoTimer
        /\ timer'["probe"] = timer["probe"]
    BY <1>7, CancelFacts DEF EndKeepalive, TimersInv, Kinds
  <2> QED
    BY <1>7, <2>1 DEF EndKeepalive, TimersInv
<1>8. ASSUME MediaEnded PROVE TimersInv'
  BY <1>8 DEF MediaEnded, TimersInv, NoOrphanTimer
<1>9. ASSUME NEW t \in Timers, Fire(t) \/ Run(t) \/ KeepaliveChecks(t) \/ ProbeTx(t)
      PROVE  TimersInv'
  <2>1. UNCHANGED <<pc, media, timer>>
    BY <1>9 DEF Fire, Run, KeepaliveChecks, ProbeTx
  <2>2. \A u \in Timers : thread'[u] = "armed" => thread[u] = "armed"
    BY <1>9 DEF Fire, Run, KeepaliveChecks, ProbeTx, Moves, TypeOK
  <2> QED
    BY <2>1, <2>2, TimersQuiet
<1>10. ASSUME NEW t \in Timers,
              Keepalive(t) \/ KeepaliveWritten(t) \/ KeepaliveWriteFails(t)
       PROVE  TimersInv'
  <2>1. UNCHANGED <<pc, media, timer>>
    BY <1>10 DEF Keepalive, KeepaliveWritten, KeepaliveWriteFails
  <2>2. \A u \in Timers : thread'[u] = "armed" => thread[u] = "armed"
    BY <1>10 DEF Keepalive, KeepaliveWritten, KeepaliveWriteFails, Moves, TypeOK
  <2> QED
    BY <2>1, <2>2, TimersQuiet
<1>11. ASSUME NEW t \in Timers, Finish(t) PROVE TimersInv'
  <2>1. KindOf[t] \in Kinds /\ UNCHANGED <<pc, media>>
    BY <1>11, HandlerAssumption DEF HandlerAssumption, Finish
  <2>2. CASE timer[KindOf[t]] = t
    <3>1. /\ thread' = [thread EXCEPT ![t] = IF again[t] THEN "armed" ELSE "free"]
          /\ timer' = [timer EXCEPT ![KindOf[t]] = IF again[t] THEN timer[KindOf[t]]
                                                   ELSE NoTimer]
      BY <1>11, <2>2, <2>1 DEF Finish, TypeOK
    <3>2. NoOrphanTimer'
      BY <2>1, <2>2, <3>1, HandlerAssumption
         DEF HandlerAssumption, TypeOK, TimersInv, NoOrphanTimer
    <3>3. \A k \in Kinds : timer'[k] = timer[k] \/ timer'[k] = NoTimer
      BY <2>1, <3>1 DEF TypeOK
    <3> QED
      BY <2>1, <3>2, <3>3 DEF TimersInv, Kinds
  <2>3. CASE timer[KindOf[t]] # t
    <3>1. timer' = timer /\ thread' = [thread EXCEPT ![t] = "free"]
      BY <1>11, <2>1, <2>3 DEF Finish, TypeOK
    <3> QED
      BY <2>1, <3>1, TimersQuiet DEF TypeOK
  <2> QED
    BY <2>2, <2>3
<1>12. ASSUME NEW k \in 1..MaxStarts, UIBCEnable(k) PROVE TimersInv'
  BY <1>12, TimersQuiet DEF UIBCEnable
<1> QED
  BY <1>1, <1>2, <1>3, <1>4, <1>5, <1>6, <1>7, <1>8, <1>9, <1>10, <1>11, <1>12,
     NextCases

-----------------------------------------------------------------------------
(* The first stream.                                                       *)

\* Steps that start no media, touch no timer and neither return to the read
\* loop nor lose the reason of a keepalive to end keep StreamInv.
LEMMA StreamQuiet ==
  ASSUME TypeOK, StreamInv,
         UNCHANGED <<microsoft, starts, sock, timer, thread, again, gaveup>>,
         keepalive_active' => keepalive_active,
         pc' = "connecting" => pc = "connecting",
         pc' = "reading" => pc \in {"connecting", "reading"} \/ starts > 0,
         pc' \in {"starting", "pausing"} => pc' = pc,
         FirstStream' => FirstStream,
         media' # "none" => media # "none",
         media \in {"dead", "stopping", "none"} => media' \in {"dead", "stopping", "none"}
  PROVE  StreamInv'
<1>1. /\ pc' = "connecting" => starts' = 0
      /\ (media' # "none" \/ pc' \in {"starting", "pausing"}) => starts' > 0
  BY DEF StreamInv
<1>2. FirstStreamKeepsAlive'
  BY DEF StreamInv, FirstStreamKeepsAlive, FirstStream, KeepsAlive
<1>3. ASSUME NEW t \in Timers, KindOf[t] = "keepalive"
      PROVE  /\ starts' = 0 /\ pc' \in {"connecting", "reading"} => thread'[t] = "free"
             /\ starts' = 1 /\ thread'[t] = "finishing" /\ ~again'[t] =>
                  \/ ~keepalive_active' \/ sock' = "shut" \/ gaveup'
                  \/ media' \in {"dead", "stopping", "none"}
  BY <1>3 DEF StreamInv, TypeOK
<1> QED
  BY <1>1, <1>2, <1>3 DEF StreamInv

\* The steps of a timer's thread: while no media was started there is no
\* keepalive thread that could take one.
LEMMA StreamTimer ==
  ASSUME TypeOK, StreamInv,
         UNCHANGED <<microsoft, pc, media, starts, keepalive_active>>,
         sock = "shut" => sock' = "shut", gaveup => gaveup',
         NEW t \in Timers, thread[t] # "free",
         \A u \in Timers : u # t => thread'[u] = thread[u] /\ again'[u] = again[u],
         KindOf[t] = "keepalive" /\ thread'[t] = "finishing" /\ ~again'[t] =>
           \/ ~keepalive_active \/ sock' = "shut" \/ gaveup'
           \/ media \in {"dead", "stopping"},
         \/ UNCHANGED timer["keepalive"]
         \/ starts = 1 => ~keepalive_active \/ sock' = "shut" \/ gaveup'
                                            \/ media \in {"dead", "stopping", "none"}
  PROVE  StreamInv'
<1>1. /\ pc' = "connecting" => starts' = 0
      /\ (media' # "none" \/ pc' \in {"starting", "pausing"}) => starts' > 0
  BY DEF StreamInv
<1>2. FirstStreamKeepsAlive'
  BY DEF StreamInv, FirstStreamKeepsAlive, FirstStream, KeepsAlive
<1>3. ASSUME NEW u \in Timers, KindOf[u] = "keepalive"
      PROVE  /\ starts' = 0 /\ pc' \in {"connecting", "reading"} => thread'[u] = "free"
             /\ starts' = 1 /\ thread'[u] = "finishing" /\ ~again'[u] =>
                  \/ ~keepalive_active' \/ sock' = "shut" \/ gaveup'
                  \/ media' \in {"dead", "stopping", "none"}
  <2>1. CASE u = t
    BY <1>3, <2>1 DEF StreamInv
  <2>2. CASE u # t
    BY <1>3, <2>2 DEF StreamInv
  <2> QED
    BY <2>1, <2>2
<1> QED
  BY <1>1, <1>2, <1>3 DEF StreamInv

\* Every step of the handler, the timers and the receiver keeps StreamInv.
LEMMA StreamStep == IInv /\ Next => StreamInv'
<1> SUFFICES ASSUME IInv, Next PROVE StreamInv'
  OBVIOUS
<1>0. TypeOK /\ TableInv /\ TimersInv /\ StreamInv
  BY DEF IInv
<1> USE <1>0 DEF configVars, askVars, negVars, mediaVars, timerVars
<1>1. ASSUME Connect \/ M3Accepted \/ M4Accepted \/ M3Rejected \/ Options
      PROVE  StreamInv'
  <2>1. /\ UNCHANGED <<microsoft, starts, sock, media, timer, thread, again, gaveup>>
        /\ keepalive_active' = keepalive_active
    BY <1>1 DEF Connect, M3Accepted, M4Accepted, M3Rejected, Options
  <2>2. pc \in {"connecting", "reading"} /\ pc' \in {"reading", "ending"}
    BY <1>1 DEF Connect, M3Accepted, M4Accepted, M3Rejected, Options, SendRequest, Answer
  <2>3. pc = "connecting" => media = "none"
    BY DEF StreamInv, TypeOK
  <2> QED
    BY <2>1, <2>2, <2>3, StreamQuiet DEF FirstStream
<1>2. ASSUME NEW r \in Requests, Acknowledged(r) \/ AnswerRaises(r)
      PROVE  StreamInv'
  BY <1>2, StreamQuiet DEF Acknowledged, AnswerRaises, Answer, FirstStream
<1>3. ASSUME \/ KeepaliveRejected \/ Setup \/ Leave \/ MediaFails \/ PauseFails
             \/ SenderExits \/ AttemptListed \/ AttemptFails
      PROVE  StreamInv'
  <2>1. CASE KeepaliveRejected \/ Setup \/ Leave \/ MediaFails \/ PauseFails
    BY <2>1, StreamQuiet DEF KeepaliveRejected, Setup, Leave, MediaFails, PauseFails,
                             Answer, FirstStream
  <2>2. CASE SenderExits \/ AttemptListed \/ AttemptFails
    BY <2>2, StreamQuiet DEF SenderExits, AttemptListed, AttemptFails, FirstStream
  <2> QED
    BY <1>3, <2>1, <2>2
<1>4. ASSUME Paused PROVE StreamInv'
  BY <1>4, StreamQuiet DEF Paused, StreamInv, FirstStream
<1>5. ASSUME Play PROVE StreamInv'
  <2>1. /\ \A t \in Timers : thread'[t] = thread[t] \/ thread'[t] = "armed"
        /\ \/ microsoft \/ ~keepalive_active
           \/ timer'["keepalive"] # NoTimer
    BY <1>5, ScheduleFacts DEF Play, Kinds
  <2>2. CASE ~port
    <3>1. pc' = "ending" /\ UNCHANGED <<sock, media, starts, keepalive_active, again, gaveup>>
      BY <1>5, <2>2 DEF Play
    <3> QED
      BY <2>1, <3>1 DEF StreamInv, FirstStreamKeepsAlive, FirstStream, KeepsAlive
  <2>3. CASE port /\ media = "none"
    <3>1. /\ pc = "reading" /\ pc' = "starting" /\ starts' = starts + 1
          /\ UNCHANGED <<microsoft, sock, keepalive_active, again, gaveup>>
      BY <1>5, <2>3 DEF Play
    <3>2. starts \in Nat
      BY HandlerAssumption DEF HandlerAssumption, TypeOK
    <3>3. ASSUME NEW t \in Timers, KindOf[t] = "keepalive", starts' = 1
          PROVE  thread'[t] # "finishing"
      BY <2>1, <3>1, <3>2, <3>3 DEF StreamInv
    <3>4. FirstStreamKeepsAlive'
      BY <2>1, <3>1 DEF FirstStreamKeepsAlive, FirstStream, KeepsAlive
    <3> QED
      BY <3>1, <3>2, <3>3, <3>4 DEF StreamInv
  <2>4. CASE port /\ media # "none"
    <3>1. /\ pc = "reading"
          /\ UNCHANGED <<microsoft, pc, sock, media, starts, keepalive_active, again, gaveup>>
      BY <1>5, <2>4 DEF Play
    <3>2. starts > 0 /\ starts \in Nat
      BY <2>4, HandlerAssumption DEF HandlerAssumption, TypeOK, StreamInv
    <3> QED
      BY <2>1, <3>1, <3>2 DEF StreamInv, FirstStreamKeepsAlive, FirstStream, KeepsAlive
  <2> QED
    BY <2>2, <2>3, <2>4
<1>6. ASSUME MediaStarted PROVE StreamInv'
  <2>1. /\ \A t \in Timers : KindOf[t] = "keepalive" => thread'[t] = thread[t]
        /\ timer'["keepalive"] = timer["keepalive"]
    BY <1>6, ScheduleFacts DEF MediaStarted, Kinds
  <2>2. /\ pc = "starting" /\ media \in {"made", "tried", "failed"}
        /\ pc' = "reading" /\ media' \in {"up", "dead"}
        /\ UNCHANGED <<microsoft, sock, starts, keepalive_active, again, gaveup>>
    BY <1>6 DEF MediaStarted
  <2>3. starts > 0 /\ starts \in Nat
    BY <2>2, HandlerAssumption DEF HandlerAssumption, TypeOK, StreamInv
  <2> QED
    BY <2>1, <2>2, <2>3 DEF StreamInv, FirstStreamKeepsAlive, FirstStream, KeepsAlive
<1>7. ASSUME Pause \/ EndKeepalive \/ EndMedia PROVE StreamInv'
  <2>1. \A t \in Timers : thread'[t] = thread[t] \/ thread'[t] = "free"
    BY <1>7, CancelFacts DEF Pause, EndKeepalive, EndMedia, Kinds
  <2>2. /\ pc' \in {"reading", "pausing", "halting", "closed"}
        /\ pc' = "reading" => pc = "reading" /\ media' = "none"
        /\ media' # "none" \/ pc' = "pausing" => media # "none"
        /\ starts' = starts /\ again' = again /\ gaveup' = gaveup
        /\ keepalive_active' => keepalive_active
        /\ sock = "shut" => sock' = "shut"
        /\ media \in {"dead", "stopping", "none"} => media' \in {"dead", "stopping", "none"}
    BY <1>7 DEF Pause, EndKeepalive, EndMedia
  <2> QED
    BY <2>1, <2>2 DEF StreamInv, FirstStreamKeepsAlive, FirstStream, KeepsAlive
<1>8. ASSUME MediaEnded PROVE StreamInv'
  BY <1>8 DEF MediaEnded, StreamInv, FirstStreamKeepsAlive, FirstStream, KeepsAlive
<1>9. ASSUME NEW t \in Timers,
             Fire(t) \/ Run(t) \/ KeepaliveChecks(t) \/ Keepalive(t)
                     \/ KeepaliveWritten(t) \/ KeepaliveWriteFails(t) \/ ProbeTx(t)
      PROVE  StreamInv'
  <2>1. UNCHANGED <<microsoft, pc, media, starts, keepalive_active, timer>>
    BY <1>9 DEF Fire, Run, KeepaliveChecks, Keepalive, KeepaliveWritten,
                KeepaliveWriteFails, ProbeTx
  <2>2. /\ sock = "shut" => sock' = "shut"
        /\ gaveup => gaveup'
        /\ thread[t] # "free"
        /\ \A u \in Timers : u # t => thread'[u] = thread[u] /\ again'[u] = again[u]
    BY <1>9 DEF Fire, Run, KeepaliveChecks, Keepalive, KeepaliveWritten,
                KeepaliveWriteFails, ProbeTx, Moves, TypeOK
  <2>3. KindOf[t] = "keepalive" /\ thread'[t] = "finishing" /\ ~again'[t] =>
           \/ ~keepalive_active \/ sock' = "shut" \/ gaveup'
           \/ media \in {"dead", "stopping"}
    BY <1>9 DEF Fire, Run, KeepaliveChecks, Keepalive, KeepaliveWritten,
                KeepaliveWriteFails, ProbeTx, Moves, TypeOK
  <2> QED
    BY <2>1, <2>2, <2>3, StreamTimer
<1>10. ASSUME NEW t \in Timers, Finish(t) PROVE StreamInv'
  <2>1. /\ UNCHANGED <<microsoft, pc, media, starts, keepalive_active, sock, again, gaveup>>
        /\ thread[t] = "finishing"
        /\ KindOf[t] \in Kinds
    BY <1>10, HandlerAssumption DEF HandlerAssumption, Finish
  <2>2. /\ \A u \in Timers : u # t => thread'[u] = thread[u]
        /\ thread'[t] # "finishing"
    BY <1>10 DEF Finish, TypeOK
  <2>3. CASE KindOf[t] = "keepalive" /\ ~again[t]
    <3>1. starts = 1 => ~keepalive_active \/ sock' = "shut" \/ gaveup
                                          \/ media \in {"dead", "stopping", "none"}
      BY <2>1, <2>3 DEF StreamInv
    <3> QED
      BY <2>1, <2>2, <3>1, StreamTimer
  <2>4. CASE ~(KindOf[t] = "keepalive" /\ ~again[t])
    <3>1. timer'["keepalive"] = timer["keepalive"]
      BY <1>10, <2>1, <2>4 DEF Finish, TypeOK, Kinds
    <3> QED
      BY <2>1, <2>2, <3>1, StreamTimer
  <2> QED
    BY <2>3, <2>4
<1>11. ASSUME NEW k \in 1..MaxStarts, UIBCEnable(k) PROVE StreamInv'
  BY <1>11, StreamQuiet DEF UIBCEnable, FirstStream
<1> QED
  BY <1>1, <1>2, <1>3, <1>4, <1>5, <1>6, <1>7, <1>8, <1>9, <1>10, <1>11, NextCases

-----------------------------------------------------------------------------
(* The table of pending requests.                                          *)

\* A table from which entries were only taken still fits.
LEMMA SmallerTable ==
  ASSUME TypeOK, TableInv, pending' \subseteq pending
  PROVE  IsFiniteSet(pending') /\ PendingBounded'
<1>1. /\ IsFiniteSet(pending) /\ Cardinality(pending) \in Nat
      /\ Cardinality(pending) <= MaxPending /\ MaxPending \in Nat
  BY FS_CardinalityType, HandlerAssumption DEF HandlerAssumption, TableInv, PendingBounded
<1>2. /\ IsFiniteSet(pending') /\ Cardinality(pending') \in Nat
      /\ Cardinality(pending') <= Cardinality(pending)
  BY <1>1, FS_Subset, FS_CardinalityType
<1> QED
  BY <1>1, <1>2 DEF PendingBounded

\* A request for which there is room makes the table no larger than allowed.
LEMMA LargerTable ==
  ASSUME TypeOK, TableInv, NEW table \in SUBSET pending, NEW r,
         ~(Cardinality(table) >= MaxPending), pending' = table \cup {r}
  PROVE  IsFiniteSet(pending') /\ PendingBounded'
<1>1. IsFiniteSet(table) /\ Cardinality(table) \in Nat /\ MaxPending \in Nat
  BY FS_Subset, FS_CardinalityType, HandlerAssumption DEF HandlerAssumption, TableInv
<1>2. /\ IsFiniteSet(table \cup {r}) /\ Cardinality(table \cup {r}) \in Nat
      /\ Cardinality(table \cup {r}) <= Cardinality(table) + 1
  BY <1>1, FS_AddElement, FS_CardinalityType
<1> QED
  BY <1>1, <1>2 DEF PendingBounded

\* An element more, at most one more in number.
LEMMA OneMore ==
  ASSUME NEW S, NEW x, IsFiniteSet(S)
  PROVE  /\ IsFiniteSet(S \cup {x})
         /\ Cardinality(S) \in Nat /\ Cardinality(S \cup {x}) \in Nat
         /\ Cardinality(S \cup {x}) <= Cardinality(S) + 1
<1>1. Cardinality(S) \in Nat
  BY FS_CardinalityType
<1>2. /\ IsFiniteSet(S \cup {x})
      /\ \/ Cardinality(S \cup {x}) = Cardinality(S)
         \/ Cardinality(S \cup {x}) = Cardinality(S) + 1
  BY FS_AddElement
<1> QED
  BY <1>1, <1>2

\* A set written with five elements.
LEMMA FiveElements ==
  ASSUME NEW a, NEW b, NEW c, NEW d, NEW e
  PROVE  IsFiniteSet({a, b, c, d, e}) /\ Cardinality({a, b, c, d, e}) <= 5
<1> DEFINE A == {a}
           B == A \cup {b}
           C == B \cup {c}
           D == C \cup {d}
           E == D \cup {e}
<1>1. IsFiniteSet(A) /\ Cardinality(A) = 1
  BY FS_Singleton, Zenon
<1>2. E = {a, b, c, d, e}
  BY Zenon
<1>3. \A S, x : IsFiniteSet(S) => /\ IsFiniteSet(S \cup {x})
                                  /\ Cardinality(S) \in Nat
                                  /\ Cardinality(S \cup {x}) \in Nat
                                  /\ Cardinality(S \cup {x}) <= Cardinality(S) + 1
  BY OneMore
<1>4. /\ IsFiniteSet(B) /\ Cardinality(B) \in Nat
      /\ Cardinality(B) <= Cardinality(A) + 1
  <2> HIDE DEF A
  <2> QED
    BY <1>1, <1>3
<1>5. /\ IsFiniteSet(C) /\ Cardinality(C) \in Nat
      /\ Cardinality(C) <= Cardinality(B) + 1
  <2> HIDE DEF B
  <2> QED
    BY <1>4, <1>3
<1>6. /\ IsFiniteSet(D) /\ Cardinality(D) \in Nat
      /\ Cardinality(D) <= Cardinality(C) + 1
  <2> HIDE DEF C
  <2> QED
    BY <1>5, <1>3
<1>7. /\ IsFiniteSet(E) /\ Cardinality(E) \in Nat
      /\ Cardinality(E) <= Cardinality(D) + 1
  <2> HIDE DEF D
  <2> QED
    BY <1>6, <1>3
<1>8. IsFiniteSet(E) /\ Cardinality(E) <= 5
  <2> HIDE DEF A, B, C, D, E
  <2> QED
    BY <1>1, <1>4, <1>5, <1>6, <1>7
<1> QED
  BY <1>2, <1>8

\* Every sender, the three threads of them, respects the table's limit.
LEMMA TableStep == IInv /\ Next => TableInv'
<1> SUFFICES ASSUME IInv, Next PROVE TableInv'
  OBVIOUS
<1>0. TypeOK /\ TableInv /\ StreamInv
  BY DEF IInv
<1> USE <1>0 DEF configVars, askVars, negVars, mediaVars, timerVars
<1>1. ASSUME Connect \/ M3Accepted \/ M4Accepted \/ M3Rejected \/ Options
      PROVE  TableInv'
  <2>1. PICK r \in {M1, M3, M4, M5}, table \in SUBSET pending,
             asked \in SUBSET Requests : SendRequest(r, table, asked)
    BY <1>1 DEF Connect, M3Accepted, M4Accepted, M3Rejected, Options, TypeOK
  <2>2. r \in Requests
    BY RequestNames
  <2>3. /\ IsFiniteSet(pending') /\ Cardinality(pending') <= MaxPending
        /\ pending' \subseteq pending \cup {r}
    BY <2>1, <2>2, SendFacts
  <2>4. uibc' = uibc /\ m14' = m14
    BY <1>1 DEF Connect, M3Accepted, M4Accepted, M3Rejected, Options
  <2>5. ~uibc /\ ~sink_uibc => ~sink_uibc'
    BY <1>1 DEF Connect, M3Accepted, M4Accepted, M3Rejected, Options
  <2> QED
    BY <2>3, <2>4, <2>5 DEF TableInv, PendingBounded
<1>2. ASSUME NEW r \in Requests,
             Acknowledged(r) \/ AnswerRaises(r) \/ KeepaliveRejected
      PROVE  TableInv'
  <2>1. pending' \subseteq pending /\ UNCHANGED <<uibc, sink_uibc, m14>>
    BY <1>2 DEF Acknowledged, AnswerRaises, KeepaliveRejected, Answered
  <2> QED
    BY <2>1, SmallerTable DEF TableInv
<1>3. ASSUME \/ Setup \/ Leave \/ MediaFails \/ Paused \/ PauseFails \/ SenderExits
             \/ Play \/ Pause \/ EndKeepalive \/ EndMedia \/ MediaEnded
             \/ AttemptListed \/ AttemptFails
      PROVE  TableInv'
  <2>1. UNCHANGED <<pending, uibc, sink_uibc, m14>>
    BY <1>3 DEF Setup, Leave, MediaFails, Paused, PauseFails, SenderExits, Play, Pause,
                EndKeepalive, EndMedia, MediaEnded, AttemptListed, AttemptFails
  <2> QED
    BY <2>1, SmallerTable DEF TableInv
<1>4. ASSUME MediaStarted PROVE TableInv'
  <2>1. UNCHANGED <<pending, uibc, sink_uibc>> /\ (~sink_uibc => m14' = m14)
    BY <1>4 DEF MediaStarted
  <2> QED
    BY <2>1, SmallerTable DEF TableInv
<1>5. ASSUME NEW t \in Timers,
             Fire(t) \/ Run(t) \/ KeepaliveChecks(t) \/ ProbeTx(t) \/ Finish(t)
                     \/ KeepaliveWritten(t) \/ KeepaliveWriteFails(t)
      PROVE  TableInv'
  <2>1. UNCHANGED <<pending, uibc, sink_uibc, m14>>
    BY <1>5 DEF Fire, Run, KeepaliveChecks, ProbeTx, Finish, KeepaliveWritten,
                KeepaliveWriteFails
  <2> QED
    BY <2>1, SmallerTable DEF TableInv
<1>6. ASSUME NEW t \in Timers, Keepalive(t) PROVE TableInv'
  <2>1. UNCHANGED <<uibc, sink_uibc, m14>>
    BY <1>6 DEF Keepalive
  <2>2. CASE Cardinality(pending \ {Heartbeat}) >= MaxPending
    <3>1. pending' \subseteq pending
      BY <1>6, <2>2 DEF Keepalive
    <3> QED
      BY <2>1, <3>1, SmallerTable DEF TableInv
  <2>3. CASE ~(Cardinality(pending \ {Heartbeat}) >= MaxPending)
    <3>1. pending' = (pending \ {Heartbeat}) \cup {Heartbeat}
      BY <1>6, <2>3 DEF Keepalive
    <3>2. IsFiniteSet(pending') /\ PendingBounded'
      BY <2>3, <3>1, LargerTable
    <3> QED
      BY <2>1, <3>1, <3>2 DEF TableInv
  <2> QED
    BY <2>2, <2>3
<1>7. ASSUME NEW k \in 1..MaxStarts, UIBCEnable(k) PROVE TableInv'
  <2>1. uibc /\ UNCHANGED <<uibc, sink_uibc>>
    BY <1>7 DEF UIBCEnable, TableInv
  <2>2. CASE pending' = pending
    BY <2>1, <2>2, SmallerTable DEF TableInv
  <2>3. CASE pending' # pending
    <3>1. /\ Cardinality(pending) < MaxPending
          /\ pending' = pending \cup {[name |-> "M14_UIBC_ENABLE", n |-> k]}
      BY <1>7, <2>3 DEF UIBCEnable
    <3>2. ~(Cardinality(pending) >= MaxPending)
      BY <3>1, FS_CardinalityType, HandlerAssumption DEF HandlerAssumption, TableInv
    <3> QED
      BY <2>1, <3>1, <3>2, LargerTable DEF TableInv
  <2> QED
    BY <2>2, <2>3
<1> QED
  BY <1>1, <1>2, <1>3, <1>4, <1>5, <1>6, <1>7, NextCases, RequestNames

-----------------------------------------------------------------------------
(* The theorems.                                                           *)

\* Every step of a session, of the handler thread, a timer or the receiver,
\* preserves the inductive invariant.
THEOREM InductiveInvariant == Spec => []IInv
<1>1. Init => IInv
  BY InitHolds
<1>2. IInv /\ [Next]_vars => IInv'
  <2> SUFFICES ASSUME IInv, [Next]_vars PROVE IInv'
    OBVIOUS
  <2>1. CASE Next
    BY <2>1, TypeStep, TimersStep, StreamStep, TableStep DEF IInv
  <2>2. CASE UNCHANGED vars
    BY <2>2 DEF vars, IInv, TypeOK, TimersInv, NoOrphanTimer, StreamInv,
                FirstStreamKeepsAlive, FirstStream, KeepsAlive, TableInv, PendingBounded
  <2> QED
    BY <2>1, <2>2
<1> QED
  BY <1>1, <1>2, PTL DEF Spec

\* The variables of the session keep their types.
THEOREM TypeCorrect == Spec => []TypeOK
<1>1. IInv => TypeOK
  BY DEF IInv
<1> QED
  BY <1>1, InductiveInvariant, PTL

\* A waiting timer is always the one its attribute names, however many times
\* media is paused and played again while callbacks run.
THEOREM TimersNamed == Spec => []NoOrphanTimer
<1>1. IInv => NoOrphanTimer
  BY DEF IInv, TimersInv
<1> QED
  BY <1>1, InductiveInvariant, PTL

\* A closed session has no waiting timer: both attributes were cleared, and
\* a waiting timer would be named by one of them.
THEOREM NoTimerOutlivesSession == Spec => []TimersEnd
<1>1. IInv => TimersEnd
  <2> SUFFICES ASSUME IInv, pc = "closed", NEW t \in Timers, thread[t] = "armed"
               PROVE  FALSE
    BY DEF TimersEnd
  <2>1. timer[KindOf[t]] = t
    BY DEF IInv, TimersInv, NoOrphanTimer
  <2>2. KindOf[t] = "keepalive" \/ KindOf[t] = "probe"
    BY HandlerAssumption DEF HandlerAssumption, Kinds
  <2>3. timer["keepalive"] = NoTimer /\ timer["probe"] = NoTimer
    BY DEF IInv, TimersInv
  <2> QED
    BY <2>1, <2>2, <2>3, HandlerAssumption DEF HandlerAssumption
<1> QED
  BY <1>1, InductiveInvariant, PTL

\* The keepalive covers the first stream from PLAY on, for any number of
\* timers and whatever the receiver does, unless a callback met an attempt of
\* start() that had just failed.
THEOREM FirstStreamCovered == Spec => []FirstStreamKeepsAlive
<1>1. IInv => FirstStreamKeepsAlive
  BY DEF IInv, StreamInv
<1> QED
  BY <1>1, InductiveInvariant, PTL

\* The table never holds more than RTSP_MAX_PENDING requests, with UIBC too.
THEOREM TableBounded == Spec => []PendingBounded
<1>1. IInv => PendingBounded
  BY DEF IInv, TableInv
<1> QED
  BY <1>1, InductiveInvariant, PTL

\* Without UIBC at most five requests wait for an answer at a time, so that
\* a table of six or more (the code's has 16) always has room.
THEOREM RoomForRequests ==
  ASSUME MaxPending > 5
  PROVE  Spec => []PendingHasRoom
<1>1. IInv => PendingHasRoom
  <2> SUFFICES ASSUME IInv, ~uibc PROVE Cardinality(pending) < MaxPending
    BY DEF PendingHasRoom
  <2> DEFINE Few == {M1, M3, M4, M5, Heartbeat}
  <2>1. pending \subseteq Few
    BY DEF IInv, TableInv
  <2>2. IsFiniteSet(Few) /\ Cardinality(Few) <= 5 /\ Cardinality(Few) \in Nat
    <3>1. IsFiniteSet(Few) /\ Cardinality(Few) <= 5
      BY FiveElements, Zenon
    <3> QED
      BY <3>1, FS_CardinalityType
  <2>3. Cardinality(pending) <= Cardinality(Few) /\ Cardinality(pending) \in Nat
    BY <2>1, <2>2, FS_Subset, FS_CardinalityType
  <2> QED
    BY <2>2, <2>3, HandlerAssumption DEF HandlerAssumption
<1> QED
  BY <1>1, InductiveInvariant, PTL
=============================================================================
