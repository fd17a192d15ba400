------------------------ MODULE MediaPipeline_proofs ------------------------
(***************************************************************************)
(* Theorems about MediaPipeline, for any orders of back ends and any       *)
(* number of attempts and interrupts.                                      *)
(***************************************************************************)
EXTENDS MediaPipeline, TLAPS

\* Where a thread is in stop() and in close_portal_capture goes with where it is
\* otherwise.
ControlInv ==
  /\ stop["session"] # "no" => pc \in {"stopping", "over"}
  /\ pc = "over" => stop["session"] \in {"done", "raised"}
  /\ close["session"] # "no" => pc = "closing" \/ (pc = "stopping" /\ stop["session"] = "last")
  /\ main \in {"waits", "interrupted"} => stop["main"] = "no" /\ ~seen
  /\ main = "over" => stop["main"] \in {"no", "done", "raised"}
  /\ close["main"] # "no" => main = "stops" /\ stop["main"] = "last"

\* A session that is asked for is the first: nothing of one is there before, and
\* nobody but start() knows it until it is stored.
Opening == pc \in {"opening", "replied"}
FreshInv ==
  /\ portal = "none" \/ Opening =>
       ~held /\ ~on_closed /\ loop = "waits" /\ closes = 0 /\ \A t \in Threads : close[t] = "no"
  /\ portal = "none" => ~signal
  /\ portal = "none" \/ pc = "opening" => fd = "none"
  /\ portal # "none" => \E i \in 1..n : /\ order[i] \in Portals
                                        /\ i = n => pc \notin {"backend", "asking"}
  /\ pc \in {"asking", "opening", "replied", "opened"} => Backend \in Portals
  /\ pc \in {"opening", "replied", "opened"} => portal # "none"
  /\ pc = "opened" => ~on_closed /\ loop = "waits"

\* A session that nobody holds is closed, and so is its descriptor.
ReleasedInv ==
  /\ ~held /\ ~Opening => portal # "open" /\ fd # "open"
  /\ \A t \in Threads : close[t] = "forgetting" => portal # "open" /\ fd = "closed"
  /\ (pc = "closing" \/ stop["session"] \in {"last", "done"}) /\ close["session"] = "no" => ~held
  /\ PortalServesItsBackend

\* Whether a thread may have closed a descriptor.
SessionClosed == ~(close["session"] \in {"calling", "called"} \/ (close["session"] = "no" /\ held))
MainClosed ==
  ~(\/ main \in {"waits", "interrupted"}
    \/ main = "stops" /\ (stop["main"] \in {"senders", "portal"}
                          \/ close["main"] \in {"calling", "called"}))
ClosesInv ==
  closes <= (IF SessionClosed THEN 1 ELSE 0) + (IF MainClosed THEN 1 ELSE 0)

\* Without an interrupt of the user's no signal but a revoke reaches the callback.
SilentInv ==
  ctrlc = 0 =>
    /\ fired # "own"
    /\ loop = "fires" => portal = "revoked"
    /\ signal /\ (on_closed \/ pc \in {"opening", "replied", "opened"}) => portal = "revoked"
    /\ portal = "none" \/ pc \in {"opening", "replied", "opened"} => main = "waits" /\ ~sigint
    /\ \A t \in Threads : close[t] = "calling" => ~on_closed

\* Between two attempts nothing sends, and what sends belongs to the last one.
Between == pc \in {"backend", "asking", "opening", "replied", "opened", "closing", "attempt",
                   "exhausted"}
SendersInv ==
  /\ Running \subseteq Of(attempt)
  /\ \A s \in Senders : s[1] > attempt => proc[s] = "unborn"
  /\ Between => Running = {}
  /\ pc = "listing" => Backend = "portal-ffmpeg"
  /\ \A s \in processes : proc[s] # "unborn"
  /\ \A t \in Threads : \A s \in left[t] : proc[s] # "unborn"

\* Until the main thread interferes, every sender is listed for the session's own
\* stop(), and then no longer there.
OwnStopInv ==
  stop["main"] = "no" =>
    /\ pc = "spawned" /\ Backend = "portal-ffmpeg" => Running \subseteq processes
    /\ pc = "streaming" => Running \subseteq processes
    /\ pc = "failed" => Running \subseteq processes \cup Orphans
    /\ stop["session"] = "senders" => Running \subseteq left["session"] \cup Orphans
    /\ stop["session"] \in {"portal", "last", "done"} => Running \subseteq Orphans

\* The main thread that saw the pipeline stream has every sender in its list, but
\* those that another clear() took from it when they had gone.
MainStopInv ==
  seen =>
    /\ pc \in {"streaming", "stopping", "over"} /\ stop["main"] # "no"
    /\ stop["main"] = "senders" => Running \subseteq left["main"]
    /\ stop["main"] \in {"portal", "last", "done"} => Running = {}
    /\ \A t \in Threads : stop[t] = "senders" =>
         \A s \in processes : s \in left[t] \/ proc[s] = "gone"

\* The type invariant in parts.
StartOK == order \in Orders /\ n \in 1..Len(order) /\ pc \in Places /\ attempt \in 0..MaxAttempts
SendersOK ==
  /\ proc \in [Senders -> {"unborn", "running", "told", "gone"}] /\ processes \subseteq Senders
  /\ left \in [Threads -> SUBSET Senders]
PortalOK ==
  /\ portal \in {"none", "open", "revoked", "closed"} /\ signal \in BOOLEAN
  /\ fd \in {"none", "open", "lost", "closed"} /\ closes \in Nat
  /\ held \in BOOLEAN /\ on_closed \in BOOLEAN
  /\ loop \in {"waits", "fires"} /\ fired \in {"no", "revoked", "own"}
ThreadsOK ==
  /\ stop \in [Threads -> {"no", "senders", "portal", "last", "done", "raised"}]
  /\ close \in [Threads -> {"no", "calling", "called", "forgetting"}]
  /\ main \in {"waits", "interrupted", "stops", "over"}
  /\ seen \in BOOLEAN /\ ctrlc \in 0..MaxCtrlC /\ sigint \in BOOLEAN
Types == StartOK /\ SendersOK /\ PortalOK /\ ThreadsOK

IInv == /\ Types /\ ControlInv /\ FreshInv /\ ReleasedInv /\ ClosesInv /\ SilentInv
        /\ SendersInv /\ OwnStopInv /\ MainStopInv

-----------------------------------------------------------------------------
\* The bounds are numbers.
LEMMA BoundsTyped == MaxAttempts \in Nat /\ MaxCtrlC \in Nat
BY PipelineAssumption

\* An order holds a portal back end at most once.
LEMMA OnePortal ==
  IInv => \A i, j \in 1..Len(order) : order[i] \in Portals /\ order[j] \in Portals => i = j
BY PipelineAssumption DEF IInv, Types, StartOK

\* The back end being tried is one of the order.
LEMMA BackendTyped == IInv => Backend \in Backends /\ Len(order) \in Nat /\ order \in Seq(Backends)
BY PipelineAssumption DEF IInv, Types, StartOK, Backend

\* start() stays among its places, its back ends and its attempts.
LEMMA StartTyped == IInv /\ [Next]_vars => StartOK'
<1> SUFFICES ASSUME IInv, [Next]_vars PROVE StartOK'
  OBVIOUS
<1> USE BackendTyped, BoundsTyped DEF IInv, Types, StartOK, Places, Backend, startVars,
        senderVars, portalVars, loopVars, stopVars, mainVars, Threads
<1>1. CASE Begin \/ NotReady \/ Rejected
  BY <1>1 DEF Begin, NotReady, NextBackend, Rejected
<1>2. CASE Shared \/ RemoteOpened
  BY <1>2 DEF Shared, RemoteOpened
<1>3. CASE Opened \/ Assign
  BY <1>3 DEF Opened, Assign
<1>4. CASE OpeningFails
  BY <1>4 DEF OpeningFails, NextBackend
<1>5. CASE Unsupported
  BY <1>5 DEF Unsupported, CloseBegins
<1>6. CASE Spawn
  BY <1>6 DEF Spawn, Size
<1>7. CASE ListPipe \/ Started
  BY <1>7 DEF ListPipe, Born, Started
<1>8. CASE SpawnFails
  BY <1>8 DEF SpawnFails
<1>9. CASE AttemptFails
  BY <1>9 DEF AttemptFails, GiveUpAttempt
<1>10. CASE Exhausted
  BY <1>10 DEF Exhausted, CloseBegins, NextBackend
<1>11. CASE EndSession \/ SessionOver
  BY <1>11 DEF EndSession, StopBegins, SessionOver
<1>12. CASE Revoke \/ HandleClosed \/ Fire
  BY <1>12 DEF Revoke, HandleClosed, Fire
<1>13. CASE \E s \in Senders : Exits(s)
  BY <1>13 DEF Exits
<1>14. CASE CtrlC \/ Interrupted
  BY <1>14 DEF CtrlC, Interrupted
<1>15. CASE MainStops \/ MainOver
  BY <1>15 DEF MainStops, StopBegins, Registered, MainOver
<1>16. ASSUME NEW t \in Threads, StopSender(t) \/ StopRaises(t) PROVE StartOK'
  BY <1>16 DEF StopSender, StopRaises
<1>17. ASSUME NEW t \in Threads, Clear(t) PROVE StartOK'
  BY <1>17 DEF Clear
<1>18. ASSUME NEW t \in Threads, StopPortal(t) PROVE StartOK'
  BY <1>18 DEF StopPortal, CloseBegins
<1>19. ASSUME NEW t \in Threads, CallClose(t) \/ Disconnect(t) PROVE StartOK'
  BY <1>19 DEF CallClose, Disconnect
<1>20. ASSUME NEW t \in Threads, Forget(t) \/ StopReturns(t) PROVE StartOK'
  BY <1>20 DEF Forget, StopReturns
<1>21. CASE UNCHANGED vars
  BY <1>21 DEF vars
<1> QED  BY <1>1, <1>2, <1>3, <1>4, <1>5, <1>6, <1>7, <1>8, <1>9, <1>10, <1>11, <1>12,
            <1>13, <1>14, <1>15, <1>16, <1>17, <1>18, <1>19, <1>20, <1>21 DEF Next, StartStep,
            StopStep

\* Only senders are listed.
LEMMA SendersTyped == IInv /\ [Next]_vars => SendersOK'
<1> SUFFICES ASSUME IInv, [Next]_vars PROVE SendersOK'
  OBVIOUS
<1> USE DEF IInv, Types, SendersOK, Senders, Of, startVars, senderVars, portalVars,
        loopVars, stopVars, mainVars, Threads
<1>1. CASE Begin \/ NotReady \/ Rejected
  BY <1>1 DEF Begin, NotReady, NextBackend, Rejected
<1>2. CASE Shared \/ RemoteOpened
  BY <1>2 DEF Shared, RemoteOpened
<1>3. CASE Opened \/ Assign
  BY <1>3 DEF Opened, Assign
<1>4. CASE OpeningFails
  BY <1>4 DEF OpeningFails, NextBackend
<1>5. CASE Unsupported
  BY <1>5 DEF Unsupported, CloseBegins
<1>6. CASE Spawn
  BY <1>6 DEF Spawn, Size
<1>7. CASE Started
  BY <1>7 DEF Started, Born
<1>8. CASE ListPipe
  BY <1>8 DEF ListPipe, Born
<1>9. CASE SpawnFails
  BY <1>9 DEF SpawnFails
<1>10. CASE AttemptFails
  BY <1>10 DEF AttemptFails, GiveUpAttempt
<1>11. CASE Exhausted
  BY <1>11 DEF Exhausted, CloseBegins, NextBackend
<1>12. CASE EndSession \/ SessionOver
  BY <1>12 DEF EndSession, StopBegins, SessionOver
<1>13. CASE Revoke \/ HandleClosed \/ Fire
  BY <1>13 DEF Revoke, HandleClosed, Fire
<1>14. CASE \E s \in Senders : Exits(s)
  BY <1>14 DEF Exits
<1>15. CASE CtrlC \/ Interrupted
  BY <1>15 DEF CtrlC, Interrupted
<1>16. CASE MainStops \/ MainOver
  BY <1>16 DEF MainStops, StopBegins, Registered, MainOver
<1>17. ASSUME NEW t \in Threads, StopSender(t) \/ StopRaises(t) PROVE SendersOK'
  BY <1>17 DEF StopSender, StopRaises
<1>18. ASSUME NEW t \in Threads, Clear(t) PROVE SendersOK'
  BY <1>18 DEF Clear
<1>19. ASSUME NEW t \in Threads, StopPortal(t) PROVE SendersOK'
  BY <1>19 DEF StopPortal, CloseBegins
<1>20. ASSUME NEW t \in Threads, CallClose(t) \/ Disconnect(t) PROVE SendersOK'
  BY <1>20 DEF CallClose, Disconnect
<1>21. ASSUME NEW t \in Threads, Forget(t) \/ StopReturns(t) PROVE SendersOK'
  BY <1>21 DEF Forget, StopReturns
<1>22. CASE UNCHANGED vars
  BY <1>22 DEF vars
<1> QED  BY <1>1, <1>2, <1>3, <1>4, <1>5, <1>6, <1>7, <1>8, <1>9, <1>10, <1>11, <1>12,
            <1>13, <1>14, <1>15, <1>16, <1>17, <1>18, <1>19, <1>20, <1>21, <1>22 DEF Next,
            StartStep, StopStep

\* The portal's session keeps its types.
LEMMA PortalTyped == IInv /\ [Next]_vars => PortalOK'
<1> SUFFICES ASSUME IInv, [Next]_vars PROVE PortalOK'
  OBVIOUS
<1> USE DEF IInv, Types, PortalOK, startVars, senderVars, portalVars, loopVars, stopVars,
        mainVars, Threads
<1>1. CASE Begin \/ NotReady \/ Rejected
  BY <1>1 DEF Begin, NotReady, NextBackend, Rejected
<1>2. CASE Shared \/ RemoteOpened
  BY <1>2 DEF Shared, RemoteOpened
<1>3. CASE Opened \/ Assign
  BY <1>3 DEF Opened, Assign
<1>4. CASE OpeningFails
  BY <1>4 DEF OpeningFails, NextBackend
<1>5. CASE Unsupported
  BY <1>5 DEF Unsupported, CloseBegins
<1>6. CASE Spawn
  BY <1>6 DEF Spawn, Size
<1>7. CASE ListPipe \/ Started
  BY <1>7 DEF ListPipe, Born, Started
<1>8. CASE SpawnFails
  BY <1>8 DEF SpawnFails
<1>9. CASE AttemptFails
  BY <1>9 DEF AttemptFails, GiveUpAttempt
<1>10. CASE Exhausted
  BY <1>10 DEF Exhausted, CloseBegins, NextBackend
<1>11. CASE EndSession \/ SessionOver
  BY <1>11 DEF EndSession, StopBegins, SessionOver
<1>12. CASE Revoke \/ HandleClosed \/ Fire
  BY <1>12 DEF Revoke, HandleClosed, Fire
<1>13. CASE \E s \in Senders : Exits(s)
  BY <1>13 DEF Exits
<1>14. CASE CtrlC \/ Interrupted
  BY <1>14 DEF CtrlC, Interrupted
<1>15. CASE MainStops \/ MainOver
  BY <1>15 DEF MainStops, StopBegins, Registered, MainOver
<1>16. ASSUME NEW t \in Threads, StopSender(t) \/ StopRaises(t) PROVE PortalOK'
  BY <1>16 DEF StopSender, StopRaises
<1>17. ASSUME NEW t \in Threads, Clear(t) PROVE PortalOK'
  BY <1>17 DEF Clear
<1>18. ASSUME NEW t \in Threads, StopPortal(t) PROVE PortalOK'
  BY <1>18 DEF StopPortal, CloseBegins
<1>19. ASSUME NEW t \in Threads, Disconnect(t) PROVE PortalOK'
  <2>1. closes' = closes + 1 /\ closes \in Nat
    BY <1>19 DEF Disconnect
  <2>2. closes' \in Nat
    BY <2>1
  <2>3. signal' = FALSE /\ fd' = "closed" /\ UNCHANGED <<held, on_closed, loop, fired>>
    BY <1>19 DEF Disconnect
  <2>4. portal' \in {"none", "open", "revoked", "closed"}
    BY <1>19 DEF Disconnect
  <2> QED  BY <2>2, <2>3, <2>4
<1>20. ASSUME NEW t \in Threads, CallClose(t) PROVE PortalOK'
  BY <1>20 DEF CallClose
<1>21. ASSUME NEW t \in Threads, Forget(t) \/ StopReturns(t) PROVE PortalOK'
  BY <1>21 DEF Forget, StopReturns
<1>22. CASE UNCHANGED vars
  BY <1>22 DEF vars
<1> QED  BY <1>1, <1>2, <1>3, <1>4, <1>5, <1>6, <1>7, <1>8, <1>9, <1>10, <1>11, <1>12,
            <1>13, <1>14, <1>15, <1>16, <1>17, <1>18, <1>19, <1>20, <1>21, <1>22 DEF Next,
            StartStep, StopStep

\* What the threads are at keeps its types.
LEMMA ThreadsTyped == IInv /\ [Next]_vars => ThreadsOK'
<1> SUFFICES ASSUME IInv, [Next]_vars PROVE ThreadsOK'
  OBVIOUS
<1> USE BoundsTyped DEF IInv, Types, ThreadsOK, startVars, senderVars, portalVars,
        loopVars, stopVars, mainVars, Threads
<1>1. CASE Begin \/ NotReady \/ Rejected
  BY <1>1 DEF Begin, NotReady, NextBackend, Rejected
<1>2. CASE Shared \/ RemoteOpened
  BY <1>2 DEF Shared, RemoteOpened
<1>3. CASE Opened \/ Assign
  BY <1>3 DEF Opened, Assign
<1>4. CASE OpeningFails
  BY <1>4 DEF OpeningFails, NextBackend
<1>5. CASE Unsupported
  BY <1>5 DEF Unsupported, CloseBegins
<1>6. CASE Spawn
  BY <1>6 DEF Spawn, Size
<1>7. CASE ListPipe \/ Started
  BY <1>7 DEF ListPipe, Born, Started
<1>8. CASE SpawnFails
  BY <1>8 DEF SpawnFails
<1>9. CASE AttemptFails
  BY <1>9 DEF AttemptFails, GiveUpAttempt
<1>10. CASE Exhausted
  BY <1>10 DEF Exhausted, CloseBegins, NextBackend
<1>11. CASE EndSession \/ SessionOver
  BY <1>11 DEF EndSession, StopBegins, SessionOver
<1>12. CASE Revoke \/ HandleClosed \/ Fire
  BY <1>12 DEF Revoke, HandleClosed, Fire
<1>13. CASE \E s \in Senders : Exits(s)
  BY <1>13 DEF Exits
<1>14. CASE Interrupted
  BY <1>14 DEF Interrupted
<1>15. CASE CtrlC
  BY <1>15 DEF CtrlC
<1>16. CASE MainStops \/ MainOver
  BY <1>16 DEF MainStops, StopBegins, Registered, MainOver
<1>17. ASSUME NEW t \in Threads, StopSender(t) \/ StopRaises(t) PROVE ThreadsOK'
  BY <1>17 DEF StopSender, StopRaises
<1>18. ASSUME NEW t \in Threads, Clear(t) PROVE ThreadsOK'
  BY <1>18 DEF Clear
<1>19. ASSUME NEW t \in Threads, StopPortal(t) PROVE ThreadsOK'
  BY <1>19 DEF StopPortal, CloseBegins
<1>20. ASSUME NEW t \in Threads, CallClose(t) \/ Disconnect(t) PROVE ThreadsOK'
  BY <1>20 DEF CallClose, Disconnect
<1>21. ASSUME NEW t \in Threads, Forget(t) \/ StopReturns(t) PROVE ThreadsOK'
  BY <1>21 DEF Forget, StopReturns
<1>22. CASE UNCHANGED vars
  BY <1>22 DEF vars
<1> QED  BY <1>1, <1>2, <1>3, <1>4, <1>5, <1>6, <1>7, <1>8, <1>9, <1>10, <1>11, <1>12,
            <1>13, <1>14, <1>15, <1>16, <1>17, <1>18, <1>19, <1>20, <1>21, <1>22 DEF Next,
            StartStep, StopStep

\* No thread is in stop() or in a close that its caller has not entered.
LEMMA ControlStep == IInv /\ [Next]_vars => ControlInv'
<1> SUFFICES ASSUME IInv, [Next]_vars PROVE ControlInv'
  OBVIOUS
<1> USE DEF IInv, Types, StartOK, PortalOK, ThreadsOK, ControlInv, Places, startVars,
        senderVars, portalVars, loopVars, stopVars, mainVars, Threads
<1>1. CASE Begin \/ NotReady \/ Rejected
  BY <1>1 DEF Begin, NotReady, NextBackend, Rejected
<1>2. CASE Shared \/ RemoteOpened
  BY <1>2 DEF Shared, RemoteOpened
<1>3. CASE Opened \/ Assign
  BY <1>3 DEF Opened, Assign
<1>4. CASE OpeningFails
  BY <1>4 DEF OpeningFails, NextBackend
<1>5. CASE Unsupported
  BY <1>5 DEF Unsupported, CloseBegins
<1>6. CASE Spawn
  BY <1>6 DEF Spawn, Size
<1>7. CASE ListPipe \/ Started
  BY <1>7 DEF ListPipe, Born, Started
<1>8. CASE SpawnFails
  BY <1>8 DEF SpawnFails
<1>9. CASE AttemptFails
  BY <1>9 DEF AttemptFails, GiveUpAttempt
<1>10. CASE Exhausted
  BY <1>10 DEF Exhausted, CloseBegins, NextBackend
<1>11. CASE EndSession \/ SessionOver
  BY <1>11 DEF EndSession, StopBegins, SessionOver
<1>12. CASE Revoke \/ HandleClosed \/ Fire
  BY <1>12 DEF Revoke, HandleClosed, Fire
<1>13. CASE \E s \in Senders : Exits(s)
  BY <1>13 DEF Exits
<1>14. CASE CtrlC \/ Interrupted
  BY <1>14 DEF CtrlC, Interrupted
<1>15. CASE MainStops \/ MainOver
  BY <1>15 DEF MainStops, StopBegins, Registered, MainOver
<1>16. ASSUME NEW t \in Threads, StopSender(t) \/ StopRaises(t) PROVE ControlInv'
  BY <1>16 DEF StopSender, StopRaises
<1>17. ASSUME NEW t \in Threads, Clear(t) PROVE ControlInv'
  BY <1>17 DEF Clear
<1>18. ASSUME NEW t \in Threads, StopPortal(t) PROVE ControlInv'
  BY <1>18 DEF StopPortal, CloseBegins
<1>19. ASSUME NEW t \in Threads, CallClose(t) \/ Disconnect(t) PROVE ControlInv'
  BY <1>19 DEF CallClose, Disconnect
<1>20. ASSUME NEW t \in Threads, Forget(t) \/ StopReturns(t) PROVE ControlInv'
  BY <1>20 DEF Forget, StopReturns
<1>21. CASE UNCHANGED vars
  BY <1>21 DEF vars
<1> QED  BY <1>1, <1>2, <1>3, <1>4, <1>5, <1>6, <1>7, <1>8, <1>9, <1>10, <1>11, <1>12,
            <1>13, <1>14, <1>15, <1>16, <1>17, <1>18, <1>19, <1>20, <1>21 DEF Next, StartStep,
            StopStep

\* Nobody touches a portal session before it is stored, and no second one is asked for.
LEMMA FreshStep == IInv /\ [Next]_vars => FreshInv'
<1> SUFFICES ASSUME IInv, [Next]_vars PROVE FreshInv'
  OBVIOUS
<1> USE OnePortal DEF IInv, Types, StartOK, PortalOK, ThreadsOK, ControlInv, FreshInv,
        Opening, Backend, startVars, senderVars, portalVars, loopVars, stopVars, mainVars, Threads
<1>1. CASE Begin \/ NotReady \/ Rejected
  BY <1>1 DEF Begin, NotReady, NextBackend, Rejected
<1>2. CASE Shared \/ RemoteOpened
  BY <1>2 DEF Shared, RemoteOpened
<1>3. CASE Opened \/ Assign
  BY <1>3 DEF Opened, Assign
<1>4. CASE OpeningFails
  BY <1>4 DEF OpeningFails, NextBackend
<1>5. CASE Unsupported
  BY <1>5 DEF Unsupported, CloseBegins
<1>6. CASE Spawn
  BY <1>6 DEF Spawn, Size
<1>7. CASE ListPipe \/ Started
  BY <1>7 DEF ListPipe, Born, Started
<1>8. CASE SpawnFails
  BY <1>8 DEF SpawnFails
<1>9. CASE AttemptFails
  BY <1>9 DEF AttemptFails, GiveUpAttempt
<1>10. CASE Exhausted
  BY <1>10 DEF Exhausted, CloseBegins, NextBackend
<1>11. CASE EndSession \/ SessionOver
  BY <1>11 DEF EndSession, StopBegins, SessionOver
<1>12. CASE Revoke \/ HandleClosed \/ Fire
  BY <1>12 DEF Revoke, HandleClosed, Fire
<1>13. CASE \E s \in Senders : Exits(s)
  BY <1>13 DEF Exits
<1>14. CASE CtrlC \/ Interrupted
  BY <1>14 DEF CtrlC, Interrupted
<1>15. CASE MainOver
  BY <1>15 DEF MainOver
<1>16. CASE MainStops
  BY <1>16 DEF MainStops, StopBegins, Registered
<1>17. ASSUME NEW t \in Threads, StopSender(t) \/ StopRaises(t) PROVE FreshInv'
  BY <1>17 DEF StopSender, StopRaises
<1>18. ASSUME NEW t \in Threads, Clear(t) PROVE FreshInv'
  BY <1>18 DEF Clear
<1>19. ASSUME NEW t \in Threads, StopPortal(t) PROVE FreshInv'
  BY <1>19 DEF StopPortal, CloseBegins
<1>20. ASSUME NEW t \in Threads, CallClose(t) \/ Disconnect(t) PROVE FreshInv'
  BY <1>20 DEF CallClose, Disconnect
<1>21. ASSUME NEW t \in Threads, Forget(t) \/ StopReturns(t) PROVE FreshInv'
  BY <1>21 DEF Forget, StopReturns
<1>22. CASE UNCHANGED vars
  BY <1>22 DEF vars
<1> QED  BY <1>1, <1>2, <1>3, <1>4, <1>5, <1>6, <1>7, <1>8, <1>9, <1>10, <1>11, <1>12,
            <1>13, <1>14, <1>15, <1>16, <1>17, <1>18, <1>19, <1>20, <1>21, <1>22 DEF Next,
            StartStep, StopStep

\* held goes with the session at the portal: whoever forgets it has closed it.
LEMMA ReleasedStep == IInv /\ [Next]_vars => ReleasedInv'
<1> SUFFICES ASSUME IInv, [Next]_vars PROVE ReleasedInv'
  OBVIOUS
<1> USE OnePortal DEF IInv, Types, StartOK, PortalOK, ThreadsOK, ControlInv, FreshInv,
        ReleasedInv, PortalServesItsBackend, Opening, Backend, startVars, senderVars, portalVars,
        loopVars, stopVars, mainVars, Threads
<1>1. CASE Rejected
  BY <1>1 DEF Rejected, NextBackend
<1>2. CASE Begin
  BY <1>2 DEF Begin
<1>3. CASE NotReady
  BY <1>3 DEF NotReady, NextBackend
<1>4. CASE Shared \/ RemoteOpened
  BY <1>4 DEF Shared, RemoteOpened
<1>5. CASE Opened \/ Assign
  BY <1>5 DEF Opened, Assign
<1>6. CASE OpeningFails
  BY <1>6 DEF OpeningFails, NextBackend
<1>7. CASE Unsupported
  BY <1>7 DEF Unsupported, CloseBegins
<1>8. CASE Spawn
  BY <1>8 DEF Spawn, Size
<1>9. CASE ListPipe \/ Started
  BY <1>9 DEF ListPipe, Born, Started
<1>10. CASE SpawnFails
  BY <1>10 DEF SpawnFails
<1>11. CASE AttemptFails
  BY <1>11 DEF AttemptFails, GiveUpAttempt
<1>12. CASE Exhausted
  <2>1. CASE Backend = "portal"
    BY <1>12, <2>1 DEF Exhausted, CloseBegins
  <2>2. CASE Backend # "portal"
    <3>1. held /\ order[n] \notin Portals => \E i \in 1..n : order[i] = "portal-ffmpeg"
      OBVIOUS
    <3>2. held => \E i \in 1..n : order[i] = "portal-ffmpeg"
      BY <2>2, <3>1, BackendTyped DEF Portals, Backends, Pairs
    <3> QED  BY <1>12, <2>2, <3>2 DEF Exhausted, NextBackend
  <2> QED  BY <2>1, <2>2
<1>13. CASE EndSession \/ SessionOver
  BY <1>13 DEF EndSession, StopBegins, SessionOver
<1>14. CASE Revoke \/ HandleClosed \/ Fire
  BY <1>14 DEF Revoke, HandleClosed, Fire
<1>15. CASE \E s \in Senders : Exits(s)
  BY <1>15 DEF Exits
<1>16. CASE CtrlC \/ Interrupted
  BY <1>16 DEF CtrlC, Interrupted
<1>17. CASE MainStops \/ MainOver
  BY <1>17 DEF MainStops, StopBegins, Registered, MainOver
<1>18. ASSUME NEW t \in Threads, StopSender(t) \/ StopRaises(t) PROVE ReleasedInv'
  BY <1>18 DEF StopSender, StopRaises
<1>19. ASSUME NEW t \in Threads, Clear(t) PROVE ReleasedInv'
  BY <1>19 DEF Clear
<1>20. ASSUME NEW t \in Threads, StopPortal(t) PROVE ReleasedInv'
  BY <1>20 DEF StopPortal, CloseBegins
<1>21. ASSUME NEW t \in Threads, CallClose(t) \/ Disconnect(t) PROVE ReleasedInv'
  BY <1>21 DEF CallClose, Disconnect
<1>22. ASSUME NEW t \in Threads, Forget(t) \/ StopReturns(t) PROVE ReleasedInv'
  BY <1>22 DEF Forget, StopReturns
<1>23. CASE UNCHANGED vars
  BY <1>23 DEF vars
<1> QED  BY <1>1, <1>2, <1>3, <1>4, <1>5, <1>6, <1>7, <1>8, <1>9, <1>10, <1>11, <1>12,
            <1>13, <1>14, <1>15, <1>16, <1>17, <1>18, <1>19, <1>20, <1>21, <1>22, <1>23 DEF Next,
            StartStep, StopStep

\* A thread closes the descriptor at most once.
LEMMA ClosesStep == IInv /\ [Next]_vars => ClosesInv'
<1> SUFFICES ASSUME IInv, [Next]_vars PROVE ClosesInv'
  OBVIOUS
<1> USE DEF IInv, Types, StartOK, PortalOK, ThreadsOK, ControlInv, FreshInv, ClosesInv,
        SessionClosed, MainClosed, Opening, startVars, senderVars, portalVars, loopVars, stopVars,
        mainVars, Threads
<1>1. CASE Begin \/ NotReady \/ Rejected
  BY <1>1 DEF Begin, NotReady, NextBackend, Rejected
<1>2. CASE Shared \/ RemoteOpened
  BY <1>2 DEF Shared, RemoteOpened
<1>3. CASE Opened \/ Assign
  BY <1>3 DEF Opened, Assign
<1>4. CASE OpeningFails
  BY <1>4 DEF OpeningFails, NextBackend
<1>5. CASE Unsupported
  BY <1>5 DEF Unsupported, CloseBegins
<1>6. CASE Spawn
  BY <1>6 DEF Spawn, Size
<1>7. CASE ListPipe \/ Started
  BY <1>7 DEF ListPipe, Born, Started
<1>8. CASE SpawnFails
  BY <1>8 DEF SpawnFails
<1>9. CASE AttemptFails
  BY <1>9 DEF AttemptFails, GiveUpAttempt
<1>10. CASE Exhausted
  BY <1>10 DEF Exhausted, CloseBegins, NextBackend
<1>11. CASE EndSession \/ SessionOver
  BY <1>11 DEF EndSession, StopBegins, SessionOver
<1>12. CASE Revoke \/ HandleClosed \/ Fire
  BY <1>12 DEF Revoke, HandleClosed, Fire
<1>13. CASE \E s \in Senders : Exits(s)
  BY <1>13 DEF Exits
<1>14. CASE CtrlC \/ Interrupted
  BY <1>14 DEF CtrlC, Interrupted
<1>15. CASE MainStops \/ MainOver
  BY <1>15 DEF MainStops, StopBegins, Registered, MainOver
<1>16. ASSUME NEW t \in Threads, StopSender(t) \/ StopRaises(t) PROVE ClosesInv'
  BY <1>16 DEF StopSender, StopRaises
<1>17. ASSUME NEW t \in Threads, Clear(t) PROVE ClosesInv'
  BY <1>17 DEF Clear
<1>18. ASSUME NEW t \in Threads, StopPortal(t) PROVE ClosesInv'
  BY <1>18 DEF StopPortal, CloseBegins
<1>19. ASSUME NEW t \in Threads, CallClose(t) \/ Disconnect(t) PROVE ClosesInv'
  BY <1>19 DEF CallClose, Disconnect
<1>20. ASSUME NEW t \in Threads, Forget(t) \/ StopReturns(t) PROVE ClosesInv'
  BY <1>20 DEF Forget, StopReturns
<1>21. CASE UNCHANGED vars
  BY <1>21 DEF vars
<1> QED  BY <1>1, <1>2, <1>3, <1>4, <1>5, <1>6, <1>7, <1>8, <1>9, <1>10, <1>11, <1>12,
            <1>13, <1>14, <1>15, <1>16, <1>17, <1>18, <1>19, <1>20, <1>21 DEF Next, StartStep,
            StopStep

\* The callback is set before any signal that it should not see, or never.
LEMMA SilentStep == IInv /\ [Next]_vars => SilentInv'
<1> SUFFICES ASSUME IInv, [Next]_vars PROVE SilentInv'
  OBVIOUS
<1> USE OnePortal DEF IInv, Types, StartOK, PortalOK, ThreadsOK, ControlInv, FreshInv,
        SilentInv, Opening, Backend, startVars, senderVars, portalVars, loopVars, stopVars,
        mainVars, Threads
<1>1. CASE Begin \/ NotReady \/ Rejected
  BY <1>1 DEF Begin, NotReady, NextBackend, Rejected
<1>2. CASE Shared \/ RemoteOpened
  BY <1>2 DEF Shared, RemoteOpened
<1>3. CASE Opened \/ Assign
  BY <1>3 DEF Opened, Assign
<1>4. CASE OpeningFails
  BY <1>4 DEF OpeningFails, NextBackend
<1>5. CASE Unsupported
  BY <1>5 DEF Unsupported, CloseBegins
<1>6. CASE Spawn
  BY <1>6 DEF Spawn, Size
<1>7. CASE ListPipe \/ Started
  BY <1>7 DEF ListPipe, Born, Started
<1>8. CASE SpawnFails
  BY <1>8 DEF SpawnFails
<1>9. CASE AttemptFails
  BY <1>9 DEF AttemptFails, GiveUpAttempt
<1>10. CASE Exhausted
  BY <1>10 DEF Exhausted, CloseBegins, NextBackend
<1>11. CASE EndSession \/ SessionOver
  BY <1>11 DEF EndSession, StopBegins, SessionOver
<1>12. CASE Revoke \/ HandleClosed \/ Fire
  BY <1>12 DEF Revoke, HandleClosed, Fire
<1>13. CASE \E s \in Senders : Exits(s)
  BY <1>13 DEF Exits
<1>14. CASE CtrlC \/ Interrupted
  BY <1>14 DEF CtrlC, Interrupted
<1>15. CASE MainStops \/ MainOver
  BY <1>15 DEF MainStops, StopBegins, Registered, MainOver
<1>16. ASSUME NEW t \in Threads, StopSender(t) \/ StopRaises(t) PROVE SilentInv'
  BY <1>16 DEF StopSender, StopRaises
<1>17. ASSUME NEW t \in Threads, Clear(t) PROVE SilentInv'
  BY <1>17 DEF Clear
<1>18. ASSUME NEW t \in Threads, StopPortal(t) PROVE SilentInv'
  BY <1>18 DEF StopPortal, CloseBegins
<1>19. ASSUME NEW t \in Threads, CallClose(t) \/ Disconnect(t) PROVE SilentInv'
  BY <1>19 DEF CallClose, Disconnect
<1>20. ASSUME NEW t \in Threads, Forget(t) \/ StopReturns(t) PROVE SilentInv'
  BY <1>20 DEF Forget, StopReturns
<1>21. CASE UNCHANGED vars
  BY <1>21 DEF vars
<1> QED  BY <1>1, <1>2, <1>3, <1>4, <1>5, <1>6, <1>7, <1>8, <1>9, <1>10, <1>11, <1>12,
            <1>13, <1>14, <1>15, <1>16, <1>17, <1>18, <1>19, <1>20, <1>21 DEF Next, StartStep,
            StopStep

\* An attempt that is given up leaves nothing running.
LEMMA SendersStep == IInv /\ [Next]_vars => SendersInv'
<1> SUFFICES ASSUME IInv, [Next]_vars PROVE SendersInv'
  OBVIOUS
<1> USE BoundsTyped DEF IInv, Types, StartOK, SendersOK, ThreadsOK, SendersInv, Senders,
        Running, Between, Of, Backend, startVars, senderVars, portalVars, loopVars, stopVars,
        mainVars, Threads
<1>1. CASE Begin \/ NotReady \/ Rejected
  BY <1>1 DEF Begin, NotReady, NextBackend, Rejected
<1>2. CASE Shared \/ RemoteOpened
  BY <1>2 DEF Shared, RemoteOpened
<1>3. CASE Opened \/ Assign
  BY <1>3 DEF Opened, Assign
<1>4. CASE OpeningFails
  BY <1>4 DEF OpeningFails, NextBackend
<1>5. CASE Unsupported
  BY <1>5 DEF Unsupported, CloseBegins
<1>6. CASE Spawn
  BY <1>6 DEF Spawn, Size
<1>7. CASE ListPipe \/ Started
  BY <1>7 DEF ListPipe, Born, Started
<1>8. CASE SpawnFails
  <2> QED BY <1>8 DEF SpawnFails
<1>9. CASE AttemptFails
  BY <1>9 DEF AttemptFails, GiveUpAttempt
<1>10. CASE Exhausted
  BY <1>10 DEF Exhausted, CloseBegins, NextBackend
<1>11. CASE EndSession \/ SessionOver
  BY <1>11 DEF EndSession, StopBegins, SessionOver
<1>12. CASE Revoke \/ HandleClosed \/ Fire
  BY <1>12 DEF Revoke, HandleClosed, Fire
<1>13. CASE \E s \in Senders : Exits(s)
  BY <1>13 DEF Exits
<1>14. CASE CtrlC \/ Interrupted
  BY <1>14 DEF CtrlC, Interrupted
<1>15. CASE MainStops \/ MainOver
  BY <1>15 DEF MainStops, StopBegins, Registered, MainOver
<1>16. ASSUME NEW t \in Threads, StopSender(t) \/ StopRaises(t) PROVE SendersInv'
  BY <1>16 DEF StopSender, StopRaises
<1>17. ASSUME NEW t \in Threads, Clear(t) PROVE SendersInv'
  BY <1>17 DEF Clear
<1>18. ASSUME NEW t \in Threads, StopPortal(t) PROVE SendersInv'
  BY <1>18 DEF StopPortal, CloseBegins
<1>19. ASSUME NEW t \in Threads, CallClose(t) \/ Disconnect(t) PROVE SendersInv'
  BY <1>19 DEF CallClose, Disconnect
<1>20. ASSUME NEW t \in Threads, Forget(t) \/ StopReturns(t) PROVE SendersInv'
  BY <1>20 DEF Forget, StopReturns
<1>21. CASE UNCHANGED vars
  BY <1>21 DEF vars
<1> QED  BY <1>1, <1>2, <1>3, <1>4, <1>5, <1>6, <1>7, <1>8, <1>9, <1>10, <1>11, <1>12,
            <1>13, <1>14, <1>15, <1>16, <1>17, <1>18, <1>19, <1>20, <1>21 DEF Next, StartStep,
            StopStep

\* What the session's thread has listed or left is all that runs.
LEMMA OwnStopStep == IInv /\ [Next]_vars => OwnStopInv'
<1> SUFFICES ASSUME IInv, [Next]_vars PROVE OwnStopInv'
  OBVIOUS
<1> USE DEF IInv, Types, StartOK, SendersOK, ThreadsOK, ControlInv, SendersInv,
        OwnStopInv, Senders, Running, Between, Of, Backend, Orphans, startVars, senderVars,
        portalVars, loopVars, stopVars, mainVars, Threads
<1>1. CASE Begin \/ NotReady \/ Rejected
  BY <1>1 DEF Begin, NotReady, NextBackend, Rejected
<1>2. CASE Shared \/ RemoteOpened
  BY <1>2 DEF Shared, RemoteOpened
<1>3. CASE Opened \/ Assign
  BY <1>3 DEF Opened, Assign
<1>4. CASE OpeningFails
  BY <1>4 DEF OpeningFails, NextBackend
<1>5. CASE Unsupported
  BY <1>5 DEF Unsupported, CloseBegins
<1>6. CASE Spawn
  BY <1>6 DEF Spawn, Size
<1>7. CASE ListPipe \/ Started
  BY <1>7 DEF ListPipe, Born, Started
<1>8. CASE SpawnFails
  BY <1>8 DEF SpawnFails
<1>9. CASE AttemptFails
  BY <1>9 DEF AttemptFails, GiveUpAttempt
<1>10. CASE Exhausted
  BY <1>10 DEF Exhausted, CloseBegins, NextBackend
<1>11. CASE EndSession \/ SessionOver
  BY <1>11 DEF EndSession, StopBegins, SessionOver
<1>12. CASE Revoke \/ HandleClosed \/ Fire
  BY <1>12 DEF Revoke, HandleClosed, Fire
<1>13. CASE \E s \in Senders : Exits(s)
  BY <1>13 DEF Exits
<1>14. CASE CtrlC \/ Interrupted
  BY <1>14 DEF CtrlC, Interrupted
<1>15. CASE MainStops \/ MainOver
  BY <1>15 DEF MainStops, StopBegins, Registered, MainOver
<1>16. ASSUME NEW t \in Threads, StopSender(t) \/ StopRaises(t) PROVE OwnStopInv'
  BY <1>16 DEF StopSender, StopRaises
<1>17. ASSUME NEW t \in Threads, Clear(t) PROVE OwnStopInv'
  BY <1>17 DEF Clear
<1>18. ASSUME NEW t \in Threads, StopPortal(t) PROVE OwnStopInv'
  BY <1>18 DEF StopPortal, CloseBegins
<1>19. ASSUME NEW t \in Threads, CallClose(t) \/ Disconnect(t) PROVE OwnStopInv'
  BY <1>19 DEF CallClose, Disconnect
<1>20. ASSUME NEW t \in Threads, Forget(t) \/ StopReturns(t) PROVE OwnStopInv'
  BY <1>20 DEF Forget, StopReturns
<1>21. CASE UNCHANGED vars
  BY <1>21 DEF vars
<1> QED  BY <1>1, <1>2, <1>3, <1>4, <1>5, <1>6, <1>7, <1>8, <1>9, <1>10, <1>11, <1>12,
            <1>13, <1>14, <1>15, <1>16, <1>17, <1>18, <1>19, <1>20, <1>21 DEF Next, StartStep,
            StopStep

\* Neither thread's clear() takes a living sender from the other's list.
LEMMA MainStopStep == IInv /\ [Next]_vars => MainStopInv'
<1> SUFFICES ASSUME IInv, [Next]_vars PROVE MainStopInv'
  OBVIOUS
<1> USE DEF IInv, Types, StartOK, SendersOK, ThreadsOK, ControlInv, SendersInv,
        OwnStopInv, MainStopInv, Senders, Running, Between, Of, Backend, startVars, senderVars,
        portalVars, loopVars, stopVars, mainVars, Threads
<1>1. CASE Begin \/ NotReady \/ Rejected
  BY <1>1 DEF Begin, NotReady, NextBackend, Rejected
<1>2. CASE Shared \/ RemoteOpened
  BY <1>2 DEF Shared, RemoteOpened
<1>3. CASE Opened \/ Assign
  BY <1>3 DEF Opened, Assign
<1>4. CASE OpeningFails
  BY <1>4 DEF OpeningFails, NextBackend
<1>5. CASE Unsupported
  BY <1>5 DEF Unsupported, CloseBegins
<1>6. CASE Spawn
  BY <1>6 DEF Spawn, Size
<1>7. CASE ListPipe \/ Started
  BY <1>7 DEF ListPipe, Born, Started
<1>8. CASE SpawnFails
  BY <1>8 DEF SpawnFails
<1>9. CASE AttemptFails
  BY <1>9 DEF AttemptFails, GiveUpAttempt
<1>10. CASE Exhausted
  BY <1>10 DEF Exhausted, CloseBegins, NextBackend
<1>11. CASE SessionOver
  BY <1>11 DEF SessionOver
<1>12. CASE EndSession
  BY <1>12 DEF EndSession, StopBegins
<1>13. CASE Revoke \/ HandleClosed \/ Fire
  BY <1>13 DEF Revoke, HandleClosed, Fire
<1>14. CASE \E s \in Senders : Exits(s)
  BY <1>14 DEF Exits
<1>15. CASE Interrupted
  BY <1>15 DEF Interrupted
<1>16. CASE CtrlC
  BY <1>16 DEF CtrlC
<1>17. CASE MainOver
  BY <1>17 DEF MainOver
<1>18. CASE MainStops
  BY <1>18 DEF MainStops, StopBegins, Registered
<1>19. ASSUME NEW t \in Threads, StopRaises(t) PROVE MainStopInv'
  BY <1>19 DEF StopRaises
<1>20. ASSUME NEW t \in Threads, StopSender(t) PROVE MainStopInv'
  BY <1>20 DEF StopSender
<1>21. ASSUME NEW t \in Threads, Clear(t) PROVE MainStopInv'
  BY <1>21 DEF Clear
<1>22. ASSUME NEW t \in Threads, StopPortal(t) PROVE MainStopInv'
  BY <1>22 DEF StopPortal, CloseBegins
<1>23. ASSUME NEW t \in Threads, CallClose(t) \/ Disconnect(t) PROVE MainStopInv'
  BY <1>23 DEF CallClose, Disconnect
<1>24. ASSUME NEW t \in Threads, StopReturns(t) PROVE MainStopInv'
  BY <1>24 DEF StopReturns
<1>25. ASSUME NEW t \in Threads, Forget(t) PROVE MainStopInv'
  BY <1>25 DEF Forget
<1>26. CASE UNCHANGED vars
  BY <1>26 DEF vars
<1> QED  BY <1>1, <1>2, <1>3, <1>4, <1>5, <1>6, <1>7, <1>8, <1>9, <1>10, <1>11, <1>12,
            <1>13, <1>14, <1>15, <1>16, <1>17, <1>18, <1>19, <1>20, <1>21, <1>22, <1>23, <1>24,
            <1>25, <1>26 DEF Next, StartStep, StopStep

-----------------------------------------------------------------------------
\* A pipeline that has not been started satisfies every part of the invariant.
LEMMA InitInv == Init => IInv
<1> SUFFICES ASSUME Init PROVE IInv
  OBVIOUS
<1>1. StartOK
  <2>1. order \in Seq(Backends) /\ order # <<>>
    BY PipelineAssumption DEF Init
  <2>2. Len(order) \in Nat /\ Len(order) > 0
    BY <2>1
  <2> QED  BY <2>2, BoundsTyped DEF Init, StartOK, Places
<1>2. SendersOK /\ PortalOK /\ ThreadsOK
  <2>1. SendersOK /\ PortalOK
    BY DEF Init, SendersOK, PortalOK
  <2>2. ctrlc \in 0..MaxCtrlC
    BY BoundsTyped DEF Init
  <2> QED  BY <2>1, <2>2 DEF Init, ThreadsOK
<1>3. ControlInv /\ FreshInv /\ ReleasedInv /\ ClosesInv /\ SilentInv
  BY DEF Init, ControlInv, FreshInv, ReleasedInv, ClosesInv, SilentInv, SessionClosed, MainClosed,
         PortalServesItsBackend, Opening, Threads
<1>4. SendersInv /\ OwnStopInv /\ MainStopInv
  BY DEF Init, SendersInv, OwnStopInv, MainStopInv, Running, Between, Threads
<1> QED  BY <1>1, <1>2, <1>3, <1>4 DEF IInv, Types

\* The invariant is inductive.
THEOREM InductiveInvariant == Spec => []IInv
<1>1. IInv /\ [Next]_vars => IInv'
  BY StartTyped, SendersTyped, PortalTyped, ThreadsTyped, ControlStep, FreshStep, ReleasedStep,
     ClosesStep, SilentStep, SendersStep, OwnStopStep, MainStopStep DEF IInv, Types
<1>2. QED  BY InitInv, <1>1, PTL DEF Spec

\* Each variable keeps its type; a descriptor is closed at most twice.
THEOREM TypeOKHolds == Spec => []TypeOK
<1>1. IInv => TypeOK
  <2> SUFFICES ASSUME IInv PROVE TypeOK
    OBVIOUS
  <2>1. closes \in 0..2
    BY DEF IInv, Types, PortalOK, ClosesInv
  <2> QED  BY <2>1 DEF IInv, Types, StartOK, SendersOK, PortalOK, ThreadsOK, TypeOK
<1>2. QED  BY InductiveInvariant, <1>1, PTL

\* However often start() falls back, and whoever stops it meanwhile, the senders
\* that run are those of one attempt.
THEOREM OneCaptureHolds == Spec => []OneCapture
<1>1. IInv => OneCapture
  BY DEF IInv, SendersInv, OneCapture, Of
<1>2. QED  BY InductiveInvariant, <1>1, PTL

\* stop() leaves no sender behind, neither in the session's own thread without an
\* interrupt nor in the main thread that saw the pipeline stream.
THEOREM NoSenderSurvivesHolds == Spec => []NoSenderSurvives
<1>1. IInv => NoSenderSurvives
  <2> SUFFICES ASSUME IInv PROVE NoSenderSurvives
    OBVIOUS
  <2>1. SessionStopsAll
    BY DEF IInv, ControlInv, OwnStopInv, SessionStopsAll
  <2>2. InterruptStopsAll
    BY DEF IInv, MainStopInv, InterruptStopsAll
  <2> QED  BY <2>1, <2>2 DEF NoSenderSurvives
<1>2. QED  BY InductiveInvariant, <1>1, PTL

\* Without an interrupt the portal session and its descriptor are closed, once.
THEOREM PortalReleasedOnceHolds == Spec => []PortalReleasedOnce
<1>1. IInv => PortalReleasedOnce
  <2> SUFFICES ASSUME IInv PROVE PortalReleasedOnce
    OBVIOUS
  <2>1. main = "waits" => closes <= 1
    BY DEF IInv, Types, PortalOK, ClosesInv, MainClosed
  <2>2. stop["session"] = "done" => portal # "open" /\ fd # "open" /\ ~held
    <3> SUFFICES ASSUME stop["session"] = "done"
                 PROVE  portal # "open" /\ fd # "open" /\ ~held
      OBVIOUS
    <3>1. pc \in {"stopping", "over"} /\ close["session"] = "no"
      BY DEF IInv, Types, ThreadsOK, Threads, ControlInv
    <3> QED  BY <3>1 DEF IInv, ReleasedInv, Opening
  <2> QED  BY <2>1, <2>2 DEF IInv, ReleasedInv, PortalReleasedOnce
<1>2. QED  BY InductiveInvariant, <1>1, PTL

\* Without an interrupt of the user's our own Close never ends the cast.
THEOREM OwnCloseSilentHolds == Spec => []OwnCloseSilent
<1>1. IInv => OwnCloseSilent
  BY DEF IInv, Types, ThreadsOK, SilentInv, OwnCloseSilent
<1>2. QED  BY InductiveInvariant, <1>1, PTL
=============================================================================
