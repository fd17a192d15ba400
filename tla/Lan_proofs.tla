----------------------------- MODULE Lan_proofs -----------------------------
(***************************************************************************)
(* Theorems about the two programs of a cast over the LAN: the command     *)
(* line's (LanCast), for any kinds of session, protocols and number of     *)
(* signals, and the tray's (TrayCast), for any number of casts, scans and  *)
(* choices and any lists of monitors.                                      *)
(***************************************************************************)
EXTENDS LanCast, TrayCast, TLAPS

-----------------------------------------------------------------------------
(* The command line.                                                       *)

\* Where the thread is, or was before shutdown() or an error cut it off.  Nearly
\* everything the properties speak of is a function of it.
Where == IF at \in Main THEN at ELSE cut
Choosing == {"monitor", "try", "dialog"}
Serving == {"serving", "discover", "allow", "send", "paused"}

Typing ==
  /\ at \in Main \cup Shutdown \cup Ends
  /\ cut \in Main \cup {None} /\ (at \in Main) = (cut = None)
  /\ choice \in [protocol : Protocols, order : Seq(BackEnds)]
  /\ tried \in 0..Len(choice.order) /\ procs \subseteq BackEnds /\ portal \in 0..1
  /\ at \in Choosing \cup {"settle"} => tried < Len(choice.order)
  /\ server \in {None, "made", "bound", "serving", "stopped", "closed"}
  /\ signals \in Nat

CaptureInv ==
  /\ OneCapture
  /\ Where \in Choosing => procs = {} /\ portal = 0
  /\ Where \in Choosing \cup {"settle"} => capture = None
  /\ at = "settle" /\ Candidate = "portal" => portal = 1
  /\ Where \notin Choosing \cup {"settle"} => capture = Candidate /\ capture # None

ServerInv ==
  /\ Where \in Choosing \cup {"settle", "captured"} => server = None
  /\ Where \in {"resetting", "bind"} => server = "made"
  /\ Where = "bound" => server = "bound"
  /\ Where \in Serving => server \in {"serving", "stopped", "closed"}

\* shutdown() has got past the server, past the capture's processes, past the portal.
TornDownInv ==
  /\ at = "close" => server = "stopped"
  /\ at \in {"reset", "clearing"} => server # None
  /\ at \in {"reset", "clearing", "capture", "waiting", "portal", "exit", "exited"} =>
       server \in {None, "made", "closed"}
  /\ at \in {"portal", "exit", "exited"} => capture \notin procs
  /\ at \in {"exit", "exited"} /\ capture = "portal" => portal = 0

\* The lock is held by a frame that goes on, or by one below a signal.
LockInv ==
  /\ at \in Shutdown => signals > 0 \/ cut \in {"monitor", "bind", "serving"}
  /\ lock => \/ Where = "resetting" \/ at = "clearing"
             \/ signals > 1 \/ (signals = 1 /\ cut \in {"bind", "serving"})

TelevisionInv ==
  /\ told => Where \in {"send", "paused"}
  /\ Where \in {"allow", "send", "paused"} => tv = "tv"
  /\ Where \in {"send", "paused"} => allowed = tv

IInv == /\ Typing /\ CaptureInv /\ ServerInv /\ TornDownInv /\ LockInv /\ TelevisionInv
        /\ HangsOnlyThere /\ FailureLeavesCapture

\* While back ends are left to try, the next is one of them.
LEMMA CandidateTyped ==
  ASSUME Typing, tried < Len(choice.order) PROVE Candidate \in BackEnds
BY DEF Typing, Candidate

\* Each action keeps the types, and a back end is tried only while one is left.
LEMMA TypingStep == IInv /\ [Next]_vars => Typing'
<1> SUFFICES ASSUME IInv, [Next]_vars PROVE Typing'
  OBVIOUS
<1> USE DEF IInv, Typing, captureVars, tvVars, Main, Shutdown, Ends, None, Choosing,
   CaptureInv, OneCapture, Where, BackEnds
<1>1. CASE ChooseMonitor \/ Unavailable \/ BadOption \/ OpenDialog
  <2>1. CASE ChooseMonitor
    BY <2>1 DEF ChooseMonitor, Goes, ShutsDown, Fails
  <2>2. CASE Unavailable
    BY <2>2 DEF Unavailable, PassedOver, Goes, ShutsDown, Fails
  <2>3. CASE BadOption
    BY <2>3 DEF BadOption, Goes, ShutsDown, Fails
  <2>4. CASE OpenDialog
    BY <2>4 DEF OpenDialog, Goes, ShutsDown, Fails
  <2>5. QED  BY <1>1, <2>1, <2>2, <2>3, <2>4
<1>2. CASE Spawn
  <2>1. Candidate \in BackEnds
    BY CandidateTyped, <1>2 DEF Spawn, Goes
  <2>2. portal = 0
    BY <1>2 DEF Spawn, Goes
  <2>3. procs' \subseteq BackEnds /\ portal' \in 0..1
    BY <1>2, <2>1, <2>2 DEF Spawn
  <2>4. QED  BY <1>2, <2>3 DEF Spawn, Goes
<1>3. CASE Settle
  <2>1. Candidate \in BackEnds /\ tried < Len(choice.order)
    BY CandidateTyped, <1>3 DEF Settle, Goes, PassedOver, Fails
  <2>2. CASE Candidate \in procs /\ Goes("settle", "captured")
    BY <1>3, <2>1, <2>2 DEF Settle, Goes
  <2>3. CASE PassedOver("settle")
    <3>1. portal' \in 0..1
      BY <1>3, <2>1, <2>3 DEF Settle, PassedOver, Goes, Fails
    <3>2. QED  BY <1>3, <2>1, <2>3, <3>1 DEF Settle, PassedOver, Goes, Fails
  <2>4. QED  BY <1>3, <2>2, <2>3 DEF Settle
<1>4. CASE Construct \/ ResetDone \/ Bind \/ StartThread
  <2>1. CASE Construct
    BY <2>1 DEF Construct, Goes, ShutsDown, Fails
  <2>2. CASE ResetDone
    BY <2>2 DEF ResetDone, Goes, ShutsDown, Fails
  <2>3. CASE Bind
    BY <2>3 DEF Bind, Goes, ShutsDown, Fails
  <2>4. CASE StartThread
    BY <2>4 DEF StartThread, Goes, ShutsDown, Fails
  <2>5. QED  BY <1>4, <2>1, <2>2, <2>3, <2>4
<1>5. CASE _wait_for_hls_segments \/ Discover \/ allow_client
  <2>1. CASE _wait_for_hls_segments
    BY <2>1 DEF _wait_for_hls_segments, Goes, ShutsDown, Fails
  <2>2. CASE Discover
    BY <2>2 DEF Discover, Goes, ShutsDown, Fails
  <2>3. CASE allow_client
    BY <2>3 DEF allow_client, Goes, ShutsDown, Fails
  <2>4. QED  BY <1>5, <2>1, <2>2, <2>3
<1>6. CASE start_cast
  <2>1. /\ UNCHANGED <<captureVars, server, signals>>
        /\ (Goes("send", "paused") /\ UNCHANGED cut) \/ Fails("send")
    BY <1>6 DEF start_cast
  <2>2. QED  BY <2>1 DEF Goes, Fails
<1>7. CASE stop_cast \/ StopServer \/ CloseServer \/ Reset \/ Cleared
  <2>1. CASE stop_cast
    BY <2>1 DEF stop_cast, Goes, ShutsDown, Fails
  <2>2. CASE StopServer
    BY <2>2 DEF StopServer, Goes, ShutsDown, Fails
  <2>3. CASE CloseServer
    BY <2>3 DEF CloseServer, Goes, ShutsDown, Fails
  <2>4. CASE Reset
    BY <2>4 DEF Reset, Goes, ShutsDown, Fails
  <2>5. CASE Cleared
    BY <2>5 DEF Cleared, Goes, ShutsDown, Fails
  <2>6. QED  BY <1>7, <2>1, <2>2, <2>3, <2>4, <2>5
<1>8. CASE Terminate \/ WaitOrKill \/ ClosePortal \/ Exit
  <2>1. CASE Terminate
    BY <2>1 DEF Terminate, Goes, ShutsDown, Fails
  <2>2. CASE WaitOrKill
    BY <2>2 DEF WaitOrKill, Goes, ShutsDown, Fails
  <2>3. CASE ClosePortal
    BY <2>3 DEF ClosePortal, Goes, ShutsDown, Fails
  <2>4. CASE Exit
    BY <2>4 DEF Exit, Goes, ShutsDown, Fails
  <2>5. QED  BY <1>8, <2>1, <2>2, <2>3, <2>4
<1>9. CASE Signal
  BY <1>9 DEF Signal
<1>10. ASSUME NEW b \in BackEnds, Dies(b) PROVE Typing'
  BY <1>10 DEF Dies
<1>11. CASE UNCHANGED vars
  BY <1>11 DEF vars
<1>12. QED  BY <1>1, <1>2, <1>3, <1>4, <1>5, <1>6, <1>7, <1>8, <1>9, <1>10, <1>11 DEF Next,
   MainStep, ShutdownStep

\* The capture in every place: none while choosing, then the one that was spawned.
LEMMA CaptureStep == IInv /\ [Next]_vars => CaptureInv'
<1> SUFFICES ASSUME IInv, [Next]_vars PROVE CaptureInv'
  OBVIOUS
<1> USE DEF IInv, Typing, CaptureInv, OneCapture, Where, Choosing, Candidate, BackEnds,
   captureVars, tvVars, Main, Shutdown, Ends, None
<1>1. CASE ChooseMonitor
  BY <1>1 DEF ChooseMonitor, Goes, ShutsDown, Fails
<1>2. CASE Unavailable
  BY <1>2 DEF Unavailable, Goes, ShutsDown, Fails, PassedOver
<1>3. CASE BadOption
  BY <1>3 DEF BadOption, Goes, ShutsDown, Fails
<1>4. CASE OpenDialog
  BY <1>4 DEF OpenDialog, Goes, ShutsDown, Fails
<1>5. CASE Spawn
  <2>1. Candidate' = Candidate
    BY <1>5 DEF Spawn
  <2> HIDE DEF Candidate
  <2>2. procs = {} /\ portal = 0 /\ capture = None
    BY <1>5 DEF Spawn, Goes
  <2>3. QED  BY <1>5, <2>1, <2>2 DEF Spawn, Goes
<1>6. CASE Settle
  <2> HIDE DEF Candidate
  <2>1. Candidate \in BackEnds
    BY CandidateTyped, <1>6 DEF Settle, Goes, PassedOver, Fails
  <2>2. CASE Candidate \in procs /\ Goes("settle", "captured")
    <3>1. Candidate' = Candidate /\ capture' = Candidate /\ portal' = portal
      BY <1>6, <2>2 DEF Settle, Candidate, PassedOver, Goes, Fails
    <3>2. QED  BY <1>6, <2>1, <2>2, <3>1 DEF Settle, Goes
  <2>3. CASE Candidate \notin procs /\ PassedOver("settle")
    <3>1. procs' = {} /\ portal' = 0 /\ capture' = None
      BY <1>6, <2>1, <2>3 DEF Settle, PassedOver, Goes, Fails
    <3>2. QED  BY <2>3, <3>1 DEF PassedOver, Goes, Fails
  <2>4. QED  BY <1>6, <2>2, <2>3 DEF Settle
<1>7. CASE Construct \/ ResetDone \/ Bind \/ StartThread
  BY <1>7 DEF Construct, ResetDone, Bind, StartThread, Goes, ShutsDown, Fails
<1>8. CASE _wait_for_hls_segments \/ Discover \/ allow_client \/ start_cast
  BY <1>8 DEF _wait_for_hls_segments, Discover, allow_client, start_cast, Goes, ShutsDown,
     Fails
<1>9. CASE stop_cast \/ StopServer \/ CloseServer \/ Reset \/ Cleared
  <2>1. CASE stop_cast
    BY <2>1 DEF stop_cast, Goes, ShutsDown, Fails
  <2>2. CASE StopServer
    BY <2>2 DEF StopServer, Goes, ShutsDown, Fails
  <2>3. CASE CloseServer
    BY <2>3 DEF CloseServer, Goes, ShutsDown, Fails
  <2>4. CASE Reset
    BY <2>4 DEF Reset, Goes, ShutsDown, Fails
  <2>5. CASE Cleared
    BY <2>5 DEF Cleared, Goes, ShutsDown, Fails
  <2>6. QED  BY <1>9, <2>1, <2>2, <2>3, <2>4, <2>5
<1>10. CASE Terminate \/ WaitOrKill \/ ClosePortal \/ Exit
  BY <1>10 DEF Terminate, WaitOrKill, ClosePortal, Exit, Goes, ShutsDown, Fails
<1>11. CASE Signal
  BY <1>11 DEF Signal
<1>12. ASSUME NEW b \in BackEnds, Dies(b) PROVE CaptureInv'
  BY <1>12 DEF Dies
<1>13. CASE UNCHANGED vars
  BY <1>13 DEF vars
<1>14. QED  BY <1>1, <1>2, <1>3, <1>4, <1>5, <1>6, <1>7, <1>8, <1>9, <1>10, <1>11, <1>12,
   <1>13 DEF Next, MainStep, ShutdownStep

\* The server in every place: none, made, bound, serving, and then only stopped.
LEMMA ServerStep == IInv /\ [Next]_vars => ServerInv'
<1> SUFFICES ASSUME IInv, [Next]_vars PROVE ServerInv'
  OBVIOUS
<1> USE DEF IInv, Typing, ServerInv, TornDownInv, Where, Choosing, Serving, captureVars,
   tvVars, Main, Shutdown, Ends, None
<1>1. CASE ChooseMonitor \/ Unavailable \/ BadOption \/ OpenDialog \/ Spawn \/ Settle
  BY <1>1 DEF ChooseMonitor, Unavailable, BadOption, OpenDialog, Spawn, Settle, PassedOver,
     Goes, ShutsDown, Fails
<1>2. CASE Construct \/ ResetDone \/ Bind \/ StartThread
  BY <1>2 DEF Construct, ResetDone, Bind, StartThread, Goes, ShutsDown, Fails
<1>3. CASE _wait_for_hls_segments \/ Discover \/ allow_client \/ start_cast
  BY <1>3 DEF _wait_for_hls_segments, Discover, allow_client, start_cast, Goes, ShutsDown,
     Fails
<1>4. CASE stop_cast \/ StopServer \/ CloseServer \/ Reset \/ Cleared
  BY <1>4 DEF stop_cast, StopServer, CloseServer, Reset, Cleared, Goes
<1>5. CASE Terminate \/ WaitOrKill \/ ClosePortal \/ Exit
  BY <1>5 DEF Terminate, WaitOrKill, ClosePortal, Exit, Goes
<1>6. CASE Signal
  BY <1>6 DEF Signal
<1>7. ASSUME NEW b \in BackEnds, Dies(b) PROVE ServerInv'
  BY <1>7 DEF Dies
<1>8. CASE UNCHANGED vars
  BY <1>8 DEF vars
<1>9. QED  BY <1>1, <1>2, <1>3, <1>4, <1>5, <1>6, <1>7, <1>8 DEF Next, MainStep, ShutdownStep

\* What shutdown() has got past is released.
LEMMA TornDownStep == IInv /\ [Next]_vars => TornDownInv'
<1> SUFFICES ASSUME IInv, [Next]_vars PROVE TornDownInv'
  OBVIOUS
<1> USE DEF IInv, Typing, TornDownInv, ServerInv, CaptureInv, OneCapture, Where, Choosing,
   Serving, captureVars, tvVars, Main, Shutdown, Ends, None
<1>1. CASE ChooseMonitor \/ Unavailable \/ BadOption \/ OpenDialog \/ Spawn \/ Settle
  BY <1>1 DEF ChooseMonitor, Unavailable, BadOption, OpenDialog, Spawn, Settle, PassedOver,
     Goes, ShutsDown, Fails
<1>2. CASE Construct \/ ResetDone \/ Bind \/ StartThread
  BY <1>2 DEF Construct, ResetDone, Bind, StartThread, Goes, ShutsDown, Fails
<1>3. CASE _wait_for_hls_segments \/ Discover \/ allow_client \/ start_cast
  BY <1>3 DEF _wait_for_hls_segments, Discover, allow_client, start_cast, Goes, ShutsDown,
     Fails
<1>4. CASE stop_cast \/ StopServer \/ CloseServer \/ Reset \/ Cleared
  BY <1>4 DEF stop_cast, StopServer, CloseServer, Reset, Cleared, Goes
<1>5. CASE Terminate \/ WaitOrKill \/ ClosePortal \/ Exit
  BY <1>5 DEF Terminate, WaitOrKill, ClosePortal, Exit, Goes
<1>6. CASE Signal
  BY <1>6 DEF Signal
<1>7. ASSUME NEW b \in BackEnds, Dies(b) PROVE TornDownInv'
  BY <1>7 DEF Dies
<1>8. CASE UNCHANGED vars
  BY <1>8 DEF vars
<1>9. QED  BY <1>1, <1>2, <1>3, <1>4, <1>5, <1>6, <1>7, <1>8 DEF Next, MainStep, ShutdownStep

\* Who is to blame when the lock is held.
LEMMA LockStep == IInv /\ [Next]_vars => LockInv'
<1> SUFFICES ASSUME IInv, [Next]_vars PROVE LockInv'
  OBVIOUS
<1> USE DEF IInv, Typing, LockInv, TornDownInv, ServerInv, Where, Choosing, Serving,
   captureVars, tvVars, Main, Shutdown, Ends, None
<1>1. CASE ChooseMonitor \/ Unavailable \/ BadOption \/ OpenDialog \/ Spawn \/ Settle
  BY <1>1 DEF ChooseMonitor, Unavailable, BadOption, OpenDialog, Spawn, Settle, PassedOver,
     Goes, ShutsDown, Fails
<1>2. CASE Construct \/ ResetDone \/ Bind \/ StartThread
  BY <1>2 DEF Construct, ResetDone, Bind, StartThread, Goes, ShutsDown, Fails
<1>3. CASE _wait_for_hls_segments \/ Discover \/ allow_client \/ start_cast
  <2>1. CASE _wait_for_hls_segments
    BY <2>1 DEF _wait_for_hls_segments, Goes, ShutsDown, Fails
  <2>2. CASE Discover
    BY <2>2 DEF Discover, Goes, ShutsDown, Fails
  <2>3. CASE allow_client
    BY <2>3 DEF allow_client, Goes, ShutsDown, Fails
  <2>4. CASE start_cast
    BY <2>4 DEF start_cast, Goes, ShutsDown, Fails
  <2>5. QED  BY <1>3, <2>1, <2>2, <2>3, <2>4
<1>4. CASE stop_cast \/ StopServer \/ CloseServer \/ Reset \/ Cleared
  <2>1. CASE stop_cast
    BY <2>1 DEF stop_cast, Goes
  <2>2. CASE StopServer \/ CloseServer
    BY <2>2 DEF StopServer, CloseServer, Goes
  <2>3. CASE Reset \/ Cleared
    BY <2>3 DEF Reset, Cleared, Goes
  <2>4. QED  BY <1>4, <2>1, <2>2, <2>3
<1>5. CASE Terminate \/ WaitOrKill \/ ClosePortal \/ Exit
  BY <1>5 DEF Terminate, WaitOrKill, ClosePortal, Exit, Goes
<1>6. CASE Signal
  BY <1>6 DEF Signal
<1>7. ASSUME NEW b \in BackEnds, Dies(b) PROVE LockInv'
  BY <1>7 DEF Dies
<1>8. CASE UNCHANGED vars
  BY <1>8 DEF vars
<1>9. QED  BY <1>1, <1>2, <1>3, <1>4, <1>5, <1>6, <1>7, <1>8 DEF Next, MainStep, ShutdownStep

\* The television is found, admitted and told, in this order.
LEMMA TelevisionStep == IInv /\ [Next]_vars => TelevisionInv'
<1> SUFFICES ASSUME IInv, [Next]_vars PROVE TelevisionInv'
  OBVIOUS
<1> USE DEF IInv, Typing, TelevisionInv, Where, captureVars, tvVars, Main, Shutdown, Ends, None
<1>1. CASE ChooseMonitor \/ Unavailable \/ BadOption \/ OpenDialog \/ Spawn \/ Settle
  BY <1>1 DEF ChooseMonitor, Unavailable, BadOption, OpenDialog, Spawn, Settle, PassedOver,
     Goes, ShutsDown, Fails
<1>2. CASE Construct \/ ResetDone \/ Bind \/ StartThread
  BY <1>2 DEF Construct, ResetDone, Bind, StartThread, Goes, ShutsDown, Fails
<1>3. CASE _wait_for_hls_segments \/ Discover \/ allow_client \/ start_cast
  <2>1. CASE _wait_for_hls_segments
    BY <2>1 DEF _wait_for_hls_segments, Goes, ShutsDown, Fails
  <2>2. CASE Discover
    BY <2>2 DEF Discover, Goes, ShutsDown, Fails
  <2>3. CASE allow_client
    BY <2>3 DEF allow_client, Goes, ShutsDown, Fails
  <2>4. CASE start_cast
    BY <2>4 DEF start_cast, Goes, ShutsDown, Fails
  <2>5. QED  BY <1>3, <2>1, <2>2, <2>3, <2>4
<1>4. CASE stop_cast \/ StopServer \/ CloseServer \/ Reset \/ Cleared
  <2>1. CASE stop_cast
    BY <2>1 DEF stop_cast, Goes, ShutsDown, Fails
  <2>2. CASE StopServer
    BY <2>2 DEF StopServer, Goes, ShutsDown, Fails
  <2>3. CASE CloseServer
    BY <2>3 DEF CloseServer, Goes, ShutsDown, Fails
  <2>4. CASE Reset
    BY <2>4 DEF Reset, Goes, ShutsDown, Fails
  <2>5. CASE Cleared
    BY <2>5 DEF Cleared, Goes, ShutsDown, Fails
  <2>6. QED  BY <1>4, <2>1, <2>2, <2>3, <2>4, <2>5
<1>5. CASE Terminate \/ WaitOrKill \/ ClosePortal \/ Exit
  BY <1>5 DEF Terminate, WaitOrKill, ClosePortal, Exit, Goes
<1>6. CASE Signal
  BY <1>6 DEF Signal
<1>7. ASSUME NEW b \in BackEnds, Dies(b) PROVE TelevisionInv'
  BY <1>7 DEF Dies
<1>8. CASE UNCHANGED vars
  BY <1>8 DEF vars
<1>9. QED  BY <1>1, <1>2, <1>3, <1>4, <1>5, <1>6, <1>7, <1>8 DEF Next, MainStep, ShutdownStep

\* What StopServer and Reset wait for in vain is owed to the place cut off.
LEMMA HangsStep == IInv /\ [Next]_vars => HangsOnlyThere'
<1> SUFFICES ASSUME IInv, [Next]_vars, at' = "hung" PROVE HangsOnlyThere'
  BY DEF HangsOnlyThere
<1> USE DEF IInv, HangsOnlyThere, captureVars, tvVars
<1>1. CASE StopServer
  BY <1>1 DEF StopServer, Goes, Typing, ServerInv, Where, Main, Shutdown, Serving,
   Choosing, None
<1>2. CASE Reset
  BY <1>2 DEF Reset, Goes, LockInv, Where, Main
<1>3. CASE MainStep
  BY <1>3 DEF MainStep, ChooseMonitor, Unavailable, BadOption, OpenDialog, Spawn, Settle,
     Construct, ResetDone, Bind, StartThread, _wait_for_hls_segments, Discover, allow_client,
     start_cast, PassedOver, Goes, ShutsDown, Fails
<1>4. CASE stop_cast \/ CloseServer \/ Cleared \/ Terminate \/ WaitOrKill \/ ClosePortal \/ Exit
  BY <1>4 DEF stop_cast, CloseServer, Cleared, Terminate, WaitOrKill, ClosePortal, Exit, Goes
<1>5. CASE Signal
  BY <1>5 DEF Signal
<1>6. ASSUME NEW b \in BackEnds, Dies(b) PROVE HangsOnlyThere'
  BY <1>6 DEF Dies
<1>7. CASE UNCHANGED vars
  BY <1>7 DEF vars
<1>8. QED  BY <1>1, <1>2, <1>3, <1>4, <1>5, <1>6, <1>7 DEF Next, ShutdownStep

\* Only the start of the server and three places after it fail with a capture assigned.
LEMMA FailureStep == IInv /\ [Next]_vars => FailureLeavesCapture'
<1> SUFFICES ASSUME IInv, [Next]_vars, at' = "failed" PROVE FailureLeavesCapture'
  BY DEF FailureLeavesCapture
<1> USE DEF IInv, FailureLeavesCapture, captureVars, tvVars
<1>1. CASE Settle
  <2>1. Candidate \notin procs /\ PassedOver("settle")
    BY <1>1 DEF Settle, Goes
  <2>2. procs' = {} /\ portal' = 0
    BY <1>1, <2>1 DEF Settle, PassedOver, Goes, Fails, Typing, CaptureInv, OneCapture
  <2>3. QED  BY <2>2
<1>2. CASE ChooseMonitor \/ Unavailable \/ BadOption
  <2>1. procs' = {} /\ portal' = 0
    BY <1>2 DEF ChooseMonitor, Unavailable, BadOption, PassedOver, Goes, ShutsDown, Fails,
       CaptureInv, Where, Main, Choosing
  <2>2. QED  BY <2>1
<1>3. CASE Bind \/ Discover \/ allow_client \/ start_cast
  BY <1>3 DEF Bind, Discover, allow_client, start_cast, Goes, ShutsDown, Fails
<1>4. CASE OpenDialog \/ Spawn \/ Construct \/ ResetDone \/ StartThread
           \/ _wait_for_hls_segments
  BY <1>4 DEF OpenDialog, Spawn, Construct, ResetDone, StartThread,
     _wait_for_hls_segments, Goes, ShutsDown
<1>5. CASE ShutdownStep
  BY <1>5 DEF ShutdownStep, stop_cast, StopServer, CloseServer, Reset, Cleared, Terminate,
     WaitOrKill, ClosePortal, Exit, Goes
<1>6. CASE Signal
  BY <1>6 DEF Signal
<1>7. ASSUME NEW b \in BackEnds, Dies(b) PROVE FailureLeavesCapture'
  BY <1>7 DEF Dies, Typing
<1>8. CASE UNCHANGED vars
  BY <1>8 DEF vars
<1>9. QED  BY <1>1, <1>2, <1>3, <1>4, <1>5, <1>6, <1>7, <1>8 DEF Next, MainStep

-----------------------------------------------------------------------------
\* Nothing runs before the monitor is chosen.
LEMMA InitInv == Init => IInv
<1> SUFFICES ASSUME Init PROVE IInv
  OBVIOUS
<1>1. PICK s \in Sessions, p \in Protocols, forced \in {"auto", "wf-recorder", "x11grab"} :
        choice = [protocol |-> p,
                  order |-> IF forced = "auto" THEN _auto_capture_backend_order(s)
                           ELSE <<forced>>]
  BY DEF Init
<1>2. choice \in [protocol : Protocols, order : Seq(BackEnds)] /\ Len(choice.order) > 0
  <2>1. /\ _auto_capture_backend_order(s) \in Seq(BackEnds)
        /\ Len(_auto_capture_backend_order(s)) > 0
    <3>1. _auto_capture_backend_order(s) \in {<<"wf-recorder", "x11grab">>,
            <<"portal", "wf-recorder">>, <<"x11grab", "wf-recorder">>}
      BY DEF _auto_capture_backend_order
    <3>2. PICK b \in BackEnds, c \in BackEnds : _auto_capture_backend_order(s) = <<b, c>>
      BY <3>1 DEF BackEnds
    <3>3. QED  BY <3>2
  <2>2. CASE forced = "auto"
    BY <1>1, <2>1, <2>2
  <2>3. CASE forced # "auto"
    <3>1. choice.order = <<forced>> /\ forced \in BackEnds
      BY <1>1, <2>3 DEF BackEnds
    <3>2. choice.order \in Seq(BackEnds) /\ Len(choice.order) > 0
      BY <3>1
    <3>3. choice = [protocol |-> p, order |-> choice.order]
      BY <1>1
    <3>4. QED  BY <3>2, <3>3
  <2>4. QED  BY <2>2, <2>3
<1>3. Typing
  BY <1>2 DEF Init, Typing, Main, Choosing, None
<1>4. CaptureInv /\ ServerInv
  BY DEF Init, CaptureInv, OneCapture, ServerInv, Where, Main, Choosing, Serving, None
<1>5. TornDownInv /\ LockInv /\ TelevisionInv /\ HangsOnlyThere /\ FailureLeavesCapture
  BY DEF Init, TornDownInv, LockInv, TelevisionInv, HangsOnlyThere, FailureLeavesCapture,
     Where, Main, Shutdown
<1>6. QED  BY <1>3, <1>4, <1>5 DEF IInv

\* The invariant is inductive.
LEMMA IInvAlways == Spec => []IInv
<1>1. IInv /\ [Next]_vars => IInv'
  BY TypingStep, CaptureStep, ServerStep, TornDownStep, LockStep, TelevisionStep, HangsStep,
     FailureStep DEF IInv
<1>2. QED  BY InitInv, <1>1, PTL DEF Spec

-----------------------------------------------------------------------------
\* The types the other lemmas do without.
Flags == lock \in BOOLEAN /\ told \in BOOLEAN /\ signals \in 0..MaxSignals

\* No step takes a flag or the count of signals out of its type.
LEMMA FlagsStep == ASSUME MaxSignals \in Nat PROVE Flags /\ [Next]_vars => Flags'
<1> SUFFICES ASSUME Flags, [Next]_vars PROVE Flags'
  OBVIOUS
<1>1. CASE MainStep
  <2>1. lock' \in BOOLEAN
    BY <1>1 DEF Flags, MainStep, ChooseMonitor, Unavailable, BadOption, OpenDialog, Spawn,
   Settle,
       Construct, ResetDone, Bind, StartThread, _wait_for_hls_segments, Discover, allow_client,
       start_cast
  <2>2. told' \in BOOLEAN
    BY <1>1 DEF Flags, tvVars, MainStep, ChooseMonitor, Unavailable, BadOption, OpenDialog,
   Spawn,
       Settle, Construct, ResetDone, Bind, StartThread, _wait_for_hls_segments, Discover,
       allow_client, start_cast
  <2>3. signals' = signals
    BY <1>1 DEF MainStep, ChooseMonitor, Unavailable, BadOption, OpenDialog, Spawn, Settle,
       Construct, ResetDone, Bind, StartThread, _wait_for_hls_segments, Discover, allow_client,
       start_cast
  <2>4. QED  BY <2>1, <2>2, <2>3 DEF Flags
<1>2. CASE ShutdownStep
  <2>1. lock' \in BOOLEAN
    BY <1>2 DEF Flags, ShutdownStep, stop_cast, StopServer, CloseServer, Reset, Cleared,
       Terminate, WaitOrKill, ClosePortal, Exit
  <2>2. told' \in BOOLEAN
    BY <1>2 DEF Flags, tvVars, ShutdownStep, stop_cast, StopServer, CloseServer, Reset, Cleared,
       Terminate, WaitOrKill, ClosePortal, Exit
  <2>3. signals' = signals
    BY <1>2 DEF ShutdownStep, stop_cast, StopServer, CloseServer, Reset, Cleared, Terminate,
       WaitOrKill, ClosePortal, Exit
  <2>4. QED  BY <2>1, <2>2, <2>3 DEF Flags
<1>3. CASE Signal
  <2>1. lock' = lock /\ signals' \in 0..MaxSignals
    BY <1>3 DEF Signal, Flags
  <2>2. told' \in BOOLEAN
    BY <1>3 DEF Signal, Flags
  <2>3. QED  BY <2>1, <2>2 DEF Flags
<1>4. ASSUME NEW b \in BackEnds, Dies(b) PROVE Flags'
  BY <1>4 DEF Dies, Flags, tvVars
<1>5. CASE UNCHANGED vars
  BY <1>5 DEF vars, Flags, tvVars
<1>6. QED  BY <1>1, <1>2, <1>3, <1>4, <1>5 DEF Next

\* Every variable keeps its type, for any number of signals.
THEOREM TypeOKHolds == ASSUME MaxSignals \in Nat PROVE Spec => []TypeOK
<1>1. Init => Flags
  <2>1. Init => lock \in BOOLEAN /\ told \in BOOLEAN
    BY DEF Init
  <2>2. Init => signals \in 0..MaxSignals
    BY DEF Init
  <2>3. QED  BY <2>1, <2>2 DEF Flags
<1>2. IInv /\ Flags => TypeOK
  BY DEF IInv, Typing, Flags, TypeOK
<1>3. QED  BY <1>1, <1>2, FlagsStep, IInvAlways, PTL DEF Spec

\* A back end that was passed over leaves nothing behind (start_capture).
THEOREM OneCaptureHolds == Spec => []OneCapture
<1>1. IInv => OneCapture
  BY DEF IInv, CaptureInv
<1>2. QED  BY <1>1, IInvAlways, PTL

\* shutdown() leaves no capture, portal session or server behind, except when it cut
\* start_capture off.
THEOREM ShutdownReleasesHolds == Spec => []ShutdownReleases
<1>1. IInv => ShutdownReleases
  <2> SUFFICES ASSUME IInv, at = "exited"
               PROVE  \/ /\ procs = {} /\ portal = 0
                         /\ server \in {None, "made", "closed"}
                      \/ cut = "settle" /\ capture = None
    BY DEF ShutdownReleases
  <2>1. server \in {None, "made", "closed"} /\ capture \notin procs
    BY DEF IInv, TornDownInv
  <2>2. Where = cut /\ cut \in Main
    BY DEF IInv, Typing, Where, Main, None
  <2>3. CASE cut \in Choosing
    BY <2>1, <2>2, <2>3 DEF IInv, CaptureInv
  <2>4. CASE cut = "settle"
    BY <2>2, <2>4 DEF IInv, CaptureInv
  <2>5. CASE cut \notin Choosing \cup {"settle"}
    <3>1. capture = Candidate /\ procs \subseteq {Candidate}
      BY <2>2, <2>5 DEF IInv, CaptureInv, OneCapture
    <3>2. portal = 0
      BY <3>1 DEF IInv, Typing, TornDownInv, CaptureInv, OneCapture
    <3>3. QED  BY <2>1, <3>1, <3>2
  <2>6. QED  BY <2>2, <2>3, <2>4, <2>5
<1>2. QED  BY <1>1, IInvAlways, PTL

\* An exception that ends main() leaves a capture running only where the server is bound,
\* or after that.
THEOREM FailureLeavesCaptureHolds == Spec => []FailureLeavesCapture
<1>1. IInv => FailureLeavesCapture
  BY DEF IInv
<1>2. QED  BY <1>1, IInvAlways, PTL

\* However the program ends, what it leaves is one of the two exceptions.
THEOREM EndLeavesNothingHolds == Spec => []EndLeavesNothing
<1>1. ShutdownReleases /\ FailureLeavesCapture => EndLeavesNothing
  BY DEF EndLeavesNothing
<1>2. QED  BY <1>1, ShutdownReleasesHolds, FailureLeavesCaptureHolds, PTL

\* One signal hangs shutdown() only before the server's thread, or within a reset.
THEOREM HangsOnlyThereHolds == Spec => []HangsOnlyThere
<1>1. IInv => HangsOnlyThere
  BY DEF IInv
<1>2. QED  BY <1>1, IInvAlways, PTL

\* allow_client precedes the address the television is told.
THEOREM AdmittedBeforeToldHolds == Spec => []AdmittedBeforeTold
<1>1. IInv => AdmittedBeforeTold
  BY DEF IInv, TelevisionInv, ServerInv, Serving, AdmittedBeforeTold, None
<1>2. QED  BY <1>1, IInvAlways, PTL

-----------------------------------------------------------------------------
(* The tray.                                                               *)

\* Casts are numbered in the order of their start, and only those that were started
\* have a process or a watcher.
CastsInv ==
  /\ pc \in [Actors -> {"none", "loop", "icon", "menu", "assign", "notify", "ask", "wait",
                        "done", "ask1", "look", "ask2", "exited"}]
  /\ launch.number \in 0..MaxCasts /\ proc \in 0..launch.number /\ target = proc
  /\ alive \subseteq 1..launch.number
  /\ pc[Gtk] = "assign" => launch.number # NoCast /\ proc # launch.number
  /\ pc[Gtk] = "notify" => launch.number # NoCast
  /\ \A p \in Casts : pc[Watch(p)] \in {"none", "wait", "notify", "done"}
  /\ \A p \in Casts : pc[Watch(p)] \in {"notify", "done"} => p \notin alive
  /\ \A p \in Casts : p > launch.number => pc[Watch(p)] = "none"

\* At most one callback is queued, and one is while the flag is set.
QueueInv ==
  /\ pending \in BOOLEAN /\ icon \in BOOLEAN /\ unasked \in BOOLEAN /\ exited \in BOOLEAN
  /\ idle = IF pending THEN 1 ELSE 0
  /\ selected \in 1..2

\* Somebody other than the GTK thread will ask for the menu, or has asked, or a
\* notification raised in place of that.
Asked ==
  \/ idle > 0 \/ unasked \/ Unwatched
  \/ \E p \in Casts : (pc[Watch(p)] = "wait" /\ p \notin alive) \/ pc[Watch(p)] = "notify"
  \/ \E n \in 1..MaxScans : pc[Scan(n)] \in {"ask1", "ask2"}

\* While the menu is built the icon shows the present state, or it will be built again.
FreshInv ==
  /\ pc[Gtk] = "menu" /\ ~exited => icon = _cast_state \/ Asked
  /\ pc[Gtk] = "loop" /\ ~exited => UpToDate \/ Asked

\* A cast that runs and is not remembered was replaced, also the one that is about to
\* be forgotten for the cast being started.
LostInv ==
  /\ LostCastsFromStaleMenus
  /\ pc[Gtk] = "assign" /\ proc \in alive => proc \in launch.replaced

\* A flag that is set belongs to a scan under way, or to one that has left it behind.
ScansInv ==
  /\ kind \in [1..MaxScans -> Kinds \cup {NoKind}] /\ scanning \subseteq Kinds
  /\ ScanningEnds

TrayInv == CastsInv /\ QueueInv /\ FreshInv /\ LostInv /\ ScansInv

\* A choice that is still valid is the monitor a cast would take, or is taking.
PickInv ==
  /\ pick = [monitor |-> pick.monitor, count |-> pick.count, valid |-> pick.valid]
  /\ pick.valid \in BOOLEAN
  /\ pick.valid => Chosen = pick.monitor
  /\ MonitorAsPicked

-----------------------------------------------------------------------------
(* The steps preserve the invariant.                                        *)

\* Casts, processes and watchers are started in order.
LEMMA CastsStep ==
  ASSUME MaxCasts \in Nat, TrayInv, [TrayNext]_trayVars
  PROVE  CastsInv'
<1> USE DEF TrayInv, CastsInv, NoCast, Actors, Gtk, Watch, Scan, Casts, procVars, menuVars,
            scanVars, userVars, Moves, Request
<1>1. CASE \/ _do_update \/ UpdateIcon \/ BuildMenu \/ _refresh(Gtk, "ask", "loop")
           \/ NotifyRaises(Gtk, launch.number, "loop")
  BY <1>1 DEF _do_update, UpdateIcon, BuildMenu, _refresh, NotifyRaises
<1>2. CASE Assign
  BY <1>2 DEF Assign
<1>3. CASE Launched
  <2>1. launch.number \in Casts
    BY <1>3 DEF Launched
  <2>2. pc' = [pc EXCEPT ![Gtk] = "loop", ![Watch(launch.number)] = "wait"]
        /\ UNCHANGED <<launch, proc, target, alive>>
    BY <1>3 DEF Launched
  <2>3. pc'[Gtk] = "loop"
        /\ \A p \in Casts : \/ pc'[Watch(p)] = pc[Watch(p)]
                            \/ pc'[Watch(p)] = "wait" /\ p = launch.number
    BY <2>1, <2>2
  <2>4. pc' \in [Actors -> {"none", "loop", "icon", "menu", "assign", "notify", "ask", "wait",
                           "done", "ask1", "look", "ask2", "exited"}]
    BY <2>1, <2>2
  <2> QED  BY <2>1, <2>2, <2>3, <2>4
<1>4. CASE _launch
  <2>1. launch.number \in 0..MaxCasts /\ launch'.number = launch.number + 1
        /\ launch.number < MaxCasts /\ UNCHANGED <<proc, target>>
    BY <1>4 DEF _launch
  <2>2. launch'.number \in 1..MaxCasts /\ proc \in 0..launch'.number /\ proc # launch'.number
    BY <2>1
  <2>3. alive' = alive \cup {launch'.number} /\ alive' \subseteq 1..launch'.number
    BY <1>4, <2>1, <2>2 DEF _launch
  <2>4. pc' = [pc EXCEPT ![Gtk] = "assign"] /\ pc[Gtk] = "loop"
    BY <1>4 DEF _launch
  <2>5. \A p \in Casts : pc'[Watch(p)] = pc[Watch(p)]
    BY <2>4
  <2>6. \A p \in Casts : p > launch'.number => p > launch.number
    BY <2>1
  <2>7. launch'.number > launch.number
    BY <2>1
  <2> QED  BY <2>1, <2>2, <2>3, <2>4, <2>5, <2>6, <2>7
<1>5. CASE ClickStop \/ _on_exit
  BY <1>5 DEF ClickStop, _stop, _on_exit
<1>6. ASSUME NEW p \in Casts, CastDies(p) PROVE CastsInv'
  BY <1>6 DEF CastDies
<1>7. ASSUME NEW p \in Casts, _watch(p) PROVE CastsInv'
  BY <1>7 DEF _watch
<1>8. ASSUME NEW p \in Casts, _refresh(Watch(p), "notify", "done")
                                \/ NotifyRaises(Watch(p), p, "done")
      PROVE  CastsInv'
  BY <1>8 DEF _refresh, NotifyRaises
<1>9. ASSUME NEW n \in 1..MaxScans,
             ScanEnds(n) \/ ScanExits(n) \/ _refresh(Scan(n), "ask1", "look") \/
             _refresh(Scan(n), "ask2", "done") \/ _rescan_all(n)
      PROVE  CastsInv'
  BY <1>9 DEF ScanEnds, ScanExits, _refresh, _rescan_all
<1>10. ASSUME NEW i \in 1..2, _select_monitor(i) PROVE CastsInv'
  BY <1>10 DEF _select_monitor
<1>11. CASE UNCHANGED trayVars
  BY <1>11 DEF trayVars
<1> QED  BY <1>1, <1>2, <1>3, <1>4, <1>5, <1>6, <1>7, <1>8, <1>9, <1>10, <1>11 DEF TrayNext,
            GtkStep, WatchStep, ScanStep

\* The flag is cleared with the callback's first step and set with a new one.
LEMMA QueueStep ==
  ASSUME MaxCasts \in Nat, TrayInv, [TrayNext]_trayVars
  PROVE  QueueInv'
<1> USE DEF TrayInv, QueueInv, _cast_state, procVars, menuVars, scanVars, userVars, Moves,
            Request
<1>1. CASE _do_update
  <2>1. pending /\ idle = 1
    BY <1>1 DEF _do_update
  <2>2. pending' = FALSE /\ idle' = 0 /\ unasked' = FALSE /\ UNCHANGED <<icon, exited, selected>>
    BY <1>1, <2>1 DEF _do_update
  <2> QED  BY <2>2
<1>2. CASE UpdateIcon
  BY <1>2 DEF UpdateIcon
<1>3. CASE BuildMenu
  BY <1>3 DEF BuildMenu
<1>4. CASE Assign
  BY <1>4 DEF Assign
<1>5. CASE Launched
  BY <1>5 DEF Launched
<1>6. CASE NotifyRaises(Gtk, launch.number, "loop")
  BY <1>6 DEF NotifyRaises
<1>7. CASE _refresh(Gtk, "ask", "loop")
  BY <1>7 DEF _refresh
<1>8. CASE _launch
  BY <1>8 DEF _launch
<1>9. CASE ClickStop
  BY <1>9 DEF ClickStop, _stop
<1>10. CASE _on_exit
  BY <1>10 DEF _on_exit, _stop
<1>11. ASSUME NEW p \in Casts, CastDies(p) PROVE QueueInv'
  BY <1>11 DEF CastDies
<1>12. ASSUME NEW p \in Casts, _watch(p) PROVE QueueInv'
  BY <1>12 DEF _watch
<1>13. ASSUME NEW p \in Casts, _refresh(Watch(p), "notify", "done") PROVE QueueInv'
  BY <1>13 DEF _refresh
<1>14. ASSUME NEW p \in Casts, NotifyRaises(Watch(p), p, "done") PROVE QueueInv'
  BY <1>14 DEF NotifyRaises
<1>15. ASSUME NEW n \in 1..MaxScans, ScanEnds(n) PROVE QueueInv'
  BY <1>15 DEF ScanEnds
<1>16. ASSUME NEW n \in 1..MaxScans, ScanExits(n) PROVE QueueInv'
  BY <1>16 DEF ScanExits
<1>17. ASSUME NEW n \in 1..MaxScans, _refresh(Scan(n), "ask1", "look") PROVE QueueInv'
  BY <1>17 DEF _refresh
<1>18. ASSUME NEW n \in 1..MaxScans, _refresh(Scan(n), "ask2", "done") PROVE QueueInv'
  BY <1>18 DEF _refresh
<1>19. ASSUME NEW n \in 1..MaxScans, _rescan_all(n) PROVE QueueInv'
  BY <1>19 DEF _rescan_all
<1>20. ASSUME NEW i \in 1..2, _select_monitor(i) PROVE QueueInv'
  BY <1>20 DEF _select_monitor
<1>21. CASE UNCHANGED trayVars
  BY <1>21 DEF trayVars
<1> QED  BY <1>1, <1>2, <1>3, <1>4, <1>5, <1>6, <1>7, <1>8, <1>9, <1>10, <1>11, <1>12,
            <1>13, <1>14, <1>15, <1>16, <1>17, <1>18, <1>19, <1>20, <1>21
         DEF TrayNext, GtkStep, WatchStep, ScanStep

\* Whoever changes what the menu shows asks for it afterwards.
LEMMA FreshStep ==
  ASSUME MaxCasts \in Nat, TrayInv, [TrayNext]_trayVars
  PROVE  FreshInv'
<1> USE DEF TrayInv, CastsInv, QueueInv, FreshInv, Asked, Unwatched, UpToDate, _cast_state,
            _build_menu, Chosen, NoCast, Actors, Gtk, Watch, Scan, Casts, procVars,
            menuVars, scanVars, userVars, Moves, Request
<1>1. CASE _do_update
  BY <1>1 DEF _do_update
<1>2. CASE UpdateIcon
  BY <1>2 DEF UpdateIcon
<1>3. CASE BuildMenu
  BY <1>3 DEF BuildMenu
<1>4. CASE Assign
  BY <1>4 DEF Assign
<1>5. CASE Launched
  BY <1>5 DEF Launched
<1>6. CASE NotifyRaises(Gtk, launch.number, "loop")
  BY <1>6 DEF NotifyRaises
<1>7. CASE _refresh(Gtk, "ask", "loop")
  BY <1>7 DEF _refresh
<1>8. CASE _launch
  BY <1>8 DEF _launch
<1>9. CASE ClickStop
  BY <1>9 DEF ClickStop, _stop
<1>10. CASE _on_exit
  BY <1>10 DEF _on_exit, _stop
<1>11. ASSUME NEW p \in Casts, CastDies(p) PROVE FreshInv'
  BY <1>11 DEF CastDies
<1>12. ASSUME NEW p \in Casts, _watch(p) PROVE FreshInv'
  BY <1>12 DEF _watch
<1>13. ASSUME NEW p \in Casts, _refresh(Watch(p), "notify", "done") PROVE FreshInv'
  BY <1>13 DEF _refresh
<1>14. ASSUME NEW p \in Casts, NotifyRaises(Watch(p), p, "done") PROVE FreshInv'
  BY <1>14 DEF NotifyRaises
<1>15. ASSUME NEW n \in 1..MaxScans, ScanEnds(n) PROVE FreshInv'
  BY <1>15 DEF ScanEnds
<1>16. ASSUME NEW n \in 1..MaxScans, ScanExits(n) PROVE FreshInv'
  BY <1>16 DEF ScanExits
<1>17. ASSUME NEW n \in 1..MaxScans, _refresh(Scan(n), "ask1", "look") PROVE FreshInv'
  BY <1>17 DEF _refresh
<1>18. ASSUME NEW n \in 1..MaxScans, _refresh(Scan(n), "ask2", "done") PROVE FreshInv'
  BY <1>18 DEF _refresh
<1>19. ASSUME NEW n \in 1..MaxScans, _rescan_all(n) PROVE FreshInv'
  BY <1>19 DEF _rescan_all
<1>20. ASSUME NEW i \in 1..2, _select_monitor(i) PROVE FreshInv'
  BY <1>20 DEF _select_monitor
<1>21. CASE UNCHANGED trayVars
  BY <1>21 DEF trayVars
<1> QED  BY <1>1, <1>2, <1>3, <1>4, <1>5, <1>6, <1>7, <1>8, <1>9, <1>10, <1>11, <1>12,
            <1>13, <1>14, <1>15, <1>16, <1>17, <1>18, <1>19, <1>20, <1>21
         DEF TrayNext, GtkStep, WatchStep, ScanStep

\* The list and the choice change together with the note of whether they agree.
LEMMA PickStep ==
  ASSUME NEW S, monitors \in Seq(S), CastsInv, PickInv, [TrayNext]_trayVars
  PROVE  PickInv'
<1> USE DEF CastsInv, PickInv, MonitorAsPicked, NoCast, Actors, Gtk, Watch, Scan, Casts,
            procVars, menuVars, scanVars, userVars, Moves, Request
<1>1. CASE _do_update \/ UpdateIcon \/ BuildMenu \/ _refresh(Gtk, "ask", "loop")
  <2>1. Chosen' = Chosen
    BY <1>1 DEF _do_update, UpdateIcon, BuildMenu, _refresh, Chosen
  <2> QED  BY <1>1, <2>1 DEF _do_update, UpdateIcon, BuildMenu, _refresh
<1>2. CASE Assign
  <2>1. Chosen' = Chosen
    BY <1>2 DEF Assign, Chosen
  <2> QED  BY <1>2, <2>1 DEF Assign
<1>3. CASE Launched \/ NotifyRaises(Gtk, launch.number, "loop")
  <2>1. Chosen' = Chosen
    BY <1>3 DEF Launched, NotifyRaises, Chosen
  <2> QED  BY <1>3, <2>1 DEF Launched, NotifyRaises
<1>4. CASE _launch
  <2>1. Chosen' = Chosen
    BY <1>4 DEF _launch, Chosen
  <2>2. PICK dialog \in BOOLEAN, configured \in Preferred \cup {NoCast} :
          launch' = [monitor |-> IF dialog THEN NoCast
                                 ELSE _monitor_name(shown.monitor, configured),
                     picked |-> ~dialog /\ configured = NoCast,
                     number |-> launch.number + 1,
                     replaced |-> launch.replaced \cup (IF _cast_state THEN {proc} ELSE {})]
    BY <1>4 DEF _launch
  <2>3. /\ launch'.picked = (~dialog /\ configured = NoCast)
        /\ launch'.monitor = IF dialog THEN NoCast ELSE _monitor_name(shown.monitor, configured)
    BY <2>2
  <2>4. launch'.picked => launch'.monitor = shown.monitor
    BY <2>3 DEF _monitor_name
  <2>5. /\ pick' = [pick EXCEPT !.valid = @ /\ shown.monitor = Chosen]
        /\ launch'.picked => launch'.monitor = shown.monitor
    BY <1>4, <2>4 DEF _launch
  <2>6. /\ pick'.monitor = pick.monitor /\ pick'.count = pick.count
        /\ pick'.valid = (pick.valid /\ shown.monitor = Chosen)
    BY <2>5
  <2>7. pick' = [monitor |-> pick'.monitor, count |-> pick'.count, valid |-> pick'.valid]
    BY <2>5
  <2> QED  BY <2>1, <2>5, <2>6, <2>7
<1>5. CASE ClickStop \/ _on_exit
  <2>1. Chosen' = Chosen
    BY <1>5 DEF ClickStop, _stop, _on_exit, Chosen
  <2> QED  BY <1>5, <2>1 DEF ClickStop, _stop, _on_exit
<1>6. ASSUME NEW p \in Casts,
             CastDies(p) \/ _watch(p) \/ _refresh(Watch(p), "notify", "done")
               \/ NotifyRaises(Watch(p), p, "done")
      PROVE  PickInv'
  <2>1. Chosen' = Chosen
    BY <1>6 DEF CastDies, _watch, _refresh, NotifyRaises, Chosen
  <2> QED  BY <1>6, <2>1 DEF CastDies, _watch, _refresh, NotifyRaises
<1>7. ASSUME NEW n \in 1..MaxScans,
             _refresh(Scan(n), "ask1", "look") \/
             _refresh(Scan(n), "ask2", "done") \/ _rescan_all(n) \/ ScanExits(n)
      PROVE  PickInv'
  <2>1. Chosen' = Chosen
    BY <1>7 DEF _refresh, _rescan_all, ScanExits, Chosen
  <2> QED  BY <1>7, <2>1 DEF _refresh, _rescan_all, ScanExits
<1>8. ASSUME NEW n \in 1..MaxScans, ScanEnds(n) PROVE PickInv'
  <2>1. CASE monitors' = monitors
    <3>1. Chosen' = Chosen
      BY <1>8, <2>1 DEF ScanEnds, Chosen
    <3> QED  BY <1>8, <2>1, <3>1 DEF ScanEnds
  <2>2. CASE monitors' # monitors
    <3>1. pick' = [pick EXCEPT !.valid = @ /\ monitors' = monitors]
      BY <1>8 DEF ScanEnds
    <3>2. pick'.valid = FALSE
          /\ pick' = [monitor |-> pick'.monitor, count |-> pick'.count, valid |-> pick'.valid]
      BY <2>2, <3>1
    <3> QED  BY <3>2
  <2> QED  BY <2>1, <2>2
<1>9. ASSUME NEW i \in 1..2, _select_monitor(i) PROVE PickInv'
  <2>1. CASE monitors # shown.monitors
    BY <1>9, <2>1 DEF _select_monitor
  <2>2. CASE monitors = shown.monitors
    <3>1. Len(monitors) \in Nat /\ i \in 1..Len(monitors)
      BY <1>9, <2>2 DEF _select_monitor
    <3>2. Chosen' = monitors[i]
      BY <1>9, <3>1, i < Len(monitors) \/ i = Len(monitors) DEF _select_monitor, Chosen
    <3> QED  BY <1>9, <2>2, <3>2 DEF _select_monitor
  <2> QED  BY <2>1, <2>2
<1>10. CASE UNCHANGED trayVars
  <2>1. Chosen' = Chosen
    BY <1>10 DEF trayVars, Chosen
  <2> QED  BY <1>10, <2>1 DEF trayVars
<1> QED  BY <1>1, <1>2, <1>3, <1>4, <1>5, <1>6, <1>7, <1>8, <1>9, <1>10 DEF TrayNext,
            GtkStep, WatchStep, ScanStep

\* A cast is forgotten when it has ended, or for another one.
LEMMA LostStep ==
  ASSUME MaxCasts \in Nat, TrayInv, [TrayNext]_trayVars
  PROVE  LostInv'
<1> USE DEF TrayInv, CastsInv, LostInv, LostCastsFromStaleMenus, _cast_state, NoCast, Actors,
            Gtk, Watch, Scan, Casts, procVars, menuVars, scanVars, userVars, Moves,
            Request
<1>1. CASE _do_update \/ UpdateIcon \/ BuildMenu \/ _refresh(Gtk, "ask", "loop")
  BY <1>1 DEF _do_update, UpdateIcon, BuildMenu, _refresh
<1>2. CASE Assign
  BY <1>2 DEF Assign
<1>3. CASE Launched \/ NotifyRaises(Gtk, launch.number, "loop")
  BY <1>3 DEF Launched, NotifyRaises
<1>4. CASE _launch
  BY <1>4 DEF _launch
<1>5. CASE ClickStop \/ _on_exit
  BY <1>5 DEF ClickStop, _stop, _on_exit
<1>6. ASSUME NEW p \in Casts,
             CastDies(p) \/ _watch(p) \/ _refresh(Watch(p), "notify", "done")
               \/ NotifyRaises(Watch(p), p, "done")
      PROVE  LostInv'
  BY <1>6 DEF CastDies, _watch, _refresh, NotifyRaises
<1>7. ASSUME NEW n \in 1..MaxScans,
             ScanEnds(n) \/ ScanExits(n) \/ _refresh(Scan(n), "ask1", "look") \/
             _refresh(Scan(n), "ask2", "done") \/ _rescan_all(n)
      PROVE  LostInv'
  BY <1>7 DEF ScanEnds, ScanExits, _refresh, _rescan_all
<1>8. ASSUME NEW i \in 1..2, _select_monitor(i) PROVE LostInv'
  BY <1>8 DEF _select_monitor
<1>9. CASE UNCHANGED trayVars
  BY <1>9 DEF trayVars
<1> QED  BY <1>1, <1>2, <1>3, <1>4, <1>5, <1>6, <1>7, <1>8, <1>9 DEF TrayNext, GtkStep,
            WatchStep, ScanStep

\* A scan clears the flag after it has set it.
LEMMA ScansStep ==
  ASSUME MaxCasts \in Nat, TrayInv, [TrayNext]_trayVars
  PROVE  ScansInv'
<1> DEFINE Held(n) == pc[Scan(n)] \in {"ask1", "look", "exited"}
           Kept == /\ UNCHANGED <<scanning, kind>>
                   /\ \/ exited'
                      \/ ~exited /\ \A n \in 1..MaxScans : Held(n) => Held(n)'
<1>1. Kept => ScansInv'
  <2> SUFFICES ASSUME Kept PROVE ScansInv'
    OBVIOUS
  <2>1. CASE exited'
    BY <2>1 DEF TrayInv, ScansInv, ScanningEnds
  <2>2. CASE ~exited'
    BY <2>2 DEF TrayInv, ScansInv, ScanningEnds
  <2> QED  BY <2>1, <2>2
<1> HIDE DEF Kept
<1>2. pc \in [Actors -> {"none", "loop", "icon", "menu", "assign", "notify", "ask", "wait",
                        "done", "ask1", "look", "ask2", "exited"}]
  BY DEF TrayInv, CastsInv
<1>3. ASSUME NEW a \in Actors, NEW from, NEW to,
             Moves(a, from, to), UNCHANGED <<scanVars, exited>>,
             \/ \A n \in 1..MaxScans : a # Scan(n)
             \/ to \in {"ask1", "look", "exited"} \/ from \notin {"ask1", "look", "exited"}
      PROVE  Kept
  <2>1. \A n \in 1..MaxScans : Held(n) => Held(n)'
    BY <1>2, <1>3 DEF Moves, Actors
  <2> QED  BY <1>3, <2>1 DEF Kept, Moves, scanVars
<1>4. /\ Gtk \in Actors /\ \A p \in Casts : Watch(p) \in Actors
      /\ \A n \in 1..MaxScans : Scan(n) \in Actors /\ Gtk # Scan(n)
      /\ \A n \in 1..MaxScans, p \in Casts : Watch(p) # Scan(n)
  BY DEF Actors, Gtk, Watch, Scan
<1> USE DEF scanVars, userVars
<1>5. CASE \/ _do_update \/ UpdateIcon \/ BuildMenu \/ Assign \/ _refresh(Gtk, "ask", "loop")
           \/ NotifyRaises(Gtk, launch.number, "loop")
  BY <1>1, <1>3, <1>4, <1>5 DEF _do_update, UpdateIcon, BuildMenu, Assign, _refresh, NotifyRaises
<1>6. CASE Launched
  <2>1. \A n \in 1..MaxScans : pc'[Scan(n)] = pc[Scan(n)]
    BY <1>2, <1>6 DEF Launched, Scan, Gtk, Watch, Actors
  <2> QED  BY <1>1, <1>6, <2>1 DEF Launched, Kept
<1>7. CASE _launch
  BY <1>1, <1>3, <1>4, <1>7 DEF _launch
<1>8. CASE ClickStop
  BY <1>1, <1>8 DEF ClickStop, Kept
<1>9. CASE _on_exit
  BY <1>1, <1>9 DEF _on_exit, Kept
<1>10. ASSUME NEW p \in Casts, CastDies(p) PROVE ScansInv'
  <2>1. pc' = pc /\ UNCHANGED <<scanning, kind, exited>>
    BY <1>10 DEF CastDies
  <2> QED  BY <1>1, <2>1 DEF Kept
<1>11. ASSUME NEW p \in Casts, WatchStep(p) PROVE ScansInv'
  BY <1>1, <1>3, <1>4, <1>11 DEF WatchStep, _watch, _refresh, NotifyRaises
<1>12. ASSUME NEW n \in 1..MaxScans,
              \/ ScanExits(n) \/ _refresh(Scan(n), "ask1", "look")
              \/ _refresh(Scan(n), "ask2", "done")
       PROVE  ScansInv'
  BY <1>1, <1>3, <1>4, <1>12 DEF ScanExits, _refresh
<1>13. ASSUME NEW n \in 1..MaxScans, ScanEnds(n) PROVE ScansInv'
  <2>1. /\ scanning' = scanning \ {kind[n]} /\ kind' = [kind EXCEPT ![n] = NoKind]
        /\ pc' = [pc EXCEPT ![Scan(n)] = "ask2"] /\ ~exited /\ exited' = exited
    BY <1>13 DEF ScanEnds, Moves
  <2>2. /\ kind' \in [1..MaxScans -> Kinds \cup {NoKind}] /\ scanning' \subseteq Kinds
    BY <2>1 DEF TrayInv, ScansInv
  <2>3. ASSUME NEW k \in scanning'
        PROVE  \E m \in 1..MaxScans : kind'[m] = k /\ pc'[Scan(m)] \in {"ask1", "look", "exited"}
    <3>1. PICK m \in 1..MaxScans : kind[m] = k /\ pc[Scan(m)] \in {"ask1", "look", "exited"}
      BY <2>1 DEF TrayInv, ScansInv, ScanningEnds
    <3>2. m # n
      BY <2>1, <3>1
    <3>3. kind'[m] = k
      BY <2>1, <3>1, <3>2 DEF TrayInv, ScansInv
    <3>4. pc'[Scan(m)] = pc[Scan(m)]
      BY <1>2, <1>4, <2>1, <3>2 DEF Scan
    <3> QED  BY <3>1, <3>3, <3>4
  <2> QED  BY <2>2, <2>3 DEF ScansInv, ScanningEnds
<1>14. ASSUME NEW n \in 1..MaxScans, _rescan_all(n) PROVE ScansInv'
  <2>1. PICK k \in Kinds : kind' = [kind EXCEPT ![n] = k] /\ scanning' = scanning \cup {k}
    BY <1>14 DEF _rescan_all
  <2>2. /\ pc[Scan(n)] = "none" /\ pc' = [pc EXCEPT ![Scan(n)] = "ask1"]
        /\ ~exited /\ exited' = exited
    BY <1>14 DEF _rescan_all, Moves
  <2>3. /\ kind' \in [1..MaxScans -> Kinds \cup {NoKind}] /\ scanning' \subseteq Kinds
    BY <2>1 DEF TrayInv, ScansInv
  <2>4. kind'[n] = k /\ pc'[Scan(n)] = "ask1"
    BY <1>2, <1>4, <2>1, <2>2 DEF TrayInv, ScansInv
  <2>5. ASSUME NEW l \in scanning
        PROVE  \E m \in 1..MaxScans : kind'[m] = l /\ pc'[Scan(m)] \in {"ask1", "look", "exited"}
    <3>1. PICK m \in 1..MaxScans : kind[m] = l /\ pc[Scan(m)] \in {"ask1", "look", "exited"}
      BY <2>2 DEF TrayInv, ScansInv, ScanningEnds
    <3>2. m # n
      BY <2>2, <3>1
    <3>3. kind'[m] = l
      BY <2>1, <3>1, <3>2 DEF TrayInv, ScansInv
    <3>4. pc'[Scan(m)] = pc[Scan(m)]
      BY <1>2, <1>4, <2>2, <3>2 DEF Scan
    <3> QED  BY <3>1, <3>3, <3>4
  <2> QED  BY <2>1, <2>3, <2>4, <2>5 DEF ScansInv, ScanningEnds
<1>15. ASSUME NEW i \in 1..2, _select_monitor(i) PROVE ScansInv'
  BY <1>1, <1>3, <1>4, <1>15 DEF _select_monitor
<1>16. CASE UNCHANGED trayVars
  BY <1>1, <1>16 DEF trayVars, Kept
<1> QED  BY <1>5, <1>6, <1>7, <1>8, <1>9, <1>10, <1>11, <1>12, <1>13, <1>14, <1>15, <1>16
         DEF TrayNext, GtkStep, ScanStep

-----------------------------------------------------------------------------
\* The GTK thread is in its loop and nothing else has begun.
LEMMA InitTray == MaxCasts \in Nat /\ TrayInit => TrayInv /\ PickInv
<1> SUFFICES ASSUME MaxCasts \in Nat, TrayInit PROVE TrayInv /\ PickInv
  OBVIOUS
<1> USE DEF TrayInit, Actors, Gtk, Watch, Scan, Casts, NoCast
<1>1. CastsInv
  BY DEF CastsInv
<1>2. LostInv
  BY DEF LostInv, LostCastsFromStaleMenus
<1>3. QueueInv
  <2>1. selected \in 1..2 /\ idle = 0
    OBVIOUS
  <2>2. pending = FALSE /\ icon = FALSE /\ unasked = FALSE /\ exited = FALSE
    OBVIOUS
  <2> QED  BY <2>1, <2>2 DEF QueueInv
<1>4. FreshInv
  BY DEF FreshInv, UpToDate, _cast_state
<1>5. ScansInv
  BY DEF ScansInv, ScanningEnds
<1>6. PickInv
  BY DEF PickInv, MonitorAsPicked
<1> QED  BY <1>1, <1>2, <1>3, <1>4, <1>5, <1>6 DEF TrayInv

\* The invariant is inductive.
LEMMA TrayAlways ==
  ASSUME MaxCasts \in Nat
  PROVE  TraySpec => []TrayInv
<1>1. TrayInit => TrayInv
  BY InitTray
<1>2. TrayInv /\ [TrayNext]_trayVars => TrayInv'
  BY CastsStep, QueueStep, FreshStep, LostStep, ScansStep DEF TrayInv
<1> QED  BY <1>1, <1>2, PTL DEF TraySpec

-----------------------------------------------------------------------------
\* Every variable keeps its type: one callback at most is queued, and the name of the
\* device is forgotten with its process.
THEOREM TrayTypeOKHolds ==
  ASSUME MaxCasts \in Nat
  PROVE  TraySpec => []TrayTypeOK
<1>1. TrayInv => TrayTypeOK
  <2> SUFFICES ASSUME TrayInv PROVE TrayTypeOK
    OBVIOUS
  <2>1. proc \in 0..MaxCasts /\ target = proc /\ alive \subseteq Casts
    BY DEF TrayInv, CastsInv, Casts
  <2>2. /\ idle \in 0..1 /\ selected \in 1..2
        /\ {pending, icon, unasked, exited} \subseteq BOOLEAN /\ scanning \subseteq Kinds
    BY DEF TrayInv, QueueInv, ScansInv
  <2> QED  BY <2>1, <2>2 DEF TrayTypeOK
<1> QED  BY <1>1, TrayAlways, PTL

\* Whenever the menu shows anything but the present state, a rebuild is queued or under
\* way, or a thread has yet to ask for one (_refresh, _do_update), or a notification
\* raised in the place of one that would have asked (_notify).
THEOREM NoLostRefreshHolds ==
  ASSUME MaxCasts \in Nat
  PROVE  TraySpec => []NoLostRefresh
<1>1. TrayInv => NoLostRefresh
  BY DEF TrayInv, FreshInv, Asked, NoLostRefresh
<1> QED  BY <1>1, TrayAlways, PTL

\* The end of a process never makes the tray forget another one that runs (_watch).
THEOREM ForgetsOnlyTheDeadHolds ==
  ASSUME MaxCasts \in Nat
  PROVE  TraySpec => ForgetsOnlyTheDead
<1>1. TrayInv /\ [TrayNext]_trayVars
        => [(proc' # proc /\ proc' = NoCast) => proc \notin alive]_trayVars
  <2> SUFFICES ASSUME TrayInv, TrayNext, proc' # proc, proc' = NoCast PROVE proc \notin alive
    OBVIOUS
  <2>1. Assign \/ \E p \in Casts : _watch(p)
    BY DEF TrayNext, GtkStep, WatchStep, ScanStep, _do_update, UpdateIcon, BuildMenu, Launched,
           NotifyRaises, _launch, ClickStop, _on_exit, _stop, CastDies, _refresh, ScanEnds,
           ScanExits, _rescan_all, _select_monitor, procVars
  <2>2. CASE Assign
    BY <2>2 DEF Assign, Moves, TrayInv, CastsInv
  <2>3. ASSUME NEW p \in Casts, _watch(p) PROVE proc \notin alive
    BY <2>3 DEF _watch
  <2> QED  BY <2>1, <2>2, <2>3
<1> QED  BY <1>1, TrayAlways, PTL DEF TraySpec, ForgetsOnlyTheDead

\* A cast that runs and that the tray does not remember was replaced by a click on a
\* menu built before it began (_launch).
THEOREM LostCastsHolds ==
  ASSUME MaxCasts \in Nat
  PROVE  TraySpec => []LostCastsFromStaleMenus
<1>1. TrayInv => LostCastsFromStaleMenus
  BY DEF TrayInv, LostInv
<1> QED  BY <1>1, TrayAlways, PTL

\* The tray says that it scans only while a scan is under way, or after one whose package
\* is missing (_scan_dlna, _scan_cast).
THEOREM ScanningEndsHolds ==
  ASSUME MaxCasts \in Nat
  PROVE  TraySpec => []ScanningEnds
<1>1. TrayInv => ScanningEnds
  BY DEF TrayInv, ScansInv
<1> QED  BY <1>1, TrayAlways, PTL

\* The list of monitors is one that a scan may return.
LEMMA MonitorsAlways ==
  ASSUME NEW S, Screens \subseteq Seq(S)
  PROVE  TraySpec => [](monitors \in Seq(S))
<1>1. TrayInit => monitors \in Seq(S)
  BY DEF TrayInit
<1>2. monitors \in Seq(S) /\ [TrayNext]_trayVars => (monitors \in Seq(S))'
  <2> SUFFICES ASSUME monitors \in Seq(S), [TrayNext]_trayVars PROVE monitors' \in Seq(S)
    OBVIOUS
  <2>1. UNCHANGED monitors \/ \E n \in 1..MaxScans : ScanEnds(n)
    BY DEF TrayNext, GtkStep, WatchStep, ScanStep, _do_update, UpdateIcon, BuildMenu, Assign,
           Launched, NotifyRaises, _launch, ClickStop, _on_exit, CastDies, _watch, _refresh, ScanExits, _rescan_all,
           _select_monitor, scanVars, trayVars
  <2>2. ASSUME NEW n \in 1..MaxScans, ScanEnds(n) PROVE monitors' \in Seq(S)
    <3>1. <<>> \in Seq(S)
      OBVIOUS
    <3> QED  BY <2>2, <3>1 DEF ScanEnds
  <2> QED  BY <2>1, <2>2
<1> QED  BY <1>1, <1>2, PTL DEF TraySpec

\* A cast takes the monitor that was picked, unless the configuration names one, the
\* portal's dialog asks for one, the list has changed since the menu of the pick was
\* built, or the cast was started from a menu older than the pick (_monitor_name).
THEOREM MonitorAsPickedHolds ==
  ASSUME MaxCasts \in Nat, NEW S, Screens \subseteq Seq(S)
  PROVE  TraySpec => []MonitorAsPicked
<1>1. TrayInit => PickInv
  BY InitTray
<1>2. monitors \in Seq(S) /\ CastsInv /\ PickInv /\ [TrayNext]_trayVars => PickInv'
  BY PickStep
<1>3. TrayInv => CastsInv
  BY DEF TrayInv
<1>4. PickInv => MonitorAsPicked
  BY DEF PickInv
<1> QED  BY <1>1, <1>2, <1>3, <1>4, TrayAlways, MonitorsAlways, PTL DEF TraySpec
=============================================================================
