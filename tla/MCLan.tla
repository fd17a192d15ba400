------------------------------- MODULE MCLan -------------------------------
(***************************************************************************)
(* The parts of a cast over the LAN, each by itself: the progressive       *)
(* stream of the HTTP server, the program that casts, the tray that starts *)
(* and ends it.  A behaviour is one of one of them, chosen at the start.   *)
(***************************************************************************)
EXTENDS LanCast, TrayCast, ProgressiveTS

VARIABLE part

lanVars == <<part, vars, trayVars, serverVars>>

ServerOnly == part = "server" /\ UNCHANGED <<part, vars, trayVars>>
CastOnly == part = "cast" /\ UNCHANGED <<part, trayVars, serverVars>>
TrayOnly == part = "tray" /\ UNCHANGED <<part, vars, serverVars>>

\* The parts that are not chosen wait in one of their initial states.
LanInit ==
  /\ part \in {"server", "cast", "tray"}
  /\ Init /\ TrayInit /\ ServerInit
  /\ part # "cast" => choice = [protocol |-> "dlna", order |-> <<"x11grab">>]

LanNext == \/ ServerOnly /\ ServerNext
           \/ CastOnly /\ Next
           \/ TrayOnly /\ TrayNext

LanSpec ==
  /\ LanInit /\ [][LanNext]_lanVars
  /\ \A r \in Requests : WF_lanVars(ServerOnly /\ RequestStep(r))
  /\ \A w \in Writers : WF_lanVars(ServerOnly /\ WriterStep(w))
  /\ WF_lanVars(CastOnly /\ (MainStep \/ ShutdownStep))
  /\ WF_lanVars(TrayOnly /\ ThreadStep)

\* No monitor, one, and one more that takes its index.
MCScreens == {<<1>>, <<2, 1>>}
=============================================================================
