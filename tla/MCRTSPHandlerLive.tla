------------------------- MODULE MCRTSPHandlerLive -------------------------
(* Two behaviours of the receiver, chosen at the start: any, in two        *)
(* configurations; or the one of CooperativeSpec, in all of them.          *)
EXTENDS MCRTSPHandler

VARIABLE cooperative

liveVars == <<vars, cooperative>>
Adverse(Action) == ~cooperative /\ Action /\ UNCHANGED cooperative
Helpful(Action) == cooperative /\ Action /\ UNCHANGED cooperative

LiveInit ==
  /\ Init /\ cooperative \in BOOLEAN
  /\ ~cooperative => Config(microsoft, uibc, m3_r2) \in UIBCOrNot

LiveNext ==
  \/ ~cooperative /\ Next /\ UNCHANGED cooperative
  \/ cooperative /\ CooperativeNext /\ UNCHANGED cooperative

LiveSpec ==
  /\ LiveInit /\ [][LiveNext]_liveVars
  /\ WF_liveVars(Adverse(HandlerStep))
  /\ WF_liveVars(Adverse(sock = "shut" /\ Leave))
  /\ \A t \in Timers : WF_liveVars(Adverse(TimerStep(t)))
  /\ WF_liveVars(Helpful(Connect))
  /\ WF_liveVars(Helpful(Options))
  /\ WF_liveVars(Helpful(M3Accepted \/ M3Rejected))
  /\ WF_liveVars(Helpful(M4Accepted))

\* NegotiationCompletes: a receiver that cooperates gets as far as M5, whatever the
\* configuration, R2 parameters refused or not.
CooperationCompletes == cooperative => NegotiationCompletes

=============================================================================
