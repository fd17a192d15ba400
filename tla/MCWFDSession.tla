---------------------------- MODULE MCWFDSession ----------------------------
(* Both P2P backends; up to two Ctrl+C, so that one can end the session    *)
(* and another one disturb its teardown.                                   *)
EXTENDS WFDSession, TLC
=============================================================================
