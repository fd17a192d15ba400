----------------------------- MODULE MCDrivers -----------------------------
(***************************************************************************)
(* The two drivers share nothing: a behaviour of this module is a          *)
(* behaviour of one of them, chosen at the start.                          *)
(***************************************************************************)
EXTENDS UIBCInput, LPCMMux

VARIABLE driver

drivers == <<driver, vars, muxVars>>

MuxStays == UNCHANGED <<driver, muxVars>>
UIBCStays == UNCHANGED <<driver, vars>>

DriversInit == driver \in {"mux", "uibc"} /\ Init /\ MuxInit
DriversNext == \/ driver = "mux" /\ MuxNext /\ UIBCStays
               \/ driver = "uibc" /\ Next /\ MuxStays
DriversSpec ==
  /\ DriversInit /\ [][DriversNext]_drivers
  /\ WF_drivers(driver = "mux" /\ Loop /\ UIBCStays)
  /\ WF_drivers(driver = "uibc" /\ AcceptEnds /\ MuxStays)
  /\ WF_drivers(driver = "uibc" /\ ConnectionEnds /\ MuxStays)
  /\ WF_drivers(driver = "uibc" /\ NextRead /\ MuxStays)
  /\ WF_drivers(driver = "uibc" /\ Dispatch /\ MuxStays)
  /\ WF_drivers(driver = "uibc" /\ Emit /\ MuxStays)
  /\ WF_drivers(driver = "uibc" /\ Stopper /\ MuxStays)

\* The byte streams of the runs: DOWN, an UP without a pointer, UP, DOWN; a DOWN with
\* two of its three pointers, then DOWN; garbage before UP; a key, a packet that is not
\* GENERIC and half a MOVE.
MCStreams == { <<0, 4, 1, 3, 1, 3, 0, 1, 4, 1, 3, 0, 4, 1, 2>>, <<0, 5, 3, 1, 7, 0, 4, 1, 2>>,
               <<9, 9, 0, 1, 4, 1, 2>>, <<3, 3, 5, 6, 4, 1, 2, 2, 4, 1>> }

\* Both drivers' variables have their types: counters and ids stay within their
\* ranges, and a contact stays on the monitor.
DriversTypeOK == TypeOK /\ MuxTypeOK
=============================================================================
