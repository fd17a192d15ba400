-------------------------- MODULE MCRTSPOwnership --------------------------
(* Three inbound connections and the probe; c3 is another host of the      *)
(* group.  Two slots, so that a full table is reached.                     *)
EXTENDS RTSPOwnership, TLC

CONSTANTS c1, c2, c3, probe, tv, other

MCPassive == {c1, c2, c3}
MCHostOf == [s \in MCPassive \cup {probe} |-> IF s = c3 THEN other ELSE tv]
=============================================================================
