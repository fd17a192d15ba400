--------------------------- MODULE MCRTSPHandler ---------------------------
(* One keepalive timer and two sender-health timers: as many as can exist  *)
(* at once when media is started twice (a keepalive timer gets a successor *)
(* only when its thread is done, a cancelled sender-health timer may still *)
(* be in its callback when the next PLAY arms another).                    *)
EXTENDS RTSPHandler, TLC

CONSTANTS k1, p1, p2

MCTimers == {k1, p1, p2}
MCKindOf == [t \in MCTimers |-> IF t = k1 THEN "keepalive" ELSE "probe"]
MCSymmetry == Permutations({p1, p2})

Config(m, u, r) == [microsoft |-> m, uibc |-> u, r2 |-> r]
MostSinks == {Config(FALSE, FALSE, TRUE), Config(TRUE, FALSE, FALSE), Config(TRUE, TRUE, FALSE)}
FewTimers == {k1, p1}
FewKindOf == [t \in FewTimers |-> MCKindOf[t]]
UIBCOrNot == {Config(FALSE, FALSE, FALSE), Config(FALSE, TRUE, FALSE)}
AnySink  == {Config(m, u, r) : m, u, r \in BOOLEAN}
=============================================================================
