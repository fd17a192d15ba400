---------------------------- MODULE SessionLease ----------------------------
(***************************************************************************)
(* What WFDRTSPServer promises its sessions: an exclusive lease on the     *)
(* selected receiver.  The lease is reserved first and confirmed once the  *)
(* receiver answers.  A reservation may be taken over by the source's own  *)
(* outgoing connection, a confirmed lease by nobody; only the session that *)
(* holds a confirmed lease sends media, and it stops sending before it     *)
(* gives the lease back.                                                   *)
(***************************************************************************)
CONSTANTS Sessions,    \* the RTSP connections that may want the receiver
          Preemptors,  \* those allowed to take over an unconfirmed lease
          NoSession    \* nobody holds the lease; not in Sessions

VARIABLES holder,     \* the session that holds the lease, or NoSession
          confirmed,  \* whether the receiver has answered the holder
          streaming   \* the sessions that have a media pipeline

leaseVars == <<holder, confirmed, streaming>>

LeaseInit ==
  /\ holder = NoSession
  /\ confirmed = FALSE
  /\ streaming = {}

Acquire(s) ==
  /\ \/ holder = NoSession
     \/ s \in Preemptors /\ ~confirmed
  /\ holder' = s
  /\ confirmed' = FALSE
  /\ UNCHANGED streaming

Confirm(s) ==
  /\ holder = s
  /\ confirmed' = TRUE
  /\ UNCHANGED <<holder, streaming>>

BeginStream(s) ==
  /\ holder = s
  /\ confirmed
  /\ streaming' = streaming \cup {s}
  /\ UNCHANGED <<holder, confirmed>>

EndStream(s) ==
  /\ streaming' = streaming \ {s}
  /\ UNCHANGED <<holder, confirmed>>

Release(s) ==
  /\ holder = s
  /\ s \notin streaming
  /\ holder' = NoSession
  /\ confirmed' = FALSE
  /\ UNCHANGED streaming

LeaseNext ==
  \E s \in Sessions : \/ Acquire(s)
                      \/ Confirm(s)
                      \/ BeginStream(s)
                      \/ EndStream(s)
                      \/ Release(s)

LeaseSpec == LeaseInit /\ [][LeaseNext]_leaseVars
=============================================================================
