---------------------------- MODULE PeerAddress ----------------------------
(***************************************************************************)
(* Who the receiver is: the Wi-Fi Direct link tells only its MAC, the RTSP *)
(* server and the source-initiated probe need its address, and all there   *)
(* is to join them is the kernel's neighbour table, which changes under    *)
(* them (wfd/p2p/addressing.py; authenticate_client and                    *)
(* set_group_interface of wfd/rtsp/rtsp_server.py; wfd/probe.py).  The     *)
(* table holds complete rows; FAILED, INCOMPLETE and malformed ones are    *)
(* not read.                                                               *)
(***************************************************************************)
EXTENDS Integers, FiniteSets

CONSTANTS Rows,        \* possible rows: [ip, interface, mac]
          Groups,      \* the interfaces that have the name of a P2P group
          Interfaces,  \* what a backend may report: groups and others
          Receiver,    \* the MAC of the selected receiver
          Clients      \* addresses that connect to the server

VARIABLES table,      \* the neighbour table
          interface,  \* the session's group interface, "none" before
          client,     \* a connection: where, its address
          probe,      \* the probe: where, the scope and the address of its lookup
          moved       \* table or interface changed since the probe's lookup

addressVars == <<table, interface, client, probe, moved>>
None == "none"

\* The rows of one group, as "ip neigh show dev" lists them.
RowsOf(group) == {r \in table : r.interface = group}

\* mutant: any row of the group will do
_is_expected_peer_ipAny(ip) ==
  interface # None /\ \E r \in RowsOf(interface) : r.ip = ip
_is_expected_peer_ip(ip) ==
  /\ interface # None
  /\ \/ \E r \in RowsOf(interface) : r.ip = ip /\ r.mac = Receiver
     \/ \E r \in RowsOf(interface) : r.ip = ip /\ RowsOf(interface) = {r}

\* Without a scope the rows of all groups count, and only the MAC tells the receiver.
_get_peer_ip_from_arp(scope) ==
  LET candidates == IF scope # None THEN RowsOf(scope)
                    ELSE {r \in table : r.interface \in Groups}
      exact      == {r.ip : r \in {q \in candidates : q.mac = Receiver}}
  IN IF Cardinality(exact) = 1 THEN exact
     ELSE IF scope # None /\ Cardinality(candidates) = 1 THEN {r.ip : r \in candidates}
     ELSE {}

AddressInit ==
  /\ table = {} /\ interface = None /\ moved = FALSE
  /\ client = [at |-> None, ip |-> None]
  /\ probe = [at |-> None, scope |-> None, ip |-> None]

\* The kernel learns and forgets; a row with the same address on the same
\* interface is replaced.
Learn(row) ==
  /\ row \notin table
  /\ table' = {r \in table : r.ip # row.ip \/ r.interface # row.interface} \cup {row}
  /\ moved' = TRUE
  /\ UNCHANGED <<interface, client, probe>>
Forget(row) ==
  /\ row \in table /\ table' = table \ {row} /\ moved' = TRUE
  /\ UNCHANGED <<interface, client, probe>>

\* The backend publishes the group it has formed; another one is refused.
set_group_interface(i) ==
  /\ interface' = IF i \in Groups /\ interface = None THEN i ELSE interface
  /\ moved' = (moved \/ interface' # interface)
  /\ UNCHANGED <<table, client, probe>>

-----------------------------------------------------------------------------
(* authenticate_client, for a connection that came in.                      *)

ClientConnects(ip) ==
  /\ client.at = None
  /\ client' = [at |-> "waiting", ip |-> ip]
  /\ UNCHANGED <<table, interface, probe, moved>>

\* It waits for the interface, then asks until the answer is yes or time is up; an
\* answer that comes too late counts for nothing.
ClientAsks ==
  /\ client.at = "waiting" /\ _is_expected_peer_ip(client.ip)
  /\ client' = [client EXCEPT !.at = "accepted"]
  /\ UNCHANGED <<table, interface, probe, moved>>
ClientLate ==
  /\ client.at = "waiting" /\ client' = [client EXCEPT !.at = "refused"]
  /\ UNCHANGED <<table, interface, probe, moved>>

-----------------------------------------------------------------------------
(* The probe: the server's interface is read once, before the first lookup. *)

ProbeStarts ==
  /\ probe.at = None
  /\ probe' = [probe EXCEPT !.at = "looking", !.scope = interface]
  /\ UNCHANGED <<table, interface, client, moved>>
_wait_for_peer_ip ==
  /\ probe.at = "looking"
  /\ \E ip \in _get_peer_ip_from_arp(probe.scope) :
       probe' = [probe EXCEPT !.at = "found", !.ip = ip]
  /\ moved' = FALSE
  /\ UNCHANGED <<table, interface, client>>
\* claim_client, after the connection was made, asks as for a client.
ProbeAsks ==
  /\ probe.at = "found" /\ _is_expected_peer_ip(probe.ip)
  /\ probe' = [probe EXCEPT !.at = "accepted"]
  /\ UNCHANGED <<table, interface, client, moved>>
\* The lookup or the claim runs out of time, or the connection fails.
ProbeLate ==
  /\ probe.at \in {"looking", "found"} /\ probe' = [probe EXCEPT !.at = "refused"]
  /\ UNCHANGED <<table, interface, client, moved>>

AddressNext ==
  \/ \E r \in Rows : Learn(r) \/ Forget(r)
  \/ \E i \in Interfaces : set_group_interface(i)
  \/ \E ip \in Clients : ClientConnects(ip)
  \/ ClientAsks \/ ClientLate \/ ProbeStarts \/ _wait_for_peer_ip \/ ProbeAsks \/ ProbeLate
AddressSpec == AddressInit /\ [][AddressNext]_addressVars

-----------------------------------------------------------------------------
\* The address of whoever is let in, now.
Admits(ip) == \/ client' # client /\ client'.at = "accepted" /\ client.ip = ip
              \/ probe' # probe /\ probe'.at = "accepted" /\ probe.ip = ip

\* While the selected receiver is a neighbour on the session's group, nobody else
\* is let in, and a device on no other interface ever is.
NoStranger ==
  [][\A ip \in Clients \cup {r.ip : r \in Rows} : Admits(ip) =>
       /\ \E r \in table : r.ip = ip /\ r.interface = interface
       /\ (\E r \in RowsOf(interface) : r.mac = Receiver)
            => \E r \in RowsOf(interface) : r.ip = ip /\ r.mac = Receiver]_addressVars

\* The lookup and the check of the same address agree: what the probe finds on the
\* session's group is let in, unless table or interface changed in between.
FoundIsExpected ==
  (probe.at = "found" /\ probe.scope # None /\ ~moved) => _is_expected_peer_ip(probe.ip)

\* Before the interface is known, the probe finds the receiver by its MAC and on a
\* P2P group only.
FoundByMAC ==
  (probe.at = "found" /\ probe.scope = None /\ ~moved) =>
    \E r \in table : r.ip = probe.ip /\ r.mac = Receiver /\ r.interface \in Groups

\* A session serves one group: nobody is let in on an interface other than the one
\* the probe's lookup was about.
OneGroup ==
  (probe.at = "accepted" /\ probe.scope # None) => interface = probe.scope
=============================================================================
