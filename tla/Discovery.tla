----------------------------- MODULE Discovery ------------------------------
(***************************************************************************)
(* Which receiver is meant: the scan for Wi-Fi Direct peers through        *)
(* NetworkManager or wpa_cli (wfd/p2p/nm.py, dbus.py, peers.py), what the  *)
(* Wi-Fi Display bytes of a peer say of it (wfd/ie.py), and the choice     *)
(* among the peers found (peers.py).  Every read of a peer may fail, and a *)
(* peer may be gone when it is read.  A device is the record of what it is *)
(* and advertises; a subelement is its id and its body, and the bytes are  *)
(* those that go over the air.                                             *)
(***************************************************************************)
EXTENDS Integers, Sequences, SequencesExt, FiniteSets

\* What a peer goes by whose address cannot be read.
PathTail == "path"

CONSTANTS Devices,    \* [mac, key, names, macs, subs, owner, push]: key is the MAC that
                      \* wpa_supplicant knows it by, names and macs the texts that are
                      \* part of its name and its MAC, subs what it advertises
          Selectors,  \* of --wfd-peer: <<"index", i>>, <<"text", t>>; <<"prompt">> without
          Attempts,   \* scans for a selector
          MaxNearby,  \* bound of the devices in reach at a time
          Reads       \* which of a peer's name, address and ies may be read together

\* wpa_supplicant knows no device by the MAC of another.
ASSUME DiscoveryAssumption ==
  /\ \A d, e \in Devices : d.key = e.mac => d = e
  /\ \A d \in Devices : d.key # PathTail
  /\ \A s \in Selectors : \/ s = <<"prompt">>
                          \/ s[1] = "index" /\ s[2] \in Nat
                          \/ s[1] = "text"

VARIABLES nearby,        \* the devices in reach
          selector,
          scan_at,       \* "scanning", "asking", "reading", "details", "scanned",
                         \* "chosen", "refused"
          attempt,
          listed,        \* the peers of the scan that are still to be read
          capabilities,  \* what wpa_supplicant said, of the peers it was asked about
          peers,         \* the peers read
          chosen

discVars == <<nearby, selector, scan_at, attempt, listed, capabilities, peers, chosen>>
Unknown == "unknown"
NoType == -1

-----------------------------------------------------------------------------
(* Wi-Fi Display bytes.                                                     *)

Bytes(sub) == <<sub.id, 0, Len(sub.body)>> \o sub.body
OverTheAir(subs) == FlattenSeq([i \in 1..Len(subs) |-> Bytes(subs[i])])
\* The source itself, at its RTSP port.
_wfd_source_ie(port) ==
  <<[id |-> 0, body |-> <<0, 16, port \div 256, port % 256, 0, 200>>],
    [id |-> 10, body |-> <<70, 67>>]>>

\* From each place on, the body of the first Device Information that is whole, <<>>
\* if there is none.
InfoFrom(bytes) ==
  LET from[i \in 1..(Len(bytes) + 1)] ==
        IF i + 2 > Len(bytes) THEN <<>>
        ELSE LET len == 256 * bytes[i + 1] + bytes[i + 2]
             IN IF bytes[i] = 0 /\ len >= 6 /\ i + 2 + len <= Len(bytes)
                THEN SubSeq(bytes, i + 3, i + 2 + len)
                ELSE IF i + 3 + len > Len(bytes) THEN <<>>
                ELSE from[i + 3 + len]
  IN from
_wfd_device_info_body(bytes) == IF Len(bytes) < 6 THEN <<>> ELSE InfoFrom(bytes)[1]

_parse_wfd_ies_rtsp_port(bytes) ==
  LET info == _wfd_device_info_body(bytes)
      port == IF info = <<>> THEN 0 ELSE 256 * info[3] + info[4]
  IN IF port > 0 THEN port ELSE 7236

Verdict(capable, type) == [capable |-> capable, type |-> type]
NoVerdict == Verdict(Unknown, NoType)

\* Whether the peer can receive a stream, and the type of device it says it is.
_wfd_capability(bytes) ==
  LET info == _wfd_device_info_body(bytes)
  IN CASE bytes = <<>> -> Verdict("no", NoType)
       [] bytes # <<>> /\ info = <<>> -> NoVerdict
       [] info # <<>> -> Verdict(IF info[2] % 4 = 0 THEN "no" ELSE "yes", info[2] % 4)

\* wpa_cli's fields hold the subelements, or the body of one only; one that is empty
\* says nothing.
_wfd_capability_from_hex(bytes) ==
  IF bytes = <<>> THEN NoVerdict
  ELSE IF Len(bytes) = 6 /\ _wfd_capability(bytes).type = NoType
  THEN _wfd_capability(<<0, 0, 6>> \o bytes)
  ELSE _wfd_capability(bytes)

-----------------------------------------------------------------------------
(* The scan.                                                                *)

DiscInit ==
  /\ nearby \in {n \in SUBSET Devices : Cardinality(n) <= MaxNearby} /\ selector \in Selectors
  /\ scan_at = "scanning" /\ attempt = 1
  /\ listed = {} /\ capabilities = {} /\ peers = <<>> /\ chosen = <<>>

\* A device comes or goes; it makes no difference whether it does so before or while
\* wpa_supplicant is asked.
Moves(d) ==
  /\ scan_at \in {"scanning", "reading", "details"}
  /\ nearby' = IF d \in nearby THEN nearby \ {d} ELSE nearby \cup {d}
  /\ Cardinality(nearby') <= MaxNearby
  /\ UNCHANGED <<selector, scan_at, attempt, listed, capabilities, peers, chosen>>

\* NetworkManager searches and lists its peers; without it, or without its device,
\* wpa_cli does, and if that cannot either the selection is over.
_nm_scan ==
  /\ scan_at = "scanning" /\ scan_at' = "asking" /\ listed' \in {nearby, {}}
  /\ peers' = <<>>
  /\ UNCHANGED <<nearby, selector, attempt, capabilities, chosen>>
active_scan ==
  /\ scan_at \in {"scanning", "asking", "reading"}
  /\ \/ scan_at' = "details" /\ listed' = nearby
     \/ scan_at' = "refused" /\ listed' = {}
  /\ peers' = <<>> /\ capabilities' = {}
  /\ UNCHANGED <<nearby, selector, attempt, chosen>>

\* wpa_supplicant is asked for what NetworkManager does not know: of some of its
\* peers, as far as time allows, and of each what it answers.
_wpas_peer_capabilities ==
  /\ scan_at = "asking" /\ scan_at' = "reading"
  /\ \E answering \in SUBSET nearby, owners \in BOOLEAN, methods \in BOOLEAN :
       capabilities' = {[key |-> d.key, owner |-> IF owners THEN d.owner ELSE Unknown,
                         push |-> IF methods THEN d.push ELSE Unknown] : d \in answering}
  /\ UNCHANGED <<nearby, selector, attempt, listed, peers, chosen>>

\* mutant: a peer that wpa_supplicant was not asked about counts as reachable
CapabilityOfReachable(address) ==
  IF \E c \in capabilities : c.key = address
  THEN CHOOSE c \in capabilities : c.key = address
  ELSE [key |-> address, owner |-> "no", push |-> "yes"]
CapabilityOf(address) ==
  IF \E c \in capabilities : c.key = address
  THEN CHOOSE c \in capabilities : c.key = address
  ELSE [key |-> address, owner |-> Unknown, push |-> Unknown]

\* The next of NetworkManager's peers; each of its properties is read by itself, and
\* of one that is gone none can be.  Without its address it goes by the last part of
\* its D-Bus path, by which wpa_supplicant knows nobody.
ReadPeer(d, readable) ==
  /\ scan_at = "reading" /\ d \in listed /\ listed' = listed \ {d}
  /\ d \notin nearby => readable = {}
  /\ LET ies     == "ies" \in readable
         bytes   == IF ies THEN OverTheAir(d.subs) ELSE <<>>
         verdict == IF ies THEN _wfd_capability(bytes) ELSE NoVerdict
         address == IF "address" \in readable THEN d.mac ELSE PathTail
     IN peers' = Append(peers,
          [device |-> d, by_nm |-> TRUE, read |-> ies,
           texts |-> (IF "name" \in readable THEN d.names ELSE {})
                    \cup (IF "address" \in readable THEN d.macs ELSE {PathTail}),
           capable |-> verdict.capable, type |-> verdict.type,
           rtsp_port |-> _parse_wfd_ies_rtsp_port(bytes),
           owner |-> CapabilityOf(address).owner, push |-> CapabilityOf(address).push])
  /\ UNCHANGED <<nearby, selector, scan_at, attempt, capabilities, chosen>>

\* What "wpa_cli p2p_peer" says of a peer.  Which of its two fields tells of Wi-Fi
\* Display, bare or whole, is up to it, and whether it has one for a peer that
\* advertises nothing; a call that fails says nothing at all.
Fields(d) == {"whole"} \cup (IF d.subs = <<>> THEN {"none"}
                             ELSE IF d.subs[1].id = 0 THEN {"bare"} ELSE {})
_parse_peer_capability(d, details, field) ==
  CASE ~details                      -> NoVerdict
    [] details /\ field = "none"     -> Verdict("no", NoType)
    [] details /\ field # "none"     ->
         _wfd_capability_from_hex(IF field = "bare" THEN d.subs[1].body ELSE OverTheAir(d.subs))
_parse_peer_blockers(d, details) ==
  [owner |-> IF details THEN d.owner ELSE Unknown,
   push |-> IF details THEN d.push ELSE Unknown]

\* The next of wpa_cli's peers.
ReadDetails(d, details, field) ==
  /\ scan_at = "details" /\ d \in listed /\ listed' = listed \ {d}
  /\ d \notin nearby => ~details
  /\ field \in Fields(d)
  /\ peers' = Append(peers,
       [device |-> d, by_nm |-> FALSE, read |-> details,
        texts |-> (IF details THEN d.names ELSE {}) \cup d.macs,
        capable |-> _parse_peer_capability(d, details, field).capable,
        type |-> _parse_peer_capability(d, details, field).type, rtsp_port |-> 7236,
        owner |-> _parse_peer_blockers(d, details).owner,
        push |-> _parse_peer_blockers(d, details).push])
  /\ UNCHANGED <<nearby, selector, scan_at, attempt, capabilities, chosen>>

ScanEnds ==
  /\ scan_at \in {"reading", "details"} /\ listed = {} /\ scan_at' = "scanned"
  /\ UNCHANGED <<nearby, selector, attempt, listed, capabilities, peers, chosen>>

-----------------------------------------------------------------------------
(* The choice.                                                              *)

\* The peers a selector means, the first of which is taken: an index counts from 0.
Meant(s) ==
  CASE s[1] = "index" -> {i \in 1..Len(peers) : i = s[2] + 1}
    [] s[1] = "text"  -> {i \in 1..Len(peers) : s[2] \in peers[i].texts}
First(places) == CHOOSE i \in places : \A j \in places : i <= j

_select_peer(s) ==
  /\ Meant(s) # {}
  /\ chosen' = <<s, peers[First(Meant(s))]>> /\ scan_at' = "chosen"
  /\ UNCHANGED <<nearby, selector, attempt, listed, capabilities, peers>>

\* Without a selector the user is asked once, with one there is another scan.
Select ==
  /\ scan_at = "scanned"
  /\ \E s \in IF selector = <<"prompt">> THEN Selectors \ {selector} ELSE {selector} :
       \/ _select_peer(s)
       \/ /\ Meant(s) = {}
          /\ IF selector # <<"prompt">> /\ attempt < Attempts
             THEN scan_at' = "scanning" /\ attempt' = attempt + 1
             ELSE scan_at' = "refused" /\ UNCHANGED attempt
          /\ UNCHANGED <<nearby, selector, listed, capabilities, peers, chosen>>

DiscNext ==
  \/ _nm_scan \/ active_scan \/ _wpas_peer_capabilities \/ ScanEnds \/ Select
  \/ \E d \in Devices :
       \/ Moves(d)
       \/ \E readable \in Reads : ReadPeer(d, readable)
       \/ \E details \in BOOLEAN, field \in Fields(d) : ReadDetails(d, details, field)
DiscSpec == DiscInit /\ [][DiscNext]_discVars

-----------------------------------------------------------------------------
\* What a device is, as it advertises itself.
WholeInfos(d) == {i \in 1..Len(d.subs) : d.subs[i].id = 0 /\ Len(d.subs[i].body) >= 6}
InfoOf(d) == d.subs[First(WholeInfos(d))].body
TypeOf(d) == IF WholeInfos(d) = {} THEN NoType ELSE InfoOf(d)[2] % 4
CapableOf(d) == CASE d.subs = <<>> -> "no"
                  [] d.subs # <<>> /\ TypeOf(d) = NoType -> Unknown
                  [] OTHER -> IF TypeOf(d) = 0 THEN "no" ELSE "yes"

\* Advertised as the code that reads it bare expects: a Device Information that comes
\* first has the six bytes the standard gives it, or it is short and the only one; and
\* what is not bare has more or less than six bytes.
WellAdvertised(d) ==
  /\ d.subs \in Seq([id : Nat, body : Seq(Nat)])
  /\ \A i \in 1..Len(d.subs) : Len(d.subs[i].body) <= 255
  /\ Len(OverTheAir(d.subs)) # 6
  /\ d.subs # <<>> /\ d.subs[1].id = 0 =>
       \/ Len(d.subs[1].body) = 6
       \/ Len(d.subs[1].body) \in 1..5 /\ WholeInfos(d) = {}

\* A peer is said to be unreachable, or reachable, only as it is itself: never for
\* what another one answered or because nobody was asked.
BlockersOfItsOwn ==
  \A i \in 1..Len(peers) :
    /\ peers[i].owner \in {Unknown, peers[i].device.owner}
    /\ peers[i].push \in {Unknown, peers[i].device.push}

\* No peer gets a verdict that what it advertises does not bear out: another source
\* is not taken for a sink, one that could not be read not for anything, and both
\* ways of asking give the same answer - only of a peer that advertises nothing
\* wpa_cli may leave it open.
PeersAsAdvertised ==
  BlockersOfItsOwn /\ \A i \in 1..Len(peers) :
    LET p == peers[i]
    IN IF ~p.read THEN p.capable = Unknown /\ p.type = NoType
       ELSE /\ \/ p.capable = CapableOf(p.device)
               \/ p.capable = Unknown /\ p.device.subs = <<>> /\ ~p.by_nm
            /\ p.type = TypeOf(p.device)
            /\ p.by_nm /\ p.type # NoType =>
                 LET info == InfoOf(p.device)
                     port == 256 * info[3] + info[4]
                 IN p.rtsp_port = IF port > 0 THEN port ELSE 7236
=============================================================================
