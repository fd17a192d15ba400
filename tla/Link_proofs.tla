---------------------------- MODULE Link_proofs -----------------------------
(***************************************************************************)
(* Theorems about what it takes to bring up a Wi-Fi Display link, for all  *)
(* values of the constants: who the receiver is (PeerAddress), what is     *)
(* agreed on with it (Negotiation), how its messages are waited for and    *)
(* read (RTSPReader) and what is said of a peer before (Discovery).        *)
(***************************************************************************)
EXTENDS PeerAddress, Negotiation, RTSPReader, Discovery, FiniteSetTheorems, SequenceTheorems,
        WellFoundedInduction, TLAPS

-----------------------------------------------------------------------------
(* Numbers.                                                                *)

\* A set of naturals that has the next of each of its elements has all from its first.
LEMMA Induction ==
  ASSUME NEW T, 0 \in T, \A k \in Nat : k \in T => k + 1 \in T
  PROVE  Nat \subseteq T
<1> DEFINE R == {ss \in Nat \X Nat : ss[1] < ss[2]}
           D == Nat \ T
<1>1. IsWellFoundedOn(R, Nat)
  BY NatLessThanWellFounded, Zenon DEF OpToRel
<1>2. SUFFICES ASSUME D # {} PROVE FALSE
  OBVIOUS
<1> HIDE DEF R
<1>3. PICK z \in D : \A y \in D : <<y, z>> \notin R
  BY <1>1, <1>2, WFMin, Zenon
<1>4. z \in Nat /\ z - 1 \in Nat /\ z - 1 + 1 = z /\ z - 1 < z
  BY <1>3
<1>5. z - 1 \notin D
  <2>1. <<z - 1, z>> \in R
    BY <1>4 DEF R
  <2> QED  BY <1>3, <2>1
<1> QED  BY <1>3, <1>4, <1>5

\* Every set of naturals has a least element.
LEMMA LeastExists ==
  ASSUME NEW T, T \subseteq Nat, T # {}
  PROVE  \E x \in T : \A y \in T : x <= y
<1> DEFINE R == {ss \in Nat \X Nat : ss[1] < ss[2]}
<1>1. IsWellFoundedOn(R, Nat)
  BY NatLessThanWellFounded, Zenon DEF OpToRel
<1> HIDE DEF R
<1>2. PICK x \in T : \A y \in T : <<y, x>> \notin R
  BY <1>1, WFMin, Zenon
<1>3. ASSUME NEW y \in T PROVE x <= y
  <2>1. y \in Nat /\ x \in Nat /\ <<y, x>> \notin R
    BY <1>2
  <2> QED
    BY <2>1 DEF R
<1> QED
  BY <1>3

-----------------------------------------------------------------------------
(* Who the receiver is.                                                    *)

\* What is known of every state beside the properties: the records have their
\* fields, and the scope of a lookup, once it is one, is the session's interface.
Addresses == Clients \cup {r.ip : r \in Rows} \cup {None}
Shape ==
  /\ table \subseteq Rows
  /\ client \in [at : {None, "waiting", "accepted", "refused"}, ip : Addresses]
  /\ probe \in [at : {None, "looking", "found", "accepted", "refused"},
                scope : Groups \cup {None}, ip : Addresses]
  /\ interface \in Groups \cup {None}
  /\ moved \in BOOLEAN
ScopeIsInterface == probe.scope # None => interface = probe.scope
AddressInv == Shape /\ ScopeIsInterface

-----------------------------------------------------------------------------
\* What the lookup returns is the address of a neighbour.
LEMMA LookupInTable ==
  ASSUME NEW scope, NEW ip \in _get_peer_ip_from_arp(scope)
  PROVE  \E r \in table : r.ip = ip
BY DEF _get_peer_ip_from_arp, RowsOf

\* What the lookup finds on a group by itself is let in by the check.
LEMMA LookupIsExpected ==
  ASSUME IsFiniteSet(Rows), table \subseteq Rows, interface # None,
         NEW ip \in _get_peer_ip_from_arp(interface)
  PROVE  _is_expected_peer_ip(ip)
<1> DEFINE exact == {r.ip : r \in {q \in RowsOf(interface) : q.mac = Receiver}}
<1>1. CASE ip \in exact
  BY <1>1 DEF _is_expected_peer_ip
<1>2. CASE ip \notin exact
  <2>1. /\ Cardinality(RowsOf(interface)) = 1
        /\ ip \in {r.ip : r \in RowsOf(interface)}
    BY <1>2 DEF _get_peer_ip_from_arp
  <2>2. IsFiniteSet(RowsOf(interface))
    BY FS_Subset DEF RowsOf
  <2>3. PICK row : RowsOf(interface) = {row}
    BY <2>1, <2>2, FS_Singleton
  <2>4. row.ip = ip
    BY <2>1, <2>3
  <2>5. QED  BY <2>3, <2>4 DEF _is_expected_peer_ip
<1>3. QED  BY <1>1, <1>2

-----------------------------------------------------------------------------
\* Nothing is looked up yet and nobody has connected.
LEMMA InitAddress == AddressInit => AddressInv
<1> SUFFICES ASSUME AddressInit PROVE AddressInv
  OBVIOUS
<1>1. None \in Addresses
  BY DEF Addresses
<1>2. Shape
  BY <1>1 DEF AddressInit, Shape
<1>3. QED  BY <1>2 DEF AddressInit, AddressInv, ScopeIsInterface

\* No step sets the interface twice, so a scope stays the interface.
LEMMA StepAddress == AddressInv /\ [AddressNext]_addressVars => AddressInv'
<1> SUFFICES ASSUME AddressInv, [AddressNext]_addressVars PROVE AddressInv'
  OBVIOUS
<1> USE DEF AddressInv, Shape, ScopeIsInterface, Addresses
<1>1. ASSUME NEW r \in Rows, Learn(r) \/ Forget(r) PROVE AddressInv'
  BY <1>1 DEF Learn, Forget
<1>2. ASSUME NEW i \in Interfaces, set_group_interface(i) PROVE AddressInv'
  BY <1>2 DEF set_group_interface
<1>3. ASSUME NEW ip \in Clients, ClientConnects(ip) PROVE AddressInv'
  BY <1>3 DEF ClientConnects
<1>4. CASE ClientAsks \/ ClientLate
  BY <1>4 DEF ClientAsks, ClientLate
<1>5. CASE ProbeStarts
  BY <1>5 DEF ProbeStarts
<1>6. CASE _wait_for_peer_ip
  <2>1. PICK ip \in _get_peer_ip_from_arp(probe.scope) :
          probe' = [probe EXCEPT !.at = "found", !.ip = ip]
    BY <1>6 DEF _wait_for_peer_ip
  <2>2. ip \in Addresses
    BY LookupInTable
  <2>3. QED  BY <1>6, <2>1, <2>2 DEF _wait_for_peer_ip
<1>7. CASE ProbeAsks \/ ProbeLate
  BY <1>7 DEF ProbeAsks, ProbeLate
<1>8. CASE UNCHANGED addressVars
  BY <1>8 DEF addressVars
<1>9. QED  BY <1>1, <1>2, <1>3, <1>4, <1>5, <1>6, <1>7, <1>8 DEF AddressNext

\* The shape of the records holds in every state.
LEMMA AddressAlways == AddressSpec => []AddressInv
BY InitAddress, StepAddress, PTL DEF AddressSpec

-----------------------------------------------------------------------------
\* set_group_interface refuses a second group: whoever the probe lets in after a
\* lookup on a group is let in on that group.
THEOREM OneGroupHolds == AddressSpec => []OneGroup
<1>1. AddressInv => OneGroup
  BY DEF AddressInv, Shape, ScopeIsInterface, OneGroup
<1>2. QED  BY <1>1, AddressAlways, PTL

\* authenticate_client and claim_client: while the selected receiver is a neighbour
\* on the group nobody else is let in, and never a device that is not on the group.
THEOREM NoStrangerHolds == AddressSpec => NoStranger
<1> DEFINE Step == \A ip \in Clients \cup {r.ip : r \in Rows} : Admits(ip) =>
       /\ \E r \in table : r.ip = ip /\ r.interface = interface
       /\ (\E r \in RowsOf(interface) : r.mac = Receiver)
            => \E r \in RowsOf(interface) : r.ip = ip /\ r.mac = Receiver
<1>1. AddressInv /\ [AddressNext]_addressVars => [Step]_addressVars
  <2> SUFFICES ASSUME AddressInv, [AddressNext]_addressVars,
                      NEW ip \in Clients \cup {r.ip : r \in Rows},
                      Admits(ip)
               PROVE  /\ \E r \in table : r.ip = ip /\ r.interface = interface
                      /\ (\E r \in RowsOf(interface) : r.mac = Receiver)
                           => \E r \in RowsOf(interface) : r.ip = ip /\ r.mac = Receiver
    OBVIOUS
  <2>1. _is_expected_peer_ip(ip)
    <3> USE DEF AddressInv, Shape, Admits
    <3>1. ASSUME NEW r \in Rows, Learn(r) \/ Forget(r) PROVE FALSE
      BY <3>1 DEF Learn, Forget
    <3>2. ASSUME NEW i \in Interfaces, set_group_interface(i) PROVE FALSE
      BY <3>2 DEF set_group_interface
    <3>3. ASSUME NEW c \in Clients, ClientConnects(c) PROVE FALSE
      BY <3>3 DEF ClientConnects
    <3>4. CASE ClientAsks
      BY <3>4 DEF ClientAsks
    <3>5. CASE ProbeAsks
      BY <3>5 DEF ProbeAsks
    <3>6. CASE ClientLate \/ ProbeStarts \/ ProbeLate
      BY <3>6 DEF ClientLate, ProbeStarts, ProbeLate
    <3>7. CASE _wait_for_peer_ip
      BY <3>7 DEF _wait_for_peer_ip
    <3>8. CASE UNCHANGED addressVars
      BY <3>8 DEF addressVars
    <3>9. QED  BY <3>1, <3>2, <3>3, <3>4, <3>5, <3>6, <3>7, <3>8 DEF AddressNext
  <2>2. PICK r \in RowsOf(interface) :
          r.ip = ip /\ (r.mac = Receiver \/ RowsOf(interface) = {r})
    BY <2>1 DEF _is_expected_peer_ip
  <2>3. QED  BY <2>2 DEF RowsOf
<1>2. QED  BY <1>1, AddressAlways, PTL DEF AddressSpec, NoStranger

-----------------------------------------------------------------------------
\* Before the interface is known, the lookup takes an address only for its MAC and
\* only from a P2P group.
THEOREM FoundByMACHolds == AddressSpec => []FoundByMAC
<1>1. AddressInit => FoundByMAC
  BY DEF AddressInit, FoundByMAC, None
<1>2. FoundByMAC /\ AddressInv /\ [AddressNext]_addressVars => FoundByMAC'
  <2> SUFFICES ASSUME FoundByMAC, AddressInv, [AddressNext]_addressVars PROVE FoundByMAC'
    OBVIOUS
  <2> USE DEF AddressInv, Shape, FoundByMAC
  <2>1. ASSUME NEW r \in Rows, Learn(r) \/ Forget(r) PROVE FoundByMAC'
    BY <2>1 DEF Learn, Forget
  <2>2. ASSUME NEW i \in Interfaces, set_group_interface(i) PROVE FoundByMAC'
    BY <2>2 DEF set_group_interface
  <2>3. ASSUME NEW ip \in Clients, ClientConnects(ip) PROVE FoundByMAC'
    BY <2>3 DEF ClientConnects
  <2>4. CASE ClientAsks \/ ClientLate
    BY <2>4 DEF ClientAsks, ClientLate
  <2>5. CASE ProbeStarts \/ ProbeAsks \/ ProbeLate
    BY <2>5 DEF ProbeStarts, ProbeAsks, ProbeLate
  <2>6. CASE _wait_for_peer_ip
    BY <2>6 DEF _wait_for_peer_ip, _get_peer_ip_from_arp
  <2>7. CASE UNCHANGED addressVars
    BY <2>7 DEF addressVars
  <2>8. QED  BY <2>1, <2>2, <2>3, <2>4, <2>5, <2>6, <2>7 DEF AddressNext
<1>3. QED  BY <1>1, <1>2, AddressAlways, PTL DEF AddressSpec

\* The lookup and the check agree: what the probe found on the session's group is
\* let in, unless table or interface have changed.
THEOREM FoundIsExpectedHolds ==
  ASSUME IsFiniteSet(Rows) PROVE AddressSpec => []FoundIsExpected
<1>1. AddressInit => FoundIsExpected
  BY DEF AddressInit, FoundIsExpected, None
<1>2. FoundIsExpected /\ AddressInv /\ [AddressNext]_addressVars => FoundIsExpected'
  <2> SUFFICES ASSUME FoundIsExpected, AddressInv, [AddressNext]_addressVars PROVE FoundIsExpected'
    OBVIOUS
  <2>1. ASSUME NEW r \in Rows, Learn(r) \/ Forget(r) PROVE FoundIsExpected'
    BY <2>1 DEF Learn, Forget, FoundIsExpected
  <2>2. ASSUME NEW i \in Interfaces, set_group_interface(i) PROVE FoundIsExpected'
    <3>1. CASE interface' = interface
      BY <2>2, <3>1 DEF set_group_interface, FoundIsExpected, _is_expected_peer_ip, RowsOf,
                        AddressInv, Shape
    <3>2. CASE interface' # interface
      BY <2>2, <3>2 DEF set_group_interface, FoundIsExpected
    <3>3. QED  BY <3>1, <3>2
  <2>3. ASSUME NEW ip \in Clients, ClientConnects(ip) PROVE FoundIsExpected'
    BY <2>3 DEF ClientConnects, FoundIsExpected, _is_expected_peer_ip, RowsOf
  <2>4. CASE ClientAsks \/ ClientLate
    BY <2>4 DEF ClientAsks, ClientLate, FoundIsExpected, _is_expected_peer_ip, RowsOf
  <2>5. CASE ProbeStarts \/ ProbeAsks \/ ProbeLate
    BY <2>5 DEF ProbeStarts, ProbeAsks, ProbeLate, FoundIsExpected, AddressInv, Shape, None
  <2>6. CASE _wait_for_peer_ip
    <3> SUFFICES ASSUME probe'.scope # None PROVE _is_expected_peer_ip(probe.ip)'
      BY DEF FoundIsExpected
    <3>1. PICK ip \in _get_peer_ip_from_arp(probe.scope) :
            probe' = [probe EXCEPT !.at = "found", !.ip = ip]
      BY <2>6 DEF _wait_for_peer_ip
    <3>2. probe'.ip = ip /\ probe'.scope = probe.scope
      BY <3>1 DEF AddressInv, Shape
    <3>3. probe.scope = interface /\ interface # None
      BY <3>2 DEF AddressInv, ScopeIsInterface
    <3>4. _is_expected_peer_ip(ip)
      BY <3>1, <3>3, LookupIsExpected DEF AddressInv, Shape
    <3>5. UNCHANGED <<table, interface>>
      BY <2>6 DEF _wait_for_peer_ip
    <3>6. QED  BY <3>2, <3>4, <3>5 DEF _is_expected_peer_ip, RowsOf
  <2>7. CASE UNCHANGED addressVars
    BY <2>7 DEF addressVars, FoundIsExpected, _is_expected_peer_ip, RowsOf
  <2>8. QED  BY <2>1, <2>2, <2>3, <2>4, <2>5, <2>6, <2>7 DEF AddressNext
<1>3. QED  BY <1>1, <1>2, AddressAlways, PTL DEF AddressSpec

-----------------------------------------------------------------------------
(* What is agreed on: ports.                                               *)

\* A pair of ports from an even one on.
Apart(port, ports) ==
  {port, port + 1} \cap {ports[1], IF ports[2] = 0 THEN ports[1] + 1 ELSE ports[2]} = {}

\* Two ports block no more than two of three pairs, so that one is found.
LEMMA PortFound ==
  ASSUME NEW requested \in Nat, NEW ports \in Nat \X Nat
  PROVE  LET port == _safe_source_port(requested, ports)
         IN port \in requested..(requested + 5) /\ port % 2 = 0 /\ Apart(port, ports)
<1> DEFINE b1 == ports[1]
           b2 == IF ports[2] = 0 THEN ports[1] + 1 ELSE ports[2]
           start == requested + (requested % 2)
           S == {start, start + 2, start + 4}
           Free(p) == {p, p + 1} \cap {b1, b2} = {}
           port == _safe_source_port(requested, ports)
<1>1. b1 \in Nat /\ b2 \in Nat
  BY Zenon, SMT
<1>2. /\ start \in Nat /\ start \in requested..(requested + 1) /\ start % 2 = 0
      /\ (start + 2) % 2 = 0 /\ (start + 4) % 2 = 0
  OBVIOUS
<1> HIDE DEF b1, b2, start
<1>3. \E p \in S : Free(p)
  <2>1. \A p \in S : ~Free(p) => b1 \in {p, p + 1} \/ b2 \in {p, p + 1}
    OBVIOUS
  <2>2. \A p \in S : ~Free(p) => (b1 = p \/ b1 = p + 1 \/ b2 = p \/ b2 = p + 1)
    BY <2>1
  <2> HIDE DEF Free
  <2>3. SUFFICES ASSUME \A p \in S : ~Free(p) PROVE FALSE
    OBVIOUS
  <2>4. /\ b1 = start \/ b1 = start + 1 \/ b2 = start \/ b2 = start + 1
        /\ b1 = start + 2 \/ b1 = start + 2 + 1 \/ b2 = start + 2 \/ b2 = start + 2 + 1
        /\ b1 = start + 4 \/ b1 = start + 4 + 1 \/ b2 = start + 4 \/ b2 = start + 4 + 1
    BY <2>2, <2>3
  <2> QED  BY <1>1, <1>2, <2>4
<1> DEFINE T == {p \in S : Free(p)}
<1>4. \E p \in T : \A q \in T : p <= q
  <2>1. T \subseteq Nat
    BY <1>2
  <2>2. T # {}
    BY <1>3
  <2> HIDE DEF T
  <2> QED  BY <2>1, <2>2, LeastExists
<1>5. \E p \in S : Free(p) /\ \A q \in S : q < p => ~Free(q)
  <2>1. PICK p \in T : \A q \in T : p <= q
    BY <1>4
  <2>2. \A x, y \in Nat : x <= y => ~(y < x)
    OBVIOUS
  <2>3. S \subseteq Nat
    BY <1>2
  <2> HIDE DEF S, Free
  <2> QED  BY <2>1, <2>2, <2>3
<1>6. port \in S /\ Free(port)
  <2>1. port = CHOOSE p \in S : Free(p) /\ \A q \in S : q < p => ~Free(q)
    BY DEF _safe_source_port, b1, b2, start
  <2> HIDE DEF port, S, Free
  <2> QED  BY <1>5, <2>1, Zenon
<1> HIDE DEF port
<1>7. port \in requested..(requested + 5) /\ port % 2 = 0
  BY <1>2, <1>6
<1>8. Apart(port, ports)
  BY <1>6 DEF Apart, b1, b2
<1> QED  BY <1>7, <1>8 DEF port

\* The ports are those the sink named, or those assumed of it; those of the media and
\* of the answer to SETUP are the ones in force as long as nothing came between.
KnownPorts == SinkPorts \cup {<<0, 0>>, <<19000, 0>>}
AnswerInForce ==
  replied # NoFormat =>
    /\ replied.sink \in KnownPorts
    /\ replied.source \in media_config.source_port..(media_config.source_port + 5)
    /\ replied.source % 2 = 0 /\ Apart(replied.source, replied.sink)
    /\ ~replied.overtaken => source = replied.source /\ sink = replied.sink
PortsInv ==
  /\ media_config \in Configs /\ sink \in KnownPorts
  /\ AnswerInForce /\ MediaOnTheAnsweredPorts

LEMMA KnownPairs == KnownPorts \subseteq Nat \X Nat
BY NegotiationAssumption DEF NegotiationAssumption, KnownPorts

LEMMA SetupKeepsPorts ==
  ASSUME PortsInv, NEW ports \in SinkPorts \cup {NoFormat, <<0, 0>>}, SetupRequest(ports)
  PROVE  PortsInv'
<1> DEFINE known == CASE ports # NoFormat /\ ports[1] > 0 -> ports
                      [] ports = NoFormat /\ sink[1] > 0 -> sink
                      [] OTHER -> <<19000, 0>>
           port == _safe_source_port(media_config.source_port, known)
<1>1. /\ sink' = known /\ source' = port
      /\ replied' = [source |-> port, sink |-> known, playing |-> media # NoFormat,
                     overtaken |-> FALSE]
      /\ UNCHANGED <<media_config, media>>
  BY DEF SetupRequest
<1>2. known \in KnownPorts
  <2>1. CASE ports # NoFormat /\ ports[1] > 0
    BY <2>1 DEF KnownPorts
  <2>2. CASE ports = NoFormat /\ sink[1] > 0
    BY <2>2 DEF PortsInv
  <2>3. CASE ~(ports # NoFormat /\ ports[1] > 0) /\ ~(ports = NoFormat /\ sink[1] > 0)
    <3>1. known = <<19000, 0>>
      BY <2>3
    <3> QED  BY <3>1 DEF KnownPorts
  <2> QED  BY <2>1, <2>2, <2>3
<1>3. media_config.source_port \in Nat /\ known \in Nat \X Nat
  <2>1. known \in Nat \X Nat
    <3> HIDE DEF known
    <3> QED  BY <1>2, KnownPairs
  <2> QED  BY <2>1, NegotiationAssumption DEF NegotiationAssumption, PortsInv
<1> HIDE DEF known
<1>4. /\ port \in media_config.source_port..(media_config.source_port + 5) /\ port % 2 = 0
      /\ Apart(port, known)
  BY <1>3, PortFound
<1> HIDE DEF port
<1>5. /\ replied'.source = port /\ replied'.sink = known /\ replied'.overtaken = FALSE
      /\ replied'.playing = (media # NoFormat)
  BY <1>1
<1>6. AnswerInForce'
  BY <1>1, <1>2, <1>4, <1>5 DEF AnswerInForce, Apart
<1>7. MediaOnTheAnsweredPorts'
  BY <1>1, <1>5 DEF MediaOnTheAnsweredPorts
<1> QED  BY <1>1, <1>2, <1>6, <1>7 DEF PortsInv

LEMMA PortsStep == PortsInv /\ [NegNext]_negVars => PortsInv'
<1> SUFFICES ASSUME PortsInv, [NegNext]_negVars PROVE PortsInv'
  OBVIOUS
<1>1. ASSUME UNCHANGED <<media_config, sink, source, replied>>, media' \in {media, NoFormat}
      PROVE  PortsInv'
  BY <1>1 DEF PortsInv, AnswerInForce, Apart, MediaOnTheAnsweredPorts
<1>2. CASE M3Rejected \/ M3Unusable \/ Answered \/ UNCHANGED negVars
  BY <1>1, <1>2 DEF M3Rejected, M3Unusable, Answered, Closes, negVars
<1>3. CASE Play
  <2>1. UNCHANGED <<media_config, sink, source, replied>>
    BY <1>3 DEF Play
  <2>2. CASE media' \in {media, NoFormat}
    BY <1>1, <2>1, <2>2
  <2>3. CASE media = NoFormat /\ media' = EffectiveConfig
    <3>1. media'.source = source /\ media'.sink = sink
      BY <2>3 DEF EffectiveConfig
    <3>2. MediaOnTheAnsweredPorts'
      BY <2>1, <3>1 DEF PortsInv, AnswerInForce, MediaOnTheAnsweredPorts
    <3> QED  BY <2>1, <3>2 DEF PortsInv, AnswerInForce, Apart
  <2>4. media' \in {media, NoFormat} \/ (media = NoFormat /\ media' = EffectiveConfig)
    BY <1>3 DEF Play, Closes
  <2> QED  BY <2>2, <2>3, <2>4
<1>4. CASE StopMedia
  <2>1. UNCHANGED <<media_config, sink, source>> /\ media' = NoFormat
        /\ replied' = IF replied = NoFormat THEN NoFormat ELSE [replied EXCEPT !.playing = FALSE]
    BY <1>4 DEF StopMedia
  <2>2. MediaOnTheAnsweredPorts'
    BY <2>1 DEF MediaOnTheAnsweredPorts
  <2>3. replied' # NoFormat => /\ replied # NoFormat /\ replied'.sink = replied.sink
                               /\ replied'.source = replied.source
                               /\ replied'.overtaken = replied.overtaken
    BY <2>1
  <2>4. AnswerInForce'
    BY <2>1, <2>3 DEF PortsInv, AnswerInForce, Apart
  <2> QED  BY <2>1, <2>2, <2>4 DEF PortsInv
<1>5. ASSUME NEW r1, NEW r2, NEW ports \in SinkPorts, M3Answered(r1, r2, ports)
      PROVE  PortsInv'
  <2>1. UNCHANGED <<media_config, media>> /\ sink' = ports
        /\ replied' = IF replied = NoFormat THEN NoFormat ELSE [replied EXCEPT !.overtaken = TRUE]
    BY <1>5 DEF M3Answered
  <2>2. replied' # NoFormat => /\ replied # NoFormat /\ replied'.sink = replied.sink
                               /\ replied'.source = replied.source /\ replied'.overtaken = TRUE
    BY <2>1
  <2>3. AnswerInForce' /\ MediaOnTheAnsweredPorts'
    BY <2>1, <2>2 DEF PortsInv, AnswerInForce, Apart, MediaOnTheAnsweredPorts
  <2> QED  BY <2>1, <2>3 DEF PortsInv, KnownPorts
<1>6. ASSUME NEW ports \in SinkPorts \cup {NoFormat, <<0, 0>>}, SetupRequest(ports)
      PROVE  PortsInv'
  BY <1>6, SetupKeepsPorts
<1> QED  BY <1>2, <1>3, <1>4, <1>5, <1>6 DEF NegNext

\* The media runs on the pair of ports that was answered to SETUP: an even one, near
\* the one asked for, that shares none with the sink's, whatever ports the sink names
\* in its messages and in which order they come.
THEOREM PortsAsAgreedHolds == NegSpec => []PortsAsAgreed
<1>1. NegInit => PortsInv
  BY DEF NegInit, PortsInv, KnownPorts, AnswerInForce, MediaOnTheAnsweredPorts
<1>2. PortsInv => PortsAsAgreed
  <2> SUFFICES ASSUME PortsInv PROVE PortsAsAgreed
    OBVIOUS
  <2>1. ASSUME replied # NoFormat
        PROVE  /\ replied.source % 2 = 0
               /\ replied.source \in media_config.source_port..(media_config.source_port + 5)
               /\ replied.source > 65534 => media_config.source_port > 65529
               /\ Apart(replied.source, replied.sink)
    <3>1. media_config.source_port \in Nat
      BY NegotiationAssumption DEF NegotiationAssumption, PortsInv
    <3>2. /\ replied.source \in media_config.source_port..(media_config.source_port + 5)
          /\ replied.source % 2 = 0 /\ Apart(replied.source, replied.sink)
      BY <2>1 DEF PortsInv, AnswerInForce
    <3> QED  BY <3>1, <3>2
  <2>2. PortsApart
    <3> SUFFICES ASSUME replied # NoFormat
        PROVE  LET pair == {replied.source, replied.source + 1}
                   its  == {replied.sink[1], IF replied.sink[2] = 0 THEN replied.sink[1] + 1
                                             ELSE replied.sink[2]}
               IN /\ replied.source % 2 = 0 /\ pair \cap its = {}
                  /\ replied.source \in media_config.source_port..(media_config.source_port + 5)
                  /\ replied.source > 65534 => media_config.source_port > 65529
      BY SMT DEF PortsApart
    <3> QED  BY <2>1, SMT DEF Apart
  <2> QED  BY <2>2 DEF PortsInv, PortsAsAgreed
<1> QED  BY <1>1, <1>2, PortsStep, PTL DEF NegSpec

-----------------------------------------------------------------------------
(* What is agreed on: the mode.                                            *)

Modes == {Mode(h, f) : h \in {480, 720, 1080, 1200}, f \in {30, 60}}
HDModes == {Mode(h, f) : h \in {720, 1080}, f \in {30, 60}}

\* The first of some places is one of them.
LEMMA FirstOfPlaces ==
  ASSUME NEW modes \in Seq(Modes), NEW places \in SUBSET (1..Len(modes)), places # {}
  PROVE  /\ FirstOf(modes, places) \in Modes
         /\ \E i \in places : FirstOf(modes, places) = modes[i]
<1> DEFINE n == CHOOSE i \in places : \A j \in places : i <= j
<1>1. places \subseteq Nat
  OBVIOUS
<1>2. \E i \in places : \A j \in places : i <= j
  BY <1>1, LeastExists
<1>3. n \in places
  BY <1>2, Zenon
<1>4. FirstOf(modes, places) = modes[n]
  BY Zenon DEF FirstOf
<1> HIDE DEF n
<1>5. modes[n] \in Modes
  BY <1>3, ElementOfSeq
<1> QED  BY <1>3, <1>4, <1>5

\* What is tried and what is wished for are modes; any HD mode is tried in the end.
LEMMA Lists ==
  ASSUME NEW c
  PROVE  /\ preferred(c) \in Seq(Modes) /\ Tried(c) \in Seq(Modes)
         /\ Wished(c) \in Seq(Modes) /\ Len(Wished(c)) > 0
         /\ \A m \in HDModes : \E i \in 1..Len(Tried(c)) : Tried(c)[i] = m
<1>1. \A h \in {480, 720, 1080, 1200}, f \in {30, 60} : Mode(h, f) \in Modes
  BY DEF Modes
<1>2. \A h \in {720, 1080, 1200} : Both(h, c) \in Seq(Modes) /\ Len(Both(h, c)) = 2
  <2> SUFFICES ASSUME NEW h \in {720, 1080, 1200}
               PROVE  Both(h, c) \in Seq(Modes) /\ Len(Both(h, c)) = 2
    OBVIOUS
  <2>1. Rates(c)[1] \in {30, 60} /\ Rates(c)[2] \in {30, 60}
    BY DEF Rates
  <2>2. Mode(h, Rates(c)[1]) \in Modes /\ Mode(h, Rates(c)[2]) \in Modes
    BY <1>1, <2>1
  <2> QED  BY <2>2 DEF Both
<1>3. Wished(c) \in Seq(Modes) /\ Len(Wished(c)) > 0
  <2> DEFINE A == Both(1200, c)
             B == Both(1080, c)
             C == Both(720, c)
  <2>1. A \in Seq(Modes) /\ B \in Seq(Modes) /\ C \in Seq(Modes)
        /\ Len(A) = 2 /\ Len(B) = 2 /\ Len(C) = 2
    BY <1>2
  <2>2. Wished(c) = IF wants_1200(c) THEN A \o B ELSE IF wants_720(c) THEN C ELSE B \o C
    BY SMT DEF Wished
  <2> HIDE DEF A, B, C
  <2>3. A \o B \in Seq(Modes) /\ Len(A \o B) = Len(A) + Len(B)
    BY <2>1, ConcatProperties
  <2>4. B \o C \in Seq(Modes) /\ Len(B \o C) = Len(B) + Len(C)
    BY <2>1, ConcatProperties
  <2>5. Len(A \o B) > 0 /\ Len(B \o C) > 0 /\ Len(C) > 0
    BY <2>1, <2>3, <2>4
  <2> QED  BY <2>1, <2>2, <2>3, <2>4, <2>5
<1>4. preferred(c) \in Seq(Modes)
  <2>1. \A s, t \in Seq(Modes) : s \o t \in Seq(Modes)
    BY ConcatProperties
  <2>2. /\ Both(1200, c) \in Seq(Modes) /\ Both(1080, c) \in Seq(Modes) /\ Both(720, c) \in Seq(Modes)
    BY <1>2
  <2>3. <<Mode(480, 60)>> \in Seq(Modes)
        /\ <<Mode(1080, 30), Mode(720, 30), Mode(1080, 60), Mode(720, 60)>> \in Seq(Modes)
    <3>1. Mode(480, 60) \in Modes /\ Mode(1080, 30) \in Modes /\ Mode(720, 30) \in Modes
          /\ Mode(1080, 60) \in Modes /\ Mode(720, 60) \in Modes
      BY <1>1
    <3> QED  BY <3>1
  <2>4. /\ (Both(1200, c) \o Both(1080, c)) \o Both(720, c) \in Seq(Modes)
        /\ <<Mode(480, 60)>> \o Both(720, c) \in Seq(Modes)
        /\ Both(1080, c) \o Both(720, c) \in Seq(Modes)
    BY <2>1, <2>2, <2>3
  <2> QED  BY <2>2, <2>3, <2>4, SMT DEF preferred
<1> DEFINE hd == <<Mode(720, 30), Mode(1080, 30), Mode(720, 60), Mode(1080, 60)>>
<1>5. hd \in Seq(Modes) /\ Len(hd) = 4
      /\ hd[1] = Mode(720, 30) /\ hd[2] = Mode(1080, 30) /\ hd[3] = Mode(720, 60)
      /\ hd[4] = Mode(1080, 60)
  <2>1. Mode(1080, 30) \in Modes /\ Mode(720, 30) \in Modes
        /\ Mode(1080, 60) \in Modes /\ Mode(720, 60) \in Modes
    BY <1>1
  <2> QED  BY <2>1
<1>6. \A m \in HDModes : \E k \in 1..4 : hd[k] = m
  <2> SUFFICES ASSUME NEW h \in {720, 1080}, NEW f \in {30, 60} PROVE \E k \in 1..4 : hd[k] = Mode(h, f)
    BY DEF HDModes
  <2> HIDE DEF hd
  <2> QED  BY <1>5
<1>7. Tried(c) = preferred(c) \o hd
  BY DEF Tried
<1> HIDE DEF hd
<1>8. /\ Tried(c) \in Seq(Modes) /\ Len(Tried(c)) = Len(preferred(c)) + 4
      /\ \A k \in 1..4 : Tried(c)[Len(preferred(c)) + k] = hd[k]
  <2> DEFINE s == preferred(c)
             t == hd
  <2>1. s \in Seq(Modes) /\ t \in Seq(Modes) /\ Len(s) \in Nat /\ Len(t) = 4
    BY <1>4, <1>5
  <2> HIDE DEF s, t
  <2>2. /\ s \o t \in Seq(Modes) /\ Len(s \o t) = Len(s) + Len(t)
        /\ \A i \in 1..(Len(s) + Len(t)) : (s \o t)[i] = IF i <= Len(s) THEN s[i] ELSE t[i - Len(s)]
    BY <2>1, ConcatProperties
  <2>3. ASSUME NEW k \in 1..4 PROVE (s \o t)[Len(s) + k] = t[k]
    <3>1. Len(s) + k \in 1..(Len(s) + Len(t)) /\ ~(Len(s) + k <= Len(s)) /\ Len(s) + k - Len(s) = k
      BY <2>1
    <3> QED  BY <2>2, <3>1
  <2>4. Tried(c) = s \o t /\ Len(preferred(c)) = Len(s)
    BY <1>7 DEF s, t
  <2> QED  BY <2>1, <2>2, <2>3, <2>4 DEF t
<1>9. ASSUME NEW m \in HDModes PROVE \E i \in 1..Len(Tried(c)) : Tried(c)[i] = m
  <2>1. PICK k \in 1..4 : hd[k] = m
    BY <1>6
  <2>2. Len(preferred(c)) \in Nat
    BY <1>4
  <2>3. Len(preferred(c)) + k \in 1..Len(Tried(c))
    BY <1>8, <2>2
  <2> QED  BY <1>8, <2>1, <2>3
<1> QED  BY <1>3, <1>4, <1>8, <1>9

\* The mode chosen is supported if any HD mode is, and one that is not is beyond the
\* sink's size only if no mode is within it.
LEMMA ForcedFits ==
  ASSUME NEW c, NEW offer
  PROVE  /\ Forced(c, offer) \in Modes
         /\ fits(Forced(c, offer), offer) \/ ~fits(Mode(480, 60), offer)
<1> DEFINE two == <<Mode(720, 30), Mode(480, 60)>>
           wished == Wished(c) \o two
           small == {i \in 1..Len(wished) : fits(wished[i], offer)}
<1>1. two \in Seq(Modes) /\ Len(two) = 2 /\ two[2] = Mode(480, 60)
  <2>1. Mode(720, 30) \in Modes /\ Mode(480, 60) \in Modes
    BY DEF Modes
  <2> QED  BY <2>1
<1> HIDE DEF two
<1>2. Wished(c) \in Seq(Modes) /\ Len(Wished(c)) > 0 /\ Len(Wished(c)) \in Nat
  BY Lists
<1>3. /\ wished \in Seq(Modes) /\ Len(wished) = Len(Wished(c)) + Len(two)
      /\ \A i \in 1..(Len(Wished(c)) + Len(two)) :
           wished[i] = IF i <= Len(Wished(c)) THEN Wished(c)[i] ELSE two[i - Len(Wished(c))]
  <2> DEFINE w == Wished(c)
  <2>1. w \in Seq(Modes)
    BY <1>2
  <2> HIDE DEF w
  <2>2. /\ w \o two \in Seq(Modes) /\ Len(w \o two) = Len(w) + Len(two)
        /\ \A i \in 1..(Len(w) + Len(two)) :
             (w \o two)[i] = IF i <= Len(w) THEN w[i] ELSE two[i - Len(w)]
    <3>1. two \in Seq(Modes)
      BY <1>1
    <3> QED  BY <2>1, <3>1, ConcatProperties
  <2> QED  BY <2>2 DEF w
<1>4. Len(wished) \in Nat /\ Len(wished) > 0 /\ wished[Len(wished)] = Mode(480, 60)
  <2> DEFINE n == Len(Wished(c))
  <2>1. n \in Nat /\ Len(two) = 2 /\ Len(wished) = n + Len(two)
    BY <1>1, <1>2, <1>3
  <2>2. wished[n + 2] = IF n + 2 <= n THEN Wished(c)[n + 2] ELSE two[n + 2 - n]
    BY <1>3, <2>1
  <2> HIDE DEF n, wished
  <2>3. ~(n + 2 <= n) /\ n + 2 - n = 2 /\ Len(wished) = n + 2 /\ n + 2 > 0 /\ n + 2 \in Nat
    BY <2>1
  <2> QED  BY <1>1, <2>2, <2>3
<1>5. Forced(c, offer) = IF small = {} THEN wished[1] ELSE FirstOf(wished, small)
  BY Zenon DEF Forced, two
<1> HIDE DEF wished
<1>6. CASE small = {}
  <2>1. Forced(c, offer) \in Modes
    BY <1>3, <1>4, <1>5, <1>6, ElementOfSeq
  <2>2. Len(wished) \in 1..Len(wished)
    BY <1>4
  <2>3. ~fits(Mode(480, 60), offer)
    BY <1>4, <1>6, <2>2
  <2> QED  BY <2>1, <2>3
<1>7. CASE small # {}
  <2>1. small \in SUBSET (1..Len(wished))
    OBVIOUS
  <2>2. \A i \in small : fits(wished[i], offer)
    OBVIOUS
  <2> HIDE DEF small
  <2>3. /\ FirstOf(wished, small) \in Modes
        /\ \E i \in small : FirstOf(wished, small) = wished[i]
    BY <1>3, <1>7, <2>1, FirstOfPlaces
  <2> QED  BY <1>5, <1>7, <2>2, <2>3
<1> QED  BY <1>6, <1>7

LEMMA ChosenMode ==
  ASSUME NEW c, NEW format
  PROVE  LET mode == _choose_cea_mode(c, format)
             offer == OfferOf(format)
         IN /\ mode \in Modes
            /\ \/ supports(mode, offer)
               \/ /\ \A m \in HDModes : ~supports(m, offer)
                  /\ fits(mode, offer) \/ ~fits(Mode(480, 60), offer)
<1> DEFINE offer == OfferOf(format)
           supported == {i \in 1..Len(Tried(c)) : supports(Tried(c)[i], offer)}
           mode == _choose_cea_mode(c, format)
<1>1. mode = IF supported = {} THEN Forced(c, offer) ELSE FirstOf(Tried(c), supported)
  BY Zenon DEF _choose_cea_mode
<1>2. Tried(c) \in Seq(Modes) /\ \A m \in HDModes : \E i \in 1..Len(Tried(c)) : Tried(c)[i] = m
  BY Lists
<1> HIDE DEF mode, offer
<1>3. CASE supported = {}
  <2>1. ASSUME NEW m \in HDModes PROVE ~supports(m, offer)
    <3>1. PICK i \in 1..Len(Tried(c)) : Tried(c)[i] = m
      BY <1>2
    <3> QED  BY <1>3, <3>1
  <2>2. mode \in Modes /\ (fits(mode, offer) \/ ~fits(Mode(480, 60), offer))
    BY <1>1, <1>3, ForcedFits
  <2> QED  BY <2>1, <2>2 DEF mode, offer
<1>4. CASE supported # {}
  <2>1. supported \in SUBSET (1..Len(Tried(c))) /\ \A i \in supported : supports(Tried(c)[i], offer)
    OBVIOUS
  <2> HIDE DEF supported
  <2>2. /\ FirstOf(Tried(c), supported) \in Modes
        /\ \E i \in supported : FirstOf(Tried(c), supported) = Tried(c)[i]
    BY <1>2, <1>4, <2>1, FirstOfPlaces
  <2>3. mode \in Modes /\ supports(mode, offer)
    BY <1>1, <1>4, <2>1, <2>2
  <2> QED  BY <2>3 DEF mode, offer
<1> QED  BY <1>3, <1>4

\* M4 and the encoder get the same level, which is that of the mode but for 1920x1200.
LEMMA Levels ==
  ASSUME NEW mode \in Modes
  PROVE  /\ _h264_level_for_mode(<<mode.width, mode.height>>, mode.fps) = AnnouncedLevel(mode)
         /\ mode.height # 1200 => AnnouncedLevel(mode) = _wfd_level_for_mode(mode)
<1>1. PICK h \in {480, 720, 1080, 1200}, f \in {30, 60} : mode = Mode(h, f)
  BY DEF Modes
<1>2. /\ mode.height = h /\ mode.fps = f
      /\ mode.width = CASE h = 480 -> 640 [] h = 720 -> 1280 [] OTHER -> 1920
  BY <1>1 DEF Mode
<1>3. \/ mode.width = 640 /\ mode.height = 480
      \/ mode.width = 1280 /\ mode.height = 720
      \/ mode.width = 1920 /\ mode.height = 1080
      \/ mode.width = 1920 /\ mode.height = 1200
  <2>1. CASE h = 480
    BY <1>2, <2>1
  <2>2. CASE h = 720
    BY <1>2, <2>2
  <2>3. CASE h \in {1080, 1200}
    <3>1. mode.width = 1920
      BY <1>2, <2>3
    <3> QED  BY <1>2, <2>3, <3>1
  <2> QED  BY <2>1, <2>2, <2>3
<1>4. <<mode.width, mode.height>>[1] = mode.width /\ <<mode.width, mode.height>>[2] = mode.height
  OBVIOUS
<1>5. 640 * 480 = 307200 /\ 1280 * 720 = 921600 /\ 1920 * 1080 = 2073600 /\ 1920 * 1200 = 2304000
  BY SMT
<1> QED  BY <1>2, <1>3, <1>4, <1>5, SMT DEF _h264_level_for_mode, AnnouncedLevel, _wfd_level_for_mode

\* Until M3 is answered nothing was announced, and afterwards it is the mode chosen
\* from the format that was answered.
AnnouncedAsChosen ==
  /\ asked = "M3" => announced = NoFormat
  /\ announced # NoFormat =>
       /\ announced.mode = _choose_cea_mode(media_config, sink_video_format)
       /\ announced.level = AnnouncedLevel(announced.mode)
  /\ media # NoFormat /\ announced = NoFormat => media.early
ModeInv == AnnouncedAsChosen /\ StreamsWhatItAnnounced

\* What media is started with is what was announced.
LEMMA PlayedAsAnnounced ==
  ASSUME ModeInv, Play
  PROVE  ModeInv'
<1>1. UNCHANGED <<media_config, sink_video_format, announced>>
  BY DEF Play
<1>2. asked' = asked \/ asked' = "closed"
  BY DEF Play, Closes
<1>3. CASE media' \in {media, NoFormat}
  BY <1>1, <1>2, <1>3 DEF ModeInv, AnnouncedAsChosen, StreamsWhatItAnnounced
<1>4. CASE media' = EffectiveConfig
  <2> DEFINE mode == _choose_cea_mode(media_config, sink_video_format)
  <2>1. /\ media'.size = <<mode.width, mode.height>> /\ media'.fps = mode.fps
        /\ media'.early = (announced = NoFormat)
        /\ media'.level = _h264_level_for_mode(<<mode.width, mode.height>>, mode.fps)
    BY <1>4 DEF EffectiveConfig
  <2>2. mode \in Modes
    BY ChosenMode
  <2> HIDE DEF mode
  <2>3. media'.level = AnnouncedLevel(mode)
    BY <2>1, <2>2, Levels
  <2>4. announced # NoFormat => announced.mode = mode /\ announced.level = AnnouncedLevel(mode)
    BY DEF ModeInv, AnnouncedAsChosen, mode
  <2>5. StreamsWhatItAnnounced'
    BY <1>1, <2>1, <2>3, <2>4 DEF StreamsWhatItAnnounced
  <2>6. AnnouncedAsChosen'
    BY <1>1, <1>2, <2>1 DEF ModeInv, AnnouncedAsChosen
  <2> QED  BY <2>5, <2>6 DEF ModeInv
<1>5. media' \in {media, NoFormat} \/ media' = EffectiveConfig
  BY DEF Play, Closes
<1> QED  BY <1>3, <1>4, <1>5

LEMMA ModeStep == ModeInv /\ [NegNext]_negVars => ModeInv'
<1> SUFFICES ASSUME ModeInv, [NegNext]_negVars PROVE ModeInv'
  OBVIOUS
<1>1. ASSUME UNCHANGED <<media_config, sink_video_format, announced>>,
             media' \in {media, NoFormat}, asked' = "M3" => asked = "M3"
      PROVE  ModeInv'
  BY <1>1 DEF ModeInv, AnnouncedAsChosen, StreamsWhatItAnnounced
<1>2. CASE M3Rejected \/ M3Unusable \/ Answered \/ StopMedia \/ UNCHANGED negVars
  BY <1>1, <1>2 DEF M3Rejected, M3Unusable, Answered, Closes, StopMedia, negVars
<1>3. CASE Play
  BY <1>3, PlayedAsAnnounced
<1>4. ASSUME NEW r1, NEW r2, NEW ports, M3Answered(r1, r2, ports) PROVE ModeInv'
  <2> DEFINE mode == _choose_cea_mode(media_config, sink_video_format')
  <2>1. /\ announced' = [mode |-> mode, level |-> AnnouncedLevel(mode)]
        /\ UNCHANGED <<media_config, media>> /\ asked = "M3" /\ asked' = "M4"
    BY <1>4 DEF M3Answered
  <2>2. mode = _choose_cea_mode(media_config, sink_video_format)'
    BY <2>1 DEF _choose_cea_mode
  <2> HIDE DEF mode
  <2>3. announced'.mode = mode /\ announced'.level = AnnouncedLevel(mode)
    BY <2>1
  <2>4. media # NoFormat => media.early
    BY <2>1 DEF ModeInv, AnnouncedAsChosen
  <2>5. (media # NoFormat => media.early)'
    BY <2>1, <2>4
  <2>6. AnnouncedAsChosen'
    <3>1. AnnouncedLevel(mode) = AnnouncedLevel(announced'.mode)
      BY <2>3
    <3>2. AnnouncedLevel(announced.mode)' = AnnouncedLevel(announced'.mode)
      BY Zenon DEF AnnouncedLevel, _wfd_level_for_mode
    <3> QED  BY <2>1, <2>2, <2>3, <2>5, <3>1, <3>2 DEF AnnouncedAsChosen
  <2>7. StreamsWhatItAnnounced'
    BY <2>5 DEF StreamsWhatItAnnounced
  <2> QED  BY <2>6, <2>7 DEF ModeInv
<1>5. ASSUME NEW ports, SetupRequest(ports) PROVE ModeInv'
  BY <1>1, <1>5 DEF SetupRequest
<1> QED  BY <1>2, <1>3, <1>4, <1>5 DEF NegNext

\* The stream has the mode and the level the sink was told in M4, unless PLAY came
\* before; the mode is one it offers and can decode whenever it offers one that is
\* tried, too large only if not even 640x480 is within its maximum, and the level is
\* above its own only for 1920x1200 or where no mode is supported.
THEOREM ModeAsAgreedHolds == NegSpec => []ModeAsAgreed
<1>1. NegInit => ModeInv
  BY DEF NegInit, ModeInv, AnnouncedAsChosen, StreamsWhatItAnnounced
<1>2. ModeInv => ModeAsAgreed
  <2> SUFFICES ASSUME ModeInv PROVE WithinTheOffer
    BY DEF ModeInv, ModeAsAgreed
  <2> SUFFICES ASSUME announced # NoFormat, sink_video_format # NoFormat
               PROVE  LET mode   == announced.mode
                          offer  == sink_video_format
                          forced == ~supports(mode, offer)
                      IN /\ forced => \A h \in {720, 1080}, f \in {30, 60} :
                                        ~supports(Mode(h, f), offer)
                         /\ fits(mode, offer) \/ ~fits(Mode(480, 60), offer)
                         /\ \/ forced \/ mode.height = 1200 \/ _max_wfd_level(offer.level) = NoFormat
                            \/ announced.level <= _max_wfd_level(offer.level)
    BY SMT DEF WithinTheOffer
  <2> DEFINE mode == announced.mode
             offer == sink_video_format
  <2>1. mode = _choose_cea_mode(media_config, offer) /\ announced.level = AnnouncedLevel(mode)
        /\ OfferOf(offer) = offer
    BY DEF ModeInv, AnnouncedAsChosen, OfferOf
  <2> HIDE DEF mode, offer
  <2>2. /\ mode \in Modes
        /\ \/ supports(mode, offer)
           \/ /\ \A m \in HDModes : ~supports(m, offer)
              /\ fits(mode, offer) \/ ~fits(Mode(480, 60), offer)
    BY <2>1, ChosenMode
  <2>3. supports(mode, offer) =>
          fits(mode, offer) /\ (\/ _max_wfd_level(offer.level) = NoFormat
                                \/ _wfd_level_for_mode(mode) <= _max_wfd_level(offer.level))
    BY Zenon DEF supports
  <2>4. mode.height # 1200 => announced.level = _wfd_level_for_mode(mode)
    <3>1. mode.height # 1200 => AnnouncedLevel(mode) = _wfd_level_for_mode(mode)
      <4>1. \A m \in Modes : m.height # 1200 => AnnouncedLevel(m) = _wfd_level_for_mode(m)
        BY Levels
      <4> QED  BY <2>2, <4>1
    <3> QED  BY <2>1, <3>1, SMT
  <2>5. ~supports(mode, offer) => \A h \in {720, 1080}, f \in {30, 60} : ~supports(Mode(h, f), offer)
    BY <2>2 DEF HDModes
  <2>6. fits(mode, offer) \/ ~fits(Mode(480, 60), offer)
    BY <2>2, <2>3
  <2>7. \/ ~supports(mode, offer) \/ mode.height = 1200 \/ _max_wfd_level(offer.level) = NoFormat
        \/ announced.level <= _max_wfd_level(offer.level)
    BY <2>3, <2>4
  <2> QED  BY <2>5, <2>6, <2>7, SMT DEF mode, offer
<1> QED  BY <1>1, <1>2, ModeStep, PTL DEF NegSpec

-----------------------------------------------------------------------------
(* The reader's deadline.                                                  *)

\* While it reads: before the first byte the wait is within the idle timeout, from
\* then on the deadline is the first byte's and has not passed, waiting or not.
DeadlineKept ==
  Reading => IF first = Never
             THEN /\ deadline = Never
                  /\ idle_timeout # Never => now <= since + idle_timeout
             ELSE first \in Nat /\ deadline = first + MessageTimeout /\ now <= deadline
ReaderInv ==
  /\ now \in Nat /\ since \in Nat /\ idle_timeout \in {Never, IdleTimeout}
  /\ DeadlineKept

LEMMA ReaderStep == ReaderInv /\ [ReadNext]_readVars => ReaderInv'
<1> SUFFICES ASSUME ReaderInv, [ReadNext]_readVars PROVE ReaderInv'
  OBVIOUS
<1> USE ReaderAssumption DEF ReaderAssumption
<1> USE DEF ReaderInv, DeadlineKept, Reading, Never
<1>1. CASE begin_message
  <2>1. /\ now' = now /\ since' = now /\ idle_timeout' \in {Never, IdleTimeout}
        /\ deadline' = IF buffer # <<>> THEN now + MessageTimeout ELSE Never
        /\ first' = IF buffer # <<>> THEN now ELSE Never
    BY <1>1 DEF begin_message
  <2>2. CASE buffer # <<>>
    <3>1. first' = now /\ deadline' = now + MessageTimeout /\ now \in Nat /\ now <= now + MessageTimeout
      BY <2>1, <2>2
    <3>2. first' # Never /\ first' \in Nat /\ deadline' = first' + MessageTimeout /\ now' <= deadline'
      BY <2>1, <3>1
    <3> HIDE DEF Never
    <3>3. DeadlineKept'
      BY <3>2, Zenon DEF DeadlineKept
    <3> QED  BY <2>1, <3>3
  <2>3. CASE buffer = <<>>
    <3>1. first' = Never /\ deadline' = Never /\ now \in Nat
      BY <2>1, <2>3
    <3>2. idle_timeout' # Never => now <= now + idle_timeout'
      <4>1. \A k \in Nat : now <= now + k
        BY <3>1
      <4>2. idle_timeout' # Never => idle_timeout' \in Nat
        <5> HIDE DEF Never
        <5> QED  BY <2>1
      <4> QED  BY <4>1, <4>2
    <3>3. DeadlineKept'
      BY <2>1, <3>1, <3>2
    <3> QED  BY <2>1, <3>3
  <2> QED  BY <2>2, <2>3
<1>2. ASSUME NEW count \in 1..Min({MaxChunk, Len(wire) - received}), _receive(count)
      PROVE  ReaderInv'
  <2>1. UNCHANGED <<now, since, idle_timeout, reader_at>> /\ now < Until /\ Reading
    BY <1>2 DEF _receive, Waiting
  <2>2. CASE first = Never
    <3>1. first' = now /\ deadline' = now + MessageTimeout
      BY <1>2, <2>1, <2>2 DEF _receive
    <3> QED  BY <2>1, <3>1
  <2>3. CASE first # Never
    <3>1. first' = first /\ deadline' = deadline
      BY <1>2, <2>1, <2>3 DEF _receive
    <3> QED  BY <2>1, <2>3, <3>1
  <2> QED  BY <2>2, <2>3
<1>3. ASSUME UNCHANGED <<now, since, idle_timeout, first, deadline>>, Reading' => Reading
      PROVE  ReaderInv'
  BY <1>3
<1>4. CASE readline \/ read
  <2>1. UNCHANGED <<now, since, idle_timeout, first, deadline>> /\ Reading
    BY <1>4 DEF readline, read
  <2> HIDE DEF ReaderInv, Reading
  <2> QED  BY <1>3, <2>1
<1>5. CASE TimedOut \/ Closed
  BY <1>3, <1>5 DEF TimedOut, Closed
<1>6. CASE Tick
  <2>1. UNCHANGED <<since, idle_timeout, first, deadline, reader_at>> /\ now' = now + 1
    BY <1>6 DEF Tick
  <2>2. Reading => now < Until
    BY <1>6 DEF Tick
  <2>3. CASE ~Reading
    BY <2>1, <2>3
  <2>4. CASE Reading /\ first = Never
    BY <2>1, <2>2, <2>4 DEF Until
  <2>5. CASE Reading /\ first # Never
    <3>1. deadline \in Nat
      BY <2>5
    <3>2. Until = deadline
      <4>1. deadline # Never
        BY <3>1
      <4> HIDE DEF Never
      <4> QED  BY <4>1 DEF Until
    <3> QED  BY <2>1, <2>2, <2>5, <3>1, <3>2
  <2> QED  BY <2>3, <2>4, <2>5
<1>7. CASE UNCHANGED readVars
  BY <1>3, <1>7 DEF readVars
<1> QED  BY <1>1, <1>2, <1>4, <1>5, <1>6, <1>7 DEF ReadNext

\* However the bytes of a message trickle in, and whatever came with the message
\* before, its reader waits no longer than the time of one message after its first
\* byte, and before that no longer than the idle timeout that holds.
THEOREM OneDeadlineHolds == ReadSpec => []OneDeadline
<1>1. ReadInit => ReaderInv
  BY ReaderAssumption DEF ReaderAssumption, ReadInit, ReaderInv, DeadlineKept, Reading
<1>2. ReaderInv => OneDeadline
  <2> SUFFICES ASSUME ReaderInv, Waiting PROVE
          IF first # Never THEN now - first <= MessageTimeout
          ELSE idle_timeout # Never => now - since <= idle_timeout
    BY DEF OneDeadline
  <2> QED  BY ReaderAssumption
         DEF ReaderAssumption, ReaderInv, DeadlineKept, Waiting, Reading, Never
<1> QED  BY <1>1, <1>2, ReaderStep, PTL DEF ReadSpec

-----------------------------------------------------------------------------
(* Recursive definitions: each place gets its value from a next one of     *)
(* lower rank, or has one itself.                                          *)

ValueAt(f, More, next, val, H, i) ==
  IF i \in More THEN H[<<i, f[next[i]]>>] ELSE val[i]

WellRanked(D, X, n, rank, More, next, val, H) ==
  /\ n \in Nat /\ rank \in [D -> 0..n] /\ More \in SUBSET D
  /\ \A i \in D \ More : val[i] \in X
  /\ \A i \in More : next[i] \in D /\ rank[next[i]] < rank[i]
  /\ \A i \in More : \A x \in X : H[<<i, x>>] \in X

LEMMA RecursionExists ==
  ASSUME NEW D, NEW X, NEW n, NEW rank, NEW More, NEW next, NEW val, NEW H,
         WellRanked(D, X, n, rank, More, next, val, H)
  PROVE  \E f \in [D -> X] : f = [i \in D |-> ValueAt(f, More, next, val, H, i)]
<1> USE DEF WellRanked
<1> DEFINE Low(k) == {i \in D : rank[i] <= k}
           Solves(f, k) == /\ f \in [Low(k) -> X]
                           /\ \A i \in Low(k) : f[i] = ValueAt(f, More, next, val, H, i)
           T == {k \in Nat : \E f : Solves(f, k)}
<1>1. ASSUME NEW k \in Nat, NEW g,
             \A i \in Low(k) : i \in More => g[next[i]] \in X,
             NEW f, f = [i \in Low(k) |-> ValueAt(g, More, next, val, H, i)]
      PROVE  f \in [Low(k) -> X]
  <2>1. ASSUME NEW i \in Low(k) PROVE ValueAt(g, More, next, val, H, i) \in X
    BY <1>1 DEF ValueAt
  <2> QED  BY <1>1, <2>1
<1>2. 0 \in T
  <2> DEFINE f == [i \in Low(0) |-> ValueAt(<<>>, More, next, val, H, i)]
  <2>1. \A i \in Low(0) : i \notin More
    OBVIOUS
  <2>2. f \in [Low(0) -> X]
    BY <1>1, <2>1
  <2>3. \A i \in Low(0) : f[i] = ValueAt(f, More, next, val, H, i)
    BY <2>1 DEF ValueAt
  <2>4. Solves(f, 0)
    BY <2>2, <2>3
  <2> QED  BY <2>4
<1>3. ASSUME NEW k \in Nat, k \in T PROVE k + 1 \in T
  <2>1. PICK g : Solves(g, k)
    BY <1>3
  <2> DEFINE f == [i \in Low(k + 1) |-> ValueAt(g, More, next, val, H, i)]
  <2>2. \A i \in Low(k + 1) : i \in More => next[i] \in Low(k)
    OBVIOUS
  <2>3. \A i \in Low(k + 1) : i \in More => g[next[i]] \in X
    BY <2>1, <2>2
  <2>4. k + 1 \in Nat
    OBVIOUS
  <2>5. f \in [Low(k + 1) -> X]
    BY <1>1, <2>3, <2>4
  <2>6. \A i \in Low(k) : i \in Low(k + 1) /\ f[i] = g[i]
    BY <2>1
  <2>7. \A i \in Low(k + 1) : f[i] = ValueAt(g, More, next, val, H, i)
    OBVIOUS
  <2> HIDE DEF f
  <2>8. ASSUME NEW i \in Low(k + 1) PROVE f[i] = ValueAt(f, More, next, val, H, i)
    BY <2>2, <2>6, <2>7 DEF ValueAt
  <2>9. Solves(f, k + 1)
    BY <2>5, <2>8
  <2> HIDE DEF Solves
  <2> QED  BY <2>4, <2>9
<1> HIDE DEF T
<1>4. Nat \subseteq T
  BY <1>2, <1>3, Induction
<1>5. PICK f : Solves(f, n)
  BY <1>4 DEF T
<1>6. Low(n) = D
  OBVIOUS
<1>7. f \in [D -> X] /\ \A i \in D : f[i] = ValueAt(f, More, next, val, H, i)
  BY <1>5, <1>6
<1>8. f = [i \in D |-> ValueAt(f, More, next, val, H, i)]
  BY <1>7
<1> QED  BY <1>7, <1>8

\* A property of places that goes on from each place to the next holds at all.
LEMMA Forwards ==
  ASSUME NEW n \in Nat, NEW T, 0 \in T, \A k \in 0..(n - 1) : k \in T => k + 1 \in T
  PROVE  0..n \subseteq T
<1> DEFINE S == {k \in Nat : k <= n => k \in T}
<1>1. 0 \in S
  OBVIOUS
<1>2. ASSUME NEW k \in Nat, k \in S PROVE k + 1 \in S
  BY <1>2
<1> HIDE DEF S
<1>3. Nat \subseteq S
  BY <1>1, <1>2, Induction
<1> QED  BY <1>3 DEF S

\* A property of places that goes on from each place to the one before it holds at all.
LEMMA Backwards ==
  ASSUME NEW n \in Nat, NEW T, n \in T, \A k \in 0..(n - 1) : k + 1 \in T => k \in T
  PROVE  0..n \subseteq T
<1> DEFINE S == {k \in 0..n : n - k \in T}
<1>1. 0 \in S
  OBVIOUS
<1>2. ASSUME NEW k \in 0..(n - 1), k \in S PROVE k + 1 \in S
  <2>1. n - (k + 1) \in 0..(n - 1) /\ n - (k + 1) + 1 = n - k /\ k + 1 \in 0..n
    OBVIOUS
  <2> QED  BY <1>2, <2>1
<1> HIDE DEF S
<1>3. 0..n \subseteq S
  BY <1>1, <1>2, Forwards
<1>4. ASSUME NEW k \in 0..n PROVE k \in T
  <2>1. n - k \in 0..n /\ n - (n - k) = k
    OBVIOUS
  <2> QED  BY <1>3, <2>1 DEF S
<1> QED  BY <1>4

-----------------------------------------------------------------------------
(* The reader: what lies in the bytes.                                      *)

\* A part of a sequence, and a part of that.
LEMMA Part ==
  ASSUME NEW S, NEW w \in Seq(S), NEW a \in 1..(Len(w) + 1), NEW b \in (a - 1)..Len(w)
  PROVE  /\ SubSeq(w, a, b) \in Seq(S) /\ Len(SubSeq(w, a, b)) = b - a + 1
         /\ \A k \in 1..(b - a + 1) : SubSeq(w, a, b)[k] = w[a + k - 1]
<1>1. a \in Int /\ b \in Int /\ (~(a <= b) => b - a + 1 = 0)
  OBVIOUS
<1>2. \A i \in a..b : w[i] \in S
  OBVIOUS
<1> QED  BY <1>1, <1>2, SubSeqProperties

LEMMA PartOfPart ==
  ASSUME NEW S, NEW w \in Seq(S), NEW a \in 1..(Len(w) + 1), NEW b \in (a - 1)..Len(w),
         NEW i \in 1..(b - a + 2), NEW j \in (i - 1)..(b - a + 1)
  PROVE  SubSeq(SubSeq(w, a, b), i, j) = SubSeq(w, a + i - 1, a + j - 1)
<1> DEFINE t == SubSeq(w, a, b)
           x == SubSeq(t, i, j)
           c == a + i - 1
           d == a + j - 1
           y == SubSeq(w, c, d)
<1>1. /\ t \in Seq(S) /\ Len(t) = b - a + 1
      /\ \A k \in 1..(b - a + 1) : t[k] = w[a + k - 1]
  BY Part
<1> HIDE DEF t
<1>2. i \in 1..(Len(t) + 1) /\ j \in (i - 1)..Len(t)
  BY <1>1
<1>3. x \in Seq(S) /\ Len(x) = j - i + 1 /\ \A k \in 1..(j - i + 1) : x[k] = t[i + k - 1]
  BY <1>1, <1>2, Part
<1>4. c \in 1..(Len(w) + 1) /\ d \in (c - 1)..Len(w) /\ d - c + 1 = j - i + 1
  OBVIOUS
<1> HIDE DEF c, d, x
<1>5. y \in Seq(S) /\ Len(y) = j - i + 1 /\ \A k \in 1..(j - i + 1) : y[k] = w[c + k - 1]
  BY <1>4, Part
<1> HIDE DEF y
<1>6. ASSUME NEW k \in 1..(j - i + 1) PROVE x[k] = y[k]
  <2>1. i + k - 1 \in 1..(b - a + 1) /\ a + (i + k - 1) - 1 = c + k - 1
    BY DEF c
  <2>2. t[i + k - 1] = w[c + k - 1]
    BY <1>1, <2>1
  <2> QED  BY <1>3, <1>5, <2>2
<1>7. x = y
  BY <1>3, <1>5, <1>6, SeqEqual
<1> QED  BY <1>7 DEF x, y, t, c, d

\* A line ends at the first "n", or not within the bytes.
LEMMA LineEndAt ==
  ASSUME NEW S, NEW w \in Seq(S), NEW p \in 1..(Len(w) + 1)
  PROVE  /\ LineEnd(w, p) \in p..(Len(w) + 1)
         /\ \A q \in p..(LineEnd(w, p) - 1) : w[q] # "n"
         /\ LineEnd(w, p) <= Len(w) => w[LineEnd(w, p)] = "n"
<1> DEFINE T == {Len(w) + 1} \cup {q \in p..Len(w) : w[q] = "n"}
           e == LineEnd(w, p)
<1>1. T \subseteq Nat /\ T # {}
  OBVIOUS
<1>2. \E x \in T : \A y \in T : x <= y
  <2> HIDE DEF T
  <2> QED  BY <1>1, LeastExists
<1>3. e \in T /\ \A y \in T : e <= y
  BY <1>2 DEF LineEnd, Min
<1> HIDE DEF e
<1>4. e \in p..(Len(w) + 1) /\ (e <= Len(w) => w[e] = "n")
  BY <1>3
<1>5. ASSUME NEW q \in p..(e - 1) PROVE w[q] # "n"
  <2>1. q \in p..Len(w) /\ ~(e <= q)
    BY <1>4
  <2> QED  BY <1>3, <2>1
<1> QED  BY <1>4, <1>5 DEF e

\* The lines of a header, unfolded once.
HeaderAt(w, p) ==
  LET end == LineEnd(w, p)
  IN IF end \in {p, Len(w) + 1} THEN [lines |-> <<>>, end |-> end]
     ELSE [lines |-> <<SubSeq(w, p, end - 1)>> \o Headers(w)[end + 1].lines,
           end   |-> Headers(w)[end + 1].end]
LEMMA HeaderRead ==
  ASSUME NEW S, NEW w \in Seq(S)
  PROVE  /\ Headers(w) \in [1..(Len(w) + 1) -> [lines : Seq(Seq(S)), end : Nat]]
         /\ \A p \in 1..(Len(w) + 1) : Headers(w)[p] = HeaderAt(w, p)
<1> DEFINE n == Len(w)
           D == 1..(n + 1)
           end == [p \in D |-> LineEnd(w, p)]
           More == {p \in D : end[p] # p /\ end[p] # n + 1}
           rank == [p \in D |-> n + 1 - p]
           next == [p \in D |-> end[p] + 1]
           val == [p \in D |-> [lines |-> <<>>, end |-> end[p]]]
           X == [lines : Seq(Seq(S)), end : Nat]
           row == [p \in D |-> SubSeq(w, p, end[p] - 1)]
           H == [z \in More \X X |-> [lines |-> <<row[z[1]]>> \o z[2].lines, end |-> z[2].end]]
           Step(f, p) ==
             LET e == LineEnd(w, p)
             IN IF e \in {p, Len(w) + 1} THEN [lines |-> <<>>, end |-> e]
                ELSE [lines |-> <<SubSeq(w, p, e - 1)>> \o f[e + 1].lines, end |-> f[e + 1].end]
<1>1. n \in Nat /\ D \subseteq Nat \ {0} /\ \A p \in D : end[p] = LineEnd(w, p) /\ end[p] \in p..(n + 1)
  <2>1. \A p \in D : LineEnd(w, p) \in p..(n + 1)
    BY LineEndAt
  <2> QED  BY <2>1
<1> HIDE DEF end
<1>2. \A p \in More : p \in D /\ next[p] = end[p] + 1 /\ next[p] \in D /\ rank[next[p]] < rank[p]
  <2> SUFFICES ASSUME NEW p \in More
               PROVE  p \in D /\ next[p] = end[p] + 1 /\ next[p] \in D /\ rank[next[p]] < rank[p]
    OBVIOUS
  <2>1. p \in D /\ end[p] \in p..(n + 1) /\ end[p] # p /\ end[p] # n + 1
    BY <1>1
  <2>2. next[p] = end[p] + 1
    BY <2>1
  <2>3. next[p] \in D /\ next[p] > p
    BY <2>1, <2>2, <1>1
  <2> HIDE DEF next
  <2>4. rank[next[p]] = n + 1 - next[p] /\ rank[p] = n + 1 - p
    BY <2>1, <2>3
  <2> QED  BY <2>1, <2>2, <2>3, <2>4, <1>1
<1>3. \A p \in D : val[p] = [lines |-> <<>>, end |-> end[p]] /\ val[p] \in X
  <2>1. \A p \in D : end[p] \in Nat
    BY <1>1
  <2>2. <<>> \in Seq(Seq(S))
    OBVIOUS
  <2> QED  BY <2>1, <2>2
<1>4. \A p \in D : row[p] = SubSeq(w, p, end[p] - 1) /\ row[p] \in Seq(S)
  <2> SUFFICES ASSUME NEW p \in D PROVE SubSeq(w, p, end[p] - 1) \in Seq(S)
    OBVIOUS
  <2>1. p \in 1..(Len(w) + 1) /\ end[p] - 1 \in (p - 1)..Len(w)
    BY <1>1
  <2> DEFINE b == end[p] - 1
  <2> HIDE DEF b
  <2>2. b \in (p - 1)..Len(w) => SubSeq(w, p, b) \in Seq(S)
    BY <2>1, Part
  <2> QED  BY <2>1, <2>2 DEF b
<1> HIDE DEF row
<1>5. \A p \in More : \A x \in X :
        /\ H[<<p, x>>] = [lines |-> <<row[p]>> \o x.lines, end |-> x.end] /\ H[<<p, x>>] \in X
  <2> SUFFICES ASSUME NEW p \in More, NEW x \in X
               PROVE  /\ H[<<p, x>>] = [lines |-> <<row[p]>> \o x.lines, end |-> x.end]
                      /\ H[<<p, x>>] \in X
    OBVIOUS
  <2>1. <<p, x>> \in More \X X /\ <<p, x>>[2] = x /\ <<p, x>>[1] = p
    OBVIOUS
  <2>2. H[<<p, x>>] = [lines |-> <<row[p]>> \o x.lines, end |-> x.end]
    <3> HIDE DEF More, X
    <3> QED  BY <2>1, Zenon
  <2>3. x.lines \in Seq(Seq(S)) /\ x.end \in Nat
    OBVIOUS
  <2>4. row[p] \in Seq(S)
    BY <1>4
  <2>5. <<row[p]>> \o x.lines \in Seq(Seq(S))
    <3> DEFINE Q == Seq(S)
               u == row[p]
               v == x.lines
    <3>1. u \in Q /\ v \in Seq(Q)
      BY <2>3, <2>4
    <3> HIDE DEF Q, u, v
    <3>2. <<u>> \in Seq(Q)
      BY <3>1
    <3>3. <<u>> \o v \in Seq(Q)
      BY <3>1, <3>2
    <3> QED  BY <3>3 DEF Q, u, v
  <2> HIDE DEF H
  <2> QED  BY <2>2, <2>3, <2>5
<1> HIDE DEF H
<1>6. WellRanked(D, X, n, rank, More, next, val, H)
  <2>1. rank \in [D -> 0..n] /\ More \in SUBSET D
    BY <1>1
  <2> HIDE DEF D, X, n, rank, More, next, val
  <2> QED  BY <1>1, <1>2, <1>3, <1>5, <2>1 DEF WellRanked
<1>7. PICK f \in [D -> X] : f = [p \in D |-> ValueAt(f, More, next, val, H, p)]
  <2> HIDE DEF D, X, n, rank, More, next, val
  <2> QED  BY <1>6, RecursionExists
<1>8. \A g \in [D -> X] : \A p \in D : ValueAt(g, More, next, val, H, p) = Step(g, p)
  <2> SUFFICES ASSUME NEW g \in [D -> X], NEW p \in D
               PROVE  ValueAt(g, More, next, val, H, p) = Step(g, p)
    OBVIOUS
  <2>0. end[p] = LineEnd(w, p)
    BY <1>1
  <2>1. CASE p \in More
    <3>1. next[p] = end[p] + 1 /\ g[next[p]] \in X
      BY <1>2, <2>1
    <3>2. ValueAt(g, More, next, val, H, p)
            = [lines |-> <<row[p]>> \o g[next[p]].lines, end |-> g[next[p]].end]
      <4> HIDE DEF D, X, n, rank, More, next, val
      <4> QED  BY <1>5, <2>1, <3>1 DEF ValueAt
    <3>3. end[p] \notin {p, Len(w) + 1}
      BY <2>1
    <3>4. row[p] = SubSeq(w, p, end[p] - 1)
      BY <1>4
    <3> HIDE DEF next
    <3> QED  BY <2>0, <3>1, <3>2, <3>3, <3>4
  <2>2. CASE p \notin More
    <3>1. ValueAt(g, More, next, val, H, p) = [lines |-> <<>>, end |-> end[p]]
      <4> HIDE DEF D, X, n, rank, More, next, val
      <4> QED  BY <1>3, <2>2 DEF ValueAt
    <3>2. end[p] \in {p, Len(w) + 1}
      BY <2>2
    <3> QED  BY <2>0, <3>1, <3>2
  <2> QED  BY <2>1, <2>2
<1>9. f = [p \in D |-> Step(f, p)]
  <2> DEFINE V(p) == ValueAt(f, More, next, val, H, p)
  <2>1. f = [p \in D |-> V(p)]
    BY <1>7
  <2>2. \A p \in D : V(p) = Step(f, p)
    BY <1>7, <1>8
  <2> HIDE DEF V, Step, D
  <2> QED  BY <2>1, <2>2
<1> DEFINE F == CHOOSE g : g = [p \in D |-> Step(g, p)]
<1>10. F = [p \in D |-> Step(F, p)]
  BY <1>9, Zenon
<1>11. Headers(w) = F
  BY Zenon DEF Headers
<1> HIDE DEF F
<1>12. \A p \in D : F[p] = Step(F, p)
  <2> HIDE DEF Step, D
  <2> QED  BY <1>10
<1> DEFINE T == {k \in 0..(n + 1) : \A p \in D : p >= k => F[p] \in X}
<1>13. F \in [D -> X]
  <2>1. ASSUME NEW p \in D, p \in More => F[end[p] + 1] \in X PROVE F[p] \in X
    <3>0. F[p] = Step(F, p) /\ end[p] = LineEnd(w, p) /\ end[p] \in Nat
      <4>1. F[p] = Step(F, p)
        <5> HIDE DEF Step
        <5> QED  BY <1>12
      <4>2. end[p] = LineEnd(w, p) /\ end[p] \in Nat
        BY <1>1
      <4> HIDE DEF Step
      <4> QED  BY <4>1, <4>2
    <3>1. CASE p \in More
      <4>1. end[p] \notin {p, Len(w) + 1}
        BY <3>1
      <4>2. row[p] = SubSeq(w, p, end[p] - 1)
        BY <1>4
      <4>3. F[p] = [lines |-> <<row[p]>> \o F[end[p] + 1].lines, end |-> F[end[p] + 1].end]
        BY <3>0, <4>1, <4>2
      <4> DEFINE x == F[end[p] + 1]
      <4>4. x \in X /\ F[p] = [lines |-> <<row[p]>> \o x.lines, end |-> x.end]
        BY <2>1, <3>1, <4>3
      <4> HIDE DEF x, More, X
      <4>5. H[<<p, x>>] = [lines |-> <<row[p]>> \o x.lines, end |-> x.end] /\ H[<<p, x>>] \in X
        BY <1>5, <3>1, <4>4
      <4> QED  BY <4>4, <4>5
    <3>2. CASE p \notin More
      <4>1. end[p] \in {p, Len(w) + 1}
        BY <3>2
      <4>2. F[p] = [lines |-> <<>>, end |-> end[p]]
        BY <3>0, <4>1
      <4> QED  BY <4>2, <1>3
    <3> QED  BY <3>1, <3>2
  <2> HIDE DEF X
  <2>2. n + 1 \in T
    <3> SUFFICES ASSUME NEW p \in D, p >= n + 1 PROVE F[p] \in X
      BY <1>1
    <3>1. p = n + 1 /\ end[p] = n + 1
      BY <1>1
    <3>2. p \notin More
      BY <3>1
    <3> QED  BY <2>1, <3>2
  <2>3. ASSUME NEW k \in 0..n, k + 1 \in T PROVE k \in T
    <3> SUFFICES ASSUME NEW p \in D, p >= k PROVE F[p] \in X
      BY <1>1
    <3>1. \A q \in D : q > k => F[q] \in X
      BY <2>3, <1>1
    <3>2. p \in More => end[p] + 1 \in D /\ end[p] + 1 > k
      BY <1>1
    <3> QED  BY <2>1, <3>1, <3>2
  <2>4. 0..(n + 1) \subseteq T
    <3>1. n + 1 \in Nat /\ n + 1 - 1 = n
      BY <1>1
    <3> HIDE DEF T
    <3> QED  BY <2>2, <2>3, <3>1, Backwards
  <2>5. \A p \in D : F[p] \in X
    <3>1. 0 \in 0..(n + 1)
      BY <1>1
    <3>2. 0 \in T
      BY <2>4, <3>1
    <3> QED  BY <3>2, <1>1
  <2>6. DOMAIN F = D
    <3> HIDE DEF Step
    <3> QED  BY <1>10
  <2>7. F = [p \in D |-> F[p]]
    <3> HIDE DEF Step
    <3> QED  BY <1>10
  <2> HIDE DEF D
  <2> QED  BY <2>5, <2>6, <2>7
<1>14. \A p \in D : Headers(w)[p] = HeaderAt(w, p)
  BY <1>11, <1>12 DEF HeaderAt
<1> QED  BY <1>11, <1>13, <1>14

\* A header ends at its start or behind, or not within the bytes.
LEMMA HeaderEnds ==
  ASSUME NEW S, NEW w \in Seq(S)
  PROVE  \A p \in 1..(Len(w) + 1) : Headers(w)[p].end \in p..(Len(w) + 1)
<1> DEFINE n == Len(w)
           D == 1..(n + 1)
           F == Headers(w)
           T == {k \in 0..(n + 1) : \A p \in D : p >= k => F[p].end \in p..(n + 1)}
<1>1. n \in Nat
  OBVIOUS
<1>2. ASSUME NEW p \in D
      PROVE  /\ LineEnd(w, p) \in p..(n + 1)
             /\ F[p].end = IF LineEnd(w, p) \in {p, n + 1} THEN LineEnd(w, p)
                           ELSE F[LineEnd(w, p) + 1].end
  <2>1. F[p] = HeaderAt(w, p)
    BY HeaderRead
  <2>2. LineEnd(w, p) \in p..(n + 1)
    BY LineEndAt
  <2> HIDE DEF F
  <2> QED  BY <2>1, <2>2 DEF HeaderAt, F
<1> HIDE DEF F
<1>3. n + 1 \in T
  <2> SUFFICES ASSUME NEW p \in D, p >= n + 1 PROVE F[p].end \in p..(n + 1)
    BY <1>1
  <2>1. p = n + 1
    BY <1>1
  <2> QED  BY <1>1, <1>2, <2>1
<1>4. ASSUME NEW k \in 0..n, k + 1 \in T PROVE k \in T
  <2> SUFFICES ASSUME NEW p \in D, p >= k PROVE F[p].end \in p..(n + 1)
    BY <1>1
  <2>1. \A q \in D : q > k => F[q].end \in q..(n + 1)
    BY <1>4, <1>1
  <2>2. LineEnd(w, p) \in p..(n + 1)
    BY <1>2
  <2>3. CASE LineEnd(w, p) \in {p, n + 1}
    BY <1>1, <1>2, <2>2, <2>3
  <2>4. CASE LineEnd(w, p) \notin {p, n + 1}
    <3> DEFINE q == LineEnd(w, p) + 1
    <3>1. q \in D /\ q > k /\ q >= p
      BY <1>1, <2>2, <2>4
    <3>2. F[q].end \in q..(n + 1) /\ F[p].end = F[q].end
      BY <1>2, <2>1, <2>4, <3>1
    <3> HIDE DEF q
    <3> QED  BY <1>1, <3>1, <3>2
  <2> QED  BY <2>3, <2>4
<1>5. 0..(n + 1) \subseteq T
  <2>1. n + 1 \in Nat /\ n + 1 - 1 = n
    BY <1>1
  <2> HIDE DEF T
  <2> QED  BY <1>3, <1>4, <2>1, Backwards
<1>6. 0 \in T
  <2>1. 0 \in 0..(n + 1)
    BY <1>1
  <2> HIDE DEF T
  <2> QED  BY <1>5, <2>1
<1> QED  BY <1>1, <1>6 DEF F

LEMMA ContentLengthTyped == ASSUME NEW headers PROVE ContentLength(headers) \in Nat
<1>1. Declared(headers) \subseteq {"1", "2", "9"}
  BY DEF Declared
<1>2. IsFiniteSet({"1", "2", "9"})
  <2>1. IsFiniteSet({"1", "2"})
    <3>1. IsFiniteSet({"1"})
      BY FS_Singleton
    <3>2. {"1", "2"} = {"1"} \cup {"2"}
      OBVIOUS
    <3> QED  BY <3>1, <3>2, FS_AddElement
  <2>2. {"1", "2", "9"} = {"1", "2"} \cup {"9"}
    OBVIOUS
  <2> QED  BY <2>1, <2>2, FS_AddElement
<1>3. Cardinality(Declared(headers)) \in Nat
  BY <1>1, <1>2, FS_Subset, FS_CardinalityType
<1> QED  BY <1>3 DEF ContentLength

\* A message, unfolded once: whether there is none any more, none that is whole, or
\* one and those behind it.
NoneAt(w, p) == p > Len(w) \/ w[p] = "n"
BrokenAt(w, p) == ~Within(w, p) \/ MessageEnd(w, p) > Len(w)
MessageAt(w, p) ==
  [lines |-> Headers(w)[p].lines,
   body |-> SubSeq(w, Headers(w)[p].end + 1, MessageEnd(w, p))]
Message(S) == [lines : Seq(Seq(S)), body : Seq(S)]

LEMMA EndOfMessage ==
  ASSUME NEW S, NEW w \in Seq(S), NEW p \in 1..(Len(w) + 1), ~BrokenAt(w, p)
  PROVE  /\ Headers(w)[p].end \in p..Len(w)
         /\ MessageEnd(w, p) \in Headers(w)[p].end..Len(w)
         /\ MessageAt(w, p) \in Message(S)
<1> DEFINE h == Headers(w)[p].end
           e == MessageEnd(w, p)
           ls == Headers(w)[p].lines
<1>1. h \in p..(Len(w) + 1)
  BY HeaderEnds
<1>2. h <= Len(w)
  BY DEF BrokenAt, Within
<1>3. e = h + ContentLength(Tail(ls)) /\ ~(e > Len(w))
  BY DEF BrokenAt, MessageEnd
<1>4. ContentLength(Tail(ls)) \in Nat
  BY ContentLengthTyped
<1>5. ls \in Seq(Seq(S))
  BY HeaderRead
<1> HIDE DEF h, e, ls
<1>6. h \in p..Len(w) /\ e \in h..Len(w)
  BY <1>1, <1>2, <1>3, <1>4
<1>7. SubSeq(w, h + 1, e) \in Seq(S)
  <2>1. h + 1 \in 1..(Len(w) + 1) /\ e \in (h + 1 - 1)..Len(w)
    BY <1>6
  <2> DEFINE a == h + 1
  <2> HIDE DEF a
  <2>2. a \in 1..(Len(w) + 1) /\ e \in (a - 1)..Len(w) => SubSeq(w, a, e) \in Seq(S)
    BY Part
  <2> QED  BY <2>1, <2>2 DEF a
<1> QED  BY <1>5, <1>6, <1>7 DEF MessageAt, Message, h, e, ls

\* The messages from each place on, unfolded once.
RestAt(w, p) ==
  IF NoneAt(w, p) THEN [messages |-> <<>>, ends |-> "closed"]
  ELSE IF BrokenAt(w, p) THEN [messages |-> <<>>, ends |-> "malformed"]
  ELSE [messages |-> <<MessageAt(w, p)>> \o MessagesFrom(w)[MessageEnd(w, p) + 1].messages,
        ends     |-> MessagesFrom(w)[MessageEnd(w, p) + 1].ends]
Rest(S) == [messages : Seq(Message(S)), ends : {"closed", "malformed"}]

LEMMA MessagesRead ==
  ASSUME NEW S, NEW w \in Seq(S)
  PROVE  /\ MessagesFrom(w) \in [1..(Len(w) + 1) -> Rest(S)]
         /\ \A p \in 1..(Len(w) + 1) : MessagesFrom(w)[p] = RestAt(w, p)
<1> DEFINE n == Len(w)
           D == 1..(n + 1)
           More == {p \in D : ~NoneAt(w, p) /\ ~BrokenAt(w, p)}
           rank == [p \in D |-> n + 1 - p]
           next == [p \in D |-> MessageEnd(w, p) + 1]
           val == [p \in D |-> [messages |-> <<>>,
                                ends |-> IF NoneAt(w, p) THEN "closed" ELSE "malformed"]]
           M == Message(S)
           X == Rest(S)
           H == [z \in More \X X |-> [messages |-> <<MessageAt(w, z[1])>> \o z[2].messages,
                                      ends |-> z[2].ends]]
           Step(f, p) ==
             IF NoneAt(w, p) THEN [messages |-> <<>>, ends |-> "closed"]
             ELSE IF BrokenAt(w, p) THEN [messages |-> <<>>, ends |-> "malformed"]
             ELSE [messages |-> <<MessageAt(w, p)>> \o f[MessageEnd(w, p) + 1].messages,
                   ends     |-> f[MessageEnd(w, p) + 1].ends]
<1>1. n \in Nat /\ D \subseteq Nat \ {0}
  OBVIOUS
<1>2. \A p \in More : /\ p \in D /\ MessageEnd(w, p) \in p..n /\ MessageAt(w, p) \in M
                      /\ next[p] = MessageEnd(w, p) + 1 /\ next[p] \in D /\ rank[next[p]] < rank[p]
  <2> SUFFICES ASSUME NEW p \in More
               PROVE  /\ p \in D /\ MessageEnd(w, p) \in p..n /\ MessageAt(w, p) \in M
                      /\ next[p] = MessageEnd(w, p) + 1 /\ next[p] \in D
                      /\ rank[next[p]] < rank[p]
    OBVIOUS
  <2>1. p \in D /\ ~BrokenAt(w, p)
    OBVIOUS
  <2>2. /\ Headers(w)[p].end \in p..Len(w) /\ MessageAt(w, p) \in M
        /\ MessageEnd(w, p) \in Headers(w)[p].end..Len(w)
    BY <2>1, EndOfMessage
  <2>3. MessageEnd(w, p) \in p..n
    BY <2>1, <2>2, <1>1
  <2>4. next[p] = MessageEnd(w, p) + 1
    BY <2>1
  <2>5. next[p] \in D /\ next[p] > p
    BY <2>1, <2>3, <2>4, <1>1
  <2> HIDE DEF next, More
  <2>6. rank[next[p]] = n + 1 - next[p] /\ rank[p] = n + 1 - p
    BY <2>1, <2>5
  <2> QED  BY <2>1, <2>2, <2>3, <2>4, <2>5, <2>6, <1>1
<1>3. \A p \in D : /\ val[p] \in X
                   /\ val[p] = [messages |-> <<>>,
                                ends |-> IF NoneAt(w, p) THEN "closed" ELSE "malformed"]
  BY DEF Rest
<1>4. \A p \in More : \A x \in X :
        /\ H[<<p, x>>] = [messages |-> <<MessageAt(w, p)>> \o x.messages, ends |-> x.ends]
        /\ H[<<p, x>>] \in X
  <2> SUFFICES ASSUME NEW p \in More, NEW x \in X
               PROVE  /\ H[<<p, x>>] = [messages |-> <<MessageAt(w, p)>> \o x.messages,
                                        ends |-> x.ends]
                      /\ H[<<p, x>>] \in X
    OBVIOUS
  <2>1. <<p, x>> \in More \X X /\ <<p, x>>[2] = x /\ <<p, x>>[1] = p
    OBVIOUS
  <2>2. H[<<p, x>>] = [messages |-> <<MessageAt(w, p)>> \o x.messages, ends |-> x.ends]
    <3> HIDE DEF More, X
    <3> QED  BY <2>1, Zenon
  <2>3. x.messages \in Seq(M) /\ x.ends \in {"closed", "malformed"}
    BY DEF Rest
  <2>4. MessageAt(w, p) \in M
    BY <1>2
  <2>5. <<MessageAt(w, p)>> \o x.messages \in Seq(M)
    <3> DEFINE u == MessageAt(w, p)
               v == x.messages
    <3>1. u \in M /\ v \in Seq(M)
      BY <2>3, <2>4
    <3> HIDE DEF M, u, v
    <3>2. <<u>> \in Seq(M)
      BY <3>1
    <3>3. <<u>> \o v \in Seq(M)
      BY <3>1, <3>2
    <3> QED  BY <3>3 DEF u, v
  <2> HIDE DEF H
  <2> QED  BY <2>2, <2>3, <2>5 DEF Rest
<1> HIDE DEF H
<1>5. WellRanked(D, X, n, rank, More, next, val, H)
  <2>1. rank \in [D -> 0..n] /\ More \in SUBSET D
    BY <1>1
  <2> HIDE DEF D, X, n, rank, More, next, val
  <2> QED  BY <1>1, <1>2, <1>3, <1>4, <2>1 DEF WellRanked
<1>6. PICK f \in [D -> X] : f = [p \in D |-> ValueAt(f, More, next, val, H, p)]
  <2> HIDE DEF D, X, n, rank, More, next, val
  <2> QED  BY <1>5, RecursionExists
<1>7. ASSUME NEW p \in D PROVE ValueAt(f, More, next, val, H, p) = Step(f, p)
  <2>1. CASE p \in More
    <3>1. next[p] = MessageEnd(w, p) + 1 /\ f[next[p]] \in X
      BY <1>2, <1>6, <2>1
    <3>2. ValueAt(f, More, next, val, H, p)
            = [messages |-> <<MessageAt(w, p)>> \o f[next[p]].messages, ends |-> f[next[p]].ends]
      <4> HIDE DEF D, X, n, rank, More, next, val
      <4> QED  BY <1>4, <2>1, <3>1 DEF ValueAt
    <3>3. ~NoneAt(w, p) /\ ~BrokenAt(w, p)
      BY <2>1
    <3> HIDE DEF next
    <3> QED  BY <3>1, <3>2, <3>3
  <2>2. CASE p \notin More
    <3>1. ValueAt(f, More, next, val, H, p)
            = [messages |-> <<>>, ends |-> IF NoneAt(w, p) THEN "closed" ELSE "malformed"]
      <4> HIDE DEF D, X, n, rank, More, next, val
      <4> QED  BY <1>3, <2>2 DEF ValueAt
    <3>2. NoneAt(w, p) \/ BrokenAt(w, p)
      BY <2>2
    <3> QED  BY <3>1, <3>2
  <2> QED  BY <2>1, <2>2
<1>8. f = [p \in D |-> Step(f, p)]
  <2> DEFINE V(p) == ValueAt(f, More, next, val, H, p)
  <2>1. f = [p \in D |-> V(p)]
    BY <1>6
  <2>2. \A p \in D : V(p) = Step(f, p)
    BY <1>7
  <2> HIDE DEF V, Step, D
  <2> QED  BY <2>1, <2>2
<1> DEFINE F == CHOOSE g : g = [p \in D |-> Step(g, p)]
<1>9. F = [p \in D |-> Step(F, p)]
  BY <1>8, Zenon
<1>10. MessagesFrom(w) = F
  BY Zenon DEF MessagesFrom, NoneAt, BrokenAt, MessageAt
<1> HIDE DEF F
<1>11. \A p \in D : F[p] = Step(F, p)
  <2> HIDE DEF Step, D
  <2> QED  BY <1>9
<1> DEFINE T == {k \in 0..(n + 1) : \A p \in D : p >= k => F[p] \in X}
<1>12. F \in [D -> X]
  <2>1. ASSUME NEW p \in D, p \in More => F[MessageEnd(w, p) + 1] \in X PROVE F[p] \in X
    <3>1. F[p] = Step(F, p)
      <4> HIDE DEF Step
      <4> QED  BY <1>11
    <3>2. CASE p \in More
      <4> DEFINE x == F[MessageEnd(w, p) + 1]
      <4>1. x \in X /\ F[p] = [messages |-> <<MessageAt(w, p)>> \o x.messages, ends |-> x.ends]
        BY <2>1, <3>1, <3>2
      <4> HIDE DEF x, More, X
      <4> QED  BY <1>4, <3>2, <4>1
    <3>3. CASE p \notin More
      <4>1. F[p] = [messages |-> <<>>, ends |-> IF NoneAt(w, p) THEN "closed" ELSE "malformed"]
        BY <3>1, <3>3
      <4> QED  BY <4>1, <1>3
    <3> QED  BY <3>2, <3>3
  <2> HIDE DEF X
  <2>2. n + 1 \in T
    <3> SUFFICES ASSUME NEW p \in D, p >= n + 1 PROVE F[p] \in X
      BY <1>1
    <3>1. p > Len(w)
      BY <1>1
    <3>2. p \notin More
      BY <3>1 DEF NoneAt
    <3> QED  BY <2>1, <3>2
  <2>3. ASSUME NEW k \in 0..n, k + 1 \in T PROVE k \in T
    <3> SUFFICES ASSUME NEW p \in D, p >= k PROVE F[p] \in X
      BY <1>1
    <3>1. \A q \in D : q > k => F[q] \in X
      BY <2>3, <1>1
    <3>2. p \in More => MessageEnd(w, p) + 1 \in D /\ MessageEnd(w, p) + 1 > k
      <4> DEFINE e == MessageEnd(w, p)
      <4>1. p \in More => e \in p..n
        BY <1>2
      <4> HIDE DEF e, More
      <4>2. e \in p..n => e + 1 \in D /\ e + 1 > k
        BY <1>1
      <4> QED  BY <4>1, <4>2 DEF e
    <3> QED  BY <2>1, <3>1, <3>2
  <2>4. 0..(n + 1) \subseteq T
    <3>1. n + 1 \in Nat /\ n + 1 - 1 = n
      BY <1>1
    <3> HIDE DEF T
    <3> QED  BY <2>2, <2>3, <3>1, Backwards
  <2>5. \A p \in D : F[p] \in X
    <3>1. 0 \in 0..(n + 1)
      BY <1>1
    <3>2. 0 \in T
      BY <2>4, <3>1
    <3> QED  BY <3>2, <1>1
  <2>6. DOMAIN F = D
    <3> HIDE DEF Step
    <3> QED  BY <1>9
  <2>7. F = [p \in D |-> F[p]]
    <3> HIDE DEF Step
    <3> QED  BY <1>9
  <2> HIDE DEF D
  <2> QED  BY <2>5, <2>6, <2>7
<1>13. \A p \in D : MessagesFrom(w)[p] = RestAt(w, p)
  BY <1>10, <1>11 DEF RestAt
<1> QED  BY <1>10, <1>12, <1>13

-----------------------------------------------------------------------------
(* The reader: how far it has got in the bytes.                             *)

\* Two parts, one behind the other.
LEMMA Joined ==
  ASSUME NEW S, NEW w \in Seq(S), NEW a \in 1..(Len(w) + 1), NEW b \in (a - 1)..Len(w),
         NEW d \in b..Len(w)
  PROVE  SubSeq(w, a, b) \o SubSeq(w, b + 1, d) = SubSeq(w, a, d)
<1> DEFINE u == SubSeq(w, a, b)
           c == b + 1
           v == SubSeq(w, c, d)
           x == SubSeq(w, a, d)
<1>1. u \in Seq(S) /\ Len(u) = b - a + 1 /\ \A k \in 1..(b - a + 1) : u[k] = w[a + k - 1]
  BY Part
<1>2. c \in 1..(Len(w) + 1) /\ d \in (c - 1)..Len(w) /\ d - c + 1 = d - b
  OBVIOUS
<1> HIDE DEF u
<1>3. v \in Seq(S) /\ Len(v) = d - b /\ \A k \in 1..(d - b) : v[k] = w[b + k]
  <2> HIDE DEF c
  <2>1. v \in Seq(S) /\ Len(v) = d - c + 1 /\ \A k \in 1..(d - c + 1) : v[k] = w[c + k - 1]
    BY <1>2, Part
  <2>2. \A k \in 1..(d - b) : c + k - 1 = b + k
    BY DEF c
  <2> QED  BY <1>2, <2>1, <2>2
<1>4. d \in (a - 1)..Len(w)
  OBVIOUS
<1>5. x \in Seq(S) /\ Len(x) = d - a + 1 /\ \A k \in 1..(d - a + 1) : x[k] = w[a + k - 1]
  BY <1>4, Part
<1> HIDE DEF v, x
<1>6. u \o v \in Seq(S) /\ Len(u \o v) = d - a + 1
  <2>1. u \o v \in Seq(S) /\ Len(u \o v) = Len(u) + Len(v)
    BY <1>1, <1>3, ConcatProperties
  <2>2. (b - a + 1) + (d - b) = d - a + 1
    OBVIOUS
  <2> QED  BY <1>1, <1>3, <2>1, <2>2
<1>7. ASSUME NEW k \in 1..(d - a + 1) PROVE (u \o v)[k] = x[k]
  <2>1. CASE k <= b - a + 1
    BY <1>1, <1>3, <1>5, <2>1
  <2>2. CASE k > b - a + 1
    <3> DEFINE j == k - (b - a + 1)
    <3>1. j \in 1..(d - b) /\ b + j = a + k - 1
      BY <2>2
    <3>2. (u \o v)[k] = v[j]
      BY <1>1, <1>3, <2>2
    <3> HIDE DEF j
    <3>3. v[j] = w[a + k - 1]
      BY <1>3, <3>1
    <3>4. x[k] = w[a + k - 1]
      BY <1>5
    <3> QED  BY <3>2, <3>3, <3>4, Zenon
  <2>3. k <= b - a + 1 \/ k > b - a + 1
    OBVIOUS
  <2> QED  BY <2>1, <2>2, <2>3, Zenon
<1>8. u \o v = x
  BY <1>5, <1>6, <1>7, SeqEqual
<1> QED  BY <1>8 DEF u, v, x, c

\* One more element, then the rest.
LEMMA AppendedThen ==
  ASSUME NEW S, NEW u \in Seq(S), NEW m \in S, NEW v \in Seq(S)
  PROVE  u \o (<<m>> \o v) = Append(u, m) \o v
<1> DEFINE x == u \o (<<m>> \o v)
           y == Append(u, m) \o v
<1>1. <<m>> \in Seq(S) /\ Append(u, m) \in Seq(S) /\ Len(Append(u, m)) = Len(u) + 1
  OBVIOUS
<1>2. x \in Seq(S) /\ y \in Seq(S) /\ Len(x) = Len(u) + 1 + Len(v) /\ Len(y) = Len(x)
  BY <1>1
<1>3. ASSUME NEW k \in 1..Len(x) PROVE x[k] = y[k]
  BY <1>1, <1>2
<1> HIDE DEF x, y
<1>4. x = y
  BY <1>2, <1>3, SeqEqual
<1> QED  BY <1>4 DEF x, y

\* The line ends at the first "n".
LEMMA LineIs ==
  ASSUME NEW S, NEW w \in Seq(S), NEW s \in 1..(Len(w) + 1), NEW q \in s..Len(w), w[q] = "n",
         \A k \in s..(q - 1) : w[k] # "n"
  PROVE  LineEnd(w, s) = q
<1> DEFINE e == LineEnd(w, s)
<1>1. /\ e \in s..(Len(w) + 1) /\ \A k \in s..(e - 1) : w[k] # "n"
      /\ e <= Len(w) => w[e] = "n"
  BY LineEndAt
<1> HIDE DEF e
<1>2. ~(q < e) /\ ~(e < q)
  BY <1>1
<1> QED  BY <1>1, <1>2 DEF e

\* What the header from s on is, by the bytes there: no end of a line any more, an
\* empty line, or a line and what comes behind it.
LEMMA HeaderSteps ==
  ASSUME NEW S, NEW w \in Seq(S), NEW s \in 1..(Len(w) + 1)
  PROVE  /\ (\A k \in s..Len(w) : w[k] # "n") => Headers(w)[s].end = Len(w) + 1
         /\ s <= Len(w) /\ w[s] = "n" => Headers(w)[s] = [lines |-> <<>>, end |-> s]
         /\ \A q \in (s + 1)..Len(w) :
              w[q] = "n" /\ (\A k \in s..(q - 1) : w[k] # "n") =>
                Headers(w)[s] = [lines |-> <<SubSeq(w, s, q - 1)>> \o Headers(w)[q + 1].lines,
                                 end   |-> Headers(w)[q + 1].end]
<1> DEFINE n == Len(w)
<1>1. Headers(w)[s] = HeaderAt(w, s)
  BY HeaderRead
<1>2. n \in Nat
  OBVIOUS
<1>3. ASSUME \A k \in s..n : w[k] # "n" PROVE Headers(w)[s].end = n + 1
  <2>1. LineEnd(w, s) \in s..(n + 1) /\ (LineEnd(w, s) <= n => w[LineEnd(w, s)] = "n")
    BY LineEndAt
  <2>2. LineEnd(w, s) = n + 1
    BY <1>2, <1>3, <2>1
  <2> QED  BY <1>1, <2>2 DEF HeaderAt
<1>4. ASSUME s <= n, w[s] = "n" PROVE Headers(w)[s] = [lines |-> <<>>, end |-> s]
  <2>1. LineEnd(w, s) = s
    BY <1>2, <1>4, LineIs
  <2> QED  BY <1>1, <2>1 DEF HeaderAt
<1>5. ASSUME NEW q \in (s + 1)..n, w[q] = "n", \A k \in s..(q - 1) : w[k] # "n"
      PROVE  Headers(w)[s] = [lines |-> <<SubSeq(w, s, q - 1)>> \o Headers(w)[q + 1].lines,
                              end   |-> Headers(w)[q + 1].end]
  <2>1. q \in s..Len(w) /\ q # s /\ q # Len(w) + 1
    BY <1>2
  <2>2. LineEnd(w, s) = q
    BY <1>5, <2>1, LineIs
  <2> QED  BY <1>1, <2>1, <2>2 DEF HeaderAt
<1> QED  BY <1>3, <1>4, <1>5

\* In the header of the message that starts at p, with the bytes up to c: some whole
\* lines and the start of one, within the limits so far.
InHeader(w, p, c, ls, l, hb) ==
  /\ hb \in Nat /\ p + hb <= c + 1 /\ l = SubSeq(w, p + hb, c)
  /\ \A q \in (p + hb)..c : w[q] # "n"
  /\ c - (p + hb) + 1 <= MaxLine
  /\ ls \in Seq(Seq(Kinds))
  /\ ls \o Headers(w)[p + hb].lines = Headers(w)[p].lines
  /\ Headers(w)[p + hb].end = Headers(w)[p].end
  /\ ls = <<>> <=> hb = 0
  /\ ls # <<>> => w[p] # "n"
  /\ (\A i \in 1..Len(ls) : Len(ls[i]) < MaxLine)
  /\ hb <= MaxHeaderBytes /\ Len(ls) <= MaxHeaders + 1

\* In its body, with the bytes up to c.
InBody(w, p, c, ls, b) ==
  /\ ls # <<>> /\ ls = Headers(w)[p].lines /\ Within(w, p) /\ ~NoneAt(w, p)
  /\ Headers(w)[p].end <= c /\ b = SubSeq(w, Headers(w)[p].end + 1, c) /\ c < MessageEnd(w, p)

LEMMA MinOfTwo ==
  ASSUME NEW a \in Int, NEW b \in Int
  PROVE  Min({a, b}) \in {a, b} /\ Min({a, b}) <= a /\ Min({a, b}) <= b
<1>1. \E x \in {a, b} : \A y \in {a, b} : x <= y
  OBVIOUS
<1>2. Min({a, b}) \in {a, b} /\ \A y \in {a, b} : Min({a, b}) <= y
  BY <1>1 DEF Min
<1> QED  BY <1>2

\* How many bytes readline takes: none behind the end of the line, and no more than
\* there is room for.
LEMMA TakenBytes ==
  ASSUME NEW S, NEW buf \in Seq(S), Len(buf) # 0, NEW room \in Nat \ {0},
         NEW ends, ends = {i \in 1..Len(buf) : buf[i] = "n"},
         NEW end, end = (IF ends = {} THEN Len(buf) ELSE Min(ends))
  PROVE  LET count == Min({end, room})
         IN /\ count \in 1..Len(buf) /\ count <= room
            /\ \A k \in 1..(count - 1) : buf[k] # "n"
<1> DEFINE m == Len(buf)
           count == Min({end, room})
<1>1. m \in Nat \ {0}
  OBVIOUS
<1> HIDE DEF m
<1>2. end \in 1..m /\ \A k \in 1..(end - 1) : buf[k] # "n"
  <2>0. ends = {i \in 1..m : buf[i] = "n"}
    BY DEF m
  <2>1. CASE ends = {}
    <3>1. end = m
      BY <2>1 DEF m
    <3>2. ASSUME NEW k \in 1..(m - 1) PROVE buf[k] # "n"
      <4>1. k \in 1..m /\ k \notin ends
        BY <1>1, <2>1
      <4> QED  BY <2>0, <4>1
    <3>3. end \in 1..m
      BY <1>1, <3>1
    <3>4. \A k \in 1..(end - 1) : buf[k] # "n"
      <4> HIDE DEF m
      <4> QED  BY <3>1, <3>2, Zenon
    <3> QED  BY <3>3, <3>4
  <2>2. CASE ends # {}
    <3>1. ends \subseteq Nat
      BY <1>1, <2>0
    <3>2. \E x \in ends : \A y \in ends : x <= y
      BY <2>2, <3>1, LeastExists
    <3>3. end \in ends /\ \A y \in ends : end <= y
      <4>1. end = Min(ends)
        BY <2>2
      <4> QED  BY <3>2, <4>1 DEF Min
    <3>4. end \in 1..m
      BY <2>0, <3>3
    <3>5. ASSUME NEW k \in 1..(end - 1) PROVE buf[k] # "n"
      <4>1. k \in 1..m /\ ~(end <= k)
        BY <1>1, <3>4
      <4> QED  BY <2>0, <3>3, <4>1
    <3> QED  BY <3>4, <3>5
  <2> QED  BY <2>1, <2>2
<1>3. end \in Int /\ room \in Int
  BY <1>1, <1>2
<1>4. count \in {end, room} /\ count <= end /\ count <= room
  BY <1>3, MinOfTwo
<1> HIDE DEF count
<1>5. count \in 1..m
  BY <1>1, <1>2, <1>4
<1>6. \A k \in 1..(count - 1) : k \in 1..(end - 1)
  BY <1>2, <1>4, <1>5
<1> QED  BY <1>2, <1>4, <1>5, <1>6 DEF count, m

\* The bytes taken leave the buffer and join those taken before.
LEMMA BytesMove ==
  ASSUME NEW S, NEW w \in Seq(S), NEW c \in 0..Len(w), NEW r \in c..Len(w),
         NEW s \in 1..(c + 1), NEW count \in 1..(r - c)
  PROVE  /\ SubSeq(SubSeq(w, c + 1, r), count + 1, r - c) = SubSeq(w, c + count + 1, r)
         /\ SubSeq(w, s, c) \o SubSeq(SubSeq(w, c + 1, r), 1, count) = SubSeq(w, s, c + count)
         /\ \A k \in 1..(r - c) : SubSeq(w, c + 1, r)[k] = w[c + k]
<1> DEFINE a == c + 1
           buf == SubSeq(w, a, r)
           i == count + 1
           d == c + count
           n == Len(w)
<1>0. c \in Nat /\ r \in Nat /\ s \in Nat /\ count \in Nat /\ n \in Nat
  OBVIOUS
<1>1. /\ a \in 1..(n + 1) /\ r \in (a - 1)..n /\ r - a + 1 = r - c /\ i \in 1..(r - a + 2)
      /\ r - c \in (i - 1)..(r - a + 1) /\ a + i - 1 = d + 1 /\ a + (r - c) - 1 = r
      /\ 1 \in 1..(r - a + 2) /\ count \in (1 - 1)..(r - a + 1) /\ a + 1 - 1 = a
      /\ a + count - 1 = d /\ d \in c..n /\ s \in 1..(n + 1) /\ c \in (s - 1)..n
  BY <1>0
<1>2. \A k \in 1..(r - c) : a + k - 1 = c + k
  BY <1>0
<1> HIDE DEF a, i, d
<1>3. \A k \in 1..(r - c) : buf[k] = w[c + k]
  <2>1. \A k \in 1..(r - a + 1) : buf[k] = w[a + k - 1]
    BY <1>1, Part
  <2> HIDE DEF buf
  <2> QED  BY <1>1, <1>2, <2>1
<1>4. SubSeq(buf, i, r - c) = SubSeq(w, d + 1, r)
  <2> DEFINE j == r - c
  <2>1. j \in (i - 1)..(r - a + 1) /\ a + j - 1 = r
    BY <1>1
  <2> HIDE DEF j
  <2>2. SubSeq(SubSeq(w, a, r), i, j) = SubSeq(w, a + i - 1, a + j - 1)
    BY <1>1, <2>1, PartOfPart
  <2> QED  BY <1>1, <2>1, <2>2 DEF j
<1>5. SubSeq(buf, 1, count) = SubSeq(w, a, d)
  <2>1. SubSeq(SubSeq(w, a, r), 1, count) = SubSeq(w, a + 1 - 1, a + count - 1)
    BY <1>1, PartOfPart
  <2> QED  BY <1>1, <2>1
<1>6. SubSeq(w, s, c) \o SubSeq(w, a, d) = SubSeq(w, s, d)
  <2>1. SubSeq(w, s, c) \o SubSeq(w, c + 1, d) = SubSeq(w, s, d)
    BY <1>1, Joined
  <2> QED  BY <2>1 DEF a
<1> QED  BY <1>3, <1>4, <1>5, <1>6 DEF a, i, d

\* No byte before the last of those taken ends the line.
LEMMA NoEndBefore ==
  ASSUME NEW w, NEW c \in Nat, NEW r \in Nat, NEW s \in Nat, \A q \in s..c : w[q] # "n",
         NEW count \in 1..(r - c), NEW buf, \A k \in 1..(r - c) : buf[k] = w[c + k],
         \A k \in 1..(count - 1) : buf[k] # "n"
  PROVE  \A q \in s..(c + count - 1) : w[q] # "n"
<1> SUFFICES ASSUME NEW q \in s..(c + count - 1) PROVE w[q] # "n"
  OBVIOUS
<1>1. q \in Int /\ count \in Nat /\ (q <= c \/ q > c)
  OBVIOUS
<1>2. CASE q <= c
  <2>1. q \in s..c
    BY <1>1, <1>2
  <2> QED  BY <2>1
<1>3. CASE q > c
  <2> DEFINE k == q - c
  <2>1. k \in 1..(count - 1) /\ k \in 1..(r - c) /\ c + k = q
    BY <1>1, <1>3
  <2> HIDE DEF k
  <2> QED  BY <2>1
<1> QED  BY <1>1, <1>2, <1>3

\* The bytes exceed what a header may be: the message is malformed.
LEMMA Overlong ==
  ASSUME NEW w \in Seq(Kinds), NEW p \in 1..(Len(w) + 1), NEW c \in 0..Len(w),
         NEW ls, NEW l, NEW hb, InHeader(w, p, c, ls, l, hb), NEW s, s = p + hb,
         NEW d \in (c + 1)..Len(w), \A q \in s..(d - 1) : w[q] # "n",
         \/ d - s + 1 > MaxLine \/ d - p + 1 > MaxHeaderBytes
         \/ d > s /\ Len(ls) > MaxHeaders
  PROVE  MessagesFrom(w)[p] = [messages |-> <<>>, ends |-> "malformed"]
<1> DEFINE n == Len(w)
           all == Headers(w)[p].lines
           h == Headers(w)[p].end
           e == LineEnd(w, s)
<1>1. /\ hb \in Nat /\ s \in p..(c + 1) /\ s \in 1..(n + 1) /\ n \in Nat /\ s <= n /\ s <= d
      /\ p \in Nat /\ c \in Nat /\ d \in Nat
  BY DEF InHeader
<1>2. /\ MaxLine \in Nat \ {0} /\ MaxHeaderBytes \in Nat \ {0} /\ MaxHeaders \in Nat
  BY ReaderAssumption DEF ReaderAssumption
<1>3. /\ ls \in Seq(Seq(Kinds)) /\ ls \o Headers(w)[s].lines = all /\ Headers(w)[s].end = h
      /\ (ls = <<>> => hb = 0) /\ (ls # <<>> => hb # 0 /\ w[p] # "n")
  BY DEF InHeader
<1>4. e \in s..(n + 1) /\ (e <= n => w[e] = "n") /\ Headers(w)[s] = HeaderAt(w, s)
  BY <1>1, LineEndAt, HeaderRead
<1>5. e >= d
  BY <1>1, <1>4
<1>6. ~NoneAt(w, p)
  <2>1. p <= n
    BY <1>1
  <2>2. CASE ls = <<>>
    <3>1. s = p
      BY <1>1, <1>3, <2>2
    <3>2. d > s
      <4>1. Len(ls) = 0
        BY <2>2
      <4>2. d = s => d - s + 1 = 1 /\ d - p + 1 = 1
        BY <1>1, <3>1
      <4>3. d # s
        BY <1>1, <1>2, <4>2
      <4> QED  BY <1>1, <4>3
    <3>3. s \in s..(d - 1)
      BY <1>1, <3>2
    <3> QED  BY <2>1, <1>1, <3>1, <3>3 DEF NoneAt
  <2>3. CASE ls # <<>>
    BY <2>1, <2>3, <1>1, <1>3 DEF NoneAt
  <2> QED  BY <2>2, <2>3
<1> HIDE DEF e, all, h
<1>7. ~Within(w, p)
  <2> SUFFICES ASSUME Within(w, p) PROVE FALSE
    OBVIOUS
  <2>1. /\ h <= n /\ h - p < MaxHeaderBytes /\ Len(all) <= MaxHeaders + 1
        /\ \A x \in ToSet(all) : Len(x) < MaxLine
    BY DEF Within, h, all
  <2>2. h \in p..(n + 1)
    BY HeaderEnds DEF h
  <2>3. e # n + 1
    <3>1. e = n + 1 => Headers(w)[s].end = n + 1
      BY <1>4 DEF HeaderAt, e
    <3> QED  BY <1>1, <1>3, <2>1, <2>2, <3>1
  <2>4. h >= e
    <3>1. CASE e = s
      BY <1>3, <1>4, <2>2, <3>1 DEF HeaderAt, e
    <3>2. CASE e # s
      <4>1. h = Headers(w)[e + 1].end
        <5>1. Headers(w)[s].end = Headers(w)[e + 1].end
          BY <1>4, <2>3, <3>2 DEF HeaderAt, e
        <5> QED  BY <1>3, <5>1
      <4>2. e + 1 \in 1..(n + 1)
        BY <1>1, <1>4, <2>3
      <4>3. Headers(w)[e + 1].end \in (e + 1)..(n + 1)
        <5> DEFINE k == e + 1
        <5> HIDE DEF k
        <5>1. k \in 1..(n + 1) => Headers(w)[k].end \in k..(n + 1)
          BY HeaderEnds
        <5> QED  BY <4>2, <5>1 DEF k
      <4> QED  BY <1>1, <1>4, <4>1, <4>3
    <3> QED  BY <3>1, <3>2
  <2>5. d - p + 1 <= MaxHeaderBytes
    BY <1>1, <1>2, <1>4, <1>5, <2>1, <2>2, <2>4
  <2>6. d > s
    BY <1>1, <1>2, <2>5
  <2> DEFINE text == SubSeq(w, s, e - 1)
             others == Headers(w)[e + 1].lines
  <2>7. Headers(w)[s].lines = <<text>> \o others
    <3>1. e \notin {s, Len(w) + 1}
      BY <1>1, <1>4, <1>5, <2>3, <2>6
    <3> HIDE DEF text, others
    <3>2. HeaderAt(w, s) = [lines |-> <<text>> \o others, end |-> Headers(w)[e + 1].end]
      BY <3>1 DEF HeaderAt, e, text, others
    <3> QED  BY <1>4, <3>2
  <2>8. text \in Seq(Kinds) /\ Len(text) = e - s
    <3> DEFINE b == e - 1
    <3>1. b \in (s - 1)..n /\ b - s + 1 = e - s
      BY <1>1, <1>4, <2>3
    <3> HIDE DEF b
    <3>2. SubSeq(w, s, b) \in Seq(Kinds) /\ Len(SubSeq(w, s, b)) = b - s + 1
      BY <1>1, <3>1, Part
    <3> QED  BY <3>1, <3>2 DEF b
  <2>9. others \in Seq(Seq(Kinds))
    <3>1. e + 1 \in 1..(n + 1)
      BY <1>1, <1>4, <2>3
    <3> QED  BY <3>1, HeaderRead
  <2> HIDE DEF text, others
  <2>10. Len(all) >= Len(ls) + 1 /\ all[Len(ls) + 1] = text
    <3> DEFINE Q == Seq(Kinds)
               u == Len(ls) + 1
    <3>1. ls \in Seq(Q) /\ others \in Seq(Q) /\ text \in Q
      BY <1>3, <2>8, <2>9
    <3> HIDE DEF Q
    <3>2. all = ls \o (<<text>> \o others)
      BY <1>3, <2>7
    <3> QED  BY <3>1, <3>2
  <2>11. text \in ToSet(all)
    <3>1. Len(ls) + 1 \in 1..Len(all) /\ all \in Seq(Seq(Kinds))
      <4>1. Headers(w)[p].lines \in Seq(Seq(Kinds))
        BY HeaderRead
      <4> QED  BY <1>3, <2>10, <4>1 DEF all
    <3> QED  BY <2>10, <3>1 DEF ToSet
  <2>12. e - s < MaxLine
    BY <2>1, <2>8, <2>11
  <2>13. d - s + 1 <= MaxLine
    BY <1>1, <1>2, <1>4, <1>5, <2>12
  <2>14. Len(ls) <= MaxHeaders
    <3>1. Len(all) \in Nat /\ Len(ls) \in Nat
      <4>1. Headers(w)[p].lines \in Seq(Seq(Kinds))
        BY HeaderRead
      <4> QED  BY <1>3, <4>1 DEF all
    <3> QED  BY <1>2, <2>1, <2>10, <3>1
  <2>15. Len(ls) \in Nat
    BY <1>3
  <2> QED  BY <1>1, <1>2, <2>5, <2>13, <2>14, <2>15
<1>8. MessagesFrom(w)[p] = RestAt(w, p)
  BY MessagesRead
<1> QED  BY <1>6, <1>7, <1>8 DEF RestAt, BrokenAt

\* Another line of the header is whole.
LEMMA LineEnds ==
  ASSUME NEW w \in Seq(Kinds), NEW p \in 1..(Len(w) + 1), NEW c \in 0..Len(w),
         NEW ls, NEW l, NEW hb, InHeader(w, p, c, ls, l, hb), NEW s, s = p + hb,
         NEW d \in (c + 1)..Len(w), \A q \in s..(d - 1) : w[q] # "n", w[d] = "n", d > s,
         d - s + 1 <= MaxLine, d - p + 1 <= MaxHeaderBytes, Len(ls) <= MaxHeaders
  PROVE  InHeader(w, p, d, Append(ls, SubSeq(w, s, d - 1)), <<>>, hb + (d - s + 1))
<1> DEFINE n == Len(w)
           text == SubSeq(w, s, d - 1)
           t == d + 1
           more == Append(ls, text)
           hb2 == hb + (d - s + 1)
<1>1. /\ hb \in Nat /\ s \in p..(c + 1) /\ s \in 1..(n + 1) /\ n \in Nat /\ s <= n
      /\ p \in Nat /\ c \in Nat /\ d \in Nat
  BY DEF InHeader
<1>2. /\ MaxLine \in Nat \ {0} /\ MaxHeaderBytes \in Nat \ {0} /\ MaxHeaders \in Nat
  BY ReaderAssumption DEF ReaderAssumption
<1>3. /\ ls \in Seq(Seq(Kinds)) /\ ls \o Headers(w)[s].lines = Headers(w)[p].lines
      /\ Headers(w)[s].end = Headers(w)[p].end
      /\ (ls = <<>> => hb = 0) /\ (ls # <<>> => w[p] # "n")
      /\ \A i \in 1..Len(ls) : Len(ls[i]) < MaxLine
  BY DEF InHeader
<1>4. hb2 \in Nat \ {0} /\ p + hb2 = t /\ t \in 1..(n + 1) /\ hb2 = d - p + 1
  BY <1>1
<1>5. text \in Seq(Kinds) /\ Len(text) = d - s
  <2> DEFINE b == d - 1
  <2>1. b \in (s - 1)..n /\ b - s + 1 = d - s
    BY <1>1
  <2> HIDE DEF b
  <2>2. SubSeq(w, s, b) \in Seq(Kinds) /\ Len(SubSeq(w, s, b)) = b - s + 1
    BY <1>1, <2>1, Part
  <2> QED  BY <2>1, <2>2 DEF b
<1>6. Headers(w)[s] = [lines |-> <<text>> \o Headers(w)[t].lines, end |-> Headers(w)[t].end]
  <2>1. d \in (s + 1)..n
    BY <1>1
  <2> QED  BY <1>1, <2>1, HeaderSteps
<1>7. Headers(w)[t].lines \in Seq(Seq(Kinds))
  BY <1>4, HeaderRead
<1> HIDE DEF text, t, hb2
<1>8. more \o Headers(w)[t].lines = Headers(w)[p].lines /\ Headers(w)[t].end = Headers(w)[p].end
  <2>1. ls \o (<<text>> \o Headers(w)[t].lines) = Append(ls, text) \o Headers(w)[t].lines
    <3> DEFINE Q == Seq(Kinds)
               v == Headers(w)[t].lines
    <3>1. ls \in Seq(Q) /\ v \in Seq(Q) /\ text \in Q
      BY <1>3, <1>5, <1>7
    <3> HIDE DEF Q, v
    <3>2. ls \o (<<text>> \o v) = Append(ls, text) \o v
      BY <3>1, AppendedThen, SMTT(30)
    <3> QED  BY <3>2 DEF v
  <2>2. Headers(w)[s].lines = <<text>> \o Headers(w)[t].lines /\ Headers(w)[s].end = Headers(w)[t].end
    <3> DEFINE x == <<text>> \o Headers(w)[t].lines
               y == Headers(w)[t].end
    <3>1. Headers(w)[s] = [lines |-> x, end |-> y]
      BY <1>6
    <3> HIDE DEF x, y
    <3>2. Headers(w)[s].lines = x /\ Headers(w)[s].end = y
      BY <3>1
    <3> QED  BY <3>2 DEF x, y
  <2>3. ls \o Headers(w)[s].lines = more \o Headers(w)[t].lines
    BY <2>1, <2>2
  <2> HIDE DEF more
  <2> QED  BY <1>3, <2>2, <2>3, Zenon
<1>9. /\ more \in Seq(Seq(Kinds)) /\ Len(more) = Len(ls) + 1 /\ more # <<>>
      /\ \A i \in 1..Len(ls) : more[i] = ls[i]
      /\ more[Len(ls) + 1] = text
  <2> DEFINE Q == Seq(Kinds)
  <2>1. ls \in Seq(Q) /\ text \in Q
    BY <1>3, <1>5
  <2> HIDE DEF Q
  <2>2. /\ more \in Seq(Q) /\ Len(more) = Len(ls) + 1 /\ more # <<>>
        /\ \A i \in 1..Len(ls) : more[i] = ls[i]
        /\ more[Len(ls) + 1] = text
    BY <2>1
  <2> QED  BY <2>2 DEF Q
<1> HIDE DEF more
<1>10. ASSUME NEW i \in 1..Len(more) PROVE Len(more[i]) < MaxLine
  <2>1. Len(ls) \in Nat
    BY <1>3
  <2>2. Len(text) < MaxLine
    BY <1>1, <1>2, <1>5
  <2>3. CASE i = Len(ls) + 1
    BY <1>9, <2>2, <2>3
  <2>4. CASE i # Len(ls) + 1
    <3>1. i \in 1..Len(ls)
      BY <1>9, <2>1, <2>4
    <3> QED  BY <1>3, <1>9, <3>1
  <2> QED  BY <2>3, <2>4
<1>11. w[p] # "n"
  <2>1. CASE ls = <<>>
    <3>1. p \in s..(d - 1)
      BY <1>1, <1>3, <2>1
    <3> QED  BY <3>1
  <2>2. CASE ls # <<>>
    BY <1>3, <2>2
  <2> QED  BY <2>1, <2>2
<1>12. /\ Len(more) <= MaxHeaders + 1 /\ hb2 <= MaxHeaderBytes /\ hb2 # 0
       /\ d - (p + hb2) + 1 <= MaxLine /\ p + hb2 <= d + 1
  <2>1. Len(ls) \in Nat
    BY <1>3
  <2> QED  BY <1>1, <1>2, <1>4, <1>9, <2>1 DEF t
<1>13. <<>> = SubSeq(w, p + hb2, d)
  <2>1. t \in 1..(n + 1) /\ d \in (t - 1)..n /\ d - t + 1 = 0
    BY <1>1, <1>4 DEF t
  <2>2. SubSeq(w, t, d) \in Seq(Kinds) /\ Len(SubSeq(w, t, d)) = 0
    BY <2>1, Part
  <2> QED  BY <1>4, <2>2
<1>14. \A q \in (p + hb2)..d : w[q] # "n"
  BY <1>1, <1>4 DEF t
<1>15. InHeader(w, p, d, more, <<>>, hb2)
  BY <1>4, <1>8, <1>9, <1>10, <1>11, <1>12, <1>13, <1>14 DEF InHeader
<1> QED  BY <1>15 DEF more, text, hb2

\* The header is whole: what it holds is all that was read, and whether it is within
\* the limits depends on its lines alone.
LEMMA HeaderWhole ==
  ASSUME NEW w \in Seq(Kinds), NEW p \in 1..(Len(w) + 1), NEW c \in 0..Len(w),
         NEW ls, NEW l, NEW hb, InHeader(w, p, c, ls, l, hb), NEW d, d = p + hb,
         d = c + 1, d <= Len(w), w[d] = "n", d - p + 1 <= MaxHeaderBytes, ls # <<>>
  PROVE  /\ Headers(w)[p] = [lines |-> ls, end |-> d] /\ ~NoneAt(w, p)
         /\ Within(w, p) <=> ~BadHeader(Tail(ls))
<1>1. /\ hb \in Nat /\ d \in p..Len(w) /\ d \in 1..(Len(w) + 1) /\ p \in Nat /\ c \in Nat
  BY DEF InHeader
<1>2. /\ MaxLine \in Nat \ {0} /\ MaxHeaderBytes \in Nat \ {0} /\ MaxHeaders \in Nat
  BY ReaderAssumption DEF ReaderAssumption
<1>3. /\ ls \in Seq(Seq(Kinds)) /\ ls \o Headers(w)[d].lines = Headers(w)[p].lines
      /\ Headers(w)[d].end = Headers(w)[p].end /\ w[p] # "n"
      /\ \A i \in 1..Len(ls) : Len(ls[i]) < MaxLine
      /\ Len(ls) <= MaxHeaders + 1
  BY DEF InHeader
<1>4. Headers(w)[d] = [lines |-> <<>>, end |-> d]
  BY <1>1, HeaderSteps
<1>5. ls \o <<>> = ls
  BY <1>3
<1>6. Headers(w)[p].lines = ls /\ Headers(w)[p].end = d
  <2>1. Headers(w)[d].lines = <<>> /\ Headers(w)[d].end = d
    BY <1>4
  <2> QED  BY <1>3, <1>5, <2>1, Zenon
<1>7. Headers(w)[p] \in [lines : Seq(Seq(Kinds)), end : Nat]
  BY HeaderRead
<1>8. Headers(w)[p] = [lines |-> ls, end |-> d]
  BY <1>6, <1>7
<1>9. \A x \in ToSet(ls) : Len(x) < MaxLine
  <2>1. \A x \in ToSet(ls) : \E i \in 1..Len(ls) : x = ls[i]
    BY <1>3 DEF ToSet
  <2> QED  BY <1>3, <2>1
<1>10. d <= Len(w) /\ d - p < MaxHeaderBytes
  BY <1>1, <1>2
<1>11. ~NoneAt(w, p)
  BY <1>1, <1>3 DEF NoneAt
<1> QED  BY <1>3, <1>6, <1>8, <1>9, <1>10, <1>11 DEF Within

\* The bytes are over: the end of the session if they are between two messages.
LEMMA CutShort ==
  ASSUME NEW w \in Seq(Kinds), NEW p \in 1..(Len(w) + 1),
         NEW ls, NEW l, NEW hb, InHeader(w, p, Len(w), ls, l, hb)
  PROVE  MessagesFrom(w)[p]
           = [messages |-> <<>>,
              ends |-> IF l = <<>> /\ ls = <<>> THEN "closed" ELSE "malformed"]
<1> DEFINE n == Len(w)
           s == p + hb
<1>1. /\ hb \in Nat /\ s \in p..(n + 1) /\ s \in 1..(n + 1) /\ n \in Nat /\ p \in Nat
      /\ l = SubSeq(w, s, n) /\ \A q \in s..n : w[q] # "n"
  BY DEF InHeader
<1>2. /\ Headers(w)[s].end = Headers(w)[p].end
      /\ (ls = <<>> <=> hb = 0) /\ (ls # <<>> => w[p] # "n")
  BY DEF InHeader
<1>3. MessagesFrom(w)[p] = RestAt(w, p)
  BY MessagesRead
<1>4. Len(l) = n - s + 1 /\ l \in Seq(Kinds)
  <2> HIDE DEF s
  <2>1. n \in (s - 1)..Len(w)
    BY <1>1
  <2> QED  BY <1>1, <2>1, Part
<1>5. CASE l = <<>> /\ ls = <<>>
  <2>1. Len(l) = 0 /\ hb = 0
    BY <1>2, <1>5
  <2>2. p > n
    BY <1>1, <1>4, <2>1
  <2> QED  BY <1>3, <1>5, <2>2 DEF RestAt, NoneAt
<1>6. CASE ~(l = <<>> /\ ls = <<>>)
  <2>1. ~NoneAt(w, p)
    <3>1. CASE ls # <<>>
      <4>1. p <= n /\ w[p] # "n"
        BY <1>1, <1>2, <3>1
      <4> QED  BY <1>1, <4>1 DEF NoneAt
    <3>2. CASE ls = <<>>
      <4>1. hb = 0 /\ s = p
        BY <1>1, <1>2, <3>2
      <4>2. Len(l) # 0
        BY <1>4, <1>6, <3>2
      <4>3. p \in s..n /\ p <= n
        BY <1>1, <1>4, <4>1, <4>2
      <4> QED  BY <1>1, <4>3 DEF NoneAt
    <3> QED  BY <3>1, <3>2
  <2>2. Headers(w)[p].end = n + 1
    <3> HIDE DEF s
    <3>1. Headers(w)[s].end = n + 1
      BY <1>1, HeaderSteps
    <3> QED  BY <1>2, <3>1
  <2>3. BrokenAt(w, p)
    BY <1>1, <2>2 DEF BrokenAt, Within
  <2> QED  BY <1>3, <1>6, <2>1, <2>3 DEF RestAt
<1> QED  BY <1>5, <1>6

\* So far, all is as the bytes say.
AsFarAs(p, c) ==
  /\ messages \o MessagesFrom(wire)[p].messages = Sent.messages
  /\ MessagesFrom(wire)[p].ends = Sent.ends
  /\ reader_at = "handling" => p = c + 1
  /\ reader_at = "line" => body = <<>> /\ InHeader(wire, p, c, lines, line, header_bytes)
  /\ reader_at = "body" => InBody(wire, p, c, lines, body)
  /\ reader_at \in {"closed", "malformed"} =>
       MessagesFrom(wire)[p] = [messages |-> <<>>, ends |-> reader_at]
ReadInv ==
  /\ wire \in Wires /\ messages \in Seq(Message(Kinds))
  /\ \E c \in 0..Len(wire) :
       /\ received \in c..Len(wire) /\ buffer = SubSeq(wire, c + 1, received)
       /\ \E p \in 1..(Len(wire) + 1) : AsFarAs(p, c)

\* What the invariant says of the end.
LEMMA ReadInvIsEnough == ReadInv => ReadAsSent
<1> SUFFICES ASSUME ReadInv PROVE ReadAsSent
  OBVIOUS
<1>1. wire \in Seq(Kinds) /\ messages \in Seq(Message(Kinds))
  BY ReaderAssumption DEF ReadInv, ReaderAssumption
<1>2. PICK c \in 0..Len(wire), p \in 1..(Len(wire) + 1) : AsFarAs(p, c)
  BY DEF ReadInv
<1> DEFINE M == Message(Kinds)
           rest == MessagesFrom(wire)[p].messages
           all == Sent.messages
<1>3. rest \in Seq(M) /\ messages \in Seq(M) /\ messages \o rest = all
  <2>1. MessagesFrom(wire)[p] \in Rest(Kinds)
    BY <1>1, MessagesRead
  <2> QED  BY <1>1, <1>2, <2>1 DEF AsFarAs, Rest
<1>4. IsPrefix(messages, all)
  <2> HIDE DEF M, rest, all
  <2>1. Len(messages) <= Len(all) /\ Len(all) \in Nat
    BY <1>3
  <2>2. SubSeq(messages, 1, Len(messages)) = SubSeq(all, 1, Len(messages))
    <3>1. \A k \in 1..Len(messages) : messages[k] = all[k]
      BY <1>3
    <3> QED  BY <1>3, <2>1, <3>1
  <2> QED  BY <1>3, <2>1, <2>2 DEF IsPrefix
<1>5. ASSUME reader_at \in {"closed", "malformed"} PROVE messages = all /\ reader_at = Sent.ends
  <2>1. rest = <<>> /\ reader_at = Sent.ends
    BY <1>2, <1>5 DEF AsFarAs
  <2> HIDE DEF M, rest, all
  <2>2. messages \o <<>> = messages
    BY <1>3
  <2> QED  BY <1>3, <2>1, <2>2
<1> QED  BY <1>4, <1>5 DEF ReadAsSent

\* A message returned is the one the bytes hold at its place.
LEMMA ReturnsIt ==
  ASSUME NEW w \in Seq(Kinds), NEW p \in 1..(Len(w) + 1), ~NoneAt(w, p), ~BrokenAt(w, p),
         NEW got \in Seq(Message(Kinds)), NEW q, q = MessageEnd(w, p) + 1
  PROVE  /\ q \in 1..(Len(w) + 1) /\ MessageAt(w, p) \in Message(Kinds)
         /\ Append(got, MessageAt(w, p)) \in Seq(Message(Kinds))
         /\ Append(got, MessageAt(w, p)) \o MessagesFrom(w)[q].messages
              = got \o MessagesFrom(w)[p].messages
         /\ MessagesFrom(w)[q].ends = MessagesFrom(w)[p].ends
<1> DEFINE M == Message(Kinds)
           m == MessageAt(w, p)
           v == MessagesFrom(w)[q].messages
<1>1. /\ Headers(w)[p].end \in p..Len(w) /\ m \in M
      /\ MessageEnd(w, p) \in Headers(w)[p].end..Len(w)
  BY EndOfMessage
<1>2. q \in 1..(Len(w) + 1)
  BY <1>1
<1>3. MessagesFrom(w)[p] = RestAt(w, p) /\ MessagesFrom(w)[q] \in Rest(Kinds)
  BY <1>2, MessagesRead
<1>4. /\ MessagesFrom(w)[p].messages = <<m>> \o v
      /\ MessagesFrom(w)[p].ends = MessagesFrom(w)[q].ends
  BY <1>3 DEF RestAt
<1>5. v \in Seq(M)
  BY <1>3 DEF Rest
<1> HIDE DEF M, m, v
<1>6. got \o (<<m>> \o v) = Append(got, m) \o v /\ Append(got, m) \in Seq(M)
  <2>1. got \in Seq(M)
    BY DEF M
  <2> QED  BY <1>1, <1>5, <2>1, AppendedThen
<1>7. Append(got, m) \o v = got \o MessagesFrom(w)[p].messages
  BY <1>4, <1>6
<1> QED  BY <1>1, <1>2, <1>4, <1>6, <1>7 DEF M, m, v

LEMMA InitRead == ReadInit => ReadInv
<1> SUFFICES ASSUME ReadInit PROVE ReadInv
  OBVIOUS
<1>1. wire \in Wires /\ wire \in Seq(Kinds)
  BY ReaderAssumption DEF ReadInit, ReaderAssumption
<1>2. 0 \in 0..Len(wire) /\ 1 \in 1..(Len(wire) + 1) /\ received \in 0..Len(wire)
  BY <1>1 DEF ReadInit
<1>3. buffer = SubSeq(wire, 0 + 1, received)
  <2>1. Len(SubSeq(wire, 1, 0)) = 0 /\ SubSeq(wire, 1, 0) \in Seq(Kinds)
    <3>1. 1 \in 1..(Len(wire) + 1) /\ 0 \in (1 - 1)..Len(wire)
      BY <1>1
    <3> QED  BY <1>1, <3>1, Part
  <2> QED  BY <2>1 DEF ReadInit
<1>4. AsFarAs(1, 0)
  <2>1. Sent \in Rest(Kinds)
    BY <1>1, <1>2, MessagesRead DEF Sent
  <2>2. <<>> \o Sent.messages = Sent.messages
    <3> DEFINE M == Message(Kinds)
               v == Sent.messages
    <3>1. v \in Seq(M)
      BY <2>1 DEF Rest
    <3> HIDE DEF M, v
    <3>2. <<>> \o v = v
      BY <3>1
    <3> QED  BY <3>2 DEF v
  <2>3. messages = <<>> /\ reader_at = "handling"
    BY DEF ReadInit
  <2> QED  BY <2>2, <2>3 DEF AsFarAs, Sent
<1>5. messages \in Seq(Message(Kinds))
  BY DEF ReadInit
<1> QED  BY <1>1, <1>2, <1>3, <1>4, <1>5 DEF ReadInv

\* One step of the reader.
LEMMA ReadStep == ReadInv /\ [ReadNext]_readVars => ReadInv'
<1> SUFFICES ASSUME ReadInv, [ReadNext]_readVars PROVE ReadInv'
  OBVIOUS
<1>1. wire' = wire /\ wire \in Wires /\ wire \in Seq(Kinds) /\ messages \in Seq(Message(Kinds))
  BY ReaderAssumption
     DEF ReadInv, ReaderAssumption, ReadNext, readVars, begin_message, readline, read, TimedOut,
         Closed, Tick, _receive
<1>2. PICK c \in 0..Len(wire), p \in 1..(Len(wire) + 1) :
        received \in c..Len(wire) /\ buffer = SubSeq(wire, c + 1, received) /\ AsFarAs(p, c)
  BY DEF ReadInv
<1> DEFINE n == Len(wire)
<1>3. n \in Nat /\ c \in Nat /\ p \in Nat \ {0} /\ received \in Nat /\ c <= received
      /\ received <= n
  BY <1>1, <1>2
<1>4. buffer \in Seq(Kinds) /\ Len(buffer) = received - c
  <2> DEFINE a == c + 1
  <2>1. a \in 1..(n + 1) /\ received \in (a - 1)..n /\ received - a + 1 = received - c
    BY <1>3
  <2> HIDE DEF a
  <2>2. SubSeq(wire, a, received) \in Seq(Kinds)
        /\ Len(SubSeq(wire, a, received)) = received - a + 1
    BY <1>1, <2>1, Part
  <2> QED  BY <1>2, <2>1, <2>2 DEF a
<1>5. ASSUME UNCHANGED <<received, buffer, messages>>, AsFarAs(p, c)'
      PROVE  ReadInv'
  BY <1>1, <1>2, <1>5 DEF ReadInv
<1>6. Sent' = Sent
  BY <1>1 DEF Sent
<1>7. CASE begin_message
  <2>1. /\ reader_at = "handling" /\ reader_at' = "line"
        /\ UNCHANGED <<received, buffer, messages>>
        /\ line' = <<>> /\ lines' = <<>> /\ header_bytes' = 0 /\ body' = <<>>
    BY <1>7 DEF begin_message
  <2>2. p = c + 1
    BY <1>2, <2>1 DEF AsFarAs
  <2>3. InHeader(wire, p, c, <<>>, <<>>, 0)
    <3>1. <<>> = SubSeq(wire, p + 0, c)
      <4>1. p \in 1..(Len(wire) + 1) /\ c \in (p - 1)..Len(wire) /\ c - p + 1 = 0
        BY <1>3, <2>2
      <4>2. SubSeq(wire, p, c) \in Seq(Kinds) /\ Len(SubSeq(wire, p, c)) = 0
        BY <1>1, <4>1, Part
      <4> QED  BY <1>3, <4>2
    <3>2. <<>> \o Headers(wire)[p].lines = Headers(wire)[p].lines
      <4>1. Headers(wire)[p].lines \in Seq(Seq(Kinds))
        BY <1>1, HeaderRead
      <4> QED  BY <4>1
    <3>3. p + 0 = p /\ c - p + 1 = 0 /\ p..c = {} /\ Len(<<>>) = 0 /\ 1..0 = {}
      BY <1>3, <2>2
    <3>4. 0 <= MaxLine /\ 0 <= MaxHeaderBytes /\ 0 <= MaxHeaders + 1
      BY ReaderAssumption DEF ReaderAssumption
    <3>5. <<>> \in Seq(Seq(Kinds))
      OBVIOUS
    <3> QED  BY <2>2, <3>1, <3>2, <3>3, <3>4, <3>5 DEF InHeader
  <2>4. AsFarAs(p, c)'
    BY <1>1, <1>2, <1>6, <2>1, <2>3 DEF AsFarAs
  <2> QED  BY <1>5, <2>1, <2>4
<1>8. ASSUME NEW count \in 1..Min({MaxChunk, Len(wire) - received}), _receive(count)
      PROVE  ReadInv'
  <2>1. /\ buffer = <<>> /\ received' = received + count
        /\ buffer' = SubSeq(wire, received + 1, received + count)
        /\ UNCHANGED <<messages, reader_at, body, lines, line, header_bytes>>
    BY <1>8 DEF _receive, Waiting
  <2>2. c = received
    <3>1. Len(buffer) = 0
      BY <2>1
    <3> QED  BY <1>3, <1>4, <3>1
  <2>3. received' \in c..n
    <3>1. MaxChunk \in Int /\ n - received \in Int
      BY <1>3, ReaderAssumption DEF ReaderAssumption
    <3> DEFINE k == n - received
               m == Min({MaxChunk, k})
    <3>2. m \in {MaxChunk, k} /\ m <= k
      <4> HIDE DEF k
      <4> QED  BY <3>1, MinOfTwo DEF k
    <3>3. count \in 1..m
      BY <1>8
    <3> HIDE DEF m
    <3>4. count \in Nat /\ count <= n - received
      BY <3>1, <3>2, <3>3
    <3> HIDE DEF k
    <3> QED  BY <1>3, <2>1, <2>2, <3>4
  <2>4. AsFarAs(p, c)'
    BY <1>1, <1>2, <1>6, <2>1 DEF AsFarAs
  <2>5. c \in 0..Len(wire)' /\ p \in 1..(Len(wire)' + 1) /\ received' \in c..Len(wire)'
        /\ buffer' = SubSeq(wire', c + 1, received') /\ messages' = messages
    BY <1>1, <1>2, <2>1, <2>2, <2>3
  <2> QED  BY <1>1, <2>4, <2>5 DEF ReadInv
<1>9. CASE TimedOut
  <2>1. /\ reader_at' = "late"
        /\ UNCHANGED <<received, buffer, messages>>
    BY <1>9 DEF TimedOut
  <2>2. AsFarAs(p, c)'
    BY <1>1, <1>2, <1>6, <2>1 DEF AsFarAs
  <2> QED  BY <1>5, <2>1, <2>2
<1>10. CASE Tick \/ UNCHANGED readVars
  <2>1. UNCHANGED <<received, buffer, messages, reader_at, body, lines, line, header_bytes>>
    BY <1>10 DEF Tick, readVars
  <2>2. AsFarAs(p, c)'
    BY <1>1, <1>2, <1>6, <2>1 DEF AsFarAs
  <2> QED  BY <1>5, <2>1, <2>2
<1>11. CASE Closed
  <2>1. /\ Reading /\ buffer = <<>> /\ received = n
        /\ reader_at' = IF line = <<>> /\ lines = <<>> THEN "closed" ELSE "malformed"
        /\ UNCHANGED <<received, buffer, messages>>
    BY <1>11 DEF Closed, Waiting
  <2>2. c = n
    <3>1. Len(buffer) = 0
      BY <2>1
    <3> QED  BY <1>3, <1>4, <2>1, <3>1
  <2>3. MessagesFrom(wire)[p] = [messages |-> <<>>, ends |-> reader_at']
    <3>1. CASE reader_at = "line"
      <4>1. InHeader(wire, p, Len(wire), lines, line, header_bytes)
        BY <1>2, <2>2, <3>1 DEF AsFarAs
      <4> QED  BY <1>1, <2>1, <4>1, CutShort
    <3>2. CASE reader_at = "body"
      <4>1. InBody(wire, p, c, lines, body)
        BY <1>2, <3>2 DEF AsFarAs
      <4>2. lines # <<>> /\ ~NoneAt(wire, p) /\ MessageEnd(wire, p) > Len(wire)
        BY <2>2, <4>1 DEF InBody
      <4>3. MessagesFrom(wire)[p] = RestAt(wire, p)
        BY <1>1, MessagesRead
      <4> QED  BY <2>1, <4>2, <4>3 DEF RestAt, BrokenAt
    <3> QED  BY <2>1, <3>1, <3>2 DEF Reading
  <2>4. reader_at' \notin {"handling", "line", "body"}
    BY <2>1
  <2>5. AsFarAs(p, c)'
    BY <1>1, <1>2, <1>6, <2>1, <2>3, <2>4 DEF AsFarAs
  <2> QED  BY <1>5, <2>1, <2>5
<1>12. ASSUME NEW d \in c..received, buffer' = SubSeq(wire, d + 1, received),
              received' = received, messages' \in Seq(Message(Kinds)),
              NEW q \in 1..(n + 1), AsFarAs(q, d)'
       PROVE  ReadInv'
  <2>1. d \in 0..Len(wire) /\ received \in d..Len(wire)
    BY <1>3
  <2> QED  BY <1>1, <1>12, <2>1 DEF ReadInv
<1>13. ASSUME readline
       PROVE  \E s \in p..(c + 1), d \in (c + 1)..received :
                /\ s = p + header_bytes /\ reader_at = "line" /\ received' = received
                /\ buffer' = SubSeq(wire, d + 1, received)
                /\ d - s + 1 <= MaxLine + 1 /\ (\A q \in s..(d - 1) : wire[q] # "n")
                /\ IF Last(SubSeq(wire, s, d)) = "n" \/ Len(SubSeq(wire, s, d)) = MaxLine + 1
                   THEN LineRead(SubSeq(wire, s, d))
                   ELSE line' = SubSeq(wire, s, d)
                        /\ UNCHANGED <<reader_at, lines, header_bytes, body, messages>>
  <2> DEFINE s == p + header_bytes
             ends == {i \in 1..Len(buffer) : buffer[i] = "n"}
             end == IF ends = {} THEN Len(buffer) ELSE Min(ends)
             room == MaxLine + 1 - Len(line)
             count == Min({end, room})
             d == c + count
             got == line \o SubSeq(buffer, 1, count)
  <2>1. /\ reader_at = "line" /\ buffer # <<>> /\ received' = received
        /\ buffer' = SubSeq(buffer, count + 1, Len(buffer))
        /\ IF Last(got) = "n" \/ Len(got) = MaxLine + 1 THEN LineRead(got)
           ELSE line' = got /\ UNCHANGED <<reader_at, lines, header_bytes, body, messages>>
    BY <1>13 DEF readline, Take
  <2>2. body = <<>> /\ InHeader(wire, p, c, lines, line, header_bytes)
    BY <1>2, <2>1 DEF AsFarAs
  <2>3. MaxLine \in Nat \ {0} /\ MaxHeaderBytes \in Nat \ {0} /\ MaxHeaders \in Nat
    BY ReaderAssumption DEF ReaderAssumption
  <2>4. /\ header_bytes \in Nat /\ s \in p..(c + 1) /\ s \in 1..(c + 1) /\ line = SubSeq(wire, s, c)
        /\ (\A q \in s..c : wire[q] # "n") /\ c - s + 1 <= MaxLine
    BY <1>3, <2>2 DEF InHeader
  <2>5. Len(line) = c - s + 1 /\ room \in Nat \ {0} /\ Len(line) \in Nat
    <3> HIDE DEF s
    <3>1. s \in 1..(Len(wire) + 1) /\ c \in (s - 1)..Len(wire)
      BY <1>3, <2>4
    <3>2. Len(line) = c - s + 1
      BY <1>1, <2>4, <3>1, Part
    <3> QED  BY <1>3, <2>3, <2>4, <3>2
  <2>6. Len(buffer) # 0
    BY <1>4, <2>1
  <2>7. /\ count \in 1..(received - c) /\ count <= room
        /\ \A k \in 1..(count - 1) : buffer[k] # "n"
    <3> HIDE DEF room
    <3>1. /\ count \in 1..Len(buffer) /\ count <= room
          /\ \A k \in 1..(count - 1) : buffer[k] # "n"
      BY <1>4, <2>5, <2>6, TakenBytes
    <3> QED  BY <1>4, <3>1
  <2> HIDE DEF count, s
  <2>8. /\ d \in (c + 1)..received /\ d \in (c + 1)..n /\ d \in c..received /\ d \in Nat
        /\ d - s + 1 <= MaxLine + 1 /\ s <= d /\ s \in Nat
    BY <1>3, <2>3, <2>4, <2>5, <2>7
  <2>9. /\ buffer' = SubSeq(wire, d + 1, received) /\ got = SubSeq(wire, s, d)
        /\ \A k \in 1..(received - c) : buffer[k] = wire[c + k]
    <3>1. /\ SubSeq(buffer, count + 1, received - c) = SubSeq(wire, c + count + 1, received)
          /\ SubSeq(wire, s, c) \o SubSeq(buffer, 1, count) = SubSeq(wire, s, c + count)
          /\ \A k \in 1..(received - c) : buffer[k] = wire[c + k]
      BY <1>1, <1>2, <2>4, <2>7, BytesMove
    <3> QED  BY <1>4, <2>1, <2>4, <3>1
  <2>10. \A q \in s..(d - 1) : wire[q] # "n"
    <3>1. c \in Nat /\ received \in Nat /\ s \in Nat /\ count \in 1..(received - c)
      BY <1>3, <2>7, <2>8
    <3>2. \A q \in s..c : wire[q] # "n"
      BY <2>4
    <3>3. /\ \A k \in 1..(received - c) : buffer[k] = wire[c + k]
          /\ \A k \in 1..(count - 1) : buffer[k] # "n"
      BY <2>7, <2>9
    <3>4. \A q \in s..(c + count - 1) : wire[q] # "n"
      BY <3>1, <3>2, <3>3, NoEndBefore, Zenon
    <3>5. d - 1 = c + count - 1
      BY <3>1
    <3> HIDE DEF d
    <3> QED  BY <3>4, <3>5, Zenon
  <2> HIDE DEF d
  <2>11. s \in p..(c + 1) /\ s = p + header_bytes
    BY <2>4 DEF s
  <2> HIDE DEF d, got
  <2>12. IF Last(SubSeq(wire, s, d)) = "n" \/ Len(SubSeq(wire, s, d)) = MaxLine + 1
         THEN LineRead(SubSeq(wire, s, d))
         ELSE line' = SubSeq(wire, s, d)
              /\ UNCHANGED <<reader_at, lines, header_bytes, body, messages>>
    BY <2>1, <2>9, Zenon
  <2> QED  BY <2>1, <2>8, <2>9, <2>10, <2>11, <2>12, Zenon
<1>14. CASE readline
  <2>1. PICK s \in p..(c + 1), d \in (c + 1)..received :
          /\ s = p + header_bytes /\ reader_at = "line" /\ received' = received
          /\ buffer' = SubSeq(wire, d + 1, received)
          /\ d - s + 1 <= MaxLine + 1 /\ (\A q \in s..(d - 1) : wire[q] # "n")
          /\ IF Last(SubSeq(wire, s, d)) = "n" \/ Len(SubSeq(wire, s, d)) = MaxLine + 1
             THEN LineRead(SubSeq(wire, s, d))
             ELSE line' = SubSeq(wire, s, d)
                  /\ UNCHANGED <<reader_at, lines, header_bytes, body, messages>>
    BY <1>13, <1>14
  <2> DEFINE bytes == SubSeq(wire, s, d)
  <2>2. body = <<>> /\ InHeader(wire, p, c, lines, line, header_bytes)
    BY <1>2, <2>1 DEF AsFarAs
  <2>3. MaxLine \in Nat \ {0} /\ MaxHeaderBytes \in Nat \ {0} /\ MaxHeaders \in Nat
    BY ReaderAssumption DEF ReaderAssumption
  <2>4. /\ header_bytes \in Nat /\ s \in 1..(c + 1)
        /\ lines \in Seq(Seq(Kinds)) /\ (lines = <<>> <=> header_bytes = 0)
    BY <1>3, <2>2 DEF InHeader
  <2>8. /\ d \in (c + 1)..n /\ d \in c..received /\ d \in Nat
        /\ d - s + 1 <= MaxLine + 1 /\ s <= d /\ s \in Nat
    BY <1>3, <2>1, <2>4
  <2>9. buffer' = SubSeq(wire, d + 1, received)
    BY <2>1
  <2>10. \A q \in s..(d - 1) : wire[q] # "n"
    BY <2>1
  <2>11. /\ bytes \in Seq(Kinds) /\ Len(bytes) = d - s + 1 /\ Last(bytes) = wire[d]
         /\ SubSeq(bytes, 1, Len(bytes) - 1) = SubSeq(wire, s, d - 1)
    <3>1. s \in 1..(Len(wire) + 1) /\ d \in (s - 1)..Len(wire) /\ d - s + 1 \in 1..(d - s + 1)
          /\ s + (d - s + 1) - 1 = d
      BY <1>3, <2>4, <2>8
    <3>2. /\ bytes \in Seq(Kinds) /\ Len(bytes) = d - s + 1
          /\ \A k \in 1..(d - s + 1) : bytes[k] = wire[s + k - 1]
      BY <1>1, <3>1, Part
    <3>3. Last(bytes) = wire[d]
      <4> DEFINE k == d - s + 1
      <4>1. k \in 1..(d - s + 1) /\ s + k - 1 = d /\ Len(bytes) = k
        BY <3>1, <3>2
      <4> HIDE DEF k, bytes
      <4> QED  BY <3>2, <4>1 DEF Last
    <3>4. SubSeq(bytes, 1, Len(bytes) - 1) = SubSeq(wire, s, d - 1)
      <4> DEFINE j == d - s
      <4>1. 1 \in 1..(d - s + 2) /\ j \in (1 - 1)..(d - s + 1) /\ s + 1 - 1 = s /\ s + j - 1 = d - 1
            /\ d - s + 1 - 1 = j
        BY <2>8
      <4> HIDE DEF j
      <4>2. SubSeq(SubSeq(wire, s, d), 1, j) = SubSeq(wire, s + 1 - 1, s + j - 1)
        BY <1>1, <3>1, <4>1, PartOfPart
      <4>3. SubSeq(bytes, 1, j) = SubSeq(wire, s, d - 1)
        BY <4>1, <4>2
      <4>4. Len(bytes) - 1 = j
        BY <3>2, <4>1
      <4> HIDE DEF bytes
      <4> QED  BY <4>3, <4>4
    <3> QED  BY <3>2, <3>3, <3>4
  <2> DEFINE text == SubSeq(wire, s, d - 1)
             total == header_bytes + (d - s + 1)
  <2>12. total = d - p + 1 /\ s = p + header_bytes
    BY <1>3, <2>1, <2>4, <2>8
  <2>13. text \in Seq(Kinds) /\ Len(text) = d - s
    <3> DEFINE b == d - 1
    <3>1. s \in 1..(Len(wire) + 1) /\ b \in (s - 1)..Len(wire) /\ b - s + 1 = d - s
      BY <1>3, <2>4, <2>8
    <3> HIDE DEF b
    <3>2. SubSeq(wire, s, b) \in Seq(Kinds) /\ Len(SubSeq(wire, s, b)) = b - s + 1
      BY <1>1, <3>1, Part
    <3> QED  BY <3>1, <3>2 DEF b
  <2>14. text # <<>> => d > s
    <3>1. Len(text) = 0 => text = <<>>
      BY <2>13
    <3> HIDE DEF text
    <3> QED  BY <2>8, <2>13, <3>1
  <2>15. text = <<>> => d = s /\ d = c + 1
    <3> HIDE DEF text
    <3>1. text = <<>> => Len(text) = 0
      OBVIOUS
    <3> QED  BY <1>3, <2>4, <2>8, <2>13, <3>1
  <2>16. IF wire[d] = "n" \/ d - s + 1 = MaxLine + 1 THEN LineRead(bytes)
         ELSE line' = bytes /\ UNCHANGED <<reader_at, lines, header_bytes, body, messages>>
    <3> HIDE DEF bytes
    <3>1. IF Last(bytes) = "n" \/ Len(bytes) = MaxLine + 1 THEN LineRead(bytes)
          ELSE line' = bytes /\ UNCHANGED <<reader_at, lines, header_bytes, body, messages>>
      BY <2>1 DEF bytes
    <3> QED  BY <2>11, <3>1
  <2> HIDE DEF bytes, text, total
  <2>17. CASE ~(wire[d] = "n" \/ d - s + 1 = MaxLine + 1)
    <3>1. line' = bytes /\ UNCHANGED <<reader_at, lines, header_bytes, body, messages>>
      BY <2>16, <2>17
    <3>2. d - s + 1 <= MaxLine
      BY <2>3, <2>8, <2>17
    <3>3. \A q \in s..d : wire[q] # "n"
      <4>1. \A q \in s..d : q = d \/ q \in s..(d - 1)
        BY <2>8
      <4> QED  BY <2>10, <2>17, <4>1
    <3>4. InHeader(wire, p, d, lines, bytes, header_bytes)
      <4>1. s <= d + 1
        BY <2>8
      <4> QED  BY <2>2, <2>12, <3>2, <3>3, <4>1 DEF InHeader, bytes
    <3>5. AsFarAs(p, d)'
      BY <1>1, <1>2, <1>6, <2>1, <2>2, <3>1, <3>4 DEF AsFarAs
    <3> QED  BY <1>1, <1>12, <2>1, <2>8, <2>9, <3>1, <3>5
  <2>18. CASE wire[d] = "n" \/ d - s + 1 = MaxLine + 1
    <3> DEFINE TooMuch == \/ d - s + 1 > MaxLine \/ total > MaxHeaderBytes
                          \/ text # <<>> /\ Len(lines) > MaxHeaders
    <3>1. LineRead(bytes)
      BY <2>16, <2>18
    <3>2. /\ header_bytes' = total /\ line' = <<>>
          /\ IF TooMuch
             THEN reader_at' = "malformed" /\ UNCHANGED <<lines, body, messages>>
             ELSE IF text # <<>>
             THEN reader_at' = "line" /\ lines' = Append(lines, text) /\ UNCHANGED <<body, messages>>
             ELSE /\ UNCHANGED <<lines, body>>
                  /\ CASE lines = <<>> -> reader_at' = "closed" /\ UNCHANGED messages
                       [] lines # <<>> /\ BadHeader(Tail(lines)) ->
                            reader_at' = "malformed" /\ UNCHANGED messages
                       [] lines # <<>> /\ ~BadHeader(Tail(lines)) ->
                            IF ContentLength(Tail(lines)) = 0 THEN Return(lines, <<>>)
                            ELSE reader_at' = "body" /\ UNCHANGED messages
      <4>1. Len(bytes) = d - s + 1 /\ SubSeq(bytes, 1, Len(bytes) - 1) = text
        BY <2>11 DEF text
      <4> QED  BY <3>1, <4>1 DEF LineRead, total
    <3>3. CASE TooMuch
      <4>1. reader_at' = "malformed" /\ UNCHANGED <<lines, body, messages>>
        BY <3>2, <3>3
      <4>2. \/ d - s + 1 > MaxLine \/ d - p + 1 > MaxHeaderBytes
            \/ d > s /\ Len(lines) > MaxHeaders
        BY <2>12, <2>14, <3>3
      <4>3. MessagesFrom(wire)[p] = [messages |-> <<>>, ends |-> "malformed"]
        BY <1>1, <2>2, <2>8, <2>10, <2>12, <4>2, Overlong
      <4>4. AsFarAs(p, d)'
        BY <1>1, <1>2, <1>6, <4>1, <4>3 DEF AsFarAs
      <4> QED  BY <1>1, <1>12, <2>1, <2>8, <2>9, <4>1, <4>4
    <3>4. CASE ~TooMuch
      <4>1. /\ d - s + 1 <= MaxLine /\ d - p + 1 <= MaxHeaderBytes /\ wire[d] = "n"
            /\ text # <<>> => Len(lines) <= MaxHeaders
        <5>1. Len(lines) \in Nat /\ d - p + 1 \in Int
          BY <1>3, <2>4, <2>8
        <5> QED  BY <2>3, <2>8, <2>12, <2>18, <3>4, <5>1
      <4>2. CASE text # <<>>
        <5>1. reader_at' = "line" /\ lines' = Append(lines, text) /\ UNCHANGED <<body, messages>>
          BY <3>2, <3>4, <4>2
        <5>2. InHeader(wire, p, d, Append(lines, text), <<>>, total)
          BY <1>1, <2>2, <2>8, <2>10, <2>12, <2>14, <4>1, <4>2, LineEnds DEF text, total
        <5>3. AsFarAs(p, d)'
          BY <1>1, <1>2, <1>6, <2>2, <3>2, <5>1, <5>2 DEF AsFarAs
        <5> QED  BY <1>1, <1>12, <2>1, <2>8, <2>9, <5>1, <5>3
      <4>3. CASE text = <<>> /\ lines = <<>>
        <5>1. reader_at' = "closed" /\ UNCHANGED messages
          BY <3>2, <3>4, <4>3
        <5>2. p = d
          BY <1>3, <2>4, <2>12, <2>15, <4>3
        <5>3. NoneAt(wire, p) /\ MessagesFrom(wire)[p] = RestAt(wire, p)
          BY <1>1, <4>1, <5>2, MessagesRead DEF NoneAt
        <5>4. MessagesFrom(wire)[p] = [messages |-> <<>>, ends |-> "closed"]
          BY <5>3 DEF RestAt
        <5>5. AsFarAs(p, d)'
          BY <1>1, <1>2, <1>6, <5>1, <5>4 DEF AsFarAs
        <5> QED  BY <1>1, <1>12, <2>1, <2>8, <2>9, <5>1, <5>5
      <4>4. CASE text = <<>> /\ lines # <<>>
        <5>1. /\ lines' = lines /\ body' = <<>>
              /\ IF BadHeader(Tail(lines)) THEN reader_at' = "malformed" /\ UNCHANGED messages
                 ELSE IF ContentLength(Tail(lines)) = 0 THEN Return(lines, <<>>)
                 ELSE reader_at' = "body" /\ UNCHANGED messages
          BY <2>2, <3>2, <3>4, <4>4
        <5>2. /\ Headers(wire)[p] = [lines |-> lines, end |-> d] /\ ~NoneAt(wire, p)
              /\ Within(wire, p) <=> ~BadHeader(Tail(lines))
          <6>1. d <= Len(wire) /\ d = c + 1 /\ d = p + header_bytes
            BY <2>8, <2>12, <2>15, <4>4
          <6> QED  BY <1>1, <2>2, <4>1, <4>4, <6>1, HeaderWhole
        <5>3. MessagesFrom(wire)[p] = RestAt(wire, p)
          BY <1>1, MessagesRead
        <5>4. MessageEnd(wire, p) = d + ContentLength(Tail(lines))
          BY <5>2 DEF MessageEnd
        <5>5. ContentLength(Tail(lines)) \in Nat
          BY ContentLengthTyped
        <5>6. <<>> = SubSeq(wire, d + 1, d)
          <6> DEFINE t == d + 1
          <6>1. t \in 1..(Len(wire) + 1) /\ d \in (t - 1)..Len(wire) /\ d - t + 1 = 0
            BY <1>3, <2>8
          <6> HIDE DEF t
          <6>2. SubSeq(wire, t, d) \in Seq(Kinds) /\ Len(SubSeq(wire, t, d)) = 0
            BY <1>1, <6>1, Part
          <6> QED  BY <6>2 DEF t
        <5>7. CASE BadHeader(Tail(lines))
          <6>1. reader_at' = "malformed" /\ UNCHANGED messages
            BY <5>1, <5>7
          <6>2. MessagesFrom(wire)[p] = [messages |-> <<>>, ends |-> "malformed"]
            BY <5>2, <5>3, <5>7 DEF RestAt, BrokenAt
          <6>3. AsFarAs(p, d)'
            BY <1>1, <1>2, <1>6, <6>1, <6>2 DEF AsFarAs
          <6> QED  BY <1>1, <1>12, <2>1, <2>8, <2>9, <6>1, <6>3
        <5>8. CASE ~BadHeader(Tail(lines)) /\ ContentLength(Tail(lines)) = 0
          <6> DEFINE m == [lines |-> lines, body |-> <<>>]
          <6>1. reader_at' = "handling" /\ messages' = Append(messages, m)
            BY <5>1, <5>8 DEF Return
          <6>2. MessageEnd(wire, p) = d /\ ~BrokenAt(wire, p)
            BY <1>3, <2>8, <5>2, <5>4, <5>8 DEF BrokenAt
          <6>3. MessageAt(wire, p) = m
            <7>1. Headers(wire)[p].lines = lines /\ Headers(wire)[p].end = d
              BY <5>2
            <7> QED  BY <5>6, <6>2, <7>1 DEF MessageAt
          <6> HIDE DEF m
          <6>4. /\ d + 1 \in 1..(Len(wire) + 1) /\ messages' \in Seq(Message(Kinds))
                /\ messages' \o MessagesFrom(wire)[d + 1].messages = Sent.messages
                /\ MessagesFrom(wire)[d + 1].ends = Sent.ends
            <7>1. ~NoneAt(wire, p) /\ ~BrokenAt(wire, p)
              BY <5>2, <6>2
            <7>2. d + 1 = MessageEnd(wire, p) + 1 /\ messages' = Append(messages, MessageAt(wire, p))
              BY <6>1, <6>2, <6>3
            <7>3. /\ d + 1 \in 1..(Len(wire) + 1)
                  /\ Append(messages, MessageAt(wire, p)) \in Seq(Message(Kinds))
                  /\ Append(messages, MessageAt(wire, p)) \o MessagesFrom(wire)[d + 1].messages
                       = messages \o MessagesFrom(wire)[p].messages
                  /\ MessagesFrom(wire)[d + 1].ends = MessagesFrom(wire)[p].ends
              BY <1>1, <7>1, <7>2, ReturnsIt
            <7>4. messages \o MessagesFrom(wire)[p].messages = Sent.messages
                  /\ MessagesFrom(wire)[p].ends = Sent.ends
              BY <1>2 DEF AsFarAs
            <7> QED  BY <7>2, <7>3, <7>4
          <6>5. AsFarAs(d + 1, d)'
            BY <1>1, <1>6, <6>1, <6>4 DEF AsFarAs
          <6> QED  BY <1>1, <1>12, <2>1, <2>8, <2>9, <6>4, <6>5
        <5>9. CASE ~BadHeader(Tail(lines)) /\ ContentLength(Tail(lines)) # 0
          <6>1. reader_at' = "body" /\ UNCHANGED messages
            BY <5>1, <5>9
          <6>2. InBody(wire, p, d, lines, <<>>)
            <7>1. d < MessageEnd(wire, p) /\ Headers(wire)[p].end = d
                  /\ Headers(wire)[p].lines = lines
              BY <2>8, <5>2, <5>4, <5>5, <5>9
            <7>2. d <= d
              BY <2>8
            <7> QED  BY <4>4, <5>2, <5>6, <5>9, <7>1, <7>2 DEF InBody
          <6>3. AsFarAs(p, d)'
            BY <1>1, <1>2, <1>6, <5>1, <6>1, <6>2 DEF AsFarAs
          <6> QED  BY <1>1, <1>12, <2>1, <2>8, <2>9, <6>1, <6>3
        <5> QED  BY <5>7, <5>8, <5>9
      <4> QED  BY <4>2, <4>3, <4>4
    <3> QED  BY <3>3, <3>4
  <2> QED  BY <2>17, <2>18
<1>15. CASE read
  <2> DEFINE h == Headers(wire)[p].end
             e == MessageEnd(wire, p)
             a == h + 1
             want == ContentLength(Tail(lines)) - Len(body)
             count == Min({Len(buffer), want})
             d == c + count
  <2>1. /\ reader_at = "body" /\ buffer # <<>> /\ received' = received /\ lines' = lines
        /\ buffer' = SubSeq(buffer, count + 1, Len(buffer))
        /\ body' = body \o SubSeq(buffer, 1, count)
        /\ IF Len(body') = ContentLength(Tail(lines)) THEN Return(lines, body')
           ELSE UNCHANGED <<reader_at, messages>>
    BY <1>15 DEF read, Take
  <2>2. /\ lines # <<>> /\ lines = Headers(wire)[p].lines /\ Within(wire, p) /\ ~NoneAt(wire, p)
        /\ h <= c /\ body = SubSeq(wire, a, c) /\ c < e
    BY <1>2, <2>1 DEF AsFarAs, InBody
  <2>3. h \in p..(n + 1) /\ e = h + ContentLength(Tail(lines)) /\ ContentLength(Tail(lines)) \in Nat
    BY <1>1, <2>2, HeaderEnds, ContentLengthTyped DEF MessageEnd
  <2> HIDE DEF h, e
  <2>4. a \in 1..(c + 1) /\ h \in Nat /\ e \in Nat
    BY <1>3, <2>2, <2>3
  <2>5. Len(body) = c - h /\ want = e - c /\ Len(buffer) \in Nat \ {0}
    <3>1. Len(body) = c - h
      <4> HIDE DEF a
      <4>1. a \in 1..(Len(wire) + 1) /\ c \in (a - 1)..Len(wire)
        BY <1>3, <2>2, <2>4 DEF a
      <4>2. Len(SubSeq(wire, a, c)) = c - a + 1
        BY <1>1, <4>1, Part
      <4> QED  BY <1>3, <2>2, <2>4, <4>2 DEF a
    <3>2. Len(buffer) # 0
      BY <1>4, <2>1
    <3> QED  BY <1>3, <1>4, <2>3, <2>4, <3>1, <3>2
  <2>6. count \in 1..(received - c) /\ count <= e - c
    <3>1. want \in Nat \ {0} /\ Len(buffer) \in Int /\ want \in Int
      BY <1>3, <2>2, <2>4, <2>5
    <3> HIDE DEF want
    <3>2. count \in {Len(buffer), want} /\ count <= Len(buffer) /\ count <= want
      BY <3>1, MinOfTwo
    <3> HIDE DEF count
    <3> QED  BY <1>4, <2>5, <3>1, <3>2
  <2> HIDE DEF count, a
  <2>7. d \in (c + 1)..received /\ d <= e /\ d \in Nat /\ d <= n
    BY <1>3, <2>4, <2>6
  <2>8. buffer' = SubSeq(wire, d + 1, received) /\ body' = SubSeq(wire, a, d)
    <3>1. /\ SubSeq(buffer, count + 1, received - c) = SubSeq(wire, c + count + 1, received)
          /\ SubSeq(wire, a, c) \o SubSeq(buffer, 1, count) = SubSeq(wire, a, c + count)
      BY <1>1, <1>2, <2>4, <2>6, BytesMove
    <3> QED  BY <1>4, <2>1, <2>2, <3>1
  <2>9. Len(SubSeq(wire, a, d)) = d - h
    <3> HIDE DEF d
    <3>1. a \in 1..(Len(wire) + 1) /\ d \in (a - 1)..Len(wire)
      BY <1>3, <2>2, <2>4, <2>7 DEF a
    <3>2. Len(SubSeq(wire, a, d)) = d - a + 1
      BY <1>1, <3>1, Part
    <3> QED  BY <2>4, <2>7, <3>2 DEF a
  <2>10. Len(body') = ContentLength(Tail(lines)) <=> d = e
    BY <2>3, <2>4, <2>7, <2>8, <2>9
  <2> HIDE DEF d
  <2>11. PICK t \in (c + 1)..received : t = d
    BY <2>7
  <2>12. CASE t = e
    <3> DEFINE m == [lines |-> lines, body |-> SubSeq(wire, a, e)]
    <3>1. reader_at' = "handling" /\ messages' = Append(messages, m)
      BY <2>1, <2>8, <2>10, <2>11, <2>12 DEF Return
    <3>2. ~BrokenAt(wire, p)
      BY <1>3, <2>2, <2>7, <2>11, <2>12 DEF BrokenAt, e
    <3>3. MessageAt(wire, p) = m
      BY <2>2 DEF MessageAt, h, a, e
    <3> HIDE DEF m
    <3>4. /\ t + 1 \in 1..(Len(wire) + 1) /\ messages' \in Seq(Message(Kinds))
          /\ messages' \o MessagesFrom(wire)[t + 1].messages = Sent.messages
          /\ MessagesFrom(wire)[t + 1].ends = Sent.ends
      <4>1. messages \o MessagesFrom(wire)[p].messages = Sent.messages
            /\ MessagesFrom(wire)[p].ends = Sent.ends
        BY <1>2 DEF AsFarAs
      <4>2. t + 1 = MessageEnd(wire, p) + 1 /\ messages' = Append(messages, MessageAt(wire, p))
        BY <2>12, <3>1, <3>3 DEF e
      <4>3. /\ t + 1 \in 1..(Len(wire) + 1)
            /\ Append(messages, MessageAt(wire, p)) \in Seq(Message(Kinds))
            /\ Append(messages, MessageAt(wire, p)) \o MessagesFrom(wire)[t + 1].messages
                 = messages \o MessagesFrom(wire)[p].messages
            /\ MessagesFrom(wire)[t + 1].ends = MessagesFrom(wire)[p].ends
        <5>1. /\ wire \in Seq(Kinds) /\ messages \in Seq(Message(Kinds))
              /\ ~NoneAt(wire, p) /\ ~BrokenAt(wire, p)
          BY <1>1, <2>2, <3>2
        <5>2. PICK q : q = t + 1
          OBVIOUS
        <5>3. /\ q \in 1..(Len(wire) + 1)
              /\ Append(messages, MessageAt(wire, p)) \o MessagesFrom(wire)[q].messages
                   = messages \o MessagesFrom(wire)[p].messages
              /\ Append(messages, MessageAt(wire, p)) \in Seq(Message(Kinds))
              /\ MessagesFrom(wire)[q].ends = MessagesFrom(wire)[p].ends
          <6>1. q = MessageEnd(wire, p) + 1
            BY <4>2, <5>2
          <6> QED  BY <5>1, <6>1, ReturnsIt
        <5> QED  BY <5>2, <5>3
      <4> QED  BY <4>1, <4>2, <4>3
    <3>5. AsFarAs(t + 1, t)'
      BY <1>1, <1>6, <3>1, <3>4 DEF AsFarAs
    <3>6. t \in c..received /\ buffer' = SubSeq(wire, t + 1, received)
      BY <1>3, <2>8, <2>11
    <3> QED  BY <1>12, <2>1, <3>4, <3>5, <3>6
  <2>13. CASE t # e
    <3>1. UNCHANGED <<reader_at, messages>>
      BY <2>1, <2>10, <2>11, <2>13
    <3>2. InBody(wire, p, t, lines, SubSeq(wire, h + 1, t))
      <4>1. t < e /\ h <= t
        BY <1>3, <2>2, <2>4, <2>7, <2>11, <2>13
      <4> QED  BY <2>2, <4>1 DEF InBody, e, h
    <3>3. body' = SubSeq(wire, h + 1, t)
      BY <2>8, <2>11 DEF a
    <3>4. AsFarAs(p, t)'
      BY <1>1, <1>2, <1>6, <2>1, <3>1, <3>2, <3>3 DEF AsFarAs
    <3>5. t \in c..received /\ buffer' = SubSeq(wire, t + 1, received) /\ p \in 1..(n + 1)
      BY <1>3, <2>8, <2>11
    <3>6. messages' \in Seq(Message(Kinds))
      BY <1>1, <3>1
    <3> QED  BY <1>12, <2>1, <3>4, <3>5, <3>6
  <2> QED  BY <2>12, <2>13
<1> QED
  BY <1>7, <1>8, <1>9, <1>10, <1>11, <1>14, <1>15 DEF ReadNext

\* ReadAsSent (message.py:20-154): whatever the chunks the bytes come in and whenever
\* they come, the messages returned are those the bytes hold, in order, each with its
\* own body, and the reader stops where and how the bytes say.
THEOREM ReadAsSentHolds == ReadSpec => []ReadAsSent
<1>1. ReadInv => ReadAsSent
  BY ReadInvIsEnough
<1> QED  BY <1>1, InitRead, ReadStep, PTL DEF ReadSpec

-----------------------------------------------------------------------------
(* Discovery: the bytes of a peer.                                         *)

\* What lies one after the other, up to each element.
LEMMA Flattened ==
  ASSUME NEW S, NEW seqs \in Seq(Seq(S)), Len(seqs) > 0
  PROVE  \E f \in [1..Len(seqs) -> Seq(S)] :
           /\ FlattenSeq(seqs) = f[Len(seqs)]
           /\ \A i \in 1..Len(seqs) : f[i] = IF i = 1 THEN seqs[i] ELSE f[i - 1] \o seqs[i]
<1> DEFINE n == Len(seqs)
           rank == [i \in 1..n |-> i]
           next == [i \in 2..n |-> i - 1]
           H == [p \in (2..n) \X Seq(S) |-> p[2] \o seqs[p[1]]]
<1>1. n \in Nat /\ n > 0 /\ \A i \in 1..n : seqs[i] \in Seq(S)
  OBVIOUS
<1>2. \A i \in 2..n : \A x \in Seq(S) : H[<<i, x>>] = x \o seqs[i] /\ H[<<i, x>>] \in Seq(S)
  <2>1. ASSUME NEW i \in 2..n, NEW x \in Seq(S)
        PROVE  H[<<i, x>>] = x \o seqs[i] /\ H[<<i, x>>] \in Seq(S)
    <3>1. <<i, x>> \in (2..n) \X Seq(S) /\ <<i, x>>[2] = x /\ <<i, x>>[1] = i
      BY <2>1
    <3>2. H[<<i, x>>] = x \o seqs[i]
      BY <3>1, Zenon
    <3>3. seqs[i] \in Seq(S)
      BY <1>1
    <3>4. x \o seqs[i] \in Seq(S)
      BY <3>3
    <3> QED  BY <3>2, <3>4
  <2> QED  BY <2>1
<1>3. rank \in [1..n -> 0..n] /\ 2..n \subseteq 1..n
      /\ \A i \in 2..n : next[i] \in 1..n /\ next[i] = i - 1 /\ rank[next[i]] < rank[i]
  BY <1>1
<1> HIDE DEF n, rank, next, H
<1>4. /\ \A i \in (1..n) \ (2..n) : seqs[i] \in Seq(S)
      /\ 2..n \in SUBSET (1..n) /\ n \in Nat
      /\ \A i \in 2..n : next[i] \in 1..n /\ rank[next[i]] < rank[i]
      /\ \A i \in 2..n : \A x \in Seq(S) : H[<<i, x>>] \in Seq(S)
  BY <1>1, <1>2, <1>3
<1>5. PICK f \in [1..n -> Seq(S)] :
        f = [i \in 1..n |-> ValueAt(f, 2..n, next, seqs, H, i)]
  <2> DEFINE X == Seq(S)
  <2> HIDE DEF X
  <2>1. /\ \A i \in (1..n) \ (2..n) : seqs[i] \in X
        /\ \A i \in 2..n : \A x \in X : H[<<i, x>>] \in X
    BY <1>4 DEF X
  <2>2. \E f \in [1..n -> X] : f = [i \in 1..n |-> ValueAt(f, 2..n, next, seqs, H, i)]
    <3>1. rank \in [1..n -> 0..n]
      BY <1>3
    <3>2. \A i \in 2..n : next[i] \in 1..n /\ rank[next[i]] < rank[i]
      BY <1>4
    <3> DEFINE D == 1..n
               M == 2..n
    <3>3. n \in Nat /\ M \in SUBSET D /\ rank \in [D -> 0..n]
          /\ \A i \in M : next[i] \in D /\ rank[next[i]] < rank[i]
      BY <3>1, <3>2, <1>4
    <3>4. /\ \A i \in D \ M : seqs[i] \in X
          /\ \A i \in M : \A x \in X : H[<<i, x>>] \in X
      BY <2>1
    <3> HIDE DEF D, M
    <3>6. WellRanked(D, X, n, rank, M, next, seqs, H)
      BY <3>3, <3>4 DEF WellRanked
    <3>5. \E f \in [D -> X] : f = [i \in D |-> ValueAt(f, M, next, seqs, H, i)]
      BY <3>6, RecursionExists
    <3> QED  BY <3>5 DEF D, M
  <2> QED  BY <2>2 DEF X
<1>6. ASSUME NEW i \in 1..n PROVE f[i] = IF i = 1 THEN seqs[i] ELSE f[i - 1] \o seqs[i]
  <2>1. f[i] = ValueAt(f, 2..n, next, seqs, H, i)
    BY <1>5
  <2>2. i \in 2..n <=> i # 1
    BY <1>1
  <2>3. CASE i = 1
    BY <2>1, <2>2, <2>3 DEF ValueAt
  <2>4. CASE i # 1
    <3>1. i \in 2..n /\ next[i] = i - 1 /\ next[i] \in 1..n
      BY <1>3, <2>2, <2>4
    <3>2. f[i - 1] \in Seq(S)
      BY <3>1
    <3>3. H[<<i, f[i - 1]>>] = f[i - 1] \o seqs[i]
      BY <1>2, <3>1, <3>2
    <3> QED  BY <2>1, <2>4, <3>1, <3>3 DEF ValueAt
  <2> QED  BY <2>3, <2>4
<1>7. f = [i \in 1..n |-> IF i = 1 THEN seqs[i] ELSE f[i - 1] \o seqs[i]]
  BY <1>6
<1> DEFINE F == CHOOSE h : h = [i \in 1..n |-> IF i = 1 THEN seqs[i] ELSE h[i - 1] \o seqs[i]]
<1>8. F = [i \in 1..n |-> IF i = 1 THEN seqs[i] ELSE F[i - 1] \o seqs[i]]
  BY <1>7, Zenon
<1>9. FlattenSeq(seqs) = F[n]
  <2>1. Len(seqs) # 0
    BY <1>1 DEF n
  <2> QED  BY <2>1, Zenon DEF FlattenSeq, n
<1> HIDE DEF F
<1>10. \A i \in 1..n : F[i] = IF i = 1 THEN seqs[i] ELSE F[i - 1] \o seqs[i]
  BY <1>8
<1> DEFINE T == {k \in 0..n : k \in 1..n => F[k] \in Seq(S)}
<1>11. 0..n \subseteq T
  <2>1. 0 \in T
    BY <1>1
  <2>2. ASSUME NEW k \in 0..(n - 1), k \in T PROVE k + 1 \in T
    <3>1. k + 1 \in 1..n /\ k + 1 - 1 = k /\ (k + 1 = 1 <=> k = 0) /\ seqs[k + 1] \in Seq(S)
      BY <1>1
    <3>2. F[k + 1] = IF k = 0 THEN seqs[k + 1] ELSE F[k] \o seqs[k + 1]
      <4>1. F[k + 1] = IF k + 1 = 1 THEN seqs[k + 1] ELSE F[k + 1 - 1] \o seqs[k + 1]
        BY <1>10, <3>1
      <4> QED  BY <3>1, <4>1
    <3>3. k # 0 => F[k] \in Seq(S)
      <4>1. k # 0 => k \in 1..n
        BY <1>1
      <4> QED  BY <2>2, <4>1
    <3>4. k + 1 \in 0..n /\ k \in 0..(n - 1)
      BY <1>1
    <3>5. CASE k = 0
      BY <3>1, <3>2, <3>4, <3>5
    <3>6. CASE k # 0
      <4>1. F[k] \in Seq(S) /\ seqs[k + 1] \in Seq(S) /\ F[k + 1] = F[k] \o seqs[k + 1]
        BY <3>1, <3>2, <3>3, <3>6
      <4>2. F[k + 1] \in Seq(S)
        BY <4>1
      <4> QED  BY <4>2, <3>4
    <3> QED  BY <3>5, <3>6
  <2> HIDE DEF T
  <2> QED  BY <1>1, <2>1, <2>2, Forwards
<1>12. F \in [1..n -> Seq(S)]
  <2>1. \A i \in 1..n : F[i] \in Seq(S)
    BY <1>1, <1>11
  <2>2. DOMAIN F = 1..n /\ F = [i \in 1..n |-> F[i]]
    BY <1>8, Zenon
  <2> QED  BY <2>1, <2>2, Zenon
<1> QED  BY <1>9, <1>10, <1>12 DEF n

\* What is read at a place of the bytes: nothing more, the whole Device Information, or
\* what lies behind.
Ends(bytes, i) == i + 2 > Len(bytes)
LenAt(bytes, i) == 256 * bytes[i + 1] + bytes[i + 2]
WholeAt(bytes, i) ==
  bytes[i] = 0 /\ LenAt(bytes, i) >= 6 /\ i + 2 + LenAt(bytes, i) <= Len(bytes)
LEMMA InfoRead ==
  ASSUME NEW bytes \in Seq(Nat), NEW i \in 1..(Len(bytes) + 1)
  PROVE  InfoFrom(bytes)[i] =
           IF Ends(bytes, i) THEN <<>>
           ELSE IF WholeAt(bytes, i) THEN SubSeq(bytes, i + 3, i + 2 + LenAt(bytes, i))
           ELSE IF i + 3 + LenAt(bytes, i) > Len(bytes) THEN <<>>
           ELSE InfoFrom(bytes)[i + 3 + LenAt(bytes, i)]
<1> DEFINE n == Len(bytes)
           D == 1..(n + 1)
           More == {j \in D : ~Ends(bytes, j) /\ ~WholeAt(bytes, j) /\ j + 3 + LenAt(bytes, j) <= n}
           rank == [j \in D |-> n + 1 - j]
           next == [j \in More |-> j + 3 + LenAt(bytes, j)]
           val == [j \in D |-> IF ~Ends(bytes, j) /\ WholeAt(bytes, j)
                               THEN SubSeq(bytes, j + 3, j + 2 + LenAt(bytes, j)) ELSE <<>>]
           X == {val[j] : j \in D}
           H == [p \in More \X X |-> p[2]]
           F == InfoFrom(bytes)
           Step(f, j) ==
             IF j + 2 > Len(bytes) THEN <<>>
             ELSE LET len == 256 * bytes[j + 1] + bytes[j + 2]
                  IN IF bytes[j] = 0 /\ len >= 6 /\ j + 2 + len <= Len(bytes)
                     THEN SubSeq(bytes, j + 3, j + 2 + len)
                     ELSE IF j + 3 + len > Len(bytes) THEN <<>>
                     ELSE f[j + 3 + len]
<1>1. n \in Nat /\ \A j \in D : j \in Nat /\ j > 0 /\ (~Ends(bytes, j) => LenAt(bytes, j) \in Nat)
  <2>1. n \in Nat /\ \A j \in 1..n : bytes[j] \in Nat
    OBVIOUS
  <2> SUFFICES ASSUME NEW j \in D, ~Ends(bytes, j) PROVE LenAt(bytes, j) \in Nat
    BY <2>1
  <2>2. bytes[j + 1] \in Nat /\ bytes[j + 2] \in Nat
    BY <2>1 DEF Ends
  <2> QED  BY <2>2 DEF LenAt
<1>2. WellRanked(D, X, n, rank, More, next, val, H)
  <2>1. n \in Nat /\ More \in SUBSET D /\ \A j \in D \ More : val[j] \in X
    BY <1>1
  <2>2. rank \in [D -> 0..n]
    BY <1>1
  <2>3. ASSUME NEW j \in More PROVE next[j] \in D /\ rank[next[j]] < rank[j]
    <3>1. next[j] = j + 3 + LenAt(bytes, j) /\ next[j] <= n /\ LenAt(bytes, j) \in Nat /\ j \in D
      BY <1>1
    <3> HIDE DEF next, More
    <3>2. next[j] \in D /\ next[j] > j
      BY <3>1, <1>1
    <3> QED  BY <3>1, <3>2, <1>1
  <2>4. ASSUME NEW j \in More, NEW x \in X PROVE H[<<j, x>>] \in X
    <3>1. <<j, x>> \in More \X X /\ <<j, x>>[2] = x
      BY <2>4
    <3> QED  BY <3>1, Zenon
  <2> HIDE DEF D, X, n, rank, More, next, val, H
  <2> QED  BY <2>1, <2>2, <2>3, <2>4 DEF WellRanked
<1>3. \A j \in More : \A x \in X : H[<<j, x>>] = x
  <2> SUFFICES ASSUME NEW j \in More, NEW x \in X PROVE H[<<j, x>>] = x
    OBVIOUS
  <2>1. <<j, x>> \in More \X X /\ <<j, x>>[2] = x
    OBVIOUS
  <2> QED  BY <2>1, Zenon
<1>4. PICK f \in [D -> X] : f = [j \in D |-> ValueAt(f, More, next, val, H, j)]
  <2> HIDE DEF D, X, n, rank, More, next, val, H
  <2> QED  BY <1>2, RecursionExists
<1>5. ASSUME NEW j \in D PROVE f[j] = Step(f, j)
  <2>1. f[j] = ValueAt(f, More, next, val, H, j)
    BY <1>4
  <2>2. CASE j \in More
    <3>1. next[j] = j + 3 + LenAt(bytes, j)
      BY <2>2
    <3>2. next[j] \in D
      BY <1>2, <2>2 DEF WellRanked
    <3>3. f[next[j]] \in X
      BY <3>2
    <3>4. f[j] = f[j + 3 + LenAt(bytes, j)]
      <4> HIDE DEF D, X, n, rank, More, next, val, H
      <4> QED  BY <1>3, <2>1, <2>2, <3>1, <3>3 DEF ValueAt
    <3>5. ~Ends(bytes, j) /\ ~WholeAt(bytes, j) /\ j + 3 + LenAt(bytes, j) <= n
      BY <2>2
    <3>6. LenAt(bytes, j) \in Nat /\ j \in Nat /\ n \in Nat
      BY <1>1, <3>5
    <3> QED  BY <3>4, <3>5, <3>6 DEF Ends, WholeAt, LenAt
  <2>3. CASE j \notin More
    <3>1. f[j] = val[j]
      BY <2>1, <2>3 DEF ValueAt
    <3>2. val[j] = IF ~Ends(bytes, j) /\ WholeAt(bytes, j)
                   THEN SubSeq(bytes, j + 3, j + 2 + LenAt(bytes, j)) ELSE <<>>
      BY <1>5
    <3>3. Ends(bytes, j) \/ WholeAt(bytes, j) \/ j + 3 + LenAt(bytes, j) > n
      BY <1>1, <2>3
    <3> HIDE DEF val, More
    <3> QED  BY <1>1, <3>1, <3>2, <3>3 DEF Ends, WholeAt, LenAt
  <2> QED  BY <2>2, <2>3
<1>6. f = [j \in D |-> Step(f, j)]
  <2> DEFINE g == [j \in D |-> Step(f, j)]
  <2>1. f = [j \in D |-> f[j]]
    BY <1>4
  <2>2. [j \in D |-> f[j]] = [j \in D |-> Step(f, j)]
    <3> HIDE DEF Step, D
    <3> QED  BY <1>5
  <2> QED  BY <2>1, <2>2
<1>7. F = [j \in D |-> Step(F, j)]
  <2> DEFINE G == CHOOSE g : g = [j \in D |-> Step(g, j)]
  <2>1. G = [j \in D |-> Step(G, j)]
    <3>1. \E g : g = [j \in D |-> Step(g, j)]
      <4> HIDE DEF Step, D, G, F
      <4> WITNESS f
      <4> QED  BY <1>6
    <3> QED  BY <3>1, Zenon
  <2>2. F = G
    BY Zenon DEF InfoFrom
  <2> HIDE DEF Step, G, F
  <2> QED  BY <2>1, <2>2
<1>8. F[i] = Step(F, i)
  <2> HIDE DEF Step, F
  <2> QED  BY <1>7
<1> HIDE DEF F
<1>9. InfoFrom(bytes)[i] = Step(InfoFrom(bytes), i)
  BY <1>8 DEF F
<1> QED  BY <1>9 DEF Ends, WholeAt, LenAt

\* The subelements of a device, of any bytes.
Advertised(subs) == subs \in Seq([id : Nat, body : Seq(Nat)])

\* Where a subelement lies in the bytes that go over the air.
LEMMA Laid ==
  ASSUME NEW subs, Advertised(subs), subs # <<>>
  PROVE  LET B == OverTheAir(subs)
             n == Len(subs)
         IN /\ n \in Nat /\ n > 0 /\ B \in Seq(Nat)
            /\ \E P \in [0..n -> Nat] :
                 /\ P[0] = 0 /\ P[n] = Len(B)
                 /\ \A j \in 1..n :
                      /\ P[j] = P[j - 1] + 3 + Len(subs[j].body) /\ P[j] <= Len(B)
                      /\ \A q \in 1..(3 + Len(subs[j].body)) :
                           B[P[j - 1] + q] = Bytes(subs[j])[q]
<1> DEFINE n == Len(subs)
           seqs == [i \in 1..n |-> Bytes(subs[i])]
           B == OverTheAir(subs)
<1>1. n \in Nat /\ n > 0 /\ \A j \in 1..n : subs[j].id \in Nat /\ subs[j].body \in Seq(Nat)
  <2> DEFINE S == [id : Nat, body : Seq(Nat)]
  <2>1. subs \in Seq(S)
    BY DEF Advertised
  <2> HIDE DEF S
  <2>2. n \in Nat /\ n > 0 /\ \A j \in 1..n : subs[j] \in S
    BY <2>1
  <2>3. \A j \in 1..n : subs[j] \in [id : Nat, body : Seq(Nat)]
    BY <2>2 DEF S
  <2> QED  BY <2>2, <2>3
<1>2. ASSUME NEW j \in 1..n
      PROVE  Bytes(subs[j]) \in Seq(Nat) /\ Len(Bytes(subs[j])) = 3 + Len(subs[j].body)
  <2>1. /\ subs[j].body \in Seq(Nat) /\ Len(subs[j].body) \in Nat
        /\ <<subs[j].id, 0, Len(subs[j].body)>> \in Seq(Nat)
    BY <1>1
  <2> QED  BY <2>1 DEF Bytes
<1>3. seqs \in Seq(Seq(Nat)) /\ Len(seqs) = n /\ \A j \in 1..n : seqs[j] = Bytes(subs[j])
  <2>1. seqs \in [1..n -> Seq(Nat)]
    BY <1>2
  <2>2. seqs \in Seq(Seq(Nat))
    BY <1>1, <2>1
  <2>3. Len(seqs) = n
    BY <1>1, <2>2
  <2> QED  BY <2>2, <2>3
<1>4. B = FlattenSeq(seqs)
  BY Zenon DEF OverTheAir
<1> HIDE DEF seqs, n, B
<1>5. PICK f \in [1..n -> Seq(Nat)] :
        /\ B = f[n]
        /\ \A i \in 1..n : f[i] = IF i = 1 THEN seqs[i] ELSE f[i - 1] \o seqs[i]
  <2>1. seqs \in Seq(Seq(Nat)) /\ Len(seqs) > 0
    BY <1>1, <1>3
  <2>2. \E f \in [1..Len(seqs) -> Seq(Nat)] :
          /\ FlattenSeq(seqs) = f[Len(seqs)]
          /\ \A i \in 1..Len(seqs) : f[i] = IF i = 1 THEN seqs[i] ELSE f[i - 1] \o seqs[i]
    BY <2>1, Flattened
  <2>3. Len(seqs) = n /\ B = FlattenSeq(seqs)
    BY <1>3, <1>4
  <2> QED  BY <2>2, <2>3
<1> DEFINE P == [j \in 0..n |-> IF j = 0 THEN 0 ELSE Len(f[j])]
<1>6. /\ P \in [0..n -> Nat] /\ P[0] = 0 /\ P[n] = Len(B) /\ B \in Seq(Nat)
      /\ \A j \in 1..n : P[j] = Len(f[j])
  <2>1. \A j \in 1..n : f[j] \in Seq(Nat) /\ Len(f[j]) \in Nat
    BY <1>5
  <2> QED  BY <1>1, <1>5, <2>1
<1> HIDE DEF P
<1>7. ASSUME NEW j \in 1..n
      PROVE  /\ P[j] = P[j - 1] + 3 + Len(subs[j].body)
             /\ \A q \in 1..(3 + Len(subs[j].body)) : f[j][P[j - 1] + q] = Bytes(subs[j])[q]
             /\ j > 1 => \A q \in 1..P[j - 1] : f[j][q] = f[j - 1][q]
  <2>1. /\ Bytes(subs[j]) \in Seq(Nat) /\ Len(Bytes(subs[j])) = 3 + Len(subs[j].body)
        /\ seqs[j] = Bytes(subs[j]) /\ subs[j].body \in Seq(Nat) /\ Len(subs[j].body) \in Nat
    BY <1>1, <1>2, <1>3
  <2>2. CASE j = 1
    <3>1. f[j] = Bytes(subs[j]) /\ P[j] = Len(f[j]) /\ P[j - 1] = 0
      <4>1. j - 1 = 0
        BY <2>2
      <4>2. P[j - 1] = 0
        BY <4>1, <1>6
      <4> QED  BY <1>5, <1>6, <2>1, <2>2, <4>2
    <3> QED  BY <2>1, <2>2, <3>1
  <2>3. CASE j # 1
    <3> DEFINE s == f[j - 1]
               t == Bytes(subs[j])
    <3>1. j - 1 \in 1..n /\ s \in Seq(Nat) /\ t \in Seq(Nat) /\ f[j] = s \o t
      <4>1. j - 1 \in 1..n
        BY <1>1, <2>3
      <4>2. f[j] = f[j - 1] \o seqs[j]
        BY <1>5, <2>3
      <4>3. f[j - 1] \in Seq(Nat)
        BY <1>5, <4>1
      <4> QED  BY <2>1, <4>1, <4>2, <4>3
    <3>2. P[j - 1] = Len(s) /\ P[j] = Len(f[j])
      BY <1>6, <3>1
    <3>3. Len(t) = 3 + Len(subs[j].body) /\ Len(t) \in Nat /\ Len(s) \in Nat
      BY <2>1, <3>1
    <3> HIDE DEF s, t
    <3>4. /\ Len(s \o t) = Len(s) + Len(t)
          /\ \A q \in 1..Len(s) : (s \o t)[q] = s[q]
          /\ \A q \in 1..Len(t) : (s \o t)[Len(s) + q] = t[q]
      <4>1. /\ Len(s \o t) = Len(s) + Len(t)
            /\ \A q \in 1..(Len(s) + Len(t)) :
                 (s \o t)[q] = IF q <= Len(s) THEN s[q] ELSE t[q - Len(s)]
        BY <3>1, ConcatProperties
      <4>2. ASSUME NEW q \in 1..Len(s) PROVE (s \o t)[q] = s[q]
        <5>1. q \in 1..(Len(s) + Len(t)) /\ q <= Len(s)
          BY <3>3
        <5> QED  BY <4>1, <5>1
      <4>3. ASSUME NEW q \in 1..Len(t) PROVE (s \o t)[Len(s) + q] = t[q]
        <5>1. Len(s) + q \in 1..(Len(s) + Len(t)) /\ ~(Len(s) + q <= Len(s)) /\ Len(s) + q - Len(s) = q
          BY <3>3
        <5> QED  BY <4>1, <5>1
      <4> QED  BY <4>1, <4>2, <4>3
    <3>5. P[j] = P[j - 1] + 3 + Len(subs[j].body)
      <4>1. P[j] = P[j - 1] + Len(t)
        BY <3>1, <3>2, <3>4
      <4>2. P[j - 1] \in Nat
        BY <3>2, <3>3
      <4>3. \A a, c \in Nat : a + (3 + c) = a + 3 + c
        OBVIOUS
      <4>4. P[j] = P[j - 1] + (3 + Len(subs[j].body))
        BY <3>3, <4>1
      <4> QED  BY <2>1, <4>2, <4>3, <4>4
    <3>6. \A q \in 1..(3 + Len(subs[j].body)) : f[j][P[j - 1] + q] = t[q]
      BY <3>1, <3>2, <3>3, <3>4
    <3>7. \A q \in 1..P[j - 1] : f[j][q] = s[q]
      BY <3>1, <3>2, <3>4
    <3> QED  BY <3>5, <3>6, <3>7 DEF s, t
  <2> QED  BY <2>2, <2>3
<1> DEFINE T == {k \in 0..n : k > 0 => P[k] <= Len(B) /\ \A q \in 1..P[k] : B[q] = f[k][q]}
<1>8. 0..n \subseteq T
  <2>1. n \in T
    BY <1>1, <1>5, <1>6
  <2>2. ASSUME NEW k \in 0..(n - 1), k + 1 \in T PROVE k \in T
    <3>1. k \in 0..n /\ k + 1 \in 1..n /\ k + 1 > 0 /\ k + 1 - 1 = k /\ (k > 0 => k \in 1..n /\ k + 1 > 1)
      BY <1>1
    <3>2. P[k + 1] <= Len(B) /\ \A q \in 1..P[k + 1] : B[q] = f[k + 1][q]
      BY <2>2, <3>1
    <3>3. P[k + 1] = P[k] + 3 + Len(subs[k + 1].body) /\ (k > 0 => \A q \in 1..P[k] : f[k + 1][q] = f[k][q])
      BY <1>7, <3>1
    <3>4. Len(subs[k + 1].body) \in Nat /\ P[k] \in Nat /\ P[k + 1] \in Nat /\ Len(B) \in Nat
      BY <1>1, <1>6, <3>1
    <3>5. P[k] <= P[k + 1] /\ P[k] <= Len(B)
      BY <3>2, <3>3, <3>4
    <3>6. \A q \in 1..P[k] : q \in 1..P[k + 1]
      BY <3>4, <3>5
    <3> QED  BY <3>1, <3>2, <3>3, <3>5, <3>6
  <2> HIDE DEF T
  <2> QED  BY <1>1, <2>1, <2>2, Backwards
<1>9. ASSUME NEW j \in 1..n
      PROVE  /\ P[j] = P[j - 1] + 3 + Len(subs[j].body) /\ P[j] <= Len(B)
             /\ \A q \in 1..(3 + Len(subs[j].body)) : B[P[j - 1] + q] = Bytes(subs[j])[q]
  <2>1. j \in T /\ j > 0 /\ j - 1 \in 0..n /\ j \in 0..n
    BY <1>1, <1>8
  <2>2. P[j] <= Len(B) /\ \A q \in 1..P[j] : B[q] = f[j][q]
    BY <2>1
  <2>3. P[j] \in Nat /\ P[j - 1] \in Nat /\ Len(subs[j].body) \in Nat
    BY <1>1, <1>6, <2>1
  <2>4. P[j] = P[j - 1] + 3 + Len(subs[j].body)
    BY <1>7
  <2>5. ASSUME NEW q \in 1..(3 + Len(subs[j].body)) PROVE B[P[j - 1] + q] = Bytes(subs[j])[q]
    <3>1. P[j - 1] + q \in 1..P[j]
      BY <2>3, <2>4
    <3>2. f[j][P[j - 1] + q] = Bytes(subs[j])[q]
      BY <1>7
    <3> QED  BY <2>2, <3>1, <3>2
  <2> QED  BY <2>2, <2>4, <2>5
<1> QED  BY <1>1, <1>6, <1>9 DEF n, B

\* Of the subelements, the body of the first Device Information that is whole.
WholeIn(subs) == {i \in 1..Len(subs) : subs[i].id = 0 /\ Len(subs[i].body) >= 6}
LEMMA SubSeqOfBytes ==
  ASSUME NEW s \in Seq(Nat), NEW m \in Nat, NEW n \in Nat, m + 3 >= 1, m + 2 + n <= Len(s)
  PROVE  /\ SubSeq(s, m + 3, m + 2 + n) \in Seq(Nat) /\ Len(SubSeq(s, m + 3, m + 2 + n)) = n
         /\ \A q \in 1..n : SubSeq(s, m + 3, m + 2 + n)[q] = s[m + 2 + q]
<1> DEFINE a == m + 3
           b == m + 2 + n
           t == SubSeq(s, a, b)
<1>1. a \in Int /\ b \in Int /\ Len(s) \in Nat /\ b - a + 1 = n /\ (a <= b => n > 0) /\ (~(a <= b) => n = 0)
  OBVIOUS
<1>2. \A i \in a..b : s[i] \in Nat
  <2> SUFFICES ASSUME NEW i \in a..b PROVE s[i] \in Nat
    OBVIOUS
  <2>1. i \in 1..Len(s)
    OBVIOUS
  <2> QED  BY <2>1
<1>3. \A q \in 1..n : a + q - 1 = m + 2 + q
  OBVIOUS
<1> HIDE DEF a, b
<1>4. /\ t \in Seq(Nat) /\ Len(t) = IF a <= b THEN b - a + 1 ELSE 0
      /\ \A q \in 1..(b - a + 1) : t[q] = s[a + q - 1]
  BY <1>1, <1>2, SubSeqProperties
<1> HIDE DEF t
<1>5. /\ t \in Seq(Nat) /\ Len(t) = n /\ \A q \in 1..n : t[q] = s[m + 2 + q]
  BY <1>1, <1>3, <1>4
<1> QED  BY <1>5 DEF t, a, b

LEMMA InfoFound ==
  ASSUME NEW subs, Advertised(subs)
  PROVE  _wfd_device_info_body(OverTheAir(subs)) =
           IF WholeIn(subs) = {} THEN <<>> ELSE subs[First(WholeIn(subs))].body
<1>1. CASE subs = <<>>
  <2>1. OverTheAir(subs) = <<>> /\ WholeIn(subs) = {}
    BY <1>1 DEF OverTheAir, WholeIn, FlattenSeq
  <2> QED  BY <2>1 DEF _wfd_device_info_body
<1>2. CASE subs # <<>>
  <2> DEFINE n == Len(subs)
             B == OverTheAir(subs)
             W == WholeIn(subs)
             After(k) == {w \in W : w > k}
             Found(k) == IF After(k) = {} THEN <<>> ELSE subs[First(After(k))].body
             content(j) == subs[j].body
  <2>1. n \in Nat /\ n > 0 /\ B \in Seq(Nat) /\ Len(B) \in Nat
    BY <1>2, Laid
  <2>2. PICK P \in [0..n -> Nat] :
          /\ P[0] = 0 /\ P[n] = Len(B)
          /\ \A j \in 1..n : /\ P[j] = P[j - 1] + 3 + Len(content(j)) /\ P[j] <= Len(B)
                             /\ \A q \in 1..(3 + Len(content(j))) : B[P[j - 1] + q] = Bytes(subs[j])[q]
    BY <1>2, Laid
  <2>3. \A j \in 1..n : subs[j].id \in Nat /\ content(j) \in Seq(Nat) /\ Len(content(j)) \in Nat
    <3> DEFINE S == [id : Nat, body : Seq(Nat)]
    <3>1. subs \in Seq(S)
      BY DEF Advertised
    <3> HIDE DEF S
    <3>2. \A j \in 1..n : subs[j] \in S
      BY <3>1
    <3>3. \A j \in 1..n : subs[j] \in [id : Nat, body : Seq(Nat)]
      BY <3>2 DEF S
    <3> QED  BY <3>3
  <2>4. W = {j \in 1..n : subs[j].id = 0 /\ Len(content(j)) >= 6}
    BY DEF WholeIn
  <2> HIDE DEF n, B, W, content
  <2>5. InfoFrom(B)[Len(B) + 1] = <<>>
    <3>1. Len(B) + 1 \in 1..(Len(B) + 1) /\ Ends(B, Len(B) + 1)
      BY <2>1 DEF Ends
    <3> QED  BY <2>1, <3>1, InfoRead
  <2>6. ASSUME NEW j \in 1..n
        PROVE  InfoFrom(B)[P[j - 1] + 1] = IF j \in W THEN content(j) ELSE InfoFrom(B)[P[j] + 1]
    <3> DEFINE p == P[j - 1]
               e == P[j]
               i == p + 1
               len == Len(content(j))
    <3>1. /\ p \in Nat /\ e \in Nat /\ len \in Nat /\ i \in Nat
          /\ e = p + 3 + len /\ e <= Len(B)
      BY <2>1, <2>2, <2>3, SMTT(30)
    <3>2. \A q \in 1..(3 + len) : B[p + q] = Bytes(subs[j])[q]
      BY <2>2
    <3>3. /\ Bytes(subs[j]) = <<subs[j].id, 0, len>> \o content(j)
          /\ content(j) \in Seq(Nat) /\ <<subs[j].id, 0, len>> \in Seq(Nat)
      BY <2>3 DEF Bytes, content
    <3> HIDE DEF len, p, e
    <3>4. /\ Bytes(subs[j])[1] = subs[j].id /\ Bytes(subs[j])[2] = 0 /\ Bytes(subs[j])[3] = len
          /\ \A q \in 1..len : Bytes(subs[j])[3 + q] = content(j)[q]
      BY <3>3, <3>1 DEF len
    <3>5. B[i] = subs[j].id /\ B[i + 1] = 0 /\ B[i + 2] = len
      <4>1. 1 \in 1..(3 + len) /\ 2 \in 1..(3 + len) /\ 3 \in 1..(3 + len)
        BY <3>1
      <4>2. /\ B[p + 1] = subs[j].id /\ B[p + 2] = 0 /\ B[p + 3] = len
        BY <3>2, <3>4, <4>1
      <4>3. i = p + 1 /\ i + 1 = p + 2 /\ i + 2 = p + 3
        BY <3>1
      <4> QED  BY <4>2, <4>3
    <3>6. LenAt(B, i) = len
      BY <3>1, <3>5 DEF LenAt
    <3>7. i \in 1..(Len(B) + 1) /\ i + 2 + len = e /\ i + 3 + len = e + 1
      BY <2>1, <3>1
    <3> HIDE DEF i
    <3>8. ~Ends(B, i) /\ (WholeAt(B, i) <=> j \in W)
      <4>1. ~Ends(B, i)
        BY <2>1, <3>1, <3>7 DEF Ends
      <4>2. i + 2 + len <= Len(B)
        BY <3>1, <3>7
      <4>3. WholeAt(B, i) <=> subs[j].id = 0 /\ len >= 6
        BY <3>5, <3>6, <4>2 DEF WholeAt
      <4>4. j \in W <=> subs[j].id = 0 /\ len >= 6
        BY <2>4 DEF len
      <4> QED  BY <4>1, <4>3, <4>4
    <3>9. InfoFrom(B)[i] =
            IF Ends(B, i) THEN <<>>
            ELSE IF WholeAt(B, i) THEN SubSeq(B, i + 3, i + 2 + LenAt(B, i))
            ELSE IF i + 3 + LenAt(B, i) > Len(B) THEN <<>>
            ELSE InfoFrom(B)[i + 3 + LenAt(B, i)]
      BY <2>1, <3>7, InfoRead
    <3>10. CASE j \in W
      <4> DEFINE s == SubSeq(B, i + 3, i + 2 + len)
      <4>1. InfoFrom(B)[i] = s
        BY <3>6, <3>8, <3>9, <3>10
      <4>2. i + 3 \in 1..(Len(B) + 1) /\ i + 2 + len \in (i + 2)..Len(B) /\ i \in Nat
        BY <2>1, <3>1, <3>7
      <4>3. s \in Seq(Nat) /\ Len(s) = len /\ \A q \in 1..len : s[q] = B[i + 2 + q]
        <5>1. i + 3 >= 1 /\ i + 2 + len <= Len(B)
          BY <4>2
        <5> QED  BY <2>1, <3>1, <4>2, <5>1, SubSeqOfBytes
      <4>4. ASSUME NEW q \in 1..len PROVE s[q] = content(j)[q]
        <5>1. 3 + q \in 1..(3 + len) /\ i + 2 + q = p + (3 + q)
          BY <3>1, <4>4 DEF i
        <5>2. B[i + 2 + q] = Bytes(subs[j])[3 + q]
          BY <3>2, <5>1
        <5> QED  BY <3>4, <4>3, <5>2
      <4>5. s = content(j)
        <5>1. Len(content(j)) = len
          BY DEF len
        <5> HIDE DEF s
        <5> QED  BY <3>3, <4>3, <4>4, <5>1, SeqEqual
      <4> QED  BY <3>10, <4>1, <4>5 DEF i, p, e
    <3>11. CASE j \notin W
      <4>1. InfoFrom(B)[i] = IF e + 1 > Len(B) THEN <<>> ELSE InfoFrom(B)[e + 1]
        BY <3>6, <3>7, <3>8, <3>9, <3>11
      <4>2. e + 1 > Len(B) => e + 1 = Len(B) + 1
        <5>1. \A a, c \in Nat : a <= c /\ a + 1 > c => a + 1 = c + 1
          OBVIOUS
        <5> QED  BY <2>1, <3>1, <5>1
      <4> QED  BY <2>5, <3>11, <4>1, <4>2 DEF i, p, e
    <3> QED  BY <3>10, <3>11
  <2> DEFINE T == {k \in 0..n : InfoFrom(B)[P[k] + 1] = Found(k)}
  <2>7. n \in T
    <3>1. After(n) = {}
      BY <2>1, <2>4
    <3>2. n \in 0..n /\ InfoFrom(B)[P[n] + 1] = <<>>
      BY <2>1, <2>2, <2>5
    <3> HIDE DEF After
    <3> QED  BY <3>1, <3>2
  <2>8. ASSUME NEW k \in 0..(n - 1), k + 1 \in T PROVE k \in T
    <3>1. k \in 0..n /\ k + 1 \in 1..n /\ k + 1 - 1 = k /\ InfoFrom(B)[P[k + 1] + 1] = Found(k + 1)
      BY <2>1, <2>8
    <3>2. InfoFrom(B)[P[k] + 1] = IF k + 1 \in W THEN content(k + 1) ELSE Found(k + 1)
      <4>1. InfoFrom(B)[P[k + 1 - 1] + 1] =
              IF k + 1 \in W THEN content(k + 1) ELSE InfoFrom(B)[P[k + 1] + 1]
        BY <2>6, <3>1
      <4> QED  BY <3>1, <4>1
    <3>3. CASE k + 1 \in W
      <4>1. k + 1 \in After(k) /\ \A w \in After(k) : k + 1 <= w
        BY <2>4, <3>3, <2>1
      <4>2. First(After(k)) = k + 1
        <5>1. \A w \in After(k) : w \in Nat
          BY <2>4
        <5>2. \E w \in After(k) : \A v \in After(k) : w <= v
          BY <4>1
        <5>3. First(After(k)) \in After(k) /\ \A v \in After(k) : First(After(k)) <= v
          BY <5>2, Zenon DEF First
        <5> HIDE DEF After
        <5> QED  BY <4>1, <5>1, <5>3
      <4> QED  BY <3>1, <3>2, <3>3, <4>1, <4>2 DEF content
    <3>4. CASE k + 1 \notin W
      <4>1. After(k) = After(k + 1)
        BY <2>1, <2>4, <3>4
      <4>2. Found(k) = Found(k + 1)
        <5> HIDE DEF After
        <5> QED  BY <4>1
      <4> QED  BY <3>1, <3>2, <3>4, <4>2
    <3> QED  BY <3>3, <3>4
  <2>9. 0 \in T
    <3> HIDE DEF T
    <3>1. 0..n \subseteq T
      BY <2>1, <2>7, <2>8, Backwards
    <3> QED  BY <2>1, <3>1
  <2>10. After(0) = W
    BY <2>4
  <2>11. InfoFrom(B)[1] = IF W = {} THEN <<>> ELSE subs[First(W)].body
    <3>1. InfoFrom(B)[P[0] + 1] = Found(0) /\ P[0] + 1 = 1
      BY <2>2, <2>9
    <3> HIDE DEF After
    <3> QED  BY <2>10, <3>1
  <2>12. Len(B) < 6 => W = {}
    <3> SUFFICES ASSUME Len(B) < 6, NEW w \in W PROVE FALSE
      OBVIOUS
    <3>1. w \in 1..n /\ Len(content(w)) >= 6 /\ Len(content(w)) \in Nat
      BY <2>3, <2>4
    <3>2. P[w] = P[w - 1] + 3 + Len(content(w)) /\ P[w] <= Len(B) /\ P[w - 1] \in Nat /\ P[w] \in Nat
      BY <2>1, <2>2, <3>1
    <3> QED  BY <2>1, <3>1, <3>2
  <2> QED  BY <2>11, <2>12 DEF _wfd_device_info_body, B, W
<1> QED  BY <1>1, <1>2

-----------------------------------------------------------------------------
(* Discovery: whom a selector means.                                       *)

IsSeq(s) == s \in Seq(ToSet(s))

\* A sequence with one more element.
LEMMA Appended ==
  ASSUME NEW s, IsSeq(s), NEW e
  PROVE  /\ IsSeq(Append(s, e))
         /\ Len(s) \in Nat /\ Len(Append(s, e)) = Len(s) + 1
         /\ \A i \in 1..Len(s) : Append(s, e)[i] = s[i]
         /\ Append(s, e)[Len(s) + 1] = e
<1> DEFINE S == ToSet(s) \cup {e}
           t == Append(s, e)
<1>1. s \in Seq(S)
  BY DEF IsSeq
<1> HIDE DEF S
<1>2. e \in S
  BY DEF S
<1>3. /\ t \in Seq(S) /\ Len(t) = Len(s) + 1 /\ Len(s) \in Nat
      /\ \A i \in 1..Len(s) : t[i] = s[i]
      /\ t[Len(s) + 1] = e
  BY <1>1, <1>2
<1> HIDE DEF t
<1>4. t \in Seq(ToSet(t))
  <2>1. DOMAIN t = 1..Len(t) /\ t = [i \in 1..Len(t) |-> t[i]]
    BY <1>3
  <2>2. \A i \in 1..Len(t) : t[i] \in ToSet(t)
    BY <2>1 DEF ToSet
  <2> QED  BY <1>3, <2>1, <2>2
<1> QED  BY <1>3, <1>4 DEF t, IsSeq

\* What is known of a peer that was read, and of an answer of wpa_supplicant.
OfItsDevice(p) ==
  /\ p.device \in Devices
  /\ p.owner \in {Unknown, p.device.owner} /\ p.push \in {Unknown, p.device.push}
AnswerOf(c, d) ==
  c.key = d.key /\ c.owner \in {Unknown, d.owner} /\ c.push \in {Unknown, d.push}
DiscInv ==
  /\ IsSeq(peers) /\ nearby \subseteq Devices /\ listed \subseteq Devices
  /\ \A i \in 1..Len(peers) : OfItsDevice(peers[i])
  /\ \A c \in capabilities : \E d \in Devices : AnswerOf(c, d)

\* What is said of a device by wpa_supplicant is said of itself, and of one whose
\* address could not be read nothing is.
LEMMA AskedOfItself ==
  ASSUME DiscInv, NEW d \in Devices, NEW address \in {d.mac, PathTail}
  PROVE  /\ CapabilityOf(address).owner \in {Unknown, d.owner}
         /\ CapabilityOf(address).push \in {Unknown, d.push}
<1>1. CASE \E c \in capabilities : c.key = address
  <2> DEFINE c == CapabilityOf(address)
  <2>1. c \in capabilities /\ c.key = address
    BY <1>1, Zenon DEF CapabilityOf
  <2> HIDE DEF c
  <2>2. PICK e \in Devices : AnswerOf(c, e)
    BY <2>1 DEF DiscInv
  <2>3. e.key = address /\ e.key # PathTail
    BY <2>1, <2>2, DiscoveryAssumption DEF DiscoveryAssumption, AnswerOf
  <2>4. e = d
    BY <2>3, DiscoveryAssumption DEF DiscoveryAssumption
  <2> QED  BY <2>2, <2>4 DEF AnswerOf, c
<1>2. CASE ~\E c \in capabilities : c.key = address
  BY <1>2 DEF CapabilityOf
<1> QED  BY <1>1, <1>2

\* A peer more, read as its device.
LEMMA PeerAppended ==
  ASSUME DiscInv, NEW p, OfItsDevice(p), peers' = Append(peers, p),
         nearby' = nearby, capabilities' = capabilities, listed' \subseteq listed
  PROVE  DiscInv'
<1>1. IsSeq(peers)
  BY DEF DiscInv
<1>2. /\ IsSeq(peers') /\ Len(peers) \in Nat /\ Len(peers') = Len(peers) + 1
      /\ \A i \in 1..Len(peers) : peers'[i] = peers[i]
      /\ peers'[Len(peers) + 1] = p
  BY <1>1, Appended
<1>3. ASSUME NEW i \in 1..Len(peers') PROVE OfItsDevice(peers'[i])
  <2>1. i \in 1..Len(peers) \/ i = Len(peers) + 1
    BY <1>2
  <2> QED  BY <1>2, <2>1 DEF DiscInv
<1>4. (\A i \in 1..Len(peers) : OfItsDevice(peers[i]))'
  BY <1>3 DEF OfItsDevice
<1> QED  BY <1>2, <1>4 DEF DiscInv, AnswerOf

LEMMA DiscStep ==
  ASSUME DiscInv, [DiscNext]_discVars
  PROVE  DiscInv'
<1>1. ASSUME NEW d \in Devices, NEW readable \in Reads, ReadPeer(d, readable) PROVE DiscInv'
  <2> DEFINE address == IF "address" \in readable THEN d.mac ELSE PathTail
  <2>1. PICK p : /\ peers' = Append(peers, p) /\ p.device = d
                 /\ p.owner = CapabilityOf(address).owner /\ p.push = CapabilityOf(address).push
    BY <1>1 DEF ReadPeer
  <2>2. OfItsDevice(p)
    <3>1. address \in {d.mac, PathTail}
      OBVIOUS
    <3> HIDE DEF address
    <3> QED  BY <2>1, <3>1, AskedOfItself DEF OfItsDevice
  <2> HIDE DEF address
  <2> QED  BY <1>1, <2>1, <2>2, PeerAppended DEF ReadPeer
<1>2. ASSUME NEW d \in Devices, NEW details \in BOOLEAN, NEW field \in Fields(d),
             ReadDetails(d, details, field)
      PROVE  DiscInv'
  <2>1. PICK p : /\ peers' = Append(peers, p) /\ p.device = d
                 /\ p.owner \in {Unknown, d.owner} /\ p.push \in {Unknown, d.push}
    BY <1>2 DEF ReadDetails, _parse_peer_blockers
  <2>2. OfItsDevice(p)
    BY <2>1 DEF OfItsDevice
  <2> QED  BY <1>2, <2>1, <2>2, PeerAppended DEF ReadDetails
<1>3. CASE Select
  BY <1>3 DEF Select, _select_peer, DiscInv, OfItsDevice, AnswerOf
<1>4. CASE _wpas_peer_capabilities
  <2>1. UNCHANGED <<nearby, listed, peers>>
    BY <1>4 DEF _wpas_peer_capabilities
  <2>2. ASSUME NEW c \in capabilities' PROVE \E d \in Devices : AnswerOf(c, d)
    <3>1. PICK answering \in SUBSET nearby, owners \in BOOLEAN, methods \in BOOLEAN :
            capabilities' = {[key |-> d.key, owner |-> IF owners THEN d.owner ELSE Unknown,
                              push |-> IF methods THEN d.push ELSE Unknown] : d \in answering}
      BY <1>4 DEF _wpas_peer_capabilities
    <3>2. PICK d \in answering : c = [key |-> d.key, owner |-> IF owners THEN d.owner ELSE Unknown,
                                  push |-> IF methods THEN d.push ELSE Unknown]
      BY <3>1
    <3> QED  BY <3>2 DEF AnswerOf, DiscInv
  <2> QED  BY <2>1, <2>2 DEF DiscInv, OfItsDevice, AnswerOf
<1>5. ASSUME IsSeq(<<>>), nearby' \subseteq Devices, listed' \subseteq Devices,
             peers' = peers \/ peers' = <<>>, capabilities' = capabilities \/ capabilities' = {}
      PROVE  DiscInv'
  BY <1>5 DEF DiscInv, OfItsDevice, AnswerOf
<1>6. IsSeq(<<>>)
  BY DEF IsSeq
<1>7. CASE _nm_scan \/ active_scan \/ ScanEnds \/ \E d \in Devices : Moves(d)
  BY <1>5, <1>6, <1>7 DEF _nm_scan, active_scan, ScanEnds, Moves, DiscInv
<1>8. CASE UNCHANGED discVars
  BY <1>8 DEF discVars, DiscInv, OfItsDevice, AnswerOf
<1> QED  BY <1>1, <1>2, <1>3, <1>4, <1>7, <1>8 DEF DiscNext

-----------------------------------------------------------------------------
(* Discovery: what is said of a peer.                                      *)

\* What a device that advertises well says of itself, as InfoFound has it.
LEMMA SaysOfItself ==
  ASSUME NEW d, WellAdvertised(d)
  PROVE  LET info == _wfd_device_info_body(OverTheAir(d.subs))
         IN /\ info = IF WholeInfos(d) = {} THEN <<>> ELSE InfoOf(d)
            /\ info = <<>> <=> WholeInfos(d) = {}
            /\ WholeInfos(d) # {} => /\ InfoOf(d) \in Seq(Nat) /\ Len(InfoOf(d)) >= 6
                                     /\ First(WholeInfos(d)) \in WholeInfos(d)
            /\ OverTheAir(d.subs) = <<>> <=> d.subs = <<>>
            /\ d.subs = <<>> => WholeInfos(d) = {}
<1> DEFINE info == _wfd_device_info_body(OverTheAir(d.subs))
           n == Len(d.subs)
<1>1. Advertised(d.subs) /\ WholeInfos(d) = WholeIn(d.subs)
  BY DEF WellAdvertised, Advertised, WholeInfos, WholeIn
<1>2. info = IF WholeInfos(d) = {} THEN <<>> ELSE InfoOf(d)
  BY <1>1, InfoFound DEF InfoOf
<1>3. n \in Nat /\ \A i \in 1..n : d.subs[i].body \in Seq(Nat)
  <2> DEFINE S == [id : Nat, body : Seq(Nat)]
  <2>1. d.subs \in Seq(S)
    BY <1>1 DEF Advertised
  <2> HIDE DEF S
  <2>2. n \in Nat /\ \A i \in 1..n : d.subs[i] \in S
    BY <2>1
  <2>3. \A i \in 1..n : d.subs[i] \in [id : Nat, body : Seq(Nat)]
    BY <2>2 DEF S
  <2> QED  BY <2>2, <2>3
<1>4. WholeInfos(d) = {i \in 1..n : d.subs[i].id = 0 /\ Len(d.subs[i].body) >= 6}
  BY DEF WholeInfos
<1> HIDE DEF info, n
<1>5. ASSUME WholeInfos(d) # {}
      PROVE  /\ First(WholeInfos(d)) \in WholeInfos(d)
             /\ InfoOf(d) \in Seq(Nat) /\ Len(InfoOf(d)) >= 6
  <2>1. WholeInfos(d) \subseteq Nat
    BY <1>3, <1>4
  <2>2. \E i \in WholeInfos(d) : \A j \in WholeInfos(d) : i <= j
    BY <1>5, <2>1, LeastExists
  <2>3. First(WholeInfos(d)) \in WholeInfos(d)
    BY <2>2, Zenon DEF First
  <2> QED  BY <1>3, <1>4, <2>3 DEF InfoOf
<1>6. info = <<>> <=> WholeInfos(d) = {}
  BY <1>2, <1>5
<1>7. OverTheAir(d.subs) = <<>> <=> d.subs = <<>>
  <2>1. d.subs = <<>> => OverTheAir(d.subs) = <<>>
    BY DEF OverTheAir, FlattenSeq
  <2>2. ASSUME d.subs # <<>> PROVE OverTheAir(d.subs) # <<>>
    <3> DEFINE B == OverTheAir(d.subs)
    <3>1. n \in Nat /\ n > 0 /\ B \in Seq(Nat)
      BY <1>1, <2>2, Laid DEF n
    <3>2. PICK P \in [0..n -> Nat] :
            \A j \in 1..n : P[j] = P[j - 1] + 3 + Len(d.subs[j].body) /\ P[j] <= Len(B)
      BY <1>1, <2>2, Laid DEF n
    <3>3. P[n] = P[n - 1] + 3 + Len(d.subs[n].body) /\ P[n] <= Len(B) /\ Len(B) \in Nat
      BY <3>1, <3>2
    <3>4. P[n - 1] \in Nat /\ P[n] \in Nat /\ Len(d.subs[n].body) \in Nat
      BY <1>3, <3>1
    <3> HIDE DEF B
    <3>5. Len(B) > 0
      <4>1. \A a, b, c, l \in Nat : a = b + 3 + c /\ a <= l => l > 0
        OBVIOUS
      <4> QED  BY <3>3, <3>4, <4>1
    <3> QED  BY <3>5 DEF B
  <2> QED  BY <2>1, <2>2
<1>8. d.subs = <<>> => WholeInfos(d) = {}
  BY DEF WholeInfos
<1> QED  BY <1>2, <1>5, <1>6, <1>7, <1>8 DEF info

\* The verdict on the bytes of a device.
LEMMA VerdictOnBytes ==
  ASSUME NEW d, WellAdvertised(d)
  PROVE  _wfd_capability(OverTheAir(d.subs)) = Verdict(CapableOf(d), TypeOf(d))
<1> DEFINE B == OverTheAir(d.subs)
           info == _wfd_device_info_body(B)
<1>1. /\ info = IF WholeInfos(d) = {} THEN <<>> ELSE InfoOf(d)
      /\ info = <<>> <=> WholeInfos(d) = {}
      /\ WholeInfos(d) # {} => InfoOf(d) \in Seq(Nat) /\ Len(InfoOf(d)) >= 6
      /\ B = <<>> <=> d.subs = <<>>
      /\ d.subs = <<>> => WholeInfos(d) = {}
  BY SaysOfItself
<1>2. _wfd_capability(B) =
        CASE B = <<>> -> Verdict("no", NoType)
          [] B # <<>> /\ info = <<>> -> NoVerdict
          [] info # <<>> -> Verdict(IF info[2] % 4 = 0 THEN "no" ELSE "yes", info[2] % 4)
  BY DEF _wfd_capability
<1> HIDE DEF info, B
<1>3. CASE d.subs = <<>>
  <2>1. TypeOf(d) = NoType
    BY <1>1, <1>3 DEF TypeOf
  <2>2. CapableOf(d) = "no"
    BY <1>3 DEF CapableOf
  <2>3. B = <<>> /\ info = <<>>
    BY <1>1, <1>3
  <2>4. _wfd_capability(B) = Verdict("no", NoType)
    BY <1>2, <2>3
  <2> QED  BY <2>1, <2>2, <2>4 DEF B
<1>4. CASE d.subs # <<>> /\ WholeInfos(d) = {}
  <2>1. TypeOf(d) = NoType
    BY <1>4 DEF TypeOf
  <2>2. CapableOf(d) = Unknown
    BY <1>4, <2>1 DEF CapableOf
  <2>3. B # <<>> /\ info = <<>>
    BY <1>1, <1>4
  <2>4. _wfd_capability(B) = NoVerdict
    BY <1>2, <2>3
  <2> QED  BY <2>1, <2>2, <2>4 DEF B, NoVerdict
<1>5. CASE WholeInfos(d) # {}
  <2>1. InfoOf(d)[2] \in Nat
    BY <1>1, <1>5
  <2>2. TypeOf(d) = InfoOf(d)[2] % 4 /\ TypeOf(d) # NoType
    BY <1>5, <2>1 DEF TypeOf, NoType
  <2>3. d.subs # <<>> /\ CapableOf(d) = IF TypeOf(d) = 0 THEN "no" ELSE "yes"
    BY <1>1, <1>5, <2>2 DEF CapableOf
  <2>4. _wfd_capability(B) = Verdict(IF InfoOf(d)[2] % 4 = 0 THEN "no" ELSE "yes", InfoOf(d)[2] % 4)
    <3>1. info = InfoOf(d) /\ info # <<>> /\ B # <<>>
      BY <1>1, <1>5
    <3> QED  BY <1>2, <3>1
  <2> QED  BY <2>2, <2>3, <2>4 DEF B
<1> QED  BY <1>3, <1>4, <1>5 DEF B

\* Six bytes hold no subelement that is whole.
LEMMA SixBytes ==
  ASSUME NEW b \in Seq(Nat), Len(b) = 6
  PROVE  _wfd_device_info_body(b) = <<>>
<1> DEFINE F == InfoFrom(b)
<1>1. ASSUME NEW i \in 1..7
      PROVE  /\ F[i] = IF Ends(b, i) \/ i + 3 + LenAt(b, i) > 6 THEN <<>>
                       ELSE F[i + 3 + LenAt(b, i)]
             /\ ~Ends(b, i) => LenAt(b, i) \in Nat
  <2>1. ~Ends(b, i) => LenAt(b, i) \in Nat /\ ~WholeAt(b, i)
    <3> SUFFICES ASSUME ~Ends(b, i) PROVE LenAt(b, i) \in Nat /\ ~WholeAt(b, i)
      OBVIOUS
    <3>1. i + 1 \in 1..6 /\ i + 2 \in 1..6
      BY DEF Ends
    <3>2. b[i + 1] \in Nat /\ b[i + 2] \in Nat
      <4>1. \A k \in 1..6 : b[k] \in Nat
        <5>1. \A k \in 1..Len(b) : b[k] \in Nat
          BY ElementOfSeq
        <5> QED  BY <5>1
      <4> QED  BY <3>1, <4>1
    <3>3. LenAt(b, i) \in Nat
      BY <3>2 DEF LenAt
    <3> QED  BY <3>3 DEF WholeAt
  <2>2. i \in 1..(Len(b) + 1)
    OBVIOUS
  <2>3. F[i] = IF Ends(b, i) THEN <<>>
               ELSE IF WholeAt(b, i) THEN SubSeq(b, i + 3, i + 2 + LenAt(b, i))
               ELSE IF i + 3 + LenAt(b, i) > Len(b) THEN <<>>
               ELSE F[i + 3 + LenAt(b, i)]
    BY <2>2, InfoRead
  <2> HIDE DEF F
  <2> QED  BY <2>1, <2>3
<1> HIDE DEF F
<1>2. ASSUME NEW i \in 4..7 PROVE F[i] = <<>>
  <2>1. i \in 1..7
    BY <1>2
  <2>2. ~Ends(b, i) => i + 3 + LenAt(b, i) > 6
    BY <1>1, <2>1
  <2> QED  BY <1>1, <2>1, <2>2
<1>3. F[1] = <<>>
  <2>1. ~Ends(b, 1) /\ 1 \in 1..7
    BY DEF Ends
  <2>2. LenAt(b, 1) \in Nat
    BY <1>1, <2>1
  <2>3. ~(1 + 3 + LenAt(b, 1) > 6) => 1 + 3 + LenAt(b, 1) \in 4..7
    BY <2>2
  <2> QED  BY <1>1, <1>2, <2>1, <2>3
<1> QED  BY <1>3 DEF F, _wfd_device_info_body

\* The verdict on a Device Information alone, its header left out.
LEMMA VerdictOnBare ==
  ASSUME NEW d, WellAdvertised(d), d.subs # <<>>, d.subs[1].id = 0
  PROVE  _wfd_capability_from_hex(d.subs[1].body) = Verdict(CapableOf(d), TypeOf(d))
<1> DEFINE b == d.subs[1].body
<1>1. b \in Seq(Nat) /\ 1 \in 1..Len(d.subs) /\ Len(d.subs) \in Nat
  <2> DEFINE S == [id : Nat, body : Seq(Nat)]
  <2>1. d.subs \in Seq(S)
    BY DEF WellAdvertised
  <2> HIDE DEF S
  <2>2. Len(d.subs) \in Nat /\ 1 \in 1..Len(d.subs) /\ d.subs[1] \in S
    BY <2>1
  <2>3. d.subs[1] \in [id : Nat, body : Seq(Nat)]
    BY <2>2 DEF S
  <2> QED  BY <2>2, <2>3
<1>2. Len(b) = 6 \/ (Len(b) \in 1..5 /\ WholeInfos(d) = {})
  BY DEF WellAdvertised
<1>3. WholeInfos(d) = {i \in 1..Len(d.subs) : d.subs[i].id = 0 /\ Len(d.subs[i].body) >= 6}
  BY DEF WholeInfos
<1>4. ASSUME NEW c, c # <<>>, _wfd_device_info_body(c) = <<>> PROVE _wfd_capability(c) = NoVerdict
  BY <1>4 DEF _wfd_capability
<1>7. WholeInfos(d) \subseteq Nat \ {0} /\ (Len(b) = 6 => 1 \in WholeInfos(d))
  <2>1. WholeInfos(d) \subseteq Nat \ {0}
    BY <1>1, <1>3
  <2>2. Len(b) = 6 => Len(d.subs[1].body) >= 6
    OBVIOUS
  <2> QED  BY <1>1, <1>3, <2>1, <2>2
<1>8. Len(b) \in Nat
  BY <1>1
<1> HIDE DEF b
<1>5. CASE Len(b) \in 1..5 /\ WholeInfos(d) = {}
  <2>5. Len(b) \in 1..5
    BY <1>5, Zenon
  <2>6. Len(b) > 0 /\ Len(b) < 6
    <3>1. \A k \in 1..5 : k > 0 /\ k < 6
      OBVIOUS
    <3> QED  BY <2>5, <3>1
  <2>1. b # <<>> /\ _wfd_device_info_body(b) = <<>>
    <3> QED  BY <1>1, <2>6 DEF _wfd_device_info_body
  <2>2. _wfd_capability_from_hex(b) = NoVerdict
    <3>1. Len(b) # 6
      <4>1. \A k \in 1..5 : k # 6
        OBVIOUS
      <4> QED  BY <2>5, <4>1, Zenon
    <3>2. _wfd_capability(b) = NoVerdict
      BY <1>4, <2>1
    <3> QED  BY <2>1, <3>1, <3>2 DEF _wfd_capability_from_hex
  <2>3. TypeOf(d) = NoType
    BY <1>5 DEF TypeOf
  <2>4. CapableOf(d) = Unknown
    BY <2>3 DEF CapableOf
  <2> QED  BY <2>2, <2>3, <2>4 DEF NoVerdict, b
<1>6. CASE Len(b) = 6
  <2> DEFINE one == <<[id |-> 0, body |-> b]>>
             c == <<0, 0, 6>> \o b
  <2>1. First(WholeInfos(d)) = 1 /\ WholeInfos(d) # {}
    <3>1. 1 \in WholeInfos(d) /\ WholeInfos(d) \subseteq Nat \ {0}
      BY <1>6, <1>7
    <3>2. \E i \in WholeInfos(d) : \A j \in WholeInfos(d) : i <= j
      BY <3>1, LeastExists
    <3>3. First(WholeInfos(d)) \in WholeInfos(d) /\ First(WholeInfos(d)) <= 1
      BY <3>1, <3>2, Zenon DEF First
    <3> QED  BY <3>1, <3>3
  <2>2. InfoOf(d) = b
    BY <2>1 DEF InfoOf, b
  <2>3. /\ Advertised(one) /\ Len(one) = 1 /\ one # <<>>
        /\ one[1].id = 0 /\ one[1].body = b
    <3>1. [id |-> 0, body |-> b] \in [id : Nat, body : Seq(Nat)]
      BY <1>1
    <3> QED  BY <3>1 DEF Advertised
  <2>4. OverTheAir(one) = c
    <3>1. [i \in 1..Len(one) |-> Bytes(one[i])] = <<c>>
      <4>1. Bytes(one[1]) = c
        BY <1>6, <2>3 DEF Bytes
      <4> HIDE DEF one, c
      <4> QED  BY <2>3, <4>1
    <3> HIDE DEF c, one
    <3>2. FlattenSeq(<<c>>) = c
      <4> DEFINE S == {c[i] : i \in 1..Len(c)}
      <4>1. c \in Seq(Nat)
        <5>1. <<0, 0, 6>> \in Seq(Nat)
          OBVIOUS
        <5> QED  BY <1>1, <5>1 DEF c
      <4>2. <<c>> \in Seq(Seq(Nat)) /\ Len(<<c>>) = 1 /\ Len(<<c>>) > 0 /\ <<c>>[1] = c
        BY <4>1
      <4>3. \E f \in [1..Len(<<c>>) -> Seq(Nat)] :
              /\ FlattenSeq(<<c>>) = f[Len(<<c>>)]
              /\ \A i \in 1..Len(<<c>>) : f[i] = IF i = 1 THEN <<c>>[i] ELSE f[i - 1] \o <<c>>[i]
        <5> DEFINE q == <<c>>
        <5>1. q \in Seq(Seq(Nat)) /\ Len(q) > 0
          BY <4>2
        <5> HIDE DEF q
        <5>2. \E f \in [1..Len(q) -> Seq(Nat)] :
                /\ FlattenSeq(q) = f[Len(q)]
                /\ \A i \in 1..Len(q) : f[i] = IF i = 1 THEN q[i] ELSE f[i - 1] \o q[i]
          BY <5>1, Flattened
        <5> QED  BY <5>2 DEF q
      <4> QED  BY <4>2, <4>3
    <3> QED  BY <3>1, <3>2 DEF OverTheAir
  <2>5. _wfd_device_info_body(c) = b
    <3> HIDE DEF one, c
    <3>1. WholeIn(one) = {1}
      <4>1. \A i \in {1} : one[i].id = 0 /\ Len(one[i].body) >= 6
        <5>1. one[1].id = 0 /\ one[1].body = b
          BY <2>3
        <5>2. Len(b) >= 6
          BY <1>6
        <5> QED  BY <5>1, <5>2
      <4>2. 1..1 = {1}
        OBVIOUS
      <4> QED  BY <2>3, <4>1, <4>2 DEF WholeIn
    <3>2. First({1}) = 1
      BY DEF First
    <3>3. _wfd_device_info_body(OverTheAir(one)) = one[First(WholeIn(one))].body
      BY <2>3, <3>1, InfoFound
    <3> QED  BY <2>3, <2>4, <3>1, <3>2, <3>3
  <2>6. c # <<>>
    OBVIOUS
  <2>7. b[2] \in Nat /\ b # <<>>
    <3>1. 2 \in 1..Len(b)
      BY <1>6
    <3>2. b[2] \in Nat
      BY <1>1, <3>1, ElementOfSeq
    <3>3. b # <<>>
      BY <1>6
    <3> QED  BY <3>2, <3>3
  <2> HIDE DEF c
  <2>8. _wfd_capability(b).type = NoType
    <3>1. _wfd_device_info_body(b) = <<>>
      BY <1>1, <1>6, SixBytes
    <3>2. _wfd_capability(b) = NoVerdict
      BY <1>4, <2>7, <3>1
    <3> QED  BY <3>2 DEF NoVerdict, Verdict
  <2>9. _wfd_capability_from_hex(b) = _wfd_capability(c)
    BY <1>6, <2>7, <2>8 DEF _wfd_capability_from_hex, c
  <2>10. _wfd_capability(c) = Verdict(IF b[2] % 4 = 0 THEN "no" ELSE "yes", b[2] % 4)
    BY <2>5, <2>6, <2>7 DEF _wfd_capability
  <2>11. TypeOf(d) = b[2] % 4 /\ TypeOf(d) # NoType /\ CapableOf(d) = IF TypeOf(d) = 0 THEN "no" ELSE "yes"
    <3>1. TypeOf(d) = b[2] % 4
      BY <2>1, <2>2 DEF TypeOf
    <3>2. TypeOf(d) # NoType
      BY <2>7, <3>1 DEF NoType
    <3> QED  BY <3>1, <3>2 DEF CapableOf
  <2> QED  BY <2>9, <2>10, <2>11 DEF b
<1> QED  BY <1>2, <1>5, <1>6

\* What is said of a peer that was read.
SaidOfItself(p) ==
  IF ~p.read THEN p.capable = Unknown /\ p.type = NoType
  ELSE /\ \/ p.capable = CapableOf(p.device)
          \/ p.capable = Unknown /\ p.device.subs = <<>> /\ ~p.by_nm
       /\ p.type = TypeOf(p.device)
       /\ p.by_nm /\ p.type # NoType =>
            LET info == InfoOf(p.device)
                port == 256 * info[3] + info[4]
            IN p.rtsp_port = IF port > 0 THEN port ELSE 7236
VerdictInv == \A i \in 1..Len(peers) : SaidOfItself(peers[i])

LEMMA SaidOnPeer ==
  ASSUME DiscInv, VerdictInv, NEW p, SaidOfItself(p), peers' = Append(peers, p)
  PROVE  VerdictInv'
<1>1. IsSeq(peers)
  BY DEF DiscInv
<1>2. /\ Len(peers) \in Nat /\ Len(peers') = Len(peers) + 1
      /\ \A i \in 1..Len(peers) : peers'[i] = peers[i]
      /\ peers'[Len(peers) + 1] = p
  BY <1>1, Appended
<1>3. ASSUME NEW i \in 1..Len(peers') PROVE SaidOfItself(peers'[i])
  <2>1. i \in 1..Len(peers) \/ i = Len(peers) + 1
    BY <1>2
  <2> QED  BY <1>2, <2>1 DEF VerdictInv
<1> QED  BY <1>3 DEF VerdictInv, SaidOfItself

\* NetworkManager's bytes give the verdict and the port that the device advertises.
LEMMA ReadAsAdvertised ==
  ASSUME DiscInv, VerdictInv, NEW d \in Devices, WellAdvertised(d), NEW readable,
         ReadPeer(d, readable)
  PROVE  VerdictInv'
<1> DEFINE B == OverTheAir(d.subs)
           ies == "ies" \in readable
           bytes == IF ies THEN B ELSE <<>>
           verdict == IF ies THEN _wfd_capability(bytes) ELSE NoVerdict
           address == IF "address" \in readable THEN d.mac ELSE PathTail
           p == [device |-> d, by_nm |-> TRUE, read |-> ies,
                 texts |-> (IF "name" \in readable THEN d.names ELSE {})
                          \cup (IF "address" \in readable THEN d.macs ELSE {PathTail}),
                 capable |-> verdict.capable, type |-> verdict.type,
                 rtsp_port |-> _parse_wfd_ies_rtsp_port(bytes),
                 owner |-> CapabilityOf(address).owner, push |-> CapabilityOf(address).push]
<1>1. peers' = Append(peers, p)
  BY DEF ReadPeer
<1>2. /\ p.device = d /\ p.read = ies /\ p.capable = verdict.capable /\ p.type = verdict.type
      /\ p.rtsp_port = _parse_wfd_ies_rtsp_port(bytes)
  OBVIOUS
<1>3. CASE ~ies
  <2>1. verdict.capable = Unknown /\ verdict.type = NoType
    BY <1>3 DEF NoVerdict, Verdict
  <2>2. SaidOfItself(p)
    <3> HIDE DEF verdict, ies, p, bytes
    <3> QED  BY <1>2, <1>3, <2>1 DEF SaidOfItself
  <2> HIDE DEF p
  <2> QED  BY <1>1, <2>2, SaidOnPeer
<1>4. CASE ies
  <2>1. verdict = Verdict(CapableOf(d), TypeOf(d))
    BY <1>4, VerdictOnBytes
  <2>2. verdict.capable = CapableOf(d) /\ verdict.type = TypeOf(d)
    <3> HIDE DEF verdict
    <3> QED  BY <2>1 DEF Verdict
  <2>3. TypeOf(d) # NoType => WholeInfos(d) # {}
    BY DEF TypeOf
  <2>4. ASSUME WholeInfos(d) # {}
        PROVE  _wfd_device_info_body(B) = InfoOf(d) /\ InfoOf(d) # <<>>
    BY <2>4, SaysOfItself
  <2>5. ASSUME WholeInfos(d) # {}
        PROVE  LET port == 256 * InfoOf(d)[3] + InfoOf(d)[4]
               IN _parse_wfd_ies_rtsp_port(B) = IF port > 0 THEN port ELSE 7236
    BY <2>4, <2>5 DEF _parse_wfd_ies_rtsp_port
  <2>6. bytes = B
    BY <1>4
  <2>7. SaidOfItself(p)
    <3> HIDE DEF verdict, ies, p, bytes, B
    <3> QED  BY <1>2, <1>4, <2>2, <2>3, <2>5, <2>6 DEF SaidOfItself
  <2> HIDE DEF p
  <2> QED  BY <1>1, <2>7, SaidOnPeer
<1> QED  BY <1>3, <1>4

\* So does what wpa_cli says, in either of its fields.
LEMMA DetailsAsAdvertised ==
  ASSUME DiscInv, VerdictInv, NEW d \in Devices, WellAdvertised(d), NEW details \in BOOLEAN,
         NEW field \in Fields(d), ReadDetails(d, details, field)
  PROVE  VerdictInv'
<1> DEFINE verdict == _parse_peer_capability(d, details, field)
           p == [device |-> d, by_nm |-> FALSE, read |-> details,
                 texts |-> (IF details THEN d.names ELSE {}) \cup d.macs,
                 capable |-> verdict.capable, type |-> verdict.type, rtsp_port |-> 7236,
                 owner |-> _parse_peer_blockers(d, details).owner,
                 push |-> _parse_peer_blockers(d, details).push]
<1>1. peers' = Append(peers, p)
  BY DEF ReadDetails
<1>2. /\ p.device = d /\ p.read = details /\ p.capable = verdict.capable /\ p.type = verdict.type
      /\ p.by_nm = FALSE
  OBVIOUS
<1>3. CASE ~details
  <2>1. verdict = NoVerdict
    BY <1>3 DEF _parse_peer_capability
  <2>2. verdict.capable = Unknown /\ verdict.type = NoType
    <3> HIDE DEF verdict
    <3> QED  BY <2>1 DEF NoVerdict, Verdict
  <2> HIDE DEF p, verdict
  <2>3. SaidOfItself(p)
    BY <1>2, <1>3, <2>2 DEF SaidOfItself
  <2> QED  BY <1>1, <2>3, SaidOnPeer
<1>4. CASE details
  <2> DEFINE B == OverTheAir(d.subs)
  <2>1. /\ verdict.capable = CapableOf(d) \/ (verdict.capable = Unknown /\ d.subs = <<>>)
        /\ verdict.type = TypeOf(d)
    <3>1. CASE d.subs = <<>>
      <4>1. B = <<>> /\ WholeInfos(d) = {}
        BY <3>1, SaysOfItself
      <4>2. TypeOf(d) = NoType /\ CapableOf(d) = "no"
        BY <3>1, <4>1 DEF TypeOf, CapableOf
      <4>3. field \in {"whole", "none"}
        BY <3>1 DEF Fields
      <4> HIDE DEF B
      <4>4. _wfd_capability_from_hex(B) = NoVerdict
        BY <4>1 DEF _wfd_capability_from_hex
      <4>5. verdict = Verdict("no", NoType) \/ verdict = NoVerdict
        BY <1>4, <4>3, <4>4 DEF _parse_peer_capability, B
      <4> HIDE DEF verdict
      <4> QED  BY <3>1, <4>2, <4>5 DEF Verdict, NoVerdict
    <3>2. CASE d.subs # <<>>
      <4>1. field = "whole" \/ (field = "bare" /\ d.subs[1].id = 0)
        BY <3>2 DEF Fields
      <4>2. verdict = _wfd_capability_from_hex(IF field = "bare" THEN d.subs[1].body ELSE B)
        BY <1>4, <4>1 DEF _parse_peer_capability
      <4> HIDE DEF verdict
      <4>3. verdict = Verdict(CapableOf(d), TypeOf(d))
        <5>1. CASE field = "bare" /\ d.subs[1].id = 0
          BY <3>2, <4>2, <5>1, VerdictOnBare
        <5>2. CASE field = "whole"
          <6>1. B # <<>> /\ Len(B) # 6
            BY <3>2, SaysOfItself DEF WellAdvertised
          <6>2. _wfd_capability(B) = Verdict(CapableOf(d), TypeOf(d))
            BY VerdictOnBytes
          <6> HIDE DEF B
          <6>3. _wfd_capability_from_hex(B) = _wfd_capability(B)
            BY <6>1 DEF _wfd_capability_from_hex
          <6> QED  BY <4>2, <5>2, <6>2, <6>3
        <5> QED  BY <4>1, <5>1, <5>2
      <4> QED  BY <4>3 DEF Verdict
    <3> QED  BY <3>1, <3>2
  <2> HIDE DEF p, verdict
  <2>2. SaidOfItself(p)
    BY <1>2, <1>4, <2>1 DEF SaidOfItself
  <2> QED  BY <1>1, <2>2, SaidOnPeer
<1> QED  BY <1>3, <1>4

LEMMA VerdictStep ==
  ASSUME \A d \in Devices : WellAdvertised(d), DiscInv, VerdictInv, [DiscNext]_discVars
  PROVE  VerdictInv'
<1>1. ASSUME peers' = peers \/ peers' = <<>> PROVE VerdictInv'
  BY <1>1 DEF VerdictInv, SaidOfItself
<1>2. CASE _nm_scan \/ active_scan \/ ScanEnds \/ _wpas_peer_capabilities \/ UNCHANGED discVars
  BY <1>1, <1>2 DEF _nm_scan, active_scan, ScanEnds, _wpas_peer_capabilities, discVars
<1>3. CASE Select
  BY <1>1, <1>3 DEF Select, _select_peer
<1>4. ASSUME NEW d \in Devices, Moves(d) PROVE VerdictInv'
  BY <1>1, <1>4 DEF Moves
<1>5. ASSUME NEW d \in Devices, NEW readable \in Reads, ReadPeer(d, readable) PROVE VerdictInv'
  BY <1>5, ReadAsAdvertised
<1>6. ASSUME NEW d \in Devices, NEW details \in BOOLEAN, NEW field \in Fields(d),
             ReadDetails(d, details, field)
      PROVE  VerdictInv'
  BY <1>6, DetailsAsAdvertised
<1> QED  BY <1>2, <1>3, <1>4, <1>5, <1>6 DEF DiscNext

\* Of devices that advertise what the standard asks for, no peer gets a verdict, a type
\* or a port but those it advertises, whoever was asked and in whatever field it was
\* answered, and none is taken for another when it is said to be unreachable.
THEOREM PeersAsAdvertisedHolds ==
  ASSUME \A d \in Devices : WellAdvertised(d)
  PROVE  DiscSpec => []PeersAsAdvertised
<1>1. DiscInit => DiscInv /\ VerdictInv
  <2>1. IsSeq(<<>>)
    BY DEF IsSeq
  <2> QED  BY <2>1 DEF DiscInit, DiscInv, VerdictInv
<1>2. DiscInv /\ VerdictInv /\ [DiscNext]_discVars => (DiscInv /\ VerdictInv)'
  BY DiscStep, VerdictStep
<1>3. DiscInv /\ VerdictInv => PeersAsAdvertised
  <2> SUFFICES ASSUME DiscInv, VerdictInv PROVE PeersAsAdvertised
    OBVIOUS
  <2>1. BlockersOfItsOwn
    BY DEF DiscInv, OfItsDevice, BlockersOfItsOwn
  <2>2. \A i \in 1..Len(peers) : SaidOfItself(peers[i])
    BY DEF VerdictInv
  <2> QED  BY <2>1, <2>2, Zenon DEF PeersAsAdvertised, SaidOfItself
<1> QED  BY <1>1, <1>2, <1>3, PTL DEF DiscSpec
=============================================================================
