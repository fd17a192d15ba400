------------------------------- MODULE MCLink -------------------------------
(***************************************************************************)
(* What it takes to bring up a Wi-Fi Display link, each part by itself:    *)
(* the session and its teardown, the search for the receiver, who it is on *)
(* the link, how its messages are read and what it and the source agree    *)
(* on.  A behaviour is one of one part, chosen at the start.               *)
(***************************************************************************)
EXTENDS WFDSession, PeerAddress, Negotiation, RTSPReader, Discovery, TLC

CONSTANT Parts      \* the parts of this run

VARIABLE part

linkVars == <<part, vars, negVars, addressVars, readVars, discVars>>

Session == part = "session" /\ UNCHANGED <<part, negVars, addressVars, readVars, discVars>>
Negotiates == part = "negotiation" /\ UNCHANGED <<part, vars, addressVars, readVars, discVars>>
Addresses == part = "address" /\ UNCHANGED <<part, vars, negVars, readVars, discVars>>
Reader == part = "reader" /\ UNCHANGED <<part, vars, negVars, addressVars, discVars>>
Discovers == part = "discovery" /\ UNCHANGED <<part, vars, negVars, addressVars, readVars>>

\* The parts that are not chosen wait in one of their initial states.  What a session
\* never looks at (the other back end's options, ports it does not need) has one value.
LinkInit ==
  /\ part \in Parts
  /\ Init /\ (part # "session" =>
                /\ backend = "nm" /\ ~iwd /\ ~firewall /\ ~uibc /\ ~go
                /\ link = "down" /\ \A p \in Ports : fw[p] = "closed")
  /\ (backend = "nm" => ~go) /\ (backend = "wpas" => ~iwd)
  /\ \A p \in Ports : fw[p] = "user" => firewall /\ (p = "uibc" => uibc)
  /\ NegInit /\ (part # "negotiation" => media_config = CHOOSE c \in Configs : TRUE)
  /\ AddressInit
  /\ ReadInit /\ (part # "reader" => wire = CHOOSE w \in Wires : TRUE)
  /\ DiscInit /\ (part # "discovery" => nearby = {} /\ selector = CHOOSE s \in Selectors : TRUE)

LinkNext == \/ Session /\ Next
            \/ Negotiates /\ NegNext
            \/ Addresses /\ AddressNext
            \/ Reader /\ ReadNext
            \/ Discovers /\ DiscNext
LinkSpec == LinkInit /\ [][LinkNext]_linkVars

-----------------------------------------------------------------------------
(* Configurations and sinks that differ in what the choice of a mode looks *)
(* at: sizes below, between and above the modes, both rates, an odd port   *)
(* and one of the last; levels that are missing, composite and limiting.   *)

Config(size, fps, test_pattern, r2, port) ==
  [size |-> size, fps |-> fps, test_pattern |-> test_pattern, r2 |-> r2, source_port |-> port]
MCConfigs ==
  {Config(size, fps, FALSE, FALSE, 19001) :
     size \in {NoFormat, <<640, 480>>, <<1280, 720>>, <<1920, 1200>>}, fps \in {30, 60}}
  \cup {Config(NoFormat, 30, TRUE, FALSE, 65534), Config(NoFormat, 60, FALSE, TRUE, 19001)}
Sized(width, height, fps) == [width |-> width, height |-> height, fps |-> fps]
Format(modes, level, max) == [modes |-> modes, level |-> level, max |-> max]
MCOffers ==
  {Format(modes, limit[1], limit[2]) :
     modes \in SUBSET {Sized(640, 480, 60), Sized(1280, 720, 30), Sized(1920, 1080, 60),
                       Sized(1920, 1200, 60)},
     limit \in {<<0, NoFormat>>, <<5, NoFormat>>, <<31, <<1280, 720>>>>, <<0, <<320, 240>>>>}}
MCR2Offers ==
  {Format(modes, 16, NoFormat) :
     modes \in {{Sized(1280, 720, 30)}, {Sized(1920, 1080, 30), Sized(1920, 1080, 60)}}}
MCPorts == {<<19002, 19003>>, <<19003, 0>>}

\* Two P2P groups and a LAN; the receiver's MAC "M" and another one's.
Row(ip, i, mac) == [ip |-> ip, interface |-> i, mac |-> mac]
MCRows ==
  {Row("tv", "g", "M"), Row("tv", "g", "X"), Row("other", "g", "X"), Row("other", "g", "M"),
   Row("tv", "h", "M"), Row("lan", "h", "X"), Row("lan", "wlan", "M")}

\* Messages with and without a body, two at once, a blank line between two, a
\* message cut short, and one beyond each limit.
MCWires ==
  {<<"a", "n", "2", "n", "n", "a", "a", "a", "n", "n">>, <<"a", "n", "n", "n", "a", "n", "n">>,
   <<"a", "n", "1", "n", "n">>, <<"a", "n", "a">>, <<"a", "a", "a", "n">>,
   <<"a", "a", "n", "a", "a", "n", "a", "n", "n">>, <<"a", "n", "?", "n", "n">>,
   <<"a", "n", "a", "n", "a", "n", "a">>, <<"a", "n", "9", "n", "n">>,
   <<"a", "n", "1", "n", "n", "n", "n">>}

\* A TV, one that runs a group and that wpa_supplicant knows by another address, a
\* second FluxCast, a printer, and one that advertises too little to be read.
Info(low, port) ==
  [id |-> 0, body |-> <<0, low, port \div 256, port % 256, 0, 200>>]
Other(id, length) == [id |-> id, body |-> [i \in 1..length |-> 0]]
Device(mac, key, name, subs, owner, push) ==
  [mac |-> mac, key |-> key, names |-> {name}, macs |-> {mac}, subs |-> subs, owner |-> owner,
   push |-> push]
MCDevices ==
  {Device("m1", "m1", "tv", <<Other(1, 6), Other(0, 2), Info(17, 7236)>>, "no", "yes"),
   Device("m2", "x2", "tv", <<Info(19, 554), Other(6, 7)>>, "yes", "yes"),
   Device("m3", "m3", "pc", <<Info(16, 7236), [id |-> 10, body |-> <<70, 67>>]>>, "no", "yes"),
   Device("m4", "m4", "printer", <<>>, "yes", "no"),
   Device("m5", "m5", "old", <<Other(0, 2)>>, "no", "no")}
\* One of them advertises what FluxCast itself does.
ASSUME MCSource == \E d \in MCDevices : d.subs = _wfd_source_ie(7236)
ASSUME MCAdvertised == \A d \in MCDevices : WellAdvertised(d)
MCSelectors == {<<"prompt">>, <<"index", 1>>, <<"text", "tv">>}
MCReads == {{}, {"name", "ies"}, {"name", "address", "ies"}}
=============================================================================
