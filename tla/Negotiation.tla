---------------------------- MODULE Negotiation ----------------------------
(***************************************************************************)
(* What the source and the sink agree on: the video mode, chosen from the  *)
(* formats of the sink's answer to M3 (wfd/modes.py), and the ports (wfd/  *)
(* net.py), and what the media is then started with (wfd/rtsp/handler.py). *)
(* The order of SETUP and PLAY against the answers is the sink's.  A level *)
(* is its WFD bit; the bitmaps of a format are the set of its modes.       *)
(***************************************************************************)
EXTENDS Integers, Sequences

CONSTANTS Configs,      \* media configurations: [size, fps, test_pattern, r2, source_port]
          Offers,       \* formats of a sink: [modes, level, max]
          R2Offers,     \* formats in its wfd2_video_formats
          SinkPorts,    \* pairs <<RTP port, RTCP port or 0>> it may name
          NoFormat      \* no value

ASSUME NegotiationAssumption ==
  SinkPorts \subseteq Nat \X Nat /\ \A c \in Configs : c.source_port \in Nat

VARIABLES media_config, asked, m3_r2,
          passed_over,   \* the sink's R1 format where R2 was taken
          sink_r2, sink_video_format, sink, source, announced, replied, media

negVars == <<media_config, asked, m3_r2, passed_over, sink_r2, sink_video_format, sink, source,
             announced, replied, media>>

-----------------------------------------------------------------------------
(* Modes.                                                                   *)

Mode(height, fps) ==
  [width |-> CASE height = 480 -> 640 [] height = 720 -> 1280 [] OTHER -> 1920,
   height |-> height, fps |-> fps]

\* The highest bit of the level byte; no limit if there is none.
_max_wfd_level(level) ==
  IF level = 0 THEN NoFormat
  ELSE CHOOSE b \in {2^k : k \in 0..7} : b <= level /\ level < 2 * b

_wfd_level_for_mode(mode) ==
  IF mode.width <= 1280 /\ mode.height <= 720
  THEN IF mode.fps <= 30 THEN 1 ELSE 2
  ELSE IF mode.fps <= 30 THEN 4 ELSE 16

\* The level put into M4, and the one of the encoder.
AnnouncedLevel(mode) ==
  IF mode.width * mode.height > 1920 * 1080
  THEN IF mode.fps <= 30 THEN 32 ELSE 64
  ELSE _wfd_level_for_mode(mode)
_h264_level_for_mode(size, fps) ==
  IF size[1] <= 1280 /\ size[2] <= 720 THEN (IF fps <= 30 THEN 1 ELSE 2)
  ELSE IF size[1] * size[2] > 1920 * 1080 THEN (IF fps <= 30 THEN 32 ELSE 64)
  ELSE IF fps <= 30 THEN 4 ELSE 16

\* What is assumed of a sink that names no format.
DefaultOffer ==
  [modes |-> {Mode(h, f) : h \in {720, 1080}, f \in {30, 60}}, level |-> 16, max |-> NoFormat]
OfferOf(format) == IF format = NoFormat THEN DefaultOffer ELSE format

fits(mode, offer) ==
  offer.max = NoFormat \/ (mode.width <= offer.max[1] /\ mode.height <= offer.max[2])
supports(mode, offer) ==
  /\ mode \in offer.modes /\ fits(mode, offer)
  /\ \/ _max_wfd_level(offer.level) = NoFormat
     \/ _wfd_level_for_mode(mode) <= _max_wfd_level(offer.level)

wants_720(c) ==
  IF c.size = NoFormat THEN c.test_pattern ELSE c.size[1] <= 1280 /\ c.size[2] <= 720
wants_1200(c) == c.size # NoFormat /\ c.size[1] >= 1920 /\ c.size[2] > 1080
wants_480(c) == c.size # NoFormat /\ c.size[1] <= 640 /\ c.size[2] <= 480
Rates(c) == IF c.fps > 30 THEN <<60, 30>> ELSE <<30, 60>>
Both(height, c) == <<Mode(height, Rates(c)[1]), Mode(height, Rates(c)[2])>>

\* The modes in the order they are tried, with the fall-back of any HD mode.
preferred(c) ==
  IF wants_1200(c) THEN Both(1200, c) \o Both(1080, c) \o Both(720, c)
  ELSE IF wants_480(c) THEN <<Mode(480, 60)>> \o Both(720, c)
  ELSE IF wants_720(c) THEN Both(720, c)
  ELSE IF c.fps > 30 THEN Both(1080, c) \o Both(720, c)
  ELSE <<Mode(1080, 30), Mode(720, 30), Mode(1080, 60), Mode(720, 60)>>
Tried(c) == preferred(c) \o <<Mode(720, 30), Mode(1080, 30), Mode(720, 60), Mode(1080, 60)>>

\* The first of some modes, in the order they are tried.
FirstOf(modes, places) == modes[CHOOSE i \in places : \A j \in places : i <= j]

\* What is sent to a sink that supports none of them.
Wished(c) ==
  IF wants_1200(c) THEN Both(1200, c) \o Both(1080, c)
  ELSE IF wants_720(c) THEN Both(720, c)
  ELSE Both(1080, c) \o Both(720, c)
Forced(c, offer) ==
  LET wished == Wished(c) \o <<Mode(720, 30), Mode(480, 60)>>
      small  == {i \in 1..Len(wished) : fits(wished[i], offer)}
  IN IF small = {} THEN wished[1] ELSE FirstOf(wished, small)

\* mutant: the sink's maximal size is not looked at when a mode is forced
_choose_cea_modeUnfit(c, format) ==
  LET offer     == OfferOf(format)
      supported == {i \in 1..Len(Tried(c)) : supports(Tried(c)[i], offer)}
  IN IF supported = {} THEN Forced(c, [offer EXCEPT !.max = NoFormat])
     ELSE FirstOf(Tried(c), supported)
_choose_cea_mode(c, format) ==
  LET offer     == OfferOf(format)
      supported == {i \in 1..Len(Tried(c)) : supports(Tried(c)[i], offer)}
  IN IF supported = {} THEN Forced(c, offer) ELSE FirstOf(Tried(c), supported)

_use_r2_format(c, r1, r2) ==
  r2 # NoFormat /\ (r1 = NoFormat \/ _choose_cea_mode(c, r2) # _choose_cea_mode(c, r1))

-----------------------------------------------------------------------------
(* Ports.                                                                   *)

\* The first even port from the requested one on which, with the next, is not the
\* sink's.  Nothing bounds it.
_safe_source_port(requested, ports) ==
  LET blocked == {ports[1], IF ports[2] = 0 THEN ports[1] + 1 ELSE ports[2]}
      start   == requested + (requested % 2)
      Free(p) == {p, p + 1} \cap blocked = {}
  IN CHOOSE p \in {start, start + 2, start + 4} :
       Free(p) /\ \A q \in {start, start + 2, start + 4} : q < p => ~Free(q)

-----------------------------------------------------------------------------
\* The options are exchanged, M3 is sent.
NegInit ==
  /\ media_config \in Configs
  /\ asked = "M3" /\ m3_r2 = media_config.r2
  /\ passed_over = NoFormat /\ sink_r2 = FALSE /\ sink_video_format = NoFormat
  /\ sink = <<0, 0>> /\ source = media_config.source_port
  /\ announced = NoFormat /\ replied = NoFormat /\ media = NoFormat

Closes == asked' = "closed" /\ media' = NoFormat
Open == asked # "closed"

\* A sink that refuses M3 with the R2 parameters is asked without them.
M3Rejected ==
  /\ asked = "M3"
  /\ \/ m3_r2 /\ m3_r2' = FALSE /\ UNCHANGED <<asked, media>>
     \/ ~m3_r2 /\ Closes /\ UNCHANGED m3_r2
  /\ UNCHANGED <<media_config, passed_over, sink_r2, sink_video_format, sink, source,
                 announced, replied>>

\* The answer is evaluated and M4 sent; without usable ports the session ends.
M3Answered(r1, r2, ports) ==
  /\ asked = "M3" /\ ports[1] > 0
  /\ sink' = ports /\ source' = _safe_source_port(media_config.source_port, ports)
  /\ sink_r2' = (m3_r2 /\ _use_r2_format(media_config, r1, r2))
  /\ sink_video_format' = IF sink_r2' THEN r2 ELSE r1
  /\ passed_over' = IF sink_r2' THEN r1 ELSE NoFormat
  /\ asked' = "M4"
  /\ LET mode == _choose_cea_mode(media_config, sink_video_format')
     IN announced' = [mode |-> mode, level |-> AnnouncedLevel(mode)]
  /\ replied' = IF replied = NoFormat THEN NoFormat ELSE [replied EXCEPT !.overtaken = TRUE]
  /\ UNCHANGED <<media_config, m3_r2, media>>

M3Unusable ==
  /\ asked = "M3" /\ Closes
  /\ UNCHANGED <<media_config, m3_r2, passed_over, sink_r2, sink_video_format, sink, source,
                 announced, replied>>

\* M4 is answered with M5, which says SETUP; a refusal of either ends the session.
Answered ==
  /\ \/ asked = "M4" /\ asked' = "M5" /\ UNCHANGED media
     \/ asked = "M5" /\ asked' = "done" /\ UNCHANGED media
     \/ asked \in {"M4", "M5"} /\ Closes
  /\ UNCHANGED <<media_config, m3_r2, passed_over, sink_r2, sink_video_format, sink, source,
                 announced, replied>>

\* SETUP: the ports of the Transport header win, and those known before are kept
\* without it; 19000 is taken if there are none.
\* mutant: the port of the reply is not the one kept
SetupUnkept(ports) ==
  /\ Open
  /\ LET known == CASE ports # NoFormat /\ ports[1] > 0 -> ports
                    [] ports = NoFormat /\ sink[1] > 0 -> sink
                    [] OTHER -> <<19000, 0>>
         port  == _safe_source_port(media_config.source_port, known)
     IN /\ sink' = known /\ UNCHANGED source
        /\ replied' = [source |-> port, sink |-> known, playing |-> media # NoFormat,
                       overtaken |-> FALSE]
  /\ UNCHANGED <<media_config, asked, m3_r2, passed_over, sink_r2, sink_video_format,
                 announced, media>>
SetupRequest(ports) ==
  /\ Open
  /\ LET known == CASE ports # NoFormat /\ ports[1] > 0 -> ports
                    [] ports = NoFormat /\ sink[1] > 0 -> sink
                    [] OTHER -> <<19000, 0>>
         port  == _safe_source_port(media_config.source_port, known)
     IN /\ sink' = known /\ source' = port
        /\ replied' = [source |-> port, sink |-> known, playing |-> media # NoFormat,
                       overtaken |-> FALSE]
  /\ UNCHANGED <<media_config, asked, m3_r2, passed_over, sink_r2, sink_video_format,
                 announced, media>>

\* What the media is started with: the mode negotiated so far.
EffectiveConfig ==
  LET mode == _choose_cea_mode(media_config, sink_video_format)
  IN [size |-> <<mode.width, mode.height>>, fps |-> mode.fps, source |-> source,
      sink |-> sink, early |-> announced = NoFormat,
      level |-> _h264_level_for_mode(<<mode.width, mode.height>>, mode.fps)]

\* PLAY; before the sink's port is known it ends the session.
Play ==
  /\ Open
  /\ \/ sink[1] = 0 /\ Closes
     \/ sink[1] > 0 /\ UNCHANGED asked
        /\ media' = IF media = NoFormat THEN EffectiveConfig ELSE media
  /\ UNCHANGED <<media_config, m3_r2, passed_over, sink_r2, sink_video_format, sink, source,
                 announced, replied>>

\* PAUSE and TEARDOWN; the handler goes on after both.
StopMedia ==
  /\ Open /\ media # NoFormat /\ media' = NoFormat
  /\ replied' = IF replied = NoFormat THEN NoFormat ELSE [replied EXCEPT !.playing = FALSE]
  /\ UNCHANGED <<media_config, asked, m3_r2, passed_over, sink_r2, sink_video_format, sink,
                 source, announced>>

NegNext ==
  \/ M3Rejected \/ M3Unusable \/ Answered \/ Play \/ StopMedia
  \/ \E r1 \in Offers \cup {NoFormat}, r2 \in R2Offers \cup {NoFormat}, ports \in SinkPorts :
       M3Answered(r1, r2, ports)
  \/ \E ports \in SinkPorts \cup {NoFormat, <<0, 0>>} : SetupRequest(ports)
NegSpec == NegInit /\ [][NegNext]_negVars

-----------------------------------------------------------------------------
\* The sink gets a mode it offers and can decode whenever it offers one the source
\* tries; a size beyond its maximum only if not even 640x480 is within it; and a
\* level above its own only for 1920x1200 or a forced mode.
WithinTheOffer ==
  (announced # NoFormat /\ sink_video_format # NoFormat) =>
    LET mode   == announced.mode
        offer  == sink_video_format
        forced == ~supports(mode, offer)
    IN /\ forced => \A h \in {720, 1080}, f \in {30, 60} : ~supports(Mode(h, f), offer)
       /\ fits(mode, offer) \/ ~fits(Mode(480, 60), offer)
       /\ \/ forced \/ mode.height = 1200 \/ _max_wfd_level(offer.level) = NoFormat
          \/ announced.level <= _max_wfd_level(offer.level)

\* What is streamed has the size, the rate and the level announced in M4, however
\* SETUP, PLAY and PAUSE come in - unless PLAY came before the answer to M3.
StreamsWhatItAnnounced ==
  (media # NoFormat /\ announced # NoFormat) =>
    \/ media.early
    \/ /\ media.size = <<announced.mode.width, announced.mode.height>>
       /\ media.fps = announced.mode.fps /\ media.level = announced.level

\* The mode and the level of the media are the ones the sink was told, and it can
\* play them as far as what it offered allows.
ModeAsAgreed == WithinTheOffer /\ StreamsWhatItAnnounced

\* The media runs between the ports of the last answer to SETUP, unless that came
\* while it was running or the answer to M3 came after it.
MediaOnTheAnsweredPorts ==
  (media # NoFormat /\ replied # NoFormat /\ ~replied.playing /\ ~replied.overtaken) =>
    media.source = replied.source /\ media.sink = replied.sink

\* The pair of ports answered to SETUP is even and shares none with the sink's; it
\* lies at most five above the requested one, and beyond the last port there is
\* only if that is among the last.
PortsApart ==
  replied # NoFormat =>
    LET pair == {replied.source, replied.source + 1}
        its  == {replied.sink[1], IF replied.sink[2] = 0 THEN replied.sink[1] + 1
                                  ELSE replied.sink[2]}
    IN /\ replied.source % 2 = 0 /\ pair \cap its = {}
       /\ replied.source \in media_config.source_port..(media_config.source_port + 5)
       /\ replied.source > 65534 => media_config.source_port > 65529

\* The media runs between ports that both sides know and that do not overlap.
PortsAsAgreed == MediaOnTheAnsweredPorts /\ PortsApart

\* R2 is negotiated only when R1 is missing or R2 gives a better mode: one tried
\* earlier than that of R1, or any where R1 has only a forced one.
Place(c, mode) == CHOOSE i \in 1..Len(Tried(c)) :
                    Tried(c)[i] = mode /\ \A j \in 1..(i - 1) : Tried(c)[j] # mode
R2OnlyWhenBetter ==
  (sink_r2 /\ passed_over # NoFormat) =>
    LET c    == media_config
        one  == _choose_cea_mode(c, passed_over)
        two  == _choose_cea_mode(c, sink_video_format)
    IN /\ supports(two, sink_video_format)
       /\ ~supports(one, passed_over) \/ Place(c, two) < Place(c, one)
=============================================================================
