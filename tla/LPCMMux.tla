------------------------------ MODULE LPCMMux ------------------------------
(***************************************************************************)
(* The Python transport stream multiplexer used for the Microsoft adapter  *)
(* (drivers/wfd_lpcm_mux.py) and the loop that tries it                    *)
(* (wfd/media/portal.py): two GStreamer threads fill a video and an audio  *)
(* queue, the mux thread takes one video frame, drains the audio that has  *)
(* come meanwhile and sends both as one batch; the owner starts the muxer, *)
(* probes it and stops it.                                                 *)
(* Clocks count ticks; PTS and PCR wrap at Wrap (2^33 in the code),        *)
(* continuity counters at CCMod (16).  What a packet carries is left out,  *)
(* its PID, its counter and the frame's time stamps are kept.              *)
(***************************************************************************)
EXTENDS Integers, Sequences, SequencesExt

CONSTANTS VideoSize, AudioSize,  \* capacities of the two queues: 120 and 240
          Interval,              \* video frames between two PAT/PMT pairs: 30
          CCMod, Wrap, Lead,     \* 16, 2^33 and 9000
          Room, FirstRoom,       \* payload of a TS packet, 184, and with a PCR, 176
          FrameBytes, SampleBytes,  \* sizes of a video and of an audio PES
          Instants,              \* the readings of the clock a run looks at
          MaxVideo, MaxAudio, MaxLag   \* bounds of the runs

ASSUME MuxAssumption ==
  /\ {VideoSize, AudioSize, Lead, FirstRoom, MaxVideo, MaxAudio, MaxLag} \subseteq Nat
  /\ {Interval, CCMod, Wrap, Room} \subseteq Nat \ {0}
  /\ FrameBytes \subseteq Nat /\ SampleBytes \subseteq Nat /\ Instants \subseteq Nat

VARIABLES owner, muxing, thread, playing, closed,
          now, videoQ, audioQ, mapped, arrived, dropped,
          wallStart, offset, counter, cc, batch, wire, last,
          framesSent, audioSent, collector

ownerVars == <<owner, closed, playing>>
queueVars == <<videoQ, audioQ, mapped, arrived, dropped>>
loopVars == <<thread, wallStart, offset, counter, cc, batch, wire, last,
              framesSent, audioSent, collector>>
muxVars == <<ownerVars, queueVars, loopVars, muxing, now>>

PIDs == {"pat", "pmt", "video", "audio"}
None == -1
NothingSent == [pts |-> None, pcr |-> None, gst |-> None, missing |-> FALSE,
                unbased |-> FALSE, late |-> FALSE, wrapped |-> FALSE]

Fresh ==
  /\ muxing = FALSE /\ thread = "none" /\ playing = FALSE /\ closed = FALSE
  /\ videoQ = <<>> /\ audioQ = <<>> /\ mapped = 0
  /\ arrived = [v |-> 0, a |-> 0, gst |-> 0] /\ dropped = 0
  /\ wallStart = None /\ offset = None /\ counter = 0
  /\ cc = [p \in PIDs |-> 0] /\ batch = <<>> /\ wire = [p \in PIDs |-> None]
  /\ last = NothingSent /\ framesSent = 0 /\ audioSent = 0 /\ collector = TRUE

MuxInit == /\ owner = "idle" /\ now = 0
           /\ Fresh

Owner(from, to) == owner = from /\ owner' = to
Goes(from, to) == thread = from /\ thread' = to

-----------------------------------------------------------------------------
(* The owner: one attempt per selector and caps, each with its own muxer.   *)

\* start(): parse_launch raises, here for the last selector and caps; before the
\* last one the next attempt's muxer is as fresh as this one.
StartRaises ==
  /\ Owner("idle", "failed")
  /\ UNCHANGED <<closed, playing, queueVars, loopVars, muxing, now>>

StartThread ==
  /\ Owner("idle", "play")
  /\ muxing' = TRUE
  /\ Goes("none", "check") /\ collector' = FALSE
  /\ UNCHANGED <<closed, playing, queueVars, now, wallStart,
                 offset, counter, cc, batch, wire, last, framesSent, audioSent>>

Play ==
  /\ Owner("play", "probe") /\ playing' = TRUE
  /\ UNCHANGED <<closed, queueVars, loopVars, muxing, now>>

\* The 2.5 s and 3 s probes ask only whether the mux thread is alive.
Probe ==
  /\ Owner("probe", "streaming")
  /\ thread # "done"
  /\ UNCHANGED <<closed, playing, queueVars, loopVars, muxing, now>>

StopMuxing ==
  /\ Owner("streaming", "quiet")
  /\ muxing' = FALSE
  /\ UNCHANGED <<closed, playing, queueVars, loopVars, now>>

\* set_state(NULL) returns when the pipelines' streaming threads have ended.
Quiet ==
  /\ Owner("quiet", "join") /\ playing' = FALSE
  /\ UNCHANGED <<closed, queueVars, loopVars, muxing, now>>

\* join(3 s) may time out: the socket is closed whether the loop has ended or not.
\* mutant: the socket stays open
JoinKeepsSocket ==
  /\ Owner("join", "stopped")
  /\ UNCHANGED <<closed, playing, queueVars, loopVars, muxing, now>>
Join ==
  /\ Owner("join", "stopped")
  /\ closed' = TRUE
  /\ UNCHANGED <<playing, queueVars, loopVars, muxing, now>>

-----------------------------------------------------------------------------
(* The appsink callbacks.                                                   *)

\* Stamped at capture, in order; a buffer without a stamp counts as 0.
VideoSample(gst, missing) ==
  LET frame == [gst |-> IF missing THEN 0 ELSE gst, missing |-> missing]
  IN /\ playing /\ gst + MaxLag >= now
     /\ arrived.v < MaxVideo
     /\ arrived' = [arrived EXCEPT !.v = @ + 1, !.gst = gst]
     /\ \/ Len(videoQ) < VideoSize /\ videoQ' = Append(videoQ, frame) /\ UNCHANGED dropped
        \/ Len(videoQ) = VideoSize /\ dropped' = dropped + 1 /\ UNCHANGED videoQ
     /\ UNCHANGED <<ownerVars, loopVars, muxing, now, audioQ, mapped>>

\* put(block=False) raises Full out of the callback: the buffer stays mapped.
AudioSample ==
  /\ playing
  /\ arrived.a < MaxAudio
  /\ arrived' = [arrived EXCEPT !.a = @ + 1]
  /\ \/ Len(audioQ) < AudioSize /\ audioQ' = Append(audioQ, now) /\ UNCHANGED mapped
     \/ Len(audioQ) = AudioSize /\ mapped' = mapped + 1 /\ UNCHANGED audioQ
  /\ UNCHANGED <<ownerVars, loopVars, muxing, now, videoQ, dropped>>

\* The origin is the first buffer.  Bound: no frame waits longer than MaxLag,
\* far below half a period of the clock.
Tick == /\ arrived.v + arrived.a > 0
        /\ \E t \in Instants : t > now /\ now' = t
        /\ \A k \in DOMAIN videoQ : videoQ[k].missing \/ now' - videoQ[k].gst <= MaxLag
        /\ UNCHANGED <<ownerVars, queueVars, loopVars, muxing>>

-----------------------------------------------------------------------------
(* The mux thread.                                                          *)

\* TS packets a PES of that size fills; the first of a video frame carries the PCR.
PacketCount(pid, size) ==
  LET first == IF pid = "video" THEN FirstRoom ELSE Room
  IN IF size <= first THEN 1 ELSE 1 + (size - first + Room - 1) \div Room

\* n packets of one PES, numbered on from its PID's counter.
Packets(pid, n) == [k \in 1..n |-> [pid |-> pid, cc |-> (cc[pid] + k - 1) % CCMod]]
\* mutant: the PMT counter is never advanced
AdvanceNotPMT(counters, pid, n) ==
  IF pid = "pmt" THEN counters ELSE [counters EXCEPT ![pid] = (@ + n) % CCMod]
Advance(counters, pid, n) == [counters EXCEPT ![pid] = (@ + n) % CCMod]

Check ==
  /\ thread = "check"
  /\ \/ muxing /\ thread' = "get" /\ UNCHANGED collector
     \/ ~muxing /\ thread' = "done" /\ collector' = TRUE
  /\ UNCHANGED <<ownerVars, queueVars, muxing, now, wallStart, offset, counter, cc,
                 batch, wire, last, framesSent, audioSent>>

GetTimesOut ==
  /\ videoQ = <<>> /\ Goes("get", "check")
  /\ UNCHANGED <<ownerVars, queueVars, muxing, now, wallStart, offset, counter, cc,
                 batch, wire, last, framesSent, audioSent, collector>>

\* The clock wraps within MaxLag, or has.
Wraps(time) == (time % Wrap) + MaxLag >= Wrap \/ (time >= Wrap /\ time % Wrap < MaxLag)

\* mutant: a frame exactly on the clock counts as late
StampOnTimePushed(frame, start, base) ==
  LET pcr == (now - start) % Wrap
      own == ((frame.gst % Wrap) - base) % Wrap
  IN [pts |-> IF own <= pcr THEN (pcr + Lead) % Wrap ELSE own,
      pcr |-> pcr, gst |-> frame.gst, missing |-> frame.missing,
      unbased |-> IF last = NothingSent THEN frame.missing ELSE last.unbased,
      late |-> own < pcr, wrapped |-> Wraps(now - start)]

Stamp(frame, start, base) ==
  LET pcr == (now - start) % Wrap
      own == ((frame.gst % Wrap) - base) % Wrap
  IN [pts |-> IF own < pcr THEN (pcr + Lead) % Wrap ELSE own,
      pcr |-> pcr, gst |-> frame.gst, missing |-> frame.missing,
      unbased |-> IF last = NothingSent THEN frame.missing ELSE last.unbased,
      late |-> own < pcr, wrapped |-> Wraps(now - start)]

Tables == counter % Interval = 0

\* Each table is one section that fits in one packet.
TablePair == Packets("pat", 1) \o Packets("pmt", 1)

\* The next frame and its video PES, after PAT and PMT when their turn has come.
Frame ==
  /\ videoQ # <<>> /\ Goes("get", "drain")
  /\ videoQ' = Tail(videoQ)
  /\ wallStart' = IF wallStart = None THEN now ELSE wallStart
  /\ offset' = IF wallStart = None THEN videoQ[1].gst % Wrap ELSE offset
  /\ last' = Stamp(videoQ[1], wallStart', offset')
  /\ \E size \in FrameBytes :
       LET n == PacketCount("video", size)
           tables == IF Tables THEN TablePair ELSE <<>>
           told == IF Tables THEN Advance(Advance(cc, "pat", 1), "pmt", 1) ELSE cc
       IN /\ batch' = tables \o Packets("video", n)
          /\ cc' = Advance(told, "video", n)
  /\ counter' = counter + 1
  /\ framesSent' = framesSent + 1
  /\ UNCHANGED <<ownerVars, audioQ, mapped, arrived, dropped, muxing, now, wire, audioSent,
                 collector>>

\* Audio older than the first video frame is discarded, and counted as sent.
Drain ==
  /\ thread = "drain" /\ audioQ # <<>>
  /\ audioQ' = Tail(audioQ)
  /\ audioSent' = audioSent + 1
  /\ \/ Head(audioQ) < wallStart /\ UNCHANGED <<batch, cc>>
     \/ /\ Head(audioQ) >= wallStart
        /\ \E size \in SampleBytes :
             /\ batch' = batch \o Packets("audio", PacketCount("audio", size))
             /\ cc' = Advance(cc, "audio", PacketCount("audio", size))
  /\ UNCHANGED <<ownerVars, videoQ, mapped, arrived, dropped, muxing, now, thread,
                 wallStart, offset, counter, wire, last, framesSent, collector>>

\* The counter of the last packet of a PID before that place of the batch, or sent.
Before(pid, place) ==
  LET its == {k \in DOMAIN batch : k < place /\ batch[k].pid = pid}
  IN IF its = {} THEN wire[pid] ELSE batch[Max(its)].cc

\* A closed socket makes sendto raise OSError, which _send swallows.
Send ==
  /\ Goes("drain", "check") /\ audioQ = <<>>
  /\ batch' = <<>>
  /\ wire' = IF closed THEN wire ELSE [p \in PIDs |-> Before(p, Len(batch) + 1)]
  /\ UNCHANGED <<ownerVars, queueVars, muxing, now, wallStart, offset, counter, cc,
                 last, framesSent, audioSent, collector>>

Loop == Check \/ GetTimesOut \/ Frame \/ Drain \/ Send

MuxNext ==
  \/ StartRaises \/ StartThread \/ Play \/ Probe \/ StopMuxing \/ Quiet \/ Join
  \/ \E gst \in arrived.gst..now, missing \in BOOLEAN : VideoSample(gst, missing)
  \/ AudioSample \/ Tick \/ Loop

MuxSpec == MuxInit /\ [][MuxNext]_muxVars
MuxFairSpec == MuxSpec /\ WF_muxVars(Loop)

-----------------------------------------------------------------------------
MuxTypeOK ==
  /\ owner \in {"idle", "play", "probe", "streaming", "quiet", "join", "stopped", "failed"}
  /\ {muxing, playing, closed, collector} \subseteq BOOLEAN
  /\ thread \in {"none", "check", "get", "drain", "done"}
  /\ now \in Instants \cup {0}
  /\ Len(videoQ) \in 0..VideoSize /\ Len(audioQ) \in 0..AudioSize
  /\ cc \in [PIDs -> 0..(CCMod - 1)] /\ wire \in [PIDs -> None..(CCMod - 1)]
  /\ mapped \in 0..MaxAudio /\ dropped \in 0..MaxVideo

\* Every frame that reached a callback is in a batch, in the queue, or
\* counted as dropped; every audio buffer the queue refused is one that was
\* never unmapped (put(block=False) outside a try, unlike the video callback).
Accounted ==
  /\ arrived.v = framesSent + dropped + Len(videoQ)
  /\ arrived.a = audioSent + mapped + Len(audioQ)

\* Ahead(a, b): time stamp a is b or later on the wrapping clock.
Ahead(a, b) == (a - b) % Wrap < Wrap \div 2

\* A video frame is never presented before its own clock reference, except while the
\* clock wraps, where the test pts < pcr compares stamps of two periods, and where a
\* buffer without a stamp counts as older than the first frame or was the first.
PTSAheadOfClock ==
  last # NothingSent => Ahead(last.pts, last.pcr) \/ last.wrapped \/ last.missing \/ last.unbased

\* Presentation times follow decoding order, except after a frame that came
\* late and was pushed Lead past the clock: the next frame that is on time may
\* be presented before it.  (Two frames half a period of the clock apart are
\* not compared.)
PTSBackwardsOnlyAfterLate ==
  [][last' # last /\ last # NothingSent
     /\ last'.gst - last.gst + Lead + MaxLag < Wrap \div 2 =>
       Ahead(last'.pts, last.pts) \/ last.late \/ last.missing \/ last'.unbased \/ last'.missing \/ last'.wrapped]_muxVars

\* The stamps a receiver sees are in order, to the clock and among each other, but
\* for the cases above.
StampsInOrder == []PTSAheadOfClock /\ PTSBackwardsOnlyAfterLate

\* Each PID's counter goes on from the last packet of that PID handed to the
\* socket, through the batch being built, to the packet built next: nothing
\* that was numbered is skipped while the socket is open.
Following(number) == IF number = None THEN 0 ELSE (number + 1) % CCMod
Continuous ==
  ~closed => /\ \A k \in DOMAIN batch : batch[k].cc = Following(Before(batch[k].pid, k))
             /\ \A p \in PIDs : cc[p] = Following(Before(p, Len(batch) + 1))

\* A receiver that joins at the first packet has the tables before any media.
TablesLead ==
  batch # <<>> /\ (wire["video"] = None /\ wire["audio"] = None /\ ~closed) => batch[1].pid = "pat"

\* The stream is whole: what the callbacks took is in it, waits or was given up
\* knowingly; no packet is missing; and it can be joined at its start.
StreamWhole == Accounted /\ Continuous /\ TablesLead

\* Once stop() has returned nothing leaves, even if the join timed out.
NothingAfterStop == [][owner = "stopped" => wire' = wire]_muxVars

\* stop() is final: nothing leaves after it, the mux thread ends, and the garbage
\* collector it switched off for the whole process is on again.
MuxStops ==
  /\ NothingAfterStop
  /\ (owner = "quiet") ~> (thread = "done" /\ collector)
=============================================================================
