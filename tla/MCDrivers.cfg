SPECIFICATION DriversSpec
CONSTANTS
  VideoSize = 2
  AudioSize = 1
  Interval = 2
  CCMod = 3
  Wrap = 10
  Lead = 2
  Room = 2
  FirstRoom = 1
  FrameBytes = {3}
  SampleBytes = {2}
  Instants = {0, 1, 10, 11}
  MaxLag = 1
  MaxVideo = 3
  MaxAudio = 2
  Streams <- MCStreams
  MaxPacket = 6
  SinkWidth = 4
  MonitorWidth = 6
  MaxId = 2
  MaxConns = 2
INVARIANTS DriversTypeOK StreamWhole ChunksDoNotMatter FingerAsTold
PROPERTIES StampsInOrder MuxStops StopIsFinal
CHECK_DEADLOCK FALSE
