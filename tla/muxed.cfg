SPECIFICATION Spec
CONSTANTS
  Encoding = {"none", "x", "y", "s"}
  MaxDuration = 5
  BufferingDuration = 2
  QuickStartDuration = 1
  FrameInterval = 1
  SampleMaxDuration = 3
  Late = 2
  InternalSubtitle = FALSE
  Thread = {"av"}
  Stream <- MuxedStream
  Wants = {0, 4}
  Lead = 1
  SeekPoints = {2, 5}
  MaxSeeks = 1
  EosTimes = {0, 8}
  ParserMayFail = FALSE
  NewMax = {}
  NewBuffering = {}
  NewQuick = {}
  NewStyle = {}
  Lasts <- UpToTwice
INVARIANTS
  TypeOK
  AudioGapless
  FormatMatches
  VideoDecodable
  AudioNotOverstated
PROPERTIES
  PlaysOut
