SPECIFICATION Spec
CONSTANTS
  Encoding = {"none", "x", "y", "s"}
  MaxDuration = 10
  BufferingDuration = 4
  QuickStartDuration = 2
  FrameInterval = 2
  SampleMaxDuration = 6
  Late = 4
  InternalSubtitle = FALSE
  Thread = {"a", "v"}
  Stream <- SplitStream
  Wants = {0}
  Lead = 2
  SeekPoints = {5, 8}
  MaxSeeks = 1
  EosTimes = {0}
  ParserMayFail = TRUE
  NewMax = {}
  NewBuffering = {}
  NewQuick = {}
  NewStyle = {}
  Lasts <- UpToTwice
INVARIANTS
  SeekLanding
  VideoStartsAtKey
  EosLast
PROPERTIES
  GateSpec
