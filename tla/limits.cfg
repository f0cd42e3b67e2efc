SPECIFICATION Spec
CONSTANTS
  Encoding = {"none", "x", "y", "s"}
  MaxDuration = 5
  BufferingDuration = 2
  QuickStartDuration = 1
  FrameInterval = 1
  SampleMaxDuration = 3
  Late = 2
  InternalSubtitle = TRUE
  Thread = {"av"}
  Stream <- UnevenStream
  Wants = {0}
  Lead = 9
  SeekPoints = {2, 5}
  MaxSeeks = 0
  EosTimes = {0, 9}
  ParserMayFail = FALSE
  NewMax = {4}
  NewBuffering = {3}
  NewQuick = {2}
  NewStyle = {"A", "AV"}
  Lasts <- UpToTwice
INVARIANTS
  NoStarvedRefusal
