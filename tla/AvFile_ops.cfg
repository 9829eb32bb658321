\* A handle opened for reading (read, seek, flush and close against the reader thread) or for writing, with or without video (audio writes, images from the video caller, pause and resume, close).
CONSTANTS
  FileLen = 3
  NativeRate = 2
  Targets = {1, 2}
  BufHigh = 1
  ReadMax = 1
  DecodeMayFail = TRUE
  Modes = {"read", "write"}
  Frame = 2
  WriteLens = {1, 3}
  Offsets = {0, 2}
  ErrLimit = 1
  MaxBacklog = 7
  HeaderMayFail = TRUE
  EncodeMayFail = TRUE
  VideoModes = {FALSE, TRUE}
  VideoFrames = 3
  SkipAbove = 0
  SkipHard = 2
  MaxTime = 2
SPECIFICATION Spec
INVARIANTS
  TypeOK
  AudioInFileOrder
  TailBounded
PROPERTIES
  CloseEndsThread
  VideoThreadJoined
