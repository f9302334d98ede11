SPECIFICATION Spec
CONSTANTS
  Boards = {"plain", "lna", "gd"}
  Levels <- Rssi
  Samples = 2
  Threshold = 11
  RecalLimit <- RecalLimitDb
  RecalMs = 3
  Gvt = 12
  GdThreshold <- GdThresholdDb
  GdLimit <- GdLimitDb
  Unsampled <- UnsampledDb
  StatusMs = 3
  Gaps = {1, 3}
PROPERTIES FloorTracks MediumBecomesFree
