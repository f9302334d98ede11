SPECIFICATION LiveSpec
CONSTANTS
  SlotMs = 1
  CwBands = 3
  CwPerBand = 3
  AirtimePcts = {5, 20, 90}
  Gaps = {1, 3}
  Interruptions = TRUE
PROPERTIES DifsHonoured FreshCwHonoured EventuallySent
