\* A note that can never be embedded, next to one that can.
SPECIFICATION FairSpec
CONSTANTS
  note = note
  long = long
  empty = empty
  broke = broke
  huge = huge
  upgraded = upgraded
  Absent = Absent
  NoConfig = NoConfig
  Paths = {1, 2}
  Contents = {note, huge}
  Configs = {k1}
  Runs = {r1}
  Gens = {g1, g2}
  ChunkCount <- MCChunkCount
  Version <- MCVersion
  Unparsable = {}
  Oversized = {huge}
  ScanStages = {}
  MaxEdits = 0
  MaxFaults = 1
PROPERTIES FailuresStayLocal
