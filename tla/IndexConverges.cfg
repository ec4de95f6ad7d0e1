\* Repeated runs after edits and faults have ended.
SPECIFICATION FairSpec
CONSTANTS
  note = note
  long = long
  empty = empty
  broke = broke
  huge = huge
  upgraded = upgraded
  Absent = Absent
  NoConfig = NoConfig
  Paths = {1, 2}
  Contents = {note, long, broke}
  Configs = {k1}
  Runs = {r1}
  Gens = {g1, g2}
  ChunkCount <- MCChunkCount
  Version <- MCVersion
  Unparsable = {broke}
  Oversized = {}
  ScanStages = {"hash", "discover"}
  MaxEdits = 1
  MaxFaults = 1
PROPERTIES Converges
