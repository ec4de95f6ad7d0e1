\* One run at a time on two notes, under three configurations; crashes, failures.
SPECIFICATION Spec
CONSTANTS
  note = note
  long = long
  empty = empty
  broke = broke
  huge = huge
  upgraded = upgraded
  Absent = Absent
  NoConfig = NoConfig
  Paths = {1, 2}
  Contents = {long, empty, huge}
  Configs = {k1, k2, upgraded}
  Runs = {r1}
  Gens = {g1, g2}
  ChunkCount <- MCChunkCount
  Version <- MCVersion
  Unparsable = {}
  Oversized = {huge}
  ScanStages = {"hash", "discover"}
  MaxEdits = 2
  MaxFaults = 1
SYMMETRY Symmetry
INVARIANTS TypeOK IndexedMatchesHash
PROPERTIES CompletedServesVersion CompletedMeansUpToDate OnlyGoneNotesAreDeleted
