\* Two index processes on the same vault of two notes.
SPECIFICATION Spec
CONSTANTS
  note = note
  long = long
  empty = empty
  broke = broke
  huge = huge
  upgraded = upgraded
  Absent = Absent
  NoConfig = NoConfig
  Paths = {1, 2}
  Contents = {note, empty}
  Configs = {k1}
  Runs = {r1, r2}
  Gens = {g1, g2, g3}
  ChunkCount <- MCChunkCount
  Version <- MCVersion
  Unparsable = {}
  Oversized = {}
  ScanStages = {}
  MaxEdits = 1
  MaxFaults = 1
SYMMETRY Symmetry
INVARIANTS SearchableComplete HeldMarksJustified 
PROPERTIES ImplementsSearchIndex
