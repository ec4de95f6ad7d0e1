\* Two materializations and a search, while an index run changes two documents.
SPECIFICATION FairSpec
CONSTANTS
  d1 = d1
  d2 = d2
  Docs = {d1, d2}
  Slots = {1, 3}
  DocOf <- TwoDocs
  Ids = {i1, i2, i3}
  Absent = Absent
  Revisions = {r1}
  Indexers = {m1, m2}
  Searchers = {q1}
  BatchSize = 1
  TopK = 2
  MaxOps = 3
  MaxFaults = 1
INVARIANT RefusalsHaveACause
PROPERTIES QuietRunReconciles Converges
