\* Two refreshes and an index run on the two chunks of one document.
SPECIFICATION Spec
CONSTANTS
  d1 = d1
  d2 = d2
  a = a
  b = b
  Docs = {d1}
  Slots = {1, 2}
  DocOf <- OnlyOne
  Ids = {i1, i2}
  NoId = NoId
  Terms = {a, b}
  Texts <- OneOrTwo
  Configs = {k1}
  NoConfig = NoConfig
  Refreshers = {t1, t2}
  BatchSize = 1
  MaxOps = 5
SYMMETRY Twins
INVARIANTS ReadyFindsEveryChunk CorpusMatchesStats
