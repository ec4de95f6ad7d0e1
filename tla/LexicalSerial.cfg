\* One refresh at a time under two configurations, while an index run changes the
\* chunks of two documents.
SPECIFICATION FairSpec
CONSTANTS
  d1 = d1
  d2 = d2
  a = a
  b = b
  Docs = {d1, d2}
  Slots = {1, 2}
  DocOf <- OneEach
  Ids = {i1, i2}
  NoId = NoId
  Terms = {a, b}
  Texts <- NoneOrTwo
  Configs = {k1, k2}
  NoConfig = NoConfig
  Refreshers = {t1}
  BatchSize = 1
  MaxOps = 5
PROPERTIES QuietRefreshServes RebuildIsExact RefreshEnds
