SPECIFICATION FairSpec
CONSTANT q1 = q1
CONSTANT q2 = q2
CONSTANT Queries = {q1, q2}
CONSTANT MaxEvidence = 2
CONSTANT SignalVerdicts = {"answerable", "insufficient_evidence"}
CONSTANT MaxTransportRetries = 1
CHECK_DEADLOCK FALSE
INVARIANT TypeOK
INVARIANT ResultIsBuilt
INVARIANT BudgetsAreKept
INVARIANT FinishIsGrounded
INVARIANT ReportsAgree
PROPERTY RunEnds
