SPECIFICATION FairSpec
CONSTANT q1 = q1
CONSTANT q2 = q2
CONSTANT Queries = {q1, q2}
CONSTANT MaxEvidence = 1
CONSTANT SignalVerdicts = {"answerable", "partially_answerable", "unanswerable"}
CONSTANT MaxSamples = 1
CONSTANT Scores = {34, 36}
INVARIANT HarmIsNeverServed
INVARIANT ControlIsBaseline
INVARIANT AnswersAreGoverned
INVARIANT BooksAreKept
PROPERTY EvaluationIsIsolated
PROPERTY RequestsEnd
