SPECIFICATION Spec
CONSTANT Sessions = {s1}
CONSTANT Requests = {r1}
CONSTANT Cli = {cli1, cli2}
CONSTANT Api = {}
CONSTANT s1 = s1
CONSTANT s2 = s2
CONSTANT r1 = r1
CONSTANT r2 = r2
CONSTANT cli1 = cli1
CONSTANT cli2 = cli2
CONSTANT api1 = api1
CONSTANT api2 = api2
CONSTANT NoRequest = NoRequest
CONSTANT None = None
CONSTANT ContextTurns = 1
CONSTANT MaxAsks = 3
CONSTANT MaxFaults = 1
CHECK_DEADLOCK FALSE
SYMMETRY Symmetry
INVARIANT ShownAnswersAgree
