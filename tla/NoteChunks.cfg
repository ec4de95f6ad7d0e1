SPECIFICATION Spec
CONSTANT Kinds = {"h1", "h2", "text", "stop", "item", "fence", "tilde", "blank"}
CONSTANT Size <- Short
CONSTANT TargetSize = 5
CONSTANT MaxSize = 10
CONSTANT MaxLines = 5
CHECK_DEADLOCK FALSE
INVARIANT TextIsKept
INVARIANT ChunksFit
INVARIANT NoNeedlessCut
INVARIANT WholeSectionsAreLocated
INVARIANT SetApartCodeIsWhole
