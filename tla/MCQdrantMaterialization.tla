----------------------- MODULE MCQdrantMaterialization -----------------------
(* Instance of QdrantMaterialization: two documents of one chunk each. *)
EXTENDS QdrantMaterialization, TLC

CONSTANTS d1, d2

TwoDocs == [s \in Slots |-> IF s < 3 THEN d1 ELSE d2]
=============================================================================
