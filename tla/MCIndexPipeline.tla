-------------------------- MODULE MCIndexPipeline --------------------------
(***************************************************************************)
(* Small instances of IndexPipeline for TLC: contents that are cut into    *)
(* one chunk, two chunks or none, contents that cannot be parsed or are    *)
(* too long to embed, and one or three configurations.                     *)
(***************************************************************************)
EXTENDS IndexPipeline, TLC

CONSTANTS note, long, empty, broke, huge, upgraded

MCChunkCount == [t \in Contents |-> CASE t = long -> 2
                                      [] t = empty -> 0
                                      [] OTHER -> 1]

\* All configurations share the parser and chunking versions, but one that comes
\* with a new parser or chunker.
MCVersion == [k \in Configs |-> IF k = upgraded THEN 2 ELSE 1]

\* Generations, processes and configurations of one version are only compared:
\* safety runs may permute them.
Symmetry == Permutations(Gens) \cup Permutations(Runs)
              \cup Permutations(Configs \ {upgraded})
=============================================================================
