--------------------------- MODULE MCLexicalIndex ---------------------------
(* Instances of LexicalIndex: two chunks, of one document or of two. *)
EXTENDS LexicalIndex, TLC

CONSTANTS d1, d2, a, b

OnlyOne == [s \in Slots |-> d1]
OneEach == [s \in Slots |-> IF s < 2 THEN d1 ELSE d2]

NoneOrTwo == {{}, {a}, {a, b}}
OneOrTwo  == {{a}, {a, b}}

\* Ids and refreshes are only compared.
Twins == Permutations(Ids) \cup Permutations(Refreshers)
=============================================================================
