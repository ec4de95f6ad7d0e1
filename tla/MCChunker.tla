------------------------------ MODULE MCChunker ------------------------------
(* Instances of Chunker: lines of about the same, short length. *)
EXTENDS Chunker

Short == [k \in Kinds |-> CASE k = "blank" -> 0 [] k = "text" -> 2 [] OTHER -> 3]
=============================================================================
