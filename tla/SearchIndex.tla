---------------------------- MODULE SearchIndex ----------------------------
(***************************************************************************)
(* What the index promises to a reader (vector and BM25 search join chunks *)
(* to documents with index_status = 'indexed'): a document contributes     *)
(* nothing or exactly one published version, a complete set of chunks.  A  *)
(* version is first retracted before another one is published.             *)
(***************************************************************************)
CONSTANTS Paths, Published, Nothing

VARIABLE served   \* path -> Nothing or the version searches can return

Init == served = [p \in Paths |-> Nothing]

\* Some documents become searchable; what was searchable stays as it was.
Publish ==
  /\ served' \in [Paths -> Published \cup {Nothing}]
  /\ \A p \in Paths : served[p] # Nothing => served'[p] = served[p]

\* Some documents disappear from search.
Retract ==
  /\ served' \in [Paths -> Published \cup {Nothing}]
  /\ \A p \in Paths : served'[p] \in {served[p], Nothing}

Next == Publish \/ Retract

Spec == Init /\ [][Next]_served
=============================================================================
