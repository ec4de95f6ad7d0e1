------------------------ MODULE QdrantMaterialization ------------------------
(***************************************************************************)
(* The Qdrant collection beside PostgreSQL.  An index run ends with        *)
(* materialize_knowledge_base_qdrant, which copies the embedded chunks of  *)
(* one knowledge base to the collection, deletes the points that are left  *)
(* over and compares two counts.  A vector search asks Qdrant for points   *)
(* and PostgreSQL for their chunks, and refuses to answer when one is      *)
(* missing there.  There is no transaction over the two stores.            *)
(*                                                                         *)
(* Abstractions: a slot stands for a position (path, chunk_index); a point *)
(* is named by its chunk, as deterministic_qdrant_point_id does; one       *)
(* knowledge base and one collection; nearness is arbitrary.               *)
(***************************************************************************)
EXTENDS Integers, FiniteSets

CONSTANTS
  Docs,       \* documents
  Slots,      \* positions of chunks; numbers, in path order
  DocOf,      \* the document of a slot
  Ids,        \* chunk uuids of one slot
  Absent,     \* no chunk, no point
  Revisions,  \* fingerprints of embedding configurations
  Indexers,   \* processes that materialize
  Searchers,  \* processes that search
  BatchSize,  \* points per upsert request
  TopK,       \* points a search asks for
  MaxOps,     \* bound: transactions of the index run
  MaxFaults   \* bound: crashes, exceptions, requests that outlive their client

ASSUME SlotAssumption  == Slots \subseteq Nat /\ DocOf \in [Slots -> Docs]
ASSUME ProcessAssumption == Indexers \cap Searchers = {}
ASSUME BoundAssumption == /\ BatchSize \in Nat \ {0} /\ TopK \in Nat \ {0}
                          /\ MaxOps \in Nat /\ MaxFaults \in Nat

Points == [slot : Slots, id : Ids, rev : Revisions]
ASSUME AbsentAssumption == Absent \notin Points

VARIABLES
  status,    \* documents.index_status
  chunk,     \* chunks: slot -> its row, or Absent
  points,    \* the points of the collection
  pc,        \* where a materialization or a search is
  rev,       \* embedding_revision of its configuration
  source,    \* points load_materialization_points returned
  left,      \* those still to be upserted
  existing,  \* ids found before the upsert: the points to be deleted if stale
  found,     \* candidates of a search
  late,      \* requests the server has yet to execute: [kind, points]
  faults,
  settled,   \* a run succeeded undisturbed after the last change of the index
  calm,      \* so it was when the search began, and so it is
  alone,     \* nothing else happened since this materialization loaded
  ops

index == <<status, chunk, ops>>
work  == <<source, left, existing>>
vars  == <<status, chunk, points, pc, rev, source, left, existing, found, late,
           faults, settled, calm, alone, ops>>

Processes    == Indexers \cup Searchers
IndexStages  == {"idle", "scroll", "upsert", "count"}
SearchStages == {"idle", "fetch", "answered", "refused"}

----------------------------------------------------------------------------
Init ==
  /\ status = [d \in Docs |-> "other"]
  /\ chunk = [s \in Slots |-> Absent]
  /\ points = {}
  /\ pc = [p \in Processes |-> "idle"]
  /\ rev = [p \in Processes |-> Absent]
  /\ source = [m \in Indexers |-> {}]
  /\ left = [m \in Indexers |-> {}]
  /\ existing = [m \in Indexers |-> {}]
  /\ found = [q \in Searchers |-> {}]
  /\ late = {}
  /\ faults = 0
  /\ settled = FALSE
  /\ calm = [q \in Searchers |-> FALSE]
  /\ alone = [m \in Indexers |-> FALSE]
  /\ ops = 0

SlotsOf(d) == {s \in Slots : DocOf[s] = d}

\* The embedded chunks of indexed documents, whatever their configuration.
Searchable == {chunk[s] : s \in {u \in Slots : /\ chunk[u] # Absent
                                               /\ status[DocOf[u]] = "indexed"}}

\* Mutant of Wanted: documents outside the index are not excluded.
WantedAnyStatus(r) == {c \in {chunk[s] : s \in Slots} \ {Absent} : c.rev = r}

\* The rows of the SELECT in load_materialization_points.
Wanted(r) == {c \in Searchable : c.rev = r}

(***************************************************************************)
(* Transactions of the index run before and beside the materialization.    *)
(***************************************************************************)
Changed ==
  /\ ops < MaxOps
  /\ ops' = ops + 1
  /\ settled' = FALSE
  /\ calm' = [q \in Searchers |-> FALSE]
  /\ alone' = [m \in Indexers |-> FALSE]
  /\ UNCHANGED <<points, pc, rev, work, found, late, faults>>

\* An id is used once: no store and no process remembers another chunk by it.
Fresh(c) ==
  /\ chunk[c.slot] # Absent => chunk[c.slot].id # c.id
  /\ \A p \in points \cup UNION {l.points : l \in late} :
       p.slot = c.slot => p.id # c.id
  /\ \A m \in Indexers : \A p \in source[m] \cup existing[m] :
       p.slot = c.slot => p.id # c.id
  /\ \A q \in Searchers : \A p \in found[q] : p.slot = c.slot => p.id # c.id

\* replace_document_chunks; all chunks are embedded when MarkIndexed follows.
Store(d, r) ==
  /\ Changed
  /\ status[d] # "indexed"
  /\ \E id \in Ids, kept \in SUBSET SlotsOf(d) :
       LET row(s) == [slot |-> s, id |-> id, rev |-> r]
       IN /\ \A s \in kept : Fresh(row(s))
          /\ chunk' = [s \in Slots |-> IF s \in kept THEN row(s)
                                       ELSE IF s \in SlotsOf(d) THEN Absent
                                       ELSE chunk[s]]
  /\ status' = [status EXCEPT ![d] = "embedded"]

MarkIndexed(d) ==
  /\ Changed
  /\ status[d] = "embedded"
  /\ status' = [status EXCEPT ![d] = "indexed"]
  /\ UNCHANGED chunk

\* Pending, failed or deleted: the old chunks stay until they are replaced.
MarkOther(d) ==
  /\ Changed
  /\ status[d] # "other"
  /\ status' = [status EXCEPT ![d] = "other"]
  /\ UNCHANGED chunk

----------------------------------------------------------------------------
(***************************************************************************)
(* materialize_knowledge_base_qdrant.                                      *)
(***************************************************************************)
Goto(p, stage) == pc' = [pc EXCEPT ![p] = stage]

\* A step of m that the others may notice in the collection.
Disturbs(m) == alone' = [o \in Indexers |-> o = m /\ alone[o]]

Load(m, r) ==
  /\ pc[m] = "idle"
  /\ rev' = [rev EXCEPT ![m] = r]
  /\ source' = [source EXCEPT ![m] = Wanted(r)]
  /\ left' = [left EXCEPT ![m] = Wanted(r)]
  /\ alone' = [alone EXCEPT ![m] =
                 late = {} /\ \A o \in Indexers : pc[o] = "idle"]
  /\ Goto(m, "scroll")
  /\ UNCHANGED <<index, points, existing, found, late, faults, settled, calm>>

\* _knowledge_base_point_ids: every point, whatever its revision.
Scroll(m) ==
  /\ pc[m] = "scroll"
  /\ existing' = [existing EXCEPT ![m] = points]
  /\ Goto(m, "upsert")
  /\ UNCHANGED <<index, points, rev, source, left, found, late, faults, settled,
                 calm, alone>>

\* The next batch, in the order of the SELECT.
BatchOf(m) ==
  {p \in left[m] : Cardinality({o \in left[m] : o.slot < p.slot}) < BatchSize}

\* A point with the same id is overwritten.
Upserted(new) ==
  {p \in points : \A n \in new : <<n.slot, n.id>> # <<p.slot, p.id>>} \cup new

Upsert(m) ==
  /\ pc[m] = "upsert"
  /\ left[m] # {}
  /\ points' = Upserted(BatchOf(m))
  /\ left' = [left EXCEPT ![m] = @ \ BatchOf(m)]
  /\ Disturbs(m)
  /\ UNCHANGED <<index, pc, rev, source, existing, found, late, faults, settled,
                 calm>>

\* Mutant of StaleIds: only points of documents that were loaded are replaced.
StaleIdsOfLoaded(m) ==
  {p \in existing[m] \ source[m] :
     \E c \in source[m] : DocOf[c.slot] = DocOf[p.slot]}

\* existing_ids - expected_ids.
StaleIds(m) == existing[m] \ source[m]

Delete(m) ==
  /\ pc[m] = "upsert"
  /\ left[m] = {}
  /\ points' = points \ StaleIds(m)
  /\ IF StaleIds(m) = {} THEN UNCHANGED alone ELSE Disturbs(m)
  /\ Goto(m, "count")
  /\ UNCHANGED <<index, rev, work, found, late, faults, settled, calm>>

Reset(m) ==
  /\ Goto(m, "idle")
  /\ rev' = [rev EXCEPT ![m] = Absent]
  /\ source' = [source EXCEPT ![m] = {}]
  /\ left' = [left EXCEPT ![m] = {}]
  /\ existing' = [existing EXCEPT ![m] = {}]
  /\ UNCHANGED <<index, found>>

\* QdrantMaterializationResult.valid.
Valid(m) == Cardinality(points) = Cardinality(source[m])

\* The index run goes on and reports success.
Succeed(m) ==
  /\ pc[m] = "count"
  /\ Valid(m)
  /\ settled' = (settled \/ alone[m])
  /\ Reset(m)
  /\ UNCHANGED <<points, late, faults, calm, alone>>

Mismatch(m) ==
  /\ pc[m] = "count"
  /\ ~Valid(m)
  /\ Reset(m)
  /\ UNCHANGED <<points, late, faults, settled, calm, alone>>

\* An exception or a crash between two requests.
Abandon(m) ==
  /\ faults < MaxFaults
  /\ pc[m] # "idle"
  /\ faults' = faults + 1
  /\ Reset(m)
  /\ UNCHANGED <<points, late, settled, calm, alone>>

\* The client gives up on a request, and the server still executes it some day.
TimeOut(m) ==
  /\ faults < MaxFaults
  /\ pc[m] = "upsert"
  /\ left[m] # {} \/ StaleIds(m) # {}
  /\ faults' = faults + 1
  /\ late' = late \cup
       {IF left[m] # {} THEN [kind |-> "upsert", points |-> BatchOf(m)]
                        ELSE [kind |-> "delete", points |-> StaleIds(m)]}
  /\ Reset(m)
  /\ alone' = [o \in Indexers |-> FALSE]
  /\ UNCHANGED <<points, settled, calm>>

Land(l) ==
  /\ l \in late
  /\ late' = late \ {l}
  /\ points' = IF l.kind = "upsert" THEN Upserted(l.points)
                                    ELSE points \ l.points
  /\ alone' = [o \in Indexers |-> FALSE]
  /\ UNCHANGED <<index, pc, rev, work, found, faults, settled, calm>>

----------------------------------------------------------------------------
(***************************************************************************)
(* _search_vector_candidates with OPK_RAG_VECTOR_BACKEND=qdrant.           *)
(***************************************************************************)
Query(q, r) ==
  /\ pc[q] = "idle"
  /\ LET matching == {p \in points : p.rev = r}
     IN \E top \in SUBSET matching :
          /\ IF Cardinality(matching) < TopK THEN top = matching
                                             ELSE Cardinality(top) = TopK
          /\ found' = [found EXCEPT ![q] = top]
  /\ rev' = [rev EXCEPT ![q] = r]
  /\ calm' = [calm EXCEPT ![q] = settled]
  /\ Goto(q, "fetch")
  /\ UNCHANGED <<index, points, work, late, faults, settled, alone>>

\* get_chunks_by_ids_for_search returns the searchable ones among them; one that
\* is missing fails the search.
Fetch(q) ==
  /\ pc[q] = "fetch"
  /\ Goto(q, IF found[q] \subseteq Searchable THEN "answered" ELSE "refused")
  /\ UNCHANGED <<index, points, rev, work, found, late, faults, settled, calm,
                 alone>>

EndSearch(q) ==
  /\ pc[q] \in {"answered", "refused"}
  /\ Goto(q, "idle")
  /\ rev' = [rev EXCEPT ![q] = Absent]
  /\ found' = [found EXCEPT ![q] = {}]
  /\ calm' = [calm EXCEPT ![q] = FALSE]
  /\ UNCHANGED <<index, points, work, late, faults, settled, alone>>

----------------------------------------------------------------------------
Proceed(m) == Scroll(m) \/ Upsert(m) \/ Delete(m) \/ Succeed(m) \/ Mismatch(m)

Next ==
  \/ \E d \in Docs : MarkIndexed(d) \/ MarkOther(d)
  \/ \E d \in Docs, r \in Revisions : Store(d, r)
  \/ \E m \in Indexers : \/ \E r \in Revisions : Load(m, r)
                         \/ Proceed(m) \/ Abandon(m) \/ TimeOut(m)
  \/ \E l \in late : Land(l)
  \/ \E q \in Searchers : \/ \E r \in Revisions : Query(q, r)
                          \/ Fetch(q) \/ EndSearch(q)

Spec == Init /\ [][Next]_vars

\* The user repeats the run; requests and processes go on.
FairSpec == /\ Spec
            /\ \A m \in Indexers : /\ WF_vars(Proceed(m))
                                    /\ WF_vars(\E r \in Revisions : Load(m, r))
            /\ WF_vars(\E l \in late : Land(l))

----------------------------------------------------------------------------
(***************************************************************************)
(* Properties.                                                             *)
(***************************************************************************)

\* Types; every point carries its revision; requests upsert what was loaded.
TypeOK ==
  /\ status \in [Docs -> {"other", "embedded", "indexed"}]
  /\ chunk \in [Slots -> Points \cup {Absent}]
  /\ points \subseteq Points
  /\ pc \in [Processes -> IndexStages \cup SearchStages]
  /\ rev \in [Processes -> Revisions \cup {Absent}]
  /\ source \in [Indexers -> SUBSET Points]
  /\ left \in [Indexers -> SUBSET Points]
  /\ existing \in [Indexers -> SUBSET Points]
  /\ found \in [Searchers -> SUBSET Points]
  /\ late \in SUBSET [kind : {"upsert", "delete"}, points : SUBSET Points]
  /\ settled \in BOOLEAN
  /\ calm \in [Searchers -> BOOLEAN]
  /\ alone \in [Indexers -> BOOLEAN]
  /\ \A m \in Indexers : left[m] \subseteq source[m]

Succeeds(m) == pc[m] = "count" /\ pc'[m] = "idle" /\ Valid(m) /\ faults' = faults

\* A run nobody disturbs leaves exactly the searchable chunks of its revision,
\* whatever crashes, timeouts and other runs left in the collection before.
QuietRunReconciles ==
  [][\A m \in Indexers : Succeeds(m) /\ alone[m] =>
       points = {c \in Searchable : c.rev = rev[m]}]_vars

\* A search fails closed only if the index changed after the last undisturbed
\* run: later runs, even if they crash or time out, do not break searches.
RefusalsHaveACause ==
  \A q \in Searchers : pc[q] = "refused" => ~calm[q]

\* Once changes and faults have ended and every run uses one revision, repeated
\* runs make the collection the index and keep it so, whatever points crashes,
\* late requests and runs of other revisions left (materialization.py:50-57).
Converges ==
  \A r \in Revisions :
    <>[](\A m \in Indexers : rev[m] \in {r, Absent}) => <>[](points = Wanted(r))

=============================================================================
