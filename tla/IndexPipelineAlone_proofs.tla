---------------------- MODULE IndexPipelineAlone_proofs ----------------------
(***************************************************************************)
(* What the index run guarantees to one process at a time, for any number  *)
(* of notes, contents, configurations, edits and faults: a run reported as *)
(* completed has left all it scanned in the index, and nothing is served   *)
(* that another parser or chunker cut.                                     *)
(*                                                                         *)
(* The assumption is needed: another process may put a note back into work *)
(* between two stages.  TaskInv is what it buys, namely that the lists a   *)
(* process works through stay true of the tables until it has used them.   *)
(* ProgressInv follows a run through its stages: as long as nothing has    *)
(* failed, every scanned note is indexed, or on the list of the stage, or  *)
(* marked in the open transaction.                                         *)
(***************************************************************************)
EXTENDS IndexPipeline_proofs

Alone == \A r, o \in Runs : r = o

\* The chunking list is true of the documents.
ChunkTask(r) ==
  pc[r] \in {"chunk", "parse", "store", "replace", "fail"} =>
    \A q \in todo[r] : documents[q].status = "pending"

\* The embedding list is true of the documents, and so are the pending chunks.
EmbedTask(r) ==
  /\ pc[r] \in Embedding => \A q \in todo[r] :
       documents[q].status = "chunked" /\ q \notin marks[r]
  /\ pc[r] \in {"embed", "unsave", "unmark"} =>
       \A q \in Paths, k \in pend[r] : Current(r, q) => k[1] = q

TaskInv == \A r \in Runs : ChunkTask(r) /\ EmbedTask(r)

IsVector(p) == \A c \in Rows(p) : c.vec = c.config
Marked(p)   == \E r \in Runs : p \in marks[r]

\* A document that is or will be searchable has the vectors of the configuration
\* its rows name.
AgreeInv ==
  \A p \in Paths : documents[p].status = "indexed" \/ Marked(p) => IsVector(p)

LEMMA EmbeddingStages ==
  ASSUME IInv, NEW r \in Runs, marks[r] # {}
  PROVE  pc[r] \in {"open", "embed", "hold"}
BY DEF IInv, HeldMarksJustified, LocksClosed

LEMMA TaskStep ==
  ASSUME Alone, IInv, TaskInv, [Next]_vars
  PROVE  TaskInv'
<1> USE DEF db, local, held, env
<1> USE DEF Alone, Embedding
<1>i. TypeOK /\ RunKnown /\ LocksClosed
  BY DEF IInv
<1>1. ASSUME NEW p \in Paths, Edit(p) PROVE TaskInv'
  <2>1. ASSUME NEW r \in Runs
        PROVE  (ChunkTask(r) /\ EmbedTask(r))'
    BY <1>1, <1>i DEF Edit, TaskInv, ChunkTask, EmbedTask, Current, TypeOK
  <2>2. QED
    BY <2>1 DEF TaskInv
<1>2. ASSUME NEW r \in Runs, NEW k \in Configs, Start(r, k) PROVE TaskInv'
  BY <1>2, <1>i DEF Start, Goto, TypeOK, TaskInv, ChunkTask, EmbedTask
<1>3. ASSUME NEW r \in Runs, NEW s, NEW m, Scan(r, s, m) PROVE TaskInv'
  BY <1>3, <1>i DEF Scan, Goto, TypeOK, TaskInv, ChunkTask, EmbedTask
<1>4. ASSUME NEW r \in Runs, CommitPlan(r) PROVE TaskInv'
  BY <1>4, <1>i DEF CommitPlan, Goto, TypeOK, TaskInv, ChunkTask, EmbedTask
<1>5. ASSUME NEW r \in Runs, ApplyFails(r) PROVE TaskInv'
  BY <1>5, <1>i DEF ApplyFails, Rollback, Leave, Goto, TypeOK, TaskInv, ChunkTask, EmbedTask
<1>6. ASSUME NEW r \in Runs, PurgeDeleted(r) PROVE TaskInv'
  BY <1>6, <1>i DEF PurgeDeleted, Goto, TypeOK, TaskInv, ChunkTask, EmbedTask
<1>7. ASSUME NEW r \in Runs, ListPending(r) PROVE TaskInv'
  BY <1>7, <1>i DEF ListPending, AtVersion, Goto, TypeOK, TaskInv, ChunkTask, EmbedTask
<1>8. ASSUME NEW r \in Runs, ListChunked(r) PROVE TaskInv'
  <2>1. marks[r] = {}
    BY <1>8, EmbeddingStages DEF ListChunked
  <2>2. QED
    BY <1>8, <1>i, <2>1 DEF ListChunked, AtVersion, Goto, TypeOK, TaskInv, ChunkTask, EmbedTask
<1>9. ASSUME NEW r \in Runs, CloseEmbedding(r) PROVE TaskInv'
  BY <1>9, <1>i DEF CloseEmbedding, Goto, TypeOK, TaskInv, ChunkTask, EmbedTask
<1>10. ASSUME NEW r \in Runs, NEW f, IndexLexical(r, f) PROVE TaskInv'
  BY <1>10, <1>i DEF IndexLexical, Goto, TypeOK, TaskInv, ChunkTask, EmbedTask
<1>11. ASSUME NEW r \in Runs, Finish(r) PROVE TaskInv'
  BY <1>11, <1>i DEF Finish, Leave, Goto, TypeOK, TaskInv, ChunkTask, EmbedTask
<1>12. ASSUME NEW r \in Runs, NEW p \in Paths, CheckSource(r, p) PROVE TaskInv'
  <2>1. \A q \in Paths : Current(r, q) => q = p
    BY <1>12, <1>i, CurrentIsOne DEF CheckSource
  <2>2. \A q \in Paths : Current(r, q)' => q = p
    BY <1>12, <2>1 DEF CheckSource, Current
  <2>3. p \in todo[r] /\ UNCHANGED <<documents, hash, todo, disk>>
    BY <1>12 DEF CheckSource, Current
  <2>4. QED
    BY <1>12, <1>i, <2>2, <2>3 DEF CheckSource, Goto, TypeOK, TaskInv, ChunkTask, EmbedTask
<1>13. ASSUME NEW r \in Runs, NEW p \in Paths, Parse(r, p) PROVE TaskInv'
  <2>1. \A q \in Paths : Current(r, q) => q = p
    BY <1>13, <1>i, CurrentIsOne DEF Parse
  <2>2. \A q \in Paths : Current(r, q)' => q = p
    BY <1>13, <2>1 DEF Parse, Current
  <2>3. p \in todo[r] /\ UNCHANGED <<documents, hash, todo, disk>>
    BY <1>13 DEF Parse, Current
  <2>4. QED
    BY <1>13, <1>i, <2>2, <2>3 DEF Parse, Goto, TypeOK, TaskInv, ChunkTask, EmbedTask
<1>14. ASSUME NEW r \in Runs, NEW p \in Paths, Store(r, p) PROVE TaskInv'
  BY <1>14, <1>i DEF Store, SetStatus, Done, Goto, TypeOK, Document, TaskInv, ChunkTask, EmbedTask
<1>15. ASSUME NEW r \in Runs, StoreFails(r) PROVE TaskInv'
  BY <1>15, <1>i DEF StoreFails, Rollback, Goto, TypeOK, TaskInv, ChunkTask, EmbedTask
<1>16. ASSUME NEW r \in Runs, NEW p \in Paths, MarkFailed(r, p) PROVE TaskInv'
  BY <1>16, <1>i DEF MarkFailed, SetStatus, Done, Goto, TypeOK, Document, TaskInv, ChunkTask, EmbedTask
<1>17. ASSUME NEW r \in Runs, NEW p \in Paths, OpenDocument(r, p) PROVE TaskInv'
  <2>1. \A q \in Paths : Current(r, q) => q = p
    BY <1>17, <1>i, CurrentIsOne DEF OpenDocument
  <2>2. \A k \in pend'[r] : k[1] = p
    BY <1>17, <1>i DEF OpenDocument, Keys, Key, Rows, TypeOK
  <2>3. \A q \in Paths : Current(r, q)' => q = p
    BY <1>17, <2>1 DEF OpenDocument, Current
  <2>4. UNCHANGED <<documents, todo, marks>> /\ pc' \in {[pc EXCEPT ![r] = "hold"],
                                                    [pc EXCEPT ![r] = "embed"]}
    BY <1>17 DEF OpenDocument, Goto
  <2>5. QED
    BY <1>17, <1>i, <2>2, <2>3, <2>4 DEF OpenDocument, TypeOK, TaskInv, ChunkTask,
       EmbedTask
<1>18. ASSUME NEW r \in Runs, NEW p \in Paths, RejectInput(r, p) PROVE TaskInv'
  BY <1>18, <1>i DEF RejectInput, Rollback, Goto, TypeOK, TaskInv, ChunkTask, EmbedTask
<1>19. ASSUME NEW r \in Runs, NEW p \in Paths, NEW k \in pend[r],
              EmbedBatch(r, p, k) PROVE TaskInv'
  BY <1>19, <1>i DEF EmbedBatch, Commit, AfterBatch, Done, Goto, Current, TypeOK, Document, TaskInv, ChunkTask, EmbedTask
<1>20. ASSUME NEW r \in Runs, NEW p \in Paths, NEW k \in pend[r],
              BatchFails(r, p, k) PROVE TaskInv'
  BY <1>20, <1>i DEF BatchFails, Rollback, Goto, Current, TypeOK, TaskInv, ChunkTask, EmbedTask
<1>21. ASSUME NEW r \in Runs, NEW p \in Paths, MarkIndexed(r, p) PROVE TaskInv'
  BY <1>21, <1>i DEF MarkIndexed, SetStatus, CloseDocument, Done, Goto, TypeOK, Document, TaskInv, ChunkTask, EmbedTask
<1>22. ASSUME NEW r \in Runs, NEW p \in Paths, HoldIndexed(r, p) PROVE TaskInv'
  BY <1>22, <1>i DEF HoldIndexed, CloseDocument, Done, Goto, TypeOK, TaskInv, ChunkTask, EmbedTask
<1>a. ASSUME NEW r \in Runs, NEW p \in Paths, ApplyRow(r, p) PROVE TaskInv'
  BY <1>a, <1>i DEF ApplyRow, Done, TypeOK, TaskInv, ChunkTask, EmbedTask
<1>b. ASSUME NEW r \in Runs, NEW p \in Paths, RecordError(r, p) PROVE TaskInv'
  BY <1>b, <1>i DEF RecordError, CloseDocument, Done, Goto, TypeOK, TaskInv, ChunkTask, EmbedTask
<1>c. ASSUME NEW r \in Runs, NEW p \in Paths, NEW k \in pend[r],
             UnmarkDocument(r, p, k) PROVE TaskInv'
  BY <1>c, <1>i DEF UnmarkDocument, AfterBatch, Done, Goto, Current, TypeOK, TaskInv, ChunkTask, EmbedTask
<1>d. ASSUME NEW r \in Runs, NEW p \in Paths, LockDocument(r, p) PROVE TaskInv'
  BY <1>d, <1>i DEF LockDocument, Goto, TypeOK, TaskInv, ChunkTask, EmbedTask
<1>e. ASSUME NEW r \in Runs, UnsaveBatch(r) PROVE TaskInv'
  BY <1>e, <1>i DEF UnsaveBatch, Goto, Current, TypeOK, TaskInv, ChunkTask, EmbedTask
<1>23. ASSUME NEW r \in Runs, NEW p \in Paths, MarkFails(r, p) PROVE TaskInv'
  BY <1>23, <1>i DEF MarkFails, Rollback, Goto, TypeOK, TaskInv, ChunkTask, EmbedTask
<1>24. ASSUME NEW r \in Runs, Crash(r) PROVE TaskInv'
  BY <1>24, <1>i DEF Crash, Rollback, Leave, Goto, TypeOK, TaskInv, ChunkTask, EmbedTask
<1>25. CASE UNCHANGED vars
  BY <1>25 DEF vars, TaskInv, ChunkTask, EmbedTask, Current
<1>26. ASSUME NEW r \in Runs, RunStep(r) PROVE TaskInv'
  BY <1>26, <1>3, <1>4, <1>5, <1>6, <1>7, <1>8, <1>9, <1>10, <1>11, <1>12, <1>13,
     <1>14, <1>15, <1>16, <1>17, <1>18, <1>19, <1>21, <1>22, <1>23, <1>24, <1>a, <1>b,
     <1>c, <1>d, <1>e DEF RunStep, Victim
<1>27. ASSUME NEW r \in Runs, FaultStep(r) PROVE TaskInv'
  BY <1>27, <1>3, <1>5, <1>10, <1>15, <1>20, <1>23, <1>24 DEF FaultStep
<1>28. QED
  BY <1>1, <1>2, <1>25, <1>26, <1>27 DEF Next

\* A step that adds no row and no mark.
LEMMA AgreeFrame ==
  ASSUME AgreeInv, chunks' \subseteq chunks, UNCHANGED documents,
         \A r \in Runs : marks'[r] \subseteq marks[r]
  PROVE  AgreeInv'
<1>1. \A p \in Paths : Rows(p)' \subseteq Rows(p)
  BY DEF Rows
<1>2. \A p \in Paths : Marked(p)' => Marked(p)
  BY DEF Marked
<1>3. QED
  BY <1>1, <1>2 DEF AgreeInv, IsVector

\* A step that rewrites one document, of which no mark is pending.
LEMMA AgreeOne ==
  ASSUME AgreeInv, NEW p \in Paths,
         \A q \in Paths \ {p} : Rows(q)' = Rows(q),
         \A q \in Paths \ {p} : documents'[q] = documents[q],
         \A q \in Paths \ {p} : Marked(q)' => Marked(q),
         documents'[p].status = "indexed" \/ Marked(p)' => IsVector(p)'
  PROVE  AgreeInv'
<1>1. ASSUME NEW q \in Paths \ {p}
      PROVE  documents'[q].status = "indexed" \/ Marked(q)' => IsVector(q)'
  <2>1. q \in Paths /\ Rows(q)' = Rows(q) /\ documents'[q] = documents[q]
    OBVIOUS
  <2>2. IsVector(q)' <=> IsVector(q)
    BY <2>1 DEF IsVector
  <2>3. Marked(q)' => Marked(q)
    OBVIOUS
  <2>4. QED
    BY <2>1, <2>2, <2>3 DEF AgreeInv
<1>2. QED
  BY <1>1 DEF AgreeInv

\* connection.commit() after the rows of p may have been embedded.
LEMMA AgreeCommit ==
  ASSUME TypeOK, Alone, AgreeInv, HeldMarksJustified,
         NEW r \in Runs, Commit(r),
         \A q \in Paths : documents[q].status = "indexed" \/ Marked(q) =>
           (IsVector(q) => IsVector(q)')
  PROVE  AgreeInv'
<1>1. \A o \in Runs : marks'[o] = {}
  BY DEF Commit, TypeOK, Alone
<1>2. \A q \in Paths : ~Marked(q)'
  BY <1>1 DEF Marked
<1>3. ASSUME NEW q \in Paths
      PROVE  documents'[q].status = "indexed" =>
               documents[q].status = "indexed" \/ Marked(q)
  BY DEF Commit, TypeOK, Document, Marked, HeldMarksJustified
<1>4. ASSUME NEW q \in Paths, documents'[q].status = "indexed" \/ Marked(q)'
      PROVE  IsVector(q)'
  <2>1. documents[q].status = "indexed" \/ Marked(q)
    BY <1>2, <1>3, <1>4
  <2>2. IsVector(q)
    BY <2>1 DEF AgreeInv
  <2>3. QED
    BY <2>1, <2>2
<1>5. QED
  BY <1>4 DEF AgreeInv

LEMMA AgreeEmbed ==
  ASSUME Alone, IInv, TaskInv, AgreeInv, NEW r \in Runs, NEW p \in Paths,
         NEW k \in pend[r], EmbedBatch(r, p, k)
  PROVE  AgreeInv'
<1>1. /\ TypeOK /\ HeldMarksJustified /\ chunks \subseteq Row
      /\ Commit(r) /\ chunks' = Embedded(k, config[r])
  BY DEF IInv, TypeOK, EmbedBatch
<1>2. /\ documents[p].status = "chunked" /\ ~Marked(p)
      /\ k[1] = p
  <2>1. pc[r] = "embed" /\ Current(r, p) /\ p \in todo[r]
    BY DEF EmbedBatch, Current
  <2>2. /\ documents[p].status = "chunked" /\ p \notin marks[r]
        /\ k[1] = p
    BY <2>1 DEF TaskInv, EmbedTask, Embedding
  <2>3. QED
    BY <2>2 DEF Marked, Alone
<1>3. \A q \in Paths : \A d \in Rows(q)' : \E c \in Rows(q) :
        q # p => d = c
  <2>1. SUFFICES ASSUME NEW q \in Paths, NEW d \in Rows(q)'
                 PROVE  \E c \in Rows(q) : q # p => d = c
    OBVIOUS
  <2>2. PICK c \in chunks :
          d = IF Key(c) = k THEN [c EXCEPT !.vec = config[r], !.done = TRUE]
              ELSE c
    BY <1>1 DEF Embedded, Rows
  <2>3. c \in Row /\ d.path = q
    BY <1>1 DEF Rows
  <2>4. d.path = c.path
    BY <2>2, <2>3 DEF Row
  <2>5. q # p => d = c
    BY <1>2, <2>2, <2>3, <2>4 DEF Key
  <2>6. QED
    BY <2>3, <2>4, <2>5 DEF Rows
<1>4. \A q \in Paths \ {p} : IsVector(q) => IsVector(q)'
  BY <1>3 DEF IsVector
<1>5. QED
  BY <1>1, <1>2, <1>4, AgreeCommit

LEMMA AgreeUnmark ==
  ASSUME Alone, IInv, TaskInv, AgreeInv, NEW r \in Runs, NEW p \in Paths,
         NEW k \in pend[r], UnmarkDocument(r, p, k)
  PROVE  AgreeInv'
<1>1. /\ chunks \subseteq Row /\ chunks' = EmbeddingFailed(k)
      /\ UNCHANGED <<documents, marks>>
  BY DEF IInv, TypeOK, UnmarkDocument, held
<1>2. \A q \in Paths : Marked(q)' <=> Marked(q)
  BY <1>1 DEF Marked
<1>3. \A q \in Paths : \A d \in Rows(q)' : \E c \in Rows(q) :
        d.vec = c.vec /\ d.config = c.config
  BY <1>1 DEF EmbeddingFailed, Rows, Row
<1>4. QED
  BY <1>1, <1>2, <1>3 DEF AgreeInv, IsVector

LEMMA AgreeStore ==
  ASSUME Alone, IInv, TaskInv, AgreeInv, NEW r \in Runs, NEW p \in Paths,
         Store(r, p)
  PROVE  AgreeInv'
<1>1. PICK g \in Gens : chunks' = Replaced(p, NewRows(p, g, text[r], config[r]))
  BY DEF Store
<1>2. /\ documents'[p].status = "chunked"
      /\ \A q \in Paths \ {p} : documents'[q] = documents[q]
      /\ UNCHANGED marks
  BY DEF Store, SetStatus, IInv, TypeOK, Document, held
<1>3. \A c \in NewRows(p, g, text[r], config[r]) : c.path = p
  BY DEF NewRows
<1>4. \A q \in Paths \ {p} : Rows(q)' = Rows(q)
  BY <1>1, <1>3 DEF Rows, Replaced
<1>5. \A o \in Runs : marks[o] = {}
  BY EmbeddingStages DEF Store, Alone
<1>6. \A q \in Paths : ~Marked(q)'
  BY <1>2, <1>5 DEF Marked
<1>7. QED
  BY <1>2, <1>4, <1>6, AgreeOne

LEMMA AgreeMark ==
  ASSUME Alone, IInv, AgreeInv, NEW r \in Runs, NEW p \in Paths,
         MarkIndexed(r, p) \/ HoldIndexed(r, p)
  PROVE  AgreeInv'
<1>1. UNCHANGED chunks
  BY DEF MarkIndexed, HoldIndexed, db
<1>2. \A q \in Paths : Rows(q)' = Rows(q)
  BY <1>1 DEF Rows
<1>3. CASE ~Indexable(r, p)
  BY <1>1, <1>3, AgreeFrame DEF MarkIndexed, HoldIndexed, held, db
<1>4. CASE Indexable(r, p)
  <2>1. documents[p].status = "chunked" /\ IsVector(p)
    BY <1>4 DEF Indexable, Complete, NeedsEmbedding, IsVector
  <2>2. \A q \in Paths \ {p} : documents'[q] = documents[q]
    BY <1>4 DEF MarkIndexed, HoldIndexed, SetStatus, db, IInv, TypeOK, Document
  <2>3. \A q \in Paths \ {p} : Marked(q)' => Marked(q)
    <3>1. CASE MarkIndexed(r, p)
      BY <1>4, <3>1 DEF MarkIndexed, held, Marked
    <3>2. CASE HoldIndexed(r, p)
      <4>1. marks' = [marks EXCEPT ![r] = @ \cup {p}]
        BY <1>4, <3>2 DEF HoldIndexed
      <4>2. \A o \in Runs : marks'[o] \subseteq marks[o] \cup {p}
        BY <4>1 DEF IInv, TypeOK
      <4>3. QED
        BY <4>2 DEF Marked
    <3>3. QED
      BY <3>1, <3>2
  <2>4. IsVector(p)'
    BY <1>2, <2>1 DEF IsVector
  <2>5. QED
    BY <1>2, <2>2, <2>3, <2>4, AgreeOne
<1>5. QED
  BY <1>3, <1>4

LEMMA AgreeStep ==
  ASSUME Alone, IInv, TaskInv, AgreeInv, [Next]_vars
  PROVE  AgreeInv'
<1> USE DEF db, held
<1>1. ASSUME UNCHANGED <<documents, chunks, marks>> PROVE AgreeInv'
  BY <1>1, AgreeFrame
<1>2. ASSUME NEW r \in Runs, Rollback(r), UNCHANGED <<documents, chunks>>
      PROVE  AgreeInv'
  BY <1>2, AgreeFrame DEF Rollback, IInv, TypeOK
<1>3. ASSUME NEW r \in Runs, CommitPlan(r) PROVE AgreeInv'
  <2>1. \A o \in Runs : marks[o] = {}
    BY <1>3, EmbeddingStages DEF CommitPlan, Alone
  <2>2. \A q \in Paths : Rows(q)' = Rows(q) /\ ~Marked(q)'
    BY <1>3, <2>1 DEF CommitPlan, Rows, Marked
  <2>3. \A q \in Paths : documents'[q].status \in {"chunked", "indexed"} =>
          documents'[q] = documents[q]
    BY <1>3 DEF CommitPlan, IInv, TypeOK, Document
  <2>4. QED
    BY <2>2, <2>3 DEF AgreeInv, IsVector
<1>4. ASSUME NEW r \in Runs, PurgeDeleted(r) PROVE AgreeInv'
  BY <1>4, AgreeFrame DEF PurgeDeleted
<1>5. ASSUME NEW r \in Runs, NEW p \in Paths, MarkFailed(r, p) PROVE AgreeInv'
  <2>1. \A o \in Runs : marks[o] = {}
    BY <1>5, EmbeddingStages DEF MarkFailed, Alone
  <2>2. \A q \in Paths : Rows(q)' = Rows(q) /\ ~Marked(q)'
    BY <1>5, <2>1 DEF MarkFailed, Rows, Marked
  <2>3. \A q \in Paths : documents'[q].status \in {"chunked", "indexed"} =>
          documents'[q] = documents[q]
    BY <1>5 DEF MarkFailed, SetStatus, IInv, TypeOK, Document
  <2>4. QED
    BY <2>2, <2>3 DEF AgreeInv, IsVector
<1>6. ASSUME NEW r \in Runs, CloseEmbedding(r) PROVE AgreeInv'
  <2>1. TypeOK /\ HeldMarksJustified /\ Commit(r) /\ UNCHANGED chunks
    BY <1>6 DEF CloseEmbedding, IInv
  <2>2. \A q \in Paths : Rows(q)' = Rows(q)
    BY <2>1 DEF Rows
  <2>3. QED
    BY <2>1, <2>2, AgreeCommit DEF IsVector
<1>7. ASSUME NEW r \in Runs,
             \/ \E k \in Configs : Start(r, k)
             \/ \E s, m : Scan(r, s, m)
             \/ ListPending(r) \/ ListChunked(r) \/ UnsaveBatch(r)
             \/ \E f : IndexLexical(r, f)
             \/ Finish(r)
      PROVE  AgreeInv'
  BY <1>1, <1>7 DEF Start, Scan, ListPending, ListChunked, UnsaveBatch,
     IndexLexical, Finish
<1>8. ASSUME NEW r \in Runs, NEW p \in Paths,
             \/ CheckSource(r, p) \/ Parse(r, p) \/ OpenDocument(r, p)
             \/ ApplyRow(r, p) \/ RecordError(r, p) \/ LockDocument(r, p)
      PROVE  AgreeInv'
  BY <1>1, <1>8 DEF CheckSource, Parse, OpenDocument, ApplyRow, RecordError,
     LockDocument
<1>9. ASSUME NEW r \in Runs,
             \/ ApplyFails(r) \/ StoreFails(r) \/ Crash(r)
             \/ \E p \in Paths :
                  \/ RejectInput(r, p) \/ MarkFails(r, p)
                  \/ \E k \in pend[r] : BatchFails(r, p, k)
      PROVE  AgreeInv'
  BY <1>2, <1>9 DEF ApplyFails, StoreFails, Crash, RejectInput, MarkFails, BatchFails
<1>10. ASSUME NEW p \in Paths, Edit(p) PROVE AgreeInv'
  BY <1>1, <1>10 DEF Edit
<1>11. CASE UNCHANGED vars
  BY <1>1, <1>11 DEF vars
<1>12. ASSUME NEW r \in Runs, RunStep(r) PROVE AgreeInv'
  BY <1>12, <1>3, <1>4, <1>5, <1>6, <1>7, <1>8, <1>9, AgreeEmbed, AgreeUnmark,
     AgreeStore, AgreeMark DEF RunStep, Victim
<1>13. ASSUME NEW r \in Runs, FaultStep(r) PROVE AgreeInv'
  BY <1>13, <1>7, <1>9 DEF FaultStep
<1>14. QED
  BY <1>7, <1>10, <1>11, <1>12, <1>13 DEF Next

(***************************************************************************)
(* What a completed run leaves behind.                                     *)
(***************************************************************************)
OfVersion(p) == \A c \in Rows(p) : Version[c.config] = documents[p].version

\* A new document has no rows; those of a chunked one were written under a
\* configuration of its parser and chunking version.
RowsAgree(p) ==
  /\ documents[p].status = "none" => Rows(p) = {}
  /\ documents[p].status \in {"chunked", "indexed"} => OfVersion(p)

\* The chunking list holds documents of the version the run is started with.
VersionTask(r) ==
  pc[r] \in {"chunk", "parse", "store", "replace", "fail"} =>
    \A q \in todo[r] : documents[q].version = Version[config[r]]

RowsInv == /\ \A p \in Paths : RowsAgree(p)
           /\ \A r \in Runs : VersionTask(r)

\* A note the scan did not find has left the index, its rows with the purge.
Left(r, p) ==
  /\ documents[p].status \in {"none", "deleted"}
  /\ pc[r] # "purge" => Rows(p) = {}

\* A note the scan found has got as far as the run has, or is on its list.
Found(r, p) ==
  /\ documents[p].hash = scan[r][p]
  /\ documents[p].version = Version[config[r]]
  /\ pc[r] \in {"purge", "list"} =>
       documents[p].status \in {"pending", "chunked", "indexed"}
  /\ pc[r] \in {"chunk", "parse", "store", "replace", "fail"} =>
       documents[p].status \in {"chunked", "indexed"} \/ p \in todo[r]
  /\ pc[r] \in Embedding =>
       \/ documents[p].status = "indexed"
       \/ documents[p].status = "chunked" /\ p \in todo[r] \cup marks[r]
  /\ pc[r] \in {"lexical", "finish"} => documents[p].status = "indexed"

Arrived(r, p) == IF scan[r][p] = Absent THEN Left(r, p) ELSE Found(r, p)

\* Of a run in which nothing has failed so far: its plan is that of its scan, each
\* row of the plan is still to be written or written and locked, all notes are as
\* far as they should be, and the last stage has done its work.
Progress(r) ==
  /\ pc[r] = "apply" => \A p \in Paths :
       /\ plan[r][p] = Classify(p, scan[r][p], "none", {}, Version[config[r]])
       /\ p \in todo[r] \cup locks[r] <=> plan[r][p] # "keep"
  /\ pc[r] \notin {"idle", "scan", "apply"} => \A p \in Paths : Arrived(r, p)
  /\ pc[r] = "embed" => ~broken[r]
  /\ pc[r] \notin {"unsave", "unmark", "record"}
  /\ pc[r] = "finish" => lex = Keys(IndexedRows)

ProgressInv == \A r \in Runs : clean[r] => Progress(r)

LEMMA RowsAgreeFrame ==
  ASSUME NEW p \in Paths, RowsAgree(p),
         KeepsRows(p),
         documents'[p].version = documents[p].version,
         documents'[p].status = "none" => documents[p].status = "none",
         documents'[p].status \in {"chunked", "indexed"} =>
           documents[p].status \in {"chunked", "indexed"}
  PROVE  RowsAgree(p)'
<1>1. \A c \in Rows(p)' : \E d \in Rows(p) : c.no = d.no /\ c.config = d.config
  BY DEF KeepsRows
<1>2. OfVersion(p) => OfVersion(p)'
  BY <1>1 DEF OfVersion
<1>3. Rows(p) = {} => Rows(p)' = {}
  BY <1>1
<1>4. QED
  BY <1>2, <1>3 DEF RowsAgree

LEMMA RowsStored ==
  ASSUME Alone, IInv, TaskInv, RowsInv, NEW r \in Runs, NEW p \in Paths,
         Store(r, p)
  PROVE  \A q \in Paths : RowsAgree(q)'
<1>1. PICK g \in Gens : chunks' = Replaced(p, NewRows(p, g, text[r], config[r]))
  BY DEF Store
<1>2. \A c \in NewRows(p, g, text[r], config[r]) : c.path = p /\ c.config = config[r]
  BY DEF NewRows
<1>3. /\ Rows(p)' = NewRows(p, g, text[r], config[r])
      /\ \A q \in Paths \ {p} : Rows(q)' = Rows(q)
  BY <1>1, <1>2 DEF Rows, Replaced
<1>4. /\ TypeOK /\ SetStatus(p, "chunked")
      /\ documents[p].version = Version[config[r]]
  BY DEF Store, Current, IInv, RowsInv, VersionTask
<1>5. RowsAgree(p)'
  <2>1. OfVersion(p)'
    BY <1>2, <1>3, <1>4, SetStatusDocuments DEF OfVersion
  <2>2. documents'[p].status = "chunked"
    BY <1>4, SetStatusDocuments
  <2>3. QED
    BY <2>1, <2>2 DEF RowsAgree
<1>6. ASSUME NEW q \in Paths \ {p} PROVE RowsAgree(q)'
  <2>1. q \in Paths /\ KeepsRows(q)
    BY <1>3 DEF KeepsRows
  <2>2. /\ documents'[q].version = documents[q].version
        /\ documents'[q].status = documents[q].status
    BY <1>4, SetStatusDocuments
  <2>3. QED
    BY <2>1, <2>2, RowsAgreeFrame DEF RowsInv
<1>7. QED
  BY <1>5, <1>6

LEMMA RowsStep ==
  ASSUME Alone, IInv, TaskInv, RowsInv, [Next]_vars
  PROVE  \A p \in Paths : RowsAgree(p)'
<1> USE DEF db, held
<1>t. TypeOK /\ documents \in [Paths -> Document]
  BY DEF IInv, TypeOK
<1>1. ASSUME NEW p \in Paths, KeepsRows(p),
             documents'[p] = documents[p]
      PROVE  RowsAgree(p)'
  BY <1>1, RowsAgreeFrame DEF RowsInv
<1>2. ASSUME UNCHANGED <<documents, chunks>>, NEW p \in Paths
      PROVE  RowsAgree(p)'
  BY <1>1, <1>2 DEF KeepsRows, Rows
<1>3. ASSUME NEW r \in Runs, CommitPlan(r), NEW p \in Paths
      PROVE  RowsAgree(p)'
  <2>1. Rows(p)' = Rows(p)
    BY <1>3 DEF CommitPlan, Rows
  <2>2. CASE p \in locks[r]
    BY <1>3, <1>t, <2>2 DEF CommitPlan, Document, RowsAgree
  <2>3. CASE p \notin locks[r]
    BY <1>1, <1>3, <2>1, <2>3 DEF CommitPlan, KeepsRows
  <2>4. QED
    BY <2>2, <2>3
<1>4. ASSUME NEW r \in Runs, PurgeDeleted(r), NEW p \in Paths
      PROVE  RowsAgree(p)'
  <2>1. UNCHANGED documents /\ chunks' = chunks \ RowsOf(Purgeable)
    BY <1>4 DEF PurgeDeleted
  <2>2. CASE documents[p].status = "deleted"
    BY <2>1, <2>2 DEF RowsAgree
  <2>3. CASE documents[p].status # "deleted"
    <3>1. Rows(p)' = Rows(p)
      BY <2>1, <2>3 DEF RowsOf, Purgeable, Rows
    <3>2. QED
      BY <1>1, <2>1, <3>1 DEF KeepsRows
  <2>4. QED
    BY <2>2, <2>3
<1>5. ASSUME NEW p \in Paths, NEW q \in Paths, NEW s \in {"indexed", "failed"},
             SetStatus(q, s), UNCHANGED chunks,
             s = "indexed" => documents[q].status = "chunked"
      PROVE  RowsAgree(p)'
  <2>1. KeepsRows(p)
    BY <1>5 DEF KeepsRows, Rows
  <2>2. /\ documents'[p].version = documents[p].version
        /\ documents'[p].status = IF p = q THEN s ELSE documents[p].status
    BY <1>5, <1>t, SetStatusDocuments
  <2>3. QED
    BY <1>5, <2>1, <2>2, RowsAgreeFrame DEF RowsInv
<1>6. ASSUME NEW r \in Runs, NEW q \in Paths, MarkFailed(r, q), NEW p \in Paths
      PROVE  RowsAgree(p)'
  BY <1>5, <1>6 DEF MarkFailed
<1>7. ASSUME NEW r \in Runs, NEW q \in Paths, MarkIndexed(r, q), NEW p \in Paths
      PROVE  RowsAgree(p)'
  BY <1>2, <1>5, <1>7 DEF MarkIndexed, Indexable
<1>8. ASSUME NEW r \in Runs, Commit(r), NEW p \in Paths, KeepsRows(p)
      PROVE  RowsAgree(p)'
  BY <1>8, CommitDocuments, RowsAgreeFrame DEF RowsInv
<1>9. ASSUME NEW r \in Runs, CloseEmbedding(r), NEW p \in Paths
      PROVE  RowsAgree(p)'
  BY <1>8, <1>9 DEF CloseEmbedding, KeepsRows, Rows
<1>10. ASSUME NEW r \in Runs, NEW q \in Paths, NEW k \in pend[r],
              EmbedBatch(r, q, k), NEW p \in Paths
       PROVE  RowsAgree(p)'
  BY <1>8, <1>10, <1>t, EmbeddingKeepsRows DEF EmbedBatch
<1>11. ASSUME NEW r \in Runs, NEW q \in Paths, NEW k \in pend[r],
              UnmarkDocument(r, q, k), NEW p \in Paths
       PROVE  RowsAgree(p)'
  BY <1>1, <1>11, <1>t, EmbeddingKeepsRows DEF UnmarkDocument
<1>12. ASSUME NEW r \in Runs, NEW p \in Paths,
              \/ \E k \in Configs : Start(r, k)
              \/ \E s, m : Scan(r, s, m)
              \/ ApplyFails(r) \/ ListPending(r) \/ ListChunked(r)
              \/ \E f : IndexLexical(r, f)
              \/ Finish(r) \/ StoreFails(r) \/ Crash(r) \/ UnsaveBatch(r)
       PROVE  RowsAgree(p)'
  BY <1>2, <1>12 DEF Start, Scan, ApplyFails, ListPending, ListChunked,
     IndexLexical, Finish, StoreFails, Crash, UnsaveBatch
<1>13. ASSUME NEW r \in Runs, NEW q \in Paths, NEW p \in Paths,
              \/ CheckSource(r, q) \/ Parse(r, q) \/ OpenDocument(r, q)
              \/ RejectInput(r, q) \/ HoldIndexed(r, q) \/ MarkFails(r, q)
              \/ ApplyRow(r, q) \/ RecordError(r, q) \/ LockDocument(r, q)
              \/ \E k \in pend[r] : BatchFails(r, q, k)
       PROVE  RowsAgree(p)'
  BY <1>2, <1>13 DEF CheckSource, Parse, OpenDocument, RejectInput, HoldIndexed,
     MarkFails, ApplyRow, RecordError, LockDocument, BatchFails
<1>14. ASSUME NEW q \in Paths, Edit(q), NEW p \in Paths PROVE RowsAgree(p)'
  BY <1>2, <1>14 DEF Edit
<1>15. ASSUME UNCHANGED vars, NEW p \in Paths PROVE RowsAgree(p)'
  BY <1>2, <1>15 DEF vars
<1>16. ASSUME NEW r \in Runs, RunStep(r), NEW p \in Paths PROVE RowsAgree(p)'
  BY <1>16, <1>3, <1>4, <1>6, <1>7, <1>9, <1>10, <1>11, <1>12, <1>13, RowsStored
     DEF RunStep, Victim
<1>17. ASSUME NEW r \in Runs, FaultStep(r), NEW p \in Paths PROVE RowsAgree(p)'
  BY <1>17, <1>12, <1>13 DEF FaultStep
<1>18. QED
  BY <1>12, <1>14, <1>15, <1>16, <1>17 DEF Next

LEMMA VersionStep ==
  ASSUME Alone, IInv, RowsInv, [Next]_vars, NEW r \in Runs
  PROVE  VersionTask(r)'
<1> USE DEF db, local, held, env
<1>a. \A o \in Runs : o = r
  BY DEF Alone
<1>t. TypeOK /\ documents \in [Paths -> Document] /\ pc \in [Runs -> Stages]
      /\ todo \in [Runs -> SUBSET Paths] /\ config \in [Runs -> Configs \cup {NoConfig}]
  BY DEF IInv, TypeOK
<1>v. VersionTask(r)
  BY DEF RowsInv
<1>1. ASSUME pc'[r] \notin {"chunk", "parse", "store", "replace", "fail"}
      PROVE  VersionTask(r)'
  BY <1>1 DEF VersionTask
<1>2. ASSUME pc[r] \in {"chunk", "parse", "store", "replace", "fail"},
             UNCHANGED config, todo'[r] \subseteq todo[r],
             \A q \in Paths : documents'[q].version = documents[q].version
      PROVE  VersionTask(r)'
  BY <1>2, <1>v, <1>t DEF VersionTask
<1>3. CASE ListPending(r)
  BY <1>3, <1>t DEF ListPending, AtVersion, VersionTask
<1>4. ASSUME NEW p \in Paths,
             \/ CheckSource(r, p) \/ Parse(r, p) \/ LockDocument(r, p)
             \/ Store(r, p) \/ MarkFailed(r, p)
      PROVE  VersionTask(r)'
  <2>1. \A q \in Paths : documents'[q].version = documents[q].version
    BY <1>4, <1>t, SetStatusDocuments DEF CheckSource, Parse, LockDocument, Store,
       MarkFailed
  <2>2. QED
    BY <1>2, <1>4, <1>t, <2>1 DEF CheckSource, Parse, LockDocument, Store, MarkFailed,
       Done
<1>5. CASE StoreFails(r)
  BY <1>2, <1>5 DEF StoreFails
<1>6. CASE \/ \E k \in Configs : Start(r, k)
           \/ \E s, m : Scan(r, s, m)
           \/ CommitPlan(r) \/ ApplyFails(r) \/ PurgeDeleted(r) \/ ListChunked(r)
           \/ CloseEmbedding(r) \/ Finish(r) \/ Crash(r) \/ UnsaveBatch(r)
           \/ \E f : IndexLexical(r, f)
  BY <1>1, <1>6, <1>t DEF Start, Scan, CommitPlan, ApplyFails, PurgeDeleted,
     ListChunked, CloseEmbedding, Finish, Crash, UnsaveBatch, IndexLexical, Leave, Goto
<1>7. ASSUME NEW p \in Paths,
             \/ OpenDocument(r, p) \/ RejectInput(r, p) \/ MarkIndexed(r, p)
             \/ HoldIndexed(r, p) \/ MarkFails(r, p) \/ ApplyRow(r, p)
             \/ RecordError(r, p)
      PROVE  VersionTask(r)'
  BY <1>1, <1>7, <1>t DEF OpenDocument, RejectInput, MarkIndexed, HoldIndexed,
     MarkFails, ApplyRow, RecordError, CloseDocument, Goto
<1>8. ASSUME NEW p \in Paths, NEW k \in pend[r],
             EmbedBatch(r, p, k) \/ BatchFails(r, p, k) \/ UnmarkDocument(r, p, k)
      PROVE  VersionTask(r)'
  BY <1>1, <1>8, <1>t DEF EmbedBatch, BatchFails, UnmarkDocument, AfterBatch, Goto
<1>9. ASSUME UNCHANGED <<pc, todo, config, documents>> PROVE VersionTask(r)'
  BY <1>9, <1>v DEF VersionTask
<1>10. ASSUME NEW p \in Paths, Edit(p) PROVE VersionTask(r)'
  BY <1>9, <1>10 DEF Edit
<1>11. CASE UNCHANGED vars
  BY <1>9, <1>11 DEF vars
<1>12. CASE RunStep(r)
  BY <1>12, <1>3, <1>4, <1>5, <1>6, <1>7, <1>8 DEF RunStep, Victim
<1>13. CASE FaultStep(r)
  BY <1>13, <1>5, <1>6, <1>7, <1>8 DEF FaultStep
<1>14. QED
  BY <1>a, <1>6, <1>10, <1>11, <1>12, <1>13 DEF Next

Chunking == {"chunk", "parse", "store", "replace", "fail"}

\* A step that leaves a note where it is, in a stage that asks no more of it.
LEMMA StaysArrived ==
  ASSUME NEW r \in Runs, NEW p \in Paths, Arrived(r, p),
         UNCHANGED config, scan'[r] = scan[r],
         documents'[p] = documents[p],
         Rows(p) = {} => Rows(p)' = {},
         pc[r] # "purge", pc[r] # "list",
         \/ pc'[r] = pc[r]
         \/ pc[r] \in Chunking /\ pc'[r] \in Chunking
         \/ pc[r] \in Embedding /\ pc'[r] \in Embedding
         \/ pc[r] \in {"lexical", "finish"} /\ pc'[r] \in {"lexical", "finish"},
         p \in todo[r] => p \in todo'[r],
         p \in marks[r] => p \in marks'[r]
  PROVE  Arrived(r, p)'
<1>1. CASE scan[r][p] = Absent
  BY <1>1 DEF Arrived, Left, Chunking, Embedding
<1>2. CASE scan[r][p] # Absent
  BY <1>2 DEF Arrived, Found, Chunking, Embedding
<1>3. QED
  BY <1>1, <1>2

\* A plan made of the documents as they are brings every note of the vault to
\* its place when it is applied.
LEMMA AppliedArrives ==
  ASSUME IInv, RowsInv, NEW r \in Runs, clean[r], Progress(r), CommitPlan(r)
  PROVE  \A p \in Paths : Arrived(r, p)'
<1> SUFFICES ASSUME NEW p \in Paths PROVE Arrived(r, p)'
  OBVIOUS
<1>1. /\ plan[r][p] = Classify(p, scan[r][p], "none", {}, Version[config[r]])
      /\ p \in locks[r] <=> plan[r][p] # "keep"
      /\ pc'[r] = "purge"
      /\ UNCHANGED <<scan, config>>
  BY DEF CommitPlan, Progress, Goto, IInv, TypeOK
<1>2. documents'[p] =
        CASE p \notin locks[r] -> documents[p]
          [] p \in locks[r] /\ plan[r][p] = "delete" ->
               [documents[p] EXCEPT !.status = "deleted"]
          [] OTHER -> [status |-> "pending", hash |-> scan[r][p],
                       version |-> Version[config[r]]]
  BY DEF CommitPlan
<1>3. documents[p] \in Document
  BY DEF IInv, TypeOK
<1>4. CASE scan[r][p] = Absent
  <2>1. documents'[p].status \in {"none", "deleted"}
    BY <1>1, <1>2, <1>3, <1>4 DEF Classify, Spared, Document
  <2>2. QED
    BY <1>1, <1>4, <2>1 DEF Arrived, Left
<1>5. CASE scan[r][p] # Absent
  <2>1. plan[r][p] # "delete"
    BY <1>1, <1>5 DEF Classify
  <2>2. CASE p \in locks[r]
    BY <1>1, <1>2, <1>5, <2>1, <2>2 DEF Arrived, Found, Embedding
  <2>3. CASE p \notin locks[r]
    <3>1. documents'[p] = documents[p]
      BY <1>2, <2>3
    <3>2. documents[p].status # "none" /\ ~Stale(p, scan[r][p], Version[config[r]])
      BY <1>1, <1>5, <2>3 DEF Classify
    <3>3. documents[p].status # "deleted"
      BY <1>1, <1>5, <2>3 DEF Classify
    <3>4. QED
      BY <1>1, <1>3, <1>5, <3>1, <3>2, <3>3 DEF Arrived, Found, Stale, Document,
         Statuses, Embedding
  <2>4. QED
    BY <2>2, <2>3
<1>6. QED
  BY <1>4, <1>5

LEMMA PurgedArrives ==
  ASSUME IInv, RowsInv, NEW r \in Runs, Progress(r), PurgeDeleted(r)
  PROVE  \A p \in Paths : Arrived(r, p)'
<1> SUFFICES ASSUME NEW p \in Paths PROVE Arrived(r, p)'
  OBVIOUS
<1>1. /\ Arrived(r, p)
      /\ pc[r] = "purge" /\ pc'[r] = "list"
      /\ UNCHANGED <<documents, scan, config>>
      /\ chunks' = chunks \ RowsOf(Purgeable)
  BY DEF PurgeDeleted, Progress, Goto, IInv, TypeOK, local
<1>2. CASE scan[r][p] = Absent
  <2>1. documents[p].status \in {"none", "deleted"}
    BY <1>1, <1>2 DEF Arrived, Left
  <2>2. Rows(p)' = {}
    BY <1>1, <2>1 DEF RowsInv, RowsAgree, Rows, RowsOf, Purgeable
  <2>3. QED
    BY <1>1, <1>2, <2>1, <2>2 DEF Arrived, Left
<1>3. CASE scan[r][p] # Absent
  BY <1>1, <1>3 DEF Arrived, Found, Embedding
<1>4. QED
  BY <1>2, <1>3

LEMMA ListedArrives ==
  ASSUME IInv, RowsInv, NEW r \in Runs, Progress(r),
         ListPending(r) \/ ListChunked(r)
  PROVE  \A p \in Paths : Arrived(r, p)'
<1> SUFFICES ASSUME NEW p \in Paths PROVE Arrived(r, p)'
  OBVIOUS
<1>1. /\ Arrived(r, p)
      /\ UNCHANGED <<documents, chunks, scan, config, marks>>
      /\ Rows(p)' = Rows(p)
  BY DEF ListPending, ListChunked, Progress, db, held, Rows
<1>2. CASE scan[r][p] = Absent
  BY <1>1, <1>2 DEF Arrived, Left, ListPending, ListChunked
<1>3. CASE scan[r][p] # Absent
  <2>1. CASE ListPending(r)
    BY <1>1, <1>3, <2>1 DEF Arrived, Found, Embedding, ListPending, AtVersion, Goto, IInv, TypeOK
  <2>2. CASE ListChunked(r)
    BY <1>1, <1>3, <2>2 DEF Arrived, Found, Embedding, ListChunked, AtVersion, Goto, IInv, TypeOK
  <2>3. QED
    BY <2>1, <2>2
<1>4. QED
  BY <1>2, <1>3

\* Chunking one document takes it off the list and brings it to chunked.
LEMMA StoredArrives ==
  ASSUME Alone, IInv, TaskInv, NEW r \in Runs, Progress(r), NEW q \in Paths,
         Store(r, q)
  PROVE  \A p \in Paths : Arrived(r, p)'
<1> SUFFICES ASSUME NEW p \in Paths PROVE Arrived(r, p)'
  OBVIOUS
<1>1. /\ Arrived(r, p)
      /\ pc[r] = "replace" /\ pc'[r] = "chunk"
      /\ UNCHANGED <<scan, config, marks>>
      /\ todo'[r] = todo[r] \ {q}
      /\ SetStatus(q, "chunked") /\ TypeOK
  BY DEF Store, Progress, Goto, Done, IInv, TypeOK, held
<1>2. CASE p = q
  <2>1. documents[q].status = "pending"
    BY DEF Store, Current, TaskInv, ChunkTask
  <2>2. scan[r][p] # Absent
    BY <1>1, <1>2, <2>1 DEF Arrived, Left
  <2>3. QED
    BY <1>1, <1>2, <2>2, SetStatusDocuments DEF Arrived, Found, Embedding
<1>3. CASE p # q
  <2>1. documents'[p] = documents[p]
    BY <1>1, <1>3 DEF SetStatus, TypeOK
  <2>2. Rows(p)' = Rows(p)
    BY <1>3 DEF Store, Replaced, Rows, NewRows
  <2>3. QED
    BY <1>1, <1>3, <2>1, <2>2, StaysArrived DEF Chunking
<1>4. QED
  BY <1>2, <1>3

\* Committing marks makes searchable what waited for it.
LEMMA CommitArrives ==
  ASSUME IInv, NEW r \in Runs, Progress(r), Commit(r), NEW p \in Paths,
         pc[r] \in Embedding,
         UNCHANGED <<scan, config>>, KeepsRows(p),
         \/ pc'[r] \in Embedding /\ todo'[r] = todo[r]
         \/ pc'[r] = "lexical" /\ todo[r] = {}
  PROVE  Arrived(r, p)'
<1>1. /\ documents'[p].hash = documents[p].hash
      /\ documents'[p].version = documents[p].version
      /\ documents'[p].status =
           IF p \in marks[r] THEN "indexed" ELSE documents[p].status
      /\ p \in marks[r] => documents[p].status = "chunked"
  BY CommitDocuments
<1>2. Arrived(r, p)
  BY DEF Progress, Embedding
<1>3. CASE scan[r][p] = Absent
  <2>1. Left(r, p)'
    BY <1>1, <1>2, <1>3 DEF Arrived, Left, Embedding, KeepsRows
  <2>2. QED
    BY <1>3, <2>1 DEF Arrived
<1>4. CASE scan[r][p] # Absent
  BY <1>1, <1>2, <1>4 DEF Arrived, Found, Embedding
<1>5. QED
  BY <1>3, <1>4

\* Marking one document takes it off the list and brings it to the marks, or to
\* indexed; the run is no longer clean if it is not marked.
LEMMA MarkedArrives ==
  ASSUME Alone, IInv, NEW r \in Runs, Progress(r), clean'[r], NEW q \in Paths,
         MarkIndexed(r, q) \/ HoldIndexed(r, q)
  PROVE  \A p \in Paths : Arrived(r, p)'
<1> SUFFICES ASSUME NEW p \in Paths PROVE Arrived(r, p)'
  OBVIOUS
<1>1. /\ Arrived(r, p)
      /\ pc[r] \in Embedding /\ pc'[r] = "open"
      /\ UNCHANGED <<scan, config, chunks>>
      /\ todo'[r] = todo[r] \ {q}
  BY DEF MarkIndexed, HoldIndexed, Progress, CloseDocument, Goto, Done, IInv,
         TypeOK, Embedding, db
<1>2. Indexable(r, q)
  BY DEF MarkIndexed, HoldIndexed, Failing, IInv, TypeOK
<1>3. documents[q].status = "chunked"
  BY <1>2 DEF Indexable
<1>4. Rows(p)' = Rows(p)
  BY <1>1 DEF Rows
<1>5. /\ documents'[p].hash = documents[p].hash
      /\ documents'[p].version = documents[p].version
      /\ p # q => documents'[p].status = documents[p].status
      /\ marks[r] \subseteq marks'[r]
      /\ \/ documents'[q].status = "indexed"
         \/ documents'[q].status = "chunked" /\ q \in marks'[r]
  <2>1. CASE MarkIndexed(r, q)
    BY <1>2, <2>1, SetStatusDocuments DEF MarkIndexed, held, IInv, TypeOK
  <2>2. CASE HoldIndexed(r, q)
    BY <1>2, <1>3, <2>2 DEF HoldIndexed, db, IInv, TypeOK
  <2>3. QED
    BY <2>1, <2>2
<1>6. CASE scan[r][p] = Absent
  <2>1. p # q
    BY <1>1, <1>3, <1>6 DEF Arrived, Left
  <2>2. QED
    BY <1>1, <1>4, <1>5, <1>6, <2>1 DEF Arrived, Left, Embedding
<1>7. CASE scan[r][p] # Absent
  BY <1>1, <1>5, <1>7 DEF Arrived, Found, Embedding
<1>8. QED
  BY <1>6, <1>7

LEMMA ProgressStep ==
  ASSUME Alone, IInv, TaskInv, RowsInv, ProgressInv, [Next]_vars,
         NEW r \in Runs, clean'[r]
  PROVE  Progress(r)'
<1> USE DEF db, local, held, env
<1>a. \A o \in Runs : o = r
  BY DEF Alone
<1>t. /\ TypeOK /\ pc \in [Runs -> Stages] /\ todo \in [Runs -> SUBSET Paths]
      /\ clean \in [Runs -> BOOLEAN] /\ marks \in [Runs -> SUBSET Paths]
      /\ broken \in [Runs -> BOOLEAN]
  BY DEF IInv, TypeOK
<1>p. clean[r] => Progress(r)
  BY DEF ProgressInv
<1>1. ASSUME pc'[r] \in {"idle", "scan"} PROVE Progress(r)'
  BY <1>1 DEF Progress
<1>2. ASSUME pc'[r] \notin {"idle", "scan", "apply", "embed", "finish", "unsave",
                            "unmark", "record"},
             \A p \in Paths : Arrived(r, p)'
      PROVE  Progress(r)'
  BY <1>2 DEF Progress
<1>3. ASSUME NEW k \in Configs, Start(r, k) PROVE Progress(r)'
  BY <1>1, <1>3, <1>t DEF Start, Goto
<1>4. ASSUME NEW s, NEW m, Scan(r, s, m) PROVE Progress(r)'
  <2>1. s = "none" /\ m = {} /\ pc'[r] = "apply"
    BY <1>4, <1>t DEF Scan, Goto
  <2>2. ASSUME NEW p \in Paths
        PROVE  plan'[r][p] =
                 Classify(p, scan[r][p], "none", {}, Version[config[r]])'
    BY <1>4, <2>1 DEF Scan, IInv, TypeOK, Classify, Stale, Spared
  <2>3. \A p \in Paths : p \in todo'[r] <=> plan'[r][p] # "keep"
    BY <1>4, <1>t DEF Scan, IInv, TypeOK
  <2>4. locks'[r] = {}
    BY <1>4 DEF Scan, IInv, LocksClosed
  <2>5. QED
    BY <2>1, <2>2, <2>3, <2>4 DEF Progress
<1>b. ASSUME NEW q \in Paths, ApplyRow(r, q) PROVE Progress(r)'
  <2>1. /\ clean[r] /\ pc[r] = "apply" /\ pc'[r] = "apply" /\ q \in todo[r]
        /\ UNCHANGED <<documents, scan, config, plan>>
        /\ todo'[r] = todo[r] \ {q}
    BY <1>b, <1>t DEF ApplyRow, Upcoming, Done
  <2>2. ~Gone(r, q)
    BY <1>p, <2>1 DEF Gone, Progress, Classify
  <2>3. Lock(r, q)
    BY <1>b, <2>2, Zenon DEF ApplyRow
  <2>4. locks'[r] = locks[r] \cup {q}
    BY <2>3, LockTyped DEF IInv, TypeOK
  <2>5. \A p \in Paths : p \in todo'[r] \cup locks'[r] <=> p \in todo[r] \cup locks[r]
    BY <2>1, <2>4
  <2>6. \A p \in Paths :
          Classify(p, scan[r][p], "none", {}, Version[config[r]])' =
            Classify(p, scan[r][p], "none", {}, Version[config[r]])
    BY <2>1 DEF Classify, Stale, Spared
  <2>7. QED
    BY <1>p, <2>1, <2>5, <2>6 DEF Progress
<1>5. CASE CommitPlan(r)
  <2>1. clean[r] /\ pc'[r] = "purge"
    BY <1>5, <1>t DEF CommitPlan, Goto
  <2>2. QED
    BY <1>2, <1>5, <1>p, <2>1, AppliedArrives
<1>6. CASE ApplyFails(r) \/ Finish(r) \/ Crash(r)
  BY <1>1, <1>6, <1>t DEF ApplyFails, Finish, Crash, Leave, Goto
<1>7. CASE PurgeDeleted(r)
  <2>1. clean[r] /\ pc'[r] = "list"
    BY <1>7, <1>t DEF PurgeDeleted, Goto
  <2>2. QED
    BY <1>2, <1>7, <1>p, <2>1, PurgedArrives
<1>8. CASE ListPending(r) \/ ListChunked(r)
  <2>1. clean[r] /\ pc'[r] \in {"chunk", "open"}
    BY <1>8, <1>t DEF ListPending, ListChunked, Goto
  <2>2. QED
    BY <1>2, <1>8, <1>p, <2>1, ListedArrives
<1>9. CASE \/ StoreFails(r)
           \/ \E q \in Paths : CheckSource(r, q) \/ Parse(r, q) \/ LockDocument(r, q)
  <2>1. /\ clean[r] /\ pc[r] \in Chunking /\ pc'[r] \in Chunking
        /\ UNCHANGED <<config, scan, documents, chunks, todo>>
        /\ marks[r] = {}
    BY <1>9, <1>t, EmbeddingStages DEF CheckSource, Parse, LockDocument, StoreFails,
       Goto, Chunking
  <2>2. \A p \in Paths : Arrived(r, p) /\ Rows(p)' = Rows(p)
    BY <1>p, <2>1 DEF Progress, Chunking, Rows
  <2>3. \A p \in Paths : Arrived(r, p)'
    BY <2>1, <2>2, StaysArrived DEF Chunking
  <2>4. QED
    BY <1>2, <2>1, <2>3 DEF Chunking
<1>10. ASSUME NEW q \in Paths, Store(r, q) PROVE Progress(r)'
  <2>1. clean[r] /\ pc'[r] = "chunk"
    BY <1>10, <1>t DEF Store, Goto
  <2>2. QED
    BY <1>2, <1>10, <1>p, <2>1, StoredArrives
\* The steps that record a failure end the claim.
<1>11. ASSUME NEW q \in Paths,
              \/ MarkFailed(r, q) \/ RejectInput(r, q) \/ MarkFails(r, q)
              \/ \E k \in pend[r] : BatchFails(r, q, k)
       PROVE  Progress(r)'
  BY <1>11, <1>t DEF MarkFailed, RejectInput, MarkFails, BatchFails, Failing
\* After one, clean is FALSE.
<1>c. CASE \/ UnsaveBatch(r)
           \/ \E q \in Paths :
                RecordError(r, q) \/ \E k \in pend[r] : UnmarkDocument(r, q, k)
  <2>1. clean[r] /\ pc[r] \in {"unsave", "unmark", "record"}
    BY <1>c DEF RecordError, UnsaveBatch, UnmarkDocument
  <2>2. QED
    BY <1>p, <2>1 DEF Progress
<1>12. ASSUME NEW q \in Paths, OpenDocument(r, q) PROVE Progress(r)'
  <2>1. /\ clean[r] /\ pc[r] = "open" /\ pc'[r] \in {"hold", "embed"}
        /\ UNCHANGED <<config, scan, documents, chunks, todo, marks>>
        /\ ~broken'[r]
    BY <1>12, <1>t DEF OpenDocument, Goto
  <2>2. \A p \in Paths : Arrived(r, p) /\ Rows(p)' = Rows(p)
    BY <1>p, <2>1 DEF Progress, Rows
  <2>3. \A p \in Paths : Arrived(r, p)'
    BY <2>1, <2>2, StaysArrived DEF Embedding
  <2>4. QED
    BY <2>1, <2>3 DEF Progress
<1>13. ASSUME NEW q \in Paths, NEW k \in pend[r], EmbedBatch(r, q, k)
       PROVE  Progress(r)'
  <2>1. /\ clean[r] /\ pc[r] = "embed" /\ ~broken[r]
        /\ UNCHANGED <<config, scan>>
        /\ Commit(r)
    BY <1>13, <1>p DEF EmbedBatch, Progress
  <2>2. pc'[r] \in {"embed", "mark"} /\ todo' = todo /\ ~broken'[r]
    BY <1>13, <1>t, <2>1 DEF EmbedBatch, AfterBatch, Goto
  <2>3. \A p \in Paths : KeepsRows(p)
    BY <1>13, <1>t, EmbeddingKeepsRows DEF EmbedBatch
  <2>4. \A p \in Paths : Arrived(r, p)'
    BY <1>p, <2>1, <2>2, <2>3, CommitArrives DEF Embedding
  <2>5. QED
    BY <2>2, <2>4 DEF Progress
<1>14. ASSUME NEW q \in Paths, MarkIndexed(r, q) \/ HoldIndexed(r, q)
       PROVE  Progress(r)'
  <2>1. clean[r] /\ pc'[r] = "open"
    BY <1>14, <1>t DEF MarkIndexed, HoldIndexed, Failing, CloseDocument, Goto
  <2>2. QED
    BY <1>2, <1>14, <1>p, <2>1, MarkedArrives
<1>15. CASE CloseEmbedding(r)
  <2>1. /\ clean[r] /\ pc[r] = "open" /\ pc'[r] = "lexical" /\ todo[r] = {}
        /\ UNCHANGED <<config, scan, chunks>>
        /\ Commit(r)
    BY <1>15, <1>t DEF CloseEmbedding, Goto
  <2>2. \A p \in Paths : KeepsRows(p)
    BY <2>1 DEF KeepsRows, Rows
  <2>3. \A p \in Paths : Arrived(r, p)'
    BY <1>p, <2>1, <2>2, CommitArrives DEF Embedding
  <2>4. QED
    BY <1>2, <2>1, <2>3
<1>16. ASSUME NEW f, IndexLexical(r, f) PROVE Progress(r)'
  <2>1. /\ clean[r] /\ f = {}
        /\ pc[r] = "lexical" /\ pc'[r] = "finish"
        /\ UNCHANGED <<config, scan, documents, chunks, todo, marks>>
        /\ lex' = Keys(IndexedRows)
    BY <1>16, <1>t DEF IndexLexical, Failing, Goto
  <2>2. \A p \in Paths : Arrived(r, p) /\ Rows(p)' = Rows(p)
    BY <1>p, <2>1 DEF Progress, Rows
  <2>3. \A p \in Paths : Arrived(r, p)'
    BY <2>1, <2>2, StaysArrived
  <2>4. Keys(IndexedRows)' = Keys(IndexedRows)
    BY <2>1 DEF Keys, Key, IndexedRows
  <2>5. QED
    BY <2>1, <2>3, <2>4 DEF Progress
<1>17. ASSUME UNCHANGED <<db, local, pc, todo, held>> PROVE Progress(r)'
  <2>1. \A p \in Paths : Arrived(r, p)' <=> Arrived(r, p)
    BY <1>17 DEF Arrived, Left, Found, Rows
  <2>2. \A p \in Paths :
          Classify(p, scan[r][p], "none", {}, Version[config[r]])' =
            Classify(p, scan[r][p], "none", {}, Version[config[r]])
    BY <1>17 DEF Classify, Stale, Spared
  <2>3. Keys(IndexedRows)' = Keys(IndexedRows)
    BY <1>17 DEF Keys, Key, IndexedRows
  <2>4. QED
    BY <1>17, <1>p, <2>1, <2>2, <2>3 DEF Progress
<1>18. ASSUME NEW p \in Paths, Edit(p) PROVE Progress(r)'
  BY <1>17, <1>18 DEF Edit
<1>19. CASE UNCHANGED vars
  BY <1>17, <1>19 DEF vars
<1>20. CASE RunStep(r)
  BY <1>20, <1>4, <1>5, <1>6, <1>7, <1>8, <1>9, <1>10, <1>11, <1>12, <1>13, <1>14,
     <1>15, <1>16, <1>b, <1>c DEF RunStep, Victim
<1>21. CASE FaultStep(r)
  BY <1>21, <1>4, <1>6, <1>9, <1>11, <1>16 DEF FaultStep
<1>22. CASE Next
  <2>1. \/ \E p \in Paths : Edit(p)
        \/ \E k \in Configs : Start(r, k)
        \/ RunStep(r)
        \/ FaultStep(r)
    BY <1>a, <1>22 DEF Next
  <2>2. QED
    BY <2>1, <1>3, <1>18, <1>20, <1>21
<1>23. QED
  BY <1>19, <1>22

\* A run is not reported as completed before it is finished.
Unfinished(r) == pc[r] \notin {"idle", "scan"} => runs[r] # "completed"
Unreported == \A r \in Runs : Unfinished(r)

LEMMA UnreportedStep ==
  ASSUME Alone, TypeOK, Unreported, [Next]_vars, NEW r \in Runs
  PROVE  Unfinished(r)'
<1> USE DEF db
<1>a. \A o \in Runs : o = r
  BY DEF Alone
<1>t. /\ pc \in [Runs -> Stages]
      /\ runs \in [Runs -> {"none", "running", "partial", "completed", "failed"}]
  BY DEF TypeOK
<1>1. ASSUME UNCHANGED runs, pc[r] \notin {"idle", "scan"} PROVE Unfinished(r)'
  BY <1>1 DEF Unreported, Unfinished
<1>2. ASSUME pc'[r] \in {"idle", "scan"} PROVE Unfinished(r)'
  BY <1>2 DEF Unfinished
<1>3. ASSUME runs'[r] \in {"running", "partial"} PROVE Unfinished(r)'
  BY <1>3 DEF Unfinished
<1>4. ASSUME NEW k \in Configs, Start(r, k) PROVE Unfinished(r)'
  BY <1>2, <1>4, <1>t DEF Start, Goto
<1>5. CASE CommitPlan(r) \/ \E s, m : Scan(r, s, m)
  BY <1>3, <1>5, <1>t DEF Scan, CommitPlan
<1>6. CASE ApplyFails(r) \/ Finish(r) \/ Crash(r)
  BY <1>2, <1>6, <1>t DEF ApplyFails, Finish, Crash, Leave, Goto
<1>7. CASE \/ PurgeDeleted(r) \/ ListPending(r) \/ ListChunked(r) \/ CloseEmbedding(r)
           \/ StoreFails(r) \/ UnsaveBatch(r) \/ \E f : IndexLexical(r, f)
  BY <1>1, <1>7 DEF PurgeDeleted, ListPending, ListChunked, CloseEmbedding,
     StoreFails, UnsaveBatch, IndexLexical
<1>8. ASSUME NEW q \in Paths,
             \/ CheckSource(r, q) \/ Parse(r, q) \/ Store(r, q) \/ MarkFailed(r, q)
             \/ ApplyRow(r, q) \/ RecordError(r, q) \/ LockDocument(r, q)
      PROVE  Unfinished(r)'
  BY <1>1, <1>8 DEF CheckSource, Parse, Store, MarkFailed, ApplyRow, RecordError,
     LockDocument
<1>9. ASSUME NEW q \in Paths,
             \/ OpenDocument(r, q) \/ RejectInput(r, q) \/ MarkIndexed(r, q)
             \/ HoldIndexed(r, q) \/ MarkFails(r, q)
             \/ \E k \in pend[r] : \/ EmbedBatch(r, q, k) \/ BatchFails(r, q, k)
                                   \/ UnmarkDocument(r, q, k)
      PROVE  Unfinished(r)'
  BY <1>1, <1>9 DEF OpenDocument, RejectInput, MarkIndexed, HoldIndexed, MarkFails,
     EmbedBatch, BatchFails, UnmarkDocument
<1>10. ASSUME UNCHANGED <<runs, pc>> PROVE Unfinished(r)'
  BY <1>10 DEF Unfinished, Unreported
<1>11. CASE UNCHANGED vars \/ \E p \in Paths : Edit(p)
  BY <1>10, <1>11 DEF vars, Edit
<1>12. CASE RunStep(r)
  BY <1>12, <1>5, <1>6, <1>7, <1>8, <1>9 DEF RunStep, Victim
<1>13. CASE FaultStep(r)
  BY <1>13, <1>5, <1>6, <1>7, <1>9 DEF FaultStep
<1>14. QED
  BY <1>a, <1>4, <1>11, <1>12, <1>13 DEF Next

\* All that holds of one process at a time.
AloneInv == /\ IInv /\ HashInv
            /\ TaskInv /\ AgreeInv /\ RowsInv /\ ProgressInv /\ Unreported

\* The inductive invariant of one run after another: the lists a run works
\* through stay true, rows agree with their documents, and as long as nothing has
\* failed every note is where the stage of the run (indexing/orchestrator.py)
\* should have brought it.
THEOREM AloneInvariant ==
  ASSUME Alone
  PROVE  Spec => []AloneInv
<1>1. Init => TaskInv /\ AgreeInv /\ RowsInv /\ ProgressInv /\ Unreported
  BY DEF Init, TaskInv, ChunkTask, EmbedTask, AgreeInv, Marked, RowsInv, RowsAgree,
     Rows, VersionTask, ProgressInv, Progress, Unreported, Unfinished
<1>2. ASSUME IInv, TaskInv, AgreeInv, RowsInv, ProgressInv, Unreported, [Next]_vars
      PROVE  TaskInv' /\ AgreeInv' /\ RowsInv' /\ ProgressInv' /\ Unreported'
  <2>1. TaskInv' /\ AgreeInv'
    BY <1>2, TaskStep, AgreeStep
  <2>2. RowsInv'
    BY <1>2, RowsStep, VersionStep DEF RowsInv
  <2>3. ProgressInv'
    BY <1>2, ProgressStep DEF ProgressInv
  <2>4. Unreported'
    BY <1>2, UnreportedStep DEF Unreported, IInv
  <2>5. QED
    BY <2>1, <2>2, <2>3, <2>4
<1>3. QED
  BY <1>1, <1>2, IndexInvariant, HashInvariant, PTL DEF Spec, AloneInv

\* The only step that reports a run as completed is Finish of a clean run.
LEMMA FinishedIsClean ==
  ASSUME TypeOK, Unreported, Alone, [Next]_vars, NEW r \in Runs, Finished(r)
  PROVE  clean[r] /\ UNCHANGED <<documents, chunks, lex>>
<1> USE DEF db, local, held, env
<1>1. /\ pc[r] = "finish" /\ pc'[r] = "idle" /\ runs'[r] = "completed"
      /\ runs[r] # "completed"
      /\ pc \in [Runs -> Stages]
  BY DEF Finished, Unreported, Unfinished, TypeOK
<1>a. \A o \in Runs : o = r
  BY DEF Alone
<1>2. CASE Finish(r)
  BY <1>1, <1>2 DEF Finish, TypeOK
<1>3. ASSUME UNCHANGED runs PROVE FALSE
  BY <1>1, <1>3
<1>4. CASE \/ \E k \in Configs : Start(r, k)
           \/ \E s, m : Scan(r, s, m)
           \/ CommitPlan(r) \/ ApplyFails(r)
  BY <1>1, <1>4 DEF Start, Scan, CommitPlan, ApplyFails
<1>5. CASE \/ PurgeDeleted(r) \/ ListPending(r) \/ ListChunked(r) \/ CloseEmbedding(r)
           \/ StoreFails(r) \/ UnsaveBatch(r) \/ Crash(r)
           \/ \E f : IndexLexical(r, f)
  BY <1>3, <1>5 DEF PurgeDeleted, ListPending, ListChunked, CloseEmbedding,
     StoreFails, UnsaveBatch, Crash, IndexLexical
<1>6. ASSUME NEW q \in Paths,
             \/ CheckSource(r, q) \/ Parse(r, q) \/ Store(r, q) \/ MarkFailed(r, q)
             \/ ApplyRow(r, q) \/ RecordError(r, q) \/ LockDocument(r, q)
      PROVE  FALSE
  BY <1>3, <1>6 DEF CheckSource, Parse, Store, MarkFailed, ApplyRow, RecordError,
     LockDocument
<1>7. ASSUME NEW q \in Paths,
             \/ OpenDocument(r, q) \/ RejectInput(r, q) \/ MarkIndexed(r, q)
             \/ HoldIndexed(r, q) \/ MarkFails(r, q)
             \/ \E k \in pend[r] : \/ EmbedBatch(r, q, k) \/ BatchFails(r, q, k)
                                   \/ UnmarkDocument(r, q, k)
      PROVE  FALSE
  BY <1>3, <1>7 DEF OpenDocument, RejectInput, MarkIndexed, HoldIndexed, MarkFails,
     EmbedBatch, BatchFails, UnmarkDocument
<1>8. CASE UNCHANGED vars \/ \E p \in Paths : Edit(p)
  BY <1>3, <1>8 DEF vars, Edit
<1>9. CASE RunStep(r)
  BY <1>9, <1>2, <1>4, <1>5, <1>6, <1>7 DEF RunStep, Victim
<1>10. CASE FaultStep(r)
  BY <1>10, <1>4, <1>5, <1>7 DEF FaultStep
<1>11. QED
  BY <1>a, <1>4, <1>8, <1>9, <1>10 DEF Next

\* A completed run has done what it says: every note of its scan is in the index
\* with all chunks of the scanned content, embedded and with lexical statistics,
\* and nothing of the notes it did not find is left.  No failure on the way is
\* forgotten (indexing/orchestrator.py:204).  A note edited between its hash check
\* and its parse has all chunks of one other content instead.
THEOREM CompletedIsUpToDate ==
  ASSUME Alone
  PROVE  Spec => CompletedMeansUpToDate
<1>1. ASSUME AloneInv, [Next]_vars, NEW r \in Runs, Finished(r), NEW p \in Paths
      PROVE  UpToDate(r, p)
  <2>1. /\ Arrived(r, p) /\ lex = Keys(IndexedRows)
        /\ pc[r] = "finish"
    BY <1>1, FinishedIsClean DEF AloneInv, IInv, ProgressInv, Progress, Finished
  <2>2. CASE scan[r][p] = Absent
    BY <2>1, <2>2 DEF Arrived, Left, UpToDate
  <2>3. CASE scan[r][p] # Absent
    <3>1. documents[p].status = "indexed" /\ documents[p].hash = scan[r][p]
      BY <2>1, <2>3 DEF Arrived, Found
    <3>2. \A c \in Rows(p) : Key(c) \in lex
      BY <2>1, <3>1 DEF Keys, IndexedRows, Rows
    <3>3. \E t \in Contents :
            /\ t = scan[r][p] \/ p \in slipped
            /\ {c.no : c \in Rows(p)} = 1 .. ChunkCount[t]
            /\ \A c \in Rows(p) : c.text = t
      <4>1. CASE p \notin slipped
        <5>1. scan[r][p] \in Contents
          BY <1>1, <2>3 DEF AloneInv, IInv, TypeOK, Texts
        <5>2. HashTrue(p)
          BY <1>1 DEF AloneInv, HashInv
        <5>3. HasText(p, scan[r][p]) /\ Numbered(p, scan[r][p])
          BY <3>1, <4>1, <5>2 DEF HashTrue
        <5>4. QED
          BY <5>1, <5>3 DEF HasText, Numbered
      <4>2. CASE p \in slipped
        <5>1. WholeRows(p)
          BY <1>1, <3>1 DEF AloneInv, IInv, StoreInv, ChunkedIsWhole
        <5>2. QED
          BY <4>2, <5>1 DEF WholeRows
      <4>3. QED
        BY <4>1, <4>2
    <3>4. QED
      BY <2>3, <3>1, <3>2, <3>3 DEF UpToDate
  <2>4. QED
    BY <2>2, <2>3
<1>2. AloneInv /\ [Next]_vars =>
        [\A r \in Runs : Finished(r) => \A p \in Paths : UpToDate(r, p)]_vars
  BY <1>1
<1>3. QED
  BY <1>2, AloneInvariant, PTL DEF Spec, CompletedMeansUpToDate

\* Whatever is served after a completed run was cut by its parser and chunker, and
\* embedded under the configuration that search filters by: for any configurations,
\* also such that share both versions, of which the planner keeps the notes of
\* either (planner.py:45).
THEOREM CompletedServes ==
  ASSUME Alone
  PROVE  Spec => CompletedServesVersion
<1>1. ASSUME AloneInv, [Next]_vars, NEW r \in Runs, Finished(r),
             NEW c \in IndexedRows
      PROVE  Version[c.config] = Version[config[r]] /\ c.vec = c.config
  <2> DEFINE p == c.path
  <2>1. /\ c \in Row /\ p \in Paths /\ c \in Rows(p)
        /\ documents[p].status = "indexed"
    BY <1>1 DEF IndexedRows, AloneInv, IInv, TypeOK, Row, Rows
  <2>2. pc[r] = "finish"
    BY <1>1 DEF Finished
  <2>3. Arrived(r, p)
    BY <1>1, <2>1, <2>2, FinishedIsClean DEF AloneInv, IInv, ProgressInv, Progress
  <2>4. documents[p].version = Version[config[r]]
    BY <2>1, <2>3 DEF Arrived, Left, Found
  <2>5. Version[c.config] = documents[p].version
    BY <1>1, <2>1 DEF AloneInv, RowsInv, RowsAgree, OfVersion
  <2>6. c.vec = c.config
    BY <1>1, <2>1 DEF AloneInv, AgreeInv, IsVector
  <2>7. QED
    BY <2>4, <2>5, <2>6
<1>2. AloneInv /\ [Next]_vars =>
        [\A r \in Runs : Finished(r) =>
           \A c \in IndexedRows :
             Version[c.config] = Version[config[r]] /\ c.vec = c.config]_vars
  BY <1>1
<1>3. QED
  BY <1>2, AloneInvariant, PTL DEF Spec, CompletedServesVersion

=============================================================================
