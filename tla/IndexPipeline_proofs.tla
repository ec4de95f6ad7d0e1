------------------------ MODULE IndexPipeline_proofs ------------------------
(***************************************************************************)
(* Proofs about the index run, for any number of processes, notes,         *)
(* contents, configurations, edits and faults: type correctness, that      *)
(* whatever is searchable is complete, that the run implements             *)
(* SearchIndex, which runs can wait for each other in a circle, that the   *)
(* chunks of an indexed document have its hash, and that only notes that   *)
(* are gone are planned for deletion.                                      *)
(*                                                                         *)
(* SearchableComplete is not inductive: MarkIndexed and Commit make a      *)
(* document searchable, so IInv also says that a chunked document has one  *)
(* whole insertion of rows (ChunkedIsWhole) and that a pending mark is     *)
(* locked and embedded (HeldMarksJustified).  The locks protect the mark   *)
(* only if a process writes elsewhere without holding any (LocksClosed).   *)
(*                                                                         *)
(* Circles: a run asks for the rows of its plan section by section, and in *)
(* path order within a section and in its embedding loop (InOrder).  In a  *)
(* circle without deletion, restoration and record of a failed batch each  *)
(* run asks for a later note than one another run asks it for, or for a    *)
(* known one while that one is being added (CircleGrows); of finitely many *)
(* notes one is last.                                                      *)
(*                                                                         *)
(* Hashes: a process works from a scan and from lists that other processes *)
(* and the user outdate (HashInv).  What it stores has passed the check    *)
(* against the listed hash; if another run has put a new hash into the     *)
(* document meanwhile, that run has seen the note as it is, so the check   *)
(* fails.                                                                  *)
(***************************************************************************)
EXTENDS IndexPipeline, FiniteSetTheorems, TLAPS

\* A running process knows its configuration, and a parsed text is a content.
RunKnown ==
  \A r \in Runs :
    /\ pc[r] # "idle" => config[r] \in Configs
    /\ pc[r] \in {"store", "replace"} => text[r] \in Contents

\* Rows stay locked only while a plan is applied, while chunks are replaced, and in
\* the embedding loop, but not between the commit of a document's last batch and
\* its mark, and not while an error is recorded.  Marks are pending in the
\* embedding loop only.
LocksClosed ==
  \A r \in Runs :
    /\ pc[r] \notin {"apply", "replace", "open", "embed", "hold"} => locks[r] = {}
    /\ pc[r] \notin {"open", "embed", "hold"} => marks[r] = {}

ChunkedIsWhole ==
  \A p \in Paths : documents[p].status \in {"chunked", "indexed"} => WholeRows(p)

IndexedIsEmbedded ==
  \A p \in Paths : documents[p].status = "indexed" =>
    \A c \in Rows(p) : c.vec # NoConfig

IInv == /\ TypeOK
        /\ RunKnown
        /\ LocksClosed
        /\ HeldMarksJustified
        /\ ChunkedIsWhole
        /\ IndexedIsEmbedded

USE PathsAssumption, AbsentAssumption, CountAssumption, BoundAssumption,
    StageAssumption

LEMMA StatusTyped ==
  ASSUME documents \in [Paths -> Document], NEW p, NEW s \in Statuses,
         SetStatus(p, s)
  PROVE  documents' \in [Paths -> Document]
<1>1. \A q \in Paths : [documents[q] EXCEPT !.status = s] \in Document
  BY DEF Document
<1> QED
  BY <1>1 DEF SetStatus

LEMMA CommitTyped ==
  ASSUME documents \in [Paths -> Document], NEW r \in Runs,
         locks \in [Runs -> SUBSET Paths], marks \in [Runs -> SUBSET Paths],
         Commit(r)
  PROVE  /\ documents' \in [Paths -> Document]
         /\ locks' \in [Runs -> SUBSET Paths]
         /\ marks' \in [Runs -> SUBSET Paths]
<1>1. \A q \in Paths : [documents[q] EXCEPT !.status = "indexed"] \in Document
  BY DEF Document, Statuses
<1> QED
  BY <1>1 DEF Commit

LEMMA KeysTyped ==
  ASSUME NEW S \in SUBSET Row
  PROVE  Keys(S) \subseteq Paths \X Gens \X Nat
BY DEF Keys, Key, Row

LEMMA LockTyped ==
  ASSUME locks \in [Runs -> SUBSET Paths], NEW r \in Runs, NEW p \in Paths, Lock(r, p)
  PROVE  /\ locks' \in [Runs -> SUBSET Paths]
         /\ \A o \in Runs : locks'[o] = IF o = r THEN locks[o] \cup {p} ELSE locks[o]
<1>1. locks[r] \cup {p} \in SUBSET Paths
  OBVIOUS
<1> QED
  BY <1>1 DEF Lock

LEMMA AfterBatchTyped ==
  ASSUME TypeOK, NEW r \in Runs, NEW p \in Paths, NEW k \in pend[r],
         NEW failed \in BOOLEAN, AfterBatch(r, p, k, failed)
  PROVE  /\ pend' \in [Runs -> SUBSET (Paths \X Gens \X Nat)]
         /\ expect' \in [Runs -> SUBSET (Paths \X Gens \X Nat)]
         /\ broken' \in [Runs -> BOOLEAN]
         /\ pc' \in [Runs -> Stages]
         /\ todo' \in [Runs -> SUBSET Paths]
<1>1. pend' \in [Runs -> SUBSET (Paths \X Gens \X Nat)]
  BY DEF AfterBatch, TypeOK
<1>2. broken' \in [Runs -> BOOLEAN]
  <2>1. (failed /\ pend[r] # {k}) \in BOOLEAN
    OBVIOUS
  <2> QED
    BY <2>1 DEF AfterBatch, TypeOK
<1>3. /\ expect' \in [Runs -> SUBSET (Paths \X Gens \X Nat)]
      /\ pc' \in [Runs -> Stages]
      /\ todo' \in [Runs -> SUBSET Paths]
  <2>1. CASE pend[r] # {k}
    BY <2>1 DEF AfterBatch, TypeOK, Goto, Stages
  <2>2. CASE pend[r] = {k} /\ failed
    <3>1. /\ Goto(r, "open")
          /\ Done(r, p)
          /\ expect' = [expect EXCEPT ![r] = {}]
      BY <2>2, Zenon DEF AfterBatch
    <3> QED
      BY <3>1 DEF TypeOK, Goto, Done, Stages
  <2>3. CASE pend[r] = {k} /\ ~failed
    BY <2>3 DEF AfterBatch, TypeOK, Goto, Stages
  <2> QED
    BY <2>1, <2>2, <2>3
<1> QED
  BY <1>1, <1>2, <1>3

LEMMA NewRowsTyped ==
  ASSUME NEW p \in Paths, NEW g \in Gens, NEW t \in Contents, NEW k \in Configs
  PROVE  NewRows(p, g, t, k) \subseteq Row
<1>1. \A i \in 1 .. ChunkCount[t] :
        [path |-> p, gen |-> g, no |-> i, text |-> t, config |-> k,
         vec |-> NoConfig, done |-> FALSE] \in Row
  BY DEF Row
<1> QED
  BY <1>1, Zenon DEF NewRows

LEMMA EmbeddedTyped ==
  ASSUME chunks \subseteq Row, NEW k, NEW v \in Configs
  PROVE  Embedded(k, v) \subseteq Row
<1>1. \A c \in chunks : [c EXCEPT !.vec = v, !.done = TRUE] \in Row
  BY DEF Row
<1> QED
  BY <1>1 DEF Embedded

LEMMA EmbeddingFailedTyped ==
  ASSUME chunks \subseteq Row, NEW k
  PROVE  EmbeddingFailed(k) \subseteq Row
<1>1. \A c \in chunks : [c EXCEPT !.done = FALSE] \in Row
  BY DEF Row
<1> QED
  BY <1>1 DEF EmbeddingFailed

LEMMA TypeStep == TypeOK /\ RunKnown /\ [Next]_vars => TypeOK'
<1> SUFFICES ASSUME TypeOK, RunKnown, [Next]_vars PROVE TypeOK'
  OBVIOUS
<1> USE DEF TypeOK, RunKnown, Texts, Stages, db, local, held, env, Goto, Failing, Done,
            Fault, SetStatus
<1>1. ASSUME NEW p \in Paths, Edit(p) PROVE TypeOK'
  BY <1>1 DEF Edit
<1>2. ASSUME NEW r \in Runs, NEW k \in Configs, Start(r, k) PROVE TypeOK'
  BY <1>2 DEF Start
<1>3. ASSUME NEW r \in Runs, NEW s \in ScanStages \cup {"none"}, NEW m \in SUBSET Paths, Scan(r, s, m)
      PROVE  TypeOK'
  <2>1. faults' \in Nat
    BY <1>3 DEF Scan
  <2>2. /\ scan' \in [Runs -> [Paths -> Texts]]
        /\ plan' \in [Runs -> [Paths -> {"keep", "add", "modify", "restore", "delete"}]]
        /\ todo' \in [Runs -> SUBSET Paths]
    BY <1>3 DEF Scan, Classify
  <2>3. /\ clean' \in [Runs -> BOOLEAN]
        /\ runs' \in [Runs -> {"none", "running", "partial", "completed", "failed"}]
        /\ pc' \in [Runs -> Stages]
        /\ UNCHANGED <<documents, chunks, lex, disk, slipped, edits, config, hash,
                       text, expect, pend, broken, held>>
    BY <1>3 DEF Scan
  <2> QED
    BY <2>1, <2>2, <2>3
<1>4. ASSUME NEW r \in Runs, CommitPlan(r) PROVE TypeOK'
  <2>1. \A q \in Paths : documents'[q] \in Document
    <3> TAKE q \in Paths
    <3>1. Version[config[r]] \in Versions /\ scan[r][q] \in Texts
      BY <1>4 DEF CommitPlan, Versions
    <3>2. [status |-> "pending", hash |-> scan[r][q],
           version |-> Version[config[r]]] \in Document
      BY <3>1 DEF Document, Statuses
    <3>3. documents[q] \in Document
      OBVIOUS
    <3>4. [documents[q] EXCEPT !.status = "deleted"] \in Document
      BY <3>3 DEF Document, Statuses
    <3> QED
      BY <1>4, <3>2, <3>3, <3>4 DEF CommitPlan
  <2>2. documents' = [q \in Paths |-> documents'[q]]
    BY <1>4 DEF CommitPlan
  <2> QED
    BY <1>4, <2>1, <2>2 DEF CommitPlan
<1>5. ASSUME NEW r \in Runs, ApplyFails(r) PROVE TypeOK'
  <2>1. faults' \in Nat
    BY <1>5 DEF ApplyFails, Aborted
  <2> QED
    BY <1>5, <2>1 DEF ApplyFails, Leave, Rollback
<1>6. ASSUME NEW r \in Runs, PurgeDeleted(r) PROVE TypeOK'
  BY <1>6 DEF PurgeDeleted
<1>7. ASSUME NEW r \in Runs, ListPending(r) PROVE TypeOK'
  <2>1. \A q \in Paths : documents[q].hash \in Texts
    BY DEF Document
  <2>2. hash' \in [Runs -> [Paths -> Texts]]
    BY <1>7, <2>1 DEF ListPending
  <2> QED
    BY <1>7, <2>2 DEF ListPending, AtVersion
<1>8. ASSUME NEW r \in Runs, ListChunked(r) PROVE TypeOK'
  BY <1>8 DEF ListChunked, AtVersion
<1>9. ASSUME NEW r \in Runs, CloseEmbedding(r) PROVE TypeOK'
  BY <1>9, CommitTyped DEF CloseEmbedding
<1>10. ASSUME NEW r \in Runs, NEW f \in SUBSET Keys(chunks), IndexLexical(r, f)
       PROVE  TypeOK'
  <2>1. Keys(IndexedRows) \subseteq Paths \X Gens \X Nat
    BY KeysTyped DEF IndexedRows
  <2>2. lex' \subseteq Paths \X Gens \X Nat
    BY <1>10, <2>1 DEF IndexLexical
  <2>3. faults' \in Nat /\ clean' \in [Runs -> BOOLEAN]
    <3>1. CASE f = {}
      BY <1>10, <3>1 DEF IndexLexical
    <3>2. CASE f # {}
      <4>1. Fault /\ Failing(r)
        BY <1>10, <3>2 DEF IndexLexical
      <4> QED
        BY <4>1
    <3> QED
      BY <3>1, <3>2
  <2>4. /\ pc' \in [Runs -> Stages]
        /\ UNCHANGED <<documents, chunks, runs, disk, slipped, edits, config,
                       plan, scan, hash, text, expect, pend, broken, todo, held>>
    BY <1>10 DEF IndexLexical
  <2> QED
    BY <2>2, <2>3, <2>4
<1>11. ASSUME NEW r \in Runs, Finish(r) PROVE TypeOK'
  BY <1>11 DEF Finish, Leave
<1>12. ASSUME NEW r \in Runs, NEW p \in Paths, CheckSource(r, p) PROVE TypeOK'
  BY <1>12 DEF CheckSource
<1>13. ASSUME NEW r \in Runs, NEW p \in Paths, Parse(r, p) PROVE TypeOK'
  BY <1>13 DEF Parse
<1>14. ASSUME NEW r \in Runs, NEW p \in Paths, Store(r, p) PROVE TypeOK'
  <2>1. chunks' \subseteq Row
    <3>1. PICK g \in Gens : chunks' = Replaced(p, NewRows(p, g, text[r], config[r]))
      BY <1>14 DEF Store
    <3>2. text[r] \in Contents /\ config[r] \in Configs
      BY <1>14 DEF Store
    <3>3. NewRows(p, g, text[r], config[r]) \subseteq Row
      BY <3>2, NewRowsTyped
    <3> QED
      BY <3>1, <3>3 DEF Replaced
  <2>2. documents' \in [Paths -> Document]
    BY <1>14, StatusTyped DEF Store, Statuses
  <2> QED
    BY <1>14, <2>1, <2>2 DEF Store
<1>15. ASSUME NEW r \in Runs, StoreFails(r) PROVE TypeOK'
  <2>1. faults' \in Nat
    BY <1>15 DEF StoreFails, Aborted
  <2> QED
    BY <1>15, <2>1 DEF StoreFails, Rollback
<1>16. ASSUME NEW r \in Runs, NEW p \in Paths, MarkFailed(r, p) PROVE TypeOK'
  <2>1. documents' \in [Paths -> Document]
    BY <1>16, StatusTyped DEF MarkFailed, Statuses
  <2> QED
    BY <1>16, <2>1 DEF MarkFailed
<1>17. ASSUME NEW r \in Runs, NEW p \in Paths, OpenDocument(r, p) PROVE TypeOK'
  BY <1>17 DEF OpenDocument, Keys, Key, Rows, Row
<1>18. ASSUME NEW r \in Runs, NEW p \in Paths, RejectInput(r, p) PROVE TypeOK'
  BY <1>18 DEF RejectInput, Rollback
<1>a. ASSUME NEW r \in Runs, NEW p \in Paths, ApplyRow(r, p) PROVE TypeOK'
  <2>1. locks' \in [Runs -> SUBSET Paths]
    <3>1. locks' = locks \/ Lock(r, p)
      BY <1>a DEF ApplyRow
    <3> QED
      BY <3>1, LockTyped
  <2> QED
    BY <1>a, <2>1 DEF ApplyRow
<1>b. ASSUME NEW r \in Runs, NEW p \in Paths, RecordError(r, p) PROVE TypeOK'
  BY <1>b DEF RecordError, CloseDocument
<1>d. ASSUME NEW r \in Runs, NEW p \in Paths, LockDocument(r, p) PROVE TypeOK'
  <2>1. locks' \in [Runs -> SUBSET Paths]
    BY <1>d, LockTyped DEF LockDocument
  <2> QED
    BY <1>d, <2>1 DEF LockDocument
<1>e. ASSUME NEW r \in Runs, UnsaveBatch(r) PROVE TypeOK'
  BY <1>e DEF UnsaveBatch
<1>19. ASSUME NEW r \in Runs, NEW p \in Paths, NEW k \in pend[r], EmbedBatch(r, p, k)
       PROVE  TypeOK'
  <2>1. config[r] \in Configs
    BY <1>19 DEF EmbedBatch
  <2>2. chunks' \subseteq Row
    BY <1>19, <2>1, EmbeddedTyped DEF EmbedBatch
  <2>3. Commit(r) /\ AfterBatch(r, p, k, broken[r])
    BY <1>19 DEF EmbedBatch
  <2>4. /\ pend' \in [Runs -> SUBSET (Paths \X Gens \X Nat)]
        /\ expect' \in [Runs -> SUBSET (Paths \X Gens \X Nat)]
        /\ broken' \in [Runs -> BOOLEAN]
        /\ pc' \in [Runs -> Stages]
        /\ todo' \in [Runs -> SUBSET Paths]
    BY <2>3, AfterBatchTyped
  <2> QED
    BY <1>19, <2>2, <2>3, <2>4, CommitTyped DEF EmbedBatch
<1>20. ASSUME NEW r \in Runs, NEW p \in Paths, NEW k \in pend[r], BatchFails(r, p, k)
       PROVE  TypeOK'
  <2>1. faults' \in Nat
    BY <1>20 DEF BatchFails, Aborted
  <2> QED
    BY <1>20, <2>1 DEF BatchFails, Rollback
<1>c. ASSUME NEW r \in Runs, NEW p \in Paths, NEW k \in pend[r], UnmarkDocument(r, p, k)
      PROVE  TypeOK'
  <2>1. chunks' \subseteq Row
    BY <1>c, EmbeddingFailedTyped DEF UnmarkDocument
  <2>2. AfterBatch(r, p, k, TRUE)
    BY <1>c DEF UnmarkDocument
  <2>3. /\ pend' \in [Runs -> SUBSET (Paths \X Gens \X Nat)]
        /\ expect' \in [Runs -> SUBSET (Paths \X Gens \X Nat)]
        /\ broken' \in [Runs -> BOOLEAN]
        /\ pc' \in [Runs -> Stages]
        /\ todo' \in [Runs -> SUBSET Paths]
    BY <2>2, AfterBatchTyped
  <2>4. UNCHANGED <<documents, lex, runs, env, config, plan, scan, hash, text,
                    clean, held>>
    BY <1>c DEF UnmarkDocument
  <2> QED
    BY <2>1, <2>3, <2>4
<1>21. ASSUME NEW r \in Runs, NEW p \in Paths, MarkIndexed(r, p) PROVE TypeOK'
  <2>1. documents' \in [Paths -> Document]
    BY <1>21, StatusTyped DEF MarkIndexed, Statuses
  <2> QED
    BY <1>21, <2>1 DEF MarkIndexed, CloseDocument
<1>22. ASSUME NEW r \in Runs, NEW p \in Paths, HoldIndexed(r, p) PROVE TypeOK'
  <2>1. /\ locks' \in [Runs -> SUBSET Paths]
        /\ marks' \in [Runs -> SUBSET Paths]
        /\ clean' \in [Runs -> BOOLEAN]
    <3>1. /\ Lock(r, p)
          /\ \/ marks' = [marks EXCEPT ![r] = @ \cup {p}] /\ UNCHANGED clean
             \/ Failing(r) /\ UNCHANGED marks
      BY <1>22, Zenon DEF HoldIndexed
    <3>2. locks' \in [Runs -> SUBSET Paths]
      BY <3>1, LockTyped
    <3>3. marks[r] \cup {p} \in SUBSET Paths
      OBVIOUS
    <3>4. marks' \in [Runs -> SUBSET Paths]
      BY <3>1, <3>3
    <3>5. clean' \in [Runs -> BOOLEAN]
      BY <3>1
    <3> QED
      BY <3>2, <3>4, <3>5
  <2>2. UNCHANGED <<db, env, config, plan, scan, hash, text, pend>>
    BY <1>22 DEF HoldIndexed, Lock
  <2>3. CloseDocument(r, p)
    BY <1>22 DEF HoldIndexed, Lock
  <2> QED
    BY <2>1, <2>2, <2>3 DEF CloseDocument
<1>23. ASSUME NEW r \in Runs, NEW p \in Paths, MarkFails(r, p) PROVE TypeOK'
  <2>1. faults' \in Nat
    BY <1>23 DEF MarkFails, Aborted
  <2> QED
    BY <1>23, <2>1 DEF MarkFails, Rollback
<1>24. ASSUME NEW r \in Runs, Crash(r) PROVE TypeOK'
  <2>1. faults' \in Nat
    BY <1>24 DEF Crash, Aborted
  <2> QED
    BY <1>24, <2>1 DEF Crash, Leave, Rollback
<1>25. CASE UNCHANGED vars
  BY <1>25 DEF vars, Row, Statuses, Versions
<1> HIDE DEF TypeOK, RunKnown
<1>26. CASE Next
  <2>1. ASSUME NEW r \in Runs, RunStep(r) PROVE TypeOK'
    <3>1. ASSUME Victim(r) PROVE TypeOK'
      BY <3>1, <1>5, <1>15, <1>23, <1>24 DEF Victim
    <3>2. ASSUME NEW p \in Paths, NEW k \in pend[r],
                 EmbedBatch(r, p, k) \/ UnmarkDocument(r, p, k)
          PROVE  TypeOK'
      BY <3>2, <1>19, <1>c
    <3> QED
      BY <2>1, <3>1, <3>2, <1>3, <1>4, <1>5, <1>6, <1>7, <1>8, <1>9, <1>10, <1>11,
         <1>12, <1>13, <1>14, <1>16, <1>17, <1>18, <1>a, <1>b, <1>d, <1>e, <1>21,
         <1>22 DEF RunStep
  <2>2. ASSUME NEW r \in Runs, FaultStep(r) PROVE TypeOK'
    BY <2>2, <1>3, <1>5, <1>10, <1>15, <1>20, <1>23, <1>24 DEF FaultStep
  <2> QED
    BY <1>26, <1>1, <1>2, <2>1, <2>2 DEF Next
<1> QED
  BY <1>25, <1>26

LEMMA ControlStep ==
  ASSUME TypeOK, RunKnown, LocksClosed, [Next]_vars
  PROVE  RunKnown' /\ LocksClosed'
<1> USE DEF RunKnown, LocksClosed, Goto
<1>t. /\ pc \in [Runs -> Stages]
      /\ config \in [Runs -> Configs \cup {NoConfig}]
      /\ text \in [Runs -> Texts]
      /\ locks \in [Runs -> SUBSET Paths]
      /\ marks \in [Runs -> SUBSET Paths]
      /\ disk \in [Paths -> Texts]
  BY DEF TypeOK
<1>1. ASSUME NEW p \in Paths, Edit(p) PROVE RunKnown' /\ LocksClosed'
  BY <1>1 DEF Edit, local, held
<1>2. ASSUME NEW r \in Runs, NEW k \in Configs, Start(r, k)
      PROVE  RunKnown' /\ LocksClosed'
  BY <1>t, <1>2 DEF Start, held
<1>3. ASSUME NEW r \in Runs, NEW s, NEW m, Scan(r, s, m)
      PROVE  RunKnown' /\ LocksClosed'
  BY <1>t, <1>3 DEF Scan, held
<1>4. ASSUME NEW r \in Runs, CommitPlan(r) PROVE RunKnown' /\ LocksClosed'
  BY <1>t, <1>4 DEF CommitPlan
<1>5. ASSUME NEW r \in Runs, ApplyFails(r) PROVE RunKnown' /\ LocksClosed'
  BY <1>t, <1>5 DEF ApplyFails, Leave, Rollback
<1>a. ASSUME NEW r \in Runs, NEW p \in Paths, ApplyRow(r, p)
      PROVE  RunKnown' /\ LocksClosed'
  BY <1>t, <1>a DEF ApplyRow, Lock, local
<1>b. ASSUME NEW r \in Runs, NEW p \in Paths, RecordError(r, p)
      PROVE  RunKnown' /\ LocksClosed'
  BY <1>t, <1>b DEF RecordError, CloseDocument, held
<1>d. ASSUME NEW r \in Runs, NEW p \in Paths, LockDocument(r, p)
      PROVE  RunKnown' /\ LocksClosed'
  BY <1>t, <1>d DEF LockDocument, Lock, local
<1>e. ASSUME NEW r \in Runs, UnsaveBatch(r) PROVE RunKnown' /\ LocksClosed'
  BY <1>t, <1>e DEF UnsaveBatch, local, held
<1>c. ASSUME NEW r \in Runs, NEW p \in Paths, NEW k, UnmarkDocument(r, p, k)
      PROVE  RunKnown' /\ LocksClosed'
  BY <1>t, <1>c DEF UnmarkDocument, AfterBatch, held
<1>6. ASSUME NEW r \in Runs, PurgeDeleted(r) PROVE RunKnown' /\ LocksClosed'
  BY <1>t, <1>6 DEF PurgeDeleted, local, held
<1>7. ASSUME NEW r \in Runs, ListPending(r) PROVE RunKnown' /\ LocksClosed'
  BY <1>t, <1>7 DEF ListPending, held
<1>8. ASSUME NEW r \in Runs, ListChunked(r) PROVE RunKnown' /\ LocksClosed'
  BY <1>t, <1>8 DEF ListChunked, held
<1>9. ASSUME NEW r \in Runs, CloseEmbedding(r) PROVE RunKnown' /\ LocksClosed'
  BY <1>t, <1>9 DEF CloseEmbedding, Commit, local
<1>10. ASSUME NEW r \in Runs, NEW f, IndexLexical(r, f)
       PROVE  RunKnown' /\ LocksClosed'
  BY <1>t, <1>10 DEF IndexLexical, held
<1>11. ASSUME NEW r \in Runs, Finish(r) PROVE RunKnown' /\ LocksClosed'
  BY <1>t, <1>11 DEF Finish, Leave, held
<1>12. ASSUME NEW r \in Runs, NEW p \in Paths, CheckSource(r, p)
       PROVE  RunKnown' /\ LocksClosed'
  BY <1>t, <1>12 DEF CheckSource, local, held
<1>13. ASSUME NEW r \in Runs, NEW p \in Paths, Parse(r, p)
       PROVE  RunKnown' /\ LocksClosed'
  BY <1>t, <1>13 DEF Parse, held, Texts
<1>14. ASSUME NEW r \in Runs, NEW p \in Paths, Store(r, p)
       PROVE  RunKnown' /\ LocksClosed'
  BY <1>t, <1>14 DEF Store, held
<1>15. ASSUME NEW r \in Runs, StoreFails(r) PROVE RunKnown' /\ LocksClosed'
  BY <1>t, <1>15 DEF StoreFails, Rollback
<1>16. ASSUME NEW r \in Runs, NEW p \in Paths, MarkFailed(r, p)
       PROVE  RunKnown' /\ LocksClosed'
  BY <1>t, <1>16 DEF MarkFailed, held
<1>17. ASSUME NEW r \in Runs, NEW p \in Paths, OpenDocument(r, p)
       PROVE  RunKnown' /\ LocksClosed'
  BY <1>t, <1>17 DEF OpenDocument, held
<1>18. ASSUME NEW r \in Runs, NEW p \in Paths, RejectInput(r, p)
       PROVE  RunKnown' /\ LocksClosed'
  BY <1>t, <1>18 DEF RejectInput, Rollback
<1>19. ASSUME NEW r \in Runs, NEW p \in Paths, NEW k, EmbedBatch(r, p, k)
       PROVE  RunKnown' /\ LocksClosed'
  BY <1>t, <1>19 DEF EmbedBatch, AfterBatch, Commit
<1>20. ASSUME NEW r \in Runs, NEW p \in Paths, NEW k, BatchFails(r, p, k)
       PROVE  RunKnown' /\ LocksClosed'
  BY <1>t, <1>20 DEF BatchFails, Rollback
<1>21. ASSUME NEW r \in Runs, NEW p \in Paths, MarkIndexed(r, p)
       PROVE  RunKnown' /\ LocksClosed'
  BY <1>t, <1>21 DEF MarkIndexed, CloseDocument, held
<1>22. ASSUME NEW r \in Runs, NEW p \in Paths, HoldIndexed(r, p)
       PROVE  RunKnown' /\ LocksClosed'
  BY <1>t, <1>22 DEF HoldIndexed, Lock, CloseDocument
<1>23. ASSUME NEW r \in Runs, NEW p \in Paths, MarkFails(r, p)
       PROVE  RunKnown' /\ LocksClosed'
  BY <1>t, <1>23 DEF MarkFails, CloseDocument, Rollback
<1>24. ASSUME NEW r \in Runs, Crash(r) PROVE RunKnown' /\ LocksClosed'
  BY <1>t, <1>24 DEF Crash, Leave, Rollback
<1>25. CASE UNCHANGED vars
  BY <1>25 DEF vars
<1> HIDE DEF RunKnown, LocksClosed
<1>26. CASE Next
  <2>1. ASSUME NEW r \in Runs, RunStep(r) PROVE RunKnown' /\ LocksClosed'
    <3>1. ASSUME Victim(r) PROVE RunKnown' /\ LocksClosed'
      BY <3>1, <1>5, <1>15, <1>23, <1>24 DEF Victim
    <3>2. ASSUME NEW p \in Paths, NEW k \in pend[r],
                 EmbedBatch(r, p, k) \/ UnmarkDocument(r, p, k)
          PROVE  RunKnown' /\ LocksClosed'
      BY <3>2, <1>19, <1>c
    <3> QED
      BY <2>1, <3>1, <3>2, <1>3, <1>4, <1>5, <1>6, <1>7, <1>8, <1>9, <1>10, <1>11,
         <1>12, <1>13, <1>14, <1>16, <1>17, <1>18, <1>a, <1>b, <1>d, <1>e, <1>21,
         <1>22 DEF RunStep
  <2>2. ASSUME NEW r \in Runs, FaultStep(r) PROVE RunKnown' /\ LocksClosed'
    BY <2>2, <1>3, <1>5, <1>10, <1>15, <1>20, <1>23, <1>24 DEF FaultStep
  <2> QED
    BY <1>26, <1>1, <1>2, <2>1, <2>2 DEF Next
<1> QED
  BY <1>25, <1>26

----------------------------------------------------------------------------
StoreInv == HeldMarksJustified /\ ChunkedIsWhole /\ IndexedIsEmbedded

AllEmbedded(p) == \A c \in Rows(p) : c.vec # NoConfig

\* What the tables say of a document is unchanged by a step that leaves its
\* rows alone.
LEMMA RowsUnchanged ==
  ASSUME NEW p, Rows(p)' = Rows(p)
  PROVE  /\ WholeRows(p)' <=> WholeRows(p)
         /\ AllEmbedded(p)' <=> AllEmbedded(p)
BY DEF WholeRows, AllEmbedded

LEMMA FrameStep ==
  ASSUME StoreInv, UNCHANGED <<documents, chunks, locks, marks>>
  PROVE  StoreInv'
BY DEF StoreInv, HeldMarksJustified, ChunkedIsWhole, IndexedIsEmbedded, Rows,
       WholeRows

LEMMA RollbackStep ==
  ASSUME TypeOK, StoreInv, NEW r \in Runs, Rollback(r), UNCHANGED documents,
         \A p \in Paths : /\ WholeRows(p) => WholeRows(p)'
                          /\ AllEmbedded(p) => AllEmbedded(p)'
  PROVE  StoreInv'
<1>1. \A o \in Runs : /\ locks'[o] = IF o = r THEN {} ELSE locks[o]
                      /\ marks'[o] = IF o = r THEN {} ELSE marks[o]
  BY DEF TypeOK, Rollback
<1>2. \A o \in Runs : \A q \in marks'[o] :
        /\ q \in Paths
        /\ q \in locks'[o]
        /\ documents[q].status = "chunked"
        /\ AllEmbedded(q)
  BY <1>1 DEF TypeOK, StoreInv, HeldMarksJustified, AllEmbedded
<1>3. \A o, q \in Runs : o # q => locks'[o] \cap locks'[q] = {}
  BY <1>1 DEF StoreInv, HeldMarksJustified
<1>4. HeldMarksJustified'
  BY <1>2, <1>3 DEF HeldMarksJustified, AllEmbedded
<1>5. ChunkedIsWhole' /\ IndexedIsEmbedded'
  BY DEF StoreInv, ChunkedIsWhole, IndexedIsEmbedded, AllEmbedded
<1> QED
  BY <1>4, <1>5 DEF StoreInv

\* An update of embedding columns keeps the identity of every row ...
LEMMA EmbeddedRows ==
  ASSUME chunks \subseteq Row, NEW k, NEW v \in Configs, NEW p \in Paths,
         chunks' = Embedded(k, v)
  PROVE  /\ WholeRows(p) => WholeRows(p)'
         /\ AllEmbedded(p) => AllEmbedded(p)'
         /\ Faces(p)' = Faces(p)
<1>1. \A d \in Rows(p)' : \E c \in Rows(p) :
        /\ d.gen = c.gen /\ d.text = c.text /\ d.config = c.config
        /\ d.no = c.no
        /\ d.vec = v \/ d.vec = c.vec
  BY DEF Embedded, Rows, Row
<1>2. \A c \in Rows(p) : \E d \in Rows(p)' : d.no = c.no /\ d.gen = c.gen /\ d.text = c.text
  <2> TAKE c \in Rows(p)
  <2> DEFINE d == IF Key(c) = k THEN [c EXCEPT !.vec = v, !.done = TRUE] ELSE c
  <2>1. d \in chunks'
    BY DEF Embedded, Rows
  <2>2. d.path = p /\ d.no = c.no /\ d.gen = c.gen /\ d.text = c.text
    BY DEF Rows, Row
  <2> QED
    BY <2>1, <2>2 DEF Rows
<1>3. {d.no : d \in Rows(p)'} = {c.no : c \in Rows(p)}
  BY <1>1, <1>2
<1>4. WholeRows(p) => WholeRows(p)'
  BY <1>1, <1>3 DEF WholeRows
<1>5. AllEmbedded(p) => AllEmbedded(p)'
  BY <1>1 DEF AllEmbedded
<1>6. Faces(p)' = Faces(p)
  BY <1>1, <1>2 DEF Faces
<1> QED
  BY <1>4, <1>5, <1>6

\* ... and so does recording that a batch failed, which keeps old vectors.
LEMMA EmbeddingFailedRows ==
  ASSUME chunks \subseteq Row, NEW k, NEW p \in Paths,
         chunks' = EmbeddingFailed(k)
  PROVE  /\ WholeRows(p) => WholeRows(p)'
         /\ AllEmbedded(p) => AllEmbedded(p)'
         /\ Faces(p)' = Faces(p)
<1>1. \A d \in Rows(p)' : \E c \in Rows(p) :
        /\ d.gen = c.gen /\ d.text = c.text /\ d.config = c.config
        /\ d.no = c.no
        /\ d.vec = c.vec
  BY DEF EmbeddingFailed, Rows, Row
<1>2. \A c \in Rows(p) : \E d \in Rows(p)' : d.no = c.no /\ d.gen = c.gen /\ d.text = c.text
  <2> TAKE c \in Rows(p)
  <2> DEFINE d == IF Key(c) = k THEN [c EXCEPT !.done = FALSE] ELSE c
  <2>1. d \in chunks'
    BY DEF EmbeddingFailed, Rows
  <2>2. d.path = p /\ d.no = c.no /\ d.gen = c.gen /\ d.text = c.text
    BY DEF Rows, Row
  <2> QED
    BY <2>1, <2>2 DEF Rows
<1>3. {d.no : d \in Rows(p)'} = {c.no : c \in Rows(p)}
  BY <1>1, <1>2
<1>4. WholeRows(p) => WholeRows(p)'
  BY <1>1, <1>3 DEF WholeRows
<1>5. AllEmbedded(p) => AllEmbedded(p)'
  BY <1>1 DEF AllEmbedded
<1>6. Faces(p)' = Faces(p)
  BY <1>1, <1>2 DEF Faces
<1> QED
  BY <1>4, <1>5, <1>6

LEMMA CommitStep ==
  ASSUME TypeOK, StoreInv, NEW r \in Runs, Commit(r),
         \A p \in Paths : /\ WholeRows(p) => WholeRows(p)'
                          /\ AllEmbedded(p) => AllEmbedded(p)'
  PROVE  StoreInv'
<1>1. \A o \in Runs : /\ locks'[o] = IF o = r THEN {} ELSE locks[o]
                      /\ marks'[o] = IF o = r THEN {} ELSE marks[o]
  BY DEF TypeOK, Commit
<1>2. \A p \in Paths :
        documents'[p].status = IF p \in marks[r] THEN "indexed"
                                                 ELSE documents[p].status
  BY DEF TypeOK, Commit, Document
<1>3. \A p \in marks[r] : /\ p \in Paths
                          /\ documents[p].status = "chunked"
                          /\ WholeRows(p)
                          /\ AllEmbedded(p)
  BY DEF TypeOK, StoreInv, HeldMarksJustified, ChunkedIsWhole, AllEmbedded
<1>4. HeldMarksJustified'
  <2>1. ASSUME NEW o \in Runs, NEW p \in marks'[o]
        PROVE  p \in locks'[o] /\ documents'[p].status = "chunked"
               /\ AllEmbedded(p)'
    <3>1. o # r /\ p \in marks[o] /\ p \in locks[o] /\ p \in Paths
      BY <1>1, <2>1 DEF StoreInv, HeldMarksJustified, TypeOK
    <3>2. p \notin marks[r]
      BY <3>1 DEF StoreInv, HeldMarksJustified
    <3> QED
      BY <1>1, <1>2, <3>1, <3>2 DEF StoreInv, HeldMarksJustified, AllEmbedded
  <2>2. \A o, q \in Runs : o # q => locks'[o] \cap locks'[q] = {}
    BY <1>1 DEF StoreInv, HeldMarksJustified
  <2> QED
    BY <2>1, <2>2 DEF HeldMarksJustified, AllEmbedded
<1>5. ChunkedIsWhole'
  BY <1>2, <1>3 DEF StoreInv, ChunkedIsWhole
<1>6. IndexedIsEmbedded'
  BY <1>2, <1>3 DEF StoreInv, IndexedIsEmbedded, AllEmbedded
<1> QED
  BY <1>4, <1>5, <1>6 DEF StoreInv

\* The end of a transaction of run r that may have locked rows, but has no marks.
Released(r) ==
  /\ UNCHANGED marks
  /\ \A o \in Runs : locks'[o] = IF o = r THEN {} ELSE locks[o]

LEMMA ReleasedByStore ==
  ASSUME TypeOK, LocksClosed, NEW r \in Runs, NEW p \in Paths,
         Store(r, p) \/ MarkFailed(r, p) \/ MarkIndexed(r, p)
  PROVE  Released(r) /\ Free(r, p) /\ marks[r] = {}
<1>1. CASE Store(r, p)
  BY <1>1 DEF Store, Released, LocksClosed, TypeOK
<1>2. CASE MarkFailed(r, p)
  BY <1>2 DEF MarkFailed, Released, LocksClosed, held
<1>3. CASE MarkIndexed(r, p)
  BY <1>3 DEF MarkIndexed, Released, LocksClosed, held
<1> QED
  BY <1>1, <1>2, <1>3

\* A step that rewrites one document p which no other open transaction holds.
LEMMA OneDocumentStep ==
  ASSUME TypeOK, StoreInv, NEW p \in Paths, NEW s, SetStatus(p, s),
         NEW r \in Runs, Released(r), Free(r, p), marks[r] = {},
         \A q \in Paths \ {p} : Rows(q)' = Rows(q),
         s \in {"chunked", "indexed"} => WholeRows(p)',
         s = "indexed" => AllEmbedded(p)'
  PROVE  StoreInv'
<1>1. \A q \in Paths :
        documents'[q].status = IF q = p THEN s ELSE documents[q].status
  BY DEF TypeOK, SetStatus, Document
<1>2. \A q \in Paths \ {p} : /\ WholeRows(q) => WholeRows(q)'
                             /\ AllEmbedded(q) => AllEmbedded(q)'
  BY RowsUnchanged
<1>3. \A o \in Runs : \A q \in marks[o] :
        /\ q \in Paths \ {p}
        /\ q \in locks'[o]
        /\ documents[q].status = "chunked"
        /\ AllEmbedded(q)
  <2> SUFFICES ASSUME NEW o \in Runs, NEW q \in marks[o]
               PROVE  /\ q \in Paths \ {p}
                      /\ q \in locks'[o]
                      /\ documents[q].status = "chunked"
                      /\ AllEmbedded(q)
    OBVIOUS
  <2>1. o # r
    OBVIOUS
  <2>2. q \in Paths
    BY DEF TypeOK
  <2>3. q \in locks[o] /\ documents[q].status = "chunked" /\ AllEmbedded(q)
    BY DEF StoreInv, HeldMarksJustified, AllEmbedded
  <2>4. p \notin locks[o] /\ locks'[o] = locks[o]
    BY <2>1 DEF Free, Released
  <2> QED
    BY <2>2, <2>3, <2>4
<1>d. \A o, q \in Runs : o # q => locks'[o] \cap locks'[q] = {}
  BY DEF StoreInv, HeldMarksJustified, Released
<1>4. HeldMarksJustified'
  BY <1>1, <1>2, <1>3, <1>d DEF HeldMarksJustified, AllEmbedded, Released
<1>5. ChunkedIsWhole' /\ IndexedIsEmbedded'
  BY <1>1, <1>2 DEF StoreInv, ChunkedIsWhole, IndexedIsEmbedded, AllEmbedded
<1> QED
  BY <1>4, <1>5 DEF StoreInv

\* A step that only locks one more row, which is free.
LEMMA LockStep ==
  ASSUME TypeOK, StoreInv, NEW r \in Runs, NEW p \in Paths, Free(r, p), Lock(r, p),
         UNCHANGED <<documents, chunks, marks>>
  PROVE  StoreInv'
<1>1. \A o \in Runs : locks'[o] = IF o = r THEN locks[o] \cup {p} ELSE locks[o]
  BY LockTyped DEF TypeOK
<1>2. \A o, q \in Runs : o # q => locks'[o] \cap locks'[q] = {}
  <2> SUFFICES ASSUME NEW o \in Runs, NEW q \in Runs, o # q
               PROVE  locks'[o] \cap locks'[q] = {}
    OBVIOUS
  <2>1. locks[o] \cap locks[q] = {}
    BY DEF StoreInv, HeldMarksJustified
  <2>2. (o # r => p \notin locks[o]) /\ (q # r => p \notin locks[q])
    BY DEF Free
  <2> QED
    BY <1>1, <2>1, <2>2
<1>3. \A o \in Runs : \A q \in marks'[o] :
        /\ q \in locks'[o]
        /\ documents'[q].status = "chunked"
        /\ \A c \in Rows(q)' : c.vec # NoConfig
  <2> SUFFICES ASSUME NEW o \in Runs, NEW q \in marks[o]
               PROVE  /\ q \in locks'[o]
                      /\ documents[q].status = "chunked"
                      /\ \A c \in Rows(q) : c.vec # NoConfig
    BY DEF Rows
  <2> QED
    BY <1>1 DEF StoreInv, HeldMarksJustified
<1>4. ChunkedIsWhole' /\ IndexedIsEmbedded'
  <2>1. ASSUME NEW q \in Paths
        PROVE  /\ documents'[q].status = documents[q].status
               /\ WholeRows(q)' <=> WholeRows(q)
               /\ AllEmbedded(q)' <=> AllEmbedded(q)
    <3>1. Rows(q)' = Rows(q)
      BY DEF Rows
    <3> QED
      BY <3>1, RowsUnchanged
  <2> QED
    BY <2>1 DEF StoreInv, ChunkedIsWhole, IndexedIsEmbedded, AllEmbedded
<1>5. HeldMarksJustified'
  BY <1>2, <1>3 DEF HeldMarksJustified
<1> QED
  BY <1>4, <1>5 DEF StoreInv

LEMMA ApplyRowStep ==
  ASSUME TypeOK, StoreInv, NEW r \in Runs, NEW p \in Paths, ApplyRow(r, p)
  PROVE  StoreInv'
<1>1. UNCHANGED <<documents, chunks, marks>>
  BY DEF ApplyRow, db
<1>2. UNCHANGED locks \/ (Free(r, p) /\ Lock(r, p))
  BY DEF ApplyRow
<1> QED
  BY <1>1, <1>2, FrameStep, LockStep

\* The rows of the plan are locked, so none of them has a pending mark.
LEMMA CommitPlanStep ==
  ASSUME TypeOK, LocksClosed, StoreInv, NEW r \in Runs, CommitPlan(r)
  PROVE  StoreInv'
<1>1. \A p \in Paths : documents'[p].status \in {documents[p].status, "pending", "deleted"}
  BY DEF CommitPlan, TypeOK, Document
<1>2. \A o \in Runs : \A p \in marks[o] :
        p \in Paths /\ p \in locks[o] /\ p \notin locks[r] /\ o # r
  BY DEF CommitPlan, TypeOK, LocksClosed, StoreInv, HeldMarksJustified
<1>3. \A o \in Runs : \A p \in marks[o] : documents'[p] = documents[p]
  BY <1>2 DEF CommitPlan
<1>4. /\ UNCHANGED <<chunks, marks>>
      /\ \A o \in Runs : locks'[o] = IF o = r THEN {} ELSE locks[o]
  BY DEF CommitPlan, TypeOK
<1>5. HeldMarksJustified'
  BY <1>2, <1>3, <1>4 DEF StoreInv, HeldMarksJustified, Rows
<1>6. ChunkedIsWhole' /\ IndexedIsEmbedded'
  BY <1>1, <1>4 DEF StoreInv, ChunkedIsWhole, IndexedIsEmbedded, WholeRows, Rows
<1> QED
  BY <1>5, <1>6 DEF StoreInv

LEMMA PurgeStep ==
  ASSUME TypeOK, StoreInv, NEW r \in Runs, PurgeDeleted(r)
  PROVE  StoreInv'
<1>1. UNCHANGED <<documents, locks, marks>>
  BY DEF PurgeDeleted, held
<1>2. \A p \in Paths : documents[p].status # "deleted" => Rows(p)' = Rows(p)
  BY DEF PurgeDeleted, Purgeable, RowsOf, Rows
<1>3. \A o \in Runs : \A p \in marks[o] :
        p \in Paths /\ documents[p].status = "chunked"
  BY DEF TypeOK, StoreInv, HeldMarksJustified
<1>4. \A p \in Paths : documents[p].status # "deleted" =>
        /\ WholeRows(p)' <=> WholeRows(p)
        /\ AllEmbedded(p)' <=> AllEmbedded(p)
  BY <1>2, RowsUnchanged
<1>5. HeldMarksJustified'
  BY <1>1, <1>3, <1>4 DEF StoreInv, HeldMarksJustified, AllEmbedded
<1>6. ChunkedIsWhole' /\ IndexedIsEmbedded'
  BY <1>1, <1>4 DEF StoreInv, ChunkedIsWhole, IndexedIsEmbedded, AllEmbedded
<1> QED
  BY <1>5, <1>6 DEF StoreInv

LEMMA NewRowsAreWhole ==
  ASSUME NEW p \in Paths, NEW g \in Gens, NEW t \in Contents, NEW k \in Configs,
         Rows(p)' = NewRows(p, g, t, k)
  PROVE  WholeRows(p)'
<1>1. \A c \in Rows(p)' : c.gen = g /\ c.text = t /\ c.config = k
  BY DEF NewRows
<1>2. {c.no : c \in NewRows(p, g, t, k)} = 1 .. ChunkCount[t]
  <2>1. \A c \in NewRows(p, g, t, k) : c.no \in 1 .. ChunkCount[t]
    BY DEF NewRows
  <2>2. \A i \in 1 .. ChunkCount[t] : \E c \in NewRows(p, g, t, k) : c.no = i
    <3> TAKE i \in 1 .. ChunkCount[t]
    <3> DEFINE c == [path |-> p, gen |-> g, no |-> i, text |-> t, config |-> k,
                     vec |-> NoConfig, done |-> FALSE]
    <3>1. c \in NewRows(p, g, t, k)
      BY DEF NewRows
    <3> QED
      BY <3>1
  <2> QED
    BY <2>1, <2>2
<1> QED
  BY <1>1, <1>2 DEF WholeRows

LEMMA StoreStep ==
  ASSUME TypeOK, RunKnown, LocksClosed, StoreInv,
         NEW r \in Runs, NEW p \in Paths, Store(r, p)
  PROVE  StoreInv'
<1>1. PICK g \in Gens :
        chunks' = Replaced(p, NewRows(p, g, text[r], config[r]))
  BY DEF Store
<1>2. text[r] \in Contents /\ config[r] \in Configs
  BY DEF Store, RunKnown
<1>3. \A c \in NewRows(p, g, text[r], config[r]) : c.path = p
  BY DEF NewRows
<1>4. /\ Rows(p)' = NewRows(p, g, text[r], config[r])
      /\ \A q \in Paths \ {p} : Rows(q)' = Rows(q)
  BY <1>1, <1>3 DEF Rows, Replaced
<1>5. WholeRows(p)'
  BY <1>2, <1>4, NewRowsAreWhole
<1>6. Released(r) /\ Free(r, p) /\ marks[r] = {}
  BY ReleasedByStore
<1> QED
  BY <1>4, <1>5, <1>6, OneDocumentStep DEF Store

LEMMA MarkFailedStep ==
  ASSUME TypeOK, LocksClosed, StoreInv, NEW r \in Runs, NEW p \in Paths,
         MarkFailed(r, p)
  PROVE  StoreInv'
<1>1. Released(r) /\ Free(r, p) /\ marks[r] = {}
  BY ReleasedByStore
<1>2. \A q \in Paths \ {p} : Rows(q)' = Rows(q)
  BY DEF MarkFailed, Rows
<1>3. SetStatus(p, "failed")
  BY DEF MarkFailed
<1> QED
  BY <1>1, <1>2, <1>3, OneDocumentStep

LEMMA IndexableIsEmbedded ==
  ASSUME RunKnown, StoreInv, NEW r \in Runs, NEW p \in Paths,
         pc[r] # "idle", Indexable(r, p)
  PROVE  WholeRows(p) /\ AllEmbedded(p)
BY DEF RunKnown, StoreInv, ChunkedIsWhole, Indexable, Complete, NeedsEmbedding,
       AllEmbedded

LEMMA MarkIndexedStep ==
  ASSUME TypeOK, RunKnown, LocksClosed, StoreInv, NEW r \in Runs,
         NEW p \in Paths, MarkIndexed(r, p)
  PROVE  StoreInv'
<1>1. CASE Indexable(r, p)
  <2>1. UNCHANGED <<chunks, locks, marks>> /\ SetStatus(p, "indexed")
    BY <1>1 DEF MarkIndexed, held
  <2>2. Released(r) /\ Free(r, p) /\ marks[r] = {}
    BY ReleasedByStore
  <2>3. WholeRows(p) /\ AllEmbedded(p)
    BY <1>1, IndexableIsEmbedded DEF MarkIndexed
  <2>4. \A q \in Paths : Rows(q)' = Rows(q)
    BY <2>1 DEF Rows
  <2>5. WholeRows(p)' /\ AllEmbedded(p)'
    BY <2>3, <2>4, RowsUnchanged
  <2> QED
    BY <2>1, <2>2, <2>4, <2>5, OneDocumentStep
<1>2. CASE ~Indexable(r, p)
  BY <1>2, FrameStep DEF MarkIndexed, held
<1> QED
  BY <1>1, <1>2

LEMMA HoldIndexedStep ==
  ASSUME TypeOK, RunKnown, StoreInv, NEW r \in Runs, NEW p \in Paths,
         HoldIndexed(r, p)
  PROVE  StoreInv'
<1>1. UNCHANGED <<documents, chunks>>
  BY DEF HoldIndexed, Lock, db
<1>2. \A o \in Runs : locks'[o] = IF o = r THEN locks[o] \cup {p} ELSE locks[o]
  BY DEF HoldIndexed, Lock, TypeOK
<1>3. \A o \in Runs : \A q \in marks'[o] : q \in locks'[o] /\
        documents[q].status = "chunked" /\ AllEmbedded(q)
  <2>1. \A o \in Runs : \A q \in marks[o] :
          q \in locks'[o] /\ documents[q].status = "chunked" /\ AllEmbedded(q)
    BY <1>2 DEF StoreInv, HeldMarksJustified, AllEmbedded
  <2>2. CASE Indexable(r, p)
    <3>1. documents[p].status = "chunked" /\ AllEmbedded(p)
      BY <2>2, IndexableIsEmbedded DEF HoldIndexed, Lock, Indexable
    <3>2. marks' = [marks EXCEPT ![r] = @ \cup {p}]
      BY <2>2 DEF HoldIndexed, Lock
    <3>3. \A o \in Runs : \A q \in marks'[o] : q \in marks[o] \/ (o = r /\ q = p)
      BY <3>2 DEF TypeOK
    <3> QED
      BY <1>2, <2>1, <3>1, <3>3
  <2>3. CASE ~Indexable(r, p)
    <3>1. marks' = marks
      BY <2>3 DEF HoldIndexed, Lock
    <3> QED
      BY <2>1, <3>1
  <2> QED
    BY <2>2, <2>3
<1>5. \A o, q \in Runs : o # q => locks'[o] \cap locks'[q] = {}
  BY <1>2 DEF HoldIndexed, Lock, Free, StoreInv, HeldMarksJustified
<1>7. HeldMarksJustified'
  BY <1>1, <1>3, <1>5 DEF HeldMarksJustified, AllEmbedded, Rows
<1>8. ChunkedIsWhole' /\ IndexedIsEmbedded'
  BY <1>1 DEF StoreInv, ChunkedIsWhole, IndexedIsEmbedded, WholeRows, Rows
<1> QED
  BY <1>7, <1>8 DEF StoreInv

LEMMA StoreInvStep ==
  ASSUME IInv, [Next]_vars
  PROVE  StoreInv'
<1> USE DEF db, local, held, env
<1>i. TypeOK /\ RunKnown /\ LocksClosed /\ StoreInv
  BY DEF IInv, StoreInv
<1>t. chunks \subseteq Row
  BY <1>i DEF TypeOK
<1>1. ASSUME NEW p \in Paths, Edit(p) PROVE StoreInv'
  BY <1>i, <1>1, FrameStep DEF Edit
<1>2. ASSUME NEW r \in Runs, NEW k \in Configs, Start(r, k) PROVE StoreInv'
  BY <1>i, <1>2, FrameStep DEF Start
<1>3. ASSUME NEW r \in Runs, NEW s, NEW m, Scan(r, s, m) PROVE StoreInv'
  BY <1>i, <1>3, FrameStep DEF Scan
<1>4. ASSUME NEW r \in Runs, CommitPlan(r) PROVE StoreInv'
  BY <1>i, <1>4, CommitPlanStep
<1>5. ASSUME NEW r \in Runs, ApplyFails(r) PROVE StoreInv'
  <2>1. \A q \in Paths : /\ WholeRows(q) => WholeRows(q)'
                         /\ AllEmbedded(q) => AllEmbedded(q)'
    BY <1>5, RowsUnchanged DEF ApplyFails, Rows
  <2> QED
    BY <1>i, <1>5, <2>1, RollbackStep DEF ApplyFails
<1>a. ASSUME NEW r \in Runs, NEW p \in Paths, ApplyRow(r, p) PROVE StoreInv'
  BY <1>i, <1>a, ApplyRowStep
<1>b. ASSUME NEW r \in Runs, NEW p \in Paths, RecordError(r, p) PROVE StoreInv'
  BY <1>i, <1>b, FrameStep DEF RecordError
<1>d. ASSUME NEW r \in Runs, NEW p \in Paths, LockDocument(r, p) PROVE StoreInv'
  BY <1>i, <1>d, LockStep DEF LockDocument
<1>e. ASSUME NEW r \in Runs, UnsaveBatch(r) PROVE StoreInv'
  BY <1>i, <1>e, FrameStep DEF UnsaveBatch
<1>6. ASSUME NEW r \in Runs, PurgeDeleted(r) PROVE StoreInv'
  BY <1>i, <1>6, PurgeStep
<1>7. ASSUME NEW r \in Runs, ListPending(r) PROVE StoreInv'
  BY <1>i, <1>7, FrameStep DEF ListPending
<1>8. ASSUME NEW r \in Runs, ListChunked(r) PROVE StoreInv'
  BY <1>i, <1>8, FrameStep DEF ListChunked
<1>9. ASSUME NEW r \in Runs, CloseEmbedding(r) PROVE StoreInv'
  <2>1. \A p \in Paths : /\ WholeRows(p) => WholeRows(p)'
                         /\ AllEmbedded(p) => AllEmbedded(p)'
    BY <1>9, RowsUnchanged DEF CloseEmbedding, Rows
  <2> QED
    BY <1>i, <1>9, <2>1, CommitStep DEF CloseEmbedding
<1>10. ASSUME NEW r \in Runs, NEW f, IndexLexical(r, f) PROVE StoreInv'
  BY <1>i, <1>10, FrameStep DEF IndexLexical
<1>11. ASSUME NEW r \in Runs, Finish(r) PROVE StoreInv'
  BY <1>i, <1>11, FrameStep DEF Finish
<1>12. ASSUME NEW r \in Runs, NEW p \in Paths, CheckSource(r, p) PROVE StoreInv'
  BY <1>i, <1>12, FrameStep DEF CheckSource
<1>13. ASSUME NEW r \in Runs, NEW p \in Paths, Parse(r, p) PROVE StoreInv'
  BY <1>i, <1>13, FrameStep DEF Parse
<1>14. ASSUME NEW r \in Runs, NEW p \in Paths, Store(r, p) PROVE StoreInv'
  BY <1>i, <1>14, StoreStep
<1>15. ASSUME NEW r \in Runs, StoreFails(r) PROVE StoreInv'
  <2>1. \A q \in Paths : /\ WholeRows(q) => WholeRows(q)'
                         /\ AllEmbedded(q) => AllEmbedded(q)'
    BY <1>15, RowsUnchanged DEF StoreFails, Rows
  <2> QED
    BY <1>i, <1>15, <2>1, RollbackStep DEF StoreFails
<1>16. ASSUME NEW r \in Runs, NEW p \in Paths, MarkFailed(r, p) PROVE StoreInv'
  BY <1>i, <1>16, MarkFailedStep
<1>17. ASSUME NEW r \in Runs, NEW p \in Paths, OpenDocument(r, p)
       PROVE  StoreInv'
  BY <1>i, <1>17, FrameStep DEF OpenDocument
<1>18. ASSUME NEW r \in Runs, NEW p \in Paths, RejectInput(r, p) PROVE StoreInv'
  <2>1. \A q \in Paths : /\ WholeRows(q) => WholeRows(q)'
                         /\ AllEmbedded(q) => AllEmbedded(q)'
    BY <1>18, RowsUnchanged DEF RejectInput, Rows
  <2> QED
    BY <1>i, <1>18, <2>1, RollbackStep DEF RejectInput
<1>19. ASSUME NEW r \in Runs, NEW p \in Paths, NEW k, EmbedBatch(r, p, k)
       PROVE  StoreInv'
  <2>1. config[r] \in Configs
    BY <1>i, <1>19 DEF EmbedBatch, RunKnown
  <2>2. chunks' = Embedded(k, config[r]) /\ Commit(r)
    BY <1>19 DEF EmbedBatch
  <2>3. \A q \in Paths : /\ WholeRows(q) => WholeRows(q)'
                         /\ AllEmbedded(q) => AllEmbedded(q)'
    BY <1>t, <2>1, <2>2, EmbeddedRows
  <2> QED
    BY <1>i, <2>2, <2>3, CommitStep
<1>20. ASSUME NEW r \in Runs, NEW p \in Paths, NEW k, BatchFails(r, p, k)
       PROVE  StoreInv'
  <2>1. \A q \in Paths : /\ WholeRows(q) => WholeRows(q)'
                         /\ AllEmbedded(q) => AllEmbedded(q)'
    BY <1>20, RowsUnchanged DEF BatchFails, Rows
  <2> QED
    BY <1>i, <1>20, <2>1, RollbackStep DEF BatchFails
<1>c. ASSUME NEW r \in Runs, NEW p \in Paths, NEW k, UnmarkDocument(r, p, k)
      PROVE  StoreInv'
  <2>1. chunks' = EmbeddingFailed(k) /\ UNCHANGED <<documents, locks, marks>>
    BY <1>c DEF UnmarkDocument
  <2>2. \A q \in Paths : /\ WholeRows(q) => WholeRows(q)'
                         /\ AllEmbedded(q) => AllEmbedded(q)'
    BY <1>t, <2>1, EmbeddingFailedRows
  <2> QED
    BY <1>i, <2>1, <2>2 DEF TypeOK, StoreInv, HeldMarksJustified, ChunkedIsWhole,
       IndexedIsEmbedded, AllEmbedded
<1>21. ASSUME NEW r \in Runs, NEW p \in Paths, MarkIndexed(r, p) PROVE StoreInv'
  BY <1>i, <1>21, MarkIndexedStep
<1>22. ASSUME NEW r \in Runs, NEW p \in Paths, HoldIndexed(r, p) PROVE StoreInv'
  BY <1>i, <1>22, HoldIndexedStep
<1>23. ASSUME NEW r \in Runs, NEW p \in Paths, MarkFails(r, p) PROVE StoreInv'
  <2>1. \A q \in Paths : /\ WholeRows(q) => WholeRows(q)'
                         /\ AllEmbedded(q) => AllEmbedded(q)'
    BY <1>23, RowsUnchanged DEF MarkFails, Rows
  <2> QED
    BY <1>i, <1>23, <2>1, RollbackStep DEF MarkFails
<1>24. ASSUME NEW r \in Runs, Crash(r) PROVE StoreInv'
  <2>1. \A q \in Paths : /\ WholeRows(q) => WholeRows(q)'
                         /\ AllEmbedded(q) => AllEmbedded(q)'
    BY <1>24, RowsUnchanged DEF Crash, Rows
  <2> QED
    BY <1>i, <1>24, <2>1, RollbackStep DEF Crash
<1>25. CASE UNCHANGED vars
  BY <1>i, <1>25, FrameStep DEF vars
<1>26. CASE Next
  <2>1. ASSUME NEW r \in Runs, RunStep(r) PROVE StoreInv'
    <3>1. ASSUME Victim(r) PROVE StoreInv'
      BY <3>1, <1>5, <1>15, <1>23, <1>24 DEF Victim
    <3>2. ASSUME NEW p \in Paths, NEW k \in pend[r],
                 EmbedBatch(r, p, k) \/ UnmarkDocument(r, p, k)
          PROVE  StoreInv'
      BY <3>2, <1>19, <1>c
    <3> QED
      BY <2>1, <3>1, <3>2, <1>3, <1>4, <1>5, <1>6, <1>7, <1>8, <1>9, <1>10, <1>11,
         <1>12, <1>13, <1>14, <1>16, <1>17, <1>18, <1>a, <1>b, <1>d, <1>e, <1>21,
         <1>22 DEF RunStep
  <2>2. ASSUME NEW r \in Runs, FaultStep(r) PROVE StoreInv'
    BY <2>2, <1>3, <1>5, <1>10, <1>15, <1>20, <1>23, <1>24 DEF FaultStep
  <2> QED
    BY <1>26, <1>1, <1>2, <2>1, <2>2 DEF Next
<1> QED
  BY <1>25, <1>26

LEMMA InitInv == Init => IInv
<1> SUFFICES ASSUME Init PROVE IInv
  OBVIOUS
<1>1. TypeOK
  BY DEF Init, TypeOK, Texts, Document, Statuses, Stages, Row
<1>2. RunKnown /\ LocksClosed /\ HeldMarksJustified /\ ChunkedIsWhole
      /\ IndexedIsEmbedded
  BY DEF Init, RunKnown, LocksClosed, HeldMarksJustified, ChunkedIsWhole,
         IndexedIsEmbedded
<1> QED
  BY <1>1, <1>2 DEF IInv

LEMMA InvStep == IInv /\ [Next]_vars => IInv'
<1> SUFFICES ASSUME IInv, [Next]_vars PROVE IInv'
  OBVIOUS
<1>1. TypeOK'
  BY TypeStep DEF IInv
<1>2. RunKnown' /\ LocksClosed'
  BY ControlStep DEF IInv
<1>3. StoreInv'
  BY StoreInvStep
<1> QED
  BY <1>1, <1>2, <1>3 DEF IInv, StoreInv

\* The inductive invariant holds in every reachable state of `opk-rag index`,
\* with any number of processes and whatever fails.
THEOREM IndexInvariant == Spec => []IInv
<1>1. Init => IInv
  BY InitInv
<1>2. IInv /\ [Next]_vars => IInv'
  BY InvStep
<1> QED
  BY <1>1, <1>2, PTL DEF Spec

\* Every variable of the index run keeps its type; in particular each chunk row
\* written by replace_document_chunks has a number, a content and a
\* configuration.
THEOREM TypeCorrect == Spec => []TypeOK
<1>1. IInv => TypeOK
  BY DEF IInv
<1> QED
  BY <1>1, IndexInvariant, PTL

\* A document that is marked indexed has all chunks of one version, all of them
\* embedded, for any number of concurrent runs and crashes between the separate
\* transactions of chunking/service.py and embedding/service.py.
THEOREM SearchableIsComplete == Spec => []SearchableComplete
<1>1. IInv => SearchableComplete
  BY DEF IInv, ChunkedIsWhole, IndexedIsEmbedded, SearchableComplete
<1> QED
  BY <1>1, IndexInvariant, PTL

\* A mark that waits in an open transaction (embedding/service.py:143) is
\* protected by its row lock: nobody replaces the chunks it vouches for.
THEOREM MarksAreJustified == Spec => []HeldMarksJustified
<1>1. IInv => HeldMarksJustified
  BY DEF IInv
<1> QED
  BY <1>1, IndexInvariant, PTL

----------------------------------------------------------------------------
LEMMA ServedTyped ==
  ChunkedIsWhole => served \in [Paths -> Published \cup {Absent}]
<1> SUFFICES ASSUME ChunkedIsWhole
             PROVE  served \in [Paths -> Published \cup {Absent}]
  OBVIOUS
<1>1. ASSUME NEW p \in Paths, documents[p].status = "indexed"
      PROVE  Faces(p) \in Published
  <2>1. WholeRows(p)
    BY <1>1 DEF ChunkedIsWhole
  <2>2. PICK g \in Gens, t \in Contents :
          /\ \A c \in Rows(p) : c.gen = g /\ c.text = t
          /\ {c.no : c \in Rows(p)} = 1 .. ChunkCount[t]
    BY <2>1 DEF WholeRows
  <2>3. \A i \in 1 .. ChunkCount[t] : \E c \in Rows(p) : c.no = i
    BY <2>2
  <2>4. \A c \in Rows(p) : c.no \in 1 .. ChunkCount[t]
    BY <2>2
  <2>5. Faces(p) = Edition(g, t)
    BY <2>2, <2>3, <2>4 DEF Faces, Edition
  <2> QED
    BY <2>5 DEF Published
<1> QED
  BY <1>1 DEF served, Served

LEMMA ServedTypedNext ==
  ChunkedIsWhole' => (served \in [Paths -> Published \cup {Absent}])'
BY ServedTyped, PTL

\* A step in which every document is kept or disappears retracts ...
LEMMA Retracts ==
  ASSUME ChunkedIsWhole', \A p \in Paths : Served(p)' \in {Served(p), Absent}
  PROVE  Index!Next
<1>1. served' \in [Paths -> Published \cup {Absent}]
  BY ServedTypedNext
<1> QED
  BY <1>1 DEF Index!Next, Index!Retract, served

\* ... and one that keeps every searchable document publishes.
LEMMA Publishes ==
  ASSUME ChunkedIsWhole',
         \A p \in Paths : documents[p].status = "indexed" => Served(p)' = Served(p)
  PROVE  Index!Next
<1>1. served' \in [Paths -> Published \cup {Absent}]
  BY ServedTypedNext
<1>2. \A p \in Paths : served[p] # Absent => served'[p] = served[p]
  BY DEF served, Served
<1> QED
  BY <1>1, <1>2 DEF Index!Next, Index!Publish

LEMMA KeptServes ==
  ASSUME NEW p, Rows(p)' = Rows(p), documents'[p].status = documents[p].status
  PROVE  Served(p)' = Served(p)
BY DEF Served, Faces

LEMMA CommitServes ==
  ASSUME IInv, NEW r \in Runs, Commit(r), \A p \in Paths : Faces(p)' = Faces(p)
  PROVE  \A p \in Paths : documents[p].status = "indexed" => Served(p)' = Served(p)
<1> SUFFICES ASSUME NEW p \in Paths, documents[p].status = "indexed"
             PROVE  Served(p)' = Served(p)
  OBVIOUS
<1>1. p \notin marks[r]
  BY DEF IInv, HeldMarksJustified
<1>2. documents'[p] = documents[p]
  BY <1>1 DEF Commit
<1> QED
  BY <1>2 DEF Served

LEMMA RefinementStep ==
  ASSUME IInv, IInv', [Next]_vars
  PROVE  [Index!Next]_served
<1> USE DEF db, local, held, env
<1> DEFINE Step == Index!Next \/ UNCHANGED served
<1>w. ChunkedIsWhole'
  BY DEF IInv
<1>t. documents \in [Paths -> Document] /\ chunks \subseteq Row
  BY DEF IInv, TypeOK
<1>f. ASSUME UNCHANGED <<documents, chunks>> PROVE UNCHANGED served
  BY <1>f DEF served, Served, Faces, Rows
<1>1. ASSUME NEW p \in Paths, Edit(p) PROVE Step
  BY <1>f, <1>1 DEF Edit
<1>2. ASSUME NEW r \in Runs, NEW k \in Configs, Start(r, k) PROVE Step
  BY <1>f, <1>2 DEF Start
<1>3. ASSUME NEW r \in Runs, NEW s, NEW m, Scan(r, s, m) PROVE Step
  BY <1>f, <1>3 DEF Scan
<1>4. ASSUME NEW r \in Runs, CommitPlan(r) PROVE Step
  <2>1. \A p \in Paths : documents'[p].status # "indexed"
                         \/ documents'[p] = documents[p]
    BY <1>4, <1>t DEF CommitPlan, Document
  <2>2. \A p \in Paths : Rows(p)' = Rows(p)
    BY <1>4 DEF CommitPlan, Rows
  <2>3. \A p \in Paths : Served(p)' \in {Served(p), Absent}
    BY <2>1, <2>2 DEF Served, Faces
  <2> QED
    BY <1>w, <2>3, Retracts
<1>5. ASSUME NEW r \in Runs, ApplyFails(r) PROVE Step
  BY <1>f, <1>5 DEF ApplyFails
<1>a. ASSUME NEW r \in Runs, NEW p \in Paths, ApplyRow(r, p) PROVE Step
  BY <1>f, <1>a DEF ApplyRow
<1>b. ASSUME NEW r \in Runs, NEW p \in Paths, RecordError(r, p) PROVE Step
  BY <1>f, <1>b DEF RecordError
<1>d. ASSUME NEW r \in Runs, NEW p \in Paths, LockDocument(r, p) PROVE Step
  BY <1>f, <1>d DEF LockDocument
<1>e. ASSUME NEW r \in Runs, UnsaveBatch(r) PROVE Step
  BY <1>f, <1>e DEF UnsaveBatch
<1>6. ASSUME NEW r \in Runs, PurgeDeleted(r) PROVE Step
  <2>1. \A p \in Paths : documents[p].status # "deleted" => Rows(p)' = Rows(p)
    BY <1>6 DEF PurgeDeleted, Purgeable, RowsOf, Rows
  <2>2. documents' = documents
    BY <1>6 DEF PurgeDeleted
  <2>3. \A p \in Paths : Served(p)' \in {Served(p), Absent}
    BY <2>1, <2>2 DEF Served, Faces
  <2> QED
    BY <1>w, <2>3, Retracts
<1>7. ASSUME NEW r \in Runs, ListPending(r) PROVE Step
  BY <1>f, <1>7 DEF ListPending
<1>8. ASSUME NEW r \in Runs, ListChunked(r) PROVE Step
  BY <1>f, <1>8 DEF ListChunked
<1>9. ASSUME NEW r \in Runs, CloseEmbedding(r) PROVE Step
  <2>1. Commit(r) /\ \A p \in Paths : Faces(p)' = Faces(p)
    BY <1>9 DEF CloseEmbedding, Faces, Rows
  <2> QED
    BY <1>w, <2>1, CommitServes, Publishes
<1>10. ASSUME NEW r \in Runs, NEW f, IndexLexical(r, f) PROVE Step
  BY <1>f, <1>10 DEF IndexLexical
<1>11. ASSUME NEW r \in Runs, Finish(r) PROVE Step
  BY <1>f, <1>11 DEF Finish
<1>12. ASSUME NEW r \in Runs, NEW p \in Paths, CheckSource(r, p) PROVE Step
  BY <1>f, <1>12 DEF CheckSource
<1>13. ASSUME NEW r \in Runs, NEW p \in Paths, Parse(r, p) PROVE Step
  BY <1>f, <1>13 DEF Parse
<1>14. ASSUME NEW r \in Runs, NEW p \in Paths, Store(r, p) PROVE Step
  <2>1. documents'[p].status = "chunked"
    BY <1>14, <1>t DEF Store, SetStatus, Document
  <2>2. \A q \in Paths \ {p} : documents'[q] = documents[q]
    BY <1>14, <1>t DEF Store, SetStatus
  <2>3. \A q \in Paths \ {p} : Rows(q)' = Rows(q)
    BY <1>14 DEF Store, Replaced, Rows, NewRows
  <2>4. \A q \in Paths : Served(q)' \in {Served(q), Absent}
    BY <2>1, <2>2, <2>3 DEF Served, Faces
  <2> QED
    BY <1>w, <2>4, Retracts
<1>15. ASSUME NEW r \in Runs, StoreFails(r) PROVE Step
  BY <1>f, <1>15 DEF StoreFails
<1>16. ASSUME NEW r \in Runs, NEW p \in Paths, MarkFailed(r, p) PROVE Step
  <2>1. documents'[p].status = "failed"
    BY <1>16, <1>t DEF MarkFailed, SetStatus, Document
  <2>2. \A q \in Paths \ {p} : documents'[q] = documents[q]
    BY <1>16, <1>t DEF MarkFailed, SetStatus
  <2>3. \A q \in Paths : Rows(q)' = Rows(q)
    BY <1>16 DEF MarkFailed, Rows
  <2>4. \A q \in Paths : Served(q)' \in {Served(q), Absent}
    BY <2>1, <2>2, <2>3 DEF Served, Faces
  <2> QED
    BY <1>w, <2>4, Retracts
<1>17. ASSUME NEW r \in Runs, NEW p \in Paths, OpenDocument(r, p) PROVE Step
  BY <1>f, <1>17 DEF OpenDocument
<1>18. ASSUME NEW r \in Runs, NEW p \in Paths, RejectInput(r, p) PROVE Step
  BY <1>f, <1>18 DEF RejectInput
<1>19. ASSUME NEW r \in Runs, NEW p \in Paths, NEW k, EmbedBatch(r, p, k)
       PROVE  Step
  <2>1. config[r] \in Configs
    BY <1>19 DEF EmbedBatch, RunKnown, IInv
  <2>2. chunks' = Embedded(k, config[r]) /\ Commit(r)
    BY <1>19 DEF EmbedBatch
  <2>3. \A q \in Paths : Faces(q)' = Faces(q)
    BY <1>t, <2>1, <2>2, EmbeddedRows
  <2> QED
    BY <1>w, <2>2, <2>3, CommitServes, Publishes
<1>20. ASSUME NEW r \in Runs, NEW p \in Paths, NEW k, BatchFails(r, p, k)
       PROVE  Step
  BY <1>f, <1>20 DEF BatchFails
<1>c. ASSUME NEW r \in Runs, NEW p \in Paths, NEW k, UnmarkDocument(r, p, k)
      PROVE  Step
  <2>1. chunks' = EmbeddingFailed(k) /\ UNCHANGED documents
    BY <1>c DEF UnmarkDocument
  <2>2. \A q \in Paths : Faces(q)' = Faces(q)
    BY <1>t, <2>1, EmbeddingFailedRows
  <2> QED
    BY <2>1, <2>2 DEF served, Served
<1>21. ASSUME NEW r \in Runs, NEW p \in Paths, MarkIndexed(r, p) PROVE Step
  <2>1. CASE Indexable(r, p)
    <3>1. documents[p].status = "chunked"
      BY <2>1 DEF Indexable
    <3>2. \A q \in Paths \ {p} : documents'[q] = documents[q]
      BY <1>21, <1>t, <2>1 DEF MarkIndexed, SetStatus
    <3>3. \A q \in Paths : Rows(q)' = Rows(q)
      BY <1>21 DEF MarkIndexed, Rows
    <3>4. \A q \in Paths : documents[q].status = "indexed" => Served(q)' = Served(q)
      BY <3>1, <3>2, <3>3, KeptServes
    <3> QED
      BY <1>w, <3>4, Publishes
  <2>2. CASE ~Indexable(r, p)
    BY <1>f, <1>21, <2>2 DEF MarkIndexed
  <2> QED
    BY <2>1, <2>2
<1>22. ASSUME NEW r \in Runs, NEW p \in Paths, HoldIndexed(r, p) PROVE Step
  BY <1>f, <1>22 DEF HoldIndexed, Lock
<1>23. ASSUME NEW r \in Runs, NEW p \in Paths, MarkFails(r, p) PROVE Step
  BY <1>f, <1>23 DEF MarkFails
<1>24. ASSUME NEW r \in Runs, Crash(r) PROVE Step
  BY <1>f, <1>24 DEF Crash
<1>25. CASE UNCHANGED vars
  BY <1>f, <1>25 DEF vars
<1> HIDE DEF Step
<1>26. ASSUME Next PROVE Step
  <2>1. ASSUME NEW r \in Runs, RunStep(r) PROVE Step
    <3>1. ASSUME Victim(r) PROVE Step
      BY <3>1, <1>5, <1>15, <1>23, <1>24 DEF Victim
    <3>2. ASSUME NEW p \in Paths, NEW k \in pend[r],
                 EmbedBatch(r, p, k) \/ UnmarkDocument(r, p, k)
          PROVE  Step
      BY <3>2, <1>19, <1>c
    <3> QED
      BY <2>1, <3>1, <3>2, <1>3, <1>4, <1>5, <1>6, <1>7, <1>8, <1>9, <1>10, <1>11,
         <1>12, <1>13, <1>14, <1>16, <1>17, <1>18, <1>a, <1>b, <1>d, <1>e, <1>21,
         <1>22 DEF RunStep
  <2>2. ASSUME NEW r \in Runs, FaultStep(r) PROVE Step
    BY <2>2, <1>3, <1>5, <1>10, <1>15, <1>20, <1>23, <1>24 DEF FaultStep
  <2> QED
    BY <1>26, <1>1, <1>2, <2>1, <2>2 DEF Next
<1> QED
  BY <1>25, <1>26 DEF Step

\* The index run implements SearchIndex: to a search a document appears as one
\* whole version and disappears, and no version turns into another.
THEOREM Refinement == Spec => ImplementsSearchIndex
<1>1. Init => Index!Init
  BY DEF Init, Index!Init, served, Served
<1>2. IInv /\ IInv' /\ [Next]_vars => [Index!Next]_served
  BY RefinementStep
<1> QED
  BY <1>1, <1>2, IndexInvariant, PTL DEF Spec, ImplementsSearchIndex, Index!Spec

----------------------------------------------------------------------------
\* Which runs can wait for each other in a circle.  A run asks for the rows of
\* its plan section by section, of its embedding loop in path order, so what it
\* holds comes before what it still asks for.
Known(p) == documents[p].status # "none"

Embedding == {"open", "embed", "unsave", "unmark", "mark", "hold", "record"}

Ordered(r) ==
  \A p \in locks[r], q \in todo[r] :
    /\ pc[r] = "apply" => p # q /\ NotAfter(r, p, q)
    /\ pc[r] \in Embedding => p < q

\* Only a row to be added may be unknown, and a row added is unknown to others
\* until the plan is committed: its row is locked.
Planned(r) ==
  pc[r] = "apply" =>
    /\ \A p \in todo[r] : plan[r][p] # "keep" /\ (plan[r][p] = "add" \/ Known(p))
    /\ \A p \in locks[r] : plan[r][p] = "add" => ~Known(p)

Listed(r) == pc[r] \in Embedding => \A p \in todo[r] : Known(p)

InOrder(r) == Ordered(r) /\ Planned(r) /\ Listed(r)

\* No step forgets a document, and none makes one known that another run locks.
KnowledgeKept ==
  /\ \A p \in Paths : Known(p) => Known(p)'
  /\ \A o \in Runs : \A p \in locks[o] : p \in locks'[o] /\ Known(p)' => Known(p)

LEMMA SetStatusKeeps ==
  ASSUME TypeOK, NEW r \in Runs, NEW p \in Paths, Released(r), Free(r, p),
         NEW s \in {"chunked", "failed", "indexed"}, SetStatus(p, s)
  PROVE  KnowledgeKept
<1>1. /\ \A q \in Paths \ {p} : documents'[q] = documents[q]
      /\ documents'[p].status = s
  BY DEF TypeOK, SetStatus, Document
<1>2. \A o \in Runs : \A q \in locks[o] : q \in locks'[o] => q # p
  BY DEF Free, Released
<1>3. \A o \in Runs : locks[o] \subseteq Paths
  BY DEF TypeOK
<1> QED
  BY <1>1, <1>2, <1>3 DEF KnowledgeKept, Known

LEMMA CommitKeeps ==
  ASSUME TypeOK, StoreInv, NEW r \in Runs, Commit(r)
  PROVE  KnowledgeKept
<1>1. \A p \in Paths : Known(p)' <=> Known(p)
  <2>1. ASSUME NEW p \in Paths, p \in marks[r] PROVE Known(p)' /\ Known(p)
    <3>1. documents[p].status = "chunked"
      BY <2>1 DEF StoreInv, HeldMarksJustified
    <3>2. documents'[p].status = "indexed"
      BY <2>1 DEF Commit, TypeOK, Document
    <3> QED
      BY <3>1, <3>2 DEF Known
  <2>2. ASSUME NEW p \in Paths, p \notin marks[r] PROVE documents'[p] = documents[p]
    BY <2>2 DEF Commit
  <2> QED
    BY <2>1, <2>2 DEF Known
<1>2. \A o \in Runs : locks[o] \subseteq Paths
  BY DEF TypeOK
<1> QED
  BY <1>1, <1>2 DEF KnowledgeKept

LEMMA CommitPlanKeeps ==
  ASSUME TypeOK, StoreInv, NEW r \in Runs, CommitPlan(r)
  PROVE  KnowledgeKept
<1>1. \A p \in Paths \ locks[r] : documents'[p] = documents[p]
  BY DEF CommitPlan
<1>2. \A p \in locks[r] : documents'[p].status \in {"pending", "deleted"}
  BY DEF CommitPlan, TypeOK, Document
<1>3. locks'[r] = {}
  BY DEF CommitPlan, TypeOK
<1>4. \A o \in Runs \ {r} : locks[o] \subseteq Paths \ locks[r]
  BY DEF StoreInv, HeldMarksJustified, TypeOK
<1> QED
  BY <1>1, <1>2, <1>3, <1>4 DEF KnowledgeKept, Known

LEMMA KnownStep ==
  ASSUME TypeOK, LocksClosed, StoreInv, [Next]_vars
  PROVE  KnowledgeKept
<1>0. UNCHANGED documents => KnowledgeKept
  BY DEF KnowledgeKept, Known
<1>1. ASSUME NEW p \in Paths, Edit(p) PROVE UNCHANGED documents
  BY <1>1 DEF Edit, db
<1>2. ASSUME NEW r \in Runs, NEW k \in Configs, Start(r, k) PROVE UNCHANGED documents
  BY <1>2 DEF Start, db
<1>3. ASSUME NEW r \in Runs, NEW s, NEW m, Scan(r, s, m) PROVE UNCHANGED documents
  BY <1>3 DEF Scan
<1>4. ASSUME NEW r \in Runs,
             \/ ApplyFails(r) \/ PurgeDeleted(r) \/ StoreFails(r) \/ Finish(r)
             \/ Crash(r) \/ ListPending(r) \/ ListChunked(r) \/ UnsaveBatch(r)
      PROVE  UNCHANGED documents
  BY <1>4 DEF ApplyFails, PurgeDeleted, StoreFails, Finish, Crash, ListPending,
              ListChunked, UnsaveBatch, db
<1>5. ASSUME NEW r \in Runs, NEW f, IndexLexical(r, f) PROVE UNCHANGED documents
  BY <1>5 DEF IndexLexical
<1>6. ASSUME NEW r \in Runs, NEW p \in Paths,
             \/ ApplyRow(r, p) \/ CheckSource(r, p) \/ Parse(r, p) \/ OpenDocument(r, p)
             \/ RejectInput(r, p) \/ HoldIndexed(r, p) \/ MarkFails(r, p)
             \/ RecordError(r, p) \/ LockDocument(r, p)
      PROVE  UNCHANGED documents
  BY <1>6 DEF ApplyRow, CheckSource, Parse, OpenDocument, RejectInput, HoldIndexed,
              MarkFails, RecordError, LockDocument, db
<1>7. ASSUME NEW r \in Runs, NEW p \in Paths, NEW k,
             BatchFails(r, p, k) \/ UnmarkDocument(r, p, k)
      PROVE  UNCHANGED documents
  BY <1>7 DEF BatchFails, UnmarkDocument, db
<1>8. ASSUME NEW r \in Runs, NEW p \in Paths, Store(r, p) \/ MarkFailed(r, p)
      PROVE  KnowledgeKept
  <2>1. Released(r) /\ Free(r, p)
    BY <1>8, ReleasedByStore
  <2> QED
    BY <1>8, <2>1, SetStatusKeeps DEF Store, MarkFailed
<1>9. ASSUME NEW r \in Runs, NEW p \in Paths, MarkIndexed(r, p) PROVE KnowledgeKept
  <2>1. SetStatus(p, "indexed") \/ UNCHANGED documents
    BY <1>9 DEF MarkIndexed
  <2>2. Released(r) /\ Free(r, p)
    BY <1>9, ReleasedByStore
  <2> QED
    BY <1>0, <2>1, <2>2, SetStatusKeeps
<1>10. ASSUME NEW r \in Runs, CommitPlan(r) PROVE KnowledgeKept
  BY <1>10, CommitPlanKeeps
<1>11. ASSUME NEW r \in Runs, CloseEmbedding(r) PROVE KnowledgeKept
  BY <1>11, CommitKeeps DEF CloseEmbedding
<1>12. ASSUME NEW r \in Runs, NEW p \in Paths, NEW k, EmbedBatch(r, p, k)
       PROVE  KnowledgeKept
  BY <1>12, CommitKeeps DEF EmbedBatch
<1>13. CASE UNCHANGED vars
  BY <1>0, <1>13 DEF vars
<1>14. CASE Next
  <2>1. ASSUME NEW r \in Runs, RunStep(r) PROVE KnowledgeKept
    BY <2>1, <1>0, <1>3, <1>4, <1>5, <1>6, <1>7, <1>8, <1>9, <1>10, <1>11, <1>12
       DEF RunStep, Victim
  <2>2. ASSUME NEW r \in Runs, FaultStep(r) PROVE KnowledgeKept
    BY <2>2, <1>0, <1>3, <1>4, <1>5, <1>6, <1>7 DEF FaultStep
  <2> QED
    BY <1>14, <1>0, <1>1, <1>2, <2>1, <2>2 DEF Next
<1> QED
  BY <1>13, <1>14

\* A process that neither begins nor leaves its plan, lists no document and locks
\* none stays in order; so does one that neither applies a plan nor embeds.
Quiet(r) ==
  /\ locks'[r] \subseteq locks[r]
  /\ todo'[r] \subseteq todo[r]
  /\ plan'[r] = plan[r]
  /\ pc'[r] = "apply" <=> pc[r] = "apply"
  /\ pc'[r] \in Embedding => pc[r] \in Embedding

Out(r) == pc'[r] \notin Embedding \cup {"apply"}

LEMMA QuietStep ==
  ASSUME TypeOK, KnowledgeKept, NEW r \in Runs, InOrder(r), Quiet(r)
  PROVE  InOrder(r)'
<1>1. Ordered(r)'
  BY DEF InOrder, Ordered, Quiet, NotAfter, Rank
<1>2. Planned(r)'
  <2> SUFFICES ASSUME pc'[r] = "apply" PROVE Planned(r)'
    BY DEF Planned
  <2>1. /\ \A p \in todo[r] : plan[r][p] # "keep" /\ (plan[r][p] = "add" \/ Known(p))
        /\ \A p \in locks[r] : plan[r][p] = "add" => ~Known(p)
    BY DEF InOrder, Planned, Quiet
  <2>2. \A p \in todo'[r] : plan'[r][p] # "keep" /\ (plan'[r][p] = "add" \/ Known(p)')
    BY <2>1 DEF Quiet, KnowledgeKept, TypeOK
  <2>3. \A p \in locks'[r] : plan'[r][p] = "add" => ~Known(p)'
    BY <2>1 DEF Quiet, KnowledgeKept
  <2> QED
    BY <2>2, <2>3 DEF Planned
<1>3. Listed(r)'
  BY DEF InOrder, Listed, Quiet, KnowledgeKept, TypeOK
<1> QED
  BY <1>1, <1>2, <1>3 DEF InOrder

LEMMA OutStep ==
  ASSUME NEW r \in Runs, Out(r)
  PROVE  InOrder(r)'
BY DEF Out, InOrder, Ordered, Planned, Listed

\* A scan plans a row as `add` if and only if it is unknown.
LEMMA ScanInOrder ==
  ASSUME TypeOK, LocksClosed, NEW r \in Runs, NEW s, NEW m, Scan(r, s, m)
  PROVE  InOrder(r)'
<1>1. locks'[r] = {} /\ pc'[r] = "apply" /\ UNCHANGED documents
  BY DEF Scan, LocksClosed, held, Goto, TypeOK
<1>2. todo'[r] \subseteq Paths /\ \A p \in todo'[r] : plan'[r][p] # "keep"
  BY DEF Scan, TypeOK
<1>3. ASSUME NEW p \in todo'[r], documents[p].status = "none" PROVE plan'[r][p] = "add"
  <2> DEFINE seen == [q \in Paths |-> IF q \in m THEN Absent ELSE disk[q]]
             kind == Classify(p, seen[p], s, m, Version[config[r]])
  <2>1. plan'[r][p] = kind
    BY <1>2 DEF Scan, TypeOK
  <2>2. kind \in {"add", "keep"}
    BY <1>3 DEF Classify
  <2> QED
    BY <1>2, <2>1, <2>2
<1> QED
  BY <1>1, <1>2, <1>3 DEF InOrder, Ordered, Planned, Listed, Known, Embedding

\* The row that is locked is the next one of its list.
LEMMA ApplyRowInOrder ==
  ASSUME TypeOK, KnowledgeKept, NEW r \in Runs, NEW p \in Paths, InOrder(r),
         ApplyRow(r, p)
  PROVE  InOrder(r)'
<1>1. /\ pc[r] = "apply" /\ UNCHANGED <<pc, plan, documents>>
      /\ todo'[r] = todo[r] \ {p}
      /\ locks'[r] \subseteq locks[r] \cup {p}
      /\ p \in todo[r]
      /\ \A q \in todo[r] : NotAfter(r, p, q)
  <2>1. locks' = locks \/ Lock(r, p)
    BY DEF ApplyRow
  <2>2. locks'[r] \subseteq locks[r] \cup {p}
    BY <2>1, LockTyped DEF TypeOK
  <2> QED
    BY <2>2 DEF ApplyRow, Upcoming, Done, local, db, TypeOK
<1>2. plan[r][p] = "add" => ~Known(p)
  BY DEF ApplyRow, Taken, Known
<1>3. \A a, b \in Paths : NotAfter(r, a, b)' <=> NotAfter(r, a, b)
  BY <1>1 DEF NotAfter, Rank
<1>4. \A a \in locks[r], b \in todo[r] : a # b /\ NotAfter(r, a, b)
  BY <1>1 DEF InOrder, Ordered
<1>5. locks[r] \subseteq Paths /\ todo[r] \subseteq Paths
  BY DEF TypeOK
<1>6. Ordered(r)'
  <2>1. ASSUME NEW a \in locks'[r], NEW b \in todo'[r] PROVE a # b /\ NotAfter(r, a, b)'
    <3>1. CASE a = p
      BY <1>1, <1>3, <1>5, <3>1
    <3>2. CASE a # p
      BY <1>1, <1>3, <1>4, <1>5, <3>2
    <3> QED
      BY <3>1, <3>2
  <2> QED
    BY <1>1, <2>1 DEF Ordered, Embedding
<1>7. Planned(r)'
  BY <1>1, <1>2 DEF InOrder, Planned, Known
<1>8. Listed(r)'
  BY <1>1 DEF Listed, Embedding
<1> QED
  BY <1>6, <1>7, <1>8 DEF InOrder

LEMMA HoldInOrder ==
  ASSUME TypeOK, KnowledgeKept, NEW r \in Runs, NEW p \in Paths, InOrder(r),
         HoldIndexed(r, p)
  PROVE  InOrder(r)'
<1>1. /\ pc[r] = "hold" /\ pc'[r] = "open"
      /\ todo'[r] = todo[r] \ {p}
      /\ locks'[r] = locks[r] \cup {p}
      /\ \A q \in todo[r] : p <= q
  BY DEF HoldIndexed, CloseDocument, Current, Done, Lock, Goto, TypeOK
<1>2. locks[r] \subseteq Nat /\ todo[r] \subseteq Nat /\ p \in Nat /\ todo[r] \subseteq Paths
  BY DEF TypeOK
<1>3. \A q \in todo'[r] : p < q
  BY <1>1, <1>2
<1>4. Ordered(r)'
  BY <1>1, <1>3 DEF InOrder, Ordered, Embedding
<1>5. Listed(r)'
  BY <1>1, <1>2 DEF InOrder, Listed, Embedding, KnowledgeKept
<1> QED
  BY <1>1, <1>4, <1>5 DEF InOrder, Planned

LEMMA ListChunkedInOrder ==
  ASSUME TypeOK, LocksClosed, NEW r \in Runs, ListChunked(r)
  PROVE  InOrder(r)'
<1>1. /\ pc'[r] = "open" /\ UNCHANGED <<documents, locks>> /\ locks[r] = {}
      /\ todo'[r] = AtVersion(r, "chunked")
  BY DEF ListChunked, LocksClosed, Goto, db, held, TypeOK
<1>2. \A p \in todo'[r] : Known(p)'
  BY <1>1 DEF AtVersion, Known
<1> QED
  BY <1>1, <1>2 DEF InOrder, Ordered, Planned, Listed

\* A step of one process leaves the others where they are.
Others(r) ==
  \A o \in Runs \ {r} :
    /\ pc'[o] = pc[o] /\ plan'[o] = plan[o]
    /\ todo'[o] = todo[o] /\ locks'[o] = locks[o]

LEMMA OrderStep ==
  ASSUME TypeOK, LocksClosed, StoreInv, \A r \in Runs : InOrder(r), [Next]_vars
  PROVE  \A r \in Runs : InOrder(r)'
<1>k. KnowledgeKept
  BY KnownStep
<1>t. /\ pc \in [Runs -> Stages] /\ locks \in [Runs -> SUBSET Paths]
      /\ todo \in [Runs -> SUBSET Paths]
      /\ DOMAIN plan = Runs
  BY DEF TypeOK
<1>o. ASSUME NEW r \in Runs, Others(r), InOrder(r)' PROVE \A o \in Runs : InOrder(o)'
  <2>1. ASSUME NEW o \in Runs \ {r} PROVE InOrder(o)'
    <3>1. Quiet(o)
      BY <1>o DEF Others, Quiet
    <3> QED
      BY <1>k, <3>1, QuietStep
  <2> QED
    BY <1>o, <2>1
<1> USE DEF Quiet, Out, Others, Goto, Embedding, held, local
<1>1. ASSUME NEW p \in Paths, Edit(p), NEW r \in Runs PROVE Quiet(r)
  BY <1>1 DEF Edit
<1>2. ASSUME NEW r \in Runs, NEW k \in Configs, Start(r, k) PROVE Others(r) /\ Quiet(r)
  BY <1>t, <1>2 DEF Start
<1>3. ASSUME NEW r \in Runs, NEW s, NEW m, Scan(r, s, m) PROVE Others(r)
  BY <1>t, <1>3 DEF Scan
<1>4. ASSUME NEW r \in Runs,
             ApplyFails(r) \/ CommitPlan(r) \/ Finish(r) \/ Crash(r) \/ CloseEmbedding(r)
      PROVE  Others(r) /\ Out(r)
  BY <1>t, <1>4 DEF ApplyFails, CommitPlan, Finish, Crash, CloseEmbedding, Rollback, Commit,
                    Leave
<1>5. ASSUME NEW r \in Runs, ListPending(r) \/ PurgeDeleted(r) \/ StoreFails(r)
      PROVE  Others(r) /\ Out(r)
  BY <1>t, <1>5 DEF ListPending, PurgeDeleted, StoreFails, Rollback
<1>6. ASSUME NEW r \in Runs, UnsaveBatch(r) PROVE Others(r) /\ Quiet(r)
  BY <1>t, <1>6 DEF UnsaveBatch
<1>7. ASSUME NEW r \in Runs, NEW f, IndexLexical(r, f) PROVE Others(r) /\ Quiet(r)
  BY <1>t, <1>7 DEF IndexLexical
<1>8. ASSUME NEW r \in Runs, NEW p \in Paths,
             \/ CheckSource(r, p) \/ Parse(r, p) \/ LockDocument(r, p)
             \/ Store(r, p) \/ MarkFailed(r, p)
      PROVE  Others(r) /\ Out(r)
  BY <1>t, <1>8 DEF CheckSource, Parse, LockDocument, Lock, Store, MarkFailed, Done
<1>9. ASSUME NEW r \in Runs, NEW p \in Paths,
             \/ OpenDocument(r, p) \/ RejectInput(r, p) \/ MarkIndexed(r, p)
             \/ MarkFails(r, p) \/ RecordError(r, p)
      PROVE  Others(r) /\ Quiet(r)
  BY <1>t, <1>9 DEF OpenDocument, RejectInput, MarkIndexed, MarkFails, RecordError,
                    CloseDocument, Done, Rollback
<1>10. ASSUME NEW r \in Runs, NEW p \in Paths, NEW k,
              EmbedBatch(r, p, k) \/ BatchFails(r, p, k) \/ UnmarkDocument(r, p, k)
       PROVE  Others(r) /\ Quiet(r)
  BY <1>t, <1>10 DEF EmbedBatch, BatchFails, UnmarkDocument, AfterBatch, Done, Commit,
                     Rollback
<1>11. ASSUME NEW r \in Runs, NEW p \in Paths, ApplyRow(r, p) PROVE Others(r)
  <2>1. locks' = locks \/ Lock(r, p)
    BY <1>11 DEF ApplyRow
  <2> QED
    BY <1>t, <1>11, <2>1 DEF ApplyRow, Lock, Done
<1>12. ASSUME NEW r \in Runs, NEW p \in Paths, HoldIndexed(r, p) PROVE Others(r)
  BY <1>t, <1>12 DEF HoldIndexed, Lock, CloseDocument, Done
<1>13. ASSUME NEW r \in Runs, ListChunked(r) PROVE Others(r)
  BY <1>t, <1>13 DEF ListChunked
<1> HIDE DEF Quiet, Out, Others, Goto, Embedding, held, local
<1>14. ASSUME NEW r \in Runs, Others(r), Quiet(r) PROVE \A o \in Runs : InOrder(o)'
  BY <1>k, <1>o, <1>14, QuietStep
<1>15. ASSUME NEW r \in Runs, Others(r), Out(r) PROVE \A o \in Runs : InOrder(o)'
  BY <1>o, <1>15, OutStep
<1>16. ASSUME NEW r \in Runs, NEW s, NEW m, Scan(r, s, m)
       PROVE  \A o \in Runs : InOrder(o)'
  BY <1>o, <1>3, <1>16, ScanInOrder
<1>17. ASSUME NEW r \in Runs, NEW p \in Paths, ApplyRow(r, p) \/ HoldIndexed(r, p)
       PROVE  \A o \in Runs : InOrder(o)'
  BY <1>k, <1>o, <1>11, <1>12, <1>17, ApplyRowInOrder, HoldInOrder
<1>18. ASSUME NEW r \in Runs, ListChunked(r) PROVE \A o \in Runs : InOrder(o)'
  BY <1>o, <1>13, <1>18, ListChunkedInOrder
<1>19. CASE UNCHANGED vars
  <2>1. \A r \in Runs : Quiet(r)
    BY <1>19 DEF vars, Quiet
  <2> QED
    BY <1>k, <2>1, QuietStep
<1>20. CASE Next
  <2>1. ASSUME NEW r \in Runs, RunStep(r) PROVE \A o \in Runs : InOrder(o)'
    BY <2>1, <1>4, <1>5, <1>6, <1>7, <1>8, <1>9, <1>10, <1>14, <1>15, <1>16, <1>17,
       <1>18 DEF RunStep, Victim
  <2>2. ASSUME NEW r \in Runs, FaultStep(r) PROVE \A o \in Runs : InOrder(o)'
    BY <2>2, <1>4, <1>5, <1>7, <1>9, <1>10, <1>14, <1>15, <1>16 DEF FaultStep
  <2>3. ASSUME NEW p \in Paths, Edit(p) PROVE \A o \in Runs : InOrder(o)'
    BY <1>k, <1>1, <2>3, QuietStep
  <2> QED
    BY <1>2, <1>14, <1>20, <2>1, <2>2, <2>3 DEF Next
<1> QED
  BY <1>19, <1>20

\* A non-empty set of notes has a last one.
LEMMA LastNote ==
  ASSUME NEW L \in SUBSET Paths, L # {}
  PROVE  \E p \in L : \A q \in L : ~(p < q)
<1> DEFINE After(p) == {q \in Paths : p < q}
           T == {After(p) : p \in L}
<1>1. IsWellFoundedOn(StrictSubsetOrdering(Paths), SUBSET Paths)
  BY FS_StrictSubsetOrderingWellFounded, FS_FiniteSubsetsOfFinite
<1>2. T \subseteq SUBSET Paths /\ T # {}
  <2>1. PICK p : p \in L
    OBVIOUS
  <2>2. After(p) \in T
    BY <2>1
  <2>3. \A S \in T : S \subseteq Paths
    OBVIOUS
  <2>4. QED
    BY <2>2, <2>3
<1>3. PICK S \in T : \A U \in T : <<U, S>> \notin StrictSubsetOrdering(Paths)
  BY <1>1, <1>2, WFMin
<1>4. PICK p \in L : S = After(p)
  OBVIOUS
<1>5. ASSUME NEW q \in L, p < q PROVE FALSE
  <2>1. p \in Nat /\ q \in Nat
    OBVIOUS
  <2>2. After(q) \subseteq After(p)
    <3>1. ASSUME NEW x \in Paths, q < x PROVE p < x
      BY <1>5, <2>1, <3>1
    <3>2. QED
      BY <3>1
  <2>3. q \in After(p) /\ q \notin After(q)
    BY <1>5, <2>1
  <2>4. <<After(q), After(p)>> \in StrictSubsetOrdering(Paths)
    BY <2>2, <2>3 DEF StrictSubsetOrdering
  <2>5. QED
    BY <1>3, <1>4, <2>4
<1>6. QED
  BY <1>5

\* What a run of the circle holds while another asks for it, and what it asks
\* for itself: without deletions and restorations the second is known if the first
\* is, and it comes later.
LEMMA CircleGrows ==
  ASSUME TypeOK, LocksClosed, NEW o \in Runs, InOrder(o),
         NEW p \in locks[o], NEW q \in Requested(o),
         pc[o] = "apply" => plan[o][q] \notin {"restore", "delete"}
  PROVE  /\ Known(p) => Known(q)
         /\ (Known(p) \/ ~Known(q)) => p < q
<1>1. p \in Paths /\ q \in Paths /\ p \in Nat /\ q \in Nat
  BY DEF TypeOK, Requested
<1>2. CASE pc[o] = "apply"
  <2>1. q \in todo[o]
    BY <1>2 DEF Requested, Upcoming
  <2>2. p # q /\ NotAfter(o, p, q)
    BY <1>2, <2>1 DEF InOrder, Ordered
  <2>3. plan[o][q] # "keep" /\ (plan[o][q] = "add" \/ Known(q))
    BY <1>2, <2>1 DEF InOrder, Planned
  <2>4. plan[o][p] = "add" => ~Known(p)
    BY <1>2 DEF InOrder, Planned
  <2>5. plan[o][p] \in {"keep", "add", "modify", "restore", "delete"}
        /\ plan[o][q] \in {"add", "modify"}
    BY <1>1, <1>2, <2>3 DEF TypeOK
  <2>6. plan[o][q] = "add" => ~Known(q)
    BY <1>2 DEF Requested, Taken, Known
  <2>7. CASE plan[o][q] = "add"
    <3>1. plan[o][p] = "add" /\ p <= q
      BY <2>2, <2>5, <2>7 DEF NotAfter, Rank
    <3> QED
      BY <1>1, <2>2, <2>4, <3>1
  <2>8. CASE plan[o][q] = "modify"
    <3>1. plan[o][p] = "add" \/ (plan[o][p] = "modify" /\ p <= q)
      BY <2>2, <2>5, <2>8 DEF NotAfter, Rank
    <3> QED
      BY <1>1, <2>2, <2>3, <2>4, <2>8, <3>1
  <2> QED
    BY <2>5, <2>7, <2>8
<1>3. CASE pc[o] # "apply"
  <2>1. pc[o] \in {"open", "embed", "hold"}
    BY <1>3 DEF LocksClosed, Requested
  <2>2. q \in todo[o]
    BY <1>3, <2>1 DEF Requested, Current
  <2> QED
    BY <1>3, <2>1, <2>2 DEF InOrder, Ordered, Listed, Embedding
<1> QED
  BY <1>2, <1>3

LEMMA OrderBreaksCircles ==
  TypeOK /\ LocksClosed /\ (\A r \in Runs : InOrder(r)) => CirclesHaveACause
<1> SUFFICES ASSUME TypeOK, LocksClosed, \A r \in Runs : InOrder(r),
                    NEW R \in (SUBSET Runs) \ {{}},
                    \A r \in R : \E o \in R : WaitsFor(r, o),
                    \A r \in R : pc[r] = "apply" =>
                      \A p \in Requested(r) : plan[r][p] \notin {"restore", "delete"},
                    \A r \in R : pc[r] # "unmark"
             PROVE  FALSE
  BY DEF CirclesHaveACause, Circle
<1> DEFINE L == {p \in Paths : \E r \in R, o \in R : p \in Requested(r) /\ p \in locks[o]}
           K == {p \in L : Known(p)}
<1>1. \A o \in R : locks[o] \subseteq Paths
  BY DEF TypeOK
<1>2. \A r \in R : \E q \in L : q \in Requested(r)
  <2> SUFFICES ASSUME NEW r \in R PROVE \E q \in L : q \in Requested(r)
    OBVIOUS
  <2>1. PICK o \in R : WaitsFor(r, o)
    OBVIOUS
  <2>2. PICK q : q \in Requested(r) /\ q \in locks[o]
    BY <2>1 DEF WaitsFor, LockedRows
  <2> QED
    BY <1>1, <2>2
<1>3. \A p \in L : \E q \in L : /\ Known(p) => Known(q)
                                /\ (Known(p) \/ ~Known(q)) => p < q
  <2> SUFFICES ASSUME NEW p \in L
               PROVE  \E q \in L : /\ Known(p) => Known(q)
                                   /\ (Known(p) \/ ~Known(q)) => p < q
    OBVIOUS
  <2>1. PICK o \in R : p \in locks[o]
    OBVIOUS
  <2>2. PICK q \in L : q \in Requested(o)
    BY <1>2
  <2>3. /\ Known(p) => Known(q)
        /\ (Known(p) \/ ~Known(q)) => p < q
    BY <2>1, <2>2, CircleGrows
  <2> QED
    BY <2>3
<1>4. L # {}
  BY <1>2
<1> HIDE DEF L
\* If some note of the circle is known, take the last one of those.
<1>5. CASE K # {}
  <2>1. K \subseteq Paths
    BY DEF L
  <2>2. PICK p \in K : \A q \in K : ~(p < q)
    BY <1>5, <2>1, LastNote
  <2> QED
    BY <1>3, <2>2
\* Otherwise all are being added: take the last of them.
<1>6. CASE K = {}
  <2>1. L \subseteq Paths
    BY DEF L
  <2>2. PICK p \in L : \A q \in L : ~(p < q)
    BY <1>4, <2>1, LastNote
  <2> QED
    BY <1>3, <1>6, <2>2
<1> QED
  BY <1>5, <1>6

\* However many processes index the vault, a circle of waiting runs contains one
\* that is deleting or restoring notes, or one that holds the chunks of a failed
\* batch while it asks for their document: plans are applied in sections, each in
\* path order (indexing/sync.py:99), the marks of the embedding loop are collected
\* in path order (embedding/service.py:143), and a run that replaces chunks has
\* locked their document first and asks for no other (db/repositories.py:798).
THEOREM CirclesAreCaused == Spec => []CirclesHaveACause
<1> DEFINE AllInOrder == \A r \in Runs : InOrder(r)
<1>1. Init => AllInOrder
  BY DEF Init, InOrder, Ordered, Planned, Listed, Embedding
<1>2. IInv /\ AllInOrder /\ [Next]_vars => AllInOrder'
  BY OrderStep DEF IInv, StoreInv
<1>3. IInv /\ AllInOrder => CirclesHaveACause
  BY OrderBreaksCircles DEF IInv
<1> HIDE DEF AllInOrder
<1> QED
  BY <1>1, <1>2, <1>3, IndexInvariant, PTL DEF Spec

----------------------------------------------------------------------------
(***************************************************************************)
(* The hash of a document and the text of its chunks.                      *)
(***************************************************************************)
HasText(p, t)  == \A c \in Rows(p) : c.text = t
Numbered(p, t) == {c.no : c \in Rows(p)} = 1 .. ChunkCount[t]

\* The chunks of a document are those of the content whose hash it records.
HashTrue(p) ==
  p \notin slipped /\ documents[p].status \in {"chunked", "indexed"} =>
    HasText(p, documents[p].hash) /\ Numbered(p, documents[p].hash)

Shared(r) == Runs # {r}

\* Notes to be written have been seen, and processes that share the vault have seen
\* them as they still are.
ScanTrue(r) ==
  /\ pc[r] = "apply" =>
       \A p \in todo[r] \cup locks[r] : plan[r][p] # "delete" => scan[r][p] # Absent
  /\ Shared(r) /\ pc[r] \notin {"idle", "scan"} =>
       \A p \in Paths \ slipped : scan[r][p] \in {Absent, disk[p]}

\* The listed hash is that of the document, or the check of the source finds out
\* that it is not; what was checked is what is parsed.
ListTrue(r) ==
  /\ pc[r] \in {"chunk", "parse", "store", "replace", "fail"} =>
       \A p \in todo[r] \ slipped :
         \/ hash[r][p] = documents[p].hash
         \/ Shared(r) /\ hash[r][p] # disk[p]
  /\ pc[r] = "parse" =>
       \A p \in Paths \ slipped : Current(r, p) => disk[p] = hash[r][p]
  /\ pc[r] \in {"store", "replace"} =>
       \A p \in Paths \ slipped : Current(r, p) =>
         text[r] = hash[r][p] /\ (Shared(r) => text[r] = disk[p])

HashInv == /\ \A p \in Paths : HashTrue(p)
           /\ \A r \in Runs : ScanTrue(r) /\ ListTrue(r)

LEMMA CurrentIsOne ==
  ASSUME TypeOK, NEW r \in Runs, NEW p \in Paths, Current(r, p),
         NEW q \in Paths, Current(r, q)
  PROVE  p = q
<1>1. p \in Nat /\ q \in Nat
  BY PathsAssumption
<1>2. p <= q /\ q <= p
  BY DEF Current
<1> QED
  BY <1>1, <1>2

LEMMA CommitDocuments ==
  ASSUME IInv, NEW r \in Runs, Commit(r), NEW p \in Paths
  PROVE  /\ documents'[p].hash = documents[p].hash
         /\ documents'[p].version = documents[p].version
         /\ documents'[p].status =
              IF p \in marks[r] THEN "indexed" ELSE documents[p].status
         /\ p \in marks[r] => documents[p].status = "chunked"
BY DEF IInv, TypeOK, HeldMarksJustified, Commit, Document

LEMMA SetStatusDocuments ==
  ASSUME TypeOK, NEW p \in Paths, NEW s, SetStatus(p, s), NEW q \in Paths
  PROVE  /\ documents'[q].hash = documents[q].hash
         /\ documents'[q].version = documents[q].version
         /\ documents'[q].status = IF q = p THEN s ELSE documents[q].status
BY DEF TypeOK, SetStatus, Document

\* A step that keeps the chunks of a document, what they are for and their text.
KeepsRows(p) ==
  /\ \A d \in Rows(p)' : \E c \in Rows(p) :
       d.no = c.no /\ d.config = c.config /\ d.text = c.text
  /\ \A c \in Rows(p) : \E d \in Rows(p)' : d.no = c.no

\* Updating embedding columns is one.
LEMMA EmbeddingKeepsRows ==
  ASSUME TypeOK, NEW p \in Paths, NEW k, NEW v,
         chunks' = Embedded(k, v) \/ chunks' = EmbeddingFailed(k)
  PROVE  KeepsRows(p)
<1>0. chunks \subseteq Row
  BY DEF TypeOK
<1>1. CASE chunks' = Embedded(k, v)
  <2>1. ASSUME NEW d \in Rows(p)'
        PROVE  \E c \in Rows(p) : d.no = c.no /\ d.config = c.config /\ d.text = c.text
    <3>1. d \in Embedded(k, v) /\ d.path = p
      BY <1>1 DEF Rows
    <3>2. PICK c \in chunks :
            d = IF Key(c) = k THEN [c EXCEPT !.vec = v, !.done = TRUE] ELSE c
      BY <3>1 DEF Embedded
    <3>3. d.path = c.path /\ d.no = c.no /\ d.config = c.config /\ d.text = c.text
      BY <1>0, <3>2 DEF Row
    <3> QED
      BY <3>1, <3>3 DEF Rows
  <2>2. ASSUME NEW c \in Rows(p) PROVE \E d \in Rows(p)' : d.no = c.no
    <3> DEFINE e == IF Key(c) = k THEN [c EXCEPT !.vec = v, !.done = TRUE] ELSE c
    <3>1. e.path = p /\ e.no = c.no
      BY <1>0 DEF Rows, Row
    <3>2. e \in chunks'
      BY <1>1 DEF Embedded, Rows
    <3> HIDE DEF e
    <3> QED
      BY <3>1, <3>2 DEF Rows
  <2> QED
    BY <2>1, <2>2 DEF KeepsRows
<1>2. CASE chunks' = EmbeddingFailed(k)
  <2>1. \A d \in Rows(p)' : \E c \in Rows(p) :
          d.no = c.no /\ d.config = c.config /\ d.text = c.text
    BY <1>0, <1>2 DEF EmbeddingFailed, Rows, Row
  <2>2. ASSUME NEW c \in Rows(p) PROVE \E d \in Rows(p)' : d.no = c.no
    <3> DEFINE e == IF Key(c) = k THEN [c EXCEPT !.done = FALSE] ELSE c
    <3>1. e.path = p /\ e.no = c.no
      BY <1>0 DEF Rows, Row
    <3>2. e \in chunks'
      BY <1>2 DEF EmbeddingFailed, Rows
    <3> HIDE DEF e
    <3> QED
      BY <3>1, <3>2 DEF Rows
  <2> QED
    BY <2>1, <2>2 DEF KeepsRows
<1> QED
  BY <1>1, <1>2

LEMMA TruthKept ==
  ASSUME NEW p \in Paths, HashTrue(p), KeepsRows(p),
         p \in slipped => p \in slipped',
         documents'[p].hash = documents[p].hash,
         documents'[p].status \in {"chunked", "indexed"} =>
           documents[p].status \in {"chunked", "indexed"}
  PROVE  HashTrue(p)'
<1>1. {c.no : c \in Rows(p)'} = {c.no : c \in Rows(p)}
  BY DEF KeepsRows
<1>2. Numbered(p, documents[p].hash) => Numbered(p, documents[p].hash)'
  BY <1>1 DEF Numbered
<1>3. HasText(p, documents[p].hash) => HasText(p, documents[p].hash)'
  BY DEF HasText, KeepsRows
<1> QED
  BY <1>2, <1>3 DEF HashTrue

\* Only a text that has the recorded hash is stored: the listed hash is that of the
\* document, or the text, which is what is on disk, would not have passed its check.
LEMMA StoredIsTrue ==
  ASSUME IInv, HashInv, NEW r \in Runs, NEW p \in Paths, Store(r, p)
  PROVE  \A q \in Paths : HashTrue(q)'
<1>1. PICK g \in Gens : chunks' = Replaced(p, NewRows(p, g, text[r], config[r]))
  BY DEF Store
<1>2. \A c \in NewRows(p, g, text[r], config[r]) : c.path = p /\ c.text = text[r]
  BY DEF NewRows
<1>3. /\ Rows(p)' = NewRows(p, g, text[r], config[r])
      /\ \A q \in Paths \ {p} : Rows(q)' = Rows(q)
  BY <1>1, <1>2 DEF Rows, Replaced
<1>4. TypeOK /\ SetStatus(p, "chunked") /\ UNCHANGED slipped
  BY DEF Store, IInv, env
<1>5. {c.no : c \in Rows(p)'} = 1 .. ChunkCount[text[r]]
  <2>1. \A c \in Rows(p)' : c.no \in 1 .. ChunkCount[text[r]]
    BY <1>3 DEF NewRows
  <2>2. ASSUME NEW i \in 1 .. ChunkCount[text[r]]
        PROVE  \E c \in Rows(p)' : c.no = i
    <3> DEFINE c == [path |-> p, gen |-> g, no |-> i, text |-> text[r],
                     config |-> config[r], vec |-> NoConfig, done |-> FALSE]
    <3>1. c \in Rows(p)'
      BY <1>3, Zenon DEF NewRows
    <3> QED
      BY <3>1
  <2> QED
    BY <2>1, <2>2
<1>6. p \notin slipped => text[r] = documents[p].hash
  <2>1. pc[r] = "replace" /\ Current(r, p) /\ p \in todo[r]
    BY DEF Store, Current
  <2>2. ListTrue(r)
    BY DEF HashInv
  <2>3. p \notin slipped => text[r] = hash[r][p] /\ (Shared(r) => text[r] = disk[p])
    BY <2>1, <2>2 DEF ListTrue
  <2>4. p \notin slipped =>
          \/ hash[r][p] = documents[p].hash
          \/ Shared(r) /\ hash[r][p] # disk[p]
    BY <2>1, <2>2 DEF ListTrue
  <2> QED
    BY <2>3, <2>4
<1>7. HashTrue(p)'
  <2>1. documents'[p].hash = documents[p].hash
    BY <1>4, SetStatusDocuments
  <2> QED
    BY <1>2, <1>3, <1>4, <1>5, <1>6, <2>1 DEF HashTrue, HasText, Numbered
<1>8. ASSUME NEW q \in Paths \ {p} PROVE HashTrue(q)'
  <2>1. q \in Paths /\ KeepsRows(q) /\ HashTrue(q)
    BY <1>3 DEF KeepsRows, HashInv
  <2>2. /\ documents'[q].hash = documents[q].hash
        /\ documents'[q].status = documents[q].status
    BY <1>4, SetStatusDocuments
  <2> QED
    BY <1>4, <2>1, <2>2, TruthKept
<1> QED
  BY <1>7, <1>8

LEMMA TruthStep ==
  ASSUME IInv, HashInv, [Next]_vars
  PROVE  \A p \in Paths : HashTrue(p)'
<1> USE DEF db, held
<1>t. TypeOK /\ documents \in [Paths -> Document]
  BY DEF IInv, TypeOK
<1>1. ASSUME NEW p \in Paths, KeepsRows(p), documents'[p] = documents[p],
             p \in slipped => p \in slipped'
      PROVE  HashTrue(p)'
  BY <1>1, TruthKept DEF HashInv
<1>2. ASSUME UNCHANGED <<documents, chunks>>, slipped \subseteq slipped', NEW p \in Paths
      PROVE  HashTrue(p)'
  BY <1>1, <1>2 DEF KeepsRows, Rows
<1>3. ASSUME NEW r \in Runs, CommitPlan(r), NEW p \in Paths PROVE HashTrue(p)'
  <2>1. Rows(p)' = Rows(p) /\ UNCHANGED slipped
    BY <1>3 DEF CommitPlan, Rows, env
  <2>2. CASE p \in locks[r]
    <3>1. documents'[p].status \in {"pending", "deleted"}
      BY <1>3, <1>t, <2>2 DEF CommitPlan, Document
    <3> QED
      BY <3>1 DEF HashTrue
  <2>3. CASE p \notin locks[r]
    BY <1>1, <1>3, <2>1, <2>3 DEF CommitPlan, KeepsRows
  <2> QED
    BY <2>2, <2>3
<1>4. ASSUME NEW r \in Runs, PurgeDeleted(r), NEW p \in Paths PROVE HashTrue(p)'
  <2>1. UNCHANGED <<documents, slipped>> /\ chunks' = chunks \ RowsOf(Purgeable)
    BY <1>4 DEF PurgeDeleted, env
  <2>2. CASE documents[p].status = "deleted"
    BY <2>1, <2>2 DEF HashTrue
  <2>3. CASE documents[p].status # "deleted"
    <3>1. Rows(p)' = Rows(p)
      BY <2>1, <2>3 DEF RowsOf, Purgeable, Rows
    <3> QED
      BY <1>1, <2>1, <3>1 DEF KeepsRows
  <2> QED
    BY <2>2, <2>3
<1>5. ASSUME NEW p \in Paths, NEW q \in Paths, NEW s \in {"indexed", "failed"},
             SetStatus(q, s), UNCHANGED <<chunks, slipped>>,
             s = "indexed" => documents[q].status = "chunked"
      PROVE  HashTrue(p)'
  <2>1. KeepsRows(p)
    BY <1>5 DEF KeepsRows, Rows
  <2>2. /\ documents'[p].hash = documents[p].hash
        /\ documents'[p].status = IF p = q THEN s ELSE documents[p].status
    BY <1>5, <1>t, SetStatusDocuments
  <2> QED
    BY <1>5, <2>1, <2>2, TruthKept DEF HashInv
<1>6. ASSUME NEW r \in Runs, NEW q \in Paths, MarkFailed(r, q), NEW p \in Paths
      PROVE  HashTrue(p)'
  BY <1>5, <1>6 DEF MarkFailed, env
<1>7. ASSUME NEW r \in Runs, NEW q \in Paths, MarkIndexed(r, q), NEW p \in Paths
      PROVE  HashTrue(p)'
  BY <1>2, <1>5, <1>7 DEF MarkIndexed, Indexable, env
<1>8. ASSUME NEW r \in Runs, Commit(r), NEW p \in Paths, KeepsRows(p), UNCHANGED slipped
      PROVE  HashTrue(p)'
  BY <1>8, CommitDocuments, TruthKept DEF HashInv
<1>9. ASSUME NEW r \in Runs, CloseEmbedding(r), NEW p \in Paths PROVE HashTrue(p)'
  BY <1>8, <1>9 DEF CloseEmbedding, KeepsRows, Rows, env
<1>10. ASSUME NEW r \in Runs, NEW q \in Paths, NEW k \in pend[r],
              EmbedBatch(r, q, k), NEW p \in Paths
       PROVE  HashTrue(p)'
  BY <1>8, <1>10, <1>t, EmbeddingKeepsRows DEF EmbedBatch, env
<1>11. ASSUME NEW r \in Runs, NEW q \in Paths, NEW k \in pend[r],
              UnmarkDocument(r, q, k), NEW p \in Paths
       PROVE  HashTrue(p)'
  BY <1>1, <1>11, <1>t, EmbeddingKeepsRows DEF UnmarkDocument, env
<1>12. ASSUME NEW r \in Runs, NEW p \in Paths,
              \/ \E k \in Configs : Start(r, k)
              \/ \E s, m : Scan(r, s, m)
              \/ ApplyFails(r) \/ ListPending(r) \/ ListChunked(r)
              \/ \E f : IndexLexical(r, f)
              \/ Finish(r) \/ StoreFails(r) \/ Crash(r) \/ UnsaveBatch(r)
       PROVE  HashTrue(p)'
  BY <1>2, <1>12 DEF Start, Scan, ApplyFails, ListPending, ListChunked,
     IndexLexical, Finish, StoreFails, Crash, UnsaveBatch, env
<1>13. ASSUME NEW r \in Runs, NEW q \in Paths, NEW p \in Paths,
              \/ ApplyRow(r, q) \/ CheckSource(r, q) \/ Parse(r, q) \/ OpenDocument(r, q)
              \/ RejectInput(r, q) \/ HoldIndexed(r, q) \/ MarkFails(r, q)
              \/ RecordError(r, q) \/ LockDocument(r, q)
              \/ \E k \in pend[r] : BatchFails(r, q, k)
       PROVE  HashTrue(p)'
  BY <1>2, <1>13 DEF ApplyRow, CheckSource, Parse, OpenDocument, RejectInput,
     HoldIndexed, MarkFails, RecordError, LockDocument, BatchFails, env
<1>14. ASSUME NEW q \in Paths, Edit(q), NEW p \in Paths PROVE HashTrue(p)'
  BY <1>2, <1>14 DEF Edit
<1>15. ASSUME UNCHANGED vars, NEW p \in Paths PROVE HashTrue(p)'
  BY <1>2, <1>15 DEF vars
<1>16. ASSUME NEW r \in Runs, NEW q \in Paths, Store(r, q), NEW p \in Paths
       PROVE  HashTrue(p)'
  BY <1>16, StoredIsTrue
<1>17. ASSUME NEW r \in Runs, RunStep(r), NEW p \in Paths PROVE HashTrue(p)'
  BY <1>17, <1>3, <1>4, <1>6, <1>7, <1>9, <1>10, <1>11, <1>12, <1>13, <1>16
     DEF RunStep, Victim
<1>18. ASSUME NEW r \in Runs, FaultStep(r), NEW p \in Paths PROVE HashTrue(p)'
  BY <1>18, <1>12, <1>13 DEF FaultStep
<1> QED
  BY <1>12, <1>14, <1>15, <1>17, <1>18 DEF Next

\* What a process relies on of its own lists, and what it does not touch of others'.
Own(r) == <<pc[r], plan[r], scan[r], hash[r], todo[r], text[r], locks[r]>>

LEMMA ListsKept ==
  ASSUME NEW r \in Runs, ScanTrue(r), ListTrue(r), UNCHANGED <<disk, slipped>>,
         UNCHANGED Own(r), \A p \in Paths : documents'[p].hash = documents[p].hash,
         todo[r] \subseteq Paths
  PROVE  ScanTrue(r)' /\ ListTrue(r)'
<1>1. \A p \in Paths : Current(r, p)' <=> Current(r, p)
  BY DEF Current, Own
<1>2. ScanTrue(r)'
  BY DEF ScanTrue, Own, Shared
<1>3. ListTrue(r)'
  BY <1>1 DEF ListTrue, Own, Shared
<1> QED
  BY <1>2, <1>3

\* A stage in which no list of a process is used any more, or none yet.
LEMMA ListsUnused ==
  ASSUME NEW r \in Runs, ScanTrue(r), UNCHANGED <<disk, slipped>>,
         pc'[r] \notin {"apply", "chunk", "parse", "store", "replace", "fail"},
         \/ pc'[r] \in {"idle", "scan"}
         \/ pc[r] \notin {"idle", "scan"} /\ scan'[r] = scan[r]
  PROVE  ScanTrue(r)' /\ ListTrue(r)'
BY DEF ScanTrue, ListTrue, Shared

\* An edit that does not slip finds no run that has seen the note, or only the one
\* process between two of its reads.
LEMMA EditLists ==
  ASSUME TypeOK, NEW r \in Runs, ScanTrue(r), ListTrue(r), NEW p \in Paths, Edit(p)
  PROVE  ScanTrue(r)' /\ ListTrue(r)'
<1>1. /\ UNCHANGED Own(r) /\ UNCHANGED documents
      /\ \A q \in Paths \ {p} : disk'[q] = disk[q]
      /\ slipped \subseteq slipped'
  BY DEF Edit, Own, local, held, db, TypeOK
<1>2. CASE Exposed(p)
  <2>1. slipped' = slipped \cup {p}
    BY <1>2 DEF Edit
  <2>2. \A q \in Paths \ slipped' : q \in Paths \ slipped /\ disk'[q] = disk[q]
    BY <1>1, <2>1
  <2>3. ScanTrue(r)'
    BY <1>1, <2>2 DEF ScanTrue, Own, Shared
  <2>4. \A q \in Paths : Current(r, q)' <=> Current(r, q)
    BY <1>1 DEF Current, Own
  <2>5. \A q \in todo[r] \ slipped' : q \in Paths \ slipped'
    BY DEF TypeOK
  <2>6. ListTrue(r)'
    BY <1>1, <2>2, <2>4, <2>5 DEF ListTrue, Own, Shared
  <2> QED
    BY <2>3, <2>6
<1>3. CASE ~Exposed(p)
  <2>1. Shared(r) => pc[r] = "idle"
    BY <1>3 DEF Exposed, Shared
  <2>2. ~(pc[r] = "parse" /\ Current(r, p))
    BY <1>3 DEF Exposed
  <2>3. ScanTrue(r)'
    BY <1>1, <2>1 DEF ScanTrue, Own, Shared
  <2>4. \A q \in Paths : Current(r, q)' <=> Current(r, q)
    BY <1>1 DEF Current, Own
  <2>5. ListTrue(r)'
    BY <1>1, <2>1, <2>2, <2>4 DEF ListTrue, Own, Shared
  <2> QED
    BY <2>3, <2>5
<1> QED
  BY <1>2, <1>3

\* Applying a plan gives documents new hashes.  Another process that has one of
\* them on its list finds its hash unlike the note, or it lists what the note is.
LEMMA CommitPlanLists ==
  ASSUME TypeOK, HashInv, NEW r \in Runs, CommitPlan(r), NEW o \in Runs \ {r}
  PROVE  ScanTrue(o)' /\ ListTrue(o)'
<1>1. UNCHANGED Own(o) /\ UNCHANGED <<disk, slipped>>
  BY DEF CommitPlan, Own, TypeOK, env, Goto
<1>2. Shared(o) /\ Shared(r) /\ ScanTrue(r) /\ ScanTrue(o) /\ ListTrue(o)
  BY DEF Shared, HashInv
<1>3. ASSUME NEW p \in Paths \ slipped
      PROVE  documents'[p].hash \in {documents[p].hash, disk[p]}
  <2>1. CASE p \notin locks[r] \/ plan[r][p] = "delete"
    BY <2>1 DEF CommitPlan, TypeOK, Document
  <2>2. CASE p \in locks[r] /\ plan[r][p] # "delete"
    <3>1. documents'[p].hash = scan[r][p]
      BY <2>2 DEF CommitPlan
    <3>2. pc[r] = "apply"
      BY DEF CommitPlan
    <3>3. scan[r][p] = disk[p]
      BY <1>2, <2>2, <3>2 DEF ScanTrue
    <3> QED
      BY <3>1, <3>3
  <2> QED
    BY <2>1, <2>2
<1>4. ScanTrue(o)'
  BY <1>1, <1>2 DEF ScanTrue, Own, Shared
<1>5. \A q \in Paths : Current(o, q)' <=> Current(o, q)
  BY <1>1 DEF Current, Own
<1>6. todo[o] \subseteq Paths
  BY DEF TypeOK
<1>7. pc[o] \in {"chunk", "parse", "store", "replace", "fail"} =>
        \A p \in todo[o] \ slipped :
          hash[o][p] = documents'[p].hash \/ hash[o][p] # disk[p]
  BY <1>2, <1>3, <1>6 DEF ListTrue
<1>8. ListTrue(o)'
  BY <1>1, <1>2, <1>5, <1>7 DEF ListTrue, Own, Shared
<1> QED
  BY <1>4, <1>8

LEMMA ScanLists ==
  ASSUME TypeOK, LocksClosed, NEW r \in Runs, NEW s, NEW m, Scan(r, s, m)
  PROVE  ScanTrue(r)' /\ ListTrue(r)'
<1> DEFINE seen == [p \in Paths |-> IF p \in m THEN Absent ELSE disk[p]]
           kind(p) == Classify(p, seen[p], s, m, Version[config[r]])
<1>1. /\ pc[r] = "scan" /\ pc'[r] = "apply" /\ UNCHANGED <<disk, slipped, locks>>
      /\ scan'[r] = seen
      /\ plan'[r] = [p \in Paths |-> kind(p)]
      /\ todo'[r] = {p \in Paths : kind(p) # "keep"}
  BY DEF Scan, Goto, held, TypeOK
<1>2. locks'[r] = {}
  BY <1>1 DEF LocksClosed
<1>3. ASSUME NEW p \in todo'[r], plan'[r][p] # "delete" PROVE scan'[r][p] # Absent
  <2>1. kind(p) \notin {"keep", "delete"} /\ p \in Paths
    BY <1>1, <1>3
  <2>2. seen[p] # Absent
    BY <2>1 DEF Classify
  <2> QED
    BY <1>1, <2>2
<1>4. \A p \in Paths : scan'[r][p] \in {Absent, disk'[p]}
  BY <1>1
<1> QED
  BY <1>1, <1>2, <1>3, <1>4 DEF ScanTrue, ListTrue

LEMMA ApplyRowLists ==
  ASSUME TypeOK, NEW r \in Runs, ScanTrue(r), NEW p \in Paths, ApplyRow(r, p)
  PROVE  ScanTrue(r)' /\ ListTrue(r)'
<1>1. /\ pc[r] = "apply" /\ UNCHANGED <<pc, plan, scan, disk, slipped>>
      /\ p \in todo[r] /\ todo'[r] \subseteq todo[r]
      /\ locks' = locks \/ Lock(r, p)
  BY DEF ApplyRow, Upcoming, Done, local, env, TypeOK
<1>2. locks'[r] \subseteq locks[r] \cup {p}
  BY <1>1, LockTyped DEF TypeOK
<1> QED
  BY <1>1, <1>2 DEF ScanTrue, ListTrue, Shared

\* The stages of the chunking loop.
LEMMA ChunkLists ==
  ASSUME TypeOK, NEW r \in Runs, ScanTrue(r), ListTrue(r),
         \/ ListPending(r) \/ StoreFails(r)
         \/ \E p \in Paths : \/ CheckSource(r, p) \/ Parse(r, p) \/ LockDocument(r, p)
                             \/ Store(r, p) \/ MarkFailed(r, p)
  PROVE  ScanTrue(r)' /\ ListTrue(r)'
<1>t. /\ pc \in [Runs -> Stages] /\ todo \in [Runs -> SUBSET Paths]
      /\ DOMAIN text = Runs
      /\ DOMAIN hash = Runs
  BY DEF TypeOK
<1>1. ScanTrue(r)'
  <2>1. /\ UNCHANGED <<disk, slipped, scan>>
        /\ pc[r] \notin {"idle", "scan"}
        /\ pc'[r] # "apply"
    BY <1>t DEF ListPending, StoreFails, CheckSource, Parse, LockDocument, Store,
                MarkFailed, Goto, env, local
  <2> QED
    BY <2>1 DEF ScanTrue, Shared
<1>2. CASE ListPending(r)
  <2>1. /\ pc'[r] = "chunk" /\ UNCHANGED documents
        /\ todo'[r] = AtVersion(r, "pending")
        /\ \A p \in AtVersion(r, "pending") : hash'[r][p] = documents[p].hash
    BY <1>2, <1>t DEF ListPending, AtVersion, Goto, db
  <2>2. \A p \in todo'[r] : hash'[r][p] = documents'[p].hash
    BY <2>1
  <2> QED
    BY <1>1, <2>1, <2>2 DEF ListTrue
<1>3. CASE StoreFails(r)
  <2>1. /\ pc'[r] = "fail"
        /\ UNCHANGED <<documents, disk, slipped, hash, todo>>
    BY <1>3, <1>t DEF StoreFails, Goto, db
  <2>s. pc[r] \in {"store", "replace"}
    BY <1>3 DEF StoreFails
  <2>2. \A p \in todo[r] \ slipped :
          \/ hash[r][p] = documents[p].hash
          \/ Shared(r) /\ hash[r][p] # disk[p]
    BY <2>s DEF ListTrue
  <2> QED
    BY <1>1, <2>1, <2>2 DEF ListTrue, Shared
<1>4. ASSUME NEW p \in Paths, CheckSource(r, p) PROVE ListTrue(r)'
  <2>1. /\ pc[r] = "chunk" /\ Current(r, p)
        /\ UNCHANGED <<documents, disk, slipped, hash, todo>>
        /\ \/ pc'[r] = "parse" /\ disk[p] = hash[r][p]
           \/ pc'[r] = "fail"
    BY <1>4, <1>t DEF CheckSource, Goto, db, env, local
  <2>2. \A q \in Paths : Current(r, q)' => q = p
    BY <2>1, CurrentIsOne DEF Current
  <2> QED
    BY <2>1, <2>2 DEF ListTrue, Shared
<1>5. ASSUME NEW p \in Paths, Parse(r, p) PROVE ListTrue(r)'
  <2>1. /\ pc[r] = "parse" /\ Current(r, p)
        /\ UNCHANGED <<documents, disk, slipped, hash, todo>>
        /\ \/ pc'[r] = "store" /\ text'[r] = disk[p]
           \/ pc'[r] = "fail"
    BY <1>5, <1>t DEF Parse, Goto, db, env
  <2>2. \A q \in Paths : Current(r, q)' => q = p
    BY <2>1, CurrentIsOne DEF Current
  <2>3. p \notin slipped => disk[p] = hash[r][p]
    BY <2>1 DEF ListTrue
  <2> QED
    BY <2>1, <2>2, <2>3 DEF ListTrue, Shared
<1>6. ASSUME NEW p \in Paths, MarkFailed(r, p) \/ Store(r, p) PROVE ListTrue(r)'
  <2>1. /\ pc[r] \in {"replace", "fail"} /\ pc'[r] = "chunk"
        /\ todo'[r] \subseteq todo[r]
        /\ UNCHANGED <<disk, slipped, hash>>
    BY <1>6, <1>t DEF MarkFailed, Store, Goto, Done, env
  <2>2. \A q \in Paths : documents'[q].hash = documents[q].hash
    BY <1>6, SetStatusDocuments DEF MarkFailed, Store
  <2>3. todo[r] \subseteq Paths
    BY <1>t
  <2> QED
    BY <2>1, <2>2, <2>3 DEF ListTrue, Shared
<1>7. ASSUME NEW p \in Paths, LockDocument(r, p) PROVE ListTrue(r)'
  <2>1. /\ pc[r] = "store" /\ pc'[r] = "replace"
        /\ UNCHANGED <<documents, disk, slipped, hash, todo, text>>
    BY <1>7, <1>t DEF LockDocument, Goto, db, env, local
  <2>2. \A q \in Paths : Current(r, q)' <=> Current(r, q)
    BY <2>1 DEF Current
  <2> QED
    BY <2>1, <2>2 DEF ListTrue, Shared
<1> QED
  BY <1>1, <1>2, <1>3, <1>4, <1>5, <1>6, <1>7

LEMMA ListsStep ==
  ASSUME IInv, HashInv, [Next]_vars
  PROVE  \A r \in Runs : ScanTrue(r)' /\ ListTrue(r)'
<1> DEFINE Fine(o) == ScanTrue(o)' /\ ListTrue(o)'
<1>t. /\ TypeOK /\ LocksClosed /\ documents \in [Paths -> Document]
      /\ pc \in [Runs -> Stages] /\ todo \in [Runs -> SUBSET Paths]
      /\ locks \in [Runs -> SUBSET Paths]
      /\ DOMAIN plan = Runs /\ DOMAIN scan = Runs /\ DOMAIN hash = Runs
      /\ DOMAIN text = Runs
  BY DEF IInv, TypeOK
<1>h. \A r \in Runs : ScanTrue(r) /\ ListTrue(r)
  BY DEF HashInv
<1> DEFINE Apart(r) == /\ \A o \in Runs \ {r} : UNCHANGED Own(o)
                       /\ UNCHANGED <<disk, slipped>>
           HashesKept == \A p \in Paths : documents'[p].hash = documents[p].hash
           Unused(r) == /\ pc'[r] \notin {"apply", "chunk", "parse", "store", "replace", "fail"}
                        /\ \/ pc'[r] \in {"idle", "scan"}
                           \/ pc[r] \notin {"idle", "scan"} /\ scan'[r] = scan[r]
<1>o. ASSUME NEW r \in Runs, Apart(r), HashesKept, NEW o \in Runs \ {r} PROVE Fine(o)
  <2>1. o \in Runs /\ todo[o] \subseteq Paths
    BY <1>t
  <2> QED
    BY <1>h, <1>o, <2>1, ListsKept
<1>u. ASSUME NEW r \in Runs, Apart(r), Unused(r) PROVE Fine(r)
  BY <1>h, <1>u, ListsUnused
<1>k. UNCHANGED documents => HashesKept
  OBVIOUS
<1>c. ASSUME NEW r \in Runs, Commit(r) PROVE HashesKept
  BY <1>c, CommitDocuments
<1>s. ASSUME NEW p \in Paths, NEW s, SetStatus(p, s) PROVE HashesKept
  BY <1>t, <1>s, SetStatusDocuments
<1> USE DEF Own, Goto, db, held, local, env
<1>1. ASSUME NEW r \in Runs, NEW k \in Configs, Start(r, k)
      PROVE  Apart(r) /\ HashesKept /\ Unused(r)
  BY <1>t, <1>1 DEF Start
<1>2. ASSUME NEW r \in Runs, NEW s, NEW m, Scan(r, s, m) PROVE Apart(r) /\ HashesKept
  BY <1>t, <1>2 DEF Scan
<1>3. ASSUME NEW r \in Runs, NEW p \in Paths, ApplyRow(r, p)
      PROVE  Apart(r) /\ HashesKept
  <2>1. locks' = locks \/ Lock(r, p)
    BY <1>3 DEF ApplyRow
  <2> QED
    BY <1>t, <1>3, <2>1 DEF ApplyRow, Lock, Done
<1>4. ASSUME NEW r \in Runs, CommitPlan(r) PROVE Apart(r) /\ Unused(r)
  BY <1>t, <1>4 DEF CommitPlan
<1>5. ASSUME NEW r \in Runs, ApplyFails(r) \/ Finish(r) \/ Crash(r)
      PROVE  Apart(r) /\ HashesKept /\ Unused(r)
  BY <1>t, <1>5 DEF ApplyFails, Finish, Crash, Leave, Rollback
<1>6. ASSUME NEW r \in Runs, PurgeDeleted(r) \/ ListChunked(r) \/ UnsaveBatch(r)
      PROVE  Apart(r) /\ HashesKept /\ Unused(r)
  BY <1>t, <1>6 DEF PurgeDeleted, ListChunked, UnsaveBatch
<1>7. ASSUME NEW r \in Runs, CloseEmbedding(r) PROVE Apart(r) /\ HashesKept /\ Unused(r)
  BY <1>t, <1>7, <1>c DEF CloseEmbedding, Commit
<1>8. ASSUME NEW r \in Runs, NEW f, IndexLexical(r, f)
      PROVE  Apart(r) /\ HashesKept /\ Unused(r)
  BY <1>t, <1>8 DEF IndexLexical
<1>9. ASSUME NEW r \in Runs,
             \/ ListPending(r) \/ StoreFails(r)
             \/ \E p \in Paths : CheckSource(r, p) \/ Parse(r, p) \/ LockDocument(r, p)
      PROVE  Apart(r) /\ HashesKept
  BY <1>t, <1>9 DEF ListPending, StoreFails, CheckSource, Parse, LockDocument, Lock,
                    Rollback
<1>10. ASSUME NEW r \in Runs, NEW p \in Paths, Store(r, p) \/ MarkFailed(r, p)
       PROVE  Apart(r) /\ HashesKept
  BY <1>t, <1>10, <1>s DEF Store, MarkFailed, Done
<1>11. ASSUME NEW r \in Runs, NEW p \in Paths,
              \/ OpenDocument(r, p) \/ RejectInput(r, p) \/ MarkFails(r, p)
              \/ RecordError(r, p) \/ HoldIndexed(r, p)
       PROVE  Apart(r) /\ HashesKept /\ Unused(r)
  BY <1>t, <1>11 DEF OpenDocument, RejectInput, MarkFails, RecordError, HoldIndexed, Lock,
                     CloseDocument, Done, Rollback
<1>12. ASSUME NEW r \in Runs, NEW p \in Paths, MarkIndexed(r, p)
       PROVE  Apart(r) /\ HashesKept /\ Unused(r)
  BY <1>t, <1>12, <1>s DEF MarkIndexed, CloseDocument, Done
<1>13. ASSUME NEW r \in Runs, NEW p \in Paths, NEW k,
              EmbedBatch(r, p, k) \/ BatchFails(r, p, k) \/ UnmarkDocument(r, p, k)
       PROVE  Apart(r) /\ HashesKept /\ Unused(r)
  <2>1. HashesKept
    BY <1>13, <1>c DEF EmbedBatch, BatchFails, UnmarkDocument
  <2>2. Apart(r) /\ Unused(r)
    BY <1>t, <1>13 DEF EmbedBatch, BatchFails, UnmarkDocument, AfterBatch, Commit, Done,
                       Rollback
  <2> QED
    BY <2>1, <2>2
<1> HIDE DEF Own, Goto, db, held, local, env, Apart, HashesKept, Unused
<1>14. ASSUME NEW r \in Runs, Apart(r), HashesKept, Fine(r) PROVE \A o \in Runs : Fine(o)
  BY <1>o, <1>14
<1>15. ASSUME NEW r \in Runs, Apart(r), HashesKept, Unused(r)
       PROVE  \A o \in Runs : Fine(o)
  BY <1>14, <1>15, <1>u
<1>16. ASSUME NEW r \in Runs, CommitPlan(r) PROVE \A o \in Runs : Fine(o)
  <2>1. Fine(r)
    BY <1>4, <1>16, <1>u
  <2>2. \A o \in Runs \ {r} : Fine(o)
    BY <1>t, <1>16, CommitPlanLists
  <2> QED
    BY <2>1, <2>2
<1>17. ASSUME NEW r \in Runs, NEW s, NEW m, Scan(r, s, m) PROVE \A o \in Runs : Fine(o)
  BY <1>2, <1>14, <1>17, <1>t, ScanLists
<1>18. ASSUME NEW r \in Runs, NEW p \in Paths, ApplyRow(r, p)
       PROVE  \A o \in Runs : Fine(o)
  BY <1>3, <1>14, <1>18, <1>t, <1>h, ApplyRowLists
<1>19. ASSUME NEW r \in Runs,
              \/ ListPending(r) \/ StoreFails(r)
              \/ \E p \in Paths : \/ CheckSource(r, p) \/ Parse(r, p)
                                  \/ LockDocument(r, p) \/ Store(r, p)
                                  \/ MarkFailed(r, p)
       PROVE  \A o \in Runs : Fine(o)
  <2>1. Fine(r)
    BY <1>19, <1>t, <1>h, ChunkLists
  <2>2. Apart(r) /\ HashesKept
    BY <1>9, <1>10, <1>19
  <2> QED
    BY <1>14, <2>1, <2>2
<1>20. ASSUME NEW p \in Paths, Edit(p) PROVE \A o \in Runs : Fine(o)
  BY <1>t, <1>h, <1>20, EditLists
<1>21. CASE UNCHANGED vars
  <2>1. UNCHANGED <<disk, slipped, documents>> /\ \A o \in Runs : UNCHANGED Own(o)
    BY <1>21 DEF vars, Own
  <2>2. \A o \in Runs : todo[o] \subseteq Paths
    BY <1>t
  <2> QED
    BY <1>h, <2>1, <2>2, ListsKept
<1> HIDE DEF Fine
<1>22. ASSUME NEW r \in Runs,
              \/ ApplyFails(r) \/ Finish(r) \/ Crash(r)
              \/ PurgeDeleted(r) \/ ListChunked(r) \/ UnsaveBatch(r) \/ CloseEmbedding(r)
              \/ \E f : IndexLexical(r, f)
       PROVE  \A o \in Runs : Fine(o)
  BY <1>5, <1>6, <1>7, <1>8, <1>15, <1>22
<1>23. ASSUME NEW r \in Runs, NEW p \in Paths,
              \/ OpenDocument(r, p) \/ RejectInput(r, p) \/ MarkFails(r, p)
              \/ RecordError(r, p) \/ HoldIndexed(r, p) \/ MarkIndexed(r, p)
              \/ \E k \in pend[r] : \/ EmbedBatch(r, p, k) \/ BatchFails(r, p, k)
                                    \/ UnmarkDocument(r, p, k)
       PROVE  \A o \in Runs : Fine(o)
  BY <1>11, <1>12, <1>13, <1>15, <1>23
<1>24. ASSUME NEW r \in Runs, RunStep(r) PROVE \A o \in Runs : Fine(o)
  BY <1>16, <1>17, <1>18, <1>19, <1>22, <1>23, <1>24 DEF RunStep, Victim
<1>25. ASSUME NEW r \in Runs, FaultStep(r) PROVE \A o \in Runs : Fine(o)
  BY <1>17, <1>19, <1>22, <1>23, <1>25 DEF FaultStep
<1>26. ASSUME Next PROVE \A o \in Runs : Fine(o)
  <2>1. ASSUME NEW r \in Runs, NEW k \in Configs, Start(r, k) PROVE \A o \in Runs : Fine(o)
    BY <2>1, <1>1, <1>15
  <2> QED
    BY <1>26, <1>20, <1>24, <1>25, <2>1 DEF Next
<1> QED
  BY <1>21, <1>26 DEF Fine

LEMMA HashInvariant == Spec => []HashInv
<1>1. Init => HashInv
  BY DEF Init, HashInv, HashTrue, ScanTrue, ListTrue
<1>2. IInv /\ HashInv /\ [Next]_vars => HashInv'
  BY TruthStep, ListsStep DEF HashInv
<1> QED
  BY <1>1, <1>2, IndexInvariant, PTL DEF Spec

\* The chunks of an indexed document are those of the recorded hash, so that an
\* unchanged hash (planner.py:39) means that nothing has to be done: with any number
\* of processes, each with lists that age while it works them off, and any edits
\* but those that slip into the gap between the two times a note is read
\* (chunking/service.py:54, 56) or, with several processes, into any of their runs.
THEOREM HashesAreTrue == Spec => []IndexedMatchesHash
<1>1. HashInv => IndexedMatchesHash
  BY DEF HashInv, HashTrue, HasText, IndexedMatchesHash
<1> QED
  BY <1>1, HashInvariant, PTL

----------------------------------------------------------------------------
\* The plan of a run that has not scanned the vault yet is empty.
PlanIsFresh ==
  \A r \in Runs : pc[r] \in {"idle", "scan"} => plan[r] = [p \in Paths |-> "keep"]

\* Plans are made by a scan and forgotten when the process leaves.
LEMMA PlanStep ==
  ASSUME TypeOK, PlanIsFresh, [Next]_vars
  PROVE  PlanIsFresh'
<1> USE DEF db, local, held, env
<1>t. /\ pc \in [Runs -> Stages]
      /\ plan = [o \in Runs |-> plan[o]]
  BY DEF TypeOK
<1>1. ASSUME NEW r \in Runs, UNCHANGED plan, pc'[r] \notin {"idle", "scan"},
             \A o \in Runs \ {r} : pc'[o] = pc[o]
      PROVE  PlanIsFresh'
  BY <1>1 DEF PlanIsFresh
<1>2. ASSUME NEW r \in Runs, NEW k \in Configs, Start(r, k) PROVE PlanIsFresh'
  BY <1>2, <1>t DEF Start, Goto, PlanIsFresh
<1>3. ASSUME NEW r \in Runs,
             ApplyFails(r) \/ Finish(r) \/ Crash(r)
      PROVE  PlanIsFresh'
  BY <1>3, <1>t DEF ApplyFails, Finish, Crash, Leave, Goto, PlanIsFresh
<1>4. ASSUME NEW r \in Runs, CommitPlan(r) \/ \E s, m : Scan(r, s, m)
      PROVE  PlanIsFresh'
  <2>1. /\ pc'[r] \notin {"idle", "scan"}
        /\ \A o \in Runs \ {r} : pc'[o] = pc[o] /\ plan'[o] = plan[o]
    BY <1>4, <1>t DEF CommitPlan, Scan, Goto
  <2>2. QED
    BY <2>1 DEF PlanIsFresh
<1>5. ASSUME NEW r \in Runs,
             \/ PurgeDeleted(r) \/ ListPending(r) \/ ListChunked(r)
             \/ CloseEmbedding(r) \/ StoreFails(r) \/ UnsaveBatch(r)
             \/ \E f : IndexLexical(r, f)
      PROVE  PlanIsFresh'
  BY <1>1, <1>5, <1>t DEF PurgeDeleted, ListPending, ListChunked, CloseEmbedding,
     StoreFails, UnsaveBatch, IndexLexical, Goto
<1>6. ASSUME NEW r \in Runs, NEW q \in Paths,
             \/ CheckSource(r, q) \/ Parse(r, q) \/ LockDocument(r, q)
             \/ Store(r, q) \/ MarkFailed(r, q)
      PROVE  PlanIsFresh'
  BY <1>1, <1>6, <1>t DEF CheckSource, Parse, LockDocument, Store, MarkFailed, Goto
<1>7. ASSUME NEW r \in Runs, NEW q \in Paths,
             \/ OpenDocument(r, q) \/ RejectInput(r, q) \/ MarkIndexed(r, q)
             \/ HoldIndexed(r, q) \/ MarkFails(r, q) \/ RecordError(r, q)
             \/ ApplyRow(r, q)
      PROVE  PlanIsFresh'
  BY <1>1, <1>7, <1>t DEF OpenDocument, RejectInput, MarkIndexed, HoldIndexed,
     MarkFails, RecordError, CloseDocument, ApplyRow, Goto
<1>8. ASSUME NEW r \in Runs, NEW q \in Paths, NEW k \in pend[r],
             EmbedBatch(r, q, k) \/ BatchFails(r, q, k) \/ UnmarkDocument(r, q, k)
      PROVE  PlanIsFresh'
  BY <1>1, <1>8, <1>t DEF EmbedBatch, BatchFails, UnmarkDocument, AfterBatch, Goto
<1>9. CASE UNCHANGED vars \/ \E p \in Paths : Edit(p)
  BY <1>9 DEF vars, Edit, PlanIsFresh
<1>10. ASSUME NEW r \in Runs, RunStep(r) PROVE PlanIsFresh'
  BY <1>10, <1>3, <1>4, <1>5, <1>6, <1>7, <1>8 DEF RunStep, Victim
<1>11. ASSUME NEW r \in Runs, FaultStep(r) PROVE PlanIsFresh'
  BY <1>11, <1>3, <1>4, <1>5, <1>7, <1>8 DEF FaultStep
<1>12. QED
  BY <1>2, <1>9, <1>10, <1>11 DEF Next

\* The scan that plans a deletion has looked for the note and not found it.
LEMMA DeletedIsGone ==
  ASSUME TypeOK, NEW r \in Runs, NEW stage \in {"none", "hash", "discover"},
         NEW missed, Scan(r, stage, missed),
         NEW p \in Paths, plan'[r][p] = "delete"
  PROVE  disk[p] = Absent
<1> DEFINE seen == [q \in Paths |-> IF q \in missed THEN Absent ELSE disk[q]]
<1>1. Classify(p, seen[p], stage, missed, Version[config[r]]) = "delete"
  BY DEF Scan, TypeOK
<1>2. seen[p] = Absent /\ ~Spared(p, stage, missed)
  BY <1>1 DEF Classify
<1>3. p \notin missed
  BY <1>2 DEF Spared, Scan
<1>4. QED
  BY <1>2, <1>3

\* The type of every directory can be examined (vault/scanner.py): where it cannot,
\* the notes below it are missed, and no discovery error is reported.
MetadataIsRead == "metadata" \notin ScanStages

\* A note is planned for deletion only if the scan of the vault looked for it and
\* it was not there, whichever files cannot be read and directories cannot be
\* listed (planner.py:73), and whatever other processes do.  TLC finds the notes
\* of a directory that cannot be examined planned for deletion otherwise.
THEOREM DeletionsAreGone ==
  ASSUME MetadataIsRead
  PROVE  Spec => OnlyGoneNotesAreDeleted
<1>1. Init => PlanIsFresh
  BY DEF Init, PlanIsFresh
<1>2. IInv /\ PlanIsFresh /\ [Next]_vars => PlanIsFresh'
  BY PlanStep DEF IInv
<1>3. ASSUME IInv, PlanIsFresh, [Next]_vars,
             NEW r \in Runs, NEW p \in Paths, pc[r] = "scan", plan'[r][p] = "delete"
      PROVE  disk[p] = Absent
  <2> USE DEF local
  <2>1. plan[r][p] = "keep"
    BY <1>3 DEF PlanIsFresh
  <2>2. CASE \E s \in {"none", "hash", "discover"} : \E m : Scan(r, s, m)
    BY <1>3, <2>2, DeletedIsGone DEF IInv
  <2>3. ASSUME plan'[r] = plan[r] PROVE FALSE
    BY <1>3, <2>1, <2>3
  <2>4. ASSUME NEW o \in Runs \ {r},
               \/ \E s, m : Scan(o, s, m)
               \/ CommitPlan(o) \/ ApplyFails(o) \/ Finish(o) \/ Crash(o)
        PROVE  FALSE
    BY <1>3, <2>3, <2>4 DEF Scan, CommitPlan, ApplyFails, Finish, Crash, Leave, IInv,
       TypeOK
  <2>5. CASE Crash(r)
    BY <1>3, <2>5 DEF Crash, Leave, IInv, TypeOK
  <2>6. ASSUME CommitPlan(r) \/ ApplyFails(r) \/ Finish(r) PROVE FALSE
    BY <1>3, <2>6 DEF CommitPlan, ApplyFails, Finish
  <2>7. ASSUME NEW o \in Runs,
               \/ \E k \in Configs : Start(o, k)
               \/ PurgeDeleted(o) \/ ListPending(o) \/ ListChunked(o)
               \/ CloseEmbedding(o) \/ StoreFails(o) \/ UnsaveBatch(o)
               \/ \E f : IndexLexical(o, f)
        PROVE  FALSE
    BY <2>3, <2>7 DEF Start, PurgeDeleted, ListPending, ListChunked, CloseEmbedding,
       StoreFails, UnsaveBatch, IndexLexical
  <2>8. ASSUME NEW o \in Runs, NEW q \in Paths,
               \/ CheckSource(o, q) \/ Parse(o, q) \/ Store(o, q)
               \/ MarkFailed(o, q) \/ OpenDocument(o, q) \/ RejectInput(o, q)
               \/ MarkIndexed(o, q) \/ HoldIndexed(o, q) \/ MarkFails(o, q)
               \/ ApplyRow(o, q) \/ RecordError(o, q) \/ LockDocument(o, q)
               \/ \E k \in pend[o] :
                    EmbedBatch(o, q, k) \/ BatchFails(o, q, k) \/ UnmarkDocument(o, q, k)
        PROVE  FALSE
    BY <2>3, <2>8 DEF CheckSource, Parse, Store, MarkFailed, OpenDocument,
       RejectInput, MarkIndexed, HoldIndexed, MarkFails, EmbedBatch, BatchFails,
       ApplyRow, RecordError, LockDocument, UnmarkDocument
  <2>9. ASSUME UNCHANGED vars \/ \E q \in Paths : Edit(q) PROVE FALSE
    BY <2>3, <2>9 DEF vars, Edit
  <2>10. ASSUME NEW o \in Runs, RunStep(o) PROVE disk[p] = Absent
    BY <2>10, <2>2, <2>4, <2>5, <2>6, <2>7, <2>8 DEF RunStep, Victim
  <2>11. ASSUME NEW o \in Runs, FaultStep(o) PROVE disk[p] = Absent
    <3>1. ScanStages \subseteq {"none", "hash", "discover"}
      BY DEF MetadataIsRead
    <3>2. QED
      BY <2>11, <3>1, <2>2, <2>4, <2>5, <2>6, <2>7, <2>8 DEF FaultStep
  <2>12. QED
    BY <1>3, <2>7, <2>9, <2>10, <2>11 DEF Next
<1>4. IInv /\ PlanIsFresh /\ [Next]_vars =>
        [\A r \in Runs, p \in Paths :
           pc[r] = "scan" /\ plan'[r][p] = "delete" => disk[p] = Absent]_vars
  BY <1>3
<1>5. QED
  BY <1>1, <1>2, <1>4, IndexInvariant, PTL DEF Spec, OnlyGoneNotesAreDeleted

=============================================================================
