--------------------------- MODULE IndexPipeline ---------------------------
(***************************************************************************)
(* The incremental index run of OPK-RAG: `opk-rag index` (indexing/        *)
(* orchestrator.py) scans a Markdown vault, plans against the documents    *)
(* table, replaces chunks, embeds them, refreshes the lexical index and    *)
(* closes its index_runs row.  Every stage opens its own connection; the   *)
(* PostgreSQL tables are the only state that survives a crash.             *)
(*                                                                         *)
(* A process r of Runs performs runs one after another.  One element of    *)
(* Runs is the documented use; two show what happens when two shells index *)
(* the same vault, which nothing in the code prevents.                     *)
(*                                                                         *)
(* Abstractions: a content stands for its SHA-256; a model chunk stands    *)
(* for one embedding batch; a configuration stands for its fingerprint;    *)
(* one knowledge base; OPK_RAG_VECTOR_BACKEND=postgres_pgvector.           *)
(***************************************************************************)
EXTENDS Integers, FiniteSets

CONSTANTS
  Paths,        \* relative paths of the vault; numbers, in path order
  Contents,     \* possible contents of a file
  Absent,       \* no file at a path, no row in the documents table
  Configs,      \* embedding configurations a run may be started with
  NoConfig,     \* an embedding column that is null
  Runs,         \* processes that run `opk-rag index`
  Gens,         \* identities of one insertion of a document's chunk rows
  ChunkCount,   \* how many chunks a content is cut into (0: an empty note)
  Version,      \* parser and chunking version of a configuration
  Unparsable,   \* contents parse_markdown_file raises on
  Oversized,    \* contents prepare_embedding_input raises on
  ScanStages,   \* stages in which the vault scan may fail
  MaxEdits,     \* bound: edits of the vault
  MaxFaults     \* bound: exceptions, failed scans and crashes

ASSUME PathsAssumption  == Paths \subseteq Nat /\ IsFiniteSet(Paths)
ASSUME AbsentAssumption == Absent \notin Contents /\ NoConfig \notin Configs
ASSUME CountAssumption  == ChunkCount \in [Contents -> Nat]
ASSUME BoundAssumption  == MaxEdits \in Nat /\ MaxFaults \in Nat
ASSUME StageAssumption  == ScanStages \subseteq {"hash", "discover", "metadata"}

VARIABLES
  disk,       \* the vault: path -> content or Absent
  documents,  \* documents table: path -> index_status, content_hash, version
  chunks,     \* chunks table: a set of rows
  lex,        \* keys of the rows that have lexical statistics
  runs,       \* index_runs: status of the latest run of a process
  pc, config, \* where a process is, and the configuration of its run
  plan, scan, \* sync_result: the document plan and the scanned hashes
  hash,       \* content_hash of the documents list_pending_chunk_documents gave
  todo,       \* documents the current loop has still to handle
  text,       \* parsed content of the current document
  expect,     \* keys of the chunks the embedding loop read for the document
  pend,       \* those of them that still need an embedding
  clean,      \* nothing has failed in this run so far
  broken,     \* a batch of the current document failed
  locks,      \* document rows locked by an open transaction
  marks,      \* documents set 'indexed' inside that open transaction
  slipped,    \* history, read by no guard: notes edited at a bad moment
  edits, faults

db    == <<documents, chunks, lex, runs>>
local == <<config, plan, scan, hash, text, expect, pend, clean, broken>>
held  == <<locks, marks>>
env   == <<disk, slipped, edits, faults>>
vars  == <<disk, documents, chunks, lex, runs, pc, config, plan, scan, hash,
           todo, text, expect, pend, clean, broken, locks, marks, slipped,
           edits, faults>>

----------------------------------------------------------------------------
Texts    == Contents \cup {Absent}
Statuses == {"none", "pending", "chunked", "indexed", "failed", "deleted"}
Versions == {Version[k] : k \in Configs}
Stages   == {"idle", "scan", "apply", "purge", "list", "chunk", "parse",
             "store", "replace", "fail", "open", "embed", "unsave", "unmark",
             "mark", "hold", "record", "lexical", "finish"}

Document == [status : Statuses, hash : Texts, version : Versions \cup {NoConfig}]

Row == [path : Paths, gen : Gens, no : Nat, text : Contents,
        config : Configs, vec : Configs \cup {NoConfig}, done : BOOLEAN]

Key(c)      == <<c.path, c.gen, c.no>>
Rows(p)     == {c \in chunks : c.path = p}
RowsOf(P)   == {c \in chunks : c.path \in P}
Keys(S)     == {Key(c) : c \in S}

\* Mutant of NewRows: the rows do not name the configuration they belong to.
NewRowsUnconfigured(p, g, t, k) ==
  {[path |-> p, gen |-> g, no |-> i, text |-> t, config |-> NoConfig,
    vec |-> NoConfig, done |-> FALSE] : i \in 1 .. ChunkCount[t]}

\* The rows replace_document_chunks inserts for a content.
NewRows(p, g, t, k) ==
  {[path |-> p, gen |-> g, no |-> i, text |-> t, config |-> k,
    vec |-> NoConfig, done |-> FALSE] : i \in 1 .. ChunkCount[t]}

\* Mutant of Replaced: the old rows are not deleted.
ReplacedKeepingOld(p, new) == chunks \cup new

\* The chunks table after replace_document_chunks deleted the old rows of p.
Replaced(p, new) == (chunks \ Rows(p)) \cup new

\* A fresh uuid: no row and no process knows this generation of p.
FreshGen(p, g) ==
  /\ \A c \in Rows(p) : c.gen # g
  /\ \A r \in Runs : \A k \in expect[r] : k[1] = p => k[2] # g

\* Mutant of Free: the row lock of another process is ignored.
FreeAlways(r, p) == TRUE

\* The document row is not locked by another process' open transaction.
Free(r, p) == \A o \in Runs \ {r} : p \notin locks[o]

\* select ... for update, update or insert: the row stays locked until the
\* transaction ends.
Lock(r, p) == locks' = [locks EXCEPT ![r] = @ \cup {p}]

\* Mutant of Current: the lists of documents have no order.
CurrentAnyOrder(r, p) == p \in todo[r]

\* Loops run in path order (order by relative_path).
Current(r, p) == p \in todo[r] /\ \A q \in todo[r] : p <= q

Goto(r, stage) == pc' = [pc EXCEPT ![r] = stage]
\* Mutant of Failing: the failure is not reported to the run.
FailureForgotten(r) == UNCHANGED clean
Failing(r)     == clean' = [clean EXCEPT ![r] = FALSE]
Done(r, p)     == todo' = [todo EXCEPT ![r] = @ \ {p}]
Fault          == faults < MaxFaults /\ faults' = faults + 1

SetStatus(p, s) == documents' = [documents EXCEPT ![p].status = s]

NeedsEmbedding(c, k) == c.vec # k \/ ~c.done

\* Every row of the document is one of the expected ones, embedded under k.
Complete(p, keys, k) ==
  \A c \in Rows(p) :
    /\ Key(c) \in keys
    /\ c.config = k
    /\ ~NeedsEmbedding(c, k)

----------------------------------------------------------------------------
Init ==
  /\ disk \in [Paths -> Texts]
  /\ documents = [p \in Paths |->
                   [status |-> "none", hash |-> Absent, version |-> NoConfig]]
  /\ chunks = {}
  /\ lex = {}
  /\ runs = [r \in Runs |-> "none"]
  /\ pc = [r \in Runs |-> "idle"]
  /\ config = [r \in Runs |-> NoConfig]
  /\ plan = [r \in Runs |-> [p \in Paths |-> "keep"]]
  /\ scan = [r \in Runs |-> [p \in Paths |-> Absent]]
  /\ hash = [r \in Runs |-> [p \in Paths |-> Absent]]
  /\ todo = [r \in Runs |-> {}]
  /\ text = [r \in Runs |-> Absent]
  /\ expect = [r \in Runs |-> {}]
  /\ pend = [r \in Runs |-> {}]
  /\ clean = [r \in Runs |-> TRUE]
  /\ broken = [r \in Runs |-> FALSE]
  /\ locks = [r \in Runs |-> {}]
  /\ marks = [r \in Runs |-> {}]
  /\ slipped = {}
  /\ edits = 0
  /\ faults = 0

\* Moments at which an edit escapes a run: between its hash check of the note
\* and its parse; with several processes, while any of them runs, for their scans
\* and lists age meanwhile.
Exposed(p) ==
  \E r \in Runs :
    IF Runs = {r} THEN pc[r] = "parse" /\ Current(r, p) ELSE pc[r] # "idle"

\* The user writes, empties or removes a note.
Edit(p) ==
  /\ edits < MaxEdits
  /\ \E t \in Texts \ {disk[p]} : disk' = [disk EXCEPT ![p] = t]
  /\ slipped' = IF Exposed(p) THEN slipped \cup {p} ELSE slipped
  /\ edits' = edits + 1
  /\ UNCHANGED <<db, pc, local, todo, held, faults>>

\* The process is back at the shell; its memory is gone.
Leave(r) ==
  /\ Goto(r, "idle")
  /\ config' = [config EXCEPT ![r] = NoConfig]
  /\ plan' = [plan EXCEPT ![r] = [p \in Paths |-> "keep"]]
  /\ scan' = [scan EXCEPT ![r] = [p \in Paths |-> Absent]]
  /\ hash' = [hash EXCEPT ![r] = [p \in Paths |-> Absent]]
  /\ todo' = [todo EXCEPT ![r] = {}]
  /\ text' = [text EXCEPT ![r] = Absent]
  /\ expect' = [expect EXCEPT ![r] = {}]
  /\ pend' = [pend EXCEPT ![r] = {}]
  /\ clean' = [clean EXCEPT ![r] = TRUE]
  /\ broken' = [broken EXCEPT ![r] = FALSE]

----------------------------------------------------------------------------
(***************************************************************************)
(* Document-state sync (indexing/sync.py, indexing/planner.py).            *)
(***************************************************************************)
Start(r, k) ==
  /\ pc[r] = "idle"
  /\ config' = [config EXCEPT ![r] = k]
  /\ Goto(r, "scan")
  /\ UNCHANGED <<db, env, plan, scan, hash, todo, text, expect, pend, clean,
                 broken, held>>

\* Mutants of Stale: a failed document, a new version is not processed again.
StaleIgnoringFailed(p, seen, version) ==
  \/ seen # documents[p].hash
  \/ documents[p].version # version
StaleIgnoringVersion(p, seen, version) ==
  \/ seen # documents[p].hash
  \/ documents[p].status = "failed"

\* A known note must be chunked again (detect_changes, _version_mismatch).
Stale(p, seen, version) ==
  \/ seen # documents[p].hash
  \/ documents[p].status = "failed"
  \/ documents[p].version # version

\* Mutant of Spared: files that could not be read are taken for deleted.
SparedByDiscovery(p, stage, missed) == stage = "discover"

\* A note the scan did not see is not taken for deleted.
Spared(p, stage, missed) ==
  \/ stage = "discover"
  \/ stage = "hash" /\ p \in missed

\* What build_document_sync_plan does with a path, given the hash the scan
\* saw (Absent if it did not see the file) and how the scan failed.
Classify(p, seen, stage, missed, version) ==
  LET status == documents[p].status
      live   == status \notin {"none", "deleted"}
  IN CASE seen # Absent /\ status = "none" -> "add"
       [] seen # Absent /\ status = "deleted" -> "restore"
       [] seen # Absent /\ live /\ Stale(p, seen, version) -> "modify"
       [] seen = Absent /\ live /\ ~Spared(p, stage, missed) -> "delete"
       [] OTHER -> "keep"

\* list_states, the vault scan, the plan and the committed 'running' row.  A
\* failed scan misses files: unreadable ones ("hash"), those of a directory
\* that cannot be listed ("discover") or examined ("metadata").
Scan(r, stage, missed) ==
  /\ pc[r] = "scan"
  /\ missed \subseteq {p \in Paths : disk[p] # Absent}
  /\ stage = "none" => missed = {}
  /\ stage \in {"hash", "metadata"} => missed # {}
  /\ IF stage = "none" THEN UNCHANGED faults ELSE Fault
  /\ LET seen == [p \in Paths |-> IF p \in missed THEN Absent ELSE disk[p]]
         kinds == [p \in Paths |->
                    Classify(p, seen[p], stage, missed, Version[config[r]])]
     IN /\ scan' = [scan EXCEPT ![r] = seen]
        /\ plan' = [plan EXCEPT ![r] = kinds]
        /\ todo' = [todo EXCEPT ![r] = {p \in Paths : kinds[p] # "keep"}]
  /\ clean' = [clean EXCEPT ![r] = stage = "none"]
  /\ runs' = [runs EXCEPT ![r] = "running"]
  /\ Goto(r, "apply")
  /\ UNCHANGED <<documents, chunks, lex, disk, slipped, edits, config, hash, text,
                 expect, pend, broken, held>>

\* The sections of the transaction: added, modified, restored, deleted rows.
Rank(kind) == CASE kind = "add" -> 1
                [] kind = "modify" -> 2
                [] kind = "restore" -> 3
                [] OTHER -> 4

NotAfter(r, p, q) ==
  LET a == Rank(plan[r][p])
      b == Rank(plan[r][q])
  IN a < b \/ (a = b /\ p <= q)

\* The row the next statement of the transaction is about; sections in turn,
\* each in path order.
Upcoming(r, p) == p \in todo[r] /\ \A q \in todo[r] : NotAfter(r, p, q)

\* Another run inserted the row in the meantime: unique (kb, relative_path).
Taken(r, p) == plan[r][p] = "add" /\ documents[p].status # "none"

\* update ... where index_status <> 'deleted' finds no row, and waits for none.
Gone(r, p) == plan[r][p] = "delete" /\ documents[p].status = "deleted"

UniqueViolation(r) == \E p \in Paths : Upcoming(r, p) /\ Taken(r, p)

\* The document row whose lock the next statement of run r requests.
Requested(r) ==
  {p \in Paths :
     CASE pc[r] = "apply" -> Upcoming(r, p) /\ ~Taken(r, p) /\ ~Gone(r, p)
       [] pc[r] \in {"store", "fail", "mark", "hold"} -> Current(r, p)
       [] pc[r] \in {"unmark", "record"} ->
            Current(r, p) /\ documents[p].status = "chunked"
       [] OTHER -> FALSE}

\* The batch that the embedding loop is at.
NextBatch(r, k) == k \in pend[r] /\ \A l \in pend[r] : k[3] <= l[3]

Purgeable == {p \in Paths : documents[p].status = "deleted"}

\* The chunk rows whose locks the next statement of run r requests.
RequestedRows(r) ==
  CASE pc[r] = "purge" -> Keys(RowsOf(Purgeable))
    [] pc[r] = "replace" -> Keys(RowsOf({p \in Paths : Current(r, p)}))
    [] pc[r] \in {"embed", "unsave"} -> {k \in Keys(chunks) : NextBatch(r, k)}
    [] OTHER -> {}

\* The only chunk rows a run holds between two statements: those of a failed
\* batch, while the error is recorded on the document.
LockedRows(r) ==
  IF pc[r] = "unmark" THEN {k \in Keys(chunks) : NextBatch(r, k)} ELSE {}

RowsFree(r) == \A o \in Runs \ {r} : RequestedRows(r) \cap LockedRows(o) = {}

WaitsFor(r, o) ==
  /\ o # r
  /\ \/ Requested(r) \cap locks[o] # {}
     \/ RequestedRows(r) \cap LockedRows(o) # {}

\* Among these runs each waits for another one.
Circle(R) == \A r \in R : \E o \in R : WaitsFor(r, o)

\* Run r and others wait, directly or not, each for each other: PostgreSQL aborts
\* the transaction of one of them.
InCircle(r) ==
  \E R \in SUBSET Runs :
    /\ r \in R /\ R # {r}
    /\ \A S \in (SUBSET R) \ {{}, R} : \E o \in S, q \in R \ S : WaitsFor(o, q)

\* A statement fails: the victim of a circle, or for any other reason.
Aborted(r) == IF InCircle(r) THEN UNCHANGED faults ELSE Fault

\* connection.rollback(): the marks of the open transaction are lost.
Rollback(r) ==
  /\ locks' = [locks EXCEPT ![r] = {}]
  /\ marks' = [marks EXCEPT ![r] = {}]

\* insert_pending, update_snapshot or mark_deleted of one row, inside the one
\* transaction that applies the plan: nobody sees the new row before CommitPlan.
ApplyRow(r, p) ==
  /\ pc[r] = "apply"
  /\ Upcoming(r, p)
  /\ ~Taken(r, p)
  /\ IF Gone(r, p) THEN UNCHANGED locks ELSE Free(r, p) /\ Lock(r, p)
  /\ Done(r, p)
  /\ UNCHANGED <<db, env, pc, local, marks>>

\* mark_partial of the index run, and the commit of the plan.
CommitPlan(r) ==
  /\ pc[r] = "apply"
  /\ todo[r] = {}
  /\ documents' = [p \in Paths |->
       CASE p \notin locks[r] -> documents[p]
         [] p \in locks[r] /\ plan[r][p] = "delete" ->
              [documents[p] EXCEPT !.status = "deleted"]
         [] OTHER -> [status |-> "pending", hash |-> scan[r][p],
                      version |-> Version[config[r]]]]
  /\ runs' = [runs EXCEPT ![r] = "partial"]
  /\ locks' = [locks EXCEPT ![r] = {}]
  /\ plan' = [plan EXCEPT ![r] = [p \in Paths |-> "keep"]]
  /\ Goto(r, "purge")
  /\ UNCHANGED <<chunks, lex, env, config, scan, hash, todo, text, expect, pend,
                 clean, broken, marks>>

\* Rolled back; the run row is marked failed in a transaction of its own.
ApplyFails(r) ==
  /\ pc[r] = "apply"
  /\ IF UniqueViolation(r) THEN UNCHANGED faults ELSE Aborted(r)
  /\ runs' = [runs EXCEPT ![r] = "failed"]
  /\ Rollback(r)
  /\ Leave(r)
  /\ UNCHANGED <<documents, chunks, lex, disk, slipped, edits>>

\* delete_for_deleted_documents; lexical statistics go with their chunks.
PurgeDeleted(r) ==
  /\ pc[r] = "purge"
  /\ RowsFree(r)
  /\ LET gone == RowsOf(Purgeable)
     IN /\ chunks' = chunks \ gone
        /\ lex' = lex \ Keys(gone)
  /\ Goto(r, "list")
  /\ UNCHANGED <<documents, runs, env, local, todo, held>>

----------------------------------------------------------------------------
(***************************************************************************)
(* Chunking (chunking/service.py): one committed transaction per document. *)
(***************************************************************************)
AtVersion(r, status) ==
  {p \in Paths : /\ documents[p].status = status
                 /\ documents[p].version = Version[config[r]]}

ListPending(r) ==
  /\ pc[r] = "list"
  /\ todo' = [todo EXCEPT ![r] = AtVersion(r, "pending")]
  /\ hash' = [hash EXCEPT ![r] = [p \in Paths |->
                IF p \in AtVersion(r, "pending") THEN documents[p].hash
                                                 ELSE Absent]]
  /\ Goto(r, "chunk")
  /\ UNCHANGED <<db, env, config, plan, scan, text, expect, pend, clean, broken,
                 held>>

\* Mutant of CheckSource: the listed hash is not compared.
CheckSourceSkipped(r, p) ==
  /\ pc[r] = "chunk"
  /\ Current(r, p)
  /\ Goto(r, "parse")
  /\ UNCHANGED <<db, env, local, todo, held>>

\* The source file is hashed and compared with the listed content_hash.
CheckSource(r, p) ==
  /\ pc[r] = "chunk"
  /\ Current(r, p)
  /\ Goto(r, IF disk[p] = hash[r][p] THEN "parse" ELSE "fail")
  /\ UNCHANGED <<db, env, local, todo, held>>

\* The file is opened a second time and parsed.
Parse(r, p) ==
  /\ pc[r] = "parse"
  /\ Current(r, p)
  /\ IF disk[p] \in Unparsable \cup {Absent}
       THEN Goto(r, "fail") /\ UNCHANGED text
       ELSE Goto(r, "store") /\ text' = [text EXCEPT ![r] = disk[p]]
  /\ UNCHANGED <<db, env, config, plan, scan, hash, expect, pend, clean, broken,
                 todo, held>>

\* _lock_document, the first statement of replace_document_chunks.
LockDocument(r, p) ==
  /\ pc[r] = "store"
  /\ Current(r, p)
  /\ Free(r, p)
  /\ Lock(r, p)
  /\ Goto(r, "replace")
  /\ UNCHANGED <<db, env, local, todo, marks>>

\* The rest of replace_document_chunks, mark_chunked (an update of the row, which no
\* other run can have locked since) and the commit.
Store(r, p) ==
  /\ pc[r] = "replace"
  /\ Current(r, p)
  /\ RowsFree(r) /\ Free(r, p)
  /\ \E g \in Gens :
       /\ FreshGen(p, g)
       /\ chunks' = Replaced(p, NewRows(p, g, text[r], config[r]))
  /\ lex' = lex \ Keys(Rows(p))
  /\ SetStatus(p, "chunked")
  /\ text' = [text EXCEPT ![r] = Absent]
  /\ Done(r, p)
  /\ locks' = [locks EXCEPT ![r] = {}]
  /\ Goto(r, "chunk")
  /\ UNCHANGED <<runs, env, config, plan, scan, hash, expect, pend, clean,
                 broken, marks>>

\* An exception of the transaction rolls it back.
StoreFails(r) ==
  /\ pc[r] \in {"store", "replace"}
  /\ Aborted(r)
  /\ Rollback(r)
  /\ text' = [text EXCEPT ![r] = Absent]
  /\ Goto(r, "fail")
  /\ UNCHANGED <<db, disk, slipped, edits, config, plan, scan, hash, expect,
                 pend, clean, broken, todo>>

MarkFailed(r, p) ==
  /\ pc[r] = "fail"
  /\ Current(r, p)
  /\ Free(r, p)
  /\ SetStatus(p, "failed")
  /\ Failing(r)
  /\ Done(r, p)
  /\ Goto(r, "chunk")
  /\ UNCHANGED <<chunks, lex, runs, env, config, plan, scan, hash, text, expect,
                 pend, broken, held>>

----------------------------------------------------------------------------
(***************************************************************************)
(* Embedding (embedding/service.py): one connection for all documents.     *)
(* psycopg opens an implicit transaction at the first SELECT, so a later   *)
(* `with connection.transaction()` is only a savepoint until the next      *)
(* commit of that connection, and rollback() undoes every savepoint.       *)
(***************************************************************************)

\* connection.commit(): the marks of the open transaction become durable.
Commit(r) ==
  /\ documents' = [p \in Paths |->
       IF p \in marks[r] THEN [documents[p] EXCEPT !.status = "indexed"]
                         ELSE documents[p]]
  /\ locks' = [locks EXCEPT ![r] = {}]
  /\ marks' = [marks EXCEPT ![r] = {}]

ListChunked(r) ==
  /\ pc[r] = "chunk"
  /\ todo[r] = {}
  /\ todo' = [todo EXCEPT ![r] = AtVersion(r, "chunked")]
  /\ hash' = [hash EXCEPT ![r] = [p \in Paths |-> Absent]]
  /\ Goto(r, "open")
  /\ UNCHANGED <<db, env, config, plan, scan, text, expect, pend, clean, broken,
                 held>>

\* list_by_document, prepare_embedding_input and _needs_embedding.
OpenDocument(r, p) ==
  /\ pc[r] = "open"
  /\ Current(r, p)
  /\ \A c \in Rows(p) : c.text \notin Oversized
  /\ LET wanted == {c \in Rows(p) : NeedsEmbedding(c, config[r])}
     IN /\ expect' = [expect EXCEPT ![r] = Keys(Rows(p))]
        /\ pend' = [pend EXCEPT ![r] = Keys(wanted)]
        /\ Goto(r, IF wanted = {} THEN "hold" ELSE "embed")
  /\ broken' = [broken EXCEPT ![r] = FALSE]
  /\ UNCHANGED <<db, env, config, plan, scan, hash, text, clean, todo, held>>

\* EmbeddingInputError: rollback; RecordError follows.
RejectInput(r, p) ==
  /\ pc[r] = "open"
  /\ Current(r, p)
  /\ \E c \in Rows(p) : c.text \in Oversized
  /\ Rollback(r)
  /\ Failing(r)
  /\ Goto(r, "record")
  /\ UNCHANGED <<db, env, config, plan, scan, hash, todo, text, expect, pend,
                 broken>>

\* After the last batch: mark the document unless a batch failed.
AfterBatch(r, p, k, failed) ==
  /\ pend' = [pend EXCEPT ![r] = @ \ {k}]
  /\ broken' = [broken EXCEPT ![r] = failed /\ pend[r] # {k}]
  /\ IF pend[r] # {k}
       THEN Goto(r, "embed") /\ UNCHANGED <<todo, expect>>
       ELSE IF failed
         THEN /\ Goto(r, "open")
              /\ Done(r, p)
              /\ expect' = [expect EXCEPT ![r] = {}]
         ELSE Goto(r, "mark") /\ UNCHANGED <<todo, expect>>

\* The chunks table after an update of the row with identity k.
Embedded(k, v) ==
  {IF Key(c) = k THEN [c EXCEPT !.vec = v, !.done = TRUE] ELSE c : c \in chunks}
EmbeddingFailed(k) ==
  {IF Key(c) = k THEN [c EXCEPT !.done = FALSE] ELSE c : c \in chunks}

\* _save_embedding_batch: rows are updated by id, then connection.commit().
EmbedBatch(r, p, k) ==
  /\ pc[r] = "embed"
  /\ Current(r, p)
  /\ NextBatch(r, k)
  /\ RowsFree(r)
  /\ chunks' = Embedded(k, config[r])
  /\ Commit(r)
  /\ AfterBatch(r, p, k, broken[r])
  /\ UNCHANGED <<lex, runs, env, config, plan, scan, hash, text, clean>>

\* The provider, the validation or the save raised: rollback.
BatchFails(r, p, k) ==
  /\ pc[r] = "embed"
  /\ Current(r, p)
  /\ NextBatch(r, k)
  /\ Aborted(r)
  /\ Rollback(r)
  /\ Failing(r)
  /\ Goto(r, "unsave")
  /\ UNCHANGED <<db, disk, slipped, edits, config, plan, scan, hash, todo, text,
                 expect, pend, broken>>

\* mark_embedding_failed writes last_error only of a row that is still chunked.
ErrorRow(r, p) == documents[p].status = "chunked" => Free(r, p)

\* _mark_batch_failed, a transaction of its own: first the rows of the batch,
UnsaveBatch(r) ==
  /\ pc[r] = "unsave"
  /\ RowsFree(r)
  /\ Goto(r, "unmark")
  /\ UNCHANGED <<db, env, local, todo, held>>

\* which stay locked until the document is done as well.
UnmarkDocument(r, p, k) ==
  /\ pc[r] = "unmark"
  /\ Current(r, p)
  /\ NextBatch(r, k)
  /\ ErrorRow(r, p)
  /\ chunks' = EmbeddingFailed(k)
  /\ AfterBatch(r, p, k, TRUE)
  /\ UNCHANGED <<documents, lex, runs, env, config, plan, scan, hash, text,
                 clean, held>>

\* Mutant of Indexable: the rows are not read again under the lock.
IndexableByStatus(r, p) == documents[p].status = "chunked"
Indexable(r, p) ==
  documents[p].status = "chunked" /\ Complete(p, expect[r], config[r])

CloseDocument(r, p) ==
  /\ Done(r, p)
  /\ expect' = [expect EXCEPT ![r] = {}]
  /\ broken' = [broken EXCEPT ![r] = FALSE]
  /\ Goto(r, "open")

\* mark_document_indexed_if_complete right after a commit: a transaction.
MarkIndexed(r, p) ==
  /\ pc[r] = "mark"
  /\ Current(r, p)
  /\ Free(r, p)
  /\ IF Indexable(r, p)
       THEN SetStatus(p, "indexed") /\ UNCHANGED clean
       ELSE Failing(r) /\ UNCHANGED documents
  /\ CloseDocument(r, p)
  /\ UNCHANGED <<chunks, lex, runs, env, config, plan, scan, hash, text, pend,
                 held>>

\* The same call when no batch had to be saved: a savepoint only.
HoldIndexed(r, p) ==
  /\ pc[r] = "hold"
  /\ Current(r, p)
  /\ Free(r, p)
  /\ Lock(r, p)
  /\ IF Indexable(r, p)
       THEN marks' = [marks EXCEPT ![r] = @ \cup {p}] /\ UNCHANGED clean
       ELSE Failing(r) /\ UNCHANGED marks
  /\ CloseDocument(r, p)
  /\ UNCHANGED <<db, env, config, plan, scan, hash, text, pend>>

\* The call raised: rollback; RecordError follows.  Without any chunk the
\* exception leaves the run (see Crash).
MarkFails(r, p) ==
  /\ pc[r] \in {"mark", "hold"}
  /\ Current(r, p)
  /\ expect[r] # {}
  /\ Aborted(r)
  /\ Rollback(r)
  /\ Failing(r)
  /\ Goto(r, "record")
  /\ UNCHANGED <<db, disk, slipped, edits, config, plan, scan, hash, todo, text,
                 expect, pend, broken>>

\* embedding_input_invalid or embedding_persistence_failed is recorded on the
\* document in a transaction of its own; the run holds no lock while it waits.
RecordError(r, p) ==
  /\ pc[r] = "record"
  /\ Current(r, p)
  /\ ErrorRow(r, p)
  /\ CloseDocument(r, p)
  /\ UNCHANGED <<db, env, config, plan, scan, hash, text, pend, clean, held>>

\* Leaving `with connect_postgres(...)` commits.
CloseEmbedding(r) ==
  /\ pc[r] = "open"
  /\ todo[r] = {}
  /\ Commit(r)
  /\ Goto(r, "lexical")
  /\ UNCHANGED <<chunks, lex, runs, env, local, todo>>

----------------------------------------------------------------------------
(***************************************************************************)
(* Lexical refresh and the end of the run (lexical/service.py and          *)
(* indexing/orchestrator.py).                                              *)
(***************************************************************************)
IndexedRows == {c \in chunks : documents[c.path].status = "indexed"}

\* One transaction: statistics of other documents go, those of every indexed
\* chunk are written, except for `failed` chunks without usable tokens.
IndexLexical(r, failed) ==
  /\ pc[r] = "lexical"
  /\ failed \subseteq Keys(IndexedRows) \ lex
  /\ IF failed = {} THEN UNCHANGED <<faults, clean>> ELSE Fault /\ Failing(r)
  /\ lex' = Keys(IndexedRows) \ failed
  /\ Goto(r, "finish")
  /\ UNCHANGED <<documents, chunks, runs, disk, slipped, edits, config, plan, scan, hash,
                 text, expect, pend, broken, todo, held>>

\* _finish_index_run: completed only when no file and no stage failed.
Finish(r) ==
  /\ pc[r] = "finish"
  /\ runs' = [runs EXCEPT ![r] = IF clean[r] THEN "completed" ELSE "partial"]
  /\ Leave(r)
  /\ UNCHANGED <<documents, chunks, lex, env, held>>

\* Statements whose exceptions no handler of the embedding loop catches.
Uncaught(r) == pc[r] \in {"unmark", "record"} \/ (pc[r] = "hold" /\ expect[r] = {})

\* The process dies, or an exception leaves index_vault_end_to_end: open
\* transactions are rolled back and the index_runs row stays as it is.
Crash(r) ==
  /\ pc[r] # "idle"
  /\ IF Uncaught(r) THEN Aborted(r) ELSE Fault
  /\ Rollback(r)
  /\ Leave(r)
  /\ UNCHANGED <<db, disk, slipped, edits>>

----------------------------------------------------------------------------
\* PostgreSQL resolves a circle of waiting runs at the expense of one of them; with
\* three runs or more it may also be one that is saving a batch (BatchFails).
Victim(r) ==
  /\ InCircle(r)
  /\ \/ ApplyFails(r)
     \/ StoreFails(r)
     \/ \E p \in Paths : MarkFails(r, p)
     \/ Uncaught(r) /\ Crash(r)

\* The steps of a run in which nothing goes wrong.
RunStep(r) ==
  \/ Scan(r, "none", {})
  \/ CommitPlan(r)
  \/ UniqueViolation(r) /\ ApplyFails(r)
  \/ Victim(r)
  \/ PurgeDeleted(r)
  \/ ListPending(r)
  \/ ListChunked(r)
  \/ UnsaveBatch(r)
  \/ CloseEmbedding(r)
  \/ IndexLexical(r, {})
  \/ Finish(r)
  \/ \E p \in Paths :
       \/ ApplyRow(r, p)
       \/ CheckSource(r, p)
       \/ Parse(r, p)
       \/ LockDocument(r, p)
       \/ Store(r, p)
       \/ MarkFailed(r, p)
       \/ OpenDocument(r, p)
       \/ RejectInput(r, p)
       \/ RecordError(r, p)
       \/ \E k \in pend[r] : EmbedBatch(r, p, k) \/ UnmarkDocument(r, p, k)
       \/ MarkIndexed(r, p)
       \/ HoldIndexed(r, p)

FaultStep(r) ==
  \/ \E stage \in ScanStages, missed \in SUBSET Paths : Scan(r, stage, missed)
  \/ ApplyFails(r)
  \/ StoreFails(r)
  \/ \E p \in Paths :
       \/ \E k \in pend[r] : BatchFails(r, p, k)
       \/ MarkFails(r, p)
  \/ \E failed \in SUBSET Keys(chunks) : failed # {} /\ IndexLexical(r, failed)
  \/ Crash(r)

Next ==
  \/ \E p \in Paths : Edit(p)
  \/ \E r \in Runs :
       \/ \E k \in Configs : Start(r, k)
       \/ RunStep(r)
       \/ FaultStep(r)

Spec == Init /\ [][Next]_vars

\* A run is not interrupted for ever, and the user indexes again and again;
\* edits and faults are bounded, so from some point on nothing else happens.
Fairness ==
  \A r \in Runs : WF_vars(RunStep(r)) /\ WF_vars(\E k \in Configs : Start(r, k))

FairSpec == Spec /\ Fairness

----------------------------------------------------------------------------
(***************************************************************************)
(* Properties.                                                             *)
(***************************************************************************)
TypeOK ==
  /\ disk \in [Paths -> Texts]
  /\ documents \in [Paths -> Document]
  /\ chunks \subseteq Row
  /\ lex \subseteq Paths \X Gens \X Nat
  /\ runs \in [Runs -> {"none", "running", "partial", "completed", "failed"}]
  /\ pc \in [Runs -> Stages]
  /\ config \in [Runs -> Configs \cup {NoConfig}]
  /\ plan \in [Runs -> [Paths -> {"keep", "add", "modify", "restore", "delete"}]]
  /\ scan \in [Runs -> [Paths -> Texts]]
  /\ hash \in [Runs -> [Paths -> Texts]]
  /\ todo \in [Runs -> SUBSET Paths]
  /\ text \in [Runs -> Texts]
  /\ expect \in [Runs -> SUBSET (Paths \X Gens \X Nat)]
  /\ pend \in [Runs -> SUBSET (Paths \X Gens \X Nat)]
  /\ clean \in [Runs -> BOOLEAN]
  /\ broken \in [Runs -> BOOLEAN]
  /\ locks \in [Runs -> SUBSET Paths]
  /\ marks \in [Runs -> SUBSET Paths]
  /\ slipped \in SUBSET Paths
  /\ edits \in Nat
  /\ faults \in Nat

\* The rows of a document are one insertion of all chunks of one content.
WholeRows(p) ==
  \E g \in Gens, t \in Contents, k \in Configs :
    /\ \A c \in Rows(p) : c.gen = g /\ c.text = t /\ c.config = k
    /\ {c.no : c \in Rows(p)} = 1 .. ChunkCount[t]

\* Whatever is retrievable is complete: a document with status indexed has all
\* chunks of one version of the note, every one with an embedding.  Chunk
\* replacement, embedding and marking are separate transactions of possibly
\* concurrent runs (chunking/service.py:58, embedding/service.py:143).
SearchableComplete ==
  \A p \in Paths : documents[p].status = "indexed" =>
    /\ WholeRows(p)
    /\ \A c \in Rows(p) : c.vec # NoConfig

\* The chunks of an indexed document were cut from the content whose hash the
\* document row records, so that an unchanged hash means an up-to-date index
\* (planner.py:39), unless the note was edited at a moment that escapes the runs:
\* it is read twice, hashed (chunking/service.py:54) and then parsed (line 56),
\* and two processes work from lists of different age.
IndexedMatchesHash ==
  \A p \in Paths : documents[p].status = "indexed" /\ p \notin slipped =>
    \A c \in Rows(p) : c.text = documents[p].hash

\* A mark waits in an open transaction only for a locked, chunked document
\* whose chunks are all embedded, and no two runs hold the same document.
HeldMarksJustified ==
  /\ \A r \in Runs : \A p \in marks[r] :
       /\ p \in locks[r]
       /\ documents[p].status = "chunked"
       /\ \A c \in Rows(p) : c.vec # NoConfig
  /\ \A r, o \in Runs : r # o => locks[r] \cap locks[o] = {}

Finished(r) == pc[r] = "finish" /\ pc'[r] = "idle" /\ runs'[r] = "completed"

\* Document p is in the index as the scan of run r saw it, or, when an edit
\* slipped between hash check and parse, with all chunks of some other content.
UpToDate(r, p) ==
  IF scan[r][p] = Absent
    THEN documents[p].status \in {"none", "deleted"} /\ Rows(p) = {}
    ELSE /\ documents[p].status = "indexed"
         /\ documents[p].hash = scan[r][p]
         /\ \E t \in Contents :
              /\ t = scan[r][p] \/ p \in slipped
              /\ {c.no : c \in Rows(p)} = 1 .. ChunkCount[t]
              /\ \A c \in Rows(p) : c.text = t /\ Key(c) \in lex

\* A document is planned for deletion only when its note is really gone: a file
\* that cannot be read, or a directory that cannot be listed, makes the scan
\* incomplete and must not look like a deletion (planner.py:73).
OnlyGoneNotesAreDeleted ==
  [][\A r \in Runs, p \in Paths :
       pc[r] = "scan" /\ plan'[r][p] = "delete" => disk[p] = Absent]_vars

\* A run reported as completed left every note it scanned indexed, embedded
\* and lexically indexed, and nothing of the notes it found gone: no failure
\* on the way is forgotten (orchestrator.py:204).
CompletedMeansUpToDate ==
  [][\A r \in Runs : Finished(r) => \A p \in Paths : UpToDate(r, p)]_vars

\* After a completed run nothing is served that an older parser or chunker cut,
\* and every vector is of the configuration its row names, the one vector search
\* filters by.  That configuration need not be the run's own: a note it kept may
\* carry another one of the same versions, for the planner does not compare
\* embedding models (planner.py:45).
CompletedServesVersion ==
  [][\A r \in Runs : Finished(r) =>
       \A c \in IndexedRows :
         Version[c.config] = Version[config[r]] /\ c.vec = c.config]_vars

Healthy(t) == t \notin Unparsable \cup Oversized

IndexFresh ==
  /\ \A p \in Paths :
       CASE disk[p] = Absent ->
              documents[p].status \in {"none", "deleted"} /\ Rows(p) = {}
         [] disk[p] # Absent /\ Healthy(disk[p]) ->
              /\ documents[p].status = "indexed"
              /\ {c.no : c \in Rows(p)} = 1 .. ChunkCount[disk[p]]
              /\ \A c \in Rows(p) : c.text = disk[p]
         [] OTHER -> documents[p].status # "indexed"
  /\ lex = Keys(IndexedRows)

\* Once the vault and the machine are quiet, repeated runs bring the index to
\* the vault and keep it there, whatever crashed or failed before.
Converges == <>[]IndexFresh

\* One document's failure takes nothing from another: every note that can be
\* parsed and embedded is in the end searchable, whatever its neighbours are.
FailuresStayLocal ==
  \A p \in Paths :
    <>[](disk[p] # Absent /\ Healthy(disk[p]) => documents[p].status = "indexed")

\* Index runs can wait for each other in a circle, and PostgreSQL then aborts one:
\* a run applies its plan in sections (indexing/sync.py:99), each in path order, an
\* embedding loop collects the locks of its marks in path order
\* (db/repositories.py:800), and chunks are replaced after their document is locked
\* while a failed batch is recorded on its chunks first (embedding/service.py:233).
\* But only that record, and deletions and restorations, which come last in a plan,
\* close a circle: without them every wait ends by itself.
CirclesHaveACause ==
  \A R \in (SUBSET Runs) \ {{}} : Circle(R) =>
    \E r \in R :
      \/ /\ pc[r] = "apply"
         /\ \E p \in Requested(r) : plan[r][p] \in {"restore", "delete"}
      \/ pc[r] = "unmark"

\* What a search can return of a document: nothing, or chunk identities.
Faces(p)  == {<<c.gen, c.text, c.no>> : c \in Rows(p)}
Served(p) == IF documents[p].status = "indexed" THEN Faces(p) ELSE Absent
served == [p \in Paths |-> Served(p)]
Edition(g, t) == {<<g, t, i>> : i \in 1 .. ChunkCount[t]}
Published == {Edition(g, t) : g \in Gens, t \in Contents}

Index == INSTANCE SearchIndex WITH
           Paths <- Paths, Published <- Published, Nothing <- Absent,
           served <- served

\* The run implements the abstract index: readers see a document disappear and
\* a whole version appear, never one version turn into another.
ImplementsSearchIndex == Index!Spec
=============================================================================
