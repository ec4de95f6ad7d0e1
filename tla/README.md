# OPK-RAG in TLA+

This directory is a verification development for OPK-RAG, a retrieval-augmented
question-answering system over a vault of Markdown notes.  It holds TLA+
modules translated from the Python and SQL sources, TLC configurations that
check them on small instances, and theorems that TLAPS checks for all values of
the constants.  `PROJECT.json` maps every definition to its source lines and
lists the runs, the hazards they are aimed at, and a mutant for every property.

    tlc -workers 2 -config IndexSerial.cfg MCIndexPipeline.tla
    tlapm IndexPipeline_proofs.tla

Contents: 1 inventory, 2 plan, 3 the index run, 4 the lexical index, 5 Qdrant,
6 conversation, 7 the agent, 8 the canary of the API, 9 parser and splitter,
10 runs, bounds and fairness, 11 what the checks show, 12 proofs, 13 what is not
modelled.

## 1. Inventory

Paths are under `src/opk_rag` unless they start with `supabase` (= `src/supabase`).

| Part | Source | State it keeps | Operations | Interacts with | What is hard | What makes it correct |
| --- | --- | --- | --- | --- | --- | --- |
| Index run | `indexing/`, `vault/`, `chunking/service.py`, `embedding/service.py`, `db/repositories.py` | tables `documents`, `chunks`, `index_runs`; local lists of the process | scan, plan, apply, purge, chunk, embed, mark, finish | vault files, PostgreSQL, embedding model, lexical refresh, Qdrant | one transaction per stage, document or batch; crashes and failures between them; a second process; edits during a run | what is searchable is complete and current; failures are reported; runs converge |
| Lexical index | `lexical/`, `db/repositories.py`, `supabase/migrations` | statistics, terms, document frequencies, corpus row | refresh, rebuild, delete trigger, readiness | chunks of the index run, BM25 search | one long READ COMMITTED transaction beside others; a trigger that does not take the advisory lock | readiness implies that BM25 finds every chunk |
| Qdrant materialization and vector search | `vector_backends/`, `search/service.py` | a Qdrant collection | load, scroll, upsert, delete stale, count; query and fetch | chunks of the index run | no transaction; requests that outlive their client; runs at once | repeated runs repair; a search fails closed only with a cause |
| Conversation | `conversation/`, `cli.py`, `showcase/conversation_workspace.py`, `showcase/api/app.py` | sessions, turns, idempotency keys | create, delete, ask (replay, refuse, insert, complete, fail) | command line and Control Center on one database | locks held over model calls; crashes, lost replies and retries | turns are one line; one answer per key |
| Agent runtime V2 | `agentic_v2/`, `evaluation/task0246_runtime_support.py` | an immutable run state with budgets, evidence, action history | resolve, decide (retry, repair), guard, execute, transition, terminate | search, policy model | counters checked in several places; evidence kept over a rewrite; failing providers and tools | ends within its budgets; an answer has grounds; the report is true |
| Selective agent of the API | `showcase/api/execution.py`, `showcase/bounded_agentic_canary.py`, `showcase/live_selective_agent_shadow.py`, `evaluation/task0247_*`, `task0258_*` | one execution slot, the file of canary observations | search, watch (shadow), route (canary), recover, veto, apply, answer | agent core, search, answer model | authority decided in one place and used in others; exceptions from any call; restarts with another environment | a candidate never makes a request worse; without authority it changes nothing; the books are true |
| Parser and splitter | `chunking/parser.py`, `chunking/chunker.py` | none | parse into sections, join, split, cut | index run, citations | boundaries of three kinds of cuts; fences; line ranges | every character once and in order; chunks fit; ranges are true |
| Recovery loop of the earlier agent | `agent/recovery_loop.py` and neighbours | rounds, selected evidence | retrieve, decide, stop | search, answer | choosing among stop reasons | bounded rounds; evidence never lost |
| Showcase API and trace registry | `showcase/api/` | 32 finished traces with expiry | store, stream, fetch, evict | selective agent, conversation, browser | eviction beside open streams; `Last-Event-ID` | a stream has no gap |
| Earlier canary and production promotion | `runtime_v2/`, `showcase/selective_agent_canary.py`, `selective_agent_production*.py` | reports | evaluate gates over reports | evaluation | | a gate is a function of its report |
| Search, fusion, reranking | `search/`, `retrieval/`, `reranking/` | none | vector, BM25, RRF, dedupe | indexes | ties and limits | fusion is a function of the ranks |
| Answer generation | `answer/`, `answerability/` | none | prompt, validate, cite, abstain | search, model | | citations name retrieved chunks |
| Document adapters, embedding providers, core tools, configuration, doctor, evaluation, user interface, release scripts | see `PROJECT.json` | none, or files | conversions, reports, experiments | | | |

How they interact: an `opk-rag index` process writes PostgreSQL stage by stage,
then (with the Qdrant backend) reconciles the collection, then refreshes the
lexical tables (`indexing/orchestrator.py:111-129`).  Searches join chunks to documents whose `index_status` is
`indexed`; a Qdrant search looks its candidates up in PostgreSQL; a BM25 search
first asks for readiness.  Conversations and agents are clients of search.
There are no messages or callbacks between the parts: they share tables.

## 2. Plan

The modules, in the order they were written.  Each `MC...` module instantiates one
of them for TLC, each `..._proofs` module proves about one.

| Module | Promise it is about | Proved |
| --- | --- | --- |
| `SearchIndex` | what readers of the index may rely on (abstract) | `IndexPipeline` implements it |
| `IndexPipeline` | an index run beside others, edits, failures, crashes | `IndexPipeline_proofs`, `IndexPipelineAlone_proofs` |
| `LexicalIndex` | readiness of BM25 | `LexicalIndex_proofs` |
| `QdrantMaterialization` | the collection follows the index | `QdrantMaterialization_proofs` |
| `Conversation` | turns and idempotent requests | `Conversation_proofs` |
| `AgentCore` | resolver, guard, tools and transition, used by the next two | as part of them |
| `AgentRuntimeV2` | one run of the bounded agent | `AgentRuntimeV2_proofs` |
| `SelectiveAgent` | the agent in the request path of the API | `SelectiveAgent_proofs` |
| `Chunker` | how a note becomes chunks | `Chunker_proofs` |

What is left, in this order:

1. Composition of `IndexPipeline` with `LexicalIndex` in one instance, so that the
   refresh interleaves with the real stages and not with their summary.  Each
   of the two alone has states by the million; the composition needs a smaller
   summary of one of them, for which `IInv` of the other is the candidate.
2. `TraceRegistry`: `showcase/api/registry.py` and the streams of `app.py`, with
   eviction, expiry and reconnection; property: a resumed stream has no gap.
3. `RecoveryLoop`: rounds and stop reasons of `agent/recovery_loop.py`.
4. `Fusion`: reciprocal rank fusion against a reference definition.
5. Theorems: every invariant of a passing run and every action property has one.
   What is left for proofs are the modules above, once they exist.

## 3. The index run: `SearchIndex`, `IndexPipeline`

`SearchIndex` is the promise to readers: a document contributes nothing or
exactly one published version, and a version is retracted before another is
published.

`IndexPipeline` has one action per transaction or external read of the run, and one
per statement where a transaction waits for a row while it holds another.  The tables `documents`, `chunks`, `lex` (lexical statistics) and `runs`, and the vault
`disk`, are shared; every other variable belongs to a process.

| Action | Code |
| --- | --- |
| `Scan` | `VaultScanner.scan`, `build_document_sync_plan` (with the readings that failed) |
| `ApplyRow`, `CommitPlan`, `UniqueViolation`, `ApplyFails` | `sync_vault_documents`: one transaction that takes the rows one after another, added ones first, then modified, restored and deleted ones |
| `PurgeDeleted` | `_delete_chunks_for_deleted_documents` |
| `ListPending`, `CheckSource`, `Parse`, `LockDocument`, `Store`, `StoreFails`, `MarkFailed` | `sync_document_chunks`: hash the file, read it again, lock the document and replace its rows |
| `ListChunked`, `OpenDocument`, `RejectInput`, `EmbedBatch`, `BatchFails`, `MarkIndexed`, `MarkFails`, `HoldIndexed`, `CloseEmbedding` | `embed_pending_documents` on one connection |
| `UnsaveBatch`, `UnmarkDocument`, `RecordError` | what it records of a failure, in a transaction of its own: `_mark_batch_failed` (chunks, then their document) and `mark_embedding_failed` |
| `IndexLexical`, `Finish` | `index_knowledge_base_lexical`, `_finish_index_run` |
| `Victim` | PostgreSQL aborts one transaction of a circle of waiting ones |
| `Edit`, `Crash` | an editor; the death of a process, or an exception nobody catches |

The point that is easy to miss is the transaction of the embedding loop.  Its
connection is not in autocommit mode; the first SELECT opens a transaction, and
`with connection.transaction()` inside it is only a savepoint.  Saving a batch
calls `commit()`; a document that needs no batch is therefore marked `indexed`
in a transaction that stays open, with its row locked, until a later document
commits it or rolls it back.  `locks` and `marks` are that state.  `HoldIndexed`
leaves a mark in it, `Commit` publishes it, `Rollback` drops it.

Locks are taken one by one, as the statements take them: `Requested` is the document
row the next statement of a process asks for, `RequestedRows` its chunk rows, and a
step waits (`Free`, `RowsFree`) while another process holds one of them.  So processes
can wait for each other in a circle, `Circle` says when, and `Victim` ends it.  The
rows of a plan are written in their sections and committed together; nobody sees
them in between, so `ApplyRow` takes the lock and `CommitPlan` writes the rows.

`slipped` is a history variable.  It records the notes that were edited at a moment
that escapes the runs (`Exposed`): between the two times a note is read, and, where
several processes share the vault, while any of them is running.

Abstractions: a content stands for its hash; a chunk of the model stands for an
embedding batch; a configuration for its fingerprint; one knowledge base.
`Version` gives the parser and chunking version of a configuration, so two
configurations may or may not be told apart by the planner.

## 4. The lexical index: `LexicalIndex`

A refresh is one READ COMMITTED transaction of several statements, each an
action (`Rebuild`, `Clean`, `List`, `Write`, `Refresh`, `Commit`).  `View(t)` is
what a statement of `t` sees: rows it wrote (`mine`, `wrote`, with their locks)
over what is committed now.  Beside it run the transactions of an index run
(`Store`, `MarkIndexed`, `MarkOther`, `Purge`), whose deletions cascade and fire
the trigger `Triggered`, which takes no advisory lock but does need the corpus
rows (`CorpusBusy`).  `Orphaned` is the foreign-key failure when a chunk of the
batch was replaced; the fallback for single chunks then runs in an aborted
transaction, so it fails too and the refresh aborts.  `Ready` is
`get_lexical_readiness`.

`BatchSize` is a constant because the loop stops when a batch holds no
tokenizable chunk: untokenizable chunks at the front of the order hide those
behind them, which `QuietRefreshServes` states exactly.

## 5. Qdrant: `QdrantMaterialization`

`Load` reads the wanted points of one revision, `Scroll` the ids that exist,
`Upsert` sends one batch, `Delete` removes `existing - expected`, and `Succeed` or
`Mismatch` compares two counts.  `TimeOut` gives up on a request that the
server may still execute (`late`, `Land`).  `Query` and `Fetch` are the Qdrant branch
of vector search: candidates, then a look into PostgreSQL that fails closed when
one is missing.  Three history variables serve the properties: `alone[m]` (nothing
disturbed run `m`), `settled` (an undisturbed run has succeeded since the last
change), `calm[q]` (search `q` began then and nothing changed since).

## 6. Conversation: `Conversation`

`ask` runs in one transaction for the same reason as above: the row lock that
`create_turn` takes is held until the answer is there.  `Acquire` is `create_turn`
with its outcomes `Replay`, `Refuse`, `Gone` and `Insert`; `Recall`, `Advance`,
`Complete`, `Save`, `AnswerFails` and `OtherFails` follow `ask`; `Commit` and `Rollback`
are the end of the connection block, which differs between the command line and
the API.  `Receive` is the client; `Crash` a dead process or a lost reply.  `told`
collects the answers of commands and requests that finished, `printed` those a
command has printed before its transaction ends.

## 7. The agent: `AgentCore`, `AgentRuntimeV2`

`AgentCore` holds what is deterministic in `agentic_v2`: which actions the resolver
allows (`Eligible`, `Allowed`), what the guard makes of a proposal (`Guard`), what a
tool can report (`ToolResults`, and the verdict the search adapter adds, `Signals`)
and what the state becomes (`Transition`, with `Counted`, `WithinBudget` and
`Informed` for its parts).  `AgentRuntimeV2` runs them in the loop of
`AgenticV2Runtime.run`.

| Action | Code |
| --- | --- |
| `Start` | the checks before the loop: run id, status and step of the given state |
| `ProviderFails`, `ProviderRaises`, `InvalidOutput`, `GiveUp` | `LLMAgentPolicyRuntime.decide`: one transport retry for the whole decision, one structural repair; what else a provider raises leaves the run |
| `Propose` | any action of the schema, guarded: executed, or the run ends as `guard_rejected` |
| `Execute`, `Adopt` | a tool answers, fails or raises; the state of the transition is adopted; the next round or `_finish` |

The policy is a language model, so `Propose` is any action with any query.  The run
starts from any state its callers build: a fresh one, one seeded with the result
of a first search, or one that has ended.  Evidence is a number of items; the
transition counts steps, retrievals, rewrites and graph calls although the resolver
and the guard have counted them too, which is why `BudgetsAreKept` compares the
counters with the history.  `found` is a history variable: what the last search
reported, for which query.

## 8. The canary of the API: `SelectiveAgent`

One request at a time holds the executor of the Control Center
(`showcase/api/execution.py`).  `Receive` is a request together with what its own search
found; `Route` decides who may run the selective controller: the live shadow, which
only watches, the canary, which may apply what it finds, or the evaluation lane.

| Action | Code |
| --- | --- |
| `RouteUser`, `Validates` | `maybe_route_selective_agent_canary`: configuration, kill switch, readiness, cohort; the validation row of a killed canary |
| `RouteEvaluation` | the controlled lane of `_run_ask_core`, without any row |
| `CallFails`, `CallInvalid`, `CallRaises` | a decision of `BoundedReliableNarrowPolicyV3`: a retry once, a repair once |
| `Recover`, `RecoverNothing`, `RewriteRaises` | `SelectiveRecoveryController.run`: one authorized action, its search, or an exception outside every handler |
| `Judge`, `Veto` | `ConflictGateV3` and the veto |
| `ShadowEnds`, `CanaryEnds`, `ControlledEnds` | what is recorded and what authority the outcome gets (`Applies`, `Room`) |
| `Answer`, `Release`, `Restart` | the answer to whichever response has authority; the slot; the end of the process |

A response is its query, number of items, verdict and top reranker score in
hundredths: what `_harmed` compares.  A drop of the score harms from 0.05 on
(`live_selective_agent_shadow.py:236`), and a score below 0.35 is weak and invokes the
controller (`Weak`).  A missing score counts as 0, as in the code.  The arithmetic of
the model is exact; the code subtracts floating-point numbers, so at a drop of
0.05 exactly rounding decides.  `config` changes at a restart only, because the
environment is read from the process; the file of canary observations (`rows`)
survives it, and what a killed canary still writes depends on it.

## 9. Parser and splitter: `Chunker`

A state machine with one step per round of the two loops: `ReadHeading`, `ReadLine`
and `EndOfFile` are `_parse_sections`; `StartNext`, `AddNext`, `SplitNext` and `EndOfSections`
are `chunk_markdown_document`; the pure operators under them (`Blocks`, `Units`,
`SplitText`, `PackPattern`, `HardCut`, `SplitSection`) are its helpers.  A loop of a helper
is a fold, and its round an operator of its own (`ReadBlockLine`, `PackAtom`,
`AddUnit`), which is what the proofs are about.  A character is
known by the number of its line and 0 is a line break, so a text says where it came
from while its length is what the code compares.

The module was compared with the Python code on all 37 449 notes of up to five
lines of eight kinds (lines of three characters, `MaxSize = 8`): texts, heading paths
and line ranges agree, except where a hard cut falls on a blank inside a line, which
the abstraction has none of.

## 10. Runs, bounds and fairness

| Run | Instance | Question |
| --- | --- | --- |
| `IndexSerial` | 1 process, 2 notes, 3 configurations of which 2 share their versions, 3 contents, 2 edits at any moment, 1 fault | what one run at a time guarantees |
| `IndexConcurrent` | 2 processes, 2 notes, 1 configuration, 1 edit, 1 fault | what row locks and transactions guarantee to two |
| `IndexConverges` | 1 process, contents with a parse failure, 1 edit, 1 fault, fairness | repeated runs converge |
| `IndexLostMark` | 1 process, 2 notes, one cannot be embedded, fairness | violated: see 11 |
| `LexicalSerial` | 1 refresh, 2 documents of one chunk, 2 terms, 2 configurations, 5 transactions, fairness | quiet refresh, rebuild, end of the loop |
| `LexicalConcurrent` | 2 refreshes, 1 document of two chunks, 1 configuration, 5 transactions | readiness and corpus under concurrency |
| `QdrantRuns` | 2 runs, 1 search, 2 documents, 1 revision, 3 transactions, 1 fault, fairness | quiet runs reconcile; refusals have a cause; repeated runs repair |
| `ConversationTurns` | 2 commands, 1 API handler, 3 asks, 2 faults, fairness | the properties of turns, and that asks end |
| `ConversationPrinted` | 2 commands, 3 asks, 1 fault | violated: see 11 |
| `AgentRun` | 2 texts, 2 items of evidence, 2 verdicts, 1 transport retry, fairness | budgets, grounds, reports and the end of a run |
| `CanaryRequests` | 2 texts, 1 item of evidence, 3 verdicts, scores 0, 0.34 and 0.36, a file of 1 sample, restarts, fairness | authority, books and the end of requests |
| `NoteChunks` | every note of up to 5 lines of 8 kinds, sizes 5 and 10 | text, sizes, ranges and code |

Why the bounds are enough to be of interest.  Two notes are needed for a rollback
to reach a neighbour; the vault starts with any contents, so two edits allow a
note to be deleted and to come back.  Contents have one, two or no chunks
because no chunk takes a path of its own through the embedding loop, and two let
one batch succeed and one fail.  A fault can be any exception, a failed scan, or a
crash between any two transactions; one is enough to interrupt a run anywhere,
and the next run starts from what it left.  A victim of a circle is no fault, so two
processes can abort each other as often as they meet.  `IndexSerial` has 4.2 million
states, `IndexConcurrent` 2.0 million and `IndexConverges` 137 000.  Two
configurations of one version let the planner keep notes of either, the third one
makes it replace them.  In `LexicalIndex`, five transactions
are the least for storing, marking, withdrawing and replacing a chunk beside a
refresh with one to spare.  In `QdrantRuns`, a document that loses its chunk while an
upsert is late takes three transactions and one fault; two revisions are left to
the theorem.  Three asks are the least for a lost reply, its retry and a competing
question.  `Gens` and `Ids` are identities of insertions; a new one has to be
unused, and the instances have enough of them that a step is not blocked in any
way that hides a behaviour (chunks of one document are never remembered in more
versions than there are identities).  The agent's budgets are the literals of
`agentic_v2/budget.py`, so a run has three steps at most; a second text is what a
rewrite changes the query to.  A canary file of one sample is full after one
request; the scores 0.34 and 0.36 are on either side of the threshold of 0.35 and
differ by less than 0.05, and 0 is lower by more than that (843 000 states).  Five
lines hold a heading, a fenced block and text on either side, and two fenced blocks;
with fences of three characters and text of two, a fenced block with a line of text
in it is exactly as long as a chunk may be, one with two lines is too long, and
notes pass both sizes (169 000 states).

Symmetry is used for generations, ids and processes: in `IndexSerial` and
`IndexConcurrent`, whose temporal properties are all about single steps, in
`LexicalConcurrent`, and in `ConversationPrinted`.  No run with a liveness property
declares one.

Fairness.  A process that is running executes its next statement (weak
fairness), because nothing suspends it for ever; a process waiting for a row lock
gets it when it is free again and again (strong fairness of `Acquire` and of
`Proceed` in `LexicalIndex`), because PostgreSQL queues lock requests.  PostgreSQL
ends a deadlock by aborting one transaction (weak fairness of `Abort` when `Stuck`), and
the Qdrant server answers what it has accepted (weak fairness of `Land`).  Converging
needs a user who runs the command again (weak fairness of `Start` and `Load`).  The
agent's run is one call, so all its steps are fair (`WF(Next)`); which tool or model
answer comes is open.  In `SelectiveAgent` the handling of a request is fair
(`WF(Handle)`), the arrival of requests and restarts are not.  Faults, edits and
crashes are never fair.

`CHECK_DEADLOCK FALSE` is set where the system has really stopped: when all asks of
`Conversation` are spent, when a run of the agent is over, and when a note is
chunked.

## 11. What the checks show

Properties that hold, beyond types:

* Index run.  `SearchableComplete`: a searchable document has one whole insertion of
  chunks, all embedded, for two processes as well.  `IndexedMatchesHash`: its
  chunks are those of the recorded hash, unless the note was edited at a moment that
  escapes the runs.  `HeldMarksJustified`: a mark in an open transaction is locked,
  chunked and embedded.  `CirclesHaveACause`: processes that wait for each other in a
  circle include one that deletes or restores notes, or records a failed batch.
  `CompletedMeansUpToDate`: a run reported as completed forgot nothing.
  `CompletedServesVersion`: it leaves nothing that an older parser or chunker cut,
  and every vector is of the configuration its row names.
  `OnlyGoneNotesAreDeleted`: unreadable files and directories are not taken for
  deletions.  `ImplementsSearchIndex`: readers never see one version turn into
  another.  `Converges`.
* Lexical index.  `ReadyFindsEveryChunk`, `CorpusMatchesStats`, `QuietRefreshServes`,
  `RebuildIsExact`, `RefreshEnds`.
* Qdrant.  `QuietRunReconciles`, `RefusalsHaveACause`, `Converges`.
* Conversation.  `LinearTurns`, `ContextIsHistory`, `NoTurnIsStuck`, `AnswersAgree`,
  `AsksEnd`.
* Agent.  `ResultIsBuilt`: the result object never refuses a counter.
  `BudgetsAreKept`: the counters are those of the executed actions and within budget.
  `FinishIsGrounded`: an answer has evidence and a sufficient verdict of the last
  search.  `ReportsAgree`: status, state and budget tell one story.  `RunEnds`.
* Canary.  `HarmIsNeverServed` (no response with less evidence, a worse verdict or a
  score lower by 0.05 or more; a smaller drop is served), `ControlIsBaseline` (whatever the shadow does or raises,
  a request without authority gets its own search), `AnswersAreGoverned` (the model
  can withhold an answer, never allow one), `BooksAreKept` (over restarts),
  `EvaluationIsIsolated`, `RequestsEnd`.
* Chunks.  `TextIsKept`, `NoNeedlessCut`, `WholeSectionsAreLocated`.  `ChunksFit`: what is
  too long is a passage that ends with a whole piece of fenced code, and begins with
  it unless two of its lines are tildes.  `SetApartCodeIsWhole`: code that fits is in
  one chunk, wherever it stands, if no prose stands directly above it.  What fenced code
  of a note is, these two say without the sections and blocks of the splitter
  (`IsCode`, `IsOpenCode`).

Two runs find what a document excludes:

* `IndexLostMark`.  A note whose embedding input is rejected makes the loop call
  `rollback()` (`embedding/service.py:93`), which also drops the pending mark of the
  note before it.  As this happens in every run, a healthy note next to a bad one
  may never become searchable, although `docs/ARCHITECTURE.md:304` says that the
  failure of one document must not contaminate others.
* `ConversationPrinted`.  `session ask` prints the answer before its transaction
  commits (`cli.py:461` inside the block at `cli.py:360`).  If the process dies in
  between, a retry with the same `--client-request-id` gives another turn.

Limits of the properties, found by changing an instance or by reading for the
model.  They say under which assumption a property above holds:

* A note in `slipped` may be indexed with chunks that are not of its recorded hash.  One
  process: the file is hashed at `chunking/service.py:54` and read again at line 56; an
  edit in between stores the chunks of the new text under the old hash.  The next run
  repairs that, because the hash on disk is then a new one, unless the note has
  been edited back to the old text, which nothing notices.  Two processes:
  `replace_document_chunks` and `mark_chunked` do not check the hash, so when a note is
  edited while they run, a slow process stores the version it has read over a newer
  row, and nothing repairs that until the note is edited again.
* After a completed run, notes it kept may carry another configuration of the same
  parser and chunking version: the planner does not compare embedding models
  (`planner.py:45`).  `CompletedServesVersion` says what remains true.  Searches filter by
  configuration, so under a new embedding model they find nothing of those notes,
  and no later run changes that until a note or a version does.
* Circles do occur.  Of two processes one can delete note 1 after it has modified
  note 2, while the other holds the mark of 1 and waits for 2; PostgreSQL aborts one,
  whose run ends as failed, or whose marks are lost as in `IndexLostMark`.  The model
  takes the chunk rows of one statement at once; PostgreSQL takes them one by one in an
  order the code leaves open, so statements over several chunks of one document may
  wait for each other where the model has one wait for the other.
* `ScanStages` with `"metadata"` violates `OnlyGoneNotesAreDeleted`: a directory whose
  type cannot be examined is not reported as a discovery error.  The other way
  round, one broken symbolic link is a discovery error, and one such error keeps
  every deletion from being applied (`vault/scanner.py:89`).
* The program refreshes the lexical index with the default configuration only
  (`cli.py:589`, `orchestrator.py:127`), and a search with another `--bm25-k1` is
  refused as not ready however often the index is refreshed.
* `CorpusMatchesStats` needs one configuration.  With two, three slots, two documents
  and eight transactions, this is reachable: the trigger deletes the last row of one
  configuration and empties the corpus while a row of another remains; a refresh
  for the latter has computed its corpus; a purge deletes that row and need not
  wait, because no corpus row is committed; the refresh then commits a corpus that
  counts a chunk which is gone.  Readiness compares counts and refuses, so
  `ReadyFindsEveryChunk` holds for all configurations, which is proved.
* Materialization compares counts.  If others disturb a run, or two late requests
  land in it, it can succeed over a collection that holds other points than
  it loaded; the next quiet run repairs that (`QuietRunReconciles`).  A run of a new
  revision over an unchanged vault removes all points and succeeds with 0 = 0.
* The default backend of the index run and of searches are two literals that
  nothing compares (`indexing/orchestrator.py:111`, `search/service.py:333`).
* A request key whose failed turn was committed by the command line is refused
  for ever, and the API reports this `ValueError` as a session that "was not found"
  (`showcase/api/app.py:145`).  A turn is replayed by its key alone: the same key with
  another question gets the old answer (`conversation/repository.py:142`).
* Agent.  `FinishIsGrounded` allows one thing a reader may not expect: the verdict
  and evidence may be those of the query before the only rewrite, because a rewrite
  keeps the evidence (`state_transition.py:150`), so a run may rewrite and finish
  without another search.  In the canary, the answer after a rewrite is
  generated for the rewritten query.  A graph search whose result is marked failed is
  adopted by the adapter of the evaluation all the same.
* Chunks.  A piece that is not the first of its block has no first line, so a chunk
  it starts takes the first line of a later block (`chunker.py:138`): of a note of a
  heading, two fences and text, the chunk of lines 3 and 4 is reported as line 4.
  The heading path that was pending survives a long section (`chunker.py:33`), so the next
  short section is filed under an earlier heading.  Code that would fit is torn
  when prose stands directly above its fence, for the splitter then takes the two for
  one block and prose; `docs/ARCHITECTURE.md:188` only promises whole blocks "where
  feasible", and `SetApartCodeIsWhole` states the case that holds.  The same line
  says that a single over-long code block may exceed the maximum.  In
  `_is_fenced_code_block` (`chunker.py:239`) "and" binds before "or", so two lines of
  tildes anywhere make a block one of code: a note of two lines of text and two of
  tildes, without an empty line, is kept as one over-long chunk most of which is
  prose.  `ChunksFit` names this case, which goes beyond what the document says.

## 12. Proofs

All theorems hold for any number of processes, notes, sessions and requests and
any values of the bounds, from the named assumptions of each module (types of the
constants; special values are not members of the sets they are added to; slots and
texts of `LexicalIndex` are finite).

`IndexPipeline_proofs`.  `SearchableComplete` is not inductive: a document
becomes searchable in `MarkIndexed` or in a `Commit` of an earlier mark, when another
process may have replaced its rows.  `IInv` adds what excludes this: a chunked or
indexed document has one whole insertion of rows (`ChunkedIsWhole`), a pending mark
is locked, chunked and embedded and no two processes hold one document
(`HeldMarksJustified`), and a process holds locks only while it applies a plan or
replaces chunks and in its embedding loop, marks only in the last (`LocksClosed`).
`TypeStep`, `ControlStep` and `InvStep` go through the actions one by one.
Theorems: `IndexInvariant`, `TypeCorrect`, `SearchableIsComplete`,
`MarksAreJustified`, and `Refinement`: `Spec => ImplementsSearchIndex`.  For the
latter each action is shown to publish, to retract or to keep what is
served (`RefinementStep`); the invariant is what makes `MarkIndexed` publish a
whole edition.

`CirclesAreCaused` (`CirclesHaveACause`) is about the order in which locks are asked
for.  `InOrder` is its invariant: all that a process holds comes before all it still
asks for, in the sections of its plan or, when it embeds, in path order; what it adds
is unknown to the table until it commits, and what it embeds is known.  In a
circle without the two causes, a process asks for a row another one holds, which
therefore asks for a later row or, if the first was adding, for a known one
(`CircleGrows`); a known note stays known to the next, so the last note asked
for in the circle would need a later one (`OrderBreaksCircles`, and `LastNote` from the
finiteness of `Paths`).  A process that replaces
chunks holds nothing but their document and waits for nobody but who records a failed
batch; one that records an error of a document holds nothing.

`HashesAreTrue` (`IndexedMatchesHash`) holds for any number of processes and any
edits.  `HashInv` says how far a process may be behind: what it scanned is still on
disk where several share the vault and the note has not slipped, its listed hash
is that of the document or not that of the file, so that the check of the source
finds out, and what was checked is what is parsed.

`DeletionsAreGone` (`OnlyGoneNotesAreDeleted`) is about the plan: what it marks for
deletion was looked for in the vault and is not there (`PlanIsFresh`).  Its hypothesis
`MetadataIsRead` excludes the one gap the code has, a directory whose metadata
cannot be examined (section 11); without it, TLC finds a counterexample.

`IndexPipelineAlone_proofs` assumes `Alone`: one process at a time, with any
edits.  It is needed, because another process may put a note back into work between
two stages.  `TaskInv` is what it buys: the lists a process works through stay true of
the tables until it has used them.  `AgreeInv` ties the vectors of what is or will be
searchable to the configuration of their rows, `RowsInv` the rows to the version of
their document, and `ProgressInv` follows the run: as long as nothing has failed, every
note is where the stage of the run should have brought it (`Arrived`) - planned,
applied, purged, chunked, listed for embedding, marked - so at the end nothing is
left to do (`CompletedIsUpToDate`).  What fails is counted (`Unreported`), so a run that
ends without a failure had none.  `CompletedServes` (`CompletedServesVersion`) needs no
hypothesis about the configurations.

`LexicalIndex_proofs`.  `Typed` and `Control` say where transactions are; `RowsFit` that
statistics and terms belong to the chunk they are keyed by, in the committed
tables and in those a transaction sees.  The heart is `CorpusCovers`: the corpus counts
at least the statistics that remain of its configuration, since who is about to
commit one excludes all other writers except a deletion that inserts none.
Readiness compares the three counts, and equal cardinalities of finite sets, one
within the other, make the sets equal (`ReadyIsComplete`, any configurations).
`CorpusIsExact` strengthens `CorpusCovers` to equality (`Exact`) under
`OneConfiguration`.  `QuietInv` follows a refresh nobody interferes with, statement by
statement: after the cleaning only searchable chunks have statistics in its view,
its batches are searchable, and its loop ends with nothing left to index unless a
whole batch was untokenizable.  The last rests on `ShortBatch`: a batch in the order
of the chunks that is not full holds all there is (the least chunk left out would
have a batch before it).  From it follow `QuietRefreshIndexes` and
`RebuildCountsExactly`.

`QdrantMaterialization_proofs`.  `IInv` says what is known of the collection: a run
that is alone has nothing but searchable chunks on the way (`OnlyCurrent`), at its
upserts the collection is within what it listed or loaded, after its
deletion within what it loaded (`Alone`); once such a run has succeeded the
collection holds nothing that is not searchable, and stays so under any further
runs, crashes and late requests until the index changes (`Settled`).  A search that
began then finds current candidates (`Calm`).  An undisturbed run has loaded what a
SELECT would return now (`Fresher`) and leaves no other point, so the equal counts it
checks mean equal sets (`QuietRunsReconcile`, for a finite table of chunks).  Theorems:
`MaterializationInvariant`, `TypeCorrect`, `RefusalsAreCaused`, `QuietRunsReconcile`.

`Conversation_proofs`.  `IInv` says that a session has one open turn (`OneOpen`), that
it fits the committed tables - next number, context of the history as it still
is, key not used by any turn - (`OpenFits`), and that every answer given or on its
way is backed by a committed turn of its session, unless that was deleted
(`ClaimInv`).  Theorems: `ConversationInvariant`, `TypeCorrect`, `TurnsAreLinear`,
`ContextsAreHistory`, `NeverStuck`, `Idempotent`.

`AgentRuntimeV2_proofs`.  A first part is about one transition: an action the
resolver allows stays within the budgets (`CountsAction`), so the transition's
branch for a violated budget is dead code.  The invariant has one part per
subject: requests of a decision (`DecisionInv`), decisions and actions against
the place in the loop (`ControlInv`), counters against the history (`CountInv`),
evidence and verdict against the last search (`GroundInv`), the reported status against the
state (`ReportInv`).  Theorems: `Invariance`, `TypesAreKept`, `ResultAlwaysFits`, `Budgets`,
`FinishGrounds`, `ReportsTellTheTruth`.

`SelectiveAgent_proofs` holds for any integer scores.  `CallsInv` counts what a decision has cost; `AuthorityInv` says
what an applied candidate promises from the moment it is applied, and where the
served response comes from; `LaneInv` ties lane, report and request together.
Theorems: `Invariance`, `TypesAreKept`, `NoHarm`, `ControlLane`, `Governed`, `Books`,
`Isolation`.

`Chunker_proofs` holds for any note, any lengths of lines and any two sizes.  The
operators are folds; `FoldExists` shows that the function a fold chooses exists, and
`LoopGives` is the one induction: a loop whose rounds each add the text of their
element to a measure gives the text of the whole sequence.  The measure is the ink
of a text, its characters without line breaks.  Stripping, joining, packing at
boundaries and hard cuts give the ink they got, so each helper is shown to
conserve it (`PackKeepsInk`, `AtomsKeepInk`, `BlocksKeepLines`, `UnitsKeepInk`,
`SplitSectionKeepsInk`).  `Inv` then follows the text: it is in the sections and the
section being read (`Parsed`), in the chunks, what is pending and the sections not
yet taken (`Chunked`), in the chunks (`Finished`), and its types hold the bound on
lengths.  From it follows `NothingIsLost`.  The next two
properties tell a chunk's sections by its first and last character, which needs the
sections in the order of their lines (`Ordered`).  `Joins` says that a chunk of whole
sections is stripped and has their range (`Located`), and that two of them with only
empty chunks between were cut for a reason (`Greedy`, and `Awaits` for what is
pending): neighbours alone would not do, since empty chunks are left out at the
end.  The last property, that code below no prose stays whole, and the exception in
`ChunksFit` need more than conservation, for both speak of the code of the note and not
of blocks.  `Matched` says that a section runs from a line where no fence is open to
another one or to the end of the note, so the fences that `Blocks` sees open are those
of the note; a block is then prose, or a passage that ends with a whole piece of code
(`Shaped`, `KeptIsCode`), which is what an over-long chunk can be (`NoneIsTooLong`).  The loop of `Blocks` reads the fences and what is between them
into one block whatever came before (`CodeIsRead`), a block that fits is one unit
(`FittingBlockIsUnit`), and a text with ink at both ends stays whole when it is
stripped, joined or collected (`Holds`, `HoldsInPart`, `HoldsInJoin`, `SplitSectionHolds`).
The lines of a section follow each other in the note (`Contiguous`), so code of the
note is code of its section, and `CodeKept` says that it is in a chunk or pending as
soon as its section has been taken.  Theorems: `Invariant`, `NothingIsLost`,
`NoneIsTooLong`, `JoinsInvariant`, `JoiningIsGreedy`, `JoinedIsLocated`, `CodeInvariant`,
`CodeIsKeptWhole`.

Only model-checked: all liveness properties (`Converges` of both modules,
`RefreshEnds`, `AsksEnd`, `RunEnds`, `RequestsEnd`), which are out of reach of the prover
together with fairness.

## 13. What is not modelled

Components with status `not_modelled` in `PROJECT.json` carry their reason there.
Most lines of the repository are scripts of past experiments under `evaluation/`:
each runs the system once over a data set and writes a report, so there is no state
that outlives it and nothing concurrent; what they share with the running system
(the adapters, gates and controllers of `task0246`, `task0247`, `task0249` and `task0258`)
is in `AgentCore` and `SelectiveAgent`.  The rest are conversions of text and file
formats, prompts and schemas, adapters of neural models, the browser client, and
diagnostics (`doctor`), whose results depend on data the models abstract from.  The
registry of traces, the recovery loop of the earlier agent and the fusion of
rankings could be modelled and are the rest of the plan (section 2).

Within the modelled parts these are left out:

* The text of notes, chunks, prompts and answers, tokenization and vectors.
* Qdrant in the index run (the orchestrator calls it before the lexical refresh):
  `QdrantMaterialization` has the transactions of the index run beside it instead.
* Paging of Qdrant scrolls; creation of the collection; the pgvector branch of search.
* The search side of BM25: readiness is a state predicate, not a step of a search.
* `archive_session`, which nothing calls; citations; the token budget of contexts.
* The unique indexes of `conversation_turns`: the properties show that they never
  have to refuse a row.
* Digests, traces, metrics, candidates, sources and coverage of the agent; fresh run
  and execution ids, which no caller can repeat.
* The file of the live shadow, telemetry, and the metadata of promotion and
  monitoring of the canary, none of which a later request reads.
* Front matter, checksums and derived representations of chunks; blanks inside lines.
* Symbolic links and renames in the vault.  A rename is a deletion and an addition
  in the planner as well.
* The `index_runs` row of a process that died stays `running`; nothing reads it.
