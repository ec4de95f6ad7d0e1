----------------------------- MODULE LexicalIndex -----------------------------
(***************************************************************************)
(* The BM25 index of OPK-RAG: lexical/service.py and the tables of         *)
(* migration 20260718082034.  A refresh (`opk-rag lexical-index`, or the   *)
(* last stage of `opk-rag index`) is one READ COMMITTED transaction of     *)
(* several statements: each statement sees what others have committed so   *)
(* far and what the transaction itself wrote.  Meanwhile an index run may  *)
(* replace chunks; deleting one cascades to its lexical rows, and a        *)
(* trigger recomputes the corpus in that transaction.                      *)
(*                                                                         *)
(* Abstractions: a slot stands for a position (path, chunk_index), its     *)
(* number for the search order; a text is the set of its terms, each       *)
(* occurring once; a configuration stands for tokenizer, version and       *)
(* fingerprint; one knowledge base.                                        *)
(***************************************************************************)
EXTENDS Integers, FiniteSets, Functions

CONSTANTS
  Docs,       \* documents
  Slots,      \* positions of chunks; numbers, in path and chunk_index order
  DocOf,      \* the document a slot belongs to
  Ids,        \* chunk uuids of one slot
  NoId,       \* no chunk in the slot
  Terms,      \* lexical terms
  Texts,      \* sets of terms a chunk may consist of ({}: nothing to tokenize)
  Configs,    \* lexical configurations, of refreshes and of searches
  NoConfig,   \* no row
  Refreshers, \* processes that refresh the lexical index
  BatchSize,  \* --batch-size
  MaxOps      \* bound: transactions of the index run

ASSUME SlotAssumption   ==
  Slots \subseteq Nat /\ IsFiniteSet(Slots) /\ DocOf \in [Slots -> Docs]
ASSUME TextAssumption   == Texts \subseteq SUBSET Terms /\ IsFiniteSet(Terms)
ASSUME ConfigAssumption ==
  NoConfig \notin Configs /\ NoId \notin Ids
ASSUME BatchAssumption  == BatchSize \in Nat \ {0} /\ MaxOps \in Nat

VARIABLES
  status,  \* documents.index_status: "indexed", "chunked" or anything else
  chunk,   \* chunks: slot -> [id, words]
  tables,  \* the committed lexical tables
  pc,      \* where a refresh is
  config,  \* its configuration
  batch,   \* the chunks its last SELECT returned: slot -> chunk
  own,     \* the lexical tables as its transaction sees its own writes
  mine,    \* slots whose lexical rows it has written and so locked
  wrote,   \* it has written, and so locked, the two corpus tables
  alone,   \* no other transaction committed since it began
  rebuilt, \* it was started with --force-rebuild
  ops

index == <<status, chunk, ops>>
vars  == <<status, chunk, tables, pc, config, batch, own, mine, wrote, alone,
           rebuilt, ops>>

----------------------------------------------------------------------------
NoChunk  == [id |-> NoId, words |-> {}]
NoStats  == [config |-> NoConfig, length |-> 0]
NoCorpus == [config |-> NoConfig, count |-> 0, total |-> 0]
Chunk    == [id : Ids, words : Texts]

Empty == [stats  |-> [s \in Slots |-> NoStats],
          terms  |-> [s \in Slots |-> {}],
          df     |-> [w \in Terms |-> 0],
          corpus |-> NoCorpus]

SlotsOf(D) == {s \in Slots : DocOf[s] \in D}
Present    == {s \in Slots : chunk[s] # NoChunk}
Searchable == {s \in Present : status[DocOf[s]] = "indexed"}

\* The rows of chunk_lexical_statistics for a configuration.
StatsUnder(tb, k) == {s \in Slots : tb.stats[s].config = k /\ k # NoConfig}

Frequency(terms, S) == [w \in Terms |-> Cardinality({s \in S : w \in terms[s]})]

Lengths(tb, k) == [s \in StatsUnder(tb, k) |-> tb.stats[s].length]

\* The corpus row for chunks of these lengths.
Corpus(k, lengths) ==
  [config |-> k,
   count  |-> Cardinality(DOMAIN lengths),
   total  |-> SumFunction(lengths)]

Summary(tb, k) == Corpus(k, Lengths(tb, k))

\* refresh_lexical_corpus_after_chunk_stat_delete, for a deleted row of k.
Triggered(tb, k) ==
  [tb EXCEPT !.df = Frequency(tb.terms, StatsUnder(tb, k)),
             !.corpus = IF StatsUnder(tb, k) = {} THEN NoCorpus
                                                  ELSE Summary(tb, k)]

\* The tables after statistics rows are deleted: the trigger runs per row, and
\* the last row, in no particular order, decides.
WithoutStats(tb, S) ==
  LET gone == {s \in S : tb.stats[s] # NoStats}
      left == [tb EXCEPT !.stats = [s \in Slots |-> IF s \in S THEN NoStats
                                                               ELSE tb.stats[s]]]
  IN IF gone = {} THEN {tb}
     ELSE {Triggered(left, tb.stats[last].config) : last \in gone}

WithoutTerms(tb, S) ==
  [tb EXCEPT !.terms = [s \in Slots |-> IF s \in S THEN {} ELSE tb.terms[s]]]

\* What the statements of refresh t see.
View(t) ==
  [stats  |-> [s \in Slots |-> IF s \in mine[t] THEN own[t].stats[s]
                                                ELSE tables.stats[s]],
   terms  |-> [s \in Slots |-> IF s \in mine[t] THEN own[t].terms[s]
                                                ELSE tables.terms[s]],
   df     |-> IF wrote[t] THEN own[t].df ELSE tables.df,
   corpus |-> IF wrote[t] THEN own[t].corpus ELSE tables.corpus]

\* The slots in which two versions of the tables have different rows.
Differ(a, b) == {s \in Slots : a.stats[s] # b.stats[s] \/ a.terms[s] # b.terms[s]}

Holders(S) == {t \in Refreshers : mine[t] \cap S # {}}
Corporeal  == {t \in Refreshers : wrote[t]}

\* A transaction that turns tables a into b by deleting statistics waits for the
\* corpus rows of another one, unless it finds none and inserts none.
CorpusBusy(a, b, except) ==
  /\ Corporeal \ except # {}
  /\ a.stats # b.stats \/ a.df # b.df \/ a.corpus # b.corpus
  /\ \/ a.df # Empty.df \/ a.corpus # NoCorpus
     \/ b.df # Empty.df \/ b.corpus # NoCorpus

----------------------------------------------------------------------------
Init ==
  /\ status = [d \in Docs |-> "other"]
  /\ chunk = [s \in Slots |-> NoChunk]
  /\ tables = Empty
  /\ pc = [t \in Refreshers |-> "idle"]
  /\ config = [t \in Refreshers |-> NoConfig]
  /\ batch = [t \in Refreshers |-> [s \in Slots |-> NoChunk]]
  /\ own = [t \in Refreshers |-> Empty]
  /\ mine = [t \in Refreshers |-> {}]
  /\ wrote = [t \in Refreshers |-> FALSE]
  /\ alone = [t \in Refreshers |-> FALSE]
  /\ rebuilt = [t \in Refreshers |-> FALSE]
  /\ ops = 0

(***************************************************************************)
(* Transactions of the index run.                                          *)
(***************************************************************************)
Committed ==
  /\ ops < MaxOps
  /\ ops' = ops + 1
  /\ alone' = [t \in Refreshers |-> FALSE]

\* The chunks of D are deleted, others inserted; lexical rows cascade.
ReplaceChunks(D, new) ==
  LET S == SlotsOf(D)
  IN /\ Holders(S) = {}
     /\ \A s \in S : new[s] # NoChunk =>
          /\ new[s].id # chunk[s].id
          /\ \A t \in Refreshers : new[s].id # batch[t][s].id
     /\ \E tb \in WithoutStats(WithoutTerms(tables, S), S) :
          /\ ~CorpusBusy(tables, tb, {})
          /\ tables' = tb
     /\ chunk' = [s \in Slots |-> IF s \in S THEN new[s] ELSE chunk[s]]

\* replace_document_chunks and mark_chunked.
Store(d) ==
  /\ Committed
  /\ status[d] # "indexed"
  /\ \E new \in [SlotsOf({d}) -> Chunk \cup {NoChunk}] : ReplaceChunks({d}, new)
  /\ status' = [status EXCEPT ![d] = "chunked"]
  /\ UNCHANGED <<pc, config, batch, own, mine, wrote, rebuilt>>

\* All chunks embedded: the document is searchable.
MarkIndexed(d) ==
  /\ Committed
  /\ status[d] = "chunked"
  /\ status' = [status EXCEPT ![d] = "indexed"]
  /\ UNCHANGED <<chunk, tables, pc, config, batch, own, mine, wrote, rebuilt>>

\* A new version was found, or the note is gone; its old chunks stay for now.
MarkOther(d) ==
  /\ Committed
  /\ status[d] # "other"
  /\ status' = [status EXCEPT ![d] = "other"]
  /\ UNCHANGED <<chunk, tables, pc, config, batch, own, mine, wrote, rebuilt>>

\* delete_for_deleted_documents.
Purge(D) ==
  /\ Committed
  /\ \A d \in D : status[d] = "other"
  /\ ReplaceChunks(D, [s \in SlotsOf(D) |-> NoChunk])
  /\ UNCHANGED <<status, pc, config, batch, own, mine, wrote, rebuilt>>

----------------------------------------------------------------------------
(***************************************************************************)
(* index_knowledge_base_lexical, statement by statement.                   *)
(***************************************************************************)
Goto(t, stage) == pc' = [pc EXCEPT ![t] = stage]

\* Refresh t has executed a statement after which it sees the tables tb.
Executed(t, tb) ==
  /\ own' = [own EXCEPT ![t] = tb]
  /\ mine' = [mine EXCEPT ![t] = @ \cup Differ(View(t), tb)]
  /\ wrote' = [wrote EXCEPT ![t] = @ \/ View(t).stats # tb.stats]

Begin(t, k, force) ==
  /\ pc[t] = "idle"
  /\ config' = [config EXCEPT ![t] = k]
  /\ rebuilt' = [rebuilt EXCEPT ![t] = force]
  /\ alone' = [alone EXCEPT ![t] = TRUE]
  /\ Goto(t, IF force THEN "rebuild" ELSE "clean")
  /\ UNCHANGED <<index, tables, batch, own, mine, wrote>>

\* Mutant of Erased: the term rows are left out.
ErasedButTerms == [Empty EXCEPT !.terms = tables.terms]

\* delete_knowledge_base_lexical_index; triggers leave nothing either.
Erased == Empty

Rebuild(t) ==
  /\ pc[t] = "rebuild"
  /\ Holders(Differ(tables, Erased)) \subseteq {t}
  /\ ~CorpusBusy(tables, Erased, {t})
  /\ own' = [own EXCEPT ![t] = Erased]
  /\ mine' = [mine EXCEPT ![t] = Differ(tables, Erased)]
  /\ wrote' = [wrote EXCEPT ![t] = tables # Erased]
  /\ Goto(t, "clean")
  /\ UNCHANGED <<index, tables, config, batch, alone, rebuilt>>

\* Mutant of Unindexed: statistics of documents that left the index stay.
UnindexedNever == {}

Unindexed == {s \in Present : status[DocOf[s]] # "indexed"}

\* delete_non_indexed_chunk_statistics: the statistics go, the terms stay.
Clean(t) ==
  /\ pc[t] = "clean"
  /\ \E tb \in WithoutStats(View(t), Unindexed) :
       /\ Holders(Differ(View(t), tb)) \subseteq {t}
       /\ ~CorpusBusy(View(t), tb, {t})
       /\ Executed(t, tb)
  /\ Goto(t, "list")
  /\ UNCHANGED <<index, tables, config, batch, alone, rebuilt>>

\* list_chunks_requiring_lexical_index, for one searchable chunk.
Requires(tb, s, k) ==
  \/ tb.stats[s].config # k
  \/ tb.stats[s].length <= 0
  \/ tb.terms[s] = {}
  \/ tb.stats[s].length # Cardinality(tb.terms[s])

Pending(t) == {s \in Searchable : Requires(View(t), s, config[t])}

\* order by relative_path, chunk_index limit batch_size.
FirstOf(S) == {s \in S : Cardinality({u \in S : u < s}) < BatchSize}

\* Mutant of Listed: the batch is empty only when nothing is left.
ListedForever(t) ==
  IF Pending(t) = {} THEN "refresh" ELSE "list"

\* An empty batch, or one without a tokenizable chunk, ends the loop.
Listed(t) ==
  IF \E s \in FirstOf(Pending(t)) : chunk[s].words # {} THEN "write" ELSE "refresh"

List(t) ==
  /\ pc[t] = "list"
  /\ batch' = [batch EXCEPT ![t] =
       [s \in Slots |-> IF s \in FirstOf(Pending(t)) /\ chunk[s].words # {}
                          THEN chunk[s] ELSE NoChunk]]
  /\ Goto(t, Listed(t))
  /\ UNCHANGED <<index, tables, config, own, mine, wrote, alone, rebuilt>>

Batch(t) == {s \in Slots : batch[t][s] # NoChunk}

\* Mutant of Orphaned: no foreign key from lexical rows to chunks.
OrphanedNever(t) == FALSE

\* A chunk of the batch was deleted in the meantime: its foreign key fails.
Orphaned(t) == \E s \in Batch(t) : batch[t][s] # chunk[s]

Indexed(tb, S, words, k) ==
  [tb EXCEPT !.stats = [s \in Slots |-> IF s \in S
       THEN [config |-> k, length |-> Cardinality(words[s].words)] ELSE @[s]],
             !.terms = [s \in Slots |-> IF s \in S THEN words[s].words ELSE @[s]]]

\* replace_chunks_lexical_terms.
Write(t) ==
  /\ pc[t] = "write"
  /\ ~Orphaned(t)
  /\ Holders(Batch(t)) \subseteq {t}
  /\ own' = [own EXCEPT ![t] = Indexed(View(t), Batch(t), batch[t], config[t])]
  /\ mine' = [mine EXCEPT ![t] = @ \cup Batch(t)]
  /\ batch' = [batch EXCEPT ![t] = [s \in Slots |-> NoChunk]]
  /\ Goto(t, "list")
  /\ UNCHANGED <<index, tables, config, wrote, alone, rebuilt>>

\* Mutant of MayRefresh: no advisory lock, no waiting for the corpus rows.
MayRefreshAlways(t) == TRUE

\* pg_advisory_xact_lock, and the row locks of the corpus tables.
MayRefresh(t) == Corporeal \subseteq {t}

\* refresh_knowledge_base_lexical_statistics: every term row counts.
Refreshed(tb, k) ==
  [tb EXCEPT !.df = Frequency(tb.terms, Slots), !.corpus = Summary(tb, k)]

Refresh(t) ==
  /\ pc[t] = "refresh"
  /\ MayRefresh(t)
  /\ own' = [own EXCEPT ![t] = Refreshed(View(t), config[t])]
  /\ wrote' = [wrote EXCEPT ![t] = TRUE]
  /\ Goto(t, "commit")
  /\ UNCHANGED <<index, tables, config, batch, mine, alone, rebuilt>>

Reset(t) ==
  /\ Goto(t, "idle")
  /\ config' = [config EXCEPT ![t] = NoConfig]
  /\ batch' = [batch EXCEPT ![t] = [s \in Slots |-> NoChunk]]
  /\ own' = [own EXCEPT ![t] = Empty]
  /\ mine' = [mine EXCEPT ![t] = {}]
  /\ wrote' = [wrote EXCEPT ![t] = FALSE]
  /\ rebuilt' = [rebuilt EXCEPT ![t] = FALSE]

Commit(t) ==
  /\ pc[t] = "commit"
  /\ tables' = View(t)
  /\ alone' = [u \in Refreshers |-> FALSE]
  /\ Reset(t)
  /\ UNCHANGED index

\* An exception, a crash, a lost conflict: the transaction is rolled back.  After
\* a failed statement the fallback for each chunk fails too, and so the run.
Abort(t) ==
  /\ pc[t] # "idle"
  /\ alone' = [alone EXCEPT ![t] = FALSE]
  /\ Reset(t)
  /\ UNCHANGED <<index, tables>>

Proceed(t) ==
  \/ Rebuild(t)
  \/ Clean(t)
  \/ List(t)
  \/ Write(t)
  \/ Refresh(t)
  \/ Commit(t)

Next ==
  \/ \E d \in Docs : Store(d) \/ MarkIndexed(d) \/ MarkOther(d)
  \/ \E D \in (SUBSET Docs) \ {{}} : Purge(D)
  \/ \E t \in Refreshers, k \in Configs, force \in BOOLEAN : Begin(t, k, force)
  \/ \E t \in Refreshers : Proceed(t) \/ Abort(t)

Spec == Init /\ [][Next]_vars

\* PostgreSQL ends a wait that cannot end otherwise; an orphaned batch fails.
Stuck(t) ==
  /\ pc[t] # "idle"
  /\ Orphaned(t) \/ \A u \in Refreshers : pc[u] # "idle" => ~ENABLED Proceed(u)

\* A process executes its statements, and locks are granted in turn.
Fairness == \A t \in Refreshers :
  SF_vars(Proceed(t)) /\ WF_vars(Stuck(t) /\ Abort(t))
FairSpec == Spec /\ Fairness

----------------------------------------------------------------------------
(***************************************************************************)
(* Properties.                                                             *)
(***************************************************************************)

\* The variables keep their types; the tables keep theirs under any trigger.
TypeOK ==
  /\ status \in [Docs -> {"other", "chunked", "indexed"}]
  /\ chunk \in [Slots -> Chunk \cup {NoChunk}]
  /\ tables.stats \in [Slots -> [config : Configs \cup {NoConfig}, length : Nat]]
  /\ tables.terms \in [Slots -> SUBSET Terms]
  /\ tables.df \in [Terms -> Nat]
  /\ \A s \in Slots : chunk[s] = NoChunk =>
       tables.stats[s] = NoStats /\ tables.terms[s] = {}

\* get_lexical_readiness, the condition BM25 and hybrid search insist on.
Ready(tb, k) ==
  LET current == StatsUnder(tb, k)
  IN /\ Searchable # {}
     /\ Cardinality(current) = Cardinality(Searchable)
     /\ \A s \in Slots : tb.stats[s].config \in {k, NoConfig}
     /\ Searchable \subseteq current
     /\ tb.corpus.config = k
     /\ tb.corpus.count = Cardinality(current)

\* When the index is ready, BM25 can find every searchable chunk by every one
\* of its terms, and normalises with the true corpus: search_chunks_bm25 joins
\* the term's row of the corpus table, so a missing row would hide the chunk.
ReadyFindsEveryChunk ==
  \A k \in Configs : Ready(tables, k) =>
    /\ \A s \in Searchable : tables.terms[s] = chunk[s].words
    /\ \A w \in Terms :
         tables.df[w] >= Cardinality({s \in Searchable : w \in chunk[s].words})
    /\ tables.corpus = Summary(tables, k)

\* With one configuration, the corpus row sums up the statistics, although it is
\* written by refreshes and, without their advisory lock, by a trigger.
CorpusMatchesStats ==
  tables.corpus # NoCorpus => tables.corpus = Summary(tables, tables.corpus.config)

\* The searchable chunks no tokenizer output is stored for.
Untokenizable == {s \in Searchable : chunk[s].words = {}}

\* Refresh t commits, and nobody has interfered with it.
CommitsAlone(t) == /\ pc[t] = "commit" /\ pc'[t] = "idle"
                   /\ alone[t] /\ tables' = View(t)

\* A refresh nobody interferes with indexes every tokenizable chunk, whatever
\* was there before, if fewer than a batch of chunks are untokenizable (more of
\* them can fill the first batch, and the loop stops); and the index is ready
\* if none is (docs/CLI.md, "Lexical Index").
QuietRefreshServes ==
  [][\A t \in Refreshers : CommitsAlone(t) =>
       /\ Cardinality(Untokenizable) < BatchSize =>
            \A s \in Searchable \ Untokenizable : ~Requires(tables', s, config[t])
       /\ Untokenizable = {} /\ Searchable # {} => Ready(tables', config[t])]_vars

\* After --force-rebuild the document frequencies are exact (docs/CLI.md: "delete
\* and rebuild").  An ordinary refresh also counts terms that documents outside
\* the index left behind.
RebuildIsExact ==
  [][\A t \in Refreshers : CommitsAlone(t) /\ rebuilt[t] =>
       tables'.df = Frequency(tables'.terms, StatsUnder(tables', config[t]))]_vars

\* Every refresh ends: the loop makes progress or stops, and no refresh waits for
\* a lock for ever.
RefreshEnds == \A t \in Refreshers : pc[t] # "idle" ~> pc[t] = "idle"

=============================================================================
