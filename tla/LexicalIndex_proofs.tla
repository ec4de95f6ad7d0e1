------------------------- MODULE LexicalIndex_proofs -------------------------
(***************************************************************************)
(* Proofs about the lexical index, for any number of refreshes, documents, *)
(* chunks, terms and configurations: type correctness, that readiness      *)
(* implies a complete index, and that a refresh nobody interferes with     *)
(* indexes every tokenizable chunk and rebuilds exactly.                   *)
(*                                                                         *)
(* Readiness is tested on committed tables, but these are written by       *)
(* refreshes and by a trigger that takes no advisory lock.  What is always *)
(* true is weaker than CorpusMatchesStats: a corpus row sums up at least   *)
(* the statistics that are left of its configuration (Covers), because a   *)
(* refresh that is about to commit excludes every other writer of the      *)
(* corpus except one that deletes rows and inserts none.  Readiness        *)
(* compares counts, and equal counts make the two sets equal.  With one    *)
(* configuration the exception cannot arise (CorpusIsExact).               *)
(*                                                                         *)
(* What one quiet refresh achieves follows from what its view holds after  *)
(* each statement (QuietInv): only searchable chunks have statistics once  *)
(* the others are cleaned, and a batch without a tokenizable chunk is all  *)
(* that is left unless it is full (ShortBatch).                            *)
(***************************************************************************)
EXTENDS LexicalIndex, FiniteSetTheorems, WellFoundedInduction, TLAPS

Stages == {"idle", "rebuild", "clean", "list", "write", "refresh", "commit"}

Stats == [config : Configs \cup {NoConfig}, length : Nat]

TablesOK(tb) ==
  /\ tb = [stats |-> tb.stats, terms |-> tb.terms, df |-> tb.df,
           corpus |-> tb.corpus]
  /\ tb.stats \in [Slots -> Stats]
  /\ tb.terms \in [Slots -> SUBSET Terms]
  /\ tb.df \in [Terms -> Nat]

\* Every variable keeps its type, those of open transactions too.
Typed ==
  /\ status \in [Docs -> {"other", "chunked", "indexed"}]
  /\ chunk \in [Slots -> Chunk \cup {NoChunk}]
  /\ TablesOK(tables)
  /\ pc \in [Refreshers -> Stages]
  /\ config \in [Refreshers -> Configs \cup {NoConfig}]
  /\ batch \in [Refreshers -> [Slots -> Chunk \cup {NoChunk}]]
  /\ own = [t \in Refreshers |-> own[t]]
  /\ \A t \in Refreshers : TablesOK(own[t])
  /\ mine \in [Refreshers -> SUBSET Slots]
  /\ wrote \in [Refreshers -> BOOLEAN]

\* A running refresh has a configuration; one that is about to commit has
\* written the corpus, and is the only such.
Control ==
  /\ \A t \in Refreshers : pc[t] # "idle" => config[t] \in Configs
  /\ \A t \in Refreshers : pc[t] = "commit" => wrote[t]
  /\ \A t, u \in Refreshers : pc[t] = "commit" /\ pc[u] = "commit" => t = u

\* The rows of a slot are those of the chunk that is there, or none.
Fit(tb, s) ==
  /\ tb.terms[s] \in {{}, chunk[s].words}
  /\ tb.stats[s] # NoStats =>
       /\ chunk[s] # NoChunk
       /\ tb.stats[s].config \in Configs
       /\ tb.stats[s].length = Cardinality(chunk[s].words)
       /\ tb.terms[s] = chunk[s].words

RowsFit ==
  \A s \in Slots :
    /\ Fit(tables, s)
    /\ \A t \in Refreshers : s \in mine[t] => Fit(own[t], s)

\* The corpus row sums up at least what is left of its configuration, and every
\* term counts at least the chunks that have it.
Covers(tb) ==
  tb.corpus # NoCorpus =>
    \E k \in Configs, D \in SUBSET Slots : \E f \in [D -> Nat] :
      /\ tb.corpus = Corpus(k, f)
      /\ \A s \in StatsUnder(tb, k) : s \in D /\ f[s] = tb.stats[s].length
      /\ \A w \in Terms :
           tb.df[w] >= Cardinality({s \in StatsUnder(tb, k) : w \in tb.terms[s]})

CorpusCovers ==
  /\ Covers(tables)
  /\ \A t \in Refreshers : pc[t] = "commit" => Covers(View(t))

IInv == Typed /\ Control /\ RowsFit /\ CorpusCovers

USE SlotAssumption, TextAssumption, ConfigAssumption, BatchAssumption

LEMMA PartsAreFinite ==
  ASSUME NEW S \in SUBSET Slots
  PROVE  IsFiniteSet(S) /\ Cardinality(S) \in Nat
BY FS_Subset, FS_CardinalityType

LEMMA WordsAreFinite ==
  ASSUME NEW words \in SUBSET Terms
  PROVE  Cardinality(words) \in Nat
BY FS_Subset, FS_CardinalityType

LEMMA FrequencyTyped ==
  ASSUME NEW terms, NEW S \in SUBSET Slots
  PROVE  Frequency(terms, S) \in [Terms -> Nat]
<1>1. ASSUME NEW w \in Terms
      PROVE  Cardinality({s \in S : w \in terms[s]}) \in Nat
  BY PartsAreFinite
<1>2. QED
  BY <1>1 DEF Frequency

\* The corpus tables as the trigger writes them for a deleted row of k.
Recounted(tb, k) ==
  /\ tb.df = Frequency(tb.terms, StatsUnder(tb, k))
  /\ tb.corpus = IF StatsUnder(tb, k) = {} THEN NoCorpus ELSE Summary(tb, k)

LEMMA TriggeredFields ==
  ASSUME NEW tb, TablesOK(tb), NEW k
  PROVE  LET new == Triggered(tb, k)
         IN /\ TablesOK(new)
            /\ new.stats = tb.stats
            /\ new.terms = tb.terms
            /\ Recounted(new, k)
<1> DEFINE new == Triggered(tb, k)
<1> DEFINE f == Frequency(tb.terms, StatsUnder(tb, k))
           c == IF StatsUnder(tb, k) = {} THEN NoCorpus ELSE Summary(tb, k)
<1>0. new = [tb EXCEPT !.df = f, !.corpus = c]
  BY DEF Triggered
<1> HIDE DEF new, f, c
<1>1. /\ new = [stats |-> new.stats, terms |-> new.terms, df |-> new.df,
                corpus |-> new.corpus]
      /\ new.stats = tb.stats
      /\ new.terms = tb.terms
      /\ new.df = f
      /\ new.corpus = c
  BY <1>0 DEF TablesOK
<1>2. /\ StatsUnder(new, k) = StatsUnder(tb, k)
      /\ StatsUnder(tb, k) \in SUBSET Slots
  BY <1>1 DEF StatsUnder
<1>3. Summary(new, k) = Summary(tb, k)
  BY <1>1, <1>2 DEF Summary, Lengths
<1>4. new.df \in [Terms -> Nat]
  BY <1>1, <1>2, FrequencyTyped DEF f
<1>5. TablesOK(new)
  BY <1>1, <1>4 DEF TablesOK
<1>6. QED
  BY <1>1, <1>2, <1>3, <1>5 DEF f, c, new, Recounted

\* What deleting statistics does to the tables, however the trigger ends.
LEMMA Deletion ==
  ASSUME NEW tb, TablesOK(tb), NEW S \in SUBSET Slots,
         NEW new \in WithoutStats(tb, S)
  PROVE  /\ TablesOK(new)
         /\ new.terms = tb.terms
         /\ new.stats = [s \in Slots |-> IF s \in S THEN NoStats ELSE tb.stats[s]]
         /\ \/ new = tb
            \/ \E s \in S :
                 tb.stats[s] # NoStats /\ Recounted(new, tb.stats[s].config)
<1> DEFINE gone == {s \in S : tb.stats[s] # NoStats}
           left == [tb EXCEPT !.stats =
                      [s \in Slots |-> IF s \in S THEN NoStats ELSE tb.stats[s]]]
<1>1. CASE gone = {}
  <2>1. new = tb
    BY <1>1 DEF WithoutStats
  <2>2. tb.stats = [s \in Slots |-> IF s \in S THEN NoStats ELSE tb.stats[s]]
    BY <1>1 DEF TablesOK
  <2>3. QED
    BY <2>1, <2>2
<1>2. CASE gone # {}
  <2>1. PICK s \in gone : new = Triggered(left, tb.stats[s].config)
    BY <1>2 DEF WithoutStats
  <2>2. NoStats \in Stats
    BY DEF NoStats, Stats
  <2>3. /\ TablesOK(left)
        /\ left.terms = tb.terms
        /\ left.stats = [u \in Slots |-> IF u \in S THEN NoStats ELSE tb.stats[u]]
    BY <2>2 DEF TablesOK
  <2> HIDE DEF left
  <2>4. QED
    BY <2>1, <2>3, TriggeredFields
<1>3. QED
  BY <1>1, <1>2

LEMMA ViewTyped ==
  ASSUME Typed, NEW t \in Refreshers
  PROVE  TablesOK(View(t))
BY DEF Typed, TablesOK, View

LEMMA ViewFits ==
  ASSUME Typed, RowsFit, NEW t \in Refreshers, NEW s \in Slots
  PROVE  Fit(View(t), s)
BY DEF Typed, RowsFit, Fit, View

LEMMA LengthsTyped ==
  ASSUME NEW tb, TablesOK(tb), NEW k
  PROVE  /\ StatsUnder(tb, k) \in SUBSET Slots
         /\ Lengths(tb, k) \in [StatsUnder(tb, k) -> Nat]
BY DEF TablesOK, Stats, Lengths, StatsUnder

\* A corpus that was just written covers its statistics.
LEMMA ExactCovers ==
  ASSUME NEW tb, TablesOK(tb), NEW k \in Configs, NEW S \in SUBSET Slots,
         StatsUnder(tb, k) \subseteq S,
         tb.df = Frequency(tb.terms, S),
         tb.corpus = Summary(tb, k)
  PROVE  Covers(tb)
<1> DEFINE D == StatsUnder(tb, k)
           f == Lengths(tb, k)
<1>1. D \in SUBSET Slots /\ f \in [D -> Nat]
  BY LengthsTyped
<1>2. \A s \in D : f[s] = tb.stats[s].length
  BY DEF Lengths
<1>3. ASSUME NEW w \in Terms
      PROVE  tb.df[w] >= Cardinality({s \in D : w \in tb.terms[s]})
  <2>1. tb.df[w] = Cardinality({s \in S : w \in tb.terms[s]})
    BY DEF Frequency
  <2>2. {s \in D : w \in tb.terms[s]} \subseteq {s \in S : w \in tb.terms[s]}
    OBVIOUS
  <2>3. /\ IsFiniteSet({s \in S : w \in tb.terms[s]})
        /\ Cardinality({s \in S : w \in tb.terms[s]}) \in Nat
        /\ Cardinality({s \in D : w \in tb.terms[s]}) \in Nat
    BY PartsAreFinite
  <2>4. Cardinality({s \in D : w \in tb.terms[s]})
          <= Cardinality({s \in S : w \in tb.terms[s]})
    BY <2>2, <2>3, FS_Subset
  <2>5. QED
    BY <2>1, <2>3, <2>4
<1>4. tb.corpus = Corpus(k, f)
  BY DEF Summary
<1> HIDE DEF D, f
<1>5. QED
  BY <1>1, <1>2, <1>3, <1>4 DEF Covers, D

\* Tables a have lost rows, and their corpus has not been written since.
Shrunk(a, b) ==
  /\ b.df = a.df
  /\ b.corpus = a.corpus
  /\ \A s \in Slots : \/ b.stats[s] = NoStats
                      \/ b.stats[s] = a.stats[s] /\ b.terms[s] = a.terms[s]

\* Rows may disappear from under a corpus that covers them.
LEMMA ShrinkCovers ==
  ASSUME NEW a, TablesOK(a), Covers(a), NEW b, TablesOK(b), Shrunk(a, b)
  PROVE  Covers(b)
<1> USE DEF Shrunk
<1> SUFFICES ASSUME b.corpus # NoCorpus
             PROVE  \E k \in Configs, D \in SUBSET Slots : \E f \in [D -> Nat] :
                      /\ b.corpus = Corpus(k, f)
                      /\ \A s \in StatsUnder(b, k) :
                           s \in D /\ f[s] = b.stats[s].length
                      /\ \A w \in Terms : b.df[w] >=
                           Cardinality({s \in StatsUnder(b, k) : w \in b.terms[s]})
  BY DEF Covers
<1>1. PICK k \in Configs, D \in SUBSET Slots : \E f \in [D -> Nat] :
        /\ a.corpus = Corpus(k, f)
        /\ \A s \in StatsUnder(a, k) : s \in D /\ f[s] = a.stats[s].length
        /\ \A w \in Terms : a.df[w] >=
             Cardinality({s \in StatsUnder(a, k) : w \in a.terms[s]})
  BY DEF Covers
<1>2. /\ StatsUnder(b, k) \subseteq StatsUnder(a, k)
      /\ \A s \in StatsUnder(b, k) : /\ b.stats[s] = a.stats[s]
                                     /\ b.terms[s] = a.terms[s]
  <2>1. NoStats.config \notin Configs
    BY DEF NoStats
  <2>2. QED
    BY <2>1 DEF StatsUnder
<1>3. ASSUME NEW w \in Terms,
             a.df[w] >= Cardinality({s \in StatsUnder(a, k) : w \in a.terms[s]})
      PROVE  b.df[w] >= Cardinality({s \in StatsUnder(b, k) : w \in b.terms[s]})
  <2>1. {s \in StatsUnder(b, k) : w \in b.terms[s]}
          \subseteq {s \in StatsUnder(a, k) : w \in a.terms[s]}
    BY <1>2
  <2>2. /\ IsFiniteSet({s \in StatsUnder(a, k) : w \in a.terms[s]})
        /\ Cardinality({s \in StatsUnder(a, k) : w \in a.terms[s]}) \in Nat
        /\ Cardinality({s \in StatsUnder(b, k) : w \in b.terms[s]}) \in Nat
    BY PartsAreFinite, LengthsTyped
  <2>3. Cardinality({s \in StatsUnder(b, k) : w \in b.terms[s]})
          <= Cardinality({s \in StatsUnder(a, k) : w \in a.terms[s]})
    BY <2>1, <2>2, FS_Subset
  <2>4. b.df[w] \in Nat
    BY DEF TablesOK
  <2>5. QED
    BY <1>3, <2>2, <2>3, <2>4
<1>4. PICK f \in [D -> Nat] :
        /\ a.corpus = Corpus(k, f)
        /\ \A s \in StatsUnder(a, k) : s \in D /\ f[s] = a.stats[s].length
        /\ \A w \in Terms : a.df[w] >=
             Cardinality({s \in StatsUnder(a, k) : w \in a.terms[s]})
  BY <1>1
<1>5. \A s \in StatsUnder(b, k) : s \in D /\ f[s] = b.stats[s].length
  BY <1>2, <1>4
<1>6. \A w \in Terms : b.df[w] >=
        Cardinality({s \in StatsUnder(b, k) : w \in b.terms[s]})
  BY <1>3, <1>4
<1>7. b.corpus = Corpus(k, f)
  BY <1>4
<1>8. QED
  BY <1>5, <1>6, <1>7

\* What the trigger leaves covers its statistics too.
LEMMA RecountedCovers ==
  ASSUME NEW tb, TablesOK(tb), NEW k \in Configs, Recounted(tb, k)
  PROVE  Covers(tb)
<1>1. CASE tb.corpus = NoCorpus
  BY <1>1 DEF Covers
<1>2. CASE tb.corpus = Summary(tb, k)
  BY <1>2, ExactCovers, LengthsTyped DEF Recounted
<1>3. QED
  BY <1>1, <1>2 DEF Recounted

LEMMA CorpusFields ==
  ASSUME NEW k, NEW f
  PROVE  /\ Corpus(k, f).config = k
         /\ Corpus(k, f).count = Cardinality(DOMAIN f)
BY DEF Corpus

\* Equal counts leave no room between what a corpus sums up and what is there.
LEMMA CoveredReadiness ==
  ASSUME Typed, RowsFit, Covers(tables)
  PROVE  ReadyFindsEveryChunk
<1> SUFFICES ASSUME NEW k \in Configs, Ready(tables, k)
             PROVE  /\ \A s \in Searchable : tables.terms[s] = chunk[s].words
                    /\ \A w \in Terms : tables.df[w] >=
                         Cardinality({s \in Searchable : w \in chunk[s].words})
                    /\ tables.corpus = Summary(tables, k)
  BY DEF ReadyFindsEveryChunk
<1> DEFINE current == StatsUnder(tables, k)
<1>1. /\ Searchable \subseteq current
      /\ tables.corpus.config = k
      /\ tables.corpus.count = Cardinality(current)
  BY DEF Ready
<1>2. TablesOK(tables) /\ current \in SUBSET Slots
  BY LengthsTyped DEF Typed
<1>3. tables.corpus # NoCorpus
  BY <1>1 DEF NoCorpus
<1>4. PICK j \in Configs, D \in SUBSET Slots : \E f \in [D -> Nat] :
        /\ tables.corpus = Corpus(j, f)
        /\ \A s \in StatsUnder(tables, j) :
             s \in D /\ f[s] = tables.stats[s].length
        /\ \A w \in Terms : tables.df[w] >=
             Cardinality({s \in StatsUnder(tables, j) : w \in tables.terms[s]})
  BY <1>3 DEF Covers
<1>5. PICK f \in [D -> Nat] :
        /\ tables.corpus = Corpus(j, f)
        /\ \A s \in StatsUnder(tables, j) :
             s \in D /\ f[s] = tables.stats[s].length
        /\ \A w \in Terms : tables.df[w] >=
             Cardinality({s \in StatsUnder(tables, j) : w \in tables.terms[s]})
  BY <1>4
<1>6. j = k /\ Cardinality(D) = Cardinality(current)
  BY <1>1, <1>5, CorpusFields
<1>7. D = current
  BY <1>2, <1>5, <1>6, PartsAreFinite, FS_Subset
<1>8. f = Lengths(tables, k)
  BY <1>5, <1>6, <1>7 DEF Lengths
<1>9. ASSUME NEW s \in Searchable
      PROVE  tables.terms[s] = chunk[s].words
  BY <1>1, <1>2, <1>9 DEF RowsFit, Fit, StatsUnder, NoStats
<1>10. ASSUME NEW w \in Terms
       PROVE  tables.df[w] >=
                Cardinality({s \in Searchable : w \in chunk[s].words})
  <2> DEFINE A == {s \in current : w \in tables.terms[s]}
             B == {s \in Searchable : w \in chunk[s].words}
  <2>1. B \subseteq A
    BY <1>1, <1>9
  <2>2. A \in SUBSET Slots /\ B \in SUBSET Slots
    BY <1>2, <2>1
  <2>3. /\ IsFiniteSet(A) /\ Cardinality(A) \in Nat /\ Cardinality(B) \in Nat
    BY <2>2, PartsAreFinite
  <2>4. Cardinality(B) <= Cardinality(A)
    BY <2>1, <2>3, FS_Subset
  <2>5. tables.df[w] >= Cardinality(A) /\ tables.df[w] \in Nat
    BY <1>2, <1>5, <1>6 DEF TablesOK
  <2>6. QED
    BY <2>3, <2>4, <2>5
<1>11. QED
  BY <1>5, <1>6, <1>8, <1>9, <1>10 DEF Summary

(***************************************************************************)
(* The statements of a refresh and of the index run, on one set of tables. *)
(***************************************************************************)
LEMMA EmptyFields ==
  /\ TablesOK(Empty)
  /\ Empty.stats = [s \in Slots |-> NoStats]
  /\ Empty.terms = [s \in Slots |-> {}]
  /\ Empty.corpus = NoCorpus
BY DEF Empty, TablesOK, Stats, NoStats

LEMMA WithoutTermsFields ==
  ASSUME NEW tb, TablesOK(tb), NEW S \in SUBSET Slots
  PROVE  LET new == WithoutTerms(tb, S)
         IN /\ TablesOK(new)
            /\ new.stats = tb.stats
            /\ new.terms = [s \in Slots |-> IF s \in S THEN {} ELSE tb.terms[s]]
            /\ new.df = tb.df
            /\ new.corpus = tb.corpus
<1> DEFINE tm == [s \in Slots |-> IF s \in S THEN {} ELSE tb.terms[s]]
           new == WithoutTerms(tb, S)
<1>1. new = [tb EXCEPT !.terms = tm]
  BY DEF WithoutTerms
<1>2. tm \in [Slots -> SUBSET Terms]
  BY DEF TablesOK
<1> HIDE DEF tm, new
<1>3. /\ new = [stats |-> tb.stats, terms |-> tm, df |-> tb.df,
                corpus |-> tb.corpus]
      /\ new.stats = tb.stats
      /\ new.terms = tm
      /\ new.df = tb.df
      /\ new.corpus = tb.corpus
  BY <1>1 DEF TablesOK
<1>4. TablesOK(new)
  BY <1>2, <1>3 DEF TablesOK
<1>5. QED
  BY <1>3, <1>4 DEF tm, new

\* The rows of S are those of its words; the others are as they were.
RowsWritten(old, new, S, words, k) ==
  /\ \A s \in S :
       /\ new.stats[s] = [config |-> k, length |-> Cardinality(words[s].words)]
       /\ new.terms[s] = words[s].words
  /\ \A s \in Slots \ S :
       /\ new.stats[s] = old.stats[s]
       /\ new.terms[s] = old.terms[s]

LEMMA IndexedFields ==
  ASSUME NEW tb, TablesOK(tb), NEW S \in SUBSET Slots, NEW k \in Configs,
         NEW words \in [Slots -> Chunk \cup {NoChunk}]
  PROVE  LET new == Indexed(tb, S, words, k)
         IN /\ TablesOK(new)
            /\ RowsWritten(tb, new, S, words, k)
<1> DEFINE st == [s \in Slots |-> IF s \in S
                    THEN [config |-> k, length |-> Cardinality(words[s].words)]
                    ELSE tb.stats[s]]
           tm == [s \in Slots |-> IF s \in S THEN words[s].words ELSE tb.terms[s]]
           new == Indexed(tb, S, words, k)
<1>1. new = [tb EXCEPT !.stats = st, !.terms = tm]
  BY DEF Indexed, TablesOK
<1>2. \A s \in Slots : words[s].words \in SUBSET Terms
  BY DEF Chunk, NoChunk
<1>3. \A s \in Slots : Cardinality(words[s].words) \in Nat
  BY <1>2, WordsAreFinite
<1>4. st \in [Slots -> Stats] /\ tm \in [Slots -> SUBSET Terms]
  BY <1>2, <1>3 DEF Stats, TablesOK
<1>5. /\ new = [stats |-> st, terms |-> tm, df |-> tb.df, corpus |-> tb.corpus]
      /\ new.stats = st
      /\ new.terms = tm
      /\ new.df = tb.df
      /\ new.corpus = tb.corpus
  <2> HIDE DEF st, tm, new
  <2>1. QED
    BY <1>1 DEF TablesOK
<1>6. TablesOK(new)
  <2> HIDE DEF st, tm, new
  <2>1. QED
    BY <1>4, <1>5 DEF TablesOK
<1>7. \A s \in Slots : new.stats[s] = st[s] /\ new.terms[s] = tm[s]
  BY <1>5
<1>8. RowsWritten(tb, new, S, words, k)
  BY <1>7 DEF RowsWritten
<1>9. QED
  BY <1>6, <1>8

LEMMA RefreshedFields ==
  ASSUME NEW tb, TablesOK(tb), NEW k \in Configs
  PROVE  LET new == Refreshed(tb, k)
         IN /\ TablesOK(new)
            /\ new.stats = tb.stats
            /\ new.terms = tb.terms
            /\ new.df = Frequency(new.terms, Slots)
            /\ new.corpus = Summary(new, k)
<1> DEFINE f == Frequency(tb.terms, Slots)
           c == Summary(tb, k)
           new == Refreshed(tb, k)
<1>1. new = [tb EXCEPT !.df = f, !.corpus = c]
  BY DEF Refreshed
<1>2. f \in [Terms -> Nat]
  BY FrequencyTyped
<1> HIDE DEF f, c, new
<1>3. /\ new = [stats |-> tb.stats, terms |-> tb.terms, df |-> f, corpus |-> c]
      /\ new.stats = tb.stats
      /\ new.terms = tb.terms
      /\ new.df = f
      /\ new.corpus = c
  BY <1>1 DEF TablesOK
<1>4. TablesOK(new)
  BY <1>2, <1>3 DEF TablesOK
<1>5. Summary(new, k) = c
  BY <1>3 DEF Summary, Lengths, StatsUnder, c
<1>6. QED
  BY <1>3, <1>4, <1>5 DEF f, new

\* A transaction of the index run that replaces the chunks of some documents.
LEMMA ReplaceChunksFields ==
  ASSUME Typed, RowsFit, NEW D \in SUBSET Docs, NEW new, ReplaceChunks(D, new)
  PROVE  LET S == SlotsOf(D)
         IN /\ S \in SUBSET Slots
            /\ TablesOK(tables')
            /\ tables'.stats =
                 [s \in Slots |-> IF s \in S THEN NoStats ELSE tables.stats[s]]
            /\ tables'.terms =
                 [s \in Slots |-> IF s \in S THEN {} ELSE tables.terms[s]]
            /\ chunk' = [s \in Slots |-> IF s \in S THEN new[s] ELSE chunk[s]]
            /\ \A t \in Refreshers : mine[t] \cap S = {}
            /\ Covers(tables) => Covers(tables')
<1> DEFINE S == SlotsOf(D)
           cut == WithoutTerms(tables, S)
<1>1. S \in SUBSET Slots
  BY DEF SlotsOf
<1>2. /\ TablesOK(cut)
      /\ cut.stats = tables.stats
      /\ cut.terms = [s \in Slots |-> IF s \in S THEN {} ELSE tables.terms[s]]
      /\ cut.df = tables.df
      /\ cut.corpus = tables.corpus
  BY <1>1, WithoutTermsFields DEF Typed
<1>3. /\ tables' \in WithoutStats(cut, S)
      /\ chunk' = [s \in Slots |-> IF s \in S THEN new[s] ELSE chunk[s]]
      /\ Holders(S) = {}
  BY DEF ReplaceChunks
<1> HIDE DEF cut, S
<1>4. /\ TablesOK(tables')
      /\ tables'.terms = cut.terms
      /\ tables'.stats =
           [s \in Slots |-> IF s \in S THEN NoStats ELSE tables.stats[s]]
      /\ \/ tables' = cut
         \/ \E s \in S : /\ tables.stats[s] # NoStats
                         /\ Recounted(tables', tables.stats[s].config)
  BY <1>1, <1>2, <1>3, Deletion
<1>5. \A t \in Refreshers : mine[t] \cap S = {}
  BY <1>3 DEF Holders
<1>6. ASSUME Covers(tables)
      PROVE  Covers(tables')
  <2>1. CASE tables' = cut
    <3>1. Shrunk(tables, tables')
      BY <1>2, <1>4, <2>1 DEF Shrunk
    <3>2. TablesOK(tables)
      BY DEF Typed
    <3>3. QED
      BY <1>4, <1>6, <3>1, <3>2, ShrinkCovers
  <2>2. ASSUME NEW k \in Configs, Recounted(tables', k)
        PROVE  Covers(tables')
    BY <1>4, <2>2, RecountedCovers
  <2>3. QED
    BY <1>1, <1>4, <2>1, <2>2 DEF RowsFit, Fit
<1>7. tables'.terms = [s \in Slots |-> IF s \in S THEN {} ELSE tables.terms[s]]
  BY <1>2, <1>4
<1>8. QED
  BY <1>1, <1>3, <1>4, <1>5, <1>6, <1>7 DEF S

LEMMA ResetTyped ==
  ASSUME Typed, NEW t \in Refreshers, Reset(t)
  PROVE  /\ pc' \in [Refreshers -> Stages]
         /\ config' \in [Refreshers -> Configs \cup {NoConfig}]
         /\ batch' \in [Refreshers -> [Slots -> Chunk \cup {NoChunk}]]
         /\ own' = [u \in Refreshers |-> own'[u]]
         /\ \A u \in Refreshers : TablesOK(own'[u])
         /\ mine' \in [Refreshers -> SUBSET Slots]
         /\ wrote' \in [Refreshers -> BOOLEAN]
         /\ \A u \in Refreshers : u # t => /\ pc'[u] = pc[u]
                                           /\ config'[u] = config[u]
                                           /\ own'[u] = own[u]
                                           /\ mine'[u] = mine[u]
                                           /\ wrote'[u] = wrote[u]
         /\ pc'[t] = "idle" /\ mine'[t] = {}
<1>1. TablesOK(Empty)
  BY EmptyFields
<1>2. \A u \in Refreshers : own'[u] = IF u = t THEN Empty ELSE own[u]
  BY DEF Typed, Reset
<1>3. \A u \in Refreshers : TablesOK(own'[u])
  BY <1>1, <1>2 DEF Typed
<1>4. own' = [u \in Refreshers |-> own'[u]]
  BY DEF Typed, Reset
<1>5. QED
  BY <1>2, <1>3, <1>4 DEF Typed, Reset, Goto, Stages

\* A refresh has executed a statement that turned its view into tb.
LEMMA OwnTyped ==
  ASSUME Typed, NEW t \in Refreshers, NEW tb, TablesOK(tb),
         own' = [own EXCEPT ![t] = tb]
  PROVE  /\ own' = [u \in Refreshers |-> own'[u]]
         /\ \A u \in Refreshers : TablesOK(own'[u])
         /\ own'[t] = tb
         /\ \A u \in Refreshers : u # t => own'[u] = own[u]
<1>1. \A u \in Refreshers : own'[u] = IF u = t THEN tb ELSE own[u]
  BY DEF Typed
<1>2. own' = [u \in Refreshers |-> own'[u]]
  BY DEF Typed
<1>3. QED
  BY <1>1, <1>2 DEF Typed

LEMMA TypedStep == IInv /\ [Next]_vars => Typed'
<1> SUFFICES ASSUME IInv, [Next]_vars
             PROVE  Typed'
  OBVIOUS
<1> USE DEF IInv
<1>1. ASSUME NEW d \in Docs, Store(d)
      PROVE  Typed'
  <2>1. PICK new \in [SlotsOf({d}) -> Chunk \cup {NoChunk}] :
          ReplaceChunks({d}, new)
    BY <1>1 DEF Store
  <2>2. /\ TablesOK(tables')
        /\ chunk' = [s \in Slots |-> IF s \in SlotsOf({d}) THEN new[s]
                                                          ELSE chunk[s]]
    <3>1. {d} \in SUBSET Docs
      OBVIOUS
    <3>2. QED
      BY <2>1, <3>1, ReplaceChunksFields
  <2>3. QED
    BY <1>1, <2>2 DEF Typed, Store
<1>2. ASSUME NEW d \in Docs, MarkIndexed(d) \/ MarkOther(d)
      PROVE  Typed'
  BY <1>2 DEF Typed, MarkIndexed, MarkOther
<1>3. ASSUME NEW D \in SUBSET Docs, Purge(D)
      PROVE  Typed'
  <2> DEFINE new == [s \in SlotsOf(D) |-> NoChunk]
  <2>1. /\ TablesOK(tables')
        /\ chunk' = [s \in Slots |-> IF s \in SlotsOf(D) THEN new[s] ELSE chunk[s]]
    BY <1>3, ReplaceChunksFields DEF Purge
  <2>2. QED
    BY <1>3, <2>1 DEF Typed, Purge
<1>4. ASSUME NEW t \in Refreshers, NEW k \in Configs, NEW force \in BOOLEAN,
             Begin(t, k, force)
      PROVE  Typed'
  BY <1>4 DEF Typed, Begin, Goto, Stages, index
<1>5. ASSUME NEW t \in Refreshers, Rebuild(t)
      PROVE  Typed'
  <2>1. TablesOK(Erased)
    BY EmptyFields DEF Erased
  <2>2. /\ own' = [u \in Refreshers |-> own'[u]]
        /\ \A u \in Refreshers : TablesOK(own'[u])
    BY <1>5, <2>1, OwnTyped DEF Rebuild
  <2>3. mine' \in [Refreshers -> SUBSET Slots]
    BY <1>5 DEF Typed, Rebuild, Differ
  <2>4. wrote' \in [Refreshers -> BOOLEAN]
    BY <1>5 DEF Typed, Rebuild
  <2>5. pc' \in [Refreshers -> Stages]
    BY <1>5 DEF Typed, Rebuild, Goto, Stages
  <2>6. QED
    BY <1>5, <2>2, <2>3, <2>4, <2>5 DEF Typed, Rebuild, index
<1>6. ASSUME NEW t \in Refreshers, Clean(t)
      PROVE  Typed'
  <2>1. PICK tb \in WithoutStats(View(t), Unindexed) : Executed(t, tb)
    BY <1>6 DEF Clean
  <2>2. TablesOK(tb)
    BY <2>1, ViewTyped, Deletion DEF Unindexed, Present
  <2>3. /\ own' = [u \in Refreshers |-> own'[u]]
        /\ \A u \in Refreshers : TablesOK(own'[u])
    BY <2>1, <2>2, OwnTyped DEF Executed
  <2>4. mine' \in [Refreshers -> SUBSET Slots]
    BY <2>1 DEF Typed, Executed, Differ
  <2>5. wrote' \in [Refreshers -> BOOLEAN]
    <3> DEFINE changed == View(t).stats # tb.stats
    <3>1. wrote' = [wrote EXCEPT ![t] = wrote[t] \/ changed]
      BY <2>1 DEF Executed
    <3> HIDE DEF changed
    <3>2. QED
      BY <3>1 DEF Typed
  <2>6. pc' \in [Refreshers -> Stages]
    BY <1>6 DEF Typed, Clean, Goto, Stages
  <2>7. QED
    BY <1>6, <2>3, <2>4, <2>5, <2>6 DEF Typed, Clean, index
<1>7. ASSUME NEW t \in Refreshers, List(t)
      PROVE  Typed'
  BY <1>7 DEF Typed, List, Listed, Goto, Stages, index
<1>8. ASSUME NEW t \in Refreshers, Write(t)
      PROVE  Typed'
  <2> DEFINE tb == Indexed(View(t), Batch(t), batch[t], config[t])
  <2>1. config[t] \in Configs
    BY <1>8 DEF Write, Control
  <2>2. Batch(t) \in SUBSET Slots
    BY DEF Batch
  <2>3. TablesOK(tb)
    BY <2>1, <2>2, ViewTyped, IndexedFields DEF Typed
  <2>4. /\ own' = [u \in Refreshers |-> own'[u]]
        /\ \A u \in Refreshers : TablesOK(own'[u])
    BY <1>8, <2>3, OwnTyped DEF Write
  <2>5. mine' \in [Refreshers -> SUBSET Slots]
    BY <1>8, <2>2 DEF Typed, Write
  <2>6. QED
    BY <1>8, <2>4, <2>5 DEF Typed, Write, Goto, Stages, index
<1>9. ASSUME NEW t \in Refreshers, Refresh(t)
      PROVE  Typed'
  <2>1. config[t] \in Configs
    BY <1>9 DEF Refresh, Control
  <2>2. TablesOK(Refreshed(View(t), config[t]))
    BY <2>1, ViewTyped, RefreshedFields
  <2>3. /\ own' = [u \in Refreshers |-> own'[u]]
        /\ \A u \in Refreshers : TablesOK(own'[u])
    BY <1>9, <2>2, OwnTyped DEF Refresh
  <2>4. QED
    BY <1>9, <2>3 DEF Typed, Refresh, Goto, Stages, index
<1>10. ASSUME NEW t \in Refreshers, Commit(t)
       PROVE  Typed'
  <2>1. Reset(t) /\ tables' = View(t) /\ UNCHANGED <<status, chunk>>
    BY <1>10 DEF Commit, index
  <2>2. TablesOK(tables')
    BY <2>1, ViewTyped
  <2>3. QED
    BY <2>1, <2>2, ResetTyped DEF Typed
<1>11. ASSUME NEW t \in Refreshers, Abort(t)
       PROVE  Typed'
  <2>1. Reset(t) /\ UNCHANGED <<status, chunk, tables>>
    BY <1>11 DEF Abort, index
  <2>2. QED
    BY <2>1, ResetTyped DEF Typed
<1>12. CASE UNCHANGED vars
  BY <1>12 DEF Typed, vars
<1>13. QED
  BY <1>1, <1>2, <1>3, <1>4, <1>5, <1>6, <1>7, <1>8, <1>9, <1>10, <1>11, <1>12
  DEF Next, Proceed

LEMMA ControlStep == IInv /\ [Next]_vars => Control'
<1> SUFFICES ASSUME IInv, [Next]_vars
             PROVE  Control'
  OBVIOUS
<1> USE DEF IInv
<1>1. ASSUME NEW d \in Docs, Store(d) \/ MarkIndexed(d) \/ MarkOther(d)
      PROVE  Control'
  BY <1>1 DEF Control, Store, MarkIndexed, MarkOther
<1>2. ASSUME NEW D \in SUBSET Docs, Purge(D)
      PROVE  Control'
  BY <1>2 DEF Control, Purge
<1>3. ASSUME NEW t \in Refreshers, NEW k \in Configs, NEW force \in BOOLEAN,
             Begin(t, k, force)
      PROVE  Control'
  BY <1>3 DEF Control, Typed, Begin, Goto
<1>4. ASSUME NEW t \in Refreshers, Rebuild(t)
      PROVE  Control'
  BY <1>4 DEF Control, Typed, Rebuild, Goto
<1>5. ASSUME NEW t \in Refreshers, Clean(t)
      PROVE  Control'
  BY <1>5 DEF Control, Typed, Clean, Executed, Goto
<1>6. ASSUME NEW t \in Refreshers, List(t) \/ Write(t)
      PROVE  Control'
  <2>1. UNCHANGED <<config, wrote>>
    BY <1>6 DEF List, Write
  <2>2. /\ pc[t] # "idle"
        /\ \E stage \in {"list", "write", "refresh"} : pc' = [pc EXCEPT ![t] = stage]
    BY <1>6 DEF List, Listed, Write, Goto
  <2>3. QED
    BY <2>1, <2>2 DEF Control, Typed
<1>7. ASSUME NEW t \in Refreshers, Refresh(t)
      PROVE  Control'
  <2>1. \A u \in Refreshers : pc[u] = "commit" => u = t
    BY <1>7 DEF Refresh, MayRefresh, Corporeal, Control
  <2>2. QED
    BY <1>7, <2>1 DEF Control, Typed, Refresh, Goto
<1>8. ASSUME NEW t \in Refreshers, Commit(t) \/ Abort(t)
      PROVE  Control'
  <2>1. Reset(t)
    BY <1>8 DEF Commit, Abort
  <2>2. /\ pc'[t] = "idle"
        /\ \A u \in Refreshers : u # t => /\ pc'[u] = pc[u]
                                          /\ config'[u] = config[u]
                                          /\ wrote'[u] = wrote[u]
    BY <2>1, ResetTyped
  <2>3. QED
    BY <2>2 DEF Control
<1>9. CASE UNCHANGED vars
  BY <1>9 DEF Control, vars
<1>10. QED
  BY <1>1, <1>2, <1>3, <1>4, <1>5, <1>6, <1>7, <1>8, <1>9 DEF Next, Proceed

\* The chunks of some documents are replaced: no open transaction holds their rows.
LEMMA ReplacedFits ==
  ASSUME Typed, RowsFit, NEW D \in SUBSET Docs, NEW new, ReplaceChunks(D, new),
         UNCHANGED <<own, mine>>
  PROVE  RowsFit'
<1> DEFINE S == SlotsOf(D)
<1>1. /\ tables'.stats = [s \in Slots |-> IF s \in S THEN NoStats ELSE tables.stats[s]]
      /\ tables'.terms = [s \in Slots |-> IF s \in S THEN {} ELSE tables.terms[s]]
      /\ chunk' = [s \in Slots |-> IF s \in S THEN new[s] ELSE chunk[s]]
      /\ \A t \in Refreshers : mine[t] \cap S = {}
  BY ReplaceChunksFields
<1> HIDE DEF S
<1>2. ASSUME NEW s \in Slots
      PROVE  Fit(tables, s)'
  <2>1. CASE s \in S
    BY <1>1, <2>1 DEF Fit
  <2>2. CASE s \notin S
    BY <1>1, <2>2 DEF RowsFit, Fit
  <2>3. QED
    BY <2>1, <2>2
<1>3. ASSUME NEW s \in Slots, NEW t \in Refreshers, s \in mine[t]
      PROVE  Fit(own[t], s)'
  <2>1. s \notin S
    BY <1>1, <1>3
  <2>2. QED
    BY <1>1, <1>3, <2>1 DEF RowsFit, Fit
<1>4. QED
  BY <1>2, <1>3 DEF RowsFit

\* A refresh has executed a statement after which its own rows fit.
LEMMA OwnFits ==
  ASSUME Typed, RowsFit, NEW t \in Refreshers, NEW tb, TablesOK(tb),
         own' = [own EXCEPT ![t] = tb],
         \A u \in Refreshers : u # t => mine'[u] = mine[u],
         \A s \in Slots : s \in mine'[t] => Fit(tb, s),
         UNCHANGED <<chunk, tables>>
  PROVE  RowsFit'
<1>1. own'[t] = tb /\ \A u \in Refreshers : u # t => own'[u] = own[u]
  BY OwnTyped
<1>2. ASSUME NEW s \in Slots
      PROVE  Fit(tables, s)'
  BY DEF RowsFit, Fit
<1>3. ASSUME NEW s \in Slots, NEW u \in Refreshers, s \in mine'[u]
      PROVE  Fit(own[u], s)'
  <2>1. CASE u = t
    BY <1>1, <1>3, <2>1 DEF Fit
  <2>2. CASE u # t
    BY <1>1, <1>3, <2>2 DEF RowsFit, Fit
  <2>3. QED
    BY <2>1, <2>2
<1>4. QED
  BY <1>2, <1>3 DEF RowsFit

LEMMA FitStep == IInv /\ [Next]_vars => RowsFit'
<1> SUFFICES ASSUME IInv, [Next]_vars
             PROVE  RowsFit'
  OBVIOUS
<1> USE DEF IInv
<1>1. ASSUME NEW d \in Docs, Store(d)
      PROVE  RowsFit'
  <2>1. {d} \in SUBSET Docs
    OBVIOUS
  <2>2. QED
    BY <1>1, <2>1, ReplacedFits DEF Store
<1>2. ASSUME NEW d \in Docs, MarkIndexed(d) \/ MarkOther(d)
      PROVE  RowsFit'
  BY <1>2 DEF RowsFit, Fit, MarkIndexed, MarkOther
<1>3. ASSUME NEW D \in SUBSET Docs, Purge(D)
      PROVE  RowsFit'
  BY <1>3, ReplacedFits DEF Purge
<1>4. ASSUME NEW t \in Refreshers, NEW k \in Configs, NEW force \in BOOLEAN,
             Begin(t, k, force)
      PROVE  RowsFit'
  BY <1>4 DEF RowsFit, Fit, Begin, index
<1>5. ASSUME NEW t \in Refreshers, Rebuild(t)
      PROVE  RowsFit'
  <2>1. TablesOK(Erased) /\ \A s \in Slots : Fit(Erased, s)
    BY EmptyFields DEF Erased, Fit
  <2>2. \A u \in Refreshers : u # t => mine'[u] = mine[u]
    BY <1>5 DEF Rebuild, Typed
  <2>3. QED
    BY <1>5, <2>1, <2>2, OwnFits DEF Rebuild, index
<1>6. ASSUME NEW t \in Refreshers, Clean(t)
      PROVE  RowsFit'
  <2>1. PICK tb \in WithoutStats(View(t), Unindexed) : Executed(t, tb)
    BY <1>6 DEF Clean
  <2>2. /\ TablesOK(tb)
        /\ tb.terms = View(t).terms
        /\ tb.stats = [s \in Slots |-> IF s \in Unindexed THEN NoStats
                                                         ELSE View(t).stats[s]]
    BY <2>1, ViewTyped, Deletion DEF Unindexed, Present
  <2>3. \A s \in Slots : Fit(tb, s)
    <3>1. ASSUME NEW s \in Slots, s \in Unindexed
          PROVE  Fit(tb, s)
      <4>1. tb.stats[s] = NoStats /\ tb.terms[s] = View(t).terms[s]
        BY <2>2, <3>1
      <4>2. QED
        BY <4>1, ViewFits DEF Fit
    <3>2. ASSUME NEW s \in Slots, s \notin Unindexed
          PROVE  Fit(tb, s)
      <4>1. tb.stats[s] = View(t).stats[s] /\ tb.terms[s] = View(t).terms[s]
        BY <2>2, <3>2
      <4>2. QED
        BY <4>1, ViewFits DEF Fit
    <3>3. QED
      BY <3>1, <3>2
  <2>4. \A u \in Refreshers : u # t => mine'[u] = mine[u]
    BY <2>1 DEF Executed, Typed
  <2>5. own' = [own EXCEPT ![t] = tb]
    BY <2>1 DEF Executed
  <2>6. QED
    BY <1>6, <2>2, <2>3, <2>4, <2>5, OwnFits DEF Clean, index
<1>7. ASSUME NEW t \in Refreshers, List(t)
      PROVE  RowsFit'
  BY <1>7 DEF RowsFit, Fit, List, index
<1>8. ASSUME NEW t \in Refreshers, Write(t)
      PROVE  RowsFit'
  <2> DEFINE tb == Indexed(View(t), Batch(t), batch[t], config[t])
  <2>1. config[t] \in Configs /\ Batch(t) \in SUBSET Slots
    BY <1>8 DEF Write, Control, Batch
  <2>2. /\ TablesOK(tb)
        /\ RowsWritten(View(t), tb, Batch(t), batch[t], config[t])
    <3>1. TablesOK(View(t))
      BY ViewTyped
    <3>2. batch[t] \in [Slots -> Chunk \cup {NoChunk}]
      BY DEF Typed
    <3>3. QED
      BY <2>1, <3>1, <3>2, IndexedFields
  <2> HIDE DEF tb
  <2>3. \A s \in Batch(t) : batch[t][s] = chunk[s] /\ chunk[s] # NoChunk
    BY <1>8 DEF Write, Orphaned, Batch
  <2>4. \A s \in Slots : Fit(tb, s)
    <3>1. ASSUME NEW s \in Batch(t)
          PROVE  Fit(tb, s)
      <4>1. /\ tb.stats[s].config = config[t]
            /\ tb.stats[s].length = Cardinality(chunk[s].words)
            /\ tb.terms[s] = chunk[s].words
            /\ chunk[s] # NoChunk
        <5>1. batch[t][s] = chunk[s] /\ chunk[s] # NoChunk
          BY <2>3
        <5>2. /\ tb.stats[s] = [config |-> config[t],
                                length |-> Cardinality(batch[t][s].words)]
              /\ tb.terms[s] = batch[t][s].words
          BY <2>2 DEF RowsWritten
        <5>3. QED
          BY <5>1, <5>2
      <4>2. QED
        BY <2>1, <4>1 DEF Fit
    <3>2. ASSUME NEW s \in Slots \ Batch(t)
          PROVE  Fit(tb, s)
      <4>1. tb.stats[s] = View(t).stats[s] /\ tb.terms[s] = View(t).terms[s]
        BY <2>2 DEF RowsWritten
      <4>2. QED
        BY <4>1, ViewFits DEF Fit
    <3>3. QED
      BY <3>1, <3>2
  <2>5. \A u \in Refreshers : u # t => mine'[u] = mine[u]
    BY <1>8 DEF Write, Typed
  <2>6. own' = [own EXCEPT ![t] = tb] /\ UNCHANGED <<chunk, tables>>
    BY <1>8 DEF Write, index, tb
  <2>7. QED
    BY <2>2, <2>4, <2>5, <2>6, OwnFits
<1>9. ASSUME NEW t \in Refreshers, Refresh(t)
      PROVE  RowsFit'
  <2> DEFINE tb == Refreshed(View(t), config[t])
  <2>1. config[t] \in Configs
    BY <1>9 DEF Refresh, Control
  <2>2. /\ TablesOK(tb)
        /\ tb.stats = View(t).stats
        /\ tb.terms = View(t).terms
    BY <2>1, ViewTyped, RefreshedFields
  <2> HIDE DEF tb
  <2>3. \A s \in Slots : Fit(tb, s)
    BY <2>2, ViewFits DEF Fit
  <2>4. own' = [own EXCEPT ![t] = tb] /\ UNCHANGED <<chunk, tables, mine>>
    BY <1>9 DEF Refresh, index, tb
  <2>5. QED
    BY <2>2, <2>3, <2>4, OwnFits
<1>10. ASSUME NEW t \in Refreshers, Commit(t)
       PROVE  RowsFit'
  <2>1. Reset(t) /\ tables' = View(t) /\ UNCHANGED chunk
    BY <1>10 DEF Commit, index
  <2>2. \A s \in Slots : Fit(tables, s)'
    BY <2>1, ViewFits DEF Fit
  <2>3. \A s \in Slots, u \in Refreshers : s \in mine'[u] => Fit(own[u], s)'
    BY <2>1, ResetTyped DEF RowsFit, Fit
  <2>4. QED
    BY <2>2, <2>3 DEF RowsFit
<1>11. ASSUME NEW t \in Refreshers, Abort(t)
       PROVE  RowsFit'
  <2>1. Reset(t) /\ UNCHANGED <<chunk, tables>>
    BY <1>11 DEF Abort, index
  <2>2. \A s \in Slots, u \in Refreshers : s \in mine'[u] => Fit(own[u], s)'
    BY <2>1, ResetTyped DEF RowsFit, Fit
  <2>3. QED
    BY <2>1, <2>2 DEF RowsFit, Fit
<1>12. CASE UNCHANGED vars
  BY <1>12 DEF RowsFit, Fit, vars
<1>13. QED
  BY <1>1, <1>2, <1>3, <1>4, <1>5, <1>6, <1>7, <1>8, <1>9, <1>10, <1>11, <1>12
  DEF Next, Proceed

\* A refresh sees the same tables if neither they nor its own rows changed.
LEMMA SameView ==
  ASSUME NEW u \in Refreshers, UNCHANGED tables, own'[u] = own[u],
         mine'[u] = mine[u], wrote'[u] = wrote[u]
  PROVE  View(u)' = View(u)
BY DEF View

\* The view after a step in which nobody else's rows changed but those of t.
LEMMA OnlyOneStep ==
  ASSUME Typed, CorpusCovers, NEW t \in Refreshers,
         UNCHANGED tables,
         \A u \in Refreshers : u # t => /\ pc'[u] = pc[u]
                                        /\ own'[u] = own[u]
                                        /\ mine'[u] = mine[u]
                                        /\ wrote'[u] = wrote[u],
         pc'[t] = "commit" => Covers(View(t))'
  PROVE  CorpusCovers'
<1>1. Covers(tables)'
  BY DEF CorpusCovers
<1>2. ASSUME NEW u \in Refreshers, pc'[u] = "commit"
      PROVE  Covers(View(u))'
  <2>1. CASE u = t
    BY <1>2, <2>1
  <2>2. CASE u # t
    <3>1. View(u)' = View(u)
      BY <2>2, SameView
    <3>2. pc[u] = "commit"
      BY <1>2, <2>2
    <3>3. QED
      BY <3>1, <3>2 DEF CorpusCovers
  <2>3. QED
    BY <2>1, <2>2
<1>3. QED
  BY <1>1, <1>2 DEF CorpusCovers

LEMMA SameCovers ==
  ASSUME CorpusCovers, UNCHANGED <<tables, pc, own, mine, wrote>>
  PROVE  CorpusCovers'
<1>1. \A u \in Refreshers : View(u)' = View(u)
  BY SameView
<1>2. QED
  BY <1>1 DEF CorpusCovers

\* Rows deleted beside a refresh that is about to commit.
LEMMA ReplacedCovers ==
  ASSUME IInv, NEW D \in SUBSET Docs, NEW new, ReplaceChunks(D, new),
         UNCHANGED <<pc, own, mine, wrote>>
  PROVE  CorpusCovers'
<1> USE DEF IInv
<1> DEFINE S == SlotsOf(D)
<1>1. /\ TablesOK(tables')
      /\ tables'.stats = [s \in Slots |-> IF s \in S THEN NoStats ELSE tables.stats[s]]
      /\ tables'.terms = [s \in Slots |-> IF s \in S THEN {} ELSE tables.terms[s]]
      /\ Covers(tables) => Covers(tables')
  BY ReplaceChunksFields
<1>2. Covers(tables)'
  BY <1>1 DEF CorpusCovers
<1> HIDE DEF S
<1>3. ASSUME NEW u \in Refreshers, pc'[u] = "commit"
      PROVE  Covers(View(u))'
  <2>1. pc[u] = "commit" /\ wrote[u]
    BY <1>3 DEF Control
  <2>2. TablesOK(View(u)) /\ Covers(View(u))
    BY <2>1, ViewTyped DEF CorpusCovers
  <2>3. TablesOK(own[u])
    BY DEF Typed
  <2>4. TablesOK(View(u)')
    BY <1>1, <2>3 DEF View, TablesOK
  <2>5. Shrunk(View(u), View(u)')
    <3>1. View(u)'.df = View(u).df /\ View(u)'.corpus = View(u).corpus
      BY <2>1 DEF View
    <3>2. \A s \in Slots : \/ View(u)'.stats[s] = NoStats
                           \/ /\ View(u)'.stats[s] = View(u).stats[s]
                              /\ View(u)'.terms[s] = View(u).terms[s]
      BY <1>1 DEF View
    <3>3. QED
      BY <3>1, <3>2 DEF Shrunk
  <2>6. QED
    BY <2>2, <2>4, <2>5, ShrinkCovers
<1>4. QED
  BY <1>2, <1>3 DEF CorpusCovers

\* After its last statement a refresh sees the corpus it has just written.
LEMMA RefreshedView ==
  ASSUME Typed, NEW t \in Refreshers, Refresh(t), config[t] \in Configs
  PROVE  View(t)' = Refreshed(View(t), config[t])
<1> DEFINE tb == Refreshed(View(t), config[t])
<1>1. /\ TablesOK(tb)
      /\ tb.stats = View(t).stats
      /\ tb.terms = View(t).terms
  BY ViewTyped, RefreshedFields
<1>2. /\ own' = [own EXCEPT ![t] = tb]
      /\ wrote' = [wrote EXCEPT ![t] = TRUE]
      /\ UNCHANGED <<tables, mine>>
  BY DEF Refresh, index
<1> HIDE DEF tb
<1>3. own'[t] = tb
  BY <1>1, <1>2, OwnTyped
<1>4. View(t)'.stats = tb.stats /\ View(t)'.terms = tb.terms
  BY <1>1, <1>2, <1>3 DEF View, TablesOK
<1>5. View(t)'.df = tb.df /\ View(t)'.corpus = tb.corpus
  BY <1>2, <1>3 DEF View, Typed
<1>6. View(t)' = [stats |-> View(t)'.stats, terms |-> View(t)'.terms,
                  df |-> View(t)'.df, corpus |-> View(t)'.corpus]
  BY DEF View
<1>7. View(t)' = tb
  BY <1>1, <1>4, <1>5, <1>6 DEF TablesOK
<1>8. QED
  BY <1>7 DEF tb

LEMMA CoverStep == IInv /\ [Next]_vars => CorpusCovers'
<1> SUFFICES ASSUME IInv, [Next]_vars
             PROVE  CorpusCovers'
  OBVIOUS
<1> USE DEF IInv
<1>1. ASSUME NEW d \in Docs, Store(d)
      PROVE  CorpusCovers'
  <2>1. {d} \in SUBSET Docs
    OBVIOUS
  <2>2. QED
    BY <1>1, <2>1, ReplacedCovers DEF Store
<1>2. ASSUME NEW d \in Docs, MarkIndexed(d) \/ MarkOther(d)
      PROVE  CorpusCovers'
  BY <1>2, SameCovers DEF MarkIndexed, MarkOther
<1>3. ASSUME NEW D \in SUBSET Docs, Purge(D)
      PROVE  CorpusCovers'
  BY <1>3, ReplacedCovers DEF Purge
<1>4. ASSUME NEW t \in Refreshers, NEW k \in Configs, NEW force \in BOOLEAN,
             Begin(t, k, force)
      PROVE  CorpusCovers'
  BY <1>4, OnlyOneStep DEF Typed, Begin, Goto, index
<1>5. ASSUME NEW t \in Refreshers, Rebuild(t)
      PROVE  CorpusCovers'
  BY <1>5, OnlyOneStep DEF Typed, Rebuild, Goto, index
<1>6. ASSUME NEW t \in Refreshers, Clean(t)
      PROVE  CorpusCovers'
  <2>1. PICK tb : Executed(t, tb)
    BY <1>6 DEF Clean
  <2>2. \A u \in Refreshers : u # t => /\ own'[u] = own[u]
                                       /\ mine'[u] = mine[u]
                                       /\ wrote'[u] = wrote[u]
    BY <2>1 DEF Executed, Typed
  <2>3. /\ \A u \in Refreshers : u # t => pc'[u] = pc[u]
        /\ pc'[t] = "list"
        /\ UNCHANGED tables
    BY <1>6 DEF Clean, Goto, Typed
  <2>4. QED
    BY <2>2, <2>3, OnlyOneStep
<1>7. ASSUME NEW t \in Refreshers, List(t)
      PROVE  CorpusCovers'
  BY <1>7, OnlyOneStep DEF Typed, List, Listed, Goto, index
<1>8. ASSUME NEW t \in Refreshers, Write(t)
      PROVE  CorpusCovers'
  BY <1>8, OnlyOneStep DEF Typed, Write, Goto, index
<1>9. ASSUME NEW t \in Refreshers, Refresh(t)
      PROVE  CorpusCovers'
  <2> DEFINE tb == Refreshed(View(t), config[t])
  <2>1. config[t] \in Configs
    BY <1>9 DEF Refresh, Control
  <2>2. /\ TablesOK(tb)
        /\ tb.stats = View(t).stats
        /\ tb.terms = View(t).terms
        /\ tb.df = Frequency(tb.terms, Slots)
        /\ tb.corpus = Summary(tb, config[t])
    BY <2>1, ViewTyped, RefreshedFields
  <2>3. Covers(tb)
    BY <2>1, <2>2, ExactCovers, LengthsTyped
  <2>4. View(t)' = tb
    BY <1>9, <2>1, RefreshedView
  <2>5. \A u \in Refreshers : u # t => /\ pc'[u] = pc[u]
                                       /\ own'[u] = own[u]
                                       /\ mine'[u] = mine[u]
                                       /\ wrote'[u] = wrote[u]
    BY <1>9 DEF Refresh, Goto, Typed
  <2>6. UNCHANGED tables
    BY <1>9 DEF Refresh
  <2> HIDE DEF tb
  <2>7. QED
    BY <2>3, <2>4, <2>5, <2>6, OnlyOneStep
<1>10. ASSUME NEW t \in Refreshers, Commit(t)
       PROVE  CorpusCovers'
  <2>1. Reset(t) /\ tables' = View(t) /\ pc[t] = "commit"
    BY <1>10 DEF Commit
  <2>2. Covers(tables)'
    BY <2>1 DEF CorpusCovers
  <2>3. \A u \in Refreshers : pc'[u] # "commit"
    BY <2>1, ResetTyped DEF Control
  <2>4. QED
    BY <2>2, <2>3 DEF CorpusCovers
<1>11. ASSUME NEW t \in Refreshers, Abort(t)
       PROVE  CorpusCovers'
  <2>1. Reset(t) /\ UNCHANGED tables
    BY <1>11 DEF Abort
  <2>2. QED
    BY <2>1, ResetTyped, OnlyOneStep
<1>12. CASE UNCHANGED vars
  BY <1>12, SameCovers DEF vars
<1>13. QED
  BY <1>1, <1>2, <1>3, <1>4, <1>5, <1>6, <1>7, <1>8, <1>9, <1>10, <1>11, <1>12
  DEF Next, Proceed

LEMMA InitialInvariant == Init => IInv
<1> SUFFICES ASSUME Init
             PROVE  IInv
  OBVIOUS
<1>1. Typed
  BY EmptyFields DEF Init, Typed, Stages
<1>2. Control
  BY DEF Init, Control
<1>3. RowsFit
  BY EmptyFields DEF Init, RowsFit, Fit
<1>4. CorpusCovers
  BY EmptyFields DEF Init, CorpusCovers, Covers
<1>5. QED
  BY <1>1, <1>2, <1>3, <1>4 DEF IInv

\* The inductive invariant: committed tables and those of open transactions fit
\* the chunks (lexical/service.py:52), and the corpus covers what is left of them.
THEOREM LexicalInvariant == Spec => []IInv
<1>1. IInv /\ [Next]_vars => IInv'
  BY TypedStep, ControlStep, FitStep, CoverStep DEF IInv
<1>2. QED
  BY <1>1, InitialInvariant, PTL DEF Spec

\* Every variable keeps its type, and a slot without a chunk has no lexical rows,
\* as the foreign keys of migration 20260718082034 promise.
THEOREM TypeCorrect == Spec => []TypeOK
<1>1. IInv => TypeOK
  <2> SUFFICES ASSUME IInv
               PROVE  TypeOK
    OBVIOUS
  <2>1. \A s \in Slots : chunk[s] = NoChunk =>
          tables.stats[s] = NoStats /\ tables.terms[s] = {}
    BY DEF IInv, RowsFit, Fit, NoChunk
  <2>2. QED
    BY <2>1 DEF IInv, Typed, TablesOK, Stats, TypeOK
<1>2. QED
  BY <1>1, LexicalInvariant, PTL

\* Whatever refreshes and index runs do at once, under any configurations: when
\* get_lexical_readiness says that the index is ready, it is complete.
THEOREM ReadyIsComplete == Spec => []ReadyFindsEveryChunk
<1>1. IInv => ReadyFindsEveryChunk
  BY CoveredReadiness DEF IInv, CorpusCovers
<1>2. QED
  BY <1>1, LexicalInvariant, PTL

(***************************************************************************)
(* One configuration.                                                      *)
(***************************************************************************)
OneConfiguration == \E k \in Configs : Configs = {k}

\* Statistics come with a corpus, which is exact, and so is what a refresh is
\* about to commit: every deletion of rows now has corpus rows to wait for.
Exact ==
  /\ \A s \in Slots : tables.stats[s] # NoStats => tables.corpus # NoCorpus
  /\ CorpusMatchesStats
  /\ \A t \in Refreshers : pc[t] = "commit" =>
       View(t).corpus = Summary(View(t), config[t])

LEMMA SummaryOfSame ==
  ASSUME NEW a, NEW b, a.stats = b.stats, NEW k
  PROVE  Summary(a, k) = Summary(b, k)
BY DEF Summary, Lengths, StatsUnder

LEMMA SummaryIsSome ==
  ASSUME NEW tb, NEW k \in Configs
  PROVE  Summary(tb, k) # NoCorpus /\ Summary(tb, k).config = k
BY DEF Summary, Corpus, NoCorpus

\* Deleting chunks leaves the corpus exact, and waits for a refresh that commits.
LEMMA ReplacedExact ==
  ASSUME OneConfiguration, IInv, Exact,
         NEW D \in SUBSET Docs, NEW new, ReplaceChunks(D, new),
         UNCHANGED <<pc, own, mine, wrote, config>>
  PROVE  Exact'
<1> USE DEF IInv
<1> DEFINE S == SlotsOf(D)
           cut == WithoutTerms(tables, S)
<1>1. S \in SUBSET Slots
  BY DEF SlotsOf
<1>2. /\ TablesOK(cut)
      /\ cut.stats = tables.stats
      /\ cut.df = tables.df
      /\ cut.corpus = tables.corpus
  BY <1>1, WithoutTermsFields DEF Typed
<1>3. /\ tables' \in WithoutStats(cut, S)
      /\ ~CorpusBusy(tables, tables', {})
  BY DEF ReplaceChunks
<1>4. TablesOK(tables) /\ RowsFit /\ RowsFit'
  BY ReplacedFits DEF Typed
<1> HIDE DEF cut, S
<1>5. /\ TablesOK(tables')
      /\ tables'.stats =
           [s \in Slots |-> IF s \in S THEN NoStats ELSE tables.stats[s]]
      /\ \/ tables' = cut
         \/ \E s \in S : /\ tables.stats[s] # NoStats
                         /\ Recounted(tables', tables.stats[s].config)
  BY <1>1, <1>2, <1>3, Deletion
<1>6. PICK k \in Configs : Configs = {k}
  BY DEF OneConfiguration
<1>7. CASE tables' = cut
  <2>1. tables'.stats = tables.stats /\ tables'.corpus = tables.corpus
    BY <1>2, <1>7
  <2>2. \A s \in Slots : tables'.stats[s] # NoStats => tables'.corpus # NoCorpus
    BY <2>1 DEF Exact
  <2>3. CorpusMatchesStats'
    BY <2>1, SummaryOfSame DEF Exact, CorpusMatchesStats
  <2>4. ASSUME NEW t \in Refreshers, pc'[t] = "commit"
        PROVE  View(t)'.corpus = Summary(View(t), config[t])'
    <3>1. View(t)'.stats = View(t).stats /\ View(t)'.corpus = View(t).corpus
      BY <2>1 DEF View
    <3>2. pc[t] = "commit" /\ config'[t] = config[t]
      BY <2>4
    <3>3. Summary(View(t), config[t])' = Summary(View(t), config[t])
      BY <3>1, <3>2, SummaryOfSame
    <3>4. QED
      BY <3>1, <3>2, <3>3 DEF Exact
  <2>5. QED
    BY <2>2, <2>3, <2>4 DEF Exact
<1>8. CASE Recounted(tables', k) /\ tables'.stats # tables.stats
  <2>1. \A s \in Slots : tables'.stats[s] # NoStats => s \in StatsUnder(tables', k)
    BY <1>4, <1>6 DEF RowsFit, Fit, StatsUnder
  <2>2. \A s \in Slots : tables'.stats[s] # NoStats => tables'.corpus # NoCorpus
    BY <1>8, <2>1, SummaryIsSome DEF Recounted
  <2>3. CorpusMatchesStats'
    BY <1>8, SummaryIsSome DEF Recounted, CorpusMatchesStats
  <2>4. PICK s \in Slots : tables.stats[s] # NoStats
    BY <1>1, <1>4, <1>5, <1>8 DEF TablesOK
  <2>5. tables.corpus # NoCorpus
    BY <2>4 DEF Exact
  <2>6. Corporeal = {}
    BY <1>3, <1>8, <2>5 DEF CorpusBusy
  <2>7. \A t \in Refreshers : pc[t] # "commit"
    BY <2>6 DEF Corporeal, Control
  <2>8. QED
    BY <2>2, <2>3, <2>7 DEF Exact
<1>9. QED
  <2>1. CASE tables'.stats = tables.stats
    <3>1. \A s \in S : tables.stats[s] = NoStats
      BY <1>1, <1>5, <2>1
    <3>2. QED
      BY <1>5, <1>7, <3>1
  <2>2. CASE tables'.stats # tables.stats /\ tables' # cut
    BY <1>1, <1>4, <1>5, <1>6, <1>8, <2>2 DEF RowsFit, Fit
  <2>3. QED
    BY <1>7, <2>1, <2>2

LEMMA OnlyOneExact ==
  ASSUME Exact, NEW t \in Refreshers,
         UNCHANGED tables,
         \A u \in Refreshers : u # t => /\ pc'[u] = pc[u]
                                        /\ own'[u] = own[u]
                                        /\ mine'[u] = mine[u]
                                        /\ wrote'[u] = wrote[u]
                                        /\ config'[u] = config[u],
         pc'[t] = "commit" => (View(t).corpus = Summary(View(t), config[t]))'
  PROVE  Exact'
<1>1. ASSUME NEW u \in Refreshers, pc'[u] = "commit", u # t
      PROVE  (View(u).corpus = Summary(View(u), config[u]))'
  <2>1. View(u)' = View(u)
    BY <1>1, SameView
  <2>2. pc[u] = "commit" /\ config'[u] = config[u]
    BY <1>1
  <2>3. QED
    BY <2>1, <2>2 DEF Exact
<1>2. CorpusMatchesStats'
  BY DEF Exact, CorpusMatchesStats, Summary, Lengths, StatsUnder
<1>3. QED
  BY <1>1, <1>2 DEF Exact

LEMMA ExactStep ==
  ASSUME OneConfiguration
  PROVE  IInv /\ Exact /\ [Next]_vars => Exact'
<1> SUFFICES ASSUME IInv, Exact, [Next]_vars
             PROVE  Exact'
  OBVIOUS
<1> USE DEF IInv
<1>1. ASSUME NEW d \in Docs, Store(d)
      PROVE  Exact'
  <2>1. {d} \in SUBSET Docs
    OBVIOUS
  <2>2. QED
    BY <1>1, <2>1, ReplacedExact DEF Store
<1>2. ASSUME UNCHANGED <<tables, pc, own, mine, wrote, config>>
      PROVE  Exact'
  <2>1. \A u \in Refreshers : View(u)' = View(u)
    BY <1>2, SameView
  <2>2. CorpusMatchesStats'
    BY <1>2 DEF Exact, CorpusMatchesStats, Summary, Lengths, StatsUnder
  <2>3. QED
    BY <1>2, <2>1, <2>2 DEF Exact
<1>3. ASSUME NEW D \in SUBSET Docs, Purge(D)
      PROVE  Exact'
  BY <1>3, ReplacedExact DEF Purge
<1>4. ASSUME NEW t \in Refreshers, NEW k \in Configs, NEW force \in BOOLEAN,
             Begin(t, k, force)
      PROVE  Exact'
  BY <1>4, OnlyOneExact DEF Typed, Begin, Goto, index
<1>5. ASSUME NEW t \in Refreshers, Rebuild(t)
      PROVE  Exact'
  BY <1>5, OnlyOneExact DEF Typed, Rebuild, Goto, index
<1>6. ASSUME NEW t \in Refreshers, Clean(t)
      PROVE  Exact'
  <2>1. PICK tb : Executed(t, tb)
    BY <1>6 DEF Clean
  <2>2. \A u \in Refreshers : u # t => /\ own'[u] = own[u]
                                       /\ mine'[u] = mine[u]
                                       /\ wrote'[u] = wrote[u]
    BY <2>1 DEF Executed, Typed
  <2>3. /\ \A u \in Refreshers : u # t => pc'[u] = pc[u]
        /\ pc'[t] = "list"
        /\ UNCHANGED <<tables, config>>
    BY <1>6 DEF Clean, Goto, Typed
  <2>4. QED
    BY <2>2, <2>3, OnlyOneExact
<1>7. ASSUME NEW t \in Refreshers, List(t)
      PROVE  Exact'
  BY <1>7, OnlyOneExact DEF Typed, List, Listed, Goto, index
<1>8. ASSUME NEW t \in Refreshers, Write(t)
      PROVE  Exact'
  BY <1>8, OnlyOneExact DEF Typed, Write, Goto, index
<1>9. ASSUME NEW t \in Refreshers, Refresh(t)
      PROVE  Exact'
  <2>1. config[t] \in Configs
    BY <1>9 DEF Refresh, Control
  <2>2. View(t)' = Refreshed(View(t), config[t]) /\ config' = config
    BY <1>9, <2>1, RefreshedView DEF Refresh
  <2>3. (View(t).corpus = Summary(View(t), config[t]))'
    BY <2>1, <2>2, ViewTyped, RefreshedFields
  <2>4. \A u \in Refreshers : u # t => /\ pc'[u] = pc[u]
                                       /\ own'[u] = own[u]
                                       /\ mine'[u] = mine[u]
                                       /\ wrote'[u] = wrote[u]
                                       /\ config'[u] = config[u]
    BY <1>9 DEF Refresh, Goto, Typed
  <2>5. UNCHANGED tables
    BY <1>9 DEF Refresh
  <2>6. QED
    BY <2>3, <2>4, <2>5, OnlyOneExact
<1>10. ASSUME NEW t \in Refreshers, Commit(t)
       PROVE  Exact'
  <2>1. Reset(t) /\ tables' = View(t) /\ pc[t] = "commit"
    BY <1>10 DEF Commit
  <2>2. config[t] \in Configs
    BY <2>1 DEF Control
  <2>3. tables'.corpus = Summary(tables', config[t])
    BY <2>1 DEF Exact
  <2>4. \A u \in Refreshers : pc'[u] # "commit"
    BY <2>1, ResetTyped DEF Control
  <2>5. tables'.corpus # NoCorpus /\ CorpusMatchesStats'
    BY <2>2, <2>3, SummaryIsSome DEF CorpusMatchesStats
  <2>6. QED
    BY <2>4, <2>5 DEF Exact
<1>11. ASSUME NEW t \in Refreshers, Abort(t)
       PROVE  Exact'
  <2>1. Reset(t) /\ UNCHANGED tables
    BY <1>11 DEF Abort
  <2>2. QED
    BY <2>1, ResetTyped, OnlyOneExact
<1>12. QED
  BY <1>1, <1>2, <1>3, <1>4, <1>5, <1>6, <1>7, <1>8, <1>9, <1>10, <1>11
  DEF Next, Proceed, MarkIndexed, MarkOther, vars

\* As long as everybody uses one configuration, the corpus row is that of the
\* committed statistics, although the delete trigger and the refreshes do not
\* share a lock.
THEOREM CorpusIsExact ==
  ASSUME OneConfiguration
  PROVE  Spec => []CorpusMatchesStats
<1>1. Init => Exact
  <2> SUFFICES ASSUME Init
               PROVE  Exact
    OBVIOUS
  <2>1. tables = Empty /\ \A t \in Refreshers : pc[t] = "idle"
    BY DEF Init
  <2>2. /\ \A s \in Slots : tables.stats[s] = NoStats
        /\ tables.corpus = NoCorpus
    BY <2>1, EmptyFields
  <2>3. QED
    BY <2>1, <2>2 DEF Exact, CorpusMatchesStats
<1>2. IInv /\ Exact /\ [Next]_vars => Exact'
  BY ExactStep
<1>3. Exact => CorpusMatchesStats
  BY DEF Exact
<1>4. QED
  BY <1>1, <1>2, <1>3, LexicalInvariant, PTL DEF Spec

(***************************************************************************)
(* A refresh that nobody interferes with.                                  *)
(***************************************************************************)
Late == {"list", "write", "refresh", "commit"}

\* delete_knowledge_base_lexical_index leaves no term.
Blank(t) == \A s \in Slots : View(t).terms[s] = {}

\* After --force-rebuild all terms are those of the refresh's own rows.
OwnTerms(t) ==
  \A s \in Slots : View(t).terms[s] # {} => View(t).stats[s].config = config[t]

\* Only searchable chunks have statistics.
Cleaned(t) == \A s \in Slots : View(t).stats[s] # NoStats => s \in Searchable

\* The loop of the refresh has ended because there was nothing left to index, not
\* because a whole batch was untokenizable.
Indexes(t) ==
  Cardinality(Untokenizable) < BatchSize =>
    \A s \in Searchable \ Untokenizable : ~Requires(View(t), s, config[t])

Rebuilding(t) ==
  /\ pc[t] = "clean" => Blank(t)
  /\ pc[t] \in Late => OwnTerms(t)
  /\ pc[t] = "commit" => View(t).df = Frequency(View(t).terms, Slots)

Serving(t) ==
  /\ pc[t] \in Late => Cleaned(t)
  /\ pc[t] = "write" => Batch(t) \subseteq Searchable
  /\ pc[t] \in {"refresh", "commit"} => Indexes(t)
  /\ pc[t] = "commit" => View(t).corpus = Summary(View(t), config[t])

QuietInv ==
  /\ alone \in [Refreshers -> BOOLEAN]
  /\ rebuilt \in [Refreshers -> BOOLEAN]
  /\ \A t \in Refreshers : alone[t] => Serving(t) /\ (rebuilt[t] => Rebuilding(t))

\* A batch that is not full holds all there is.
LEMMA ShortBatch ==
  ASSUME NEW S \in SUBSET Slots, Cardinality(FirstOf(S)) < BatchSize
  PROVE  FirstOf(S) = S
<1> DEFINE T == S \ FirstOf(S)
<1>1. FirstOf(S) \in SUBSET S
  BY DEF FirstOf
<1>2. SUFFICES ASSUME T # {}
               PROVE  FALSE
  BY <1>1
<1>3. PICK s \in T : \A u \in T : ~ (<<u, s>> \in OpToRel(<, Nat))
  <2>1. T \subseteq Nat
    OBVIOUS
  <2>2. QED
    BY <1>2, <2>1, NatLessThanWellFounded, WFMin
<1>4. {u \in S : u < s} \subseteq FirstOf(S)
  BY <1>3 DEF OpToRel
<1>5. ~ (Cardinality({u \in S : u < s}) < BatchSize)
  BY <1>3 DEF FirstOf
<1>6. FirstOf(S) \in SUBSET Slots /\ {u \in S : u < s} \in SUBSET Slots
  BY <1>1
<1>7. /\ IsFiniteSet(FirstOf(S))
      /\ Cardinality(FirstOf(S)) \in Nat
      /\ Cardinality({u \in S : u < s}) \in Nat
  BY <1>6, PartsAreFinite
<1>8. Cardinality({u \in S : u < s}) <= Cardinality(FirstOf(S))
  BY <1>4, <1>7, FS_Subset
<1>9. QED
  BY <1>5, <1>7, <1>8

\* What a refresh sees after a statement that turned its rows into those of tb.
LEMMA ViewRows ==
  ASSUME Typed, NEW t \in Refreshers, NEW tb, TablesOK(tb),
         own' = [own EXCEPT ![t] = tb], UNCHANGED tables,
         \A s \in Slots \ mine'[t] : /\ tb.stats[s] = tables.stats[s]
                                     /\ tb.terms[s] = tables.terms[s]
  PROVE  \A s \in Slots : /\ View(t)'.stats[s] = tb.stats[s]
                          /\ View(t)'.terms[s] = tb.terms[s]
<1>1. own'[t] = tb
  BY OwnTyped
<1>2. QED
  BY <1>1 DEF View

\* Nothing a refresh sees or has seen changes.
Untouched(u) ==
  /\ pc'[u] = pc[u]
  /\ config'[u] = config[u]
  /\ batch'[u] = batch[u]
  /\ own'[u] = own[u]
  /\ mine'[u] = mine[u]
  /\ wrote'[u] = wrote[u]
  /\ alone'[u] = alone[u]
  /\ rebuilt'[u] = rebuilt[u]

LEMMA StaysQuiet ==
  ASSUME NEW u \in Refreshers, Untouched(u), UNCHANGED <<status, chunk, tables>>
  PROVE  /\ Serving(u) => Serving(u)'
         /\ Rebuilding(u) => Rebuilding(u)'
<1>1. /\ View(u)' = View(u)
      /\ pc'[u] = pc[u] /\ config'[u] = config[u] /\ batch'[u] = batch[u]
  BY SameView DEF Untouched
<1>2. /\ Batch(u)' = Batch(u)
      /\ Searchable' = Searchable
      /\ Untokenizable' = Untokenizable
  BY <1>1 DEF Batch, Searchable, Present, Untokenizable
<1>3. \A k : Summary(View(u), k)' = Summary(View(u), k)
  BY <1>1, SummaryOfSame
<1>4. Cleaned(u) => Cleaned(u)'
  BY <1>1, <1>2 DEF Cleaned
<1>5. Indexes(u) => Indexes(u)'
  BY <1>1, <1>2 DEF Indexes, Requires
<1>6. Serving(u) => Serving(u)'
  BY <1>1, <1>2, <1>3, <1>4, <1>5 DEF Serving
<1>7. Rebuilding(u) => Rebuilding(u)'
  BY <1>1 DEF Rebuilding, Blank, OwnTerms, Frequency
<1>8. QED
  BY <1>6, <1>7

\* A step of one refresh does not disturb the others.
LEMMA OthersQuiet ==
  ASSUME QuietInv, NEW t \in Refreshers,
         UNCHANGED <<status, chunk, tables>>,
         \A u \in Refreshers : u # t => Untouched(u),
         alone' \in [Refreshers -> BOOLEAN],
         rebuilt' \in [Refreshers -> BOOLEAN],
         alone'[t] => Serving(t)' /\ (rebuilt'[t] => Rebuilding(t)')
  PROVE  QuietInv'
<1>1. ASSUME NEW u \in Refreshers, u # t, alone'[u]
      PROVE  Serving(u)' /\ (rebuilt'[u] => Rebuilding(u)')
  <2>1. Untouched(u) /\ alone[u] /\ rebuilt'[u] = rebuilt[u]
    BY <1>1 DEF Untouched
  <2>2. Serving(u) /\ (rebuilt[u] => Rebuilding(u))
    BY <2>1 DEF QuietInv
  <2>3. QED
    BY <2>1, <2>2, StaysQuiet
<1>2. QED
  BY <1>1 DEF QuietInv

LEMMA RebuildQuiet ==
  ASSUME IInv, QuietInv, NEW t \in Refreshers, Rebuild(t)
  PROVE  QuietInv'
<1>1. /\ Typed
      /\ pc[t] = "rebuild" /\ pc'[t] = "clean"
      /\ UNCHANGED <<status, chunk, tables, alone, rebuilt>>
  BY DEF IInv, Typed, Rebuild, Goto, index
<1>2. \A s \in Slots : View(t)'.terms[s] = {}
  <2>1. PICK tb : tb = Erased
    OBVIOUS
  <2>2. TablesOK(tb) /\ \A s \in Slots : tb.terms[s] = {}
    BY <2>1, EmptyFields DEF Erased
  <2>3. own' = [own EXCEPT ![t] = tb] /\ mine'[t] = Differ(tables, tb)
    BY <1>1, <2>1 DEF Rebuild, Typed
  <2>4. \A s \in Slots \ mine'[t] : /\ tb.stats[s] = tables.stats[s]
                                    /\ tb.terms[s] = tables.terms[s]
    BY <2>3 DEF Differ
  <2>5. Typed /\ UNCHANGED tables
    BY <1>1
  <2>6. \A s \in Slots : /\ View(t)'.stats[s] = tb.stats[s]
                         /\ View(t)'.terms[s] = tb.terms[s]
    BY <2>2, <2>3, <2>4, <2>5, ViewRows
  <2>7. QED
    BY <2>2, <2>6
<1>3. Serving(t)' /\ Rebuilding(t)'
  BY <1>1, <1>2 DEF Serving, Rebuilding, Late, Blank
<1>4. \A u \in Refreshers : u # t => Untouched(u)
  BY <1>1 DEF Untouched, Rebuild, Goto, Typed
<1>5. alone' \in [Refreshers -> BOOLEAN] /\ rebuilt' \in [Refreshers -> BOOLEAN]
  BY <1>1 DEF QuietInv
<1>6. QED
  BY <1>1, <1>3, <1>4, <1>5, OthersQuiet

LEMMA CleanQuiet ==
  ASSUME IInv, QuietInv, NEW t \in Refreshers, Clean(t)
  PROVE  QuietInv'
<1>1. /\ Typed /\ RowsFit
      /\ pc[t] = "clean" /\ pc'[t] = "list"
      /\ UNCHANGED <<status, chunk, tables, alone, rebuilt>>
  BY DEF IInv, Typed, Clean, Goto, index
<1>2. PICK tb \in WithoutStats(View(t), Unindexed) : Executed(t, tb)
  BY DEF Clean
<1>3. /\ TablesOK(tb)
      /\ tb.terms = View(t).terms
      /\ tb.stats = [s \in Slots |-> IF s \in Unindexed THEN NoStats
                                                       ELSE View(t).stats[s]]
  BY <1>1, <1>2, ViewTyped, Deletion DEF Unindexed, Present
<1>4. \A s \in Slots : /\ View(t)'.stats[s] = tb.stats[s]
                       /\ View(t)'.terms[s] = tb.terms[s]
  <2>1. /\ own' = [own EXCEPT ![t] = tb]
        /\ mine'[t] = mine[t] \cup Differ(View(t), tb)
    BY <1>1, <1>2 DEF Executed, Typed
  <2>2. \A s \in Slots \ mine'[t] : /\ tb.stats[s] = tables.stats[s]
                                    /\ tb.terms[s] = tables.terms[s]
    BY <2>1 DEF Differ, View
  <2>3. Typed /\ UNCHANGED tables
    BY <1>1
  <2>4. TablesOK(tb)
    BY <1>3
  <2>5. QED
    BY <2>1, <2>2, <2>3, <2>4, ViewRows
<1>5. Cleaned(t)'
  <2> SUFFICES ASSUME NEW s \in Slots, View(t)'.stats[s] # NoStats
               PROVE  s \in Searchable'
    BY DEF Cleaned
  <2>1. s \notin Unindexed /\ View(t).stats[s] # NoStats
    BY <1>3, <1>4
  <2>2. chunk[s] # NoChunk
    BY <1>1, <2>1, ViewFits DEF Fit
  <2>3. QED
    BY <1>1, <2>1, <2>2 DEF Unindexed, Searchable, Present
<1>6. ASSUME Rebuilding(t)
      PROVE  Rebuilding(t)'
  <2>1. \A s \in Slots : View(t)'.terms[s] = {}
    BY <1>1, <1>3, <1>4, <1>6 DEF Rebuilding, Blank
  <2>2. QED
    BY <1>1, <2>1 DEF Rebuilding, OwnTerms
<1>7. Serving(t)'
  BY <1>1, <1>5 DEF Serving
<1>8. \A u \in Refreshers : u # t => Untouched(u)
  BY <1>1, <1>2 DEF Untouched, Clean, Executed, Goto, Typed
<1>9. /\ alone' \in [Refreshers -> BOOLEAN]
      /\ rebuilt' \in [Refreshers -> BOOLEAN]
      /\ alone[t] /\ rebuilt[t] => Rebuilding(t)
  BY <1>1 DEF QuietInv
<1>10. QED
  BY <1>1, <1>6, <1>7, <1>8, <1>9, OthersQuiet

LEMMA ListQuiet ==
  ASSUME IInv, QuietInv, NEW t \in Refreshers, List(t)
  PROVE  QuietInv'
<1>1. /\ Typed
      /\ pc[t] = "list" /\ pc'[t] = Listed(t)
      /\ UNCHANGED <<status, chunk, tables, config, own, mine, wrote, alone,
                     rebuilt>>
  BY DEF IInv, Typed, List, Goto, index
<1>2. /\ View(t)' = View(t)
      /\ Searchable' = Searchable
      /\ Untokenizable' = Untokenizable
      /\ pc'[t] \in {"write", "refresh"}
  BY <1>1, SameView DEF Searchable, Present, Untokenizable, Listed
<1>3. FirstOf(Pending(t)) \subseteq Searchable /\ Searchable \in SUBSET Slots
  BY DEF FirstOf, Pending, Searchable, Present
<1>4. Batch(t)' \subseteq Searchable
  <2>1. \A s \in Slots : batch'[t][s] # NoChunk => s \in FirstOf(Pending(t))
    BY <1>1 DEF List, Typed
  <2>2. QED
    BY <1>3, <2>1 DEF Batch
<1>5. ASSUME pc'[t] = "refresh"
      PROVE  Indexes(t)'
  <2>1. FirstOf(Pending(t)) \subseteq Untokenizable
    BY <1>1, <1>3, <1>5 DEF Listed, Untokenizable
  <2>2. /\ IsFiniteSet(Untokenizable)
        /\ Cardinality(Untokenizable) \in Nat
        /\ Cardinality(FirstOf(Pending(t))) \in Nat
    BY <1>3, PartsAreFinite DEF Untokenizable
  <2>3. Cardinality(FirstOf(Pending(t))) <= Cardinality(Untokenizable)
    BY <2>1, <2>2, FS_Subset
  <2>4. ASSUME Cardinality(Untokenizable) < BatchSize
        PROVE  Pending(t) \subseteq Untokenizable
    <3>1. Pending(t) \in SUBSET Slots
      BY <1>3 DEF Pending
    <3>2. Cardinality(FirstOf(Pending(t))) < BatchSize
      BY <2>2, <2>3, <2>4
    <3>3. QED
      BY <2>1, <3>1, <3>2, ShortBatch
  <2>5. Cardinality(Untokenizable) < BatchSize =>
          \A s \in Searchable \ Untokenizable : ~Requires(View(t), s, config[t])
    BY <2>4 DEF Pending
  <2>6. QED
    BY <1>1, <1>2, <2>5 DEF Indexes, Requires
<1>6. ASSUME Serving(t)
      PROVE  Serving(t)'
  <2>1. Cleaned(t)'
    BY <1>1, <1>2, <1>6 DEF Serving, Cleaned, Late
  <2>2. QED
    BY <1>2, <1>4, <1>5, <2>1 DEF Serving
<1>7. ASSUME Rebuilding(t)
      PROVE  Rebuilding(t)'
  BY <1>1, <1>2, <1>7 DEF Rebuilding, Late, OwnTerms
<1>8. \A u \in Refreshers : u # t => Untouched(u)
  BY <1>1 DEF Untouched, List, Goto, Typed
<1>9. /\ alone' \in [Refreshers -> BOOLEAN]
      /\ rebuilt' \in [Refreshers -> BOOLEAN]
      /\ alone[t] => Serving(t) /\ (rebuilt[t] => Rebuilding(t))
  BY <1>1 DEF QuietInv
<1>10. QED
  BY <1>1, <1>6, <1>7, <1>8, <1>9, OthersQuiet

LEMMA WriteQuiet ==
  ASSUME IInv, QuietInv, NEW t \in Refreshers, Write(t)
  PROVE  QuietInv'
<1> DEFINE tb == Indexed(View(t), Batch(t), batch[t], config[t])
<1>1. /\ Typed
      /\ pc[t] = "write" /\ pc'[t] = "list"
      /\ UNCHANGED <<status, chunk, tables, config, alone, rebuilt>>
  BY DEF IInv, Typed, Write, Goto, index
<1>2. /\ config[t] \in Configs
      /\ Batch(t) \in SUBSET Slots
      /\ batch[t] \in [Slots -> Chunk \cup {NoChunk}]
      /\ TablesOK(View(t))
  BY <1>1, ViewTyped DEF Batch, Typed, IInv, Control
<1>3. TablesOK(tb) /\ RowsWritten(View(t), tb, Batch(t), batch[t], config[t])
  BY <1>2, IndexedFields
<1>4. own' = [own EXCEPT ![t] = tb] /\ mine'[t] = mine[t] \cup Batch(t)
  BY <1>1 DEF Write, Typed
<1> HIDE DEF tb
<1>5. \A s \in Slots : /\ View(t)'.stats[s] = tb.stats[s]
                       /\ View(t)'.terms[s] = tb.terms[s]
  <2>1. \A s \in Slots \ mine'[t] : /\ tb.stats[s] = tables.stats[s]
                                    /\ tb.terms[s] = tables.terms[s]
    BY <1>3, <1>4 DEF RowsWritten, View
  <2>2. QED
    BY <1>1, <1>3, <1>4, <2>1, ViewRows
<1>6. Searchable' = Searchable
  BY <1>1 DEF Searchable, Present
<1>7. ASSUME Serving(t)
      PROVE  Serving(t)'
  <2>1. Cleaned(t) /\ Batch(t) \subseteq Searchable
    BY <1>1, <1>7 DEF Serving, Late
  <2>2. \A s \in Slots \ Batch(t) : View(t)'.stats[s] = View(t).stats[s]
    BY <1>3, <1>5 DEF RowsWritten
  <2>3. Cleaned(t)'
    BY <1>6, <2>1, <2>2 DEF Cleaned
  <2>4. QED
    BY <1>1, <2>3 DEF Serving
<1>8. ASSUME Rebuilding(t)
      PROVE  Rebuilding(t)'
  <2>1. OwnTerms(t)
    BY <1>1, <1>8 DEF Rebuilding, Late
  <2>2. ASSUME NEW s \in Batch(t)
        PROVE  View(t)'.stats[s].config = config[t]
    <3>1. tb.stats[s] = [config |-> config[t],
                         length |-> Cardinality(batch[t][s].words)]
      BY <1>3 DEF RowsWritten
    <3>2. View(t)'.stats[s] = tb.stats[s]
      BY <1>2, <1>5
    <3>3. QED
      BY <3>1, <3>2
  <2>3. \A s \in Slots \ Batch(t) : /\ View(t)'.stats[s] = View(t).stats[s]
                                    /\ View(t)'.terms[s] = View(t).terms[s]
    BY <1>3, <1>5 DEF RowsWritten
  <2>4. OwnTerms(t)'
    BY <1>1, <2>1, <2>2, <2>3 DEF OwnTerms
  <2>5. QED
    BY <1>1, <2>4 DEF Rebuilding
<1>9. \A u \in Refreshers : u # t => Untouched(u)
  BY <1>1 DEF Untouched, Write, Goto, Typed
<1>10. /\ alone' \in [Refreshers -> BOOLEAN]
       /\ rebuilt' \in [Refreshers -> BOOLEAN]
       /\ alone[t] => Serving(t) /\ (rebuilt[t] => Rebuilding(t))
  BY <1>1 DEF QuietInv
<1>11. QED
  BY <1>1, <1>7, <1>8, <1>9, <1>10, OthersQuiet

LEMMA RefreshQuiet ==
  ASSUME IInv, QuietInv, NEW t \in Refreshers, Refresh(t)
  PROVE  QuietInv'
<1>1. /\ Typed
      /\ pc[t] = "refresh" /\ pc'[t] = "commit"
      /\ config[t] \in Configs
      /\ UNCHANGED <<status, chunk, tables, config, alone, rebuilt>>
  BY DEF IInv, Typed, Control, Refresh, Goto, index
<1>2. View(t)' = Refreshed(View(t), config[t])
  BY <1>1, RefreshedView
<1>3. /\ View(t)'.stats = View(t).stats
      /\ View(t)'.terms = View(t).terms
      /\ View(t)'.df = Frequency(View(t)'.terms, Slots)
      /\ View(t)'.corpus = Summary(View(t)', config[t])
  BY <1>1, <1>2, ViewTyped, RefreshedFields
<1>4. Searchable' = Searchable /\ Untokenizable' = Untokenizable
  BY <1>1 DEF Searchable, Present, Untokenizable
<1>5. ASSUME Serving(t)
      PROVE  Serving(t)'
  <2>1. Cleaned(t)'
    BY <1>1, <1>3, <1>4, <1>5 DEF Serving, Late, Cleaned
  <2>2. Indexes(t)'
    BY <1>1, <1>3, <1>4, <1>5 DEF Serving, Indexes, Requires
  <2>3. (View(t).corpus = Summary(View(t), config[t]))'
    BY <1>1, <1>3
  <2>4. QED
    BY <1>1, <2>1, <2>2, <2>3 DEF Serving
<1>6. ASSUME Rebuilding(t)
      PROVE  Rebuilding(t)'
  <2>1. OwnTerms(t)'
    BY <1>1, <1>3, <1>6 DEF Rebuilding, Late, OwnTerms
  <2>2. (View(t).df = Frequency(View(t).terms, Slots))'
    BY <1>3
  <2>3. QED
    BY <1>1, <2>1, <2>2 DEF Rebuilding
<1>7. \A u \in Refreshers : u # t => Untouched(u)
  BY <1>1 DEF Untouched, Refresh, Goto, Typed
<1>8. /\ alone' \in [Refreshers -> BOOLEAN]
      /\ rebuilt' \in [Refreshers -> BOOLEAN]
      /\ alone[t] => Serving(t) /\ (rebuilt[t] => Rebuilding(t))
  BY <1>1 DEF QuietInv
<1>9. QED
  BY <1>1, <1>5, <1>6, <1>7, <1>8, OthersQuiet

LEMMA QuietStep == IInv /\ QuietInv /\ [Next]_vars => QuietInv'
<1> SUFFICES ASSUME IInv, QuietInv, [Next]_vars
             PROVE  QuietInv'
  OBVIOUS
<1>1. ASSUME Committed, UNCHANGED rebuilt
      PROVE  QuietInv'
  BY <1>1 DEF QuietInv, Committed
<1>2. ASSUME NEW t \in Refreshers, NEW k \in Configs, NEW force \in BOOLEAN,
             Begin(t, k, force)
      PROVE  QuietInv'
  <2>1. /\ Typed
        /\ pc'[t] = (IF force THEN "rebuild" ELSE "clean")
        /\ rebuilt' = [rebuilt EXCEPT ![t] = force]
        /\ alone' = [alone EXCEPT ![t] = TRUE]
        /\ UNCHANGED <<status, chunk, tables>>
    BY <1>2 DEF IInv, Typed, Begin, Goto, index
  <2>2. /\ alone' \in [Refreshers -> BOOLEAN]
        /\ rebuilt' \in [Refreshers -> BOOLEAN]
        /\ rebuilt'[t] = force
    BY <2>1 DEF QuietInv
  <2>3. Serving(t)' /\ (rebuilt'[t] => Rebuilding(t)')
    BY <2>1, <2>2 DEF Serving, Rebuilding, Late
  <2>4. \A u \in Refreshers : u # t => Untouched(u)
    BY <1>2, <2>1 DEF Untouched, Begin, Goto, Typed, QuietInv
  <2>5. QED
    BY <2>1, <2>2, <2>3, <2>4, OthersQuiet
<1>3. ASSUME NEW t \in Refreshers, Commit(t)
      PROVE  QuietInv'
  BY <1>3 DEF QuietInv, Commit, Reset
<1>4. ASSUME NEW t \in Refreshers, Abort(t)
      PROVE  QuietInv'
  <2>1. /\ Typed
        /\ Reset(t)
        /\ alone' = [alone EXCEPT ![t] = FALSE]
        /\ UNCHANGED <<status, chunk, tables>>
    BY <1>4 DEF IInv, Abort, index
  <2>2. /\ alone' \in [Refreshers -> BOOLEAN]
        /\ rebuilt' \in [Refreshers -> BOOLEAN]
        /\ ~alone'[t]
    BY <2>1 DEF QuietInv, Reset
  <2>3. \A u \in Refreshers : u # t => Untouched(u)
    BY <2>1 DEF Untouched, Reset, Goto, Typed, QuietInv
  <2>4. QED
    BY <2>1, <2>2, <2>3, OthersQuiet
<1>5. CASE UNCHANGED vars
  <2>1. /\ UNCHANGED <<status, chunk, tables, alone, rebuilt>>
        /\ \A u \in Refreshers : Untouched(u)
    BY <1>5 DEF vars, Untouched
  <2>2. QED
    BY <2>1, StaysQuiet DEF QuietInv
<1>6. QED
  BY <1>1, <1>2, <1>3, <1>4, <1>5,
     RebuildQuiet, CleanQuiet, ListQuiet, WriteQuiet, RefreshQuiet
  DEF Next, Proceed, Store, MarkIndexed, MarkOther, Purge

LEMMA QuietInvariant == Spec => []QuietInv
<1>1. Init => QuietInv
  BY DEF Init, QuietInv
<1>2. QED
  BY <1>1, QuietStep, LexicalInvariant, PTL DEF Spec

\* What a refresh commits is ready if it has indexed every searchable chunk.
LEMMA IndexedIsReady ==
  ASSUME IInv, NEW t \in Refreshers, Serving(t), pc[t] = "commit",
         Untokenizable = {}, Searchable # {}
  PROVE  Ready(View(t), config[t])
<1> DEFINE k == config[t]
           tb == View(t)
<1>1. k \in Configs
  BY DEF IInv, Control
<1>2. Cleaned(t) /\ Indexes(t) /\ tb.corpus = Summary(tb, k)
  BY DEF Serving, Late
<1>3. \A s \in Searchable : ~Requires(tb, s, k)
  <2>1. Cardinality(Untokenizable) < BatchSize
    BY FS_EmptySet
  <2>2. QED
    BY <1>2, <2>1 DEF Indexes
<1>4. Searchable \in SUBSET Slots
  BY DEF Searchable, Present
<1>5. \A s \in Searchable : tb.stats[s].config = k
  BY <1>3 DEF Requires
<1>6. \A s \in Slots \ Searchable : tb.stats[s] = NoStats
  BY <1>2 DEF Cleaned
<1> HIDE DEF tb, k
<1>7. \A s \in Slots : tb.stats[s].config \in {k, NoConfig}
  BY <1>5, <1>6 DEF NoStats
<1>8. StatsUnder(tb, k) = Searchable
  <2>1. k # NoConfig
    BY <1>1
  <2>2. \A s \in Slots : s \in Searchable <=> tb.stats[s].config = k
    BY <1>5, <1>6, <2>1 DEF NoStats
  <2>3. QED
    BY <1>4, <2>1, <2>2 DEF StatsUnder
<1>9. /\ tb.corpus.config = k
      /\ tb.corpus.count = Cardinality(StatsUnder(tb, k))
  BY <1>2, CorpusFields DEF Summary, Lengths
<1>10. Ready(tb, k)
  BY <1>7, <1>8, <1>9 DEF Ready
<1>11. QED
  BY <1>10 DEF tb, k

\* Whatever other refreshes and index runs did before: a refresh during which
\* nobody else commits stores rows for every tokenizable searchable chunk, unless
\* a whole batch of untokenizable chunks ends its loop early, and leaves the index
\* ready if there are none (index_knowledge_base_lexical, lexical/service.py:52).
THEOREM QuietRefreshIndexes == Spec => QuietRefreshServes
<1> DEFINE Served(t) ==
             /\ Cardinality(Untokenizable) < BatchSize =>
                  \A s \in Searchable \ Untokenizable :
                    ~Requires(tables', s, config[t])
             /\ Untokenizable = {} /\ Searchable # {} => Ready(tables', config[t])
<1>1. ASSUME IInv, QuietInv, NEW t \in Refreshers, CommitsAlone(t)
      PROVE  Served(t)
  <2>1. pc[t] = "commit" /\ tables' = View(t) /\ Serving(t)
    BY <1>1 DEF CommitsAlone, QuietInv
  <2>2. Indexes(t)
    BY <2>1 DEF Serving
  <2>3. Untokenizable = {} /\ Searchable # {} => Ready(View(t), config[t])
    BY <1>1, <2>1, IndexedIsReady
  <2>4. QED
    BY <2>1, <2>2, <2>3 DEF Indexes
<1>2. IInv /\ QuietInv =>
        [\A t \in Refreshers : CommitsAlone(t) => Served(t)]_vars
  BY <1>1
<1>3. QED
  BY <1>2, LexicalInvariant, QuietInvariant, PTL DEF QuietRefreshServes

\* A rebuild during which nobody else commits leaves frequencies that count the
\* rows of its own configuration and nothing else: delete_knowledge_base_lexical_index
\* erases what earlier configurations and documents left behind.
THEOREM RebuildCountsExactly == Spec => RebuildIsExact
<1> DEFINE Counted(t) ==
             tables'.df = Frequency(tables'.terms, StatsUnder(tables', config[t]))
<1>1. ASSUME IInv, QuietInv, NEW t \in Refreshers, CommitsAlone(t), rebuilt[t]
      PROVE  Counted(t)
  <2>1. pc[t] = "commit" /\ tables' = View(t) /\ Rebuilding(t)
    BY <1>1 DEF CommitsAlone, QuietInv
  <2>2. OwnTerms(t) /\ View(t).df = Frequency(View(t).terms, Slots)
    BY <2>1 DEF Rebuilding, Late
  <2>3. config[t] # NoConfig
    BY <1>1, <2>1 DEF IInv, Control
  <2>4. \A w \in Terms : {s \in Slots : w \in View(t).terms[s]} =
          {s \in StatsUnder(View(t), config[t]) : w \in View(t).terms[s]}
    BY <2>2, <2>3 DEF OwnTerms, StatsUnder
  <2>5. Frequency(View(t).terms, Slots) =
          Frequency(View(t).terms, StatsUnder(View(t), config[t]))
    BY <2>4 DEF Frequency
  <2>6. QED
    BY <2>1, <2>2, <2>5
<1>2. IInv /\ QuietInv =>
        [\A t \in Refreshers : CommitsAlone(t) /\ rebuilt[t] => Counted(t)]_vars
  BY <1>1
<1>3. QED
  BY <1>2, LexicalInvariant, QuietInvariant, PTL DEF RebuildIsExact

=============================================================================
