--------------------- MODULE QdrantMaterialization_proofs ---------------------
(***************************************************************************)
(* Proofs about QdrantMaterialization, for all values of its constants:    *)
(* what a settled collection may hold, hence why a search fails closed;    *)
(* and that an undisturbed run leaves exactly what it loaded, because it   *)
(* leaves nothing else and the two counts it compares are equal.           *)
(***************************************************************************)
EXTENDS QdrantMaterialization, FiniteSetTheorems, TLAPS

\* A point set that came from the index as it is now.
Current(P) == P \subseteq Searchable

\* Nothing but searchable chunks is in the collection or on the way to it.
OnlyCurrent ==
  /\ \A m \in Indexers : Current(source[m])
  /\ \A l \in late : l.kind = "upsert" => Current(l.points)

Settled == settled => OnlyCurrent /\ Current(points)

Calm ==
  \A q \in Searchers : calm[q] =>
    settled /\ Current(found[q]) /\ pc[q] # "refused"

\* What an undisturbed materialization knows of the collection.
Alone ==
  \A m \in Indexers : alone[m] /\ pc[m] # "idle" =>
    /\ OnlyCurrent
    /\ pc[m] = "upsert" => points \subseteq existing[m] \cup source[m]
    /\ pc[m] = "count" => points \subseteq source[m]

IdleIsEmpty == \A m \in Indexers : pc[m] = "idle" => source[m] = {}

StagesOfKind ==
  /\ \A m \in Indexers : pc[m] \in IndexStages
  /\ \A q \in Searchers : pc[q] \in SearchStages

IInv == TypeOK /\ StagesOfKind /\ IdleIsEmpty /\ Settled /\ Calm /\ Alone

----------------------------------------------------------------------------
LEMMA SearchableType ==
  ASSUME TypeOK
  PROVE  Searchable \subseteq Points /\ \A r : Wanted(r) \subseteq Searchable
BY DEF TypeOK, Searchable, Wanted

LEMMA Requests ==
  ASSUME NEW m \in Indexers
  PROVE  /\ BatchOf(m) \subseteq left[m]
         /\ StaleIds(m) \subseteq existing[m]
BY DEF BatchOf, StaleIds

LEMMA UpsertAddsNew == \A new : Upserted(new) \subseteq points \cup new
BY DEF Upserted

LEMMA InitIInv == Init => IInv
BY DEF Init, IInv, TypeOK, StagesOfKind, IdleIsEmpty, Settled, Calm, Alone, Processes,
       IndexStages, SearchStages

----------------------------------------------------------------------------
\* A transaction of the index run voids everything that was settled.
LEMMA IndexStep ==
  ASSUME IInv, Changed,
         status' \in [Docs -> {"other", "embedded", "indexed"}],
         chunk' \in [Slots -> Points \cup {Absent}]
  PROVE  IInv'
<1>1. UNCHANGED <<points, pc, rev, source, left, existing, found, late>>
  BY DEF Changed, work
<1>2. settled' = FALSE /\ calm' = [q \in Searchers |-> FALSE]
      /\ alone' = [m \in Indexers |-> FALSE]
  BY DEF Changed
<1>3. TypeOK'
  BY <1>1, <1>2 DEF IInv, TypeOK
<1>4. StagesOfKind' /\ IdleIsEmpty'
  BY <1>1 DEF IInv, StagesOfKind, IdleIsEmpty
<1>5. Settled' /\ Calm' /\ Alone'
  BY <1>2 DEF Settled, Calm, Alone
<1> QED BY <1>3, <1>4, <1>5 DEF IInv

LEMMA StoreStep ==
  ASSUME IInv, NEW d \in Docs, NEW r \in Revisions, Store(d, r)
  PROVE  IInv'
<1>1. PICK id \in Ids, kept \in SUBSET SlotsOf(d) :
        chunk' = [s \in Slots |->
                   IF s \in kept THEN [slot |-> s, id |-> id, rev |-> r]
                   ELSE IF s \in SlotsOf(d) THEN Absent ELSE chunk[s]]
  BY DEF Store
<1>2. chunk' \in [Slots -> Points \cup {Absent}]
  BY <1>1 DEF IInv, TypeOK, Points
<1>3. status' \in [Docs -> {"other", "embedded", "indexed"}]
  BY DEF Store, IInv, TypeOK
<1> QED BY <1>2, <1>3, IndexStep DEF Store

LEMMA MarkStep ==
  ASSUME IInv, NEW d \in Docs, MarkIndexed(d) \/ MarkOther(d)
  PROVE  IInv'
<1>1. status' \in [Docs -> {"other", "embedded", "indexed"}]
  BY DEF MarkIndexed, MarkOther, IInv, TypeOK
<1>2. chunk' \in [Slots -> Points \cup {Absent}]
  BY DEF MarkIndexed, MarkOther, IInv, TypeOK
<1> QED BY <1>1, <1>2, IndexStep DEF MarkIndexed, MarkOther

----------------------------------------------------------------------------
LEMMA LoadStep ==
  ASSUME IInv, NEW m \in Indexers, NEW r \in Revisions, Load(m, r)
  PROVE  IInv'
<1> USE DEF Load, index, Goto
<1>0. Wanted(r) \subseteq Searchable /\ Searchable \subseteq Points
  BY SearchableType DEF IInv
<1>1. Searchable' = Searchable
  BY DEF Searchable
<1>2. TypeOK'
  BY <1>0 DEF IInv, TypeOK, Processes, IndexStages
<1>3. pc' \in [Processes -> IndexStages \cup SearchStages] /\ pc'[m] = "scroll"
      /\ \A p \in Processes \ {m} : pc'[p] = pc[p]
  BY <1>2 DEF IInv, TypeOK, Processes
<1>4. source'[m] = Wanted(r) /\ \A o \in Indexers \ {m} : source'[o] = source[o]
  BY DEF IInv, TypeOK
<1>5. StagesOfKind' /\ IdleIsEmpty'
  BY <1>3, <1>4, ProcessAssumption
     DEF IInv, StagesOfKind, IdleIsEmpty, IndexStages, Processes
<1>6. OnlyCurrent => OnlyCurrent'
  BY <1>0, <1>1, <1>4 DEF OnlyCurrent, Current
<1>7. Settled'
  BY <1>1, <1>6 DEF IInv, Settled, Current
<1>8. Calm'
  BY <1>1, <1>3, ProcessAssumption DEF IInv, Calm, Current, Processes
<1>9. alone'[m] => OnlyCurrent'
  <2> SUFFICES ASSUME alone'[m] PROVE OnlyCurrent'
    OBVIOUS
  <2>1. late = {} /\ \A o \in Indexers : pc[o] = "idle"
    BY DEF IInv, TypeOK
  <2>2. \A o \in Indexers \ {m} : source[o] = {}
    BY <2>1 DEF IInv, IdleIsEmpty
  <2> QED BY <1>0, <1>1, <1>4, <2>1, <2>2 DEF OnlyCurrent, Current
<1>10. Alone'
  <2> SUFFICES ASSUME NEW o \in Indexers, alone'[o], pc'[o] # "idle"
               PROVE  /\ OnlyCurrent'
                      /\ pc'[o] = "upsert" => points' \subseteq existing'[o] \cup source'[o]
                      /\ pc'[o] = "count" => points' \subseteq source'[o]
    BY DEF Alone
  <2>1. CASE o = m
    BY <2>1, <1>3, <1>9
  <2>2. CASE o # m
    <3>1. alone[o] /\ pc[o] = pc'[o] /\ source'[o] = source[o]
      BY <2>2, <1>3, <1>4 DEF IInv, TypeOK, Processes
    <3> QED BY <3>1, <1>6 DEF IInv, Alone
  <2> QED BY <2>1, <2>2
<1> QED BY <1>2, <1>5, <1>7, <1>8, <1>10 DEF IInv

LEMMA ScrollStep ==
  ASSUME IInv, NEW m \in Indexers, Scroll(m)
  PROVE  IInv'
<1> USE DEF Scroll, index, Goto
<1>1. Searchable' = Searchable /\ (OnlyCurrent' <=> OnlyCurrent)
  BY DEF Searchable, OnlyCurrent, Current
<1>2. TypeOK'
  BY DEF IInv, TypeOK, Processes, IndexStages
<1>3. pc[m] = "scroll" /\ pc'[m] = "upsert" /\ \A p \in Processes \ {m} : pc'[p] = pc[p]
  BY DEF IInv, TypeOK, Processes
<1>4. StagesOfKind' /\ IdleIsEmpty'
  BY <1>3, ProcessAssumption
     DEF IInv, StagesOfKind, IdleIsEmpty, IndexStages, Processes
<1>5. Settled'
  BY <1>1 DEF IInv, Settled, Current
<1>6. Calm'
  BY <1>1, <1>3, ProcessAssumption DEF IInv, Calm, Current, Processes
<1>7. existing'[m] = points /\ \A o \in Indexers \ {m} : existing'[o] = existing[o]
  BY DEF IInv, TypeOK
<1>8. Alone'
  BY <1>1, <1>3, <1>7 DEF IInv, Alone, Processes
<1> QED BY <1>2, <1>4, <1>5, <1>6, <1>8 DEF IInv

LEMMA UpsertStep ==
  ASSUME IInv, NEW m \in Indexers, Upsert(m)
  PROVE  IInv'
<1> USE DEF Upsert, index
<1>0. BatchOf(m) \subseteq source[m]
  BY Requests DEF IInv, TypeOK
<1>1. points' \subseteq points \cup source[m]
  BY <1>0, UpsertAddsNew
<1>2. Searchable' = Searchable /\ (OnlyCurrent' <=> OnlyCurrent)
  BY DEF Searchable, OnlyCurrent, Current
<1>3. TypeOK'
  BY <1>1, Requests DEF IInv, TypeOK, Disturbs
<1>4. StagesOfKind' /\ IdleIsEmpty'
  BY DEF IInv, StagesOfKind, IdleIsEmpty
<1>5. Settled'
  BY <1>1, <1>2 DEF IInv, Settled, OnlyCurrent, Current
<1>6. Calm'
  BY <1>2 DEF IInv, Calm, Current
<1>7. \A o \in Indexers : alone'[o] => o = m /\ alone[o]
  BY DEF Disturbs
<1>8. Alone'
  BY <1>1, <1>2, <1>7 DEF IInv, Alone
<1> QED BY <1>3, <1>4, <1>5, <1>6, <1>8 DEF IInv

LEMMA DeleteStep ==
  ASSUME IInv, NEW m \in Indexers, Delete(m)
  PROVE  IInv'
<1> USE DEF Delete, index, work, Goto
<1>1. points' \subseteq points /\ points' = points \ (existing[m] \ source[m])
  BY DEF StaleIds
<1>2. Searchable' = Searchable /\ (OnlyCurrent' <=> OnlyCurrent)
  BY DEF Searchable, OnlyCurrent, Current
<1>3. TypeOK'
  BY <1>1 DEF IInv, TypeOK, Disturbs, Processes, IndexStages
<1>4. pc[m] = "upsert" /\ pc'[m] = "count" /\ \A p \in Processes \ {m} : pc'[p] = pc[p]
  BY DEF IInv, TypeOK, Processes
<1>5. StagesOfKind' /\ IdleIsEmpty'
  BY <1>4, ProcessAssumption
     DEF IInv, StagesOfKind, IdleIsEmpty, IndexStages, Processes
<1>6. Settled'
  BY <1>1, <1>2 DEF IInv, Settled, Current
<1>7. Calm'
  BY <1>2, <1>4, ProcessAssumption DEF IInv, Calm, Current, Processes
<1>8. \A o \in Indexers : alone'[o] => alone[o] /\ (o = m \/ points' = points)
  BY DEF Disturbs
<1>9. Alone'
  BY <1>1, <1>2, <1>4, <1>8 DEF IInv, Alone, Processes
<1> QED BY <1>3, <1>5, <1>6, <1>7, <1>9 DEF IInv

----------------------------------------------------------------------------
\* What the end of a materialization keeps, however it ends.
LEMMA ResetFacts ==
  ASSUME IInv, NEW m \in Indexers, Reset(m)
  PROVE  /\ Searchable' = Searchable
         /\ pc' \in [Processes -> IndexStages \cup SearchStages]
         /\ rev' \in [Processes -> Revisions \cup {Absent}]
         /\ source' \in [Indexers -> SUBSET Points]
         /\ left' \in [Indexers -> SUBSET Points]
         /\ existing' \in [Indexers -> SUBSET Points]
         /\ status' = status /\ chunk' = chunk /\ found' = found
         /\ pc'[m] = "idle" /\ source'[m] = {} /\ left'[m] = {}
         /\ \A p \in Processes \ {m} : pc'[p] = pc[p]
         /\ \A o \in Indexers \ {m} : /\ source'[o] = source[o]
                                      /\ left'[o] = left[o]
                                      /\ existing'[o] = existing[o]
<1> USE DEF Reset, Goto, index
<1>1. Searchable' = Searchable
  BY DEF Searchable
<1>2. /\ pc' \in [Processes -> IndexStages \cup SearchStages]
      /\ rev' \in [Processes -> Revisions \cup {Absent}]
      /\ pc'[m] = "idle"
      /\ \A p \in Processes \ {m} : pc'[p] = pc[p]
  BY DEF IInv, TypeOK, Processes, IndexStages
<1>3. /\ source' \in [Indexers -> SUBSET Points]
      /\ left' \in [Indexers -> SUBSET Points]
      /\ existing' \in [Indexers -> SUBSET Points]
      /\ source'[m] = {} /\ left'[m] = {}
  BY DEF IInv, TypeOK
<1>4. \A o \in Indexers \ {m} : /\ source'[o] = source[o]
                                /\ left'[o] = left[o]
                                /\ existing'[o] = existing[o]
  BY DEF IInv, TypeOK
<1> QED BY <1>1, <1>2, <1>3, <1>4

LEMMA EndStep ==
  ASSUME IInv, NEW m \in Indexers, Succeed(m) \/ Mismatch(m) \/ Abandon(m)
  PROVE  IInv'
<1>1. Reset(m) /\ UNCHANGED <<points, late, calm, alone>>
  BY DEF Succeed, Mismatch, Abandon
<1>2. settled' = settled \/ (settled' = TRUE /\ alone[m] /\ pc[m] = "count")
  BY DEF Succeed, Mismatch, Abandon, IInv, TypeOK
<1>3. OnlyCurrent => OnlyCurrent'
  BY <1>1, ResetFacts DEF OnlyCurrent, Current
<1>4. TypeOK'
  BY <1>1, <1>2, ResetFacts DEF IInv, TypeOK
<1>5. StagesOfKind' /\ IdleIsEmpty'
  BY <1>1, ResetFacts, ProcessAssumption
     DEF IInv, StagesOfKind, IdleIsEmpty, IndexStages, Processes
<1>6. Settled'
  <2>1. alone[m] /\ pc[m] = "count" => OnlyCurrent /\ Current(points)
    BY DEF IInv, Alone, OnlyCurrent, Current
  <2>2. settled' => OnlyCurrent /\ Current(points)
    BY <2>1, <1>2 DEF IInv, Settled
  <2> QED BY <2>2, <1>1, <1>3, ResetFacts DEF Settled, Current
<1>7. Calm'
  BY <1>1, <1>2, ResetFacts, ProcessAssumption DEF IInv, Calm, Current, Processes
<1>8. Alone'
  BY <1>1, <1>3, ResetFacts DEF IInv, Alone, Processes
<1> QED BY <1>4, <1>5, <1>6, <1>7, <1>8 DEF IInv

LEMMA TimeOutStep ==
  ASSUME IInv, NEW m \in Indexers, TimeOut(m)
  PROVE  IInv'
<1>1. Reset(m) /\ UNCHANGED <<points, settled, calm>>
      /\ alone' = [o \in Indexers |-> FALSE]
  BY DEF TimeOut
<1>2. PICK l \in {[kind |-> "upsert", points |-> BatchOf(m)],
                  [kind |-> "delete", points |-> StaleIds(m)]} :
        late' = late \cup {l}
  BY DEF TimeOut
<1>3. BatchOf(m) \subseteq source[m] /\ StaleIds(m) \subseteq existing[m]
  BY Requests DEF IInv, TypeOK
<1>4. source[m] \subseteq Points /\ existing[m] \subseteq Points
  BY DEF IInv, TypeOK
<1>5. l \in [kind : {"upsert", "delete"}, points : SUBSET Points]
      /\ (l.kind = "upsert" => l.points \subseteq source[m])
  BY <1>3, <1>4
<1>6. TypeOK'
  BY <1>1, <1>2, <1>5, ResetFacts DEF IInv, TypeOK
<1>7. OnlyCurrent => OnlyCurrent'
  BY <1>1, <1>2, <1>5, ResetFacts DEF OnlyCurrent, Current
<1>8. StagesOfKind' /\ IdleIsEmpty'
  BY <1>1, ResetFacts, ProcessAssumption
     DEF IInv, StagesOfKind, IdleIsEmpty, IndexStages, Processes
<1>9. Settled' /\ Alone'
  BY <1>1, <1>7, ResetFacts DEF IInv, Settled, Alone, Current
<1>10. Calm'
  BY <1>1, ResetFacts, ProcessAssumption DEF IInv, Calm, Current, Processes
<1> QED BY <1>6, <1>8, <1>9, <1>10 DEF IInv

LEMMA LandStep ==
  ASSUME IInv, NEW l \in late, Land(l)
  PROVE  IInv'
<1> USE DEF Land, index, work
<1>1. points' \subseteq points \cup l.points
      /\ (l.kind # "upsert" => points' \subseteq points)
  BY UpsertAddsNew
<1>2. l \in [kind : {"upsert", "delete"}, points : SUBSET Points]
  BY DEF IInv, TypeOK
<1>3. Searchable' = Searchable /\ (OnlyCurrent => OnlyCurrent')
  BY DEF Searchable, OnlyCurrent, Current
<1>4. TypeOK'
  BY <1>1, <1>2 DEF IInv, TypeOK
<1>5. StagesOfKind' /\ IdleIsEmpty'
  BY DEF IInv, StagesOfKind, IdleIsEmpty
<1>6. Settled'
  BY <1>1, <1>3 DEF IInv, Settled, OnlyCurrent, Current
<1>7. Calm' /\ Alone'
  BY <1>3 DEF IInv, Calm, Alone, Current
<1> QED BY <1>4, <1>5, <1>6, <1>7 DEF IInv

----------------------------------------------------------------------------
LEMMA SearchStep ==
  ASSUME IInv, NEW q \in Searchers,
         (\E r \in Revisions : Query(q, r)) \/ Fetch(q) \/ EndSearch(q)
  PROVE  IInv'
<1>1. UNCHANGED <<status, chunk, points, source, left, existing, late, settled, alone>>
  BY DEF Query, Fetch, EndSearch, index, work
<1>2. Searchable' = Searchable /\ (OnlyCurrent' <=> OnlyCurrent)
  BY <1>1 DEF Searchable, OnlyCurrent, Current
<1>3. \E stage \in SearchStages : pc' = [pc EXCEPT ![q] = stage]
  BY DEF Query, Fetch, EndSearch, Goto, SearchStages
<1>4. /\ rev' \in [Processes -> Revisions \cup {Absent}]
      /\ found' \in [Searchers -> SUBSET Points]
      /\ calm' \in [Searchers -> BOOLEAN]
  <2>1. CASE \E r \in Revisions : Query(q, r)
    BY <2>1 DEF Query, IInv, TypeOK, Processes
  <2>2. CASE Fetch(q)
    BY <2>2 DEF Fetch, work, IInv, TypeOK
  <2>3. CASE EndSearch(q)
    BY <2>3 DEF EndSearch, IInv, TypeOK, Processes
  <2> QED BY <2>1, <2>2, <2>3
<1>5. \A p \in Processes \ {q} : pc'[p] = pc[p]
  BY <1>3 DEF IInv, TypeOK
<1>6. \A m \in Indexers : pc'[m] = pc[m]
  BY <1>5, ProcessAssumption DEF Processes
<1>7. TypeOK'
  BY <1>1, <1>3, <1>4 DEF IInv, TypeOK, Processes
<1>8. StagesOfKind' /\ IdleIsEmpty'
  BY <1>1, <1>3, <1>6 DEF IInv, StagesOfKind, IdleIsEmpty, TypeOK, Processes
<1>9. Settled' /\ Alone'
  BY <1>1, <1>2, <1>6 DEF IInv, Settled, Alone, Current
<1>10. Calm'
  <2>1. \A o \in Searchers \ {q} : /\ found'[o] = found[o]
                                   /\ calm'[o] = calm[o]
                                   /\ pc'[o] = pc[o]
    BY <1>5 DEF Query, Fetch, EndSearch, IInv, TypeOK, Processes
  <2>2. calm'[q] => settled' /\ Current(found[q])' /\ pc'[q] # "refused"
    <3>1. CASE \E r \in Revisions : Query(q, r)
      BY <3>1, <1>1, <1>2
         DEF Query, Goto, IInv, TypeOK, Settled, Current, Processes
    <3>2. CASE Fetch(q)
      BY <3>2, <1>1, <1>2
         DEF Fetch, Goto, IInv, TypeOK, Calm, Current, Processes
    <3>3. CASE EndSearch(q)
      BY <3>3 DEF EndSearch, IInv, TypeOK
    <3> QED BY <3>1, <3>2, <3>3
  <2> QED BY <2>1, <2>2, <1>1, <1>2 DEF IInv, Calm, Current
<1> QED BY <1>7, <1>8, <1>9, <1>10 DEF IInv

LEMMA StutterStep ==
  ASSUME IInv, UNCHANGED vars
  PROVE  IInv'
<1>1. Searchable' = Searchable /\ OnlyCurrent' = OnlyCurrent
  BY DEF vars, Searchable, OnlyCurrent, Current
<1> QED BY <1>1 DEF vars, IInv, TypeOK, StagesOfKind, IdleIsEmpty, Settled, Calm,
                    Alone, Current

LEMMA NextIInv == IInv /\ [Next]_vars => IInv'
<1> SUFFICES ASSUME IInv, [Next]_vars PROVE IInv'
  OBVIOUS
<1>1. ASSUME NEW d \in Docs, MarkIndexed(d) \/ MarkOther(d) PROVE IInv'
  BY <1>1, MarkStep
<1>2. ASSUME NEW d \in Docs, NEW r \in Revisions, Store(d, r) PROVE IInv'
  BY <1>2, StoreStep
<1>3. ASSUME NEW m \in Indexers, NEW r \in Revisions, Load(m, r) PROVE IInv'
  BY <1>3, LoadStep
<1>4. ASSUME NEW m \in Indexers, Proceed(m) PROVE IInv'
  BY <1>4, ScrollStep, UpsertStep, DeleteStep, EndStep DEF Proceed
<1>5. ASSUME NEW m \in Indexers, Abandon(m) PROVE IInv'
  BY <1>5, EndStep
<1>6. ASSUME NEW m \in Indexers, TimeOut(m) PROVE IInv'
  BY <1>6, TimeOutStep
<1>7. ASSUME NEW l \in late, Land(l) PROVE IInv'
  BY <1>7, LandStep
<1>8. ASSUME NEW q \in Searchers,
             (\E r \in Revisions : Query(q, r)) \/ Fetch(q) \/ EndSearch(q)
      PROVE  IInv'
  BY <1>8, SearchStep
<1>9. CASE UNCHANGED vars
  BY <1>9, StutterStep
<1> HIDE DEF IInv
<1> QED
  BY <1>1, <1>2, <1>3, <1>4, <1>5, <1>6, <1>7, <1>8, <1>9 DEF Next

\* The inductive invariant holds in every reachable state.
THEOREM MaterializationInvariant == Spec => []IInv
BY InitIInv, NextIInv, PTL DEF Spec

\* Every variable keeps its type, and a request carries only loaded points.
THEOREM TypeCorrect == Spec => []TypeOK
<1>1. IInv => TypeOK
  BY DEF IInv
<1> QED BY <1>1, MaterializationInvariant, PTL

\* A search fails closed only if the index changed after the last undisturbed run,
\* for any number of processes, crashes and late requests.
THEOREM RefusalsAreCaused == Spec => []RefusalsHaveACause
<1>1. IInv => RefusalsHaveACause
  BY DEF IInv, Calm, RefusalsHaveACause
<1> QED BY <1>1, MaterializationInvariant, PTL

----------------------------------------------------------------------------
\* An undisturbed materialization has loaded what a SELECT would return now.
Fresher ==
  \A m \in Indexers : alone[m] /\ pc[m] # "idle" => source[m] = Wanted(rev[m])

\* Steps of others leave what m loaded; the index cannot have changed unnoticed.
LEMMA StillFresh ==
  ASSUME Fresher, NEW m \in Indexers, UNCHANGED <<status, chunk>>,
         \A o \in Indexers \ {m} :
           alone'[o] => /\ alone[o] /\ pc'[o] = pc[o]
                        /\ rev'[o] = rev[o] /\ source'[o] = source[o],
         alone'[m] /\ pc'[m] # "idle" => source'[m] = Wanted(rev'[m])
  PROVE  Fresher'
<1>1. \A r : Wanted(r)' = Wanted(r)
  BY DEF Wanted, Searchable
<1>2. ASSUME NEW o \in Indexers, alone'[o], pc'[o] # "idle"
      PROVE  (source[o] = Wanted(rev[o]))'
  <2>1. CASE o = m
    BY <1>2, <2>1 DEF Wanted, Searchable
  <2>2. CASE o # m
    BY <1>1, <1>2, <2>2 DEF Fresher, Wanted, Searchable
  <2> QED BY <2>1, <2>2
<1> QED BY <1>2 DEF Fresher

LEMMA FresherStep == IInv /\ Fresher /\ [Next]_vars => Fresher'
<1> SUFFICES ASSUME IInv, Fresher, [Next]_vars PROVE Fresher'
  OBVIOUS
<1>0. TypeOK
  BY DEF IInv
<1>1. ASSUME Changed PROVE Fresher'
  BY <1>1 DEF Changed, Fresher
<1>2. ASSUME NEW m \in Indexers, NEW r \in Revisions, Load(m, r) PROVE Fresher'
  <2>1. source'[m] = Wanted(r) /\ rev'[m] = r
    BY <1>0, <1>2 DEF Load, TypeOK, Processes
  <2>2. \A o \in Indexers \ {m} : /\ alone'[o] = alone[o] /\ pc'[o] = pc[o]
                                  /\ rev'[o] = rev[o] /\ source'[o] = source[o]
    BY <1>0, <1>2 DEF Load, Goto, TypeOK, Processes
  <2>3. UNCHANGED <<status, chunk>>
    BY <1>2 DEF Load, index
  <2> QED BY <2>1, <2>2, <2>3, StillFresh
<1>3. ASSUME NEW m \in Indexers, Scroll(m) \/ Upsert(m) \/ Delete(m)
      PROVE  Fresher'
  <2>1. UNCHANGED <<status, chunk, rev, source>>
    BY <1>3 DEF Scroll, Upsert, Delete, index, work
  <2>2. \A o \in Indexers : alone'[o] => alone[o]
    BY <1>0, <1>3 DEF Scroll, Upsert, Delete, Disturbs
  <2>3. pc[m] # "idle" /\ \A o \in Indexers \ {m} : pc'[o] = pc[o]
    BY <1>0, <1>3 DEF Scroll, Upsert, Delete, Goto, TypeOK, Processes
  <2>4. Wanted(rev[m]) = Wanted(rev'[m])
    BY <2>1
  <2> QED BY <2>1, <2>2, <2>3, <2>4, StillFresh DEF Fresher
<1>4. ASSUME NEW m \in Indexers,
             Succeed(m) \/ Mismatch(m) \/ Abandon(m) \/ TimeOut(m)
      PROVE  Fresher'
  <2>1. Reset(m) /\ \A o \in Indexers : alone'[o] => alone[o]
    BY <1>4 DEF Succeed, Mismatch, Abandon, TimeOut
  <2>2. /\ pc'[m] = "idle"
        /\ UNCHANGED <<status, chunk>>
        /\ \A o \in Indexers \ {m} : pc'[o] = pc[o] /\ source'[o] = source[o]
    BY <2>1, ResetFacts DEF Processes
  <2>3. \A o \in Indexers \ {m} : rev'[o] = rev[o]
    BY <1>0, <2>1 DEF Reset, TypeOK, Processes
  <2> QED BY <2>1, <2>2, <2>3, StillFresh
<1>5. ASSUME NEW l \in late, Land(l) PROVE Fresher'
  BY <1>5 DEF Land, Fresher
<1>6. ASSUME NEW q \in Searchers,
             (\E r \in Revisions : Query(q, r)) \/ Fetch(q) \/ EndSearch(q)
      PROVE  Fresher'
  <2>1. UNCHANGED <<status, chunk, source, alone>>
    BY <1>6 DEF Query, Fetch, EndSearch, index, work
  <2>2. \A m \in Indexers : pc'[m] = pc[m] /\ rev'[m] = rev[m]
    BY <1>0, <1>6, ProcessAssumption
       DEF Query, Fetch, EndSearch, Goto, TypeOK, Processes
  <2>3. \A r : Wanted(r)' = Wanted(r)
    BY <2>1 DEF Wanted, Searchable
  <2> QED BY <2>1, <2>2, <2>3 DEF Fresher, Wanted, Searchable
<1>7. CASE UNCHANGED vars
  BY <1>7 DEF vars, Fresher, Wanted, Searchable
<1> QED
  BY <1>1, <1>2, <1>3, <1>4, <1>5, <1>6, <1>7
     DEF Next, Proceed, Store, MarkIndexed, MarkOther

\* A table of chunks is finite, as every table is.
FinitelyManyChunks == IsFiniteSet(Slots)

LEMMA SearchableIsFinite ==
  ASSUME FinitelyManyChunks
  PROVE  IsFiniteSet(Searchable)
<1> DEFINE rows == {chunk[s] : s \in Slots}
           row == [s \in Slots |-> chunk[s]]
<1>1. row \in Surjection(Slots, rows)
  BY DEF Surjection
<1> HIDE DEF row
<1>2. IsFiniteSet(rows)
  BY <1>1, FS_Surjection DEF FinitelyManyChunks
<1>3. Searchable \in SUBSET rows
  BY DEF Searchable
<1> QED BY <1>2, <1>3, FS_Subset

\* The counts a run compares are only numbers, yet a run nobody disturbs leaves
\* exactly the searchable chunks of its revision: it has left no other point in
\* the collection, so equal counts mean equal sets.
THEOREM QuietRunsReconcile ==
  ASSUME FinitelyManyChunks
  PROVE  Spec => QuietRunReconciles
<1>1. ASSUME IInv, Fresher, NEW m \in Indexers, Succeeds(m), alone[m]
      PROVE  points = {c \in Searchable : c.rev = rev[m]}
  <2>1. pc[m] = "count" /\ Cardinality(points) = Cardinality(source[m])
    BY <1>1 DEF Succeeds, Valid
  <2>2. source[m] = Wanted(rev[m])
    BY <1>1, <2>1 DEF Fresher
  <2>3. points \in SUBSET source[m]
    BY <1>1, <2>1 DEF IInv, Alone
  <2>4. IsFiniteSet(source[m])
    BY <2>2, SearchableIsFinite, FS_Subset DEF Wanted
  <2>5. points = source[m]
    BY <2>1, <2>3, <2>4, FS_Subset
  <2> QED BY <2>2, <2>5 DEF Wanted
<1>2. IInv /\ Fresher =>
        [\A m \in Indexers : Succeeds(m) /\ alone[m] =>
           points = {c \in Searchable : c.rev = rev[m]}]_vars
  BY <1>1
<1>3. Init => Fresher
  BY DEF Init, Fresher
<1> QED
  BY <1>2, <1>3, FresherStep, MaterializationInvariant, PTL
     DEF Spec, QuietRunReconciles

=============================================================================
