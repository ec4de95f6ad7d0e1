----------------------- MODULE AgentRuntimeV2_proofs -----------------------
(***************************************************************************)
(* Theorems of AgentRuntimeV2, for every set of texts, every bound on the  *)
(* evidence, every set of verdicts and both retry settings.                *)
(*                                                                         *)
(* The first part is about one transition: an action the resolver allows   *)
(* stays within the budgets, so the transition is the one of its last two  *)
(* branches.  The invariant then has five parts: DecisionInv counts the    *)
(* requests of a decision, ControlInv ties the decisions, the executed     *)
(* actions and the authorized one to the place in the loop, CountInv the   *)
(* counters to the history, GroundInv the evidence and its verdict to the  *)
(* last search, and ReportInv the reported status to the state.            *)
(***************************************************************************)
EXTENDS AgentRuntimeV2, FiniteSetTheorems, TLAPS

Policies == [attempt : 0 .. 2, retries : 0 .. 1, requests : 0 .. 3]

DecisionInv ==
  /\ policy.requests <= MaxStructuralRepairs + 1 + MaxTransportRetries
  /\ policy.retries <= MaxTransportRetries
  /\ pc \in {"start", "deciding"} =>
       policy.attempt <= 1 /\ policy.requests <= policy.attempt + policy.retries

BegunInv ==
  /\ begun.step = 0 /\ begun.rewrites = 0 /\ begun.graphs = 0
  /\ begun.hops = 0 /\ begun.structures = 0

\* The action that is executed is one the guard allowed in this state.
Authorized ==
  /\ Eligible(action.name, state, obs, history)
  /\ action.name \in RetrievalActions => action.query = state.query

ControlInv ==
  /\ obs = Observe(state)
  /\ decisions = Len(history) + One(pc = "executing") \/ pc = "done"
  /\ decisions <= MaxDecisions /\ Len(history) <= decisions
  /\ pc # "done" => result = "none"
  /\ pc = "start" => state = begun /\ history = <<>> /\ decisions = 0
  /\ pc \in {"deciding", "executing"} =>
       sameRun /\ state.status = "running" /\ state.step < MaxSteps
  /\ pc = "executing" => Authorized
  /\ history # <<>> => sameRun

CountInv ==
  /\ state.step = begun.step + Len(history)
  /\ state.retrievals = begun.retrievals + Times(RetrievalActions)
  /\ state.graphs = begun.graphs + Times({"graph_search"})
  /\ state.rewrites = begun.rewrites + Times({"rewrite_query"})
  /\ state.hops = state.graphs /\ state.structures <= state.retrievals

GroundInv ==
  /\ state.verdict = found.verdict
  /\ state.evidence \in {0, found.evidence}
  /\ snapshot \in {0, found.evidence}
  /\ state.rewrites = 0 => state.query = begun.query
  /\ found.query = state.query \/ (found.query = begun.query /\ state.rewrites = 1)
  /\ (state.status = "finished" /\ history # <<>>) =>
       state.evidence > 0 /\ state.verdict \in Sufficient

ReportInv ==
  /\ ReportsAgree
  /\ (pc # "done" /\ history # <<>>) => state.status = "running"

IInv ==
  /\ TypeOK /\ BegunInv
  /\ DecisionInv /\ ControlInv /\ CountInv /\ GroundInv /\ ReportInv

----------------------------------------------------------------------------
\* What one transition does.

\* State e counts action p beside what state s has.
CountsAction(s, p, e) ==
  /\ e \in AgentState /\ WithinBudget(e)
  /\ e.step = s.step + 1
  /\ e.retrievals = s.retrievals + One(p.name \in RetrievalActions)
  /\ e.graphs = s.graphs + One(p.name = "graph_search")
  /\ e.rewrites = s.rewrites + One(p.name = "rewrite_query")
  /\ e.hops = e.graphs /\ e.structures <= e.retrievals
  /\ e.query = s.query /\ e.evidence = s.evidence /\ e.verdict = s.verdict
  /\ e.status = s.status

\* Its first assignment counts the action, and an allowed action fits.
LEMMA CountedIs ==
  ASSUME NEW s \in AgentState, NEW o, NEW h, NEW p \in Action, NEW r,
         Eligible(p.name, s, o, h), s.step < MaxSteps,
         s.hops = s.graphs, s.structures <= s.retrievals,
         NEW e, e = Counted(s, p, r)
  PROVE  CountsAction(s, p, e)
<1> DEFINE a == One(p.name \in RetrievalActions)
           b == One(p.name = "structure_search")
           c == One(p.name = "graph_search")
           d == One(p.name = "rewrite_query")
<1>1. /\ s.step \in 0 .. 3 /\ s.step < 3 /\ s.retrievals \in 0 .. 2
      /\ s.structures \in 0 .. 2 /\ s.graphs \in 0 .. 1 /\ s.hops \in 0 .. 1
      /\ s.rewrites \in 0 .. 1
  BY DEF AgentState, MaxSteps, MaxRetrievals, MaxGraphCalls, MaxGraphHops, MaxRewrites
<1>2. a \in 0 .. 1 /\ b \in 0 .. 1 /\ c \in 0 .. 1 /\ d \in 0 .. 1 /\ b <= a
  BY DEF One, RetrievalActions
<1>3. s.retrievals + a <= 2
  <2>1. CASE p.name \in RetrievalActions
    BY <1>1, <2>1 DEF Eligible, MaxRetrievals, One
  <2>2. CASE p.name \notin RetrievalActions
    BY <1>1, <2>2 DEF One
  <2>3. QED
    BY <2>1, <2>2
<1>4. s.graphs + c <= 1 /\ s.hops + c <= 1
  <2>1. CASE p.name = "graph_search"
    BY <1>1, <2>1 DEF Eligible, MaxGraphCalls, MaxGraphHops, One
  <2>2. CASE p.name # "graph_search"
    BY <1>1, <2>2 DEF One
  <2>3. QED
    BY <2>1, <2>2
<1>5. s.rewrites + d <= 1
  <2>1. CASE p.name = "rewrite_query"
    BY <1>1, <2>1 DEF Eligible, MaxRewrites, One
  <2>2. CASE p.name # "rewrite_query"
    BY <1>1, <2>2 DEF One
  <2>3. QED
    BY <2>1, <2>2
<1>6. e =
        [s EXCEPT !.step = @ + 1, !.retrievals = @ + a, !.structures = @ + b,
                  !.graphs = @ + c, !.hops = @ + c, !.rewrites = @ + d]
  BY DEF Counted
<1> HIDE DEF a, b, c, d
<1>7. e =
        [query |-> s.query, step |-> s.step + 1, previous |-> s.previous,
         retrievals |-> s.retrievals + a, structures |-> s.structures + b,
         graphs |-> s.graphs + c, hops |-> s.hops + c,
         rewrites |-> s.rewrites + d, evidence |-> s.evidence,
         verdict |-> s.verdict, status |-> s.status]
  BY <1>6 DEF AgentState
<1>8. /\ s.step + 1 \in 0 .. 3 /\ s.retrievals + a \in 0 .. 2
      /\ s.structures + b \in 0 .. 2 /\ s.graphs + c \in 0 .. 1
      /\ s.hops + c \in 0 .. 1 /\ s.rewrites + d \in 0 .. 1
      /\ s.structures + b <= s.retrievals + a /\ s.hops + c = s.graphs + c
  BY <1>1, <1>2, <1>3, <1>4, <1>5
<1>9. e \in AgentState
  BY <1>7, <1>8
     DEF AgentState, MaxSteps, MaxRetrievals, MaxGraphCalls, MaxGraphHops, MaxRewrites
<1>10. WithinBudget(e)
  BY <1>7, <1>8
     DEF WithinBudget, MaxSteps, MaxRetrievals, MaxGraphCalls, MaxGraphHops, MaxRewrites
<1>11. QED
  BY <1>7, <1>8, <1>9, <1>10 DEF CountsAction, a, c, d

\* The result of a tool is typed; what is not a search finds nothing new.
LEMMA ToolResultsAre ==
  ASSUME NEW p \in Action, NEW n \in Nat, NEW sig \in BOOLEAN,
         NEW r \in ToolResults(p, n, sig)
  PROVE  /\ r.status \in {"success", "no_result", "failed"}
         /\ r.evidence \in Nat /\ r.query = p.query
         /\ p.name = "inspect_evidence" => r.evidence = n
         /\ p.name \notin RetrievalActions =>
              r.evidence \in {0, n} /\ r.status # "failed"
<1>1. CASE p.name \in RetrievalActions
  <2>1. r \in SearchResults(p, sig)
    BY <1>1 DEF ToolResults
  <2>2. /\ r.status \in {"success", "no_result", "failed"}
        /\ r.evidence \in 0 .. MaxEvidence /\ r.query = p.query
    BY <2>1, EvidenceAssumption DEF SearchResults
  <2>3. QED
    BY <1>1, <2>2, EvidenceAssumption DEF RetrievalActions
<1>2. CASE p.name \notin RetrievalActions
  <2>1. CASE p.name = "inspect_evidence"
    BY <1>2, <2>1 DEF ToolResults
  <2>2. CASE p.name # "inspect_evidence"
    BY <1>2, <2>2 DEF ToolResults
  <2>3. QED
    BY <2>1, <2>2
<1>3. QED
  BY <1>1, <1>2

LEMMA SignalsAre ==
  ASSUME NEW p \in Action, NEW r, NEW sig, NEW v \in Signals(p, r, sig)
  PROVE  v \in Verdicts
BY VerdictsAssumption DEF Signals, Verdicts

LEMMA InformedIs ==
  ASSUME NEW c \in AgentState, NEW p \in Action, NEW r, r.evidence \in Nat,
         r.query = p.query, NEW v \in Verdicts,
         NEW i, i = Informed(c, p, r, v)
  PROVE  /\ i \in AgentState
         /\ i.step = c.step /\ i.retrievals = c.retrievals /\ i.graphs = c.graphs
         /\ i.rewrites = c.rewrites /\ i.hops = c.hops /\ i.structures = c.structures
         /\ i.previous = c.previous
         /\ i.query = IF p.name = "rewrite_query" THEN p.query ELSE c.query
         /\ i.evidence = IF p.name \in RetrievalActions \cup {"inspect_evidence"}
                         THEN r.evidence ELSE c.evidence
         /\ i.verdict = IF p.name \in RetrievalActions THEN v ELSE c.verdict
         /\ i.status = IF p.name = "finish" THEN "finished"
                       ELSE IF p.name = "abstain" THEN "abstained" ELSE c.status
<1>1. p.name \in ActionNames /\ p.query \in Queries
  BY DEF Action
<1>2. CASE p.name \in RetrievalActions
  <2>1. i = [c EXCEPT !.evidence = r.evidence, !.verdict = v]
    BY <1>2 DEF Informed
  <2>2. QED
    BY <1>2, <2>1 DEF AgentState, RetrievalActions
<1>3. CASE p.name = "inspect_evidence"
  <2>1. i = [c EXCEPT !.evidence = r.evidence]
    BY <1>3 DEF Informed, RetrievalActions
  <2>2. QED
    BY <1>3, <2>1 DEF AgentState, RetrievalActions
<1>4. CASE p.name = "rewrite_query"
  <2>1. i = [c EXCEPT !.query = p.query]
    BY <1>4 DEF Informed, RetrievalActions
  <2>2. QED
    BY <1>1, <1>4, <2>1 DEF AgentState, RetrievalActions
<1>5. CASE p.name = "finish"
  <2>1. i = [c EXCEPT !.status = "finished"]
    BY <1>5 DEF Informed, RetrievalActions
  <2>2. QED
    BY <1>5, <2>1 DEF AgentState, RetrievalActions
<1>6. CASE p.name = "abstain"
  <2>1. i = [c EXCEPT !.status = "abstained"]
    BY <1>6 DEF Informed, RetrievalActions
  <2>2. QED
    BY <1>6, <2>1 DEF AgentState, RetrievalActions
<1>7. QED
  BY <1>1, <1>2, <1>3, <1>4, <1>5, <1>6 DEF ActionNames

\* What the transition t makes of state s after action p with result r and verdict v.
StepsTo(s, p, r, v, t) ==
  /\ t.state \in AgentState
  /\ t.state.step = s.step + 1
  /\ t.state.retrievals = s.retrievals + One(p.name \in RetrievalActions)
  /\ t.state.graphs = s.graphs + One(p.name = "graph_search")
  /\ t.state.rewrites = s.rewrites + One(p.name = "rewrite_query")
  /\ t.state.hops = t.state.graphs /\ t.state.structures <= t.state.retrievals
  /\ t.state.query = IF p.name = "rewrite_query" THEN p.query ELSE s.query
  /\ t.state.evidence = IF p.name \in RetrievalActions \cup {"inspect_evidence"}
                        THEN r.evidence ELSE s.evidence
  /\ t.state.verdict = IF p.name \in RetrievalActions THEN v ELSE s.verdict
  /\ \/ /\ t.state.status = "failed" /\ t.ended = "budget_exhausted"
        /\ t.state.step = MaxSteps
     \/ /\ p.name = "finish" /\ t.state.status = "finished"
        /\ t.ended = "finished"
     \/ /\ p.name = "abstain" /\ t.state.status = "abstained"
        /\ t.ended = "abstained"
     \/ t.state.status = "running" /\ t.ended = "no"

\* The transition of an allowed action is never the one of a violated budget.
LEMMA TransitionIs ==
  ASSUME NEW s \in AgentState, NEW o, NEW h, NEW p \in Action,
         Eligible(p.name, s, o, h), s.step < MaxSteps,
         s.hops = s.graphs, s.structures <= s.retrievals,
         NEW n \in Nat, NEW sig \in BOOLEAN,
         NEW r \in ToolResults(p, n, sig), NEW v \in Signals(p, r, sig),
         NEW t, t = Transition(s, p, r, v)
  PROVE  StepsTo(s, p, r, v, t)
<1> DEFINE c == Counted(s, p, r)
           i == Informed(c, p, r, v)
           next == [i EXCEPT !.previous = Append(@, p.name)]
<1>1. s.status = "running"
  BY DEF Eligible
<1>2. /\ r.evidence \in Nat /\ r.query = p.query /\ p.name \in ActionNames
      /\ p.name \notin RetrievalActions => r.status # "failed"
  BY ToolResultsAre DEF Action
<1>3. v \in Verdicts
  BY SignalsAre
<1>4. /\ c \in AgentState /\ WithinBudget(c)
      /\ c.step = s.step + 1
      /\ c.retrievals = s.retrievals + One(p.name \in RetrievalActions)
      /\ c.graphs = s.graphs + One(p.name = "graph_search")
      /\ c.rewrites = s.rewrites + One(p.name = "rewrite_query")
      /\ c.hops = c.graphs /\ c.structures <= c.retrievals
      /\ c.query = s.query /\ c.evidence = s.evidence /\ c.verdict = s.verdict
      /\ c.status = s.status
  <2>1. CountsAction(s, p, c)
    BY CountedIs
  <2>2. QED
    BY <1>1, <2>1 DEF CountsAction
<1>5. t = IF r.status = "failed" /\ c.step >= MaxSteps
          THEN [state |-> [next EXCEPT !.status = "failed"], ended |-> "budget_exhausted"]
          ELSE [state |-> next,
                ended |-> IF p.name \in {"finish", "abstain"} THEN next.status ELSE "no"]
  BY <1>4 DEF Transition
<1> HIDE DEF c
<1>6. /\ i \in AgentState
      /\ i.step = c.step /\ i.retrievals = c.retrievals /\ i.graphs = c.graphs
      /\ i.rewrites = c.rewrites /\ i.hops = c.hops /\ i.structures = c.structures
      /\ i.query = IF p.name = "rewrite_query" THEN p.query ELSE c.query
      /\ i.evidence = IF p.name \in RetrievalActions \cup {"inspect_evidence"}
                      THEN r.evidence ELSE c.evidence
      /\ i.verdict = IF p.name \in RetrievalActions THEN v ELSE c.verdict
      /\ i.status = IF p.name = "finish" THEN "finished"
                    ELSE IF p.name = "abstain" THEN "abstained" ELSE c.status
  BY <1>2, <1>3, <1>4, InformedIs
<1> HIDE DEF i
<1>7. /\ next \in AgentState
      /\ next.step = i.step /\ next.retrievals = i.retrievals /\ next.graphs = i.graphs
      /\ next.rewrites = i.rewrites /\ next.hops = i.hops
      /\ next.structures = i.structures
      /\ next.query = i.query /\ next.evidence = i.evidence
      /\ next.verdict = i.verdict /\ next.status = i.status
  <2>1. Append(i.previous, p.name) \in Seq(ActionNames)
    BY <1>2, <1>6 DEF AgentState
  <2>2. QED
    BY <1>6, <2>1 DEF AgentState
<1> HIDE DEF next
<1>8. CASE r.status = "failed" /\ c.step >= MaxSteps
  <2>1. t.state = [next EXCEPT !.status = "failed"] /\ t.ended = "budget_exhausted"
    BY <1>5, <1>8
  <2>2. /\ t.state \in AgentState /\ t.state.status = "failed"
        /\ t.state.step = next.step /\ t.state.retrievals = next.retrievals
        /\ t.state.graphs = next.graphs /\ t.state.rewrites = next.rewrites
        /\ t.state.hops = next.hops /\ t.state.structures = next.structures
        /\ t.state.query = next.query /\ t.state.evidence = next.evidence
        /\ t.state.verdict = next.verdict
    BY <1>7, <2>1 DEF AgentState
  <2>3. t.state.step = MaxSteps
    <3>1. s.step \in 0 .. 3 /\ s.step < 3
      BY DEF AgentState, MaxSteps
    <3>2. c.step = 3
      BY <1>4, <1>8, <3>1 DEF MaxSteps
    <3>3. QED
      BY <1>6, <1>7, <2>2, <3>2 DEF MaxSteps
  <2>4. QED
    BY <1>4, <1>6, <1>7, <2>1, <2>2, <2>3 DEF StepsTo
<1>9. CASE ~(r.status = "failed" /\ c.step >= MaxSteps)
  <2>1. /\ t.state = next
        /\ t.ended = IF p.name \in {"finish", "abstain"} THEN next.status ELSE "no"
    BY <1>5, <1>9
  <2>2. QED
    BY <1>1, <1>4, <1>6, <1>7, <2>1 DEF StepsTo
<1>10. QED
  BY <1>8, <1>9

\* One more executed action is counted among those with its name.
LEMMA TimesAfter ==
  ASSUME history \in Seq(Action), NEW CONSTANT names,
         history' = Append(history, action)
  PROVE  /\ Times(names) \in Nat
         /\ Times(names)' = Times(names) + One(action.name \in names)
<1> DEFINE old == {i \in DOMAIN history : history[i].name \in names}
           new == {i \in DOMAIN history' : history'[i].name \in names}
           last == Len(history) + 1
<1>1. DOMAIN history = 1 .. Len(history) /\ Len(history) \in Nat
  OBVIOUS
<1>2. IsFiniteSet(old)
  <2>1. IsFiniteSet(1 .. Len(history))
    BY <1>1, FS_Interval
  <2>2. old \in SUBSET (1 .. Len(history))
    BY <1>1
  <2>3. QED
    BY <2>1, <2>2, FS_Subset
<1>3. Cardinality(old) \in Nat
  BY <1>2, FS_CardinalityType
<1>4. Times(names) = Cardinality(old) /\ Times(names)' = Cardinality(new)
  BY DEF Times
<1>5. /\ DOMAIN history' = 1 .. last
      /\ history'[last] = action
      /\ \A i \in 1 .. Len(history) : history'[i] = history[i]
  BY <1>1
<1>6. last \notin old
  BY <1>1
<1>7. CASE action.name \in names
  <2>1. new = old \cup {last}
    BY <1>1, <1>5, <1>7
  <2>2. Cardinality(new) = Cardinality(old) + 1
    BY <1>2, <1>6, <2>1, FS_AddElement
  <2>3. QED
    BY <1>3, <1>4, <1>7, <2>2 DEF One
<1>8. CASE action.name \notin names
  <2>1. new = old
    BY <1>1, <1>5, <1>8
  <2>2. QED
    <3>1. Times(names)' = Times(names) /\ Times(names) \in Nat
      BY <1>3, <1>4, <2>1
    <3>2. One(action.name \in names) = 0
      BY <1>8 DEF One
    <3>3. QED
      BY <3>1, <3>2
<1>9. QED
  BY <1>7, <1>8

----------------------------------------------------------------------------
LEMMA StartsAre ==
  ASSUME NEW b \in Starts
  PROVE  /\ b \in AgentState /\ b.step = 0 /\ b.rewrites = 0 /\ b.graphs = 0
         /\ b.hops = 0 /\ b.structures = 0
<1>1. ASSUME NEW q \in Queries
      PROVE  /\ FreshState(q) \in AgentState
             /\ FreshState(q) =
                  [query |-> q, step |-> 0, previous |-> <<>>, retrievals |-> 0,
                   structures |-> 0, graphs |-> 0, hops |-> 0, rewrites |-> 0,
                   evidence |-> 0, verdict |-> "unknown", status |-> "running"]
  BY DEF FreshState, AgentState, MaxSteps, MaxRetrievals, MaxGraphCalls, MaxGraphHops,
         MaxRewrites, Verdicts
<1>2. CASE b \in {FreshState(q) : q \in Queries}
  <2>1. PICK q \in Queries : b = FreshState(q)
    BY <1>2
  <2>2. QED
    BY <1>1, <2>1
<1>3. CASE b \in {Seeded(q, e, v) : q \in Queries, e \in 0 .. MaxEvidence, v \in SignalVerdicts}
  <2>1. PICK q \in Queries, e \in 0 .. MaxEvidence, v \in SignalVerdicts : b = Seeded(q, e, v)
    BY <1>3
  <2>2. b = [FreshState(q) EXCEPT !.retrievals = 1, !.evidence = e, !.verdict = v]
    BY <2>1 DEF Seeded
  <2>3. e \in Nat /\ v \in Verdicts
    BY EvidenceAssumption, VerdictsAssumption
  <2>4. QED
    <3>1. b = [query |-> q, step |-> 0, previous |-> <<>>, retrievals |-> 1,
               structures |-> 0, graphs |-> 0, hops |-> 0, rewrites |-> 0,
               evidence |-> e, verdict |-> v, status |-> "running"]
      BY <2>2 DEF FreshState
    <3>2. QED
      BY <2>3, <3>1 DEF AgentState, MaxSteps, MaxRetrievals, MaxGraphCalls,
                        MaxGraphHops, MaxRewrites
<1>4. CASE b \in {[FreshState(q) EXCEPT !.status = s] :
                    q \in Queries, s \in {"finished", "abstained", "failed"}}
  <2>1. PICK q \in Queries, s \in {"finished", "abstained", "failed"} :
               b = [FreshState(q) EXCEPT !.status = s]
    BY <1>4
  <2>2. QED
    BY <1>1, <2>1 DEF AgentState
<1>5. QED
  BY <1>2, <1>3, <1>4 DEF Starts

LEMMA ObserveIs ==
  ASSUME NEW s \in AgentState
  PROVE  /\ Observe(s) \in Observation
         /\ Observe(s).query = s.query /\ Observe(s).evidence = s.evidence
         /\ Observe(s).verdict = s.verdict
BY DEF Observe, Observation, AgentState

\* Nothing has been executed in an empty history.
LEMMA TimesOfNothing ==
  ASSUME history = <<>>, NEW CONSTANT names
  PROVE  Times(names) = 0
<1>1. {i \in DOMAIN history : history[i].name \in names} = {}
  OBVIOUS
<1>2. QED
  BY <1>1, FS_EmptySet DEF Times

LEMMA InitInv == Init => IInv
<1> SUFFICES ASSUME Init PROVE IInv
  OBVIOUS
<1>1. /\ begun \in AgentState /\ BegunInv /\ state = begun
      /\ obs = Observe(state) /\ found = Observe(state)
  BY StartsAre DEF Init, BegunInv
<1>2. state \in AgentState /\ Observe(state) \in Observation
  BY <1>1, ObserveIs
<1>3. TypeOK
  <2>1. action \in Action
    BY <1>1 DEF Init, Action, ActionNames, AgentState
  <2>2. policy \in Policies
    BY DEF Init, NewDecision, Policies
  <2>3. QED
    BY <1>1, <1>2, <2>1, <2>2 DEF Init, TypeOK, Policies, MaxDecisions
<1>4. DecisionInv
  BY RetriesAssumption DEF Init, DecisionInv, NewDecision, MaxStructuralRepairs
<1>5. ControlInv
  BY <1>1 DEF Init, ControlInv, One, MaxDecisions
<1>6. CountInv
  BY <1>1, TimesOfNothing DEF Init, CountInv, BegunInv, AgentState
<1>7. GroundInv
  BY <1>1, <1>2, ObserveIs DEF Init, GroundInv
<1>8. ReportInv
  BY DEF Init, ReportInv, ReportsAgree
<1>9. QED
  BY <1>1, <1>3, <1>4, <1>5, <1>6, <1>7, <1>8 DEF IInv

----------------------------------------------------------------------------
\* AgentRunResult takes every report whose counters are in range.
LEMMA ReportIs ==
  ASSUME NEW outcome, NEW s, NEW d, NEW e, Report(outcome, s, d, e),
         s.step <= MaxDecisions, d <= MaxDecisions, e <= MaxDecisions
  PROVE  pc' = "done" /\ result' = outcome
BY DEF Report, Fits

LEMMA StartInv ==
  ASSUME IInv, Start
  PROVE  IInv'
<1> DEFINE outcome == IF ~sameRun THEN "runtime_failure" ELSE Verdict(state, obs)
<1>1. /\ pc = "start" /\ sameRun' = sameRun /\ signalled' = signalled /\ begun' = begun
      /\ state' = state /\ obs' = obs /\ policy' = policy /\ action' = action
      /\ history' = history /\ snapshot' = snapshot /\ decisions' = decisions
      /\ found' = found
  BY DEF Start
<1>2. /\ state = begun /\ history = <<>> /\ decisions = 0 /\ state.step = 0
      /\ obs.query = state.query /\ state.status \in {"running", "finished", "abstained", "failed"}
  BY <1>1, ObserveIs DEF IInv, ControlInv, BegunInv, TypeOK, AgentState
<1>3. \/ pc' = "deciding" /\ result' = "none" /\ sameRun /\ state.status = "running"
      \/ /\ pc' = "done" /\ result' = outcome
         /\ outcome = "runtime_failure" \/ outcome = state.status
         /\ outcome = "runtime_failure" =>
              ~sameRun \/ state.status \notin {"finished", "abstained"}
         /\ outcome \in Outcomes
  <2>1. CASE outcome = "none"
    <3>1. pc' = "deciding" /\ result' = "none"
      BY <1>1, <2>1 DEF Start
    <3>2. sameRun /\ state.status = "running"
      BY <1>2, <2>1 DEF Verdict, Status
    <3>3. QED
      BY <3>1, <3>2
  <2>2. CASE outcome # "none"
    <3>1. Report(outcome, state, 0, 0)
      BY <1>1, <2>2 DEF Start
    <3>2. pc' = "done" /\ result' = outcome
      BY <1>2, <3>1, ReportIs DEF MaxDecisions
    <3>3. outcome = "runtime_failure" \/ outcome = state.status
      BY <1>2, <2>2 DEF Verdict, Status, MaxSteps
    <3>4. outcome = "runtime_failure" => ~sameRun \/ state.status \notin {"finished", "abstained"}
      BY <1>2, <2>2 DEF Verdict, Status
    <3>5. outcome \in Outcomes
      BY <1>2, <2>2 DEF Verdict, Status, MaxSteps, Outcomes
    <3>6. QED
      BY <3>2, <3>3, <3>4, <3>5
  <2>3. QED
    BY <2>1, <2>2
<1> HIDE DEF outcome
<1>4. TypeOK' /\ BegunInv'
  BY <1>1, <1>3 DEF IInv, TypeOK, BegunInv
<1>5. DecisionInv'
  BY <1>1, <1>3 DEF IInv, DecisionInv
<1>6. ControlInv'
  BY <1>1, <1>2, <1>3 DEF IInv, ControlInv, One, MaxSteps
<1>7. CountInv'
  BY <1>1 DEF IInv, CountInv, Times
<1>8. GroundInv'
  BY <1>1 DEF IInv, GroundInv
<1>9. ReportInv'
  BY <1>1, <1>2, <1>3 DEF ReportInv, ReportsAgree, Outcomes
<1>10. QED
  BY <1>4, <1>5, <1>6, <1>7, <1>8, <1>9 DEF IInv

----------------------------------------------------------------------------
\* Where a decision is taken.
LEMMA Deciding ==
  ASSUME IInv, pc = "deciding"
  PROVE  /\ decisions = Len(history) /\ decisions \in 0 .. 2 /\ state.step = decisions
         /\ sameRun /\ state.status = "running" /\ result = "none"
         /\ obs.query = state.query /\ state.step < MaxSteps
         /\ policy.attempt \in 0 .. 1 /\ policy.retries \in 0 .. MaxTransportRetries
         /\ policy.requests \in 0 .. 1 + MaxTransportRetries
         /\ policy.requests <= policy.attempt + policy.retries
<1>1. /\ decisions = Len(history) /\ Len(history) \in Nat /\ state.step = Len(history)
      /\ Len(history) < 3
  BY DEF IInv, TypeOK, ControlInv, CountInv, BegunInv, One, MaxSteps
<1>2. /\ sameRun /\ state.status = "running" /\ result = "none"
      /\ state.step < MaxSteps /\ obs.query = state.query
  BY ObserveIs DEF IInv, TypeOK, ControlInv
<1>3. /\ policy.attempt \in 0 .. 2 /\ policy.retries \in 0 .. 1 /\ policy.requests \in 0 .. 3
      /\ policy.attempt <= 1 /\ policy.retries <= MaxTransportRetries
      /\ policy.requests <= policy.attempt + policy.retries
  BY DEF IInv, TypeOK, DecisionInv
<1>4. QED
  BY <1>1, <1>2, <1>3, RetriesAssumption

LEMMA LoopIs ==
  ASSUME UNCHANGED Loop
  PROVE  /\ sameRun' = sameRun /\ signalled' = signalled /\ begun' = begun
         /\ state' = state /\ obs' = obs /\ history' = history
         /\ snapshot' = snapshot /\ found' = found
BY DEF Loop

\* The parts of the invariant that no decision touches.
LEMMA LoopInv ==
  ASSUME IInv, UNCHANGED Loop
  PROVE  BegunInv' /\ CountInv' /\ GroundInv'
<1>1. BegunInv'
  BY LoopIs DEF IInv, BegunInv
<1>2. CountInv'
  BY LoopIs DEF IInv, CountInv, Times
<1>3. GroundInv'
  BY LoopIs DEF IInv, GroundInv
<1>4. QED
  BY <1>1, <1>2, <1>3

\* The policy is asked again.
LEMMA AskAgainInv ==
  ASSUME IInv, pc = "deciding", UNCHANGED Loop, UNCHANGED <<pc, result, decisions, action>>,
         policy' \in Policies, DecisionInv'
  PROVE  IInv'
<1>1. BegunInv' /\ CountInv' /\ GroundInv'
  BY LoopInv
<1>2. TypeOK'
  BY LoopIs DEF IInv, TypeOK, Policies
<1>3. ControlInv'
  BY LoopIs DEF IInv, ControlInv, Authorized
<1>4. ReportInv'
  BY LoopIs DEF IInv, ReportInv, ReportsAgree
<1>5. QED
  BY <1>1, <1>2, <1>3, <1>4 DEF IInv

\* The run ends within a decision, with a report or with the exception itself.
LEMMA EndInv ==
  ASSUME IInv, pc = "deciding", UNCHANGED Loop, action' = action, pc' = "done",
         decisions' \in {decisions, decisions + 1},
         result' \in {"runtime_failure", "invalid_policy_output", "guard_rejected", Raised},
         policy' \in Policies, DecisionInv'
  PROVE  IInv'
<1>1. BegunInv' /\ CountInv' /\ GroundInv'
  BY LoopInv
<1>2. decisions' \in 0 .. 3 /\ Len(history) <= decisions'
  BY Deciding
<1>3. TypeOK'
  BY LoopIs, <1>2 DEF IInv, TypeOK, Policies, Outcomes, MaxDecisions
<1>4. ControlInv'
  BY LoopIs, <1>2, Deciding DEF IInv, ControlInv, MaxDecisions
<1>5. ReportInv'
  BY LoopIs, Deciding DEF ReportInv, ReportsAgree, Raised
<1>6. QED
  BY <1>1, <1>3, <1>4, <1>5 DEF IInv

LEMMA GiveUpIs ==
  ASSUME IInv, pc = "deciding", NEW outcome, GiveUp(outcome)
  PROVE  pc' = "done" /\ result' = outcome /\ decisions' = decisions + 1 /\ action' = action
<1>1. /\ Report(outcome, state, decisions + 1, Len(history))
      /\ decisions' = decisions + 1 /\ action' = action
  BY DEF GiveUp
<1>2. state.step <= MaxDecisions /\ decisions + 1 <= MaxDecisions /\ Len(history) <= MaxDecisions
  BY Deciding DEF MaxDecisions
<1>3. QED
  BY <1>1, <1>2, ReportIs

LEMMA ProviderFailsInv ==
  ASSUME IInv, NEW code \in {"timeout", "provider_failure", "empty_content"},
         ProviderFails(code)
  PROVE  IInv'
<1> DEFINE n == One(Retryable(code))
<1>1. /\ pc = "deciding" /\ UNCHANGED Loop
      /\ policy' = [policy EXCEPT !.requests = @ + 1, !.retries = @ + n]
  BY DEF ProviderFails
<1>2. policy \in Policies
  BY DEF IInv, TypeOK, Policies
<1>3. /\ policy.attempt \in 0 .. 1 /\ policy.retries \in 0 .. MaxTransportRetries
      /\ policy.requests \in 0 .. 1 + MaxTransportRetries
      /\ policy.requests <= policy.attempt + policy.retries
  BY <1>1, Deciding
<1>4. n \in 0 .. 1 /\ policy.retries + n <= MaxTransportRetries
  <2>1. CASE Retryable(code)
    <3>1. n = 1
      BY <2>1 DEF One
    <3>2. QED
      BY <1>3, <2>1, <3>1, RetriesAssumption DEF Retryable
  <2>2. CASE ~Retryable(code)
    <3>1. n = 0
      BY <2>2 DEF One
    <3>2. QED
      BY <1>3, <3>1, RetriesAssumption
  <2>3. QED
    BY <2>1, <2>2
<1>5. /\ Retryable(code) => n = 1 /\ UNCHANGED <<pc, result, decisions, action>>
      /\ ~Retryable(code) => GiveUp(IF code \in {"timeout", "provider_failure"}
                                    THEN "runtime_failure" ELSE "invalid_policy_output")
  BY DEF ProviderFails, One
<1> HIDE DEF n
<1>6. policy' = [attempt |-> policy.attempt, retries |-> policy.retries + n,
                 requests |-> policy.requests + 1]
  BY <1>1, <1>2, <1>4 DEF Policies
<1>7. policy' \in Policies
  <2>1. /\ policy.attempt \in 0 .. 2 /\ policy.retries + n \in 0 .. 1
        /\ policy.requests + 1 \in 0 .. 3
    BY <1>3, <1>4, RetriesAssumption
  <2>2. QED
    BY <1>6, <2>1 DEF Policies
<1>8. CASE Retryable(code)
  <2>1. DecisionInv'
    BY <1>3, <1>4, <1>5, <1>6, <1>8, RetriesAssumption DEF DecisionInv, MaxStructuralRepairs
  <2>2. QED
    BY <1>1, <1>5, <1>7, <1>8, <2>1, AskAgainInv
<1>9. CASE ~Retryable(code)
  <2>1. /\ pc' = "done" /\ decisions' = decisions + 1 /\ action' = action
        /\ result' \in {"runtime_failure", "invalid_policy_output"}
    BY <1>1, <1>5, <1>9, GiveUpIs
  <2>2. DecisionInv'
    BY <1>3, <1>4, <1>6, <2>1, RetriesAssumption DEF DecisionInv, MaxStructuralRepairs
  <2>3. QED
    BY <1>1, <1>7, <2>1, <2>2, EndInv
<1>10. QED
  BY <1>8, <1>9

\* A decision that ends has cost one request more.
LEMMA LastRequest ==
  ASSUME IInv, pc = "deciding", policy' = [policy EXCEPT !.requests = @ + 1],
         pc' \notin {"start", "deciding"}
  PROVE  policy' \in Policies /\ DecisionInv'
<1>1. policy \in Policies
  BY DEF IInv, TypeOK, Policies
<1>2. /\ policy.attempt \in 0 .. 1 /\ policy.retries \in 0 .. MaxTransportRetries
      /\ policy.requests \in 0 .. 1 + MaxTransportRetries
  BY Deciding
<1>3. policy' = [attempt |-> policy.attempt, retries |-> policy.retries,
                 requests |-> policy.requests + 1]
  BY <1>1 DEF Policies
<1>4. /\ policy'.attempt = policy.attempt /\ policy'.retries = policy.retries
      /\ policy'.requests = policy.requests + 1
  BY <1>3
<1>5. policy' \in Policies
  <2>1. /\ policy.attempt \in 0 .. 2 /\ policy.retries \in 0 .. 1
        /\ policy.requests + 1 \in 0 .. 3
    BY <1>2, RetriesAssumption
  <2>2. QED
    BY <1>3, <2>1 DEF Policies
<1>6. DecisionInv'
  BY <1>2, <1>4, RetriesAssumption DEF DecisionInv, MaxStructuralRepairs
<1>7. QED
  BY <1>5, <1>6

LEMMA ProviderRaisesInv ==
  ASSUME IInv, ProviderRaises
  PROVE  IInv'
<1>1. /\ pc = "deciding" /\ UNCHANGED Loop /\ pc' = "done" /\ result' = Raised
      /\ decisions' = decisions /\ action' = action
      /\ policy' = [policy EXCEPT !.requests = @ + 1]
  BY DEF ProviderRaises
<1>2. policy' \in Policies /\ DecisionInv'
  BY <1>1, LastRequest
<1>3. QED
  BY <1>1, <1>2, EndInv

LEMMA InvalidOutputInv ==
  ASSUME IInv, InvalidOutput
  PROVE  IInv'
<1>1. /\ pc = "deciding" /\ UNCHANGED Loop
      /\ policy' = [policy EXCEPT !.requests = @ + 1, !.attempt = @ + 1]
      /\ IF policy.attempt < 1
           THEN UNCHANGED <<pc, result, decisions, action>>
           ELSE GiveUp("invalid_policy_output")
  BY DEF InvalidOutput, MaxStructuralRepairs
<1>2. policy \in Policies
  BY DEF IInv, TypeOK, Policies
<1>3. /\ policy.attempt \in 0 .. 1 /\ policy.retries \in 0 .. MaxTransportRetries
      /\ policy.requests \in 0 .. 1 + MaxTransportRetries
      /\ policy.requests <= policy.attempt + policy.retries
  BY <1>1, Deciding
<1>4. policy' = [attempt |-> policy.attempt + 1, retries |-> policy.retries,
                 requests |-> policy.requests + 1]
  BY <1>1, <1>2 DEF Policies
<1>5. policy' \in Policies
  <2>1. /\ policy.attempt + 1 \in 0 .. 2 /\ policy.retries \in 0 .. 1
        /\ policy.requests + 1 \in 0 .. 3
    BY <1>3, RetriesAssumption
  <2>2. QED
    BY <1>4, <2>1 DEF Policies
<1>6. CASE policy.attempt < 1
  <2>1. UNCHANGED <<pc, result, decisions, action>>
    BY <1>1, <1>6
  <2>2. DecisionInv'
    BY <1>3, <1>4, <1>6, RetriesAssumption DEF DecisionInv, MaxStructuralRepairs
  <2>3. QED
    BY <1>1, <1>5, <2>1, <2>2, AskAgainInv
<1>7. CASE ~(policy.attempt < 1)
  <2>1. /\ pc' = "done" /\ decisions' = decisions + 1 /\ action' = action
        /\ result' = "invalid_policy_output"
    BY <1>1, <1>7, GiveUpIs
  <2>2. DecisionInv'
    BY <1>3, <1>4, <2>1, RetriesAssumption DEF DecisionInv, MaxStructuralRepairs
  <2>3. QED
    BY <1>1, <1>5, <2>1, <2>2, EndInv
<1>8. QED
  BY <1>6, <1>7

\* The guard refuses or allows; a running state with steps left is no end.
LEMMA GuardIs ==
  ASSUME IInv, pc = "deciding", NEW p \in Action
  PROVE  /\ Guard(p, state, obs, history) \in {"allow", "reject"}
         /\ Guard(p, state, obs, history) = "allow" =>
              /\ Eligible(p.name, state, obs, history)
              /\ p.name \in RetrievalActions => p.query = state.query
<1>1. state.status = "running" /\ ~(state.step >= MaxSteps)
  BY Deciding DEF MaxSteps
<1>2. QED
  BY <1>1 DEF Guard, Refused, Allowed

LEMMA ProposeInv ==
  ASSUME IInv, NEW p \in Action, Propose(p)
  PROVE  IInv'
<1>1. /\ pc = "deciding" /\ UNCHANGED Loop /\ policy' = [policy EXCEPT !.requests = @ + 1]
  BY DEF Propose
<1>2. CASE Guard(p, state, obs, history) = "allow"
  <2>1. pc' = "executing" /\ action' = p /\ decisions' = decisions + 1 /\ result' = result
    BY <1>2 DEF Propose
  <2>2. policy' \in Policies /\ DecisionInv'
    BY <1>1, <2>1, LastRequest
  <2>3. BegunInv' /\ CountInv' /\ GroundInv'
    BY <1>1, LoopInv
  <2>4. decisions' \in 0 .. 3
    BY <1>1, <2>1, Deciding
  <2>5. TypeOK'
    BY <1>1, <2>1, <2>2, <2>4, LoopIs DEF IInv, TypeOK, Policies, MaxDecisions
  <2>6. ControlInv'
    <3>1. Authorized'
      BY <1>1, <1>2, <2>1, LoopIs, GuardIs DEF Authorized
    <3>2. QED
      BY <1>1, <2>1, <2>4, <3>1, LoopIs, Deciding DEF IInv, ControlInv, One, MaxDecisions
  <2>7. ReportInv'
    BY <1>1, <2>1, LoopIs DEF IInv, ReportInv, ReportsAgree
  <2>8. QED
    BY <2>2, <2>3, <2>5, <2>6, <2>7 DEF IInv
<1>3. CASE Guard(p, state, obs, history) # "allow"
  <2>1. GiveUp("guard_rejected")
    BY <1>1, <1>3, GuardIs DEF Propose
  <2>2. /\ pc' = "done" /\ result' = "guard_rejected" /\ decisions' = decisions + 1
        /\ action' = action
    BY <1>1, <2>1, GiveUpIs
  <2>3. policy' \in Policies /\ DecisionInv'
    BY <1>1, <2>2, LastRequest
  <2>4. QED
    BY <1>1, <2>2, <2>3, EndInv
<1>4. QED
  BY <1>2, <1>3

----------------------------------------------------------------------------
LEMMA ExecuteInv ==
  ASSUME IInv,
         NEW r \in [status : {"success", "no_result", "failed"},
                    evidence : 0 .. MaxEvidence, query : Queries],
         NEW v \in Verdicts, Execute(r, v)
  PROVE  IInv'
<1> DEFINE t == Transition(state, action, r, v)
<1>1. /\ pc = "executing" /\ r \in ToolResults(action, snapshot, signalled)
      /\ v \in Signals(action, r, signalled)
      /\ history' = Append(history, action) /\ snapshot' = r.evidence
      /\ found' = IF action.name \in RetrievalActions
                  THEN [query |-> action.query, evidence |-> r.evidence, verdict |-> v]
                  ELSE found
      /\ sameRun' = sameRun /\ signalled' = signalled /\ begun' = begun
      /\ action' = action /\ decisions' = decisions
      /\ Adopt(t)
  BY DEF Execute
<1>2. /\ state \in AgentState /\ action \in Action /\ snapshot \in Nat /\ signalled \in BOOLEAN
      /\ history \in Seq(Action) /\ obs = Observe(state) /\ sameRun /\ result = "none"
      /\ Authorized /\ state.status = "running" /\ state.step < MaxSteps
      /\ decisions = Len(history) + 1
      /\ state.hops = state.graphs /\ state.structures <= state.retrievals
  BY <1>1 DEF IInv, TypeOK, ControlInv, CountInv, One
<1>3. StepsTo(state, action, r, v, t)
  BY <1>1, <1>2, TransitionIs DEF Authorized
<1> HIDE DEF t
<1>4. /\ state' = t.state /\ obs' = Observe(state') /\ state' \in AgentState
      /\ Observe(state') \in Observation /\ Observe(state').query = state'.query
  BY <1>1, <1>3, ObserveIs DEF Adopt, StepsTo
<1>5. /\ history' \in Seq(Action) /\ Len(history') = Len(history) + 1 /\ history' # <<>>
  BY <1>1, <1>2
<1>6. /\ Len(history) \in Nat /\ state.step = Len(history) /\ state.step < 3
      /\ state'.step = Len(history') /\ Len(history') <= 3 /\ decisions' = Len(history')
  <2>1. state.step = Len(history) /\ Len(history) \in Nat
    BY <1>2 DEF IInv, CountInv, BegunInv
  <2>2. QED
    BY <1>1, <1>2, <1>3, <1>4, <1>5, <2>1 DEF StepsTo, MaxSteps
<1>7. /\ \/ /\ pc' = "deciding" /\ policy' = NewDecision /\ result' = "none"
            /\ state'.status = "running" /\ state'.step < MaxSteps
         \/ /\ pc' = "done" /\ policy' = policy
            /\ \/ result' = "budget_exhausted" /\ state'.step = MaxSteps
                  /\ state'.status \in {"failed", "running"}
               \/ result' = "finished" /\ state'.status = "finished"
               \/ result' = "abstained" /\ state'.status = "abstained"
      /\ state'.status = "finished" => action.name = "finish"
  <2> DEFINE outcome == IF t.ended # "no" THEN t.ended
                        ELSE Verdict(t.state, Observe(t.state))
  <2>1. /\ outcome = "none" => pc' = "deciding" /\ policy' = NewDecision /\ result' = result
        /\ outcome # "none" => /\ Report(outcome, t.state, decisions, Len(history) + 1)
                               /\ policy' = policy
    BY <1>1 DEF Adopt
  <2>2. /\ t.ended # "no" => outcome = t.ended
        /\ t.ended = "no" /\ state'.status = "running" =>
             outcome = IF state'.step >= MaxSteps THEN "budget_exhausted" ELSE "none"
    BY <1>4 DEF Verdict
  <2> HIDE DEF outcome
  <2>3. outcome # "none" => pc' = "done" /\ result' = outcome
    <3>1. t.state.step <= MaxDecisions /\ decisions <= MaxDecisions
          /\ Len(history) + 1 <= MaxDecisions
      BY <1>1, <1>4, <1>5, <1>6 DEF MaxDecisions
    <3>2. QED
      BY <2>1, <3>1, ReportIs
  <2>4. state'.step \in 0 .. 3
    BY <1>5, <1>6
  <2>5. CASE t.ended = "budget_exhausted" /\ state'.status = "failed" /\ state'.step = MaxSteps
    BY <2>1, <2>2, <2>3, <2>5
  <2>6. CASE t.ended = "finished" /\ state'.status = "finished" /\ action.name = "finish"
    BY <2>1, <2>2, <2>3, <2>6
  <2>7. CASE t.ended = "abstained" /\ state'.status = "abstained"
    BY <2>1, <2>2, <2>3, <2>7
  <2>8. CASE t.ended = "no" /\ state'.status = "running"
    BY <1>2, <2>1, <2>2, <2>3, <2>4, <2>8 DEF MaxSteps
  <2>9. QED
    BY <1>3, <1>4, <2>5, <2>6, <2>7, <2>8 DEF StepsTo
<1>8. /\ r.evidence \in Nat /\ r.query = action.query
      /\ action.name = "inspect_evidence" => r.evidence = snapshot
      /\ action.name \notin RetrievalActions => r.evidence \in {0, snapshot}
  BY <1>1, <1>2, ToolResultsAre
<1>9. TypeOK'
  <2>1. found' \in Observation
    BY <1>1, <1>2, <1>8 DEF IInv, TypeOK, Observation, Action
  <2>2. policy' \in Policies
    BY <1>7 DEF IInv, TypeOK, NewDecision, Policies
  <2>3. decisions' \in 0 .. MaxDecisions
    BY <1>6, <1>5 DEF MaxDecisions
  <2>4. QED
    BY <1>1, <1>4, <1>5, <1>7, <1>8, <2>1, <2>2, <2>3
       DEF IInv, TypeOK, Policies, Outcomes
<1>10. BegunInv'
  BY <1>1 DEF IInv, BegunInv
<1>11. DecisionInv'
  BY <1>7, RetriesAssumption
     DEF IInv, DecisionInv, NewDecision, MaxStructuralRepairs
<1>12. ControlInv'
  BY <1>1, <1>2, <1>4, <1>5, <1>6, <1>7 DEF ControlInv, One, MaxDecisions
<1>13. CountInv'
  <2>1. ASSUME NEW CONSTANT names
        PROVE  Times(names) \in Nat /\ Times(names)' = Times(names) + One(action.name \in names)
    BY <1>1, <1>2, TimesAfter
  <2>2. /\ One(action.name \in {"graph_search"}) = One(action.name = "graph_search")
        /\ One(action.name \in {"rewrite_query"}) = One(action.name = "rewrite_query")
    BY DEF One
  <2>3. /\ begun' = begun
        /\ state'.retrievals = state.retrievals + One(action.name \in RetrievalActions)
        /\ state'.graphs = state.graphs + One(action.name = "graph_search")
        /\ state'.rewrites = state.rewrites + One(action.name = "rewrite_query")
        /\ state'.hops = state'.graphs /\ state'.structures <= state'.retrievals
    BY <1>1, <1>3, <1>4 DEF StepsTo
  <2>4. begun.step = 0 /\ begun.retrievals \in Nat /\ begun.graphs \in Nat /\ begun.rewrites \in Nat
    BY DEF IInv, TypeOK, BegunInv, AgentState
  <2>5. /\ Times(RetrievalActions)' = Times(RetrievalActions) + One(action.name \in RetrievalActions)
        /\ Times({"graph_search"})' = Times({"graph_search"}) + One(action.name = "graph_search")
        /\ Times({"rewrite_query"})' = Times({"rewrite_query"}) + One(action.name = "rewrite_query")
        /\ Times(RetrievalActions) \in Nat /\ Times({"graph_search"}) \in Nat
        /\ Times({"rewrite_query"}) \in Nat
    BY <2>1, <2>2
  <2>6. /\ One(action.name \in RetrievalActions) \in Nat
        /\ One(action.name = "graph_search") \in Nat
        /\ One(action.name = "rewrite_query") \in Nat
    BY DEF One
  <2>7. /\ state.retrievals = begun.retrievals + Times(RetrievalActions)
        /\ state.graphs = begun.graphs + Times({"graph_search"})
        /\ state.rewrites = begun.rewrites + Times({"rewrite_query"})
    BY DEF IInv, CountInv
  <2>8. state'.retrievals = begun'.retrievals + Times(RetrievalActions)'
    BY <2>3, <2>4, <2>5, <2>6, <2>7
  <2>9. state'.graphs = begun'.graphs + Times({"graph_search"})'
    BY <2>3, <2>4, <2>5, <2>6, <2>7
  <2>10. state'.rewrites = begun'.rewrites + Times({"rewrite_query"})'
    BY <2>3, <2>4, <2>5, <2>6, <2>7
  <2>11. state'.step = begun'.step + Len(history')
    BY <1>5, <1>6, <2>3, <2>4
  <2>12. QED
    BY <2>3, <2>8, <2>9, <2>10, <2>11 DEF CountInv
<1>14. GroundInv'
  <2>1. /\ state.verdict = found.verdict /\ state.evidence \in {0, found.evidence}
        /\ snapshot \in {0, found.evidence}
        /\ state.rewrites = 0 => state.query = begun.query
        /\ found.query = state.query \/ (found.query = begun.query /\ state.rewrites = 1)
        /\ state.rewrites \in Nat
    BY <1>2 DEF IInv, GroundInv, AgentState
  <2>2. /\ state'.query = IF action.name = "rewrite_query" THEN action.query ELSE state.query
        /\ state'.evidence = IF action.name \in RetrievalActions \cup {"inspect_evidence"}
                             THEN r.evidence ELSE state.evidence
        /\ state'.verdict = IF action.name \in RetrievalActions THEN v ELSE state.verdict
        /\ state'.rewrites = state.rewrites + One(action.name = "rewrite_query")
        /\ begun' = begun /\ snapshot' = r.evidence
    BY <1>1, <1>3, <1>4 DEF StepsTo
  <2>3. /\ action.name = "finish" => state.evidence > 0 /\ state.verdict \in Sufficient
        /\ action.name = "rewrite_query" => state.rewrites = 0
        /\ action.name \in RetrievalActions => action.query = state.query
    BY <1>2, <2>1, ObserveIs DEF Authorized, Eligible, MaxRewrites
  <2>4. CASE action.name \in RetrievalActions
    <3>1. /\ found' = [query |-> action.query, evidence |-> r.evidence, verdict |-> v]
          /\ state'.rewrites = state.rewrites
      BY <1>1, <2>1, <2>2, <2>4 DEF One, RetrievalActions
    <3>2. QED
      BY <1>7, <2>1, <2>2, <2>3, <2>4, <3>1 DEF GroundInv, RetrievalActions
  <2>5. CASE action.name = "rewrite_query"
    <3>1. found' = found /\ state'.rewrites = 1
      BY <1>1, <2>1, <2>2, <2>3, <2>5 DEF One, RetrievalActions
    <3>2. QED
      BY <1>7, <1>8, <2>1, <2>2, <2>3, <2>5, <3>1 DEF GroundInv, RetrievalActions
  <2>6. CASE action.name \notin RetrievalActions \cup {"rewrite_query"}
    <3>1. found' = found /\ state'.rewrites = state.rewrites
      BY <1>1, <2>1, <2>2, <2>6 DEF One
    <3>2. QED
      BY <1>7, <1>8, <2>1, <2>2, <2>3, <2>6, <3>1 DEF GroundInv
  <2>7. QED
    BY <2>4, <2>5, <2>6
<1>15. ReportInv'
  BY <1>7 DEF ReportInv, ReportsAgree
<1>16. QED
  BY <1>9, <1>10, <1>11, <1>12, <1>13, <1>14, <1>15 DEF IInv

LEMMA StutterInv ==
  ASSUME IInv, UNCHANGED vars
  PROVE  IInv'
<1>1. UNCHANGED Loop /\ UNCHANGED <<pc, result, decisions, action, policy>>
  BY DEF vars, Loop
<1>2. BegunInv' /\ CountInv' /\ GroundInv'
  BY <1>1, LoopInv
<1>3. TypeOK' /\ DecisionInv'
  BY <1>1, LoopIs DEF IInv, TypeOK, DecisionInv
<1>4. ControlInv'
  BY <1>1, LoopIs DEF IInv, ControlInv, Authorized
<1>5. ReportInv'
  BY <1>1, LoopIs DEF IInv, ReportInv, ReportsAgree
<1>6. QED
  BY <1>2, <1>3, <1>4, <1>5 DEF IInv

LEMMA NextInv ==
  ASSUME IInv, [Next]_vars
  PROVE  IInv'
<1>1. CASE Start
  BY <1>1, StartInv
<1>2. CASE \E code \in {"timeout", "provider_failure", "empty_content"} : ProviderFails(code)
  BY <1>2, ProviderFailsInv
<1>3. CASE ProviderRaises
  BY <1>3, ProviderRaisesInv
<1>4. CASE InvalidOutput
  BY <1>4, InvalidOutputInv
<1>5. CASE \E p \in Action : Propose(p)
  BY <1>5, ProposeInv
<1>6. CASE \E r \in [status : {"success", "no_result", "failed"},
                     evidence : 0 .. MaxEvidence, query : Queries], v \in Verdicts :
              Execute(r, v)
  BY <1>6, ExecuteInv
<1>7. CASE UNCHANGED vars
  BY <1>7, StutterInv
<1>8. QED
  BY <1>1, <1>2, <1>3, <1>4, <1>5, <1>6, <1>7 DEF Next

\* The invariant of the whole module.
THEOREM Invariance == Spec => []IInv
<1>1. Init => IInv
  BY InitInv
<1>2. IInv /\ [Next]_vars => IInv'
  BY NextInv
<1>3. QED
  BY <1>1, <1>2, PTL DEF Spec

----------------------------------------------------------------------------
\* Types, which bound the steps, the searches and the requests of a decision.
THEOREM TypesAreKept == Spec => []TypeOK
<1>1. IInv => TypeOK
  BY DEF IInv
<1>2. QED
  BY <1>1, Invariance, PTL

\* AgentRunResult can be built at every end of the loop, and no decision costs
\* more requests than its repair and its retries allow, for both retry settings.
THEOREM ResultAlwaysFits == Spec => []ResultIsBuilt
<1>1. IInv => ResultIsBuilt
  BY DEF IInv, TypeOK, DecisionInv, ControlInv, ResultIsBuilt, MaxDecisions
<1>2. QED
  BY <1>1, Invariance, PTL

\* The counters are those of the executed actions and within their budgets for
\* every policy, so the transition's branch for a violated budget is dead code.
THEOREM Budgets == Spec => []BudgetsAreKept
<1>1. IInv => BudgetsAreKept
  <2>1. IInv => WithinBudget(state)
    BY DEF IInv, TypeOK, AgentState, WithinBudget, MaxSteps, MaxRetrievals,
           MaxRewrites, MaxGraphCalls, MaxGraphHops
  <2>2. QED
    BY <2>1 DEF IInv, CountInv, BudgetsAreKept
<1>2. QED
  BY <1>1, Invariance, PTL

\* A run that reports an answer has evidence with a sufficient verdict from its
\* last search, and at most one rewrite lies between that search and the end.
THEOREM FinishGrounds == Spec => []FinishIsGrounded
<1>1. IInv => FinishIsGrounded
  <2>1. SUFFICES ASSUME IInv, result = "finished", history # <<>>
                 PROVE  /\ state.evidence > 0 /\ found.evidence = state.evidence
                        /\ found.verdict \in Sufficient
                        /\ \/ found.query = state.query
                           \/ found.query = begun.query /\ state.rewrites = 1
    BY DEF FinishIsGrounded
  <2>2. pc = "done" /\ sameRun
    BY <2>1 DEF IInv, ControlInv
  <2>3. state.status = "finished"
    BY <2>1, <2>2 DEF IInv, ReportInv, ReportsAgree
  <2>4. QED
    BY <2>1, <2>3 DEF IInv, GroundInv
<1>2. QED
  BY <1>1, Invariance, PTL

\* The reported status, the state and the budget tell the same story.
THEOREM ReportsTellTheTruth == Spec => []ReportsAgree
<1>1. IInv => ReportsAgree
  BY DEF IInv, ReportInv
<1>2. QED
  BY <1>1, Invariance, PTL

=============================================================================
