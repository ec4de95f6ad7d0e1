------------------------------ MODULE AgentCore ------------------------------
(***************************************************************************)
(* The deterministic parts of agentic_v2 that both of its users share: the *)
(* resolver of allowed actions, the guard, the results a tool can give and *)
(* the state transition.  AgentRuntimeV2 runs them in a loop, the          *)
(* selective agent of SelectiveAgent once.                                 *)
(*                                                                         *)
(* Abstractions: a query stands for its whitespace-normal form, evidence   *)
(* for the number of its items.  Candidates, sources, scores, coverage and *)
(* the availability flags only reach the prompt and are left out, as are   *)
(* reason codes.  Clamping top_k (guard outcome "modify") changes an       *)
(* argument that no decision depends on, so "allow" stands for both.       *)
(* Execution and run ids are fresh uuids: the rejections for a repeated or *)
(* foreign id, which no caller can meet, are left out.                     *)
(***************************************************************************)
EXTENDS Integers, Sequences

CONSTANTS
  Queries,        \* texts a user asks or a policy rewrites to
  MaxEvidence,    \* bound: evidence items of a search
  SignalVerdicts  \* answerability verdicts a search can be given

RetrievalActions == {"hybrid_search", "structure_search", "graph_search"}
ActionNames ==
  RetrievalActions \cup {"rewrite_query", "inspect_evidence", "finish", "abstain"}
Verdicts == {"unknown", "answerable", "partially_answerable",
             "insufficient_evidence", "unanswerable"}
Sufficient == {"answerable", "partially_answerable"}

MaxSteps      == 3
MaxRetrievals == 2
MaxRewrites   == 1
MaxGraphCalls == 1
MaxGraphHops  == 1

ASSUME QueriesAssumption == Queries # {}
ASSUME EvidenceAssumption == MaxEvidence \in Nat
ASSUME VerdictsAssumption == SignalVerdicts \subseteq Verdicts

\* An action with its arguments: only retrievals and rewrites name a query.
Action == [name : ActionNames, query : Queries]

AgentState ==
  [query : Queries, step : 0 .. MaxSteps, previous : Seq(ActionNames),
   retrievals : 0 .. MaxRetrievals, structures : 0 .. MaxRetrievals,
   graphs : 0 .. MaxGraphCalls, hops : 0 .. MaxGraphHops,
   rewrites : 0 .. MaxRewrites, evidence : Nat, verdict : Verdicts,
   status : {"running", "finished", "abstained", "failed"}]

Observation == [query : Queries, evidence : Nat, verdict : Verdicts]

Observe(s) == [query |-> s.query, evidence |-> s.evidence, verdict |-> s.verdict]

FreshState(q) ==
  [query |-> q, step |-> 0, previous |-> <<>>, retrievals |-> 0,
   structures |-> 0, graphs |-> 0, hops |-> 0, rewrites |-> 0, evidence |-> 0,
   verdict |-> "unknown", status |-> "running"]

\* The state after the search that every request begins with.
Seeded(q, e, v) ==
  [FreshState(q) EXCEPT !.retrievals = 1, !.evidence = e, !.verdict = v]

----------------------------------------------------------------------------
Used(s, history, a) ==
  \/ \E i \in DOMAIN s.previous : s.previous[i] = a
  \/ \E i \in DOMAIN history : history[i].name = a

\* Mutant of Eligible: the retrieval budget is forgotten.
EligibleUnbudgeted(a, s, o, history) ==
  /\ s.status = "running"
  /\ a # "abstain" => s.step < MaxSteps
  /\ a = "rewrite_query" => s.rewrites < MaxRewrites
  /\ a \in {"inspect_evidence", "finish"} => o.evidence > 0
  /\ a = "finish" => o.verdict \in Sufficient

Eligible(a, s, o, history) ==
  /\ s.status = "running"
  /\ a # "abstain" => s.step < MaxSteps
  /\ a \in RetrievalActions => s.retrievals < MaxRetrievals
  /\ a = "graph_search" => /\ s.graphs < MaxGraphCalls
                           /\ s.hops < MaxGraphHops
                           /\ ~Used(s, history, "graph_search")
  /\ a = "rewrite_query" => s.rewrites < MaxRewrites
  /\ a \in {"inspect_evidence", "finish"} => o.evidence > 0
  /\ a = "finish" => o.verdict \in Sufficient

Allowed(s, o, history) == {a \in ActionNames : Eligible(a, s, o, history)}

\* The same search for the same query as the action before it.
Repeats(p, s, history) ==
  \/ /\ history # <<>>
     /\ history[Len(history)] = p
  \/ /\ s.previous # <<>>
     /\ s.previous[Len(s.previous)] = p.name
     /\ s.query = p.query

\* Why the guard refuses a proposal of a running state with steps left.
Refused(p, s, o, history) ==
  \/ s.query # o.query
  \/ p.name \notin Allowed(s, o, history)
  \/ p.name \in RetrievalActions /\ p.query # s.query
  \/ p.name = "rewrite_query" /\ p.query = s.query
  \/ p.name \in {"hybrid_search", "structure_search"} /\ Repeats(p, s, history)

Guard(p, s, o, history) ==
  IF s.query = o.query
       /\ (s.status # "running" \/ (s.step >= MaxSteps /\ p.name # "abstain"))
    THEN "terminate"
  ELSE IF Refused(p, s, o, history) THEN "reject" ELSE "allow"

----------------------------------------------------------------------------
\* A tool's result, with the evidence and the rewritten query it carries.
Result == [status : {"success", "no_result", "failed"}, evidence : Nat,
           query : Queries]

\* What a search tool answers: the adapter raises, finds that the existing
\* search did not activate the lane asked for, or searched.  The evaluation's
\* adapter keeps the evidence of a graph search whose hop depth is not one.
SearchResults(p, signalled) ==
  LET found == 0 .. MaxEvidence IN
    [status : {"success"}, evidence : found, query : {p.query}]
      \cup [status : {"failed"}, evidence : {0}, query : {p.query}]
      \cup (IF p.name \in {"structure_search", "graph_search"}
            THEN [status : {"no_result"}, evidence : found, query : {p.query}]
            ELSE {})
      \cup (IF p.name = "graph_search" /\ signalled
            THEN [status : {"failed"}, evidence : found, query : {p.query}]
            ELSE {})

\* snapshot: the evidence of the last tool result, none before the first one.
ToolResults(p, snapshot, signalled) ==
  IF p.name \in RetrievalActions THEN SearchResults(p, signalled)
  ELSE IF p.name = "inspect_evidence"
       THEN {[status |-> IF snapshot > 0 THEN "success" ELSE "no_result",
              evidence |-> snapshot, query |-> p.query]}
       ELSE {[status |-> "success", evidence |-> 0, query |-> p.query]}

\* The verdict that reaches the transition; "unknown" when there are no signals.
Signals(p, r, signalled) ==
  IF p.name \notin RetrievalActions \/ ~signalled THEN {"unknown"}
  ELSE IF r.status = "failed" /\ r.evidence = 0 /\ p.name # "graph_search"
       THEN {"unknown"}
  ELSE IF r.status = "failed" /\ r.evidence = 0
       THEN {"unknown"} \cup SignalVerdicts
  ELSE SignalVerdicts

----------------------------------------------------------------------------
One(condition) == IF condition THEN 1 ELSE 0

\* Mutant of Counted: a tool that failed costs nothing.
CountedOnSuccess(s, p, r) ==
  [s EXCEPT !.step = @ + One(r.status # "failed"),
            !.retrievals = @ + One(p.name \in RetrievalActions),
            !.structures = @ + One(p.name = "structure_search"),
            !.graphs = @ + One(p.name = "graph_search"),
            !.hops = @ + One(p.name = "graph_search"),
            !.rewrites = @ + One(p.name = "rewrite_query")]

\* Every executed action counts, whatever its tool answered.
Counted(s, p, r) ==
  [s EXCEPT !.step = @ + 1,
            !.retrievals = @ + One(p.name \in RetrievalActions),
            !.structures = @ + One(p.name = "structure_search"),
            !.graphs = @ + One(p.name = "graph_search"),
            !.hops = @ + One(p.name = "graph_search"),
            !.rewrites = @ + One(p.name = "rewrite_query")]

\* Mutant of WithinBudget: the last step counts as one too many.
WithinBudgetStrict(s) ==
  /\ s.step < MaxSteps
  /\ s.retrievals <= MaxRetrievals
  /\ s.rewrites <= MaxRewrites
  /\ s.graphs <= MaxGraphCalls /\ s.hops <= MaxGraphHops

WithinBudget(s) ==
  /\ s.step <= MaxSteps
  /\ s.retrievals <= MaxRetrievals
  /\ s.rewrites <= MaxRewrites
  /\ s.graphs <= MaxGraphCalls /\ s.hops <= MaxGraphHops

\* Mutant of Informed: a search without signals keeps the verdict it found.
InformedKeepingVerdict(s, p, r, v) ==
  IF p.name \in RetrievalActions
    THEN [s EXCEPT !.evidence = r.evidence,
                   !.verdict = IF v = "unknown" THEN @ ELSE v]
  ELSE IF p.name = "inspect_evidence" THEN [s EXCEPT !.evidence = r.evidence]
  ELSE IF p.name = "rewrite_query" THEN [s EXCEPT !.query = r.query]
  ELSE [s EXCEPT !.status = IF p.name = "finish" THEN "finished" ELSE "abstained"]

\* What an executed action tells the state: a search replaces evidence and
\* verdict, an inspection the evidence only, a rewrite keeps both.
Informed(s, p, r, v) ==
  IF p.name \in RetrievalActions
    THEN [s EXCEPT !.evidence = r.evidence, !.verdict = v]
  ELSE IF p.name = "inspect_evidence" THEN [s EXCEPT !.evidence = r.evidence]
  ELSE IF p.name = "rewrite_query" THEN [s EXCEPT !.query = r.query]
  ELSE [s EXCEPT !.status = IF p.name = "finish" THEN "finished" ELSE "abstained"]

\* The next state and, when the transition ends the run, its termination.
Transition(s, p, r, v) ==
  LET counted == Counted(s, p, r)
      next == [Informed(counted, p, r, v) EXCEPT !.previous = Append(@, p.name)]
  IN
    IF ~WithinBudget(counted)
      THEN [state |-> IF r.status = "failed" THEN [s EXCEPT !.status = "failed"]
                      ELSE s,
            ended |-> "budget_exhausted"]
    ELSE IF r.status = "failed" /\ counted.step >= MaxSteps
      THEN [state |-> [next EXCEPT !.status = "failed"],
            ended |-> "budget_exhausted"]
    ELSE [state |-> next,
          ended |-> IF p.name \in {"finish", "abstain"} THEN next.status ELSE "no"]

=============================================================================
