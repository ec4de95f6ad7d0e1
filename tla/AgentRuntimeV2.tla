--------------------------- MODULE AgentRuntimeV2 ---------------------------
(***************************************************************************)
(* One run of AgenticV2Runtime: observe, let the policy decide, guard,     *)
(* execute, apply the transition, until a termination.  The policy is a    *)
(* language model: any allowed action, an answer the schema refuses, or a  *)
(* provider that fails; LLMAgentPolicyRuntime retries and repairs.  Tools  *)
(* are searches that find something, nothing or raise.                     *)
(*                                                                         *)
(* Operators, and what they leave out, are those of AgentCore.  A run may  *)
(* begin with a fresh state, with the state after a first search, or with  *)
(* one that has ended.                                                     *)
(***************************************************************************)
EXTENDS AgentCore, FiniteSets

CONSTANT MaxTransportRetries  \* 0, or 1 as the live policies are built

ASSUME RetriesAssumption == MaxTransportRetries \in {0, 1}

MaxStructuralRepairs == 1
MaxDecisions == 3   \* the limits of AgentRunResult's counters

VARIABLES
  pc,         \* "start", "deciding", "executing", "done"
  sameRun,    \* the tool context was built for this run
  signalled,  \* the search adapter also judges answerability
  begun,      \* the state the run was given
  state,
  obs,        \* the observation the policy is shown
  policy,     \* repair attempt, transport retries and requests of a decision
  action,     \* the action the guard authorized last
  history,    \* executed actions
  snapshot,   \* evidence of the last tool result
  decisions,  \* policy_decision_count
  found,      \* what the last search reported: kept for the properties
  result      \* run_status, or "none"

vars == <<pc, sameRun, signalled, begun, state, obs, policy, action, history,
          snapshot, decisions, found, result>>

Outcomes == {"finished", "abstained", "budget_exhausted", "guard_rejected",
             "invalid_policy_output", "runtime_failure"}
\* run() raises: a policy provider raised, or AgentRunResult refused a counter.
Raised == "raised"

NewDecision == [attempt |-> 0, retries |-> 0, requests |-> 0]

Starts ==
  {FreshState(q) : q \in Queries}
    \cup {Seeded(q, e, v) : q \in Queries, e \in 0 .. MaxEvidence, v \in SignalVerdicts}
    \cup {[FreshState(q) EXCEPT !.status = s] :
            q \in Queries, s \in {"finished", "abstained", "failed"}}

Init ==
  /\ pc = "start"
  /\ sameRun \in BOOLEAN
  /\ signalled \in BOOLEAN
  /\ begun \in Starts
  /\ state = begun
  /\ obs = Observe(begun)
  /\ policy = NewDecision
  /\ action = [name |-> "abstain", query |-> begun.query]
  /\ history = <<>>
  /\ snapshot = 0
  /\ decisions = 0
  /\ found = Observe(begun)
  /\ result = "none"

----------------------------------------------------------------------------
Status(s) == CASE s.status \in {"finished", "abstained"} -> s.status
               [] OTHER -> "runtime_failure"

\* The head of the loop, reached with state s and observation o.
Verdict(s, o) ==
  IF s.status # "running" THEN Status(s)
  ELSE IF s.query # o.query THEN "runtime_failure"
  ELSE IF s.step >= MaxSteps THEN "budget_exhausted"
  ELSE "none"

\* _finish builds the AgentRunResult, whose counters have limits.
Fits(s, decided, executed) ==
  s.step <= MaxDecisions /\ decided <= MaxDecisions /\ executed <= MaxDecisions

Report(outcome, s, decided, executed) ==
  /\ pc' = "done"
  /\ result' = IF Fits(s, decided, executed) THEN outcome ELSE Raised

Start ==
  /\ pc = "start"
  /\ LET outcome == IF ~sameRun THEN "runtime_failure" ELSE Verdict(state, obs)
     IN IF outcome = "none" THEN pc' = "deciding" /\ result' = "none"
                            ELSE Report(outcome, state, 0, 0)
  /\ UNCHANGED <<sameRun, signalled, begun, state, obs, policy, action, history,
                 snapshot, decisions, found>>

----------------------------------------------------------------------------
Loop == <<sameRun, signalled, begun, state, obs, history, snapshot, found>>

\* The decision ends without an action.
GiveUp(outcome) ==
  /\ decisions' = decisions + 1
  /\ Report(outcome, state, decisions + 1, Len(history))
  /\ UNCHANGED action

\* Mutant of Retryable: the retry is granted again with every repair.
RetryablePerAttempt(code) ==
  code # "other" /\ policy.retries < MaxTransportRetries + policy.attempt

Retryable(code) == code # "other" /\ policy.retries < MaxTransportRetries

\* The provider reports a timeout, a failure or an empty answer.
ProviderFails(code) ==
  /\ pc = "deciding"
  /\ policy' = [policy EXCEPT !.requests = @ + 1,
                              !.retries = @ + One(Retryable(code))]
  /\ IF Retryable(code)
       THEN UNCHANGED <<pc, result, decisions, action>>
       ELSE GiveUp(IF code \in {"timeout", "provider_failure"}
                   THEN "runtime_failure" ELSE "invalid_policy_output")
  /\ UNCHANGED Loop

\* An exception of the provider that its adapter does not report as a code.
ProviderRaises ==
  /\ pc = "deciding"
  /\ policy' = [policy EXCEPT !.requests = @ + 1]
  /\ pc' = "done"
  /\ result' = Raised
  /\ UNCHANGED <<decisions, action>>
  /\ UNCHANGED Loop

\* Not JSON, refused by the schema, or an action that is not allowed.
InvalidOutput ==
  /\ pc = "deciding"
  /\ policy' = [policy EXCEPT !.requests = @ + 1, !.attempt = @ + 1]
  /\ IF policy.attempt < MaxStructuralRepairs
       THEN UNCHANGED <<pc, result, decisions, action>>
       ELSE GiveUp("invalid_policy_output")
  /\ UNCHANGED Loop

\* Mutant of Propose: a rejected proposal is put to the policy again.
ProposeAgain(p) ==
  /\ pc = "deciding"
  /\ p.name \in Allowed(state, obs, history)
  /\ IF Guard(p, state, obs, history) = "allow"
       THEN /\ pc' = "executing"
            /\ action' = p
            /\ decisions' = decisions + 1
            /\ policy' = [policy EXCEPT !.requests = @ + 1]
       ELSE policy' = NewDecision /\ UNCHANGED <<pc, action, decisions>>
  /\ UNCHANGED result
  /\ UNCHANGED Loop

\* A valid decision goes straight to the guard.
Propose(p) ==
  /\ pc = "deciding"
  /\ p.name \in Allowed(state, obs, history)
  /\ policy' = [policy EXCEPT !.requests = @ + 1]
  /\ LET verdict == Guard(p, state, obs, history) IN
       IF verdict = "allow"
         THEN /\ pc' = "executing"
              /\ action' = p
              /\ decisions' = decisions + 1
              /\ UNCHANGED result
         ELSE GiveUp(IF verdict = "reject" THEN "guard_rejected"
                     ELSE "budget_exhausted")
  /\ UNCHANGED Loop

----------------------------------------------------------------------------
\* The state and the observation after the transition, and what they end in.
Adopt(t) ==
  /\ state' = t.state
  /\ obs' = Observe(t.state)
  /\ LET outcome == IF t.ended # "no" THEN t.ended
                    ELSE Verdict(t.state, Observe(t.state))
     IN IF outcome = "none"
          THEN pc' = "deciding" /\ policy' = NewDecision /\ UNCHANGED result
          ELSE /\ Report(outcome, t.state, decisions, Len(history) + 1)
               /\ UNCHANGED policy

\* The tool runs, the transition is applied, the loop goes on or ends.
Execute(r, v) ==
  /\ pc = "executing"
  /\ r \in ToolResults(action, snapshot, signalled)
  /\ v \in Signals(action, r, signalled)
  /\ history' = Append(history, action)
  /\ snapshot' = r.evidence
  /\ found' = IF action.name \in RetrievalActions
              THEN [query |-> action.query, evidence |-> r.evidence, verdict |-> v]
              ELSE found
  /\ Adopt(Transition(state, action, r, v))
  /\ UNCHANGED <<sameRun, signalled, begun, action, decisions>>

Next ==
  \/ Start
  \/ \E code \in {"timeout", "provider_failure", "empty_content"} : ProviderFails(code)
  \/ ProviderRaises
  \/ InvalidOutput
  \/ \E p \in Action : Propose(p)
  \/ \E r \in [status : {"success", "no_result", "failed"},
               evidence : 0 .. MaxEvidence, query : Queries], v \in Verdicts :
       Execute(r, v)

Spec == Init /\ [][Next]_vars
FairSpec == Spec /\ WF_vars(Next)

----------------------------------------------------------------------------
TypeOK ==
  /\ pc \in {"start", "deciding", "executing", "done"}
  /\ sameRun \in BOOLEAN
  /\ signalled \in BOOLEAN
  /\ begun \in AgentState
  /\ state \in AgentState
  /\ obs \in Observation
  /\ policy \in [attempt : 0 .. 2, retries : 0 .. 1, requests : 0 .. 3]
  /\ action \in Action
  /\ history \in Seq(Action)
  /\ snapshot \in Nat
  /\ decisions \in 0 .. MaxDecisions
  /\ found \in Observation
  /\ result \in Outcomes \cup {"none", Raised}

\* run() always has a result to return unless the provider itself raised: no
\* path makes more decisions or executions than AgentRunResult admits, and no
\* decision costs more than three requests (run_contracts.py, policy_runtime.py).
ResultIsBuilt ==
  /\ decisions <= MaxDecisions /\ Len(history) <= MaxDecisions
  /\ policy.requests <= MaxStructuralRepairs + 1 + MaxTransportRetries

Times(names) == Cardinality({i \in DOMAIN history : history[i].name \in names})

\* The counters are those of the executed tools, whatever the tools answered,
\* and stay within the frozen budgets: the branch of the transition for a
\* violated budget is never taken, because the guard decided on the same counts.
BudgetsAreKept ==
  /\ state.step = begun.step + Len(history)
  /\ state.retrievals = begun.retrievals + Times(RetrievalActions)
  /\ state.graphs = begun.graphs + Times({"graph_search"})
  /\ state.rewrites = begun.rewrites + Times({"rewrite_query"})
  /\ WithinBudget(state)

\* A run that finishes had evidence with a sufficient verdict from its last
\* search, and that search was for the query it finishes with or for the one
\* before its only rewrite: nothing else can authorize finish (guard.py).
FinishIsGrounded ==
  (result = "finished" /\ history # <<>>) =>
     /\ state.evidence > 0
     /\ found.evidence = state.evidence
     /\ found.verdict \in Sufficient
     /\ found.query = state.query \/ (found.query = begun.query /\ state.rewrites = 1)

\* Run status, state and last action tell the same story: an answer or an
\* abstention is reported exactly when the state says so, and an exhausted
\* budget has no step left (runtime.py, state_transition.py).
ReportsAgree ==
  pc = "done" =>
    /\ sameRun => /\ (result = "finished" <=> state.status = "finished")
                  /\ (result = "abstained" <=> state.status = "abstained")
    /\ result = "budget_exhausted" => state.step = MaxSteps
    /\ (state.status = "failed" /\ history # <<>>) => result = "budget_exhausted"

\* Every run ends, whatever the policy and the tools answer: every executed
\* action takes a step of the budget and every request one of the decision's.
RunEnds == <>(pc = "done")

=============================================================================
