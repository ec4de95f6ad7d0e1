--------------------------- MODULE SelectiveAgent ---------------------------
(***************************************************************************)
(* How the API answers /search and /ask when a selective agent may help:   *)
(* the search of the request, the live shadow that only watches, the       *)
(* canary that may apply what the agent found, the evaluation lane that is *)
(* kept out of the canary's books, and the answer.  The executor handles   *)
(* one request at a time; the process may stop anywhere and start again    *)
(* with another environment, while the canary's observation file stays.    *)
(*                                                                         *)
(* Abstractions: a response is its query, its number of evidence items,    *)
(* its verdict and its top reranker score in hundredths, where a missing   *)
(* score counts as 0, as it does wherever the code compares one.  Readi-   *)
(* ness, mode and bucket of the canary are properties of the request, like *)
(* the markers of its text.  All texts are alike, so users ask one of      *)
(* them.  The live shadow's file, telemetry that no code reads back, and   *)
(* the metadata of promotion and monitoring are left out, and so is the    *)
(* evaluation's second entry, which has its identity checked by its        *)
(* caller.                                                                 *)
(***************************************************************************)
EXTENDS AgentCore

CONSTANTS
  MaxSamples,   \* selected rows the canary's file takes
  Scores        \* the scores a reranker gives, in hundredths

ASSUME SamplesAssumption == MaxSamples \in Nat \ {0}
ASSUME ScoresAssumption == Scores \subseteq Int

VARIABLES
  config,    \* the environment the process was started with
  rows,      \* the canary's file: selected rows, all of which have executed,
             \*   and validations of the kill switch
  pc,        \* "idle", "route", "recovery", "judge", "veto", "concluded",
             \*   "answer", "done"
  req,       \* the request
  lane,      \* who runs the controller: "shadow", "canary", "controlled"
  calls,     \* repairs, retries and requests of the model's current decision
  seen,      \* the response the controller has come to
  vetoed,    \* the veto has decided to abstain
  terminal,  \* how the controller ended: "finished", "abstained" or "raised"
  canary,    \* what the canary reports
  served     \* the response the user gets and what became of it

vars == <<config, rows, pc, req, lane, calls, seen, vetoed, terminal, canary,
          served>>

RecoveryActions == {"hybrid_search", "structure_search", "graph_search", "rewrite_query"}

\* canary: its settings are refused, off, on, or on with the kill switch;
\* shadow: the live shadow is on.
Config == [canary : {"invalid", "off", "on", "killed"}, shadow : BOOLEAN]

\* What a search answers.  Without evidence the verdict is "unanswerable" and
\* there is no score.
Searches(q) ==
  {r \in [query : {q}, evidence : 0 .. MaxEvidence, verdict : SignalVerdicts,
          score : Scores \cup {0}] :
     r.evidence = 0 => r.verdict = "unanswerable" /\ r.score = 0}

Response == [query : Queries, evidence : Nat, verdict : Verdicts,
             score : Scores \cup {0}]

\* A request and what its own search found.  gates: whether the readiness gates
\* pass and the bucket lies within the exposure of an authoritative mode; text:
\* it refers to a context, or asks for a lane that the search did not use.
Request ==
  [traffic : {"search", "ask", "evaluation"},
   gates : {"unready", "control", "cohort"},
   text : {"plain", "ambiguous", "marked"},
   response : Response]

Asked == CHOOSE q \in Queries : TRUE

Requests ==
  [traffic : {"search", "ask", "evaluation"},
   gates : {"unready", "control", "cohort"},
   text : {"plain", "ambiguous", "marked"},
   response : Searches(Asked)]

\* Between two requests.
NoRequest ==
  [traffic |-> "search", gates |-> "unready", text |-> "plain",
   response |-> [query |-> Asked, evidence |-> 0, verdict |-> "unanswerable",
                 score |-> 0]]

NoCalls == [attempt |-> 0, retries |-> 0, requests |-> 0]
NoCanary == [selected |-> FALSE, executed |-> FALSE, applied |-> FALSE]

----------------------------------------------------------------------------
Judged(r) == IF r.verdict \in Sufficient THEN "finished" ELSE "abstained"

Rank(v) == CASE v = "answerable" -> 3 [] v = "partially_answerable" -> 2
             [] v = "insufficient_evidence" -> 1 [] OTHER -> 0

\* Mutant of Harmed: only the loss of a strong score counts.
HarmedBelowWeak(before, after) ==
  \/ before.score >= 35 /\ after.score < 35
  \/ after.evidence < before.evidence
  \/ Rank(after.verdict) < Rank(before.verdict)

\* A score that drops by less than 0.05 does no harm.
Harmed(before, after) ==
  \/ before.score - after.score >= 5
  \/ after.evidence < before.evidence
  \/ Rank(after.verdict) < Rank(before.verdict)

\* No evidence, or none with a score of 0.35.
Weak(response) == response.evidence = 0 \/ response.score < 35

\* The two gates before the recovery policy: the request is no ambiguous one,
\* it has an opportunity or weak evidence, and the evidence leaves it open
\* whether a recovery helps.
Invoked(r) ==
  /\ r.text # "ambiguous"
  /\ r.text = "marked" \/ Weak(r.response)
  /\ \/ r.text = "marked" \/ r.response.verdict = "partially_answerable"
     \/ /\ r.response.verdict # "answerable"
        /\ \/ r.response.evidence > 0
           \/ r.response.verdict \notin {"insufficient_evidence", "unanswerable"}

\* Mutant of Countable: evaluation traffic counts as well.
CountableAny(r) == TRUE

Countable(r) == r.traffic # "evaluation"

\* Mutant of Selected: the kill switch only keeps further samples out.
SelectedUnlessFull(r) ==
  /\ config.canary = "on" \/ (config.canary = "killed" /\ rows.selected < MaxSamples)
  /\ Countable(r)
  /\ r.gates = "cohort"

Selected(r) ==
  /\ config.canary = "on"
  /\ Countable(r)
  /\ r.gates = "cohort"

\* The evaluation's lane runs only what is ready and the canary would not count.
Admitted(r) ==
  /\ r.gates # "unready"
  /\ config.canary # "invalid"
  /\ ~Countable(r) /\ ~Selected(r)

----------------------------------------------------------------------------
\* No controller has run for request r.
Fresh(r) ==
  /\ calls' = NoCalls
  /\ seen' = r.response
  /\ vetoed' = FALSE
  /\ terminal' = Judged(r.response)

Controller == <<calls, seen, vetoed, terminal>>

Rest ==
  /\ pc' = "idle"
  /\ req' = NoRequest
  /\ lane' = "shadow"
  /\ Fresh(NoRequest)
  /\ canary' = NoCanary
  /\ served' = [response |-> NoRequest.response, text |-> "none"]

Init ==
  /\ config \in Config
  /\ rows = [selected |-> 0, validated |-> 0]
  /\ pc = "idle"
  /\ req = NoRequest
  /\ lane = "shadow"
  /\ calls = NoCalls
  /\ seen = NoRequest.response
  /\ vetoed = FALSE
  /\ terminal = Judged(NoRequest.response)
  /\ canary = NoCanary
  /\ served = [response |-> NoRequest.response, text |-> "none"]

\* The controller starts from the response of the request's own search.
Enter(l, r) ==
  /\ lane' = l
  /\ pc' = IF Invoked(r) THEN "recovery" ELSE "judge"
  /\ Fresh(r)

\* The search of a request is done; the live shadow, if any, comes first.
Receive(r) ==
  /\ pc = "idle"
  /\ req' = r
  /\ served' = [response |-> r.response, text |-> "none"]
  /\ IF config.shadow THEN Enter("shadow", r)
     ELSE pc' = "route" /\ Fresh(r) /\ UNCHANGED lane
  /\ UNCHANGED <<config, rows, canary>>

\* The lane of the canary, or the answer when it does not select the request.
RouteUser ==
  IF Selected(req)
    THEN /\ Enter("canary", req)
         /\ canary' = [NoCanary EXCEPT !.selected = TRUE]
    ELSE pc' = "answer" /\ UNCHANGED <<lane, canary>> /\ UNCHANGED Controller

\* Evaluation traffic has a lane of its own, or fails.
RouteEvaluation ==
  /\ UNCHANGED canary
  /\ IF Admitted(req) THEN Enter("controlled", req)
     ELSE pc' = "done" /\ UNCHANGED lane /\ UNCHANGED Controller

\* Mutant of Validates: every request under the kill switch leaves a row.
ValidatesAgain ==
  config.canary = "killed" /\ Countable(req) /\ rows.selected > 0

\* The first request that the kill switch keeps from the agent, after the
\* agent has executed for another, is recorded once.
Validates ==
  config.canary = "killed" /\ Countable(req) /\ rows.selected > 0 /\ rows.validated = 0

\* The routing after the shadow.  Writing the file may fail.
Route ==
  /\ pc = "route"
  /\ IF req.traffic # "evaluation" THEN RouteUser ELSE RouteEvaluation
  /\ served' = IF pc' = "done" THEN [served EXCEPT !.text = "error"] ELSE served
  /\ rows' \in IF Validates /\ ~Selected(req)
               THEN {rows, [rows EXCEPT !.validated = @ + 1]} ELSE {rows}
  /\ UNCHANGED <<config, req>>

----------------------------------------------------------------------------
Asking == pc \in {"recovery", "veto"}
Around == <<config, rows, req, lane, canary, served>>

\* The decision came to nothing: no recovery, or no veto.
Dropped == IF pc = "recovery" THEN "judge" ELSE "concluded"

Retryable(code) == code = "transport" /\ calls.retries < 1

\* The provider reports a failure; one that may pass is tried once more.
CallFails(code) ==
  /\ Asking
  /\ calls' = [calls EXCEPT !.requests = @ + 1, !.retries = @ + One(Retryable(code))]
  /\ pc' = IF Retryable(code) THEN pc ELSE Dropped
  /\ UNCHANGED <<seen, vetoed, terminal>>
  /\ UNCHANGED Around

\* An answer the schema refuses is repaired once.
CallInvalid ==
  /\ Asking
  /\ calls' = [calls EXCEPT !.requests = @ + 1, !.attempt = @ + 1]
  /\ pc' = IF calls.attempt < 1 THEN pc ELSE Dropped
  /\ UNCHANGED <<seen, vetoed, terminal>>
  /\ UNCHANGED Around

\* An exception that neither policy turns into a failure leaves the controller.
CallRaises ==
  /\ Asking
  /\ calls' = [calls EXCEPT !.requests = @ + 1]
  /\ pc' = "concluded"
  /\ terminal' = "raised"
  /\ UNCHANGED <<seen, vetoed>>
  /\ UNCHANGED Around

Seed == Seeded(req.response.query, req.response.evidence, req.response.verdict)

Proposals == {p \in Action : p.name \in RecoveryActions \cap Allowed(Seed, Observe(Seed), <<>>)}

Authorized(p) == Guard(p, Seed, Observe(Seed), <<>>) = "allow"

\* The policy names a recovery that comes to nothing: the guard refuses it, or
\* its search raises, which a tool reports as a failure.
RecoverNothing(p) ==
  /\ pc = "recovery"
  /\ p \in Proposals
  /\ ~Authorized(p) \/ p.name # "rewrite_query"
  /\ pc' = "judge"
  /\ calls' = [calls EXCEPT !.requests = @ + 1]
  /\ UNCHANGED <<seen, vetoed, terminal>>
  /\ UNCHANGED Around

\* The search for a rewritten query is no tool: what it raises is not caught.
RewriteRaises ==
  /\ pc = "recovery"
  /\ \E p \in Proposals : p.name = "rewrite_query" /\ Authorized(p)
  /\ pc' = "concluded"
  /\ terminal' = "raised"
  /\ calls' = [calls EXCEPT !.requests = @ + 1]
  /\ UNCHANGED <<seen, vetoed>>
  /\ UNCHANGED Around

\* Its search finds something, which is adopted as it is, even when the tool
\* calls a graph search without its one hop failed.
Recover(p) ==
  /\ pc = "recovery"
  /\ p \in Proposals
  /\ Authorized(p)
  /\ pc' = "judge"
  /\ calls' = [calls EXCEPT !.requests = @ + 1]
  /\ seen' \in Searches(p.query)
  /\ terminal' = Judged(seen')
  /\ UNCHANGED vetoed
  /\ UNCHANGED Around

\* The conflict gate: only an answer about to be finished can be vetoed.
Judge(conflict) ==
  /\ pc = "judge"
  /\ conflict => terminal = "finished"
  /\ pc' = IF conflict THEN "veto" ELSE "concluded"
  /\ calls' = NoCalls
  /\ UNCHANGED <<seen, vetoed, terminal>>
  /\ UNCHANGED Around

\* Mutant of Vetoed: the veto is only noted.
VetoedNever(decision) == terminal

Vetoed(decision) == IF decision = "abstain" THEN "abstained" ELSE terminal

Veto(decision) ==
  /\ pc = "veto"
  /\ calls' = [calls EXCEPT !.requests = @ + 1]
  /\ pc' = "concluded"
  /\ vetoed' = (decision = "abstain")
  /\ terminal' = Vetoed(decision)
  /\ UNCHANGED seen
  /\ UNCHANGED Around

----------------------------------------------------------------------------
\* The live shadow ends, with a row in its own file at most.
ShadowEnds ==
  /\ pc = "concluded" /\ lane = "shadow"
  /\ pc' = "route"
  /\ Fresh(req)
  /\ UNCHANGED Around

\* Downstream validation: a harmful recovery gives no authority.
Applies == terminal # "raised" /\ ~Harmed(req.response, seen)

\* Mutant of Room: the cap is the last number with room.
RoomPastCap == rows.selected <= MaxSamples

Room == rows.selected < MaxSamples

\* The canary ends with its report, and a row in the file if it takes one.
CanaryEnds(stored) ==
  /\ pc = "concluded" /\ lane = "canary"
  /\ stored => Room
  /\ canary' = [canary EXCEPT !.executed = TRUE, !.applied = Applies]
  /\ rows' = IF stored THEN [rows EXCEPT !.selected = @ + 1] ELSE rows
  /\ pc' = "answer"
  /\ calls' = NoCalls
  /\ UNCHANGED <<config, req, lane, seen, vetoed, terminal, served>>

\* The evaluation has no fallback: what the controller raises ends it.
ControlledEnds ==
  /\ pc = "concluded" /\ lane = "controlled"
  /\ canary' = [canary EXCEPT !.applied = Applies]
  /\ IF terminal = "raised"
       THEN pc' = "done" /\ served' = [served EXCEPT !.text = "error"]
       ELSE pc' = "answer" /\ UNCHANGED served
  /\ calls' = NoCalls
  /\ UNCHANGED <<config, rows, req, lane, seen, vetoed, terminal>>

\* What can become of the answer to a response: a refusal without evidence or
\* when the candidate has abstained, else what its own verdict, refined, and
\* the answer's model make of it.
Texts(r, abstained) ==
  IF abstained \/ r.evidence = 0 THEN {"refused"} ELSE {"generated", "refused", "error"}

\* A search answers with a trace.  A recovered response has none: the trace of
\* the request's own search is returned in its place.
Replies ==
  IF req.traffic = "search" THEN {[response |-> req.response, text |-> "trace"]}
  ELSE IF canary.applied
    THEN [response : {seen}, text : Texts(seen, terminal = "abstained")]
  ELSE [response : {req.response}, text : Texts(req.response, FALSE)]

Answer ==
  /\ pc = "answer"
  /\ pc' = "done"
  /\ served' \in Replies
  /\ UNCHANGED <<config, rows, req, lane, calls, seen, vetoed, terminal,
                 canary>>

\* Mutant of Release: a failed request keeps the executor.
ReleaseAnswered ==
  pc = "done" /\ served.text # "error" /\ Rest /\ UNCHANGED <<config, rows>>

\* The executor is free for the next request.
Release == pc = "done" /\ Rest /\ UNCHANGED <<config, rows>>

\* The process stops, and starts again with another environment.
Restart(c) == Rest /\ config' = c /\ UNCHANGED rows

Handle ==
  \/ Route
  \/ \E code \in {"transport", "other"} : CallFails(code)
  \/ CallInvalid
  \/ CallRaises
  \/ \E p \in Action : RecoverNothing(p)
  \/ RewriteRaises
  \/ \E p \in Action : Recover(p)
  \/ \E conflict \in BOOLEAN : Judge(conflict)
  \/ \E decision \in {"keep_finish", "abstain"} : Veto(decision)
  \/ ShadowEnds
  \/ \E stored \in BOOLEAN : CanaryEnds(stored)
  \/ ControlledEnds
  \/ Answer
  \/ Release

Next ==
  \/ \E r \in Requests : Receive(r)
  \/ Handle
  \/ \E c \in Config : Restart(c)

Spec == Init /\ [][Next]_vars
FairSpec == Spec /\ WF_vars(Handle)

----------------------------------------------------------------------------
TypeOK ==
  /\ config \in Config
  /\ rows \in [selected : Nat, validated : Nat]
  /\ pc \in {"idle", "route", "recovery", "judge", "veto", "concluded", "answer", "done"}
  /\ req \in Request
  /\ lane \in {"shadow", "canary", "controlled"}
  /\ calls \in [attempt : 0 .. 2, retries : 0 .. 1, requests : 0 .. 3]
  /\ seen \in Response
  /\ vetoed \in BOOLEAN
  /\ terminal \in {"finished", "abstained", "raised"}
  /\ canary \in [selected : BOOLEAN, executed : BOOLEAN, applied : BOOLEAN]
  /\ served \in [response : Response,
                 text : {"none", "trace", "generated", "refused", "error"}]

\* "A Recovery that is diagnosed as harmful is never applied in Canary
\* authority" (execution.py:527): no user is served a response with less
\* evidence, a worse verdict or a score lower by 0.05 or more than the search
\* had found.  A smaller drop is served (live_selective_agent_shadow.py:236).
HarmIsNeverServed ==
  /\ served.response.evidence >= req.response.evidence
  /\ Rank(served.response.verdict) >= Rank(req.response.verdict)
  /\ req.response.score - served.response.score < 5

\* Whatever the shadow and a failed canary did, a request without authority is
\* answered from its own search; and no candidate executes for a request under
\* the kill switch, outside its cohort, without readiness or not from a user.
ControlIsBaseline ==
  /\ ~canary.applied => served.response = req.response
  /\ canary.executed => /\ canary.selected
                        /\ req.traffic # "evaluation" /\ req.gates = "cohort"
                        /\ config.canary = "on"

\* Under the candidate's authority an answer is generated only from evidence
\* that the rules had judged sufficient and that no veto has stopped: the
\* model can withhold an answer, never allow one (execution.py:456).
AnswersAreGoverned ==
  (served.text = "generated" /\ canary.applied) =>
     /\ ~vetoed
     /\ served.response.verdict \in Sufficient
     /\ served.response.evidence > 0

\* A decision costs at most three provider requests even when transport
\* failures and repairs mix (task0258_runtime_support.py:220).
RequestsAreBounded == calls.requests <= 3

\* The file holds no more samples than it is configured for, and at most one
\* validation of the kill switch, which only a real execution can precede.
BooksAreKept ==
  /\ rows.selected <= MaxSamples
  /\ rows.validated <= 1
  /\ rows.validated = 1 => rows.selected > 0

\* Evaluation traffic leaves no row: it is neither a sample of the canary nor a
\* validation of the kill switch (execution.py:101-103).
EvaluationIsIsolated == [][req.traffic = "evaluation" => UNCHANGED rows]_vars

\* Every request the executor takes on is answered or fails, unless the
\* process stops: it would block all later ones.
RequestsEnd == (pc # "idle") ~> (pc = "idle")

=============================================================================
