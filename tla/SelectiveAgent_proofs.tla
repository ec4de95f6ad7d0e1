----------------------- MODULE SelectiveAgent_proofs -----------------------
(***************************************************************************)
(* Theorems of SelectiveAgent, for every set of texts, every bound on the  *)
(* evidence, every set of verdicts and of scores a search can be given and *)
(* every size of the canary's file.                                        *)
(*                                                                         *)
(* The invariant beside TypeOK has three parts.  CallsInv counts what a    *)
(* decision has cost so far.  AuthorityInv says what the canary's report   *)
(* promises of the controller's response from the moment it is applied,    *)
(* and where the served response comes from.  LaneInv says what the lane,  *)
(* the report and the request have to do with each other.                  *)
(***************************************************************************)
EXTENDS SelectiveAgent, TLAPS

Calls == [attempt : 0 .. 2, retries : 0 .. 1, requests : 0 .. 3]

Running == {"recovery", "judge", "veto", "concluded"}

CallsInv ==
  Asking => calls.attempt <= 1 /\ calls.requests <= calls.attempt + calls.retries

AuthorityInv ==
  /\ canary.applied => /\ pc \in {"answer", "done"}
                       /\ terminal # "raised"
                       /\ ~Harmed(req.response, seen)
  /\ \/ served.response = req.response
     \/ pc = "done" /\ canary.applied /\ served.response = seen
  /\ vetoed => pc \in {"concluded", "answer", "done"} /\ terminal = "abstained"
  /\ terminal = "finished" => seen.verdict \in Sufficient
  /\ served.text = "generated" =>
        /\ pc = "done"
        /\ canary.applied =>
             served.response = seen /\ terminal = "finished" /\ seen.evidence > 0

LaneInv ==
  /\ pc = "idle" => canary = NoCanary
  /\ (pc \in Running /\ lane = "canary") => canary.selected
  /\ canary.executed => canary.selected
  /\ canary.selected => /\ req.traffic # "evaluation" /\ req.gates = "cohort"
                        /\ config.canary = "on"

IInv == TypeOK /\ CallsInv /\ AuthorityInv /\ LaneInv /\ BooksAreKept

----------------------------------------------------------------------------
\* What a search answers is a response.
LEMMA SearchesAreResponses ==
  ASSUME NEW q \in Queries, NEW r \in Searches(q)
  PROVE  r \in Response
BY VerdictsAssumption, EvidenceAssumption DEF Searches, Response

LEMMA AskedIsAQuery == Asked \in Queries
BY QueriesAssumption DEF Asked

LEMMA RequestsAreTyped == Requests \subseteq Request
<1>1. ASSUME NEW r \in Searches(Asked) PROVE r \in Response
  BY SearchesAreResponses, AskedIsAQuery
<1>2. QED
  BY <1>1 DEF Requests, Request

LEMMA NoRequestIsTyped == NoRequest \in Request
BY AskedIsAQuery DEF NoRequest, Request, Response, Verdicts

LEMMA ScoresAreNumbers ==
  ASSUME NEW r \in Response
  PROVE  r.score \in Int
<1>1. r.score \in Scores \/ r.score = 0
  BY DEF Response
<1>2. CASE r.score \in Scores
  BY <1>2, ScoresAssumption
<1>3. CASE r.score = 0
  BY <1>3
<1>4. QED
  BY <1>1, <1>2, <1>3

\* What is not harmed has kept its evidence, its verdict and, but for less than
\* 0.05, its score.
LEMMA HarmlessIsNoLoss ==
  ASSUME NEW before \in Response, NEW after \in Response,
         after = before \/ ~Harmed(before, after)
  PROVE  /\ after.evidence >= before.evidence
         /\ Rank(after.verdict) >= Rank(before.verdict)
         /\ before.score - after.score < 5
<1>1. before.evidence \in Nat /\ after.evidence \in Nat
  BY DEF Response
<1>2. Rank(before.verdict) \in Nat /\ Rank(after.verdict) \in Nat
  BY DEF Rank
<1>3. before.score \in Int /\ after.score \in Int
  BY ScoresAreNumbers
<1>4. CASE after = before
  BY <1>1, <1>2, <1>3, <1>4
<1>5. CASE ~Harmed(before, after)
  BY <1>1, <1>2, <1>3, <1>5 DEF Harmed
<1>6. QED
  BY <1>4, <1>5

LEMMA JudgedIsTyped ==
  ASSUME NEW r \in Response
  PROVE  /\ Judged(r) \in {"finished", "abstained"}
         /\ Judged(r) = "finished" => r.verdict \in Sufficient
BY DEF Judged

LEMMA NoCallsTyped == NoCalls \in Calls
BY DEF NoCalls, Calls

----------------------------------------------------------------------------
LEMMA InitInv == Init => IInv
<1>1. /\ NoRequest \in Request /\ NoRequest.response \in Response
  BY NoRequestIsTyped DEF Request
<1>2. Judged(NoRequest.response) = "abstained"
  BY DEF Judged, Sufficient, NoRequest
<1>3. Init => TypeOK
  <2>1. ASSUME Init
        PROVE  /\ seen \in Response /\ req \in Request
               /\ calls \in Calls
               /\ terminal \in {"finished", "abstained", "raised"}
    BY <1>1, <1>2, <2>1, NoCallsTyped DEF Init
  <2>2. ASSUME Init
        PROVE  /\ canary \in [selected : BOOLEAN, executed : BOOLEAN, applied : BOOLEAN]
               /\ rows \in [selected : Nat, validated : Nat]
    BY <2>2 DEF Init, NoCanary
  <2>3. ASSUME Init
        PROVE  served \in [response : Response,
                          text : {"none", "trace", "generated", "refused", "error"}]
    BY <1>1, <2>3 DEF Init
  <2>4. QED
    BY <2>1, <2>2, <2>3 DEF Init, TypeOK, Calls
<1>4. Init => CallsInv /\ LaneInv
  BY DEF Init, CallsInv, LaneInv, Asking, NoCanary, Running
<1>5. Init => AuthorityInv
  BY <1>2 DEF Init, AuthorityInv, NoCanary
<1>6. Init => BooksAreKept
  BY SamplesAssumption DEF Init, BooksAreKept
<1>7. QED
  BY <1>3, <1>4, <1>5, <1>6 DEF IInv

\* A controller begins, or a request has none: its fields are typed and say
\* nothing yet.
LEMMA FreshIsTyped ==
  ASSUME NEW r \in Request, Fresh(r)
  PROVE  /\ calls' \in Calls
         /\ calls'.attempt = 0 /\ calls'.requests = 0 /\ calls'.retries = 0
         /\ seen' = r.response /\ seen' \in Response
         /\ vetoed' = FALSE
         /\ terminal' \in {"finished", "abstained"}
         /\ terminal' = "finished" => seen'.verdict \in Sufficient
<1>1. r.response \in Response
  BY DEF Request
<1>2. QED
  BY <1>1, JudgedIsTyped, NoCallsTyped DEF Fresh, NoCalls

\* Between two requests nothing is claimed.
LEMMA RestInv ==
  ASSUME IInv, Rest, config' \in Config, UNCHANGED rows
  PROVE  IInv'
<1>1. NoRequest \in Request /\ NoRequest.response \in Response
  BY NoRequestIsTyped DEF Request
<1>2. /\ pc' = "idle" /\ req' = NoRequest /\ lane' = "shadow" /\ canary' = NoCanary
      /\ served' = [response |-> NoRequest.response, text |-> "none"]
      /\ Fresh(NoRequest)
  BY DEF Rest
<1>3. TypeOK'
  <2>1. rows' \in [selected : Nat, validated : Nat]
    BY DEF IInv, TypeOK
  <2>2. QED
    BY <1>1, <1>2, <2>1, FreshIsTyped DEF TypeOK, NoCanary, Calls
<1>4. CallsInv' /\ LaneInv'
  BY <1>2 DEF CallsInv, LaneInv, Asking, NoCanary, Running
<1>5. AuthorityInv'
  <2>1. /\ vetoed' = FALSE
        /\ terminal' = "finished" => seen'.verdict \in Sufficient
    BY <1>1, <1>2, FreshIsTyped
  <2>2. canary'.applied = FALSE /\ served'.text = "none" /\ served'.response = req'.response
    BY <1>2 DEF NoCanary
  <2>3. QED
    BY <2>1, <2>2 DEF AuthorityInv
<1>6. BooksAreKept'
  BY DEF IInv, BooksAreKept
<1>7. QED
  BY <1>3, <1>4, <1>5, <1>6 DEF IInv

----------------------------------------------------------------------------
\* The steps that begin a request.
LEMMA ReceiveInv ==
  ASSUME IInv, NEW r \in Requests, Receive(r)
  PROVE  IInv'
<1>1. r \in Request /\ r.response \in Response
  BY RequestsAreTyped DEF Request
<1>2. /\ pc = "idle" /\ canary = NoCanary
      /\ req' = r /\ canary' = canary /\ config' = config /\ rows' = rows
      /\ served' = [response |-> r.response, text |-> "none"]
      /\ Fresh(r)
      /\ \/ pc' \in {"recovery", "judge"} /\ lane' = "shadow"
         \/ pc' = "route" /\ lane' = lane
  BY DEF IInv, LaneInv, Receive, Enter
<1>3. TypeOK'
  <2>1. /\ config' \in Config /\ rows' \in [selected : Nat, validated : Nat]
        /\ canary' \in [selected : BOOLEAN, executed : BOOLEAN, applied : BOOLEAN]
        /\ lane' \in {"shadow", "canary", "controlled"}
    BY <1>2 DEF IInv, TypeOK
  <2>2. QED
    BY <1>1, <1>2, <2>1, FreshIsTyped DEF TypeOK, Calls
<1>4. CallsInv'
  <2>1. calls'.attempt = 0 /\ calls'.requests = 0 /\ calls'.retries = 0
    BY <1>1, <1>2, FreshIsTyped
  <2>2. QED
    BY <2>1 DEF CallsInv
<1>5. AuthorityInv'
  <2>1. vetoed' = FALSE /\ (terminal' = "finished" => seen'.verdict \in Sufficient)
    BY <1>1, <1>2, FreshIsTyped
  <2>2. canary'.applied = FALSE /\ served'.text = "none" /\ served'.response = req'.response
    BY <1>2 DEF NoCanary
  <2>3. QED
    BY <2>1, <2>2 DEF AuthorityInv
<1>6. LaneInv'
  BY <1>2 DEF LaneInv, NoCanary, Running
<1>7. BooksAreKept'
  BY <1>2 DEF IInv, BooksAreKept
<1>8. QED
  BY <1>3, <1>4, <1>5, <1>6, <1>7 DEF IInv

LEMMA RouteInv ==
  ASSUME IInv, Route
  PROVE  IInv'
<1>1. /\ pc = "route" /\ config' = config /\ req' = req /\ canary.applied = FALSE
      /\ req \in Request
      /\ served.response = req.response /\ served.text # "generated"
  BY DEF IInv, TypeOK, AuthorityInv, Route
<1>2. /\ \/ pc' \in {"recovery", "judge"} /\ Fresh(req) /\ lane' \in {"canary", "controlled"}
         \/ pc' \in {"answer", "done"} /\ lane' = lane /\ UNCHANGED Controller
      /\ \/ canary' = canary
         \/ canary' = [NoCanary EXCEPT !.selected = TRUE] /\ Selected(req)
      /\ (pc' \in {"recovery", "judge"} /\ lane' = "canary") => canary'.selected
  BY DEF Route, RouteUser, RouteEvaluation, Enter, NoCanary
<1>3. served' = served \/ served' = [served EXCEPT !.text = "error"]
  BY DEF Route
<1>4. rows' = rows \/ (rows' = [rows EXCEPT !.validated = @ + 1] /\ Validates)
  BY DEF Route
<1>5. TypeOK'
  <2>a. rows' \in [selected : Nat, validated : Nat]
    BY <1>4 DEF IInv, TypeOK
  <2>b. served' \in [response : Response,
                    text : {"none", "trace", "generated", "refused", "error"}]
    BY <1>3 DEF IInv, TypeOK
  <2>c. canary' \in [selected : BOOLEAN, executed : BOOLEAN, applied : BOOLEAN]
    BY <1>2 DEF IInv, TypeOK, NoCanary
  <2>1. /\ rows' \in [selected : Nat, validated : Nat]
        /\ served' \in [response : Response,
                        text : {"none", "trace", "generated", "refused", "error"}]
        /\ canary' \in [selected : BOOLEAN, executed : BOOLEAN, applied : BOOLEAN]
        /\ config' \in Config /\ req' \in Request
    BY <1>1, <2>a, <2>b, <2>c DEF IInv, TypeOK
  <2>2. CASE Fresh(req) /\ pc' \in {"recovery", "judge"} /\ lane' \in {"canary", "controlled"}
    BY <1>1, <2>1, <2>2, FreshIsTyped DEF TypeOK, Calls
  <2>3. CASE pc' \in {"answer", "done"} /\ lane' = lane /\ UNCHANGED Controller
    BY <2>1, <2>3 DEF IInv, TypeOK, Controller, Calls
  <2>4. QED
    BY <1>2, <2>2, <2>3
<1>6. CallsInv'
  <2>1. CASE Fresh(req)
    <3>1. calls'.attempt = 0 /\ calls'.requests = 0 /\ calls'.retries = 0
      BY <1>1, <2>1, FreshIsTyped
    <3>2. QED
      BY <3>1 DEF CallsInv
  <2>2. CASE pc' \in {"answer", "done"}
    BY <2>2 DEF CallsInv, Asking
  <2>3. QED
    BY <1>2, <2>1, <2>2
<1>7. AuthorityInv'
  <2>1. canary'.applied = FALSE
    BY <1>1, <1>2 DEF NoCanary
  <2>2. served'.response = req'.response /\ served'.text # "generated"
    BY <1>1, <1>3 DEF IInv, TypeOK
  <2>3. /\ vetoed' = FALSE
        /\ terminal' = "finished" => seen'.verdict \in Sufficient
    <3>1. CASE Fresh(req)
      BY <1>1, <3>1, FreshIsTyped
    <3>2. CASE UNCHANGED Controller
      BY <1>1, <3>2 DEF IInv, TypeOK, AuthorityInv, Controller
    <3>3. QED
      BY <1>2, <3>1, <3>2
  <2>4. QED
    BY <2>1, <2>2, <2>3 DEF AuthorityInv
<1>8. LaneInv'
  BY <1>1, <1>2 DEF IInv, LaneInv, NoCanary, Running, Selected, Countable
<1>9. BooksAreKept'
  BY <1>4 DEF IInv, TypeOK, BooksAreKept, Validates
<1>10. QED
  BY <1>5, <1>6, <1>7, <1>8, <1>9 DEF IInv

----------------------------------------------------------------------------
\* The steps of a controller leave everything around it alone, and a controller
\* runs only before the report and the answer.
LEMMA ControllerStepInv ==
  ASSUME IInv, UNCHANGED Around, pc \in Running, pc' \in Running,
         calls' \in Calls,
         seen' \in Response, vetoed' \in BOOLEAN,
         terminal' \in {"finished", "abstained", "raised"},
         CallsInv',
         vetoed' => pc' = "concluded" /\ terminal' = "abstained",
         terminal' = "finished" => seen'.verdict \in Sufficient
  PROVE  IInv'
<1>1. /\ config' = config /\ rows' = rows /\ req' = req /\ lane' = lane
      /\ canary' = canary /\ served' = served
  BY DEF Around
<1>2. canary.applied = FALSE /\ served.text # "generated" /\ served.response = req.response
  BY DEF IInv, TypeOK, AuthorityInv, Running
<1>3. TypeOK'
  BY <1>1 DEF IInv, TypeOK, Running, Calls
<1>4. AuthorityInv'
  BY <1>1, <1>2 DEF AuthorityInv
<1>5. LaneInv'
  BY <1>1 DEF IInv, LaneInv, Running
<1>6. BooksAreKept'
  BY <1>1 DEF IInv, BooksAreKept
<1>7. QED
  BY <1>3, <1>4, <1>5, <1>6 DEF IInv

\* A request of a decision: what it costs when the decision goes on or ends.
LEMMA CallsCounted ==
  ASSUME IInv, Asking
  PROVE  /\ calls.attempt \in 0 .. 1 /\ calls.retries \in 0 .. 1
         /\ calls.requests \in 0 .. 2
         /\ calls.requests <= calls.attempt + calls.retries
BY DEF IInv, TypeOK, CallsInv, Calls

LEMMA CallFailsInv ==
  ASSUME IInv, NEW code \in {"transport", "other"}, CallFails(code)
  PROVE  IInv'
<1> DEFINE n == One(Retryable(code))
<1>1. /\ Asking /\ UNCHANGED Around
      /\ seen' = seen /\ vetoed' = vetoed /\ terminal' = terminal
      /\ calls' = [calls EXCEPT !.requests = @ + 1, !.retries = @ + n]
      /\ pc' = IF Retryable(code) THEN pc ELSE Dropped
  BY DEF CallFails
<1>2. calls \in Calls
  BY DEF IInv, TypeOK, Calls
<1>3. /\ calls.attempt \in 0 .. 1 /\ calls.retries \in 0 .. 1 /\ calls.requests \in 0 .. 2
      /\ calls.requests <= calls.attempt + calls.retries
  BY <1>1, CallsCounted
<1>4. /\ n \in 0 .. 1 /\ calls.retries + n <= 1
      /\ ~Retryable(code) => pc' \in {"judge", "concluded"}
      /\ Retryable(code) => n = 1 /\ pc' = pc
  <2>1. CASE Retryable(code)
    <3>1. n = 1 /\ pc' = pc
      BY <1>1, <2>1 DEF One
    <3>2. calls.retries = 0
      BY <1>3, <2>1 DEF Retryable
    <3>3. n \in 0 .. 1 /\ calls.retries + n <= 1
      BY <3>1, <3>2
    <3>4. QED
      BY <2>1, <3>1, <3>3, Zenon
  <2>2. CASE ~Retryable(code)
    <3>1. n = 0 /\ pc' \in {"judge", "concluded"}
      BY <1>1, <2>2 DEF One, Dropped
    <3>2. QED
      BY <1>3, <2>2, <3>1
  <2>3. QED
    BY <2>1, <2>2
<1> HIDE DEF n
<1>5. calls' = [attempt |-> calls.attempt, retries |-> calls.retries + n,
                requests |-> calls.requests + 1]
  BY <1>1, <1>2, <1>4 DEF Calls
<1>6. calls' \in Calls
  BY <1>3, <1>4, <1>5 DEF Calls
<1>7. CallsInv'
  <2>1. CASE Retryable(code)
    BY <1>3, <1>4, <1>5, <2>1 DEF CallsInv
  <2>2. CASE ~Retryable(code)
    BY <1>4, <2>2 DEF CallsInv, Asking
  <2>3. QED
    BY <2>1, <2>2
<1>8. pc' \in Running
  BY <1>1, <1>4 DEF Asking, Running
<1>9. QED
  BY <1>1, <1>6, <1>7, <1>8, ControllerStepInv
     DEF IInv, TypeOK, AuthorityInv, Running, Asking, Calls

LEMMA CallInvalidInv ==
  ASSUME IInv, CallInvalid
  PROVE  IInv'
<1>1. /\ Asking /\ UNCHANGED Around
      /\ seen' = seen /\ vetoed' = vetoed /\ terminal' = terminal
      /\ calls' = [calls EXCEPT !.requests = @ + 1, !.attempt = @ + 1]
      /\ pc' = IF calls.attempt < 1 THEN pc ELSE Dropped
  BY DEF CallInvalid
<1>2. calls \in Calls
  BY DEF IInv, TypeOK, Calls
<1>3. /\ calls.attempt \in 0 .. 1 /\ calls.retries \in 0 .. 1 /\ calls.requests \in 0 .. 2
      /\ calls.requests <= calls.attempt + calls.retries
  BY <1>1, CallsCounted
<1>4. calls' = [attempt |-> calls.attempt + 1, retries |-> calls.retries,
                requests |-> calls.requests + 1]
  BY <1>1, <1>2 DEF Calls
<1>5. calls' \in Calls
  BY <1>3, <1>4 DEF Calls
<1>6. CallsInv'
  <2>1. CASE calls.attempt < 1
    BY <1>3, <1>4, <2>1 DEF CallsInv
  <2>2. CASE ~(calls.attempt < 1)
    BY <1>1, <2>2 DEF CallsInv, Asking, Dropped
  <2>3. QED
    BY <2>1, <2>2
<1>7. pc' \in Running
  BY <1>1 DEF Asking, Dropped, Running
<1>8. QED
  BY <1>1, <1>5, <1>6, <1>7, ControllerStepInv
     DEF IInv, TypeOK, AuthorityInv, Running, Asking, Calls

\* The steps that end a decision with one last request.
LEMMA LastCall ==
  ASSUME IInv, Asking, pc' \notin {"recovery", "veto"},
         calls' = [calls EXCEPT !.requests = @ + 1]
  PROVE  calls' \in Calls /\ CallsInv'
<1>1. calls \in Calls
  BY DEF IInv, TypeOK, Calls
<1>2. QED
  BY <1>1, CallsCounted DEF CallsInv, Asking, Calls

LEMMA CallRaisesInv ==
  ASSUME IInv, CallRaises
  PROVE  IInv'
<1>1. /\ Asking /\ UNCHANGED Around /\ seen' = seen /\ vetoed' = vetoed
      /\ terminal' = "raised" /\ pc' = "concluded"
      /\ calls' = [calls EXCEPT !.requests = @ + 1]
  BY DEF CallRaises
<1>2. vetoed = FALSE
  BY <1>1 DEF IInv, TypeOK, AuthorityInv, Asking
<1>3. QED
  BY <1>1, <1>2, LastCall, ControllerStepInv DEF IInv, TypeOK, Asking, Running, Calls

LEMMA RecoverNothingInv ==
  ASSUME IInv, NEW p \in Action, RecoverNothing(p)
  PROVE  IInv'
<1>1. /\ pc = "recovery" /\ UNCHANGED Around
      /\ seen' = seen /\ vetoed' = vetoed /\ terminal' = terminal
      /\ pc' = "judge" /\ calls' = [calls EXCEPT !.requests = @ + 1]
  BY DEF RecoverNothing
<1>2. vetoed = FALSE
  BY <1>1 DEF IInv, TypeOK, AuthorityInv
<1>3. QED
  BY <1>1, <1>2, LastCall, ControllerStepInv
     DEF IInv, TypeOK, AuthorityInv, Asking, Running

LEMMA RewriteRaisesInv ==
  ASSUME IInv, RewriteRaises
  PROVE  IInv'
<1>1. /\ pc = "recovery" /\ UNCHANGED Around /\ seen' = seen /\ vetoed' = vetoed
      /\ terminal' = "raised" /\ pc' = "concluded"
      /\ calls' = [calls EXCEPT !.requests = @ + 1]
  BY DEF RewriteRaises
<1>2. vetoed = FALSE
  BY <1>1 DEF IInv, TypeOK, AuthorityInv
<1>3. QED
  BY <1>1, <1>2, LastCall, ControllerStepInv DEF IInv, TypeOK, Asking, Running

LEMMA RecoverInv ==
  ASSUME IInv, NEW p \in Action, Recover(p)
  PROVE  IInv'
<1>1. /\ pc = "recovery" /\ UNCHANGED Around /\ vetoed' = vetoed
      /\ seen' \in Searches(p.query) /\ terminal' = Judged(seen')
      /\ pc' = "judge" /\ calls' = [calls EXCEPT !.requests = @ + 1]
  BY DEF Recover
<1>2. seen' \in Response
  BY <1>1, SearchesAreResponses DEF Action
<1>3. /\ terminal' \in {"finished", "abstained"}
      /\ terminal' = "finished" => seen'.verdict \in Sufficient
  BY <1>1, <1>2, JudgedIsTyped
<1>4. vetoed = FALSE
  BY <1>1 DEF IInv, TypeOK, AuthorityInv
<1>5. QED
  BY <1>1, <1>2, <1>3, <1>4, LastCall, ControllerStepInv DEF Asking, Running

LEMMA JudgeInv ==
  ASSUME IInv, NEW conflict \in BOOLEAN, Judge(conflict)
  PROVE  IInv'
<1>1. /\ pc = "judge" /\ UNCHANGED Around
      /\ seen' = seen /\ vetoed' = vetoed /\ terminal' = terminal
      /\ pc' \in {"veto", "concluded"} /\ calls' = NoCalls
  BY DEF Judge
<1>2. vetoed = FALSE
  BY <1>1 DEF IInv, TypeOK, AuthorityInv
<1>3. CallsInv' /\ calls' \in Calls
  <2>1. calls'.attempt = 0 /\ calls'.requests = 0 /\ calls'.retries = 0
    BY <1>1 DEF NoCalls
  <2>2. QED
    BY <1>1, <2>1, NoCallsTyped DEF CallsInv
<1>4. QED
  BY <1>1, <1>2, <1>3, ControllerStepInv DEF IInv, TypeOK, AuthorityInv, Running

LEMMA VetoInv ==
  ASSUME IInv, NEW decision \in {"keep_finish", "abstain"}, Veto(decision)
  PROVE  IInv'
<1>1. /\ pc = "veto" /\ UNCHANGED Around /\ seen' = seen
      /\ vetoed' = (decision = "abstain") /\ terminal' = Vetoed(decision)
      /\ pc' = "concluded" /\ calls' = [calls EXCEPT !.requests = @ + 1]
  BY DEF Veto
<1>2. /\ vetoed' => terminal' = "abstained"
      /\ terminal' = "finished" => terminal = "finished"
      /\ terminal' \in {"finished", "abstained", "raised"}
  BY <1>1 DEF IInv, TypeOK, Vetoed
<1>3. QED
  BY <1>1, <1>2, LastCall, ControllerStepInv
     DEF IInv, TypeOK, AuthorityInv, Asking, Running

----------------------------------------------------------------------------
\* The steps that end a controller, and the answer.
LEMMA ShadowEndsInv ==
  ASSUME IInv, ShadowEnds
  PROVE  IInv'
<1>1. /\ pc = "concluded" /\ pc' = "route" /\ UNCHANGED Around /\ Fresh(req)
      /\ config' = config /\ rows' = rows /\ req' = req /\ lane' = lane
      /\ canary' = canary /\ served' = served
  BY DEF ShadowEnds, Around
<1>2. /\ req \in Request /\ canary.applied = FALSE
      /\ served.text # "generated" /\ served.response = req.response
  BY <1>1 DEF IInv, TypeOK, AuthorityInv
<1>3. /\ calls' \in Calls /\ seen' \in Response /\ vetoed' = FALSE
      /\ terminal' \in {"finished", "abstained"}
      /\ terminal' = "finished" => seen'.verdict \in Sufficient
  BY <1>1, <1>2, FreshIsTyped
<1>4. TypeOK'
  BY <1>1, <1>3 DEF IInv, TypeOK, Calls
<1>5. CallsInv' /\ LaneInv'
  BY <1>1 DEF IInv, CallsInv, LaneInv, Asking, Running
<1>6. AuthorityInv'
  BY <1>1, <1>2, <1>3 DEF AuthorityInv
<1>7. BooksAreKept'
  BY <1>1 DEF IInv, BooksAreKept
<1>8. QED
  BY <1>4, <1>5, <1>6, <1>7 DEF IInv

LEMMA CanaryEndsInv ==
  ASSUME IInv, NEW stored \in BOOLEAN, CanaryEnds(stored)
  PROVE  IInv'
<1>1. /\ pc = "concluded" /\ lane = "canary" /\ pc' = "answer" /\ calls' = NoCalls
      /\ canary' = [canary EXCEPT !.executed = TRUE, !.applied = Applies]
      /\ rows' = rows \/ (Room /\ rows' = [rows EXCEPT !.selected = @ + 1])
      /\ config' = config /\ req' = req /\ lane' = lane /\ seen' = seen
      /\ vetoed' = vetoed /\ terminal' = terminal /\ served' = served
  BY DEF CanaryEnds
<1>2. /\ canary.applied = FALSE /\ canary.selected = TRUE
      /\ served.text # "generated" /\ served.response = req.response
  BY <1>1 DEF IInv, TypeOK, AuthorityInv, LaneInv, Running
<1>3. /\ canary'.selected = TRUE /\ canary'.executed = TRUE /\ canary'.applied = Applies
      /\ canary' \in [selected : BOOLEAN, executed : BOOLEAN, applied : BOOLEAN]
  BY <1>1, <1>2 DEF IInv, TypeOK, Applies
<1>4. rows' \in [selected : Nat, validated : Nat]
  BY <1>1 DEF IInv, TypeOK
<1>5. TypeOK'
  BY <1>1, <1>3, <1>4, NoCallsTyped DEF IInv, TypeOK, Calls
<1>6. CallsInv'
  BY <1>1 DEF CallsInv, Asking
<1>7. AuthorityInv'
  BY <1>1, <1>2, <1>3 DEF IInv, AuthorityInv, Applies
<1>8. LaneInv'
  BY <1>1, <1>2, <1>3 DEF IInv, LaneInv, Running
<1>9. BooksAreKept'
  BY <1>1, SamplesAssumption DEF IInv, TypeOK, BooksAreKept, Room
<1>10. QED
  BY <1>5, <1>6, <1>7, <1>8, <1>9 DEF IInv

LEMMA ControlledEndsInv ==
  ASSUME IInv, ControlledEnds
  PROVE  IInv'
<1>1. /\ pc = "concluded" /\ calls' = NoCalls
      /\ canary' = [canary EXCEPT !.applied = Applies]
      /\ rows' = rows /\ config' = config /\ req' = req /\ lane' = lane
      /\ seen' = seen /\ vetoed' = vetoed /\ terminal' = terminal
      /\ pc' \in {"answer", "done"}
      /\ served' = served \/ served' = [served EXCEPT !.text = "error"]
  BY DEF ControlledEnds
<1>2. /\ canary.applied = FALSE
      /\ served.text # "generated" /\ served.response = req.response
  BY <1>1 DEF IInv, TypeOK, AuthorityInv
<1>3. /\ canary'.selected = canary.selected /\ canary'.executed = canary.executed
      /\ canary'.applied = Applies
      /\ canary' \in [selected : BOOLEAN, executed : BOOLEAN, applied : BOOLEAN]
  BY <1>1 DEF IInv, TypeOK, Applies
<1>4. /\ served' \in [response : Response,
                      text : {"none", "trace", "generated", "refused", "error"}]
      /\ served'.response = req.response /\ served'.text # "generated"
  BY <1>1, <1>2 DEF IInv, TypeOK
<1>5. TypeOK'
  BY <1>1, <1>3, <1>4, NoCallsTyped DEF IInv, TypeOK, Calls
<1>6. CallsInv'
  BY <1>1 DEF CallsInv, Asking
<1>7. AuthorityInv'
  BY <1>1, <1>3, <1>4 DEF IInv, AuthorityInv, Applies
<1>8. LaneInv'
  BY <1>1, <1>3 DEF IInv, LaneInv, Running
<1>9. BooksAreKept'
  BY <1>1 DEF IInv, BooksAreKept
<1>10. QED
  BY <1>5, <1>6, <1>7, <1>8, <1>9 DEF IInv

LEMMA AnswerInv ==
  ASSUME IInv, Answer
  PROVE  IInv'
<1>1. /\ pc = "answer" /\ pc' = "done" /\ served' \in Replies
      /\ config' = config /\ rows' = rows /\ req' = req /\ lane' = lane
      /\ calls' = calls /\ seen' = seen /\ vetoed' = vetoed
      /\ terminal' = terminal /\ canary' = canary
  BY DEF Answer
<1>2. req.response \in Response /\ seen \in Response
  BY DEF IInv, TypeOK, Request
<1>3. /\ served' \in [response : Response,
                      text : {"none", "trace", "generated", "refused", "error"}]
      /\ \/ served'.response = req.response /\ (canary.applied => served'.text = "trace")
         \/ /\ canary.applied /\ served'.response = seen
            /\ served'.text = "generated" =>
                 terminal # "abstained" /\ seen.evidence # 0
  <2>1. CASE req.traffic = "search"
    BY <1>1, <1>2, <2>1 DEF Replies
  <2>2. CASE req.traffic # "search" /\ canary.applied
    <3>1. served' \in [response : {seen}, text : Texts(seen, terminal = "abstained")]
      BY <1>1, <2>2 DEF Replies
    <3>2. QED
      BY <1>2, <2>2, <3>1 DEF Texts
  <2>3. CASE req.traffic # "search" /\ ~canary.applied
    <3>1. served' \in [response : {req.response}, text : Texts(req.response, FALSE)]
      BY <1>1, <2>3 DEF Replies
    <3>2. QED
      BY <1>2, <2>3, <3>1 DEF Texts
  <2>4. QED
    BY <2>1, <2>2, <2>3
<1>4. TypeOK'
  BY <1>1, <1>3 DEF IInv, TypeOK
<1>5. CallsInv' /\ LaneInv'
  BY <1>1 DEF IInv, CallsInv, LaneInv, Asking, Running
<1>6. AuthorityInv'
  <2>1. seen.evidence \in Nat /\ (seen.evidence # 0 => seen.evidence > 0)
    BY <1>2 DEF Response
  <2>2. canary.applied => terminal # "raised"
    BY DEF IInv, AuthorityInv
  <2>3. (canary.applied /\ terminal # "abstained") => terminal = "finished"
    BY <2>2 DEF IInv, TypeOK
  <2>4. QED
    BY <1>1, <1>3, <2>1, <2>3 DEF IInv, AuthorityInv
<1>7. BooksAreKept'
  BY <1>1 DEF IInv, BooksAreKept
<1>8. QED
  BY <1>4, <1>5, <1>6, <1>7 DEF IInv

LEMMA ReleaseInv ==
  ASSUME IInv, Release
  PROVE  IInv'
BY RestInv DEF Release, IInv, TypeOK

LEMMA RestartInv ==
  ASSUME IInv, NEW c \in Config, Restart(c)
  PROVE  IInv'
BY RestInv DEF Restart

LEMMA StutterInv ==
  ASSUME IInv, UNCHANGED vars
  PROVE  IInv'
<1>1. TypeOK'
  BY DEF IInv, TypeOK, vars
<1>2. CallsInv' /\ LaneInv'
  BY DEF IInv, CallsInv, LaneInv, Asking, vars
<1>3. AuthorityInv'
  BY DEF IInv, AuthorityInv, vars
<1>4. BooksAreKept'
  BY DEF IInv, BooksAreKept, vars
<1>5. QED
  BY <1>1, <1>2, <1>3, <1>4 DEF IInv

LEMMA NextInv ==
  ASSUME IInv, [Next]_vars
  PROVE  IInv'
<1>1. CASE \E r \in Requests : Receive(r)
  BY <1>1, ReceiveInv
<1>2. CASE Handle
  <2>1. CASE Route
    BY <2>1, RouteInv
  <2>2. CASE \E code \in {"transport", "other"} : CallFails(code)
    BY <2>2, CallFailsInv
  <2>3. CASE CallInvalid
    BY <2>3, CallInvalidInv
  <2>4. CASE CallRaises
    BY <2>4, CallRaisesInv
  <2>5. CASE \E p \in Action : RecoverNothing(p)
    BY <2>5, RecoverNothingInv
  <2>6. CASE RewriteRaises
    BY <2>6, RewriteRaisesInv
  <2>7. CASE \E p \in Action : Recover(p)
    BY <2>7, RecoverInv
  <2>8. CASE \E conflict \in BOOLEAN : Judge(conflict)
    BY <2>8, JudgeInv
  <2>9. CASE \E decision \in {"keep_finish", "abstain"} : Veto(decision)
    BY <2>9, VetoInv
  <2>10. CASE ShadowEnds
    BY <2>10, ShadowEndsInv
  <2>11. CASE \E stored \in BOOLEAN : CanaryEnds(stored)
    BY <2>11, CanaryEndsInv
  <2>12. CASE ControlledEnds
    BY <2>12, ControlledEndsInv
  <2>13. CASE Answer
    BY <2>13, AnswerInv
  <2>14. CASE Release
    BY <2>14, ReleaseInv
  <2>15. QED
    BY <1>2, <2>1, <2>2, <2>3, <2>4, <2>5, <2>6, <2>7, <2>8, <2>9, <2>10,
       <2>11, <2>12, <2>13, <2>14 DEF Handle
<1>3. CASE \E c \in Config : Restart(c)
  BY <1>3, RestartInv
<1>4. CASE UNCHANGED vars
  BY <1>4, StutterInv
<1>5. QED
  BY <1>1, <1>2, <1>3, <1>4 DEF Next

\* The invariant of the whole module.
THEOREM Invariance == Spec => []IInv
<1>1. Init => IInv
  BY InitInv
<1>2. IInv /\ [Next]_vars => IInv'
  BY NextInv
<1>3. QED
  BY <1>1, <1>2, PTL DEF Spec

----------------------------------------------------------------------------
\* The types, and the most a provider is asked for one decision: three requests
\* even when a transport failure and a repair mix, because a retry is granted
\* once for all attempts (task0258_runtime_support.py:220).
THEOREM TypesAreKept == Spec => [](TypeOK /\ RequestsAreBounded)
<1>1. IInv => TypeOK /\ RequestsAreBounded
  BY DEF IInv, TypeOK, RequestsAreBounded
<1>2. QED
  BY <1>1, Invariance, PTL

\* No user is served a response with less evidence, a worse verdict or a score
\* lower by 0.05 or more than the search had found, however many items, whatever
\* verdicts and whatever scores the searches give (execution.py:527).
THEOREM NoHarm == Spec => []HarmIsNeverServed
<1>1. IInv => HarmIsNeverServed
  <2>1. SUFFICES ASSUME IInv PROVE HarmIsNeverServed
    OBVIOUS
  <2>2. req.response \in Response /\ served.response \in Response
    BY <2>1 DEF IInv, TypeOK, Request
  <2>3. served.response = req.response \/ ~Harmed(req.response, served.response)
    BY <2>1 DEF IInv, AuthorityInv
  <2>4. QED
    BY <2>2, <2>3, HarmlessIsNoLoss DEF HarmIsNeverServed
<1>2. QED
  BY <1>1, Invariance, PTL

\* Without authority the request's own search answers, and the candidate
\* executes for none but the users of the cohort while the kill switch is off.
THEOREM ControlLane == Spec => []ControlIsBaseline
<1>1. IInv => ControlIsBaseline
  BY DEF IInv, AuthorityInv, LaneInv, ControlIsBaseline
<1>2. QED
  BY <1>1, Invariance, PTL

\* Under the candidate's authority nothing is generated from insufficient
\* evidence or against a veto (execution.py:456).
THEOREM Governed == Spec => []AnswersAreGoverned
<1>1. IInv => AnswersAreGoverned
  BY DEF IInv, AuthorityInv, AnswersAreGoverned
<1>2. QED
  BY <1>1, Invariance, PTL

\* The canary's file keeps its cap for every cap, and one validation of the kill
\* switch at most, across restarts in whatever environment
\* (bounded_agentic_canary.py:239, 325).
THEOREM Books == Spec => []BooksAreKept
<1>1. IInv => BooksAreKept
  BY DEF IInv
<1>2. QED
  BY <1>1, Invariance, PTL

\* No step of an evaluation request writes into the canary's file, because no
\* evaluation request enters the canary's lane (execution.py:101-103).
THEOREM Isolation == Spec => EvaluationIsIsolated
<1>1. IInv /\ [Next]_vars => [req.traffic = "evaluation" => UNCHANGED rows]_vars
  <2>1. SUFFICES ASSUME IInv, Next, req.traffic = "evaluation"
                 PROVE  rows' = rows
    BY DEF vars
  <2>2. CASE \E r \in Requests : Receive(r)
    BY <2>2 DEF Receive
  <2>3. CASE Handle
    <3>1. CASE Route
      BY <2>1, <3>1 DEF Route, Validates, Countable
    <3>2. CASE \E stored \in BOOLEAN : CanaryEnds(stored)
      BY <2>1, <3>2 DEF CanaryEnds, IInv, LaneInv, Running
    <3>3. CASE \/ \E code \in {"transport", "other"} : CallFails(code)
               \/ CallInvalid \/ CallRaises \/ RewriteRaises
               \/ \E p \in Action : RecoverNothing(p) \/ Recover(p)
               \/ \E conflict \in BOOLEAN : Judge(conflict)
               \/ \E decision \in {"keep_finish", "abstain"} : Veto(decision)
               \/ ShadowEnds
      BY <3>3 DEF CallFails, CallInvalid, CallRaises, RewriteRaises, RecoverNothing,
                  Recover, Judge, Veto, ShadowEnds, Around
    <3>4. CASE ControlledEnds \/ Answer \/ Release
      BY <3>4 DEF ControlledEnds, Answer, Release
    <3>5. QED
      BY <2>3, <3>1, <3>2, <3>3, <3>4 DEF Handle
  <2>4. CASE \E c \in Config : Restart(c)
    BY <2>4 DEF Restart
  <2>5. QED
    BY <2>1, <2>2, <2>3, <2>4 DEF Next
<1>2. QED
  BY <1>1, Invariance, PTL DEF Spec, EvaluationIsIsolated

=============================================================================
