---------------------------- MODULE Conversation ----------------------------
(***************************************************************************)
(* Turns of a conversation session.  ConversationService.ask runs on one   *)
(* psycopg connection whose first statement opens a transaction that ends  *)
(* with the connection: the transaction() blocks of SessionRepository are  *)
(* savepoints, the row lock that create_turn takes on the session lasts    *)
(* until the answer is there, and another process sees a turn only when    *)
(* it is over.  `opk-rag session ask` and the Control Center API call the  *)
(* same service, and treat its exceptions differently.                     *)
(*                                                                         *)
(* Abstractions: texts, citations and token counts are left out; a context *)
(* is the numbers of its turns, and always fits the token budget.  The     *)
(* unique indexes of conversation_turns are left out as well: LinearTurns  *)
(* and AnswersAgree show that they never have to refuse a row.             *)
(***************************************************************************)
EXTENDS Integers, FiniteSets

CONSTANTS
  Sessions,      \* uuids of sessions
  Requests,      \* client_request_ids
  NoRequest,     \* an ask without client_request_id
  Cli,           \* processes of `opk-rag session ask`
  Api,           \* request handlers of one Control Center server
  None,          \* no turn, no number
  ContextTurns,  \* context_max_turns
  MaxAsks,       \* bound: asks
  MaxFaults      \* bound: crashes and lost replies

Processes == Cli \cup Api

Active   == {"pending", "rewriting", "retrieving", "generating"}
Answered == {"completed", "abstained"}
Final    == Answered \cup {"failed"}
Numbers == Nat \ {0}
Turn == [number : Numbers, request : Requests \cup {NoRequest},
         status : Active \cup Final, context : SUBSET Numbers]
Reply == [kind : {"none", "refused", "not_found", "failed"}, number : {None}]
           \cup [kind : {"answered"}, number : Numbers]

ASSUME NoneAssumption == None \notin Turn \cup Sessions
ASSUME BoundAssumption ==
  ContextTurns \in Nat \ {0} /\ MaxAsks \in Nat /\ MaxFaults \in Nat

VARIABLES
  session,  \* conversation_sessions: "new" (not yet created), "active", "deleted"
  count,    \* conversation_sessions.turn_count
  turns,    \* committed conversation_turns of each session
  pc,       \* "idle", "create", "work", "save", "commit", "rollback", "done"
  asked,    \* session and client_request_id of the ask
  open,     \* its uncommitted turn, or None
  reply,    \* what the client is told, and the turn it is about
  told,     \* answers clients received from a finished command or request
  printed,  \* answers that commands have printed, before they committed
  asks,
  faults

vars == <<session, count, turns, pc, asked, open, reply, told, printed, asks,
          faults>>
tables == <<session, count, turns>>

Nobody  == [session |-> None, request |-> NoRequest]
NoReply == [kind |-> "none", number |-> None]

Init ==
  /\ session = [s \in Sessions |-> "new"]
  /\ count = [s \in Sessions |-> 0]
  /\ turns = [s \in Sessions |-> {}]
  /\ pc = [p \in Processes |-> "idle"]
  /\ asked = [p \in Processes |-> Nobody]
  /\ open = [p \in Processes |-> None]
  /\ reply = [p \in Processes |-> NoReply]
  /\ told = {}
  /\ printed = {}
  /\ asks = 0
  /\ faults = 0

----------------------------------------------------------------------------
\* Mutant of Free: create_turn reads the session without "for update".
FreeAlways(s) == TRUE

\* The row lock on the session, held from create_turn to the end.
Free(s) == \A p \in Processes : open[p] = None \/ asked[p].session # s

CreateSession(s) ==
  /\ session[s] = "new"
  /\ session' = [session EXCEPT ![s] = "active"]
  /\ UNCHANGED <<count, turns, pc, asked, open, reply, told, printed, asks, faults>>

\* Deletes the turns by cascade.
DeleteSession(s) ==
  /\ session[s] = "active"
  /\ Free(s)
  /\ session' = [session EXCEPT ![s] = "deleted"]
  /\ count' = [count EXCEPT ![s] = 0]
  /\ turns' = [turns EXCEPT ![s] = {}]
  /\ UNCHANGED <<pc, asked, open, reply, told, printed, asks, faults>>

----------------------------------------------------------------------------
Goto(p, stage) == pc' = [pc EXCEPT ![p] = stage]

Say(p, kind, number) ==
  reply' = [reply EXCEPT ![p] = [kind |-> kind, number |-> number]]

\* get_session, before anything is locked.  The API runs one ask at a time.
Start(p, s, r) ==
  /\ pc[p] = "idle"
  /\ asks < MaxAsks
  /\ p \in Api => \A o \in Api : pc[o] \in {"idle", "done"}
  /\ session[s] # "new"
  /\ asked' = [asked EXCEPT ![p] = [session |-> s, request |-> r]]
  /\ asks' = asks + 1
  /\ IF session[s] = "active"
     THEN Goto(p, "create") /\ UNCHANGED reply
     ELSE Goto(p, "done") /\ Say(p, "not_found", None)
  /\ UNCHANGED <<tables, open, told, printed, faults>>

\* Mutant of Existing: only finished turns are looked up.
ExistingAnswered(s, r) == {t \in turns[s] : t.request = r /\ t.status = "completed"}

\* _get_turn_by_client_request_id
Existing(s, r) == {t \in turns[s] : t.request = r /\ r # NoRequest}

\* _get_latest_turn_for_update finds an unfinished turn.
Busy(s) == \E t \in turns[s] : t.number = count[s] /\ t.status \in Active

\* create_turn has the lock on the session it names.
Locks(p) == pc[p] = "create" /\ Free(asked[p].session)

\* The session was deleted since Start: ConversationNotFoundError.
Gone(p) ==
  /\ Locks(p)
  /\ session[asked[p].session] # "active"
  /\ Say(p, IF p \in Cli THEN "not_found" ELSE "failed", None)
  /\ Goto(p, "done")
  /\ UNCHANGED <<tables, asked, open, told, printed, asks, faults>>

\* The request has been answered: its turn is returned again.
Replay(p) ==
  LET s == asked[p].session
      old == Existing(s, asked[p].request)
  IN /\ Locks(p)
     /\ session[s] = "active"
     /\ \E t \in old : t.status \in Answered /\ Say(p, "answered", t.number)
     /\ Goto(p, "done")
     /\ UNCHANGED <<tables, asked, open, told, printed, asks, faults>>

\* The request has failed before, or the last turn is unfinished.  The API turns
\* the ValueError of the former into "not found".
Refuse(p) ==
  LET s == asked[p].session
      old == Existing(s, asked[p].request)
  IN /\ Locks(p)
     /\ session[s] = "active"
     /\ IF old = {} THEN Busy(s) ELSE \E t \in old : t.status \notin Answered
     /\ Say(p, IF p \in Cli THEN "refused"
               ELSE IF old # {} THEN "not_found" ELSE "failed", None)
     /\ Goto(p, "done")
     /\ UNCHANGED <<tables, asked, open, told, printed, asks, faults>>

Insert(p) ==
  LET s == asked[p].session
  IN /\ Locks(p)
     /\ session[s] = "active"
     /\ Existing(s, asked[p].request) = {}
     /\ ~Busy(s)
     /\ open' = [open EXCEPT ![p] =
                   [number |-> count[s] + 1, request |-> asked[p].request,
                    status |-> "pending", context |-> {}]]
     /\ Goto(p, "work")
     /\ UNCHANGED <<tables, asked, reply, told, printed, asks, faults>>

----------------------------------------------------------------------------
\* The numbers of answered turns among T that come before number n.
History(T, n) == {t.number : t \in {u \in T : u.status \in Answered /\ u.number < n}}

LastOf(N) == {m \in N : Cardinality({k \in N : k > m}) < ContextTurns}

\* Mutant of Recent: failed turns are part of the conversation.
RecentOfAll(s, n) == LastOf({t.number : t \in turns[s]})

\* get_recent_turns: the last ContextTurns answered turns, as committed now.
Recent(s, n) == LastOf(History(turns[s], n))

Update(p, fields) ==
  open' = [open EXCEPT ![p] = fields]

\* The context is read, and the turn goes to "rewriting".
Recall(p) ==
  /\ pc[p] = "work"
  /\ open[p].status = "pending"
  /\ Update(p, [open[p] EXCEPT !.status = "rewriting",
                  !.context = Recent(asked[p].session, open[p].number)])
  /\ UNCHANGED <<tables, pc, asked, reply, told, printed, asks, faults>>

\* The query has been resolved, or the search has returned.
Advance(p) ==
  /\ pc[p] = "work"
  /\ open[p].status \in {"rewriting", "retrieving"}
  /\ Update(p, [open[p] EXCEPT !.status =
                  IF @ = "rewriting" THEN "retrieving" ELSE "generating"])
  /\ UNCHANGED <<tables, pc, asked, reply, told, printed, asks, faults>>

\* complete_turn
Complete(p) ==
  /\ pc[p] = "work"
  /\ open[p].status = "generating"
  /\ \E status \in Answered : Update(p, [open[p] EXCEPT !.status = status])
  /\ Say(p, "answered", open[p].number)
  /\ Goto(p, "save")
  /\ UNCHANGED <<tables, asked, told, printed, asks, faults>>

\* AnswerSystemError: fail_turn.  The CLI catches it inside its connection block,
\* which commits the failed turn; the API lets it end the connection.
AnswerFails(p) ==
  /\ pc[p] = "work"
  /\ open[p].status = "generating"
  /\ Update(p, [open[p] EXCEPT !.status = "failed"])
  /\ Say(p, "failed", None)
  /\ Goto(p, IF p \in Cli THEN "commit" ELSE "rollback")
  /\ UNCHANGED <<tables, asked, told, printed, asks, faults>>

\* Any other exception, also of save_turn_citations after complete_turn: the
\* failed turn is rolled back with the rest.
OtherFails(p) ==
  /\ pc[p] \in {"work", "save"}
  /\ Update(p, [open[p] EXCEPT !.status = "failed"])
  /\ Say(p, "failed", None)
  /\ Goto(p, "rollback")
  /\ UNCHANGED <<tables, asked, told, printed, asks, faults>>

Answer(p) == [session |-> asked[p].session, request |-> asked[p].request,
              number |-> reply[p].number]

\* save_turn_citations.  The CLI prints the answer inside its connection block.
Save(p) ==
  /\ pc[p] = "save"
  /\ printed' = IF p \in Cli THEN printed \cup {Answer(p)} ELSE printed
  /\ Goto(p, "commit")
  /\ UNCHANGED <<tables, asked, open, reply, told, asks, faults>>

Commit(p) ==
  LET s == asked[p].session
  IN /\ pc[p] = "commit"
     /\ turns' = [turns EXCEPT ![s] = @ \cup {open[p]}]
     /\ count' = [count EXCEPT ![s] = open[p].number]
     /\ open' = [open EXCEPT ![p] = None]
     /\ Goto(p, "done")
     /\ UNCHANGED <<session, asked, reply, told, printed, asks, faults>>

Rollback(p) ==
  /\ pc[p] = "rollback"
  /\ open' = [open EXCEPT ![p] = None]
  /\ Goto(p, "done")
  /\ UNCHANGED <<tables, asked, reply, told, printed, asks, faults>>

\* Mutant of Leave: the server does not notice that the connection is lost.
LeaveUnnoticed(p) ==
  /\ Goto(p, "idle")
  /\ asked' = asked
  /\ reply' = [reply EXCEPT ![p] = NoReply]
  /\ UNCHANGED open

Leave(p) ==
  /\ Goto(p, "idle")
  /\ asked' = [asked EXCEPT ![p] = Nobody]
  /\ reply' = [reply EXCEPT ![p] = NoReply]
  /\ open' = [open EXCEPT ![p] = None]

\* The client has the response, or the exit status of its command.
Receive(p) ==
  /\ pc[p] = "done"
  /\ told' = IF reply[p].kind = "answered" THEN told \cup {Answer(p)} ELSE told
  /\ Leave(p)
  /\ UNCHANGED <<tables, printed, asks, faults>>

\* Mutant of Crash: every statement is committed at once.
CrashAutocommits(p) ==
  /\ pc[p] # "idle"
  /\ faults < MaxFaults
  /\ faults' = faults + 1
  /\ IF open[p] = None THEN UNCHANGED <<turns, count>>
     ELSE /\ turns' = [turns EXCEPT ![asked[p].session] = @ \cup {open[p]}]
          /\ count' = [count EXCEPT ![asked[p].session] = open[p].number]
  /\ Leave(p)
  /\ UNCHANGED <<session, told, printed, asks>>

\* The process dies, or its reply is lost; PostgreSQL rolls the turn back.
Crash(p) ==
  /\ pc[p] # "idle"
  /\ faults < MaxFaults
  /\ faults' = faults + 1
  /\ Leave(p)
  /\ UNCHANGED <<tables, told, printed, asks>>

----------------------------------------------------------------------------
Acquire(p) == Gone(p) \/ Replay(p) \/ Refuse(p) \/ Insert(p)

Proceed(p) ==
  \/ Recall(p) \/ Advance(p) \/ Complete(p) \/ AnswerFails(p) \/ OtherFails(p)
  \/ Save(p) \/ Commit(p) \/ Rollback(p) \/ Receive(p)

Next ==
  \/ \E s \in Sessions : CreateSession(s) \/ DeleteSession(s)
  \/ \E p \in Processes :
       \/ \E s \in Sessions, r \in Requests \cup {NoRequest} : Start(p, s, r)
       \/ Acquire(p) \/ Proceed(p) \/ Crash(p)

Spec == Init /\ [][Next]_vars

\* A running ask goes on; PostgreSQL grants a row lock in the order of waiting.
FairSpec ==
  /\ Spec
  /\ \A p \in Processes : WF_vars(Proceed(p)) /\ SF_vars(Acquire(p))

----------------------------------------------------------------------------
(***************************************************************************)
(* Properties.                                                             *)
(***************************************************************************)
\* Types, and an ask has an open turn exactly while it works.
TypeOK ==
  /\ session \in [Sessions -> {"new", "active", "deleted"}]
  /\ count \in [Sessions -> Nat]
  /\ turns \in [Sessions -> SUBSET Turn]
  /\ pc \in [Processes -> {"idle", "create", "work", "save", "commit", "rollback",
                         "done"}]
  /\ asked \in [Processes -> [session : Sessions \cup {None},
                              request : Requests \cup {NoRequest}]]
  /\ open \in [Processes -> Turn \cup {None}]
  /\ reply \in [Processes -> Reply]
  /\ told \cup printed \subseteq [session : Sessions, request : Requests \cup {NoRequest},
                                  number : Numbers]
  /\ asks \in Nat /\ faults \in Nat
  /\ \A p \in Processes :
       pc[p] \in {"work", "save", "commit", "rollback"} <=> open[p] # None

\* The turns of a session are one line: numbered from 1 to turn_count without
\* gap or repetition, whoever asks, fails or dies.
LinearTurns ==
  \A s \in Sessions :
    /\ {t.number : t \in turns[s]} = 1..count[s]
    /\ \A t, u \in turns[s] : t.number = u.number => t = u

\* The context a turn was resolved in is the end of the answered history before
\* it: no turn was added in between, and no failed turn is in it.
ContextIsHistory ==
  \A s \in Sessions : \A t \in turns[s] :
    t.context = LastOf(History(turns[s], t.number))

\* No process, dead or alive, leaves an unfinished turn behind: the guard
\* "Previous turn is still ..." never stops a session.
NoTurnIsStuck == \A s \in Sessions : \A t \in turns[s] : t.status \in Final

\* The answers in A to one request are one turn.
OneTurnEach(A) ==
  \A a, b \in A :
    a.session = b.session /\ a.request = b.request /\ a.request # NoRequest
      => a.number = b.number

\* A client_request_id is an idempotency key: all answers clients receive from
\* finished commands and requests are one turn, with any retries after crashes
\* and lost replies.
AnswersAgree == OneTurnEach(told)

\* docs/CLI.md:209: --client-request-id is an "idempotency key scoped to the
\* session", for every answer that is shown.
ShownAnswersAgree == OneTurnEach(told \cup printed)

\* An ask ends, although asks wait for each other's session.
AsksEnd == \A p \in Processes : pc[p] # "idle" ~> pc[p] = "idle"

=============================================================================
