------------------------- MODULE Conversation_proofs -------------------------
(***************************************************************************)
(* Proofs about Conversation, for all values of its constants: any number  *)
(* of sessions, of requests and of processes of both kinds, and a context  *)
(* of any length.                                                          *)
(***************************************************************************)
EXTENDS Conversation, TLAPS

\* A request has one turn.
OneTurnPerRequest ==
  \A s \in Sessions : \A t, u \in turns[s] :
    t.request = u.request /\ t.request # NoRequest => t = u

TablesInv == LinearTurns /\ ContextIsHistory /\ NoTurnIsStuck /\ OneTurnPerRequest

Asking ==
  \A p \in Processes : pc[p] # "idle" =>
    asked[p].session \in Sessions /\ session[asked[p].session] # "new"

\* The row lock: a session has one open turn.
OneOpen ==
  \A p, o \in Processes :
    open[p] # None /\ open[o] # None /\ asked[p].session = asked[o].session => p = o

\* The open turn fits the tables as they are committed.
Fits(p) ==
  LET s == asked[p].session
  IN /\ session[s] = "active"
     /\ open[p].number = count[s] + 1
     /\ open[p].request = asked[p].request
     /\ \A t \in turns[s] : t.request = open[p].request => t.request = NoRequest
     /\ open[p].status # "pending" /\ pc[p] # "rollback" =>
          open[p].context = Recent(s, open[p].number)
     /\ pc[p] \in {"save", "commit"} => open[p].status \in Final
     /\ pc[p] = "save" => reply[p].kind = "answered"
     /\ pc[p] \in {"save", "commit"} /\ reply[p].kind = "answered" => reply[p].number = open[p].number
     /\ pc[p] = "rollback" => reply[p].kind # "answered"

OpenFits == \A p \in Processes : open[p] # None => Fits(p)

WorkInv == Asking /\ OneOpen /\ OpenFits

Answers(p) == pc[p] = "done" /\ reply[p].kind = "answered"

\* Answers that were received, and answers on their way.
Claims == told \cup {Answer(p) : p \in {q \in Processes : Answers(q)}}

\* A claim about a living session is one of its turns.
Backed ==
  \A c \in Claims :
    /\ session[c.session] # "new"
    /\ session[c.session] = "active" =>
         \E t \in turns[c.session] : t.request = c.request /\ t.number = c.number

Agree == OneTurnEach(Claims)

ClaimInv == Backed /\ Agree

IInv == TypeOK /\ TablesInv /\ WorkInv /\ ClaimInv

----------------------------------------------------------------------------
LEMMA InitIInv == Init => IInv
BY BoundAssumption
   DEF Init, IInv, TypeOK, TablesInv, LinearTurns, ContextIsHistory, NoTurnIsStuck,
       OneTurnPerRequest, WorkInv, Asking, OneOpen, OpenFits, ClaimInv, Backed, Agree, OneTurnEach,
       Claims, Answers, Nobody, NoReply, Reply

LEMMA KeepTables ==
  ASSUME TablesInv, UNCHANGED <<count, turns>>
  PROVE  TablesInv'
BY DEF TablesInv, LinearTurns, ContextIsHistory, NoTurnIsStuck, OneTurnPerRequest,
       History

\* Claims that are only withdrawn stay backed and in agreement.
LEMMA KeepClaims ==
  ASSUME ClaimInv, UNCHANGED <<session, turns>>, Claims' \subseteq Claims
  PROVE  ClaimInv'
BY DEF ClaimInv, Backed, Agree, OneTurnEach

\* An answer about a turn of the session that is backed by the tables agrees
\* with all the others.
LEMMA AddClaim ==
  ASSUME TypeOK, ClaimInv, OneTurnPerRequest', Backed', UNCHANGED session,
         NEW c, c.session \in Sessions, session[c.session] = "active",
         \A s \in Sessions : turns[s] \subseteq turns'[s],
         Claims' \subseteq Claims \cup {c}
  PROVE  ClaimInv'
<1>1. SUFFICES ASSUME NEW a \in Claims', NEW b \in Claims', a.session = b.session,
                      a.request = b.request, a.request # NoRequest
               PROVE  a.number = b.number
  BY DEF ClaimInv, Agree, OneTurnEach
<1>2. CASE a \in Claims /\ b \in Claims
  BY <1>1, <1>2 DEF ClaimInv, Agree, OneTurnEach
<1>3. CASE a.session = c.session
  <2>1. PICK t \in turns'[c.session] : t.request = a.request /\ t.number = a.number
    BY <1>3 DEF Backed
  <2>2. PICK u \in turns'[c.session] : u.request = b.request /\ u.number = b.number
    BY <1>1, <1>3 DEF Backed
  <2> QED BY <1>1, <2>1, <2>2 DEF OneTurnPerRequest
<1> QED BY <1>1, <1>2, <1>3

----------------------------------------------------------------------------
LEMMA CreateStep ==
  ASSUME IInv, NEW s \in Sessions, CreateSession(s)
  PROVE  IInv'
<1> USE DEF CreateSession
<1>1. TypeOK'
  BY DEF IInv, TypeOK
<1>2. TablesInv'
  BY KeepTables DEF IInv
<1>3. /\ \A q \in Sessions : q # s => session'[q] = session[q]
      /\ session'[s] = "active"
  BY DEF IInv, TypeOK
<1>4. Asking' /\ OneOpen'
  BY <1>3 DEF IInv, WorkInv, Asking, OneOpen
<1>7. \A p \in Processes : open[p] # None => asked[p].session \in Sessions
  BY DEF IInv, WorkInv, Asking, TypeOK
<1>8. OpenFits'
  BY <1>3, <1>7 DEF IInv, WorkInv, OpenFits, Fits, Recent
<1>5. Claims' = Claims /\ \A c \in Claims : c.session \in Sessions
  BY DEF IInv, TypeOK, Claims, Answer, Answers, WorkInv, Asking
<1>6. ClaimInv'
  BY <1>3, <1>5 DEF IInv, ClaimInv, Backed, Agree, OneTurnEach
<1> QED BY <1>1, <1>2, <1>4, <1>6, <1>8 DEF IInv, WorkInv

LEMMA DeleteStep ==
  ASSUME IInv, NEW s \in Sessions, DeleteSession(s)
  PROVE  IInv'
<1> USE DEF DeleteSession
<1>1. TypeOK'
  BY DEF IInv, TypeOK
<1>2. /\ \A q \in Sessions : q # s =>
           session'[q] = session[q] /\ count'[q] = count[q] /\ turns'[q] = turns[q]
      /\ session'[s] = "deleted" /\ count'[s] = 0 /\ turns'[s] = {}
  BY DEF IInv, TypeOK
<1>3. TablesInv'
  BY <1>2 DEF IInv, TablesInv, LinearTurns, ContextIsHistory, NoTurnIsStuck,
              OneTurnPerRequest, History
<1>4. \A p \in Processes : open[p] # None =>
        asked[p].session # s /\ asked[p].session \in Sessions
  BY DEF Free, IInv, WorkInv, Asking, TypeOK
<1>5. OpenFits'
  BY <1>2, <1>4 DEF IInv, WorkInv, OpenFits, Fits, Recent
<1>6. WorkInv'
  BY <1>2, <1>5 DEF IInv, WorkInv, Asking, OneOpen
<1>7. Claims' = Claims /\ \A c \in Claims : c.session \in Sessions
  BY DEF IInv, TypeOK, Claims, Answer, Answers, WorkInv, Asking
<1>8. ClaimInv'
  BY <1>2, <1>7 DEF IInv, ClaimInv, Backed, Agree, OneTurnEach
<1> QED BY <1>1, <1>3, <1>6, <1>8 DEF IInv

LEMMA StartStep ==
  ASSUME IInv, NEW p \in Processes, NEW s \in Sessions,
         NEW r \in Requests \cup {NoRequest}, Start(p, s, r)
  PROVE  IInv'
<1> USE DEF Start, tables, Goto, Say
<1>1. TypeOK'
  <2>1. UNCHANGED <<session, count, turns, open, told, printed, faults>> /\ asks' \in Nat
    BY DEF IInv, TypeOK
  <2>2. /\ asked' \in [Processes -> [session : Sessions \cup {None},
                                    request : Requests \cup {NoRequest}]]
        /\ pc' \in [Processes -> {"idle", "create", "work", "save", "commit", "rollback",
                               "done"}]
        /\ pc'[p] \in {"create", "done"} /\ pc[p] = "idle"
        /\ \A o \in Processes : o # p => pc'[o] = pc[o]
    BY DEF IInv, TypeOK
  <2>3. reply' \in [Processes -> Reply]
    BY DEF IInv, TypeOK, Reply
  <2> QED BY <2>1, <2>2, <2>3 DEF IInv, TypeOK
<1>2. TablesInv'
  BY KeepTables DEF IInv
<1>3. /\ open[p] = None
      /\ asked'[p] = [session |-> s, request |-> r]
      /\ \A o \in Processes : o # p =>
           asked'[o] = asked[o] /\ pc'[o] = pc[o] /\ reply'[o] = reply[o]
  BY DEF IInv, TypeOK
<1>4. Asking'
  BY <1>3 DEF IInv, WorkInv, Asking
<1>5. OneOpen' /\ OpenFits'
  BY <1>3 DEF IInv, WorkInv, OneOpen, OpenFits, Fits, Recent
<1>6. ~Answers(p)'
  BY DEF IInv, TypeOK, Answers
<1>7. Claims' \subseteq Claims
  BY <1>3, <1>6 DEF Claims, Answer, Answers
<1>8. ClaimInv'
  BY <1>7, KeepClaims DEF IInv
<1> QED BY <1>1, <1>2, <1>4, <1>5, <1>8 DEF IInv, WorkInv

----------------------------------------------------------------------------
\* What the steps of one process leave alone.
Others(p) ==
  \A o \in Processes : o # p =>
    pc'[o] = pc[o] /\ asked'[o] = asked[o] /\ open'[o] = open[o] /\ reply'[o] = reply[o]

\* A step of p that answers nothing and leaves the tables alone.
LEMMA QuietStep ==
  ASSUME IInv, NEW p \in Processes, Others(p), UNCHANGED <<session, count, turns, told>>,
         TypeOK', Asking', ~Answers(p)',
         open'[p] # None => open[p] # None /\ asked'[p] = asked[p] /\ Fits(p)'
  PROVE  IInv'
<1>1. TablesInv'
  BY KeepTables DEF IInv
<1>2. OneOpen'
  BY DEF IInv, WorkInv, OneOpen, Others
<1>3. OpenFits'
  BY DEF IInv, WorkInv, OpenFits, Fits, Others, Recent
<1>4. Claims' \subseteq Claims
  BY DEF Claims, Answer, Answers, Others
<1>5. ClaimInv'
  BY <1>4, KeepClaims DEF IInv
<1> QED BY <1>1, <1>2, <1>3, <1>5 DEF IInv, WorkInv

LEMMA RefusalStep ==
  ASSUME IInv, NEW p \in Processes, Gone(p) \/ Refuse(p)
  PROVE  IInv'
<1> USE DEF Gone, Refuse, Locks, Goto, Say, tables
<1>1. /\ pc[p] = "create" /\ open[p] = None
      /\ UNCHANGED <<session, count, turns, told, printed, asked, open, asks, faults>>
      /\ pc' = [pc EXCEPT ![p] = "done"]
  BY DEF IInv, TypeOK
<1>2. \E kind \in {"not_found", "failed", "refused"} :
        reply' = [reply EXCEPT ![p] = [kind |-> kind, number |-> None]]
  OBVIOUS
<1>3. TypeOK'
  BY <1>1, <1>2 DEF IInv, TypeOK, Reply
<1>4. Others(p) /\ ~Answers(p)' /\ open'[p] = None
  BY <1>1, <1>2 DEF IInv, TypeOK, Others, Answers
<1>5. Asking'
  BY <1>1 DEF IInv, TypeOK, WorkInv, Asking
<1> QED BY <1>1, <1>3, <1>4, <1>5, QuietStep

LEMMA ReplayStep ==
  ASSUME IInv, NEW p \in Processes, Replay(p)
  PROVE  IInv'
<1> DEFINE s == asked[p].session
<1> USE DEF Replay, Locks, Goto, Say, tables
<1>1. PICK t \in turns[s] : /\ t.request = asked[p].request /\ t.request # NoRequest
                            /\ Say(p, "answered", t.number)
  BY DEF Existing
<1>2. /\ pc[p] = "create" /\ open[p] = None /\ session[s] = "active"
      /\ UNCHANGED <<session, count, turns, told, printed, asked, open, asks, faults>>
      /\ pc' = [pc EXCEPT ![p] = "done"]
      /\ s \in Sessions /\ t \in Turn
  BY DEF IInv, TypeOK, WorkInv, Asking
<1>3. TypeOK'
  BY <1>1, <1>2 DEF IInv, TypeOK, Reply, Turn
<1>4. Others(p) /\ reply'[p] = [kind |-> "answered", number |-> t.number]
  BY <1>1, <1>2 DEF IInv, TypeOK, Others
<1>5. TablesInv'
  BY <1>2, KeepTables DEF IInv
<1>6. WorkInv'
  BY <1>2, <1>4 DEF IInv, TypeOK, WorkInv, Asking, OneOpen, OpenFits, Fits, Others, Recent
<1>7. Claims' \subseteq Claims \cup {Answer(p)'}
  BY <1>4 DEF Claims, Answer, Answers, Others
<1>8. Answer(p)' = [session |-> s, request |-> t.request, number |-> t.number]
  BY <1>1, <1>2, <1>4 DEF Answer
<1>9. Backed'
  BY <1>2, <1>7, <1>8 DEF IInv, ClaimInv, Backed
<1>10. ClaimInv'
  <2>1. OneTurnPerRequest'
    BY <1>5 DEF TablesInv
  <2> HIDE DEF Replay
  <2> QED BY <1>2, <1>7, <1>8, <1>9, <2>1, AddClaim DEF IInv
<1> QED BY <1>3, <1>5, <1>6, <1>10 DEF IInv

LEMMA InsertStep ==
  ASSUME IInv, NEW p \in Processes, Insert(p)
  PROVE  IInv'
<1> DEFINE s == asked[p].session
<1> USE DEF Insert, Locks, Goto, tables
<1>1. /\ pc[p] = "create" /\ open[p] = None /\ session[s] = "active"
      /\ UNCHANGED <<session, count, turns, told, printed, asked, reply, asks, faults>>
      /\ pc' = [pc EXCEPT ![p] = "work"]
      /\ s \in Sessions /\ count[s] \in Nat
      /\ asked[p].request \in Requests \cup {NoRequest}
  BY DEF IInv, TypeOK, WorkInv, Asking
<1>2. open' = [open EXCEPT ![p] =
                [number |-> count[s] + 1, request |-> asked[p].request,
                 status |-> "pending", context |-> {}]]
  OBVIOUS
<1>3. open'[p] \in Turn /\ open'[p] # None
  BY <1>1, <1>2, NoneAssumption DEF Turn, Numbers, Active, IInv, TypeOK
<1>4. TypeOK'
  BY <1>1, <1>2, <1>3 DEF IInv, TypeOK
<1>5. Others(p)
  BY <1>1, <1>2 DEF IInv, TypeOK, Others
<1>6. TablesInv'
  BY <1>1, KeepTables DEF IInv
<1>7. Asking'
  BY <1>1, <1>5 DEF IInv, WorkInv, Asking, Others
<1>8. OneOpen'
  BY <1>1, <1>5 DEF IInv, WorkInv, OneOpen, Others, Free
<1>9. Fits(p)'
  <2>1. \A t \in turns[s] : t.request = asked[p].request => t.request = NoRequest
    BY DEF Existing
  <2>2. open'[p] = [number |-> count[s] + 1, request |-> asked[p].request,
                    status |-> "pending", context |-> {}]
    BY <1>2 DEF IInv, TypeOK
  <2>3. pc'[p] = "work"
    BY <1>1 DEF IInv, TypeOK
  <2> QED BY <1>1, <2>1, <2>2, <2>3 DEF Fits
<1>10. OpenFits'
  BY <1>1, <1>5, <1>9 DEF IInv, WorkInv, OpenFits, Fits, Others, Recent
<1>11. Claims' \subseteq Claims
  BY <1>1, <1>5 DEF Claims, Answer, Answers, Others, IInv, TypeOK
<1>12. ClaimInv'
  BY <1>1, <1>11, KeepClaims DEF IInv
<1> QED BY <1>4, <1>6, <1>7, <1>8, <1>10, <1>12 DEF IInv, WorkInv

----------------------------------------------------------------------------
LEMMA RecallStep ==
  ASSUME IInv, NEW p \in Processes, Recall(p) \/ Advance(p)
  PROVE  IInv'
<1> USE DEF Recall, Advance, Update, tables
<1>1. /\ pc[p] = "work" /\ open[p] # None /\ open[p] \in Turn /\ Fits(p)
      /\ UNCHANGED <<session, count, turns, told, printed, asked, reply, pc, asks, faults>>
  BY DEF IInv, TypeOK, WorkInv, OpenFits
<1>2. PICK t : open' = [open EXCEPT ![p] = t]
  OBVIOUS
<1>3. Recent(asked[p].session, open[p].number) \subseteq Numbers
  <2>1. History(turns[asked[p].session], open[p].number) \subseteq Numbers
    BY <1>1 DEF IInv, TypeOK, WorkInv, Asking, History, Turn
  <2> QED BY <2>1 DEF Recent, LastOf
<1>4. /\ open'[p] \in Turn
      /\ open'[p].number = open[p].number /\ open'[p].request = open[p].request
      /\ open'[p].context = Recent(asked[p].session, open[p].number)
  <2>1. CASE Recall(p)
    <3>1. open'[p] = [open[p] EXCEPT !.status = "rewriting",
                        !.context = Recent(asked[p].session, open[p].number)]
      BY <2>1 DEF IInv, TypeOK
    <3> QED BY <1>1, <1>3, <3>1 DEF Turn, Active
  <2>2. CASE Advance(p)
    <3>1. PICK status \in Active : open'[p] = [open[p] EXCEPT !.status = status]
      BY <2>2 DEF IInv, TypeOK, Active
    <3>2. open[p].context = Recent(asked[p].session, open[p].number)
      BY <1>1, <2>2 DEF Fits
    <3> QED BY <1>1, <3>1, <3>2 DEF Turn
  <2> QED BY <2>1, <2>2
<1>5. TypeOK'
  BY <1>1, <1>2, <1>4, NoneAssumption DEF IInv, TypeOK
<1>6. Others(p)
  BY <1>1, <1>2 DEF IInv, TypeOK, Others
<1>7. Asking' /\ ~Answers(p)'
  BY <1>1 DEF IInv, WorkInv, Asking, Answers
<1>8. Fits(p)'
  BY <1>1, <1>4 DEF Fits, Recent
<1> QED BY <1>1, <1>5, <1>6, <1>7, <1>8, QuietStep

\* The turn gets its final status; the step says how the ask will end.
LEMMA DecideStep ==
  ASSUME IInv, NEW p \in Processes,
         Complete(p) \/ AnswerFails(p) \/ OtherFails(p)
  PROVE  IInv'
<1> USE DEF Complete, AnswerFails, OtherFails, Update, Say, Goto, tables
<1>1. /\ pc[p] \in {"work", "save"} /\ open[p] # None /\ open[p] \in Turn /\ Fits(p)
      /\ UNCHANGED <<session, count, turns, told, printed, asked, asks, faults>>
  BY DEF IInv, TypeOK, WorkInv, OpenFits
<1>2. PICK status \in Final, stage \in {"save", "commit", "rollback"},
           kind \in {"answered", "failed"}, n \in {None, open[p].number} :
        /\ open' = [open EXCEPT ![p] = [open[p] EXCEPT !.status = status]]
        /\ pc' = [pc EXCEPT ![p] = stage]
        /\ reply' = [reply EXCEPT ![p] = [kind |-> kind, number |-> n]]
        /\ kind = "answered" <=> stage = "save"
        /\ kind = "answered" => n = open[p].number
        /\ kind = "failed" => n = None
        /\ stage # "rollback" => open[p].status # "pending"
  BY DEF Final, Answered
<1>3. /\ open'[p] = [open[p] EXCEPT !.status = status] /\ open'[p] \in Turn
      /\ open'[p] # None /\ pc'[p] = stage
      /\ reply'[p] = [kind |-> kind, number |-> n]
  BY <1>1, <1>2, NoneAssumption DEF IInv, TypeOK, Turn
<1> HIDE DEF Complete, AnswerFails, OtherFails
<1>4. TypeOK'
  <2>1. [kind |-> kind, number |-> n] \in Reply
    BY <1>1, <1>2 DEF Reply, Turn
  <2> QED BY <1>1, <1>2, <1>3, <2>1 DEF IInv, TypeOK
<1>5. Others(p)
  BY <1>1, <1>2 DEF IInv, TypeOK, Others
<1>6. Asking' /\ ~Answers(p)'
  BY <1>1, <1>3, <1>5 DEF IInv, WorkInv, Asking, Answers, Others
<1>7. open[p].status # "pending" =>
        open[p].context = Recent(asked[p].session, open[p].number)
  BY <1>1 DEF Fits
<1>8. /\ open'[p].number = open[p].number /\ open'[p].request = open[p].request
      /\ open'[p].context = open[p].context /\ open'[p].status = status
  BY <1>1, <1>3 DEF Turn
<1>9. Fits(p)'
  <2>1. status \in Final /\ status # "pending"
    BY DEF Final, Answered
  <2>2. pc[p] = "save" => open[p].status # "pending"
    BY <1>1 DEF Fits, Final, Answered
  <2>3. stage # "rollback" => open'[p].context = Recent(asked[p].session, open[p].number)
    BY <1>2, <1>7, <1>8
  <2>4. /\ asked'[p] = asked[p] /\ session' = session /\ count' = count
        /\ turns' = turns
    BY <1>1
  <2>5. Recent(asked[p].session, open[p].number)' =
          LastOf(History(turns[asked[p].session], open[p].number))
    BY <1>8, <2>4 DEF Recent
  <2> QED BY <1>1, <1>2, <1>3, <1>8, <2>1, <2>3, <2>4, <2>5 DEF Fits, Recent
<1> QED BY <1>1, <1>4, <1>5, <1>6, <1>9, QuietStep

LEMMA SaveStep ==
  ASSUME IInv, NEW p \in Processes, Save(p)
  PROVE  IInv'
<1> USE DEF Save, Goto, tables
<1>1. /\ pc[p] = "save" /\ open[p] # None /\ open[p] \in Turn /\ Fits(p)
      /\ UNCHANGED <<session, count, turns, told, asked, open, reply, asks, faults>>
      /\ pc' = [pc EXCEPT ![p] = "commit"]
  BY DEF IInv, TypeOK, WorkInv, OpenFits
<1>2. Answer(p) \in [session : Sessions, request : Requests \cup {NoRequest},
                     number : Numbers]
  <2>1. asked[p].session \in Sessions /\ reply[p].kind = "answered"
    BY <1>1 DEF Fits, IInv, TypeOK, WorkInv, Asking
  <2>2. reply[p].number = open[p].number
    BY <1>1, <2>1 DEF Fits
  <2> QED BY <1>1, <2>1, <2>2 DEF Answer, Turn, IInv, TypeOK
<1>3. TypeOK'
  BY <1>1, <1>2 DEF IInv, TypeOK
<1>4. Others(p) /\ ~Answers(p)' /\ pc'[p] = "commit"
  BY <1>1 DEF IInv, TypeOK, Others, Answers
<1>5. Asking'
  BY <1>1, <1>4 DEF IInv, WorkInv, Asking, Others
<1>6. Fits(p)'
  BY <1>1, <1>4 DEF Fits, Recent
<1> QED BY <1>1, <1>3, <1>4, <1>5, <1>6, QuietStep

LEMMA RollbackStep ==
  ASSUME IInv, NEW p \in Processes, Rollback(p)
  PROVE  IInv'
<1> USE DEF Rollback, Goto, tables
<1>1. pc[p] = "rollback" /\ open[p] # None /\ Fits(p)
  BY DEF IInv, TypeOK, WorkInv, OpenFits
<1>2. TypeOK'
  BY <1>1 DEF IInv, TypeOK
<1>3. Others(p) /\ open'[p] = None /\ reply[p].kind # "answered"
  BY <1>1 DEF IInv, TypeOK, Others, Fits
<1>4. Asking' /\ ~Answers(p)'
  BY <1>1, <1>3 DEF IInv, WorkInv, Asking, Answers, Others
<1> QED BY <1>2, <1>3, <1>4, QuietStep

LEMMA CrashStep ==
  ASSUME IInv, NEW p \in Processes, Crash(p)
  PROVE  IInv'
<1> USE DEF Crash, Leave, Goto, tables
<1>1. /\ TypeOK'
      /\ Others(p) /\ open'[p] = None /\ pc'[p] = "idle"
  BY DEF IInv, TypeOK, Others, Nobody, NoReply, Reply
<1>2. Asking' /\ ~Answers(p)'
  BY <1>1 DEF IInv, WorkInv, Asking, Answers, Others
<1> QED BY <1>1, <1>2, QuietStep

LEMMA ReceiveStep ==
  ASSUME IInv, NEW p \in Processes, Receive(p)
  PROVE  IInv'
<1> USE DEF Receive, Leave, Goto, tables
<1>1. /\ pc[p] = "done" /\ open[p] = None
      /\ UNCHANGED <<session, count, turns, printed, asks, faults>>
      /\ told' = IF Answers(p) THEN told \cup {Answer(p)} ELSE told
  BY DEF IInv, TypeOK, Answer, Answers
<1>2. /\ Others(p) /\ open'[p] = None /\ pc'[p] = "idle"
      /\ open' = [open EXCEPT ![p] = None]
  BY DEF IInv, TypeOK, Others
<1>3. Answers(p) => Answer(p) \in [session : Sessions, request : Requests \cup {NoRequest},
                                  number : Numbers]
  BY <1>1 DEF Answers, Answer, IInv, TypeOK, WorkInv, Asking, Reply
<1>4. TypeOK'
  <2>1. reply' \in [Processes -> Reply] /\ asked' \in [Processes ->
          [session : Sessions \cup {None}, request : Requests \cup {NoRequest}]]
    BY DEF IInv, TypeOK, Nobody, NoReply, Reply
  <2>2. told' \subseteq [session : Sessions, request : Requests \cup {NoRequest},
                         number : Numbers]
    BY <1>1, <1>3 DEF IInv, TypeOK
  <2> QED BY <1>1, <1>2, <2>1, <2>2 DEF IInv, TypeOK, Others
<1>5. TablesInv'
  BY <1>1, KeepTables DEF IInv
<1>6. WorkInv'
  BY <1>1, <1>2 DEF IInv, WorkInv, Asking, OneOpen, OpenFits, Fits, Others, Recent
<1>7. Claims' \subseteq Claims
  <2>1. \A q \in Processes : Answers(q)' => q # p /\ Answers(q) /\ Answer(q)' = Answer(q)
    BY <1>2 DEF Answers, Answer, Others
  <2>2. told' \subseteq Claims
    BY <1>1 DEF Claims
  <2> QED BY <2>1, <2>2 DEF Claims
<1>8. ClaimInv'
  BY <1>1, <1>7, KeepClaims DEF IInv
<1> QED BY <1>4, <1>5, <1>6, <1>8 DEF IInv

----------------------------------------------------------------------------
\* A turn joins the line of its session.
LEMMA CommitTables ==
  ASSUME IInv, NEW p \in Processes, Commit(p)
  PROVE  TablesInv'
<1> DEFINE s == asked[p].session
           t == open[p]
<1> USE DEF Commit, Goto
<1>1. /\ pc[p] = "commit" /\ t # None /\ t \in Turn /\ Fits(p) /\ s \in Sessions
      /\ count[s] \in Nat
  BY DEF IInv, TypeOK, WorkInv, OpenFits, Asking
<1>2. /\ t.number = count[s] + 1 /\ t.request = asked[p].request /\ t.status \in Final
      /\ \A u \in turns[s] : u.request = t.request => u.request = NoRequest
      /\ t.context = LastOf(History(turns[s], t.number))
  BY <1>1 DEF Fits, Recent, Final, Answered
<1>3. /\ turns'[s] = turns[s] \cup {t} /\ count'[s] = count[s] + 1
      /\ \A q \in Sessions : q # s => turns'[q] = turns[q] /\ count'[q] = count[q]
  BY <1>1, <1>2 DEF IInv, TypeOK
<1>4. \A u \in turns[s] : u.number \in 1..count[s] /\ u.number < t.number
  BY <1>1, <1>2 DEF IInv, TablesInv, LinearTurns
<1>5. LinearTurns'
  <2>1. {u.number : u \in turns'[s]} = {u.number : u \in turns[s]} \cup {t.number}
    BY <1>3
  <2>2. {u.number : u \in turns'[s]} = 1..count'[s]
    <3>1. {u.number : u \in turns[s]} = 1..count[s]
      BY <1>1 DEF IInv, TablesInv, LinearTurns
    <3> QED BY <1>1, <1>2, <1>3, <2>1, <3>1
  <2>3. \A u, v \in turns'[s] : u.number = v.number => u = v
    BY <1>1, <1>2, <1>3, <1>4 DEF IInv, TablesInv, LinearTurns
  <2>4. ASSUME NEW q \in Sessions, q # s
        PROVE  /\ {u.number : u \in turns'[q]} = 1..count'[q]
               /\ \A u, v \in turns'[q] : u.number = v.number => u = v
    BY <1>3, <2>4 DEF IInv, TablesInv, LinearTurns
  <2> QED BY <2>2, <2>3, <2>4 DEF LinearTurns
<1>6. \A n \in Nat : n <= t.number => History(turns'[s], n) = History(turns[s], n)
  BY <1>1, <1>2, <1>3, <1>4 DEF History
<1>7. ContextIsHistory'
  <2>1. ASSUME NEW u \in turns'[s]
        PROVE  u.context = LastOf(History(turns'[s], u.number))
    <3>1. u.number \in Nat /\ u.number <= t.number
      BY <1>1, <1>2, <1>3, <1>4
    <3>2. u.context = LastOf(History(turns[s], u.number))
      BY <1>1, <1>2, <1>3 DEF IInv, TablesInv, ContextIsHistory
    <3> QED BY <1>6, <3>1, <3>2
  <2>2. ASSUME NEW q \in Sessions, q # s, NEW u \in turns'[q]
        PROVE  u.context = LastOf(History(turns'[q], u.number))
    BY <1>3, <2>2 DEF IInv, TablesInv, ContextIsHistory
  <2> QED BY <2>1, <2>2 DEF ContextIsHistory
<1>8. NoTurnIsStuck'
  BY <1>2, <1>3 DEF IInv, TablesInv, NoTurnIsStuck
<1>9. OneTurnPerRequest'
  BY <1>2, <1>3 DEF IInv, TablesInv, OneTurnPerRequest
<1> QED BY <1>5, <1>7, <1>8, <1>9 DEF TablesInv

LEMMA CommitStep ==
  ASSUME IInv, NEW p \in Processes, Commit(p)
  PROVE  IInv'
<1> DEFINE s == asked[p].session
           t == open[p]
<1>0. TablesInv'
  BY CommitTables
<1> USE DEF Commit, Goto
<1>1. /\ pc[p] = "commit" /\ t # None /\ t \in Turn /\ Fits(p) /\ s \in Sessions
      /\ count[s] \in Nat /\ session[s] = "active"
      /\ UNCHANGED <<session, asked, reply, told, printed, asks, faults>>
  BY DEF IInv, TypeOK, WorkInv, OpenFits, Asking, Fits
<1>2. /\ turns'[s] = turns[s] \cup {t} /\ t.number \in Nat
      /\ \A q \in Sessions : q # s => turns'[q] = turns[q] /\ count'[q] = count[q]
  BY <1>1 DEF IInv, TypeOK, Turn, Numbers
<1>3. Others(p) /\ open'[p] = None /\ pc'[p] = "done"
  BY DEF IInv, TypeOK, Others
<1>4. TypeOK'
  BY <1>1, <1>2 DEF IInv, TypeOK
<1>5. \A o \in Processes : open'[o] # None => o # p /\ asked[o].session # s
  BY <1>1, <1>3 DEF IInv, WorkInv, OneOpen, Others
<1>6. OpenFits'
  <2>1. ASSUME NEW o \in Processes, open'[o] # None
        PROVE  Fits(o)'
    <3>1. /\ o # p /\ asked[o].session # s /\ asked[o].session \in Sessions /\ Fits(o)
          /\ open'[o] = open[o] /\ pc'[o] = pc[o] /\ open[o] # None
      BY <1>3, <1>5, <2>1 DEF Others, IInv, WorkInv, OpenFits, Asking, TypeOK
    <3> QED BY <1>1, <1>2, <3>1 DEF Fits, Recent
  <2> QED BY <2>1 DEF OpenFits
<1>7. Asking' /\ OneOpen'
  BY <1>1, <1>3 DEF IInv, WorkInv, Asking, OneOpen, Others
<1>8. Claims' \subseteq Claims \cup {Answer(p)}
  BY <1>1, <1>3 DEF Claims, Answer, Answers, Others
<1>9. Answers(p)' => t.request = Answer(p).request /\ t.number = Answer(p).number
  BY <1>1 DEF Fits, Answer, Answers
<1>10. CASE reply[p].kind = "answered"
  <2>1. t.request = Answer(p).request /\ t.number = Answer(p).number /\ Answer(p).session = s
    BY <1>1, <1>10 DEF Fits, Answer
  <2>2. \A q \in Sessions : turns[q] \subseteq turns'[q]
    BY <1>2
  <2>3. Backed'
    <3>1. ASSUME NEW c \in Claims'
          PROVE  /\ session'[c.session] # "new"
                 /\ session'[c.session] = "active" =>
                      \E u \in turns'[c.session] :
                        u.request = c.request /\ u.number = c.number
      <4>1. CASE c = Answer(p)
        BY <1>1, <1>2, <2>1, <4>1
      <4>2. CASE c \in Claims
        <5>1. c.session \in Sessions
          BY <4>2 DEF IInv, TypeOK, WorkInv, Asking, Claims, Answer, Answers
        <5> QED BY <1>1, <2>2, <4>2, <5>1 DEF IInv, ClaimInv, Backed
      <4> QED BY <1>8, <4>1, <4>2
    <3> QED BY <3>1 DEF Backed
  <2>4. ClaimInv'
    <3>1. TypeOK /\ ClaimInv /\ OneTurnPerRequest'
      BY <1>0 DEF IInv, TablesInv
    <3> HIDE DEF Commit
    <3> QED BY <1>1, <1>8, <2>1, <2>2, <2>3, <3>1, AddClaim
  <2> QED BY <1>0, <1>4, <1>6, <1>7, <2>4 DEF IInv, WorkInv
<1>11. CASE reply[p].kind # "answered"
  <2>1. Claims' = Claims /\ \A c \in Claims : c.session \in Sessions
    BY <1>1, <1>3, <1>11 DEF IInv, TypeOK, WorkInv, Asking, Claims, Answer, Answers, Others
  <2>2. \A q \in Sessions : turns[q] \subseteq turns'[q]
    BY <1>2
  <2>3. ClaimInv'
    BY <1>1, <2>1, <2>2 DEF IInv, ClaimInv, Backed, Agree, OneTurnEach
  <2> QED BY <1>0, <1>4, <1>6, <1>7, <2>3 DEF IInv, WorkInv
<1> QED BY <1>10, <1>11

----------------------------------------------------------------------------
LEMMA NextIInv == IInv /\ [Next]_vars => IInv'
<1> SUFFICES ASSUME IInv, [Next]_vars
             PROVE  IInv'
  OBVIOUS
<1>1. CASE \E s \in Sessions : CreateSession(s) \/ DeleteSession(s)
  BY <1>1, CreateStep, DeleteStep
<1>2. CASE \E p \in Processes, s \in Sessions, r \in Requests \cup {NoRequest} :
             Start(p, s, r)
  BY <1>2, StartStep
<1>3. ASSUME NEW p \in Processes, Acquire(p)
      PROVE  IInv'
  BY <1>3, RefusalStep, ReplayStep, InsertStep DEF Acquire
<1>4. ASSUME NEW p \in Processes, Proceed(p)
      PROVE  IInv'
  BY <1>4, RecallStep, DecideStep, SaveStep, CommitStep, RollbackStep, ReceiveStep DEF Proceed
<1>5. CASE \E p \in Processes : Crash(p)
  BY <1>5, CrashStep
<1>6. CASE UNCHANGED vars
  <2>1. TypeOK' /\ WorkInv' /\ Claims' = Claims
    BY <1>6 DEF vars, IInv, TypeOK, WorkInv, Asking, OneOpen, OpenFits, Fits, Recent,
                Claims, Answer, Answers
  <2>2. TablesInv' /\ ClaimInv'
    BY <1>6, <2>1, KeepTables, KeepClaims DEF vars, IInv
  <2> QED BY <2>1, <2>2 DEF IInv
<1> HIDE DEF IInv
<1> QED BY <1>1, <1>2, <1>3, <1>4, <1>5, <1>6 DEF Next

\* The inductive invariant holds.
THEOREM ConversationInvariant == Spec => []IInv
BY InitIInv, NextIInv, PTL DEF Spec

\* Every variable keeps its type, and an ask has an open turn while it works.
THEOREM TypeCorrect == Spec => []TypeOK
<1>1. IInv => TypeOK
  BY DEF IInv
<1> QED BY <1>1, ConversationInvariant, PTL

\* create_turn numbers the turns of a session without gap or repetition.
THEOREM TurnsAreLinear == Spec => []LinearTurns
<1>1. IInv => LinearTurns
  BY DEF IInv, TablesInv
<1> QED BY <1>1, ConversationInvariant, PTL

\* A turn was resolved in the whole recent history before it.
THEOREM ContextsAreHistory == Spec => []ContextIsHistory
<1>1. IInv => ContextIsHistory
  BY DEF IInv, TablesInv
<1> QED BY <1>1, ConversationInvariant, PTL

\* No crash or failure of an ask leaves an unfinished turn in a session.
THEOREM NeverStuck == Spec => []NoTurnIsStuck
<1>1. IInv => NoTurnIsStuck
  BY DEF IInv, TablesInv
<1> QED BY <1>1, ConversationInvariant, PTL

\* A client_request_id is answered with one turn.
THEOREM Idempotent == Spec => []AnswersAgree
<1>1. IInv => AnswersAgree
  BY DEF IInv, ClaimInv, Agree, OneTurnEach, AnswersAgree, Claims
<1> QED BY <1>1, ConversationInvariant, PTL

=============================================================================
