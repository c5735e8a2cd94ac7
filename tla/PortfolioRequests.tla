-------------------------- MODULE PortfolioRequests --------------------------
(* Asking the Agent about a Portfolio, or starting the workflow that makes *)
(* a new one: each makes a Session and its first Run, once, however often  *)
(* it has to be tried                                                      *)
(* (frontend/src/components/portfolio/AskAgentControl.tsx,                 *)
(*  PortfolioIndexPage.tsx; application/portfolio_sessions.py).            *)
EXTENDS Naturals, Sequences, ClientRequests

CONSTANTS MaxWords, MaxAsks \* bounds: texts written, attempts made

ASSUME PortfolioRequestsAssumption == {MaxWords, MaxAsks} \subseteq Nat

VARIABLES kind,          \* the widget: "ask" takes a text, "start" is a button
          askMounted,    \* whether its page is there
          words,         \* the text, each one new (0: none); for "start" the intent
          written,       \* how many there were
          requestIdRef,  \* its current value (0: null)
          requestIds,    \* how many were made
          attempt,       \* the attempt its mutation observer reports (0: none)
          asks,          \* the attempts, in their order
          askRuns,       \* the Runs started for them, in their order
          created,       \* the request ids that have their Session
          workflowStarted \* and the ones marked in the metadata of it

askClientVars == <<kind, askMounted, words, written, requestIdRef, requestIds, attempt>>
askServerVars == <<askRuns, created, workflowStarted>>
askVars == <<askClientVars, asks, askServerVars>>

Ask(id, text) == [id |-> id, words |-> text, phase |-> "posted", existed |-> FALSE, done |-> FALSE, result |-> "none"]
ServerPhases == {"created", "started"}
AskPending == attempt # 0 /\ asks[attempt].phase # "answered"
AskFailed == attempt # 0 /\ asks[attempt].result = "error"

AskTypeOK ==
  /\ kind \in {"ask", "start"} /\ askMounted \in BOOLEAN
  /\ words \in 0..written /\ written \in 0..MaxWords
  /\ requestIdRef \in 0..requestIds /\ requestIds <= Len(asks) /\ attempt \in 0..Len(asks)
  /\ \A i \in DOMAIN asks : asks[i].phase \in ServerPhases \cup {"posted", "served", "answered"}
  /\ created \subseteq 1..requestIds /\ workflowStarted \subseteq created
  /\ \A r \in DOMAIN askRuns : askRuns[r].id \in created

-----------------------------------------------------------------------------
(* The first attempt makes the request id, the next ones repeat it.        *)
NewRequestId(old) == IF old = 0 THEN requestIds + 1 ELSE old

SubmitAsk ==
  LET id == NewRequestId(requestIdRef)
  IN  /\ askMounted /\ words # 0 /\ ~AskPending /\ Len(asks) < MaxAsks
      /\ requestIdRef' = id
      /\ requestIds' = IF id > requestIds THEN id ELSE requestIds
      /\ asks' = Append(asks, Ask(id, words)) /\ attempt' = Len(asks')
      /\ UNCHANGED <<kind, askMounted, words, written, askServerVars>>

(* The text can be changed unless it is being sent; one that could not be  *)
(* sent is then another request.                                           *)
KeepRequestId == requestIdRef' = requestIdRef /\ attempt' = attempt \* Mutant: it stays the same request.
ForgetFailedRequest ==
  IF AskFailed THEN requestIdRef' = 0 /\ attempt' = 0 ELSE UNCHANGED <<requestIdRef, attempt>>
EditAsk ==
  /\ askMounted /\ kind = "ask" /\ ~AskPending /\ written < MaxWords
  /\ written' = written + 1 /\ words' = written'
  /\ ForgetFailedRequest
  /\ UNCHANGED <<kind, askMounted, requestIds, asks, askServerVars>>

(* onSuccess takes the user to the Session, also from another page; an     *)
(* error leaves the text and the request id as they are.                   *)
AnswerAsk(i) ==
  /\ asks[i].phase = "served"
  /\ \E result \in Results(asks[i].done) :
       /\ asks' = [asks EXCEPT ![i].phase = "answered", ![i].result = result]
       /\ IF result = "value"
          THEN requestIdRef' = 0 /\ words' = 0 /\ attempt' = 0 /\ askMounted' = FALSE
          ELSE UNCHANGED <<requestIdRef, words, attempt, askMounted>>
  /\ UNCHANGED <<kind, written, requestIds, askServerVars>>

LeaveAsk ==
  /\ askMounted /\ askMounted' = FALSE
  /\ requestIdRef' = 0 /\ words' = 0 /\ attempt' = 0
  /\ UNCHANGED <<kind, written, requestIds, asks, askServerVars>>

VisitAsk ==
  /\ ~askMounted /\ askMounted' = TRUE
  /\ IF kind = "ask" THEN UNCHANGED <<words, written>>
     ELSE written < MaxWords /\ written' = written + 1 /\ words' = written'
  /\ UNCHANGED <<kind, requestIdRef, requestIds, attempt, asks, askServerVars>>

-----------------------------------------------------------------------------
(* The handler on the server, under its lock. Each step of it may fail,    *)
(* and so does what came before it stay.                                   *)
Locked == \E j \in DOMAIN asks : asks[j].phase \in ServerPhases
Refuse(i) == asks' = [asks EXCEPT ![i].phase = "served"]
Reply(i) == asks' = [asks EXCEPT ![i].phase = "served", ![i].done = TRUE]
ActiveRun(id) == \E r \in DOMAIN askRuns : askRuns[r].id = id /\ askRuns[r].active
HasAgentActivity(id) == \E r \in DOMAIN askRuns : askRuns[r].id = id /\ askRuns[r].activity

(* create_for_request: the id of the Session is made of the request's.     *)
CreateForRequest(i) ==
  LET id == asks[i].id
  IN  /\ asks[i].phase = "posted" /\ ~Locked
      /\ \/ created' = created \cup {id}
            /\ asks' = [asks EXCEPT ![i].phase = "created", ![i].existed = id \in created]
         \/ Refuse(i) /\ created' \in {created, created \cup {id}}
      /\ UNCHANGED <<askClientVars, askRuns, workflowStarted>>

(* A Session that was there before gets no second Run, if it has one or    *)
(* shows that it had. *)
HadItsRun(id) == id \in workflowStarted \/ HasAgentActivity(id)
StartItsRun(i) ==
  LET id == asks[i].id
  IN  /\ asks[i].phase = "created"
      /\ \/ /\ asks[i].existed /\ ActiveRun(id)
            /\ asks' = [asks EXCEPT ![i].phase = "started"] /\ UNCHANGED askRuns
         \/ /\ asks[i].existed /\ ~ActiveRun(id) /\ HadItsRun(id)
            /\ Reply(i) /\ UNCHANGED askRuns
         \/ /\ ~(asks[i].existed /\ (ActiveRun(id) \/ HadItsRun(id)))
            /\ \/ /\ askRuns' = Append(askRuns, [id |-> id, active |-> TRUE, activity |-> FALSE])
                  /\ asks' = [asks EXCEPT ![i].phase = "started"]
               \/ Refuse(i) /\ UNCHANGED askRuns
      /\ UNCHANGED <<askClientVars, created, workflowStarted>>

MarkStarted(i) ==
  /\ asks[i].phase = "started"
  /\ \/ workflowStarted' = workflowStarted \cup {asks[i].id} /\ Reply(i)
     \/ Refuse(i) /\ UNCHANGED workflowStarted
  /\ UNCHANGED <<askClientVars, askRuns, created>>

(* A Run leaves a trace in the journal or the Session, or fails before.    *)
AskRunActs(r) ==
  /\ askRuns[r].active /\ ~askRuns[r].activity
  /\ askRuns' = [askRuns EXCEPT ![r].activity = TRUE]
  /\ UNCHANGED <<askClientVars, asks, created, workflowStarted>>
AskRunEnds(r) ==
  /\ askRuns[r].active
  /\ askRuns' = [askRuns EXCEPT ![r].active = FALSE]
  /\ UNCHANGED <<askClientVars, asks, created, workflowStarted>>

(* The process stops and is started again: what it was doing is over.      *)
ServerRestarts ==
  /\ askRuns' = [r \in DOMAIN askRuns |-> [askRuns[r] EXCEPT !.active = FALSE]]
  /\ asks' = [i \in DOMAIN asks |-> IF asks[i].phase \in ServerPhases THEN [asks[i] EXCEPT !.phase = "served"] ELSE asks[i]]
  /\ <<asks, askRuns>>' # <<asks, askRuns>>
  /\ UNCHANGED <<askClientVars, created, workflowStarted>>

-----------------------------------------------------------------------------
AskInit ==
  /\ kind \in {"ask", "start"} /\ askMounted = FALSE
  /\ words = 0 /\ written = 0 /\ requestIdRef = 0 /\ requestIds = 0 /\ attempt = 0
  /\ asks = <<>> /\ askRuns = <<>> /\ created = {} /\ workflowStarted = {}

AskNext ==
  \/ SubmitAsk \/ EditAsk \/ LeaveAsk \/ VisitAsk
  \/ \E i \in DOMAIN asks : CreateForRequest(i) \/ StartItsRun(i) \/ MarkStarted(i) \/ AnswerAsk(i)
  \/ \E r \in DOMAIN askRuns : AskRunActs(r) \/ AskRunEnds(r)
  \/ ServerRestarts

AskSpec == AskInit /\ [][AskNext]_askVars

-----------------------------------------------------------------------------
(* The attempts at one text are one request, and no other text is sent     *)
(* under its id, where the server would drop it in silence: whatever       *)
(* answers were lost, and whatever was edited or left in between           *)
(* (AskAgentControl.tsx, requestIdRef).                                    *)
OneRequestPerText ==
  \A i, j \in DOMAIN asks : (asks[i].id = asks[j].id) <=> (asks[i].words = asks[j].words)

(* And a request has one Run: another one only after a Run that left       *)
(* nothing behind (portfolio_sessions.py, ask_agent, start_new_portfolio). *)
OneRunPerRequest ==
  \A r, q \in DOMAIN askRuns : r < q /\ askRuns[r].id = askRuns[q].id => ~askRuns[r].activity

AskedOnce == OneRequestPerText /\ OneRunPerRequest
=============================================================================
