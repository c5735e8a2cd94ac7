---------------------------- MODULE AgentRuntime ----------------------------
(***************************************************************************)
(* The Run lifecycle of one Session: runtime/manager.py with the boundary  *)
(* loop of agents/loop.py.  Sessions share nothing but "closed", so one    *)
(* Session with every task that may touch it is the unit of the model.     *)
(*                                                                         *)
(* Tasks are asyncio tasks: the Runs, the Callers (requests that reserve   *)
(* the Session or resume its queue) and one submission per Input.  A step  *)
(* is what a task does between two awaits; pc[t] names the await at which  *)
(* t is suspended.  Cancellation follows asyncio: "scheduled" is the       *)
(* call_soon of cancel_run, "armed" a task.cancel() that the next          *)
(* resumption of the task sees as CancelledError.                          *)
(***************************************************************************)
EXTENDS RunControl, FiniteSets

CONSTANTS
  Callers,      \* requests for maintenance or for resume_queue
  None,
  Behaviours,   \* follow_up_behavior values in use, of {"steer", "queue"}
  MaxRuns,      \* bound: Runs ever created
  MaxStarts,    \* bound: Runs started directly by the user
  MaxStops,     \* bound: calls of cancel_run
  MaxFaults,    \* bound: failed journal writes and Agent failures
  MayClose      \* whether aclose may happen

Runs == 1 .. MaxRuns

ASSUME RuntimeAssumption ==
  /\ MaxRuns \in Nat /\ MaxStarts \in Nat /\ MaxStops \in Nat
  /\ MaxFaults \in Nat /\ MayClose \in BOOLEAN
  /\ Behaviours \subseteq {"steer", "queue"}
  /\ None \notin Runs \cup Callers \cup Input
  /\ Runs \cap Callers = {} /\ Runs \cap Input = {} /\ Callers \cap Input = {}

VARIABLES
  shutdown,     \* _closed, and how far aclose has come
  active,       \* _active_by_session, _active_by_run: the registered Run
  maintenance,  \* _maintenance_sessions: the Caller holding the Session
  fallbackQ,    \* _steer_fallback_by_session
  queue,        \* _queued_by_session
  paused,       \* _queue_paused_sessions
  started,      \* Runs created so far
  run,          \* per Run: options, phase, status, control, barrier, gate
  pc, cancel,   \* per task
  deferred,     \* per task: a cancellation held back by a shielded write
  promo,        \* per Run and Caller: the Run it is promoting
  sub,          \* per Input: captured options and the Run it targets
  journal,      \* the Session's instruction records, in file order
  writers,      \* tasks holding or awaiting the journal lock, FIFO
  admitted,     \* history: queued inputs in the order they were accepted
  forgotten,    \* history: inputs withdrawn, or discarded unrecorded
  stops, faults \* bound counters

session == <<active, maintenance, fallbackQ, queue, paused>>
history == <<admitted, forgotten>>
vars == <<shutdown, session, started, run, pc, cancel, deferred, promo, sub,
          journal, writers, history, stops, faults>>

Hosts == Runs \cup Callers     \* tasks whose tail promotes pending work
Tasks == Hosts \cup Input

Promoting == {"activatingFallback", "abandoning", "notifyingFallback",
              "gatheringFallback", "yielding", "journalingQueued",
              "notifyingQueued", "gatheringQueue"}
Submitting == {"barrier", "journaling", "notifying"}
Shielded == {"activating", "discarding", "activatingFallback", "abandoning",
             "journalingQueued", "journaling"}
Executing == {"agent", "approval", "resuming", "boundary", "activating",
              "closing"}
Registered == Executing \cup {"created", "gated", "recording", "waiting",
                              "discarding", "aborted"}
Resting == {"absent", "done", "aborted", "idle", "rejected", "steered",
            "queued"}

BlankRun ==
  [origin |-> "none", carried |-> None, behaviour |-> "none",
   phase |-> "running", status |-> "none", barrier |-> "pending",
   gate |-> FALSE, staged |-> <<>>, ctl |-> NewControl]

Init ==
  /\ shutdown = "open" /\ active = None /\ maintenance = None
  /\ fallbackQ = <<>> /\ queue = <<>> /\ paused = FALSE
  /\ started = 0 /\ run = [r \in Runs |-> BlankRun]
  /\ pc = [t \in Tasks |-> IF t \in Runs THEN "absent" ELSE "idle"]
  /\ cancel = [t \in Tasks |-> "none"]
  /\ deferred = [t \in Tasks |-> FALSE]
  /\ promo = [h \in Hosts |-> None]
  /\ sub = [i \in Input |-> [target |-> None, behaviour |-> "none"]]
  /\ journal = <<>> /\ writers = <<>>
  /\ admitted = <<>> /\ forgotten = {}
  /\ stops = 0 /\ faults = 0

-----------------------------------------------------------------------------
(* Suspension, cancellation and journal writes.                            *)

(* A resumption whose wake-up precedes the cancel callback runs normally   *)
(* and finds the cancellation armed at its next await.                     *)
Proceed(t) ==
  /\ cancel[t] # "armed"
  /\ cancel' = [cancel EXCEPT ![t] = IF @ = "scheduled" THEN "armed" ELSE @]

Interrupted(t) ==
  /\ cancel[t] = "armed"
  /\ cancel' = [cancel EXCEPT ![t] = "none"]

(* The callback queued by cancel_run.  What was queued before it comes     *)
(* first: the first step of a task just created, and the resumption of the *)
(* promotion that yields after registering the Run.                        *)
CancelCallback(r) ==
  /\ cancel[r] = "scheduled" /\ pc[r] # "created"
  /\ \A h \in Hosts : pc[h] = "yielding" => promo[h] # r
  /\ cancel' = [cancel EXCEPT ![r] = "armed"]
  /\ UNCHANGED <<shutdown, session, started, run, pc, deferred, promo, sub,
                 journal, writers, history, stops, faults>>

(* Mutant: the cancellation caught during the write is forgotten.          *)
AbsorbAndForget(t) ==
  /\ pc[t] \in Shielded /\ Interrupted(t)
  /\ UNCHANGED <<shutdown, session, started, run, pc, deferred, promo, sub,
                 journal, writers, history, stops, faults>>

(* _await_journal_write keeps waiting and returns the cancellation later.  *)
AbsorbCancellation(t) ==
  /\ pc[t] \in Shielded /\ Interrupted(t)
  /\ deferred' = [deferred EXCEPT ![t] = TRUE]
  /\ UNCHANGED <<shutdown, session, started, run, pc, promo, sub, journal,
                 writers, history, stops, faults>>

MyTurn(t) == writers # <<>> /\ Head(writers) = t

Written(t, type, of, r) ==
  /\ MyTurn(t)
  /\ journal' = Append(journal, [type |-> type, of |-> of, run |-> r])
  /\ UNCHANGED faults

WriteFails(t) ==
  /\ MyTurn(t) /\ faults < MaxFaults
  /\ faults' = faults + 1
  /\ UNCHANGED journal

Unread == Tail(writers)   \* the lock queue once its head has been served

-----------------------------------------------------------------------------
(* Creating a Run.                                                         *)

(* Mutant: only a Run that records its own input waits for the record.     *)
CreatedReadyRun(origin, carried, behaviour) ==
  [BlankRun EXCEPT !.origin = origin, !.carried = carried,
                   !.behaviour = behaviour, !.gate = TRUE,
                   !.barrier = IF origin = "user" THEN "pending" ELSE "ok"]

CreatedRun(origin, carried, behaviour) ==
  [origin |-> origin, carried |-> carried, behaviour |-> behaviour,
   phase |-> "running", status |-> "none",
   barrier |-> IF origin = "application" THEN "ok" ELSE "pending",
   gate |-> origin \in {"user", "application"},
   staged |-> <<>>, ctl |-> NewControl]

Next1 == started + 1      \* the fresh run_id

DirectStarts ==
  Cardinality({r \in Runs : run[r].origin \in {"user", "application"}})

StartRun(origin, behaviour) ==
  /\ shutdown = "open" /\ active = None /\ maintenance = None
  /\ fallbackQ = <<>> /\ queue = <<>>
  /\ started < MaxRuns /\ DirectStarts < MaxStarts
  /\ started' = Next1 /\ active' = Next1
  /\ run' = [run EXCEPT ![Next1] = CreatedRun(origin, None, behaviour)]
  /\ pc' = [pc EXCEPT ![Next1] = "created"]
  /\ UNCHANGED <<shutdown, maintenance, fallbackQ, queue, paused, cancel,
                 deferred, promo, sub, journal, writers, history, stops,
                 faults>>

-----------------------------------------------------------------------------
(* _execute_run: the "finally" block.  rec is the Run's record on entry,   *)
(* w the journal lock queue.                                               *)

Goto(t, at) == pc' = [pc EXCEPT ![t] = at]

(* Mutant: the registry entry stays.                                       *)
StayRegistered(r) == active' = active

Deregister(r) == active' = IF active = r THEN None ELSE active

(* Mutant: the end of a Run leaves the queue running.                      *)
QueueKeepsRunning == paused

(* pause_queue, which does nothing when the queue is empty.                *)
QueuePaused == paused \/ queue # <<>>

(* After wait_until_ready: hand fallbacks over, or discard what is left.   *)
Settle(r, rec, w) ==
  LET left == Steers(rec.ctl)
      emptied == [rec EXCEPT !.ctl = EmptiedControl(@)]
  IN \/ /\ rec.status = "completed" /\ CanTakeFallbacks(rec.ctl)
        /\ run' = [run EXCEPT ![r] = emptied]
        /\ fallbackQ' = fallbackQ \o rec.ctl.fallback
        /\ Deregister(r) /\ Goto(r, "ending")
        /\ writers' = w /\ UNCHANGED paused
     \/ /\ rec.status = "completed" /\ ~CanTakeFallbacks(rec.ctl)
        /\ run' = [run EXCEPT ![r] = rec] /\ Goto(r, "aborted")
        /\ writers' = w /\ UNCHANGED <<fallbackQ, active, paused>>
     \/ /\ rec.status # "completed" /\ left = <<>>
        /\ run' = [run EXCEPT ![r] = emptied]
        /\ paused' = QueuePaused
        /\ Deregister(r) /\ Goto(r, "ending")
        /\ writers' = w /\ UNCHANGED fallbackQ
     \/ /\ rec.status # "completed" /\ left # <<>>
        /\ run' = [run EXCEPT ![r] = [emptied EXCEPT !.staged = left]]
        /\ Goto(r, "discarding") /\ writers' = Append(w, r)
        /\ UNCHANGED <<fallbackQ, active, paused>>

(* wait_until_ready suspends only while some submission is incomplete.     *)
Conclude(r, status, rec, w) ==
  LET ctl == CloseSubmissions(UnbindStream(rec.ctl))
      ended == [rec EXCEPT !.status = status, !.phase = "stopping",
                           !.ctl = ctl]
  IN IF AllReady(Steers(ctl), ctl)
     THEN Settle(r, ended, w)
     ELSE /\ run' = [run EXCEPT ![r] = ended] /\ Goto(r, "waiting")
          /\ writers' = w /\ UNCHANGED <<fallbackQ, active, paused>>

BarrierFailed(rec) ==
  IF rec.barrier = "pending" THEN [rec EXCEPT !.barrier = "failed"] ELSE rec

SubmissionsReady(r) ==
  /\ pc[r] = "waiting" /\ AllReady(Steers(run[r].ctl), run[r].ctl)
  /\ Proceed(r)
  /\ Settle(r, run[r], writers)
  /\ UNCHANGED <<shutdown, maintenance, queue, started, deferred, promo, sub,
                 journal, history, stops, faults>>

(* A cancellation inside wait_until_ready skips the rest of the block.     *)
CleanupInterrupted(r) ==
  /\ pc[r] = "waiting" /\ Interrupted(r) /\ Goto(r, "aborted")
  /\ UNCHANGED <<shutdown, session, started, run, deferred, promo, sub,
                 journal, writers, history, stops, faults>>

DiscardRecorded(r) ==
  /\ pc[r] = "discarding" /\ Proceed(r)
  /\ \/ /\ Written(r, "discarded", run[r].staged, r)
        /\ UNCHANGED forgotten
     \/ /\ WriteFails(r)
        /\ forgotten' = forgotten \cup ToSet(run[r].staged)
  /\ writers' = Unread
  /\ run' = [run EXCEPT ![r].staged = <<>>]
  /\ deferred' = [deferred EXCEPT ![r] = FALSE]
  /\ paused' = QueuePaused
  /\ Deregister(r) /\ Goto(r, "ending")
  /\ UNCHANGED <<shutdown, maintenance, fallbackQ, queue, started, promo, sub,
                 admitted, stops>>

-----------------------------------------------------------------------------
(* _execute_run: the "try" block, and AgentLoop.run.                       *)

Streaming(rec) == [rec EXCEPT !.ctl = BindStream(@)]

Unchanged4Run ==
  UNCHANGED <<shutdown, maintenance, queue, started, promo, sub, history,
              stops>>
Unchanged4Settle == UNCHANGED <<active, fallbackQ, paused>>

FirstStep(r) ==
  /\ pc[r] = "created" /\ cancel[r] # "armed"
  /\ \/ /\ run[r].origin \in {"steer", "queue"} /\ Goto(r, "gated")
        /\ UNCHANGED <<run, writers>>
     \/ /\ run[r].origin = "user" /\ Goto(r, "recording")
        /\ writers' = Append(writers, r) /\ UNCHANGED run
     \/ /\ run[r].origin = "application" /\ Goto(r, "agent")
        /\ run' = [run EXCEPT ![r] = Streaming(@)] /\ UNCHANGED writers
  /\ UNCHANGED <<cancel, deferred, journal, faults>>
  /\ Unchanged4Run /\ Unchanged4Settle

(* A task cancelled before its first step never enters its try block.      *)
NeverStarted(r) ==
  /\ pc[r] = "created" /\ Interrupted(r) /\ Goto(r, "aborted")
  /\ UNCHANGED <<run, writers, deferred, journal, faults>>
  /\ Unchanged4Run /\ Unchanged4Settle

UserMessageRecorded(r) ==
  /\ pc[r] = "recording" /\ Proceed(r)
  /\ \/ /\ Written(r, "user_message", <<>>, r) /\ Goto(r, "agent")
        /\ run' = [run EXCEPT ![r] = Streaming([@ EXCEPT !.barrier = "ok"])]
        /\ writers' = Unread /\ Unchanged4Settle
     \/ /\ WriteFails(r)
        /\ Conclude(r, "failed", BarrierFailed(run[r]), Unread)
  /\ UNCHANGED deferred /\ Unchanged4Run

GateOpens(r) ==
  /\ pc[r] = "gated" /\ run[r].gate /\ Proceed(r)
  /\ \/ /\ run[r].barrier = "ok" /\ Goto(r, "agent")
        /\ run' = [run EXCEPT ![r] = Streaming(@)]
        /\ UNCHANGED writers /\ Unchanged4Settle
     \/ /\ run[r].barrier = "failed"
        /\ Conclude(r, "failed", run[r], writers)
  /\ UNCHANGED <<deferred, journal, faults>> /\ Unchanged4Run

(* The stream ends, with tool calls awaiting approval or without.          *)
StreamEnds(r) ==
  /\ pc[r] = "agent" /\ Proceed(r)
  /\ \/ /\ Goto(r, "approval")
        /\ run' = [run EXCEPT ![r].ctl = UnbindStream(@),
                              ![r].phase = "waiting_approval"]
     \/ /\ Goto(r, "boundary")
        /\ run' = [run EXCEPT ![r].ctl = UnbindStream(@)]
  /\ UNCHANGED <<writers, deferred, journal, faults>>
  /\ Unchanged4Run /\ Unchanged4Settle

ApprovalReturns(r) ==
  /\ pc[r] = "approval" /\ Proceed(r) /\ Goto(r, "resuming")
  /\ run' = [run EXCEPT ![r].phase =
                IF @ = "waiting_approval" THEN "running" ELSE @]
  /\ UNCHANGED <<writers, deferred, journal, faults>>
  /\ Unchanged4Run /\ Unchanged4Settle

(* Mutant: the boundary does not wait for submissions under way.           *)
AtAnyBoundary(r) == pc[r] \in {"boundary", "resuming"}

AtBoundary(r) ==
  /\ pc[r] \in {"boundary", "resuming"}
  /\ AllReady(run[r].ctl.pending, run[r].ctl)

(* Leaving a boundary without staged input: an interrupted stream resumes, *)
(* a terminal one goes on to the title, the answer and auto-compaction.    *)
Leave(r, ctl) ==
  IF pc[r] = "resuming"
  THEN Goto(r, "agent") /\ run' = [run EXCEPT ![r].ctl = BindStream(ctl)]
  ELSE Goto(r, "closing") /\ run' = [run EXCEPT ![r].ctl = ctl]

BoundaryEmpty(r) ==
  /\ AtBoundary(r) /\ run[r].ctl.pending = <<>> /\ Proceed(r)
  /\ LET ctl == run[r].ctl
     IN  Leave(r, IF pc[r] = "boundary" THEN SealCurrent(ctl) ELSE ctl)
  /\ UNCHANGED <<writers, deferred, journal, faults>>
  /\ Unchanged4Run /\ Unchanged4Settle

(* add_input raised UserError: the SDK result is already terminal.         *)
StagingRefused(r) ==
  /\ AtBoundary(r) /\ run[r].ctl.pending # <<>> /\ Proceed(r)
  /\ Leave(r, MovePendingToFallback(run[r].ctl))
  /\ UNCHANGED <<writers, deferred, journal, faults>>
  /\ Unchanged4Run /\ Unchanged4Settle

StageSteers(r) ==
  /\ AtBoundary(r) /\ run[r].ctl.pending # <<>> /\ Proceed(r)
  /\ run' = [run EXCEPT ![r].staged = run[r].ctl.pending]
  /\ Goto(r, "activating") /\ writers' = Append(writers, r)
  /\ UNCHANGED <<deferred, journal, faults>>
  /\ Unchanged4Run /\ Unchanged4Settle

SteersActivated(r) ==
  LET rec == [run[r] EXCEPT !.ctl = MarkStaged(@, Len(run[r].staged)),
                            !.staged = <<>>]
  IN /\ pc[r] = "activating" /\ Proceed(r)
     /\ \/ /\ Written(r, "activated", run[r].staged, r)
           /\ IF deferred[r]
              THEN Conclude(r, "cancelled", rec, Unread)
              ELSE /\ run' = [run EXCEPT ![r] = Streaming(rec)]
                   /\ Goto(r, "agent") /\ writers' = Unread
                   /\ Unchanged4Settle
        \/ /\ WriteFails(r)
           /\ Conclude(r, "failed", [run[r] EXCEPT !.staged = <<>>], Unread)
     /\ deferred' = [deferred EXCEPT ![r] = FALSE]
     /\ Unchanged4Run

LoopCompletes(r) ==
  /\ pc[r] = "closing" /\ Proceed(r)
  /\ Conclude(r, "completed", run[r], writers)
  /\ UNCHANGED <<deferred, journal, faults>> /\ Unchanged4Run

(* A model, approval or output handler raises; staging fails part-way.     *)
AgentFails(r) ==
  /\ \/ pc[r] \in {"agent", "approval", "closing"}
     \/ AtBoundary(r) /\ Len(run[r].ctl.pending) > 1
  /\ faults < MaxFaults /\ faults' = faults + 1
  /\ Proceed(r)
  /\ Conclude(r, "failed", run[r], writers)
  /\ UNCHANGED <<deferred, journal>> /\ Unchanged4Run

(* CancelledError in the try block.  The initial user_message is written   *)
(* unshielded: when its turn has come it may be in the file all the same.  *)
RunCancelled(r) ==
  /\ pc[r] \in {"gated", "recording", "agent", "approval", "resuming",
                "boundary", "closing"}
  /\ Interrupted(r)
  /\ \/ UNCHANGED <<journal, faults>>
     \/ pc[r] = "recording" /\ Written(r, "user_message", <<>>, r)
  /\ Conclude(r, "cancelled", BarrierFailed(run[r]),
              Without(writers, r))
  /\ UNCHANGED deferred /\ Unchanged4Run

-----------------------------------------------------------------------------
(* Promotion of pending work by the tail of a host task: first a steer     *)
(* fallback, then the queue.  "runs" is the Run table as the step under    *)
(* way has left it and "holder" the maintenance operation.                 *)

(* Mutant: the promotion ends and still holds its Run.                     *)
EndHostHolding(h) ==
  /\ cancel' = [cancel EXCEPT ![h] = "none"]
  /\ pc' = [pc EXCEPT ![h] = IF h \in Runs THEN "done" ELSE "idle"]
  /\ deferred' = [deferred EXCEPT ![h] = FALSE]
  /\ UNCHANGED promo

EndHost(h) ==
  /\ cancel' = [cancel EXCEPT ![h] = "none"]
  /\ pc' = [pc EXCEPT ![h] = IF h \in Runs THEN "done" ELSE "idle"]
  /\ promo' = [promo EXCEPT ![h] = None]
  /\ deferred' = [deferred EXCEPT ![h] = FALSE]

Unchanged4Host == UNCHANGED <<shutdown, sub, admitted, stops>>

(* Mutants: a promotion looks only at maintenance, or only at Runs.        *)
TakenByMaintenance(holder) == shutdown # "open" \/ holder # None
TakenByRun(holder) == shutdown # "open" \/ active # None

Taken(holder) == shutdown # "open" \/ active # None \/ holder # None

(* The synchronous part of a promotion: register the gated Run, then       *)
(* suspend the host at "at".                                               *)
Promote(h, origin, i, at, runs) ==
  /\ started < MaxRuns
  /\ started' = Next1 /\ active' = Next1
  /\ run' = [runs EXCEPT ![Next1] = CreatedRun(origin, i, sub[i].behaviour)]
  /\ pc' = [pc EXCEPT ![Next1] = "created", ![h] = at]
  /\ promo' = [promo EXCEPT ![h] = Next1]
  /\ UNCHANGED <<cancel, deferred>>

NoPromotion(h, runs) ==
  EndHost(h) /\ run' = runs /\ UNCHANGED <<active, started>>

(* _start_run admits one kind of pending work at a time: with the other    *)
(* kind pending too it refuses, and the host task raises.                  *)
TryPromoteQueue(h, runs, isPaused, holder) ==
  \/ /\ queue = <<>> \/ isPaused \/ Taken(holder) \/ fallbackQ # <<>>
     /\ NoPromotion(h, runs) /\ UNCHANGED queue
  \/ /\ queue # <<>> /\ ~isPaused /\ ~Taken(holder) /\ fallbackQ = <<>>
     /\ Promote(h, "queue", Head(queue), "yielding", runs)
     /\ queue' = Tail(queue)

TryPromotePending(h, runs, holder) ==
  \/ /\ fallbackQ # <<>> /\ ~Taken(holder) /\ queue = <<>>
     /\ Promote(h, "steer", Head(fallbackQ), "activatingFallback", runs)
     /\ fallbackQ' = Tail(fallbackQ)
     /\ writers' = Append(writers, h) /\ UNCHANGED queue
  \/ /\ fallbackQ # <<>> /\ ~Taken(holder) /\ queue # <<>>
     /\ NoPromotion(h, runs) /\ UNCHANGED <<fallbackQ, queue, writers>>
  \/ /\ fallbackQ = <<>> \/ Taken(holder)
     /\ TryPromoteQueue(h, runs, paused, holder)
     /\ UNCHANGED <<fallbackQ, writers>>

(* The run_ended handler returned, or its error was logged.                *)
RunEndNotified(r) ==
  /\ pc[r] = "ending" /\ cancel[r] # "armed"
  /\ TryPromotePending(r, run, maintenance)
  /\ UNCHANGED <<maintenance, paused, journal, forgotten, faults>>
  /\ Unchanged4Host

RunEndInterrupted(r) ==
  /\ pc[r] = "ending" /\ Interrupted(r) /\ Goto(r, "done")
  /\ UNCHANGED <<session, started, run, deferred, promo, journal, writers,
                 forgotten, faults>>
  /\ Unchanged4Host

FallbackActivated(h) ==
  LET b == promo[h] IN
  /\ pc[h] = "activatingFallback" /\ pc[b] # "created" /\ Proceed(h)
  /\ \/ /\ Written(h, "activated", <<run[b].carried>>, b)
        /\ run' = [run EXCEPT ![b].barrier =
                      IF @ = "pending" THEN "ok" ELSE @]
        /\ Goto(h, "notifyingFallback") /\ writers' = Unread
        /\ UNCHANGED deferred
     \/ /\ WriteFails(h)
        /\ run' = [run EXCEPT ![b] = BarrierFailed(@)]
        /\ Goto(h, "abandoning") /\ writers' = Append(Unread, h)
        /\ deferred' = [deferred EXCEPT ![h] = FALSE]
  /\ UNCHANGED <<session, started, promo, forgotten>> /\ Unchanged4Host

(* Cancel the gated Run, open its gate and gather it.                      *)
AbandonRun(h, at) ==
  LET b == promo[h] IN
  /\ cancel[h] # "armed"
  /\ cancel' = [cancel EXCEPT ![b] = IF pc[b] \in Resting THEN @
                                     ELSE "armed"]
  /\ Goto(h, at)

FallbackAbandoned(h) ==
  LET b == promo[h] IN
  /\ pc[h] = "abandoning" /\ AbandonRun(h, "gatheringFallback")
  /\ \/ /\ Written(h, "discarded", <<run[b].carried>>, sub[run[b].carried].target)
        /\ UNCHANGED forgotten
     \/ /\ WriteFails(h)
        /\ forgotten' = forgotten \cup {run[b].carried}
  /\ run' = [run EXCEPT ![b].gate = TRUE]
  /\ writers' = Unread
  /\ UNCHANGED <<session, started, promo, deferred>> /\ Unchanged4Host

(* A cancellation deferred by the shielded write is raised in the end.     *)
FallbackGathered(h) ==
  /\ pc[h] = "gatheringFallback" /\ pc[promo[h]] \in Resting
  /\ cancel[h] # "armed"
  /\ IF deferred[h]
     THEN NoPromotion(h, run) /\ UNCHANGED queue
     ELSE TryPromoteQueue(h, run, paused, maintenance)
  /\ UNCHANGED <<maintenance, fallbackQ, paused, journal, writers, forgotten,
                 faults>>
  /\ Unchanged4Host

FallbackNotified(h) ==
  LET runs == [run EXCEPT ![promo[h]].gate = TRUE] IN
  /\ pc[h] = "notifyingFallback"
  /\ IF deferred[h] \/ cancel[h] = "armed"
     THEN NoPromotion(h, runs) /\ UNCHANGED queue
     ELSE TryPromoteQueue(h, runs, paused, maintenance)
  /\ UNCHANGED <<maintenance, fallbackQ, paused, journal, writers, forgotten,
                 faults>>
  /\ Unchanged4Host

(* asyncio.sleep(0): outside every try, so a cancellation here drops both  *)
(* the popped item and the gate.                                           *)
Yielded(h) ==
  /\ pc[h] = "yielding" /\ pc[promo[h]] # "created"
  /\ \/ /\ Proceed(h) /\ Goto(h, "journalingQueued")
        /\ writers' = Append(writers, h) /\ UNCHANGED <<promo, deferred>>
     \/ cancel[h] = "armed" /\ EndHost(h) /\ UNCHANGED writers
  /\ UNCHANGED <<session, started, run, journal, forgotten, faults>>
  /\ Unchanged4Host

QueuedInputRecorded(h) ==
  LET b == promo[h] IN
  /\ pc[h] = "journalingQueued" /\ pc[b] # "created" /\ cancel[h] # "armed"
  /\ Written(h, "user_message", <<run[b].carried>>, b)
  /\ writers' = Unread
  /\ run' = [run EXCEPT
       ![b].barrier = IF @ = "pending" THEN "ok" ELSE @,
       ![b].gate = deferred[h]]
  /\ IF deferred[h] THEN EndHost(h)
     ELSE Goto(h, "notifyingQueued") /\ UNCHANGED <<cancel, promo, deferred>>
  /\ UNCHANGED <<session, started, forgotten>> /\ Unchanged4Host

(* Mutant: the item taken off the queue is not put back.                   *)
NotPutBack(i) == queue' = queue /\ paused' = QueuePaused

PutBack(i) == queue' = <<i>> \o queue /\ paused' = TRUE

QueuedInputKept(h) ==
  LET b == promo[h] IN
  /\ pc[h] = "journalingQueued" /\ WriteFails(h)
  /\ AbandonRun(h, "gatheringQueue")
  /\ writers' = Unread
  /\ PutBack(run[b].carried)
  /\ run' = [run EXCEPT ![b] = [BarrierFailed(@) EXCEPT !.gate = TRUE]]
  /\ deferred' = [deferred EXCEPT ![h] = FALSE]
  /\ UNCHANGED <<active, maintenance, fallbackQ, started, promo, forgotten>>
  /\ Unchanged4Host

QueueNotified(h) ==
  /\ pc[h] = "notifyingQueued"
  /\ run' = [run EXCEPT ![promo[h]].gate = TRUE]
  /\ EndHost(h)
  /\ UNCHANGED <<session, started, journal, writers, forgotten, faults>>
  /\ Unchanged4Host

QueueGathered(h) ==
  /\ pc[h] = "gatheringQueue" /\ pc[promo[h]] \in Resting
  /\ cancel[h] # "armed" /\ EndHost(h)
  /\ UNCHANGED <<session, started, run, journal, writers, forgotten, faults>>
  /\ Unchanged4Host

(* aclose interrupts a host that waits for its abandoned Run.              *)
GatherInterrupted(h) ==
  /\ pc[h] \in {"gatheringFallback", "gatheringQueue"}
  /\ cancel[h] = "armed" /\ EndHost(h)
  /\ UNCHANGED <<session, started, run, journal, writers, forgotten, faults>>
  /\ Unchanged4Host

-----------------------------------------------------------------------------
(* Follow-up submissions.                                                  *)

Unchanged4Sub ==
  UNCHANGED <<shutdown, active, maintenance, fallbackQ, paused, started,
              promo, stops>>

Submit(i, behaviour) ==
  /\ pc[i] = "idle" /\ shutdown = "open" /\ active # None
  /\ run[active].phase # "stopping"
  /\ sub' = [sub EXCEPT ![i] = [target |-> active, behaviour |-> behaviour]]
  /\ Goto(i, "barrier")
  /\ UNCHANGED <<run, queue, cancel, deferred, journal, writers, history,
                 faults>>
  /\ Unchanged4Sub

(* The checks repeated after the wait on the input-journal barrier.        *)
StillAccepting(r) ==
  shutdown = "open" /\ active = r /\ run[r].phase # "stopping"

Admit(i) ==
  LET r == sub[i].target IN
  /\ pc[i] = "barrier" /\ run[r].barrier = "ok" /\ StillAccepting(r)
  /\ Proceed(i)
  /\ \/ /\ run[r].behaviour = "queue"
        /\ queue' = Append(queue, i) /\ admitted' = Append(admitted, i)
        /\ Goto(i, "queued") /\ UNCHANGED <<run, writers>>
     \/ /\ run[r].behaviour = "steer" /\ run[r].ctl.submissions
        /\ run' = [run EXCEPT ![r].ctl = ReserveSteer(@, i)]
        /\ Goto(i, "journaling") /\ writers' = Append(writers, i)
        /\ UNCHANGED <<queue, admitted>>
  /\ UNCHANGED <<sub, deferred, journal, forgotten, faults>>
  /\ Unchanged4Sub

Refuse(i) ==
  LET r == sub[i].target IN
  /\ pc[i] = "barrier"
  /\ \/ Interrupted(i)
     \/ /\ run[r].barrier # "pending" /\ Proceed(i)
        /\ \/ run[r].barrier = "failed"
           \/ ~StillAccepting(r)
           \/ run[r].behaviour = "steer" /\ ~run[r].ctl.submissions
  /\ Goto(i, "rejected")
  /\ UNCHANGED <<run, queue, sub, deferred, journal, writers, history, faults>>
  /\ Unchanged4Sub

SteerRecorded(i) ==
  LET r == sub[i].target IN
  /\ pc[i] = "journaling" /\ Proceed(i)
  /\ \/ /\ Written(i, "user_steer", <<i>>, r)
        /\ IF deferred[i]
           THEN /\ run' = [run EXCEPT ![r].ctl = MarkReady(@, i)]
                /\ Goto(i, "steered")
           ELSE Goto(i, "notifying") /\ UNCHANGED run
     \/ /\ WriteFails(i) /\ Goto(i, "rejected")
        /\ run' = [run EXCEPT ![r].ctl = DiscardSubmission(@, i)]
  /\ writers' = Unread /\ deferred' = [deferred EXCEPT ![i] = FALSE]
  /\ UNCHANGED <<queue, sub, history>> /\ Unchanged4Sub

(* The follow-up notification ends, normally or cancelled.                 *)
SteerNotified(i) ==
  /\ pc[i] = "notifying" /\ (Proceed(i) \/ Interrupted(i))
  /\ run' = [run EXCEPT ![sub[i].target].ctl = MarkReady(@, i)]
  /\ Goto(i, "steered")
  /\ UNCHANGED <<queue, sub, deferred, journal, writers, history, faults>>
  /\ Unchanged4Sub

-----------------------------------------------------------------------------
(* The user's other operations, maintenance and shutdown.                  *)

Unchanged4User ==
  UNCHANGED <<fallbackQ, sub, journal, writers, admitted, faults>>

CancelRun ==
  /\ shutdown = "open" /\ active # None /\ stops < MaxStops
  /\ stops' = stops + 1
  /\ run' = [run EXCEPT ![active].phase = "stopping",
                        ![active].ctl = CloseSubmissions(@)]
  /\ paused' = QueuePaused
  /\ cancel' = [cancel EXCEPT ![active] =
                  IF @ = "none" /\ pc[active] \notin Resting
                  THEN "scheduled" ELSE @]
  /\ UNCHANGED <<shutdown, active, maintenance, queue, started, pc, deferred,
                 promo, forgotten>>
  /\ Unchanged4User

RemoveQueuedInput(i) ==
  /\ \E k \in DOMAIN queue : queue[k] = i
  /\ queue' = Without(queue, i)
  /\ paused' = (paused /\ queue' # <<>>)
  /\ forgotten' = forgotten \cup {i}
  /\ UNCHANGED <<shutdown, active, maintenance, started, run, pc, cancel,
                 deferred, promo, stops>>
  /\ Unchanged4User

ClearQueue ==
  /\ queue # <<>> \/ paused
  /\ queue' = <<>> /\ paused' = FALSE
  /\ forgotten' = forgotten \cup ToSet(queue)
  /\ UNCHANGED <<shutdown, active, maintenance, started, run, pc, cancel,
                 deferred, promo, stops>>
  /\ Unchanged4User

ResumeQueue(c) ==
  /\ pc[c] = "idle" /\ ~Taken(maintenance) /\ queue # <<>> /\ paused
  /\ paused' = FALSE
  /\ TryPromoteQueue(c, run, FALSE, maintenance)
  /\ UNCHANGED <<shutdown, maintenance, stops, forgotten>>
  /\ Unchanged4User

(* reserve_session; compact_session alone allows pending work.             *)
ReserveSession(c, allowPending) ==
  /\ pc[c] = "idle" /\ ~Taken(maintenance)
  /\ allowPending \/ (fallbackQ = <<>> /\ queue = <<>>)
  /\ maintenance' = c /\ Goto(c, "reserved")
  /\ UNCHANGED <<shutdown, active, queue, paused, started, run, cancel,
                 deferred, promo, forgotten, stops>>
  /\ Unchanged4User

ReleaseSession(c) ==
  /\ pc[c] = "reserved"
  /\ maintenance' = None
  /\ TryPromotePending(c, run, None)
  /\ UNCHANGED <<paused, journal, forgotten, faults>>
  /\ Unchanged4Host

(* The tasks aclose cancels: _run_tasks, _promotion_tasks,                 *)
(* _submission_tasks.                                                      *)
Owned ==
  {t \in Tasks : pc[t] \notin Resting \cup {"reserved"}}

BeginClose ==
  /\ MayClose /\ shutdown = "open" /\ shutdown' = "closing"
  /\ cancel' = [t \in Tasks |-> IF t \in Owned THEN "armed" ELSE cancel[t]]
  /\ UNCHANGED <<active, maintenance, queue, paused, started, run, pc,
                 deferred, promo, forgotten, stops>>
  /\ Unchanged4User

EndClose ==
  /\ shutdown = "closing" /\ Owned = {} /\ shutdown' = "closed"
  /\ active' = None /\ fallbackQ' = <<>> /\ queue' = <<>> /\ paused' = FALSE
  /\ UNCHANGED <<maintenance, started, run, pc, cancel, deferred, promo, sub,
                 journal, writers, history, stops, faults>>

(* Nothing is under way: the state in which the program waits for input.   *)
AtRest ==
  /\ \A t \in Tasks : pc[t] \in Resting
  /\ shutdown # "closing"
  /\ UNCHANGED vars

-----------------------------------------------------------------------------
RunStep(r) ==
  \/ CancelCallback(r) \/ FirstStep(r) \/ NeverStarted(r)
  \/ UserMessageRecorded(r) \/ GateOpens(r) \/ StreamEnds(r)
  \/ BoundaryEmpty(r) \/ StagingRefused(r) \/ StageSteers(r)
  \/ SteersActivated(r) \/ LoopCompletes(r) \/ RunCancelled(r)
  \/ SubmissionsReady(r) \/ CleanupInterrupted(r) \/ DiscardRecorded(r)
  \/ RunEndNotified(r) \/ RunEndInterrupted(r)

HostStep(h) ==
  \/ FallbackActivated(h) \/ FallbackAbandoned(h)
  \/ FallbackGathered(h) \/ FallbackNotified(h) \/ Yielded(h)
  \/ QueuedInputRecorded(h) \/ QueuedInputKept(h) \/ QueueNotified(h)
  \/ QueueGathered(h) \/ GatherInterrupted(h)

SubmissionStep(i) ==
  Admit(i) \/ Refuse(i) \/ SteerRecorded(i) \/ SteerNotified(i)

UserStep ==
  \/ \E o \in {"user", "application"}, b \in Behaviours : StartRun(o, b)
  \/ \E i \in Input, b \in Behaviours : Submit(i, b)
  \/ \E i \in Input : RemoveQueuedInput(i)
  \/ \E c \in Callers : ResumeQueue(c)
  \/ \E c \in Callers, a \in BOOLEAN : ReserveSession(c, a)
  \/ \E r \in Runs : ApprovalReturns(r) \/ AgentFails(r)
  \/ CancelRun \/ ClearQueue \/ BeginClose

Next ==
  \/ \E r \in Runs : RunStep(r)
  \/ \E h \in Hosts : HostStep(h)
  \/ \E i \in Input : SubmissionStep(i)
  \/ \E t \in Tasks : AbsorbCancellation(t)
  \/ \E c \in Callers : ReleaseSession(c)
  \/ UserStep \/ EndClose \/ AtRest

Spec == Init /\ [][Next]_vars

(* The event loop resumes every task whose wait is over; it owes nothing   *)
(* to an approver, to a failing Agent or to the user.                      *)
Fairness ==
  /\ \A r \in Runs : WF_vars(RunStep(r))
  /\ \A h \in Hosts : WF_vars(HostStep(h))
  /\ \A i \in Input : WF_vars(SubmissionStep(i))
  /\ \A t \in Tasks : WF_vars(AbsorbCancellation(t))
  /\ \A c \in Callers : WF_vars(ReleaseSession(c))
  /\ WF_vars(EndClose)

FairSpec == Spec /\ Fairness

-----------------------------------------------------------------------------
(* Properties.                                                             *)

RunRecord ==
  [origin : {"none", "user", "application", "steer", "queue"},
   carried : Input \cup {None},
   behaviour : {"none", "steer", "queue"},
   phase : {"running", "waiting_approval", "stopping"},
   status : {"none", "completed", "cancelled", "failed"},
   barrier : {"pending", "ok", "failed"},
   gate : BOOLEAN, staged : Seq(Input), ctl : Control]

RunPoints == Registered \cup Promoting \cup {"absent", "ending", "done"}
CallerPoints == Promoting \cup {"idle", "reserved"}
InputPoints == Submitting \cup {"idle", "rejected", "steered", "queued"}

Record ==
  [type : {"user_message", "user_steer", "activated", "discarded"},
   of : Seq(Input \cup {None}), run : Runs \cup {None}]

StateTypes ==
  /\ shutdown \in {"open", "closing", "closed"}
  /\ active \in Runs \cup {None} /\ maintenance \in Callers \cup {None}
  /\ fallbackQ \in Seq(Input) /\ queue \in Seq(Input) /\ paused \in BOOLEAN
  /\ started \in 0 .. MaxRuns /\ run \in [Runs -> RunRecord]
  /\ cancel \in [Tasks -> {"none", "scheduled", "armed"}]
  /\ deferred \in [Tasks -> BOOLEAN]
  /\ sub \in [Input -> [target : Runs \cup {None},
                        behaviour : {"none", "steer", "queue"}]]
  /\ journal \in Seq(Record) /\ writers \in Seq(Tasks)
  /\ admitted \in Seq(Input) /\ forgotten \in SUBSET Input
  /\ stops \in Nat /\ faults \in Nat

ControlPoints ==
  /\ pc \in [Tasks -> RunPoints \cup CallerPoints \cup InputPoints]
  /\ \A r \in Runs : pc[r] \in RunPoints
  /\ \A c \in Callers : pc[c] \in CallerPoints
  /\ \A i \in Input : pc[i] \in InputPoints
  /\ \A r \in Runs : r > started <=> pc[r] = "absent"
  /\ promo \in [Hosts -> Runs \cup {None}]
  /\ \A h \in Hosts : promo[h] # None <=> pc[h] \in Promoting

(* Types, with the relation between a task and what it holds: a promotion  *)
(* has its Run exactly as long as its host waits for something on that     *)
(* Run's behalf, and the fresh run_id is one no task has.                  *)
TypeOK == StateTypes /\ ControlPoints

QueuePromotion ==
  {"yielding", "journalingQueued", "notifyingQueued", "gatheringQueue"}

(* What a promotion holds is a Run created for the input it took.          *)
Promotions ==
  \A h \in Hosts : promo[h] # None =>
    /\ promo[h] <= started /\ run[promo[h]].carried \in Input
    /\ run[promo[h]].origin = IF pc[h] \in QueuePromotion THEN "queue"
                              ELSE "steer"

(* One top-level Run or one maintenance operation owns the Session, from   *)
(* the moment it is registered to the end of its cleanup: whatever the     *)
(* promotions, cancellations and callers do, no other task is between      *)
(* those two points.                                                       *)
MutualExclusion ==
  /\ \A r \in Runs : pc[r] \in Registered \ {"aborted"} => active = r
  /\ \A c \in Callers : pc[c] = "reserved" => maintenance = c
  /\ active # None => maintenance = None

(* Who has the Session, and who has had it: between registration and the   *)
(* end of its cleanup a Run has it, whether the registry says so or not.   *)
LeaseOwners ==
  {r \in Runs : pc[r] \in Registered \ {"aborted"}}
    \cup {c \in Callers : pc[c] = "reserved"}
LeaseFinished ==
  {r \in Runs : pc[r] \in Promoting \cup {"ending", "done", "aborted"}}

Lease == INSTANCE SessionLease
  WITH Operations <- Runs \cup Callers, OneShot <- Runs,
       owners <- LeaseOwners, finished <- LeaseFinished

(* Every step of the Runtime acquires the Session for one operation, or    *)
(* releases it, or leaves it where it is: only the end of a maintenance    *)
(* operation passes it on, and no Run comes back to it.                    *)
ImplementsLease == Lease!Spec

HasRecord(type, of, r) ==
  \E k \in DOMAIN journal : journal[k] = [type |-> type, of |-> of, run |-> r]

(* The input a Run starts from is durable before its Agent runs: recorded  *)
(* by the Run itself, or by the task that promoted it.                     *)
InputIsDurable(r) ==
  CASE run[r].origin = "user"  -> HasRecord("user_message", <<>>, r)
    [] run[r].origin = "queue" ->
         HasRecord("user_message", <<run[r].carried>>, r)
    [] run[r].origin = "steer" -> HasRecord("activated", <<run[r].carried>>, r)
    [] OTHER -> run[r].origin = "application"

InputDurableBeforeAgent ==
  \A r \in Runs : pc[r] \in Executing => InputIsDurable(r)

Occurs(i, s) == \E k \in DOMAIN s : s[k] = i

Records(type, i) ==
  {k \in DOMAIN journal : journal[k].type = type /\ Occurs(i, journal[k].of)}

Dispositions(i) == Records("activated", i) \cup Records("discarded", i)

(* What the journal reader insists on: a steer is activated or discarded   *)
(* at most once, and only after its own user_steer record.                 *)
OneDisposition ==
  \A i \in Input :
    /\ Cardinality(Dispositions(i)) <= 1
    /\ \A k \in Dispositions(i) : \E j \in Records("user_steer", i) : j < k

Count(i, s) == Cardinality({k \in DOMAIN s : s[k] = i})

(* The promotion that holds i between two collections, if there is one.    *)
Carriers(i, points) ==
  {h \in Hosts : pc[h] \in points /\ promo[h] # None
                 /\ run[promo[h]].carried = i}

DiscardingRuns(i) ==
  {r \in Runs : pc[r] = "discarding" /\ Occurs(i, run[r].staged)}

(* A recorded steer is in exactly one place until it has its disposition:  *)
(* a control, the Session's fallbacks, a promotion, a discard under way.   *)
SteerConserved ==
  shutdown = "open" =>
    \A i \in Input : pc[i] \in {"notifying", "steered"} =>
      1 = Cardinality({r \in Runs : Occurs(i, Steers(run[r].ctl))})
          + Count(i, fallbackQ)
          + Cardinality(Carriers(i, {"activatingFallback", "abandoning"}))
          + Cardinality(DiscardingRuns(i))
          + Cardinality(Dispositions(i))
          + (IF i \in forgotten THEN 1 ELSE 0)

(* The steers a user sent to one Run are activated in the order in which   *)
(* they were recorded, at boundaries of that Run or as Runs of their own.  *)
SteersInOrder ==
  \A i, j \in Input :
    sub[i].target = sub[j].target =>
      \A ki \in Records("user_steer", i), kj \in Records("user_steer", j),
         ai \in Records("activated", i), aj \in Records("activated", j) :
        ki < kj =>
          \/ ai < aj
          \/ /\ ai = aj
             /\ \E m, n \in DOMAIN journal[ai].of :
                  m < n /\ journal[ai].of[m] = i /\ journal[ai].of[n] = j

QueuedRecords ==
  SelectSeq(journal, LAMBDA e : e.type = "user_message" /\ e.of # <<>>)

(* The items that promotions hold, in the order they were taken.           *)
QueueInHand ==
  LET held == {promo[h] : h \in {g \in Hosts :
                                   pc[g] \in {"yielding", "journalingQueued"}}}
      order == SetToSortSeq(held, <)
  IN  [k \in DOMAIN order |-> run[order[k]].carried]

(* The Runs that a promotion registered for i and left at a closed gate.   *)
Stranded(i) ==
  {r \in Runs : /\ run[r].origin = "queue" /\ run[r].carried = i
                /\ ~run[r].gate /\ \A h \in Hosts : promo[h] # r}

(* The places an accepted item can be in: the queue, a promotion, the      *)
(* journal, or withdrawn by the user.                                      *)
QueuePlaces(i) ==
  Count(i, queue)
    + Cardinality(Carriers(i, {"yielding", "journalingQueued"}))
    + Cardinality(Records("user_message", i))
    + (IF i \in forgotten THEN 1 ELSE 0)

(* An accepted item is in exactly one of them, for as long as the program  *)
(* is open.                                                                *)
QueueConserved ==
  shutdown = "open" => \A i \in Input : pc[i] = "queued" => QueuePlaces(i) = 1

(* It is never in two, and in none only if the promotion that took it was  *)
(* itself cancelled before it wrote: then its Run waits at a closed gate.  *)
QueueAccounted ==
  shutdown = "open" =>
    \A i \in Input : pc[i] = "queued" =>
      QueuePlaces(i) + Cardinality(Stranded(i)) = 1

(* The queue is a lossless FIFO: what has been journaled, what a promotion *)
(* holds and what still waits are the accepted inputs, in their order,     *)
(* less those the user withdrew.                                           *)
QueueIsFIFO ==
  shutdown = "open" =>
    LET delivered == [k \in DOMAIN QueuedRecords |-> QueuedRecords[k].of[1]]
    IN  SelectSeq(admitted, LAMBDA i : i \notin forgotten)
          = delivered \o QueueInHand \o queue

(* While its submission is under way a steer stays in the control of its   *)
(* Run, which neither stages nor settles it: mark_ready and                *)
(* discard_submission always find their entry.                             *)
SubmissionTracked ==
  \A i \in Input : pc[i] \in {"journaling", "notifying"} =>
    LET ctl == run[sub[i].target].ctl
    IN  Occurs(i, Steers(ctl)) /\ i \notin ctl.ready

(* A Run that completes has given every pending steer a disposition, so    *)
(* take_fallbacks does not raise in the middle of the cleanup.             *)
NoUndisposedSteer ==
  \A r \in Runs : run[r].status = "completed" => run[r].ctl.pending = <<>>

(* No transition of a control meets the state it raises on (control.py:    *)
(* mark_ready, discard_submission, take_fallbacks).                        *)
ControlNeverRaises == SubmissionTracked /\ NoUndisposedSteer

(* The end of a Run that was stopped or failed never starts what was       *)
(* queued behind it, unless the user has resumed that queue since (a later *)
(* Run then came from it).                                                 *)
StoppedRunKeepsQueue ==
  [][\A r \in Runs :
       /\ pc[r] # "yielding" /\ pc'[r] = "yielding"
       /\ sub[Head(queue)].target = r /\ run[r].status # "completed"
       => \E q \in Runs : q > r /\ run[q].origin = "queue"]_vars

Quiescent ==
  /\ shutdown = "open" /\ \A t \in Tasks : pc[t] \in Resting
  /\ \A r \in Runs : cancel[r] # "scheduled"

(* With nothing under way, no steer is left behind without a Run to take   *)
(* it.                                                                     *)
NoStrandedSteer == Quiescent => fallbackQ = <<>>

(* A Run whose task is over has left the registry, so that the Session     *)
(* can be used again.                                                      *)
EndedRunsDeregistered ==
  shutdown = "open" => \A r \in Runs : pc[r] = "aborted" => active # r

(* What may hold pending work up: an approver, shutdown, or, for as long as *)
(* both kinds are pending, that promotion admits neither.                  *)
HeldUp ==
  \/ shutdown # "open" \/ (fallbackQ # <<>> /\ queue # <<>>)
  \/ \E r \in Runs : pc[r] = "approval"

(* A recorded steer is eventually activated, discarded or, when the        *)
(* discard could not be recorded, dropped.                                 *)
SteerDisposed ==
  \A i \in Input :
    pc[i] = "steered" ~> (Dispositions(i) # {} \/ i \in forgotten \/ HeldUp)

(* A queued input is eventually delivered unless the queue is paused or    *)
(* the input withdrawn.                                                    *)
QueueServed ==
  \A i \in Input :
    pc[i] = "queued" ~>
      (Records("user_message", i) # {} \/ paused \/ i \in forgotten \/ HeldUp)

(* aclose returns: every task it cancels ends, at whichever await the      *)
(* cancellation finds it.                                                  *)
CloseTerminates == shutdown = "closing" ~> shutdown = "closed"

=============================================================================
