------------------------ MODULE AgentRuntime_proofs ------------------------
(***************************************************************************)
(* AgentRuntime, for every value of its constants: its types, who has the  *)
(* Session, what is in the journal before an Agent runs, and what the end  *)
(* of a stopped Run does not start.                                        *)
(*                                                                         *)
(* The first part types the operators, the second every action, the third  *)
(* shows that a promotion goes on holding the Run it created; the last     *)
(* three are about the lease of the Session, the input-journal barrier and *)
(* the queue behind a Run that was stopped.                                *)
(***************************************************************************)
EXTENDS AgentRuntime, TLAPS, SequenceTheorems

(* Removing an entry leaves a sequence over the same set.                  *)
LEMMA WithoutType ==
  ASSUME NEW S, NEW s \in Seq(S), NEW e
  PROVE  Without(s, e) \in Seq(S)
<1>1. CASE \E k \in DOMAIN s : s[k] = e
  <2>1. PICK k \in 1 .. Len(s) : k = CHOOSE n \in DOMAIN s : s[n] = e
    BY <1>1
  <2>2. \A n \in 1 .. Len(s) : s[n] \in S OBVIOUS
  <2>3. SubSeq(s, 1, k - 1) \in Seq(S)
    <3>1. \A n \in 1 .. k - 1 : s[n] \in S BY <2>2
    <3> QED BY <3>1, SubSeqProperties
  <2>4. SubSeq(s, k + 1, Len(s)) \in Seq(S)
    <3>1. \A n \in k + 1 .. Len(s) : s[n] \in S BY <2>2
    <3> QED BY <3>1, SubSeqProperties
  <2>5. RemoveAt(s, k) \in Seq(S)
    BY <2>3, <2>4, ConcatProperties DEF RemoveAt
  <2> QED BY <1>1, <2>1, <2>5 DEF Without
<1>2. CASE ~ \E k \in DOMAIN s : s[k] = e
  BY <1>2 DEF Without
<1> QED BY <1>1, <1>2

(* A new Run starts with a well-formed control.                            *)
LEMMA NewControlType == NewControl \in Control
BY DEF NewControl, Control

(* The methods of RunControl that take no submission keep a control        *)
(* well-formed.                                                            *)
LEMMA ControlOps ==
  ASSUME NEW c \in Control
  PROVE  /\ BindStream(c) \in Control
         /\ UnbindStream(c) \in Control
         /\ SealCurrent(c) \in Control
         /\ CloseSubmissions(c) \in Control
         /\ MovePendingToFallback(c) \in Control
         /\ EmptiedControl(c) \in Control
         /\ Steers(c) \in Seq(Input)
<1>1. /\ BindStream(c) \in Control /\ UnbindStream(c) \in Control
      /\ SealCurrent(c) \in Control /\ CloseSubmissions(c) \in Control
  BY DEF Control, BindStream, UnbindStream, SealCurrent, CloseSubmissions
<1>2. c.pending \o c.fallback \in Seq(Input)
      /\ c.fallback \o c.pending \in Seq(Input) /\ <<>> \in Seq(Input)
  <2>1. c.pending \in Seq(Input) /\ c.fallback \in Seq(Input)
    BY DEF Control
  <2> QED BY <2>1, ConcatProperties, EmptySeq
<1>3. /\ Steers(c) \in Seq(Input) /\ MovePendingToFallback(c) \in Control
      /\ EmptiedControl(c) \in Control
  BY <1>2 DEF Control, Steers, MovePendingToFallback, EmptiedControl
<1> QED BY <1>1, <1>3

(* So do those that take one.                                              *)
LEMMA SubmissionOps ==
  ASSUME NEW c \in Control, NEW i \in Input
  PROVE  /\ ReserveSteer(c, i) \in Control
         /\ MarkReady(c, i) \in Control
         /\ DiscardSubmission(c, i) \in Control
<1>1. ReserveSteer(c, i) \in Control
  BY AppendProperties DEF Control, ReserveSteer
<1>2. MarkReady(c, i) \in Control
  BY DEF Control, MarkReady, RequestAfterTurn
<1>3. DiscardSubmission(c, i) \in Control
  BY WithoutType DEF Control, DiscardSubmission
<1> QED BY <1>1, <1>2, <1>3

(* So does popping a staged prefix.                                        *)
LEMMA MarkStagedType ==
  ASSUME NEW c \in Control, NEW n \in Nat
  PROVE  MarkStaged(c, n) \in Control
<1> DEFINE s == c.pending
<1>1. s \in Seq(Input) BY DEF Control
<1> HIDE DEF s
<1>2. \A k \in n + 1 .. Len(s) : s[k] \in Input BY <1>1
<1>3. SubSeq(s, n + 1, Len(s)) \in Seq(Input)
  BY <1>1, <1>2, SubSeqProperties
<1> QED BY <1>3 DEF s, Control, MarkStaged

-----------------------------------------------------------------------------
(* A Run that neither is created nor promotes moves between its own awaits.*)
LEMMA PointsRun ==
  ASSUME ControlPoints, NEW r \in Runs, pc[r] \notin Promoting \cup {"absent"},
         NEW at \in RunPoints, at \notin Promoting \cup {"absent"},
         pc' = [pc EXCEPT ![r] = at], promo' = promo, started' = started
  PROVE  ControlPoints'
BY RuntimeAssumption DEF ControlPoints, Tasks, Hosts, Runs

(* A host that promotes moves between the awaits of a promotion and keeps  *)
(* its Run.                                                                *)
LEMMA PointsHost ==
  ASSUME ControlPoints, NEW h \in Hosts, pc[h] \in Promoting,
         NEW at \in Promoting,
         pc' = [pc EXCEPT ![h] = at], promo' = promo, started' = started
  PROVE  ControlPoints'
BY RuntimeAssumption DEF ControlPoints, Tasks, Hosts, Runs, RunPoints,
                         CallerPoints, Promoting

(* A caller takes the Session for maintenance.                             *)
LEMMA PointsCaller ==
  ASSUME ControlPoints, NEW c \in Callers, pc[c] = "idle",
         pc' = [pc EXCEPT ![c] = "reserved"], promo' = promo,
         started' = started
  PROVE  ControlPoints'
BY RuntimeAssumption DEF ControlPoints, Tasks, Hosts, CallerPoints, Promoting

(* A submission moves between its own awaits.                              *)
LEMMA PointsInput ==
  ASSUME ControlPoints, NEW i \in Input, NEW at \in InputPoints,
         pc' = [pc EXCEPT ![i] = at], promo' = promo, started' = started
  PROVE  ControlPoints'
BY RuntimeAssumption DEF ControlPoints, Tasks, Hosts, InputPoints

(* Nothing moves.                                                          *)
LEMMA PointsSame ==
  ASSUME ControlPoints, pc' = pc, promo' = promo, started' = started
  PROVE  ControlPoints'
BY DEF ControlPoints

(* A host ends and holds no Run any more.                                  *)
LEMMA PointsEnd ==
  ASSUME ControlPoints, NEW h \in Hosts, h \in Runs => pc[h] # "absent",
         EndHost(h), started' = started
  PROVE  ControlPoints'
BY RuntimeAssumption DEF ControlPoints, EndHost, Tasks, Hosts, RunPoints,
                         CallerPoints, Promoting

(* A promotion starts a Run under a fresh run_id, other than its host.     *)
LEMMA PointsPromote ==
  ASSUME TypeOK, NEW h \in Hosts, h \in Runs => pc[h] # "absent",
         NEW origin, NEW i, NEW at \in Promoting, NEW runs,
         Promote(h, origin, i, at, runs)
  PROVE  ControlPoints' /\ Next1 \in Runs /\ h # Next1
<1>1. Next1 \in Runs /\ started \in Nat
  BY RuntimeAssumption DEF TypeOK, StateTypes, Promote, Next1, Runs
<1>2. pc[Next1] = "absent" /\ Next1 # h
  BY <1>1 DEF TypeOK, ControlPoints, Next1, Hosts, Runs
<1> DEFINE n == Next1
<1>3. /\ pc' = [pc EXCEPT ![n] = "created", ![h] = at]
      /\ promo' = [promo EXCEPT ![h] = n] /\ started' = n
      /\ n = started + 1
  BY DEF Promote, Next1
<1> HIDE DEF n
<1>4. /\ n \in Runs /\ n # h /\ n \in Tasks /\ h \in Tasks /\ n # None
      /\ pc[n] = "absent"
  BY <1>1, <1>2, RuntimeAssumption DEF n, Tasks, Hosts
<1>5. /\ pc \in [Tasks -> RunPoints \cup CallerPoints \cup InputPoints]
      /\ \A r \in Runs : pc[r] \in RunPoints
      /\ \A c \in Callers : pc[c] \in CallerPoints
      /\ \A j \in Input : pc[j] \in InputPoints
      /\ "created" \in RunPoints /\ at \in RunPoints
      /\ at \in CallerPoints /\ "created" \notin Promoting
      /\ at \notin {"absent"}
  BY DEF TypeOK, ControlPoints, RunPoints, Registered, CallerPoints, Promoting
<1>6. /\ pc' \in [Tasks -> RunPoints \cup CallerPoints \cup InputPoints]
      /\ \A r \in Runs : pc'[r] \in RunPoints
      /\ \A c \in Callers : pc'[c] \in CallerPoints
      /\ \A j \in Input : pc'[j] \in InputPoints
  BY <1>3, <1>4, <1>5, RuntimeAssumption DEF Tasks, Hosts
<1>7. \A r \in Runs : r > started' <=> pc'[r] = "absent"
  BY <1>1, <1>3, <1>4, <1>5 DEF TypeOK, ControlPoints, Tasks, Hosts, Runs
<1>8. /\ promo' \in [Hosts -> Runs \cup {None}]
      /\ \A g \in Hosts : promo'[g] # None <=> pc'[g] \in Promoting
  BY <1>3, <1>4, <1>5 DEF TypeOK, ControlPoints, Tasks, Hosts, Promoting
<1> QED BY <1>4, <1>6, <1>7, <1>8 DEF n, ControlPoints

-----------------------------------------------------------------------------
(* The queues and the lock queue stay over their sets when served.         *)
LEMMA QueueTypes ==
  ASSUME StateTypes
  PROVE  /\ \A t \in Tasks : Append(writers, t) \in Seq(Tasks)
         /\ writers # <<>> => Unread \in Seq(Tasks)
         /\ \A t \in Tasks : writers # <<>> => Append(Unread, t) \in Seq(Tasks)
         /\ \A t : Without(writers, t) \in Seq(Tasks)
         /\ \A i : Without(queue, i) \in Seq(Input)
         /\ fallbackQ # <<>> => /\ Head(fallbackQ) \in Input
                               /\ Tail(fallbackQ) \in Seq(Input)
         /\ queue # <<>> => Head(queue) \in Input /\ Tail(queue) \in Seq(Input)
         /\ <<>> \in Seq(Input)
BY WithoutType, AppendProperties, HeadTailProperties, EmptySeq
DEF StateTypes, Unread

(* A journal write appends a record of the journal's type.                 *)
LEMMA WrittenTypes ==
  ASSUME StateTypes, NEW t, NEW type \in {"user_message", "user_steer",
                                         "activated", "discarded"},
         NEW of \in Seq(Input \cup {None}), NEW r \in Runs \cup {None},
         Written(t, type, of, r)
  PROVE  /\ writers # <<>> /\ journal' \in Seq(Record) /\ faults' = faults
<1> DEFINE e == [type |-> type, of |-> of, run |-> r]
<1>1. e \in Record BY DEF Record
<1> HIDE DEF e
<1>2. Append(journal, e) \in Seq(Record)
  BY <1>1, AppendProperties DEF StateTypes
<1> QED BY <1>2 DEF Written, MyTurn, e

(* The end of the cleanup writes well-typed state, and the Run goes on to  *)
(* its tail, to its discard, or is aborted.                                *)
LEMMA SettleTypes ==
  ASSUME StateTypes, NEW r \in Runs, NEW rec \in RunRecord,
         NEW w \in Seq(Tasks), Settle(r, rec, w)
  PROVE  /\ run' \in [Runs -> RunRecord] /\ fallbackQ' \in Seq(Input)
         /\ active' \in Runs \cup {None} /\ paused' \in BOOLEAN
         /\ writers' \in Seq(Tasks)
         /\ \E at \in {"ending", "aborted", "discarding"} :
              pc' = [pc EXCEPT ![r] = at]
<1>1. /\ rec.ctl \in Control /\ EmptiedControl(rec.ctl) \in Control
      /\ Steers(rec.ctl) \in Seq(Input) /\ rec.ctl.fallback \in Seq(Input)
  BY ControlOps DEF RunRecord, Control
<1>2. /\ [rec EXCEPT !.ctl = EmptiedControl(@)] \in RunRecord
      /\ [[rec EXCEPT !.ctl = EmptiedControl(@)]
            EXCEPT !.staged = Steers(rec.ctl)] \in RunRecord
  BY <1>1 DEF RunRecord
<1>3. fallbackQ \o rec.ctl.fallback \in Seq(Input)
  BY <1>1, ConcatProperties DEF StateTypes
<1>4. Append(w, r) \in Seq(Tasks)
  BY AppendProperties DEF Tasks, Hosts
<1>5. run \in [Runs -> RunRecord] /\ fallbackQ \in Seq(Input)
      /\ active \in Runs \cup {None} /\ paused \in BOOLEAN
  BY DEF StateTypes
<1> QED
  BY <1>1, <1>2, <1>3, <1>4, <1>5 DEF Settle, Deregister, Goto, QueuePaused

(* So does the "finally" block as a whole, which may also wait for         *)
(* submissions.                                                            *)
LEMMA ConcludeTypes ==
  ASSUME StateTypes, NEW r \in Runs, NEW rec \in RunRecord,
         NEW status \in {"completed", "cancelled", "failed"},
         NEW w \in Seq(Tasks), Conclude(r, status, rec, w)
  PROVE  /\ run' \in [Runs -> RunRecord] /\ fallbackQ' \in Seq(Input)
         /\ active' \in Runs \cup {None} /\ paused' \in BOOLEAN
         /\ writers' \in Seq(Tasks)
         /\ \E at \in {"ending", "aborted", "discarding", "waiting"} :
              pc' = [pc EXCEPT ![r] = at]
<1> DEFINE ctl == CloseSubmissions(UnbindStream(rec.ctl))
           ended == [rec EXCEPT !.status = status, !.phase = "stopping",
                                !.ctl = ctl]
<1>1. rec.ctl \in Control BY DEF RunRecord
<1>2. ctl \in Control
  BY <1>1 DEF Control, CloseSubmissions, UnbindStream
<1>3. ended \in RunRecord BY <1>2 DEF RunRecord
<1>4. CASE AllReady(Steers(ctl), ctl)
  <2>1. Settle(r, ended, w) BY <1>4 DEF Conclude
  <2> HIDE DEF ended
  <2> QED BY <1>3, <2>1, SettleTypes
<1>5. CASE ~AllReady(Steers(ctl), ctl)
  BY <1>3, <1>5 DEF Conclude, StateTypes, Goto
<1> QED BY <1>4, <1>5

(* Seeing or absorbing a cancellation keeps the cancellation states.       *)
LEMMA CancelTypes ==
  ASSUME StateTypes, NEW t, Proceed(t) \/ Interrupted(t)
  PROVE  cancel' \in [Tasks -> {"none", "scheduled", "armed"}]
BY DEF StateTypes, Proceed, Interrupted

(* A failed barrier and a bound stream keep a Run record well-formed.      *)
LEMMA RecordOps ==
  ASSUME NEW rec \in RunRecord
  PROVE  BarrierFailed(rec) \in RunRecord /\ Streaming(rec) \in RunRecord
<1>1. BarrierFailed(rec) \in RunRecord BY DEF RunRecord, BarrierFailed
<1>2. rec.ctl \in Control /\ BindStream(rec.ctl) \in Control
  BY ControlOps DEF RunRecord
<1>3. Streaming(rec) \in RunRecord BY <1>2 DEF RunRecord, Streaming
<1> QED BY <1>1, <1>3

(* So does another control, or the phase that Stop sets.                   *)
LEMMA ControlSet ==
  ASSUME NEW rec \in RunRecord, NEW c \in Control
  PROVE  /\ [rec EXCEPT !.ctl = c] \in RunRecord
         /\ [rec EXCEPT !.phase = "stopping"] \in RunRecord
BY DEF RunRecord

(* So does opening the gate.                                               *)
LEMMA GateSet ==
  ASSUME NEW rec \in RunRecord, NEW g \in BOOLEAN
  PROVE  [rec EXCEPT !.gate = g] \in RunRecord
BY DEF RunRecord

(* The record of a new Run is well-formed.                                 *)
LEMMA CreatedRunType ==
  ASSUME NEW o \in {"user", "application", "steer", "queue"},
         NEW i \in Input \cup {None}, NEW b \in {"none", "steer", "queue"}
  PROVE  CreatedRun(o, i, b) \in RunRecord
<1> DEFINE g == o \in {"user", "application"}
           barrier == IF o = "application" THEN "ok" ELSE "pending"
<1>1. g \in BOOLEAN /\ barrier \in {"pending", "ok"} OBVIOUS
<1>2. CreatedRun(o, i, b) =
        [origin |-> o, carried |-> i, behaviour |-> b, phase |-> "running",
         status |-> "none", barrier |-> barrier, gate |-> g,
         staged |-> <<>>, ctl |-> NewControl]
  BY Zenon DEF CreatedRun
<1> HIDE DEF g, barrier
<1> QED BY <1>1, <1>2, EmptySeq, NewControlType DEF RunRecord

(* Serving the queue, or declining to, writes well-typed state.            *)
LEMMA PromoteQueueTypes ==
  ASSUME TypeOK, NEW h \in Hosts, h \in Runs => pc[h] # "absent",
         NEW runs \in [Runs -> RunRecord], NEW isPaused, NEW holder,
         TryPromoteQueue(h, runs, isPaused, holder)
  PROVE  /\ ControlPoints' /\ run' \in [Runs -> RunRecord]
         /\ active' \in Runs \cup {None} /\ queue' \in Seq(Input)
         /\ started' \in 0 .. MaxRuns /\ deferred' \in [Tasks -> BOOLEAN]
         /\ cancel' \in [Tasks -> {"none", "scheduled", "armed"}]
<1>1. CASE NoPromotion(h, runs) /\ UNCHANGED queue
  <2>1. ControlPoints' BY <1>1, PointsEnd DEF NoPromotion, TypeOK
  <2> QED BY <1>1, <2>1 DEF NoPromotion, EndHost, TypeOK, StateTypes
<1>2. CASE /\ queue # <<>> /\ queue' = Tail(queue)
           /\ Promote(h, "queue", Head(queue), "yielding", runs)
  <2>1. /\ ControlPoints' /\ Next1 \in Runs
    BY <1>2, PointsPromote DEF Promoting
  <2>2. Head(queue) \in Input /\ queue' \in Seq(Input)
    BY <1>2, QueueTypes DEF TypeOK
  <2>3. CreatedRun("queue", Head(queue), sub[Head(queue)].behaviour) \in RunRecord
    BY <2>2, CreatedRunType DEF TypeOK, StateTypes
  <2> QED
    BY <1>2, <2>1, <2>2, <2>3, RuntimeAssumption
    DEF Promote, TypeOK, StateTypes, Next1, Runs
<1> QED BY <1>1, <1>2 DEF TryPromoteQueue

(* So does serving the steer fallbacks before it.                          *)
LEMMA PromotePendingTypes ==
  ASSUME TypeOK, NEW h \in Hosts, h \in Runs => pc[h] # "absent",
         NEW runs \in [Runs -> RunRecord], NEW holder,
         TryPromotePending(h, runs, holder)
  PROVE  /\ ControlPoints' /\ run' \in [Runs -> RunRecord]
         /\ active' \in Runs \cup {None} /\ queue' \in Seq(Input)
         /\ started' \in 0 .. MaxRuns /\ deferred' \in [Tasks -> BOOLEAN]
         /\ cancel' \in [Tasks -> {"none", "scheduled", "armed"}]
         /\ fallbackQ' \in Seq(Input) /\ writers' \in Seq(Tasks)
<1>1. CASE /\ fallbackQ # <<>> /\ fallbackQ' = Tail(fallbackQ)
           /\ Promote(h, "steer", Head(fallbackQ), "activatingFallback", runs)
           /\ writers' = Append(writers, h) /\ UNCHANGED queue
  <2>1. /\ ControlPoints' /\ Next1 \in Runs
    BY <1>1, PointsPromote DEF Promoting
  <2>2. /\ Head(fallbackQ) \in Input /\ fallbackQ' \in Seq(Input)
        /\ writers' \in Seq(Tasks)
    BY <1>1, QueueTypes DEF TypeOK, Tasks
  <2>3. CreatedRun("steer", Head(fallbackQ), sub[Head(fallbackQ)].behaviour)
          \in RunRecord
    BY <2>2, CreatedRunType DEF TypeOK, StateTypes
  <2> QED
    BY <1>1, <2>1, <2>2, <2>3, RuntimeAssumption
    DEF Promote, TypeOK, StateTypes, Next1, Runs
<1>2. CASE NoPromotion(h, runs) /\ UNCHANGED <<fallbackQ, queue, writers>>
  <2>1. ControlPoints' BY <1>2, PointsEnd DEF NoPromotion, TypeOK
  <2> QED BY <1>2, <2>1 DEF NoPromotion, EndHost, TypeOK, StateTypes
<1>3. CASE /\ TryPromoteQueue(h, runs, paused, holder)
           /\ UNCHANGED <<fallbackQ, writers>>
  BY <1>3, PromoteQueueTypes DEF TypeOK, StateTypes
<1> QED BY <1>1, <1>2, <1>3 DEF TryPromotePending

(* Every step of a Run keeps TypeOK.                                       *)
LEMMA RunStepTypes ==
  ASSUME TypeOK, NEW r \in Runs, RunStep(r) \/ AgentFails(r) \/ ApprovalReturns(r)
  PROVE  TypeOK'
<1> USE DEF session, history, Unchanged4Run, Unchanged4Settle, Goto
<1>1. /\ StateTypes /\ ControlPoints /\ run[r] \in RunRecord
      /\ run[r].ctl \in Control /\ run[r].staged \in Seq(Input)
      /\ r \in Tasks /\ r \in Hosts /\ run \in [Runs -> RunRecord]
      /\ started \in Nat
  BY RuntimeAssumption DEF TypeOK, StateTypes, RunRecord, Tasks, Hosts
<1>2. /\ Streaming(run[r]) \in RunRecord /\ BarrierFailed(run[r]) \in RunRecord
      /\ Streaming([run[r] EXCEPT !.barrier = "ok"]) \in RunRecord
  <2>1. [run[r] EXCEPT !.barrier = "ok"] \in RunRecord
    BY <1>1 DEF RunRecord
  <2> QED BY <1>1, <2>1, RecordOps
<1>3. \A c \in Control : [run EXCEPT ![r].ctl = c] \in [Runs -> RunRecord]
  BY <1>1 DEF RunRecord
<1>4. ASSUME NEW rec \in RunRecord,
             NEW status \in {"completed", "cancelled", "failed"},
             NEW w \in Seq(Tasks), Conclude(r, status, rec, w),
             pc[r] \in Registered, promo' = promo, started' = started
      PROVE  /\ ControlPoints' /\ writers' \in Seq(Tasks)
             /\ run' \in [Runs -> RunRecord] /\ fallbackQ' \in Seq(Input)
             /\ active' \in Runs \cup {None} /\ paused' \in BOOLEAN
  <2>1. PICK at \in {"ending", "aborted", "discarding", "waiting"} :
               pc' = [pc EXCEPT ![r] = at]
    BY <1>1, <1>4, ConcludeTypes
  <2>2. ControlPoints'
    BY <1>1, <1>4, <2>1, PointsRun DEF RunPoints, Registered, Promoting, Executing
  <2> QED BY <1>1, <1>4, <2>2, ConcludeTypes
<1>5. ASSUME NEW rec \in RunRecord, NEW w \in Seq(Tasks), Settle(r, rec, w),
             pc[r] \in Registered, promo' = promo, started' = started
      PROVE  /\ ControlPoints' /\ writers' \in Seq(Tasks)
             /\ run' \in [Runs -> RunRecord] /\ fallbackQ' \in Seq(Input)
             /\ active' \in Runs \cup {None} /\ paused' \in BOOLEAN
  <2>1. PICK at \in {"ending", "aborted", "discarding"} :
               pc' = [pc EXCEPT ![r] = at]
    BY <1>1, <1>5, SettleTypes
  <2>2. ControlPoints'
    BY <1>1, <1>5, <2>1, PointsRun DEF RunPoints, Registered, Promoting, Executing
  <2> QED BY <1>1, <1>5, <2>2, SettleTypes
<1>6. ASSUME NEW at \in RunPoints, at \notin Promoting \cup {"absent"},
             pc[r] \notin Promoting \cup {"absent"},
             pc' = [pc EXCEPT ![r] = at], promo' = promo, started' = started
      PROVE  ControlPoints'
  BY <1>1, <1>6, PointsRun
<1> USE DEF TypeOK
<1>a. CASE CancelCallback(r)
  BY <1>a, <1>1, PointsSame DEF CancelCallback, StateTypes
<1>b. CASE FirstStep(r)
  <2>1. StateTypes'
    BY <1>b, <1>1, <1>2, QueueTypes DEF FirstStep, StateTypes
  <2>2. ControlPoints'
    BY <1>b, <1>6 DEF FirstStep, RunPoints, Registered, Executing, Promoting
  <2> QED BY <2>1, <2>2
<1>c. CASE NeverStarted(r)
  <2>1. StateTypes' BY <1>c, <1>1, CancelTypes DEF NeverStarted, StateTypes
  <2>2. ControlPoints'
    BY <1>c, <1>6 DEF NeverStarted, RunPoints, Registered, Executing, Promoting
  <2> QED BY <2>1, <2>2
<1>d. CASE UserMessageRecorded(r)
  <2>1. cancel' \in [Tasks -> {"none", "scheduled", "armed"}]
    BY <1>d, <1>1, CancelTypes DEF UserMessageRecorded
  <2>2. CASE /\ Written(r, "user_message", <<>>, r) /\ pc' = [pc EXCEPT ![r] = "agent"]
             /\ run' = [run EXCEPT ![r] = Streaming([@ EXCEPT !.barrier = "ok"])]
             /\ writers' = Unread /\ Unchanged4Settle
    <3>1. writers # <<>> /\ journal' \in Seq(Record) /\ faults' = faults
      BY <1>1, <2>2, WrittenTypes, EmptySeq
    <3>2. StateTypes'
      BY <1>d, <1>1, <1>2, <2>1, <2>2, <3>1, QueueTypes
      DEF UserMessageRecorded, StateTypes
    <3>3. ControlPoints'
      BY <1>d, <1>6, <2>2
      DEF UserMessageRecorded, RunPoints, Registered, Executing, Promoting
    <3> QED BY <3>2, <3>3
  <2>3. CASE /\ WriteFails(r)
             /\ Conclude(r, "failed", BarrierFailed(run[r]), Unread)
    <3>1. /\ Unread \in Seq(Tasks) /\ faults' \in Nat /\ journal' = journal
      BY <1>1, <2>3, QueueTypes DEF WriteFails, MyTurn, StateTypes
    <3>2. pc[r] \in Registered /\ promo' = promo /\ started' = started
      BY <1>d DEF UserMessageRecorded, Registered
    <3>3. /\ ControlPoints' /\ writers' \in Seq(Tasks)
          /\ run' \in [Runs -> RunRecord] /\ fallbackQ' \in Seq(Input)
          /\ active' \in Runs \cup {None} /\ paused' \in BOOLEAN
      BY <1>2, <1>4, <2>3, <3>1, <3>2
    <3>4. StateTypes'
      BY <1>d, <1>1, <2>1, <3>1, <3>3 DEF UserMessageRecorded, StateTypes
    <3> QED BY <3>3, <3>4
  <2> QED BY <1>d, <2>2, <2>3 DEF UserMessageRecorded
<1>e. CASE GateOpens(r)
  <2>1. cancel' \in [Tasks -> {"none", "scheduled", "armed"}]
    BY <1>e, <1>1, CancelTypes DEF GateOpens
  <2>2. CASE /\ pc' = [pc EXCEPT ![r] = "agent"]
             /\ run' = [run EXCEPT ![r] = Streaming(@)]
             /\ UNCHANGED writers /\ Unchanged4Settle
    <3>1. StateTypes'
      BY <1>e, <1>1, <1>2, <2>1, <2>2 DEF GateOpens, StateTypes
    <3>2. ControlPoints'
      BY <1>e, <1>6, <2>2
      DEF GateOpens, RunPoints, Registered, Executing, Promoting
    <3> QED BY <3>1, <3>2
  <2>3. CASE Conclude(r, "failed", run[r], writers)
    <3>1. /\ pc[r] \in Registered /\ promo' = promo /\ started' = started
          /\ writers \in Seq(Tasks)
      BY <1>e, <1>1 DEF GateOpens, Registered, StateTypes
    <3>2. /\ ControlPoints' /\ writers' \in Seq(Tasks)
          /\ run' \in [Runs -> RunRecord] /\ fallbackQ' \in Seq(Input)
          /\ active' \in Runs \cup {None} /\ paused' \in BOOLEAN
      BY <1>1, <1>4, <2>3, <3>1
    <3>3. StateTypes' BY <1>e, <1>1, <2>1, <3>2 DEF GateOpens, StateTypes
    <3> QED BY <3>2, <3>3
  <2> QED BY <1>e, <2>2, <2>3 DEF GateOpens
<1>f. CASE StreamEnds(r) \/ ApprovalReturns(r)
  <2>1. cancel' \in [Tasks -> {"none", "scheduled", "armed"}]
    BY <1>f, <1>1, CancelTypes DEF StreamEnds, ApprovalReturns
  <2>2. UnbindStream(run[r].ctl) \in Control BY <1>1, ControlOps
  <2>3. run' \in [Runs -> RunRecord]
    <3>1. PICK rec \in RunRecord : run' = [run EXCEPT ![r] = rec]
      <4>1. CASE ApprovalReturns(r)
        BY <1>1, <4>1 DEF ApprovalReturns, RunRecord
      <4>2. CASE StreamEnds(r)
        <5> DEFINE unbound == [run[r] EXCEPT !.ctl = UnbindStream(@)]
        <5>1. /\ unbound \in RunRecord
              /\ [unbound EXCEPT !.phase = "waiting_approval"] \in RunRecord
          BY <1>1, <2>2 DEF RunRecord
        <5>2. \/ run' = [run EXCEPT ![r] = unbound]
              \/ run' = [run EXCEPT ![r] =
                           [unbound EXCEPT !.phase = "waiting_approval"]]
          BY <1>1, <4>2 DEF StreamEnds
        <5> QED BY <5>1, <5>2
      <4> QED BY <1>f, <4>1, <4>2
    <3> QED BY <1>1, <3>1
  <2>4. StateTypes'
    BY <1>f, <1>1, <2>1, <2>3 DEF StreamEnds, ApprovalReturns, StateTypes
  <2>5. ControlPoints'
    BY <1>f, <1>6
    DEF StreamEnds, ApprovalReturns, RunPoints, Registered, Executing, Promoting
  <2> QED BY <2>4, <2>5
<1>g. CASE BoundaryEmpty(r) \/ StagingRefused(r)
  <2>1. cancel' \in [Tasks -> {"none", "scheduled", "armed"}]
    BY <1>g, <1>1, CancelTypes DEF BoundaryEmpty, StagingRefused
  <2>2. PICK c \in Control : Leave(r, c)
    <3>1. /\ SealCurrent(run[r].ctl) \in Control
          /\ MovePendingToFallback(run[r].ctl) \in Control
      BY <1>1, ControlOps
    <3> QED BY <1>g, <1>1, <3>1 DEF BoundaryEmpty, StagingRefused
  <2>3. run' \in [Runs -> RunRecord]
    <3>1. BindStream(c) \in Control BY ControlOps
    <3> QED BY <1>3, <2>2, <3>1 DEF Leave
  <2>4. StateTypes'
    BY <1>g, <1>1, <2>1, <2>3 DEF BoundaryEmpty, StagingRefused, StateTypes
  <2>5. ControlPoints'
    BY <1>g, <1>6, <2>2
    DEF BoundaryEmpty, StagingRefused, AtBoundary, Leave, RunPoints,
        Registered, Executing, Promoting
  <2> QED BY <2>4, <2>5
<1>h. CASE StageSteers(r)
  <2>1. run' \in [Runs -> RunRecord]
    BY <1>h, <1>1 DEF StageSteers, RunRecord, Control
  <2>2. StateTypes'
    BY <1>h, <1>1, <2>1, QueueTypes, CancelTypes DEF StageSteers, StateTypes
  <2>3. ControlPoints'
    BY <1>h, <1>6
    DEF StageSteers, AtBoundary, RunPoints, Registered, Executing, Promoting
  <2> QED BY <2>2, <2>3
<1>i. CASE SteersActivated(r)
  <2> DEFINE w == Unread
             rec == [run[r] EXCEPT !.ctl = MarkStaged(@, Len(run[r].staged)),
                                   !.staged = <<>>]
             kept == [run[r] EXCEPT !.staged = <<>>]
  <2>1. cancel' \in [Tasks -> {"none", "scheduled", "armed"}]
    BY <1>i, <1>1, CancelTypes DEF SteersActivated
  <2>2. deferred' \in [Tasks -> BOOLEAN]
    BY <1>i, <1>1 DEF SteersActivated, StateTypes
  <2>3. rec \in RunRecord /\ kept \in RunRecord /\ Streaming(rec) \in RunRecord
    <3>1. Len(run[r].staged) \in Nat BY <1>1, LenProperties
    <3>2. MarkStaged(run[r].ctl, Len(run[r].staged)) \in Control
      BY <1>1, <3>1, MarkStagedType
    <3>3. rec \in RunRecord /\ kept \in RunRecord
      BY <1>1, <3>2, EmptySeq DEF RunRecord
    <3> QED BY <3>3, RecordOps
  <2>4. /\ pc[r] \in Registered /\ promo' = promo /\ started' = started
        /\ writers # <<>> /\ Unread \in Seq(Tasks)
    BY <1>i, <1>1, QueueTypes
    DEF SteersActivated, Registered, Executing, Written, WriteFails, MyTurn
  <2>5. /\ UNCHANGED <<shutdown, maintenance, queue, started, sub, admitted,
                       forgotten, stops>>
        /\ pc[r] = "activating"
    BY <1>i DEF SteersActivated
  <2>6. journal' \in Seq(Record) /\ faults' \in Nat
    <3>1. run[r].staged \in Seq(Input \cup {None})
      BY <1>1, SeqDef
    <3>2. CASE Written(r, "activated", run[r].staged, r)
      BY <1>1, <3>1, <3>2, WrittenTypes DEF StateTypes
    <3>3. CASE WriteFails(r)
      BY <1>1, <3>3 DEF WriteFails, StateTypes
    <3> QED BY <1>i, <3>2, <3>3 DEF SteersActivated
  <2>7. CASE /\ run' = [run EXCEPT ![r] = Streaming(rec)]
             /\ pc' = [pc EXCEPT ![r] = "agent"] /\ writers' = Unread
             /\ Unchanged4Settle
    <3>1. StateTypes'
      BY <1>1, <2>1, <2>2, <2>3, <2>4, <2>5, <2>6, <2>7 DEF StateTypes
    <3>2. ControlPoints'
      BY <1>6, <2>4, <2>5, <2>7 DEF RunPoints, Registered, Executing, Promoting
    <3> QED BY <3>1, <3>2
  <2>8. CASE \/ Conclude(r, "cancelled", rec, Unread)
             \/ Conclude(r, "failed", kept, Unread)
    <3> HIDE DEF rec, kept
    <3>1. /\ ControlPoints' /\ writers' \in Seq(Tasks)
          /\ run' \in [Runs -> RunRecord] /\ fallbackQ' \in Seq(Input)
          /\ active' \in Runs \cup {None} /\ paused' \in BOOLEAN
      BY <1>4, <2>3, <2>4, <2>8
    <3>2. StateTypes'
      BY <1>1, <2>1, <2>2, <2>5, <2>6, <3>1 DEF StateTypes
    <3> QED BY <3>1, <3>2
  <2> QED BY <1>i, <2>7, <2>8 DEF SteersActivated
<1>j. CASE LoopCompletes(r) \/ AgentFails(r)
  <2>1. cancel' \in [Tasks -> {"none", "scheduled", "armed"}]
    BY <1>j, <1>1, CancelTypes DEF LoopCompletes, AgentFails
  <2>2. /\ pc[r] \in Registered /\ promo' = promo /\ started' = started
        /\ writers \in Seq(Tasks)
    BY <1>j, <1>1
    DEF LoopCompletes, AgentFails, AtBoundary, Registered, Executing, StateTypes
  <2>3. /\ ControlPoints' /\ writers' \in Seq(Tasks)
        /\ run' \in [Runs -> RunRecord] /\ fallbackQ' \in Seq(Input)
        /\ active' \in Runs \cup {None} /\ paused' \in BOOLEAN
    BY <1>j, <1>1, <1>4, <2>2 DEF LoopCompletes, AgentFails
  <2>4. StateTypes'
    BY <1>j, <1>1, <2>1, <2>3 DEF LoopCompletes, AgentFails, StateTypes
  <2> QED BY <2>3, <2>4
<1>k. CASE RunCancelled(r)
  <2>1. cancel' \in [Tasks -> {"none", "scheduled", "armed"}]
    BY <1>k, <1>1, CancelTypes DEF RunCancelled
  <2>2. /\ pc[r] \in Registered /\ promo' = promo /\ started' = started
        /\ Without(writers, r) \in Seq(Tasks)
    BY <1>k, <1>1, QueueTypes DEF RunCancelled, Registered, Executing
  <2>3. journal' \in Seq(Record) /\ faults' \in Nat
    BY <1>k, <1>1, WrittenTypes, EmptySeq DEF RunCancelled, StateTypes
  <2>4. /\ ControlPoints' /\ writers' \in Seq(Tasks)
        /\ run' \in [Runs -> RunRecord] /\ fallbackQ' \in Seq(Input)
        /\ active' \in Runs \cup {None} /\ paused' \in BOOLEAN
    BY <1>k, <1>2, <1>4, <2>2 DEF RunCancelled
  <2>5. StateTypes'
    BY <1>k, <1>1, <2>1, <2>3, <2>4 DEF RunCancelled, StateTypes
  <2> QED BY <2>4, <2>5
<1>l. CASE SubmissionsReady(r)
  <2>1. cancel' \in [Tasks -> {"none", "scheduled", "armed"}]
    BY <1>l, <1>1, CancelTypes DEF SubmissionsReady
  <2>2. /\ pc[r] \in Registered /\ promo' = promo /\ started' = started
        /\ writers \in Seq(Tasks)
    BY <1>l, <1>1 DEF SubmissionsReady, Registered, StateTypes
  <2>3. /\ ControlPoints' /\ writers' \in Seq(Tasks)
        /\ run' \in [Runs -> RunRecord] /\ fallbackQ' \in Seq(Input)
        /\ active' \in Runs \cup {None} /\ paused' \in BOOLEAN
    BY <1>l, <1>1, <1>5, <2>2 DEF SubmissionsReady
  <2>4. StateTypes'
    BY <1>l, <1>1, <2>1, <2>3 DEF SubmissionsReady, StateTypes
  <2> QED BY <2>3, <2>4
<1>m. CASE CleanupInterrupted(r) \/ RunEndInterrupted(r)
  <2>1. StateTypes'
    BY <1>m, <1>1, CancelTypes
    DEF CleanupInterrupted, RunEndInterrupted, Unchanged4Host, StateTypes
  <2>2. ControlPoints'
    BY <1>m, <1>6
    DEF CleanupInterrupted, RunEndInterrupted, Unchanged4Host, RunPoints,
        Registered, Promoting
  <2> QED BY <2>1, <2>2
<1>n. CASE DiscardRecorded(r)
  <2>1. cancel' \in [Tasks -> {"none", "scheduled", "armed"}]
    BY <1>n, <1>1, CancelTypes DEF DiscardRecorded
  <2>2. /\ journal' \in Seq(Record) /\ faults' \in Nat
        /\ writers' \in Seq(Tasks) /\ forgotten' \in SUBSET Input
    <3>1. /\ run[r].staged \in Seq(Input \cup {None})
          /\ ToSet(run[r].staged) \subseteq Input
      BY <1>1, SeqDef DEF ToSet
    <3>2. CASE Written(r, "discarded", run[r].staged, r) /\ UNCHANGED forgotten
      BY <1>n, <1>1, <3>1, <3>2, WrittenTypes, QueueTypes
      DEF DiscardRecorded, StateTypes
    <3>3. CASE WriteFails(r) /\ forgotten' = forgotten \cup ToSet(run[r].staged)
      BY <1>n, <1>1, <3>1, <3>3, QueueTypes
      DEF DiscardRecorded, WriteFails, MyTurn, StateTypes
    <3> QED BY <1>n, <3>2, <3>3 DEF DiscardRecorded
  <2>3. /\ run' \in [Runs -> RunRecord] /\ paused' \in BOOLEAN
        /\ active' \in Runs \cup {None} /\ deferred' \in [Tasks -> BOOLEAN]
    BY <1>n, <1>1, EmptySeq
    DEF DiscardRecorded, Deregister, QueuePaused, StateTypes, RunRecord
  <2>4. StateTypes'
    BY <1>n, <1>1, <2>1, <2>2, <2>3 DEF DiscardRecorded, StateTypes
  <2>5. ControlPoints'
    BY <1>n, <1>6 DEF DiscardRecorded, RunPoints, Registered, Promoting
  <2> QED BY <2>4, <2>5
<1>o. CASE RunEndNotified(r)
  <2>1. /\ ControlPoints' /\ run' \in [Runs -> RunRecord]
        /\ active' \in Runs \cup {None} /\ queue' \in Seq(Input)
        /\ started' \in 0 .. MaxRuns /\ deferred' \in [Tasks -> BOOLEAN]
        /\ cancel' \in [Tasks -> {"none", "scheduled", "armed"}]
        /\ fallbackQ' \in Seq(Input) /\ writers' \in Seq(Tasks)
    BY <1>o, <1>1, PromotePendingTypes DEF RunEndNotified
  <2>2. StateTypes'
    BY <1>o, <1>1, <2>1 DEF RunEndNotified, Unchanged4Host, StateTypes
  <2> QED BY <2>1, <2>2
<1> QED
  BY <1>a, <1>b, <1>c, <1>d, <1>e, <1>f, <1>g, <1>h, <1>i, <1>j, <1>k, <1>l,
     <1>m, <1>n, <1>o DEF RunStep

(* Every step of a promotion keeps TypeOK: the entry it records is an input*)
(* because the Run it holds was created for one.                           *)
LEMMA HostStepTypes ==
  ASSUME TypeOK, Promotions, NEW h \in Hosts, HostStep(h)
  PROVE  TypeOK'
<1> USE DEF session, Unchanged4Host, Goto, TypeOK
<1> DEFINE b == promo[h]
<1>1. /\ h \in Tasks /\ run \in [Runs -> RunRecord] /\ started \in Nat
      /\ \A c \in Runs : run[c] \in RunRecord
  BY RuntimeAssumption DEF StateTypes, Tasks
<1>2. /\ pc[h] \in Promoting /\ pc[h] # "absent" /\ b \in Runs
      /\ run[b].carried \in Input
  BY RuntimeAssumption
  DEF HostStep, FallbackActivated, FallbackAbandoned, FallbackGathered,
      FallbackNotified, Yielded, QueuedInputRecorded, QueuedInputKept,
      QueueNotified, QueueGathered, GatherInterrupted, Promoting,
      ControlPoints, Promotions
<1>3. /\ [run EXCEPT ![b].gate = TRUE] \in [Runs -> RunRecord]
      /\ [run EXCEPT ![b] = BarrierFailed(@)] \in [Runs -> RunRecord]
      /\ [run EXCEPT ![b].barrier = IF @ = "pending" THEN "ok" ELSE @]
           \in [Runs -> RunRecord]
      /\ [run EXCEPT ![b] = [BarrierFailed(@) EXCEPT !.gate = TRUE]]
           \in [Runs -> RunRecord]
      /\ [run EXCEPT ![b].barrier = IF @ = "pending" THEN "ok" ELSE @,
                     ![b].gate = deferred[h]] \in [Runs -> RunRecord]
  <2> DEFINE marked == [run[b] EXCEPT !.barrier =
                          IF @ = "pending" THEN "ok" ELSE @]
  <2>1. [run[b] EXCEPT !.gate = TRUE] \in RunRecord BY <1>1, <1>2 DEF RunRecord
  <2>2. BarrierFailed(run[b]) \in RunRecord BY <1>1, <1>2, RecordOps
  <2>3. [BarrierFailed(run[b]) EXCEPT !.gate = TRUE] \in RunRecord
    BY <2>2 DEF RunRecord
  <2>4. marked \in RunRecord BY <1>1, <1>2 DEF RunRecord
  <2>5. [marked EXCEPT !.gate = deferred[h]] \in RunRecord
    <3>1. deferred[h] \in BOOLEAN BY <1>1 DEF StateTypes
    <3> HIDE DEF marked
    <3> QED BY <2>4, <3>1 DEF RunRecord
  <2>6. \A rec \in RunRecord : [run EXCEPT ![b] = rec] \in [Runs -> RunRecord]
    BY <1>1, <1>2
  <2>7. [run EXCEPT ![b] = [marked EXCEPT !.gate = deferred[h]]]
          \in [Runs -> RunRecord]
    BY <2>5, <2>6
  <2> QED BY <1>1, <2>1, <2>2, <2>3, <2>4, <2>6, <2>7
<1>4. ASSUME NEW type \in {"user_message", "activated", "discarded"},
             NEW r \in Runs \cup {None}, Written(h, type, <<run[b].carried>>, r)
      PROVE  /\ writers # <<>> /\ journal' \in Seq(Record) /\ faults' = faults
             /\ Unread \in Seq(Tasks) /\ Append(Unread, h) \in Seq(Tasks)
  <2>1. <<run[b].carried>> \in Seq(Input \cup {None}) BY <1>2
  <2> QED BY <1>1, <1>4, <2>1, WrittenTypes, QueueTypes
<1>5. ASSUME WriteFails(h)
      PROVE  /\ writers # <<>> /\ journal' = journal /\ faults' \in Nat
             /\ Unread \in Seq(Tasks) /\ Append(Unread, h) \in Seq(Tasks)
  BY <1>1, <1>5, QueueTypes DEF WriteFails, MyTurn, StateTypes
<1>6. ASSUME NEW at, AbandonRun(h, at)
      PROVE  cancel' \in [Tasks -> {"none", "scheduled", "armed"}]
  BY <1>1, <1>6 DEF AbandonRun, StateTypes
<1>7. \A x \in BOOLEAN : [deferred EXCEPT ![h] = x] \in [Tasks -> BOOLEAN]
  BY <1>1 DEF StateTypes
<1>8. ASSUME EndHost(h), started' = started
      PROVE  /\ ControlPoints' /\ deferred' \in [Tasks -> BOOLEAN]
             /\ cancel' \in [Tasks -> {"none", "scheduled", "armed"}]
  BY <1>1, <1>2, <1>8, PointsEnd DEF EndHost, StateTypes
<1>a. CASE FallbackActivated(h)
  <2>1. cancel' \in [Tasks -> {"none", "scheduled", "armed"}]
    BY <1>a, <1>1, CancelTypes DEF FallbackActivated
  <2>2. ASSUME Written(h, "activated", <<run[b].carried>>, b),
               run' = [run EXCEPT ![b].barrier =
                         IF @ = "pending" THEN "ok" ELSE @],
               writers' = Unread, UNCHANGED deferred
        PROVE  StateTypes'
    BY <1>a, <1>2, <1>3, <1>4, <2>1, <2>2 DEF FallbackActivated, StateTypes
  <2>3. ASSUME WriteFails(h), run' = [run EXCEPT ![b] = BarrierFailed(@)],
               writers' = Append(Unread, h),
               deferred' = [deferred EXCEPT ![h] = FALSE]
        PROVE  StateTypes'
    BY <1>a, <1>3, <1>5, <1>7, <2>1, <2>3 DEF FallbackActivated, StateTypes
  <2>4. ControlPoints'
    BY <1>a, PointsHost DEF FallbackActivated, Promoting
  <2>5. StateTypes' BY <1>a, <2>2, <2>3 DEF FallbackActivated
  <2> QED BY <2>4, <2>5
<1>b. CASE FallbackAbandoned(h)
  <2>1. cancel' \in [Tasks -> {"none", "scheduled", "armed"}]
    BY <1>b, <1>6 DEF FallbackAbandoned
  <2>2. ASSUME Written(h, "discarded", <<run[b].carried>>,
                       sub[run[b].carried].target), UNCHANGED forgotten
        PROVE  StateTypes'
    <3>1. sub[run[b].carried].target \in Runs \cup {None}
      BY <1>2 DEF StateTypes
    <3> QED
      BY <1>b, <1>3, <1>4, <2>1, <2>2, <3>1 DEF FallbackAbandoned, StateTypes
  <2>3. ASSUME WriteFails(h), forgotten' = forgotten \cup {run[b].carried}
        PROVE  StateTypes'
    BY <1>b, <1>2, <1>3, <1>5, <2>1, <2>3 DEF FallbackAbandoned, StateTypes
  <2>4. ControlPoints'
    BY <1>b, PointsHost DEF FallbackAbandoned, AbandonRun, Promoting
  <2>5. StateTypes' BY <1>b, <2>2, <2>3 DEF FallbackAbandoned
  <2> QED BY <2>4, <2>5
<1>c. CASE FallbackGathered(h) \/ FallbackNotified(h)
  <2>1. PICK runs \in [Runs -> RunRecord] :
          \/ NoPromotion(h, runs) /\ UNCHANGED queue
          \/ TryPromoteQueue(h, runs, paused, maintenance)
    BY <1>c, <1>1, <1>3 DEF FallbackGathered, FallbackNotified
  <2>2. /\ ControlPoints' /\ run' \in [Runs -> RunRecord]
        /\ active' \in Runs \cup {None} /\ queue' \in Seq(Input)
        /\ started' \in 0 .. MaxRuns /\ deferred' \in [Tasks -> BOOLEAN]
        /\ cancel' \in [Tasks -> {"none", "scheduled", "armed"}]
    BY <1>2, <1>8, <2>1, PromoteQueueTypes DEF NoPromotion, StateTypes
  <2>3. StateTypes'
    BY <1>c, <2>2 DEF FallbackGathered, FallbackNotified, StateTypes
  <2> QED BY <2>2, <2>3
<1>d. CASE Yielded(h)
  <2>1. CASE Proceed(h) /\ pc' = [pc EXCEPT ![h] = "journalingQueued"]
             /\ writers' = Append(writers, h) /\ UNCHANGED <<promo, deferred>>
    <3>1. StateTypes'
      BY <1>d, <1>1, <2>1, CancelTypes, QueueTypes DEF Yielded, StateTypes
    <3>2. ControlPoints' BY <1>d, <1>2, <2>1, PointsHost DEF Yielded, Promoting
    <3> QED BY <3>1, <3>2
  <2>2. CASE EndHost(h) /\ UNCHANGED writers
    BY <1>d, <1>8, <2>2 DEF Yielded, StateTypes
  <2> QED BY <1>d, <2>1, <2>2 DEF Yielded
<1>e. CASE QueuedInputRecorded(h)
  <2>1. /\ journal' \in Seq(Record) /\ faults' = faults
        /\ writers' \in Seq(Tasks)
    BY <1>e, <1>2, <1>4 DEF QueuedInputRecorded
  <2>2. run' \in [Runs -> RunRecord] BY <1>e, <1>3 DEF QueuedInputRecorded
  <2>3. CASE EndHost(h)
    BY <1>e, <1>8, <2>1, <2>2, <2>3 DEF QueuedInputRecorded, StateTypes
  <2>4. CASE pc' = [pc EXCEPT ![h] = "notifyingQueued"]
             /\ UNCHANGED <<cancel, promo, deferred>>
    <3>1. StateTypes'
      BY <1>e, <2>1, <2>2, <2>4 DEF QueuedInputRecorded, StateTypes
    <3>2. ControlPoints'
      BY <1>e, <1>2, <2>4, PointsHost DEF QueuedInputRecorded, Promoting
    <3> QED BY <3>1, <3>2
  <2> QED BY <1>e, <2>3, <2>4 DEF QueuedInputRecorded
<1>f. CASE QueuedInputKept(h)
  <2>1. /\ faults' \in Nat /\ journal' = journal /\ writers' \in Seq(Tasks)
        /\ cancel' \in [Tasks -> {"none", "scheduled", "armed"}]
        /\ run' \in [Runs -> RunRecord] /\ deferred' \in [Tasks -> BOOLEAN]
    BY <1>f, <1>3, <1>5, <1>6, <1>7 DEF QueuedInputKept
  <2>2. queue' \in Seq(Input) /\ paused' \in BOOLEAN
    <3>1. <<run[b].carried>> \in Seq(Input) BY <1>2
    <3> QED BY <1>f, <3>1, ConcatProperties
            DEF QueuedInputKept, PutBack, StateTypes
  <2>3. StateTypes' BY <1>f, <2>1, <2>2 DEF QueuedInputKept, StateTypes
  <2>4. ControlPoints'
    BY <1>f, PointsHost DEF QueuedInputKept, AbandonRun, Promoting
  <2> QED BY <2>3, <2>4
<1>g. CASE QueueNotified(h)
  BY <1>g, <1>3, <1>8 DEF QueueNotified, StateTypes
<1>h. CASE QueueGathered(h) \/ GatherInterrupted(h)
  BY <1>h, <1>8 DEF QueueGathered, GatherInterrupted, StateTypes
<1> QED BY <1>a, <1>b, <1>c, <1>d, <1>e, <1>f, <1>g, <1>h DEF HostStep

(* Every step of a submission keeps TypeOK.                                *)
LEMMA SubmissionTypes ==
  ASSUME TypeOK, NEW i \in Input, SubmissionStep(i)
  PROVE  TypeOK'
<1> USE DEF session, history, Unchanged4Sub, Goto, TypeOK
<1> DEFINE r == sub[i].target
<1>1. /\ i \in Tasks /\ run \in [Runs -> RunRecord]
      /\ r \in Runs \cup {None} /\ None \notin Runs
      /\ started' = started /\ promo' = promo
  BY RuntimeAssumption
  DEF StateTypes, Tasks, SubmissionStep, Admit, Refuse, SteerRecorded,
      SteerNotified
<1>2. ASSUME \/ run' = [run EXCEPT ![r].ctl = ReserveSteer(@, i)]
             \/ run' = [run EXCEPT ![r].ctl = MarkReady(@, i)]
             \/ run' = [run EXCEPT ![r].ctl = DiscardSubmission(@, i)]
             \/ run' = run
      PROVE  run' \in [Runs -> RunRecord]
  <2>1. CASE r \in Runs
    <3>1. run[r].ctl \in Control BY <1>1, <2>1 DEF RunRecord
    <3>2. PICK c \in Control : run' = [run EXCEPT ![r].ctl = c] \/ run' = run
      BY <1>2, <3>1, SubmissionOps
    <3>3. [run[r] EXCEPT !.ctl = c] \in RunRecord
      BY <1>1, <2>1, <3>2, ControlSet
    <3>4. [run EXCEPT ![r].ctl = c] = [run EXCEPT ![r] = [run[r] EXCEPT !.ctl = c]]
      BY <1>1, <2>1
    <3> QED BY <1>1, <2>1, <3>2, <3>3, <3>4
  <2>2. CASE r = None
    BY <1>1, <1>2, <2>2
  <2> QED BY <1>1, <2>1, <2>2
<1>3. ASSUME NEW at \in InputPoints, pc' = [pc EXCEPT ![i] = at]
      PROVE  ControlPoints'
  BY <1>1, <1>3, PointsInput
<1>a. CASE Admit(i)
  <2>1. /\ queue' \in Seq(Input) /\ admitted' \in Seq(Input)
        /\ writers' \in Seq(Tasks)
        /\ cancel' \in [Tasks -> {"none", "scheduled", "armed"}]
    <3>1. /\ Append(queue, i) \in Seq(Input) /\ Append(admitted, i) \in Seq(Input)
          /\ Append(writers, i) \in Seq(Tasks)
      BY <1>1, AppendProperties DEF StateTypes
    <3>2. cancel' \in [Tasks -> {"none", "scheduled", "armed"}]
      BY <1>a, <1>1, CancelTypes DEF Admit
    <3> QED BY <1>a, <3>1, <3>2 DEF Admit, StateTypes
  <2>2. run' \in [Runs -> RunRecord] BY <1>a, <1>2 DEF Admit
  <2>3. StateTypes' BY <1>a, <2>1, <2>2 DEF Admit, StateTypes
  <2>4. ControlPoints' BY <1>a, <1>3 DEF Admit, InputPoints, Submitting
  <2> QED BY <2>3, <2>4
<1>b. CASE Refuse(i)
  <2>1. StateTypes' BY <1>b, <1>1, CancelTypes DEF Refuse, StateTypes
  <2>2. ControlPoints' BY <1>b, <1>3 DEF Refuse, InputPoints
  <2> QED BY <2>1, <2>2
<1>c. CASE SteerRecorded(i)
  <2>1. /\ cancel' \in [Tasks -> {"none", "scheduled", "armed"}]
        /\ deferred' \in [Tasks -> BOOLEAN]
    BY <1>c, <1>1, CancelTypes DEF SteerRecorded, StateTypes
  <2>2. run' \in [Runs -> RunRecord] BY <1>c, <1>2 DEF SteerRecorded
  <2>3. journal' \in Seq(Record) /\ faults' \in Nat /\ writers' \in Seq(Tasks)
    <3>1. CASE Written(i, "user_steer", <<i>>, r)
      <4>1. <<i>> \in Seq(Input \cup {None}) OBVIOUS
      <4> QED BY <1>c, <1>1, <3>1, <4>1, WrittenTypes, QueueTypes
              DEF SteerRecorded, StateTypes
    <3>2. CASE WriteFails(i)
      BY <1>c, <1>1, <3>2, QueueTypes
      DEF SteerRecorded, WriteFails, MyTurn, StateTypes
    <3> QED BY <1>c, <3>1, <3>2 DEF SteerRecorded
  <2>4. StateTypes' BY <1>c, <2>1, <2>2, <2>3 DEF SteerRecorded, StateTypes
  <2>5. ControlPoints' BY <1>c, <1>3 DEF SteerRecorded, InputPoints, Submitting
  <2> QED BY <2>4, <2>5
<1>d. CASE SteerNotified(i)
  <2>1. run' \in [Runs -> RunRecord] BY <1>d, <1>2 DEF SteerNotified
  <2>2. StateTypes'
    BY <1>d, <1>1, <2>1, CancelTypes DEF SteerNotified, StateTypes
  <2>3. ControlPoints' BY <1>d, <1>3 DEF SteerNotified, InputPoints
  <2> QED BY <2>2, <2>3
<1> QED BY <1>a, <1>b, <1>c, <1>d DEF SubmissionStep

(* Every operation of the user keeps TypeOK.                               *)
LEMMA UserTypes ==
  ASSUME TypeOK, UserStep
  PROVE  TypeOK'
<1> USE DEF session, history, Unchanged4User, Goto, TypeOK
<1>1. run \in [Runs -> RunRecord] /\ started \in Nat BY DEF StateTypes
<1>a. ASSUME NEW o \in {"user", "application"}, NEW x \in Behaviours,
             StartRun(o, x)
      PROVE  TypeOK'
  <2>1. /\ Next1 \in Runs /\ Next1 = started + 1 /\ Next1 \in Tasks
        /\ Next1 \notin Callers \cup Input
    <3>1. started \in Nat /\ started < MaxRuns BY <1>a, <1>1 DEF StartRun
    <3>2. Next1 \in Runs BY <3>1, RuntimeAssumption DEF Next1, Runs
    <3> QED BY <3>2, RuntimeAssumption DEF Next1, Tasks, Hosts
  <2>2. CreatedRun(o, None, x) \in RunRecord
    BY RuntimeAssumption, CreatedRunType
  <2>3. /\ run' \in [Runs -> RunRecord] /\ active' \in Runs \cup {None}
        /\ started' \in 0 .. MaxRuns
    <3>1. run' \in [Runs -> RunRecord] BY <1>a, <1>1, <2>1, <2>2 DEF StartRun
    <3>2. active' \in Runs BY <1>a, <2>1 DEF StartRun
    <3>3. started' \in 1 .. MaxRuns BY <1>a, <2>1 DEF StartRun, Runs
    <3> QED BY <3>1, <3>2, <3>3
  <2>5. StateTypes' BY <1>a, <2>3 DEF StartRun, StateTypes
  <2>4. ControlPoints'
    BY <1>a, <1>1, <2>1
    DEF StartRun, ControlPoints, RunPoints, Registered, Promoting, Hosts,
        Tasks, Runs
  <2> QED BY <2>4, <2>5
<1>b. ASSUME NEW i \in Input, NEW x \in Behaviours, Submit(i, x)
      PROVE  TypeOK'
  <2>1. sub' \in [Input -> [target : Runs \cup {None},
                           behaviour : {"none", "steer", "queue"}]]
    BY <1>b, RuntimeAssumption DEF Submit, StateTypes
  <2>2. StateTypes' BY <1>b, <2>1 DEF Submit, Unchanged4Sub, StateTypes
  <2>3. ControlPoints'
    BY <1>b, PointsInput DEF Submit, Unchanged4Sub, InputPoints, Submitting
  <2> QED BY <2>2, <2>3
<1>c. ASSUME NEW i \in Input, RemoveQueuedInput(i)
      PROVE  TypeOK'
  <2>1. StateTypes' BY <1>c, QueueTypes DEF RemoveQueuedInput, StateTypes
  <2>2. ControlPoints' BY <1>c, PointsSame DEF RemoveQueuedInput
  <2> QED BY <2>1, <2>2
<1>d. ASSUME NEW c \in Callers, ResumeQueue(c)
      PROVE  TypeOK'
  <2>1. c \in Hosts /\ c \notin Runs BY RuntimeAssumption DEF Hosts
  <2>2. /\ ControlPoints' /\ run' \in [Runs -> RunRecord]
        /\ active' \in Runs \cup {None} /\ queue' \in Seq(Input)
        /\ started' \in 0 .. MaxRuns /\ deferred' \in [Tasks -> BOOLEAN]
        /\ cancel' \in [Tasks -> {"none", "scheduled", "armed"}]
    BY <1>d, <1>1, <2>1, PromoteQueueTypes DEF ResumeQueue
  <2>3. StateTypes' BY <1>d, <2>2 DEF ResumeQueue, StateTypes
  <2> QED BY <2>2, <2>3
<1>e. ASSUME NEW c \in Callers, NEW x \in BOOLEAN, ReserveSession(c, x)
      PROVE  TypeOK'
  <2>1. StateTypes' BY <1>e DEF ReserveSession, StateTypes
  <2>2. ControlPoints' BY <1>e, PointsCaller DEF ReserveSession
  <2> QED BY <2>1, <2>2
<1>f. ASSUME NEW r \in Runs, ApprovalReturns(r) \/ AgentFails(r)
      PROVE  TypeOK'
  BY <1>f, RunStepTypes
<1>g. CASE CancelRun
  <2>1. run' \in [Runs -> RunRecord]
    <3>1. active \in Runs BY <1>g DEF CancelRun, StateTypes
    <3>2. CloseSubmissions(run[active].ctl) \in Control
      BY <1>1, <3>1, ControlOps DEF RunRecord
    <3> DEFINE rec == [[run[active] EXCEPT !.phase = "stopping"]
                         EXCEPT !.ctl = CloseSubmissions(@)]
    <3>5. [run[active] EXCEPT !.phase = "stopping"] \in RunRecord
      BY <1>1, <3>1, <3>2, ControlSet
    <3>3. rec \in RunRecord BY <3>2, <3>5, ControlSet
    <3>4. run' = [run EXCEPT ![active] = rec] BY <1>g, <1>1, <3>1 DEF CancelRun
    <3> HIDE DEF rec
    <3> QED BY <1>1, <3>3, <3>4
  <2>4. cancel' \in [Tasks -> {"none", "scheduled", "armed"}]
    BY <1>g DEF CancelRun, StateTypes
  <2>5. paused' \in BOOLEAN BY <1>g DEF CancelRun, QueuePaused
  <2>6. stops' \in Nat BY <1>g DEF CancelRun, StateTypes
  <2>2. StateTypes' BY <1>g, <2>1, <2>4, <2>5, <2>6 DEF CancelRun, StateTypes
  <2>3. ControlPoints' BY <1>g, PointsSame DEF CancelRun
  <2> QED BY <2>2, <2>3
<1>h. CASE ClearQueue
  <2>1. ToSet(queue) \subseteq Input BY DEF ToSet, StateTypes
  <2>2. StateTypes' BY <1>h, <2>1, EmptySeq DEF ClearQueue, StateTypes
  <2>3. ControlPoints' BY <1>h, PointsSame DEF ClearQueue
  <2> QED BY <2>2, <2>3
<1>i. CASE BeginClose
  <2>1. cancel' \in [Tasks -> {"none", "scheduled", "armed"}]
    BY <1>i DEF BeginClose, StateTypes
  <2>3. shutdown' \in {"open", "closing", "closed"} BY <1>i DEF BeginClose
  <2>4. StateTypes' BY <1>i, <2>1, <2>3 DEF BeginClose, StateTypes
  <2>2. ControlPoints' BY <1>i, PointsSame DEF BeginClose
  <2> QED BY <2>2, <2>4
<1> QED BY <1>a, <1>b, <1>c, <1>d, <1>e, <1>f, <1>g, <1>h, <1>i DEF UserStep

(* The empty Session is well-typed.                                        *)
LEMMA InitTypes == Init => TypeOK
<1> SUFFICES ASSUME Init PROVE TypeOK
  OBVIOUS
<1>1. BlankRun \in RunRecord
  BY EmptySeq, NewControlType DEF BlankRun, RunRecord
<1>2. StateTypes
  <2>1. /\ run \in [Runs -> RunRecord] /\ started \in 0 .. MaxRuns
        /\ cancel \in [Tasks -> {"none", "scheduled", "armed"}]
        /\ deferred \in [Tasks -> BOOLEAN]
    BY <1>1, RuntimeAssumption DEF Init
  <2>2. sub \in [Input -> [target : Runs \cup {None},
                          behaviour : {"none", "steer", "queue"}]]
    BY DEF Init
  <2>3. /\ fallbackQ \in Seq(Input) /\ queue \in Seq(Input)
        /\ journal \in Seq(Record) /\ writers \in Seq(Tasks)
        /\ admitted \in Seq(Input)
    BY EmptySeq DEF Init
  <2> QED BY <2>1, <2>2, <2>3 DEF Init, StateTypes
<1>3. ControlPoints
  <2>1. /\ \A t \in Tasks : pc[t] = IF t \in Runs THEN "absent" ELSE "idle"
        /\ \A c \in Callers : pc[c] = "idle" /\ c \in Tasks
        /\ \A i \in Input : pc[i] = "idle" /\ i \in Tasks
        /\ \A r \in Runs : pc[r] = "absent" /\ r \in Tasks
        /\ pc = [t \in Tasks |-> pc[t]]
    BY RuntimeAssumption DEF Init, Tasks, Hosts
  <2>2. /\ "absent" \in RunPoints /\ "idle" \in CallerPoints
        /\ "idle" \in InputPoints
        /\ "absent" \notin Promoting /\ "idle" \notin Promoting
    BY DEF RunPoints, CallerPoints, InputPoints, Promoting
  <2>3. pc \in [Tasks -> RunPoints \cup CallerPoints \cup InputPoints]
    BY <2>1, <2>2
  <2>4. \A r \in Runs : r > started
    BY RuntimeAssumption DEF Init, Runs
  <2>5. promo \in [Hosts -> Runs \cup {None}] /\ \A h \in Hosts : promo[h] = None
    BY DEF Init
  <2>6. \A h \in Hosts : pc[h] \notin Promoting BY <2>1, <2>2 DEF Hosts
  <2> QED BY <2>1, <2>2, <2>3, <2>4, <2>5, <2>6 DEF ControlPoints
<1> QED BY <1>2, <1>3 DEF TypeOK

(* TypeOK is inductive relative to Promotions.                             *)
LEMMA TypeStep ==
  ASSUME TypeOK, Promotions, [Next]_vars
  PROVE  TypeOK'
<1>1. ASSUME NEW t \in Tasks, AbsorbCancellation(t)
      PROVE  TypeOK'
  <2>1. StateTypes'
    BY <1>1, CancelTypes DEF AbsorbCancellation, session, history, TypeOK, StateTypes
  <2>2. ControlPoints'
    BY <1>1, PointsSame DEF AbsorbCancellation, session, TypeOK
  <2> QED BY <2>1, <2>2 DEF TypeOK
<1>2. ASSUME NEW c \in Callers, ReleaseSession(c)
      PROVE  TypeOK'
  <2>1. c \in Hosts /\ c \notin Runs /\ run \in [Runs -> RunRecord]
    BY RuntimeAssumption DEF Hosts, TypeOK, StateTypes
  <2>2. /\ ControlPoints' /\ run' \in [Runs -> RunRecord]
        /\ active' \in Runs \cup {None} /\ queue' \in Seq(Input)
        /\ started' \in 0 .. MaxRuns /\ deferred' \in [Tasks -> BOOLEAN]
        /\ cancel' \in [Tasks -> {"none", "scheduled", "armed"}]
        /\ fallbackQ' \in Seq(Input) /\ writers' \in Seq(Tasks)
    BY <1>2, <2>1, PromotePendingTypes DEF ReleaseSession
  <2>3. StateTypes'
    BY <1>2, <2>2 DEF ReleaseSession, Unchanged4Host, TypeOK, StateTypes
  <2> QED BY <2>2, <2>3 DEF TypeOK
<1>3. CASE EndClose
  <2>1. StateTypes' BY <1>3, EmptySeq DEF EndClose, history, TypeOK, StateTypes
  <2>2. ControlPoints' BY <1>3, PointsSame DEF EndClose, TypeOK
  <2> QED BY <2>1, <2>2 DEF TypeOK
<1>4. CASE UNCHANGED vars
  BY <1>4 DEF vars, session, history, TypeOK, StateTypes, ControlPoints
<1> QED
  BY <1>1, <1>2, <1>3, <1>4, RunStepTypes, HostStepTypes, SubmissionTypes,
     UserTypes DEF Next, AtRest

-----------------------------------------------------------------------------
(* What a Run was created for stays with it.                               *)
SameIdentity(a, b) == a.origin = b.origin /\ a.carried = b.carried

(* No Run in "runs" differs in its identity from what it is now.           *)
Identities(runs) == \A q \in Runs : SameIdentity(runs[q], run[q])

(* Replacing the record of one Run, keeping its identity.                  *)
LEMMA IdentityReplaced ==
  ASSUME run \in [Runs -> RunRecord], NEW r \in Runs, NEW rec,
         SameIdentity(rec, run[r])
  PROVE  Identities([run EXCEPT ![r] = rec])
BY DEF Identities, SameIdentity

(* The updates of a Run record that the handlers make.                     *)
LEMMA IdentityUpdates ==
  ASSUME NEW rec \in RunRecord, NEW c, NEW s, NEW x
  PROVE  /\ SameIdentity(rec, rec)
         /\ SameIdentity([rec EXCEPT !.ctl = c], rec)
         /\ SameIdentity([rec EXCEPT !.staged = s], rec)
         /\ SameIdentity([rec EXCEPT !.ctl = c, !.staged = s], rec)
         /\ SameIdentity([rec EXCEPT !.ctl = c, !.phase = x], rec)
         /\ SameIdentity([rec EXCEPT !.phase = x], rec)
         /\ SameIdentity([rec EXCEPT !.phase = x, !.ctl = c], rec)
         /\ SameIdentity([rec EXCEPT !.gate = x], rec)
         /\ SameIdentity([rec EXCEPT !.barrier = x], rec)
         /\ SameIdentity([rec EXCEPT !.barrier = x, !.gate = s], rec)
         /\ SameIdentity(BarrierFailed(rec), rec)
         /\ SameIdentity([rec EXCEPT !.barrier = x, !.ctl = c], rec)
BY DEF RunRecord, SameIdentity, BarrierFailed

(* A Run before its tail does not open its own gate either.                *)
SameOrigin(a, b) == SameIdentity(a, b) /\ a.gate = b.gate
Origins(runs) == \A q \in Runs : SameOrigin(runs[q], run[q])

(* Replacing the record of one Run, keeping its origin and gate.           *)
LEMMA OriginReplaced ==
  ASSUME run \in [Runs -> RunRecord], NEW r \in Runs, NEW rec,
         SameOrigin(rec, run[r])
  PROVE  Origins([run EXCEPT ![r] = rec])
BY DEF Origins, SameOrigin, SameIdentity

(* The updates of its record that a Run makes itself.                      *)
LEMMA OriginUpdates ==
  ASSUME NEW rec \in RunRecord, NEW c, NEW s, NEW x
  PROVE  /\ SameOrigin(rec, rec)
         /\ SameOrigin([rec EXCEPT !.ctl = c], rec)
         /\ SameOrigin([rec EXCEPT !.staged = s], rec)
         /\ SameOrigin([rec EXCEPT !.ctl = c, !.staged = s], rec)
         /\ SameOrigin([rec EXCEPT !.ctl = c, !.phase = x], rec)
         /\ SameOrigin([rec EXCEPT !.phase = x], rec)
         /\ SameOrigin([rec EXCEPT !.barrier = x], rec)
         /\ SameOrigin(BarrierFailed(rec), rec)
         /\ SameOrigin([rec EXCEPT !.barrier = x, !.ctl = c], rec)
BY DEF RunRecord, SameOrigin, SameIdentity, BarrierFailed

(* The end of the cleanup keeps the origins of all Runs.                *)
LEMMA OriginSettled ==
  ASSUME run \in [Runs -> RunRecord], NEW r \in Runs, NEW rec \in RunRecord,
         SameOrigin(rec, run[r]), NEW w, Settle(r, rec, w)
  PROVE  Origins(run')
<1> DEFINE a == [rec EXCEPT !.ctl = EmptiedControl(@)]
           b == [a EXCEPT !.staged = Steers(rec.ctl)]
<1>1. SameOrigin(a, run[r])
  BY DEF SameOrigin, SameIdentity, RunRecord
<1>2. SameOrigin(b, run[r])
  BY DEF SameOrigin, SameIdentity, RunRecord
<1>3. run' \in {[run EXCEPT ![r] = a], [run EXCEPT ![r] = rec],
               [run EXCEPT ![r] = b]}
  BY DEF Settle
<1> HIDE DEF a, b
<1> QED BY <1>1, <1>2, <1>3, OriginReplaced

(* So does the "finally" block as a whole.                                 *)
LEMMA OriginConcluded ==
  ASSUME run \in [Runs -> RunRecord], NEW r \in Runs, NEW rec \in RunRecord,
         SameOrigin(rec, run[r]),
         NEW status \in {"completed", "cancelled", "failed"}, NEW w,
         Conclude(r, status, rec, w)
  PROVE  Origins(run')
<1> DEFINE ctl == CloseSubmissions(UnbindStream(rec.ctl))
           ended == [rec EXCEPT !.status = status, !.phase = "stopping",
                                !.ctl = ctl]
<1>1. ctl \in Control
  BY DEF RunRecord, Control, CloseSubmissions, UnbindStream
<1>2. ended \in RunRecord BY <1>1 DEF RunRecord
<1>3. SameOrigin(ended, run[r]) BY DEF SameOrigin, SameIdentity, RunRecord
<1>4. Settle(r, ended, w) \/ run' = [run EXCEPT ![r] = ended] BY DEF Conclude
<1> HIDE DEF ended
<1> QED BY <1>2, <1>3, <1>4, OriginSettled, OriginReplaced

(* So does every step of a Run up to its tail; it creates no Run and       *)
(* moves only itself.                                                      *)
LEMMA IdentityRunStep ==
  ASSUME TypeOK, NEW r \in Runs, RunStep(r) \/ AgentFails(r) \/ ApprovalReturns(r),
         ~RunEndNotified(r)
  PROVE  /\ Origins(run') /\ Identities(run')
         /\ promo' = promo /\ started' = started
         /\ \/ pc' = pc
            \/ pc[r] \notin Promoting /\ \E at : pc' = [pc EXCEPT ![r] = at]
<1>1. /\ run \in [Runs -> RunRecord] /\ run[r] \in RunRecord
      /\ run[r].ctl \in Control
  BY DEF TypeOK, StateTypes, RunRecord
<1>2. \A q \in Runs : SameOrigin(run[q], run[q]) BY DEF SameOrigin, SameIdentity
<1>3. /\ promo' = promo /\ started' = started
  BY DEF RunStep, AgentFails, ApprovalReturns, session, Unchanged4Run,
         CancelCallback, FirstStep, NeverStarted, UserMessageRecorded,
         GateOpens, StreamEnds, BoundaryEmpty, StagingRefused, StageSteers,
         SteersActivated, LoopCompletes, RunCancelled, SubmissionsReady,
         CleanupInterrupted, DiscardRecorded, RunEndInterrupted
<1>4. ASSUME NEW s, NEW rec, NEW w, Conclude(r, s, rec, w) \/ Settle(r, rec, w)
      PROVE  \E at : pc' = [pc EXCEPT ![r] = at]
  BY <1>4 DEF Conclude, Settle, Goto
<1>5. pc' = pc \/ \E at : pc' = [pc EXCEPT ![r] = at]
  <2>1. ASSUME FirstStep(r) \/ GateOpens(r) \/ UserMessageRecorded(r)
               \/ StreamEnds(r) \/ BoundaryEmpty(r) \/ StagingRefused(r)
               \/ SteersActivated(r)
        PROVE  \E at : pc' = [pc EXCEPT ![r] = at]
    BY <1>4, <2>1
    DEF FirstStep, GateOpens, UserMessageRecorded, StreamEnds, BoundaryEmpty,
        StagingRefused, SteersActivated, Leave, Goto
  <2> QED
    BY <1>4, <2>1
    DEF RunStep, AgentFails, ApprovalReturns, Goto, CancelCallback,
        NeverStarted, StageSteers, LoopCompletes, RunCancelled,
        SubmissionsReady, CleanupInterrupted, DiscardRecorded,
        RunEndInterrupted
<1>6. pc[r] \notin Promoting \/ pc' = pc
  <2>1. pc[r] \in Registered \cup {"ending"} \/ CancelCallback(r)
    BY DEF RunStep, AgentFails, ApprovalReturns, AtBoundary, Registered,
           Executing, FirstStep, NeverStarted, UserMessageRecorded,
           GateOpens, StreamEnds, BoundaryEmpty, StagingRefused, StageSteers,
           SteersActivated, LoopCompletes, RunCancelled, SubmissionsReady,
           CleanupInterrupted, DiscardRecorded, RunEndInterrupted
  <2>2. (Registered \cup {"ending"}) \cap Promoting = {}
    BY DEF Registered, Executing, Promoting
  <2> QED BY <2>1, <2>2 DEF CancelCallback
<1>7. Origins(run')
  <2>1. CASE run' = run
    BY <1>2, <2>1 DEF Origins
  <2>2. ASSUME NEW rec, run' = [run EXCEPT ![r] = rec], SameOrigin(rec, run[r])
        PROVE  Origins(run')
    BY <1>1, <2>2, OriginReplaced
  <2>3. ASSUME NEW c, run' = [run EXCEPT ![r].ctl = c]
        PROVE  Origins(run')
    <3>1. SameOrigin([run[r] EXCEPT !.ctl = c], run[r])
      BY <1>1, OriginUpdates
    <3>2. run' = [run EXCEPT ![r] = [run[r] EXCEPT !.ctl = c]]
      BY <1>1, <2>3
    <3> QED BY <2>2, <3>1, <3>2
  <2>4. ASSUME NEW st \in {"completed", "cancelled", "failed"},
               NEW w, NEW rec \in RunRecord, SameOrigin(rec, run[r]),
               Conclude(r, st, rec, w) \/ Settle(r, rec, w)
        PROVE  Origins(run')
    BY <1>1, <2>4, OriginConcluded, OriginSettled
  <2>5. run[r].staged \in Seq(Input) BY <1>1 DEF RunRecord
  <2>6. ASSUME NEW st \in {"completed", "cancelled", "failed"}, NEW w,
               NEW rec \in {run[r], BarrierFailed(run[r])},
               Conclude(r, st, rec, w) \/ Settle(r, rec, w)
        PROVE  Origins(run')
    <3>1. rec \in RunRecord /\ SameOrigin(rec, run[r])
      BY <1>1, RecordOps, OriginUpdates
    <3> QED BY <2>4, <2>6, <3>1
  <2>7. ASSUME run' = [run EXCEPT ![r] = Streaming(@)]
        PROVE  Origins(run')
    <3>1. SameOrigin(Streaming(run[r]), run[r])
      BY <1>1, OriginUpdates DEF Streaming
    <3> QED BY <1>1, <2>2, <2>7, <3>1
  <2>a. CASE CancelCallback(r) \/ NeverStarted(r) \/ CleanupInterrupted(r)
             \/ RunEndInterrupted(r)
    BY <2>1, <2>a DEF CancelCallback, NeverStarted, CleanupInterrupted,
                      RunEndInterrupted
  <2>b. CASE FirstStep(r) \/ GateOpens(r)
    BY <2>1, <2>6, <2>7, <2>b DEF FirstStep, GateOpens
  <2>c. CASE UserMessageRecorded(r)
    <3>1. CASE run' = [run EXCEPT ![r] = Streaming([@ EXCEPT !.barrier = "ok"])]
      <4>1. SameOrigin([run[r] EXCEPT !.barrier = "ok", !.ctl = BindStream(@)], run[r])
        BY <1>1, OriginUpdates
      <4>2. Streaming([run[r] EXCEPT !.barrier = "ok"])
              = [run[r] EXCEPT !.barrier = "ok", !.ctl = BindStream(@)]
        BY <1>1 DEF Streaming, RunRecord
      <4> QED BY <1>1, <2>2, <3>1, <4>1, <4>2
    <3> QED BY <2>6, <2>c, <3>1 DEF UserMessageRecorded
  <2>d. CASE StreamEnds(r)
    <3>1. CASE run' = [run EXCEPT ![r].ctl = UnbindStream(@),
                                  ![r].phase = "waiting_approval"]
      <4>1. SameOrigin([run[r] EXCEPT !.ctl = UnbindStream(@),
                                        !.phase = "waiting_approval"], run[r])
        BY <1>1, OriginUpdates
      <4>2. run' = [run EXCEPT ![r] = [run[r] EXCEPT !.ctl = UnbindStream(@),
                                                     !.phase = "waiting_approval"]]
        BY <1>1, <3>1
      <4> QED BY <2>2, <4>1, <4>2
    <3>2. CASE run' = [run EXCEPT ![r].ctl = UnbindStream(@)]
      <4>1. run' = [run EXCEPT ![r].ctl = UnbindStream(run[r].ctl)]
        BY <1>1, <3>2
      <4> QED BY <2>3, <4>1
    <3> QED BY <2>d, <3>1, <3>2 DEF StreamEnds
  <2>e. CASE ApprovalReturns(r)
    <3> DEFINE x == IF run[r].phase = "waiting_approval" THEN "running"
                    ELSE run[r].phase
    <3>1. run' = [run EXCEPT ![r] = [run[r] EXCEPT !.phase = x]]
      BY <1>1, <2>e DEF ApprovalReturns
    <3>2. SameOrigin([run[r] EXCEPT !.phase = x], run[r])
      BY <1>1, OriginUpdates
    <3> QED BY <2>2, <3>1, <3>2
  <2>f. CASE BoundaryEmpty(r) \/ StagingRefused(r)
    <3>1. PICK c : run' = [run EXCEPT ![r].ctl = c]
      BY <2>f DEF BoundaryEmpty, StagingRefused, Leave
    <3> QED BY <2>3, <3>1
  <2>g. CASE StageSteers(r) \/ DiscardRecorded(r)
    <3>1. PICK s : run' = [run EXCEPT ![r].staged = s]
      BY <2>g DEF StageSteers, DiscardRecorded
    <3>2. run' = [run EXCEPT ![r] = [run[r] EXCEPT !.staged = s]]
      BY <1>1, <3>1
    <3>3. SameOrigin([run[r] EXCEPT !.staged = s], run[r])
      BY <1>1, OriginUpdates
    <3> QED BY <2>2, <3>2, <3>3
  <2>h. CASE SteersActivated(r)
    <3> DEFINE rec == [run[r] EXCEPT !.ctl = MarkStaged(@, Len(run[r].staged)),
                                     !.staged = <<>>]
               unstaged == [run[r] EXCEPT !.staged = <<>>]
    <3>1. MarkStaged(run[r].ctl, Len(run[r].staged)) \in Control
      BY <1>1, <2>5, MarkStagedType
    <3>2. rec \in RunRecord /\ unstaged \in RunRecord
      BY <1>1, <3>1, EmptySeq DEF RunRecord
    <3>3. SameOrigin(rec, run[r]) /\ SameOrigin(unstaged, run[r])
      BY <1>1, OriginUpdates
    <3>4. SameOrigin(Streaming(rec), run[r])
      BY <3>2, <3>3, OriginUpdates DEF Streaming, SameOrigin, SameIdentity
    <3>5. \/ Conclude(r, "cancelled", rec, Unread)
          \/ run' = [run EXCEPT ![r] = Streaming(rec)]
          \/ Conclude(r, "failed", unstaged, Unread)
      BY <2>h DEF SteersActivated
    <3> HIDE DEF rec, unstaged
    <3> QED BY <2>2, <2>4, <3>2, <3>3, <3>4, <3>5
  <2>i. CASE LoopCompletes(r) \/ RunCancelled(r) \/ SubmissionsReady(r)
             \/ AgentFails(r)
    BY <2>6, <2>i DEF LoopCompletes, RunCancelled, SubmissionsReady, AgentFails
  <2> QED
    BY <2>a, <2>b, <2>c, <2>d, <2>e, <2>f, <2>g, <2>h, <2>i DEF RunStep
<1>8. Identities(run') BY <1>7 DEF Origins, SameOrigin, Identities
<1> QED BY <1>3, <1>5, <1>6, <1>7, <1>8

-----------------------------------------------------------------------------
(* A step that creates no Run and moves no promotion between its two kinds *)
(* of await keeps what the promotions hold.                                *)
LEMMA PromotionsKept ==
  ASSUME TypeOK, Promotions, Identities(run'), started' = started,
         \A h \in Hosts : promo'[h] # None =>
           /\ promo'[h] = promo[h]
           /\ pc'[h] \in QueuePromotion <=> pc[h] \in QueuePromotion
  PROVE  Promotions'
BY DEF Promotions, Identities, SameIdentity, TypeOK, ControlPoints

(* The same for a step of one task, when what it holds is unchanged.       *)
LEMMA PromotionsStep ==
  ASSUME TypeOK, ControlPoints', Promotions, Identities(run'),
         started' = started, promo' = promo, NEW t \in Tasks, NEW at,
         pc' = [pc EXCEPT ![t] = at],
         \/ pc[t] \notin Promoting
         \/ pc[t] \in QueuePromotion <=> at \in QueuePromotion
  PROVE  Promotions'
BY PromotionsKept DEF TypeOK, ControlPoints

(* The end of a host keeps what the other promotions hold.                 *)
LEMMA PromotionsEnd ==
  ASSUME TypeOK, Promotions, Identities(run'), started' = started,
         NEW h \in Hosts, EndHost(h)
  PROVE  Promotions'
BY PromotionsKept, RuntimeAssumption
DEF TypeOK, ControlPoints, EndHost, Tasks

(* A promotion holds the Run it has just created for the input it took.    *)
LEMMA PromotionsPromote ==
  ASSUME TypeOK, Promotions, NEW h \in Hosts, h \in Runs => pc[h] # "absent",
         NEW runs \in [Runs -> RunRecord], Identities(runs),
         NEW i \in Input, NEW at \in Promoting,
         NEW origin \in {"steer", "queue"},
         origin = IF at \in QueuePromotion THEN "queue" ELSE "steer",
         Promote(h, origin, i, at, runs)
  PROVE  Promotions'
<1>1. Next1 \in Runs /\ h # Next1 /\ started \in Nat
  BY PointsPromote DEF TypeOK, StateTypes
<1> DEFINE n == Next1
           rec == CreatedRun(origin, i, sub[i].behaviour)
<1>2. /\ run' = [runs EXCEPT ![n] = rec] /\ started' = n
      /\ pc' = [pc EXCEPT ![n] = "created", ![h] = at]
      /\ promo' = [promo EXCEPT ![h] = n]
  BY DEF Promote
<1>3. rec.origin = origin /\ rec.carried = i BY DEF CreatedRun
<1>4. started < n BY <1>1 DEF Next1
<1> HIDE DEF n, rec
<1>5. \A g \in Hosts \ {h} : promo[g] # None => promo[g] <= started
  BY DEF Promotions
<1>6. ASSUME NEW g \in Hosts, promo'[g] # None
      PROVE  /\ promo'[g] <= started' /\ run'[promo'[g]].carried \in Input
             /\ run'[promo'[g]].origin
                  = IF pc'[g] \in QueuePromotion THEN "queue" ELSE "steer"
  <2> USE DEF n
  <2>1. n \in Runs /\ n \in Nat BY <1>1 DEF Runs
  <2> HIDE DEF n
  <2>2. h \in Tasks /\ g \in Tasks BY DEF Tasks
  <2>3. CASE g = h
    <3>1. promo'[g] = n /\ run'[n] = rec
      BY <1>2, <2>1, <2>3 DEF TypeOK, ControlPoints
    <3>2. pc'[g] = at BY <1>2, <2>2, <2>3 DEF TypeOK, ControlPoints
    <3> QED BY <1>2, <1>3, <2>1, <3>1, <3>2
  <2>4. CASE g # h
    <3>1. promo'[g] = promo[g] /\ promo[g] \in Runs
      BY <1>2, <1>6, <2>4 DEF TypeOK, ControlPoints
    <3>2. promo[g] <= started /\ promo[g] # n /\ started \in Nat
      BY <1>1, <1>4, <1>5, <1>6, <2>1, <2>4, <3>1 DEF Runs
    <3>3. run'[promo[g]] = runs[promo[g]] BY <1>2, <3>1, <3>2
    <3>4. g # n
      <4>1. pc[n] = "absent"
        BY <1>4, <2>1, <1>1 DEF TypeOK, ControlPoints, Runs
      <4>2. pc[g] \in Promoting BY <1>6, <3>1 DEF TypeOK, ControlPoints
      <4> QED BY <4>1, <4>2 DEF Promoting
    <3>5. pc'[g] = pc[g] BY <1>2, <2>2, <2>4, <3>4 DEF TypeOK, ControlPoints
    <3>6. promo[g] <= started' BY <1>2, <1>4, <2>1, <3>1, <3>2 DEF Runs
    <3> QED
      BY <1>6, <3>1, <3>3, <3>5, <3>6 DEF Promotions, Identities, SameIdentity
  <2> QED BY <2>3, <2>4
<1> QED BY <1>6 DEF Promotions

(* Serving the queue, or declining to, keeps Promotions.                   *)
LEMMA PromotionsQueue ==
  ASSUME TypeOK, Promotions, NEW h \in Hosts, h \in Runs => pc[h] # "absent",
         NEW runs \in [Runs -> RunRecord], Identities(runs), NEW isPaused,
         NEW holder, TryPromoteQueue(h, runs, isPaused, holder)
  PROVE  Promotions'
<1>1. CASE NoPromotion(h, runs)
  BY <1>1, PromotionsEnd DEF NoPromotion
<1>2. CASE queue # <<>> /\ Promote(h, "queue", Head(queue), "yielding", runs)
  <2>1. Head(queue) \in Input BY <1>2, QueueTypes DEF TypeOK
  <2> QED BY <1>2, <2>1, PromotionsPromote DEF QueuePromotion, Promoting
<1> QED BY <1>1, <1>2 DEF TryPromoteQueue

(* So does serving the steer fallbacks before it.                          *)
LEMMA PromotionsPending ==
  ASSUME TypeOK, Promotions, NEW h \in Hosts, h \in Runs => pc[h] # "absent",
         NEW runs \in [Runs -> RunRecord], Identities(runs), NEW holder,
         TryPromotePending(h, runs, holder)
  PROVE  Promotions'
<1>1. CASE /\ fallbackQ # <<>>
           /\ Promote(h, "steer", Head(fallbackQ), "activatingFallback", runs)
  <2>1. Head(fallbackQ) \in Input BY <1>1, QueueTypes DEF TypeOK
  <2> QED BY <1>1, <2>1, PromotionsPromote DEF QueuePromotion, Promoting
<1>2. CASE NoPromotion(h, runs)
  BY <1>2, PromotionsEnd DEF NoPromotion
<1>3. CASE TryPromoteQueue(h, runs, paused, holder)
  BY <1>3, PromotionsQueue
<1> QED BY <1>1, <1>2, <1>3 DEF TryPromotePending

(* The single updates of a Run record keep the identities of all Runs.     *)
LEMMA IdentitySame ==
  ASSUME TypeOK, run' = run \/ \E r \in Runs :
           \/ \E c : run' = [run EXCEPT ![r].ctl = c]
           \/ \E g : run' = [run EXCEPT ![r].gate = g]
           \/ \E b : run' = [run EXCEPT ![r].barrier = b]
           \/ \E b, g : run' = [run EXCEPT ![r].barrier = b, ![r].gate = g]
           \/ \E c, x : run' = [run EXCEPT ![r].phase = x, ![r].ctl = c]
           \/ run' = [run EXCEPT ![r] = BarrierFailed(@)]
  PROVE  Identities(run')
<1>1. run \in [Runs -> RunRecord] BY DEF TypeOK, StateTypes
<1>2. CASE run' = run BY <1>2 DEF Identities, SameIdentity
<1>3. ASSUME NEW r \in Runs, NEW rec, SameIdentity(rec, run[r]),
             run' = [run EXCEPT ![r] = rec]
      PROVE  Identities(run')
  BY <1>1, <1>3, IdentityReplaced
<1>4. ASSUME NEW r \in Runs, NEW c, run' = [run EXCEPT ![r].ctl = c]
      PROVE  Identities(run')
  <2>1. SameIdentity([run[r] EXCEPT !.ctl = c], run[r])
    BY <1>1, IdentityUpdates
  <2> QED BY <1>1, <1>3, <1>4, <2>1
<1>5. ASSUME NEW r \in Runs, NEW g, run' = [run EXCEPT ![r].gate = g]
      PROVE  Identities(run')
  <2>1. SameIdentity([run[r] EXCEPT !.gate = g], run[r])
    BY <1>1, IdentityUpdates
  <2> QED BY <1>1, <1>3, <1>5, <2>1
<1>6. ASSUME NEW r \in Runs, NEW b, run' = [run EXCEPT ![r].barrier = b]
      PROVE  Identities(run')
  <2>1. SameIdentity([run[r] EXCEPT !.barrier = b], run[r])
    BY <1>1, IdentityUpdates
  <2> QED BY <1>1, <1>3, <1>6, <2>1
<1>7. ASSUME NEW r \in Runs, NEW b, NEW g,
             run' = [run EXCEPT ![r].barrier = b, ![r].gate = g]
      PROVE  Identities(run')
  <2>1. SameIdentity([run[r] EXCEPT !.barrier = b, !.gate = g], run[r])
    BY <1>1, IdentityUpdates
  <2>2. run' = [run EXCEPT ![r] = [run[r] EXCEPT !.barrier = b, !.gate = g]]
    BY <1>1, <1>7
  <2> QED BY <1>3, <2>1, <2>2
<1>8. ASSUME NEW r \in Runs, NEW c, NEW x,
             run' = [run EXCEPT ![r].phase = x, ![r].ctl = c]
      PROVE  Identities(run')
  <2>1. SameIdentity([run[r] EXCEPT !.phase = x, !.ctl = c], run[r])
    BY <1>1, IdentityUpdates
  <2>2. run' = [run EXCEPT ![r] = [run[r] EXCEPT !.phase = x, !.ctl = c]]
    BY <1>1, <1>8
  <2> QED BY <1>3, <2>1, <2>2
<1>9. ASSUME NEW r \in Runs, run' = [run EXCEPT ![r] = BarrierFailed(@)]
      PROVE  Identities(run')
  <2>1. SameIdentity(BarrierFailed(run[r]), run[r])
    BY <1>1, IdentityUpdates
  <2> QED BY <1>1, <1>3, <1>9, <2>1
<1> QED BY <1>2, <1>4, <1>5, <1>6, <1>7, <1>8, <1>9

(* Every step of a promotion keeps Promotions.                             *)
LEMMA PromotionsHostStep ==
  ASSUME TypeOK, ControlPoints', Promotions, NEW h \in Hosts, HostStep(h)
  PROVE  Promotions'
<1> USE DEF session, Goto
<1>1. /\ run \in [Runs -> RunRecord] /\ h \in Tasks
      /\ promo \in [Hosts -> Runs \cup {None}]
      /\ h \in Runs => pc[h] # "absent"
  <2>1. pc[h] \in Promoting
    BY DEF Promoting, HostStep, FallbackActivated, FallbackAbandoned,
           FallbackGathered, FallbackNotified, Yielded, QueuedInputRecorded,
           QueuedInputKept, QueueNotified, QueueGathered, GatherInterrupted
  <2> QED BY <2>1 DEF TypeOK, StateTypes, ControlPoints, Tasks, Promoting
<1>2. pc[h] \in Promoting => promo[h] \in Runs
  BY <1>1 DEF TypeOK, ControlPoints
<1>3. ASSUME EndHost(h), Identities(run'), started' = started
      PROVE  Promotions'
  BY <1>3, PromotionsEnd
<1>4. ASSUME NEW at, pc' = [pc EXCEPT ![h] = at], Identities(run'),
             started' = started, promo' = promo,
             pc[h] \in QueuePromotion <=> at \in QueuePromotion
      PROVE  Promotions'
  BY <1>1, <1>4, PromotionsStep
<1>a. CASE FallbackActivated(h)
  <2>1. promo[h] \in Runs BY <1>2, <1>a DEF FallbackActivated, Promoting
  <2>2. Identities(run')
    <3>1. \/ \E b : run' = [run EXCEPT ![promo[h]].barrier = b]
          \/ run' = [run EXCEPT ![promo[h]] = BarrierFailed(@)]
      BY <1>a DEF FallbackActivated
    <3> QED BY <2>1, <3>1, IdentitySame
  <2>3. PICK at \in {"notifyingFallback", "abandoning"} :
          pc' = [pc EXCEPT ![h] = at]
    BY <1>a DEF FallbackActivated
  <2> QED
    BY <1>a, <1>4, <2>2, <2>3
    DEF FallbackActivated, QueuePromotion, Unchanged4Host
<1>b. CASE FallbackAbandoned(h)
  <2>1. promo[h] \in Runs BY <1>2, <1>b DEF FallbackAbandoned, Promoting
  <2>2. Identities(run')
    BY <1>b, <2>1, IdentitySame DEF FallbackAbandoned
  <2> QED
    BY <1>b, <1>4, <2>2
    DEF FallbackAbandoned, AbandonRun, QueuePromotion, Unchanged4Host
<1>c. CASE FallbackGathered(h)
  <2>1. Identities(run) BY DEF Identities, SameIdentity
  <2>2. CASE NoPromotion(h, run) BY <1>3, <2>1, <2>2 DEF NoPromotion
  <2>3. CASE TryPromoteQueue(h, run, paused, maintenance)
    BY <1>1, <2>1, <2>3, PromotionsQueue
  <2> QED BY <1>c, <2>2, <2>3 DEF FallbackGathered
<1>d. CASE FallbackNotified(h)
  <2> DEFINE runs == [run EXCEPT ![promo[h]].gate = TRUE]
  <2>1. promo[h] \in Runs BY <1>2, <1>d DEF FallbackNotified, Promoting
  <2>2. Identities(runs) /\ runs \in [Runs -> RunRecord]
    <3>1. runs = [run EXCEPT ![promo[h]] = [run[promo[h]] EXCEPT !.gate = TRUE]]
      BY <1>1, <2>1
    <3>2. SameIdentity([run[promo[h]] EXCEPT !.gate = TRUE], run[promo[h]])
      BY <1>1, <2>1, IdentityUpdates
    <3>3. [run[promo[h]] EXCEPT !.gate = TRUE] \in RunRecord
      BY <1>1, <2>1, GateSet
    <3> QED BY <1>1, <2>1, <3>1, <3>2, <3>3, IdentityReplaced
  <2>3. NoPromotion(h, runs) \/ TryPromoteQueue(h, runs, paused, maintenance)
    BY <1>d DEF FallbackNotified
  <2> HIDE DEF runs
  <2>4. CASE NoPromotion(h, runs) BY <1>3, <2>2, <2>4 DEF NoPromotion
  <2>5. CASE TryPromoteQueue(h, runs, paused, maintenance)
    BY <1>1, <2>2, <2>5, PromotionsQueue
  <2> QED BY <2>3, <2>4, <2>5
<1>e. CASE Yielded(h) \/ QueueGathered(h) \/ GatherInterrupted(h)
  <2>1. Identities(run') /\ started' = started
    BY <1>e, IdentitySame DEF Yielded, QueueGathered, GatherInterrupted
  <2>2. CASE EndHost(h) BY <1>3, <2>1, <2>2
  <2>3. CASE Yielded(h) /\ ~EndHost(h)
    BY <1>4, <2>1, <2>3 DEF Yielded, QueuePromotion
  <2> QED
    BY <1>e, <2>2, <2>3 DEF QueueGathered, GatherInterrupted
<1>f. CASE QueuedInputRecorded(h)
  <2>1. promo[h] \in Runs BY <1>2, <1>f DEF QueuedInputRecorded, Promoting
  <2>2. Identities(run')
    <3>1. \E b, g : run' = [run EXCEPT ![promo[h]].barrier = b,
                                     ![promo[h]].gate = g]
      BY <1>f DEF QueuedInputRecorded
    <3> QED BY <2>1, <3>1, IdentitySame
  <2>3. CASE EndHost(h) BY <1>f, <1>3, <2>2, <2>3 DEF QueuedInputRecorded
  <2>4. CASE ~EndHost(h)
    BY <1>f, <1>4, <2>2, <2>4 DEF QueuedInputRecorded, QueuePromotion
  <2> QED BY <2>3, <2>4
<1>g. CASE QueuedInputKept(h)
  <2>1. promo[h] \in Runs BY <1>2, <1>g DEF QueuedInputKept, Promoting
  <2>2. Identities(run')
    <3> DEFINE b == promo[h]
               rec == [BarrierFailed(run[b]) EXCEPT !.gate = TRUE]
    <3>1. run' = [run EXCEPT ![b] = rec]
      BY <1>1, <1>g, <2>1 DEF QueuedInputKept
    <3>2. BarrierFailed(run[b]) \in RunRecord BY <1>1, <2>1, RecordOps
    <3>3. SameIdentity(rec, BarrierFailed(run[b])) BY <3>2, IdentityUpdates
    <3>4. SameIdentity(BarrierFailed(run[b]), run[b])
      BY <1>1, <2>1, IdentityUpdates
    <3>5. SameIdentity(rec, run[b]) BY <3>3, <3>4 DEF SameIdentity
    <3> QED BY <1>1, <2>1, <3>1, <3>5, IdentityReplaced
  <2> QED
    BY <1>g, <1>4, <2>2 DEF QueuedInputKept, AbandonRun, QueuePromotion
<1>h. CASE QueueNotified(h)
  <2>1. promo[h] \in Runs BY <1>2, <1>h DEF QueueNotified, Promoting
  <2>2. Identities(run') BY <1>h, <2>1, IdentitySame DEF QueueNotified
  <2> QED BY <1>h, <1>3, <2>2 DEF QueueNotified
<1> QED
  BY <1>a, <1>b, <1>c, <1>d, <1>e, <1>f, <1>g, <1>h DEF HostStep

(* So does every step of a submission.                                     *)
LEMMA PromotionsSubmission ==
  ASSUME TypeOK, ControlPoints', Promotions, NEW i \in Input, SubmissionStep(i)
  PROVE  Promotions'
<1> USE DEF Unchanged4Sub, Goto
<1>1. /\ i \in Tasks /\ pc[i] \notin Promoting
      /\ promo' = promo /\ started' = started
  <2>1. pc[i] \in Submitting
    BY DEF SubmissionStep, Admit, Refuse, SteerRecorded, SteerNotified,
           Submitting
  <2>2. promo' = promo /\ started' = started
    BY DEF SubmissionStep, Admit, Refuse, SteerRecorded, SteerNotified
  <2> QED BY <2>1, <2>2 DEF Submitting, Promoting, Tasks
<1>2. \E at : pc' = [pc EXCEPT ![i] = at]
  BY DEF SubmissionStep, Admit, Refuse, SteerRecorded, SteerNotified
<1>3. run' = run \/ \E c : run' = [run EXCEPT ![sub[i].target].ctl = c]
  BY DEF SubmissionStep, Admit, Refuse, SteerRecorded, SteerNotified
<1>4. CASE sub[i].target \in Runs
  BY <1>1, <1>2, <1>3, <1>4, IdentitySame, PromotionsStep
<1>5. CASE sub[i].target \notin Runs
  <2>1. run' = run BY <1>3, <1>5 DEF TypeOK, StateTypes
  <2> QED BY <1>1, <1>2, <2>1, IdentitySame, PromotionsStep
<1> QED BY <1>4, <1>5

(* So does every operation of the user.                                    *)
LEMMA PromotionsUser ==
  ASSUME TypeOK, TypeOK', Promotions, UserStep
  PROVE  Promotions'
<1> USE DEF Goto
<1>1. ASSUME promo' = promo, started' = started, Identities(run'), pc' = pc
      PROVE  Promotions'
  BY <1>1, PromotionsKept
<1>2. ASSUME NEW t \in Tasks, pc[t] \notin Promoting, promo' = promo,
             started' = started, Identities(run'),
             \E at : pc' = [pc EXCEPT ![t] = at]
      PROVE  Promotions'
  BY <1>2, PromotionsStep DEF TypeOK
<1>a. ASSUME NEW o \in {"user", "application"}, NEW x \in Behaviours,
             StartRun(o, x)
      PROVE  Promotions'
  <2> DEFINE n == Next1
             rec == CreatedRun(o, None, x)
  <2>1. /\ promo' = promo /\ started' = n
        /\ run' = [run EXCEPT ![n] = rec] /\ pc' = [pc EXCEPT ![n] = "created"]
    BY <1>a DEF StartRun
  <2>2. n = started + 1 /\ started \in Nat BY DEF Next1, TypeOK, StateTypes
  <2>3. /\ run \in [Runs -> RunRecord] /\ promo \in [Hosts -> Runs \cup {None}]
        /\ \A h \in Hosts : pc'[h] \in Promoting <=> promo[h] # None
        /\ \A h \in Hosts : pc[h] \in Promoting <=> promo[h] # None
    BY <2>1 DEF TypeOK, StateTypes, ControlPoints
  <2> HIDE DEF n, rec
  <2>4. ASSUME NEW h \in Hosts, promo'[h] # None
        PROVE  /\ promo'[h] <= started' /\ run'[promo'[h]] = run[promo[h]]
               /\ pc'[h] = pc[h]
    <3>1. promo[h] \in Runs /\ promo[h] <= started
      BY <2>1, <2>3, <2>4 DEF Promotions
    <3>2. promo[h] # n /\ promo[h] <= n BY <2>2, <3>1 DEF Runs
    <3>3. h # n
      BY <2>1, <2>3, <2>4 DEF Promoting, TypeOK, ControlPoints, Tasks
    <3> QED BY <2>1, <2>3, <3>1, <3>2, <3>3 DEF TypeOK, ControlPoints, Tasks
  <2> QED BY <2>1, <2>4 DEF Promotions
<1>b. ASSUME NEW i \in Input, NEW x \in Behaviours, Submit(i, x)
      PROVE  Promotions'
  <2>1. i \in Tasks /\ pc[i] \notin Promoting
    BY <1>b DEF Submit, Promoting, Tasks
  <2> QED BY <1>b, <1>2, <2>1, IdentitySame DEF Submit, Unchanged4Sub
<1>c. ASSUME NEW i \in Input, RemoveQueuedInput(i)
      PROVE  Promotions'
  BY <1>c, <1>1, IdentitySame DEF RemoveQueuedInput
<1>d. ASSUME NEW c \in Callers, ResumeQueue(c)
      PROVE  Promotions'
  <2>1. c \in Hosts /\ c \notin Runs BY RuntimeAssumption DEF Hosts
  <2>2. Identities(run) /\ run \in [Runs -> RunRecord]
    BY DEF Identities, SameIdentity, TypeOK, StateTypes
  <2> QED BY <1>d, <2>1, <2>2, PromotionsQueue DEF ResumeQueue
<1>e. ASSUME NEW c \in Callers, NEW x \in BOOLEAN, ReserveSession(c, x)
      PROVE  Promotions'
  <2>1. c \in Tasks /\ pc[c] \notin Promoting
    BY <1>e DEF ReserveSession, Promoting, Tasks, Hosts
  <2> QED BY <1>e, <1>2, <2>1, IdentitySame DEF ReserveSession
<1>f. ASSUME NEW r \in Runs, ApprovalReturns(r) \/ AgentFails(r)
      PROVE  Promotions'
  <2>1. ~RunEndNotified(r)
    BY <1>f DEF ApprovalReturns, AgentFails, AtBoundary, RunEndNotified
  <2>2. r \in Tasks BY DEF Tasks, Hosts
  <2> QED BY <1>1, <1>2, <1>f, <2>1, <2>2, IdentityRunStep
<1>g. CASE CancelRun
  <2>1. active \in Runs /\ run \in [Runs -> RunRecord]
    BY <1>g DEF CancelRun, TypeOK, StateTypes
  <2>2. \E c : run' = [run EXCEPT ![active].phase = "stopping",
                                  ![active].ctl = c]
    <3>1. run' = [run EXCEPT ![active].phase = "stopping",
                    ![active].ctl = CloseSubmissions(run[active].ctl)]
      BY <1>g, <2>1 DEF CancelRun
    <3> QED BY <3>1
  <2> QED BY <1>g, <1>1, <2>1, <2>2, IdentitySame DEF CancelRun
<1>h. CASE ClearQueue \/ BeginClose
  BY <1>h, <1>1, IdentitySame DEF ClearQueue, BeginClose
<1> QED BY <1>a, <1>b, <1>c, <1>d, <1>e, <1>f, <1>g, <1>h DEF UserStep

(* Promotions is inductive relative to TypeOK.                             *)
LEMMA PromotionsNext ==
  ASSUME TypeOK, TypeOK', Promotions, [Next]_vars
  PROVE  Promotions'
<1>1. /\ run \in [Runs -> RunRecord] /\ Identities(run) /\ ControlPoints'
  BY DEF TypeOK, StateTypes, Identities, SameIdentity
<1>2. ASSUME promo' = promo, started' = started, run' = run, pc' = pc
      PROVE  Promotions'
  BY <1>1, <1>2, PromotionsKept
<1>a. ASSUME NEW r \in Runs, RunStep(r)
      PROVE  Promotions'
  <2>1. r \in Hosts /\ r \in Tasks BY DEF Hosts, Tasks
  <2>2. CASE RunEndNotified(r)
    BY <1>1, <2>1, <2>2, PromotionsPending DEF RunEndNotified
  <2>3. CASE ~RunEndNotified(r)
    <3>1. CASE pc' = pc
      BY <1>a, <2>3, <3>1, IdentityRunStep, PromotionsKept
    <3>2. CASE pc' # pc
      BY <1>1, <1>a, <2>1, <2>3, <3>2, IdentityRunStep, PromotionsStep
    <3> QED BY <3>1, <3>2
  <2> QED BY <2>2, <2>3
<1>b. ASSUME NEW h \in Hosts, HostStep(h)
      PROVE  Promotions'
  BY <1>1, <1>b, PromotionsHostStep
<1>c. ASSUME NEW i \in Input, SubmissionStep(i)
      PROVE  Promotions'
  BY <1>1, <1>c, PromotionsSubmission
<1>d. ASSUME NEW t \in Tasks, AbsorbCancellation(t)
      PROVE  Promotions'
  BY <1>2, <1>d DEF AbsorbCancellation
<1>e. ASSUME NEW c \in Callers, ReleaseSession(c)
      PROVE  Promotions'
  <2>1. c \in Hosts /\ c \notin Runs BY RuntimeAssumption DEF Hosts
  <2> QED BY <1>1, <1>e, <2>1, PromotionsPending DEF ReleaseSession
<1>f. CASE EndClose \/ UNCHANGED vars
  BY <1>2, <1>f DEF EndClose, vars
<1>g. CASE UserStep
  BY <1>g, PromotionsUser
<1> QED
  BY <1>a, <1>b, <1>c, <1>d, <1>e, <1>f, <1>g DEF Next, AtRest

-----------------------------------------------------------------------------
(* In every reachable state, whatever the bounds, the tasks, controls,     *)
(* queues and records are of their types and a promotion has its Run       *)
(* exactly while its host waits on that Run's behalf.  TypeOK is not       *)
(* inductive alone: the journal entry a promotion writes is of its type    *)
(* because the Run it holds was created for an input (Promotions).         *)
THEOREM TypeCorrect == Spec => [](TypeOK /\ Promotions)
<1>1. Init => TypeOK /\ Promotions
  BY InitTypes DEF Init, Promotions
<1>2. TypeOK /\ Promotions /\ [Next]_vars => TypeOK' /\ Promotions'
  BY TypeStep, PromotionsNext
<1> QED BY <1>1, <1>2, PTL DEF Spec

-----------------------------------------------------------------------------
(***************************************************************************)
(* The Session belongs to one operation at a time, for every number of     *)
(* Runs, callers and inputs.  Every step of the Runtime has one of six     *)
(* shapes, as far as the registry, the maintenance set and the tasks that  *)
(* have the Session are concerned; each shape keeps MutualExclusion, and   *)
(* each is a step of the abstract lease or a stutter.                      *)
(***************************************************************************)

Held == Registered \ {"aborted"}
Over == Promoting \cup {"ending", "done", "aborted"}

(* One task goes on.  A Run keeps what it has, or gives it up for good,    *)
(* and only a Run that gives it up leaves the registry.                    *)
Moves(t, at) ==
  /\ pc' = [pc EXCEPT ![t] = at] /\ maintenance' = maintenance
  /\ active' = active \/ (t \in Runs /\ at \in Over
                          /\ active' = IF active = t THEN None ELSE active)
  /\ t \in Runs => \/ pc[t] \in Held /\ at \in Held \cup Over
                   \/ pc[t] \in Over /\ at \in Over
  /\ t \in Callers => pc[t] # "reserved" /\ at # "reserved"

Starts(n) ==
  /\ n \in Runs /\ pc[n] = "absent"
  /\ active = None /\ active' = n /\ maintenance = None /\ maintenance' = None
  /\ pc' = [pc EXCEPT ![n] = "created"]

(* Host h registers Run n, and ends its maintenance operation if it has    *)
(* one.                                                                    *)
Opens(h, n, at) ==
  /\ n \in Runs /\ pc[n] = "absent" /\ n # h
  /\ active = None /\ active' = n /\ maintenance' = None
  /\ pc' = [pc EXCEPT ![n] = "created", ![h] = at] /\ at \in Promoting
  /\ \/ maintenance = None /\ h \in Runs /\ pc[h] \in Over
     \/ maintenance = None /\ h \in Callers /\ pc[h] # "reserved"
     \/ h \in Callers /\ pc[h] = "reserved"

Reserves(c) ==
  /\ c \in Callers /\ pc[c] = "idle"
  /\ active = None /\ active' = None /\ maintenance = None
  /\ maintenance' = c /\ pc' = [pc EXCEPT ![c] = "reserved"]

Releases(c) ==
  /\ c \in Callers /\ pc[c] = "reserved" /\ active' = active
  /\ maintenance' = None /\ pc' = [pc EXCEPT ![c] = "idle"]

Rests ==
  /\ pc' = pc /\ maintenance' = maintenance
  /\ active' = active \/ (active' = None /\ \A r \in Runs : pc[r] \notin Held)

Shape ==
  \/ \E t \in Tasks : \E at : Moves(t, at)
  \/ \E n \in Runs : Starts(n)
  \/ \E h \in Hosts, n \in Runs : \E at : Opens(h, n, at)
  \/ \E c \in Callers : Reserves(c) \/ Releases(c)
  \/ Rests

(* No shape puts a second owner beside the one there is.                   *)
LEMMA ExclusionStep ==
  ASSUME TypeOK, MutualExclusion, Shape
  PROVE  MutualExclusion'
<1>1. /\ pc \in [Tasks -> RunPoints \cup CallerPoints \cup InputPoints]
      /\ active \in Runs \cup {None} /\ maintenance \in Callers \cup {None}
      /\ Runs \subseteq Tasks /\ Callers \subseteq Tasks /\ None \notin Runs
      /\ None \notin Callers /\ Runs \cap Callers = {} /\ Held \cap Over = {}
      /\ Promoting \subseteq Over /\ "reserved" \notin Over
      /\ "absent" \notin Held
  BY RuntimeAssumption
  DEF TypeOK, StateTypes, ControlPoints, Tasks, Hosts, Held, Over, Registered,
      Executing, Promoting
<1>2. /\ \A r \in Runs : pc[r] \in Held => active = r
      /\ \A c \in Callers : pc[c] = "reserved" => maintenance = c
      /\ active # None => maintenance = None
  BY DEF MutualExclusion, Held
<1> SUFFICES /\ \A r \in Runs : pc'[r] \in Held => active' = r
             /\ \A c \in Callers : pc'[c] = "reserved" => maintenance' = c
             /\ active' # None => maintenance' = None
  BY DEF MutualExclusion, Held
<1>a. ASSUME NEW t \in Tasks, NEW at, Moves(t, at)
      PROVE  /\ \A r \in Runs : pc'[r] \in Held => active' = r
             /\ \A c \in Callers : pc'[c] = "reserved" => maintenance' = c
             /\ active' # None => maintenance' = None
  BY <1>a, <1>1, <1>2 DEF Moves
<1>b. ASSUME NEW n \in Runs, Starts(n)
      PROVE  /\ \A r \in Runs : pc'[r] \in Held => active' = r
             /\ \A c \in Callers : pc'[c] = "reserved" => maintenance' = c
             /\ active' # None => maintenance' = None
  BY <1>b, <1>1, <1>2 DEF Starts
<1>c. ASSUME NEW h \in Hosts, NEW n \in Runs, NEW at, Opens(h, n, at)
      PROVE  /\ \A r \in Runs : pc'[r] \in Held => active' = r
             /\ \A c \in Callers : pc'[c] = "reserved" => maintenance' = c
             /\ active' # None => maintenance' = None
  BY <1>c, <1>1, <1>2 DEF Opens, Hosts
<1>d. ASSUME NEW c \in Callers, Reserves(c) \/ Releases(c)
      PROVE  /\ \A r \in Runs : pc'[r] \in Held => active' = r
             /\ \A d \in Callers : pc'[d] = "reserved" => maintenance' = d
             /\ active' # None => maintenance' = None
  BY <1>d, <1>1, <1>2 DEF Reserves, Releases
<1>e. CASE Rests
  BY <1>e, <1>1, <1>2 DEF Rests
<1> QED BY <1>a, <1>b, <1>c, <1>d, <1>e DEF Shape

-----------------------------------------------------------------------------
(* Every shape is a step of the abstract lease.                            *)
LEMMA LeaseStep ==
  ASSUME TypeOK, MutualExclusion, Shape
  PROVE  [Lease!Next]_(Lease!lease)
<1> DEFINE O == LeaseOwners
           F == LeaseFinished
<1>1. /\ pc \in [Tasks -> RunPoints \cup CallerPoints \cup InputPoints]
      /\ active \in Runs \cup {None} /\ maintenance \in Callers \cup {None}
      /\ Runs \subseteq Tasks /\ Callers \subseteq Tasks /\ None \notin Runs
      /\ None \notin Callers /\ Runs \cap Callers = {} /\ Held \cap Over = {}
      /\ Promoting \subseteq Over /\ "reserved" \notin Over
      /\ "absent" \notin Held /\ "absent" \notin Over /\ "created" \in Held
  BY RuntimeAssumption
  DEF TypeOK, StateTypes, ControlPoints, Tasks, Hosts, Held, Over, Registered,
      Executing, Promoting
<1>2. /\ \A r \in Runs : pc[r] \in Held => active = r
      /\ \A c \in Callers : pc[c] = "reserved" => maintenance = c
      /\ active # None => maintenance = None
  BY DEF MutualExclusion, Held
<1>3. /\ O = {r \in Runs : pc[r] \in Held}
               \cup {c \in Callers : pc[c] = "reserved"}
      /\ O' = {r \in Runs : pc'[r] \in Held}
               \cup {c \in Callers : pc'[c] = "reserved"}
      /\ F = {r \in Runs : pc[r] \in Over}
      /\ F' = {r \in Runs : pc'[r] \in Over}
  BY DEF LeaseOwners, LeaseFinished, Held, Over
<1> HIDE DEF O, F
<1>4. O' = O /\ F' = F => UNCHANGED Lease!lease
  BY DEF O, F, Lease!lease
<1>6. ASSUME NEW o \in Runs \cup Callers,
             \/ O = {} /\ o \notin F /\ O' = {o} /\ F' = F
             \/ O = {o} /\ O' = {} /\ F' = F \cup ({o} \cap Runs)
      PROVE  Lease!Next
  <2>1. Lease!Acquire(o) \/ Lease!Release(o)
    BY <1>6 DEF O, F, Lease!Acquire, Lease!Release
  <2> QED BY <2>1 DEF Lease!Next
<1>7. ASSUME NEW o \in Callers, NEW q \in Runs, q \notin F, O = {o}, O' = {q},
             F' = F
      PROVE  Lease!Next
  <2>1. Lease!PassOn(o, q) BY <1>1, <1>7 DEF O, F, Lease!PassOn
  <2> QED BY <2>1 DEF Lease!Next
<1>5. active = None /\ maintenance = None => O = {} BY <1>1, <1>2, <1>3
<1>a. ASSUME NEW t \in Tasks, NEW at, Moves(t, at)
      PROVE  [Lease!Next]_(Lease!lease)
  <2>1. CASE t \in Runs /\ pc[t] \in Held /\ at \in Over
    <3>1. O = {t} BY <1>1, <1>2, <1>3, <2>1
    <3>2. O' = {} /\ F' = F \cup ({t} \cap Runs)
      BY <1>a, <1>1, <1>2, <1>3, <2>1 DEF Moves
    <3> QED BY <1>6, <2>1, <3>1, <3>2
  <2>2. CASE ~(t \in Runs /\ pc[t] \in Held /\ at \in Over)
    <3>1. O' = O /\ F' = F BY <1>a, <1>1, <1>3, <2>2 DEF Moves
    <3> QED BY <1>4, <3>1
  <2> QED BY <2>1, <2>2
<1>b. ASSUME NEW n \in Runs, Starts(n)
      PROVE  Lease!Next
  <2>1. O = {} /\ n \notin F BY <1>b, <1>1, <1>3, <1>5 DEF Starts
  <2>2. O' = {n} /\ F' = F BY <1>b, <1>1, <1>2, <1>3 DEF Starts
  <2> QED BY <1>6, <2>1, <2>2
<1>c. ASSUME NEW h \in Hosts, NEW n \in Runs, NEW at, Opens(h, n, at)
      PROVE  Lease!Next
  <2>1. n \notin F BY <1>c, <1>1, <1>3 DEF Opens
  <2>2. O' = {n} /\ F' = F BY <1>c, <1>1, <1>2, <1>3 DEF Opens, Hosts
  <2>3. CASE maintenance = None /\ pc[h] # "reserved"
    BY <1>c, <1>5, <1>6, <2>1, <2>2, <2>3 DEF Opens
  <2>4. CASE h \in Callers /\ pc[h] = "reserved"
    <3>1. O = {h} BY <1>c, <1>1, <1>2, <1>3, <2>4 DEF Opens
    <3> QED BY <1>7, <2>1, <2>2, <2>4, <3>1
  <2> QED BY <1>c, <1>1, <2>3, <2>4 DEF Opens
<1>d. ASSUME NEW c \in Callers, Reserves(c)
      PROVE  Lease!Next
  <2>1. O = {} /\ c \notin F BY <1>d, <1>1, <1>3, <1>5 DEF Reserves
  <2>2. O' = {c} /\ F' = F BY <1>d, <1>1, <1>2, <1>3 DEF Reserves
  <2> QED BY <1>6, <2>1, <2>2
<1>e. ASSUME NEW c \in Callers, Releases(c)
      PROVE  Lease!Next
  <2>1. O = {c} BY <1>e, <1>1, <1>2, <1>3 DEF Releases
  <2>2. O' = {} /\ F' = F /\ {c} \cap Runs = {}
    BY <1>e, <1>1, <1>2, <1>3, <2>1 DEF Releases
  <2> QED BY <1>6, <2>1, <2>2
<1>f. CASE Rests
  BY <1>f, <1>3, <1>4 DEF Rests
<1> QED BY <1>a, <1>b, <1>c, <1>d, <1>e, <1>f DEF Shape

-----------------------------------------------------------------------------
(* The steps of the Runtime have these shapes.                             *)

(* Nothing that the lease is about changes.                                *)
LEMMA ShapeRest ==
  ASSUME pc' = pc, maintenance' = maintenance, active' = active
  PROVE  Shape
BY DEF Shape, Rests

(* A submission moves only itself.                                         *)
LEMMA ShapeSubmission ==
  ASSUME TypeOK, NEW i \in Input,
         SubmissionStep(i) \/ \E b \in Behaviours : Submit(i, b)
  PROVE  Shape
<1>1. PICK at : pc' = [pc EXCEPT ![i] = at]
  BY DEF SubmissionStep, Admit, Refuse, SteerRecorded, SteerNotified, Submit,
         Goto
<1>2. maintenance' = maintenance /\ active' = active
  BY DEF SubmissionStep, Admit, Refuse, SteerRecorded, SteerNotified, Submit,
         Unchanged4Sub
<1>3. i \in Tasks /\ i \notin Runs /\ i \notin Callers
  BY RuntimeAssumption DEF Tasks
<1> QED BY <1>1, <1>2, <1>3 DEF Shape, Moves

(* The end of a host, promoting or not.                                    *)
LEMMA ShapeEnd ==
  ASSUME TypeOK, NEW h \in Hosts, EndHost(h),
         active' = active, maintenance' = maintenance,
         h \in Runs => pc[h] \in Over, h \in Callers => pc[h] # "reserved"
  PROVE  Shape
<1>1. PICK at \in {"done", "idle"} :
        pc' = [pc EXCEPT ![h] = at] /\ (h \in Runs => at = "done")
  BY DEF EndHost
<1> QED BY <1>1 DEF Shape, Moves, Over, Tasks

(* A promotion opens a Run on a Session that is free.                      *)
LEMMA ShapePromote ==
  ASSUME TypeOK, NEW h \in Hosts, NEW origin, NEW i, NEW at \in Promoting,
         NEW runs, Promote(h, origin, i, at, runs), active = None,
         maintenance' = None,
         \/ maintenance = None /\ h \in Runs /\ pc[h] \in Over
         \/ maintenance = None /\ h \in Callers /\ pc[h] # "reserved"
         \/ h \in Callers /\ pc[h] = "reserved"
  PROVE  Shape
<1>1. h \in Runs => pc[h] # "absent"
  BY RuntimeAssumption DEF Over, Promoting
<1>2. Next1 \in Runs /\ h # Next1 BY <1>1, PointsPromote
<1>3. pc[Next1] = "absent"
  BY <1>2 DEF TypeOK, StateTypes, ControlPoints, Next1, Runs
<1>4. Opens(h, Next1, at) BY <1>2, <1>3 DEF Opens, Promote
<1> QED BY <1>2, <1>4 DEF Shape

(* Serving the queue opens a Run or ends the host.                         *)
LEMMA ShapeQueue ==
  ASSUME TypeOK, NEW h \in Hosts, NEW runs, NEW isPaused,
         TryPromoteQueue(h, runs, isPaused, maintenance),
         maintenance' = maintenance,
         h \in Runs => pc[h] \in Over, h \in Callers => pc[h] # "reserved"
  PROVE  Shape
<1>1. CASE NoPromotion(h, runs)
  BY <1>1, ShapeEnd DEF NoPromotion
<1>2. CASE /\ ~Taken(maintenance)
           /\ Promote(h, "queue", Head(queue), "yielding", runs)
  BY <1>2, ShapePromote DEF Taken, Promoting, Hosts
<1> QED BY <1>1, <1>2 DEF TryPromoteQueue

(* So does serving the steer fallbacks before it.                          *)
LEMMA ShapePending ==
  ASSUME TypeOK, NEW h \in Hosts, NEW runs,
         TryPromotePending(h, runs, maintenance), maintenance' = maintenance,
         h \in Runs => pc[h] \in Over, h \in Callers => pc[h] # "reserved"
  PROVE  Shape
<1>1. CASE NoPromotion(h, runs)
  BY <1>1, ShapeEnd DEF NoPromotion
<1>2. CASE /\ ~Taken(maintenance)
           /\ Promote(h, "steer", Head(fallbackQ), "activatingFallback", runs)
  BY <1>2, ShapePromote DEF Taken, Promoting, Hosts
<1>3. CASE TryPromoteQueue(h, runs, paused, maintenance)
  BY <1>3, ShapeQueue
<1> QED BY <1>1, <1>2, <1>3 DEF TryPromotePending

(* The awaits of a promotion leave the lease alone, but for its end.       *)
LEMMA ShapeHost ==
  ASSUME TypeOK, NEW h \in Hosts, HostStep(h)
  PROVE  Shape
<1> USE DEF session, Goto
<1>1. pc[h] \in Promoting
  BY DEF Promoting, HostStep, FallbackActivated, FallbackAbandoned,
         FallbackGathered, FallbackNotified, Yielded, QueuedInputRecorded,
         QueuedInputKept, QueueNotified, QueueGathered, GatherInterrupted
<1>2. /\ h \in Tasks /\ pc[h] \in Over /\ pc[h] # "reserved"
      /\ "reserved" \notin Promoting /\ Promoting \subseteq Over
  BY <1>1 DEF Tasks, Over, Promoting
<1>3. ASSUME NEW at \in Promoting, pc' = [pc EXCEPT ![h] = at],
             active' = active, maintenance' = maintenance
      PROVE  Shape
  <2>1. Moves(h, at) BY <1>2, <1>3 DEF Moves
  <2> QED BY <1>2, <2>1 DEF Shape
<1>4. ASSUME EndHost(h), active' = active, maintenance' = maintenance
      PROVE  Shape
  BY <1>2, <1>4, ShapeEnd
<1>5. ASSUME NEW runs, maintenance' = maintenance,
             NoPromotion(h, runs) \/ TryPromoteQueue(h, runs, paused, maintenance)
      PROVE  Shape
  <2>1. CASE NoPromotion(h, runs) BY <1>4, <1>5, <2>1 DEF NoPromotion
  <2>2. CASE TryPromoteQueue(h, runs, paused, maintenance)
    BY <1>2, <1>5, <2>2, ShapeQueue
  <2> QED BY <1>5, <2>1, <2>2
<1>a. CASE FallbackActivated(h)
  BY <1>a, <1>3 DEF FallbackActivated, Promoting
<1>b. CASE FallbackAbandoned(h)
  BY <1>b, <1>3 DEF FallbackAbandoned, AbandonRun, Promoting
<1>c. CASE FallbackGathered(h) \/ FallbackNotified(h)
  BY <1>c, <1>5 DEF FallbackGathered, FallbackNotified
<1>d. CASE Yielded(h)
  BY <1>d, <1>3, <1>4 DEF Yielded, Promoting
<1>e. CASE QueuedInputRecorded(h)
  BY <1>e, <1>3, <1>4 DEF QueuedInputRecorded, Promoting
<1>f. CASE QueuedInputKept(h)
  BY <1>f, <1>3 DEF QueuedInputKept, AbandonRun, Promoting
<1>g. CASE QueueNotified(h) \/ QueueGathered(h) \/ GatherInterrupted(h)
  BY <1>g, <1>4 DEF QueueNotified, QueueGathered, GatherInterrupted
<1> QED BY <1>a, <1>b, <1>c, <1>d, <1>e, <1>f, <1>g DEF HostStep

(* A Run that goes on keeps the Session, and leaves the registry only for  *)
(* its tail.                                                               *)
LEMMA ShapeRun ==
  ASSUME TypeOK, NEW r \in Runs, RunStep(r) \/ AgentFails(r) \/ ApprovalReturns(r)
  PROVE  Shape
<1> USE DEF session, Goto, Unchanged4Run, Unchanged4Settle
<1>1. r \in Tasks /\ r \in Hosts /\ r \notin Callers
  BY RuntimeAssumption DEF Tasks, Hosts
<1>2. ASSUME pc[r] \in Held, NEW at \in Held \cup Over, maintenance' = maintenance,
             pc' = [pc EXCEPT ![r] = at],
             \/ active' = active
             \/ at \in Over /\ active' = IF active = r THEN None ELSE active
      PROVE  Shape
  <2>1. Moves(r, at) BY <1>1, <1>2 DEF Moves
  <2> QED BY <1>1, <2>1 DEF Shape
<1>3. /\ Executing \subseteq Held
      /\ {"created", "gated", "recording", "waiting", "discarding"} \subseteq Held
      /\ {"ending", "aborted", "done"} \subseteq Over
  BY DEF Held, Over, Registered, Executing
<1>4. ASSUME NEW st, NEW rec, NEW w, pc[r] \in Held, maintenance' = maintenance,
             Conclude(r, st, rec, w) \/ Settle(r, rec, w)
      PROVE  Shape
  <2>1. \/ \E at \in {"waiting", "aborted", "discarding"} :
             pc' = [pc EXCEPT ![r] = at] /\ active' = active
        \/ pc' = [pc EXCEPT ![r] = "ending"] /\ Deregister(r)
    BY <1>4 DEF Conclude, Settle
  <2> QED BY <1>2, <1>3, <1>4, <2>1 DEF Deregister
<1>a. CASE CancelCallback(r)
  BY <1>a, ShapeRest DEF CancelCallback
<1>b. CASE FirstStep(r) \/ NeverStarted(r)
  <2>1. PICK at \in {"gated", "recording", "agent", "aborted"} :
          pc' = [pc EXCEPT ![r] = at]
    BY <1>b DEF FirstStep, NeverStarted
  <2> QED BY <1>b, <1>2, <1>3, <2>1 DEF FirstStep, NeverStarted, Executing
<1>c. CASE UserMessageRecorded(r) \/ GateOpens(r)
  <2>1. pc[r] \in Held /\ maintenance' = maintenance
    BY <1>c, <1>3 DEF UserMessageRecorded, GateOpens
  <2>2. \/ pc' = [pc EXCEPT ![r] = "agent"] /\ active' = active
        \/ \E rec, w : Conclude(r, "failed", rec, w)
    BY <1>c DEF UserMessageRecorded, GateOpens
  <2> QED BY <1>2, <1>3, <1>4, <2>1, <2>2 DEF Executing
<1>d. CASE StreamEnds(r) \/ ApprovalReturns(r) \/ StageSteers(r)
  <2>1. PICK at \in {"approval", "boundary", "resuming", "activating"} :
          pc' = [pc EXCEPT ![r] = at]
    BY <1>d DEF StreamEnds, ApprovalReturns, StageSteers
  <2>2. pc[r] \in Held /\ maintenance' = maintenance /\ active' = active
    BY <1>d, <1>3
    DEF StreamEnds, ApprovalReturns, StageSteers, AtBoundary, Executing
  <2> QED BY <1>2, <1>3, <2>1, <2>2 DEF Executing
<1>e. CASE BoundaryEmpty(r) \/ StagingRefused(r)
  <2>1. PICK at \in {"agent", "closing"} : pc' = [pc EXCEPT ![r] = at]
    BY <1>e DEF BoundaryEmpty, StagingRefused, Leave
  <2>2. pc[r] \in Held /\ maintenance' = maintenance /\ active' = active
    BY <1>e, <1>3 DEF BoundaryEmpty, StagingRefused, AtBoundary, Executing
  <2> QED BY <1>2, <1>3, <2>1, <2>2 DEF Executing
<1>f. CASE SteersActivated(r)
  <2>1. pc[r] \in Held /\ maintenance' = maintenance
    BY <1>f, <1>3 DEF SteersActivated, Executing
  <2>2. \/ pc' = [pc EXCEPT ![r] = "agent"] /\ active' = active
        \/ \E st, rec, w : Conclude(r, st, rec, w)
    BY <1>f DEF SteersActivated
  <2> QED BY <1>2, <1>3, <1>4, <2>1, <2>2 DEF Executing
<1>g. CASE LoopCompletes(r) \/ RunCancelled(r) \/ SubmissionsReady(r)
           \/ AgentFails(r)
  <2>1. pc[r] \in Held /\ maintenance' = maintenance
    BY <1>g, <1>3 DEF LoopCompletes, RunCancelled, SubmissionsReady,
                      AgentFails, AtBoundary, Executing
  <2>2. \/ \E st, rec, w : Conclude(r, st, rec, w)
        \/ \E rec, w : Settle(r, rec, w)
    BY <1>g DEF LoopCompletes, RunCancelled, SubmissionsReady, AgentFails
  <2> QED BY <1>4, <2>1, <2>2
<1>h. CASE CleanupInterrupted(r) \/ DiscardRecorded(r)
  <2>1. pc[r] \in Held /\ maintenance' = maintenance
    BY <1>h, <1>3 DEF CleanupInterrupted, DiscardRecorded
  <2>2. \/ pc' = [pc EXCEPT ![r] = "aborted"] /\ active' = active
        \/ pc' = [pc EXCEPT ![r] = "ending"] /\ Deregister(r)
    BY <1>h DEF CleanupInterrupted, DiscardRecorded
  <2> QED BY <1>2, <1>3, <2>1, <2>2 DEF Deregister
<1>i. CASE RunEndNotified(r)
  BY <1>i, <1>1, <1>3, ShapePending DEF RunEndNotified
<1>j. CASE RunEndInterrupted(r)
  <2>1. Moves(r, "done") BY <1>j, <1>1, <1>3 DEF RunEndInterrupted, Moves
  <2> QED BY <1>1, <2>1 DEF Shape
<1> QED
  BY <1>a, <1>b, <1>c, <1>d, <1>e, <1>f, <1>g, <1>h, <1>i, <1>j DEF RunStep

(* The operations of the user start a Run, reserve the Session, or leave   *)
(* the lease alone.                                                        *)
LEMMA ShapeUser ==
  ASSUME TypeOK, UserStep
  PROVE  Shape
<1> USE DEF Goto
<1>a. ASSUME NEW o \in {"user", "application"}, NEW x \in Behaviours,
             StartRun(o, x)
      PROVE  Shape
  <2>1. started \in Nat /\ Next1 = started + 1 /\ started < MaxRuns
    BY <1>a DEF StartRun, Next1, TypeOK, StateTypes
  <2>2. Next1 \in Runs BY <2>1, RuntimeAssumption DEF Runs
  <2>3. pc[Next1] = "absent" BY <2>1, <2>2 DEF TypeOK, ControlPoints, Runs
  <2>4. Starts(Next1) BY <1>a, <2>2, <2>3 DEF Starts, StartRun
  <2> QED BY <2>2, <2>4 DEF Shape
<1>b. ASSUME NEW i \in Input, NEW x \in Behaviours, Submit(i, x)
      PROVE  Shape
  BY <1>b, ShapeSubmission
<1>c. ASSUME NEW c \in Callers, ResumeQueue(c)
      PROVE  Shape
  <2>1. c \in Hosts /\ c \notin Runs BY RuntimeAssumption DEF Hosts
  <2> QED BY <1>c, <2>1, ShapeQueue DEF ResumeQueue
<1>d. ASSUME NEW c \in Callers, NEW x \in BOOLEAN, ReserveSession(c, x)
      PROVE  Shape
  <2>1. Reserves(c) BY <1>d DEF ReserveSession, Taken, Reserves
  <2> QED BY <2>1 DEF Shape
<1>e. ASSUME NEW r \in Runs, ApprovalReturns(r) \/ AgentFails(r)
      PROVE  Shape
  BY <1>e, ShapeRun
<1>f. CASE \/ \E i \in Input : RemoveQueuedInput(i)
           \/ CancelRun \/ ClearQueue \/ BeginClose
  BY <1>f, ShapeRest DEF RemoveQueuedInput, CancelRun, ClearQueue, BeginClose
<1> QED BY <1>a, <1>b, <1>c, <1>d, <1>e, <1>f DEF UserStep

(* The end of a maintenance operation releases the Session or passes it    *)
(* on to the pending work it promotes.                                     *)
LEMMA ShapeRelease ==
  ASSUME TypeOK, NEW c \in Callers, ReleaseSession(c)
  PROVE  Shape
<1>1. c \in Hosts /\ c \notin Runs /\ c \in Tasks
  BY RuntimeAssumption DEF Hosts, Tasks
<1>2. pc[c] = "reserved" /\ maintenance' = None
  BY DEF ReleaseSession
<1>3. CASE \E origin, i : \E at \in Promoting :
             Promote(c, origin, i, at, run) /\ active = None
  BY <1>1, <1>2, <1>3, ShapePromote
<1>4. CASE NoPromotion(c, run)
  <2>1. Releases(c) BY <1>1, <1>2, <1>4 DEF Releases, NoPromotion, EndHost
  <2> QED BY <2>1 DEF Shape
<1>5. NoPromotion(c, run) \/ \E origin, i : \E at \in Promoting :
        Promote(c, origin, i, at, run) /\ active = None
  BY DEF ReleaseSession, TryPromotePending, TryPromoteQueue, Taken, Promoting
<1> QED BY <1>3, <1>4, <1>5

(* Every step of the Runtime has a shape.                                  *)
LEMMA ShapeNext ==
  ASSUME TypeOK, [Next]_vars
  PROVE  Shape
<1>1. ASSUME NEW t \in Tasks, AbsorbCancellation(t)
      PROVE  Shape
  BY <1>1, ShapeRest DEF AbsorbCancellation, session
<1>2. CASE EndClose
  <2>1. \A r \in Runs : pc[r] \notin Held
    BY <1>2 DEF EndClose, Owned, Held, Registered, Executing, Resting, Tasks,
                Hosts
  <2> QED BY <1>2, <2>1 DEF EndClose, Shape, Rests
<1>3. CASE UNCHANGED vars
  BY <1>3, ShapeRest DEF vars, session
<1> QED
  BY <1>1, <1>2, <1>3, ShapeRun, ShapeHost, ShapeSubmission, ShapeUser,
     ShapeRelease DEF Next, AtRest

-----------------------------------------------------------------------------
(* Whatever the Runs, promotions, cancellations, failures and callers do,  *)
(* and however many there are, one top-level Run or one maintenance        *)
(* operation owns the Session.                                             *)
THEOREM SessionExclusive == Spec => []MutualExclusion
<1>1. Init => MutualExclusion
  <2>1. "absent" \notin Registered BY DEF Registered, Executing
  <2> QED
    BY <2>1, RuntimeAssumption DEF Init, MutualExclusion, Tasks, Hosts
<1>2. TypeOK /\ MutualExclusion /\ [Next]_vars => MutualExclusion'
  BY ShapeNext, ExclusionStep
<1> QED BY <1>1, <1>2, TypeCorrect, PTL DEF Spec

(* The Runtime implements the lease: the Session goes from one operation   *)
(* to the next only by a release, by an acquisition of a free Session, or  *)
(* by the end of a maintenance operation that promotes pending work.       *)
THEOREM LeaseImplemented == Spec => ImplementsLease
<1>1. Init => Lease!Init
  <2>1. "absent" \notin Registered /\ "absent" \notin Promoting
    BY DEF Registered, Executing, Promoting
  <2> QED
    BY <2>1, RuntimeAssumption
    DEF Init, Lease!Init, LeaseOwners, LeaseFinished, Tasks, Hosts
<1>2. TypeOK /\ MutualExclusion /\ [Next]_vars => [Lease!Next]_(Lease!lease)
  BY ShapeNext, LeaseStep
<1> QED
  BY <1>1, <1>2, TypeCorrect, SessionExclusive, PTL
  DEF Spec, ImplementsLease, Lease!Spec

-----------------------------------------------------------------------------
(***************************************************************************)
(* The Agent of a Run executes only once the input it starts from is in    *)
(* the journal, for every number of Runs, callers and inputs.  The         *)
(* argument goes through the input-journal barrier of the Run: whoever     *)
(* sets it has just seen the record written, no record is ever taken back, *)
(* and the Agent starts behind the barrier.                                *)
(***************************************************************************)

(* The inductive invariant: what the barrier of a Run tells.               *)
BarrierTells ==
  \A r \in Runs :
    /\ pc[r] \in Executing => run[r].barrier = "ok"
    /\ run[r].barrier = "ok" => InputIsDurable(r)
    /\ run[r].origin = "application" => run[r].barrier = "ok"
    /\ pc[r] = "recording" => run[r].origin = "user"

JournalGrows == journal' = journal \/ \E e : journal' = Append(journal, e)

(* The awaits at which the origin of a Run matters.                        *)
Starting == Executing \cup {"recording"}

(* What a step may do to a Run there is, and the state of a new one.       *)
GoesOn(q) ==
  /\ SameIdentity(run'[q], run[q])
  /\ \/ run'[q].barrier = run[q].barrier
     \/ run[q].barrier = "pending" /\ run'[q].barrier = "failed"
     \/ run'[q].barrier = "ok" /\ InputIsDurable(q)'
  /\ pc'[q] \in Executing => pc[q] \in Executing \/ run'[q].barrier = "ok"
  /\ pc'[q] = "recording" => pc[q] = "recording" \/ run[q].origin = "user"

IsNew(q) ==
  /\ run'[q].barrier = "ok" <=> run'[q].origin = "application"
  /\ pc'[q] = "created"

(* The Run table "runs" differs from "run" in nothing the barrier is about.*)
SameBarriers(runs) ==
  \A q \in Runs :
    SameIdentity(runs[q], run[q]) /\ runs[q].barrier = run[q].barrier

(* A record in the journal stays there.                                    *)
LEMMA RecordStays ==
  ASSUME journal \in Seq(Record), JournalGrows, NEW type, NEW of, NEW r,
         HasRecord(type, of, r)
  PROVE  HasRecord(type, of, r)'
<1>1. CASE journal' = journal
  BY <1>1 DEF HasRecord
<1>2. ASSUME NEW e, journal' = Append(journal, e)
      PROVE  HasRecord(type, of, r)'
  <2>1. PICK k \in 1 .. Len(journal) :
          journal[k] = [type |-> type, of |-> of, run |-> r]
    BY DEF HasRecord
  <2>2. k \in DOMAIN journal' /\ journal'[k] = journal[k]
    BY <1>2, <2>1
  <2> QED BY <2>1, <2>2 DEF HasRecord
<1> QED BY <1>1, <1>2 DEF JournalGrows

(* The record just written is in the journal.                              *)
LEMMA RecordWritten ==
  ASSUME journal \in Seq(Record), NEW t, NEW type, NEW of, NEW r,
         Written(t, type, of, r)
  PROVE  HasRecord(type, of, r)' /\ JournalGrows
<1> DEFINE e == [type |-> type, of |-> of, run |-> r]
<1>1. journal' = Append(journal, e) BY DEF Written
<1> HIDE DEF e
<1>2. Len(journal) + 1 \in DOMAIN journal' /\ journal'[Len(journal) + 1] = e
  BY <1>1
<1> QED BY <1>1, <1>2 DEF HasRecord, JournalGrows, e

(* So a durable input stays durable.                                       *)
LEMMA DurableStays ==
  ASSUME TypeOK, JournalGrows, NEW q \in Runs, SameIdentity(run'[q], run[q]),
         InputIsDurable(q)
  PROVE  InputIsDurable(q)'
<1>1. /\ journal \in Seq(Record)
      /\ run'[q].origin = run[q].origin /\ run'[q].carried = run[q].carried
  BY DEF TypeOK, StateTypes, SameIdentity
<1>2. CASE run[q].origin = "user"
  BY <1>1, <1>2, RecordStays DEF InputIsDurable
<1>3. CASE run[q].origin = "queue"
  BY <1>1, <1>3, RecordStays DEF InputIsDurable
<1>4. CASE run[q].origin = "steer"
  BY <1>1, <1>4, RecordStays DEF InputIsDurable
<1>5. CASE run[q].origin \notin {"user", "queue", "steer"}
  BY <1>1, <1>5 DEF InputIsDurable
<1> QED BY <1>2, <1>3, <1>4, <1>5

(* A step in which every Run goes on or is new keeps the invariant.        *)
LEMMA BarrierStep ==
  ASSUME TypeOK, BarrierTells, JournalGrows,
         \A q \in Runs : GoesOn(q) \/ IsNew(q)
  PROVE  BarrierTells'
<1> SUFFICES ASSUME NEW q \in Runs
             PROVE  /\ pc'[q] \in Executing => run'[q].barrier = "ok"
                    /\ run'[q].barrier = "ok" => InputIsDurable(q)'
                    /\ run'[q].origin = "application" => run'[q].barrier = "ok"
                    /\ pc'[q] = "recording" => run'[q].origin = "user"
  BY DEF BarrierTells
<1>1. CASE IsNew(q)
  BY <1>1 DEF IsNew, Executing, InputIsDurable
<1>2. CASE GoesOn(q)
  <2>1. run[q].barrier = "ok" => InputIsDurable(q)'
    BY <1>2, DurableStays DEF GoesOn, BarrierTells
  <2> QED BY <1>2, <2>1 DEF GoesOn, SameIdentity, BarrierTells
<1> QED BY <1>1, <1>2

-----------------------------------------------------------------------------
(* One Run goes on, at another await, with its record x.                   *)
LEMMA OneGoesOn ==
  ASSUME TypeOK, NEW r \in Runs, NEW x, NEW at,
         run' = [run EXCEPT ![r] = x],
         pc' = [pc EXCEPT ![r] = at], at # "recording",
         SameIdentity(x, run[r]),
         \/ x.barrier = run[r].barrier
         \/ run[r].barrier = "pending" /\ x.barrier = "failed"
         \/ x.barrier = "ok" /\ InputIsDurable(r)',
         at \in Executing => pc[r] \in Executing \/ x.barrier = "ok"
  PROVE  \A q \in Runs : GoesOn(q)
<1>1. r \in Tasks /\ run \in [Runs -> RunRecord] /\ Runs \subseteq Tasks
      /\ pc \in [Tasks -> RunPoints \cup CallerPoints \cup InputPoints]
  BY DEF Tasks, Hosts, TypeOK, StateTypes, ControlPoints
<1>2. run'[r] = x /\ \A q \in Runs \ {r} : run'[q] = run[q] /\ pc'[q] = pc[q]
  BY <1>1
<1>3. pc'[r] = at BY <1>1
<1>4. GoesOn(r) BY <1>2, <1>3 DEF GoesOn
<1>5. \A q \in Runs \ {r} : GoesOn(q) BY <1>2 DEF GoesOn, SameIdentity
<1> QED BY <1>4, <1>5

(* No Run changes in what the barrier is about.                            *)
LEMMA AllGoOn ==
  ASSUME TypeOK, SameBarriers(run'),
         \A q \in Runs :
           /\ pc'[q] \in Executing => pc[q] \in Executing
           /\ pc'[q] = "recording" => pc[q] = "recording" \/ run[q].origin = "user"
  PROVE  \A q \in Runs : GoesOn(q)
BY DEF SameBarriers, GoesOn

(* The updates of one record that leave its barrier alone.                 *)
LEMMA SameBarrierUpdates ==
  ASSUME TypeOK, run' = run \/ \E r \in Runs :
           \/ \E c : run' = [run EXCEPT ![r].ctl = c]
           \/ \E g : run' = [run EXCEPT ![r].gate = g]
           \/ \E c, x : run' = [run EXCEPT ![r].phase = x, ![r].ctl = c]
  PROVE  SameBarriers(run')
<1>1. run \in [Runs -> RunRecord] BY DEF TypeOK, StateTypes
<1>2. CASE run' = run BY <1>2 DEF SameBarriers, SameIdentity
<1>3. ASSUME NEW r \in Runs, NEW x, run' = [run EXCEPT ![r] = x],
             SameIdentity(x, run[r]), x.barrier = run[r].barrier
      PROVE  SameBarriers(run')
  BY <1>1, <1>3 DEF SameBarriers, SameIdentity
<1>4. ASSUME NEW r \in Runs, NEW c, run' = [run EXCEPT ![r].ctl = c]
      PROVE  SameBarriers(run')
  <2> DEFINE x == [run[r] EXCEPT !.ctl = c]
  <2>1. run' = [run EXCEPT ![r] = x] BY <1>1, <1>4
  <2>2. SameIdentity(x, run[r]) /\ x.barrier = run[r].barrier
    BY <1>1 DEF RunRecord, SameIdentity
  <2> HIDE DEF x
  <2> QED BY <1>3, <2>1, <2>2
<1>5. ASSUME NEW r \in Runs, NEW g, run' = [run EXCEPT ![r].gate = g]
      PROVE  SameBarriers(run')
  <2> DEFINE x == [run[r] EXCEPT !.gate = g]
  <2>1. run' = [run EXCEPT ![r] = x] BY <1>1, <1>5
  <2>2. SameIdentity(x, run[r]) /\ x.barrier = run[r].barrier
    BY <1>1 DEF RunRecord, SameIdentity
  <2> HIDE DEF x
  <2> QED BY <1>3, <2>1, <2>2
<1>6. ASSUME NEW r \in Runs, NEW c, NEW x,
             run' = [run EXCEPT ![r].phase = x, ![r].ctl = c]
      PROVE  SameBarriers(run')
  <2> DEFINE y == [run[r] EXCEPT !.phase = x, !.ctl = c]
  <2>1. run' = [run EXCEPT ![r] = y] BY <1>1, <1>6
  <2>2. SameIdentity(y, run[r]) /\ y.barrier = run[r].barrier
    BY <1>1 DEF RunRecord, SameIdentity
  <2> HIDE DEF y
  <2> QED BY <1>3, <2>1, <2>2
<1> QED BY <1>2, <1>4, <1>5, <1>6

(* The "finally" block leaves the barrier of its Run as it finds it.       *)
LEMMA BarrierConcluded ==
  ASSUME run \in [Runs -> RunRecord], NEW r \in Runs, NEW rec \in RunRecord,
         SameIdentity(rec, run[r]), NEW w,
         Settle(r, rec, w) \/
           \E st \in {"completed", "cancelled", "failed"} : Conclude(r, st, rec, w)
  PROVE  \E x, at : /\ run' = [run EXCEPT ![r] = x]
                    /\ pc' = [pc EXCEPT ![r] = at] /\ at \notin Starting
                    /\ SameIdentity(x, run[r]) /\ x.barrier = rec.barrier
<1>1. ASSUME NEW z \in RunRecord, SameIdentity(z, run[r]),
             z.barrier = rec.barrier, Settle(r, z, w)
      PROVE  \E x, at : /\ run' = [run EXCEPT ![r] = x]
                        /\ pc' = [pc EXCEPT ![r] = at] /\ at \notin Starting
                        /\ SameIdentity(x, run[r]) /\ x.barrier = rec.barrier
  <2> DEFINE a == [z EXCEPT !.ctl = EmptiedControl(@)]
             b == [a EXCEPT !.staged = Steers(z.ctl)]
  <2>1. SameIdentity(a, run[r]) /\ SameIdentity(b, run[r])
        /\ a.barrier = rec.barrier /\ b.barrier = rec.barrier
    BY <1>1 DEF SameIdentity, RunRecord
  <2>2. PICK x \in {a, z, b} : run' = [run EXCEPT ![r] = x]
    BY <1>1 DEF Settle
  <2>3. PICK at \in {"ending", "aborted", "discarding"} :
          pc' = [pc EXCEPT ![r] = at]
    BY <1>1 DEF Settle, Goto
  <2>4. at \notin Starting BY DEF Starting, Executing
  <2> HIDE DEF a, b
  <2> QED BY <1>1, <2>1, <2>2, <2>3, <2>4
<1>2. SameIdentity(rec, rec) BY DEF SameIdentity
<1>3. ASSUME NEW st \in {"completed", "cancelled", "failed"},
             Conclude(r, st, rec, w)
      PROVE  \E x, at : /\ run' = [run EXCEPT ![r] = x]
                        /\ pc' = [pc EXCEPT ![r] = at] /\ at \notin Starting
                        /\ SameIdentity(x, run[r]) /\ x.barrier = rec.barrier
  <2> DEFINE ctl == CloseSubmissions(UnbindStream(rec.ctl))
             ended == [rec EXCEPT !.status = st, !.phase = "stopping",
                                  !.ctl = ctl]
  <2>1. ctl \in Control
    BY DEF RunRecord, Control, CloseSubmissions, UnbindStream
  <2>2. ended \in RunRecord BY <2>1 DEF RunRecord
  <2>3. SameIdentity(ended, run[r]) /\ ended.barrier = rec.barrier
    BY DEF SameIdentity, RunRecord
  <2>4. \/ Settle(r, ended, w)
        \/ run' = [run EXCEPT ![r] = ended] /\ pc' = [pc EXCEPT ![r] = "waiting"]
    BY <1>3 DEF Conclude, Goto
  <2>5. "waiting" \notin Starting BY DEF Starting, Executing
  <2> HIDE DEF ended
  <2> QED BY <1>1, <2>2, <2>3, <2>4, <2>5
<1> QED BY <1>1, <1>3

(* Binding the stream, or failing the barrier, keeps what is asked.        *)
LEMMA StreamingKeeps ==
  ASSUME NEW rec \in RunRecord
  PROVE  /\ SameIdentity(Streaming(rec), rec)
         /\ Streaming(rec).barrier = rec.barrier
         /\ BarrierFailed(rec) \in RunRecord
         /\ SameIdentity(BarrierFailed(rec), rec)
         /\ \/ BarrierFailed(rec).barrier = rec.barrier
            \/ rec.barrier = "pending" /\ BarrierFailed(rec).barrier = "failed"
BY DEF Streaming, BarrierFailed, SameIdentity, RunRecord

(* Every step of a Run before its tail keeps the records and lets all Runs *)
(* go on; an Agent starts only behind the barrier.                         *)
LEMMA RunStepGoesOn ==
  ASSUME TypeOK, BarrierTells, NEW r \in Runs,
         RunStep(r) \/ AgentFails(r) \/ ApprovalReturns(r), ~RunEndNotified(r)
  PROVE  JournalGrows /\ \A q \in Runs : GoesOn(q)
<1> USE DEF Unchanged4Run, Goto
<1>1. /\ run \in [Runs -> RunRecord] /\ run[r] \in RunRecord
      /\ journal \in Seq(Record) /\ SameIdentity(run[r], run[r])
      /\ r \in Tasks /\ Runs \subseteq Tasks
      /\ pc \in [Tasks -> RunPoints \cup CallerPoints \cup InputPoints]
  BY DEF TypeOK, StateTypes, ControlPoints, SameIdentity, Tasks, Hosts
<1>2. ASSUME run' = run \/ (\E c : run' = [run EXCEPT ![r].ctl = c]),
             pc' = pc \/ \E at : /\ pc' = [pc EXCEPT ![r] = at]
                                 /\ at \in Executing => pc[r] \in Executing
                                 /\ at = "recording" => run[r].origin = "user"
      PROVE  \A q \in Runs : GoesOn(q)
  <2>1. SameBarriers(run') BY <1>1, <1>2, SameBarrierUpdates
  <2>2. \A q \in Runs :
           /\ pc'[q] \in Executing => pc[q] \in Executing
           /\ pc'[q] = "recording" => pc[q] = "recording" \/ run[q].origin = "user"
    BY <1>1, <1>2
  <2> QED BY <2>1, <2>2, AllGoOn
<1>3. ASSUME NEW rec \in RunRecord, NEW w, SameIdentity(rec, run[r]),
             Settle(r, rec, w) \/
               \E st \in {"completed", "cancelled", "failed"} : Conclude(r, st, rec, w),
             \/ rec.barrier = run[r].barrier
             \/ run[r].barrier = "pending" /\ rec.barrier = "failed"
      PROVE  \A q \in Runs : GoesOn(q)
  BY <1>1, <1>3, BarrierConcluded, OneGoesOn DEF Starting
<1>4. ASSUME pc' = [pc EXCEPT ![r] = "agent"], run' = [run EXCEPT ![r] = Streaming(@)],
             run[r].barrier = "ok"
      PROVE  \A q \in Runs : GoesOn(q)
  <2>1. run' = [run EXCEPT ![r] = Streaming(run[r])] BY <1>1, <1>4
  <2> QED BY <1>1, <1>4, <2>1, StreamingKeeps, OneGoesOn
<1>5. /\ Executing \subseteq Executing
      /\ {"gated", "recording", "aborted", "ending", "done"} \cap Executing = {}
      /\ {"agent", "approval", "resuming", "boundary", "activating", "closing"}
           \subseteq Executing
  BY DEF Executing
<1>a. CASE CancelCallback(r)
  BY <1>2, <1>a DEF CancelCallback, JournalGrows
<1>b. CASE FirstStep(r)
  <2>1. JournalGrows BY <1>b DEF FirstStep, JournalGrows
  <2>2. CASE pc' = [pc EXCEPT ![r] = "agent"]
    <3>1. run' = [run EXCEPT ![r] = Streaming(@)] /\ run[r].origin = "application"
      <4>1. pc'[r] = "agent" BY <1>1, <2>2
      <4>2. [pc EXCEPT ![r] = "gated"][r] = "gated"
            /\ [pc EXCEPT ![r] = "recording"][r] = "recording" BY <1>1
      <4> QED BY <1>b, <4>1, <4>2 DEF FirstStep
    <3> QED BY <1>4, <2>1, <2>2, <3>1 DEF BarrierTells
  <2>3. CASE /\ run' = run
             /\ \/ pc' = [pc EXCEPT ![r] = "gated"]
                \/ pc' = [pc EXCEPT ![r] = "recording"] /\ run[r].origin = "user"
    BY <1>2, <1>5, <2>1, <2>3
  <2> QED BY <1>b, <2>2, <2>3 DEF FirstStep
<1>c. CASE NeverStarted(r) \/ CleanupInterrupted(r) \/ RunEndInterrupted(r)
  <2>1. JournalGrows /\ run' = run
    BY <1>c DEF NeverStarted, CleanupInterrupted, RunEndInterrupted, JournalGrows
  <2>2. \E at \in {"aborted", "done"} : pc' = [pc EXCEPT ![r] = at]
    BY <1>c DEF NeverStarted, CleanupInterrupted, RunEndInterrupted
  <2> QED BY <1>2, <1>5, <2>1, <2>2
<1>d. CASE UserMessageRecorded(r)
  <2>1. CASE /\ Written(r, "user_message", <<>>, r)
             /\ pc' = [pc EXCEPT ![r] = "agent"]
             /\ run' = [run EXCEPT ![r] = Streaming([@ EXCEPT !.barrier = "ok"])]
    <3> DEFINE y == [run[r] EXCEPT !.barrier = "ok"]
               x == Streaming(y)
    <3>1. y \in RunRecord /\ y.barrier = "ok" /\ SameIdentity(y, run[r])
      BY <1>1 DEF RunRecord, SameIdentity
    <3>2. run' = [run EXCEPT ![r] = x] BY <1>1, <2>1
    <3>3. run[r].origin = "user" BY <1>d DEF UserMessageRecorded, BarrierTells
    <3> QED
      <4>1. HasRecord("user_message", <<>>, r)' /\ JournalGrows
        BY <1>1, <2>1, RecordWritten
      <4> HIDE DEF y
      <4>2. SameIdentity(x, run[r]) /\ x.barrier = "ok"
        BY <3>1, StreamingKeeps DEF SameIdentity
      <4> HIDE DEF x
      <4>3. run'[r].origin = "user"
        BY <1>1, <3>2, <3>3, <4>2 DEF SameIdentity
      <4>4. InputIsDurable(r)' BY <4>1, <4>3 DEF InputIsDurable
      <4> QED BY <2>1, <3>2, <4>1, <4>2, <4>4, OneGoesOn
  <2>2. CASE WriteFails(r) /\ Conclude(r, "failed", BarrierFailed(run[r]), Unread)
    BY <1>1, <1>3, <2>2, StreamingKeeps DEF WriteFails, JournalGrows
  <2> QED BY <1>d, <2>1, <2>2 DEF UserMessageRecorded
<1>e. CASE GateOpens(r)
  <2>1. JournalGrows BY <1>e DEF GateOpens, JournalGrows
  <2> QED BY <1>1, <1>3, <1>4, <1>e, <2>1 DEF GateOpens
<1>f. CASE StreamEnds(r) \/ BoundaryEmpty(r) \/ StagingRefused(r)
  <2>1. JournalGrows /\ pc[r] \in Executing
    BY <1>f DEF StreamEnds, BoundaryEmpty, StagingRefused, AtBoundary,
                JournalGrows, Executing
  <2>2. CASE BoundaryEmpty(r) \/ StagingRefused(r)
    BY <1>2, <2>1, <2>2 DEF BoundaryEmpty, StagingRefused, Leave
  <2>3. CASE StreamEnds(r)
    <3> DEFINE c == UnbindStream(run[r].ctl)
               x == [run[r] EXCEPT !.ctl = c, !.phase = "waiting_approval"]
    <3>1. CASE run' = [run EXCEPT ![r].ctl = UnbindStream(@)]
      BY <1>1, <1>2, <2>1, <2>3, <3>1 DEF StreamEnds
    <3>2. CASE run' = [run EXCEPT ![r].ctl = UnbindStream(@),
                                  ![r].phase = "waiting_approval"]
      <4>1. run' = [run EXCEPT ![r] = x] BY <1>1, <3>2
      <4>2. SameIdentity(x, run[r]) /\ x.barrier = run[r].barrier
        BY <1>1 DEF RunRecord, SameIdentity
      <4>3. \E at : pc' = [pc EXCEPT ![r] = at] /\ at # "recording"
        BY <2>3 DEF StreamEnds
      <4> HIDE DEF x
      <4> QED BY <2>1, <4>1, <4>2, <4>3, OneGoesOn
    <3> QED BY <2>3, <3>1, <3>2 DEF StreamEnds
  <2> QED BY <1>f, <2>2, <2>3
<1>g. CASE ApprovalReturns(r) \/ StageSteers(r)
  <2>1. /\ JournalGrows /\ pc[r] \in Executing
        /\ \E at : pc' = [pc EXCEPT ![r] = at] /\ at # "recording"
    BY <1>g DEF ApprovalReturns, StageSteers, AtBoundary, JournalGrows,
                Executing
  <2>2. CASE ApprovalReturns(r)
    <3> DEFINE x == [run[r] EXCEPT !.phase =
                       IF @ = "waiting_approval" THEN "running" ELSE @]
    <3>1. run' = [run EXCEPT ![r] = x] BY <1>1, <2>2 DEF ApprovalReturns
    <3>2. SameIdentity(x, run[r]) /\ x.barrier = run[r].barrier
      BY <1>1 DEF RunRecord, SameIdentity
    <3> HIDE DEF x
    <3> QED BY <2>1, <3>1, <3>2, OneGoesOn
  <2>3. CASE StageSteers(r)
    <3> DEFINE x == [run[r] EXCEPT !.staged = run[r].ctl.pending]
    <3>1. run' = [run EXCEPT ![r] = x] BY <1>1, <2>3 DEF StageSteers
    <3>2. SameIdentity(x, run[r]) /\ x.barrier = run[r].barrier
      BY <1>1 DEF RunRecord, SameIdentity
    <3> HIDE DEF x
    <3> QED BY <2>1, <3>1, <3>2, OneGoesOn
  <2> QED BY <1>g, <2>2, <2>3
<1>h. CASE SteersActivated(r)
  <2> DEFINE y == [run[r] EXCEPT !.staged = <<>>]
             c == MarkStaged(run[r].ctl, Len(run[r].staged))
             z == [run[r] EXCEPT !.ctl = c, !.staged = <<>>]
  <2>1. run[r].ctl \in Control /\ Len(run[r].staged) \in Nat
    BY <1>1 DEF RunRecord
  <2>2. c \in Control BY <2>1, MarkStagedType
  <2>3. y \in RunRecord /\ SameIdentity(y, run[r]) /\ y.barrier = run[r].barrier
    BY <1>1, EmptySeq DEF RunRecord, SameIdentity
  <2>4. z \in RunRecord /\ SameIdentity(z, run[r]) /\ z.barrier = run[r].barrier
    BY <1>1, <2>2, EmptySeq DEF RunRecord, SameIdentity
  <2>5. pc[r] \in Executing BY <1>h DEF SteersActivated, Executing
  <2>6. \/ /\ Written(r, "activated", run[r].staged, r)
           /\ \/ Conclude(r, "cancelled", z, Unread)
              \/ /\ run' = [run EXCEPT ![r] = Streaming(z)]
                 /\ pc' = [pc EXCEPT ![r] = "agent"]
        \/ WriteFails(r) /\ Conclude(r, "failed", y, Unread)
    BY <1>h DEF SteersActivated
  <2> HIDE DEF y, z, c
  <2>7. JournalGrows
    BY <1>1, <2>6, RecordWritten DEF WriteFails, JournalGrows
  <2>8. CASE /\ run' = [run EXCEPT ![r] = Streaming(z)]
             /\ pc' = [pc EXCEPT ![r] = "agent"]
    <3>1. /\ SameIdentity(Streaming(z), run[r])
          /\ Streaming(z).barrier = run[r].barrier
      BY <2>4, StreamingKeeps DEF SameIdentity
    <3> QED BY <2>5, <2>7, <2>8, <3>1, OneGoesOn
  <2> QED BY <1>1, <1>3, <2>3, <2>4, <2>6, <2>7, <2>8
<1>i. CASE LoopCompletes(r) \/ SubmissionsReady(r) \/ AgentFails(r)
  <2>1. JournalGrows
    BY <1>i DEF LoopCompletes, SubmissionsReady, AgentFails, JournalGrows
  <2> QED
    BY <1>1, <1>3, <1>i, <2>1 DEF LoopCompletes, SubmissionsReady, AgentFails
<1>j. CASE RunCancelled(r)
  <2>1. JournalGrows
    BY <1>1, <1>j, RecordWritten DEF RunCancelled, JournalGrows
  <2>2. Conclude(r, "cancelled", BarrierFailed(run[r]), Without(writers, r))
    BY <1>j DEF RunCancelled
  <2> QED BY <1>1, <1>3, <2>1, <2>2, StreamingKeeps
<1>k. CASE DiscardRecorded(r)
  <2> DEFINE x == [run[r] EXCEPT !.staged = <<>>]
  <2>1. JournalGrows
    BY <1>1, <1>k, RecordWritten DEF DiscardRecorded, WriteFails, JournalGrows
  <2>2. run' = [run EXCEPT ![r] = x] /\ pc' = [pc EXCEPT ![r] = "ending"]
    BY <1>1, <1>k DEF DiscardRecorded
  <2>3. SameIdentity(x, run[r]) /\ x.barrier = run[r].barrier
    BY <1>1 DEF RunRecord, SameIdentity
  <2> HIDE DEF x
  <2> QED BY <1>5, <2>1, <2>2, <2>3, OneGoesOn
<1> QED
  BY <1>a, <1>b, <1>c, <1>d, <1>e, <1>f, <1>g, <1>h, <1>i, <1>j, <1>k
  DEF RunStep

-----------------------------------------------------------------------------
(* A promotion leaves the Runs as "runs" has them and adds a new one.      *)
LEMMA PromoteGoesOn ==
  ASSUME TypeOK, NEW h \in Hosts, h \in Runs => pc[h] # "absent",
         NEW origin \in {"steer", "queue"}, NEW i, NEW at \in Promoting,
         NEW runs \in [Runs -> RunRecord], SameBarriers(runs),
         Promote(h, origin, i, at, runs)
  PROVE  \A q \in Runs : GoesOn(q) \/ IsNew(q)
<1>1. Next1 \in Runs /\ h # Next1 BY PointsPromote
<1> DEFINE n == Next1
           rec == CreatedRun(origin, i, sub[i].behaviour)
<1>2. /\ run' = [runs EXCEPT ![n] = rec]
      /\ pc' = [pc EXCEPT ![n] = "created", ![h] = at]
  BY DEF Promote
<1>3. rec.origin = origin /\ rec.barrier = "pending" BY DEF CreatedRun
<1> HIDE DEF n, rec
<1>4. /\ n \in Tasks /\ h \in Tasks /\ Runs \subseteq Tasks
      /\ pc \in [Tasks -> RunPoints \cup CallerPoints \cup InputPoints]
  BY <1>1 DEF n, Tasks, Hosts, TypeOK, ControlPoints
<1>5. n \in Runs /\ n # h BY <1>1 DEF n
<1>6. IsNew(n) BY <1>2, <1>3, <1>4, <1>5 DEF IsNew
<1>7. ASSUME NEW q \in Runs, q # n
      PROVE  GoesOn(q)
  <2>1. run'[q] = runs[q] BY <1>2, <1>7
  <2>2. pc'[q] = pc[q] \/ pc'[q] = at BY <1>2, <1>4, <1>7
  <2>3. at \notin Executing /\ at # "recording" BY DEF Promoting, Executing
  <2> QED BY <2>1, <2>2, <2>3 DEF SameBarriers, GoesOn
<1> QED BY <1>6, <1>7

(* The end of a host lets all Runs go on.                                  *)
LEMMA EndGoesOn ==
  ASSUME TypeOK, NEW h \in Hosts, SameBarriers(run'), EndHost(h)
  PROVE  \A q \in Runs : GoesOn(q)
<1>1. /\ h \in Tasks /\ Runs \subseteq Tasks
      /\ pc \in [Tasks -> RunPoints \cup CallerPoints \cup InputPoints]
  BY DEF Tasks, Hosts, TypeOK, ControlPoints
<1>2. \A q \in Runs : pc'[q] = pc[q] \/ pc'[q] \in {"done", "idle"}
  BY <1>1 DEF EndHost
<1>3. \A q \in Runs :
        /\ pc'[q] \in Executing => pc[q] \in Executing
        /\ pc'[q] = "recording" => pc[q] = "recording"
  BY <1>2 DEF Executing
<1> QED BY <1>3, AllGoOn

(* Serving the pending work, or declining to.                              *)
LEMMA QueueGoesOn ==
  ASSUME TypeOK, NEW h \in Hosts, h \in Runs => pc[h] # "absent",
         NEW runs \in [Runs -> RunRecord], SameBarriers(runs),
         NEW isPaused, NEW holder,
         NoPromotion(h, runs) \/ TryPromoteQueue(h, runs, isPaused, holder)
  PROVE  \A q \in Runs : GoesOn(q) \/ IsNew(q)
<1>1. CASE NoPromotion(h, runs)
  BY <1>1, EndGoesOn DEF NoPromotion
<1>2. CASE Promote(h, "queue", Head(queue), "yielding", runs)
  BY <1>2, PromoteGoesOn DEF Promoting
<1> QED BY <1>1, <1>2 DEF TryPromoteQueue

(* So does a promotion of pending work of either kind.                     *)
LEMMA PendingGoesOn ==
  ASSUME TypeOK, NEW h \in Hosts, h \in Runs => pc[h] # "absent",
         NEW holder, TryPromotePending(h, run, holder)
  PROVE  \A q \in Runs : GoesOn(q) \/ IsNew(q)
<1>1. run \in [Runs -> RunRecord] /\ SameBarriers(run)
  BY DEF TypeOK, StateTypes, SameBarriers, SameIdentity
<1>2. CASE NoPromotion(h, run) \/ TryPromoteQueue(h, run, paused, holder)
  BY <1>1, <1>2, QueueGoesOn
<1>3. CASE Promote(h, "steer", Head(fallbackQ), "activatingFallback", run)
  BY <1>1, <1>3, PromoteGoesOn DEF Promoting
<1> QED BY <1>2, <1>3 DEF TryPromotePending

(* Every step of a promotion: the barrier it sets is that of the Run whose *)
(* input it has just seen written.                                         *)
LEMMA HostStepGoesOn ==
  ASSUME TypeOK, Promotions, NEW h \in Hosts, HostStep(h)
  PROVE  JournalGrows /\ \A q \in Runs : GoesOn(q) \/ IsNew(q)
<1> USE DEF Goto
<1>1. pc[h] \in Promoting
  BY DEF Promoting, HostStep, FallbackActivated, FallbackAbandoned,
         FallbackGathered, FallbackNotified, Yielded, QueuedInputRecorded,
         QueuedInputKept, QueueNotified, QueueGathered, GatherInterrupted
<1>0. promo[h] \in Runs /\ promo[h] # None
  BY <1>1, RuntimeAssumption DEF TypeOK, ControlPoints
<1>z. /\ run \in [Runs -> RunRecord]
      /\ journal \in Seq(Record) /\ SameBarriers(run)
      /\ h \in Tasks /\ Runs \subseteq Tasks /\ (h \in Runs => pc[h] # "absent")
      /\ pc \in [Tasks -> RunPoints \cup CallerPoints \cup InputPoints]
  BY <1>0, <1>1
  DEF TypeOK, StateTypes, ControlPoints, SameIdentity, SameBarriers, Tasks,
      Hosts, Promoting
<1>y. PICK b \in Runs : b = promo[h]
  BY <1>0
<1>2. /\ b = promo[h] /\ run[b] \in RunRecord
      /\ run \in [Runs -> RunRecord]
      /\ journal \in Seq(Record) /\ SameBarriers(run)
      /\ h \in Tasks /\ Runs \subseteq Tasks /\ (h \in Runs => pc[h] # "absent")
      /\ pc \in [Tasks -> RunPoints \cup CallerPoints \cup InputPoints]
  BY <1>y, <1>z
<1>3. ASSUME NEW at \in Promoting, pc' = [pc EXCEPT ![h] = at]
      PROVE  \A q \in Runs : /\ pc'[q] \in Executing => pc[q] \in Executing
                             /\ pc'[q] = "recording" => pc[q] = "recording"
  <2>1. at \notin Executing /\ at # "recording" BY DEF Promoting, Executing
  <2> QED BY <1>2, <1>3, <2>1
<1>4. ASSUME NEW at \in Promoting, pc' = [pc EXCEPT ![h] = at],
             run' = run \/ (\E g : run' = [run EXCEPT ![b].gate = g])
      PROVE  \A q \in Runs : GoesOn(q)
  <2>1. SameBarriers(run') BY <1>2, <1>4, SameBarrierUpdates
  <2> QED BY <1>3, <1>4, <2>1, AllGoOn
<1>5. ASSUME EndHost(h), run' = run \/ (\E g : run' = [run EXCEPT ![b].gate = g])
      PROVE  \A q \in Runs : GoesOn(q)
  <2>1. SameBarriers(run') BY <1>2, <1>5, SameBarrierUpdates
  <2> QED BY <1>5, <2>1, EndGoesOn
<1>6. ASSUME NEW x, run' = [run EXCEPT ![b] = x], SameIdentity(x, run[b]),
             \/ x.barrier = run[b].barrier
             \/ run[b].barrier = "pending" /\ x.barrier = "failed"
             \/ x.barrier = "ok" /\ InputIsDurable(b)',
             \A q \in Runs : /\ pc'[q] \in Executing => pc[q] \in Executing
                             /\ pc'[q] = "recording" => pc[q] = "recording"
      PROVE  \A q \in Runs : GoesOn(q)
  <2>1. run'[b] = x /\ \A q \in Runs \ {b} : run'[q] = run[q] BY <1>2, <1>6
  <2>2. GoesOn(b) BY <1>2, <1>6, <2>1 DEF GoesOn
  <2>3. \A q \in Runs \ {b} : GoesOn(q) BY <1>6, <2>1 DEF GoesOn, SameIdentity
  <2> QED BY <2>2, <2>3
<1>7. ASSUME EndHost(h)
      PROVE  \A q \in Runs : /\ pc'[q] \in Executing => pc[q] \in Executing
                             /\ pc'[q] = "recording" => pc[q] = "recording"
  <2>1. \A q \in Runs : pc'[q] = pc[q] \/ pc'[q] \in {"done", "idle"}
    BY <1>2, <1>7 DEF EndHost
  <2> QED BY <2>1 DEF Executing
<1>a. CASE FallbackActivated(h)
  <2>1. run[b].origin = "steer"
    BY <1>0, <1>y, <1>a DEF FallbackActivated, Promotions, QueuePromotion
  <2>2. CASE /\ Written(h, "activated", <<run[b].carried>>, b)
             /\ run' = [run EXCEPT ![b].barrier = IF @ = "pending" THEN "ok" ELSE @]
             /\ pc' = [pc EXCEPT ![h] = "notifyingFallback"]
    <3> DEFINE x == [run[b] EXCEPT !.barrier = IF @ = "pending" THEN "ok" ELSE @]
    <3>1. run' = [run EXCEPT ![b] = x] BY <1>2, <2>2
    <3>2. SameIdentity(x, run[b]) /\ x.barrier \in {run[b].barrier, "ok"}
      BY <1>2 DEF RunRecord, SameIdentity
    <3> HIDE DEF x
    <3>3. run'[b].origin = "steer" /\ run'[b].carried = run[b].carried
      BY <1>2, <2>1, <3>1, <3>2 DEF SameIdentity
    <3>4. JournalGrows /\ HasRecord("activated", <<run[b].carried>>, b)'
      BY <1>2, <2>2, RecordWritten
    <3>5. InputIsDurable(b)' BY <3>3, <3>4 DEF InputIsDurable, HasRecord
    <3>6. "notifyingFallback" \in Promoting BY DEF Promoting
    <3> QED BY <1>3, <1>6, <2>2, <3>1, <3>2, <3>4, <3>5, <3>6
  <2>3. CASE /\ WriteFails(h) /\ run' = [run EXCEPT ![b] = BarrierFailed(@)]
             /\ pc' = [pc EXCEPT ![h] = "abandoning"]
    <3>1. run' = [run EXCEPT ![b] = BarrierFailed(run[b])] BY <1>2, <2>3
    <3>2. "abandoning" \in Promoting BY DEF Promoting
    <3> QED
      BY <1>2, <1>3, <1>6, <2>3, <3>1, <3>2, StreamingKeeps
      DEF WriteFails, JournalGrows
  <2> QED BY <1>2, <1>a, <2>2, <2>3 DEF FallbackActivated
<1>b. CASE FallbackAbandoned(h)
  <2>1. JournalGrows
    BY <1>2, <1>b, RecordWritten
    DEF FallbackAbandoned, WriteFails, JournalGrows
  <2>2. /\ pc' = [pc EXCEPT ![h] = "gatheringFallback"]
        /\ run' = [run EXCEPT ![b].gate = TRUE]
    BY <1>2, <1>b DEF FallbackAbandoned, AbandonRun
  <2> QED BY <1>4, <2>1, <2>2 DEF Promoting
<1>c. CASE FallbackGathered(h)
  BY <1>2, <1>c, QueueGoesOn DEF FallbackGathered, JournalGrows
<1>d. CASE FallbackNotified(h)
  <2> DEFINE runs == [run EXCEPT ![b].gate = TRUE]
  <2>1. runs \in [Runs -> RunRecord] BY <1>2, GateSet
  <2>2. SameBarriers(runs) BY <1>2 DEF SameBarriers, SameIdentity, RunRecord
  <2>3. JournalGrows BY <1>d DEF FallbackNotified, JournalGrows
  <2>4. NoPromotion(h, runs) \/ TryPromoteQueue(h, runs, paused, maintenance)
    BY <1>2, <1>d DEF FallbackNotified
  <2> HIDE DEF runs
  <2> QED BY <1>2, <2>1, <2>2, <2>3, <2>4, QueueGoesOn
<1>e. CASE Yielded(h)
  <2>1. JournalGrows /\ run' = run BY <1>e DEF Yielded, JournalGrows
  <2>2. EndHost(h) \/ pc' = [pc EXCEPT ![h] = "journalingQueued"]
    BY <1>e DEF Yielded
  <2> QED BY <1>4, <1>5, <2>1, <2>2 DEF Promoting
<1>f. CASE QueuedInputRecorded(h)
  <2> DEFINE x == [run[b] EXCEPT !.barrier = IF @ = "pending" THEN "ok" ELSE @,
                                 !.gate = deferred[h]]
  <2>1. run[b].origin = "queue"
    BY <1>0, <1>y, <1>f DEF QueuedInputRecorded, Promotions, QueuePromotion
  <2>2. Written(h, "user_message", <<run[b].carried>>, b)
    BY <1>2, <1>f DEF QueuedInputRecorded
  <2>3. run' = [run EXCEPT ![b] = x]
    BY <1>2, <1>f DEF QueuedInputRecorded
  <2>4. SameIdentity(x, run[b]) /\ x.barrier \in {run[b].barrier, "ok"}
    BY <1>2 DEF RunRecord, SameIdentity
  <2> HIDE DEF x
  <2>5. run'[b].origin = "queue" /\ run'[b].carried = run[b].carried
    BY <1>2, <2>1, <2>3, <2>4 DEF SameIdentity
  <2>6. JournalGrows /\ HasRecord("user_message", <<run[b].carried>>, b)'
    BY <1>2, <2>2, <2>5, RecordWritten
  <2>7. InputIsDurable(b)' BY <2>5, <2>6 DEF InputIsDurable, HasRecord
  <2>8. EndHost(h) \/ pc' = [pc EXCEPT ![h] = "notifyingQueued"]
    BY <1>f DEF QueuedInputRecorded
  <2>9. "notifyingQueued" \in Promoting BY DEF Promoting
  <2>10. \A q \in Runs : /\ pc'[q] \in Executing => pc[q] \in Executing
                         /\ pc'[q] = "recording" => pc[q] = "recording"
    BY <1>3, <1>7, <2>8, <2>9
  <2> QED BY <1>6, <2>3, <2>4, <2>6, <2>7, <2>10
<1>g. CASE QueuedInputKept(h)
  <2> DEFINE x == [BarrierFailed(run[b]) EXCEPT !.gate = TRUE]
  <2>1. JournalGrows BY <1>g DEF QueuedInputKept, WriteFails, JournalGrows
  <2>2. run' = [run EXCEPT ![b] = x] /\ pc' = [pc EXCEPT ![h] = "gatheringQueue"]
    BY <1>2, <1>g DEF QueuedInputKept, AbandonRun
  <2>3. /\ SameIdentity(x, run[b])
        /\ \/ x.barrier = run[b].barrier
           \/ run[b].barrier = "pending" /\ x.barrier = "failed"
    BY <1>2 DEF RunRecord, SameIdentity, BarrierFailed
  <2>4. "gatheringQueue" \in Promoting BY DEF Promoting
  <2> HIDE DEF x
  <2> QED BY <1>3, <1>6, <2>1, <2>2, <2>3, <2>4
<1>h. CASE QueueNotified(h) \/ QueueGathered(h) \/ GatherInterrupted(h)
  <2>1. JournalGrows
    BY <1>h DEF QueueNotified, QueueGathered, GatherInterrupted, JournalGrows
  <2>2. /\ EndHost(h)
        /\ run' = run \/ run' = [run EXCEPT ![b].gate = TRUE]
    BY <1>2, <1>h DEF QueueNotified, QueueGathered, GatherInterrupted
  <2> QED BY <1>5, <2>1, <2>2
<1> QED BY <1>a, <1>b, <1>c, <1>d, <1>e, <1>f, <1>g, <1>h DEF HostStep

(* Submissions and the operations of the user write no barrier, except in  *)
(* the record of a Run they start.                                         *)
LEMMA OtherGoesOn ==
  ASSUME TypeOK, UserStep \/ \E i \in Input : SubmissionStep(i),
         ~\E r \in Runs : ApprovalReturns(r) \/ AgentFails(r)
  PROVE  JournalGrows /\ \A q \in Runs : GoesOn(q) \/ IsNew(q)
<1> USE DEF Goto
<1>1. /\ SameBarriers(run) /\ run \in [Runs -> RunRecord] /\ journal \in Seq(Record)
      /\ Runs \subseteq Tasks /\ Runs \cap Input = {} /\ Runs \cap Callers = {}
      /\ Input \subseteq Tasks /\ Callers \subseteq Tasks
      /\ pc \in [Tasks -> RunPoints \cup CallerPoints \cup InputPoints]
      /\ sub \in [Input -> [target : Runs \cup {None},
                            behaviour : {"none", "steer", "queue"}]]
  BY RuntimeAssumption
  DEF TypeOK, StateTypes, ControlPoints, SameBarriers, SameIdentity, Tasks, Hosts
<1>2. ASSUME SameBarriers(run'),
             pc' = pc \/ \E t \in Input \cup Callers : \E at :
                           pc' = [pc EXCEPT ![t] = at]
      PROVE  \A q \in Runs : GoesOn(q)
  <2>1. \A q \in Runs : pc'[q] = pc[q] BY <1>1, <1>2
  <2> QED BY <1>2, <2>1, AllGoOn
<1>a. ASSUME NEW i \in Input, SubmissionStep(i)
      PROVE  JournalGrows /\ \A q \in Runs : GoesOn(q)
  <2>1. JournalGrows
    BY <1>1, <1>a, RecordWritten
    DEF SubmissionStep, Admit, Refuse, SteerRecorded, SteerNotified, WriteFails,
        JournalGrows
  <2>2. \E at : pc' = [pc EXCEPT ![i] = at]
    BY <1>a DEF SubmissionStep, Admit, Refuse, SteerRecorded, SteerNotified
  <2> DEFINE r == sub[i].target
  <2>3. run' = run \/ \E c : run' = [run EXCEPT ![r].ctl = c]
    BY <1>a DEF SubmissionStep, Admit, Refuse, SteerRecorded, SteerNotified
  <2> HIDE DEF r
  <2>5. ASSUME run' = run PROVE SameBarriers(run')
    BY <2>5 DEF SameBarriers, SameIdentity
  <2>6. ASSUME NEW c, run' = [run EXCEPT ![r].ctl = c]
        PROVE  SameBarriers(run')
    <3>1. CASE r \notin Runs
      <4>1. \A q \in Runs : run'[q] = run[q] BY <1>1, <2>6, <3>1
      <4> QED BY <4>1 DEF SameBarriers, SameIdentity
    <3>2. ASSUME NEW q \in Runs, r = q PROVE SameBarriers(run')
      <4>1. run' = [run EXCEPT ![q].ctl = c] BY <2>6, <3>2
      <4> QED BY <4>1, SameBarrierUpdates
    <3> QED BY <3>1, <3>2
  <2>7. SameBarriers(run') BY <2>3, <2>5, <2>6
  <2> QED BY <1>2, <2>1, <2>2, <2>7
<1>b. ASSUME NEW o \in {"user", "application"}, NEW x \in Behaviours, StartRun(o, x)
      PROVE  JournalGrows /\ \A q \in Runs : GoesOn(q) \/ IsNew(q)
  <2>1. Next1 \in Runs
    BY <1>b, RuntimeAssumption DEF StartRun, Next1, Runs, TypeOK, StateTypes
  <2> DEFINE n == Next1
             rec == CreatedRun(o, None, x)
  <2>2. /\ run' = [run EXCEPT ![n] = rec] /\ pc' = [pc EXCEPT ![n] = "created"]
        /\ JournalGrows
    BY <1>b DEF StartRun, JournalGrows
  <2>3. rec.origin = o /\ (rec.barrier = "ok" <=> o = "application")
    BY DEF CreatedRun
  <2> HIDE DEF n, rec
  <2>4. n \in Runs BY <2>1 DEF n
  <2>5. IsNew(n) BY <1>1, <2>2, <2>3, <2>4 DEF IsNew
  <2>6. \A q \in Runs \ {n} : run'[q] = run[q] /\ pc'[q] = pc[q]
    BY <1>1, <2>2, <2>4
  <2>7. \A q \in Runs \ {n} : GoesOn(q) BY <2>6 DEF GoesOn, SameIdentity
  <2> QED BY <2>2, <2>5, <2>7
<1>c. ASSUME NEW c \in Callers, ResumeQueue(c)
      PROVE  JournalGrows /\ \A q \in Runs : GoesOn(q) \/ IsNew(q)
  <2>1. JournalGrows BY <1>c DEF ResumeQueue, Unchanged4User, JournalGrows
  <2>2. c \in Hosts /\ c \notin Runs BY <1>1 DEF Hosts
  <2>3. TryPromoteQueue(c, run, FALSE, maintenance) BY <1>c DEF ResumeQueue
  <2> QED BY <1>1, <2>1, <2>2, <2>3, QueueGoesOn
<1>d. CASE CancelRun
  <2>1. active \in Runs BY <1>d DEF CancelRun, TypeOK, StateTypes
  <2>2. SameBarriers(run')
    BY <1>d, <2>1, SameBarrierUpdates DEF CancelRun
  <2> QED BY <1>2, <1>d, <2>2 DEF CancelRun, Unchanged4User, JournalGrows
<1>e. CASE \/ \E i \in Input, b \in Behaviours : Submit(i, b)
           \/ \E i \in Input : RemoveQueuedInput(i)
           \/ \E c \in Callers, a \in BOOLEAN : ReserveSession(c, a)
           \/ ClearQueue \/ BeginClose
  <2>1. JournalGrows /\ run' = run
    BY <1>e DEF Submit, RemoveQueuedInput, ReserveSession, ClearQueue,
                BeginClose, Unchanged4User, JournalGrows
  <2>2. pc' = pc \/ \E t \in Input \cup Callers : \E at : pc' = [pc EXCEPT ![t] = at]
    BY <1>e DEF Submit, RemoveQueuedInput, ReserveSession, ClearQueue, BeginClose
  <2> QED BY <1>1, <1>2, <2>1, <2>2
<1> QED BY <1>a, <1>b, <1>c, <1>d, <1>e DEF UserStep

(* The invariant is inductive.                                             *)
LEMMA BarrierNext ==
  ASSUME TypeOK, Promotions, BarrierTells, [Next]_vars
  PROVE  BarrierTells'
<1>1. ASSUME NEW r \in Runs, RunStep(r) \/ ApprovalReturns(r) \/ AgentFails(r)
      PROVE  BarrierTells'
  <2>1. CASE RunEndNotified(r)
    <3>1. r \in Hosts /\ pc[r] # "absent" /\ JournalGrows
      BY <2>1 DEF RunEndNotified, Hosts, JournalGrows
    <3> QED BY <2>1, <3>1, PendingGoesOn, BarrierStep DEF RunEndNotified
  <2>2. CASE ~RunEndNotified(r)
    BY <1>1, <2>2, RunStepGoesOn, BarrierStep
  <2> QED BY <2>1, <2>2
<1>2. ASSUME NEW h \in Hosts, HostStep(h)
      PROVE  BarrierTells'
  BY <1>2, HostStepGoesOn, BarrierStep
<1>3. ASSUME NEW c \in Callers, ReleaseSession(c)
      PROVE  BarrierTells'
  <2>1. c \in Hosts /\ c \notin Runs /\ JournalGrows
    BY <1>3, RuntimeAssumption DEF Hosts, ReleaseSession, JournalGrows
  <2> QED BY <1>3, <2>1, PendingGoesOn, BarrierStep DEF ReleaseSession
<1>4. ASSUME run' = run, pc' = pc, journal' = journal
      PROVE  BarrierTells'
  BY <1>4 DEF BarrierTells, InputIsDurable, HasRecord
<1>5. CASE \/ \E t \in Tasks : AbsorbCancellation(t)
           \/ EndClose \/ UNCHANGED vars
  BY <1>4, <1>5 DEF AbsorbCancellation, EndClose, vars
<1>6. CASE UserStep \/ \E i \in Input : SubmissionStep(i)
  BY <1>1, <1>6, OtherGoesOn, BarrierStep
<1> QED BY <1>1, <1>2, <1>3, <1>5, <1>6 DEF Next, AtRest

-----------------------------------------------------------------------------
(* Whatever fails, is cancelled or is stopped, and however many Runs and   *)
(* promotions there are: while the Agent of a Run executes, the input it   *)
(* started from is in the journal.                                         *)
THEOREM InputDurable == Spec => []InputDurableBeforeAgent
<1>1. Init => BarrierTells
  <2>1. "absent" \notin Executing BY DEF Executing
  <2> QED
    BY <2>1, RuntimeAssumption DEF Init, BarrierTells, BlankRun, Tasks, Hosts
<1>2. TypeOK /\ Promotions /\ BarrierTells /\ [Next]_vars => BarrierTells'
  BY BarrierNext
<1>3. BarrierTells => InputDurableBeforeAgent
  BY DEF BarrierTells, InputDurableBeforeAgent
<1> QED BY <1>1, <1>2, <1>3, TypeCorrect, PTL DEF Spec

-----------------------------------------------------------------------------
(***************************************************************************)
(* The end of a Run that was stopped or failed does not start what was     *)
(* queued behind it.  Such an end pauses the queue if there is anything in *)
(* it, and nothing comes in behind a Run that has left the registry; only  *)
(* the user takes the pause back, and that starts a Run from the queue or  *)
(* finds a steer in the way, which stays there while the queue has items.  *)
(***************************************************************************)

(* The awaits of a Run after its cleanup.                                  *)
AtTail == Promoting \cup {"ending", "done"}

WaitsBehind(r) == \E k \in DOMAIN queue : sub[queue[k]].target = r
Follows(q, r) == q > r /\ pc[q] # "absent" /\ run[q].origin = "queue"

(* What keeps the tail of r from starting what waits behind it.            *)
HeldBack(r) == paused \/ fallbackQ # <<>> \/ \E q \in Runs : Follows(q, r)

QueueHeld ==
  \A r \in Runs : pc[r] \in AtTail =>
    /\ active # r
    /\ run[r].status # "completed" /\ WaitsBehind(r) => HeldBack(r)

(* A Run there is keeps its origin.                                        *)
OriginsStay ==
  \A q \in Runs : pc[q] # "absent" =>
    pc'[q] # "absent" /\ run'[q].origin = run[q].origin

(* A Run keeps its place after the cleanup, out of the registry, and its   *)
(* status.                                                                 *)
TailStays(r) ==
  pc'[r] \in AtTail /\ active' # r /\ run'[r].status = run[r].status

(* A Run comes to its tail with the queue empty or paused, unless it is    *)
(* completed.                                                              *)
TailEntered(r) ==
  /\ active' # r
  /\ run'[r].status = "completed" \/ paused' \/ queue' = <<>>

(* Nothing comes to wait behind r, and what holds it back does so still.   *)
StaysBehind(r) ==
  WaitsBehind(r)' => HeldBack(r)' \/ (WaitsBehind(r) /\ ~HeldBack(r))

KeepsQueue ==
  \A r \in Runs :
    /\ pc[r] \in AtTail => TailStays(r) /\ StaysBehind(r)
    /\ pc[r] \notin AtTail /\ pc'[r] \in AtTail => TailEntered(r)

(* Such steps keep the queue held.                                         *)
LEMMA HeldStep == QueueHeld /\ KeepsQueue => QueueHeld'
<1> SUFFICES ASSUME QueueHeld, KeepsQueue, NEW r \in Runs, pc'[r] \in AtTail
             PROVE  /\ active' # r
                    /\ run'[r].status # "completed" /\ WaitsBehind(r)' => HeldBack(r)'
  BY DEF QueueHeld
<1>1. CASE pc[r] \in AtTail
  BY <1>1 DEF QueueHeld, KeepsQueue, TailStays, StaysBehind
<1>2. CASE pc[r] \notin AtTail
  <2>1. TailEntered(r) BY <1>2 DEF KeepsQueue
  <2>2. queue' = <<>> => ~WaitsBehind(r)' BY DEF WaitsBehind
  <2> QED BY <2>1, <2>2 DEF TailEntered, HeldBack
<1> QED BY <1>1, <1>2

(* The queue stays as it is, and what holds it back.                       *)
LEMMA SameBehind ==
  ASSUME OriginsStay, queue' = queue, sub' = sub, paused => paused',
         fallbackQ # <<>> => fallbackQ' # <<>>, NEW r \in Runs
  PROVE  StaysBehind(r)
<1>1. WaitsBehind(r)' <=> WaitsBehind(r) BY DEF WaitsBehind
<1>2. \A q \in Runs : Follows(q, r) => Follows(q, r)'
  BY DEF OriginsStay, Follows
<1>3. HeldBack(r) => HeldBack(r)' BY <1>2 DEF HeldBack
<1> QED BY <1>1, <1>3 DEF StaysBehind

(* The Run table "runs" differs in neither origins nor statuses.           *)
SameStatus(runs) ==
  \A q \in Runs : runs[q].origin = run[q].origin /\ runs[q].status = run[q].status

(* The updates of one record that leave both alone.                        *)
LEMMA StatusUpdates ==
  ASSUME TypeOK, run' = run \/ \E r \in Runs :
           \/ \E c : run' = [run EXCEPT ![r].ctl = c]
           \/ \E g : run' = [run EXCEPT ![r].gate = g]
           \/ \E b : run' = [run EXCEPT ![r].barrier = b]
           \/ \E b, g : run' = [run EXCEPT ![r].barrier = b, ![r].gate = g]
           \/ \E c, x : run' = [run EXCEPT ![r].phase = x, ![r].ctl = c]
           \/ run' = [run EXCEPT ![r] = BarrierFailed(@)]
           \/ run' = [run EXCEPT ![r] = [BarrierFailed(@) EXCEPT !.gate = TRUE]]
  PROVE  SameStatus(run')
<1>1. run \in [Runs -> RunRecord] BY DEF TypeOK, StateTypes
<1>2. CASE run' = run BY <1>2 DEF SameStatus
<1>3. ASSUME NEW r \in Runs, NEW x, run' = [run EXCEPT ![r] = x],
             x.origin = run[r].origin, x.status = run[r].status
      PROVE  SameStatus(run')
  BY <1>1, <1>3 DEF SameStatus
<1>4. ASSUME NEW r \in Runs, NEW c, run' = [run EXCEPT ![r].ctl = c]
      PROVE  SameStatus(run')
  BY <1>1, <1>4 DEF SameStatus, RunRecord
<1>5. ASSUME NEW r \in Runs, NEW g, run' = [run EXCEPT ![r].gate = g]
      PROVE  SameStatus(run')
  BY <1>1, <1>5 DEF SameStatus, RunRecord
<1>6. ASSUME NEW r \in Runs, NEW b, run' = [run EXCEPT ![r].barrier = b]
      PROVE  SameStatus(run')
  BY <1>1, <1>6 DEF SameStatus, RunRecord
<1>7. ASSUME NEW r \in Runs, NEW b, NEW g,
             run' = [run EXCEPT ![r].barrier = b, ![r].gate = g]
      PROVE  SameStatus(run')
  <2> DEFINE x == [run[r] EXCEPT !.barrier = b, !.gate = g]
  <2>1. run' = [run EXCEPT ![r] = x] BY <1>1, <1>7
  <2>2. x.origin = run[r].origin /\ x.status = run[r].status
    BY <1>1 DEF RunRecord
  <2> HIDE DEF x
  <2> QED BY <1>3, <2>1, <2>2
<1>8. ASSUME NEW r \in Runs, NEW c, NEW y,
             run' = [run EXCEPT ![r].phase = y, ![r].ctl = c]
      PROVE  SameStatus(run')
  <2> DEFINE x == [run[r] EXCEPT !.phase = y, !.ctl = c]
  <2>1. run' = [run EXCEPT ![r] = x] BY <1>1, <1>8
  <2>2. x.origin = run[r].origin /\ x.status = run[r].status
    BY <1>1 DEF RunRecord
  <2> HIDE DEF x
  <2> QED BY <1>3, <2>1, <2>2
<1>9. ASSUME NEW r \in Runs, \/ run' = [run EXCEPT ![r] = BarrierFailed(@)]
                             \/ run' = [run EXCEPT ![r] = [BarrierFailed(@) EXCEPT !.gate = TRUE]]
      PROVE  SameStatus(run')
  <2> DEFINE x == BarrierFailed(run[r])
             y == [x EXCEPT !.gate = TRUE]
  <2>1. run' = [run EXCEPT ![r] = x] \/ run' = [run EXCEPT ![r] = y]
    BY <1>1, <1>9
  <2>2. x \in RunRecord /\ x.origin = run[r].origin /\ x.status = run[r].status
    <3>1. run[r] \in RunRecord BY <1>1
    <3>2. x \in RunRecord BY <3>1, RecordOps
    <3> QED BY <3>1, <3>2 DEF RunRecord, BarrierFailed
  <2> HIDE DEF x
  <2>3. y.origin = run[r].origin /\ y.status = run[r].status
    BY <2>2 DEF RunRecord
  <2> HIDE DEF y
  <2> QED BY <1>3, <2>1, <2>2, <2>3
<1> QED BY <1>2, <1>4, <1>5, <1>6, <1>7, <1>8, <1>9

(* A step that moves no Run to its tail or off it.                         *)
LEMMA QuietKeeps ==
  ASSUME TypeOK, QueueHeld, SameStatus(run'), active' \in {active, None},
         \A r \in Runs : /\ pc[r] \in AtTail <=> pc'[r] \in AtTail
                         /\ pc[r] \in AtTail => StaysBehind(r)
  PROVE  KeepsQueue
BY RuntimeAssumption DEF KeepsQueue, TailStays, SameStatus, QueueHeld

(* Where the cleanup of a Run ends.                                        *)
SettlesWell(r) ==
  /\ \A q \in Runs \ {r} : run'[q] = run[q]
  /\ active' \in {active, None} /\ (paused => paused')
  /\ fallbackQ # <<>> => fallbackQ' # <<>>
  /\ pc'[r] \notin (AtTail \ {"ending"}) \cup {"absent"}
  /\ pc'[r] = "ending" =>
       /\ active' # r
       /\ run'[r].status = "completed" \/ paused' \/ queue = <<>>

(* A cleanup that is over has the queue paused, unless the Run completed.  *)
LEMMA SettleEnters ==
  ASSUME TypeOK, NEW r \in Runs, NEW rec \in RunRecord, NEW w, Settle(r, rec, w)
  PROVE  SettlesWell(r)
<1>1. /\ run \in [Runs -> RunRecord] /\ r \in Tasks /\ None \notin Runs
      /\ pc \in [Tasks -> RunPoints \cup CallerPoints \cup InputPoints]
      /\ fallbackQ \in Seq(Input) /\ rec.ctl.fallback \in Seq(Input)
  BY RuntimeAssumption
  DEF TypeOK, StateTypes, ControlPoints, Tasks, Hosts, RunRecord, Control
<1>2. {"aborted", "discarding"} \cap AtTail = {}
  BY DEF AtTail, Promoting
<1> DEFINE emptied == [rec EXCEPT !.ctl = EmptiedControl(@)]
<1>3. emptied \in RunRecord /\ emptied.status = rec.status
  <2>1. EmptiedControl(rec.ctl) \in Control BY ControlOps DEF RunRecord
  <2> QED BY <2>1 DEF RunRecord
<1>4. CASE /\ rec.status = "completed" /\ run' = [run EXCEPT ![r] = emptied]
           /\ fallbackQ' = fallbackQ \o rec.ctl.fallback
           /\ Deregister(r) /\ Goto(r, "ending") /\ UNCHANGED paused
  <2>1. fallbackQ # <<>> => fallbackQ' # <<>>
    BY <1>1, <1>4, ConcatProperties, EmptySeq
  <2> HIDE DEF emptied
  <2>2. run'[r] = emptied /\ \A q \in Runs \ {r} : run'[q] = run[q] BY <1>1, <1>4
  <2>3. active' \in {active, None} /\ active' # r BY <1>1, <1>4 DEF Deregister
  <2>4. pc'[r] = "ending" BY <1>1, <1>4 DEF Goto
  <2> QED BY <1>3, <1>4, <2>1, <2>2, <2>3, <2>4 DEF SettlesWell
<1>5. CASE /\ run' = [run EXCEPT ![r] = rec] /\ Goto(r, "aborted")
           /\ UNCHANGED <<fallbackQ, active, paused>>
  BY <1>1, <1>2, <1>5 DEF SettlesWell, Goto
<1>6. CASE /\ run' = [run EXCEPT ![r] = emptied] /\ paused' = QueuePaused
           /\ Deregister(r) /\ Goto(r, "ending") /\ UNCHANGED fallbackQ
  <2> HIDE DEF emptied
  <2>1. run'[r] = emptied /\ \A q \in Runs \ {r} : run'[q] = run[q] BY <1>1, <1>6
  <2>2. active' \in {active, None} /\ active' # r BY <1>1, <1>6 DEF Deregister
  <2>3. pc'[r] = "ending" BY <1>1, <1>6 DEF Goto
  <2> QED BY <1>6, <2>1, <2>2, <2>3 DEF SettlesWell, QueuePaused
<1>7. CASE /\ run' = [run EXCEPT ![r] = [emptied EXCEPT !.staged = Steers(rec.ctl)]]
           /\ Goto(r, "discarding") /\ UNCHANGED <<fallbackQ, active, paused>>
  BY <1>1, <1>2, <1>7 DEF SettlesWell, Goto
<1> QED BY <1>4, <1>5, <1>6, <1>7 DEF Settle

(* So with the "finally" block as a whole.                                 *)
LEMMA ConcludeEnters ==
  ASSUME TypeOK, NEW r \in Runs, NEW rec \in RunRecord, NEW w,
         NEW status \in {"completed", "cancelled", "failed"},
         Conclude(r, status, rec, w)
  PROVE  SettlesWell(r)
<1> DEFINE ctl == CloseSubmissions(UnbindStream(rec.ctl))
           ended == [rec EXCEPT !.status = status, !.phase = "stopping",
                                !.ctl = ctl]
<1>1. ctl \in Control
  BY DEF RunRecord, Control, CloseSubmissions, UnbindStream
<1>2. ended \in RunRecord BY <1>1 DEF RunRecord
<1>3. \/ Settle(r, ended, w)
      \/ /\ run' = [run EXCEPT ![r] = ended] /\ Goto(r, "waiting")
         /\ UNCHANGED <<fallbackQ, active, paused>>
  BY DEF Conclude
<1> HIDE DEF ended
<1>4. /\ run \in [Runs -> RunRecord] /\ r \in Tasks /\ "waiting" \notin AtTail
      /\ pc \in [Tasks -> RunPoints \cup CallerPoints \cup InputPoints]
  BY DEF TypeOK, StateTypes, ControlPoints, Tasks, Hosts, AtTail, Promoting
<1> QED BY <1>2, <1>3, <1>4, SettleEnters DEF SettlesWell, Goto

(* The steps of a Run before its tail.                                     *)
LEMMA RunSettles ==
  ASSUME TypeOK, NEW r \in Runs,
         RunStep(r) \/ AgentFails(r) \/ ApprovalReturns(r), ~RunEndNotified(r)
  PROVE  \/ CancelCallback(r) \/ RunEndInterrupted(r)
         \/ pc[r] \in Registered /\ SettlesWell(r)
<1> USE DEF Unchanged4Run, Unchanged4Settle, Goto, session
<1>1. /\ run \in [Runs -> RunRecord] /\ run[r] \in RunRecord
      /\ r \in Tasks /\ Runs \subseteq Tasks
      /\ pc \in [Tasks -> RunPoints \cup CallerPoints \cup InputPoints]
      /\ active \in Runs \cup {None} /\ None \notin Runs
      /\ Runs \cap Callers = {}
  BY RuntimeAssumption DEF TypeOK, StateTypes, ControlPoints, Tasks, Hosts
<1>6. pc[r] \in Registered \/ CancelCallback(r) \/ RunEndInterrupted(r)
  BY DEF RunStep, AgentFails, ApprovalReturns, FirstStep, NeverStarted,
         UserMessageRecorded, GateOpens, StreamEnds, BoundaryEmpty,
         StagingRefused, StageSteers, SteersActivated, LoopCompletes,
         RunCancelled, SubmissionsReady, CleanupInterrupted, DiscardRecorded,
         AtBoundary, Registered, Executing
<1>7. Registered \cap (AtTail \cup {"absent"}) = {}
  BY DEF Registered, Executing, AtTail, Promoting
<1>8. ASSUME NEW at \in Registered, pc' = [pc EXCEPT ![r] = at],
             \A q \in Runs \ {r} : run'[q] = run[q],
             active' = active, paused' = paused, fallbackQ' = fallbackQ
      PROVE  SettlesWell(r)
  <2>1. pc'[r] = at BY <1>1, <1>8
  <2>2. "ending" \in AtTail BY DEF AtTail
  <2> QED BY <1>7, <1>8, <2>1, <2>2 DEF SettlesWell
<1>9. ASSUME NEW st \in {"completed", "cancelled", "failed"}, NEW w,
             NEW rec \in {run[r], BarrierFailed(run[r])},
             Conclude(r, st, rec, w) \/ Settle(r, rec, w)
      PROVE  SettlesWell(r)
  BY <1>1, <1>9, RecordOps, SettleEnters, ConcludeEnters
<1>10. {"gated", "recording", "agent", "aborted", "approval", "boundary",
        "resuming", "closing", "activating"} \subseteq Registered
  BY DEF Registered, Executing
<1>a. ASSUME FirstStep(r) \/ NeverStarted(r) \/ CleanupInterrupted(r)
             \/ StreamEnds(r) \/ ApprovalReturns(r) \/ StageSteers(r)
             \/ BoundaryEmpty(r) \/ StagingRefused(r)
      PROVE  SettlesWell(r)
  <2>1. \E at \in {"gated", "recording", "agent", "aborted", "approval", "boundary",
                   "resuming", "closing", "activating"} : pc' = [pc EXCEPT ![r] = at]
    BY <1>a DEF FirstStep, NeverStarted, CleanupInterrupted, StreamEnds,
                ApprovalReturns, StageSteers, BoundaryEmpty, StagingRefused, Leave
  <2>2. \A q \in Runs \ {r} : run'[q] = run[q]
    BY <1>1, <1>a
    DEF FirstStep, NeverStarted, CleanupInterrupted, StreamEnds,
        ApprovalReturns, StageSteers, BoundaryEmpty, StagingRefused, Leave
  <2>3. active' = active /\ paused' = paused /\ fallbackQ' = fallbackQ
    BY <1>a DEF FirstStep, NeverStarted, CleanupInterrupted, StreamEnds,
                ApprovalReturns, StageSteers, BoundaryEmpty, StagingRefused
  <2> QED BY <1>8, <1>10, <2>1, <2>2, <2>3
<1>b. ASSUME UserMessageRecorded(r) \/ GateOpens(r)
      PROVE  SettlesWell(r)
  <2>1. CASE /\ pc' = [pc EXCEPT ![r] = "agent"]
             /\ \A q \in Runs \ {r} : run'[q] = run[q]
             /\ active' = active /\ paused' = paused /\ fallbackQ' = fallbackQ
    BY <1>8, <1>10, <2>1
  <2> QED BY <1>1, <1>9, <1>b, <2>1 DEF UserMessageRecorded, GateOpens
<1>c. ASSUME SteersActivated(r)
      PROVE  SettlesWell(r)
  <2> DEFINE rec == [run[r] EXCEPT !.ctl = MarkStaged(@, Len(run[r].staged)),
                                   !.staged = <<>>]
             unstaged == [run[r] EXCEPT !.staged = <<>>]
  <2>1. rec \in RunRecord /\ unstaged \in RunRecord
    <3>1. run[r].ctl \in Control /\ Len(run[r].staged) \in Nat
      BY <1>1 DEF RunRecord
    <3>2. MarkStaged(run[r].ctl, Len(run[r].staged)) \in Control
      BY <3>1, MarkStagedType
    <3> QED BY <1>1, <3>2, EmptySeq DEF RunRecord
  <2>2. \/ Conclude(r, "cancelled", rec, Unread)
        \/ Conclude(r, "failed", unstaged, Unread)
        \/ /\ pc' = [pc EXCEPT ![r] = "agent"]
           /\ \A q \in Runs \ {r} : run'[q] = run[q]
           /\ active' = active /\ paused' = paused /\ fallbackQ' = fallbackQ
    BY <1>1, <1>c DEF SteersActivated
  <2> HIDE DEF rec, unstaged
  <2> QED BY <1>8, <1>10, <2>1, <2>2, ConcludeEnters
<1>d. ASSUME LoopCompletes(r) \/ RunCancelled(r) \/ SubmissionsReady(r)
             \/ AgentFails(r)
      PROVE  SettlesWell(r)
  BY <1>9, <1>d DEF LoopCompletes, RunCancelled, SubmissionsReady, AgentFails
<1>e. ASSUME DiscardRecorded(r)
      PROVE  SettlesWell(r)
  <2>1. /\ \A q \in Runs \ {r} : run'[q] = run[q]
        /\ pc'[r] = "ending" /\ paused' = QueuePaused
        /\ active' \in {active, None} /\ active' # r /\ fallbackQ' = fallbackQ
    BY <1>1, <1>e DEF DiscardRecorded, Deregister
  <2> QED BY <2>1 DEF SettlesWell, QueuePaused
<1> QED
  BY <1>6, <1>a, <1>b, <1>c, <1>d, <1>e DEF RunStep

(* They keep the queue.                                                    *)
LEMMA RunKeepsQueue ==
  ASSUME TypeOK, QueueHeld, NEW r \in Runs,
         RunStep(r) \/ AgentFails(r) \/ ApprovalReturns(r), ~RunEndNotified(r)
  PROVE  KeepsQueue
<1> USE DEF Unchanged4Run, Unchanged4Settle, Goto, session
<1>1. /\ run \in [Runs -> RunRecord] /\ run[r] \in RunRecord
      /\ r \in Tasks /\ Runs \subseteq Tasks
      /\ pc \in [Tasks -> RunPoints \cup CallerPoints \cup InputPoints]
      /\ active \in Runs \cup {None} /\ None \notin Runs
      /\ Runs \cap Callers = {}
  BY RuntimeAssumption DEF TypeOK, StateTypes, ControlPoints, Tasks, Hosts
<1>2. /\ Origins(run') /\ started' = started
      /\ pc' = pc \/ \E at : pc' = [pc EXCEPT ![r] = at]
  BY IdentityRunStep
<1>3. queue' = queue /\ sub' = sub
  BY DEF RunStep, AgentFails, ApprovalReturns, CancelCallback, FirstStep,
         NeverStarted, UserMessageRecorded, GateOpens, StreamEnds,
         BoundaryEmpty, StagingRefused, StageSteers, SteersActivated,
         LoopCompletes, RunCancelled, SubmissionsReady, CleanupInterrupted,
         DiscardRecorded, RunEndInterrupted, Unchanged4Host
<1>4. ASSUME CancelCallback(r) \/ RunEndInterrupted(r)
      PROVE  KeepsQueue
  <2>1. /\ run' = run /\ active' = active /\ paused' = paused
        /\ fallbackQ' = fallbackQ
    BY <1>4 DEF CancelCallback, RunEndInterrupted
  <2>2. \A q \in Runs : pc'[q] = pc[q] \/ (q = r /\ pc[q] = "ending" /\ pc'[q] = "done")
    BY <1>1, <1>4 DEF CancelCallback, RunEndInterrupted
  <2>3. {"ending", "done"} \subseteq AtTail /\ "absent" \notin AtTail
    BY DEF AtTail, Promoting
  <2>4. OriginsStay BY <2>1, <2>2 DEF OriginsStay
  <2>5. \A q \in Runs : StaysBehind(q)
    BY <1>3, <2>1, <2>4, SameBehind
  <2> QED BY <2>1, <2>2, <2>3, <2>5, QuietKeeps DEF SameStatus
<1>5. ASSUME pc[r] \notin AtTail, SettlesWell(r)
      PROVE  KeepsQueue
  <2>1. \A q \in Runs \ {r} : pc'[q] = pc[q] BY <1>1, <1>2
  <2>2. OriginsStay
    BY <1>2, <1>5, <2>1
    DEF OriginsStay, Origins, SameOrigin, SameIdentity, SettlesWell
  <2>3. \A q \in Runs : StaysBehind(q)
    BY <1>3, <1>5, <2>2, SameBehind DEF SettlesWell
  <2>4. ASSUME NEW q \in Runs, pc[q] \in AtTail PROVE TailStays(q)
    BY <1>1, <1>5, <2>1, <2>4 DEF TailStays, SettlesWell, QueueHeld
  <2>5. ASSUME NEW q \in Runs, pc[q] \notin AtTail, pc'[q] \in AtTail
        PROVE  TailEntered(q)
    <3>1. q = r BY <2>1, <2>5
    <3> QED BY <1>3, <1>5, <2>5, <3>1 DEF TailEntered, SettlesWell
  <2> QED BY <2>3, <2>4, <2>5 DEF KeepsQueue
<1>6. Registered \cap (AtTail \cup {"absent"}) = {}
  BY DEF Registered, Executing, AtTail, Promoting
<1> QED BY <1>4, <1>5, <1>6, RunSettles

(* A host ends.                                                            *)
LEMMA EndKeepsQueue ==
  ASSUME TypeOK, QueueHeld, NEW h \in Hosts, h \in Runs => pc[h] \in AtTail,
         EndHost(h), SameStatus(run'), active' = active, queue' = queue,
         sub' = sub, fallbackQ' = fallbackQ, (paused => paused') \/ fallbackQ # <<>>
  PROVE  KeepsQueue
<1>1. /\ Runs \subseteq Tasks /\ h \in Tasks
      /\ pc \in [Tasks -> RunPoints \cup CallerPoints \cup InputPoints]
      /\ "done" \in AtTail /\ "absent" \notin AtTail
  BY DEF TypeOK, ControlPoints, Tasks, Hosts, AtTail, Promoting
<1>2. \A q \in Runs : pc'[q] = pc[q] \/ (q = h /\ pc'[q] = "done")
  BY <1>1 DEF EndHost
<1>3. OriginsStay BY <1>1, <1>2 DEF OriginsStay, SameStatus
<1>4. ASSUME NEW q \in Runs PROVE StaysBehind(q)
  <2>1. CASE paused => paused' BY <1>3, <2>1, SameBehind
  <2>2. CASE fallbackQ # <<>> BY <2>2 DEF StaysBehind, HeldBack
  <2> QED BY <2>1, <2>2
<1> QED BY <1>1, <1>2, <1>4, QuietKeeps

(* A promotion: what waits behind a Run in its tail is no more at the head *)
(* of the queue without a Run from the queue before it.                    *)
LEMMA PromoteKeepsQueue ==
  ASSUME TypeOK, QueueHeld, NEW h \in Hosts, h \in Runs => pc[h] \in AtTail,
         NEW origin, NEW i, NEW at \in Promoting,
         NEW runs \in [Runs -> RunRecord], SameStatus(runs),
         Promote(h, origin, i, at, runs),
         origin = "queue" \/ queue' = <<>>
  PROVE  KeepsQueue
<1>1. h \in Runs => pc[h] # "absent" BY DEF AtTail, Promoting
<1>2. Next1 \in Runs /\ h # Next1 BY <1>1, PointsPromote
<1>0. PICK n \in Runs : n = Next1 BY <1>2
<1> DEFINE rec == CreatedRun(origin, i, sub[i].behaviour)
<1>3. /\ run' = [runs EXCEPT ![n] = rec] /\ active' = n
      /\ pc' = [pc EXCEPT ![n] = "created", ![h] = at]
  BY <1>0 DEF Promote
<1>4. rec.origin = origin BY DEF CreatedRun
<1>5. \A q \in Runs : pc[q] # "absent" => n > q
  BY <1>0 DEF TypeOK, StateTypes, ControlPoints, Runs, Next1
<1>6. pc[n] = "absent" BY <1>0, <1>5 DEF Runs
<1> HIDE DEF rec
<1>7. /\ n \in Tasks /\ h \in Tasks /\ Runs \subseteq Tasks /\ n \in Runs /\ n # h
      /\ pc \in [Tasks -> RunPoints \cup CallerPoints \cup InputPoints]
      /\ at \in AtTail /\ {"absent", "created"} \cap AtTail = {} /\ at # "absent"
  BY <1>0, <1>2 DEF Tasks, Hosts, TypeOK, ControlPoints, AtTail, Promoting
<1>8. /\ pc'[n] = "created" /\ run'[n] = rec
      /\ \A q \in Runs \ {n} :
           /\ run'[q] = runs[q]
           /\ pc'[q] = pc[q] \/ (q = h /\ pc'[q] = at)
  BY <1>3, <1>7
<1>9. ASSUME NEW q \in Runs, pc[q] \in AtTail PROVE TailStays(q) /\ StaysBehind(q)
  <2>1. q # n /\ n > q BY <1>5, <1>6, <1>7, <1>9
  <2>2. TailStays(q) BY <1>3, <1>7, <1>8, <1>9, <2>1 DEF TailStays, SameStatus
  <2>3. CASE origin = "queue"
    <3>1. Follows(n, q)' BY <1>4, <1>8, <2>1, <2>3 DEF Follows
    <3> QED BY <2>2, <3>1 DEF StaysBehind, HeldBack
  <2>4. CASE queue' = <<>>
    <3>1. ~WaitsBehind(q)' BY <2>4 DEF WaitsBehind
    <3> QED BY <2>2, <3>1 DEF StaysBehind
  <2> QED BY <2>3, <2>4
<1>10. ASSUME NEW q \in Runs, pc[q] \notin AtTail, pc'[q] \in AtTail PROVE FALSE
  <2>1. q # n BY <1>7, <1>8, <1>10
  <2>2. q = h BY <1>8, <1>10, <2>1
  <2> QED BY <1>10, <2>2
<1> QED BY <1>9, <1>10 DEF KeepsQueue

(* Serving the queue, or declining to. The pause may have been taken back  *)
(* with a steer in the way.                                                *)
LEMMA ServeKeepsQueue ==
  ASSUME TypeOK, QueueHeld, NEW h \in Hosts, h \in Runs => pc[h] \in AtTail,
         NEW runs \in [Runs -> RunRecord], SameStatus(runs),
         NEW isPaused, NEW holder,
         \/ NoPromotion(h, runs) /\ queue' = queue
         \/ TryPromoteQueue(h, runs, isPaused, holder),
         sub' = sub, fallbackQ' = fallbackQ,
         \/ paused' = paused
         \/ ~isPaused /\ ~Taken(holder) /\ queue # <<>>
            /\ TryPromoteQueue(h, runs, isPaused, holder)
  PROVE  KeepsQueue
<1>1. CASE NoPromotion(h, runs) /\ queue' = queue
  <2>1. \/ (paused => paused') \/ fallbackQ # <<>>
        \/ Promote(h, "queue", Head(queue), "yielding", runs)
    BY DEF TryPromoteQueue
  <2>2. CASE Promote(h, "queue", Head(queue), "yielding", runs)
    BY <2>2, PromoteKeepsQueue DEF Promoting
  <2> QED BY <1>1, <2>1, <2>2, EndKeepsQueue DEF NoPromotion
<1>2. CASE Promote(h, "queue", Head(queue), "yielding", runs)
  BY <1>2, PromoteKeepsQueue DEF Promoting
<1> QED BY <1>1, <1>2 DEF TryPromoteQueue

(* Serving the pending work of either kind.                                *)
LEMMA PendingKeepsQueue ==
  ASSUME TypeOK, QueueHeld, NEW h \in Hosts, h \in Runs => pc[h] \in AtTail,
         NEW holder, TryPromotePending(h, run, holder),
         sub' = sub, paused' = paused
  PROVE  KeepsQueue
<1>1. run \in [Runs -> RunRecord] /\ SameStatus(run)
  BY DEF TypeOK, StateTypes, SameStatus
<1>2. CASE /\ queue = <<>> /\ queue' = queue
           /\ Promote(h, "steer", Head(fallbackQ), "activatingFallback", run)
  BY <1>1, <1>2, PromoteKeepsQueue DEF Promoting
<1>3. CASE \/ NoPromotion(h, run) /\ queue' = queue /\ fallbackQ' = fallbackQ
           \/ TryPromoteQueue(h, run, paused, holder) /\ fallbackQ' = fallbackQ
  BY <1>1, <1>3, ServeKeepsQueue
<1> QED BY <1>2, <1>3 DEF TryPromotePending

(* The steps of a promotion.                                               *)
LEMMA HostKeepsQueue ==
  ASSUME TypeOK, QueueHeld, NEW h \in Hosts, HostStep(h)
  PROVE  KeepsQueue
<1> USE DEF session, Goto, Unchanged4Host
<1>1. pc[h] \in Promoting
  BY DEF Promoting, HostStep, FallbackActivated, FallbackAbandoned,
         FallbackGathered, FallbackNotified, Yielded, QueuedInputRecorded,
         QueuedInputKept, QueueNotified, QueueGathered, GatherInterrupted
<1>2. promo[h] \in Runs BY <1>1 DEF TypeOK, ControlPoints
<1>3. /\ run \in [Runs -> RunRecord] /\ h \in Tasks /\ Runs \subseteq Tasks
      /\ pc \in [Tasks -> RunPoints \cup CallerPoints \cup InputPoints]
      /\ pc[h] \in AtTail /\ Promoting \subseteq AtTail /\ "absent" \notin AtTail
  BY <1>1 DEF TypeOK, StateTypes, ControlPoints, Tasks, Hosts, AtTail, Promoting
<1>4. ASSUME NEW at \in Promoting, pc' = [pc EXCEPT ![h] = at], SameStatus(run'),
             active' = active, (queue' = queue /\ paused' = paused) \/ paused' = TRUE,
             fallbackQ' = fallbackQ, sub' = sub
      PROVE  KeepsQueue
  <2>1. \A q \in Runs : pc'[q] = pc[q] \/ (q = h /\ pc'[q] = at)
    BY <1>3, <1>4
  <2>2. OriginsStay BY <1>3, <1>4, <2>1 DEF OriginsStay, SameStatus
  <2>3. ASSUME NEW q \in Runs PROVE StaysBehind(q)
    <3>1. CASE queue' = queue /\ paused' = paused BY <1>4, <2>2, <3>1, SameBehind
    <3>2. CASE paused' = TRUE BY <3>2 DEF StaysBehind, HeldBack
    <3> QED BY <1>4, <3>1, <3>2
  <2> QED BY <1>3, <1>4, <2>1, <2>3, QuietKeeps
<1>5. ASSUME EndHost(h), SameStatus(run'), active' = active, queue' = queue,
             paused' = paused, fallbackQ' = fallbackQ, sub' = sub
      PROVE  KeepsQueue
  BY <1>3, <1>5, EndKeepsQueue
<1>6. ASSUME run' = run \/ \E g :
               \/ run' = [run EXCEPT ![promo[h]].gate = g]
               \/ run' = [run EXCEPT ![promo[h]].barrier = g]
               \/ \E b : run' = [run EXCEPT ![promo[h]].barrier = b, ![promo[h]].gate = g]
               \/ run' = [run EXCEPT ![promo[h]] = BarrierFailed(@)]
               \/ run' = [run EXCEPT ![promo[h]] = [BarrierFailed(@) EXCEPT !.gate = TRUE]]
      PROVE  SameStatus(run')
  BY <1>2, <1>6, StatusUpdates
<1>a. CASE FallbackActivated(h)
  <2>1. \/ \E g : run' = [run EXCEPT ![promo[h]].barrier = g]
        \/ run' = [run EXCEPT ![promo[h]] = BarrierFailed(@)]
    BY <1>a DEF FallbackActivated
  <2>2. \E at \in {"notifyingFallback", "abandoning"} : pc' = [pc EXCEPT ![h] = at]
    BY <1>a DEF FallbackActivated
  <2> QED BY <1>4, <1>6, <1>a, <2>1, <2>2 DEF FallbackActivated, Promoting
<1>b. CASE FallbackAbandoned(h)
  BY <1>4, <1>6, <1>b DEF FallbackAbandoned, AbandonRun, Promoting
<1>c. CASE FallbackGathered(h)
  <2>1. SameStatus(run) BY DEF SameStatus
  <2> QED BY <1>3, <1>c, <2>1, ServeKeepsQueue DEF FallbackGathered
<1>d. CASE FallbackNotified(h)
  <2> DEFINE runs == [run EXCEPT ![promo[h]].gate = TRUE]
  <2>1. runs \in [Runs -> RunRecord] BY <1>2, <1>3, GateSet
  <2>2. SameStatus(runs) BY <1>2, <1>3 DEF SameStatus, RunRecord
  <2>3. \/ NoPromotion(h, runs) /\ queue' = queue
        \/ TryPromoteQueue(h, runs, paused, maintenance)
    BY <1>d DEF FallbackNotified
  <2>4. sub' = sub /\ fallbackQ' = fallbackQ /\ paused' = paused
    BY <1>d DEF FallbackNotified
  <2> HIDE DEF runs
  <2> QED BY <1>3, <2>1, <2>2, <2>3, <2>4, ServeKeepsQueue
<1>e. CASE Yielded(h)
  BY <1>4, <1>5, <1>6, <1>e DEF Yielded, Promoting
<1>f. CASE QueuedInputRecorded(h)
  <2>1. SameStatus(run') BY <1>6, <1>f DEF QueuedInputRecorded
  <2>2. EndHost(h) \/ pc' = [pc EXCEPT ![h] = "notifyingQueued"]
    BY <1>f DEF QueuedInputRecorded
  <2> QED BY <1>4, <1>5, <1>f, <2>1, <2>2 DEF QueuedInputRecorded, Promoting
<1>g. CASE QueuedInputKept(h)
  <2>1. run' = [run EXCEPT ![promo[h]] = [BarrierFailed(@) EXCEPT !.gate = TRUE]]
    BY <1>g DEF QueuedInputKept
  <2>2. /\ pc' = [pc EXCEPT ![h] = "gatheringQueue"] /\ active' = active
        /\ paused' = TRUE /\ fallbackQ' = fallbackQ /\ sub' = sub
    BY <1>g DEF QueuedInputKept, AbandonRun, PutBack
  <2> QED BY <1>4, <1>6, <2>1, <2>2 DEF Promoting
<1>h. CASE QueueNotified(h) \/ QueueGathered(h) \/ GatherInterrupted(h)
  <2>1. SameStatus(run')
    BY <1>6, <1>h DEF QueueNotified, QueueGathered, GatherInterrupted
  <2> QED BY <1>5, <1>h, <2>1 DEF QueueNotified, QueueGathered, GatherInterrupted
<1> QED BY <1>a, <1>b, <1>c, <1>d, <1>e, <1>f, <1>g, <1>h DEF HostStep

(* The steps of a submission: what is queued is queued behind the Run in   *)
(* the registry.                                                           *)
LEMMA SubmissionKeepsQueue ==
  ASSUME TypeOK, QueueHeld, NEW i \in Input,
         SubmissionStep(i) \/ \E b \in Behaviours : Submit(i, b)
  PROVE  KeepsQueue
<1> USE DEF Goto, Unchanged4Sub
<1>1. /\ Runs \subseteq Tasks /\ i \notin Runs
      /\ pc \in [Tasks -> RunPoints \cup CallerPoints \cup InputPoints]
      /\ queue \in Seq(Input) /\ active \in Runs \cup {None} /\ None \notin Runs
      /\ sub \in [Input -> [target : Runs \cup {None},
                            behaviour : {"none", "steer", "queue"}]]
  BY RuntimeAssumption DEF TypeOK, StateTypes, ControlPoints, Tasks, Hosts
<1>2. /\ active' = active /\ paused' = paused /\ fallbackQ' = fallbackQ
      /\ \E at : pc' = [pc EXCEPT ![i] = at]
      /\ run' = run \/ \E c : run' = [run EXCEPT ![sub[i].target].ctl = c]
  BY DEF SubmissionStep, Admit, Refuse, SteerRecorded, SteerNotified, Submit
<1>3. SameStatus(run')
  <2>1. CASE sub[i].target \in Runs BY <1>2, <2>1, StatusUpdates
  <2>2. CASE sub[i].target \notin Runs
    <3>1. run' = run BY <1>2, <2>2 DEF TypeOK, StateTypes
    <3> QED BY <3>1, StatusUpdates
  <2> QED BY <2>1, <2>2
<1>4. \A q \in Runs : pc'[q] = pc[q] BY <1>1, <1>2
<1>5. OriginsStay BY <1>3, <1>4 DEF OriginsStay, SameStatus
<1>6. ASSUME NEW r \in Runs, pc[r] \in AtTail PROVE StaysBehind(r)
  <2>1. active # r BY <1>6 DEF QueueHeld
  <2>2. HeldBack(r) => HeldBack(r)'
    BY <1>2, <1>5 DEF HeldBack, OriginsStay, Follows
  <2>3. CASE queue' = queue /\ sub' = sub BY <1>2, <1>5, <2>3, SameBehind
  <2>4. CASE queue' = Append(queue, i) /\ sub' = sub /\ sub[i].target = active
    <3>1. /\ DOMAIN queue' = 1 .. Len(queue) + 1 /\ DOMAIN queue = 1 .. Len(queue)
          /\ queue'[Len(queue) + 1] = i /\ Len(queue) \in Nat
          /\ \A k \in 1 .. Len(queue) : queue'[k] = queue[k]
      BY <1>1, <2>4, AppendProperties
    <3>2. WaitsBehind(r)' => WaitsBehind(r) BY <2>1, <2>4, <3>1 DEF WaitsBehind
    <3> QED BY <2>2, <3>2 DEF StaysBehind
  <2>5. ASSUME NEW b, sub' = [sub EXCEPT ![i] = [target |-> active, behaviour |-> b]],
               queue' = queue
        PROVE  StaysBehind(r)
    <3>1. \A j \in Input : sub'[j].target = r => sub[j].target = r
      BY <1>1, <2>1, <2>5
    <3>2. \A k \in DOMAIN queue : queue[k] \in Input BY <1>1
    <3>3. WaitsBehind(r)' => WaitsBehind(r) BY <2>5, <3>1, <3>2 DEF WaitsBehind
    <3> QED BY <2>2, <3>3 DEF StaysBehind
  <2> QED
    BY <2>3, <2>4, <2>5
    DEF SubmissionStep, Admit, Refuse, SteerRecorded, SteerNotified, Submit,
        StillAccepting
<1> QED BY <1>2, <1>3, <1>4, <1>6, QuietKeeps

(* The operations of the user.                                             *)
LEMMA UserKeepsQueue ==
  ASSUME TypeOK, QueueHeld, UserStep
  PROVE  KeepsQueue
<1> USE DEF Goto, Unchanged4User
<1>1. /\ Runs \subseteq Tasks /\ Runs \cap Callers = {} /\ queue \in Seq(Input)
      /\ pc \in [Tasks -> RunPoints \cup CallerPoints \cup InputPoints]
      /\ run \in [Runs -> RunRecord] /\ SameStatus(run)
  BY RuntimeAssumption
  DEF TypeOK, StateTypes, ControlPoints, Tasks, Hosts, SameStatus
<1>2. ASSUME SameStatus(run'), active' = active, fallbackQ' = fallbackQ, sub' = sub,
             \A q \in Runs : pc'[q] = pc[q],
             \/ queue' = queue /\ (paused => paused')
             \/ /\ \A r : WaitsBehind(r)' => WaitsBehind(r)
                /\ paused => paused' \/ queue' = <<>>
      PROVE  KeepsQueue
  <2>1. OriginsStay BY <1>2 DEF OriginsStay, SameStatus
  <2>2. ASSUME NEW r \in Runs PROVE StaysBehind(r)
    <3>1. CASE queue' = queue /\ (paused => paused') BY <1>2, <2>1, <3>1, SameBehind
    <3>2. CASE /\ \A q : WaitsBehind(q)' => WaitsBehind(q)
               /\ paused => paused' \/ queue' = <<>>
      <4>1. HeldBack(r) => HeldBack(r)' \/ queue' = <<>>
        BY <1>2, <2>1, <3>2 DEF HeldBack, OriginsStay, Follows
      <4>2. queue' = <<>> => ~WaitsBehind(r)' BY DEF WaitsBehind
      <4> QED BY <3>2, <4>1, <4>2 DEF StaysBehind
    <3> QED BY <1>2, <3>1, <3>2
  <2> QED BY <1>2, <2>2, QuietKeeps
<1>a. ASSUME NEW o \in {"user", "application"}, NEW x \in Behaviours, StartRun(o, x)
      PROVE  KeepsQueue
  <2>1. Next1 \in Runs /\ pc[Next1] = "absent"
    BY <1>a, RuntimeAssumption
    DEF StartRun, Next1, Runs, TypeOK, StateTypes, ControlPoints
  <2>2. PICK n \in Runs : n = Next1 BY <2>1
  <2>3. /\ pc' = [pc EXCEPT ![n] = "created"] /\ active' = n /\ queue = <<>> /\ queue' = <<>>
        /\ \A q \in Runs \ {n} : run'[q] = run[q]
    BY <1>1, <1>a, <2>2 DEF StartRun
  <2>4. {"absent", "created"} \cap AtTail = {} BY DEF AtTail, Promoting
  <2>5. \A q \in Runs : StaysBehind(q) BY <2>3 DEF StaysBehind, WaitsBehind
  <2>6. \A q \in Runs : pc[q] \in AtTail => TailStays(q)
    BY <1>1, <2>1, <2>2, <2>3, <2>4 DEF TailStays
  <2>7. \A q \in Runs : pc'[q] \in AtTail => pc[q] \in AtTail
    BY <1>1, <2>3, <2>4
  <2> QED BY <2>5, <2>6, <2>7 DEF KeepsQueue
<1>b. ASSUME NEW i \in Input, NEW x \in Behaviours, Submit(i, x)
      PROVE  KeepsQueue
  BY <1>b, SubmissionKeepsQueue
<1>c. ASSUME NEW i \in Input, RemoveQueuedInput(i)
      PROVE  KeepsQueue
  <2>1. queue' = Without(queue, i) /\ paused' = (paused /\ queue' # <<>>)
    BY <1>c DEF RemoveQueuedInput
  <2>2. \A k \in DOMAIN queue' : \E j \in DOMAIN queue : queue'[k] = queue[j]
    <3> DEFINE S == {queue[j] : j \in DOMAIN queue}
    <3>1. queue \in Seq(S) BY <1>1
    <3>2. queue' \in Seq(S)
      <4> HIDE DEF S
      <4> QED BY <2>1, <3>1, WithoutType
    <3>3. \A k \in DOMAIN queue' : queue'[k] \in S
      <4> HIDE DEF S
      <4> QED BY <3>2, ElementOfSeq
    <3> QED BY <3>3
  <2>3. \A r : WaitsBehind(r)' => WaitsBehind(r) BY <1>c, <2>2 DEF WaitsBehind, RemoveQueuedInput
  <2> QED BY <1>1, <1>2, <1>c, <2>1, <2>3 DEF RemoveQueuedInput
<1>d. ASSUME NEW c \in Callers, ResumeQueue(c)
      PROVE  KeepsQueue
  <2>1. c \in Hosts /\ c \notin Runs BY <1>1 DEF Hosts
  <2> QED BY <1>1, <1>d, <2>1, ServeKeepsQueue DEF ResumeQueue
<1>e. ASSUME NEW c \in Callers, NEW x \in BOOLEAN, ReserveSession(c, x)
      PROVE  KeepsQueue
  BY <1>1, <1>2, <1>e DEF ReserveSession
<1>f. ASSUME NEW r \in Runs, ApprovalReturns(r) \/ AgentFails(r)
      PROVE  KeepsQueue
  <2>1. ~RunEndNotified(r)
    BY <1>f DEF ApprovalReturns, AgentFails, AtBoundary, RunEndNotified
  <2> QED BY <1>f, <2>1, RunKeepsQueue
<1>g. CASE CancelRun
  <2>1. active \in Runs BY <1>g DEF CancelRun, TypeOK, StateTypes
  <2>2. SameStatus(run') BY <1>g, <2>1, StatusUpdates DEF CancelRun
  <2> QED BY <1>2, <1>g, <2>2 DEF CancelRun, QueuePaused
<1>h. CASE ClearQueue
  <2>1. queue' = <<>> BY <1>h DEF ClearQueue
  <2>2. \A r : ~WaitsBehind(r)' BY <2>1 DEF WaitsBehind
  <2> QED BY <1>1, <1>2, <1>h, <2>1, <2>2 DEF ClearQueue
<1>i. CASE BeginClose
  BY <1>1, <1>2, <1>i DEF BeginClose
<1> QED
  BY <1>a, <1>b, <1>c, <1>d, <1>e, <1>f, <1>g, <1>h, <1>i DEF UserStep

(* Every step.                                                             *)
LEMMA KeepsQueueNext ==
  ASSUME TypeOK, QueueHeld, [Next]_vars
  PROVE  KeepsQueue
<1>1. ASSUME NEW r \in Runs, RunStep(r)
      PROVE  KeepsQueue
  <2>1. CASE RunEndNotified(r)
    <3>1. r \in Hosts /\ pc[r] \in AtTail BY <2>1 DEF Hosts, RunEndNotified, AtTail
    <3> QED BY <2>1, <3>1, PendingKeepsQueue DEF RunEndNotified, Unchanged4Host
  <2> QED BY <1>1, <2>1, RunKeepsQueue
<1>2. ASSUME NEW c \in Callers, ReleaseSession(c)
      PROVE  KeepsQueue
  <2>1. c \in Hosts /\ c \notin Runs BY RuntimeAssumption DEF Hosts
  <2> QED BY <1>2, <2>1, PendingKeepsQueue DEF ReleaseSession, Unchanged4Host
<1>3. ASSUME run' = run, pc' = pc, active' \in {active, None},
             \/ queue' = <<>>
             \/ /\ queue' = queue /\ paused' = paused
                /\ fallbackQ' = fallbackQ /\ sub' = sub
      PROVE  KeepsQueue
  <2>1. SameStatus(run') /\ OriginsStay BY <1>3 DEF SameStatus, OriginsStay
  <2>2. \A r \in Runs : StaysBehind(r)
    <3>1. CASE queue' = <<>> BY <3>1 DEF StaysBehind, WaitsBehind
    <3> QED BY <1>3, <2>1, <3>1, SameBehind
  <2> QED BY <1>3, <2>1, <2>2, QuietKeeps
<1>4. CASE \/ \E t \in Tasks : AbsorbCancellation(t)
           \/ EndClose \/ UNCHANGED vars
  BY <1>3, <1>4 DEF AbsorbCancellation, EndClose, vars, session
<1> QED
  BY <1>1, <1>2, <1>4, HostKeepsQueue, SubmissionKeepsQueue, UserKeepsQueue
  DEF Next, AtRest

(* A host that turns to the queue suspends in the yield only if it found   *)
(* the queue neither empty nor paused and no steer in the way.             *)
LEMMA ServeYields ==
  ASSUME TypeOK, NEW h \in Hosts, h \in Runs => pc[h] # "absent",
         NEW runs, NEW isPaused, NEW holder,
         NoPromotion(h, runs) \/ TryPromoteQueue(h, runs, isPaused, holder),
         NEW r \in Runs, pc[r] # "yielding", pc'[r] = "yielding"
  PROVE  r = h /\ queue # <<>> /\ ~isPaused /\ fallbackQ = <<>>
<1>1. /\ r \in Tasks /\ h \in Tasks
      /\ pc \in [Tasks -> RunPoints \cup CallerPoints \cup InputPoints]
  BY DEF TypeOK, ControlPoints, Tasks, Hosts
<1>2. CASE NoPromotion(h, runs)
  BY <1>1, <1>2 DEF NoPromotion, EndHost
<1>3. CASE /\ queue # <<>> /\ ~isPaused /\ fallbackQ = <<>>
           /\ Promote(h, "queue", Head(queue), "yielding", runs)
  <2>1. Next1 \in Runs /\ h # Next1 BY <1>3, PointsPromote DEF Promoting
  <2>2. PICK n \in Runs : n = Next1 BY <2>1
  <2>3. pc' = [pc EXCEPT ![n] = "created", ![h] = "yielding"]
    BY <1>3, <2>2 DEF Promote
  <2> QED BY <1>1, <1>3, <2>3
<1> QED BY <1>2, <1>3 DEF TryPromoteQueue

(* A Run begins to promote from the queue only at its tail, with the queue *)
(* neither empty nor paused and no steer in the way.                       *)
LEMMA TailServes ==
  ASSUME TypeOK, [Next]_vars, NEW r \in Runs,
         pc[r] # "yielding", pc'[r] = "yielding"
  PROVE  pc[r] \in AtTail /\ queue # <<>> /\ ~paused /\ fallbackQ = <<>>
<1> USE DEF Goto
<1>1. /\ r \in Tasks /\ Runs \subseteq Tasks /\ Hosts \subseteq Tasks
      /\ pc \in [Tasks -> RunPoints \cup CallerPoints \cup InputPoints]
      /\ Runs \cap Callers = {} /\ Runs \cap Input = {} /\ Callers \subseteq Hosts
  BY RuntimeAssumption DEF TypeOK, ControlPoints, Tasks, Hosts
<1>2. ASSUME NEW t \in Tasks, NEW at, at # "yielding", pc' = [pc EXCEPT ![t] = at]
      PROVE  FALSE
  BY <1>1, <1>2
<1>3. ASSUME NEW h \in Hosts, h \in Runs => pc[h] \in AtTail, NEW runs, NEW holder,
             \/ NoPromotion(h, runs)
             \/ TryPromoteQueue(h, runs, paused, holder)
             \/ TryPromotePending(h, runs, holder)
      PROVE  pc[r] \in AtTail /\ queue # <<>> /\ ~paused /\ fallbackQ = <<>>
  <2>1. h \in Runs => pc[h] # "absent" BY <1>3 DEF AtTail, Promoting
  <2>2. CASE NoPromotion(h, runs) \/ TryPromoteQueue(h, runs, paused, holder)
    BY <1>3, <2>1, <2>2, ServeYields
  <2>3. CASE Promote(h, "steer", Head(fallbackQ), "activatingFallback", runs)
    <3>1. Next1 \in Runs /\ h # Next1 BY <2>1, <2>3, PointsPromote DEF Promoting
    <3>2. PICK n \in Runs : n = Next1 BY <3>1
    <3>3. pc' = [pc EXCEPT ![n] = "created", ![h] = "activatingFallback"]
      BY <2>3, <3>2 DEF Promote
    <3> QED BY <1>1, <3>3
  <2> QED BY <1>3, <2>2, <2>3 DEF TryPromotePending
<1>4. pc' # pc OBVIOUS
<1>5. ASSUME NEW q \in Runs, RunStep(q) \/ AgentFails(q) \/ ApprovalReturns(q)
      PROVE  RunEndNotified(q)
  <2> SUFFICES ASSUME ~RunEndNotified(q) PROVE FALSE
    OBVIOUS
  <2>1. PICK at : pc' = [pc EXCEPT ![q] = at] BY <1>4, <1>5, IdentityRunStep
  <2>2. CASE SettlesWell(q)
    <3>1. "yielding" \in AtTail \ {"ending"} BY DEF AtTail, Promoting
    <3> QED BY <1>1, <2>1, <2>2, <3>1 DEF SettlesWell
  <2>3. CASE CancelCallback(q) \/ RunEndInterrupted(q)
    BY <1>1, <2>3 DEF CancelCallback, RunEndInterrupted
  <2> QED BY <1>5, <2>2, <2>3, RunSettles
<1>a. ASSUME NEW q \in Runs, RunStep(q) \/ AgentFails(q) \/ ApprovalReturns(q)
      PROVE  pc[r] \in AtTail /\ queue # <<>> /\ ~paused /\ fallbackQ = <<>>
  <2>1. pc[q] = "ending" /\ TryPromotePending(q, run, maintenance)
    BY <1>5, <1>a DEF RunEndNotified
  <2>2. q \in Hosts /\ pc[q] \in AtTail BY <2>1 DEF Hosts, AtTail
  <2> QED BY <1>3, <2>1, <2>2
<1>b. ASSUME NEW h \in Hosts, HostStep(h)
      PROVE  pc[r] \in AtTail /\ queue # <<>> /\ ~paused /\ fallbackQ = <<>>
  <2>1. h \in Tasks /\ pc[h] \in AtTail
    BY <1>1, <1>b
    DEF AtTail, Promoting, HostStep, FallbackActivated, FallbackAbandoned,
        FallbackGathered, FallbackNotified, Yielded, QueuedInputRecorded,
        QueuedInputKept, QueueNotified, QueueGathered, GatherInterrupted
  <2>2. CASE FallbackGathered(h)
    BY <1>3, <2>1, <2>2 DEF FallbackGathered
  <2>3. CASE FallbackNotified(h)
    BY <1>3, <2>1, <2>3 DEF FallbackNotified
  <2>4. ASSUME EndHost(h) PROVE FALSE BY <1>1, <2>4 DEF EndHost
  <2> QED
    BY <1>2, <1>b, <2>1, <2>2, <2>3, <2>4
    DEF HostStep, FallbackActivated, FallbackAbandoned, AbandonRun, Yielded,
        QueuedInputRecorded, QueuedInputKept, QueueNotified, QueueGathered,
        GatherInterrupted
<1>c. ASSUME NEW i \in Input, SubmissionStep(i) \/ \E b \in Behaviours : Submit(i, b)
      PROVE  FALSE
  <2>1. PICK at : pc' = [pc EXCEPT ![i] = at]
    BY <1>c DEF SubmissionStep, Admit, Refuse, SteerRecorded, SteerNotified, Submit
  <2> QED BY <1>1, <2>1
<1>d. ASSUME NEW c \in Callers, ReleaseSession(c)
      PROVE  pc[r] \in AtTail /\ queue # <<>> /\ ~paused /\ fallbackQ = <<>>
  <2>1. c \in Hosts /\ c \notin Runs BY <1>1
  <2> QED BY <1>3, <1>d, <2>1 DEF ReleaseSession
<1>e. ASSUME NEW c \in Callers, ResumeQueue(c)
      PROVE  FALSE
  <2>1. c \in Hosts /\ c \notin Runs BY <1>1
  <2>2. r = c BY <1>e, <2>1, ServeYields DEF ResumeQueue
  <2> QED BY <2>1, <2>2
<1>f. ASSUME NEW c \in Callers, NEW x \in BOOLEAN, ReserveSession(c, x)
      PROVE  FALSE
  BY <1>1, <1>2, <1>f DEF ReserveSession
<1>g. ASSUME NEW o, NEW b, StartRun(o, b)
      PROVE  FALSE
  <2>1. Next1 \in Runs
    BY <1>g, RuntimeAssumption DEF StartRun, Next1, Runs, TypeOK, StateTypes, ControlPoints
  <2>2. PICK n \in Runs : n = Next1 BY <2>1
  <2>3. pc' = [pc EXCEPT ![n] = "created"] BY <1>g, <2>2 DEF StartRun
  <2> QED BY <1>1, <1>2, <2>3
<1>h. CASE \/ \E t \in Tasks : AbsorbCancellation(t)
           \/ \E i \in Input : RemoveQueuedInput(i)
           \/ CancelRun \/ ClearQueue \/ BeginClose \/ EndClose \/ UNCHANGED vars
  BY <1>4, <1>h
  DEF AbsorbCancellation, RemoveQueuedInput, CancelRun, ClearQueue, BeginClose,
      EndClose, vars
<1> QED
  BY <1>a, <1>b, <1>c, <1>d, <1>e, <1>f, <1>g, <1>h DEF Next, UserStep, AtRest

(* A Run that was stopped or failed does not start what waits behind it:   *)
(* when its end goes on to the head of the queue and that was submitted to *)
(* it, a Run from the queue has come before.                               *)
THEOREM StoppedRunWaits == Spec => StoppedRunKeepsQueue
<1>1. Init => QueueHeld
  BY DEF Init, QueueHeld, AtTail, Promoting, Tasks, Hosts
<1>2. TypeOK /\ QueueHeld /\ [Next]_vars => QueueHeld'
  BY KeepsQueueNext, HeldStep
<1> DEFINE Step ==
      \A r \in Runs :
        /\ pc[r] # "yielding" /\ pc'[r] = "yielding"
        /\ sub[Head(queue)].target = r /\ run[r].status # "completed"
        => \E q \in Runs : q > r /\ run[q].origin = "queue"
<1>3. TypeOK /\ QueueHeld /\ [Next]_vars => Step
  <2> SUFFICES ASSUME TypeOK, QueueHeld, [Next]_vars, NEW r \in Runs,
                      pc[r] # "yielding", pc'[r] = "yielding",
                      sub[Head(queue)].target = r, run[r].status # "completed"
               PROVE  \E q \in Runs : q > r /\ run[q].origin = "queue"
    OBVIOUS
  <2>1. pc[r] \in AtTail /\ queue # <<>> /\ ~paused /\ fallbackQ = <<>>
    BY TailServes
  <2>2. queue \in Seq(Input) BY DEF TypeOK, StateTypes
  <2>3. 1 \in DOMAIN queue /\ Head(queue) = queue[1] BY <2>1, <2>2, EmptySeq
  <2>4. WaitsBehind(r) BY <2>3 DEF WaitsBehind
  <2>5. HeldBack(r) BY <2>1, <2>4 DEF QueueHeld
  <2> QED BY <2>1, <2>5 DEF HeldBack, Follows
<1>4. Step /\ [Next]_vars => [Step]_vars OBVIOUS
<1> HIDE DEF Step
<1>5. Spec => [][Step]_vars
  BY <1>1, <1>2, <1>3, TypeCorrect, PTL DEF Spec
<1> QED BY <1>5 DEF Step, StoppedRunKeepsQueue

=============================================================================
