------------------------- MODULE TimelineProjection -------------------------
(* projectTimeline (frontend/src/lib/timeline/project.ts): the rows of a   *)
(* conversation, computed anew from whatever records the client holds, in  *)
(* any order and with duplicates.                                          *)
(*                                                                         *)
(* A record's payload "of" is the text of a user_message, the name of an   *)
(* agent_changed, the target of an activity_label, and 1 for a run_ended   *)
(* that carries its timing. For a tool_output it is the call it answers,   *)
(* which the projection never reads: the journal does not say it.          *)
EXTENDS HistoryPages

Record(seq, type, run, of) == [seq |-> seq, type |-> type, run |-> run, of |-> of]
IsCompleteRunEnded(r) == r.type = "run_ended" /\ r.of = 1

(* One record per sequence number, the last one given; of a Run's endings  *)
(* the first one that has its timing.                                      *)
PlaceRecord(acc, r) ==
  LET ended == {s \in DOMAIN acc.ended : s = r.run}
      previous == acc.ended[r.run]
      kept(bySeq) == [bySeq |-> (r.seq :> r) @@ bySeq,
                      ended |-> IF r.type = "run_ended" THEN (r.run :> r) @@ acc.ended ELSE acc.ended]
  IN  IF r.type # "run_ended" \/ ended = {} THEN kept(acc.bySeq)
      ELSE IF IsCompleteRunEnded(previous) \/ ~IsCompleteRunEnded(r) THEN acc
      ELSE kept(Restrict(acc.bySeq, DOMAIN acc.bySeq \ {previous.seq}))

CanonicalRecords(records) ==
  BySeq(Range(FoldLeft(PlaceRecord, [bySeq |-> <<>>, ended |-> <<>>], records).bySeq))

(* The label of each tool call: the last one recorded for it, 0 for none.  *)
LabelOf(ordered, seq) ==
  Max({0} \cup {ordered[i].seq : i \in {j \in DOMAIN ordered :
                  ordered[j].type = "activity_label" /\ ordered[j].of = seq}})

(* The title of an activity group: the label or the name of its latest     *)
(* tool, else that an output has no call, else its latest approval.        *)
ActivityTitle(items, ordered) ==
  LET latest(type) == Max({0} \cup {items[i].seq : i \in {j \in DOMAIN items : items[j].type = type}})
      kinds == SelectSeq(<<"tool", "unmatched_tool_output", "approval">>, LAMBDA t : latest(t) > 0)
  IN  IF kinds = <<>> THEN [kind |-> "thinking", seq |-> 0]
      ELSE IF Head(kinds) = "tool" /\ LabelOf(ordered, latest("tool")) > 0
           THEN [kind |-> "label", seq |-> LabelOf(ordered, latest("tool"))]
           ELSE [kind |-> Head(kinds), seq |-> latest(Head(kinds))]

(* A turn of the assistant: one group of activity items at most, then one  *)
(* message (0: none), which ends the turn.                                 *)
NoTurn == [seq |-> 0, items |-> <<>>, message |-> 0]
EnsureAssistantTurn(turn, r) == IF turn = NoTurn THEN [NoTurn EXCEPT !.seq = r.seq] ELSE turn
AppendActivity(turn, r, type) ==
  [EnsureAssistantTurn(turn, r) EXCEPT !.items = Append(@, [type |-> type, seq |-> r.seq])]
Row(type, seq, items, message) == [type |-> type, seq |-> seq, items |-> items, message |-> message]

(* Mutant: the turn that was finished is not closed. *)
FinishAndKeepTurn(p) ==
  IF p.turn = NoTurn THEN p
  ELSE [p EXCEPT !.rows = Append(@, Row("assistant", p.turn.seq, p.turn.items, p.turn.message))]

FinishAssistantTurn(p) ==
  IF p.turn = NoTurn THEN p
  ELSE [p EXCEPT !.rows = Append(@, Row("assistant", p.turn.seq, p.turn.items, p.turn.message)),
                 !.turn = NoTurn]
PushRow(p, type, r) ==
  LET f == FinishAssistantTurn(p)
  IN  [f EXCEPT !.rows = Append(@, Row(type, r.seq, <<>>, 0)), !.agent = 0]

(* Mutant: an output answers the newest call. *)
ObserveNewest(p, r) ==
  IF p.waiting = <<>> THEN p
  ELSE [p EXCEPT !.waiting = Front(@), !.observed = (Last(p.waiting) :> r.seq) @@ @]

(* A tool output answers the oldest call still waiting, wherever its turn  *)
(* is; without one it is an item of its own.                               *)
ObserveOutput(p, r) ==
  IF p.waiting = <<>>
  THEN [p EXCEPT !.turn = AppendActivity(@, r, "unmatched_tool_output"), !.agent = 0]
  ELSE [p EXCEPT !.waiting = Tail(@), !.observed = (Head(p.waiting) :> r.seq) @@ @, !.agent = 0]

(* "waiting" is pendingTools: a steer and an agent change end the turn but *)
(* leave it, a message of either side and the end of a Run clear it.       *)
ProjectRecord(p, r) ==
  CASE r.type \in {"activity_label", "user_steers_activated", "user_steers_discarded"} -> p
    [] r.type = "user_message" -> [PushRow(p, "user", r) EXCEPT !.waiting = <<>>]
    [] r.type = "user_steer" -> PushRow(p, "steer", r)
    [] r.type = "run_ended" ->
         IF IsCompleteRunEnded(r) THEN [PushRow(p, "run_timing", r) EXCEPT !.waiting = <<>>] ELSE p
    [] r.type = "agent_changed" ->
         [(IF p.agent = r.of THEN FinishAssistantTurn(p) ELSE PushRow(p, "system", r)) EXCEPT !.agent = r.of]
    [] r.type = "assistant_message" ->
         FinishAssistantTurn([p EXCEPT !.turn = [EnsureAssistantTurn(@, r) EXCEPT !.message = r.seq],
                                       !.waiting = <<>>, !.agent = 0])
    [] r.type = "tool_called" ->
         [p EXCEPT !.turn = AppendActivity(@, r, "tool"), !.waiting = Append(@, r.seq), !.agent = 0]
    [] r.type = "tool_output" -> ObserveOutput(p, r)
    [] OTHER -> [p EXCEPT !.turn = AppendActivity(@, r, r.type), !.agent = 0]

(* The rows, the group of each under its title, and for each tool call the *)
(* output shown with it.                                                   *)
ProjectTimeline(records) ==
  LET start == [rows |-> <<>>, turn |-> NoTurn, waiting |-> <<>>, agent |-> 0, observed |-> <<>>]
      ordered == CanonicalRecords(records)
      end == FinishAssistantTurn(FoldLeft(ProjectRecord, start, ordered))
      titled(row) == [title |-> ActivityTitle(row.items, ordered)] @@ row
  IN  [rows |-> [i \in DOMAIN end.rows |-> titled(end.rows[i])], observed |-> end.observed]
=============================================================================
