----------------------------- MODULE LiveEvents -----------------------------
(* The wire format of the event stream: what the server's serializers      *)
(* write (presentation.py, web/events.py) and what the client's parser     *)
(* accepts (parseLiveEvent in LiveWebSocketProvider.tsx). A field is       *)
(* modelled by its shape; a payload with a field of another shape, or      *)
(* without it, is dropped without a trace.                                 *)
EXTENDS LiveOverlay

(* The fields of both records (@@ of module TLC, written out for the       *)
(* prover, which does not know that module).                               *)
Extend(f, g) == [x \in DOMAIN f \cup DOMAIN g |-> IF x \in DOMAIN f THEN f[x] ELSE g[x]]

Text == {"string"}
NullableText == {"string", "null"}
Seq1 == {"positive"}
NullableSeq == {"positive", "null"}
Count == {"zero", "positive"}
Flag == {"boolean"}
OptionalFlag == {"boolean", "null", "absent"}
Timing == {"string", "absent"}

(* outputEvent, todoItems and the phases the runtime_state check accepts.  *)
OutputTypes == {"agent_changed", "reasoning", "tool_called", "tool_output", "assistant_message"}
FollowUpKinds == {"steer_submitted", "steer_fallback_promoted", "queue_submitted", "queue_promoted"}
Phases == {"idle", "running", "waiting_approval", "stopping"}

(* The fields parseLiveEvent reads of each kind, and the shapes it accepts.*)
Envelope == [session_id |-> Text, run_id |-> Text]
Accepts ==
  [output |-> Extend(Envelope, [journal_seq |-> NullableSeq, event |-> OutputTypes]),
   activity_label |-> Extend(Envelope, [journal_seq |-> Seq1, target_seq |-> Seq1, text |-> Text]),
   portfolio_tool_succeeded |-> Extend(Envelope, [portfolio_ids |-> {"strings"}, mutated |-> Flag]),
   follow_up |-> Extend(Envelope, [event_kind |-> FollowUpKinds, source_run_id |-> Text, follow_up_id |-> Text,
                                 text |-> Text, journal_seq |-> NullableSeq]),
   runtime_state |-> [session_id |-> Text, run_id |-> NullableText, run_started_at |-> NullableText,
                      run_phase |-> Phases, active_follow_up_behavior |-> {"null", "behavior"},
                      queued_count |-> Count, queue_paused |-> Flag, pending_steer_count |-> Count,
                      todos |-> {"todos"}],
   run_ended |-> Extend(Envelope, [status |-> {"status"}, started_at |-> Timing, ended_at |-> Timing,
                                 duration_ms |-> Count \cup {"absent"},
                                 auto_compaction |-> {"object", "null", "absent"},
                                 auto_compaction_failed |-> OptionalFlag,
                                 auto_compaction_consistency_uncertain |-> OptionalFlag]),
   approval_required |-> Extend(Envelope, [approval_id |-> Text, tool_name |-> Text, arguments |-> NullableText,
                                         review_reason |-> NullableText]),
   approval_resolved |-> Extend(Envelope, [approval_id |-> Text, approved |-> Flag, source |-> {"user", "permission"},
                                         review_decision |-> {"decision", "null", "absent"},
                                         review_reason |-> NullableText, journal_seq |-> NullableSeq]),
   approval_cancelled |-> Extend(Envelope, [approval_id |-> Text])]

(* The timing of a run_ended is there as a whole or not at all.            *)
TimingFields == {"started_at", "ended_at", "duration_ms"}
Parses(kind, payload) ==
  /\ \A f \in DOMAIN Accepts[kind] : payload[f] \in Accepts[kind][f]
  /\ kind = "run_ended" =>
       \/ \A f \in TimingFields : payload[f] = "absent"
       \/ \A f \in TimingFields : payload[f] # "absent"

(* What the serializers write of an event; a Run that did not complete has *)
(* no result, a reviewer may have had no say, a Session may be idle.       *)
SeqShape(n) == IF n = 0 THEN "null" ELSE "positive"
Written == [session_id |-> "string", run_id |-> "string"]
Payload(e) ==
  CASE e.kind = "output" -> Extend(Written, [journal_seq |-> SeqShape(e.seq), event |-> e.type])
    [] e.kind = "activity_label" ->
         Extend(Written, [journal_seq |-> SeqShape(e.seq), target_seq |-> SeqShape(e.of), text |-> "string"])
    [] e.kind = "follow_up" ->
         Extend(Written, [event_kind |-> e.type, source_run_id |-> "string", follow_up_id |-> "string",
                         text |-> "string", journal_seq |-> SeqShape(e.seq)])
    [] e.kind = "runtime_state" ->
         [session_id |-> "string", run_id |-> IF e.run = 0 THEN "null" ELSE "string",
          run_started_at |-> IF e.run = 0 THEN "null" ELSE "string", run_phase |-> e.type,
          active_follow_up_behavior |-> IF e.run = 0 THEN "null" ELSE "behavior",
          queued_count |-> "zero", queue_paused |-> "boolean", pending_steer_count |-> "zero",
          todos |-> "todos"]
    [] e.kind = "run_ended" ->
         Extend(Written, [status |-> "status", started_at |-> "string", ended_at |-> "string", duration_ms |-> "zero",
                         auto_compaction |-> "null", auto_compaction_failed |-> "null",
                         auto_compaction_consistency_uncertain |-> "null"])
    [] e.kind = "approval_required" ->
         Extend(Written, [approval_id |-> "string", tool_name |-> "string", arguments |-> "null",
                         review_reason |-> "null"])
    [] e.kind = "approval_resolved" ->
         Extend(Written, [approval_id |-> "string", approved |-> "boolean", source |-> "user",
                         review_decision |-> "null", review_reason |-> "null", journal_seq |-> SeqShape(e.seq)])
    [] e.kind = "approval_cancelled" -> Extend(Written, [approval_id |-> "string"])

ParseLiveEvent(e) == Parses(e.kind, Payload(e))
=============================================================================
