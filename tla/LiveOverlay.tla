---------------------------- MODULE LiveOverlay ----------------------------
(* The live overlay of the selected Session: a map from sequence number to *)
(* the record an event announced, shown above the loaded history until a   *)
(* resynchronisation finds it there (frontend/src/websocket/               *)
(* LiveWebSocketProvider.tsx). A run_ended event has no sequence number of *)
(* its own: the client guesses the one its record has or will have.        *)
EXTENDS TimelineProjection

(* An event of the stream: seq is its journal_seq (0: null); type is the   *)
(* record type of an output, the event_kind of a follow_up, the phase of a *)
(* runtime_state; of is the payload, as in a record.                       *)
Event(kind, run, seq, type, of) ==
  [kind |-> kind, run |-> run, seq |-> seq, type |-> type, of |-> of]

(* The overlay with a record under its sequence number.                    *)
Put(overlay, r) == [s \in {r.seq} \cup DOMAIN overlay |-> IF s = r.seq THEN r ELSE overlay[s]]

CanonicalRunEndedIds(pages) == {r.run : r \in {q \in LoadedRecords(pages) : IsCompleteRunEnded(q)}}

(* Mutant: the ending takes the place of the last record known. *)
LastLiveSequence(pages, overlay, run) == Max({HistoryNewestSeq(pages)} \cup DOMAIN overlay)

(* The number the ending of a Run gets in the overlay: none (0) when the   *)
(* history has it, the one it already has there, or the one after the last *)
(* record known.                                                           *)
NextLiveRunEndedSequence(pages, overlay, run) ==
  LET guessed == {s \in DOMAIN overlay : IsCompleteRunEnded(overlay[s]) /\ overlay[s].run = run}
  IN  IF run \in CanonicalRunEndedIds(pages) THEN 0
      ELSE IF guessed # {} THEN Min(guessed)
      ELSE Max({HistoryNewestSeq(pages)} \cup DOMAIN overlay) + 1

(* The record an event puts in the overlay, if any: an output, a label, a  *)
(* submitted steer, a promoted queue input, the guessed ending.            *)
OverlayRecords(event, endedSeq) ==
  CASE event.kind = "run_ended" /\ endedSeq > 0 -> {Record(endedSeq, "run_ended", event.run, 1)}
    [] event.kind \in {"output", "activity_label"} /\ event.seq > 0 ->
         {Record(event.seq, event.type, event.run, event.of)}
    [] event.kind = "follow_up" /\ event.seq > 0 /\ event.type = "steer_submitted" ->
         {Record(event.seq, "user_steer", event.run, event.of)}
    [] event.kind = "follow_up" /\ event.seq > 0 /\ event.type = "queue_promoted" ->
         {Record(event.seq, "user_message", event.run, event.of)}
    [] OTHER -> {}

(* What a resynchronisation keeps of the overlay: the records newer than   *)
(* the history it fetched, and the guessed endings the history lacks.      *)
PruneOverlay(pages, overlay, newest) ==
  LET ended == CanonicalRunEndedIds(pages)
      IsEnding(s) == IsCompleteRunEnded(overlay[s])
      unreconciled == {s \in DOMAIN overlay : IsEnding(s) /\ overlay[s].run \notin ended}
      newer == {s \in DOMAIN overlay : s > newest /\ ~(IsEnding(s) /\ overlay[s].run \in ended)}
  IN  IF newest = 0 THEN Restrict(overlay, {s \in DOMAIN overlay : ~IsEnding(s) \/ overlay[s].run \notin ended})
      ELSE Restrict(overlay, unreconciled \cup newer)

(* The records a timeline renders: the history, then what the overlay has  *)
(* beyond it.                                                              *)
LiveRecords(pages, overlay) ==
  {overlay[s] : s \in {q \in DOMAIN overlay : q > HistoryNewestSeq(pages)}}
ShownRecords(pages, overlay) == LoadedRecords(pages) \cup LiveRecords(pages, overlay)
=============================================================================
