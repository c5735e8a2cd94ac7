------------------------ MODULE ConversationTimeline ------------------------
(* What a conversation shows while its journal grows: the loaded history,  *)
(* the live overlay and the bubble of the message just sent, projected     *)
(* into rows (frontend/src/components/timeline/ConversationTimeline.tsx,   *)
(* with the pending messages of ConversationPage.tsx). A resynchronisation *)
(* is one step here: LiveSync is about what happens while it is under way. *)
EXTENDS LiveOverlay

CONSTANTS Texts,        \* what the user may send
          TimelineRuns, \* bound: Runs of the Session
          MaxJournal,   \* bound: records of its journal
          TimelinePage  \* web.history_page_size

ASSUME TimelineAssumption == {TimelineRuns, MaxJournal} \subseteq Nat /\ TimelinePage \in Nat \ {0}

VARIABLES record,    \* the Session's journal
          activeRun, \* the Run that goes on (0: none)
          calls,     \* its tool calls that have no output yet
          pages,     \* the history query (NoHistory: pending)
          overlay,   \* liveSession.records
          following, \* whether the stream's events arrive
          ended,     \* the Run whose run_ended the next resynchronisation covers
          resynced,  \* liveSession.resyncedRunId
          sending,   \* the message under way to the server, if any
          pending    \* pendingMessage, if any

timelineVars == <<record, activeRun, calls, pages, overlay, following, ended, resynced, sending, pending>>

Runs == 1..TimelineRuns
NextSeq == Len(record) + 1
RunsStarted == Max({0, activeRun} \cup {record[i].run : i \in DOMAIN record})

Message(text, run, base, known) == [text |-> text, run |-> run, base |-> base, known |-> known]

-----------------------------------------------------------------------------
(* The server writes a record; its event puts it into the overlay, unless  *)
(* the connection is lost: then nothing arrives before a resynchronisation.*)
Announce(event) ==
  LET records == OverlayRecords(event, NextLiveRunEndedSequence(pages, overlay, event.run))
  IN  IF following /\ records # {} THEN \E r \in records : overlay' = Put(overlay, r)
      ELSE UNCHANGED overlay

Disconnect ==
  /\ following /\ following' = FALSE
  /\ UNCHANGED <<record, activeRun, calls, pages, overlay, ended, resynced, sending, pending>>

Write(type, of) ==
  /\ NextSeq <= MaxJournal
  /\ record' = Append(record, Record(NextSeq, type, activeRun, of))
  /\ Announce(Event("output", activeRun, NextSeq, type, of))

(* Tools answer in the order they were called.                             *)
WriteOutput ==
  /\ activeRun # 0
  /\ \/ Write("tool_called", 0) /\ calls' = Append(calls, NextSeq)
     \/ calls # <<>> /\ Write("tool_output", Head(calls)) /\ calls' = Tail(calls)
     \/ calls = <<>> /\ Write("assistant_message", 0) /\ UNCHANGED calls
     \/ Write("agent_changed", 1) /\ UNCHANGED calls
  /\ UNCHANGED <<activeRun, pages, ended, resynced, sending, pending, following>>

(* An activity label comes whenever its model answers.                     *)
WriteLabel ==
  /\ NextSeq <= MaxJournal
  /\ \E i \in DOMAIN record :
       /\ record[i].type = "tool_called"
       /\ \A j \in DOMAIN record : record[j].type = "activity_label" => record[j].of # i
       /\ record' = Append(record, Record(NextSeq, "activity_label", record[i].run, i))
       /\ Announce(Event("activity_label", record[i].run, NextSeq, "activity_label", i))
  /\ UNCHANGED <<activeRun, calls, pages, ended, resynced, sending, pending, following>>

EndRun ==
  /\ activeRun # 0
  /\ NextSeq <= MaxJournal
  /\ record' = Append(record, Record(NextSeq, "run_ended", activeRun, 1))
  /\ Announce(Event("run_ended", activeRun, 0, "", 0))
  /\ ended' = IF following THEN activeRun ELSE ended
  /\ activeRun' = 0 /\ calls' = <<>>
  /\ UNCHANGED <<pages, resynced, sending, pending, following>>

-----------------------------------------------------------------------------
(* The composer notes the newest record the page has (or reads it, which   *)
(* may fail) and sends. Its message starts a Run, or steers the one there  *)
(* is; the Run's user_message is not announced.                            *)
Submit(text) ==
  /\ sending = {} /\ pending = {} /\ RunsStarted < TimelineRuns
  /\ \E known \in BOOLEAN :
       /\ pages # NoHistory => known
       /\ sending' = {Message(text, 0, IF ~known THEN 0
                                       ELSE IF pages = NoHistory THEN Len(record) ELSE HistoryNewestSeq(pages), known)}
  /\ UNCHANGED <<record, activeRun, calls, pages, overlay, ended, resynced, pending, following>>

Accept(m) ==
  /\ m.run = 0 /\ NextSeq <= MaxJournal
  /\ IF activeRun = 0
     THEN /\ activeRun' = RunsStarted + 1
          /\ record' = Append(record, Record(NextSeq, "user_message", activeRun', m.text))
          /\ sending' = {[m EXCEPT !.run = activeRun']}
          /\ UNCHANGED overlay
     ELSE /\ Write("user_steer", m.text)
          /\ sending' = {} /\ UNCHANGED activeRun
  /\ UNCHANGED <<calls, pages, ended, resynced, pending, following>>

(* The answer reports the Run it started: its message is shown meanwhile.  *)
Respond(m) ==
  /\ m.run # 0
  /\ sending' = {} /\ pending' = {m}
  /\ UNCHANGED <<record, activeRun, calls, pages, overlay, ended, resynced, following>>

-----------------------------------------------------------------------------
(* The page.                                                               *)

(* The history query's first answer, and its next page when the user comes *)
(* to the top of the list.                                                 *)
LoadHistory ==
  /\ pages = NoHistory
  /\ pages' = <<ReadPage(record, 0, TimelinePage)>>
  /\ UNCHANGED <<record, activeRun, calls, overlay, ended, resynced, sending, pending, following>>

FetchOlder ==
  /\ NextPageParam(pages) > 0
  /\ pages' = FetchNextPage(pages, record, TimelinePage)
  /\ UNCHANGED <<record, activeRun, calls, overlay, ended, resynced, sending, pending, following>>

(* After the end of a Run, or a connection that was lost.                  *)
Resync ==
  LET latest == ReadPage(record, 0, TimelinePage)
  IN  /\ ~following \/ ended # 0
      /\ pages' = MergeHistoryPages(pages, latest, TimelinePage)
      /\ overlay' = PruneOverlay(pages', overlay, NewestSeq(latest))
      /\ resynced' = IF ended = 0 THEN resynced ELSE ended
      /\ ended' = 0 /\ following' = TRUE
      /\ UNCHANGED <<record, activeRun, calls, sending, pending>>

(* Mutant: a message of the same text, however old. *)
PendingSeenBefore(m) == \E r \in LoadedRecords(pages) : r.type = "user_message" /\ r.of = m.text

(* A message is canonical when the history has one of its text after what  *)
(* the page had when it was sent, or all of its Run.                       *)
PendingCanonical(m) ==
  m.known /\ \E r \in LoadedRecords(pages) : r.type = "user_message" /\ r.of = m.text /\ r.seq > m.base
PendingResynced(m) == resynced = m.run
PendingVisible(m) == ~PendingCanonical(m) /\ ~PendingResynced(m)

ClearPending ==
  /\ \E m \in pending : ~PendingVisible(m)
  /\ pending' = {}
  /\ UNCHANGED <<record, activeRun, calls, pages, overlay, ended, resynced, sending, following>>

(* The bubble takes the place after what the page had; one whose place is  *)
(* not known comes last, outside the rows.                                 *)
PendingSequence ==
  {m.base + 1 : m \in {q \in pending : pages # NoHistory /\ PendingVisible(q) /\ q.known}}
ProjectionRecords ==
  LET canonical == FlattenSeq([i \in DOMAIN pages |-> pages[i].records])
      text(m) == Record(m.base + 1, "user_message", m.run, m.text)
  IN  canonical \o BySeq(LiveRecords(pages, overlay))
                \o SetToSeq({text(m) : m \in {q \in pending : PendingSequence # {}}})

-----------------------------------------------------------------------------
TimelineInit ==
  /\ record = <<>> /\ activeRun = 0 /\ calls = <<>>
  /\ pages = NoHistory /\ overlay = <<>> /\ following = TRUE /\ ended = 0 /\ resynced = 0
  /\ sending = {} /\ pending = {}

TimelineNext ==
  \/ WriteOutput \/ WriteLabel \/ EndRun \/ Disconnect
  \/ \E text \in Texts : Submit(text)
  \/ \E m \in sending : Accept(m) \/ Respond(m)
  \/ LoadHistory \/ FetchOlder \/ Resync \/ ClearPending

TimelineSpec == TimelineInit /\ [][TimelineNext]_timelineVars

-----------------------------------------------------------------------------
Shown == ShownRecords(pages, overlay)
Timeline == ProjectTimeline(ProjectionRecords)

TimelineTypeOK ==
  /\ activeRun \in 0..TimelineRuns /\ ended \in 0..TimelineRuns /\ resynced \in 0..TimelineRuns
  /\ \A i \in DOMAIN record : record[i].seq = i /\ record[i].run \in Runs
  /\ ToSet(calls) \subseteq DOMAIN record
  /\ LoadedRecords(pages) \subseteq ToSet(record)
  /\ \A i \in DOMAIN pages : pages[i].records = <<>> => i = 1
  /\ \A i, j \in DOMAIN pages : i < j => NewestSeq(pages[j]) < OldestSeq(pages[i])
  /\ \A s \in DOMAIN overlay : overlay[s].seq = s
  /\ Cardinality(sending) <= 1 /\ Cardinality(pending) <= 1

(* Where a record is shown: as a row, as an item or the message of a row,  *)
(* or as the output of a call.                                             *)
InRow(row) == IF row.type # "assistant" THEN <<row.seq>>
              ELSE [i \in DOMAIN row.items |-> row.items[i].seq] \o <<row.message>>
Places(t, seq) ==
  Cardinality({i \in DOMAIN t.rows : Contains(InRow(t.rows[i]), seq)})
  + Cardinality({c \in DOMAIN t.observed : t.observed[c] = seq})

(* Whatever was loaded, announced, lost or merged, in whatever order, the  *)
(* rows ascend and each record the page has is shown in one place. A label *)
(* is the title of the group with its call, or none; a change to the agent *)
(* there already is, or a Run's second ending, need not be shown. The      *)
(* bubble's place may be another record's.                                 *)
EachShownOnce ==
  LET t == Timeline
  IN  /\ \A i, j \in DOMAIN t.rows : i < j => t.rows[i].seq < t.rows[j].seq
      /\ \A r \in Shown \ {q \in Shown : q.seq \in PendingSequence} :
           CASE r.type = "activity_label" ->
                  /\ Places(t, r.seq) = 0
                  /\ \A i \in DOMAIN t.rows :
                       t.rows[i].title = [kind |-> "label", seq |-> r.seq] => Contains(InRow(t.rows[i]), r.of)
             [] r.type \in {"agent_changed", "run_ended"} -> Places(t, r.seq) <= 1
             [] OTHER -> Places(t, r.seq) = 1

(* The end of a Run is shown once, though the client guesses the place of  *)
(* the ending it was told of and later loads the one recorded; and until a *)
(* resynchronisation follows it is shown, unless it is among the records   *)
(* the user has not scrolled to. The bubble may have the place guessed.    *)
EndingShown ==
  LET t == Timeline
      At(seq) == CHOOSE r \in Shown : r.seq = seq
      Endings(run) == {i \in DOMAIN t.rows : t.rows[i].type = "run_timing" /\ At(t.rows[i].seq).run = run}
      Older(run) == \E i \in DOMAIN record : record[i].type = "run_ended" /\ record[i].run = run /\ i < NextPageParam(pages)
  IN  PendingSequence = {} =>
      /\ \A r \in {q \in Shown : q.type = "run_ended"} : Cardinality(Endings(r.run)) = 1
      /\ ended # 0 => Endings(ended) # {} \/ Older(ended)

(* An output is shown with the call it answers, provided the page has the  *)
(* tool records of its Run up to it: the journal does not name the call.   *)
OutputsMatch ==
  LET t == Timeline
      Whole(o) == \A i \in 1..o.seq : record[i].run = o.run => record[i] \in Shown
  IN  PendingSequence = {} =>
      \A o \in {q \in Shown : q.type = "tool_output"} :
        Whole(o) => o.of \in DOMAIN t.observed /\ t.observed[o.of] = o.seq

(* From the moment the answer is in, the message is on the page, as a      *)
(* record or as the bubble, until a page of records has followed it. Only  *)
(* a message of the same text sent before it and not loaded when it was    *)
(* sent is taken for it.                                                   *)
InputShown ==
  \A m \in pending :
    \/ PendingVisible(m)
    \/ \E i \in DOMAIN record :
         /\ record[i].type = "user_message"
         /\ \/ record[i].run = m.run /\ (record[i] \in Shown \/ i <= Len(record) - TimelinePage)
            \/ record[i].of = m.text /\ record[i].run < m.run /\ i > m.base
=============================================================================
