------------------------------ MODULE LiveSync ------------------------------
(* How the Web client follows one Session: the server's state and journal, *)
(* the event stream (WebConnectionHub, bounded and lossy at a reconnect)   *)
(* and LiveWebSocketProvider, which resynchronises by REST when it         *)
(* connects, when the Session is opened and when a Run ends, holding back  *)
(* the events that arrive meanwhile.                                       *)
EXTENDS LiveEvents

CONSTANTS MaxRuns,         \* bound: Runs of the Session
          Earlier,         \* numbers of records its journal may begin with
          MaxRecords,      \* bound: records written from then on
          MaxDisturbances, \* bound: connections lost to the network, requests and writes that
                           \* fail, pages opened again, and reads a widget or React Query starts itself
          PageSize,        \* web.history_page_size
          QueueCapacity    \* web.websocket_queue_capacity

ASSUME BoundsAssumption ==
  /\ Earlier \cup {MaxRuns, MaxRecords, MaxDisturbances} \subseteq Nat
  /\ {PageSize, QueueCapacity} \subseteq Nat \ {0}

VARIABLES server,   \* the Runtime, the broker and the host, seen from the Web
          journal,  \* the Session's journal
          wire,     \* the stream: events queued or in flight, the socket's open and close
          socket,   \* whether the hub holds a connection
          client,   \* LiveWebSocketProvider and the two caches it keeps
          budget    \* what is left of MaxDisturbances

vars == <<server, journal, wire, socket, client, budget>>

-----------------------------------------------------------------------------
(* The server.                                                             *)

(* What /state answers: Run, phase and pending approvals at one instant.   *)
Snapshot == [run |-> server.run, phase |-> server.phase, approvals |-> server.approvals, ver |-> server.ver]

Marker(kind) == Event(kind, 0, 0, "", 0)

(* publish: the event joins the connection's queue; when that is full the  *)
(* hub drops the connection with what the queue holds.                     *)
Enqueue(w, e) == IF w # <<>> /\ Last(w).kind = "close" THEN w
                 ELSE IF Len(w) >= QueueCapacity THEN <<Marker("close")>> ELSE Append(w, e)
Publish(events) ==
  LET sent == FoldLeft(Enqueue, wire, events)
  IN  IF socket = "up"
      THEN /\ wire' = sent
           /\ socket' = IF sent # <<>> /\ Last(sent).kind = "close" THEN "down" ELSE "up"
      ELSE UNCHANGED <<wire, socket>>

RuntimeState(run, phase, ver) == Event("runtime_state", run, 0, phase, ver)

(* A Run starts: its state is announced before its first record is written.*)
StartRun(source) ==
  /\ server.run = 0 /\ server.runs < MaxRuns
  /\ server' = [server EXCEPT !.run = server.runs + 1, !.runs = @ + 1, !.phase = "running",
                              !.first = source, !.ver = @ + 1]
  /\ Publish(<<RuntimeState(server.runs + 1, "running", server.ver + 1)>>)
  /\ UNCHANGED <<journal, client, budget>>

(* A record is announced as soon as it is written: the time that passes in *)
(* between is part of the time its event takes.                            *)
Write(type, run, events) ==
  /\ Cardinality({i \in DOMAIN journal : journal[i].run # 0}) < MaxRecords
  /\ journal' = Append(journal, Record(Len(journal) + 1, type, run, IF type = "run_ended" THEN 1 ELSE 0))
  /\ Publish(events)
NextSeq == Len(journal) + 1

(* The first record of a Run: announced only when a queued input became it.*)
WriteUserMessage ==
  /\ server.run # 0 /\ server.first # "written"
  /\ Write("user_message", server.run,
           IF server.first = "queue" THEN <<Event("follow_up", server.run, NextSeq, "queue_promoted", 0)>> ELSE <<>>)
  /\ server' = [server EXCEPT !.first = "written"]
  /\ UNCHANGED <<client, budget>>

Working == server.run # 0 /\ server.phase = "running" /\ server.first = "written"

WriteOutput ==
  /\ Working
  /\ Write("assistant_message", server.run, <<Event("output", server.run, NextSeq, "assistant_message", 0)>>)
  /\ UNCHANGED <<server, client, budget>>

AskApproval ==
  /\ Working /\ server.asked # server.run
  /\ server' = [server EXCEPT !.phase = "waiting_approval", !.approvals = {server.run},
                              !.asked = server.run, !.ver = @ + 2]
  /\ Publish(<<RuntimeState(server.run, "waiting_approval", server.ver + 1),
               Event("approval_required", server.run, 0, "", server.ver + 2)>>)
  /\ UNCHANGED <<journal, client, budget>>

(* The answer ends the wait: its record is written, then it and the phase  *)
(* the Run goes on in are announced. The record has no event of its own.   *)
ResolveApproval ==
  /\ server.approvals # {}
  /\ server' = [server EXCEPT !.approvals = {}, !.phase = "running", !.ver = @ + 2]
  /\ Write("approval", server.run,
           <<Event("approval_resolved", server.run, NextSeq, "", server.ver + 1),
             RuntimeState(server.run, "running", server.ver + 2)>>)
  /\ UNCHANGED <<client, budget>>

(* The Run leaves the active Runs; a request it still waits for is         *)
(* cancelled. Its ending is recorded afterwards, while the next may start. *)
EndRun ==
  /\ server.run # 0 /\ server.first = "written" /\ server.ending = 0
  /\ server' = [server EXCEPT !.run = 0, !.phase = "idle", !.approvals = {}, !.ending = server.run, !.ver = @ + 2]
  /\ Publish((IF server.approvals = {} THEN <<>>
              ELSE <<Event("approval_cancelled", server.run, 0, "", server.ver + 1)>>)
             \o <<RuntimeState(0, "idle", server.ver + 2)>>)
  /\ UNCHANGED <<journal, client, budget>>

(* A write that fails is logged; the event is published all the same.      *)
RecordRunEnded(written) ==
  LET events == <<Event("run_ended", server.ending, 0, "", 0)>>
  IN  /\ server.ending # 0
      /\ IF written THEN Write("run_ended", server.ending, events) /\ UNCHANGED budget
         ELSE /\ budget > 0
              /\ Publish(events) /\ budget' = budget - 1 /\ UNCHANGED journal
      /\ server' = [server EXCEPT !.ending = 0]
      /\ UNCHANGED client

-----------------------------------------------------------------------------
(* The client. A request is asked, then answered or failed, then used: the *)
(* answer is what the server had in between. "lost" is a ghost, read by no *)
(* action: what the client cannot know, and why.                           *)

Slot(st, val) == [st |-> st, val |-> val]
None == Slot("none", {})
Asked == Slot("asked", {})
Fetch(st, older, base) == [st |-> st, older |-> older, base |-> base, val |-> {}]
NoFetch == Fetch("none", FALSE, NoHistory)

(* startResync up to its requests: the history query is cancelled, events  *)
(* already held back for the same Session stay held back.                  *)
StartResync(c) ==
  [c EXCEPT !.buffered = IF c.syncing = "no" THEN <<>> ELSE @,
            !.syncing = "requests", !.stateReq = Asked, !.historyReq = Asked, !.fetch = NoFetch,
            !.lost = @ \ {"reconnect"}]

(* One resynchronisation at a time; a request made while held-back events  *)
(* are replayed waits for the end of the replay.                           *)
RequestUnlessDraining(c) == \* Mutant: a request made during a replay is forgotten.
  IF ~c.selected \/ c.draining \/ c.syncing # "no" THEN c ELSE StartResync(c)
RequestSelectedResync(c) ==
  IF ~c.selected THEN c
  ELSE IF c.draining THEN [c EXCEPT !.deferred = TRUE]
  ELSE IF c.syncing # "no" THEN c ELSE StartResync(c)

(* replaceOverlay sets the ref at once. setOverlayState takes a function,  *)
(* which sets the ref when it runs: at once when React has no update of    *)
(* the component queued, else when it renders.                             *)
ReplaceOverlay(c, overlay) == [c EXCEPT !.overlay = overlay, !.ref = overlay, !.rendered = FALSE]
PutRecordFromRef(c, r) == \* Mutant: the record is added to the map of the last render.
  [c EXCEPT !.overlay = Put(c.ref, r), !.rendered = FALSE]
PutRecord(c, r) ==
  LET next == Put(c.overlay, r)
  IN  [c EXCEPT !.overlay = next, !.ref = IF c.rendered THEN next ELSE @, !.rendered = FALSE]

(* The sessionState query: nothing is put into a cache that holds nothing. *)
UpdateState(c, e) ==
  LET ver == [s \in c.state |-> [s EXCEPT !.ver = e.of]]
      Changed(s) ==
        CASE e.kind = "runtime_state" -> [ver[s] EXCEPT !.run = e.run, !.phase = e.type]
          [] e.kind = "approval_required" -> [ver[s] EXCEPT !.approvals = @ \cup {e.run}]
          [] OTHER -> [ver[s] EXCEPT !.approvals = @ \ {e.run}]
  IN  [c EXCEPT !.state = {Changed(s) : s \in c.state}]

(* processEvent: the caches, then a resynchronisation where the event says *)
(* that records were written which the stream does not carry, then the     *)
(* overlay. A run_ended also refetches the state, on its own.              *)
ProcessEvent(c, e) ==
  LET cached == CASE e.kind \in {"runtime_state", "approval_required", "approval_resolved", "approval_cancelled"} ->
                       UpdateState(c, e)
                  [] e.kind = "run_ended" -> [c EXCEPT !.ended = e.run, !.refetch = Asked]
                  [] OTHER -> c
      resyncs == \/ e.kind \in {"approval_resolved", "run_ended"}
                 \/ e.kind = "follow_up" /\ e.type \in {"queue_submitted", "queue_promoted"}
      synced == IF resyncs THEN RequestSelectedResync(cached) ELSE cached
      endedSeq == IF e.kind = "run_ended" THEN NextLiveRunEndedSequence(c.pages, c.ref, e.run) ELSE 0
      records == IF c.selected THEN OverlayRecords(e, endedSeq) ELSE {}
  IN  IF records = {} THEN synced ELSE PutRecord(synced, CHOOSE r \in records : TRUE)

(* Mutant: shown as connected whatever the stream does. *)
SettledAlways(c) == [c EXCEPT !.status = "connected"]
Settled(c) == IF c.link = "connected" THEN [c EXCEPT !.status = "connected"] ELSE c

(* The end of a resynchronisation: the overlay is pruned, the events held  *)
(* back are replayed in order, and a resynchronisation one of them asked   *)
(* for starts; only without one is the connection shown as connected.      *)
FinishResync(c, newest) ==
  LET pruned == [ReplaceOverlay(c, PruneOverlay(c.pages, c.ref, newest)) EXCEPT
                   !.syncing = "no", !.stateReq = None, !.historyReq = None, !.buffered = <<>>, !.draining = TRUE]
      drained == [FoldLeft(ProcessEvent, pruned, c.buffered) EXCEPT !.draining = FALSE, !.deferred = FALSE]
      again == FoldLeft(ProcessEvent, pruned, c.buffered).deferred
  IN  IF again THEN StartResync(drained) ELSE Settled(drained)

(* React renders: the queued updates of the overlay run. It may or may not *)
(* do so before the next event of the stream; the browser renders before   *)
(* it hands over the next answer of a request.                             *)
Rendered(c) == [c EXCEPT !.ref = c.overlay, !.rendered = TRUE]

(* The stream delivers in order. What arrives while the Session is being   *)
(* resynchronised is held back.                                            *)
OnStatusChange(c, link) ==
  LET told == [c EXCEPT !.link = link, !.status = IF link = "connected" /\ ~c.selected THEN link ELSE "reconnecting"]
      missed == IF c.selected /\ c.syncing # "no" THEN {"reconnect"} ELSE {}
  IN  IF link = "connected"
      THEN [RequestSelectedResync(told) EXCEPT !.lost = @ \cup missed]
      ELSE told

(* Mutant: an event that arrives during a resynchronisation is dropped.    *)
LoseEvent(c, e) == c
HoldBack(c, e) == [c EXCEPT !.buffered = Append(@, e)]

Deliver ==
  LET e == Head(wire)
  IN  /\ wire # <<>>
      /\ wire' = Tail(wire)
      /\ \E c \in {client, Rendered(client)} :
           client' = CASE e.kind = "open" -> OnStatusChange(c, "connected")
                       [] e.kind = "close" -> OnStatusChange(c, "reconnecting")
                       [] OTHER -> IF ~ParseLiveEvent(e) THEN c
                                   ELSE IF c.syncing # "no" THEN HoldBack(c, e)
                                   ELSE ProcessEvent(c, e)
      /\ UNCHANGED <<server, journal, socket, budget>>

(* The server answers a request, or the request fails.                     *)
Failing(ok) == /\ ~ok => budget > 0
               /\ budget' = IF ok THEN budget ELSE budget - 1
AnswerState(ok) ==
  /\ client.stateReq.st = "asked" /\ Failing(ok)
  /\ client' = [client EXCEPT !.stateReq = IF ok THEN Slot("answered", {Snapshot}) ELSE Slot("failed", {})]
  /\ UNCHANGED <<server, journal, wire, socket>>
AnswerHistory(ok) ==
  /\ client.historyReq.st = "asked" /\ Failing(ok)
  /\ client' = [client EXCEPT !.historyReq = IF ok THEN Slot("answered", {ReadPage(journal, 0, PageSize)})
                                            ELSE Slot("failed", {})]
  /\ UNCHANGED <<server, journal, wire, socket>>
AnswerRefetch(ok) ==
  /\ client.refetch.st = "asked" /\ Failing(ok)
  /\ client' = [client EXCEPT !.refetch = IF ok THEN Slot("answered", {Snapshot}) ELSE None]
  /\ UNCHANGED <<server, journal, wire, socket>>

(* The history query's own fetches: its pages again, or the next older one.*)
AnswerFetch(ok) ==
  LET pages == client.fetch.base
      read == IF client.fetch.older THEN FetchNextPage(pages, journal, PageSize)
              ELSE RefetchPages(pages, journal, PageSize)
  IN  /\ client.fetch.st = "asked" /\ Failing(ok)
      /\ client' = [client EXCEPT !.fetch.st = IF ok THEN "answered" ELSE "failed",
                                 !.fetch.val = IF ok THEN {read} ELSE {}]
      /\ UNCHANGED <<server, journal, wire, socket>>

(* The answers of a resynchronisation are used together, when both are in. *)
(* Without a history its query refetches its pages before the end.         *)
ApplyResync ==
  LET c == Rendered(client)
      state == c.stateReq.val
      newest == Max({NewestSeq(page) : page \in c.historyReq.val} \cup {0})
      stated == [c EXCEPT !.state = IF state = {} THEN @ ELSE state,
                          !.lost = IF state = {} THEN @ \cup {"state"} ELSE @ \ {"state"}]
      merged == [stated EXCEPT !.pages = MergeHistoryPages(@, CHOOSE page \in c.historyReq.val : TRUE, PageSize),
                               !.lost = @ \ {"history"},
                               !.resynced = IF c.ended = 0 THEN @ ELSE c.ended, !.ended = 0]
  IN  /\ c.syncing = "requests" /\ {c.stateReq.st, c.historyReq.st} \subseteq {"answered", "failed"}
      /\ client' = IF c.historyReq.st = "answered"
                   THEN FinishResync(merged, IF newest = 0 THEN HistoryNewestSeq(merged.pages) ELSE newest)
                   ELSE [stated EXCEPT !.syncing = "refetch", !.fetch = Fetch("asked", FALSE, c.pages)]
      /\ UNCHANGED <<server, journal, wire, socket, budget>>

(* A fetch of the history query replaces the pages by the ones it started  *)
(* from, read again or with one more; nothing cancels it but the start of  *)
(* a resynchronisation.                                                    *)
LandFetch ==
  LET c == Rendered(client)
      Older(pages) == HistoryNewestSeq(pages) < HistoryNewestSeq(c.pages)
      landed == [c EXCEPT !.pages = IF c.fetch.val = {} THEN @ ELSE CHOOSE pages \in c.fetch.val : TRUE,
                          !.lost = IF c.syncing = "refetch" /\ c.fetch.val = {} THEN @ \cup {"history"}
                                   ELSE IF \E pages \in c.fetch.val : Older(pages) THEN @ \cup {"history"} ELSE @,
                          !.fetch = NoFetch]
  IN  /\ c.fetch.st \in {"answered", "failed"}
      /\ client' = IF c.syncing = "refetch" THEN FinishResync(landed, HistoryNewestSeq(landed.pages)) ELSE landed
      /\ UNCHANGED <<server, journal, wire, socket, budget>>

(* A read of the state of its own replaces the cached state whenever it    *)
(* comes in, however old its answer is.                                    *)
LandRefetch ==
  LET c == Rendered(client)
      older == \E s \in c.state, t \in c.refetch.val : t.ver < s.ver
  IN  /\ c.refetch.st = "answered"
      /\ client' = [c EXCEPT !.state = c.refetch.val, !.refetch = None,
                            !.lost = IF older THEN @ \cup {"state"} ELSE @]
      /\ UNCHANGED <<server, journal, wire, socket, budget>>

-----------------------------------------------------------------------------
(* The user and the network.                                               *)

(* The composer, the queue strip and React Query read the state again.     *)
RefreshState ==
  /\ budget > 0 /\ client.selected
  /\ budget' = budget - 1
  /\ client' = [client EXCEPT !.refetch = Asked]
  /\ UNCHANGED <<server, journal, wire, socket>>

LoadOlder ==
  /\ client.selected /\ client.fetch.st = "none" /\ NextPageParam(client.pages) > 0
  /\ budget > 0 /\ budget' = budget - 1
  /\ client' = [client EXCEPT !.fetch = Fetch("asked", TRUE, client.pages)]
  /\ UNCHANGED <<server, journal, wire, socket>>

(* Both ways the selection effect runs: whatever is under way is dropped,  *)
(* the held-back events with it. A page without history fetches it.        *)
AbandonRequests(c) == \* Mutant: the events held back are kept.
  [c EXCEPT !.syncing = "no", !.stateReq = None, !.historyReq = None, !.deferred = FALSE]
AbandonResync(c) ==
  [c EXCEPT !.syncing = "no", !.stateReq = None, !.historyReq = None, !.buffered = <<>>, !.deferred = FALSE]
Reselect(c, selected) ==
  [ReplaceOverlay(AbandonResync(c), <<>>) EXCEPT
     !.selected = selected, !.resynced = 0,
     !.fetch = IF selected /\ c.pages = NoHistory THEN Fetch("asked", FALSE, NoHistory) ELSE NoFetch]

OpenPage ==
  LET opened == Reselect(client, TRUE)
  IN  /\ ~client.selected /\ budget > 0
      /\ budget' = budget - 1
      /\ client' = IF client.link = "connected" THEN StartResync([opened EXCEPT !.status = "reconnecting"]) ELSE opened
      /\ UNCHANGED <<server, journal, wire, socket>>

ClosePage ==
  /\ client.selected /\ budget > 0
  /\ client' = Reselect(client, FALSE)
  /\ UNCHANGED <<server, journal, wire, socket, budget>>

(* The network takes the connection, with any suffix of what is under way. *)
DropConnection ==
  /\ socket = "up" /\ budget > 0
  /\ budget' = budget - 1
  /\ \E n \in 0..Len(wire) : wire' = Append(SubSeq(wire, 1, n), Marker("close"))
  /\ socket' = "down"
  /\ UNCHANGED <<server, journal, client>>

Reconnect ==
  /\ socket = "down" /\ wire = <<>>
  /\ socket' = "up"
  /\ wire' = <<Marker("open")>>
  /\ UNCHANGED <<server, journal, client, budget>>

-----------------------------------------------------------------------------
(* The page is open and up to date, over the history of earlier Runs.      *)
Init ==
  /\ server = [run |-> 0, runs |-> 0, phase |-> "idle", approvals |-> {}, asked |-> 0, first |-> "written",
               ending |-> 0, ver |-> 0]
  /\ \E n \in Earlier : journal = [i \in 1..n |-> Record(i, "assistant_message", 0, 0)]
  /\ wire = <<>> /\ socket = "up"
  /\ client = [selected |-> TRUE, link |-> "connected", status |-> "connected", syncing |-> "no",
               stateReq |-> None, historyReq |-> None, refetch |-> None, fetch |-> NoFetch,
               buffered |-> <<>>, draining |-> FALSE, deferred |-> FALSE,
               overlay |-> <<>>, ref |-> <<>>, rendered |-> TRUE, ended |-> 0, resynced |-> 0,
               pages |-> <<ReadPage(journal, 0, PageSize)>>, state |-> {Snapshot}, lost |-> {}]
  /\ budget = MaxDisturbances

ServerWrites ==
  \/ \E source \in {"direct", "queue"} : StartRun(source)
  \/ WriteUserMessage
  \/ WriteOutput
  \/ AskApproval
  \/ ResolveApproval
  \/ EndRun
  \/ \E written \in BOOLEAN : RecordRunEnded(written)

ServerAnswers ==
  \E ok \in BOOLEAN : AnswerState(ok) \/ AnswerHistory(ok) \/ AnswerRefetch(ok) \/ AnswerFetch(ok)

ClientSteps == Deliver \/ ApplyResync \/ LandFetch \/ LandRefetch

Next ==
  \/ ServerWrites
  \/ ServerAnswers
  \/ ClientSteps
  \/ RefreshState \/ LoadOlder \/ OpenPage \/ ClosePage
  \/ DropConnection \/ Reconnect

Spec == Init /\ [][Next]_vars

-----------------------------------------------------------------------------
Shown == ShownRecords(client.pages, client.overlay)

Quiet ==
  /\ wire = <<>> /\ socket = "up" /\ client.link = "connected" /\ server.ending = 0
  /\ client.selected /\ client.syncing = "no"
  /\ client.refetch.st = "none" /\ client.fetch.st = "none"

SyncTypeOK ==
  /\ server.run \in 0..MaxRuns /\ server.phase \in Phases /\ server.approvals \subseteq {server.run}
  /\ \A i \in DOMAIN journal : journal[i].seq = i
  /\ socket \in {"up", "down"} /\ client.syncing \in {"no", "requests", "refetch"}
  /\ Cardinality(client.state) <= 1
  /\ \A s \in DOMAIN client.overlay : client.overlay[s].seq = s
  /\ client.buffered # <<>> => client.syncing # "no"
  /\ client.lost \subseteq {"reconnect", "state", "history"}

(* When nothing is under way the page shows the Run, the phase and the     *)
(* approvals the Runtime has: no event overtook the snapshot it was merged *)
(* with. Lost are a reconnection that found a resynchronisation under way  *)
(* and a state read of its own that landed late or failed.                 *)
StateConverges ==
  Quiet /\ client.lost \cap {"reconnect", "state"} = {} =>
    \A s \in client.state : [s EXCEPT !.ver = server.ver] = Snapshot

(* When nothing is under way the page shows the latest page of the journal,*)
(* but for the input of the Run that goes on, which no event announces.    *)
HistoryConverges ==
  Quiet /\ client.lost \cap {"reconnect", "history"} = {} =>
    \A r \in ToSet(ReadPage(journal, 0, PageSize).records) :
      r \in Shown \/ (r.type = "user_message" /\ r.run = server.run)

(* What the timeline is told of a Run it waits for is true: a Run is       *)
(* reported as resynchronised when the history it left is there, and it    *)
(* stays unless an older page lands over it.                               *)
ResyncedHasHistory ==
  client.resynced # 0 /\ "history" \notin client.lost =>
    \A i \in DOMAIN journal : journal[i].run = client.resynced =>
      \/ journal[i] \in LoadedRecords(client.pages)
      \/ \E r \in LoadedRecords(client.pages) : r.seq > i

(* What the page says of its connection is true: it is never shown as      *)
(* connected while the stream is known to be down, and once it follows the *)
(* stream with no resynchronisation under way it is shown as connected.    *)
StatusTruthful ==
  /\ client.status = "connected" => client.link = "connected"
  /\ client.selected /\ client.link = "connected" /\ client.syncing = "no" => client.status = "connected"

(* A record once shown stays shown as long as the page is open, or can be  *)
(* scrolled back to, whatever is merged, pruned and replayed. Not covered  *)
(* are an ending, whose number the client guesses and which can hide the   *)
(* record that has it, a record of the stream that is more than a page old *)
(* when the history is merged, and an older page that lands over a merge.  *)
KeepsShowing ==
  [][client.selected /\ client'.selected /\ "history" \notin client'.lost =>
       \A r \in Shown :
         \/ r \in Shown' \/ r.seq < NextPageParam(client'.pages)
         \/ r.type = "run_ended" \/ \E q \in Shown' : q.seq = r.seq /\ q.type = "run_ended"
         \/ r \notin LoadedRecords(client.pages) /\ r.seq <= Len(journal) - PageSize]_vars

(* "The JSONL journal is append-only user-visible replay state [...]       *)
(* Clients reconcile paged history and live events by original journal     *)
(* sequence": when nothing is under way every record but the unannounced   *)
(* input of the Run that goes on is shown or can be scrolled back to.      *)
HistoryReachable ==
  Quiet /\ client.lost = {} =>
    \A r \in ToSet(journal) :
      r \in Shown \/ r.seq < NextPageParam(client.pages) \/ (r.type = "user_message" /\ r.run = server.run)
=============================================================================
