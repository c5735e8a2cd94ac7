----------------------------- MODULE QueueStrip -----------------------------
(* The strip with the follow-ups that wait for the Session shown           *)
(* (frontend/src/components/queue/QueueStrip.tsx). What it shows comes from*)
(* three sides: the replies to its own requests, pushed runtime states,    *)
(* which have the number of items but not the items, and reads of the      *)
(* Session's state, which some events call for (LiveSync).                 *)
EXTENDS Naturals, Sequences, SequencesExt, ClientRequests

CONSTANTS MaxItems,   \* bound: follow-ups queued
          MaxVersion, \* bound: changes of the queue
          MaxClicks   \* bound: requests of this page

ASSUME QueueStripAssumption == {MaxItems, MaxVersion, MaxClicks} \subseteq Nat

VARIABLES queue,       \* the server's, with its version: every change is one
          stripEvents, \* what it published and the page has not handled yet
          stripState,  \* the cached runtime (count, paused) and queue
          seen,        \* the newest version in it
          doubt,       \* the version a later read has to bring (0: none)
          resync,      \* a read of the state: idle, asked, or what it read
          clicks,      \* this page's requests, in their order
          clicked      \* the one its observers report (0: none)

stripVars == <<queue, stripEvents, stripState, seen, doubt, resync, clicks, clicked>>

Snapshot(q) == [items |-> q.items, count |-> Len(q.items), paused |-> q.paused, version |-> q.version]
Idle == [phase |-> "idle"]
NoReply == [version |-> 0]
StripPending == clicked # 0 /\ clicks[clicked].phase # "answered"

StripTypeOK ==
  /\ queue.items \in Seq(1..queue.made) /\ queue.made <= MaxItems /\ queue.version <= MaxVersion
  /\ (queue.paused => queue.items # <<>>)
  /\ stripState.count <= MaxItems /\ seen <= queue.version /\ doubt <= queue.version
  /\ resync.phase \in {"idle", "asked", "read"}
  /\ \A i \in DOMAIN clicks : clicks[i].phase \in {"posted", "served", "answered"}
  /\ clicked \in 0..Len(clicks)

-----------------------------------------------------------------------------
(* The server (AgentRuntime): each change is announced by a runtime state, *)
(* a submission and a promotion also by an event of their own.             *)
RuntimeState(q) == [kind |-> "runtime_state", count |-> Len(q.items), paused |-> q.paused, version |-> q.version]
FollowUp == [kind |-> "follow_up"]
Changed(items, paused) ==
  [queue EXCEPT !.items = items, !.paused = paused /\ items # <<>>, !.version = @ + 1]
Promoted(q) == [q EXCEPT !.items = Tail(@), !.version = @ + 1]
CanChange == queue.version < MaxVersion
Publish(q) == queue' = q /\ stripEvents' = Append(stripEvents, RuntimeState(q))
PublishMore(q) == queue' = q /\ stripEvents' = stripEvents \o <<RuntimeState(q), FollowUp>>

SubmitItem ==
  /\ CanChange /\ queue.made < MaxItems
  /\ PublishMore([Changed(Append(queue.items, queue.made + 1), queue.paused) EXCEPT !.made = @ + 1])
  /\ UNCHANGED <<stripState, seen, doubt, resync, clicks, clicked>>
PromoteItem ==
  /\ CanChange /\ queue.items # <<>> /\ ~queue.paused
  /\ PublishMore(Promoted(queue))
  /\ UNCHANGED <<stripState, seen, doubt, resync, clicks, clicked>>
PauseItems ==
  /\ CanChange /\ queue.items # <<>> /\ ~queue.paused
  /\ Publish(Changed(queue.items, TRUE))
  /\ UNCHANGED <<stripState, seen, doubt, resync, clicks, clicked>>
(* Another page of the same Session removes one: only the number of items  *)
(* reaches this one.                                                       *)
RemoveElsewhere ==
  /\ CanChange
  /\ \E k \in DOMAIN queue.items : Publish(Changed(RemoveAt(queue.items, k), queue.paused))
  /\ doubt' = queue.version + 1
  /\ UNCHANGED <<stripState, seen, resync, clicks, clicked>>

-----------------------------------------------------------------------------
Newest(version) == seen' = IF version > seen THEN version ELSE seen
(* A queue becomes the one shown, newer or older than what is shown.       *)
Trusted(version) ==
  /\ Newest(version)
  /\ doubt' = IF version >= seen /\ version >= doubt THEN 0 ELSE IF seen > doubt THEN seen ELSE doubt

(* Events wait while the state is being read.                              *)
HandleEvent ==
  LET event == Head(stripEvents)
  IN  /\ stripEvents # <<>> /\ resync = Idle
      /\ stripEvents' = Tail(stripEvents)
      /\ \/ /\ event.kind = "runtime_state"
            /\ stripState' = [stripState EXCEPT !.count = event.count, !.paused = event.paused]
            /\ Newest(event.version) /\ UNCHANGED resync
         \/ event.kind = "follow_up" /\ resync' = [phase |-> "asked"] /\ UNCHANGED <<stripState, seen>>
      /\ UNCHANGED <<queue, doubt, clicks, clicked>>

(* The page also reads the state for other reasons.                        *)
AskState ==
  /\ resync = Idle /\ doubt # 0 /\ resync' = [phase |-> "asked"]
  /\ UNCHANGED <<queue, stripEvents, stripState, seen, doubt, clicks, clicked>>
ReadState ==
  /\ resync.phase = "asked" /\ resync' = [phase |-> "read", state |-> Snapshot(queue)]
  /\ UNCHANGED <<queue, stripEvents, stripState, seen, doubt, clicks, clicked>>
LandState ==
  /\ resync.phase = "read" /\ resync' = Idle
  /\ stripState' = resync.state /\ Trusted(resync.state.version)
  /\ UNCHANGED <<queue, stripEvents, clicks, clicked>>

(* visibleQueue: what was promoted since is not in the last items.         *)
Visible ==
  LET n == Len(stripState.items)
      count == stripState.count
  IN  IF count < n /\ count # 0 THEN SubSeq(stripState.items, n - count + 1, n) ELSE stripState.items
OnStrip == stripState.count # 0 \/ stripState.paused

Click(operation, item) ==
  /\ OnStrip /\ ~StripPending /\ Len(clicks) < MaxClicks
  /\ clicks' = Append(clicks, [operation |-> operation, item |-> item, phase |-> "posted", done |-> FALSE, reply |-> NoReply])
  /\ clicked' = Len(clicks')
  /\ UNCHANGED <<queue, stripEvents, stripState, seen, doubt, resync>>
RemoveQueued == \E k \in DOMAIN Visible : Click("remove", Visible[k])
ClearQueue == Visible # <<>> /\ Click("clear", 0)
ResumeQueue == stripState.paused /\ Click("resume", 0)

(* The handler of a request: refused when what it is about is gone. Resume *)
(* may promote the first item before it replies.                           *)
Served(i, q) == clicks' = [clicks EXCEPT ![i].phase = "served", ![i].done = TRUE, ![i].reply = Snapshot(q)]
ServeClick(i) ==
  LET c == clicks[i]
  IN  /\ c.phase = "posted" /\ CanChange
      /\ \/ /\ c.operation = "remove"
            /\ \E k \in DOMAIN queue.items :
                 queue.items[k] = c.item /\ Publish(Changed(RemoveAt(queue.items, k), queue.paused))
            /\ Served(i, queue')
         \/ /\ c.operation = "clear" /\ queue.items # <<>>
            /\ Publish(Changed(<<>>, FALSE)) /\ Served(i, queue')
         \/ /\ c.operation = "clear" /\ queue.items = <<>>
            /\ Served(i, queue) /\ UNCHANGED <<queue, stripEvents>>
         \/ /\ c.operation = "resume" /\ queue.paused
            /\ LET resumed == Changed(queue.items, FALSE)
               IN  \/ Publish(resumed)
                   \/ /\ resumed.version < MaxVersion /\ queue' = Promoted(resumed)
                      /\ stripEvents' = stripEvents \o <<RuntimeState(resumed), RuntimeState(queue'), FollowUp>>
            /\ Served(i, queue')
         \/ clicks' = [clicks EXCEPT ![i].phase = "served"] /\ UNCHANGED <<queue, stripEvents>>
      /\ UNCHANGED <<stripState, seen, doubt, resync, clicked>>

RuntimeOnly(reply) == [reply EXCEPT !.items = stripState.items] \* Mutant: the queue of the reply is not taken.
(* applyQueueMutation: runtime and queue of the reply, whatever came since.*)
ApplyQueueMutation(reply) == reply
AnswerClick(i) ==
  LET c == clicks[i]
  IN  /\ c.phase = "served"
      /\ clicks' = [clicks EXCEPT ![i].phase = "answered", ![i].reply = NoReply]
      /\ \E result \in Results(c.done) :
           IF result = "value" THEN stripState' = ApplyQueueMutation(c.reply) /\ Trusted(c.reply.version)
           ELSE /\ doubt' = IF c.done /\ c.reply.version > doubt THEN c.reply.version ELSE doubt
                /\ UNCHANGED <<stripState, seen>>
      /\ UNCHANGED <<queue, stripEvents, resync, clicked>>

(* The page shows something else and comes back: its requests go on.       *)
ForgetClick ==
  /\ clicked # 0 /\ clicked' = 0
  /\ UNCHANGED <<queue, stripEvents, stripState, seen, doubt, resync, clicks>>

-----------------------------------------------------------------------------
StripInit ==
  /\ queue = [items |-> <<>>, paused |-> FALSE, version |-> 0, made |-> 0]
  /\ stripEvents = <<>> /\ stripState = Snapshot(queue) /\ seen = 0 /\ doubt = 0
  /\ resync = Idle /\ clicks = <<>> /\ clicked = 0

StripNext ==
  \/ SubmitItem \/ PromoteItem \/ PauseItems \/ RemoveElsewhere
  \/ HandleEvent \/ AskState \/ ReadState \/ LandState
  \/ RemoveQueued \/ ClearQueue \/ ResumeQueue \/ ForgetClick
  \/ \E i \in DOMAIN clicks : ServeClick(i) \/ AnswerClick(i)

StripSpec == StripInit /\ [][StripNext]_stripVars

-----------------------------------------------------------------------------
(* When everything published has been handled and nothing is under way,    *)
(* the strip shows the follow-ups that wait; unless a reply came after     *)
(* something newer or was lost, or another page removed one, and the state *)
(* was not read since.                                                     *)
QueueShown ==
  (/\ stripEvents = <<>> /\ resync = Idle /\ doubt = 0
   /\ \A i \in DOMAIN clicks : clicks[i].phase = "answered")
  => /\ stripState.paused = queue.paused
     /\ IF OnStrip THEN Visible = queue.items ELSE queue.items = <<>>
=============================================================================
