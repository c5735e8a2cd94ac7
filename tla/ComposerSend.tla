---------------------------- MODULE ComposerSend ----------------------------
(* The composer of a conversation and the drafts of its page: what the     *)
(* user types, and the message made of it                                  *)
(* (frontend/src/components/composer/Composer.tsx, the drafts and pending  *)
(* messages of components/conversation/ConversationPage.tsx).              *)
(*                                                                         *)
(* One observer serves all Sessions: isPending and variables are those of  *)
(* the last message sent by this mount of the composer. The refresh of the *)
(* Session's state that follows a message is LiveSync's.                   *)
EXTENDS Naturals, Sequences, FiniteSets, ClientRequests

CONSTANTS ComposerSessions,
          NoComposerSession, \* null of preparingSendSessionId
          NativeTexts,       \* the texts that are NATIVE_ACTIONS
          MaxTexts,          \* bound: texts typed for each Session
          MaxSends           \* bound: submissions

ASSUME ComposerAssumption ==
  /\ ComposerSessions # {} /\ NoComposerSession \notin ComposerSessions
  /\ NativeTexts \subseteq Nat /\ {MaxTexts, MaxSends} \subseteq Nat

VARIABLES shownSession, \* sessionId of the page
          mounted,      \* whether its state and related queries let it show the composer
          loaded,       \* the Sessions whose history is in the cache
          typed,        \* of each Session the texts typed so far, each one new
          leftAt,       \* of each Session how many were when the page was last left
          draft,        \* drafts (0: none)
          bubbles,      \* pendingMessages: of each Session the submission shown (0: none)
          preparing,    \* preparingSendSessionId
          sends,        \* the submissions, in their order
          observed      \* the one the mutation observer reports (0: none)

composerVars == <<shownSession, mounted, loaded, typed, leftAt, draft, bubbles, preparing, sends, observed>>

(* A submission reads the history when it is not loaded, is posted, then   *)
(* done by the server or not, then answered. "watch" is what became of the *)
(* composer since: another submission took the observer or the preparing   *)
(* flag, the composer was unmounted, the whole page was left.              *)
Submission(s, text, phase) ==
  [session |-> s, text |-> text, phase |-> phase, applied |-> FALSE, result |-> "none", watch |-> "watched"]
Phases == {"reading", "posted", "served", "answered"}
Mine(i) == sends[i].watch \in {"watched", "displaced"}
Unanswered(i) == sends[i].phase \in {"reading", "posted", "served"}

ComposerTypeOK ==
  /\ shownSession \in ComposerSessions /\ mounted \in BOOLEAN /\ loaded \subseteq ComposerSessions
  /\ \A s \in ComposerSessions : draft[s] \in {0, typed[s]} /\ leftAt[s] <= typed[s] /\ typed[s] <= MaxTexts
  /\ bubbles \in [ComposerSessions -> 0..Len(sends)]
  /\ preparing \in ComposerSessions \cup {NoComposerSession}
  /\ \A i \in DOMAIN sends : sends[i].phase \in Phases /\ (sends[i].applied => ~sends[i].phase \in {"reading", "posted"})
  /\ observed \in 0..Len(sends)

-----------------------------------------------------------------------------
SendPending(s) == observed # 0 /\ Unanswered(observed) /\ sends[observed].session = s
CanSubmit(s) == mounted /\ draft[s] # 0 /\ ~SendPending(s) /\ preparing # s

(* handleDraftChange: a failed message is forgotten with the next edit.    *)
TypeDraft ==
  LET s == shownSession
  IN  /\ mounted /\ typed[s] < MaxTexts
      /\ typed' = [typed EXCEPT ![s] = @ + 1]
      /\ draft' = [draft EXCEPT ![s] = typed'[s]]
      /\ observed' = IF observed # 0 /\ sends[observed].result = "error" THEN 0 ELSE observed
      /\ UNCHANGED <<shownSession, mounted, loaded, leftAt, bubbles, preparing, sends>>

Displaced(list, which) ==
  [i \in DOMAIN list |-> IF i \in which /\ list[i].watch = "watched" THEN [list[i] EXCEPT !.watch = "displaced"] ELSE list[i]]
Others(i, s) == {j \in DOMAIN sends : j # i /\ Unanswered(j) /\ sends[j].session # s}

(* submit: a native action is not sent; the message is posted at once if   *)
(* the history is loaded, else after one page of it was read.              *)
SubmitDraft ==
  LET s == shownSession
      n == Len(sends) + 1
  IN  /\ CanSubmit(s) /\ n <= MaxSends
      /\ draft[s] \notin NativeTexts
      /\ IF s \in loaded
         THEN /\ sends' = Append(Displaced(sends, Others(n, s)), Submission(s, draft[s], "posted"))
              /\ observed' = n /\ preparing' = NoComposerSession
         ELSE /\ sends' = Append(Displaced(sends, {j \in Others(n, s) : sends[j].phase = "reading"}),
                                 Submission(s, draft[s], "reading"))
              /\ preparing' = s /\ UNCHANGED observed
      /\ UNCHANGED <<shownSession, mounted, loaded, typed, leftAt, draft, bubbles>>

(* The page is read, or could not be: the message is sent all the same,    *)
(* also by a composer that is no longer there. It takes the observer, and  *)
(* the preparing flag from whoever set it for this Session.                *)
PostMessage(i) ==
  /\ sends[i].phase = "reading"
  /\ LET posted == [sends EXCEPT ![i].phase = "posted"]
         others == {j \in DOMAIN sends : /\ j # i /\ Unanswered(j)
                                         /\ sends[j].phase # "reading" \/ sends[j].session = sends[i].session}
     IN  sends' = IF Mine(i) THEN Displaced(posted, others) ELSE posted
  /\ observed' = IF Mine(i) THEN i ELSE observed
  /\ preparing' = IF Mine(i) /\ preparing = sends[i].session THEN NoComposerSession ELSE preparing
  /\ UNCHANGED <<shownSession, mounted, loaded, typed, leftAt, draft, bubbles>>

ServeMessage(i) ==
  /\ sends[i].phase = "posted"
  /\ \E done \in BOOLEAN : sends' = [sends EXCEPT ![i].phase = "served", ![i].applied = done]
  /\ UNCHANGED <<shownSession, mounted, loaded, typed, leftAt, draft, bubbles, preparing, observed>>

(* Mutant: what was typed meanwhile is cleared too. *)
ClearAnyDraft(s, text) == draft' = [draft EXCEPT ![s] = 0]
(* clearSubmittedDraft: only the text that was sent. *)
ClearSubmittedDraft(s, text) == draft' = [draft EXCEPT ![s] = IF @ = text THEN 0 ELSE @]

(* onSuccess, of a page that is still there: the draft goes; the message   *)
(* is shown until it is canonical if it started a Run, and not if it       *)
(* steers one. After an error the draft stays.                             *)
AnswerMessage(i) ==
  LET s == sends[i].session
  IN  /\ sends[i].phase = "served"
      /\ \E result \in Results(sends[i].applied) :
           /\ sends' = [sends EXCEPT ![i].phase = "answered", ![i].result = result]
           /\ IF result = "value" /\ sends[i].watch # "left"
              THEN /\ ClearSubmittedDraft(s, sends[i].text)
                   /\ \E run_started \in BOOLEAN :
                        bubbles' = IF run_started THEN [bubbles EXCEPT ![s] = i] ELSE bubbles
              ELSE UNCHANGED <<draft, bubbles>>
      /\ UNCHANGED <<shownSession, mounted, loaded, typed, leftAt, preparing, observed>>

(* clearPendingMessage, when the timeline of the page has the message.     *)
ClearPendingMessage ==
  /\ mounted /\ bubbles[shownSession] # 0
  /\ bubbles' = [bubbles EXCEPT ![shownSession] = 0]
  /\ UNCHANGED <<shownSession, mounted, loaded, typed, leftAt, draft, preparing, sends, observed>>

-----------------------------------------------------------------------------
(* A composer that is taken off the page forgets what it was doing; what   *)
(* is under way goes on.                                                   *)
Unwatched(how) ==
  [i \in DOMAIN sends |-> IF Mine(i) \/ how = "left" THEN [sends[i] EXCEPT !.watch = how] ELSE sends[i]]
Unmount(how) == preparing' = NoComposerSession /\ observed' = 0 /\ sends' = Unwatched(how)

(* To another Session, whose state is in the cache or not; the composer    *)
(* comes back with it.                                                     *)
ShowSession(s) ==
  /\ s # shownSession /\ shownSession' = s
  /\ \E cached \in BOOLEAN :
       /\ mounted' = cached
       /\ IF mounted /\ ~cached THEN Unmount("unmounted") ELSE UNCHANGED <<preparing, observed, sends>>
  /\ UNCHANGED <<loaded, typed, leftAt, draft, bubbles>>

StateLoads ==
  /\ ~mounted /\ mounted' = TRUE
  /\ UNCHANGED <<shownSession, loaded, typed, leftAt, draft, bubbles, preparing, sends, observed>>

(* A refetch of the Session's state fails: the page shows the error.       *)
StateFails ==
  /\ mounted /\ mounted' = FALSE
  /\ Unmount("unmounted")
  /\ UNCHANGED <<shownSession, loaded, typed, leftAt, draft, bubbles>>

HistoryLoads ==
  /\ loaded' = loaded \cup {shownSession} /\ loaded' # loaded
  /\ UNCHANGED <<shownSession, mounted, typed, leftAt, draft, bubbles, preparing, sends, observed>>

(* To a page that is no conversation and back: the drafts are gone.        *)
LeavePage ==
  /\ draft' = [s \in ComposerSessions |-> 0] /\ leftAt' = typed
  /\ bubbles' = [s \in ComposerSessions |-> 0]
  /\ Unmount("left") /\ mounted' = FALSE
  /\ UNCHANGED <<shownSession, loaded, typed>>

-----------------------------------------------------------------------------
ComposerInit ==
  /\ shownSession = CHOOSE s \in ComposerSessions : TRUE
  /\ mounted = FALSE /\ loaded = {}
  /\ typed = [s \in ComposerSessions |-> 0] /\ leftAt = typed /\ draft = typed /\ bubbles = typed
  /\ preparing = NoComposerSession /\ sends = <<>> /\ observed = 0

ComposerNext ==
  \/ TypeDraft \/ SubmitDraft \/ ClearPendingMessage
  \/ \E i \in DOMAIN sends : PostMessage(i) \/ ServeMessage(i) \/ AnswerMessage(i)
  \/ \E s \in ComposerSessions : ShowSession(s)
  \/ StateLoads \/ StateFails \/ HistoryLoads \/ LeavePage

ComposerSpec == ComposerInit /\ [][ComposerNext]_composerVars

-----------------------------------------------------------------------------
Received(s, text) == {i \in DOMAIN sends : sends[i].session = s /\ sends[i].text = text /\ sends[i].applied}

(* A draft is kept until the server has it, whatever is typed, answered or *)
(* shown meanwhile; unless the page is left.                               *)
DraftKept ==
  \A s \in ComposerSessions :
    typed[s] > leftAt[s] => draft[s] = typed[s] \/ Received(s, typed[s]) # {}

(* And sent once: the server gets it twice only if the answer to the first *)
(* was lost, or the composer no longer knew of it, because it was unmounted*)
(* or another Session's message was sent meanwhile, or an earlier one of   *)
(* this Session that such a message had made it forget.                    *)
SentOnce ==
  \A s \in ComposerSessions : \A text \in 1..typed[s] : \A i, j \in Received(s, text) :
    i < j => sends[i].watch # "watched" \/ sends[i].result = "error"

DraftSentOnce == DraftKept /\ SentOnce
=============================================================================
