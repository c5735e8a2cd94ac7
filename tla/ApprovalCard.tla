---------------------------- MODULE ApprovalCard ----------------------------
(* The card on which the user approves or rejects the tool calls of the    *)
(* Session shown (frontend/src/components/approval/ApprovalCard.tsx), over *)
(* the broker that waits for the answer (web/approvals.py,                 *)
(* WebApprovalBroker; web/routes.py, resolve_approval).                    *)
EXTENDS Naturals, Sequences, FiniteSets, ClientRequests

CONSTANTS CardSessions,
          MaxApprovals, \* bound: requests of approval
          MaxDecisions  \* bound: decisions the user makes

ASSUME ApprovalCardAssumption == CardSessions # {} /\ {MaxApprovals, MaxDecisions} \subseteq Nat

VARIABLES cardSession,      \* sessionId
          cardMounted,      \* whether the page shows its Session
          pendingApprovals, \* approvals of the cached state, of all Sessions
          activeApprovalId, \* its number in its Session (0: null)
          resolutionById,   \* of each approval: none, resolving, or error
          decisions,        \* the requests to resolve one, in their order
          broker            \* of each approval: none, pending, or how it ended

cardVars == <<cardSession, cardMounted, pendingApprovals, activeApprovalId, resolutionById, decisions, broker>>

Approvals == CardSessions \X (1..MaxApprovals)
NoResolutions == [a \in Approvals |-> "none"]
Selected(session, approvals) == {a \in approvals : a[1] = session}

CardTypeOK ==
  /\ cardSession \in CardSessions /\ cardMounted \in BOOLEAN
  /\ pendingApprovals \subseteq {a \in Approvals : broker[a] # "none"}
  /\ activeApprovalId \in 0..MaxApprovals
  /\ resolutionById \in [Approvals -> {"none", "resolving", "error"}]
  /\ broker \in [Approvals -> {"none", "pending", "approved", "rejected", "cancelled"}]
  /\ \A i \in DOMAIN decisions : /\ decisions[i].approval \in Approvals
                                 /\ decisions[i].phase \in {"posted", "served", "answered"}

-----------------------------------------------------------------------------
First(approvals) == CHOOSE a \in approvals : \A b \in approvals : a[2] <= b[2]

(* The effect that follows each change of the approvals or of the Session: *)
(* the active one stays while it is pending, and what was known of those   *)
(* of this Session that are not pending any more is dropped.               *)
Refreshed(session, approvals) ==
  LET selected == Selected(session, approvals)
      gone(a) == a[1] = session /\ a \notin selected
  IN  /\ activeApprovalId' = IF <<session, activeApprovalId>> \in selected THEN activeApprovalId
                             ELSE IF selected = {} THEN 0 ELSE First(selected)[2]
      /\ resolutionById' = [a \in Approvals |-> IF gone(a) THEN "none" ELSE resolutionById[a]]
      /\ decisions' = [i \in DOMAIN decisions |-> IF gone(decisions[i].approval) THEN [decisions[i] EXCEPT !.watched = FALSE]
                                                  ELSE decisions[i]]
Rerender(session, approvals) ==
  IF cardMounted THEN Refreshed(session, approvals) ELSE UNCHANGED <<activeApprovalId, resolutionById, decisions>>

(* The cached approvals follow the broker's, some time later, and a read   *)
(* of the state may bring one back that is over.                           *)
ListApproval(a) ==
  /\ a \notin pendingApprovals /\ broker[a] # "none"
  /\ pendingApprovals' = pendingApprovals \cup {a}
  /\ Rerender(cardSession, pendingApprovals')
  /\ UNCHANGED <<cardSession, cardMounted, broker>>
DropApproval(a) ==
  /\ a \in pendingApprovals /\ broker[a] # "pending"
  /\ pendingApprovals' = pendingApprovals \ {a}
  /\ Rerender(cardSession, pendingApprovals')
  /\ UNCHANGED <<cardSession, cardMounted, broker>>

ShowCard(s) ==
  /\ s # cardSession /\ cardSession' = s
  /\ Rerender(s, pendingApprovals)
  /\ UNCHANGED <<cardMounted, pendingApprovals, broker>>

(* The page shows an error or a spinner instead, and comes back.           *)
HideCard ==
  /\ cardMounted /\ cardMounted' = FALSE
  /\ activeApprovalId' = 0 /\ resolutionById' = NoResolutions
  /\ decisions' = [i \in DOMAIN decisions |-> [decisions[i] EXCEPT !.watched = FALSE]]
  /\ UNCHANGED <<cardSession, pendingApprovals, broker>>
MountCard ==
  /\ ~cardMounted /\ cardMounted' = TRUE
  /\ Refreshed(cardSession, pendingApprovals)
  /\ UNCHANGED <<cardSession, pendingApprovals, broker>>

Onscreen == cardMounted /\ Selected(cardSession, pendingApprovals) # {}
ShownApproval == <<cardSession, activeApprovalId>>

(* Previous and Next.                                                      *)
TurnTo(a) ==
  /\ Onscreen /\ a \in Selected(cardSession, pendingApprovals) /\ a # ShownApproval
  /\ \A b \in Selected(cardSession, pendingApprovals) : ~(b[2] > a[2] /\ b[2] < ShownApproval[2]) /\ ~(b[2] < a[2] /\ b[2] > ShownApproval[2])
  /\ activeApprovalId' = a[2]
  /\ UNCHANGED <<cardSession, cardMounted, pendingApprovals, resolutionById, decisions, broker>>

(* resolve, of the approval shown.                                         *)
Decide(approved) ==
  /\ Onscreen /\ resolutionById[ShownApproval] # "resolving" /\ Len(decisions) < MaxDecisions
  /\ resolutionById' = [resolutionById EXCEPT ![ShownApproval] = "resolving"]
  /\ decisions' = Append(decisions, [approval |-> ShownApproval, approved |-> approved, phase |-> "posted", done |-> FALSE, watched |-> TRUE])
  /\ UNCHANGED <<cardSession, cardMounted, pendingApprovals, activeApprovalId, broker>>

StayResolving(a) == resolutionById' = resolutionById \* Mutant: an error leaves the buttons disabled.
(* onError, if the card still knows of it. *)
ResolutionFailed(a) ==
  resolutionById' = [resolutionById EXCEPT ![a] = IF @ = "none" THEN @ ELSE "error"]

(* A success changes nothing: the approval goes with the event of it.      *)
AnswerDecision(i) ==
  /\ decisions[i].phase = "served"
  /\ decisions' = [decisions EXCEPT ![i].phase = "answered"]
  /\ \E result \in Results(decisions[i].done) :
       IF result = "error" THEN ResolutionFailed(decisions[i].approval) ELSE UNCHANGED resolutionById
  /\ UNCHANGED <<cardSession, cardMounted, pendingApprovals, activeApprovalId, broker>>

-----------------------------------------------------------------------------
(* The broker: an approval is asked for, is decided once, or goes with its *)
(* Run.                                                                    *)
AskApproval(a) ==
  /\ broker[a] = "none" /\ Cardinality({b \in Approvals : broker[b] # "none"}) < MaxApprovals
  /\ \A b \in Approvals : b[1] = a[1] /\ b[2] < a[2] => broker[b] # "none"
  /\ broker' = [broker EXCEPT ![a] = "pending"]
  /\ UNCHANGED <<cardSession, cardMounted, pendingApprovals, activeApprovalId, resolutionById, decisions>>
CancelApproval(a) ==
  /\ broker[a] = "pending" /\ broker' = [broker EXCEPT ![a] = "cancelled"]
  /\ UNCHANGED <<cardSession, cardMounted, pendingApprovals, activeApprovalId, resolutionById, decisions>>
ServeDecision(i) ==
  LET a == decisions[i].approval
      done == broker[a] = "pending"
  IN  /\ decisions[i].phase = "posted"
      /\ decisions' = [decisions EXCEPT ![i].phase = "served", ![i].done = done]
      /\ broker' = IF done THEN [broker EXCEPT ![a] = IF decisions[i].approved THEN "approved" ELSE "rejected"] ELSE broker
      /\ UNCHANGED <<cardSession, cardMounted, pendingApprovals, activeApprovalId, resolutionById>>
LoseDecision(i) ==
  /\ decisions[i].phase = "posted"
  /\ decisions' = [decisions EXCEPT ![i].phase = "served"]
  /\ UNCHANGED <<cardSession, cardMounted, pendingApprovals, activeApprovalId, resolutionById, broker>>

-----------------------------------------------------------------------------
CardInit ==
  /\ cardSession = CHOOSE s \in CardSessions : TRUE
  /\ cardMounted = TRUE /\ pendingApprovals = {} /\ activeApprovalId = 0
  /\ resolutionById = NoResolutions /\ decisions = <<>> /\ broker = NoResolutions

CardNext ==
  \/ \E a \in Approvals : ListApproval(a) \/ DropApproval(a) \/ TurnTo(a) \/ AskApproval(a) \/ CancelApproval(a)
  \/ \E s \in CardSessions : ShowCard(s)
  \/ HideCard \/ MountCard
  \/ \E approved \in BOOLEAN : Decide(approved)
  \/ \E i \in DOMAIN decisions : AnswerDecision(i) \/ ServeDecision(i) \/ LoseDecision(i)

CardSpec == CardInit /\ [][CardNext]_cardVars

-----------------------------------------------------------------------------
Awaited(a) == {i \in DOMAIN decisions : decisions[i].approval = a /\ decisions[i].phase # "answered"}

(* A card that says "resolving" is waiting for an answer, or its approval  *)
(* is over and about to go: it never keeps a pending one from the user.    *)
ResolvingIsTrue ==
  \A a \in Approvals : resolutionById[a] = "resolving" => Awaited(a) # {} \/ broker[a] # "pending"

(* An approval is not decided a second time while a decision is under way, *)
(* unless the card had been taken away and forgot the first.               *)
DecidedOnce ==
  \A a \in Approvals : \A i, j \in Awaited(a) :
    i # j => \E k \in DOMAIN decisions : decisions[k].approval = a /\ ~decisions[k].watched

(* The card always shows an approval that can be decided, if there is one. *)
CardShown == Onscreen => ShownApproval \in pendingApprovals

ApprovalDecided == ResolvingIsTrue /\ DecidedOnce /\ CardShown
=============================================================================
