------------------------------- MODULE MCPage -------------------------------
(* The parts of the Web page that act on their own, for TLC: each behaviour*)
(* is one of one of them, so that a run explores their sum and not their   *)
(* product. What they share, the queries and the socket, is in the models  *)
(* of each, or in LiveSync.                                                *)
EXTENDS ConversationTimeline, ComposerSend, StopButton, SessionDirectory,
        PortfolioRequests, DefaultsForms, ApprovalCard, QueueStrip

VARIABLE part

Parts == {"timeline", "composer", "stop", "directory", "asks", "defaults", "approvals", "queue"}

PageInit ==
  /\ part \in Parts
  /\ TimelineInit /\ ComposerInit /\ StopInit /\ DirInit /\ AskInit /\ DefaultsInit /\ CardInit /\ StripInit
  /\ (part # "asks" => kind = "ask")

Only(p) == part = p /\ part' = part
PageNext ==
  \/ Only("timeline") /\ TimelineNext
     /\ UNCHANGED <<composerVars, stopVars, dirVars, askVars, defaultsVars, cardVars, stripVars>>
  \/ Only("composer") /\ ComposerNext
     /\ UNCHANGED <<timelineVars, stopVars, dirVars, askVars, defaultsVars, cardVars, stripVars>>
  \/ Only("stop") /\ StopNext
     /\ UNCHANGED <<timelineVars, composerVars, dirVars, askVars, defaultsVars, cardVars, stripVars>>
  \/ Only("directory") /\ DirNext
     /\ UNCHANGED <<timelineVars, composerVars, stopVars, askVars, defaultsVars, cardVars, stripVars>>
  \/ Only("asks") /\ AskNext
     /\ UNCHANGED <<timelineVars, composerVars, stopVars, dirVars, defaultsVars, cardVars, stripVars>>
  \/ Only("defaults") /\ DefaultsNext
     /\ UNCHANGED <<timelineVars, composerVars, stopVars, dirVars, askVars, cardVars, stripVars>>
  \/ Only("approvals") /\ CardNext
     /\ UNCHANGED <<timelineVars, composerVars, stopVars, dirVars, askVars, defaultsVars, stripVars>>
  \/ Only("queue") /\ StripNext
     /\ UNCHANGED <<timelineVars, composerVars, stopVars, dirVars, askVars, defaultsVars, cardVars>>

PageSpec ==
  PageInit /\ [][PageNext]_<<part, timelineVars, composerVars, stopVars, dirVars, askVars, defaultsVars, cardVars, stripVars>>

(* The types of all parts. *)
PageTypeOK ==
  /\ TimelineTypeOK /\ ComposerTypeOK /\ StopTypeOK /\ DirTypeOK
  /\ AskTypeOK /\ DefaultsTypeOK /\ CardTypeOK /\ StripTypeOK
=============================================================================
