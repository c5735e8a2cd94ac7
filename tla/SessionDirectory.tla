-------------------------- MODULE SessionDirectory --------------------------
(* The Sessions as the Web client lists them: the sidebar and its archived *)
(* dialog, the menu of the open Session, the discard of an unused one that *)
(* was left, and the query cache they write to and refetch                 *)
(* (frontend/src/components/sidebar, components/conversation/              *)
(* SessionMenu.tsx, app/router.tsx).                                       *)
(*                                                                         *)
(* The queries here are the two lists; what the handlers write to the      *)
(* queries of one Session is LiveSync's matter, and the menu may offer     *)
(* what the Session's state no longer lets it: the server refuses that.    *)
EXTENDS Integers, Sequences, SequencesExt, ClientRequests

CONSTANTS DirSessions, FirstSessions, InitialSession,
          NoPage,  \* a page that is no conversation
          MaxOps   \* bound: requests that change something

ASSUME DirectoryAssumption ==
  /\ FirstSessions \subseteq DirSessions /\ InitialSession \in FirstSessions
  /\ NoPage \notin DirSessions /\ MaxOps \in Nat

VARIABLES active, filed, \* the Sessions the server has, filed ones archived
          unused,        \* of them those nothing was done in
          born,          \* every Session there was
          page,          \* selectedSessionId
          leaving,       \* the Session whose discard timer runs
          dialog,        \* whether the archived dialog is open
          client,        \* the query cache
          ops            \* the requests, in their order

dirServerVars == <<active, filed, unused, born>>
dirVars == <<active, filed, unused, born, page, leaving, dialog, client, ops>>

Lists == {"sessions", "archived"}
ServerReads(q) == IF q = "sessions" THEN active ELSE filed

-----------------------------------------------------------------------------
(* The query cache: what each list holds, the lists being fetched, the     *)
(* answers under way, the fetches begun without data, the lists            *)
(* invalidated while nothing observes them, and those whose first answer   *)
(* was already out of date when it came.                                   *)
With(held, q, data) == [x \in {q} \cup DOMAIN held |-> IF x = q THEN data ELSE held[x]]
Set(c, q, data) == [c EXCEPT !.cache = With(@, q, data), !.stale = @ \ {q}]
Update(c, q, plus, minus) == IF q \in DOMAIN c.cache THEN Set(c, q, (c.cache[q] \cup plus) \ minus) ELSE c
Observed(open) == {"sessions"} \cup (IF open THEN {"archived"} ELSE {})

(* Mutant: an invalidation leaves a fetch under way as it is. *)
InvalidateAndJoin(c, qs) == [c EXCEPT !.stale = @ \cup (qs \ c.asking)]
(* An invalidation starts the fetch of a query that has data over again;   *)
(* the first one it lets finish.                                           *)
Invalidate(c, qs) ==
  [c EXCEPT !.stale = @ \cup (qs \cap (DOMAIN c.cache \cup c.asking)),
            !.asking = @ \ (qs \cap DOMAIN c.cache), !.first = @ \ (qs \cap DOMAIN c.cache),
            !.answers = Restrict(@, DOMAIN @ \ (qs \cap DOMAIN c.cache))]

(* What is observed and has no data, or invalid data, is fetched.          *)
Render(c, open) ==
  LET wanted == {q \in Observed(open) \ c.asking : q \notin DOMAIN c.cache \/ q \in c.stale}
  IN  [c EXCEPT !.asking = @ \cup wanted, !.first = @ \cup (wanted \ DOMAIN c.cache)]

AnswerList(q) ==
  /\ q \in client.asking \ DOMAIN client.answers
  /\ client' = [client EXCEPT !.answers = With(@, q, ServerReads(q))]
  /\ UNCHANGED <<dirServerVars, page, leaving, dialog, ops>>

LandList(q) ==
  LET answer == client.answers[q]
      late == answer # ServerReads(q) /\ q \in client.first
      landed == [Set(client, q, answer) EXCEPT !.asking = @ \ {q}, !.first = @ \ {q},
                                               !.answers = Restrict(@, DOMAIN @ \ {q}),
                                               !.late = IF late THEN @ \cup {q} ELSE @ \ {q}]
  IN  /\ q \in DOMAIN client.answers
      /\ client' = Render(landed, dialog)
      /\ UNCHANGED <<dirServerVars, page, leaving, dialog, ops>>

-----------------------------------------------------------------------------
(* Requests. "mine" is whether the component that sent one is still there  *)
(* and has not cancelled it; "here" whether the sidebar that deleted a     *)
(* Session had it selected when it was told.                               *)
Op(kind, of) ==
  [kind |-> kind, of |-> of, made |-> NoPage, phase |-> "posted", applied |-> FALSE,
   mine |-> TRUE, here |-> FALSE]
(* One that is over: a change the client knows of, or not.                 *)
Over(heard) == [Op("over", NoPage) EXCEPT !.phase = "answered", !.applied = ~heard]
Menu == {"archive", "unarchive", "clear", "fork", "compact"}
Pending(kinds) == \E i \in DOMAIN ops : ops[i].kind \in kinds /\ ops[i].mine /\ ops[i].phase # "answered"

(* A new page: the menu is another one, and the discard of the Session     *)
(* left before is called off.                                              *)
Turned(list, p) ==
  IF p = page THEN list
  ELSE [i \in DOMAIN list |->
          IF list[i].kind \in Menu \cup {"rename", "discard"} THEN [list[i] EXCEPT !.mine = FALSE] ELSE list[i]]
GoTo(p, c, list) ==
  /\ page' = p
  /\ leaving' = IF p = page THEN leaving ELSE page
  /\ ops' = Turned(list, p)
  /\ client' = Render(c, dialog)

Navigate(p) == p # page /\ GoTo(p, client, ops) /\ UNCHANGED <<dirServerVars, dialog>>

ToggleDialog ==
  /\ dialog' = ~dialog /\ client' = Render(client, dialog')
  /\ UNCHANGED <<dirServerVars, page, leaving, ops>>

Send(kind, of) ==
  /\ Len(ops) < MaxOps
  /\ ops' = Append(ops, Op(kind, of))
  /\ UNCHANGED <<dirServerVars, page, dialog, client>>

(* One action of the menu at a time, as far as this menu knows: here until *)
(* it is answered, in the code until the lists are read again too.         *)
MenuAction(kind) ==
  /\ page # NoPage
  /\ ~Pending(Menu) /\ (kind = "rename" => ~Pending({"rename"}))
  /\ Send(kind, page) /\ UNCHANGED leaving
CreateSession == ~Pending({"create"}) /\ Send("create", NoPage) /\ UNCHANGED leaving
SidebarAction(kind, s) ==
  /\ "sessions" \in DOMAIN client.cache /\ s \in client.cache["sessions"]
  /\ ~Pending({"sidebar_archive", "delete"})
  /\ Send(kind, s) /\ UNCHANGED leaving
DiscardTimer == leaving # NoPage /\ Send("discard", leaving) /\ leaving' = NoPage

(* The server does it, if it may, or refuses.                              *)
Serve(i) ==
  LET s == ops[i].of
      kind == ops[i].kind
      gone == IF kind \in {"clear", "delete", "discard"} THEN {s} ELSE {}
      marked == IF kind \in {"compact", "unarchive"} THEN {} ELSE {s} \* the metadata has it now
      allowed == CASE kind = "create" -> TRUE
                   [] kind \in {"delete", "fork", "unarchive"} -> s \in active \cup filed
                   [] kind = "discard" -> s # InitialSession /\ s \in unused \cap active
                   [] OTHER -> s \in active
      made == IF kind \in {"create", "clear", "fork"} THEN DirSessions \ born ELSE {NoPage}
  IN  /\ ops[i].phase = "posted"
      /\ \/ /\ ops' = [ops EXCEPT ![i].phase = "served"] /\ UNCHANGED dirServerVars
         \/ /\ allowed
            /\ \E f \in made :
                 /\ ops' = [ops EXCEPT ![i].phase = "served", ![i].applied = TRUE, ![i].made = f]
                 /\ born' = born \cup ({f} \ {NoPage})
                 /\ unused' = (unused \ marked) \cup (IF kind = "fork" THEN {} ELSE {f} \ {NoPage})
                 /\ filed' = CASE kind \in {"archive", "sidebar_archive"} -> filed \cup {s}
                               [] kind = "unarchive" -> filed \ {s}
                               [] OTHER -> filed \ gone
                 /\ active' = CASE kind \in {"archive", "sidebar_archive"} -> active \ {s}
                                [] kind = "unarchive" -> active \cup {s}
                                [] OTHER -> (active \ gone) \cup ({f} \ {NoPage})
      /\ UNCHANGED <<page, leaving, dialog, client>>

(* Something is done in the open Session.                                  *)
UseSession ==
  /\ page \in unused /\ unused' = unused \ {page}
  /\ UNCHANGED <<active, filed, born, page, leaving, dialog, client, ops>>

-----------------------------------------------------------------------------
(* The handlers of an answer, on the cache. An invalidation of the list is *)
(* one of the archived list too: its key begins with it.                   *)
Filed(c, s) == Update(Update(c, "sessions", {}, {s}), "archived", {s}, {})
Unfiled(c, s) == Update(Update(c, "sessions", {s}, {}), "archived", {}, {s})
Unlisted(c, s) == Update(Update(c, "sessions", {}, {s}), "archived", {}, {s})
Listed(c) == IF "sessions" \in DOMAIN c.cache THEN c.cache["sessions"] ELSE {}
Heard(c, op) ==
  CASE op.kind = "create" -> Invalidate(Set(c, "sessions", Listed(c) \cup {op.made}), Lists)
    [] op.kind \in {"archive", "sidebar_archive"} -> Invalidate(Filed(c, op.of), Lists)
    [] op.kind = "unarchive" -> Invalidate(Unfiled(c, op.of), Lists)
    [] op.kind = "fork" -> Invalidate(Update(c, "sessions", {op.made}, {}), Lists)
    [] op.kind = "rename" -> Invalidate(Update(c, "sessions", {op.of}, {}), Lists)
    [] op.kind = "compact" -> c
    [] op.kind = "delete" -> Invalidate(Unlisted(c, op.of), Lists)
    [] OTHER -> Invalidate(Update(c, "sessions", {}, {op.of}), Lists)

(* A create, a clear and a fork go to the Session they made, wherever the  *)
(* user is by now; a delete waits for its refetches; the answer of a       *)
(* discard counts while its page is still elsewhere.                       *)
AnswerOp(i) ==
  LET op == ops[i]
      ignored == op.kind = "discard" /\ (~op.mine \/ page = op.of)
      told == IF op.kind = "delete" THEN [op EXCEPT !.phase = "settling", !.here = (page = op.of)] ELSE Over(TRUE)
  IN  /\ op.phase = "served"
      /\ \E r \in Results(op.applied) :
           IF r = "error" \/ ignored
           THEN ops' = [ops EXCEPT ![i] = Over(~op.applied)] /\ UNCHANGED <<page, leaving, client>>
           ELSE GoTo(IF op.kind \in {"create", "clear", "fork"} THEN op.made ELSE page,
                     Heard(client, op), [ops EXCEPT ![i] = told])
      /\ UNCHANGED <<dirServerVars, dialog>>

(* The delete is over when the lists are fetched: then the page is left if *)
(* it showed the Session when the answer came.                             *)
SettleDelete(i) ==
  /\ ops[i].phase = "settling" /\ Lists \cap client.asking = {}
  /\ GoTo(IF ops[i].here THEN NoPage ELSE page, client, [ops EXCEPT ![i] = Over(TRUE)])
  /\ UNCHANGED <<dirServerVars, dialog>>

-----------------------------------------------------------------------------
DirInit ==
  /\ active = FirstSessions /\ filed = {} /\ unused = FirstSessions /\ born = FirstSessions
  /\ page = NoPage /\ leaving = NoPage /\ dialog = FALSE /\ ops = <<>>
  /\ client = Render([cache |-> [q \in {"sessions"} |-> active], asking |-> {}, answers |-> <<>>,
                      stale |-> {}, late |-> {}, first |-> {}], FALSE)

DirNext ==
  \/ \E q \in client.asking : AnswerList(q) \/ LandList(q)
  \/ \E p \in born \cup {NoPage} : Navigate(p)
  \/ ToggleDialog
  \/ \E kind \in Menu \cup {"rename"} : MenuAction(kind)
  \/ CreateSession
  \/ \E s \in born : SidebarAction("sidebar_archive", s) \/ SidebarAction("delete", s)
  \/ DiscardTimer
  \/ \E i \in DOMAIN ops : Serve(i) \/ AnswerOp(i) \/ SettleDelete(i)
  \/ UseSession

DirSpec == DirInit /\ [][DirNext]_dirVars

-----------------------------------------------------------------------------
DirTypeOK ==
  /\ active \cap filed = {} /\ active \cup filed \subseteq born /\ born \subseteq DirSessions
  /\ unused \subseteq active \cup filed
  /\ {page, leaving} \subseteq DirSessions \cup {NoPage}
  /\ DOMAIN client.answers \subseteq client.asking
  /\ DOMAIN client.cache \subseteq Lists
  /\ \A q \in DOMAIN client.cache : client.cache[q] \subseteq born

(* Once every request is answered and every fetch has landed the client    *)
(* lists what the server has, active and archived, whatever was fetched,   *)
(* changed or discarded meanwhile. Excepted are a change whose answer was  *)
(* lost or ignored, and a first fetch that read the list before a change.  *)
DirectoryConverges ==
  /\ \A i \in DOMAIN ops : ops[i].phase = "answered" /\ ~ops[i].applied
  /\ client.asking = {}
  => \A q \in DOMAIN client.cache \ client.late : q \in client.stale \/ client.cache[q] = ServerReads(q)
=============================================================================
