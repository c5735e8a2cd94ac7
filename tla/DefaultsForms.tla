---------------------------- MODULE DefaultsForms ----------------------------
(* The two forms that change the defaults of future Runs, over one cached  *)
(* copy of them                                                            *)
(* (frontend/src/components/composer/RunControlsPopover.tsx: permission    *)
(*  mode and reasoning effort; components/settings/GlobalSettingsPopover   *)
(*  .tsx: follow-up behavior; the PATCH handler of web/routes.py).         *)
EXTENDS Naturals, Sequences, ClientRequests

CONSTANTS NoDraft,   \* null of a draft, undefined of the cached defaults
          MaxChoices \* bound: values the user chooses, and saves, in both forms

ASSUME DefaultsFormsAssumption == NoDraft \notin Nat /\ MaxChoices \in Nat

VARIABLES serverDefaults, \* the server's, by the form that changes them
          changes,        \* how often they changed
          cachedDefaults, \* the cached copy (NoDraft: not loaded)
          cachedAt,       \* "changes" when it was read
          astray,         \* an older copy replaced a newer one, or an answer was lost
          defaultsFetch,  \* the query's fetch: idle, asked, or read
          fetched,        \* what it read (NoDraft: nothing)
          form,           \* of each form: open, draft, the save its observer reports
          saves,          \* the saves, in their order
          choices         \* how many values the user chose, each one new

defaultsVars == <<serverDefaults, changes, cachedDefaults, cachedAt, astray, defaultsFetch, fetched, form, saves, choices>>

Forms == {"controls", "settings"}
Copy == [value |-> serverDefaults, at |-> changes]
Closed == [open |-> FALSE, draft |-> NoDraft, save |-> 0]
SavePending(f) == form[f].save # 0 /\ saves[form[f].save].phase # "answered"

DefaultsTypeOK ==
  /\ serverDefaults \in [Forms -> 0..choices] /\ choices <= MaxChoices
  /\ cachedDefaults = NoDraft \/ cachedDefaults \in [Forms -> 0..choices]
  /\ cachedAt <= changes /\ changes <= Len(saves) /\ astray \in BOOLEAN
  /\ defaultsFetch \in {"idle", "asked", "read"}
  /\ \A f \in Forms : /\ form[f].open \in BOOLEAN /\ form[f].save \in 0..Len(saves)
                      /\ form[f].draft \in {NoDraft} \cup 0..choices
  /\ \A i \in DOMAIN saves : saves[i].form \in Forms /\ saves[i].phase \in {"posted", "served", "answered"}

-----------------------------------------------------------------------------
(* A copy becomes the cached one; where it differs from the last, both     *)
(* forms take their drafts from it, edited or not.                         *)
Land(copy) ==
  /\ cachedDefaults' = copy.value /\ cachedAt' = copy.at
  /\ astray' = (copy.at # changes /\ (astray \/ copy.at < cachedAt))
Redrafted(forms, value) ==
  IF value = cachedDefaults THEN forms ELSE [f \in Forms |-> [forms[f] EXCEPT !.draft = value[f]]]

AskDefaults ==
  /\ defaultsFetch = "idle" /\ defaultsFetch' = "asked"
  /\ UNCHANGED <<serverDefaults, changes, cachedDefaults, cachedAt, astray, fetched, form, saves, choices>>
ReadDefaults ==
  /\ defaultsFetch = "asked" /\ defaultsFetch' = "read" /\ fetched' = Copy
  /\ UNCHANGED <<serverDefaults, changes, cachedDefaults, cachedAt, astray, form, saves, choices>>
LandDefaults ==
  /\ defaultsFetch = "read" /\ defaultsFetch' = "idle"
  /\ \/ Land(fetched) /\ form' = Redrafted(form, fetched.value)
     \/ UNCHANGED <<cachedDefaults, cachedAt, astray, form>> \* the request failed
  /\ fetched' = NoDraft
  /\ UNCHANGED <<serverDefaults, changes, saves, choices>>

(* handleOpenChange: opening takes the draft from the cached defaults.     *)
OpenForm(f) ==
  /\ ~form[f].open /\ ~SavePending(f)
  /\ form' = [form EXCEPT ![f] = [open |-> TRUE, save |-> 0,
                                  draft |-> IF cachedDefaults = NoDraft THEN NoDraft ELSE cachedDefaults[f]]]
  /\ UNCHANGED <<serverDefaults, changes, cachedDefaults, cachedAt, astray, defaultsFetch, fetched, saves, choices>>
CloseForm(f) ==
  /\ form[f].open /\ form' = [form EXCEPT ![f].open = FALSE]
  /\ UNCHANGED <<serverDefaults, changes, cachedDefaults, cachedAt, astray, defaultsFetch, fetched, saves, choices>>

Editable(f) == form[f].open /\ form[f].draft # NoDraft /\ ~SavePending(f)
Choose(f) ==
  /\ Editable(f) /\ choices < MaxChoices
  /\ choices' = choices + 1
  /\ form' = [form EXCEPT ![f].draft = choices']
  /\ UNCHANGED <<serverDefaults, changes, cachedDefaults, cachedAt, astray, defaultsFetch, fetched, saves>>

(* A form sends its own fields only, and the server keeps the others.      *)
WholePatch(f, value) == [cachedDefaults EXCEPT ![f] = value] \* Mutant: it sends all it knows.
Patch(f, value) == [g \in {f} |-> value]
Save(f) ==
  /\ Editable(f) /\ Len(saves) < MaxChoices
  /\ saves' = Append(saves, [form |-> f, update |-> Patch(f, form[f].draft), chosen |-> form[f].draft,
                             phase |-> "posted", applied |-> 0, reply |-> Copy])
  /\ form' = [form EXCEPT ![f].save = Len(saves')]
  /\ UNCHANGED <<serverDefaults, changes, cachedDefaults, cachedAt, astray, defaultsFetch, fetched, choices>>

ServeSave(i) ==
  /\ saves[i].phase = "posted"
  /\ \/ /\ serverDefaults' = [g \in Forms |-> IF g \in DOMAIN saves[i].update THEN saves[i].update[g]
                                              ELSE serverDefaults[g]]
        /\ changes' = changes + 1
        /\ saves' = [saves EXCEPT ![i].phase = "served", ![i].applied = changes',
                                  ![i].reply = [value |-> serverDefaults', at |-> changes']]
     \/ saves' = [saves EXCEPT ![i].phase = "served"] /\ UNCHANGED <<serverDefaults, changes>>
  /\ UNCHANGED <<cachedDefaults, cachedAt, astray, defaultsFetch, fetched, form, choices>>

(* onSuccess: all three defaults as the server replied them, and the form  *)
(* is closed. *)
CacheReply(copy) == Land(copy)
AnswerSave(i) ==
  LET f == saves[i].form
      reply == saves[i].reply
  IN  /\ saves[i].phase = "served"
      /\ saves' = [saves EXCEPT ![i].phase = "answered"]
      /\ \E result \in Results(saves[i].applied # 0) :
           IF result = "value"
           THEN /\ CacheReply(reply)
                /\ form' = [Redrafted(form, reply.value) EXCEPT ![f].draft = reply.value[f], ![f].open = FALSE]
           ELSE /\ astray' = (astray \/ saves[i].applied # 0)
                /\ UNCHANGED <<cachedDefaults, cachedAt, form>>
      /\ UNCHANGED <<serverDefaults, changes, defaultsFetch, fetched, choices>>

-----------------------------------------------------------------------------
DefaultsInit ==
  /\ serverDefaults = [f \in Forms |-> 0] /\ changes = 0
  /\ cachedDefaults = NoDraft /\ cachedAt = 0 /\ astray = FALSE
  /\ defaultsFetch = "idle" /\ fetched = NoDraft
  /\ form = [f \in Forms |-> Closed] /\ saves = <<>> /\ choices = 0

DefaultsNext ==
  \/ AskDefaults \/ ReadDefaults \/ LandDefaults
  \/ \E f \in Forms : OpenForm(f) \/ CloseForm(f) \/ Choose(f) \/ Save(f)
  \/ \E i \in DOMAIN saves : ServeSave(i) \/ AnswerSave(i)

DefaultsSpec == DefaultsInit /\ [][DefaultsNext]_defaultsVars

-----------------------------------------------------------------------------
(* What one form saved is undone by no save of the other.                  *)
NoSaveUndone ==
  \A f \in Forms : \A i \in DOMAIN saves :
    /\ saves[i].form = f /\ saves[i].applied # 0
    /\ \A j \in DOMAIN saves : saves[j].form = f => saves[j].applied <= saves[i].applied
    => serverDefaults[f] = saves[i].chosen

(* When nothing is under way the cached defaults are the server's; unless  *)
(* an answer was lost, or came after a newer one, and no later read has    *)
(* made up for it.                                                         *)
DefaultsShown ==
  (/\ cachedDefaults # NoDraft /\ ~astray /\ defaultsFetch = "idle"
   /\ \A i \in DOMAIN saves : saves[i].phase = "answered")
  => cachedDefaults = serverDefaults

DefaultsKept == NoSaveUndone /\ DefaultsShown
=============================================================================
