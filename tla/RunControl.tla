----------------------------- MODULE RunControl -----------------------------
(***************************************************************************)
(* The cooperative-steering state of one Run: runtime/control.py.          *)
(*                                                                         *)
(* A control is a record; each method of the Python class is an operator   *)
(* from a control to a control.  The entries of the two deques are the     *)
(* identities of the steers; "ready" collects the entries whose journal    *)
(* write has ended (an entry is ready exactly when it has a sequence).     *)
(***************************************************************************)
EXTENDS Naturals, Sequences, SequencesExt

CONSTANT Input   \* identities of follow-up submissions

Control ==
  [pending     : Seq(Input),     \* will join the current Run at a boundary
   fallback    : Seq(Input),     \* too late for it: a subsequent Run
   ready       : SUBSET Input,   \* submission completed, journal_seq known
   current     : BOOLEAN,        \* _accepting_current
   submissions : BOOLEAN,        \* _accepting_submissions
   bound       : BOOLEAN,        \* _bound_stream is not None
   afterTurn   : BOOLEAN]        \* _after_turn_requested

NewControl ==
  [pending |-> <<>>, fallback |-> <<>>, ready |-> {}, current |-> TRUE,
   submissions |-> TRUE, bound |-> FALSE, afterTurn |-> FALSE]

Steers(c) == c.pending \o c.fallback

AllReady(s, c) == \A k \in DOMAIN s : s[k] \in c.ready

RequestAfterTurn(c) == IF c.bound THEN [c EXCEPT !.afterTurn = TRUE] ELSE c

BindStream(c) ==
  [c EXCEPT !.bound = TRUE,
            !.afterTurn = \E k \in DOMAIN c.pending : c.pending[k] \in c.ready]

UnbindStream(c) == [c EXCEPT !.bound = FALSE, !.afterTurn = FALSE]

ReserveSteer(c, i) ==
  IF c.current THEN [c EXCEPT !.pending = Append(@, i)]
               ELSE [c EXCEPT !.fallback = Append(@, i)]

MarkReady(c, i) ==
  LET d == [c EXCEPT !.ready = @ \cup {i}]
  IN  IF d.current /\ (\E k \in DOMAIN d.pending : d.pending[k] = i)
      THEN RequestAfterTurn(d) ELSE d

(* Mutant: removes the oldest entry instead of the one asked for.          *)
WithoutOldest(s, e) == IF s = <<>> THEN s ELSE Tail(s)

Without(s, e) ==
  IF \E k \in DOMAIN s : s[k] = e
  THEN RemoveAt(s, CHOOSE k \in DOMAIN s : s[k] = e) ELSE s

DiscardSubmission(c, i) ==
  [c EXCEPT !.pending = Without(@, i), !.fallback = Without(@, i)]

SealCurrent(c) == [c EXCEPT !.current = FALSE]

(* Mutant: the last staged steer stays pending.                            *)
MarkStagedButLast(c, n) == [c EXCEPT !.pending = SubSeq(@, n, Len(@))]

(* mark_staged pops the staged steers, which are a prefix of the deque.    *)
MarkStaged(c, n) == [c EXCEPT !.pending = SubSeq(@, n + 1, Len(@))]

(* Mutant: the Run stays open to steers that will overtake the moved ones. *)
MovePendingOnly(c) ==
  [c EXCEPT !.pending = <<>>, !.fallback = @ \o c.pending]

MovePendingToFallback(c) ==
  [c EXCEPT !.current = FALSE, !.pending = <<>>, !.fallback = @ \o c.pending]

CloseSubmissions(c) == [c EXCEPT !.current = FALSE, !.submissions = FALSE]

(* take_fallbacks raises when a pending steer has no disposition.          *)
CanTakeFallbacks(c) == c.pending = <<>> /\ AllReady(c.fallback, c)

(* Mutant: take_fallbacks returns the fallbacks and keeps them.            *)
PendingEmptied(c) == [c EXCEPT !.pending = <<>>]

EmptiedControl(c) == [c EXCEPT !.pending = <<>>, !.fallback = <<>>]
=============================================================================
