----------------------------- MODULE DurableLog -----------------------------
(***************************************************************************)
(* What the Session journals promise, however calls overlap, fail or are   *)
(* lost in a crash: each Session has a log of entries numbered from 1; an  *)
(* entry is appended whole; a log is only ever extended, dropped whole, or *)
(* copied whole to a Session that has none.                                *)
(***************************************************************************)
EXTENDS Naturals, Sequences

CONSTANTS Sessions, Authors

VARIABLE log

Init == log = [s \in Sessions |-> <<>>]

AppendEntry(s, a) ==
  log' = [log EXCEPT ![s] = Append(@, [seq |-> Len(@) + 1, by |-> a])]

Copy(s, t) == log[t] = <<>> /\ log' = [log EXCEPT ![t] = log[s]]

Drop(s) == log' = [log EXCEPT ![s] = <<>>]

Next ==
  \/ \E s \in Sessions, a \in Authors : AppendEntry(s, a)
  \/ \E s, t \in Sessions : Copy(s, t)
  \/ \E s \in Sessions : Drop(s)

Spec == Init /\ [][Next]_log
=============================================================================
