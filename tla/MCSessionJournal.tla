-------------------------- MODULE MCSessionJournal --------------------------
(* Instances of SessionJournal for TLC: calls are interchangeable, and so  *)
(* are Sessions.                                                           *)
EXTENDS SessionJournal, TLC

JournalSymmetry == Permutations(Calls) \cup Permutations(Sessions)
=============================================================================
