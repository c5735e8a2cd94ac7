---------------------------- MODULE SessionLease ----------------------------
(***************************************************************************)
(* What the Runtime promises about one Session, whatever its callers do:   *)
(* its operations take it in turn.  A top-level Run or a maintenance       *)
(* operation acquires the Session when nobody has it and releases it       *)
(* before anybody else acquires it; a Run has it once.                     *)
(***************************************************************************)
CONSTANTS
  Operations,   \* Runs and maintenance operations
  OneShot       \* the operations that take the Session only once: Runs

VARIABLES
  owners,       \* the operations that have the Session
  finished      \* the one-shot operations that have had it

lease == <<owners, finished>>

Init == owners = {} /\ finished = {}

Acquire(o) ==
  /\ owners = {} /\ o \notin finished
  /\ owners' = {o} /\ UNCHANGED finished

Release(o) ==
  /\ owners = {o} /\ owners' = {}
  /\ finished' = finished \cup ({o} \cap OneShot)

(* The end of a maintenance operation promotes pending work on the spot.   *)
PassOn(o, p) ==
  /\ o \notin OneShot /\ p \in OneShot \ finished
  /\ owners = {o} /\ owners' = {p} /\ UNCHANGED finished

Next == \E o, p \in Operations : Acquire(o) \/ Release(o) \/ PassOn(o, p)

Spec == Init /\ [][Next]_lease

=============================================================================
