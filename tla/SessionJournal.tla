--------------------------- MODULE SessionJournal ---------------------------
(***************************************************************************)
(* The append-only journals of the Sessions: journal/session.py, with the  *)
(* reader of journal/reader.py and the callers that delete a Session.      *)
(*                                                                         *)
(* A call is one invocation of a method by some task.  All calls share one *)
(* asyncio lock; file operations run in a thread while the calling task    *)
(* holds it.  A line of a file is a record, known by its sequence and the  *)
(* call that wrote it, or Torn: the beginning of one.  The process may     *)
(* crash at any point; the files are what is left of it.                   *)
(***************************************************************************)
EXTENDS Naturals, Sequences, SequencesExt

CONSTANTS
  Sessions,
  Calls,        \* invocations, each used once
  None,
  MaxCrashes    \* bound: restarts of the process

ASSUME JournalAssumption == MaxCrashes \in Nat /\ None \notin Calls

VARIABLES
  present,      \* Sessions whose file exists
  lines,        \* per Session: the lines of its file
  nextSeq,      \* _next_seq; 0 where the dictionary has no entry
  fenced,       \* _deleted_sessions
  holder,       \* the call that holds _lock
  waiters,      \* the calls that wait for it, FIFO
  pc, op,       \* per call: where it is suspended; method and Sessions
  num,          \* per call: the sequence it writes
  returned,     \* per call: the sequence it has returned, or 0
  removal,      \* per Session: how far SessionOperations.delete has come
  crashes

files == <<present, lines>>
memory == <<nextSeq, fenced>>
vars == <<files, memory, holder, waiters, pc, op, num, returned, removal,
          crashes>>

Torn == [seq |-> 0, by |-> None]
HasTorn(f) == f # <<>> /\ f[Len(f)] = Torn

Recording == {"recovering", "appending", "half", "written"}
Holding == Recording \cup {"cloning", "unlinking"}
InFlight == Holding \cup {"waiting"}

Init ==
  /\ present = {} /\ lines = [s \in Sessions |-> <<>>]
  /\ nextSeq = [s \in Sessions |-> 0] /\ fenced = {}
  /\ holder = None /\ waiters = <<>>
  /\ pc = [c \in Calls |-> "idle"]
  /\ op = [c \in Calls |-> [kind |-> "none", on |-> None, to |-> None]]
  /\ num = [c \in Calls |-> 0] /\ returned = [c \in Calls |-> 0]
  /\ removal = [s \in Sessions |-> "none"] /\ crashes = 0

-----------------------------------------------------------------------------
(* Calls and the lock.                                                     *)

Gone == {"committed", "deleting", "deleted", "leftover"}

(* A Session that is gone still has callers in the process that deleted it *)
(* (a label under way, a late output) and none after a restart.            *)
HasCallers(s) == removal[s] \in {"deleted", "leftover"} => s \in fenced

Request(c, kind, s, t) ==
  /\ pc[c] = "idle"
  /\ pc' = [pc EXCEPT ![c] = "waiting"]
  /\ op' = [op EXCEPT ![c] = [kind |-> kind, on |-> s, to |-> t]]
  /\ waiters' = Append(waiters, c)
  /\ UNCHANGED <<files, memory, holder, num, returned, crashes>>

RequestRecord(c, s) ==
  HasCallers(s) /\ Request(c, "record", s, None) /\ UNCHANGED removal

RequestClone(c, s, t) ==
  /\ s # t /\ HasCallers(s) /\ HasCallers(t)
  /\ Request(c, "clone", s, t) /\ UNCHANGED removal

(* SessionOperations.delete makes these three calls, one after another.    *)
(* The rollback of a fork makes the last one only.                         *)
RequestRemoval(c, kind, s, from, to) ==
  /\ removal[s] \in from /\ removal' = [removal EXCEPT ![s] = to]
  /\ Request(c, kind, s, None)

Granted(c, kind) ==
  /\ pc[c] = "waiting" /\ op[c].kind = kind
  /\ holder = None /\ waiters # <<>> /\ Head(waiters) = c
  /\ waiters' = Tail(waiters)

Suspend(c, at) == holder' = c /\ pc' = [pc EXCEPT ![c] = at]

(* Mutant: the lock is not released.                                       *)
EndHolding(c, how) == holder' = c /\ pc' = [pc EXCEPT ![c] = how]

End(c, how) == holder' = None /\ pc' = [pc EXCEPT ![c] = how]

(* What becomes of a removal whose call does not get the lock.             *)
GivenUp(kind, was) ==
  CASE kind = "prepare" -> "none"
    [] kind = "cancel"  -> "stuck"
    [] kind = "delete"  -> "leftover"
    [] OTHER            -> was

CancelledWaiting(c) ==
  /\ pc[c] = "waiting"
  /\ \E k \in DOMAIN waiters :
       waiters[k] = c /\ waiters' = RemoveAt(waiters, k)
  /\ pc' = [pc EXCEPT ![c] = "raised"]
  /\ removal' = [removal EXCEPT ![op[c].on] = GivenUp(op[c].kind, @)]
  /\ UNCHANGED <<files, memory, holder, op, num, returned, crashes>>

-----------------------------------------------------------------------------
(* _record.                                                                *)

(* Mutant: the delete fence is not looked at.                              *)
NeverFenced(s) == FALSE

Fenced(s) == s \in fenced

(* Mutant: after a failure the cached sequence is kept.                    *)
SequenceKept(s) == nextSeq' = nextSeq

Forget(s) == nextSeq' = [nextSeq EXCEPT ![s] = 0]

(* Mutant: an incomplete last line is taken for a record.                  *)
RecoversAny(f) == TRUE

Recoverable(f) == ~HasTorn(f)

RecoveredSeq(f) == IF f = <<>> THEN 1 ELSE f[Len(f)].seq + 1

RecordBegins(c) ==
  LET s == op[c].on IN
  /\ Granted(c, "record")
  /\ \/ Fenced(s) /\ End(c, "raised") /\ UNCHANGED num
     \/ ~Fenced(s) /\ nextSeq[s] = 0 /\ Suspend(c, "recovering")
        /\ UNCHANGED num
     \/ ~Fenced(s) /\ nextSeq[s] # 0 /\ Suspend(c, "appending")
        /\ num' = [num EXCEPT ![c] = nextSeq[s]]
  /\ UNCHANGED <<files, memory, op, returned, removal, crashes>>

Recovered(c) ==
  LET f == lines[op[c].on] IN
  /\ pc[c] = "recovering" /\ Recoverable(f)
  /\ num' = [num EXCEPT ![c] = RecoveredSeq(f)]
  /\ pc' = [pc EXCEPT ![c] = "appending"]
  /\ UNCHANGED <<files, memory, holder, waiters, op, returned, removal,
                 crashes>>

(* The thread opens the file, creating it, and writes; the line reaches    *)
(* the file in parts.                                                      *)
Creates(c) ==
  /\ pc[c] = "appending" /\ op[c].on \notin present
  /\ present' = present \cup {op[c].on}
  /\ UNCHANGED <<lines, memory, holder, waiters, pc, op, num, returned,
                 removal, crashes>>

AppendStarts(c) ==
  LET s == op[c].on IN
  /\ pc[c] = "appending" /\ s \in present
  /\ pc' = [pc EXCEPT ![c] = "half"]
  /\ lines' = [lines EXCEPT ![s] = Append(@, Torn)]
  /\ UNCHANGED <<present, memory, holder, waiters, op, num, returned, removal,
                 crashes>>

AppendCompletes(c) ==
  LET s == op[c].on IN
  /\ pc[c] = "half" /\ pc' = [pc EXCEPT ![c] = "written"]
  /\ lines' = [lines EXCEPT ![s][Len(lines[s])] = [seq |-> num[c], by |-> c]]
  /\ UNCHANGED <<present, memory, holder, waiters, op, num, returned, removal,
                 crashes>>

RecordReturns(c) ==
  /\ pc[c] = "written" /\ End(c, "returned")
  /\ nextSeq' = [nextSeq EXCEPT ![op[c].on] = num[c] + 1]
  /\ returned' = [returned EXCEPT ![c] = num[c]]
  /\ UNCHANGED <<files, fenced, waiters, op, num, removal, crashes>>

(* A failed recovery or write, or a cancellation: before the thread runs,  *)
(* or held back until it has finished.                                     *)
RecordRaises(c) ==
  /\ pc[c] \in Recording
  /\ End(c, "raised") /\ Forget(op[c].on)
  /\ UNCHANGED <<files, fenced, waiters, op, num, returned, removal, crashes>>

-----------------------------------------------------------------------------
(* clone_session and the three calls of a deletion.                        *)

CloneBegins(c) ==
  /\ Granted(c, "clone")
  /\ IF Fenced(op[c].on) \/ Fenced(op[c].to)
     THEN End(c, "raised") ELSE Suspend(c, "cloning")
  /\ UNCHANGED <<files, memory, op, num, returned, removal, crashes>>

(* Mutant: the clone replaces a file that is already there.                *)
ReplacesTarget(c) == op[c].on \in present

Clonable(c) == op[c].on \in present /\ op[c].to \notin present

(* The copy is made under a temporary name and appears whole.              *)
Cloned(c) ==
  LET s == op[c].on  t == op[c].to IN
  /\ pc[c] = "cloning" /\ Clonable(c)
  /\ present' = present \cup {t}
  /\ lines' = [lines EXCEPT ![t] = lines[s]]
  /\ \/ End(c, "returned") /\ Forget(t)
     \/ End(c, "raised") /\ UNCHANGED nextSeq
  /\ UNCHANGED <<fenced, waiters, op, num, returned, removal, crashes>>

(* No source, a target that exists, or an error before the replacement.    *)
NotCloned(c) ==
  /\ pc[c] = "cloning"
  /\ \/ /\ op[c].on \notin present /\ op[c].to \notin present
        /\ End(c, "returned") /\ Forget(op[c].to)
     \/ End(c, "raised") /\ UNCHANGED nextSeq
  /\ UNCHANGED <<files, fenced, waiters, op, num, returned, removal, crashes>>

PrepareDelete(c) ==
  LET s == op[c].on IN
  /\ Granted(c, "prepare") /\ End(c, "returned")
  /\ fenced' = fenced \cup {s} /\ Forget(s)
  /\ removal' = [removal EXCEPT ![s] = "prepared"]
  /\ UNCHANGED <<files, op, num, returned, crashes>>

CancelDelete(c) ==
  LET s == op[c].on IN
  /\ Granted(c, "cancel") /\ End(c, "returned")
  /\ fenced' = fenced \ {s}
  /\ removal' = [removal EXCEPT ![s] = "none"]
  /\ UNCHANGED <<files, nextSeq, op, num, returned, crashes>>

DeleteBegins(c) ==
  /\ Granted(c, "delete") /\ Suspend(c, "unlinking")
  /\ fenced' = fenced \cup {op[c].on}
  /\ UNCHANGED <<files, nextSeq, op, num, returned, removal, crashes>>

Unlinked(c) ==
  LET s == op[c].on IN
  /\ pc[c] = "unlinking" /\ Forget(s)
  /\ \/ /\ present' = present \ {s} /\ lines' = [lines EXCEPT ![s] = <<>>]
        /\ removal' = [removal EXCEPT ![s] = "deleted"]
        /\ End(c, "returned") \/ End(c, "raised")
     \/ /\ End(c, "raised") /\ UNCHANGED files
        /\ removal' = [removal EXCEPT ![s] = "leftover"]
  /\ UNCHANGED <<fenced, waiters, op, num, returned, crashes>>

(* The database transaction between prepare and cancel or delete.          *)
TransactionEnds(s) ==
  /\ removal[s] = "prepared"
  /\ \E how \in {"committed", "aborted"} :
       removal' = [removal EXCEPT ![s] = how]
  /\ UNCHANGED <<files, memory, holder, waiters, pc, op, num, returned,
                 crashes>>

Crash ==
  /\ crashes < MaxCrashes /\ crashes' = crashes + 1
  /\ nextSeq' = [s \in Sessions |-> 0] /\ fenced' = {}
  /\ holder' = None /\ waiters' = <<>>
  /\ pc' = [c \in Calls |-> IF pc[c] \in InFlight THEN "lost" ELSE pc[c]]
  /\ removal' = [s \in Sessions |->
       IF removal[s] = "deleted" THEN "deleted"
       ELSE IF removal[s] \in Gone THEN "leftover" ELSE "none"]
  /\ UNCHANGED <<files, op, num, returned>>

AtRest == (\A c \in Calls : pc[c] \notin InFlight) /\ UNCHANGED vars

-----------------------------------------------------------------------------
Requests(c) ==
  \/ \E s \in Sessions :
       \/ RequestRecord(c, s)
       \/ RequestRemoval(c, "prepare", s, {"none", "stuck"}, "preparing")
       \/ RequestRemoval(c, "cancel", s, {"aborted"}, "lifting")
       \/ RequestRemoval(c, "delete", s, {"committed", "none"}, "deleting")
  \/ \E s, t \in Sessions : RequestClone(c, s, t)

Steps(c) ==
  \/ CancelledWaiting(c)
  \/ RecordBegins(c) \/ Recovered(c) \/ Creates(c)
  \/ AppendStarts(c) \/ AppendCompletes(c) \/ RecordReturns(c) \/ RecordRaises(c)
  \/ CloneBegins(c) \/ Cloned(c) \/ NotCloned(c)
  \/ PrepareDelete(c) \/ CancelDelete(c) \/ DeleteBegins(c) \/ Unlinked(c)

Next ==
  \/ \E c \in Calls : Requests(c) \/ Steps(c)
  \/ \E s \in Sessions : TransactionEnds(s)
  \/ Crash \/ AtRest

Spec == Init /\ [][Next]_vars

-----------------------------------------------------------------------------
(* Reading: reader.py reads without the lock.                              *)

(* Mutant: the reader goes on to the end of the file.                      *)
WholeFile(f, h) == DOMAIN f

(* The lines that _iter_session_journal_records reaches: up to through_seq *)
(* = h.  It raises at an incomplete line and at a number out of order.     *)
Reached(f, h) == {k \in DOMAIN f : \A j \in 1 .. k - 1 : f[j].seq < h}

Readable(f, h) ==
  \A k \in Reached(f, h) :
    f[k] # Torn /\ (k > 1 => f[k].seq > f[k - 1].seq)

-----------------------------------------------------------------------------
(* Properties.                                                             *)

Kinds == {"none", "record", "clone", "prepare", "cancel", "delete"}
Line == [seq : Nat, by : Calls \cup {None}]

JournalTypes ==
  /\ present \subseteq Sessions /\ lines \in [Sessions -> Seq(Line)]
  /\ nextSeq \in [Sessions -> Nat] /\ fenced \subseteq Sessions
  /\ holder \in Calls \cup {None} /\ waiters \in Seq(Calls)
  /\ pc \in [Calls -> InFlight \cup {"idle", "returned", "raised", "lost"}]
  /\ op \in [Calls -> [kind : Kinds, on : Sessions \cup {None},
                       to : Sessions \cup {None}]]
  /\ num \in [Calls -> Nat] /\ returned \in [Calls -> Nat]
  /\ removal \in [Sessions -> Gone \cup {"none", "preparing", "prepared",
                                         "aborted", "lifting", "stuck"}]
  /\ crashes \in Nat

(* Who is suspended inside the lock: its holder alone, at an await of the  *)
(* method it called.                                                       *)
LockDiscipline ==
  \A c \in Calls :
    /\ pc[c] \in Holding <=> holder = c
    /\ pc[c] # "idle" => op[c].on \in Sessions
    /\ op[c].kind = "clone" => op[c].to \in Sessions /\ op[c].to # op[c].on
    /\ pc[c] \in Recording => op[c].kind = "record"
    /\ pc[c] = "cloning" => op[c].kind = "clone"
    /\ pc[c] = "unlinking" => op[c].kind = "delete"

(* Types, and mutual exclusion of the file operations.                     *)
JournalTypeOK == JournalTypes /\ LockDiscipline

(* The records of a file are numbered 1, 2, 3 and so on, and only its last *)
(* line can be incomplete: through failing and cancelled writes, restarts, *)
(* clones and deletions, with the next number cached or recovered.         *)
Consecutive(f) ==
  \A k \in DOMAIN f : f[k].seq = k \/ (k = Len(f) /\ f[k] = Torn)

SeqsConsecutive == \A s \in Sessions : Consecutive(lines[s])

(* A sequence that a call has returned is that of its own record, which    *)
(* stays in the file for as long as the file is there.                     *)
ReturnedIsDurable ==
  \A c \in Calls : returned[c] # 0 =>
    LET s == op[c].on IN
    \/ s \notin present
    \/ /\ returned[c] \in DOMAIN lines[s]
       /\ lines[s][returned[c]] = [seq |-> returned[c], by |-> c]

(* A boundary that a caller was given can be read at any moment after, be  *)
(* it while a later record is half written or after a crash tore that one. *)
BoundaryReadable ==
  \A c \in Calls :
    LET f == lines[op[c].on] IN
    returned[c] # 0 /\ op[c].on \in present =>
      /\ Readable(f, returned[c])
      /\ \E k \in Reached(f, returned[c]) : f[k].seq = returned[c]

(* The journal of a deleted Session does not come back, whoever still      *)
(* waited to write to it or to clone something onto it.                    *)
DeletedStaysGone ==
  \A s \in Sessions : removal[s] = "deleted" => s \notin present

Complete(f) == IF HasTorn(f) THEN SubSeq(f, 1, Len(f) - 1) ELSE f

Log == INSTANCE DurableLog
  WITH Authors <- Calls, log <- [s \in Sessions |-> Complete(lines[s])]

(* The files, less an incomplete last line, are logs that are extended one *)
(* numbered record at a time, dropped whole or copied whole.               *)
ImplementsLog == Log!Spec
=============================================================================
