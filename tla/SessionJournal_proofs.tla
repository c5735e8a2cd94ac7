------------------------ MODULE SessionJournal_proofs ------------------------
(***************************************************************************)
(* Proofs about SessionJournal: for any Sessions, calls and restarts.      *)
(***************************************************************************)
EXTENDS SessionJournal, SequenceTheorems, TLAPS

-----------------------------------------------------------------------------
(* Types and the lock.                                                     *)

(* Taking a call out of the lock's queue leaves a queue.                   *)
LEMMA RemoveAtType ==
  ASSUME NEW S, NEW s \in Seq(S), NEW k \in DOMAIN s
  PROVE  RemoveAt(s, k) \in Seq(S)
<1>1. \A n \in 1 .. Len(s) : s[n] \in S OBVIOUS
<1>2. SubSeq(s, 1, k - 1) \in Seq(S)
  <2>1. \A n \in 1 .. k - 1 : s[n] \in S BY <1>1
  <2> QED BY <2>1, SubSeqProperties
<1>3. SubSeq(s, k + 1, Len(s)) \in Seq(S)
  <2>1. \A n \in k + 1 .. Len(s) : s[n] \in S BY <1>1
  <2> QED BY <2>1, SubSeqProperties
<1> QED BY <1>2, <1>3, ConcatProperties DEF RemoveAt

(* A call that gets the lock had not suspended inside it, and nobody had.  *)
LEMMA GrantedFacts ==
  ASSUME JournalTypeOK, NEW c \in Calls, NEW kind, Granted(c, kind)
  PROVE  /\ waiters' \in Seq(Calls) /\ op[c].kind = kind
         /\ op[c].on \in Sessions /\ pc[c] = "waiting"
         /\ \A d \in Calls : pc[d] \notin Holding
<1>1. waiters' \in Seq(Calls)
  BY HeadTailProperties DEF Granted, JournalTypeOK, JournalTypes
<1> QED
  BY <1>1, JournalAssumption DEF Granted, JournalTypeOK, JournalTypes, LockDiscipline

(* A call that begins is of its type.                                      *)
LEMMA TypeRequest ==
  ASSUME JournalTypeOK, NEW c \in Calls, Requests(c)
  PROVE  JournalTypeOK'
<1>1. ASSUME NEW kind \in Kinds, NEW s \in Sessions,
             NEW t \in Sessions \cup {None}, Request(c, kind, s, t),
             kind = "clone" => t \in Sessions /\ t # s,
             removal' \in [Sessions -> Gone \cup {"none", "preparing",
                             "prepared", "aborted", "lifting", "stuck"}]
      PROVE  JournalTypeOK'
  <2>1. waiters' \in Seq(Calls)
    BY <1>1, AppendProperties DEF Request, JournalTypeOK, JournalTypes
  <2>2. JournalTypes'
    BY <1>1, <2>1
    DEF Request, JournalTypeOK, JournalTypes, InFlight, files, memory
  <2>3. LockDiscipline'
    BY <1>1 DEF Request, JournalTypeOK, JournalTypes, LockDiscipline, Holding,
                Recording, Kinds
  <2> QED BY <2>2, <2>3 DEF JournalTypeOK
<1>2. ASSUME NEW s \in Sessions, RequestRecord(c, s)
      PROVE  JournalTypeOK'
  BY <1>1, <1>2 DEF RequestRecord, Kinds, JournalTypeOK, JournalTypes
<1>3. ASSUME NEW s \in Sessions, NEW kind \in {"prepare", "cancel", "delete"},
             NEW from, NEW to \in {"preparing", "lifting", "deleting"},
             RequestRemoval(c, kind, s, from, to)
      PROVE  JournalTypeOK'
  <2>1. removal' \in [Sessions -> Gone \cup {"none", "preparing",
                        "prepared", "aborted", "lifting", "stuck"}]
    BY <1>3 DEF RequestRemoval, JournalTypeOK, JournalTypes, Gone
  <2> QED BY <1>1, <1>3, <2>1 DEF RequestRemoval, Kinds
<1>4. ASSUME NEW s \in Sessions, NEW t \in Sessions, RequestClone(c, s, t)
      PROVE  JournalTypeOK'
  BY <1>1, <1>4 DEF RequestClone, Kinds, JournalTypeOK, JournalTypes
<1> QED BY <1>2, <1>3, <1>4 DEF Requests

PcType == InFlight \cup {"idle", "returned", "raised", "lost"}

(* A call that ends leaves the lock free.                                  *)
LEMMA EndDiscipline ==
  ASSUME JournalTypeOK, NEW c \in Calls, NEW how \in {"returned", "raised"},
         End(c, how), op' = op,
         \A d \in Calls \ {c} : pc[d] \notin Holding, pc[c] # "idle"
  PROVE  LockDiscipline' /\ holder' = None /\ pc' \in [Calls -> PcType]
BY JournalAssumption
DEF JournalTypeOK, JournalTypes, LockDiscipline, End, Holding, Recording,
    InFlight, PcType

(* A call that gets the lock and suspends is its only holder.              *)
LEMMA SuspendDiscipline ==
  ASSUME JournalTypeOK, NEW c \in Calls, NEW at \in Holding, Suspend(c, at),
         op' = op, pc[c] = "waiting", \A d \in Calls : pc[d] \notin Holding,
         at \in Recording => op[c].kind = "record",
         at = "cloning" => op[c].kind = "clone",
         at = "unlinking" => op[c].kind = "delete"
  PROVE  LockDiscipline' /\ holder' \in Calls /\ pc' \in [Calls -> PcType]
BY JournalAssumption
DEF JournalTypeOK, JournalTypes, LockDiscipline, Suspend, Holding, Recording,
    InFlight, PcType

(* A recording goes on under the same lock.                                *)
LEMMA MoveDiscipline ==
  ASSUME JournalTypeOK, NEW c \in Calls, NEW at \in Recording,
         pc' = [pc EXCEPT ![c] = at], op' = op, holder' = holder,
         pc[c] \in Recording
  PROVE  LockDiscipline' /\ pc' \in [Calls -> PcType]
BY DEF JournalTypeOK, JournalTypes, LockDiscipline, Holding, Recording,
       InFlight, PcType

(* The holder of the lock is alone inside it.                              *)
LEMMA HolderAlone ==
  ASSUME JournalTypeOK, NEW c \in Calls, pc[c] \in Holding
  PROVE  /\ \A d \in Calls \ {c} : pc[d] \notin Holding
         /\ pc[c] # "idle" /\ op[c].on \in Sessions
BY DEF JournalTypeOK, JournalTypes, LockDiscipline, Holding, Recording

(* The number that is recovered is one above that of the last record.      *)
LEMMA RecoveredSeqType ==
  ASSUME NEW f \in Seq(Line)
  PROVE  RecoveredSeq(f) \in Nat
<1>1. CASE f = <<>> BY <1>1 DEF RecoveredSeq
<1>2. CASE f # <<>>
  <2>1. Len(f) \in 1 .. Len(f) BY <1>2, EmptySeq
  <2>2. f[Len(f)] \in Line BY <2>1, ElementOfSeq
  <2> QED BY <1>2, <2>2 DEF RecoveredSeq, Line
<1> QED BY <1>1, <1>2

(* Completing a last line leaves a file.                                   *)
LEMMA CompletedType ==
  ASSUME NEW f \in Seq(Line), NEW x \in Line
  PROVE  [f EXCEPT ![Len(f)] = x] \in Seq(Line)
<1>1. CASE f = <<>>
  <2>1. [f EXCEPT ![Len(f)] = x] = f BY <1>1, EmptySeq
  <2> QED BY <2>1
<1>2. CASE f # <<>>
  <2>1. Len(f) \in 1 .. Len(f) BY <1>2, EmptySeq
  <2> QED BY <2>1, ExceptSeq
<1> QED BY <1>1, <1>2

(* So is what a call does next.                                            *)
LEMMA TypeCall ==
  ASSUME JournalTypeOK, NEW c \in Calls, Steps(c)
  PROVE  JournalTypeOK'
<1>0. JournalTypes /\ LockDiscipline BY DEF JournalTypeOK
<1> DEFINE s == op[c].on
<1>a. pc[c] = "waiting" => s \in Sessions
  BY <1>0 DEF LockDiscipline
<1>1. CASE CancelledWaiting(c)
  <2>1. waiters' \in Seq(Calls)
    BY <1>0, <1>1, RemoveAtType DEF CancelledWaiting, JournalTypes
  <2>2. removal' \in [Sessions -> Gone \cup {"none", "preparing", "prepared",
                                             "aborted", "lifting", "stuck"}]
    BY <1>0, <1>1 DEF CancelledWaiting, GivenUp, Gone, JournalTypes
  <2>3. JournalTypes'
    BY <1>0, <1>1, <2>1, <2>2
    DEF CancelledWaiting, JournalTypes, files, memory
  <2>4. pc[c] = "waiting" /\ op' = op /\ holder' = holder
        /\ pc' = [pc EXCEPT ![c] = "raised"]
    BY <1>1 DEF CancelledWaiting
  <2>5. holder # c
    BY <1>0, <2>4 DEF LockDiscipline, Holding, Recording
  <2>6. \A d \in Calls : pc'[d] = IF d = c THEN "raised" ELSE pc[d]
    BY <1>0, <2>4 DEF JournalTypes
  <2>7. LockDiscipline'
    BY <1>0, <2>4, <2>5, <2>6 DEF LockDiscipline, Holding, Recording
  <2> QED BY <2>3, <2>7 DEF JournalTypeOK
<1>2. CASE RecordBegins(c)
  <2>1. Granted(c, "record") BY <1>2 DEF RecordBegins
  <2>2. /\ waiters' \in Seq(Calls) /\ op[c].kind = "record" /\ s \in Sessions
        /\ pc[c] = "waiting" /\ \A d \in Calls : pc[d] \notin Holding
    BY <2>1, GrantedFacts
  <2>3. op' = op BY <1>2 DEF RecordBegins
  <2>4. CASE End(c, "raised") /\ UNCHANGED num
    <3>1. LockDiscipline' /\ holder' = None /\ pc' \in [Calls -> PcType]
      BY <2>2, <2>3, <2>4, EndDiscipline
    <3> QED
      BY <1>0, <1>2, <2>2, <2>4, <3>1
      DEF RecordBegins, JournalTypeOK, JournalTypes, files, memory, PcType
  <2>5. ASSUME NEW at \in {"recovering", "appending"}, Suspend(c, at),
               num' \in [Calls -> Nat]
        PROVE  JournalTypeOK'
    <3>1. at \in Holding BY DEF Holding, Recording
    <3>2. LockDiscipline' /\ holder' \in Calls /\ pc' \in [Calls -> PcType]
      BY <2>2, <2>3, <2>5, <3>1, SuspendDiscipline
    <3> QED
      BY <1>0, <1>2, <2>2, <2>5, <3>2
      DEF RecordBegins, JournalTypeOK, JournalTypes, files, memory, PcType
  <2>6. nextSeq[s] \in Nat BY <1>0, <2>2 DEF JournalTypes
  <2>7. [num EXCEPT ![c] = nextSeq[s]] \in [Calls -> Nat]
    BY <1>0, <2>6 DEF JournalTypes
  <2>8. num \in [Calls -> Nat] BY <1>0 DEF JournalTypes
  <2> QED BY <1>2, <2>4, <2>5, <2>7, <2>8 DEF RecordBegins
<1>3. CASE Recovered(c)
  <2>1. s \in Sessions /\ pc[c] \in Recording
    BY <1>0, <1>3 DEF Recovered, LockDiscipline, Recording
  <2>2. RecoveredSeq(lines[s]) \in Nat
    BY <1>0, <2>1, RecoveredSeqType DEF JournalTypes
  <2>3. LockDiscipline' /\ pc' \in [Calls -> PcType]
    BY <1>3, <2>1, MoveDiscipline DEF Recovered, Recording
  <2> QED
    BY <1>0, <1>3, <2>2, <2>3
    DEF Recovered, JournalTypeOK, JournalTypes, files, memory, PcType
<1>4. CASE AppendStarts(c)
  <2>1. s \in Sessions /\ pc[c] \in Recording
    BY <1>0, <1>4 DEF AppendStarts, LockDiscipline, Recording
  <2>2. Torn \in Line BY DEF Torn, Line
  <2>3. lines' \in [Sessions -> Seq(Line)]
    BY <1>0, <1>4, <2>1, <2>2, AppendProperties DEF AppendStarts, JournalTypes
  <2>4. LockDiscipline' /\ pc' \in [Calls -> PcType]
    BY <1>4, <2>1, MoveDiscipline DEF AppendStarts, Recording
  <2> QED
    BY <1>0, <1>4, <2>1, <2>3, <2>4
    DEF AppendStarts, JournalTypeOK, JournalTypes, memory, PcType
<1>5. CASE AppendCompletes(c)
  <2>1. s \in Sessions /\ pc[c] \in Recording
    BY <1>0, <1>5 DEF AppendCompletes, LockDiscipline, Recording
  <2>2. [seq |-> num[c], by |-> c] \in Line BY <1>0 DEF JournalTypes, Line
  <2>3. lines' \in [Sessions -> Seq(Line)]
    <3>1. lines[s] \in Seq(Line) BY <1>0, <2>1 DEF JournalTypes
    <3>2. [lines[s] EXCEPT ![Len(lines[s])] = [seq |-> num[c], by |-> c]]
            \in Seq(Line)
      BY <3>1, <2>2, CompletedType
    <3>3. lines' = [lines EXCEPT ![s] =
                      [lines[s] EXCEPT ![Len(lines[s])] =
                         [seq |-> num[c], by |-> c]]]
      BY <1>5 DEF AppendCompletes
    <3> QED BY <1>0, <2>1, <3>2, <3>3 DEF JournalTypes
  <2>4. LockDiscipline' /\ pc' \in [Calls -> PcType]
    BY <1>5, <2>1, MoveDiscipline DEF AppendCompletes, Recording
  <2> QED
    BY <1>0, <1>5, <2>1, <2>3, <2>4
    DEF AppendCompletes, JournalTypeOK, JournalTypes, memory, PcType
<1>6. CASE RecordReturns(c)
  <2>1. pc[c] \in Holding BY <1>6 DEF RecordReturns, Holding, Recording
  <2>2. LockDiscipline' /\ holder' = None /\ pc' \in [Calls -> PcType]
    BY <1>6, <2>1, HolderAlone, EndDiscipline DEF RecordReturns
  <2>3. s \in Sessions /\ num[c] \in Nat
    BY <1>0, <2>1, HolderAlone DEF JournalTypes
  <2>4. nextSeq' \in [Sessions -> Nat] /\ returned' \in [Calls -> Nat]
    BY <1>0, <1>6, <2>3 DEF RecordReturns, JournalTypes
  <2> QED
    BY <1>0, <1>6, <2>2, <2>4
    DEF RecordReturns, JournalTypeOK, JournalTypes, files, PcType
<1>7. CASE RecordRaises(c)
  <2>1. pc[c] \in Holding BY <1>7 DEF RecordRaises, Holding
  <2>2. LockDiscipline' /\ holder' = None /\ pc' \in [Calls -> PcType]
    BY <1>7, <2>1, HolderAlone, EndDiscipline DEF RecordRaises
  <2> QED
    BY <1>0, <1>7, <2>1, <2>2, HolderAlone
    DEF RecordRaises, Forget, JournalTypeOK, JournalTypes, files, PcType
<1>8. CASE CloneBegins(c)
  <2>1. Granted(c, "clone") BY <1>8 DEF CloneBegins
  <2>2. /\ waiters' \in Seq(Calls) /\ op[c].kind = "clone"
        /\ pc[c] = "waiting" /\ \A d \in Calls : pc[d] \notin Holding
    BY <2>1, GrantedFacts
  <2>3. op' = op BY <1>8 DEF CloneBegins
  <2>4. ASSUME End(c, "raised")
        PROVE  LockDiscipline' /\ holder' = None /\ pc' \in [Calls -> PcType]
    BY <2>2, <2>3, <2>4, EndDiscipline
  <2>5. ASSUME Suspend(c, "cloning")
        PROVE  LockDiscipline' /\ holder' \in Calls /\ pc' \in [Calls -> PcType]
    <3>1. "cloning" \in Holding /\ "cloning" \notin Recording
      BY DEF Holding, Recording
    <3> QED BY <2>2, <2>3, <2>5, <3>1, SuspendDiscipline
  <2>6. LockDiscipline' /\ holder' \in Calls \cup {None}
        /\ pc' \in [Calls -> PcType]
    BY <1>8, <2>4, <2>5 DEF CloneBegins
  <2> QED
    BY <1>0, <1>8, <2>2, <2>6
    DEF CloneBegins, JournalTypeOK, JournalTypes, files, memory, PcType
<1>9. CASE Cloned(c)
  <2>1. pc[c] \in Holding BY <1>9 DEF Cloned, Holding
  <2>2. op[c].to \in Sessions BY <1>0, <1>9 DEF Cloned, LockDiscipline
  <2>3. LockDiscipline' /\ holder' = None /\ pc' \in [Calls -> PcType]
    BY <1>9, <2>1, HolderAlone, EndDiscipline DEF Cloned
  <2>4. s \in Sessions /\ lines[s] \in Seq(Line)
    BY <1>0, <2>1, HolderAlone DEF JournalTypes
  <2>5. lines' \in [Sessions -> Seq(Line)] /\ present' \subseteq Sessions
    BY <1>0, <1>9, <2>2, <2>4 DEF Cloned, JournalTypes
  <2>6. nextSeq' \in [Sessions -> Nat]
    BY <1>0, <1>9 DEF Cloned, Forget, JournalTypes
  <2> QED
    BY <1>0, <1>9, <2>3, <2>5, <2>6
    DEF Cloned, JournalTypeOK, JournalTypes, PcType
<1>10. CASE NotCloned(c)
  <2>1. pc[c] \in Holding BY <1>10 DEF NotCloned, Holding
  <2>2. LockDiscipline' /\ holder' = None /\ pc' \in [Calls -> PcType]
    BY <1>10, <2>1, HolderAlone, EndDiscipline DEF NotCloned
  <2> QED
    BY <1>0, <1>10, <2>1, <2>2
    DEF NotCloned, Forget, JournalTypeOK, JournalTypes, files, PcType
<1>11. CASE PrepareDelete(c)
  <2>1. Granted(c, "prepare") BY <1>11 DEF PrepareDelete
  <2>2. LockDiscipline' /\ holder' = None /\ pc' \in [Calls -> PcType]
    BY <1>11, <2>1, GrantedFacts, EndDiscipline DEF PrepareDelete
  <2> QED
    BY <1>0, <1>11, <2>1, <2>2, GrantedFacts
    DEF PrepareDelete, Forget, JournalTypeOK, JournalTypes, files, PcType
<1>12. CASE CancelDelete(c)
  <2>1. Granted(c, "cancel") BY <1>12 DEF CancelDelete
  <2>2. LockDiscipline' /\ holder' = None /\ pc' \in [Calls -> PcType]
    BY <1>12, <2>1, GrantedFacts, EndDiscipline DEF CancelDelete
  <2> QED
    BY <1>0, <1>12, <2>1, <2>2, GrantedFacts
    DEF CancelDelete, JournalTypeOK, JournalTypes, files, PcType
<1>13. CASE DeleteBegins(c)
  <2>1. Granted(c, "delete") BY <1>13 DEF DeleteBegins
  <2>2. LockDiscipline' /\ holder' \in Calls /\ pc' \in [Calls -> PcType]
    BY <1>13, <2>1, GrantedFacts, SuspendDiscipline
    DEF DeleteBegins, Holding, Recording
  <2> QED
    BY <1>0, <1>13, <2>1, <2>2, GrantedFacts
    DEF DeleteBegins, JournalTypeOK, JournalTypes, files, PcType
<1>14. CASE Unlinked(c)
  <2>1. pc[c] \in Holding BY <1>14 DEF Unlinked, Holding
  <2>2. LockDiscipline' /\ holder' = None /\ pc' \in [Calls -> PcType]
    BY <1>14, <2>1, HolderAlone, EndDiscipline DEF Unlinked
  <2>3. lines' \in [Sessions -> Seq(Line)] /\ present' \subseteq Sessions
    <3>1. <<>> \in Seq(Line) BY EmptySeq
    <3>2. CASE lines' = [lines EXCEPT ![s] = <<>>] /\ present' = present \ {s}
      BY <1>0, <3>1, <3>2 DEF JournalTypes
    <3>3. CASE UNCHANGED files
      BY <1>0, <3>3 DEF JournalTypes, files
    <3> QED BY <1>14, <3>2, <3>3 DEF Unlinked
  <2>4. removal' \in [Sessions -> Gone \cup {"none", "preparing", "prepared",
                                             "aborted", "lifting", "stuck"}]
    BY <1>0, <1>14 DEF Unlinked, JournalTypes, Gone
  <2>5. nextSeq' \in [Sessions -> Nat]
    BY <1>0, <1>14 DEF Unlinked, Forget, JournalTypes
  <2> QED
    BY <1>0, <1>14, <2>2, <2>3, <2>4, <2>5
    DEF Unlinked, JournalTypeOK, JournalTypes, PcType
<1>15. CASE Creates(c)
  <2>1. s \in Sessions
    BY <1>15, HolderAlone DEF Creates, Holding, Recording
  <2>2. JournalTypes'
    BY <1>0, <1>15, <2>1 DEF Creates, JournalTypes, memory
  <2>3. LockDiscipline'
    BY <1>0, <1>15 DEF Creates, LockDiscipline
  <2> QED BY <2>2, <2>3 DEF JournalTypeOK
<1> QED
  BY <1>1, <1>2, <1>3, <1>4, <1>5, <1>6, <1>7, <1>8, <1>9, <1>10, <1>11, <1>12,
     <1>13, <1>14, <1>15 DEF Steps

(* Every step keeps the types and the discipline of the lock.              *)
LEMMA TypeNext ==
  ASSUME JournalTypeOK, [Next]_vars
  PROVE  JournalTypeOK'
<1>0. JournalTypes /\ LockDiscipline BY DEF JournalTypeOK
<1>1. CASE Crash
  <2>1. JournalTypes'
    BY <1>0, <1>1, EmptySeq
    DEF Crash, JournalTypes, files, InFlight, Gone
  <2>2. LockDiscipline'
    BY <1>0, <1>1, JournalAssumption
    DEF Crash, JournalTypes, LockDiscipline, InFlight, Holding, Recording
  <2> QED BY <2>1, <2>2 DEF JournalTypeOK
<1>2. ASSUME NEW s \in Sessions, TransactionEnds(s)
      PROVE  JournalTypeOK'
  BY <1>0, <1>2
  DEF TransactionEnds, JournalTypeOK, JournalTypes, LockDiscipline, files, memory, Gone
<1>3. CASE UNCHANGED vars
  BY <1>0, <1>3
  DEF vars, JournalTypeOK, JournalTypes, LockDiscipline, files, memory
<1> QED BY <1>1, <1>2, <1>3, TypeRequest, TypeCall DEF Next, AtRest

(* Every variable keeps its type and the file operations exclude each      *)
(* other, whatever is cancelled, fails or crashes.                         *)
THEOREM JournalTypeCorrect == Spec => []JournalTypeOK
<1>1. Init => JournalTypeOK
  <2> SUFFICES ASSUME Init PROVE JournalTypeOK OBVIOUS
  <2>1. JournalTypes
    BY EmptySeq DEF Init, JournalTypes, InFlight, Kinds
  <2>2. LockDiscipline
    BY JournalAssumption DEF Init, LockDiscipline, Holding, Recording
  <2> QED BY <2>1, <2>2 DEF JournalTypeOK
<1> QED BY <1>1, TypeNext, PTL DEF Spec

-----------------------------------------------------------------------------
(* The numbers of the records.  SeqsConsecutive is not inductive: what a   *)
(* call inside the lock is about to write, and what the cache holds, have  *)
(* to agree with the file.                                                 *)

Positioned(c) ==
  LET s == op[c].on  f == lines[s] IN
  /\ pc[c] = "appending" => ~HasTorn(f) /\ num[c] = Len(f) + 1
  /\ pc[c] = "half" => s \in present /\ HasTorn(f) /\ num[c] = Len(f)
  /\ pc[c] = "written" => s \in present /\ ~HasTorn(f) /\ num[c] = Len(f)

(* A cached number is the next one, but for a record that is being added.  *)
Cached(s) ==
  nextSeq[s] # 0 =>
    /\ s \in present
    /\ \/ ~HasTorn(lines[s]) /\ nextSeq[s] = Len(lines[s]) + 1
       \/ \E c \in Calls : pc[c] \in {"half", "written"} /\ op[c].on = s

Numbering ==
  /\ SeqsConsecutive
  /\ \A c \in Calls : Positioned(c)
  /\ \A s \in Sessions : Cached(s)
  /\ \A s \in Sessions \ present : lines[s] = <<>>

(* The beginning of a line is added behind whole records.                  *)
LEMMA AppendTorn ==
  ASSUME NEW f \in Seq(Line), Consecutive(f), ~HasTorn(f)
  PROVE  /\ Consecutive(Append(f, Torn)) /\ HasTorn(Append(f, Torn))
         /\ Len(Append(f, Torn)) = Len(f) + 1
         /\ Complete(Append(f, Torn)) = f
<1> DEFINE g == Append(f, Torn)
<1>0. Torn \in Line BY DEF Torn, Line
<1>1. /\ g \in Seq(Line) /\ g # <<>> /\ Len(g) = Len(f) + 1
      /\ \A k \in 1 .. Len(f) : g[k] = f[k]
      /\ g[Len(f) + 1] = Torn
  BY <1>0, AppendProperties
<1>2. Len(f) \in Nat /\ DOMAIN f = 1 .. Len(f) /\ DOMAIN g = 1 .. Len(g)
  BY <1>1, LenProperties
<1>3. HasTorn(g) BY <1>1 DEF HasTorn
<1>4. \A k \in 1 .. Len(f) : f[k].seq = k
  <2> SUFFICES ASSUME NEW k \in 1 .. Len(f) PROVE f[k].seq = k OBVIOUS
  <2>1. f # <<>> BY <1>2, EmptySeq
  <2> QED BY <1>2, <2>1 DEF Consecutive, HasTorn
<1>5. Consecutive(g) BY <1>1, <1>2, <1>4 DEF Consecutive
<1>6. SubSeq(g, 1, Len(g) - 1) = f
  <2>1. Len(g) - 1 = Len(f) BY <1>1, <1>2
  <2>2. \A k \in 1 .. Len(f) : g[k] \in Line BY <1>1, <1>2, ElementOfSeq
  <2>3. /\ SubSeq(g, 1, Len(f)) \in Seq(Line)
        /\ Len(SubSeq(g, 1, Len(f))) = Len(f)
        /\ \A k \in 1 .. Len(f) : SubSeq(g, 1, Len(f))[k] = g[k]
    BY <1>1, <1>2, <2>2, SubSeqProperties
  <2> QED BY <1>1, <2>1, <2>3, SeqEqual
<1> QED BY <1>1, <1>3, <1>5, <1>6 DEF Complete

(* A file is its beginning with its last line appended.                    *)
LEMMA AppendEqual ==
  ASSUME NEW h \in Seq(Line), NEW g \in Seq(Line), NEW x \in Line,
         Len(g) = Len(h) + 1, g[Len(h) + 1] = x,
         \A k \in 1 .. Len(h) : g[k] = h[k]
  PROVE  Append(h, x) = g
<1>1. /\ Append(h, x) \in Seq(Line) /\ Len(Append(h, x)) = Len(h) + 1
      /\ \A k \in 1 .. Len(h) : Append(h, x)[k] = h[k]
      /\ Append(h, x)[Len(h) + 1] = x
  BY AppendProperties
<1>2. \A k \in 1 .. Len(g) : Append(h, x)[k] = g[k]
  BY <1>1, LenProperties
<1> QED BY <1>1, <1>2, SeqEqual

(* The numbers before the last one.                                        *)
LEMMA BeforeLast ==
  ASSUME NEW m \in Nat, NEW n \in Nat, m + 1 = n, NEW k \in 1 .. m
  PROVE  k \in 1 .. n - 1 /\ k \in 1 .. n /\ k # n
OBVIOUS

(* A line that is completed with its own number is the next record.        *)
LEMMA CompleteLast ==
  ASSUME NEW f \in Seq(Line), Consecutive(f), HasTorn(f), NEW c \in Calls,
         NEW g, g = [f EXCEPT ![Len(f)] = [seq |-> Len(f), by |-> c]]
  PROVE  /\ Consecutive(g) /\ ~HasTorn(g) /\ Len(g) = Len(f)
         /\ Complete(g) = Append(Complete(f),
                            [seq |-> Len(Complete(f)) + 1, by |-> c])
<1> DEFINE x == [seq |-> Len(f), by |-> c]
<1> DEFINE h == SubSeq(f, 1, Len(f) - 1)
<1>1. Len(f) \in Nat \ {0} /\ DOMAIN f = 1 .. Len(f)
  BY EmptySeq, LenProperties DEF HasTorn
<1>2. x \in Line BY <1>1 DEF Line
<1>3. /\ g \in Seq(Line) /\ Len(g) = Len(f)
      /\ \A k \in 1 .. Len(f) : g[k] = IF k = Len(f) THEN x ELSE f[k]
  BY <1>1, <1>2, ExceptSeq
<1>4. DOMAIN g = 1 .. Len(f) BY <1>3, LenProperties
<1>5. x # Torn BY JournalAssumption DEF Torn
<1>6. ~HasTorn(g) BY <1>1, <1>3, <1>5 DEF HasTorn
<1>7. Consecutive(g) BY <1>1, <1>3, <1>4 DEF Consecutive
<1>8. /\ h \in Seq(Line) /\ Len(h) = Len(f) - 1
      /\ \A k \in 1 .. Len(f) - 1 : h[k] = f[k]
  <2>1. \A k \in 1 .. Len(f) - 1 : f[k] \in Line BY <1>1, ElementOfSeq
  <2> QED BY <1>1, <2>1, SubSeqProperties
<1>9. Append(h, x) = g
  <2> HIDE DEF h, x
  <2>1. Len(h) \in Nat BY <1>8, LenProperties
  <2>2. Len(h) + 1 = Len(f) /\ Len(f) \in 1 .. Len(f) BY <1>1, <1>8
  <2>3. Len(g) = Len(h) + 1 BY <1>3, <2>2
  <2>4. g[Len(h) + 1] = x BY <1>3, <2>2
  <2>5. ASSUME NEW k \in 1 .. Len(h) PROVE g[k] = h[k]
    <3>1. k \in 1 .. Len(f) - 1 /\ k \in 1 .. Len(f) /\ k # Len(f)
      BY <1>1, <2>1, <2>2, BeforeLast
    <3>2. g[k] = f[k] BY <1>3, <3>1
    <3>3. h[k] = f[k] BY <1>8, <3>1
    <3> QED BY <3>2, <3>3
  <2> QED BY <1>2, <1>3, <1>8, <2>3, <2>4, <2>5, AppendEqual
<1>10. Len(h) + 1 = Len(f) BY <1>1, <1>8
<1> QED BY <1>3, <1>6, <1>7, <1>9, <1>10 DEF Complete

(* What is recovered from a file of whole records is the next number.      *)
LEMMA RecoverNext ==
  ASSUME NEW f \in Seq(Line), Consecutive(f), ~HasTorn(f)
  PROVE  RecoveredSeq(f) = Len(f) + 1
<1>1. CASE f = <<>> BY <1>1, EmptySeq DEF RecoveredSeq
<1>2. CASE f # <<>>
  <2>1. Len(f) \in DOMAIN f BY <1>2, EmptySeq, LenProperties
  <2> QED BY <1>2, <2>1 DEF RecoveredSeq, Consecutive, HasTorn
<1> QED BY <1>1, <1>2

Writing == {"appending", "half", "written"}

(* A step that touches no file and starts no write, and that forgets the   *)
(* cached number where it ends one, keeps the numbering.                   *)
LEMMA NumberingKept ==
  ASSUME Numbering, UNCHANGED files,
         \A d \in Calls : pc'[d] \in Writing =>
           pc'[d] = pc[d] /\ num'[d] = num[d] /\ op'[d] = op[d],
         \A s \in Sessions : nextSeq'[s] # 0 => nextSeq'[s] = nextSeq[s],
         \A d \in Calls : pc[d] \in {"half", "written"} =>
           op'[d] = op[d] /\ (pc'[d] = pc[d] \/ nextSeq'[op[d].on] = 0)
  PROVE  Numbering'
<1>1. SeqsConsecutive'
  BY DEF Numbering, SeqsConsecutive, files
<1>2. ASSUME NEW d \in Calls PROVE Positioned(d)'
  BY DEF Numbering, Positioned, Writing, files
<1>3. ASSUME NEW s \in Sessions PROVE Cached(s)'
  <2>1. CASE nextSeq'[s] = 0 BY <2>1 DEF Cached
  <2>2. CASE nextSeq'[s] # 0
    <3>1. Cached(s) /\ nextSeq'[s] = nextSeq[s] BY <2>2 DEF Numbering
    <3> QED BY <2>2, <3>1 DEF Cached, files
  <2> QED BY <2>1, <2>2
<1>4. \A s \in Sessions \ present' : lines'[s] = <<>>
  BY DEF Numbering, files
<1> QED BY <1>1, <1>2, <1>3, <1>4 DEF Numbering

(* With a call inside the lock that is not writing, or with nobody there,  *)
(* what is cached is the next number.                                      *)
LEMMA CacheExact ==
  ASSUME Numbering, NEW s \in Sessions, nextSeq[s] # 0,
         \A d \in Calls : pc[d] \notin {"half", "written"}
  PROVE  s \in present /\ ~HasTorn(lines[s]) /\ nextSeq[s] = Len(lines[s]) + 1
BY DEF Numbering, Cached

(* A call that begins writes nothing.                                      *)
LEMMA NumberingRequest ==
  ASSUME JournalTypeOK, Numbering, NEW c \in Calls, Requests(c)
  PROVE  Numbering'
<1>1. ASSUME NEW kind, NEW s, NEW t, Request(c, kind, s, t)
      PROVE  Numbering'
  <2>1. \A d \in Calls : d # c => pc'[d] = pc[d] /\ op'[d] = op[d]
    BY <1>1 DEF Request, JournalTypeOK, JournalTypes
  <2>2. pc[c] = "idle" /\ pc'[c] = "waiting"
    BY <1>1 DEF Request, JournalTypeOK, JournalTypes
  <2>3. UNCHANGED files /\ nextSeq' = nextSeq /\ num' = num
    BY <1>1 DEF Request, memory
  <2> QED BY <2>1, <2>2, <2>3, NumberingKept DEF Writing
<1> QED BY <1>1 DEF Requests, RequestRecord, RequestClone, RequestRemoval

(* A call that gets the lock, or has it without writing, and leaves the    *)
(* files and numbers as they are.                                          *)
LEMMA NumberingAside ==
  ASSUME JournalTypeOK, Numbering, NEW c \in Calls, NEW at,
         pc' = [pc EXCEPT ![c] = at], at \notin Writing,
         pc[c] \notin {"half", "written"}, UNCHANGED <<files, op, num>>,
         \A s \in Sessions : nextSeq'[s] # 0 => nextSeq'[s] = nextSeq[s]
  PROVE  Numbering'
<1>1. \A d \in Calls : pc'[d] = IF d = c THEN at ELSE pc[d]
  BY DEF JournalTypeOK, JournalTypes
<1>2. UNCHANGED files /\ op' = op /\ num' = num OBVIOUS
<1> QED BY <1>1, <1>2, NumberingKept

(* Forgetting touches one number only.                                     *)
LEMMA ForgetOne ==
  ASSUME JournalTypeOK, NEW s, Forget(s)
  PROVE  /\ \A t \in Sessions : nextSeq'[t] # 0 => nextSeq'[t] = nextSeq[t]
         /\ s \in Sessions => nextSeq'[s] = 0
BY DEF Forget, JournalTypeOK, JournalTypes

(* A write begins: the number is the cached one, or the recovered one.     *)
LEMMA NumberingWrite ==
  ASSUME JournalTypeOK, Numbering, NEW c \in Calls, NEW n,
         pc' = [pc EXCEPT ![c] = "appending"], num' = [num EXCEPT ![c] = n],
         pc[c] \notin {"half", "written"}, UNCHANGED <<files, op, nextSeq>>,
         ~HasTorn(lines[op[c].on]), n = Len(lines[op[c].on]) + 1
  PROVE  Numbering'
<1>1. \A d \in Calls : /\ pc'[d] = IF d = c THEN "appending" ELSE pc[d]
                       /\ num'[d] = IF d = c THEN n ELSE num[d]
  BY DEF JournalTypeOK, JournalTypes
<1>2. SeqsConsecutive' BY DEF Numbering, SeqsConsecutive, files
<1>3. ASSUME NEW d \in Calls PROVE Positioned(d)'
  <2>1. CASE d = c BY <1>1, <2>1 DEF Positioned, files
  <2>2. CASE d # c BY <1>1, <2>2 DEF Numbering, Positioned, files
  <2> QED BY <2>1, <2>2
<1>4. ASSUME NEW s \in Sessions PROVE Cached(s)'
  BY <1>1 DEF Numbering, Cached, files
<1>5. \A s \in Sessions \ present' : lines'[s] = <<>>
  BY DEF Numbering, files
<1> QED BY <1>2, <1>3, <1>4, <1>5 DEF Numbering

(* The first half of a line is torn until the rest is written.             *)
LEMMA NumberingAppendStarts ==
  ASSUME JournalTypeOK, Numbering, NEW c \in Calls, AppendStarts(c)
  PROVE  Numbering'
<1> DEFINE s == op[c].on
<1> DEFINE f == lines[s]
<1>1. pc[c] \in Holding BY DEF AppendStarts, Holding, Recording
<1>2. s \in Sessions /\ \A d \in Calls \ {c} : pc[d] \notin Holding
  BY <1>1, HolderAlone
<1>3. f \in Seq(Line) BY <1>2 DEF JournalTypeOK, JournalTypes
<1>4. Consecutive(f) /\ ~HasTorn(f) /\ num[c] = Len(f) + 1
  BY <1>2 DEF Numbering, SeqsConsecutive, Positioned, AppendStarts
<1>5. /\ Consecutive(Append(f, Torn)) /\ HasTorn(Append(f, Torn))
      /\ Len(Append(f, Torn)) = Len(f) + 1
  BY <1>3, <1>4, AppendTorn
<1>6. \A x \in Sessions : lines'[x] = IF x = s THEN Append(f, Torn) ELSE lines[x]
  BY DEF AppendStarts, JournalTypeOK, JournalTypes
<1>7. \A d \in Calls : pc'[d] = IF d = c THEN "half" ELSE pc[d]
  BY DEF AppendStarts, JournalTypeOK, JournalTypes
<1>8. /\ op' = op /\ num' = num /\ nextSeq' = nextSeq
      /\ present' = present /\ s \in present
  BY DEF AppendStarts, memory
<1>9. SeqsConsecutive'
  BY <1>5, <1>6 DEF Numbering, SeqsConsecutive
<1>10. ASSUME NEW d \in Calls PROVE Positioned(d)'
  <2>1. CASE d = c BY <1>2, <1>4, <1>5, <1>6, <1>7, <1>8, <2>1 DEF Positioned
  <2>2. CASE d # c
    BY <1>2, <1>7, <2>2 DEF Positioned, Holding, Recording
  <2> QED BY <2>1, <2>2
<1>11. ASSUME NEW x \in Sessions PROVE Cached(x)'
  <2>1. CASE x = s BY <1>7, <1>8, <2>1 DEF Cached
  <2>2. CASE x # s
    BY <1>6, <1>7, <1>8, <2>2 DEF Numbering, Cached, AppendStarts
  <2> QED BY <2>1, <2>2
<1>12. \A x \in Sessions \ present' : lines'[x] = <<>>
  BY <1>6, <1>8 DEF Numbering
<1> QED BY <1>9, <1>10, <1>11, <1>12 DEF Numbering

(* The rest of the line: its number follows the one before.                *)
LEMMA NumberingAppendCompletes ==
  ASSUME JournalTypeOK, Numbering, NEW c \in Calls, AppendCompletes(c)
  PROVE  Numbering'
<1> DEFINE s == op[c].on
<1> DEFINE f == lines[s]
<1> DEFINE g == [f EXCEPT ![Len(f)] = [seq |-> Len(f), by |-> c]]
<1>1. pc[c] \in Holding BY DEF AppendCompletes, Holding, Recording
<1>2. s \in Sessions /\ \A d \in Calls \ {c} : pc[d] \notin Holding
  BY <1>1, HolderAlone
<1>3. f \in Seq(Line) BY <1>2 DEF JournalTypeOK, JournalTypes
<1>4. Consecutive(f) /\ HasTorn(f) /\ num[c] = Len(f) /\ s \in present
  BY <1>2 DEF Numbering, SeqsConsecutive, Positioned, AppendCompletes
<1>5. Consecutive(g) /\ ~HasTorn(g) /\ Len(g) = Len(f)
  BY <1>3, <1>4, CompleteLast
<1>6. \A x \in Sessions : lines'[x] = IF x = s THEN g ELSE lines[x]
  BY <1>4 DEF AppendCompletes, JournalTypeOK, JournalTypes
<1>7. \A d \in Calls : pc'[d] = IF d = c THEN "written" ELSE pc[d]
  BY DEF AppendCompletes, JournalTypeOK, JournalTypes
<1>8. op' = op /\ num' = num /\ nextSeq' = nextSeq /\ present' = present
  BY DEF AppendCompletes, memory
<1> HIDE DEF g
<1>9. SeqsConsecutive'
  BY <1>5, <1>6 DEF Numbering, SeqsConsecutive
<1>10. ASSUME NEW d \in Calls PROVE Positioned(d)'
  <2>1. CASE d = c BY <1>2, <1>4, <1>5, <1>6, <1>7, <1>8, <2>1 DEF Positioned
  <2>2. CASE d # c
    BY <1>2, <1>7, <2>2 DEF Positioned, Holding, Recording
  <2> QED BY <2>1, <2>2
<1>11. ASSUME NEW x \in Sessions PROVE Cached(x)'
  <2>1. CASE x = s BY <1>4, <1>7, <1>8, <2>1 DEF Cached
  <2>2. CASE x # s
    BY <1>6, <1>7, <1>8, <2>2 DEF Numbering, Cached
  <2> QED BY <2>1, <2>2
<1>12. \A x \in Sessions \ present' : lines'[x] = <<>>
  BY <1>4, <1>6, <1>8 DEF Numbering
<1> QED BY <1>9, <1>10, <1>11, <1>12 DEF Numbering

(* The number that was written is remembered.                              *)
LEMMA NumberingReturns ==
  ASSUME JournalTypeOK, Numbering, NEW c \in Calls, RecordReturns(c)
  PROVE  Numbering'
<1> DEFINE s == op[c].on
<1>1. pc[c] \in Holding BY DEF RecordReturns, Holding, Recording
<1>2. s \in Sessions /\ \A d \in Calls \ {c} : pc[d] \notin Holding
  BY <1>1, HolderAlone
<1>3. s \in present /\ ~HasTorn(lines[s]) /\ num[c] = Len(lines[s])
  BY DEF Numbering, Positioned, RecordReturns
<1>4. \A d \in Calls : pc'[d] = IF d = c THEN "returned" ELSE pc[d]
  BY DEF RecordReturns, End, JournalTypeOK, JournalTypes
<1>5. \A x \in Sessions : nextSeq'[x] = IF x = s THEN num[c] + 1 ELSE nextSeq[x]
  BY DEF RecordReturns, JournalTypeOK, JournalTypes
<1>6. op' = op /\ num' = num /\ UNCHANGED files
  BY DEF RecordReturns
<1>7. SeqsConsecutive' BY <1>6 DEF Numbering, SeqsConsecutive, files
<1>8. ASSUME NEW d \in Calls PROVE Positioned(d)'
  BY <1>4, <1>6 DEF Numbering, Positioned, files
<1>9. ASSUME NEW x \in Sessions PROVE Cached(x)'
  <2>1. CASE x = s BY <1>3, <1>5, <1>6, <2>1 DEF Cached, files
  <2>2. CASE x # s
    BY <1>2, <1>4, <1>5, <1>6, <2>2
    DEF Numbering, Cached, files, Holding, Recording
  <2> QED BY <2>1, <2>2
<1>10. \A x \in Sessions \ present' : lines'[x] = <<>>
  BY <1>6 DEF Numbering, files
<1> QED BY <1>7, <1>8, <1>9, <1>10 DEF Numbering

(* A whole file appears or goes away, its cached number with it.           *)
LEMMA NumberingReplaced ==
  ASSUME JournalTypeOK, Numbering, NEW x \in Sessions, NEW f,
         \A d \in Calls : pc[d] \notin Writing /\ pc'[d] \notin Writing,
         lines' = [lines EXCEPT ![x] = f], Consecutive(f),
         \/ present' = present \cup {x}
         \/ present' = present \ {x} /\ f = <<>>,
         nextSeq'[x] = 0,
         \A s \in Sessions : nextSeq'[s] # 0 => nextSeq'[s] = nextSeq[s]
  PROVE  Numbering'
<1>1. \A s \in Sessions : lines'[s] = IF s = x THEN f ELSE lines[s]
  BY DEF JournalTypeOK, JournalTypes
<1>2. SeqsConsecutive' BY <1>1 DEF Numbering, SeqsConsecutive
<1>3. \A d \in Calls : Positioned(d)' BY DEF Positioned, Writing
<1>4. ASSUME NEW s \in Sessions PROVE Cached(s)'
  <2>1. CASE nextSeq'[s] = 0 BY <2>1 DEF Cached
  <2>2. CASE nextSeq'[s] # 0
    <3>1. s # x /\ nextSeq[s] # 0 /\ nextSeq'[s] = nextSeq[s] BY <2>2
    <3>2. s \in present /\ ~HasTorn(lines[s]) /\ nextSeq[s] = Len(lines[s]) + 1
      BY <3>1, CacheExact DEF Writing
    <3> QED BY <1>1, <3>1, <3>2 DEF Cached
  <2> QED BY <2>1, <2>2
<1>5. \A s \in Sessions \ present' : lines'[s] = <<>>
  BY <1>1 DEF Numbering
<1> QED BY <1>2, <1>3, <1>4, <1>5 DEF Numbering

(* A copy is numbered as its original.                                     *)
LEMMA NumberingCloned ==
  ASSUME JournalTypeOK, Numbering, NEW c \in Calls, Cloned(c)
  PROVE  Numbering'
<1> DEFINE t == op[c].to
<1>1. pc[c] \in Holding BY DEF Cloned, Holding
<1>2. /\ op[c].on \in Sessions /\ \A d \in Calls \ {c} : pc[d] \notin Holding
  BY <1>1, HolderAlone
<1>3. t \in Sessions BY DEF Cloned, JournalTypeOK, LockDiscipline
<1>4. \A d \in Calls : pc[d] \notin Writing /\ pc'[d] \notin Writing
  <2>1. /\ \A d \in Calls \ {c} : pc'[d] = pc[d]
        /\ pc[c] = "cloning" /\ pc'[c] \in {"returned", "raised"}
    BY DEF Cloned, End, JournalTypeOK, JournalTypes
  <2> QED BY <1>2, <2>1 DEF Writing, Holding, Recording
<1>5. Consecutive(lines[op[c].on])
  BY <1>2 DEF Numbering, SeqsConsecutive
<1>6. nextSeq[t] = 0
  BY <1>3 DEF Cloned, Clonable, Numbering, Cached
<1>7. /\ nextSeq'[t] = 0
      /\ \A s \in Sessions : nextSeq'[s] # 0 => nextSeq'[s] = nextSeq[s]
  BY <1>3, <1>6, ForgetOne DEF Cloned
<1>8. /\ lines' = [lines EXCEPT ![t] = lines[op[c].on]]
      /\ present' = present \cup {t}
  BY DEF Cloned
<1> QED BY <1>3, <1>4, <1>5, <1>7, <1>8, NumberingReplaced

(* A file that is deleted has no line.                                     *)
LEMMA NumberingUnlinked ==
  ASSUME JournalTypeOK, Numbering, NEW c \in Calls, Unlinked(c)
  PROVE  Numbering'
<1> DEFINE s == op[c].on
<1>1. pc[c] \in Holding BY DEF Unlinked, Holding
<1>2. s \in Sessions /\ \A d \in Calls \ {c} : pc[d] \notin Holding
  BY <1>1, HolderAlone
<1>3. \A d \in Calls : pc[d] \notin Writing /\ pc'[d] \notin Writing
  <2>1. /\ \A d \in Calls \ {c} : pc'[d] = pc[d]
        /\ pc[c] = "unlinking" /\ pc'[c] \in {"returned", "raised"}
    BY DEF Unlinked, End, JournalTypeOK, JournalTypes
  <2> QED BY <1>2, <2>1 DEF Writing, Holding, Recording
<1>4. /\ nextSeq'[s] = 0
      /\ \A x \in Sessions : nextSeq'[x] # 0 => nextSeq'[x] = nextSeq[x]
  BY <1>2, ForgetOne DEF Unlinked
<1>5. CASE lines' = [lines EXCEPT ![s] = <<>>] /\ present' = present \ {s}
  <2>1. Consecutive(<<>>) BY DEF Consecutive
  <2> QED BY <1>2, <1>3, <1>4, <1>5, <2>1, NumberingReplaced
<1>6. CASE UNCHANGED files
  BY <1>3, <1>4, <1>6, NumberingKept DEF Writing
<1> QED BY <1>5, <1>6 DEF Unlinked

(* Every step of a call keeps the numbering.                               *)
LEMMA NumberingCall ==
  ASSUME JournalTypeOK, Numbering, NEW c \in Calls, Steps(c)
  PROVE  Numbering'
<1> DEFINE s == op[c].on
<1>1. CASE CancelledWaiting(c)
  BY <1>1, NumberingAside DEF CancelledWaiting, Writing, memory
<1>2. CASE RecordBegins(c)
  <2>1. Granted(c, "record") BY <1>2 DEF RecordBegins
  <2>2. /\ s \in Sessions /\ pc[c] = "waiting"
        /\ \A d \in Calls : pc[d] \notin Holding
    BY <2>1, GrantedFacts
  <2>3. UNCHANGED <<files, op, nextSeq>> BY <1>2 DEF RecordBegins, memory
  <2>4. CASE (End(c, "raised") \/ Suspend(c, "recovering")) /\ UNCHANGED num
    BY <2>2, <2>3, <2>4, NumberingAside DEF End, Suspend, Writing
  <2>5. CASE /\ nextSeq[s] # 0 /\ Suspend(c, "appending")
             /\ num' = [num EXCEPT ![c] = nextSeq[s]]
    <3>1. ~HasTorn(lines[s]) /\ nextSeq[s] = Len(lines[s]) + 1
      BY <2>2, <2>5, CacheExact DEF Holding, Recording
    <3> QED BY <2>2, <2>3, <2>5, <3>1, NumberingWrite DEF Suspend
  <2> QED BY <1>2, <2>4, <2>5 DEF RecordBegins
<1>3. CASE Recovered(c)
  <2>1. pc[c] = "recovering" /\ s \in Sessions
    BY <1>3, HolderAlone DEF Recovered, Holding, Recording
  <2>2. lines[s] \in Seq(Line) /\ Consecutive(lines[s]) /\ ~HasTorn(lines[s])
    BY <1>3, <2>1 DEF Recovered, Recoverable, Numbering, SeqsConsecutive,
                      JournalTypeOK, JournalTypes
  <2>3. RecoveredSeq(lines[s]) = Len(lines[s]) + 1 BY <2>2, RecoverNext
  <2> QED BY <1>3, <2>1, <2>2, <2>3, NumberingWrite DEF Recovered, memory
<1>4. CASE AppendStarts(c) BY <1>4, NumberingAppendStarts
<1>5. CASE AppendCompletes(c) BY <1>5, NumberingAppendCompletes
<1>6. CASE RecordReturns(c) BY <1>6, NumberingReturns
<1>7. CASE RecordRaises(c)
  <2>1. s \in Sessions
    BY <1>7, HolderAlone DEF RecordRaises, Holding
  <2>2. /\ nextSeq'[s] = 0
        /\ \A x \in Sessions : nextSeq'[x] # 0 => nextSeq'[x] = nextSeq[x]
    BY <1>7, <2>1, ForgetOne DEF RecordRaises
  <2>3. \A d \in Calls : pc'[d] = IF d = c THEN "raised" ELSE pc[d]
    BY <1>7 DEF RecordRaises, End, JournalTypeOK, JournalTypes
  <2>4. UNCHANGED files /\ op' = op /\ num' = num BY <1>7 DEF RecordRaises
  <2> QED BY <2>2, <2>3, <2>4, NumberingKept DEF Writing
<1>8. CASE CloneBegins(c)
  <2>1. pc[c] = "waiting" /\ UNCHANGED <<files, op, num>> /\ nextSeq' = nextSeq
    BY <1>8 DEF CloneBegins, Granted, memory
  <2>2. CASE End(c, "raised")
    BY <2>1, <2>2, NumberingAside DEF End, Writing
  <2>3. CASE Suspend(c, "cloning")
    BY <2>1, <2>3, NumberingAside DEF Suspend, Writing
  <2> QED BY <1>8, <2>2, <2>3 DEF CloneBegins
<1>9. CASE Cloned(c) BY <1>9, NumberingCloned
<1>10. CASE NotCloned(c)
  <2>1. \A x \in Sessions : nextSeq'[x] # 0 => nextSeq'[x] = nextSeq[x]
    BY <1>10, ForgetOne DEF NotCloned
  <2>2. pc[c] = "cloning" /\ UNCHANGED <<files, op, num>>
        /\ (End(c, "returned") \/ End(c, "raised"))
    BY <1>10 DEF NotCloned
  <2> QED BY <2>1, <2>2, NumberingAside DEF End, Writing
<1>11. CASE PrepareDelete(c)
  <2>1. \A x \in Sessions : nextSeq'[x] # 0 => nextSeq'[x] = nextSeq[x]
    BY <1>11, ForgetOne DEF PrepareDelete
  <2> QED
    BY <1>11, <2>1, NumberingAside DEF PrepareDelete, Granted, End, Writing
<1>12. CASE CancelDelete(c)
  BY <1>12, NumberingAside DEF CancelDelete, Granted, End, Writing
<1>13. CASE DeleteBegins(c)
  BY <1>13, NumberingAside DEF DeleteBegins, Granted, Suspend, Writing
<1>14. CASE Unlinked(c) BY <1>14, NumberingUnlinked
<1>15. CASE Creates(c)
  <2>1. /\ present \subseteq present' /\ lines' = lines /\ nextSeq' = nextSeq
        /\ pc' = pc /\ op' = op /\ num' = num
    BY <1>15 DEF Creates, memory
  <2>2. SeqsConsecutive' BY <2>1 DEF Numbering, SeqsConsecutive
  <2>3. \A d \in Calls : Positioned(d)' BY <2>1 DEF Numbering, Positioned
  <2>4. \A x \in Sessions : Cached(x)' BY <2>1 DEF Numbering, Cached
  <2>5. \A x \in Sessions \ present' : lines'[x] = <<>>
    BY <2>1 DEF Numbering
  <2> QED BY <2>2, <2>3, <2>4, <2>5 DEF Numbering
<1> QED
  BY <1>1, <1>2, <1>3, <1>4, <1>5, <1>6, <1>7, <1>8, <1>9, <1>10, <1>11, <1>12,
     <1>13, <1>14, <1>15 DEF Steps

(* Every step keeps it, a crash too.                                       *)
LEMMA NumberingNext ==
  ASSUME JournalTypeOK, Numbering, [Next]_vars
  PROVE  Numbering'
<1>1. CASE Crash
  <2>1. \A d \in Calls : pc'[d] \notin Writing
    BY <1>1 DEF Crash, Writing, InFlight, Holding, Recording
  <2>2. \A s \in Sessions : nextSeq'[s] = 0 BY <1>1 DEF Crash
  <2>3. \A d \in Calls : pc[d] \in {"half", "written"} => op[d].on \in Sessions
    BY DEF JournalTypeOK, LockDiscipline
  <2>4. UNCHANGED files /\ op' = op BY <1>1 DEF Crash
  <2> QED BY <2>1, <2>2, <2>3, <2>4, NumberingKept
<1>2. ASSUME NEW s \in Sessions, TransactionEnds(s)
      PROVE  Numbering'
  BY <1>2, NumberingKept DEF TransactionEnds, memory
<1>3. CASE UNCHANGED vars
  BY <1>3, NumberingKept DEF vars, memory
<1> QED BY <1>1, <1>2, <1>3, NumberingRequest, NumberingCall DEF Next, AtRest

(* The files as they start.                                                *)
LEMMA NumberingInit ==
  ASSUME Init
  PROVE  Numbering
<1>1. SeqsConsecutive BY DEF Init, SeqsConsecutive, Consecutive
<1> QED BY <1>1 DEF Init, Numbering, Positioned, Cached

(* In every state the files are numbered.                                  *)
LEMMA NumberingInvariant == Spec => []Numbering
BY NumberingInit, NumberingNext, JournalTypeCorrect, PTL DEF Spec

(* The records of every file are numbered 1, 2, 3 and so on, with at most  *)
(* an incomplete line at the end, through failures, cancellations, crashes,*)
(* clones and deletions.                                                   *)
THEOREM RecordsConsecutive == Spec => []SeqsConsecutive
BY NumberingInvariant, PTL DEF Numbering

-----------------------------------------------------------------------------
(* The refinement: the whole records of the files are the logs.            *)

log == [s \in Sessions |-> Complete(lines[s])]

(* Half a line adds no record.                                             *)
LEMMA LogAppendStarts ==
  ASSUME JournalTypeOK, Numbering, NEW c \in Calls, AppendStarts(c)
  PROVE  log' = log
<1> DEFINE s == op[c].on
<1> DEFINE f == lines[s]
<1>1. s \in Sessions
  BY HolderAlone DEF AppendStarts, Holding, Recording
<1>2. f \in Seq(Line) /\ Consecutive(f) /\ ~HasTorn(f)
  BY <1>1 DEF AppendStarts, Numbering, SeqsConsecutive, Positioned,
              JournalTypeOK, JournalTypes
<1>3. Complete(Append(f, Torn)) = Complete(f)
  BY <1>2, AppendTorn DEF Complete
<1>4. \A x \in Sessions : lines'[x] = IF x = s THEN Append(f, Torn) ELSE lines[x]
  BY DEF AppendStarts, JournalTypeOK, JournalTypes
<1> QED BY <1>3, <1>4 DEF log

(* The rest of it appends one: the record of the call.                     *)
LEMMA LogAppendCompletes ==
  ASSUME JournalTypeOK, Numbering, NEW c \in Calls, AppendCompletes(c)
  PROVE  Log!AppendEntry(op[c].on, c)
<1> DEFINE s == op[c].on
<1> DEFINE f == lines[s]
<1> DEFINE g == [f EXCEPT ![Len(f)] = [seq |-> Len(f), by |-> c]]
<1>1. s \in Sessions
  BY HolderAlone DEF AppendCompletes, Holding, Recording
<1>2. f \in Seq(Line) /\ Consecutive(f) /\ HasTorn(f) /\ num[c] = Len(f)
  BY <1>1 DEF AppendCompletes, Numbering, SeqsConsecutive, Positioned,
              JournalTypeOK, JournalTypes
<1>3. Complete(g) = Append(Complete(f), [seq |-> Len(Complete(f)) + 1, by |-> c])
  BY <1>2, CompleteLast
<1>4. \A x \in Sessions : lines'[x] = IF x = s THEN g ELSE lines[x]
  BY <1>2 DEF AppendCompletes, JournalTypeOK, JournalTypes
<1> HIDE DEF g
<1>5. log' = [log EXCEPT ![s] = Append(@, [seq |-> Len(@) + 1, by |-> c])]
  BY <1>1, <1>3, <1>4 DEF log
<1> QED BY <1>5 DEF Log!AppendEntry, log

(* A file that is copied is a copy of its records.                         *)
LEMMA LogCloned ==
  ASSUME JournalTypeOK, Numbering, NEW c \in Calls, Cloned(c)
  PROVE  Log!Copy(op[c].on, op[c].to)
<1> DEFINE s == op[c].on
<1> DEFINE t == op[c].to
<1>1. s \in Sessions
  BY HolderAlone DEF Cloned, Holding, Recording
<1>2. t \in Sessions BY DEF Cloned, JournalTypeOK, LockDiscipline
<1>3. lines[t] = <<>> BY <1>2 DEF Cloned, Clonable, Numbering
<1>4. log[t] = <<>> BY <1>2, <1>3 DEF log, Complete, HasTorn
<1>5. \A x \in Sessions : lines'[x] = IF x = t THEN lines[s] ELSE lines[x]
  BY DEF Cloned, JournalTypeOK, JournalTypes
<1>6. log' = [log EXCEPT ![t] = log[s]] BY <1>1, <1>2, <1>5 DEF log
<1> QED BY <1>4, <1>6 DEF Log!Copy, log

(* A file that is deleted is a log that is dropped, if it was there.       *)
LEMMA LogUnlinked ==
  ASSUME JournalTypeOK, NEW c \in Calls, Unlinked(c)
  PROVE  Log!Drop(op[c].on) \/ log' = log
<1>1. CASE lines' = [lines EXCEPT ![op[c].on] = <<>>]
  <2>1. Complete(<<>>) = <<>> BY DEF Complete, HasTorn
  <2>2. \A x \in Sessions :
          lines'[x] = IF x = op[c].on THEN <<>> ELSE lines[x]
    BY <1>1 DEF JournalTypeOK, JournalTypes
  <2>3. log' = [log EXCEPT ![op[c].on] = <<>>] BY <2>1, <2>2 DEF log
  <2> QED BY <2>3 DEF Log!Drop, log
<1>2. CASE UNCHANGED files BY <1>2 DEF files, log
<1> QED BY <1>1, <1>2 DEF Unlinked

(* Every step is one of the durable log, or changes no record.             *)
LEMMA LogNext ==
  ASSUME JournalTypeOK, Numbering, [Next]_vars
  PROVE  Log!Next \/ log' = log
<1>1. CASE lines' = lines BY <1>1 DEF log
<1>2. ASSUME NEW c \in Calls, Steps(c) PROVE Log!Next \/ log' = log
  <2>1. CASE AppendStarts(c) BY <2>1, LogAppendStarts
  <2>2. CASE AppendCompletes(c)
    <3>1. op[c].on \in Sessions
      BY <2>2, HolderAlone DEF AppendCompletes, Holding, Recording
    <3> QED BY <2>2, <3>1, LogAppendCompletes DEF Log!Next
  <2>3. CASE Cloned(c)
    <3>1. op[c].on \in Sessions /\ op[c].to \in Sessions
      BY <2>3, HolderAlone
      DEF Cloned, Holding, Recording, JournalTypeOK, LockDiscipline
    <3> QED BY <2>3, <3>1, LogCloned DEF Log!Next
  <2>4. CASE Unlinked(c)
    <3>1. op[c].on \in Sessions
      BY <2>4, HolderAlone DEF Unlinked, Holding, Recording
    <3> QED BY <2>4, <3>1, LogUnlinked DEF Log!Next
  <2>5. CASE \/ CancelledWaiting(c) \/ RecordBegins(c) \/ Recovered(c)
             \/ RecordReturns(c) \/ RecordRaises(c) \/ CloneBegins(c)
             \/ NotCloned(c) \/ PrepareDelete(c) \/ CancelDelete(c)
             \/ DeleteBegins(c) \/ Creates(c)
    BY <1>1, <2>5
    DEF Creates, CancelledWaiting, RecordBegins, Recovered, RecordReturns, RecordRaises,
        CloneBegins, NotCloned, PrepareDelete, CancelDelete, DeleteBegins, files
  <2> QED BY <1>2, <2>1, <2>2, <2>3, <2>4, <2>5 DEF Steps
<1>3. ASSUME NEW c \in Calls, Requests(c) PROVE lines' = lines
  BY <1>3 DEF Requests, RequestRecord, RequestClone, RequestRemoval, Request, files
<1>4. (\E s \in Sessions : TransactionEnds(s)) \/ Crash \/ UNCHANGED vars
        => lines' = lines
  BY DEF TransactionEnds, Crash, vars, files
<1> QED BY <1>1, <1>2, <1>3, <1>4 DEF Next, AtRest

(* The journal files implement the logs: records are appended whole, and a *)
(* log is dropped or copied only as a whole.                               *)
THEOREM LogImplemented == Spec => ImplementsLog
<1>1. Init => Log!Init
  BY DEF Init, Log!Init, Complete, HasTorn
<1>2. JournalTypeOK /\ Numbering /\ [Next]_vars => [Log!Next]_log
  BY LogNext
<1>3. [Log!Next]_log
        => [Log!Next]_([s \in Sessions |-> Complete(lines[s])])
  BY DEF log
<1> QED
  BY <1>1, <1>2, <1>3, JournalTypeCorrect, NumberingInvariant, PTL
  DEF Spec, ImplementsLog, Log!Spec

-----------------------------------------------------------------------------
(* Deletions.  DeletedStaysGone is not inductive: whoever could still      *)
(* write to a deleted Session has to be behind its fence, and the fence    *)
(* must not be lifted by another deletion of the same Session.             *)

Removing(c, s) ==
  /\ pc[c] \in {"waiting", "unlinking"} /\ op[c].on = s
  /\ op[c].kind \in {"prepare", "cancel", "delete"}

(* What the call of a deletion finds: the deletion is where it left it.    *)
AtItsPhase(c) ==
  /\ op[c].kind = "prepare" => removal[op[c].on] = "preparing"
  /\ op[c].kind = "cancel"  => removal[op[c].on] = "lifting"
  /\ op[c].kind = "delete"  => removal[op[c].on] = "deleting"

Uses(c, s) == op[c].on = s \/ (op[c].kind = "clone" /\ op[c].to = s)

Filing == Recording \cup {"cloning"}

(* Nobody is about to write to a deleted Session, and who waits for the    *)
(* lock to do so will meet its fence.                                      *)
OutOfReach(s) ==
  /\ s \notin present
  /\ \A c \in Calls : Uses(c, s) => pc[c] \notin Filing
  /\ s \in fenced \/ \A c \in Calls : Uses(c, s) => pc[c] # "waiting"

RemovalSound ==
  /\ \A c \in Calls : pc[c] \in {"waiting", "unlinking"} => AtItsPhase(c)
  /\ \A c, d \in Calls, s \in Sessions : Removing(c, s) /\ Removing(d, s) => c = d
  /\ \A c \in Calls : pc[c] = "unlinking" => op[c].on \in fenced
  /\ \A s \in Sessions : removal[s] = "deleted" => OutOfReach(s)

(* A step that moves no deletion on.                                       *)
LEMMA RemovalKept ==
  ASSUME RemovalSound, op' = op, removal' = removal, fenced \subseteq fenced',
         \A s \in present' \ present : removal[s] # "deleted",
         \A d \in Calls :
           /\ pc'[d] = "waiting" => pc[d] = "waiting"
           /\ pc'[d] = "unlinking" =>
                op[d].on \in fenced' /\ pc[d] \in {"waiting", "unlinking"}
           /\ pc'[d] \in Filing =>
                \/ pc[d] \in Filing
                \/ /\ pc[d] = "waiting" /\ op[d].on \notin fenced
                   /\ op[d].kind = "clone" => op[d].to \notin fenced
  PROVE  RemovalSound'
<1>1. \A c \in Calls, s \in Sessions : Removing(c, s)' => Removing(c, s)
  BY DEF Removing
<1>2. \A c \in Calls : pc'[c] \in {"waiting", "unlinking"} => AtItsPhase(c)'
  BY DEF RemovalSound, AtItsPhase
<1>3. \A c \in Calls : pc'[c] = "unlinking" => op'[c].on \in fenced' OBVIOUS
<1>4. ASSUME NEW s \in Sessions, removal'[s] = "deleted" PROVE OutOfReach(s)'
  <2>1. OutOfReach(s) BY <1>4 DEF RemovalSound
  <2>2. s \notin present' BY <1>4, <2>1 DEF OutOfReach
  <2>3. \A c \in Calls : Uses(c, s) => pc'[c] \notin Filing
    BY <2>1 DEF OutOfReach, Uses
  <2>4. s \in fenced' \/ \A c \in Calls : Uses(c, s) => pc'[c] # "waiting"
    BY <2>1 DEF OutOfReach
  <2> QED BY <2>2, <2>3, <2>4 DEF OutOfReach, Uses
<1> QED BY <1>1, <1>2, <1>3, <1>4 DEF RemovalSound

(* One call of the deletion of x ends, and nobody else works on x's file.  *)
LEMMA RemovalEnds ==
  ASSUME JournalTypeOK, RemovalSound, op' = op, NEW c \in Calls,
         NEW x \in Sessions,
         Removing(c, x), pc'[c] \notin {"waiting", "unlinking"} \cup Filing,
         \A d \in Calls \ {c} : pc'[d] = pc[d],
         present' \subseteq present, fenced \ {x} \subseteq fenced',
         \A s \in Sessions \ {x} : removal'[s] = removal[s],
         \/ removal'[x] # "deleted"
         \/ /\ x \notin present' /\ x \in fenced'
            /\ \A d \in Calls \ {c} : pc[d] \notin Filing
  PROVE  RemovalSound'
<1>1. \A d \in Calls \ {c} : ~Removing(d, x) BY DEF RemovalSound
<1>2. \A d \in Calls, s \in Sessions : Removing(d, s)' => Removing(d, s)
  BY DEF Removing
<1>3. ASSUME NEW d \in Calls, pc'[d] \in {"waiting", "unlinking"}
      PROVE  /\ d # c /\ pc'[d] = pc[d] /\ op[d].on \in Sessions
             /\ AtItsPhase(d)
             /\ op[d].kind \in {"prepare", "cancel", "delete"}
                  => op[d].on # x
  <2>1. d # c /\ pc'[d] = pc[d] BY <1>3
  <2>2. AtItsPhase(d) BY <1>3, <2>1 DEF RemovalSound
  <2>3. op[d].on \in Sessions
    BY <1>3, <2>1 DEF JournalTypeOK, LockDiscipline
  <2> QED BY <1>1, <1>3, <2>1, <2>2, <2>3 DEF Removing
<1>4. ASSUME NEW d \in Calls, pc'[d] \in {"waiting", "unlinking"}
      PROVE  AtItsPhase(d)'
  BY <1>3, <1>4 DEF AtItsPhase
<1>5. ASSUME NEW d \in Calls, pc'[d] = "unlinking" PROVE op'[d].on \in fenced'
  <2>1. op[d].kind = "delete"
    BY <1>3, <1>5 DEF JournalTypeOK, LockDiscipline
  <2>2. op[d].on \in fenced BY <1>3, <1>5 DEF RemovalSound
  <2> QED BY <1>3, <1>5, <2>1, <2>2
<1>6. ASSUME NEW s \in Sessions, removal'[s] = "deleted" PROVE OutOfReach(s)'
  <2>1. CASE s = x
    BY <1>6, <2>1 DEF OutOfReach
  <2>2. CASE s # x
    <3>1. OutOfReach(s) BY <1>6, <2>2 DEF RemovalSound
    <3>2. s \notin present' BY <3>1 DEF OutOfReach
    <3>3. \A d \in Calls : Uses(d, s) => pc'[d] \notin Filing
      BY <3>1 DEF OutOfReach
    <3>4. s \in fenced' \/ \A d \in Calls : Uses(d, s) => pc'[d] # "waiting"
      BY <2>2, <3>1 DEF OutOfReach
    <3> QED BY <3>2, <3>3, <3>4 DEF OutOfReach, Uses
  <2> QED BY <2>1, <2>2
<1> QED BY <1>2, <1>4, <1>5, <1>6 DEF RemovalSound

(* A call is made: of a deletion only where it has come to it.             *)
LEMMA RemovalRequest ==
  ASSUME JournalTypeOK, RemovalSound, NEW c \in Calls, NEW kind, NEW s \in Sessions,
         NEW t, Request(c, kind, s, t),
         \A x \in Sessions \ {s} : removal'[x] = removal[x],
         \/ /\ kind \in {"prepare", "cancel", "delete"}
            /\ removal[s] \notin {"preparing", "lifting", "deleting"}
            /\ kind = "prepare" => removal'[s] = "preparing"
            /\ kind = "cancel" => removal'[s] = "lifting"
            /\ kind = "delete" => removal'[s] = "deleting"
         \/ /\ kind \in {"record", "clone"} /\ HasCallers(s)
            /\ kind = "clone" => HasCallers(t)
            /\ removal' = removal
  PROVE  RemovalSound'
<1> DEFINE Of(x) == x \in {"prepare", "cancel", "delete"}
<1>1. /\ pc[c] = "idle" /\ pc'[c] = "waiting"
      /\ op'[c].kind = kind /\ op'[c].on = s /\ op'[c].to = t
      /\ \A d \in Calls \ {c} : pc'[d] = pc[d] /\ op'[d] = op[d]
      /\ present' = present /\ fenced' = fenced
  BY DEF Request, JournalTypeOK, JournalTypes, files, memory
<1>2. Of(kind) => \A d \in Calls \ {c} : ~Removing(d, s)
  BY DEF RemovalSound, AtItsPhase, Removing
<1>3. ASSUME NEW d \in Calls, pc'[d] \in {"waiting", "unlinking"}
      PROVE  AtItsPhase(d)'
  <2>1. CASE d = c BY <1>1, <2>1 DEF AtItsPhase
  <2>2. CASE d # c
    <3>1. pc'[d] = pc[d] /\ op'[d] = op[d] /\ AtItsPhase(d)
      BY <1>1, <1>3, <2>2 DEF RemovalSound
    <3>2. op[d].on \in Sessions
      BY <1>3, <3>1 DEF JournalTypeOK, LockDiscipline
    <3>3. Of(op[d].kind) => removal'[op[d].on] = removal[op[d].on]
      BY <1>2, <1>3, <2>2, <3>1, <3>2 DEF Removing
    <3> QED BY <3>1, <3>3 DEF AtItsPhase
  <2> QED BY <2>1, <2>2
<1>4. ASSUME NEW d \in Calls, NEW e \in Calls, NEW x \in Sessions,
             Removing(d, x)', Removing(e, x)'
      PROVE  d = e
  <2>1. CASE d # c /\ e # c
    BY <1>1, <1>4, <2>1 DEF RemovalSound, Removing
  <2>2. CASE d = c \/ e = c
    BY <1>1, <1>2, <1>4, <2>2 DEF Removing
  <2> QED BY <2>1, <2>2
<1>5. \A d \in Calls : pc'[d] = "unlinking" => op'[d].on \in fenced'
  BY <1>1 DEF RemovalSound
<1>6. ASSUME NEW x \in Sessions, removal'[x] = "deleted" PROVE OutOfReach(x)'
  <2>1. removal[x] = "deleted" /\ (Of(kind) => x # s)
    BY <1>6
  <2>2. OutOfReach(x) BY <2>1 DEF RemovalSound
  <2>3. \A d \in Calls \ {c} : Uses(d, x)' <=> Uses(d, x)
    BY <1>1 DEF Uses
  <2>4. x \notin present' BY <1>1, <2>2 DEF OutOfReach
  <2>5. \A d \in Calls : Uses(d, x)' => pc'[d] \notin Filing
    BY <1>1, <2>2, <2>3 DEF OutOfReach, Filing, Recording
  <2>6. Uses(c, x)' => x \in fenced
    BY <1>1, <2>1 DEF Uses, HasCallers
  <2>7. x \in fenced' \/ \A d \in Calls : Uses(d, x)' => pc'[d] # "waiting"
    BY <1>1, <2>2, <2>3, <2>6 DEF OutOfReach
  <2> QED BY <2>4, <2>5, <2>7 DEF OutOfReach
<1> QED BY <1>3, <1>4, <1>5, <1>6 DEF RemovalSound

(* A call goes on under the lock, or ends, and the deletions stay.         *)
LEMMA RemovalAside ==
  ASSUME JournalTypeOK, RemovalSound, NEW c \in Calls, NEW at,
         pc' = [pc EXCEPT ![c] = at], op' = op, removal' = removal,
         fenced' = fenced, present' \subseteq present \cup {op[c].on},
         at \in Recording \cup {"returned", "raised"}, pc[c] \in Recording
  PROVE  RemovalSound'
<1>1. \A d \in Calls : pc'[d] = IF d = c THEN at ELSE pc[d]
  BY DEF JournalTypeOK, JournalTypes
<1>2. \A s \in present' \ present : removal[s] # "deleted"
  BY HolderAlone DEF RemovalSound, OutOfReach, Uses, Filing, Holding
<1>3. ASSUME NEW d \in Calls
      PROVE  /\ pc'[d] = "waiting" => pc[d] = "waiting"
             /\ pc'[d] = "unlinking" => op[d].on \in fenced' /\ pc[d] = "unlinking"
             /\ pc'[d] \in Filing => pc[d] \in Filing
  BY <1>1 DEF RemovalSound, Filing, Recording
<1> QED BY <1>2, <1>3, RemovalKept

(* A call gets the lock; its deletion, if it has one, does not move.       *)
LEMMA RemovalGranted ==
  ASSUME JournalTypeOK, RemovalSound, NEW c \in Calls, NEW at,
         pc[c] = "waiting", pc' = [pc EXCEPT ![c] = at], op' = op,
         removal' = removal, fenced \subseteq fenced', present' = present,
         \/ at \in {"returned", "raised"}
         \/ at = "unlinking" /\ op[c].on \in fenced'
         \/ /\ at \in Filing /\ op[c].on \notin fenced
            /\ op[c].kind = "clone" => op[c].to \notin fenced
  PROVE  RemovalSound'
<1>1. \A d \in Calls : pc'[d] = IF d = c THEN at ELSE pc[d]
  BY DEF JournalTypeOK, JournalTypes
<1>2. ASSUME NEW d \in Calls
      PROVE  /\ pc'[d] = "waiting" => pc[d] = "waiting"
             /\ pc'[d] = "unlinking" =>
                  op[d].on \in fenced' /\ pc[d] \in {"waiting", "unlinking"}
             /\ pc'[d] \in Filing =>
                  \/ pc[d] \in Filing
                  \/ /\ pc[d] = "waiting" /\ op[d].on \notin fenced
                     /\ op[d].kind = "clone" => op[d].to \notin fenced
  BY <1>1 DEF RemovalSound, Filing, Recording
<1> QED BY <1>2, RemovalKept

(* A copy is made, or not, of and onto Sessions that are not deleted.      *)
LEMMA RemovalCloned ==
  ASSUME JournalTypeOK, RemovalSound, NEW c \in Calls,
         Cloned(c) \/ NotCloned(c)
  PROVE  RemovalSound'
<1>1. /\ pc[c] = "cloning" /\ op' = op /\ removal' = removal
      /\ fenced' = fenced /\ present' \subseteq present \cup {op[c].to}
      /\ \/ pc' = [pc EXCEPT ![c] = "returned"]
         \/ pc' = [pc EXCEPT ![c] = "raised"]
  BY DEF Cloned, NotCloned, End, files
<1>2. \A d \in Calls \ {c} : pc'[d] = pc[d]
  BY <1>1 DEF JournalTypeOK, JournalTypes
<1>3. pc'[c] \in {"returned", "raised"}
  BY <1>1 DEF JournalTypeOK, JournalTypes
<1>4. op[c].kind = "clone" /\ op[c].to \in Sessions
  BY <1>1 DEF JournalTypeOK, LockDiscipline
<1>5. \A s \in present' \ present : removal[s] # "deleted"
  BY <1>1, <1>4 DEF RemovalSound, OutOfReach, Uses, Filing
<1>6. ASSUME NEW d \in Calls
      PROVE  /\ pc'[d] = "waiting" => pc[d] = "waiting"
             /\ pc'[d] = "unlinking" => op[d].on \in fenced' /\ pc[d] = "unlinking"
             /\ pc'[d] \in Filing => pc[d] \in Filing
  BY <1>1, <1>2, <1>3 DEF RemovalSound, Filing, Recording
<1> QED BY <1>1, <1>5, <1>6, RemovalKept

(* A call of a deletion ends without the file.                             *)
LEMMA RemovalSettles ==
  ASSUME JournalTypeOK, RemovalSound, NEW c \in Calls, NEW at, NEW phase,
         pc[c] = "waiting", pc' = [pc EXCEPT ![c] = at], op' = op,
         at \in {"returned", "raised"}, phase # "deleted",
         op[c].kind \in {"prepare", "cancel", "delete"},
         removal' = [removal EXCEPT ![op[c].on] = phase],
         present' = present, fenced \ {op[c].on} \subseteq fenced'
  PROVE  RemovalSound'
<1> DEFINE x == op[c].on
<1>1. x \in Sessions BY DEF JournalTypeOK, LockDiscipline
<1>2. /\ \A s \in Sessions \ {x} : removal'[s] = removal[s]
      /\ removal'[x] = phase
  BY <1>1 DEF JournalTypeOK, JournalTypes
<1>3. pc'[c] = at /\ \A d \in Calls \ {c} : pc'[d] = pc[d]
  BY DEF JournalTypeOK, JournalTypes
<1>4. Removing(c, x) BY DEF Removing
<1>5. pc'[c] \notin {"waiting", "unlinking"} \cup Filing
  BY <1>3 DEF Filing, Recording
<1> HIDE DEF x
<1> QED BY <1>1, <1>2, <1>3, <1>4, <1>5, RemovalEnds DEF x

(* A deletion takes the file away, or fails to.                            *)
LEMMA RemovalUnlinked ==
  ASSUME JournalTypeOK, RemovalSound, NEW c \in Calls, Unlinked(c)
  PROVE  RemovalSound'
<1> DEFINE x == op[c].on
<1>1. pc[c] = "unlinking" /\ pc[c] \in Holding BY DEF Unlinked, Holding
<1>2. /\ x \in Sessions /\ op[c].kind = "delete" /\ x \in fenced
      /\ \A d \in Calls \ {c} : pc[d] \notin Filing
  BY <1>1, HolderAlone
  DEF JournalTypeOK, LockDiscipline, RemovalSound, Filing, Holding
<1>3. /\ \A d \in Calls \ {c} : pc'[d] = pc[d]
      /\ pc'[c] \in {"returned", "raised"}
  BY DEF Unlinked, End, JournalTypeOK, JournalTypes
<1>4. op' = op /\ fenced' = fenced BY DEF Unlinked
<1>5. present' \subseteq present BY DEF Unlinked, files
<1>6. \A s \in Sessions \ {x} : removal'[s] = removal[s]
  BY DEF Unlinked, JournalTypeOK, JournalTypes
<1>7. removal'[x] # "deleted" \/ x \notin present'
  BY <1>2 DEF Unlinked, JournalTypeOK, JournalTypes
<1>8. Removing(c, x) BY <1>1, <1>2 DEF Removing
<1>9. pc'[c] \notin {"waiting", "unlinking"} \cup Filing
  BY <1>3 DEF Filing, Recording
<1> HIDE DEF x
<1> QED BY <1>2, <1>3, <1>4, <1>5, <1>6, <1>7, <1>8, <1>9, RemovalEnds

(* A call is cancelled while it waits for the lock.                        *)
LEMMA RemovalCancelled ==
  ASSUME JournalTypeOK, RemovalSound, NEW c \in Calls, CancelledWaiting(c)
  PROVE  RemovalSound'
<1> DEFINE x == op[c].on
<1> DEFINE phase == GivenUp(op[c].kind, removal[x])
<1>1. /\ pc[c] = "waiting" /\ pc' = [pc EXCEPT ![c] = "raised"] /\ op' = op
      /\ present' = present /\ fenced' = fenced
      /\ removal' = [removal EXCEPT ![x] = phase]
  BY DEF CancelledWaiting, files, memory
<1>2. CASE op[c].kind \in {"prepare", "cancel", "delete"}
  <2>1. phase # "deleted" BY <1>2 DEF GivenUp
  <2> HIDE DEF phase
  <2> QED BY <1>1, <1>2, <2>1, RemovalSettles
<1>3. CASE op[c].kind \notin {"prepare", "cancel", "delete"}
  <2>1. phase = removal[x] BY <1>3 DEF GivenUp
  <2> HIDE DEF phase
  <2>2. removal' = removal
    BY <1>1, <2>1 DEF JournalTypeOK, JournalTypes
  <2> QED BY <1>1, <2>2, RemovalGranted
<1> QED BY <1>2, <1>3

(* Every step of a call keeps the deletions sound.                         *)
LEMMA RemovalCall ==
  ASSUME JournalTypeOK, RemovalSound, NEW c \in Calls, Steps(c)
  PROVE  RemovalSound'
<1> DEFINE s == op[c].on
<1>1. CASE CancelledWaiting(c) BY <1>1, RemovalCancelled
<1>2. CASE RecordBegins(c)
  <2>1. /\ pc[c] = "waiting" /\ op[c].kind = "record" /\ op' = op
        /\ removal' = removal /\ fenced' = fenced /\ present' = present
    BY <1>2 DEF RecordBegins, Granted, files, memory
  <2>2. \/ pc' = [pc EXCEPT ![c] = "raised"]
        \/ /\ op[c].on \notin fenced
           /\ \/ pc' = [pc EXCEPT ![c] = "recovering"]
              \/ pc' = [pc EXCEPT ![c] = "appending"]
    BY <1>2 DEF RecordBegins, Fenced, End, Suspend
  <2>3. "recovering" \in Filing /\ "appending" \in Filing
    BY DEF Filing, Recording
  <2> QED BY <2>1, <2>2, <2>3, RemovalGranted
<1>3. CASE Recovered(c) \/ AppendStarts(c) \/ AppendCompletes(c)
  <2>1. /\ op' = op /\ removal' = removal /\ fenced' = fenced
        /\ present' = present /\ pc[c] \in Recording
        /\ \/ pc' = [pc EXCEPT ![c] = "appending"]
           \/ pc' = [pc EXCEPT ![c] = "half"]
           \/ pc' = [pc EXCEPT ![c] = "written"]
    BY <1>3 DEF Recovered, AppendStarts, AppendCompletes, Recording, files, memory
  <2>2. {"appending", "half", "written"} \subseteq Recording
    BY DEF Recording
  <2> QED BY <2>1, <2>2, RemovalAside
<1>4. CASE RecordReturns(c) \/ RecordRaises(c)
  <2>1. /\ op' = op /\ removal' = removal /\ fenced' = fenced
        /\ present' = present /\ pc[c] \in Recording
        /\ \/ pc' = [pc EXCEPT ![c] = "returned"]
           \/ pc' = [pc EXCEPT ![c] = "raised"]
    BY <1>4 DEF RecordReturns, RecordRaises, End, Recording, files
  <2> QED BY <2>1, RemovalAside
<1>5. CASE Creates(c)
  <2>1. /\ op' = op /\ removal' = removal /\ fenced' = fenced /\ pc' = pc
        /\ present' = present \cup {s} /\ pc[c] \in Filing
    BY <1>5 DEF Creates, Filing, Recording, memory
  <2>2. \A x \in present' \ present : removal[x] # "deleted"
    <3>1. s \in Sessions
      BY <1>5, HolderAlone DEF Creates, Holding, Recording
    <3> QED BY <2>1, <3>1 DEF RemovalSound, OutOfReach, Uses
  <2>3. \A d \in Calls : pc[d] = "unlinking" => op[d].on \in fenced'
    BY <2>1 DEF RemovalSound
  <2> QED BY <2>1, <2>2, <2>3, RemovalKept
<1>6. CASE CloneBegins(c)
  <2>1. /\ pc[c] = "waiting" /\ op' = op
        /\ removal' = removal /\ fenced' = fenced /\ present' = present
    BY <1>6 DEF CloneBegins, Granted, files, memory
  <2>2. \/ pc' = [pc EXCEPT ![c] = "raised"]
        \/ /\ op[c].on \notin fenced /\ op[c].to \notin fenced
           /\ pc' = [pc EXCEPT ![c] = "cloning"]
    BY <1>6 DEF CloneBegins, Fenced, End, Suspend
  <2>3. "cloning" \in Filing BY DEF Filing
  <2> QED BY <2>1, <2>2, <2>3, RemovalGranted
<1>7. CASE Cloned(c) \/ NotCloned(c) BY <1>7, RemovalCloned
<1>8. CASE PrepareDelete(c)
  <2>1. /\ pc[c] = "waiting" /\ pc' = [pc EXCEPT ![c] = "returned"] /\ op' = op
        /\ op[c].kind = "prepare" /\ removal' = [removal EXCEPT ![s] = "prepared"]
        /\ present' = present /\ fenced' = fenced \cup {s}
    BY <1>8 DEF PrepareDelete, Granted, End, files
  <2> QED BY <2>1, RemovalSettles
<1>9. CASE CancelDelete(c)
  <2>1. /\ pc[c] = "waiting" /\ pc' = [pc EXCEPT ![c] = "returned"] /\ op' = op
        /\ op[c].kind = "cancel" /\ removal' = [removal EXCEPT ![s] = "none"]
        /\ present' = present /\ fenced' = fenced \ {s}
    BY <1>9 DEF CancelDelete, Granted, End, files
  <2> QED BY <2>1, RemovalSettles
<1>10. CASE DeleteBegins(c)
  <2>1. /\ pc[c] = "waiting" /\ pc' = [pc EXCEPT ![c] = "unlinking"]
        /\ op' = op /\ removal' = removal /\ present' = present
        /\ fenced' = fenced \cup {s}
    BY <1>10 DEF DeleteBegins, Granted, Suspend, files
  <2> QED BY <2>1, RemovalGranted
<1>11. CASE Unlinked(c) BY <1>11, RemovalUnlinked
<1> QED
  BY <1>1, <1>2, <1>3, <1>4, <1>5, <1>6, <1>7, <1>8, <1>9, <1>10, <1>11 DEF Steps

(* Every step of a caller keeps the deletions sound.                       *)
LEMMA RemovalRequests ==
  ASSUME JournalTypeOK, RemovalSound, NEW c \in Calls, Requests(c)
  PROVE  RemovalSound'
<1>1. ASSUME NEW s \in Sessions, RequestRecord(c, s) PROVE RemovalSound'
  BY <1>1, RemovalRequest DEF RequestRecord
<1>2. ASSUME NEW s \in Sessions, NEW t \in Sessions, RequestClone(c, s, t)
      PROVE  RemovalSound'
  BY <1>2, RemovalRequest DEF RequestClone
<1>3. ASSUME NEW s \in Sessions, NEW kind, NEW from, NEW to,
             RequestRemoval(c, kind, s, from, to),
             kind \in {"prepare", "cancel", "delete"},
             \A p \in from : p \notin {"preparing", "lifting", "deleting"},
             kind = "prepare" => to = "preparing",
             kind = "cancel" => to = "lifting",
             kind = "delete" => to = "deleting"
      PROVE  RemovalSound'
  <2>1. /\ Request(c, kind, s, None)
        /\ removal[s] \notin {"preparing", "lifting", "deleting"}
    BY <1>3 DEF RequestRemoval
  <2>2. removal'[s] = to /\ \A x \in Sessions \ {s} : removal'[x] = removal[x]
    BY <1>3 DEF RequestRemoval, JournalTypeOK, JournalTypes
  <2> QED BY <1>3, <2>1, <2>2, RemovalRequest
<1>4. ASSUME NEW s \in Sessions,
             \/ RequestRemoval(c, "prepare", s, {"none", "stuck"}, "preparing")
             \/ RequestRemoval(c, "cancel", s, {"aborted"}, "lifting")
             \/ RequestRemoval(c, "delete", s, {"committed", "none"}, "deleting")
      PROVE  RemovalSound'
  <2>1. CASE RequestRemoval(c, "prepare", s, {"none", "stuck"}, "preparing")
    BY <1>3, <2>1
  <2>2. CASE RequestRemoval(c, "cancel", s, {"aborted"}, "lifting")
    BY <1>3, <2>2
  <2>3. CASE RequestRemoval(c, "delete", s, {"committed", "none"}, "deleting")
    BY <1>3, <2>3
  <2> QED BY <1>4, <2>1, <2>2, <2>3
<1> QED BY <1>1, <1>2, <1>4 DEF Requests

(* Every step keeps the deletions sound, a crash and a restart included.   *)
LEMMA RemovalNext ==
  ASSUME JournalTypeOK, RemovalSound, [Next]_vars
  PROVE  RemovalSound'
<1>1. CASE Crash
  <2>1. op' = op /\ present' = present BY <1>1 DEF Crash, files
  <2>2. \A d \in Calls : pc'[d] \notin {"waiting", "unlinking"} \cup Filing
    BY <1>1 DEF Crash, InFlight, Holding, Filing, Recording
  <2>3. \A s \in Sessions : removal'[s] = "deleted" => removal[s] = "deleted"
    BY <1>1 DEF Crash
  <2>4. ASSUME NEW s \in Sessions, removal'[s] = "deleted" PROVE OutOfReach(s)'
    BY <2>1, <2>2, <2>3, <2>4 DEF RemovalSound, OutOfReach
  <2> QED BY <2>2, <2>4 DEF RemovalSound, Removing
<1>2. ASSUME NEW s \in Sessions, TransactionEnds(s) PROVE RemovalSound'
  <2>1. /\ removal[s] = "prepared" /\ removal'[s] \in {"committed", "aborted"}
        /\ \A x \in Sessions \ {s} : removal'[x] = removal[x]
        /\ op' = op /\ pc' = pc /\ present' = present /\ fenced' = fenced
    BY <1>2 DEF TransactionEnds, JournalTypeOK, JournalTypes, files, memory
  <2>2. ASSUME NEW c \in Calls, pc'[c] \in {"waiting", "unlinking"}
        PROVE  AtItsPhase(c)'
    <3>1. AtItsPhase(c) /\ op[c].on \in Sessions
      BY <2>1, <2>2 DEF RemovalSound, JournalTypeOK, LockDiscipline
    <3> QED BY <2>1, <3>1 DEF AtItsPhase
  <2>3. \A c \in Calls, x \in Sessions : Removing(c, x)' => Removing(c, x)
    BY <2>1 DEF Removing
  <2>4. \A x \in Sessions : removal'[x] = "deleted" => OutOfReach(x)'
    BY <2>1 DEF RemovalSound, OutOfReach, Uses
  <2>5. \A c \in Calls : pc'[c] = "unlinking" => op'[c].on \in fenced'
    BY <2>1 DEF RemovalSound
  <2> QED BY <2>2, <2>3, <2>4, <2>5 DEF RemovalSound
<1>3. CASE UNCHANGED vars
  BY <1>3, RemovalKept DEF vars, files, memory, RemovalSound
<1> QED BY <1>1, <1>2, <1>3, RemovalRequests, RemovalCall DEF Next, AtRest

(* Before the first call nothing is being deleted.                         *)
LEMMA RemovalInit ==
  ASSUME Init
  PROVE  RemovalSound
BY DEF Init, RemovalSound, Removing

(* The deletions are sound throughout.                                     *)
LEMMA RemovalInvariant == Spec => []RemovalSound
BY RemovalInit, RemovalNext, JournalTypeCorrect, PTL DEF Spec

(* A Session whose journal was deleted gets none again, whoever waited to  *)
(* write to it or to copy onto it, in this process or after a restart.     *)
THEOREM DeletedIsGone == Spec => []DeletedStaysGone
<1>1. RemovalSound => DeletedStaysGone
  BY DEF RemovalSound, OutOfReach, DeletedStaysGone
<1> QED BY <1>1, RemovalInvariant, PTL

-----------------------------------------------------------------------------
(* What a call has returned.  ReturnedIsDurable is not inductive: the      *)
(* record has to be there before its number is returned, and a file that   *)
(* is gone must not come back without it.                                  *)

Own(c, n) == [seq |-> n, by |-> c]

Kept(c, n) ==
  LET s == op[c].on IN
  s \in present /\ n \in DOMAIN lines[s] /\ lines[s][n] = Own(c, n)

Lasting ==
  /\ \A c \in Calls : pc[c] = "written" => num[c] # 0 /\ Kept(c, num[c])
  /\ \A c \in Calls : returned[c] # 0 =>
       /\ pc[c] = "returned"
       /\ removal[op[c].on] = "deleted" \/ Kept(c, returned[c])

(* The record of a call is a whole line.                                   *)
LEMMA OwnIsWhole == \A c \in Calls, n \in Nat : Own(c, n) # Torn
BY JournalAssumption DEF Own, Torn

(* A deletion that has taken the file is never taken back.                 *)
LEMMA DeletedRemains ==
  ASSUME JournalTypeOK, RemovalSound, [Next]_vars, NEW s \in Sessions,
         removal[s] = "deleted"
  PROVE  removal'[s] = "deleted"
<1>1. ASSUME NEW c \in Calls, pc[c] \in {"waiting", "unlinking"},
             op[c].kind \in {"prepare", "cancel", "delete"}
      PROVE  op[c].on # s
  BY <1>1 DEF RemovalSound, AtItsPhase
<1>2. ASSUME NEW c \in Calls, Steps(c) PROVE removal'[s] = "deleted"
  <2>1. CASE CancelledWaiting(c)
    BY <1>1, <2>1
    DEF CancelledWaiting, GivenUp, JournalTypeOK, JournalTypes
  <2>2. CASE PrepareDelete(c) \/ CancelDelete(c)
    BY <1>1, <2>2
    DEF PrepareDelete, CancelDelete, Granted, JournalTypeOK, JournalTypes
  <2>3. CASE Unlinked(c)
    <3>1. op[c].kind = "delete" /\ pc[c] = "unlinking"
      BY <2>3 DEF Unlinked, JournalTypeOK, LockDiscipline
    <3> QED BY <1>1, <2>3, <3>1 DEF Unlinked, JournalTypeOK, JournalTypes
  <2> QED
    BY <1>2, <2>1, <2>2, <2>3
    DEF Steps, RecordBegins, Recovered, Creates, AppendStarts, AppendCompletes,
        RecordReturns, RecordRaises, CloneBegins, Cloned, NotCloned, DeleteBegins
<1>3. ASSUME NEW c \in Calls, Requests(c) PROVE removal'[s] = "deleted"
  BY <1>3 DEF Requests, RequestRecord, RequestClone, RequestRemoval,
              JournalTypeOK, JournalTypes
<1>4. (\E x \in Sessions : TransactionEnds(x)) \/ Crash \/ UNCHANGED vars
        => removal'[s] = "deleted"
  BY DEF TransactionEnds, Crash, vars, JournalTypeOK, JournalTypes
<1> QED BY <1>2, <1>3, <1>4 DEF Next, AtRest

(* A step in which no call returns.                                        *)
LEMMA LastingKept ==
  ASSUME JournalTypeOK, RemovalSound, Lasting, [Next]_vars,
         \A d \in Calls :
           /\ returned'[d] = returned[d]
           /\ returned[d] # 0 => op'[d] = op[d] /\ pc'[d] = "returned"
           /\ pc'[d] = "written" => num'[d] # 0 /\ Kept(d, num[d])'
           /\ returned[d] # 0 /\ Kept(d, returned[d]) =>
                removal'[op[d].on] = "deleted" \/ Kept(d, returned[d])'
  PROVE  Lasting'
<1>1. ASSUME NEW d \in Calls, returned'[d] # 0
      PROVE  /\ pc'[d] = "returned"
             /\ removal'[op'[d].on] = "deleted" \/ Kept(d, returned[d])'
  <2>1. returned[d] # 0 /\ op'[d] = op[d] /\ pc[d] = "returned"
    BY <1>1 DEF Lasting
  <2>2. op[d].on \in Sessions BY <2>1 DEF JournalTypeOK, LockDiscipline
  <2>3. removal[op[d].on] = "deleted" => removal'[op[d].on] = "deleted"
    BY <2>2, DeletedRemains
  <2> QED BY <1>1, <2>1, <2>3 DEF Lasting
<1> QED BY <1>1 DEF Lasting

(* A step that leaves the lines alone.                                     *)
LEMMA LastingAside ==
  ASSUME JournalTypeOK, RemovalSound, Lasting, [Next]_vars,
         lines' = lines, present \subseteq present', returned' = returned,
         \A d \in Calls :
           /\ pc[d] = "idle" \/ op'[d] = op[d]
           /\ pc[d] = "returned" => pc'[d] = "returned"
           /\ pc'[d] = "written" => pc[d] = "written" /\ num'[d] = num[d]
  PROVE  Lasting'
<1>1. ASSUME NEW d \in Calls, op'[d] = op[d], NEW n, Kept(d, n)
      PROVE  Kept(d, n)'
  BY <1>1 DEF Kept
<1>2. ASSUME NEW d \in Calls, pc'[d] = "written"
      PROVE  num'[d] # 0 /\ Kept(d, num[d])'
  <2>1. num[d] # 0 /\ Kept(d, num[d]) /\ op'[d] = op[d] /\ num'[d] = num[d]
    BY <1>2 DEF Lasting
  <2> QED BY <2>1 DEF Kept
<1>3. ASSUME NEW d \in Calls, returned[d] # 0
      PROVE  op'[d] = op[d] /\ pc'[d] = "returned"
  BY <1>3 DEF Lasting
<1>4. ASSUME NEW d \in Calls, returned[d] # 0, Kept(d, returned[d])
      PROVE  Kept(d, returned[d])'
  BY <1>3, <1>4 DEF Kept
<1> QED BY <1>2, <1>3, <1>4, LastingKept

(* A step inside the lock that changes the lines of one file: the records  *)
(* that were in it stay, or the file is deleted.                           *)
LEMMA LastingChange ==
  ASSUME JournalTypeOK, RemovalSound, Lasting, [Next]_vars,
         NEW c \in Calls, NEW x \in Sessions, pc[c] \in Holding,
         op' = op, returned' = returned,
         \A d \in Calls \ {c} : pc'[d] = pc[d],
         pc'[c] = "written" => num'[c] # 0 /\ Kept(c, num[c])',
         \A y \in Sessions \ {x} :
           lines'[y] = lines[y] /\ (y \in present => y \in present'),
         \/ removal'[x] = "deleted"
         \/ \A d \in Calls, n \in Nat :
              op[d].on = x /\ Kept(d, n) => Kept(d, n)'
  PROVE  Lasting'
<1>1. /\ \A d \in Calls \ {c} : pc[d] \notin Holding
      /\ pc[c] # "returned"
  BY HolderAlone DEF Holding, Recording
<1>2. ASSUME NEW d \in Calls, pc'[d] = "written"
      PROVE  num'[d] # 0 /\ Kept(d, num[d])'
  BY <1>1, <1>2 DEF Holding, Recording
<1>3. ASSUME NEW d \in Calls, returned[d] # 0
      PROVE  pc'[d] = "returned"
  BY <1>1, <1>3 DEF Lasting
<1>4. ASSUME NEW d \in Calls, returned[d] # 0, Kept(d, returned[d])
      PROVE  removal'[op[d].on] = "deleted" \/ Kept(d, returned[d])'
  <2>1. op[d].on \in Sessions
    BY <1>4 DEF Lasting, JournalTypeOK, LockDiscipline
  <2>2. returned[d] \in Nat /\ returned'[d] = returned[d]
    BY DEF JournalTypeOK, JournalTypes
  <2>3. PICK n \in Nat : n = returned[d] BY <2>2
  <2>4. Kept(d, n) BY <1>4, <2>3
  <2>5. removal'[op[d].on] = "deleted" \/ Kept(d, n)'
    <3>1. CASE op[d].on = x BY <2>4, <3>1
    <3>2. CASE op[d].on # x BY <2>1, <2>4, <3>2 DEF Kept
    <3> QED BY <3>1, <3>2
  <2> QED BY <2>2, <2>3, <2>5
<1> QED BY <1>2, <1>3, <1>4, LastingKept

(* The beginning of a line is added behind the records of a file.          *)
LEMMA LastingAppendStarts ==
  ASSUME JournalTypeOK, Numbering, RemovalSound, Lasting, [Next]_vars,
         NEW c \in Calls, AppendStarts(c)
  PROVE  Lasting'
<1> DEFINE s == op[c].on
<1> DEFINE f == lines[s]
<1>1. pc[c] \in Holding BY DEF AppendStarts, Holding, Recording
<1>2. s \in Sessions /\ f \in Seq(Line)
  BY <1>1, HolderAlone DEF JournalTypeOK, JournalTypes
<1>3. /\ op' = op /\ returned' = returned /\ present' = present
      /\ \A d \in Calls \ {c} : pc'[d] = pc[d]
      /\ pc'[c] = "half"
  BY DEF AppendStarts, JournalTypeOK, JournalTypes
<1>4. \A y \in Sessions :
        lines'[y] = IF y = s THEN Append(f, Torn) ELSE lines[y]
  BY DEF AppendStarts, JournalTypeOK, JournalTypes
<1>5. Torn \in Line BY DEF Torn, Line
<1>6. /\ \A n \in DOMAIN f : n \in DOMAIN Append(f, Torn)
      /\ \A n \in DOMAIN f : Append(f, Torn)[n] = f[n]
  BY <1>2, <1>5, AppendProperties, LenProperties
<1>7. \A d \in Calls, n \in Nat : op[d].on = s /\ Kept(d, n) => Kept(d, n)'
  BY <1>2, <1>3, <1>4, <1>6 DEF Kept
<1>8. \A y \in Sessions \ {s} :
        lines'[y] = lines[y] /\ (y \in present => y \in present')
  BY <1>3, <1>4
<1> HIDE DEF s
<1> QED BY <1>1, <1>2, <1>3, <1>7, <1>8, LastingChange

(* The line is completed: it is the record of its call, under its number.  *)
LEMMA LastingAppendCompletes ==
  ASSUME JournalTypeOK, Numbering, RemovalSound, Lasting, [Next]_vars,
         NEW c \in Calls, AppendCompletes(c)
  PROVE  Lasting'
<1> DEFINE s == op[c].on
<1> DEFINE f == lines[s]
<1> DEFINE g == [f EXCEPT ![Len(f)] = Own(c, num[c])]
<1>1. pc[c] \in Holding BY DEF AppendCompletes, Holding, Recording
<1>2. s \in Sessions /\ f \in Seq(Line)
  BY <1>1, HolderAlone DEF JournalTypeOK, JournalTypes
<1>3. /\ op' = op /\ returned' = returned /\ present' = present /\ num' = num
      /\ \A d \in Calls \ {c} : pc'[d] = pc[d]
  BY DEF AppendCompletes, JournalTypeOK, JournalTypes
<1>4. HasTorn(f) /\ num[c] = Len(f) /\ s \in present
  BY <1>2 DEF Numbering, Positioned, AppendCompletes
<1>5. /\ DOMAIN f = 1 .. Len(f) /\ Len(f) \in Nat \ {0}
      /\ f[Len(f)] = Torn
  BY <1>2, <1>4, EmptySeq, LenProperties DEF HasTorn
<1>6. DOMAIN g = DOMAIN f /\ g[Len(f)] = Own(c, num[c])
      /\ \A n \in DOMAIN f : n # Len(f) => g[n] = f[n]
  BY <1>5
<1>7. \A y \in Sessions : lines'[y] = IF y = s THEN g ELSE lines[y]
  BY DEF AppendCompletes, Own, JournalTypeOK, JournalTypes
<1> HIDE DEF g
<1>8. \A d \in Calls, n \in Nat : op[d].on = s /\ Kept(d, n) => Kept(d, n)'
  BY <1>2, <1>3, <1>5, <1>6, <1>7, OwnIsWhole DEF Kept
<1>9. num'[c] # 0 /\ Kept(c, num[c])'
  BY <1>2, <1>3, <1>4, <1>5, <1>6, <1>7 DEF Kept
<1>10. \A y \in Sessions \ {s} :
         lines'[y] = lines[y] /\ (y \in present => y \in present')
  BY <1>3, <1>7
<1> HIDE DEF s
<1> QED BY <1>1, <1>2, <1>3, <1>8, <1>9, <1>10, LastingChange

(* The number is returned when its record is written.                      *)
LEMMA LastingReturns ==
  ASSUME JournalTypeOK, RemovalSound, Lasting, [Next]_vars,
         NEW c \in Calls, RecordReturns(c)
  PROVE  Lasting'
<1>1. /\ op' = op /\ lines' = lines /\ present' = present /\ num' = num
      /\ removal' = removal
      /\ pc[c] = "written" /\ pc'[c] = "returned" /\ returned'[c] = num[c]
      /\ \A d \in Calls \ {c} : pc'[d] = pc[d] /\ returned'[d] = returned[d]
  BY DEF RecordReturns, End, files, JournalTypeOK, JournalTypes
<1>2. ASSUME NEW d \in Calls, NEW n
      PROVE  Kept(d, n)' <=> Kept(d, n)
  BY <1>1 DEF Kept
<1>3. num[c] # 0 /\ Kept(c, num[c]) BY <1>1 DEF Lasting
<1>4. ASSUME NEW d \in Calls
      PROVE  /\ pc'[d] = "written" => num'[d] # 0 /\ Kept(d, num[d])'
             /\ returned'[d] # 0 =>
                  /\ pc'[d] = "returned"
                  /\ removal'[op'[d].on] = "deleted" \/ Kept(d, returned[d])'
  <2>1. CASE d = c
    BY <1>1, <1>3, <2>1 DEF Kept
  <2>2. CASE d # c
    BY <1>1, <2>2 DEF Lasting, Kept
  <2> QED BY <2>1, <2>2
<1> QED BY <1>4 DEF Lasting

(* A copy appears where no file was.                                       *)
LEMMA LastingCloned ==
  ASSUME JournalTypeOK, RemovalSound, Lasting, [Next]_vars,
         NEW c \in Calls, Cloned(c)
  PROVE  Lasting'
<1> DEFINE t == op[c].to
<1>1. pc[c] \in Holding BY DEF Cloned, Holding
<1>2. t \in Sessions BY DEF Cloned, JournalTypeOK, LockDiscipline
<1>3. /\ op' = op /\ returned' = returned /\ present' = present \cup {t}
      /\ t \notin present
      /\ \A d \in Calls \ {c} : pc'[d] = pc[d]
      /\ pc'[c] \in {"returned", "raised"}
  BY DEF Cloned, Clonable, End, JournalTypeOK, JournalTypes
<1>4. \A y \in Sessions \ {t} :
        lines'[y] = lines[y] /\ (y \in present => y \in present')
  BY <1>3 DEF Cloned, JournalTypeOK, JournalTypes
<1>5. \A d \in Calls, n \in Nat : op[d].on = t => ~Kept(d, n)
  BY <1>3 DEF Kept
<1> HIDE DEF t
<1> QED BY <1>1, <1>2, <1>3, <1>4, <1>5, LastingChange

(* A file goes away with its deletion, or stays.                           *)
LEMMA LastingUnlinked ==
  ASSUME JournalTypeOK, RemovalSound, Lasting, [Next]_vars,
         NEW c \in Calls, Unlinked(c)
  PROVE  Lasting'
<1> DEFINE s == op[c].on
<1>1. pc[c] \in Holding BY DEF Unlinked, Holding
<1>2. s \in Sessions BY <1>1, HolderAlone
<1>3. /\ op' = op /\ returned' = returned
      /\ \A d \in Calls \ {c} : pc'[d] = pc[d]
      /\ pc'[c] \in {"returned", "raised"}
  BY DEF Unlinked, End, JournalTypeOK, JournalTypes
<1>4. \A y \in Sessions \ {s} :
        lines'[y] = lines[y] /\ (y \in present => y \in present')
  BY DEF Unlinked, files, JournalTypeOK, JournalTypes
<1>5. \/ removal'[s] = "deleted"
      \/ \A d \in Calls, n \in Nat : op[d].on = s /\ Kept(d, n) => Kept(d, n)'
  <2>1. CASE removal' = [removal EXCEPT ![s] = "deleted"]
    BY <1>2, <2>1 DEF JournalTypeOK, JournalTypes
  <2>2. CASE UNCHANGED files
    BY <1>3, <2>2 DEF Kept, files
  <2> QED BY <2>1, <2>2 DEF Unlinked
<1> HIDE DEF s
<1> QED BY <1>1, <1>2, <1>3, <1>4, <1>5, LastingChange

(* Every step of a call keeps what was returned.                           *)
LEMMA LastingCall ==
  ASSUME JournalTypeOK, Numbering, RemovalSound, Lasting, [Next]_vars,
         NEW c \in Calls, Steps(c)
  PROVE  Lasting'
<1>1. CASE AppendStarts(c) BY <1>1, LastingAppendStarts
<1>2. CASE AppendCompletes(c) BY <1>2, LastingAppendCompletes
<1>3. CASE RecordReturns(c) BY <1>3, LastingReturns
<1>4. CASE Cloned(c) BY <1>4, LastingCloned
<1>5. CASE Unlinked(c) BY <1>5, LastingUnlinked
<1>6. ASSUME NEW at, pc' = [pc EXCEPT ![c] = at], at # "written",
             pc[c] # "returned", lines' = lines, present' = present,
             returned' = returned, op' = op,
             \A d \in Calls \ {c} : num'[d] = num[d]
      PROVE  Lasting'
  <2>1. \A d \in Calls : pc'[d] = IF d = c THEN at ELSE pc[d]
    BY <1>6 DEF JournalTypeOK, JournalTypes
  <2> QED BY <1>6, <2>1, LastingAside
<1>7. CASE CancelledWaiting(c)
  BY <1>6, <1>7 DEF CancelledWaiting, files
<1>8. CASE RecordBegins(c)
  <2>1. pc[c] = "waiting" /\ lines' = lines /\ present' = present
        /\ returned' = returned /\ op' = op
    BY <1>8 DEF RecordBegins, Granted, files
  <2>2. \A d \in Calls \ {c} : num'[d] = num[d]
    BY <1>8 DEF RecordBegins, JournalTypeOK, JournalTypes
  <2>3. \E at \in {"raised", "recovering", "appending"} :
          pc' = [pc EXCEPT ![c] = at]
    BY <1>8 DEF RecordBegins, End, Suspend
  <2> QED BY <1>6, <2>1, <2>2, <2>3
<1>9. CASE Recovered(c)
  <2>1. \A d \in Calls \ {c} : num'[d] = num[d]
    BY <1>9 DEF Recovered, JournalTypeOK, JournalTypes
  <2> QED BY <1>6, <1>9, <2>1 DEF Recovered, files
<1>10. CASE Creates(c)
  BY <1>10, LastingAside DEF Creates
<1>11. CASE RecordRaises(c)
  <2>1. pc[c] # "returned" BY <1>11 DEF RecordRaises, Recording
  <2> QED BY <1>6, <1>11, <2>1 DEF RecordRaises, End, files
<1>12. CASE CloneBegins(c)
  <2>1. pc[c] = "waiting" /\ lines' = lines /\ present' = present
        /\ returned' = returned /\ op' = op /\ num' = num
    BY <1>12 DEF CloneBegins, Granted, files
  <2>2. \E at \in {"raised", "cloning"} : pc' = [pc EXCEPT ![c] = at]
    BY <1>12 DEF CloneBegins, End, Suspend
  <2> QED BY <1>6, <2>1, <2>2
<1>13. CASE NotCloned(c)
  <2>1. \E at \in {"returned", "raised"} : pc' = [pc EXCEPT ![c] = at]
    BY <1>13 DEF NotCloned, End
  <2> QED BY <1>6, <1>13, <2>1 DEF NotCloned, files
<1>14. CASE PrepareDelete(c) \/ CancelDelete(c)
  BY <1>6, <1>14 DEF PrepareDelete, CancelDelete, Granted, End, files
<1>15. CASE DeleteBegins(c)
  BY <1>6, <1>15 DEF DeleteBegins, Granted, Suspend, files
<1> QED
  BY <1>1, <1>2, <1>3, <1>4, <1>5, <1>7, <1>8, <1>9, <1>10, <1>11, <1>12,
     <1>13, <1>14, <1>15 DEF Steps

(* Every step keeps what was returned.                                     *)
LEMMA LastingNext ==
  ASSUME JournalTypeOK, Numbering, RemovalSound, Lasting, [Next]_vars
  PROVE  Lasting'
<1>1. ASSUME NEW c \in Calls, Requests(c) PROVE Lasting'
  <2>1. ASSUME NEW kind, NEW s, NEW t, Request(c, kind, s, t)
        PROVE  Lasting'
    <3>1. /\ pc[c] = "idle" /\ pc'[c] = "waiting"
          /\ lines' = lines /\ present' = present /\ returned' = returned
          /\ num' = num
          /\ \A d \in Calls \ {c} : pc'[d] = pc[d] /\ op'[d] = op[d]
      BY <2>1 DEF Request, files, JournalTypeOK, JournalTypes
    <3> QED BY <3>1, LastingAside
  <2> QED
    BY <1>1, <2>1 DEF Requests, RequestRecord, RequestClone, RequestRemoval
<1>2. ASSUME NEW s \in Sessions, TransactionEnds(s) PROVE Lasting'
  BY <1>2, LastingAside DEF TransactionEnds, files
<1>3. CASE Crash
  <2>1. \A d \in Calls : /\ pc'[d] # "written"
                         /\ pc[d] = "returned" => pc'[d] = "returned"
    BY <1>3 DEF Crash, InFlight, Holding, Recording
  <2> QED BY <1>3, <2>1, LastingAside DEF Crash, files
<1>4. CASE UNCHANGED vars
  BY <1>4, LastingAside DEF vars, files
<1> QED BY <1>1, <1>2, <1>3, <1>4, LastingCall DEF Next, AtRest

(* Before the first call nothing was returned.                             *)
LEMMA LastingInit ==
  ASSUME Init
  PROVE  Lasting
BY DEF Init, Lasting

(* What was returned lasts throughout.                                     *)
LEMMA LastingInvariant == Spec => []Lasting
BY LastingInit, LastingNext, JournalTypeCorrect, NumberingInvariant,
   RemovalInvariant, PTL DEF Spec

(* A sequence that a call has returned is that of its own record, and the  *)
(* record stays in the file until the Session is deleted: through failed   *)
(* and cancelled writes, crashes in the middle of one, clones onto other   *)
(* Sessions and deletions of others.                                       *)
THEOREM ReturnedStays == Spec => []ReturnedIsDurable
<1>1. JournalTypeOK /\ RemovalSound /\ Lasting => ReturnedIsDurable
  <2> SUFFICES ASSUME JournalTypeOK, RemovalSound, Lasting, NEW c \in Calls,
                      returned[c] # 0, op[c].on \in present
               PROVE  Kept(c, returned[c])
    BY DEF ReturnedIsDurable, Kept, Own
  <2>1. op[c].on \in Sessions
    BY DEF Lasting, JournalTypeOK, LockDiscipline
  <2> QED BY <2>1 DEF Lasting, RemovalSound, OutOfReach
<1> QED
  BY <1>1, JournalTypeCorrect, RemovalInvariant, LastingInvariant, PTL

(* The lines of a file of numbered records that a reader reaches on its    *)
(* way to a record that is there: all before it, and that one.             *)
LEMMA BoundaryReached ==
  ASSUME NEW f \in Seq(Line), Consecutive(f), NEW h \in DOMAIN f,
         f[h].seq = h
  PROVE  /\ Readable(f, h) /\ h \in Reached(f, h)
<1>1. DOMAIN f = 1 .. Len(f) /\ Len(f) \in Nat BY LenProperties
<1>2. h \in 1 .. Len(f) BY <1>1
<1>3. f[h] # Torn BY <1>2 DEF Torn
<1>4. \A k \in 1 .. h : f[k].seq = k /\ f[k] # Torn
  <2> SUFFICES ASSUME NEW k \in 1 .. h PROVE f[k].seq = k /\ f[k] # Torn
    OBVIOUS
  <2>1. CASE k = h BY <1>3, <2>1
  <2>2. CASE k # h
    <3>1. k \in DOMAIN f /\ k # Len(f) BY <1>1, <1>2, <2>2
    <3>2. f[k].seq = k BY <3>1 DEF Consecutive
    <3> QED BY <3>2 DEF Torn
  <2> QED BY <2>1, <2>2
<1>5. h \in Reached(f, h) BY <1>1, <1>2, <1>4 DEF Reached
<1>6. ASSUME NEW k \in Reached(f, h)
      PROVE  f[k] # Torn /\ (k > 1 => f[k].seq > f[k - 1].seq)
  <2>1. k \in 1 .. Len(f) /\ \A j \in 1 .. k - 1 : f[j].seq < h
    BY <1>1 DEF Reached
  <2>2. k <= h
    <3> SUFFICES ASSUME k > h PROVE FALSE BY <1>2, <2>1
    <3>1. h \in 1 .. k - 1 BY <1>2, <2>1
    <3> QED BY <1>2, <2>1, <3>1
  <2>3. k \in 1 .. h BY <1>2, <2>1, <2>2
  <2>4. k > 1 => k - 1 \in 1 .. h BY <1>2, <2>3
  <2> QED BY <1>2, <1>4, <2>3, <2>4
<1> QED BY <1>5, <1>6 DEF Readable

(* A boundary that a caller was given can be read at any moment after,     *)
(* while a later record is half written and after a crash tore that one.   *)
THEOREM BoundaryIsReadable == Spec => []BoundaryReadable
<1>1. JournalTypeOK /\ SeqsConsecutive /\ ReturnedIsDurable /\ Lasting
        => BoundaryReadable
  <2> SUFFICES ASSUME JournalTypeOK, SeqsConsecutive, ReturnedIsDurable,
                      Lasting, NEW c \in Calls,
                      returned[c] # 0, op[c].on \in present
               PROVE  LET f == lines[op[c].on] IN
                        /\ Readable(f, returned[c])
                        /\ \E k \in Reached(f, returned[c]) :
                             f[k].seq = returned[c]
    BY DEF BoundaryReadable
  <2> DEFINE f == lines[op[c].on]
  <2> DEFINE h == returned[c]
  <2>1. op[c].on \in Sessions
    BY DEF Lasting, JournalTypeOK, LockDiscipline
  <2>2. f \in Seq(Line) /\ Consecutive(f)
    BY <2>1 DEF JournalTypeOK, JournalTypes, SeqsConsecutive
  <2>3. h \in DOMAIN f /\ f[h] = [seq |-> h, by |-> c]
    BY DEF ReturnedIsDurable
  <2> HIDE DEF f, h
  <2>4. f[h].seq = h BY <2>3
  <2>5. Readable(f, h) /\ h \in Reached(f, h)
    BY <2>2, <2>3, <2>4, BoundaryReached
  <2> QED BY <2>4, <2>5 DEF f, h
<1> QED
  BY <1>1, JournalTypeCorrect, RecordsConsecutive, ReturnedStays,
     LastingInvariant, PTL

=============================================================================
