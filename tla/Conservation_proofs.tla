------------------------ MODULE Conservation_proofs ------------------------
(***************************************************************************)
(* Nothing that a user has submitted is lost or served twice, for every    *)
(* number of Runs, callers and inputs.                                     *)
(*                                                                         *)
(* The argument is one of places.  A recorded steer is in a control, among *)
(* the fallbacks of the Session, in the hand of a promotion, in a discard  *)
(* under way, disposed of in the journal, or dropped when its discard      *)
(* could not be written; a step moves it from one place to another.  An    *)
(* accepted item of the queue is in the queue, in the hand of a promotion, *)
(* delivered, withdrawn, or left with a Run behind a closed gate.          *)
(***************************************************************************)
EXTENDS SteerControl_proofs, FiniteSetTheorems

(* The places of a steer.                                                  *)
AtFallback == {"activatingFallback", "abandoning"}
Disposing == {"activated", "discarded"}

Promotes(h, i) == pc[h] \in AtFallback /\ run[promo[h]].carried = i
Disposes(k, i) ==
  k \in DOMAIN journal /\ journal[k].type \in Disposing /\ Occurs(i, journal[k].of)

InControl(i) == \E q \in Runs : Holds(q, i)
InFallbacks(i) == Occurs(i, fallbackQ)
InPromotion(i) == \E h \in Hosts : Promotes(h, i)
InDiscard(i) == \E q \in Runs : Discards(q, i)
Disposed(i) == \E k \in DOMAIN journal : Disposes(k, i)
Dropped(i) == i \in forgotten

AtMostOne(i) ==
  /\ InControl(i) => /\ ~InFallbacks(i) /\ ~InPromotion(i) /\ ~InDiscard(i)
                     /\ ~Disposed(i) /\ ~Dropped(i)
  /\ InFallbacks(i) => /\ ~InPromotion(i) /\ ~InDiscard(i)
                       /\ ~Disposed(i) /\ ~Dropped(i)
  /\ InPromotion(i) => ~InDiscard(i) /\ ~Disposed(i) /\ ~Dropped(i)
  /\ InDiscard(i) => ~Disposed(i) /\ ~Dropped(i)
  /\ Disposed(i) => ~Dropped(i)

AtLeastOne(i) ==
  \/ InControl(i) \/ InFallbacks(i) \/ InPromotion(i) \/ InDiscard(i)
  \/ Disposed(i) \/ Dropped(i)

(* A recorded steer is in exactly one place, once.                         *)
SteerSound(i) ==
  /\ AtMostOne(i)
  /\ pc[i] \in {"notifying", "steered"} /\ shutdown # "closed" => AtLeastOne(i)
  /\ InFallbacks(i) \/ InPromotion(i) \/ Disposed(i) => pc[i] = "steered"
  /\ Dropped(i) => pc[i] \in {"steered", "queued"}
  /\ pc[i] \in {"notifying", "steered"} => Records("user_steer", i) # {}
  /\ \A k, l \in DOMAIN journal : Disposes(k, i) /\ Disposes(l, i) => k = l
  /\ \A k \in DOMAIN journal :
       Disposes(k, i) => \E j \in Records("user_steer", i) : j < k
  /\ \A g, h \in Hosts : Promotes(g, i) /\ Promotes(h, i) => g = h

(* What the queue and its promotions hold are inputs accepted for it.      *)
QueueInputs ==
  /\ \A i \in Input : Occurs(i, queue) => pc[i] = "queued"
  /\ \A q \in Runs : run[q].origin = "queue" =>
       run[q].carried \in Input /\ pc[run[q].carried] = "queued"

SteersSound ==
  /\ IsInjective(fallbackQ) /\ QueueInputs
  /\ \A i \in Input : SteerSound(i)

-----------------------------------------------------------------------------
(* Steps that leave a steer where it is.                                   *)

StaysOpen == shutdown' # "closed" => shutdown # "closed"

(* No disposition is written.                                              *)
NoDisposition ==
  \/ journal' = journal
  \/ \E e : journal' = Append(journal, e) /\ e.type \notin Disposing

(* Nothing about a steer: neither its own record nor its disposition.      *)
NoSteerRecord ==
  \/ journal' = journal
  \/ \E e : /\ journal' = Append(journal, e)
            /\ e.type \notin Disposing \cup {"user_steer"}

(* Input i stays where it is.                                              *)
Stays(i) ==
  /\ InControl(i)' <=> InControl(i)
  /\ InFallbacks(i)' <=> InFallbacks(i)
  /\ InDiscard(i)' <=> InDiscard(i)
  /\ Dropped(i)' <=> Dropped(i)
  /\ \A h \in Hosts : Promotes(h, i)' <=> Promotes(h, i)

(* The journal says of i what it said.                                     *)
SaysTheSame(i) ==
  /\ DOMAIN journal \subseteq DOMAIN journal'
  /\ \A k \in DOMAIN journal' : Disposes(k, i)' <=> Disposes(k, i)
  /\ Records("user_steer", i) \subseteq Records("user_steer", i)'

(* Then it is still in one place.                                          *)
LEMMA StaysSound ==
  ASSUME NEW i \in Input, SteerSound(i), StaysOpen, Stays(i), SaysTheSame(i),
         pc'[i] = pc[i]
  PROVE  SteerSound(i)'
<1>1. Disposed(i)' <=> Disposed(i)
  BY DEF SaysTheSame, Disposed, Disposes
<1>2. InPromotion(i)' <=> InPromotion(i)
  BY DEF Stays, InPromotion
<1>3. AtMostOne(i)' /\ (AtLeastOne(i)' <=> AtLeastOne(i))
  BY <1>1, <1>2 DEF Stays, SteerSound, AtMostOne, AtLeastOne
<1>4. \A k, l \in DOMAIN journal' : Disposes(k, i)' /\ Disposes(l, i)' => k = l
  BY DEF SaysTheSame, SteerSound, Disposes
<1>5. \A k \in DOMAIN journal' :
        Disposes(k, i)' => \E j \in Records("user_steer", i)' : j < k
  BY DEF SaysTheSame, SteerSound, Disposes
<1>6. \A g, h \in Hosts : Promotes(g, i)' /\ Promotes(h, i)' => g = h
  BY DEF Stays, SteerSound
<1> QED
  BY <1>1, <1>2, <1>3, <1>4, <1>5, <1>6
  DEF Stays, SaysTheSame, SteerSound, StaysOpen

(* A record that disposes of nothing, or not of i.                         *)
LEMMA JournalSays ==
  ASSUME journal \in Seq(Record), NEW i \in Input,
         \/ journal' = journal
         \/ \E e : /\ journal' = Append(journal, e)
                   /\ e.type \notin Disposing \/ ~Occurs(i, e.of)
  PROVE  SaysTheSame(i)
<1>1. CASE journal' = journal
  BY <1>1 DEF SaysTheSame, Disposes, Records
<1>2. ASSUME NEW e, journal' = Append(journal, e),
             e.type \notin Disposing \/ ~Occurs(i, e.of)
      PROVE  SaysTheSame(i)
  <2>1. /\ DOMAIN journal = 1 .. Len(journal) /\ Len(journal) \in Nat
        /\ DOMAIN journal' = 1 .. Len(journal) + 1
        /\ \A k \in 1 .. Len(journal) : journal'[k] = journal[k]
        /\ journal'[Len(journal) + 1] = e
    BY <1>2
  <2>2. ASSUME NEW k \in DOMAIN journal' PROVE Disposes(k, i)' <=> Disposes(k, i)
    <3>1. CASE k \in DOMAIN journal BY <2>1, <3>1 DEF Disposes
    <3>2. CASE k = Len(journal) + 1 BY <1>2, <2>1, <3>2 DEF Disposes
    <3> QED BY <2>1, <3>1, <3>2
  <2>3. Records("user_steer", i) \subseteq Records("user_steer", i)'
    BY <2>1 DEF Records
  <2> QED BY <2>1, <2>2, <2>3 DEF SaysTheSame
<1> QED BY <1>1, <1>2

(* A record that disposes of i.                                            *)
LEMMA JournalDisposes ==
  ASSUME journal \in Seq(Record), NEW i \in Input, NEW e,
         journal' = Append(journal, e), e.type \in Disposing, Occurs(i, e.of),
         SteerSound(i), ~Disposed(i), pc[i] = "steered"
  PROVE  /\ Disposed(i)'
         /\ \A k, l \in DOMAIN journal' : Disposes(k, i)' /\ Disposes(l, i)' => k = l
         /\ \A k \in DOMAIN journal' :
              Disposes(k, i)' => \E j \in Records("user_steer", i)' : j < k
         /\ Records("user_steer", i)' # {}
<1>1. /\ DOMAIN journal = 1 .. Len(journal) /\ Len(journal) \in Nat
      /\ DOMAIN journal' = 1 .. Len(journal) + 1
      /\ \A k \in 1 .. Len(journal) : journal'[k] = journal[k]
      /\ journal'[Len(journal) + 1] = e
  OBVIOUS
<1>2. \A k \in DOMAIN journal' : Disposes(k, i)' <=> k = Len(journal) + 1
  <2>1. \A k \in 1 .. Len(journal) : ~Disposes(k, i)'
    BY <1>1 DEF Disposes, Disposed
  <2> QED BY <1>1, <2>1 DEF Disposes
<1>3. PICK j \in Records("user_steer", i) : TRUE BY DEF SteerSound
<1>4. j \in Records("user_steer", i)' /\ j < Len(journal) + 1
  BY <1>1, <1>3 DEF Records
<1> QED BY <1>1, <1>2, <1>4 DEF Disposed

(* The promotions that hold a steer are the same after a step that moves   *)
(* no host on or off the awaits at which they do.                          *)
LEMMA PromotesSame ==
  ASSUME TypeOK, Promotions, promo' = promo, Identities(run'),
         \A h \in Hosts : pc'[h] = pc[h] \/ (pc[h] \notin AtFallback /\ pc'[h] \notin AtFallback)
  PROVE  \A h \in Hosts, i \in Input : Promotes(h, i)' <=> Promotes(h, i)
<1>1. ASSUME NEW h \in Hosts, pc[h] \in AtFallback
      PROVE  promo[h] \in Runs /\ run'[promo[h]].carried = run[promo[h]].carried
  <2>1. pc[h] \in Promoting BY <1>1 DEF AtFallback, Promoting
  <2>2. promo[h] \in Runs BY <2>1 DEF TypeOK, ControlPoints
  <2> QED BY <2>2 DEF Identities, SameIdentity
<1> QED BY <1>1 DEF Promotes

(* A step that is about no steer keeps the invariant.                      *)
LEMMA QuietSteers ==
  ASSUME TypeOK, SteersSound, StaysOpen, QueueInputs', NoDisposition,
         fallbackQ' = fallbackQ, forgotten' = forgotten,
         \A i \in Input : pc'[i] = pc[i],
         \A q \in Runs, i \in Input : /\ Holds(q, i)' <=> Holds(q, i)
                                      /\ Discards(q, i)' <=> Discards(q, i),
         \A h \in Hosts, i \in Input : Promotes(h, i)' <=> Promotes(h, i)
  PROVE  SteersSound'
<1>1. ASSUME NEW i \in Input PROVE SteerSound(i)'
  <2>1. Stays(i)
    BY DEF Stays, InControl, InFallbacks, InDiscard, Dropped
  <2>2. SaysTheSame(i)
    BY JournalSays DEF NoDisposition, TypeOK, StateTypes
  <2> QED BY <2>1, <2>2, StaysSound DEF SteersSound
<1> QED BY <1>1 DEF SteersSound

-----------------------------------------------------------------------------
(* The steps of a Run.                                                     *)

(* Where the end of the "finally" block of r leaves the steers of control  *)
(* c: in the control, among the fallbacks, or in a discard.                *)
LeavesAt(r, c) ==
  \/ /\ fallbackQ' = fallbackQ
     /\ \A i \in Input : (Holds(r, i)' <=> Occurs(i, Steers(c))) /\ ~Discards(r, i)'
  \/ /\ fallbackQ' = fallbackQ \o c.fallback /\ c.pending = <<>>
     /\ AllReady(c.fallback, c) /\ run'[r].status = "completed"
     /\ \A i \in Input : ~Holds(r, i)' /\ ~Discards(r, i)'
  \/ /\ fallbackQ' = fallbackQ /\ AllReady(Steers(c), c)
     /\ \A i \in Input : ~Holds(r, i)' /\ (Discards(r, i)' <=> Occurs(i, Steers(c)))

OthersStay(r) ==
  \A q \in Runs \ {r} : run'[q] = run[q] /\ pc'[q] = pc[q]

(* When the task of a Run settles, its steers stay in its control, become  *)
(* fallbacks or are discarded.                                             *)
LEMMA SettledPlaces ==
  ASSUME TypeOK, NEW r \in Runs, NEW rec \in RunRecord, NEW w,
         Settle(r, rec, w), AllReady(Steers(rec.ctl), rec.ctl)
  PROVE  LeavesAt(r, rec.ctl) /\ OthersStay(r)
<1> DEFINE c == rec.ctl
           a == [rec EXCEPT !.ctl = EmptiedControl(@)]
           b == [a EXCEPT !.staged = Steers(rec.ctl)]
<1>1. /\ run \in [Runs -> RunRecord] /\ r \in Tasks /\ Runs \subseteq Tasks
      /\ pc \in [Tasks -> RunPoints \cup CallerPoints \cup InputPoints]
      /\ c \in Control
  BY DEF TypeOK, StateTypes, ControlPoints, Tasks, Hosts, RunRecord
<1>2. Steers(EmptiedControl(c)) = <<>>
  BY <1>1, ConcatEmptySeq, EmptySeq DEF EmptiedControl, Steers, Control
<1>3. /\ a.ctl = EmptiedControl(c) /\ b.ctl = EmptiedControl(c)
      /\ b.staged = Steers(c) /\ a.status = rec.status
  BY DEF RunRecord
<1>4. \A i \in Input : ~Occurs(i, <<>>) BY DEF Occurs
<1>5. \/ /\ run' = [run EXCEPT ![r] = a] /\ pc' = [pc EXCEPT ![r] = "ending"]
         /\ fallbackQ' = fallbackQ \o c.fallback /\ CanTakeFallbacks(c)
         /\ rec.status = "completed"
      \/ /\ run' = [run EXCEPT ![r] = rec] /\ pc' = [pc EXCEPT ![r] = "aborted"]
         /\ fallbackQ' = fallbackQ
      \/ /\ run' = [run EXCEPT ![r] = a] /\ pc' = [pc EXCEPT ![r] = "ending"]
         /\ fallbackQ' = fallbackQ /\ Steers(c) = <<>>
      \/ /\ run' = [run EXCEPT ![r] = b] /\ pc' = [pc EXCEPT ![r] = "discarding"]
         /\ fallbackQ' = fallbackQ
  BY DEF Settle, Goto
<1> HIDE DEF a, b, c
<1>6. OthersStay(r) BY <1>1, <1>5 DEF OthersStay
<1>7. CASE /\ run' = [run EXCEPT ![r] = a] /\ pc' = [pc EXCEPT ![r] = "ending"]
           /\ fallbackQ' = fallbackQ \o c.fallback /\ CanTakeFallbacks(c)
           /\ rec.status = "completed"
  <2>1. /\ run'[r] = a /\ pc'[r] = "ending" /\ run'[r].status = "completed"
    BY <1>1, <1>3, <1>7
  <2>2. \A i \in Input : ~Holds(r, i)' /\ ~Discards(r, i)'
    BY <1>2, <1>3, <1>4, <2>1 DEF Holds, Discards
  <2> QED BY <1>6, <1>7, <2>1, <2>2 DEF LeavesAt, CanTakeFallbacks, c
<1>8. CASE /\ run' = [run EXCEPT ![r] = rec] /\ pc' = [pc EXCEPT ![r] = "aborted"]
           /\ fallbackQ' = fallbackQ
  <2>1. run'[r] = rec /\ pc'[r] = "aborted" BY <1>1, <1>8
  <2>2. \A i \in Input : (Holds(r, i)' <=> Occurs(i, Steers(c))) /\ ~Discards(r, i)'
    BY <2>1 DEF Holds, Discards, c
  <2> QED BY <1>6, <1>8, <2>2 DEF LeavesAt, c
<1>9. CASE /\ run' = [run EXCEPT ![r] = a] /\ pc' = [pc EXCEPT ![r] = "ending"]
           /\ fallbackQ' = fallbackQ /\ Steers(c) = <<>>
  <2>1. run'[r] = a /\ pc'[r] = "ending" BY <1>1, <1>9
  <2>2. \A i \in Input : (Holds(r, i)' <=> Occurs(i, Steers(c))) /\ ~Discards(r, i)'
    BY <1>2, <1>3, <1>9, <2>1 DEF Holds, Discards
  <2> QED BY <1>6, <1>9, <2>2 DEF LeavesAt, c
<1>10. CASE /\ run' = [run EXCEPT ![r] = b] /\ pc' = [pc EXCEPT ![r] = "discarding"]
            /\ fallbackQ' = fallbackQ
  <2>1. run'[r] = b /\ pc'[r] = "discarding" BY <1>1, <1>10
  <2>2. \A i \in Input : ~Holds(r, i)' /\ (Discards(r, i)' <=> Occurs(i, Steers(c)))
    BY <1>2, <1>3, <1>4, <2>1 DEF Holds, Discards
  <2> QED BY <1>6, <1>10, <2>2 DEF LeavesAt, c
<1> QED BY <1>5, <1>7, <1>8, <1>9, <1>10

(* And when its status becomes final.                                      *)
LEMMA ConcludedPlaces ==
  ASSUME TypeOK, NEW r \in Runs, NEW rec \in RunRecord,
         NEW status \in {"completed", "cancelled", "failed"}, NEW w,
         Conclude(r, status, rec, w)
  PROVE  LeavesAt(r, rec.ctl) /\ OthersStay(r)
<1> DEFINE c == CloseSubmissions(UnbindStream(rec.ctl))
           ended == [rec EXCEPT !.status = status, !.phase = "stopping",
                                !.ctl = c]
<1>1. /\ run \in [Runs -> RunRecord] /\ r \in Tasks /\ Runs \subseteq Tasks
      /\ pc \in [Tasks -> RunPoints \cup CallerPoints \cup InputPoints]
      /\ rec.ctl \in Control
  BY DEF TypeOK, StateTypes, ControlPoints, Tasks, Hosts, RunRecord
<1>2. /\ c.pending = rec.ctl.pending /\ c.fallback = rec.ctl.fallback
      /\ c.ready = rec.ctl.ready /\ c \in Control
  BY <1>1 DEF Control, CloseSubmissions, UnbindStream
<1>3. /\ Steers(c) = Steers(rec.ctl)
      /\ \A s : AllReady(s, c) <=> AllReady(s, rec.ctl)
  BY <1>2 DEF Steers, AllReady
<1> HIDE DEF c
<1>4. ended \in RunRecord /\ ended.ctl = c BY <1>2 DEF RunRecord
<1>5. \/ AllReady(Steers(c), c) /\ Settle(r, ended, w)
      \/ /\ run' = [run EXCEPT ![r] = ended] /\ pc' = [pc EXCEPT ![r] = "waiting"]
         /\ fallbackQ' = fallbackQ
  BY DEF Conclude, Goto, c
<1> HIDE DEF ended
<1>6. CASE AllReady(Steers(c), c) /\ Settle(r, ended, w)
  <2>1. LeavesAt(r, c) /\ OthersStay(r) BY <1>4, <1>6, SettledPlaces
  <2> QED BY <1>2, <1>3, <2>1 DEF LeavesAt
<1>7. CASE /\ run' = [run EXCEPT ![r] = ended] /\ pc' = [pc EXCEPT ![r] = "waiting"]
           /\ fallbackQ' = fallbackQ
  <2>1. OthersStay(r) /\ run'[r] = ended /\ pc'[r] = "waiting"
    BY <1>1, <1>7 DEF OthersStay
  <2>2. \A i \in Input : (Holds(r, i)' <=> Occurs(i, Steers(rec.ctl))) /\ ~Discards(r, i)'
    BY <1>3, <1>4, <2>1 DEF Holds, Discards
  <2> QED BY <1>7, <2>1, <2>2 DEF LeavesAt
<1> QED BY <1>5, <1>6, <1>7

(* The step of r ends with what is left of its control in c, the steers in *)
(* g having left it.                                                       *)
Ends(r, c, g) ==
  /\ pc[r] # "discarding" /\ OthersStay(r) /\ Leaves(c, r) /\ LeavesAt(r, c)
  /\ \A i \in Input : Holds(r, i) <=> Occurs(i, Steers(c)) \/ Occurs(i, g)
  /\ \A i \in Input : Occurs(i, g) => ~Occurs(i, Steers(c)) /\ pc[i] = "steered"

(* A step after which r holds what it held.                                *)
LEMMA EndsSame ==
  ASSUME TypeOK, ControlSound, NEW r \in Runs, pc[r] # "discarding",
         NEW x, NEW at, run' = [run EXCEPT ![r] = x],
         pc' = [pc EXCEPT ![r] = at], at # "discarding", fallbackQ' = fallbackQ,
         \A i \in Input : Occurs(i, Steers(x.ctl)) <=> Holds(r, i)
  PROVE  Ends(r, run[r].ctl, <<>>)
<1>1. /\ run \in [Runs -> RunRecord] /\ r \in Tasks /\ Runs \subseteq Tasks
      /\ pc \in [Tasks -> RunPoints \cup CallerPoints \cup InputPoints]
  BY DEF TypeOK, StateTypes, ControlPoints, Tasks, Hosts
<1>2. run'[r] = x /\ pc'[r] = at /\ OthersStay(r) BY <1>1 DEF OthersStay
<1>3. Leaves(run[r].ctl, r) BY SameSteers
<1>4. LeavesAt(r, run[r].ctl) BY <1>2 DEF LeavesAt, Holds, Discards
<1>5. \A i \in Input : ~Occurs(i, <<>>) BY DEF Occurs
<1> QED BY <1>2, <1>3, <1>4, <1>5 DEF Ends, Holds

(* Every step of a Run before its tail, but for the end of a discard.      *)
LEMMA RunPlaces ==
  ASSUME TypeOK, ControlSound, NEW r \in Runs,
         RunStep(r) \/ AgentFails(r) \/ ApprovalReturns(r),
         ~RunEndNotified(r), ~DiscardRecorded(r)
  PROVE  \/ run' = run /\ pc' = pc /\ fallbackQ' = fallbackQ /\ journal' = journal
         \/ NoSteerRecord /\ \E c \in Control : Ends(r, c, <<>>)
         \/ /\ pc[r] = "activating"
            /\ journal' = Append(journal, [type |-> "activated",
                                           of |-> run[r].staged, run |-> r])
            /\ \E c \in Control : Ends(r, c, run[r].staged)
<1> USE DEF Goto, Unchanged4Settle
<1> DEFINE c == run[r].ctl
           same == \E d \in Control : Ends(r, d, <<>>)
<1>1. /\ run \in [Runs -> RunRecord] /\ run[r] \in RunRecord
      /\ c \in Control /\ r \in Tasks /\ Runs \subseteq Tasks
      /\ pc \in [Tasks -> RunPoints \cup CallerPoints \cup InputPoints]
      /\ run[r].staged \in Seq(Input)
  BY DEF TypeOK, StateTypes, ControlPoints, RunRecord, Tasks, Hosts
<1>2. RunSound(r) BY DEF ControlSound
<1>3. \A i \in Input : Occurs(i, Steers(c)) <=> Holds(r, i) BY DEF Holds
<1>4. ASSUME pc[r] # "discarding", NEW x, NEW at, run' = [run EXCEPT ![r] = x],
             pc' = [pc EXCEPT ![r] = at], at # "discarding", fallbackQ' = fallbackQ,
             x.ctl.pending = c.pending, x.ctl.fallback = c.fallback
      PROVE  same
  <2>1. Steers(x.ctl) = Steers(c) BY <1>4 DEF Steers
  <2> HIDE DEF c
  <2>2. Ends(r, c, <<>>) BY <1>3, <1>4, <2>1, EndsSame DEF c
  <2> QED BY <1>1, <2>2
<1>5. /\ BindStream(c).pending = c.pending /\ BindStream(c).fallback = c.fallback
      /\ UnbindStream(c).pending = c.pending
      /\ UnbindStream(c).fallback = c.fallback
      /\ SealCurrent(c).pending = c.pending /\ SealCurrent(c).fallback = c.fallback
  BY <1>1 DEF Control, BindStream, UnbindStream, SealCurrent
<1>6. ASSUME pc[r] # "discarding", NEW rec \in RunRecord, rec.ctl = c,
             NEW st \in {"completed", "cancelled", "failed"}, NEW w,
             \/ Conclude(r, st, rec, w)
             \/ Settle(r, rec, w) /\ AllReady(Steers(rec.ctl), rec.ctl)
      PROVE  same
  <2>1. LeavesAt(r, c) /\ OthersStay(r)
    BY <1>6, ConcludedPlaces, SettledPlaces
  <2>2. Leaves(c, r) BY SameSteers
  <2>3. \A i \in Input : ~Occurs(i, <<>>) BY DEF Occurs
  <2> HIDE DEF c
  <2>4. Ends(r, c, <<>>) BY <1>3, <1>6, <2>1, <2>2, <2>3 DEF Ends
  <2> QED BY <1>1, <2>4
<1>7. /\ BarrierFailed(run[r]) \in RunRecord /\ BarrierFailed(run[r]).ctl = c
  BY <1>1 DEF RunRecord, BarrierFailed
<1>8. ASSUME NEW t, NEW o, Written(t, "user_message", o, r)
      PROVE  NoSteerRecord
  <2>1. "user_message" \notin Disposing \cup {"user_steer"} BY DEF Disposing
  <2> QED BY <1>8, <2>1 DEF Written, NoSteerRecord
<1>9. journal' = journal => NoSteerRecord BY DEF NoSteerRecord
<1>a. CASE CancelCallback(r)
  BY <1>a DEF CancelCallback, session
<1>b. CASE FirstStep(r)
  <2>1. pc[r] # "discarding" /\ fallbackQ' = fallbackQ /\ journal' = journal
    BY <1>b DEF FirstStep
  <2>2. CASE pc' = [pc EXCEPT ![r] = "agent"] /\ run' = [run EXCEPT ![r] = Streaming(@)]
    <3>1. run' = [run EXCEPT ![r] = Streaming(run[r])] BY <1>1, <2>2
    <3>2. Streaming(run[r]).ctl = BindStream(c)
      BY <1>1 DEF Streaming, RunRecord
    <3> HIDE DEF c, same
    <3> QED BY <1>4, <1>5, <1>9, <2>1, <2>2, <3>1, <3>2 DEF same
  <2>3. CASE run' = run /\ \E at \in {"gated", "recording"} : pc' = [pc EXCEPT ![r] = at]
    <3>1. run' = [run EXCEPT ![r] = run[r]] BY <1>1, <2>3
    <3> QED BY <1>4, <1>9, <2>1, <2>3, <3>1
  <2> QED BY <1>b, <2>2, <2>3 DEF FirstStep
<1>c. CASE NeverStarted(r) \/ CleanupInterrupted(r) \/ RunEndInterrupted(r)
  <2>1. /\ pc[r] # "discarding" /\ fallbackQ' = fallbackQ /\ journal' = journal
        /\ run' = run /\ \E at \in {"aborted", "done"} : pc' = [pc EXCEPT ![r] = at]
    BY <1>c DEF NeverStarted, CleanupInterrupted, RunEndInterrupted, session
  <2>2. run' = [run EXCEPT ![r] = run[r]] BY <1>1, <2>1
  <2> QED BY <1>4, <1>9, <2>1, <2>2
<1>d. CASE UserMessageRecorded(r) \/ GateOpens(r)
  <2>1. pc[r] # "discarding" /\ NoSteerRecord
    BY <1>d, <1>8, <1>9 DEF UserMessageRecorded, GateOpens, WriteFails
  <2>2. CASE /\ pc' = [pc EXCEPT ![r] = "agent"] /\ fallbackQ' = fallbackQ
             /\ \/ run' = [run EXCEPT ![r] = Streaming([@ EXCEPT !.barrier = "ok"])]
                \/ run' = [run EXCEPT ![r] = Streaming(@)]
    <3>1. PICK x : run' = [run EXCEPT ![r] = x] /\
                   x \in {Streaming([run[r] EXCEPT !.barrier = "ok"]), Streaming(run[r])}
      BY <1>1, <2>2
    <3>2. x.ctl = BindStream(c)
      BY <1>1, <3>1 DEF Streaming, RunRecord
    <3> HIDE DEF c, same
    <3>3. same BY <1>4, <1>5, <2>1, <2>2, <3>1, <3>2
    <3> QED BY <2>1, <3>3 DEF same
  <2>3. CASE \/ Conclude(r, "failed", BarrierFailed(run[r]), Unread)
             \/ Conclude(r, "failed", run[r], writers)
    BY <1>1, <1>6, <1>7, <2>1, <2>3
  <2> QED BY <1>d, <2>2, <2>3 DEF UserMessageRecorded, GateOpens
<1>e. CASE StreamEnds(r) \/ ApprovalReturns(r)
  <2> DEFINE x == [run[r] EXCEPT !.ctl = UnbindStream(@),
                                 !.phase = "waiting_approval"]
             y == [run[r] EXCEPT !.ctl = UnbindStream(@)]
             p == IF run[r].phase = "waiting_approval" THEN "running"
                  ELSE run[r].phase
             z == [run[r] EXCEPT !.phase = p]
  <2>0. pc[r] # "discarding" /\ fallbackQ' = fallbackQ /\ journal' = journal
    BY <1>e DEF StreamEnds, ApprovalReturns
  <2>1. \/ run' = [run EXCEPT ![r] = x] /\ pc' = [pc EXCEPT ![r] = "approval"]
        \/ run' = [run EXCEPT ![r] = y] /\ pc' = [pc EXCEPT ![r] = "boundary"]
        \/ run' = [run EXCEPT ![r] = z] /\ pc' = [pc EXCEPT ![r] = "resuming"]
    <3>1. ASSUME StreamEnds(r)
          PROVE  \/ /\ run' = [run EXCEPT ![r] = x]
                    /\ pc' = [pc EXCEPT ![r] = "approval"]
                 \/ /\ run' = [run EXCEPT ![r] = y]
                    /\ pc' = [pc EXCEPT ![r] = "boundary"]
      BY <1>1, <3>1 DEF StreamEnds
    <3>2. ASSUME ApprovalReturns(r)
          PROVE  /\ run' = [run EXCEPT ![r] = z]
                 /\ pc' = [pc EXCEPT ![r] = "resuming"]
      BY <1>1, <3>2 DEF ApprovalReturns
    <3> HIDE DEF x, y, z
    <3> QED BY <1>e, <3>1, <3>2
  <2>2. x.ctl = UnbindStream(c) /\ y.ctl = UnbindStream(c) /\ z.ctl = c
    BY <1>1 DEF RunRecord
  <2> HIDE DEF x, y, z, c, same
  <2>3. same BY <1>4, <1>5, <2>0, <2>1, <2>2
  <2> QED BY <1>9, <2>0, <2>3 DEF same
<1>f. CASE BoundaryEmpty(r)
  <2>0. pc[r] # "discarding" /\ fallbackQ' = fallbackQ /\ journal' = journal
    BY <1>f DEF BoundaryEmpty, AtBoundary
  <2>1. CASE pc[r] = "resuming"
    <3> DEFINE x == [run[r] EXCEPT !.ctl = BindStream(c)]
    <3>1. run' = [run EXCEPT ![r] = x] /\ pc' = [pc EXCEPT ![r] = "agent"]
      BY <1>1, <1>f, <2>1 DEF BoundaryEmpty, Leave
    <3>2. x.ctl = BindStream(c) BY <1>1 DEF RunRecord
    <3> HIDE DEF x, c, same
    <3>3. same BY <1>4, <1>5, <2>0, <3>1, <3>2
    <3> QED BY <1>9, <2>0, <3>3 DEF same
  <2>2. CASE pc[r] = "boundary"
    <3> DEFINE x == [run[r] EXCEPT !.ctl = SealCurrent(c)]
    <3>1. run' = [run EXCEPT ![r] = x] /\ pc' = [pc EXCEPT ![r] = "closing"]
      BY <1>1, <1>f, <2>2 DEF BoundaryEmpty, Leave
    <3>2. x.ctl = SealCurrent(c) BY <1>1 DEF RunRecord
    <3> HIDE DEF x, c, same
    <3>3. same BY <1>4, <1>5, <2>0, <3>1, <3>2
    <3> QED BY <1>9, <2>0, <3>3 DEF same
  <2> QED BY <1>f, <2>1, <2>2 DEF BoundaryEmpty, AtBoundary
<1>g. CASE StagingRefused(r)
  <2> DEFINE d == MovePendingToFallback(c)
             x == [run[r] EXCEPT !.ctl = BindStream(d)]
             y == [run[r] EXCEPT !.ctl = d]
  <2>0. pc[r] # "discarding" /\ fallbackQ' = fallbackQ /\ journal' = journal
    BY <1>g DEF StagingRefused, AtBoundary
  <2>1. /\ \A i \in Input : Occurs(i, Steers(d)) <=> Holds(r, i)
        /\ d \in Control
    BY <1>1, MovedLeaves, ControlOps
  <2>2. \/ run' = [run EXCEPT ![r] = x] /\ pc' = [pc EXCEPT ![r] = "agent"]
        \/ run' = [run EXCEPT ![r] = y] /\ pc' = [pc EXCEPT ![r] = "closing"]
    <3>1. ASSUME pc[r] = "resuming"
          PROVE  /\ run' = [run EXCEPT ![r] = x]
                 /\ pc' = [pc EXCEPT ![r] = "agent"]
      BY <1>1, <1>g, <3>1 DEF StagingRefused, Leave
    <3>2. ASSUME pc[r] # "resuming"
          PROVE  /\ run' = [run EXCEPT ![r] = y]
                 /\ pc' = [pc EXCEPT ![r] = "closing"]
      BY <1>1, <1>g, <3>2 DEF StagingRefused, Leave
    <3> HIDE DEF x, y
    <3> QED BY <3>1, <3>2
  <2> HIDE DEF d
  <2>3. BindStream(d).pending = d.pending /\ BindStream(d).fallback = d.fallback
    BY <2>1 DEF Control, BindStream
  <2>4. Steers(BindStream(d)) = Steers(d) BY <2>3 DEF Steers
  <2>5. x.ctl = BindStream(d) /\ y.ctl = d BY <1>1 DEF RunRecord
  <2> HIDE DEF x, y
  <2>6. \A i \in Input : /\ Occurs(i, Steers(x.ctl)) <=> Holds(r, i)
                         /\ Occurs(i, Steers(y.ctl)) <=> Holds(r, i)
    BY <2>1, <2>4, <2>5
  <2>7. Ends(r, c, <<>>) BY <2>0, <2>2, <2>6, EndsSame
  <2> QED BY <1>1, <1>9, <2>0, <2>7
<1>h. CASE StageSteers(r)
  <2> DEFINE x == [run[r] EXCEPT !.staged = c.pending]
  <2>0. pc[r] # "discarding" /\ fallbackQ' = fallbackQ /\ journal' = journal
    BY <1>h DEF StageSteers, AtBoundary
  <2>1. run' = [run EXCEPT ![r] = x] /\ pc' = [pc EXCEPT ![r] = "activating"]
    BY <1>1, <1>h DEF StageSteers
  <2>2. x.ctl = c BY <1>1 DEF RunRecord
  <2> HIDE DEF x, c, same
  <2>3. same BY <1>4, <2>0, <2>1, <2>2
  <2> QED BY <1>9, <2>0, <2>3 DEF same
<1>i. CASE SteersActivated(r)
  <2> DEFINE g == run[r].staged
             d == MarkStaged(c, Len(run[r].staged))
             rec == [run[r] EXCEPT !.ctl = d, !.staged = <<>>]
             kept == [run[r] EXCEPT !.staged = <<>>]
  <2>1. pc[r] = "activating" /\ pc[r] # "discarding" BY <1>i DEF SteersActivated
  <2>2. /\ Leaves(d, r)
        /\ \A i \in Input : Holds(r, i) <=> Occurs(i, Steers(d)) \/ Occurs(i, g)
        /\ \A i \in Input : Occurs(i, g) => ~Occurs(i, Steers(d))
    BY <2>1, ActivatedLeaves
  <2>3. d \in Control
    <3>1. Len(run[r].staged) \in Nat BY <1>1 DEF RunRecord
    <3> QED BY <1>1, <3>1, MarkStagedType
  <2>4. \A i \in Input : Occurs(i, g) => pc[i] = "steered"
    BY <1>2, <2>1 DEF RunSound, StagedFirst, Occurs
  <2> HIDE DEF d
  <2>5. /\ rec \in RunRecord /\ rec.ctl = d /\ kept \in RunRecord /\ kept.ctl = c
    BY <1>1, <2>3, EmptySeq DEF RunRecord
  <2>6. \/ /\ journal' = Append(journal, [type |-> "activated", of |-> g, run |-> r])
           /\ \/ Conclude(r, "cancelled", rec, Unread)
              \/ /\ run' = [run EXCEPT ![r] = Streaming(rec)] /\ fallbackQ' = fallbackQ
                 /\ pc' = [pc EXCEPT ![r] = "agent"]
        \/ Conclude(r, "failed", kept, Unread) /\ journal' = journal
    BY <1>1, <1>i DEF SteersActivated, Written, WriteFails, d
  <2> HIDE DEF rec, kept
  <2>7. CASE Conclude(r, "failed", kept, Unread) /\ journal' = journal
    BY <1>6, <1>9, <2>1, <2>5, <2>7
  <2>8. ASSUME LeavesAt(r, d), OthersStay(r) PROVE Ends(r, d, g)
    BY <2>1, <2>2, <2>4, <2>8 DEF Ends
  <2>9. ASSUME Conclude(r, "cancelled", rec, Unread) PROVE Ends(r, d, g)
    <3>1. LeavesAt(r, rec.ctl) /\ OthersStay(r) BY <2>5, <2>9, ConcludedPlaces
    <3> QED BY <2>5, <2>8, <3>1
  <2>10. ASSUME run' = [run EXCEPT ![r] = Streaming(rec)], fallbackQ' = fallbackQ,
                pc' = [pc EXCEPT ![r] = "agent"]
         PROVE  Ends(r, d, g)
    <3>1. Streaming(rec).ctl = BindStream(d)
      BY <2>5 DEF Streaming, RunRecord
    <3>2. BindStream(d).pending = d.pending /\ BindStream(d).fallback = d.fallback
      BY <2>3 DEF Control, BindStream
    <3>3. /\ run'[r] = Streaming(rec) /\ pc'[r] = "agent" /\ OthersStay(r)
          /\ Steers(BindStream(d)) = Steers(d)
      BY <1>1, <2>10, <3>2 DEF OthersStay, Steers
    <3>4. LeavesAt(r, d) BY <2>10, <3>1, <3>3 DEF LeavesAt, Holds, Discards
    <3> QED BY <2>8, <3>3, <3>4
  <2> QED BY <2>1, <2>3, <2>6, <2>7, <2>9, <2>10
<1>j. CASE LoopCompletes(r) \/ AgentFails(r)
  <2>1. pc[r] # "discarding" /\ journal' = journal
    BY <1>j DEF LoopCompletes, AgentFails, AtBoundary
  <2>2. \E st \in {"completed", "cancelled", "failed"} : Conclude(r, st, run[r], writers)
    BY <1>j DEF LoopCompletes, AgentFails
  <2>3. same BY <1>1, <1>6, <2>1, <2>2
  <2> QED BY <1>9, <2>1, <2>3
<1>l. CASE RunCancelled(r)
  <2>1. pc[r] # "discarding" /\ NoSteerRecord
    BY <1>8, <1>9, <1>l DEF RunCancelled
  <2>2. same BY <1>6, <1>7, <1>l, <2>1 DEF RunCancelled
  <2> QED BY <2>1, <2>2
<1>m. CASE SubmissionsReady(r)
  <2>1. pc[r] # "discarding" /\ journal' = journal BY <1>m DEF SubmissionsReady
  <2>2. same BY <1>1, <1>6, <1>m, <2>1 DEF SubmissionsReady
  <2> QED BY <1>9, <2>1, <2>2
<1> HIDE DEF c, same
<1> QED
  BY <1>a, <1>b, <1>c, <1>d, <1>e, <1>f, <1>g, <1>h, <1>i, <1>j, <1>l,
     <1>m DEF RunStep

(* The steers move accordingly, each to one place.                         *)
LEMMA EndsSteers ==
  ASSUME TypeOK, ControlSound, SteersSound, QueueInputs', NEW r \in Runs,
         NEW c \in Control, NEW g \in Seq(Input), Ends(r, c, g),
         \/ NoDisposition /\ g = <<>>
         \/ journal' = Append(journal, [type |-> "activated", of |-> g, run |-> r]),
         StaysOpen, forgotten' = forgotten, \A i \in Input : pc'[i] = pc[i],
         \A h \in Hosts, i \in Input : Promotes(h, i)' <=> Promotes(h, i)
  PROVE  SteersSound'
<1> DEFINE H(i) == Occurs(i, Steers(c))
           e == [type |-> "activated", of |-> g, run |-> r]
<1>1. /\ journal \in Seq(Record) /\ fallbackQ \in Seq(Input)
      /\ c.pending \in Seq(Input) /\ c.fallback \in Seq(Input)
      /\ e.type \in Disposing /\ e.of = g
  BY DEF TypeOK, StateTypes, Control, Disposing
<1>2. /\ \A i \in Input : Holds(r, i) <=> H(i) \/ Occurs(i, g)
      /\ \A i \in Input : Occurs(i, g) => ~H(i) /\ pc[i] = "steered"
      /\ pc[r] # "discarding" /\ OthersStay(r) /\ LeavesAt(r, c)
      /\ IsInjective(Steers(c)) /\ c.ready \subseteq run[r].ctl.ready
  BY DEF Ends, Leaves
<1> HIDE DEF e
<1>3. \A i \in Input : H(i) <=> Occurs(i, c.pending) \/ Occurs(i, c.fallback)
  BY <1>1, OccursConcat DEF Steers
<1> HIDE DEF H
<1>4. \A i \in Input : i \in run[r].ctl.ready => pc[i] = "steered"
  BY DEF ControlSound, RunSound
<1>5. ASSUME NEW i \in Input, NEW q \in Runs, q # r
      PROVE  /\ Holds(q, i)' <=> Holds(q, i)
             /\ Discards(q, i)' <=> Discards(q, i)
             /\ Holds(q, i) => ~Holds(r, i)
  BY <1>2, <1>5 DEF OthersStay, Holds, Discards, ControlSound, RunSound
<1>6. \A i \in Input : ~Discards(r, i) BY <1>2 DEF Discards
<1>7. IsInjective(fallbackQ')
  <2>1. CASE fallbackQ' = fallbackQ BY <2>1 DEF SteersSound
  <2>2. CASE fallbackQ' = fallbackQ \o c.fallback
    <3>1. IsInjective(c.fallback) BY <1>1, <1>2, InjectiveConcat DEF Steers
    <3>2. ASSUME NEW i \in Input, Occurs(i, fallbackQ) PROVE ~Occurs(i, c.fallback)
      BY <1>2, <1>3, <3>2
      DEF SteersSound, SteerSound, AtMostOne, InControl, InFallbacks
    <3> QED BY <1>1, <2>2, <3>1, <3>2, InjectiveConcat DEF SteersSound
  <2> QED BY <1>2, <2>1, <2>2 DEF LeavesAt
<1>8. ASSUME NEW i \in Input PROVE SteerSound(i)'
  <2>1. SteerSound(i) /\ pc'[i] = pc[i] /\ (Dropped(i)' <=> Dropped(i))
    BY DEF SteersSound, Dropped
  <2>2. InPromotion(i)' <=> InPromotion(i) BY DEF InPromotion
  <2>3. \A a, h \in Hosts : Promotes(a, i)' /\ Promotes(h, i)' => a = h
    BY <2>1 DEF SteerSound
  <2>4. CASE Occurs(i, g)
    <3>1. Holds(r, i) /\ ~H(i) /\ pc[i] = "steered" /\ InControl(i)
      BY <1>2, <2>4 DEF InControl
    <3>2. /\ ~Holds(r, i)' /\ ~Discards(r, i)'
          /\ InFallbacks(i)' <=> InFallbacks(i)
      <4>1. ~Occurs(i, c.fallback) BY <1>3, <3>1
      <4>2. Occurs(i, fallbackQ \o c.fallback) <=> Occurs(i, fallbackQ)
        BY <1>1, <4>1, OccursConcat
      <4> QED BY <1>2, <3>1, <4>2 DEF LeavesAt, InFallbacks, H
    <3>3. ~InControl(i)' BY <1>5, <3>1, <3>2 DEF InControl
    <3>4. ~InDiscard(i) BY <2>1, <3>1 DEF SteerSound, AtMostOne
    <3>5. ~InDiscard(i)' BY <1>5, <3>2, <3>4 DEF InDiscard
    <3>6. ~Disposed(i) /\ ~InFallbacks(i) /\ ~InPromotion(i) /\ ~Dropped(i)
      BY <2>1, <3>1 DEF SteerSound, AtMostOne
    <3>7. journal' = Append(journal, e)
      BY <2>4 DEF Occurs, e
    <3>8. /\ Disposed(i)'
          /\ \A k, l \in DOMAIN journal' : Disposes(k, i)' /\ Disposes(l, i)' => k = l
          /\ \A k \in DOMAIN journal' :
               Disposes(k, i)' => \E j \in Records("user_steer", i)' : j < k
          /\ Records("user_steer", i)' # {}
      BY <1>1, <2>1, <2>4, <3>1, <3>6, <3>7, JournalDisposes
    <3> QED
      BY <2>1, <2>2, <2>3, <3>1, <3>2, <3>3, <3>5, <3>6, <3>8
      DEF SteerSound, AtMostOne, AtLeastOne
  <2>5. ASSUME ~Occurs(i, g) PROVE SaysTheSame(i)
    <3>1. \/ journal' = journal
          \/ \E x : /\ journal' = Append(journal, x)
                    /\ x.type \notin Disposing \/ ~Occurs(i, x.of)
      BY <1>1, <2>5 DEF NoDisposition, e
    <3> QED BY <1>1, <3>1, JournalSays
  <2>6. CASE ~H(i) /\ ~Occurs(i, g)
    <3>1. ~Holds(r, i) BY <1>2, <2>6
    <3>2. /\ ~Holds(r, i)' /\ ~Discards(r, i)'
          /\ InFallbacks(i)' <=> InFallbacks(i)
      <4>1. ~Occurs(i, c.fallback) BY <1>3, <2>6
      <4>2. Occurs(i, fallbackQ \o c.fallback) <=> Occurs(i, fallbackQ)
        BY <1>1, <4>1, OccursConcat
      <4> QED BY <1>2, <2>6, <4>2 DEF LeavesAt, InFallbacks, H
    <3>3. InControl(i)' <=> InControl(i) BY <1>5, <3>1, <3>2 DEF InControl
    <3>4. InDiscard(i)' <=> InDiscard(i) BY <1>5, <1>6, <3>2 DEF InDiscard
    <3>5. Stays(i) BY <2>1, <3>2, <3>3, <3>4 DEF Stays
    <3> QED BY <2>1, <2>5, <2>6, <3>5, StaysSound
  <2>7. CASE H(i)
    <3>1. Holds(r, i) /\ InControl(i) /\ ~Occurs(i, g) BY <1>2, <2>7 DEF InControl
    <3>2. /\ ~InFallbacks(i) /\ ~InPromotion(i) /\ ~InDiscard(i)
          /\ ~Disposed(i) /\ ~Dropped(i)
      BY <2>1, <3>1 DEF SteerSound, AtMostOne
    <3>3. /\ InControl(i)' <=> Holds(r, i)'
          /\ InDiscard(i)' <=> Discards(r, i)'
      BY <1>5, <3>1, <3>2 DEF InControl, InDiscard
    <3>4. /\ Disposed(i)' <=> Disposed(i)
          /\ \A k, l \in DOMAIN journal' : Disposes(k, i)' /\ Disposes(l, i)' => k = l
          /\ \A k \in DOMAIN journal' :
               Disposes(k, i)' => \E j \in Records("user_steer", i)' : j < k
          /\ Records("user_steer", i) \subseteq Records("user_steer", i)'
      BY <2>1, <2>5, <3>1 DEF SaysTheSame, SteerSound, Disposes, Disposed
    <3>5. \/ Holds(r, i)' /\ ~Discards(r, i)' /\ ~InFallbacks(i)'
          \/ /\ ~Holds(r, i)' /\ ~Discards(r, i)' /\ InFallbacks(i)'
             /\ pc[i] = "steered"
          \/ ~Holds(r, i)' /\ Discards(r, i)' /\ ~InFallbacks(i)'
      <4>1. CASE /\ fallbackQ' = fallbackQ
                 /\ \A j \in Input : (Holds(r, j)' <=> H(j)) /\ ~Discards(r, j)'
        BY <2>7, <3>2, <4>1 DEF InFallbacks
      <4>2. CASE /\ fallbackQ' = fallbackQ \o c.fallback /\ c.pending = <<>>
                 /\ AllReady(c.fallback, c)
                 /\ \A j \in Input : ~Holds(r, j)' /\ ~Discards(r, j)'
        <5>1. Occurs(i, c.fallback) BY <1>3, <2>7, <4>2 DEF Occurs
        <5>2. Occurs(i, fallbackQ \o c.fallback) BY <1>1, <5>1, OccursConcat
        <5>3. i \in c.ready BY <4>2, <5>1 DEF AllReady, Occurs
        <5> QED BY <1>2, <1>4, <4>2, <5>2, <5>3 DEF InFallbacks
      <4>3. CASE /\ fallbackQ' = fallbackQ
                 /\ \A j \in Input : ~Holds(r, j)' /\ (Discards(r, j)' <=> H(j))
        BY <2>7, <3>2, <4>3 DEF InFallbacks
      <4> QED BY <1>2, <4>1, <4>2, <4>3 DEF LeavesAt, H
    <3> QED
      BY <2>1, <2>2, <2>3, <3>2, <3>3, <3>4, <3>5
      DEF SteerSound, AtMostOne, AtLeastOne
  <2> QED BY <2>4, <2>6, <2>7
<1> QED BY <1>7, <1>8 DEF SteersSound

(* What a Run leaves alone before its tail.                                *)
LEMMA RunStepFacts ==
  ASSUME TypeOK, TypeOK', NEW r \in Runs,
         RunStep(r) \/ AgentFails(r) \/ ApprovalReturns(r), ~RunEndNotified(r)
  PROVE  /\ sub' = sub /\ queue' = queue /\ shutdown' = shutdown
         /\ promo' = promo /\ Origins(run') /\ Identities(run')
         /\ started' = started /\ admitted' = admitted
         /\ forgotten' = forgotten \/ DiscardRecorded(r)
         /\ \A i \in Input : pc'[i] = pc[i]
         /\ \A h \in Hosts : \/ pc'[h] = pc[h]
                             \/ pc[h] \notin Promoting /\ pc'[h] \notin Promoting
<1>1. /\ sub' = sub /\ queue' = queue /\ shutdown' = shutdown
      /\ forgotten' = forgotten \/ DiscardRecorded(r)
      /\ admitted' = admitted
  BY DEF RunStep, AgentFails, ApprovalReturns, session, history, Unchanged4Run,
         Unchanged4Settle, Unchanged4Host, CancelCallback, FirstStep,
         NeverStarted, UserMessageRecorded, GateOpens, StreamEnds,
         BoundaryEmpty, StagingRefused, StageSteers, SteersActivated,
         LoopCompletes, RunCancelled, SubmissionsReady, CleanupInterrupted,
         DiscardRecorded, RunEndInterrupted, Conclude, Settle, Deregister
<1>2. /\ promo' = promo /\ Origins(run') /\ Identities(run') /\ started' = started
      /\ \/ pc' = pc
         \/ pc[r] \notin Promoting /\ \E at : pc' = [pc EXCEPT ![r] = at]
  BY IdentityRunStep
<1>3. /\ pc \in [Tasks -> RunPoints \cup CallerPoints \cup InputPoints]
      /\ r \in Hosts /\ Hosts \subseteq Tasks /\ Input \subseteq Tasks /\ r \notin Input
      /\ \A h \in Hosts : /\ promo[h] # None <=> pc[h] \in Promoting
                          /\ promo'[h] # None <=> pc'[h] \in Promoting
  BY RuntimeAssumption DEF TypeOK, ControlPoints, Tasks, Hosts
<1>4. \A i \in Input : pc'[i] = pc[i] BY <1>2, <1>3
<1>5. \A h \in Hosts : \/ pc'[h] = pc[h]
                       \/ pc[h] \notin Promoting /\ pc'[h] \notin Promoting
  BY <1>2, <1>3
<1> QED BY <1>1, <1>2, <1>4, <1>5

(* The end of a discard: every steer in it is disposed of, or dropped.     *)
LEMMA DiscardSteers ==
  ASSUME TypeOK, ControlSound, SteersSound, QueueInputs', NEW r \in Runs,
         DiscardRecorded(r), \A i \in Input : pc'[i] = pc[i],
         \A h \in Hosts, i \in Input : Promotes(h, i)' <=> Promotes(h, i)
  PROVE  SteersSound'
<1> DEFINE g == run[r].staged
           e == [type |-> "discarded", of |-> g, run |-> r]
           x == [run[r] EXCEPT !.staged = <<>>]
<1>1. /\ run' = [run EXCEPT ![r] = x] /\ pc' = [pc EXCEPT ![r] = "ending"]
      /\ fallbackQ' = fallbackQ /\ shutdown' = shutdown /\ pc[r] = "discarding"
      /\ \/ journal' = Append(journal, e) /\ forgotten' = forgotten
         \/ journal' = journal /\ forgotten' = forgotten \cup ToSet(g)
  BY DEF DiscardRecorded, Goto, Written, WriteFails, TypeOK, StateTypes
<1>2. /\ run \in [Runs -> RunRecord] /\ r \in Tasks /\ Runs \subseteq Tasks
      /\ pc \in [Tasks -> RunPoints \cup CallerPoints \cup InputPoints]
      /\ journal \in Seq(Record) /\ e.type \in Disposing /\ e.of = g
  BY DEF TypeOK, StateTypes, ControlPoints, Tasks, Hosts, Disposing
<1>3. x.ctl = run[r].ctl BY <1>2 DEF RunRecord
<1> HIDE DEF x, e
<1>4. /\ run'[r] = x /\ pc'[r] = "ending"
      /\ \A q \in Runs \ {r} : run'[q] = run[q] /\ pc'[q] = pc[q]
  BY <1>1, <1>2
<1>5. \A i \in Input, q \in Runs : Holds(q, i)' <=> Holds(q, i)
  BY <1>3, <1>4 DEF Holds
<1>6. \A i \in Input :
        /\ ~Discards(r, i)' /\ (Discards(r, i) <=> Occurs(i, g))
        /\ \A q \in Runs \ {r} : Discards(q, i)' <=> Discards(q, i)
  BY <1>1, <1>4 DEF Discards
<1>7. \A i \in Input : i \in ToSet(g) <=> Occurs(i, g) BY DEF ToSet, Occurs
<1> HIDE DEF g
<1>8. ASSUME NEW i \in Input PROVE SteerSound(i)'
  <2>1. /\ SteerSound(i) /\ (InControl(i)' <=> InControl(i))
        /\ InFallbacks(i)' <=> InFallbacks(i)
        /\ InPromotion(i)' <=> InPromotion(i)
        /\ pc'[i] = pc[i]
    BY <1>1, <1>5 DEF SteersSound, InControl, InFallbacks, InPromotion
  <2>2. CASE Occurs(i, g)
    <3>1. /\ InDiscard(i) /\ pc[i] = "steered"
          /\ \A q \in Runs \ {r} : ~Discards(q, i)
      BY <1>6, <2>2 DEF InDiscard, ControlSound, RunSound
    <3>2. ~InDiscard(i)' BY <1>6, <3>1 DEF InDiscard
    <3>3. /\ ~InControl(i) /\ ~InFallbacks(i) /\ ~InPromotion(i)
          /\ ~Disposed(i) /\ ~Dropped(i)
      BY <2>1, <3>1 DEF SteerSound, AtMostOne
    <3>4. CASE journal' = Append(journal, e) /\ forgotten' = forgotten
      <4>1. /\ Disposed(i)'
            /\ \A k, l \in DOMAIN journal' : Disposes(k, i)' /\ Disposes(l, i)' => k = l
            /\ \A k \in DOMAIN journal' :
                 Disposes(k, i)' => \E j \in Records("user_steer", i)' : j < k
            /\ Records("user_steer", i)' # {}
        BY <1>2, <2>1, <2>2, <3>1, <3>3, <3>4, JournalDisposes
      <4>2. ~Dropped(i)' BY <3>3, <3>4 DEF Dropped
      <4>3. \A a, h \in Hosts : Promotes(a, i)' /\ Promotes(h, i)' => a = h
        BY <2>1 DEF SteerSound
      <4> QED
        BY <2>1, <3>1, <3>2, <3>3, <4>1, <4>2, <4>3
        DEF SteerSound, AtMostOne, AtLeastOne
    <3>5. CASE journal' = journal /\ forgotten' = forgotten \cup ToSet(g)
      <4>1. Dropped(i)' BY <1>7, <2>2, <3>5 DEF Dropped
      <4>2. SaysTheSame(i) BY <1>2, <3>5, JournalSays
      <4>3. /\ ~Disposed(i)'
            /\ \A k \in DOMAIN journal' : ~Disposes(k, i)'
            /\ Records("user_steer", i)' # {}
        BY <2>1, <3>1, <3>3, <4>2
        DEF SaysTheSame, Disposed, Disposes, SteerSound
      <4>4. \A a, h \in Hosts : Promotes(a, i)' /\ Promotes(h, i)' => a = h
        BY <2>1 DEF SteerSound
      <4> QED
        BY <2>1, <3>1, <3>2, <3>3, <4>1, <4>3, <4>4
        DEF SteerSound, AtMostOne, AtLeastOne
    <3> QED BY <1>1, <3>4, <3>5
  <2>3. CASE ~Occurs(i, g)
    <3>1. InDiscard(i)' <=> InDiscard(i) BY <1>6, <2>3 DEF InDiscard
    <3>2. Dropped(i)' <=> Dropped(i) BY <1>1, <1>7, <2>3 DEF Dropped
    <3>3. SaysTheSame(i) BY <1>1, <1>2, <2>3, JournalSays
    <3>4. Stays(i) BY <2>1, <3>1, <3>2 DEF Stays
    <3>5. StaysOpen BY <1>1 DEF StaysOpen
    <3> QED BY <2>1, <3>3, <3>4, <3>5, StaysSound
  <2> QED BY <2>2, <2>3
<1>9. IsInjective(fallbackQ') BY <1>1 DEF SteersSound
<1> QED BY <1>8, <1>9 DEF SteersSound

(* The inputs of the queue stay what they are.                             *)
LEMMA QueueInputsKept ==
  ASSUME QueueInputs, \A i \in Input : pc[i] = "queued" => pc'[i] = "queued",
         \A i \in Input : Occurs(i, queue') => Occurs(i, queue) \/ pc'[i] = "queued",
         \A q \in Runs : \/ SameIdentity(run'[q], run[q])
                         \/ run'[q].origin = "queue" =>
                              run'[q].carried \in Input /\ pc'[run'[q].carried] = "queued"
  PROVE  QueueInputs'
BY DEF QueueInputs, SameIdentity

(* Every step of a Run before its tail keeps the invariant.                *)
LEMMA RunStepSteers ==
  ASSUME TypeOK, TypeOK', Promotions, ControlSound, SteersSound, NEW r \in Runs,
         RunStep(r) \/ AgentFails(r) \/ ApprovalReturns(r), ~RunEndNotified(r)
  PROVE  SteersSound'
<1>1. /\ queue' = queue /\ shutdown' = shutdown /\ promo' = promo /\ Identities(run')
      /\ forgotten' = forgotten \/ DiscardRecorded(r)
      /\ \A i \in Input : pc'[i] = pc[i]
      /\ \A h \in Hosts : \/ pc'[h] = pc[h]
                          \/ pc[h] \notin Promoting /\ pc'[h] \notin Promoting
  BY RunStepFacts
<1>2. \A h \in Hosts, i \in Input : Promotes(h, i)' <=> Promotes(h, i)
  <2>1. AtFallback \subseteq Promoting BY DEF AtFallback, Promoting
  <2> QED BY <1>1, <2>1, PromotesSame
<1>3. QueueInputs'
  BY <1>1, QueueInputsKept DEF Identities, SteersSound
<1>4. StaysOpen BY <1>1 DEF StaysOpen
<1>5. CASE DiscardRecorded(r)
  BY <1>1, <1>2, <1>3, <1>5, DiscardSteers
<1>6. CASE ~DiscardRecorded(r)
  <2>1. CASE run' = run /\ pc' = pc /\ fallbackQ' = fallbackQ /\ journal' = journal
    <3>1. NoDisposition BY <2>1 DEF NoDisposition
    <3>2. \A q \in Runs, i \in Input : /\ Holds(q, i)' <=> Holds(q, i)
                                       /\ Discards(q, i)' <=> Discards(q, i)
      BY <2>1 DEF Holds, Discards
    <3> QED BY <1>1, <1>2, <1>3, <1>4, <1>6, <2>1, <3>1, <3>2, QuietSteers
  <2>2. ASSUME NoDisposition, NEW c \in Control, Ends(r, c, <<>>)
        PROVE  SteersSound'
    <3>1. <<>> \in Seq(Input) OBVIOUS
    <3> QED BY <1>1, <1>2, <1>3, <1>4, <1>6, <2>2, <3>1, EndsSteers
  <2>3. ASSUME journal' = Append(journal, [type |-> "activated",
                                           of |-> run[r].staged, run |-> r]),
               NEW c \in Control, Ends(r, c, run[r].staged)
        PROVE  SteersSound'
    <3>1. run[r].staged \in Seq(Input) BY DEF TypeOK, StateTypes, RunRecord
    <3> QED BY <1>1, <1>2, <1>3, <1>4, <1>6, <2>3, <3>1, EndsSteers
  <2>4. NoSteerRecord => NoDisposition BY DEF NoSteerRecord, NoDisposition
  <2> QED BY <1>6, <2>1, <2>2, <2>3, <2>4, RunPlaces
<1> QED BY <1>5, <1>6

-----------------------------------------------------------------------------
(* Promotions.                                                             *)

(* Nothing about the steers of a Run differs.                              *)
SameHolding ==
  \A q \in Runs, i \in Input : /\ Holds(q, i)' <=> Holds(q, i)
                               /\ Discards(q, i)' <=> Discards(q, i)

(* A Run that does not exist holds no steer.                               *)
LEMMA AbsentHoldsNothing ==
  ASSUME ControlSound, NEW n \in Runs, pc[n] = "absent"
  PROVE  \A i \in Input : ~Holds(n, i) /\ ~Discards(n, i)
BY DEF ControlSound, RunSound, InputSound, Discards, Accepted, UnderWay

(* The promotion of i by h: h holds i now, and the steers of Runs stay.    *)
LEMMA PromotePlaces ==
  ASSUME TypeOK, Promotions, ControlSound, NEW h \in Hosts,
         pc[h] \notin AtFallback \cup {"discarding", "absent"},
         NEW runs \in [Runs -> RunRecord], SameControls(runs), Identities(runs),
         NEW origin, NEW i \in Input, NEW at \in Promoting,
         Promote(h, origin, i, at, runs), NEW n, n = Next1
  PROVE  /\ SameHolding
         /\ \A g \in Hosts, j \in Input :
              Promotes(g, j)' <=>
                Promotes(g, j) \/ (g = h /\ j = i /\ at \in AtFallback)
         /\ \A j \in Input : pc'[j] = pc[j]
         /\ n \in Runs /\ run'[n].origin = origin /\ run'[n].carried = i
         /\ \A q \in Runs \ {n} : SameIdentity(run'[q], run[q])
<1> DEFINE x == CreatedRun(origin, i, sub[i].behaviour)
<1>1. /\ h \in Runs => pc[h] # "absent"
      /\ run' = [runs EXCEPT ![n] = x] /\ promo' = [promo EXCEPT ![h] = n]
      /\ pc' = [pc EXCEPT ![n] = "created", ![h] = at]
      /\ started \in Nat
  BY DEF Promote, TypeOK, StateTypes
<1>2. n \in Runs /\ h # n BY <1>1, PointsPromote
<1>3. /\ Input \subseteq Tasks /\ Hosts \subseteq Tasks /\ n \in Hosts
      /\ Input \cap Hosts = {} /\ Runs \subseteq Hosts
      /\ pc \in [Tasks -> RunPoints \cup CallerPoints \cup InputPoints]
      /\ promo \in [Hosts -> Runs \cup {None}]
      /\ \A g \in Hosts : promo[g] # None <=> pc[g] \in Promoting
      /\ pc[n] = "absent"
  BY <1>1, <1>2, RuntimeAssumption DEF TypeOK, ControlPoints, Tasks, Hosts, Next1
<1>4. /\ x.origin = origin /\ x.carried = i /\ x.ctl = NewControl /\ x.staged = <<>>
  BY DEF CreatedRun
<1>5. Steers(NewControl) = <<>> /\ \A j : ~Occurs(j, <<>>)
  BY ConcatEmptySeq, EmptySeq DEF NewControl, Steers, Occurs
<1>6. AtFallback \subseteq Promoting BY DEF AtFallback, Promoting
<1>7. started < n BY <1>1 DEF Next1
<1>8. "discarding" \notin Promoting /\ "created" \notin AtFallback
      /\ "absent" \notin AtFallback
  BY DEF Promoting, AtFallback
<1> HIDE DEF x
<1>9. /\ run'[n] = x /\ pc'[n] = "created" /\ pc'[h] = at /\ promo'[h] = n
      /\ \A q \in Runs \ {n} : run'[q] = runs[q]
      /\ \A t \in Tasks \ {n, h} : pc'[t] = pc[t]
      /\ \A g \in Hosts \ {h} : promo'[g] = promo[g]
  BY <1>1, <1>2, <1>3
<1>10. SameHolding
  <2>1. ASSUME NEW q \in Runs, NEW j \in Input, q # n
        PROVE  Holds(q, j)' <=> Holds(q, j)
    <3>1. run'[q].ctl = run[q].ctl BY <1>9, <2>1 DEF SameControls, SameControl
    <3> QED BY <3>1 DEF Holds
  <2>2. ASSUME NEW q \in Runs, NEW j \in Input, q # n
        PROVE  Discards(q, j)' <=> Discards(q, j)
    <3>1. run'[q].staged = run[q].staged BY <1>9, <2>2 DEF SameControls, SameControl
    <3>2. pc'[q] = "discarding" <=> pc[q] = "discarding"
      BY <1>3, <1>8, <1>9, <2>2
    <3> QED BY <3>1, <3>2 DEF Discards
  <2>3. \A j \in Input : ~Holds(n, j)' /\ ~Discards(n, j)'
    BY <1>4, <1>5, <1>9 DEF Holds, Discards
  <2>4. \A j \in Input : ~Holds(n, j) /\ ~Discards(n, j)
    BY <1>2, <1>3, AbsentHoldsNothing
  <2> QED BY <2>1, <2>2, <2>3, <2>4 DEF SameHolding
<1>11. ASSUME NEW g \in Hosts, NEW j \in Input
       PROVE  Promotes(g, j)' <=>
                Promotes(g, j) \/ (g = h /\ j = i /\ at \in AtFallback)
  <2>1. CASE g = h
    <3>1. ~Promotes(g, j) BY <2>1 DEF Promotes
    <3>2. pc'[g] = at /\ run'[promo'[g]].carried = i BY <1>4, <1>9, <2>1
    <3>3. Promotes(g, j)' <=> at \in AtFallback /\ i = j BY <3>2 DEF Promotes
    <3> QED BY <2>1, <3>1, <3>3
  <2>2. CASE g = n BY <1>2, <1>3, <1>6, <1>8, <1>9, <2>2 DEF Promotes
  <2>3. CASE g # h /\ g # n
    <3>1. pc'[g] = pc[g] /\ promo'[g] = promo[g] BY <1>3, <1>9, <2>3
    <3>2. ASSUME pc[g] \in AtFallback
          PROVE  run'[promo[g]].carried = run[promo[g]].carried
      <4>1. promo[g] \in Runs /\ promo[g] <= started
        BY <1>3, <1>6, <3>2 DEF Promotions
      <4>2. promo[g] # n BY <1>1, <1>2, <1>7, <4>1 DEF Runs
      <4> QED BY <1>9, <4>1, <4>2 DEF Identities, SameIdentity
    <3> QED BY <2>3, <3>1, <3>2 DEF Promotes
  <2> QED BY <2>1, <2>2, <2>3
<1>12. \A j \in Input : pc'[j] = pc[j] BY <1>3, <1>9
<1>13. \A q \in Runs \ {n} : SameIdentity(run'[q], run[q])
  BY <1>9 DEF Identities
<1> QED BY <1>2, <1>4, <1>9, <1>10, <1>11, <1>12, <1>13

(* The end of a host: the steers stay.                                     *)
LEMMA EndHostPlaces ==
  ASSUME TypeOK, NEW h \in Hosts, pc[h] \notin AtFallback \cup {"discarding"},
         SameControls(run'), Identities(run'), EndHost(h)
  PROVE  /\ SameHolding
         /\ \A g \in Hosts, j \in Input : Promotes(g, j)' <=> Promotes(g, j)
         /\ \A j \in Input : pc'[j] = pc[j]
<1>1. /\ Input \subseteq Tasks /\ Hosts \subseteq Tasks
      /\ Input \cap Hosts = {} /\ Runs \subseteq Hosts
      /\ pc \in [Tasks -> RunPoints \cup CallerPoints \cup InputPoints]
      /\ promo \in [Hosts -> Runs \cup {None}]
      /\ \A g \in Hosts : promo[g] # None <=> pc[g] \in Promoting
  BY RuntimeAssumption DEF TypeOK, ControlPoints, Tasks, Hosts
<1>2. /\ pc'[h] \in {"done", "idle"}
      /\ \A t \in Tasks \ {h} : pc'[t] = pc[t]
      /\ \A g \in Hosts \ {h} : promo'[g] = promo[g]
  BY <1>1 DEF EndHost
<1>3. SameHolding
  <2>1. ASSUME NEW q \in Runs, NEW j \in Input PROVE Holds(q, j)' <=> Holds(q, j)
    <3>1. run'[q].ctl = run[q].ctl BY DEF SameControls, SameControl
    <3> QED BY <3>1 DEF Holds
  <2>2. ASSUME NEW q \in Runs, NEW j \in Input PROVE Discards(q, j)' <=> Discards(q, j)
    <3>1. run'[q].staged = run[q].staged BY DEF SameControls, SameControl
    <3>2. pc'[q] = "discarding" <=> pc[q] = "discarding" BY <1>1, <1>2
    <3> QED BY <3>1, <3>2 DEF Discards
  <2> QED BY <2>1, <2>2 DEF SameHolding
<1>4. AtFallback \subseteq Promoting /\ "done" \notin AtFallback /\ "idle" \notin AtFallback
  BY DEF AtFallback, Promoting
<1>5. ASSUME NEW g \in Hosts, NEW j \in Input
      PROVE  Promotes(g, j)' <=> Promotes(g, j)
  <2>1. CASE g = h BY <1>2, <1>4, <2>1 DEF Promotes
  <2>2. CASE g # h
    <3>1. pc'[g] = pc[g] /\ promo'[g] = promo[g] BY <1>1, <1>2, <2>2
    <3>2. ASSUME pc[g] \in AtFallback
          PROVE  run'[promo[g]].carried = run[promo[g]].carried
      <4>1. promo[g] \in Runs BY <1>1, <1>4, <3>2
      <4> QED BY <4>1 DEF Identities, SameIdentity
    <3> QED BY <3>1, <3>2 DEF Promotes
  <2> QED BY <2>1, <2>2
<1>6. \A j \in Input : pc'[j] = pc[j] BY <1>1, <1>2
<1> QED BY <1>3, <1>5, <1>6

(* A promotion from the queue, or none, keeps the invariant.               *)
LEMMA QueueSteers ==
  ASSUME TypeOK, Promotions, ControlSound, SteersSound, NEW h \in Hosts,
         pc[h] \notin AtFallback \cup {"discarding", "absent"},
         NEW runs \in [Runs -> RunRecord], SameControls(runs), Identities(runs),
         NEW isPaused, NEW holder,
         \/ NoPromotion(h, runs) /\ queue' = queue
         \/ TryPromoteQueue(h, runs, isPaused, holder),
         fallbackQ' = fallbackQ, journal' = journal, forgotten' = forgotten,
         StaysOpen
  PROVE  SteersSound'
<1>1. NoDisposition BY DEF NoDisposition
<1>2. CASE NoPromotion(h, runs) /\ queue' = queue
  <2>1. run' = runs /\ EndHost(h) BY <1>2 DEF NoPromotion
  <2>2. /\ SameHolding
        /\ \A g \in Hosts, j \in Input : Promotes(g, j)' <=> Promotes(g, j)
        /\ \A j \in Input : pc'[j] = pc[j]
    BY <2>1, EndHostPlaces
  <2>3. QueueInputs'
    BY <1>2, <2>1, <2>2, QueueInputsKept DEF Identities, SteersSound
  <2> QED BY <1>1, <2>2, <2>3, QuietSteers DEF SameHolding
<1>3. CASE /\ queue # <<>> /\ Promote(h, "queue", Head(queue), "yielding", runs)
           /\ queue' = Tail(queue)
  <2>1. queue \in Seq(Input) /\ Head(queue) \in Input
    BY <1>3 DEF TypeOK, StateTypes
  <2>2. "yielding" \in Promoting /\ "yielding" \notin AtFallback
    BY DEF Promoting, AtFallback
  <2> PICK n, i : n = Next1 /\ i = Head(queue) OBVIOUS
  <2> DEFINE at == "yielding"
             o == "queue"
  <2>7. i \in Input /\ at \in Promoting /\ Promote(h, o, i, at, runs)
    BY <1>3, <2>1, <2>2
  <2> HIDE DEF at, o
  <2>8. /\ SameHolding
        /\ \A g \in Hosts, j \in Input :
             Promotes(g, j)' <=> Promotes(g, j) \/ (g = h /\ j = i /\ at \in AtFallback)
        /\ \A j \in Input : pc'[j] = pc[j]
        /\ n \in Runs /\ run'[n].origin = o /\ run'[n].carried = i
        /\ \A q \in Runs \ {n} : SameIdentity(run'[q], run[q])
    BY <2>7, PromotePlaces
  <2>3. /\ SameHolding
        /\ \A g \in Hosts, j \in Input : Promotes(g, j)' <=> Promotes(g, j)
        /\ \A j \in Input : pc'[j] = pc[j]
        /\ n \in Runs /\ run'[n].origin = "queue"
        /\ run'[n].carried = i
        /\ \A q \in Runs \ {n} : SameIdentity(run'[q], run[q])
    BY <2>2, <2>8 DEF at, o
  <2>4. \A j \in Input : Occurs(j, queue) <=> j = i \/ Occurs(j, Tail(queue))
    BY <1>3, <2>1, OccursTail
  <2>5. pc[i] = "queued" BY <2>1, <2>4 DEF SteersSound, QueueInputs
  <2>6. QueueInputs'
    BY <1>3, <2>1, <2>3, <2>4, <2>5, QueueInputsKept DEF SteersSound
  <2> QED BY <1>1, <2>3, <2>6, QuietSteers DEF SameHolding
<1> QED BY <1>2, <1>3 DEF TryPromoteQueue

(* The promotion of a fallback: h holds it, and the steers of Runs stay.    *)
LEMMA FallbackPromoted ==
  ASSUME TypeOK, Promotions, ControlSound, NEW h \in Hosts,
         pc[h] \notin AtFallback \cup {"discarding", "absent"},
         NEW i \in Input, NEW n, n = Next1,
         Promote(h, "steer", i, "activatingFallback", run)
  PROVE  /\ SameHolding
         /\ \A g \in Hosts, j \in Input :
              Promotes(g, j)' <=> Promotes(g, j) \/ (g = h /\ j = i)
         /\ \A j \in Input : pc'[j] = pc[j]
         /\ n \in Runs /\ run'[n].origin = "steer"
         /\ \A q \in Runs \ {n} : SameIdentity(run'[q], run[q])
<1> DEFINE at == "activatingFallback"
           o == "steer"
<1>1. at \in Promoting /\ at \in AtFallback
  BY DEF Promoting, AtFallback
<1>2. Promote(h, o, i, at, run) OBVIOUS
<1> HIDE DEF at, o
<1>3. run \in [Runs -> RunRecord] /\ SameControls(run) /\ Identities(run)
  BY DEF TypeOK, StateTypes, SameControls, SameControl, Identities, SameIdentity
<1>4. /\ SameHolding
      /\ \A g \in Hosts, j \in Input :
           Promotes(g, j)' <=> Promotes(g, j) \/ (g = h /\ j = i /\ at \in AtFallback)
      /\ \A j \in Input : pc'[j] = pc[j]
      /\ n \in Runs /\ run'[n].origin = o /\ run'[n].carried = i
      /\ \A q \in Runs \ {n} : SameIdentity(run'[q], run[q])
  BY <1>1, <1>2, <1>3, PromotePlaces
<1> QED BY <1>1, <1>4 DEF o

(* The promotion of the first fallback: it moves from the Session to the   *)
(* hand of the host.                                                       *)
LEMMA PendingSteers ==
  ASSUME TypeOK, Promotions, ControlSound, SteersSound, NEW h \in Hosts,
         pc[h] \notin AtFallback \cup {"discarding", "absent"}, NEW holder,
         TryPromotePending(h, run, holder),
         journal' = journal, forgotten' = forgotten, StaysOpen
  PROVE  SteersSound'
<1>1. run \in [Runs -> RunRecord] /\ SameControls(run) /\ Identities(run)
  BY DEF TypeOK, StateTypes, SameControls, SameControl, Identities, SameIdentity
<1>2. CASE NoPromotion(h, run) /\ fallbackQ' = fallbackQ /\ queue' = queue
  BY <1>1, <1>2, QueueSteers
<1>3. CASE TryPromoteQueue(h, run, paused, holder) /\ fallbackQ' = fallbackQ
  BY <1>1, <1>3, QueueSteers
<1>4. CASE /\ fallbackQ # <<>> /\ queue' = queue /\ fallbackQ' = Tail(fallbackQ)
           /\ Promote(h, "steer", Head(fallbackQ), "activatingFallback", run)
  <2> PICK n, i : n = Next1 /\ i = Head(fallbackQ) OBVIOUS
  <2>1. fallbackQ \in Seq(Input) /\ i \in Input
    BY <1>4 DEF TypeOK, StateTypes
  <2>2. Promote(h, "steer", i, "activatingFallback", run) BY <1>4
  <2>3. /\ SameHolding
        /\ \A g \in Hosts, j \in Input :
             Promotes(g, j)' <=> Promotes(g, j) \/ (g = h /\ j = i)
        /\ \A j \in Input : pc'[j] = pc[j]
        /\ n \in Runs /\ run'[n].origin = "steer"
        /\ \A q \in Runs \ {n} : SameIdentity(run'[q], run[q])
    BY <2>1, <2>2, FallbackPromoted
  <2>6. QueueInputs'
    <3>1. \A q \in Runs : \/ SameIdentity(run'[q], run[q])
                          \/ run'[q].origin # "queue"
      BY <2>3
    <3>2. queue' = queue /\ \A j \in Input : pc'[j] = pc[j] BY <1>4, <2>3
    <3> QED BY <3>1, <3>2 DEF SteersSound, QueueInputs, SameIdentity
  <2>7. /\ IsInjective(fallbackQ) /\ IsInjective(Tail(fallbackQ))
        /\ ~Occurs(i, Tail(fallbackQ))
        /\ \A j : Occurs(j, fallbackQ) <=> j = i \/ Occurs(j, Tail(fallbackQ))
    BY <1>4, <2>1, InjectiveTail, OccursTail DEF SteersSound
  <2>8. ASSUME NEW j \in Input PROVE SteerSound(j)'
    <3>1. /\ SteerSound(j) /\ SaysTheSame(j) /\ pc'[j] = pc[j]
          /\ InControl(j)' <=> InControl(j)
          /\ InDiscard(j)' <=> InDiscard(j)
          /\ Dropped(j)' <=> Dropped(j)
      BY <2>3, JournalSays
      DEF SteersSound, TypeOK, StateTypes, SameHolding, InControl, InDiscard, Dropped
    <3>2. CASE j # i
      <4>1. Stays(j) BY <1>4, <2>3, <2>7, <3>1, <3>2 DEF Stays, InFallbacks
      <4> QED BY <3>1, <4>1, StaysSound
    <3>3. CASE j = i
      <4>1. /\ InFallbacks(j) /\ ~InFallbacks(j)'
        BY <1>4, <2>7, <3>3 DEF InFallbacks
      <4>2. ~InPromotion(j) BY <3>1, <4>1 DEF SteerSound, AtMostOne
      <4>3. \A g \in Hosts : Promotes(g, j)' <=> g = h
        BY <2>3, <3>3, <4>2 DEF InPromotion
      <4>4. InPromotion(j)' BY <4>3 DEF InPromotion
      <4>5. /\ Disposed(j)' <=> Disposed(j)
            /\ \A k, l \in DOMAIN journal' : Disposes(k, j)' /\ Disposes(l, j)' => k = l
            /\ \A k \in DOMAIN journal' :
                 Disposes(k, j)' => \E m \in Records("user_steer", j)' : m < k
            /\ Records("user_steer", j) \subseteq Records("user_steer", j)'
        BY <3>1 DEF SaysTheSame, SteerSound, Disposes, Disposed
      <4> QED
        BY <3>1, <4>1, <4>2, <4>3, <4>4, <4>5
        DEF SteerSound, AtMostOne, AtLeastOne
    <3> QED BY <3>2, <3>3
  <2> QED BY <1>4, <2>6, <2>7, <2>8 DEF SteersSound
<1> QED BY <1>2, <1>3, <1>4 DEF TryPromotePending

-----------------------------------------------------------------------------
(* The host tasks.                                                         *)

(* Any input of which nothing is said but what it was.                     *)
LEMMA StaysWhere ==
  ASSUME TypeOK, SteersSound, SameHolding, StaysOpen, NEW i \in Input,
         journal' = journal \/ \E e : /\ journal' = Append(journal, e)
                                      /\ e.type \notin Disposing \/ ~Occurs(i, e.of),
         fallbackQ' = fallbackQ, i \in forgotten' <=> i \in forgotten,
         pc'[i] = pc[i],
         \A h \in Hosts : Promotes(h, i)' <=> Promotes(h, i)
  PROVE  SteerSound(i)'
<1>1. SteerSound(i) BY DEF SteersSound
<1>2. SaysTheSame(i) BY JournalSays DEF TypeOK, StateTypes
<1>3. Stays(i)
  BY DEF Stays, SameHolding, InControl, InFallbacks, InDiscard, Dropped
<1> QED BY <1>1, <1>2, <1>3, StaysSound

(* The disposition of the steer that host h holds: the journal has it, or  *)
(* it is dropped because the journal could not be written.                 *)
LEMMA DisposeSteers ==
  ASSUME TypeOK, SteersSound, QueueInputs', SameHolding, StaysOpen,
         NEW h \in Hosts, NEW i \in Input, Promotes(h, i), NEW e,
         e.type \in Disposing, e.of = <<i>>, fallbackQ' = fallbackQ,
         \/ journal' = Append(journal, e) /\ forgotten' = forgotten
         \/ journal' = journal /\ forgotten' = forgotten \cup {i},
         \A j \in Input : pc'[j] = pc[j],
         \A g \in Hosts, j \in Input :
           Promotes(g, j)' <=> Promotes(g, j) /\ g # h
  PROVE  SteersSound'
<1>1. SteerSound(i) /\ journal \in Seq(Record) BY DEF SteersSound, TypeOK, StateTypes
<1>2. InPromotion(i) BY DEF InPromotion
<1>3. /\ ~InControl(i) /\ ~InFallbacks(i) /\ ~InDiscard(i)
      /\ ~Disposed(i) /\ ~Dropped(i) /\ pc[i] = "steered"
  BY <1>1, <1>2 DEF SteerSound, AtMostOne
<1>4. \A g \in Hosts : ~Promotes(g, i)' BY <1>1 DEF SteerSound
<1>5. Occurs(i, e.of) /\ \A j : Occurs(j, e.of) => j = i BY DEF Occurs
<1>6. SteerSound(i)'
  <2>1. /\ ~InControl(i)' /\ ~InFallbacks(i)' /\ ~InDiscard(i)' /\ ~InPromotion(i)'
    BY <1>3, <1>4
    DEF SameHolding, InControl, InFallbacks, InDiscard, InPromotion
  <2>2. CASE journal' = Append(journal, e) /\ forgotten' = forgotten
    <3>1. /\ Disposed(i)'
          /\ \A k, l \in DOMAIN journal' : Disposes(k, i)' /\ Disposes(l, i)' => k = l
          /\ \A k \in DOMAIN journal' :
               Disposes(k, i)' => \E j \in Records("user_steer", i)' : j < k
          /\ Records("user_steer", i)' # {}
      BY <1>1, <1>3, <1>5, <2>2, JournalDisposes
    <3>2. ~Dropped(i)' BY <1>3, <2>2 DEF Dropped
    <3> QED
      BY <1>3, <1>4, <2>1, <3>1, <3>2 DEF SteerSound, AtMostOne, AtLeastOne
  <2>3. CASE journal' = journal /\ forgotten' = forgotten \cup {i}
    <3>1. Dropped(i)' BY <2>3 DEF Dropped
    <3>2. SaysTheSame(i) BY <1>1, <2>3, JournalSays
    <3>3. /\ ~Disposed(i)'
          /\ \A k \in DOMAIN journal' : ~Disposes(k, i)'
          /\ Records("user_steer", i)' # {}
      BY <1>1, <1>3, <3>2 DEF SaysTheSame, Disposed, Disposes, SteerSound
    <3> QED
      BY <1>3, <1>4, <2>1, <3>1, <3>3 DEF SteerSound, AtMostOne, AtLeastOne
  <2> QED BY <2>2, <2>3
<1>7. ASSUME NEW j \in Input, j # i PROVE SteerSound(j)'
  <2>1. ~Promotes(h, j) BY <1>7 DEF Promotes
  <2>2. \A g \in Hosts : Promotes(g, j)' <=> Promotes(g, j) BY <2>1
  <2>3. j \in forgotten' <=> j \in forgotten BY <1>7
  <2>4. ~Occurs(j, e.of) BY <1>5, <1>7
  <2>5. journal' = journal \/ \E x : /\ journal' = Append(journal, x)
                                     /\ x.type \notin Disposing \/ ~Occurs(j, x.of)
    BY <2>4
  <2> QED BY <2>2, <2>3, <2>5, StaysWhere
<1> QED BY <1>6, <1>7 DEF SteersSound

(* A step of host h that keeps the controls.                               *)
LEMMA HostPlaces ==
  ASSUME TypeOK, NEW h \in Hosts, pc[h] \in Promoting, SameControls(run'),
         Identities(run'), NEW at \in Promoting \cup {"done", "idle"},
         pc' = [pc EXCEPT ![h] = at],
         \/ promo' = promo
         \/ promo' = [promo EXCEPT ![h] = None] /\ at \in {"done", "idle"}
  PROVE  /\ SameHolding /\ \A i \in Input : pc'[i] = pc[i]
         /\ \A g \in Hosts, i \in Input :
              Promotes(g, i)' <=>
                IF g = h THEN at \in AtFallback /\ run[promo[h]].carried = i
                ELSE Promotes(g, i)
<1>1. /\ Input \subseteq Tasks /\ Hosts \subseteq Tasks
      /\ Input \cap Hosts = {} /\ Runs \subseteq Hosts
      /\ pc \in [Tasks -> RunPoints \cup CallerPoints \cup InputPoints]
      /\ promo \in [Hosts -> Runs \cup {None}]
      /\ \A g \in Hosts : promo[g] # None <=> pc[g] \in Promoting
  BY RuntimeAssumption DEF TypeOK, ControlPoints, Tasks, Hosts
<1>2. /\ "discarding" \notin Promoting \cup {"done", "idle"}
      /\ AtFallback \subseteq Promoting
      /\ "done" \notin AtFallback /\ "idle" \notin AtFallback
  BY DEF AtFallback, Promoting
<1>3. pc'[h] = at /\ \A t \in Tasks \ {h} : pc'[t] = pc[t] BY <1>1
<1>4. SameHolding
  <2>1. ASSUME NEW q \in Runs, NEW j \in Input PROVE Holds(q, j)' <=> Holds(q, j)
    <3>1. run'[q].ctl = run[q].ctl BY DEF SameControls, SameControl
    <3> QED BY <3>1 DEF Holds
  <2>2. ASSUME NEW q \in Runs, NEW j \in Input PROVE Discards(q, j)' <=> Discards(q, j)
    <3>1. run'[q].staged = run[q].staged BY DEF SameControls, SameControl
    <3>2. pc'[q] = "discarding" <=> pc[q] = "discarding" BY <1>1, <1>2, <1>3
    <3> QED BY <3>1, <3>2 DEF Discards
  <2> QED BY <2>1, <2>2 DEF SameHolding
<1>5. ASSUME NEW g \in Hosts, NEW i \in Input, g # h
      PROVE  Promotes(g, i)' <=> Promotes(g, i)
  <2>1. pc'[g] = pc[g] /\ promo'[g] = promo[g] BY <1>1, <1>3, <1>5
  <2>2. ASSUME pc[g] \in AtFallback
        PROVE  run'[promo[g]].carried = run[promo[g]].carried
    <3>1. promo[g] \in Runs BY <1>1, <1>2, <2>2
    <3> QED BY <3>1 DEF Identities, SameIdentity
  <2> QED BY <2>1, <2>2 DEF Promotes
<1>6. ASSUME NEW i \in Input
      PROVE  Promotes(h, i)' <=> at \in AtFallback /\ run[promo[h]].carried = i
  <2>1. CASE at \notin AtFallback BY <1>3, <2>1 DEF Promotes
  <2>2. CASE at \in AtFallback
    <3>1. promo'[h] = promo[h] /\ promo[h] \in Runs BY <1>1, <1>2, <2>2
    <3>2. run'[promo[h]].carried = run[promo[h]].carried
      BY <3>1 DEF Identities, SameIdentity
    <3> QED BY <1>3, <2>2, <3>1, <3>2 DEF Promotes
  <2> QED BY <2>1, <2>2
<1>7. \A i \in Input : pc'[i] = pc[i] BY <1>1, <1>3
<1> QED BY <1>4, <1>5, <1>6, <1>7

(* A step of host h that has no steer in hand, before or after.            *)
LEMMA IdleHostSteers ==
  ASSUME TypeOK, SteersSound, NEW h \in Hosts, pc[h] \in Promoting \ AtFallback,
         SameControls(run'), Identities(run'),
         NEW at \in (Promoting \cup {"done", "idle"}) \ AtFallback,
         pc' = [pc EXCEPT ![h] = at],
         \/ promo' = promo
         \/ promo' = [promo EXCEPT ![h] = None] /\ at \in {"done", "idle"},
         \A i \in Input : Occurs(i, queue') => Occurs(i, queue) \/ pc[i] = "queued",
         NoDisposition, fallbackQ' = fallbackQ, forgotten' = forgotten, StaysOpen
  PROVE  SteersSound'
<1>1. /\ SameHolding /\ \A i \in Input : pc'[i] = pc[i]
      /\ \A g \in Hosts, i \in Input :
           Promotes(g, i)' <=>
             IF g = h THEN at \in AtFallback /\ run[promo[h]].carried = i
             ELSE Promotes(g, i)
  BY HostPlaces
<1>2. \A g \in Hosts, i \in Input : Promotes(g, i)' <=> Promotes(g, i)
  <2>1. \A i \in Input : ~Promotes(h, i) BY DEF Promotes
  <2> QED BY <1>1, <2>1
<1>3. QueueInputs'
  BY <1>1, QueueInputsKept DEF SteersSound, Identities
<1> QED BY <1>1, <1>2, <1>3, QuietSteers DEF SameHolding

(* What a host step other than a promotion does to the Run it holds.       *)
LEMMA HostRuns ==
  ASSUME TypeOK, NEW h \in Hosts, HostStep(h),
         ~FallbackGathered(h), ~FallbackNotified(h)
  PROVE  SameControls(run') /\ Identities(run')
<1>1. promo[h] \in Runs BY HostShape
<1>2. PICK b : b = promo[h] OBVIOUS
<1>3. run \in [Runs -> RunRecord] /\ b \in Runs BY <1>1, <1>2 DEF TypeOK, StateTypes
<1>4. \/ run' = run
      \/ \E g : run' = [run EXCEPT ![b].gate = g]
      \/ \E x : run' = [run EXCEPT ![b].barrier = x]
      \/ \E x, g : run' = [run EXCEPT ![b].barrier = x, ![b].gate = g]
      \/ run' = [run EXCEPT ![b] = BarrierFailed(@)]
      \/ \E g : run' = [run EXCEPT ![b] = [BarrierFailed(@) EXCEPT !.gate = g]]
  <2>1. CASE FallbackActivated(h)
    <3>1. \/ \E x : run' = [run EXCEPT ![b].barrier = x]
          \/ run' = [run EXCEPT ![b] = BarrierFailed(@)]
      BY <1>2, <2>1 DEF FallbackActivated
    <3> QED BY <3>1
  <2>2. CASE FallbackAbandoned(h)
    <3>1. run' = [run EXCEPT ![b].gate = TRUE] BY <1>2, <2>2 DEF FallbackAbandoned
    <3> QED BY <3>1
  <2>3. CASE Yielded(h) \/ QueueGathered(h) \/ GatherInterrupted(h)
    <3>1. run' = run BY <2>3 DEF Yielded, QueueGathered, GatherInterrupted
    <3> QED BY <3>1
  <2>4. CASE QueuedInputRecorded(h)
    <3>1. \E x, g : run' = [run EXCEPT ![b].barrier = x, ![b].gate = g]
      BY <1>2, <2>4 DEF QueuedInputRecorded
    <3> QED BY <3>1
  <2>5. CASE QueuedInputKept(h)
    <3>1. run' = [run EXCEPT ![b] = [BarrierFailed(@) EXCEPT !.gate = TRUE]]
      BY <1>2, <2>5 DEF QueuedInputKept
    <3> QED BY <3>1
  <2>6. CASE QueueNotified(h)
    <3>1. run' = [run EXCEPT ![b].gate = TRUE] BY <1>2, <2>6 DEF QueueNotified
    <3> QED BY <3>1
  <2> QED BY <2>1, <2>2, <2>3, <2>4, <2>5, <2>6 DEF HostStep
<1>5. SameControls(run') BY <1>3, <1>4, SameControlUpdates
<1>6. CASE \E g : run' = [run EXCEPT ![b] = [BarrierFailed(@) EXCEPT !.gate = g]]
  <2>1. PICK g : run' = [run EXCEPT ![b] = [BarrierFailed(@) EXCEPT !.gate = g]]
    BY <1>6
  <2> DEFINE rec == [BarrierFailed(run[b]) EXCEPT !.gate = g]
  <2>2. run' = [run EXCEPT ![b] = rec] BY <1>3, <2>1
  <2>3. BarrierFailed(run[b]) \in RunRecord BY <1>3, RecordOps
  <2>4. SameIdentity(rec, BarrierFailed(run[b])) BY <2>3, IdentityUpdates
  <2>5. SameIdentity(BarrierFailed(run[b]), run[b]) BY <1>3, IdentityUpdates
  <2>6. SameIdentity(rec, run[b]) BY <2>4, <2>5 DEF SameIdentity
  <2> QED BY <1>3, <1>5, <2>2, <2>6, IdentityReplaced
<1> QED BY <1>3, <1>4, <1>5, <1>6, IdentitySame

(* Every step of a host keeps the invariant.                               *)
LEMMA HostStepSteers ==
  ASSUME TypeOK, Promotions, ControlSound, SteersSound, NEW h \in Hosts, HostStep(h)
  PROVE  SteersSound'
<1> USE DEF Goto, session
<1>1. /\ promo[h] \in Runs /\ shutdown' = shutdown /\ StaysOpen
      /\ pc[h] \in Promoting /\ run \in [Runs -> RunRecord]
      /\ journal \in Seq(Record)
  <2>1. promo[h] \in Runs /\ shutdown' = shutdown BY HostShape
  <2>2. pc[h] \in Promoting BY <2>1, RuntimeAssumption DEF TypeOK, ControlPoints
  <2> QED BY <2>1, <2>2 DEF StaysOpen, TypeOK, StateTypes
<1>2. PICK b, i : b = promo[h] /\ i = run[promo[h]].carried OBVIOUS
<1>3. /\ b \in Runs /\ i \in Input
      /\ pc[h] \in QueuePromotion => run[b].origin = "queue"
  BY <1>1, <1>2, RuntimeAssumption DEF Promotions
<1>4. /\ pc[h] # "discarding" /\ pc[h] # "absent"
      /\ AtFallback = {"activatingFallback", "abandoning"}
      /\ QueuePromotion \subseteq Promoting \ AtFallback
  BY <1>1 DEF Promoting, AtFallback, QueuePromotion
<1>5. /\ ~FallbackGathered(h) /\ ~FallbackNotified(h) =>
            SameControls(run') /\ Identities(run')
  BY HostRuns
<1>6. EndHost(h) =>
        \E at \in {"done", "idle"} : /\ pc' = [pc EXCEPT ![h] = at]
                                     /\ promo' = [promo EXCEPT ![h] = None]
  BY DEF EndHost
<1>7. ASSUME pc[h] \in Promoting \ AtFallback, SameControls(run'), Identities(run'),
             EndHost(h) \/ \E at \in Promoting \ AtFallback :
                             pc' = [pc EXCEPT ![h] = at] /\ promo' = promo,
             \A j \in Input : Occurs(j, queue') => Occurs(j, queue) \/ pc[j] = "queued",
             NoDisposition, fallbackQ' = fallbackQ, forgotten' = forgotten
      PROVE  SteersSound'
  <2>1. PICK at \in (Promoting \cup {"done", "idle"}) \ AtFallback :
          /\ pc' = [pc EXCEPT ![h] = at]
          /\ \/ promo' = promo
             \/ promo' = [promo EXCEPT ![h] = None] /\ at \in {"done", "idle"}
    BY <1>4, <1>6, <1>7
  <2> QED BY <1>1, <1>7, <2>1, IdleHostSteers
<1>8. ASSUME FallbackActivated(h) \/ FallbackAbandoned(h),
             NEW e, e.type \in Disposing, e.of = <<i>>, fallbackQ' = fallbackQ,
             \/ journal' = Append(journal, e) /\ forgotten' = forgotten
             \/ journal' = journal /\ forgotten' = forgotten \cup {i},
             queue' = queue, promo' = promo, NEW at \in Promoting \ AtFallback,
             pc' = [pc EXCEPT ![h] = at]
      PROVE  SteersSound'
  <2>1. pc[h] \in AtFallback
    BY <1>4, <1>8 DEF FallbackActivated, FallbackAbandoned
  <2>2. Promotes(h, i) BY <1>2, <2>1 DEF Promotes
  <2>3. SameControls(run') /\ Identities(run')
    BY <1>4, <1>5, <2>1 DEF FallbackGathered, FallbackNotified
  <2>4. /\ SameHolding /\ \A j \in Input : pc'[j] = pc[j]
        /\ \A g \in Hosts, j \in Input :
             Promotes(g, j)' <=>
               IF g = h THEN at \in AtFallback /\ run[promo[h]].carried = j
               ELSE Promotes(g, j)
    BY <1>1, <1>8, <2>3, HostPlaces
  <2>5. QueueInputs'
    BY <1>8, <2>3, <2>4, QueueInputsKept DEF SteersSound, Identities
  <2>6. \A g \in Hosts, j \in Input : Promotes(g, j)' <=> Promotes(g, j) /\ g # h
    BY <2>4
  <2> QED BY <1>1, <1>3, <1>8, <2>2, <2>4, <2>5, <2>6, DisposeSteers
<1>a. CASE FallbackActivated(h)
  <2>1. /\ queue' = queue /\ fallbackQ' = fallbackQ /\ forgotten' = forgotten
        /\ promo' = promo /\ pc[h] = "activatingFallback"
    BY <1>a DEF FallbackActivated
  <2>2. CASE /\ Written(h, "activated", <<run[promo[h]].carried>>, promo[h])
             /\ pc' = [pc EXCEPT ![h] = "notifyingFallback"]
    <3> DEFINE e == [type |-> "activated", of |-> <<i>>, run |-> b]
    <3>1. /\ journal' = Append(journal, e) /\ e.type \in Disposing /\ e.of = <<i>>
          /\ "notifyingFallback" \in Promoting \ AtFallback
      BY <1>2, <2>2 DEF Written, Disposing, Promoting, AtFallback
    <3> HIDE DEF e
    <3> QED BY <1>8, <1>a, <2>1, <2>2, <3>1
  <2>3. CASE journal' = journal /\ pc' = [pc EXCEPT ![h] = "abandoning"]
    <3>1. SameControls(run') /\ Identities(run')
      BY <1>5, <2>1 DEF FallbackGathered, FallbackNotified
    <3>2. "abandoning" \in Promoting /\ "abandoning" \in AtFallback
      BY DEF Promoting, AtFallback
    <3>3. /\ SameHolding /\ \A j \in Input : pc'[j] = pc[j]
          /\ \A g \in Hosts, j \in Input :
               Promotes(g, j)' <=>
                 IF g = h THEN "abandoning" \in AtFallback /\ run[promo[h]].carried = j
                 ELSE Promotes(g, j)
      BY <1>1, <2>1, <2>3, <3>1, <3>2, HostPlaces
    <3>4. \A g \in Hosts, j \in Input : Promotes(g, j)' <=> Promotes(g, j)
      BY <1>4, <2>1, <3>2, <3>3 DEF Promotes
    <3>5. QueueInputs'
      BY <2>1, <3>1, <3>3, QueueInputsKept DEF SteersSound, Identities
    <3>6. NoDisposition BY <2>3 DEF NoDisposition
    <3> QED BY <1>1, <2>1, <3>3, <3>4, <3>5, <3>6, QuietSteers DEF SameHolding
  <2> QED BY <1>a, <2>2, <2>3 DEF FallbackActivated, WriteFails
<1>b. CASE FallbackAbandoned(h)
  <2>1. /\ queue' = queue /\ fallbackQ' = fallbackQ
        /\ promo' = promo /\ pc' = [pc EXCEPT ![h] = "gatheringFallback"]
    BY <1>b DEF FallbackAbandoned, AbandonRun
  <2> DEFINE e == [type |-> "discarded", of |-> <<i>>,
                   run |-> sub[run[promo[h]].carried].target]
  <2>2. /\ \/ journal' = Append(journal, e) /\ forgotten' = forgotten
           \/ journal' = journal /\ forgotten' = forgotten \cup {i}
        /\ e.type \in Disposing /\ e.of = <<i>>
        /\ "gatheringFallback" \in Promoting \ AtFallback
    BY <1>2, <1>b
    DEF FallbackAbandoned, Written, WriteFails, Disposing, Promoting, AtFallback
  <2> HIDE DEF e
  <2> QED BY <1>8, <1>b, <2>1, <2>2
<1>c. CASE FallbackGathered(h)
  <2>1. /\ fallbackQ' = fallbackQ /\ journal' = journal /\ forgotten' = forgotten
        /\ pc[h] = "gatheringFallback"
        /\ \/ NoPromotion(h, run) /\ queue' = queue
           \/ TryPromoteQueue(h, run, paused, maintenance)
    BY <1>c DEF FallbackGathered
  <2>2. SameControls(run) /\ Identities(run)
    BY DEF SameControls, SameControl, Identities, SameIdentity
  <2>3. pc[h] \notin AtFallback \cup {"discarding", "absent"} BY <1>4, <2>1
  <2> QED BY <1>1, <2>1, <2>2, <2>3, QueueSteers
<1>d. CASE FallbackNotified(h)
  <2>1. PICK runs : runs = [run EXCEPT ![promo[h]].gate = TRUE] OBVIOUS
  <2>2. /\ fallbackQ' = fallbackQ /\ journal' = journal /\ forgotten' = forgotten
        /\ pc[h] = "notifyingFallback"
        /\ \/ NoPromotion(h, runs) /\ queue' = queue
           \/ TryPromoteQueue(h, runs, paused, maintenance)
    BY <1>d, <2>1 DEF FallbackNotified
  <2>3. SameControls(runs) BY <1>1, <2>1, SameControlUpdates
  <2>4. Identities(runs) /\ runs \in [Runs -> RunRecord]
    <3>1. runs = [run EXCEPT ![promo[h]] = [run[promo[h]] EXCEPT !.gate = TRUE]]
      BY <1>1, <2>1
    <3>2. SameIdentity([run[promo[h]] EXCEPT !.gate = TRUE], run[promo[h]])
      BY <1>1, IdentityUpdates
    <3>3. [run[promo[h]] EXCEPT !.gate = TRUE] \in RunRecord
      BY <1>1, GateSet
    <3> QED BY <1>1, <3>1, <3>2, <3>3, IdentityReplaced
  <2>5. pc[h] \notin AtFallback \cup {"discarding", "absent"} BY <1>4, <2>2
  <2> QED BY <1>1, <2>2, <2>3, <2>4, <2>5, QueueSteers
<1>e. CASE \/ Yielded(h) \/ QueueGathered(h) \/ GatherInterrupted(h)
           \/ QueueNotified(h) \/ QueuedInputRecorded(h)
  <2>1. /\ pc[h] \in Promoting \ AtFallback /\ queue' = queue
        /\ fallbackQ' = fallbackQ /\ forgotten' = forgotten
        /\ ~FallbackActivated(h) /\ ~FallbackAbandoned(h)
    BY <1>1, <1>4, <1>e
    DEF Yielded, QueueGathered, GatherInterrupted, QueueNotified,
        QueuedInputRecorded, FallbackActivated, FallbackAbandoned
  <2>2. NoDisposition
    <3>1. CASE QueuedInputRecorded(h)
      <4> DEFINE e == [type |-> "user_message", of |-> <<run[promo[h]].carried>>,
                       run |-> promo[h]]
      <4>1. journal' = Append(journal, e) BY <3>1 DEF QueuedInputRecorded, Written
      <4>2. e.type \notin Disposing BY DEF Disposing
      <4> HIDE DEF e
      <4> QED BY <4>1, <4>2 DEF NoDisposition
    <3>2. CASE ~QueuedInputRecorded(h)
      BY <1>e, <3>2
      DEF Yielded, QueueGathered, GatherInterrupted, QueueNotified, NoDisposition
    <3> QED BY <3>1, <3>2
  <2>3. EndHost(h) \/ \E at \in Promoting \ AtFallback :
                        pc' = [pc EXCEPT ![h] = at] /\ promo' = promo
    <3>1. "journalingQueued" \in Promoting \ AtFallback
          /\ "notifyingQueued" \in Promoting \ AtFallback
      BY DEF Promoting, AtFallback
    <3>2. CASE Yielded(h) BY <3>1, <3>2 DEF Yielded
    <3>3. CASE QueuedInputRecorded(h) BY <3>1, <3>3 DEF QueuedInputRecorded
    <3> QED BY <1>e, <3>2, <3>3 DEF QueueGathered, GatherInterrupted, QueueNotified
  <2>4. CASE FallbackGathered(h) BY <1>c, <2>4
  <2>5. CASE FallbackNotified(h) BY <1>d, <2>5
  <2> QED BY <1>5, <1>7, <2>1, <2>2, <2>3, <2>4, <2>5
<1>f. CASE QueuedInputKept(h)
  <2>1. /\ pc[h] = "journalingQueued" /\ journal' = journal
        /\ fallbackQ' = fallbackQ /\ forgotten' = forgotten /\ promo' = promo
        /\ queue' = <<i>> \o queue /\ pc' = [pc EXCEPT ![h] = "gatheringQueue"]
    BY <1>2, <1>f DEF QueuedInputKept, AbandonRun, WriteFails, PutBack
  <2>2. "gatheringQueue" \in Promoting \ AtFallback /\ pc[h] \in QueuePromotion
    BY <2>1 DEF Promoting, AtFallback, QueuePromotion
  <2>3. pc[i] = "queued" BY <1>2, <1>3, <2>2 DEF SteersSound, QueueInputs
  <2>4. \A j \in Input : Occurs(j, queue') => Occurs(j, queue) \/ pc[j] = "queued"
    <3>1. <<i>> \in Seq(Input) /\ queue \in Seq(Input)
      BY <1>3 DEF TypeOK, StateTypes
    <3>2. \A j \in Input : Occurs(j, <<i>>) => j = i BY DEF Occurs
    <3> QED BY <2>1, <2>3, <3>1, <3>2, OccursConcat
  <2>5. SameControls(run') /\ Identities(run')
    BY <1>5, <2>1 DEF FallbackGathered, FallbackNotified
  <2>6. NoDisposition BY <2>1 DEF NoDisposition
  <2> QED BY <1>4, <1>7, <2>1, <2>2, <2>4, <2>5, <2>6
<1> QED BY <1>a, <1>b, <1>c, <1>d, <1>e, <1>f DEF HostStep

-----------------------------------------------------------------------------
(* Submissions.                                                            *)

(* A step of the submission of i to Run r: from the reservation on, and    *)
(* unless it fails, the control of r is the place of i.                    *)
LEMMA EntrySteers ==
  ASSUME TypeOK, ControlSound, ControlSound', SteersSound, NEW i \in Input,
         NEW r \in Runs, pc[i] \in UnderWay \cup {"idle", "barrier"},
         \A q \in Runs \ {r} : run'[q] = run[q],
         SameIdentity(run'[r], run[r]), run'[r].staged = run[r].staged,
         \A j \in Input \ {i} : Holds(r, j)' <=> Holds(r, j),
         pc'[i] \in UnderWay \cup {"barrier", "steered", "rejected", "queued"},
         \A t \in Tasks \ {i} : pc'[t] = pc[t],
         pc'[i] \in Accepted => Holds(r, i)',
         pc'[i] \in {"notifying", "steered"} => Records("user_steer", i)' # {},
         queue' = queue \/ (queue' = Append(queue, i) /\ pc'[i] = "queued"),
         fallbackQ' = fallbackQ, forgotten' = forgotten, promo' = promo,
         shutdown' = shutdown, NoDisposition
  PROVE  SteersSound'
<1>1. /\ Input \subseteq Tasks /\ Hosts \subseteq Tasks /\ Runs \subseteq Hosts
      /\ Input \cap Hosts = {}
      /\ pc \in [Tasks -> RunPoints \cup CallerPoints \cup InputPoints]
      /\ queue \in Seq(Input)
  BY RuntimeAssumption DEF TypeOK, StateTypes, ControlPoints, Tasks, Hosts
<1>2. \A h \in Hosts : pc'[h] = pc[h]
  BY <1>1
<1>3. Identities(run') BY DEF Identities, SameIdentity
<1>4. \A h \in Hosts, j \in Input : Promotes(h, j)' <=> Promotes(h, j)
  <2>1. TypeOK /\ promo' = promo /\ Identities(run')
        /\ \A h \in Hosts : pc'[h] = pc[h]
    BY <1>2, <1>3
  <2>2. ASSUME NEW h \in Hosts, pc[h] \in AtFallback
        PROVE  promo[h] \in Runs /\ run'[promo[h]].carried = run[promo[h]].carried
    <3>1. pc[h] \in Promoting BY <2>2 DEF AtFallback, Promoting
    <3>2. promo[h] \in Runs BY <3>1 DEF TypeOK, ControlPoints
    <3> QED BY <1>3, <3>2 DEF Identities, SameIdentity
  <2> QED BY <2>1, <2>2 DEF Promotes
<1>5. /\ \A q \in Runs, j \in Input : Discards(q, j)' <=> Discards(q, j)
      /\ \A q \in Runs, j \in Input \ {i} : Holds(q, j)' <=> Holds(q, j)
  BY <1>1, <1>2 DEF Discards, Holds
<1>6. QueueInputs'
  <2>1. pc[i] # "queued" BY DEF UnderWay
  <2>2. \A j \in Input : pc[j] = "queued" => pc'[j] = "queued" BY <1>1, <1>2, <2>1
  <2>3. \A j \in Input : Occurs(j, queue') => Occurs(j, queue) \/ pc'[j] = "queued"
    <3>1. CASE queue' = queue BY <3>1
    <3>2. CASE queue' = Append(queue, i) /\ pc'[i] = "queued"
      BY <1>1, <3>2, OccursAppend
    <3> QED BY <3>1, <3>2
  <2> QED BY <1>3, <2>2, <2>3, QueueInputsKept DEF SteersSound, Identities
<1>7. StaysOpen BY DEF StaysOpen
<1>8. ASSUME NEW j \in Input PROVE SaysTheSame(j)
  BY JournalSays DEF NoDisposition, TypeOK, StateTypes
<1>9. ASSUME NEW j \in Input, j # i PROVE SteerSound(j)'
  <2>1. /\ InControl(j)' <=> InControl(j)
        /\ InDiscard(j)' <=> InDiscard(j)
    BY <1>5, <1>9 DEF InControl, InDiscard
  <2>2. Stays(j) BY <1>4, <2>1 DEF Stays, InFallbacks, Dropped
  <2>3. pc'[j] = pc[j] BY <1>1, <1>2, <1>9
  <2> QED BY <1>7, <1>8, <2>2, <2>3, StaysSound DEF SteersSound
<1>10. SteerSound(i)'
  <2>1. SteerSound(i) /\ SaysTheSame(i) /\ pc[i] # "steered" /\ pc[i] # "queued"
    BY <1>8 DEF SteersSound, UnderWay
  <2>2. /\ ~InFallbacks(i) /\ ~InPromotion(i) /\ ~Disposed(i) /\ ~Dropped(i)
    BY <2>1 DEF SteerSound
  <2>3. ~InDiscard(i) BY <2>1 DEF InDiscard, ControlSound, RunSound
  <2>4. /\ ~InFallbacks(i)' /\ ~InPromotion(i)' /\ ~InDiscard(i)' /\ ~Dropped(i)'
    BY <1>4, <1>5, <2>2, <2>3 DEF InFallbacks, InPromotion, InDiscard, Dropped
  <2>5. ~Disposed(i)' /\ \A k \in DOMAIN journal' : ~Disposes(k, i)'
    BY <2>1, <2>2 DEF SaysTheSame, Disposed, Disposes
  <2>6. \A h \in Hosts : ~Promotes(h, i)' BY <1>4, <2>2 DEF InPromotion
  <2>7. pc'[i] \in {"notifying", "steered"} => InControl(i)'
    BY DEF InControl, Accepted, UnderWay
  <2>8. pc'[i] \in {"notifying", "steered"} =>
          InControl(i)' /\ Records("user_steer", i)' # {}
    BY <1>2, <2>7
  <2> QED BY <2>4, <2>5, <2>6, <2>8 DEF SteerSound, AtMostOne, AtLeastOne
<1> QED BY <1>6, <1>9, <1>10 DEF SteersSound

(* Every step of a submission keeps the invariant.                         *)
LEMMA SubmissionSteers ==
  ASSUME TypeOK, ControlSound, SteersSound, NEW i \in Input, SubmissionStep(i)
  PROVE  SteersSound'
<1> USE DEF Goto, Unchanged4Sub, session, history
<1>1. ControlSound' BY SubmissionSound
<1>2. PICK r : r = sub[i].target OBVIOUS
<1>3. /\ pc[i] \in UnderWay \cup {"barrier"} /\ fallbackQ' = fallbackQ
      /\ forgotten' = forgotten /\ promo' = promo /\ shutdown' = shutdown
  BY DEF SubmissionStep, Admit, Refuse, SteerRecorded, SteerNotified, UnderWay
<1>4. r \in Runs
  BY <1>2, <1>3 DEF ControlSound, InputSound, UnderWay
<1>5. /\ run \in [Runs -> RunRecord] /\ run[r].ctl \in Control
      /\ run[r] \in RunRecord /\ journal \in Seq(Record)
      /\ i \in Tasks /\ pc \in [Tasks -> RunPoints \cup CallerPoints \cup InputPoints]
  BY <1>4 DEF TypeOK, StateTypes, ControlPoints, RunRecord, Tasks
<1>6. IsInjective(Steers(run[r].ctl)) BY <1>4 DEF ControlSound, RunSound
<1>7. pc[i] \in UnderWay => Holds(r, i) BY <1>2 DEF ControlSound, InputSound
<1>8. pc[i] \notin Accepted => ~Holds(r, i) BY <1>4 DEF ControlSound, RunSound
<1>9. ASSUME NEW d \in Control, run' = [run EXCEPT ![r].ctl = d],
             \A j \in Input \ {i} : Occurs(j, Steers(d)) <=> Holds(r, j)
      PROVE  /\ \A q \in Runs \ {r} : run'[q] = run[q]
             /\ SameIdentity(run'[r], run[r]) /\ run'[r].staged = run[r].staged
             /\ \A j \in Input \ {i} : Holds(r, j)' <=> Holds(r, j)
             /\ Holds(r, i)' <=> Occurs(i, Steers(d))
  <2> DEFINE x == [run[r] EXCEPT !.ctl = d]
  <2>1. run'[r] = x /\ \A q \in Runs \ {r} : run'[q] = run[q] BY <1>4, <1>5, <1>9
  <2>2. x.ctl = d /\ x.staged = run[r].staged /\ SameIdentity(x, run[r])
    BY <1>5 DEF RunRecord, SameIdentity
  <2> HIDE DEF x
  <2> QED BY <1>9, <2>1, <2>2 DEF Holds
<1>10. run' = run => /\ \A q \in Runs : run'[q] = run[q]
                     /\ SameIdentity(run'[r], run[r]) /\ run'[r].staged = run[r].staged
                     /\ \A j \in Input : Holds(r, j)' <=> Holds(r, j)
  BY DEF Holds, SameIdentity
<1>11. NoDisposition \/ SteerRecorded(i)
  BY DEF SubmissionStep, Admit, Refuse, SteerNotified, NoDisposition
<1>12. pc[i] = "notifying" => Records("user_steer", i) # {}
  BY DEF SteersSound, SteerSound
<1>13. ASSUME pc'[i] \in UnderWay \cup {"steered", "rejected", "queued"},
              \A k \in Tasks \ {i} : pc'[k] = pc[k],
              \A q \in Runs \ {r} : run'[q] = run[q],
              SameIdentity(run'[r], run[r]), run'[r].staged = run[r].staged,
              \A j \in Input \ {i} : Holds(r, j)' <=> Holds(r, j),
              pc'[i] \in Accepted => Holds(r, i)',
              pc'[i] \in {"notifying", "steered"} => Records("user_steer", i)' # {},
              queue' = queue \/ (queue' = Append(queue, i) /\ pc'[i] = "queued"),
              NoDisposition
       PROVE  SteersSound'
  BY <1>1, <1>3, <1>4, <1>13, EntrySteers
<1>14. /\ UnderWay = {"journaling", "notifying"}
       /\ Accepted = {"journaling", "notifying", "steered"}
  BY DEF UnderWay, Accepted
<1>a. CASE Admit(i)
  <2>1. /\ pc[i] = "barrier" /\ NoDisposition
    BY <1>a DEF Admit, NoDisposition
  <2>2. CASE /\ queue' = Append(queue, i) /\ pc' = [pc EXCEPT ![i] = "queued"]
             /\ run' = run
    <3>1. "queued" \notin Accepted BY DEF Accepted, UnderWay
    <3> QED BY <1>5, <1>10, <1>13, <1>14, <2>1, <2>2, <3>1
  <2>3. CASE /\ run' = [run EXCEPT ![r].ctl = ReserveSteer(run[r].ctl, i)]
             /\ pc' = [pc EXCEPT ![i] = "journaling"] /\ queue' = queue
    <3> DEFINE d == ReserveSteer(run[r].ctl, i)
    <3>1. d \in Control BY <1>5, SubmissionOps
    <3>2. \A j \in Input : Occurs(j, Steers(d)) <=> Holds(r, j) \/ j = i
      BY <1>5, <1>6, <1>8, <2>1, EntryOps DEF Holds, Accepted, UnderWay
    <3>3. "journaling" \in UnderWay BY DEF UnderWay
    <3>4. run' = [run EXCEPT ![r].ctl = d] BY <2>3
    <3> HIDE DEF d
    <3>5. /\ \A q \in Runs \ {r} : run'[q] = run[q]
          /\ SameIdentity(run'[r], run[r]) /\ run'[r].staged = run[r].staged
          /\ \A j \in Input \ {i} : Holds(r, j)' <=> Holds(r, j)
          /\ Holds(r, i)'
      BY <1>9, <3>1, <3>2, <3>4
    <3>9. pc'[i] = "journaling" /\ \A k \in Tasks \ {i} : pc'[k] = pc[k]
      BY <1>5, <2>3
    <3> QED BY <1>13, <1>14, <2>1, <2>3, <3>3, <3>5, <3>9
  <2> QED BY <1>2, <1>5, <1>a, <2>2, <2>3 DEF Admit
<1>b. CASE Refuse(i)
  <2>1. /\ run' = run /\ pc' = [pc EXCEPT ![i] = "rejected"] /\ queue' = queue
        /\ NoDisposition
    BY <1>b DEF Refuse, NoDisposition
  <2>2. "rejected" \notin Accepted BY DEF Accepted, UnderWay
  <2>9. pc'[i] = "rejected" /\ \A k \in Tasks \ {i} : pc'[k] = pc[k]
    BY <1>5, <2>1
  <2> QED BY <1>10, <1>13, <1>14, <2>1, <2>2, <2>9
<1>c. CASE SteerRecorded(i)
  <2>1. pc[i] = "journaling" /\ queue' = queue BY <1>c DEF SteerRecorded
  <2>2. Holds(r, i) BY <1>7, <2>1 DEF UnderWay
  <2>3. CASE /\ journal' = Append(journal, [type |-> "user_steer", of |-> <<i>>,
                                            run |-> r])
             /\ \/ /\ run' = [run EXCEPT ![r].ctl = MarkReady(run[r].ctl, i)]
                   /\ pc' = [pc EXCEPT ![i] = "steered"]
                \/ run' = run /\ pc' = [pc EXCEPT ![i] = "notifying"]
    <3> DEFINE e == [type |-> "user_steer", of |-> <<i>>, run |-> r]
    <3>1. e.type = "user_steer" /\ e.of = <<i>> /\ journal' = Append(journal, e)
      BY <2>3
    <3> HIDE DEF e
    <3>2. NoDisposition BY <3>1 DEF NoDisposition, Disposing
    <3>3. Records("user_steer", i)' # {}
      <4>1. /\ Len(journal) + 1 \in DOMAIN journal'
            /\ journal'[Len(journal) + 1] = e
        BY <1>5, <3>1
      <4>2. Occurs(i, e.of) BY <3>1 DEF Occurs
      <4> QED BY <3>1, <4>1, <4>2 DEF Records
    <3>4. CASE /\ run' = [run EXCEPT ![r].ctl = MarkReady(run[r].ctl, i)]
               /\ pc' = [pc EXCEPT ![i] = "steered"]
      <4> DEFINE d == MarkReady(run[r].ctl, i)
      <4>1. d \in Control BY <1>5, SubmissionOps
      <4>2. \A j \in Input : Occurs(j, Steers(d)) <=> Holds(r, j)
        BY <1>5, <1>6, EntryOps DEF Holds, Steers
      <4>3. run' = [run EXCEPT ![r].ctl = d] BY <3>4
      <4> HIDE DEF d
      <4>4. /\ \A q \in Runs \ {r} : run'[q] = run[q]
            /\ SameIdentity(run'[r], run[r]) /\ run'[r].staged = run[r].staged
            /\ \A j \in Input \ {i} : Holds(r, j)' <=> Holds(r, j)
            /\ Holds(r, i)'
        BY <1>9, <2>2, <4>1, <4>2, <4>3
      <4>9. pc'[i] = "steered" /\ \A k \in Tasks \ {i} : pc'[k] = pc[k]
        BY <1>5, <3>4
      <4> QED BY <1>13, <1>14, <2>1, <3>2, <3>3, <3>4, <4>4, <4>9
    <3>5. CASE run' = run /\ pc' = [pc EXCEPT ![i] = "notifying"]
      <4>1. "notifying" \in UnderWay BY DEF UnderWay
      <4>9. pc'[i] = "notifying" /\ \A k \in Tasks \ {i} : pc'[k] = pc[k]
        BY <1>5, <3>5
      <4> QED BY <1>10, <1>13, <1>14, <2>1, <2>2, <3>2, <3>3, <3>5, <4>1, <4>9
    <3> QED BY <2>3, <3>4, <3>5
  <2>4. CASE /\ journal' = journal /\ pc' = [pc EXCEPT ![i] = "rejected"]
             /\ run' = [run EXCEPT ![r].ctl = DiscardSubmission(run[r].ctl, i)]
    <3> DEFINE d == DiscardSubmission(run[r].ctl, i)
    <3>1. d \in Control BY <1>5, SubmissionOps
    <3>2. \A j \in Input : Occurs(j, Steers(d)) <=> Holds(r, j) /\ j # i
      BY <1>5, <1>6, EntryOps DEF Holds
    <3>3. run' = [run EXCEPT ![r].ctl = d] BY <2>4
    <3> HIDE DEF d
    <3>4. /\ \A q \in Runs \ {r} : run'[q] = run[q]
          /\ SameIdentity(run'[r], run[r]) /\ run'[r].staged = run[r].staged
          /\ \A j \in Input \ {i} : Holds(r, j)' <=> Holds(r, j)
      BY <1>9, <3>1, <3>2, <3>3
    <3>5. "rejected" \notin Accepted /\ NoDisposition
      BY <2>4 DEF Accepted, UnderWay, NoDisposition
    <3>9. pc'[i] = "rejected" /\ \A k \in Tasks \ {i} : pc'[k] = pc[k]
      BY <1>5, <2>4
    <3> QED BY <1>13, <1>14, <2>1, <2>4, <3>4, <3>5, <3>9
  <2> QED BY <1>2, <1>5, <1>c, <2>3, <2>4 DEF SteerRecorded, Written, WriteFails
<1>d. CASE SteerNotified(i)
  <2>1. /\ pc[i] = "notifying" /\ queue' = queue /\ journal' = journal
        /\ run' = [run EXCEPT ![r].ctl = MarkReady(run[r].ctl, i)]
        /\ pc' = [pc EXCEPT ![i] = "steered"] /\ NoDisposition
    BY <1>2, <1>5, <1>d DEF SteerNotified, NoDisposition
  <2>2. Holds(r, i) BY <1>7, <2>1 DEF UnderWay
  <2> DEFINE d == MarkReady(run[r].ctl, i)
  <2>3. d \in Control BY <1>5, SubmissionOps
  <2>4. \A j \in Input : Occurs(j, Steers(d)) <=> Holds(r, j)
    BY <1>5, <1>6, EntryOps DEF Holds, Steers
  <2>5. run' = [run EXCEPT ![r].ctl = d] BY <2>1
  <2> HIDE DEF d
  <2>6. /\ \A q \in Runs \ {r} : run'[q] = run[q]
        /\ SameIdentity(run'[r], run[r]) /\ run'[r].staged = run[r].staged
        /\ \A j \in Input \ {i} : Holds(r, j)' <=> Holds(r, j)
        /\ Holds(r, i)'
    BY <1>9, <2>2, <2>3, <2>4, <2>5
  <2>7. Records("user_steer", i)' # {} BY <1>12, <2>1 DEF Records
  <2>9. pc'[i] = "steered" /\ \A k \in Tasks \ {i} : pc'[k] = pc[k]
    BY <1>5, <2>1
  <2> QED BY <1>13, <1>14, <2>1, <2>6, <2>7, <2>9
<1> QED BY <1>a, <1>b, <1>c, <1>d DEF SubmissionStep

(* Without adds nothing.                                                   *)
LEMMA WithoutOccurs ==
  ASSUME NEW S, NEW s \in Seq(S), NEW e, NEW i, Occurs(i, Without(s, e))
  PROVE  Occurs(i, s)
<1>1. CASE ~ \E k \in DOMAIN s : s[k] = e
  BY <1>1 DEF Without
<1>2. CASE \E k \in DOMAIN s : s[k] = e
  <2>1. PICK k \in 1 .. Len(s) : k = CHOOSE n \in DOMAIN s : s[n] = e
    BY <1>2
  <2> DEFINE a == SubSeq(s, 1, k - 1)
             b == SubSeq(s, k + 1, Len(s))
  <2>2. /\ a \in Seq(S) /\ Len(a) = k - 1
        /\ \A n \in 1 .. k - 1 : a[n] = s[n]
    <3>1. \A n \in 1 .. k - 1 : s[n] \in S OBVIOUS
    <3> QED BY <3>1, SubSeqProperties
  <2>3. /\ b \in Seq(S) /\ Len(b) = Len(s) - k
        /\ \A n \in 1 .. Len(s) - k : b[n] = s[k + n]
    <3>1. \A n \in k + 1 .. Len(s) : s[n] \in S OBVIOUS
    <3> QED BY <3>1, SubSeqProperties
  <2>4. Without(s, e) = a \o b BY <1>2, <2>1 DEF Without, RemoveAt
  <2> HIDE DEF a, b
  <2>5. Occurs(i, a) \/ Occurs(i, b) BY <2>2, <2>3, <2>4, OccursConcat
  <2>6. CASE Occurs(i, a) BY <2>2, <2>6 DEF Occurs
  <2>7. CASE Occurs(i, b)
    <3>1. PICK n \in 1 .. Len(s) - k : b[n] = i BY <2>3, <2>7 DEF Occurs
    <3>2. s[k + n] = i /\ k + n \in DOMAIN s BY <2>3, <3>1
    <3> QED BY <3>2 DEF Occurs
  <2> QED BY <2>5, <2>6, <2>7
<1> QED BY <1>1, <1>2

-----------------------------------------------------------------------------
(* The user's operations.                                                  *)

(* A step that leaves the tasks of the inputs and the promotions alone,    *)
(* and the identity and steers of every Run.                               *)
LEMMA SameTasksSteers ==
  ASSUME TypeOK, SteersSound, SameHolding, Identities(run'), promo' = promo,
         \A i \in Input : pc'[i] = pc[i],
         \A h \in Hosts : \/ pc'[h] = pc[h]
                          \/ pc[h] \notin AtFallback /\ pc'[h] \notin AtFallback,
         journal' = journal, fallbackQ' = fallbackQ,
         \A i \in Input : Occurs(i, queue') => Occurs(i, queue),
         \A i \in Input : i \in forgotten' <=>
                            i \in forgotten \/ (i \in forgotten' /\ pc[i] = "queued"),
         ControlSound, StaysOpen
  PROVE  SteersSound'
<1>1. ASSUME NEW h \in Hosts, pc[h] \in AtFallback
      PROVE  run'[promo[h]].carried = run[promo[h]].carried
  <2>1. pc[h] \in Promoting BY <1>1 DEF AtFallback, Promoting
  <2>2. promo[h] \in Runs BY <2>1 DEF TypeOK, ControlPoints
  <2> QED BY <2>2 DEF Identities, SameIdentity
<1>2. \A h \in Hosts, i \in Input : Promotes(h, i)' <=> Promotes(h, i)
  BY <1>1 DEF Promotes
<1>3. QueueInputs'
  BY QueueInputsKept DEF SteersSound, Identities
<1>4. ASSUME NEW i \in Input PROVE SteerSound(i)'
  <2>1. CASE i \in forgotten' <=> i \in forgotten
    BY <1>2, <2>1, StaysWhere
  <2>2. CASE pc[i] = "queued" /\ i \in forgotten'
    <3>1. SteerSound(i) /\ SaysTheSame(i) /\ pc'[i] = "queued"
      BY <2>2, JournalSays DEF SteersSound, TypeOK, StateTypes
    <3>2. ~InFallbacks(i) /\ ~InPromotion(i) /\ ~Disposed(i)
      BY <2>2, <3>1 DEF SteerSound
    <3>3. ~InControl(i) /\ ~InDiscard(i)
      BY <2>2 DEF ControlSound, RunSound, InControl, InDiscard, Accepted, UnderWay
    <3>4. /\ ~InControl(i)' /\ ~InFallbacks(i)' /\ ~InDiscard(i)' /\ ~InPromotion(i)'
      BY <1>2, <3>2, <3>3
      DEF SameHolding, InControl, InFallbacks, InDiscard, InPromotion
    <3>5. ~Disposed(i)' /\ \A k \in DOMAIN journal' : ~Disposes(k, i)'
      BY <3>1, <3>2 DEF SaysTheSame, Disposed, Disposes
    <3>6. \A h \in Hosts : ~Promotes(h, i)' BY <1>2, <3>2 DEF InPromotion
    <3> QED BY <3>1, <3>4, <3>5, <3>6 DEF SteerSound, AtMostOne, AtLeastOne, Dropped
  <2> QED BY <2>1, <2>2
<1> QED BY <1>3, <1>4 DEF SteersSound

(* A new Run that the user starts.                                         *)
LEMMA StartSteers ==
  ASSUME TypeOK, Promotions, ControlSound, SteersSound,
         NEW o \in {"user", "application"}, NEW b, StartRun(o, b)
  PROVE  SteersSound'
<1> PICK n : n = Next1 OBVIOUS
<1> DEFINE x == CreatedRun(o, None, b)
<1>1. /\ n \in Runs /\ started < n /\ pc[n] = "absent"
  <2>1. started \in 0 .. MaxRuns /\ started < MaxRuns /\ MaxRuns \in Nat
    BY RuntimeAssumption DEF StartRun, TypeOK, StateTypes
  <2>2. n \in Runs /\ started < n BY <2>1 DEF Next1, Runs
  <2>3. n > started BY <2>1, <2>2 DEF Runs
  <2> QED BY <2>2, <2>3 DEF TypeOK, ControlPoints
<1>2. /\ Input \subseteq Tasks /\ Hosts \subseteq Tasks /\ n \in Hosts
      /\ Input \cap Hosts = {} /\ Runs \subseteq Hosts /\ n \in Tasks
      /\ pc \in [Tasks -> RunPoints \cup CallerPoints \cup InputPoints]
      /\ run \in [Runs -> RunRecord]
  BY <1>1, RuntimeAssumption DEF TypeOK, StateTypes, ControlPoints, Tasks, Hosts
<1>3. x.ctl = NewControl /\ x.staged = <<>> /\ x.origin # "queue"
  BY DEF CreatedRun
<1>4. Steers(NewControl) = <<>> /\ \A j : ~Occurs(j, <<>>)
  BY ConcatEmptySeq, EmptySeq DEF NewControl, Steers, Occurs
<1>5. /\ run' = [run EXCEPT ![n] = x] /\ pc' = [pc EXCEPT ![n] = "created"]
      /\ promo' = promo /\ queue' = queue /\ fallbackQ' = fallbackQ
      /\ forgotten' = forgotten /\ StaysOpen /\ NoDisposition
  BY DEF StartRun, history, StaysOpen, NoDisposition
<1> HIDE DEF x
<1>6. /\ run'[n] = x /\ \A q \in Runs \ {n} : run'[q] = run[q]
      /\ pc'[n] = "created" /\ \A t \in Tasks \ {n} : pc'[t] = pc[t]
  BY <1>1, <1>2, <1>5
<1>7. \A q \in Runs, i \in Input : /\ Holds(q, i)' <=> Holds(q, i)
                                   /\ Discards(q, i)' <=> Discards(q, i)
  <2>1. \A i \in Input : /\ ~Holds(n, i)' /\ ~Discards(n, i)'
                         /\ ~Holds(n, i) /\ ~Discards(n, i)
    BY <1>1, <1>3, <1>4, <1>6, AbsentHoldsNothing DEF Holds, Discards
  <2>2. \A q \in Runs \ {n} : \A i \in Input :
          /\ Holds(q, i)' <=> Holds(q, i)
          /\ Discards(q, i)' <=> Discards(q, i)
    BY <1>2, <1>6 DEF Holds, Discards
  <2> QED BY <2>1, <2>2
<1>8. ASSUME NEW h \in Hosts, NEW i \in Input PROVE Promotes(h, i)' <=> Promotes(h, i)
  <2>1. CASE h = n
    <3>1. "absent" \notin AtFallback /\ "created" \notin AtFallback BY DEF AtFallback
    <3> QED BY <1>1, <1>6, <2>1, <3>1 DEF Promotes
  <2>2. CASE h # n
    <3>1. pc'[h] = pc[h] BY <1>2, <1>6, <2>2
    <3>2. ASSUME pc[h] \in AtFallback PROVE run'[promo[h]] = run[promo[h]]
      <4>1. pc[h] \in Promoting BY <3>2 DEF AtFallback, Promoting
      <4>2. promo[h] \in Runs /\ promo[h] <= started
        BY <4>1 DEF TypeOK, ControlPoints, Promotions
      <4>3. promo[h] # n
        BY <1>1, <4>2 DEF Runs, TypeOK, StateTypes
      <4> QED BY <1>6, <4>2, <4>3
    <3> QED BY <1>5, <3>1, <3>2 DEF Promotes
  <2> QED BY <2>1, <2>2
<1>9. \A i \in Input : pc'[i] = pc[i] BY <1>2, <1>6
<1>10. QueueInputs'
  <2>1. \A q \in Runs : \/ SameIdentity(run'[q], run[q])
                        \/ run'[q].origin # "queue"
    BY <1>3, <1>6 DEF SameIdentity
  <2> QED BY <1>5, <1>9, <2>1 DEF SteersSound, QueueInputs, SameIdentity
<1> QED BY <1>5, <1>7, <1>8, <1>9, <1>10, QuietSteers

(* Every operation of the user keeps the invariant.                        *)
LEMMA UserSteers ==
  ASSUME TypeOK, TypeOK', Promotions, ControlSound, SteersSound, UserStep
  PROVE  SteersSound'
<1> USE DEF Goto, Unchanged4User, Unchanged4Sub, session, history
<1>1. /\ run \in [Runs -> RunRecord]
      /\ Input \subseteq Tasks /\ Hosts \subseteq Tasks
      /\ Input \cap Hosts = {} /\ Callers \subseteq Hosts
      /\ pc \in [Tasks -> RunPoints \cup CallerPoints \cup InputPoints]
      /\ queue \in Seq(Input)
  BY RuntimeAssumption DEF TypeOK, StateTypes, ControlPoints, Tasks, Hosts
<1>2. run' = run => SameControls(run') /\ Identities(run')
  BY DEF SameControls, SameControl, Identities, SameIdentity
<1>3. run' = run /\ (\A q \in Runs : pc'[q] = pc[q]) => SameHolding
  BY DEF SameHolding, Holds, Discards
<1>a. ASSUME NEW o \in {"user", "application"}, NEW b \in Behaviours, StartRun(o, b)
      PROVE  SteersSound'
  BY <1>a, StartSteers
<1>b. ASSUME NEW i \in Input, NEW b \in Behaviours, Submit(i, b) PROVE SteersSound'
  <2>1. ControlSound' BY <1>b, UserSound DEF UserStep
  <2>2. /\ pc[i] = "idle" /\ active \in Runs /\ run' = run /\ queue' = queue
        /\ pc' = [pc EXCEPT ![i] = "barrier"] /\ fallbackQ' = fallbackQ
        /\ forgotten' = forgotten /\ promo' = promo /\ shutdown' = shutdown
        /\ NoDisposition
    BY <1>b DEF Submit, TypeOK, StateTypes, NoDisposition
  <2>3. /\ pc'[i] = "barrier" /\ \A t \in Tasks \ {i} : pc'[t] = pc[t]
    BY <1>1, <2>2
  <2>4. PICK r \in Runs : r = active BY <2>2
  <2>5. /\ \A q \in Runs \ {r} : run'[q] = run[q]
        /\ SameIdentity(run'[r], run[r]) /\ run'[r].staged = run[r].staged
        /\ \A j \in Input \ {i} : Holds(r, j)' <=> Holds(r, j)
    BY <2>2 DEF SameIdentity, Holds
  <2>6. "barrier" \notin Accepted BY DEF Accepted, UnderWay
  <2> QED BY <2>1, <2>2, <2>3, <2>5, <2>6, EntrySteers
<1>c. ASSUME NEW i \in Input, RemoveQueuedInput(i) PROVE SteersSound'
  <2>1. /\ run' = run /\ pc' = pc /\ promo' = promo /\ journal' = journal
        /\ fallbackQ' = fallbackQ /\ shutdown' = shutdown
        /\ forgotten' = forgotten \cup {i} /\ queue' = Without(queue, i)
    BY <1>c DEF RemoveQueuedInput
  <2>2. \A j \in Input : Occurs(j, queue') => Occurs(j, queue)
    BY <1>1, <2>1, WithoutOccurs
  <2>3. pc[i] = "queued"
    BY <1>c DEF RemoveQueuedInput, Occurs, SteersSound, QueueInputs
  <2>4. \A j \in Input : j \in forgotten' <=>
                           j \in forgotten \/ (j \in forgotten' /\ pc[j] = "queued")
    BY <2>1, <2>3
  <2>5. StaysOpen /\ SameHolding /\ Identities(run')
    BY <1>2, <1>3, <2>1 DEF StaysOpen
  <2>6. /\ \A j \in Input : pc'[j] = pc[j]
        /\ \A h \in Hosts : pc'[h] = pc[h]
    BY <2>1
  <2> QED BY <2>1, <2>2, <2>4, <2>5, <2>6, SameTasksSteers
<1>d. CASE ClearQueue
  <2>1. /\ run' = run /\ pc' = pc /\ promo' = promo /\ journal' = journal
        /\ fallbackQ' = fallbackQ /\ shutdown' = shutdown
        /\ forgotten' = forgotten \cup ToSet(queue) /\ queue' = <<>>
    BY <1>d DEF ClearQueue
  <2>2. \A j \in Input : ~Occurs(j, queue') BY <2>1 DEF Occurs
  <2>3. \A j \in ToSet(queue) : j \in Input /\ pc[j] = "queued"
    BY <1>1 DEF ToSet, Occurs, SteersSound, QueueInputs
  <2>4. \A j \in Input : j \in forgotten' <=>
                           j \in forgotten \/ (j \in forgotten' /\ pc[j] = "queued")
    BY <2>1, <2>3
  <2>5. StaysOpen /\ SameHolding /\ Identities(run')
    BY <1>2, <1>3, <2>1 DEF StaysOpen
  <2>6. /\ \A j \in Input : pc'[j] = pc[j]
        /\ \A h \in Hosts : pc'[h] = pc[h]
    BY <2>1
  <2> QED BY <2>1, <2>2, <2>4, <2>5, <2>6, SameTasksSteers
<1>e. ASSUME NEW c \in Callers, ResumeQueue(c) PROVE SteersSound'
  <2>1. /\ fallbackQ' = fallbackQ /\ journal' = journal /\ forgotten' = forgotten
        /\ shutdown' = shutdown /\ pc[c] = "idle"
        /\ TryPromoteQueue(c, run, FALSE, maintenance)
    BY <1>e DEF ResumeQueue
  <2>2. SameControls(run) /\ Identities(run)
    BY DEF SameControls, SameControl, Identities, SameIdentity
  <2>3. pc[c] \notin AtFallback \cup {"discarding", "absent"} BY <2>1 DEF AtFallback
  <2>4. StaysOpen /\ c \in Hosts BY <1>1, <2>1 DEF StaysOpen
  <2> QED BY <1>1, <2>1, <2>2, <2>3, <2>4, QueueSteers
<1>f. ASSUME NEW c \in Callers, NEW a \in BOOLEAN, ReserveSession(c, a)
      PROVE  SteersSound'
  <2>1. /\ run' = run /\ promo' = promo /\ journal' = journal /\ queue' = queue
        /\ fallbackQ' = fallbackQ /\ shutdown' = shutdown /\ forgotten' = forgotten
        /\ pc[c] = "idle" /\ pc' = [pc EXCEPT ![c] = "reserved"]
    BY <1>f DEF ReserveSession
  <2>2. pc'[c] = "reserved" /\ \A t \in Tasks \ {c} : pc'[t] = pc[t] BY <1>1, <2>1
  <2>3. /\ \A i \in Input : pc'[i] = pc[i]
        /\ \A h \in Hosts : \/ pc'[h] = pc[h]
                            \/ pc[h] \notin AtFallback /\ pc'[h] \notin AtFallback
        /\ \A q \in Runs : pc'[q] = pc[q]
    BY <1>1, <2>1, <2>2, RuntimeAssumption DEF AtFallback, Hosts
  <2>4. StaysOpen /\ SameHolding /\ Identities(run')
    BY <1>2, <1>3, <2>1, <2>3 DEF StaysOpen
  <2> QED BY <2>1, <2>3, <2>4, SameTasksSteers
<1>g. ASSUME NEW r \in Runs, ApprovalReturns(r) \/ AgentFails(r) PROVE SteersSound'
  <2>1. ~RunEndNotified(r)
    BY <1>g DEF RunEndNotified, ApprovalReturns, AgentFails, AtBoundary
  <2> QED BY <1>g, <2>1, RunStepSteers
<1>h. CASE CancelRun
  <2>1. PICK r : r = active OBVIOUS
  <2>2. r \in Runs BY <1>h, <2>1 DEF CancelRun, TypeOK, StateTypes
  <2> DEFINE d == CloseSubmissions(run[r].ctl)
             x == [run[r] EXCEPT !.phase = "stopping", !.ctl = d]
  <2>3. /\ run' = [run EXCEPT ![r] = x] /\ promo' = promo /\ journal' = journal
        /\ fallbackQ' = fallbackQ /\ shutdown' = shutdown /\ forgotten' = forgotten
        /\ pc' = pc /\ queue' = queue
    BY <1>1, <1>h, <2>1, <2>2 DEF CancelRun
  <2>4. x.ctl = d /\ x.staged = run[r].staged /\ SameIdentity(x, run[r])
    BY <1>1, <2>2 DEF RunRecord, SameIdentity
  <2>5. Steers(d) = Steers(run[r].ctl)
    <3>1. run[r].ctl \in Control BY <1>1, <2>2 DEF RunRecord
    <3>2. d.pending = run[r].ctl.pending /\ d.fallback = run[r].ctl.fallback
      BY <3>1 DEF Control, CloseSubmissions
    <3> QED BY <3>2 DEF Steers
  <2> HIDE DEF x, d
  <2>6. run'[r] = x /\ \A q \in Runs \ {r} : run'[q] = run[q] BY <1>1, <2>2, <2>3
  <2>7. SameHolding BY <2>3, <2>4, <2>5, <2>6 DEF SameHolding, Holds, Discards
  <2>8. Identities(run') BY <2>4, <2>6 DEF Identities, SameIdentity
  <2>9. /\ \A i \in Input : pc'[i] = pc[i]
        /\ \A h \in Hosts : pc'[h] = pc[h]
    BY <2>3
  <2>10. StaysOpen BY <2>3 DEF StaysOpen
  <2> QED BY <2>3, <2>7, <2>8, <2>9, <2>10, SameTasksSteers
<1>i. CASE BeginClose
  <2>1. /\ run' = run /\ promo' = promo /\ journal' = journal /\ queue' = queue
        /\ fallbackQ' = fallbackQ /\ shutdown = "open" /\ forgotten' = forgotten
        /\ pc' = pc
    BY <1>i DEF BeginClose
  <2>2. /\ \A i \in Input : pc'[i] = pc[i]
        /\ \A h \in Hosts : pc'[h] = pc[h]
    BY <2>1
  <2>3. StaysOpen /\ SameHolding /\ Identities(run')
    BY <1>2, <1>3, <2>1 DEF StaysOpen
  <2> QED BY <2>1, <2>2, <2>3, SameTasksSteers
<1> QED
  BY <1>a, <1>b, <1>c, <1>d, <1>e, <1>f, <1>g, <1>h, <1>i DEF UserStep

-----------------------------------------------------------------------------
(* Every step.                                                             *)

(* At the start no input is anywhere.                                      *)
LEMMA SteersInit == Init => SteersSound
<1> SUFFICES ASSUME Init PROVE SteersSound OBVIOUS
<1>1. /\ fallbackQ = <<>> /\ queue = <<>> /\ journal = <<>> /\ forgotten = {}
      /\ run = [r \in Runs |-> BlankRun]
      /\ pc = [t \in Tasks |-> IF t \in Runs THEN "absent" ELSE "idle"]
  BY DEF Init
<1>2. /\ Input \subseteq Tasks /\ Hosts \subseteq Tasks /\ Runs \subseteq Tasks
      /\ Runs \cap Input = {}
  BY RuntimeAssumption DEF Tasks, Hosts
<1>3. \A i : ~Occurs(i, <<>>) BY DEF Occurs
<1>4. IsInjective(fallbackQ) BY <1>1 DEF IsInjective
<1>5. /\ \A i \in Input : pc[i] = "idle"
      /\ \A h \in Hosts : pc[h] \in {"absent", "idle"}
      /\ \A q \in Runs : pc[q] = "absent"
  BY <1>1, <1>2
<1>6. QueueInputs
  <2>1. \A q \in Runs : run[q].origin # "queue" BY <1>1 DEF BlankRun
  <2> QED BY <1>1, <1>3, <2>1 DEF QueueInputs
<1>7. ASSUME NEW i \in Input PROVE SteerSound(i)
  <2>1. ~InControl(i) /\ ~InDiscard(i)
    <3>1. ControlSound BY ControlInit
    <3> QED
      BY <1>5, <3>1
      DEF InControl, InDiscard, ControlSound, RunSound, Discards, Accepted, UnderWay
  <2>2. /\ ~InFallbacks(i) /\ ~Dropped(i) BY <1>1, <1>3 DEF InFallbacks, Dropped
  <2>3. \A h \in Hosts : ~Promotes(h, i) BY <1>5 DEF Promotes, AtFallback
  <2>4. DOMAIN journal = {} BY <1>1
  <2>5. ~Disposed(i) /\ ~InPromotion(i)
    BY <2>3, <2>4 DEF Disposed, Disposes, InPromotion
  <2> QED
    BY <1>5, <2>1, <2>2, <2>3, <2>4, <2>5 DEF SteerSound, AtMostOne, AtLeastOne
<1> QED BY <1>4, <1>6, <1>7 DEF SteersSound

(* The shutdown that ends: nothing is left to conserve.                    *)
LEMMA EndCloseSteers ==
  ASSUME TypeOK, SteersSound, EndClose
  PROVE  SteersSound'
<1>1. /\ run' = run /\ pc' = pc /\ promo' = promo /\ journal' = journal
      /\ fallbackQ' = <<>> /\ queue' = <<>> /\ forgotten' = forgotten
      /\ shutdown' = "closed"
  BY DEF EndClose, history
<1>2. \A i : ~Occurs(i, <<>>) BY DEF Occurs
<1>3. QueueInputs' BY <1>1, <1>2 DEF SteersSound, QueueInputs
<1>4. IsInjective(fallbackQ') BY <1>1 DEF IsInjective
<1>5. ASSUME NEW i \in Input PROVE SteerSound(i)'
  <2>1. SteerSound(i) /\ SaysTheSame(i)
    BY <1>1, JournalSays DEF SteersSound, TypeOK, StateTypes
  <2>2. /\ InControl(i)' <=> InControl(i)
        /\ InDiscard(i)' <=> InDiscard(i)
        /\ \A h \in Hosts : Promotes(h, i)' <=> Promotes(h, i)
        /\ ~InFallbacks(i)' /\ (Dropped(i)' <=> Dropped(i))
        /\ pc'[i] = pc[i] /\ InPromotion(i)' <=> InPromotion(i)
    BY <1>1, <1>2
    DEF InControl, InDiscard, InFallbacks, InPromotion, Dropped, Holds, Discards,
        Promotes
  <2>3. /\ Disposed(i)' <=> Disposed(i)
        /\ \A k, l \in DOMAIN journal' : Disposes(k, i)' /\ Disposes(l, i)' => k = l
        /\ \A k \in DOMAIN journal' :
             Disposes(k, i)' => \E j \in Records("user_steer", i)' : j < k
        /\ Records("user_steer", i) \subseteq Records("user_steer", i)'
    BY <2>1 DEF SaysTheSame, SteerSound, Disposes, Disposed
  <2>4. \A g, h \in Hosts : Promotes(g, i)' /\ Promotes(h, i)' => g = h
    BY <2>1, <2>2 DEF SteerSound
  <2> QED
    BY <1>1, <2>1, <2>2, <2>3, <2>4 DEF SteerSound, AtMostOne, AtLeastOne
<1> QED BY <1>3, <1>4, <1>5 DEF SteersSound

(* Every step keeps the steers where they have to be.                      *)
LEMMA SteersNext ==
  ASSUME TypeOK, TypeOK', Promotions, ControlSound, SteersSound, [Next]_vars
  PROVE  SteersSound'
<1>1. ASSUME NEW r \in Runs, RunStep(r) PROVE SteersSound'
  <2>1. CASE RunEndNotified(r)
    <3>1. /\ pc[r] = "ending" /\ r \in Hosts /\ TryPromotePending(r, run, maintenance)
          /\ journal' = journal /\ forgotten' = forgotten /\ shutdown' = shutdown
      BY <2>1 DEF RunEndNotified, Unchanged4Host, Hosts
    <3>2. pc[r] \notin AtFallback \cup {"discarding", "absent"} /\ StaysOpen
      BY <3>1 DEF AtFallback, StaysOpen
    <3> QED BY <3>1, <3>2, PendingSteers
  <2>2. CASE ~RunEndNotified(r) BY <1>1, <2>2, RunStepSteers
  <2> QED BY <2>1, <2>2
<1>2. ASSUME NEW h \in Hosts, HostStep(h) PROVE SteersSound'
  BY <1>2, HostStepSteers
<1>3. ASSUME NEW i \in Input, SubmissionStep(i) PROVE SteersSound'
  BY <1>3, SubmissionSteers
<1>4. ASSUME run' = run, pc' = pc, promo' = promo, journal' = journal,
             fallbackQ' = fallbackQ, queue' = queue, forgotten' = forgotten,
             shutdown' = shutdown
      PROVE  SteersSound'
  <2>1. SameHolding /\ Identities(run') /\ StaysOpen
    BY <1>4 DEF SameHolding, Holds, Discards, Identities, SameIdentity, StaysOpen
  <2>2. /\ \A i \in Input : pc'[i] = pc[i]
        /\ \A h \in Hosts : pc'[h] = pc[h]
    BY <1>4
  <2> QED BY <1>4, <2>1, <2>2, SameTasksSteers
<1>5. ASSUME NEW t \in Tasks, AbsorbCancellation(t) PROVE SteersSound'
  BY <1>4, <1>5 DEF AbsorbCancellation, session, history
<1>6. ASSUME NEW c \in Callers, ReleaseSession(c) PROVE SteersSound'
  <2>1. /\ pc[c] = "reserved" /\ c \in Hosts /\ TryPromotePending(c, run, None)
        /\ journal' = journal /\ forgotten' = forgotten /\ shutdown' = shutdown
    BY <1>6 DEF ReleaseSession, Unchanged4Host, Hosts
  <2>2. pc[c] \notin AtFallback \cup {"discarding", "absent"} /\ StaysOpen
    BY <2>1 DEF AtFallback, StaysOpen
  <2> QED BY <2>1, <2>2, PendingSteers
<1>7. CASE UserStep BY <1>7, UserSteers
<1>8. CASE EndClose BY <1>8, EndCloseSteers
<1>9. CASE AtRest \/ UNCHANGED vars
  BY <1>4, <1>9 DEF AtRest, vars, session, history
<1> QED BY <1>1, <1>2, <1>3, <1>5, <1>6, <1>7, <1>8, <1>9 DEF Next

(* Whatever the Runs, promotions, cancellations and failed writes do, a    *)
(* steer that the journal has recorded is in exactly one place: in the     *)
(* control of its Run, among the Session's fallbacks, with one promotion,  *)
(* in a discard under way, disposed of, or dropped by a failed discard.    *)
THEOREM SteersPlaced == Spec => []SteersSound
<1>1. Init => SteersSound BY SteersInit
<1>2. (TypeOK /\ Promotions) /\ TypeOK' /\ ControlSound /\ SteersSound /\ [Next]_vars
        => SteersSound'
  BY SteersNext
<1>3. Spec => [](TypeOK /\ Promotions) BY TypeCorrect
<1>4. Spec => []ControlSound BY ControlCorrect
<1> QED BY <1>1, <1>2, <1>3, <1>4, PTL DEF Spec

(* The journal disposes of a steer at most once, and after its record.     *)
LEMMA DisposedOnce == TypeOK /\ SteersSound => OneDisposition
<1> SUFFICES ASSUME TypeOK, SteersSound, NEW i \in Input
             PROVE  /\ Cardinality(Dispositions(i)) <= 1
                    /\ \A k \in Dispositions(i) :
                         \E j \in Records("user_steer", i) : j < k
  BY DEF OneDisposition
<1>1. SteerSound(i) BY DEF SteersSound
<1>2. \A k : k \in Dispositions(i) <=> Disposes(k, i)
  BY DEF Dispositions, Records, Disposes, Disposing
<1>3. \A k, l \in Dispositions(i) : k = l
  BY <1>1, <1>2 DEF SteerSound, Disposes
<1>4. CASE Dispositions(i) = {} BY <1>2, <1>4, FS_EmptySet
<1>5. CASE Dispositions(i) # {}
  <2>1. PICK k : k \in Dispositions(i) BY <1>5
  <2>2. Dispositions(i) = {k} BY <1>3, <2>1
  <2>3. Cardinality(Dispositions(i)) = 1 BY <2>2, FS_Singleton
  <2>4. \E j \in Records("user_steer", i) : j < k
    BY <1>1, <1>2, <2>1 DEF SteerSound, Disposes
  <2> QED BY <2>2, <2>3, <2>4
<1> QED BY <1>4, <1>5

(* The journal never disposes of a steer twice, nor before its record.     *)
THEOREM DisposedOf == Spec => []OneDisposition
<1>1. Spec => [](TypeOK /\ Promotions) BY TypeCorrect
<1>2. Spec => []SteersSound BY SteersPlaced
<1> QED BY <1>1, <1>2, DisposedOnce, PTL

(* A set without two elements.                                             *)
LEMMA AtMostOneElement ==
  ASSUME NEW S, \A x, y \in S : x = y
  PROVE  Cardinality(S) = IF S = {} THEN 0 ELSE 1
<1>1. CASE S = {} BY <1>1, FS_EmptySet
<1>2. CASE S # {}
  <2>1. PICK x : x \in S BY <1>2
  <2>2. S = {x} BY <2>1
  <2> QED BY <2>2, FS_Singleton
<1> QED BY <1>1, <1>2

(* The places counted by SteerConserved.                                   *)
LEMMA PlacesCounted ==
  ASSUME TypeOK, ControlSound, SteersSound, NEW i \in Input
  PROVE  /\ Cardinality({r \in Runs : Occurs(i, Steers(run[r].ctl))})
              = IF InControl(i) THEN 1 ELSE 0
         /\ Count(i, fallbackQ) = IF InFallbacks(i) THEN 1 ELSE 0
         /\ Cardinality(Carriers(i, {"activatingFallback", "abandoning"}))
              = IF InPromotion(i) THEN 1 ELSE 0
         /\ Cardinality(DiscardingRuns(i)) = IF InDiscard(i) THEN 1 ELSE 0
         /\ Cardinality(Dispositions(i)) = IF Disposed(i) THEN 1 ELSE 0
<1>1. SteerSound(i) BY DEF SteersSound
<1>2. Cardinality({r \in Runs : Occurs(i, Steers(run[r].ctl))})
        = IF InControl(i) THEN 1 ELSE 0
  <2> DEFINE S == {r \in Runs : Occurs(i, Steers(run[r].ctl))}
  <2>1. \A r : r \in S <=> r \in Runs /\ Holds(r, i) BY DEF Holds
  <2> HIDE DEF S
  <2>2. \A q, r \in S : q = r BY <2>1 DEF ControlSound, RunSound
  <2>3. S = {} <=> ~InControl(i) BY <2>1 DEF InControl
  <2>4. Cardinality(S) = IF S = {} THEN 0 ELSE 1 BY <2>2, AtMostOneElement
  <2> QED BY <2>3, <2>4 DEF S
<1>3. Count(i, fallbackQ) = IF InFallbacks(i) THEN 1 ELSE 0
  <2> DEFINE S == {k \in DOMAIN fallbackQ : fallbackQ[k] = i}
  <2>1. \A k, l \in S : k = l BY DEF SteersSound, IsInjective
  <2>2. S = {} <=> ~InFallbacks(i) BY DEF InFallbacks, Occurs
  <2>3. Count(i, fallbackQ) = Cardinality(S) BY DEF Count
  <2> HIDE DEF S
  <2>4. Cardinality(S) = IF S = {} THEN 0 ELSE 1 BY <2>1, AtMostOneElement
  <2> QED BY <2>2, <2>3, <2>4
<1>4. Cardinality(Carriers(i, {"activatingFallback", "abandoning"}))
        = IF InPromotion(i) THEN 1 ELSE 0
  <2> DEFINE S == Carriers(i, {"activatingFallback", "abandoning"})
  <2>1. \A h \in Hosts : pc[h] \in AtFallback => promo[h] # None
    BY DEF TypeOK, ControlPoints, AtFallback, Promoting
  <2>2. \A h : h \in S <=> h \in Hosts /\ Promotes(h, i)
    BY <2>1 DEF Carriers, Promotes, AtFallback
  <2> HIDE DEF S
  <2>3. \A g, h \in S : g = h BY <1>1, <2>2 DEF SteerSound
  <2>4. S = {} <=> ~InPromotion(i) BY <2>2 DEF InPromotion
  <2>5. Cardinality(S) = IF S = {} THEN 0 ELSE 1 BY <2>3, AtMostOneElement
  <2> QED BY <2>4, <2>5 DEF S
<1>5. Cardinality(DiscardingRuns(i)) = IF InDiscard(i) THEN 1 ELSE 0
  <2> DEFINE S == DiscardingRuns(i)
  <2>1. \A r : r \in S <=> r \in Runs /\ Discards(r, i)
    BY DEF DiscardingRuns, Discards
  <2> HIDE DEF S
  <2>2. \A q, r \in S : q = r BY <2>1 DEF ControlSound, RunSound
  <2>3. S = {} <=> ~InDiscard(i) BY <2>1 DEF InDiscard
  <2>4. Cardinality(S) = IF S = {} THEN 0 ELSE 1 BY <2>2, AtMostOneElement
  <2> QED BY <2>3, <2>4 DEF S
<1>6. Cardinality(Dispositions(i)) = IF Disposed(i) THEN 1 ELSE 0
  <2> DEFINE S == Dispositions(i)
  <2>1. \A k : k \in S <=> Disposes(k, i)
    BY DEF Dispositions, Records, Disposes, Disposing
  <2> HIDE DEF S
  <2>2. \A k, l \in S : k = l BY <1>1, <2>1 DEF SteerSound, Disposes
  <2>3. S = {} <=> ~Disposed(i) BY <2>1 DEF Disposed, Disposes
  <2>4. Cardinality(S) = IF S = {} THEN 0 ELSE 1 BY <2>2, AtMostOneElement
  <2> QED BY <2>3, <2>4 DEF S
<1> QED BY <1>2, <1>3, <1>4, <1>5, <1>6

(* One place, one to count.                                                *)
LEMMA SteersCounted == TypeOK /\ ControlSound /\ SteersSound => SteerConserved
<1> SUFFICES ASSUME TypeOK, ControlSound, SteersSound, shutdown = "open",
                    NEW i \in Input, pc[i] \in {"notifying", "steered"}
             PROVE  1 = Cardinality({r \in Runs : Occurs(i, Steers(run[r].ctl))})
                        + Count(i, fallbackQ)
                        + Cardinality(Carriers(i, {"activatingFallback", "abandoning"}))
                        + Cardinality(DiscardingRuns(i))
                        + Cardinality(Dispositions(i))
                        + (IF i \in forgotten THEN 1 ELSE 0)
  BY DEF SteerConserved
<1>1. AtMostOne(i) /\ AtLeastOne(i) BY DEF SteersSound, SteerSound
<1>2. 1 = (IF InControl(i) THEN 1 ELSE 0) + (IF InFallbacks(i) THEN 1 ELSE 0)
          + (IF InPromotion(i) THEN 1 ELSE 0) + (IF InDiscard(i) THEN 1 ELSE 0)
          + (IF Disposed(i) THEN 1 ELSE 0) + (IF Dropped(i) THEN 1 ELSE 0)
  BY <1>1 DEF AtMostOne, AtLeastOne
<1>3. Dropped(i) <=> i \in forgotten BY DEF Dropped
<1> QED BY <1>2, <1>3, PlacesCounted

(* No recorded steer is lost, and none is served twice: counted over its   *)
(* places there is exactly one, for as long as the program is open.        *)
THEOREM SteersAreConserved == Spec => []SteerConserved
<1>1. Spec => [](TypeOK /\ Promotions) BY TypeCorrect
<1>2. Spec => []ControlSound BY ControlCorrect
<1>3. Spec => []SteersSound BY SteersPlaced
<1> QED BY <1>1, <1>2, <1>3, SteersCounted, PTL

-----------------------------------------------------------------------------
(* The places of an item of the queue.                                     *)
QueueHand == {"yielding", "journalingQueued"}

Bears(h, i) == pc[h] \in QueueHand /\ run[promo[h]].carried = i
Delivers(k, i) ==
  /\ k \in DOMAIN journal /\ journal[k].type = "user_message"
  /\ Occurs(i, journal[k].of)
Strays(r, i) ==
  /\ run[r].origin = "queue" /\ run[r].carried = i /\ ~run[r].gate
  /\ \A h \in Hosts : promo[h] # r

InQueue(i) == Occurs(i, queue)
InHand(i) == \E h \in Hosts : Bears(h, i)
Delivered(i) == \E k \in DOMAIN journal : Delivers(k, i)
Left(i) == \E r \in Runs : Strays(r, i)

OneItemPlace(i) ==
  /\ InQueue(i) => ~InHand(i) /\ ~Delivered(i) /\ ~Left(i) /\ ~Dropped(i)
  /\ InHand(i) => ~Delivered(i) /\ ~Left(i) /\ ~Dropped(i)
  /\ Delivered(i) => ~Left(i) /\ ~Dropped(i)
  /\ Left(i) => ~Dropped(i)

SomeItemPlace(i) ==
  InQueue(i) \/ InHand(i) \/ Delivered(i) \/ Left(i) \/ Dropped(i)

(* An accepted item is in exactly one place, once.                         *)
ItemSound(i) ==
  /\ OneItemPlace(i)
  /\ pc[i] = "queued" /\ shutdown # "closed" => SomeItemPlace(i)
  /\ InQueue(i) \/ InHand(i) \/ Delivered(i) \/ Left(i) => pc[i] = "queued"
  /\ \A k, l \in DOMAIN journal : Delivers(k, i) /\ Delivers(l, i) => k = l
  /\ \A q, r \in Runs : Strays(q, i) /\ Strays(r, i) => q = r
  /\ \A g, h \in Hosts : Bears(g, i) /\ Bears(h, i) => g = h

(* Promotions do not share a Run; the gate of the Run is closed while its  *)
(* item is in hand, and open once the item went back to the queue.         *)
HandsSound ==
  /\ \A r \in Runs : r > started => run[r].origin = "none"
  /\ \A h \in Hosts : pc[h] = "gatheringQueue" => run[promo[h]].gate
  /\ \A h \in Hosts : pc[h] \in QueueHand => ~run[promo[h]].gate
  /\ \A g, h \in Hosts : promo[g] = promo[h] /\ promo[g] # None => g = h

ItemsSound ==
  /\ IsInjective(queue) /\ HandsSound
  /\ \A i \in Input : ItemSound(i)

(* No item is delivered.                                                   *)
NoDelivery ==
  \/ journal' = journal
  \/ \E e : /\ journal' = Append(journal, e)
            /\ e.type # "user_message" \/ e.of = <<>>

(* The journal delivers of i what it delivered.                            *)
SameDeliveries(i) ==
  /\ DOMAIN journal \subseteq DOMAIN journal'
  /\ \A k \in DOMAIN journal' : Delivers(k, i)' <=> Delivers(k, i)

SameBearing == \A h \in Hosts, i \in Input : Bears(h, i)' <=> Bears(h, i)
SameStrays == \A r \in Runs, i \in Input : Strays(r, i)' <=> Strays(r, i)

(* An item that stays where it is is still in one place.                   *)
LEMMA ItemStays ==
  ASSUME NEW i \in Input, ItemSound(i), StaysOpen,
         pc'[i] = "queued" <=> pc[i] = "queued",
         InQueue(i)' <=> InQueue(i),
         \A h \in Hosts : Bears(h, i)' <=> Bears(h, i),
         \A r \in Runs : Strays(r, i)' <=> Strays(r, i),
         SameDeliveries(i),
         (Dropped(i)' <=> Dropped(i)) \/ (Dropped(i)' /\ pc[i] # "queued")
  PROVE  ItemSound(i)'
<1>1. InHand(i)' <=> InHand(i) BY DEF InHand
<1>2. Left(i)' <=> Left(i) BY DEF Left
<1>3. Delivered(i)' <=> Delivered(i)
  BY DEF SameDeliveries, Delivered, Delivers
<1>4. OneItemPlace(i)' BY <1>1, <1>2, <1>3 DEF ItemSound, OneItemPlace
<1>5. pc'[i] = "queued" /\ shutdown' # "closed" => SomeItemPlace(i)'
  BY <1>1, <1>2, <1>3 DEF ItemSound, SomeItemPlace, StaysOpen
<1>6. \A k, l \in DOMAIN journal' : Delivers(k, i)' /\ Delivers(l, i)' => k = l
  BY DEF SameDeliveries, ItemSound, Delivers
<1>7. /\ \A q, r \in Runs : Strays(q, i)' /\ Strays(r, i)' => q = r
      /\ \A g, h \in Hosts : Bears(g, i)' /\ Bears(h, i)' => g = h
      /\ InQueue(i)' \/ InHand(i)' \/ Delivered(i)' \/ Left(i)' => pc'[i] = "queued"
  BY <1>1, <1>2, <1>3 DEF ItemSound
<1> QED BY <1>4, <1>5, <1>6, <1>7 DEF ItemSound

(* A record that delivers nothing, or not i.                               *)
LEMMA JournalDelivers ==
  ASSUME journal \in Seq(Record), NEW i \in Input,
         \/ journal' = journal
         \/ \E e : /\ journal' = Append(journal, e)
                   /\ e.type # "user_message" \/ ~Occurs(i, e.of)
  PROVE  SameDeliveries(i)
<1>1. CASE journal' = journal
  BY <1>1 DEF SameDeliveries, Delivers
<1>2. ASSUME NEW e, journal' = Append(journal, e),
             e.type # "user_message" \/ ~Occurs(i, e.of)
      PROVE  SameDeliveries(i)
  <2>1. /\ DOMAIN journal = 1 .. Len(journal) /\ Len(journal) \in Nat
        /\ DOMAIN journal' = 1 .. Len(journal) + 1
        /\ \A k \in 1 .. Len(journal) : journal'[k] = journal[k]
        /\ journal'[Len(journal) + 1] = e
    BY <1>2
  <2>2. ASSUME NEW k \in DOMAIN journal' PROVE Delivers(k, i)' <=> Delivers(k, i)
    <3>1. CASE k \in DOMAIN journal BY <2>1, <3>1 DEF Delivers
    <3>2. CASE k = Len(journal) + 1 BY <1>2, <2>1, <3>2 DEF Delivers
    <3> QED BY <2>1, <3>1, <3>2
  <2> QED BY <2>1, <2>2 DEF SameDeliveries
<1> QED BY <1>1, <1>2

(* A step that appends nothing delivers nothing.                           *)
LEMMA NothingDelivered ==
  ASSUME TypeOK, NoDelivery, NEW i \in Input
  PROVE  SameDeliveries(i)
<1>1. ~Occurs(i, <<>>) BY DEF Occurs
<1>2. journal \in Seq(Record) BY DEF TypeOK, StateTypes
<1> QED BY <1>1, <1>2, JournalDelivers DEF NoDelivery

(* A step that is about no item keeps the invariant.                       *)
LEMMA QuietItems ==
  ASSUME TypeOK, ItemsSound, HandsSound', StaysOpen, NoDelivery,
         SameBearing, SameStrays, queue' = queue,
         \A i \in Input : pc'[i] = "queued" <=> pc[i] = "queued",
         \A i \in Input :
           (Dropped(i)' <=> Dropped(i)) \/ (Dropped(i)' /\ pc[i] # "queued")
  PROVE  ItemsSound'
<1>1. ASSUME NEW i \in Input PROVE ItemSound(i)'
  <2>1. SameDeliveries(i) BY NothingDelivered
  <2>2. InQueue(i)' <=> InQueue(i) BY DEF InQueue
  <2>3. /\ \A h \in Hosts : Bears(h, i)' <=> Bears(h, i)
        /\ \A r \in Runs : Strays(r, i)' <=> Strays(r, i)
    BY DEF SameBearing, SameStrays
  <2>4. ItemSound(i) BY DEF ItemsSound
  <2> QED BY <2>1, <2>2, <2>3, <2>4, ItemStays
<1> QED BY <1>1 DEF ItemsSound

-----------------------------------------------------------------------------
(* What steps do to the hands of the hosts.                                *)

(* Every Run in "runs" is who it is, and its gate as it is if it came from *)
(* the queue.                                                              *)
QueueGates(runs) ==
  \A q \in Runs : /\ SameIdentity(runs[q], run[q])
                  /\ run[q].origin = "queue" => runs[q].gate = run[q].gate

(* Which hosts are promoting from the queue, and what, stays.              *)
LEMMA SameHands ==
  ASSUME TypeOK, Promotions, HandsSound, QueueGates(run'), promo' = promo,
         started' = started,
         \A h \in Hosts : \/ pc'[h] = pc[h]
                          \/ pc[h] \notin QueuePromotion /\ pc'[h] \notin QueuePromotion
  PROVE  HandsSound' /\ SameBearing /\ SameStrays
<1>1. QueueHand \subseteq QueuePromotion /\ QueuePromotion \subseteq Promoting
      /\ "gatheringQueue" \in QueuePromotion
  BY DEF QueueHand, QueuePromotion, Promoting
<1>2. ASSUME NEW h \in Hosts, pc[h] \in QueuePromotion
      PROVE  /\ promo[h] \in Runs /\ run[promo[h]].origin = "queue"
             /\ run'[promo[h]].carried = run[promo[h]].carried
             /\ run'[promo[h]].gate = run[promo[h]].gate
  <2>1. promo[h] \in Runs /\ promo[h] # None
    BY <1>1, <1>2, RuntimeAssumption DEF TypeOK, ControlPoints
  <2>2. run[promo[h]].origin = "queue" BY <1>2, <2>1 DEF Promotions
  <2> QED BY <2>1, <2>2 DEF QueueGates, SameIdentity
<1>3. SameBearing BY <1>1, <1>2 DEF SameBearing, Bears
<1>4. SameStrays BY DEF SameStrays, Strays, QueueGates, SameIdentity
<1>5. \A r \in Runs : r > started' => run'[r].origin = "none"
  BY DEF HandsSound, QueueGates, SameIdentity
<1>6. \A h \in Hosts : /\ pc'[h] = "gatheringQueue" => run'[promo'[h]].gate
                       /\ pc'[h] \in QueueHand => ~run'[promo'[h]].gate
  BY <1>1, <1>2 DEF HandsSound
<1> QED BY <1>3, <1>4, <1>5, <1>6 DEF HandsSound

(* A host that was promoting nothing from the queue ends.                  *)
LEMMA HandsEnd ==
  ASSUME TypeOK, Promotions, HandsSound, QueueGates(run'), started' = started,
         NEW h \in Hosts, pc[h] \notin QueuePromotion, EndHost(h)
  PROVE  /\ HandsSound' /\ SameBearing /\ SameStrays
         /\ \A i \in Input : pc'[i] = pc[i]
<1>1. QueueHand \subseteq QueuePromotion /\ QueuePromotion \subseteq Promoting
      /\ "gatheringQueue" \in QueuePromotion
      /\ "done" \notin QueuePromotion /\ "idle" \notin QueuePromotion
  BY DEF QueueHand, QueuePromotion, Promoting
<1>2. ASSUME NEW g \in Hosts, pc[g] \in QueuePromotion
      PROVE  /\ promo[g] \in Runs /\ run[promo[g]].origin = "queue"
             /\ run'[promo[g]].carried = run[promo[g]].carried
             /\ run'[promo[g]].gate = run[promo[g]].gate
  <2>1. promo[g] \in Runs /\ promo[g] # None
    BY <1>1, <1>2, RuntimeAssumption DEF TypeOK, ControlPoints
  <2>2. run[promo[g]].origin = "queue" BY <1>2, <2>1 DEF Promotions
  <2> QED BY <2>1, <2>2 DEF QueueGates, SameIdentity
<1>3. /\ Input \subseteq Tasks /\ Hosts \subseteq Tasks /\ Input \cap Hosts = {}
      /\ pc \in [Tasks -> RunPoints \cup CallerPoints \cup InputPoints]
      /\ promo \in [Hosts -> Runs \cup {None}]
  BY RuntimeAssumption DEF TypeOK, ControlPoints, Tasks, Hosts
<1>4. /\ pc'[h] \in {"done", "idle"} /\ promo'[h] = None
      /\ \A t \in Tasks \ {h} : pc'[t] = pc[t]
      /\ \A g \in Hosts \ {h} : promo'[g] = promo[g]
  BY <1>3 DEF EndHost
<1>5. SameBearing
  <2>1. ASSUME NEW i \in Input PROVE Bears(h, i)' <=> Bears(h, i)
    BY <1>1, <1>4 DEF Bears
  <2>2. ASSUME NEW g \in Hosts, NEW i \in Input, g # h
        PROVE  Bears(g, i)' <=> Bears(g, i)
    BY <1>1, <1>2, <1>3, <1>4, <2>2 DEF Bears
  <2> QED BY <2>1, <2>2 DEF SameBearing
<1>6. promo[h] = None \/ (promo[h] \in Runs /\ run[promo[h]].origin # "queue")
  BY <1>3 DEF Promotions
<1>7. ASSUME NEW r \in Runs, run[r].origin = "queue"
      PROVE  (\A g \in Hosts : promo'[g] # r) <=> (\A g \in Hosts : promo[g] # r)
  <2>1. promo[h] # r /\ promo'[h] # r
    BY <1>4, <1>6, <1>7, RuntimeAssumption
  <2> QED BY <1>4, <2>1
<1>8. SameStrays BY <1>7 DEF SameStrays, Strays, QueueGates, SameIdentity
<1>9. \A r \in Runs : r > started' => run'[r].origin = "none"
  BY DEF HandsSound, QueueGates, SameIdentity
<1>10. \A g \in Hosts : /\ pc'[g] = "gatheringQueue" => run'[promo'[g]].gate
                        /\ pc'[g] \in QueueHand => ~run'[promo'[g]].gate
  BY <1>1, <1>2, <1>3, <1>4 DEF HandsSound
<1>11. \A f, g \in Hosts : promo'[f] = promo'[g] /\ promo'[f] # None => f = g
  BY <1>4 DEF HandsSound
<1>12. \A i \in Input : pc'[i] = pc[i] BY <1>3, <1>4
<1> QED BY <1>5, <1>8, <1>9, <1>10, <1>11, <1>12 DEF HandsSound

(* A promotion: only a promotion from the queue bears an item.             *)
LEMMA HandsPromote ==
  ASSUME TypeOK, Promotions, HandsSound, NEW h \in Hosts,
         pc[h] \notin QueuePromotion \cup {"absent"},
         NEW runs \in [Runs -> RunRecord], QueueGates(runs),
         NEW origin, NEW i \in Input, NEW at \in {"yielding", "activatingFallback"},
         origin = "queue" <=> at = "yielding",
         Promote(h, origin, i, at, runs), NEW n, n = Next1
  PROVE  /\ HandsSound' /\ SameStrays
         /\ \A g \in Hosts, j \in Input :
              Bears(g, j)' <=> Bears(g, j) \/ (g = h /\ j = i /\ at = "yielding")
         /\ \A j \in Input : pc'[j] = pc[j]
<1> DEFINE x == CreatedRun(origin, i, sub[i].behaviour)
<1>1. /\ h \in Runs => pc[h] # "absent"
      /\ run' = [runs EXCEPT ![n] = x] /\ promo' = [promo EXCEPT ![h] = n]
      /\ pc' = [pc EXCEPT ![n] = "created", ![h] = at]
      /\ started \in Nat /\ started' = n
  BY DEF Promote, TypeOK, StateTypes
<1>2. at \in Promoting BY DEF Promoting
<1>3. n \in Runs /\ h # n BY <1>1, <1>2, PointsPromote
<1>4. /\ Input \subseteq Tasks /\ Hosts \subseteq Tasks /\ n \in Hosts
      /\ Input \cap Hosts = {} /\ Runs \subseteq Hosts /\ None \notin Runs
      /\ pc \in [Tasks -> RunPoints \cup CallerPoints \cup InputPoints]
      /\ promo \in [Hosts -> Runs \cup {None}]
      /\ \A g \in Hosts : promo[g] # None <=> pc[g] \in Promoting
      /\ pc[n] = "absent"
  BY <1>1, <1>3, RuntimeAssumption DEF TypeOK, ControlPoints, Tasks, Hosts, Next1
<1>5. x.origin = origin /\ x.carried = i /\ (origin = "queue" => ~x.gate)
  BY DEF CreatedRun
<1>6. started < n /\ n > started /\ \A r \in Runs : r > n => r > started
  BY <1>1, <1>3 DEF Next1, Runs
<1>7. /\ QueueHand \subseteq QueuePromotion /\ QueuePromotion \subseteq Promoting
      /\ "created" \notin QueuePromotion /\ "absent" \notin QueuePromotion
      /\ "gatheringQueue" \in QueuePromotion /\ at # "gatheringQueue"
      /\ at \in QueueHand <=> at = "yielding"
  BY DEF QueueHand, QueuePromotion, Promoting
<1> HIDE DEF x
<1>8. /\ run'[n] = x /\ pc'[n] = "created" /\ pc'[h] = at /\ promo'[h] = n
      /\ \A q \in Runs \ {n} : run'[q] = runs[q]
      /\ \A t \in Tasks \ {n, h} : pc'[t] = pc[t]
      /\ \A g \in Hosts \ {h} : promo'[g] = promo[g]
  BY <1>1, <1>3, <1>4
<1>9. \A g \in Hosts : promo[g] # n
  <2> SUFFICES ASSUME NEW g \in Hosts, promo[g] = n PROVE FALSE OBVIOUS
  <2>1. promo[g] # None /\ promo[g] <= started BY <1>3, <1>4 DEF Promotions
  <2> QED BY <1>1, <1>3, <1>6, <2>1 DEF Runs
<1>10. ASSUME NEW g \in Hosts, pc[g] \in QueuePromotion
       PROVE  /\ promo[g] \in Runs \ {n} /\ run[promo[g]].origin = "queue"
              /\ run'[promo[g]].carried = run[promo[g]].carried
              /\ run'[promo[g]].gate = run[promo[g]].gate
  <2>1. promo[g] \in Runs /\ promo[g] # None BY <1>4, <1>7, <1>10
  <2>2. run[promo[g]].origin = "queue" BY <1>10, <2>1 DEF Promotions
  <2>3. promo[g] # n BY <1>9
  <2> QED BY <1>8, <2>1, <2>2, <2>3 DEF QueueGates, SameIdentity
<1>11. ASSUME NEW g \in Hosts, NEW j \in Input
       PROVE  Bears(g, j)' <=> Bears(g, j) \/ (g = h /\ j = i /\ at = "yielding")
  <2>1. CASE g = h
    <3>1. ~Bears(g, j) BY <1>7, <2>1 DEF Bears
    <3>2. pc'[g] = at /\ run'[promo'[g]].carried = i BY <1>5, <1>8, <2>1
    <3> QED BY <1>7, <2>1, <3>1, <3>2 DEF Bears
  <2>2. CASE g = n BY <1>3, <1>4, <1>7, <1>8, <2>2 DEF Bears
  <2>3. CASE g # h /\ g # n
    <3>1. pc'[g] = pc[g] /\ promo'[g] = promo[g] BY <1>4, <1>8, <2>3
    <3> QED BY <1>7, <1>10, <2>3, <3>1 DEF Bears
  <2> QED BY <2>1, <2>2, <2>3
<1>12. ASSUME NEW r \in Runs, NEW j \in Input
       PROVE  Strays(r, j)' <=> Strays(r, j)
  <2>1. CASE r = n
    <3>1. ~Strays(r, j)' BY <1>8, <2>1 DEF Strays
    <3>2. run[r].origin = "none" BY <1>6, <2>1 DEF HandsSound
    <3> QED BY <3>1, <3>2 DEF Strays
  <2>2. CASE r # n
    <3>1. run'[r] = runs[r] BY <1>8, <2>2
    <3>2. CASE run[r].origin # "queue"
      BY <3>1, <3>2 DEF Strays, QueueGates, SameIdentity
    <3>3. CASE run[r].origin = "queue"
      <4>1. promo[h] # r BY <1>4, <3>3 DEF Promotions
      <4>2. (\A g \in Hosts : promo'[g] # r) <=> (\A g \in Hosts : promo[g] # r)
        BY <1>8, <2>2, <4>1
      <4> QED BY <3>1, <3>3, <4>2 DEF Strays, QueueGates, SameIdentity
    <3> QED BY <3>2, <3>3
  <2> QED BY <2>1, <2>2
<1>13. \A r \in Runs : r > started' => run'[r].origin = "none"
  <2> SUFFICES ASSUME NEW r \in Runs, r > n PROVE run'[r].origin = "none"
    BY <1>1
  <2>1. r # n /\ r > started BY <1>3, <1>6 DEF Runs
  <2> QED BY <1>8, <2>1 DEF HandsSound, QueueGates, SameIdentity
<1>14. ASSUME NEW g \in Hosts
       PROVE  /\ pc'[g] = "gatheringQueue" => run'[promo'[g]].gate
              /\ pc'[g] \in QueueHand => ~run'[promo'[g]].gate
  <2>1. CASE g = h BY <1>5, <1>7, <1>8, <2>1
  <2>2. CASE g = n BY <1>3, <1>4, <1>7, <1>8, <2>2
  <2>3. CASE g # h /\ g # n
    <3>1. pc'[g] = pc[g] /\ promo'[g] = promo[g] BY <1>4, <1>8, <2>3
    <3> QED BY <1>7, <1>10, <3>1 DEF HandsSound
  <2> QED BY <2>1, <2>2, <2>3
<1>15. \A f, g \in Hosts : promo'[f] = promo'[g] /\ promo'[f] # None => f = g
  BY <1>8, <1>9 DEF HandsSound
<1>16. \A j \in Input : pc'[j] = pc[j] BY <1>4, <1>8
<1> QED BY <1>11, <1>12, <1>13, <1>14, <1>15, <1>16 DEF HandsSound, SameStrays

(* A step of host h, promoting Run b from the queue, that may change the   *)
(* gate of b: it goes on at another await, or ends.                        *)
LEMMA HandsMove ==
  ASSUME TypeOK, Promotions, HandsSound, NEW h \in Hosts, pc[h] \in QueuePromotion,
         NEW b, b = promo[h], Identities(run'), started' = started,
         \A q \in Runs \ {b} : run'[q].gate = run[q].gate,
         NEW at \in QueuePromotion \cup {"done", "idle"},
         pc'[h] = at, \A t \in Tasks \ {h} : pc'[t] = pc[t],
         \A g \in Hosts \ {h} : promo'[g] = promo[g],
         promo'[h] = IF at \in QueuePromotion THEN b ELSE None,
         at = "gatheringQueue" => run'[b].gate,
         at \in QueueHand => ~run'[b].gate
  PROVE  /\ HandsSound' /\ \A j \in Input : pc'[j] = pc[j]
         /\ b \in Runs
         /\ \A g \in Hosts \ {h} : \A j \in Input : Bears(g, j)' <=> Bears(g, j)
         /\ \A j \in Input :
              Bears(h, j)' <=> at \in QueueHand /\ run[b].carried = j
         /\ \A q \in Runs \ {b} : \A j \in Input : Strays(q, j)' <=> Strays(q, j)
         /\ \A j \in Input :
              /\ ~Strays(b, j)
              /\ Strays(b, j)' <=> /\ at \notin QueuePromotion /\ ~run'[b].gate
                                   /\ run[b].carried = j
<1>1. /\ QueueHand \subseteq QueuePromotion /\ QueuePromotion \subseteq Promoting
      /\ "gatheringQueue" \in QueuePromotion
      /\ "done" \notin QueuePromotion /\ "idle" \notin QueuePromotion
  BY DEF QueueHand, QueuePromotion, Promoting
<1>2. /\ Input \subseteq Tasks /\ Hosts \subseteq Tasks /\ Input \cap Hosts = {}
      /\ None \notin Runs /\ promo \in [Hosts -> Runs \cup {None}]
      /\ \A g \in Hosts : promo[g] # None <=> pc[g] \in Promoting
  BY RuntimeAssumption DEF TypeOK, ControlPoints, Tasks, Hosts
<1>3. b \in Runs /\ run[b].origin = "queue" /\ b # None
  BY <1>1, <1>2 DEF Promotions
<1>4. ASSUME NEW g \in Hosts, g # h, promo[g] # None
      PROVE  promo[g] \in Runs \ {b}
  BY <1>2, <1>3, <1>4 DEF HandsSound
<1>5. ASSUME NEW g \in Hosts, g # h, pc[g] \in QueuePromotion
      PROVE  /\ promo[g] \in Runs \ {b}
             /\ run'[promo[g]].carried = run[promo[g]].carried
             /\ run'[promo[g]].gate = run[promo[g]].gate
  <2>1. promo[g] \in Runs \ {b} BY <1>1, <1>2, <1>4, <1>5
  <2> QED BY <2>1 DEF Identities, SameIdentity
<1>6. \A g \in Hosts \ {h} : pc'[g] = pc[g] BY <1>2
<1>7. \A g \in Hosts \ {h} : \A j \in Input : Bears(g, j)' <=> Bears(g, j)
  BY <1>1, <1>5, <1>6 DEF Bears
<1>8. \A j \in Input : Bears(h, j)' <=> at \in QueueHand /\ run[b].carried = j
  BY <1>1, <1>3 DEF Bears, Identities, SameIdentity
<1>9. ASSUME NEW q \in Runs, q # b, NEW j \in Input
      PROVE  Strays(q, j)' <=> Strays(q, j)
  <2>1. promo'[h] # q /\ promo[h] # q BY <1>2, <1>9
  <2>2. (\A g \in Hosts : promo'[g] # q) <=> (\A g \in Hosts : promo[g] # q)
    BY <2>1
  <2> QED BY <1>9, <2>2 DEF Strays, Identities, SameIdentity
<1>10. ASSUME NEW j \in Input
       PROVE  /\ ~Strays(b, j)
              /\ Strays(b, j)' <=> /\ at \notin QueuePromotion /\ ~run'[b].gate
                                   /\ run[b].carried = j
  <2>1. ~Strays(b, j) BY DEF Strays
  <2>2. \A g \in Hosts \ {h} : promo'[g] # b BY <1>3, <1>4
  <2>3. (\A g \in Hosts : promo'[g] # b) <=> at \notin QueuePromotion
    BY <1>3, <2>2
  <2> QED BY <1>3, <2>1, <2>3 DEF Strays, Identities, SameIdentity
<1>11. \A r \in Runs : r > started' => run'[r].origin = "none"
  BY DEF HandsSound, Identities, SameIdentity
<1>12. ASSUME NEW g \in Hosts
       PROVE  /\ pc'[g] = "gatheringQueue" => run'[promo'[g]].gate
              /\ pc'[g] \in QueueHand => ~run'[promo'[g]].gate
  <2>1. CASE g = h BY <1>1, <2>1
  <2>2. CASE g # h
    <3>1. pc'[g] = pc[g] /\ promo'[g] = promo[g] BY <1>6, <2>2
    <3> QED BY <1>1, <1>5, <2>2, <3>1 DEF HandsSound
  <2> QED BY <2>1, <2>2
<1>13. \A f, g \in Hosts : promo'[f] = promo'[g] /\ promo'[f] # None => f = g
  <2>1. \A g \in Hosts \ {h} : promo'[g] # None => promo'[g] # b BY <1>4
  <2> QED BY <2>1 DEF HandsSound
<1>14. \A j \in Input : pc'[j] = pc[j] BY <1>2
<1> QED
  BY <1>3, <1>7, <1>8, <1>9, <1>10, <1>11, <1>12, <1>13, <1>14 DEF HandsSound

-----------------------------------------------------------------------------
(* Promotions and the items.                                               *)

(* A promotion from the queue takes its first item, and no other moves.    *)
LEMMA QueueItemsStep ==
  ASSUME TypeOK, Promotions, ItemsSound, NEW h \in Hosts,
         pc[h] \notin QueuePromotion \cup {"absent"},
         NEW runs \in [Runs -> RunRecord], QueueGates(runs),
         NEW isPaused, NEW holder,
         \/ NoPromotion(h, runs) /\ queue' = queue
         \/ TryPromoteQueue(h, runs, isPaused, holder),
         journal' = journal, forgotten' = forgotten, StaysOpen
  PROVE  ItemsSound'
<1>1. NoDelivery /\ HandsSound BY DEF NoDelivery, ItemsSound
<1>2. CASE NoPromotion(h, runs) /\ queue' = queue
  <2>1. run' = runs /\ EndHost(h) /\ started' = started
    BY <1>2 DEF NoPromotion
  <2>2. /\ HandsSound' /\ SameBearing /\ SameStrays
        /\ \A i \in Input : pc'[i] = pc[i]
    BY <1>1, <2>1, HandsEnd
  <2> QED BY <1>1, <1>2, <2>2, QuietItems DEF Dropped
<1>3. CASE /\ queue # <<>> /\ Promote(h, "queue", Head(queue), "yielding", runs)
           /\ queue' = Tail(queue)
  <2> PICK n, i : n = Next1 /\ i = Head(queue) OBVIOUS
  <2>1. queue \in Seq(Input) /\ i \in Input
    BY <1>3 DEF TypeOK, StateTypes
  <2> DEFINE at == "yielding"
             o == "queue"
  <2>2. /\ at \in {"yielding", "activatingFallback"} /\ (o = "queue" <=> at = "yielding")
        /\ Promote(h, o, i, at, runs) /\ at = "yielding"
    BY <1>3
  <2> HIDE DEF at, o
  <2>3. /\ HandsSound' /\ SameStrays
        /\ \A g \in Hosts, j \in Input :
             Bears(g, j)' <=> Bears(g, j) \/ (g = h /\ j = i)
        /\ \A j \in Input : pc'[j] = pc[j]
    BY <1>1, <2>1, <2>2, HandsPromote
  <2>4. /\ IsInjective(Tail(queue)) /\ ~Occurs(i, Tail(queue))
        /\ \A j : Occurs(j, queue) <=> j = i \/ Occurs(j, Tail(queue))
    BY <1>3, <2>1, InjectiveTail, OccursTail DEF ItemsSound
  <2>5. ASSUME NEW j \in Input PROVE ItemSound(j)'
    <3>1. ItemSound(j) /\ SameDeliveries(j) /\ (Dropped(j)' <=> Dropped(j))
      BY <1>1, NothingDelivered DEF ItemsSound, Dropped
    <3>2. CASE j # i
      <4>1. InQueue(j)' <=> InQueue(j) BY <1>3, <2>4, <3>2 DEF InQueue
      <4>2. /\ \A g \in Hosts : Bears(g, j)' <=> Bears(g, j)
            /\ \A r \in Runs : Strays(r, j)' <=> Strays(r, j)
        BY <2>3, <3>2 DEF SameStrays
      <4> QED BY <2>3, <3>1, <4>1, <4>2, ItemStays
    <3>3. CASE j = i
      <4>1. InQueue(j) /\ ~InQueue(j)' BY <1>3, <2>4, <3>3 DEF InQueue
      <4>2. /\ ~InHand(j) /\ ~Delivered(j) /\ ~Left(j) /\ ~Dropped(j)
            /\ pc[j] = "queued"
        BY <3>1, <4>1 DEF ItemSound, OneItemPlace
      <4>3. \A g \in Hosts : Bears(g, j)' <=> g = h
        BY <2>3, <3>3, <4>2 DEF InHand
      <4>4. InHand(j)' BY <4>3 DEF InHand
      <4>5. /\ Delivered(j)' <=> Delivered(j)
            /\ Left(j)' <=> Left(j)
            /\ \A k, l \in DOMAIN journal' : Delivers(k, j)' /\ Delivers(l, j)' => k = l
            /\ \A q, r \in Runs : Strays(q, j)' /\ Strays(r, j)' => q = r
        BY <2>3, <3>1
        DEF SameDeliveries, ItemSound, Delivers, Delivered, SameStrays, Left
      <4> QED
        BY <2>3, <3>1, <4>1, <4>2, <4>3, <4>4, <4>5
        DEF ItemSound, OneItemPlace, SomeItemPlace
    <3> QED BY <3>2, <3>3
  <2> QED BY <1>3, <2>3, <2>4, <2>5 DEF ItemsSound
<1> QED BY <1>2, <1>3 DEF TryPromoteQueue

(* The promotion of pending work by a host that held nothing of the queue. *)
LEMMA PendingItems ==
  ASSUME TypeOK, Promotions, ItemsSound, NEW h \in Hosts,
         pc[h] \notin QueuePromotion \cup {"absent"}, NEW holder,
         TryPromotePending(h, run, holder),
         journal' = journal, forgotten' = forgotten, StaysOpen
  PROVE  ItemsSound'
<1>1. run \in [Runs -> RunRecord] /\ QueueGates(run)
  BY DEF TypeOK, StateTypes, QueueGates, SameIdentity
<1>2. CASE \/ NoPromotion(h, run) /\ queue' = queue
           \/ TryPromoteQueue(h, run, paused, holder)
  BY <1>1, <1>2, QueueItemsStep
<1>3. CASE /\ fallbackQ # <<>> /\ queue' = queue
           /\ Promote(h, "steer", Head(fallbackQ), "activatingFallback", run)
  <2> PICK n, i : n = Next1 /\ i = Head(fallbackQ) OBVIOUS
  <2>1. i \in Input BY <1>3 DEF TypeOK, StateTypes
  <2> DEFINE at == "activatingFallback"
             o == "steer"
  <2>2. /\ at \in {"yielding", "activatingFallback"} /\ (o = "queue" <=> at = "yielding")
        /\ Promote(h, o, i, at, run) /\ at # "yielding"
    BY <1>3
  <2> HIDE DEF at, o
  <2>3. HandsSound BY DEF ItemsSound
  <2>4. /\ HandsSound' /\ SameStrays
        /\ \A g \in Hosts, j \in Input : Bears(g, j)' <=> Bears(g, j)
        /\ \A j \in Input : pc'[j] = pc[j]
    BY <1>1, <2>1, <2>2, <2>3, HandsPromote
  <2>5. NoDelivery /\ SameBearing BY <2>4 DEF NoDelivery, SameBearing
  <2> QED BY <1>3, <2>4, <2>5, QuietItems DEF Dropped
<1> QED BY <1>2, <1>3 DEF TryPromotePending

(* The item that host h bears leaves its hand: it goes back to the queue,  *)
(* into the journal, or stays behind the closed gate of its Run.           *)
LEMMA ItemLeaves ==
  ASSUME TypeOK, ItemsSound, StaysOpen, HandsSound', NEW h \in Hosts, NEW b \in Runs,
         NEW i \in Input, Bears(h, i), forgotten' = forgotten,
         \A j \in Input : pc'[j] = pc[j],
         \A g \in Hosts : \A j \in Input : Bears(g, j)' <=> Bears(g, j) /\ g # h,
         \A q \in Runs \ {b} : \A j \in Input : Strays(q, j)' <=> Strays(q, j),
         \A j \in Input : ~Strays(b, j),
         \/ /\ queue' = queue /\ journal' = journal
            /\ \A j \in Input : Strays(b, j)' <=> j = i
         \/ /\ queue' = queue /\ \A j \in Input : ~Strays(b, j)'
            /\ \E e : /\ journal' = Append(journal, e)
                      /\ e.type = "user_message" /\ e.of = <<i>>
         \/ /\ queue' = <<i>> \o queue /\ journal' = journal
            /\ \A j \in Input : ~Strays(b, j)'
  PROVE  ItemsSound'
<1>1. journal \in Seq(Record) /\ queue \in Seq(Input) /\ <<i>> \in Seq(Input)
  BY DEF TypeOK, StateTypes
<1>2. /\ \A j : Occurs(j, <<i>>) <=> j = i
      /\ IsInjective(<<i>>)
  BY DEF Occurs, IsInjective
<1>3. ItemSound(i) /\ InHand(i) BY DEF ItemsSound, InHand
<1>4. /\ ~InQueue(i) /\ ~Delivered(i) /\ ~Left(i) /\ ~Dropped(i) /\ pc[i] = "queued"
      /\ \A g \in Hosts : Bears(g, i) => g = h
  BY <1>3 DEF ItemSound, OneItemPlace
<1>5. ~InHand(i)' /\ \A g \in Hosts : ~Bears(g, i)' BY <1>4 DEF InHand
<1>6. ~Dropped(i)' BY <1>4 DEF Dropped
<1>7. \A q \in Runs \ {b} : ~Strays(q, i)' BY <1>4 DEF Left
<1>8. ASSUME NEW j \in Input, j # i PROVE InQueue(j)' <=> InQueue(j)
  <2>1. Occurs(j, <<i>> \o queue) <=> Occurs(j, queue)
    BY <1>1, <1>2, <1>8, OccursConcat
  <2> QED BY <2>1 DEF InQueue
<1>9. IsInjective(queue')
  <2>1. CASE queue' = queue BY <2>1 DEF ItemsSound
  <2>2. CASE queue' = <<i>> \o queue
    BY <1>1, <1>2, <1>4, <2>2, InjectiveConcat DEF ItemsSound, InQueue
  <2> QED BY <2>1, <2>2
<1>10. ASSUME NEW j \in Input, j # i PROVE ItemSound(j)'
  <2>1. ItemSound(j) /\ (Dropped(j)' <=> Dropped(j)) BY DEF ItemsSound, Dropped
  <2>2. SameDeliveries(j)
    <3>1. \/ journal' = journal
          \/ \E e : journal' = Append(journal, e) /\ ~Occurs(j, e.of)
      BY <1>2, <1>10
    <3> QED BY <1>1, <3>1, JournalDelivers
  <2>3. \A g \in Hosts : Bears(g, j)' <=> Bears(g, j)
    <3>1. ~Bears(h, j) BY <1>10 DEF Bears
    <3> QED BY <3>1
  <2>4. \A q \in Runs : Strays(q, j)' <=> Strays(q, j) BY <1>10
  <2> QED BY <1>8, <1>10, <2>1, <2>2, <2>3, <2>4, ItemStays
<1>11. ItemSound(i)'
  <2>1. CASE /\ queue' = queue /\ journal' = journal
             /\ \A j \in Input : Strays(b, j)' <=> j = i
    <3>1. ~InQueue(i)' /\ ~Delivered(i)' /\ \A k \in DOMAIN journal' : ~Delivers(k, i)'
      BY <1>4, <2>1 DEF InQueue, Delivered, Delivers
    <3>2. Left(i)' /\ \A q \in Runs : Strays(q, i)' => q = b
      BY <1>7, <2>1 DEF Left
    <3> QED
      BY <1>4, <1>5, <1>6, <3>1, <3>2 DEF ItemSound, OneItemPlace, SomeItemPlace
  <2>2. ASSUME queue' = queue, \A j \in Input : ~Strays(b, j)',
               NEW e, journal' = Append(journal, e),
               e.type = "user_message", e.of = <<i>>
        PROVE  ItemSound(i)'
    <3> PICK n : n = Len(journal) + 1 OBVIOUS
    <3>1. /\ DOMAIN journal = 1 .. n - 1 /\ n \in Nat \ {0}
          /\ DOMAIN journal' = 1 .. n
          /\ \A k \in 1 .. n - 1 : journal'[k] = journal[k]
          /\ journal'[n] = e
      BY <1>1, <2>2
    <3>2. \A k \in DOMAIN journal' : Delivers(k, i)' <=> k = n
      <4>1. \A k \in 1 .. n - 1 : ~Delivers(k, i)'
        BY <1>4, <3>1 DEF Delivers, Delivered
      <4>2. n \in DOMAIN journal' BY <3>1
      <4>3. Occurs(i, e.of) BY <1>2, <2>2
      <4>4. Delivers(n, i)' BY <2>2, <3>1, <4>2, <4>3 DEF Delivers
      <4> QED BY <3>1, <4>1, <4>4
    <3>3. Delivered(i)'
      <4>1. n \in DOMAIN journal' BY <3>1
      <4>2. Delivers(n, i)' BY <3>2, <4>1
      <4> QED BY <4>1, <4>2 DEF Delivered
    <3>4. ~InQueue(i)' BY <1>4, <2>2 DEF InQueue
    <3>5. ~Left(i)' /\ \A q \in Runs : ~Strays(q, i)' BY <1>7, <2>2 DEF Left
    <3> QED
      BY <1>4, <1>5, <1>6, <3>2, <3>3, <3>4, <3>5
      DEF ItemSound, OneItemPlace, SomeItemPlace
  <2>3. CASE /\ queue' = <<i>> \o queue /\ journal' = journal
             /\ \A j \in Input : ~Strays(b, j)'
    <3>1. ~Delivered(i)' /\ \A k \in DOMAIN journal' : ~Delivers(k, i)'
      BY <1>4, <2>3 DEF Delivered, Delivers
    <3>2. InQueue(i)' BY <1>1, <1>2, <2>3, OccursConcat DEF InQueue
    <3>3. ~Left(i)' /\ \A q \in Runs : ~Strays(q, i)' BY <1>7, <2>3 DEF Left
    <3> QED
      BY <1>4, <1>5, <1>6, <3>1, <3>2, <3>3
      DEF ItemSound, OneItemPlace, SomeItemPlace
  <2> QED BY <2>1, <2>2, <2>3
<1> QED BY <1>9, <1>10, <1>11 DEF ItemsSound

-----------------------------------------------------------------------------
(* The steps of Runs and hosts.                                            *)

(* Every step of a Run before its tail keeps the invariant.                *)
LEMMA RunStepItems ==
  ASSUME TypeOK, TypeOK', Promotions, ControlSound, SteersSound, ItemsSound,
         NEW r \in Runs,
         RunStep(r) \/ AgentFails(r) \/ ApprovalReturns(r), ~RunEndNotified(r)
  PROVE  ItemsSound'
<1>1. /\ queue' = queue /\ shutdown' = shutdown /\ promo' = promo
      /\ Origins(run') /\ started' = started
      /\ forgotten' = forgotten \/ DiscardRecorded(r)
      /\ \A i \in Input : pc'[i] = pc[i]
      /\ \A h \in Hosts : \/ pc'[h] = pc[h]
                          \/ pc[h] \notin Promoting /\ pc'[h] \notin Promoting
  BY RunStepFacts
<1>2. QueueGates(run') BY <1>1 DEF QueueGates, Origins, SameOrigin
<1>3. QueuePromotion \subseteq Promoting BY DEF QueuePromotion, Promoting
<1>4. HandsSound' /\ SameBearing /\ SameStrays
  <2>1. HandsSound BY DEF ItemsSound
  <2>2. \A h \in Hosts :
          \/ pc'[h] = pc[h]
          \/ pc[h] \notin QueuePromotion /\ pc'[h] \notin QueuePromotion
    BY <1>1, <1>3
  <2> QED BY <1>1, <1>2, <2>1, <2>2, SameHands
<1>5. NoDelivery
  <2> DEFINE e(type, of) == [type |-> type, of |-> of, run |-> r]
  <2>1. \/ journal' = journal
        \/ journal' = Append(journal, e("user_message", <<>>))
        \/ journal' = Append(journal, e("activated", run[r].staged))
        \/ journal' = Append(journal, e("discarded", run[r].staged))
    BY DEF RunStep, AgentFails, ApprovalReturns, session, Written, WriteFails,
           CancelCallback, FirstStep, NeverStarted, UserMessageRecorded, GateOpens,
           StreamEnds, BoundaryEmpty, StagingRefused, StageSteers, SteersActivated,
           LoopCompletes, RunCancelled, SubmissionsReady, CleanupInterrupted,
           DiscardRecorded, RunEndInterrupted
  <2>2. \A type, of : e(type, of).type = type /\ e(type, of).of = of OBVIOUS
  <2> HIDE DEF e
  <2> QED BY <2>1, <2>2 DEF NoDelivery
<1>6. ASSUME NEW i \in Input
      PROVE  (Dropped(i)' <=> Dropped(i)) \/ (Dropped(i)' /\ pc[i] # "queued")
  <2>1. CASE forgotten' = forgotten BY <2>1 DEF Dropped
  <2>2. CASE DiscardRecorded(r)
    <3>1. /\ pc[r] = "discarding"
          /\ forgotten' = forgotten \/ forgotten' = forgotten \cup ToSet(run[r].staged)
      BY <2>2 DEF DiscardRecorded
    <3>2. ASSUME i \in ToSet(run[r].staged) PROVE pc[i] # "queued"
      <4>1. Discards(r, i) BY <3>1, <3>2 DEF Discards, ToSet, Occurs
      <4> QED BY <4>1 DEF ControlSound, RunSound
    <3> QED BY <3>1, <3>2 DEF Dropped
  <2> QED BY <1>1, <2>1, <2>2
<1>7. StaysOpen BY <1>1 DEF StaysOpen
<1> QED BY <1>1, <1>4, <1>5, <1>6, <1>7, QuietItems

(* What a promotion of a steer does to the Runs.                           *)
LEMMA FallbackRuns ==
  ASSUME TypeOK, Promotions, NEW h \in Hosts, promo[h] \in Runs,
         pc[h] \notin QueuePromotion, NEW runs, Identities(runs),
         \A q \in Runs \ {promo[h]} : runs[q].gate = run[q].gate
  PROVE  QueueGates(runs)
<1>1. run[promo[h]].origin # "queue" BY RuntimeAssumption DEF Promotions
<1> QED BY <1>1 DEF QueueGates, Identities

(* The other Runs, after a step of a host that promotes nothing.           *)
LEMMA HostGates ==
  ASSUME TypeOK, NEW h \in Hosts, HostStep(h),
         ~FallbackGathered(h), ~FallbackNotified(h)
  PROVE  \A q \in Runs \ {promo[h]} : run'[q].gate = run[q].gate
<1>1. promo[h] \in Runs BY HostShape
<1>2. PICK b : b = promo[h] OBVIOUS
<1>3. run \in [Runs -> RunRecord] /\ b \in Runs BY <1>1, <1>2 DEF TypeOK, StateTypes
<1>4. \/ run' = run
      \/ \E x : run' = [run EXCEPT ![b].gate = x]
      \/ \E x : run' = [run EXCEPT ![b].barrier = x]
      \/ \E x, y : run' = [run EXCEPT ![b].barrier = x, ![b].gate = y]
      \/ \E x : run' = [run EXCEPT ![b] = x]
  <2>1. CASE FallbackActivated(h)
    <3>1. \/ \E x : run' = [run EXCEPT ![b].barrier = x]
          \/ run' = [run EXCEPT ![b] = BarrierFailed(run[b])]
      BY <1>2, <1>3, <2>1 DEF FallbackActivated
    <3> QED BY <3>1
  <2>2. CASE FallbackAbandoned(h)
    <3>1. run' = [run EXCEPT ![b].gate = TRUE] BY <1>2, <2>2 DEF FallbackAbandoned
    <3> QED BY <3>1
  <2>3. CASE Yielded(h) \/ QueueGathered(h) \/ GatherInterrupted(h)
    <3>1. run' = run BY <2>3 DEF Yielded, QueueGathered, GatherInterrupted
    <3> QED BY <3>1
  <2>4. CASE QueuedInputRecorded(h)
    <3>1. \E x, y : run' = [run EXCEPT ![b].barrier = x, ![b].gate = y]
      BY <1>2, <2>4 DEF QueuedInputRecorded
    <3> QED BY <3>1
  <2>5. CASE QueuedInputKept(h)
    <3>1. run' = [run EXCEPT ![b] = [BarrierFailed(run[b]) EXCEPT !.gate = TRUE]]
      BY <1>2, <1>3, <2>5 DEF QueuedInputKept
    <3> QED BY <3>1
  <2>6. CASE QueueNotified(h)
    <3>1. run' = [run EXCEPT ![b].gate = TRUE] BY <1>2, <2>6 DEF QueueNotified
    <3> QED BY <3>1
  <2> QED BY <2>1, <2>2, <2>3, <2>4, <2>5, <2>6 DEF HostStep
<1> QED BY <1>2, <1>3, <1>4

(* The steps of a host that promotes a steer.                              *)
LEMMA FallbackItems ==
  ASSUME TypeOK, Promotions, SteersSound, ItemsSound, NEW h \in Hosts,
         \/ FallbackActivated(h) \/ FallbackAbandoned(h)
         \/ FallbackGathered(h) \/ FallbackNotified(h)
  PROVE  ItemsSound'
<1> USE DEF Goto, session
<1>0. HostStep(h) BY DEF HostStep
<1>1. /\ promo[h] \in Runs /\ shutdown' = shutdown /\ StaysOpen
      /\ pc[h] \in Promoting /\ run \in [Runs -> RunRecord] /\ HandsSound
      /\ pc \in [Tasks -> RunPoints \cup CallerPoints \cup InputPoints]
      /\ h \in Tasks /\ Input \subseteq Tasks /\ Hosts \subseteq Tasks /\ h \notin Input
  <2>1. promo[h] \in Runs /\ shutdown' = shutdown BY <1>0, HostShape
  <2>2. pc[h] \in Promoting BY <2>1, RuntimeAssumption DEF TypeOK, ControlPoints
  <2> QED
    BY <2>1, <2>2, RuntimeAssumption
    DEF StaysOpen, TypeOK, StateTypes, ControlPoints, ItemsSound, Tasks, Hosts
<1>2. PICK b, i : b = promo[h] /\ i = run[promo[h]].carried OBVIOUS
<1>3. b \in Runs /\ i \in Input
  BY <1>1, <1>2, RuntimeAssumption DEF Promotions
<1>4. pc[h] \notin QueuePromotion /\ pc[h] # "absent"
  BY <1>1 DEF QueuePromotion, Promoting, FallbackActivated, FallbackAbandoned,
         FallbackGathered, FallbackNotified
<1>5. CASE FallbackActivated(h) \/ FallbackAbandoned(h)
  <2>1. ~FallbackGathered(h) /\ ~FallbackNotified(h)
    BY <1>5 DEF FallbackActivated, FallbackAbandoned, FallbackGathered,
           FallbackNotified
  <2>2. QueueGates(run') BY <1>0, <1>1, <1>4, <2>1, HostRuns, HostGates, FallbackRuns
  <2>3. /\ queue' = queue /\ promo' = promo /\ started' = started
        /\ pc[h] \in AtFallback
        /\ \E at \in {"notifyingFallback", "abandoning", "gatheringFallback"} :
             pc' = [pc EXCEPT ![h] = at]
    BY <1>5 DEF FallbackActivated, FallbackAbandoned, AbandonRun, AtFallback
  <2>4. /\ pc'[h] \notin QueuePromotion
        /\ \A t \in Tasks \ {h} : pc'[t] = pc[t]
    BY <1>1, <2>3 DEF QueuePromotion
  <2>5. HandsSound' /\ SameBearing /\ SameStrays
    <3>1. \A g \in Hosts :
            \/ pc'[g] = pc[g]
            \/ pc[g] \notin QueuePromotion /\ pc'[g] \notin QueuePromotion
      BY <1>1, <1>4, <2>4
    <3> QED BY <1>1, <2>2, <2>3, <3>1, SameHands
  <2>6. NoDelivery
    <3> DEFINE e(type, r) == [type |-> type, of |-> <<run[promo[h]].carried>>, run |-> r]
    <3>1. \/ journal' = journal
          \/ journal' = Append(journal, e("activated", promo[h]))
          \/ journal' = Append(journal, e("discarded", sub[run[promo[h]].carried].target))
      BY <1>5 DEF FallbackActivated, FallbackAbandoned, Written, WriteFails
    <3>2. \A type, r : e(type, r).type = type OBVIOUS
    <3> HIDE DEF e
    <3> QED BY <3>1, <3>2 DEF NoDelivery
  <2>7. forgotten' = forgotten \/ forgotten' = forgotten \cup {i}
    BY <1>2, <1>5 DEF FallbackActivated, FallbackAbandoned
  <2>8. pc[i] = "steered"
    <3>1. Promotes(h, i) BY <1>2, <2>3 DEF Promotes
    <3>2. InPromotion(i) BY <3>1 DEF InPromotion
    <3> QED BY <1>3, <3>2 DEF SteersSound, SteerSound
  <2>9. \A j \in Input : pc'[j] = pc[j] BY <1>1, <2>4
  <2>10. \A j \in Input :
           (Dropped(j)' <=> Dropped(j)) \/ (Dropped(j)' /\ pc[j] # "queued")
    BY <2>7, <2>8 DEF Dropped
  <2> QED BY <1>1, <2>3, <2>5, <2>6, <2>9, <2>10, QuietItems
<1>6. CASE FallbackGathered(h)
  <2>1. /\ journal' = journal /\ forgotten' = forgotten
        /\ \/ NoPromotion(h, run) /\ queue' = queue
           \/ TryPromoteQueue(h, run, paused, maintenance)
    BY <1>6 DEF FallbackGathered
  <2>2. QueueGates(run) BY DEF QueueGates, SameIdentity
  <2>3. pc[h] \notin QueuePromotion \cup {"absent"} BY <1>4
  <2> QED BY <1>1, <2>1, <2>2, <2>3, QueueItemsStep
<1>7. CASE FallbackNotified(h)
  <2>1. PICK runs : runs = [run EXCEPT ![promo[h]].gate = TRUE] OBVIOUS
  <2>2. /\ journal' = journal /\ forgotten' = forgotten
        /\ \/ NoPromotion(h, runs) /\ queue' = queue
           \/ TryPromoteQueue(h, runs, paused, maintenance)
    BY <1>7, <2>1 DEF FallbackNotified
  <2>3. Identities(runs) /\ runs \in [Runs -> RunRecord]
    <3>1. runs = [run EXCEPT ![promo[h]] = [run[promo[h]] EXCEPT !.gate = TRUE]]
      BY <1>1, <2>1
    <3>2. SameIdentity([run[promo[h]] EXCEPT !.gate = TRUE], run[promo[h]])
      BY <1>1, IdentityUpdates
    <3>3. [run[promo[h]] EXCEPT !.gate = TRUE] \in RunRecord
      BY <1>1, GateSet
    <3> QED BY <1>1, <3>1, <3>2, <3>3, IdentityReplaced
  <2>4. QueueGates(runs) BY <1>1, <1>4, <2>1, <2>3, FallbackRuns
  <2>5. pc[h] \notin QueuePromotion \cup {"absent"} BY <1>4
  <2> QED BY <1>1, <2>2, <2>3, <2>4, <2>5, QueueItemsStep
<1> QED BY <1>5, <1>6, <1>7

(* The end of a host, and where it leaves it.                              *)
LEMMA EndedAt ==
  ASSUME TypeOK, NEW h \in Hosts, EndHost(h)
  PROVE  \E at \in {"done", "idle"} :
           /\ pc'[h] = at /\ \A t \in Tasks \ {h} : pc'[t] = pc[t]
           /\ \A g \in Hosts \ {h} : promo'[g] = promo[g]
           /\ promo'[h] = None
<1>1. /\ h \in Tasks /\ promo \in [Hosts -> Runs \cup {None}]
      /\ pc \in [Tasks -> RunPoints \cup CallerPoints \cup InputPoints]
  BY DEF TypeOK, ControlPoints, Tasks
<1>2. PICK at : at = IF h \in Runs THEN "done" ELSE "idle" OBVIOUS
<1>3. /\ pc' = [pc EXCEPT ![h] = at] /\ promo' = [promo EXCEPT ![h] = None]
      /\ at \in {"done", "idle"}
  BY <1>2 DEF EndHost
<1> QED BY <1>1, <1>3

(* The steps of a host that promotes from the queue.                       *)
LEMMA QueueHostItems ==
  ASSUME TypeOK, Promotions, ItemsSound, NEW h \in Hosts,
         pc[h] \in QueuePromotion,
         \/ Yielded(h) \/ QueuedInputRecorded(h) \/ QueuedInputKept(h)
         \/ QueueNotified(h) \/ QueueGathered(h) \/ GatherInterrupted(h)
  PROVE  ItemsSound'
<1> USE DEF Goto, session
<1>0. HostStep(h) BY DEF HostStep
<1>1. /\ promo[h] \in Runs /\ shutdown' = shutdown /\ StaysOpen
      /\ run \in [Runs -> RunRecord] /\ HandsSound
      /\ pc \in [Tasks -> RunPoints \cup CallerPoints \cup InputPoints]
      /\ h \in Tasks
  <2>1. promo[h] \in Runs /\ shutdown' = shutdown BY <1>0, HostShape
  <2> QED
    BY <2>1 DEF StaysOpen, TypeOK, StateTypes, ControlPoints, ItemsSound, Tasks
<1>2. PICK b, i : b = promo[h] /\ i = run[promo[h]].carried OBVIOUS
<1>3. b \in Runs /\ i \in Input /\ run[b].carried = i
  BY <1>1, <1>2, RuntimeAssumption DEF Promotions
<1>4. ~FallbackGathered(h) /\ ~FallbackNotified(h)
  BY DEF FallbackGathered, FallbackNotified, QueuePromotion
<1>5. /\ Identities(run') /\ \A q \in Runs \ {b} : run'[q].gate = run[q].gate
      /\ forgotten' = forgotten /\ started' = started
  <2>1. Identities(run') BY <1>0, <1>4, HostRuns
  <2>2. \A q \in Runs \ {promo[h]} : run'[q].gate = run[q].gate
    BY <1>0, <1>4, HostGates
  <2>3. forgotten' = forgotten /\ started' = started
    BY DEF Yielded, QueuedInputRecorded, QueuedInputKept, QueueNotified,
           QueueGathered, GatherInterrupted
  <2> QED BY <1>2, <2>1, <2>2, <2>3
<1>6. /\ QueueHand = {"yielding", "journalingQueued"}
      /\ QueuePromotion = {"yielding", "journalingQueued", "notifyingQueued",
                           "gatheringQueue"}
  BY DEF QueueHand, QueuePromotion
<1>7. ASSUME NEW at \in QueuePromotion \cup {"done", "idle"}, pc'[h] = at,
             \A t \in Tasks \ {h} : pc'[t] = pc[t],
             \A g \in Hosts \ {h} : promo'[g] = promo[g],
             promo'[h] = IF at \in QueuePromotion THEN b ELSE None,
             at = "gatheringQueue" => run'[b].gate,
             at \in QueueHand => ~run'[b].gate
      PROVE  /\ HandsSound' /\ \A j \in Input : pc'[j] = pc[j]
             /\ \A g \in Hosts \ {h} : \A j \in Input : Bears(g, j)' <=> Bears(g, j)
             /\ \A j \in Input : Bears(h, j)' <=> at \in QueueHand /\ i = j
             /\ \A q \in Runs \ {b} : \A j \in Input : Strays(q, j)' <=> Strays(q, j)
             /\ \A j \in Input :
                  /\ ~Strays(b, j)
                  /\ Strays(b, j)' <=> /\ at \notin QueuePromotion
                                       /\ ~run'[b].gate /\ i = j
  BY <1>1, <1>2, <1>3, <1>5, <1>7, HandsMove
<1>8. \A j \in Input : Bears(h, j) <=> pc[h] \in QueueHand /\ i = j
  BY <1>2 DEF Bears
(* The hand is as full as it was, and no Run is left behind.               *)
<1>9. ASSUME NEW at \in QueuePromotion \cup {"done", "idle"}, pc'[h] = at,
             \A t \in Tasks \ {h} : pc'[t] = pc[t],
             \A g \in Hosts \ {h} : promo'[g] = promo[g],
             promo'[h] = IF at \in QueuePromotion THEN b ELSE None,
             at = "gatheringQueue" => run'[b].gate,
             at \in QueueHand => ~run'[b].gate,
             at \in QueueHand <=> pc[h] \in QueueHand,
             at \in QueuePromotion \/ run'[b].gate,
             queue' = queue, journal' = journal
      PROVE  ItemsSound'
  <2>1. /\ HandsSound' /\ \A j \in Input : pc'[j] = pc[j]
        /\ \A g \in Hosts \ {h} : \A j \in Input : Bears(g, j)' <=> Bears(g, j)
        /\ \A j \in Input : Bears(h, j)' <=> at \in QueueHand /\ i = j
        /\ \A q \in Runs \ {b} : \A j \in Input : Strays(q, j)' <=> Strays(q, j)
        /\ \A j \in Input :
             /\ ~Strays(b, j)
             /\ Strays(b, j)' <=> /\ at \notin QueuePromotion
                                  /\ ~run'[b].gate /\ i = j
    BY <1>7, <1>9
  <2>2. SameBearing BY <1>8, <1>9, <2>1 DEF SameBearing
  <2>3. SameStrays BY <1>9, <2>1 DEF SameStrays
  <2>4. NoDelivery BY <1>9 DEF NoDelivery
  <2> QED BY <1>1, <1>5, <1>9, <2>1, <2>2, <2>3, <2>4, QuietItems DEF Dropped
(* The item leaves the hand.                                               *)
<1>10. ASSUME NEW at \in QueuePromotion \cup {"done", "idle"}, pc'[h] = at,
              \A t \in Tasks \ {h} : pc'[t] = pc[t],
              \A g \in Hosts \ {h} : promo'[g] = promo[g],
              promo'[h] = IF at \in QueuePromotion THEN b ELSE None,
              at = "gatheringQueue" => run'[b].gate,
              at \notin QueueHand, pc[h] \in QueueHand,
              \/ /\ queue' = queue /\ journal' = journal
                 /\ at \notin QueuePromotion /\ ~run'[b].gate
              \/ /\ queue' = queue /\ (at \in QueuePromotion \/ run'[b].gate)
                 /\ \E e : /\ journal' = Append(journal, e)
                           /\ e.type = "user_message" /\ e.of = <<i>>
              \/ /\ queue' = <<i>> \o queue /\ journal' = journal
                 /\ at \in QueuePromotion
       PROVE  ItemsSound'
  <2>1. /\ HandsSound' /\ \A j \in Input : pc'[j] = pc[j]
        /\ \A g \in Hosts \ {h} : \A j \in Input : Bears(g, j)' <=> Bears(g, j)
        /\ \A j \in Input : Bears(h, j)' <=> at \in QueueHand /\ i = j
        /\ \A q \in Runs \ {b} : \A j \in Input : Strays(q, j)' <=> Strays(q, j)
        /\ \A j \in Input :
             /\ ~Strays(b, j)
             /\ Strays(b, j)' <=> /\ at \notin QueuePromotion
                                  /\ ~run'[b].gate /\ i = j
    BY <1>7, <1>10
  <2>2. Bears(h, i) BY <1>3, <1>8, <1>10
  <2>3. \A g \in Hosts : \A j \in Input : Bears(g, j)' <=> Bears(g, j) /\ g # h
    BY <1>10, <2>1
  <2>4. \/ /\ queue' = queue /\ journal' = journal
           /\ \A j \in Input : Strays(b, j)' <=> j = i
        \/ /\ queue' = queue /\ \A j \in Input : ~Strays(b, j)'
           /\ \E e : /\ journal' = Append(journal, e)
                     /\ e.type = "user_message" /\ e.of = <<i>>
        \/ /\ queue' = <<i>> \o queue /\ journal' = journal
           /\ \A j \in Input : ~Strays(b, j)'
    BY <1>10, <2>1
  <2> QED BY <1>1, <1>3, <1>5, <2>1, <2>2, <2>3, <2>4, ItemLeaves
<1>a. CASE Yielded(h)
  <2>1. /\ pc[h] = "yielding" /\ run' = run /\ queue' = queue /\ journal' = journal
        /\ \/ pc' = [pc EXCEPT ![h] = "journalingQueued"] /\ promo' = promo
           \/ EndHost(h)
    BY <1>a DEF Yielded
  <2>2. ~run'[b].gate BY <1>1, <1>2, <1>6, <2>1 DEF HandsSound
  <2>3. CASE pc' = [pc EXCEPT ![h] = "journalingQueued"] /\ promo' = promo
    <3>1. /\ pc'[h] = "journalingQueued" /\ \A t \in Tasks \ {h} : pc'[t] = pc[t]
          /\ \A g \in Hosts \ {h} : promo'[g] = promo[g]
          /\ promo'[h] = b
      BY <1>1, <1>2, <2>3
    <3> QED BY <1>6, <1>9, <2>1, <2>2, <3>1
  <2>4. CASE EndHost(h)
    <3>1. PICK at \in {"done", "idle"} :
            /\ pc'[h] = at /\ \A t \in Tasks \ {h} : pc'[t] = pc[t]
            /\ \A g \in Hosts \ {h} : promo'[g] = promo[g]
            /\ promo'[h] = None
      BY <2>4, EndedAt
    <3> QED BY <1>6, <1>10, <2>1, <2>2, <3>1
  <2> QED BY <2>1, <2>3, <2>4
<1>b. CASE QueuedInputRecorded(h)
  <2> DEFINE e == [type |-> "user_message", of |-> <<i>>, run |-> b]
  <2>1. /\ pc[h] = "journalingQueued" /\ queue' = queue
        /\ journal' = Append(journal, e)
        /\ IF deferred[h] THEN EndHost(h)
           ELSE pc' = [pc EXCEPT ![h] = "notifyingQueued"] /\ promo' = promo
    BY <1>2, <1>b DEF QueuedInputRecorded, Written
  <2>2. e.type = "user_message" /\ e.of = <<i>> OBVIOUS
  <2> HIDE DEF e
  <2>3. deferred[h] => run'[b].gate
    <3>1. \E x : run' = [run EXCEPT ![b].barrier = x, ![b].gate = deferred[h]]
      BY <1>2, <1>b DEF QueuedInputRecorded
    <3>2. run[b] \in RunRecord BY <1>1, <1>3
    <3> QED BY <1>1, <1>3, <3>1, <3>2 DEF RunRecord
  <2>4. CASE ~deferred[h]
    <3>1. /\ pc'[h] = "notifyingQueued" /\ \A t \in Tasks \ {h} : pc'[t] = pc[t]
          /\ \A g \in Hosts \ {h} : promo'[g] = promo[g]
          /\ promo'[h] = b
      BY <1>1, <1>2, <2>1, <2>4
    <3> QED BY <1>6, <1>10, <2>1, <2>2, <3>1
  <2>5. CASE deferred[h]
    <3>1. PICK at \in {"done", "idle"} :
            /\ pc'[h] = at /\ \A t \in Tasks \ {h} : pc'[t] = pc[t]
            /\ \A g \in Hosts \ {h} : promo'[g] = promo[g]
            /\ promo'[h] = None
      BY <2>1, <2>5, EndedAt
    <3> QED BY <1>6, <1>10, <2>1, <2>2, <2>3, <2>5, <3>1
  <2> QED BY <2>4, <2>5
<1>c. CASE QueuedInputKept(h)
  <2>1. /\ pc[h] = "journalingQueued" /\ journal' = journal /\ promo' = promo
        /\ queue' = <<i>> \o queue /\ pc' = [pc EXCEPT ![h] = "gatheringQueue"]
    BY <1>2, <1>c DEF QueuedInputKept, AbandonRun, WriteFails, PutBack
  <2>2. run'[b].gate
    <3>1. run' = [run EXCEPT ![b] = [BarrierFailed(run[b]) EXCEPT !.gate = TRUE]]
      BY <1>2, <1>3, <1>1, <1>c DEF QueuedInputKept
    <3>2. BarrierFailed(run[b]) \in RunRecord BY <1>1, <1>3, RecordOps
    <3> QED BY <1>1, <1>3, <3>1, <3>2 DEF RunRecord
  <2>3. /\ pc'[h] = "gatheringQueue" /\ \A t \in Tasks \ {h} : pc'[t] = pc[t]
        /\ \A g \in Hosts \ {h} : promo'[g] = promo[g]
        /\ promo'[h] = b
    BY <1>1, <1>2, <2>1
  <2> QED BY <1>6, <1>10, <2>1, <2>2, <2>3
<1>d. CASE QueueNotified(h) \/ QueueGathered(h) \/ GatherInterrupted(h)
  <2>1. /\ EndHost(h) /\ queue' = queue /\ journal' = journal
        /\ pc[h] \notin QueueHand
    BY <1>6, <1>d DEF QueueNotified, QueueGathered, GatherInterrupted
  <2>2. run'[b].gate
    <3>1. CASE QueueNotified(h)
      <4>1. run' = [run EXCEPT ![b].gate = TRUE] BY <1>2, <3>1 DEF QueueNotified
      <4>2. run[b] \in RunRecord BY <1>1, <1>3
      <4> QED BY <1>1, <1>3, <4>1, <4>2 DEF RunRecord
    <3>2. CASE QueueGathered(h) \/ GatherInterrupted(h)
      <4>1. pc[h] = "gatheringQueue" /\ run' = run
        BY <1>6, <3>2 DEF QueueGathered, GatherInterrupted
      <4> QED BY <1>1, <1>2, <4>1 DEF HandsSound
    <3> QED BY <1>d, <3>1, <3>2
  <2>3. PICK at \in {"done", "idle"} :
          /\ pc'[h] = at /\ \A t \in Tasks \ {h} : pc'[t] = pc[t]
          /\ \A g \in Hosts \ {h} : promo'[g] = promo[g]
          /\ promo'[h] = None
    BY <2>1, EndedAt
  <2> QED BY <1>6, <1>9, <2>1, <2>2, <2>3
<1> QED BY <1>a, <1>b, <1>c, <1>d

(* Every step of a host keeps the invariant.                               *)
LEMMA HostStepItems ==
  ASSUME TypeOK, Promotions, SteersSound, ItemsSound, NEW h \in Hosts, HostStep(h)
  PROVE  ItemsSound'
<1>1. CASE \/ FallbackActivated(h) \/ FallbackAbandoned(h)
           \/ FallbackGathered(h) \/ FallbackNotified(h)
  BY <1>1, FallbackItems
<1>2. CASE pc[h] \in QueuePromotion /\ ~FallbackGathered(h) /\ ~FallbackNotified(h)
  <2>1. \/ Yielded(h) \/ QueuedInputRecorded(h) \/ QueuedInputKept(h)
        \/ QueueNotified(h) \/ QueueGathered(h) \/ GatherInterrupted(h)
    BY <1>2 DEF HostStep, FallbackActivated, FallbackAbandoned, QueuePromotion
  <2> QED BY <1>2, <2>1, QueueHostItems
<1>3. CASE GatherInterrupted(h) /\ pc[h] \notin QueuePromotion
  <2>1. /\ EndHost(h) /\ run' = run /\ queue' = queue /\ journal' = journal
        /\ started' = started /\ forgotten' = forgotten /\ shutdown' = shutdown
    BY <1>3 DEF GatherInterrupted, session, Unchanged4Host
  <2>2. QueueGates(run') /\ HandsSound /\ NoDelivery /\ StaysOpen
    BY <2>1 DEF QueueGates, SameIdentity, ItemsSound, NoDelivery, StaysOpen
  <2>3. /\ HandsSound' /\ SameBearing /\ SameStrays
        /\ \A i \in Input : pc'[i] = pc[i]
    BY <1>3, <2>1, <2>2, HandsEnd
  <2> QED BY <2>1, <2>2, <2>3, QuietItems DEF Dropped
<1> QED
  BY <1>1, <1>2, <1>3
  DEF HostStep, Yielded, QueuedInputRecorded, QueuedInputKept, QueueNotified,
      QueueGathered, QueuePromotion

-----------------------------------------------------------------------------
(* The steps of submissions and of the user.                               *)

(* A step that moves no item, and no host on to or off a promotion from    *)
(* the queue.                                                              *)
LEMMA SameItems ==
  ASSUME TypeOK, Promotions, ItemsSound, StaysOpen, NoDelivery,
         QueueGates(run'), promo' = promo, started' = started,
         \A h \in Hosts : \/ pc'[h] = pc[h]
                          \/ pc[h] \notin QueuePromotion /\ pc'[h] \notin QueuePromotion,
         queue' = queue, forgotten' = forgotten,
         \A i \in Input : pc'[i] = "queued" <=> pc[i] = "queued"
  PROVE  ItemsSound'
<1>1. HandsSound BY DEF ItemsSound
<1>2. HandsSound' /\ SameBearing /\ SameStrays BY <1>1, SameHands
<1>3. \A i \in Input : Dropped(i)' <=> Dropped(i) BY DEF Dropped
<1> QED BY <1>2, <1>3, QuietItems

(* The update of a control leaves every gate as it is.                     *)
LEMMA ControlGates ==
  ASSUME TypeOK, NEW r \in Runs,
         \/ run' = run
         \/ \E c : run' = [run EXCEPT ![r].ctl = c]
         \/ \E c, x : run' = [run EXCEPT ![r].phase = x, ![r].ctl = c]
  PROVE  QueueGates(run')
<1>1. run \in [Runs -> RunRecord] BY DEF TypeOK, StateTypes
<1>2. CASE run' = run BY <1>2 DEF QueueGates, SameIdentity
<1>3. ASSUME NEW c, run' = [run EXCEPT ![r].ctl = c] PROVE QueueGates(run')
  <2> DEFINE rec == [run[r] EXCEPT !.ctl = c]
  <2>1. SameOrigin(rec, run[r]) BY <1>1, OriginUpdates
  <2>2. run' = [run EXCEPT ![r] = rec] BY <1>1, <1>3
  <2> HIDE DEF rec
  <2> QED BY <1>1, <2>1, <2>2 DEF QueueGates, SameOrigin, SameIdentity
<1>4. ASSUME NEW c, NEW x, run' = [run EXCEPT ![r].phase = x, ![r].ctl = c]
      PROVE  QueueGates(run')
  <2> DEFINE rec == [run[r] EXCEPT !.phase = x, !.ctl = c]
  <2>1. SameOrigin(rec, run[r])
    BY <1>1 DEF RunRecord, SameOrigin, SameIdentity
  <2>2. run' = [run EXCEPT ![r] = rec] BY <1>1, <1>4
  <2> HIDE DEF rec
  <2> QED BY <1>1, <2>1, <2>2 DEF QueueGates, SameOrigin, SameIdentity
<1> QED BY <1>2, <1>3, <1>4

(* Every step of a submission keeps the invariant: the item it accepts was *)
(* nowhere before.                                                         *)
LEMMA SubmissionItems ==
  ASSUME TypeOK, Promotions, ControlSound, SteersSound, ItemsSound,
         NEW i \in Input, SubmissionStep(i)
  PROVE  ItemsSound'
<1> USE DEF Goto, Unchanged4Sub, session, history
<1>1. /\ pc[i] \in UnderWay \cup {"barrier"}
      /\ forgotten' = forgotten /\ promo' = promo /\ shutdown' = shutdown
      /\ started' = started
  BY DEF SubmissionStep, Admit, Refuse, SteerRecorded, SteerNotified, UnderWay
<1>2. PICK r : r = sub[i].target OBVIOUS
<1>3. r \in Runs BY <1>1, <1>2 DEF ControlSound, InputSound, UnderWay
<1>4. /\ Hosts \subseteq Tasks /\ Input \subseteq Tasks /\ Input \cap Hosts = {}
      /\ pc \in [Tasks -> RunPoints \cup CallerPoints \cup InputPoints]
      /\ queue \in Seq(Input) /\ pc[i] # "queued"
  BY <1>1, RuntimeAssumption
  DEF TypeOK, StateTypes, ControlPoints, Tasks, Hosts, UnderWay
<1>5. QueueGates(run')
  <2>1. run' = run \/ \E c : run' = [run EXCEPT ![r].ctl = c]
    BY <1>2 DEF SubmissionStep, Admit, Refuse, SteerRecorded, SteerNotified
  <2> QED BY <1>3, <2>1, ControlGates
<1>6. StaysOpen BY <1>1 DEF StaysOpen
<1>7. NoDelivery
  <2> DEFINE e == [type |-> "user_steer", of |-> <<i>>, run |-> r]
  <2>1. journal' = journal \/ journal' = Append(journal, e)
    BY <1>2 DEF SubmissionStep, Admit, Refuse, SteerRecorded, SteerNotified,
                Written, WriteFails
  <2>2. e.type # "user_message" OBVIOUS
  <2> HIDE DEF e
  <2> QED BY <2>1, <2>2 DEF NoDelivery
<1>8. PICK at : pc' = [pc EXCEPT ![i] = at]
  BY DEF SubmissionStep, Admit, Refuse, SteerRecorded, SteerNotified
<1>9. /\ pc'[i] = at /\ \A t \in Tasks \ {i} : pc'[t] = pc[t]
      /\ \A h \in Hosts : pc'[h] = pc[h]
  BY <1>4, <1>8
<1>10. CASE queue' = queue /\ at # "queued"
  <2>1. \A j \in Input : pc'[j] = "queued" <=> pc[j] = "queued"
    BY <1>4, <1>9, <1>10
  <2> QED BY <1>1, <1>5, <1>6, <1>7, <1>9, <1>10, <2>1, SameItems
<1>11. CASE queue' = Append(queue, i) /\ at = "queued"
  <2>1. HandsSound BY DEF ItemsSound
  <2>2. HandsSound' /\ SameBearing /\ SameStrays
    BY <1>1, <1>5, <1>9, <2>1, SameHands
  <2>3. ItemSound(i) /\ SteerSound(i) BY DEF ItemsSound, SteersSound
  <2>4. ~InQueue(i) /\ ~InHand(i) /\ ~Delivered(i) /\ ~Left(i)
    BY <1>4, <2>3 DEF ItemSound
  <2>5. ~Dropped(i) BY <1>1, <2>3 DEF SteerSound, UnderWay
  <2>6. IsInjective(queue') BY <1>4, <1>11, <2>4, InjectiveAppend DEF InQueue, ItemsSound
  <2>7. \A j : InQueue(j)' <=> InQueue(j) \/ j = i
    BY <1>4, <1>11, OccursAppend DEF InQueue
  <2>8. ASSUME NEW j \in Input PROVE ItemSound(j)'
    <3>1. /\ ItemSound(j) /\ SameDeliveries(j) /\ (Dropped(j)' <=> Dropped(j))
          /\ \A h \in Hosts : Bears(h, j)' <=> Bears(h, j)
          /\ \A q \in Runs : Strays(q, j)' <=> Strays(q, j)
      BY <1>1, <1>7, <2>2, NothingDelivered
      DEF ItemsSound, Dropped, SameBearing, SameStrays
    <3>2. CASE j # i
      <4>1. pc'[j] = pc[j] /\ (InQueue(j)' <=> InQueue(j))
        BY <1>4, <1>9, <2>7, <3>2
      <4> QED BY <1>6, <3>1, <4>1, ItemStays
    <3>3. CASE j = i
      <4>1. InQueue(j)' /\ pc'[j] = "queued" BY <1>9, <1>11, <2>7, <3>3
      <4>2. /\ ~InHand(j)' /\ ~Left(j)' /\ ~Dropped(j)'
            /\ \A h \in Hosts : ~Bears(h, j)'
            /\ \A q \in Runs : ~Strays(q, j)'
        BY <2>4, <2>5, <3>1, <3>3 DEF InHand, Left
      <4>3. ~Delivered(j)' /\ \A k \in DOMAIN journal' : ~Delivers(k, j)'
        BY <2>4, <3>1, <3>3 DEF SameDeliveries, Delivered, Delivers
      <4> QED BY <4>1, <4>2, <4>3 DEF ItemSound, OneItemPlace, SomeItemPlace
    <3> QED BY <3>2, <3>3
  <2> QED BY <2>2, <2>6, <2>8 DEF ItemsSound
<1>12. \/ queue' = queue /\ at # "queued"
       \/ queue' = Append(queue, i) /\ at = "queued"
  <2>1. pc'[i] = at BY <1>9
  <2>2. i \in Tasks BY <1>4
  <2> QED
    BY <1>4, <2>1, <2>2
    DEF SubmissionStep, Admit, Refuse, SteerRecorded, SteerNotified
<1> QED BY <1>10, <1>11, <1>12

(* Items that leave the queue because the user withdraws them.             *)
LEMMA ItemsWithdrawn ==
  ASSUME TypeOK, Promotions, ItemsSound, run' = run, pc' = pc, promo' = promo,
         started' = started, journal' = journal, shutdown' = shutdown,
         IsInjective(queue'), \A i \in Input : InQueue(i)' => InQueue(i),
         \A i \in Input : Dropped(i)' <=> Dropped(i) \/ (InQueue(i) /\ ~InQueue(i)')
  PROVE  ItemsSound'
<1>1. QueueGates(run') /\ NoDelivery /\ StaysOpen /\ HandsSound
  BY DEF QueueGates, SameIdentity, NoDelivery, StaysOpen, ItemsSound
<1>2. \A h \in Hosts : pc'[h] = pc[h] OBVIOUS
<1>3. HandsSound' /\ SameBearing /\ SameStrays BY <1>1, <1>2, SameHands
<1>4. ASSUME NEW i \in Input PROVE ItemSound(i)'
  <2>1. /\ ItemSound(i) /\ SameDeliveries(i)
        /\ \A h \in Hosts : Bears(h, i)' <=> Bears(h, i)
        /\ \A q \in Runs : Strays(q, i)' <=> Strays(q, i)
        /\ pc'[i] = pc[i]
    BY <1>1, <1>3, NothingDelivered DEF ItemsSound, SameBearing, SameStrays
  <2>2. CASE InQueue(i)' <=> InQueue(i)
    <3>1. Dropped(i)' <=> Dropped(i) BY <2>2
    <3> QED BY <1>1, <2>1, <2>2, <3>1, ItemStays
  <2>3. CASE InQueue(i) /\ ~InQueue(i)'
    <3>1. Dropped(i)' BY <2>3
    <3>2. /\ ~InHand(i) /\ ~Delivered(i) /\ ~Left(i) /\ pc[i] = "queued"
      BY <2>1, <2>3 DEF ItemSound, OneItemPlace
    <3>3. /\ ~InHand(i)' /\ ~Left(i)'
          /\ \A h \in Hosts : ~Bears(h, i)'
          /\ \A q \in Runs : ~Strays(q, i)'
      BY <2>1, <3>2 DEF InHand, Left
    <3>4. ~Delivered(i)' /\ \A k \in DOMAIN journal' : ~Delivers(k, i)'
      BY <2>1, <3>2 DEF SameDeliveries, Delivered, Delivers
    <3> QED
      BY <2>3, <3>1, <3>2, <3>3, <3>4 DEF ItemSound, OneItemPlace, SomeItemPlace
  <2> QED BY <2>2, <2>3
<1> QED BY <1>3, <1>4 DEF ItemsSound

(* A Run that the user starts bears no item.                               *)
LEMMA StartItems ==
  ASSUME TypeOK, Promotions, ItemsSound,
         NEW o \in {"user", "application"}, NEW b, StartRun(o, b)
  PROVE  ItemsSound'
<1> PICK n : n = Next1 OBVIOUS
<1> DEFINE x == CreatedRun(o, None, b)
<1>1. /\ n \in Runs /\ started < n /\ pc[n] = "absent"
      /\ started \in Nat /\ \A q \in Runs : q > n => q > started
  <2>1. started \in 0 .. MaxRuns /\ started < MaxRuns /\ MaxRuns \in Nat
    BY RuntimeAssumption DEF StartRun, TypeOK, StateTypes
  <2>2. n \in Runs /\ started < n BY <2>1 DEF Next1, Runs
  <2>3. n > started /\ \A q \in Runs : q > n => q > started BY <2>1, <2>2 DEF Runs
  <2> QED BY <2>1, <2>2, <2>3 DEF TypeOK, ControlPoints
<1>2. /\ Input \subseteq Tasks /\ Hosts \subseteq Tasks /\ n \in Hosts
      /\ Input \cap Hosts = {} /\ Runs \subseteq Hosts /\ n \in Tasks
      /\ pc \in [Tasks -> RunPoints \cup CallerPoints \cup InputPoints]
      /\ run \in [Runs -> RunRecord] /\ promo \in [Hosts -> Runs \cup {None}]
      /\ \A h \in Hosts : promo[h] # None <=> pc[h] \in Promoting
  BY <1>1, RuntimeAssumption DEF TypeOK, StateTypes, ControlPoints, Tasks, Hosts
<1>3. x.origin # "queue" BY DEF CreatedRun
<1>4. /\ run' = [run EXCEPT ![n] = x] /\ pc' = [pc EXCEPT ![n] = "created"]
      /\ promo' = promo /\ queue' = queue /\ started' = n
      /\ forgotten' = forgotten /\ StaysOpen /\ NoDelivery
  BY DEF StartRun, history, StaysOpen, NoDelivery
<1> HIDE DEF x
<1>5. /\ run'[n] = x /\ \A q \in Runs \ {n} : run'[q] = run[q]
      /\ pc'[n] = "created" /\ \A t \in Tasks \ {n} : pc'[t] = pc[t]
  BY <1>1, <1>2, <1>4
<1>6. /\ QueueHand \subseteq QueuePromotion /\ QueuePromotion \subseteq Promoting
      /\ "created" \notin QueuePromotion /\ "absent" \notin QueuePromotion
      /\ "gatheringQueue" \in QueuePromotion
  BY DEF QueueHand, QueuePromotion, Promoting
<1>7. ASSUME NEW h \in Hosts, pc'[h] \in QueuePromotion \/ pc[h] \in QueuePromotion
      PROVE  /\ pc'[h] = pc[h] /\ promo'[h] = promo[h]
             /\ run'[promo[h]] = run[promo[h]]
  <2>1. h # n BY <1>1, <1>5, <1>6, <1>7
  <2>2. pc'[h] = pc[h] BY <1>2, <1>5, <2>1
  <2>3. promo[h] \in Runs /\ promo[h] <= started
    BY <1>2, <1>6, <1>7, <2>2, RuntimeAssumption DEF Promotions
  <2>4. promo[h] # n BY <1>1, <2>3 DEF Runs
  <2> QED BY <1>4, <1>5, <2>2, <2>3, <2>4
<1>8. SameBearing
  <2> SUFFICES ASSUME NEW h \in Hosts, NEW j \in Input
               PROVE  Bears(h, j)' <=> Bears(h, j)
    BY DEF SameBearing
  <2> QED BY <1>6, <1>7 DEF Bears
<1>9. SameStrays
  <2> SUFFICES ASSUME NEW q \in Runs, NEW j \in Input
               PROVE  Strays(q, j)' <=> Strays(q, j)
    BY DEF SameStrays
  <2>1. CASE q = n
    <3>1. run[n].origin = "none" BY <1>1 DEF HandsSound, ItemsSound, Runs
    <3> QED BY <1>3, <1>5, <2>1, <3>1 DEF Strays
  <2>2. CASE q # n BY <1>4, <1>5, <2>2 DEF Strays
  <2> QED BY <2>1, <2>2
<1>10. HandsSound'
  <2>1. HandsSound BY DEF ItemsSound
  <2>2. ASSUME NEW q \in Runs, q > n PROVE run'[q].origin = "none"
    <3>1. q # n /\ q > started BY <1>1, <2>2 DEF Runs
    <3> QED BY <1>5, <2>1, <3>1 DEF HandsSound
  <2>3. ASSUME NEW h \in Hosts
        PROVE  /\ pc'[h] = "gatheringQueue" => run'[promo'[h]].gate
               /\ pc'[h] \in QueueHand => ~run'[promo'[h]].gate
    BY <1>6, <1>7, <2>1 DEF HandsSound
  <2>4. \A g, h \in Hosts : promo'[g] = promo'[h] /\ promo'[g] # None => g = h
    BY <1>4, <2>1 DEF HandsSound
  <2> QED BY <1>4, <2>2, <2>3, <2>4 DEF HandsSound
<1>11. \A i \in Input : pc'[i] = pc[i] BY <1>2, <1>5
<1> QED BY <1>4, <1>8, <1>9, <1>10, <1>11, QuietItems DEF Dropped

(* Every operation of the user keeps the invariant.                        *)
LEMMA UserItems ==
  ASSUME TypeOK, TypeOK', Promotions, ControlSound, SteersSound, ItemsSound, UserStep
  PROVE  ItemsSound'
<1> USE DEF Goto, Unchanged4User, Unchanged4Sub, session, history
<1>1. /\ run \in [Runs -> RunRecord]
      /\ Input \subseteq Tasks /\ Hosts \subseteq Tasks
      /\ Input \cap Hosts = {} /\ Callers \subseteq Hosts
      /\ pc \in [Tasks -> RunPoints \cup CallerPoints \cup InputPoints]
      /\ queue \in Seq(Input)
  BY RuntimeAssumption DEF TypeOK, StateTypes, ControlPoints, Tasks, Hosts
<1>2. QueuePromotion = {"yielding", "journalingQueued", "notifyingQueued",
                        "gatheringQueue"}
  BY DEF QueuePromotion
<1>3. run' = run => QueueGates(run') BY DEF QueueGates, SameIdentity
<1>a. ASSUME NEW o \in {"user", "application"}, NEW b \in Behaviours, StartRun(o, b)
      PROVE  ItemsSound'
  BY <1>a, StartItems
<1>b. ASSUME NEW i \in Input, NEW b \in Behaviours, Submit(i, b) PROVE ItemsSound'
  <2>1. /\ pc[i] = "idle" /\ run' = run /\ queue' = queue /\ started' = started
        /\ pc' = [pc EXCEPT ![i] = "barrier"] /\ journal' = journal
        /\ forgotten' = forgotten /\ promo' = promo /\ shutdown' = shutdown
    BY <1>b DEF Submit
  <2>2. /\ pc'[i] = "barrier" /\ \A t \in Tasks \ {i} : pc'[t] = pc[t]
        /\ \A h \in Hosts : pc'[h] = pc[h]
    BY <1>1, <2>1
  <2>3. \A j \in Input : pc'[j] = "queued" <=> pc[j] = "queued"
    BY <1>1, <2>1, <2>2
  <2>4. StaysOpen /\ NoDelivery BY <2>1 DEF StaysOpen, NoDelivery
  <2> QED BY <1>3, <2>1, <2>2, <2>3, <2>4, SameItems
<1>c. ASSUME NEW i \in Input, RemoveQueuedInput(i) PROVE ItemsSound'
  <2>1. /\ run' = run /\ pc' = pc /\ promo' = promo /\ journal' = journal
        /\ started' = started /\ shutdown' = shutdown /\ InQueue(i)
        /\ forgotten' = forgotten \cup {i} /\ queue' = Without(queue, i)
    BY <1>c DEF RemoveQueuedInput, InQueue, Occurs
  <2>2. IsInjective(queue) BY DEF ItemsSound
  <2>3. /\ IsInjective(queue')
        /\ \A j \in Input : InQueue(j)' <=> InQueue(j) /\ j # i
    BY <1>1, <2>1, <2>2, WithoutEntry DEF InQueue
  <2>4. \A j \in Input : Dropped(j)' <=> Dropped(j) \/ (InQueue(j) /\ ~InQueue(j)')
    BY <2>1, <2>3 DEF Dropped
  <2> QED BY <2>1, <2>3, <2>4, ItemsWithdrawn
<1>d. CASE ClearQueue
  <2>1. /\ run' = run /\ pc' = pc /\ promo' = promo /\ journal' = journal
        /\ started' = started /\ shutdown' = shutdown
        /\ forgotten' = forgotten \cup ToSet(queue) /\ queue' = <<>>
    BY <1>d DEF ClearQueue
  <2>2. IsInjective(queue') BY <2>1 DEF IsInjective
  <2>3. \A j \in Input : ~InQueue(j)' BY <2>1 DEF InQueue, Occurs
  <2>4. \A j \in Input : j \in ToSet(queue) <=> InQueue(j)
    BY DEF ToSet, InQueue, Occurs
  <2>5. \A j \in Input : Dropped(j)' <=> Dropped(j) \/ (InQueue(j) /\ ~InQueue(j)')
    BY <2>1, <2>3, <2>4 DEF Dropped
  <2> QED BY <2>1, <2>2, <2>3, <2>5, ItemsWithdrawn
<1>e. ASSUME NEW c \in Callers, ResumeQueue(c) PROVE ItemsSound'
  <2>1. /\ journal' = journal /\ forgotten' = forgotten
        /\ shutdown' = shutdown /\ pc[c] = "idle" /\ c \in Hosts
        /\ TryPromoteQueue(c, run, FALSE, maintenance)
    BY <1>1, <1>e DEF ResumeQueue
  <2>2. QueueGates(run) BY DEF QueueGates, SameIdentity
  <2>3. pc[c] \notin QueuePromotion \cup {"absent"} BY <1>2, <2>1
  <2>4. StaysOpen BY <2>1 DEF StaysOpen
  <2> QED BY <1>1, <2>1, <2>2, <2>3, <2>4, QueueItemsStep
<1>f. ASSUME NEW c \in Callers, NEW a \in BOOLEAN, ReserveSession(c, a)
      PROVE  ItemsSound'
  <2>1. /\ pc[c] = "idle" /\ run' = run /\ queue' = queue /\ started' = started
        /\ pc' = [pc EXCEPT ![c] = "reserved"] /\ journal' = journal
        /\ forgotten' = forgotten /\ promo' = promo /\ shutdown' = shutdown
    BY <1>f DEF ReserveSession
  <2>2. /\ pc'[c] = "reserved" /\ \A t \in Tasks \ {c} : pc'[t] = pc[t]
        /\ c \in Hosts
    BY <1>1, <2>1
  <2>3. /\ \A h \in Hosts : \/ pc'[h] = pc[h]
                            \/ pc[h] \notin QueuePromotion /\ pc'[h] \notin QueuePromotion
        /\ \A j \in Input : pc'[j] = "queued" <=> pc[j] = "queued"
    BY <1>1, <1>2, <2>1, <2>2
  <2>4. StaysOpen /\ NoDelivery BY <2>1 DEF StaysOpen, NoDelivery
  <2> QED BY <1>3, <2>1, <2>3, <2>4, SameItems
<1>g. ASSUME NEW r \in Runs, ApprovalReturns(r) \/ AgentFails(r) PROVE ItemsSound'
  <2>1. ~RunEndNotified(r)
    BY <1>g DEF RunEndNotified, ApprovalReturns, AgentFails, AtBoundary
  <2> QED BY <1>g, <2>1, RunStepItems
<1>h. CASE CancelRun
  <2>1. PICK r : r = active OBVIOUS
  <2>2. r \in Runs BY <1>h, <2>1 DEF CancelRun, TypeOK, StateTypes
  <2>3. /\ promo' = promo /\ journal' = journal /\ started' = started
        /\ shutdown' = shutdown /\ forgotten' = forgotten
        /\ pc' = pc /\ queue' = queue
    BY <1>h DEF CancelRun
  <2>4. \E c, x : run' = [run EXCEPT ![r].phase = x, ![r].ctl = c]
    <3>1. run' = [run EXCEPT ![r].phase = "stopping",
                             ![r].ctl = CloseSubmissions(run[r].ctl)]
      BY <1>1, <1>h, <2>1, <2>2 DEF CancelRun
    <3> QED BY <3>1
  <2>5. QueueGates(run') BY <2>2, <2>4, ControlGates
  <2>6. StaysOpen /\ NoDelivery BY <2>3 DEF StaysOpen, NoDelivery
  <2>7. /\ \A h \in Hosts : pc'[h] = pc[h]
        /\ \A j \in Input : pc'[j] = "queued" <=> pc[j] = "queued"
    BY <2>3
  <2> QED BY <2>3, <2>5, <2>6, <2>7, SameItems
<1>i. CASE BeginClose
  <2>1. /\ run' = run /\ promo' = promo /\ journal' = journal /\ queue' = queue
        /\ started' = started /\ shutdown = "open" /\ forgotten' = forgotten
        /\ pc' = pc
    BY <1>i DEF BeginClose
  <2>2. StaysOpen /\ NoDelivery BY <2>1 DEF StaysOpen, NoDelivery
  <2>3. /\ \A h \in Hosts : pc'[h] = pc[h]
        /\ \A j \in Input : pc'[j] = "queued" <=> pc[j] = "queued"
    BY <2>1
  <2> QED BY <1>3, <2>1, <2>2, <2>3, SameItems
<1> QED
  BY <1>a, <1>b, <1>c, <1>d, <1>e, <1>f, <1>g, <1>h, <1>i DEF UserStep

-----------------------------------------------------------------------------
(* Every step.                                                             *)

(* At the start no item is accepted.                                       *)
LEMMA ItemsInit == Init => ItemsSound
<1> SUFFICES ASSUME Init PROVE ItemsSound OBVIOUS
<1>1. /\ queue = <<>> /\ journal = <<>> /\ forgotten = {}
      /\ run = [r \in Runs |-> BlankRun] /\ promo = [h \in Hosts |-> None]
      /\ pc = [t \in Tasks |-> IF t \in Runs THEN "absent" ELSE "idle"]
  BY DEF Init
<1>2. /\ Input \subseteq Tasks /\ Hosts \subseteq Tasks /\ Runs \subseteq Tasks
      /\ Runs \cap Input = {}
  BY RuntimeAssumption DEF Tasks, Hosts
<1>3. IsInjective(queue) /\ \A i : ~InQueue(i)
  BY <1>1 DEF IsInjective, InQueue, Occurs
<1>4. /\ \A i \in Input : pc[i] = "idle"
      /\ \A h \in Hosts : pc[h] \in {"absent", "idle"} /\ promo[h] = None
      /\ \A q \in Runs : run[q].origin = "none"
  BY <1>1, <1>2 DEF BlankRun
<1>5. HandsSound BY <1>4 DEF HandsSound, QueueHand
<1>6. ASSUME NEW i \in Input PROVE ItemSound(i)
  <2>1. \A h \in Hosts : ~Bears(h, i) BY <1>4 DEF Bears, QueueHand
  <2>2. \A q \in Runs : ~Strays(q, i) BY <1>4 DEF Strays
  <2>3. DOMAIN journal = {} /\ ~Dropped(i) BY <1>1 DEF Dropped
  <2>4. ~InHand(i) /\ ~Left(i) /\ ~Delivered(i)
    BY <2>1, <2>2, <2>3 DEF InHand, Left, Delivered
  <2> QED
    BY <1>3, <1>4, <2>1, <2>2, <2>3, <2>4 DEF ItemSound, OneItemPlace, SomeItemPlace
<1> QED BY <1>3, <1>5, <1>6 DEF ItemsSound

(* The shutdown that ends: nothing is left to account for.                 *)
LEMMA EndCloseItems ==
  ASSUME TypeOK, Promotions, ItemsSound, EndClose
  PROVE  ItemsSound'
<1>1. /\ run' = run /\ pc' = pc /\ promo' = promo /\ journal' = journal
      /\ started' = started /\ queue' = <<>> /\ forgotten' = forgotten
      /\ shutdown' = "closed"
  BY DEF EndClose, history
<1>2. IsInjective(queue') /\ \A i : ~InQueue(i)'
  BY <1>1 DEF IsInjective, InQueue, Occurs
<1>3. QueueGates(run') /\ NoDelivery /\ HandsSound
  BY <1>1 DEF QueueGates, SameIdentity, NoDelivery, ItemsSound
<1>4. \A h \in Hosts : pc'[h] = pc[h] BY <1>1
<1>5. HandsSound' /\ SameBearing /\ SameStrays BY <1>1, <1>3, <1>4, SameHands
<1>6. ASSUME NEW i \in Input PROVE ItemSound(i)'
  <2>1. /\ ItemSound(i) /\ SameDeliveries(i)
        /\ \A h \in Hosts : Bears(h, i)' <=> Bears(h, i)
        /\ \A q \in Runs : Strays(q, i)' <=> Strays(q, i)
        /\ pc'[i] = pc[i] /\ (Dropped(i)' <=> Dropped(i)) /\ ~InQueue(i)'
    BY <1>1, <1>2, <1>3, <1>5, NothingDelivered
    DEF ItemsSound, SameBearing, SameStrays, Dropped
  <2>2. (InHand(i)' <=> InHand(i)) /\ (Left(i)' <=> Left(i))
    BY <2>1 DEF InHand, Left
  <2>3. /\ Delivered(i)' <=> Delivered(i)
        /\ \A k, l \in DOMAIN journal' : Delivers(k, i)' /\ Delivers(l, i)' => k = l
    BY <2>1 DEF SameDeliveries, ItemSound, Delivers, Delivered
  <2>4. OneItemPlace(i)' BY <2>1, <2>2, <2>3 DEF ItemSound, OneItemPlace
  <2>5. /\ \A q, r \in Runs : Strays(q, i)' /\ Strays(r, i)' => q = r
        /\ \A g, h \in Hosts : Bears(g, i)' /\ Bears(h, i)' => g = h
        /\ InQueue(i)' \/ InHand(i)' \/ Delivered(i)' \/ Left(i)' => pc'[i] = "queued"
    BY <2>1, <2>2, <2>3 DEF ItemSound
  <2> QED BY <1>1, <2>3, <2>4, <2>5 DEF ItemSound
<1> QED BY <1>2, <1>5, <1>6 DEF ItemsSound

(* ItemsSound is inductive relative to the invariants of the types, the    *)
(* promotions and the steers.                                              *)
LEMMA ItemsNext ==
  ASSUME TypeOK, TypeOK', Promotions, ControlSound, SteersSound, ItemsSound,
         [Next]_vars
  PROVE  ItemsSound'
<1>0. /\ "ending" \notin QueuePromotion \cup {"absent"}
      /\ "reserved" \notin QueuePromotion \cup {"absent"}
  BY DEF QueuePromotion
<1>1. ASSUME NEW r \in Runs, RunStep(r) PROVE ItemsSound'
  <2>1. CASE RunEndNotified(r)
    <3>1. /\ pc[r] = "ending" /\ r \in Hosts /\ TryPromotePending(r, run, maintenance)
          /\ journal' = journal /\ forgotten' = forgotten /\ shutdown' = shutdown
      BY <2>1 DEF RunEndNotified, Unchanged4Host, Hosts
    <3>2. pc[r] \notin QueuePromotion \cup {"absent"} /\ StaysOpen
      BY <1>0, <3>1 DEF StaysOpen
    <3> QED BY <3>1, <3>2, PendingItems
  <2>2. CASE ~RunEndNotified(r) BY <1>1, <2>2, RunStepItems
  <2> QED BY <2>1, <2>2
<1>2. ASSUME NEW h \in Hosts, HostStep(h) PROVE ItemsSound'
  BY <1>2, HostStepItems
<1>3. ASSUME NEW i \in Input, SubmissionStep(i) PROVE ItemsSound'
  BY <1>3, SubmissionItems
<1>4. ASSUME run' = run, pc' = pc, promo' = promo, journal' = journal,
             started' = started, queue' = queue, forgotten' = forgotten,
             shutdown' = shutdown
      PROVE  ItemsSound'
  <2>1. QueueGates(run') /\ NoDelivery /\ StaysOpen
    BY <1>4 DEF QueueGates, SameIdentity, NoDelivery, StaysOpen
  <2>2. /\ \A i \in Input : pc'[i] = "queued" <=> pc[i] = "queued"
        /\ \A h \in Hosts : pc'[h] = pc[h]
    BY <1>4
  <2> QED BY <1>4, <2>1, <2>2, SameItems
<1>5. ASSUME NEW t \in Tasks, AbsorbCancellation(t) PROVE ItemsSound'
  BY <1>4, <1>5 DEF AbsorbCancellation, session, history
<1>6. ASSUME NEW c \in Callers, ReleaseSession(c) PROVE ItemsSound'
  <2>1. /\ pc[c] = "reserved" /\ c \in Hosts /\ TryPromotePending(c, run, None)
        /\ journal' = journal /\ forgotten' = forgotten /\ shutdown' = shutdown
    BY <1>6 DEF ReleaseSession, Unchanged4Host, Hosts
  <2>2. pc[c] \notin QueuePromotion \cup {"absent"} /\ StaysOpen
    BY <1>0, <2>1 DEF StaysOpen
  <2> QED BY <2>1, <2>2, PendingItems
<1>7. CASE UserStep BY <1>7, UserItems
<1>8. CASE EndClose BY <1>8, EndCloseItems
<1>9. CASE AtRest \/ UNCHANGED vars
  BY <1>4, <1>9 DEF AtRest, vars, session, history
<1> QED BY <1>1, <1>2, <1>3, <1>5, <1>6, <1>7, <1>8, <1>9 DEF Next

(* Whatever the promotions, cancellations and failed writes do, an input   *)
(* that was accepted for the queue is in exactly one place: in the queue,  *)
(* in the hand of one promotion, delivered by the journal once, withdrawn, *)
(* or left with the Run of a promotion that was itself cancelled.          *)
THEOREM ItemsPlaced == Spec => []ItemsSound
<1>1. Init => ItemsSound BY ItemsInit
<1>2. (TypeOK /\ Promotions) /\ TypeOK' /\ ControlSound /\ SteersSound /\ ItemsSound
        /\ [Next]_vars
        => ItemsSound'
  BY ItemsNext
<1>3. Spec => [](TypeOK /\ Promotions) BY TypeCorrect
<1>4. Spec => []ControlSound BY ControlCorrect
<1>5. Spec => []SteersSound BY SteersPlaced
<1> QED BY <1>1, <1>2, <1>3, <1>4, <1>5, PTL DEF Spec

(* The places counted by QueueAccounted.                                   *)
LEMMA ItemsCounted ==
  ASSUME TypeOK, ItemsSound, NEW i \in Input
  PROVE  /\ Count(i, queue) = IF InQueue(i) THEN 1 ELSE 0
         /\ Cardinality(Carriers(i, {"yielding", "journalingQueued"}))
              = IF InHand(i) THEN 1 ELSE 0
         /\ Cardinality(Records("user_message", i)) = IF Delivered(i) THEN 1 ELSE 0
         /\ Cardinality(Stranded(i)) = IF Left(i) THEN 1 ELSE 0
<1>1. ItemSound(i) BY DEF ItemsSound
<1>2. Count(i, queue) = IF InQueue(i) THEN 1 ELSE 0
  <2> DEFINE S == {k \in DOMAIN queue : queue[k] = i}
  <2>1. \A k, l \in S : k = l BY DEF ItemsSound, IsInjective
  <2>2. S = {} <=> ~InQueue(i) BY DEF InQueue, Occurs
  <2>3. Count(i, queue) = Cardinality(S) BY DEF Count
  <2> HIDE DEF S
  <2>4. Cardinality(S) = IF S = {} THEN 0 ELSE 1 BY <2>1, AtMostOneElement
  <2> QED BY <2>2, <2>3, <2>4
<1>3. Cardinality(Carriers(i, {"yielding", "journalingQueued"}))
        = IF InHand(i) THEN 1 ELSE 0
  <2> DEFINE S == Carriers(i, {"yielding", "journalingQueued"})
  <2>1. \A h \in Hosts : pc[h] \in QueueHand => promo[h] # None
    BY DEF TypeOK, ControlPoints, QueueHand, Promoting
  <2>2. \A h : h \in S <=> h \in Hosts /\ Bears(h, i)
    BY <2>1 DEF Carriers, Bears, QueueHand
  <2> HIDE DEF S
  <2>3. \A g, h \in S : g = h BY <1>1, <2>2 DEF ItemSound
  <2>4. S = {} <=> ~InHand(i) BY <2>2 DEF InHand
  <2>5. Cardinality(S) = IF S = {} THEN 0 ELSE 1 BY <2>3, AtMostOneElement
  <2> QED BY <2>4, <2>5 DEF S
<1>4. Cardinality(Records("user_message", i)) = IF Delivered(i) THEN 1 ELSE 0
  <2> DEFINE S == Records("user_message", i)
  <2>1. \A k : k \in S <=> Delivers(k, i) BY DEF Records, Delivers
  <2> HIDE DEF S
  <2>2. \A k, l \in S : k = l BY <1>1, <2>1 DEF ItemSound, Delivers
  <2>3. S = {} <=> ~Delivered(i) BY <2>1 DEF Delivered, Delivers
  <2>4. Cardinality(S) = IF S = {} THEN 0 ELSE 1 BY <2>2, AtMostOneElement
  <2> QED BY <2>3, <2>4 DEF S
<1>5. Cardinality(Stranded(i)) = IF Left(i) THEN 1 ELSE 0
  <2> DEFINE S == Stranded(i)
  <2>1. \A r : r \in S <=> r \in Runs /\ Strays(r, i) BY DEF Stranded, Strays
  <2> HIDE DEF S
  <2>2. \A q, r \in S : q = r BY <1>1, <2>1 DEF ItemSound
  <2>3. S = {} <=> ~Left(i) BY <2>1 DEF Left
  <2>4. Cardinality(S) = IF S = {} THEN 0 ELSE 1 BY <2>2, AtMostOneElement
  <2> QED BY <2>3, <2>4 DEF S
<1> QED BY <1>2, <1>3, <1>4, <1>5

(* One place, one to count.                                                *)
LEMMA ItemsAddUp == TypeOK /\ ItemsSound => QueueAccounted
<1> SUFFICES ASSUME TypeOK, ItemsSound, shutdown = "open",
                    NEW i \in Input, pc[i] = "queued"
             PROVE  QueuePlaces(i) + Cardinality(Stranded(i)) = 1
  BY DEF QueueAccounted
<1>1. OneItemPlace(i) /\ SomeItemPlace(i) BY DEF ItemsSound, ItemSound
<1>2. 1 = (IF InQueue(i) THEN 1 ELSE 0) + (IF InHand(i) THEN 1 ELSE 0)
          + (IF Delivered(i) THEN 1 ELSE 0) + (IF Dropped(i) THEN 1 ELSE 0)
          + (IF Left(i) THEN 1 ELSE 0)
  BY <1>1 DEF OneItemPlace, SomeItemPlace
<1>3. QueuePlaces(i) = (IF InQueue(i) THEN 1 ELSE 0) + (IF InHand(i) THEN 1 ELSE 0)
          + (IF Delivered(i) THEN 1 ELSE 0) + (IF Dropped(i) THEN 1 ELSE 0)
  <2>1. Dropped(i) <=> i \in forgotten BY DEF Dropped
  <2> QED BY <2>1, ItemsCounted DEF QueuePlaces
<1>4. Cardinality(Stranded(i)) = IF Left(i) THEN 1 ELSE 0 BY ItemsCounted
<1> QED BY <1>2, <1>3, <1>4

(* No accepted item is lost without a trace, and none is served twice: it  *)
(* is missing from its places only when a Run is left at a closed gate.    *)
THEOREM ItemsAreAccountedFor == Spec => []QueueAccounted
<1>1. Spec => [](TypeOK /\ Promotions) BY TypeCorrect
<1>2. Spec => []ItemsSound BY ItemsPlaced
<1> QED BY <1>1, <1>2, ItemsAddUp, PTL
=============================================================================
