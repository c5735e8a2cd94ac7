--------------------------- MODULE LiveSync_proofs ---------------------------
(***************************************************************************)
(* The open page follows its Session, for every value of the constants:    *)
(* the types, the connection it shows, and that it converges to the Run,   *)
(* the phase and the approvals the Runtime has and to the latest page of   *)
(* the journal, and that what it shows stays shown.                        *)
(*                                                                         *)
(* The first part says what each step of the client does to the fields of  *)
(* its state, the fold that replays the events held back unfolded one      *)
(* event at a time (Stepwise, Folding); the second that every step of the  *)
(* server announces what it changes (Announces).  The types and the        *)
(* connection follow (Typed).  The third part is about what events still   *)
(* to come tell of a snapshot (UpToDate, AsOf, Beyond) and shows that a    *)
(* page whose stream is whole lacks nothing but what is held back or on    *)
(* its way (Converging).  The fourth is about the records that are loaded: *)
(* a Run that was heard to end writes no more, and what is read after that *)
(* has all of it (Keeping).  The fifth is about the records that are       *)
(* shown: what is newer than the history that is loaded, or read and not   *)
(* yet merged, is in the overlay or announced by an event still to come,   *)
(* or has the history read again (Ahead, Tracking).  The sixth is about    *)
(* what a step takes off the page: what is under way is fit to replace     *)
(* what is loaded (Lasting), so that no step loses what was shown.         *)
(***************************************************************************)
EXTENDS LiveSync, HistoryPages_proofs

(* A step from n to n + 1 leads from 0 to everywhere: else the members     *)
(* below a gap could be shifted by one into themselves without 0.          *)
LEMMA Stepwise ==
  ASSUME NEW T, 0 \in T, \A n \in Nat : n \in T => n + 1 \in T,
         NEW n \in Nat
  PROVE  n \in T
<1> SUFFICES ASSUME n \notin T PROVE FALSE OBVIOUS
<1> DEFINE S == {m \in 0..n : m \in T}
<1> DEFINE U == S \ {0}
<1> DEFINE f == [m \in S |-> m + 1]
<1>1. IsFiniteSet(S)
  <2>1. IsFiniteSet(0..n) BY FS_Interval
  <2>2. S \subseteq 0..n OBVIOUS
  <2> HIDE DEF S
  <2> QED BY <2>1, <2>2, FS_Subset
<1>2. 0 \in S OBVIOUS
<1>3. f \in [S -> U] OBVIOUS
<1>4. \A x, y \in S : f[x] = f[y] => x = y OBVIOUS
<1> HIDE DEF S, f
<1>5. IsFiniteSet(U) /\ Cardinality(U) = Cardinality(S) - 1 /\ Cardinality(S) \in Nat
  BY <1>1, <1>2, FS_RemoveElement, FS_CardinalityType
<1> HIDE DEF U
<1>6. Cardinality(U) < Cardinality(S) /\ Cardinality(U) \in Nat BY <1>5, FS_CardinalityType
<1>7. \E x, y \in S : x # y /\ f[x] = f[y]
  BY <1>1, <1>3, <1>5, <1>6, FS_PigeonHole
<1> QED BY <1>4, <1>7

(* The largest of the numbers up to n + 1. *)
LEMMA LargestIs ==
  ASSUME NEW n \in Nat, NEW S, S \subseteq 1..(n + 1), n + 1 \in S
  PROVE  Max(S) = n + 1
<1>1. \A y \in S : n + 1 >= y OBVIOUS
<1>2. \A x \in S : (\A y \in S : x >= y) => x = n + 1 OBVIOUS
<1> QED BY <1>1, <1>2, Zenon DEF Max

(* What the module folds over a sequence: a replay, a publication, a       *)
(* refetch of the history.                                                 *)
RefetchNext(done, i) == IF NextPageParam(done) = 0 THEN done ELSE FetchNextPage(done, journal, PageSize)
Advance(what, a, b) ==
  CASE what = "replay" -> ProcessEvent(a, b)
    [] what = "publish" -> Enqueue(a, b)
    [] what = "refetch" -> RefetchNext(a, b)

(* The function FoldLeft builds over the subsets of 1 .. n.                *)
Folding(what, it, c, s, n) ==
  it = [S \in SUBSET (1..n) |-> IF S = {} THEN c ELSE Advance(what, it[S \ {Max(S)}], s[Max(S)])]

(* There is such a function.                                               *)
LEMMA FoldingExists ==
  ASSUME NEW what, NEW c, NEW s, NEW n \in Nat
  PROVE  \E it : Folding(what, it, c, s, n)
<1> DEFINE T == {m \in Nat : \E it : Folding(what, it, c, s, m)}
<1>1. 0 \in T
  <2> DEFINE z == [S \in SUBSET (1..0) |-> c]
  <2>1. 1..0 = {} OBVIOUS
  <2>2. Folding(what, z, c, s, 0) BY <2>1, Zenon DEF Folding
  <2> QED BY <2>2
<1>2. ASSUME NEW m \in Nat, m \in T PROVE m + 1 \in T
  <2>1. PICK it : Folding(what, it, c, s, m) BY <1>2
  <2> DEFINE g == [S \in SUBSET (1..(m + 1)) |->
                     IF m + 1 \in S THEN Advance(what, it[S \ {m + 1}], s[m + 1]) ELSE it[S]]
  <2>2. SUBSET (1..m) \subseteq SUBSET (1..(m + 1)) OBVIOUS
  <2>3. ASSUME NEW S \in SUBSET (1..(m + 1))
        PROVE  g[S] = IF S = {} THEN c ELSE Advance(what, g[S \ {Max(S)}], s[Max(S)])
    <3>1. CASE m + 1 \in S
      <4>1. Max(S) = m + 1 BY <3>1, LargestIs
      <4>2. S \ {m + 1} \in SUBSET (1..m) /\ m + 1 \notin S \ {m + 1} OBVIOUS
      <4>3. g[S \ {m + 1}] = it[S \ {m + 1}] BY <2>2, <4>2
      <4>4. g[S] = Advance(what, it[S \ {m + 1}], s[m + 1]) BY <3>1
      <4> HIDE DEF g
      <4> QED BY <3>1, <4>1, <4>3, <4>4
    <3>2. CASE m + 1 \notin S
      <4>1. S \in SUBSET (1..m) BY <3>2
      <4>2. g[S] = it[S] BY <3>2
      <4>3. S \ {Max(S)} \in SUBSET (1..m) /\ m + 1 \notin S \ {Max(S)} BY <4>1, <3>2
      <4>4. g[S \ {Max(S)}] = it[S \ {Max(S)}] BY <2>2, <4>3
      <4>5. it[S] = IF S = {} THEN c ELSE Advance(what, it[S \ {Max(S)}], s[Max(S)])
        BY <2>1, <4>1, Zenon DEF Folding
      <4> HIDE DEF g
      <4> QED BY <4>2, <4>4, <4>5
    <3> QED BY <3>1, <3>2
  <2>4. Folding(what, g, c, s, m + 1) BY <2>3, Zenon DEF Folding
  <2> QED BY <2>4
<1> HIDE DEF T
<1>3. n \in T BY <1>1, <1>2, Stepwise
<1> QED BY <1>3 DEF T

Stepping(what, it, c, s, n) ==
  it[1..0] = c /\ \A k \in 0..(n - 1) : it[1..(k + 1)] = Advance(what, it[1..k], s[k + 1])

(* It goes from entry to entry.                                            *)
LEMMA FoldingSteps ==
  ASSUME NEW what, NEW c, NEW s, NEW n \in Nat, NEW it, Folding(what, it, c, s, n)
  PROVE  Stepping(what, it, c, s, n)
<1>1. it[1..0] = c
  <2>1. 1..0 = {} OBVIOUS
  <2> QED BY <2>1, Zenon DEF Folding
<1>2. ASSUME NEW k \in 0..(n - 1) PROVE it[1..(k + 1)] = Advance(what, it[1..k], s[k + 1])
  <2>1. k \in Nat /\ k \in 0..n /\ k + 1 \in 0..n OBVIOUS
  <2>2. /\ 1..(k + 1) \subseteq 1..(k + 1) /\ k + 1 \in 1..(k + 1)
        /\ 1..(k + 1) \in SUBSET (1..n) /\ 1..(k + 1) # {}
    BY <2>1
  <2>3. Max(1..(k + 1)) = k + 1 BY <2>1, <2>2, LargestIs
  <2>4. (1..(k + 1)) \ {k + 1} = 1..k BY <2>1
  <2> QED BY <2>2, <2>3, <2>4, Zenon DEF Folding
<1> QED BY <1>1, <1>2 DEF Stepping

(* The end of a resynchronisation, its replay entry by entry.              *)
Pruned(c, newest) ==
  [ReplaceOverlay(c, PruneOverlay(c.pages, c.ref, newest)) EXCEPT
     !.syncing = "no", !.stateReq = None, !.historyReq = None, !.buffered = <<>>, !.draining = TRUE]
Drained(c) == [c EXCEPT !.draining = FALSE, !.deferred = FALSE]
Replays(f, c, s, n) == f[0] = c /\ \A k \in 0..(n - 1) : f[k + 1] = ProcessEvent(f[k], s[k + 1])

(* The end of a resynchronisation is the replay, event by event, of what   *)
(* was held back, and then a resynchronisation or none.                    *)
LEMMA Replayed ==
  ASSUME NEW c, NEW newest, NEW n \in Nat, DOMAIN c.buffered = 1..n
  PROVE  \E f : /\ Replays(f, Pruned(c, newest), c.buffered, n)
                /\ FinishResync(c, newest) =
                     IF f[n].deferred THEN StartResync(Drained(f[n])) ELSE Settled(Drained(f[n]))
<1> DEFINE p == Pruned(c, newest)
           s == c.buffered
           P(i) == i = [S \in SUBSET DOMAIN s |-> IF S = {} THEN p ELSE ProcessEvent(i[S \ {Max(S)}], s[Max(S)])]
           it == CHOOSE i : P(i)
           f == [k \in 0..n |-> it[1..k]]
<1>1. FinishResync(c, newest) =
        IF it[1..n].deferred THEN StartResync(Drained(it[1..n])) ELSE Settled(Drained(it[1..n]))
  BY DEF FinishResync, FoldLeft, MapThenFoldSet, Pruned, Drained
<1> HIDE DEF p
<1>2. \A a, b : Advance("replay", a, b) = ProcessEvent(a, b) BY DEF Advance
<1>3. \A i : P(i) <=> Folding("replay", i, p, s, n) BY <1>2, Zenon DEF Folding
<1>4. \E i : P(i) BY <1>3, FoldingExists, Zenon
<1>5. P(it) BY <1>4, Zenon
<1> HIDE DEF it, P
<1>6. Folding("replay", it, p, s, n) BY <1>3, <1>5
<1>7. /\ it[1..0] = p
      /\ \A k \in 0..(n - 1) : it[1..(k + 1)] = Advance("replay", it[1..k], s[k + 1])
  <2>1. Stepping("replay", it, p, s, n) BY <1>6, FoldingSteps
  <2> QED BY <2>1 DEF Stepping
<1>8. f[0] = p /\ f[n] = it[1..n] BY <1>7
<1>9. \A k \in 0..(n - 1) : f[k + 1] = ProcessEvent(f[k], s[k + 1])
  <2>1. \A k \in 0..(n - 1) : k \in 0..n /\ k + 1 \in 0..n OBVIOUS
  <2>2. \A k \in 0..n : f[k] = it[1..k] OBVIOUS
  <2> HIDE DEF f
  <2> QED BY <1>2, <1>7, <2>1, <2>2
<1> HIDE DEF f
<1>10. Replays(f, p, s, n) BY <1>8, <1>9, Zenon DEF Replays
<1> QED BY <1>1, <1>8, <1>10, Zenon DEF p

(* A publication, event by event.                                          *)
LEMMA Publication ==
  ASSUME NEW s, NEW n \in Nat, DOMAIN s = 1..n, Publish(s)
  PROVE  \/ socket # "up" /\ wire' = wire /\ socket' = socket
         \/ /\ socket = "up"
            /\ \E f : /\ f[0] = wire /\ (\A k \in 0..(n - 1) : f[k + 1] = Enqueue(f[k], s[k + 1])) /\ wire' = f[n]
            /\ socket' = IF wire' # <<>> /\ Last(wire').kind = "close" THEN "down" ELSE "up"
<1> DEFINE P(i) == i = [S \in SUBSET DOMAIN s |-> IF S = {} THEN wire ELSE Enqueue(i[S \ {Max(S)}], s[Max(S)])]
           it == CHOOSE i : P(i)
           f == [k \in 0..n |-> it[1..k]]
<1>1. CASE socket # "up" BY <1>1, Zenon DEF Publish
<1>2. CASE socket = "up"
  <2>1. /\ wire' = it[1..n]
        /\ socket' = IF it[1..n] # <<>> /\ Last(it[1..n]).kind = "close" THEN "down" ELSE "up"
    BY <1>2 DEF Publish, FoldLeft, MapThenFoldSet
  <2>2. \A a, b : Advance("publish", a, b) = Enqueue(a, b) BY DEF Advance
  <2>3. \A i : P(i) <=> Folding("publish", i, wire, s, n) BY <2>2, Zenon DEF Folding
  <2>4. \E i : P(i) BY <2>3, FoldingExists, Zenon
  <2>5. P(it) BY <2>4, Zenon
  <2> HIDE DEF it, P
  <2>6. Folding("publish", it, wire, s, n) BY <2>3, <2>5
  <2>7. PICK w, g : w = wire /\ g = it OBVIOUS
  <2>8. Folding("publish", g, w, s, n) BY <2>6, <2>7
  <2>9. /\ g[1..0] = w
        /\ \A k \in 0..(n - 1) : g[1..(k + 1)] = Advance("publish", g[1..k], s[k + 1])
    <3>1. Stepping("publish", g, w, s, n) BY <2>8, FoldingSteps
    <3> QED BY <3>1 DEF Stepping
  <2>10. f[0] = wire /\ f[n] = it[1..n] BY <2>7, <2>9
  <2>11. \A k \in 0..(n - 1) : f[k + 1] = Enqueue(f[k], s[k + 1])
    <3>1. \A k \in 0..(n - 1) : k \in 0..n /\ k + 1 \in 0..n OBVIOUS
    <3>2. \A k \in 0..n : f[k] = g[1..k] BY <2>7
    <3> HIDE DEF f
    <3> QED BY <2>2, <2>9, <3>1, <3>2
  <2> HIDE DEF f
  <2> QED BY <1>2, <2>1, <2>10, <2>11, Zenon
<1> QED BY <1>1, <1>2

Events ==
  [kind : {"open", "close", "runtime_state", "approval_required", "approval_resolved", "approval_cancelled",
           "output", "follow_up", "run_ended"},
   run : Nat, seq : Nat, type : Phases \cup {"", "assistant_message", "queue_promoted"}, of : Nat]

(* The connection is dropped, with all the queue holds.                    *)
Closed(v, w) == v \in {w, <<Marker("close")>>} /\ v # <<>> /\ Last(v).kind = "close"

(* A queue the hub has dropped ends in its close.                          *)
LEMMA MarkerCloses == <<Marker("close")>> # <<>> /\ Last(<<Marker("close")>>).kind = "close"
<1>1. \A m : <<m>> # <<>> /\ Last(<<m>>) = m BY DEF Last
<1>2. Marker("close").kind = "close" BY DEF Marker, Event
<1> QED BY <1>1, <1>2

(* One entry, and two, added at the end.                                   *)
LEMMA AddedOne ==
  ASSUME NEW S, NEW w \in Seq(S), NEW s \in Seq(S), Len(s) = 1
  PROVE  s[1] \in S /\ Append(w, s[1]) = w \o s
<1>1. s[1] \in S OBVIOUS
<1>2. s = <<s[1]>> OBVIOUS
<1> QED BY <1>1, <1>2, AppendIsConcat

(* Two events put one after the other behind a sequence.                   *)
LEMMA AddedTwo ==
  ASSUME NEW S, NEW w \in Seq(S), NEW s \in Seq(S), Len(s) = 2
  PROVE  s[1] \in S /\ s[2] \in S /\ Append(Append(w, s[1]), s[2]) = w \o s
<1>1. s[1] \in S /\ s[2] \in S OBVIOUS
<1> DEFINE v == Append(w, s[1])
           x == Append(v, s[2])
           y == w \o s
           n == Len(w)
<1>0. n \in Nat OBVIOUS
<1>2. v \in Seq(S) /\ Len(v) = n + 1 /\ (\A i \in 1..n : v[i] = w[i]) /\ v[n + 1] = s[1]
  BY <1>1, AppendProperties
<1> HIDE DEF v
<1>3. x \in Seq(S) /\ Len(x) = Len(v) + 1 /\ (\A i \in 1..Len(v) : x[i] = v[i]) /\ x[Len(v) + 1] = s[2]
  BY <1>1, <1>2, AppendProperties
<1>4. y \in Seq(S) /\ Len(y) = n + Len(s) /\ \A i \in 1..Len(y) : y[i] = IF i <= n THEN w[i] ELSE s[i - n]
  <2>1. \A a, b \in Seq(S) : /\ a \o b \in Seq(S) /\ Len(a \o b) = Len(a) + Len(b)
                            /\ \A i \in 1..Len(a) + Len(b) : (a \o b)[i] = IF i <= Len(a) THEN a[i] ELSE b[i - Len(a)]
    BY ConcatProperties
  <2> QED BY <2>1
<1> HIDE DEF x, y, n
<1>5. ASSUME NEW i \in 1..(n + 2) PROVE x[i] = y[i]
  <2>0. i \in 1..Len(y) /\ y[i] = (IF i <= n THEN w[i] ELSE s[i - n]) BY <1>0, <1>4
  <2>1. CASE i \in 1..n
    <3>1. i \in 1..Len(v) /\ i <= n BY <1>0, <1>2, <2>1
    <3> QED BY <1>2, <1>3, <2>0, <2>1, <3>1
  <2>2. CASE i = n + 1
    <3>1. i \in 1..Len(v) /\ ~(i <= n) /\ i - n = 1 BY <1>0, <1>2, <2>2
    <3> QED BY <1>2, <1>3, <2>0, <2>2, <3>1
  <2>3. CASE i = n + 2
    <3>1. i = Len(v) + 1 /\ ~(i <= n) /\ i - n = 2 BY <1>0, <1>2, <2>3
    <3> QED BY <1>3, <2>0, <3>1
  <2> QED BY <1>0, <2>1, <2>2, <2>3
<1>6. Len(x) = n + 2 /\ Len(y) = n + 2 BY <1>0, <1>2, <1>3, <1>4
<1>7. x = y BY <1>3, <1>4, <1>5, <1>6, SeqEqual
<1> QED BY <1>1, <1>7 DEF v, x, y

(* One event joins the queue of the connection, or the queue is or becomes *)
(* closed.                                                                 *)
LEMMA EnqueueDoes ==
  ASSUME NEW w \in Seq(Events), NEW e \in Events, e.kind # "close", NEW v, v = Enqueue(w, e)
  PROVE  Closed(v, w) \/ (v = Append(w, e) /\ Last(v) = e)
<1>1. CASE w # <<>> /\ Last(w).kind = "close"
  <2>1. v = w BY <1>1, Zenon DEF Enqueue
  <2> QED BY <1>1, <2>1, Zenon DEF Closed
<1>2. CASE ~(w # <<>> /\ Last(w).kind = "close") /\ Len(w) >= QueueCapacity
  <2>1. v = <<Marker("close")>> BY <1>2, Zenon DEF Enqueue
  <2>2. v # <<>> /\ Last(v).kind = "close" BY <2>1, MarkerCloses
  <2> QED BY <2>1, <2>2 DEF Closed
<1>3. CASE ~(w # <<>> /\ Last(w).kind = "close") /\ ~(Len(w) >= QueueCapacity)
  <2>1. v = Append(w, e) BY <1>3, Zenon DEF Enqueue
  <2>2. Last(v) = e BY <2>1 DEF Last
  <2> QED BY <2>1, <2>2
<1> QED BY <1>1, <1>2, <1>3

(* At most two events are published at once. Each is added to the queue in *)
(* their order, or the connection ends.                                    *)
Told(s) ==
  \/ socket = "up" /\ socket' = "up" /\ wire' = wire \o s
  \/ socket = "up" /\ socket' = "down" /\ wire' \in {wire, <<Marker("close")>>}
  \/ socket # "up" /\ socket' = socket /\ wire' = wire

(* What publishing one or two events does to the stream: they are added    *)
(* whole, or the connection is dropped, or there is none.                  *)
LEMMA PublishDoes ==
  ASSUME wire \in Seq(Events), NEW s \in Seq(Events), Len(s) <= 2, Publish(s),
         \A i \in DOMAIN s : s[i].kind # "close"
  PROVE  Told(s)
<1> DEFINE n == Len(s)
<1>1. n \in Nat /\ DOMAIN s = 1..n OBVIOUS
<1> HIDE DEF n
<1>2. CASE socket # "up" BY <1>1, <1>2, Publication DEF Told
<1>3. CASE socket = "up"
  <2>1. PICK f : /\ f[0] = wire /\ (\A k \in 0..(n - 1) : f[k + 1] = Enqueue(f[k], s[k + 1]))
                 /\ wire' = f[n]
                 /\ socket' = IF wire' # <<>> /\ Last(wire').kind = "close" THEN "down" ELSE "up"
    BY <1>1, <1>3, Publication
  <2>2. CASE n = 0
    <3>1. wire' = wire /\ s = <<>> BY <1>1, <2>1, <2>2 DEF n
    <3>2. wire \o s = wire BY <3>1
    <3> QED BY <1>3, <2>1, <3>1, <3>2 DEF Told
  <2>3. CASE n = 1
    <3>1. wire' = Enqueue(wire, s[1]) BY <2>1, <2>3
    <3>2. s[1] \in Events /\ s[1].kind # "close" BY <1>1, <2>3
    <3>3. Append(wire, s[1]) = wire \o s BY <2>3, AddedOne DEF n
    <3>4. Closed(wire', wire) \/ (wire' = Append(wire, s[1]) /\ Last(wire') = s[1])
      BY <3>1, <3>2, EnqueueDoes
    <3> QED BY <1>3, <2>1, <3>2, <3>3, <3>4 DEF Told, Closed
  <2>4. CASE n = 2
    <3>1. wire' = Enqueue(f[1], s[2]) /\ f[1] = Enqueue(wire, s[1]) BY <2>1, <2>4
    <3>2. s[1] \in Events /\ s[1].kind # "close" /\ s[2] \in Events /\ s[2].kind # "close"
      BY <1>1, <2>4, AddedTwo DEF n
    <3>3. Append(Append(wire, s[1]), s[2]) = wire \o s BY <2>4, AddedTwo DEF n
    <3>4. Closed(f[1], wire) \/ f[1] = Append(wire, s[1]) BY <3>1, <3>2, EnqueueDoes
    <3>5. CASE Closed(f[1], wire)
      <4>1. wire' = f[1] BY <3>1, <3>5 DEF Enqueue, Closed
      <4> QED BY <1>3, <2>1, <3>5, <4>1 DEF Told, Closed
    <3>6. CASE f[1] = Append(wire, s[1])
      <4> DEFINE w == Append(wire, s[1])
      <4>1. w \in Seq(Events) BY <3>2
      <4>2. w # <<>> /\ Last(w) = s[1] BY DEF Last
      <4> HIDE DEF w
      <4>3. wire' = Enqueue(w, s[2]) BY <3>1, <3>6 DEF w
      <4>4. wire' = <<Marker("close")>> \/ (wire' = Append(w, s[2]) /\ Last(wire') = s[2])
        BY <3>2, <4>1, <4>2, <4>3, EnqueueDoes DEF Closed
      <4>5. Last(<<Marker("close")>>).kind = "close" /\ <<Marker("close")>> # <<>> BY MarkerCloses
      <4>6. CASE wire' = <<Marker("close")>> BY <1>3, <2>1, <4>5, <4>6 DEF Told
      <4>7. CASE wire' = Append(w, s[2]) /\ Last(wire') = s[2]
        BY <1>3, <2>1, <3>2, <3>3, <4>7 DEF Told, w
      <4> QED BY <4>4, <4>6, <4>7
    <3> QED BY <3>4, <3>5, <3>6
  <2> QED BY <1>1, <2>2, <2>3, <2>4 DEF n
<1> QED BY <1>2, <1>3

-----------------------------------------------------------------------------
ClientFields ==
  {"selected", "link", "status", "syncing", "stateReq", "historyReq", "refetch", "fetch", "buffered", "draining",
   "deferred", "overlay", "ref", "rendered", "ended", "resynced", "pages", "state", "lost"}
IsClient(c) == c = [f \in ClientFields |-> c[f]]

(* The record d is c but for the fields in F.                              *)
Changes(c, d, F) == IsClient(d) /\ \A f \in ClientFields \ F : d[f] = c[f]

(* What two steps leave alone both leave alone.                            *)
LEMMA ChangesOn ==
  ASSUME NEW a, NEW b, NEW c, NEW F, NEW G, Changes(a, b, F), Changes(b, c, G)
  PROVE  Changes(a, c, F \cup G)
BY Zenon DEF Changes

(* What startResync sets, and the fields it leaves alone.                  *)
LEMMA StartResyncDoes ==
  ASSUME NEW c, IsClient(c), NEW d, d = StartResync(c)
  PROVE  /\ Changes(c, d, {"buffered", "syncing", "stateReq", "historyReq", "fetch", "lost"})
         /\ d.syncing = "requests" /\ d.stateReq = Asked /\ d.historyReq = Asked /\ d.fetch = NoFetch
         /\ d.lost = c.lost \ {"reconnect"}
         /\ d.buffered = IF c.syncing = "no" THEN <<>> ELSE c.buffered
BY Zenon DEF StartResync, IsClient, Changes, ClientFields

Resyncs(c, d) ==
  /\ ~c.draining /\ c.selected /\ c.syncing = "no"
  /\ d.syncing = "requests" /\ d.stateReq = Asked /\ d.historyReq = Asked /\ d.fetch = NoFetch
  /\ d.lost = c.lost \ {"reconnect"} /\ d.buffered = <<>> /\ d.deferred = c.deferred
NoResync(c, d) ==
  /\ d.syncing = c.syncing /\ d.stateReq = c.stateReq /\ d.historyReq = c.historyReq /\ d.fetch = c.fetch
  /\ d.lost = c.lost /\ d.buffered = c.buffered
  /\ \/ d.deferred = c.deferred
     \/ c.selected /\ c.draining /\ d.deferred = TRUE
ResyncFields == {"buffered", "syncing", "stateReq", "historyReq", "fetch", "lost", "deferred"}

(* What requestSelectedResync does: nothing, a note for the end of the     *)
(* replay, or the start of a resynchronisation.                            *)
LEMMA RequestDoes ==
  ASSUME NEW c, IsClient(c), NEW d, d = RequestSelectedResync(c)
  PROVE  /\ Changes(c, d, ResyncFields) /\ (NoResync(c, d) \/ Resyncs(c, d))
         /\ c.selected /\ ~c.draining /\ c.syncing = "no" => Resyncs(c, d)
         /\ c.selected /\ c.draining => d.deferred = TRUE
<1>1. CASE ~c.selected \/ (c.selected /\ ~c.draining /\ c.syncing # "no")
  <2>1. d = c BY <1>1 DEF RequestSelectedResync
  <2> QED BY <1>1, <2>1, Zenon DEF Changes, NoResync
<1>2. CASE c.selected /\ c.draining
  <2>1. d = [c EXCEPT !.deferred = TRUE] BY <1>2 DEF RequestSelectedResync
  <2>2. Changes(c, d, {"deferred"}) /\ d.deferred = TRUE
    BY <2>1, Zenon DEF Changes, IsClient, ClientFields
  <2> QED BY <1>2, <2>2 DEF Changes, ClientFields, ResyncFields, NoResync
<1>3. CASE c.selected /\ ~c.draining /\ c.syncing = "no"
  <2>1. d = StartResync(c) BY <1>3 DEF RequestSelectedResync
  <2> QED BY <1>3, <2>1, StartResyncDoes DEF Changes, ClientFields, ResyncFields, Resyncs
<1> QED BY <1>1, <1>2, <1>3

(* What putting a live record into the overlay does.                       *)
LEMMA PutRecordDoes ==
  ASSUME NEW c, IsClient(c), NEW r, NEW d, d = PutRecord(c, r)
  PROVE  /\ Changes(c, d, {"overlay", "ref", "rendered"})
         /\ d.overlay = Put(c.overlay, r) /\ d.ref \in {c.ref, Put(c.overlay, r)}
BY Zenon DEF PutRecord, IsClient, Changes, ClientFields

Changed(s, e) ==
  LET ver == [s EXCEPT !.ver = e.of]
  IN  CASE e.kind = "runtime_state" -> [ver EXCEPT !.run = e.run, !.phase = e.type]
        [] e.kind = "approval_required" -> [ver EXCEPT !.approvals = @ \cup {e.run}]
        [] OTHER -> [ver EXCEPT !.approvals = @ \ {e.run}]

(* What an event does to the cached state.                                 *)
LEMMA UpdateStateDoes ==
  ASSUME NEW c, IsClient(c), NEW e, NEW d, d = UpdateState(c, e)
  PROVE  Changes(c, d, {"state"}) /\ (\A s : c.state = {s} => d.state = {Changed(s, e)})
<1>1. Changes(c, d, {"state"}) BY Zenon DEF UpdateState, IsClient, Changes, ClientFields
<1>2. ASSUME NEW s, c.state = {s} PROVE d.state = {Changed(s, e)}
 BY <1>2, Zenon DEF UpdateState, IsClient, Changes, ClientFields, Changed
<1> QED BY <1>1, <1>2

StateKinds == {"runtime_state", "approval_required", "approval_resolved", "approval_cancelled"}

(* What processEvent does to the client c.                                 *)
ProcessFields == ResyncFields \cup {"state", "ended", "refetch", "overlay", "ref", "rendered"}
Overlays(c, d) ==
  \/ d.overlay = c.overlay /\ d.ref = c.ref
  \/ \E r : d.overlay = Put(c.overlay, r) /\ d.ref \in {c.ref, Put(c.overlay, r)}
Calls(e) ==
  \/ e.kind \in {"approval_resolved", "run_ended"}
  \/ e.kind = "follow_up" /\ e.type \in {"queue_submitted", "queue_promoted"}
Shows(c, e, d) ==
  \/ OverlayRecords(e, 0) = {} /\ d.overlay = c.overlay
  \/ \E r : OverlayRecords(e, 0) = {r} /\ d.overlay = Put(c.overlay, r)
Adds(c, e, d) ==
  \/ d.overlay = c.overlay
  \/ \E r : d.overlay = Put(c.overlay, r) /\ (r \in OverlayRecords(e, 0) \/ r.type = "run_ended")
Processes(c, e, d) ==
  /\ Changes(c, d, ProcessFields) /\ Adds(c, e, d)
  /\ NoResync(c, d) \/ Resyncs(c, d)
  /\ Overlays(c, d)
  /\ e.kind \in StateKinds => \A s : c.state = {s} => d.state = {Changed(s, e)}
  /\ e.kind \notin StateKinds => d.state = c.state
  /\ e.kind = "run_ended" => d.ended = e.run /\ d.refetch = Asked
  /\ e.kind # "run_ended" => d.ended = c.ended /\ d.refetch = c.refetch
  /\ c.selected /\ Calls(e) => IF c.draining THEN d.deferred = TRUE ELSE c.syncing = "no" => Resyncs(c, d)
  /\ c.selected /\ e.kind # "run_ended" => Shows(c, e, d)

(* What processEvent does with an event.                                   *)
LEMMA ProcessEventDoes ==
  ASSUME NEW c, IsClient(c), NEW e, NEW d, d = ProcessEvent(c, e)
  PROVE  Processes(c, e, d)
<1> DEFINE cached == CASE e.kind \in {"runtime_state", "approval_required", "approval_resolved",
                                      "approval_cancelled"} ->
                              UpdateState(c, e)
                       [] e.kind = "run_ended" -> [c EXCEPT !.ended = e.run, !.refetch = Asked]
                       [] OTHER -> c
           resyncs == \/ e.kind \in {"approval_resolved", "run_ended"}
                      \/ e.kind = "follow_up" /\ e.type \in {"queue_submitted", "queue_promoted"}
           synced == IF resyncs THEN RequestSelectedResync(cached) ELSE cached
           endedSeq == IF e.kind = "run_ended"
                       THEN NextLiveRunEndedSequence(c.pages, c.ref, e.run) ELSE 0
           records == IF c.selected THEN OverlayRecords(e, endedSeq) ELSE {}
           rec == CHOOSE r \in records : TRUE
<1>1. d = IF records = {} THEN synced ELSE PutRecord(synced, rec)
  BY Zenon DEF ProcessEvent
<1>2. /\ Changes(c, cached, {"state", "ended", "refetch"})
      /\ e.kind \in StateKinds => \A s : c.state = {s} => cached.state = {Changed(s, e)}
      /\ e.kind \notin StateKinds => cached.state = c.state
      /\ e.kind = "run_ended" => cached.ended = e.run /\ cached.refetch = Asked
      /\ e.kind # "run_ended" => cached.ended = c.ended /\ cached.refetch = c.refetch
  <2>1. CASE e.kind \in StateKinds
    <3>1. cached = UpdateState(c, e) BY <2>1 DEF StateKinds
    <3>2. e.kind # "run_ended" BY <2>1 DEF StateKinds
    <3> HIDE DEF cached
    <3>3. Changes(c, cached, {"state"}) /\ (\A s : c.state = {s} => cached.state = {Changed(s, e)})
      BY <3>1, UpdateStateDoes
    <3> QED BY <2>1, <3>2, <3>3 DEF Changes, ClientFields
  <2>2. CASE e.kind = "run_ended"
    <3>1. e.kind \notin StateKinds BY <2>2 DEF StateKinds
    <3>2. cached = [c EXCEPT !.ended = e.run, !.refetch = Asked] BY <2>2
    <3> HIDE DEF cached
    <3>3. Changes(c, cached, {"ended", "refetch"}) /\ cached.ended = e.run /\ cached.refetch = Asked
      BY <3>2, Zenon DEF Changes, IsClient, ClientFields
    <3> QED BY <2>2, <3>1, <3>3 DEF Changes, ClientFields
  <2>3. CASE e.kind \notin StateKinds /\ e.kind # "run_ended"
    <3>1. cached = c BY <2>3 DEF StateKinds
    <3> HIDE DEF cached
    <3> QED BY <2>3, <3>1 DEF Changes
  <2> QED BY <2>1, <2>2, <2>3
<1> HIDE DEF cached
<1>3. /\ Changes(cached, synced, ResyncFields) /\ (NoResync(cached, synced) \/ Resyncs(cached, synced))
      /\ Calls(e) =>
           /\ cached.selected /\ ~cached.draining /\ cached.syncing = "no" => Resyncs(cached, synced)
           /\ cached.selected /\ cached.draining => synced.deferred = TRUE
  <2>1. IsClient(cached) BY <1>2 DEF Changes
  <2>2. CASE resyncs
    <3>1. synced = RequestSelectedResync(cached) BY <2>2
    <3> HIDE DEF synced, resyncs
    <3> QED BY <2>1, <3>1, RequestDoes
  <2>3. CASE ~resyncs
    <3>1. synced = cached /\ ~Calls(e) BY <2>3 DEF Calls
    <3> HIDE DEF synced, resyncs
    <3> QED BY <2>1, <3>1 DEF Changes, NoResync
  <2> QED BY <2>2, <2>3
<1>r. c.selected /\ e.kind # "run_ended" => records = OverlayRecords(e, 0) OBVIOUS
<1>s. records = {} \/ \E r : records = {r}
  <2>1. \A q : OverlayRecords(e, q) = {} \/ \E r : OverlayRecords(e, q) = {r} BY Zenon DEF OverlayRecords
  <2> HIDE DEF endedSeq
  <2> QED BY <2>1
<1>t. \A r : records = {r} => rec = r OBVIOUS
<1>u. \A r : records = {r} => r \in OverlayRecords(e, 0) \/ r.type = "run_ended"
  <2>1. \A q, r : r \in OverlayRecords(e, q) => r \in OverlayRecords(e, 0) \/ r.type = "run_ended"
    <3>1. \A a, b, x : Record(a, "run_ended", b, x).type = "run_ended" BY DEF Record
    <3>2. ASSUME e.kind # "run_ended", NEW q PROVE OverlayRecords(e, q) = OverlayRecords(e, 0)
      BY <3>2, Zenon DEF OverlayRecords
    <3>3. ASSUME e.kind = "run_ended", NEW q, NEW r \in OverlayRecords(e, q)
          PROVE  \E a, b, x : r = Record(a, "run_ended", b, x)
      BY <3>3 DEF OverlayRecords
    <3> QED BY <3>1, <3>2, <3>3
  <2> HIDE DEF endedSeq
  <2> QED BY <2>1
<1> HIDE DEF synced, records, rec
<1>4. /\ Changes(synced, d, {"overlay", "ref", "rendered"})
      /\ \/ records = {} /\ d.overlay = synced.overlay /\ d.ref = synced.ref
         \/ records # {} /\ d.overlay = Put(synced.overlay, rec) /\ d.ref \in {synced.ref, Put(synced.overlay, rec)}
  <2>1. IsClient(synced) BY <1>3 DEF Changes
  <2>2. CASE records = {}
    <3>1. d = synced BY <1>1, <2>2
    <3> QED BY <2>1, <2>2, <3>1 DEF Changes
  <2>3. CASE records # {}
    <3>1. d = PutRecord(synced, rec) BY <1>1, <2>3
    <3> QED BY <2>1, <2>3, <3>1, PutRecordDoes
  <2> QED BY <2>2, <2>3
<1>5. Changes(c, d, ProcessFields)
  <2>1. Changes(c, synced, {"state", "ended", "refetch"} \cup ResyncFields)
    BY <1>2, <1>3, ChangesOn
  <2>2. Changes(c, d, ({"state", "ended", "refetch"} \cup ResyncFields) \cup {"overlay", "ref", "rendered"})
    BY <1>4, <2>1, ChangesOn
  <2>3. ({"state", "ended", "refetch"} \cup ResyncFields) \cup {"overlay", "ref", "rendered"} = ProcessFields
    BY DEF ProcessFields
  <2> QED BY <2>2, <2>3
<1>6. /\ cached.selected = c.selected /\ cached.draining = c.draining /\ cached.syncing = c.syncing
      /\ cached.stateReq = c.stateReq /\ cached.historyReq = c.historyReq /\ cached.fetch = c.fetch
      /\ cached.lost = c.lost /\ cached.buffered = c.buffered /\ cached.deferred = c.deferred
      /\ cached.overlay = c.overlay /\ cached.ref = c.ref
  BY <1>2 DEF Changes, ClientFields
<1>7. /\ d.syncing = synced.syncing /\ d.stateReq = synced.stateReq /\ d.historyReq = synced.historyReq
      /\ d.fetch = synced.fetch /\ d.lost = synced.lost /\ d.buffered = synced.buffered
      /\ d.deferred = synced.deferred /\ d.state = synced.state /\ d.ended = synced.ended
      /\ d.refetch = synced.refetch
  BY <1>4 DEF Changes, ClientFields
<1>8. /\ synced.state = cached.state /\ synced.ended = cached.ended /\ synced.refetch = cached.refetch
      /\ synced.overlay = cached.overlay /\ synced.ref = cached.ref
  BY <1>3 DEF Changes, ClientFields, ResyncFields
<1>9. (NoResync(c, d) \/ Resyncs(c, d))
  BY <1>3, <1>6, <1>7 DEF NoResync, Resyncs
<1>10. Overlays(c, d) BY <1>4, <1>6, <1>8 DEF Overlays
<1>11. /\ e.kind = "run_ended" => d.ended = e.run /\ d.refetch = Asked
       /\ c.selected /\ Calls(e) => IF c.draining THEN d.deferred = TRUE ELSE c.syncing = "no" => Resyncs(c, d)
  BY <1>2, <1>3, <1>6, <1>7, <1>8 DEF Resyncs
<1>12. c.selected /\ e.kind # "run_ended" => Shows(c, e, d)
  BY <1>r, <1>s, <1>t, <1>4, <1>6, <1>8 DEF Shows
<1>13. Adds(c, e, d)
  <2>1. records # {} => rec \in OverlayRecords(e, 0) \/ rec.type = "run_ended"
    BY <1>s, <1>t, <1>u
  <2> QED BY <1>4, <1>6, <1>8, <2>1 DEF Adds
<1> QED BY <1>2, <1>5, <1>7, <1>8, <1>9, <1>10, <1>11, <1>12, <1>13 DEF Processes

-----------------------------------------------------------------------------
Links == {"connected", "reconnecting"}
IsAnswer(q) == q \in {None, Asked, Slot("failed", {})} \/ \E s : q = Slot("answered", {s})
InPlace(overlay) == \A s \in DOMAIN overlay : overlay[s].seq = s

Truthful(c) ==
  /\ c.status = "connected" => c.link = "connected"
  /\ c.selected /\ c.link = "connected" /\ c.syncing = "no" => c.status = "connected"

(* What every step of the client keeps, whatever the server sends.         *)
Sound(c) ==
  /\ IsClient(c)
  /\ c.draining = FALSE /\ c.deferred = FALSE
  /\ c.selected \in BOOLEAN /\ c.link \in Links /\ c.status \in Links
  /\ c.syncing \in {"no", "requests", "refetch"}
  /\ c.syncing = "no" => c.buffered = <<>> /\ c.stateReq = None /\ c.historyReq = None
  /\ c.syncing # "no" => c.selected
  /\ c.buffered \in Seq(Events)
  /\ \E s : c.state = {s}
  /\ IsAnswer(c.stateReq) /\ IsAnswer(c.historyReq) /\ IsAnswer(c.refetch)
  /\ c.lost \subseteq {"reconnect", "state", "history"}
  /\ InPlace(c.overlay) /\ InPlace(c.ref)
  /\ Truthful(c)

(* A record put into the overlay stands at its sequence number.            *)
LEMMA PutInPlace ==
  ASSUME NEW o, InPlace(o), NEW r PROVE InPlace(Put(o, r))
BY DEF InPlace, Put

(* Pruning the overlay moves no record.                                    *)
LEMMA PruneInPlace ==
  ASSUME NEW o, InPlace(o), NEW pages, NEW newest PROVE InPlace(PruneOverlay(pages, o, newest))
<1>1. \A S : S \subseteq DOMAIN o => InPlace(Restrict(o, S)) BY DEF InPlace, Restrict
<1> DEFINE ended == CanonicalRunEndedIds(pages)
           IsEnding(s) == IsCompleteRunEnded(o[s])
           unreconciled == {s \in DOMAIN o : IsEnding(s) /\ o[s].run \notin ended}
           newer == {s \in DOMAIN o : s > newest /\ ~(IsEnding(s) /\ o[s].run \in ended)}
           rest == {s \in DOMAIN o : ~IsEnding(s) \/ o[s].run \notin ended}
<1>2. PruneOverlay(pages, o, newest) = IF newest = 0 THEN Restrict(o, rest) ELSE Restrict(o, unreconciled \cup newer)
  BY Zenon DEF PruneOverlay
<1>3. rest \subseteq DOMAIN o /\ unreconciled \cup newer \subseteq DOMAIN o OBVIOUS
<1> HIDE DEF rest, unreconciled, newer
<1> QED BY <1>1, <1>2, <1>3

(* The connection shown at the end of a resynchronisation.                 *)
LEMMA SettledDoes ==
  ASSUME NEW c, IsClient(c), NEW d, d = Settled(c)
  PROVE  Changes(c, d, {"status"}) /\ d.status = IF c.link = "connected" THEN "connected" ELSE c.status
BY Zenon DEF Settled, IsClient, Changes, ClientFields

(* The end of the replay.                                                  *)
LEMMA DrainedDoes ==
  ASSUME NEW c, IsClient(c), NEW d, d = Drained(c)
  PROVE  Changes(c, d, {"draining", "deferred"}) /\ d.draining = FALSE /\ d.deferred = FALSE
BY Zenon DEF Drained, IsClient, Changes, ClientFields

(* The start of the replay.                                                *)
LEMMA PrunedDoes ==
  ASSUME NEW c, IsClient(c), NEW newest, NEW d, d = Pruned(c, newest)
  PROVE  /\ Changes(c, d, {"overlay", "ref", "rendered", "syncing", "stateReq", "historyReq", "buffered", "draining"})
         /\ d.overlay = PruneOverlay(c.pages, c.ref, newest) /\ d.ref = PruneOverlay(c.pages, c.ref, newest)
         /\ d.syncing = "no" /\ d.stateReq = None /\ d.historyReq = None /\ d.buffered = <<>> /\ d.draining = TRUE
<1> DEFINE p == PruneOverlay(c.pages, c.ref, newest)
           g == [c EXCEPT !.overlay = p, !.ref = p, !.rendered = FALSE]
<1>1. d = [g EXCEPT !.syncing = "no", !.stateReq = None, !.historyReq = None, !.buffered = <<>>, !.draining = TRUE]
  BY DEF Pruned, ReplaceOverlay
<1> HIDE DEF p
<1>2. Changes(c, g, {"overlay", "ref", "rendered"}) /\ g.overlay = p /\ g.ref = p
  BY Zenon DEF IsClient, Changes, ClientFields
<1> HIDE DEF g
<1>3. /\ Changes(g, d, {"syncing", "stateReq", "historyReq", "buffered", "draining"})
      /\ d.syncing = "no" /\ d.stateReq = None /\ d.historyReq = None /\ d.buffered = <<>> /\ d.draining = TRUE
  BY <1>1, <1>2, Zenon DEF IsClient, Changes, ClientFields
<1>4. d.overlay = p /\ d.ref = p BY <1>2, <1>3 DEF Changes, ClientFields
<1>5. Changes(c, d, {"overlay", "ref", "rendered"} \cup {"syncing", "stateReq", "historyReq", "buffered", "draining"})
  BY <1>2, <1>3, ChangesOn
<1> QED BY <1>3, <1>4, <1>5, Zenon DEF p, Changes

(* What a render does.                                                     *)
LEMMA RenderedDoes ==
  ASSUME NEW c, IsClient(c), NEW d, d = Rendered(c)
  PROVE  Changes(c, d, {"ref", "rendered"}) /\ d.ref = c.overlay
BY Zenon DEF Rendered, IsClient, Changes, ClientFields

(* The replay of held-back events changes only caches and overlay, and     *)
(* notes that a resynchronisation was asked for.                           *)
Kept(c, d) ==
  /\ IsClient(d)
  /\ \A f \in ClientFields \ {"deferred", "state", "ended", "refetch", "overlay", "ref", "rendered"} : d[f] = c[f]
  /\ c.deferred => d.deferred
  /\ d.deferred \in BOOLEAN
  /\ \E s : d.state = {s}
  /\ InPlace(d.overlay) /\ InPlace(d.ref)
  /\ d.refetch \in {c.refetch, Asked}

(* What every event of a replay leaves alone.                              *)
LEMMA ReplayKeeps ==
  ASSUME NEW c, NEW f, NEW s, NEW n \in Nat, Replays(f, c, s, n),
         IsClient(c), c.draining = TRUE, c.deferred \in BOOLEAN, \E t : c.state = {t}, InPlace(c.overlay),
         InPlace(c.ref),
         NEW k \in 0..n
  PROVE  Kept(c, f[k])
<1> DEFINE T == {m \in Nat : m <= n => Kept(c, f[m])}
<1>1. 0 \in T
  <2>1. f[0] = c BY DEF Replays
  <2>2. Kept(c, c) BY DEF Kept
  <2> QED BY <2>1, <2>2
<1>2. ASSUME NEW m \in Nat, m \in T PROVE m + 1 \in T
  <2> SUFFICES ASSUME m + 1 <= n PROVE Kept(c, f[m + 1]) OBVIOUS
  <2>1. Kept(c, f[m]) BY <1>2
  <2>2. f[m + 1] = ProcessEvent(f[m], s[m + 1]) BY DEF Replays
  <2> DEFINE a == f[m]
             b == f[m + 1]
  <2> HIDE DEF T, a, b
  <2>3. IsClient(a) BY <2>1 DEF Kept, a
  <2>4. Processes(a, s[m + 1], b) BY <2>2, <2>3, ProcessEventDoes DEF a, b
  <2>5. a.draining = TRUE /\ a.deferred \in BOOLEAN BY <2>1 DEF Kept, ClientFields, a
  <2>6. NoResync(a, b) BY <2>4, <2>5 DEF Processes, Resyncs
  <2>7. Changes(a, b, ProcessFields) BY <2>4 DEF Processes
  <2>8. \A g \in ClientFields \ {"deferred", "state", "ended", "refetch", "overlay", "ref", "rendered"} : b[g] = a[g]
    BY <2>6, <2>7 DEF Changes, NoResync, ProcessFields, ResyncFields, ClientFields
  <2>9. \E t : b.state = {t}
    <3>1. PICK t : a.state = {t} BY <2>1 DEF Kept, a
    <3> QED BY <2>4, <3>1, Zenon DEF Processes
  <2>10. InPlace(b.overlay) /\ InPlace(b.ref)
    <3>1. InPlace(a.overlay) /\ InPlace(a.ref) BY <2>1 DEF Kept, a
    <3>2. Overlays(a, b) BY <2>4 DEF Processes
    <3> QED BY <3>1, <3>2, PutInPlace DEF Overlays
  <2>11. b.refetch \in {c.refetch, Asked}
    BY <2>1, <2>4 DEF Kept, Processes, a
  <2>12. b.deferred \in BOOLEAN /\ (a.deferred => b.deferred)
    BY <2>5, <2>6 DEF NoResync
  <2>13. Kept(c, b)
    BY <2>1, <2>7, <2>8, <2>9, <2>10, <2>11, <2>12, Zenon DEF Kept, Changes, a
  <2> QED BY <2>13 DEF b
<1> HIDE DEF T
<1>3. k \in T BY <1>1, <1>2, Stepwise
<1> QED BY <1>3 DEF T

-----------------------------------------------------------------------------
(* How a resynchronisation ends: as the replay f of the events held back   *)
(* says, with another resynchronisation or with the connection shown.      *)
Ends(c, f, n, d) ==
  /\ \A k \in 0..n : Kept(f[0], f[k])
  /\ Replays(f, f[0], c.buffered, n)
  /\ Changes(c, f[0], {"overlay", "ref", "rendered", "syncing", "stateReq", "historyReq", "buffered", "draining"})
  /\ f[0].syncing = "no" /\ f[0].stateReq = None /\ f[0].historyReq = None /\ f[0].buffered = <<>>
  /\ f[0].draining = TRUE
  /\ Changes(f[n], d, ResyncFields \cup {"draining", "status"})
  /\ d.draining = FALSE /\ d.deferred = FALSE /\ d.buffered = <<>>
  /\ \/ /\ f[n].deferred
        /\ d.syncing = "requests" /\ d.stateReq = Asked /\ d.historyReq = Asked /\ d.fetch = NoFetch
        /\ d.lost = c.lost \ {"reconnect"} /\ d.status = c.status
     \/ /\ ~f[n].deferred
        /\ d.syncing = "no" /\ d.stateReq = None /\ d.historyReq = None /\ d.fetch = c.fetch /\ d.lost = c.lost
        /\ d.status = IF c.link = "connected" THEN "connected" ELSE c.status

(* What the end of a resynchronisation does, in terms of the replay it     *)
(* consists of.                                                            *)
LEMMA FinishDoes ==
  ASSUME NEW c, Sound(c), NEW newest, NEW d, d = FinishResync(c, newest)
  PROVE  \E f : Ends(c, f, Len(c.buffered), d) /\ f[0].overlay = PruneOverlay(c.pages, c.ref, newest)
<1> DEFINE n == Len(c.buffered)
           p == Pruned(c, newest)
<1>1. n \in Nat /\ DOMAIN c.buffered = 1..n BY DEF Sound
<1> HIDE DEF n
<1>2. PICK f : /\ Replays(f, p, c.buffered, n)
               /\ d = IF f[n].deferred THEN StartResync(Drained(f[n])) ELSE Settled(Drained(f[n]))
  BY <1>1, Replayed
<1>3. /\ Changes(c, p, {"overlay", "ref", "rendered", "syncing", "stateReq", "historyReq", "buffered", "draining"})
      /\ p.overlay = PruneOverlay(c.pages, c.ref, newest) /\ p.ref = PruneOverlay(c.pages, c.ref, newest)
      /\ p.syncing = "no" /\ p.stateReq = None /\ p.historyReq = None /\ p.buffered = <<>> /\ p.draining = TRUE
  BY PrunedDoes DEF Sound
<1> HIDE DEF p
<1>4. f[0] = p BY <1>2 DEF Replays
<1>5. /\ IsClient(p) /\ p.deferred = FALSE /\ \E t : p.state = {t}
      /\ InPlace(p.overlay) /\ InPlace(p.ref)
  <2>1. p.deferred = c.deferred /\ p.state = c.state BY <1>3 DEF Changes, ClientFields
  <2>2. InPlace(PruneOverlay(c.pages, c.ref, newest)) BY PruneInPlace DEF Sound
  <2> QED BY <1>3, <2>1, <2>2 DEF Changes, Sound
<1>6. ASSUME NEW k \in 0..n PROVE Kept(p, f[k])
  BY <1>1, <1>2, <1>3, <1>5, ReplayKeeps
<1> DEFINE a == f[n]
           b == Drained(a)
<1>7. Kept(p, a) BY <1>1, <1>6
<1> HIDE DEF a
<1>8. Changes(a, b, {"draining", "deferred"}) /\ b.draining = FALSE /\ b.deferred = FALSE
  BY <1>7, DrainedDoes DEF Kept
<1> HIDE DEF b
<1>9. IsClient(b) BY <1>8 DEF Changes
<1>10. /\ a.link = c.link /\ a.status = c.status /\ a.lost = c.lost /\ a.fetch = c.fetch
       /\ a.syncing = "no" /\ a.buffered = <<>> /\ a.stateReq = None /\ a.historyReq = None
  BY <1>3, <1>7 DEF Kept, Changes, ClientFields
<1>11. /\ b.link = c.link /\ b.status = c.status /\ b.lost = c.lost /\ b.fetch = c.fetch
       /\ b.syncing = "no" /\ b.buffered = <<>> /\ b.stateReq = None /\ b.historyReq = None
  BY <1>8, <1>10 DEF Changes, ClientFields
<1>12. /\ Changes(a, d, ResyncFields \cup {"draining", "status"})
       /\ d.draining = FALSE /\ d.deferred = FALSE /\ d.buffered = <<>>
       /\ \/ /\ a.deferred
             /\ d.syncing = "requests" /\ d.stateReq = Asked /\ d.historyReq = Asked /\ d.fetch = NoFetch
             /\ d.lost = c.lost \ {"reconnect"} /\ d.status = c.status
          \/ /\ ~a.deferred
             /\ d.syncing = "no" /\ d.stateReq = None /\ d.historyReq = None /\ d.fetch = c.fetch /\ d.lost = c.lost
             /\ d.status = IF c.link = "connected" THEN "connected" ELSE c.status
  <2>1. CASE a.deferred
    <3>1. d = StartResync(b) BY <1>2, <2>1 DEF a, b
    <3>2. /\ Changes(b, d, {"buffered", "syncing", "stateReq", "historyReq", "fetch", "lost"})
          /\ d.syncing = "requests" /\ d.stateReq = Asked /\ d.historyReq = Asked /\ d.fetch = NoFetch
          /\ d.lost = b.lost \ {"reconnect"}
          /\ d.buffered = IF b.syncing = "no" THEN <<>> ELSE b.buffered
      BY <1>9, <3>1, StartResyncDoes
    <3>3. d.draining = FALSE /\ d.deferred = FALSE /\ d.status = c.status
      BY <1>8, <1>11, <3>2 DEF Changes, ClientFields
    <3>4. Changes(a, d, ResyncFields \cup {"draining", "status"})
      BY <1>8, <3>2 DEF Changes, ClientFields, ResyncFields
    <3> QED BY <1>11, <2>1, <3>2, <3>3, <3>4
  <2>2. CASE ~a.deferred
    <3>1. d = Settled(b) BY <1>2, <2>2 DEF a, b
    <3>2. Changes(b, d, {"status"}) /\ d.status = IF b.link = "connected" THEN "connected" ELSE b.status
      BY <1>9, <3>1, SettledDoes
    <3>3. /\ d.draining = FALSE /\ d.deferred = FALSE /\ d.buffered = <<>>
          /\ d.syncing = "no" /\ d.stateReq = None /\ d.historyReq = None /\ d.fetch = c.fetch /\ d.lost = c.lost
      BY <1>8, <1>11, <3>2 DEF Changes, ClientFields
    <3>4. Changes(a, d, ResyncFields \cup {"draining", "status"})
      BY <1>8, <3>2 DEF Changes, ClientFields, ResyncFields
    <3> QED BY <1>11, <2>2, <3>2, <3>3, <3>4
  <2> QED BY <2>1, <2>2
<1>13. Ends(c, f, n, d)
  BY <1>2, <1>3, <1>4, <1>6, <1>12 DEF Ends, a
<1>14. f[0].overlay = PruneOverlay(c.pages, c.ref, newest) BY <1>3, <1>4
<1> QED BY <1>13, <1>14 DEF n

(* The end of a resynchronisation keeps the client well formed.            *)
LEMMA FinishSound ==
  ASSUME NEW c, Sound(c), c.selected, NEW f, NEW d, Ends(c, f, Len(c.buffered), d)
  PROVE  Sound(d)
<1> DEFINE n == Len(c.buffered)
           a == f[n]
           p == f[0]
<1>1. n \in 0..n BY DEF Sound
<1>2. Kept(p, a) BY <1>1 DEF Ends
<1>3. Changes(a, d, ResyncFields \cup {"draining", "status"}) BY DEF Ends
<1>4. Changes(c, p, {"overlay", "ref", "rendered", "syncing", "stateReq", "historyReq", "buffered", "draining"})
  BY DEF Ends
<1>5. /\ d.draining = FALSE /\ d.deferred = FALSE /\ d.buffered = <<>>
      /\ \/ /\ d.syncing = "requests" /\ d.stateReq = Asked /\ d.historyReq = Asked
            /\ d.lost = c.lost \ {"reconnect"} /\ d.status = c.status
         \/ /\ d.syncing = "no" /\ d.stateReq = None /\ d.historyReq = None /\ d.lost = c.lost
            /\ d.status = IF c.link = "connected" THEN "connected" ELSE c.status
  BY DEF Ends
<1> HIDE DEF n, a, p
<1>6. /\ d.selected = c.selected /\ d.link = c.link /\ d.refetch \in {c.refetch, Asked}
      /\ d.state = a.state /\ d.overlay = a.overlay /\ d.ref = a.ref
  BY <1>2, <1>3, <1>4 DEF Kept, Changes, ClientFields, ResyncFields
<1>7. (\E t : d.state = {t}) /\ InPlace(d.overlay) /\ InPlace(d.ref)
  BY <1>2, <1>6 DEF Kept
<1>8. IsClient(d) BY <1>3 DEF Changes
<1>9. IsAnswer(d.stateReq) /\ IsAnswer(d.historyReq) /\ IsAnswer(d.refetch)
  BY <1>5, <1>6 DEF Sound, IsAnswer
<1>10. d.buffered \in Seq(Events) BY <1>5
<1>11. Truthful(d) /\ d.status \in Links /\ d.link \in Links BY <1>5, <1>6 DEF Sound, Truthful, Links
<1> QED BY <1>5, <1>6, <1>7, <1>8, <1>9, <1>10, <1>11 DEF Sound

-----------------------------------------------------------------------------
(* A state event tells one thing of the Session: its Run and phase ({}) or *)
(* whether one approval is pending ({its Run}).                            *)
IsState(e) == e.kind \in StateKinds
Aspect(e) == IF e.kind = "runtime_state" THEN {} ELSE {e.run}
Says(e) == IF e.kind = "runtime_state" THEN <<e.run, e.type>>
           ELSE <<IF e.kind = "approval_required" THEN 1 ELSE 0, "">>
IsAspect(a) == a = {} \/ \E x : a = {x}
View(s, a) == IF a = {} THEN <<s.run, s.phase>> ELSE <<IF a \subseteq s.approvals THEN 1 ELSE 0, "">>

(* The Run r is over in the server v: it has been and writes no more.      *)
RunOver(v, r) == r \in Nat \ {0} /\ r <= v.runs /\ r # v.run /\ r # v.ending
RunsBehind(v) == v.run <= v.runs /\ v.ending <= v.runs /\ (v.ending # 0 => v.ending # v.run)

Announces(v, es, u) ==
  /\ es \in Seq(Events) /\ Len(es) <= 2
  /\ \A i \in DOMAIN es : es[i].kind \notin {"open", "close"} /\ ParseLiveEvent(es[i])
  /\ \A i \in DOMAIN es : IsState(es[i]) =>
       /\ es[i].of > v.ver /\ es[i].of <= u.ver
       /\ Says(es[i]) = View(u, Aspect(es[i]))
  /\ Len(es) = 2 => es[1].of < es[2].of /\ Aspect(es[1]) # Aspect(es[2])
  /\ \A a : IsAspect(a) /\ (\A i \in DOMAIN es : IsState(es[i]) => Aspect(es[i]) # a) => View(u, a) = View(v, a)
  /\ v.ver <= u.ver
  /\ \A i \in DOMAIN es : es[i].kind = "run_ended" => RunOver(u, es[i].run)

ServerType ==
  [run : 0..MaxRuns, runs : 0..MaxRuns, phase : Phases, approvals : SUBSET Nat, asked : Nat,
   first : {"direct", "queue", "written"}, ending : Nat, ver : Nat]
ServerOK ==
  /\ server \in ServerType /\ server.approvals \subseteq {server.run} /\ (server.run = 0 => server.approvals = {})
  /\ RunsBehind(server)
Records == [seq : Nat, type : {"user_message", "assistant_message", "approval", "run_ended"}, run : Nat, of : Nat]
JournalOK == journal \in Seq(Records) /\ \A i \in DOMAIN journal : journal[i].seq = i

(* What is assumed of the constants, one by one.                           *)
LEMMA BoundsAreNumbers == MaxRuns \in Nat /\ MaxRecords \in Nat /\ QueueCapacity \in Nat /\ PageSize \in Nat \ {0}
BY BoundsAssumption

(* What the serializers write of each event the server publishes is what   *)
(* the client accepts.                                                     *)
(* The envelope of a payload fits; the rest has to.                        *)
LEMMA Enveloped ==
  ASSUME NEW g, NEW h, \A f \in DOMAIN h : f \in DOMAIN g /\ g[f] \in h[f],
         NEW p, p = Extend(Written, g), NEW a, a = Extend(Envelope, h)
  PROVE  \A f \in DOMAIN a : p[f] \in a[f]
BY DEF Extend, Written, Envelope, Text

(* A runtime_state event of the server is one parseLiveEvent accepts.      *)
LEMMA StateParses ==
  ASSUME NEW r \in Nat, NEW p \in Phases, NEW v \in Nat, NEW e, e = RuntimeState(r, p, v)
  PROVE  e \in Events /\ e.kind = "runtime_state" /\ e.run = r /\ e.type = p /\ e.of = v /\ ParseLiveEvent(e)
<1>1. e \in Events /\ e.kind = "runtime_state" /\ e.run = r /\ e.type = p /\ e.of = v
  BY DEF RuntimeState, Event, Events
<1>2. Payload(e) =
        [session_id |-> "string", run_id |-> IF r = 0 THEN "null" ELSE "string",
         run_started_at |-> IF r = 0 THEN "null" ELSE "string", run_phase |-> p,
         active_follow_up_behavior |-> IF r = 0 THEN "null" ELSE "behavior",
         queued_count |-> "zero", queue_paused |-> "boolean", pending_steer_count |-> "zero", todos |-> "todos"]
  BY <1>1 DEF Payload
<1>3. Accepts["runtime_state"] =
        [session_id |-> Text, run_id |-> NullableText, run_started_at |-> NullableText,
         run_phase |-> Phases, active_follow_up_behavior |-> {"null", "behavior"},
         queued_count |-> Count, queue_paused |-> Flag, pending_steer_count |-> Count, todos |-> {"todos"}]
  BY DEF Accepts
<1>4. Parses("runtime_state", Payload(e)) BY <1>2, <1>3 DEF Parses, Text, NullableText, Count, Flag
<1> QED BY <1>1, <1>4 DEF ParseLiveEvent

(* An approval_required event of the server is one parseLiveEvent accepts. *)
LEMMA RequiredParses ==
  ASSUME NEW r \in Nat, NEW v \in Nat, NEW e, e = Event("approval_required", r, 0, "", v)
  PROVE  e \in Events /\ e.kind = "approval_required" /\ e.run = r /\ e.of = v /\ ParseLiveEvent(e)
<1> DEFINE p == Payload(e)
           g == [approval_id |-> "string", tool_name |-> "string", arguments |-> "null",
                 review_reason |-> "null"]
           h == [approval_id |-> Text, tool_name |-> Text, arguments |-> NullableText,
                 review_reason |-> NullableText]
<1>1. e \in Events /\ e.kind = "approval_required" /\ e.run = r /\ e.of = v BY DEF Event, Events
<1>2. p = Extend(Written, g) BY <1>1 DEF Payload
<1>3. Accepts["approval_required"] = Extend(Envelope, h) BY DEF Accepts
<1>4. \A f \in DOMAIN h : f \in DOMAIN g /\ g[f] \in h[f]
  <2>1. DOMAIN h = DOMAIN g /\ DOMAIN h =
          {"approval_id", "tool_name", "arguments", "review_reason"}
    OBVIOUS
  <2>2. g.approval_id \in h.approval_id BY DEF Text, NullableText
  <2>3. g.tool_name \in h.tool_name BY DEF Text, NullableText
  <2>4. g.arguments \in h.arguments BY DEF Text, NullableText
  <2>5. g.review_reason \in h.review_reason BY DEF Text, NullableText
  <2> HIDE DEF g, h
  <2> QED BY <2>1, <2>2, <2>3, <2>4, <2>5
<1> HIDE DEF g, h, p
<1>6. \A f \in DOMAIN Accepts["approval_required"] : p[f] \in Accepts["approval_required"][f]
  BY <1>2, <1>3, <1>4, Enveloped
<1>7. Parses("approval_required", p) BY <1>6 DEF Parses
<1> QED BY <1>1, <1>7 DEF ParseLiveEvent, p

(* An approval_resolved event of the server is one parseLiveEvent accepts. *)
LEMMA ResolvedParses ==
  ASSUME NEW r \in Nat, NEW q \in Nat, NEW v \in Nat, NEW e, e = Event("approval_resolved", r, q, "", v)
  PROVE  e \in Events /\ e.kind = "approval_resolved" /\ e.run = r /\ e.of = v /\ ParseLiveEvent(e)
<1> DEFINE p == Payload(e)
           g == [approval_id |-> "string", approved |-> "boolean", source |-> "user",
                 review_decision |-> "null", review_reason |-> "null", journal_seq |-> SeqShape(q)]
           h == [approval_id |-> Text, approved |-> Flag, source |-> {"user", "permission"},
                 review_decision |-> {"decision", "null", "absent"}, review_reason |-> NullableText,
                 journal_seq |-> NullableSeq]
<1>1. e \in Events /\ e.kind = "approval_resolved" /\ e.run = r /\ e.of = v /\ e.seq = q BY DEF Event, Events
<1>2. p = Extend(Written, g) BY <1>1 DEF Payload
<1>3. Accepts["approval_resolved"] = Extend(Envelope, h) BY DEF Accepts
<1>4. \A f \in DOMAIN h : f \in DOMAIN g /\ g[f] \in h[f]
  <2>1. DOMAIN h = DOMAIN g /\ DOMAIN h =
          {"approval_id", "approved", "source", "review_decision", "review_reason", "journal_seq"}
    OBVIOUS
  <2>2. g.approval_id \in h.approval_id BY DEF Text, NullableText, NullableSeq, SeqShape, Flag
  <2>3. g.approved \in h.approved BY DEF Text, NullableText, NullableSeq, SeqShape, Flag
  <2>4. g.source \in h.source BY DEF Text, NullableText, NullableSeq, SeqShape, Flag
  <2>5. g.review_decision \in h.review_decision BY DEF Text, NullableText, NullableSeq, SeqShape, Flag
  <2>6. g.review_reason \in h.review_reason BY DEF Text, NullableText, NullableSeq, SeqShape, Flag
  <2>7. g.journal_seq \in h.journal_seq BY DEF Text, NullableText, NullableSeq, SeqShape, Flag
  <2> HIDE DEF g, h
  <2> QED BY <2>1, <2>2, <2>3, <2>4, <2>5, <2>6, <2>7
<1> HIDE DEF g, h, p
<1>6. \A f \in DOMAIN Accepts["approval_resolved"] : p[f] \in Accepts["approval_resolved"][f]
  BY <1>2, <1>3, <1>4, Enveloped
<1>7. Parses("approval_resolved", p) BY <1>6 DEF Parses
<1> QED BY <1>1, <1>7 DEF ParseLiveEvent, p

(* An approval_cancelled event of the server is one parseLiveEvent         *)
(* accepts.                                                                *)
LEMMA CancelledParses ==
  ASSUME NEW r \in Nat, NEW v \in Nat, NEW e, e = Event("approval_cancelled", r, 0, "", v)
  PROVE  e \in Events /\ e.kind = "approval_cancelled" /\ e.run = r /\ e.of = v /\ ParseLiveEvent(e)
<1> DEFINE p == Payload(e)
           g == [approval_id |-> "string"]
           h == [approval_id |-> Text]
<1>1. e \in Events /\ e.kind = "approval_cancelled" /\ e.run = r /\ e.of = v BY DEF Event, Events
<1>2. p = Extend(Written, g) BY <1>1 DEF Payload
<1>3. Accepts["approval_cancelled"] = Extend(Envelope, h) BY DEF Accepts
<1>4. \A f \in DOMAIN h : f \in DOMAIN g /\ g[f] \in h[f]
  <2>1. DOMAIN h = DOMAIN g /\ DOMAIN h =
          {"approval_id"}
    OBVIOUS
  <2>2. g.approval_id \in h.approval_id BY DEF Text
  <2> HIDE DEF g, h
  <2> QED BY <2>1, <2>2
<1> HIDE DEF g, h, p
<1>6. \A f \in DOMAIN Accepts["approval_cancelled"] : p[f] \in Accepts["approval_cancelled"][f]
  BY <1>2, <1>3, <1>4, Enveloped
<1>7. Parses("approval_cancelled", p) BY <1>6 DEF Parses
<1> QED BY <1>1, <1>7 DEF ParseLiveEvent, p

(* An output event of the server is one parseLiveEvent accepts.            *)
LEMMA OutputParses ==
  ASSUME NEW r \in Nat, NEW q \in Nat, NEW e, e = Event("output", r, q, "assistant_message", 0)
  PROVE  e \in Events /\ e.kind = "output" /\ ParseLiveEvent(e)
<1> DEFINE p == Payload(e)
           g == [journal_seq |-> SeqShape(q), event |-> "assistant_message"]
           h == [journal_seq |-> NullableSeq, event |-> OutputTypes]
<1>1. e \in Events /\ e.kind = "output" /\ e.type = "assistant_message" /\ e.seq = q BY DEF Event, Events
<1>2. p = Extend(Written, g) BY <1>1 DEF Payload
<1>3. Accepts["output"] = Extend(Envelope, h) BY DEF Accepts
<1>4. \A f \in DOMAIN h : f \in DOMAIN g /\ g[f] \in h[f]
  BY DEF NullableSeq, SeqShape, OutputTypes
<1> HIDE DEF g, h, p
<1>6. \A f \in DOMAIN Accepts["output"] : p[f] \in Accepts["output"][f] BY <1>2, <1>3, <1>4, Enveloped
<1>7. Parses("output", p) BY <1>6 DEF Parses
<1> QED BY <1>1, <1>7 DEF ParseLiveEvent, p

(* A follow_up event of the server is one parseLiveEvent accepts.          *)
LEMMA PromotedParses ==
  ASSUME NEW r \in Nat, NEW q \in Nat, NEW e, e = Event("follow_up", r, q, "queue_promoted", 0)
  PROVE  e \in Events /\ e.kind = "follow_up" /\ ParseLiveEvent(e)
<1> DEFINE p == Payload(e)
           g == [event_kind |-> "queue_promoted", source_run_id |-> "string", follow_up_id |-> "string",
                 text |-> "string", journal_seq |-> SeqShape(q)]
           h == [event_kind |-> FollowUpKinds, source_run_id |-> Text, follow_up_id |-> Text, text |-> Text,
                 journal_seq |-> NullableSeq]
<1>1. e \in Events /\ e.kind = "follow_up" /\ e.type = "queue_promoted" /\ e.seq = q BY DEF Event, Events
<1>2. p = Extend(Written, g) BY <1>1 DEF Payload
<1>3. Accepts["follow_up"] = Extend(Envelope, h) BY DEF Accepts
<1>4. \A f \in DOMAIN h : f \in DOMAIN g /\ g[f] \in h[f]
  BY DEF Text, NullableSeq, SeqShape, FollowUpKinds
<1> HIDE DEF g, h, p
<1>6. \A f \in DOMAIN Accepts["follow_up"] : p[f] \in Accepts["follow_up"][f] BY <1>2, <1>3, <1>4, Enveloped
<1>7. Parses("follow_up", p) BY <1>6 DEF Parses
<1> QED BY <1>1, <1>7 DEF ParseLiveEvent, p

(* A run_ended event of the server is one parseLiveEvent accepts.          *)
LEMMA EndedParses ==
  ASSUME NEW r \in Nat, NEW e, e = Event("run_ended", r, 0, "", 0)
  PROVE  e \in Events /\ e.kind = "run_ended" /\ e.run = r /\ ParseLiveEvent(e)
<1> DEFINE p == Payload(e)
           g == [status |-> "status", started_at |-> "string", ended_at |-> "string", duration_ms |-> "zero",
                 auto_compaction |-> "null", auto_compaction_failed |-> "null",
                 auto_compaction_consistency_uncertain |-> "null"]
           h == [status |-> {"status"}, started_at |-> Timing, ended_at |-> Timing,
                 duration_ms |-> Count \cup {"absent"}, auto_compaction |-> {"object", "null", "absent"},
                 auto_compaction_failed |-> OptionalFlag,
                 auto_compaction_consistency_uncertain |-> OptionalFlag]
<1>1. e \in Events /\ e.kind = "run_ended" /\ e.run = r BY DEF Event, Events
<1>2. p = Extend(Written, g) BY <1>1 DEF Payload
<1>3. Accepts["run_ended"] = Extend(Envelope, h) BY DEF Accepts
<1>4. \A f \in DOMAIN h : f \in DOMAIN g /\ g[f] \in h[f]
  <2>1. DOMAIN h = DOMAIN g /\ DOMAIN h =
          {"status", "started_at", "ended_at", "duration_ms", "auto_compaction", "auto_compaction_failed",
           "auto_compaction_consistency_uncertain"}
    OBVIOUS
  <2>2. g.status \in h.status BY DEF Timing, Count, OptionalFlag
  <2>3. g.started_at \in h.started_at BY DEF Timing, Count, OptionalFlag
  <2>4. g.ended_at \in h.ended_at BY DEF Timing, Count, OptionalFlag
  <2>5. g.duration_ms \in h.duration_ms BY DEF Timing, Count, OptionalFlag
  <2>6. g.auto_compaction \in h.auto_compaction BY DEF Timing, Count, OptionalFlag
  <2>7. g.auto_compaction_failed \in h.auto_compaction_failed BY DEF Timing, Count, OptionalFlag
  <2>8. g.auto_compaction_consistency_uncertain \in h.auto_compaction_consistency_uncertain
    BY DEF Timing, Count, OptionalFlag
  <2> HIDE DEF g, h
  <2> QED BY <2>1, <2>2, <2>3, <2>4, <2>5, <2>6, <2>7, <2>8
<1>5. \A f \in TimingFields : p[f] # "absent" BY <1>2 DEF Written, Extend, TimingFields
<1> HIDE DEF g, h, p
<1>6. \A f \in DOMAIN Accepts["run_ended"] : p[f] \in Accepts["run_ended"][f] BY <1>2, <1>3, <1>4, Enveloped
<1>7. Parses("run_ended", p) BY <1>5, <1>6 DEF Parses
<1> QED BY <1>1, <1>7 DEF ParseLiveEvent, p

-----------------------------------------------------------------------------
Sendable(e) == e \in Events /\ e.kind \notin {"open", "close"} /\ ParseLiveEvent(e)
SameState(v, u) == u.run = v.run /\ u.phase = v.phase /\ u.approvals = v.approvals /\ u.ver = v.ver
IsNews(v, e, u) == IsState(e) /\ e.of > v.ver /\ e.of <= u.ver /\ Says(e) = View(u, Aspect(e))

(* A step that changes nothing the page shows may announce nothing.        *)
LEMMA AnnouncesNothing ==
  ASSUME NEW v, NEW u, v.ver \in Nat, SameState(v, u)
  PROVE  Announces(v, <<>>, u)
<1>1. v.ver <= u.ver BY DEF SameState
<1>2. \A a : View(u, a) = View(v, a) BY DEF SameState, View
<1>3. <<>> \in Seq(Events) /\ Len(<<>>) <= 2 /\ Len(<<>>) # 2 /\ DOMAIN <<>> = {} OBVIOUS
<1> QED BY <1>1, <1>2, <1>3 DEF Announces

(* A step that changes nothing the page shows may announce a record.       *)
LEMMA AnnouncesRecord ==
  ASSUME NEW v, NEW u, NEW e, v.ver \in Nat, SameState(v, u), Sendable(e), ~IsState(e),
         e.kind = "run_ended" => RunOver(u, e.run)
  PROVE  Announces(v, <<e>>, u)
<1>1. v.ver <= u.ver BY DEF SameState
<1>2. \A a : View(u, a) = View(v, a) BY DEF SameState, View
<1> DEFINE es == <<e>>
<1>3. es \in Seq(Events) /\ Len(es) = 1 /\ DOMAIN es = {1} /\ es[1] = e BY DEF Sendable
<1> HIDE DEF es
<1>4. \A i \in DOMAIN es : Sendable(es[i]) /\ ~IsState(es[i]) /\ (es[i].kind = "run_ended" => RunOver(u, es[i].run))
  BY <1>3
<1> QED BY <1>1, <1>2, <1>3, <1>4 DEF Announces, Sendable, es

(* One event that tells the only aspect that changes announces the step.   *)
LEMMA AnnouncesOne ==
  ASSUME NEW v, NEW u, NEW e, v.ver \in Nat, u.ver \in Nat, v.ver <= u.ver, Sendable(e), IsNews(v, e, u),
         \A a : IsAspect(a) /\ a # Aspect(e) => View(u, a) = View(v, a)
  PROVE  Announces(v, <<e>>, u)
<1> DEFINE es == <<e>>
<1>3. es \in Seq(Events) /\ Len(es) = 1 /\ DOMAIN es = {1} /\ es[1] = e BY DEF Sendable
<1> HIDE DEF es
<1>4. \A i \in DOMAIN es : Sendable(es[i]) /\ IsNews(v, es[i], u) /\ es[i].kind # "run_ended"
  BY <1>3 DEF IsNews, IsState, StateKinds
<1>5. \A a : IsAspect(a) /\ (\A i \in DOMAIN es : IsState(es[i]) => Aspect(es[i]) # a) => View(u, a) = View(v, a)
  BY <1>3 DEF IsNews
<1> QED BY <1>3, <1>4, <1>5 DEF Announces, Sendable, IsNews, es

(* Two events that tell the only two aspects that change announce the      *)
(* step.                                                                   *)
LEMMA AnnouncesTwo ==
  ASSUME NEW v, NEW u, NEW e, NEW g, v.ver \in Nat, u.ver \in Nat, v.ver <= u.ver, Sendable(e), Sendable(g),
         IsNews(v, e, u), IsNews(v, g, u), e.of < g.of, Aspect(e) # Aspect(g),
         \A a : IsAspect(a) /\ a # Aspect(e) /\ a # Aspect(g) => View(u, a) = View(v, a)
  PROVE  Announces(v, <<e, g>>, u)
<1> DEFINE es == <<e, g>>
<1>3. es \in Seq(Events) /\ Len(es) = 2 /\ DOMAIN es = {1, 2} /\ es[1] = e /\ es[2] = g BY DEF Sendable
<1> HIDE DEF es
<1>4. \A i \in DOMAIN es : Sendable(es[i]) /\ IsNews(v, es[i], u) /\ es[i].kind # "run_ended"
  BY <1>3 DEF IsNews, IsState, StateKinds
<1>5. \A a : IsAspect(a) /\ (\A i \in DOMAIN es : IsState(es[i]) => Aspect(es[i]) # a) => View(u, a) = View(v, a)
  BY <1>3 DEF IsNews
<1> QED BY <1>3, <1>4, <1>5 DEF Announces, Sendable, IsNews, es

-----------------------------------------------------------------------------
Announced == \E es : Announces(server, es, server') /\ Publish(es)

(* A Run that is over stays over, whatever the server does.                *)
LEMMA RunsStayBehind ==
  ASSUME ServerOK, ServerWrites
  PROVE  RunsBehind(server') /\ \A r : RunOver(server, r) => RunOver(server', r)
<1>1. /\ server \in ServerType /\ RunsBehind(server) /\ server.runs \in Nat /\ server.run \in Nat
      /\ server.ending \in Nat
  BY BoundsAreNumbers DEF ServerOK, ServerType
<1>2. ASSUME NEW source, StartRun(source)
      PROVE  server'.run = server.runs + 1 /\ server'.runs = server.runs + 1 /\ server'.ending = server.ending
  BY <1>1, <1>2 DEF StartRun, ServerType
<1>3. CASE EndRun
  <2>1. /\ server'.run = 0 /\ server'.runs = server.runs /\ server'.ending = server.run /\ server.run # 0
    BY <1>1, <1>3 DEF EndRun, ServerType
  <2> QED BY <1>1, <2>1 DEF RunsBehind, RunOver
<1>4. ASSUME NEW written, RecordRunEnded(written)
      PROVE  server'.run = server.run /\ server'.runs = server.runs /\ server'.ending = 0
  BY <1>1, <1>4 DEF RecordRunEnded, ServerType
<1>5. CASE WriteUserMessage \/ WriteOutput \/ AskApproval \/ ResolveApproval
  <2>1. /\ server'.run = server.run /\ server'.runs = server.runs /\ server'.ending = server.ending
    BY <1>1, <1>5 DEF WriteUserMessage, WriteOutput, AskApproval, ResolveApproval, ServerType
  <2> QED BY <1>1, <2>1 DEF RunsBehind, RunOver
<1>6. CASE \E source : StartRun(source)
  BY <1>1, <1>2, <1>6 DEF RunsBehind, RunOver
<1>7. CASE \E written : RecordRunEnded(written)
  BY <1>1, <1>4, <1>7 DEF RunsBehind, RunOver
<1> QED BY <1>3, <1>5, <1>6, <1>7 DEF ServerWrites

(* The start of a Run is announced.                                        *)
LEMMA StartRunAnnounces ==
  ASSUME ServerOK, NEW source \in {"direct", "queue"}, StartRun(source)
  PROVE  ServerOK' /\ Announced
<1> DEFINE r == server.runs + 1
           n == server.ver + 1
           e == RuntimeState(r, "running", n)
<1>1. server.runs \in Nat /\ server.ver \in Nat /\ r \in 0..MaxRuns /\ r \in Nat /\ n \in Nat /\ n > server.ver
  BY BoundsAreNumbers DEF ServerOK, ServerType, StartRun
<1>2. /\ server'.run = r /\ server'.phase = "running" /\ server'.approvals = server.approvals /\ server'.ver = n
      /\ server.approvals = {} /\ Publish(<<e>>)
  BY DEF ServerOK, ServerType, StartRun
<1>b. RunsBehind(server') BY RunsStayBehind DEF ServerWrites
<1>3. ServerOK' BY <1>b, <1>1, <1>2 DEF ServerOK, ServerType, StartRun, Phases
<1> HIDE DEF r, n
<1>4. Sendable(e) /\ e.kind = "runtime_state" /\ e.run = r /\ e.type = "running" /\ e.of = n
  BY <1>1, StateParses DEF Sendable, Phases
<1> HIDE DEF e
<1>5. IsNews(server, e, server') /\ Aspect(e) = {}
  BY <1>1, <1>2, <1>4 DEF IsNews, IsState, StateKinds, Says, View, Aspect
<1>6. \A a : a # {} => View(server', a) = View(server, a) BY <1>2 DEF View
<1>7. Announces(server, <<e>>, server') BY <1>1, <1>2, <1>4, <1>5, <1>6, AnnouncesOne
<1> QED BY <1>2, <1>3, <1>7 DEF Announced

(* The first record of a Run is announced as a record, or not at all.      *)
LEMMA WriteUserMessageAnnounces ==
  ASSUME ServerOK, JournalOK, WriteUserMessage
  PROVE  ServerOK' /\ Announced
<1> DEFINE e == Event("follow_up", server.run, NextSeq, "queue_promoted", 0)
<1>1. server.run \in Nat /\ NextSeq \in Nat /\ server.ver \in Nat
  BY BoundsAreNumbers DEF ServerOK, ServerType, NextSeq, JournalOK
<1>b. RunsBehind(server') BY RunsStayBehind DEF ServerWrites
<1>2. ServerOK' /\ SameState(server, server') BY <1>b DEF ServerOK, ServerType, WriteUserMessage, SameState
<1>3. Publish(<<e>>) \/ Publish(<<>>) BY DEF WriteUserMessage, Write
<1>4. Sendable(e) /\ ~IsState(e) /\ e.kind # "run_ended" BY <1>1, PromotedParses DEF Sendable, IsState, StateKinds
<1> HIDE DEF e
<1>5. Announces(server, <<e>>, server') /\ Announces(server, <<>>, server')
  BY <1>1, <1>2, <1>4, AnnouncesNothing, AnnouncesRecord
<1> QED BY <1>2, <1>3, <1>5 DEF Announced

(* Output is announced as a record.                                        *)
LEMMA WriteOutputAnnounces ==
  ASSUME ServerOK, JournalOK, WriteOutput
  PROVE  ServerOK' /\ Announced
<1> DEFINE e == Event("output", server.run, NextSeq, "assistant_message", 0)
<1>1. server.run \in Nat /\ NextSeq \in Nat /\ server.ver \in Nat
  BY BoundsAreNumbers DEF ServerOK, ServerType, NextSeq, JournalOK
<1>b. RunsBehind(server') BY RunsStayBehind DEF ServerWrites
<1>2. ServerOK' /\ SameState(server, server') BY <1>b DEF ServerOK, ServerType, WriteOutput, SameState
<1>3. Publish(<<e>>) BY DEF WriteOutput, Write
<1>4. Sendable(e) /\ ~IsState(e) /\ e.kind # "run_ended" BY <1>1, OutputParses DEF Sendable, IsState, StateKinds
<1> HIDE DEF e
<1>5. Announces(server, <<e>>, server') BY <1>1, <1>2, <1>4, AnnouncesRecord
<1> QED BY <1>2, <1>3, <1>5 DEF Announced

(* A request for an approval is announced, with the phase it puts the Run  *)
(* in.                                                                     *)
LEMMA AskApprovalAnnounces ==
  ASSUME ServerOK, AskApproval
  PROVE  ServerOK' /\ Announced
<1> DEFINE r == server.run
           n == server.ver + 1
           m == server.ver + 2
           e == RuntimeState(r, "waiting_approval", n)
           g == Event("approval_required", r, 0, "", m)
<1>1. /\ server.ver \in Nat /\ r \in 0..MaxRuns /\ r \in Nat /\ n \in Nat /\ m \in Nat /\ n > server.ver /\ m > n
      /\ r # 0
  <2>1. r # 0 BY DEF AskApproval, Working
  <2> QED BY <2>1, BoundsAreNumbers DEF ServerOK, ServerType
<1>2. /\ server'.run = r /\ server'.phase = "waiting_approval" /\ server'.approvals = {r} /\ server'.ver = m
      /\ server.approvals \subseteq {r} /\ Publish(<<e, g>>)
  BY DEF ServerOK, ServerType, AskApproval
<1>b. RunsBehind(server') BY RunsStayBehind DEF ServerWrites
<1>3. ServerOK' BY <1>b, <1>1, <1>2 DEF ServerOK, ServerType, AskApproval, Phases
<1>0. server.run = r OBVIOUS
<1> HIDE DEF r, n, m
<1>4. Sendable(e) /\ e.kind = "runtime_state" /\ e.run = r /\ e.type = "waiting_approval" /\ e.of = n
  BY <1>1, StateParses DEF Sendable, Phases
<1>5. Sendable(g) /\ g.kind = "approval_required" /\ g.run = r /\ g.of = m
  <2>1. g \in Events /\ g.kind = "approval_required" /\ g.run = r /\ g.of = m /\ ParseLiveEvent(g)
    BY <1>1, RequiredParses
  <2> HIDE DEF e, g
  <2> QED BY <2>1 DEF Sendable
<1> HIDE DEF e, g
<1>6. IsNews(server, e, server') /\ Aspect(e) = {}
  BY <1>1, <1>2, <1>4 DEF IsNews, IsState, StateKinds, Says, View, Aspect
<1>7. IsNews(server, g, server') /\ Aspect(g) = {r}
  <2>1. IsState(g) /\ Aspect(g) = {r} /\ Says(g) = <<1, "">>
    BY <1>5 DEF IsState, StateKinds, Aspect, Says
  <2>2. View(server', {r}) = <<1, "">> BY <1>2 DEF View
  <2>3. g.of > server.ver /\ g.of <= server'.ver BY <1>1, <1>2, <1>5
  <2> QED BY <2>1, <2>2, <2>3 DEF IsNews
<1>8. \A a : IsAspect(a) /\ a # {} /\ a # {r} => View(server', a) = View(server, a) BY <1>2 DEF View, IsAspect
<1>9. Announces(server, <<e, g>>, server') BY <1>1, <1>2, <1>4, <1>5, <1>6, <1>7, <1>8, AnnouncesTwo
<1> QED BY <1>2, <1>3, <1>9 DEF Announced

(* The answer to a request is announced, with the phase the Run goes on    *)
(* in.                                                                     *)
LEMMA ResolveApprovalAnnounces ==
  ASSUME ServerOK, JournalOK, ResolveApproval
  PROVE  ServerOK' /\ Announced
<1> DEFINE r == server.run
           n == server.ver + 1
           m == server.ver + 2
           e == Event("approval_resolved", r, NextSeq, "", n)
           g == RuntimeState(r, "running", m)
<1>1. /\ server.ver \in Nat /\ r \in 0..MaxRuns /\ r \in Nat /\ n \in Nat /\ m \in Nat /\ n > server.ver /\ m > n
      /\ NextSeq \in Nat
  BY BoundsAreNumbers DEF ServerOK, ServerType, JournalOK, NextSeq
<1>2. /\ server'.run = r /\ server'.phase = "running" /\ server'.approvals = {} /\ server'.ver = m
      /\ server.approvals \subseteq {r} /\ Publish(<<e, g>>)
  BY DEF ServerOK, ServerType, ResolveApproval, Write
<1>b. RunsBehind(server') BY RunsStayBehind DEF ServerWrites
<1>3. ServerOK' BY <1>b, <1>1, <1>2 DEF ServerOK, ServerType, ResolveApproval, Phases
<1>0. server.run = r OBVIOUS
<1> HIDE DEF r, n, m
<1>4. Sendable(g) /\ g.kind = "runtime_state" /\ g.run = r /\ g.type = "running" /\ g.of = m
  BY <1>1, StateParses DEF Sendable, Phases
<1>5. Sendable(e) /\ e.kind = "approval_resolved" /\ e.run = r /\ e.of = n
  <2>1. e \in Events /\ e.kind = "approval_resolved" /\ e.run = r /\ e.of = n /\ ParseLiveEvent(e)
    BY <1>1, ResolvedParses
  <2> HIDE DEF e, g
  <2> QED BY <2>1 DEF Sendable
<1> HIDE DEF e, g
<1>6. IsNews(server, g, server') /\ Aspect(g) = {}
  BY <1>1, <1>2, <1>4 DEF IsNews, IsState, StateKinds, Says, View, Aspect
<1>7. IsNews(server, e, server') /\ Aspect(e) = {r}
  <2>1. IsState(e) /\ Aspect(e) = {r} /\ Says(e) = <<0, "">>
    BY <1>5 DEF IsState, StateKinds, Aspect, Says
  <2>2. View(server', {r}) = <<0, "">> BY <1>2 DEF View
  <2>3. e.of > server.ver /\ e.of <= server'.ver BY <1>1, <1>2, <1>5
  <2> QED BY <2>1, <2>2, <2>3 DEF IsNews
<1>8. \A a : IsAspect(a) /\ a # {} /\ a # {r} => View(server', a) = View(server, a) BY <1>2 DEF View, IsAspect
<1>9. Announces(server, <<e, g>>, server') BY <1>1, <1>2, <1>4, <1>5, <1>6, <1>7, <1>8, AnnouncesTwo
<1> QED BY <1>2, <1>3, <1>9 DEF Announced

(* Two sequences of one event, joined.                                     *)
LEMMA OneAndOne ==
  ASSUME NEW S, NEW e \in S, NEW g \in S PROVE <<e>> \o <<g>> = <<e, g>>
<1>1. Append(<<e>>, g) = <<e>> \o <<g>>
  <2>1. <<e>> \in Seq(S) OBVIOUS
  <2> QED BY <2>1, AppendIsConcat
<1> DEFINE x == Append(<<e>>, g)
           y == <<e, g>>
<1>2. x \in Seq(S) /\ Len(x) = 2 /\ x[1] = e /\ x[2] = g OBVIOUS
<1>3. y \in Seq(S) /\ Len(y) = 2 /\ y[1] = e /\ y[2] = g OBVIOUS
<1> HIDE DEF x, y
<1>4. \A i \in 1..Len(x) : x[i] = y[i] BY <1>2, <1>3
<1>5. x = y BY <1>2, <1>3, <1>4, SeqEqual
<1> QED BY <1>1, <1>5 DEF x, y

(* The end of a Run is announced, with the request it cancels.             *)
LEMMA EndRunAnnounces ==
  ASSUME ServerOK, EndRun
  PROVE  ServerOK' /\ Announced
<1> DEFINE r == server.run
           n == server.ver + 1
           m == server.ver + 2
           e == Event("approval_cancelled", r, 0, "", n)
           g == RuntimeState(0, "idle", m)
<1>1. /\ server.ver \in Nat /\ r \in 0..MaxRuns /\ r \in Nat /\ n \in Nat /\ m \in Nat /\ n > server.ver /\ m > n
      /\ m > server.ver
  BY BoundsAreNumbers DEF ServerOK, ServerType
<1>2. /\ server'.run = 0 /\ server'.phase = "idle" /\ server'.approvals = {} /\ server'.ver = m
      /\ server.approvals \subseteq {r}
      /\ Publish((IF server.approvals = {} THEN <<>> ELSE <<e>>) \o <<g>>)
  BY DEF ServerOK, ServerType, EndRun
<1>3. ServerOK'
  <2>1. server'.ending = r /\ server'.runs = server.runs /\ server'.asked = server.asked
        /\ server'.first = server.first
    BY DEF ServerOK, ServerType, EndRun
  <2>2. 0 \in 0..MaxRuns /\ "idle" \in Phases BY BoundsAreNumbers DEF Phases
  <2>3. server' \in ServerType
    BY <1>1, <1>2, <2>1, <2>2 DEF ServerOK, ServerType, EndRun
  <2>4. RunsBehind(server') BY RunsStayBehind DEF ServerWrites
  <2> QED BY <1>2, <2>3, <2>4 DEF ServerOK
<1>0. server.run = r OBVIOUS
<1> HIDE DEF r, n, m
<1>4. Sendable(g) /\ g.kind = "runtime_state" /\ g.run = 0 /\ g.type = "idle" /\ g.of = m
  BY <1>1, StateParses DEF Sendable, Phases
<1>5. Sendable(e) /\ e.kind = "approval_cancelled" /\ e.run = r /\ e.of = n
  <2>1. e \in Events /\ e.kind = "approval_cancelled" /\ e.run = r /\ e.of = n /\ ParseLiveEvent(e)
    BY <1>1, CancelledParses
  <2> HIDE DEF e, g
  <2> QED BY <2>1 DEF Sendable
<1> HIDE DEF e, g
<1>6. IsNews(server, g, server') /\ Aspect(g) = {}
  BY <1>1, <1>2, <1>4 DEF IsNews, IsState, StateKinds, Says, View, Aspect
<1>7. IsNews(server, e, server') /\ Aspect(e) = {r}
  <2>1. IsState(e) /\ Aspect(e) = {r} /\ Says(e) = <<0, "">>
    BY <1>5 DEF IsState, StateKinds, Aspect, Says
  <2>2. View(server', {r}) = <<0, "">> BY <1>2 DEF View
  <2>3. e.of > server.ver /\ e.of <= server'.ver BY <1>1, <1>2, <1>5
  <2> QED BY <2>1, <2>2, <2>3 DEF IsNews
<1>8. \A a : IsAspect(a) /\ a # {} /\ a # {r} => View(server', a) = View(server, a) BY <1>2 DEF View, IsAspect
<1>9. CASE server.approvals # {}
  <2>0. server'.ver \in Nat /\ server.ver <= server'.ver /\ e.of < g.of /\ Aspect(e) # Aspect(g)
    BY <1>1, <1>2, <1>4, <1>5, <1>6, <1>7
  <2>1. Announces(server, <<e, g>>, server') BY <1>1, <1>4, <1>5, <1>6, <1>7, <1>8, <2>0, AnnouncesTwo
  <2>2. <<e>> \o <<g>> = <<e, g>> BY <1>4, <1>5, OneAndOne DEF Sendable
  <2> QED BY <1>2, <1>3, <1>9, <2>1, <2>2 DEF Announced
<1>10. CASE server.approvals = {}
  <2>1. \A a : IsAspect(a) /\ a # {} => View(server', a) = View(server, a) BY <1>2, <1>10 DEF View, IsAspect
  <2>0. server'.ver \in Nat /\ server.ver <= server'.ver BY <1>1, <1>2
  <2>2. Announces(server, <<g>>, server') BY <1>1, <1>4, <1>6, <2>0, <2>1, AnnouncesOne
  <2>3. <<>> \o <<g>> = <<g>> BY <1>4 DEF Sendable
  <2> QED BY <1>2, <1>3, <1>10, <2>2, <2>3 DEF Announced
<1> QED BY <1>9, <1>10

(* The record of the end is announced, whether it was written or not.      *)
LEMMA RecordRunEndedAnnounces ==
  ASSUME ServerOK, NEW written \in BOOLEAN, RecordRunEnded(written)
  PROVE  ServerOK' /\ Announced
<1> DEFINE e == Event("run_ended", server.ending, 0, "", 0)
<1>1. server.ending \in Nat /\ server.ver \in Nat BY DEF ServerOK, ServerType
<1>b. RunsBehind(server') BY RunsStayBehind DEF ServerWrites
<1>2. ServerOK' /\ SameState(server, server') BY <1>b DEF ServerOK, ServerType, RecordRunEnded, SameState
<1>3. Publish(<<e>>) BY DEF RecordRunEnded, Write
<1>4. Sendable(e) /\ ~IsState(e) /\ e.run = server.ending
  BY <1>1, EndedParses DEF Sendable, IsState, StateKinds
<1> HIDE DEF e
<1>6. RunOver(server', e.run)
  <2>1. server'.run = server.run /\ server'.runs = server.runs /\ server'.ending = 0 /\ server.ending # 0
    BY DEF ServerOK, ServerType, RecordRunEnded
  <2> QED BY <1>1, <1>4, <2>1 DEF RunOver, RunsBehind, ServerOK
<1>5. Announces(server, <<e>>, server') BY <1>1, <1>2, <1>4, <1>6, AnnouncesRecord
<1> QED BY <1>2, <1>3, <1>5 DEF Announced

-----------------------------------------------------------------------------
IsMarker(e) == e.kind \in {"open", "close"}
StreamOK(w) == w \in Seq(Events) /\ \A i \in DOMAIN w : IsMarker(w[i]) \/ ParseLiveEvent(w[i])

(* A write adds one record with the next sequence number.                  *)
LEMMA JournalGrows ==
  ASSUME JournalOK, NEW type \in {"user_message", "assistant_message", "approval", "run_ended"}, NEW run \in Nat,
         NEW es, Write(type, run, es)
  PROVE  /\ JournalOK' /\ Len(journal') = Len(journal) + 1
         /\ \A i \in DOMAIN journal : journal'[i] = journal[i]
         /\ journal'[Len(journal) + 1].run = run
<1> DEFINE r == Record(Len(journal) + 1, type, run, IF type = "run_ended" THEN 1 ELSE 0)
<1>1. r \in Records /\ r.seq = Len(journal) + 1 /\ r.run = run BY DEF JournalOK, Record, Records
<1>2. journal' = Append(journal, r) BY DEF Write
<1> HIDE DEF r
<1> QED BY <1>1, <1>2 DEF JournalOK

(* What a server step does: to the journal, to the stream.                 *)
JournalSteps ==
  /\ \A i \in DOMAIN journal : journal'[i] = journal[i]
  /\ \/ journal' = journal
     \/ Len(journal') = Len(journal) + 1 /\ journal'[Len(journal) + 1].run \in {server.run, server.ending}

(* The server only ever adds to the journal.                               *)
LEMMA WritesJournal ==
  ASSUME ServerOK, JournalOK, ServerWrites
  PROVE  JournalOK' /\ JournalSteps
<1>1. ASSUME journal' = journal PROVE JournalOK' /\ JournalSteps BY <1>1 DEF JournalOK, JournalSteps
<1>2. ASSUME NEW type \in {"user_message", "assistant_message", "approval", "run_ended"}, NEW run \in Nat,
             NEW es, Write(type, run, es), run \in {server.run, server.ending}
      PROVE  JournalOK' /\ JournalSteps
  BY <1>2, JournalGrows DEF JournalSteps
<1>3. server.run \in Nat /\ server.ending \in Nat BY BoundsAreNumbers DEF ServerOK, ServerType
<1>4. ASSUME NEW source, StartRun(source) PROVE journal' = journal BY <1>4 DEF StartRun
<1>5. AskApproval \/ EndRun => journal' = journal BY DEF AskApproval, EndRun
<1>6. WriteUserMessage => \E es : Write("user_message", server.run, es) BY DEF WriteUserMessage
<1>7. WriteOutput => \E es : Write("assistant_message", server.run, es) BY DEF WriteOutput
<1>8. ResolveApproval => \E es : Write("approval", server.run, es) BY DEF ResolveApproval
<1>9. ASSUME NEW written, RecordRunEnded(written)
      PROVE  journal' = journal \/ \E es : Write("run_ended", server.ending, es)
  BY <1>9 DEF RecordRunEnded
<1> QED BY <1>1, <1>2, <1>3, <1>4, <1>5, <1>6, <1>7, <1>8, <1>9 DEF ServerWrites

(* Every step of the server announces what it changes, and leaves the      *)
(* client alone.                                                           *)
LEMMA ServerAnnounces ==
  ASSUME ServerOK, JournalOK, ServerWrites
  PROVE  ServerOK' /\ Announced /\ client' = client
<1>1. client' = client
  BY DEF ServerWrites, StartRun, WriteUserMessage, WriteOutput, AskApproval, ResolveApproval, EndRun, RecordRunEnded
<1> QED BY <1>1, StartRunAnnounces, WriteUserMessageAnnounces, WriteOutputAnnounces, AskApprovalAnnounces,
           ResolveApprovalAnnounces, EndRunAnnounces, RecordRunEndedAnnounces DEF ServerWrites

(* Events the client accepts keep the stream well formed.                  *)
LEMMA StreamExtends ==
  ASSUME NEW w, StreamOK(w), NEW es \in Seq(Events), \A i \in DOMAIN es : ParseLiveEvent(es[i])
  PROVE  StreamOK(w \o es)
<1>1. w \in Seq(Events) BY DEF StreamOK
<1>2. /\ w \o es \in Seq(Events) /\ Len(w \o es) = Len(w) + Len(es)
      /\ \A i \in 1..Len(w) + Len(es) : (w \o es)[i] = IF i <= Len(w) THEN w[i] ELSE es[i - Len(w)]
  BY <1>1, ConcatProperties
<1> DEFINE x == w \o es
<1> HIDE DEF x
<1>3. x \in Seq(Events) /\ DOMAIN x = 1..Len(x) /\ Len(x) = Len(w) + Len(es) BY <1>2 DEF x
<1>4. ASSUME NEW i \in DOMAIN x PROVE IsMarker(x[i]) \/ ParseLiveEvent(x[i])
  <2>1. x[i] = IF i <= Len(w) THEN w[i] ELSE es[i - Len(w)] BY <1>2, <1>3 DEF x
  <2>2. i <= Len(w) => i \in DOMAIN w BY <1>1, <1>3
  <2>3. ~(i <= Len(w)) => i - Len(w) \in DOMAIN es BY <1>1, <1>3
  <2> QED BY <2>1, <2>2, <2>3 DEF StreamOK
<1> QED BY <1>3, <1>4 DEF StreamOK, x

(* So do the open and the close of a socket.                               *)
LEMMA StreamEnds == StreamOK(<<Marker("close")>>) /\ StreamOK(<<Marker("open")>>)
<1>1. ASSUME NEW k \in {"open", "close"} PROVE StreamOK(<<Marker(k)>>)
  <2> DEFINE m == Marker(k)
  <2>1. m \in Events /\ IsMarker(m) BY DEF Marker, Event, Events, IsMarker
  <2> HIDE DEF m
  <2>2. <<m>> \in Seq(Events) /\ DOMAIN <<m>> = {1} /\ <<m>>[1] = m BY <2>1
  <2> QED BY <2>1, <2>2 DEF StreamOK, m
<1> QED BY <1>1

(* What a step of the server does to its state, to the journal and to the  *)
(* stream.                                                                 *)
LEMMA ServerTells ==
  ASSUME ServerOK, JournalOK, StreamOK(wire), socket \in {"up", "down"}, ServerWrites
  PROVE  /\ ServerOK' /\ JournalOK' /\ StreamOK(wire') /\ socket' \in {"up", "down"} /\ client' = client
         /\ \E es : Announces(server, es, server') /\ Told(es)
<1>1. PICK es : Announces(server, es, server') /\ Publish(es) BY ServerAnnounces DEF Announced
<1>2. /\ es \in Seq(Events) /\ Len(es) <= 2
      /\ \A i \in DOMAIN es : es[i].kind \notin {"open", "close"} /\ ParseLiveEvent(es[i])
  BY <1>1, Zenon DEF Announces
<1>3. wire \in Seq(Events) BY DEF StreamOK
<1>4. Told(es) BY <1>1, <1>2, <1>3, PublishDoes
<1>5. StreamOK(wire \o es) BY <1>2, StreamExtends
<1>6. StreamOK(wire') /\ socket' \in {"up", "down"} BY <1>4, <1>5, StreamEnds DEF Told
<1> QED BY <1>1, <1>4, <1>6, ServerAnnounces, WritesJournal

-----------------------------------------------------------------------------
(* The first event of the stream goes.                                     *)
LEMMA StreamMoves ==
  ASSUME NEW w, StreamOK(w), w # <<>>
  PROVE  /\ Head(w) \in Events /\ StreamOK(Tail(w)) /\ (IsMarker(Head(w)) \/ ParseLiveEvent(Head(w)))
<1>1. w \in Seq(Events) /\ Len(w) \in Nat \ {0} BY DEF StreamOK
<1>2. Head(w) = w[1] /\ 1 \in DOMAIN w /\ Head(w) \in Events BY <1>1
<1>3. /\ Tail(w) \in Seq(Events) /\ Len(Tail(w)) = Len(w) - 1
      /\ \A i \in 1..Len(Tail(w)) : Tail(w)[i] = w[i + 1]
  BY <1>1, HeadTailProperties
<1> DEFINE x == Tail(w)
<1> HIDE DEF x
<1>4. ASSUME NEW i \in DOMAIN x PROVE IsMarker(x[i]) \/ ParseLiveEvent(x[i])
  <2>1. i \in 1..Len(x) BY <1>3 DEF x
  <2>2. x[i] = w[i + 1] /\ i + 1 \in DOMAIN w BY <1>1, <1>3, <2>1 DEF x
  <2> QED BY <2>2 DEF StreamOK
<1> QED BY <1>2, <1>3, <1>4 DEF StreamOK, x

(* It is cut short and ends.                                               *)
LEMMA StreamIsCut ==
  ASSUME NEW w, StreamOK(w), NEW n \in 0..Len(w), NEW m, m = Marker("close")
  PROVE  StreamOK(Append(SubSeq(w, 1, n), m))
<1>1. w \in Seq(Events) /\ n \in Nat BY DEF StreamOK
<1> DEFINE x == SubSeq(w, 1, n)
           y == Append(x, m)
<1>2. m \in Events /\ IsMarker(m) BY DEF Marker, Event, Events, IsMarker
<1>3. x \in Seq(Events) /\ Len(x) = n /\ \A i \in 1..n : x[i] = w[i] BY <1>1
<1> HIDE DEF x
<1>4. y \in Seq(Events) /\ Len(y) = n + 1 /\ y[n + 1] = m /\ \A i \in 1..n : y[i] = x[i]
  BY <1>1, <1>2, <1>3, AppendProperties
<1> HIDE DEF y
<1>5. ASSUME NEW i \in DOMAIN y PROVE IsMarker(y[i]) \/ ParseLiveEvent(y[i])
  <2>1. i \in 1..n \/ i = n + 1 BY <1>1, <1>4
  <2>2. CASE i \in 1..n
    <3>1. y[i] = w[i] /\ i \in DOMAIN w BY <1>1, <1>3, <1>4, <2>2
    <3> QED BY <3>1 DEF StreamOK
  <2> QED BY <1>2, <1>4, <2>1, <2>2
<1> QED BY <1>4, <1>5 DEF StreamOK, x, y

-----------------------------------------------------------------------------
(* Two clients alike in all but what is drawn and the pages.               *)
Fresh(c, d) ==
  /\ d.syncing = "requests" /\ d.stateReq = Asked /\ d.historyReq = Asked /\ d.fetch = NoFetch /\ d.buffered = <<>>
  /\ d.lost = c.lost \ {"reconnect"} /\ d.deferred = c.deferred

(* A render keeps the client well formed.                                  *)
LEMMA RenderedSound ==
  ASSUME NEW c, Sound(c), NEW d, d = Rendered(c)
  PROVE  Sound(d) /\ Changes(c, d, {"ref", "rendered"}) /\ d.ref = c.overlay
<1>1. Changes(c, d, {"ref", "rendered"}) /\ d.ref = c.overlay BY RenderedDoes DEF Sound
<1> QED BY <1>1 DEF Changes, ClientFields, Sound, Truthful

(* The stream opens or closes.                                             *)
Switches(c, link, d) ==
  /\ Changes(c, d, {"link", "status"} \cup ResyncFields) /\ d.link = link
  /\ \/ link = "connected" /\ c.selected /\ c.syncing = "no" /\ Fresh(c, d)
     \/ /\ d.syncing = c.syncing /\ d.stateReq = c.stateReq /\ d.historyReq = c.historyReq
        /\ d.buffered = c.buffered /\ d.fetch = c.fetch
        /\ \/ link = "connected" /\ c.selected /\ d.lost = c.lost \cup {"reconnect"}
           \/ (link = "connected" => ~c.selected) /\ d.lost = c.lost

(* What the open or the close of the stream does to the client.            *)
LEMMA StatusDoes ==
  ASSUME NEW c, Sound(c), NEW link \in Links, NEW d, d = OnStatusChange(c, link)
  PROVE  Sound(d) /\ Switches(c, link, d)
<1> DEFINE told == [c EXCEPT !.link = link,
                             !.status = IF link = "connected" /\ ~c.selected THEN link ELSE "reconnecting"]
           missed == IF c.selected /\ c.syncing # "no" THEN {"reconnect"} ELSE {}
           asked == RequestSelectedResync(told)
<1>1. d = IF link = "connected" THEN [asked EXCEPT !.lost = @ \cup missed] ELSE told
  BY Zenon DEF OnStatusChange
<1>2. /\ Changes(c, told, {"link", "status"}) /\ told.link = link
      /\ told.status = IF link = "connected" /\ ~c.selected THEN link ELSE "reconnecting"
  BY Zenon DEF Sound, IsClient, Changes, ClientFields
<1> HIDE DEF told
<1>3. IsClient(told) BY <1>2 DEF Changes
<1>4. /\ told.selected = c.selected /\ told.draining = FALSE /\ told.deferred = FALSE
      /\ told.syncing = c.syncing /\ told.lost = c.lost
      /\ told.buffered = c.buffered /\ told.stateReq = c.stateReq /\ told.historyReq = c.historyReq
      /\ told.fetch = c.fetch
  BY <1>2 DEF Changes, ClientFields, Sound
<1>5. CASE link # "connected"
  <2>1. d = told BY <1>1, <1>5
  <2>2. Changes(c, d, {"link", "status"} \cup ResyncFields) BY <1>2, <2>1 DEF Changes
  <2>3. Sound(d) BY <1>2, <1>5, <2>1 DEF Sound, Changes, ClientFields, Truthful, Links
  <2> QED BY <1>2, <1>4, <1>5, <2>1, <2>2, <2>3 DEF Switches
<1>6. CASE link = "connected"
  <2>1. Changes(told, asked, ResyncFields) /\ (NoResync(told, asked) \/ Resyncs(told, asked))
        /\ (told.selected /\ ~told.draining /\ told.syncing = "no" => Resyncs(told, asked))
    BY <1>3, RequestDoes
  <2> HIDE DEF asked, missed
  <2>2. d = [asked EXCEPT !.lost = @ \cup missed] BY <1>1, <1>6
  <2>3. Changes(asked, d, {"lost"}) /\ d.lost = asked.lost \cup missed
    BY <2>1, <2>2, Zenon DEF IsClient, Changes, ClientFields
  <2>4. Changes(c, d, {"link", "status"} \cup ResyncFields)
    BY <1>2, <2>1, <2>3 DEF Changes, ClientFields, ResyncFields
  <2>5. /\ d.link = link /\ d.status = IF ~c.selected THEN "connected" ELSE "reconnecting"
        /\ d.syncing = asked.syncing /\ d.stateReq = asked.stateReq /\ d.historyReq = asked.historyReq
        /\ d.buffered = asked.buffered /\ d.deferred = asked.deferred /\ d.fetch = asked.fetch
    BY <1>2, <1>6, <2>1, <2>3 DEF Changes, ClientFields, ResyncFields
  <2>6. CASE c.selected /\ c.syncing = "no"
    <3>1. missed = {} BY <2>6 DEF missed
    <3>2. Fresh(c, d) /\ d.deferred = FALSE
      BY <1>4, <2>1, <2>3, <2>5, <2>6, <3>1 DEF Resyncs, Fresh, Sound
    <3>3. d.lost \subseteq {"reconnect", "state", "history"} BY <3>2 DEF Sound, Fresh
    <3>4. /\ IsClient(d) /\ d.draining = FALSE /\ d.selected = c.selected /\ d.refetch = c.refetch
          /\ d.state = c.state /\ d.overlay = c.overlay /\ d.ref = c.ref
      BY <2>4 DEF Sound, Changes, ClientFields, ResyncFields
    <3>5. IsAnswer(d.stateReq) /\ IsAnswer(d.historyReq) /\ d.buffered = <<>> /\ d.syncing = "requests"
      BY <3>2 DEF Fresh, IsAnswer
    <3>6. Truthful(d) /\ d.link \in Links /\ d.status \in Links BY <2>5, <2>6, <3>5 DEF Truthful, Links
    <3>7. Sound(d) BY <2>6, <3>2, <3>3, <3>4, <3>5, <3>6 DEF Sound
    <3> QED BY <1>6, <2>4, <2>5, <2>6, <3>2, <3>7 DEF Switches
  <2>7. CASE ~(c.selected /\ c.syncing = "no")
    <3>1. NoResync(told, asked) /\ asked.deferred = FALSE BY <1>4, <2>1, <2>7 DEF Resyncs, NoResync
    <3>2. /\ d.syncing = c.syncing /\ d.stateReq = c.stateReq /\ d.historyReq = c.historyReq
          /\ d.buffered = c.buffered /\ d.fetch = c.fetch /\ d.deferred = FALSE /\ d.lost = c.lost \cup missed
      BY <1>4, <2>3, <2>5, <3>1 DEF NoResync
    <3>3. /\ d.lost \subseteq {"reconnect", "state", "history"}
          /\ \/ c.selected /\ d.lost = c.lost \cup {"reconnect"}
             \/ ~c.selected /\ d.lost = c.lost
      BY <2>7, <3>2 DEF missed, Sound
    <3>4. /\ IsClient(d) /\ d.draining = FALSE /\ d.selected = c.selected /\ d.refetch = c.refetch
          /\ d.state = c.state /\ d.overlay = c.overlay /\ d.ref = c.ref
      BY <2>4 DEF Sound, Changes, ClientFields, ResyncFields
    <3>6. Truthful(d) /\ d.link \in Links /\ d.status \in Links
      BY <1>6, <2>5, <2>7, <3>2, <3>4 DEF Truthful, Links, Sound
    <3>7. Sound(d) BY <3>2, <3>3, <3>4, <3>6 DEF Sound
    <3> QED BY <1>6, <2>4, <2>5, <2>7, <3>2, <3>3, <3>7 DEF Switches
  <2> QED BY <2>6, <2>7
<1> QED BY <1>5, <1>6

(* What holding an event back does to the client.                          *)
LEMMA HoldBackDoes ==
  ASSUME NEW c, Sound(c), c.syncing # "no", NEW e \in Events, NEW d, d = HoldBack(c, e)
  PROVE  Sound(d) /\ Changes(c, d, {"buffered"}) /\ d.buffered = Append(c.buffered, e)
<1>1. Changes(c, d, {"buffered"}) /\ d.buffered = Append(c.buffered, e)
  BY Zenon DEF HoldBack, Sound, IsClient, Changes, ClientFields
<1>2. d.buffered \in Seq(Events) BY <1>1 DEF Sound
<1>3. Sound(d) BY <1>1, <1>2 DEF Sound, Changes, ClientFields, Truthful
<1> QED BY <1>1, <1>3

(* Processing an event keeps the client well formed.                       *)
LEMMA ProcessSound ==
  ASSUME NEW c, Sound(c), c.syncing = "no", NEW e, NEW d, d = ProcessEvent(c, e)
  PROVE  Sound(d) /\ Processes(c, e, d)
<1>1. Processes(c, e, d) BY ProcessEventDoes DEF Sound
<1>2. Changes(c, d, ProcessFields) BY <1>1 DEF Processes
<1>3. /\ d.selected = c.selected /\ d.link = c.link /\ d.status = c.status /\ d.draining = FALSE
  BY <1>2 DEF Changes, ClientFields, ProcessFields, ResyncFields, Sound
<1>4. \E s : d.state = {s} BY <1>1 DEF Processes, Sound
<1>5. d.refetch \in {c.refetch, Asked} BY <1>1 DEF Processes
<1>6. InPlace(d.overlay) /\ InPlace(d.ref)
  BY <1>1, PutInPlace DEF Processes, Overlays, Sound
<1>7. IsAnswer(d.refetch) BY <1>5 DEF Sound, IsAnswer
<1>8. CASE NoResync(c, d)
  <2>1. d.deferred = FALSE BY <1>8 DEF NoResync, Sound
  <2> QED BY <1>1, <1>2, <1>3, <1>4, <1>6, <1>7, <1>8, <2>1 DEF Sound, NoResync, Changes, Truthful
<1>9. CASE Resyncs(c, d)
  <2>1. d.lost \subseteq {"reconnect", "state", "history"} BY <1>9 DEF Resyncs, Sound
  <2>2. d.buffered \in Seq(Events) BY <1>9 DEF Resyncs
  <2>3. IsAnswer(d.stateReq) /\ IsAnswer(d.historyReq) BY <1>9 DEF Resyncs, IsAnswer
  <2> QED BY <1>1, <1>2, <1>3, <1>4, <1>6, <1>7, <1>9, <2>1, <2>2, <2>3 DEF Sound, Resyncs, Changes, Truthful
<1> QED BY <1>1, <1>8, <1>9 DEF Processes

-----------------------------------------------------------------------------
(* The fields of a fetch, and the fetches a selection leaves.              *)
IsFetch(f) == f = [st |-> f.st, older |-> f.older, base |-> f.base, val |-> f.val]
FirstFetches == {NoFetch, Fetch("asked", FALSE, NoHistory)}

(* What the selection of a Session, or of none, sets and leaves alone.     *)
LEMMA ReselectDoes ==
  ASSUME NEW c, Sound(c), NEW sel \in BOOLEAN, NEW d, d = Reselect(c, sel)
  PROVE  /\ Changes(c, d, {"overlay", "ref", "rendered", "syncing", "stateReq", "historyReq", "buffered", "deferred",
                           "selected", "resynced", "fetch"})
         /\ d.syncing = "no" /\ d.stateReq = None /\ d.historyReq = None /\ d.buffered = <<>> /\ d.deferred = FALSE
         /\ d.overlay = <<>> /\ d.ref = <<>> /\ d.selected = sel /\ d.resynced = 0 /\ d.fetch \in FirstFetches
<1> DEFINE a == AbandonResync(c)
           b == ReplaceOverlay(a, <<>>)
           x == IF sel /\ c.pages = NoHistory THEN Fetch("asked", FALSE, NoHistory) ELSE NoFetch
<1>1. d = [b EXCEPT !.selected = sel, !.resynced = 0, !.fetch = x] BY Zenon DEF Reselect
<1>2. /\ Changes(c, a, {"syncing", "stateReq", "historyReq", "buffered", "deferred"})
      /\ a.syncing = "no" /\ a.stateReq = None /\ a.historyReq = None /\ a.buffered = <<>> /\ a.deferred = FALSE
  BY Zenon DEF AbandonResync, Sound, IsClient, Changes, ClientFields
<1>5. x \in FirstFetches BY DEF FirstFetches
<1> HIDE DEF a, x
<1>3. Changes(a, b, {"overlay", "ref", "rendered"}) /\ b.overlay = <<>> /\ b.ref = <<>>
  BY <1>2, Zenon DEF ReplaceOverlay, IsClient, Changes, ClientFields
<1> HIDE DEF b
<1>4. Changes(b, d, {"selected", "resynced", "fetch"}) /\ d.selected = sel /\ d.resynced = 0 /\ d.fetch = x
  BY <1>1, <1>3, Zenon DEF IsClient, Changes, ClientFields
<1> QED BY <1>2, <1>3, <1>4, <1>5 DEF Changes, ClientFields

(* An empty overlay has every record in its place.                         *)
LEMMA EmptyInPlace == InPlace(<<>>)
BY DEF InPlace

(* What opening the page does to the client.                               *)
LEMMA OpenDoes ==
  ASSUME Sound(client), OpenPage
  PROVE  /\ Sound(client') /\ client'.selected = TRUE /\ client'.link = client.link
         /\ client'.refetch = client.refetch /\ client'.state = client.state /\ client'.ended = client.ended
         /\ client'.pages = client.pages /\ client'.resynced = 0 /\ client'.stateReq \in {None, Asked}
         /\ client'.link = "connected" => Fresh(client, client')
         /\ client'.buffered = <<>> /\ client'.historyReq \in {None, Asked} /\ client'.fetch \in FirstFetches
         /\ client'.syncing \in {"no", "requests"} /\ client'.overlay = <<>>
         /\ client'.syncing = "requests" => client'.fetch = NoFetch
<1> DEFINE c == client
           b == Reselect(c, TRUE)
           x == [b EXCEPT !.status = "reconnecting"]
           d == client'
<1>1. d = IF c.link = "connected" THEN StartResync(x) ELSE b BY DEF OpenPage
<1>2. Sound(c) /\ ~c.selected BY DEF OpenPage
<1> HIDE DEF c, d
<1>3. /\ Changes(c, b, {"overlay", "ref", "rendered", "syncing", "stateReq", "historyReq", "buffered", "deferred",
                        "selected", "resynced", "fetch"})
      /\ b.syncing = "no" /\ b.stateReq = None /\ b.historyReq = None /\ b.buffered = <<>> /\ b.deferred = FALSE
      /\ b.overlay = <<>> /\ b.ref = <<>> /\ b.selected = TRUE /\ b.resynced = 0 /\ b.fetch \in FirstFetches
  BY <1>2, ReselectDoes
<1> HIDE DEF b
<1>4. /\ b.link = c.link /\ b.status = c.status /\ b.refetch = c.refetch /\ b.state = c.state
      /\ b.draining = FALSE /\ b.lost = c.lost /\ b.pages = c.pages /\ b.ended = c.ended
  BY <1>2, <1>3 DEF Changes, ClientFields, Sound
<1>5. InPlace(b.overlay) /\ InPlace(b.ref) BY <1>3, EmptyInPlace
<1>6. CASE c.link # "connected"
  <2>1. d = b BY <1>1, <1>6
  <2>2. Sound(d)
    BY <1>2, <1>3, <1>4, <1>5, <1>6, <2>1 DEF Sound, Changes, Truthful, IsAnswer
  <2> QED BY <1>3, <1>4, <1>6, <2>1, <2>2 DEF c, d
<1>7. CASE c.link = "connected"
  <2>1. Changes(b, x, {"status"}) /\ x.status = "reconnecting"
    BY <1>3, Zenon DEF IsClient, Changes, ClientFields
  <2> HIDE DEF x
  <2>2. d = StartResync(x) BY <1>1, <1>7
  <2>3. IsClient(x) BY <2>1 DEF Changes
  <2>4. /\ Changes(x, d, {"buffered", "syncing", "stateReq", "historyReq", "fetch", "lost"})
        /\ d.syncing = "requests" /\ d.stateReq = Asked /\ d.historyReq = Asked /\ d.fetch = NoFetch
        /\ d.lost = x.lost \ {"reconnect"}
        /\ d.buffered = IF x.syncing = "no" THEN <<>> ELSE x.buffered
    BY <2>2, <2>3, StartResyncDoes
  <2>5. /\ d.link = c.link /\ d.status = "reconnecting" /\ d.refetch = c.refetch /\ d.state = c.state
        /\ d.draining = FALSE /\ d.deferred = FALSE /\ x.lost = c.lost /\ x.syncing = "no" /\ d.selected = TRUE
        /\ d.overlay = b.overlay /\ d.ref = b.ref /\ d.pages = c.pages /\ d.ended = c.ended /\ d.resynced = 0
    BY <1>3, <1>4, <2>1, <2>4 DEF Changes, ClientFields
  <2>6. Fresh(c, d) BY <1>2, <2>4, <2>5 DEF Fresh, Sound
  <2>7. d.lost \subseteq {"reconnect", "state", "history"} /\ d.buffered = <<>> BY <1>2, <2>6 DEF Fresh, Sound
  <2>9. IsAnswer(d.stateReq) /\ IsAnswer(d.historyReq) /\ IsClient(d) /\ d.buffered \in Seq(Events)
    <3>1. IsAnswer(Asked) BY DEF IsAnswer
    <3>2. <<>> \in Seq(Events) OBVIOUS
    <3> QED BY <2>4, <2>7, <3>1, <3>2 DEF Changes
  <2>10. Truthful(d) /\ d.link \in Links /\ d.status \in Links
    BY <1>7, <2>4, <2>5 DEF Truthful, Links
  <2>8. Sound(d)
    BY <1>2, <1>5, <2>4, <2>5, <2>7, <2>9, <2>10 DEF Sound
  <2>11. NoFetch \in FirstFetches BY DEF FirstFetches
  <2> QED BY <1>3, <2>4, <2>5, <2>6, <2>7, <2>8, <2>11 DEF c, d
<1> QED BY <1>6, <1>7

(* What closing the page does to the client.                               *)
LEMMA CloseDoes ==
  ASSUME Sound(client), ClosePage
  PROVE  /\ Sound(client') /\ client'.selected = FALSE /\ client'.buffered = <<>> /\ client'.refetch = client.refetch
         /\ client'.stateReq = None /\ client'.historyReq = None
         /\ client'.state = client.state /\ client'.ended = client.ended /\ client'.resynced = 0
         /\ client'.pages = client.pages /\ client'.fetch \in FirstFetches /\ client'.overlay = <<>>
<1> DEFINE c == client
           d == client'
<1>1. d = Reselect(c, FALSE) BY DEF ClosePage
<1>2. Sound(c) OBVIOUS
<1> HIDE DEF c, d
<1>3. /\ Changes(c, d, {"overlay", "ref", "rendered", "syncing", "stateReq", "historyReq", "buffered", "deferred",
                        "selected", "resynced", "fetch"})
      /\ d.syncing = "no" /\ d.stateReq = None /\ d.historyReq = None /\ d.buffered = <<>> /\ d.deferred = FALSE
      /\ d.overlay = <<>> /\ d.ref = <<>> /\ d.selected = FALSE /\ d.resynced = 0 /\ d.fetch \in FirstFetches
  BY <1>1, <1>2, ReselectDoes
<1>4. /\ d.link = c.link /\ d.status = c.status /\ d.refetch = c.refetch /\ d.state = c.state
      /\ d.draining = FALSE /\ d.lost = c.lost /\ d.ended = c.ended /\ d.pages = c.pages
  BY <1>2, <1>3 DEF Changes, ClientFields, Sound
<1>5. InPlace(d.overlay) /\ InPlace(d.ref) BY <1>3, EmptyInPlace
<1>7. IsAnswer(d.stateReq) /\ IsAnswer(d.historyReq) /\ IsClient(d) /\ d.buffered \in Seq(Events)
  BY <1>3 DEF IsAnswer, Changes
<1>8. Truthful(d) BY <1>2, <1>3, <1>4 DEF Truthful, Sound
<1>6. Sound(d) BY <1>2, <1>3, <1>4, <1>5, <1>7, <1>8 DEF Sound
<1> QED BY <1>3, <1>4, <1>6 DEF c, d

-----------------------------------------------------------------------------
(* The two fields of a request.                                            *)
LEMMA SlotFields ==
  /\ None.val = {} /\ Asked.val = {} /\ None.st = "none" /\ Asked.st = "asked"
  /\ \A st, val : Slot(st, val).val = val /\ Slot(st, val).st = st
<1>1. \A st, val : Slot(st, val).val = val /\ Slot(st, val).st = st BY DEF Slot
<1>2. None.val = {} /\ Asked.val = {} /\ None.st = "none" /\ Asked.st = "asked" BY <1>1 DEF None, Asked
<1> QED BY <1>1, <1>2

(* The states of a request that hold no answer.                            *)
LEMMA AnswerKinds == IsAnswer(None) /\ IsAnswer(Asked) /\ IsAnswer(Slot("failed", {}))
BY DEF IsAnswer

(* A request that is answered holds its answer.                            *)
LEMMA AnswerGiven ==
  ASSUME NEW s, NEW a, a = Slot("answered", {s})
  PROVE  IsAnswer(a) /\ a.val = {s}
BY SlotFields DEF IsAnswer

(* A request holds one answer exactly when it is answered.                 *)
LEMMA AnswerHolds ==
  ASSUME NEW q, IsAnswer(q)
  PROVE  (q.val = {} /\ q.st # "answered") \/ (q.st = "answered" /\ \E s : q.val = {s})
<1>1. CASE q \in {None, Asked, Slot("failed", {})} BY <1>1, SlotFields
<1>2. CASE \E s : q = Slot("answered", {s})
  <2>1. PICK s : q = Slot("answered", {s}) BY <1>2
  <2>2. q.st = "answered" /\ q.val = {s} BY <2>1, SlotFields
  <2> QED BY <2>2
<1> QED BY <1>1, <1>2 DEF IsAnswer

(* The answer to the state request is the state the server has, or none.   *)
LEMMA AnswerStateDoes ==
  ASSUME Sound(client), NEW ok \in BOOLEAN, AnswerState(ok)
  PROVE  /\ Sound(client') /\ Changes(client, client', {"stateReq"}) /\ client.syncing # "no"
         /\ client'.stateReq.val \in {{}, {Snapshot}}
<1> DEFINE c == client
           d == client'
           a == IF ok THEN Slot("answered", {Snapshot}) ELSE Slot("failed", {})
<1>1. d = [c EXCEPT !.stateReq = a] /\ c.stateReq.st = "asked" BY DEF AnswerState
<1>2. Sound(c) OBVIOUS
<1>3. IsAnswer(a) /\ a.val \in {{}, {Snapshot}}
  <2>1. CASE ok
    <3>1. a = Slot("answered", {Snapshot}) BY <2>1
    <3> HIDE DEF a
    <3> QED BY <3>1, AnswerGiven
  <2>2. CASE ~ok BY <2>2, AnswerKinds, SlotFields
  <2> QED BY <2>1, <2>2
<1> HIDE DEF c, d, a
<1>4. Changes(c, d, {"stateReq"}) /\ d.stateReq = a BY <1>1, <1>2, Zenon DEF Sound, IsClient, Changes, ClientFields
<1>5. c.syncing # "no" BY <1>1, <1>2, SlotFields DEF Sound
<1>6. \A f \in ClientFields \ {"stateReq"} : d[f] = c[f] BY <1>4 DEF Changes
<1>7. Sound(d) BY <1>2, <1>3, <1>4, <1>5 DEF Sound, Changes, ClientFields, Truthful
<1> QED BY <1>3, <1>4, <1>5, <1>7 DEF c, d

(* The answer to the history request is the latest page, or none.          *)
LEMMA AnswerHistoryDoes ==
  ASSUME Sound(client), NEW ok \in BOOLEAN, AnswerHistory(ok)
  PROVE  /\ Sound(client') /\ Changes(client, client', {"historyReq"}) /\ client.syncing # "no"
         /\ client'.historyReq.val \in {{}, {ReadPage(journal, 0, PageSize)}}
<1> DEFINE c == client
           d == client'
           p == ReadPage(journal, 0, PageSize)
           a == IF ok THEN Slot("answered", {p}) ELSE Slot("failed", {})
<1>1. d = [c EXCEPT !.historyReq = a] /\ c.historyReq.st = "asked" BY DEF AnswerHistory
<1>2. Sound(c) OBVIOUS
<1> HIDE DEF p
<1>3. IsAnswer(a) /\ a.val \in {{}, {p}}
  <2>1. CASE ok
    <3>1. a = Slot("answered", {p}) BY <2>1
    <3> HIDE DEF a
    <3> QED BY <3>1, AnswerGiven
  <2>2. CASE ~ok BY <2>2, AnswerKinds, SlotFields
  <2> QED BY <2>1, <2>2
<1> HIDE DEF c, d, a
<1>4. Changes(c, d, {"historyReq"}) /\ d.historyReq = a BY <1>1, <1>2, Zenon DEF Sound, IsClient, Changes, ClientFields
<1>5. c.syncing # "no" BY <1>1, <1>2, SlotFields DEF Sound
<1>7. Sound(d) BY <1>2, <1>3, <1>4, <1>5 DEF Sound, Changes, ClientFields, Truthful
<1> QED BY <1>3, <1>4, <1>5, <1>7 DEF c, d, p

(* The answer to a read of the state of its own is the state the server    *)
(* has, or none.                                                           *)
LEMMA AnswerRefetchDoes ==
  ASSUME Sound(client), NEW ok \in BOOLEAN, AnswerRefetch(ok)
  PROVE  /\ Sound(client') /\ Changes(client, client', {"refetch"})
         /\ client'.refetch.val \in {{}, {Snapshot}}
<1> DEFINE c == client
           d == client'
           a == IF ok THEN Slot("answered", {Snapshot}) ELSE None
<1>1. d = [c EXCEPT !.refetch = a] BY DEF AnswerRefetch
<1>2. Sound(c) OBVIOUS
<1>3. IsAnswer(a) /\ a.val \in {{}, {Snapshot}}
  <2>1. CASE ok
    <3>1. a = Slot("answered", {Snapshot}) BY <2>1
    <3> HIDE DEF a
    <3> QED BY <3>1, AnswerGiven
  <2>2. CASE ~ok BY <2>2, AnswerKinds, SlotFields
  <2> QED BY <2>1, <2>2
<1> HIDE DEF c, d, a
<1>4. Changes(c, d, {"refetch"}) /\ d.refetch = a BY <1>1, <1>2, Zenon DEF Sound, IsClient, Changes, ClientFields
<1>7. Sound(d) BY <1>2, <1>3, <1>4 DEF Sound, Changes, ClientFields, Truthful
<1> QED BY <1>3, <1>4, <1>7 DEF c, d

(* What is no business of the stream and the state.                        *)
LEMMA PagesSound ==
  ASSUME NEW c, Sound(c), NEW d, Changes(c, d, {"fetch", "pages", "ended", "resynced", "rendered"})
  PROVE  Sound(d)
BY DEF Sound, Changes, ClientFields, Truthful

(* What a fetch of the history query reads: an older page, or all again.   *)
FetchRead(f) == IF f.older THEN FetchNextPage(f.base, journal, PageSize) ELSE RefetchPages(f.base, journal, PageSize)

(* The answer to a fetch of the history query touches nothing else.        *)
LEMMA AnswerFetchDoes ==
  ASSUME Sound(client), NEW ok \in BOOLEAN, AnswerFetch(ok)
  PROVE  /\ Sound(client') /\ Changes(client, client', {"fetch"})
         /\ IsFetch(client.fetch) =>
              /\ IsFetch(client'.fetch) /\ client'.fetch.base = client.fetch.base
              /\ client'.fetch.older = client.fetch.older /\ client'.fetch.st \in {"answered", "failed"}
              /\ client'.fetch.val \in {{}, {FetchRead(client.fetch)}}
<1> DEFINE read == FetchRead(client.fetch)
<1> DEFINE c == client
           d == client'
<1>1. d = [c EXCEPT !.fetch.st = IF ok THEN "answered" ELSE "failed", !.fetch.val = IF ok THEN {read} ELSE {}]
  BY Zenon DEF AnswerFetch, FetchRead
<1>2. Sound(c) OBVIOUS
<1>5. \E st, val : /\ d = [c EXCEPT !.fetch.st = st, !.fetch.val = val]
                  /\ val \in {{}, {read}} /\ st \in {"answered", "failed"}
  BY <1>1
<1> HIDE DEF c, d, read
<1>6. PICK st, val : /\ d = [c EXCEPT !.fetch.st = st, !.fetch.val = val]
                     /\ val \in {{}, {read}} /\ st \in {"answered", "failed"}
  BY <1>5
<1>3. Changes(c, d, {"fetch"}) BY <1>2, <1>6, Zenon DEF Sound, IsClient, Changes, ClientFields
<1>4. Changes(c, d, {"fetch", "pages", "ended", "resynced", "rendered"}) BY <1>3 DEF Changes
<1>7. ASSUME IsFetch(c.fetch)
      PROVE  /\ IsFetch(d.fetch) /\ d.fetch.base = c.fetch.base /\ d.fetch.val = val
             /\ d.fetch.older = c.fetch.older /\ d.fetch.st = st
  <2> DEFINE f == c.fetch
             h == [f EXCEPT !.st = st]
             g == [h EXCEPT !.val = val]
  <2>1. d.fetch = g BY <1>2, <1>6 DEF Sound, IsClient, ClientFields
  <2> HIDE DEF f
  <2>2. f = [st |-> f.st, older |-> f.older, base |-> f.base, val |-> f.val] BY <1>7 DEF IsFetch, f
  <2>3. h = [st |-> st, older |-> f.older, base |-> f.base, val |-> f.val] BY <2>2
  <2> HIDE DEF h
  <2>4. g = [st |-> st, older |-> f.older, base |-> f.base, val |-> val] BY <2>3
  <2> HIDE DEF g
  <2>5. IsFetch(g) /\ g.base = f.base /\ g.val = val /\ g.older = f.older /\ g.st = st BY <2>4 DEF IsFetch
  <2> QED BY <2>1, <2>5 DEF f
<1> QED BY <1>2, <1>3, <1>4, <1>6, <1>7, PagesSound DEF c, d, read

(* A read of the state is asked for.                                       *)
LEMMA RefreshDoes ==
  ASSUME Sound(client), RefreshState
  PROVE  Sound(client') /\ Changes(client, client', {"refetch"}) /\ client'.refetch = Asked
<1> DEFINE c == client
           d == client'
<1>1. d = [c EXCEPT !.refetch = Asked] BY DEF RefreshState
<1>2. Sound(c) OBVIOUS
<1> HIDE DEF c, d
<1>4. Changes(c, d, {"refetch"}) /\ d.refetch = Asked BY <1>1, <1>2, Zenon DEF Sound, IsClient, Changes, ClientFields
<1>5. IsAnswer(d.refetch) BY <1>4, AnswerKinds
<1>7. Sound(d) BY <1>2, <1>4, <1>5 DEF Sound, Changes, ClientFields, Truthful
<1> QED BY <1>4, <1>7 DEF c, d

(* An older page is asked for.                                             *)
LEMMA LoadOlderDoes ==
  ASSUME Sound(client), LoadOlder
  PROVE  /\ Sound(client') /\ Changes(client, client', {"fetch"})
         /\ client'.fetch = Fetch("asked", TRUE, client.pages) /\ client.fetch.st = "none"
<1> DEFINE c == client
           d == client'
           x == Fetch("asked", TRUE, c.pages)
<1>1. d = [c EXCEPT !.fetch = x] /\ c.fetch.st = "none" BY DEF LoadOlder
<1>2. Sound(c) OBVIOUS
<1> HIDE DEF c, d, x
<1>3. Changes(c, d, {"fetch"}) /\ d.fetch = x
  <2>1. Changes(c, d, {"fetch"}) BY <1>1, <1>2, Zenon DEF Sound, IsClient, Changes, ClientFields
  <2>2. d.fetch = x BY <1>1, <1>2 DEF Sound, IsClient, ClientFields
  <2> QED BY <2>1, <2>2
<1>4. Changes(c, d, {"fetch", "pages", "ended", "resynced", "rendered"}) BY <1>3 DEF Changes
<1> QED BY <1>1, <1>2, <1>3, <1>4, PagesSound DEF c, d, x

(* A read of the state of its own replaces the cached state.               *)
LEMMA LandRefetchDoes ==
  ASSUME Sound(client), LandRefetch
  PROVE  /\ Sound(client') /\ Changes(client, client', {"ref", "rendered", "state", "refetch", "lost"})
         /\ client'.state = client.refetch.val /\ client'.refetch = None
         /\ client'.lost = IF \E s \in client.state, t \in client.refetch.val : t.ver < s.ver
                           THEN client.lost \cup {"state"} ELSE client.lost
<1> DEFINE b == client
           c == Rendered(b)
           d == client'
           older == \E s \in c.state, t \in c.refetch.val : t.ver < s.ver
           x == IF older THEN c.lost \cup {"state"} ELSE c.lost
<1>1. d = [c EXCEPT !.state = c.refetch.val, !.refetch = None, !.lost = x] /\ c.refetch.st = "answered"
  <2>1. b.refetch.st = "answered"
    <3>1. Rendered(b).refetch.st = "answered" BY Zenon DEF LandRefetch
    <3>2. c.refetch = b.refetch BY RenderedSound DEF Changes, ClientFields
    <3> HIDE DEF b
    <3> QED BY <3>1, <3>2
  <2>2. c.refetch = b.refetch BY RenderedSound DEF Changes, ClientFields
  <2>3. d = [c EXCEPT !.state = c.refetch.val, !.refetch = None, !.lost = x] BY Zenon DEF LandRefetch
  <2> HIDE DEF c, x, d
  <2> QED BY <2>1, <2>2, <2>3
<1>2. Sound(b) OBVIOUS
<1> HIDE DEF b, d
<1>3. Sound(c) /\ Changes(b, c, {"ref", "rendered"}) BY <1>2, RenderedSound
<1> HIDE DEF c, x
<1>4. Changes(c, d, {"state", "refetch", "lost"}) /\ d.state = c.refetch.val /\ d.refetch = None /\ d.lost = x
  BY <1>1, <1>3, Zenon DEF Sound, IsClient, Changes, ClientFields
<1>5. c.state = b.state /\ c.refetch = b.refetch /\ c.lost = b.lost BY <1>3 DEF Changes, ClientFields
<1>6. \E s : d.state = {s}
  <2>1. IsAnswer(c.refetch) BY <1>3 DEF Sound
  <2> QED BY <1>1, <1>4, <2>1, AnswerHolds
<1>7. d.lost \subseteq {"reconnect", "state", "history"} BY <1>3, <1>4 DEF Sound, x
<1>8. IsAnswer(d.refetch) BY <1>4, AnswerKinds
<1>9. Sound(d) BY <1>3, <1>4, <1>6, <1>7, <1>8 DEF Sound, Changes, ClientFields, Truthful
<1>10. Changes(b, d, {"ref", "rendered", "state", "refetch", "lost"}) BY <1>3, <1>4 DEF Changes, ClientFields
<1>11. d.lost = IF \E s \in b.state, t \in b.refetch.val : t.ver < s.ver THEN b.lost \cup {"state"} ELSE b.lost
  BY <1>4, <1>5 DEF x
<1> QED BY <1>4, <1>5, <1>9, <1>10, <1>11 DEF b, d

-----------------------------------------------------------------------------
(* The client m a resynchronisation leaves before its end: the state its   *)
(* answer gave, if it did, and the history merged, if there was one.       *)
NewestOf(c) == Max({NewestSeq(page) : page \in c.historyReq.val} \cup {0})
Applied(c, m) ==
  /\ Sound(m) /\ Changes(c, m, {"ref", "rendered", "state", "lost", "pages", "resynced", "ended"})
  /\ m.ref = c.overlay
  /\ \/ c.stateReq.val = {} /\ m.state = c.state /\ "state" \in m.lost
     \/ c.stateReq.val # {} /\ m.state = c.stateReq.val /\ "state" \notin m.lost
  /\ "reconnect" \in m.lost <=> "reconnect" \in c.lost
Merges(c, m) ==
  /\ "history" \notin m.lost
  /\ m.pages = MergeHistoryPages(c.pages, CHOOSE page \in c.historyReq.val : TRUE, PageSize)
  /\ m.resynced = (IF c.ended = 0 THEN c.resynced ELSE c.ended) /\ m.ended = 0
LeavesPages(c, m) ==
  /\ m.pages = c.pages /\ m.resynced = c.resynced /\ m.ended = c.ended
  /\ "history" \in m.lost <=> "history" \in c.lost

(* The answer of the state request is put into the cache, or its failure   *)
(* is noted.                                                               *)
LEMMA StatedDoes ==
  ASSUME NEW c, Sound(c), c.syncing = "requests", NEW b, b = Rendered(c), NEW st, NEW lo,
         st = IF c.stateReq.val = {} THEN b.state ELSE c.stateReq.val,
         lo = IF c.stateReq.val = {} THEN b.lost \cup {"state"} ELSE b.lost \ {"state"},
         NEW m, m = [b EXCEPT !.state = st, !.lost = lo]
  PROVE  /\ Applied(c, m) /\ LeavesPages(c, m)
<1>2. Sound(b) /\ Changes(c, b, {"ref", "rendered"}) /\ b.ref = c.overlay BY RenderedSound
<1>3. Changes(b, m, {"state", "lost"}) /\ m.state = st /\ m.lost = lo
  BY <1>2, Zenon DEF Sound, IsClient, Changes, ClientFields
<1>4. Changes(c, m, {"ref", "rendered", "state", "lost", "pages", "resynced", "ended"})
  BY <1>2, <1>3 DEF Changes, ClientFields
<1>5. /\ b.state = c.state /\ b.lost = c.lost /\ m.pages = c.pages /\ m.resynced = c.resynced /\ m.ended = c.ended
  BY <1>2, <1>3 DEF Changes, ClientFields
<1>6. IsAnswer(c.stateReq) BY DEF Sound
<1>7. \E s : m.state = {s}
  <2>1. CASE c.stateReq.val = {} BY <1>2, <1>3, <2>1 DEF Sound
  <2>2. CASE c.stateReq.val # {} BY <1>3, <1>6, <2>2, AnswerHolds
  <2> QED BY <2>1, <2>2
<1>8. m.lost \subseteq {"reconnect", "state", "history"}
  <2>1. b.lost \subseteq {"reconnect", "state", "history"} BY <1>2 DEF Sound
  <2> QED BY <1>3, <2>1
<1>9. Sound(m)
  <2>1. /\ IsClient(m) /\ m.draining = FALSE /\ m.deferred = FALSE /\ m.selected = c.selected /\ m.link = c.link
        /\ m.status = c.status /\ m.syncing = c.syncing /\ m.buffered = c.buffered /\ m.stateReq = c.stateReq
        /\ m.historyReq = c.historyReq /\ m.refetch = c.refetch /\ m.overlay = b.overlay /\ m.ref = b.ref
    <3>1. Changes(c, b, {"ref", "rendered"}) /\ Changes(b, m, {"state", "lost"}) BY <1>2, <1>3
    <3>2. c.draining = FALSE /\ c.deferred = FALSE BY DEF Sound
    <3> QED BY <3>1, <3>2 DEF Changes, ClientFields
  <2>2. Truthful(m) BY <2>1 DEF Truthful, Sound
  <2>3. InPlace(m.overlay) /\ InPlace(m.ref) BY <1>2, <2>1 DEF Sound
  <2> QED BY <1>7, <1>8, <2>1, <2>2, <2>3 DEF Sound
<1>10. /\ "reconnect" \in m.lost <=> "reconnect" \in c.lost
       /\ "history" \in m.lost <=> "history" \in c.lost
  BY <1>3, <1>5
<1>11. \/ c.stateReq.val = {} /\ m.state = c.state /\ "state" \in m.lost
       \/ c.stateReq.val # {} /\ m.state = c.stateReq.val /\ "state" \notin m.lost
  BY <1>3, <1>5
<1>12. m.ref = c.overlay BY <1>2, <1>3 DEF Changes, ClientFields
<1> QED BY <1>4, <1>5, <1>9, <1>10, <1>11, <1>12 DEF Applied, LeavesPages

ApplyResyncs(c, d) ==
  \E m : /\ Applied(c, m)
         /\ \/ /\ c.historyReq.st = "answered" /\ Merges(c, m)
               /\ d = FinishResync(m, IF NewestOf(c) = 0 THEN HistoryNewestSeq(m.pages) ELSE NewestOf(c))
            \/ /\ c.historyReq.st = "failed" /\ LeavesPages(c, m) /\ Sound(d)
               /\ Changes(m, d, {"syncing", "fetch"}) /\ d.syncing = "refetch"
               /\ d.fetch = Fetch("asked", FALSE, c.pages)

(* What the use of a resynchronisation's answers does.                     *)
LEMMA ApplyDoes ==
  ASSUME Sound(client), ApplyResync
  PROVE  client.syncing = "requests" /\ ApplyResyncs(client, client')
<1> DEFINE a == client
           c == Rendered(a)
           d == client'
           state == c.stateReq.val
           newest == Max({NewestSeq(page) : page \in c.historyReq.val} \cup {0})
           stated == [c EXCEPT !.state = IF state = {} THEN @ ELSE state,
                               !.lost = IF state = {} THEN @ \cup {"state"} ELSE @ \ {"state"}]
           page1 == CHOOSE page \in c.historyReq.val : TRUE
           merged == [stated EXCEPT !.pages = MergeHistoryPages(@, page1, PageSize),
                               !.lost = @ \ {"history"},
                               !.resynced = IF c.ended = 0 THEN @ ELSE c.ended, !.ended = 0]
           fetch == Fetch("asked", FALSE, c.pages)
<1>1. /\ c.syncing = "requests" /\ c.historyReq.st \in {"answered", "failed"}
      /\ d = IF c.historyReq.st = "answered"
             THEN FinishResync(merged, IF newest = 0 THEN HistoryNewestSeq(merged.pages) ELSE newest)
             ELSE [stated EXCEPT !.syncing = "refetch", !.fetch = fetch]
  BY Zenon DEF ApplyResync
<1>2. Sound(a) OBVIOUS
<1> HIDE DEF a, d
<1>3. Sound(c) /\ Changes(a, c, {"ref", "rendered"}) BY <1>2, RenderedSound
<1>4. /\ c.syncing = a.syncing /\ c.stateReq = a.stateReq /\ c.historyReq = a.historyReq /\ c.pages = a.pages
      /\ c.ended = a.ended /\ c.resynced = a.resynced
  BY <1>3 DEF Changes, ClientFields
<1>5. newest = NewestOf(a) BY <1>4 DEF NewestOf
<1> HIDE DEF newest
<1>6. Applied(a, stated) /\ LeavesPages(a, stated)
  <2> DEFINE st == IF a.stateReq.val = {} THEN c.state ELSE a.stateReq.val
             lo == IF a.stateReq.val = {} THEN c.lost \cup {"state"} ELSE c.lost \ {"state"}
  <2>1. stated = [c EXCEPT !.state = st, !.lost = lo] /\ c = Rendered(a) BY <1>4
  <2> HIDE DEF stated, c
  <2> QED BY <1>1, <1>2, <1>4, <2>1, StatedDoes
<1>7. CASE c.historyReq.st = "answered"
  <2> DEFINE p == MergeHistoryPages(stated.pages, page1, PageSize)
             q == IF c.ended = 0 THEN stated.resynced ELSE c.ended
             l == stated.lost \ {"history"}
  <2>1. merged = [stated EXCEPT !.pages = p, !.lost = l, !.resynced = q, !.ended = 0] OBVIOUS
  <2>2. Sound(stated) BY <1>6 DEF Applied
  <2> HIDE DEF stated, merged, page1, p, q, l, c
  <2>3. Changes(stated, merged, {"pages", "lost", "resynced", "ended"})
        /\ merged.pages = p /\ merged.lost = l /\ merged.resynced = q /\ merged.ended = 0
    BY <2>1, <2>2, Zenon DEF Sound, IsClient, Changes, ClientFields
  <2>4. Sound(merged)
    <3>1. merged.lost \subseteq {"reconnect", "state", "history"} BY <2>2, <2>3 DEF Sound, l
    <3> QED BY <2>2, <2>3, <3>1 DEF Sound, Changes, ClientFields, Truthful
  <2>5. Applied(a, merged)
    BY <1>6, <2>3, <2>4 DEF Applied, Changes, ClientFields, l
  <2>6. Merges(a, merged)
    BY <1>4, <1>6, <2>3 DEF Merges, LeavesPages, p, q, l, page1
  <2>7. d = FinishResync(merged, IF NewestOf(a) = 0 THEN HistoryNewestSeq(merged.pages) ELSE NewestOf(a))
    BY <1>1, <1>5, <1>7
  <2>8. ApplyResyncs(a, d) BY <1>4, <1>7, <2>5, <2>6, <2>7, Zenon DEF ApplyResyncs
  <2> QED BY <1>1, <1>4, <2>8 DEF a, d
<1>8. CASE c.historyReq.st = "failed"
  <2>1. d = [stated EXCEPT !.syncing = "refetch", !.fetch = fetch] BY <1>1, <1>8
  <2>2. Sound(stated) BY <1>6 DEF Applied
  <2>3. fetch = Fetch("asked", FALSE, a.pages) BY <1>4
  <2> HIDE DEF stated, merged, page1, c, fetch
  <2>4. Changes(stated, d, {"syncing", "fetch"}) /\ d.syncing = "refetch" /\ d.fetch = fetch
    BY <2>1, <2>2, Zenon DEF Sound, IsClient, Changes, ClientFields
  <2>5. stated.syncing = "requests" BY <1>1, <1>4, <1>6 DEF Applied, Changes, ClientFields
  <2>6. Sound(d) BY <2>2, <2>4, <2>5 DEF Sound, Changes, ClientFields, Truthful
  <2>7. ApplyResyncs(a, d) BY <1>4, <1>6, <1>8, <2>3, <2>4, <2>6, Zenon DEF ApplyResyncs
  <2> QED BY <1>1, <1>4, <2>7 DEF a, d
<1> QED BY <1>1, <1>7, <1>8

Landed(c, m) ==
  /\ Sound(m) /\ Changes(c, m, {"ref", "rendered", "pages", "lost", "fetch"}) /\ m.fetch = NoFetch
  /\ m.ref = c.overlay
  /\ m.pages = IF c.fetch.val = {} THEN c.pages ELSE CHOOSE pages \in c.fetch.val : TRUE
  /\ m.lost = IF c.syncing = "refetch" /\ c.fetch.val = {} THEN c.lost \cup {"history"}
              ELSE IF \E pages \in c.fetch.val : HistoryNewestSeq(pages) < HistoryNewestSeq(c.pages)
                   THEN c.lost \cup {"history"} ELSE c.lost
LandsFetch(c, d) ==
  \E m : /\ Landed(c, m)
         /\ \/ c.syncing = "refetch" /\ d = FinishResync(m, HistoryNewestSeq(m.pages))
            \/ c.syncing # "refetch" /\ d = m

(* What the landing of a fetch of the history query does.                  *)
LEMMA LandFetchDoes ==
  ASSUME Sound(client), LandFetch
  PROVE  LandsFetch(client, client')
<1> DEFINE a == client
           c == Rendered(a)
           d == client'
           older == \E pages \in c.fetch.val : HistoryNewestSeq(pages) < HistoryNewestSeq(c.pages)
           p == IF c.fetch.val = {} THEN c.pages ELSE CHOOSE pages \in c.fetch.val : TRUE
           l == IF c.syncing = "refetch" /\ c.fetch.val = {} THEN c.lost \cup {"history"}
                ELSE IF older THEN c.lost \cup {"history"} ELSE c.lost
           landed == [c EXCEPT !.pages = p, !.lost = l, !.fetch = NoFetch]
<1>1. d = IF c.syncing = "refetch" THEN FinishResync(landed, HistoryNewestSeq(landed.pages)) ELSE landed
  BY Zenon DEF LandFetch
<1>2. Sound(a) OBVIOUS
<1> HIDE DEF a, d
<1>3. Sound(c) /\ Changes(a, c, {"ref", "rendered"}) /\ c.ref = a.overlay BY <1>2, RenderedSound
<1>4. c.syncing = a.syncing /\ c.pages = a.pages /\ c.fetch = a.fetch /\ c.lost = a.lost
  BY <1>3 DEF Changes, ClientFields
<1>5. /\ p = IF a.fetch.val = {} THEN a.pages ELSE CHOOSE pages \in a.fetch.val : TRUE
      /\ l = IF a.syncing = "refetch" /\ a.fetch.val = {} THEN a.lost \cup {"history"}
             ELSE IF \E pages \in a.fetch.val : HistoryNewestSeq(pages) < HistoryNewestSeq(a.pages)
                  THEN a.lost \cup {"history"} ELSE a.lost
  BY <1>4
<1>6. l \subseteq {"reconnect", "state", "history"} BY <1>3 DEF Sound
<1> HIDE DEF p, l, c
<1>7. Changes(c, landed, {"pages", "lost", "fetch"}) /\ landed.pages = p /\ landed.lost = l /\ landed.fetch = NoFetch
  BY <1>3, Zenon DEF Sound, IsClient, Changes, ClientFields
<1> HIDE DEF landed
<1>8. Sound(landed) BY <1>3, <1>6, <1>7 DEF Sound, Changes, ClientFields, Truthful
<1>9. Changes(a, landed, {"ref", "rendered", "pages", "lost", "fetch"})
  BY <1>3, <1>7 DEF Changes, ClientFields
<1>r. landed.ref = a.overlay BY <1>3, <1>7 DEF Changes, ClientFields
<1>10. Landed(a, landed) BY <1>r, <1>5, <1>7, <1>8, <1>9 DEF Landed
<1> QED BY <1>1, <1>4, <1>10 DEF LandsFetch, a, d

(* What is delivered, and what the client does with it.                    *)
Delivers(a, d, e) ==
  \E c : /\ Sound(c) /\ Changes(a, c, {"ref", "rendered"}) /\ Sound(d)
         /\ \/ e.kind = "open" /\ d = OnStatusChange(c, "connected")
            \/ e.kind = "close" /\ d = OnStatusChange(c, "reconnecting")
            \/ ~IsMarker(e) /\ c.syncing # "no" /\ Changes(c, d, {"buffered"}) /\ d.buffered = Append(c.buffered, e)
            \/ ~IsMarker(e) /\ c.syncing = "no" /\ Processes(c, e, d)

(* What the delivery of the next event does.                               *)
LEMMA DeliverDoes ==
  ASSUME Sound(client), StreamOK(wire), Deliver
  PROVE  /\ wire # <<>> /\ Head(wire) \in Events /\ wire' = Tail(wire) /\ StreamOK(wire')
         /\ Delivers(client, client', Head(wire))
<1> DEFINE e == Head(wire)
<1>1. wire # <<>> /\ wire' = Tail(wire) BY DEF Deliver
<1>2. PICK c \in {client, Rendered(client)} :
        client' = CASE e.kind = "open" -> OnStatusChange(c, "connected")
                    [] e.kind = "close" -> OnStatusChange(c, "reconnecting")
                    [] OTHER -> IF ~ParseLiveEvent(e) THEN c
                                ELSE IF c.syncing # "no" THEN HoldBack(c, e)
                                ELSE ProcessEvent(c, e)
  BY Zenon DEF Deliver
<1>3. e \in Events /\ StreamOK(Tail(wire)) /\ (IsMarker(e) \/ ParseLiveEvent(e)) BY <1>1, StreamMoves
<1> HIDE DEF e
<1>4. Sound(c) /\ Changes(client, c, {"ref", "rendered"})
  <2>1. CASE c = client BY <2>1 DEF Sound, Changes
  <2>2. CASE c = Rendered(client) BY <2>2, RenderedSound
  <2> QED BY <2>1, <2>2
<1>5. CASE e.kind = "open"
  <2>1. client' = OnStatusChange(c, "connected") BY <1>2, <1>5
  <2>2. Sound(client') BY <1>4, <2>1, StatusDoes DEF Links
  <2>3. Delivers(client, client', e) BY <1>4, <1>5, <2>1, <2>2 DEF Delivers
  <2> QED BY <1>1, <1>3, <2>3 DEF e
<1>6. CASE e.kind = "close"
  <2>1. client' = OnStatusChange(c, "reconnecting") BY <1>2, <1>6
  <2>2. Sound(client') BY <1>4, <2>1, StatusDoes DEF Links
  <2>3. Delivers(client, client', e) BY <1>4, <1>6, <2>1, <2>2 DEF Delivers
  <2> QED BY <1>1, <1>3, <2>3 DEF e
<1>7. CASE ~IsMarker(e) /\ c.syncing # "no"
  <2>1. client' = HoldBack(c, e) BY <1>2, <1>3, <1>7 DEF IsMarker
  <2>2. Sound(client') /\ Changes(c, client', {"buffered"}) /\ client'.buffered = Append(c.buffered, e)
    BY <1>3, <1>4, <1>7, <2>1, HoldBackDoes
  <2>3. Delivers(client, client', e) BY <1>4, <1>7, <2>2 DEF Delivers
  <2> QED BY <1>1, <1>3, <2>3 DEF e
<1>8. CASE ~IsMarker(e) /\ c.syncing = "no"
  <2>1. client' = ProcessEvent(c, e) BY <1>2, <1>3, <1>8 DEF IsMarker
  <2>2. Sound(client') /\ Processes(c, e, client') BY <1>4, <1>8, <2>1, ProcessSound
  <2>3. Delivers(client, client', e) BY <1>4, <1>8, <2>2 DEF Delivers
  <2> QED BY <1>1, <1>3, <2>3 DEF e
<1> QED BY <1>5, <1>6, <1>7, <1>8 DEF IsMarker

-----------------------------------------------------------------------------
Typed == ServerOK /\ JournalOK /\ StreamOK(wire) /\ socket \in {"up", "down"} /\ Sound(client)

(* The page is well formed at first.                                       *)
LEMMA InitTyped == Init => Typed
<1> SUFFICES ASSUME Init PROVE Typed OBVIOUS
<1>1. ServerOK BY BoundsAreNumbers DEF Init, ServerOK, ServerType, Phases, RunsBehind
<1>2. JournalOK
  <2>1. PICK n \in Earlier : journal = [i \in 1..n |-> Record(i, "assistant_message", 0, 0)] BY DEF Init
  <2>2. n \in Nat BY BoundsAssumption
  <2>3. \A i \in 1..n : Record(i, "assistant_message", 0, 0) \in Records /\ Record(i, "assistant_message", 0, 0).seq = i
    BY <2>2 DEF Record, Records
  <2> QED BY <2>1, <2>2, <2>3 DEF JournalOK
<1>3. StreamOK(wire) /\ socket \in {"up", "down"} BY DEF Init, StreamOK
<1>4. Sound(client)
  <2> DEFINE c == client
  <2>1. IsClient(c) BY Zenon DEF Init, IsClient, ClientFields
  <2>2. /\ c.draining = FALSE /\ c.deferred = FALSE /\ c.selected = TRUE /\ c.link = "connected"
        /\ c.status = "connected" /\ c.syncing = "no" /\ c.buffered = <<>> /\ c.stateReq = None
        /\ c.historyReq = None /\ c.refetch = None /\ c.state = {Snapshot} /\ c.lost = {}
        /\ c.overlay = <<>> /\ c.ref = <<>>
    BY DEF Init
  <2> HIDE DEF c
  <2>3. <<>> \in Seq(Events) OBVIOUS
  <2>4. \E s : c.state = {s}
    <3> WITNESS Snapshot
    <3> QED BY <2>2
  <2>5. IsAnswer(c.stateReq) /\ IsAnswer(c.historyReq) /\ IsAnswer(c.refetch) BY <2>2, AnswerKinds
  <2>6. InPlace(c.overlay) /\ InPlace(c.ref) BY <2>2, EmptyInPlace
  <2>7. Truthful(c) BY <2>2 DEF Truthful
  <2>8. Sound(c) BY <2>1, <2>2, <2>3, <2>4, <2>5, <2>6, <2>7 DEF Sound, Links
  <2> QED BY <2>8 DEF c
<1> QED BY <1>1, <1>2, <1>3, <1>4 DEF Typed

(* The end of a resynchronisation keeps the client well formed, in one     *)
(* step.                                                                   *)
LEMMA FinishKeepsSound ==
  ASSUME NEW c, Sound(c), c.selected, NEW newest, NEW d, d = FinishResync(c, newest)
  PROVE  Sound(d)
BY FinishDoes, FinishSound

(* Every step keeps server, journal, stream and client well formed.        *)
LEMMA TypedHolds == Typed /\ [Next]_vars => Typed'
<1> SUFFICES ASSUME Typed, [Next]_vars PROVE Typed' OBVIOUS
<1>0. ServerOK /\ JournalOK /\ StreamOK(wire) /\ socket \in {"up", "down"} /\ Sound(client) BY DEF Typed
<1>1. CASE ServerWrites
  <2>1. ServerOK' /\ JournalOK' /\ StreamOK(wire') /\ socket' \in {"up", "down"} /\ client' = client
    BY <1>0, <1>1, ServerTells
  <2> QED BY <1>0, <2>1 DEF Typed
<1>2. ASSUME Sound(client'), UNCHANGED <<server, journal, wire, socket>> PROVE Typed'
  BY <1>0, <1>2 DEF Typed, ServerOK, JournalOK
<1>3. CASE ServerAnswers
  <2>1. Sound(client')
    BY <1>0, <1>3, AnswerStateDoes, AnswerHistoryDoes, AnswerRefetchDoes, AnswerFetchDoes DEF ServerAnswers
  <2>2. UNCHANGED <<server, journal, wire, socket>>
    BY <1>3, Zenon DEF ServerAnswers, AnswerState, AnswerHistory, AnswerRefetch, AnswerFetch
  <2> QED BY <1>2, <2>1, <2>2
<1>4. CASE Deliver
  <2>1. StreamOK(wire') /\ Sound(client')
    <3>1. StreamOK(wire') /\ Delivers(client, client', Head(wire)) BY <1>0, <1>4, DeliverDoes
    <3> QED BY <3>1 DEF Delivers
  <2>2. UNCHANGED <<server, journal, socket>> BY <1>4, Zenon DEF Deliver
  <2> QED BY <1>0, <2>1, <2>2 DEF Typed, ServerOK, JournalOK
<1>5. CASE ApplyResync
  <2>1. client.syncing = "requests" /\ ApplyResyncs(client, client') BY <1>0, <1>5, ApplyDoes
  <2>2. PICK m : /\ Applied(client, m)
                 /\ \/ \E newest : client' = FinishResync(m, newest)
                    \/ Sound(client')
    BY <2>1, Zenon DEF ApplyResyncs
  <2>3. Sound(m) /\ m.selected
    BY <1>0, <2>1, <2>2 DEF Applied, Changes, ClientFields, Sound
  <2>4. Sound(client') BY <2>2, <2>3, FinishKeepsSound
  <2>5. UNCHANGED <<server, journal, wire, socket>> BY <1>5, Zenon DEF ApplyResync
  <2> QED BY <1>2, <2>4, <2>5
<1>6. CASE LandFetch
  <2>1. LandsFetch(client, client') BY <1>0, <1>6, LandFetchDoes
  <2>2. PICK m : /\ Landed(client, m)
                 /\ \/ client.syncing = "refetch" /\ client' = FinishResync(m, HistoryNewestSeq(m.pages))
                    \/ client' = m
    BY <2>1, Zenon DEF LandsFetch
  <2>3. Sound(m) /\ (client.syncing = "refetch" => m.selected)
    BY <1>0, <2>2 DEF Landed, Changes, ClientFields, Sound
  <2>4. Sound(client') BY <2>2, <2>3, FinishKeepsSound
  <2>5. UNCHANGED <<server, journal, wire, socket>> BY <1>6, Zenon DEF LandFetch
  <2> QED BY <1>2, <2>4, <2>5
<1>7. CASE LandRefetch
  <2>1. Sound(client') BY <1>0, <1>7, LandRefetchDoes
  <2>2. UNCHANGED <<server, journal, wire, socket>> BY <1>7, Zenon DEF LandRefetch
  <2> QED BY <1>2, <2>1, <2>2
<1>8. CASE RefreshState \/ LoadOlder \/ OpenPage \/ ClosePage
  <2>1. Sound(client') BY <1>0, <1>8, RefreshDoes, LoadOlderDoes, OpenDoes, CloseDoes
  <2>2. UNCHANGED <<server, journal, wire, socket>>
    BY <1>8, Zenon DEF RefreshState, LoadOlder, OpenPage, ClosePage
  <2> QED BY <1>2, <2>1, <2>2
<1>9. CASE DropConnection
  <2>1. StreamOK(wire') BY <1>0, <1>9, StreamIsCut DEF DropConnection
  <2> QED BY <1>0, <1>9, <2>1 DEF Typed, ServerOK, JournalOK, DropConnection
<1>10. CASE Reconnect
  <2>1. StreamOK(wire') BY <1>10, StreamEnds DEF Reconnect
  <2> QED BY <1>0, <1>10, <2>1 DEF Typed, ServerOK, JournalOK, Reconnect
<1>11. CASE UNCHANGED vars
  <2>1. Sound(client') BY <1>0, <1>11 DEF vars
  <2> QED BY <1>2, <1>11, <2>1 DEF vars
<1> QED BY <1>1, <1>3, <1>4, <1>5, <1>6, <1>7, <1>8, <1>9, <1>10, <1>11 DEF Next, ClientSteps

(* They are well formed in every behaviour.                                *)
LEMMA TypedInvariant == Spec => []Typed
<1>1. Init => Typed BY InitTyped
<1>2. Typed /\ [Next]_vars => Typed' BY TypedHolds
<1> QED BY <1>1, <1>2, PTL DEF Spec

(* The type invariant of the model: Run, phase and approvals of the        *)
(* server, journal, stream, and the fields of LiveWebSocketProvider, whose *)
(* held-back events are there only during a resynchronisation and whose    *)
(* live records stand at their numbers.                                    *)
THEOREM SyncTypeCorrect == Spec => []SyncTypeOK
<1>1. Typed => SyncTypeOK
  <2> SUFFICES ASSUME Typed PROVE SyncTypeOK OBVIOUS
  <2>1. server.run \in 0..MaxRuns /\ server.phase \in Phases /\ server.approvals \subseteq {server.run}
    BY DEF Typed, ServerOK, ServerType
  <2>2. \A i \in DOMAIN journal : journal[i].seq = i BY DEF Typed, JournalOK
  <2>3. Cardinality(client.state) <= 1
    <3>1. PICK s : client.state = {s} BY DEF Typed, Sound
    <3>2. Cardinality({s}) = 1 BY FS_Singleton
    <3> QED BY <3>1, <3>2
  <2>4. /\ socket \in {"up", "down"} /\ client.syncing \in {"no", "requests", "refetch"}
        /\ \A s \in DOMAIN client.overlay : client.overlay[s].seq = s
        /\ client.buffered # <<>> => client.syncing # "no"
        /\ client.lost \subseteq {"reconnect", "state", "history"}
    BY DEF Typed, Sound, InPlace
  <2> QED BY <2>1, <2>2, <2>3, <2>4 DEF SyncTypeOK
<1> QED BY <1>1, TypedInvariant, PTL

(* The connection shown is the one there is: never connected while the     *)
(* stream is down, and connected once it is up and no resynchronisation is *)
(* under way (onStatusChange, startResync and finishResync set it).        *)
THEOREM ConnectionIsTold == Spec => []StatusTruthful
<1>1. Typed => StatusTruthful BY DEF Typed, Sound, Truthful, StatusTruthful
<1> QED BY <1>1, TypedInvariant, PTL

-----------------------------------------------------------------------------
(* What the events q still to come tell of the state v of the server, and  *)
(* of a snapshot s of it taken earlier.                                    *)
Tells(e, a) == IsState(e) /\ Aspect(e) = a
Untold(q, a) == \A i \in DOMAIN q : ~Tells(q[i], a)
Agree(s, v, a) == View(s, a) = View(v, a)
LastWord(v, q) ==
  \A i \in DOMAIN q :
    IsState(q[i]) /\ (\A j \in DOMAIN q : j > i => ~Tells(q[j], Aspect(q[i]))) => Says(q[i]) = View(v, Aspect(q[i]))
UpToDate(s, v, q) == \A a : IsAspect(a) /\ Untold(q, a) => Agree(s, v, a)
AsOf(t, v, q) ==
  \A a : IsAspect(a) /\ (\A i \in DOMAIN q : Tells(q[i], a) => q[i].of <= t.ver) => Agree(t, v, a)
Beyond(t, v, q) == v.ver > t.ver /\ \A i \in DOMAIN q : IsState(q[i]) => q[i].of > t.ver
Numbered(v, q) ==
  \A i \in DOMAIN q : IsState(q[i]) =>
    q[i].of <= v.ver /\ \A j \in DOMAIN q : j > i /\ IsState(q[j]) => q[j].of > q[i].of

(* The sequence r is q and then es; the sequence q is e and then r.        *)
Extended(q, es, r) ==
  /\ q \in Seq(Events) /\ es \in Seq(Events) /\ r \in Seq(Events) /\ Len(r) = Len(q) + Len(es)
  /\ \A i \in 1..Len(q) : r[i] = q[i]
  /\ \A i \in 1..Len(es) : r[Len(q) + i] = es[i]
Begins(q, e, r) ==
  /\ q \in Seq(Events) /\ r \in Seq(Events) /\ Len(q) = Len(r) + 1 /\ q[1] = e
  /\ \A i \in 1..Len(r) : q[i + 1] = r[i]

(* The version an event tells is a number.                                 *)
LEMMA OfIsNumber ==
  ASSUME NEW q, q \in Seq(Events), NEW i \in DOMAIN q
  PROVE  q[i].of \in Nat
<1>1. q[i] \in Events OBVIOUS
<1>2. \A e \in Events : e.of \in Nat BY DEF Events
<1> QED BY <1>1, <1>2

(* An event of an extended sequence is one it had or one that was added.   *)
LEMMA ExtendedAt ==
  ASSUME NEW q, NEW es, NEW r, Extended(q, es, r), NEW i \in DOMAIN r
  PROVE  \/ i \in DOMAIN q /\ r[i] = q[i]
         \/ \E k \in DOMAIN es : i = Len(q) + k /\ r[i] = es[k]
<1>1. Len(q) \in Nat /\ Len(es) \in Nat /\ i \in 1..(Len(q) + Len(es)) BY DEF Extended
<1>2. CASE i \in 1..Len(q) BY <1>2 DEF Extended
<1>3. CASE i \notin 1..Len(q)
  <2>1. i - Len(q) \in 1..Len(es) /\ i = Len(q) + (i - Len(q)) BY <1>1, <1>3
  <2>2. r[i] = es[i - Len(q)] BY <2>1 DEF Extended
  <2> QED BY <2>1, <2>2 DEF Extended
<1> QED BY <1>2, <1>3

(* The events of a sequence and of its extension.                          *)
LEMMA ExtendedIn ==
  ASSUME NEW q, NEW es, NEW r, Extended(q, es, r)
  PROVE  /\ Len(q) \in Nat /\ DOMAIN q \subseteq DOMAIN r
         /\ \A i \in DOMAIN q : i \in Nat /\ i <= Len(q) /\ r[i] = q[i]
         /\ \A k \in DOMAIN es : k \in Nat \ {0} /\ Len(q) + k \in DOMAIN r /\ r[Len(q) + k] = es[k]
<1>1. Len(q) \in Nat /\ Len(es) \in Nat /\ DOMAIN q = 1..Len(q) /\ DOMAIN es = 1..Len(es)
      /\ DOMAIN r = 1..(Len(q) + Len(es))
  BY DEF Extended
<1> QED BY <1>1 DEF Extended

(* The events of a sequence without its first.                             *)
LEMMA BeginsIn ==
  ASSUME NEW q, NEW e, NEW r, Begins(q, e, r)
  PROVE  /\ 1 \in DOMAIN q /\ q[1] = e
         /\ \A i \in DOMAIN r : i \in Nat \ {0} /\ i + 1 \in DOMAIN q /\ q[i + 1] = r[i]
         /\ \A i \in DOMAIN q : i = 1 \/ (i - 1 \in DOMAIN r /\ q[i] = r[i - 1] /\ i \in Nat /\ i > 1)
<1>1. Len(r) \in Nat /\ DOMAIN q = 1..(Len(r) + 1) /\ DOMAIN r = 1..Len(r) BY DEF Begins
<1>2. \A i \in DOMAIN r : i \in Nat \ {0} /\ i + 1 \in DOMAIN q /\ q[i + 1] = r[i] BY <1>1 DEF Begins
<1>3. ASSUME NEW i \in DOMAIN q, i # 1 PROVE i - 1 \in DOMAIN r /\ q[i] = r[i - 1] /\ i \in Nat /\ i > 1
  <2>1. i - 1 \in DOMAIN r /\ (i - 1) + 1 = i BY <1>1, <1>3
  <2> QED BY <1>1, <1>2, <1>3, <2>1
<1> QED BY <1>1, <1>2, <1>3 DEF Begins

-----------------------------------------------------------------------------
(* The server announces more.                                              *)
LEMMA NumberedGrows ==
  ASSUME NEW v, NEW u, NEW q, NEW es, NEW r, Extended(q, es, r), Announces(v, es, u), v.ver \in Nat, u.ver \in Nat,
         Numbered(v, q)
  PROVE  Numbered(u, r)
<1>1. \A i \in DOMAIN q : IsState(q[i]) => q[i].of <= u.ver /\ q[i].of <= v.ver /\ q[i].of \in Nat
  <2>1. \A i \in DOMAIN q : q[i].of \in Nat BY OfIsNumber DEF Extended
  <2> QED BY <2>1 DEF Numbered, Announces
<1>2. \A k \in DOMAIN es : IsState(es[k]) => es[k].of > v.ver /\ es[k].of <= u.ver /\ es[k].of \in Nat
  <2>1. \A k \in DOMAIN es : es[k].of \in Nat BY OfIsNumber DEF Extended
  <2> QED BY <2>1, Zenon DEF Announces
<1>3. \A k, l \in DOMAIN es : l > k /\ IsState(es[k]) /\ IsState(es[l]) => es[l].of > es[k].of
  <2>1. Len(es) \in Nat /\ Len(es) <= 2 /\ DOMAIN es = 1..Len(es) BY DEF Announces
  <2>2. Len(es) = 2 => es[1].of < es[2].of BY Zenon DEF Announces
  <2>3. ASSUME NEW k \in DOMAIN es, NEW l \in DOMAIN es, l > k PROVE Len(es) = 2 /\ k = 1 /\ l = 2
    BY <2>1, <2>3
  <2>4. Len(es) = 2 => es[1].of \in Int /\ es[2].of \in Int BY <2>1, OfIsNumber DEF Extended
  <2> QED BY <2>2, <2>3, <2>4
<1>4. ASSUME NEW i \in DOMAIN r, IsState(r[i])
      PROVE  r[i].of <= u.ver /\ \A j \in DOMAIN r : j > i /\ IsState(r[j]) => r[j].of > r[i].of
  <2>1. CASE i \in DOMAIN q /\ r[i] = q[i]
    <3>1. ASSUME NEW j \in DOMAIN r, j > i, IsState(r[j]) PROVE r[j].of > r[i].of
      <4>1. CASE j \in DOMAIN q /\ r[j] = q[j] BY <1>4, <2>1, <3>1, <4>1 DEF Numbered
      <4>2. CASE \E k \in DOMAIN es : j = Len(q) + k /\ r[j] = es[k] BY <1>1, <1>2, <1>4, <2>1, <3>1, <4>2
      <4> QED BY <4>1, <4>2, ExtendedAt
    <3> QED BY <1>1, <1>4, <2>1, <3>1
  <2>2. ASSUME NEW k \in DOMAIN es, i = Len(q) + k, r[i] = es[k]
        PROVE  r[i].of <= u.ver /\ \A j \in DOMAIN r : j > i /\ IsState(r[j]) => r[j].of > r[i].of
    <3>1. ASSUME NEW j \in DOMAIN r, j > i, IsState(r[j]) PROVE r[j].of > r[i].of
      <4>1. CASE j \in DOMAIN q /\ r[j] = q[j] BY <2>2, <3>1, <4>1, ExtendedIn
      <4>2. ASSUME NEW l \in DOMAIN es, j = Len(q) + l, r[j] = es[l] PROVE r[j].of > r[i].of
        <5>1. l > k BY <2>2, <3>1, <4>2, ExtendedIn
        <5> QED BY <1>3, <1>4, <2>2, <3>1, <4>2, <5>1
      <4> QED BY <4>1, <4>2, ExtendedAt
    <3> QED BY <1>2, <1>4, <2>2, <3>1
  <2> QED BY <2>1, <2>2, ExtendedAt
<1> QED BY <1>4 DEF Numbered

(* The last event about an aspect tells what it is, also after more        *)
(* events.                                                                 *)
LEMMA LastWordGrows ==
  ASSUME NEW v, NEW u, NEW q, NEW es, NEW r, Extended(q, es, r), Announces(v, es, u), LastWord(v, q)
  PROVE  LastWord(u, r)
<1>1. \A k \in DOMAIN es : IsState(es[k]) => Says(es[k]) = View(u, Aspect(es[k])) BY Zenon DEF Announces
<1>2. \A a : IsAspect(a) /\ (\A k \in DOMAIN es : IsState(es[k]) => Aspect(es[k]) # a) => View(u, a) = View(v, a)
  BY Zenon DEF Announces
<1>3. \A e : IsAspect(Aspect(e)) BY DEF Aspect, IsAspect
<1>4. ASSUME NEW i \in DOMAIN r, IsState(r[i]), \A j \in DOMAIN r : j > i => ~Tells(r[j], Aspect(r[i]))
      PROVE  Says(r[i]) = View(u, Aspect(r[i]))
  <2>1. CASE i \in DOMAIN q /\ r[i] = q[i]
    <3>1. \A j \in DOMAIN q : j > i => ~Tells(q[j], Aspect(q[i])) BY <1>4, <2>1, ExtendedIn
    <3>2. Says(q[i]) = View(v, Aspect(q[i])) BY <1>4, <2>1, <3>1 DEF LastWord
    <3>3. ASSUME NEW k \in DOMAIN es PROVE ~Tells(es[k], Aspect(r[i]))
      <4>1. Len(q) + k > i /\ Len(q) + k \in DOMAIN r /\ r[Len(q) + k] = es[k] BY <2>1, ExtendedIn
      <4> QED BY <1>4, <4>1
    <3>4. View(u, Aspect(q[i])) = View(v, Aspect(q[i])) BY <1>2, <1>3, <2>1, <3>3 DEF Tells
    <3> QED BY <2>1, <3>2, <3>4
  <2>2. CASE \E k \in DOMAIN es : i = Len(q) + k /\ r[i] = es[k] BY <1>1, <1>4, <2>2
  <2> QED BY <2>1, <2>2, ExtendedAt
<1> QED BY <1>4 DEF LastWord

(* What an extended sequence does not tell none of its parts tells.        *)
LEMMA UntoldShrinks ==
  ASSUME NEW q, NEW es, NEW r, Extended(q, es, r), NEW a, Untold(r, a)
  PROVE  Untold(q, a) /\ \A k \in DOMAIN es : ~Tells(es[k], a)
BY ExtendedIn DEF Untold

(* A snapshot that lacks only what events tell lacks only that after a     *)
(* step of the server.                                                     *)
LEMMA UpToDateGrows ==
  ASSUME NEW v, NEW u, NEW q, NEW es, NEW r, Extended(q, es, r), Announces(v, es, u), NEW s, UpToDate(s, v, q)
  PROVE  UpToDate(s, u, r)
<1>2. \A a : IsAspect(a) /\ (\A k \in DOMAIN es : IsState(es[k]) => Aspect(es[k]) # a) => View(u, a) = View(v, a)
  BY Zenon DEF Announces
<1>3. ASSUME NEW a, IsAspect(a), Untold(r, a) PROVE Agree(s, u, a)
  <2>1. Untold(q, a) /\ \A k \in DOMAIN es : ~Tells(es[k], a) BY <1>3, UntoldShrinks
  <2>2. View(u, a) = View(v, a) BY <1>2, <1>3, <2>1 DEF Tells
  <2> QED BY <1>3, <2>1, <2>2 DEF UpToDate, Agree
<1> QED BY <1>3 DEF UpToDate

(* The same of a snapshot that lacks only what newer events tell.          *)
LEMMA AsOfGrows ==
  ASSUME NEW v, NEW u, NEW q, NEW es, NEW r, Extended(q, es, r), Announces(v, es, u), NEW t, AsOf(t, v, q),
         v.ver \in Nat, t.ver \in Nat, t.ver <= v.ver
  PROVE  AsOf(t, u, r)
<1>2. \A a : IsAspect(a) /\ (\A k \in DOMAIN es : IsState(es[k]) => Aspect(es[k]) # a) => View(u, a) = View(v, a)
  BY Zenon DEF Announces
<1>3. ASSUME NEW a, IsAspect(a), \A i \in DOMAIN r : Tells(r[i], a) => r[i].of <= t.ver PROVE Agree(t, u, a)
  <2>1. \A i \in DOMAIN q : Tells(q[i], a) => q[i].of <= t.ver BY <1>3, ExtendedIn
  <2>2. ASSUME NEW k \in DOMAIN es, Tells(es[k], a) PROVE FALSE
    <3>1. es[k].of <= t.ver BY <1>3, <2>2, ExtendedIn
    <3>2. es[k].of > v.ver BY <2>2, Zenon DEF Announces, Tells
    <3>3. es[k].of \in Nat BY OfIsNumber DEF Extended
    <3> QED BY <3>1, <3>2, <3>3
  <2>3. View(u, a) = View(v, a) BY <1>2, <1>3, <2>2 DEF Tells
  <2> QED BY <1>3, <2>1, <2>3 DEF AsOf, Agree
<1> QED BY <1>3 DEF AsOf

(* Events that are all newer than a snapshot stay so.                      *)
LEMMA BeyondGrows ==
  ASSUME NEW v, NEW u, NEW q, NEW es, NEW r, Extended(q, es, r), Announces(v, es, u), NEW t, Beyond(t, v, q),
         v.ver \in Nat, u.ver \in Nat, t.ver \in Nat
  PROVE  Beyond(t, u, r)
<1>1. v.ver > t.ver /\ u.ver > t.ver BY DEF Beyond, Announces
<1>2. ASSUME NEW i \in DOMAIN r, IsState(r[i]) PROVE r[i].of > t.ver
  <2>1. CASE i \in DOMAIN q /\ r[i] = q[i] BY <1>2, <2>1 DEF Beyond
  <2>2. ASSUME NEW k \in DOMAIN es, r[i] = es[k] PROVE r[i].of > t.ver
    <3>1. es[k].of > v.ver BY <1>2, <2>2, Zenon DEF Announces
    <3>2. es[k].of \in Nat BY OfIsNumber DEF Extended
    <3> QED BY <1>1, <2>2, <3>1, <3>2
  <2> QED BY <2>1, <2>2, ExtendedAt
<1> QED BY <1>1, <1>2 DEF Beyond

-----------------------------------------------------------------------------
(* The first event goes.                                                   *)
LEMMA NumberedShrinks ==
  ASSUME NEW v, NEW q, NEW e, NEW r, Begins(q, e, r), Numbered(v, q)
  PROVE  Numbered(v, r)
<1>1. ASSUME NEW i \in DOMAIN r, IsState(r[i])
      PROVE  r[i].of <= v.ver /\ \A j \in DOMAIN r : j > i /\ IsState(r[j]) => r[j].of > r[i].of
  <2>1. i + 1 \in DOMAIN q /\ q[i + 1] = r[i] BY BeginsIn
  <2>2. ASSUME NEW j \in DOMAIN r, j > i, IsState(r[j]) PROVE r[j].of > r[i].of
    <3>1. j + 1 \in DOMAIN q /\ q[j + 1] = r[j] /\ j + 1 > i + 1 BY <2>2, BeginsIn
    <3> QED BY <1>1, <2>1, <2>2, <3>1 DEF Numbered
  <2> QED BY <1>1, <2>1, <2>2 DEF Numbered
<1> QED BY <1>1 DEF Numbered

(* The last event about an aspect tells what it is, also when the first    *)
(* event is gone.                                                          *)
LEMMA LastWordShrinks ==
  ASSUME NEW v, NEW q, NEW e, NEW r, Begins(q, e, r), LastWord(v, q)
  PROVE  LastWord(v, r)
<1>1. ASSUME NEW i \in DOMAIN r, IsState(r[i]), \A j \in DOMAIN r : j > i => ~Tells(r[j], Aspect(r[i]))
      PROVE  Says(r[i]) = View(v, Aspect(r[i]))
  <2>1. i + 1 \in DOMAIN q /\ q[i + 1] = r[i] /\ i \in Nat BY BeginsIn
  <2>2. ASSUME NEW j \in DOMAIN q, j > i + 1 PROVE ~Tells(q[j], Aspect(q[i + 1]))
    <3>1. j - 1 \in DOMAIN r /\ q[j] = r[j - 1] /\ j - 1 > i BY <2>1, <2>2, BeginsIn
    <3> QED BY <1>1, <2>1, <3>1
  <2> QED BY <1>1, <2>1, <2>2 DEF LastWord
<1> QED BY <1>1 DEF LastWord

(* What neither an event nor the ones behind it tell.                      *)
LEMMA UntoldGrows ==
  ASSUME NEW q, NEW e, NEW r, Begins(q, e, r), NEW a, Untold(r, a), ~Tells(e, a)
  PROVE  Untold(q, a)
BY BeginsIn DEF Untold

(* The last event about an aspect tells what it is, when it is the next.   *)
LEMMA LastOfAll ==
  ASSUME NEW v, NEW q, NEW e, NEW r, Begins(q, e, r), LastWord(v, q), IsState(e), Untold(r, Aspect(e))
  PROVE  Says(e) = View(v, Aspect(e))
<1>1. 1 \in DOMAIN q /\ q[1] = e BY BeginsIn
<1>2. ASSUME NEW j \in DOMAIN q, j > 1 PROVE ~Tells(q[j], Aspect(q[1]))
  <2>1. j - 1 \in DOMAIN r /\ q[j] = r[j - 1] BY <1>2, BeginsIn
  <2> QED BY <1>1, <2>1 DEF Untold
<1> QED BY <1>1, <1>2 DEF LastWord

(* A snapshot that is at least as new as the next event lacks nothing by   *)
(* its going.                                                              *)
LEMMA AsOfShrinks ==
  ASSUME NEW v, NEW q, NEW e, NEW r, Begins(q, e, r), NEW t, AsOf(t, v, q), ~IsState(e) \/ e.of <= t.ver
  PROVE  AsOf(t, v, r)
<1>1. ASSUME NEW a, IsAspect(a), \A i \in DOMAIN r : Tells(r[i], a) => r[i].of <= t.ver PROVE Agree(t, v, a)
  <2>1. ASSUME NEW i \in DOMAIN q, Tells(q[i], a) PROVE q[i].of <= t.ver
    <3>1. CASE i = 1 BY <2>1, <3>1, BeginsIn DEF Tells
    <3>2. CASE i # 1
      <4>1. i - 1 \in DOMAIN r /\ q[i] = r[i - 1] BY <3>2, BeginsIn
      <4> QED BY <1>1, <2>1, <4>1
    <3> QED BY <3>1, <3>2
  <2> QED BY <1>1, <2>1 DEF AsOf
<1> QED BY <1>1 DEF AsOf

(* Events that are all newer than a snapshot stay so when the first goes.  *)
LEMMA BeyondShrinks ==
  ASSUME NEW v, NEW q, NEW e, NEW r, Begins(q, e, r), NEW t, Beyond(t, v, q)
  PROVE  Beyond(t, v, r)
BY BeginsIn DEF Beyond

(* After an event newer than a snapshot all are newer.                     *)
LEMMA BeyondNow ==
  ASSUME NEW v, NEW q, NEW e, NEW r, Begins(q, e, r), NEW t, Numbered(v, q), IsState(e), e.of > t.ver,
         v.ver \in Nat, t.ver \in Nat
  PROVE  Beyond(t, v, r)
<1>1. 1 \in DOMAIN q /\ q[1] = e /\ e.of \in Nat
  <2>1. 1 \in DOMAIN q /\ q[1] = e BY BeginsIn
  <2>2. \A i \in DOMAIN q : q[i].of \in Nat BY OfIsNumber DEF Begins
  <2> QED BY <2>1, <2>2
<1>2. e.of <= v.ver /\ \A j \in DOMAIN q : j > 1 /\ IsState(q[j]) => q[j].of > e.of BY <1>1 DEF Numbered
<1>3. ASSUME NEW i \in DOMAIN r, IsState(r[i]) PROVE r[i].of > t.ver
  <2>1. i + 1 \in DOMAIN q /\ q[i + 1] = r[i] /\ i + 1 > 1 BY BeginsIn
  <2>2. r[i].of > e.of BY <1>2, <1>3, <2>1
  <2>3. r[i].of \in Nat BY OfIsNumber DEF Begins
  <2> QED BY <1>1, <2>2, <2>3
<1>4. v.ver > t.ver BY <1>1, <1>2
<1> QED BY <1>3, <1>4 DEF Beyond

-----------------------------------------------------------------------------
SnapFields == {"run", "phase", "approvals", "ver"}
IsSnapshot(s) == s = [f \in SnapFields |-> s[f]] /\ s.ver \in Nat

(* An event changes the one aspect of a cached state that it tells.        *)
LEMMA ChangedDoes ==
  ASSUME NEW s, IsSnapshot(s), NEW e \in Events, IsState(e), NEW d, d = Changed(s, e)
  PROVE  /\ IsSnapshot(d) /\ d.ver = e.of
         /\ View(d, Aspect(e)) = Says(e)
         /\ \A a : IsAspect(a) /\ a # Aspect(e) => View(d, a) = View(s, a)
<1> DEFINE ver == [s EXCEPT !.ver = e.of]
<1>1. ver = [f \in SnapFields |-> ver[f]] /\ ver.ver = e.of /\ ver.run = s.run /\ ver.phase = s.phase
      /\ ver.approvals = s.approvals
  BY Zenon DEF IsSnapshot, SnapFields
<1>2. e.of \in Nat BY DEF Events
<1>3. d = CASE e.kind = "runtime_state" -> [ver EXCEPT !.run = e.run, !.phase = e.type]
            [] e.kind = "approval_required" -> [ver EXCEPT !.approvals = @ \cup {e.run}]
            [] OTHER -> [ver EXCEPT !.approvals = @ \ {e.run}]
  BY DEF Changed
<1> HIDE DEF ver
<1>4. CASE e.kind = "runtime_state"
  <2>1. d = [ver EXCEPT !.run = e.run, !.phase = e.type] BY <1>3, <1>4
  <2>2. d = [f \in SnapFields |-> d[f]] /\ d.ver = e.of /\ d.run = e.run /\ d.phase = e.type
        /\ d.approvals = s.approvals
    BY <1>1, <2>1, Zenon DEF SnapFields
  <2>3. Aspect(e) = {} /\ Says(e) = <<e.run, e.type>> BY <1>4 DEF Aspect, Says
  <2> QED BY <1>2, <2>2, <2>3 DEF IsSnapshot, View
<1>5. CASE e.kind = "approval_required"
  <2>1. d = [ver EXCEPT !.approvals = @ \cup {e.run}] BY <1>3, <1>5
  <2>2. d = [f \in SnapFields |-> d[f]] /\ d.ver = e.of /\ d.run = s.run /\ d.phase = s.phase
        /\ d.approvals = s.approvals \cup {e.run}
    BY <1>1, <2>1, Zenon DEF SnapFields
  <2>3. Aspect(e) = {e.run} /\ Says(e) = <<1, "">> BY <1>5 DEF Aspect, Says
  <2>4. View(d, Aspect(e)) = Says(e) BY <2>2, <2>3 DEF View
  <2>5. ASSUME NEW a, IsAspect(a), a # {e.run} PROVE View(d, a) = View(s, a)
    <3>1. CASE a = {} BY <2>2, <3>1 DEF View
    <3>2. CASE a # {}
      <4>1. PICK x : a = {x} BY <2>5, <3>2 DEF IsAspect
      <4>2. (a \subseteq d.approvals) <=> (a \subseteq s.approvals) BY <2>2, <2>5, <4>1
      <4> QED BY <3>2, <4>2 DEF View
    <3> QED BY <3>1, <3>2
  <2> QED BY <1>2, <2>2, <2>3, <2>4, <2>5 DEF IsSnapshot
<1>6. CASE e.kind \notin {"runtime_state", "approval_required"}
  <2>1. d = [ver EXCEPT !.approvals = @ \ {e.run}] BY <1>3, <1>6
  <2>2. d = [f \in SnapFields |-> d[f]] /\ d.ver = e.of /\ d.run = s.run /\ d.phase = s.phase
        /\ d.approvals = s.approvals \ {e.run}
    BY <1>1, <2>1, Zenon DEF SnapFields
  <2>3. Aspect(e) = {e.run} /\ Says(e) = <<0, "">> BY <1>6 DEF Aspect, Says
  <2>4. View(d, Aspect(e)) = Says(e) BY <2>2, <2>3 DEF View
  <2>5. ASSUME NEW a, IsAspect(a), a # {e.run} PROVE View(d, a) = View(s, a)
    <3>1. CASE a = {} BY <2>2, <3>1 DEF View
    <3>2. CASE a # {}
      <4>1. PICK x : a = {x} BY <2>5, <3>2 DEF IsAspect
      <4>2. (a \subseteq d.approvals) <=> (a \subseteq s.approvals) BY <2>2, <2>5, <4>1
      <4> QED BY <3>2, <4>2 DEF View
    <3> QED BY <3>1, <3>2
  <2> QED BY <1>2, <2>2, <2>3, <2>4, <2>5 DEF IsSnapshot
<1> QED BY <1>4, <1>5, <1>6

(* A cached state that follows the events follows them after the next.     *)
LEMMA ChangedUpToDate ==
  ASSUME NEW v, NEW q, NEW e \in Events, NEW r, Begins(q, e, r), LastWord(v, q), IsState(e),
         NEW s, IsSnapshot(s), UpToDate(s, v, q)
  PROVE  UpToDate(Changed(s, e), v, r)
<1> DEFINE d == Changed(s, e)
<1>1. View(d, Aspect(e)) = Says(e) /\ \A a : IsAspect(a) /\ a # Aspect(e) => View(d, a) = View(s, a)
  BY ChangedDoes
<1> HIDE DEF d
<1>2. ASSUME NEW a, IsAspect(a), Untold(r, a) PROVE Agree(d, v, a)
  <2>1. CASE a = Aspect(e)
    <3>1. Says(e) = View(v, a) BY <1>2, <2>1, LastOfAll
    <3> QED BY <1>1, <2>1, <3>1 DEF Agree
  <2>2. CASE a # Aspect(e)
    <3>1. Untold(q, a) BY <1>2, <2>2, UntoldGrows DEF Tells
    <3> QED BY <1>1, <1>2, <2>2, <3>1 DEF UpToDate, Agree
  <2> QED BY <2>1, <2>2
<1> QED BY <1>2 DEF UpToDate, d

(* An event that tells nothing of the state may be skipped.                *)
LEMMA SilentUpToDate ==
  ASSUME NEW v, NEW q, NEW e, NEW r, Begins(q, e, r), ~IsState(e), NEW s, UpToDate(s, v, q)
  PROVE  UpToDate(s, v, r)
<1>1. ASSUME NEW a, Untold(r, a) PROVE Untold(q, a) BY <1>1, UntoldGrows DEF Tells
<1> QED BY <1>1 DEF UpToDate

-----------------------------------------------------------------------------
(* A snapshot on its way that events overtook is older than what the page  *)
(* shows.                                                                  *)
Overtaken(t, v, q, c) ==
  /\ Beyond(t, v, q)
  /\ \A s \in c.stateReq.val : s.ver > t.ver
  /\ c.syncing = "requests" \/ "state" \in c.lost \/ \A s \in c.state : s.ver > t.ver
Followed(v, q, c) ==
  /\ Numbered(v, q) /\ LastWord(v, q)
  /\ \A s \in c.stateReq.val : UpToDate(s, v, q)
  /\ c.syncing # "requests" /\ "state" \notin c.lost => \A s \in c.state : UpToDate(s, v, q)
  /\ \A t \in c.refetch.val : AsOf(t, v, q) \/ Overtaken(t, v, q, c)
Snapshots(v, c) ==
  /\ \A s \in c.state : IsSnapshot(s)
  /\ \A s \in c.stateReq.val : IsSnapshot(s)
  /\ \A t \in c.refetch.val : IsSnapshot(t) /\ t.ver <= v.ver /\ (t.ver = v.ver => \A a : IsAspect(a) => Agree(t, v, a))
Streams(v, w, c) ==
  Numbered(v, w) /\ LastWord(v, w) /\ \A t \in c.refetch.val : AsOf(t, v, w) \/ Beyond(t, v, w)

(* What an event leaves in the cache of the state and in the read of its   *)
(* own.                                                                    *)
LEMMA ProcessStates ==
  ASSUME NEW c, NEW e \in Events, NEW d, Processes(c, e, d), NEW s, c.state = {s}
  PROVE  /\ IsState(e) => d.state = {Changed(s, e)}
         /\ ~IsState(e) => d.state = {s}
         /\ d.refetch.val = c.refetch.val \/ d.refetch.val = {}
BY SlotFields DEF Processes, IsState

(* The snapshots stay snapshots when an event is processed.                *)
LEMMA ProcessSnapshots ==
  ASSUME NEW c, NEW e \in Events, NEW d, Processes(c, e, d), NEW s, c.state = {s}, NEW v, Snapshots(v, c),
         d.stateReq.val \subseteq c.stateReq.val
  PROVE  Snapshots(v, d)
<1>0. /\ IsState(e) => d.state = {Changed(s, e)}
      /\ ~IsState(e) => d.state = {s}
      /\ d.refetch.val = c.refetch.val \/ d.refetch.val = {}
  BY ProcessStates
<1>1. IsSnapshot(s) BY DEF Snapshots
<1>2. \A z \in d.state : IsSnapshot(z)
  <2>1. CASE IsState(e)
    <3>1. IsSnapshot(Changed(s, e))
      <4> DEFINE z == Changed(s, e)
      <4>1. z = Changed(s, e) OBVIOUS
      <4> HIDE DEF z
      <4>2. IsSnapshot(z) BY <1>1, <2>1, <4>1, ChangedDoes
      <4> QED BY <4>1, <4>2
    <3>2. d.state = {Changed(s, e)} BY <1>0, <2>1
    <3> QED BY <3>1, <3>2
  <2>2. CASE ~IsState(e)
    <3>1. d.state = {s} BY <1>0, <2>2
    <3> QED BY <1>1, <3>1
  <2> QED BY <2>1, <2>2
<1>3. d.refetch.val \subseteq c.refetch.val BY <1>0
<1> QED BY <1>2, <1>3 DEF Snapshots

(* A client that follows the stream follows it after the next event is     *)
(* processed, unless that starts a resynchronisation.                      *)
LEMMA ProcessFollows ==
  ASSUME NEW c, NEW e \in Events, NEW d, Processes(c, e, d), NoResync(c, d), c.syncing # "requests",
         c.stateReq.val = {}, NEW s, c.state = {s}, NEW v, v.ver \in Nat, Snapshots(v, c),
         NEW q, NEW r, Begins(q, e, r), Followed(v, q, c)
  PROVE  Followed(v, r, d)
<1>1. d.syncing = c.syncing /\ d.stateReq.val = {} /\ d.lost = c.lost BY DEF NoResync
<1>2. /\ IsState(e) => d.state = {Changed(s, e)}
      /\ ~IsState(e) => d.state = {s}
  BY ProcessStates
<1>3. d.refetch.val = c.refetch.val \/ d.refetch.val = {} BY ProcessStates
<1>4. IsSnapshot(s) BY DEF Snapshots
<1>5. Numbered(v, r) /\ LastWord(v, r) BY NumberedShrinks, LastWordShrinks DEF Followed
<1>6. ASSUME "state" \notin c.lost PROVE \A z \in d.state : UpToDate(z, v, r)
  <2>1. UpToDate(s, v, q) BY <1>6 DEF Followed
  <2>2. CASE IsState(e) BY <1>2, <1>4, <2>1, <2>2, ChangedUpToDate DEF Followed
  <2>3. CASE ~IsState(e) BY <1>2, <2>1, <2>3, SilentUpToDate
  <2> QED BY <2>2, <2>3
<1>7. ASSUME NEW t \in d.refetch.val PROVE AsOf(t, v, r) \/ Overtaken(t, v, r, d)
  <2>1. t \in c.refetch.val /\ IsSnapshot(t) /\ t.ver \in Nat BY <1>3, <1>7 DEF Snapshots, IsSnapshot
  <2>2. CASE AsOf(t, v, q) /\ (~IsState(e) \/ e.of <= t.ver) BY <2>2, AsOfShrinks
  <2>3. CASE AsOf(t, v, q) /\ IsState(e) /\ ~(e.of <= t.ver)
    <3>0. e.of \in Nat BY DEF Events
    <3>1. e.of > t.ver BY <2>1, <2>3, <3>0
    <3>2. Beyond(t, v, r) BY <2>1, <2>3, <3>1, BeyondNow DEF Followed
    <3>3. \A z \in d.state : z.ver > t.ver BY <1>2, <1>4, <2>3, <3>1, ChangedDoes
    <3> QED BY <1>1, <3>2, <3>3 DEF Overtaken
  <2>4. CASE Overtaken(t, v, q, c)
    <3>1. Beyond(t, v, r) BY <2>4, BeyondShrinks DEF Overtaken
    <3>2. IsState(e) => e.of > t.ver BY <2>4, BeginsIn DEF Overtaken, Beyond
    <3>3. "state" \in c.lost \/ s.ver > t.ver BY <2>4 DEF Overtaken
    <3>4. "state" \in d.lost \/ \A z \in d.state : z.ver > t.ver
      <4>1. CASE IsState(e) BY <1>2, <1>4, <3>2, <4>1, ChangedDoes
      <4>2. CASE ~IsState(e) BY <1>1, <1>2, <3>3, <4>2
      <4> QED BY <4>1, <4>2
    <3> QED BY <1>1, <3>1, <3>4 DEF Overtaken
  <2> QED BY <2>1, <2>2, <2>3, <2>4 DEF Followed
<1> QED BY <1>1, <1>5, <1>6, <1>7 DEF Followed

(* A client that has just started a resynchronisation follows what comes   *)
(* from then on.                                                           *)
LEMMA FreshFollows ==
  ASSUME NEW v, NEW w, NEW d, Streams(v, w, d), d.syncing = "requests", d.stateReq = Asked
  PROVE  Followed(v, w, d)
<1>1. d.stateReq.val = {} BY SlotFields
<1> QED BY <1>1 DEF Followed, Streams, Overtaken

(* The stream and a read of the state under way do not depend on the rest  *)
(* of the client.                                                          *)
LEMMA StreamsAlike ==
  ASSUME NEW v, NEW w, NEW c, Streams(v, w, c), NEW d, d.refetch.val \subseteq c.refetch.val
  PROVE  Streams(v, w, d)
BY DEF Streams

(* They stay right when the next event is taken from the stream.           *)
LEMMA StreamsShrink ==
  ASSUME NEW v, v.ver \in Nat, NEW q, NEW e, NEW r, Begins(q, e, r), e \in Events,
         NEW c, Streams(v, q, c), Snapshots(v, c)
  PROVE  Streams(v, r, c)
<1>1. Numbered(v, r) /\ LastWord(v, r) BY NumberedShrinks, LastWordShrinks DEF Streams
<1>2. ASSUME NEW t \in c.refetch.val PROVE AsOf(t, v, r) \/ Beyond(t, v, r)
  <2>1. t.ver \in Nat BY DEF Snapshots, IsSnapshot
  <2>2. CASE AsOf(t, v, q) /\ (~IsState(e) \/ e.of <= t.ver) BY <2>2, AsOfShrinks
  <2>3. CASE AsOf(t, v, q) /\ IsState(e) /\ ~(e.of <= t.ver)
    <3>0. e.of \in Nat BY DEF Events
    <3>1. e.of > t.ver BY <2>1, <2>3, <3>0
    <3> QED BY <2>1, <2>3, <3>1, BeyondNow DEF Streams
  <2>4. CASE Beyond(t, v, q) BY <2>4, BeyondShrinks
  <2> QED BY <2>2, <2>3, <2>4 DEF Streams
<1> QED BY <1>1, <1>2 DEF Streams

-----------------------------------------------------------------------------
(* Sequences of events: taking the first, holding it back, adding more.    *)
LEMMA HeadBegins ==
  ASSUME NEW w \in Seq(Events), w # <<>>
  PROVE  Begins(w, Head(w), Tail(w))
<1>1. /\ Tail(w) \in Seq(Events) /\ Len(Tail(w)) = Len(w) - 1 /\ Len(w) \in Nat \ {0} /\ w[1] = Head(w)
      /\ \A i \in 1..Len(Tail(w)) : Tail(w)[i] = w[i + 1]
  BY HeadTailProperties
<1> QED BY <1>1 DEF Begins

(* The events of two sequences joined.                                     *)
LEMMA Joined ==
  ASSUME NEW b \in Seq(Events), NEW w \in Seq(Events), NEW q, q = b \o w
  PROVE  /\ q \in Seq(Events) /\ Len(q) = Len(b) + Len(w)
         /\ \A i \in 1..Len(b) : q[i] = b[i]
         /\ \A i \in 1..Len(w) : q[Len(b) + i] = w[i]
<1>1. /\ q \in Seq(Events) /\ Len(q) = Len(b) + Len(w)
      /\ \A i \in 1..(Len(b) + Len(w)) : q[i] = IF i <= Len(b) THEN b[i] ELSE w[i - Len(b)]
  BY ConcatProperties
<1>2. Len(b) \in Nat /\ Len(w) \in Nat OBVIOUS
<1>3. ASSUME NEW i \in 1..Len(b) PROVE q[i] = b[i] BY <1>1, <1>2, <1>3
<1>4. ASSUME NEW i \in 1..Len(w) PROVE q[Len(b) + i] = w[i]
  <2>1. Len(b) + i \in 1..(Len(b) + Len(w)) /\ ~(Len(b) + i <= Len(b)) /\ (Len(b) + i) - Len(b) = i
    BY <1>2, <1>4
  <2> QED BY <1>1, <2>1
<1> QED BY <1>1, <1>3, <1>4

(* The same for all pairs of sequences.                                    *)
LEMMA JoinedAll ==
  \A b, w \in Seq(Events) :
    /\ b \o w \in Seq(Events) /\ Len(b \o w) = Len(b) + Len(w)
    /\ \A i \in 1..Len(b) : (b \o w)[i] = b[i]
    /\ \A i \in 1..Len(w) : (b \o w)[Len(b) + i] = w[i]
<1> TAKE b, w \in Seq(Events)
<1> DEFINE q == b \o w
<1>1. q = b \o w OBVIOUS
<1> HIDE DEF q
<1>2. /\ q \in Seq(Events) /\ Len(q) = Len(b) + Len(w)
      /\ \A i \in 1..Len(b) : q[i] = b[i]
      /\ \A i \in 1..Len(w) : q[Len(b) + i] = w[i]
  BY <1>1, Joined
<1> QED BY <1>1, <1>2

(* Nothing before a sequence.                                              *)
LEMMA NothingHeld ==
  ASSUME NEW w \in Seq(Events)
  PROVE  <<>> \o w = w
BY ConcatEmptySeq

(* An event that goes from the stream to the end of the held-back events   *)
(* stays where it was in both together.                                    *)
LEMMA HeldBack ==
  ASSUME NEW b \in Seq(Events), NEW w \in Seq(Events), w # <<>>
  PROVE  Append(b, Head(w)) \o Tail(w) = b \o w
<1> DEFINE x == Append(b, Head(w))
           y == Tail(w)
           q == x \o y
           r == b \o w
<1>1. /\ y \in Seq(Events) /\ Len(y) = Len(w) - 1 /\ Len(w) \in Nat \ {0} /\ w[1] = Head(w)
      /\ Head(w) \in Events /\ \A i \in 1..Len(y) : y[i] = w[i + 1]
  BY HeadTailProperties
<1>2. /\ x \in Seq(Events) /\ Len(x) = Len(b) + 1 /\ x[Len(b) + 1] = Head(w)
      /\ \A i \in 1..Len(b) : x[i] = b[i]
  BY <1>1, AppendProperties
<1> HIDE DEF x, y
<1>3. /\ q \in Seq(Events) /\ Len(q) = Len(x) + Len(y)
      /\ \A i \in 1..Len(x) : q[i] = x[i]
      /\ \A i \in 1..Len(y) : q[Len(x) + i] = y[i]
  BY <1>1, <1>2, JoinedAll
<1>4. /\ r \in Seq(Events) /\ Len(r) = Len(b) + Len(w)
      /\ \A i \in 1..Len(b) : r[i] = b[i]
      /\ \A i \in 1..Len(w) : r[Len(b) + i] = w[i]
  BY Joined
<1> HIDE DEF q, r
<1>5. Len(b) \in Nat OBVIOUS
<1>6. ASSUME NEW i \in 1..Len(r) PROVE q[i] = r[i]
  <2>1. CASE i <= Len(b)
    <3>1. i \in 1..Len(b) /\ i \in 1..Len(x) BY <1>2, <1>4, <1>5, <1>6, <2>1
    <3> QED BY <1>2, <1>3, <1>4, <3>1
  <2>2. CASE i = Len(b) + 1
    <3>1. i \in 1..Len(x) /\ 1 \in 1..Len(w) BY <1>1, <1>2, <1>5, <2>2
    <3> QED BY <1>1, <1>2, <1>3, <1>4, <2>2, <3>1
  <2>3. CASE i > Len(b) + 1
    <3>1. PICK k \in 1..Len(y) : i = Len(x) + k
      <4>1. i - Len(x) \in 1..Len(y) /\ i = Len(x) + (i - Len(x)) BY <1>1, <1>2, <1>4, <1>5, <1>6, <2>3
      <4> QED BY <4>1
    <3>2. k + 1 \in 1..Len(w) /\ i = Len(b) + (k + 1) BY <1>1, <1>2, <1>5, <3>1
    <3>3. q[i] = y[k] /\ y[k] = w[k + 1] BY <1>1, <1>3, <3>1
    <3>4. r[i] = w[k + 1] BY <1>4, <3>2
    <3> QED BY <3>3, <3>4
  <2> QED BY <1>5, <1>6, <2>1, <2>2, <2>3
<1>7. Len(q) = Len(r) BY <1>1, <1>2, <1>3, <1>4, <1>5
<1>8. q = r
  <2>1. \A a, c \in Seq(Events) : Len(a) = Len(c) /\ (\A i \in 1..Len(c) : a[i] = c[i]) => a = c BY SeqEqual
  <2> QED BY <1>3, <1>4, <1>6, <1>7, <2>1
<1> QED BY <1>8 DEF q, r, x, y

(* More events behind the stream are more events behind the held-back      *)
(* events and the stream.                                                  *)
LEMMA MoreBehind ==
  ASSUME NEW b \in Seq(Events), NEW w \in Seq(Events), NEW es \in Seq(Events)
  PROVE  Extended(b \o w, es, b \o (w \o es))
<1> DEFINE v == w \o es
           q == b \o w
           r == b \o v
<1>1. /\ v \in Seq(Events) /\ Len(v) = Len(w) + Len(es)
      /\ \A i \in 1..Len(w) : v[i] = w[i]
      /\ \A i \in 1..Len(es) : v[Len(w) + i] = es[i]
  BY Joined
<1> HIDE DEF v
<1>2. /\ q \in Seq(Events) /\ Len(q) = Len(b) + Len(w)
      /\ \A i \in 1..Len(b) : q[i] = b[i]
      /\ \A i \in 1..Len(w) : q[Len(b) + i] = w[i]
  BY Joined
<1>3. /\ r \in Seq(Events) /\ Len(r) = Len(b) + Len(v)
      /\ \A i \in 1..Len(b) : r[i] = b[i]
      /\ \A i \in 1..Len(v) : r[Len(b) + i] = v[i]
  BY <1>1, JoinedAll
<1> HIDE DEF q, r
<1>4. Len(b) \in Nat /\ Len(w) \in Nat /\ Len(es) \in Nat OBVIOUS
<1>5. Len(r) = Len(q) + Len(es) BY <1>1, <1>2, <1>3, <1>4
<1>6. ASSUME NEW i \in 1..Len(q) PROVE r[i] = q[i]
  <2>1. CASE i \in 1..Len(b) BY <1>2, <1>3, <2>1
  <2>2. CASE i \notin 1..Len(b)
    <3>1. PICK k \in 1..Len(w) : i = Len(b) + k
      <4>1. i - Len(b) \in 1..Len(w) /\ i = Len(b) + (i - Len(b)) BY <1>2, <1>4, <1>6, <2>2
      <4> QED BY <4>1
    <3>2. k \in 1..Len(v) BY <1>1, <1>4, <3>1
    <3>3. q[i] = w[k] BY <1>2, <3>1
    <3>4. r[i] = v[k] BY <1>3, <3>1, <3>2
    <3> QED BY <1>1, <3>3, <3>4
  <2> QED BY <2>1, <2>2
<1>7. ASSUME NEW i \in 1..Len(es) PROVE r[Len(q) + i] = es[i]
  <2>1. Len(w) + i \in 1..Len(v) /\ Len(q) + i = Len(b) + (Len(w) + i) BY <1>1, <1>2, <1>4, <1>7
  <2>2. r[Len(b) + (Len(w) + i)] = v[Len(w) + i] BY <1>3, <2>1
  <2> QED BY <1>1, <2>1, <2>2
<1>8. Extended(q, es, r) BY <1>2, <1>3, <1>5, <1>6, <1>7 DEF Extended
<1> QED BY <1>8 DEF q, r, v

(* A sequence with more events at its end is an extension of it.           *)
LEMMA MoreAtEnd ==
  ASSUME NEW w \in Seq(Events), NEW es \in Seq(Events)
  PROVE  Extended(w, es, w \o es)
<1>1. <<>> \in Seq(Events) OBVIOUS
<1>2. Extended(<<>> \o w, es, <<>> \o (w \o es)) BY <1>1, MoreBehind
<1>3. w \o es \in Seq(Events) OBVIOUS
<1>4. <<>> \o w = w /\ <<>> \o (w \o es) = w \o es BY <1>3, NothingHeld
<1> QED BY <1>2, <1>4

(* What is left of the events held back after m of them, and then the      *)
(* stream.                                                                 *)
Rest(b, m, w) == SubSeq(b, m + 1, Len(b)) \o w

(* At the start of the replay everything is left, at its end the stream.   *)
LEMMA RestAll ==
  ASSUME NEW b \in Seq(Events), NEW w \in Seq(Events)
  PROVE  Rest(b, 0, w) = b \o w /\ Rest(b, Len(b), w) = w
<1>1. SubSeq(b, 0 + 1, Len(b)) = b
  <2>1. SubSeq(b, 1, Len(b)) = b BY SubSeqFull
  <2> QED BY <2>1
<1>2. SubSeq(b, Len(b) + 1, Len(b)) = <<>>
  <2>1. Len(b) \in Nat OBVIOUS
  <2> QED BY <2>1, SubSeqEmpty
<1> QED BY <1>1, <1>2, NothingHeld DEF Rest

(* The replay takes one event from what is left.                           *)
LEMMA RestBegins ==
  ASSUME NEW b \in Seq(Events), NEW w \in Seq(Events), NEW k \in 0..(Len(b) - 1)
  PROVE  Begins(Rest(b, k, w), b[k + 1], Rest(b, k + 1, w))
<1> DEFINE n == Len(b)
           x == SubSeq(b, k + 1, n)
           y == SubSeq(b, (k + 1) + 1, n)
           q == x \o w
           r == y \o w
<1>1. n \in Nat /\ k \in Nat /\ k < n OBVIOUS
<1>2. x \in Seq(Events) /\ Len(x) = n - k /\ \A i \in 1..(n - k) : x[i] = b[k + i]
  <2>1. \A i \in 1..n : b[i] \in Events OBVIOUS
  <2>2. x \in Seq(Events) /\ Len(x) = n - k BY <1>1, <2>1
  <2> QED BY <1>1, <2>2
<1>3. y \in Seq(Events) /\ Len(y) = n - (k + 1) /\ \A i \in 1..(n - (k + 1)) : y[i] = b[(k + 1) + i]
  <2>1. \A i \in 1..n : b[i] \in Events OBVIOUS
  <2>2. y \in Seq(Events) /\ Len(y) = n - (k + 1) BY <1>1, <2>1
  <2> QED BY <1>1, <2>2
<1> HIDE DEF x, y
<1>4. /\ q \in Seq(Events) /\ Len(q) = Len(x) + Len(w)
      /\ \A i \in 1..Len(x) : q[i] = x[i]
      /\ \A i \in 1..Len(w) : q[Len(x) + i] = w[i]
  BY <1>2, JoinedAll
<1>5. /\ r \in Seq(Events) /\ Len(r) = Len(y) + Len(w)
      /\ \A i \in 1..Len(y) : r[i] = y[i]
      /\ \A i \in 1..Len(w) : r[Len(y) + i] = w[i]
  BY <1>3, JoinedAll
<1> HIDE DEF q, r
<1>6. Len(w) \in Nat OBVIOUS
<1>7. Len(q) = Len(r) + 1 BY <1>1, <1>2, <1>3, <1>4, <1>5, <1>6
<1>8. q[1] = b[k + 1]
  <2>1. 1 \in 1..Len(x) BY <1>1, <1>2
  <2> QED BY <1>2, <1>4, <2>1
<1>9. ASSUME NEW i \in 1..Len(r) PROVE q[i + 1] = r[i]
  <2>1. CASE i \in 1..Len(y)
    <3>1. i + 1 \in 1..Len(x) /\ k + (i + 1) = (k + 1) + i BY <1>1, <1>2, <1>3, <2>1
    <3>2. q[i + 1] = x[i + 1] /\ x[i + 1] = b[k + (i + 1)] BY <1>2, <1>4, <3>1
    <3>3. r[i] = y[i] /\ y[i] = b[(k + 1) + i] BY <1>3, <1>5, <2>1
    <3> QED BY <3>1, <3>2, <3>3
  <2>2. CASE i \notin 1..Len(y)
    <3>1. PICK j \in 1..Len(w) : i = Len(y) + j
      <4>1. i - Len(y) \in 1..Len(w) /\ i = Len(y) + (i - Len(y)) BY <1>1, <1>3, <1>5, <1>6, <1>9, <2>2
      <4> QED BY <4>1
    <3>2. i + 1 = Len(x) + j BY <1>1, <1>2, <1>3, <3>1
    <3> QED BY <1>4, <1>5, <3>1, <3>2
  <2> QED BY <2>1, <2>2
<1>10. Begins(q, b[k + 1], r) BY <1>4, <1>5, <1>7, <1>8, <1>9 DEF Begins
<1> QED BY <1>10 DEF Rest, q, r, x, y

-----------------------------------------------------------------------------
(* The server announces more.                                              *)
LEMMA SnapshotNumbers ==
  ASSUME NEW v, NEW c, Snapshots(v, c), NEW t \in c.refetch.val
  PROVE  t.ver \in Nat /\ t.ver <= v.ver /\ (t.ver = v.ver => \A a : IsAspect(a) => Agree(t, v, a))
BY DEF Snapshots, IsSnapshot

(* The stream and a read of the state under way stay right when the server *)
(* announces more.                                                         *)
LEMMA StreamsGrow ==
  ASSUME NEW v, NEW u, NEW q, NEW es, NEW r, Extended(q, es, r), Announces(v, es, u), v.ver \in Nat, u.ver \in Nat,
         NEW c, Snapshots(v, c), Streams(v, q, c)
  PROVE  Streams(u, r, c)
<1>1. Numbered(u, r) /\ LastWord(u, r) BY NumberedGrows, LastWordGrows DEF Streams
<1>2. ASSUME NEW t \in c.refetch.val PROVE AsOf(t, u, r) \/ Beyond(t, u, r)
  <2>1. t.ver \in Nat /\ t.ver <= v.ver BY SnapshotNumbers
  <2>2. CASE AsOf(t, v, q) BY <2>1, <2>2, AsOfGrows
  <2>3. CASE Beyond(t, v, q) BY <2>1, <2>3, BeyondGrows
  <2> QED BY <2>2, <2>3 DEF Streams
<1> QED BY <1>1, <1>2 DEF Streams

(* A client that follows the stream follows it when the server announces   *)
(* more.                                                                   *)
LEMMA FollowedGrows ==
  ASSUME NEW v, NEW u, NEW q, NEW es, NEW r, Extended(q, es, r), Announces(v, es, u), v.ver \in Nat, u.ver \in Nat,
         NEW c, Snapshots(v, c), Followed(v, q, c)
  PROVE  Followed(u, r, c)
<1>1. Numbered(u, r) /\ LastWord(u, r) BY NumberedGrows, LastWordGrows DEF Followed
<1>2. \A s : UpToDate(s, v, q) => UpToDate(s, u, r) BY UpToDateGrows
<1>3. ASSUME NEW t \in c.refetch.val PROVE AsOf(t, u, r) \/ Overtaken(t, u, r, c)
  <2>1. t.ver \in Nat /\ t.ver <= v.ver BY SnapshotNumbers
  <2>2. CASE AsOf(t, v, q) BY <2>1, <2>2, AsOfGrows
  <2>3. CASE Overtaken(t, v, q, c)
    <3>1. Beyond(t, u, r) BY <2>1, <2>3, BeyondGrows DEF Overtaken
    <3> QED BY <2>3, <3>1 DEF Overtaken
  <2> QED BY <2>2, <2>3 DEF Followed
<1> QED BY <1>1, <1>2, <1>3 DEF Followed

(* A snapshot the server has not outgrown is one of what it has.           *)
LEMMA SnapshotsGrow ==
  ASSUME NEW v, NEW u, NEW es, Announces(v, es, u), v.ver \in Nat, u.ver \in Nat, NEW c, Snapshots(v, c)
  PROVE  Snapshots(u, c)
<1>1. v.ver <= u.ver /\ es \in Seq(Events) BY DEF Announces
<1>2. ASSUME NEW t \in c.refetch.val
      PROVE  t.ver <= u.ver /\ (t.ver = u.ver => \A a : IsAspect(a) => Agree(t, u, a))
  <2>1. t.ver \in Nat /\ t.ver <= v.ver /\ (t.ver = v.ver => \A a : IsAspect(a) => Agree(t, v, a))
    BY <1>2, SnapshotNumbers
  <2>2. ASSUME t.ver = u.ver, NEW a, IsAspect(a) PROVE Agree(t, u, a)
    <3>1. t.ver = v.ver /\ u.ver = v.ver BY <1>1, <2>1, <2>2
    <3>2. ASSUME NEW k \in DOMAIN es, IsState(es[k]) PROVE FALSE
      <4>1. es[k].of > v.ver /\ es[k].of <= u.ver BY <3>2, Zenon DEF Announces
      <4>2. es[k].of \in Nat BY <1>1, OfIsNumber
      <4> QED BY <3>1, <4>1, <4>2
    <3>3. View(u, a) = View(v, a) BY <2>2, <3>2, Zenon DEF Announces
    <3> QED BY <2>1, <2>2, <3>1, <3>3 DEF Agree
  <2> QED BY <1>1, <2>1, <2>2
<1> QED BY <1>2 DEF Snapshots

-----------------------------------------------------------------------------
(* The client moves and the server does not.                               *)
LEMMA FollowedAlike ==
  ASSUME NEW v, NEW q, NEW c, Followed(v, q, c), NEW d,
         c.syncing = "requests" => d.syncing = "requests", "state" \in c.lost => "state" \in d.lost,
         d.state = c.state, d.stateReq.val \subseteq c.stateReq.val, d.refetch.val \subseteq c.refetch.val
  PROVE  Followed(v, q, d)
<1>1. ASSUME NEW t \in d.refetch.val PROVE AsOf(t, v, q) \/ Overtaken(t, v, q, d)
  <2>1. AsOf(t, v, q) \/ Overtaken(t, v, q, c) BY DEF Followed
  <2> QED BY <2>1 DEF Overtaken
<1> QED BY <1>1 DEF Followed

(* Snapshots moved within the client, or dropped, are snapshots.           *)
LEMMA SnapshotsAlike ==
  ASSUME NEW v, NEW c, Snapshots(v, c), NEW d, d.state \subseteq c.state \cup c.stateReq.val \cup c.refetch.val,
         d.stateReq.val \subseteq c.stateReq.val, d.refetch.val \subseteq c.refetch.val
  PROVE  Snapshots(v, d)
BY DEF Snapshots

(* The answer of the state request is put into the cache, or none is.      *)
LEMMA AppliedFollows ==
  ASSUME NEW v, NEW q, NEW c, Followed(v, q, c), NEW d, "state" \in d.lost \/ d.state = c.stateReq.val,
         d.stateReq.val \subseteq c.stateReq.val, d.refetch.val \subseteq c.refetch.val
  PROVE  Followed(v, q, d)
<1>1. ASSUME NEW t \in d.refetch.val PROVE AsOf(t, v, q) \/ Overtaken(t, v, q, d)
  <2>1. AsOf(t, v, q) \/ Overtaken(t, v, q, c) BY DEF Followed
  <2> QED BY <2>1 DEF Overtaken
<1> QED BY <1>1 DEF Followed

-----------------------------------------------------------------------------
(* The replay of the events held back.                                     *)
LEMMA ReplayProcesses ==
  ASSUME NEW f, NEW b \in Seq(Events), Replays(f, f[0], b, Len(b)), \A k \in 0..Len(b) : Kept(f[0], f[k]),
         f[0].draining = TRUE, f[0].stateReq = None, f[0].syncing = "no", NEW k \in 0..(Len(b) - 1)
  PROVE  /\ b[k + 1] \in Events /\ Processes(f[k], b[k + 1], f[k + 1]) /\ NoResync(f[k], f[k + 1])
         /\ f[k].syncing = "no" /\ f[k].stateReq.val = {} /\ f[k + 1].stateReq.val = {}
         /\ \E s : f[k].state = {s}
<1>1. Len(b) \in Nat /\ k \in 0..Len(b) /\ k + 1 \in 0..Len(b) /\ k + 1 \in 1..Len(b) OBVIOUS
<1>2. Kept(f[0], f[k]) /\ Kept(f[0], f[k + 1]) BY <1>1
<1>3. f[k + 1] = ProcessEvent(f[k], b[k + 1]) BY DEF Replays
<1>4. IsClient(f[k]) BY <1>2 DEF Kept
<1>5. Processes(f[k], b[k + 1], f[k + 1]) BY <1>3, <1>4, ProcessEventDoes
<1>6. f[k].draining = TRUE /\ f[k].syncing = "no" /\ f[k].stateReq = None /\ f[k + 1].stateReq = None
  BY <1>2 DEF Kept, ClientFields
<1>7. NoResync(f[k], f[k + 1])
  <2>1. ~Resyncs(f[k], f[k + 1]) BY <1>6 DEF Resyncs
  <2> QED BY <1>5, <2>1, Zenon DEF Processes
<1>8. \E s : f[k].state = {s} BY <1>2 DEF Kept
<1>9. b[k + 1] \in Events BY <1>1
<1> QED BY <1>5, <1>6, <1>7, <1>8, <1>9, SlotFields

(* The snapshots stay snapshots during a replay.                           *)
LEMMA ReplaySnapshots ==
  ASSUME NEW f, NEW b \in Seq(Events), Replays(f, f[0], b, Len(b)), \A k \in 0..Len(b) : Kept(f[0], f[k]),
         f[0].draining = TRUE, f[0].stateReq = None, f[0].syncing = "no",
         NEW v, Snapshots(v, f[0]), NEW k \in 0..Len(b)
  PROVE  Snapshots(v, f[k])
<1> DEFINE T == {n \in Nat : n <= Len(b) => Snapshots(v, f[n])}
<1>1. 0 \in T OBVIOUS
<1>2. ASSUME NEW n \in Nat, n \in T PROVE n + 1 \in T
  <2> SUFFICES ASSUME n + 1 <= Len(b) PROVE Snapshots(v, f[n + 1]) OBVIOUS
  <2>1. Len(b) \in Nat /\ n \in 0..(Len(b) - 1) /\ n <= Len(b) OBVIOUS
  <2>2. /\ b[n + 1] \in Events /\ Processes(f[n], b[n + 1], f[n + 1])
        /\ f[n].stateReq.val = {} /\ f[n + 1].stateReq.val = {} /\ \E s : f[n].state = {s}
    BY <2>1, ReplayProcesses
  <2>3. PICK s : f[n].state = {s} BY <2>2
  <2>4. Snapshots(v, f[n]) BY <1>2, <2>1
  <2> DEFINE x == f[n]
             y == f[n + 1]
             e == b[n + 1]
  <2>5. /\ e \in Events /\ Processes(x, e, y) /\ x.state = {s} /\ Snapshots(v, x)
        /\ y.stateReq.val \subseteq x.stateReq.val
    BY <2>2, <2>3, <2>4
  <2> HIDE DEF x, y, e
  <2>6. Snapshots(v, y) BY <2>5, ProcessSnapshots
  <2> QED BY <2>6 DEF y
<1> HIDE DEF T
<1>3. k \in Nat /\ k \in T BY <1>1, <1>2, Stepwise
<1>4. k <= Len(b) OBVIOUS
<1> QED BY <1>3, <1>4 DEF T

(* During a replay the client follows what is left of the held-back events *)
(* and the stream.                                                         *)
LEMMA ReplayFollows ==
  ASSUME NEW f, NEW b \in Seq(Events), Replays(f, f[0], b, Len(b)), \A k \in 0..Len(b) : Kept(f[0], f[k]),
         f[0].draining = TRUE, f[0].stateReq = None, f[0].syncing = "no",
         NEW v, v.ver \in Nat, Snapshots(v, f[0]), NEW w \in Seq(Events), Followed(v, b \o w, f[0]), NEW k \in 0..Len(b)
  PROVE  Followed(v, Rest(b, k, w), f[k])
<1> DEFINE T == {n \in Nat : n <= Len(b) => Followed(v, Rest(b, n, w), f[n])}
<1>1. 0 \in T
  <2>1. Rest(b, 0, w) = b \o w BY RestAll
  <2> QED BY <2>1
<1>2. ASSUME NEW n \in Nat, n \in T PROVE n + 1 \in T
  <2> SUFFICES ASSUME n + 1 <= Len(b) PROVE Followed(v, Rest(b, n + 1, w), f[n + 1]) OBVIOUS
  <2>1. Len(b) \in Nat /\ n \in 0..(Len(b) - 1) /\ n <= Len(b) /\ n \in 0..Len(b) OBVIOUS
  <2>2. /\ b[n + 1] \in Events /\ Processes(f[n], b[n + 1], f[n + 1]) /\ NoResync(f[n], f[n + 1])
        /\ f[n].syncing # "requests" /\ f[n].stateReq.val = {} /\ \E s : f[n].state = {s}
    BY <2>1, ReplayProcesses
  <2>3. PICK s : f[n].state = {s} BY <2>2
  <2>4. Followed(v, Rest(b, n, w), f[n]) BY <1>2, <2>1
  <2>5. Snapshots(v, f[n]) BY <2>1, ReplaySnapshots
  <2>6. Begins(Rest(b, n, w), b[n + 1], Rest(b, n + 1, w)) BY <2>1, RestBegins
  <2> DEFINE x == f[n]
             y == f[n + 1]
             e == b[n + 1]
             q == Rest(b, n, w)
             r == Rest(b, n + 1, w)
  <2>7. /\ e \in Events /\ Processes(x, e, y) /\ NoResync(x, y) /\ x.syncing # "requests" /\ x.stateReq.val = {}
        /\ x.state = {s} /\ Followed(v, q, x) /\ Snapshots(v, x) /\ Begins(q, e, r)
    BY <2>2, <2>3, <2>4, <2>5, <2>6
  <2> HIDE DEF x, y, e, q, r
  <2>8. Followed(v, r, y) BY <2>7, ProcessFollows
  <2> QED BY <2>8 DEF y, r
<1> HIDE DEF T
<1>3. k \in Nat /\ k \in T BY <1>1, <1>2, Stepwise
<1>4. k <= Len(b) OBVIOUS
<1> QED BY <1>3, <1>4 DEF T

(* At the end of a resynchronisation.                                      *)
LEMMA FinishFollows ==
  ASSUME NEW c, Sound(c), NEW f, NEW d, Ends(c, f, Len(c.buffered), d),
         NEW v, v.ver \in Nat, Snapshots(v, c)
  PROVE  /\ Snapshots(v, d) /\ d.refetch.val \subseteq c.refetch.val
         /\ \A w \in Seq(Events) :
              Streams(v, w, c) /\ ("reconnect" \notin c.lost => Followed(v, c.buffered \o w, f[0])) =>
                ("reconnect" \notin d.lost => Followed(v, d.buffered \o w, d))
<1> DEFINE b == c.buffered
           n == Len(b)
<1>1. b \in Seq(Events) /\ n \in Nat /\ n \in 0..n BY DEF Sound
<1>2. /\ \A k \in 0..n : Kept(f[0], f[k])
      /\ Replays(f, f[0], b, n)
      /\ f[0].draining = TRUE /\ f[0].stateReq = None /\ f[0].syncing = "no"
  BY Zenon DEF Ends
<1>3. f[0].state = c.state /\ f[0].lost = c.lost /\ f[0].refetch = c.refetch
  BY DEF Ends, Changes, ClientFields
<1>4. d.state = f[n].state /\ d.refetch = f[n].refetch
  BY DEF Ends, Changes, ClientFields, ResyncFields
<1>5. Kept(f[0], f[n]) BY <1>1, <1>2
<1>6. f[n].lost = c.lost /\ f[n].refetch \in {c.refetch, Asked} /\ f[n].stateReq = None /\ f[n].syncing = "no"
  BY <1>2, <1>3, <1>5 DEF Kept, ClientFields
<1>7. d.refetch.val \subseteq c.refetch.val BY <1>4, <1>6, SlotFields
<1>8. /\ d.buffered = <<>>
      /\ \/ d.syncing = "requests" /\ d.stateReq = Asked
         \/ d.syncing = "no" /\ d.stateReq = None /\ d.lost = c.lost
  BY DEF Ends
<1>9. d.stateReq.val = {} BY <1>8, SlotFields
<1> HIDE DEF b, n
<1>10. Snapshots(v, f[0]) BY <1>2, <1>3, SlotFields, SnapshotsAlike
<1>11. Snapshots(v, f[n]) BY <1>1, <1>2, <1>10, ReplaySnapshots DEF n
<1>12. Snapshots(v, d) BY <1>4, <1>9, <1>11, SnapshotsAlike
<1>13. ASSUME NEW w \in Seq(Events), Streams(v, w, c), "reconnect" \notin c.lost => Followed(v, b \o w, f[0]),
              "reconnect" \notin d.lost
       PROVE  Followed(v, d.buffered \o w, d)
  <2>1. d.buffered \o w = w BY <1>8, NothingHeld
  <2>2. Streams(v, w, d) BY <1>7, <1>13, StreamsAlike
  <2>3. CASE d.syncing = "requests" /\ d.stateReq = Asked BY <2>1, <2>2, <2>3, FreshFollows
  <2>4. CASE d.syncing = "no" /\ d.stateReq = None /\ d.lost = c.lost
    <3>1. Followed(v, b \o w, f[0]) BY <1>13, <2>4
    <3>2. Followed(v, Rest(b, n, w), f[n]) BY <1>1, <1>2, <1>10, <3>1, ReplayFollows DEF n
    <3>3. Followed(v, w, f[n]) BY <1>1, <3>2, RestAll DEF n
    <3>4. Followed(v, w, d) BY <1>4, <1>6, <1>9, <2>4, <3>3, FollowedAlike
    <3> QED BY <2>1, <3>4
  <2> QED BY <1>8, <2>3, <2>4
<1> QED BY <1>7, <1>12, <1>13 DEF b

-----------------------------------------------------------------------------
(* The stream is whole: what the client has not seen is held back or on    *)
(* its way.                                                                *)
Unmarked(w) == \A i \in DOMAIN w : ~IsMarker(w[i])
Follows(c, w) == c.selected /\ c.link = "connected" /\ "reconnect" \notin c.lost /\ Unmarked(w)
Converging ==
  /\ Snapshots(server, client)
  /\ socket = "up" =>
       /\ Streams(server, wire, client)
       /\ Follows(client, wire) => Followed(server, client.buffered \o wire, client)

(* A step of the client alone that keeps each part keeps the whole.        *)
LEMMA ClientMoves ==
  ASSUME Converging, UNCHANGED <<server, wire, socket>>, Snapshots(server, client'),
         socket = "up" => Streams(server, wire, client'),
         socket = "up" /\ Follows(client', wire) => Followed(server, client'.buffered \o wire, client')
  PROVE  Converging'
BY DEF Converging

(* Only requests and pages change.                                         *)
LEMMA QuietMoves ==
  ASSUME Typed, Converging, UNCHANGED <<server, wire, socket>>, NEW F, Changes(client, client', F),
         F \subseteq {"refetch", "stateReq", "historyReq", "fetch", "pages", "ref", "rendered", "ended", "resynced"},
         client'.stateReq.val \subseteq client.stateReq.val, client'.refetch.val \subseteq client.refetch.val
  PROVE  Converging'
<1> DEFINE c == client
           d == client'
<1>1. /\ d.state = c.state /\ d.syncing = c.syncing /\ d.lost = c.lost /\ d.buffered = c.buffered
      /\ d.selected = c.selected /\ d.link = c.link
  BY DEF Changes, ClientFields
<1>2. Snapshots(server, c) BY DEF Converging
<1>3. d.stateReq.val \subseteq c.stateReq.val /\ d.refetch.val \subseteq c.refetch.val OBVIOUS
<1>4. socket = "up" => Streams(server, wire, c) BY DEF Converging
<1>5. socket = "up" /\ Follows(c, wire) => Followed(server, c.buffered \o wire, c) BY DEF Converging
<1> HIDE DEF c, d
<1>6. Snapshots(server, d) BY <1>1, <1>2, <1>3, SnapshotsAlike
<1>7. socket = "up" => Streams(server, wire, d) BY <1>3, <1>4, StreamsAlike
<1>8. ASSUME socket = "up", Follows(d, wire) PROVE Followed(server, d.buffered \o wire, d)
  <2>1. Followed(server, c.buffered \o wire, c) BY <1>1, <1>5, <1>8 DEF Follows
  <2> QED BY <1>1, <1>3, <2>1, FollowedAlike
<1>9. /\ Snapshots(server, client') /\ (socket = "up" => Streams(server, wire, client'))
      /\ (socket = "up" /\ Follows(client', wire) => Followed(server, client'.buffered \o wire, client'))
  BY <1>6, <1>7, <1>8 DEF d
<1> QED BY <1>9, ClientMoves

-----------------------------------------------------------------------------
(* What the server holds now is a true snapshot of it.                     *)
LEMMA SnapshotNow ==
  ASSUME Typed
  PROVE  /\ IsSnapshot(Snapshot) /\ Snapshot.ver = server.ver /\ server.ver \in Nat
         /\ \A a : Agree(Snapshot, server, a)
         /\ \A q : UpToDate(Snapshot, server, q) /\ AsOf(Snapshot, server, q)
<1> DEFINE s == Snapshot
<1>1. /\ s = [f \in SnapFields |-> s[f]] /\ s.ver = server.ver /\ s.run = server.run /\ s.phase = server.phase
      /\ s.approvals = server.approvals
  BY Zenon DEF Snapshot, SnapFields
<1>2. server.ver \in Nat BY DEF Typed, ServerOK, ServerType
<1> HIDE DEF s
<1>3. \A a : Agree(s, server, a) BY <1>1 DEF Agree, View
<1>4. \A q : UpToDate(s, server, q) /\ AsOf(s, server, q) BY <1>3 DEF UpToDate, AsOf
<1> QED BY <1>1, <1>2, <1>3, <1>4 DEF IsSnapshot, s

(* The answer to the state request is as new as can be.                    *)
LEMMA StateAnswered ==
  ASSUME Typed, Converging, NEW ok \in BOOLEAN, AnswerState(ok)
  PROVE  Converging'
<1> DEFINE c == client
           d == client'
<1>1. Changes(c, d, {"stateReq"}) /\ d.stateReq.val \in {{}, {Snapshot}} BY AnswerStateDoes DEF Typed
<1>2. UNCHANGED <<server, wire, socket>> BY Zenon DEF AnswerState
<1>3. /\ Snapshots(server, c)
      /\ socket = "up" => Streams(server, wire, c)
      /\ socket = "up" /\ Follows(c, wire) => Followed(server, c.buffered \o wire, c)
  BY DEF Converging
<1>4. IsSnapshot(Snapshot) /\ Snapshot.ver = server.ver /\ server.ver \in Nat
      /\ \A q : UpToDate(Snapshot, server, q)
  BY SnapshotNow
<1> HIDE DEF c, d
<1>5. /\ d.state = c.state /\ d.syncing = c.syncing /\ d.lost = c.lost /\ d.buffered = c.buffered
      /\ d.selected = c.selected /\ d.link = c.link /\ d.refetch = c.refetch
  BY <1>1 DEF Changes, ClientFields
<1>6. Snapshots(server, d) BY <1>1, <1>3, <1>4, <1>5 DEF Snapshots
<1>7. socket = "up" => Streams(server, wire, d) BY <1>3, <1>5, StreamsAlike
<1>8. ASSUME socket = "up", Follows(d, wire) PROVE Followed(server, d.buffered \o wire, d)
  <2> DEFINE q == c.buffered \o wire
  <2>1. Followed(server, q, c) BY <1>3, <1>5, <1>8 DEF Follows
  <2> HIDE DEF q
  <2>2. \A s \in d.stateReq.val : s = Snapshot BY <1>1
  <2>3. ASSUME NEW t \in d.refetch.val PROVE AsOf(t, server, q) \/ Overtaken(t, server, q, d)
    <3>1. AsOf(t, server, q) \/ Overtaken(t, server, q, c) BY <1>5, <2>1, <2>3 DEF Followed
    <3>2. Beyond(t, server, q) => server.ver > t.ver BY DEF Beyond
    <3> QED BY <1>4, <1>5, <2>2, <3>1, <3>2 DEF Overtaken
  <2>4. Followed(server, q, d) BY <1>4, <1>5, <2>1, <2>2, <2>3 DEF Followed
  <2> QED BY <1>5, <2>4 DEF q
<1>9. /\ Snapshots(server, client') /\ (socket = "up" => Streams(server, wire, client'))
      /\ (socket = "up" /\ Follows(client', wire) => Followed(server, client'.buffered \o wire, client'))
  BY <1>6, <1>7, <1>8 DEF d
<1> QED BY <1>2, <1>9, ClientMoves

(* So is the answer to a read of the state of its own.                     *)
LEMMA RefetchAnswered ==
  ASSUME Typed, Converging, NEW ok \in BOOLEAN, AnswerRefetch(ok)
  PROVE  Converging'
<1> DEFINE c == client
           d == client'
<1>1. Changes(c, d, {"refetch"}) /\ d.refetch.val \in {{}, {Snapshot}} BY AnswerRefetchDoes DEF Typed
<1>2. UNCHANGED <<server, wire, socket>> BY Zenon DEF AnswerRefetch
<1>3. /\ Snapshots(server, c)
      /\ socket = "up" => Streams(server, wire, c)
      /\ socket = "up" /\ Follows(c, wire) => Followed(server, c.buffered \o wire, c)
  BY DEF Converging
<1>4. IsSnapshot(Snapshot) /\ Snapshot.ver = server.ver /\ server.ver \in Nat
      /\ (\A a : Agree(Snapshot, server, a)) /\ \A q : AsOf(Snapshot, server, q)
  BY SnapshotNow
<1> HIDE DEF c, d
<1>5. /\ d.state = c.state /\ d.syncing = c.syncing /\ d.lost = c.lost /\ d.buffered = c.buffered
      /\ d.selected = c.selected /\ d.link = c.link /\ d.stateReq = c.stateReq
  BY <1>1 DEF Changes, ClientFields
<1>6. \A t \in d.refetch.val : t = Snapshot BY <1>1
<1>7. Snapshots(server, d)
  <2>1. \A t \in d.refetch.val :
          IsSnapshot(t) /\ t.ver <= server.ver /\ (t.ver = server.ver => \A a : IsAspect(a) => Agree(t, server, a))
    BY <1>4, <1>6
  <2> QED BY <1>3, <1>5, <2>1 DEF Snapshots
<1>8. socket = "up" => Streams(server, wire, d) BY <1>3, <1>4, <1>6 DEF Streams
<1>9. socket = "up" /\ Follows(d, wire) => Followed(server, d.buffered \o wire, d)
  BY <1>3, <1>4, <1>5, <1>6 DEF Follows, Followed
<1>10. /\ Snapshots(server, client') /\ (socket = "up" => Streams(server, wire, client'))
       /\ (socket = "up" /\ Follows(client', wire) => Followed(server, client'.buffered \o wire, client'))
  BY <1>7, <1>8, <1>9 DEF d
<1> QED BY <1>2, <1>10, ClientMoves

(* The page goes on converging when the server answers a request.          *)
LEMMA Answered ==
  ASSUME Typed, Converging, ServerAnswers
  PROVE  Converging'
<1>1. ASSUME NEW ok \in BOOLEAN, AnswerHistory(ok) PROVE Converging'
  <2>1. Changes(client, client', {"historyReq"}) BY <1>1, AnswerHistoryDoes DEF Typed
  <2>2. client'.stateReq = client.stateReq /\ client'.refetch = client.refetch
    BY <2>1 DEF Changes, ClientFields
  <2>3. UNCHANGED <<server, wire, socket>> BY <1>1, Zenon DEF AnswerHistory
  <2> QED BY <2>1, <2>2, <2>3, QuietMoves
<1>2. ASSUME NEW ok \in BOOLEAN, AnswerFetch(ok) PROVE Converging'
  <2>1. Changes(client, client', {"fetch"}) BY <1>2, AnswerFetchDoes DEF Typed
  <2>2. client'.stateReq = client.stateReq /\ client'.refetch = client.refetch
    BY <2>1 DEF Changes, ClientFields
  <2>3. UNCHANGED <<server, wire, socket>> BY <1>2, Zenon DEF AnswerFetch
  <2> QED BY <2>1, <2>2, <2>3, QuietMoves
<1> QED BY <1>1, <1>2, StateAnswered, RefetchAnswered DEF ServerAnswers

(* It does when a read of the state or an older page is asked for.         *)
LEMMA Asks ==
  ASSUME Typed, Converging, RefreshState \/ LoadOlder
  PROVE  Converging'
<1>1. CASE RefreshState
  <2>1. Changes(client, client', {"refetch"}) /\ client'.refetch = Asked BY <1>1, RefreshDoes DEF Typed
  <2>2. client'.stateReq = client.stateReq BY <2>1 DEF Changes, ClientFields
  <2>3. UNCHANGED <<server, wire, socket>> BY <1>1, Zenon DEF RefreshState
  <2>4. client'.refetch.val = {} BY <2>1, SlotFields
  <2> QED BY <2>1, <2>2, <2>3, <2>4, QuietMoves
<1>2. CASE LoadOlder
  <2>1. Changes(client, client', {"fetch"}) BY <1>2, LoadOlderDoes DEF Typed
  <2>2. client'.stateReq = client.stateReq /\ client'.refetch = client.refetch
    BY <2>1 DEF Changes, ClientFields
  <2>3. UNCHANGED <<server, wire, socket>> BY <1>2, Zenon DEF LoadOlder
  <2> QED BY <2>1, <2>2, <2>3, QuietMoves
<1> QED BY <1>1, <1>2

-----------------------------------------------------------------------------
(* The server announces what it does.                                      *)
LEMMA ServerSpeaks ==
  ASSUME Typed, Converging, ServerWrites
  PROVE  Converging'
<1> DEFINE c == client
           v == server
           u == server'
           w == wire
           x == wire'
           b == c.buffered
<1>1. v.ver \in Nat /\ u.ver \in Nat /\ client' = c /\ \E es : Announces(v, es, u) /\ Told(es)
  <2>1. ServerOK /\ JournalOK /\ StreamOK(wire) /\ socket \in {"up", "down"} BY DEF Typed
  <2>2. ServerOK' /\ client' = client /\ \E es : Announces(server, es, server') /\ Told(es)
    BY <2>1, ServerTells
  <2> QED BY <2>1, <2>2 DEF ServerOK, ServerType
<1>2. PICK es : Announces(v, es, u) /\ Told(es) BY <1>1
<1>3. es \in Seq(Events) BY <1>2 DEF Announces
<1>4. Snapshots(v, c) BY DEF Converging
<1>5. w \in Seq(Events) /\ b \in Seq(Events) BY DEF Typed, StreamOK, Sound
<1>6. /\ socket = "up" => Streams(v, w, c)
      /\ socket = "up" /\ Follows(c, w) => Followed(v, b \o w, c)
  BY DEF Converging
<1>7. socket' = "up" => socket = "up" /\ x = w \o es BY <1>2 DEF Told
<1> HIDE DEF c, v, u, w, x, b
<1>8. Snapshots(u, c) BY <1>1, <1>2, <1>4, SnapshotsGrow
<1>9. ASSUME socket' = "up" PROVE Streams(u, x, c)
  <2>1. Extended(w, es, x) BY <1>3, <1>5, <1>7, <1>9, MoreAtEnd
  <2> QED BY <1>1, <1>2, <1>4, <1>6, <1>7, <1>9, <2>1, StreamsGrow
<1>10. ASSUME socket' = "up", Follows(c, x) PROVE Followed(u, b \o x, c)
  <2>1. Extended(b \o w, es, b \o x) BY <1>3, <1>5, <1>7, <1>10, MoreBehind
  <2>2. Unmarked(w)
    <3>1. Extended(w, es, x) BY <1>3, <1>5, <1>7, <1>10, MoreAtEnd
    <3> QED BY <1>10, <3>1, ExtendedIn DEF Follows, Unmarked
  <2>3. Followed(v, b \o w, c) BY <1>6, <1>7, <1>10, <2>2 DEF Follows
  <2> QED BY <1>1, <1>2, <1>4, <2>1, <2>3, FollowedGrows
<1>11. /\ Snapshots(server', client)
       /\ socket' = "up" => Streams(server', wire', client)
       /\ socket' = "up" /\ Follows(client, wire') => Followed(server', client.buffered \o wire', client)
  BY <1>8, <1>9, <1>10 DEF c, v, u, w, x, b
<1>12. client' = client BY <1>1 DEF c
<1> QED BY <1>11, <1>12 DEF Converging

-----------------------------------------------------------------------------
(* The next event of the stream reaches the client.                        *)
LEMMA StatusFollows ==
  ASSUME NEW c, Sound(c), NEW link \in Links, NEW d, d = OnStatusChange(c, link), NEW v, Snapshots(v, c),
         NEW r \in Seq(Events)
  PROVE  /\ Snapshots(v, d) /\ d.refetch.val \subseteq c.refetch.val
         /\ Streams(v, r, d) /\ Follows(d, r) => Followed(v, d.buffered \o r, d)
<1>0. Switches(c, link, d) BY StatusDoes
<1>1. /\ Changes(c, d, {"link", "status"} \cup ResyncFields) /\ d.link = link
      /\ \/ link = "connected" /\ c.selected /\ c.syncing = "no" /\ Fresh(c, d)
         \/ /\ d.syncing = c.syncing /\ d.stateReq = c.stateReq /\ d.historyReq = c.historyReq
            /\ d.buffered = c.buffered /\ d.fetch = c.fetch
            /\ \/ link = "connected" /\ c.selected /\ d.lost = c.lost \cup {"reconnect"}
               \/ (link = "connected" => ~c.selected) /\ d.lost = c.lost
  BY <1>0 DEF Switches
<1>2. d.state = c.state /\ d.refetch = c.refetch /\ d.selected = c.selected
  BY <1>1 DEF Changes, ClientFields, ResyncFields
<1>3. d.stateReq.val \subseteq c.stateReq.val BY <1>1, SlotFields DEF Fresh
<1>4. Snapshots(v, d) BY <1>2, <1>3, SnapshotsAlike
<1>5. ASSUME Streams(v, r, d), Follows(d, r) PROVE Followed(v, d.buffered \o r, d)
  <2>1. Fresh(c, d) BY <1>1, <1>2, <1>5 DEF Follows
  <2>2. Followed(v, r, d) BY <1>5, <2>1, FreshFollows DEF Fresh
  <2>3. d.buffered \o r = r BY <2>1, NothingHeld DEF Fresh
  <2> QED BY <2>2, <2>3
<1> QED BY <1>2, <1>4, <1>5

(* What the next event of the stream does to a client that follows it: it  *)
(* is held back, processed, or followed by a resynchronisation.            *)
LEMMA EventFollows ==
  ASSUME NEW a, NEW d, NEW w \in Seq(Events), w # <<>>, Delivers(a, d, Head(w)),
         NEW v, v.ver \in Nat, Snapshots(v, a)
  PROVE  /\ Snapshots(v, d) /\ d.refetch.val \subseteq a.refetch.val
         /\ Streams(v, w, a) => Streams(v, Tail(w), d)
         /\ Streams(v, w, a) /\ (Follows(a, w) => Followed(v, a.buffered \o w, a)) /\ Follows(d, Tail(w)) =>
              Followed(v, d.buffered \o Tail(w), d)
<1> DEFINE e == Head(w)
           r == Tail(w)
<1>1. Begins(w, e, r) /\ e \in Events /\ r \in Seq(Events) BY HeadBegins
<1>2. \A b \in Seq(Events) : Append(b, e) \o r = b \o w BY HeldBack
<1>3. PICK c : /\ Sound(c) /\ Changes(a, c, {"ref", "rendered"}) /\ Sound(d)
               /\ \/ e.kind = "open" /\ d = OnStatusChange(c, "connected")
                  \/ e.kind = "close" /\ d = OnStatusChange(c, "reconnecting")
                  \/ /\ ~IsMarker(e) /\ c.syncing # "no"
                     /\ Changes(c, d, {"buffered"}) /\ d.buffered = Append(c.buffered, e)
                  \/ ~IsMarker(e) /\ c.syncing = "no" /\ Processes(c, e, d)
  BY Zenon DEF Delivers
<1> HIDE DEF e, r
<1>4. /\ c.state = a.state /\ c.stateReq = a.stateReq /\ c.refetch = a.refetch /\ c.syncing = a.syncing
      /\ c.lost = a.lost /\ c.selected = a.selected /\ c.link = a.link /\ c.buffered = a.buffered
  BY <1>3 DEF Changes, ClientFields
<1>5. Snapshots(v, c) BY <1>4, SnapshotsAlike
<1>6. Streams(v, w, a) => Streams(v, r, c)
  <2>1. Streams(v, w, a) => Streams(v, w, c) BY <1>4, StreamsAlike
  <2> QED BY <1>1, <1>5, <2>1, StreamsShrink
<1>7. ASSUME Snapshots(v, d), d.refetch.val \subseteq c.refetch.val,
             Streams(v, r, d) /\ (Follows(a, w) => Followed(v, c.buffered \o w, c)) /\ Follows(d, r) =>
               Followed(v, d.buffered \o r, d)
      PROVE  /\ Snapshots(v, d) /\ d.refetch.val \subseteq a.refetch.val
             /\ Streams(v, w, a) => Streams(v, r, d)
             /\ Streams(v, w, a) /\ (Follows(a, w) => Followed(v, a.buffered \o w, a)) /\ Follows(d, r) =>
                  Followed(v, d.buffered \o r, d)
  <2>1. Streams(v, w, a) => Streams(v, r, d) BY <1>6, <1>7, StreamsAlike
  <2>2. Followed(v, a.buffered \o w, a) => Followed(v, c.buffered \o w, c) BY <1>4, FollowedAlike
  <2> QED BY <1>4, <1>7, <2>1, <2>2
<1>8. ASSUME NEW link \in Links, d = OnStatusChange(c, link)
      PROVE  /\ Snapshots(v, d) /\ d.refetch.val \subseteq c.refetch.val
             /\ Streams(v, r, d) /\ Follows(d, r) => Followed(v, d.buffered \o r, d)
  BY <1>1, <1>3, <1>5, <1>8, StatusFollows
<1>9. CASE e.kind = "open" /\ d = OnStatusChange(c, "connected")
  <2>1. "connected" \in Links BY DEF Links
  <2> QED BY <1>7, <1>8, <1>9, <2>1 DEF e, r
<1>10. CASE e.kind = "close" /\ d = OnStatusChange(c, "reconnecting")
  <2>1. "reconnecting" \in Links BY DEF Links
  <2> QED BY <1>7, <1>8, <1>10, <2>1 DEF e, r
<1>11. ASSUME ~IsMarker(e) PROVE Unmarked(r) => Unmarked(w)
  <2>1. /\ w[1] = e
        /\ \A i \in DOMAIN w : i = 1 \/ (i - 1 \in DOMAIN r /\ w[i] = r[i - 1])
    BY <1>1, BeginsIn
  <2> QED BY <1>11, <2>1 DEF Unmarked
<1>12. CASE ~IsMarker(e) /\ c.syncing # "no" /\ Changes(c, d, {"buffered"}) /\ d.buffered = Append(c.buffered, e)
  <2>1. /\ d.state = c.state /\ d.stateReq = c.stateReq /\ d.refetch = c.refetch /\ d.syncing = c.syncing
        /\ d.lost = c.lost /\ d.selected = c.selected /\ d.link = c.link
    BY <1>12 DEF Changes, ClientFields
  <2>2. Snapshots(v, d) BY <1>5, <2>1, SnapshotsAlike
  <2>3. d.buffered \o r = c.buffered \o w BY <1>2, <1>3, <1>12 DEF Sound
  <2>4. ASSUME Follows(a, w) => Followed(v, c.buffered \o w, c), Follows(d, r) PROVE Followed(v, d.buffered \o r, d)
    <3>1. Followed(v, c.buffered \o w, c) BY <1>4, <1>11, <1>12, <2>1, <2>4 DEF Follows
    <3> QED BY <2>1, <2>3, <3>1, FollowedAlike
  <2> QED BY <1>7, <2>1, <2>2, <2>4 DEF r
<1>13. CASE ~IsMarker(e) /\ c.syncing = "no" /\ Processes(c, e, d)
  <2>1. PICK s : c.state = {s} BY <1>3 DEF Sound
  <2>2. c.buffered = <<>> /\ c.stateReq = None /\ c.stateReq.val = {} BY <1>3, <1>13, SlotFields DEF Sound
  <2>3. NoResync(c, d) \/ Resyncs(c, d) BY <1>13 DEF Processes
  <2>4. d.stateReq.val = {} BY <2>2, <2>3, SlotFields DEF NoResync, Resyncs
  <2>5. Snapshots(v, d) BY <1>1, <1>5, <1>13, <2>1, <2>2, <2>4, ProcessSnapshots
  <2>6. d.refetch.val \subseteq c.refetch.val 
    <3>1. d.refetch.val = c.refetch.val \/ d.refetch.val = {} BY <1>13, SlotFields DEF Processes
    <3> QED BY <3>1
  <2>7. d.selected = c.selected /\ d.link = c.link
    BY <1>13 DEF Processes, Changes, ClientFields, ProcessFields, ResyncFields
  <2>8. d.buffered = <<>> /\ d.buffered \o r = r /\ c.buffered \o w = w
    BY <1>1, <2>2, <2>3, NothingHeld DEF NoResync, Resyncs
  <2>9. ASSUME Streams(v, r, d), Follows(a, w) => Followed(v, c.buffered \o w, c), Follows(d, r)
        PROVE  Followed(v, d.buffered \o r, d)
    <3>1. CASE Resyncs(c, d) BY <2>8, <2>9, <3>1, FreshFollows DEF Resyncs
    <3>2. CASE NoResync(c, d)
      <4>1. d.lost = c.lost BY <3>2 DEF NoResync
      <4>2. Followed(v, w, c) BY <1>4, <1>11, <1>13, <2>7, <2>8, <2>9, <4>1 DEF Follows
      <4>3. c.syncing # "requests" BY <1>13
      <4>4. Followed(v, r, d) BY <1>1, <1>5, <1>13, <2>1, <2>2, <3>2, <4>2, <4>3, ProcessFollows
      <4> QED BY <2>8, <4>4
    <3> QED BY <2>3, <3>1, <3>2
  <2> QED BY <1>7, <2>5, <2>6, <2>9 DEF r
<1> QED BY <1>3, <1>9, <1>10, <1>12, <1>13

(* The page goes on converging when the next event is delivered.           *)
LEMMA Delivered ==
  ASSUME Typed, Converging, Deliver
  PROVE  Converging'
<1> DEFINE a == client
           d == client'
           w == wire
           v == server
<1>1. w # <<>> /\ wire' = Tail(w) /\ Delivers(a, d, Head(w)) BY DeliverDoes DEF Typed
<1>2. UNCHANGED <<server, socket>> BY Zenon DEF Deliver
<1>3. w \in Seq(Events) /\ v.ver \in Nat BY DEF Typed, StreamOK, ServerOK, ServerType
<1>4. /\ Snapshots(v, a)
      /\ socket = "up" => Streams(v, w, a)
      /\ socket = "up" /\ Follows(a, w) => Followed(v, a.buffered \o w, a)
  BY DEF Converging
<1> HIDE DEF a, d, w, v
<1>5. /\ Snapshots(v, d)
      /\ Streams(v, w, a) => Streams(v, Tail(w), d)
      /\ Streams(v, w, a) /\ (Follows(a, w) => Followed(v, a.buffered \o w, a)) /\ Follows(d, Tail(w)) =>
           Followed(v, d.buffered \o Tail(w), d)
  BY <1>1, <1>3, <1>4, EventFollows
<1>6. /\ Snapshots(server, client')
      /\ socket = "up" => Streams(server, wire', client')
      /\ socket = "up" /\ Follows(client', wire') => Followed(server, client'.buffered \o wire', client')
  BY <1>1, <1>4, <1>5 DEF a, d, w, v
<1> QED BY <1>2, <1>6 DEF Converging

-----------------------------------------------------------------------------
(* A resynchronisation's answers are used.                                 *)
LEMMA FinishMoves ==
  ASSUME NEW c, NEW v, v.ver \in Nat, NEW w \in Seq(Events), Snapshots(v, c),
         NEW m, Sound(m), m.selected = c.selected, m.link = c.link, m.buffered = c.buffered, m.refetch = c.refetch,
         m.state \subseteq c.state \cup c.stateReq.val, m.stateReq = c.stateReq,
         "reconnect" \in m.lost <=> "reconnect" \in c.lost,
         \A x : Followed(v, c.buffered \o w, c) /\ x.state = m.state /\ x.lost = m.lost /\ x.refetch = m.refetch
                /\ x.stateReq = None /\ x.syncing = "no" => Followed(v, c.buffered \o w, x),
         NEW newest, NEW d, d = FinishResync(m, newest)
  PROVE  /\ Snapshots(v, d) /\ d.refetch.val \subseteq c.refetch.val
         /\ Streams(v, w, c) /\ (Follows(c, w) => Followed(v, c.buffered \o w, c)) /\ Follows(d, w) =>
              Followed(v, d.buffered \o w, d)
<1>1. PICK f : Ends(m, f, Len(m.buffered), d) BY FinishDoes
<1>2. Snapshots(v, m) BY SnapshotsAlike
<1>3. /\ Snapshots(v, d) /\ d.refetch.val \subseteq m.refetch.val
      /\ \A x \in Seq(Events) :
           Streams(v, x, m) /\ ("reconnect" \notin m.lost => Followed(v, m.buffered \o x, f[0])) =>
             ("reconnect" \notin d.lost => Followed(v, d.buffered \o x, d))
  BY <1>1, <1>2, FinishFollows
<1>4. /\ f[0].state = m.state /\ f[0].lost = m.lost /\ f[0].refetch = m.refetch /\ f[0].stateReq = None
      /\ f[0].syncing = "no"
  BY <1>1 DEF Ends, Changes, ClientFields
<1>5. d.selected = m.selected /\ d.link = m.link
  <2>1. Kept(f[0], f[Len(m.buffered)])
    <3>1. m.buffered \in Seq(Events) BY DEF Sound
    <3>2. Len(m.buffered) \in 0..Len(m.buffered) BY <3>1
    <3> QED BY <1>1, <3>2 DEF Ends
  <2>2. f[0].selected = m.selected /\ f[0].link = m.link BY <1>1 DEF Ends, Changes, ClientFields
  <2>3. /\ d.selected = f[Len(m.buffered)].selected
        /\ d.link = f[Len(m.buffered)].link
    BY <1>1 DEF Ends, Changes, ClientFields, ResyncFields
  <2> QED BY <2>1, <2>2, <2>3 DEF Kept, ClientFields
<1>6. ASSUME Streams(v, w, c), Follows(c, w) => Followed(v, c.buffered \o w, c), Follows(d, w)
      PROVE  Followed(v, d.buffered \o w, d)
  <2>1. Streams(v, w, m) BY <1>6, StreamsAlike
  <2>2. ASSUME "reconnect" \notin m.lost PROVE Followed(v, m.buffered \o w, f[0])
    <3>1. Follows(c, w) BY <1>5, <1>6, <2>2 DEF Follows
    <3> QED BY <1>4, <1>6, <3>1
  <2> QED BY <1>3, <1>6, <2>1, <2>2 DEF Follows
<1> QED BY <1>3, <1>6

(* The page goes on converging when the answers of a resynchronisation are *)
(* used.                                                                   *)
LEMMA ResyncApplied ==
  ASSUME Typed, Converging, ApplyResync
  PROVE  Converging'
<1> DEFINE c == client
           d == client'
           v == server
           w == wire
<1>1. Sound(c) /\ c.syncing = "requests" /\ ApplyResyncs(c, d) BY ApplyDoes DEF Typed
<1>2. UNCHANGED <<server, wire, socket>> BY Zenon DEF ApplyResync
<1>3. w \in Seq(Events) /\ v.ver \in Nat BY DEF Typed, StreamOK, ServerOK, ServerType
<1>4. /\ Snapshots(v, c)
      /\ socket = "up" => Streams(v, w, c)
      /\ socket = "up" /\ Follows(c, w) => Followed(v, c.buffered \o w, c)
  BY DEF Converging
<1> HIDE DEF c, d, v, w
<1>5. PICK m : /\ Applied(c, m)
               /\ \/ \E newest : d = FinishResync(m, newest)
                  \/ Changes(m, d, {"syncing", "fetch"})
  BY <1>1, Zenon DEF ApplyResyncs
<1>6. /\ Sound(m) /\ m.selected = c.selected /\ m.link = c.link /\ m.buffered = c.buffered /\ m.refetch = c.refetch
      /\ m.stateReq = c.stateReq
      /\ "reconnect" \in m.lost <=> "reconnect" \in c.lost
  BY <1>5 DEF Applied, Changes, ClientFields
<1>7. /\ m.state \subseteq c.state \cup c.stateReq.val
      /\ "state" \in m.lost \/ m.state = c.stateReq.val
  BY <1>5 DEF Applied
<1>8. /\ Snapshots(v, d) /\ d.refetch.val \subseteq c.refetch.val
      /\ Streams(v, w, c) /\ (Follows(c, w) => Followed(v, c.buffered \o w, c)) /\ Follows(d, w) =>
           Followed(v, d.buffered \o w, d)
  <2>1. CASE \E newest : d = FinishResync(m, newest)
    <3>1. PICK newest : d = FinishResync(m, newest) BY <2>1
    <3>2. ASSUME NEW x, Followed(v, c.buffered \o w, c), x.state = m.state, x.lost = m.lost, x.refetch = m.refetch,
                 x.stateReq = None, x.syncing = "no"
          PROVE  Followed(v, c.buffered \o w, x)
      <4>1. x.stateReq.val \subseteq c.stateReq.val BY <3>2, SlotFields
      <4> QED BY <1>6, <1>7, <3>2, <4>1, AppliedFollows
    <3> QED BY <1>3, <1>4, <1>6, <1>7, <3>1, <3>2, FinishMoves
  <2>2. CASE Changes(m, d, {"syncing", "fetch"})
    <3>1. /\ d.state = m.state /\ d.lost = m.lost /\ d.refetch = c.refetch /\ d.stateReq = c.stateReq
          /\ d.selected = c.selected /\ d.link = c.link /\ d.buffered = c.buffered
      BY <1>6, <2>2 DEF Changes, ClientFields
    <3>2. Snapshots(v, d) BY <1>4, <1>7, <3>1, SnapshotsAlike
    <3>3. Followed(v, c.buffered \o w, c) => Followed(v, c.buffered \o w, d) BY <1>7, <3>1, AppliedFollows
    <3> QED BY <1>6, <3>1, <3>2, <3>3 DEF Follows
  <2> QED BY <1>5, <2>1, <2>2
<1>9. socket = "up" => Streams(v, w, d) BY <1>4, <1>8, StreamsAlike
<1>10. /\ Snapshots(server, client') /\ (socket = "up" => Streams(server, wire, client'))
       /\ (socket = "up" /\ Follows(client', wire) => Followed(server, client'.buffered \o wire, client'))
  BY <1>4, <1>8, <1>9 DEF d, v, w
<1> QED BY <1>2, <1>10, ClientMoves

(* It does when a fetch of the history query lands, at the end of a        *)
(* resynchronisation or not.                                               *)
LEMMA FetchLanded ==
  ASSUME Typed, Converging, LandFetch
  PROVE  Converging'
<1> DEFINE c == client
           d == client'
           v == server
           w == wire
<1>1. Sound(c) /\ LandsFetch(c, d) BY LandFetchDoes DEF Typed
<1>2. UNCHANGED <<server, wire, socket>> BY Zenon DEF LandFetch
<1>3. w \in Seq(Events) /\ v.ver \in Nat BY DEF Typed, StreamOK, ServerOK, ServerType
<1>4. /\ Snapshots(v, c)
      /\ socket = "up" => Streams(v, w, c)
      /\ socket = "up" /\ Follows(c, w) => Followed(v, c.buffered \o w, c)
  BY DEF Converging
<1> HIDE DEF c, d, v, w
<1>5. PICK m : /\ Landed(c, m)
               /\ \/ c.syncing = "refetch" /\ \E newest : d = FinishResync(m, newest)
                  \/ d = m
  BY <1>1, Zenon DEF LandsFetch
<1>6. /\ Sound(m) /\ m.selected = c.selected /\ m.link = c.link /\ m.buffered = c.buffered /\ m.refetch = c.refetch
      /\ m.stateReq = c.stateReq /\ m.state = c.state /\ m.syncing = c.syncing
      /\ "reconnect" \in m.lost <=> "reconnect" \in c.lost
      /\ "state" \in m.lost <=> "state" \in c.lost
  BY <1>5 DEF Landed, Changes, ClientFields
<1>8. /\ Snapshots(v, d) /\ d.refetch.val \subseteq c.refetch.val
      /\ Streams(v, w, c) /\ (Follows(c, w) => Followed(v, c.buffered \o w, c)) /\ Follows(d, w) =>
           Followed(v, d.buffered \o w, d)
  <2>1. CASE c.syncing = "refetch" /\ \E newest : d = FinishResync(m, newest)
    <3>1. PICK newest : d = FinishResync(m, newest) BY <2>1
    <3>2. ASSUME NEW x, Followed(v, c.buffered \o w, c), x.state = m.state, x.lost = m.lost, x.refetch = m.refetch,
                 x.stateReq = None, x.syncing = "no"
          PROVE  Followed(v, c.buffered \o w, x)
      <4>1. x.stateReq.val \subseteq c.stateReq.val BY <3>2, SlotFields
      <4> QED BY <1>6, <2>1, <3>2, <4>1, FollowedAlike
    <3>3. m.state \subseteq c.state \cup c.stateReq.val BY <1>6
    <3> QED BY <1>3, <1>4, <1>6, <3>1, <3>2, <3>3, FinishMoves
  <2>2. CASE d = m
    <3>1. Snapshots(v, d) BY <1>4, <1>6, <2>2, SnapshotsAlike
    <3>2. Followed(v, c.buffered \o w, c) => Followed(v, c.buffered \o w, d) BY <1>6, <2>2, FollowedAlike
    <3> QED BY <1>6, <2>2, <3>1, <3>2 DEF Follows
  <2> QED BY <1>5, <2>1, <2>2
<1>9. socket = "up" => Streams(v, w, d) BY <1>4, <1>8, StreamsAlike
<1>10. /\ Snapshots(server, client') /\ (socket = "up" => Streams(server, wire, client'))
       /\ (socket = "up" /\ Follows(client', wire) => Followed(server, client'.buffered \o wire, client'))
  BY <1>4, <1>8, <1>9 DEF d, v, w
<1> QED BY <1>2, <1>10, ClientMoves

(* A read of the state of its own lands: an older one than what is shown   *)
(* is counted as lost.                                                     *)
LEMMA RefetchLanded ==
  ASSUME Typed, Converging, LandRefetch
  PROVE  Converging'
<1> DEFINE c == client
           d == client'
           v == server
           w == wire
<1>1. /\ Sound(c) /\ Changes(c, d, {"ref", "rendered", "state", "refetch", "lost"})
      /\ d.state = c.refetch.val /\ d.refetch = None
      /\ d.lost = IF \E s \in c.state, t \in c.refetch.val : t.ver < s.ver THEN c.lost \cup {"state"} ELSE c.lost
  BY LandRefetchDoes DEF Typed
<1>2. UNCHANGED <<server, wire, socket>> BY Zenon DEF LandRefetch
<1>3. c.refetch.st = "answered"
  <2> DEFINE b == Rendered(client)
  <2>1. b.refetch.st = "answered" BY Zenon DEF LandRefetch
  <2>2. Changes(client, b, {"ref", "rendered"}) BY RenderedSound DEF Typed
  <2> HIDE DEF b
  <2>3. b.refetch = client.refetch BY <2>2 DEF Changes, ClientFields
  <2> QED BY <2>1, <2>3
<1>4. /\ Snapshots(v, c)
      /\ socket = "up" => Streams(v, w, c)
      /\ socket = "up" /\ Follows(c, w) => Followed(v, c.buffered \o w, c)
  BY DEF Converging
<1> HIDE DEF c, d, v, w
<1>5. PICK t : c.refetch.val = {t} BY <1>1, <1>3, AnswerHolds DEF Sound
<1>6. PICK s : c.state = {s} BY <1>1 DEF Sound
<1>7. /\ d.selected = c.selected /\ d.link = c.link /\ d.buffered = c.buffered /\ d.stateReq = c.stateReq
      /\ d.syncing = c.syncing /\ d.refetch.val = {}
      /\ "reconnect" \in d.lost <=> "reconnect" \in c.lost
      /\ "state" \notin d.lost => "state" \notin c.lost /\ ~(t.ver < s.ver)
  BY <1>1, <1>5, <1>6, SlotFields DEF Changes, ClientFields
<1>8. Snapshots(v, d) BY <1>1, <1>4, <1>7 DEF Snapshots
<1>9. socket = "up" => Streams(v, w, d) BY <1>4, <1>7, StreamsAlike
<1>10. ASSUME socket = "up", Follows(d, w) PROVE Followed(v, d.buffered \o w, d)
  <2> DEFINE q == c.buffered \o w
  <2>1. Followed(v, q, c) BY <1>4, <1>7, <1>10 DEF Follows
  <2> HIDE DEF q
  <2>2. ASSUME c.syncing # "requests", "state" \notin d.lost PROVE UpToDate(t, v, q)
    <3>1. AsOf(t, v, q) \/ Overtaken(t, v, q, c) BY <1>5, <2>1 DEF Followed
    <3>2. s.ver \in Nat /\ t.ver \in Nat BY <1>4, <1>5, <1>6 DEF Snapshots, IsSnapshot
    <3>3. ~Overtaken(t, v, q, c) BY <1>6, <1>7, <2>2, <3>2 DEF Overtaken
    <3> QED BY <3>1, <3>3 DEF AsOf, UpToDate, Untold
  <2>3. Followed(v, q, d) BY <1>1, <1>5, <1>7, <2>1, <2>2 DEF Followed
  <2> QED BY <1>7, <2>3 DEF q
<1>11. /\ Snapshots(server, client') /\ (socket = "up" => Streams(server, wire, client'))
       /\ (socket = "up" /\ Follows(client', wire) => Followed(server, client'.buffered \o wire, client'))
  BY <1>8, <1>9, <1>10 DEF d, v, w
<1> QED BY <1>2, <1>11, ClientMoves

-----------------------------------------------------------------------------
(* The user and the network.                                               *)
LEMMA PageOpened ==
  ASSUME Typed, Converging, OpenPage
  PROVE  Converging'
<1>1. /\ client'.selected = TRUE /\ client'.link = client.link
      /\ client'.refetch = client.refetch /\ client'.state = client.state /\ client'.stateReq \in {None, Asked}
      /\ client'.link = "connected" => Fresh(client, client')
  BY OpenDoes DEF Typed
<1>2. UNCHANGED <<server, wire, socket>> BY Zenon DEF OpenPage
<1>3. client'.stateReq.val = {} BY <1>1, SlotFields
<1>4. Snapshots(server, client') BY <1>1, <1>3, SnapshotsAlike DEF Converging
<1>5. socket = "up" => Streams(server, wire, client') BY <1>1, StreamsAlike DEF Converging
<1>6. ASSUME socket = "up", Follows(client', wire) PROVE Followed(server, client'.buffered \o wire, client')
  <2>1. Fresh(client, client') BY <1>1, <1>6 DEF Follows
  <2>2. client'.buffered \o wire = wire
    <3>1. wire \in Seq(Events) BY DEF Typed, StreamOK
    <3> QED BY <2>1, <3>1, NothingHeld DEF Fresh
  <2> QED BY <1>5, <1>6, <2>1, <2>2, FreshFollows DEF Fresh
<1> QED BY <1>2, <1>4, <1>5, <1>6, ClientMoves

(* It does when the page is closed.                                        *)
LEMMA PageClosed ==
  ASSUME Typed, Converging, ClosePage
  PROVE  Converging'
<1>1. /\ client'.selected = FALSE /\ client'.refetch = client.refetch /\ client'.stateReq = None
      /\ client'.state = client.state
  BY CloseDoes DEF Typed
<1>2. UNCHANGED <<server, wire, socket>> BY Zenon DEF ClosePage
<1>3. client'.stateReq.val = {} BY <1>1, SlotFields
<1>4. Snapshots(server, client') BY <1>1, <1>3, SnapshotsAlike DEF Converging
<1>5. socket = "up" => Streams(server, wire, client') BY <1>1, StreamsAlike DEF Converging
<1> QED BY <1>1, <1>2, <1>4, <1>5, ClientMoves DEF Follows

(* It does when the connection is lost: nothing is claimed of it then.     *)
LEMMA ConnectionDropped ==
  ASSUME Converging, DropConnection
  PROVE  Converging'
<1>1. socket' = "down" /\ UNCHANGED <<server, client>> BY Zenon DEF DropConnection
<1> QED BY <1>1 DEF Converging

(* It does when the hub holds a connection again: the client is behind     *)
(* until its open arrives.                                                 *)
LEMMA ConnectionBack ==
  ASSUME Typed, Converging, Reconnect
  PROVE  Converging'
<1> DEFINE x == wire'
<1>1. x = <<Marker("open")>> /\ socket' = "up" /\ UNCHANGED <<server, client>> BY DEF Reconnect
<1> HIDE DEF x
<1>2. DOMAIN x = {1} /\ x[1].kind = "open"
  <2>1. Marker("open").kind = "open" BY DEF Marker, Event
  <2>2. DOMAIN x = {1} /\ x[1] = Marker("open") BY <1>1
  <2> QED BY <2>1, <2>2
<1>3. \A i \in DOMAIN x : ~IsState(x[i]) BY <1>2 DEF IsState, StateKinds
<1>4. Numbered(server, x) /\ LastWord(server, x) BY <1>3 DEF Numbered, LastWord
<1>5. Snapshots(server, client) /\ server.ver \in Nat BY DEF Converging, Typed, ServerOK, ServerType
<1>6. ASSUME NEW t \in client.refetch.val PROVE AsOf(t, server, x) \/ Beyond(t, server, x)
  <2>1. t.ver \in Nat /\ t.ver <= server.ver /\ (t.ver = server.ver => \A a : IsAspect(a) => Agree(t, server, a))
    BY <1>5, <1>6, SnapshotNumbers
  <2>2. CASE t.ver = server.ver BY <2>1, <2>2 DEF AsOf
  <2>3. CASE t.ver # server.ver BY <1>3, <1>5, <2>1, <2>3 DEF Beyond
  <2> QED BY <2>2, <2>3
<1>7. Streams(server, x, client) BY <1>4, <1>6 DEF Streams
<1>8. ~Follows(client, x) BY <1>2 DEF Follows, Unmarked, IsMarker
<1>9. Snapshots(server, client) /\ Streams(server, wire', client) /\ ~Follows(client, wire')
  BY <1>5, <1>7, <1>8 DEF x
<1> QED BY <1>1, <1>9 DEF Converging

-----------------------------------------------------------------------------
(* The page is up to date at first.                                        *)
LEMMA InitConverges == Init => Converging
<1> SUFFICES ASSUME Init PROVE Converging OBVIOUS
<1>1. Typed BY InitTyped
<1>2. wire = <<>> /\ client.state = {Snapshot} /\ client.stateReq = None /\ client.refetch = None
      /\ client.buffered = <<>>
  BY DEF Init
<1>3. /\ IsSnapshot(Snapshot) /\ \A q : UpToDate(Snapshot, server, q)
  BY <1>1, SnapshotNow
<1>4. client.stateReq.val = {} /\ client.refetch.val = {} BY <1>2, SlotFields
<1>5. Snapshots(server, client) BY <1>2, <1>3, <1>4 DEF Snapshots
<1>6. Numbered(server, wire) /\ LastWord(server, wire) BY <1>2 DEF Numbered, LastWord
<1>7. Streams(server, wire, client) BY <1>4, <1>6 DEF Streams
<1>8. <<>> \o wire = wire
  <2>1. wire \in Seq(Events) BY <1>1 DEF Typed, StreamOK
  <2> QED BY <2>1, NothingHeld
<1>9. Followed(server, client.buffered \o wire, client)
  BY <1>2, <1>3, <1>4, <1>6, <1>8 DEF Followed
<1> QED BY <1>5, <1>7, <1>9 DEF Converging

(* No step makes the page lack what is neither held back nor on its way.   *)
LEMMA ConvergingHolds == Typed /\ Converging /\ [Next]_vars => Converging'
<1> SUFFICES ASSUME Typed, Converging, [Next]_vars PROVE Converging' OBVIOUS
<1>1. CASE ServerWrites BY <1>1, ServerSpeaks
<1>2. CASE ServerAnswers BY <1>2, Answered
<1>3. CASE ClientSteps BY <1>3, Delivered, ResyncApplied, FetchLanded, RefetchLanded DEF ClientSteps
<1>4. CASE RefreshState \/ LoadOlder \/ OpenPage \/ ClosePage BY <1>4, Asks, PageOpened, PageClosed
<1>5. CASE DropConnection \/ Reconnect BY <1>5, ConnectionDropped, ConnectionBack
<1>6. CASE UNCHANGED vars BY <1>6 DEF vars, Converging
<1> QED BY <1>1, <1>2, <1>3, <1>4, <1>5, <1>6 DEF Next

(* A snapshot that agrees with the server in every aspect is the server's. *)
LEMMA SameSnapshot ==
  ASSUME NEW s, IsSnapshot(s), NEW v, v \in ServerType, \A a : IsAspect(a) => Agree(s, v, a),
         NEW z, z = [s EXCEPT !.ver = v.ver]
  PROVE  z = [run |-> v.run, phase |-> v.phase, approvals |-> v.approvals, ver |-> v.ver]
<1>1. s = [f \in SnapFields |-> s[f]] BY DEF IsSnapshot
<1>2. View(s, {}) = View(v, {}) BY DEF IsAspect, Agree
<1>3. s.run = v.run /\ s.phase = v.phase BY <1>2 DEF View
<1>4. ASSUME NEW x PROVE x \in s.approvals <=> x \in v.approvals
  <2>1. View(s, {x}) = View(v, {x}) BY DEF IsAspect, Agree
  <2>2. {x} # {} OBVIOUS
  <2> DEFINE m == IF {x} \subseteq s.approvals THEN 1 ELSE 0
             n == IF {x} \subseteq v.approvals THEN 1 ELSE 0
  <2>3. <<m, "">> = <<n, "">> BY <2>1, <2>2 DEF View
  <2> HIDE DEF m, n
  <2>4. m = n BY <2>3
  <2>5. ({x} \subseteq s.approvals) <=> ({x} \subseteq v.approvals) BY <2>4 DEF m, n
  <2> QED BY <2>5
<1>5. s.approvals = v.approvals BY <1>4
<1>6. z = [f \in SnapFields |-> z[f]] /\ z.ver = v.ver /\ z.run = s.run /\ z.phase = s.phase
      /\ z.approvals = s.approvals
  BY <1>1, Zenon DEF SnapFields
<1> DEFINE y == [run |-> v.run, phase |-> v.phase, approvals |-> v.approvals, ver |-> v.ver]
<1>7. y = [f \in SnapFields |-> y[f]] /\ y.ver = v.ver /\ y.run = v.run /\ y.phase = v.phase
      /\ y.approvals = v.approvals
  BY Zenon DEF SnapFields
<1> HIDE DEF y
<1>8. \A f \in SnapFields : z[f] = y[f] BY <1>3, <1>5, <1>6, <1>7 DEF SnapFields
<1>9. z = y BY <1>6, <1>7, <1>8
<1> QED BY <1>9 DEF y

(* A page that lacks only what is on its way is up to date when nothing    *)
(* is.                                                                     *)
LEMMA QuietConverges == Typed /\ Converging => StateConverges
<1> SUFFICES ASSUME Typed, Converging, Quiet, client.lost \cap {"reconnect", "state"} = {}, NEW s \in client.state
             PROVE  [s EXCEPT !.ver = server.ver] = Snapshot
  BY DEF StateConverges
<1>1. wire = <<>> /\ socket = "up" /\ client.link = "connected" /\ client.selected /\ client.syncing = "no"
  BY DEF Quiet
<1>2. client.buffered = <<>> BY <1>1 DEF Typed, Sound
<1>3. <<>> \o wire = wire BY <1>1
<1>4. Follows(client, wire) BY <1>1 DEF Follows, Unmarked
<1>5. Followed(server, wire, client) BY <1>1, <1>2, <1>3, <1>4 DEF Converging
<1>6. UpToDate(s, server, wire) BY <1>1, <1>5 DEF Followed
<1>7. \A a : IsAspect(a) => Agree(s, server, a) BY <1>1, <1>6 DEF UpToDate, Untold
<1>8. IsSnapshot(s) BY DEF Converging, Snapshots
<1>9. server \in ServerType BY DEF Typed, ServerOK
<1> DEFINE z == [s EXCEPT !.ver = server.ver]
<1>10. z = [s EXCEPT !.ver = server.ver] OBVIOUS
<1> HIDE DEF z
<1>11. z = [run |-> server.run, phase |-> server.phase, approvals |-> server.approvals, ver |-> server.ver]
  BY <1>7, <1>8, <1>9, <1>10, SameSnapshot
<1> QED BY <1>10, <1>11 DEF Snapshot

(* When nothing is under way the page shows the Run, the phase and the     *)
(* approvals the Runtime has (processEvent, mergeSnapshot and the          *)
(* held-back events of LiveWebSocketProvider), whatever was delivered,     *)
(* held back, resynchronised, refetched, dropped and reconnected before.   *)
THEOREM PageConverges == Spec => []StateConverges
<1>1. Init => Converging BY InitConverges
<1>2. Typed /\ Converging /\ [Next]_vars => Converging' BY ConvergingHolds
<1>3. Typed /\ Converging => StateConverges BY QuietConverges
<1> QED BY <1>1, <1>2, <1>3, TypedInvariant, PTL DEF Spec

-----------------------------------------------------------------------------
(* What a resynchronisation has seen.  A Run whose end the client has heard*)
(* of writes no more (RunOver); so what is read afterwards has all of it,  *)
(* and what is merged or refetched over it is as new or counted as lost.   *)
EndsOver(v, w) == \A i \in DOMAIN w : w[i].kind = "run_ended" => RunOver(v, w[i].run)
RunKept(v, r) == r # 0 => RunOver(v, r)
Within(J, r, n) == r # 0 => \A i \in DOMAIN J : J[i].run = r => i <= n
FetchKept(J, f) == IsFetch(f) /\ History(Records, J, f.base) /\ \A ps \in f.val : History(Records, J, ps)
Answers(J, c, p) ==
  Latest(Records, J, p) /\ Within(J, c.ended, NewestSeq(p)) /\ Within(J, c.resynced, NewestSeq(p))
Keeps(v, J, c) ==
  /\ EndsOver(v, c.buffered) /\ RunKept(v, c.ended) /\ RunKept(v, c.resynced)
  /\ History(Records, J, c.pages) /\ FetchKept(J, c.fetch)
  /\ \A p \in c.historyReq.val : Answers(J, c, p)
  /\ "history" \notin c.lost => Within(J, c.resynced, HistoryNewestSeq(c.pages))
Keeping == EndsOver(server, wire) /\ Keeps(server, journal, client)

(* A client that has the same pages and answers, or fewer.                 *)
LEMMA KeepsAlike ==
  ASSUME NEW v, NEW J, NEW c, Keeps(v, J, c), NEW d, EndsOver(v, d.buffered), RunKept(v, d.ended),
         d.ended = c.ended \/ d.historyReq.val = {}, d.resynced \in {c.resynced, 0}, d.pages = c.pages,
         FetchKept(J, d.fetch), d.historyReq.val \subseteq c.historyReq.val,
         "history" \in c.lost => "history" \in d.lost \/ d.resynced = 0
  PROVE  Keeps(v, J, d)
<1>1. RunKept(v, d.resynced) /\ \A n : Within(J, c.resynced, n) => Within(J, d.resynced, n)
  BY DEF Keeps, RunKept, Within
<1>2. History(Records, J, d.pages) BY DEF Keeps
<1>3. "history" \notin d.lost => Within(J, d.resynced, HistoryNewestSeq(d.pages))
  <2>1. d.resynced = 0 => \A n : Within(J, d.resynced, n) BY DEF Within
  <2> QED BY <1>1, <2>1 DEF Keeps
<1>4. ASSUME NEW p \in d.historyReq.val PROVE Answers(J, d, p)
  <2>1. Answers(J, c, p) /\ d.ended = c.ended BY <1>4 DEF Keeps
  <2> QED BY <1>1, <2>1 DEF Answers
<1> QED BY <1>1, <1>2, <1>3, <1>4 DEF Keeps

(* A step that changes none of these fields.                               *)
LEMMA KeepsUntouched ==
  ASSUME NEW v, NEW J, NEW c, Keeps(v, J, c), NEW d, NEW F, Changes(c, d, F),
         {"buffered", "ended", "resynced", "pages", "fetch", "historyReq", "lost"} \cap F = {}
  PROVE  Keeps(v, J, d)
<1>1. /\ d.buffered = c.buffered /\ d.ended = c.ended /\ d.resynced = c.resynced /\ d.pages = c.pages
      /\ d.fetch = c.fetch /\ d.historyReq = c.historyReq /\ d.lost = c.lost
  BY DEF Changes, ClientFields
<1> QED BY <1>1, KeepsAlike DEF Keeps

(* The fetches under way at the start of a resynchronisation or a fetch.   *)
LEMMA FetchStarts ==
  ASSUME NEW J \in Seq(Records), NEW st, NEW older, NEW ps, History(Records, J, ps)
  PROVE  /\ FetchKept(J, Fetch(st, older, ps)) /\ FetchKept(J, NoFetch)
         /\ \A f \in FirstFetches : FetchKept(J, f)
<1>1. History(Records, J, NoHistory)
  <2>1. NoHistory \in Seq(Pages(Records)) /\ DOMAIN NoHistory = {} BY DEF NoHistory
  <2> QED BY <2>1, NothingLoaded DEF History
<1>2. \A s, o, b : History(Records, J, b) => FetchKept(J, Fetch(s, o, b)) BY DEF Fetch, FetchKept, IsFetch
<1> QED BY <1>1, <1>2 DEF NoFetch, FirstFetches

(* Nothing answered and nothing heard.                                     *)
LEMMA NoneAnswered == None.val = {} /\ Asked.val = {} /\ Slot("failed", {}).val = {}
BY DEF None, Asked, Slot

-----------------------------------------------------------------------------
(* The journal K is J and more records, of Runs that were not over.        *)
Lengthens(v, J, K) ==
  /\ DOMAIN J \subseteq DOMAIN K /\ \A i \in DOMAIN J : K[i] = J[i]
  /\ \A i \in DOMAIN K \ DOMAIN J : ~RunOver(v, K[i].run)

(* A history of a journal is one of what it becomes.                       *)
LEMMA HistoryGrows ==
  ASSUME NEW T, NEW v, NEW J, NEW K, Lengthens(v, J, K)
  PROVE  /\ \A p : Latest(T, J, p) => Latest(T, K, p)
         /\ \A ps : History(T, J, ps) => History(T, K, ps)
<1>1. \A r : Taken(r, J) => Taken(r, K) BY DEF Taken, Lengthens
<1> QED BY <1>1 DEF Latest, History

(* What has all of a Run that is over has it for good.                     *)
LEMMA WithinGrows ==
  ASSUME NEW v, NEW J, NEW K, Lengthens(v, J, K), NEW r, RunKept(v, r), NEW n, Within(J, r, n)
  PROVE  Within(K, r, n)
BY DEF Within, RunKept, Lengthens

(* The server writes on.                                                   *)
LEMMA KeepsGrows ==
  ASSUME NEW v, NEW u, NEW J, NEW K, Lengthens(v, J, K), \A r : RunOver(v, r) => RunOver(u, r),
         NEW c, Keeps(v, J, c)
  PROVE  Keeps(u, K, c)
<1>1. EndsOver(u, c.buffered) /\ RunKept(u, c.ended) /\ RunKept(u, c.resynced)
  BY DEF Keeps, EndsOver, RunKept
<1>2. RunKept(v, c.ended) /\ RunKept(v, c.resynced) BY DEF Keeps
<1>3. History(Records, K, c.pages) BY HistoryGrows DEF Keeps
<1>4. FetchKept(K, c.fetch) BY HistoryGrows DEF Keeps, FetchKept
<1>5. ASSUME NEW p \in c.historyReq.val PROVE Answers(K, c, p)
  <2>1. Answers(J, c, p) BY DEF Keeps
  <2> QED BY <1>2, <2>1, HistoryGrows, WithinGrows DEF Answers
<1>6. "history" \notin c.lost => Within(K, c.resynced, HistoryNewestSeq(c.pages))
  BY <1>2, WithinGrows DEF Keeps
<1> QED BY <1>1, <1>3, <1>4, <1>5, <1>6 DEF Keeps

(* What a step of the server adds to the journal is of a Run that is not   *)
(* over.                                                                   *)
LEMMA JournalLengthens ==
  ASSUME JournalOK, JournalOK', JournalSteps
  PROVE  Lengthens(server, journal, journal')
<1>1. /\ journal \in Seq(Records) /\ DOMAIN journal = 1..Len(journal) /\ Len(journal) \in Nat
      /\ journal' \in Seq(Records) /\ DOMAIN journal' = 1..Len(journal') /\ Len(journal') \in Nat
  BY DEF JournalOK
<1>2. \A i \in DOMAIN journal : journal'[i] = journal[i] BY DEF JournalSteps
<1>3. CASE journal' = journal BY <1>2, <1>3 DEF Lengthens
<1>4. CASE Len(journal') = Len(journal) + 1 /\ journal'[Len(journal) + 1].run \in {server.run, server.ending}
  <2>1. DOMAIN journal \subseteq DOMAIN journal' BY <1>1, <1>4
  <2>2. ~RunOver(server, journal'[Len(journal) + 1].run) BY <1>4 DEF RunOver
  <2>3. \A i \in DOMAIN journal' \ DOMAIN journal : i = Len(journal) + 1 BY <1>1, <1>4
  <2> QED BY <1>2, <2>1, <2>2, <2>3 DEF Lengthens
<1> QED BY <1>3, <1>4 DEF JournalSteps

(* Ends of Runs that are over, published behind others.                    *)
LEMMA EndsFollow ==
  ASSUME NEW v, NEW w \in Seq(Events), NEW es \in Seq(Events), EndsOver(v, w), EndsOver(v, es)
  PROVE  EndsOver(v, w \o es)
<1>1. /\ w \o es \in Seq(Events) /\ Len(w \o es) = Len(w) + Len(es)
      /\ \A i \in 1..Len(w) + Len(es) : (w \o es)[i] = IF i <= Len(w) THEN w[i] ELSE es[i - Len(w)]
  BY ConcatProperties
<1> DEFINE x == w \o es
<1> HIDE DEF x
<1>2. x \in Seq(Events) /\ DOMAIN x = 1..Len(x) /\ Len(x) = Len(w) + Len(es) BY <1>1 DEF x
<1>3. ASSUME NEW i \in DOMAIN x, x[i].kind = "run_ended" PROVE RunOver(v, x[i].run)
  <2>1. x[i] = IF i <= Len(w) THEN w[i] ELSE es[i - Len(w)] BY <1>1, <1>2 DEF x
  <2>2. i <= Len(w) => i \in DOMAIN w BY <1>2
  <2>3. ~(i <= Len(w)) => i - Len(w) \in DOMAIN es BY <1>2
  <2> QED BY <1>3, <2>1, <2>2, <2>3 DEF EndsOver
<1> QED BY <1>3 DEF EndsOver, x

(* An open and a close end no Run.                                         *)
LEMMA MarkersEndNothing ==
  \A v : EndsOver(v, <<>>) /\ EndsOver(v, <<Marker("close")>>) /\ EndsOver(v, <<Marker("open")>>)
<1>1. \A v : EndsOver(v, <<>>) BY DEF EndsOver
<1>2. ASSUME NEW v, NEW k \in {"open", "close"} PROVE EndsOver(v, <<Marker(k)>>)
  <2> DEFINE m == Marker(k)
  <2>1. m.kind # "run_ended" BY DEF Marker, Event
  <2> HIDE DEF m
  <2>2. DOMAIN <<m>> = {1} /\ <<m>>[1] = m OBVIOUS
  <2> QED BY <2>1, <2>2 DEF EndsOver, m
<1> QED BY <1>1, <1>2

(* A step of the server keeps it.                                          *)
LEMMA ServerKeeps ==
  ASSUME Typed, Keeping, ServerWrites
  PROVE  Keeping'
<1>1. ServerOK /\ JournalOK /\ StreamOK(wire) /\ socket \in {"up", "down"} BY DEF Typed
<1>2. JournalOK' /\ JournalSteps BY <1>1, WritesJournal
<1>3. Lengthens(server, journal, journal') BY <1>1, <1>2, JournalLengthens
<1>4. \A r : RunOver(server, r) => RunOver(server', r) BY <1>1, RunsStayBehind
<1>5. client' = client /\ StreamOK(wire') BY <1>1, ServerTells
<1>6. PICK es : Announces(server, es, server') /\ Told(es) BY <1>1, ServerTells
<1>7. Keeps(server, journal, client) /\ EndsOver(server, wire) BY DEF Keeping
<1>8. Keeps(server', journal', client) BY <1>3, <1>4, <1>7, KeepsGrows
<1>9. es \in Seq(Events) /\ EndsOver(server', es) BY <1>6, Zenon DEF Announces, EndsOver
<1>10. EndsOver(server', wire) BY <1>4, <1>7 DEF EndsOver
<1>11. EndsOver(server', wire \o es) BY <1>1, <1>9, <1>10, EndsFollow DEF StreamOK
<1>12. EndsOver(server', wire') BY <1>6, <1>10, <1>11, MarkersEndNothing DEF Told
<1> QED BY <1>5, <1>8, <1>12 DEF Keeping

-----------------------------------------------------------------------------
(* A page more is read where the loaded ones begin.                        *)
LEMMA NextPageHistory ==
  ASSUME JournalOK, NEW ps, History(Records, journal, ps)
  PROVE  History(Records, journal, FetchNextPage(ps, journal, PageSize))
<1>1. journal \in Seq(Records) /\ Placed(journal) BY DEF JournalOK, Placed
<1>2. Len(journal) \in Nat /\ PageSize \in Nat \ {0} BY <1>1, BoundsAreNumbers
<1>3. ps \in Seq(Pages(Records)) /\ \A r \in LoadedRecords(ps) : Taken(r, journal) BY DEF History
<1>4. NextPageParam(ps) \in 0..Len(journal) BY <1>1, <1>3, NextIs
<1> DEFINE p == ReadPage(journal, NextPageParam(ps), PageSize)
<1>5. Latest(Records, journal, p)
  <2>1. NextPageParam(ps) \in Nat BY <1>2, <1>4
  <2> QED BY <1>1, <1>2, <2>1, ReadLatest
<1> HIDE DEF p
<1>6. History(Records, journal, Append(ps, p)) BY <1>1, <1>5, HistoryMore
<1> QED BY <1>6 DEF FetchNextPage, p

(* The refetch of the history is the read of the latest page and then, one *)
(* by one, of the pages behind it.                                         *)
LEMMA Refetched ==
  ASSUME NEW ps, NEW n \in Nat, DOMAIN [i \in 1..(Len(ps) - 1) |-> i] = 1..n
  PROVE  \E f : /\ f[0] = <<ReadPage(journal, 0, PageSize)>>
                /\ \A k \in 0..(n - 1) : \E i : f[k + 1] = RefetchNext(f[k], i)
                /\ RefetchPages(ps, journal, PageSize) = f[n]
<1> DEFINE p == <<ReadPage(journal, 0, PageSize)>>
           s == [i \in 1..(Len(ps) - 1) |-> i]
           P(i) == i = [S \in SUBSET DOMAIN s |->
                          IF S = {} THEN p ELSE IF NextPageParam(i[S \ {Max(S)}]) = 0 THEN i[S \ {Max(S)}]
                                                ELSE FetchNextPage(i[S \ {Max(S)}], journal, PageSize)]
           it == CHOOSE i : P(i)
           f == [k \in 0..n |-> it[1..k]]
<1>1. RefetchPages(ps, journal, PageSize) = it[1..n]
  BY DEF RefetchPages, FoldLeft, MapThenFoldSet
<1> HIDE DEF p, s
<1>2. \A a, b : Advance("refetch", a, b) = IF NextPageParam(a) = 0 THEN a ELSE FetchNextPage(a, journal, PageSize)
  BY DEF Advance, RefetchNext
<1>3. \A i : P(i) <=> Folding("refetch", i, p, s, n)
  <2>1. DOMAIN s = 1..n BY DEF s
  <2> QED BY <1>2, <2>1, Zenon DEF Folding
<1>4. \E i : P(i) BY <1>3, FoldingExists, Zenon
<1>5. P(it) BY <1>4, Zenon
<1> HIDE DEF it, P
<1>6. Folding("refetch", it, p, s, n) BY <1>3, <1>5
<1>7. /\ it[1..0] = p
      /\ \A k \in 0..(n - 1) : it[1..(k + 1)] = Advance("refetch", it[1..k], s[k + 1])
  <2>1. Stepping("refetch", it, p, s, n) BY <1>6, FoldingSteps
  <2> QED BY <2>1 DEF Stepping
<1>8. f[0] = p /\ f[n] = it[1..n] BY <1>7
<1>9. \A k \in 0..(n - 1) : f[k + 1] = RefetchNext(f[k], s[k + 1])
  <2>1. \A k \in 0..(n - 1) : k \in 0..n /\ k + 1 \in 0..n OBVIOUS
  <2>2. \A k \in 0..n : f[k] = it[1..k] OBVIOUS
  <2> HIDE DEF f
  <2>3. \A a, b : Advance("refetch", a, b) = RefetchNext(a, b) BY DEF Advance
  <2> QED BY <1>7, <2>1, <2>2, <2>3
<1> HIDE DEF f
<1> QED BY <1>1, <1>8, <1>9, Zenon DEF p

(* What is read again is a history.                                        *)
LEMMA RefetchHistory ==
  ASSUME JournalOK, NEW ps \in Seq(Pages(Records))
  PROVE  History(Records, journal, RefetchPages(ps, journal, PageSize))
<1>1. journal \in Seq(Records) /\ Placed(journal) /\ PageSize \in Nat \ {0}
  BY BoundsAreNumbers DEF JournalOK, Placed
<1> DEFINE n == IF Len(ps) = 0 THEN 0 ELSE Len(ps) - 1
<1>2. n \in Nat /\ DOMAIN [i \in 1..(Len(ps) - 1) |-> i] = 1..n
  <2>1. Len(ps) \in Nat OBVIOUS
  <2> QED BY <2>1
<1> HIDE DEF n
<1>3. PICK f : /\ f[0] = <<ReadPage(journal, 0, PageSize)>>
               /\ \A k \in 0..(n - 1) : \E i : f[k + 1] = RefetchNext(f[k], i)
               /\ RefetchPages(ps, journal, PageSize) = f[n]
  BY <1>2, Refetched
<1> DEFINE T == {m \in Nat : m <= n => History(Records, journal, f[m])}
<1>4. 0 \in T
  <2> DEFINE p == ReadPage(journal, 0, PageSize)
  <2>1. Latest(Records, journal, p) BY <1>1, ReadLatest
  <2>2. History(Records, journal, NoHistory)
    <3>1. NoHistory \in Seq(Pages(Records)) /\ DOMAIN NoHistory = {} BY DEF NoHistory
    <3> QED BY <3>1, NothingLoaded DEF History
  <2> HIDE DEF p
  <2>3. History(Records, journal, <<p>>) BY <1>1, <2>1, <2>2, HistoryMore
  <2> QED BY <1>3, <2>3 DEF p
<1>5. ASSUME NEW m \in Nat, m \in T PROVE m + 1 \in T
  <2> SUFFICES ASSUME m + 1 <= n PROVE History(Records, journal, f[m + 1]) OBVIOUS
  <2>1. m \in 0..(n - 1) /\ History(Records, journal, f[m]) BY <1>2, <1>5
  <2>2. PICK i : f[m + 1] = RefetchNext(f[m], i) BY <1>3, <2>1
  <2>3. f[m + 1] \in {f[m], FetchNextPage(f[m], journal, PageSize)} BY <2>2 DEF RefetchNext
  <2> QED BY <2>1, <2>3, NextPageHistory
<1> HIDE DEF T
<1>6. n \in T BY <1>2, <1>4, <1>5, Stepwise
<1> QED BY <1>2, <1>3, <1>6 DEF T

-----------------------------------------------------------------------------
(* One event ends a Run that is over, or leaves the note of the last one.  *)
LEMMA EndedKept ==
  ASSUME NEW v, NEW c, NEW e, NEW d, Processes(c, e, d), e.kind = "run_ended" => RunOver(v, e.run),
         RunKept(v, c.ended)
  PROVE  RunKept(v, d.ended)
<1>1. d.ended \in {c.ended, e.run} /\ (d.ended # c.ended => e.kind = "run_ended") BY DEF Processes
<1> QED BY <1>1 DEF RunKept

(* Whatever is replayed.                                                   *)
LEMMA ReplayEnds ==
  ASSUME NEW f, NEW b \in Seq(Events), Replays(f, f[0], b, Len(b)), \A k \in 0..Len(b) : Kept(f[0], f[k]),
         f[0].draining = TRUE, f[0].stateReq = None, f[0].syncing = "no",
         NEW v, EndsOver(v, b), RunKept(v, f[0].ended), NEW k \in 0..Len(b)
  PROVE  RunKept(v, f[k].ended)
<1> DEFINE T == {n \in Nat : n <= Len(b) => RunKept(v, f[n].ended)}
<1>1. 0 \in T OBVIOUS
<1>2. ASSUME NEW n \in Nat, n \in T PROVE n + 1 \in T
  <2> SUFFICES ASSUME n + 1 <= Len(b) PROVE RunKept(v, f[n + 1].ended) OBVIOUS
  <2>1. Len(b) \in Nat /\ n \in 0..(Len(b) - 1) /\ n <= Len(b) /\ n + 1 \in DOMAIN b OBVIOUS
  <2>2. Processes(f[n], b[n + 1], f[n + 1]) BY <2>1, ReplayProcesses
  <2>3. RunKept(v, f[n].ended) BY <1>2, <2>1
  <2>4. b[n + 1].kind = "run_ended" => RunOver(v, b[n + 1].run) BY <2>1 DEF EndsOver
  <2> DEFINE x == f[n]
             y == f[n + 1]
             e == b[n + 1]
  <2>5. Processes(x, e, y) /\ RunKept(v, x.ended) /\ (e.kind = "run_ended" => RunOver(v, e.run)) BY <2>2, <2>3, <2>4
  <2> HIDE DEF x, y, e
  <2>6. RunKept(v, y.ended) BY <2>5, EndedKept
  <2> QED BY <2>6 DEF y
<1> HIDE DEF T
<1>3. k \in Nat /\ k \in T BY <1>1, <1>2, Stepwise
<1>4. k <= Len(b) OBVIOUS
<1> QED BY <1>3, <1>4 DEF T

(* The end of a resynchronisation.                                         *)
LEMMA FinishKeeps ==
  ASSUME NEW v, NEW J \in Seq(Records), NEW c, Sound(c), Keeps(v, J, c), NEW f, NEW d, Ends(c, f, Len(c.buffered), d)
  PROVE  Keeps(v, J, d)
<1> DEFINE b == c.buffered
           n == Len(b)
<1>1. b \in Seq(Events) /\ n \in Nat /\ n \in 0..n BY DEF Sound
<1>2. /\ \A k \in 0..n : Kept(f[0], f[k])
      /\ Replays(f, f[0], b, n)
      /\ f[0].draining = TRUE /\ f[0].stateReq = None /\ f[0].syncing = "no"
  BY Zenon DEF Ends
<1>3. f[0].ended = c.ended /\ f[0].resynced = c.resynced /\ f[0].pages = c.pages
  BY DEF Ends, Changes, ClientFields
<1>4. d.ended = f[n].ended /\ d.resynced = f[n].resynced /\ d.pages = f[n].pages
  BY DEF Ends, Changes, ClientFields, ResyncFields
<1>5. Kept(f[0], f[n]) BY <1>1, <1>2
<1>6. d.resynced = c.resynced /\ d.pages = c.pages BY <1>3, <1>4, <1>5 DEF Kept, ClientFields
<1>7. /\ d.buffered = <<>> /\ d.historyReq \in {None, Asked}
      /\ d.fetch \in {NoFetch, c.fetch} /\ d.lost \in {c.lost, c.lost \ {"reconnect"}}
  BY DEF Ends
<1> HIDE DEF b, n
<1>8. EndsOver(v, b) /\ RunKept(v, c.ended) /\ FetchKept(J, c.fetch) /\ History(Records, J, c.pages)
  BY DEF Keeps, b
<1>9. RunKept(v, f[n].ended)
  <2>1. RunKept(v, f[0].ended) BY <1>3, <1>8
  <2> QED BY <1>1, <1>2, <1>8, <2>1, ReplayEnds DEF n
<1>10. FetchKept(J, d.fetch) BY <1>7, <1>8, FetchStarts
<1>11. d.historyReq.val = {} BY <1>7, SlotFields
<1>12. EndsOver(v, d.buffered) BY <1>7, MarkersEndNothing
<1>13. "history" \in c.lost => "history" \in d.lost BY <1>7
<1> QED BY <1>4, <1>6, <1>9, <1>10, <1>11, <1>12, <1>13, KeepsAlike

-----------------------------------------------------------------------------
(* The newest number of a page is one of the journal's, or 0.              *)
LEMMA NewestOfPage ==
  ASSUME NEW T, NEW J \in Seq(T), NEW p, Latest(T, J, p)
  PROVE  NewestSeq(p) \in 0..Len(J)
<1>1. p \in Pages(T) /\ p.records \in Seq(T) BY DEF Latest, Pages
<1>2. Len(J) \in Nat /\ DOMAIN J = 1..Len(J) OBVIOUS
<1>3. CASE p.records = <<>> BY <1>2, <1>3 DEF NewestSeq
<1>4. CASE p.records # <<>>
  <2>1. Len(p.records) \in Nat \ {0} /\ NewestSeq(p) = p.records[Len(p.records)].seq BY <1>1, <1>4, EndsOf
  <2>2. Len(p.records) \in DOMAIN p.records BY <1>1, <2>1
  <2>3. p.records[Len(p.records)] \in ToSet(p.records) BY <2>2 DEF ToSet
  <2>4. Taken(p.records[Len(p.records)], J) BY <2>3 DEF Latest
  <2> QED BY <1>2, <2>1, <2>4 DEF Taken
<1> QED BY <1>3, <1>4

(* What lies within lies within more.                                      *)
LEMMA WithinMore ==
  ASSUME NEW J \in Seq(Records), NEW r, NEW a \in Int, NEW b \in Int, a <= b, Within(J, r, a)
  PROVE  Within(J, r, b)
<1>1. DOMAIN J = 1..Len(J) /\ Len(J) \in Nat OBVIOUS
<1>2. \A i \in DOMAIN J : i \in Int BY <1>1
<1> QED BY <1>2 DEF Within

(* The stream opens or closes.                                             *)
LEMMA StatusKeeps ==
  ASSUME NEW v, NEW J \in Seq(Records), NEW c, Sound(c), Keeps(v, J, c), NEW link \in Links, NEW d,
         d = OnStatusChange(c, link)
  PROVE  Keeps(v, J, d)
<1>1. Switches(c, link, d) BY StatusDoes
<1>2. d.ended = c.ended /\ d.resynced = c.resynced /\ d.pages = c.pages
  BY <1>1 DEF Switches, Changes, ClientFields, ResyncFields
<1>3. \/ d.historyReq = Asked /\ d.fetch = NoFetch /\ d.buffered = <<>> /\ d.lost = c.lost \ {"reconnect"}
      \/ /\ d.historyReq = c.historyReq /\ d.buffered = c.buffered /\ d.fetch = c.fetch
         /\ d.lost \in {c.lost, c.lost \cup {"reconnect"}}
  BY <1>1 DEF Switches, Fresh
<1>4. History(Records, J, c.pages) /\ FetchKept(J, c.fetch) /\ EndsOver(v, c.buffered) /\ RunKept(v, c.ended)
  BY DEF Keeps
<1>5. FetchKept(J, d.fetch) /\ EndsOver(v, d.buffered) /\ d.historyReq.val \subseteq c.historyReq.val
  BY <1>3, <1>4, FetchStarts, MarkersEndNothing, SlotFields
<1>6. "history" \in c.lost => "history" \in d.lost BY <1>3
<1> QED BY <1>2, <1>4, <1>5, <1>6, KeepsAlike

(* An event is held back.                                                  *)
LEMMA HeldKeeps ==
  ASSUME NEW v, NEW J \in Seq(Records), NEW c, Sound(c), Keeps(v, J, c), NEW e \in Events,
         e.kind = "run_ended" => RunOver(v, e.run), NEW d, Changes(c, d, {"buffered"}),
         d.buffered = Append(c.buffered, e)
  PROVE  Keeps(v, J, d)
<1>1. /\ d.ended = c.ended /\ d.resynced = c.resynced /\ d.pages = c.pages /\ d.fetch = c.fetch
      /\ d.historyReq = c.historyReq /\ d.lost = c.lost
  BY DEF Changes, ClientFields
<1>2. c.buffered \in Seq(Events) BY DEF Sound
<1>3. EndsOver(v, d.buffered)
  <2>1. EndsOver(v, c.buffered) BY DEF Keeps
  <2> DEFINE b == c.buffered
             a == d.buffered
  <2>2. /\ DOMAIN a = DOMAIN b \cup {Len(b) + 1} /\ (\A i \in DOMAIN b : a[i] = b[i]) /\ a[Len(b) + 1] = e
    BY <1>2
  <2> HIDE DEF a, b
  <2> QED BY <2>1, <2>2 DEF EndsOver, a, b
<1> QED BY <1>1, <1>3, KeepsAlike DEF Keeps

(* An event is processed as it arrives.                                    *)
LEMMA ProcessKeeps ==
  ASSUME NEW v, NEW J \in Seq(Records), NEW c, Sound(c), Keeps(v, J, c), c.syncing = "no", NEW e,
         e.kind = "run_ended" => RunOver(v, e.run), NEW d, Processes(c, e, d)
  PROVE  Keeps(v, J, d)
<1>1. c.historyReq = None BY DEF Sound
<1>2. d.resynced = c.resynced /\ d.pages = c.pages
  BY DEF Processes, Changes, ClientFields, ProcessFields, ResyncFields
<1>3. \/ d.historyReq = Asked /\ d.fetch = NoFetch /\ d.buffered = <<>> /\ d.lost = c.lost \ {"reconnect"}
      \/ d.historyReq = c.historyReq /\ d.buffered = c.buffered /\ d.fetch = c.fetch /\ d.lost = c.lost
  BY DEF Processes, Resyncs, NoResync
<1>4. History(Records, J, c.pages) /\ FetchKept(J, c.fetch) /\ EndsOver(v, c.buffered) /\ RunKept(v, c.ended)
  BY DEF Keeps
<1>5. FetchKept(J, d.fetch) /\ EndsOver(v, d.buffered) /\ d.historyReq.val = {}
  BY <1>1, <1>3, <1>4, FetchStarts, MarkersEndNothing, SlotFields
<1>6. "history" \in c.lost => "history" \in d.lost BY <1>3
<1>7. RunKept(v, d.ended) BY <1>4, EndedKept
<1> QED BY <1>2, <1>5, <1>6, <1>7, KeepsAlike

(* Whatever is delivered.                                                  *)
LEMMA DeliverKeeps ==
  ASSUME Typed, Keeping, Deliver
  PROVE  Keeping'
<1>1. /\ wire # <<>> /\ Head(wire) \in Events /\ wire' = Tail(wire)
      /\ Delivers(client, client', Head(wire))
  BY DeliverDoes DEF Typed
<1> DEFINE e == Head(wire)
<1>2. wire \in Seq(Events) /\ journal \in Seq(Records) BY DEF Typed, StreamOK, JournalOK
<1>3. e = wire[1] /\ 1 \in DOMAIN wire BY <1>1, <1>2
<1>4. e.kind = "run_ended" => RunOver(server, e.run) BY <1>3 DEF Keeping, EndsOver
<1>5. EndsOver(server, wire')
  <2>1. \A i \in DOMAIN Tail(wire) : i + 1 \in DOMAIN wire /\ Tail(wire)[i] = wire[i + 1] BY <1>1, <1>2
  <2> QED BY <1>1, <2>1 DEF Keeping, EndsOver
<1> DEFINE a == client
           d == client'
<1>6. Keeps(server, journal, a) /\ e \in Events /\ Delivers(a, d, e) BY <1>1 DEF Keeping
<1> HIDE DEF e, a, d
<1>7. PICK c : /\ Sound(c) /\ Changes(a, c, {"ref", "rendered"})
               /\ \/ d = OnStatusChange(c, "connected")
                  \/ d = OnStatusChange(c, "reconnecting")
                  \/ Changes(c, d, {"buffered"}) /\ d.buffered = Append(c.buffered, e)
                  \/ c.syncing = "no" /\ Processes(c, e, d)
  BY <1>6 DEF Delivers
<1>8. Keeps(server, journal, c) BY <1>6, <1>7, KeepsUntouched
<1>9. "connected" \in Links /\ "reconnecting" \in Links BY DEF Links
<1>10. Keeps(server, journal, d)
  BY <1>2, <1>4, <1>6, <1>7, <1>8, <1>9, StatusKeeps, HeldKeeps, ProcessKeeps
<1>11. server' = server /\ journal' = journal BY DEF Deliver
<1> QED BY <1>5, <1>10, <1>11 DEF Keeping, d

-----------------------------------------------------------------------------
(* The answer of the history request is merged.                            *)
LEMMA MergesKeeps ==
  ASSUME NEW v, NEW J \in Seq(Records), NEW c, Sound(c), Keeps(v, J, c), c.historyReq.st = "answered",
         NEW m, Applied(c, m), Merges(c, m)
  PROVE  Keeps(v, J, m)
<1>1. m.buffered = c.buffered /\ m.fetch = c.fetch /\ m.historyReq = c.historyReq
  BY DEF Applied, Changes, ClientFields
<1>2. IsAnswer(c.historyReq) BY DEF Sound
<1>3. PICK p : c.historyReq.val = {p} BY <1>2, AnswerHolds
<1>4. Answers(J, c, p) /\ History(Records, J, c.pages) BY <1>3 DEF Keeps
<1>5. (CHOOSE page \in c.historyReq.val : TRUE) = p BY <1>3
<1>6. m.pages = MergeHistoryPages(c.pages, p, PageSize) BY <1>5 DEF Merges
<1>7. Latest(Records, J, p) /\ PageSize \in Nat \ {0} BY <1>4, BoundsAreNumbers DEF Answers
<1>8. History(Records, J, m.pages) /\ NewestSeq(p) <= HistoryNewestSeq(m.pages) BY <1>4, <1>6, <1>7, MergedHistory
<1>9. HistoryNewestSeq(m.pages) \in 0..Len(J) /\ NewestSeq(p) \in 0..Len(J) BY <1>7, <1>8, NewestIs, NewestOfPage
<1>10. m.resynced \in {c.resynced, c.ended} /\ m.ended = 0 BY DEF Merges
<1>11. Within(J, m.resynced, NewestSeq(p)) /\ Within(J, m.ended, NewestSeq(p))
  <2>1. \A n : Within(J, 0, n) BY DEF Within
  <2> QED BY <1>4, <1>10, <2>1 DEF Answers
<1>12. Within(J, m.resynced, HistoryNewestSeq(m.pages))
  <2>1. HistoryNewestSeq(m.pages) \in Int /\ NewestSeq(p) \in Int BY <1>9
  <2> QED BY <1>8, <1>11, <2>1, WithinMore
<1>13. EndsOver(v, m.buffered) /\ FetchKept(J, m.fetch) BY <1>1 DEF Keeps
<1>14. RunKept(v, m.ended) /\ RunKept(v, m.resynced) BY <1>10 DEF Keeps, RunKept
<1>15. \A q \in m.historyReq.val : Answers(J, m, q) BY <1>1, <1>3, <1>7, <1>11 DEF Answers
<1> QED BY <1>8, <1>12, <1>13, <1>14, <1>15 DEF Keeps

(* The answers of a resynchronisation are used.                            *)
LEMMA ApplyKeeps ==
  ASSUME NEW v, NEW J \in Seq(Records), NEW c, Sound(c), Keeps(v, J, c), NEW d, ApplyResyncs(c, d)
  PROVE  Keeps(v, J, d)
<1>1. PICK m : /\ Applied(c, m)
               /\ \/ c.historyReq.st = "answered" /\ Merges(c, m) /\ \E newest : d = FinishResync(m, newest)
                  \/ /\ LeavesPages(c, m) /\ Changes(m, d, {"syncing", "fetch"})
                     /\ d.fetch = Fetch("asked", FALSE, c.pages)
  BY DEF ApplyResyncs
<1>2. Sound(m) BY <1>1 DEF Applied
<1>3. CASE c.historyReq.st = "answered" /\ Merges(c, m) /\ \E newest : d = FinishResync(m, newest)
  <2>1. Keeps(v, J, m) BY <1>1, <1>3, MergesKeeps
  <2>2. \E f : Ends(m, f, Len(m.buffered), d) BY <1>2, <1>3, FinishDoes
  <2> QED BY <1>2, <2>1, <2>2, FinishKeeps
<1>4. CASE /\ LeavesPages(c, m) /\ Changes(m, d, {"syncing", "fetch"})
           /\ d.fetch = Fetch("asked", FALSE, c.pages)
  <2>1. m.buffered = c.buffered /\ m.historyReq = c.historyReq BY <1>1 DEF Applied, Changes, ClientFields
  <2>2. /\ d.buffered = m.buffered /\ d.historyReq = m.historyReq /\ d.pages = m.pages /\ d.resynced = m.resynced
        /\ d.ended = m.ended /\ d.lost = m.lost
    BY <1>4 DEF Changes, ClientFields
  <2>3. /\ m.pages = c.pages /\ m.resynced = c.resynced /\ m.ended = c.ended
        /\ "history" \in c.lost => "history" \in m.lost
    BY <1>4 DEF LeavesPages
  <2>4. /\ History(Records, J, c.pages) /\ EndsOver(v, c.buffered) /\ RunKept(v, c.ended) BY DEF Keeps
  <2>5. FetchKept(J, d.fetch) BY <1>4, <2>4, FetchStarts
  <2> QED BY <2>1, <2>2, <2>3, <2>4, <2>5, KeepsAlike
<1> QED BY <1>1, <1>3, <1>4

(* A fetch of the history query lands.                                     *)
LEMMA LandedKeeps ==
  ASSUME NEW v, NEW J \in Seq(Records), NEW c, Sound(c), Keeps(v, J, c), NEW m, Landed(c, m)
  PROVE  Keeps(v, J, m)
<1>1. /\ m.buffered = c.buffered /\ m.historyReq = c.historyReq /\ m.ended = c.ended /\ m.resynced = c.resynced
      /\ m.fetch = NoFetch
  BY DEF Landed, Changes, ClientFields
<1>2. /\ EndsOver(v, c.buffered) /\ RunKept(v, c.ended) /\ RunKept(v, c.resynced)
      /\ History(Records, J, c.pages) /\ FetchKept(J, c.fetch)
      /\ \A p \in c.historyReq.val : Answers(J, c, p)
      /\ "history" \notin c.lost => Within(J, c.resynced, HistoryNewestSeq(c.pages))
  BY DEF Keeps
<1>3. "history" \in c.lost => "history" \in m.lost BY DEF Landed
<1>4. CASE c.fetch.val = {}
  <2>1. m.pages = c.pages BY <1>4 DEF Landed
  <2>2. FetchKept(J, m.fetch) BY <1>1, <1>2, FetchStarts
  <2>3. EndsOver(v, m.buffered) /\ RunKept(v, m.ended) BY <1>1, <1>2
  <2> QED BY <1>1, <1>3, <2>1, <2>2, <2>3, KeepsAlike
<1>5. CASE c.fetch.val # {}
  <2>1. m.pages \in c.fetch.val BY <1>5 DEF Landed
  <2>2. History(Records, J, m.pages) BY <1>2, <2>1 DEF FetchKept
  <2>3. "history" \notin m.lost => ~(HistoryNewestSeq(m.pages) < HistoryNewestSeq(c.pages))
    BY <1>5, <2>1 DEF Landed
  <2>4. HistoryNewestSeq(m.pages) \in 0..Len(J) /\ HistoryNewestSeq(c.pages) \in 0..Len(J) BY <1>2, <2>2, NewestIs
  <2>5. ASSUME "history" \notin m.lost PROVE Within(J, m.resynced, HistoryNewestSeq(m.pages))
    <3>1. /\ HistoryNewestSeq(m.pages) \in Int /\ HistoryNewestSeq(c.pages) \in Int
          /\ HistoryNewestSeq(c.pages) <= HistoryNewestSeq(m.pages)
      BY <2>3, <2>4, <2>5
    <3>2. Within(J, c.resynced, HistoryNewestSeq(c.pages)) BY <1>2, <1>3, <2>5
    <3> QED BY <1>1, <3>1, <3>2, WithinMore
  <2>6. FetchKept(J, m.fetch) BY <1>1, <1>2, FetchStarts
  <2>7. \A p \in m.historyReq.val : Answers(J, m, p) BY <1>1, <1>2 DEF Answers
  <2> QED BY <1>1, <1>2, <2>2, <2>5, <2>6, <2>7 DEF Keeps
<1> QED BY <1>4, <1>5

(* And, during a resynchronisation, ends it.                               *)
LEMMA LandsKeeps ==
  ASSUME NEW v, NEW J \in Seq(Records), NEW c, Sound(c), Keeps(v, J, c), NEW d, LandsFetch(c, d)
  PROVE  Keeps(v, J, d)
<1>1. PICK m : Landed(c, m) /\ (d = m \/ \E newest : d = FinishResync(m, newest)) BY DEF LandsFetch
<1>2. Sound(m) BY <1>1 DEF Landed
<1>3. Keeps(v, J, m) BY <1>1, LandedKeeps
<1>4. ASSUME NEW newest, d = FinishResync(m, newest) PROVE Keeps(v, J, d)
  <2>1. \E f : Ends(m, f, Len(m.buffered), d) BY <1>2, <1>4, FinishDoes
  <2> QED BY <1>2, <1>3, <2>1, FinishKeeps
<1> QED BY <1>1, <1>3, <1>4

(* The answers of the server, but for the state, which is no concern here. *)
LEMMA AnswerKeeps ==
  ASSUME Typed, Keeping, NEW ok \in BOOLEAN, AnswerHistory(ok) \/ AnswerFetch(ok)
  PROVE  Keeps(server, journal, client')
<1>1. Sound(client) /\ JournalOK /\ Keeps(server, journal, client) BY DEF Typed, Keeping
<1>2. journal \in Seq(Records) /\ Placed(journal) BY <1>1 DEF JournalOK, Placed
<1> DEFINE c == client
           d == client'
<1>3. CASE AnswerHistory(ok)
  <2> DEFINE p == ReadPage(journal, 0, PageSize)
  <2>1. Changes(c, d, {"historyReq"}) /\ d.historyReq.val \in {{}, {p}} BY <1>1, <1>3, AnswerHistoryDoes
  <2>2. Latest(Records, journal, p) /\ \A i \in DOMAIN journal : i <= NewestSeq(p)
    BY <1>2, BoundsAreNumbers, ReadLatest
  <2> HIDE DEF c, d, p
  <2>3. /\ d.buffered = c.buffered /\ d.ended = c.ended /\ d.resynced = c.resynced /\ d.pages = c.pages
        /\ d.fetch = c.fetch /\ d.lost = c.lost
    BY <2>1 DEF Changes, ClientFields
  <2>4. \A q \in d.historyReq.val : Answers(journal, d, q) BY <2>1, <2>2 DEF Answers, Within
  <2>5. Keeps(server, journal, c) BY <1>1 DEF c
  <2>6. Keeps(server, journal, d) BY <2>3, <2>4, <2>5 DEF Keeps
  <2> QED BY <2>6 DEF d
<1>4. CASE AnswerFetch(ok)
  <2>1. Changes(c, d, {"fetch"}) BY <1>1, <1>4, AnswerFetchDoes
  <2>2. IsFetch(c.fetch) /\ History(Records, journal, c.fetch.base) BY <1>1 DEF Keeps, FetchKept
  <2>3. IsFetch(d.fetch) /\ d.fetch.base = c.fetch.base /\ d.fetch.val \in {{}, {FetchRead(c.fetch)}}
    BY <1>1, <1>4, <2>2, AnswerFetchDoes
  <2>4. History(Records, journal, FetchRead(c.fetch))
    <3>1. c.fetch.base \in Seq(Pages(Records)) BY <2>2 DEF History
    <3> QED BY <1>1, <2>2, <3>1, NextPageHistory, RefetchHistory DEF FetchRead
  <2>5. Keeps(server, journal, c) BY <1>1
  <2> HIDE DEF c, d
  <2>6. FetchKept(journal, d.fetch) BY <2>2, <2>3, <2>4 DEF FetchKept
  <2>7. /\ d.buffered = c.buffered /\ d.ended = c.ended /\ d.resynced = c.resynced /\ d.pages = c.pages
        /\ d.historyReq = c.historyReq /\ d.lost = c.lost
    BY <2>1 DEF Changes, ClientFields
  <2>8. EndsOver(server, d.buffered) /\ RunKept(server, d.ended) BY <2>5, <2>7 DEF Keeps
  <2>9. Keeps(server, journal, d) BY <2>5, <2>6, <2>7, <2>8, KeepsAlike
  <2> QED BY <2>9 DEF d
<1> QED BY <1>3, <1>4

-----------------------------------------------------------------------------
(* Requests about the state, a page more, and the page opened and closed.  *)
LEMMA AsksKeep ==
  ASSUME Typed, Keeping,
         \/ \E ok \in BOOLEAN : AnswerState(ok) \/ AnswerRefetch(ok)
         \/ LandRefetch \/ RefreshState \/ LoadOlder \/ OpenPage \/ ClosePage
  PROVE  Keeps(server, journal, client')
<1> DEFINE c == client
           d == client'
<1>1. Sound(client) /\ Keeps(server, journal, c) /\ journal \in Seq(Records) BY DEF Typed, Keeping, JournalOK
<1>2. ASSUME \/ \E ok \in BOOLEAN : AnswerState(ok) \/ AnswerRefetch(ok)
             \/ RefreshState
      PROVE  Changes(c, d, {"stateReq", "refetch"})
  <2>1. Changes(c, d, {"stateReq"}) \/ Changes(c, d, {"refetch"})
    BY <1>1, <1>2, AnswerStateDoes, AnswerRefetchDoes, RefreshDoes
  <2> QED BY <2>1 DEF Changes
<1>3. LandRefetch => Changes(c, d, {"ref", "rendered", "state", "refetch", "lost"})
                     /\ d.lost \in {c.lost, c.lost \cup {"state"}}
  BY <1>1, LandRefetchDoes
<1>4. LoadOlder => Changes(c, d, {"fetch"}) /\ d.fetch = Fetch("asked", TRUE, c.pages)
  BY <1>1, LoadOlderDoes
<1>5. OpenPage \/ ClosePage =>
        /\ d.buffered = <<>> /\ d.ended = c.ended /\ d.resynced = 0 /\ d.pages = c.pages
        /\ d.historyReq \in {None, Asked} /\ d.fetch \in FirstFetches
  BY <1>1, OpenDoes, CloseDoes
<1> HIDE DEF c, d
<1>6. /\ EndsOver(server, c.buffered) /\ RunKept(server, c.ended) /\ History(Records, journal, c.pages)
      /\ FetchKept(journal, c.fetch)
  BY <1>1 DEF Keeps
<1>7. ASSUME Changes(c, d, {"stateReq", "refetch"}) PROVE Keeps(server, journal, d) BY <1>1, <1>7, KeepsUntouched
<1>8. ASSUME Changes(c, d, {"ref", "rendered", "state", "refetch", "lost"}),
             d.lost \in {c.lost, c.lost \cup {"state"}}
      PROVE  Keeps(server, journal, d)
  <2>1. /\ d.buffered = c.buffered /\ d.ended = c.ended /\ d.resynced = c.resynced /\ d.pages = c.pages
        /\ d.fetch = c.fetch /\ d.historyReq = c.historyReq
    BY <1>8 DEF Changes, ClientFields
  <2>2. "history" \in c.lost => "history" \in d.lost BY <1>8
  <2> QED BY <1>1, <1>6, <2>1, <2>2, KeepsAlike
<1>9. ASSUME Changes(c, d, {"fetch"}), d.fetch = Fetch("asked", TRUE, c.pages) PROVE Keeps(server, journal, d)
  <2>1. /\ d.buffered = c.buffered /\ d.ended = c.ended /\ d.resynced = c.resynced /\ d.pages = c.pages
        /\ d.lost = c.lost /\ d.historyReq = c.historyReq
    BY <1>9 DEF Changes, ClientFields
  <2>2. FetchKept(journal, d.fetch) BY <1>1, <1>6, <1>9, FetchStarts
  <2> QED BY <1>1, <1>6, <2>1, <2>2, KeepsAlike
<1>10. ASSUME d.buffered = <<>>, d.ended = c.ended, d.resynced = 0, d.pages = c.pages,
              d.historyReq \in {None, Asked}, d.fetch \in FirstFetches
       PROVE  Keeps(server, journal, d)
  <2>1. FetchKept(journal, d.fetch) BY <1>1, <1>6, <1>10, FetchStarts
  <2>2. EndsOver(server, d.buffered) /\ d.historyReq.val = {} BY <1>10, MarkersEndNothing, SlotFields
  <2> QED BY <1>1, <1>6, <1>10, <2>1, <2>2, KeepsAlike
<1> QED BY <1>2, <1>3, <1>4, <1>5, <1>7, <1>8, <1>9, <1>10 DEF d

(* The network takes the stream and gives it back.                         *)
LEMMA NetworkKeeps ==
  ASSUME Typed, Keeping, DropConnection \/ Reconnect
  PROVE  Keeping'
<1>1. wire \in Seq(Events) /\ EndsOver(server, wire) BY DEF Typed, StreamOK, Keeping
<1>2. EndsOver(server, wire')
  <2>1. CASE Reconnect BY <2>1, MarkersEndNothing DEF Reconnect
  <2>2. CASE DropConnection
    <3> DEFINE m == Marker("close")
    <3>1. PICK n \in 0..Len(wire) : wire' = Append(SubSeq(wire, 1, n), m) BY <2>2 DEF DropConnection
    <3>2. m.kind # "run_ended" BY DEF Marker, Event
    <3> HIDE DEF m
    <3> DEFINE s == SubSeq(wire, 1, n)
    <3>3. /\ s \in Seq(Events) /\ \A i \in DOMAIN s : i \in DOMAIN wire /\ s[i] = wire[i]
      <4>1. Len(wire) \in Nat /\ DOMAIN wire = 1..Len(wire) BY <1>1
      <4>2. \A i \in 1..n : wire[i] \in Events BY <1>1, <4>1
      <4>3. /\ s \in Seq(Events) /\ Len(s) = (IF 1 <= n THEN n - 1 + 1 ELSE 0)
            /\ \A i \in 1..(n - 1 + 1) : s[i] = wire[1 + i - 1]
        BY <1>1, <4>1, <4>2, SubSeqProperties
      <4> HIDE DEF s
      <4>4. DOMAIN s = 1..n BY <4>1, <4>3
      <4> QED BY <4>1, <4>3, <4>4
    <3> HIDE DEF s
    <3>4. DOMAIN Append(s, m) = DOMAIN s \cup {Len(s) + 1} /\ (\A i \in DOMAIN s : Append(s, m)[i] = s[i])
          /\ Append(s, m)[Len(s) + 1] = m
      BY <3>3
    <3>5. EndsOver(server, Append(s, m)) BY <1>1, <3>2, <3>3, <3>4 DEF EndsOver
    <3> QED BY <3>1, <3>5 DEF s
  <2> QED BY <2>1, <2>2
<1>3. UNCHANGED <<server, journal, client>> BY Zenon DEF DropConnection, Reconnect
<1> QED BY <1>2, <1>3 DEF Keeping

(* At first all that is loaded is the latest page, and no Run has ended.   *)
LEMMA InitKeeps == Init => Keeping
<1> SUFFICES ASSUME Init PROVE Keeping OBVIOUS
<1>1. JournalOK BY InitTyped DEF Typed
<1>2. journal \in Seq(Records) /\ Placed(journal) BY <1>1 DEF JournalOK, Placed
<1> DEFINE p == ReadPage(journal, 0, PageSize)
           c == client
<1>3. /\ wire = <<>> /\ c.buffered = <<>> /\ c.ended = 0 /\ c.resynced = 0 /\ c.pages = <<p>> /\ c.fetch = NoFetch
      /\ c.historyReq = None
  BY DEF Init
<1>4. Latest(Records, journal, p) BY <1>2, BoundsAreNumbers, ReadLatest
<1>5. History(Records, journal, NoHistory)
  <2>1. NoHistory \in Seq(Pages(Records)) /\ DOMAIN NoHistory = {} BY DEF NoHistory
  <2> QED BY <2>1, NothingLoaded DEF History
<1> HIDE DEF p, c
<1>6. History(Records, journal, c.pages) BY <1>2, <1>3, <1>4, <1>5, HistoryMore
<1>7. FetchKept(journal, c.fetch) BY <1>2, <1>3, <1>5, FetchStarts
<1>8. EndsOver(server, wire) /\ EndsOver(server, c.buffered) BY <1>3, MarkersEndNothing
<1>9. c.historyReq.val = {} BY <1>3, SlotFields
<1>10. Keeps(server, journal, c) BY <1>3, <1>6, <1>7, <1>8, <1>9 DEF Keeps, RunKept, Within
<1> QED BY <1>8, <1>10 DEF Keeping, c

(* Every step keeps what a resynchronisation has seen, or counts it as     *)
(* lost.                                                                   *)
LEMMA KeepingHolds == Typed /\ Keeping /\ [Next]_vars => Keeping'
<1> SUFFICES ASSUME Typed, Keeping, [Next]_vars PROVE Keeping' OBVIOUS
<1>1. ASSUME Keeps(server, journal, client'), UNCHANGED <<server, journal, wire>> PROVE Keeping'
  BY <1>1 DEF Keeping
<1>2. Sound(client) /\ Keeps(server, journal, client) /\ journal \in Seq(Records) BY DEF Typed, Keeping, JournalOK
<1>3. CASE ServerWrites BY <1>3, ServerKeeps
<1>4. CASE ServerAnswers
  <2>1. Keeps(server, journal, client') BY <1>4, AnswerKeeps, AsksKeep DEF ServerAnswers
  <2>2. UNCHANGED <<server, journal, wire>>
    BY <1>4, Zenon DEF ServerAnswers, AnswerState, AnswerHistory, AnswerRefetch, AnswerFetch
  <2> QED BY <1>1, <2>1, <2>2
<1>5. CASE Deliver BY <1>5, DeliverKeeps
<1>6. CASE ApplyResync
  <2>1. ApplyResyncs(client, client') BY <1>2, <1>6, ApplyDoes
  <2>2. Keeps(server, journal, client') BY <1>2, <2>1, ApplyKeeps
  <2>3. UNCHANGED <<server, journal, wire>> BY <1>6, Zenon DEF ApplyResync
  <2> QED BY <1>1, <2>2, <2>3
<1>7. CASE LandFetch
  <2>1. LandsFetch(client, client') BY <1>2, <1>7, LandFetchDoes
  <2>2. Keeps(server, journal, client') BY <1>2, <2>1, LandsKeeps
  <2>3. UNCHANGED <<server, journal, wire>> BY <1>7, Zenon DEF LandFetch
  <2> QED BY <1>1, <2>2, <2>3
<1>8. CASE LandRefetch \/ RefreshState \/ LoadOlder \/ OpenPage \/ ClosePage
  <2>1. Keeps(server, journal, client') BY <1>8, AsksKeep
  <2>2. UNCHANGED <<server, journal, wire>>
    BY <1>8, Zenon DEF LandRefetch, RefreshState, LoadOlder, OpenPage, ClosePage
  <2> QED BY <1>1, <2>1, <2>2
<1>9. CASE DropConnection \/ Reconnect BY <1>9, NetworkKeeps
<1>10. CASE UNCHANGED vars BY <1>10 DEF vars, Keeping
<1> QED BY <1>3, <1>4, <1>5, <1>6, <1>7, <1>8, <1>9, <1>10 DEF Next, ClientSteps

(* A record up to the newest one loaded is that one or older.              *)
LEMMA KeepingShows == Typed /\ Keeping => ResyncedHasHistory
<1> SUFFICES ASSUME Typed, Keeping, client.resynced # 0, "history" \notin client.lost,
                    NEW i \in DOMAIN journal, journal[i].run = client.resynced
             PROVE  \/ journal[i] \in LoadedRecords(client.pages)
                    \/ \E r \in LoadedRecords(client.pages) : r.seq > i
  BY DEF ResyncedHasHistory
<1> DEFINE h == HistoryNewestSeq(client.pages)
<1>1. Keeps(server, journal, client) /\ journal \in Seq(Records) BY DEF Keeping, Typed, JournalOK
<1>2. History(Records, journal, client.pages) /\ i <= h BY <1>1 DEF Keeps, Within
<1>3. h \in 0..Len(journal) /\ (h # 0 => \E r \in LoadedRecords(client.pages) : r.seq = h) BY <1>1, <1>2, NewestIs
<1> HIDE DEF h
<1>4. i \in Nat \ {0} /\ h \in Nat BY <1>1, <1>3
<1>5. PICK r \in LoadedRecords(client.pages) : r.seq = h BY <1>2, <1>3, <1>4
<1>6. CASE h = i
  <2>1. Taken(r, journal) BY <1>2, <1>5 DEF History
  <2> QED BY <1>5, <1>6, <2>1 DEF Taken
<1>7. CASE h # i BY <1>2, <1>4, <1>5, <1>7
<1> QED BY <1>6, <1>7

(* What the timeline is told of a Run it waits for is true: when it is     *)
(* reported as resynchronised, what the Run wrote is loaded or older than  *)
(* something that is, and it stays so unless an older page lands over it.  *)
(* This is startResync, which reports the last Run whose run_ended came    *)
(* in once its reads are merged, and the refetch of the history query.     *)
THEOREM ResyncedRunsAreThere == Spec => []ResyncedHasHistory
<1>1. Init => Keeping BY InitKeeps
<1>2. Typed /\ Keeping /\ [Next]_vars => Keeping' BY KeepingHolds
<1>3. Typed /\ Keeping => ResyncedHasHistory BY KeepingShows
<1> QED BY <1>1, <1>2, <1>3, TypedInvariant, PTL DEF Spec

-----------------------------------------------------------------------------
(* What the page shows.  R has the records at most a page below n          *)
(* (Topped); a history has those below its newest (TopPages), or the end   *)
(* of the journal (Whole).                                                 *)
Topped(J, R, n) == \A i \in DOMAIN J : n - PageSize < i /\ i <= n => J[i] \in R
TopPages(J, ps) == Topped(J, LoadedRecords(ps), HistoryNewestSeq(ps))
Whole(J, ps) ==
  /\ History(Records, J, ps)
  /\ \A i \in DOMAIN J : i > Len(J) - PageSize => J[i] \in LoadedRecords(ps)

(* More records do not change what is below a number of the journal.       *)
LEMMA ToppedGrows ==
  ASSUME NEW J \in Seq(Records), NEW K \in Seq(Records), \A i \in DOMAIN J : i \in DOMAIN K /\ K[i] = J[i],
         NEW R, NEW n \in 0..Len(J), Topped(J, R, n)
  PROVE  Topped(K, R, n)
<1>1. Len(J) \in Nat /\ DOMAIN J = 1..Len(J) /\ DOMAIN K = 1..Len(K) /\ Len(K) \in Nat OBVIOUS
<1>2. PageSize \in Nat \ {0} BY BoundsAreNumbers
<1> SUFFICES ASSUME NEW i \in DOMAIN K, n - PageSize < i, i <= n PROVE K[i] \in R BY DEF Topped
<1>3. i \in DOMAIN J BY <1>1
<1> QED BY <1>3 DEF Topped

(* The newest of the records of a page is its last.                        *)
LEMMA LatestEnds ==
  ASSUME NEW J \in Seq(Records), NEW p, Latest(Records, J, p)
  PROVE  /\ NewestSeq(p) \in 0..Len(J) /\ HistoryNewestSeq(<<p>>) = NewestSeq(p)
         /\ LoadedRecords(<<p>>) = ToSet(p.records)
         /\ \A r \in ToSet(p.records) : r.seq <= NewestSeq(p)
<1>1. NewestSeq(p) \in 0..Len(J) BY NewestOfPage
<1>2. p \in Pages(Records) BY DEF Latest
<1>3. NoHistory \in Seq(Pages(Records)) BY DEF NoHistory
<1>4. LoadedRecords(<<p>>) = ToSet(p.records) BY <1>2, <1>3, LoadedMore
<1>5. History(Records, J, NoHistory)
  <2>1. DOMAIN NoHistory = {} BY DEF NoHistory
  <2> QED BY <1>3, <2>1, NothingLoaded DEF History
<1>6. History(Records, J, <<p>>) BY <1>5, HistoryMore
<1>7. HistoryNewestSeq(<<p>>) = NewestSeq(p)
  <2>1. {0} \cup {NewestSeq(<<p>>[i]) : i \in DOMAIN <<p>>} = {0, NewestSeq(p)}
    <3>1. DOMAIN <<p>> = {1} /\ <<p>>[1] = p OBVIOUS
    <3> QED BY <3>1
  <2>2. Max({0, NewestSeq(p)}) = NewestSeq(p)
    <3>1. 0 \in Int /\ NewestSeq(p) \in Int /\ NewestSeq(p) >= 0 BY <1>1
    <3> QED BY <3>1, LargerOf
  <2> QED BY <2>1, <2>2 DEF HistoryNewestSeq
<1>8. \A r \in LoadedRecords(<<p>>) : r.seq <= HistoryNewestSeq(<<p>>) BY <1>6, NewestIs
<1> QED BY <1>1, <1>4, <1>7, <1>8

(* A history that has the end of the journal has what is below its newest. *)
LEMMA WholeTops ==
  ASSUME NEW J \in Seq(Records), Placed(J), NEW ps, Whole(J, ps)
  PROVE  TopPages(J, ps) /\ \A i \in DOMAIN J : i <= HistoryNewestSeq(ps)
<1>1. PageSize \in Nat \ {0} /\ Len(J) \in Nat /\ DOMAIN J = 1..Len(J) BY BoundsAreNumbers
<1>2. /\ HistoryNewestSeq(ps) \in 0..Len(J)
      /\ \A r \in LoadedRecords(ps) : r.seq <= HistoryNewestSeq(ps)
  BY NewestIs DEF Whole
<1>3. CASE Len(J) = 0 BY <1>1, <1>3 DEF TopPages, Topped
<1>4. CASE Len(J) # 0
  <2>1. Len(J) \in DOMAIN J /\ Len(J) > Len(J) - PageSize BY <1>1, <1>4
  <2>2. J[Len(J)] \in LoadedRecords(ps) /\ J[Len(J)].seq = Len(J) BY <2>1 DEF Whole, Placed
  <2>3. HistoryNewestSeq(ps) = Len(J) BY <1>1, <1>2, <2>2
  <2> QED BY <1>1, <2>3 DEF Whole, TopPages, Topped
<1> QED BY <1>3, <1>4

(* The latest page alone has the end of the journal.                       *)
LEMMA LatestIsWhole ==
  ASSUME NEW J \in Seq(Records), Placed(J), NEW p, p = ReadPage(J, 0, PageSize)
  PROVE  /\ Latest(Records, J, p) /\ Whole(J, <<p>>) /\ Topped(J, ToSet(p.records), NewestSeq(p))
         /\ \A i \in DOMAIN J : i <= NewestSeq(p)
<1>1. PageSize \in Nat \ {0} BY BoundsAreNumbers
<1>2. Latest(Records, J, p) BY <1>1, ReadLatest
<1>3. \A i \in DOMAIN J : i > Len(J) - PageSize => J[i] \in ToSet(p.records) BY <1>1, ReadTaken
<1>4. /\ HistoryNewestSeq(<<p>>) = NewestSeq(p)
      /\ LoadedRecords(<<p>>) = ToSet(p.records)
  BY <1>2, LatestEnds
<1>5. History(Records, J, <<p>>)
  <2>1. NoHistory \in Seq(Pages(Records)) /\ DOMAIN NoHistory = {} BY DEF NoHistory
  <2>2. History(Records, J, NoHistory) BY <2>1, NothingLoaded DEF History
  <2> QED BY <1>2, <2>2, HistoryMore
<1>6. Whole(J, <<p>>) BY <1>3, <1>4, <1>5 DEF Whole
<1>7. TopPages(J, <<p>>) /\ \A i \in DOMAIN J : i <= HistoryNewestSeq(<<p>>) BY <1>6, WholeTops
<1> QED BY <1>2, <1>4, <1>6, <1>7 DEF TopPages

-----------------------------------------------------------------------------
(* An older page is older than all that is loaded.                         *)
LEMMA OlderPage ==
  ASSUME JournalOK, NEW ps, History(Records, journal, ps), NextPageParam(ps) # 0,
         NEW qs, qs = FetchNextPage(ps, journal, PageSize)
  PROVE  HistoryNewestSeq(qs) = HistoryNewestSeq(ps) /\ LoadedRecords(ps) \subseteq LoadedRecords(qs)
<1>1. journal \in Seq(Records) /\ Placed(journal) BY DEF JournalOK, Placed
<1>2. Len(journal) \in Nat /\ PageSize \in Nat \ {0} BY <1>1, BoundsAreNumbers
<1>3. ps \in Seq(Pages(Records)) /\ \A r \in LoadedRecords(ps) : Taken(r, journal) BY DEF History
<1> DEFINE b == NextPageParam(ps)
<1>4. b \in 0..Len(journal) /\ b # 0 BY <1>1, <1>3, NextIs
<1> DEFINE p == ReadPage(journal, b, PageSize)
<1>5. /\ Latest(Records, journal, p) /\ p \in Pages(Records)
      /\ \A r \in ToSet(p.records) : Taken(r, journal) /\ r.seq < b
  <2>1. b \in Nat BY <1>2, <1>4
  <2>2. b # 0 BY <1>4
  <2> HIDE DEF b
  <2> QED BY <1>1, <1>2, <2>1, <2>2, ReadLatest, ReadTaken
<1>6. qs = Append(ps, p) BY DEF FetchNextPage
<1> HIDE DEF p
<1>7. LoadedRecords(qs) = LoadedRecords(ps) \cup ToSet(p.records) BY <1>3, <1>5, <1>6, LoadedMore
<1>8. History(Records, journal, qs) BY <1>1, <1>5, <1>6, HistoryMore
<1>9. \E r \in LoadedRecords(ps) : r.seq = b
  <2>1. ps # <<>> /\ b = OldestSeq(Last(ps)) BY <1>4 DEF NextPageParam, NoHistory
  <2>2. Len(ps) \in DOMAIN ps /\ Last(ps) = ps[Len(ps)] BY <1>3, <2>1 DEF Last
  <2> DEFINE l == Last(ps)
  <2>3. l \in Pages(Records) /\ l.records # <<>> BY <1>3, <1>4, <2>1, <2>2 DEF OldestSeq
  <2>4. Len(l.records) \in Nat \ {0} /\ OldestSeq(l) = l.records[1].seq BY <2>3, EndsOf
  <2>5. l.records \in Seq(Records) BY <2>3 DEF Pages
  <2>6. 1 \in DOMAIN l.records BY <2>4, <2>5
  <2>7. l.records[1] \in LoadedRecords(ps) BY <2>2, <2>6, LoadedIs
  <2> QED BY <2>1, <2>4, <2>7
<1> DEFINE h == HistoryNewestSeq(ps)
           g == HistoryNewestSeq(qs)
<1>10. h \in 0..Len(journal) /\ (\A r \in LoadedRecords(ps) : r.seq <= h)
       /\ (h # 0 => \E r \in LoadedRecords(ps) : r.seq = h)
  BY <1>1, NewestIs
<1>11. g \in 0..Len(journal) /\ (\A r \in LoadedRecords(qs) : r.seq <= g)
       /\ (g # 0 => \E r \in LoadedRecords(qs) : r.seq = g)
  BY <1>1, <1>8, NewestIs
<1> HIDE DEF h, g, b
<1>12. \A r \in LoadedRecords(qs) : r.seq \in Int
  <2>1. DOMAIN journal = 1..Len(journal) BY <1>1
  <2> QED BY <1>8, <2>1 DEF History, Taken
<1>13. b <= h BY <1>9, <1>10
<1>14. \A r \in LoadedRecords(qs) : r.seq <= h
  <2> SUFFICES ASSUME NEW r \in LoadedRecords(qs) PROVE r.seq <= h OBVIOUS
  <2>1. CASE r \in LoadedRecords(ps) BY <1>10, <2>1
  <2>2. CASE r \in ToSet(p.records) BY <1>2, <1>4, <1>5, <1>10, <1>12, <1>13, <2>2
  <2> QED BY <1>7, <2>1, <2>2
<1>15. h <= g BY <1>7, <1>10, <1>11
<1>16. g <= h BY <1>10, <1>11, <1>14
<1>17. g = h BY <1>10, <1>11, <1>15, <1>16
<1> QED BY <1>7, <1>17 DEF h, g

(* With a page more, a history still has the end of the journal, or what   *)
(* is below its newest record.                                             *)
LEMMA NextPageKeeps ==
  ASSUME JournalOK, NEW ps, History(Records, journal, ps), NEW qs, qs = FetchNextPage(ps, journal, PageSize)
  PROVE  (Whole(journal, ps) => Whole(journal, qs)) /\ (TopPages(journal, ps) => TopPages(journal, qs))
<1>1. journal \in Seq(Records) /\ Placed(journal) BY DEF JournalOK, Placed
<1>2. Len(journal) \in Nat /\ PageSize \in Nat \ {0} BY <1>1, BoundsAreNumbers
<1>3. ps \in Seq(Pages(Records)) /\ \A r \in LoadedRecords(ps) : Taken(r, journal) BY DEF History
<1> DEFINE b == NextPageParam(ps)
<1>4. b \in 0..Len(journal) BY <1>1, <1>3, NextIs
<1> DEFINE p == ReadPage(journal, b, PageSize)
<1>5. /\ Latest(Records, journal, p) /\ p \in Pages(Records)
      /\ b = 0 => \A i \in DOMAIN journal : i > Len(journal) - PageSize => journal[i] \in ToSet(p.records)
  <2>1. b \in Nat BY <1>2, <1>4
  <2> HIDE DEF b
  <2> QED BY <1>1, <1>2, <2>1, ReadLatest, ReadTaken
<1>6. qs = Append(ps, p) BY DEF FetchNextPage
<1> HIDE DEF p
<1>7. LoadedRecords(qs) = LoadedRecords(ps) \cup ToSet(p.records) BY <1>3, <1>5, <1>6, LoadedMore
<1>8. History(Records, journal, qs) BY <1>1, <1>5, <1>6, HistoryMore
<1>9. ASSUME Whole(journal, ps) PROVE Whole(journal, qs) BY <1>7, <1>8, <1>9 DEF Whole
<1>10. ASSUME TopPages(journal, ps) PROVE TopPages(journal, qs)
  <2>1. CASE b = 0
    <3>1. Whole(journal, qs) BY <1>5, <1>7, <1>8, <2>1 DEF Whole
    <3> QED BY <1>1, <3>1, WholeTops
  <2>2. CASE b # 0
    <3> DEFINE h == HistoryNewestSeq(ps)
               g == HistoryNewestSeq(qs)
    <3>1. g = h BY <2>2, OlderPage
    <3> HIDE DEF h, g
    <3> QED BY <1>7, <1>10, <3>1 DEF TopPages, Topped, h, g
  <2> QED BY <2>1, <2>2
<1> QED BY <1>9, <1>10

(* What is read again has the end of the journal.                          *)
LEMMA RefetchIsWhole ==
  ASSUME JournalOK, NEW ps \in Seq(Pages(Records)), NEW qs, qs = RefetchPages(ps, journal, PageSize)
  PROVE  Whole(journal, qs)
<1>1. journal \in Seq(Records) /\ Placed(journal) BY DEF JournalOK, Placed
<1> DEFINE n == IF Len(ps) = 0 THEN 0 ELSE Len(ps) - 1
<1>2. n \in Nat /\ DOMAIN [i \in 1..(Len(ps) - 1) |-> i] = 1..n
  <2>1. Len(ps) \in Nat OBVIOUS
  <2> QED BY <2>1
<1> HIDE DEF n
<1>3. PICK f : /\ f[0] = <<ReadPage(journal, 0, PageSize)>>
               /\ \A k \in 0..(n - 1) : \E i : f[k + 1] = RefetchNext(f[k], i)
               /\ RefetchPages(ps, journal, PageSize) = f[n]
  BY <1>2, Refetched
<1> DEFINE T == {m \in Nat : m <= n => Whole(journal, f[m])}
<1>4. 0 \in T
  <2> DEFINE p == ReadPage(journal, 0, PageSize)
  <2>1. Whole(journal, <<p>>) BY <1>1, LatestIsWhole
  <2> HIDE DEF p
  <2> QED BY <1>3, <2>1 DEF p
<1>5. ASSUME NEW m \in Nat, m \in T PROVE m + 1 \in T
  <2> SUFFICES ASSUME m + 1 <= n PROVE Whole(journal, f[m + 1]) OBVIOUS
  <2>1. m \in 0..(n - 1) /\ Whole(journal, f[m]) BY <1>2, <1>5
  <2>2. PICK i : f[m + 1] = RefetchNext(f[m], i) BY <1>3, <2>1
  <2>3. f[m + 1] \in {f[m], FetchNextPage(f[m], journal, PageSize)} BY <2>2 DEF RefetchNext
  <2> DEFINE x == f[m]
             y == FetchNextPage(f[m], journal, PageSize)
  <2>4. History(Records, journal, x) BY <2>1 DEF Whole
  <2>5. Whole(journal, x) => Whole(journal, y)
    <3>1. y = FetchNextPage(x, journal, PageSize) OBVIOUS
    <3> HIDE DEF x, y
    <3> QED BY <2>4, <3>1, NextPageKeeps
  <2> QED BY <2>1, <2>3, <2>5
<1> HIDE DEF T
<1>6. n \in T BY <1>2, <1>4, <1>5, Stepwise
<1> QED BY <1>2, <1>3, <1>6 DEF T

(* What is merged has what is below its newest record.                     *)
LEMMA MergeTops ==
  ASSUME NEW J \in Seq(Records), NEW ps, History(Records, J, ps), NEW p, Latest(Records, J, p),
         TopPages(J, ps), Topped(J, ToSet(p.records), NewestSeq(p)),
         NEW m, m = MergeHistoryPages(ps, p, PageSize)
  PROVE  TopPages(J, m)
<1>1. PageSize \in Nat \ {0} BY BoundsAreNumbers
<1>2. /\ History(Records, J, m)
      /\ NewestSeq(p) <= HistoryNewestSeq(m) /\ HistoryNewestSeq(ps) <= HistoryNewestSeq(m)
  BY <1>1, MergedHistory
<1>3. LoadedRecords(m) = LoadedRecords(ps) \cup ToSet(p.records)
  <2>1. ps \in Seq(Pages(Records)) /\ p \in Pages(Records) BY DEF History, Latest
  <2>2. \A r \in LoadedRecords(ps) \cup ToSet(p.records) : Taken(r, J) BY DEF History, Latest
  <2> QED BY <1>1, <2>1, <2>2, MergedIs
<1> DEFINE a == HistoryNewestSeq(ps)
           b == NewestSeq(p)
           g == HistoryNewestSeq(m)
<1>4. a \in 0..Len(J) /\ \A r \in LoadedRecords(ps) : r.seq <= a BY NewestIs
<1>5. b \in 0..Len(J) /\ \A r \in ToSet(p.records) : r.seq <= b BY LatestEnds
<1>6. g \in 0..Len(J) /\ (g # 0 => \E r \in LoadedRecords(m) : r.seq = g) BY <1>2, NewestIs
<1>7. a <= g /\ b <= g BY <1>2
<1>8. Topped(J, LoadedRecords(ps), a) /\ Topped(J, ToSet(p.records), b) BY DEF TopPages
<1> SUFFICES Topped(J, LoadedRecords(m), g) BY DEF TopPages
<1> HIDE DEF a, b, g
<1>9. g = a \/ g = b
  <2>1. CASE g = 0 BY <1>4, <1>7, <2>1
  <2>2. CASE g # 0
    <3>1. PICK r \in LoadedRecords(m) : r.seq = g BY <1>6, <2>2
    <3> QED BY <1>3, <1>4, <1>5, <1>6, <1>7, <3>1
  <2> QED BY <2>1, <2>2
<1> QED BY <1>3, <1>8, <1>9 DEF Topped

-----------------------------------------------------------------------------
(* The records events announce are those of the journal (Carried).  What   *)
(* is ahead of a history is in the overlay, or hidden, as the first record *)
(* of a Run is until its end is written, or still to come: an event        *)
(* announces it or has the history read again (Ahead).                     *)
Carried(J, q) == \A k \in DOMAIN q : \A r \in OverlayRecords(q[k], 0) : Taken(r, J)
Hidden(v, r) == r.type = "user_message" /\ r.run # 0 /\ r.run \in {v.run, v.ending}
Overlaid(o, J, i) == J[i].type # "run_ended" /\ i \in DOMAIN o /\ o[i] = J[i]
Coming(J, q, i) == \E k \in DOMAIN q : Calls(q[k]) \/ J[i] \in OverlayRecords(q[k], 0)
Ahead(v, J, q, o, n) == \A i \in DOMAIN J : i > n => Overlaid(o, J, i) \/ Hidden(v, J[i]) \/ Coming(J, q, i)

(* What is ahead of a number is ahead of a larger one, and nothing is      *)
(* ahead of the end of the journal.                                        *)
LEMMA AheadMore ==
  ASSUME NEW J \in Seq(Records), NEW v, NEW q, NEW o, NEW a \in Int, NEW b \in Int
  PROVE  /\ a <= b /\ Ahead(v, J, q, o, a) => Ahead(v, J, q, o, b)
         /\ (\A i \in DOMAIN J : i <= b) => Ahead(v, J, q, o, b)
<1>1. \A i \in DOMAIN J : i \in Int OBVIOUS
<1>2. ASSUME a <= b, Ahead(v, J, q, o, a) PROVE Ahead(v, J, q, o, b)
  <2>1. \A i \in DOMAIN J : i > b => i > a BY <1>1, <1>2
  <2> QED BY <1>2, <2>1, Zenon DEF Ahead
<1>3. ASSUME \A i \in DOMAIN J : i <= b PROVE Ahead(v, J, q, o, b)
  <2>1. \A i \in DOMAIN J : ~(i > b) BY <1>1, <1>3
  <2> QED BY <2>1, Zenon DEF Ahead
<1> QED BY <1>2, <1>3

(* No event of the stream puts an ending of its own number in the overlay. *)
LEMMA ShownIsNoEnding ==
  ASSUME NEW e \in Events, NEW r \in OverlayRecords(e, 0)
  PROVE  r.type # "run_ended"
<1>1. e.type \in Phases \cup {"", "assistant_message", "queue_promoted"} BY DEF Events
<1>2. e.type # "run_ended" BY <1>1 DEF Phases
<1>3. \A s, t, x, o : Record(s, t, x, o).type = t BY DEF Record
<1> QED BY <1>2, <1>3 DEF OverlayRecords

(* A record of the journal put into the overlay hides no other.            *)
LEMMA PutShows ==
  ASSUME NEW J, NEW o, NEW r, Taken(r, J), NEW i
  PROVE  /\ Overlaid(o, J, i) => Overlaid(Put(o, r), J, i)
         /\ r = J[i] /\ r.seq = i /\ r.type # "run_ended" => Overlaid(Put(o, r), J, i)
<1> DEFINE p == Put(o, r)
<1>1. /\ DOMAIN p = {r.seq} \cup DOMAIN o
      /\ \A s \in DOMAIN p : p[s] = IF s = r.seq THEN r ELSE o[s]
  BY DEF Put
<1>2. J[r.seq] = r BY DEF Taken
<1> HIDE DEF p
<1>3. ASSUME Overlaid(o, J, i) PROVE Overlaid(p, J, i) BY <1>1, <1>2, <1>3 DEF Overlaid
<1>4. ASSUME r = J[i], r.seq = i, r.type # "run_ended" PROVE Overlaid(p, J, i) BY <1>1, <1>4 DEF Overlaid
<1> QED BY <1>3, <1>4 DEF p

(* An event that is processed and asks for nothing shows what it carries.  *)
LEMMA AheadShrinks ==
  ASSUME NEW J, Placed(J), NEW q, NEW e \in Events, NEW r, Begins(q, e, r), Carried(J, q),
         NEW c, NEW d, Processes(c, e, d), c.selected, ~Calls(e), NEW v, NEW n, Ahead(v, J, q, c.overlay, n)
  PROVE  Ahead(v, J, r, d.overlay, n)
<1>1. e.kind # "run_ended" BY DEF Calls
<1>2. Shows(c, e, d) BY <1>1 DEF Processes
<1>3. /\ 1 \in DOMAIN q /\ q[1] = e
      /\ \A k \in DOMAIN q : k = 1 \/ (k - 1 \in DOMAIN r /\ q[k] = r[k - 1])
  BY BeginsIn
<1>4. \A x \in OverlayRecords(e, 0) : Taken(x, J) BY <1>3 DEF Carried
<1>5. ASSUME NEW i \in DOMAIN J, Overlaid(c.overlay, J, i) PROVE Overlaid(d.overlay, J, i)
  BY <1>2, <1>4, <1>5, PutShows DEF Shows
<1>6. ASSUME NEW i \in DOMAIN J, J[i] \in OverlayRecords(e, 0) PROVE Overlaid(d.overlay, J, i)
  <2>1. d.overlay = Put(c.overlay, J[i]) BY <1>2, <1>6 DEF Shows
  <2>2. Taken(J[i], J) /\ J[i].seq = i BY <1>4, <1>6 DEF Placed
  <2>3. J[i].type # "run_ended" BY <1>6, ShownIsNoEnding
  <2> QED BY <2>1, <2>2, <2>3, PutShows
<1>7. ASSUME NEW i \in DOMAIN J, Coming(J, q, i) PROVE J[i] \in OverlayRecords(e, 0) \/ Coming(J, r, i)
  <2>1. PICK k \in DOMAIN q : Calls(q[k]) \/ J[i] \in OverlayRecords(q[k], 0) BY <1>7 DEF Coming
  <2>2. CASE k = 1 BY <1>3, <2>1, <2>2
  <2>3. CASE k # 1 BY <1>3, <2>1, <2>3 DEF Coming
  <2> QED BY <2>2, <2>3
<1> SUFFICES ASSUME NEW i \in DOMAIN J, i > n
             PROVE  Overlaid(d.overlay, J, i) \/ Hidden(v, J[i]) \/ Coming(J, r, i)
  BY DEF Ahead
<1> QED BY <1>5, <1>6, <1>7 DEF Ahead

(* Pruning keeps the records that are newer than the history.              *)
LEMMA AheadPruned ==
  ASSUME NEW J \in Seq(Records), NEW v, NEW q, NEW o, NEW n \in Int, Ahead(v, J, q, o, n), NEW newest \in Int,
         newest <= n, NEW pages
  PROVE  Ahead(v, J, q, PruneOverlay(pages, o, newest), n)
<1> DEFINE p == PruneOverlay(pages, o, newest)
<1>1. \A i \in DOMAIN J : i \in Int OBVIOUS
<1>2. ASSUME NEW i \in DOMAIN J, i > n, Overlaid(o, J, i) PROVE Overlaid(p, J, i)
  <2>1. i > newest BY <1>1, <1>2
  <2>2. i \in DOMAIN o /\ o[i] = J[i] /\ ~IsCompleteRunEnded(o[i]) BY <1>2 DEF Overlaid, IsCompleteRunEnded
  <2>3. i \in DOMAIN p /\ p[i] = o[i] BY <2>1, <2>2 DEF PruneOverlay, Restrict
  <2> HIDE DEF p
  <2> QED BY <1>2, <2>3 DEF Overlaid
<1> HIDE DEF p
<1>3. Ahead(v, J, q, p, n) BY <1>2 DEF Ahead
<1> QED BY <1>3 DEF p

(* The records of the journal stay.                                        *)
Extends(J, K) == \A i \in DOMAIN J : i \in DOMAIN K /\ K[i] = J[i]
(* What a step of the server has to announce for nothing to go unseen.     *)
Covers(v, J, es, u, K) ==
  /\ Extends(J, K) /\ Carried(K, es)
  /\ \A i \in DOMAIN J : Hidden(v, J[i]) => Hidden(u, J[i]) \/ Coming(K, es, i)
  /\ \A i \in DOMAIN K \ DOMAIN J : Hidden(u, K[i]) \/ Coming(K, es, i)

(* Nothing is ahead that is not announced, after a step of the server.     *)
LEMMA AheadGrows ==
  ASSUME NEW v, NEW J, NEW es, NEW u, NEW K, Covers(v, J, es, u, K), NEW q, NEW r, Extended(q, es, r),
         NEW o, NEW n, Ahead(v, J, q, o, n)
  PROVE  Ahead(u, K, r, o, n)
<1>1. /\ DOMAIN q \subseteq DOMAIN r
      /\ \A k \in DOMAIN q : r[k] = q[k]
      /\ \A k \in DOMAIN es : Len(q) + k \in DOMAIN r /\ r[Len(q) + k] = es[k]
  BY ExtendedIn
<1>2. \A i : Coming(K, es, i) => Coming(K, r, i) BY <1>1 DEF Coming
<1>3. \A i \in DOMAIN J : Coming(J, q, i) => Coming(K, r, i) BY <1>1 DEF Coming, Covers, Extends
<1>4. \A i \in DOMAIN J : K[i] = J[i] BY DEF Covers, Extends
<1> SUFFICES ASSUME NEW i \in DOMAIN K, i > n PROVE Overlaid(o, K, i) \/ Hidden(u, K[i]) \/ Coming(K, r, i)
  BY DEF Ahead
<1>5. CASE i \in DOMAIN J
  <2>1. Overlaid(o, J, i) \/ Hidden(v, J[i]) \/ Coming(J, q, i) BY <1>5 DEF Ahead
  <2>2. Overlaid(o, J, i) => Overlaid(o, K, i) BY <1>4, <1>5 DEF Overlaid
  <2>3. Hidden(v, J[i]) => Hidden(u, K[i]) \/ Coming(K, r, i) BY <1>2, <1>4, <1>5 DEF Covers
  <2> QED BY <1>3, <1>5, <2>1, <2>2, <2>3
<1>6. CASE i \notin DOMAIN J BY <1>2, <1>6 DEF Covers
<1> QED BY <1>5, <1>6

(* The records announced are those of the journal, however events move.    *)
LEMMA CarriedGrows ==
  ASSUME NEW J, NEW K, Extends(J, K), NEW q, Carried(J, q)
  PROVE  Carried(K, q)
BY DEF Carried, Extends, Taken

(* Nor are they others when an event has been taken,                       *)
LEMMA CarriedBegins ==
  ASSUME NEW J, NEW q, NEW e, NEW r, Begins(q, e, r), Carried(J, q)
  PROVE  Carried(J, r) /\ \A x \in OverlayRecords(e, 0) : Taken(x, J)
<1>1. /\ 1 \in DOMAIN q /\ q[1] = e
      /\ \A k \in DOMAIN r : k + 1 \in DOMAIN q /\ q[k + 1] = r[k]
  BY BeginsIn
<1> QED BY <1>1 DEF Carried

(* or when more events follow.                                             *)
LEMMA CarriedJoined ==
  ASSUME NEW J, NEW a \in Seq(Events), NEW b \in Seq(Events), Carried(J, a), Carried(J, b)
  PROVE  Carried(J, a \o b)
<1> DEFINE q == a \o b
<1>1. /\ q \in Seq(Events) /\ Len(q) = Len(a) + Len(b)
      /\ \A i \in 1..Len(a) : q[i] = a[i]
      /\ \A i \in 1..Len(b) : q[Len(a) + i] = b[i]
  BY Joined
<1> HIDE DEF q
<1> SUFFICES ASSUME NEW k \in DOMAIN q PROVE \A r \in OverlayRecords(q[k], 0) : Taken(r, J) BY DEF Carried, q
<1>2. CASE k <= Len(a)
  <2>1. k \in DOMAIN a /\ q[k] = a[k] BY <1>1, <1>2
  <2> QED BY <2>1 DEF Carried
<1>3. CASE ~(k <= Len(a))
  <2>1. PICK j \in 1..Len(b) : k = Len(a) + j
    <3>1. Len(a) \in Nat /\ Len(b) \in Nat /\ k \in 1..(Len(a) + Len(b)) BY <1>1
    <3>2. k - Len(a) \in 1..Len(b) /\ k = Len(a) + (k - Len(a)) BY <1>3, <3>1
    <3> QED BY <3>2
  <2>2. q[k] = b[j] /\ j \in DOMAIN b BY <1>1, <2>1
  <2> QED BY <2>2 DEF Carried
<1> QED BY <1>2, <1>3

-----------------------------------------------------------------------------
(* What a step of the server publishes says what there is to show.         *)
Shares(es) ==
  /\ es \in Seq(Events) /\ Len(es) <= 2 /\ \A i \in DOMAIN es : es[i].kind \notin {"open", "close"}
  /\ Covers(server, journal, es, server', journal')
Shared == \E es : Publish(es) /\ Shares(es)
Silent(e) == e.kind \notin {"output", "activity_label", "follow_up"}
StaysHidden(v, u) == {v.run, v.ending} \ {0} \subseteq {u.run, u.ending}

(* Events that put nothing into the overlay, records that stay hidden.     *)
LEMMA SilentCarries ==
  ASSUME NEW e, Silent(e) PROVE OverlayRecords(e, 0) = {}
BY DEF Silent, OverlayRecords

(* A record stays hidden while its Run goes on or its ending is unwritten. *)
LEMMA HiddenStays ==
  ASSUME NEW v, NEW u, StaysHidden(v, u), NEW r, Hidden(v, r) PROVE Hidden(u, r)
BY DEF StaysHidden, Hidden

(* A step that writes no record leaves nothing unseen.                     *)
LEMMA SharesState ==
  ASSUME journal' = journal, StaysHidden(server, server'), NEW es \in Seq(Events), Len(es) <= 2,
         \A i \in DOMAIN es : es[i].kind \notin {"open", "close"} /\ Silent(es[i])
  PROVE  Shares(es)
<1>1. Extends(journal, journal') BY DEF Extends
<1>2. Carried(journal', es) BY SilentCarries DEF Carried
<1>3. \A i \in DOMAIN journal : Hidden(server, journal[i]) => Hidden(server', journal[i]) BY HiddenStays
<1>4. Covers(server, journal, es, server', journal') BY <1>1, <1>2, <1>3 DEF Covers
<1> QED BY <1>4 DEF Shares

(* Nor does one whose record is announced, or hidden, or asked for.        *)
LEMMA SharesRecord ==
  ASSUME JournalOK, NEW type \in {"user_message", "assistant_message", "approval", "run_ended"}, NEW run \in Nat,
         NEW es \in Seq(Events), Write(type, run, es), Len(es) <= 2,
         \A i \in DOMAIN es : es[i].kind \notin {"open", "close"},
         \A i \in DOMAIN es : ~Silent(es[i]) =>
           OverlayRecords(es[i], 0) = {Record(NextSeq, type, run, IF type = "run_ended" THEN 1 ELSE 0)},
         \/ \E i \in DOMAIN es : Calls(es[i])
         \/ /\ StaysHidden(server, server')
            /\ \/ type = "user_message" /\ run # 0 /\ run = server'.run
               \/ \E i \in DOMAIN es : ~Silent(es[i])
  PROVE  Shares(es)
<1> DEFINE r == Record(NextSeq, type, run, IF type = "run_ended" THEN 1 ELSE 0)
           n == Len(journal)
<1>1. /\ n \in Nat /\ DOMAIN journal = 1..n /\ NextSeq = n + 1 BY DEF JournalOK, NextSeq
<1>2. r \in Records /\ r.seq = n + 1 /\ r.run = run /\ r.type = type
  BY <1>1 DEF Record, Records
<1>3. journal' = Append(journal, r) BY DEF Write, NextSeq
<1> HIDE DEF r
<1>4. /\ DOMAIN journal' = 1..(n + 1) /\ journal'[n + 1] = r
      /\ \A i \in 1..n : journal'[i] = journal[i]
  BY <1>1, <1>2, <1>3 DEF JournalOK
<1> HIDE DEF n
<1>5. Extends(journal, journal') BY <1>1, <1>4 DEF Extends
<1>6. Taken(r, journal') BY <1>1, <1>2, <1>4 DEF Taken
<1>7. Carried(journal', es) BY <1>6, SilentCarries DEF Carried, r
<1>8. ASSUME \E i \in DOMAIN es : Calls(es[i]) PROVE Covers(server, journal, es, server', journal')
  <2>1. \A i : Coming(journal', es, i) BY <1>8 DEF Coming
  <2> QED BY <1>5, <1>7, <2>1 DEF Covers
<1>9. ASSUME StaysHidden(server, server'),
             \/ type = "user_message" /\ run # 0 /\ run = server'.run
             \/ \E i \in DOMAIN es : ~Silent(es[i])
      PROVE  Covers(server, journal, es, server', journal')
  <2>1. \A i \in DOMAIN journal : Hidden(server, journal[i]) => Hidden(server', journal[i]) BY <1>9, HiddenStays
  <2>2. \A i \in DOMAIN journal' \ DOMAIN journal : i = n + 1 BY <1>1, <1>4
  <2>3. Hidden(server', r) \/ Coming(journal', es, n + 1)
    <3>1. ASSUME type = "user_message", run # 0, run = server'.run PROVE Hidden(server', r)
      BY <1>2, <3>1 DEF Hidden
    <3>2. ASSUME NEW i \in DOMAIN es, ~Silent(es[i]) PROVE Coming(journal', es, n + 1)
      <4>1. r \in OverlayRecords(es[i], 0) BY <3>2 DEF r
      <4> QED BY <1>4, <4>1 DEF Coming
    <3> QED BY <1>9, <3>1, <3>2
  <2> QED BY <1>4, <1>5, <1>7, <2>1, <2>2, <2>3 DEF Covers
<1>10. Covers(server, journal, es, server', journal') BY <1>8, <1>9
<1> QED BY <1>10 DEF Shares

-----------------------------------------------------------------------------
(* One event, and two, as a sequence.                                      *)
LEMMA EventPair ==
  ASSUME NEW e \in Events, NEW g \in Events
  PROVE  /\ <<>> \in Seq(Events) /\ DOMAIN <<>> = {} /\ Len(<<>>) = 0
         /\ <<e>> \in Seq(Events) /\ DOMAIN <<e>> = {1} /\ <<e>>[1] = e /\ Len(<<e>>) = 1
         /\ <<e, g>> \in Seq(Events) /\ DOMAIN <<e, g>> = {1, 2} /\ <<e, g>>[1] = e /\ <<e, g>>[2] = g
         /\ Len(<<e, g>>) = 2
OBVIOUS

(* Each step of the server shares what it does: the start of a Run,        *)
LEMMA StartRunShares ==
  ASSUME Typed, NEW source \in {"direct", "queue"}, StartRun(source)
  PROVE  Shared
<1> DEFINE r == server.runs + 1
           n == server.ver + 1
           e == RuntimeState(r, "running", n)
<1>1. r \in Nat /\ n \in Nat /\ "running" \in Phases /\ 0 \in Nat
  BY BoundsAreNumbers DEF Typed, ServerOK, ServerType, Phases
<1>3. Publish(<<e>>) /\ journal' = journal BY DEF StartRun
<1> HIDE DEF r, n
<1>2. e \in Events /\ e.kind = "runtime_state" BY <1>1, StateParses
<1>4. StaysHidden(server, server')
  <2>1. server.run = 0 /\ server'.ending = server.ending BY DEF StartRun, Typed, ServerOK, ServerType
  <2> QED BY <2>1 DEF StaysHidden
<1> HIDE DEF e
<1>5. Shares(<<e>>)
  <2> DEFINE es == <<e>>
  <2>1. es \in Seq(Events) /\ Len(es) <= 2 /\ DOMAIN es = {1} /\ es[1] = e BY <1>2, EventPair
  <2> HIDE DEF es
  <2>2. \A i \in DOMAIN es : es[i].kind \notin {"open", "close"} /\ Silent(es[i]) BY <1>2, <2>1 DEF Silent
  <2>3. Shares(es) BY <1>3, <1>4, <2>1, <2>2, SharesState
  <2> QED BY <2>3 DEF es
<1> QED BY <1>3, <1>5 DEF Shared

(* the request for an approval,                                            *)
LEMMA AskApprovalShares ==
  ASSUME Typed, AskApproval
  PROVE  Shared
<1> DEFINE r == server.run
           n == server.ver + 1
           m == server.ver + 2
           e == RuntimeState(r, "waiting_approval", n)
           g == Event("approval_required", r, 0, "", m)
<1>1. r \in Nat /\ n \in Nat /\ m \in Nat /\ "waiting_approval" \in Phases /\ 0 \in Nat
  BY BoundsAreNumbers DEF Typed, ServerOK, ServerType, Phases
<1>4. Publish(<<e, g>>) /\ journal' = journal BY DEF AskApproval
<1> HIDE DEF r, n, m
<1>2. e \in Events /\ e.kind = "runtime_state" BY <1>1, StateParses
<1>3. g \in Events /\ g.kind = "approval_required"
  <2>1. g \in Events /\ g.kind = "approval_required" /\ g.run = r /\ g.of = m /\ ParseLiveEvent(g)
    BY <1>1, RequiredParses
  <2> QED BY <2>1
<1>5. StaysHidden(server, server')
  <2>1. server'.run = server.run /\ server'.ending = server.ending
    BY DEF AskApproval, Typed, ServerOK, ServerType
  <2> QED BY <2>1 DEF StaysHidden
<1> HIDE DEF e, g
<1>6. Shares(<<e, g>>)
  <2> DEFINE es == <<e, g>>
  <2>1. es \in Seq(Events) /\ Len(es) <= 2 /\ DOMAIN es = {1, 2} /\ es[1] = e /\ es[2] = g
    BY <1>2, <1>3, EventPair
  <2> HIDE DEF es
  <2>2. \A i \in DOMAIN es : es[i].kind \notin {"open", "close"} /\ Silent(es[i])
    BY <1>2, <1>3, <2>1 DEF Silent
  <2>3. Shares(es) BY <1>4, <1>5, <2>1, <2>2, SharesState
  <2> QED BY <2>3 DEF es
<1> QED BY <1>4, <1>6 DEF Shared

(* the end of a Run,                                                       *)
LEMMA EndRunShares ==
  ASSUME Typed, EndRun
  PROVE  Shared
<1> DEFINE r == server.run
           n == server.ver + 1
           m == server.ver + 2
           e == Event("approval_cancelled", r, 0, "", n)
           g == RuntimeState(0, "idle", m)
<1>1. r \in Nat /\ n \in Nat /\ m \in Nat /\ "idle" \in Phases /\ 0 \in Nat
  BY BoundsAreNumbers DEF Typed, ServerOK, ServerType, Phases
<1>4. Publish((IF server.approvals = {} THEN <<>> ELSE <<e>>) \o <<g>>) /\ journal' = journal BY DEF EndRun
<1> HIDE DEF r, n, m
<1>2. e \in Events /\ e.kind = "approval_cancelled"
  <2>1. e \in Events /\ e.kind = "approval_cancelled" /\ e.run = r /\ e.of = n /\ ParseLiveEvent(e)
    BY <1>1, CancelledParses
  <2> QED BY <2>1
<1>3. g \in Events /\ g.kind = "runtime_state" BY <1>1, StateParses
<1>5. StaysHidden(server, server')
  <2>1. server'.ending = server.run /\ server.ending = 0
    BY DEF EndRun, Typed, ServerOK, ServerType
  <2> QED BY <2>1 DEF StaysHidden
<1> HIDE DEF e, g
<1>8. Shares(<<e, g>>)
  <2> DEFINE es == <<e, g>>
  <2>1. es \in Seq(Events) /\ Len(es) <= 2 /\ DOMAIN es = {1, 2} /\ es[1] = e /\ es[2] = g
    BY <1>2, <1>3, EventPair
  <2> HIDE DEF es
  <2>2. \A i \in DOMAIN es : es[i].kind \notin {"open", "close"} /\ Silent(es[i])
    BY <1>2, <1>3, <2>1 DEF Silent
  <2>3. Shares(es) BY <1>4, <1>5, <2>1, <2>2, SharesState
  <2> QED BY <2>3 DEF es
<1>9. Shares(<<g>>)
  <2> DEFINE es == <<g>>
  <2>1. es \in Seq(Events) /\ Len(es) <= 2 /\ DOMAIN es = {1} /\ es[1] = g BY <1>3, EventPair
  <2> HIDE DEF es
  <2>2. \A i \in DOMAIN es : es[i].kind \notin {"open", "close"} /\ Silent(es[i]) BY <1>3, <2>1 DEF Silent
  <2>3. Shares(es) BY <1>4, <1>5, <2>1, <2>2, SharesState
  <2> QED BY <2>3 DEF es
<1>10. <<e>> \o <<g>> = <<e, g>> BY <1>2, <1>3, OneAndOne
<1>11. <<>> \o <<g>> = <<g>> BY <1>3
<1>12. Publish(<<e, g>>) \/ Publish(<<g>>) BY <1>4, <1>10, <1>11
<1> QED BY <1>8, <1>9, <1>12 DEF Shared

(* the first record of a Run, which is hidden until it is over,            *)
LEMMA WriteUserMessageShares ==
  ASSUME Typed, WriteUserMessage
  PROVE  Shared
<1> DEFINE e == Event("follow_up", server.run, NextSeq, "queue_promoted", 0)
<1>1. JournalOK /\ server.run \in Nat /\ NextSeq \in Nat \ {0} /\ server.run # 0
  BY BoundsAreNumbers DEF Typed, ServerOK, ServerType, NextSeq, JournalOK, WriteUserMessage
<1>2. e \in Events /\ e.kind = "follow_up" BY <1>1 DEF Event, Events
<1>3. PICK es \in {<<e>>, <<>>} : Write("user_message", server.run, es) BY DEF WriteUserMessage
<1>4. StaysHidden(server, server') /\ server'.run = server.run
  <2>1. server'.run = server.run /\ server'.ending = server.ending
    BY DEF WriteUserMessage, Typed, ServerOK, ServerType
  <2> QED BY <2>1 DEF StaysHidden
<1>5. OverlayRecords(e, 0) = {Record(NextSeq, "user_message", server.run, 0)}
  <2>1. e.kind = "follow_up" /\ e.seq = NextSeq /\ e.seq > 0 /\ e.type = "queue_promoted" /\ e.run = server.run
        /\ e.of = 0
    BY <1>1 DEF Event
  <2> HIDE DEF e
  <2> QED BY <2>1 DEF OverlayRecords
<1> HIDE DEF e
<1>6. es \in Seq(Events) /\ Len(es) <= 2 /\ \A i \in DOMAIN es : es[i] = e
  <2>1. CASE es = <<e>>
    <3>1. <<e>> \in Seq(Events) /\ DOMAIN <<e>> = {1} /\ <<e>>[1] = e /\ Len(<<e>>) = 1 BY <1>2, EventPair
    <3> QED BY <2>1, <3>1
  <2>2. CASE es = <<>> BY <2>2
  <2> QED BY <1>3, <2>1, <2>2
<1>7. Shares(es)
  <2>1. \A i \in DOMAIN es : es[i].kind \notin {"open", "close"} BY <1>2, <1>6
  <2>2. \A i \in DOMAIN es : OverlayRecords(es[i], 0) =
          {Record(NextSeq, "user_message", server.run, IF "user_message" = "run_ended" THEN 1 ELSE 0)}
    BY <1>5, <1>6
  <2> QED BY <1>1, <1>3, <1>4, <1>6, <2>1, <2>2, SharesRecord
<1>8. Publish(es) BY <1>3 DEF Write
<1> QED BY <1>7, <1>8 DEF Shared

(* output, announced with its record,                                      *)
LEMMA WriteOutputShares ==
  ASSUME Typed, WriteOutput
  PROVE  Shared
<1> DEFINE e == Event("output", server.run, NextSeq, "assistant_message", 0)
<1>1. JournalOK /\ server.run \in Nat /\ NextSeq \in Nat \ {0}
  BY BoundsAreNumbers DEF Typed, ServerOK, ServerType, NextSeq, JournalOK
<1>2. e \in Events /\ e.kind = "output" BY <1>1 DEF Event, Events
<1>3. Write("assistant_message", server.run, <<e>>) /\ server' = server BY DEF WriteOutput
<1>4. StaysHidden(server, server') BY <1>3 DEF StaysHidden
<1>5. OverlayRecords(e, 0) = {Record(NextSeq, "assistant_message", server.run, 0)}
  <2>1. e.kind = "output" /\ e.seq = NextSeq /\ e.seq > 0 /\ e.type = "assistant_message" /\ e.run = server.run
        /\ e.of = 0
    BY <1>1 DEF Event
  <2> HIDE DEF e
  <2> QED BY <2>1 DEF OverlayRecords
<1> HIDE DEF e
<1>6. Shares(<<e>>)
  <2> DEFINE es == <<e>>
  <2>1. es \in Seq(Events) /\ Len(es) <= 2 /\ DOMAIN es = {1} /\ es[1] = e BY <1>2, EventPair
  <2>2. Write("assistant_message", server.run, es) BY <1>3
  <2> HIDE DEF es
  <2>3. \A i \in DOMAIN es : es[i].kind \notin {"open", "close"} BY <1>2, <2>1
  <2>4. \A i \in DOMAIN es : OverlayRecords(es[i], 0) =
          {Record(NextSeq, "assistant_message", server.run, IF "assistant_message" = "run_ended" THEN 1 ELSE 0)}
    BY <1>5, <2>1
  <2>5. \E i \in DOMAIN es : ~Silent(es[i]) BY <1>2, <2>1 DEF Silent
  <2>6. Shares(es) BY <1>1, <1>4, <2>1, <2>2, <2>3, <2>4, <2>5, SharesRecord
  <2> QED BY <2>6 DEF es
<1>7. Publish(<<e>>) BY <1>3 DEF Write
<1> QED BY <1>6, <1>7 DEF Shared

(* the answer to a request, which has the history read again,              *)
LEMMA ResolveApprovalShares ==
  ASSUME Typed, ResolveApproval
  PROVE  Shared
<1> DEFINE r == server.run
           q == NextSeq
           n == server.ver + 1
           m == server.ver + 2
           e == Event("approval_resolved", r, q, "", n)
           g == RuntimeState(r, "running", m)
<1>1. JournalOK /\ r \in Nat /\ q \in Nat /\ n \in Nat /\ m \in Nat /\ "running" \in Phases
  BY BoundsAreNumbers DEF Typed, ServerOK, ServerType, NextSeq, JournalOK, Phases
<1>4. Write("approval", r, <<e, g>>) BY DEF ResolveApproval
<1> HIDE DEF r, q, n, m
<1>2. e \in Events /\ e.kind = "approval_resolved"
  <2>1. e \in Events /\ e.kind = "approval_resolved" /\ e.run = r /\ e.of = n /\ ParseLiveEvent(e)
    BY <1>1, ResolvedParses
  <2> QED BY <2>1
<1>3. g \in Events /\ g.kind = "runtime_state" BY <1>1, StateParses
<1> HIDE DEF e, g
<1>5. Shares(<<e, g>>)
  <2> DEFINE es == <<e, g>>
  <2>1. es \in Seq(Events) /\ Len(es) <= 2 /\ DOMAIN es = {1, 2} /\ es[1] = e /\ es[2] = g
    BY <1>2, <1>3, EventPair
  <2>2. Write("approval", r, es) BY <1>4
  <2> HIDE DEF es
  <2>3. \A i \in DOMAIN es : es[i].kind \notin {"open", "close"} /\ Silent(es[i])
    BY <1>2, <1>3, <2>1 DEF Silent
  <2>4. \E i \in DOMAIN es : Calls(es[i]) BY <1>2, <2>1 DEF Calls
  <2>5. Shares(es) BY <1>1, <2>1, <2>2, <2>3, <2>4, SharesRecord
  <2> QED BY <2>5 DEF es
<1>6. Publish(<<e, g>>) BY <1>4 DEF Write
<1> QED BY <1>5, <1>6 DEF Shared

(* and the end of a Run, told whether or not its record was written.       *)
LEMMA RecordRunEndedShares ==
  ASSUME Typed, NEW written \in BOOLEAN, RecordRunEnded(written)
  PROVE  Shared
<1> DEFINE x == server.ending
           e == Event("run_ended", x, 0, "", 0)
<1>1. JournalOK /\ x \in Nat /\ 0 \in Nat BY DEF Typed, ServerOK, ServerType
<1>0. \/ Write("run_ended", x, <<e>>)
      \/ journal' = journal /\ Publish(<<e>>)
  BY DEF RecordRunEnded
<1> HIDE DEF x
<1>2. e \in Events /\ e.kind = "run_ended" BY <1>1, EndedParses
<1> HIDE DEF e
<1>4. Publish(<<e>>) BY <1>0 DEF Write
<1> DEFINE es == <<e>>
<1>5. es \in Seq(Events) /\ Len(es) <= 2 /\ DOMAIN es = {1} /\ es[1] = e BY <1>2, EventPair
<1>6. Write("run_ended", x, es) \/ journal' = journal BY <1>0
<1> HIDE DEF es
<1>7. \A i \in DOMAIN es : es[i].kind \notin {"open", "close"} /\ Silent(es[i]) BY <1>2, <1>5 DEF Silent
<1>8. \E i \in DOMAIN es : Calls(es[i]) BY <1>2, <1>5 DEF Calls
<1>9. CASE Write("run_ended", x, es)
  <2>1. Shares(es) BY <1>1, <1>5, <1>7, <1>8, <1>9, SharesRecord
  <2> QED BY <1>4, <2>1 DEF Shared, es
<1>10. CASE journal' = journal
  <2>1. Extends(journal, journal') BY <1>10 DEF Extends
  <2>2. Carried(journal', es) BY <1>7, SilentCarries DEF Carried
  <2>3. \A i : Coming(journal', es, i) BY <1>8 DEF Coming
  <2>4. Covers(server, journal, es, server', journal') BY <1>10, <2>1, <2>2, <2>3 DEF Covers
  <2>5. Shares(es) BY <1>5, <1>7, <2>4 DEF Shares
  <2> QED BY <1>4, <2>5 DEF Shared, es
<1> QED BY <1>6, <1>9, <1>10

(* Whatever the server does, it tells of what there is to show.            *)
LEMMA ServerShares ==
  ASSUME Typed, ServerWrites
  PROVE  \E es : Told(es) /\ Shares(es)
<1>1. Shared
  BY StartRunShares, AskApprovalShares, EndRunShares, WriteUserMessageShares, WriteOutputShares,
     ResolveApprovalShares, RecordRunEndedShares DEF ServerWrites
<1>2. PICK es : Publish(es) /\ Shares(es) BY <1>1 DEF Shared
<1>3. wire \in Seq(Events) BY DEF Typed, StreamOK
<1>4. Told(es)
  <2>1. es \in Seq(Events) /\ Len(es) <= 2 /\ \A i \in DOMAIN es : es[i].kind # "close" BY <1>2 DEF Shares
  <2> QED BY <1>2, <1>3, <2>1, PublishDoes
<1> QED BY <1>2, <1>4

-----------------------------------------------------------------------------
(* The client lacks nothing newer than what it has loaded, or has read and *)
(* not used yet, but what the events q are to bring (Behind); what it has  *)
(* loaded or read has no gap at its newest end (Holds).  Tracking is the   *)
(* invariant of every step, Moves what a step of the client has to keep.   *)
Behind(v, J, q, c) ==
  /\ c.syncing = "no" /\ "history" \notin c.lost => Ahead(v, J, q, c.overlay, HistoryNewestSeq(c.pages))
  /\ c.syncing = "requests" => \A p \in c.historyReq.val : Ahead(v, J, q, c.overlay, NewestSeq(p))
  /\ c.syncing = "refetch" => \A ps \in c.fetch.val : Ahead(v, J, q, c.overlay, HistoryNewestSeq(ps))
HeldFetch(J, f) == TopPages(J, f.base) /\ \A ps \in f.val : TopPages(J, ps)
Holds(J, c) ==
  /\ Carried(J, c.buffered) /\ TopPages(J, c.pages) /\ HeldFetch(J, c.fetch)
  /\ \A p \in c.historyReq.val : Topped(J, ToSet(p.records), NewestSeq(p))
  /\ c.syncing = "refetch" => c.fetch.st # "none" /\ ~c.fetch.older
Moves(v, J, w, c, r, d) ==
  /\ Holds(J, d)
  /\ (Follows(c, w) => Behind(v, J, c.buffered \o w, c)) => (Follows(d, r) => Behind(v, J, d.buffered \o r, d))
Tracking ==
  /\ Carried(journal, wire) /\ Holds(journal, client)
  /\ socket = "up" /\ Follows(client, wire) => Behind(server, journal, client.buffered \o wire, client)

(* No fetch yet, or one with nothing loaded.                               *)
LEMMA FirstHeld ==
  ASSUME NEW J \in Seq(Records)
  PROVE  /\ \A f \in FirstFetches : HeldFetch(J, f) /\ f.val = {}
         /\ HeldFetch(J, NoFetch) /\ NoFetch.val = {} /\ NoFetch.st = "none"
         /\ Carried(J, <<>>)
<1>1. \A f \in FirstFetches : f.base = NoHistory /\ f.val = {} BY DEF FirstFetches, NoFetch, Fetch
<1>2. TopPages(J, NoHistory)
  <2>1. HistoryNewestSeq(NoHistory) = 0
    <3>1. NoHistory \in Seq(Pages(Records)) /\ DOMAIN NoHistory = {} BY DEF NoHistory
    <3>2. History(Records, J, NoHistory) BY <3>1, NothingLoaded DEF History
    <3> QED BY <3>2, NothingLoaded, NewestIs
  <2>2. \A i \in DOMAIN J : ~(i <= 0) OBVIOUS
  <2> QED BY <2>1, <2>2 DEF TopPages, Topped
<1>3. NoFetch \in FirstFetches /\ NoFetch.st = "none" BY DEF FirstFetches, NoFetch, Fetch
<1>4. Carried(J, <<>>) BY DEF Carried
<1> QED BY <1>1, <1>2, <1>3, <1>4 DEF HeldFetch

(* What a step that leaves the history and the overlay alone keeps.        *)
LEMMA BehindAlike ==
  ASSUME NEW v, NEW J, NEW q, NEW c, Behind(v, J, q, c), NEW d, d.syncing = c.syncing, d.overlay = c.overlay,
         d.pages = c.pages, "history" \in c.lost => "history" \in d.lost, d.historyReq.val \subseteq c.historyReq.val,
         d.syncing = "refetch" => d.fetch.val \subseteq c.fetch.val
  PROVE  Behind(v, J, q, d)
BY DEF Behind

(* Nor is anything claimed of what is asked for and not read yet.          *)
LEMMA BehindFresh ==
  ASSUME NEW v, NEW J, NEW q, NEW d, d.syncing = "requests", d.historyReq = Asked
  PROVE  Behind(v, J, q, d)
BY SlotFields DEF Behind

(* The same pages and answers, or fewer, have what they had.               *)
LEMMA HoldsAlike ==
  ASSUME NEW J, NEW c, Holds(J, c), NEW d, Carried(J, d.buffered), d.pages = c.pages, HeldFetch(J, d.fetch),
         d.historyReq.val \subseteq c.historyReq.val,
         d.syncing = "refetch" => c.syncing = "refetch" /\ (c.fetch.st # "none" => d.fetch.st # "none")
                                  /\ d.fetch.older = c.fetch.older
  PROVE  Holds(J, d)
BY DEF Holds

(* During a replay nothing is ahead of the history but what is shown or    *)
(* still to be replayed, unless a resynchronisation is to follow.          *)
LEMMA ReplayAhead ==
  ASSUME NEW f, NEW b \in Seq(Events), Replays(f, f[0], b, Len(b)), \A k \in 0..Len(b) : Kept(f[0], f[k]),
         f[0].draining = TRUE, f[0].stateReq = None, f[0].syncing = "no", f[0].selected = TRUE,
         NEW J, Placed(J), NEW v, NEW w \in Seq(Events), Carried(J, b \o w), NEW h,
         Ahead(v, J, b \o w, f[0].overlay, h), NEW k \in 0..Len(b)
  PROVE  f[k].deferred \/ Ahead(v, J, Rest(b, k, w), f[k].overlay, h)
<1> DEFINE T == {n \in Nat : n <= Len(b) =>
                   Carried(J, Rest(b, n, w)) /\ (f[n].deferred \/ Ahead(v, J, Rest(b, n, w), f[n].overlay, h))}
<1>1. 0 \in T
  <2>1. Rest(b, 0, w) = b \o w BY RestAll
  <2> QED BY <2>1
<1>2. ASSUME NEW n \in Nat, n \in T PROVE n + 1 \in T
  <2> SUFFICES ASSUME n + 1 <= Len(b)
               PROVE  Carried(J, Rest(b, n + 1, w))
                      /\ (f[n + 1].deferred \/ Ahead(v, J, Rest(b, n + 1, w), f[n + 1].overlay, h))
    OBVIOUS
  <2>1. Len(b) \in Nat /\ n \in 0..(Len(b) - 1) /\ n <= Len(b) /\ n \in 0..Len(b) OBVIOUS
  <2>2. b[n + 1] \in Events /\ Processes(f[n], b[n + 1], f[n + 1]) /\ NoResync(f[n], f[n + 1])
    BY <2>1, ReplayProcesses
  <2>3. Carried(J, Rest(b, n, w)) /\ (f[n].deferred \/ Ahead(v, J, Rest(b, n, w), f[n].overlay, h))
    BY <1>2, <2>1
  <2>4. Begins(Rest(b, n, w), b[n + 1], Rest(b, n + 1, w)) BY <2>1, RestBegins
  <2>5. f[n].selected = TRUE /\ f[n].draining = TRUE BY <2>1 DEF Kept, ClientFields
  <2> DEFINE x == f[n]
             y == f[n + 1]
             e == b[n + 1]
             q == Rest(b, n, w)
             r == Rest(b, n + 1, w)
  <2>6. /\ e \in Events /\ Processes(x, e, y) /\ NoResync(x, y) /\ Carried(J, q)
        /\ (x.deferred \/ Ahead(v, J, q, x.overlay, h)) /\ Begins(q, e, r) /\ x.selected = TRUE /\ x.draining = TRUE
    BY <2>2, <2>3, <2>4, <2>5
  <2> HIDE DEF x, y, e, q, r
  <2>7. Carried(J, r) BY <2>6, CarriedBegins
  <2>8. CASE Calls(e)
    <3>1. y.deferred = TRUE BY <2>6, <2>8 DEF Processes
    <3> QED BY <2>7, <3>1 DEF y, r
  <2>9. CASE x.deferred
    <3>1. y.deferred BY <2>6, <2>9 DEF NoResync
    <3> QED BY <2>7, <3>1 DEF y, r
  <2>10. CASE ~Calls(e) /\ Ahead(v, J, q, x.overlay, h)
    <3>1. Ahead(v, J, r, y.overlay, h) BY <2>6, <2>10, AheadShrinks
    <3> QED BY <2>7, <3>1 DEF y, r
  <2> QED BY <2>6, <2>8, <2>9, <2>10
<1> HIDE DEF T
<1>3. k \in Nat /\ k \in T BY <1>1, <1>2, Stepwise
<1>4. k <= Len(b) OBVIOUS
<1> QED BY <1>3, <1>4 DEF T

(* At the end of a resynchronisation.                                      *)
LEMMA FinishTracks ==
  ASSUME NEW m, Sound(m), m.selected, NEW J \in Seq(Records), Placed(J), History(Records, J, m.pages),
         Carried(J, m.buffered), TopPages(J, m.pages), HeldFetch(J, m.fetch),
         NEW newest \in Int, newest <= HistoryNewestSeq(m.pages), NEW d, d = FinishResync(m, newest),
         NEW v, NEW w \in Seq(Events), Carried(J, w)
  PROVE  /\ Holds(J, d) /\ d.selected = m.selected /\ d.link = m.link
         /\ d.syncing = "no" => d.lost = m.lost
         /\ d.syncing # "no" => Behind(v, J, d.buffered \o w, d)
         /\ ("history" \notin m.lost => Ahead(v, J, m.buffered \o w, m.ref, HistoryNewestSeq(m.pages))) =>
              Behind(v, J, d.buffered \o w, d)
<1> DEFINE b == m.buffered
           n == Len(b)
           h == HistoryNewestSeq(m.pages)
<1>1. PICK f : Ends(m, f, n, d) /\ f[0].overlay = PruneOverlay(m.pages, m.ref, newest) BY FinishDoes
<1>2. b \in Seq(Events) /\ n \in Nat /\ n \in 0..n BY DEF Sound
<1>3. /\ \A k \in 0..n : Kept(f[0], f[k])
      /\ Replays(f, f[0], b, n)
      /\ f[0].draining = TRUE /\ f[0].stateReq = None /\ f[0].syncing = "no"
  BY <1>1, Zenon DEF Ends
<1>4. /\ f[0].lost = m.lost /\ f[0].pages = m.pages /\ f[0].selected = m.selected /\ f[0].link = m.link
      /\ f[0].fetch = m.fetch
  BY <1>1 DEF Ends, Changes, ClientFields
<1>5. /\ d.pages = f[n].pages /\ d.overlay = f[n].overlay /\ d.selected = f[n].selected /\ d.link = f[n].link
  BY <1>1 DEF Ends, Changes, ClientFields, ResyncFields
<1>6. /\ f[n].pages = m.pages /\ f[n].selected = m.selected /\ f[n].link = m.link
  BY <1>2, <1>3, <1>4 DEF Kept, ClientFields
<1>7. /\ d.buffered = <<>>
      /\ \/ d.syncing = "requests" /\ d.historyReq = Asked /\ d.fetch = NoFetch
         \/ ~f[n].deferred /\ d.syncing = "no" /\ d.historyReq = None /\ d.fetch = m.fetch /\ d.lost = m.lost
  BY <1>1 DEF Ends
<1>8. Holds(J, d)
  <2>1. Carried(J, d.buffered) /\ HeldFetch(J, NoFetch) BY <1>7, FirstHeld
  <2>2. d.historyReq.val = {} /\ d.syncing # "refetch" BY <1>7, SlotFields
  <2> QED BY <1>5, <1>6, <1>7, <2>1, <2>2 DEF Holds
<1>11. ASSUME d.syncing # "no" PROVE Behind(v, J, d.buffered \o w, d)
  BY <1>7, <1>11, BehindFresh
<1>9. h \in Int BY NewestIs
<1> DEFINE o == m.ref
           q == b \o w
           p == PruneOverlay(m.pages, m.ref, newest)
<1>10. ASSUME "history" \notin m.lost => Ahead(v, J, q, o, h)
       PROVE  Behind(v, J, d.buffered \o w, d)
  <2>1. CASE d.syncing = "requests" /\ d.historyReq = Asked BY <2>1, BehindFresh
  <2>2. CASE ~f[n].deferred /\ d.syncing = "no" /\ d.lost = m.lost
    <3>1. d.buffered \o w = w BY <1>7, NothingHeld
    <3>2. ASSUME "history" \notin m.lost PROVE Ahead(v, J, w, d.overlay, h)
      <4>1. Ahead(v, J, q, o, h) BY <1>10, <3>2
      <4> HIDE DEF h, o, q
      <4>2. newest <= h BY DEF h
      <4>3. Ahead(v, J, q, PruneOverlay(m.pages, o, newest), h) BY <1>9, <4>1, <4>2, AheadPruned
      <4>4. Ahead(v, J, q, f[0].overlay, h) BY <1>1, <4>3 DEF o
      <4>5. Carried(J, q) BY <1>2, CarriedJoined DEF q
      <4>6. f[0].selected = TRUE BY <1>4 DEF Sound
      <4>7. f[n].deferred \/ Ahead(v, J, Rest(b, n, w), f[n].overlay, h)
        BY <1>2, <1>3, <4>4, <4>5, <4>6, ReplayAhead DEF q
      <4>8. Rest(b, n, w) = w BY <1>2, RestAll
      <4> QED BY <1>5, <2>2, <4>7, <4>8
    <3>3. HistoryNewestSeq(d.pages) = h BY <1>5, <1>6
    <3> QED BY <2>2, <3>1, <3>2, <3>3 DEF Behind
  <2> QED BY <1>7, <2>1, <2>2
<1> QED BY <1>5, <1>6, <1>7, <1>8, <1>10, <1>11

-----------------------------------------------------------------------------
(* The stream opens or closes: a client that follows it then is about to   *)
(* read the history.                                                       *)
LEMMA StatusTracks ==
  ASSUME NEW J \in Seq(Records), NEW c, Sound(c), Holds(J, c), NEW link \in Links, NEW d,
         d = OnStatusChange(c, link), NEW v, NEW r
  PROVE  Holds(J, d) /\ (Follows(d, r) => Behind(v, J, d.buffered \o r, d))
<1>0. Switches(c, link, d) BY StatusDoes
<1>1. /\ Changes(c, d, {"link", "status"} \cup ResyncFields) /\ d.link = link
      /\ \/ c.selected /\ Fresh(c, d)
         \/ /\ d.syncing = c.syncing /\ d.historyReq = c.historyReq /\ d.buffered = c.buffered /\ d.fetch = c.fetch
            /\ \/ d.lost = c.lost \cup {"reconnect"}
               \/ link = "connected" => ~c.selected
  BY <1>0 DEF Switches
<1>2. d.pages = c.pages /\ d.selected = c.selected BY <1>1 DEF Changes, ClientFields, ResyncFields
<1>3. Carried(J, c.buffered) /\ HeldFetch(J, c.fetch) BY DEF Holds
<1>4. Holds(J, d)
  <2>1. CASE Fresh(c, d)
    <3>1. d.buffered = <<>> /\ d.fetch = NoFetch /\ d.historyReq = Asked /\ d.syncing # "refetch"
      BY <2>1 DEF Fresh
    <3> QED BY <1>2, <3>1, FirstHeld, SlotFields, HoldsAlike
  <2>2. CASE d.syncing = c.syncing /\ d.historyReq = c.historyReq /\ d.buffered = c.buffered /\ d.fetch = c.fetch
    BY <1>2, <1>3, <2>2, HoldsAlike
  <2> QED BY <1>1, <2>1, <2>2
<1>5. ASSUME Follows(d, r) PROVE Behind(v, J, d.buffered \o r, d)
  <2>1. Fresh(c, d) BY <1>1, <1>2, <1>5 DEF Follows
  <2> QED BY <2>1, BehindFresh DEF Fresh
<1> QED BY <1>4, <1>5

(* What the next event of the stream does: it is held back, or it shows    *)
(* what it carries, or the history is read again.                          *)
LEMMA EventTracks ==
  ASSUME NEW a, NEW d, NEW w \in Seq(Events), w # <<>>, Delivers(a, d, Head(w)),
         NEW J \in Seq(Records), Placed(J), Carried(J, w), Holds(J, a), NEW v
  PROVE  Carried(J, Tail(w)) /\ Moves(v, J, w, a, Tail(w), d)
<1> DEFINE e == Head(w)
           r == Tail(w)
<1>1. Begins(w, e, r) /\ e \in Events /\ r \in Seq(Events) BY HeadBegins
<1>2. \A b \in Seq(Events) : Append(b, e) \o r = b \o w BY HeldBack
<1>3. PICK c : /\ Sound(c) /\ Changes(a, c, {"ref", "rendered"}) /\ Sound(d)
               /\ \/ e.kind = "open" /\ d = OnStatusChange(c, "connected")
                  \/ e.kind = "close" /\ d = OnStatusChange(c, "reconnecting")
                  \/ /\ ~IsMarker(e) /\ c.syncing # "no"
                     /\ Changes(c, d, {"buffered"}) /\ d.buffered = Append(c.buffered, e)
                  \/ ~IsMarker(e) /\ c.syncing = "no" /\ Processes(c, e, d)
  BY Zenon DEF Delivers
<1> HIDE DEF e, r
<1>4. /\ c.pages = a.pages /\ c.historyReq = a.historyReq /\ c.fetch = a.fetch /\ c.syncing = a.syncing
      /\ c.lost = a.lost /\ c.selected = a.selected /\ c.link = a.link /\ c.buffered = a.buffered
      /\ c.overlay = a.overlay
  BY <1>3 DEF Changes, ClientFields
<1>5. Carried(J, r) /\ \A x \in OverlayRecords(e, 0) : Taken(x, J) BY <1>1, CarriedBegins
<1>6. Holds(J, c) /\ Carried(J, c.buffered) /\ HeldFetch(J, c.fetch)
  <2>1. Carried(J, a.buffered) /\ HeldFetch(J, a.fetch) BY DEF Holds
  <2> QED BY <1>4, <2>1, HoldsAlike
<1>7. ASSUME Holds(J, d), (Follows(c, w) => Behind(v, J, c.buffered \o w, c)) =>
                            (Follows(d, r) => Behind(v, J, d.buffered \o r, d))
      PROVE  Moves(v, J, w, a, r, d)
  <2>1. Behind(v, J, a.buffered \o w, a) => Behind(v, J, c.buffered \o w, c) BY <1>4, BehindAlike
  <2>2. Follows(a, w) <=> Follows(c, w) BY <1>4 DEF Follows
  <2> QED BY <1>7, <2>1, <2>2 DEF Moves
<1>8. ASSUME NEW link \in Links, d = OnStatusChange(c, link) PROVE Moves(v, J, w, a, r, d)
  <2>1. Holds(J, d) /\ (Follows(d, r) => Behind(v, J, d.buffered \o r, d)) BY <1>3, <1>6, <1>8, StatusTracks
  <2> QED BY <1>7, <2>1
<1>9. CASE e.kind = "open" /\ d = OnStatusChange(c, "connected")
  <2>1. "connected" \in Links BY DEF Links
  <2> QED BY <1>5, <1>8, <1>9, <2>1 DEF e, r
<1>10. CASE e.kind = "close" /\ d = OnStatusChange(c, "reconnecting")
  <2>1. "reconnecting" \in Links BY DEF Links
  <2> QED BY <1>5, <1>8, <1>10, <2>1 DEF e, r
<1>11. ASSUME ~IsMarker(e) PROVE Unmarked(r) => Unmarked(w)
  <2>1. /\ w[1] = e
        /\ \A i \in DOMAIN w : i = 1 \/ (i - 1 \in DOMAIN r /\ w[i] = r[i - 1])
    BY <1>1, BeginsIn
  <2> QED BY <1>11, <2>1 DEF Unmarked
<1>12. CASE ~IsMarker(e) /\ c.syncing # "no" /\ Changes(c, d, {"buffered"}) /\ d.buffered = Append(c.buffered, e)
  <2>1. /\ d.pages = c.pages /\ d.historyReq = c.historyReq /\ d.fetch = c.fetch /\ d.syncing = c.syncing
        /\ d.lost = c.lost /\ d.selected = c.selected /\ d.link = c.link /\ d.overlay = c.overlay
    BY <1>12 DEF Changes, ClientFields
  <2>2. d.buffered \o r = c.buffered \o w /\ c.buffered \in Seq(Events) BY <1>2, <1>3, <1>12 DEF Sound
  <2>3. Carried(J, d.buffered)
    <3> DEFINE b == c.buffered
               g == Append(b, e)
    <3>1. /\ DOMAIN g = DOMAIN b \cup {Len(b) + 1}
          /\ \A k \in DOMAIN b : g[k] = b[k]
          /\ g[Len(b) + 1] = e
      BY <2>2
    <3>2. Carried(J, b) BY <1>6
    <3> HIDE DEF g, b
    <3>3. Carried(J, g) BY <1>5, <3>1, <3>2 DEF Carried
    <3> QED BY <1>12, <3>3 DEF g, b
  <2>4. Holds(J, d) BY <1>6, <2>1, <2>3, HoldsAlike
  <2>5. ASSUME Follows(c, w) => Behind(v, J, c.buffered \o w, c), Follows(d, r)
        PROVE  Behind(v, J, d.buffered \o r, d)
    <3>1. Behind(v, J, c.buffered \o w, c) BY <1>11, <1>12, <2>1, <2>5 DEF Follows
    <3> QED BY <2>1, <2>2, <3>1, BehindAlike
  <2> QED BY <1>5, <1>7, <2>4, <2>5 DEF r
<1>13. CASE ~IsMarker(e) /\ c.syncing = "no" /\ Processes(c, e, d)
  <2>1. c.buffered = <<>> /\ c.historyReq = None /\ c.draining = FALSE BY <1>3, <1>13 DEF Sound
  <2>2. NoResync(c, d) \/ Resyncs(c, d) BY <1>13 DEF Processes
  <2>3. d.selected = c.selected /\ d.link = c.link /\ d.pages = c.pages
    BY <1>13 DEF Processes, Changes, ClientFields, ProcessFields, ResyncFields
  <2>4. d.buffered = <<>> /\ d.buffered \o r = r /\ c.buffered \o w = w
    BY <1>1, <2>1, <2>2, NothingHeld DEF NoResync, Resyncs
  <2>5. Holds(J, d)
    <3>1. CASE Resyncs(c, d)
      <4>1. d.fetch = NoFetch /\ d.historyReq = Asked /\ d.syncing # "refetch" BY <3>1 DEF Resyncs
      <4> QED BY <1>6, <2>3, <2>4, <4>1, FirstHeld, SlotFields, HoldsAlike
    <3>2. CASE NoResync(c, d)
      <4>1. d.fetch = c.fetch /\ d.historyReq = c.historyReq /\ d.syncing = c.syncing BY <3>2 DEF NoResync
      <4> QED BY <1>6, <2>3, <2>4, <4>1, FirstHeld, HoldsAlike
    <3> QED BY <2>2, <3>1, <3>2
  <2>6. ASSUME Follows(c, w) => Behind(v, J, c.buffered \o w, c), Follows(d, r)
        PROVE  Behind(v, J, d.buffered \o r, d)
    <3>1. CASE Resyncs(c, d) BY <3>1, BehindFresh DEF Resyncs
    <3>2. CASE NoResync(c, d) /\ ~Resyncs(c, d)
      <4>1. d.lost = c.lost /\ d.syncing = "no" BY <1>13, <3>2 DEF NoResync
      <4>2. Behind(v, J, w, c) /\ c.selected BY <1>11, <1>13, <2>3, <2>4, <2>6, <4>1 DEF Follows
      <4>3. ~Calls(e) BY <1>13, <2>1, <3>2, <4>2 DEF Processes
      <4>4. ASSUME "history" \notin d.lost PROVE Ahead(v, J, r, d.overlay, HistoryNewestSeq(d.pages))
        <5>1. Ahead(v, J, w, c.overlay, HistoryNewestSeq(d.pages)) BY <1>13, <2>3, <4>1, <4>2, <4>4 DEF Behind
        <5> DEFINE n == HistoryNewestSeq(d.pages)
        <5> HIDE DEF n
        <5>2. Ahead(v, J, w, c.overlay, n) BY <5>1 DEF n
        <5>3. Ahead(v, J, r, d.overlay, n) BY <1>1, <1>13, <4>2, <4>3, <5>2, AheadShrinks
        <5> QED BY <5>3 DEF n
      <4> QED BY <2>4, <4>1, <4>4 DEF Behind
    <3> QED BY <2>2, <3>1, <3>2
  <2> QED BY <1>5, <1>7, <2>5, <2>6 DEF r
<1> QED BY <1>3, <1>9, <1>10, <1>12, <1>13

-----------------------------------------------------------------------------
(* The end of a resynchronisation of c, whose history has become m's.      *)
LEMMA FinishMovesOn ==
  ASSUME NEW J \in Seq(Records), Placed(J), NEW c, NEW m, Sound(m), m.syncing # "no", m.selected = c.selected,
         m.link = c.link, "reconnect" \in m.lost <=> "reconnect" \in c.lost, m.buffered = c.buffered,
         History(Records, J, m.pages), Carried(J, m.buffered), TopPages(J, m.pages), HeldFetch(J, m.fetch),
         NEW newest \in Int, newest <= HistoryNewestSeq(m.pages), NEW d, d = FinishResync(m, newest),
         NEW v, NEW w \in Seq(Events), Carried(J, w),
         "history" \notin m.lost /\ Behind(v, J, c.buffered \o w, c) =>
           Ahead(v, J, m.buffered \o w, m.ref, HistoryNewestSeq(m.pages))
  PROVE  Moves(v, J, w, c, w, d)
<1>1. m.selected BY DEF Sound
<1>2. /\ Holds(J, d) /\ d.selected = m.selected /\ d.link = m.link
      /\ d.syncing = "no" => d.lost = m.lost
      /\ d.syncing # "no" => Behind(v, J, d.buffered \o w, d)
      /\ ("history" \notin m.lost => Ahead(v, J, m.buffered \o w, m.ref, HistoryNewestSeq(m.pages))) =>
           Behind(v, J, d.buffered \o w, d)
  BY <1>1, FinishTracks
<1>3. ASSUME Follows(c, w) => Behind(v, J, c.buffered \o w, c), Follows(d, w)
      PROVE  Behind(v, J, d.buffered \o w, d)
  <2>1. CASE d.syncing # "no" BY <1>2, <2>1
  <2>2. CASE d.syncing = "no"
    <3>1. Follows(c, w) BY <1>2, <1>3, <2>2 DEF Follows
    <3> QED BY <1>2, <1>3, <3>1
  <2> QED BY <2>1, <2>2
<1> QED BY <1>2, <1>3 DEF Moves

(* The answers of a resynchronisation are used: what is merged is as new   *)
(* as the page that was read, and nothing was ahead of that.               *)
LEMMA ApplyTracks ==
  ASSUME NEW J \in Seq(Records), Placed(J), NEW c, Sound(c), c.syncing = "requests", NEW d, ApplyResyncs(c, d),
         NEW v, Keeps(v, J, c), Holds(J, c), NEW w \in Seq(Events), Carried(J, w)
  PROVE  Moves(v, J, w, c, w, d)
<1>1. PICK m : /\ Applied(c, m)
               /\ \/ /\ c.historyReq.st = "answered" /\ Merges(c, m)
                     /\ d = FinishResync(m, IF NewestOf(c) = 0 THEN HistoryNewestSeq(m.pages) ELSE NewestOf(c))
                  \/ /\ c.historyReq.st = "failed" /\ LeavesPages(c, m) /\ Changes(m, d, {"syncing", "fetch"})
                     /\ d.syncing = "refetch" /\ d.fetch = Fetch("asked", FALSE, c.pages)
  BY Zenon DEF ApplyResyncs
<1>2. /\ Sound(m) /\ m.selected = c.selected /\ m.link = c.link /\ m.buffered = c.buffered /\ m.syncing = c.syncing
      /\ m.fetch = c.fetch /\ m.historyReq = c.historyReq /\ m.ref = c.overlay
      /\ "reconnect" \in m.lost <=> "reconnect" \in c.lost
  BY <1>1 DEF Applied, Changes, ClientFields
<1>3. Carried(J, c.buffered) /\ TopPages(J, c.pages) /\ HeldFetch(J, c.fetch) BY DEF Holds
<1>4. CASE /\ c.historyReq.st = "answered" /\ Merges(c, m)
           /\ d = FinishResync(m, IF NewestOf(c) = 0 THEN HistoryNewestSeq(m.pages) ELSE NewestOf(c))
  <2>1. IsAnswer(c.historyReq) BY DEF Sound
  <2>2. PICK p : c.historyReq.val = {p} BY <1>4, <2>1, AnswerHolds
  <2>3. Latest(Records, J, p) /\ History(Records, J, c.pages) BY <2>2 DEF Keeps, Answers
  <2>4. m.pages = MergeHistoryPages(c.pages, p, PageSize)
    <3>1. (CHOOSE page \in c.historyReq.val : TRUE) = p BY <2>2
    <3> QED BY <1>4, <3>1 DEF Merges
  <2> DEFINE h == HistoryNewestSeq(m.pages)
             newest == IF NewestOf(c) = 0 THEN h ELSE NewestOf(c)
  <2>5. PageSize \in Nat \ {0} BY BoundsAreNumbers
  <2>6. History(Records, J, m.pages) /\ NewestSeq(p) <= h BY <2>3, <2>4, <2>5, MergedHistory
  <2>7. h \in 0..Len(J) /\ NewestSeq(p) \in 0..Len(J) BY <2>3, <2>6, NewestIs, NewestOfPage
  <2>8. NewestOf(c) = NewestSeq(p)
    <3> DEFINE S == {NewestSeq(page) : page \in c.historyReq.val} \cup {0}
               x == NewestSeq(p)
    <3>1. S = {x, 0} BY <2>2
    <3>2. x \in Int /\ ~(x < 0) /\ 0 \in Int BY <2>7
    <3>3. NewestOf(c) = Max(S) BY DEF NewestOf
    <3> HIDE DEF S, x
    <3>4. Max({x, 0}) = IF x < 0 THEN 0 ELSE x BY <3>2, LargerOf
    <3>5. NewestOf(c) = x BY <3>1, <3>2, <3>3, <3>4
    <3> QED BY <3>5 DEF x
  <2>9. newest \in Int /\ newest <= h BY <2>6, <2>7, <2>8
  <2>10. Topped(J, ToSet(p.records), NewestSeq(p)) BY <2>2 DEF Holds
  <2>11. TopPages(J, m.pages) BY <1>3, <2>3, <2>4, <2>10, MergeTops
  <2>12. ASSUME Behind(v, J, c.buffered \o w, c) PROVE Ahead(v, J, m.buffered \o w, m.ref, h)
    <3> DEFINE q == c.buffered \o w
               n == NewestSeq(p)
    <3>1. Ahead(v, J, q, c.overlay, n) BY <2>2, <2>12 DEF Behind
    <3>2. n \in Int /\ h \in Int /\ n <= h BY <2>6, <2>7
    <3> HIDE DEF q, n, h
    <3>3. Ahead(v, J, q, c.overlay, h) BY <3>1, <3>2, AheadMore
    <3> QED BY <1>2, <3>3 DEF q
  <2> HIDE DEF newest
  <2>13. d = FinishResync(m, newest) BY <1>4 DEF newest
  <2>14. m.syncing # "no" BY <1>2
  <2>15. Carried(J, m.buffered) /\ HeldFetch(J, m.fetch) BY <1>2, <1>3
  <2> QED BY <1>2, <2>6, <2>9, <2>11, <2>12, <2>13, <2>14, <2>15, FinishMovesOn
<1>5. CASE /\ LeavesPages(c, m) /\ Changes(m, d, {"syncing", "fetch"})
           /\ d.syncing = "refetch" /\ d.fetch = Fetch("asked", FALSE, c.pages)
  <2>1. m.pages = c.pages BY <1>5 DEF LeavesPages
  <2>2. d.pages = c.pages /\ d.buffered = c.buffered /\ d.historyReq = c.historyReq
    BY <1>2, <1>5, <2>1 DEF Changes, ClientFields
  <2>3. d.fetch.base = c.pages /\ d.fetch.val = {} /\ d.fetch.st # "none" /\ ~d.fetch.older BY <1>5 DEF Fetch
  <2>4. Holds(J, d) BY <1>3, <2>2, <2>3 DEF Holds, HeldFetch
  <2>5. Behind(v, J, d.buffered \o w, d) BY <1>5, <2>3 DEF Behind
  <2> QED BY <2>4, <2>5 DEF Moves
<1> QED BY <1>1, <1>4, <1>5

(* A fetch of the history lands. What it read again is as new as the       *)
(* journal was then; an older page over newer ones is counted as lost.     *)
LEMMA LandTracks ==
  ASSUME NEW J \in Seq(Records), Placed(J), NEW c, Sound(c), NEW d, LandsFetch(c, d),
         NEW v, Keeps(v, J, c), Holds(J, c), NEW w \in Seq(Events), Carried(J, w)
  PROVE  Moves(v, J, w, c, w, d)
<1>1. PICK m : /\ Landed(c, m)
               /\ \/ c.syncing = "refetch" /\ d = FinishResync(m, HistoryNewestSeq(m.pages))
                  \/ c.syncing # "refetch" /\ d = m
  BY Zenon DEF LandsFetch
<1>2. /\ Sound(m) /\ m.selected = c.selected /\ m.link = c.link /\ m.buffered = c.buffered /\ m.syncing = c.syncing
      /\ m.fetch = NoFetch /\ m.historyReq = c.historyReq /\ m.ref = c.overlay /\ m.overlay = c.overlay
      /\ "reconnect" \in m.lost <=> "reconnect" \in c.lost
      /\ "history" \in c.lost => "history" \in m.lost
  BY <1>1 DEF Landed, Changes, ClientFields
<1>3. Carried(J, c.buffered) /\ TopPages(J, c.pages) /\ HeldFetch(J, c.fetch) BY DEF Holds
<1>4. /\ History(Records, J, c.pages) /\ FetchKept(J, c.fetch) BY DEF Keeps
<1>5. m.pages = c.pages \/ m.pages \in c.fetch.val BY <1>1 DEF Landed
<1>6. History(Records, J, m.pages) /\ TopPages(J, m.pages) BY <1>3, <1>4, <1>5 DEF FetchKept, HeldFetch
<1>7. HeldFetch(J, m.fetch) /\ m.fetch.val = {} BY <1>2, FirstHeld
<1> DEFINE h == HistoryNewestSeq(m.pages)
           g == HistoryNewestSeq(c.pages)
<1>8. h \in Int /\ g \in Int /\ h <= h
  <2>1. h \in 0..Len(J) /\ g \in 0..Len(J) BY <1>4, <1>6, NewestIs
  <2> QED BY <2>1
<1>9. CASE c.syncing = "refetch" /\ d = FinishResync(m, h)
  <2>1. ASSUME "history" \notin m.lost, Behind(v, J, c.buffered \o w, c) PROVE Ahead(v, J, m.buffered \o w, m.ref, h)
    <3>1. c.fetch.val # {} BY <1>1, <1>9, <2>1 DEF Landed
    <3>2. m.pages \in c.fetch.val BY <1>1, <3>1 DEF Landed
    <3> QED BY <1>2, <1>9, <2>1, <3>2 DEF Behind
  <2> HIDE DEF h
  <2>2. m.syncing # "no" /\ Carried(J, m.buffered) BY <1>2, <1>3, <1>9
  <2>3. "history" \notin m.lost /\ Behind(v, J, c.buffered \o w, c) => Ahead(v, J, m.buffered \o w, m.ref, h)
    BY <2>1
  <2> QED BY <1>2, <1>6, <1>7, <1>8, <1>9, <2>2, <2>3, FinishMovesOn DEF h
<1>10. CASE c.syncing # "refetch" /\ d = m
  <2>1. Holds(J, m)
    <3>1. m.syncing # "refetch" /\ Carried(J, m.buffered) BY <1>2, <1>3, <1>10
    <3>2. \A p \in m.historyReq.val : Topped(J, ToSet(p.records), NewestSeq(p)) BY <1>2 DEF Holds
    <3> QED BY <1>6, <1>7, <3>1, <3>2 DEF Holds
  <2>2. ASSUME Behind(v, J, c.buffered \o w, c) PROVE Behind(v, J, m.buffered \o w, m)
    <3> DEFINE q == c.buffered \o w
    <3>1. ASSUME m.syncing = "no", "history" \notin m.lost PROVE Ahead(v, J, q, c.overlay, h)
      <4>1. ~(h < g)
        <5>1. CASE m.pages = c.pages BY <1>8, <5>1
        <5>2. CASE m.pages \in c.fetch.val BY <1>1, <1>10, <3>1, <5>2 DEF Landed
        <5> QED BY <1>5, <5>1, <5>2
      <4>2. Ahead(v, J, q, c.overlay, g) BY <1>2, <2>2, <3>1 DEF Behind
      <4>3. h \in Int /\ g \in Int /\ g <= h BY <1>8, <4>1
      <4> HIDE DEF q, h, g
      <4> QED BY <4>2, <4>3, AheadMore
    <3>2. m.syncing = "requests" => \A p \in m.historyReq.val : Ahead(v, J, q, c.overlay, NewestSeq(p))
      BY <1>2, <2>2 DEF Behind
    <3>3. m.syncing # "refetch" BY <1>2, <1>10
    <3> QED BY <1>2, <3>1, <3>2, <3>3 DEF Behind
  <2>3. Follows(m, w) => Follows(c, w) BY <1>2 DEF Follows
  <2> QED BY <1>10, <2>1, <2>2, <2>3 DEF Moves
<1> QED BY <1>1, <1>9, <1>10

-----------------------------------------------------------------------------
(* A step that leaves the history, the overlay and the stream alone.       *)
LEMMA MovesAlike ==
  ASSUME NEW J, NEW c, Holds(J, c), NEW d, d.buffered = c.buffered, d.pages = c.pages, d.overlay = c.overlay,
         d.syncing = c.syncing, d.selected = c.selected, d.link = c.link,
         "reconnect" \in c.lost => "reconnect" \in d.lost, "history" \in c.lost => "history" \in d.lost,
         d.historyReq = c.historyReq, HeldFetch(J, d.fetch), d.syncing = "refetch" => d.fetch = c.fetch,
         NEW v, NEW w
  PROVE  Moves(v, J, w, c, w, d)
<1>1. Carried(J, d.buffered) BY DEF Holds
<1>2. Holds(J, d) BY <1>1, HoldsAlike
<1>3. Behind(v, J, c.buffered \o w, c) => Behind(v, J, d.buffered \o w, d) BY BehindAlike
<1>4. Follows(d, w) => Follows(c, w) BY DEF Follows
<1> QED BY <1>2, <1>3, <1>4 DEF Moves

(* Requests about the state, their answers, and a page more asked for.     *)
LEMMA StateTracks ==
  ASSUME Typed, Holds(journal, client),
         \/ \E ok \in BOOLEAN : AnswerState(ok) \/ AnswerRefetch(ok)
         \/ LandRefetch \/ RefreshState \/ LoadOlder
  PROVE  Moves(server, journal, wire, client, wire, client')
<1> DEFINE c == client
           d == client'
<1>1. Sound(c) /\ Holds(journal, c) BY DEF Typed
<1>2. HeldFetch(journal, c.fetch) BY <1>1 DEF Holds
<1>3. ASSUME Changes(c, d, {"stateReq", "refetch"}) PROVE Moves(server, journal, wire, c, wire, d)
  <2> HIDE DEF c, d
  <2>1. /\ d.buffered = c.buffered /\ d.pages = c.pages /\ d.overlay = c.overlay /\ d.syncing = c.syncing
        /\ d.selected = c.selected /\ d.link = c.link /\ d.lost = c.lost /\ d.historyReq = c.historyReq
        /\ d.fetch = c.fetch
    BY <1>3 DEF Changes, ClientFields
  <2> QED BY <1>1, <1>2, <2>1, MovesAlike
<1>4. CASE \E ok \in BOOLEAN : AnswerState(ok)
  <2>1. Changes(c, d, {"stateReq"}) BY <1>1, <1>4, AnswerStateDoes
  <2> QED BY <1>3, <2>1 DEF Changes
<1>5. CASE (\E ok \in BOOLEAN : AnswerRefetch(ok)) \/ RefreshState
  <2>1. Changes(c, d, {"refetch"}) BY <1>1, <1>5, AnswerRefetchDoes, RefreshDoes
  <2> QED BY <1>3, <2>1 DEF Changes
<1>6. CASE LandRefetch
  <2>1. /\ Changes(c, d, {"ref", "rendered", "state", "refetch", "lost"})
        /\ d.lost \in {c.lost, c.lost \cup {"state"}}
    BY <1>1, <1>6, LandRefetchDoes
  <2> HIDE DEF c, d
  <2>2. /\ d.buffered = c.buffered /\ d.pages = c.pages /\ d.overlay = c.overlay /\ d.syncing = c.syncing
        /\ d.selected = c.selected /\ d.link = c.link /\ d.historyReq = c.historyReq /\ d.fetch = c.fetch
    BY <2>1 DEF Changes, ClientFields
  <2>3. /\ "reconnect" \in c.lost => "reconnect" \in d.lost
        /\ "history" \in c.lost => "history" \in d.lost
    BY <2>1
  <2>4. Moves(server, journal, wire, c, wire, d) BY <1>1, <1>2, <2>2, <2>3, MovesAlike
  <2> QED BY <2>4 DEF c, d
<1>7. CASE LoadOlder
  <2>1. Changes(c, d, {"fetch"}) /\ d.fetch = Fetch("asked", TRUE, c.pages) /\ c.fetch.st = "none"
    BY <1>1, <1>7, LoadOlderDoes
  <2> HIDE DEF c, d
  <2>2. /\ d.buffered = c.buffered /\ d.pages = c.pages /\ d.overlay = c.overlay /\ d.syncing = c.syncing
        /\ d.selected = c.selected /\ d.link = c.link /\ d.historyReq = c.historyReq /\ d.lost = c.lost
    BY <2>1 DEF Changes, ClientFields
  <2>3. d.fetch.base = c.pages /\ d.fetch.val = {} BY <2>1 DEF Fetch
  <2>4. HeldFetch(journal, d.fetch) /\ c.syncing # "refetch" BY <1>1, <2>1, <2>3 DEF Holds, HeldFetch
  <2>5. Moves(server, journal, wire, c, wire, d) BY <1>1, <2>2, <2>4, MovesAlike
  <2> QED BY <2>5 DEF c, d
<1> QED BY <1>4, <1>5, <1>6, <1>7

(* The latest page is read: nothing is ahead of it.                        *)
LEMMA AnswerHistoryTracks ==
  ASSUME Typed, Holds(journal, client), NEW ok \in BOOLEAN, AnswerHistory(ok)
  PROVE  Moves(server, journal, wire, client, wire, client')
<1> DEFINE c == client
           d == client'
           p == ReadPage(journal, 0, PageSize)
           J == journal
           v == server
           w == wire
<1>1. /\ Sound(c) /\ Holds(J, c) /\ J \in Seq(Records) /\ Placed(J)
      /\ Changes(c, d, {"historyReq"}) /\ c.syncing # "no" /\ d.historyReq.val \in {{}, {p}}
  BY AnswerHistoryDoes DEF Typed, JournalOK, Placed
<1>2. Latest(Records, J, p) /\ Topped(J, ToSet(p.records), NewestSeq(p)) /\ \A i \in DOMAIN J : i <= NewestSeq(p)
  BY <1>1, LatestIsWhole
<1>3. NewestSeq(p) \in Int
  <2>1. NewestSeq(p) \in 0..Len(J) BY <1>1, <1>2, NewestOfPage
  <2> QED BY <2>1
<1> HIDE DEF c, d, p, J, v, w
<1>4. /\ d.buffered = c.buffered /\ d.pages = c.pages /\ d.overlay = c.overlay /\ d.syncing = c.syncing
      /\ d.selected = c.selected /\ d.link = c.link /\ d.lost = c.lost /\ d.fetch = c.fetch
  BY <1>1 DEF Changes, ClientFields
<1>5. Holds(J, d) BY <1>1, <1>2, <1>4 DEF Holds
<1>6. ASSUME Behind(v, J, c.buffered \o w, c) PROVE Behind(v, J, d.buffered \o w, d)
  <2> DEFINE q == c.buffered \o w
             n == NewestSeq(p)
  <2>1. n \in Int /\ \A i \in DOMAIN J : i <= n BY <1>2, <1>3
  <2> HIDE DEF q, n
  <2>2. Ahead(v, J, q, d.overlay, n) BY <1>1, <2>1, AheadMore
  <2>3. \A x \in d.historyReq.val : Ahead(v, J, q, d.overlay, NewestSeq(x)) BY <1>1, <2>2 DEF n
  <2> QED BY <1>1, <1>4, <1>6, <2>3 DEF Behind, q
<1>7. Follows(d, w) => Follows(c, w) BY <1>4 DEF Follows
<1>8. Moves(v, J, w, c, w, d) BY <1>5, <1>6, <1>7 DEF Moves
<1> QED BY <1>8 DEF c, d, J, v, w

(* Loaded pages are read again, or one more is.                            *)
LEMMA AnswerFetchTracks ==
  ASSUME Typed, Keeping, Holds(journal, client), NEW ok \in BOOLEAN, AnswerFetch(ok)
  PROVE  Moves(server, journal, wire, client, wire, client')
<1> DEFINE c == client
           d == client'
           J == journal
           v == server
           w == wire
           x == FetchRead(c.fetch)
<1>1. Sound(c) /\ Holds(J, c) /\ JournalOK /\ Changes(c, d, {"fetch"}) BY AnswerFetchDoes DEF Typed
<1>2. IsFetch(c.fetch) /\ History(Records, J, c.fetch.base) BY DEF Keeping, Keeps, FetchKept
<1>3. /\ d.fetch.base = c.fetch.base /\ d.fetch.older = c.fetch.older /\ d.fetch.st \in {"answered", "failed"}
      /\ d.fetch.val \in {{}, {x}}
  BY <1>1, <1>2, AnswerFetchDoes
<1>4. J \in Seq(Records) /\ Placed(J) BY <1>1 DEF JournalOK, Placed
<1>5. TopPages(J, c.fetch.base) BY <1>1 DEF Holds, HeldFetch
<1>6. /\ TopPages(J, x) /\ HistoryNewestSeq(x) \in Int
      /\ ~c.fetch.older => \A i \in DOMAIN J : i <= HistoryNewestSeq(x)
  <2>1. CASE c.fetch.older
    <3> DEFINE ps == c.fetch.base
    <3>1. x = FetchNextPage(ps, journal, PageSize) BY <2>1 DEF FetchRead
    <3>2. TopPages(J, x) BY <1>1, <1>2, <1>5, <3>1, NextPageKeeps
    <3>3. History(Records, J, x) BY <1>1, <1>2, <3>1, NextPageHistory
    <3> HIDE DEF x, J
    <3>4. HistoryNewestSeq(x) \in 0..Len(J) BY <1>4, <3>3, NewestIs
    <3> QED BY <2>1, <3>2, <3>4
  <2>2. CASE ~c.fetch.older
    <3> DEFINE ps == c.fetch.base
    <3>1. x = RefetchPages(ps, journal, PageSize) BY <2>2 DEF FetchRead
    <3>2. ps \in Seq(Pages(Records)) BY <1>2 DEF History
    <3>3. Whole(J, x) BY <1>1, <3>1, <3>2, RefetchIsWhole
    <3> HIDE DEF x, J
    <3>4. TopPages(J, x) /\ \A i \in DOMAIN J : i <= HistoryNewestSeq(x) BY <1>4, <3>3, WholeTops
    <3>5. History(Records, J, x) BY <3>3 DEF Whole
    <3>6. HistoryNewestSeq(x) \in 0..Len(J) BY <1>4, <3>5, NewestIs
    <3> QED BY <3>4, <3>6
  <2> QED BY <2>1, <2>2
<1> HIDE DEF c, d, J, v, w, x
<1>7. /\ d.buffered = c.buffered /\ d.pages = c.pages /\ d.overlay = c.overlay /\ d.syncing = c.syncing
      /\ d.selected = c.selected /\ d.link = c.link /\ d.lost = c.lost /\ d.historyReq = c.historyReq
  BY <1>1 DEF Changes, ClientFields
<1>8. Holds(J, d)
  <2>1. HeldFetch(J, d.fetch) BY <1>3, <1>5, <1>6 DEF HeldFetch
  <2>2. Carried(J, d.buffered) BY <1>1, <1>7 DEF Holds
  <2>3. d.fetch.st # "none" BY <1>3
  <2> QED BY <1>1, <1>3, <1>7, <2>1, <2>2, <2>3, HoldsAlike
<1>9. ASSUME Behind(v, J, c.buffered \o w, c) PROVE Behind(v, J, d.buffered \o w, d)
  <2> DEFINE q == c.buffered \o w
  <2>1. ASSUME d.syncing = "refetch", NEW ps \in d.fetch.val PROVE Ahead(v, J, q, d.overlay, HistoryNewestSeq(ps))
    <3> DEFINE n == HistoryNewestSeq(x)
    <3>1. n \in Int /\ \A i \in DOMAIN J : i <= n BY <1>1, <1>6, <1>7, <2>1 DEF Holds
    <3> HIDE DEF q, n
    <3>2. Ahead(v, J, q, d.overlay, n) BY <1>4, <3>1, AheadMore
    <3>3. ps = x BY <1>3, <2>1
    <3> QED BY <3>2, <3>3 DEF n
  <2> QED BY <1>7, <1>9, <2>1 DEF Behind
<1>10. Follows(d, w) => Follows(c, w) BY <1>7 DEF Follows
<1>11. Moves(v, J, w, c, w, d) BY <1>8, <1>9, <1>10 DEF Moves
<1> QED BY <1>11 DEF c, d, J, v, w

(* The page is opened or closed.                                           *)
LEMMA SelectionTracks ==
  ASSUME Typed, Holds(journal, client), OpenPage \/ ClosePage
  PROVE  Moves(server, journal, wire, client, wire, client')
<1> DEFINE c == client
           d == client'
<1>1. Sound(c) /\ Holds(journal, c) /\ journal \in Seq(Records) BY DEF Typed, JournalOK
<1>2. /\ Sound(d) /\ d.buffered = <<>> /\ d.pages = c.pages /\ d.historyReq \in {None, Asked}
      /\ d.fetch \in FirstFetches /\ d.syncing # "refetch"
      /\ d.link = "connected" /\ d.selected => Fresh(c, d)
  <2>1. CASE OpenPage BY <1>1, <2>1, OpenDoes
  <2>2. CASE ClosePage
    <3>1. /\ Sound(d) /\ d.selected = FALSE /\ d.buffered = <<>> /\ d.historyReq = None /\ d.pages = c.pages
          /\ d.fetch \in FirstFetches
      BY <1>1, <2>2, CloseDoes
    <3>2. d.syncing = "no" BY <3>1 DEF Sound
    <3> QED BY <3>1, <3>2
  <2> QED BY <2>1, <2>2
<1> HIDE DEF c, d
<1>3. Carried(journal, d.buffered) /\ HeldFetch(journal, d.fetch) BY <1>1, <1>2, FirstHeld
<1>4. d.historyReq.val = {} BY <1>2, SlotFields
<1>5. Holds(journal, d) BY <1>1, <1>2, <1>3, <1>4, HoldsAlike
<1>6. Follows(d, wire) => Behind(server, journal, d.buffered \o wire, d) BY <1>2, BehindFresh DEF Follows, Fresh
<1>7. Moves(server, journal, wire, c, wire, d) BY <1>5, <1>6 DEF Moves
<1> QED BY <1>7 DEF c, d

-----------------------------------------------------------------------------
(* The latest page has no older records than the end of the journal.       *)
LEMMA LatestIsLast ==
  ASSUME NEW J \in Seq(Records), Placed(J), NEW r \in ToSet(ReadPage(J, 0, PageSize).records)
  PROVE  Taken(r, J) /\ r.seq > Len(J) - PageSize
<1> DEFINE p == ReadPage(J, 0, PageSize)
           n == Below(J, 0)
           first == IF n > PageSize THEN n - PageSize + 1 ELSE 1
<1>1. PageSize \in Nat \ {0} BY BoundsAreNumbers
<1>2. /\ p \in Pages(Records) /\ Len(p.records) = n - first + 1
      /\ \A k \in 1..(n - first + 1) : p.records[k] = J[first + k - 1]
  BY <1>1, ReadIs
<1>3. Taken(r, J) BY <1>1, ReadTaken
<1>4. n = Len(J) /\ Len(J) \in Nat /\ DOMAIN J = 1..Len(J) BY DEF Below
<1> HIDE DEF p
<1>5. p.records \in Seq(Records) BY <1>2 DEF Pages
<1>6. DOMAIN p.records = 1..(n - first + 1) BY <1>2, <1>5
<1>7. PICK k \in 1..(n - first + 1) : r = J[first + k - 1] BY <1>2, <1>6 DEF ToSet, p
<1>8. first \in Nat \ {0} /\ first > n - PageSize BY <1>1, <1>4
<1> HIDE DEF n, first
<1>9. first + k - 1 \in DOMAIN J BY <1>4, <1>7, <1>8
<1>10. r.seq = first + k - 1 BY <1>7, <1>9 DEF Placed
<1> QED BY <1>1, <1>3, <1>4, <1>7, <1>8, <1>10

(* Nothing is carried by an open or a close.                               *)
LEMMA MarkersCarryNothing ==
  \A J : Carried(J, <<Marker("open")>>) /\ Carried(J, <<Marker("close")>>)
         /\ \A x \in OverlayRecords(Marker("close"), 0) : Taken(x, J)
<1>1. ASSUME NEW J, NEW k \in {"open", "close"}
      PROVE  Carried(J, <<Marker(k)>>) /\ \A x \in OverlayRecords(Marker(k), 0) : Taken(x, J)
  <2> DEFINE m == Marker(k)
  <2>1. Silent(m) BY DEF Marker, Event, Silent
  <2> HIDE DEF m
  <2>2. OverlayRecords(m, 0) = {} BY <2>1, SilentCarries
  <2>3. DOMAIN <<m>> = {1} /\ <<m>>[1] = m OBVIOUS
  <2>4. Carried(J, <<m>>) BY <2>2, <2>3 DEF Carried
  <2> QED BY <2>2, <2>4 DEF m
<1> QED BY <1>1

(* The network takes the stream and gives it back.                         *)
LEMMA NetworkTracks ==
  ASSUME Typed, Tracking, DropConnection \/ Reconnect
  PROVE  Tracking'
<1>1. wire \in Seq(Events) /\ Carried(journal, wire) BY DEF Typed, StreamOK, Tracking
<1>2. UNCHANGED <<server, journal, client>> BY Zenon DEF DropConnection, Reconnect
<1>3. CASE Reconnect
  <2> DEFINE x == wire'
  <2>1. x = <<Marker("open")>> BY <1>3 DEF Reconnect
  <2>2. Carried(journal, x) BY <2>1, MarkersCarryNothing
  <2>3. ~Unmarked(x)
    <3> DEFINE m == Marker("open")
    <3>1. IsMarker(m) BY DEF Marker, Event, IsMarker
    <3> HIDE DEF m, x
    <3>2. DOMAIN x = {1} /\ x[1] = m BY <2>1 DEF m
    <3> QED BY <3>1, <3>2 DEF Unmarked
  <2> QED BY <1>2, <2>2, <2>3 DEF Tracking, Follows
<1>4. CASE DropConnection
  <2>1. socket' = "down" BY <1>4, Zenon DEF DropConnection
  <2> DEFINE m == Marker("close")
  <2>2. PICK n \in 0..Len(wire) : wire' = Append(SubSeq(wire, 1, n), m) BY <1>4 DEF DropConnection
  <2>3. \A x \in OverlayRecords(m, 0) : Taken(x, journal) BY MarkersCarryNothing
  <2> HIDE DEF m
  <2> DEFINE s == SubSeq(wire, 1, n)
  <2>4. s \in Seq(Events) /\ \A i \in DOMAIN s : i \in DOMAIN wire /\ s[i] = wire[i]
    <3>1. Len(wire) \in Nat /\ DOMAIN wire = 1..Len(wire) BY <1>1
    <3>2. \A i \in 1..n : wire[i] \in Events BY <1>1, <3>1
    <3>3. /\ s \in Seq(Events) /\ Len(s) = (IF 1 <= n THEN n - 1 + 1 ELSE 0)
          /\ \A i \in 1..(n - 1 + 1) : s[i] = wire[1 + i - 1]
      BY <1>1, <3>1, <3>2, SubSeqProperties
    <3> HIDE DEF s
    <3>4. DOMAIN s = 1..n BY <3>1, <3>3
    <3> QED BY <3>1, <3>3, <3>4
  <2> HIDE DEF s
  <2> DEFINE x == Append(s, m)
  <2>5. DOMAIN x = DOMAIN s \cup {Len(s) + 1} /\ (\A i \in DOMAIN s : x[i] = s[i]) /\ x[Len(s) + 1] = m BY <2>4
  <2> HIDE DEF x
  <2>6. Carried(journal, x) BY <1>1, <2>3, <2>4, <2>5 DEF Carried
  <2>7. Carried(journal, wire') BY <2>2, <2>6 DEF x, s
  <2> QED BY <1>2, <2>1, <2>7 DEF Tracking
<1> QED BY <1>3, <1>4

(* More records change nothing of what is held.                            *)
LEMMA HoldsGrows ==
  ASSUME NEW J \in Seq(Records), NEW K \in Seq(Records), Extends(J, K), NEW v, NEW c, Keeps(v, J, c), Holds(J, c)
  PROVE  Holds(K, c)
<1>1. \A i \in DOMAIN J : i \in DOMAIN K /\ K[i] = J[i] BY DEF Extends
<1>2. ASSUME NEW ps, History(Records, J, ps), TopPages(J, ps) PROVE TopPages(K, ps)
  <2> DEFINE n == HistoryNewestSeq(ps)
             R == LoadedRecords(ps)
  <2>1. n \in 0..Len(J) /\ Topped(J, R, n) BY <1>2, NewestIs DEF TopPages
  <2> HIDE DEF n, R
  <2>2. Topped(K, R, n) BY <1>1, <2>1, ToppedGrows
  <2> QED BY <2>2 DEF TopPages, n, R
<1>3. ASSUME NEW p \in c.historyReq.val PROVE Topped(K, ToSet(p.records), NewestSeq(p))
  <2> DEFINE n == NewestSeq(p)
             R == ToSet(p.records)
  <2>1. Latest(Records, J, p) BY DEF Keeps, Answers
  <2>2. n \in 0..Len(J) /\ Topped(J, R, n) BY <2>1, NewestOfPage DEF Holds
  <2> HIDE DEF n, R
  <2>3. Topped(K, R, n) BY <1>1, <2>2, ToppedGrows
  <2> QED BY <2>3 DEF n, R
<1>4. Carried(K, c.buffered) BY CarriedGrows DEF Holds
<1>5. TopPages(K, c.pages) BY <1>2 DEF Keeps, Holds
<1>6. HeldFetch(K, c.fetch)
  <2>1. History(Records, J, c.fetch.base) /\ \A ps \in c.fetch.val : History(Records, J, ps)
    BY DEF Keeps, FetchKept
  <2>2. HeldFetch(J, c.fetch) BY DEF Holds
  <2> QED BY <1>2, <2>1, <2>2 DEF HeldFetch
<1> QED BY <1>3, <1>4, <1>5, <1>6 DEF Holds

(* What the server does next is announced, or is to be read again.         *)
LEMMA BehindGrows ==
  ASSUME NEW v, NEW J, NEW es, NEW u, NEW K, Covers(v, J, es, u, K), NEW q, NEW r, Extended(q, es, r),
         NEW c, Behind(v, J, q, c)
  PROVE  Behind(u, K, r, c)
<1>1. ASSUME NEW n, Ahead(v, J, q, c.overlay, n) PROVE Ahead(u, K, r, c.overlay, n)
  <2> DEFINE o == c.overlay
  <2>1. Ahead(v, J, q, o, n) BY <1>1
  <2> HIDE DEF o
  <2>2. Ahead(u, K, r, o, n) BY <2>1, AheadGrows
  <2> QED BY <2>2 DEF o
<1> QED BY <1>1 DEF Behind

(* The server writes on.                                                   *)
LEMMA ServerTracks ==
  ASSUME Typed, Keeping, Tracking, ServerWrites
  PROVE  Tracking'
<1> DEFINE c == client
           v == server
           u == server'
           w == wire
           x == wire'
           b == c.buffered
           J == journal
           K == journal'
<1>1. JournalOK' /\ client' = c
  <2>1. ServerOK /\ JournalOK /\ StreamOK(wire) /\ socket \in {"up", "down"} BY DEF Typed
  <2> QED BY <2>1, ServerTells
<1>2. PICK es : Told(es) /\ Shares(es) BY ServerShares
<1>3. es \in Seq(Events) /\ Covers(v, J, es, u, K) BY <1>2 DEF Shares
<1>4. w \in Seq(Events) /\ b \in Seq(Events) BY DEF Typed, StreamOK, Sound
<1>5. J \in Seq(Records) /\ K \in Seq(Records) BY <1>1 DEF Typed, JournalOK
<1>6. /\ Carried(J, w) /\ Holds(J, c)
      /\ socket = "up" /\ Follows(c, w) => Behind(v, J, b \o w, c)
  BY DEF Tracking
<1>7. Keeps(v, J, c) BY DEF Keeping
<1>8. /\ socket' = "up" => socket = "up" /\ x = w \o es
      /\ x \in {w, w \o es, <<Marker("close")>>}
  BY <1>2 DEF Told
<1> HIDE DEF c, v, u, w, x, b, J, K
<1>9. Extends(J, K) /\ Carried(K, es) BY <1>3 DEF Covers
<1>10. Holds(K, c) BY <1>5, <1>6, <1>7, <1>9, HoldsGrows
<1>11. Carried(K, x)
  <2>1. Carried(K, w) BY <1>6, <1>9, CarriedGrows
  <2>2. Carried(K, w \o es) BY <1>3, <1>4, <1>9, <2>1, CarriedJoined
  <2> QED BY <1>8, <2>1, <2>2, MarkersCarryNothing
<1>12. ASSUME socket' = "up", Follows(c, x) PROVE Behind(u, K, b \o x, c)
  <2>1. Extended(b \o w, es, b \o x) BY <1>3, <1>4, <1>8, <1>12, MoreBehind
  <2>2. Unmarked(w)
    <3>1. Extended(w, es, x) BY <1>3, <1>4, <1>8, <1>12, MoreAtEnd
    <3> QED BY <1>12, <3>1, ExtendedIn DEF Follows, Unmarked
  <2>3. Behind(v, J, b \o w, c) BY <1>6, <1>8, <1>12, <2>2 DEF Follows
  <2> QED BY <1>3, <2>1, <2>3, BehindGrows
<1>13. client' = client BY <1>1 DEF c
<1>14. /\ Carried(journal', wire') /\ Holds(journal', client)
       /\ socket' = "up" /\ Follows(client, wire') => Behind(server', journal', client.buffered \o wire', client)
  BY <1>10, <1>11, <1>12 DEF c, u, x, b, K
<1> QED BY <1>13, <1>14 DEF Tracking

-----------------------------------------------------------------------------
(* At first the latest page is loaded and nothing is under way.            *)
LEMMA InitTracks == Init => Tracking
<1> SUFFICES ASSUME Init PROVE Tracking OBVIOUS
<1>1. JournalOK BY InitTyped DEF Typed
<1> DEFINE p == ReadPage(journal, 0, PageSize)
           c == client
           J == journal
           v == server
           w == wire
<1>2. J \in Seq(Records) /\ Placed(J) BY <1>1 DEF JournalOK, Placed
<1>3. /\ w = <<>> /\ c.buffered = <<>> /\ c.pages = <<p>> /\ c.fetch = NoFetch /\ c.historyReq = None
      /\ c.syncing = "no"
  BY DEF Init
<1>4. Whole(J, <<p>>) BY <1>2, LatestIsWhole
<1> HIDE DEF p, c, J, v, w
<1>5. History(Records, J, c.pages) BY <1>3, <1>4 DEF Whole
<1>6. TopPages(J, c.pages) /\ \A i \in DOMAIN J : i <= HistoryNewestSeq(c.pages) BY <1>2, <1>3, <1>4, WholeTops
<1>7. HistoryNewestSeq(c.pages) \in Int
  <2>1. HistoryNewestSeq(c.pages) \in 0..Len(J) BY <1>2, <1>5, NewestIs
  <2> QED BY <2>1
<1>8. Carried(J, w) /\ Holds(J, c)
  <2>1. Carried(J, <<>>) /\ HeldFetch(J, NoFetch) BY <1>2, FirstHeld
  <2>2. c.historyReq.val = {} BY <1>3, SlotFields
  <2> QED BY <1>3, <1>6, <2>1, <2>2 DEF Holds
<1>9. Behind(v, J, c.buffered \o w, c)
  <2> DEFINE n == HistoryNewestSeq(c.pages)
             q == c.buffered \o w
  <2>1. n \in Int /\ \A i \in DOMAIN J : i <= n BY <1>6, <1>7
  <2> HIDE DEF n, q
  <2>2. Ahead(v, J, q, c.overlay, n) BY <1>2, <2>1, AheadMore
  <2>3. Behind(v, J, q, c) BY <1>3, <2>2 DEF Behind, n
  <2> QED BY <2>3 DEF q
<1>10. Carried(journal, wire) /\ Holds(journal, client) /\ Behind(server, journal, client.buffered \o wire, client)
  BY <1>8, <1>9 DEF c, J, v, w
<1> QED BY <1>10 DEF Tracking

(* No step leaves a record behind that is neither shown nor to come.       *)
LEMMA TrackingHolds == Typed /\ Keeping /\ Tracking /\ [Next]_vars => Tracking'
<1> SUFFICES ASSUME Typed, Keeping, Tracking, [Next]_vars PROVE Tracking' OBVIOUS
<1>1. /\ Sound(client) /\ journal \in Seq(Records) /\ Placed(journal) /\ wire \in Seq(Events)
      /\ Keeps(server, journal, client) /\ Carried(journal, wire) /\ Holds(journal, client)
      /\ socket = "up" /\ Follows(client, wire) => Behind(server, journal, client.buffered \o wire, client)
  BY DEF Typed, JournalOK, Placed, StreamOK, Keeping, Tracking
<1>2. ASSUME Moves(server, journal, wire, client, wire', client'), Carried(journal, wire'),
             UNCHANGED <<server, journal, socket>>
      PROVE  Tracking'
  <2>1. /\ Holds(journal, client')
        /\ socket = "up" /\ Follows(client', wire') =>
             Behind(server, journal, client'.buffered \o wire', client')
    BY <1>1, <1>2 DEF Moves
  <2> QED BY <1>2, <2>1 DEF Tracking
<1>3. ASSUME Moves(server, journal, wire, client, wire, client'), UNCHANGED <<server, journal, wire, socket>>
      PROVE  Tracking'
  BY <1>1, <1>2, <1>3
<1>4. CASE ServerWrites BY <1>4, ServerTracks
<1>5. CASE ServerAnswers
  <2>1. UNCHANGED <<server, journal, wire, socket>>
    BY <1>5, Zenon DEF ServerAnswers, AnswerState, AnswerHistory, AnswerRefetch, AnswerFetch
  <2>2. Moves(server, journal, wire, client, wire, client')
    BY <1>1, <1>5, StateTracks, AnswerHistoryTracks, AnswerFetchTracks DEF ServerAnswers
  <2> QED BY <1>3, <2>1, <2>2
<1>6. CASE Deliver
  <2>1. UNCHANGED <<server, journal, socket>> BY <1>6, Zenon DEF Deliver
  <2>2. wire # <<>> /\ wire' = Tail(wire) /\ Delivers(client, client', Head(wire)) BY <1>6, DeliverDoes DEF Typed
  <2> DEFINE w == wire
             a == client
             d == client'
             v == server
             J == journal
  <2>3. /\ w # <<>> /\ Delivers(a, d, Head(w)) /\ w \in Seq(Events) /\ J \in Seq(Records) /\ Placed(J)
        /\ Carried(J, w) /\ Holds(J, a)
    BY <1>1, <2>2
  <2> HIDE DEF w, a, d, v, J
  <2>4. Carried(J, Tail(w)) /\ Moves(v, J, w, a, Tail(w), d) BY <2>3, EventTracks
  <2>5. Carried(journal, wire') /\ Moves(server, journal, wire, client, wire', client')
    BY <2>2, <2>4 DEF w, a, d, v, J
  <2> QED BY <1>2, <2>1, <2>5
<1>7. CASE ApplyResync
  <2>1. UNCHANGED <<server, journal, wire, socket>> BY <1>7, Zenon DEF ApplyResync
  <2>2. client.syncing = "requests" /\ ApplyResyncs(client, client') BY <1>1, <1>7, ApplyDoes
  <2>3. Moves(server, journal, wire, client, wire, client') BY <1>1, <2>2, ApplyTracks
  <2> QED BY <1>3, <2>1, <2>3
<1>8. CASE LandFetch
  <2>1. UNCHANGED <<server, journal, wire, socket>> BY <1>8, Zenon DEF LandFetch
  <2>2. LandsFetch(client, client') BY <1>1, <1>8, LandFetchDoes
  <2>3. Moves(server, journal, wire, client, wire, client') BY <1>1, <2>2, LandTracks
  <2> QED BY <1>3, <2>1, <2>3
<1>9. CASE LandRefetch \/ RefreshState \/ LoadOlder \/ OpenPage \/ ClosePage
  <2>1. UNCHANGED <<server, journal, wire, socket>>
    BY <1>9, Zenon DEF LandRefetch, RefreshState, LoadOlder, OpenPage, ClosePage
  <2>2. Moves(server, journal, wire, client, wire, client') BY <1>1, <1>9, StateTracks, SelectionTracks
  <2> QED BY <1>3, <2>1, <2>2
<1>10. CASE DropConnection \/ Reconnect BY <1>10, NetworkTracks
<1>11. CASE UNCHANGED vars BY <1>11 DEF vars, Tracking
<1> QED BY <1>4, <1>5, <1>6, <1>7, <1>8, <1>9, <1>10, <1>11 DEF Next, ClientSteps

(* What is read of the journal when nothing is under way is on the page.   *)
LEMMA TrackingShows == Typed /\ Keeping /\ Tracking => HistoryConverges
<1> SUFFICES ASSUME Typed, Keeping, Tracking, Quiet, client.lost \cap {"reconnect", "history"} = {},
                    NEW r \in ToSet(ReadPage(journal, 0, PageSize).records)
             PROVE  r \in Shown \/ (r.type = "user_message" /\ r.run = server.run)
  BY DEF HistoryConverges
<1> DEFINE c == client
           h == HistoryNewestSeq(c.pages)
           J == journal
           v == server
           o == c.overlay
<1>1. /\ Sound(c) /\ J \in Seq(Records) /\ Placed(J) /\ History(Records, J, c.pages) /\ Holds(J, c)
  BY DEF Typed, JournalOK, Placed, Keeping, Keeps, Tracking
<1>2. /\ wire = <<>> /\ socket = "up" /\ c.link = "connected" /\ v.ending = 0 /\ c.selected /\ c.syncing = "no"
      /\ c.lost \cap {"reconnect", "history"} = {}
  BY DEF Quiet
<1>3. Taken(r, J) /\ r.seq > Len(J) - PageSize BY <1>1, LatestIsLast
<1>4. h \in 0..Len(J) BY <1>1, NewestIs
<1>5. Ahead(v, J, <<>>, o, h)
  <2>1. c.buffered = <<>> BY <1>1, <1>2 DEF Sound
  <2>2. wire \in Seq(Events) BY DEF Typed, StreamOK
  <2>3. c.buffered \o wire = <<>> BY <1>2, <2>1, <2>2, NothingHeld
  <2>4. Follows(c, wire) BY <1>2 DEF Follows, Unmarked
  <2>5. Behind(v, J, c.buffered \o wire, c) BY <1>2, <2>4 DEF Tracking
  <2> QED BY <1>2, <2>3, <2>5 DEF Behind
<1>6. TopPages(J, c.pages) BY <1>1 DEF Holds
<1>7. Shown = LoadedRecords(c.pages) \cup {o[s] : s \in {q \in DOMAIN o : q > h}}
  BY DEF Shown, ShownRecords, LiveRecords
<1>8. PageSize \in Nat \ {0} /\ Len(J) \in Nat /\ DOMAIN J = 1..Len(J) BY <1>1, BoundsAreNumbers
<1> HIDE DEF c, h, J, v, o
<1> DEFINE i == r.seq
<1>9. i \in DOMAIN J /\ J[i] = r BY <1>3 DEF Taken
<1>10. CASE i <= h
  <2>1. h - PageSize < i BY <1>3, <1>4, <1>8, <1>9
  <2>2. J[i] \in LoadedRecords(c.pages) BY <1>6, <1>9, <1>10, <2>1 DEF TopPages, Topped, h
  <2> QED BY <1>7, <1>9, <2>2
<1>11. CASE i > h
  <2>1. Overlaid(o, J, i) \/ Hidden(v, J[i]) \/ Coming(J, <<>>, i) BY <1>5, <1>9, <1>11 DEF Ahead
  <2>2. ~Coming(J, <<>>, i) BY DEF Coming
  <2>3. CASE Overlaid(o, J, i) BY <1>7, <1>9, <1>11, <2>3 DEF Overlaid
  <2>4. CASE Hidden(v, J[i]) BY <1>2, <1>9, <2>4 DEF Hidden, v
  <2> QED BY <2>1, <2>2, <2>3, <2>4
<1> QED BY <1>4, <1>8, <1>9, <1>10, <1>11

(* When nothing is under way the page shows the latest page of the         *)
(* journal, but for the input of the Run that goes on: no record is lost   *)
(* between a read of the history and the events of the stream held back    *)
(* meanwhile, pruned and replayed (startResync, processEvent, mergeHistory-*)
(* Pages), unless a reconnection found a resynchronisation under way or an *)
(* older history landed.                                                   *)
THEOREM HistoryIsShown == Spec => []HistoryConverges
<1>1. Init => Keeping /\ Tracking BY InitKeeps, InitTracks
<1>2. Typed /\ Keeping /\ [Next]_vars => Keeping' BY KeepingHolds
<1>3. Typed /\ Keeping /\ Tracking /\ [Next]_vars => Tracking' BY TrackingHolds
<1>4. Typed /\ Keeping /\ Tracking => HistoryConverges BY TrackingShows
<1> QED BY <1>1, <1>2, <1>3, <1>4, TypedInvariant, PTL DEF Spec
-----------------------------------------------------------------------------
(* What stays shown.  The overlay holds records of the journal and endings *)
(* (Genuine); a refetch of the history has no gap (Filled); an older page  *)
(* under way lands over the history it was asked for, or is found to be    *)
(* older than what was merged meanwhile (Underway); the page that was read *)
(* for a merge is as new as what is loaded (Newer).                        *)
Genuine(J, o) == \A s \in DOMAIN o : Taken(o[s], J) \/ o[s].type = "run_ended"
Filled(J, ps, n) == \A i \in DOMAIN J : NextPageParam(ps) <= i /\ i <= n => J[i] \in LoadedRecords(ps)
Underway(J, pages, f) ==
  /\ ~f.older => \A ps \in f.val : Filled(J, ps, HistoryNewestSeq(ps))
  /\ f.older =>
       /\ NextPageParam(f.base) # 0
       /\ LoadedRecords(pages) \subseteq LoadedRecords(f.base) \/ HistoryNewestSeq(f.base) < HistoryNewestSeq(pages)
       /\ \A ps \in f.val : /\ LoadedRecords(f.base) \subseteq LoadedRecords(ps)
                            /\ HistoryNewestSeq(ps) = HistoryNewestSeq(f.base)
Newer(pages, f, p) ==
  /\ HistoryNewestSeq(pages) <= NewestSeq(p)
  /\ f.older => HistoryNewestSeq(f.base) <= NewestSeq(p)
  /\ \A r \in ToSet(p.records) : r.seq > NewestSeq(p) - PageSize
Lasts(J, c) ==
  /\ Genuine(J, c.overlay) /\ Underway(J, c.pages, c.fetch)
  /\ \A p \in c.historyReq.val : Newer(c.pages, c.fetch, p)
  /\ c.syncing = "requests" => c.fetch.st = "none" \/ c.fetch.older
Lasting == Lasts(journal, client)

(* What a page read anew begins with is where the next older one ends.     *)
LEMMA PageFills ==
  ASSUME NEW J \in Seq(Records), Placed(J), NEW before \in Nat, NEW ps \in Seq(Pages(Records)),
         NEW p, p = ReadPage(J, before, PageSize), NEW i \in DOMAIN J, NextPageParam(Append(ps, p)) <= i,
         before = 0 \/ i < before
  PROVE  J[i] \in ToSet(p.records)
<1> DEFINE n == Below(J, before)
           first == IF n > PageSize THEN n - PageSize + 1 ELSE 1
           qs == Append(ps, p)
<1>1. PageSize \in Nat \ {0} /\ Len(J) \in Nat /\ DOMAIN J = 1..Len(J) BY BoundsAreNumbers
<1>2. /\ p \in Pages(Records) /\ n \in 0..Len(J) /\ Len(p.records) = n - first + 1
      /\ \A k \in 1..(n - first + 1) : p.records[k] = J[first + k - 1]
      /\ p.hasOlder <=> n > PageSize
  <2> DEFINE q == ReadPage(J, before, PageSize)
  <2>1. /\ q \in Pages(Records) /\ n \in 0..Len(J) /\ Len(q.records) = n - first + 1
        /\ \A k \in 1..(n - first + 1) : q.records[k] = J[first + k - 1]
        /\ q.hasOlder <=> n > PageSize
    BY <1>1, ReadIs
  <2> HIDE DEF n, first
  <2> QED BY <2>1
<1>3. p.records \in Seq(Records) BY <1>2 DEF Pages
<1>4. DOMAIN p.records = 1..(n - first + 1) BY <1>2, <1>3
<1>5. i <= n BY <1>1 DEF Below
<1>6. i >= first
  <2>1. CASE n > PageSize
    <3>1. n - first + 1 = PageSize /\ first \in 1..n /\ first \in DOMAIN J BY <1>1, <1>2, <2>1
    <3>2. 1 \in DOMAIN p.records /\ p.records[1] = J[first] BY <1>1, <1>2, <1>4, <3>1
    <3>3. p.records # <<>> BY <1>3, <3>2
    <3>4. OldestSeq(p) = p.records[1].seq BY <1>2, <3>3, EndsOf
    <3>5. qs # <<>> /\ Last(qs) = p
      <4>1. Len(qs) = Len(ps) + 1 /\ qs[Len(ps) + 1] = p /\ Len(ps) \in Nat BY <1>2
      <4> QED BY <4>1 DEF Last
    <3>6. NextPageParam(qs) = OldestSeq(p) BY <1>2, <2>1, <3>5 DEF NextPageParam, NoHistory
    <3>7. NextPageParam(qs) = first BY <3>1, <3>2, <3>4, <3>6 DEF Placed
    <3> QED BY <3>7
  <2>2. CASE ~(n > PageSize) BY <1>1, <2>2
  <2> QED BY <2>1, <2>2
<1> HIDE DEF n
<1> DEFINE k == i - first + 1
<1>7. first \in Nat \ {0} BY <1>1, <1>2
<1> HIDE DEF first
<1>8. k \in 1..(n - first + 1) /\ first + k - 1 = i BY <1>1, <1>2, <1>5, <1>6, <1>7
<1>9. p.records[k] = J[i] BY <1>2, <1>8
<1> QED BY <1>4, <1>8, <1>9 DEF ToSet

(* What is read again has no gap.                                          *)
LEMMA RefetchIsFilled ==
  ASSUME JournalOK, NEW ps \in Seq(Pages(Records)), NEW qs, qs = RefetchPages(ps, journal, PageSize), NEW h
  PROVE  Filled(journal, qs, h)
<1>1. journal \in Seq(Records) /\ Placed(journal) /\ PageSize \in Nat \ {0} BY BoundsAreNumbers DEF JournalOK, Placed
<1> DEFINE n == IF Len(ps) = 0 THEN 0 ELSE Len(ps) - 1
           All(x) == \A i \in DOMAIN journal : NextPageParam(x) <= i => journal[i] \in LoadedRecords(x)
<1>2. n \in Nat /\ DOMAIN [i \in 1..(Len(ps) - 1) |-> i] = 1..n
  <2>1. Len(ps) \in Nat OBVIOUS
  <2> QED BY <2>1
<1> HIDE DEF n
<1>3. PICK f : /\ f[0] = <<ReadPage(journal, 0, PageSize)>>
               /\ \A k \in 0..(n - 1) : \E i : f[k + 1] = RefetchNext(f[k], i)
               /\ RefetchPages(ps, journal, PageSize) = f[n]
  BY <1>2, Refetched
<1>4. ASSUME NEW x, History(Records, journal, x), All(x), NextPageParam(x) # 0
      PROVE  All(FetchNextPage(x, journal, PageSize))
  <2> DEFINE b == NextPageParam(x)
             p == ReadPage(journal, b, PageSize)
             y == Append(x, p)
  <2>1. x \in Seq(Pages(Records)) /\ \A r \in LoadedRecords(x) : Taken(r, journal) BY <1>4 DEF History
  <2>2. b \in 0..Len(journal) BY <1>1, <2>1, NextIs
  <2>3. b \in Nat /\ Len(journal) \in Nat /\ DOMAIN journal = 1..Len(journal) BY <1>1, <2>2
  <2> HIDE DEF b
  <2>4. p \in Pages(Records) BY <1>1, <2>3, ReadTaken
  <2>5. LoadedRecords(y) = LoadedRecords(x) \cup ToSet(p.records) BY <2>1, <2>4, LoadedMore
  <2>6. ASSUME NEW i \in DOMAIN journal, NextPageParam(y) <= i PROVE journal[i] \in LoadedRecords(y)
    <3>1. CASE b <= i BY <1>4, <2>5, <3>1 DEF b
    <3>2. CASE i < b BY <1>1, <2>1, <2>3, <2>5, <2>6, <3>2, PageFills
    <3> QED BY <2>3, <3>1, <3>2
  <2> QED BY <2>6 DEF FetchNextPage, b
<1> DEFINE T == {m \in Nat : m <= n => History(Records, journal, f[m]) /\ All(f[m])}
<1>5. 0 \in T
  <2> DEFINE p == ReadPage(journal, 0, PageSize)
             e == <<>>
             y == Append(e, p)
  <2>1. p \in Pages(Records) /\ Latest(Records, journal, p) BY <1>1, ReadLatest, ReadTaken
  <2>2. NoHistory \in Seq(Pages(Records)) /\ NoHistory = e BY DEF NoHistory
  <2>3. y = <<p>> OBVIOUS
  <2>4. LoadedRecords(<<p>>) = ToSet(p.records) BY <2>1, <2>2, LoadedMore
  <2>5. \A i \in DOMAIN journal : NextPageParam(y) <= i => journal[i] \in ToSet(p.records)
    BY <1>1, <2>2, PageFills
  <2>6. History(Records, journal, <<p>>)
    <3>1. History(Records, journal, NoHistory)
      <4>1. DOMAIN NoHistory = {} BY DEF NoHistory
      <4> QED BY <2>2, <4>1, NothingLoaded DEF History
    <3> QED BY <1>1, <2>1, <3>1, HistoryMore
  <2>7. All(<<p>>) BY <2>3, <2>4, <2>5
  <2> QED BY <1>3, <2>6, <2>7
<1>6. ASSUME NEW m \in Nat, m \in T PROVE m + 1 \in T
  <2> SUFFICES ASSUME m + 1 <= n PROVE History(Records, journal, f[m + 1]) /\ All(f[m + 1]) OBVIOUS
  <2>1. m \in 0..(n - 1) /\ History(Records, journal, f[m]) /\ All(f[m]) BY <1>2, <1>6
  <2> HIDE DEF T, All
  <2>2. PICK i : f[m + 1] = RefetchNext(f[m], i) BY <1>3, <2>1
  <2>3. f[m + 1] = f[m] \/ (NextPageParam(f[m]) # 0 /\ f[m + 1] = FetchNextPage(f[m], journal, PageSize))
    BY <2>2 DEF RefetchNext
  <2> QED BY <1>4, <2>1, <2>3, NextPageHistory
<1> HIDE DEF T, All
<1>7. n \in T BY <1>2, <1>5, <1>6, Stepwise
<1>8. All(qs) BY <1>2, <1>3, <1>7 DEF T
<1> QED BY <1>8 DEF All, Filled

(* An event adds a record of the journal, an ending or nothing.            *)
LEMMA AddsGenuine ==
  ASSUME NEW J, NEW c, Genuine(J, c.overlay), NEW e, NEW d, Adds(c, e, d), \A x \in OverlayRecords(e, 0) : Taken(x, J)
  PROVE  Genuine(J, d.overlay) /\ DOMAIN c.overlay \subseteq DOMAIN d.overlay
<1>1. CASE d.overlay = c.overlay BY <1>1
<1>2. ASSUME NEW r, d.overlay = Put(c.overlay, r), r \in OverlayRecords(e, 0) \/ r.type = "run_ended"
      PROVE  Genuine(J, d.overlay) /\ DOMAIN c.overlay \subseteq DOMAIN d.overlay
  <2> DEFINE o == c.overlay
             p == d.overlay
  <2>1. /\ DOMAIN p = {r.seq} \cup DOMAIN o
        /\ \A s \in DOMAIN p : p[s] = IF s = r.seq THEN r ELSE o[s]
    BY <1>2 DEF Put
  <2>2. Genuine(J, o) /\ (Taken(r, J) \/ r.type = "run_ended") BY <1>2
  <2> HIDE DEF o, p
  <2>3. Genuine(J, p) /\ DOMAIN o \subseteq DOMAIN p BY <2>1, <2>2 DEF Genuine
  <2> QED BY <2>3 DEF o, p
<1> QED BY <1>1, <1>2 DEF Adds

(* So does every event of a replay.                                        *)
LEMMA ReplayGenuine ==
  ASSUME NEW f, NEW b \in Seq(Events), Replays(f, f[0], b, Len(b)), \A k \in 0..Len(b) : Kept(f[0], f[k]),
         f[0].draining = TRUE, f[0].stateReq = None, f[0].syncing = "no",
         NEW J, Carried(J, b), Genuine(J, f[0].overlay), NEW k \in 0..Len(b)
  PROVE  Genuine(J, f[k].overlay) /\ DOMAIN f[0].overlay \subseteq DOMAIN f[k].overlay
<1> DEFINE P(n) == Genuine(J, f[n].overlay) /\ DOMAIN f[0].overlay \subseteq DOMAIN f[n].overlay
           T == {n \in Nat : n <= Len(b) => P(n)}
<1>1. 0 \in T OBVIOUS
<1>2. ASSUME NEW n \in Nat, n \in T PROVE n + 1 \in T
  <2> SUFFICES ASSUME n + 1 <= Len(b) PROVE P(n + 1) OBVIOUS
  <2>1. Len(b) \in Nat /\ n \in 0..(Len(b) - 1) /\ n <= Len(b) /\ n + 1 \in DOMAIN b OBVIOUS
  <2>2. Processes(f[n], b[n + 1], f[n + 1]) BY <2>1, ReplayProcesses
  <2>3. P(n) BY <1>2, <2>1
  <2>4. \A r \in OverlayRecords(b[n + 1], 0) : Taken(r, J) BY <2>1 DEF Carried
  <2> DEFINE x == f[n]
             y == f[n + 1]
             e == b[n + 1]
             o == f[0].overlay
  <2>5. /\ Adds(x, e, y) /\ Genuine(J, x.overlay) /\ DOMAIN o \subseteq DOMAIN x.overlay
        /\ \A r \in OverlayRecords(e, 0) : Taken(r, J)
    BY <2>2, <2>3, <2>4 DEF Processes
  <2> HIDE DEF x, y, e, o
  <2>6. Genuine(J, y.overlay) /\ DOMAIN o \subseteq DOMAIN y.overlay BY <2>5, AddsGenuine
  <2> QED BY <2>6 DEF y, o
<1> HIDE DEF T, P
<1>3. k \in Nat /\ k \in T BY <1>1, <1>2, Stepwise
<1>4. k <= Len(b) OBVIOUS
<1>5. P(k) BY <1>3, <1>4 DEF T
<1> QED BY <1>5 DEF P

(* Pruning keeps the records newer than the history, but for endings.      *)
LEMMA PruneGenuine ==
  ASSUME NEW J, NEW o, Genuine(J, o), NEW pages, NEW newest
  PROVE  /\ Genuine(J, PruneOverlay(pages, o, newest))
         /\ \A s \in DOMAIN o : s > newest /\ o[s].type # "run_ended" => s \in DOMAIN PruneOverlay(pages, o, newest)
<1> DEFINE p == PruneOverlay(pages, o, newest)
           ended == CanonicalRunEndedIds(pages)
           IsEnding(s) == IsCompleteRunEnded(o[s])
           unreconciled == {s \in DOMAIN o : IsEnding(s) /\ o[s].run \notin ended}
           newer == {s \in DOMAIN o : s > newest /\ ~(IsEnding(s) /\ o[s].run \in ended)}
           rest == {s \in DOMAIN o : ~IsEnding(s) \/ o[s].run \notin ended}
<1>1. p = IF newest = 0 THEN Restrict(o, rest) ELSE Restrict(o, unreconciled \cup newer)
  BY Zenon DEF PruneOverlay
<1>2. rest \subseteq DOMAIN o /\ unreconciled \cup newer \subseteq DOMAIN o OBVIOUS
<1>3. \A s \in DOMAIN o : s > newest /\ o[s].type # "run_ended" => s \in rest /\ s \in unreconciled \cup newer
  BY DEF IsCompleteRunEnded
<1> HIDE DEF rest, unreconciled, newer, p
<1>4. \A S : S \subseteq DOMAIN o => Genuine(J, Restrict(o, S)) /\ DOMAIN Restrict(o, S) = S BY DEF Genuine, Restrict
<1>5. Genuine(J, p) /\ \A s \in DOMAIN o : s > newest /\ o[s].type # "run_ended" => s \in DOMAIN p
  BY <1>1, <1>2, <1>3, <1>4
<1> QED BY <1>5 DEF p

(* What the end of a resynchronisation keeps of what is shown.             *)
Finishes(J, m, h, d) ==
  /\ Genuine(J, d.overlay) /\ d.pages = m.pages /\ d.historyReq.val = {} /\ d.fetch \in {m.fetch, NoFetch}
  /\ d.syncing = "requests" => d.fetch = NoFetch
  /\ "history" \in m.lost => "history" \in d.lost
  /\ \A s \in DOMAIN m.ref : s > h /\ m.ref[s].type # "run_ended" => s \in DOMAIN d.overlay

(* The end of a resynchronisation keeps it.                                *)
LEMMA FinishLasts ==
  ASSUME NEW m, Sound(m), NEW J \in Seq(Records), Carried(J, m.buffered), Genuine(J, m.ref), NEW h \in Int,
         NEW newest \in Int, newest <= h, NEW d, d = FinishResync(m, newest)
  PROVE  Finishes(J, m, h, d)
<1> DEFINE b == m.buffered
           n == Len(b)
           p == PruneOverlay(m.pages, m.ref, newest)
<1>1. PICK f : Ends(m, f, n, d) /\ f[0].overlay = p BY FinishDoes
<1>2. b \in Seq(Events) /\ n \in Nat /\ n \in 0..n BY DEF Sound
<1>3. /\ \A k \in 0..n : Kept(f[0], f[k])
      /\ Replays(f, f[0], b, n)
      /\ f[0].draining = TRUE /\ f[0].stateReq = None /\ f[0].syncing = "no"
  BY <1>1, Zenon DEF Ends
<1>4. d.pages = m.pages /\ d.overlay = f[n].overlay
  <2>1. f[0].pages = m.pages BY <1>1 DEF Ends, Changes, ClientFields
  <2>2. d.pages = f[n].pages /\ d.overlay = f[n].overlay BY <1>1 DEF Ends, Changes, ClientFields, ResyncFields
  <2>3. f[n].pages = f[0].pages BY <1>2, <1>3 DEF Kept, ClientFields
  <2> QED BY <2>1, <2>2, <2>3
<1>5. /\ d.historyReq.val = {} /\ d.fetch \in {m.fetch, NoFetch}
      /\ d.syncing = "requests" => d.fetch = NoFetch
      /\ "history" \in m.lost => "history" \in d.lost
  BY <1>1, SlotFields DEF Ends
<1>6. /\ Genuine(J, p)
      /\ \A s \in DOMAIN m.ref : s > newest /\ m.ref[s].type # "run_ended" => s \in DOMAIN p
  BY PruneGenuine
<1> HIDE DEF p
<1>7. Genuine(J, f[n].overlay) /\ DOMAIN p \subseteq DOMAIN f[n].overlay
  <2>1. Genuine(J, f[0].overlay) /\ f[0].overlay = p BY <1>1, <1>6
  <2> HIDE DEF b
  <2>2. Carried(J, b) BY DEF b
  <2>3. Genuine(J, f[n].overlay) /\ DOMAIN f[0].overlay \subseteq DOMAIN f[n].overlay
    BY <1>2, <1>3, <2>1, <2>2, ReplayGenuine
  <2> QED BY <2>1, <2>3
<1>8. ASSUME NEW s \in DOMAIN m.ref, s > h, m.ref[s].type # "run_ended" PROVE s \in DOMAIN d.overlay
  <2>1. s \in Int
    <3>1. Taken(m.ref[s], J) BY <1>8 DEF Genuine
    <3>2. m.ref[s].seq = s BY DEF Sound, InPlace
    <3>3. DOMAIN J = 1..Len(J) OBVIOUS
    <3> QED BY <3>1, <3>2, <3>3 DEF Taken
  <2>2. s > newest BY <1>8, <2>1
  <2> QED BY <1>4, <1>6, <1>7, <1>8, <2>2
<1> QED BY <1>4, <1>5, <1>7, <1>8 DEF Finishes

-----------------------------------------------------------------------------
(* What a step of the client keeps of what is shown: what is loaded stays  *)
(* so or can be read again behind the pages, what is newer than the        *)
(* history stays in the overlay.                                           *)
Retains(c, d) ==
  /\ \A r \in LoadedRecords(c.pages) : r \in LoadedRecords(d.pages) \/ r.seq < NextPageParam(d.pages)
  /\ \A s \in DOMAIN c.overlay :
       s > HistoryNewestSeq(d.pages) /\ c.overlay[s].type # "run_ended" => s \in DOMAIN d.overlay
Shifts(J, c, d) ==
  Lasts(J, d) /\ (c.selected /\ d.selected /\ "history" \notin d.lost => Retains(c, d))

(* Nothing is under way.                                                   *)
LEMMA NothingUnderway ==
  /\ NoFetch.st = "none" /\ NoFetch.older = FALSE /\ NoFetch.val = {}
  /\ \A f \in FirstFetches : f.older = FALSE /\ f.val = {}
  /\ \A J, pages : Underway(J, pages, NoFetch)
  /\ \A pages, f, p : Newer(pages, f, p) => Newer(pages, NoFetch, p)
<1>1. /\ NoFetch.st = "none" /\ NoFetch.older = FALSE /\ NoFetch.val = {}
      /\ \A f \in FirstFetches : f.older = FALSE /\ f.val = {}
  BY DEF FirstFetches, NoFetch, Fetch
<1>2. \A J, pages : Underway(J, pages, NoFetch) BY <1>1 DEF Underway
<1>3. \A pages, f, p : Newer(pages, f, p) => Newer(pages, NoFetch, p) BY <1>1 DEF Newer
<1> QED BY <1>1, <1>2, <1>3

(* The same pages, and an overlay with more.                               *)
LEMMA LastsMore ==
  ASSUME NEW J, NEW c, Lasts(J, c), NEW d, Genuine(J, d.overlay), DOMAIN c.overlay \subseteq DOMAIN d.overlay,
         d.pages = c.pages, d.fetch \in {c.fetch, NoFetch}, d.historyReq.val \subseteq c.historyReq.val,
         d.syncing = "requests" => d.fetch = NoFetch \/ c.syncing = "requests"
  PROVE  Shifts(J, c, d)
<1>1. Retains(c, d) BY DEF Retains
<1>2. Underway(J, d.pages, d.fetch) BY NothingUnderway DEF Lasts
<1>3. \A p \in d.historyReq.val : Newer(d.pages, d.fetch, p) BY NothingUnderway DEF Lasts
<1>4. d.syncing = "requests" => d.fetch.st = "none" \/ d.fetch.older BY NothingUnderway DEF Lasts
<1>5. Lasts(J, d) BY <1>2, <1>3, <1>4 DEF Lasts
<1> QED BY <1>1, <1>5 DEF Shifts

(* The journal grows.                                                      *)
LEMMA LastsGrows ==
  ASSUME NEW J \in Seq(Records), NEW K \in Seq(Records), Extends(J, K), NEW v, NEW c, Keeps(v, J, c), Lasts(J, c)
  PROVE  Lasts(K, c)
<1>1. Genuine(K, c.overlay) BY DEF Lasts, Genuine, Extends, Taken
<1>2. Underway(K, c.pages, c.fetch)
  <2>1. ASSUME ~c.fetch.older, NEW ps \in c.fetch.val PROVE Filled(K, ps, HistoryNewestSeq(ps))
    <3> DEFINE n == HistoryNewestSeq(ps)
    <3>1. History(Records, J, ps) BY <2>1 DEF Keeps, FetchKept
    <3>2. n \in 0..Len(J) BY <3>1, NewestIs
    <3>3. Filled(J, ps, n) BY <2>1 DEF Lasts, Underway
    <3>4. DOMAIN J = 1..Len(J) /\ DOMAIN K = 1..Len(K) /\ Len(J) \in Nat /\ Len(K) \in Nat OBVIOUS
    <3> HIDE DEF n
    <3>5. \A i \in DOMAIN K : i <= n => i \in DOMAIN J /\ K[i] = J[i] BY <3>2, <3>4 DEF Extends
    <3>6. Filled(K, ps, n) BY <3>3, <3>5 DEF Filled
    <3> QED BY <3>6 DEF n
  <2> QED BY <2>1 DEF Lasts, Underway
<1> QED BY <1>1, <1>2 DEF Lasts

(* The requests about the state and their answers, the stream that opens   *)
(* or closes and an event that is held back touch none of it.              *)
LEMMA LastsUntouched ==
  ASSUME NEW J, NEW c, Lasts(J, c), NEW d, NEW F, Changes(c, d, F),
         {"overlay", "pages", "fetch", "historyReq", "syncing"} \cap F = {}
  PROVE  Shifts(J, c, d)
<1>1. /\ d.overlay = c.overlay /\ d.pages = c.pages /\ d.fetch = c.fetch /\ d.historyReq = c.historyReq
      /\ d.syncing = c.syncing
  BY DEF Changes, ClientFields
<1>2. Genuine(J, d.overlay) BY <1>1 DEF Lasts
<1> QED BY <1>1, <1>2, LastsMore

(* An older page is asked for.                                             *)
LEMMA LoadOlderLasts ==
  ASSUME Typed, Keeping, Lasting, LoadOlder
  PROVE  Shifts(journal, client, client')
<1> DEFINE c == client
           d == client'
           J == journal
<1>1. /\ Changes(c, d, {"fetch"}) /\ d.fetch = Fetch("asked", TRUE, c.pages) /\ Lasts(J, c)
  BY LoadOlderDoes DEF Typed, Lasting
<1>2. NextPageParam(c.pages) # 0
  <2>1. NextPageParam(c.pages) > 0 BY DEF LoadOlder
  <2>2. J \in Seq(Records) /\ c.pages \in Seq(Pages(Records)) /\ \A r \in LoadedRecords(c.pages) : Taken(r, J)
    BY DEF Typed, JournalOK, Keeping, Keeps, History
  <2> DEFINE n == NextPageParam(c.pages)
  <2>3. n \in 0..Len(J) BY <2>2, NextIs
  <2> QED BY <2>1, <2>2, <2>3
<1> HIDE DEF c, d, J
<1>3. d.overlay = c.overlay /\ d.pages = c.pages /\ d.historyReq = c.historyReq
  BY <1>1 DEF Changes, ClientFields
<1>4. d.fetch.older = TRUE /\ d.fetch.base = c.pages /\ d.fetch.val = {} BY <1>1 DEF Fetch
<1>5. Retains(c, d) BY <1>3 DEF Retains
<1>6. Underway(J, d.pages, d.fetch) BY <1>2, <1>3, <1>4 DEF Underway
<1>7. \A p \in d.historyReq.val : Newer(d.pages, d.fetch, p) BY <1>1, <1>3, <1>4 DEF Lasts, Newer
<1>8. Lasts(J, d) BY <1>1, <1>3, <1>4, <1>6, <1>7 DEF Lasts
<1>9. Shifts(J, c, d) BY <1>5, <1>8 DEF Shifts
<1> QED BY <1>9 DEF c, d, J

(* The latest page is read: it is as new as what is loaded.                *)
LEMMA AnswerHistoryLasts ==
  ASSUME Typed, Keeping, Lasting, NEW ok \in BOOLEAN, AnswerHistory(ok)
  PROVE  Shifts(journal, client, client')
<1> DEFINE c == client
           d == client'
           J == journal
           p == ReadPage(journal, 0, PageSize)
<1>1. /\ Changes(c, d, {"historyReq"}) /\ d.historyReq.val \in {{}, {p}} /\ Lasts(J, c)
      /\ J \in Seq(Records) /\ Placed(J) /\ PageSize \in Nat \ {0}
  BY AnswerHistoryDoes, BoundsAreNumbers DEF Typed, Lasting, JournalOK, Placed
<1>2. Latest(Records, J, p) /\ \A i \in DOMAIN J : i <= NewestSeq(p) BY <1>1, LatestIsWhole
<1>3. \A r \in ToSet(p.records) : Taken(r, J) /\ r.seq > Len(J) - PageSize BY <1>1, LatestIsLast
<1>4. History(Records, J, c.pages) /\ History(Records, J, c.fetch.base) BY DEF Keeping, Keeps, FetchKept
<1> HIDE DEF c, d, J, p
<1> DEFINE n == NewestSeq(p)
<1>5. n \in 0..Len(J) BY <1>1, <1>2, NewestOfPage
<1>6. n = Len(J)
  <2>1. Len(J) \in Nat /\ DOMAIN J = 1..Len(J) BY <1>1
  <2>2. CASE Len(J) = 0 BY <1>5, <2>2
  <2>3. CASE Len(J) # 0
    <3>1. Len(J) \in DOMAIN J BY <2>1, <2>3
    <3> QED BY <1>2, <1>5, <2>1, <3>1
  <2> QED BY <2>2, <2>3
<1> HIDE DEF n
<1>7. ASSUME NEW ps, History(Records, J, ps) PROVE HistoryNewestSeq(ps) <= n
  <2> DEFINE h == HistoryNewestSeq(ps)
  <2>1. h \in 0..Len(J) BY <1>1, <1>7, NewestIs
  <2> HIDE DEF h
  <2>2. h <= n BY <1>1, <1>6, <2>1
  <2> QED BY <2>2 DEF h
<1>8. d.overlay = c.overlay /\ d.pages = c.pages /\ d.fetch = c.fetch /\ d.syncing = c.syncing
  BY <1>1 DEF Changes, ClientFields
<1>9. Newer(d.pages, d.fetch, p) BY <1>3, <1>4, <1>6, <1>7, <1>8 DEF Newer, n
<1>10. Lasts(J, d) BY <1>1, <1>8, <1>9 DEF Lasts
<1>11. Retains(c, d) BY <1>8 DEF Retains
<1>12. Shifts(J, c, d) BY <1>10, <1>11 DEF Shifts
<1> QED BY <1>12 DEF c, d, J

(* Loaded pages are read again, or one more is.                            *)
LEMMA AnswerFetchLasts ==
  ASSUME Typed, Keeping, Lasting, NEW ok \in BOOLEAN, AnswerFetch(ok)
  PROVE  Shifts(journal, client, client')
<1> DEFINE c == client
           d == client'
           J == journal
           x == FetchRead(c.fetch)
           b == c.fetch.base
<1>1. Changes(c, d, {"fetch"}) /\ Lasts(J, c) /\ JournalOK BY AnswerFetchDoes DEF Typed, Lasting
<1>2. IsFetch(c.fetch) /\ History(Records, J, b) BY DEF Keeping, Keeps, FetchKept
<1>3. /\ d.fetch.base = b /\ d.fetch.older = c.fetch.older /\ d.fetch.val \in {{}, {x}}
  BY <1>2, AnswerFetchDoes DEF Typed
<1>4. c.fetch.st # "none" BY DEF AnswerFetch
<1>5. ~c.fetch.older => Filled(J, x, HistoryNewestSeq(x))
  <2> SUFFICES ASSUME ~c.fetch.older PROVE Filled(J, x, HistoryNewestSeq(x)) OBVIOUS
  <2>1. x = RefetchPages(b, journal, PageSize) BY DEF FetchRead
  <2>2. b \in Seq(Pages(Records)) BY <1>2 DEF History
  <2> HIDE DEF x, b
  <2> QED BY <1>1, <2>1, <2>2, RefetchIsFilled
<1>6. c.fetch.older /\ NextPageParam(b) # 0 =>
        LoadedRecords(b) \subseteq LoadedRecords(x) /\ HistoryNewestSeq(x) = HistoryNewestSeq(b)
  <2> SUFFICES ASSUME c.fetch.older, NextPageParam(b) # 0
               PROVE  LoadedRecords(b) \subseteq LoadedRecords(x) /\ HistoryNewestSeq(x) = HistoryNewestSeq(b)
    OBVIOUS
  <2>1. x = FetchNextPage(b, journal, PageSize) BY DEF FetchRead
  <2> HIDE DEF x, b
  <2> QED BY <1>1, <1>2, <2>1, OlderPage
<1> HIDE DEF c, d, J, x, b
<1>7. d.overlay = c.overlay /\ d.pages = c.pages /\ d.historyReq = c.historyReq /\ d.syncing = c.syncing
  BY <1>1 DEF Changes, ClientFields
<1>8. b = c.fetch.base BY DEF b
<1>9. Underway(J, d.pages, d.fetch)
  <2>1. Underway(J, c.pages, c.fetch) BY <1>1 DEF Lasts
  <2>2. CASE c.fetch.older
    <3>1. /\ NextPageParam(b) # 0
          /\ LoadedRecords(c.pages) \subseteq LoadedRecords(b) \/ HistoryNewestSeq(b) < HistoryNewestSeq(c.pages)
      BY <1>8, <2>1, <2>2 DEF Underway
    <3> QED BY <1>3, <1>6, <1>7, <2>2, <3>1 DEF Underway
  <2>3. CASE ~c.fetch.older BY <1>3, <1>5, <2>3 DEF Underway
  <2> QED BY <2>2, <2>3
<1>10. \A p \in d.historyReq.val : Newer(d.pages, d.fetch, p) BY <1>1, <1>3, <1>7, <1>8 DEF Lasts, Newer
<1>11. d.syncing = "requests" => d.fetch.older BY <1>1, <1>3, <1>4, <1>7 DEF Lasts
<1>12. Lasts(J, d) BY <1>1, <1>7, <1>9, <1>10, <1>11 DEF Lasts
<1>13. Retains(c, d) BY <1>7 DEF Retains
<1>14. Shifts(J, c, d) BY <1>12, <1>13 DEF Shifts
<1> QED BY <1>14 DEF c, d, J

(* The next event of the stream.                                           *)
LEMMA DeliverLasts ==
  ASSUME NEW a, NEW d, NEW w \in Seq(Events), w # <<>>, Delivers(a, d, Head(w)), NEW J, Carried(J, w), Lasts(J, a)
  PROVE  Shifts(J, a, d)
<1> DEFINE e == Head(w)
           r == Tail(w)
<1>1. Begins(w, e, r) /\ e \in Events /\ r \in Seq(Events) BY HeadBegins
<1>2. PICK c : /\ Sound(c) /\ Changes(a, c, {"ref", "rendered"}) /\ Sound(d)
               /\ \/ e.kind = "open" /\ d = OnStatusChange(c, "connected")
                  \/ e.kind = "close" /\ d = OnStatusChange(c, "reconnecting")
                  \/ /\ ~IsMarker(e) /\ c.syncing # "no"
                     /\ Changes(c, d, {"buffered"}) /\ d.buffered = Append(c.buffered, e)
                  \/ ~IsMarker(e) /\ c.syncing = "no" /\ Processes(c, e, d)
  BY Zenon DEF Delivers
<1> HIDE DEF e, r
<1>3. /\ c.pages = a.pages /\ c.historyReq = a.historyReq /\ c.fetch = a.fetch /\ c.syncing = a.syncing
      /\ c.overlay = a.overlay
  BY <1>2 DEF Changes, ClientFields
<1>4. \A x \in OverlayRecords(e, 0) : Taken(x, J) BY <1>1, CarriedBegins
<1>5. Genuine(J, c.overlay) BY <1>3 DEF Lasts
<1>6. ASSUME d.overlay = c.overlay, d.pages = c.pages,
             \/ d.fetch = c.fetch /\ d.historyReq = c.historyReq /\ d.syncing = c.syncing
             \/ d.fetch = NoFetch /\ d.historyReq = Asked
      PROVE  Shifts(J, a, d)
  BY <1>3, <1>5, <1>6, SlotFields, LastsMore
<1>7. ASSUME NEW link \in Links, d = OnStatusChange(c, link) PROVE Shifts(J, a, d)
  <2>1. Switches(c, link, d) BY <1>2, <1>7, StatusDoes
  <2>2. d.overlay = c.overlay /\ d.pages = c.pages BY <2>1 DEF Switches, Changes, ClientFields, ResyncFields
  <2>3. \/ d.fetch = c.fetch /\ d.historyReq = c.historyReq /\ d.syncing = c.syncing
        \/ d.fetch = NoFetch /\ d.historyReq = Asked
    BY <2>1 DEF Switches, Fresh
  <2> QED BY <1>6, <2>2, <2>3
<1>8. CASE Changes(c, d, {"buffered"})
  <2>1. /\ d.overlay = c.overlay /\ d.pages = c.pages /\ d.fetch = c.fetch /\ d.historyReq = c.historyReq
        /\ d.syncing = c.syncing
    BY <1>8 DEF Changes, ClientFields
  <2> QED BY <1>6, <2>1
<1>9. CASE Processes(c, e, d)
  <2>1. Adds(c, e, d) BY <1>9 DEF Processes
  <2>2. Genuine(J, d.overlay) /\ DOMAIN c.overlay \subseteq DOMAIN d.overlay BY <1>4, <1>5, <2>1, AddsGenuine
  <2>3. d.pages = c.pages BY <1>9 DEF Processes, Changes, ClientFields, ProcessFields, ResyncFields
  <2>4. \/ d.fetch = c.fetch /\ d.historyReq = c.historyReq /\ d.syncing = c.syncing
        \/ d.fetch = NoFetch /\ d.historyReq = Asked
    BY <1>9 DEF Processes, NoResync, Resyncs
  <2>5. Asked.val = {} BY SlotFields
  <2> QED BY <1>3, <2>2, <2>3, <2>4, <2>5, LastsMore
<1>10. "connected" \in Links /\ "reconnecting" \in Links BY DEF Links
<1> QED BY <1>2, <1>7, <1>8, <1>9, <1>10

-----------------------------------------------------------------------------
(* The end of a resynchronisation of c, whose history has become m's.      *)
LEMMA FinishShifts ==
  ASSUME NEW J \in Seq(Records), NEW c, Genuine(J, c.overlay), NEW m, Sound(m), Carried(J, m.buffered), m.ref = c.overlay,
         NEW newest \in Int, HistoryNewestSeq(m.pages) \in Int, newest <= HistoryNewestSeq(m.pages),
         NEW d, d = FinishResync(m, newest), Underway(J, m.pages, m.fetch),
         "history" \notin m.lost =>
           \A r \in LoadedRecords(c.pages) : r \in LoadedRecords(m.pages) \/ r.seq < NextPageParam(m.pages)
  PROVE  Shifts(J, c, d)
<1> DEFINE h == HistoryNewestSeq(m.pages)
<1>1. h \in Int /\ newest <= h OBVIOUS
<1> HIDE DEF h
<1>2. Genuine(J, m.ref) OBVIOUS
<1>3. Finishes(J, m, h, d) BY <1>1, <1>2, FinishLasts
<1>4. /\ Genuine(J, d.overlay) /\ d.pages = m.pages /\ d.historyReq.val = {} /\ d.fetch \in {m.fetch, NoFetch}
      /\ d.syncing = "requests" => d.fetch = NoFetch
      /\ "history" \in m.lost => "history" \in d.lost
      /\ \A s \in DOMAIN c.overlay : s > h /\ c.overlay[s].type # "run_ended" => s \in DOMAIN d.overlay
  BY <1>3 DEF Finishes
<1>5. Lasts(J, d) BY <1>4, NothingUnderway DEF Lasts
<1>6. "history" \notin d.lost => Retains(c, d) BY <1>4 DEF Retains, h
<1> QED BY <1>5, <1>6 DEF Shifts

(* What is merged adds to what was loaded; an older page under way starts  *)
(* from as much, or from what is older.                                    *)
LEMMA MergeUnderway ==
  ASSUME NEW J \in Seq(Records), Placed(J), NEW ps, History(Records, J, ps), NEW p, Latest(Records, J, p),
         NEW f, FetchKept(J, f), HeldFetch(J, f), Underway(J, ps, f), Newer(ps, f, p),
         NEW qs, qs = MergeHistoryPages(ps, p, PageSize)
  PROVE  Underway(J, qs, f) /\ LoadedRecords(ps) \subseteq LoadedRecords(qs)
<1>1. PageSize \in Nat \ {0} /\ Len(J) \in Nat /\ DOMAIN J = 1..Len(J) BY BoundsAreNumbers
<1>2. /\ History(Records, J, qs)
      /\ NewestSeq(p) <= HistoryNewestSeq(qs) /\ HistoryNewestSeq(ps) <= HistoryNewestSeq(qs)
  BY <1>1, MergedHistory
<1>3. LoadedRecords(qs) = LoadedRecords(ps) \cup ToSet(p.records)
  <2>1. ps \in Seq(Pages(Records)) /\ p \in Pages(Records) BY DEF History, Latest
  <2>2. \A r \in LoadedRecords(ps) \cup ToSet(p.records) : Taken(r, J) BY DEF History, Latest
  <2> QED BY <1>1, <2>1, <2>2, MergedIs
<1>4. CASE ~f.older BY <1>3, <1>4 DEF Underway
<1>5. CASE f.older
  <2> DEFINE a == HistoryNewestSeq(ps)
             n == NewestSeq(p)
             b == HistoryNewestSeq(f.base)
             g == HistoryNewestSeq(qs)
  <2>1. a \in 0..Len(J) /\ g \in 0..Len(J) /\ n \in 0..Len(J) BY <1>2, NewestIs, NewestOfPage
  <2>2. b \in 0..Len(J) BY NewestIs DEF FetchKept
  <2>3. a <= g /\ n <= g /\ b <= n /\ a <= n BY <1>2, <1>5 DEF Newer
  <2>4. LoadedRecords(ps) \subseteq LoadedRecords(f.base) \/ b < a BY <1>5 DEF Underway
  <2>5. Topped(J, LoadedRecords(f.base), b) BY DEF HeldFetch, TopPages
  <2>6. \A r \in ToSet(p.records) : Taken(r, J) /\ r.seq > n - PageSize /\ r.seq <= n
    BY LatestEnds DEF Newer, Latest
  <2> HIDE DEF a, n, b, g
  <2>7. LoadedRecords(qs) \subseteq LoadedRecords(f.base) \/ b < g
    <3>1. CASE b < n BY <2>1, <2>2, <2>3, <3>1
    <3>2. CASE b = n
      <4>1. LoadedRecords(ps) \subseteq LoadedRecords(f.base) BY <2>1, <2>2, <2>3, <2>4, <3>2
      <4>2. ToSet(p.records) \subseteq LoadedRecords(f.base) BY <1>1, <2>1, <2>5, <2>6, <3>2 DEF Topped, Taken
      <4> QED BY <1>3, <4>1, <4>2
    <3> QED BY <2>1, <2>2, <2>3, <3>1, <3>2
  <2>8. Underway(J, qs, f) BY <1>5, <2>7 DEF Underway, b, g
  <2> QED BY <1>3, <2>8
<1> QED BY <1>4, <1>5

(* The answers of a resynchronisation are used.                            *)
LEMMA ApplyLasts ==
  ASSUME NEW J \in Seq(Records), Placed(J), NEW c, Sound(c), NEW d, ApplyResyncs(c, d),
         NEW v, Keeps(v, J, c), Holds(J, c), Lasts(J, c)
  PROVE  Shifts(J, c, d)
<1>1. PICK m : /\ Applied(c, m)
               /\ \/ /\ c.historyReq.st = "answered" /\ Merges(c, m)
                     /\ d = FinishResync(m, IF NewestOf(c) = 0 THEN HistoryNewestSeq(m.pages) ELSE NewestOf(c))
                  \/ /\ c.historyReq.st = "failed" /\ LeavesPages(c, m) /\ Changes(m, d, {"syncing", "fetch"})
                     /\ d.syncing = "refetch" /\ d.fetch = Fetch("asked", FALSE, c.pages)
  BY Zenon DEF ApplyResyncs
<1>2. /\ Sound(m) /\ m.buffered = c.buffered /\ m.fetch = c.fetch /\ m.historyReq = c.historyReq
      /\ m.ref = c.overlay /\ m.overlay = c.overlay
  BY <1>1 DEF Applied, Changes, ClientFields
<1>3. IsAnswer(c.historyReq) BY DEF Sound
<1>4. CASE /\ c.historyReq.st = "answered" /\ Merges(c, m)
           /\ d = FinishResync(m, IF NewestOf(c) = 0 THEN HistoryNewestSeq(m.pages) ELSE NewestOf(c))
  <2>1. PICK p : c.historyReq.val = {p} BY <1>3, <1>4, AnswerHolds
  <2>2. Latest(Records, J, p) /\ History(Records, J, c.pages) /\ FetchKept(J, c.fetch)
    BY <2>1 DEF Keeps, Answers
  <2>3. m.pages = MergeHistoryPages(c.pages, p, PageSize)
    <3>1. (CHOOSE page \in c.historyReq.val : TRUE) = p BY <2>1
    <3> QED BY <1>4, <3>1 DEF Merges
  <2> DEFINE h == HistoryNewestSeq(m.pages)
             newest == IF NewestOf(c) = 0 THEN h ELSE NewestOf(c)
  <2>4. PageSize \in Nat \ {0} BY BoundsAreNumbers
  <2>5. History(Records, J, m.pages) /\ NewestSeq(p) <= h BY <2>2, <2>3, <2>4, MergedHistory
  <2>6. h \in 0..Len(J) /\ NewestSeq(p) \in 0..Len(J) BY <2>2, <2>5, NewestIs, NewestOfPage
  <2>7. NewestOf(c) = NewestSeq(p)
    <3> DEFINE S == {NewestSeq(page) : page \in c.historyReq.val} \cup {0}
               x == NewestSeq(p)
    <3>1. S = {x, 0} BY <2>1
    <3>2. x \in Int /\ ~(x < 0) /\ 0 \in Int BY <2>6
    <3>3. NewestOf(c) = Max(S) BY DEF NewestOf
    <3> HIDE DEF S, x
    <3>4. Max({x, 0}) = IF x < 0 THEN 0 ELSE x BY <3>2, LargerOf
    <3>5. NewestOf(c) = x BY <3>1, <3>2, <3>3, <3>4
    <3> QED BY <3>5 DEF x
  <2>8. newest \in Int /\ newest <= h /\ h \in Int BY <2>5, <2>6, <2>7
  <2>9. Underway(J, c.pages, c.fetch) /\ Newer(c.pages, c.fetch, p) /\ Genuine(J, c.overlay) BY <2>1 DEF Lasts
  <2>10. HeldFetch(J, c.fetch) /\ Carried(J, c.buffered) BY DEF Holds
  <2>11. Underway(J, m.pages, c.fetch) /\ LoadedRecords(c.pages) \subseteq LoadedRecords(m.pages)
    <3> DEFINE ps == c.pages
               f == c.fetch
               qs == m.pages
    <3>1. /\ History(Records, J, ps) /\ FetchKept(J, f) /\ HeldFetch(J, f) /\ Underway(J, ps, f) /\ Newer(ps, f, p)
          /\ qs = MergeHistoryPages(ps, p, PageSize)
      BY <2>2, <2>3, <2>9, <2>10
    <3> HIDE DEF ps, f, qs
    <3>2. Underway(J, qs, f) /\ LoadedRecords(ps) \subseteq LoadedRecords(qs) BY <2>2, <3>1, MergeUnderway
    <3> QED BY <3>2 DEF ps, f, qs
  <2>12. d = FinishResync(m, newest) BY <1>4
  <2> HIDE DEF newest
  <2> QED BY <1>2, <2>8, <2>9, <2>10, <2>11, <2>12, FinishShifts
<1>5. CASE /\ LeavesPages(c, m) /\ Changes(m, d, {"syncing", "fetch"}) /\ c.historyReq.st = "failed"
           /\ d.syncing = "refetch" /\ d.fetch = Fetch("asked", FALSE, c.pages)
  <2>1. m.pages = c.pages BY <1>5 DEF LeavesPages
  <2>2. d.pages = c.pages /\ d.overlay = c.overlay /\ d.historyReq = c.historyReq
    BY <1>2, <1>5, <2>1 DEF Changes, ClientFields
  <2>3. d.historyReq.val = {} BY <1>3, <1>5, <2>2, AnswerHolds
  <2>4. d.fetch.older = FALSE /\ d.fetch.val = {} BY <1>5 DEF Fetch
  <2>5. Lasts(J, d) BY <1>5, <2>2, <2>3, <2>4 DEF Lasts, Underway
  <2>6. Retains(c, d) BY <2>2 DEF Retains
  <2> QED BY <2>5, <2>6 DEF Shifts
<1> QED BY <1>1, <1>4, <1>5

(* What a fetch of the history replaces the pages by has all of them, or   *)
(* is counted as lost.                                                     *)
LEMMA LandedKeepsLoaded ==
  ASSUME NEW J \in Seq(Records), NEW ps, History(Records, J, ps), NEW f, FetchKept(J, f), Underway(J, ps, f),
         NEW qs \in f.val, ~(HistoryNewestSeq(qs) < HistoryNewestSeq(ps)), NEW r \in LoadedRecords(ps)
  PROVE  r \in LoadedRecords(qs) \/ r.seq < NextPageParam(qs)
<1>1. CASE f.older
  <2>1. /\ LoadedRecords(ps) \subseteq LoadedRecords(f.base) \/ HistoryNewestSeq(f.base) < HistoryNewestSeq(ps)
        /\ LoadedRecords(f.base) \subseteq LoadedRecords(qs) /\ HistoryNewestSeq(qs) = HistoryNewestSeq(f.base)
    BY <1>1 DEF Underway
  <2> QED BY <2>1
<1>2. CASE ~f.older
  <2> DEFINE h == HistoryNewestSeq(ps)
             g == HistoryNewestSeq(qs)
             n == NextPageParam(qs)
  <2>1. History(Records, J, qs) BY DEF FetchKept
  <2>2. h \in 0..Len(J) /\ g \in 0..Len(J) /\ r.seq <= h BY <2>1, NewestIs
  <2>3. n \in 0..Len(J)
    <3>1. qs \in Seq(Pages(Records)) /\ \A q \in LoadedRecords(qs) : Taken(q, J) BY <2>1 DEF History
    <3> QED BY <3>1, NextIs
  <2>4. Taken(r, J) /\ DOMAIN J = 1..Len(J) /\ Len(J) \in Nat BY DEF History
  <2>5. Filled(J, qs, g) BY <1>2 DEF Underway
  <2>6. ~(g < h) OBVIOUS
  <2> HIDE DEF h, g, n
  <2>7. ASSUME n <= r.seq PROVE r \in LoadedRecords(qs)
    <3>1. r.seq \in DOMAIN J /\ J[r.seq] = r /\ r.seq <= g BY <2>2, <2>4, <2>6 DEF Taken
    <3> QED BY <2>5, <2>7, <3>1 DEF Filled, n
  <2>8. r.seq \in Int BY <2>4 DEF Taken
  <2> QED BY <2>3, <2>7, <2>8 DEF n
<1> QED BY <1>1, <1>2

(* A fetch of the history lands.                                           *)
LEMMA LandLasts ==
  ASSUME NEW J \in Seq(Records), NEW c, Sound(c), NEW d, LandsFetch(c, d), c.fetch.st # "none",
         NEW v, Keeps(v, J, c), Holds(J, c), Lasts(J, c)
  PROVE  Shifts(J, c, d)
<1>1. PICK m : /\ Landed(c, m)
               /\ \/ c.syncing = "refetch" /\ d = FinishResync(m, HistoryNewestSeq(m.pages))
                  \/ c.syncing # "refetch" /\ d = m
  BY Zenon DEF LandsFetch
<1>2. /\ Sound(m) /\ m.buffered = c.buffered /\ m.syncing = c.syncing /\ m.fetch = NoFetch
      /\ m.historyReq = c.historyReq /\ m.ref = c.overlay /\ m.overlay = c.overlay
  BY <1>1 DEF Landed, Changes, ClientFields
<1>3. Genuine(J, c.overlay) /\ Underway(J, c.pages, c.fetch) BY DEF Lasts
<1>4. History(Records, J, c.pages) /\ FetchKept(J, c.fetch) BY DEF Keeps
<1>5. m.pages = c.pages \/ m.pages \in c.fetch.val BY <1>1 DEF Landed
<1>6. HistoryNewestSeq(m.pages) \in Int
  <2>1. History(Records, J, m.pages) BY <1>4, <1>5 DEF FetchKept
  <2> DEFINE h == HistoryNewestSeq(m.pages)
  <2>2. h \in 0..Len(J) BY <2>1, NewestIs
  <2> QED BY <2>2
<1>7. ASSUME "history" \notin m.lost, NEW r \in LoadedRecords(c.pages)
      PROVE  r \in LoadedRecords(m.pages) \/ r.seq < NextPageParam(m.pages)
  <2>1. CASE m.pages = c.pages BY <1>7, <2>1
  <2>2. CASE m.pages \in c.fetch.val
    <3> DEFINE ps == c.pages
               qs == m.pages
               f == c.fetch
    <3>1. ~(HistoryNewestSeq(qs) < HistoryNewestSeq(ps)) BY <1>1, <1>7, <2>2 DEF Landed
    <3>2. /\ History(Records, J, ps) /\ FetchKept(J, f) /\ Underway(J, ps, f) /\ qs \in f.val
          /\ r \in LoadedRecords(ps)
      BY <1>3, <1>4, <1>7, <2>2
    <3> HIDE DEF ps, qs, f
    <3>3. r \in LoadedRecords(qs) \/ r.seq < NextPageParam(qs) BY <3>1, <3>2, LandedKeepsLoaded
    <3> QED BY <3>3 DEF qs
  <2> QED BY <1>5, <2>1, <2>2
<1>8. Underway(J, m.pages, m.fetch) BY <1>2, NothingUnderway
<1>9. CASE c.syncing = "refetch" /\ d = FinishResync(m, HistoryNewestSeq(m.pages))
  <2> DEFINE newest == HistoryNewestSeq(m.pages)
  <2>1. newest \in Int /\ newest <= HistoryNewestSeq(m.pages) BY <1>6
  <2>2. d = FinishResync(m, newest) BY <1>9
  <2>3. Carried(J, m.buffered) BY <1>2 DEF Holds
  <2> HIDE DEF newest
  <2> QED BY <1>2, <1>3, <1>6, <1>7, <1>8, <2>1, <2>2, <2>3, FinishShifts
<1>10. CASE c.syncing # "refetch" /\ d = m
  <2>1. Retains(c, d) \/ "history" \in d.lost BY <1>2, <1>7, <1>10 DEF Retains
  <2>2. ASSUME NEW p \in m.historyReq.val PROVE Newer(m.pages, NoFetch, p)
    <3>1. c.syncing = "requests"
      <4>1. c.syncing = "no" => c.historyReq.val = {} BY SlotFields DEF Sound
      <4> QED BY <1>2, <1>10, <2>2, <4>1 DEF Sound
    <3>2. c.fetch.older /\ Newer(c.pages, c.fetch, p) BY <1>2, <2>2, <3>1 DEF Lasts
    <3>3. HistoryNewestSeq(m.pages) <= NewestSeq(p)
      <4>1. CASE m.pages = c.pages BY <3>2, <4>1 DEF Newer
      <4>2. CASE m.pages \in c.fetch.val
        <5>1. HistoryNewestSeq(m.pages) = HistoryNewestSeq(c.fetch.base) BY <1>3, <3>2, <4>2 DEF Underway
        <5> QED BY <3>2, <5>1 DEF Newer
      <4> QED BY <1>5, <4>1, <4>2
    <3> QED BY <3>2, <3>3, NothingUnderway DEF Newer
  <2>3. Lasts(J, m) BY <1>2, <1>3, <1>8, <2>2, NothingUnderway DEF Lasts
  <2> QED BY <1>10, <2>1, <2>3 DEF Shifts
<1> QED BY <1>1, <1>9, <1>10

-----------------------------------------------------------------------------
(* A step of the client itself, the page opened or closed included.        *)
ClientMovesOn ==
  \/ ServerAnswers \/ ClientSteps
  \/ RefreshState \/ LoadOlder \/ OpenPage \/ ClosePage

(* It leaves the journal alone and keeps what is shown.                    *)
LEMMA ClientShifts ==
  ASSUME Typed, Keeping, Tracking, Lasting, ClientMovesOn
  PROVE  journal' = journal /\ Shifts(journal, client, client')
<1>1. journal' = journal
  BY Zenon DEF ClientMovesOn, ServerAnswers, ClientSteps, AnswerState, AnswerHistory, AnswerRefetch, AnswerFetch,
               Deliver, ApplyResync, LandFetch, LandRefetch, RefreshState, LoadOlder, OpenPage, ClosePage
<1>2. /\ Sound(client) /\ journal \in Seq(Records) /\ Placed(journal) /\ wire \in Seq(Events)
      /\ Keeps(server, journal, client) /\ Carried(journal, wire) /\ Holds(journal, client)
      /\ Lasts(journal, client)
  BY DEF Typed, JournalOK, Placed, StreamOK, Keeping, Tracking, Lasting
<1>3. ASSUME NEW F, Changes(client, client', F),
             {"overlay", "pages", "fetch", "historyReq", "syncing"} \cap F = {}
      PROVE  Shifts(journal, client, client')
  BY <1>2, <1>3, LastsUntouched
<1>4. CASE ServerAnswers
  <2> SUFFICES ASSUME NEW ok \in BOOLEAN, AnswerState(ok) \/ AnswerHistory(ok) \/ AnswerRefetch(ok) \/ AnswerFetch(ok)
               PROVE  Shifts(journal, client, client')
    BY <1>1, <1>4 DEF ServerAnswers
  <2>1. CASE AnswerState(ok)
    <3>1. Changes(client, client', {"stateReq"}) BY <1>2, <2>1, AnswerStateDoes
    <3> QED BY <1>3, <3>1
  <2>2. CASE AnswerRefetch(ok)
    <3>1. Changes(client, client', {"refetch"}) BY <1>2, <2>2, AnswerRefetchDoes
    <3> QED BY <1>3, <3>1
  <2> QED BY <2>1, <2>2, AnswerHistoryLasts, AnswerFetchLasts
<1>5. CASE Deliver
  <2>1. wire # <<>> /\ Delivers(client, client', Head(wire)) BY <1>5, DeliverDoes DEF Typed
  <2> DEFINE w == wire
             a == client
             d == client'
             J == journal
  <2>2. w # <<>> /\ Delivers(a, d, Head(w)) /\ w \in Seq(Events) /\ Carried(J, w) /\ Lasts(J, a) BY <1>2, <2>1
  <2> HIDE DEF w, a, d, J
  <2>3. Shifts(J, a, d) BY <2>2, DeliverLasts
  <2> QED BY <1>1, <2>3 DEF a, d, J
<1>6. CASE ApplyResync
  <2>1. ApplyResyncs(client, client') BY <1>2, <1>6, ApplyDoes
  <2> QED BY <1>1, <1>2, <2>1, ApplyLasts
<1>7. CASE LandFetch
  <2>1. LandsFetch(client, client') BY <1>2, <1>7, LandFetchDoes
  <2>2. client.fetch.st # "none"
    <3> DEFINE c == Rendered(client)
    <3>1. c.fetch.st \in {"answered", "failed"} BY <1>7, Zenon DEF LandFetch
    <3>2. Changes(client, c, {"ref", "rendered"}) BY <1>2, RenderedSound
    <3> HIDE DEF c
    <3>3. c.fetch = client.fetch BY <3>2 DEF Changes, ClientFields
    <3> QED BY <3>1, <3>3
  <2> QED BY <1>1, <1>2, <2>1, <2>2, LandLasts
<1>8. CASE LandRefetch
  <2>1. Changes(client, client', {"ref", "rendered", "state", "refetch", "lost"}) BY <1>2, <1>8, LandRefetchDoes
  <2> QED BY <1>1, <1>3, <2>1
<1>9. CASE RefreshState
  <2>1. Changes(client, client', {"refetch"}) BY <1>2, <1>9, RefreshDoes
  <2> QED BY <1>1, <1>3, <2>1
<1>10. CASE LoadOlder BY <1>1, <1>10, LoadOlderLasts
<1>11. CASE OpenPage \/ ClosePage
  <2>1. /\ ~(client.selected /\ client'.selected)
        /\ client'.overlay = <<>> /\ client'.pages = client.pages /\ client'.fetch \in FirstFetches
        /\ client'.historyReq \in {None, Asked}
        /\ client'.syncing = "requests" => client'.fetch = NoFetch
    <3>1. CASE OpenPage
      <4>1. ~client.selected BY <3>1, Zenon DEF OpenPage
      <4> QED BY <1>2, <3>1, <4>1, OpenDoes
    <3>2. CASE ClosePage
      <4>1. /\ Sound(client') /\ client'.selected = FALSE /\ client'.historyReq = None
            /\ client'.pages = client.pages /\ client'.fetch \in FirstFetches /\ client'.overlay = <<>>
        BY <1>2, <3>2, CloseDoes
      <4>2. client'.syncing # "requests" BY <4>1 DEF Sound
      <4> QED BY <4>1, <4>2
    <3> QED BY <1>11, <3>1, <3>2
  <2> DEFINE c == client
             d == client'
             J == journal
  <2>2. /\ ~(c.selected /\ d.selected)
        /\ d.overlay = <<>> /\ d.fetch \in FirstFetches /\ d.historyReq \in {None, Asked}
        /\ d.syncing = "requests" => d.fetch = NoFetch
    BY <2>1
  <2> HIDE DEF c, d, J
  <2>3. d.fetch.older = FALSE /\ d.fetch.val = {} BY <2>2, NothingUnderway
  <2>4. d.historyReq.val = {} BY <2>2, SlotFields
  <2>5. Genuine(J, d.overlay)
    <3>1. DOMAIN d.overlay = {} BY <2>2
    <3> QED BY <3>1 DEF Genuine
  <2>6. Underway(J, d.pages, d.fetch) BY <2>3 DEF Underway
  <2>7. d.syncing = "requests" => d.fetch.st = "none" BY <2>2, NothingUnderway
  <2>8. Lasts(J, d) BY <2>4, <2>5, <2>6, <2>7 DEF Lasts
  <2>9. Shifts(J, c, d) BY <2>2, <2>8 DEF Shifts
  <2> QED BY <1>1, <2>9 DEF c, d, J
<1> QED BY <1>1, <1>4, <1>5, <1>6, <1>7, <1>8, <1>9, <1>10, <1>11 DEF ClientMovesOn, ClientSteps

(* At first the overlay is empty and nothing is under way.                 *)
LEMMA InitLasts == Init => Lasting
<1> SUFFICES ASSUME Init PROVE Lasting OBVIOUS
<1> DEFINE c == client
           J == journal
<1>1. c.overlay = <<>> /\ c.fetch = NoFetch /\ c.historyReq = None BY DEF Init
<1> HIDE DEF c, J
<1>2. Genuine(J, c.overlay)
  <2>1. DOMAIN c.overlay = {} BY <1>1
  <2> QED BY <2>1 DEF Genuine
<1>3. c.historyReq.val = {} BY <1>1, SlotFields
<1>4. Lasts(J, c) BY <1>1, <1>2, <1>3, NothingUnderway DEF Lasts
<1> QED BY <1>4 DEF Lasting, c, J

(* Every step is one of the client, or leaves it alone.                    *)
LEMMA StepsOf ==
  ASSUME Typed, [Next]_vars
  PROVE  ClientMovesOn \/ (client' = client /\ Extends(journal, journal'))
<1>1. ServerOK /\ JournalOK /\ StreamOK(wire) /\ socket \in {"up", "down"} BY DEF Typed
<1>2. journal' = journal => Extends(journal, journal') BY DEF Extends
<1>3. CASE ServerWrites
  <2>1. client' = client BY <1>1, <1>3, ServerTells
  <2>2. PICK es : Shares(es) BY <1>3, ServerShares
  <2>3. Extends(journal, journal') BY <2>2 DEF Shares, Covers
  <2> QED BY <2>1, <2>3
<1>4. CASE DropConnection \/ Reconnect
  <2>1. client' = client /\ journal' = journal BY <1>4, Zenon DEF DropConnection, Reconnect
  <2> QED BY <1>2, <2>1
<1>5. CASE UNCHANGED vars
  <2>1. client' = client /\ journal' = journal BY <1>5 DEF vars
  <2> QED BY <1>2, <2>1
<1> QED BY <1>3, <1>4, <1>5 DEF Next, ClientMovesOn

(* What is under way stays fit to replace what is shown.                   *)
LEMMA LastingHolds == Typed /\ Typed' /\ Keeping /\ Tracking /\ Lasting /\ [Next]_vars => Lasting'
<1> SUFFICES ASSUME Typed, Typed', Keeping, Tracking, Lasting, [Next]_vars PROVE Lasting' OBVIOUS
<1>1. CASE ClientMovesOn
  <2>1. journal' = journal /\ Shifts(journal, client, client') BY <1>1, ClientShifts
  <2> QED BY <2>1 DEF Shifts, Lasting
<1>2. CASE client' = client /\ Extends(journal, journal')
  <2>1. journal \in Seq(Records) /\ journal' \in Seq(Records) /\ Keeps(server, journal, client)
        /\ Lasts(journal, client)
    BY DEF Typed, JournalOK, Keeping, Lasting
  <2>2. Lasts(journal', client) BY <1>2, <2>1, LastsGrows
  <2> QED BY <1>2, <2>2 DEF Lasting
<1> QED BY <1>1, <1>2, StepsOf

(* A step that retains what is shown hides a record only behind an ending  *)
(* or the pages, or when it is more than a page old.                       *)
LEMMA RetainedIsShown ==
  ASSUME NEW J \in Seq(Records), NEW c, InPlace(c.overlay), Genuine(J, c.overlay), History(Records, J, c.pages),
         NEW d, InPlace(d.overlay), Genuine(J, d.overlay), History(Records, J, d.pages), TopPages(J, d.pages),
         Retains(c, d), NEW r \in ShownRecords(c.pages, c.overlay), NEW S, S = ShownRecords(d.pages, d.overlay)
  PROVE  \/ r \in S \/ r.seq < NextPageParam(d.pages)
         \/ r.type = "run_ended" \/ \E q \in S : q.seq = r.seq /\ q.type = "run_ended"
         \/ r \notin LoadedRecords(c.pages) /\ r.seq <= Len(J) - PageSize
<1> DEFINE a == HistoryNewestSeq(c.pages)
           g == HistoryNewestSeq(d.pages)
           o == c.overlay
           p == d.overlay
           L == LoadedRecords(c.pages)
           M == LoadedRecords(d.pages)
<1>1. /\ a \in 0..Len(J) /\ \A x \in L : x.seq <= a
      /\ g \in 0..Len(J)
  BY NewestIs
<1>2. r \in L \/ \E s \in DOMAIN o : s > a /\ r = o[s] BY DEF ShownRecords, LiveRecords
<1>3. S = M \cup {p[s] : s \in {q \in DOMAIN p : q > g}} BY DEF ShownRecords, LiveRecords
<1>4. Topped(J, M, g) BY DEF TopPages
<1>5. /\ \A x \in L : x \in M \/ x.seq < NextPageParam(d.pages)
      /\ \A s \in DOMAIN o : s > g /\ o[s].type # "run_ended" => s \in DOMAIN p
  BY DEF Retains
<1>6. PageSize \in Nat \ {0} /\ Len(J) \in Nat /\ DOMAIN J = 1..Len(J) BY BoundsAreNumbers
<1>7. /\ \A s \in DOMAIN o : o[s].seq = s /\ (Taken(o[s], J) \/ o[s].type = "run_ended")
      /\ \A s \in DOMAIN p : p[s].seq = s /\ (Taken(p[s], J) \/ p[s].type = "run_ended")
  BY DEF Genuine, InPlace
<1> HIDE DEF a, g, o, p, L, M
<1>8. CASE r \in L BY <1>3, <1>5, <1>8
<1>9. ASSUME NEW s \in DOMAIN o, s > a, r = o[s], r.type # "run_ended"
      PROVE  \/ r \in S \/ \E q \in S : q.seq = r.seq /\ q.type = "run_ended"
             \/ r \notin L /\ r.seq <= Len(J) - PageSize
  <2>1. r.seq = s /\ s \in DOMAIN J /\ J[s] = r BY <1>7, <1>9 DEF Taken
  <2>2. CASE s > g
    <3>1. s \in DOMAIN p BY <1>5, <1>9, <2>2
    <3>2. p[s] \in S BY <1>3, <2>2, <3>1
    <3>3. p[s] = r \/ (p[s].seq = r.seq /\ p[s].type = "run_ended") BY <1>7, <2>1, <3>1 DEF Taken
    <3> QED BY <3>2, <3>3
  <2>3. CASE ~(s > g) /\ s > g - PageSize BY <1>1, <1>3, <1>4, <1>6, <2>1, <2>3 DEF Topped
  <2>4. CASE ~(s > g) /\ ~(s > g - PageSize)
    <3>1. r.seq <= Len(J) - PageSize BY <1>1, <1>6, <2>1, <2>4
    <3>2. r \notin L BY <1>1, <1>6, <1>9, <2>1
    <3> QED BY <3>1, <3>2
  <2> QED BY <2>2, <2>3, <2>4
<1> QED BY <1>2, <1>8, <1>9 DEF L

(* A step keeps showing what it does not put out of reach.                 *)
LEMMA StepKeepsShowing ==
  ASSUME Typed, Typed', Keeping, Keeping', Tracking, Tracking', Lasting, Lasting', [Next]_vars,
         client.selected, client'.selected, "history" \notin client'.lost, NEW r \in Shown
  PROVE  \/ r \in Shown' \/ r.seq < NextPageParam(client'.pages)
         \/ r.type = "run_ended" \/ \E q \in Shown' : q.seq = r.seq /\ q.type = "run_ended"
         \/ r \notin LoadedRecords(client.pages) /\ r.seq <= Len(journal) - PageSize
<1>1. CASE client' = client BY <1>1 DEF Shown
<1>2. CASE ClientMovesOn
  <2>1. journal' = journal /\ Shifts(journal, client, client') BY <1>2, ClientShifts
  <2> DEFINE c == client
             d == client'
             J == journal
             S == Shown'
  <2>2. Retains(c, d) BY <2>1 DEF Shifts
  <2>3. /\ J \in Seq(Records) /\ InPlace(c.overlay) /\ Genuine(J, c.overlay) /\ History(Records, J, c.pages)
    BY DEF Typed, JournalOK, Sound, Lasting, Lasts, Keeping, Keeps
  <2>4. InPlace(d.overlay) BY DEF Typed, Sound
  <2>5. Genuine(J, d.overlay) BY <2>1 DEF Lasting, Lasts
  <2>6. History(Records, J, d.pages) /\ TopPages(J, d.pages) BY <2>1 DEF Keeping, Keeps, Tracking, Holds
  <2>7. r \in ShownRecords(c.pages, c.overlay) /\ S = ShownRecords(d.pages, d.overlay) BY DEF Shown
  <2> HIDE DEF c, d, J, S
  <2>8. \/ r \in S \/ r.seq < NextPageParam(d.pages)
        \/ r.type = "run_ended" \/ \E q \in S : q.seq = r.seq /\ q.type = "run_ended"
        \/ r \notin LoadedRecords(c.pages) /\ r.seq <= Len(J) - PageSize
    BY <2>2, <2>3, <2>4, <2>5, <2>6, <2>7, RetainedIsShown
  <2> QED BY <2>8 DEF c, d, J, S
<1> QED BY <1>1, <1>2, StepsOf

(* A record once shown stays shown as long as the page is open, or can be  *)
(* scrolled back to, whatever is merged, pruned, refetched and replayed    *)
(* (mergeHistoryPages, startResync, replaceOverlay), but for an ending,    *)
(* whose number the client guesses, a record of the stream more than a     *)
(* page old, and an older history that lands over a newer one.             *)
THEOREM ShownStays == Spec => KeepsShowing
<1>1. Init => Keeping /\ Tracking /\ Lasting BY InitKeeps, InitTracks, InitLasts
<1>2. Typed /\ Keeping /\ [Next]_vars => Keeping' BY KeepingHolds
<1>3. Typed /\ Keeping /\ Tracking /\ [Next]_vars => Tracking' BY TrackingHolds
<1>4. Typed /\ Typed' /\ Keeping /\ Tracking /\ Lasting /\ [Next]_vars => Lasting' BY LastingHolds
<1>5. Typed /\ Typed' /\ Keeping /\ Keeping' /\ Tracking /\ Tracking' /\ Lasting /\ Lasting' /\ [Next]_vars =>
        [client.selected /\ client'.selected /\ "history" \notin client'.lost =>
           \A r \in Shown :
             \/ r \in Shown' \/ r.seq < NextPageParam(client'.pages)
             \/ r.type = "run_ended" \/ \E q \in Shown' : q.seq = r.seq /\ q.type = "run_ended"
             \/ r \notin LoadedRecords(client.pages) /\ r.seq <= Len(journal) - PageSize]_vars
  BY StepKeepsShowing
<1> QED BY <1>1, <1>2, <1>3, <1>4, <1>5, TypedInvariant, PTL DEF Spec, KeepsShowing
=============================================================================
