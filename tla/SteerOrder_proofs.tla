------------------------- MODULE SteerOrder_proofs -------------------------
(***************************************************************************)
(* The order of the steers, for every value of the constants: those a user *)
(* sent to one Run are activated in the order in which they were recorded. *)
(*                                                                         *)
(* A steer waits in the control of its Run, then among the fallbacks, then *)
(* with a promotion that wants to write.  The proof says which of two      *)
(* waiting steers is ahead of the other, shows that this is the order of   *)
(* their records, and that no step but an activation of the first changes  *)
(* it.  What makes it true is that the journal lock is served first come,  *)
(* first served (journal/session.py), which the second part is about.      *)
(***************************************************************************)
EXTENDS Conservation_proofs

(* Who is ahead of whom after an append.                                   *)
LEMMA AheadAppend ==
  ASSUME NEW S, NEW s \in Seq(S), NEW e \in S, NEW i, NEW j
  PROVE  Ahead(Append(s, e), i, j) <=> Ahead(s, i, j) \/ (Occurs(i, s) /\ j = e)
<1>1. /\ Append(s, e) \in Seq(S) /\ Len(Append(s, e)) = Len(s) + 1
      /\ \A k \in 1 .. Len(s) : Append(s, e)[k] = s[k]
      /\ Append(s, e)[Len(s) + 1] = e /\ Len(s) \in Nat
  BY AppendProperties
<1>2. DOMAIN Append(s, e) = 1 .. Len(s) + 1 /\ DOMAIN s = 1 .. Len(s)
  BY <1>1
<1>3. ASSUME Ahead(Append(s, e), i, j)
      PROVE  Ahead(s, i, j) \/ (Occurs(i, s) /\ j = e)
  <2>1. PICK m, n \in 1 .. Len(s) + 1 :
          m < n /\ Append(s, e)[m] = i /\ Append(s, e)[n] = j
    BY <1>2, <1>3 DEF Ahead
  <2>2. m \in 1 .. Len(s) /\ s[m] = i BY <1>1, <2>1
  <2>3. CASE n = Len(s) + 1 BY <1>1, <1>2, <2>1, <2>2, <2>3 DEF Occurs
  <2>4. CASE n # Len(s) + 1
    <3>1. n \in 1 .. Len(s) /\ s[n] = j BY <1>1, <2>1, <2>4
    <3> QED BY <1>2, <2>1, <2>2, <3>1 DEF Ahead
  <2> QED BY <2>3, <2>4
<1>4. ASSUME Ahead(s, i, j) PROVE Ahead(Append(s, e), i, j)
  <2>1. PICK m, n \in 1 .. Len(s) : m < n /\ s[m] = i /\ s[n] = j
    BY <1>2, <1>4 DEF Ahead
  <2> QED BY <1>1, <1>2, <2>1 DEF Ahead
<1>5. ASSUME Occurs(i, s), j = e PROVE Ahead(Append(s, e), i, j)
  <2>1. PICK m \in 1 .. Len(s) : s[m] = i BY <1>2, <1>5 DEF Occurs
  <2>2. m < Len(s) + 1 /\ m \in 1 .. Len(s) + 1 /\ Len(s) + 1 \in 1 .. Len(s) + 1
    BY <1>1
  <2> QED BY <1>1, <1>2, <1>5, <2>1, <2>2 DEF Ahead
<1> QED BY <1>3, <1>4, <1>5

(* In a concatenation.                                                     *)
LEMMA AheadConcat ==
  ASSUME NEW S, NEW s \in Seq(S), NEW t \in Seq(S), NEW i, NEW j
  PROVE  Ahead(s \o t, i, j) <=>
           Ahead(s, i, j) \/ Ahead(t, i, j) \/ (Occurs(i, s) /\ Occurs(j, t))
<1>1. /\ s \o t \in Seq(S) /\ Len(s \o t) = Len(s) + Len(t)
      /\ \A k \in 1 .. Len(s) + Len(t) :
           (s \o t)[k] = IF k <= Len(s) THEN s[k] ELSE t[k - Len(s)]
      /\ Len(s) \in Nat /\ Len(t) \in Nat
  BY ConcatProperties
<1>2. /\ DOMAIN (s \o t) = 1 .. Len(s) + Len(t)
      /\ DOMAIN s = 1 .. Len(s) /\ DOMAIN t = 1 .. Len(t)
  BY <1>1
<1>3. /\ \A k \in 1 .. Len(s) : (s \o t)[k] = s[k] /\ k \in DOMAIN (s \o t)
      /\ \A k \in 1 .. Len(t) : /\ (s \o t)[k + Len(s)] = t[k]
                                /\ k + Len(s) \in DOMAIN (s \o t)
  <2>1. ASSUME NEW k \in 1 .. Len(t)
        PROVE  (s \o t)[k + Len(s)] = t[k] /\ k + Len(s) \in DOMAIN (s \o t)
    <3>1. /\ k + Len(s) \in 1 .. Len(s) + Len(t) /\ ~(k + Len(s) <= Len(s))
          /\ (k + Len(s)) - Len(s) = k
      BY <1>1
    <3> QED BY <1>1, <1>2, <3>1
  <2> QED BY <1>1, <1>2, <2>1
<1>4. ASSUME Ahead(s, i, j) PROVE Ahead(s \o t, i, j)
  BY <1>2, <1>3, <1>4 DEF Ahead
<1>5. ASSUME Ahead(t, i, j) PROVE Ahead(s \o t, i, j)
  <2>1. PICK m, n \in 1 .. Len(t) : m < n /\ t[m] = i /\ t[n] = j
    BY <1>2, <1>5 DEF Ahead
  <2>2. m + Len(s) < n + Len(s) BY <1>1, <2>1
  <2> QED BY <1>3, <2>1, <2>2 DEF Ahead
<1>6. ASSUME Occurs(i, s), Occurs(j, t) PROVE Ahead(s \o t, i, j)
  <2>1. PICK m \in 1 .. Len(s), n \in 1 .. Len(t) : s[m] = i /\ t[n] = j
    BY <1>2, <1>6 DEF Occurs
  <2>2. m < n + Len(s) BY <1>1, <2>1
  <2> QED BY <1>3, <2>1, <2>2 DEF Ahead
<1>7. ASSUME Ahead(s \o t, i, j)
      PROVE  Ahead(s, i, j) \/ Ahead(t, i, j) \/ (Occurs(i, s) /\ Occurs(j, t))
  <2>1. PICK m, n \in 1 .. Len(s) + Len(t) :
          m < n /\ (s \o t)[m] = i /\ (s \o t)[n] = j
    BY <1>2, <1>7 DEF Ahead
  <2>2. CASE n <= Len(s)
    <3>1. /\ m \in 1 .. Len(s) /\ n \in 1 .. Len(s) /\ m <= Len(s)
      BY <1>1, <2>1, <2>2
    <3>2. s[m] = i /\ s[n] = j BY <1>3, <2>1, <3>1
    <3> QED BY <1>2, <2>1, <3>1, <3>2 DEF Ahead
  <2>3. CASE m > Len(s)
    <3>1. /\ m - Len(s) \in 1 .. Len(t) /\ n - Len(s) \in 1 .. Len(t)
          /\ m - Len(s) < n - Len(s) /\ ~(m <= Len(s)) /\ ~(n <= Len(s))
      BY <1>1, <2>1, <2>3
    <3>2. t[m - Len(s)] = i /\ t[n - Len(s)] = j BY <1>1, <2>1, <3>1
    <3> QED BY <1>2, <3>1, <3>2 DEF Ahead
  <2>4. CASE m <= Len(s) /\ n > Len(s)
    <3>1. m \in 1 .. Len(s) /\ n - Len(s) \in 1 .. Len(t) /\ ~(n <= Len(s))
      BY <1>1, <2>1, <2>4
    <3>2. s[m] = i /\ t[n - Len(s)] = j BY <1>1, <2>1, <2>4, <3>1
    <3> QED BY <1>2, <3>1, <3>2 DEF Occurs
  <2> QED BY <1>1, <2>1, <2>2, <2>3, <2>4
<1> QED BY <1>4, <1>5, <1>6, <1>7

(* By head and tail.                                                       *)
LEMMA AheadTail ==
  ASSUME NEW S, NEW s \in Seq(S), s # <<>>, NEW i, NEW j
  PROVE  Ahead(s, i, j) <=>
           Ahead(Tail(s), i, j) \/ (i = Head(s) /\ Occurs(j, Tail(s)))
<1>1. /\ Tail(s) \in Seq(S) /\ Len(Tail(s)) = Len(s) - 1
      /\ \A k \in 1 .. Len(Tail(s)) : Tail(s)[k] = s[k + 1]
      /\ Len(s) \in Nat \ {0} /\ Head(s) = s[1]
  BY HeadTailProperties, EmptySeq
<1>2. DOMAIN Tail(s) = 1 .. Len(s) - 1 /\ DOMAIN s = 1 .. Len(s) BY <1>1
<1>3. ASSUME Ahead(s, i, j)
      PROVE  Ahead(Tail(s), i, j) \/ (i = Head(s) /\ Occurs(j, Tail(s)))
  <2>1. PICK m, n \in 1 .. Len(s) : m < n /\ s[m] = i /\ s[n] = j
    BY <1>2, <1>3 DEF Ahead
  <2>2. n - 1 \in 1 .. Len(s) - 1 /\ Tail(s)[n - 1] = j
    BY <1>1, <2>1
  <2>3. CASE m = 1 BY <1>1, <1>2, <2>1, <2>2, <2>3 DEF Occurs
  <2>4. CASE m # 1
    <3>1. m - 1 \in 1 .. Len(s) - 1 /\ Tail(s)[m - 1] = i /\ m - 1 < n - 1
      BY <1>1, <2>1, <2>4
    <3> QED BY <1>2, <2>2, <3>1 DEF Ahead
  <2> QED BY <2>3, <2>4
<1>4. ASSUME Ahead(Tail(s), i, j) PROVE Ahead(s, i, j)
  <2>1. PICK m, n \in 1 .. Len(s) - 1 : m < n /\ Tail(s)[m] = i /\ Tail(s)[n] = j
    BY <1>2, <1>4 DEF Ahead
  <2>2. /\ m + 1 \in 1 .. Len(s) /\ n + 1 \in 1 .. Len(s) /\ m + 1 < n + 1
        /\ s[m + 1] = i /\ s[n + 1] = j
    BY <1>1, <2>1
  <2> QED BY <1>2, <2>2 DEF Ahead
<1>5. ASSUME i = Head(s), Occurs(j, Tail(s)) PROVE Ahead(s, i, j)
  <2>1. PICK n \in 1 .. Len(s) - 1 : Tail(s)[n] = j BY <1>2, <1>5 DEF Occurs
  <2>2. /\ n + 1 \in 1 .. Len(s) /\ 1 \in 1 .. Len(s) /\ 1 < n + 1
        /\ s[n + 1] = j /\ s[1] = i
    BY <1>1, <1>5, <2>1
  <2> QED BY <1>2, <2>2 DEF Ahead
<1> QED BY <1>3, <1>4, <1>5

(* Two entries of a sequence, one is ahead of the other.                   *)
LEMMA AheadTotal ==
  ASSUME NEW S, NEW s \in Seq(S), NEW i, NEW j, Occurs(i, s), Occurs(j, s), i # j
  PROVE  Ahead(s, i, j) \/ Ahead(s, j, i)
<1>1. PICK m, n \in 1 .. Len(s) : s[m] = i /\ s[n] = j
  BY DEF Occurs
<1>2. Len(s) \in Nat BY LenProperties
<1>3. m < n \/ n < m BY <1>1, <1>2
<1> QED BY <1>1, <1>3 DEF Ahead

(* And not the other way round if none occurs twice.                       *)
LEMMA AheadOnce ==
  ASSUME NEW S, NEW s \in Seq(S), NEW i, NEW j, Ahead(s, i, j)
  PROVE  /\ Occurs(i, s) /\ Occurs(j, s)
         /\ IsInjective(s) => i # j /\ ~Ahead(s, j, i)
<1>1. PICK m, n \in 1 .. Len(s) : m < n /\ s[m] = i /\ s[n] = j BY DEF Ahead
<1>2. Occurs(i, s) /\ Occurs(j, s) BY <1>1 DEF Occurs
<1>3. ASSUME IsInjective(s) PROVE i # j /\ ~Ahead(s, j, i)
  <2>1. \A a, b \in 1 .. Len(s) : s[a] = s[b] => a = b
    BY <1>3 DEF IsInjective
  <2>2. i # j BY <1>1, <2>1
  <2>3. ASSUME NEW a \in 1 .. Len(s), NEW b \in 1 .. Len(s), a < b,
               s[a] = j, s[b] = i
        PROVE  FALSE
    <3>1. a = n /\ b = m BY <1>1, <2>1, <2>3
    <3>2. Len(s) \in Nat BY LenProperties
    <3> QED BY <1>1, <2>3, <3>1, <3>2
  <2> QED BY <2>2, <2>3 DEF Ahead
<1> QED BY <1>2, <1>3

(* Taking an entry out leaves the others in their order.                   *)
LEMMA AheadWithout ==
  ASSUME NEW S, NEW s \in Seq(S), NEW e, NEW i, NEW j, Ahead(Without(s, e), i, j)
  PROVE  Ahead(s, i, j)
<1>1. CASE ~\E k \in DOMAIN s : s[k] = e
  BY <1>1 DEF Without
<1>2. CASE \E k \in DOMAIN s : s[k] = e
  <2>1. PICK k \in 1 .. Len(s) : k = CHOOSE n \in DOMAIN s : s[n] = e
    BY <1>2
  <2> DEFINE a == SubSeq(s, 1, k - 1)
             b == SubSeq(s, k + 1, Len(s))
  <2>2. /\ a \in Seq(S) /\ Len(a) = k - 1
        /\ \A n \in 1 .. k - 1 : a[n] = s[n]
    <3>1. \A n \in 1 .. k - 1 : s[n] \in S OBVIOUS
    <3> QED BY <3>1, SubSeqProperties
  <2>3. /\ b \in Seq(S) /\ Len(b) = Len(s) - k
        /\ \A n \in 1 .. Len(s) - k : b[n] = s[k + n]
    <3>1. \A n \in k + 1 .. Len(s) : s[n] \in S OBVIOUS
    <3> QED BY <3>1, SubSeqProperties
  <2>4. Without(s, e) = a \o b BY <1>2, <2>1 DEF Without, RemoveAt
  <2> HIDE DEF a, b
  <2>5. /\ DOMAIN a = 1 .. k - 1 /\ DOMAIN b = 1 .. Len(s) - k
        /\ DOMAIN s = 1 .. Len(s) /\ Len(s) \in Nat
    BY <2>2, <2>3
  <2>6. Ahead(a, i, j) \/ Ahead(b, i, j) \/ (Occurs(i, a) /\ Occurs(j, b))
    BY <2>2, <2>3, <2>4, AheadConcat
  <2>7. CASE Ahead(a, i, j)
    BY <2>1, <2>2, <2>5, <2>7 DEF Ahead
  <2>8. CASE Ahead(b, i, j)
    <3>1. PICK m, n \in 1 .. Len(s) - k : m < n /\ b[m] = i /\ b[n] = j
      BY <2>5, <2>8 DEF Ahead
    <3>2. /\ k + m \in 1 .. Len(s) /\ k + n \in 1 .. Len(s) /\ k + m < k + n
          /\ s[k + m] = i /\ s[k + n] = j
      BY <2>3, <2>5, <3>1
    <3> QED BY <2>5, <3>2 DEF Ahead
  <2>9. CASE Occurs(i, a) /\ Occurs(j, b)
    <3>1. PICK m \in 1 .. k - 1, n \in 1 .. Len(s) - k : a[m] = i /\ b[n] = j
      BY <2>5, <2>9 DEF Occurs
    <3>2. /\ m \in 1 .. Len(s) /\ k + n \in 1 .. Len(s) /\ m < k + n
      BY <2>5
    <3>3. s[m] = i /\ s[k + n] = j BY <2>2, <2>3, <3>1
    <3> QED BY <2>5, <3>2, <3>3 DEF Ahead
  <2> QED BY <2>6, <2>7, <2>8, <2>9
<1> QED BY <1>1, <1>2

(* Taking the first entry out of a sequence without duplicates is taking   *)
(* its head off.                                                           *)
LEMMA WithoutHead ==
  ASSUME NEW S, NEW s \in Seq(S), s # <<>>, IsInjective(s)
  PROVE  Without(s, Head(s)) = Tail(s)
<1>1. /\ Tail(s) \in Seq(S) /\ Len(Tail(s)) = Len(s) - 1
      /\ \A k \in 1 .. Len(Tail(s)) : Tail(s)[k] = s[k + 1]
      /\ Len(s) \in Nat \ {0} /\ Head(s) = s[1]
  BY HeadTailProperties, EmptySeq
<1> DEFINE k == CHOOSE n \in DOMAIN s : s[n] = Head(s)
<1>2. 1 \in DOMAIN s /\ s[1] = Head(s) BY <1>1
<1>3. k \in DOMAIN s /\ s[k] = Head(s) BY <1>2
<1>4. k = 1 BY <1>2, <1>3 DEF IsInjective
<1> HIDE DEF k
<1>5. Without(s, Head(s)) = SubSeq(s, 1, 0) \o SubSeq(s, 2, Len(s))
  <2>1. Without(s, Head(s)) = RemoveAt(s, k) BY <1>2 DEF Without, k
  <2>2. k - 1 = 0 /\ k + 1 = 2 BY <1>4
  <2> QED BY <2>1, <2>2 DEF RemoveAt
<1> DEFINE a == SubSeq(s, 1, 0)
           b == SubSeq(s, 2, Len(s))
<1>6. a \in Seq(S) /\ Len(a) = 0
  <2>1. \A n \in 1 .. 0 : s[n] \in S OBVIOUS
  <2> QED BY <2>1, SubSeqProperties
<1>7. b \in Seq(S) /\ Len(b) = Len(s) - 1 /\ \A n \in 1 .. Len(s) - 1 : b[n] = s[n + 1]
  <2>1. \A n \in 2 .. Len(s) : s[n] \in S BY ElementOfSeq
  <2> HIDE DEF b
  <2>2. /\ b \in Seq(S)
        /\ Len(b) = IF 2 <= Len(s) THEN Len(s) - 2 + 1 ELSE 0
        /\ \A n \in 1 .. Len(s) - 2 + 1 : b[n] = s[2 + n - 1]
    BY <1>1, <2>1, SubSeqProperties DEF b
  <2>3. Len(b) = Len(s) - 1
    <3>1. PICK l \in Nat \ {0} : l = Len(s) BY <1>1
    <3>2. Len(b) = IF 2 <= l THEN l - 2 + 1 ELSE 0 BY <2>2, <3>1
    <3>3. Len(b) = l - 1 BY <3>2
    <3> QED BY <3>1, <3>3
  <2>4. ASSUME NEW n \in 1 .. Len(s) - 1 PROVE b[n] = s[n + 1]
    <3>1. n \in 1 .. Len(s) - 2 + 1 /\ 2 + n - 1 = n + 1 BY <1>1
    <3> QED BY <2>2, <3>1
  <2> QED BY <2>2, <2>3, <2>4
<1> HIDE DEF a, b
<1>8. a = <<>> BY <1>6, EmptySeq
<1>9. a \o b = b BY <1>7, <1>8, ConcatEmptySeq
<1>10. b = Tail(s)
  BY <1>1, <1>7, SeqEqual
<1> QED BY <1>5, <1>9, <1>10 DEF a, b

-----------------------------------------------------------------------------
(* The journal lock.                                                       *)

Writing == Shielded \cup {"recording"}

(* The tasks that wait for the lock are those in the middle of a write,    *)
(* each once.                                                              *)
LockSound ==
  /\ IsInjective(writers)
  /\ \A t \in Tasks : Occurs(t, writers) <=> pc[t] \in Writing

(* Task t joins the lock queue at its end, or leaves it; from one write it *)
(* goes on to another only to record that its steers are discarded.        *)
LockMoves(t) ==
  /\ \A u \in Tasks \ {t} : pc'[u] \in Writing <=> pc[u] \in Writing
  /\ \/ writers' = writers /\ (pc'[t] \in Writing <=> pc[t] \in Writing)
     \/ writers' = Without(writers, t) /\ pc'[t] \notin Writing
     \/ /\ writers' = Append(Without(writers, t), t) /\ pc'[t] \in Writing
        /\ pc[t] \notin Writing \/ pc'[t] \in {"abandoning", "discarding"}

(* Who waits already stays ahead of those who come later.                  *)
LockKeeps ==
  \A u, v \in Tasks : Ahead(writers', u, v) =>
    /\ pc[u] \in Writing
    /\ \/ Ahead(writers, u, v) \/ pc[v] \notin Writing
       \/ pc'[v] \in {"abandoning", "discarding"}

(* A move of one task keeps the lock queue fair.                           *)
LEMMA LockMoved ==
  ASSUME TypeOK, LockSound, NEW t \in Tasks, LockMoves(t)
  PROVE  LockSound' /\ LockKeeps
<1>1. writers \in Seq(Tasks) BY DEF TypeOK, StateTypes
<1> DEFINE w == Without(writers, t)
<1>2. /\ w \in Seq(Tasks) /\ IsInjective(w)
      /\ \A u \in Tasks : Occurs(u, w) <=> Occurs(u, writers) /\ u # t
  BY <1>1, WithoutEntry, WithoutType DEF LockSound
<1>3. \A u, v : Ahead(w, u, v) => Ahead(writers, u, v)
  BY <1>1, AheadWithout
<1>4. \A u, v \in Tasks : Ahead(writers, u, v) => pc[u] \in Writing
  BY <1>1, AheadOnce DEF LockSound
<1>5. CASE writers' = writers /\ (pc'[t] \in Writing <=> pc[t] \in Writing)
  <2>1. \A u \in Tasks : pc'[u] \in Writing <=> pc[u] \in Writing
    BY <1>5 DEF LockMoves
  <2> QED BY <1>4, <1>5, <2>1 DEF LockSound, LockKeeps
<1>6. CASE writers' = w /\ pc'[t] \notin Writing
  <2>1. LockSound' BY <1>2, <1>6 DEF LockSound, LockMoves
  <2>2. LockKeeps BY <1>3, <1>4, <1>6 DEF LockKeeps
  <2> QED BY <2>1, <2>2
<1>7. CASE /\ writers' = Append(w, t) /\ pc'[t] \in Writing
           /\ pc[t] \notin Writing \/ pc'[t] \in {"abandoning", "discarding"}
  <2>1. ~Occurs(t, w) BY <1>2
  <2> HIDE DEF w
  <2>2. IsInjective(writers') BY <1>2, <1>7, <2>1, InjectiveAppend
  <2>3. \A u \in Tasks : Occurs(u, writers') <=> Occurs(u, w) \/ u = t
    BY <1>2, <1>7, OccursAppend
  <2>4. \A u \in Tasks : Occurs(u, writers') <=> pc'[u] \in Writing
    BY <1>2, <1>7, <2>3 DEF LockSound, LockMoves
  <2>5. ASSUME NEW u \in Tasks, NEW v \in Tasks, Ahead(writers', u, v)
        PROVE  /\ pc[u] \in Writing
               /\ \/ Ahead(writers, u, v) \/ pc[v] \notin Writing
                  \/ pc'[v] \in {"abandoning", "discarding"}
    <3>1. Ahead(w, u, v) \/ (Occurs(u, w) /\ v = t)
      BY <1>2, <1>7, <2>5, AheadAppend
    <3>2. CASE Ahead(w, u, v) BY <1>3, <1>4, <3>2
    <3>3. CASE Occurs(u, w) /\ v = t BY <1>2, <1>7, <3>3 DEF LockSound
    <3> QED BY <3>1, <3>2, <3>3
  <2> QED BY <2>2, <2>4, <2>5 DEF LockSound, LockKeeps
<1> QED BY <1>5, <1>6, <1>7 DEF LockMoves

(* What the lock queue is without one of its tasks.                        *)
LEMMA LockLeft ==
  ASSUME TypeOK, LockSound, NEW t \in Tasks
  PROVE  /\ pc[t] \notin Writing => Without(writers, t) = writers
         /\ MyTurn(t) => Without(writers, t) = Unread
<1>1. writers \in Seq(Tasks) BY DEF TypeOK, StateTypes
<1>2. ASSUME pc[t] \notin Writing PROVE Without(writers, t) = writers
  <2>1. ~Occurs(t, writers) BY <1>2 DEF LockSound
  <2> QED BY <2>1 DEF Occurs, Without
<1>3. ASSUME MyTurn(t) PROVE Without(writers, t) = Unread
  BY <1>1, <1>3, WithoutHead DEF MyTurn, Unread, LockSound
<1> QED BY <1>2, <1>3

(* One task moves to another await.                                        *)
LEMMA OneMoves ==
  ASSUME TypeOK, NEW t \in Tasks, NEW at, pc' = [pc EXCEPT ![t] = at],
         \/ writers' = writers /\ (at \in Writing <=> pc[t] \in Writing)
         \/ writers' = Without(writers, t) /\ at \notin Writing
         \/ /\ writers' = Append(Without(writers, t), t) /\ at \in Writing
            /\ pc[t] \notin Writing \/ at \in {"abandoning", "discarding"}
  PROVE  LockMoves(t)
<1>1. pc'[t] = at /\ \A u \in Tasks \ {t} : pc'[u] = pc[u]
  BY DEF TypeOK, ControlPoints
<1> QED BY <1>1 DEF LockMoves

(* Nothing moves.                                                          *)
LEMMA NoneMoves ==
  ASSUME pc' = pc, writers' = writers, NEW t \in Tasks
  PROVE  LockMoves(t)
BY DEF LockMoves

(* The cleanup of a Run waits for the lock only to discard.                *)
LEMMA SettledMoves ==
  ASSUME TypeOK, NEW r \in Runs, NEW rec, NEW w, w = Without(writers, r),
         NEW st, Settle(r, rec, w) \/ Conclude(r, st, rec, w)
  PROVE  LockMoves(r)
<1>1. r \in Tasks BY DEF Tasks, Hosts
<1>2. ASSUME NEW x, Settle(r, x, w)
      PROVE  \/ /\ pc' = [pc EXCEPT ![r] = "ending"] \/ pc' = [pc EXCEPT ![r] = "aborted"]
                /\ writers' = w
             \/ pc' = [pc EXCEPT ![r] = "discarding"] /\ writers' = Append(w, r)
  BY <1>2 DEF Settle, Goto
<1>3. \/ /\ \/ pc' = [pc EXCEPT ![r] = "ending"] \/ pc' = [pc EXCEPT ![r] = "aborted"]
            \/ pc' = [pc EXCEPT ![r] = "waiting"]
         /\ writers' = w
      \/ pc' = [pc EXCEPT ![r] = "discarding"] /\ writers' = Append(w, r)
  BY <1>2 DEF Conclude, Goto
<1>4. /\ "ending" \notin Writing /\ "aborted" \notin Writing
      /\ "waiting" \notin Writing /\ "discarding" \in Writing
  BY DEF Writing, Shielded
<1> QED BY <1>1, <1>3, <1>4, OneMoves

(* The steps of a Run before its tail.                                     *)
LEMMA RunStepMoves ==
  ASSUME TypeOK, LockSound, NEW r \in Runs,
         RunStep(r) \/ AgentFails(r) \/ ApprovalReturns(r), ~RunEndNotified(r)
  PROVE  LockMoves(r)
<1> USE DEF Goto
<1>1. r \in Tasks BY DEF Tasks, Hosts
<1>2. /\ pc[r] \notin Writing => Without(writers, r) = writers
      /\ MyTurn(r) => Without(writers, r) = Unread
  BY <1>1, LockLeft
<1>3. ASSUME NEW at, pc' = [pc EXCEPT ![r] = at], writers' = writers,
             at \notin Writing, pc[r] \notin Writing
      PROVE  LockMoves(r)
  BY <1>1, <1>3, OneMoves
<1>4. ASSUME NEW at, pc' = [pc EXCEPT ![r] = at], writers' = Append(writers, r),
             at \in Writing, pc[r] \notin Writing
      PROVE  LockMoves(r)
  BY <1>1, <1>2, <1>4, OneMoves
<1>5. ASSUME NEW at, pc' = [pc EXCEPT ![r] = at], writers' = Unread, MyTurn(r),
             at \notin Writing
      PROVE  LockMoves(r)
  BY <1>1, <1>2, <1>5, OneMoves
<1>6. ASSUME NEW rec, NEW st, Conclude(r, st, rec, Unread), MyTurn(r)
      PROVE  LockMoves(r)
  BY <1>2, <1>6, SettledMoves
<1>7. ASSUME NEW rec, NEW st,
             Settle(r, rec, writers) \/ Conclude(r, st, rec, writers),
             pc[r] \notin Writing
      PROVE  LockMoves(r)
  BY <1>2, <1>7, SettledMoves
<1>a. CASE CancelCallback(r)
  BY <1>1, <1>a, NoneMoves DEF CancelCallback
<1>b. CASE FirstStep(r)
  BY <1>3, <1>4, <1>b DEF FirstStep, Writing, Shielded
<1>c. CASE NeverStarted(r) \/ CleanupInterrupted(r) \/ RunEndInterrupted(r)
  BY <1>3, <1>c
  DEF NeverStarted, CleanupInterrupted, RunEndInterrupted, Writing, Shielded
<1>d. CASE UserMessageRecorded(r)
  <2>1. MyTurn(r) BY <1>d DEF UserMessageRecorded, Written, WriteFails
  <2>2. \/ \E rec, st : Conclude(r, st, rec, Unread)
        \/ pc' = [pc EXCEPT ![r] = "agent"] /\ writers' = Unread
    BY <1>d DEF UserMessageRecorded
  <2>3. "agent" \notin Writing BY DEF Writing, Shielded
  <2> QED BY <1>5, <1>6, <2>1, <2>2, <2>3
<1>e. CASE GateOpens(r)
  <2>1. /\ pc[r] = "gated"
        /\ \/ \E rec, st : Conclude(r, st, rec, writers)
           \/ pc' = [pc EXCEPT ![r] = "agent"] /\ writers' = writers
    BY <1>e DEF GateOpens
  <2>2. "agent" \notin Writing /\ "gated" \notin Writing BY DEF Writing, Shielded
  <2> QED BY <1>3, <1>7, <2>1, <2>2
<1>f. CASE StreamEnds(r) \/ ApprovalReturns(r)
  BY <1>3, <1>f DEF StreamEnds, ApprovalReturns, Writing, Shielded
<1>g. CASE BoundaryEmpty(r) \/ StagingRefused(r)
  <2>1. /\ writers' = writers /\ pc[r] \in {"boundary", "resuming"}
        /\ \/ pc' = [pc EXCEPT ![r] = "agent"]
           \/ pc' = [pc EXCEPT ![r] = "closing"]
    BY <1>g DEF BoundaryEmpty, StagingRefused, Leave, AtBoundary
  <2> QED BY <1>3, <2>1 DEF Writing, Shielded
<1>h. CASE StageSteers(r)
  BY <1>4, <1>h DEF StageSteers, AtBoundary, Writing, Shielded
<1>i. CASE SteersActivated(r)
  <2>1. MyTurn(r) BY <1>i DEF SteersActivated, Written, WriteFails
  <2>2. \/ \E rec, st : Conclude(r, st, rec, Unread)
        \/ pc' = [pc EXCEPT ![r] = "agent"] /\ writers' = Unread
    BY <1>i DEF SteersActivated
  <2>3. "agent" \notin Writing BY DEF Writing, Shielded
  <2> QED BY <1>5, <1>6, <2>1, <2>2, <2>3
<1>j. CASE LoopCompletes(r) \/ AgentFails(r)
  <2>1. \E rec, st : Conclude(r, st, rec, writers)
    BY <1>j DEF LoopCompletes, AgentFails
  <2>2. pc[r] \notin Writing
    BY <1>j DEF LoopCompletes, AgentFails, AtBoundary, Writing, Shielded
  <2> QED BY <1>7, <2>1, <2>2
<1>k. CASE RunCancelled(r)
  BY <1>k, SettledMoves DEF RunCancelled
<1>l. CASE SubmissionsReady(r)
  <2>1. pc[r] \notin Writing BY <1>l DEF SubmissionsReady, Writing, Shielded
  <2> QED BY <1>7, <1>l, <2>1 DEF SubmissionsReady
<1>m. CASE DiscardRecorded(r)
  BY <1>5, <1>m DEF DiscardRecorded, Written, WriteFails, Writing, Shielded
<1> QED
  BY <1>a, <1>b, <1>c, <1>d, <1>e, <1>f, <1>g, <1>h, <1>i, <1>j, <1>k, <1>l,
     <1>m DEF RunStep

(* A host ends, or promotes; the Run it creates waits for nothing yet.     *)
LEMMA EndMoves ==
  ASSUME TypeOK, NEW h \in Hosts, pc[h] \notin Writing, EndHost(h),
         writers' = writers
  PROVE  LockMoves(h)
<1>1. h \in Tasks BY DEF Tasks
<1>2. \E at \in {"done", "idle"} : pc' = [pc EXCEPT ![h] = at]
  BY DEF EndHost
<1>3. "done" \notin Writing /\ "idle" \notin Writing BY DEF Writing, Shielded
<1> QED BY <1>1, <1>2, <1>3, OneMoves

(* A Run is promoted: only its host may come to wait for the journal.      *)
LEMMA PromoteMoves ==
  ASSUME TypeOK, NEW h \in Hosts, h \in Runs => pc[h] # "absent",
         NEW origin, NEW i, NEW at \in Promoting, NEW runs,
         Promote(h, origin, i, at, runs), pc[h] \notin Writing,
         \/ writers' = writers /\ at \notin Writing
         \/ writers' = Append(Without(writers, h), h) /\ at \in Writing
  PROVE  LockMoves(h)
<1>1. Next1 \in Runs /\ h # Next1 BY PointsPromote
<1> DEFINE n == Next1
<1>2. pc' = [pc EXCEPT ![n] = "created", ![h] = at] BY DEF Promote
<1>3. pc[n] = "absent" BY <1>1 DEF TypeOK, StateTypes, ControlPoints, Next1, Runs
<1> HIDE DEF n
<1>4. /\ pc \in [Tasks -> RunPoints \cup CallerPoints \cup InputPoints]
      /\ n \in Tasks /\ h \in Tasks /\ h # n
  BY <1>1 DEF TypeOK, ControlPoints, Tasks, Hosts, n
<1>5. /\ pc'[h] = at /\ pc'[n] = "created"
      /\ \A u \in Tasks \ {h, n} : pc'[u] = pc[u]
  BY <1>2, <1>4
<1>6. "created" \notin Writing /\ "absent" \notin Writing BY DEF Writing, Shielded
<1>7. \A u \in Tasks \ {h} : pc'[u] \in Writing <=> pc[u] \in Writing
  BY <1>3, <1>5, <1>6
<1> QED BY <1>5, <1>7 DEF LockMoves

(* The queue is promoted, or nothing is.                                   *)
LEMMA QueueMoves ==
  ASSUME TypeOK, NEW h \in Hosts, h \in Runs => pc[h] # "absent",
         pc[h] \notin Writing, writers' = writers, NEW runs, NEW isPaused, NEW holder,
         NoPromotion(h, runs) \/ TryPromoteQueue(h, runs, isPaused, holder)
  PROVE  LockMoves(h)
<1>1. CASE NoPromotion(h, runs)
  BY <1>1, EndMoves DEF NoPromotion
<1>2. CASE Promote(h, "queue", Head(queue), "yielding", runs)
  <2>1. "yielding" \in Promoting /\ "yielding" \notin Writing
    BY DEF Promoting, Writing, Shielded
  <2> QED BY <1>2, <2>1, PromoteMoves
<1> QED BY <1>1, <1>2 DEF TryPromoteQueue

(* A fallback steer is promoted before the queue.                          *)
LEMMA PendingMoves ==
  ASSUME TypeOK, LockSound, NEW h \in Hosts, h \in Runs => pc[h] # "absent",
         pc[h] \notin Writing, NEW holder, TryPromotePending(h, run, holder)
  PROVE  LockMoves(h)
<1>1. h \in Tasks BY DEF Tasks
<1>2. CASE /\ NoPromotion(h, run) \/ TryPromoteQueue(h, run, paused, holder)
           /\ writers' = writers
  BY <1>2, QueueMoves
<1>3. CASE /\ Promote(h, "steer", Head(fallbackQ), "activatingFallback", run)
           /\ writers' = Append(writers, h)
  <2>1. "activatingFallback" \in Promoting /\ "activatingFallback" \in Writing
    BY DEF Promoting, Writing, Shielded
  <2>2. Without(writers, h) = writers BY <1>1, LockLeft
  <2> QED BY <1>3, <2>1, <2>2, PromoteMoves
<1> QED BY <1>2, <1>3 DEF TryPromotePending

(* The steps of a promotion.                                               *)
LEMMA HostStepMoves ==
  ASSUME TypeOK, LockSound, NEW h \in Hosts, HostStep(h)
  PROVE  LockMoves(h)
<1> USE DEF Goto
<1>1. h \in Tasks BY DEF Tasks
<1>2. /\ pc[h] \notin Writing => Without(writers, h) = writers
      /\ MyTurn(h) => Without(writers, h) = Unread
  BY <1>1, LockLeft
<1>3. ASSUME NEW at, pc' = [pc EXCEPT ![h] = at], writers' = Unread, MyTurn(h),
             at \notin Writing
      PROVE  LockMoves(h)
  BY <1>1, <1>2, <1>3, OneMoves
<1>4. pc[h] # "absent"
  BY DEF HostStep, FallbackActivated, FallbackAbandoned, FallbackGathered,
         FallbackNotified, Yielded, QueuedInputRecorded, QueuedInputKept,
         QueueNotified, QueueGathered, GatherInterrupted
<1>a. CASE FallbackActivated(h)
  <2>1. /\ MyTurn(h) /\ pc[h] = "activatingFallback"
        /\ \/ pc' = [pc EXCEPT ![h] = "notifyingFallback"] /\ writers' = Unread
           \/ pc' = [pc EXCEPT ![h] = "abandoning"] /\ writers' = Append(Unread, h)
    BY <1>a DEF FallbackActivated, Written, WriteFails
  <2>2. "notifyingFallback" \notin Writing /\ "abandoning" \in Writing
    BY DEF Writing, Shielded
  <2> QED BY <1>1, <1>2, <1>3, <2>1, <2>2, OneMoves
<1>b. CASE FallbackAbandoned(h)
  <2>1. /\ MyTurn(h) /\ writers' = Unread
        /\ pc' = [pc EXCEPT ![h] = "gatheringFallback"]
    BY <1>b DEF FallbackAbandoned, AbandonRun, Written, WriteFails
  <2>2. "gatheringFallback" \notin Writing BY DEF Writing, Shielded
  <2> QED BY <1>3, <2>1, <2>2
<1>c. CASE FallbackGathered(h) \/ FallbackNotified(h)
  <2>1. pc[h] \notin Writing
    BY <1>c DEF FallbackGathered, FallbackNotified, Writing, Shielded
  <2>2. /\ writers' = writers
        /\ \E runs : \/ NoPromotion(h, runs)
                     \/ TryPromoteQueue(h, runs, paused, maintenance)
    BY <1>c DEF FallbackGathered, FallbackNotified
  <2> QED BY <1>4, <2>1, <2>2, QueueMoves
<1>d. CASE Yielded(h)
  <2>1. pc[h] \notin Writing BY <1>d DEF Yielded, Writing, Shielded
  <2>2. CASE EndHost(h) /\ writers' = writers BY <2>1, <2>2, EndMoves
  <2>3. CASE /\ pc' = [pc EXCEPT ![h] = "journalingQueued"]
             /\ writers' = Append(writers, h)
    <3>1. "journalingQueued" \in Writing BY DEF Writing, Shielded
    <3> QED BY <1>1, <1>2, <2>1, <2>3, <3>1, OneMoves
  <2> QED BY <1>d, <2>2, <2>3 DEF Yielded
<1>e. CASE QueuedInputRecorded(h)
  <2>1. MyTurn(h) /\ writers' = Unread
    BY <1>e DEF QueuedInputRecorded, Written
  <2>2. \E at \in {"done", "idle", "notifyingQueued"} : pc' = [pc EXCEPT ![h] = at]
    BY <1>e DEF QueuedInputRecorded, EndHost
  <2>3. \A at \in {"done", "idle", "notifyingQueued"} : at \notin Writing
    BY DEF Writing, Shielded
  <2> QED BY <1>3, <2>1, <2>2, <2>3
<1>f. CASE QueuedInputKept(h)
  <2>1. /\ MyTurn(h) /\ writers' = Unread
        /\ pc' = [pc EXCEPT ![h] = "gatheringQueue"]
    BY <1>f DEF QueuedInputKept, AbandonRun, WriteFails
  <2>2. "gatheringQueue" \notin Writing BY DEF Writing, Shielded
  <2> QED BY <1>3, <2>1, <2>2
<1>g. CASE QueueNotified(h) \/ QueueGathered(h) \/ GatherInterrupted(h)
  <2>1. EndHost(h) /\ writers' = writers /\ pc[h] \notin Writing
    BY <1>g
    DEF QueueNotified, QueueGathered, GatherInterrupted, Writing, Shielded
  <2> QED BY <2>1, EndMoves
<1> QED BY <1>a, <1>b, <1>c, <1>d, <1>e, <1>f, <1>g DEF HostStep

(* The steps of a submission.                                              *)
LEMMA SubmissionMoves ==
  ASSUME TypeOK, LockSound, NEW i \in Input, SubmissionStep(i)
  PROVE  LockMoves(i)
<1> USE DEF Goto
<1>1. i \in Tasks BY DEF Tasks
<1>2. /\ pc[i] \notin Writing => Without(writers, i) = writers
      /\ MyTurn(i) => Without(writers, i) = Unread
  BY <1>1, LockLeft
<1>3. /\ "journaling" \in Writing
      /\ \A at \in {"barrier", "queued", "rejected", "notifying", "steered"} :
           at \notin Writing
  BY DEF Writing, Shielded
<1>a. CASE Admit(i)
  <2>1. /\ pc[i] = "barrier"
        /\ \/ pc' = [pc EXCEPT ![i] = "queued"] /\ writers' = writers
           \/ pc' = [pc EXCEPT ![i] = "journaling"] /\ writers' = Append(writers, i)
    BY <1>a DEF Admit
  <2> QED BY <1>1, <1>2, <1>3, <2>1, OneMoves
<1>b. CASE Refuse(i)
  <2>1. /\ pc[i] = "barrier" /\ writers' = writers
        /\ pc' = [pc EXCEPT ![i] = "rejected"]
    BY <1>b DEF Refuse
  <2> QED BY <1>1, <1>3, <2>1, OneMoves
<1>c. CASE SteerRecorded(i)
  <2>1. MyTurn(i) /\ writers' = Unread
    BY <1>c DEF SteerRecorded, Written, WriteFails
  <2>2. \E at \in {"steered", "notifying", "rejected"} : pc' = [pc EXCEPT ![i] = at]
    BY <1>c DEF SteerRecorded
  <2> QED BY <1>1, <1>2, <1>3, <2>1, <2>2, OneMoves
<1>d. CASE SteerNotified(i)
  <2>1. /\ pc[i] = "notifying" /\ writers' = writers
        /\ pc' = [pc EXCEPT ![i] = "steered"]
    BY <1>d DEF SteerNotified
  <2> QED BY <1>1, <1>3, <2>1, OneMoves
<1> QED BY <1>a, <1>b, <1>c, <1>d DEF SubmissionStep

(* The operations of the user.                                             *)
LEMMA UserMoves ==
  ASSUME TypeOK, LockSound, UserStep
  PROVE  \/ pc' = pc /\ writers' = writers
         \/ \E t \in Tasks : LockMoves(t)
<1> USE DEF Goto, Unchanged4User
<1>1. Runs \subseteq Tasks /\ Callers \subseteq Hosts /\ Hosts \subseteq Tasks
      /\ Input \subseteq Tasks
  BY DEF Tasks, Hosts
<1>2. /\ "reserved" \notin Writing /\ "idle" \notin Writing
      /\ "created" \notin Writing /\ "absent" \notin Writing
      /\ "barrier" \notin Writing
  BY DEF Writing, Shielded
<1>a. ASSUME NEW o \in {"user", "application"}, NEW b \in Behaviours, StartRun(o, b)
      PROVE  \E t \in Tasks : LockMoves(t)
  <2> DEFINE n == Next1
  <2>1. n \in Runs /\ pc[n] = "absent"
    BY <1>a, RuntimeAssumption
    DEF StartRun, Next1, Runs, TypeOK, StateTypes, ControlPoints
  <2>2. pc' = [pc EXCEPT ![n] = "created"] /\ writers' = writers
    BY <1>a DEF StartRun
  <2> HIDE DEF n
  <2>3. LockMoves(n) BY <1>1, <1>2, <2>1, <2>2, OneMoves
  <2> QED BY <1>1, <2>1, <2>3
<1>b. ASSUME NEW i \in Input, NEW b \in Behaviours, Submit(i, b)
      PROVE  \E t \in Tasks : LockMoves(t)
  <2>1. LockMoves(i) BY <1>1, <1>2, <1>b, OneMoves DEF Submit
  <2> QED BY <1>1, <2>1
<1>c. ASSUME NEW c \in Callers, ResumeQueue(c)
      PROVE  \E t \in Tasks : LockMoves(t)
  <2>1. c \in Hosts /\ c \notin Runs /\ pc[c] \notin Writing
    BY <1>1, <1>2, <1>c, RuntimeAssumption DEF ResumeQueue
  <2>2. LockMoves(c) BY <1>c, <2>1, QueueMoves DEF ResumeQueue
  <2> QED BY <1>1, <2>1, <2>2
<1>d. ASSUME NEW c \in Callers, NEW a \in BOOLEAN, ReserveSession(c, a)
      PROVE  \E t \in Tasks : LockMoves(t)
  <2>1. LockMoves(c) BY <1>1, <1>2, <1>d, OneMoves DEF ReserveSession
  <2> QED BY <1>1, <2>1
<1>e. ASSUME NEW r \in Runs, ApprovalReturns(r) \/ AgentFails(r)
      PROVE  \E t \in Tasks : LockMoves(t)
  <2>1. ~RunEndNotified(r)
    BY <1>e DEF ApprovalReturns, AgentFails, AtBoundary, RunEndNotified
  <2> QED BY <1>1, <1>e, <2>1, RunStepMoves
<1>f. ASSUME \/ \E i \in Input : RemoveQueuedInput(i)
             \/ CancelRun \/ ClearQueue \/ BeginClose
      PROVE  pc' = pc /\ writers' = writers
  BY <1>f DEF RemoveQueuedInput, CancelRun, ClearQueue, BeginClose
<1> QED BY <1>a, <1>b, <1>c, <1>d, <1>e, <1>f DEF UserStep

(* The lock queue stays fair in every step.                                *)
LEMMA LockNext ==
  ASSUME TypeOK, LockSound, [Next]_vars
  PROVE  LockSound' /\ LockKeeps
<1>1. ASSUME pc' = pc, writers' = writers PROVE LockSound' /\ LockKeeps
  <2>1. writers \in Seq(Tasks) BY DEF TypeOK, StateTypes
  <2>2. \A u, v \in Tasks : Ahead(writers, u, v) => pc[u] \in Writing
    BY <2>1, AheadOnce DEF LockSound
  <2> QED BY <1>1, <2>2 DEF LockSound, LockKeeps
<1>2. ASSUME NEW t \in Tasks, LockMoves(t) PROVE LockSound' /\ LockKeeps
  BY <1>2, LockMoved
<1>3. Runs \subseteq Tasks /\ Runs \subseteq Hosts /\ Callers \subseteq Hosts
      /\ Hosts \subseteq Tasks /\ Input \subseteq Tasks
  BY DEF Tasks, Hosts
<1>a. ASSUME NEW r \in Runs, RunStep(r) PROVE LockSound' /\ LockKeeps
  <2>1. CASE RunEndNotified(r)
    <3>1. pc[r] # "absent" /\ pc[r] \notin Writing
      BY <2>1 DEF RunEndNotified, Writing, Shielded
    <3>2. LockMoves(r) BY <1>3, <2>1, <3>1, PendingMoves DEF RunEndNotified
    <3> QED BY <1>2, <1>3, <3>2
  <2>2. CASE ~RunEndNotified(r) BY <1>2, <1>3, <1>a, <2>2, RunStepMoves
  <2> QED BY <2>1, <2>2
<1>b. ASSUME NEW h \in Hosts, HostStep(h) PROVE LockSound' /\ LockKeeps
  BY <1>2, <1>3, <1>b, HostStepMoves
<1>c. ASSUME NEW i \in Input, SubmissionStep(i) PROVE LockSound' /\ LockKeeps
  BY <1>2, <1>3, <1>c, SubmissionMoves
<1>d. ASSUME NEW t \in Tasks, AbsorbCancellation(t) PROVE LockSound' /\ LockKeeps
  BY <1>1, <1>d DEF AbsorbCancellation
<1>e. ASSUME NEW c \in Callers, ReleaseSession(c) PROVE LockSound' /\ LockKeeps
  <2>1. c \in Hosts /\ c \notin Runs /\ pc[c] \notin Writing
    BY <1>3, <1>e, RuntimeAssumption DEF ReleaseSession, Writing, Shielded
  <2>2. LockMoves(c) BY <1>e, <2>1, PendingMoves DEF ReleaseSession
  <2> QED BY <1>2, <1>3, <2>1, <2>2
<1>f. CASE EndClose \/ UNCHANGED vars
  BY <1>1, <1>f DEF EndClose, vars
<1>g. CASE UserStep
  BY <1>1, <1>2, <1>g, UserMoves
<1> QED BY <1>a, <1>b, <1>c, <1>d, <1>e, <1>f, <1>g DEF Next, AtRest

(* At first nobody writes.                                                 *)
LEMMA LockInit == Init => LockSound
<1> SUFFICES ASSUME Init PROVE LockSound
  OBVIOUS
<1>1. \A t \in Tasks : pc[t] \in {"absent", "idle"} BY DEF Init
<1>2. writers = <<>> BY DEF Init
<1> QED BY <1>1, <1>2 DEF LockSound, IsInjective, Occurs, Writing, Shielded

(* The journal lock is fair: the tasks in the middle of a write wait for   *)
(* it in one line, each at one place.                                      *)
THEOREM LockIsFair == Spec => []LockSound
<1>1. Init => LockSound BY LockInit
<1>2. TypeOK /\ LockSound /\ [Next]_vars => LockSound'
  BY LockNext
<1> QED BY <1>1, <1>2, TypeCorrect, PTL DEF Spec

-----------------------------------------------------------------------------
(* The order.                                                              *)

(* The promotion of h wants to write that steer i is activated.            *)
Presents(h, i) == pc[h] = "activatingFallback" /\ run[promo[h]].carried = i

(* Steer i may still be activated.                                         *)
Waits(i) == InControl(i) \/ InFallbacks(i) \/ \E h \in Hosts : Presents(h, i)

(* Steer j cannot be activated while i waits.                              *)
InTurn(i, j) ==
  \/ \E q \in Runs : Ahead(Steers(run[q].ctl), i, j)
  \/ Ahead(fallbackQ, i, j)
  \/ Occurs(j, fallbackQ) /\ \E h \in Hosts : Presents(h, i)
  \/ \E g, h \in Hosts : Presents(g, i) /\ Presents(h, j) /\ Ahead(writers, g, h)

Together(i, j) == sub[i].target = sub[j].target

RecordedBefore(i, j) ==
  \E k \in Records("user_steer", i), l \in Records("user_steer", j) : k < l

(* Turns are taken in the order of the records, and of the line for the    *)
(* journal as long as the records are not written.                         *)
TurnSound(i, j) ==
  Together(i, j) /\ InTurn(i, j) =>
    /\ pc[j] # "journaling" => RecordedBefore(i, j)
    /\ pc[i] = "journaling" /\ pc[j] = "journaling" => Ahead(writers, i, j)

(* A steer leaves its Run for the fallbacks with all others, and no other  *)
(* comes after it.                                                         *)
HandedOver(i) ==
  InFallbacks(i) \/ (\E h \in Hosts : Presents(h, i)) =>
    /\ ~run[sub[i].target].ctl.submissions
    /\ \A j \in Input : ~Holds(sub[i].target, j)

RecordedOnce(i) ==
  \A k, l \in Records("user_steer", i) : k = l /\ pc[i] \in {"notifying", "steered"}

(* Nobody is passed: of two recorded steers the later is not activated     *)
(* while the earlier waits.                                                *)
NotPassed(i, j) ==
  Together(i, j) /\ RecordedBefore(i, j) /\ Records("activated", j) # {} => ~Waits(i)

(* The inductive invariant.                                                *)
OrderSound ==
  /\ \A q \in Runs : Shaped(run[q])
  /\ \A i \in Input : RecordedOnce(i) /\ HandedOver(i)
  /\ \A i, j \in Input : TurnSound(i, j) /\ NotPassed(i, j)
  /\ SteersInOrder

(* Which steers the control of a Run may hold in a step that records none: *)
(* fewer, in the same order.                                               *)
Dwindles(q) ==
  /\ \A i \in Input : Holds(q, i)' => Holds(q, i)
  /\ \A i, j \in Input : Ahead(Steers(run'[q].ctl), i, j) =>
                           Ahead(Steers(run[q].ctl), i, j)
  /\ pc[q] # "absent" /\ run'[q].ctl.submissions => run[q].ctl.submissions
  /\ Shaped(run'[q])

(* Run r hands f over, and with it whatever it holds.                      *)
Hands(r, f) ==
  /\ fallbackQ' = fallbackQ \o f
  /\ \A i \in Input : Occurs(i, f) => Holds(r, i)
  /\ \A i, j \in Input : Ahead(f, i, j) => Ahead(Steers(run[r].ctl), i, j)
  /\ ~run'[r].ctl.submissions /\ \A i \in Input : ~Holds(r, i)'

FallbacksMove ==
  \/ fallbackQ' \in {fallbackQ, <<>>}
  \/ fallbackQ # <<>> /\ fallbackQ' = Tail(fallbackQ)
  \/ \E r \in Runs, f \in Seq(Input) : Hands(r, f)

(* Host h takes i from the fallbacks.                                      *)
Takes(h, i) ==
  /\ pc[h] \notin Writing /\ fallbackQ # <<>>
  /\ i = Head(fallbackQ) /\ fallbackQ' = Tail(fallbackQ)

PresentsMove ==
  \A h \in Hosts, i \in Input : Presents(h, i)' => Presents(h, i) \/ Takes(h, i)

InputsStay ==
  \A i \in Input :
    /\ pc[i] # "idle" => sub'[i] = sub[i]
    /\ pc[i] \in {"notifying", "steered"} => pc'[i] \in {"notifying", "steered"}
    /\ Waits(i)' => (pc'[i] = "journaling" <=> pc[i] = "journaling")

(* A record that activates steers takes those whose turn it is.            *)
TakesTurns(e) ==
  \A j \in Input : Occurs(j, e.of) =>
    /\ Waits(j) /\ pc[j] = "steered"
    /\ \A i \in Input : Together(i, j) /\ Waits(i)' => InTurn(j, i)
    /\ \A i \in Input : Ahead(e.of, j, i) => InTurn(j, i)

JournalMoves ==
  \/ journal' = journal
  \/ \E e : /\ journal' = Append(journal, e) /\ e.type # "user_steer"
            /\ e.type = "activated" => TakesTurns(e)

OrderStep ==
  /\ \A q \in Runs : Dwindles(q)
  /\ FallbacksMove /\ PresentsMove /\ InputsStay /\ JournalMoves /\ LockKeeps

(* What a record adds to the journal.                                      *)
LEMMA RecordsAppend ==
  ASSUME journal \in Seq(Record), NEW e, journal' = Append(journal, e)
  PROVE  /\ Len(journal) + 1 \in DOMAIN journal' /\ journal'[Len(journal) + 1] = e
         /\ Len(journal) \in Nat
         /\ \A k \in DOMAIN journal : /\ k \in DOMAIN journal' /\ k \in 1 .. Len(journal)
                                      /\ journal'[k] = journal[k]
         /\ \A type, i : \A k \in Records(type, i)' :
              \/ k \in Records(type, i) /\ k \in DOMAIN journal
              \/ k = Len(journal) + 1 /\ e.type = type /\ Occurs(i, e.of)
         /\ \A type, i : Records(type, i) \subseteq Records(type, i)'
         /\ \A type, i : e.type = type /\ Occurs(i, e.of) =>
              Len(journal) + 1 \in Records(type, i)'
<1>1. journal \in Seq(Record \cup {e}) /\ e \in Record \cup {e}
  BY SeqDef
<1> HIDE DEF Record
<1>2. /\ Len(journal) \in Nat /\ DOMAIN journal = 1 .. Len(journal)
      /\ DOMAIN journal' = 1 .. Len(journal) + 1
      /\ \A k \in 1 .. Len(journal) : journal'[k] = journal[k]
      /\ journal'[Len(journal) + 1] = e
  BY <1>1, AppendProperties
<1> QED BY <1>2 DEF Records

(* Two tasks that write a record before and after a step stay in line.     *)
LEMMA LineKept ==
  ASSUME TypeOK, TypeOK', LockSound, LockSound', LockKeeps,
         NEW i \in Tasks, NEW j \in Tasks, Ahead(writers, i, j),
         pc[i] = "journaling", pc'[i] = "journaling", pc'[j] = "journaling"
  PROVE  Ahead(writers', i, j)
<1>1. /\ writers \in Seq(Tasks) /\ writers' \in Seq(Tasks)
      /\ IsInjective(writers)
      /\ Occurs(i, writers') /\ Occurs(j, writers')
      /\ pc[i] \in Writing
  BY Zenon DEF TypeOK, StateTypes, LockSound, Writing, Shielded
<1>2. i # j /\ ~Ahead(writers, j, i) BY <1>1, AheadOnce
<1>3. Ahead(writers', i, j) \/ Ahead(writers', j, i) BY <1>1, <1>2, AheadTotal
<1>4. Ahead(writers', j, i) => pc'[i] \in {"abandoning", "discarding"}
  BY <1>1, <1>2 DEF LockKeeps
<1> QED BY <1>3, <1>4

(* Where a steer that waits can be.                                        *)
LEMMA WaitsWhere ==
  ASSUME TypeOK, ControlSound, SteersSound, NEW i \in Input, Waits(i)
  PROVE  /\ pc[i] \in Accepted /\ sub[i].target \in Runs
         /\ pc[sub[i].target] # "absent" /\ ~Disposed(i)
         /\ \A q \in Runs : Holds(q, i) => q = sub[i].target
         /\ InFallbacks(i) => pc[i] = "steered"
         /\ \A h \in Hosts : Presents(h, i) => pc[i] = "steered"
<1>1. \A h \in Hosts : Presents(h, i) => InPromotion(i)
  BY DEF Presents, Promotes, AtFallback, InPromotion
<1>2. /\ \A q \in Runs : Holds(q, i) => sub[i].target = q /\ pc[i] \in Accepted
      /\ pc[i] # "idle" => sub[i].target \in Runs /\ pc[sub[i].target] # "absent"
  BY DEF ControlSound, RunSound, InputSound
<1>3. /\ InFallbacks(i) \/ InPromotion(i) => pc[i] = "steered" /\ ~Disposed(i)
      /\ InControl(i) => ~Disposed(i)
  BY DEF SteersSound, SteerSound, AtMostOne
<1>4. pc[i] \in Accepted /\ ~Disposed(i)
  BY <1>1, <1>2, <1>3 DEF Waits, InControl, Accepted
<1>5. pc[i] # "idle" BY <1>4 DEF Accepted, UnderWay
<1> QED BY <1>1, <1>2, <1>3, <1>4, <1>5

(* Whoever is in turn waits.                                               *)
LEMMA TurnWaits ==
  ASSUME TypeOK, NEW i \in Input, NEW j \in Input, InTurn(i, j)
  PROVE  Waits(i) /\ Waits(j)
<1>1. \A q \in Runs : Steers(run[q].ctl) \in Seq(Input)
  BY ControlOps DEF TypeOK, StateTypes, RunRecord
<1>2. fallbackQ \in Seq(Input) BY DEF TypeOK, StateTypes
<1>3. ASSUME NEW q \in Runs, Ahead(Steers(run[q].ctl), i, j)
      PROVE  Waits(i) /\ Waits(j)
  <2>1. Holds(q, i) /\ Holds(q, j) BY <1>1, <1>3, AheadOnce DEF Holds
  <2> QED BY <2>1 DEF Waits, InControl
<1>4. CASE Ahead(fallbackQ, i, j)
  BY <1>2, <1>4, AheadOnce DEF Waits, InFallbacks
<1>5. CASE Occurs(j, fallbackQ) /\ \E h \in Hosts : Presents(h, i)
  BY <1>5 DEF Waits, InFallbacks
<1>6. CASE \E g, h \in Hosts : Presents(g, i) /\ Presents(h, j) /\ Ahead(writers, g, h)
  BY <1>6 DEF Waits
<1> QED BY <1>3, <1>4, <1>5, <1>6 DEF InTurn

(* What a steer of the same Run may do while i waits after the handover:   *)
(* the control holds none.                                                 *)
LEMMA HandedApart ==
  ASSUME TypeOK, ControlSound, SteersSound, OrderSound, NEW i \in Input, NEW j \in Input,
         Together(i, j), InFallbacks(i) \/ \E h \in Hosts : Presents(h, i)
  PROVE  \A q \in Runs : ~Holds(q, j)
<1>1. \A k \in Input : ~Holds(sub[i].target, k)
  BY DEF OrderSound, HandedOver
<1>2. ASSUME NEW q \in Runs, Holds(q, j) PROVE q = sub[i].target
  BY <1>2 DEF ControlSound, RunSound, Together
<1> QED BY <1>1, <1>2

(* Who waits after a step waited before it.                                *)
LEMMA WaitedBefore ==
  ASSUME TypeOK, OrderStep, NEW i \in Input, Waits(i)'
  PROVE  Waits(i)
<1>1. CASE InControl(i)'
  BY <1>1 DEF OrderStep, Dwindles, Waits, InControl
<1>2. fallbackQ \in Seq(Input) BY DEF TypeOK, StateTypes
<1>3. CASE InFallbacks(i)'
  <2>1. CASE fallbackQ' \in {fallbackQ, <<>>}
    BY <1>3, <2>1 DEF InFallbacks, Occurs, Waits
  <2>2. CASE fallbackQ # <<>> /\ fallbackQ' = Tail(fallbackQ)
    BY <1>2, <1>3, <2>2, OccursTail DEF InFallbacks, Waits
  <2>3. ASSUME NEW r \in Runs, NEW f \in Seq(Input), Hands(r, f)
        PROVE  Waits(i)
    <3>1. Occurs(i, fallbackQ) \/ Occurs(i, f)
      BY <1>2, <1>3, <2>3, OccursConcat DEF InFallbacks, Hands
    <3> QED BY <2>3, <3>1 DEF Hands, Waits, InFallbacks, InControl
  <2> QED BY <2>1, <2>2, <2>3 DEF OrderStep, FallbacksMove
<1>4. CASE \E h \in Hosts : Presents(h, i)'
  <2>1. PICK h \in Hosts : Presents(h, i) \/ Takes(h, i)
    BY <1>4 DEF OrderStep, PresentsMove
  <2>2. CASE Takes(h, i)
    <3>1. Occurs(i, fallbackQ) BY <1>2, <2>2, OccursTail DEF Takes
    <3> QED BY <3>1 DEF Waits, InFallbacks
  <2> QED BY <2>1, <2>2 DEF Waits
<1> QED BY <1>1, <1>3, <1>4 DEF Waits

(* Whoever is in turn after a step was so before.                          *)
LEMMA TurnBefore ==
  ASSUME TypeOK, ControlSound, SteersSound, OrderSound, OrderStep,
         NEW i \in Input, NEW j \in Input, Together(i, j), InTurn(i, j)'
  PROVE  InTurn(i, j)
<1>1. fallbackQ \in Seq(Input) BY DEF TypeOK, StateTypes
<1>2. ASSUME NEW q \in Runs, Ahead(Steers(run'[q].ctl), i, j) PROVE InTurn(i, j)
  BY <1>2 DEF OrderStep, Dwindles, InTurn
<1>3. ASSUME InFallbacks(i) \/ (\E h \in Hosts : Presents(h, i)),
             Occurs(j, fallbackQ')
      PROVE  Occurs(j, fallbackQ)
  <2>1. CASE fallbackQ' \in {fallbackQ, <<>>} BY <1>3, <2>1 DEF Occurs
  <2>2. CASE fallbackQ # <<>> /\ fallbackQ' = Tail(fallbackQ)
    BY <1>1, <1>3, <2>2, OccursTail
  <2>3. ASSUME NEW r \in Runs, NEW f \in Seq(Input), Hands(r, f)
        PROVE  Occurs(j, fallbackQ)
    <3>1. Occurs(j, fallbackQ) \/ Occurs(j, f)
      BY <1>1, <1>3, <2>3, OccursConcat DEF Hands
    <3>2. ~Holds(r, j) BY <1>3, HandedApart
    <3> QED BY <2>3, <3>1, <3>2 DEF Hands
  <2> QED BY <2>1, <2>2, <2>3 DEF OrderStep, FallbacksMove
<1>4. CASE Ahead(fallbackQ', i, j)
  <2>1. CASE fallbackQ' \in {fallbackQ, <<>>} BY <1>4, <2>1 DEF Ahead, InTurn
  <2>2. CASE fallbackQ # <<>> /\ fallbackQ' = Tail(fallbackQ)
    BY <1>1, <1>4, <2>2, AheadTail DEF InTurn
  <2>3. ASSUME NEW r \in Runs, NEW f \in Seq(Input), Hands(r, f)
        PROVE  InTurn(i, j)
    <3>1. Ahead(fallbackQ, i, j) \/ Ahead(f, i, j) \/ (Occurs(i, fallbackQ) /\ Occurs(j, f))
      BY <1>1, <1>4, <2>3, AheadConcat DEF Hands
    <3>2. CASE Occurs(i, fallbackQ) /\ Occurs(j, f)
      <4>1. ~Holds(r, j) BY <3>2, HandedApart DEF InFallbacks
      <4> QED BY <2>3, <3>2, <4>1 DEF Hands
    <3> QED BY <2>3, <3>1, <3>2 DEF Hands, InTurn
  <2> QED BY <2>1, <2>2, <2>3 DEF OrderStep, FallbacksMove
<1>5. CASE Occurs(j, fallbackQ') /\ \E h \in Hosts : Presents(h, i)'
  <2>1. PICK h \in Hosts : Presents(h, i) \/ Takes(h, i)
    BY <1>5 DEF OrderStep, PresentsMove
  <2>2. CASE Takes(h, i)
    BY <1>1, <1>5, <2>2, AheadTail DEF Takes, InTurn
  <2>3. CASE Presents(h, i)
    BY <1>3, <1>5, <2>3 DEF InTurn
  <2> QED BY <2>1, <2>2, <2>3
<1>6. CASE \E g, h \in Hosts : Presents(g, i)' /\ Presents(h, j)' /\ Ahead(writers', g, h)
  <2>1. PICK g, h \in Hosts : Presents(g, i)' /\ Presents(h, j)' /\ Ahead(writers', g, h)
    BY <1>6
  <2>2. /\ pc[g] \in Writing
        /\ \/ Ahead(writers, g, h) \/ pc[h] \notin Writing
           \/ pc'[h] \in {"abandoning", "discarding"}
    BY <2>1 DEF OrderStep, LockKeeps, Tasks
  <2>3. /\ Presents(g, i) \/ Takes(g, i)
        /\ Presents(h, j) \/ Takes(h, j)
        /\ pc'[h] = "activatingFallback"
    BY <2>1 DEF OrderStep, PresentsMove, Presents
  <2>4. Presents(g, i) BY <2>2, <2>3 DEF Takes
  <2>5. CASE Takes(h, j)
    <3>1. Occurs(j, fallbackQ) BY <1>1, <2>5, OccursTail DEF Takes
    <3> QED BY <2>4, <3>1 DEF InTurn
  <2>6. CASE Presents(h, j)
    <3>1. pc[h] \in Writing BY <2>6 DEF Presents, Writing, Shielded
    <3>2. Ahead(writers, g, h) BY <2>2, <2>3, <3>1
    <3> QED BY <2>4, <2>6, <3>2 DEF InTurn
  <2> QED BY <2>3, <2>5, <2>6
<1> QED BY <1>2, <1>4, <1>5, <1>6 DEF InTurn

(* The steps that record no steer: the records of steers stay.             *)
LEMMA SteerRecordsStay ==
  ASSUME TypeOK, OrderStep
  PROVE  /\ \A i : Records("user_steer", i)' = Records("user_steer", i)
         /\ \A i, j : RecordedBefore(i, j)' <=> RecordedBefore(i, j)
<1>1. ASSUME NEW i PROVE Records("user_steer", i)' = Records("user_steer", i)
  <2>1. CASE journal' = journal BY <2>1 DEF Records
  <2>2. ASSUME NEW e, journal' = Append(journal, e), e.type # "user_steer"
        PROVE  Records("user_steer", i)' = Records("user_steer", i)
    <3>1. journal \in Seq(Record) BY DEF TypeOK, StateTypes
    <3>2. /\ \A k \in Records("user_steer", i)' : k \in Records("user_steer", i)
          /\ Records("user_steer", i) \subseteq Records("user_steer", i)'
      BY <2>2, <3>1, RecordsAppend
    <3> QED BY <3>2
  <2> QED BY <2>1, <2>2 DEF OrderStep, JournalMoves
<1> QED BY <1>1 DEF RecordedBefore

(* A steer with a record stays sent to the same Run.                       *)
LEMMA RecordedStays ==
  ASSUME OrderSound, InputsStay, NEW i \in Input, Records("user_steer", i) # {}
  PROVE  /\ pc[i] \in {"notifying", "steered"} /\ sub'[i] = sub[i]
         /\ pc'[i] \in {"notifying", "steered"}
<1>1. pc[i] \in {"notifying", "steered"} BY DEF OrderSound, RecordedOnce
<1> QED BY <1>1 DEF InputsStay

(* Nobody has two records, so no two steers are before each other.         *)
LEMMA RecordedApart ==
  ASSUME TypeOK, OrderSound, NEW i \in Input, NEW j \in Input, RecordedBefore(i, j)
  PROVE  /\ i # j /\ ~RecordedBefore(j, i)
         /\ Records("user_steer", i) # {} /\ Records("user_steer", j) # {}
<1>1. \A k \in Records("user_steer", i), l \in Records("user_steer", j) :
        k \in Nat /\ l \in Nat
  <2>1. journal \in Seq(Record) BY DEF TypeOK, StateTypes
  <2> HIDE DEF Record
  <2>2. DOMAIN journal = 1 .. Len(journal) /\ Len(journal) \in Nat BY <2>1
  <2> QED BY <2>2 DEF Records
<1>2. /\ \A k, l \in Records("user_steer", i) : k = l
      /\ \A k, l \in Records("user_steer", j) : k = l
  BY DEF OrderSound, RecordedOnce
<1> QED BY <1>1, <1>2 DEF RecordedBefore

(* Turns stay in order.                                                    *)
LEMMA TurnKept ==
  ASSUME TypeOK, TypeOK', ControlSound, SteersSound, OrderSound, OrderStep,
         LockSound, LockSound', NEW i \in Input, NEW j \in Input
  PROVE  TurnSound(i, j)'
<1> SUFFICES ASSUME Together(i, j)', InTurn(i, j)'
             PROVE  /\ pc'[j] # "journaling" => RecordedBefore(i, j)'
                    /\ pc'[i] = "journaling" /\ pc'[j] = "journaling"
                         => Ahead(writers', i, j)
  BY DEF TurnSound
<1>1. Waits(i)' /\ Waits(j)' BY TurnWaits, PTL
<1>2. Waits(i) /\ Waits(j) BY <1>1, WaitedBefore
<1>3. pc[i] \in Accepted /\ pc[j] \in Accepted BY <1>2, WaitsWhere
<1>4. sub'[i] = sub[i] /\ sub'[j] = sub[j]
  BY <1>3 DEF OrderStep, InputsStay, Accepted, UnderWay
<1>5. Together(i, j) BY <1>4 DEF Together
<1>6. InTurn(i, j) BY <1>5, TurnBefore
<1>7. /\ pc[j] # "journaling" => RecordedBefore(i, j)
      /\ pc[i] = "journaling" /\ pc[j] = "journaling" => Ahead(writers, i, j)
  BY <1>5, <1>6 DEF OrderSound, TurnSound
<1>8. /\ pc'[i] = "journaling" <=> pc[i] = "journaling"
      /\ pc'[j] = "journaling" <=> pc[j] = "journaling"
  BY <1>1 DEF OrderStep, InputsStay
<1>9. pc'[j] # "journaling" => RecordedBefore(i, j)'
  BY <1>7, <1>8, SteerRecordsStay
<1>10. ASSUME pc'[i] = "journaling", pc'[j] = "journaling"
       PROVE  Ahead(writers', i, j)
  <2>1. i \in Tasks /\ j \in Tasks BY DEF Tasks
  <2> QED BY <1>7, <1>8, <1>10, <2>1, LineKept DEF OrderStep
<1> QED BY <1>9, <1>10

(* What has been handed over stays so.                                     *)
LEMMA HandedKept ==
  ASSUME TypeOK, ControlSound, SteersSound, OrderSound, OrderStep, NEW i \in Input
  PROVE  HandedOver(i)'
<1> SUFFICES ASSUME InFallbacks(i)' \/ \E h \in Hosts : Presents(h, i)',
                    NEW t, t = sub'[i].target
             PROVE  /\ ~run'[t].ctl.submissions
                    /\ \A j \in Input : ~Holds(t, j)'
  BY DEF HandedOver, Holds
<1>1. Waits(i)' BY DEF Waits
<1>2. Waits(i) BY <1>1, WaitedBefore
<1>3. /\ pc[i] \in Accepted /\ sub[i].target \in Runs
      /\ pc[sub[i].target] # "absent"
      /\ \A q \in Runs : Holds(q, i) => q = sub[i].target
  BY <1>2, WaitsWhere
<1>4. sub[i].target = t
  BY <1>3 DEF OrderStep, InputsStay, Accepted, UnderWay
<1>5. fallbackQ \in Seq(Input) BY DEF TypeOK, StateTypes
<1>6. \/ InFallbacks(i) \/ \E h \in Hosts : Presents(h, i)
      \/ \E r \in Runs, f \in Seq(Input) : Hands(r, f) /\ Occurs(i, f)
  <2>1. CASE InFallbacks(i)'
    <3>1. CASE fallbackQ' \in {fallbackQ, <<>>}
      BY <2>1, <3>1 DEF InFallbacks, Occurs
    <3>2. CASE fallbackQ # <<>> /\ fallbackQ' = Tail(fallbackQ)
      BY <1>5, <2>1, <3>2, OccursTail DEF InFallbacks
    <3>3. ASSUME NEW r \in Runs, NEW f \in Seq(Input), Hands(r, f)
          PROVE  InFallbacks(i) \/ Occurs(i, f)
      BY <1>5, <2>1, <3>3, OccursConcat DEF InFallbacks, Hands
    <3> QED BY <3>1, <3>2, <3>3 DEF OrderStep, FallbacksMove
  <2>2. CASE \E h \in Hosts : Presents(h, i)'
    <3>1. PICK h \in Hosts : Presents(h, i) \/ Takes(h, i)
      BY <2>2 DEF OrderStep, PresentsMove
    <3>2. Takes(h, i) => InFallbacks(i)
      BY <1>5, OccursTail DEF Takes, InFallbacks
    <3> QED BY <3>1, <3>2
  <2> QED BY <2>1, <2>2
<1>7. ASSUME InFallbacks(i) \/ \E h \in Hosts : Presents(h, i)
      PROVE  /\ ~run'[t].ctl.submissions
             /\ \A j \in Input : ~Holds(t, j)'
  <2>1. ~run[t].ctl.submissions /\ \A j \in Input : ~Holds(t, j)
    BY <1>4, <1>7 DEF OrderSound, HandedOver
  <2> QED BY <1>3, <1>4, <2>1 DEF OrderStep, Dwindles
<1>8. ASSUME NEW r \in Runs, NEW f \in Seq(Input), Hands(r, f), Occurs(i, f)
      PROVE  /\ ~run'[t].ctl.submissions
             /\ \A j \in Input : ~Holds(t, j)'
  <2>1. r = t BY <1>3, <1>4, <1>8 DEF Hands
  <2> QED BY <1>8, <2>1 DEF Hands
<1> QED BY <1>6, <1>7, <1>8

(* Nobody is passed.                                                       *)
LEMMA NotPassedKept ==
  ASSUME TypeOK, ControlSound, SteersSound, OrderSound, OrderStep,
         NEW i \in Input, NEW j \in Input
  PROVE  NotPassed(i, j)'
<1> SUFFICES ASSUME Together(i, j)', RecordedBefore(i, j)',
                    Records("activated", j)' # {}, Waits(i)'
             PROVE  FALSE
  BY DEF NotPassed
<1>1. RecordedBefore(i, j) BY SteerRecordsStay
<1>2. /\ ~RecordedBefore(j, i)
      /\ Records("user_steer", i) # {} /\ Records("user_steer", j) # {}
  BY <1>1, RecordedApart
<1>3. /\ pc[i] \in {"notifying", "steered"}
      /\ sub'[i] = sub[i] /\ sub'[j] = sub[j]
  BY <1>2, RecordedStays DEF OrderStep
<1>4. Together(i, j) BY <1>3 DEF Together
<1>5. Waits(i) BY WaitedBefore
<1>6. Records("activated", j) = {} BY <1>1, <1>4, <1>5 DEF OrderSound, NotPassed
<1>7. journal \in Seq(Record) BY DEF TypeOK, StateTypes
<1>8. PICK e : /\ journal' = Append(journal, e) /\ e.type # "user_steer"
               /\ e.type = "activated" => TakesTurns(e)
  BY <1>6 DEF OrderStep, JournalMoves, Records
<1>9. e.type = "activated" /\ Occurs(j, e.of)
  BY <1>6, <1>7, <1>8, RecordsAppend
<1>10. InTurn(j, i) BY <1>4, <1>8, <1>9 DEF TakesTurns
<1>11. RecordedBefore(j, i)
  BY <1>3, <1>4, <1>10 DEF OrderSound, TurnSound, Together
<1> QED BY <1>2, <1>11

(* The property itself.                                                    *)
LEMMA InOrderKept ==
  ASSUME TypeOK, TypeOK', ControlSound, SteersSound, OrderSound, OrderStep
  PROVE  SteersInOrder'
<1> SUFFICES ASSUME NEW i \in Input, NEW j \in Input, Together(i, j)',
                    NEW ki \in Records("user_steer", i)',
                    NEW kj \in Records("user_steer", j)',
                    NEW ai \in Records("activated", i)',
                    NEW aj \in Records("activated", j)', ki < kj
             PROVE  \/ ai < aj
                    \/ /\ ai = aj
                       /\ \E m, n \in DOMAIN journal'[ai].of :
                            m < n /\ journal'[ai].of[m] = i /\ journal'[ai].of[n] = j
  BY DEF SteersInOrder, Together
<1>1. ki \in Records("user_steer", i) /\ kj \in Records("user_steer", j)
  BY SteerRecordsStay
<1>2. RecordedBefore(i, j) BY <1>1 DEF RecordedBefore
<1>3. i # j /\ ~RecordedBefore(j, i) BY <1>2, RecordedApart
<1>4. /\ pc[i] \in {"notifying", "steered"}
      /\ sub'[i] = sub[i] /\ sub'[j] = sub[j]
  BY <1>1, RecordedStays DEF OrderStep
<1>5. Together(i, j) /\ Together(j, i) BY <1>4 DEF Together
<1>6. journal \in Seq(Record) BY DEF TypeOK, StateTypes
<1>7. ASSUME ai \in Records("activated", i), aj \in Records("activated", j)
      PROVE  \/ ai < aj
             \/ /\ ai = aj
                /\ \E m, n \in DOMAIN journal[ai].of :
                     m < n /\ journal[ai].of[m] = i /\ journal[ai].of[n] = j
  BY <1>1, <1>5, <1>7 DEF OrderSound, SteersInOrder, Together
<1>8. CASE journal' = journal BY <1>7, <1>8 DEF Records
<1>9. ASSUME NEW e, journal' = Append(journal, e),
             e.type = "activated" => TakesTurns(e)
      PROVE  \/ ai < aj
             \/ /\ ai = aj
                /\ \E m, n \in DOMAIN journal'[ai].of :
                     m < n /\ journal'[ai].of[m] = i /\ journal'[ai].of[n] = j
  <2>1. /\ \A k \in DOMAIN journal : journal'[k] = journal[k] /\ k \in 1 .. Len(journal)
        /\ Len(journal) \in Nat
        /\ Len(journal) + 1 \in DOMAIN journal' /\ journal'[Len(journal) + 1] = e
        /\ \/ ai \in Records("activated", i) /\ ai \in DOMAIN journal
           \/ ai = Len(journal) + 1 /\ e.type = "activated" /\ Occurs(i, e.of)
        /\ \/ aj \in Records("activated", j) /\ aj \in DOMAIN journal
           \/ aj = Len(journal) + 1 /\ e.type = "activated" /\ Occurs(j, e.of)
    BY <1>6, <1>9, RecordsAppend
  <2>2. CASE ai \in DOMAIN journal /\ aj \in DOMAIN journal
    <3>1. ai # Len(journal) + 1 /\ aj # Len(journal) + 1 BY <2>1, <2>2
    <3> QED BY <1>7, <2>1, <2>2, <3>1
  <2>3. CASE ai \in DOMAIN journal /\ aj = Len(journal) + 1
    BY <2>1, <2>3
  <2>4. CASE aj \in DOMAIN journal /\ ai = Len(journal) + 1
    <3>1. aj # Len(journal) + 1 /\ ai \notin DOMAIN journal BY <2>1, <2>4
    <3>2. Records("activated", j) # {} BY <2>1, <3>1
    <3>3. ~Waits(i) BY <1>2, <1>5, <3>2 DEF OrderSound, NotPassed
    <3>4. Waits(i) BY <1>9, <2>1, <3>1 DEF TakesTurns
    <3> QED BY <3>3, <3>4
  <2>5. CASE ai = Len(journal) + 1 /\ aj = Len(journal) + 1
    <3>1. ai \notin DOMAIN journal /\ aj \notin DOMAIN journal BY <2>1, <2>5
    <3>2. e.type = "activated" /\ Occurs(i, e.of) /\ Occurs(j, e.of) BY <2>1, <3>1
    <3>3. e.of \in Seq(Input \cup {None})
      <4>1. journal' \in Seq(Record) BY DEF TypeOK, StateTypes
      <4>2. e \in Record
        <5> HIDE DEF Record
        <5> QED BY <2>1, <4>1, ElementOfSeq
      <4> QED BY <4>2 DEF Record
    <3>4. Ahead(e.of, i, j) \/ Ahead(e.of, j, i) BY <1>3, <3>2, <3>3, AheadTotal
    <3>5. ~Ahead(e.of, j, i)
      <4>1. SUFFICES ASSUME Ahead(e.of, j, i) PROVE FALSE OBVIOUS
      <4>2. InTurn(j, i) BY <1>9, <3>2, <4>1 DEF TakesTurns
      <4>3. RecordedBefore(j, i)
        BY <1>4, <1>5, <4>2 DEF OrderSound, TurnSound
      <4> QED BY <1>3, <4>3
    <3> QED BY <2>1, <2>5, <3>4, <3>5 DEF Ahead
  <2> QED BY <2>1, <2>2, <2>3, <2>4, <2>5
<1> QED BY <1>8, <1>9 DEF OrderStep, JournalMoves

(* Together: a step that records no steer and admits none keeps the order. *)
LEMMA OrderKept ==
  ASSUME TypeOK, TypeOK', ControlSound, SteersSound, LockSound, LockSound',
         OrderSound, OrderStep
  PROVE  OrderSound'
<1>1. \A q \in Runs : Shaped(run'[q]) BY DEF OrderStep, Dwindles
<1>2. ASSUME NEW i \in Input PROVE RecordedOnce(i)'
  <2>1. Records("user_steer", i)' = Records("user_steer", i) BY SteerRecordsStay
  <2>2. RecordedOnce(i) BY DEF OrderSound
  <2> QED BY <2>1, <2>2 DEF RecordedOnce, OrderStep, InputsStay
<1> QED
  BY <1>1, <1>2, HandedKept, TurnKept, NotPassedKept, InOrderKept
  DEF OrderSound

-----------------------------------------------------------------------------
(* Submissions.                                                            *)

(* What a step of the submission of i to Run r leaves alone.               *)
Enters(i, r) ==
  /\ r = sub[i].target /\ r \in Runs /\ pc[i] \in UnderWay \cup {"barrier"}
  /\ fallbackQ' = fallbackQ /\ promo' = promo /\ sub' = sub
  /\ \A t \in Tasks \ {i} : pc'[t] = pc[t]
  /\ \A q \in Runs \ {r} : run'[q] = run[q]
  /\ run'[r].carried = run[r].carried /\ run'[r].status = run[r].status

SteerAdmitted(i, r) ==
  /\ pc[i] = "barrier" /\ pc'[i] = "journaling" /\ journal' = journal
  /\ writers' = Append(writers, i) /\ run[r].ctl.submissions
  /\ run'[r].ctl = ReserveSteer(run[r].ctl, i)

SteerWritten(i, r) ==
  /\ pc[i] = "journaling" /\ pc'[i] \in {"notifying", "steered"}
  /\ MyTurn(i) /\ writers' = Unread
  /\ journal' = Append(journal, [type |-> "user_steer", of |-> <<i>>, run |-> r])
  /\ run'[r].ctl \in {run[r].ctl, MarkReady(run[r].ctl, i)}

NoSteerWritten(i, r) ==
  /\ \/ pc[i] # "notifying" /\ pc'[i] \in {"queued", "rejected"}
     \/ pc[i] = "notifying" /\ pc'[i] = "steered"
  /\ journal' = journal
  /\ run'[r].ctl \in {run[r].ctl, MarkReady(run[r].ctl, i),
                      DiscardSubmission(run[r].ctl, i)}

(* The three kinds of steps of a submission.                               *)
LEMMA SubmissionShape ==
  ASSUME TypeOK, ControlSound, NEW i \in Input, SubmissionStep(i)
  PROVE  \E r \in Runs :
           /\ Enters(i, r)
           /\ SteerAdmitted(i, r) \/ SteerWritten(i, r) \/ NoSteerWritten(i, r)
<1> USE DEF Goto, Unchanged4Sub
<1>1. PICK r : r = sub[i].target OBVIOUS
<1>2. /\ pc[i] \in UnderWay \cup {"barrier"} /\ fallbackQ' = fallbackQ
      /\ promo' = promo /\ sub' = sub
  BY DEF SubmissionStep, Admit, Refuse, SteerRecorded, SteerNotified, UnderWay
<1>3. r \in Runs BY <1>1, <1>2 DEF ControlSound, InputSound, UnderWay
<1>4. /\ run \in [Runs -> RunRecord] /\ run[r] \in RunRecord /\ i \in Tasks
      /\ pc \in [Tasks -> RunPoints \cup CallerPoints \cup InputPoints]
  BY <1>3 DEF TypeOK, StateTypes, ControlPoints, Tasks
<1>5. ASSUME NEW d, run' = [run EXCEPT ![r].ctl = d]
      PROVE  /\ \A q \in Runs \ {r} : run'[q] = run[q]
             /\ run'[r].carried = run[r].carried /\ run'[r].status = run[r].status
             /\ run'[r].ctl = d
  <2> DEFINE x == [run[r] EXCEPT !.ctl = d]
  <2>1. run'[r] = x /\ \A q \in Runs \ {r} : run'[q] = run[q] BY <1>3, <1>4, <1>5
  <2>2. x.ctl = d /\ x.carried = run[r].carried /\ x.status = run[r].status
    BY <1>4 DEF RunRecord
  <2> HIDE DEF x
  <2> QED BY <2>1, <2>2
<1>6. ASSUME run' = run
      PROVE  /\ \A q \in Runs \ {r} : run'[q] = run[q]
             /\ run'[r].carried = run[r].carried /\ run'[r].status = run[r].status
             /\ run'[r].ctl = run[r].ctl
  BY <1>6
<1>7. ASSUME NEW at, pc' = [pc EXCEPT ![i] = at]
      PROVE  pc'[i] = at /\ \A t \in Tasks \ {i} : pc'[t] = pc[t]
  BY <1>4, <1>7
<1>8. ASSUME /\ \A t \in Tasks \ {i} : pc'[t] = pc[t]
             /\ \A q \in Runs \ {r} : run'[q] = run[q]
             /\ run'[r].carried = run[r].carried /\ run'[r].status = run[r].status,
             SteerAdmitted(i, r) \/ SteerWritten(i, r) \/ NoSteerWritten(i, r)
      PROVE  \E q \in Runs :
               /\ Enters(i, q)
               /\ SteerAdmitted(i, q) \/ SteerWritten(i, q) \/ NoSteerWritten(i, q)
  <2>1. Enters(i, r) BY <1>1, <1>2, <1>3, <1>8 DEF Enters
  <2> QED BY <1>3, <1>8, <2>1
<1>a. CASE Admit(i)
  <2>1. pc[i] = "barrier" /\ journal' = journal BY <1>a DEF Admit
  <2>2. CASE run' = run /\ pc' = [pc EXCEPT ![i] = "queued"]
    <3>1. NoSteerWritten(i, r) BY <1>4, <2>1, <2>2 DEF NoSteerWritten
    <3> QED BY <1>6, <1>7, <1>8, <2>2, <3>1
  <2>3. CASE /\ run' = [run EXCEPT ![r].ctl = ReserveSteer(run[r].ctl, i)]
             /\ pc' = [pc EXCEPT ![i] = "journaling"]
             /\ run[r].ctl.submissions /\ writers' = Append(writers, i)
    <3>1. SteerAdmitted(i, r) BY <1>5, <1>7, <2>1, <2>3 DEF SteerAdmitted
    <3> QED BY <1>5, <1>7, <1>8, <2>3, <3>1
  <2>4. \/ run' = run /\ pc' = [pc EXCEPT ![i] = "queued"]
        \/ /\ run' = [run EXCEPT ![r].ctl = ReserveSteer(run[r].ctl, i)]
           /\ pc' = [pc EXCEPT ![i] = "journaling"]
           /\ run[r].ctl.submissions /\ writers' = Append(writers, i)
    BY <1>1, <1>4, <1>a DEF Admit
  <2> QED BY <2>2, <2>3, <2>4
<1>b. CASE Refuse(i)
  <2>1. /\ pc[i] = "barrier" /\ journal' = journal /\ run' = run
        /\ pc' = [pc EXCEPT ![i] = "rejected"]
    BY <1>b DEF Refuse
  <2>2. NoSteerWritten(i, r) BY <1>4, <2>1 DEF NoSteerWritten
  <2> QED BY <1>6, <1>7, <1>8, <2>1, <2>2
<1>c. CASE SteerRecorded(i)
  <2> DEFINE e == [type |-> "user_steer", of |-> <<i>>, run |-> r]
  <2>1. pc[i] = "journaling" /\ MyTurn(i) /\ writers' = Unread
    BY <1>c DEF SteerRecorded, Written, WriteFails
  <2>2. \/ /\ journal' = Append(journal, e)
           /\ \/ /\ run' = [run EXCEPT ![r].ctl = MarkReady(run[r].ctl, i)]
                 /\ pc' = [pc EXCEPT ![i] = "steered"]
              \/ run' = run /\ pc' = [pc EXCEPT ![i] = "notifying"]
        \/ /\ journal' = journal /\ pc' = [pc EXCEPT ![i] = "rejected"]
           /\ run' = [run EXCEPT ![r].ctl = DiscardSubmission(run[r].ctl, i)]
    BY <1>1, <1>4, <1>c DEF SteerRecorded, Written, WriteFails
  <2>3. CASE /\ journal' = Append(journal, e)
             /\ run' = [run EXCEPT ![r].ctl = MarkReady(run[r].ctl, i)]
             /\ pc' = [pc EXCEPT ![i] = "steered"]
    <3>1. SteerWritten(i, r) BY <1>5, <1>7, <2>1, <2>3 DEF SteerWritten
    <3> QED BY <1>5, <1>7, <1>8, <2>3, <3>1
  <2>4. CASE /\ journal' = Append(journal, e)
             /\ run' = run /\ pc' = [pc EXCEPT ![i] = "notifying"]
    <3>1. SteerWritten(i, r) BY <1>6, <1>7, <2>1, <2>4 DEF SteerWritten
    <3> QED BY <1>6, <1>7, <1>8, <2>4, <3>1
  <2>5. CASE /\ journal' = journal /\ pc' = [pc EXCEPT ![i] = "rejected"]
             /\ run' = [run EXCEPT ![r].ctl = DiscardSubmission(run[r].ctl, i)]
    <3>1. NoSteerWritten(i, r) BY <1>5, <1>7, <2>1, <2>5 DEF NoSteerWritten
    <3> QED BY <1>5, <1>7, <1>8, <2>5, <3>1
  <2> QED BY <2>2, <2>3, <2>4, <2>5
<1>d. CASE SteerNotified(i)
  <2>1. /\ pc[i] = "notifying" /\ journal' = journal
        /\ run' = [run EXCEPT ![r].ctl = MarkReady(run[r].ctl, i)]
        /\ pc' = [pc EXCEPT ![i] = "steered"]
    BY <1>1, <1>4, <1>d DEF SteerNotified
  <2>2. NoSteerWritten(i, r) BY <1>5, <1>7, <2>1 DEF NoSteerWritten
  <2> QED BY <1>5, <1>7, <1>8, <2>1, <2>2
<1> QED BY <1>a, <1>b, <1>c, <1>d DEF SubmissionStep

(* The promotions are not concerned.                                       *)
LEMMA EntersPresents ==
  ASSUME TypeOK, NEW i \in Input, NEW r \in Runs, Enters(i, r)
  PROVE  \A h \in Hosts, j \in Input : Presents(h, j)' <=> Presents(h, j)
<1> SUFFICES ASSUME NEW h \in Hosts, NEW j \in Input
             PROVE  Presents(h, j)' <=> Presents(h, j)
  OBVIOUS
<1>1. h \in Tasks \ {i} BY RuntimeAssumption DEF Tasks, Hosts
<1>2. pc'[h] = pc[h] /\ promo'[h] = promo[h] BY <1>1 DEF Enters
<1>3. pc[h] = "activatingFallback" => promo[h] \in Runs
  BY DEF TypeOK, ControlPoints, Promoting
<1>4. \A q \in Runs : run'[q].carried = run[q].carried BY DEF Enters
<1> QED BY <1>2, <1>3, <1>4 DEF Presents

(* What the operations on an entry do to the order of the steers.          *)
LEMMA EntryOrder ==
  ASSUME NEW c \in Control, NEW i \in Input
  PROVE  /\ /\ c.current => c.fallback = <<>>
            /\ ~c.current => c.pending = <<>>
            => /\ Steers(ReserveSteer(c, i)) = Append(Steers(c), i)
               /\ ReserveSteer(c, i).current = c.current
               /\ ReserveSteer(c, i).submissions = c.submissions
               /\ c.current => ReserveSteer(c, i).fallback = <<>>
               /\ ~c.current => ReserveSteer(c, i).pending = <<>>
         /\ /\ Steers(MarkReady(c, i)) = Steers(c)
            /\ MarkReady(c, i).pending = c.pending
            /\ MarkReady(c, i).fallback = c.fallback
            /\ MarkReady(c, i).current = c.current
            /\ MarkReady(c, i).submissions = c.submissions
         /\ /\ DiscardSubmission(c, i).current = c.current
            /\ DiscardSubmission(c, i).submissions = c.submissions
            /\ c.pending = <<>> => DiscardSubmission(c, i).pending = <<>>
            /\ c.fallback = <<>> => DiscardSubmission(c, i).fallback = <<>>
            /\ \A j : Occurs(j, Steers(DiscardSubmission(c, i))) => Occurs(j, Steers(c))
            /\ \A j, k : Ahead(Steers(DiscardSubmission(c, i)), j, k) =>
                           Ahead(Steers(c), j, k)
<1>1. c.pending \in Seq(Input) /\ c.fallback \in Seq(Input) BY DEF Control
<1>2. ASSUME c.current => c.fallback = <<>>, ~c.current => c.pending = <<>>
      PROVE  /\ Steers(ReserveSteer(c, i)) = Append(Steers(c), i)
             /\ ReserveSteer(c, i).current = c.current
             /\ ReserveSteer(c, i).submissions = c.submissions
             /\ c.current => ReserveSteer(c, i).fallback = <<>>
             /\ ~c.current => ReserveSteer(c, i).pending = <<>>
  <2> DEFINE d == ReserveSteer(c, i)
  <2>1. CASE c.current
    <3>1. /\ d.pending = Append(c.pending, i) /\ d.fallback = <<>>
          /\ d.current = c.current /\ d.submissions = c.submissions
      BY <1>2, <2>1 DEF ReserveSteer, Control
    <3> HIDE DEF d
    <3>2. Append(c.pending, i) \in Seq(Input) BY <1>1, AppendProperties
    <3>3. Steers(d) = Append(c.pending, i) /\ Steers(c) = c.pending
      BY <1>1, <1>2, <2>1, <3>1, <3>2, ConcatEmptySeq DEF Steers
    <3> QED BY <2>1, <3>1, <3>3 DEF d
  <2>2. CASE ~c.current
    <3>1. /\ d.pending = <<>> /\ d.fallback = Append(c.fallback, i)
          /\ d.current = c.current /\ d.submissions = c.submissions
      BY <1>2, <2>2 DEF ReserveSteer, Control
    <3> HIDE DEF d
    <3>2. Append(c.fallback, i) \in Seq(Input) BY <1>1, AppendProperties
    <3>3. Steers(d) = Append(c.fallback, i) /\ Steers(c) = c.fallback
      BY <1>1, <1>2, <2>2, <3>1, <3>2, ConcatEmptySeq DEF Steers
    <3> QED BY <2>2, <3>1, <3>3 DEF d
  <2> QED BY <2>1, <2>2
<1>3. /\ MarkReady(c, i).pending = c.pending
      /\ MarkReady(c, i).fallback = c.fallback
      /\ MarkReady(c, i).current = c.current
      /\ MarkReady(c, i).submissions = c.submissions
  BY DEF MarkReady, RequestAfterTurn, Control
<1>4. Steers(MarkReady(c, i)) = Steers(c) BY <1>3 DEF Steers
<1>5. /\ DiscardSubmission(c, i).current = c.current
      /\ DiscardSubmission(c, i).submissions = c.submissions
      /\ c.pending = <<>> => DiscardSubmission(c, i).pending = <<>>
      /\ c.fallback = <<>> => DiscardSubmission(c, i).fallback = <<>>
      /\ \A j : Occurs(j, Steers(DiscardSubmission(c, i))) => Occurs(j, Steers(c))
      /\ \A j, k : Ahead(Steers(DiscardSubmission(c, i)), j, k) =>
                     Ahead(Steers(c), j, k)
  <2> DEFINE d == DiscardSubmission(c, i)
  <2>1. /\ d.pending = Without(c.pending, i) /\ d.fallback = Without(c.fallback, i)
        /\ d.submissions = c.submissions /\ d.current = c.current
    BY DEF DiscardSubmission, Control
  <2> HIDE DEF d
  <2>2. d.pending \in Seq(Input) /\ d.fallback \in Seq(Input)
    BY <1>1, <2>1, WithoutType
  <2>3. /\ \A j : Occurs(j, d.pending) => Occurs(j, c.pending)
        /\ \A j : Occurs(j, d.fallback) => Occurs(j, c.fallback)
    BY <1>1, <2>1, WithoutOccurs
  <2>4. /\ \A j, k : Ahead(d.pending, j, k) => Ahead(c.pending, j, k)
        /\ \A j, k : Ahead(d.fallback, j, k) => Ahead(c.fallback, j, k)
    BY <1>1, <2>1, AheadWithout
  <2>5. \A j : Occurs(j, Steers(d)) => Occurs(j, Steers(c))
    BY <1>1, <2>2, <2>3, OccursConcat DEF Steers
  <2>6. \A j, k : Ahead(Steers(d), j, k) => Ahead(Steers(c), j, k)
    BY <1>1, <2>2, <2>3, <2>4, AheadConcat DEF Steers
  <2>7. /\ c.pending = <<>> => d.pending = <<>>
        /\ c.fallback = <<>> => d.fallback = <<>>
    BY <2>1 DEF Without
  <2> QED BY <2>1, <2>5, <2>6, <2>7 DEF d
<1> QED BY <1>2, <1>3, <1>4, <1>5

(* A submission that ends without a record, or was notified, is a step     *)
(* that records no steer and admits none.                                  *)
LEMMA NoSteerOrder ==
  ASSUME TypeOK, TypeOK', ControlSound, ControlSound', SteersSound', OrderSound,
         LockKeeps, NEW i \in Input, NEW r \in Runs, Enters(i, r), NoSteerWritten(i, r)
  PROVE  OrderStep
<1>1. ASSUME NEW q \in Runs PROVE Dwindles(q)
  <2>1. Shaped(run[q]) BY DEF OrderSound
  <2>2. CASE q # r
    <3>1. run'[q] = run[q] BY <2>2 DEF Enters
    <3> QED BY <2>1, <3>1 DEF Dwindles, Holds
  <2>3. CASE q = r
    <3> PICK c, d : c = run[r].ctl /\ d = run'[r].ctl OBVIOUS
    <3>1. c \in Control BY DEF TypeOK, StateTypes, RunRecord
    <3>2. d \in {c, MarkReady(c, i), DiscardSubmission(c, i)} BY DEF NoSteerWritten
    <3>3. /\ d.current = c.current /\ d.submissions = c.submissions
          /\ c.pending = <<>> => d.pending = <<>>
          /\ c.fallback = <<>> => d.fallback = <<>>
          /\ \A j : Occurs(j, Steers(d)) => Occurs(j, Steers(c))
          /\ \A j, k : Ahead(Steers(d), j, k) => Ahead(Steers(c), j, k)
      BY <3>1, <3>2, EntryOrder
    <3>4. run'[r].status = run[r].status BY DEF Enters
    <3>5. Shaped(run'[r]) BY <2>1, <2>3, <3>3, <3>4 DEF Shaped
    <3> QED BY <2>3, <3>3, <3>5 DEF Dwindles, Holds
  <2> QED BY <2>2, <2>3
<1>2. FallbacksMove BY DEF Enters, FallbacksMove
<1>3. PresentsMove BY EntersPresents DEF PresentsMove
<1>4. InputsStay
  <2>1. ASSUME NEW j \in Input
        PROVE  /\ sub'[j] = sub[j]
               /\ pc[j] \in {"notifying", "steered"} => pc'[j] \in {"notifying", "steered"}
    BY DEF Enters, NoSteerWritten, Tasks, UnderWay
  <2>2. ASSUME NEW j \in Input, Waits(j)'
        PROVE  pc'[j] = "journaling" <=> pc[j] = "journaling"
    <3>1. pc'[j] \in Accepted
      <4>1. ASSUME NEW q \in Runs, Holds(q, j)' PROVE pc'[j] \in Accepted
        BY <4>1 DEF ControlSound, RunSound
      <4>2. ASSUME NEW h \in Hosts, Presents(h, j)' PROVE InPromotion(j)'
        BY <4>2 DEF Presents, InPromotion, Promotes, AtFallback
      <4>3. InFallbacks(j)' \/ InPromotion(j)' => pc'[j] = "steered"
        BY DEF SteersSound, SteerSound
      <4> QED BY <2>2, <4>1, <4>2, <4>3 DEF Waits, InControl, Accepted
    <3>2. CASE j # i BY <3>2 DEF Enters, Tasks
    <3>3. CASE j = i
      BY <3>1, <3>3 DEF NoSteerWritten, Accepted, UnderWay
    <3> QED BY <3>2, <3>3
  <2> QED BY <2>1, <2>2 DEF InputsStay
<1>5. JournalMoves BY DEF JournalMoves, NoSteerWritten
<1> QED BY <1>1, <1>2, <1>3, <1>4, <1>5 DEF OrderStep

(* A steer that is admitted comes after all others sent to its Run.        *)
LEMMA AdmittedOrder ==
  ASSUME TypeOK, TypeOK', ControlSound, SteersSound, OrderSound, LockSound,
         NEW i \in Input, NEW r \in Runs, Enters(i, r), SteerAdmitted(i, r)
  PROVE  OrderSound'
<1> PICK c, d : c = run[r].ctl /\ d = run'[r].ctl OBVIOUS
<1>1. c \in Control /\ Steers(c) \in Seq(Input) /\ writers \in Seq(Tasks)
  BY ControlOps DEF TypeOK, StateTypes, RunRecord
<1>2. Shaped(run[r]) /\ c.submissions BY DEF OrderSound, SteerAdmitted
<1>3. /\ c.current => c.fallback = <<>>
      /\ ~c.current => c.pending = <<>>
  BY <1>2 DEF Shaped
<1>4. /\ Steers(d) = Append(Steers(c), i)
      /\ d.current = c.current /\ d.submissions = c.submissions
      /\ d.current => d.fallback = <<>>
      /\ ~d.current => d.pending = <<>>
  <2>1. d = ReserveSteer(c, i) BY DEF SteerAdmitted
  <2> QED BY <1>1, <1>3, <2>1, EntryOrder
<1>5. Shaped(run'[r])
  <2>1. run'[r].status = run[r].status BY DEF Enters
  <2>2. d.pending # <<>> => d.current BY <1>4
  <2> QED BY <1>2, <1>4, <2>1, <2>2 DEF Shaped
<1>6. \A q \in Runs : Shaped(run'[q])
  BY <1>5 DEF OrderSound, Enters
<1>7. /\ pc[i] = "barrier" /\ pc'[i] = "journaling"
      /\ \A j \in Input \ {i} : pc'[j] = pc[j]
      /\ sub' = sub /\ fallbackQ' = fallbackQ /\ journal' = journal
      /\ writers' = Append(writers, i) /\ i \in Tasks
  BY DEF Enters, SteerAdmitted, Tasks
<1>8. ~Waits(i)
  BY <1>7, WaitsWhere DEF Accepted, UnderWay
<1>9. Records("user_steer", i) = {}
  BY <1>7 DEF OrderSound, RecordedOnce
<1>10. /\ \A type, j : Records(type, j)' = Records(type, j)
       /\ \A j, k : RecordedBefore(j, k)' <=> RecordedBefore(j, k)
  BY <1>7 DEF Records, RecordedBefore
<1>11. /\ \A j \in Input : Holds(r, j)' <=> Holds(r, j) \/ j = i
       /\ \A q \in Runs \ {r} : \A j \in Input : Holds(q, j)' <=> Holds(q, j)
  <2>1. \A j \in Input : Occurs(j, Steers(d)) <=> Occurs(j, Steers(c)) \/ j = i
    BY <1>1, <1>4, OccursAppend
  <2> QED BY <2>1 DEF Holds, Enters
<1>12. /\ \A j \in Input : InFallbacks(j)' <=> InFallbacks(j)
       /\ \A h \in Hosts, j \in Input : Presents(h, j)' <=> Presents(h, j)
  BY <1>7, EntersPresents DEF InFallbacks
<1>13. \A j \in Input : Waits(j)' <=> Waits(j) \/ j = i
  BY <1>11, <1>12 DEF Waits, InControl
<1>14. ASSUME NEW j \in Input PROVE RecordedOnce(j)'
  <2>1. RecordedOnce(j) BY DEF OrderSound
  <2> QED BY <1>7, <1>9, <1>10, <2>1 DEF RecordedOnce
<1>15. ASSUME NEW j \in Input PROVE HandedOver(j)'
  <2> SUFFICES ASSUME InFallbacks(j)' \/ \E h \in Hosts : Presents(h, j)',
                      NEW t, t = sub'[j].target
               PROVE  /\ ~run'[t].ctl.submissions
                      /\ \A k \in Input : ~Holds(t, k)'
    BY DEF HandedOver, Holds
  <2>1. InFallbacks(j) \/ \E h \in Hosts : Presents(h, j) BY <1>12
  <2>2. t = sub[j].target BY <1>7
  <2>3. ~run[t].ctl.submissions /\ \A k \in Input : ~Holds(t, k)
    BY <2>1, <2>2 DEF OrderSound, HandedOver
  <2>4. t \in Runs BY <2>1, <2>2, WaitsWhere DEF Waits
  <2>5. t # r BY <1>2, <2>3
  <2>6. run'[t] = run[t] BY <2>4, <2>5 DEF Enters
  <2> QED BY <1>11, <2>3, <2>4, <2>5, <2>6
<1>16. ASSUME NEW j \in Input, NEW k \in Input, InTurn(j, k)'
       PROVE  InTurn(j, k) \/ (k = i /\ Holds(r, j))
  <2>1. ASSUME NEW q \in Runs, Ahead(Steers(run'[q].ctl), j, k)
        PROVE  InTurn(j, k) \/ (k = i /\ Holds(r, j))
    <3>1. CASE q # r BY <2>1, <3>1 DEF InTurn, Enters
    <3>2. CASE q = r
      <4>1. Ahead(Append(Steers(c), i), j, k) BY <1>4, <2>1, <3>2
      <4>2. Ahead(Steers(c), j, k) \/ (Occurs(j, Steers(c)) /\ k = i)
        BY <1>1, <4>1, AheadAppend
      <4> QED BY <4>2 DEF InTurn, Holds
    <3> QED BY <3>1, <3>2
  <2>2. ASSUME NEW g \in Hosts, NEW h \in Hosts, Presents(g, j), Presents(h, k),
               Ahead(writers', g, h)
        PROVE  InTurn(j, k)
    <3>1. h # i BY RuntimeAssumption DEF Hosts
    <3>2. Ahead(writers, g, h) BY <1>1, <1>7, <2>2, <3>1, AheadAppend
    <3> QED BY <2>2, <3>2 DEF InTurn
  <2>3. CASE \/ Ahead(fallbackQ', j, k)
             \/ Occurs(k, fallbackQ') /\ \E h \in Hosts : Presents(h, j)'
    BY <1>7, <1>12, <2>3 DEF InTurn
  <2> QED BY <1>12, <1>16, <2>1, <2>2, <2>3 DEF InTurn
<1>17. ASSUME NEW j \in Input, NEW k \in Input PROVE TurnSound(j, k)'
  <2> SUFFICES ASSUME Together(j, k)', InTurn(j, k)'
               PROVE  /\ pc'[k] # "journaling" => RecordedBefore(j, k)'
                      /\ pc'[j] = "journaling" /\ pc'[k] = "journaling"
                           => Ahead(writers', j, k)
    BY DEF TurnSound
  <2>1. j \in Tasks /\ k \in Tasks BY DEF Tasks
  <2>2. CASE InTurn(j, k)
    <3>1. j # i /\ k # i BY <1>8, <2>2, TurnWaits
    <3>2. Together(j, k) BY <1>7 DEF Together
    <3>3. /\ pc[k] # "journaling" => RecordedBefore(j, k)
          /\ pc[j] = "journaling" /\ pc[k] = "journaling" => Ahead(writers, j, k)
      BY <2>2, <3>2 DEF OrderSound, TurnSound
    <3>4. pc'[j] = pc[j] /\ pc'[k] = pc[k] BY <1>7, <3>1
    <3>5. Ahead(writers, j, k) => Ahead(writers', j, k)
      BY <1>1, <1>7, AheadAppend
    <3> QED BY <1>10, <3>3, <3>4, <3>5
  <2>3. CASE k = i /\ Holds(r, j)
    <3>1. j # i BY <1>8, <2>3 DEF Waits, InControl
    <3>2. ASSUME pc'[j] = "journaling" PROVE Ahead(writers', j, k)
      <4>1. pc[j] \in Writing BY <1>7, <3>1, <3>2 DEF Writing, Shielded
      <4>2. Occurs(j, writers) BY <2>1, <4>1 DEF LockSound
      <4> QED BY <1>1, <1>7, <2>3, <4>2, AheadAppend
    <3> QED BY <1>7, <2>3, <3>2
  <2> QED BY <1>16, <2>2, <2>3
<1>18. ASSUME NEW j \in Input, NEW k \in Input PROVE NotPassed(j, k)'
  <2>1. NotPassed(j, k) BY DEF OrderSound
  <2>2. ~RecordedBefore(i, k) BY <1>9 DEF RecordedBefore
  <2>3. Together(j, k)' <=> Together(j, k) BY <1>7 DEF Together
  <2> QED BY <1>10, <1>13, <2>1, <2>2, <2>3 DEF NotPassed
<1>19. SteersInOrder'
  <2>1. SteersInOrder BY DEF OrderSound
  <2> QED BY <1>7, <2>1 DEF SteersInOrder, Records
<1> QED BY <1>6, <1>14, <1>15, <1>17, <1>18, <1>19 DEF OrderSound

(* A steer whose record is written was the first to wait for the journal.  *)
LEMMA WrittenOrder ==
  ASSUME TypeOK, TypeOK', ControlSound, SteersSound, OrderSound, LockSound,
         NEW i \in Input, NEW r \in Runs, Enters(i, r), SteerWritten(i, r)
  PROVE  OrderSound'
<1> PICK c, d : c = run[r].ctl /\ d = run'[r].ctl OBVIOUS
<1>1. c \in Control /\ writers \in Seq(Tasks) /\ journal \in Seq(Record)
  BY DEF TypeOK, StateTypes, RunRecord
<1>2. /\ Steers(d) = Steers(c) /\ d.pending = c.pending /\ d.fallback = c.fallback
      /\ d.current = c.current /\ d.submissions = c.submissions
  <2>1. d \in {c, MarkReady(c, i)} BY DEF SteerWritten
  <2> QED BY <1>1, <2>1, EntryOrder
<1>3. \A q \in Runs : Shaped(run'[q])
  <2>1. run'[r].status = run[r].status BY DEF Enters
  <2>2. Shaped(run'[r]) BY <1>2, <2>1 DEF OrderSound, Shaped
  <2> QED BY <2>2 DEF OrderSound, Enters
<1>4. /\ pc[i] = "journaling" /\ pc'[i] \in {"notifying", "steered"}
      /\ \A j \in Input \ {i} : pc'[j] = pc[j]
      /\ sub' = sub /\ fallbackQ' = fallbackQ /\ i \in Tasks
      /\ writers # <<>> /\ Head(writers) = i /\ writers' = Tail(writers)
  BY DEF Enters, SteerWritten, Tasks, MyTurn, Unread
<1>5. /\ \A q \in Runs, j \in Input : Holds(q, j)' <=> Holds(q, j)
      /\ \A q \in Runs : \A j, k : Ahead(Steers(run'[q].ctl), j, k) =>
                                 Ahead(Steers(run[q].ctl), j, k)
      /\ \A j \in Input : InFallbacks(j)' <=> InFallbacks(j)
      /\ \A h \in Hosts, j \in Input : Presents(h, j)' <=> Presents(h, j)
      /\ \A q \in Runs : run'[q].ctl.submissions <=> run[q].ctl.submissions
  BY <1>2, <1>4, EntersPresents DEF Holds, Enters, InFallbacks
<1>6. \A j \in Input : Waits(j)' <=> Waits(j)
  BY <1>5 DEF Waits, InControl
<1> DEFINE e == [type |-> "user_steer", of |-> <<i>>, run |-> r]
           n == Len(journal) + 1
<1>7. journal' = Append(journal, e) BY DEF SteerWritten
<1>8. e.type = "user_steer" /\ \A j : Occurs(j, e.of) <=> j = i
  BY DEF Occurs
<1> HIDE DEF e
<1>9. /\ n \in DOMAIN journal' /\ Len(journal) \in Nat
      /\ \A k \in DOMAIN journal : /\ k \in DOMAIN journal' /\ k \in 1 .. Len(journal)
                                   /\ journal'[k] = journal[k]
      /\ \A type, j : \A k \in Records(type, j)' :
           \/ k \in Records(type, j) /\ k \in DOMAIN journal
           \/ k = n /\ type = "user_steer" /\ j = i
      /\ \A type, j : Records(type, j) \subseteq Records(type, j)'
      /\ n \in Records("user_steer", i)'
  BY <1>1, <1>7, <1>8, RecordsAppend
<1>10. /\ Records("user_steer", i) = {} /\ Records("activated", i) = {}
  <2>1. Records("user_steer", i) = {} BY <1>4 DEF OrderSound, RecordedOnce
  <2>2. ASSUME NEW k \in Records("activated", i) PROVE FALSE
    <3>1. Disposed(i) BY <2>2 DEF Records, Disposed, Disposes, Disposing
    <3> QED BY <1>4, <3>1 DEF SteersSound, SteerSound
  <2> QED BY <2>1, <2>2
<1>11. /\ \A k \in Records("user_steer", i)' : k = n
       /\ \A j : j # i => Records("user_steer", j)' = Records("user_steer", j)
       /\ \A j : Records("activated", j)' = Records("activated", j)
  <2>1. ASSUME NEW k \in Records("user_steer", i)' PROVE k = n
    BY <1>9, <1>10, <2>1
  <2>2. ASSUME NEW j, NEW type, j # i \/ type # "user_steer"
        PROVE  Records(type, j)' = Records(type, j)
    <3>1. Records(type, j)' \subseteq Records(type, j) BY <1>9, <2>2
    <3>2. Records(type, j) \subseteq Records(type, j)' BY <1>9
    <3> QED BY <3>1, <3>2
  <2> QED BY <2>1, <2>2
<1>12. ASSUME NEW j \in Input, NEW k \in Input, RecordedBefore(j, k)', k # i
       PROVE  RecordedBefore(j, k)
  <2>1. PICK x \in Records("user_steer", j)', y \in Records("user_steer", k)' : x < y
    BY <1>12 DEF RecordedBefore
  <2>2. y \in Records("user_steer", k) /\ y \in 1 .. Len(journal)
    BY <1>9, <1>12
  <2>3. x \in Records("user_steer", j) BY <1>9, <2>1, <2>2
  <2> QED BY <2>1, <2>2, <2>3 DEF RecordedBefore
<1>13. ASSUME NEW j \in Input PROVE RecordedOnce(j)'
  <2>1. RecordedOnce(j) BY DEF OrderSound
  <2> QED BY <1>4, <1>11, <2>1 DEF RecordedOnce
<1>14. ASSUME NEW j \in Input PROVE HandedOver(j)'
  <2> SUFFICES ASSUME InFallbacks(j)' \/ \E h \in Hosts : Presents(h, j)',
                      NEW t, t = sub'[j].target
               PROVE  /\ ~run'[t].ctl.submissions
                      /\ \A k \in Input : ~Holds(t, k)'
    BY DEF HandedOver, Holds
  <2>1. InFallbacks(j) \/ \E h \in Hosts : Presents(h, j) BY <1>5
  <2>2. t = sub[j].target BY <1>4
  <2>3. ~run[t].ctl.submissions /\ \A k \in Input : ~Holds(t, k)
    BY <2>1, <2>2 DEF OrderSound, HandedOver
  <2>4. t \in Runs BY <2>1, <2>2, WaitsWhere DEF Waits
  <2> QED BY <1>5, <2>3, <2>4
<1>15. ASSUME NEW j \in Tasks, NEW k \in Tasks
       PROVE  /\ Ahead(writers', j, k) => Ahead(writers, j, k)
              /\ Ahead(writers, j, k) /\ j # i => Ahead(writers', j, k)
              /\ Ahead(writers, j, k) => k # i
  <2>1. IsInjective(writers) BY DEF LockSound
  <2>2. Ahead(writers, j, k) <=> Ahead(writers', j, k) \/ (j = i /\ Occurs(k, writers'))
    BY <1>1, <1>4, AheadTail
  <2>3. ~Occurs(i, writers') /\ writers' \in Seq(Tasks)
    BY <1>1, <1>4, <2>1, InjectiveTail DEF TypeOK, StateTypes
  <2>4. Ahead(writers', j, k) => Occurs(k, writers')
    BY <2>3, AheadOnce
  <2> QED BY <2>2, <2>3, <2>4
<1>16. ASSUME NEW j \in Input, NEW k \in Input, InTurn(j, k)' PROVE InTurn(j, k)
  <2>1. Hosts \subseteq Tasks BY DEF Tasks
  <2> QED BY <1>4, <1>5, <1>15, <1>16, <2>1 DEF InTurn
<1>17. ASSUME NEW j \in Input, NEW k \in Input PROVE TurnSound(j, k)'
  <2> SUFFICES ASSUME Together(j, k)', InTurn(j, k)'
               PROVE  /\ pc'[k] # "journaling" => RecordedBefore(j, k)'
                      /\ pc'[j] = "journaling" /\ pc'[k] = "journaling"
                           => Ahead(writers', j, k)
    BY DEF TurnSound
  <2>1. j \in Tasks /\ k \in Tasks BY DEF Tasks
  <2>2. InTurn(j, k) /\ Together(j, k) BY <1>4, <1>16 DEF Together
  <2>3. /\ pc[k] # "journaling" => RecordedBefore(j, k)
        /\ pc[j] = "journaling" /\ pc[k] = "journaling" => Ahead(writers, j, k)
    BY <2>2 DEF OrderSound, TurnSound
  <2>4. CASE k = i
    <3>1. pc[j] # "journaling" BY <1>4, <1>15, <2>1, <2>3, <2>4
    <3>2. pc[j] \in Accepted BY <2>2, TurnWaits, WaitsWhere
    <3>3. PICK x : x \in Records("user_steer", j)
      BY <3>1, <3>2 DEF SteersSound, SteerSound, Accepted, UnderWay
    <3>4. x \in DOMAIN journal BY <3>3 DEF Records
    <3>5. x < n /\ x \in Records("user_steer", j)' BY <1>9, <3>3, <3>4
    <3>6. RecordedBefore(j, k)' BY <1>9, <2>4, <3>5 DEF RecordedBefore
    <3> QED BY <1>4, <2>4, <3>6
  <2>5. CASE k # i /\ j = i
    <3>1. ~RecordedBefore(j, k) BY <1>10, <2>5 DEF RecordedBefore
    <3> QED BY <1>4, <2>3, <2>5, <3>1
  <2>6. CASE k # i /\ j # i
    <3>1. pc'[j] = pc[j] /\ pc'[k] = pc[k] BY <1>4, <2>6
    <3>2. RecordedBefore(j, k) => RecordedBefore(j, k)'
      BY <1>9 DEF RecordedBefore
    <3> QED BY <1>15, <2>1, <2>3, <2>6, <3>1, <3>2
  <2> QED BY <2>4, <2>5, <2>6
<1>18. ASSUME NEW j \in Input, NEW k \in Input PROVE NotPassed(j, k)'
  <2>1. NotPassed(j, k) BY DEF OrderSound
  <2>2. Together(j, k)' <=> Together(j, k) BY <1>4 DEF Together
  <2> QED BY <1>6, <1>10, <1>11, <1>12, <2>1, <2>2 DEF NotPassed
<1>19. SteersInOrder'
  <2> SUFFICES ASSUME NEW j \in Input, NEW k \in Input,
                      sub'[j].target = sub'[k].target,
                      NEW kj \in Records("user_steer", j)',
                      NEW kk \in Records("user_steer", k)',
                      NEW aj \in Records("activated", j)',
                      NEW ak \in Records("activated", k)', kj < kk
               PROVE  \/ aj < ak
                      \/ /\ aj = ak
                         /\ \E m, l \in DOMAIN journal'[aj].of :
                              /\ m < l /\ journal'[aj].of[m] = j
                              /\ journal'[aj].of[l] = k
    BY DEF SteersInOrder
  <2>1. aj \in Records("activated", j) /\ ak \in Records("activated", k)
    BY <1>11
  <2>2. j # i /\ k # i BY <1>10, <2>1
  <2>3. kj \in Records("user_steer", j) /\ kk \in Records("user_steer", k)
    BY <1>11, <2>2
  <2>4. journal'[aj] = journal[aj] BY <1>9, <2>1 DEF Records
  <2>5. SteersInOrder BY DEF OrderSound
  <2> QED BY <1>4, <2>1, <2>3, <2>4, <2>5 DEF SteersInOrder
<1> QED BY <1>3, <1>13, <1>14, <1>17, <1>18, <1>19 DEF OrderSound

-----------------------------------------------------------------------------
(* The steps of the Runs, of their tails and of the user.                  *)

(* What a Run or a promotion loses, it loses without a change of order.    *)
LEMMA AllDwindle ==
  ASSUME OrderSound, AllLose
  PROVE  \A q \in Runs : Dwindles(q)
<1> SUFFICES ASSUME NEW q \in Runs PROVE Dwindles(q) OBVIOUS
<1>1. Shaped(run[q]) /\ Loses(q) BY DEF OrderSound, AllLose
<1>2. Leaves(run'[q].ctl, q) BY <1>1 DEF Loses
<1>3. /\ \A i \in Input : Holds(q, i)' => Holds(q, i)
      /\ \A i, j \in Input : Ahead(Steers(run'[q].ctl), i, j) =>
                               Ahead(Steers(run[q].ctl), i, j)
  BY <1>1, <1>2 DEF Leaves, Holds
<1>4. /\ pc[q] # "absent" /\ run'[q].ctl.submissions => run[q].ctl.submissions
      /\ Shaped(run'[q])
  BY <1>1 DEF Loses, Narrows
<1> QED BY <1>3, <1>4 DEF Dwindles

(* The Runs there are keep the input they were created for.                *)
CarriedStay ==
  \A q \in Runs : pc[q] # "absent" => run'[q].carried = run[q].carried

(* A host that waits to activate a fallback is one that waited before.     *)
NoneTakes(S) ==
  \A h \in S : pc'[h] = "activatingFallback" =>
                 pc[h] = "activatingFallback" /\ promo'[h] = promo[h]

(* Then it presents the same steer.                                        *)
LEMMA PresentsStay ==
  ASSUME TypeOK, Promotions, CarriedStay, NEW S \in SUBSET Hosts, NoneTakes(S)
  PROVE  \A h \in S, i \in Input : Presents(h, i)' => Presents(h, i)
<1> SUFFICES ASSUME NEW h \in S, NEW i \in Input, Presents(h, i)'
             PROVE  Presents(h, i)
  OBVIOUS
<1>1. /\ pc[h] = "activatingFallback" /\ promo'[h] = promo[h] /\ h \in Hosts
      /\ run'[promo[h]].carried = i
  BY DEF Presents, NoneTakes
<1>2. promo[h] \in Runs /\ promo[h] <= started
  BY <1>1 DEF TypeOK, ControlPoints, Promoting, Promotions
<1>3. pc[promo[h]] # "absent"
  BY <1>2 DEF TypeOK, StateTypes, ControlPoints, Runs
<1> QED BY <1>1, <1>2, <1>3 DEF CarriedStay, Presents

(* What is in a sequence and not in its prefix comes after the prefix.     *)
LEMMA AheadPrefix ==
  ASSUME NEW S, NEW p \in Seq(S), NEW t \in Seq(S), NEW g \in Seq(S),
         \A k \in DOMAIN g : k \in DOMAIN p /\ g[k] = p[k], NEW i, NEW j
  PROVE  /\ Occurs(j, g) /\ Occurs(i, p \o t) /\ ~Occurs(i, g) => Ahead(p \o t, j, i)
         /\ Ahead(g, j, i) => Ahead(p \o t, j, i)
<1>1. /\ p \o t \in Seq(S) /\ Len(p \o t) = Len(p) + Len(t)
      /\ \A k \in 1 .. Len(p) + Len(t) :
           (p \o t)[k] = IF k <= Len(p) THEN p[k] ELSE t[k - Len(p)]
      /\ Len(p) \in Nat /\ Len(t) \in Nat /\ Len(g) \in Nat
  BY ConcatProperties
<1>2. /\ DOMAIN (p \o t) = 1 .. Len(p) + Len(t)
      /\ DOMAIN p = 1 .. Len(p) /\ DOMAIN g = 1 .. Len(g)
  BY <1>1
<1>3. \A k \in 1 .. Len(p) : (p \o t)[k] = p[k] /\ k \in DOMAIN (p \o t)
  BY <1>1, <1>2
<1>4. \A k \in 1 .. Len(g) : (p \o t)[k] = g[k] /\ k \in DOMAIN (p \o t)
  BY <1>2, <1>3
<1>5. ASSUME Occurs(j, g), Occurs(i, p \o t), ~Occurs(i, g) PROVE Ahead(p \o t, j, i)
  <2>1. PICK m \in 1 .. Len(g) : g[m] = j BY <1>2, <1>5 DEF Occurs
  <2>2. PICK n \in 1 .. Len(p) + Len(t) : (p \o t)[n] = i BY <1>2, <1>5 DEF Occurs
  <2>3. n \notin 1 .. Len(g) BY <1>2, <1>4, <1>5, <2>2 DEF Occurs
  <2>4. m < n BY <1>1, <2>1, <2>2, <2>3
  <2> QED BY <1>2, <1>4, <2>1, <2>2, <2>4 DEF Ahead
<1>6. ASSUME Ahead(g, j, i) PROVE Ahead(p \o t, j, i)
  <2>1. PICK m, n \in 1 .. Len(g) : m < n /\ g[m] = j /\ g[n] = i
    BY <1>2, <1>6 DEF Ahead
  <2> QED BY <1>4, <2>1 DEF Ahead
<1> QED BY <1>5, <1>6

(* The staged steers are the first of those a Run holds, in their order.   *)
LEMMA StagedAhead ==
  ASSUME TypeOK, ControlSound, NEW r \in Runs, pc[r] = "activating",
         NEW i \in Input, NEW j \in Input
  PROVE  /\ Occurs(j, run[r].staged) /\ Holds(r, i) /\ ~Occurs(i, run[r].staged)
              => Ahead(Steers(run[r].ctl), j, i)
         /\ Ahead(run[r].staged, j, i) => Ahead(Steers(run[r].ctl), j, i)
<1> PICK p, t, g : p = run[r].ctl.pending /\ t = run[r].ctl.fallback /\ g = run[r].staged
  OBVIOUS
<1>1. p \in Seq(Input) /\ t \in Seq(Input) /\ g \in Seq(Input)
  BY DEF TypeOK, StateTypes, RunRecord, Control
<1>2. \A k \in DOMAIN g : k \in DOMAIN p /\ g[k] = p[k]
  BY DEF ControlSound, RunSound, StagedFirst
<1>3. Steers(run[r].ctl) = p \o t BY DEF Steers
<1> QED BY <1>1, <1>2, <1>3, AheadPrefix DEF Holds

(* What the step of a Run does to the Session's fallbacks.                 *)
LEMMA RunHands ==
  ASSUME TypeOK, OrderSound, AllLose, NEW r \in Runs, NEW c \in Control,
         NEW g, Ends(r, c, g)
  PROVE  /\ FallbacksMove
         /\ \A i \in Input : InFallbacks(i)' =>
              InFallbacks(i) \/ (Holds(r, i) /\ ~Occurs(i, g))
<1>1. /\ Shaped(run[r]) /\ Shaped(run'[r]) /\ LeavesAt(r, c) /\ Leaves(c, r)
  BY AllDwindle DEF OrderSound, Ends, Dwindles
<1>2. CASE fallbackQ' = fallbackQ
  BY <1>2 DEF FallbacksMove, InFallbacks
<1>3. CASE /\ fallbackQ' = fallbackQ \o c.fallback /\ c.pending = <<>>
           /\ run'[r].status = "completed" /\ \A i \in Input : ~Holds(r, i)'
  <2>1. c.fallback \in Seq(Input) /\ fallbackQ \in Seq(Input)
    BY DEF Control, TypeOK, StateTypes
  <2>2. Steers(c) = c.fallback BY <1>3, <2>1, ConcatEmptySeq DEF Steers
  <2>3. ~run'[r].ctl.submissions BY <1>1, <1>3 DEF Shaped
  <2>4. \A i \in Input : Occurs(i, c.fallback) => Holds(r, i) /\ ~Occurs(i, g)
    BY <2>2 DEF Ends
  <2>5. \A i, j \in Input : Ahead(c.fallback, i, j) => Ahead(Steers(run[r].ctl), i, j)
    BY <1>1, <2>2 DEF Leaves
  <2>6. Hands(r, c.fallback) BY <1>3, <2>3, <2>4, <2>5 DEF Hands
  <2>7. FallbacksMove BY <2>1, <2>6 DEF FallbacksMove
  <2>8. \A i \in Input : Occurs(i, fallbackQ') <=>
                           Occurs(i, fallbackQ) \/ Occurs(i, c.fallback)
    BY <1>3, <2>1, OccursConcat
  <2> QED BY <2>4, <2>7, <2>8 DEF InFallbacks
<1> QED BY <1>1, <1>2, <1>3 DEF LeavesAt

(* The activation at a boundary: the staged steers are the first that wait.*)
LEMMA StagedInTurn ==
  ASSUME TypeOK, ControlSound, SteersSound, OrderSound, AllLose, NEW r \in Runs,
         NEW c \in Control, pc[r] = "activating", Ends(r, c, run[r].staged),
         \A h \in Hosts, i \in Input : Presents(h, i)' => Presents(h, i),
         sub' = sub, NEW e, e.of = run[r].staged
  PROVE  TakesTurns(e)
<1> SUFFICES ASSUME NEW j \in Input, Occurs(j, run[r].staged)
             PROVE  /\ Waits(j) /\ pc[j] = "steered"
                    /\ \A i \in Input : Together(i, j) /\ Waits(i)' => InTurn(j, i)
                    /\ \A i \in Input : Ahead(run[r].staged, j, i) => InTurn(j, i)
  BY DEF TakesTurns
<1>1. Holds(r, j) /\ pc[j] = "steered" BY DEF Ends
<1>2. Waits(j) BY <1>1 DEF Waits, InControl
<1>3. sub[j].target = r BY <1>1 DEF ControlSound, RunSound
<1>4. ASSUME NEW i \in Input, Together(i, j), Waits(i)'
      PROVE  Holds(r, i) /\ ~Occurs(i, run[r].staged)
  <2>1. sub[i].target = r BY <1>3, <1>4 DEF Together
  <2>2. ~InFallbacks(i) /\ ~\E h \in Hosts : Presents(h, i)
    BY <1>1, <2>1 DEF OrderSound, HandedOver
  <2>3. InControl(i)' \/ InFallbacks(i)' BY <1>4, <2>2 DEF Waits
  <2>4. CASE InFallbacks(i)' BY <2>2, <2>4, RunHands
  <2>5. ASSUME NEW q \in Runs, Holds(q, i)'
        PROVE  Holds(r, i) /\ ~Occurs(i, run[r].staged)
    <3>1. Holds(q, i) BY <2>5, AllDwindle DEF Dwindles
    <3>2. q = r BY <2>1, <3>1 DEF ControlSound, RunSound
    <3>3. Occurs(i, Steers(c)) BY <2>5, <3>2 DEF Ends, LeavesAt
    <3> QED BY <3>1, <3>2, <3>3 DEF Ends
  <2> QED BY <2>3, <2>4, <2>5 DEF InControl
<1>5. \A i \in Input : Together(i, j) /\ Waits(i)' => InTurn(j, i)
  BY <1>4, StagedAhead DEF InTurn
<1>6. \A i \in Input : Ahead(run[r].staged, j, i) => InTurn(j, i)
  BY StagedAhead DEF InTurn
<1> QED BY <1>1, <1>2, <1>5, <1>6

(* Every step of a Run up to its tail.                                     *)
LEMMA RunStepOrder ==
  ASSUME TypeOK, TypeOK', Promotions, ControlSound, SteersSound, OrderSound,
         AllLose, LockKeeps, NEW r \in Runs,
         RunStep(r) \/ AgentFails(r) \/ ApprovalReturns(r), ~RunEndNotified(r)
  PROVE  OrderStep
<1>1. /\ sub' = sub /\ promo' = promo /\ Identities(run')
      /\ \A i \in Input : pc'[i] = pc[i]
      /\ \A h \in Hosts : \/ pc'[h] = pc[h]
                          \/ pc[h] \notin Promoting /\ pc'[h] \notin Promoting
  BY RunStepFacts
<1>2. \A h \in Hosts, i \in Input : Presents(h, i)' => Presents(h, i)
  <2>1. CarriedStay BY <1>1 DEF CarriedStay, Identities, SameIdentity
  <2>2. NoneTakes(Hosts) BY <1>1 DEF NoneTakes, Promoting
  <2> QED BY <2>1, <2>2, PresentsStay
<1>3. InputsStay BY <1>1 DEF InputsStay
<1>4. FallbacksMove /\ JournalMoves
  <2>1. CASE DiscardRecorded(r)
    <3>1. fallbackQ' = fallbackQ BY <2>1 DEF DiscardRecorded
    <3>2. JournalMoves
      BY <2>1 DEF DiscardRecorded, Written, WriteFails, JournalMoves
    <3> QED BY <3>1, <3>2 DEF FallbacksMove
  <2>2. CASE ~DiscardRecorded(r)
    <3>1. CASE fallbackQ' = fallbackQ /\ journal' = journal
      BY <3>1 DEF FallbacksMove, JournalMoves
    <3>2. CASE NoSteerRecord /\ \E c \in Control : Ends(r, c, <<>>)
      <4>1. FallbacksMove BY <3>2, RunHands
      <4>2. JournalMoves BY <3>2 DEF NoSteerRecord, JournalMoves, Disposing
      <4> QED BY <4>1, <4>2
    <3>3. ASSUME pc[r] = "activating",
                 journal' = Append(journal, [type |-> "activated",
                                             of |-> run[r].staged, run |-> r]),
                 NEW c \in Control, Ends(r, c, run[r].staged)
          PROVE  FallbacksMove /\ JournalMoves
      <4>1. FallbacksMove BY <3>3, RunHands
      <4> DEFINE e == [type |-> "activated", of |-> run[r].staged, run |-> r]
      <4>2. /\ e.of = run[r].staged /\ e.type # "user_steer"
            /\ journal' = Append(journal, e)
        BY <3>3
      <4> HIDE DEF e
      <4>3. TakesTurns(e) BY <1>1, <1>2, <3>3, <4>2, StagedInTurn
      <4> QED BY <4>1, <4>2, <4>3 DEF JournalMoves
    <3> QED BY <2>2, <3>1, <3>2, <3>3, RunPlaces
  <2> QED BY <2>1, <2>2
<1> QED BY <1>2, <1>3, <1>4, AllDwindle DEF OrderStep, PresentsMove

(* A promotion starts: no host but its own begins to present a steer.      *)
LEMMA PromoteCarries ==
  ASSUME TypeOK, NEW h \in Hosts, h \in Runs => pc[h] # "absent",
         NEW runs \in [Runs -> RunRecord], Identities(runs),
         NEW origin, NEW i, NEW at \in Promoting,
         Promote(h, origin, i, at, runs)
  PROVE  /\ CarriedStay /\ NoneTakes(Hosts \ {h})
         /\ \A j \in Input : pc'[j] = pc[j]
         /\ pc'[h] = at /\ promo'[h] \in Runs /\ run'[promo'[h]].carried = i
<1> PICK n : n = Next1 OBVIOUS
<1> DEFINE x == CreatedRun(origin, i, sub[i].behaviour)
<1>1. /\ run' = [runs EXCEPT ![n] = x] /\ promo' = [promo EXCEPT ![h] = n]
      /\ pc' = [pc EXCEPT ![n] = "created", ![h] = at]
      /\ x.carried = i
  BY DEF Promote, CreatedRun
<1>2. n \in Runs /\ h # n BY PointsPromote
<1>3. pc[n] = "absent"
  BY <1>2 DEF TypeOK, ControlPoints, StateTypes, Next1, Runs
<1>4. /\ Input \subseteq Tasks /\ Hosts \subseteq Tasks /\ n \in Hosts
      /\ Input \cap Hosts = {} /\ Runs \subseteq Hosts
      /\ pc \in [Tasks -> RunPoints \cup CallerPoints \cup InputPoints]
      /\ promo \in [Hosts -> Runs \cup {None}]
  BY <1>2, RuntimeAssumption DEF TypeOK, ControlPoints, Tasks, Hosts
<1> HIDE DEF x
<1>5. /\ run'[n] = x /\ pc'[n] = "created" /\ pc'[h] = at /\ promo'[h] = n
      /\ \A q \in Runs \ {n} : run'[q] = runs[q]
      /\ \A t \in Tasks \ {n, h} : pc'[t] = pc[t]
      /\ \A g \in Hosts \ {h} : promo'[g] = promo[g]
  BY <1>1, <1>2, <1>4
<1>6. CarriedStay BY <1>3, <1>5 DEF CarriedStay, Identities, SameIdentity
<1>7. NoneTakes(Hosts \ {h}) BY <1>4, <1>5 DEF NoneTakes
<1> QED BY <1>1, <1>2, <1>4, <1>5, <1>6, <1>7

(* So with the promotion of a queued input, and without a promotion.       *)
LEMMA QueueCarries ==
  ASSUME TypeOK, NEW h \in Hosts, h \in Runs => pc[h] # "absent",
         NEW runs \in [Runs -> RunRecord], Identities(runs),
         NEW isPaused, NEW holder,
         NoPromotion(h, runs) \/ TryPromoteQueue(h, runs, isPaused, holder)
  PROVE  /\ CarriedStay /\ NoneTakes(Hosts)
         /\ \A j \in Input : pc'[j] = pc[j]
<1>1. CASE NoPromotion(h, runs)
  <2>1. /\ run' = runs
        /\ pc' = [pc EXCEPT ![h] = IF h \in Runs THEN "done" ELSE "idle"]
        /\ promo' = [promo EXCEPT ![h] = None]
    BY <1>1 DEF NoPromotion, EndHost
  <2>2. /\ h \in Tasks /\ h \notin Input /\ Hosts \subseteq Tasks
        /\ Input \subseteq Tasks
        /\ pc \in [Tasks -> RunPoints \cup CallerPoints \cup InputPoints]
        /\ promo \in [Hosts -> Runs \cup {None}]
    BY RuntimeAssumption DEF TypeOK, ControlPoints, Tasks, Hosts
  <2>3. /\ pc'[h] \in {"done", "idle"} /\ \A t \in Tasks \ {h} : pc'[t] = pc[t]
        /\ \A g \in Hosts \ {h} : promo'[g] = promo[g]
    BY <2>1, <2>2
  <2>4. CarriedStay BY <2>1 DEF CarriedStay, Identities, SameIdentity
  <2>5. NoneTakes(Hosts) BY <2>2, <2>3 DEF NoneTakes
  <2> QED BY <2>2, <2>3, <2>4, <2>5
<1>2. CASE Promote(h, "queue", Head(queue), "yielding", runs)
  <2>1. "yielding" \in Promoting BY DEF Promoting
  <2> QED BY <1>2, <2>1, PromoteCarries DEF NoneTakes
<1> QED BY <1>1, <1>2 DEF TryPromoteQueue

(* The tail of a Run and the end of maintenance promote pending work.      *)
LEMMA PendingOrder ==
  ASSUME TypeOK, Promotions, OrderSound, AllLose, LockKeeps,
         NEW h \in Hosts, pc[h] \notin Writing \cup {"absent"}, NEW holder,
         TryPromotePending(h, run, holder), sub' = sub, journal' = journal
  PROVE  OrderStep
<1>1. run \in [Runs -> RunRecord] /\ Identities(run)
  BY DEF TypeOK, StateTypes, Identities, SameIdentity
<1>2. CASE /\ NoPromotion(h, run) \/ TryPromoteQueue(h, run, paused, holder)
           /\ fallbackQ' = fallbackQ
  <2>1. /\ CarriedStay /\ NoneTakes(Hosts)
        /\ \A j \in Input : pc'[j] = pc[j]
    BY <1>1, <1>2, QueueCarries
  <2>2. PresentsMove BY <2>1, PresentsStay DEF PresentsMove
  <2>3. InputsStay BY <2>1 DEF InputsStay
  <2> QED BY <1>2, <2>2, <2>3, AllDwindle
          DEF OrderStep, FallbacksMove, JournalMoves
<1>3. CASE /\ fallbackQ # <<>> /\ fallbackQ' = Tail(fallbackQ)
           /\ Promote(h, "steer", Head(fallbackQ), "activatingFallback", run)
  <2> PICK i : i = Head(fallbackQ) OBVIOUS
  <2>1. /\ "activatingFallback" \in Promoting /\ pc[h] # "absent"
        /\ Promote(h, "steer", i, "activatingFallback", run)
    BY <1>3 DEF Promoting
  <2>2. /\ CarriedStay /\ NoneTakes(Hosts \ {h})
        /\ \A j \in Input : pc'[j] = pc[j]
        /\ run'[promo'[h]].carried = i
    BY <1>1, <2>1, PromoteCarries
  <2>3. \A g \in Hosts \ {h}, j \in Input : Presents(g, j)' => Presents(g, j)
    BY <2>2, PresentsStay
  <2>4. ASSUME NEW j \in Input, Presents(h, j)' PROVE Takes(h, j)
    <3>1. j = i BY <2>2, <2>4 DEF Presents
    <3>2. pc[h] \notin Writing OBVIOUS
    <3> QED BY <1>3, <3>1, <3>2 DEF Takes
  <2>5. PresentsMove BY <2>3, <2>4 DEF PresentsMove
  <2>6. InputsStay BY <2>2 DEF InputsStay
  <2> QED BY <1>3, <2>5, <2>6, AllDwindle
          DEF OrderStep, FallbacksMove, JournalMoves
<1> QED BY <1>2, <1>3 DEF TryPromotePending

(* The activation of a fallback: its promotion was the first to wait.      *)
LEMMA FallbackInTurn ==
  ASSUME TypeOK, ControlSound, SteersSound, OrderSound, AllLose, LockSound,
         NEW h \in Hosts, pc[h] = "activatingFallback", MyTurn(h),
         pc'[h] = "notifyingFallback", fallbackQ' = fallbackQ,
         \A g \in Hosts, i \in Input : Presents(g, i)' => Presents(g, i),
         NEW j \in Input, run[promo[h]].carried = j, NEW e, e.of = <<j>>
  PROVE  TakesTurns(e)
<1>1. Presents(h, j) BY DEF Presents
<1>2. Waits(j) BY <1>1 DEF Waits
<1>3. pc[j] = "steered" BY <1>1, <1>2, WaitsWhere
<1>4. /\ DOMAIN <<j>> = {1} /\ \A i : Occurs(i, <<j>>) <=> i = j
      /\ \A i : ~Ahead(<<j>>, j, i)
  BY DEF Occurs, Ahead
<1>5. ASSUME NEW i \in Input, Together(i, j), Waits(i)' PROVE InTurn(j, i)
  <2>1. \A q \in Runs : ~Holds(q, i)
    <3>1. Together(j, i) BY <1>5 DEF Together
    <3> QED BY <1>1, <3>1, HandedApart
  <2>2. ~InControl(i)'
    <3>1. \A q \in Runs : Holds(q, i)' => Holds(q, i) BY AllDwindle DEF Dwindles
    <3> QED BY <2>1, <3>1 DEF InControl
  <2>3. CASE InFallbacks(i)' BY <1>1, <2>3 DEF InFallbacks, InTurn
  <2>4. ASSUME NEW g \in Hosts, Presents(g, i)' PROVE InTurn(j, i)
    <3>1. Presents(g, i) /\ g # h BY <2>4 DEF Presents
    <3>2. /\ writers \in Seq(Tasks) /\ writers # <<>> /\ Head(writers) = h
          /\ g \in Tasks
      BY DEF TypeOK, StateTypes, MyTurn, Tasks
    <3>3. Occurs(g, writers)
      BY <3>1, <3>2 DEF Presents, LockSound, Writing, Shielded
    <3>4. Occurs(g, Tail(writers)) BY <3>1, <3>2, <3>3, OccursTail
    <3>5. Ahead(writers, h, g) BY <3>2, <3>4, AheadTail
    <3> QED BY <1>1, <3>1, <3>5 DEF InTurn
  <2> QED BY <1>5, <2>2, <2>3, <2>4 DEF Waits
<1> QED BY <1>2, <1>3, <1>4, <1>5 DEF TakesTurns

(* Every step of a promotion.                                              *)
LEMMA HostStepOrder ==
  ASSUME TypeOK, Promotions, ControlSound, SteersSound, OrderSound, AllLose,
         LockSound, LockKeeps, NEW h \in Hosts, HostStep(h)
  PROVE  OrderStep
<1> USE DEF Goto, session
<1>1. /\ sub' = sub /\ fallbackQ' = fallbackQ /\ promo[h] \in Runs
      /\ h \in Runs => pc[h] # "absent"
      /\ run \in [Runs -> RunRecord]
  BY HostShape DEF TypeOK, StateTypes
<1>2. /\ h \in Tasks /\ h \notin Input /\ Hosts \subseteq Tasks /\ Input \subseteq Tasks
      /\ pc \in [Tasks -> RunPoints \cup CallerPoints \cup InputPoints]
      /\ promo \in [Hosts -> Runs \cup {None}]
  BY RuntimeAssumption DEF TypeOK, ControlPoints, Tasks, Hosts
<1>3. ASSUME CarriedStay, NoneTakes(Hosts), \A i \in Input : pc'[i] = pc[i],
             JournalMoves
      PROVE  OrderStep
  <2>1. PresentsMove BY <1>3, PresentsStay DEF PresentsMove
  <2>2. InputsStay BY <1>1, <1>3 DEF InputsStay
  <2> QED BY <1>1, <1>3, <2>1, <2>2, AllDwindle DEF OrderStep, FallbacksMove
<1>4. ASSUME \/ EndHost(h)
             \/ \E at \in Promoting \ {"activatingFallback"} :
                  pc' = [pc EXCEPT ![h] = at] /\ promo' = promo,
             ~FallbackGathered(h), ~FallbackNotified(h)
      PROVE  /\ CarriedStay /\ NoneTakes(Hosts)
             /\ \A i \in Input : pc'[i] = pc[i]
  <2>1. PICK at : /\ pc' = [pc EXCEPT ![h] = at] /\ at # "activatingFallback"
                  /\ promo' = promo \/ promo' = [promo EXCEPT ![h] = None]
    BY <1>4 DEF EndHost
  <2>2. /\ pc'[h] = at /\ \A t \in Tasks \ {h} : pc'[t] = pc[t]
        /\ \A g \in Hosts \ {h} : promo'[g] = promo[g]
    BY <1>2, <2>1
  <2>3. Identities(run') BY <1>4, HostRuns
  <2>4. CarriedStay BY <2>3 DEF CarriedStay, Identities, SameIdentity
  <2>5. NoneTakes(Hosts) BY <1>2, <2>1, <2>2 DEF NoneTakes
  <2> QED BY <1>2, <2>2, <2>4, <2>5
<1>a. CASE FallbackActivated(h)
  <2>1. /\ promo' = promo /\ pc[h] = "activatingFallback"
        /\ \/ pc' = [pc EXCEPT ![h] = "notifyingFallback"]
           \/ pc' = [pc EXCEPT ![h] = "abandoning"]
    BY <1>a DEF FallbackActivated
  <2>2. ~FallbackGathered(h) /\ ~FallbackNotified(h)
    BY <2>1 DEF FallbackGathered, FallbackNotified
  <2>3. /\ CarriedStay /\ NoneTakes(Hosts)
        /\ \A i \in Input : pc'[i] = pc[i]
    BY <1>4, <2>1, <2>2 DEF Promoting
  <2>4. CASE journal' = journal BY <1>3, <2>3, <2>4 DEF JournalMoves
  <2>5. CASE /\ Written(h, "activated", <<run[promo[h]].carried>>, promo[h])
             /\ pc' = [pc EXCEPT ![h] = "notifyingFallback"]
    <3> PICK j : j = run[promo[h]].carried OBVIOUS
    <3> DEFINE e == [type |-> "activated", of |-> <<j>>, run |-> promo[h]]
    <3>1. /\ journal' = Append(journal, e) /\ e.of = <<j>> /\ e.type # "user_steer"
          /\ MyTurn(h) /\ pc'[h] = "notifyingFallback"
      BY <1>2, <2>5 DEF Written
    <3> HIDE DEF e
    <3>2. j \in Input
      BY <1>1, RuntimeAssumption DEF Promotions
    <3>3. \A g \in Hosts, i \in Input : Presents(g, i)' => Presents(g, i)
      BY <2>3, PresentsStay
    <3>4. TakesTurns(e) BY <1>1, <2>1, <3>1, <3>2, <3>3, FallbackInTurn
    <3>5. JournalMoves BY <3>1, <3>4 DEF JournalMoves
    <3> QED BY <1>3, <2>3, <3>5
  <2> QED BY <1>a, <2>4, <2>5 DEF FallbackActivated, WriteFails
<1>b. CASE FallbackAbandoned(h)
  <2>1. /\ promo' = promo /\ pc' = [pc EXCEPT ![h] = "gatheringFallback"]
        /\ pc[h] = "abandoning"
    BY <1>b DEF FallbackAbandoned, AbandonRun
  <2>2. ~FallbackGathered(h) /\ ~FallbackNotified(h)
    BY <2>1 DEF FallbackGathered, FallbackNotified
  <2>3. JournalMoves
    BY <1>b DEF FallbackAbandoned, Written, WriteFails, JournalMoves
  <2> QED BY <1>3, <1>4, <2>1, <2>2, <2>3 DEF Promoting
<1>c. CASE FallbackGathered(h) \/ FallbackNotified(h)
  <2>1. PICK runs \in {run, [run EXCEPT ![promo[h]].gate = TRUE]} :
          /\ NoPromotion(h, runs) \/ TryPromoteQueue(h, runs, paused, maintenance)
          /\ journal' = journal
    BY <1>c DEF FallbackGathered, FallbackNotified
  <2>2. runs \in [Runs -> RunRecord] /\ Identities(runs)
    <3>1. [run EXCEPT ![promo[h]].gate = TRUE] \in [Runs -> RunRecord]
      BY <1>1, GateSet
    <3>2. SameIdentity([run[promo[h]] EXCEPT !.gate = TRUE], run[promo[h]])
      BY <1>1, IdentityUpdates
    <3>3. Identities(run) BY DEF Identities, SameIdentity
    <3>4. Identities([run EXCEPT ![promo[h]].gate = TRUE])
      BY <1>1, <3>2, IdentityReplaced
    <3> QED BY <1>1, <2>1, <3>1, <3>3, <3>4
  <2>3. /\ CarriedStay /\ NoneTakes(Hosts)
        /\ \A i \in Input : pc'[i] = pc[i]
    BY <1>1, <2>1, <2>2, QueueCarries
  <2> QED BY <1>3, <2>1, <2>3 DEF JournalMoves
<1>d. CASE Yielded(h) \/ QueueNotified(h) \/ QueueGathered(h) \/ GatherInterrupted(h)
  <2>1. CASE FallbackGathered(h) \/ FallbackNotified(h) BY <1>c, <2>1
  <2>2. CASE ~FallbackGathered(h) /\ ~FallbackNotified(h)
    <3>1. /\ journal' = journal
          /\ \/ EndHost(h)
             \/ pc' = [pc EXCEPT ![h] = "journalingQueued"] /\ promo' = promo
      BY <1>d DEF Yielded, QueueNotified, QueueGathered, GatherInterrupted
    <3> QED BY <1>3, <1>4, <2>2, <3>1 DEF JournalMoves, Promoting
  <2> QED BY <2>1, <2>2
<1>e. CASE QueuedInputRecorded(h) \/ QueuedInputKept(h)
  <2>1. /\ pc[h] = "journalingQueued"
        /\ \/ EndHost(h)
           \/ pc' = [pc EXCEPT ![h] = "notifyingQueued"] /\ promo' = promo
           \/ pc' = [pc EXCEPT ![h] = "gatheringQueue"] /\ promo' = promo
    BY <1>e DEF QueuedInputRecorded, QueuedInputKept, AbandonRun
  <2>2. ~FallbackGathered(h) /\ ~FallbackNotified(h)
    BY <2>1 DEF FallbackGathered, FallbackNotified
  <2>3. JournalMoves
    BY <1>e DEF QueuedInputRecorded, QueuedInputKept, Written, WriteFails, JournalMoves
  <2> QED BY <1>3, <1>4, <2>1, <2>2, <2>3 DEF Promoting
<1> QED BY <1>a, <1>b, <1>c, <1>d, <1>e DEF HostStep

(* A step that writes no record and moves nothing to a promotion.          *)
LEMMA QuietOrder ==
  ASSUME TypeOK, Promotions, OrderSound, AllLose, LockKeeps, CarriedStay,
         NoneTakes(Hosts), InputsStay, fallbackQ' \in {fallbackQ, <<>>},
         journal' = journal
  PROVE  OrderStep
<1>1. PresentsMove BY PresentsStay DEF PresentsMove
<1>2. FallbacksMove /\ JournalMoves BY DEF FallbacksMove, JournalMoves
<1> QED BY <1>1, <1>2, AllDwindle DEF OrderStep

(* Every operation of the user.                                            *)
LEMMA UserOrder ==
  ASSUME TypeOK, TypeOK', Promotions, ControlSound, SteersSound, OrderSound,
         LockKeeps, UserStep
  PROVE  OrderStep
<1> USE DEF Goto, Unchanged4User, Unchanged4Sub, session
<1>1. /\ run \in [Runs -> RunRecord] /\ Runs \subseteq Tasks /\ Runs \subseteq Hosts
      /\ Input \subseteq Tasks /\ Hosts \subseteq Tasks
      /\ Input \cap Hosts = {} /\ Callers \subseteq Hosts
      /\ pc \in [Tasks -> RunPoints \cup CallerPoints \cup InputPoints]
  BY RuntimeAssumption DEF TypeOK, StateTypes, ControlPoints, Tasks, Hosts
<1>2. AllLose BY UserSound
<1>3. ASSUME pc' = pc, promo' = promo, sub' = sub, fallbackQ' = fallbackQ,
             journal' = journal, Identities(run')
      PROVE  OrderStep
  <2>1. CarriedStay /\ NoneTakes(Hosts) /\ InputsStay
    BY <1>3 DEF CarriedStay, Identities, SameIdentity, NoneTakes, InputsStay
  <2> QED BY <1>2, <1>3, <2>1, QuietOrder
<1>4. Identities(run) BY DEF Identities, SameIdentity
<1>a. ASSUME NEW o \in {"user", "application"}, NEW b \in Behaviours, StartRun(o, b)
      PROVE  OrderStep
  <2> PICK n : n = Next1 OBVIOUS
  <2> DEFINE x == CreatedRun(o, None, b)
  <2>1. /\ n \in Runs /\ pc[n] = "absent"
    <3>1. started \in 0 .. MaxRuns /\ started < MaxRuns /\ MaxRuns \in Nat
      BY <1>a, RuntimeAssumption DEF StartRun, TypeOK, StateTypes
    <3>2. n \in Runs /\ started < n BY <3>1 DEF Next1, Runs
    <3>3. n > started BY <3>1, <3>2 DEF Runs
    <3> QED BY <3>2, <3>3 DEF TypeOK, ControlPoints
  <2>2. /\ run' = [run EXCEPT ![n] = x] /\ pc' = [pc EXCEPT ![n] = "created"]
        /\ promo' = promo /\ sub' = sub /\ fallbackQ' = fallbackQ
        /\ journal' = journal
    BY <1>a DEF StartRun
  <2> HIDE DEF x
  <2>3. /\ \A q \in Runs \ {n} : run'[q] = run[q]
        /\ pc'[n] = "created" /\ \A t \in Tasks \ {n} : pc'[t] = pc[t]
    BY <1>1, <2>1, <2>2
  <2>4. CarriedStay BY <2>1, <2>3 DEF CarriedStay
  <2>5. NoneTakes(Hosts) BY <1>1, <2>2, <2>3 DEF NoneTakes
  <2>6. InputsStay BY <1>1, <2>1, <2>2, <2>3 DEF InputsStay
  <2> QED BY <1>2, <2>2, <2>4, <2>5, <2>6, QuietOrder
<1>b. ASSUME NEW i \in Input, NEW b \in Behaviours, Submit(i, b) PROVE OrderStep
  <2>1. /\ pc[i] = "idle" /\ run' = run /\ promo' = promo
        /\ pc' = [pc EXCEPT ![i] = "barrier"] /\ fallbackQ' = fallbackQ
        /\ journal' = journal
        /\ sub' = [sub EXCEPT ![i] = [target |-> active, behaviour |-> b]]
    BY <1>b DEF Submit
  <2>2. /\ pc'[i] = "barrier" /\ \A t \in Tasks \ {i} : pc'[t] = pc[t]
        /\ \A j \in Input \ {i} : sub'[j] = sub[j]
    BY <1>1, <2>1 DEF TypeOK, StateTypes
  <2>3. CarriedStay BY <2>1 DEF CarriedStay
  <2>4. NoneTakes(Hosts) BY <1>1, <2>1, <2>2 DEF NoneTakes
  <2>5. InputsStay
    <3>1. ASSUME NEW j \in Input
          PROVE  /\ pc[j] # "idle" => sub'[j] = sub[j]
                 /\ pc[j] \in {"notifying", "steered"} =>
                      pc'[j] \in {"notifying", "steered"}
                 /\ pc'[j] = "journaling" <=> pc[j] = "journaling"
      BY <1>1, <2>1, <2>2
    <3> QED BY <3>1 DEF InputsStay
  <2> QED BY <1>2, <2>1, <2>3, <2>4, <2>5, QuietOrder
<1>c. ASSUME NEW i \in Input, RemoveQueuedInput(i) PROVE OrderStep
  BY <1>3, <1>4, <1>c DEF RemoveQueuedInput
<1>d. CASE ClearQueue BY <1>3, <1>4, <1>d DEF ClearQueue
<1>e. ASSUME NEW c \in Callers, ResumeQueue(c) PROVE OrderStep
  <2>1. /\ fallbackQ' = fallbackQ /\ journal' = journal /\ sub' = sub
        /\ TryPromoteQueue(c, run, FALSE, maintenance)
        /\ c \in Hosts /\ pc[c] # "absent"
    BY <1>1, <1>e DEF ResumeQueue
  <2>2. /\ CarriedStay /\ NoneTakes(Hosts)
        /\ \A j \in Input : pc'[j] = pc[j]
    BY <1>1, <1>4, <2>1, QueueCarries
  <2>3. InputsStay BY <2>1, <2>2 DEF InputsStay
  <2> QED BY <1>2, <2>1, <2>2, <2>3, QuietOrder
<1>f. ASSUME NEW c \in Callers, NEW a \in BOOLEAN, ReserveSession(c, a)
      PROVE  OrderStep
  <2>1. /\ run' = run /\ promo' = promo /\ journal' = journal /\ sub' = sub
        /\ fallbackQ' = fallbackQ /\ pc' = [pc EXCEPT ![c] = "reserved"]
    BY <1>f DEF ReserveSession
  <2>2. pc'[c] = "reserved" /\ \A t \in Tasks \ {c} : pc'[t] = pc[t]
    BY <1>1, <2>1
  <2>3. CarriedStay BY <2>1 DEF CarriedStay
  <2>4. NoneTakes(Hosts) BY <1>1, <2>1, <2>2 DEF NoneTakes
  <2>5. InputsStay BY <1>1, <2>1, <2>2 DEF InputsStay
  <2> QED BY <1>2, <2>1, <2>3, <2>4, <2>5, QuietOrder
<1>g. ASSUME NEW r \in Runs, ApprovalReturns(r) \/ AgentFails(r) PROVE OrderStep
  <2>1. ~RunEndNotified(r)
    BY <1>g DEF RunEndNotified, ApprovalReturns, AgentFails, AtBoundary
  <2> QED BY <1>2, <1>g, <2>1, RunStepOrder
<1>h. CASE CancelRun
  <2>1. PICK r : r = active OBVIOUS
  <2>2. r \in Runs BY <1>h, <2>1 DEF CancelRun, TypeOK, StateTypes
  <2> DEFINE x == [run[r] EXCEPT !.phase = "stopping",
                                 !.ctl = CloseSubmissions(run[r].ctl)]
  <2>3. /\ run' = [run EXCEPT ![r] = x] /\ promo' = promo /\ journal' = journal
        /\ fallbackQ' = fallbackQ /\ pc' = pc /\ sub' = sub
    BY <1>1, <1>h, <2>1, <2>2 DEF CancelRun
  <2>4. SameIdentity(x, run[r])
    BY <1>1, <2>2 DEF RunRecord, SameIdentity
  <2> HIDE DEF x
  <2>5. Identities(run') BY <1>1, <2>2, <2>3, <2>4, IdentityReplaced
  <2> QED BY <1>3, <2>3, <2>5
<1>i. CASE BeginClose BY <1>3, <1>4, <1>i DEF BeginClose
<1> QED
  BY <1>a, <1>b, <1>c, <1>d, <1>e, <1>f, <1>g, <1>h, <1>i DEF UserStep

(* Every step of a submission.                                             *)
LEMMA SubmissionOrder ==
  ASSUME TypeOK, TypeOK', ControlSound, ControlSound', SteersSound, SteersSound',
         OrderSound, LockSound, LockSound', LockKeeps,
         NEW i \in Input, SubmissionStep(i)
  PROVE  OrderSound'
<1>1. PICK r \in Runs :
        /\ Enters(i, r)
        /\ SteerAdmitted(i, r) \/ SteerWritten(i, r) \/ NoSteerWritten(i, r)
  BY SubmissionShape
<1>2. CASE SteerAdmitted(i, r) BY <1>1, <1>2, AdmittedOrder
<1>3. CASE SteerWritten(i, r) BY <1>1, <1>3, WrittenOrder
<1>4. CASE NoSteerWritten(i, r) BY <1>1, <1>4, NoSteerOrder, OrderKept
<1> QED BY <1>1, <1>2, <1>3, <1>4

-----------------------------------------------------------------------------
(* Every step, and the theorem.                                            *)

(* Every step keeps the order.                                             *)
LEMMA OrderNext ==
  ASSUME TypeOK, TypeOK', Promotions, ControlSound, ControlSound',
         SteersSound, SteersSound', LockSound, LockSound', LockKeeps,
         OrderSound, [Next]_vars
  PROVE  OrderSound'
<1>1. ASSUME NEW i \in Input, SubmissionStep(i) PROVE OrderSound'
  BY <1>1, SubmissionOrder
<1>2. CASE \A i \in Input : ~SubmissionStep(i)
  <2>1. AllLose BY <1>2, OthersLose
  <2>2. ASSUME NEW r \in Runs, RunStep(r) PROVE OrderStep
    <3>1. CASE RunEndNotified(r)
      <4>1. /\ pc[r] = "ending" /\ r \in Hosts
            /\ TryPromotePending(r, run, maintenance)
            /\ journal' = journal /\ sub' = sub
        BY <3>1 DEF RunEndNotified, Unchanged4Host, Hosts
      <4>2. pc[r] \notin Writing \cup {"absent"}
        BY <4>1 DEF Writing, Shielded
      <4> QED BY <2>1, <4>1, <4>2, PendingOrder
    <3>2. CASE ~RunEndNotified(r) BY <2>1, <2>2, <3>2, RunStepOrder
    <3> QED BY <3>1, <3>2
  <2>3. ASSUME NEW h \in Hosts, HostStep(h) PROVE OrderStep
    BY <2>1, <2>3, HostStepOrder
  <2>4. ASSUME NEW c \in Callers, ReleaseSession(c) PROVE OrderStep
    <3>1. /\ pc[c] = "reserved" /\ c \in Hosts /\ TryPromotePending(c, run, None)
          /\ journal' = journal /\ sub' = sub
      BY <2>4 DEF ReleaseSession, Unchanged4Host, Hosts
    <3>2. pc[c] \notin Writing \cup {"absent"} BY <3>1 DEF Writing, Shielded
    <3> QED BY <2>1, <3>1, <3>2, PendingOrder
  <2>5. ASSUME UserStep PROVE OrderStep BY <2>5, UserOrder
  <2>6. ASSUME run' = run, pc' = pc, promo' = promo, sub' = sub,
               journal' = journal, fallbackQ' \in {fallbackQ, <<>>}
        PROVE  OrderStep
    <3>1. CarriedStay /\ NoneTakes(Hosts) /\ InputsStay
      BY <2>6 DEF CarriedStay, NoneTakes, InputsStay
    <3> QED BY <2>1, <2>6, <3>1, QuietOrder
  <2>7. ASSUME \/ \E t \in Tasks : AbsorbCancellation(t)
               \/ EndClose \/ AtRest \/ UNCHANGED vars
        PROVE  OrderStep
    BY <2>6, <2>7 DEF AbsorbCancellation, EndClose, AtRest, vars, session
  <2>8. OrderStep
    BY <1>2, <2>2, <2>3, <2>4, <2>5, <2>7 DEF Next
  <2> QED BY <2>8, OrderKept
<1> QED BY <1>1, <1>2

(* At the start nothing waits and nothing is recorded.                     *)
LEMMA OrderInit == Init => OrderSound
<1> SUFFICES ASSUME Init PROVE OrderSound OBVIOUS
<1>1. /\ fallbackQ = <<>> /\ journal = <<>>
      /\ run = [r \in Runs |-> BlankRun]
      /\ pc = [t \in Tasks |-> IF t \in Runs THEN "absent" ELSE "idle"]
      /\ Hosts \subseteq Tasks
  BY DEF Init, Tasks
<1>2. \A q \in Runs : run[q].ctl = NewControl /\ run[q].status = "none"
  BY <1>1 DEF BlankRun
<1>3. /\ NewControl.pending = <<>> /\ NewControl.fallback = <<>>
      /\ Steers(NewControl) = <<>> /\ \A j : ~Occurs(j, <<>>)
  BY ConcatEmptySeq, EmptySeq DEF NewControl, Steers, Occurs
<1>4. \A q \in Runs : Shaped(run[q]) BY <1>2, <1>3 DEF Shaped
<1>5. \A type, i : Records(type, i) = {} BY <1>1 DEF Records
<1>6. /\ \A q \in Runs, i \in Input : ~Holds(q, i)
      /\ \A i \in Input : ~InFallbacks(i)
      /\ \A h \in Hosts, i \in Input : ~Presents(h, i)
  BY <1>1, <1>2, <1>3 DEF Holds, InFallbacks, Presents
<1>7. \A i \in Input : ~Waits(i) BY <1>6 DEF Waits, InControl
<1>8. \A i, j \in Input : ~InTurn(i, j)
  <2>1. \A i, j : ~Ahead(<<>>, i, j) BY DEF Ahead
  <2> QED BY <1>1, <1>2, <1>3, <1>6, <2>1 DEF InTurn
<1> QED
  BY <1>4, <1>5, <1>6, <1>7, <1>8
  DEF OrderSound, RecordedOnce, HandedOver, TurnSound, NotPassed, SteersInOrder

(* For every number of Runs, inputs, callers, stops and faults: whatever   *)
(* is promoted, cancelled or fails, and whether they join their Run at a   *)
(* boundary or become Runs of their own, of two steers sent to one Run the *)
(* one recorded first is the one activated first.                          *)
THEOREM SteersTakeTurns == Spec => []SteersInOrder
<1>1. Init => OrderSound BY OrderInit
<1>2. /\ TypeOK /\ TypeOK' /\ Promotions /\ ControlSound /\ ControlSound'
      /\ SteersSound /\ SteersSound' /\ LockSound /\ OrderSound /\ [Next]_vars
      => OrderSound'
  BY LockNext, OrderNext
<1>3. OrderSound => SteersInOrder BY DEF OrderSound
<1> QED
  BY <1>1, <1>2, <1>3, TypeCorrect, ControlCorrect, SteersPlaced, LockIsFair, PTL
  DEF Spec

=============================================================================
