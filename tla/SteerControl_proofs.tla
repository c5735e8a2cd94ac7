------------------------ MODULE SteerControl_proofs ------------------------
(***************************************************************************)
(* What a steer meets on its way through the control of its Run, for every *)
(* value of the constants: the control never raises (runtime/control.py),  *)
(* because the entries of a control, the awaits of the submissions and the *)
(* awaits of the Run agree with one another.                               *)
(*                                                                         *)
(* The first part is about sequences, the second about one control, the    *)
(* third about the steps of the Runtime.                                   *)
(***************************************************************************)
EXTENDS AgentRuntime_proofs

(* Membership in a concatenation.                                          *)
LEMMA OccursConcat ==
  ASSUME NEW S, NEW s \in Seq(S), NEW t \in Seq(S), NEW i
  PROVE  Occurs(i, s \o t) <=> Occurs(i, s) \/ Occurs(i, t)
<1>1. /\ s \o t \in Seq(S) /\ Len(s \o t) = Len(s) + Len(t)
      /\ \A k \in 1 .. Len(s) + Len(t) :
           (s \o t)[k] = IF k <= Len(s) THEN s[k] ELSE t[k - Len(s)]
      /\ Len(s) \in Nat /\ Len(t) \in Nat
  BY ConcatProperties
<1>2. ASSUME Occurs(i, s) PROVE Occurs(i, s \o t)
  BY <1>1, <1>2 DEF Occurs
<1>3. ASSUME Occurs(i, t) PROVE Occurs(i, s \o t)
  <2>1. PICK k \in 1 .. Len(t) : t[k] = i BY <1>3 DEF Occurs
  <2>2. /\ k + Len(s) \in 1 .. Len(s) + Len(t)
        /\ (s \o t)[k + Len(s)] = t[k]
    BY <1>1
  <2> QED BY <1>1, <2>1, <2>2 DEF Occurs
<1>4. ASSUME Occurs(i, s \o t) PROVE Occurs(i, s) \/ Occurs(i, t)
  <2>1. PICK k \in 1 .. Len(s) + Len(t) : (s \o t)[k] = i
    BY <1>1, <1>4 DEF Occurs
  <2>2. CASE k <= Len(s) BY <1>1, <2>1, <2>2 DEF Occurs
  <2>3. CASE k > Len(s)
    <3>1. k - Len(s) \in 1 .. Len(t) /\ t[k - Len(s)] = i
      BY <1>1, <2>1, <2>3
    <3> QED BY <3>1 DEF Occurs
  <2> QED BY <1>1, <2>2, <2>3
<1> QED BY <1>2, <1>3, <1>4

(* Membership after an append.                                             *)
LEMMA OccursAppend ==
  ASSUME NEW S, NEW s \in Seq(S), NEW e \in S, NEW i
  PROVE  Occurs(i, Append(s, e)) <=> Occurs(i, s) \/ i = e
<1>1. /\ Append(s, e) \in Seq(S) /\ Len(Append(s, e)) = Len(s) + 1
      /\ \A k \in 1 .. Len(s) : Append(s, e)[k] = s[k]
      /\ Append(s, e)[Len(s) + 1] = e /\ Len(s) \in Nat
  BY AppendProperties
<1>2. DOMAIN Append(s, e) = 1 .. Len(s) + 1 /\ DOMAIN s = 1 .. Len(s)
  BY <1>1
<1> QED BY <1>1, <1>2 DEF Occurs

(* Membership, by head and tail.                                           *)
LEMMA OccursTail ==
  ASSUME NEW S, NEW s \in Seq(S), NEW i, s # <<>>
  PROVE  Occurs(i, s) <=> i = Head(s) \/ Occurs(i, Tail(s))
<1>1. /\ Tail(s) \in Seq(S) /\ Len(Tail(s)) = Len(s) - 1
      /\ \A k \in 1 .. Len(Tail(s)) : Tail(s)[k] = s[k + 1]
      /\ Len(s) \in Nat \ {0} /\ Head(s) = s[1]
  BY HeadTailProperties, EmptySeq
<1>2. ASSUME Occurs(i, s) PROVE i = Head(s) \/ Occurs(i, Tail(s))
  <2>1. PICK k \in 1 .. Len(s) : s[k] = i BY <1>2 DEF Occurs
  <2>2. CASE k = 1 BY <1>1, <2>1, <2>2
  <2>3. CASE k # 1
    <3>1. k - 1 \in 1 .. Len(Tail(s)) /\ Tail(s)[k - 1] = i
      BY <1>1, <2>1, <2>3
    <3>2. DOMAIN Tail(s) = 1 .. Len(Tail(s)) BY <1>1
    <3> QED BY <3>1, <3>2 DEF Occurs
  <2> QED BY <2>2, <2>3
<1>3. ASSUME i = Head(s) \/ Occurs(i, Tail(s)) PROVE Occurs(i, s)
  <2>1. CASE i = Head(s) BY <1>1, <2>1 DEF Occurs
  <2>2. CASE Occurs(i, Tail(s))
    <3>1. PICK k \in 1 .. Len(Tail(s)) : Tail(s)[k] = i
      BY <1>1, <2>2 DEF Occurs
    <3>2. k + 1 \in 1 .. Len(s) /\ s[k + 1] = i BY <1>1, <3>1
    <3> QED BY <3>2 DEF Occurs
  <2> QED BY <1>3, <2>1, <2>2
<1> QED BY <1>2, <1>3

(* A concatenation has no duplicates when its parts have none and nothing  *)
(* in common.                                                              *)
LEMMA InjectiveConcat ==
  ASSUME NEW S, NEW s \in Seq(S), NEW t \in Seq(S)
  PROVE  IsInjective(s \o t) <=>
           /\ IsInjective(s) /\ IsInjective(t)
           /\ \A i \in S : Occurs(i, s) => ~Occurs(i, t)
<1>1. ASSUME IsInjective(s \o t)
      PROVE  /\ IsInjective(s) /\ IsInjective(t)
             /\ \A i \in S : Occurs(i, s) => ~Occurs(i, t)
  <2>1. /\ DOMAIN (s \o t) = 1 .. Len(s) + Len(t)
        /\ \A k \in 1 .. Len(s) : (s \o t)[k] = s[k] /\ k \in DOMAIN (s \o t)
        /\ \A k \in 1 .. Len(t) : /\ (s \o t)[k + Len(s)] = t[k]
                                  /\ k + Len(s) \in DOMAIN (s \o t)
        /\ DOMAIN s = 1 .. Len(s) /\ DOMAIN t = 1 .. Len(t)
        /\ Len(s) \in Nat /\ Len(t) \in Nat
    <3>1. /\ s \o t \in Seq(S) /\ Len(s \o t) = Len(s) + Len(t)
          /\ \A k \in 1 .. Len(s) + Len(t) :
               (s \o t)[k] = IF k <= Len(s) THEN s[k] ELSE t[k - Len(s)]
          /\ Len(s) \in Nat /\ Len(t) \in Nat
      BY ConcatProperties
    <3>2. DOMAIN (s \o t) = 1 .. Len(s) + Len(t) BY <3>1
    <3> QED BY <3>1, <3>2
  <2>2. IsInjective(s) BY <1>1, <2>1 DEF IsInjective
  <2>3. IsInjective(t)
    <3>1. ASSUME NEW a \in 1 .. Len(t), NEW b \in 1 .. Len(t), t[a] = t[b]
          PROVE  a = b
      <4>1. a + Len(s) = b + Len(s) BY <1>1, <2>1, <3>1 DEF IsInjective
      <4> QED BY <2>1, <4>1
    <3> QED BY <2>1, <3>1 DEF IsInjective
  <2>4. ASSUME NEW i \in S, Occurs(i, s), Occurs(i, t) PROVE FALSE
    <3>1. PICK a \in 1 .. Len(s), b \in 1 .. Len(t) : s[a] = i /\ t[b] = i
      BY <2>1, <2>4 DEF Occurs
    <3>2. a = b + Len(s) BY <1>1, <2>1, <3>1 DEF IsInjective
    <3> QED BY <2>1, <3>2
  <2> QED BY <2>2, <2>3, <2>4
<1>2. ASSUME IsInjective(s), IsInjective(t),
             \A i \in S : Occurs(i, s) => ~Occurs(i, t)
      PROVE  IsInjective(s \o t)
  <2>1. /\ s \o t \in Seq(S) /\ Len(s \o t) = Len(s) + Len(t)
        /\ \A k \in 1 .. Len(s) + Len(t) :
             (s \o t)[k] = IF k <= Len(s) THEN s[k] ELSE t[k - Len(s)]
        /\ Len(s) \in Nat /\ Len(t) \in Nat
    BY ConcatProperties
  <2>2. DOMAIN (s \o t) = 1 .. Len(s) + Len(t) BY <2>1
  <2>3. ASSUME NEW a \in 1 .. Len(s), NEW b \in 1 .. Len(t), s[a] = t[b]
        PROVE  FALSE
    <3>1. s[a] \in S BY ElementOfSeq
    <3> QED BY <1>2, <2>3, <3>1 DEF Occurs
  <2>4. ASSUME NEW a \in 1 .. Len(s) + Len(t), NEW b \in 1 .. Len(s) + Len(t),
               (s \o t)[a] = (s \o t)[b]
        PROVE  a = b
    <3>1. CASE a <= Len(s) /\ b <= Len(s)
      BY <1>2, <2>1, <2>4, <3>1 DEF IsInjective
    <3>2. CASE a > Len(s) /\ b > Len(s)
      <4>1. /\ a - Len(s) \in 1 .. Len(t) /\ b - Len(s) \in 1 .. Len(t)
            /\ t[a - Len(s)] = t[b - Len(s)]
        BY <2>1, <2>4, <3>2
      <4>2. a - Len(s) = b - Len(s) BY <1>2, <4>1 DEF IsInjective
      <4> QED BY <2>1, <4>2
    <3>3. CASE a <= Len(s) /\ b > Len(s)
      <4>1. b - Len(s) \in 1 .. Len(t) /\ s[a] = t[b - Len(s)]
        BY <2>1, <2>4, <3>3
      <4> QED BY <2>1, <2>3, <3>3, <4>1
    <3>4. CASE a > Len(s) /\ b <= Len(s)
      <4>1. a - Len(s) \in 1 .. Len(t) /\ s[b] = t[a - Len(s)]
        BY <2>1, <2>4, <3>4
      <4> QED BY <2>1, <2>3, <3>4, <4>1
    <3> QED BY <2>1, <3>1, <3>2, <3>3, <3>4
  <2> QED BY <2>2, <2>4 DEF IsInjective
<1> QED BY <1>1, <1>2

(* Appending what is not there.                                            *)
LEMMA InjectiveAppend ==
  ASSUME NEW S, NEW s \in Seq(S), NEW e \in S, IsInjective(s), ~Occurs(e, s)
  PROVE  IsInjective(Append(s, e))
<1>1. /\ Append(s, e) \in Seq(S) /\ Len(Append(s, e)) = Len(s) + 1
      /\ \A k \in 1 .. Len(s) : Append(s, e)[k] = s[k]
      /\ Append(s, e)[Len(s) + 1] = e /\ Len(s) \in Nat
  BY AppendProperties
<1>2. DOMAIN Append(s, e) = 1 .. Len(s) + 1 /\ DOMAIN s = 1 .. Len(s)
  BY <1>1
<1> QED BY <1>1, <1>2 DEF IsInjective, Occurs

(* Taking the head off.                                                    *)
LEMMA InjectiveTail ==
  ASSUME NEW S, NEW s \in Seq(S), s # <<>>, IsInjective(s)
  PROVE  IsInjective(Tail(s)) /\ ~Occurs(Head(s), Tail(s))
<1>1. /\ Tail(s) \in Seq(S) /\ Len(Tail(s)) = Len(s) - 1
      /\ \A k \in 1 .. Len(Tail(s)) : Tail(s)[k] = s[k + 1]
      /\ Len(s) \in Nat \ {0} /\ Head(s) = s[1]
  BY HeadTailProperties, EmptySeq
<1>2. DOMAIN Tail(s) = 1 .. Len(s) - 1 /\ DOMAIN s = 1 .. Len(s) BY <1>1
<1>3. ASSUME NEW a \in 1 .. Len(s) - 1, NEW b \in 1 .. Len(s) - 1,
             Tail(s)[a] = Tail(s)[b]
      PROVE  a = b
  <2>1. a + 1 = b + 1 BY <1>1, <1>2, <1>3 DEF IsInjective
  <2> QED BY <2>1
<1>4. ASSUME NEW a \in 1 .. Len(s) - 1, Tail(s)[a] = Head(s) PROVE FALSE
  <2>1. a + 1 = 1 BY <1>1, <1>2, <1>4 DEF IsInjective
  <2> QED BY <2>1
<1> QED BY <1>2, <1>3, <1>4 DEF IsInjective, Occurs

(* Taking one entry out of a sequence without duplicates.                  *)
LEMMA WithoutEntry ==
  ASSUME NEW S, NEW s \in Seq(S), NEW e \in S, IsInjective(s)
  PROVE  /\ IsInjective(Without(s, e))
         /\ \A i \in S : Occurs(i, Without(s, e)) <=> Occurs(i, s) /\ i # e
<1>1. CASE \E k \in DOMAIN s : s[k] = e
  <2> DEFINE k == CHOOSE n \in DOMAIN s : s[n] = e
             p == SubSeq(s, 1, k - 1)
             q == SubSeq(s, k + 1, Len(s))
  <2>1. k \in 1 .. Len(s) /\ s[k] = e /\ Len(s) \in Nat
    BY <1>1
  <2>2. Without(s, e) = p \o q BY <1>1 DEF Without, RemoveAt
  <2> HIDE DEF k
  <2>3. \A n \in 1 .. Len(s) : s[n] \in S BY ElementOfSeq
  <2>4. /\ p \in Seq(S) /\ Len(p) = k - 1
        /\ \A n \in 1 .. k - 1 : p[n] = s[n]
    <3>1. \A n \in 1 .. k - 1 : s[n] \in S BY <2>1, <2>3
    <3> QED BY <2>1, <3>1, SubSeqProperties
  <2>5. /\ q \in Seq(S) /\ Len(q) = Len(s) - k
        /\ \A n \in 1 .. Len(s) - k : q[n] = s[k + n]
    <3>1. \A n \in k + 1 .. Len(s) : s[n] \in S BY <2>1, <2>3
    <3> HIDE DEF q
    <3>2. /\ q \in Seq(S)
          /\ Len(q) = IF k + 1 <= Len(s) THEN Len(s) - (k + 1) + 1 ELSE 0
          /\ \A n \in 1 .. Len(s) - (k + 1) + 1 : q[n] = s[(k + 1) + n - 1]
      BY <2>1, <3>1, SubSeqProperties DEF q
    <3>3. Len(q) = Len(s) - k BY <2>1, <3>2
    <3>4. ASSUME NEW n \in 1 .. Len(s) - k PROVE q[n] = s[k + n]
      <4>1. n \in 1 .. Len(s) - (k + 1) + 1 /\ (k + 1) + n - 1 = k + n
        BY <2>1
      <4> QED BY <3>2, <4>1
    <3> QED BY <3>2, <3>3, <3>4
  <2> HIDE DEF p, q
  <2>6. IsInjective(p) BY <2>1, <2>4 DEF IsInjective
  <2>7. IsInjective(q)
    <3>1. ASSUME NEW a \in 1 .. Len(s) - k, NEW b \in 1 .. Len(s) - k,
                 q[a] = q[b]
          PROVE  a = b
      <4>1. k + a \in DOMAIN s /\ k + b \in DOMAIN s BY <2>1
      <4>2. k + a = k + b BY <2>5, <3>1, <4>1 DEF IsInjective
      <4> QED BY <2>1, <4>2
    <3> QED BY <2>5, <3>1 DEF IsInjective
  <2>8. ASSUME NEW i \in S
        PROVE  /\ Occurs(i, p) => \E a \in 1 .. k - 1 : s[a] = i
               /\ Occurs(i, q) => \E a \in k + 1 .. Len(s) : s[a] = i
               /\ (\E a \in 1 .. k - 1 : s[a] = i) => Occurs(i, p)
               /\ (\E a \in k + 1 .. Len(s) : s[a] = i) => Occurs(i, q)
    <3>1. DOMAIN p = 1 .. k - 1 /\ DOMAIN q = 1 .. Len(s) - k
      BY <2>4, <2>5
    <3>2. Occurs(i, p) <=> \E a \in 1 .. k - 1 : s[a] = i
      BY <2>4, <3>1 DEF Occurs
    <3>3. ASSUME Occurs(i, q) PROVE \E a \in k + 1 .. Len(s) : s[a] = i
      <4>1. PICK n \in 1 .. Len(s) - k : q[n] = i
        BY <3>1, <3>3 DEF Occurs
      <4>2. k + n \in k + 1 .. Len(s) /\ s[k + n] = i BY <2>1, <2>5, <4>1
      <4> QED BY <4>2
    <3>4. ASSUME NEW a \in k + 1 .. Len(s), s[a] = i PROVE Occurs(i, q)
      <4>1. a - k \in 1 .. Len(s) - k /\ k + (a - k) = a BY <2>1
      <4>2. q[a - k] = i BY <2>5, <3>4, <4>1
      <4> QED BY <3>1, <4>1, <4>2 DEF Occurs
    <3> QED BY <3>2, <3>3, <3>4
  <2>9. \A i \in S : Occurs(i, p) => ~Occurs(i, q)
    BY <2>1, <2>8 DEF IsInjective
  <2>10. IsInjective(p \o q) BY <2>4, <2>5, <2>6, <2>7, <2>9, InjectiveConcat
  <2>11. ASSUME NEW i \in S
         PROVE  Occurs(i, p) \/ Occurs(i, q) <=> Occurs(i, s) /\ i # e
    <3>1. ASSUME Occurs(i, p) \/ Occurs(i, q) PROVE Occurs(i, s) /\ i # e
      BY <2>1, <2>8, <3>1 DEF IsInjective, Occurs
    <3>2. ASSUME Occurs(i, s), i # e PROVE Occurs(i, p) \/ Occurs(i, q)
      <4>1. PICK a \in 1 .. Len(s) : s[a] = i BY <3>2 DEF Occurs
      <4>2. a # k BY <2>1, <3>2, <4>1
      <4>3. a \in 1 .. k - 1 \/ a \in k + 1 .. Len(s) BY <2>1, <4>2
      <4> QED BY <2>8, <4>1, <4>3
    <3> QED BY <3>1, <3>2
  <2>12. \A i \in S : Occurs(i, p \o q) <=> Occurs(i, p) \/ Occurs(i, q)
    BY <2>4, <2>5, OccursConcat
  <2> QED BY <2>2, <2>10, <2>11, <2>12
<1>2. CASE ~\E k \in DOMAIN s : s[k] = e
  BY <1>2 DEF Without, Occurs
<1> QED BY <1>1, <1>2

(* Popping the first n entries of a sequence without duplicates.           *)
LEMMA WithoutFirst ==
  ASSUME NEW S, NEW s \in Seq(S), NEW n \in 0 .. Len(s), IsInjective(s)
  PROVE  /\ SubSeq(s, n + 1, Len(s)) \in Seq(S)
         /\ IsInjective(SubSeq(s, n + 1, Len(s)))
         /\ \A i \in S :
              Occurs(i, SubSeq(s, n + 1, Len(s))) <=>
                Occurs(i, s) /\ ~\E k \in 1 .. n : s[k] = i
<1> DEFINE q == SubSeq(s, n + 1, Len(s))
<1>1. \A a \in n + 1 .. Len(s) : s[a] \in S BY ElementOfSeq
<1> HIDE DEF q
<1>2. /\ q \in Seq(S)
      /\ Len(q) = IF n + 1 <= Len(s) THEN Len(s) - (n + 1) + 1 ELSE 0
      /\ \A a \in 1 .. Len(s) - (n + 1) + 1 : q[a] = s[(n + 1) + a - 1]
      /\ Len(s) \in Nat
  BY <1>1, SubSeqProperties DEF q
<1>3. ASSUME NEW a \in 1 .. Len(s) - n PROVE q[a] = s[n + a]
  <2>1. a \in 1 .. Len(s) - (n + 1) + 1 /\ (n + 1) + a - 1 = n + a BY <1>2
  <2> QED BY <1>2, <2>1
<1>4. /\ DOMAIN q = 1 .. Len(s) - n
      /\ \A a \in 1 .. Len(s) - n : q[a] = s[n + a]
  <2>1. Len(q) = Len(s) - n BY <1>2
  <2> QED BY <1>2, <1>3, <2>1
<1>5. IsInjective(q)
  <2>1. ASSUME NEW a \in 1 .. Len(s) - n, NEW b \in 1 .. Len(s) - n, q[a] = q[b]
        PROVE  a = b
    <3>1. n + a = n + b BY <1>2, <1>4, <2>1 DEF IsInjective
    <3> QED BY <1>2, <3>1
  <2> QED BY <1>4, <2>1 DEF IsInjective
<1>6. ASSUME NEW i \in S, Occurs(i, q)
      PROVE  Occurs(i, s) /\ ~\E k \in 1 .. n : s[k] = i
  <2>1. PICK a \in 1 .. Len(s) - n : s[n + a] = i BY <1>4, <1>6 DEF Occurs
  <2>2. n + a \in 1 .. Len(s) BY <1>2
  <2>3. ASSUME NEW k \in 1 .. n, s[k] = i PROVE FALSE
    <3>1. k = n + a BY <1>2, <2>1, <2>2, <2>3 DEF IsInjective
    <3> QED BY <3>1
  <2> QED BY <2>1, <2>2, <2>3 DEF Occurs
<1>7. ASSUME NEW i \in S, Occurs(i, s), ~\E k \in 1 .. n : s[k] = i
      PROVE  Occurs(i, q)
  <2>1. PICK a \in 1 .. Len(s) : s[a] = i BY <1>7 DEF Occurs
  <2>2. a - n \in 1 .. Len(s) - n /\ n + (a - n) = a BY <1>2, <1>7, <2>1
  <2>3. q[a - n] = i BY <1>4, <2>1, <2>2
  <2> QED BY <1>4, <2>2, <2>3 DEF Occurs
<1> QED BY <1>2, <1>5, <1>6, <1>7 DEF q

-----------------------------------------------------------------------------
(* The invariant.                                                          *)

(* The awaits of a submission at which its entry is not yet ready.         *)
UnderWay == {"journaling", "notifying"}
Accepted == UnderWay \cup {"steered"}

Holds(q, i) == Occurs(i, Steers(run[q].ctl))

Discards(q, i) == pc[q] = "discarding" /\ Occurs(i, run[q].staged)

(* What a Run is activating are the first entries of its pending deque,    *)
(* all ready: mark_staged pops what was staged.                            *)
StagedFirst(q) ==
  pc[q] = "activating" =>
    \A k \in DOMAIN run[q].staged :
      /\ k \in DOMAIN run[q].ctl.pending
      /\ run[q].staged[k] = run[q].ctl.pending[k]
      /\ run[q].staged[k] \in run[q].ctl.ready

(* From the boundary that ends the loop on, a Run takes no steer as        *)
(* pending.                                                                *)
Sealed(q) ==
  pc[q] = "closing" \/ run[q].status = "completed" =>
    run[q].ctl.pending = <<>> /\ ~run[q].ctl.current

(* A control holds the steers submitted to its Run, each once, and calls   *)
(* ready those whose submission has ended.                                 *)
RunSound(q) ==
  /\ IsInjective(Steers(run[q].ctl))
  /\ \A i \in Input : Holds(q, i) => sub[i].target = q /\ pc[i] \in Accepted
  /\ \A i \in Input : i \in run[q].ctl.ready => pc[i] = "steered"
  /\ StagedFirst(q) /\ Sealed(q)
  /\ \A i \in Input : Discards(q, i) => sub[i].target = q /\ pc[i] = "steered"

(* A submission knows its Run, which keeps its entry until it is ready.    *)
InputSound(i) ==
  /\ pc[i] # "idle" => sub[i].target \in Runs /\ pc[sub[i].target] # "absent"
  /\ pc[i] \in UnderWay =>
       Holds(sub[i].target, i) /\ i \notin run[sub[i].target].ctl.ready

ControlSound ==
  /\ active # None => pc[active] # "absent"
  /\ \A q \in Runs : RunSound(q)
  /\ \A i \in Input : InputSound(i)

-----------------------------------------------------------------------------
(* Steps that add nothing to a control.                                    *)

Ahead(s, i, j) == \E m, n \in DOMAIN s : m < n /\ s[m] = i /\ s[n] = j

(* Of the two deques of a control one is empty, and the last steer of the  *)
(* other is the last that came in, for as long as any may come.            *)
Shaped(rec) ==
  /\ rec.ctl.current \/ rec.ctl.pending # <<>> => rec.ctl.fallback = <<>>
  /\ ~rec.ctl.current /\ rec.ctl.submissions => rec.ctl.pending = <<>>
  /\ rec.status # "none" => ~rec.ctl.submissions

(* Control c is what is left of the control of r: entries may have gone,   *)
(* but none whose submission is under way, and the others are in the order *)
(* in which they were.                                                     *)
Leaves(c, r) ==
  /\ \A i \in Input : Occurs(i, Steers(c)) => Holds(r, i)
  /\ \A i \in Input : Holds(r, i) /\ pc[i] \in UnderWay => Occurs(i, Steers(c))
  /\ c.ready \subseteq run[r].ctl.ready /\ IsInjective(Steers(c))
  /\ \A i, j \in Input :
       Shaped(run[r]) /\ Ahead(Steers(c), i, j) => Ahead(Steers(run[r].ctl), i, j)

(* Record rec admits nothing that the record of r does not.                *)
Narrows(rec, r) ==
  /\ Shaped(run[r]) => Shaped(rec)
  /\ rec.ctl.submissions => run[r].ctl.submissions

(* The step does that to the control of q, and leaves q where its control  *)
(* allows it to be.                                                        *)
Loses(q) ==
  /\ Leaves(run'[q].ctl, q) /\ StagedFirst(q)' /\ Sealed(q)'
  /\ \A i \in Input : Discards(q, i)' => sub[i].target = q /\ pc[i] = "steered"
  /\ Shaped(run[q]) => Shaped(run'[q])
  /\ pc[q] # "absent" => pc'[q] # "absent" /\ Narrows(run'[q], q)

AllLose == \A q \in Runs : Loses(q)

(* Such steps, of tasks that are not submissions, keep the invariant.      *)
LEMMA LosesSound ==
  ASSUME TypeOK, ControlSound, \A q \in Runs : Loses(q),
         \A i \in Input : pc'[i] = pc[i] /\ sub'[i] = sub[i],
         active' # None => pc'[active'] # "absent"
  PROVE  ControlSound'
<1>1. ASSUME NEW q \in Runs PROVE RunSound(q)'
  BY <1>1 DEF Loses, Leaves, ControlSound, RunSound, Holds
<1>2. ASSUME NEW i \in Input PROVE InputSound(i)'
  <2>1. InputSound(i) /\ pc'[i] = pc[i] /\ sub'[i] = sub[i]
    BY <1>2 DEF ControlSound
  <2>2. CASE pc[i] = "idle" BY <2>1, <2>2 DEF InputSound, UnderWay
  <2>3. ASSUME NEW t \in Runs, sub[i].target = t PROVE InputSound(i)'
    <3>1. Loses(t) OBVIOUS
    <3> QED BY <1>2, <2>1, <2>3, <3>1 DEF Loses, Leaves, InputSound, Holds
  <2> QED BY <2>1, <2>2, <2>3 DEF InputSound
<1> QED BY <1>1, <1>2 DEF ControlSound

(* The control as it is, with other flags.                                 *)
LEMMA SameSteers ==
  ASSUME ControlSound, NEW r \in Runs, NEW c, c.pending = run[r].ctl.pending,
         c.fallback = run[r].ctl.fallback, c.ready = run[r].ctl.ready
  PROVE  Leaves(c, r)
<1>1. Steers(c) = Steers(run[r].ctl) BY DEF Steers
<1> QED BY <1>1 DEF Leaves, Holds, ControlSound, RunSound

(* A new control, or one that a Run has emptied of what was ready.         *)
LEMMA EmptiedLeaves ==
  ASSUME ControlSound, NEW r \in Runs, NEW c, Steers(c) = <<>>,
         c.ready \subseteq run[r].ctl.ready,
         \A i \in Input : Holds(r, i) => pc[i] \notin UnderWay
  PROVE  Leaves(c, r)
BY DEF Leaves, Occurs, IsInjective, Ahead

(* A Run that does not move on or off the awaits at which its control      *)
(* matters, and keeps the control.                                         *)
LEMMA SameLoses ==
  ASSUME ControlSound, NEW q \in Runs,
         run'[q].ctl = run[q].ctl, run'[q].staged = run[q].staged,
         run'[q].status = run[q].status,
         \/ pc'[q] = pc[q]
         \/ pc'[q] \notin {"activating", "discarding", "closing", "absent"}
  PROVE  Loses(q)
<1>1. Leaves(run'[q].ctl, q) BY SameSteers
<1>2. StagedFirst(q)' /\ Sealed(q)'
  BY DEF StagedFirst, Sealed, ControlSound, RunSound
<1>3. \A i \in Input : Discards(q, i)' => sub[i].target = q /\ pc[i] = "steered"
  BY DEF Discards, ControlSound, RunSound
<1>4. Narrows(run'[q], q) BY DEF Narrows, Shaped
<1> QED BY <1>1, <1>2, <1>3, <1>4 DEF Loses, Narrows

(* A Run that is created: nothing was ever submitted to it.                *)
LEMMA CreatedLoses ==
  ASSUME TypeOK, ControlSound, NEW q \in Runs, pc[q] = "absent", pc'[q] = "created",
         run'[q].ctl = NewControl, run'[q].status = "none"
  PROVE  Loses(q)
<1>1. \A i \in Input : ~Holds(q, i)
  BY DEF ControlSound, RunSound, InputSound, Accepted, UnderWay
<1>2. Steers(NewControl) = <<>> BY ConcatEmptySeq, EmptySeq DEF Steers, NewControl
<1>3. Leaves(run'[q].ctl, q)
  BY <1>1, <1>2, EmptiedLeaves DEF NewControl
<1>4. Shaped(run'[q]) BY DEF Shaped, NewControl
<1> QED BY <1>3, <1>4 DEF Loses, StagedFirst, Sealed, Discards

(* A step that changes the record and the await of one Run.                *)
LEMMA OneLoses ==
  ASSUME TypeOK, ControlSound, NEW r \in Runs, NEW x, NEW at,
         run' = [run EXCEPT ![r] = x], pc' = [pc EXCEPT ![r] = at],
         Leaves(x.ctl, r), Narrows(x, r),
         at \notin {"absent", "activating", "discarding"},
         at = "closing" \/ x.status = "completed" =>
           x.ctl.pending = <<>> /\ ~x.ctl.current
  PROVE  \A q \in Runs : Loses(q)
<1>1. run \in [Runs -> RunRecord] /\ r \in Tasks /\ Runs \subseteq Tasks
      /\ pc \in [Tasks -> RunPoints \cup CallerPoints \cup InputPoints]
  BY DEF TypeOK, StateTypes, ControlPoints, Tasks, Hosts
<1>2. run'[r] = x /\ pc'[r] = at BY <1>1
<1>3. Loses(r)
  BY <1>2 DEF Loses, StagedFirst, Sealed, Discards, Narrows
<1>4. ASSUME NEW q \in Runs, q # r PROVE Loses(q)
  BY <1>1, <1>4, SameLoses
<1> QED BY <1>3, <1>4

(* The end of the cleanup takes from the control only what is ready.       *)
LEMMA SettledLoses ==
  ASSUME TypeOK, ControlSound, NEW r \in Runs, NEW rec \in RunRecord,
         Leaves(rec.ctl, r), Narrows(rec, r), AllReady(Steers(rec.ctl), rec.ctl),
         rec.status = "completed" => rec.ctl.pending = <<>> /\ ~rec.ctl.current,
         NEW w, Settle(r, rec, w)
  PROVE  \A q \in Runs : Loses(q)
<1> DEFINE c == EmptiedControl(rec.ctl)
           a == [rec EXCEPT !.ctl = EmptiedControl(@)]
           b == [a EXCEPT !.staged = Steers(rec.ctl)]
<1>1. \A i \in Input : Occurs(i, Steers(rec.ctl)) => Holds(r, i) /\ pc[i] = "steered"
  BY DEF Leaves, AllReady, Occurs, ControlSound, RunSound
<1>2. /\ Leaves(c, r) /\ a.ctl = c /\ b.ctl = c /\ c.pending = <<>>
      /\ c.current = rec.ctl.current
      /\ a.status = rec.status /\ b.status = rec.status
      /\ b.staged = Steers(rec.ctl)
      /\ Narrows(a, r) /\ Narrows(b, r)
  <2>1. rec.ctl \in Control BY DEF RunRecord
  <2>2. /\ c.pending = <<>> /\ c.fallback = <<>> /\ c.ready = rec.ctl.ready
        /\ c.current = rec.ctl.current /\ c.submissions = rec.ctl.submissions
    BY <2>1 DEF Control, EmptiedControl
  <2>3. Steers(c) = <<>> BY <2>2, ConcatEmptySeq, EmptySeq DEF Steers
  <2>4. Leaves(c, r)
    BY <1>1, <2>2, <2>3, EmptiedLeaves DEF Leaves, UnderWay
  <2> HIDE DEF c
  <2>5. /\ a.ctl = c /\ b.ctl = c /\ b.staged = Steers(rec.ctl)
        /\ a.status = rec.status /\ b.status = rec.status
    BY DEF RunRecord, c
  <2> HIDE DEF a, b
  <2>6. Narrows(a, r) /\ Narrows(b, r)
    BY <2>2, <2>5 DEF Narrows, Shaped
  <2> QED BY <2>2, <2>4, <2>5, <2>6
<1> HIDE DEF a, b, c
<1>3. CASE /\ run' = [run EXCEPT ![r] = a] /\ pc' = [pc EXCEPT ![r] = "ending"]
  BY <1>2, <1>3, OneLoses
<1>4. CASE /\ run' = [run EXCEPT ![r] = rec] /\ pc' = [pc EXCEPT ![r] = "aborted"]
  BY <1>4, OneLoses
<1>5. CASE /\ run' = [run EXCEPT ![r] = b] /\ pc' = [pc EXCEPT ![r] = "discarding"]
           /\ rec.status # "completed"
  <2>1. run \in [Runs -> RunRecord] /\ r \in Tasks /\ Runs \subseteq Tasks
        /\ pc \in [Tasks -> RunPoints \cup CallerPoints \cup InputPoints]
    BY DEF TypeOK, StateTypes, ControlPoints, Tasks, Hosts
  <2>2. run'[r] = b /\ pc'[r] = "discarding" BY <1>5, <2>1
  <2>3. \A i \in Input : Discards(r, i)' => sub[i].target = r /\ pc[i] = "steered"
    BY <1>1, <1>2, <2>2 DEF Discards, ControlSound, RunSound
  <2>4. Loses(r)
    BY <1>2, <1>5, <2>2, <2>3 DEF Loses, StagedFirst, Sealed, Narrows
  <2>5. ASSUME NEW q \in Runs, q # r PROVE Loses(q)
    BY <1>5, <2>1, <2>5, SameLoses
  <2> QED BY <2>4, <2>5
<1> QED BY <1>3, <1>4, <1>5 DEF Settle, Goto, a, b

(* So does the "finally" block as a whole.                                 *)
LEMMA ConcludedLoses ==
  ASSUME TypeOK, ControlSound, NEW r \in Runs, NEW rec \in RunRecord,
         Leaves(rec.ctl, r), Narrows(rec, r),
         NEW status \in {"completed", "cancelled", "failed"},
         status = "completed" => rec.ctl.pending = <<>>,
         NEW w, Conclude(r, status, rec, w)
  PROVE  \A q \in Runs : Loses(q)
<1> DEFINE c == CloseSubmissions(UnbindStream(rec.ctl))
           ended == [rec EXCEPT !.status = status, !.phase = "stopping",
                                !.ctl = c]
<1>1. rec.ctl \in Control BY DEF RunRecord
<1>2. /\ c.pending = rec.ctl.pending /\ c.fallback = rec.ctl.fallback
      /\ c.ready = rec.ctl.ready /\ ~c.current /\ ~c.submissions /\ c \in Control
  BY <1>1 DEF Control, CloseSubmissions, UnbindStream
<1>3. Steers(c) = Steers(rec.ctl) BY <1>2 DEF Steers
<1>4. Leaves(c, r) BY <1>2, <1>3 DEF Leaves
<1> HIDE DEF c
<1>5. ended \in RunRecord /\ ended.ctl = c /\ ended.status = status
  BY <1>2 DEF RunRecord
<1>6. \/ AllReady(Steers(c), c) /\ Settle(r, ended, w)
      \/ run' = [run EXCEPT ![r] = ended] /\ pc' = [pc EXCEPT ![r] = "waiting"]
  BY DEF Conclude, Goto, c
<1> HIDE DEF ended
<1>9. Narrows(ended, r) BY <1>2, <1>5 DEF Narrows, Shaped
<1>7. CASE AllReady(Steers(c), c) /\ Settle(r, ended, w)
  BY <1>2, <1>4, <1>5, <1>7, <1>9, SettledLoses
<1>8. CASE run' = [run EXCEPT ![r] = ended] /\ pc' = [pc EXCEPT ![r] = "waiting"]
  BY <1>2, <1>4, <1>5, <1>8, <1>9, OneLoses
<1> QED BY <1>6, <1>7, <1>8

(* Moving the pending entries behind the fallbacks keeps them all.         *)
LEMMA MovedLeaves ==
  ASSUME TypeOK, ControlSound, NEW r \in Runs
  PROVE  /\ Leaves(MovePendingToFallback(run[r].ctl), r)
         /\ MovePendingToFallback(run[r].ctl).pending = <<>>
         /\ ~MovePendingToFallback(run[r].ctl).current
         /\ \A i \in Input :
              Occurs(i, Steers(MovePendingToFallback(run[r].ctl))) <=> Holds(r, i)
<1> DEFINE c == run[r].ctl
           d == MovePendingToFallback(c)
<1>1. c \in Control /\ c.pending \in Seq(Input) /\ c.fallback \in Seq(Input)
  BY DEF TypeOK, StateTypes, RunRecord, Control
<1>2. /\ d.pending = <<>> /\ d.fallback = c.fallback \o c.pending
      /\ d.ready = c.ready /\ ~d.current
  BY <1>1 DEF Control, MovePendingToFallback
<1>3. Steers(d) = c.fallback \o c.pending /\ Steers(c) = c.pending \o c.fallback
  <2>1. c.fallback \o c.pending \in Seq(Input) BY <1>1, ConcatProperties
  <2> QED BY <1>2, <2>1, ConcatEmptySeq DEF Steers
<1>4. IsInjective(Steers(c)) BY DEF ControlSound, RunSound
<1>7. ASSUME Shaped(run[r]) PROVE Steers(d) = Steers(c)
  <2>1. c.pending = <<>> \/ c.fallback = <<>> BY <1>7 DEF Shaped
  <2> HIDE DEF d, c
  <2> QED BY <1>1, <1>3, <2>1, ConcatEmptySeq
<1> HIDE DEF d, c
<1>5. \A i \in Input : Occurs(i, Steers(d)) <=> Occurs(i, Steers(c))
  BY <1>1, <1>3, OccursConcat
<1>6. IsInjective(Steers(d))
  <2>1. /\ IsInjective(c.pending) /\ IsInjective(c.fallback)
        /\ \A i \in Input : Occurs(i, c.pending) => ~Occurs(i, c.fallback)
    BY <1>1, <1>3, <1>4, InjectiveConcat
  <2> QED BY <1>1, <1>3, <2>1, InjectiveConcat
<1>8. \A i, j \in Input : Shaped(run[r]) /\ Ahead(Steers(d), i, j) =>
                              Ahead(Steers(c), i, j)
  BY <1>7
<1> QED BY <1>2, <1>5, <1>6, <1>8 DEF Leaves, Holds, c, d

(* Popping the first entries leaves the others in their order.             *)
LEMMA AheadLater ==
  ASSUME NEW S, NEW s \in Seq(S), NEW t \in Seq(S), NEW n \in 0 .. Len(s),
         NEW i, NEW j, Ahead(SubSeq(s, n + 1, Len(s)) \o t, i, j)
  PROVE  Ahead(s \o t, i, j)
<1> DEFINE q == SubSeq(s, n + 1, Len(s))
<1>1. \A a \in n + 1 .. Len(s) : s[a] \in S BY ElementOfSeq
<1> HIDE DEF q
<1>2. /\ q \in Seq(S)
      /\ Len(q) = IF n + 1 <= Len(s) THEN Len(s) - (n + 1) + 1 ELSE 0
      /\ \A a \in 1 .. Len(s) - (n + 1) + 1 : q[a] = s[(n + 1) + a - 1]
      /\ Len(s) \in Nat /\ Len(t) \in Nat
  BY <1>1, SubSeqProperties DEF q
<1>3. Len(q) = Len(s) - n BY <1>2
<1>4. ASSUME NEW a \in 1 .. Len(s) - n PROVE q[a] = s[n + a]
  <2>1. a \in 1 .. Len(s) - (n + 1) + 1 /\ (n + 1) + a - 1 = n + a BY <1>2
  <2> QED BY <1>2, <2>1
<1>5. /\ DOMAIN (q \o t) = 1 .. Len(s) - n + Len(t)
      /\ \A a \in 1 .. Len(s) - n + Len(t) :
           (q \o t)[a] = IF a <= Len(s) - n THEN q[a] ELSE t[a - (Len(s) - n)]
  <2>1. /\ q \o t \in Seq(S) /\ Len(q \o t) = Len(q) + Len(t)
        /\ \A a \in 1 .. Len(q) + Len(t) :
             (q \o t)[a] = IF a <= Len(q) THEN q[a] ELSE t[a - Len(q)]
    BY <1>2, ConcatProperties
  <2>2. DOMAIN (q \o t) = 1 .. Len(q) + Len(t) BY <2>1
  <2> QED BY <1>3, <2>1, <2>2
<1>6. /\ DOMAIN (s \o t) = 1 .. Len(s) + Len(t)
      /\ \A a \in 1 .. Len(s) + Len(t) :
           (s \o t)[a] = IF a <= Len(s) THEN s[a] ELSE t[a - Len(s)]
  BY ConcatProperties
<1>7. ASSUME NEW a \in 1 .. Len(s) - n + Len(t)
      PROVE  n + a \in 1 .. Len(s) + Len(t) /\ (s \o t)[n + a] = (q \o t)[a]
  <2>1. n + a \in 1 .. Len(s) + Len(t) BY <1>2
  <2>2. CASE a <= Len(s) - n BY <1>2, <1>4, <1>5, <1>6, <2>1, <2>2
  <2>3. CASE a > Len(s) - n
    <3>1. (n + a) - Len(s) = a - (Len(s) - n) /\ ~(n + a <= Len(s))
      BY <1>2, <2>3
    <3>2. (s \o t)[n + a] = t[(n + a) - Len(s)] BY <1>6, <2>1, <3>1
    <3>3. (q \o t)[a] = t[a - (Len(s) - n)] BY <1>2, <1>5, <2>3
    <3> QED BY <2>1, <3>1, <3>2, <3>3
  <2> QED BY <1>2, <2>2, <2>3
<1>8. PICK a, b \in 1 .. Len(s) - n + Len(t) :
        a < b /\ (q \o t)[a] = i /\ (q \o t)[b] = j
  BY <1>5 DEF Ahead, q
<1>9. n + a < n + b BY <1>2, <1>8
<1> QED BY <1>6, <1>7, <1>8, <1>9 DEF Ahead

(* Popping what was staged takes only entries that are ready.              *)
LEMMA ActivatedLeaves ==
  ASSUME TypeOK, ControlSound, NEW r \in Runs, pc[r] = "activating"
  PROVE  /\ Leaves(MarkStaged(run[r].ctl, Len(run[r].staged)), r)
         /\ \A i \in Input :
              Holds(r, i) <=>
                \/ Occurs(i, Steers(MarkStaged(run[r].ctl, Len(run[r].staged))))
                \/ Occurs(i, run[r].staged)
         /\ \A i \in Input :
              Occurs(i, run[r].staged) =>
                ~Occurs(i, Steers(MarkStaged(run[r].ctl, Len(run[r].staged))))
<1> DEFINE c == run[r].ctl
           n == Len(run[r].staged)
           d == MarkStaged(c, n)
           g == run[r].staged
<1>1. /\ c \in Control /\ c.pending \in Seq(Input) /\ c.fallback \in Seq(Input)
      /\ g \in Seq(Input) /\ n \in Nat /\ DOMAIN g = 1 .. n
  BY DEF TypeOK, StateTypes, RunRecord, Control
<1>2. /\ d.pending = SubSeq(c.pending, n + 1, Len(c.pending))
      /\ d.fallback = c.fallback /\ d.ready = c.ready
  BY <1>1 DEF Control, MarkStaged
<1>3. \A k \in 1 .. n : /\ k \in DOMAIN c.pending /\ g[k] = c.pending[k]
                        /\ g[k] \in c.ready
  BY <1>1 DEF ControlSound, RunSound, StagedFirst
<1>4. Steers(d) = d.pending \o c.fallback /\ Steers(c) = c.pending \o c.fallback
  BY <1>2 DEF Steers
<1>5. IsInjective(Steers(c)) BY DEF ControlSound, RunSound
<1> HIDE DEF c, d, n, g
<1>6. /\ IsInjective(c.pending) /\ IsInjective(c.fallback)
      /\ \A i \in Input : Occurs(i, c.pending) => ~Occurs(i, c.fallback)
  BY <1>1, <1>4, <1>5, InjectiveConcat
<1>7. n \in 0 .. Len(c.pending)
  <2>1. DOMAIN c.pending = 1 .. Len(c.pending) /\ Len(c.pending) \in Nat BY <1>1
  <2>2. CASE n = 0 BY <2>1, <2>2
  <2>3. CASE n > 0
    <3>1. n \in 1 .. n BY <1>1, <2>3
    <3>2. n \in 1 .. Len(c.pending) BY <1>3, <2>1, <3>1
    <3> QED BY <2>1, <3>2
  <2> QED BY <1>1, <2>2, <2>3
<1>8. /\ d.pending \in Seq(Input) /\ IsInjective(d.pending)
      /\ \A i \in Input : Occurs(i, d.pending) <=>
           Occurs(i, c.pending) /\ ~\E k \in 1 .. n : c.pending[k] = i
  <2>1. ASSUME NEW p \in Seq(Input), IsInjective(p), n \in 0 .. Len(p)
        PROVE  LET q == SubSeq(p, n + 1, Len(p))
               IN  /\ q \in Seq(Input) /\ IsInjective(q)
                   /\ \A i \in Input : Occurs(i, q) <=>
                        Occurs(i, p) /\ ~\E k \in 1 .. n : p[k] = i
    BY <2>1, WithoutFirst
  <2> QED BY <1>1, <1>2, <1>6, <1>7, <2>1
<1>9. \A i \in Input : Occurs(i, g) <=> \E k \in 1 .. n : c.pending[k] = i
  BY <1>1, <1>3 DEF Occurs
<1>10. \A i \in Input : Occurs(i, g) => Occurs(i, c.pending) /\ i \in c.ready
  BY <1>1, <1>3 DEF Occurs
<1>11. IsInjective(Steers(d))
  BY <1>1, <1>4, <1>6, <1>8, InjectiveConcat
<1>12. \A i \in Input :
         /\ Occurs(i, Steers(c)) <=> Occurs(i, c.pending) \/ Occurs(i, c.fallback)
         /\ Occurs(i, Steers(d)) <=> Occurs(i, d.pending) \/ Occurs(i, c.fallback)
  BY <1>1, <1>4, <1>8, OccursConcat
<1>13. \A i \in Input : i \in c.ready => pc[i] \notin UnderWay
  BY DEF c, ControlSound, RunSound, UnderWay
<1>14. \A i \in Input : Occurs(i, Steers(c)) /\ pc[i] \in UnderWay =>
                          Occurs(i, Steers(d))
  BY <1>8, <1>9, <1>10, <1>12, <1>13
<1>15. \A i \in Input :
         /\ Occurs(i, Steers(c)) <=> Occurs(i, Steers(d)) \/ Occurs(i, g)
         /\ Occurs(i, g) => ~Occurs(i, Steers(d))
  BY <1>6, <1>8, <1>9, <1>10, <1>12
<1>16. \A i, j \in Input : Ahead(Steers(d), i, j) => Ahead(Steers(c), i, j)
  BY <1>1, <1>2, <1>4, <1>7, AheadLater
<1> QED BY <1>2, <1>11, <1>14, <1>15, <1>16 DEF Leaves, Holds, c, d, n, g

(* Every step of a Run before its tail adds nothing to any control.        *)
LEMMA RunStepLoses ==
  ASSUME TypeOK, ControlSound, NEW r \in Runs,
         RunStep(r) \/ AgentFails(r) \/ ApprovalReturns(r), ~RunEndNotified(r)
  PROVE  \A q \in Runs : Loses(q)
<1> USE DEF Goto
<1> DEFINE c == run[r].ctl
<1>1. /\ run \in [Runs -> RunRecord] /\ run[r] \in RunRecord
      /\ c \in Control /\ r \in Tasks /\ Runs \subseteq Tasks
      /\ pc \in [Tasks -> RunPoints \cup CallerPoints \cup InputPoints]
  BY DEF TypeOK, StateTypes, ControlPoints, RunRecord, Tasks, Hosts
<1>2. RunSound(r) BY DEF ControlSound
<1>3. ASSUME run' = run, NEW at, pc' = [pc EXCEPT ![r] = at],
             at \notin {"activating", "discarding", "closing", "absent"}
      PROVE  \A q \in Runs : Loses(q)
  BY <1>1, <1>3, SameLoses
<1>4. ASSUME NEW x, NEW at, run' = [run EXCEPT ![r] = x],
             pc' = [pc EXCEPT ![r] = at], x.status = run[r].status,
             x.ctl.pending = c.pending, x.ctl.fallback = c.fallback,
             x.ctl.ready = c.ready, x.ctl.current \in {c.current, FALSE},
             x.ctl.current = c.current \/ c.pending = <<>>,
             x.ctl.submissions = c.submissions,
             at \notin {"activating", "discarding", "absent"},
             at = "closing" => c.pending = <<>> /\ ~x.ctl.current
      PROVE  \A q \in Runs : Loses(q)
  <2>1. Leaves(x.ctl, r) BY <1>4, SameSteers
  <2>2. x.status = "completed" => x.ctl.pending = <<>> /\ ~x.ctl.current
    BY <1>2, <1>4 DEF RunSound, Sealed
  <2>3. Narrows(x, r) BY <1>4 DEF Narrows, Shaped
  <2> QED BY <1>4, <2>1, <2>2, <2>3, OneLoses
<1>5. /\ BindStream(c).pending = c.pending /\ BindStream(c).fallback = c.fallback
      /\ BindStream(c).ready = c.ready /\ BindStream(c).current = c.current
      /\ UnbindStream(c).pending = c.pending
      /\ UnbindStream(c).fallback = c.fallback
      /\ UnbindStream(c).ready = c.ready /\ UnbindStream(c).current = c.current
      /\ SealCurrent(c).pending = c.pending /\ SealCurrent(c).fallback = c.fallback
      /\ SealCurrent(c).ready = c.ready /\ SealCurrent(c).current = FALSE
      /\ BindStream(c).submissions = c.submissions
      /\ UnbindStream(c).submissions = c.submissions
      /\ SealCurrent(c).submissions = c.submissions
  BY <1>1 DEF Control, BindStream, UnbindStream, SealCurrent
<1>6. Leaves(c, r) /\ Narrows(run[r], r) BY SameSteers DEF Narrows
<1>7. ASSUME NEW rec \in RunRecord, Leaves(rec.ctl, r), Narrows(rec, r),
             NEW st \in {"cancelled", "failed"}, NEW w, Conclude(r, st, rec, w)
      PROVE  \A q \in Runs : Loses(q)
  BY <1>7, ConcludedLoses
<1>8. /\ BarrierFailed(run[r]) \in RunRecord /\ BarrierFailed(run[r]).ctl = c
      /\ Narrows(BarrierFailed(run[r]), r)
  <2>1. /\ BarrierFailed(run[r]) \in RunRecord /\ BarrierFailed(run[r]).ctl = c
        /\ BarrierFailed(run[r]).status = run[r].status
    BY <1>1 DEF RunRecord, BarrierFailed
  <2> QED BY <2>1 DEF Narrows, Shaped
<1>a. CASE CancelCallback(r)
  BY <1>1, <1>a, SameLoses DEF CancelCallback
<1>b. CASE FirstStep(r)
  <2>1. CASE pc' = [pc EXCEPT ![r] = "agent"] /\ run' = [run EXCEPT ![r] = Streaming(@)]
    <3>1. run' = [run EXCEPT ![r] = Streaming(run[r])] BY <1>1, <2>1
    <3>2. /\ Streaming(run[r]).ctl = BindStream(c)
          /\ Streaming(run[r]).status = run[r].status
      BY <1>1 DEF Streaming, RunRecord
    <3> QED BY <1>4, <1>5, <2>1, <3>1, <3>2
  <2>2. CASE run' = run /\ \E at \in {"gated", "recording"} : pc' = [pc EXCEPT ![r] = at]
    BY <1>3, <2>2
  <2> QED BY <1>b, <2>1, <2>2 DEF FirstStep
<1>c. CASE NeverStarted(r) \/ CleanupInterrupted(r) \/ RunEndInterrupted(r)
  <2>1. run' = run /\ \E at \in {"aborted", "done"} : pc' = [pc EXCEPT ![r] = at]
    BY <1>c DEF NeverStarted, CleanupInterrupted, RunEndInterrupted
  <2> QED BY <1>3, <2>1
<1>d. CASE UserMessageRecorded(r) \/ GateOpens(r)
  <2>1. CASE /\ pc' = [pc EXCEPT ![r] = "agent"]
             /\ \/ run' = [run EXCEPT ![r] = Streaming([@ EXCEPT !.barrier = "ok"])]
                \/ run' = [run EXCEPT ![r] = Streaming(@)]
    <3>1. PICK x : run' = [run EXCEPT ![r] = x] /\
                   x \in {Streaming([run[r] EXCEPT !.barrier = "ok"]), Streaming(run[r])}
      BY <1>1, <2>1
    <3>2. x.ctl = BindStream(c) /\ x.status = run[r].status
      BY <1>1, <3>1 DEF Streaming, RunRecord
    <3> QED BY <1>4, <1>5, <2>1, <3>1, <3>2
  <2>2. CASE \/ Conclude(r, "failed", BarrierFailed(run[r]), Unread)
             \/ Conclude(r, "failed", run[r], writers)
    BY <1>1, <1>6, <1>7, <1>8, <2>2
  <2> QED BY <1>d, <2>1, <2>2 DEF UserMessageRecorded, GateOpens
<1>e. CASE StreamEnds(r) \/ ApprovalReturns(r)
  <2> DEFINE x == [run[r] EXCEPT !.ctl = UnbindStream(@),
                                 !.phase = "waiting_approval"]
             y == [run[r] EXCEPT !.ctl = UnbindStream(@)]
             p == IF run[r].phase = "waiting_approval" THEN "running"
                  ELSE run[r].phase
             z == [run[r] EXCEPT !.phase = p]
  <2>1. \/ run' = [run EXCEPT ![r] = x] /\ pc' = [pc EXCEPT ![r] = "approval"]
        \/ run' = [run EXCEPT ![r] = y] /\ pc' = [pc EXCEPT ![r] = "boundary"]
        \/ run' = [run EXCEPT ![r] = z] /\ pc' = [pc EXCEPT ![r] = "resuming"]
    <3>1. ASSUME StreamEnds(r)
          PROVE  \/ /\ run' = [run EXCEPT ![r] = x]
                    /\ pc' = [pc EXCEPT ![r] = "approval"]
                 \/ /\ run' = [run EXCEPT ![r] = y]
                    /\ pc' = [pc EXCEPT ![r] = "boundary"]
      BY <1>1, <3>1 DEF StreamEnds
    <3>2. ASSUME ApprovalReturns(r)
          PROVE  /\ run' = [run EXCEPT ![r] = z]
                 /\ pc' = [pc EXCEPT ![r] = "resuming"]
      BY <1>1, <3>2 DEF ApprovalReturns
    <3> HIDE DEF x, y, z
    <3> QED BY <1>e, <3>1, <3>2
  <2>2. /\ x.ctl = UnbindStream(c) /\ y.ctl = UnbindStream(c) /\ z.ctl = c
        /\ x.status = run[r].status /\ y.status = run[r].status
        /\ z.status = run[r].status
    BY <1>1 DEF RunRecord
  <2> HIDE DEF x, y, z
  <2> QED BY <1>4, <1>5, <2>1, <2>2
<1>f. CASE BoundaryEmpty(r)
  <2>1. CASE pc[r] = "resuming"
    <3> DEFINE x == [run[r] EXCEPT !.ctl = BindStream(c)]
    <3>1. run' = [run EXCEPT ![r] = x] /\ pc' = [pc EXCEPT ![r] = "agent"]
      BY <1>1, <1>f, <2>1 DEF BoundaryEmpty, Leave
    <3>2. x.ctl = BindStream(c) /\ x.status = run[r].status BY <1>1 DEF RunRecord
    <3> HIDE DEF x
    <3> QED BY <1>4, <1>5, <3>1, <3>2
  <2>2. CASE pc[r] = "boundary"
    <3> DEFINE x == [run[r] EXCEPT !.ctl = SealCurrent(c)]
    <3>1. run' = [run EXCEPT ![r] = x] /\ pc' = [pc EXCEPT ![r] = "closing"]
      BY <1>1, <1>f, <2>2 DEF BoundaryEmpty, Leave
    <3>2. x.ctl = SealCurrent(c) /\ x.status = run[r].status BY <1>1 DEF RunRecord
    <3>3. c.pending = <<>> BY <1>f DEF BoundaryEmpty
    <3> HIDE DEF x
    <3> QED BY <1>4, <1>5, <3>1, <3>2, <3>3
  <2> QED BY <1>f, <2>1, <2>2 DEF BoundaryEmpty, AtBoundary
<1>g. CASE StagingRefused(r)
  <2> DEFINE d == MovePendingToFallback(c)
  <2>1. /\ Leaves(d, r) /\ d.pending = <<>> /\ ~d.current /\ d \in Control
        /\ d.submissions = c.submissions
    BY <1>1, MovedLeaves, ControlOps DEF MovePendingToFallback, Control
  <2> DEFINE x == [run[r] EXCEPT !.ctl = BindStream(d)]
             y == [run[r] EXCEPT !.ctl = d]
  <2>2. \/ run' = [run EXCEPT ![r] = x] /\ pc' = [pc EXCEPT ![r] = "agent"]
        \/ run' = [run EXCEPT ![r] = y] /\ pc' = [pc EXCEPT ![r] = "closing"]
    <3>1. ASSUME pc[r] = "resuming"
          PROVE  /\ run' = [run EXCEPT ![r] = x]
                 /\ pc' = [pc EXCEPT ![r] = "agent"]
      BY <1>1, <1>g, <3>1 DEF StagingRefused, Leave
    <3>2. ASSUME pc[r] # "resuming"
          PROVE  /\ run' = [run EXCEPT ![r] = y]
                 /\ pc' = [pc EXCEPT ![r] = "closing"]
      BY <1>1, <1>g, <3>2 DEF StagingRefused, Leave
    <3> HIDE DEF x, y
    <3> QED BY <3>1, <3>2
  <2> HIDE DEF d
  <2>3. /\ BindStream(d).pending = d.pending /\ BindStream(d).fallback = d.fallback
        /\ BindStream(d).ready = d.ready /\ BindStream(d).current = d.current
        /\ BindStream(d).submissions = d.submissions
    BY <2>1 DEF Control, BindStream
  <2>4. Leaves(BindStream(d), r) BY <2>1, <2>3 DEF Leaves, Steers
  <2>5. /\ x.ctl = BindStream(d) /\ y.ctl = d
        /\ x.status = run[r].status /\ y.status = run[r].status
    BY <1>1 DEF RunRecord
  <2> HIDE DEF x, y
  <2>9. Narrows(x, r) /\ Narrows(y, r)
    BY <2>1, <2>3, <2>5 DEF Narrows, Shaped
  <2>6. /\ Leaves(x.ctl, r) /\ x.ctl.pending = <<>> /\ ~x.ctl.current
        /\ Leaves(y.ctl, r) /\ y.ctl.pending = <<>> /\ ~y.ctl.current
    BY <2>1, <2>3, <2>4, <2>5
  <2>7. CASE run' = [run EXCEPT ![r] = x] /\ pc' = [pc EXCEPT ![r] = "agent"]
    BY <2>6, <2>7, <2>9, OneLoses
  <2>8. CASE run' = [run EXCEPT ![r] = y] /\ pc' = [pc EXCEPT ![r] = "closing"]
    BY <2>6, <2>8, <2>9, OneLoses
  <2> QED BY <2>2, <2>7, <2>8
<1>h. CASE StageSteers(r)
  <2> DEFINE x == [run[r] EXCEPT !.staged = c.pending]
  <2>1. /\ run' = [run EXCEPT ![r] = x] /\ pc' = [pc EXCEPT ![r] = "activating"]
        /\ AllReady(c.pending, c)
    BY <1>1, <1>h DEF StageSteers, AtBoundary
  <2>2. x.ctl = c /\ x.status = run[r].status /\ x.staged = c.pending
    BY <1>1 DEF RunRecord
  <2> HIDE DEF x
  <2>3. run'[r] = x /\ pc'[r] = "activating" BY <1>1, <2>1
  <2>4. StagedFirst(r)' BY <2>1, <2>2, <2>3 DEF StagedFirst, AllReady
  <2>5. Sealed(r)' BY <1>2, <2>2, <2>3 DEF Sealed, RunSound
  <2>8. Narrows(x, r) BY <2>2 DEF Narrows, Shaped
  <2>6. Loses(r) BY <1>6, <2>2, <2>3, <2>4, <2>5, <2>8 DEF Loses, Discards, Narrows
  <2>7. \A q \in Runs \ {r} : Loses(q) BY <1>1, <2>1, SameLoses
  <2> QED BY <2>6, <2>7
<1>i. CASE SteersActivated(r)
  <2> DEFINE d == MarkStaged(c, Len(run[r].staged))
             rec == [run[r] EXCEPT !.ctl = d, !.staged = <<>>]
             kept == [run[r] EXCEPT !.staged = <<>>]
  <2>1. pc[r] = "activating" BY <1>i DEF SteersActivated
  <2>2. Leaves(d, r) BY <2>1, ActivatedLeaves
  <2>3. /\ d \in Control /\ d.current = c.current
        /\ d.submissions = c.submissions /\ d.fallback = c.fallback
        /\ c.pending = <<>> => d.pending = <<>>
    <3>1. Len(run[r].staged) \in Nat BY <1>1 DEF RunRecord
    <3>2. d \in Control BY <1>1, <3>1, MarkStagedType
    <3>3. /\ d.current = c.current
          /\ d.submissions = c.submissions /\ d.fallback = c.fallback
          /\ d.pending = SubSeq(c.pending, Len(run[r].staged) + 1, Len(c.pending))
      BY <1>1 DEF MarkStaged, Control
    <3>4. ASSUME c.pending = <<>> PROVE d.pending = <<>>
      <4>1. Len(c.pending) = 0 BY <3>4
      <4> HIDE DEF d, c
      <4>2. Len(c.pending) \in Int /\ Len(c.pending) < Len(run[r].staged) + 1
            /\ Len(run[r].staged) + 1 \in Int
        BY <3>1, <4>1
      <4> QED BY <3>3, <4>2, SubSeqEmpty
    <3> QED BY <3>2, <3>3, <3>4
  <2> HIDE DEF d
  <2>4. /\ rec \in RunRecord /\ rec.ctl = d /\ rec.status = run[r].status
        /\ kept \in RunRecord /\ kept.ctl = c /\ kept.status = run[r].status
    BY <1>1, <2>3, EmptySeq DEF RunRecord
  <2>5. \/ Conclude(r, "cancelled", rec, Unread)
        \/ Conclude(r, "failed", kept, Unread)
        \/ run' = [run EXCEPT ![r] = Streaming(rec)] /\ pc' = [pc EXCEPT ![r] = "agent"]
    BY <1>1, <1>i DEF SteersActivated, d
  <2> HIDE DEF rec, kept
  <2>7. Narrows(rec, r) /\ Narrows(kept, r)
    BY <2>3, <2>4 DEF Narrows, Shaped
  <2>6. CASE run' = [run EXCEPT ![r] = Streaming(rec)] /\ pc' = [pc EXCEPT ![r] = "agent"]
    <3>1. /\ Streaming(rec).ctl = BindStream(d)
          /\ Streaming(rec).status = run[r].status
      BY <2>4 DEF Streaming, RunRecord
    <3>2. /\ BindStream(d).pending = d.pending /\ BindStream(d).fallback = d.fallback
          /\ BindStream(d).ready = d.ready /\ BindStream(d).current = d.current
          /\ BindStream(d).submissions = d.submissions
      BY <2>3 DEF Control, BindStream
    <3>3. Leaves(BindStream(d), r) BY <2>2, <3>2 DEF Leaves, Steers
    <3>5. Narrows(Streaming(rec), r) BY <2>4, <2>7, <3>1, <3>2 DEF Narrows, Shaped
    <3>4. run[r].status = "completed" => c.pending = <<>> /\ ~c.current
      BY <1>2 DEF RunSound, Sealed
    <3> QED BY <2>3, <2>6, <3>1, <3>2, <3>3, <3>4, <3>5, OneLoses
  <2> QED BY <1>6, <1>7, <2>2, <2>4, <2>5, <2>6, <2>7
<1>j. CASE LoopCompletes(r)
  <2>1. c.pending = <<>> BY <1>2, <1>j DEF LoopCompletes, RunSound, Sealed
  <2> QED BY <1>1, <1>6, <1>j, <2>1, ConcludedLoses DEF LoopCompletes
<1>k. CASE AgentFails(r)
  BY <1>1, <1>6, <1>7, <1>k DEF AgentFails
<1>l. CASE RunCancelled(r)
  BY <1>6, <1>7, <1>8, <1>l DEF RunCancelled
<1>m. CASE SubmissionsReady(r)
  BY <1>1, <1>2, <1>6, <1>m, SettledLoses
  DEF SubmissionsReady, RunSound, Sealed
<1>n. CASE DiscardRecorded(r)
  <2> DEFINE x == [run[r] EXCEPT !.staged = <<>>]
  <2>1. run' = [run EXCEPT ![r] = x] /\ pc' = [pc EXCEPT ![r] = "ending"]
    BY <1>1, <1>n DEF DiscardRecorded
  <2>2. x.ctl = c /\ x.status = run[r].status BY <1>1 DEF RunRecord
  <2> HIDE DEF x
  <2> QED BY <1>4, <2>1, <2>2
<1> QED
  BY <1>a, <1>b, <1>c, <1>d, <1>e, <1>f, <1>g, <1>h, <1>i, <1>j, <1>k, <1>l,
     <1>m, <1>n DEF RunStep

-----------------------------------------------------------------------------
(* Steps that touch no control.                                            *)

SameControl(a, b) ==
  a.ctl = b.ctl /\ a.staged = b.staged /\ a.status = b.status

(* "runs" differs from the Run table in no control.                        *)
SameControls(runs) == \A q \in Runs : SameControl(runs[q], run[q])

(* The updates that promotions make in the record of the Run they hold.    *)
LEMMA SameControlUpdates ==
  ASSUME TypeOK, NEW b \in Runs, NEW runs,
         \/ runs = run
         \/ \E g : runs = [run EXCEPT ![b].gate = g]
         \/ \E x : runs = [run EXCEPT ![b].barrier = x]
         \/ \E x, g : runs = [run EXCEPT ![b].barrier = x, ![b].gate = g]
         \/ runs = [run EXCEPT ![b] = BarrierFailed(@)]
         \/ \E g : runs = [run EXCEPT ![b] = [BarrierFailed(@) EXCEPT !.gate = g]]
  PROVE  SameControls(runs)
<1>1. run \in [Runs -> RunRecord] /\ run[b] \in RunRecord
  BY DEF TypeOK, StateTypes
<1>2. BarrierFailed(run[b]) \in RunRecord /\ SameControl(BarrierFailed(run[b]), run[b])
  BY <1>1 DEF RunRecord, BarrierFailed, SameControl
<1>3. ASSUME NEW x, SameControl(x, run[b]), runs = [run EXCEPT ![b] = x]
      PROVE  SameControls(runs)
  BY <1>1, <1>3 DEF SameControls, SameControl
<1>4. \A x, g : /\ SameControl([run[b] EXCEPT !.gate = g], run[b])
                /\ SameControl([run[b] EXCEPT !.barrier = x], run[b])
                /\ SameControl([run[b] EXCEPT !.barrier = x, !.gate = g], run[b])
                /\ SameControl([BarrierFailed(run[b]) EXCEPT !.gate = g], run[b])
  BY <1>1, <1>2 DEF RunRecord, SameControl
<1>5. CASE runs = run BY <1>5 DEF SameControls, SameControl
<1>6. ASSUME NEW g, runs = [run EXCEPT ![b].gate = g]
      PROVE  SameControls(runs)
  <2>1. runs = [run EXCEPT ![b] = [run[b] EXCEPT !.gate = g]] BY <1>1, <1>6
  <2> QED BY <1>3, <1>4, <2>1
<1>7. ASSUME NEW x, runs = [run EXCEPT ![b].barrier = x]
      PROVE  SameControls(runs)
  <2>1. runs = [run EXCEPT ![b] = [run[b] EXCEPT !.barrier = x]] BY <1>1, <1>7
  <2> QED BY <1>3, <1>4, <2>1
<1>8. ASSUME NEW x, NEW g, runs = [run EXCEPT ![b].barrier = x, ![b].gate = g]
      PROVE  SameControls(runs)
  <2>1. runs = [run EXCEPT ![b] = [run[b] EXCEPT !.barrier = x, !.gate = g]]
    BY <1>1, <1>8
  <2> QED BY <1>3, <1>4, <2>1
<1>9. ASSUME runs = [run EXCEPT ![b] = BarrierFailed(@)]
      PROVE  SameControls(runs)
  <2>1. runs = [run EXCEPT ![b] = BarrierFailed(run[b])] BY <1>1, <1>9
  <2> QED BY <1>2, <1>3, <2>1
<1>10. ASSUME NEW g, runs = [run EXCEPT ![b] = [BarrierFailed(@) EXCEPT !.gate = g]]
       PROVE  SameControls(runs)
  <2>1. runs = [run EXCEPT ![b] = [BarrierFailed(run[b]) EXCEPT !.gate = g]]
    BY <1>1, <1>10
  <2> QED BY <1>3, <1>4, <2>1
<1> QED BY <1>5, <1>6, <1>7, <1>8, <1>9, <1>10

(* Tasks move, but none to an await at which its control matters.          *)
LEMMA QuietSound ==
  ASSUME TypeOK, ControlSound, SameControls(run'),
         \A q \in Runs :
           \/ pc'[q] = pc[q]
           \/ pc'[q] \notin {"activating", "discarding", "closing", "absent"},
         \A i \in Input : pc'[i] = pc[i] /\ sub'[i] = sub[i],
         active' \in {active, None}
  PROVE  ControlSound' /\ AllLose
<1>1. \A q \in Runs : Loses(q) BY SameLoses DEF SameControls, SameControl
<1>2. active' # None => pc'[active'] # "absent"
  BY DEF ControlSound, TypeOK, StateTypes
<1> QED BY <1>1, <1>2, LosesSound DEF AllLose

(* One host moves on.                                                      *)
LEMMA HostSound ==
  ASSUME TypeOK, ControlSound, NEW h \in Hosts, SameControls(run'),
         NEW at \in Promoting \cup {"done", "idle", "reserved"},
         pc' = [pc EXCEPT ![h] = at], sub' = sub, active' \in {active, None}
  PROVE  ControlSound' /\ AllLose
<1>1. /\ pc \in [Tasks -> RunPoints \cup CallerPoints \cup InputPoints]
      /\ Runs \subseteq Tasks /\ Input \subseteq Tasks /\ h \notin Input
      /\ at \notin {"activating", "discarding", "closing", "absent"}
  BY RuntimeAssumption DEF TypeOK, ControlPoints, Tasks, Hosts, Promoting
<1>2. \A q \in Runs : \/ pc'[q] = pc[q]
                      \/ pc'[q] \notin {"activating", "discarding", "closing", "absent"}
  BY <1>1
<1>3. \A i \in Input : pc'[i] = pc[i] /\ sub'[i] = sub[i] BY <1>1
<1> QED BY <1>2, <1>3, QuietSound

(* A Run is created, with a new control.                                   *)
LEMMA CreateSound ==
  ASSUME TypeOK, ControlSound, NEW n \in Runs, pc[n] = "absent",
         NEW runs \in [Runs -> RunRecord], SameControls(runs),
         NEW origin, NEW i, NEW b, run' = [runs EXCEPT ![n] = CreatedRun(origin, i, b)],
         pc'[n] = "created", active' = n, sub' = sub,
         \A t \in Input : pc'[t] = pc[t],
         \A q \in Runs \ {n} :
           \/ pc'[q] = pc[q]
           \/ pc'[q] \notin {"activating", "discarding", "closing", "absent"}
  PROVE  ControlSound' /\ AllLose
<1> DEFINE rec == CreatedRun(origin, i, b)
<1>1. rec.ctl = NewControl /\ rec.status = "none" BY DEF CreatedRun
<1> HIDE DEF rec
<1>2. Loses(n) BY <1>1, CreatedLoses DEF rec
<1>3. \A q \in Runs \ {n} : Loses(q)
  BY SameLoses DEF SameControls, SameControl
<1>4. active' # None => pc'[active'] # "absent"
  OBVIOUS
<1> QED BY <1>2, <1>3, <1>4, LosesSound DEF AllLose

(* A promotion creates a Run.                                              *)
LEMMA PromoteSound ==
  ASSUME TypeOK, ControlSound, NEW h \in Hosts, h \in Runs => pc[h] # "absent",
         NEW origin, NEW i, NEW at \in Promoting,
         NEW runs \in [Runs -> RunRecord], SameControls(runs),
         Promote(h, origin, i, at, runs), sub' = sub
  PROVE  ControlSound' /\ AllLose
<1>1. Next1 \in Runs /\ h # Next1 BY PointsPromote
<1> DEFINE n == Next1
<1>2. /\ run' = [runs EXCEPT ![n] = CreatedRun(origin, i, sub[i].behaviour)]
      /\ pc' = [pc EXCEPT ![n] = "created", ![h] = at] /\ active' = n
  BY DEF Promote
<1>3. pc[n] = "absent"
  BY <1>1 DEF TypeOK, StateTypes, ControlPoints, Next1, Runs
<1> HIDE DEF n
<1>4. /\ n \in Runs /\ n # h
      /\ pc \in [Tasks -> RunPoints \cup CallerPoints \cup InputPoints]
      /\ Runs \subseteq Tasks /\ Input \subseteq Tasks /\ h \notin Input
      /\ n \notin Input /\ h \in Tasks
      /\ at \notin {"activating", "discarding", "closing", "absent"}
  BY <1>1, RuntimeAssumption
  DEF n, TypeOK, ControlPoints, Tasks, Hosts, Promoting
<1>5. pc'[n] = "created" /\ (\A t \in Input : pc'[t] = pc[t])
  BY <1>2, <1>4
<1>6. \A q \in Runs \ {n} :
         \/ pc'[q] = pc[q]
         \/ pc'[q] \notin {"activating", "discarding", "closing", "absent"}
  BY <1>2, <1>4
<1> QED BY <1>2, <1>3, <1>4, <1>5, <1>6, CreateSound

(* Serving the queue, or declining to.                                     *)
LEMMA QueueSound ==
  ASSUME TypeOK, ControlSound, NEW h \in Hosts, h \in Runs => pc[h] # "absent",
         NEW runs \in [Runs -> RunRecord], SameControls(runs),
         NEW isPaused, NEW holder, sub' = sub,
         NoPromotion(h, runs) \/ TryPromoteQueue(h, runs, isPaused, holder)
  PROVE  ControlSound' /\ AllLose
<1>1. CASE NoPromotion(h, runs)
  <2>1. PICK at \in {"done", "idle"} : pc' = [pc EXCEPT ![h] = at]
    BY <1>1 DEF NoPromotion, EndHost
  <2> QED BY <1>1, <2>1, HostSound DEF NoPromotion
<1>2. CASE Promote(h, "queue", Head(queue), "yielding", runs)
  BY <1>2, PromoteSound DEF Promoting
<1> QED BY <1>1, <1>2 DEF TryPromoteQueue

(* Serving the pending work of either kind.                                *)
LEMMA PendingSound ==
  ASSUME TypeOK, ControlSound, NEW h \in Hosts, h \in Runs => pc[h] # "absent",
         NEW holder, TryPromotePending(h, run, holder), sub' = sub
  PROVE  ControlSound' /\ AllLose
<1>1. run \in [Runs -> RunRecord] /\ SameControls(run)
  BY DEF TypeOK, StateTypes, SameControls, SameControl
<1>2. CASE NoPromotion(h, run) \/ TryPromoteQueue(h, run, paused, holder)
  BY <1>1, <1>2, QueueSound
<1>3. CASE Promote(h, "steer", Head(fallbackQ), "activatingFallback", run)
  BY <1>1, <1>3, PromoteSound DEF Promoting
<1> QED BY <1>2, <1>3 DEF TryPromotePending

(* What a host does at every await of a promotion: it moves on and touches *)
(* no control, or it serves the queue.                                     *)
LEMMA HostShape ==
  ASSUME TypeOK, NEW h \in Hosts, HostStep(h)
  PROVE  /\ sub' = sub /\ shutdown' = shutdown /\ admitted' = admitted
         /\ promo[h] \in Runs /\ (h \in Runs => pc[h] # "absent")
         /\ \/ /\ SameControls(run') /\ active' = active
               /\ fallbackQ' = fallbackQ
               /\ \E at \in Promoting \cup {"done", "idle"} :
                    pc' = [pc EXCEPT ![h] = at]
            \/ \E runs \in [Runs -> RunRecord] :
                 /\ SameControls(runs) /\ fallbackQ' = fallbackQ
                 /\ runs = run \/ runs = [run EXCEPT ![promo[h]].gate = TRUE]
                 /\ \/ NoPromotion(h, runs) /\ queue' = queue
                    \/ TryPromoteQueue(h, runs, paused, maintenance)
<1> USE DEF Goto, Unchanged4Host, session
<1>1. pc[h] \in Promoting
  BY DEF Promoting, HostStep, FallbackActivated, FallbackAbandoned,
         FallbackGathered, FallbackNotified, Yielded, QueuedInputRecorded,
         QueuedInputKept, QueueNotified, QueueGathered, GatherInterrupted
<1>2. promo[h] \in Runs /\ (h \in Runs => pc[h] # "absent")
  BY <1>1, RuntimeAssumption DEF TypeOK, ControlPoints, Promoting
<1>3. sub' = sub /\ shutdown' = shutdown /\ admitted' = admitted
  BY DEF HostStep, FallbackActivated, FallbackAbandoned,
         FallbackGathered, FallbackNotified, Yielded, QueuedInputRecorded,
         QueuedInputKept, QueueNotified, QueueGathered, GatherInterrupted
<1>4. SameControls(run) /\ run \in [Runs -> RunRecord] /\ run[promo[h]] \in RunRecord
  BY <1>2 DEF SameControls, SameControl, TypeOK, StateTypes
<1>5. /\ {"notifyingFallback", "abandoning", "gatheringFallback",
          "journalingQueued", "notifyingQueued", "gatheringQueue"} \subseteq Promoting
      /\ EndHost(h) => \E at \in {"done", "idle"} : pc' = [pc EXCEPT ![h] = at]
  BY DEF Promoting, EndHost
<1>6. ASSUME SameControls(run'), active' = active, fallbackQ' = fallbackQ,
             EndHost(h) \/ \E at \in Promoting : pc' = [pc EXCEPT ![h] = at]
      PROVE  \/ /\ SameControls(run') /\ active' = active
                /\ fallbackQ' = fallbackQ
                /\ \E at \in Promoting \cup {"done", "idle"} :
                     pc' = [pc EXCEPT ![h] = at]
  BY <1>5, <1>6
<1>a. CASE FallbackActivated(h)
  <2>1. SameControls(run')
    <3>1. \/ \E x : run' = [run EXCEPT ![promo[h]].barrier = x]
          \/ run' = [run EXCEPT ![promo[h]] = BarrierFailed(@)]
      BY <1>a DEF FallbackActivated
    <3> QED BY <1>2, <3>1, SameControlUpdates
  <2>2. \E at \in {"notifyingFallback", "abandoning"} : pc' = [pc EXCEPT ![h] = at]
    BY <1>a DEF FallbackActivated
  <2> QED BY <1>2, <1>3, <1>5, <1>6, <1>a, <2>1, <2>2 DEF FallbackActivated
<1>b. CASE FallbackAbandoned(h)
  <2>1. SameControls(run') BY <1>2, <1>b, SameControlUpdates DEF FallbackAbandoned
  <2> QED BY <1>2, <1>3, <1>5, <1>6, <1>b, <2>1 DEF FallbackAbandoned, AbandonRun
<1>c. CASE FallbackGathered(h)
  <2>1. fallbackQ' = fallbackQ BY <1>c DEF FallbackGathered
  <2>2. \/ NoPromotion(h, run) /\ queue' = queue
        \/ TryPromoteQueue(h, run, paused, maintenance)
    BY <1>c DEF FallbackGathered
  <2> QED BY <1>2, <1>3, <1>4, <2>1, <2>2
<1>d. CASE FallbackNotified(h)
  <2> DEFINE runs == [run EXCEPT ![promo[h]].gate = TRUE]
  <2>1. runs \in [Runs -> RunRecord] BY <1>2, <1>4, GateSet
  <2>2. SameControls(runs) BY <1>2, SameControlUpdates
  <2>3. \/ NoPromotion(h, runs) /\ queue' = queue
        \/ TryPromoteQueue(h, runs, paused, maintenance)
    BY <1>d DEF FallbackNotified
  <2>4. fallbackQ' = fallbackQ BY <1>d DEF FallbackNotified
  <2> QED BY <1>2, <1>3, <2>1, <2>2, <2>3, <2>4
<1>e. CASE Yielded(h)
  <2>1. /\ run' = run /\ active' = active /\ fallbackQ' = fallbackQ
        /\ EndHost(h) \/ pc' = [pc EXCEPT ![h] = "journalingQueued"]
    BY <1>e DEF Yielded
  <2> QED BY <1>2, <1>3, <1>4, <1>5, <1>6, <2>1 DEF SameControls
<1>f. CASE QueuedInputRecorded(h)
  <2>1. SameControls(run')
    <3>1. \E x, g : run' = [run EXCEPT ![promo[h]].barrier = x, ![promo[h]].gate = g]
      BY <1>f DEF QueuedInputRecorded
    <3> QED BY <1>2, <3>1, SameControlUpdates
  <2>2. /\ active' = active /\ fallbackQ' = fallbackQ
        /\ EndHost(h) \/ pc' = [pc EXCEPT ![h] = "notifyingQueued"]
    BY <1>f DEF QueuedInputRecorded
  <2> QED BY <1>2, <1>3, <1>5, <1>6, <2>1, <2>2
<1>g. CASE QueuedInputKept(h)
  <2>1. SameControls(run') BY <1>2, <1>g, SameControlUpdates DEF QueuedInputKept
  <2> QED BY <1>2, <1>3, <1>5, <1>6, <1>g, <2>1 DEF QueuedInputKept, AbandonRun
<1>h. CASE QueueNotified(h)
  <2>1. SameControls(run') BY <1>2, <1>h, SameControlUpdates DEF QueueNotified
  <2> QED BY <1>2, <1>3, <1>6, <1>h, <2>1 DEF QueueNotified
<1>i. CASE QueueGathered(h) \/ GatherInterrupted(h)
  <2>1. run' = run /\ active' = active /\ fallbackQ' = fallbackQ /\ EndHost(h)
    BY <1>i DEF QueueGathered, GatherInterrupted
  <2> QED BY <1>2, <1>3, <1>4, <1>6, <2>1 DEF SameControls
<1> QED
  BY <1>a, <1>b, <1>c, <1>d, <1>e, <1>f, <1>g, <1>h, <1>i DEF HostStep

(* So the invariant holds after it.                                        *)
LEMMA HostStepSound ==
  ASSUME TypeOK, ControlSound, NEW h \in Hosts, HostStep(h)
  PROVE  ControlSound' /\ AllLose
BY HostShape, HostSound, QueueSound

-----------------------------------------------------------------------------
(* Submissions.                                                            *)

(* Taking an entry out leaves what comes before it where it is.            *)
LEMMA WithoutKeepsFirst ==
  ASSUME NEW S, NEW s \in Seq(S), NEW e, NEW k \in DOMAIN s,
         \A n \in 1 .. k : s[n] # e
  PROVE  k \in DOMAIN Without(s, e) /\ Without(s, e)[k] = s[k]
<1>1. CASE \E n \in DOMAIN s : s[n] = e
  <2> DEFINE m == CHOOSE n \in DOMAIN s : s[n] = e
             p == SubSeq(s, 1, m - 1)
             q == SubSeq(s, m + 1, Len(s))
  <2>1. m \in 1 .. Len(s) /\ s[m] = e /\ Len(s) \in Nat /\ k \in 1 .. Len(s)
    BY <1>1
  <2>2. Without(s, e) = p \o q BY <1>1 DEF Without, RemoveAt
  <2> HIDE DEF m
  <2>3. k < m BY <2>1
  <2>4. /\ p \in Seq(S) /\ Len(p) = m - 1
        /\ \A n \in 1 .. m - 1 : p[n] = s[n]
    <3>1. \A n \in 1 .. m - 1 : s[n] \in S BY <2>1, ElementOfSeq
    <3> QED BY <2>1, <3>1, SubSeqProperties
  <2>5. q \in Seq(S)
    <3>1. \A n \in m + 1 .. Len(s) : s[n] \in S BY <2>1, ElementOfSeq
    <3> QED BY <2>1, <3>1, SubSeqProperties
  <2> HIDE DEF p, q
  <2>6. /\ p \o q \in Seq(S) /\ Len(p \o q) = Len(p) + Len(q)
        /\ \A n \in 1 .. Len(p) + Len(q) :
             (p \o q)[n] = IF n <= Len(p) THEN p[n] ELSE q[n - Len(p)]
        /\ Len(q) \in Nat
    <3>1. p \in Seq(S) /\ q \in Seq(S) BY <2>4, <2>5
    <3>2. Len(q) \in Nat BY <3>1
    <3> QED BY <3>1, <3>2, ConcatProperties
  <2>7. k \in 1 .. m - 1 /\ k \in 1 .. Len(p) + Len(q) /\ k <= Len(p)
    BY <2>1, <2>3, <2>4, <2>6
  <2>8. (p \o q)[k] = s[k] BY <2>4, <2>6, <2>7
  <2>9. DOMAIN (p \o q) = 1 .. Len(p) + Len(q) BY <2>6
  <2> QED BY <2>2, <2>7, <2>8, <2>9
<1>2. CASE ~\E n \in DOMAIN s : s[n] = e
  BY <1>2 DEF Without
<1> QED BY <1>1, <1>2

(* A step of submission i leaves the control of its Run as d has it.       *)
LEMMA EntrySound ==
  ASSUME TypeOK, ControlSound, NEW i \in Input, NEW r \in Runs,
         sub[i].target = r, pc[i] \in UnderWay \cup {"barrier"},
         NEW d, run'[r].ctl = d, run'[r].staged = run[r].staged,
         run'[r].status = run[r].status,
         \A q \in Runs \ {r} : run'[q] = run[q],
         NEW at, pc' = [pc EXCEPT ![i] = at],
         at \in UnderWay \cup {"steered", "rejected", "queued"},
         sub' = sub, active' = active,
         IsInjective(Steers(d)),
         \A j \in Input \ {i} : Occurs(j, Steers(d)) <=> Holds(r, j),
         \A j \in Input \ {i} : j \in d.ready <=> j \in run[r].ctl.ready,
         Occurs(i, Steers(d)) => at \in Accepted,
         at \in UnderWay => Occurs(i, Steers(d)),
         i \in d.ready => at = "steered",
         StagedFirst(r) => StagedFirst(r)',
         Sealed(r) => Sealed(r)'
  PROVE  ControlSound'
<1>1. /\ pc \in [Tasks -> RunPoints \cup CallerPoints \cup InputPoints]
      /\ Runs \subseteq Tasks /\ Input \subseteq Tasks
      /\ i \notin Runs
  BY RuntimeAssumption DEF TypeOK, ControlPoints, Tasks, Hosts
<1>2. /\ \A q \in Runs : pc'[q] = pc[q]
      /\ \A j \in Input \ {i} : pc'[j] = pc[j]
      /\ pc'[i] = at
  BY <1>1
<1>3. pc[i] # "steered" /\ pc[i] # "idle" /\ pc[r] # "absent"
  BY DEF UnderWay, ControlSound, InputSound
<1>4. ASSUME NEW q \in Runs, q # r PROVE RunSound(q)'
  <2>1. RunSound(q) /\ run'[q] = run[q] /\ pc'[q] = pc[q]
    BY <1>2, <1>4 DEF ControlSound
  <2>2. \A j \in Input : Holds(q, j) => sub[j].target = q /\ pc'[j] \in Accepted
    BY <1>2, <1>4, <2>1 DEF RunSound
  <2>3. \A j \in Input : j \in run[q].ctl.ready => pc'[j] = "steered"
    BY <1>2, <1>3, <2>1 DEF RunSound
  <2>4. \A j \in Input : Discards(q, j) => sub[j].target = q /\ pc'[j] = "steered"
    BY <1>2, <1>3, <2>1 DEF RunSound
  <2>5. StagedFirst(q)' /\ Sealed(q)'
    BY <2>1 DEF RunSound, StagedFirst, Sealed
  <2> QED BY <2>1, <2>2, <2>3, <2>4, <2>5 DEF RunSound, Holds, Discards
<1>5. RunSound(r)'
  <2>1. RunSound(r) /\ pc'[r] = pc[r] BY <1>2 DEF ControlSound
  <2>2. \A j \in Input : Occurs(j, Steers(d)) =>
                           sub[j].target = r /\ pc'[j] \in Accepted
    BY <1>2, <2>1 DEF RunSound
  <2>3. \A j \in Input : j \in d.ready => pc'[j] = "steered"
    BY <1>2, <2>1 DEF RunSound
  <2>4. \A j \in Input : Discards(r, j) => sub[j].target = r /\ pc'[j] = "steered"
    BY <1>2, <1>3, <2>1 DEF RunSound
  <2>5. StagedFirst(r)' /\ Sealed(r)' BY <2>1 DEF RunSound
  <2> QED BY <2>1, <2>2, <2>3, <2>4, <2>5 DEF RunSound, Holds, Discards
<1>6. InputSound(i)'
  BY <1>2, <1>3 DEF InputSound, Holds, UnderWay
<1>7. ASSUME NEW j \in Input, j # i PROVE InputSound(j)'
  <2>1. InputSound(j) /\ pc'[j] = pc[j] BY <1>2, <1>7 DEF ControlSound
  <2>2. pc[j] # "idle" => sub[j].target \in Runs /\ pc'[sub[j].target] # "absent"
    BY <1>2, <2>1 DEF InputSound
  <2>3. ASSUME pc[j] \in UnderWay
        PROVE  /\ Occurs(j, Steers(run'[sub[j].target].ctl))
               /\ j \notin run'[sub[j].target].ctl.ready
    <3>1. /\ sub[j].target \in Runs /\ Holds(sub[j].target, j)
          /\ j \notin run[sub[j].target].ctl.ready
      BY <2>1, <2>3 DEF InputSound, UnderWay
    <3>2. CASE sub[j].target = r BY <1>7, <3>1, <3>2
    <3>3. CASE sub[j].target # r BY <3>1, <3>3 DEF Holds
    <3> QED BY <3>2, <3>3
  <2> QED BY <2>1, <2>2, <2>3 DEF InputSound, Holds
<1>8. active # None => pc'[active] # "absent"
  BY <1>2 DEF ControlSound, TypeOK, StateTypes
<1> QED BY <1>4, <1>5, <1>6, <1>7, <1>8 DEF ControlSound

(* What the methods of the control do to the entry of a submission.        *)
LEMMA EntryOps ==
  ASSUME NEW c \in Control, NEW i \in Input, IsInjective(Steers(c))
  PROVE  /\ ~Occurs(i, Steers(c)) =>
              /\ IsInjective(Steers(ReserveSteer(c, i)))
              /\ \A j \in Input : Occurs(j, Steers(ReserveSteer(c, i))) <=>
                                    Occurs(j, Steers(c)) \/ j = i
              /\ ReserveSteer(c, i).ready = c.ready
              /\ ~c.current => /\ ReserveSteer(c, i).pending = c.pending
                               /\ ~ReserveSteer(c, i).current
              /\ \A k \in DOMAIN c.pending :
                   /\ k \in DOMAIN ReserveSteer(c, i).pending
                   /\ ReserveSteer(c, i).pending[k] = c.pending[k]
         /\ /\ MarkReady(c, i).pending = c.pending
            /\ MarkReady(c, i).fallback = c.fallback
            /\ MarkReady(c, i).current = c.current
            /\ MarkReady(c, i).ready = c.ready \cup {i}
         /\ /\ IsInjective(Steers(DiscardSubmission(c, i)))
            /\ \A j \in Input : Occurs(j, Steers(DiscardSubmission(c, i))) <=>
                                  Occurs(j, Steers(c)) /\ j # i
            /\ DiscardSubmission(c, i).ready = c.ready
            /\ DiscardSubmission(c, i).current = c.current
            /\ DiscardSubmission(c, i).pending = Without(c.pending, i)
<1>1. c.pending \in Seq(Input) /\ c.fallback \in Seq(Input) BY DEF Control
<1>2. /\ IsInjective(c.pending) /\ IsInjective(c.fallback)
      /\ \A j \in Input : Occurs(j, c.pending) => ~Occurs(j, c.fallback)
  BY <1>1, InjectiveConcat DEF Steers
<1>3. \A j \in Input : Occurs(j, Steers(c)) <=>
                         Occurs(j, c.pending) \/ Occurs(j, c.fallback)
  BY <1>1, OccursConcat DEF Steers
<1>4. ASSUME ~Occurs(i, Steers(c))
      PROVE  /\ IsInjective(Steers(ReserveSteer(c, i)))
             /\ \A j \in Input : Occurs(j, Steers(ReserveSteer(c, i))) <=>
                                   Occurs(j, Steers(c)) \/ j = i
             /\ ReserveSteer(c, i).ready = c.ready
             /\ ~c.current => /\ ReserveSteer(c, i).pending = c.pending
                              /\ ~ReserveSteer(c, i).current
             /\ \A k \in DOMAIN c.pending :
                  /\ k \in DOMAIN ReserveSteer(c, i).pending
                  /\ ReserveSteer(c, i).pending[k] = c.pending[k]
  <2> DEFINE d == ReserveSteer(c, i)
  <2>1. ~Occurs(i, c.pending) /\ ~Occurs(i, c.fallback) BY <1>3, <1>4
  <2>2. CASE c.current
    <3>1. /\ d.pending = Append(c.pending, i) /\ d.fallback = c.fallback
          /\ d.ready = c.ready
      BY <2>2 DEF ReserveSteer, Control
    <3>2. /\ d.pending \in Seq(Input) /\ IsInjective(d.pending)
          /\ \A j \in Input : Occurs(j, d.pending) <=> Occurs(j, c.pending) \/ j = i
          /\ \A k \in DOMAIN c.pending : k \in DOMAIN d.pending /\ d.pending[k] = c.pending[k]
      <4>1. /\ Len(Append(c.pending, i)) = Len(c.pending) + 1
            /\ Append(c.pending, i) \in Seq(Input)
            /\ \A k \in 1 .. Len(c.pending) : Append(c.pending, i)[k] = c.pending[k]
        BY <1>1, AppendProperties
      <4> QED BY <1>1, <1>2, <2>1, <3>1, <4>1, OccursAppend, InjectiveAppend
    <3> HIDE DEF d
    <3>3. \A j \in Input : Occurs(j, Steers(d)) <=>
                             Occurs(j, d.pending) \/ Occurs(j, c.fallback)
      BY <1>1, <3>1, <3>2, OccursConcat DEF Steers
    <3>4. IsInjective(Steers(d))
      BY <1>1, <1>2, <2>1, <3>1, <3>2, InjectiveConcat DEF Steers
    <3> QED BY <1>3, <2>2, <3>1, <3>2, <3>3, <3>4 DEF d
  <2>3. CASE ~c.current
    <3>1. /\ d.pending = c.pending /\ d.fallback = Append(c.fallback, i)
          /\ d.ready = c.ready /\ ~d.current
      BY <2>3 DEF ReserveSteer, Control
    <3>2. /\ d.fallback \in Seq(Input) /\ IsInjective(d.fallback)
          /\ \A j \in Input : Occurs(j, d.fallback) <=> Occurs(j, c.fallback) \/ j = i
      BY <1>1, <1>2, <2>1, <3>1, OccursAppend, InjectiveAppend, AppendProperties
    <3> HIDE DEF d
    <3>3. \A j \in Input : Occurs(j, Steers(d)) <=>
                             Occurs(j, c.pending) \/ Occurs(j, d.fallback)
      BY <1>1, <3>1, <3>2, OccursConcat DEF Steers
    <3>4. IsInjective(Steers(d))
      BY <1>1, <1>2, <2>1, <3>1, <3>2, InjectiveConcat DEF Steers
    <3> QED BY <1>3, <3>1, <3>2, <3>3, <3>4 DEF d
  <2> QED BY <2>2, <2>3
<1>5. /\ MarkReady(c, i).pending = c.pending
      /\ MarkReady(c, i).fallback = c.fallback
      /\ MarkReady(c, i).current = c.current
      /\ MarkReady(c, i).ready = c.ready \cup {i}
  BY DEF MarkReady, RequestAfterTurn, Control
<1>6. /\ IsInjective(Steers(DiscardSubmission(c, i)))
      /\ \A j \in Input : Occurs(j, Steers(DiscardSubmission(c, i))) <=>
                            Occurs(j, Steers(c)) /\ j # i
      /\ DiscardSubmission(c, i).ready = c.ready
      /\ DiscardSubmission(c, i).current = c.current
      /\ DiscardSubmission(c, i).pending = Without(c.pending, i)
  <2> DEFINE d == DiscardSubmission(c, i)
  <2>1. /\ d.pending = Without(c.pending, i) /\ d.fallback = Without(c.fallback, i)
        /\ d.ready = c.ready /\ d.current = c.current
    BY DEF DiscardSubmission, Control
  <2> HIDE DEF d
  <2>2. /\ d.pending \in Seq(Input) /\ d.fallback \in Seq(Input)
        /\ IsInjective(d.pending) /\ IsInjective(d.fallback)
        /\ \A j \in Input :
             /\ Occurs(j, d.pending) <=> Occurs(j, c.pending) /\ j # i
             /\ Occurs(j, d.fallback) <=> Occurs(j, c.fallback) /\ j # i
    BY <1>1, <1>2, <2>1, WithoutEntry, WithoutType
  <2>3. \A j \in Input : Occurs(j, Steers(d)) <=>
                           Occurs(j, d.pending) \/ Occurs(j, d.fallback)
    BY <2>2, OccursConcat DEF Steers
  <2>4. IsInjective(Steers(d)) BY <1>2, <2>2, InjectiveConcat DEF Steers
  <2> QED BY <1>3, <2>1, <2>2, <2>3, <2>4 DEF d
<1> QED BY <1>4, <1>5, <1>6

(* Every step of a submission keeps the invariant.                         *)
LEMMA SubmissionSound ==
  ASSUME TypeOK, ControlSound, NEW i \in Input, SubmissionStep(i)
  PROVE  ControlSound'
<1> USE DEF Goto
<1>1. pc[i] \in UnderWay \cup {"barrier"} /\ sub' = sub /\ active' = active
  BY DEF SubmissionStep, Admit, Refuse, SteerRecorded, SteerNotified,
         Unchanged4Sub, UnderWay
<1>2. sub[i].target \in Runs BY <1>1 DEF ControlSound, InputSound, UnderWay
<1> SUFFICES ASSUME NEW r \in Runs, sub[i].target = r PROVE ControlSound'
  BY <1>2
<1> DEFINE c == run[r].ctl
<1>3. /\ run \in [Runs -> RunRecord] /\ run[r] \in RunRecord /\ c \in Control
      /\ pc \in [Tasks -> RunPoints \cup CallerPoints \cup InputPoints]
      /\ r \in Tasks /\ r # i
  BY RuntimeAssumption
  DEF TypeOK, StateTypes, ControlPoints, RunRecord, Tasks, Hosts
<1>4. RunSound(r) /\ InputSound(i) /\ IsInjective(Steers(c)) /\ c.pending \in Seq(Input)
  BY <1>3 DEF ControlSound, RunSound, Control
<1>5. pc[i] = "barrier" => ~Holds(r, i) /\ i \notin c.ready
  BY <1>4 DEF RunSound, Accepted, UnderWay
<1>6. pc[i] \in UnderWay => Holds(r, i) /\ i \notin c.ready
  BY <1>4 DEF InputSound
<1>7. ASSUME NEW at \in {"queued", "rejected"}, pc' = [pc EXCEPT ![i] = at],
             run' = run, pc[i] = "barrier"
      PROVE  ControlSound'
  <2>1. StagedFirst(r)' /\ Sealed(r)'
    BY <1>3, <1>4, <1>7 DEF RunSound, StagedFirst, Sealed
  <2>2. at \in UnderWay \cup {"steered", "rejected", "queued"} /\ at \notin UnderWay
    BY <1>7 DEF UnderWay
  <2>3. \A j \in Input \ {i} : Occurs(j, Steers(c)) <=> Holds(r, j) BY DEF Holds
  <2>4. ~Occurs(i, Steers(c)) BY <1>5, <1>7 DEF Holds
  <2> QED BY <1>1, <1>4, <1>5, <1>7, <2>1, <2>2, <2>3, <2>4, EntrySound
<1>8. ASSUME NEW d, run' = [run EXCEPT ![r].ctl = d],
             NEW at, pc' = [pc EXCEPT ![i] = at],
             at \in UnderWay \cup {"steered", "rejected"},
             IsInjective(Steers(d)),
             \A j \in Input \ {i} : Occurs(j, Steers(d)) <=> Holds(r, j),
             \A j \in Input \ {i} : j \in d.ready <=> j \in c.ready,
             Occurs(i, Steers(d)) <=> at \in Accepted,
             i \in d.ready => at = "steered",
             \A k \in DOMAIN c.pending :
               (\A n \in 1 .. k : c.pending[n] \in c.ready) =>
                 k \in DOMAIN d.pending /\ d.pending[k] = c.pending[k],
             c.ready \subseteq d.ready,
             c.pending = <<>> /\ ~c.current => d.pending = <<>> /\ ~d.current
      PROVE  ControlSound'
  <2>1. /\ run'[r].ctl = d /\ run'[r].staged = run[r].staged
        /\ run'[r].status = run[r].status /\ pc'[r] = pc[r]
        /\ \A q \in Runs \ {r} : run'[q] = run[q]
    BY <1>3, <1>8 DEF RunRecord
  <2>2. StagedFirst(r)'
    <3>1. ASSUME pc[r] = "activating", NEW k \in DOMAIN run[r].staged
          PROVE  /\ k \in DOMAIN d.pending /\ run[r].staged[k] = d.pending[k]
                 /\ run[r].staged[k] \in d.ready
      <4>1. \A n \in DOMAIN run[r].staged :
              /\ n \in DOMAIN c.pending /\ run[r].staged[n] = c.pending[n]
              /\ run[r].staged[n] \in c.ready
        BY <1>4, <3>1 DEF RunSound, StagedFirst
      <4>2. DOMAIN run[r].staged = 1 .. Len(run[r].staged)
        BY <1>3 DEF RunRecord
      <4>3. \A n \in 1 .. k : n \in DOMAIN run[r].staged BY <4>2
      <4> HIDE DEF c
      <4> QED BY <1>8, <4>1, <4>3
    <3> QED BY <2>1, <3>1 DEF StagedFirst
  <2>3. Sealed(r)' BY <1>4, <1>8, <2>1 DEF RunSound, Sealed
  <2>4. at \in UnderWay => Occurs(i, Steers(d)) BY <1>8 DEF Accepted
  <2> HIDE DEF c
  <2>5. \A j \in Input \ {i} : j \in d.ready <=> j \in run[r].ctl.ready
    BY <1>8 DEF c
  <2>6. /\ at \in UnderWay \cup {"steered", "rejected", "queued"}
        /\ IsInjective(Steers(d)) /\ pc' = [pc EXCEPT ![i] = at]
        /\ \A j \in Input \ {i} : Occurs(j, Steers(d)) <=> Holds(r, j)
        /\ Occurs(i, Steers(d)) => at \in Accepted
        /\ i \in d.ready => at = "steered"
    BY <1>8
  <2> QED BY <1>1, <2>1, <2>2, <2>3, <2>4, <2>5, <2>6, EntrySound
<1>a. CASE Admit(i)
  <2>1. CASE pc' = [pc EXCEPT ![i] = "queued"] /\ run' = run
    BY <1>7, <1>a, <2>1 DEF Admit
  <2>2. CASE /\ run' = [run EXCEPT ![r].ctl = ReserveSteer(c, i)]
             /\ pc' = [pc EXCEPT ![i] = "journaling"]
    <3>1. ~Occurs(i, Steers(c)) BY <1>5, <1>a DEF Admit, Holds
    <3> DEFINE d == ReserveSteer(c, i)
    <3>2. /\ IsInjective(Steers(d))
          /\ \A j \in Input : Occurs(j, Steers(d)) <=> Occurs(j, Steers(c)) \/ j = i
          /\ d.ready = c.ready
          /\ ~c.current => d.pending = c.pending /\ ~d.current
          /\ \A k \in DOMAIN c.pending :
               k \in DOMAIN d.pending /\ d.pending[k] = c.pending[k]
      BY <1>3, <1>4, <3>1, EntryOps
    <3> HIDE DEF d
    <3>3. i \notin d.ready BY <1>5, <1>a, <3>2 DEF Admit
    <3>4. /\ "journaling" \in UnderWay \cup {"steered", "rejected"}
          /\ "journaling" \in Accepted
      BY DEF UnderWay, Accepted
    <3>5. \A j \in Input \ {i} : Occurs(j, Steers(d)) <=> Holds(r, j)
      BY <3>2 DEF Holds
    <3>6. run' = [run EXCEPT ![r].ctl = d] BY <2>2 DEF d
    <3> HIDE DEF c
    <3> QED BY <1>8, <2>2, <3>2, <3>3, <3>4, <3>5, <3>6
  <2> QED BY <1>3, <1>a, <2>1, <2>2 DEF Admit
<1>b. CASE Refuse(i)
  BY <1>7, <1>b DEF Refuse
<1>c. ASSUME pc[i] \in UnderWay, run' = [run EXCEPT ![r].ctl = MarkReady(c, i)],
             pc' = [pc EXCEPT ![i] = "steered"]
      PROVE  ControlSound'
  <2> DEFINE d == MarkReady(c, i)
  <2>1. /\ d.pending = c.pending /\ d.fallback = c.fallback
        /\ d.current = c.current /\ d.ready = c.ready \cup {i}
    BY <1>3, <1>4, EntryOps
  <2>2. Steers(d) = Steers(c) BY <2>1 DEF Steers
  <2>3. run' = [run EXCEPT ![r].ctl = d] BY <1>c
  <2>4. "steered" \in Accepted BY DEF Accepted
  <2> HIDE DEF d
  <2>5. \A j \in Input : Occurs(j, Steers(d)) <=> Holds(r, j)
    BY <2>2 DEF Holds
  <2>6. Occurs(i, Steers(d)) BY <1>6, <1>c, <2>5
  <2>7. IsInjective(Steers(d)) BY <1>4, <2>2
  <2> HIDE DEF c
  <2> QED BY <1>8, <1>c, <2>1, <2>3, <2>4, <2>5, <2>6, <2>7
<1>d. CASE SteerRecorded(i)
  <2>0. pc[i] = "journaling" /\ pc[i] \in UnderWay BY <1>d DEF SteerRecorded, UnderWay
  <2>1. CASE /\ run' = [run EXCEPT ![r].ctl = MarkReady(c, i)]
             /\ pc' = [pc EXCEPT ![i] = "steered"]
    BY <1>c, <2>0, <2>1
  <2>2. CASE run' = run /\ pc' = [pc EXCEPT ![i] = "notifying"]
    <3>1. run' = [run EXCEPT ![r].ctl = c] BY <1>3, <2>2 DEF RunRecord
    <3>2. /\ "notifying" \in UnderWay \cup {"steered", "rejected"}
          /\ "notifying" \in Accepted
      BY DEF UnderWay, Accepted
    <3>3. \A j \in Input : Occurs(j, Steers(c)) <=> Holds(r, j) BY DEF Holds
    <3>4. Occurs(i, Steers(c)) /\ i \notin c.ready BY <1>6, <2>0 DEF Holds
    <3>5. IsInjective(Steers(c)) BY <1>4
    <3> HIDE DEF c
    <3> QED BY <1>8, <2>2, <3>1, <3>2, <3>3, <3>4, <3>5
  <2>3. CASE /\ run' = [run EXCEPT ![r].ctl = DiscardSubmission(c, i)]
             /\ pc' = [pc EXCEPT ![i] = "rejected"]
    <3> DEFINE d == DiscardSubmission(c, i)
    <3>1. /\ IsInjective(Steers(d))
          /\ \A j \in Input : Occurs(j, Steers(d)) <=> Occurs(j, Steers(c)) /\ j # i
          /\ d.ready = c.ready /\ d.current = c.current
          /\ d.pending = Without(c.pending, i)
      BY <1>3, <1>4, EntryOps
    <3>2. run' = [run EXCEPT ![r].ctl = d] BY <2>3
    <3> HIDE DEF d
    <3>3. \A j \in Input \ {i} : Occurs(j, Steers(d)) <=> Holds(r, j)
      BY <3>1 DEF Holds
    <3>4. ~Occurs(i, Steers(d)) /\ i \notin d.ready BY <1>6, <2>0, <3>1
    <3>5. "rejected" \in UnderWay \cup {"steered", "rejected"} /\ "rejected" \notin Accepted
      BY DEF UnderWay, Accepted
    <3>6. c.pending = <<>> => d.pending = <<>> BY <3>1 DEF Without
    <3>7. ASSUME NEW k \in DOMAIN c.pending,
                 \A n \in 1 .. k : c.pending[n] \in c.ready
          PROVE  k \in DOMAIN d.pending /\ d.pending[k] = c.pending[k]
      <4>1. \A n \in 1 .. k : c.pending[n] # i BY <1>6, <2>0, <3>7
      <4> HIDE DEF c
      <4> QED BY <1>4, <3>1, <4>1, WithoutKeepsFirst DEF c
    <3> HIDE DEF c
    <3> QED BY <1>8, <2>3, <3>1, <3>2, <3>3, <3>4, <3>5, <3>6, <3>7
  <2> QED BY <1>3, <1>d, <2>1, <2>2, <2>3 DEF SteerRecorded
<1>e. CASE SteerNotified(i)
  BY <1>3, <1>c, <1>e DEF SteerNotified, UnderWay
<1> QED BY <1>a, <1>b, <1>d, <1>e DEF SubmissionStep

-----------------------------------------------------------------------------
(* The invariant.                                                          *)

(* Every step of a Run keeps it.                                           *)
LEMMA RunSoundStep ==
  ASSUME TypeOK, ControlSound, NEW r \in Runs,
         RunStep(r) \/ AgentFails(r) \/ ApprovalReturns(r)
  PROVE  ControlSound' /\ AllLose
<1>1. CASE RunEndNotified(r)
  <2>1. r \in Hosts /\ pc[r] # "absent" BY <1>1 DEF Hosts, RunEndNotified
  <2> QED BY <1>1, <2>1, PendingSound DEF RunEndNotified, Unchanged4Host
<1>2. CASE ~RunEndNotified(r)
  <2>1. \A q \in Runs : Loses(q) BY <1>2, RunStepLoses
  <2>2. pc' = pc \/ \E at : pc' = [pc EXCEPT ![r] = at]
    BY <1>2, IdentityRunStep
  <2>3. \A i \in Input : pc'[i] = pc[i]
    BY <2>2, RuntimeAssumption DEF TypeOK, ControlPoints, Tasks
  <2>4. sub' = sub /\ active' \in {active, None}
    BY <1>2
    DEF RunStep, AgentFails, ApprovalReturns, session, Unchanged4Run,
        Unchanged4Settle, Unchanged4Host, CancelCallback, FirstStep,
        NeverStarted, UserMessageRecorded, GateOpens, StreamEnds,
        BoundaryEmpty, StagingRefused, StageSteers, SteersActivated,
        LoopCompletes, RunCancelled, SubmissionsReady, CleanupInterrupted,
        DiscardRecorded, RunEndInterrupted, Conclude, Settle, Deregister
  <2>5. active' # None => pc'[active'] # "absent"
    BY <2>1, <2>4 DEF Loses, ControlSound, TypeOK, StateTypes
  <2> QED BY <2>1, <2>3, <2>4, <2>5, LosesSound DEF AllLose
<1> QED BY <1>1, <1>2

(* Every operation of the user keeps it.                                   *)
LEMMA UserSound ==
  ASSUME TypeOK, ControlSound, UserStep
  PROVE  ControlSound' /\ AllLose
<1> USE DEF Goto, Unchanged4User
<1>1. /\ run \in [Runs -> RunRecord] /\ SameControls(run)
      /\ pc \in [Tasks -> RunPoints \cup CallerPoints \cup InputPoints]
      /\ Runs \subseteq Tasks /\ Input \subseteq Tasks /\ Callers \subseteq Hosts
      /\ Runs \cap Input = {} /\ Callers \cap Runs = {}
  BY RuntimeAssumption
  DEF TypeOK, StateTypes, ControlPoints, SameControls, SameControl, Tasks, Hosts
<1>2. ASSUME run' = run, pc' = pc, sub' = sub, active' = active
      PROVE  ControlSound' /\ AllLose
  BY <1>1, <1>2, QuietSound
<1>a. ASSUME NEW o \in {"user", "application"}, NEW b \in Behaviours,
             StartRun(o, b)
      PROVE  ControlSound' /\ AllLose
  <2> DEFINE n == Next1
  <2>1. n \in Runs /\ pc[n] = "absent"
    BY <1>a, RuntimeAssumption
    DEF StartRun, Next1, Runs, TypeOK, StateTypes, ControlPoints
  <2>2. /\ run' = [run EXCEPT ![n] = CreatedRun(o, None, b)]
        /\ pc' = [pc EXCEPT ![n] = "created"] /\ active' = n /\ sub' = sub
    BY <1>a DEF StartRun
  <2> HIDE DEF n
  <2>3. /\ pc'[n] = "created" /\ \A t \in Input : pc'[t] = pc[t]
        /\ \A q \in Runs \ {n} : pc'[q] = pc[q]
    BY <1>1, <2>1, <2>2
  <2> QED BY <1>1, <2>1, <2>2, <2>3, CreateSound
<1>b. ASSUME NEW i \in Input, NEW b \in Behaviours, Submit(i, b)
      PROVE  ControlSound' /\ AllLose
  <2>1. /\ run' = run /\ active' = active /\ active \in Runs /\ pc[i] = "idle"
        /\ sub' = [sub EXCEPT ![i] = [target |-> active, behaviour |-> b]]
        /\ pc' = [pc EXCEPT ![i] = "barrier"] /\ pc[active] # "absent"
    BY <1>b DEF Submit, Unchanged4Sub, TypeOK, StateTypes, ControlSound
  <2>2. /\ pc'[i] = "barrier" /\ sub'[i].target = active
        /\ \A q \in Runs : pc'[q] = pc[q]
        /\ \A j \in Input \ {i} : pc'[j] = pc[j] /\ sub'[j] = sub[j]
    BY <1>1, <2>1 DEF TypeOK, StateTypes
  <2>3. ASSUME NEW q \in Runs
        PROVE  ~Holds(q, i) /\ i \notin run[q].ctl.ready /\ ~Discards(q, i)
    BY <2>1 DEF ControlSound, RunSound, Accepted, UnderWay
  <2>4. ASSUME NEW q \in Runs PROVE RunSound(q)'
    <3>1. RunSound(q) BY DEF ControlSound
    <3>2. StagedFirst(q)' /\ Sealed(q)'
      BY <2>1, <2>2, <3>1 DEF RunSound, StagedFirst, Sealed
    <3>3. \A j \in Input : /\ Holds(q, j)' <=> Holds(q, j)
                           /\ Discards(q, j)' <=> Discards(q, j)
      BY <2>1, <2>2 DEF Holds, Discards
    <3> QED BY <2>1, <2>2, <2>3, <3>1, <3>2, <3>3 DEF RunSound
  <2>5. ASSUME NEW j \in Input PROVE InputSound(j)'
    <3>1. CASE j = i BY <2>1, <2>2, <3>1 DEF InputSound, UnderWay
    <3>2. CASE j # i
      <4>1. InputSound(j) /\ pc'[j] = pc[j] /\ sub'[j] = sub[j]
        BY <2>2, <3>2 DEF ControlSound
      <4>2. ASSUME NEW t \in Runs, sub[j].target = t PROVE InputSound(j)'
        BY <2>1, <2>2, <4>1, <4>2 DEF InputSound, Holds
      <4>3. CASE pc[j] = "idle" BY <4>1, <4>3 DEF InputSound, UnderWay
      <4> QED BY <4>1, <4>2, <4>3 DEF InputSound
    <3> QED BY <3>1, <3>2
  <2>6. active' # None => pc'[active'] # "absent" BY <2>1, <2>2
  <2>7. SameControls(run') BY <1>1, <2>1
  <2>8. AllLose BY <2>2, <2>7, SameLoses DEF AllLose, SameControls, SameControl
  <2> QED BY <2>4, <2>5, <2>6, <2>8 DEF ControlSound
<1>c. ASSUME NEW i \in Input, RemoveQueuedInput(i) PROVE ControlSound' /\ AllLose
  BY <1>2, <1>c DEF RemoveQueuedInput
<1>d. ASSUME NEW c \in Callers, ResumeQueue(c) PROVE ControlSound' /\ AllLose
  <2>1. c \in Hosts /\ c \notin Runs BY <1>1
  <2> QED BY <1>1, <1>d, <2>1, QueueSound DEF ResumeQueue
<1>e. ASSUME NEW c \in Callers, NEW a \in BOOLEAN, ReserveSession(c, a)
      PROVE  ControlSound' /\ AllLose
  <2>1. c \in Hosts BY <1>1
  <2>2. SameControls(run') BY <1>1, <1>e DEF ReserveSession
  <2> QED BY <1>e, <2>1, <2>2, HostSound DEF ReserveSession
<1>f. ASSUME NEW r \in Runs, ApprovalReturns(r) \/ AgentFails(r)
      PROVE  ControlSound' /\ AllLose
  BY <1>f, RunSoundStep
<1>g. CASE CancelRun
  <2>1. PICK r \in Runs : r = active
    BY <1>g DEF CancelRun, TypeOK, StateTypes
  <2> DEFINE c == CloseSubmissions(run[r].ctl)
             x == [run[r] EXCEPT !.phase = "stopping", !.ctl = c]
  <2>2. run' = [run EXCEPT ![r] = x] /\ pc' = pc /\ active' = active /\ sub' = sub
    BY <1>1, <1>g, <2>1 DEF CancelRun
  <2>3. /\ c.pending = run[r].ctl.pending /\ c.fallback = run[r].ctl.fallback
        /\ c.ready = run[r].ctl.ready /\ ~c.current /\ ~c.submissions
    BY <1>1 DEF RunRecord, Control, CloseSubmissions
  <2>4. x.ctl = c /\ x.staged = run[r].staged /\ x.status = run[r].status
    BY <1>1 DEF RunRecord
  <2> HIDE DEF c, x
  <2>5. Leaves(c, r) /\ RunSound(r) BY <2>3, SameSteers DEF ControlSound
  <2>6. run'[r] = x BY <1>1, <2>2
  <2>7. Loses(r)
    <3>1. StagedFirst(r)' /\ Sealed(r)'
      BY <2>2, <2>3, <2>4, <2>5, <2>6 DEF RunSound, StagedFirst, Sealed
    <3>2. \A i \in Input : Discards(r, i)' => sub[i].target = r /\ pc[i] = "steered"
      BY <2>2, <2>4, <2>5, <2>6 DEF RunSound, Discards
    <3>3. Narrows(x, r) BY <2>3, <2>4 DEF Narrows, Shaped
    <3> QED BY <2>2, <2>4, <2>5, <2>6, <3>1, <3>2, <3>3 DEF Loses, Narrows
  <2>8. ASSUME NEW q \in Runs, q # r PROVE Loses(q)
    BY <1>1, <2>2, <2>8, SameLoses
  <2>9. active' # None => pc'[active'] # "absent" BY <2>2 DEF ControlSound
  <2>10. AllLose BY <2>7, <2>8 DEF AllLose
  <2>11. \A i \in Input : pc'[i] = pc[i] /\ sub'[i] = sub[i] BY <2>2
  <2> QED BY <2>9, <2>10, <2>11, LosesSound DEF AllLose
<1>h. CASE ClearQueue \/ BeginClose
  BY <1>2, <1>h DEF ClearQueue, BeginClose
<1> QED BY <1>a, <1>b, <1>c, <1>d, <1>e, <1>f, <1>g, <1>h DEF UserStep

(* It holds initially and every step keeps it.                             *)
LEMMA ControlInit == Init => ControlSound
<1> SUFFICES ASSUME Init PROVE ControlSound
  OBVIOUS
<1>1. /\ \A q \in Runs : run[q] = BlankRun /\ pc[q] = "absent"
      /\ \A i \in Input : pc[i] = "idle"
      /\ active = None
  BY RuntimeAssumption DEF Init, Tasks, Hosts
<1>2. Steers(NewControl) = <<>>
  BY ConcatEmptySeq, EmptySeq DEF Steers, NewControl
<1>3. ASSUME NEW q \in Runs PROVE RunSound(q)
  <2>1. /\ run[q].ctl = NewControl /\ run[q].status = "none"
        /\ run[q].ctl.ready = {}
    <3>1. run[q] = BlankRun BY <1>1
    <3>2. BlankRun.ctl = NewControl /\ BlankRun.status = "none" BY DEF BlankRun
    <3>3. NewControl.ready = {} BY DEF NewControl
    <3> QED BY <3>1, <3>2, <3>3
  <2> QED BY <1>1, <1>2, <2>1
          DEF RunSound, Holds, Discards, StagedFirst, Sealed, Occurs,
              IsInjective
<1>4. ASSUME NEW i \in Input PROVE InputSound(i)
  BY <1>1 DEF InputSound, UnderWay
<1> QED BY <1>1, <1>3, <1>4 DEF ControlSound

(* A step that is none of a submission takes nothing but ready steers away *)
(* from a control, and keeps the others in their order.                    *)
LEMMA OthersLose ==
  ASSUME TypeOK, ControlSound, [Next]_vars, \A i \in Input : ~SubmissionStep(i)
  PROVE  ControlSound' /\ AllLose
<1>1. ASSUME run' = run, pc' = pc, sub' = sub, active' \in {active, None}
      PROVE  ControlSound' /\ AllLose
  <2>1. SameControls(run') BY <1>1 DEF SameControls, SameControl
  <2> QED BY <1>1, <2>1, QuietSound
<1>a. ASSUME NEW r \in Runs, RunStep(r) PROVE ControlSound' /\ AllLose
  BY <1>a, RunSoundStep
<1>b. ASSUME NEW h \in Hosts, HostStep(h) PROVE ControlSound' /\ AllLose
  BY <1>b, HostStepSound
<1>d. ASSUME NEW t \in Tasks, AbsorbCancellation(t) PROVE ControlSound' /\ AllLose
  BY <1>1, <1>d DEF AbsorbCancellation, session
<1>e. ASSUME NEW c \in Callers, ReleaseSession(c) PROVE ControlSound' /\ AllLose
  <2>1. c \in Hosts /\ c \notin Runs BY RuntimeAssumption DEF Hosts
  <2> QED BY <1>e, <2>1, PendingSound DEF ReleaseSession, Unchanged4Host
<1>f. CASE EndClose \/ UNCHANGED vars
  BY <1>1, <1>f DEF EndClose, vars, session
<1>g. CASE UserStep
  BY <1>g, UserSound
<1> QED
  BY <1>a, <1>b, <1>d, <1>e, <1>f, <1>g DEF Next, AtRest

(* Every step keeps the control of every Run sound.                        *)
LEMMA ControlNext ==
  ASSUME TypeOK, ControlSound, [Next]_vars
  PROVE  ControlSound'
BY SubmissionSound, OthersLose

-----------------------------------------------------------------------------
(* In every reachable state, whatever the bounds, each control holds the   *)
(* steers submitted to its Run and no others, each once; those whose       *)
(* submission is under way are there and not yet ready; what is being      *)
(* activated is the beginning of the pending deque.                        *)
THEOREM ControlCorrect == Spec => []ControlSound
<1>1. TypeOK /\ ControlSound /\ [Next]_vars => ControlSound'
  BY ControlNext
<1> QED BY <1>1, ControlInit, TypeCorrect, PTL DEF Spec

(* So mark_ready and discard_submission find their entry, and a Run that   *)
(* completes has no pending steer: no transition of a control meets the    *)
(* state it raises on (control.py), in any interleaving of submissions,    *)
(* boundaries, cancellations and shutdown.                                 *)
THEOREM ControlRaisesNothing == Spec => []ControlNeverRaises
<1>1. ASSUME ControlSound PROVE SubmissionTracked
  BY <1>1 DEF SubmissionTracked, ControlSound, InputSound, Holds, UnderWay
<1>2. ASSUME ControlSound PROVE NoUndisposedSteer
  BY <1>2 DEF NoUndisposedSteer, ControlSound, RunSound, Sealed
<1>3. ControlSound => ControlNeverRaises
  BY <1>1, <1>2 DEF ControlNeverRaises
<1> QED BY <1>3, ControlCorrect, PTL
=============================================================================
