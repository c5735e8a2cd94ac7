------------------------ MODULE HistoryPages_proofs ------------------------
(***************************************************************************)
(* Proofs about the history a page keeps: what a read of the journal and a *)
(* merge of the loaded pages with it return, for any journal and any size  *)
(* of page.                                                                *)
(***************************************************************************)
EXTENDS HistoryPages, SequenceTheorems, FiniteSetTheorems,
        WellFoundedInduction, TLAPS

(* A set of numbers that is not empty has a least one.                     *)
LEMMA LeastNumber ==
  ASSUME NEW T \in SUBSET Nat, T # {}
  PROVE  \E x \in T : \A y \in T : x <= y
<1> DEFINE R == {ss \in Nat \X Nat : ss[1] < ss[2]}
<1>1. OpToRel(<, Nat) = R BY Zenon DEF OpToRel
<1>2. IsWellFoundedOn(R, Nat) BY <1>1, NatLessThanWellFounded
<1>3. \A x, y \in Nat : <<y, x>> \in R <=> y < x OBVIOUS
<1> HIDE DEF R
<1>4. \E x \in T : \A y \in T : ~(<<y, x>> \in R) BY <1>2, WFMin
<1>5. PICK x \in T : \A y \in T : ~(<<y, x>> \in R) BY <1>4
<1>6. ASSUME NEW y \in T PROVE x <= y
  <2>1. x \in Nat /\ y \in Nat OBVIOUS
  <2>2. ~(y < x) BY <1>3, <1>5, <2>1
  <2> QED BY <2>1, <2>2
<1> QED BY <1>6

(* And one that is bounded has a greatest.                                 *)
LEMMA GreatestNumber ==
  ASSUME NEW n \in Nat, NEW T \in SUBSET (0 .. n), T # {}
  PROVE  Max(T) \in T /\ \A x \in T : x <= Max(T)
<1> DEFINE U == {n - x : x \in T}
<1>1. U \in SUBSET Nat /\ U # {}
  <2>1. \A x \in T : n - x \in Nat OBVIOUS
  <2> QED BY <2>1
<1>2. PICK u \in U : \A v \in U : u <= v BY <1>1, LeastNumber
<1>3. PICK m \in T : u = n - m BY <1>2
<1>4. \A x \in T : m >= x BY <1>2, <1>3
<1> QED BY <1>4 DEF Max

-----------------------------------------------------------------------------
(* Ranking: in a finite set of numbers each place, counted from below, is  *)
(* taken by one number.                                                    *)
Rank(S, s) == Cardinality({t \in S : t < s})

(* A rank is a number below the count of the set.                          *)
LEMMA RankFinite ==
  ASSUME NEW S \in SUBSET Int, IsFiniteSet(S), NEW s
  PROVE  IsFiniteSet({t \in S : t < s}) /\ Rank(S, s) \in Nat /\ Rank(S, s) <= Cardinality(S) /\ Cardinality(S) \in Nat
<1>1. {t \in S : t < s} \in SUBSET S OBVIOUS
<1>2. IsFiniteSet({t \in S : t < s}) /\ Cardinality({t \in S : t < s}) <= Cardinality(S) BY <1>1, FS_Subset
<1>3. Cardinality({t \in S : t < s}) \in Nat /\ Cardinality(S) \in Nat BY <1>2, FS_CardinalityType
<1> QED BY <1>2, <1>3 DEF Rank

(* The larger of two members has the higher rank.                          *)
LEMMA RankOrders ==
  ASSUME NEW S \in SUBSET Int, IsFiniteSet(S), NEW s \in S, NEW u \in S, s < u
  PROVE  Rank(S, s) < Rank(S, u)
<1> DEFINE A == {t \in S : t < s}
           B == {t \in S : t < u}
<1>1. IsFiniteSet(A) /\ IsFiniteSet(B) /\ Cardinality(A) \in Nat /\ Cardinality(B) \in Nat
      /\ Rank(S, s) = Cardinality(A) /\ Rank(S, u) = Cardinality(B)
  BY RankFinite DEF Rank
<1>2. s \notin A /\ A \cup {s} \in SUBSET B
  <2>1. s \in Int /\ u \in Int /\ \A t \in S : t \in Int OBVIOUS
  <2>2. \A t \in S : t < s => t < u BY <2>1
  <2>3. ~(s < s) BY <2>1
  <2> QED BY <2>2, <2>3
<1> HIDE DEF A, B
<1>3. Cardinality(A \cup {s}) = Cardinality(A) + 1 BY <1>1, <1>2, FS_AddElement
<1>4. Cardinality(A \cup {s}) <= Cardinality(B) BY <1>1, <1>2, FS_Subset
<1> QED BY <1>1, <1>3, <1>4

(* And each rank is taken.                                                 *)
LEMMA RankTaken ==
  ASSUME NEW S \in SUBSET Int, IsFiniteSet(S), NEW i \in 1..Cardinality(S)
  PROVE  \E s \in S : Rank(S, s) = i - 1
<1> SUFFICES ASSUME \A s \in S : Rank(S, s) # i - 1 PROVE FALSE OBVIOUS
<1> DEFINE n == Cardinality(S)
           T == (0..(n - 1)) \ {i - 1}
           f == [s \in S |-> Rank(S, s)]
<1>1. n \in Nat /\ i \in 1..n BY FS_CardinalityType
<1>2. \A s \in S : Rank(S, s) \in 0..(n - 1)
  <2> SUFFICES ASSUME NEW s \in S PROVE Rank(S, s) \in 0..(n - 1) OBVIOUS
  <2>1. Rank(S, s) \in Nat /\ IsFiniteSet({t \in S : t < s}) BY RankFinite
  <2>2. {t \in S : t < s} \in SUBSET (S \ {s}) OBVIOUS
  <2>3. IsFiniteSet(S \ {s}) /\ Cardinality(S \ {s}) = n - 1 BY FS_RemoveElement
  <2>4. Rank(S, s) <= n - 1 BY <2>2, <2>3, FS_Subset DEF Rank
  <2> QED BY <1>1, <2>1, <2>4
<1>3. f \in [S -> T] BY <1>2
<1>4. \A s, u \in S : s # u => f[s] # f[u]
  <2> SUFFICES ASSUME NEW s \in S, NEW u \in S, s # u PROVE f[s] # f[u] OBVIOUS
  <2>1. s \in Int /\ u \in Int OBVIOUS
  <2>2. f[s] = Rank(S, s) /\ f[u] = Rank(S, u) /\ Rank(S, s) \in Nat /\ Rank(S, u) \in Nat BY <1>2
  <2>3. CASE s < u
    <3>1. Rank(S, s) < Rank(S, u) BY <2>3, RankOrders
    <3> QED BY <2>2, <3>1
  <2>4. CASE u < s
    <3>1. Rank(S, u) < Rank(S, s) BY <2>4, RankOrders
    <3> QED BY <2>2, <3>1
  <2> QED BY <2>1, <2>3, <2>4
<1>5. IsFiniteSet(0..(n - 1)) /\ Cardinality(0..(n - 1)) = n
  <2>1. n - 1 \in Int /\ 0 \in Int BY <1>1
  <2>2. IsFiniteSet(0..(n - 1)) /\ Cardinality(0..(n - 1)) = IF 0 > n - 1 THEN 0 ELSE n - 1 - 0 + 1
    BY <2>1, FS_Interval
  <2> QED BY <1>1, <2>2
<1> HIDE DEF f
<1>6. i - 1 \in 0..(n - 1) BY <1>1
<1>7. IsFiniteSet(T) /\ Cardinality(T) = n - 1
  <2>1. IsFiniteSet((0..(n - 1)) \ {i - 1})
        /\ Cardinality((0..(n - 1)) \ {i - 1}) =
             IF i - 1 \in 0..(n - 1) THEN Cardinality(0..(n - 1)) - 1 ELSE Cardinality(0..(n - 1))
    BY <1>5, FS_RemoveElement
  <2> QED BY <1>5, <1>6, <2>1
<1> HIDE DEF T
<1>8. Cardinality(T) < Cardinality(S) BY <1>1, <1>7
<1>9. \E s, u \in S : s # u /\ f[s] = f[u] BY <1>3, <1>7, <1>8, FS_PigeonHole
<1> QED BY <1>4, <1>9

-----------------------------------------------------------------------------
(* A set of records without two of the same number, sorted.                *)
Distinct(R) == IsFiniteSet(R) /\ \A r, q \in R : r.seq \in Nat /\ (r.seq = q.seq => r = q)
Ascending(s) == \A i, j \in DOMAIN s : i < j => s[i].seq < s[j].seq

(* Records with different numbers are as many as their numbers.            *)
LEMMA SeqsOf ==
  ASSUME NEW R, Distinct(R)
  PROVE  LET S == {r.seq : r \in R}
         IN  S \in SUBSET Int /\ S \in SUBSET Nat /\ IsFiniteSet(S) /\ Cardinality(S) = Cardinality(R)
<1> DEFINE S == {r.seq : r \in R}
           f == [r \in R |-> r.seq]
<1>1. IsFiniteSet(R) /\ \A r, q \in R : r.seq \in Nat /\ (r.seq = q.seq => r = q) BY DEF Distinct
<1>2. S \in SUBSET Nat BY <1>1
<1>3. f \in [R -> S] /\ (\A x \in S : \E r \in R : f[r] = x) /\ (\A r, q \in R : f[r] = f[q] => r = q) BY <1>1
<1> HIDE DEF S, f
<1>4. ExistsBijection(R, S)
  <2>1. f \in Injection(R, S) BY <1>3 DEF Injection, IsInjective
  <2>2. f \in Surjection(R, S) BY <1>3 DEF Surjection
  <2> QED BY <2>1, <2>2 DEF ExistsBijection, Bijection
<1>5. IsFiniteSet(S) /\ Cardinality(S) = Cardinality(R) BY <1>1, <1>4, FS_Bijection
<1>6. S \in SUBSET Int BY <1>2
<1> QED BY <1>2, <1>5, <1>6 DEF S

(* BySeq sorts them.                                                       *)
LEMMA SortedIs ==
  ASSUME NEW R, Distinct(R)
  PROVE  LET b == BySeq(R)
             n == Cardinality(R)
         IN  /\ n \in Nat /\ b \in Seq(R) /\ Len(b) = n /\ DOMAIN b = 1..n
             /\ Ascending(b)
             /\ \A r \in R : \E i \in 1..n : b[i] = r
<1> DEFINE S == {r.seq : r \in R}
           n == Cardinality(R)
           b == BySeq(R)
<1>1. S \in SUBSET Int /\ IsFiniteSet(S) /\ Cardinality(S) = n BY SeqsOf
<1>2. n \in Nat BY FS_CardinalityType DEF Distinct
<1>3. \A r \in R : r.seq \in S /\ r.seq \in Nat BY DEF Distinct
<1>4. b = [i \in 1..Cardinality(S) |-> CHOOSE r \in R : Cardinality({s \in S : s < r.seq}) = i - 1]
  BY DEF BySeq
<1> HIDE DEF S, n
<1>5. \A i \in 1..n : b[i] \in R /\ Rank(S, b[i].seq) = i - 1
  <2> SUFFICES ASSUME NEW i \in 1..n PROVE b[i] \in R /\ Rank(S, b[i].seq) = i - 1 OBVIOUS
  <2>1. PICK s \in S : Rank(S, s) = i - 1 BY <1>1, RankTaken
  <2>2. PICK r \in R : r.seq = s BY DEF S
  <2>3. b[i] = CHOOSE q \in R : Cardinality({x \in S : x < q.seq}) = i - 1 BY <1>1, <1>4
  <2>4. \E q \in R : Cardinality({x \in S : x < q.seq}) = i - 1 BY <2>1, <2>2 DEF Rank
  <2> QED BY <2>3, <2>4 DEF Rank
<1>6. DOMAIN b = 1..n BY <1>1, <1>4
<1>7. b \in [1..n -> R] BY <1>1, <1>4, <1>5
<1> HIDE DEF b
<1>8. b \in Seq(R) /\ Len(b) = n BY <1>2, <1>7
<1>9. Ascending(b)
  <2> SUFFICES ASSUME NEW i \in 1..n, NEW j \in 1..n, i < j PROVE b[i].seq < b[j].seq BY <1>6 DEF Ascending
  <2>1. /\ b[i] \in R /\ b[j] \in R /\ b[i].seq \in S /\ b[j].seq \in S
        /\ b[i].seq \in Nat /\ b[j].seq \in Nat
        /\ Rank(S, b[i].seq) = i - 1 /\ Rank(S, b[j].seq) = j - 1
    BY <1>3, <1>5
  <2>2. b[i].seq # b[j].seq BY <1>2, <2>1
  <2>3. b[j].seq < b[i].seq => j - 1 < i - 1 BY <1>1, <2>1, RankOrders
  <2> QED BY <1>2, <2>1, <2>2, <2>3
<1>10. \A r \in R : \E i \in 1..n : b[i] = r
  <2> SUFFICES ASSUME NEW r \in R PROVE \E i \in 1..n : b[i] = r OBVIOUS
  <2>1. r.seq \in S /\ r.seq \in Nat BY <1>3
  <2>2. Rank(S, r.seq) \in Nat /\ Rank(S, r.seq) < n
    <3>1. Rank(S, r.seq) \in Nat BY <1>1, RankFinite
    <3>2. {t \in S : t < r.seq} \in SUBSET (S \ {r.seq})
      <4>1. ~(r.seq < r.seq) BY <2>1
      <4> QED BY <4>1
    <3>3. IsFiniteSet(S \ {r.seq}) /\ Cardinality(S \ {r.seq}) = n - 1 BY <1>1, <2>1, FS_RemoveElement
    <3>4. Rank(S, r.seq) <= n - 1 BY <3>2, <3>3, FS_Subset DEF Rank
    <3> QED BY <1>2, <3>1, <3>4
  <2> DEFINE i == Rank(S, r.seq) + 1
  <2>3. i \in 1..n BY <1>2, <2>2
  <2>4. b[i] \in R /\ b[i].seq \in S /\ b[i].seq \in Nat /\ Rank(S, b[i].seq) = Rank(S, r.seq)
    BY <1>3, <1>5, <2>2, <2>3
  <2>5. ~(b[i].seq < r.seq) BY <1>1, <2>1, <2>2, <2>4, RankOrders
  <2>6. ~(r.seq < b[i].seq) BY <1>1, <2>1, <2>2, <2>4, RankOrders
  <2>7. b[i].seq = r.seq BY <2>1, <2>4, <2>5, <2>6
  <2>8. b[i] = r BY <2>4, <2>7 DEF Distinct
  <2> QED BY <2>3, <2>8
<1> QED BY <1>2, <1>6, <1>8, <1>9, <1>10 DEF b, n

(* The larger of two numbers.                                              *)
LEMMA LargerOf ==
  ASSUME NEW a \in Int, NEW b \in Int
  PROVE  Max({a, b}) = IF a < b THEN b ELSE a
<1> DEFINE m == IF a < b THEN b ELSE a
<1>1. m \in {a, b} /\ \A y \in {a, b} : m >= y OBVIOUS
<1>2. \A x \in {a, b} : (\A y \in {a, b} : x >= y) => x = m OBVIOUS
<1> HIDE DEF m
<1>3. Max({a, b}) = m BY <1>1, <1>2, Zenon DEF Max
<1> QED BY <1>3 DEF m

(* Multiplying keeps the order.                                            *)
LEMMA TimesGrows ==
  ASSUME NEW a \in Int, NEW b \in Int, NEW s \in Nat, a <= b
  PROVE  a * s <= b * s /\ a * s \in Int /\ b * s \in Int
<1>1. (b - a) * s >= 0 OBVIOUS
<1>2. (b - a) * s = b * s - a * s OBVIOUS
<1> QED BY <1>1, <1>2

(* What a quotient is.                                                     *)
LEMMA DivisionIs ==
  ASSUME NEW a \in Nat, NEW b \in Nat \ {0}
  PROVE  LET d == a \div b IN d \in Nat /\ d * b <= a /\ a < d * b + b
OBVIOUS

-----------------------------------------------------------------------------
(* Pages of a journal.  Records are taken from it, each page ascends and   *)
(* lies below the page before it, and only the first one may be empty.     *)
Pages(T) == [records : Seq(T), hasOlder : BOOLEAN]
Placed(J) == \A i \in DOMAIN J : J[i].seq = i
Taken(r, J) == r.seq \in DOMAIN J /\ J[r.seq] = r
Paged(ps) ==
  /\ \A p \in DOMAIN ps : Ascending(ps[p].records) /\ (ps[p].records = <<>> => p = 1)
  /\ \A p, q \in DOMAIN ps : p < q => NewestSeq(ps[q]) < OldestSeq(ps[p])

(* Where a page of a journal begins and ends.                              *)
Below(J, before) == IF before = 0 \/ before > Len(J) THEN Len(J) ELSE before - 1
(* What the server answers: the last "size" records below the bound.       *)
LEMMA ReadIs ==
  ASSUME NEW T, NEW J \in Seq(T), Placed(J), NEW before \in Nat, NEW size \in Nat \ {0}
  PROVE  LET p == ReadPage(J, before, size)
             n == Below(J, before)
             first == IF n > size THEN n - size + 1 ELSE 1
         IN  /\ p \in Pages(T) /\ n \in 0..Len(J) /\ Len(p.records) = n - first + 1
             /\ \A k \in 1..(n - first + 1) : p.records[k] = J[first + k - 1]
             /\ p.hasOlder <=> n > size
<1> DEFINE n == Below(J, before)
           first == IF n > size THEN n - size + 1 ELSE 1
           p == ReadPage(J, before, size)
<1>1. Len(J) \in Nat /\ DOMAIN J = 1..Len(J) OBVIOUS
<1>2. n \in 0..Len(J) BY <1>1 DEF Below
<1>3. {i \in DOMAIN J : before = 0 \/ J[i].seq < before} = 1..n
  <2>1. {i \in DOMAIN J : before = 0 \/ J[i].seq < before} = {i \in 1..Len(J) : before = 0 \/ i < before}
    BY <1>1 DEF Placed
  <2>2. CASE before = 0 BY <2>1, <2>2, <1>1 DEF Below
  <2>3. CASE before # 0
    <3>1. n \in Int /\ \A i \in 1..Len(J) : i < before <=> i <= n BY <1>1, <2>3 DEF Below
    <3> QED BY <1>2, <2>1, <2>3, <3>1
  <2> QED BY <2>2, <2>3
<1>4. Cardinality(1..n) = n
  <2>1. n \in Int /\ 1 \in Int BY <1>2
  <2> HIDE DEF n
  <2>2. Cardinality(1..n) = IF 1 > n THEN 0 ELSE n - 1 + 1 BY <2>1, FS_Interval
  <2> QED BY <1>2, <2>2
<1>5. Max({1, n - size + 1}) = first
  <2>1. Max({1, n - size + 1}) = IF 1 < n - size + 1 THEN n - size + 1 ELSE 1 BY <1>2, LargerOf
  <2> QED BY <1>2, <2>1
<1>6. p = Page(SubSeq(J, first, n), first > 1) BY <1>3, <1>4, <1>5 DEF ReadPage
<1>7. first \in 1..(n + 1) /\ (first > 1 <=> n > size) BY <1>1, <1>2
<1> HIDE DEF n, first, p
<1>8. \A i \in first..n : J[i] \in T BY <1>1, <1>2, <1>7
<1>9. /\ SubSeq(J, first, n) \in Seq(T)
      /\ Len(SubSeq(J, first, n)) = IF first <= n THEN n - first + 1 ELSE 0
      /\ \A i \in 1..(n - first + 1) : SubSeq(J, first, n)[i] = J[first + i - 1]
  BY <1>2, <1>7, <1>8, SubSeqProperties
<1>10. Len(SubSeq(J, first, n)) = n - first + 1 BY <1>2, <1>7, <1>9
<1>11. (first > 1) \in BOOLEAN OBVIOUS
<1>12. p \in Pages(T) /\ p.records = SubSeq(J, first, n) /\ p.hasOlder = (first > 1)
  BY <1>6, <1>9, <1>11 DEF Page, Pages
<1> QED BY <1>2, <1>7, <1>9, <1>10, <1>12 DEF n, first, p

(* All that is loaded, and what is told of one page, of its records.       *)
LEMMA LoadedIs ==
  ASSUME NEW ps, NEW r
  PROVE  r \in LoadedRecords(ps) <=> \E p \in DOMAIN ps : \E k \in DOMAIN ps[p].records : r = ps[p].records[k]
BY DEF LoadedRecords, ToSet

(* The ends of a page that has records.                                    *)
LEMMA EndsOf ==
  ASSUME NEW T, NEW page \in Pages(T), page.records # <<>>
  PROVE  /\ Len(page.records) \in Nat \ {0}
         /\ OldestSeq(page) = page.records[1].seq /\ NewestSeq(page) = page.records[Len(page.records)].seq
<1>1. page.records \in Seq(T) BY DEF Pages
<1>2. Len(page.records) \in Nat \ {0} BY <1>1, EmptySeq
<1> QED BY <1>1, <1>2 DEF OldestSeq, NewestSeq, Last

(* Records of a journal are told apart by their numbers.                   *)
LEMMA JournalDistinct ==
  ASSUME NEW T, NEW J \in Seq(T), NEW R, \A r \in R : Taken(r, J)
  PROVE  Distinct(R) /\ R \in SUBSET T
<1>1. Len(J) \in Nat /\ DOMAIN J = 1..Len(J) OBVIOUS
<1> DEFINE S == {r.seq : r \in R}
           f == [s \in S |-> J[s]]
<1>2. S \in SUBSET (1..Len(J)) BY <1>1 DEF Taken
<1>3. IsFiniteSet(1..Len(J)) BY <1>1, FS_Interval
<1>4. IsFiniteSet(S) BY <1>2, <1>3, FS_Subset
<1>5. \A s \in S : f[s] \in R BY DEF Taken
<1>6. f \in [S -> R] /\ \A r \in R : \E s \in S : f[s] = r BY <1>5 DEF Taken
<1> HIDE DEF f, S
<1>7. f \in Surjection(S, R) BY <1>6 DEF Surjection
<1>8. IsFiniteSet(R) BY <1>4, <1>7, FS_Surjection
<1> QED BY <1>1, <1>8 DEF Distinct, Taken

(* Where the i-th page of n records, cut from the last one down, begins    *)
(* and ends, and how many there are.                                       *)
Lowest(n, size, i) == IF n > i * size THEN n - i * size + 1 ELSE 1
Highest(n, size, i) == n - (i - 1) * size
PageCount(n, size) == IF n = 0 THEN 1 ELSE (n + size - 1) \div size

(* The cuts cover all places, once each, from the last down.               *)
LEMMA CutsFit ==
  ASSUME NEW n \in Nat, NEW size \in Nat \ {0}
  PROVE  LET count == PageCount(n, size)
         IN  /\ count \in Nat \ {0}
             /\ \A i \in 1..count :
                  /\ Lowest(n, size, i) \in Nat \ {0} /\ Highest(n, size, i) \in 0..n
                  /\ Lowest(n, size, i) <= Highest(n, size, i) + 1
                  /\ n > 0 => Lowest(n, size, i) <= Highest(n, size, i)
             /\ \A i, j \in 1..count : i < j => Highest(n, size, j) < Lowest(n, size, i)
             /\ Lowest(n, size, count) = 1
             /\ \A k \in 1..n : \E i \in 1..count : k \in Lowest(n, size, i)..Highest(n, size, i)
<1> DEFINE count == PageCount(n, size)
           d == (n + size - 1) \div size
<1>1. n + size - 1 \in Nat OBVIOUS
<1>2. d \in Nat /\ d * size <= n + size - 1 /\ n + size - 1 < d * size + size BY <1>1, DivisionIs
<1> HIDE DEF d
<1>3. d * size \in Int /\ size \in Int BY <1>2
<1>4. d * size >= n BY <1>2, <1>3
<1>5. n > 0 => d # 0
  <2>1. d = 0 => d * size = 0 BY <1>2
  <2> QED BY <1>4, <2>1
<1>6. count \in Nat \ {0} /\ (n > 0 => count = d) /\ (n = 0 => count = 1)
  BY <1>2, <1>5 DEF PageCount, d
<1>7. count * size \in Int /\ count * size >= n /\ (n > 0 => (count - 1) * size < n)
  <2>1. CASE n > 0
    <3>1. (d - 1) * size = d * size - size BY <1>2
    <3> QED BY <1>2, <1>3, <1>4, <1>6, <2>1, <3>1
  <2>2. CASE n = 0
    <3>1. count = 1 /\ 1 * size = size BY <1>6, <2>2
    <3> QED BY <2>2, <3>1
  <2> QED BY <2>1, <2>2
<1> HIDE DEF count
<1>8. ASSUME NEW i \in 1..count
      PROVE  /\ i * size \in Int /\ (i - 1) * size \in Int /\ (i - 1) * size = i * size - size
             /\ (i - 1) * size >= 0 /\ i * size >= size /\ (i - 1) * size <= (count - 1) * size
  <2>1. i \in Int /\ i - 1 \in Int /\ 0 <= i - 1 /\ i - 1 <= count - 1 /\ count - 1 \in Int BY <1>6
  <2>2. i * size \in Int /\ (i - 1) * size \in Int /\ (i - 1) * size = i * size - size BY <2>1
  <2>3. (i - 1) * size >= 0 * size /\ (i - 1) * size <= (count - 1) * size BY <2>1, TimesGrows
  <2>4. 0 * size = 0 OBVIOUS
  <2> QED BY <2>2, <2>3, <2>4
<1>9. ASSUME NEW i \in 1..count
      PROVE  /\ Lowest(n, size, i) \in Nat \ {0} /\ Highest(n, size, i) \in 0..n
             /\ Lowest(n, size, i) <= Highest(n, size, i) + 1
             /\ n > 0 => Lowest(n, size, i) <= Highest(n, size, i)
  <2>1. (count - 1) * size \in Int BY <1>6
  <2>2. n = 0 => (i - 1) * size = 0
    <3>1. n = 0 => i = 1 BY <1>6
    <3>2. i = 1 => (i - 1) * size = 0 OBVIOUS
    <3> QED BY <3>1, <3>2
  <2>3. Highest(n, size, i) = n - (i - 1) * size /\ Highest(n, size, i) \in 0..n
    BY <1>7, <1>8, <2>1, <2>2 DEF Highest
  <2>4. Lowest(n, size, i) \in Nat \ {0} BY <1>8 DEF Lowest
  <2> DEFINE a == i * size
             b == (i - 1) * size
  <2>5. a \in Int /\ b \in Int /\ b = a - size BY <1>8
  <2>6. Lowest(n, size, i) = IF n > a THEN n - a + 1 ELSE 1 BY DEF Lowest
  <2>7. Highest(n, size, i) = n - b BY <2>3
  <2>8. n > 0 => b < n BY <1>7, <1>8, <2>1
  <2> HIDE DEF a, b
  <2> QED BY <2>3, <2>4, <2>5, <2>6, <2>7, <2>8
<1>10. ASSUME NEW i \in 1..count, NEW j \in 1..count, i < j
       PROVE  Highest(n, size, j) < Lowest(n, size, i)
  <2>1. i \in Int /\ j - 1 \in Int /\ i <= j - 1 BY <1>6, <1>10
  <2>2. i * size <= (j - 1) * size /\ i * size \in Int /\ (j - 1) * size \in Int BY <2>1, TimesGrows
  <2> DEFINE a == i * size
             b == (j - 1) * size
  <2>3. Lowest(n, size, i) = (IF n > a THEN n - a + 1 ELSE 1) /\ Highest(n, size, j) = n - b
    BY DEF Lowest, Highest
  <2>4. a \in Int /\ b \in Int /\ a <= b BY <2>2
  <2> HIDE DEF a, b
  <2> QED BY <2>3, <2>4
<1>11. Lowest(n, size, count) = 1 BY <1>7 DEF Lowest
<1>12. ASSUME NEW k \in 1..n PROVE \E i \in 1..count : k \in Lowest(n, size, i)..Highest(n, size, i)
  <2> DEFINE q == (n - k) \div size
             i == q + 1
  <2>1. n - k \in Nat OBVIOUS
  <2>2. q \in Nat /\ q * size <= n - k /\ n - k < q * size + size BY <2>1, DivisionIs
  <2> HIDE DEF q
  <2>3. q < count
    <3>1. count <= q => count * size <= q * size /\ q * size \in Int BY <1>6, <2>2, TimesGrows
    <3> QED BY <1>6, <1>7, <2>2, <3>1
  <2>4. i \in 1..count BY <1>6, <2>2, <2>3
  <2>5. (i - 1) * size = q * size /\ i * size = q * size + size BY <2>2
  <2>6. Lowest(n, size, i) = (IF n > q * size + size THEN n - (q * size + size) + 1 ELSE 1)
        /\ Highest(n, size, i) = n - q * size
    BY <2>5 DEF Lowest, Highest
  <2> DEFINE b == q * size
  <2>7. b \in Int BY <2>2
  <2>8. b <= n - k /\ n - k < b + size /\ Highest(n, size, i) = n - b
        /\ Lowest(n, size, i) = IF n > b + size THEN n - (b + size) + 1 ELSE 1
    BY <2>2, <2>6
  <2> HIDE DEF b, i
  <2>9. k \in Lowest(n, size, i)..Highest(n, size, i) BY <2>7, <2>8
  <2> QED BY <2>4, <2>9
<1> QED BY <1>6, <1>9, <1>10, <1>11, <1>12 DEF count

(* The parts of a page.                                                    *)
LEMMA PageParts ==
  ASSUME NEW records, NEW hasOlder \in BOOLEAN
  PROVE  Page(records, hasOlder).records = records /\ Page(records, hasOlder).hasOlder = hasOlder
BY DEF Page

(* A merge of the loaded pages with the latest one loses no record and     *)
(* adds none, and cuts them into pages in order.                           *)
LEMMA MergedIs ==
  ASSUME NEW T, NEW J \in Seq(T), NEW current, NEW latest, NEW size \in Nat \ {0},
         current \in Seq(Pages(T)), latest \in Pages(T),
         \A r \in LoadedRecords(current) \cup ToSet(latest.records) : Taken(r, J)
  PROVE  LET m == MergeHistoryPages(current, latest, size)
             R == LoadedRecords(current) \cup ToSet(latest.records)
         IN  /\ m \in Seq(Pages(T)) /\ m # <<>> /\ Paged(m)
             /\ LoadedRecords(m) = R
             /\ Last(m).hasOlder = IF current = NoHistory THEN latest.hasOlder ELSE Last(current).hasOlder
             /\ R # {} => \E r \in R : OldestSeq(Last(m)) = r.seq
<1> DEFINE R == LoadedRecords(current) \cup ToSet(latest.records)
           b == BySeq(R)
           n == Cardinality(R)
           boundary == IF current = NoHistory THEN latest.hasOlder ELSE Last(current).hasOlder
           count == PageCount(n, size)
           lo(i) == Lowest(n, size, i)
           hi(i) == Highest(n, size, i)
           m == MergeHistoryPages(current, latest, size)
<1>1. Distinct(R) /\ R \in SUBSET T BY JournalDistinct
<1> HIDE DEF R
<1>2. /\ n \in Nat /\ b \in Seq(R) /\ Len(b) = n /\ DOMAIN b = 1..n
      /\ Ascending(b)
      /\ \A r \in R : \E i \in 1..n : b[i] = r
  BY <1>1, SortedIs
<1>3. \A i \in 1..n : b[i] \in R /\ b[i] \in T /\ b[i].seq \in Nat BY <1>1, <1>2 DEF Distinct
<1>4. n = 0 <=> R = {} BY <1>2
<1> HIDE DEF n, b
<1>5. /\ count \in Nat \ {0}
      /\ \A i \in 1..count :
           /\ lo(i) \in Nat \ {0} /\ hi(i) \in 0..n
           /\ lo(i) <= hi(i) + 1
           /\ n > 0 => lo(i) <= hi(i)
      /\ \A i, j \in 1..count : i < j => hi(j) < lo(i)
      /\ lo(count) = 1
      /\ \A k \in 1..n : \E i \in 1..count : k \in lo(i)..hi(i)
  BY <1>2, CutsFit
<1>6. boundary \in BOOLEAN
  <2>1. CASE current = NoHistory BY <2>1 DEF Pages
  <2>2. CASE current # NoHistory
    <3>1. Len(current) \in 1..Len(current) BY <2>2 DEF NoHistory
    <3>2. Last(current) \in Pages(T) BY <3>1 DEF Last
    <3> QED BY <2>2, <3>2 DEF Pages
  <2> QED BY <2>1, <2>2
<1>7. Max({1, (n + size - 1) \div size}) = count
  <2> DEFINE d == (n + size - 1) \div size
  <2>1. n + size - 1 \in Nat BY <1>2
  <2>2. d \in Nat /\ d * size <= n + size - 1 /\ n + size - 1 < d * size + size BY <2>1, DivisionIs
  <2>3. Max({1, d}) = IF 1 < d THEN d ELSE 1 BY <2>2, LargerOf
  <2>4. n > 0 => d = count BY <1>2 DEF PageCount
  <2>5. n = 0 => d < 2
    <3>1. ASSUME n = 0, d >= 2 PROVE FALSE
      <4>1. 2 * size <= d * size BY <2>2, <3>1, TimesGrows
      <4>2. d * size \in Int /\ 2 * size = size + size BY <2>2
      <4> QED BY <2>2, <3>1, <4>1, <4>2
    <3> QED BY <2>2, <3>1
  <2>6. n = 0 => count = 1 BY DEF PageCount
  <2> HIDE DEF d, count
  <2>7. CASE n > 0
    <3>1. d = count /\ d >= 1 BY <1>5, <2>4, <2>7
    <3> QED BY <2>2, <2>3, <3>1 DEF d
  <2>8. CASE n = 0
    <3>1. ~(1 < d) BY <2>2, <2>5, <2>8
    <3> QED BY <2>3, <2>6, <2>8, <3>1 DEF d
  <2> QED BY <1>2, <2>7, <2>8
<1>8. \A i \in 1..count : Max({0, n - i * size}) + 1 = lo(i)
  <2> SUFFICES ASSUME NEW i \in 1..count PROVE Max({0, n - i * size}) + 1 = lo(i) OBVIOUS
  <2>1. i * size \in Int BY <1>5
  <2>2. Max({0, n - i * size}) = IF 0 < n - i * size THEN n - i * size ELSE 0 BY <1>2, <2>1, LargerOf
  <2> DEFINE a == i * size
  <2>3. Max({0, n - i * size}) = (IF 0 < n - a THEN n - a ELSE 0) /\ lo(i) = IF n > a THEN n - a + 1 ELSE 1
    BY <2>2 DEF Lowest
  <2>4. a \in Int BY <2>1
  <2> HIDE DEF a
  <2> QED BY <1>2, <2>3, <2>4
<1> DEFINE older(i) == IF i = count THEN boundary ELSE Max({0, n - i * size}) > 0
<1>9. m = [i \in 1..count |-> Page(SubSeq(b, lo(i), hi(i)), older(i))]
  <2>1. m = [i \in 1..count |->
               Page(SubSeq(b, Max({0, n - i * size}) + 1, n - (i - 1) * size),
                    IF i = count THEN boundary ELSE Max({0, n - i * size}) > 0)]
    <3>1. Len(BySeq(R)) = n BY <1>2 DEF b
    <3> QED BY <1>7, <3>1 DEF MergeHistoryPages, R, b
  <2>2. \A i : hi(i) = n - (i - 1) * size BY DEF Highest
  <2> HIDE DEF count, lo, hi, boundary, m
  <2> QED BY <1>8, <2>1, <2>2
<1>10. ASSUME NEW i \in 1..count PROVE older(i) \in BOOLEAN
  <2>1. CASE i = count
    <3>1. older(i) = boundary BY <2>1
    <3> HIDE DEF older
    <3> QED BY <1>6, <3>1
  <2>2. CASE i # count
    <3>1. older(i) = (Max({0, n - i * size}) > 0) BY <2>2
    <3>2. (Max({0, n - i * size}) > 0) \in BOOLEAN OBVIOUS
    <3> HIDE DEF older
    <3> QED BY <3>1, <3>2
  <2> QED BY <2>1, <2>2
<1> HIDE DEF count, lo, hi, boundary, m, older
<1>11. ASSUME NEW i \in 1..count
       PROVE  /\ m[i] \in Pages(T) /\ m[i].hasOlder = older(i)
              /\ m[i].records = SubSeq(b, lo(i), hi(i))
              /\ Len(m[i].records) = hi(i) - lo(i) + 1
              /\ \A k \in 1..(hi(i) - lo(i) + 1) : m[i].records[k] = b[lo(i) + k - 1] /\ lo(i) + k - 1 \in 1..n
  <2>1. lo(i) \in Nat \ {0} /\ hi(i) \in 0..n /\ lo(i) <= hi(i) + 1 BY <1>5
  <2>2. \A k \in lo(i)..hi(i) : b[k] \in T BY <1>2, <1>3, <2>1
  <2>3. lo(i) \in Int /\ hi(i) \in Int BY <1>2, <2>1
  <2>4. /\ SubSeq(b, lo(i), hi(i)) \in Seq(T)
        /\ Len(SubSeq(b, lo(i), hi(i))) = IF lo(i) <= hi(i) THEN hi(i) - lo(i) + 1 ELSE 0
        /\ \A k \in 1..(hi(i) - lo(i) + 1) : SubSeq(b, lo(i), hi(i))[k] = b[lo(i) + k - 1]
    BY <2>2, <2>3, SubSeqProperties
  <2>5. Len(SubSeq(b, lo(i), hi(i))) = hi(i) - lo(i) + 1 BY <2>1, <2>3, <2>4
  <2>6. m[i] = [records |-> SubSeq(b, lo(i), hi(i)), hasOlder |-> older(i)] BY <1>9 DEF Page
  <2>7. \A k \in 1..(hi(i) - lo(i) + 1) : lo(i) + k - 1 \in 1..n BY <1>2, <2>1
  <2>8. older(i) \in BOOLEAN BY <1>10
  <2>9. m[i].records = SubSeq(b, lo(i), hi(i)) /\ m[i].hasOlder = older(i)
    <3>1. m[i] = Page(SubSeq(b, lo(i), hi(i)), older(i)) BY <1>9
    <3>2. Page(SubSeq(b, lo(i), hi(i)), older(i)).records = SubSeq(b, lo(i), hi(i))
          /\ Page(SubSeq(b, lo(i), hi(i)), older(i)).hasOlder = older(i)
      BY <2>8, PageParts
    <3> QED BY <3>1, <3>2, Zenon
  <2>10. m[i] \in Pages(T) BY <2>4, <2>6, <2>8 DEF Pages
  <2> HIDE DEF Pages
  <2> QED BY <2>4, <2>5, <2>7, <2>9, <2>10
<1>12. m \in [1..count -> Pages(T)] /\ DOMAIN m = 1..count BY <1>9, <1>11
<1>13. m \in Seq(Pages(T)) /\ Len(m) = count /\ m # <<>> /\ Last(m) = m[count]
  BY <1>5, <1>12 DEF Last
<1>14. \A i \in 1..count : DOMAIN m[i].records = 1..(hi(i) - lo(i) + 1)
  <2> SUFFICES ASSUME NEW i \in 1..count PROVE DOMAIN m[i].records = 1..(hi(i) - lo(i) + 1) OBVIOUS
  <2>1. m[i].records \in Seq(T) BY <1>11 DEF Pages
  <2> QED BY <1>11, <2>1
<1>15. LoadedRecords(m) = R
  <2>1. ASSUME NEW r \in LoadedRecords(m) PROVE r \in R
    <3>1. PICK i \in 1..count : \E k \in DOMAIN m[i].records : r = m[i].records[k] 
      <4>1. r \in LoadedRecords(m) <=> \E i \in DOMAIN m : \E k \in DOMAIN m[i].records : r = m[i].records[k]
        BY LoadedIs
      <4> QED BY <1>12, <2>1, <4>1
    <3>2. PICK k \in 1..(hi(i) - lo(i) + 1) : r = m[i].records[k] BY <1>14, <3>1
    <3> QED BY <1>3, <1>11, <3>2
  <2>2. ASSUME NEW r \in R PROVE r \in LoadedRecords(m)
    <3>1. PICK k \in 1..n : b[k] = r BY <1>2
    <3>2. PICK i \in 1..count : k \in lo(i)..hi(i) BY <1>5
    <3>3. lo(i) \in Nat \ {0} /\ hi(i) \in 0..n BY <1>5
    <3>4. k - lo(i) + 1 \in 1..(hi(i) - lo(i) + 1) /\ lo(i) + (k - lo(i) + 1) - 1 = k BY <1>2, <3>2, <3>3
    <3>5. m[i].records[k - lo(i) + 1] = b[k] BY <1>11, <3>4
    <3>6. r \in LoadedRecords(m) <=> \E j \in DOMAIN m : \E l \in DOMAIN m[j].records : r = m[j].records[l]
      BY LoadedIs
    <3> QED BY <1>12, <1>14, <3>1, <3>4, <3>5, <3>6
  <2> QED BY <2>1, <2>2
<1>16. \A i \in 1..count : Ascending(m[i].records)
  <2> SUFFICES ASSUME NEW i \in 1..count, NEW k \in DOMAIN m[i].records, NEW l \in DOMAIN m[i].records, k < l
               PROVE  m[i].records[k].seq < m[i].records[l].seq
    BY DEF Ascending
  <2>1. k \in 1..(hi(i) - lo(i) + 1) /\ l \in 1..(hi(i) - lo(i) + 1) BY <1>14
  <2>2. /\ m[i].records[k] = b[lo(i) + k - 1] /\ m[i].records[l] = b[lo(i) + l - 1]
        /\ lo(i) + k - 1 \in 1..n /\ lo(i) + l - 1 \in 1..n
    BY <1>11, <2>1
  <2>3. lo(i) + k - 1 < lo(i) + l - 1 BY <1>5, <2>1
  <2> QED BY <1>2, <2>2, <2>3 DEF Ascending
<1>17. ASSUME NEW i \in 1..count, n > 0
       PROVE  /\ m[i].records # <<>> /\ OldestSeq(m[i]) = b[lo(i)].seq /\ NewestSeq(m[i]) = b[hi(i)].seq
              /\ lo(i) \in 1..n /\ hi(i) \in 1..n
  <2>1. lo(i) \in Nat \ {0} /\ hi(i) \in 0..n /\ lo(i) <= hi(i) BY <1>5, <1>17
  <2>2. 1 \in 1..(hi(i) - lo(i) + 1) /\ hi(i) - lo(i) + 1 \in 1..(hi(i) - lo(i) + 1)
        /\ lo(i) + 1 - 1 = lo(i) /\ lo(i) + (hi(i) - lo(i) + 1) - 1 = hi(i)
    BY <1>2, <2>1
  <2>3. m[i].records[1] = b[lo(i)] /\ m[i].records[hi(i) - lo(i) + 1] = b[hi(i)] BY <1>11, <2>2
  <2>4. m[i].records # <<>>
    <3>1. DOMAIN <<>> = {} OBVIOUS
    <3> QED BY <1>14, <2>2, <3>1
  <2>5. OldestSeq(m[i]) = m[i].records[1].seq /\ NewestSeq(m[i]) = m[i].records[Len(m[i].records)].seq
    BY <1>11, <2>4, EndsOf
  <2>6. Len(m[i].records) = hi(i) - lo(i) + 1 BY <1>11
  <2>7. lo(i) \in 1..n /\ hi(i) \in 1..n BY <1>2, <2>1
  <2> QED BY <2>3, <2>4, <2>5, <2>6, <2>7
<1>18. Paged(m)
  <2>1. ASSUME NEW i \in 1..count, m[i].records = <<>> PROVE i = 1
    <3>1. n = 0 BY <1>2, <1>17, <2>1
    <3>2. count = 1 BY <3>1 DEF PageCount, count
    <3> QED BY <3>2
  <2>2. ASSUME NEW i \in 1..count, NEW j \in 1..count, i < j PROVE NewestSeq(m[j]) < OldestSeq(m[i])
    <3>1. n > 0
      <4>1. n = 0 => count = 1 BY DEF PageCount, count
      <4> QED BY <1>2, <2>2, <4>1
    <3>2. NewestSeq(m[j]) = b[hi(j)].seq /\ OldestSeq(m[i]) = b[lo(i)].seq /\ lo(i) \in 1..n /\ hi(j) \in 1..n
      BY <1>17, <3>1
    <3>3. hi(j) < lo(i) BY <1>5, <2>2
    <3> QED BY <1>2, <3>2, <3>3 DEF Ascending
  <2> QED BY <1>12, <1>16, <2>1, <2>2 DEF Paged
<1>19. Last(m).hasOlder = boundary
  <2>1. count \in 1..count BY <1>5
  <2> QED BY <1>11, <1>13, <2>1 DEF older
<1>20. R # {} => \E r \in R : OldestSeq(Last(m)) = r.seq
  <2>1. ASSUME R # {} PROVE \E r \in R : OldestSeq(Last(m)) = r.seq
    <3>1. n > 0 /\ count \in 1..count BY <1>2, <1>4, <1>5, <2>1
    <3>2. OldestSeq(m[count]) = b[lo(count)].seq /\ lo(count) \in 1..n BY <1>17, <3>1
    <3> QED BY <1>3, <1>13, <3>2
  <2> QED BY <2>1
<1> QED BY <1>13, <1>15, <1>18, <1>19, <1>20 DEF m, R, boundary

(* What is read is the journal's, and the latest page has its last records.*)
LEMMA ReadTaken ==
  ASSUME NEW T, NEW J \in Seq(T), Placed(J), NEW before \in Nat, NEW size \in Nat \ {0}
  PROVE  LET p == ReadPage(J, before, size)
         IN  /\ p \in Pages(T)
             /\ \A r \in ToSet(p.records) : Taken(r, J) /\ (before # 0 => r.seq < before)
             /\ before = 0 => \A i \in DOMAIN J : i > Len(J) - size => J[i] \in ToSet(p.records)
<1> DEFINE p == ReadPage(J, before, size)
           n == Below(J, before)
           first == IF n > size THEN n - size + 1 ELSE 1
<1>1. /\ p \in Pages(T) /\ n \in 0..Len(J) /\ Len(p.records) = n - first + 1
      /\ \A k \in 1..(n - first + 1) : p.records[k] = J[first + k - 1]
  BY ReadIs
<1>2. Len(J) \in Nat /\ DOMAIN J = 1..Len(J) OBVIOUS
<1> HIDE DEF p
<1>3. p.records \in Seq(T) BY <1>1 DEF Pages
<1>4. DOMAIN p.records = 1..(n - first + 1) BY <1>1, <1>3
<1>5. n \in Nat /\ first \in Nat \ {0} /\ (n > 0 => first <= n) BY <1>1, <1>2
<1>6. before # 0 => n < before BY <1>2 DEF Below
<1>7. before = 0 => n = Len(J) BY DEF Below
<1>8. ASSUME NEW r \in ToSet(p.records) PROVE Taken(r, J) /\ (before # 0 => r.seq < before)
  <2>1. PICK k \in 1..(n - first + 1) : r = p.records[k] BY <1>4 DEF ToSet
  <2>2. r = J[first + k - 1] BY <1>1, <2>1
  <2>3. first + k - 1 \in 1..n BY <1>5
  <2> HIDE DEF n, first
  <2>4. first + k - 1 \in DOMAIN J BY <1>1, <1>2, <2>3
  <2>5. r.seq = first + k - 1 BY <2>2, <2>4 DEF Placed
  <2> QED BY <1>5, <1>6, <2>2, <2>3, <2>4, <2>5 DEF Taken
<1>9. ASSUME before = 0, NEW i \in DOMAIN J, i > Len(J) - size PROVE J[i] \in ToSet(p.records)
  <2>1. n = Len(J) /\ first <= i BY <1>2, <1>7, <1>9
  <2> HIDE DEF n, first
  <2>2. i - first + 1 \in 1..(n - first + 1) /\ first + (i - first + 1) - 1 = i BY <1>2, <1>5, <2>1
  <2>3. p.records[i - first + 1] = J[i] BY <1>1, <2>2 DEF n, first
  <2> QED BY <1>4, <2>2, <2>3 DEF ToSet
<1> QED BY <1>1, <1>8, <1>9 DEF p

(* A page more.                                                            *)
LEMMA LoadedMore ==
  ASSUME NEW T, NEW ps \in Seq(Pages(T)), NEW p \in Pages(T)
  PROVE  /\ Append(ps, p) \in Seq(Pages(T)) /\ <<p>> \in Seq(Pages(T))
         /\ LoadedRecords(Append(ps, p)) = LoadedRecords(ps) \cup ToSet(p.records)
         /\ LoadedRecords(<<p>>) = ToSet(p.records)
<1> DEFINE q == Append(ps, p)
<1>1. /\ q \in Seq(Pages(T)) /\ DOMAIN q = DOMAIN ps \cup {Len(ps) + 1}
      /\ (\A i \in DOMAIN ps : q[i] = ps[i]) /\ q[Len(ps) + 1] = p
  OBVIOUS
<1>2. <<p>> \in Seq(Pages(T)) /\ DOMAIN <<p>> = {1} /\ <<p>>[1] = p OBVIOUS
<1> HIDE DEF q
<1>3. LoadedRecords(q) = LoadedRecords(ps) \cup ToSet(p.records) BY <1>1 DEF LoadedRecords
<1>4. LoadedRecords(<<p>>) = ToSet(p.records) BY <1>2 DEF LoadedRecords
<1> QED BY <1>1, <1>2, <1>3, <1>4 DEF q

(* Nothing is loaded where there is no page.                               *)
LEMMA NothingLoaded == LoadedRecords(NoHistory) = {}
BY DEF LoadedRecords, NoHistory

(* Where the next older page ends.                                         *)
LEMMA NextIs ==
  ASSUME NEW T, NEW J \in Seq(T), NEW ps \in Seq(Pages(T)), \A r \in LoadedRecords(ps) : Taken(r, J)
  PROVE  NextPageParam(ps) \in 0..Len(J)
<1>1. CASE NextPageParam(ps) = 0 BY <1>1
<1>2. CASE NextPageParam(ps) # 0
  <2>1. ps # <<>> /\ NextPageParam(ps) = OldestSeq(Last(ps)) BY <1>2 DEF NextPageParam, NoHistory
  <2>2. Len(ps) \in DOMAIN ps /\ Last(ps) = ps[Len(ps)] BY <2>1 DEF Last
  <2> DEFINE p == Last(ps)
  <2>3. p \in Pages(T) /\ p.records # <<>> BY <1>2, <2>1, <2>2 DEF OldestSeq
  <2>4. Len(p.records) \in Nat \ {0} /\ OldestSeq(p) = p.records[1].seq BY <2>3, EndsOf
  <2>5. p.records \in Seq(T) BY <2>3 DEF Pages
  <2>6. 1 \in DOMAIN p.records BY <2>4, <2>5
  <2>7. p.records[1] \in LoadedRecords(ps) BY <2>2, <2>6, LoadedIs
  <2> HIDE DEF p
  <2>8. Taken(p.records[1], J) BY <2>7 DEF p
  <2> QED BY <2>1, <2>4, <2>8 DEF Taken, p
<1> QED BY <1>1, <1>2

(* The pages of a history: in order each, of records of the journal.       *)
Latest(T, J, p) == p \in Pages(T) /\ Ascending(p.records) /\ \A r \in ToSet(p.records) : Taken(r, J)
History(T, J, ps) ==
  /\ ps \in Seq(Pages(T)) /\ (\A i \in DOMAIN ps : Ascending(ps[i].records))
  /\ \A r \in LoadedRecords(ps) : Taken(r, J)

(* No pages are a history, and a page more is one.                         *)
LEMMA HistoryMore ==
  ASSUME NEW T, NEW J \in Seq(T), NEW ps, History(T, J, ps), NEW p, Latest(T, J, p)
  PROVE  History(T, J, NoHistory) /\ History(T, J, <<p>>) /\ History(T, J, Append(ps, p))
<1> DEFINE q == Append(ps, p)
<1>1. ps \in Seq(Pages(T)) /\ p \in Pages(T) BY DEF History, Latest
<1>2. /\ q \in Seq(Pages(T)) /\ <<p>> \in Seq(Pages(T))
      /\ LoadedRecords(q) = LoadedRecords(ps) \cup ToSet(p.records)
      /\ LoadedRecords(<<p>>) = ToSet(p.records)
  BY <1>1, LoadedMore
<1>3. /\ DOMAIN q = DOMAIN ps \cup {Len(ps) + 1} /\ (\A i \in DOMAIN ps : q[i] = ps[i]) /\ q[Len(ps) + 1] = p
  BY <1>1
<1>4. DOMAIN <<p>> = {1} /\ <<p>>[1] = p OBVIOUS
<1>5. NoHistory \in Seq(Pages(T)) /\ DOMAIN NoHistory = {} BY DEF NoHistory
<1> HIDE DEF q
<1>6. History(T, J, NoHistory) BY <1>5, NothingLoaded DEF History
<1>7. History(T, J, <<p>>) BY <1>2, <1>4 DEF History, Latest
<1>8. History(T, J, q) BY <1>2, <1>3 DEF History, Latest
<1> QED BY <1>6, <1>7, <1>8 DEF q

(* A read of the journal is such a page; the latest has the last record.   *)
LEMMA ReadLatest ==
  ASSUME NEW T, NEW J \in Seq(T), Placed(J), NEW before \in Nat, NEW size \in Nat \ {0}
  PROVE  LET p == ReadPage(J, before, size)
         IN  /\ Latest(T, J, p)
             /\ before = 0 => \A i \in DOMAIN J : i <= NewestSeq(p)
<1> DEFINE p == ReadPage(J, before, size)
           n == Below(J, before)
           first == IF n > size THEN n - size + 1 ELSE 1
<1>1. /\ p \in Pages(T) /\ n \in 0..Len(J) /\ Len(p.records) = n - first + 1
      /\ \A k \in 1..(n - first + 1) : p.records[k] = J[first + k - 1]
  BY ReadIs
<1>2. \A r \in ToSet(p.records) : Taken(r, J) BY ReadTaken
<1>3. Len(J) \in Nat /\ DOMAIN J = 1..Len(J) OBVIOUS
<1>4. before = 0 => n = Len(J) BY DEF Below
<1>5. n \in Nat /\ first \in Nat \ {0} /\ (n > 0 => first <= n) /\ (n = 0 => first = 1) BY <1>1, <1>3
<1> HIDE DEF p, n, first
<1>6. p.records \in Seq(T) BY <1>1 DEF Pages
<1>7. DOMAIN p.records = 1..(n - first + 1) BY <1>1, <1>6
<1>8. \A k \in DOMAIN p.records : first + k - 1 \in DOMAIN J /\ p.records[k].seq = first + k - 1
  <2> SUFFICES ASSUME NEW k \in DOMAIN p.records
               PROVE  first + k - 1 \in DOMAIN J /\ p.records[k].seq = first + k - 1
    OBVIOUS
  <2>1. k \in 1..(n - first + 1) BY <1>7
  <2>2. first + k - 1 \in 1..Len(J) BY <1>1, <1>3, <1>5, <2>1
  <2> QED BY <1>1, <1>3, <2>1, <2>2 DEF Placed
<1>9. Ascending(p.records)
  <2> SUFFICES ASSUME NEW i \in DOMAIN p.records, NEW j \in DOMAIN p.records, i < j
               PROVE  p.records[i].seq < p.records[j].seq
    BY DEF Ascending
  <2>1. i \in Int /\ j \in Int BY <1>7
  <2> QED BY <1>5, <1>8, <2>1
<1>10. ASSUME before = 0, NEW i \in DOMAIN J PROVE i <= NewestSeq(p)
  <2>1. n > 0 /\ i <= n BY <1>3, <1>4, <1>10
  <2>2. p.records # <<>> /\ n - first + 1 \in DOMAIN p.records BY <1>1, <1>5, <1>7, <2>1
  <2>3. NewestSeq(p) = p.records[Len(p.records)].seq BY <1>1, <2>2, EndsOf
  <2>4. NewestSeq(p) = n BY <1>1, <1>5, <1>8, <2>2, <2>3
  <2> QED BY <2>1, <2>4
<1> QED BY <1>1, <1>2, <1>9, <1>10 DEF Latest, p

(* The newest number loaded is that of a loaded record, and none is newer. *)
LEMMA NewestIs ==
  ASSUME NEW T, NEW J \in Seq(T), NEW ps, History(T, J, ps)
  PROVE  /\ HistoryNewestSeq(ps) \in 0..Len(J)
         /\ \A r \in LoadedRecords(ps) : r.seq <= HistoryNewestSeq(ps)
         /\ HistoryNewestSeq(ps) # 0 => \E r \in LoadedRecords(ps) : r.seq = HistoryNewestSeq(ps)
<1> DEFINE S == {0} \cup {NewestSeq(ps[i]) : i \in DOMAIN ps}
<1>1. Len(J) \in Nat /\ DOMAIN J = 1..Len(J) OBVIOUS
<1>2. ASSUME NEW i \in DOMAIN ps
      PROVE  /\ ps[i].records = <<>> => NewestSeq(ps[i]) = 0
             /\ ps[i].records # <<>> =>
                  \E r \in LoadedRecords(ps) : r.seq = NewestSeq(ps[i]) /\ NewestSeq(ps[i]) \in DOMAIN J
             /\ \A k \in DOMAIN ps[i].records : ps[i].records[k].seq <= NewestSeq(ps[i])
  <2> DEFINE p == ps[i]
             l == Len(p.records)
  <2>0. ps \in Seq(Pages(T)) BY DEF History
  <2>1. p \in Pages(T) /\ p.records \in Seq(T)
    <3>1. p \in Pages(T) BY <2>0
    <3> QED BY <3>1 DEF Pages
  <2>2. CASE p.records = <<>> BY <2>2 DEF NewestSeq
  <2>3. CASE p.records # <<>>
    <3>1. l \in Nat \ {0} /\ NewestSeq(p) = p.records[l].seq BY <2>1, <2>3, EndsOf
    <3>2. DOMAIN p.records = 1..l BY <2>1
    <3>3. \A k \in DOMAIN p.records : p.records[k] \in LoadedRecords(ps) /\ Taken(p.records[k], J)
      BY LoadedIs DEF History
    <3>4. \A k \in DOMAIN p.records : k < l => p.records[k].seq < p.records[l].seq
      BY <3>1, <3>2 DEF History, Ascending
    <3> HIDE DEF p, l
    <3>5. l \in DOMAIN p.records BY <3>1, <3>2
    <3>6. \A k \in DOMAIN p.records : p.records[k].seq \in DOMAIN J BY <3>3 DEF Taken
    <3>7. \A k \in DOMAIN p.records : p.records[k].seq <= NewestSeq(p)
      <4> SUFFICES ASSUME NEW k \in DOMAIN p.records PROVE p.records[k].seq <= NewestSeq(p) OBVIOUS
      <4>1. k < l \/ k = l BY <3>1, <3>2
      <4>2. p.records[k].seq \in Int /\ p.records[l].seq \in Int BY <1>1, <3>5, <3>6
      <4> QED BY <3>1, <3>4, <4>1, <4>2
    <3> QED BY <2>3, <3>1, <3>3, <3>5, <3>6, <3>7 DEF p
  <2> QED BY <2>2, <2>3
<1>3. S \in SUBSET (0..Len(J)) /\ S # {}
  <2> SUFFICES ASSUME NEW i \in DOMAIN ps PROVE NewestSeq(ps[i]) \in 0..Len(J) BY <1>1
  <2> QED BY <1>1, <1>2
<1>4. HistoryNewestSeq(ps) = Max(S) BY DEF HistoryNewestSeq
<1>5. Max(S) \in S /\ \A x \in S : x <= Max(S) BY <1>1, <1>3, GreatestNumber
<1> DEFINE m == Max(S)
<1> HIDE DEF m
<1>6. m \in S /\ m \in 0..Len(J) /\ (\A i \in DOMAIN ps : NewestSeq(ps[i]) <= m) /\ HistoryNewestSeq(ps) = m
  BY <1>3, <1>4, <1>5 DEF m
<1>7. ASSUME NEW r \in LoadedRecords(ps) PROVE r.seq <= m
  <2>1. PICK i \in DOMAIN ps : \E k \in DOMAIN ps[i].records : r = ps[i].records[k] BY LoadedIs
  <2>2. r.seq <= NewestSeq(ps[i]) /\ NewestSeq(ps[i]) <= m BY <1>2, <1>6, <2>1
  <2>3. r.seq \in Int BY <1>1 DEF History, Taken
  <2>4. NewestSeq(ps[i]) \in Int BY <1>1, <1>3
  <2> QED BY <1>1, <1>6, <2>2, <2>3, <2>4
<1>8. ASSUME m # 0 PROVE \E r \in LoadedRecords(ps) : r.seq = m
  <2>1. PICK i \in DOMAIN ps : m = NewestSeq(ps[i]) BY <1>6, <1>8
  <2> QED BY <1>2, <1>8, <2>1
<1> QED BY <1>6, <1>7, <1>8

(* What is merged into a history with the latest page is as new as both.   *)
LEMMA MergedHistory ==
  ASSUME NEW T, NEW J \in Seq(T), NEW ps, History(T, J, ps), NEW p, Latest(T, J, p), NEW size \in Nat \ {0}
  PROVE  LET m == MergeHistoryPages(ps, p, size)
         IN  /\ History(T, J, m)
             /\ NewestSeq(p) <= HistoryNewestSeq(m) /\ HistoryNewestSeq(ps) <= HistoryNewestSeq(m)
<1> DEFINE m == MergeHistoryPages(ps, p, size)
<1>1. ps \in Seq(Pages(T)) /\ p \in Pages(T) BY DEF History, Latest
<1>2. \A r \in LoadedRecords(ps) \cup ToSet(p.records) : Taken(r, J) BY DEF History, Latest
<1>3. m \in Seq(Pages(T)) /\ Paged(m) /\ LoadedRecords(m) = LoadedRecords(ps) \cup ToSet(p.records)
  BY <1>1, <1>2, MergedIs
<1> HIDE DEF m
<1>4. History(T, J, m) BY <1>2, <1>3 DEF History, Paged
<1>5. /\ \A r \in LoadedRecords(m) : r.seq <= HistoryNewestSeq(m)
      /\ HistoryNewestSeq(m) \in 0..Len(J)
  BY <1>4, NewestIs
<1>6. /\ HistoryNewestSeq(ps) \in 0..Len(J)
      /\ HistoryNewestSeq(ps) # 0 => \E r \in LoadedRecords(ps) : r.seq = HistoryNewestSeq(ps)
  BY NewestIs
<1>7. HistoryNewestSeq(ps) <= HistoryNewestSeq(m) BY <1>3, <1>5, <1>6
<1>8. CASE p.records = <<>>
  <2>1. NewestSeq(p) = 0 BY <1>8 DEF NewestSeq
  <2> QED BY <1>4, <1>5, <1>7, <2>1 DEF m
<1>9. CASE p.records # <<>>
  <2>1. Len(p.records) \in Nat \ {0} /\ NewestSeq(p) = p.records[Len(p.records)].seq BY <1>1, <1>9, EndsOf
  <2>2. p.records \in Seq(T) BY <1>1 DEF Pages
  <2>3. Len(p.records) \in DOMAIN p.records BY <2>1, <2>2
  <2>4. p.records[Len(p.records)] \in ToSet(p.records) BY <2>3 DEF ToSet
  <2> QED BY <1>3, <1>4, <1>5, <1>7, <2>1, <2>4 DEF m
<1> QED BY <1>8, <1>9
=============================================================================
