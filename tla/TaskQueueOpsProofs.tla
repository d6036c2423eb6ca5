------------------------- MODULE TaskQueueOpsProofs -------------------------
(***************************************************************************)
(* What the queue operations preserve, for queues of any length, and that  *)
(* delete_task and dedup return what the code's walk over the queue does.  *)
(***************************************************************************)
EXTENDS TaskQueueOps, TLAPS, FiniteSetTheorems, SequenceTheorems

(* A set of positions is finite, and so is each of its initial parts.      *)
LEMMA RankFinite ==
  ASSUME NEW n \in Nat, NEW K \in SUBSET (1..n), NEW i \in Nat
  PROVE  /\ \A j \in K : j \in Nat /\ 1 <= j /\ j <= n
         /\ IsFiniteSet(K) /\ Cardinality(K) \in Nat
         /\ IsFiniteSet({j \in K : j <= i})
         /\ Rank(K, i) \in Nat /\ Rank(K, i) <= Cardinality(K)
<1>0. \A j \in K : j \in Nat /\ 1 <= j /\ j <= n
  OBVIOUS
<1>1. IsFiniteSet(1..n)
  BY FS_Interval
<1>2. IsFiniteSet(K)
  BY <1>1, FS_Subset
<1>3. {j \in K : j <= i} \in SUBSET K
  OBVIOUS
<1>4. /\ IsFiniteSet({j \in K : j <= i})
      /\ Cardinality({j \in K : j <= i}) <= Cardinality(K)
  BY <1>2, <1>3, FS_Subset
<1> QED
  BY <1>0, <1>2, <1>4, FS_CardinalityType DEF Rank

(* Rank grows with the position, strictly where the position is in K, and  *)
(* is at least 1 there.                                                    *)
LEMMA RankRises ==
  ASSUME NEW n \in Nat, NEW K \in SUBSET (1..n)
  PROVE  /\ \A i, j \in K : i < j => Rank(K, i) < Rank(K, j)
         /\ \A i \in K : Rank(K, i) \in 1..Cardinality(K)
<1>0. \A j \in K : j \in Nat /\ 1 <= j /\ j <= n
  BY RankFinite
<1>1. ASSUME NEW i \in Nat, NEW j \in K, i < j
      PROVE  Rank(K, i) < Rank(K, j)
  <2> DEFINE low  == {p \in K : p <= i}
             upto == {p \in K : p <= j}
  <2>1. j \in Nat
    BY <1>0
  <2>2. /\ IsFiniteSet(low) /\ IsFiniteSet(upto)
        /\ Rank(K, i) \in Nat /\ Rank(K, j) \in Nat
    BY <2>1, RankFinite
  <2>3. low \in SUBSET upto
    <3>1. ASSUME NEW p \in K, p <= i
          PROVE  p <= j
      <4>1. p \in Nat
        BY <1>0
      <4> QED
        BY <1>1, <2>1, <3>1, <4>1
    <3> QED
      BY <3>1, Zenon
  <2>4. j \in upto /\ j \notin low
    BY <1>1, <2>1
  <2>5. Cardinality(low) <= Cardinality(upto) /\ Cardinality(low) # Cardinality(upto)
    BY <2>2, <2>3, <2>4, FS_Subset
  <2> QED
    BY <2>2, <2>5 DEF Rank
<1>2. ASSUME NEW i \in K
      PROVE  Rank(K, i) \in 1..Cardinality(K)
  <2>1. i \in Nat /\ 0 < i
    BY <1>0
  <2>2. Rank(K, 0) < Rank(K, i)
    BY <1>1, <2>1
  <2>3. /\ Rank(K, 0) \in Nat /\ Rank(K, i) \in Nat
        /\ Cardinality(K) \in Nat /\ Rank(K, i) <= Cardinality(K)
    BY <2>1, RankFinite
  <2> QED
    BY <2>2, <2>3
<1> QED
  BY <1>0, <1>1, <1>2

(* Two positions of K with one rank are the same position.                 *)
LEMMA RankInjective ==
  ASSUME NEW n \in Nat, NEW K \in SUBSET (1..n),
         NEW a \in K, NEW b \in K, Rank(K, a) = Rank(K, b)
  PROVE  a = b
<1>1. a \in Nat /\ b \in Nat
  BY RankFinite
<1>2. Rank(K, a) \in Nat
  BY <1>1, RankFinite
<1>3. ~(Rank(K, a) < Rank(K, a))
  BY <1>2
<1>4. /\ a < b => Rank(K, a) < Rank(K, b)
      /\ b < a => Rank(K, b) < Rank(K, a)
  BY RankRises
<1>5. ~(a < b) /\ ~(b < a)
  BY <1>3, <1>4, Zenon
<1> QED
  BY <1>1, <1>5

(* Every rank up to the size of K is taken, by one position: Rank is an    *)
(* injection of K into a set of the same size.                             *)
LEMMA NthExists ==
  ASSUME NEW n \in Nat, NEW K \in SUBSET (1..n), NEW k \in 1..Cardinality(K)
  PROVE  \E i \in K : Rank(K, i) = k
<1> DEFINE m == Cardinality(K)
           f == [i \in K |-> Rank(K, i)]
<1>1. m \in Nat /\ \A j \in K : j \in Nat
  BY RankFinite
<1>2. f \in [K -> 1..m]
  BY RankRises
<1>3. ASSUME NEW a \in K, NEW b \in K, Rank(K, a) = Rank(K, b)
      PROVE  a = b
  BY <1>3, RankInjective
<1>4. f \in Injection(K, 1..m)
  BY <1>2, <1>3 DEF Injection, IsInjective
<1>5. IsFiniteSet(1..m) /\ Cardinality(1..m) = m
  BY <1>1, FS_Interval
<1>6. f \in Surjection(K, 1..m)
  BY <1>4, <1>5, FS_Injection
<1> QED
  BY <1>6 DEF Surjection

(* Of some positions, one is the first.                                    *)
LEMMA FirstPosition ==
  ASSUME NEW n \in Nat, NEW K \in SUBSET (1..n), K # {}
  PROVE  \E first \in K : \A other \in K : first <= other
<1>1. 1 \in 1..Cardinality(K)
  <2>1. IsFiniteSet(K) /\ Cardinality(K) \in Nat
    BY RankFinite
  <2>2. Cardinality(K) # 0
    BY <2>1, FS_EmptySet
  <2> QED
    BY <2>1, <2>2
<1>2. PICK first \in K : Rank(K, first) = 1
  BY <1>1, NthExists
<1>3. \A other \in K : first <= other
  <2> SUFFICES ASSUME NEW other \in K, ~(first <= other)
               PROVE  FALSE
    OBVIOUS
  <2>1. first \in Nat /\ other \in Nat
    BY RankFinite
  <2>2. Rank(K, other) < Rank(K, first)
    <3>1. other < first
      BY <2>1
    <3> QED
      BY <3>1, RankRises
  <2>3. Rank(K, other) \in 1..Cardinality(K)
    BY RankRises
  <2> QED
    BY <1>2, <2>2, <2>3, RankFinite
<1> QED
  BY <1>3

(* VecDeque::retain: the result is made of the elements at the positions   *)
(* of K, each once, in the order of the queue.                             *)
LEMMA RetainProperties ==
  ASSUME NEW S, NEW q \in Seq(S), NEW K \in SUBSET DOMAIN q
  PROVE  /\ Retain(q, K) \in Seq(S)
         /\ DOMAIN Retain(q, K) = 1..Cardinality(K)
         /\ \E pos \in [1..Cardinality(K) -> K] :
              /\ \A k \in 1..Cardinality(K) : Retain(q, K)[k] = q[pos[k]]
              /\ \A k, l \in 1..Cardinality(K) : k < l => pos[k] < pos[l]
              /\ \A i \in K : \E k \in 1..Cardinality(K) : pos[k] = i
<1> DEFINE n == Len(q)
           m == Cardinality(K)
           pos == [k \in 1..m |-> CHOOSE i \in K : Rank(K, i) = k]
<1>1. n \in Nat /\ DOMAIN q = 1..n /\ \A i \in 1..n : q[i] \in S
  BY ElementOfSeq, LenProperties
<1>2. K \in SUBSET (1..n) /\ m \in Nat /\ \A j \in K : j \in Nat
  BY <1>1, RankFinite
<1>3. ASSUME NEW k \in 1..m
      PROVE  pos[k] \in K /\ Rank(K, pos[k]) = k
  <2>1. \E i \in K : Rank(K, i) = k
    BY <1>1, <1>2, NthExists
  <2> QED
    BY <2>1
<1>4. pos \in [1..m -> K]
  BY <1>3
<1>5. \A k \in 1..m : Retain(q, K)[k] = q[pos[k]]
  BY DEF Retain
<1>6. Retain(q, K) \in [1..m -> S]
  BY <1>1, <1>2, <1>3 DEF Retain
<1>7. ASSUME NEW k \in 1..m, NEW l \in 1..m, k < l
      PROVE  pos[k] < pos[l]
  <2>1. /\ pos[k] \in K /\ Rank(K, pos[k]) = k /\ pos[k] \in Nat
        /\ pos[l] \in K /\ Rank(K, pos[l]) = l /\ pos[l] \in Nat
    BY <1>2, <1>3
  <2>2. pos[l] < pos[k] => l < k
    BY <1>1, <1>2, <2>1, RankRises
  <2>3. pos[l] = pos[k] => l = k
    BY <2>1
  <2> HIDE DEF pos
  <2> QED
    BY <1>2, <1>7, <2>1, <2>2, <2>3
<1>8. ASSUME NEW i \in K
      PROVE  \E k \in 1..m : pos[k] = i
  <2>1. Rank(K, i) \in 1..m
    BY <1>1, <1>2, RankRises
  <2>2. pos[Rank(K, i)] \in K /\ Rank(K, pos[Rank(K, i)]) = Rank(K, i)
    BY <1>3, <2>1
  <2>3. ASSUME NEW a \in K, NEW b \in K, Rank(K, a) = Rank(K, b)
        PROVE  a = b
    BY <1>1, <1>2, <2>3, RankInjective
  <2> QED
    BY <2>1, <2>2, <2>3
<1>9. Retain(q, K) \in Seq(S) /\ DOMAIN Retain(q, K) = 1..m
  BY <1>2, <1>6, IsASeq
<1> QED
  BY <1>4, <1>5, <1>7, <1>8, <1>9

(* A retain that drops nothing leaves the queue as it is.                  *)
LEMMA RetainAll ==
  ASSUME NEW S, NEW q \in Seq(S)
  PROVE  Retain(q, DOMAIN q) = q
<1> DEFINE n == Len(q)
<1>1. n \in Nat /\ DOMAIN q = 1..n /\ q \in [1..n -> S]
  BY ElementOfSeq, LenProperties
<1>2. ASSUME NEW i \in 1..n
      PROVE  Rank(1..n, i) = i
  <2>1. {j \in 1..n : j <= i} = 1..i
    <3>1. \A j : (j \in 1..n /\ j <= i) <=> j \in 1..i
      BY <1>1
    <3> QED
      BY <3>1
  <2>2. Cardinality(1..i) = i
    BY <1>1, FS_Interval
  <2> QED
    BY <2>1, <2>2 DEF Rank
<1>3. Cardinality(1..n) = n
  BY <1>1, FS_Interval
<1> DEFINE nth(k) == CHOOSE i \in 1..n : Rank(1..n, i) = k
<1>4. \A k \in 1..n : nth(k) = k
  BY <1>2
<1>5. Retain(q, 1..n) = [k \in 1..Cardinality(1..n) |-> q[nth(k)]]
  BY DEF Retain
<1> HIDE DEF nth
<1>6. Retain(q, 1..n) = [k \in 1..n |-> q[k]]
  BY <1>3, <1>4, <1>5
<1> QED
  BY <1>1, <1>6

(* Two loops that start alike and whose steps keep them alike end alike.   *)
LEMMA LoopsAgree ==
  ASSUME NEW N \in Nat, NEW f, NEW g, f[0] = g[0],
         \A n \in 1..N : f[n - 1] = g[n - 1] => f[n] = g[n]
  PROVE  f[N] = g[N]
<1> DEFINE Apart == {n \in 1..N : f[n] # g[n]}
<1>1. ASSUME Apart # {}
      PROVE  FALSE
  <2>1. PICK first \in Apart : \A other \in Apart : first <= other
    BY <1>1, FirstPosition
  <2>2. /\ first \in 1..N /\ first - 1 \in 0..N /\ ~(first <= first - 1)
        /\ first - 1 = 0 \/ first - 1 \in 1..N
    BY <2>1
  <2>3. first - 1 \notin Apart
    BY <2>1, <2>2
  <2>4. f[first - 1] = g[first - 1]
    BY <2>2, <2>3
  <2> QED
    BY <2>1, <2>2, <2>4
<1> QED
  BY <1>1

(* One step of retain: a position behind all that stay adds its element at *)
(* the end.                                                                *)
LEMMA RetainStep ==
  ASSUME NEW S, NEW q \in Seq(S), NEW n \in DOMAIN q,
         NEW K \in SUBSET (1..(n - 1))
  PROVE  Retain(q, K \cup {n}) = Append(Retain(q, K), q[n])
<1> DEFINE more == K \cup {n}
           m == Cardinality(K)
<1>1. /\ n \in Nat /\ Len(q) \in Nat /\ n <= Len(q) /\ DOMAIN q = 1..Len(q)
      /\ q[n] \in S /\ n - 1 \in Nat /\ n \notin K
      /\ K \in SUBSET (1..n) /\ more \in SUBSET (1..n)
      /\ K \in SUBSET DOMAIN q /\ more \in SUBSET DOMAIN q
  <2>1. Len(q) \in Nat /\ DOMAIN q = 1..Len(q)
    BY LenProperties
  <2>2. n \in Nat /\ 1 <= n /\ n <= Len(q) /\ n - 1 \in Nat /\ q[n] \in S
    BY <2>1, ElementOfSeq
  <2>3. \A i \in 1..(n - 1) : i \in 1..n /\ i \in 1..Len(q) /\ i # n
    BY <2>1, <2>2
  <2>4. n \in 1..n /\ n \in 1..Len(q)
    BY <2>1, <2>2
  <2> QED
    BY <2>1, <2>2, <2>3, <2>4
<1>2. /\ m \in Nat /\ Cardinality(more) = m + 1
      /\ \A j \in K : j \in Nat /\ j < n
  <2>1. IsFiniteSet(K) /\ m \in Nat
    BY <1>1, RankFinite
  <2>2. Cardinality(more) = m + 1
    BY <1>1, <2>1, FS_AddElement, Zenon
  <2>3. \A j \in K : j \in 1..(n - 1)
    OBVIOUS
  <2> QED
    BY <1>1, <2>1, <2>2, <2>3
<1>3. \A i \in K : Rank(more, i) = Rank(K, i)
  <2> SUFFICES ASSUME NEW i \in K
               PROVE  {j \in more : j <= i} = {j \in K : j <= i}
    BY DEF Rank
  <2> QED
    BY <1>1, <1>2
<1>4. Rank(more, n) = m + 1
  <2>1. {j \in more : j <= n} = more
    BY <1>1, <1>2
  <2> QED
    BY <1>2, <2>1 DEF Rank
<1>5. /\ Retain(q, K) \in Seq(S) /\ DOMAIN Retain(q, K) = 1..m
      /\ Retain(q, more) \in Seq(S) /\ DOMAIN Retain(q, more) = 1..(m + 1)
  BY <1>1, <1>2, RetainProperties
<1>6. Len(Retain(q, K)) = m /\ Len(Retain(q, more)) = m + 1
  BY <1>2, <1>5, LenProperties
<1>7. ASSUME NEW k \in 1..m
      PROVE  Retain(q, more)[k] = Retain(q, K)[k]
  <2>1. PICK i \in K : Rank(K, i) = k
    BY <1>1, NthExists
  <2>2. i \in more /\ Rank(more, i) = k
    BY <1>3, <2>1
  <2>3. \A j \in K : Rank(K, j) = k => j = i
    BY <1>1, <2>1, RankInjective
  <2>4. \A j \in more : Rank(more, j) = k => j = i
    BY <1>1, <2>2, RankInjective
  <2>5. (CHOOSE j \in K : Rank(K, j) = k) = i
    BY <2>1, <2>3
  <2>6. (CHOOSE j \in more : Rank(more, j) = k) = i
    BY <2>2, <2>4
  <2>7. k \in 1..Cardinality(more)
    BY <1>2
  <2> HIDE DEF more
  <2>8. Retain(q, more)[k] = q[CHOOSE j \in more : Rank(more, j) = k]
    BY <2>7 DEF Retain
  <2>9. Retain(q, K)[k] = q[CHOOSE j \in K : Rank(K, j) = k]
    BY DEF Retain
  <2> QED
    BY <2>5, <2>6, <2>8, <2>9, Zenon
<1>8. Retain(q, more)[m + 1] = q[n]
  <2>1. \A j \in more : Rank(more, j) = m + 1 => j = n
    BY <1>1, <1>4, RankInjective
  <2>2. n \in more
    OBVIOUS
  <2>3. (CHOOSE j \in more : Rank(more, j) = m + 1) = n
    BY <1>4, <2>1, <2>2
  <2>4. m + 1 \in 1..Cardinality(more)
    BY <1>2
  <2> HIDE DEF more
  <2> QED
    BY <2>3, <2>4 DEF Retain
<1> HIDE DEF more, m
<1> DEFINE r == Append(Retain(q, K), q[n])
<1>9. /\ r \in Seq(S) /\ Len(r) = m + 1 /\ r[m + 1] = q[n]
      /\ \A i \in 1..m : r[i] = Retain(q, K)[i]
  BY <1>1, <1>5, <1>6, AppendProperties
<1> HIDE DEF r
<1>10. \A i \in 1..(m + 1) : Retain(q, more)[i] = r[i]
  <2>1. \A i \in 1..(m + 1) : i \in 1..m \/ i = m + 1
    BY <1>2
  <2> QED
    BY <1>7, <1>8, <1>9, <2>1
<1>11. Retain(q, more) = r
  BY <1>5, <1>6, <1>9, <1>10, SeqEqual
<1> QED
  BY <1>11 DEF r, more

(* A retain that keeps nothing leaves an empty queue.                      *)
LEMMA RetainNone ==
  ASSUME NEW q
  PROVE  Retain(q, {}) = <<>>
<1>1. 1..Cardinality({}) = {}
  BY FS_EmptySet
<1> QED
  BY <1>1 DEF Retain

(* Retain over growing prefixes: position n adds its element at the end if *)
(* it is one of K and changes nothing otherwise.                           *)
LEMMA RetainUpTo ==
  ASSUME NEW S, NEW q \in Seq(S), NEW K \in SUBSET DOMAIN q
  PROVE  /\ Retain(q, {i \in K : i <= 0}) = <<>>
         /\ \A n \in 1..Len(q) :
              Retain(q, {i \in K : i <= n}) =
                IF n \in K THEN Append(Retain(q, {i \in K : i <= n - 1}), q[n])
                ELSE Retain(q, {i \in K : i <= n - 1})
         /\ Retain(q, {i \in K : i <= Len(q)}) = Retain(q, K)
<1>1. Len(q) \in Nat /\ DOMAIN q = 1..Len(q) /\ \A i \in K : i \in Nat /\ 1 <= i /\ i <= Len(q)
  BY LenProperties
<1>2. {i \in K : i <= 0} = {} /\ {i \in K : i <= Len(q)} = K
  BY <1>1
<1>3. ASSUME NEW n \in 1..Len(q)
      PROVE  /\ n \in K => {i \in K : i <= n} = {i \in K : i <= n - 1} \cup {n}
             /\ n \notin K => {i \in K : i <= n} = {i \in K : i <= n - 1}
             /\ {i \in K : i <= n - 1} \in SUBSET (1..(n - 1))
  <2>1. \A i \in K : i <= n <=> i <= n - 1 \/ i = n
    BY <1>1
  <2>2. \A i \in K : i <= n - 1 => i \in 1..(n - 1)
    BY <1>1
  <2> QED
    BY <2>1, <2>2, Zenon
<1> QED
  BY <1>1, <1>2, <1>3, RetainNone, RetainStep

(* delete_task is one pass of VecDeque::retain over the queue.             *)
THEOREM DeleteTaskIsOnePass ==
  ASSUME NEW S, NEW q \in Seq(S), NEW id
  PROVE  DeleteTask(q, id) = DeletePass(q, id)
<1> DEFINE K == {i \in DOMAIN q : q[i] # id}
           upTo == [n \in 0..Len(q) |-> Retain(q, {i \in K : i <= n})]
           left == CHOOSE left :
                     left = [n \in 0..Len(q) |->
                               IF n = 0 THEN <<>>
                               ELSE IF q[n] # id THEN Append(left[n - 1], q[n])
                               ELSE left[n - 1]]
<1>1. Len(q) \in Nat /\ DOMAIN q = 1..Len(q)
  BY LenProperties
<1>2. /\ upTo[0] = <<>>
      /\ \A n \in 1..Len(q) :
           upTo[n] = IF q[n] # id THEN Append(upTo[n - 1], q[n])
                     ELSE upTo[n - 1]
      /\ upTo[Len(q)] = DeleteTask(q, id)
  <2>1. K \in SUBSET DOMAIN q /\ \A n \in 1..Len(q) : n \in K <=> q[n] # id
    BY <1>1
  <2>2. DeleteTask(q, id) = Retain(q, K)
    BY DEF DeleteTask
  <2>3. /\ 0 \in 0..Len(q) /\ Len(q) \in 0..Len(q)
        /\ \A n \in 1..Len(q) : n \in 0..Len(q) /\ n - 1 \in 0..Len(q)
    BY <1>1
  <2> HIDE DEF K
  <2>4. \A n \in 0..Len(q) : upTo[n] = Retain(q, {i \in K : i <= n})
    OBVIOUS
  <2>5. /\ Retain(q, {i \in K : i <= 0}) = <<>>
        /\ \A n \in 1..Len(q) :
             Retain(q, {i \in K : i <= n}) =
               IF n \in K THEN Append(Retain(q, {i \in K : i <= n - 1}), q[n])
               ELSE Retain(q, {i \in K : i <= n - 1})
        /\ Retain(q, {i \in K : i <= Len(q)}) = Retain(q, K)
    BY <2>1, RetainUpTo
  <2> HIDE DEF upTo
  <2> QED
    BY <2>1, <2>2, <2>3, <2>4, <2>5
<1>3. upTo = [n \in 0..Len(q) |->
                IF n = 0 THEN <<>>
                ELSE IF q[n] # id THEN Append(upTo[n - 1], q[n])
                ELSE upTo[n - 1]]
  <2>1. \A n \in 0..Len(q) : n = 0 \/ n \in 1..Len(q)
    BY <1>1
  <2>2. upTo = [n \in 0..Len(q) |-> upTo[n]]
    OBVIOUS
  <2> HIDE DEF upTo
  <2> QED
    BY <1>2, <2>1, <2>2
<1> HIDE DEF upTo
<1>4. left = [n \in 0..Len(q) |->
                IF n = 0 THEN <<>>
                ELSE IF q[n] # id THEN Append(left[n - 1], q[n])
                ELSE left[n - 1]]
  BY <1>3
<1>5. DeletePass(q, id) = left[Len(q)]
  BY DEF DeletePass
<1> HIDE DEF left
<1>6. /\ 0 \in 0..Len(q)
      /\ \A n \in 1..Len(q) : n \in 0..Len(q) /\ n # 0
  BY <1>1
<1>7. left[0] = upTo[0]
  BY <1>2, <1>4, <1>6
<1>8. \A n \in 1..Len(q) : left[n - 1] = upTo[n - 1] => left[n] = upTo[n]
  BY <1>2, <1>4, <1>6
<1>9. left[Len(q)] = upTo[Len(q)]
  BY <1>1, <1>7, <1>8, LoopsAgree
<1> QED
  BY <1>2, <1>5, <1>9

(* dedup is one pass of VecDeque::retain with a set of the ids seen.       *)
THEOREM DedupIsOnePass ==
  ASSUME NEW S, NEW q \in Seq(S)
  PROVE  Dedup(q) = DedupPass(q)
<1> DEFINE K == {i \in DOMAIN q : \A j \in 1..(i - 1) : q[j] # q[i]}
           seen(n) == {q[i] : i \in 1..n}
           upTo == [n \in 0..Len(q) |->
                      [uniques |-> seen(n),
                       left |-> Retain(q, {i \in K : i <= n})]]
           Step(f) == [n \in 0..Len(q) |->
                         IF n = 0 THEN [uniques |-> {}, left |-> <<>>]
                         ELSE [uniques |-> f[n - 1].uniques \cup {q[n]},
                               left |-> IF q[n] \in f[n - 1].uniques
                                        THEN f[n - 1].left
                                        ELSE Append(f[n - 1].left, q[n])]]
           step == CHOOSE step : step = Step(step)
<1>1. Len(q) \in Nat /\ DOMAIN q = 1..Len(q)
  BY LenProperties
<1>2. /\ 0 \in 0..Len(q) /\ Len(q) \in 0..Len(q)
      /\ \A n \in 1..Len(q) : n \in 0..Len(q) /\ n - 1 \in 0..Len(q) /\ n # 0
      /\ \A n \in 0..Len(q) : n = 0 \/ n \in 1..Len(q)
  BY <1>1
<1>3. Retain(q, K) = Dedup(q)
  <2>1. q = <<>> => Retain(q, K) = q
    <3>1. q = <<>> => DOMAIN q = {}
      OBVIOUS
    <3>2. q = <<>> => K = {}
      BY <3>1
    <3> HIDE DEF K
    <3> QED
      BY <3>2, RetainNone
  <2> QED
    BY <2>1 DEF Dedup
<1>4. /\ seen(0) = {}
      /\ \A n \in 1..Len(q) : /\ seen(n) = seen(n - 1) \cup {q[n]}
                              /\ n \in K <=> q[n] \notin seen(n - 1)
  <2>1. 1..0 = {}
    OBVIOUS
  <2>2. ASSUME NEW n \in 1..Len(q)
        PROVE  /\ seen(n) = seen(n - 1) \cup {q[n]}
               /\ n \in K <=> q[n] \notin seen(n - 1)
    <3>1. n \in DOMAIN q /\ \A i : i \in 1..n <=> i \in 1..(n - 1) \/ i = n
      BY <1>1
    <3>2. n \in K <=> \A j \in 1..(n - 1) : q[j] # q[n]
      BY <3>1
    <3>3. q[n] \notin seen(n - 1) <=> \A j \in 1..(n - 1) : q[j] # q[n]
      OBVIOUS
    <3>4. seen(n) = seen(n - 1) \cup {q[n]}
      BY <3>1
    <3> QED
      BY <3>2, <3>3, <3>4
  <2> QED
    BY <2>1, <2>2
<1>5. /\ Retain(q, {i \in K : i <= 0}) = <<>>
      /\ \A n \in 1..Len(q) :
           Retain(q, {i \in K : i <= n}) =
             IF n \in K THEN Append(Retain(q, {i \in K : i <= n - 1}), q[n])
             ELSE Retain(q, {i \in K : i <= n - 1})
      /\ Retain(q, {i \in K : i <= Len(q)}) = Dedup(q)
  <2>1. K \in SUBSET DOMAIN q
    OBVIOUS
  <2> HIDE DEF K
  <2> QED
    BY <1>3, <2>1, RetainUpTo
<1> HIDE DEF K, seen
<1>6. \A n \in 0..Len(q) :
        /\ upTo[n].uniques = seen(n)
        /\ upTo[n].left = Retain(q, {i \in K : i <= n})
        /\ upTo[n] = [uniques |-> seen(n),
                      left |-> Retain(q, {i \in K : i <= n})]
  OBVIOUS
<1>7. upTo = [n \in 0..Len(q) |-> upTo[n]]
  OBVIOUS
<1> HIDE DEF upTo
<1>8. upTo[0] = [uniques |-> {}, left |-> <<>>]
  BY <1>2, <1>4, <1>5, <1>6
<1>9. \A n \in 1..Len(q) :
        upTo[n] = [uniques |-> upTo[n - 1].uniques \cup {q[n]},
                   left |-> IF q[n] \in upTo[n - 1].uniques
                            THEN upTo[n - 1].left
                            ELSE Append(upTo[n - 1].left, q[n])]
  <2> SUFFICES ASSUME NEW n \in 1..Len(q)
               PROVE  upTo[n] = [uniques |-> upTo[n - 1].uniques \cup {q[n]},
                                 left |-> IF q[n] \in upTo[n - 1].uniques
                                          THEN upTo[n - 1].left
                                          ELSE Append(upTo[n - 1].left, q[n])]
    OBVIOUS
  <2>1. /\ upTo[n] = [uniques |-> seen(n), left |-> Retain(q, {i \in K : i <= n})]
        /\ upTo[n - 1].uniques = seen(n - 1)
        /\ upTo[n - 1].left = Retain(q, {i \in K : i <= n - 1})
    BY <1>2, <1>6
  <2>2. Retain(q, {i \in K : i <= n}) =
          IF q[n] \in seen(n - 1) THEN Retain(q, {i \in K : i <= n - 1})
          ELSE Append(Retain(q, {i \in K : i <= n - 1}), q[n])
    BY <1>4, <1>5, Zenon
  <2> QED
    BY <1>4, <2>1, <2>2, Zenon
<1>10. upTo = Step(upTo)
  BY <1>2, <1>7, <1>8, <1>9
<1>11. step = Step(step)
  <2> HIDE DEF Step
  <2> QED
    BY <1>10
<1>12. DedupPass(q) = step[Len(q)].left
  BY DEF DedupPass
<1> HIDE DEF step
<1>13. /\ step[0] = [uniques |-> {}, left |-> <<>>]
       /\ \A n \in 1..Len(q) :
            step[n] = [uniques |-> step[n - 1].uniques \cup {q[n]},
                       left |-> IF q[n] \in step[n - 1].uniques
                                THEN step[n - 1].left
                                ELSE Append(step[n - 1].left, q[n])]
  BY <1>2, <1>11
<1> HIDE DEF Step
<1>14. step[0] = upTo[0]
  BY <1>8, <1>13
<1>15. \A n \in 1..Len(q) : step[n - 1] = upTo[n - 1] => step[n] = upTo[n]
  BY <1>9, <1>13, Zenon
<1>16. step[Len(q)] = upTo[Len(q)]
  BY <1>1, <1>14, <1>15, LoopsAgree
<1> QED
  BY <1>2, <1>5, <1>6, <1>12, <1>16

(* Membership in Queued, as a position.                                    *)
LEMMA QueuedMember ==
  ASSUME NEW q, NEW x
  PROVE  x \in Queued(q) <=> \E i \in DOMAIN q : q[i] = x
BY DEF Queued

(* delete_task removes the id, and only it, and keeps the order.           *)
LEMMA DeleteTaskProperties ==
  ASSUME NEW q \in Seq(Nat), NEW id \in Nat
  PROVE  /\ DeleteTask(q, id) \in Seq(Nat)
         /\ Queued(DeleteTask(q, id)) = Queued(q) \ {id}
         /\ Ascending(q) => Ascending(DeleteTask(q, id))
<1> DEFINE K == {i \in DOMAIN q : q[i] # id}
           m == Cardinality(K)
           r == DeleteTask(q, id)
<1>1. /\ r = Retain(q, K) /\ K \in SUBSET DOMAIN q
      /\ \A i : i \in K <=> i \in DOMAIN q /\ q[i] # id
  BY DEF DeleteTask
<1> HIDE DEF K, r
<1>2. /\ Retain(q, K) \in Seq(Nat)
      /\ DOMAIN Retain(q, K) = 1..m
      /\ \E pos \in [1..m -> K] :
           /\ \A k \in 1..m : Retain(q, K)[k] = q[pos[k]]
           /\ \A k, l \in 1..m : k < l => pos[k] < pos[l]
           /\ \A i \in K : \E k \in 1..m : pos[k] = i
  BY <1>1, RetainProperties
<1> HIDE DEF m
<1>3. PICK pos \in [1..m -> K] :
        /\ \A k \in 1..m : r[k] = q[pos[k]]
        /\ \A k, l \in 1..m : k < l => pos[k] < pos[l]
        /\ \A i \in K : \E k \in 1..m : pos[k] = i
  BY <1>1, <1>2
<1>4. \A k \in 1..m : pos[k] \in DOMAIN q /\ q[pos[k]] # id
  BY <1>1, <1>3
<1>5. r \in Seq(Nat) /\ DOMAIN r = 1..m
  BY <1>1, <1>2
<1>6. \A x : x \in Queued(r) <=> x \in Queued(q) /\ x # id
  <2>1. ASSUME NEW x, x \in Queued(r)
        PROVE  x \in Queued(q) /\ x # id
    <3>1. PICK k \in DOMAIN r : r[k] = x
      BY <2>1, QueuedMember
    <3>2. pos[k] \in DOMAIN q /\ q[pos[k]] = x /\ x # id
      BY <1>3, <1>4, <1>5, <3>1
    <3> QED
      BY <3>2, QueuedMember
  <2>2. ASSUME NEW x, x \in Queued(q), x # id
        PROVE  x \in Queued(r)
    <3>1. PICK i \in DOMAIN q : q[i] = x
      BY <2>2, QueuedMember
    <3>2. PICK k \in 1..m : pos[k] = i
      BY <1>1, <1>3, <2>2, <3>1
    <3>3. k \in DOMAIN r /\ r[k] = x
      BY <1>3, <1>5, <3>1, <3>2
    <3> QED
      BY <3>3, QueuedMember
  <2> QED
    BY <2>1, <2>2
<1>7. Ascending(q) => Ascending(r)
  <2>1. ASSUME Ascending(q), NEW k \in DOMAIN r, NEW l \in DOMAIN r, k < l
        PROVE  r[k] < r[l]
    <3>1. k \in 1..m /\ l \in 1..m
      BY <1>5
    <3>2. pos[k] < pos[l]
      BY <1>3, <2>1, <3>1
    <3>3. q[pos[k]] < q[pos[l]]
      BY <1>4, <2>1, <3>1, <3>2 DEF Ascending
    <3> QED
      BY <1>3, <3>1, <3>3
  <2> QED
    BY <2>1 DEF Ascending
<1> QED
  BY <1>5, <1>6, <1>7 DEF r

(* dedup leaves a queue whose ids rise strictly as it is.                  *)
LEMMA DedupIdentity ==
  ASSUME NEW q \in Seq(Nat), Ascending(q)
  PROVE  Dedup(q) = q
<1>1. DOMAIN q = 1..Len(q) /\ Len(q) \in Nat /\ \A i \in DOMAIN q : q[i] \in Nat
  BY ElementOfSeq, LenProperties
<1>2. ASSUME NEW i \in DOMAIN q, NEW j \in 1..(i - 1)
      PROVE  q[j] # q[i]
  <2>1. j \in DOMAIN q /\ j < i
    BY <1>1
  <2>2. q[j] < q[i]
    BY <2>1 DEF Ascending
  <2> QED
    BY <1>1, <2>1, <2>2
<1>3. {i \in DOMAIN q : \A j \in 1..(i - 1) : q[j] # q[i]} = DOMAIN q
  BY <1>2
<1> QED
  BY <1>3, RetainAll DEF Dedup

(* Adding a task behind an ascending queue, all of it at or below the last *)
(* id added, keeps the queue ascending and all of it at or below the last. *)
LEMMA AddTaskProperties ==
  ASSUME NEW q \in Seq(Nat), NEW last \in Nat, NEW id \in Nat,
         Ascending(q), \A x \in Queued(q) : x <= last
  PROVE  /\ AddTask(q, last, id) \in Seq(Nat)
         /\ LastAdded(last, id) \in Nat /\ last <= LastAdded(last, id)
         /\ Ascending(AddTask(q, last, id))
         /\ \A x \in Queued(AddTask(q, last, id)) : x <= LastAdded(last, id)
         /\ Queued(AddTask(q, last, id)) =
              IF id > last THEN Queued(q) \cup {id} ELSE Queued(q)
<1>1. CASE ~(id > last)
  BY <1>1 DEF AddTask, LastAdded, CanAddTask
<1>2. CASE id > last
  <2> DEFINE d == DeleteTask(q, id)
             r == Append(d, id)
  <2>1. AddTask(q, last, id) = r /\ LastAdded(last, id) = id
    BY <1>2 DEF AddTask, LastAdded, CanAddTask
  <2>2. d \in Seq(Nat) /\ Queued(d) = Queued(q) \ {id} /\ Ascending(d)
    BY DeleteTaskProperties
  <2> HIDE DEF d
  <2>3. /\ r \in Seq(Nat) /\ Len(d) \in Nat
        /\ DOMAIN d = 1..Len(d) /\ DOMAIN r = 1..(Len(d) + 1)
        /\ \A i \in 1..Len(d) : r[i] = d[i]
        /\ r[Len(d) + 1] = id
    BY <2>2, AppendProperties, LenProperties
  <2> HIDE DEF r
  <2>4. \A i \in 1..Len(d) : d[i] \in Nat /\ d[i] <= last /\ d[i] < id
    <3>1. ASSUME NEW i \in 1..Len(d)
          PROVE  d[i] \in Nat /\ d[i] <= last
      <4>1. d[i] \in Queued(d)
        BY <2>3, QueuedMember
      <4>2. d[i] \in Queued(q)
        BY <2>2, <4>1
      <4>3. d[i] \in Nat
        BY <2>2, <2>3, ElementOfSeq
      <4> QED
        BY <4>2, <4>3
    <3> QED
      BY <1>2, <3>1
  <2>5. Queued(r) = Queued(d) \cup {id}
    <3>1. \A i : i \in DOMAIN r <=> i \in DOMAIN d \/ i = Len(d) + 1
      BY <2>3
    <3>2. ASSUME NEW x, x \in Queued(r)
          PROVE  x \in Queued(d) \/ x = id
      <4>1. PICK i \in DOMAIN r : r[i] = x
        BY <3>2, QueuedMember
      <4> QED
        BY <2>3, <3>1, <4>1, QueuedMember
    <3>3. ASSUME NEW x, x \in Queued(d)
          PROVE  x \in Queued(r)
      <4>1. PICK i \in DOMAIN d : d[i] = x
        BY <3>3, QueuedMember
      <4> QED
        BY <2>3, <3>1, <4>1, QueuedMember
    <3>4. id \in Queued(r)
      BY <2>3, <3>1, QueuedMember
    <3> QED
      BY <3>2, <3>3, <3>4
  <2>6. Queued(r) = Queued(q) \cup {id}
    BY <2>2, <2>5
  <2>7. Ascending(r)
    <3>1. ASSUME NEW i \in DOMAIN r, NEW j \in DOMAIN r, i < j
          PROVE  r[i] < r[j]
      <4>1. CASE j = Len(d) + 1
        BY <2>3, <2>4, <3>1, <4>1
      <4>2. CASE j # Len(d) + 1
        <5>1. i \in DOMAIN d /\ j \in DOMAIN d
          BY <2>3, <3>1, <4>2
        <5>2. d[i] < d[j]
          BY <2>2, <3>1, <5>1 DEF Ascending
        <5> QED
          BY <2>3, <5>1, <5>2
      <4> QED
        BY <4>1, <4>2
    <3> QED
      BY <3>1 DEF Ascending
  <2>8. \A x \in Queued(r) : x <= id
    <3>1. ASSUME NEW x \in Queued(r)
          PROVE  x <= id
      <4>1. PICK i \in DOMAIN r : r[i] = x
        BY QueuedMember
      <4>2. CASE i \in 1..Len(d)
        BY <2>3, <2>4, <4>1, <4>2
      <4>3. CASE i = Len(d) + 1
        BY <2>3, <4>1, <4>3
      <4> QED
        BY <2>3, <4>2, <4>3
    <3> QED
      BY <3>1
  <2> QED
    BY <1>2, <2>1, <2>3, <2>6, <2>7, <2>8
<1> QED
  BY <1>1, <1>2

(* Popping the front of an ascending queue leaves only larger ids.         *)
LEMMA PopProperties ==
  ASSUME NEW q \in Seq(Nat), q # <<>>, Ascending(q)
  PROVE  /\ Head(q) \in Nat /\ Tail(q) \in Seq(Nat)
         /\ Ascending(Tail(q))
         /\ Queued(q) = {Head(q)} \cup Queued(Tail(q))
         /\ \A x \in Queued(Tail(q)) : Head(q) < x
<1> DEFINE t == Tail(q)
<1>1. /\ Len(q) \in Nat /\ Len(q) > 0 /\ DOMAIN q = 1..Len(q)
      /\ Head(q) = q[1] /\ Head(q) \in Nat /\ t \in Seq(Nat)
      /\ DOMAIN t = 1..(Len(q) - 1)
      /\ \A i \in 1..(Len(q) - 1) : t[i] = q[i + 1]
  BY HeadTailProperties, LenProperties, EmptySeq
<1> HIDE DEF t
<1>2. \A i \in DOMAIN t : i \in Nat /\ i + 1 \in DOMAIN q /\ 1 < i + 1
  BY <1>1
<1>3. \A i, j \in DOMAIN t : i < j => i + 1 < j + 1
  BY <1>2
<1>4. Ascending(t)
  BY <1>1, <1>2, <1>3 DEF Ascending
<1>5. \A x \in Queued(t) : Head(q) < x
  <2>1. ASSUME NEW x \in Queued(t)
        PROVE  Head(q) < x
    <3>1. PICK i \in DOMAIN t : t[i] = x
      BY QueuedMember
    <3>2. 1 \in DOMAIN q /\ i + 1 \in DOMAIN q /\ 1 < i + 1 /\ q[i + 1] = x
      BY <1>1, <1>2, <3>1
    <3>3. q[1] < q[i + 1]
      BY <3>2 DEF Ascending
    <3> QED
      BY <1>1, <3>2, <3>3
  <2> QED
    BY <2>1
<1>6. Queued(q) = {Head(q)} \cup Queued(t)
  <2>1. ASSUME NEW i \in DOMAIN q, i # 1
        PROVE  i - 1 \in DOMAIN t /\ t[i - 1] = q[i]
    BY <1>1, <2>1
  <2>2. 1 \in DOMAIN q
    BY <1>1
  <2>3. ASSUME NEW x, x \in Queued(q)
        PROVE  x = Head(q) \/ x \in Queued(t)
    <3>1. PICK i \in DOMAIN q : q[i] = x
      BY <2>3, QueuedMember
    <3> QED
      BY <1>1, <2>1, <3>1, QueuedMember
  <2>4. ASSUME NEW x, x \in Queued(t)
        PROVE  x \in Queued(q)
    <3>1. PICK i \in DOMAIN t : t[i] = x
      BY <2>4, QueuedMember
    <3>2. i + 1 \in DOMAIN q /\ q[i + 1] = x
      BY <1>1, <1>2, <3>1
    <3> QED
      BY <3>2, QueuedMember
  <2>5. Head(q) \in Queued(q)
    BY <1>1, <2>2, QueuedMember
  <2> QED
    BY <2>3, <2>4, <2>5
<1> QED
  BY <1>1, <1>4, <1>5, <1>6 DEF t
=============================================================================
