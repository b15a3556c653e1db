---------------------- MODULE ChunkedPrefillSchedulerProofs ----------------------
(***************************************************************************)
(* Proofs about ChunkedPrefillScheduler, for any blocks, requests, prompts,   *)
(* token budget, block size of at least two tokens and watermark, and for    *)
(* every policy of the checkpoints (an index with room for none or for two). *)
(***************************************************************************)
EXTENDS ChunkedPrefillScheduler, BlockSpaceManagerProofs, SequenceTheorems,
        WellFoundedInduction

------------------------
(* The queues are lists without repetition: what an operation on one does to   *)
(* the set of its elements.                                                *)
LEMMA Elements ==
  ASSUME NEW S, NEW q \in Seq(S)
  PROVE  /\ Len(q) \in Nat /\ DOMAIN q = 1..Len(q)
         /\ \A x : x \in ToSet(q) <=> \E i \in 1..Len(q) : q[i] = x
         /\ ToSet(q) \subseteq S /\ q \in Seq(ToSet(q))
<1>1. Len(q) \in Nat /\ q \in [1..Len(q) -> S]
  OBVIOUS
<1>2. q \in [1..Len(q) -> ToSet(q)]
  BY <1>1 DEF ToSet
<1>3. q \in Seq(ToSet(q))
  BY <1>1, <1>2, IsASeq
<1>. QED
  BY <1>1, <1>3 DEF ToSet

LEMMA EmptyList == ToSet(<<>>) = {} /\ IsInjective(<<>>)
BY DEF ToSet, IsInjective

LEMMA AppendList ==
  ASSUME NEW S, NEW q \in Seq(S), NEW x \in S
  PROVE  /\ Append(q, x) \in Seq(S)
         /\ ToSet(Append(q, x)) = ToSet(q) \cup {x}
         /\ IsInjective(q) /\ x \notin ToSet(q) => IsInjective(Append(q, x))
<1> DEFINE r == Append(q, x)
<1>1. /\ r \in Seq(S) /\ Len(r) = Len(q) + 1 /\ Len(q) \in Nat
      /\ \A i \in 1..Len(q) : r[i] = q[i]
      /\ r[Len(q) + 1] = x
  OBVIOUS
<1> HIDE DEF r
<1>2. /\ DOMAIN r = 1..(Len(q) + 1) /\ DOMAIN q = 1..Len(q)
      /\ \A y : y \in ToSet(r) <=> \E i \in 1..(Len(q) + 1) : r[i] = y
      /\ \A y : y \in ToSet(q) <=> \E i \in 1..Len(q) : q[i] = y
  BY <1>1, Elements
<1>3. ToSet(r) = ToSet(q) \cup {x}
  BY <1>1, <1>2
<1>4. ASSUME IsInjective(q), x \notin ToSet(q) PROVE IsInjective(r)
  BY <1>1, <1>2, <1>4 DEF IsInjective
<1>. QED
  BY <1>1, <1>3, <1>4 DEF r

LEMMA TailList ==
  ASSUME NEW S, NEW q \in Seq(S), q # <<>>
  PROVE  /\ Head(q) \in S /\ Head(q) \in ToSet(q) /\ Tail(q) \in Seq(S)
         /\ ToSet(Tail(q)) \subseteq ToSet(q)
         /\ IsInjective(q) => /\ IsInjective(Tail(q))
                              /\ ToSet(Tail(q)) = ToSet(q) \ {Head(q)}
<1> DEFINE r == Tail(q)
<1>1. /\ r \in Seq(S) /\ Len(r) = Len(q) - 1 /\ Len(q) \in Nat /\ Len(q) > 0
      /\ \A i \in 1..(Len(q) - 1) : r[i] = q[i + 1]
      /\ Head(q) = q[1] /\ q[1] \in S
  OBVIOUS
<1> HIDE DEF r
<1>2. /\ DOMAIN r = 1..(Len(q) - 1) /\ DOMAIN q = 1..Len(q)
      /\ \A y : y \in ToSet(r) <=> \E i \in 1..(Len(q) - 1) : r[i] = y
      /\ \A y : y \in ToSet(q) <=> \E i \in 1..Len(q) : q[i] = y
  <2>1. /\ DOMAIN r = 1..Len(r)
        /\ \A y : y \in ToSet(r) <=> \E i \in 1..Len(r) : r[i] = y
    BY <1>1, Elements
  <2>2. /\ DOMAIN q = 1..Len(q)
        /\ \A y : y \in ToSet(q) <=> \E i \in 1..Len(q) : q[i] = y
    BY Elements
  <2>. QED
    BY <1>1, <2>1, <2>2
<1>3. Head(q) \in ToSet(q)
  BY <1>1, <1>2
<1>4. ToSet(r) \subseteq ToSet(q)
  BY <1>1, <1>2
<1>5. ASSUME IsInjective(q) PROVE IsInjective(r)
  BY <1>1, <1>2, <1>5, SMTT(60) DEF IsInjective
<1>6. ASSUME IsInjective(q), NEW y, y \in ToSet(q), y # Head(q) PROVE y \in ToSet(r)
  <2>1. PICK i \in 1..Len(q) : q[i] = y
    BY <1>2, <1>6
  <2>2. i - 1 \in 1..(Len(q) - 1) /\ (i - 1) + 1 = i
    BY <1>1, <1>6, <2>1
  <2>. QED
    BY <1>1, <1>2, <2>1, <2>2
<1>7. ASSUME IsInjective(q) PROVE Head(q) \notin ToSet(r)
  BY <1>1, <1>2, <1>7 DEF IsInjective
<1>. QED
  BY <1>1, <1>3, <1>4, <1>5, <1>6, <1>7 DEF r

LEMMA FrontList ==
  ASSUME NEW S, NEW q \in Seq(S), q # <<>>, IsInjective(q)
  PROVE  /\ Last(q) \in S /\ Last(q) \in ToSet(q) /\ Front(q) \in Seq(S)
         /\ IsInjective(Front(q)) /\ ToSet(Front(q)) = ToSet(q) \ {Last(q)}
<1> DEFINE r == Front(q)
<1>1. /\ r \in Seq(S) /\ Len(r) = Len(q) - 1 /\ Len(q) \in Nat /\ Len(q) > 0
      /\ \A i \in 1..(Len(q) - 1) : r[i] = q[i]
      /\ Last(q) = q[Len(q)] /\ q[Len(q)] \in S
  BY SMTT(60) DEF Front, Last
<1> HIDE DEF r
<1>2. /\ DOMAIN r = 1..(Len(q) - 1) /\ DOMAIN q = 1..Len(q)
      /\ \A y : y \in ToSet(r) <=> \E i \in 1..(Len(q) - 1) : r[i] = y
      /\ \A y : y \in ToSet(q) <=> \E i \in 1..Len(q) : q[i] = y
  BY <1>1, Elements
<1>3. IsInjective(r)
  BY <1>1, <1>2 DEF IsInjective
<1>4. ToSet(r) = ToSet(q) \ {Last(q)}
  BY <1>1, <1>2 DEF IsInjective
<1>. QED
  BY <1>1, <1>2, <1>3, <1>4 DEF r

(* What is left of a list when one element is taken out, and in which order.  *)
LEMMA RemovedAt ==
  ASSUME NEW S, NEW q \in Seq(S), IsInjective(q), NEW x, NEW k \in 1..Len(q), q[k] = x
  PROVE  LET r == RemoveFirst(q, x)
         IN  /\ r \in Seq(S) /\ Len(r) = Len(q) - 1
             /\ \A i \in 1..(Len(q) - 1) : r[i] = IF i < k THEN q[i] ELSE q[i + 1]
<1>0. /\ DOMAIN q = 1..Len(q) /\ Len(q) \in Nat
      /\ \A y : y \in ToSet(q) <=> \E i \in 1..Len(q) : q[i] = y
  BY Elements
<1>1. SelectInSeq(q, LAMBDA v : v = x) = k
  <2> DEFINE I == {i \in 1..Len(q) : q[i] = x}
  <2>1. I = {k}
    BY <1>0 DEF IsInjective
  <2>2. Min(I) = k
    BY <2>1 DEF Min
  <2>. QED
    BY <2>1, <2>2 DEF SelectInSeq
<1> DEFINE r == RemoveFirst(q, x)
<1>2. r = SubSeq(q, 1, k - 1) \o SubSeq(q, k + 1, Len(q))
  BY <1>1 DEF RemoveFirst, RemoveAt
<1>3. /\ r \in Seq(S) /\ Len(r) = Len(q) - 1
      /\ \A i \in 1..(Len(q) - 1) : r[i] = IF i < k THEN q[i] ELSE q[i + 1]
  <2> DEFINE a == SubSeq(q, 1, k - 1)
             b == SubSeq(q, k + 1, Len(q))
  <2>1. /\ a \in Seq(S) /\ b \in Seq(S)
        /\ Len(a) = k - 1 /\ Len(b) = Len(q) - k
        /\ \A i \in 1..(k - 1) : a[i] = q[i]
        /\ \A i \in 1..(Len(q) - k) : b[i] = q[i + k]
    <3>1. q \in Seq(S) /\ Len(q) \in Nat /\ k \in 1..Len(q)
      BY <1>0
    <3>2. a \in Seq(S) /\ Len(a) = k - 1 /\ \A i \in 1..(k - 1) : a[i] = q[i]
      BY <3>1
    <3>3. b \in Seq(S) /\ Len(b) = Len(q) - k
      BY <3>1
    <3>4. ASSUME NEW i \in 1..(Len(q) - k) PROVE b[i] = q[i + k]
      BY <3>1
    <3>. QED
      BY <3>2, <3>3, <3>4
  <2> HIDE DEF a, b, r
  <2>2. /\ a \o b \in Seq(S) /\ Len(a \o b) = Len(a) + Len(b)
        /\ \A i \in 1..(Len(a) + Len(b)) :
             (a \o b)[i] = IF i <= Len(a) THEN a[i] ELSE b[i - Len(a)]
    BY <2>1, ConcatProperties
  <2>3. Len(a) + Len(b) = Len(q) - 1
    BY <1>0, <2>1
  <2>4. ASSUME NEW i \in 1..(Len(q) - 1) PROVE r[i] = IF i < k THEN q[i] ELSE q[i + 1]
    <3>1. r[i] = IF i <= Len(a) THEN a[i] ELSE b[i - Len(a)]
      BY <1>2, <2>2, <2>3 DEF a, b
    <3>2. CASE i < k
      BY <2>1, <3>1, <3>2
    <3>3. CASE ~(i < k)
      <4>1. i - Len(a) \in 1..(Len(q) - k) /\ (i - Len(a)) + k = i + 1 /\ ~(i <= Len(a))
        BY <1>0, <2>1, <3>3
      <4>. QED
        BY <2>1, <3>1, <3>3, <4>1
    <3>. QED
      BY <3>2, <3>3
  <2>. QED
    BY <1>2, <2>2, <2>3, <2>4 DEF a, b
<1>. QED
  BY <1>3

LEMMA RemoveList ==
  ASSUME NEW S, NEW q \in Seq(S), IsInjective(q), NEW x
  PROVE  /\ RemoveFirst(q, x) \in Seq(S)
         /\ IsInjective(RemoveFirst(q, x))
         /\ ToSet(RemoveFirst(q, x)) = ToSet(q) \ {x}
<1>0. /\ DOMAIN q = 1..Len(q) /\ Len(q) \in Nat
      /\ \A y : y \in ToSet(q) <=> \E i \in 1..Len(q) : q[i] = y
  BY Elements
<1>1. CASE x \notin ToSet(q)
  BY <1>0, <1>1 DEF RemoveFirst
<1>2. CASE x \in ToSet(q)
  <2>1. PICK k \in 1..Len(q) : q[k] = x
    BY <1>0, <1>2
  <2> DEFINE r == RemoveFirst(q, x)
  <2>4. /\ r \in Seq(S) /\ Len(r) = Len(q) - 1
        /\ \A i \in 1..(Len(q) - 1) : r[i] = IF i < k THEN q[i] ELSE q[i + 1]
    BY <2>1, RemovedAt
  <2>5. /\ DOMAIN r = 1..(Len(q) - 1)
        /\ \A y : y \in ToSet(r) <=> \E i \in 1..(Len(q) - 1) : r[i] = y
    BY <2>4, Elements
  <2> HIDE DEF r
  <2>6. IsInjective(r)
    BY <1>0, <2>1, <2>4, <2>5, SMTT(60) DEF IsInjective
  <2>7. ASSUME NEW y \in ToSet(r) PROVE y \in ToSet(q) /\ y # x
    BY <1>0, <2>1, <2>4, <2>5, SMTT(60) DEF IsInjective
  <2>8. ASSUME NEW y \in ToSet(q), y # x PROVE y \in ToSet(r)
    <3>1. PICK i \in 1..Len(q) : q[i] = y
      BY <1>0
    <3>2. CASE i < k
      <4>1. i \in 1..(Len(q) - 1) /\ r[i] = q[i]
        BY <1>0, <2>4, <3>2
      <4>. QED
        BY <2>5, <3>1, <4>1
    <3>3. CASE i > k
      <4>1. i - 1 \in 1..(Len(q) - 1) /\ ~(i - 1 < k) /\ (i - 1) + 1 = i
        BY <1>0, <3>3
      <4>2. r[i - 1] = q[i]
        BY <2>4, <4>1
      <4>. QED
        BY <2>5, <3>1, <4>1, <4>2
    <3>. QED
      BY <2>1, <2>8, <3>1, <3>2, <3>3
  <2>. QED
    BY <2>4, <2>6, <2>7, <2>8 DEF r
<1>. QED
  BY <1>1, <1>2

LEMMA ConcatList ==
  ASSUME NEW S, NEW q \in Seq(S), NEW r \in Seq(S)
  PROVE  /\ q \o r \in Seq(S)
         /\ ToSet(q \o r) = ToSet(q) \cup ToSet(r)
         /\ IsInjective(q) /\ IsInjective(r) /\ ToSet(q) \cap ToSet(r) = {} => IsInjective(q \o r)
<1> DEFINE c == q \o r
<1>1. /\ c \in Seq(S) /\ Len(c) = Len(q) + Len(r) /\ Len(q) \in Nat /\ Len(r) \in Nat
      /\ \A i \in 1..(Len(q) + Len(r)) : c[i] = IF i <= Len(q) THEN q[i] ELSE r[i - Len(q)]
  OBVIOUS
<1>2. /\ DOMAIN c = 1..(Len(q) + Len(r)) /\ DOMAIN q = 1..Len(q) /\ DOMAIN r = 1..Len(r)
      /\ \A y : y \in ToSet(c) <=> \E i \in 1..(Len(q) + Len(r)) : c[i] = y
      /\ \A y : y \in ToSet(q) <=> \E i \in 1..Len(q) : q[i] = y
      /\ \A y : y \in ToSet(r) <=> \E i \in 1..Len(r) : r[i] = y
  BY <1>1, Elements
<1> HIDE DEF c
<1>3. ASSUME NEW y \in ToSet(c) PROVE y \in ToSet(q) \cup ToSet(r)
  <2>1. PICK i \in 1..(Len(q) + Len(r)) : c[i] = y
    BY <1>2
  <2>2. CASE i <= Len(q)
    BY <1>1, <1>2, <2>1, <2>2
  <2>3. CASE ~(i <= Len(q))
    <3>1. i - Len(q) \in 1..Len(r) /\ c[i] = r[i - Len(q)]
      BY <1>1, <2>3
    <3>. QED
      BY <1>2, <2>1, <3>1
  <2>. QED
    BY <2>2, <2>3
<1>4. ASSUME NEW y \in ToSet(q) PROVE y \in ToSet(c)
  BY <1>1, <1>2
<1>5. ASSUME NEW y \in ToSet(r) PROVE y \in ToSet(c)
  <2>1. PICK i \in 1..Len(r) : r[i] = y
    BY <1>2
  <2>2. i + Len(q) \in 1..(Len(q) + Len(r)) /\ ~(i + Len(q) <= Len(q)) /\ (i + Len(q)) - Len(q) = i
    BY <1>1
  <2>. QED
    BY <1>1, <1>2, <2>1, <2>2
<1>6. ASSUME IsInjective(q), IsInjective(r), ToSet(q) \cap ToSet(r) = {} PROVE IsInjective(c)
  <2>1. SUFFICES ASSUME NEW i \in 1..(Len(q) + Len(r)), NEW j \in 1..(Len(q) + Len(r)), c[i] = c[j]
                 PROVE  i = j
    BY <1>2 DEF IsInjective
  <2>2. CASE i <= Len(q) /\ j <= Len(q)
    BY <1>1, <1>2, <1>6, <2>1, <2>2 DEF IsInjective
  <2>3. CASE ~(i <= Len(q)) /\ ~(j <= Len(q))
    <3>1. i - Len(q) \in 1..Len(r) /\ j - Len(q) \in 1..Len(r)
      BY <1>1, <2>3
    <3>2. c[i] = r[i - Len(q)] /\ c[j] = r[j - Len(q)]
      BY <1>1, <2>1, <2>3
    <3>3. i - Len(q) \in DOMAIN r /\ j - Len(q) \in DOMAIN r
      BY <1>2, <3>1
    <3>4. i - Len(q) = j - Len(q)
      BY <1>6, <2>1, <3>2, <3>3 DEF IsInjective
    <3>. QED
      BY <1>1, <3>4
  <2>4. CASE i <= Len(q) /\ ~(j <= Len(q))
    <3>1. j - Len(q) \in 1..Len(r) /\ i \in 1..Len(q)
      BY <1>1, <2>4
    <3>. QED
      BY <1>1, <1>2, <1>6, <2>1, <2>4, <3>1
  <2>5. CASE ~(i <= Len(q)) /\ j <= Len(q)
    <3>1. i - Len(q) \in 1..Len(r) /\ j \in 1..Len(q)
      BY <1>1, <2>5
    <3>. QED
      BY <1>1, <1>2, <1>6, <2>1, <2>5, <3>1
  <2>. QED
    BY <2>2, <2>3, <2>4, <2>5
<1>. QED
  BY <1>1, <1>3, <1>4, <1>5, <1>6 DEF c

LEMMA ReverseList ==
  ASSUME NEW S, NEW q \in Seq(S)
  PROVE  /\ Reverse(q) \in Seq(S)
         /\ ToSet(Reverse(q)) = ToSet(q)
         /\ IsInjective(q) => IsInjective(Reverse(q))
<1> DEFINE n == Len(q)
           r == Reverse(q)
<1>1. n \in Nat /\ r = [i \in 1..n |-> q[(n - i) + 1]]
  BY DEF Reverse
<1>2. ASSUME NEW i \in 1..n PROVE (n - i) + 1 \in 1..n /\ q[(n - i) + 1] \in S
  BY <1>1
<1>3. r \in Seq(S)
  BY <1>1, <1>2, IsASeq
<1>4. Len(r) = n
  BY <1>1, <1>3
<1>5. /\ DOMAIN r = 1..n /\ DOMAIN q = 1..n
      /\ \A y : y \in ToSet(r) <=> \E i \in 1..n : r[i] = y
      /\ \A y : y \in ToSet(q) <=> \E i \in 1..n : q[i] = y
  BY <1>3, <1>4, Elements
<1>6. \A i \in 1..n : r[i] = q[(n - i) + 1]
  BY <1>1
<1> HIDE DEF r, n
<1>7. ASSUME NEW y \in ToSet(r) PROVE y \in ToSet(q)
  BY <1>2, <1>5, <1>6
<1>8. ASSUME NEW y \in ToSet(q) PROVE y \in ToSet(r)
  <2>1. PICK i \in 1..n : q[i] = y
    BY <1>5
  <2>2. (n - i) + 1 \in 1..n /\ (n - ((n - i) + 1)) + 1 = i
    BY <1>1
  <2>. QED
    BY <1>5, <1>6, <2>1, <2>2
<1>9. ASSUME IsInjective(q) PROVE IsInjective(r)
  <2>1. SUFFICES ASSUME NEW i \in 1..n, NEW j \in 1..n, r[i] = r[j] PROVE i = j
    BY <1>5 DEF IsInjective
  <2>2. (n - i) + 1 = (n - j) + 1
    BY <1>2, <1>5, <1>6, <1>9, <2>1 DEF IsInjective
  <2>. QED
    BY <1>1, <2>2
<1>. QED
  BY <1>3, <1>7, <1>8, <1>9 DEF r

LEMMA GroupList ==
  ASSUME NEW T, \A g \in T : g.seq \in SeqId, NEW l \in Seq(T)
  PROVE  /\ Seqs(l) \in Seq(SeqId) /\ Len(Seqs(l)) = Len(l)
         /\ \A g \in T : Seqs(Append(l, g)) = Append(Seqs(l), g.seq)
         /\ l # <<>> => /\ Head(l) \in T
                        /\ Head(l).seq = Head(Seqs(l)) /\ Seqs(l) # <<>>
                        /\ Tail(l) \in Seq(T)
                        /\ Seqs(Tail(l)) = Tail(Seqs(l))
         /\ \A m \in Seq(T) : Seqs(l \o m) = Seqs(l) \o Seqs(m)
<1>1. ASSUME NEW m \in Seq(T)
      PROVE  /\ Seqs(m) \in Seq(SeqId) /\ Len(Seqs(m)) = Len(m)
             /\ \A i \in 1..Len(m) : Seqs(m)[i] = m[i].seq
  <2>1. Len(m) \in Nat /\ DOMAIN m = 1..Len(m) /\ \A i \in 1..Len(m) : m[i] \in T
    OBVIOUS
  <2>2. Seqs(m) = [i \in 1..Len(m) |-> m[i].seq]
    BY <2>1 DEF Seqs
  <2>3. \A i \in 1..Len(m) : m[i].seq \in SeqId
    BY <2>1
  <2>4. Seqs(m) \in Seq(SeqId)
    BY <2>1, <2>2, <2>3, IsASeq
  <2>. QED
    BY <2>1, <2>2, <2>4
<1>2. ASSUME NEW g \in T, g.seq \in SeqId PROVE Seqs(Append(l, g)) = Append(Seqs(l), g.seq)
  <2>1. /\ Append(l, g) \in Seq(T) /\ Len(Append(l, g)) = Len(l) + 1 /\ Len(l) \in Nat
        /\ \A i \in 1..Len(l) : Append(l, g)[i] = l[i]
        /\ Append(l, g)[Len(l) + 1] = g
    OBVIOUS
  <2> DEFINE a == Seqs(Append(l, g))
             b == Append(Seqs(l), g.seq)
  <2>2. /\ a \in Seq(SeqId) /\ Len(a) = Len(l) + 1
        /\ \A i \in 1..(Len(l) + 1) : a[i] = Append(l, g)[i].seq
    BY <1>1, <2>1
  <2>3. /\ Seqs(l) \in Seq(SeqId) /\ Len(Seqs(l)) = Len(l)
        /\ \A i \in 1..Len(l) : Seqs(l)[i] = l[i].seq
    BY <1>1
  <2>4. /\ b \in Seq(SeqId) /\ Len(b) = Len(l) + 1
        /\ \A i \in 1..Len(l) : b[i] = Seqs(l)[i]
        /\ b[Len(l) + 1] = g.seq
    BY <1>2, <2>3
  <2> HIDE DEF a, b
  <2>5. \A i \in 1..(Len(l) + 1) : a[i] = b[i]
    BY <2>1, <2>2, <2>3, <2>4
  <2>6. a = b
    BY <2>2, <2>4, <2>5, SeqEqual
  <2>. QED
    BY <2>6 DEF a, b
<1>3. ASSUME l # <<>>
      PROVE  /\ Head(l) \in T /\ Head(l).seq = Head(Seqs(l)) /\ Seqs(l) # <<>>
             /\ Tail(l) \in Seq(T) /\ Seqs(Tail(l)) = Tail(Seqs(l))
  <2>1. /\ Len(l) \in Nat /\ Len(l) > 0 /\ Head(l) = l[1] /\ l[1] \in T
        /\ Tail(l) \in Seq(T) /\ Len(Tail(l)) = Len(l) - 1
        /\ \A i \in 1..(Len(l) - 1) : Tail(l)[i] = l[i + 1]
    BY <1>3
  <2>2. /\ Seqs(l) \in Seq(SeqId) /\ Len(Seqs(l)) = Len(l)
        /\ \A i \in 1..Len(l) : Seqs(l)[i] = l[i].seq
    BY <1>1
  <2>3. Seqs(l) # <<>> /\ Head(Seqs(l)) = Seqs(l)[1]
    BY <2>1, <2>2
  <2> DEFINE a == Seqs(Tail(l))
             b == Tail(Seqs(l))
  <2>4. /\ a \in Seq(SeqId) /\ Len(a) = Len(l) - 1
        /\ \A i \in 1..(Len(l) - 1) : a[i] = Tail(l)[i].seq
    BY <1>1, <2>1
  <2>5. /\ b \in Seq(SeqId) /\ Len(b) = Len(l) - 1
        /\ \A i \in 1..(Len(l) - 1) : b[i] = Seqs(l)[i + 1]
    BY <2>1, <2>2, <2>3
  <2> HIDE DEF a, b
  <2>6. \A i \in 1..(Len(l) - 1) : a[i] = b[i]
    BY <2>1, <2>2, <2>4, <2>5
  <2>7. a = b
    BY <2>1, <2>4, <2>5, <2>6, SeqEqual
  <2>. QED
    BY <2>1, <2>2, <2>3, <2>7 DEF a, b
<1>4. ASSUME NEW m \in Seq(T) PROVE Seqs(l \o m) = Seqs(l) \o Seqs(m)
  <2>0. l \in Seq(T)
    OBVIOUS
  <2> DEFINE k == Len(l)
             n == Len(m)
  <2>1. /\ k \in Nat /\ n \in Nat /\ l \o m \in Seq(T) /\ Len(l \o m) = k + n
        /\ \A i \in 1..(k + n) : (l \o m)[i] = IF i <= k THEN l[i] ELSE m[i - k]
    BY <2>0, ConcatProperties
  <2>2. /\ Seqs(l) \in Seq(SeqId) /\ Len(Seqs(l)) = k /\ \A i \in 1..k : Seqs(l)[i] = l[i].seq
    BY <1>1, <2>0
  <2>3. /\ Seqs(m) \in Seq(SeqId) /\ Len(Seqs(m)) = n /\ \A i \in 1..n : Seqs(m)[i] = m[i].seq
    BY <1>1
  <2> DEFINE a == Seqs(l \o m)
             b == Seqs(l) \o Seqs(m)
  <2>4. a \in Seq(SeqId) /\ Len(a) = k + n /\ \A i \in 1..(k + n) : a[i] = (l \o m)[i].seq
    BY <1>1, <2>1
  <2>5. /\ b \in Seq(SeqId) /\ Len(b) = k + n
        /\ \A i \in 1..(k + n) : b[i] = IF i <= k THEN Seqs(l)[i] ELSE Seqs(m)[i - k]
    <3> HIDE DEF k, n
    <3>1. /\ b \in Seq(SeqId) /\ Len(b) = Len(Seqs(l)) + Len(Seqs(m))
          /\ \A i \in 1..(Len(Seqs(l)) + Len(Seqs(m))) :
               b[i] = IF i <= Len(Seqs(l)) THEN Seqs(l)[i] ELSE Seqs(m)[i - Len(Seqs(l))]
      BY <2>2, <2>3, ConcatProperties
    <3>. QED
      BY <2>2, <2>3, <3>1
  <2> HIDE DEF a, b, k, n
  <2>6. ASSUME NEW i \in 1..(k + n) PROVE a[i] = b[i]
    <3>1. CASE i <= k
      <4>1. i \in 1..k
        BY <2>1, <3>1
      <4>. QED
        BY <2>1, <2>2, <2>4, <2>5, <3>1, <4>1
    <3>2. CASE ~(i <= k)
      <4>1. i - k \in 1..n
        BY <2>1, <3>2
      <4>. QED
        BY <2>1, <2>3, <2>4, <2>5, <3>2, <4>1
    <3>. QED
      BY <3>1, <3>2
  <2>7. a = b
    BY <2>4, <2>5, <2>6, SeqEqual
  <2>. QED
    BY <2>7 DEF a, b
<1>. QED
  BY <1>1, <1>2, <1>3, <1>4

------------------------
(* The inductive invariant.                                                *)
Group == [seq : SeqId, chunk : Int]

IsListOfActions(l) ==
  l \in Seq(ToSet(l)) /\ \A i \in DOMAIN l : l[i].seq \in SeqId /\ l[i].end \in Int

QueueTypeOK ==
  /\ status \in [SeqId -> {"absent", "waiting", "prefill", "decode"}]
  /\ waiting \in Seq(SeqId) /\ running \in Seq(SeqId) /\ preempted \in Seq(SeqId)
  /\ scheduled \in [decode : Seq(Group), prefill : Seq(Group), new : Seq(Group)]
  /\ batch \in Seq(Group) /\ IsListOfActions(sent)
  /\ done \in [SeqId -> Int] /\ now \in Nat
  /\ phase \in {"idle", "running", "prefill", "plan", "metadata", "execute", "output", "dead"}

NoRepetition ==
  /\ IsInjective(waiting) /\ IsInjective(running) /\ IsInjective(preempted)
  /\ IsInjective(Seqs(scheduled.decode)) /\ IsInjective(Seqs(scheduled.prefill))
  /\ IsInjective(Seqs(scheduled.new))
  /\ IsInjective(Seqs(batch)) /\ IsInjective(Seqs(sent))

(* Which lists are in use in which phase of a step.                         *)
PhaseOK ==
  /\ phase = "plan" => waiting # <<>>
  /\ phase \notin {"running", "prefill", "plan"} =>
       scheduled = NothingScheduled /\ preempted = <<>>
  /\ phase \notin {"metadata", "dead"} => batch = <<>>
  /\ phase \in {"idle", "running", "prefill", "plan"} => sent = <<>>

(* The request that is being taken from the waiting queue.                  *)
Planned(s) == phase = "plan" /\ s = Head(waiting)
IsLive(s) == status[s] \in {"prefill", "decode"}

InScheduled(s) ==
  \/ s \in ToSet(Seqs(scheduled.decode))
  \/ s \in ToSet(Seqs(scheduled.prefill))
  \/ s \in ToSet(Seqs(scheduled.new))

InOneList(s) ==
  /\ ~(s \in ToSet(Seqs(scheduled.decode)) /\ s \in ToSet(Seqs(scheduled.prefill)))
  /\ ~(s \in ToSet(Seqs(scheduled.decode)) /\ s \in ToSet(Seqs(scheduled.new)))
  /\ ~(s \in ToSet(Seqs(scheduled.prefill)) /\ s \in ToSet(Seqs(scheduled.new)))

(* Every request is in one list, the one its status calls for.              *)
WaitingPlace(s) ==
  /\ s \in ToSet(waiting) \cup ToSet(preempted) <=> status[s] = "waiting" \/ Planned(s)
  /\ ~(s \in ToSet(waiting) /\ s \in ToSet(preempted))
RunningPlace(s) ==
  /\ s \in ToSet(running) \/ InScheduled(s) <=> IsLive(s) /\ ~Planned(s)
  /\ ~(s \in ToSet(running) /\ InScheduled(s))
  /\ InOneList(s)
BatchPlace(s) ==
  /\ s \in ToSet(Seqs(batch)) \cup ToSet(Seqs(sent)) => s \in ToSet(running)
  /\ ~(s \in ToSet(Seqs(batch)) /\ s \in ToSet(Seqs(sent)))

(* The running requests have a table, but for the one that is getting it.   *)
TablePlace(s) ==
  /\ s \in tables <=> IsLive(s) /\ ~Allocating(s)
  /\ Allocating(s) => Planned(s)
  /\ Planned(s) => status[s] = "prefill"

Place(s) == WaitingPlace(s) /\ RunningPlace(s) /\ BatchPlace(s) /\ TablePlace(s)

QueueInv == QueueTypeOK /\ NoRepetition /\ PhaseOK /\ \A s \in SeqId : Place(s)

LEMMA QueueFacts ==
  ASSUME QueueInv
  PROVE  /\ waiting \in Seq(SeqId) /\ running \in Seq(SeqId) /\ preempted \in Seq(SeqId)
         /\ scheduled.decode \in Seq(Group) /\ scheduled.prefill \in Seq(Group)
         /\ scheduled.new \in Seq(Group) /\ batch \in Seq(Group)
         /\ Seqs(scheduled.decode) \in Seq(SeqId) /\ Seqs(scheduled.prefill) \in Seq(SeqId)
         /\ Seqs(scheduled.new) \in Seq(SeqId) /\ Seqs(batch) \in Seq(SeqId)
         /\ sent \in Seq(ToSet(sent)) /\ Seqs(sent) \in Seq(SeqId)
         /\ \A g \in ToSet(sent) : g.seq \in SeqId /\ g.end \in Int
<1>1. /\ waiting \in Seq(SeqId) /\ running \in Seq(SeqId) /\ preempted \in Seq(SeqId)
      /\ scheduled.decode \in Seq(Group) /\ scheduled.prefill \in Seq(Group)
      /\ scheduled.new \in Seq(Group) /\ batch \in Seq(Group) /\ IsListOfActions(sent)
  BY DEF QueueInv, QueueTypeOK
<1>2. \A g \in Group : g.seq \in SeqId
  BY DEF Group
<1>3. /\ Seqs(scheduled.decode) \in Seq(SeqId) /\ Seqs(scheduled.prefill) \in Seq(SeqId)
      /\ Seqs(scheduled.new) \in Seq(SeqId) /\ Seqs(batch) \in Seq(SeqId)
  BY <1>1, <1>2, GroupList
<1>4. sent \in Seq(ToSet(sent)) /\ \A g \in ToSet(sent) : g.seq \in SeqId /\ g.end \in Int
  BY <1>1 DEF IsListOfActions, ToSet
<1>5. Seqs(sent) \in Seq(SeqId)
  BY <1>4, GroupList
<1>. QED
  BY <1>1, <1>3, <1>4, <1>5

(* A step that leaves the lists alone.                                      *)
LEMMA SameLists ==
  ASSUME QueueInv,
         UNCHANGED <<status, waiting, running, preempted, scheduled, batch, sent>>,
         done' \in [SeqId -> Int], now' \in Nat,
         phase' \in {"idle", "running", "prefill", "plan", "metadata", "execute", "output",
                     "dead"},
         PhaseOK', phase' = "plan" <=> phase = "plan",
         \A s \in SeqId : TablePlace(s)'
  PROVE  QueueInv'
<1>1. QueueTypeOK'
  BY DEF QueueInv, QueueTypeOK, IsListOfActions
<1>2. NoRepetition'
  BY DEF QueueInv, NoRepetition
<1>3. ASSUME NEW s \in SeqId PROVE Place(s)'
  <2>1. Planned(s)' <=> Planned(s)
    BY DEF Planned
  <2>2. Place(s) /\ TablePlace(s)'
    BY DEF QueueInv
  <2>. QED
    BY <2>1, <2>2 DEF Place, WaitingPlace, RunningPlace, BatchPlace, InScheduled, InOneList,
       IsLive
<1>. QED
  BY <1>1, <1>2, <1>3 DEF QueueInv

LEMMA SameTables ==
  ASSUME QueueInv, UNCHANGED <<status, waiting, tables, call>>,
         phase' = "plan" <=> phase = "plan", NEW s \in SeqId
  PROVE  TablePlace(s)'
BY DEF QueueInv, Place, TablePlace, Planned, IsLive, Allocating

LEMMA ManagerStepQueues ==
  ASSUME QueueInv, ManagerStep
  PROVE  QueueInv'
<1>1. CallStep /\ UNCHANGED <<status, waiting, running, preempted, scheduled, batch, sent, done,
                              now, phase>>
  BY DEF ManagerStep, engineVars, queueVars
<1>2. PhaseOK' /\ done' \in [SeqId -> Int] /\ now' \in Nat
      /\ phase' \in {"idle", "running", "prefill", "plan", "metadata", "execute", "output",
                     "dead"}
  BY <1>1 DEF QueueInv, PhaseOK, QueueTypeOK
<1>3. PICK s \in SeqId : AllocateNextBlock(s) \/ AllocateEnd(s) \/ FreeNextBlock(s) \/ FreeEnd(s)
  BY <1>1 DEF CallStep
<1>4. ASSUME NEW r \in SeqId PROVE TablePlace(r)'
  <2>0. TablePlace(r) /\ TablePlace(s)
    BY DEF QueueInv, Place
  <2>1. CASE AllocateNextBlock(s) \/ FreeNextBlock(s)
    <3>1. UNCHANGED <<tables, call>>
      BY <2>1 DEF AllocateNextBlock, FreeNextBlock, managerVars
    <3>. QED
      BY <1>1, <3>1, SameTables
  <2>2. CASE AllocateEnd(s)
    <3>1. Allocating(s) /\ tables' = tables \cup {s} /\ call' = Idle
      BY <2>2 DEF AllocateEnd
    <3>2. ~Allocating(r)' /\ (Allocating(r) => r = s)
      BY <3>1, OneCall, OneCallNext
    <3>. QED
      BY <1>1, <2>0, <3>1, <3>2 DEF TablePlace, Planned, IsLive
  <2>3. CASE FreeEnd(s)
    <3>1. Freeing(s) /\ tables' = tables /\ call' = Idle
      BY <2>3 DEF FreeEnd, managerVars
    <3>2. ~Allocating(r)' /\ ~Allocating(r)
      BY <3>1, OneCall, OneCallNext
    <3>. QED
      BY <1>1, <2>0, <3>1, <3>2 DEF TablePlace, Planned, IsLive
  <2>. QED
    BY <1>3, <2>1, <2>2, <2>3
<1>. QED
  BY <1>1, <1>2, <1>4, SameLists

LEMMA PhaseStepQueues ==
  ASSUME QueueInv, StartStep \/ EndRunning \/ EndMetadata \/ Execute \/ EndStep
  PROVE  QueueInv'
<1>1. /\ UNCHANGED <<status, waiting, running, preempted, scheduled, batch, sent, done, tables,
                     call>>
      /\ now' = now \/ now' = now + 1
      /\ \/ phase = "idle" /\ phase' = "running"
         \/ phase = "running" /\ phase' = "prefill"
         \/ phase = "metadata" /\ batch = <<>> /\ phase' = "execute"
         \/ phase = "execute" /\ phase' \in {"output", "dead"}
         \/ phase = "output" /\ sent = <<>> /\ phase' = "idle"
  BY DEF StartStep, EndRunning, EndMetadata, Execute, EndStep, blockVars, managerVars, queueVars
<1>2. PhaseOK'
  BY <1>1 DEF QueueInv, PhaseOK
<1>3. done' \in [SeqId -> Int] /\ now' \in Nat
  BY <1>1 DEF QueueInv, QueueTypeOK
<1>4. \A s \in SeqId : TablePlace(s)'
  BY <1>1, SameTables
<1>. QED
  BY <1>1, <1>2, <1>3, <1>4, SameLists

LEMMA AddRequestQueues ==
  ASSUME QueueInv, NEW s \in SeqId, AddRequest(s)
  PROVE  QueueInv'
<1>1. /\ phase = "idle" /\ call = Idle /\ status[s] = "absent"
      /\ status' = [status EXCEPT ![s] = "waiting"]
      /\ waiting' = Append(waiting, s)
      /\ UNCHANGED <<running, preempted, scheduled, batch, sent, done, tables, call, phase, now>>
  BY DEF AddRequest, blockVars, managerVars
<1>2. Place(s) /\ QueueTypeOK /\ NoRepetition /\ PhaseOK
  BY DEF QueueInv
<1>3. s \notin ToSet(waiting)
  BY <1>1, <1>2 DEF Place, WaitingPlace, Planned
<1>4. /\ waiting' \in Seq(SeqId) /\ ToSet(waiting') = ToSet(waiting) \cup {s}
      /\ IsInjective(waiting')
  BY <1>1, <1>2, <1>3, AppendList DEF QueueTypeOK, NoRepetition
<1>5. QueueTypeOK'
  BY <1>1, <1>2, <1>4 DEF QueueTypeOK, IsListOfActions
<1>6. NoRepetition'
  BY <1>1, <1>2, <1>4 DEF NoRepetition
<1>7. PhaseOK'
  BY <1>1, <1>2 DEF PhaseOK
<1>8. ASSUME NEW r \in SeqId PROVE Place(r)'
  <2>1. ~Planned(r) /\ ~Planned(r)' /\ ~Allocating(r) /\ ~Allocating(r)'
    BY <1>1, OneCall, OneCallNext DEF Planned
  <2>2. status'[r] = IF r = s THEN "waiting" ELSE status[r]
    BY <1>1, <1>2 DEF QueueTypeOK
  <2>3. Place(r) /\ (InScheduled(r)' <=> InScheduled(r)) /\ (InOneList(r)' <=> InOneList(r))
    BY <1>1 DEF QueueInv, InScheduled, InOneList
  <2>. QED
    BY <1>1, <1>2, <1>4, <2>1, <2>2, <2>3
    DEF Place, WaitingPlace, RunningPlace, BatchPlace, TablePlace, IsLive
<1>. QED
  BY <1>5, <1>6, <1>7, <1>8 DEF QueueInv

LEMMA NoGroups ==
  /\ Seqs(<<>>) = <<>>
  /\ NothingScheduled \in [decode : Seq(Group), prefill : Seq(Group), new : Seq(Group)]
  /\ NothingScheduled.decode = <<>> /\ NothingScheduled.prefill = <<>>
  /\ NothingScheduled.new = <<>>
<1>1. Seqs(<<>>) = <<>>
  <2>1. \A g \in Group : g.seq \in SeqId
    BY DEF Group
  <2>2. <<>> \in Seq(Group) /\ Len(<<>>) = 0
    OBVIOUS
  <2>3. Seqs(<<>>) \in Seq(SeqId) /\ Len(Seqs(<<>>)) = 0
    BY <2>1, <2>2, GroupList
  <2>. QED
    BY <2>3
<1>. QED
  BY <1>1 DEF NothingScheduled

LEMMA ScheduledNobody ==
  ASSUME scheduled = NothingScheduled, NEW s
  PROVE  ~InScheduled(s)
BY NoGroups, EmptyList DEF InScheduled

LEMMA SentTail ==
  ASSUME QueueInv, sent # <<>>
  PROVE  /\ Head(sent).seq \in SeqId /\ Head(sent).end \in Int
         /\ Head(sent).seq \in ToSet(Seqs(sent))
         /\ IsListOfActions(Tail(sent)) /\ IsInjective(Seqs(Tail(sent)))
         /\ ToSet(Seqs(Tail(sent))) = ToSet(Seqs(sent)) \ {Head(sent).seq}
<1>1. /\ sent \in Seq(ToSet(sent)) /\ \A g \in ToSet(sent) : g.seq \in SeqId /\ g.end \in Int
      /\ Seqs(sent) \in Seq(SeqId) /\ IsInjective(Seqs(sent))
  BY QueueFacts DEF QueueInv, NoRepetition
<1>2. /\ Head(sent) \in ToSet(sent) /\ Head(sent).seq = Head(Seqs(sent)) /\ Seqs(sent) # <<>>
      /\ Tail(sent) \in Seq(ToSet(sent)) /\ Seqs(Tail(sent)) = Tail(Seqs(sent))
  BY <1>1, GroupList
<1>3. /\ Head(Seqs(sent)) \in ToSet(Seqs(sent)) /\ IsInjective(Tail(Seqs(sent)))
      /\ ToSet(Tail(Seqs(sent))) = ToSet(Seqs(sent)) \ {Head(Seqs(sent))}
  BY <1>1, <1>2, TailList
<1>4. IsListOfActions(Tail(sent))
  <2> DEFINE t == Tail(sent)
  <2>1. t \in Seq(ToSet(sent))
    BY <1>2
  <2> HIDE DEF t
  <2>2. t \in Seq(ToSet(t)) /\ ToSet(t) \subseteq ToSet(sent)
    BY <2>1, Elements
  <2>3. \A i \in DOMAIN t : t[i] \in ToSet(t)
    BY DEF ToSet
  <2>. QED
    BY <1>1, <2>2, <2>3 DEF IsListOfActions, t
<1>. QED
  BY <1>1, <1>2, <1>3, <1>4

LEMMA SentAppend ==
  ASSUME QueueInv, NEW a, a.seq \in SeqId, a.end \in Int
  PROVE  IsListOfActions(Append(sent, a)) /\ Seqs(Append(sent, a)) = Append(Seqs(sent), a.seq)
<1> DEFINE T == ToSet(sent) \cup {a}
           l == Append(sent, a)
<1>1. sent \in Seq(ToSet(sent)) /\ \A g \in ToSet(sent) : g.seq \in SeqId /\ g.end \in Int
  BY QueueFacts
<1>2. sent \in Seq(T)
  <2>1. Len(sent) \in Nat /\ sent \in [1..Len(sent) -> ToSet(sent)]
    BY <1>1
  <2>2. sent \in [1..Len(sent) -> T]
    BY <2>1
  <2>. QED
    BY <2>1, <2>2, IsASeq
<1>3. a \in T /\ \A g \in T : g.seq \in SeqId /\ g.end \in Int
  BY <1>1
<1> HIDE DEF T
<1>4. Seqs(Append(sent, a)) = Append(Seqs(sent), a.seq)
  BY <1>2, <1>3, GroupList
<1>5. l \in Seq(T)
  BY <1>2, <1>3
<1> HIDE DEF l
<1>6. l \in Seq(ToSet(l)) /\ ToSet(l) \subseteq T /\ \A i \in DOMAIN l : l[i] \in ToSet(l)
  BY <1>5, Elements DEF ToSet
<1>7. IsListOfActions(l)
  BY <1>3, <1>6 DEF IsListOfActions
<1>. QED
  BY <1>4, <1>7 DEF l

(* A request is finished, aborted or ignored.                               *)
LEMMA LeavingQueues ==
  ASSUME QueueInv, NEW s \in SeqId, Leaves(s), call = Idle, phase # "plan", phase' = phase,
         ~InScheduled(s), s \notin ToSet(preempted), s \notin ToSet(Seqs(batch)),
         UNCHANGED <<preempted, scheduled, batch, now>>,
         IsListOfActions(sent'), IsInjective(Seqs(sent')),
         ToSet(Seqs(sent')) = ToSet(Seqs(sent)) \ {s}, sent = <<>> => sent' = <<>>,
         tables' = tables \ {s}, \A r \in SeqId : ~Allocating(r)'
  PROVE  QueueInv'
<1>1. /\ status' = [status EXCEPT ![s] = "absent"]
      /\ done' = [done EXCEPT ![s] = 0]
      /\ waiting' = RemoveFirst(waiting, s)
      /\ running' = RemoveFirst(running, s)
  BY DEF Leaves
<1>2. QueueTypeOK /\ NoRepetition /\ PhaseOK
  BY DEF QueueInv
<1>3. /\ waiting' \in Seq(SeqId) /\ ToSet(waiting') = ToSet(waiting) \ {s}
      /\ IsInjective(waiting')
  BY <1>1, <1>2, RemoveList DEF QueueTypeOK, NoRepetition
<1>4. /\ running' \in Seq(SeqId) /\ ToSet(running') = ToSet(running) \ {s}
      /\ IsInjective(running')
  BY <1>1, <1>2, RemoveList DEF QueueTypeOK, NoRepetition
<1>5. QueueTypeOK'
  BY <1>1, <1>2, <1>3, <1>4 DEF QueueTypeOK
<1>6. NoRepetition'
  BY <1>2, <1>3, <1>4 DEF NoRepetition
<1>7. PhaseOK'
  BY <1>2 DEF PhaseOK
<1>8. ASSUME NEW r \in SeqId PROVE Place(r)'
  <2>1. ~Planned(r) /\ ~Planned(r)' /\ ~Allocating(r) /\ ~Allocating(r)'
    BY OneCall DEF Planned
  <2>2. status'[r] = IF r = s THEN "absent" ELSE status[r]
    BY <1>1, <1>2 DEF QueueTypeOK
  <2>3. Place(r) /\ (InScheduled(r)' <=> InScheduled(r)) /\ (InOneList(r)' <=> InOneList(r))
    BY DEF QueueInv, InScheduled, InOneList
  <2>. QED
    BY <1>3, <1>4, <2>1, <2>2, <2>3
    DEF Place, WaitingPlace, RunningPlace, BatchPlace, TablePlace, IsLive
<1>. QED
  BY <1>5, <1>6, <1>7, <1>8 DEF QueueInv

LEMMA AbortQueues ==
  ASSUME QueueInv, NEW s \in SeqId, Abort(s)
  PROVE  QueueInv'
<1>1. /\ phase = "idle" /\ phase' = phase /\ call = Idle /\ Leaves(s) /\ FreeSeq(s)
      /\ UNCHANGED <<preempted, scheduled, batch, sent, now>>
  BY DEF Abort
<1>2. scheduled = NothingScheduled /\ preempted = <<>> /\ batch = <<>> /\ sent = <<>>
  BY <1>1 DEF QueueInv, PhaseOK
<1>3. /\ ToSet(preempted) = {} /\ ToSet(Seqs(batch)) = {} /\ ToSet(Seqs(sent)) = {}
      /\ ToSet(Seqs(sent')) = {} /\ ~InScheduled(s)
  BY <1>1, <1>2, NoGroups, EmptyList, ScheduledNobody
<1>4. IsListOfActions(sent') /\ IsInjective(Seqs(sent'))
  BY <1>1 DEF QueueInv, QueueTypeOK, NoRepetition, IsListOfActions
<1>5. tables' = tables \ {s} /\ \A r \in SeqId : ~Allocating(r)'
  <2>1. CASE s \in tables
    <3>1. tables' = tables \ {s} /\ Freeing(s)'
      BY <1>1, <2>1 DEF FreeSeq, FreeBegin, Freeing
    <3>. QED
      BY <3>1, OneCallNext
  <2>2. CASE s \notin tables
    <3>1. tables' = tables /\ call' = Idle
      BY <1>1, <2>2 DEF FreeSeq, blockVars, managerVars
    <3>. QED
      BY <2>2, <3>1, OneCallNext
  <2>. QED
    BY <2>1, <2>2
<1>. QED
  BY <1>1, <1>2, <1>3, <1>4, <1>5, LeavingQueues

LEMMA IgnorePromptQueues ==
  ASSUME QueueInv, IgnorePrompt
  PROVE  QueueInv'
<1>0. PICK s : s = Head(waiting)
  OBVIOUS
<1>1. /\ phase = "prefill" /\ phase' = phase /\ call = Idle /\ waiting # <<>> /\ Leaves(s)
      /\ UNCHANGED <<preempted, scheduled, batch, sent, now, tables, call>>
  BY <1>0 DEF IgnorePrompt, blockVars, managerVars
<1>2. s \in SeqId /\ s \in ToSet(waiting)
  BY <1>0, <1>1, TailList DEF QueueInv, QueueTypeOK
<1>3. Place(s)
  BY <1>2 DEF QueueInv
<1>4. status[s] = "waiting"
  BY <1>1, <1>2, <1>3 DEF Place, WaitingPlace, Planned
<1>5. s \notin ToSet(preempted) /\ ~InScheduled(s) /\ s \notin tables /\ s \notin ToSet(running)
  BY <1>2, <1>3, <1>4 DEF Place, WaitingPlace, RunningPlace, TablePlace, IsLive
<1>6. s \notin ToSet(Seqs(batch)) /\ s \notin ToSet(Seqs(sent))
  BY <1>3, <1>5 DEF Place, BatchPlace
<1>7. IsListOfActions(sent') /\ IsInjective(Seqs(sent')) /\ ToSet(Seqs(sent')) = ToSet(Seqs(sent)) \ {s}
  BY <1>1, <1>6 DEF QueueInv, QueueTypeOK, NoRepetition, IsListOfActions
<1>8. tables' = tables \ {s} /\ \A r \in SeqId : ~Allocating(r)'
  BY <1>1, <1>5, OneCallNext
<1>. QED
  BY <1>1, <1>2, <1>5, <1>6, <1>7, <1>8, LeavingQueues

LEMMA FinishQueues ==
  ASSUME QueueInv, Finish
  PROVE  QueueInv'
<1>0. PICK s : s = Head(sent).seq
  OBVIOUS
<1>1. /\ phase = "output" /\ phase' = phase /\ call = Idle /\ sent # <<>> /\ Leaves(s)
      /\ sent' = Tail(sent) /\ tables' = tables \ {s} /\ Freeing(s)'
      /\ UNCHANGED <<preempted, scheduled, batch, now>>
  BY <1>0 DEF Finish, Progress, FreeBegin, Freeing
<1>2. /\ s \in SeqId /\ s \in ToSet(Seqs(sent)) /\ IsListOfActions(sent')
      /\ IsInjective(Seqs(sent')) /\ ToSet(Seqs(sent')) = ToSet(Seqs(sent)) \ {s}
  BY <1>0, <1>1, SentTail
<1>3. Place(s)
  BY <1>2 DEF QueueInv
<1>4. s \in ToSet(running) /\ s \notin ToSet(Seqs(batch))
  BY <1>2, <1>3 DEF Place, BatchPlace
<1>5. ~InScheduled(s) /\ s \notin ToSet(preempted)
  BY <1>1, <1>3, <1>4 DEF Place, RunningPlace, WaitingPlace, IsLive, Planned
<1>6. \A r \in SeqId : ~Allocating(r)'
  BY <1>1, OneCallNext
<1>. QED
  BY <1>1, <1>2, <1>4, <1>5, <1>6, LeavingQueues

LEMMA ProgressQueues ==
  ASSUME QueueInv, ChunkDone \/ Sample
  PROVE  QueueInv'
<1>0. PICK s : s = Head(sent).seq
  OBVIOUS
<1>1. /\ phase = "output" /\ phase' = phase /\ call = Idle /\ sent # <<>>
      /\ sent' = Tail(sent) /\ done' = [done EXCEPT ![s] = Head(sent).end]
      /\ status' = status \/ status' = [status EXCEPT ![s] = "decode"]
      /\ UNCHANGED <<waiting, running, preempted, scheduled, batch, now, tables, call>>
  BY <1>0 DEF ChunkDone, Sample, Progress, blockVars, managerVars
<1>2. /\ s \in SeqId /\ Head(sent).end \in Int /\ s \in ToSet(Seqs(sent)) /\ IsListOfActions(sent')
      /\ IsInjective(Seqs(sent')) /\ ToSet(Seqs(sent')) = ToSet(Seqs(sent)) \ {s}
  BY <1>0, <1>1, SentTail
<1>3. Place(s) /\ QueueTypeOK /\ NoRepetition /\ PhaseOK
  BY <1>2 DEF QueueInv
<1>4. IsLive(s)
  BY <1>2, <1>3 DEF Place, BatchPlace, RunningPlace
<1>5. QueueTypeOK'
  BY <1>1, <1>2, <1>3 DEF QueueTypeOK
<1>6. NoRepetition'
  BY <1>1, <1>2, <1>3 DEF NoRepetition
<1>7. PhaseOK'
  BY <1>1, <1>3 DEF PhaseOK
<1>8. ASSUME NEW r \in SeqId PROVE Place(r)'
  <2>1. ~Planned(r) /\ ~Planned(r)' /\ ~Allocating(r) /\ ~Allocating(r)'
    BY <1>1, OneCall, OneCallNext DEF Planned
  <2>2. status'[r] = status[r] \/ (r = s /\ status'[r] = "decode")
    BY <1>1, <1>2, <1>3 DEF QueueTypeOK
  <2>3. Place(r) /\ (InScheduled(r)' <=> InScheduled(r)) /\ (InOneList(r)' <=> InOneList(r))
    BY <1>1 DEF QueueInv, InScheduled, InOneList
  <2>. QED
    BY <1>1, <1>2, <1>4, <2>1, <2>2, <2>3
    DEF Place, WaitingPlace, RunningPlace, BatchPlace, TablePlace, IsLive
<1>. QED
  BY <1>5, <1>6, <1>7, <1>8 DEF QueueInv

(* A group is added to one of the lists of the step.                        *)
LEMMA GroupScheduled ==
  ASSUME QueueInv, NEW s \in SeqId, NEW k \in {"decode", "prefill", "new"}, NEW c \in Int,
         scheduled' = Scheduled(s, k, c), ~InScheduled(s)
  PROVE  /\ scheduled' \in [decode : Seq(Group), prefill : Seq(Group), new : Seq(Group)]
         /\ IsInjective(Seqs(scheduled'.decode)) /\ IsInjective(Seqs(scheduled'.prefill))
         /\ IsInjective(Seqs(scheduled'.new))
         /\ \A r \in SeqId : InScheduled(r)' <=> InScheduled(r) \/ r = s
         /\ \A r \in SeqId : InOneList(r) => InOneList(r)'
<1> DEFINE g == [seq |-> s, chunk |-> c]
<1>1. g \in Group /\ g.seq = s
  BY DEF Group
<1> HIDE DEF g
<1>2. ASSUME NEW l \in Seq(Group), IsInjective(Seqs(l)), s \notin ToSet(Seqs(l))
      PROVE  /\ Append(l, g) \in Seq(Group) /\ IsInjective(Seqs(Append(l, g)))
             /\ ToSet(Seqs(Append(l, g))) = ToSet(Seqs(l)) \cup {s}
  <2>1. \A h \in Group : h.seq \in SeqId
    BY DEF Group
  <2>2. Seqs(l) \in Seq(SeqId) /\ Seqs(Append(l, g)) = Append(Seqs(l), s)
    BY <1>1, <2>1, GroupList
  <2>3. /\ IsInjective(Append(Seqs(l), s))
        /\ ToSet(Append(Seqs(l), s)) = ToSet(Seqs(l)) \cup {s}
    BY <1>2, <2>2, AppendList
  <2>. QED
    BY <1>1, <2>2, <2>3
<1>3. /\ scheduled \in [decode : Seq(Group), prefill : Seq(Group), new : Seq(Group)]
      /\ IsInjective(Seqs(scheduled.decode)) /\ IsInjective(Seqs(scheduled.prefill))
      /\ IsInjective(Seqs(scheduled.new))
      /\ s \notin ToSet(Seqs(scheduled.decode)) /\ s \notin ToSet(Seqs(scheduled.prefill))
      /\ s \notin ToSet(Seqs(scheduled.new))
  BY DEF QueueInv, QueueTypeOK, NoRepetition, InScheduled
<1>4. scheduled' = [scheduled EXCEPT ![k] = Append(@, g)]
  BY DEF Scheduled, g
<1>5. CASE k = "decode"
  <2>1. /\ scheduled' = [scheduled EXCEPT !.decode = Append(scheduled.decode, g)]
    BY <1>3, <1>4, <1>5
  <2>2. /\ scheduled'.decode = Append(scheduled.decode, g)
        /\ scheduled'.prefill = scheduled.prefill /\ scheduled'.new = scheduled.new
    BY <1>3, <2>1
  <2>3. /\ Append(scheduled.decode, g) \in Seq(Group) /\ IsInjective(Seqs(scheduled'.decode))
        /\ ToSet(Seqs(scheduled'.decode)) = ToSet(Seqs(scheduled.decode)) \cup {s}
    BY <1>2, <1>3, <2>2
  <2>4. scheduled' \in [decode : Seq(Group), prefill : Seq(Group), new : Seq(Group)]
    BY <1>3, <2>1, <2>3
  <2>. QED
    BY <1>3, <2>2, <2>3, <2>4 DEF InScheduled, InOneList
<1>6. CASE k = "prefill"
  <2>1. /\ scheduled' = [scheduled EXCEPT !.prefill = Append(scheduled.prefill, g)]
    BY <1>3, <1>4, <1>6
  <2>2. /\ scheduled'.prefill = Append(scheduled.prefill, g)
        /\ scheduled'.decode = scheduled.decode /\ scheduled'.new = scheduled.new
    BY <1>3, <2>1
  <2>3. /\ Append(scheduled.prefill, g) \in Seq(Group) /\ IsInjective(Seqs(scheduled'.prefill))
        /\ ToSet(Seqs(scheduled'.prefill)) = ToSet(Seqs(scheduled.prefill)) \cup {s}
    BY <1>2, <1>3, <2>2
  <2>4. scheduled' \in [decode : Seq(Group), prefill : Seq(Group), new : Seq(Group)]
    BY <1>3, <2>1, <2>3
  <2>. QED
    BY <1>3, <2>2, <2>3, <2>4 DEF InScheduled, InOneList
<1>7. CASE k = "new"
  <2>1. /\ scheduled' = [scheduled EXCEPT !.new = Append(scheduled.new, g)]
    BY <1>3, <1>4, <1>7
  <2>2. /\ scheduled'.new = Append(scheduled.new, g)
        /\ scheduled'.decode = scheduled.decode /\ scheduled'.prefill = scheduled.prefill
    BY <1>3, <2>1
  <2>3. /\ Append(scheduled.new, g) \in Seq(Group) /\ IsInjective(Seqs(scheduled'.new))
        /\ ToSet(Seqs(scheduled'.new)) = ToSet(Seqs(scheduled.new)) \cup {s}
    BY <1>2, <1>3, <2>2
  <2>4. scheduled' \in [decode : Seq(Group), prefill : Seq(Group), new : Seq(Group)]
    BY <1>3, <2>1, <2>3
  <2>. QED
    BY <1>3, <2>2, <2>3, <2>4 DEF InScheduled, InOneList
<1>. QED
  BY <1>5, <1>6, <1>7

LEMMA ScheduleRunningQueues ==
  ASSUME QueueInv, ScheduleRunning, RunningChunk(Head(running)) \in Int
  PROVE  QueueInv'
<1>0. PICK s : s = Head(running)
  OBVIOUS
<1>1. /\ phase = "running" /\ phase' = phase /\ running # <<>> /\ call = Idle
      /\ running' = Tail(running) /\ scheduled' = Scheduled(s, status[s], RunningChunk(s))
      /\ UNCHANGED <<status, waiting, preempted, batch, sent, done, now, tables, call>>
  BY <1>0 DEF ScheduleRunning, AppendSlots
<1>2. QueueTypeOK /\ NoRepetition /\ PhaseOK
  BY DEF QueueInv
<1>3. /\ s \in SeqId /\ s \in ToSet(running) /\ running' \in Seq(SeqId)
      /\ IsInjective(running') /\ ToSet(running') = ToSet(running) \ {s}
  BY <1>0, <1>1, <1>2, TailList DEF QueueTypeOK, NoRepetition
<1>4. Place(s)
  BY <1>3 DEF QueueInv
<1>5. IsLive(s) /\ ~InScheduled(s)
  BY <1>3, <1>4 DEF Place, RunningPlace
<1>6. /\ scheduled' \in [decode : Seq(Group), prefill : Seq(Group), new : Seq(Group)]
      /\ IsInjective(Seqs(scheduled'.decode)) /\ IsInjective(Seqs(scheduled'.prefill))
      /\ IsInjective(Seqs(scheduled'.new))
      /\ \A r \in SeqId : InScheduled(r)' <=> InScheduled(r) \/ r = s
      /\ \A r \in SeqId : InOneList(r) => InOneList(r)'
  BY <1>0, <1>1, <1>3, <1>5, GroupScheduled DEF IsLive
<1>7. QueueTypeOK'
  BY <1>1, <1>2, <1>3, <1>6 DEF QueueTypeOK, IsListOfActions
<1>8. NoRepetition'
  BY <1>1, <1>2, <1>3, <1>6 DEF NoRepetition
<1>9. PhaseOK'
  BY <1>1, <1>2 DEF PhaseOK
<1>10. ASSUME NEW r \in SeqId PROVE Place(r)'
  <2>1. ~Planned(r) /\ ~Planned(r)' /\ ~Allocating(r) /\ ~Allocating(r)'
    BY <1>1, OneCall, OneCallNext DEF Planned
  <2>2. Place(r) /\ (IsLive(r)' <=> IsLive(r))
    BY <1>1 DEF QueueInv, IsLive
  <2>3. ToSet(Seqs(batch)) = {} /\ ToSet(Seqs(sent)) = {}
    BY <1>1, <1>2, NoGroups, EmptyList DEF PhaseOK
  <2>. QED
    BY <1>1, <1>3, <1>5, <1>6, <2>1, <2>2, <2>3
    DEF Place, WaitingPlace, RunningPlace, BatchPlace, TablePlace
<1>. QED
  BY <1>7, <1>8, <1>9, <1>10 DEF QueueInv

LEMMA PreemptQueues ==
  ASSUME QueueInv, Preempt
  PROVE  QueueInv'
<1>0. PICK v : v = Last(running)
  OBVIOUS
<1>1. /\ phase = "running" /\ phase' = phase /\ running # <<>> /\ call = Idle
      /\ running' = Front(running) /\ preempted' = Append(preempted, v)
      /\ status' = [status EXCEPT ![v] = "waiting"] /\ done' = [done EXCEPT ![v] = 0]
      /\ tables' = tables \ {v} /\ Freeing(v)'
      /\ UNCHANGED <<waiting, scheduled, batch, sent, now>>
  BY <1>0 DEF Preempt, FreeBegin, Freeing
<1>2. QueueTypeOK /\ NoRepetition /\ PhaseOK
  BY DEF QueueInv
<1>3. /\ v \in SeqId /\ v \in ToSet(running) /\ running' \in Seq(SeqId)
      /\ IsInjective(running') /\ ToSet(running') = ToSet(running) \ {v}
  BY <1>0, <1>1, <1>2, FrontList DEF QueueTypeOK, NoRepetition
<1>4. Place(v)
  BY <1>3 DEF QueueInv
<1>5. IsLive(v) /\ ~InScheduled(v) /\ ~Planned(v)
  BY <1>3, <1>4 DEF Place, RunningPlace
<1>6. v \notin ToSet(waiting) /\ v \notin ToSet(preempted)
  BY <1>4, <1>5 DEF Place, WaitingPlace, IsLive
<1>7. /\ preempted' \in Seq(SeqId) /\ ToSet(preempted') = ToSet(preempted) \cup {v}
      /\ IsInjective(preempted')
  BY <1>1, <1>2, <1>3, <1>6, AppendList DEF QueueTypeOK, NoRepetition
<1>8. QueueTypeOK'
  BY <1>1, <1>2, <1>3, <1>7 DEF QueueTypeOK, IsListOfActions
<1>9. NoRepetition'
  BY <1>1, <1>2, <1>3, <1>7 DEF NoRepetition
<1>10. PhaseOK'
  BY <1>1, <1>2 DEF PhaseOK
<1>11. ASSUME NEW r \in SeqId PROVE Place(r)'
  <2>1. ~Planned(r) /\ ~Planned(r)' /\ ~Allocating(r) /\ ~Allocating(r)'
    BY <1>1, OneCall, OneCallNext DEF Planned
  <2>2. status'[r] = IF r = v THEN "waiting" ELSE status[r]
    BY <1>1, <1>2 DEF QueueTypeOK
  <2>3. Place(r) /\ (InScheduled(r)' <=> InScheduled(r)) /\ (InOneList(r)' <=> InOneList(r))
    BY <1>1 DEF QueueInv, InScheduled, InOneList
  <2>4. ToSet(Seqs(batch)) = {} /\ ToSet(Seqs(sent)) = {}
    BY <1>1, <1>2, NoGroups, EmptyList DEF PhaseOK
  <2>. QED
    BY <1>1, <1>3, <1>5, <1>6, <1>7, <2>1, <2>2, <2>3, <2>4
    DEF Place, WaitingPlace, RunningPlace, BatchPlace, TablePlace, IsLive
<1>. QED
  BY <1>8, <1>9, <1>10, <1>11 DEF QueueInv

LEMMA StartPrefillQueues ==
  ASSUME QueueInv, StartPrefill
  PROVE  QueueInv'
<1>0. PICK s : s = Head(waiting)
  OBVIOUS
<1>1. /\ phase = "prefill" /\ phase' = "plan" /\ waiting # <<>> /\ call = Idle
      /\ status' = [status EXCEPT ![s] = "prefill"] /\ Allocating(s)'
      /\ UNCHANGED <<waiting, running, preempted, scheduled, batch, sent, done, now, tables>>
  BY <1>0 DEF StartPrefill, AllocateBegin, Allocating, managerVars
<1>2. QueueTypeOK /\ NoRepetition /\ PhaseOK
  BY DEF QueueInv
<1>3. s \in SeqId /\ s \in ToSet(waiting)
  BY <1>0, <1>1, <1>2, TailList DEF QueueTypeOK
<1>4. Place(s)
  BY <1>3 DEF QueueInv
<1>5. status[s] = "waiting" /\ s \notin ToSet(preempted)
  BY <1>1, <1>3, <1>4 DEF Place, WaitingPlace, Planned
<1>6. QueueTypeOK'
  BY <1>1, <1>2 DEF QueueTypeOK, IsListOfActions
<1>7. NoRepetition'
  BY <1>1, <1>2 DEF NoRepetition
<1>8. PhaseOK'
  BY <1>1, <1>2 DEF PhaseOK
<1>9. ASSUME NEW r \in SeqId PROVE Place(r)'
  <2>1. /\ ~Planned(r) /\ ~Allocating(r)
        /\ Planned(r)' <=> r = s
        /\ Allocating(r)' <=> r = s
    BY <1>0, <1>1, OneCall, OneCallNext DEF Planned
  <2>2. status'[r] = IF r = s THEN "prefill" ELSE status[r]
    BY <1>1, <1>2 DEF QueueTypeOK
  <2>3. Place(r) /\ (InScheduled(r)' <=> InScheduled(r)) /\ (InOneList(r)' <=> InOneList(r))
    BY <1>1 DEF QueueInv, InScheduled, InOneList
  <2>. QED
    BY <1>1, <1>3, <1>4, <1>5, <2>1, <2>2, <2>3
    DEF Place, WaitingPlace, RunningPlace, BatchPlace, TablePlace, IsLive
<1>. QED
  BY <1>6, <1>7, <1>8, <1>9 DEF QueueInv

(* What PlanPrefill decides for its request.                                *)
LiveFor(s) == Gdn!LiveKeys(BlockHashes(s), SeqLen(s), Len(ComputedPrefix(s)))
KeyFor(s) == Gdn!RestoreKey(index, LiveFor(s))
TargetsFor(s) ==
  Gdn!CaptureTargets(BlockHashes(s), SeqLen(s), LiveFor(s), Gdn!AfterRestore(index, KeyFor(s)))
ChunkFor(s) ==
  Gdn!FirstChunk(KeyFor(s), TargetsFor(s), SeqLen(s), NumNewTokens(s), Remaining, Budget)

LEMMA PlanPrefillQueues ==
  ASSUME QueueInv, PlanPrefill, ChunkFor(Head(waiting)).end \in Int
  PROVE  QueueInv'
<1>0. PICK s : s = Head(waiting)
  OBVIOUS
<1>1. /\ phase = "plan" /\ phase' = "prefill" /\ call = Idle
      /\ waiting' = Tail(waiting) /\ scheduled' = Scheduled(s, "new", ChunkFor(s).end)
      /\ UNCHANGED <<status, running, preempted, batch, sent, done, now, tables, call>>
  BY <1>0 DEF PlanPrefill, ChunkFor, TargetsFor, KeyFor, LiveFor
<1>2. QueueTypeOK /\ NoRepetition /\ PhaseOK /\ waiting # <<>>
  BY <1>1 DEF QueueInv, PhaseOK
<1>3. /\ s \in SeqId /\ s \in ToSet(waiting) /\ waiting' \in Seq(SeqId)
      /\ IsInjective(waiting') /\ ToSet(waiting') = ToSet(waiting) \ {s}
  BY <1>0, <1>1, <1>2, TailList DEF QueueTypeOK, NoRepetition
<1>4. Place(s) /\ Planned(s)
  BY <1>0, <1>1, <1>3 DEF QueueInv, Planned
<1>5. ~InScheduled(s) /\ s \notin ToSet(running) /\ IsLive(s)
  BY <1>3, <1>4 DEF Place, RunningPlace, TablePlace, IsLive
<1>6. /\ scheduled' \in [decode : Seq(Group), prefill : Seq(Group), new : Seq(Group)]
      /\ IsInjective(Seqs(scheduled'.decode)) /\ IsInjective(Seqs(scheduled'.prefill))
      /\ IsInjective(Seqs(scheduled'.new))
      /\ \A r \in SeqId : InScheduled(r)' <=> InScheduled(r) \/ r = s
      /\ \A r \in SeqId : InOneList(r) => InOneList(r)'
  BY <1>0, <1>1, <1>3, <1>5, GroupScheduled
<1>7. QueueTypeOK'
  BY <1>1, <1>2, <1>3, <1>6 DEF QueueTypeOK, IsListOfActions
<1>8. NoRepetition'
  BY <1>1, <1>2, <1>3, <1>6 DEF NoRepetition
<1>9. PhaseOK'
  BY <1>1, <1>2 DEF PhaseOK
<1>10. ASSUME NEW r \in SeqId PROVE Place(r)'
  <2>1. (Planned(r) <=> r = s) /\ ~Planned(r)' /\ ~Allocating(r) /\ ~Allocating(r)'
    BY <1>0, <1>1, OneCall, OneCallNext DEF Planned
  <2>2. Place(r) /\ (IsLive(r)' <=> IsLive(r))
    BY <1>1 DEF QueueInv, IsLive
  <2>3. ToSet(Seqs(batch)) = {} /\ ToSet(Seqs(sent)) = {}
    BY <1>1, <1>2, NoGroups, EmptyList DEF PhaseOK
  <2>. QED
    BY <1>1, <1>3, <1>4, <1>5, <1>6, <2>1, <2>2, <2>3
    DEF Place, WaitingPlace, RunningPlace, BatchPlace, TablePlace, IsLive
<1>. QED
  BY <1>7, <1>8, <1>9, <1>10 DEF QueueInv

LEMMA EndPrefillQueues ==
  ASSUME QueueInv, EndPrefill
  PROVE  QueueInv'
<1> DEFINE D == Seqs(scheduled.decode)
           F == Seqs(scheduled.prefill)
           N == Seqs(scheduled.new)
<1>1. /\ phase = "prefill" /\ phase' = "metadata" /\ call = Idle
      /\ waiting' = Reverse(preempted) \o waiting
      /\ running' = running \o D \o F \o N
      /\ batch' = scheduled.new \o scheduled.prefill \o scheduled.decode
      /\ scheduled' = NothingScheduled /\ preempted' = <<>>
      /\ UNCHANGED <<status, sent, done, now, tables, call>>
  BY DEF EndPrefill, blockVars, managerVars
<1>2. QueueTypeOK /\ NoRepetition /\ PhaseOK
  BY DEF QueueInv
<1>3. /\ waiting \in Seq(SeqId) /\ running \in Seq(SeqId) /\ preempted \in Seq(SeqId)
      /\ scheduled.decode \in Seq(Group) /\ scheduled.prefill \in Seq(Group)
      /\ scheduled.new \in Seq(Group)
      /\ D \in Seq(SeqId) /\ F \in Seq(SeqId) /\ N \in Seq(SeqId)
      /\ IsInjective(D) /\ IsInjective(F) /\ IsInjective(N)
      /\ IsInjective(waiting) /\ IsInjective(running) /\ IsInjective(preempted)
  BY <1>2, QueueFacts DEF NoRepetition
<1>4. \A r \in SeqId : InScheduled(r) <=> r \in ToSet(D) \/ r \in ToSet(F) \/ r \in ToSet(N)
  BY DEF InScheduled
<1>5. \A r \in SeqId : Place(r)
  BY DEF QueueInv
<1>6. \A r \in SeqId : /\ ~(r \in ToSet(running) /\ r \in ToSet(D))
                       /\ ~(r \in ToSet(running) /\ r \in ToSet(F))
                       /\ ~(r \in ToSet(running) /\ r \in ToSet(N))
                       /\ ~(r \in ToSet(D) /\ r \in ToSet(F))
                       /\ ~(r \in ToSet(D) /\ r \in ToSet(N))
                       /\ ~(r \in ToSet(F) /\ r \in ToSet(N))
                       /\ ~(r \in ToSet(waiting) /\ r \in ToSet(preempted))
  BY <1>4, <1>5 DEF Place, RunningPlace, WaitingPlace, InOneList
<1>7. batch' \in Seq(Group) /\ Seqs(batch') = N \o F \o D
  <2>1. \A g \in Group : g.seq \in SeqId
    BY DEF Group
  <2> DEFINE l == scheduled.new \o scheduled.prefill
  <2>2. l \in Seq(Group) /\ Seqs(l) = N \o F
    BY <1>3, <2>1, GroupList, ConcatProperties
  <2>3. batch' = l \o scheduled.decode
    BY <1>1
  <2> HIDE DEF l
  <2>4. batch' \in Seq(Group) /\ Seqs(batch') = Seqs(l) \o D
    <3>1. scheduled.decode \in Seq(Group)
      BY <1>3
    <3> DEFINE d == scheduled.decode
    <3> HIDE DEF d
    <3>2. d \in Seq(Group) /\ batch' = l \o d /\ D = Seqs(d)
      BY <2>3, <3>1 DEF d
    <3>3. l \o d \in Seq(Group)
      BY <2>2, <3>2
    <3>4. l \in Seq(Group) /\ d \in Seq(Group)
      BY <2>2, <3>2
    <3>5. Seqs(l \o d) = Seqs(l) \o Seqs(d)
      BY ONLY <2>1, <3>4, GroupList, ZenonT(60)
    <3>. QED
      BY <3>2, <3>3, <3>5
  <2>. QED
    BY <2>2, <2>4
<1> HIDE DEF D, F, N
<1>8. /\ ToSet(waiting) \subseteq SeqId /\ ToSet(running) \subseteq SeqId
      /\ ToSet(preempted) \subseteq SeqId
      /\ ToSet(D) \subseteq SeqId /\ ToSet(F) \subseteq SeqId /\ ToSet(N) \subseteq SeqId
  BY <1>3, Elements
<1>9. /\ waiting' \in Seq(SeqId) /\ IsInjective(waiting')
      /\ ToSet(waiting') = ToSet(preempted) \cup ToSet(waiting)
  <2>1. /\ Reverse(preempted) \in Seq(SeqId) /\ ToSet(Reverse(preempted)) = ToSet(preempted)
        /\ IsInjective(Reverse(preempted))
    BY <1>3, ReverseList
  <2>2. ToSet(Reverse(preempted)) \cap ToSet(waiting) = {}
    BY <1>6, <1>8, <2>1
  <2>. QED
    BY <1>1, <1>3, <2>1, <2>2, ConcatList
<1>10. /\ running' \in Seq(SeqId) /\ IsInjective(running')
       /\ ToSet(running') = ToSet(running) \cup ToSet(D) \cup ToSet(F) \cup ToSet(N)
  <2> DEFINE l == running \o D
             m == l \o F
  <2>0. ToSet(running) \cap ToSet(D) = {}
    BY <1>6, <1>8
  <2>1. /\ l \in Seq(SeqId) /\ IsInjective(l)
        /\ ToSet(l) = ToSet(running) \cup ToSet(D)
    BY <1>3, <2>0, ConcatList
  <2>2. running' = m \o N
    BY <1>1
  <2> HIDE DEF l
  <2>3. ToSet(l) \cap ToSet(F) = {}
    BY <1>6, <1>8, <2>1
  <2>4. m \in Seq(SeqId) /\ IsInjective(m) /\ ToSet(m) = ToSet(l) \cup ToSet(F)
    BY <1>3, <2>1, <2>3, ConcatList
  <2> HIDE DEF m
  <2>5. ToSet(m) \cap ToSet(N) = {}
    BY <1>6, <1>8, <2>1, <2>4
  <2>6. /\ running' \in Seq(SeqId) /\ IsInjective(running')
        /\ ToSet(running') = ToSet(m) \cup ToSet(N)
    BY <1>3, <2>2, <2>4, <2>5, ConcatList
  <2>. QED
    BY <2>1, <2>4, <2>6
<1>11. IsInjective(Seqs(batch')) /\ ToSet(Seqs(batch')) = ToSet(D) \cup ToSet(F) \cup ToSet(N)
  <2> DEFINE l == N \o F
  <2>0. ToSet(N) \cap ToSet(F) = {}
    BY <1>6, <1>8
  <2>1. l \in Seq(SeqId) /\ IsInjective(l) /\ ToSet(l) = ToSet(N) \cup ToSet(F)
    BY <1>3, <2>0, ConcatList
  <2>2. Seqs(batch') = l \o D
    BY <1>7
  <2> HIDE DEF l
  <2>3. ToSet(l) \cap ToSet(D) = {}
    BY <1>6, <1>8, <2>1
  <2>4. IsInjective(Seqs(batch')) /\ ToSet(Seqs(batch')) = ToSet(l) \cup ToSet(D)
    BY <1>3, <2>1, <2>2, <2>3, ConcatList
  <2>. QED
    BY <2>1, <2>4
<1>12. QueueTypeOK'
  BY <1>1, <1>2, <1>7, <1>9, <1>10, NoGroups DEF QueueTypeOK, IsListOfActions
<1>13. NoRepetition'
  <2>1. IsInjective(Seqs(NothingScheduled.decode)) /\ IsInjective(Seqs(NothingScheduled.prefill))
        /\ IsInjective(Seqs(NothingScheduled.new)) /\ IsInjective(<<>>)
    BY NoGroups, EmptyList
  <2>. QED
    BY <1>1, <1>2, <1>9, <1>10, <1>11, <2>1 DEF NoRepetition
<1>14. PhaseOK'
  BY <1>1, <1>2 DEF PhaseOK
<1>15. ASSUME NEW r \in SeqId PROVE Place(r)'
  <2>1. ~Planned(r) /\ ~Planned(r)' /\ ~Allocating(r) /\ ~Allocating(r)'
    BY <1>1, OneCall, OneCallNext DEF Planned
  <2>2. Place(r) /\ (IsLive(r)' <=> IsLive(r)) /\ status' = status /\ tables' = tables
    BY <1>1 DEF QueueInv, IsLive
  <2>3. ToSet(Seqs(sent)) = {} /\ sent' = sent /\ ToSet(preempted') = {}
    BY <1>1, <1>2, NoGroups, EmptyList DEF PhaseOK
  <2>4. ~InScheduled(r)' /\ InOneList(r)'
    BY <1>1, NoGroups, EmptyList DEF InScheduled, InOneList
  <2>5. WaitingPlace(r)'
    BY <1>9, <2>1, <2>2, <2>3 DEF Place, WaitingPlace
  <2>6. RunningPlace(r)'
    BY <1>4, <1>10, <2>1, <2>2, <2>4 DEF Place, RunningPlace
  <2>7. BatchPlace(r)'
    BY <1>10, <1>11, <2>3 DEF BatchPlace
  <2>8. TablePlace(r)'
    BY <2>1, <2>2 DEF Place, TablePlace
  <2>. QED
    BY <2>5, <2>6, <2>7, <2>8 DEF Place
<1>. QED
  BY <1>12, <1>13, <1>14, <1>15 DEF QueueInv

LEMMA MetadataQueues ==
  ASSUME QueueInv, tokens \in [SeqId -> Text], Metadata
  PROVE  QueueInv'
<1>0. PICK g : g = Head(batch)
  OBVIOUS
<1> DEFINE s == g.seq
           a == IF status[s] = "prefill" THEN PrefillActions(g) ELSE DecodeActions(g)
<1>1. /\ phase = "metadata" /\ phase' \in {"metadata", "dead"} /\ call = Idle /\ batch # <<>>
      /\ sent' = Append(sent, a) /\ batch' = Tail(batch)
      /\ UNCHANGED <<status, waiting, running, preempted, scheduled, done, now, tables, call>>
  BY <1>0 DEF Metadata, queueVars
<1>2. QueueTypeOK /\ NoRepetition /\ PhaseOK
  BY DEF QueueInv
<1>3. /\ batch \in Seq(Group) /\ g \in Group /\ s \in SeqId /\ batch' \in Seq(Group)
      /\ s \in ToSet(Seqs(batch)) /\ IsInjective(Seqs(batch'))
      /\ ToSet(Seqs(batch')) = ToSet(Seqs(batch)) \ {s}
  <2>1. \A h \in Group : h.seq \in SeqId
    BY DEF Group
  <2>2. /\ batch \in Seq(Group) /\ Seqs(batch) \in Seq(SeqId) /\ IsInjective(Seqs(batch))
    BY <1>2, QueueFacts DEF NoRepetition
  <2>3. /\ g \in Group /\ s = Head(Seqs(batch)) /\ Seqs(batch) # <<>>
        /\ batch' \in Seq(Group) /\ Seqs(batch') = Tail(Seqs(batch))
    BY <1>0, <1>1, <2>1, <2>2, GroupList
  <2>. QED
    BY <2>1, <2>2, <2>3, TailList
<1>4. a.seq = s /\ a.end \in Int
  <2>1. done[s] \in Int /\ g.chunk \in Int /\ Len(tokens[s]) \in Int
    BY <1>2, <1>3, TextFacts DEF QueueTypeOK, Group
  <2>2. StepEnd(g) \in Int
    BY <2>1 DEF StepEnd, Gdn!Least, SeqLen
  <2>3. PrefillActions(g).seq = s /\ PrefillActions(g).end = StepEnd(g)
    BY DEF PrefillActions
  <2>4. DecodeActions(g).seq = s /\ DecodeActions(g).end = done[s] + 1
    BY DEF DecodeActions
  <2>. QED
    BY <2>1, <2>2, <2>3, <2>4
<1> HIDE DEF a
<1>5. Place(s)
  BY <1>3 DEF QueueInv
<1>6. s \in ToSet(running) /\ s \notin ToSet(Seqs(sent))
  BY <1>3, <1>5 DEF Place, BatchPlace
<1>7. /\ IsListOfActions(sent') /\ IsInjective(Seqs(sent'))
      /\ ToSet(Seqs(sent')) = ToSet(Seqs(sent)) \cup {s}
  <2>1. IsListOfActions(sent') /\ Seqs(sent') = Append(Seqs(sent), s)
    BY <1>1, <1>3, <1>4, SentAppend
  <2>2. Seqs(sent) \in Seq(SeqId) /\ IsInjective(Seqs(sent))
    BY <1>2, QueueFacts DEF NoRepetition
  <2>. QED
    BY <1>3, <1>6, <2>1, <2>2, AppendList
<1> HIDE DEF s
<1>8. QueueTypeOK'
  BY <1>1, <1>2, <1>3, <1>7 DEF QueueTypeOK
<1>9. NoRepetition'
  BY <1>1, <1>2, <1>3, <1>7 DEF NoRepetition
<1>10. PhaseOK'
  BY <1>1, <1>2 DEF PhaseOK
<1>11. ASSUME NEW r \in SeqId PROVE Place(r)'
  <2>1. ~Planned(r) /\ ~Planned(r)' /\ ~Allocating(r) /\ ~Allocating(r)'
    BY <1>1, OneCall, OneCallNext DEF Planned
  <2>2. Place(r) /\ (IsLive(r)' <=> IsLive(r))
    BY <1>1 DEF QueueInv, IsLive
  <2>3. (InScheduled(r)' <=> InScheduled(r)) /\ (InOneList(r)' <=> InOneList(r))
    BY <1>1 DEF InScheduled, InOneList
  <2>. QED
    BY <1>1, <1>3, <1>6, <1>7, <2>1, <2>2, <2>3
    DEF Place, WaitingPlace, RunningPlace, BatchPlace, TablePlace
<1>. QED
  BY <1>8, <1>9, <1>10, <1>11 DEF QueueInv

------------------------
(* The budget of a step.  Keys are prefixes of whole blocks.                *)
LEMMA Division ==
  ASSUME NEW n \in Int, NEW M \in Nat \ {0}
  PROVE  /\ n \div M \in Int /\ (n \div M) * M \in Int
         /\ (n \div M) * M <= n /\ n < ((n \div M) * M) + M
         /\ n \in Nat => n \div M \in Nat
<1>1. n \div M \in Int /\ (n \in Nat => n \div M \in Nat)
  BY SMT
<1>2. (n \div M) * M \in Int
  BY <1>1, SMT
<1>3. (n \div M) * M <= n /\ n < ((n \div M) * M) + M
  BY SMT
<1>. QED
  BY <1>1, <1>2, <1>3

LEMMA Boundaries ==
  ASSUME NEW h \in Hash
  PROVE  Depth[h] \in Nat /\ Depth[h] <= MaxBlocks /\ Gdn!Boundary(h) \in Nat
<1>0. BlockSize \in Nat \ {0} /\ MaxBlocks \in Nat
  BY BlockSizeAssumption, MaxBlocksAssumption
<1>1. h \in Text /\ Depth[h] = Len(h) \div BlockSize
  BY HashAssumption
<1>2. Len(h) \in Nat /\ Len(h) <= MaxBlocks * BlockSize
  BY <1>1, TextFacts
<1> DEFINE d == Len(h) \div BlockSize
           p == d * BlockSize
           q == MaxBlocks * BlockSize
<1>3. d \in Nat /\ p <= Len(h)
  BY <1>0, <1>2, Division
<1>4. p \in Nat /\ q \in Nat /\ (MaxBlocks < d => q + BlockSize <= p)
  <2> HIDE DEF d
  <2>. QED
    BY <1>0, <1>3, BlockMultiples
<1>5. Gdn!Boundary(h) = p
  BY <1>1 DEF Gdn!Boundary
<1> HIDE DEF d, p, q
<1>6. d <= MaxBlocks
  BY <1>0, <1>2, <1>3, <1>4 DEF q
<1>. QED
  BY <1>1, <1>3, <1>4, <1>5, <1>6 DEF d

LEMMA SmallestNumber ==
  ASSUME NEW S \in SUBSET Nat, S # {}
  PROVE  \E e \in S : \A f \in S : e <= f
<1>1. PICK e \in S : \A f \in S : <<f, e>> \notin OpToRel(<, Nat)
  BY WFMin, NatLessThanWellFounded
<1>2. ASSUME NEW f \in S PROVE e <= f
  <2>1. f < e => <<f, e>> \in OpToRel(<, Nat)
    BY DEF OpToRel
  <2>2. ~(f < e)
    BY <2>1, <1>1, Zenon
  <2>. QED
    BY <2>2
<1>. QED
  BY <1>2

(* A step that is capped at a checkpoint to take does not grow and does not    *)
(* vanish.                                                                 *)
LEMMA Capping ==
  ASSUME NEW T \in SUBSET Hash, NEW start \in Int, NEW end \in Int
  PROVE  LET e == Gdn!CappedEnd(start, end, T)
         IN  /\ e \in Int /\ e <= end /\ (start < end => start < e)
             /\ start = end => e = end
<1>1. CASE Policy # "admission64"
  BY <1>1 DEF Gdn!CappedEnd
<1>2. CASE Policy = "admission64"
  <2> DEFINE ends == {end} \cup {Gdn!Boundary(k) : k \in {t \in T :
                               start < Gdn!Boundary(t) /\ Gdn!Boundary(t) < end}}
             e == CHOOSE x \in ends : \A f \in ends : x <= f
  <2>1. Gdn!CappedEnd(start, end, T) = e
    BY <1>2 DEF Gdn!CappedEnd, Gdn!CapPrefillEnd
  <2>2. \A t \in T : Gdn!Boundary(t) \in Nat
    BY Boundaries
  <2>3. ends \in SUBSET Int /\ end \in ends /\ \A f \in ends : f = end \/ (start < f /\ f < end)
    BY <2>2
  <2>4. \E x \in ends : \A f \in ends : x <= f
    <3>1. CASE end \in Nat
      <4>1. ends \in SUBSET Nat
        BY <2>2, <3>1
      <4> HIDE DEF ends
      <4>. QED
        BY <2>3, <4>1, SmallestNumber
    <3>2. CASE end < 0
      <4>1. ASSUME NEW f \in ends PROVE f = end
        BY <2>2, <3>2
      <4> HIDE DEF ends
      <4>. QED
        BY <2>3, <4>1
    <3>. QED
      BY <3>1, <3>2
  <2> HIDE DEF ends
  <2>5. e \in ends /\ \A f \in ends : e <= f
    BY <2>4
  <2> HIDE DEF e
  <2>. QED
    BY <2>1, <2>3, <2>5
<1>. QED
  BY <1>1, <1>2

LEMMA DeepestKey ==
  ASSUME NEW K \in SUBSET Hash
  PROVE  Gdn!Deepest(K) \in K \cup {NoKey}
<1>1. CASE K = {}
  BY <1>1 DEF Gdn!Deepest
<1>2. CASE K # {}
  <2> DEFINE S == {MaxBlocks - Depth[k] : k \in K}
  <2>0. MaxBlocks \in Nat
    BY MaxBlocksAssumption
  <2>1. \A k \in K : Depth[k] \in Nat /\ Depth[k] <= MaxBlocks
    BY Boundaries
  <2>2. S \in SUBSET Nat /\ S # {}
    BY <1>2, <2>0, <2>1
  <2>3. PICK e \in S : \A f \in S : e <= f
    <3> HIDE DEF S
    <3>. QED
      BY <2>2, SmallestNumber
  <2>4. PICK k \in K : e = MaxBlocks - Depth[k]
    OBVIOUS
  <2>5. ASSUME NEW l \in K PROVE Depth[l] <= Depth[k]
    <3>1. MaxBlocks - Depth[l] \in S
      OBVIOUS
    <3>2. MaxBlocks - Depth[k] <= MaxBlocks - Depth[l]
      BY <2>3, <2>4, <3>1
    <3>. QED
      BY <2>0, <2>1, <3>2
  <2>. QED
    BY <1>2, <2>5 DEF Gdn!Deepest
<1>. QED
  BY <1>1, <1>2

LEMMA Hashes ==
  ASSUME tokens \in [SeqId -> Text], NEW s \in SeqId
  PROVE  /\ SeqLen(s) \in Nat /\ Len(BlockHashes(s)) \in Nat
         /\ \A k \in 1..Len(BlockHashes(s)) : BlockHashes(s)[k] \in Hash
<1>0. BlockSize \in Nat \ {0}
  BY BlockSizeAssumption
<1>1. SeqLen(s) \in Nat
  BY TextFacts DEF SeqLen
<1> DEFINE n == SeqLen(s) \div BlockSize
<1>2. n \in Nat /\ n * BlockSize \in Int /\ n * BlockSize <= SeqLen(s)
  BY <1>0, <1>1, Division
<1>3. BlockHashes(s) = [k \in 1..n |-> HashAt(s, k)]
  BY DEF BlockHashes
<1> HIDE DEF n
<1>4. ASSUME NEW k \in 1..n PROVE HashAt(s, k) \in Hash
  <2>1. k \in Nat \ {0} /\ k * BlockSize <= n * BlockSize /\ k * BlockSize \in Nat
    BY <1>2, BlockMultiples
  <2> DEFINE p == k * BlockSize
             q == n * BlockSize
  <2> HIDE DEF p, q
  <2>2. p <= SeqLen(s)
    BY <1>1, <1>2, <2>1 DEF p, q
  <2>. QED
    BY <2>1, <2>2, HashOfPrefix DEF p, SeqLen
<1>5. Len(BlockHashes(s)) = n /\ \A k \in 1..n : BlockHashes(s)[k] = HashAt(s, k)
  BY <1>2, <1>3
<1>. QED
  BY <1>1, <1>2, <1>4, <1>5

LEMMA FinalKey ==
  ASSUME NEW H, NEW n \in Int, NEW mode, Len(H) \in Nat, \A k \in 1..Len(H) : H[k] \in Hash
  PROVE  Gdn!FinalCaptureKey(H, n, mode) \in Hash \cup {NoKey}
<1>0. BlockSize \in Nat \ {0} /\ ReplayAlignment \in Nat \ {0}
  BY BlockSizeAssumption, KeysAssumption
<1> DEFINE strict == Gdn!Least(Len(H), Gdn!StrictPrefixBlockCount(n))
           direct == IF strict > 0 /\ n - strict * BlockSize < Gdn!MinReplayTokens
                       THEN strict - 1 ELSE strict
           chunks == ((n - 1) \div ReplayAlignment) * (ReplayAlignment \div BlockSize)
           aligned == Gdn!Least(Len(H), chunks)
           count == IF mode \in {"direct", "hybrid64"} THEN direct
                    ELSE IF n <= 1 THEN 0 ELSE aligned
<1>1. Gdn!FinalCaptureKey(H, n, mode) = IF count = 0 THEN NoKey ELSE H[count]
  BY DEF Gdn!FinalCaptureKey
<1>2. Gdn!StrictPrefixBlockCount(n) \in Nat
  <2>1. n > 1 => (n - 1) \div BlockSize \in Nat
    BY <1>0, Division
  <2>. QED
    BY <2>1 DEF Gdn!StrictPrefixBlockCount
<1>3. strict \in 0..Len(H)
  BY <1>2 DEF Gdn!Least
<1>4. direct \in 0..Len(H)
  <2> HIDE DEF strict
  <2>1. direct = strict \/ (strict > 0 /\ direct = strict - 1)
    OBVIOUS
  <2> HIDE DEF direct
  <2>. QED
    BY <1>3, <2>1
<1>5. n > 1 => chunks \in Nat
  <2>1. ReplayAlignment \div BlockSize \in Nat
    BY <1>0, Division
  <2>2. n > 1 => (n - 1) \div ReplayAlignment \in Nat
    BY <1>0, Division
  <2>3. \A a, b \in Nat : a * b \in Nat
    BY SMT
  <2>. QED
    BY <2>1, <2>2, <2>3
<1> HIDE DEF chunks
<1>6. n > 1 => aligned \in 0..Len(H)
  BY <1>5 DEF Gdn!Least
<1> HIDE DEF direct, aligned
<1>7. count \in 0..Len(H)
  BY <1>4, <1>6
<1> HIDE DEF count
<1>. QED
  BY <1>1, <1>7

LEMMA PlannedKeys ==
  ASSUME tokens \in [SeqId -> Text], NEW s \in SeqId
  PROVE  KeyFor(s) \in Hash \cup {NoKey} /\ TargetsFor(s) \in SUBSET Hash
<1> DEFINE H == BlockHashes(s)
           n == SeqLen(s)
<1>1. n \in Nat /\ Len(H) \in Nat /\ \A k \in 1..Len(H) : H[k] \in Hash
  BY Hashes
<1>2. LiveFor(s) \in SUBSET Hash
  <2> DEFINE c == Gdn!StrictPrefixBlockCount(n)
             d == Gdn!Least(Len(ComputedPrefix(s)), Gdn!Least(Len(H), c))
  <2>1. c \in Nat
    <3>1. BlockSize \in Nat \ {0}
      BY BlockSizeAssumption
    <3>2. n > 1 => (n - 1) \div BlockSize \in Nat
      BY <1>1, <3>1, Division
    <3>. QED
      BY <1>1, <3>2 DEF Gdn!StrictPrefixBlockCount
  <2> HIDE DEF c, H, n
  <2>2. Gdn!Least(Len(H), c) \in Nat /\ Gdn!Least(Len(H), c) <= Len(H)
    BY <1>1, <2>1 DEF Gdn!Least
  <2>3. \A i \in 1..d : i \in 1..Len(H)
    <3> DEFINE m == Gdn!Least(Len(H), c)
    <3>1. m \in Nat /\ m <= Len(H)
      BY <2>2
    <3> HIDE DEF m
    <3>2. d = m \/ (d = Len(ComputedPrefix(s)) /\ d < m)
      BY DEF Gdn!Least, m
    <3> HIDE DEF d
    <3>. QED
      BY <1>1, <3>1, <3>2
  <2> HIDE DEF d
  <2>4. \A h \in LiveFor(s) : \E i \in 1..d : h = H[i]
    BY DEF LiveFor, Gdn!LiveKeys, d, c, H, n
  <2>. QED
    BY <1>1, <2>3, <2>4
<1>3. KeyFor(s) \in Hash \cup {NoKey}
  <2>1. LiveFor(s) \cap Gdn!Resident(index) \in SUBSET Hash
    BY <1>2
  <2>. QED
    BY <2>1, DeepestKey DEF KeyFor, Gdn!RestoreKey
<1>4. TargetsFor(s) \in SUBSET Hash
  <2> DEFINE i == Gdn!AfterRestore(index, KeyFor(s))
             f == Gdn!FinalCaptureKey(H, n, RestoreMode)
             b == Gdn!RepeatedBranch(i, LiveFor(s))
  <2>1. f \in Hash \cup {NoKey}
    BY <1>1, FinalKey
  <2>2. Gdn!Deepest(LiveFor(s)) \in Hash \cup {NoKey}
    BY <1>2, DeepestKey
  <2>3. b \in Hash \cup {NoKey}
    BY <2>2 DEF Gdn!RepeatedBranch
  <2>4. TargetsFor(s) \subseteq ({b} \cup {f}) \ {NoKey}
    BY DEF TargetsFor, Gdn!CaptureTargets
  <2> HIDE DEF b, f
  <2>. QED
    BY <2>1, <2>3, <2>4
<1>. QED
  BY <1>3, <1>4

(* What is left of the budget bounds the tokens of the next group.           *)
LEMMA NewTokens ==
  ASSUME tokens \in [SeqId -> Text], done \in [SeqId -> Int], spent \in Int, NEW s \in SeqId
  PROVE  /\ Remaining \in Int
         /\ NumNewTokens(s) \in Int /\ NumNewTokens(s) <= Remaining
<1>0. BlockSize \in Nat \ {0} /\ Budget \in Nat
  BY BlockSizeAssumption, BudgetAssumption
<1>1. Remaining \in Int
  BY <1>0 DEF Remaining
<1> DEFINE w == IF status[s] = "decode" THEN 1 ELSE SeqLen(s) - done[s]
           r == (Remaining \div BlockSize) * BlockSize
<1>2. w \in Int
  BY TextFacts DEF SeqLen
<1>3. r \in Int /\ r <= Remaining
  BY <1>0, <1>1, Division
<1>4. NumNewTokens(s) = IF Remaining < w THEN r ELSE w
  BY DEF NumNewTokens
<1> HIDE DEF w, r
<1>. QED
  BY <1>1, <1>2, <1>3, <1>4

BudgetInv ==
  /\ targets \in [SeqId -> SUBSET Hash]
  /\ spent \in Int /\ spent <= Budget

LEMMA RunningChunks ==
  ASSUME QueueTypeOK, BudgetInv, tokens \in [SeqId -> Text], NEW s \in SeqId, NumNewTokens(s) > 0
  PROVE  RunningChunk(s) \in Int /\ RunningChunk(s) > 0 /\ RunningChunk(s) <= Remaining
<1>1. /\ done \in [SeqId -> Int] /\ spent \in Int /\ targets[s] \in SUBSET Hash
      /\ done[s] \in Int
  BY DEF QueueTypeOK, BudgetInv
<1>2. Remaining \in Int /\ NumNewTokens(s) \in Int /\ NumNewTokens(s) <= Remaining
  BY <1>1, NewTokens
<1>3. CASE status[s] = "decode"
  BY <1>2, <1>3 DEF RunningChunk
<1>4. CASE status[s] # "decode"
  <2> DEFINE e == Gdn!CappedEnd(done[s], done[s] + NumNewTokens(s), targets[s])
  <2>1. RunningChunk(s) = e - done[s]
    BY <1>4 DEF RunningChunk
  <2>2. done[s] + NumNewTokens(s) \in Int /\ done[s] < done[s] + NumNewTokens(s)
    BY <1>1, <1>2
  <2>3. e \in Int /\ e <= done[s] + NumNewTokens(s) /\ done[s] < e
    BY <1>1, <2>2, Capping
  <2> HIDE DEF e
  <2>. QED
    BY <1>1, <1>2, <2>1, <2>3
<1>. QED
  BY <1>3, <1>4

LEMMA FirstChunks ==
  ASSUME NEW key \in Hash \cup {NoKey}, NEW T \in SUBSET Hash, NEW n \in Nat,
         NEW nominal \in Int, NEW budget \in Int, nominal <= budget
  PROVE  LET c == Gdn!FirstChunk(key, T, n, nominal, budget, Budget)
         IN  /\ c.end \in Int /\ c.physical \in Int /\ c.physical <= budget
             /\ nominal > 0 => c.end > 0
<1>0. Budget \in Nat \ {0}
  BY BudgetAssumption
<1> DEFINE plan == IF key = NoKey THEN <<nominal, nominal>>
                   ELSE Gdn!FastForward(key, n, nominal, budget, Budget)
           start == plan[1] - plan[2]
           e == Gdn!CappedEnd(start, plan[1], T)
<1>1. /\ Gdn!FirstChunk(key, T, n, nominal, budget, Budget).end = e
      /\ Gdn!FirstChunk(key, T, n, nominal, budget, Budget).physical = e - start
  BY DEF Gdn!FirstChunk
<1>2. /\ plan[1] \in Int /\ plan[2] \in Int /\ plan[2] <= budget
      /\ nominal > 0 => 0 <= plan[1] - plan[2] /\ plan[1] - plan[2] < plan[1]
  <2>1. CASE key = NoKey
    BY <2>1
  <2>2. CASE key # NoKey
    <3> DEFINE c == Gdn!Boundary(key)
               m == (c \div Budget + 1) * Budget
               x == IF RestoreMode = "hybrid64" THEN Gdn!Least(c + budget, m) ELSE c + budget
               l == Gdn!Least(n, x)
               p == l - c
               back == \/ p <= 0
                       \/ p > budget
                       \/ /\ l <= nominal
                          /\ RestoreMode # "hybrid64" \/ p >= nominal
    <3>1. plan = IF back THEN <<nominal, nominal>> ELSE <<l, p>>
      BY <2>2 DEF Gdn!FastForward
    <3>2. c \in Nat
      BY <2>2, Boundaries
    <3>3. m \in Int
      <4>1. c \div Budget \in Int
        BY <1>0, <3>2, Division
      <4>2. \A a \in Int : (a + 1) * Budget \in Int
        BY <1>0, SMT
      <4>. QED
        BY <4>1, <4>2
    <3> HIDE DEF c, m
    <3>4. x \in Int
      BY <3>2, <3>3 DEF Gdn!Least
    <3> HIDE DEF x
    <3>5. l \in Int
      BY <3>4 DEF Gdn!Least
    <3> HIDE DEF l
    <3>6. p \in Int /\ (~back => p <= budget) /\ l - p = c /\ (~back => p > 0)
      BY <3>2, <3>5
    <3> HIDE DEF p, back
    <3>. QED
      BY <3>1, <3>2, <3>5, <3>6
  <2>. QED
    BY <2>1, <2>2
<1> HIDE DEF plan
<1>3. start \in Int
  BY <1>2
<1>4. e \in Int /\ e <= plan[1] /\ (nominal > 0 => e > 0)
  <2>1. nominal > 0 => 0 <= start /\ start < plan[1]
    BY <1>2
  <2> HIDE DEF start
  <2>2. /\ e \in Int /\ e <= plan[1] /\ (start < plan[1] => start < e)
        /\ start = plan[1] => e = plan[1]
    BY <1>2, <1>3, Capping
  <2> HIDE DEF e
  <2>. QED
    BY <1>2, <1>3, <2>1, <2>2
<1> HIDE DEF e
<1>5. e - start <= budget /\ e - start \in Int
  BY <1>2, <1>4
<1>. QED
  BY <1>1, <1>4, <1>5

LEMMA PlannedChunk ==
  ASSUME QueueTypeOK, BudgetInv, tokens \in [SeqId -> Text], NEW s \in SeqId
  PROVE  /\ ChunkFor(s).end \in Int /\ ChunkFor(s).physical \in Int
         /\ ChunkFor(s).physical <= Remaining
         /\ NumNewTokens(s) > 0 => ChunkFor(s).end > 0
<1>1. done \in [SeqId -> Int] /\ spent \in Int
  BY DEF QueueTypeOK, BudgetInv
<1>2. Remaining \in Int /\ NumNewTokens(s) \in Int /\ NumNewTokens(s) <= Remaining
  BY <1>1, NewTokens
<1>3. KeyFor(s) \in Hash \cup {NoKey} /\ TargetsFor(s) \in SUBSET Hash /\ SeqLen(s) \in Nat
  BY PlannedKeys, Hashes
<1>. QED
  BY <1>2, <1>3, FirstChunks DEF ChunkFor

(* No step spends more than is left.                                        *)
LEMMA BudgetKept ==
  ASSUME ManagerInv, QueueInv, BudgetInv, Next
  PROVE  BudgetInv'
<1>0. Budget \in Nat /\ tokens \in [SeqId -> Text] /\ QueueTypeOK /\ spent \in Int /\ spent <= Budget
      /\ targets \in [SeqId -> SUBSET Hash]
  BY BudgetAssumption DEF ManagerInv, ManagerTypeOK, QueueInv, BudgetInv
<1>1. CASE UNCHANGED <<spent, targets>>
  BY <1>1 DEF BudgetInv
<1>2. CASE StartStep
  BY <1>0, <1>2 DEF BudgetInv, StartStep, gdnVars
<1>3. CASE ScheduleRunning
  <2>1. PICK s : s = Head(running)
    OBVIOUS
  <2>2. /\ running # <<>> /\ NumNewTokens(s) > 0 /\ spent' = spent + RunningChunk(s)
        /\ targets' = targets
    BY <1>3, <2>1 DEF ScheduleRunning, gdnVars
  <2>3. s \in SeqId
    BY <1>0, <2>1, <2>2, TailList DEF QueueTypeOK
  <2>4. RunningChunk(s) \in Int /\ RunningChunk(s) <= Budget - spent
    BY <1>0, <2>2, <2>3, RunningChunks DEF Remaining
  <2>. QED
    BY <1>0, <2>2, <2>4 DEF BudgetInv
<1>4. CASE PlanPrefill
  <2>1. PICK s : s = Head(waiting)
    OBVIOUS
  <2>2. /\ phase = "plan" /\ spent' = spent + ChunkFor(s).physical
        /\ targets' = [targets EXCEPT ![s] = TargetsFor(s)]
    BY <1>4, <2>1 DEF PlanPrefill, ChunkFor, TargetsFor, KeyFor, LiveFor
  <2>3. s \in SeqId
    BY <2>1, <2>2, TailList DEF QueueInv, QueueTypeOK, PhaseOK
  <2>4. /\ ChunkFor(s).physical \in Int /\ ChunkFor(s).physical <= Budget - spent
        /\ TargetsFor(s) \in SUBSET Hash
    BY <1>0, <2>3, PlannedChunk, PlannedKeys DEF Remaining
  <2>5. spent' \in Int /\ spent' <= Budget
    <3>1. PICK c \in Int : c = ChunkFor(s).physical
      BY <2>4
    <3>. QED
      BY <1>0, <2>2, <2>4, <3>1
  <2>6. targets' \in [SeqId -> SUBSET Hash]
    <3>1. PICK T \in SUBSET Hash : T = TargetsFor(s)
      BY <2>4
    <3>2. targets' = [targets EXCEPT ![s] = T]
      BY <2>2, <3>1
    <3>. QED
      BY <1>0, <3>2
  <2>. QED
    BY <2>5, <2>6 DEF BudgetInv
<1>5. CASE Metadata
  <2>1. \E s : \/ targets' = [targets EXCEPT ![s] = {}]
               \/ targets' = [targets EXCEPT ![s] = @]
    BY <1>5 DEF Metadata
  <2>2. spent' = spent /\ targets' \in [SeqId -> SUBSET Hash]
    BY <1>0, <1>5, <2>1 DEF Metadata
  <2>. QED
    BY <1>0, <2>2 DEF BudgetInv
<1>6. ASSUME NEW s \in SeqId, AddRequest(s) PROVE BudgetInv'
  BY <1>0, <1>6 DEF AddRequest, BudgetInv
<1>7. ASSUME \/ ManagerStep \/ \E s \in SeqId : Abort(s)
             \/ Preempt \/ EndRunning \/ IgnorePrompt \/ StartPrefill \/ EndPrefill
             \/ EndMetadata \/ Execute \/ ChunkDone \/ Sample \/ Finish \/ EndStep
      PROVE  UNCHANGED <<spent, targets>>
  BY <1>7 DEF ManagerStep, Abort, Preempt, EndRunning, IgnorePrompt, StartPrefill, EndPrefill,
     EndMetadata, Execute, ChunkDone, Sample, Finish, EndStep, Progress, engineVars, gdnVars
<1>. QED
  BY <1>1, <1>2, <1>3, <1>4, <1>5, <1>6, <1>7 DEF Next

------------------------
(* The block manager in the engine: the steps it does not see, ...            *)
LEMMA ManagerSameTokens ==
  ASSUME ManagerInv, call = Idle, UNCHANGED <<allocVars, tables, full_slots, call, tokens>>,
         last_access' \in [SeqId -> Int]
  PROVE  ManagerInv'
<1>1. tokens' \in [SeqId -> Text]
  BY DEF ManagerInv, ManagerTypeOK
<1>2. \A s \in tables : Len(tokens[s]) \in Nat
  BY TextFacts DEF ManagerInv, ManagerTypeOK
<1>3. \A s \in tables : Len(tokens[s]) <= Len(tokens'[s])
  BY <1>2
<1>. QED
  BY <1>1, <1>3, ManagerIdle

LEMMA ManagerMarks ==
  ASSUME ManagerInv, call = Idle, MarkComputed,
         UNCHANGED <<tables, full_slots, last_access, call, tokens>>
  PROVE  ManagerInv'
<1>1. AllocInv'
  BY MarksInv DEF ManagerInv
<1>2. block_id' = block_id
  BY DEF MarkComputed
<1>3. ManagerTypeOK'
  BY DEF ManagerInv, ManagerTypeOK
<1>4. ASSUME NEW s \in SeqId PROVE SeqOK(s)'
  <2>1. BlocksOf(s)' = BlocksOf(s)
    BY <1>2 DEF BlocksOf, Allocated
  <2>2. ~Busy(s) /\ ~Busy(s)' /\ ~Allocating(s)'
    BY OneCall, OneCallNext DEF Busy
  <2>3. SeqOK(s)
    BY DEF ManagerInv
  <2>. QED
    BY <2>1, <2>2, <2>3 DEF SeqOK, TableOK, NoTableOK, AllocatingOK
<1>. QED
  BY <1>1, <1>3, <1>4 DEF ManagerInv

(* ... those that change the tokens of a request without a table, ...         *)
LEMMA ManagerNewTokens ==
  ASSUME ManagerInv, QueueInv, call = Idle, NEW s \in SeqId, ~IsLive(s), NEW t \in Text,
         tokens' = [tokens EXCEPT ![s] = t],
         UNCHANGED <<allocVars, tables, full_slots, last_access, call>>
  PROVE  ManagerInv'
<1>0. tokens \in [SeqId -> Text] /\ tables \subseteq SeqId
  BY DEF ManagerInv, ManagerTypeOK
<1>1. tokens' \in [SeqId -> Text] /\ last_access' \in [SeqId -> Int]
  BY DEF ManagerInv, ManagerTypeOK
<1>2. s \notin tables
  BY DEF QueueInv, Place, TablePlace
<1>3. ASSUME NEW r \in tables PROVE Len(tokens[r]) <= Len(tokens'[r])
  <2>1. tokens'[r] = tokens[r] /\ Len(tokens[r]) \in Nat
    BY <1>0, <1>2, TextFacts
  <2>. QED
    BY <2>1
<1>. QED
  BY <1>1, <1>3, ManagerIdle

(* ... and those that call it.                                              *)
LEMMA ManagerFrees ==
  ASSUME ManagerInv, NEW s \in SeqId, FreeBegin(s),
         UNCHANGED tokens \/ tokens' = [tokens EXCEPT ![s] = <<>>]
  PROVE  ManagerInv'
<1>1. tokens \in [SeqId -> Text] /\ <<>> \in Text
  BY TextAssumption DEF ManagerInv, ManagerTypeOK
<1>2. tokens' \in [SeqId -> Text] /\ \A r \in SeqId : r # s => tokens'[r] = tokens[r]
  BY <1>1
<1>. QED
  BY <1>2, FreeBeginKeeps

LEMMA ManagerKept ==
  ASSUME ManagerInv, QueueInv, Next
  PROVE  ManagerInv'
<1>0. /\ tokens \in [SeqId -> Text] /\ <<>> \in Text /\ last_access \in [SeqId -> Int]
      /\ QueueTypeOK /\ PhaseOK
  BY TextAssumption DEF ManagerInv, ManagerTypeOK, QueueInv
<1>1. CASE ManagerStep
  BY <1>1, CallStepKeeps DEF ManagerStep
<1>2. ASSUME NEW s \in SeqId, AddRequest(s) PROVE ManagerInv'
  <2>1. PICK t \in Prompts : tokens' = [tokens EXCEPT ![s] = t]
    BY <1>2 DEF AddRequest
  <2>2. t \in Text
    BY PromptsAssumption
  <2>3. /\ call = Idle /\ ~IsLive(s)
        /\ UNCHANGED <<allocVars, tables, full_slots, last_access, call>>
    BY <1>2 DEF AddRequest, IsLive, blockVars, managerVars
  <2>. QED
    BY <2>1, <2>2, <2>3, ManagerNewTokens
<1>3. ASSUME NEW s \in SeqId, Abort(s) PROVE ManagerInv'
  <2>1. call = Idle /\ FreeSeq(s) /\ tokens' = [tokens EXCEPT ![s] = <<>>]
    BY <1>3 DEF Abort
  <2>2. CASE s \in tables
    <3>1. FreeBegin(s)
      BY <2>1, <2>2 DEF FreeSeq
    <3>. QED
      BY <2>1, <3>1, ManagerFrees
  <2>3. CASE s \notin tables
    <3>1. UNCHANGED <<allocVars, tables, full_slots, last_access, call>>
      BY <2>1, <2>3 DEF FreeSeq, blockVars, managerVars
    <3>2. ~IsLive(s)
      BY <2>1, <2>3, OneCall DEF QueueInv, Place, TablePlace
    <3>. QED
      BY <1>0, <2>1, <3>1, <3>2, ManagerNewTokens
  <2>. QED
    BY <2>2, <2>3
<1>4. CASE StartStep \/ EndRunning \/ EndPrefill \/ Execute \/ ChunkDone \/ EndStep \/ PlanPrefill
  <2>1. call = Idle /\ UNCHANGED <<allocVars, tables, full_slots, last_access, call, tokens>>
    BY <1>4 DEF StartStep, EndRunning, EndPrefill, Execute, ChunkDone, Progress, EndStep,
       PlanPrefill, blockVars, managerVars
  <2>. QED
    BY <1>0, <2>1, ManagerSameTokens
<1>5. CASE Metadata
  <2>1. /\ call = Idle /\ UNCHANGED <<allocVars, tables, full_slots, call, tokens>>
        /\ \E s : last_access' = [last_access EXCEPT ![s] = now]
    BY <1>5 DEF Metadata, AccessAllBlocks
  <2>2. last_access' \in [SeqId -> Int]
    <3>1. PICK s : last_access' = [last_access EXCEPT ![s] = now]
      BY <2>1
    <3>2. now \in Int
      BY <1>0 DEF QueueTypeOK
    <3>. QED
      BY <1>0, <3>1, <3>2
  <2>. QED
    BY <2>1, <2>2, ManagerSameTokens
<1>6. CASE EndMetadata
  <2>1. /\ call = Idle /\ UNCHANGED <<tables, full_slots, last_access, call, tokens>>
        /\ UNCHANGED allocVars \/ MarkComputed
    BY <1>6 DEF EndMetadata, managerVars
  <2>. QED
    BY <1>0, <2>1, ManagerSameTokens, ManagerMarks
<1>7. CASE ScheduleRunning
  <2>1. PICK s : s = Head(running)
    OBVIOUS
  <2>2. running # <<>> /\ AppendSlots(s) /\ UNCHANGED tokens
    BY <1>7, <2>1 DEF ScheduleRunning
  <2>3. s \in SeqId
    BY <1>0, <2>1, <2>2, TailList DEF QueueTypeOK
  <2>. QED
    BY <2>2, <2>3, AppendSlotsKeeps
<1>8. CASE Preempt
  <2>1. PICK s : s = Last(running)
    OBVIOUS
  <2>2. running # <<>> /\ FreeBegin(s) /\ UNCHANGED tokens
    BY <1>8, <2>1 DEF Preempt
  <2>3. s \in SeqId
    BY <1>0, <2>1, <2>2, FrontList DEF QueueInv, QueueTypeOK, NoRepetition
  <2>. QED
    BY <2>2, <2>3, ManagerFrees
<1>9. CASE IgnorePrompt
  <2>1. PICK s : s = Head(waiting)
    OBVIOUS
  <2>2. /\ phase = "prefill" /\ call = Idle /\ waiting # <<>>
        /\ tokens' = [tokens EXCEPT ![s] = <<>>]
        /\ UNCHANGED <<allocVars, tables, full_slots, last_access, call>>
    BY <1>9, <2>1 DEF IgnorePrompt, blockVars, managerVars
  <2>3. s \in SeqId /\ s \in ToSet(waiting)
    BY <1>0, <2>1, <2>2, TailList DEF QueueTypeOK
  <2>4. ~IsLive(s)
    BY <2>2, <2>3 DEF QueueInv, Place, WaitingPlace, Planned, IsLive
  <2>. QED
    BY <1>0, <2>2, <2>3, <2>4, ManagerNewTokens
<1>10. CASE StartPrefill
  <2>1. PICK s : s = Head(waiting)
    OBVIOUS
  <2>2. waiting # <<>> /\ AllocStatus(s) = "OK" /\ AllocateBegin(s) /\ UNCHANGED tokens
    BY <1>10, <2>1 DEF StartPrefill
  <2>3. s \in SeqId
    BY <1>0, <2>1, <2>2, TailList DEF QueueTypeOK
  <2>. QED
    BY <2>2, <2>3, AllocateBeginKeeps
<1>11. CASE Sample
  <2>1. PICK s : s = Head(sent).seq
    OBVIOUS
  <2>2. /\ call = Idle /\ sent # <<>>
        /\ UNCHANGED <<allocVars, tables, full_slots, last_access, call>>
    BY <1>11 DEF Sample, Progress, blockVars, managerVars
  <2>3. PICK t \in Text : Len(t) = SeqLen(s) + 1 /\ tokens' = [tokens EXCEPT ![s] = t]
    BY <1>11, <2>1 DEF Sample
  <2>4. tokens' \in [SeqId -> Text] /\ tables \subseteq SeqId
    BY <1>0, <2>3 DEF ManagerInv, ManagerTypeOK
  <2>5. ASSUME NEW r \in tables PROVE Len(tokens[r]) <= Len(tokens'[r])
    <3>1. Len(tokens[r]) \in Nat /\ tokens'[r] = IF r = s THEN t ELSE tokens[r]
      BY <1>0, <2>3, <2>4, TextFacts
    <3>. QED
      BY <2>3, <3>1 DEF SeqLen
  <2>. QED
    BY <1>0, <2>2, <2>4, <2>5, ManagerIdle
<1>12. CASE Finish
  <2>1. PICK s : s = Head(sent).seq
    OBVIOUS
  <2>2. sent # <<>> /\ FreeBegin(s) /\ tokens' = [tokens EXCEPT ![s] = <<>>]
    BY <1>12, <2>1 DEF Finish, Progress
  <2>3. s \in SeqId
    BY <2>1, <2>2, SentTail
  <2>. QED
    BY <2>2, <2>3, ManagerFrees
<1>. QED
  BY <1>1, <1>2, <1>3, <1>4, <1>5, <1>6, <1>7, <1>8, <1>9, <1>10, <1>11, <1>12 DEF Next

------------------------
SchedulerInv == ManagerInv /\ QueueInv /\ BudgetInv

LEMMA InitScheduler == ASSUME Init PROVE SchedulerInv
<1>1. ManagerInv
  BY ManagerInitInv DEF Init
<1>2. BudgetInv
  BY BudgetAssumption DEF Init, BudgetInv
<1>3. QueueTypeOK
  <2>1. ToSet(<<>>) = {} /\ <<>> \in Seq(ToSet(<<>>)) /\ DOMAIN <<>> = {}
    BY EmptyList
  <2>2. IsListOfActions(sent)
    BY <2>1 DEF Init, IsListOfActions
  <2>. QED
    BY <2>2, NoGroups DEF Init, QueueTypeOK
<1>4. NoRepetition
  BY NoGroups, EmptyList DEF Init, NoRepetition
<1>5. PhaseOK
  BY DEF Init, PhaseOK
<1>6. ASSUME NEW s \in SeqId PROVE Place(s)
  <2>1. ~Planned(s) /\ ~Allocating(s) /\ s \notin tables /\ status[s] = "absent"
    BY OneCall DEF Init, ManagerInit, Planned
  <2>2. /\ ToSet(waiting) = {} /\ ToSet(running) = {} /\ ToSet(preempted) = {}
        /\ ToSet(Seqs(batch)) = {} /\ ToSet(Seqs(sent)) = {} /\ ~InScheduled(s)
    BY NoGroups, EmptyList, ScheduledNobody DEF Init
  <2>3. InOneList(s)
    BY <2>2 DEF InScheduled, InOneList
  <2>. QED
    BY <2>1, <2>2, <2>3 DEF Place, WaitingPlace, RunningPlace, BatchPlace, TablePlace, IsLive
<1>. QED
  BY <1>1, <1>2, <1>3, <1>4, <1>5, <1>6 DEF SchedulerInv, QueueInv

LEMMA QueuesKept ==
  ASSUME ManagerInv, QueueInv, BudgetInv, Next
  PROVE  QueueInv'
<1>0. tokens \in [SeqId -> Text] /\ QueueTypeOK
  BY DEF ManagerInv, ManagerTypeOK, QueueInv
<1>1. CASE ScheduleRunning
  <2>1. running # <<>> /\ NumNewTokens(Head(running)) > 0
    BY <1>1 DEF ScheduleRunning
  <2>2. Head(running) \in SeqId
    BY <1>0, <2>1, TailList DEF QueueTypeOK
  <2>3. RunningChunk(Head(running)) \in Int
    BY <1>0, <2>1, <2>2, RunningChunks
  <2>. QED
    BY <1>1, <2>3, ScheduleRunningQueues
<1>2. CASE PlanPrefill
  <2>1. Head(waiting) \in SeqId
    BY <1>2, TailList DEF PlanPrefill, QueueInv, QueueTypeOK, PhaseOK
  <2>2. ChunkFor(Head(waiting)).end \in Int
    BY <1>0, <2>1, PlannedChunk
  <2>. QED
    BY <1>2, <2>2, PlanPrefillQueues
<1>. QED
  BY <1>0, <1>1, <1>2, ManagerStepQueues, PhaseStepQueues, AddRequestQueues, AbortQueues,
     IgnorePromptQueues, FinishQueues, ProgressQueues, PreemptQueues, StartPrefillQueues,
     EndPrefillQueues, MetadataQueues DEF Next

LEMMA SchedulerStutter == ASSUME SchedulerInv, UNCHANGED vars PROVE SchedulerInv'
<1>1. /\ UNCHANGED <<allocVars, tables, full_slots, last_access, call, tokens>>
      /\ UNCHANGED <<status, waiting, running, preempted, scheduled, batch, sent, done, now,
                     phase, spent, targets>>
  BY DEF vars, blockVars, managerVars, engineVars, queueVars, gdnVars
<1>2. BudgetInv'
  BY <1>1 DEF SchedulerInv, BudgetInv
<1>3. QueueInv'
  <2>1. \A s \in SeqId : TablePlace(s)'
    BY <1>1, SameTables DEF SchedulerInv
  <2>2. PhaseOK' /\ done' \in [SeqId -> Int] /\ now' \in Nat
        /\ phase' \in {"idle", "running", "prefill", "plan", "metadata", "execute", "output",
                       "dead"}
    BY <1>1 DEF SchedulerInv, QueueInv, PhaseOK, QueueTypeOK
  <2>. QED
    BY <1>1, <2>1, <2>2, SameLists DEF SchedulerInv
<1>4. ManagerInv'
  <2>1. AllocInv'
    BY <1>1, AllocStutter DEF SchedulerInv, ManagerInv
  <2>2. ManagerTypeOK'
    BY <1>1 DEF SchedulerInv, ManagerInv, ManagerTypeOK
  <2>3. ASSUME NEW s \in SeqId PROVE SeqOK(s)'
    <3>1. SeqOK(s)
      BY DEF SchedulerInv, ManagerInv
    <3>2. /\ BlocksOf(s)' = BlocksOf(s) /\ NumFreeBlocks' = NumFreeBlocks
          /\ Busy(s)' <=> Busy(s)
          /\ Allocating(s)' <=> Allocating(s)
          /\ NumRequired(s)' = NumRequired(s)
      BY <1>1 DEF allocVars, BlocksOf, Allocated, NumFreeBlocks, InEvictor, Busy, Allocating,
         Freeing, NumRequired
    <3>. QED
      BY <1>1, <3>1, <3>2 DEF SeqOK, TableOK, NoTableOK, AllocatingOK
  <2>. QED
    BY <2>1, <2>2, <2>3 DEF ManagerInv
<1>. QED
  BY <1>2, <1>3, <1>4 DEF SchedulerInv

LEMMA SchedulerNext == ASSUME SchedulerInv, [Next]_vars PROVE SchedulerInv'
BY ManagerKept, QueuesKept, BudgetKept, SchedulerStutter DEF SchedulerInv

(* Every reachable state of the engine satisfies the invariants of the          *)
(* allocator, of the block tables and of the queues, and spends no more than *)
(* the budget of a step.                                                   *)
THEOREM SchedulerInvariant == Spec => []SchedulerInv
<1>1. Init => SchedulerInv
  BY InitScheduler
<1>2. SchedulerInv /\ [Next]_vars => SchedulerInv'
  BY SchedulerNext
<1>. QED
  BY <1>1, <1>2, PTL DEF Spec

(* can_allocate and can_append_slots keep their promise: no block of an         *)
(* allocate or of an append_slots they let through raises NoFreeBlocksError.  *)
THEOREM NoFreeBlocksErrorIsDead == Spec => []AllocationNeverRaises
<1>1. SchedulerInv => AllocationNeverRaises
  BY AllocateHasBlocks, AppendHasBlocks DEF SchedulerInv, AllocationNeverRaises
<1>. QED
  BY <1>1, SchedulerInvariant, PTL

(* Between steps every request is in one queue, once, and the running ones are  *)
(* those with a table, of just as many blocks as their tokens fill.          *)
THEOREM QueuesAgreeWithTables == Spec => []QueuesAndTablesAgree
<1>1. ASSUME SchedulerInv PROVE QueuesAndTablesAgree
  <2> SUFFICES ASSUME phase = "idle", call = Idle
               PROVE  /\ IsInjective(waiting \o running)
                      /\ ToSet(waiting) = {s \in SeqId : status[s] = "waiting"}
                      /\ ToSet(running) = Live
                      /\ tables = Live
                      /\ \A s \in Live : NumBlocks(s) = Cdiv(full_slots[s], BlockSize)
    BY DEF QueuesAndTablesAgree
  <2>1. /\ waiting \in Seq(SeqId) /\ running \in Seq(SeqId)
        /\ IsInjective(waiting) /\ IsInjective(running)
        /\ scheduled = NothingScheduled /\ preempted = <<>>
    BY <1>1 DEF SchedulerInv, QueueInv, QueueTypeOK, NoRepetition, PhaseOK
  <2>2. ToSet(waiting) \subseteq SeqId /\ ToSet(running) \subseteq SeqId /\ ToSet(preempted) = {}
        /\ tables \subseteq SeqId
    BY <1>1, <2>1, Elements, EmptyList DEF SchedulerInv, ManagerInv, ManagerTypeOK
  <2>3. \A s \in SeqId : /\ Place(s) /\ ~Planned(s) /\ ~Allocating(s) /\ ~InScheduled(s)
                         /\ SeqOK(s) /\ (IsLive(s) <=> s \in Live)
    BY <1>1, <2>1, OneCall, ScheduledNobody
    DEF SchedulerInv, QueueInv, ManagerInv, Planned, IsLive, Live
  <2>4. ToSet(waiting) = {s \in SeqId : status[s] = "waiting"}
    BY <2>2, <2>3 DEF Place, WaitingPlace
  <2>5. ToSet(running) = Live
    BY <2>2, <2>3 DEF Place, RunningPlace, Live
  <2>6. tables = Live
    BY <2>2, <2>3 DEF Place, TablePlace, Live
  <2>7. IsInjective(waiting \o running)
    <3>1. ToSet(waiting) \cap ToSet(running) = {}
      BY <2>4, <2>5 DEF Live
    <3>. QED
      BY <2>1, <3>1, ConcatList
  <2>8. ASSUME NEW s \in Live PROVE NumBlocks(s) = Cdiv(full_slots[s], BlockSize)
    <3>1. s \in SeqId /\ s \in tables
      BY <2>6 DEF Live
    <3>2. BlocksOf(s) = 1..Cdiv(full_slots[s], BlockSize) /\ full_slots[s] \in Nat
      BY <1>1, <2>3, <3>1 DEF SeqOK, TableOK, SchedulerInv, ManagerInv, ManagerTypeOK
    <3>3. Cdiv(full_slots[s], BlockSize) \in Nat
      BY <3>2, CdivBlocks
    <3>. QED
      BY <3>2, <3>3, CountBlocks
  <2>. QED
    BY <2>4, <2>5, <2>6, <2>7, <2>8
<1>. QED
  BY <1>1, SchedulerInvariant, PTL

------------------------
(* The number of groups of a step.  Where the budget leaves a whole block to    *)
(* the last of MaxSeqs groups, no step leaves a running prompt without a      *)
(* token, and no new prompt starts beside one that waits for its turn.       *)
SeqsFit == MaxSeqs + BlockSize <= Budget + 1

OnePrompt ==
  \A r, s \in SeqId : status[r] = "prefill" /\ status[s] = "prefill" => r = s

(* A prefill has tokens left to compute.                                    *)
ProgressOK(s) ==
  /\ status[s] \in {"absent", "waiting"} => done[s] = 0
  /\ status[s] = "prefill" => done[s] < SeqLen(s)

IsPrompted(s) ==
  s \in ToSet(Seqs(batch)) \/ \E i \in DOMAIN sent : sent[i].seq = s /\ sent[i].prompt

CountOK ==
  /\ Len(running) + NumScheduled <= MaxSeqs
  /\ Len(batch) + Len(sent) <= MaxSeqs

(* Which prompts a phase of the step may meet: at most one is running between *)
(* steps, and a group that got no chunk is a decode without a token left.    *)
OneAtATime == phase \in {"idle", "running", "output"} => OnePrompt
SpentOnDecodes ==
  phase = "running" /\ scheduled.prefill = <<>> => spent = Len(scheduled.decode)
ChunksOfPrompts == \A s \in ToSet(Seqs(scheduled.prefill)) : status[s] = "prefill"
LeftOver ==
  phase = "prefill" /\ running # <<>> =>
    spent = Budget /\ \A s \in ToSet(running) : status[s] # "prefill"
PlannedAlone == phase = "plan" => running = <<>> /\ NumScheduled < MaxSeqs
AllPrompted ==
  phase \in {"metadata", "execute"} =>
    \A s \in SeqId : status[s] = "prefill" => IsPrompted(s)

PromptInv ==
  /\ CountOK /\ OneAtATime /\ SpentOnDecodes /\ ChunksOfPrompts /\ LeftOver
  /\ PlannedAlone /\ AllPrompted
  /\ \A s \in SeqId : ProgressOK(s)

LEMMA Lengths ==
  ASSUME NEW S, NEW q \in Seq(S)
  PROVE  /\ Len(q) \in Nat /\ (Len(q) = 0 <=> q = <<>>)
         /\ q # <<>> => /\ Len(q) >= 1
                        /\ Len(Tail(q)) = Len(q) - 1
                        /\ Len(Front(q)) = Len(q) - 1
         /\ \A x : Len(Append(q, x)) = Len(q) + 1 /\ Append(q, x) # <<>>
         /\ \A x : IsInjective(q) => Len(RemoveFirst(q, x)) <= Len(q)
         /\ \A r \in Seq(S) : Len(q \o r) = Len(q) + Len(r)
<1>1. /\ Len(q) \in Nat /\ (Len(q) = 0 <=> q = <<>>)
      /\ q # <<>> => Len(q) >= 1 /\ Len(Tail(q)) = Len(q) - 1
  OBVIOUS
<1>2. ASSUME q # <<>> PROVE Len(Front(q)) = Len(q) - 1
  <2> DEFINE r == Front(q)
  <2>1. r \in Seq(S) /\ Len(r) = Len(q) - 1
    <3>1. PICK k \in 1..Len(q) : k = Len(q)
      BY <1>1, <1>2
    <3>2. q \in Seq(S) /\ Len(q) \in Nat /\ k \in 1..Len(q)
      BY <1>1
    <3>3. SubSeq(q, 1, k - 1) \in Seq(S) /\ Len(SubSeq(q, 1, k - 1)) = k - 1
      BY <3>2
    <3>. QED
      BY <3>1, <3>3 DEF Front
  <2>. QED
    BY <2>1
<1>3. ASSUME NEW x PROVE Len(Append(q, x)) = Len(q) + 1 /\ Append(q, x) # <<>>
  <2>1. Len(Append(q, x)) = Len(q) + 1 /\ Len(<<>>) = 0
    OBVIOUS
  <2>. QED
    BY <1>1, <2>1
<1>4. ASSUME NEW x, IsInjective(q) PROVE Len(RemoveFirst(q, x)) <= Len(q)
  <2>1. DOMAIN q = 1..Len(q) /\ \A y : y \in ToSet(q) <=> \E i \in 1..Len(q) : q[i] = y
    BY Elements
  <2>2. CASE x \notin ToSet(q)
    BY <1>1, <2>1, <2>2 DEF RemoveFirst
  <2>3. CASE x \in ToSet(q)
    <3>1. PICK k \in 1..Len(q) : q[k] = x
      BY <2>1, <2>3
    <3>2. SelectInSeq(q, LAMBDA v : v = x) = k
      <4> DEFINE I == {i \in 1..Len(q) : q[i] = x}
      <4>1. I = {k}
        BY <1>4, <2>1, <3>1 DEF IsInjective
      <4>2. Min(I) = k
        BY <4>1, <3>1 DEF Min
      <4>. QED
        BY <4>1, <4>2 DEF SelectInSeq
    <3> DEFINE a == SubSeq(q, 1, k - 1)
               b == SubSeq(q, k + 1, Len(q))
    <3>3. RemoveFirst(q, x) = a \o b
      BY <3>1, <3>2 DEF RemoveFirst, RemoveAt
    <3>4. q \in Seq(S) /\ Len(q) \in Nat /\ k \in 1..Len(q)
      BY <1>1
    <3>5. a \in Seq(S) /\ Len(a) = k - 1
      BY <3>4
    <3>6. b \in Seq(S) /\ Len(b) = Len(q) - k
      BY <3>4
    <3> HIDE DEF a, b
    <3>7. Len(a \o b) = Len(a) + Len(b)
      BY <3>5, <3>6, ConcatProperties
    <3>. QED
      BY <3>3, <3>4, <3>5, <3>6, <3>7
  <2>. QED
    BY <2>2, <2>3
<1>5. \A r \in Seq(S) : Len(q \o r) = Len(q) + Len(r)
  BY ConcatProperties
<1>. QED
  BY <1>1, <1>2, <1>3, <1>4, <1>5

LEMMA GroupCounts ==
  ASSUME QueueInv
  PROVE  /\ Len(running) \in Nat /\ Len(batch) \in Nat /\ Len(sent) \in Nat
         /\ Len(scheduled.decode) \in Nat /\ Len(scheduled.prefill) \in Nat
         /\ Len(scheduled.new) \in Nat /\ NumScheduled \in Nat
         /\ scheduled = NothingScheduled => NumScheduled = 0
<1>1. /\ Len(running) \in Nat /\ Len(batch) \in Nat /\ Len(sent) \in Nat
      /\ Len(scheduled.decode) \in Nat /\ Len(scheduled.prefill) \in Nat
      /\ Len(scheduled.new) \in Nat
  BY QueueFacts, Lengths
<1>2. scheduled = NothingScheduled => NumScheduled = 0
  BY NoGroups DEF NumScheduled
<1>3. NumScheduled \in Nat
  <2> DEFINE d == Len(scheduled.decode)
             f == Len(scheduled.prefill)
             n == Len(scheduled.new)
  <2>1. d \in Nat /\ f \in Nat /\ n \in Nat /\ NumScheduled = (d + f) + n
    BY <1>1 DEF NumScheduled
  <2> HIDE DEF d, f, n
  <2>. QED
    BY <2>1
<1>. QED
  BY <1>1, <1>2, <1>3

LEMMA GroupCounted ==
  ASSUME QueueInv, NEW s, NEW k \in {"decode", "prefill", "new"}, NEW c,
         scheduled' = Scheduled(s, k, c)
  PROVE  /\ NumScheduled' = NumScheduled + 1
         /\ Len(scheduled'.decode) = Len(scheduled.decode) + (IF k = "decode" THEN 1 ELSE 0)
         /\ k = "prefill" => scheduled'.prefill # <<>>
         /\ k # "prefill" => scheduled'.prefill = scheduled.prefill
<1> DEFINE g == [seq |-> s, chunk |-> c]
<1>1. /\ scheduled \in [decode : Seq(Group), prefill : Seq(Group), new : Seq(Group)]
      /\ Len(scheduled.decode) \in Nat /\ Len(scheduled.prefill) \in Nat
      /\ Len(scheduled.new) \in Nat
  BY GroupCounts DEF QueueInv, QueueTypeOK
<1>2. scheduled' = [scheduled EXCEPT ![k] = Append(@, g)]
  BY DEF Scheduled
<1> DEFINE d == Len(scheduled.decode)
           f == Len(scheduled.prefill)
           n == Len(scheduled.new)
<1> HIDE DEF g
<1>3. /\ Len(Append(scheduled.decode, g)) = Len(scheduled.decode) + 1
      /\ Len(Append(scheduled.prefill, g)) = Len(scheduled.prefill) + 1
      /\ Append(scheduled.prefill, g) # <<>>
      /\ Len(Append(scheduled.new, g)) = Len(scheduled.new) + 1
  BY <1>1, Lengths
<1>4. NumScheduled' = Len(scheduled'.decode) + Len(scheduled'.prefill) + Len(scheduled'.new)
  BY DEF NumScheduled
<1>5. NumScheduled = (d + f) + n /\ d \in Nat /\ f \in Nat /\ n \in Nat
  BY <1>1 DEF NumScheduled
<1>6. /\ Len(Append(scheduled.decode, g)) = d + 1 /\ Len(Append(scheduled.prefill, g)) = f + 1
      /\ Len(Append(scheduled.new, g)) = n + 1
      /\ Len(scheduled.decode) = d /\ Len(scheduled.prefill) = f /\ Len(scheduled.new) = n
  BY <1>3
<1> HIDE DEF d, f, n
<1>7. CASE k = "decode"
  <2>1. /\ scheduled'.decode = Append(scheduled.decode, g)
        /\ scheduled'.prefill = scheduled.prefill /\ scheduled'.new = scheduled.new
    BY <1>1, <1>2, <1>7
  <2>2. /\ Len(scheduled'.decode) = d + 1 /\ Len(scheduled'.prefill) = f
        /\ Len(scheduled'.new) = n
    BY <1>6, <2>1
  <2>3. NumScheduled' = (d + 1) + f + n
    BY <1>4, <2>2
  <2>4. NumScheduled' = NumScheduled + 1
    BY <1>5, <2>3
  <2>. QED
    BY <1>3, <1>6, <1>7, <2>1, <2>2, <2>4
<1>8. CASE k = "prefill"
  <2>1. /\ scheduled'.prefill = Append(scheduled.prefill, g)
        /\ scheduled'.decode = scheduled.decode /\ scheduled'.new = scheduled.new
    BY <1>1, <1>2, <1>8
  <2>2. /\ Len(scheduled'.decode) = d /\ Len(scheduled'.prefill) = f + 1
        /\ Len(scheduled'.new) = n
    BY <1>6, <2>1
  <2>3. NumScheduled' = d + (f + 1) + n
    BY <1>4, <2>2
  <2>4. NumScheduled' = NumScheduled + 1
    BY <1>5, <2>3
  <2>. QED
    BY <1>3, <1>6, <1>8, <2>1, <2>2, <2>4
<1>9. CASE k = "new"
  <2>1. /\ scheduled'.new = Append(scheduled.new, g)
        /\ scheduled'.decode = scheduled.decode /\ scheduled'.prefill = scheduled.prefill
    BY <1>1, <1>2, <1>9
  <2>2. /\ Len(scheduled'.decode) = d /\ Len(scheduled'.prefill) = f
        /\ Len(scheduled'.new) = n + 1
    BY <1>6, <2>1
  <2>3. NumScheduled' = d + f + (n + 1)
    BY <1>4, <2>2
  <2>4. NumScheduled' = NumScheduled + 1
    BY <1>5, <2>3
  <2>. QED
    BY <1>3, <1>6, <1>9, <2>1, <2>2, <2>4
<1>. QED
  BY <1>7, <1>8, <1>9

LEMMA SamePrompts ==
  ASSUME PromptInv,
         UNCHANGED <<phase, spent, status, running, scheduled, batch, sent, done, tokens>>
  PROVE  PromptInv'
<1>1. CountOK' /\ OneAtATime' /\ SpentOnDecodes' /\ ChunksOfPrompts'
  BY DEF PromptInv, CountOK, OneAtATime, OnePrompt, SpentOnDecodes, ChunksOfPrompts, NumScheduled
<1>2. LeftOver' /\ PlannedAlone'
  BY DEF PromptInv, LeftOver, PlannedAlone, NumScheduled
<1>3. AllPrompted' /\ \A s \in SeqId : ProgressOK(s)'
  BY DEF PromptInv, AllPrompted, IsPrompted, ProgressOK, SeqLen
<1>. QED
  BY <1>1, <1>2, <1>3 DEF PromptInv

LEMMA SameRequests ==
  ASSUME PromptInv, UNCHANGED <<status, running, scheduled, batch, sent, done, tokens>>
  PROVE  CountOK' /\ ChunksOfPrompts' /\ (OnePrompt' <=> OnePrompt)
         /\ \A s \in SeqId : ProgressOK(s)' /\ (IsPrompted(s)' <=> IsPrompted(s))
BY DEF PromptInv, CountOK, ChunksOfPrompts, OnePrompt, ProgressOK, IsPrompted, NumScheduled, SeqLen

LEMMA StartStepPrompts == ASSUME QueueInv, PromptInv, StartStep PROVE PromptInv'
<1>1. /\ phase = "idle" /\ phase' = "running" /\ spent' = 0
      /\ UNCHANGED <<status, running, scheduled, batch, sent, done, tokens>>
  BY DEF StartStep, queueVars
<1>2. scheduled.decode = <<>>
  BY <1>1, NoGroups DEF QueueInv, PhaseOK
<1>3. OneAtATime' /\ SpentOnDecodes'
  BY <1>1, <1>2, SameRequests DEF PromptInv, OneAtATime, SpentOnDecodes
<1>4. LeftOver' /\ PlannedAlone' /\ AllPrompted'
  BY <1>1 DEF LeftOver, PlannedAlone, AllPrompted
<1>. QED
  BY <1>1, <1>3, <1>4, SameRequests DEF PromptInv

LEMMA EndMetadataPrompts == ASSUME QueueInv, PromptInv, EndMetadata PROVE PromptInv'
<1>1. /\ phase = "metadata" /\ phase' = "execute"
      /\ UNCHANGED <<status, running, scheduled, batch, sent, done, tokens>>
  BY DEF EndMetadata, queueVars
<1>2. AllPrompted'
  BY <1>1, SameRequests DEF PromptInv, AllPrompted
<1>3. OneAtATime' /\ SpentOnDecodes' /\ LeftOver' /\ PlannedAlone'
  BY <1>1 DEF OneAtATime, SpentOnDecodes, LeftOver, PlannedAlone
<1>. QED
  BY <1>1, <1>2, <1>3, SameRequests DEF PromptInv

(* A batch that the worker accepts has one prompt.                          *)
LEMMA ExecutePrompts == ASSUME QueueInv, PromptInv, Execute PROVE PromptInv'
<1>1. /\ phase = "execute" /\ \/ phase' = "dead"
                              \/ phase' = "output" /\ ~WorkerRaises
      /\ UNCHANGED <<status, running, scheduled, batch, sent, done, tokens>>
  BY DEF Execute, queueVars
<1>2. ASSUME ~WorkerRaises PROVE OnePrompt
  <2> SUFFICES ASSUME NEW r \in SeqId, NEW s \in SeqId, status[r] = "prefill",
                      status[s] = "prefill"
               PROVE  r = s
    BY DEF OnePrompt
  <2>1. batch = <<>>
    BY <1>1 DEF QueueInv, PhaseOK
  <2>2. ToSet(Seqs(batch)) = {}
    BY <2>1, NoGroups, EmptyList
  <2>3. IsPrompted(r) /\ IsPrompted(s)
    BY <1>1 DEF PromptInv, AllPrompted
  <2>4. PICK i \in DOMAIN sent : sent[i].seq = r /\ sent[i].prompt
    BY <2>2, <2>3 DEF IsPrompted
  <2>5. PICK j \in DOMAIN sent : sent[j].seq = s /\ sent[j].prompt
    BY <2>2, <2>3 DEF IsPrompted
  <2>6. i = j
    BY <1>2, <2>4, <2>5 DEF WorkerRaises
  <2>. QED
    BY <2>4, <2>5, <2>6
<1>3. OneAtATime'
  BY <1>1, <1>2, SameRequests DEF OneAtATime
<1>4. SpentOnDecodes' /\ LeftOver' /\ PlannedAlone' /\ AllPrompted'
  BY <1>1 DEF SpentOnDecodes, LeftOver, PlannedAlone, AllPrompted
<1>. QED
  BY <1>1, <1>3, <1>4, SameRequests DEF PromptInv

LEMMA EndStepPrompts == ASSUME QueueInv, PromptInv, EndStep PROVE PromptInv'
<1>1. /\ phase = "output" /\ phase' = "idle"
      /\ UNCHANGED <<status, running, scheduled, batch, sent, done, tokens>>
  BY DEF EndStep, queueVars
<1>2. OneAtATime'
  BY <1>1, SameRequests DEF PromptInv, OneAtATime
<1>3. SpentOnDecodes' /\ LeftOver' /\ PlannedAlone' /\ AllPrompted'
  BY <1>1 DEF SpentOnDecodes, LeftOver, PlannedAlone, AllPrompted
<1>. QED
  BY <1>1, <1>2, <1>3, SameRequests DEF PromptInv

LEMMA AddRequestPrompts ==
  ASSUME QueueInv, PromptInv, tokens \in [SeqId -> Text], NEW s \in SeqId, AddRequest(s)
  PROVE  PromptInv'
<1>1. /\ phase = "idle" /\ phase' = phase /\ status[s] = "absent"
      /\ status' = [status EXCEPT ![s] = "waiting"]
      /\ \E t : tokens' = [tokens EXCEPT ![s] = t]
      /\ UNCHANGED <<spent, running, scheduled, batch, sent, done>>
  BY DEF AddRequest
<1>2. \A r \in SeqId : status'[r] = IF r = s THEN "waiting" ELSE status[r]
  BY <1>1 DEF QueueInv, QueueTypeOK
<1>3. \A r \in SeqId : r # s => SeqLen(r)' = SeqLen(r)
  BY <1>1 DEF SeqLen
<1>4. CountOK'
  BY <1>1 DEF PromptInv, CountOK, NumScheduled
<1>5. OneAtATime'
  BY <1>1, <1>2 DEF PromptInv, OneAtATime, OnePrompt
<1>6. ChunksOfPrompts'
  <2>1. scheduled.prefill = <<>>
    BY <1>1, NoGroups DEF QueueInv, PhaseOK
  <2>. QED
    BY <1>1, <2>1, NoGroups, EmptyList DEF ChunksOfPrompts
<1>7. SpentOnDecodes' /\ LeftOver' /\ PlannedAlone' /\ AllPrompted'
  BY <1>1 DEF SpentOnDecodes, LeftOver, PlannedAlone, AllPrompted
<1>8. ASSUME NEW r \in SeqId PROVE ProgressOK(r)'
  BY <1>1, <1>2, <1>3 DEF PromptInv, ProgressOK
<1>. QED
  BY <1>4, <1>5, <1>6, <1>7, <1>8 DEF PromptInv

(* A request leaves between steps, when it is ignored or when it is finished. *)
LEMMA LeavesPrompts ==
  ASSUME QueueInv, PromptInv, NEW s \in SeqId, Leaves(s), ~InScheduled(s),
         phase' = phase, phase \in {"idle", "prefill", "output"},
         UNCHANGED <<spent, scheduled, batch>>,
         sent' = sent \/ (sent # <<>> /\ sent' = Tail(sent)),
         \A r \in SeqId : r # s => SeqLen(r)' = SeqLen(r)
  PROVE  PromptInv'
<1>1. /\ \A r \in SeqId : status'[r] = IF r = s THEN "absent" ELSE status[r]
      /\ \A r \in SeqId : done'[r] = IF r = s THEN 0 ELSE done[r]
      /\ running' = RemoveFirst(running, s)
  BY DEF Leaves, QueueInv, QueueTypeOK
<1>2. /\ running \in Seq(SeqId) /\ running' \in Seq(SeqId)
      /\ ToSet(running') = ToSet(running) \ {s}
      /\ Len(running') <= Len(running) /\ Len(running) \in Nat /\ Len(running') \in Nat
  <2>1. running \in Seq(SeqId) /\ IsInjective(running)
    BY DEF QueueInv, QueueTypeOK, NoRepetition
  <2>2. running' \in Seq(SeqId) /\ ToSet(running') = ToSet(running) \ {s}
    BY <1>1, <2>1, RemoveList
  <2>. QED
    BY <1>1, <2>1, <2>2, Lengths
<1>3. CountOK'
  <2>1. NumScheduled' = NumScheduled /\ NumScheduled \in Nat /\ Len(batch') = Len(batch)
        /\ Len(batch) \in Nat
    BY GroupCounts DEF NumScheduled
  <2>2. Len(sent') <= Len(sent) /\ Len(sent) \in Nat /\ Len(sent') \in Nat
    <3>1. sent \in Seq(ToSet(sent))
      BY QueueFacts
    <3>2. CASE sent' = sent
      BY <3>1, <3>2, Lengths
    <3>3. CASE sent # <<>> /\ sent' = Tail(sent)
      BY <3>1, <3>3, Lengths
    <3>. QED
      BY <3>2, <3>3
  <2>3. Len(running) + NumScheduled <= MaxSeqs /\ Len(batch) + Len(sent) <= MaxSeqs
    BY DEF PromptInv, CountOK
  <2>. QED
    BY <1>2, <2>1, <2>2, <2>3, MaxSeqsAssumption DEF CountOK
<1>4. OneAtATime'
  BY <1>1 DEF PromptInv, OneAtATime, OnePrompt
<1>5. ChunksOfPrompts'
  <2>1. ToSet(Seqs(scheduled.prefill)) \subseteq SeqId /\ s \notin ToSet(Seqs(scheduled.prefill))
    BY QueueFacts, Elements DEF InScheduled
  <2>. QED
    BY <1>1, <2>1 DEF PromptInv, ChunksOfPrompts
<1>6. LeftOver'
  <2>1. running' # <<>> => running # <<>>
    BY <1>2, Lengths
  <2>2. ToSet(running) \subseteq SeqId
    BY <1>2, Elements
  <2>. QED
    BY <1>1, <1>2, <2>1, <2>2 DEF PromptInv, LeftOver
<1>7. SpentOnDecodes' /\ PlannedAlone' /\ AllPrompted'
  BY DEF SpentOnDecodes, PlannedAlone, AllPrompted
<1>8. ASSUME NEW r \in SeqId PROVE ProgressOK(r)'
  BY <1>1 DEF PromptInv, ProgressOK
<1>. QED
  BY <1>3, <1>4, <1>5, <1>6, <1>7, <1>8 DEF PromptInv

LEMMA LeavingPrompts ==
  ASSUME QueueInv, PromptInv, tokens \in [SeqId -> Text],
         (\E s \in SeqId : Abort(s)) \/ IgnorePrompt \/ Finish
  PROVE  PromptInv'
<1>1. ASSUME NEW s \in SeqId, Abort(s) PROVE PromptInv'
  <2>1. /\ phase = "idle" /\ phase' = phase /\ Leaves(s)
        /\ tokens' = [tokens EXCEPT ![s] = <<>>]
        /\ UNCHANGED <<spent, scheduled, batch, sent>>
    BY <1>1 DEF Abort
  <2>2. ~InScheduled(s)
    BY <2>1, ScheduledNobody DEF QueueInv, PhaseOK
  <2>3. \A r \in SeqId : r # s => SeqLen(r)' = SeqLen(r)
    BY <2>1 DEF SeqLen
  <2>. QED
    BY <2>1, <2>2, <2>3, LeavesPrompts
<1>2. CASE IgnorePrompt
  <2>0. PICK s : s = Head(waiting)
    OBVIOUS
  <2>1. /\ phase = "prefill" /\ phase' = phase /\ waiting # <<>> /\ Leaves(s)
        /\ tokens' = [tokens EXCEPT ![s] = <<>>]
        /\ UNCHANGED <<spent, scheduled, batch, sent>>
    BY <1>2, <2>0 DEF IgnorePrompt
  <2>2. s \in SeqId /\ s \in ToSet(waiting)
    BY <2>0, <2>1, TailList DEF QueueInv, QueueTypeOK
  <2>3. Place(s)
    BY <2>2 DEF QueueInv
  <2>4. ~InScheduled(s)
    BY <2>1, <2>2, <2>3 DEF Place, WaitingPlace, RunningPlace, Planned, IsLive
  <2>5. \A r \in SeqId : r # s => SeqLen(r)' = SeqLen(r)
    BY <2>1 DEF SeqLen
  <2>. QED
    BY <2>1, <2>2, <2>4, <2>5, LeavesPrompts
<1>3. CASE Finish
  <2>0. PICK s : s = Head(sent).seq
    OBVIOUS
  <2>1. /\ phase = "output" /\ phase' = phase /\ sent # <<>> /\ sent' = Tail(sent) /\ Leaves(s)
        /\ tokens' = [tokens EXCEPT ![s] = <<>>]
        /\ UNCHANGED <<spent, scheduled, batch>>
    BY <1>3, <2>0 DEF Finish, Progress
  <2>2. s \in SeqId /\ ~InScheduled(s)
    BY <2>0, <2>1, SentTail, ScheduledNobody DEF QueueInv, PhaseOK
  <2>3. \A r \in SeqId : r # s => SeqLen(r)' = SeqLen(r)
    BY <2>1 DEF SeqLen
  <2>. QED
    BY <2>1, <2>2, <2>3, LeavesPrompts
<1>. QED
  BY <1>1, <1>2, <1>3

LEMMA ProgressPrompts ==
  ASSUME QueueInv, PromptInv, tokens \in [SeqId -> Text], ChunkDone \/ Sample
  PROVE  PromptInv'
<1>0. PICK s : s = Head(sent).seq
  OBVIOUS
<1>1. /\ phase = "output" /\ phase' = phase /\ sent # <<>> /\ sent' = Tail(sent)
      /\ done' = [done EXCEPT ![s] = Head(sent).end]
      /\ UNCHANGED <<running, scheduled, batch, spent>>
  BY <1>0 DEF ChunkDone, Sample, Progress
<1>2. \/ UNCHANGED <<status, tokens>> /\ Head(sent).end < SeqLen(s)
      \/ /\ status' = [status EXCEPT ![s] = "decode"]
         /\ \E t : tokens' = [tokens EXCEPT ![s] = t]
  BY <1>0 DEF ChunkDone, Sample
<1>3. s \in SeqId /\ s \in ToSet(Seqs(sent))
  BY <1>0, <1>1, SentTail
<1>4. IsLive(s)
  <2>1. Place(s)
    BY <1>3 DEF QueueInv
  <2>. QED
    BY <1>3, <2>1 DEF Place, BatchPlace, RunningPlace
<1>5. \A r \in SeqId : status'[r] = status[r] \/ (r = s /\ status'[r] = "decode")
  BY <1>2 DEF QueueInv, QueueTypeOK
<1>6. scheduled.prefill = <<>>
  BY <1>1, NoGroups DEF QueueInv, PhaseOK
<1>7. CountOK'
  <2>1. sent \in Seq(ToSet(sent))
    BY QueueFacts
  <2>2. Len(sent') = Len(sent) - 1 /\ Len(sent) \in Nat /\ Len(batch) \in Nat
    BY <1>1, <2>1, Lengths, GroupCounts
  <2>3. Len(batch) + Len(sent) <= MaxSeqs /\ Len(batch') = Len(batch)
    BY <1>1 DEF PromptInv, CountOK
  <2>4. Len(running') + NumScheduled' <= MaxSeqs
    BY <1>1 DEF PromptInv, CountOK, NumScheduled
  <2>5. Len(batch') + Len(sent') <= MaxSeqs
    BY <2>2, <2>3, MaxSeqsAssumption
  <2>. QED
    BY <2>4, <2>5 DEF CountOK
<1>8. OneAtATime'
  BY <1>1, <1>5 DEF PromptInv, OneAtATime, OnePrompt
<1>9. ChunksOfPrompts'
  BY <1>1, <1>6, NoGroups, EmptyList DEF ChunksOfPrompts
<1>10. SpentOnDecodes' /\ LeftOver' /\ PlannedAlone' /\ AllPrompted'
  BY <1>1 DEF SpentOnDecodes, LeftOver, PlannedAlone, AllPrompted
<1>11. ASSUME NEW r \in SeqId PROVE ProgressOK(r)'
  <2>1. ProgressOK(r)
    BY DEF PromptInv
  <2>2. CASE r # s
    <3>1. done'[r] = done[r] /\ status'[r] = status[r]
      BY <1>1, <1>5, <2>2 DEF QueueInv, QueueTypeOK
    <3>2. tokens'[r] = tokens[r]
      <4>1. tokens' = tokens \/ \E t : tokens' = [tokens EXCEPT ![s] = t]
        BY <1>2
      <4>. QED
        BY <2>2, <4>1
    <3>3. SeqLen(r)' = SeqLen(r)
      BY <3>2 DEF SeqLen
    <3>. QED
      BY <2>1, <3>1, <3>3 DEF ProgressOK
  <2>3. CASE r = s
    <3>1. CASE UNCHANGED <<status, tokens>> /\ Head(sent).end < SeqLen(s)
      <4>1. done'[r] = Head(sent).end /\ status'[r] = status[r] /\ SeqLen(r)' = SeqLen(s)
        BY <1>1, <1>3, <2>3, <3>1 DEF SeqLen, QueueInv, QueueTypeOK
      <4>. QED
        BY <1>4, <2>3, <3>1, <4>1 DEF ProgressOK, IsLive
    <3>2. CASE status' = [status EXCEPT ![s] = "decode"]
      <4>1. status'[r] = "decode"
        BY <2>3, <3>2 DEF QueueInv, QueueTypeOK
      <4>. QED
        BY <4>1 DEF ProgressOK
    <3>. QED
      BY <1>2, <3>1, <3>2
  <2>. QED
    BY <2>2, <2>3
<1>. QED
  BY <1>7, <1>8, <1>9, <1>10, <1>11 DEF PromptInv

LEMMA MetadataPrompts == ASSUME QueueInv, PromptInv, Metadata PROVE PromptInv'
<1>0. PICK g : g = Head(batch)
  OBVIOUS
<1>00. PICK s : s = g.seq
  OBVIOUS
<1> DEFINE a == IF status[s] = "prefill" THEN PrefillActions(g) ELSE DecodeActions(g)
<1>1. /\ phase = "metadata" /\ phase' \in {"metadata", "dead"} /\ batch # <<>>
      /\ sent' = Append(sent, a) /\ batch' = Tail(batch)
      /\ UNCHANGED <<status, running, scheduled, done, tokens>>
  BY <1>0, <1>00 DEF Metadata, queueVars
<1>2. a.seq = s /\ (status[s] = "prefill" => a.prompt)
  BY <1>00 DEF PrefillActions, DecodeActions
<1> HIDE DEF a
<1>3. /\ batch \in Seq(Group) /\ sent \in Seq(ToSet(sent)) /\ Seqs(batch) \in Seq(SeqId)
  BY QueueFacts
<1>4. CountOK'
  <2>1. /\ Len(sent') = Len(sent) + 1 /\ Len(batch') = Len(batch) - 1
        /\ Len(sent) \in Nat /\ Len(batch) \in Nat
    BY <1>1, <1>3, Lengths
  <2>2. Len(batch) + Len(sent) <= MaxSeqs /\ Len(running') + NumScheduled' <= MaxSeqs
    BY <1>1 DEF PromptInv, CountOK, NumScheduled
  <2>3. Len(batch') + Len(sent') = Len(batch) + Len(sent)
    BY <2>1
  <2>. QED
    BY <2>2, <2>3 DEF CountOK
<1>5. ASSUME NEW r \in SeqId, status[r] = "prefill", phase' = "metadata" PROVE IsPrompted(r)'
  <2>1. IsPrompted(r)
    BY <1>1, <1>5 DEF PromptInv, AllPrompted
  <2>2. /\ DOMAIN sent = 1..Len(sent) /\ Len(sent) \in Nat
        /\ DOMAIN sent' = 1..(Len(sent) + 1)
        /\ sent'[Len(sent) + 1] = a
        /\ \A i \in 1..Len(sent) : sent'[i] = sent[i]
    BY <1>1, <1>3
  <2>3. CASE r = s
    <3>1. Len(sent) + 1 \in DOMAIN sent'
      BY <2>2
    <3>. QED
      BY <1>2, <1>5, <2>2, <2>3, <3>1 DEF IsPrompted
  <2>4. CASE \E i \in DOMAIN sent : sent[i].seq = r /\ sent[i].prompt
    <3>1. PICK i \in DOMAIN sent : sent[i].seq = r /\ sent[i].prompt
      BY <2>4
    <3>2. i \in DOMAIN sent' /\ sent'[i] = sent[i]
      BY <2>2
    <3>. QED
      BY <3>1, <3>2 DEF IsPrompted
  <2>5. CASE r # s /\ r \in ToSet(Seqs(batch))
    <3>1. ToSet(Seqs(batch')) = ToSet(Seqs(batch)) \ {s}
      <4>1. \A h \in Group : h.seq \in SeqId
        BY DEF Group
      <4>2. /\ g.seq = Head(Seqs(batch)) /\ Seqs(batch) # <<>>
            /\ Seqs(batch') = Tail(Seqs(batch))
        BY <1>0, <1>1, <1>3, <4>1, GroupList
      <4>3. IsInjective(Seqs(batch))
        BY DEF QueueInv, NoRepetition
      <4>. QED
        BY <1>00, <1>3, <4>2, <4>3, TailList
    <3>. QED
      BY <2>5, <3>1 DEF IsPrompted
  <2>. QED
    BY <2>1, <2>3, <2>4, <2>5 DEF IsPrompted
<1>6. AllPrompted'
  BY <1>1, <1>5 DEF AllPrompted
<1>7. ChunksOfPrompts' /\ \A r \in SeqId : ProgressOK(r)'
  BY <1>1 DEF PromptInv, ChunksOfPrompts, ProgressOK, SeqLen
<1>8. OneAtATime' /\ SpentOnDecodes' /\ LeftOver' /\ PlannedAlone'
  BY <1>1 DEF OneAtATime, SpentOnDecodes, LeftOver, PlannedAlone
<1>. QED
  BY <1>4, <1>6, <1>7, <1>8 DEF PromptInv

LEMMA ScheduleRunningPrompts ==
  ASSUME QueueInv, BudgetInv, PromptInv, tokens \in [SeqId -> Text], ScheduleRunning
  PROVE  PromptInv'
<1>0. PICK s : s = Head(running)
  OBVIOUS
<1> DEFINE c == RunningChunk(s)
           g == [seq |-> s, chunk |-> c]
<1>1. /\ phase = "running" /\ phase' = phase /\ running # <<>> /\ NumNewTokens(s) > 0
      /\ running' = Tail(running) /\ scheduled' = Scheduled(s, status[s], c)
      /\ spent' = spent + c
      /\ UNCHANGED <<status, batch, sent, done, tokens>>
  BY <1>0 DEF ScheduleRunning
<1>2. running \in Seq(SeqId) /\ s \in SeqId /\ s \in ToSet(running)
  BY <1>0, <1>1, TailList DEF QueueInv, QueueTypeOK
<1>3. status[s] \in {"decode", "prefill"}
  <2>1. Place(s)
    BY <1>2 DEF QueueInv
  <2>. QED
    BY <1>2, <2>1 DEF Place, RunningPlace, IsLive
<1>4. c \in Int /\ (status[s] = "decode" => c = 1)
  BY <1>1, <1>2, RunningChunks DEF QueueInv, RunningChunk
<1>5. /\ NumScheduled' = NumScheduled + 1
      /\ Len(scheduled'.decode) = Len(scheduled.decode) + (IF status[s] = "decode" THEN 1 ELSE 0)
      /\ status[s] = "prefill" => scheduled'.prefill # <<>>
      /\ status[s] # "prefill" => scheduled'.prefill = scheduled.prefill
  BY <1>1, <1>3, GroupCounted
<1>6. CountOK'
  <2>1. Len(running') = Len(running) - 1 /\ Len(running) \in Nat /\ NumScheduled \in Nat
    BY <1>1, <1>2, Lengths, GroupCounts
  <2>2. Len(running) + NumScheduled <= MaxSeqs /\ Len(batch') + Len(sent') <= MaxSeqs
    BY <1>1 DEF PromptInv, CountOK
  <2>3. Len(running') + NumScheduled' = Len(running) + NumScheduled
    BY <1>5, <2>1
  <2>. QED
    BY <2>2, <2>3 DEF CountOK
<1>7. SpentOnDecodes'
  <2>1. CASE status[s] = "decode"
    <3> SUFFICES ASSUME scheduled'.prefill = <<>> PROVE spent' = Len(scheduled'.decode)
      BY DEF SpentOnDecodes
    <3>1. spent = Len(scheduled.decode)
      BY <1>1, <1>5, <2>1 DEF PromptInv, SpentOnDecodes
    <3>. QED
      BY <1>1, <1>4, <1>5, <2>1, <3>1
  <2>2. CASE status[s] = "prefill"
    BY <1>5, <2>2 DEF SpentOnDecodes
  <2>. QED
    BY <1>3, <2>1, <2>2
<1>8. ChunksOfPrompts'
  <2>1. CASE status[s] = "decode"
    BY <1>1, <1>5, <2>1 DEF PromptInv, ChunksOfPrompts
  <2>2. CASE status[s] = "prefill"
    <3>1. scheduled \in [decode : Seq(Group), prefill : Seq(Group), new : Seq(Group)]
      BY DEF QueueInv, QueueTypeOK
    <3>2. scheduled' = [scheduled EXCEPT !["prefill"] = Append(@, g)]
      BY <1>1, <2>2 DEF Scheduled
    <3>3. scheduled'.prefill = Append(scheduled.prefill, g)
      BY <3>1, <3>2
    <3>4. g \in Group /\ g.seq = s
      BY <1>2, <1>4 DEF Group
    <3>5. \A h \in Group : h.seq \in SeqId
      BY DEF Group
    <3> HIDE DEF g
    <3>6. /\ Seqs(scheduled.prefill) \in Seq(SeqId)
          /\ Seqs(scheduled'.prefill) = Append(Seqs(scheduled.prefill), s)
      BY <3>1, <3>3, <3>4, <3>5, GroupList
    <3>7. ToSet(Seqs(scheduled'.prefill)) = ToSet(Seqs(scheduled.prefill)) \cup {s}
      BY <1>2, <3>6, AppendList
    <3>. QED
      BY <1>1, <2>2, <3>7 DEF PromptInv, ChunksOfPrompts
  <2>. QED
    BY <1>3, <2>1, <2>2
<1>9. OneAtATime' /\ LeftOver' /\ PlannedAlone' /\ AllPrompted'
  BY <1>1 DEF PromptInv, OneAtATime, OnePrompt, LeftOver, PlannedAlone, AllPrompted
<1>10. \A r \in SeqId : ProgressOK(r)'
  BY <1>1 DEF PromptInv, ProgressOK, SeqLen
<1>. QED
  BY <1>6, <1>7, <1>8, <1>9, <1>10 DEF PromptInv

LEMMA PreemptPrompts == ASSUME QueueInv, PromptInv, Preempt PROVE PromptInv'
<1>0. PICK v : v = Last(running)
  OBVIOUS
<1>1. /\ phase = "running" /\ phase' = phase /\ running # <<>> /\ running' = Front(running)
      /\ status' = [status EXCEPT ![v] = "waiting"] /\ done' = [done EXCEPT ![v] = 0]
      /\ UNCHANGED <<scheduled, batch, sent, spent, tokens>>
  BY <1>0 DEF Preempt
<1>2. running \in Seq(SeqId) /\ v \in SeqId /\ v \in ToSet(running)
  BY <1>0, <1>1, FrontList DEF QueueInv, QueueTypeOK, NoRepetition
<1>3. /\ \A r \in SeqId : status'[r] = IF r = v THEN "waiting" ELSE status[r]
      /\ \A r \in SeqId : done'[r] = IF r = v THEN 0 ELSE done[r]
  BY <1>1 DEF QueueInv, QueueTypeOK
<1>4. ~InScheduled(v)
  <2>1. Place(v)
    BY <1>2 DEF QueueInv
  <2>. QED
    BY <1>2, <2>1 DEF Place, RunningPlace
<1>5. CountOK'
  <2>1. Len(running') = Len(running) - 1 /\ Len(running) \in Nat /\ NumScheduled \in Nat
        /\ NumScheduled' = NumScheduled
    BY <1>1, <1>2, Lengths, GroupCounts DEF NumScheduled
  <2>2. Len(running) + NumScheduled <= MaxSeqs /\ Len(batch') + Len(sent') <= MaxSeqs
    BY <1>1 DEF PromptInv, CountOK
  <2>3. Len(running') + NumScheduled' <= MaxSeqs
    BY <2>1, <2>2, MaxSeqsAssumption
  <2>. QED
    BY <2>2, <2>3 DEF CountOK
<1>6. ChunksOfPrompts'
  <2>1. ToSet(Seqs(scheduled.prefill)) \subseteq SeqId /\ v \notin ToSet(Seqs(scheduled.prefill))
    BY <1>4, QueueFacts, Elements DEF InScheduled
  <2>. QED
    BY <1>1, <1>3, <2>1 DEF PromptInv, ChunksOfPrompts
<1>7. OneAtATime' /\ SpentOnDecodes'
  BY <1>1, <1>3 DEF PromptInv, OneAtATime, OnePrompt, SpentOnDecodes
<1>8. LeftOver' /\ PlannedAlone' /\ AllPrompted'
  BY <1>1 DEF LeftOver, PlannedAlone, AllPrompted
<1>9. ASSUME NEW r \in SeqId PROVE ProgressOK(r)'
  <2>1. SeqLen(r)' = SeqLen(r)
    BY <1>1 DEF SeqLen
  <2>. QED
    BY <1>3, <2>1 DEF PromptInv, ProgressOK
<1>. QED
  BY <1>5, <1>6, <1>7, <1>8, <1>9 DEF PromptInv

(* When the loop stops before a running group, it is for want of tokens.      *)
LEMMA NoTokensLeft ==
  ASSUME QueueInv, BudgetInv, PromptInv, tokens \in [SeqId -> Text], NEW s \in SeqId, IsLive(s),
         NumNewTokens(s) = 0
  PROVE  /\ Remaining \in Nat /\ Remaining < BlockSize
         /\ status[s] = "decode" => Remaining = 0
<1>0. BlockSize \in Nat \ {0} /\ Budget \in Nat
  BY BlockSizeAssumption, BudgetAssumption
<1>1. Remaining \in Nat
  BY <1>0 DEF Remaining, BudgetInv
<1> DEFINE w == IF status[s] = "decode" THEN 1 ELSE SeqLen(s) - done[s]
           q == Remaining \div BlockSize
<1>2. w \in Int /\ w > 0
  <2>1. ProgressOK(s) /\ done[s] \in Int /\ SeqLen(s) \in Nat
    BY Hashes DEF PromptInv, QueueInv, QueueTypeOK
  <2>. QED
    BY <2>1 DEF ProgressOK, IsLive
<1>3. NumNewTokens(s) = IF Remaining < w THEN q * BlockSize ELSE w
  BY DEF NumNewTokens
<1>4. status[s] = "decode" => w = 1
  OBVIOUS
<1> HIDE DEF w
<1>5. Remaining < w /\ q * BlockSize = 0
  BY <1>1, <1>2, <1>3
<1>6. Remaining < BlockSize
  <2>1. q \in Int /\ q * BlockSize <= Remaining /\ Remaining < q * BlockSize + BlockSize
    BY <1>0, <1>1, Division
  <2> HIDE DEF q
  <2>. QED
    BY <1>0, <1>1, <1>5, <2>1
<1>. QED
  BY <1>1, <1>2, <1>4, <1>5, <1>6

LEMMA EndRunningPrompts ==
  ASSUME QueueInv, BudgetInv, PromptInv, SeqsFit, tokens \in [SeqId -> Text], EndRunning
  PROVE  PromptInv'
<1>0. PICK s : s = Head(running)
  OBVIOUS
<1>1. /\ phase = "running" /\ phase' = "prefill"
      /\ running # <<>> => NumNewTokens(s) = 0
      /\ UNCHANGED <<status, running, scheduled, batch, sent, done, tokens, spent>>
  BY <1>0 DEF EndRunning, queueVars
<1>2. LeftOver'
  <2> SUFFICES ASSUME running # <<>>
               PROVE  spent = Budget /\ \A r \in ToSet(running) : status[r] # "prefill"
    BY <1>1 DEF LeftOver
  <2>1. running \in Seq(SeqId) /\ s \in SeqId /\ s \in ToSet(running)
        /\ ToSet(running) \subseteq SeqId
    BY <1>0, TailList, Elements DEF QueueInv, QueueTypeOK
  <2>2. \A r \in ToSet(running) : IsLive(r) /\ ~InScheduled(r)
    BY <2>1 DEF QueueInv, Place, RunningPlace
  <2>3. Remaining \in Nat /\ Remaining < BlockSize /\ (status[s] = "decode" => Remaining = 0)
    BY <1>1, <2>1, <2>2, NoTokensLeft
  <2>4. scheduled.prefill # <<>>
    <3> SUFFICES ASSUME scheduled.prefill = <<>> PROVE FALSE
      OBVIOUS
    <3>1. spent = Len(scheduled.decode)
      BY <1>1 DEF PromptInv, SpentOnDecodes
    <3>2. Len(scheduled.decode) <= NumScheduled /\ Len(scheduled.decode) \in Nat
      <4> DEFINE d == Len(scheduled.decode)
                 f == Len(scheduled.prefill)
                 n == Len(scheduled.new)
      <4>1. NumScheduled = (d + f) + n /\ d \in Nat /\ f \in Nat /\ n \in Nat
        BY GroupCounts DEF NumScheduled
      <4>2. Len(scheduled.decode) = d
        OBVIOUS
      <4> HIDE DEF d, f, n
      <4>. QED
        BY <4>1, <4>2
    <3>3. Len(running) >= 1 /\ Len(running) \in Nat /\ NumScheduled \in Nat
          /\ Len(running) + NumScheduled <= MaxSeqs
      BY <2>1, Lengths, GroupCounts DEF PromptInv, CountOK
    <3>4. MaxSeqs \in Nat /\ BlockSize \in Nat /\ Budget \in Nat
          /\ MaxSeqs + BlockSize <= Budget + 1 /\ Budget - spent < BlockSize
      BY <2>3, MaxSeqsAssumption, BlockSizeAssumption, BudgetAssumption DEF SeqsFit, Remaining
    <3>5. spent + 1 <= MaxSeqs /\ spent \in Nat
      BY <3>1, <3>2, <3>3, <3>4
    <3>. QED
      BY <3>4, <3>5
  <2>5. PICK p \in SeqId : p \in ToSet(Seqs(scheduled.prefill))
    <3>1. /\ scheduled.prefill \in Seq(Group) /\ Seqs(scheduled.prefill) \in Seq(SeqId)
          /\ \A h \in Group : h.seq \in SeqId
      BY QueueFacts DEF Group
    <3>2. Seqs(scheduled.prefill) # <<>>
      BY <2>4, <3>1, GroupList
    <3>. QED
      BY <3>1, <3>2, TailList
  <2>6. status[p] = "prefill" /\ InScheduled(p)
    BY <2>5 DEF PromptInv, ChunksOfPrompts, InScheduled
  <2>7. ASSUME NEW r \in ToSet(running) PROVE status[r] = "decode"
    <3>1. r \in SeqId /\ IsLive(r) /\ r # p
      BY <2>1, <2>2, <2>6
    <3>2. status[r] # "prefill"
      BY <1>1, <2>6, <3>1 DEF PromptInv, OneAtATime, OnePrompt
    <3>. QED
      BY <3>1, <3>2 DEF IsLive
  <2>8. spent = Budget
    <3>1. Budget - spent = 0
      BY <2>1, <2>3, <2>7 DEF Remaining
    <3>2. spent \in Int /\ Budget \in Int
      BY BudgetAssumption DEF BudgetInv
    <3>. QED
      BY <3>1, <3>2
  <2>. QED
    BY <2>7, <2>8
<1>3. OneAtATime' /\ SpentOnDecodes' /\ PlannedAlone' /\ AllPrompted'
  BY <1>1 DEF OneAtATime, SpentOnDecodes, PlannedAlone, AllPrompted
<1>. QED
  BY <1>1, <1>2, <1>3, SameRequests DEF PromptInv

LEMMA StartPrefillPrompts ==
  ASSUME QueueInv, BudgetInv, PromptInv, tokens \in [SeqId -> Text], StartPrefill
  PROVE  PromptInv'
<1>0. PICK s : s = Head(waiting)
  OBVIOUS
<1>1. /\ phase = "prefill" /\ phase' = "plan" /\ waiting # <<>> /\ BudgetAllows(s)
      /\ status' = [status EXCEPT ![s] = "prefill"]
      /\ UNCHANGED <<running, scheduled, batch, sent, done, tokens, spent>>
  BY <1>0 DEF StartPrefill
<1>2. s \in SeqId /\ s \in ToSet(waiting)
  BY <1>0, <1>1, TailList DEF QueueInv, QueueTypeOK
<1>3. status[s] = "waiting"
  <2>1. Place(s)
    BY <1>2 DEF QueueInv
  <2>. QED
    BY <1>1, <1>2, <2>1 DEF Place, WaitingPlace, Planned
<1>4. \A r \in SeqId : status'[r] = IF r = s THEN "prefill" ELSE status[r]
  BY <1>1 DEF QueueInv, QueueTypeOK
<1>5. Remaining \in Nat /\ Remaining > 0 /\ SeqLen(s) > 0 /\ done[s] = 0
  <2>1. done[s] = 0 /\ SeqLen(s) \in Nat
    BY <1>2, <1>3, Hashes DEF PromptInv, ProgressOK
  <2>2. Remaining \in Nat /\ BlockSize \in Nat \ {0}
    BY BudgetAssumption, BlockSizeAssumption DEF Remaining, BudgetInv
  <2> DEFINE q == Remaining \div BlockSize
  <2>3. (IF Remaining < SeqLen(s) - 0 THEN q * BlockSize ELSE SeqLen(s) - 0) > 0
    BY <1>1, <1>3, <2>1 DEF BudgetAllows, NumNewTokens
  <2>4. q * BlockSize \in Int /\ q * BlockSize <= Remaining
    BY <2>2, Division
  <2> HIDE DEF q
  <2>. QED
    BY <2>1, <2>2, <2>3, <2>4
<1>6. running = <<>>
  <2>1. Budget - spent > 0 /\ spent \in Int /\ Budget \in Int
    BY <1>5, BudgetAssumption DEF Remaining, BudgetInv
  <2>2. spent # Budget
    BY <2>1
  <2>. QED
    BY <1>1, <2>2 DEF PromptInv, LeftOver
<1>7. PlannedAlone'
  BY <1>1, <1>6 DEF PlannedAlone, BudgetAllows, NumScheduled
<1>8. CountOK'
  BY <1>1 DEF PromptInv, CountOK, NumScheduled
<1>9. ChunksOfPrompts'
  <2>1. ToSet(Seqs(scheduled.prefill)) \subseteq SeqId
    BY QueueFacts, Elements
  <2>. QED
    BY <1>1, <1>4, <2>1 DEF PromptInv, ChunksOfPrompts
<1>10. OneAtATime' /\ SpentOnDecodes' /\ LeftOver' /\ AllPrompted'
  BY <1>1 DEF OneAtATime, SpentOnDecodes, LeftOver, AllPrompted
<1>11. ASSUME NEW r \in SeqId PROVE ProgressOK(r)'
  <2>1. SeqLen(r)' = SeqLen(r)
    BY <1>1 DEF SeqLen
  <2>. QED
    BY <1>1, <1>4, <1>5, <2>1 DEF PromptInv, ProgressOK
<1>. QED
  BY <1>7, <1>8, <1>9, <1>10, <1>11 DEF PromptInv

LEMMA PlanPrefillPrompts == ASSUME QueueInv, PromptInv, PlanPrefill PROVE PromptInv'
<1>0. PICK s : s = Head(waiting)
  OBVIOUS
<1>1. /\ phase = "plan" /\ phase' = "prefill"
      /\ scheduled' = Scheduled(s, "new", ChunkFor(s).end)
      /\ UNCHANGED <<status, running, batch, sent, done, tokens>>
  BY <1>0 DEF PlanPrefill, ChunkFor, TargetsFor, KeyFor, LiveFor
<1>2. NumScheduled' = NumScheduled + 1 /\ scheduled'.prefill = scheduled.prefill
  BY <1>1, GroupCounted
<1>3. running = <<>> /\ NumScheduled < MaxSeqs
  BY <1>1 DEF PromptInv, PlannedAlone
<1>4. CountOK'
  <2>1. Len(running') = 0 /\ NumScheduled \in Nat
    BY <1>1, <1>3, GroupCounts
  <2>2. Len(batch') + Len(sent') <= MaxSeqs
    BY <1>1 DEF PromptInv, CountOK
  <2>3. Len(running') + NumScheduled' <= MaxSeqs
    BY <1>2, <1>3, <2>1, MaxSeqsAssumption
  <2>. QED
    BY <2>2, <2>3 DEF CountOK
<1>5. ChunksOfPrompts'
  BY <1>1, <1>2 DEF PromptInv, ChunksOfPrompts
<1>6. OneAtATime' /\ SpentOnDecodes' /\ LeftOver' /\ PlannedAlone' /\ AllPrompted'
  BY <1>1, <1>3 DEF OneAtATime, SpentOnDecodes, LeftOver, PlannedAlone, AllPrompted
<1>7. \A r \in SeqId : ProgressOK(r)'
  BY <1>1 DEF PromptInv, ProgressOK, SeqLen
<1>. QED
  BY <1>4, <1>5, <1>6, <1>7 DEF PromptInv

(* Whoever waits for a chunk is no prompt, so every prompt is in the batch.   *)
LEMMA EndPrefillPrompts == ASSUME QueueInv, PromptInv, EndPrefill PROVE PromptInv'
<1> DEFINE D == Seqs(scheduled.decode)
           F == Seqs(scheduled.prefill)
           N == Seqs(scheduled.new)
<1>1. /\ phase = "prefill" /\ phase' = "metadata" /\ scheduled' = NothingScheduled
      /\ running' = ((running \o D) \o F) \o N
      /\ batch' = (scheduled.new \o scheduled.prefill) \o scheduled.decode
      /\ UNCHANGED <<status, sent, done, tokens>>
  BY DEF EndPrefill
<1>2. /\ running \in Seq(SeqId)
      /\ scheduled.decode \in Seq(Group) /\ scheduled.prefill \in Seq(Group)
      /\ scheduled.new \in Seq(Group)
      /\ D \in Seq(SeqId) /\ F \in Seq(SeqId) /\ N \in Seq(SeqId)
      /\ \A g \in Group : g.seq \in SeqId
  BY QueueFacts DEF Group
<1>3. /\ Len(D) = Len(scheduled.decode) /\ Len(F) = Len(scheduled.prefill)
      /\ Len(N) = Len(scheduled.new)
  BY <1>2, GroupList
<1>4. \A r : InScheduled(r) <=> r \in ToSet(D) \/ r \in ToSet(F) \/ r \in ToSet(N)
  BY DEF InScheduled
<1>5. /\ batch' \in Seq(Group) /\ Seqs(batch') = (N \o F) \o D
      /\ Len(batch') = (Len(scheduled.new) + Len(scheduled.prefill)) + Len(scheduled.decode)
  <2> DEFINE l == scheduled.new \o scheduled.prefill
  <2>1. l \in Seq(Group) /\ Len(l) = Len(scheduled.new) + Len(scheduled.prefill)
    BY <1>2, ConcatProperties
  <2>2. Seqs(l) = N \o F
    BY <1>2, GroupList
  <2>3. batch' = l \o scheduled.decode
    BY <1>1
  <2> HIDE DEF l
  <2>4. batch' \in Seq(Group) /\ Len(batch') = Len(l) + Len(scheduled.decode)
    BY <1>2, <2>1, <2>3, ConcatProperties
  <2>5. Seqs(batch') = Seqs(l) \o D
    BY <1>2, <2>1, <2>3, GroupList
  <2>. QED
    BY <2>1, <2>2, <2>4, <2>5
<1>6. Len(running') = ((Len(running) + Len(D)) + Len(F)) + Len(N)
  <2> DEFINE l == running \o D
             m == l \o F
  <2> HIDE DEF D, F, N
  <2>1. l \in Seq(SeqId) /\ Len(l) = Len(running) + Len(D)
    BY <1>2, ConcatProperties
  <2>2. running' = m \o N
    BY <1>1
  <2> HIDE DEF l
  <2>3. m \in Seq(SeqId) /\ Len(m) = Len(l) + Len(F)
    BY <1>2, <2>1, ConcatProperties
  <2> HIDE DEF m
  <2>4. Len(running') = Len(m) + Len(N)
    BY <1>2, <2>2, <2>3, ConcatProperties
  <2>. QED
    BY <2>1, <2>3, <2>4
<1>7. ToSet(Seqs(batch')) = ToSet(N) \cup ToSet(F) \cup ToSet(D)
  <2> DEFINE l == N \o F
  <2> HIDE DEF D, F, N
  <2>1. l \in Seq(SeqId) /\ ToSet(l) = ToSet(N) \cup ToSet(F)
    BY <1>2, ConcatList
  <2>2. Seqs(batch') = l \o D
    BY <1>5
  <2> HIDE DEF l
  <2>. QED
    BY <1>2, <2>1, <2>2, ConcatList
<1>8. CountOK'
  <2> DEFINE d == Len(scheduled.decode)
             f == Len(scheduled.prefill)
             n == Len(scheduled.new)
             k == Len(running)
  <2>1. /\ d \in Nat /\ f \in Nat /\ n \in Nat /\ k \in Nat
        /\ NumScheduled = (d + f) + n /\ k + NumScheduled <= MaxSeqs
    BY GroupCounts DEF NumScheduled, PromptInv, CountOK
  <2>2. Len(running') = ((k + d) + f) + n /\ Len(batch') = (n + f) + d
    BY <1>3, <1>5, <1>6
  <2>3. Len(sent') = 0 /\ NumScheduled' = 0
    <3>1. sent' = <<>>
      BY <1>1 DEF QueueInv, PhaseOK
    <3>2. NumScheduled' = Len(scheduled'.decode) + Len(scheduled'.prefill) + Len(scheduled'.new)
      BY DEF NumScheduled
    <3>3. scheduled'.decode = <<>> /\ scheduled'.prefill = <<>> /\ scheduled'.new = <<>>
      BY <1>1, NoGroups
    <3>. QED
      BY <3>1, <3>2, <3>3
  <2> HIDE DEF d, f, n, k
  <2>4. MaxSeqs \in Nat
    BY MaxSeqsAssumption
  <2>5. Len(running') + NumScheduled' <= MaxSeqs /\ Len(batch') + Len(sent') <= MaxSeqs
    BY <2>1, <2>2, <2>3, <2>4
  <2>. QED
    BY <2>5 DEF CountOK
<1>9. AllPrompted'
  <2> SUFFICES ASSUME NEW r \in SeqId, status[r] = "prefill" PROVE r \in ToSet(Seqs(batch'))
    BY <1>1 DEF AllPrompted, IsPrompted
  <2>1. r \in ToSet(running) \/ InScheduled(r)
    <3>1. Place(r)
      BY DEF QueueInv
    <3>. QED
      BY <1>1, <3>1 DEF Place, RunningPlace, IsLive, Planned
  <2>2. r \notin ToSet(running)
    <3> SUFFICES ASSUME r \in ToSet(running) PROVE FALSE
      OBVIOUS
    <3>1. running # <<>>
      BY EmptyList
    <3>. QED
      BY <1>1, <3>1 DEF PromptInv, LeftOver
  <2>. QED
    BY <1>4, <1>7, <2>1, <2>2
<1>10. ChunksOfPrompts'
  BY <1>1, NoGroups, EmptyList DEF ChunksOfPrompts
<1>11. OneAtATime' /\ SpentOnDecodes' /\ LeftOver' /\ PlannedAlone'
  BY <1>1 DEF OneAtATime, SpentOnDecodes, LeftOver, PlannedAlone
<1>12. \A r \in SeqId : ProgressOK(r)'
  BY <1>1 DEF PromptInv, ProgressOK, SeqLen
<1>. QED
  BY <1>8, <1>9, <1>10, <1>11, <1>12 DEF PromptInv

LEMMA InitPrompts == ASSUME Init PROVE PromptInv
<1>1. /\ \A s \in SeqId : status[s] = "absent" /\ done[s] = 0
      /\ phase = "idle" /\ running = <<>> /\ scheduled = NothingScheduled /\ batch = <<>>
      /\ sent = <<>>
  BY DEF Init
<1>2. CountOK
  <2>1. Len(running) = 0 /\ Len(batch) = 0 /\ Len(sent) = 0 /\ NumScheduled = 0
    BY <1>1, NoGroups DEF NumScheduled
  <2>. QED
    BY <2>1, MaxSeqsAssumption DEF CountOK
<1>3. ChunksOfPrompts
  BY <1>1, NoGroups, EmptyList DEF ChunksOfPrompts
<1>4. OneAtATime /\ SpentOnDecodes /\ LeftOver /\ PlannedAlone /\ AllPrompted
  BY <1>1 DEF OneAtATime, OnePrompt, SpentOnDecodes, LeftOver, PlannedAlone, AllPrompted
<1>5. \A s \in SeqId : ProgressOK(s)
  BY <1>1 DEF ProgressOK
<1>. QED
  BY <1>2, <1>3, <1>4, <1>5 DEF PromptInv

LEMMA PromptsKept ==
  ASSUME SchedulerInv, PromptInv, SeqsFit, [Next]_vars
  PROVE  PromptInv'
<1>0. QueueInv /\ BudgetInv /\ tokens \in [SeqId -> Text]
  BY DEF SchedulerInv, ManagerInv, ManagerTypeOK
<1>1. ASSUME ManagerStep \/ UNCHANGED vars PROVE PromptInv'
  <2>1. UNCHANGED <<phase, spent, status, running, scheduled, batch, sent, done, tokens>>
    BY <1>1 DEF ManagerStep, vars, engineVars, queueVars
  <2>. QED
    BY <2>1, SamePrompts
<1>. QED
  BY <1>0, <1>1, StartStepPrompts, EndMetadataPrompts, ExecutePrompts, EndStepPrompts,
     AddRequestPrompts, LeavingPrompts, ProgressPrompts, MetadataPrompts,
     ScheduleRunningPrompts, PreemptPrompts, EndRunningPrompts, StartPrefillPrompts,
     PlanPrefillPrompts, EndPrefillPrompts DEF Next

(* The asserts at the end of _schedule_chunked_prefill hold whenever the budget *)
(* leaves a block to the last group: no step computes more than               *)
(* max_num_batched_tokens tokens or takes more than max_num_seqs groups.      *)
THEOREM BudgetAssertsHold == ASSUME SeqsFit PROVE Spec => []BudgetRespected
<1>1. Init => PromptInv
  BY InitPrompts
<1>2. SchedulerInv /\ PromptInv /\ [Next]_vars => PromptInv'
  BY PromptsKept
<1>3. SchedulerInv /\ PromptInv => BudgetRespected
  <2> SUFFICES ASSUME SchedulerInv, PromptInv PROVE BudgetRespected
    OBVIOUS
  <2>0. QueueInv /\ spent <= Budget
    BY DEF SchedulerInv, BudgetInv
  <2>1. /\ Len(running) \in Nat /\ Len(batch) \in Nat /\ Len(sent) \in Nat
        /\ NumScheduled \in Nat /\ MaxSeqs \in Nat
        /\ scheduled = NothingScheduled => NumScheduled = 0
    BY <2>0, GroupCounts, MaxSeqsAssumption
  <2>2. Len(running) + NumScheduled <= MaxSeqs /\ Len(batch) + Len(sent) <= MaxSeqs
    BY DEF PromptInv, CountOK
  <2>3. NumScheduled = 0 \/ (Len(batch) = 0 /\ Len(sent) = 0)
    BY <2>0, <2>1 DEF QueueInv, PhaseOK
  <2>4. NumScheduled + Len(batch) + Len(sent) <= MaxSeqs
    BY <2>1, <2>2, <2>3
  <2>. QED
    BY <2>0, <2>4 DEF BudgetRespected
<1>. QED
  BY <1>1, <1>2, <1>3, SchedulerInvariant, PTL DEF Spec

------------------------
(* The index of checkpoints is an LRU list without repetition.  A step admits   *)
(* at most two keys, the later one never at the cost of the earlier one.       *)
(* The order of a list that loses an element.                               *)
LEMMA RemovedLast ==
  ASSUME NEW S, NEW q \in Seq(S), IsInjective(q), NEW x
  PROVE  LET r == RemoveFirst(q, x)
         IN  /\ Len(r) = IF x \in ToSet(q) THEN Len(q) - 1 ELSE Len(q)
             /\ q # <<>> /\ q[Len(q)] # x => Len(r) > 0 /\ r[Len(r)] = q[Len(q)]
<1>0. /\ DOMAIN q = 1..Len(q) /\ Len(q) \in Nat /\ (q # <<>> => Len(q) > 0)
      /\ \A y : y \in ToSet(q) <=> \E i \in 1..Len(q) : q[i] = y
  BY Elements
<1>1. CASE x \notin ToSet(q)
  BY <1>0, <1>1 DEF RemoveFirst
<1>2. CASE x \in ToSet(q)
  <2>1. PICK k \in 1..Len(q) : q[k] = x
    BY <1>0, <1>2
  <2>2. /\ Len(RemoveFirst(q, x)) = Len(q) - 1
        /\ \A i \in 1..(Len(q) - 1) : RemoveFirst(q, x)[i] = IF i < k THEN q[i] ELSE q[i + 1]
    BY <1>2, <2>1, RemovedAt
  <2>3. ASSUME q[Len(q)] # x
        PROVE  Len(q) - 1 \in 1..(Len(q) - 1) /\ ~(Len(q) - 1 < k) /\ (Len(q) - 1) + 1 = Len(q)
    BY <1>0, <2>1, <2>3
  <2>. QED
    BY <1>0, <1>2, <2>1, <2>2, <2>3
<1>. QED
  BY <1>1, <1>2

(* The index: no key twice, no more keys than it has room for.              *)
IndexOK(q) == q \in Seq(Hash) /\ IsInjective(q) /\ Len(q) <= Capacity

LEMMA MovedKey ==
  ASSUME NEW q \in Seq(Hash), IsInjective(q), NEW k \in Hash
  PROVE  LET m == Gdn!MovedToEnd(q, k)
         IN  /\ m \in Seq(Hash) /\ IsInjective(m) /\ ToSet(m) = ToSet(q) \cup {k}
             /\ Len(m) = IF k \in ToSet(q) THEN Len(q) ELSE Len(q) + 1
             /\ Len(m) > 0 /\ m[Len(m)] = k
             /\ q # <<>> /\ q[Len(q)] # k => Len(m) > 1 /\ m[Len(m) - 1] = q[Len(q)]
             /\ k \notin ToSet(q) /\ q # <<>> => m[1] = q[1]
<1> DEFINE r == RemoveFirst(q, k)
<1>1. r \in Seq(Hash) /\ IsInjective(r) /\ ToSet(r) = ToSet(q) \ {k}
  BY RemoveList
<1>2. /\ Len(r) = IF k \in ToSet(q) THEN Len(q) - 1 ELSE Len(q)
      /\ q # <<>> /\ q[Len(q)] # k => Len(r) > 0 /\ r[Len(r)] = q[Len(q)]
  BY RemovedLast
<1>3. Gdn!MovedToEnd(q, k) = Append(r, k)
  BY DEF Gdn!MovedToEnd, Gdn!RemoveFirst, Gdn!RemoveAt, Gdn!SelectInSeq, Gdn!Min,
         RemoveFirst, RemoveAt, SelectInSeq, Min
<1>7. k \notin ToSet(q) => r = q
  BY DEF RemoveFirst, ToSet
<1> HIDE DEF r
<1> DEFINE m == Append(r, k)
<1>4. /\ m \in Seq(Hash) /\ Len(m) = Len(r) + 1 /\ Len(r) \in Nat /\ Len(q) \in Nat
      /\ m[Len(r) + 1] = k /\ \A i \in 1..Len(r) : m[i] = r[i]
  BY <1>1
<1>5. ToSet(m) = ToSet(r) \cup {k} /\ IsInjective(m)
  BY <1>1, AppendList
<1> HIDE DEF m
<1>6. q # <<>> /\ q[Len(q)] # k => Len(m) > 1 /\ m[Len(m) - 1] = q[Len(q)]
  BY <1>2, <1>4
<1>8. k \notin ToSet(q) /\ q # <<>> => m[1] = q[1]
  BY <1>4, <1>7
<1>. QED
  BY <1>1, <1>2, <1>3, <1>4, <1>5, <1>6, <1>8 DEF m

(* One key is admitted: it stays, and so does the key admitted before it.    *)
Admitted(acc, k, next) ==
  /\ IndexOK(next.index) /\ next.evicted \in Seq(Hash)
  /\ next.index # <<>> /\ next.index[Len(next.index)] = k
  /\ \E E : /\ ToSet(next.evicted) = ToSet(acc.evicted) \cup E
            /\ ToSet(next.index) = (ToSet(acc.index) \cup {k}) \ E
            /\ k \notin E
            /\ acc.index # <<>> => acc.index[Len(acc.index)] \notin E
            /\ \A x \in E : Len(acc.index) = Capacity /\ x = acc.index[1]
  /\ acc.index # <<>> =>
       \E j \in {Len(next.index) - 1, Len(next.index)} :
         j > 0 /\ next.index[j] = acc.index[Len(acc.index)]

LEMMA AdmittedOne ==
  ASSUME NEW acc, IndexOK(acc.index), acc.evicted \in Seq(Hash), NEW k \in Hash, Capacity # 0,
         NEW next, next = Gdn!AdmitOne(acc, k)
  PROVE  Admitted(acc, k, next)
<1> USE DEF Admitted
<1> DEFINE q == acc.index
           m == Gdn!MovedToEnd(q, k)
<1>0. Capacity \in Nat /\ Capacity > 1
  BY IndexAssumption
<1>1. q \in Seq(Hash) /\ IsInjective(q) /\ Len(q) <= Capacity /\ Len(q) \in Nat
  BY DEF IndexOK
<1>2. /\ m \in Seq(Hash) /\ IsInjective(m) /\ ToSet(m) = ToSet(q) \cup {k}
      /\ Len(m) <= Len(q) + 1 /\ Len(m) \in Nat
      /\ Len(m) > 0 /\ m[Len(m)] = k
      /\ q # <<>> /\ q[Len(q)] # k => Len(m) > 1 /\ m[Len(m) - 1] = q[Len(q)]
      /\ Len(m) > Capacity => Len(q) = Capacity /\ m[1] = q[1]
  <2>1. /\ m \in Seq(Hash) /\ IsInjective(m) /\ ToSet(m) = ToSet(q) \cup {k}
        /\ Len(m) = IF k \in ToSet(q) THEN Len(q) ELSE Len(q) + 1
        /\ Len(m) > 0 /\ m[Len(m)] = k
        /\ q # <<>> /\ q[Len(q)] # k => Len(m) > 1 /\ m[Len(m) - 1] = q[Len(q)]
        /\ k \notin ToSet(q) /\ q # <<>> => m[1] = q[1]
    BY <1>1, MovedKey
  <2> HIDE DEF m, q
  <2>. QED
    BY <1>0, <1>1, <2>1
<1>3. Gdn!AdmitOne(acc, k) =
        IF Len(m) > Capacity
          THEN [index |-> Tail(m), evicted |-> Append(acc.evicted, Head(m))]
          ELSE [index |-> m, evicted |-> acc.evicted]
  BY DEF Gdn!AdmitOne
<1> HIDE DEF m
<1>4. CASE ~(Len(m) > Capacity)
  <2>1. Gdn!AdmitOne(acc, k) = [index |-> m, evicted |-> acc.evicted]
    BY <1>3, <1>4
  <2>2. IndexOK(m) /\ m # <<>>
    BY <1>0, <1>2, <1>4 DEF IndexOK
  <2> DEFINE E == {}
  <2>3. /\ ToSet(acc.evicted) = ToSet(acc.evicted) \cup E
        /\ ToSet(m) = (ToSet(q) \cup {k}) \ E
        /\ k \notin E /\ (q # <<>> => q[Len(q)] \notin E) /\ \A x \in E : FALSE
    BY <1>2
  <2> HIDE DEF E
  <2>4. q # <<>> => \E j \in {Len(m) - 1, Len(m)} : j > 0 /\ m[j] = q[Len(q)]
    BY <1>2
  <2>. QED
    BY <1>2, <2>1, <2>2, <2>3, <2>4
<1>5. CASE Len(m) > Capacity
  <2> DEFINE t == Tail(m)
             h == Head(m)
  <2>1. Gdn!AdmitOne(acc, k) = [index |-> t, evicted |-> Append(acc.evicted, h)]
    BY <1>3, <1>5
  <2>2. /\ t \in Seq(Hash) /\ Len(t) = Len(m) - 1 /\ h \in Hash /\ h = m[1]
        /\ \A i \in 1..(Len(m) - 1) : t[i] = m[i + 1]
        /\ Len(m) > 2 /\ Len(q) = Capacity /\ h = q[1]
    BY <1>0, <1>2, <1>5
  <2>3. IsInjective(t) /\ ToSet(t) = ToSet(m) \ {h}
    BY <1>2, <2>2, TailList
  <2>4. IndexOK(t) /\ t # <<>> /\ t[Len(t)] = k
    <3> HIDE DEF t, h, q
    <3>1. Len(t) <= Capacity /\ Len(t) > 0
      BY <1>0, <1>1, <1>2, <2>2
    <3>2. Len(m) - 1 \in 1..(Len(m) - 1) /\ (Len(m) - 1) + 1 = Len(m)
      BY <1>2, <2>2
    <3>3. t[Len(t)] = m[Len(m)]
      BY <2>2, <3>2
    <3>. QED
      BY <1>2, <2>2, <2>3, <3>1, <3>3 DEF IndexOK
  <2>5. /\ Append(acc.evicted, h) \in Seq(Hash)
        /\ ToSet(Append(acc.evicted, h)) = ToSet(acc.evicted) \cup {h}
    BY <2>2, AppendList
  <2>6. 1 \in DOMAIN m /\ Len(m) \in DOMAIN m /\ Len(m) - 1 \in DOMAIN m
    BY <1>2, <2>2
  <2>7. k # h
    BY <1>2, <2>2, <2>6 DEF IsInjective
  <2>8. q # <<>> => q[Len(q)] # h
    <3>1. m[Len(m) - 1] # h
      <4>1. Len(m) - 1 # 1 /\ h = m[1]
        BY <1>2, <2>2
      <4>. QED
        BY <1>2, <2>6, <4>1 DEF IsInjective
    <3>. QED
      BY <1>2, <2>7, <3>1
  <2> HIDE DEF t, h
  <2> DEFINE E == {h}
  <2>9. /\ ToSet(Append(acc.evicted, h)) = ToSet(acc.evicted) \cup E
        /\ ToSet(t) = (ToSet(q) \cup {k}) \ E
        /\ k \notin E /\ (q # <<>> => q[Len(q)] \notin E)
        /\ \A x \in E : Len(q) = Capacity /\ x = q[1]
    BY <1>2, <2>2, <2>3, <2>5, <2>7, <2>8
  <2> HIDE DEF E
  <2>10. q # <<>> => \E j \in {Len(t) - 1, Len(t)} : j > 0 /\ t[j] = q[Len(q)]
    <3>1. CASE q[Len(q)] = k
      BY <1>2, <2>2, <2>4, <3>1
    <3>2. CASE q # <<>> /\ q[Len(q)] # k
      <4>1. Len(m) - 2 \in 1..(Len(m) - 1) /\ (Len(m) - 2) + 1 = Len(m) - 1
        BY <1>2, <2>2
      <4>2. t[Len(m) - 2] = m[Len(m) - 1] /\ m[Len(m) - 1] = q[Len(q)]
        BY <1>2, <2>2, <3>2, <4>1
      <4>3. Len(t) - 1 = Len(m) - 2 /\ Len(t) - 1 > 0
        BY <1>2, <2>2
      <4>. QED
        BY <4>2, <4>3
    <3>. QED
      BY <3>1, <3>2
  <2>. QED
    BY <2>1, <2>4, <2>5, <2>9, <2>10
<1>. QED
  BY <1>4, <1>5

(* At most two keys are captured in a step.                                 *)
FewKeys(T) == T = {} \/ \E k, l \in Hash : T \subseteq {k, l}

(* The keys of a step, two at most, in the order in which they are admitted.  *)
LEMMA SortedKeys ==
  ASSUME NEW C, FewKeys(C)
  PROVE  LET q == Gdn!ByDepth(C)
         IN  /\ q \in Seq(Hash) /\ IsInjective(q) /\ ToSet(q) = C
             /\ Len(q) = 0 \/ Len(q) = 1 \/ Len(q) = 2
<1> DEFINE Sorted(q) == \A i, j \in DOMAIN q : i < j => Depth[q[i]] <= Depth[q[j]]
           Orders == [1..Cardinality(C) -> C]
           q == Gdn!ByDepth(C)
<1>0. Gdn!Cardinality(C) = Cardinality(C)
  BY Zenon DEF Gdn!Cardinality, Cardinality, Gdn!IsFiniteSet, IsFiniteSet
<1>1. ASSUME \E o \in Orders : (\A i, j \in 1..Cardinality(C) : i # j => o[i] # o[j]) /\ Sorted(o)
      PROVE  q \in Orders /\ \A i, j \in 1..Cardinality(C) : i # j => q[i] # q[j]
  BY <1>0, <1>1 DEF Gdn!ByDepth, Gdn!SetToSeqs
<1>2. CASE C = {}
  <2>1. Cardinality(C) = 0
    BY <1>2, FS_EmptySet
  <2> DEFINE o == [i \in 1..0 |-> NoKey]
  <2>2. o \in Orders /\ Sorted(o) /\ \A i, j \in 1..Cardinality(C) : i # j => o[i] # o[j]
    BY <1>2, <2>1
  <2>3. q \in Orders
    BY <1>1, <2>2
  <2> HIDE DEF q
  <2>4. q = <<>>
    BY <1>2, <2>1, <2>3
  <2>5. q \in Seq(Hash) /\ IsInjective(q) /\ ToSet(q) = C /\ Len(q) = 0
    BY <1>2, <2>4, EmptyList
  <2>. QED
    BY <2>5 DEF q
<1>3. ASSUME NEW a \in Hash, C = {a}
      PROVE  q \in Seq(Hash) /\ IsInjective(q) /\ ToSet(q) = C /\ Len(q) = 1
  <2>1. Cardinality(C) = 1
    BY <1>3, FS_Singleton
  <2> DEFINE o == [i \in 1..1 |-> a]
  <2>2. o \in Orders /\ Sorted(o) /\ \A i, j \in 1..Cardinality(C) : i # j => o[i] # o[j]
    BY <1>3, <2>1
  <2>3. q \in Orders
    BY <1>1, <2>2
  <2> HIDE DEF q
  <2>4. q \in [1..1 -> {a}]
    BY <1>3, <2>1, <2>3
  <2>5. q \in Seq(Hash) /\ Len(q) = 1 /\ DOMAIN q = 1..1 /\ q[1] = a
    <3>1. q = <<a>>
      BY <2>4
    <3>2. q \in Seq(Hash)
      BY <3>1
    <3>. QED
      BY <2>4, <3>1, <3>2
  <2>. QED
    BY <1>3, <2>5 DEF IsInjective, ToSet
<1>4. ASSUME NEW a \in Hash, NEW b \in Hash, a # b, C = {a, b}
      PROVE  q \in Seq(Hash) /\ IsInjective(q) /\ ToSet(q) = C /\ Len(q) = 2
  <2>1. Cardinality(C) = 2
    <3>1. IsFiniteSet({a}) /\ Cardinality({a}) = 1
      BY FS_Singleton
    <3>2. Cardinality({a} \cup {b}) = 2
      BY <1>4, <3>1, FS_AddElement
    <3>3. C = {a} \cup {b}
      BY <1>4
    <3>. QED
      BY <3>2, <3>3
  <2> DEFINE o == IF Depth[a] <= Depth[b] THEN [i \in 1..2 |-> IF i = 1 THEN a ELSE b]
                  ELSE [i \in 1..2 |-> IF i = 1 THEN b ELSE a]
  <2>2. o \in Orders /\ Sorted(o) /\ \A i, j \in 1..Cardinality(C) : i # j => o[i] # o[j]
    <3>1. Depth[a] \in Nat /\ Depth[b] \in Nat
      BY Boundaries
    <3>. QED
      BY <1>4, <2>1, <3>1
  <2>3. q \in Orders /\ \A i, j \in 1..Cardinality(C) : i # j => q[i] # q[j]
    BY <1>1, <2>2
  <2> HIDE DEF q
  <2>4. q \in [1..2 -> {a, b}] /\ q[1] # q[2]
    BY <1>4, <2>1, <2>3
  <2>5. /\ q \in Seq(Hash) /\ Len(q) = 2 /\ DOMAIN q = 1..2
        /\ (q[1] = a /\ q[2] = b) \/ (q[1] = b /\ q[2] = a)
    <3>1. q \in [1..2 -> Hash] /\ 2 \in Nat
      BY <2>4
    <3>2. q \in Seq(Hash)
      BY <3>1, SeqDef
    <3>3. q[1] \in {a, b} /\ q[2] \in {a, b} /\ DOMAIN q = 1..2
      BY <2>4
    <3>. QED
      BY <2>4, <3>1, <3>2, <3>3
  <2>6. \A i \in 1..2 : i = 1 \/ i = 2
    OBVIOUS
  <2>7. IsInjective(q)
    BY <2>4, <2>5, <2>6 DEF IsInjective
  <2>8. ToSet(q) = {q[1], q[2]}
    BY <2>5, <2>6 DEF ToSet
  <2>. QED
    BY <1>4, <2>5, <2>7, <2>8
<1> HIDE DEF q
<1>5. C = {} \/ \E a, b \in Hash : C = {a} \/ (C = {a, b} /\ a # b)
  BY DEF FewKeys
<1>. QED
  BY <1>2, <1>3, <1>4, <1>5 DEF q

(* What admitting the keys of a step does to the index: it takes them in and   *)
(* gives up those it reports.                                              *)
AdmitAt(f, q, l, n) ==
  IF n = 0 THEN [index |-> q, evicted |-> <<>>] ELSE Gdn!AdmitOne(f[n - 1], l[n])

LEMMA AdmitTwo ==
  ASSUME NEW q, NEW l \in Seq(Hash), Len(l) = 0 \/ Len(l) = 1 \/ Len(l) = 2, Capacity # 0,
         NEW base, base = [index |-> q, evicted |-> <<>>]
  PROVE  /\ Len(l) = 0 => Gdn!Admit(q, l) = base
         /\ Len(l) = 1 => Gdn!Admit(q, l) = Gdn!AdmitOne(base, l[1])
         /\ Len(l) = 2 => Gdn!Admit(q, l) = Gdn!AdmitOne(Gdn!AdmitOne(base, l[1]), l[2])
<1>0. Len(l) \in Nat /\ Len(l) <= 2
  <2>1. Len(l) \in Nat
    OBVIOUS
  <2> DEFINE n == Len(l)
  <2>2. n = 0 \/ n = 1 \/ n = 2
    OBVIOUS
  <2> HIDE DEF n
  <2>3. n <= 2
    BY <2>2
  <2>. QED
    BY <2>1, <2>3 DEF n
<1> DEFINE after[n \in 0..Len(l)] ==
      IF n = 0 THEN [index |-> q, evicted |-> <<>>] ELSE Gdn!AdmitOne(after[n - 1], l[n])
           one == Gdn!AdmitOne(base, l[1])
           two == Gdn!AdmitOne(one, l[2])
<1>1. Gdn!Admit(q, l) = after[Len(l)]
  BY DEF Gdn!Admit
<1>2. after = CHOOSE f : f = [n \in 0..Len(l) |-> AdmitAt(f, q, l, n)]
  BY DEF AdmitAt
<1> HIDE DEF after
<1>3. \E f : f = [n \in 0..Len(l) |-> AdmitAt(f, q, l, n)]
  <2> DEFINE g == [n \in 0..Len(l) |-> IF n = 0 THEN base ELSE IF n = 1 THEN one ELSE two]
  <2>1. ASSUME NEW n \in 0..Len(l) PROVE g[n] = AdmitAt(g, q, l, n)
    <3>1. n = 0 \/ n = 1 \/ n = 2
      <4> HIDE DEF g
      <4>. QED
        BY <1>0
    <3>2. CASE n = 0
      BY <3>2 DEF AdmitAt
    <3>3. CASE n = 1
      <4>1. 0 \in 0..Len(l) /\ g[0] = base /\ g[1] = one
        BY <3>3
      <4>. QED
        BY <3>3, <4>1 DEF AdmitAt
    <3>4. CASE n = 2
      <4>1. 1 \in 0..Len(l) /\ g[1] = one /\ g[2] = two
        BY <3>4
      <4>. QED
        BY <3>4, <4>1 DEF AdmitAt
    <3>. QED
      BY <3>1, <3>2, <3>3, <3>4
  <2>2. g = [n \in 0..Len(l) |-> AdmitAt(g, q, l, n)]
    BY <2>1
  <2> HIDE DEF g
  <2>. QED
    BY <2>2
<1>4. after = [n \in 0..Len(l) |-> AdmitAt(after, q, l, n)]
  BY <1>2, <1>3
<1>5. \A n \in 0..Len(l) : after[n] = AdmitAt(after, q, l, n)
  BY <1>4
<1>6. after[0] = base
  BY <1>5 DEF AdmitAt
<1>7. Len(l) # 0 => after[1] = one
  BY <1>5, <1>6 DEF AdmitAt
<1>8. Len(l) = 2 => after[2] = two
  <2> HIDE DEF one
  <2>. QED
    BY <1>5, <1>7 DEF AdmitAt
<1> HIDE DEF one, two
<1>9. Gdn!Admit(q, l) = IF Len(l) = 0 THEN base ELSE IF Len(l) = 1 THEN one ELSE two
  BY <1>1, <1>6, <1>7, <1>8
<1>. QED
  BY <1>9 DEF one, two

LEMMA AdmittedKeys ==
  ASSUME NEW q, IndexOK(q), NEW C, FewKeys(C), Capacity = 0 => C = {}
  PROVE  LET a == Gdn!Admit(q, Gdn!ByDepth(C))
         IN  /\ IndexOK(a.index)
             /\ ToSet(a.index) = (ToSet(q) \ ToSet(a.evicted)) \cup C
             /\ q # <<>> /\ Capacity # 2 => q[Len(q)] \notin ToSet(a.evicted)
<1> DEFINE base == [index |-> q, evicted |-> <<>>]
           o == Gdn!ByDepth(C)
<1>1. /\ o \in Seq(Hash) /\ IsInjective(o) /\ ToSet(o) = C
      /\ Len(o) = 0 \/ Len(o) = 1 \/ Len(o) = 2
  BY SortedKeys
<1>2. /\ base.index = q /\ base.evicted = <<>> /\ <<>> \in Seq(Hash) /\ ToSet(<<>>) = {}
  BY EmptyList
<1> HIDE DEF o
<1>3. ASSUME Capacity = 0 \/ Len(o) = 0 PROVE Gdn!Admit(q, o) = base /\ C = {}
  <2>1. CASE Capacity = 0
    BY <1>2, <2>1 DEF Gdn!Admit
  <2>2. CASE Capacity # 0
    <3>1. Len(o) = 0
      BY <1>3, <2>2
    <3>2. Gdn!Admit(q, o) = base
      BY <1>1, <2>2, <3>1, AdmitTwo
    <3>3. o = <<>>
      BY <1>1, <3>1
    <3>. QED
      BY <1>1, <1>2, <3>2, <3>3
  <2>. QED
    BY <2>1, <2>2
<1> DEFINE one == Gdn!AdmitOne(base, o[1])
           two == Gdn!AdmitOne(one, o[2])
<1>4. ASSUME Capacity # 0, Len(o) # 0
      PROVE  /\ o[1] \in C /\ o[1] \in Hash
             /\ IndexOK(one.index) /\ one.evicted \in Seq(Hash)
             /\ one.index # <<>> /\ one.index[Len(one.index)] = o[1]
             /\ \E E : /\ ToSet(one.evicted) = E
                       /\ ToSet(one.index) = (ToSet(q) \cup {o[1]}) \ E
                       /\ o[1] \notin E
                       /\ q # <<>> => q[Len(q)] \notin E
             /\ q # <<>> => \E j \in {Len(one.index) - 1, Len(one.index)} :
                             j > 0 /\ one.index[j] = q[Len(q)]
  <2>1. o[1] \in C /\ o[1] \in Hash
    BY <1>1, <1>4, Elements
  <2>0. one = Gdn!AdmitOne(base, o[1]) /\ IndexOK(base.index) /\ base.evicted \in Seq(Hash)
    BY <1>2
  <2> HIDE DEF base, one
  <2>2. /\ IndexOK(one.index) /\ one.evicted \in Seq(Hash)
        /\ one.index # <<>> /\ one.index[Len(one.index)] = o[1]
        /\ \E E : /\ ToSet(one.evicted) = ToSet(base.evicted) \cup E
                  /\ ToSet(one.index) = (ToSet(base.index) \cup {o[1]}) \ E
                  /\ o[1] \notin E
                  /\ base.index # <<>> => base.index[Len(base.index)] \notin E
        /\ base.index # <<>> => \E j \in {Len(one.index) - 1, Len(one.index)} :
                                 j > 0 /\ one.index[j] = base.index[Len(base.index)]
    <3>1. Admitted(base, o[1], one)
      BY <1>4, <2>0, <2>1, AdmittedOne
    <3>. QED
      BY <3>1 DEF Admitted
  <2>. QED
    BY <1>2, <2>1, <2>2
<1>5. CASE Capacity = 0 \/ Len(o) = 0
  BY <1>2, <1>3, <1>5 DEF o
<1>6. CASE Capacity # 0 /\ Len(o) = 1
  <2>1. Gdn!Admit(q, o) = one
    BY <1>1, <1>6, AdmitTwo
  <2>2. C = {o[1]}
    <3>1. \A x : x \in C <=> \E i \in 1..1 : o[i] = x
      BY <1>1, <1>6, Elements
    <3>2. \A i \in 1..1 : i = 1
      OBVIOUS
    <3> HIDE DEF o
    <3>3. \A x : x \in C <=> x = o[1]
      BY <3>1, <3>2
    <3>. QED
      BY <3>3
  <2>3. /\ IndexOK(one.index) /\ ToSet(one.index) = (ToSet(q) \ ToSet(one.evicted)) \cup {o[1]}
        /\ q # <<>> => q[Len(q)] \notin ToSet(one.evicted)
    <3> HIDE DEF one
    <3>. QED
      BY <1>4, <1>6
  <2>. QED
    BY <2>1, <2>2, <2>3 DEF o
<1>7. CASE Capacity # 0 /\ Len(o) = 2
  <2>1. Gdn!Admit(q, o) = two
    BY <1>1, <1>7, AdmitTwo
  <2>2. C = {o[1], o[2]} /\ o[2] \in Hash
    <3>1. \A x : x \in C <=> \E i \in 1..2 : o[i] = x
      BY <1>1, <1>7, Elements
    <3>. QED
      BY <1>1, <1>7, <3>1
  <2> HIDE DEF one
  <2>3. PICK E : /\ ToSet(one.evicted) = E
                 /\ ToSet(one.index) = (ToSet(q) \cup {o[1]}) \ E
                 /\ o[1] \notin E
                 /\ q # <<>> => q[Len(q)] \notin E
    BY <1>4, <1>7
  <2>0. two = Gdn!AdmitOne(one, o[2]) /\ IndexOK(one.index) /\ one.evicted \in Seq(Hash)
    BY <1>4, <1>7
  <2> HIDE DEF two
  <2>4. /\ IndexOK(two.index)
        /\ \E F : /\ ToSet(two.evicted) = ToSet(one.evicted) \cup F
                  /\ ToSet(two.index) = (ToSet(one.index) \cup {o[2]}) \ F
                  /\ o[2] \notin F
                  /\ one.index # <<>> => one.index[Len(one.index)] \notin F
                  /\ \A x \in F : Len(one.index) = Capacity /\ x = one.index[1]
    <3>1. Admitted(one, o[2], two)
      BY <1>7, <2>0, <2>2, AdmittedOne
    <3>. QED
      BY <3>1 DEF Admitted
  <2>5. PICK F : /\ ToSet(two.evicted) = ToSet(one.evicted) \cup F
                 /\ ToSet(two.index) = (ToSet(one.index) \cup {o[2]}) \ F
                 /\ o[2] \notin F /\ o[1] \notin F
                 /\ \A x \in F : Len(one.index) = Capacity /\ x = one.index[1]
    BY <1>4, <1>7, <2>4
  <2>6. ToSet(two.index) = (ToSet(q) \ ToSet(two.evicted)) \cup {o[1], o[2]}
    BY <2>3, <2>5
  <2>7. q # <<>> /\ Capacity # 2 => q[Len(q)] \notin ToSet(two.evicted)
    <3>1. SUFFICES ASSUME q # <<>>, Capacity # 2, q[Len(q)] \in F PROVE FALSE
      BY <2>3, <2>5
    <3>2. PICK j \in {Len(one.index) - 1, Len(one.index)} : j > 0 /\ one.index[j] = q[Len(q)]
      BY <1>4, <1>7, <3>1
    <3>3. Len(one.index) = Capacity /\ q[Len(q)] = one.index[1]
      BY <2>5, <3>1
    <3>4. Len(one.index) > 2 /\ DOMAIN one.index = 1..Len(one.index)
      BY <2>0, <3>1, <3>3, <1>7, IndexAssumption DEF IndexOK
    <3>5. j \in DOMAIN one.index /\ 1 \in DOMAIN one.index /\ j # 1
      BY <3>2, <3>4
    <3>. QED
      BY <2>0, <3>2, <3>3, <3>5 DEF IndexOK, IsInjective
  <2>. QED
    BY <2>1, <2>2, <2>4, <2>6, <2>7 DEF o
<1>. QED
  BY <1>1, <1>5, <1>6, <1>7

LEMMA FewTargets ==
  ASSUME tokens \in [SeqId -> Text], NEW s \in SeqId
  PROVE  FewKeys(TargetsFor(s))
<1> DEFINE i == Gdn!AfterRestore(index, KeyFor(s))
           f == Gdn!FinalCaptureKey(BlockHashes(s), SeqLen(s), RestoreMode)
           b == Gdn!RepeatedBranch(i, LiveFor(s))
<1>1. TargetsFor(s) \in SUBSET Hash
  BY PlannedKeys
<1>2. TargetsFor(s) \subseteq {b, f}
  BY DEF TargetsFor, Gdn!CaptureTargets
<1> HIDE DEF b, f
<1>3. CASE TargetsFor(s) = {}
  BY <1>3 DEF FewKeys
<1>4. CASE TargetsFor(s) # {}
  <2>1. \E k, l \in Hash : TargetsFor(s) \subseteq {k, l}
    <3>1. CASE b \in Hash /\ f \in Hash
      BY <1>2, <3>1
    <3>2. CASE b \notin Hash
      <4>1. f \in Hash /\ TargetsFor(s) \subseteq {f, f}
        BY <1>1, <1>2, <1>4, <3>2
      <4>. QED
        BY <4>1
    <3>3. CASE f \notin Hash
      <4>1. b \in Hash /\ TargetsFor(s) \subseteq {b, b}
        BY <1>1, <1>2, <1>4, <3>3
      <4>. QED
        BY <4>1
    <3>. QED
      BY <3>1, <3>2, <3>3
  <2>. QED
    BY <2>1 DEF FewKeys
<1>. QED
  BY <1>3, <1>4

LEMMA FewCaptures ==
  ASSUME tokens \in [SeqId -> Text], QueueTypeOK, NEW g \in Group, FewKeys(targets[g.seq])
  PROVE  FewKeys(Captures(g)) /\ (Capacity = 0 => Captures(g) = {})
<1> DEFINE s == g.seq
           H == BlockHashes(s)
           e == StepEnd(g)
           T == IF Policy = "fine32" THEN {Gdn!FinalCaptureKey(H, e, RestoreMode)} \ {NoKey}
                ELSE targets[s]
<1>0. g.seq \in SeqId /\ g.chunk \in Int
  BY DEF Group
<1>1. Captures(g) \subseteq T /\ (Policy = "off" => Captures(g) = {})
  BY DEF Captures, Gdn!StepCaptures, Gdn!CapturedKeys
<1>2. FewKeys(T)
  <2>1. CASE Policy # "fine32"
    BY <2>1
  <2>2. CASE Policy = "fine32"
    <3>1. Len(H) \in Nat /\ \A k \in 1..Len(H) : H[k] \in Hash
      BY <1>0, Hashes
    <3>2. e \in Int
      <4>1. done[s] \in Int /\ Len(tokens[s]) \in Int
        BY <1>0, TextFacts DEF QueueTypeOK
      <4>. QED
        BY <1>0, <4>1 DEF StepEnd, Gdn!Least, SeqLen
    <3> DEFINE f == Gdn!FinalCaptureKey(H, e, RestoreMode)
    <3> HIDE DEF H, e
    <3>3. f \in Hash \cup {NoKey}
      BY <3>1, <3>2, FinalKey
    <3>4. T = {f} \ {NoKey}
      BY <2>2
    <3> HIDE DEF f, T
    <3>5. CASE f = NoKey
      BY <3>4, <3>5 DEF FewKeys
    <3>6. CASE f # NoKey
      <4>1. f \in Hash /\ T \subseteq {f, f}
        BY <3>3, <3>4, <3>6
      <4>. QED
        BY <4>1 DEF FewKeys
    <3>. QED
      BY <3>5, <3>6
  <2>. QED
    BY <2>1, <2>2
<1> HIDE DEF T
<1>3. FewKeys(Captures(g))
  BY <1>1, <1>2 DEF FewKeys
<1>. QED
  BY <1>1, <1>3, IndexAssumption

------------------------
(* The index of the scheduler and the checkpoints of the workers.  While a     *)
(* step is on its way to them, they differ by what it tells them to drop and   *)
(* to capture; a batch with two prompts never gets there.                   *)
OnePromptSent == \A i, j \in DOMAIN sent : sent[i].prompt /\ sent[j].prompt => i = j
Dropped == UNION {sent[i].evict : i \in DOMAIN sent}
Captured == UNION {sent[i].capture : i \in DOMAIN sent}
DecodesSilent == \A i \in DOMAIN sent : ~sent[i].prompt => sent[i].capture = {} /\ sent[i].evict = {}

MirrorOK ==
  /\ phase \notin {"metadata", "execute", "dead"} => ToSet(index) = states
  /\ phase \in {"metadata", "execute"} =>
       /\ DecodesSilent
       /\ OnePromptSent => ToSet(index) = (states \ Dropped) \cup Captured

IndexInv == IndexOK(index) /\ MirrorOK /\ \A s \in SeqId : FewKeys(targets[s])

LEMMA SameIndex ==
  ASSUME IndexInv, UNCHANGED <<index, states>>, \A s \in SeqId : targets'[s] = targets[s] \/ targets'[s] = {},
         \/ UNCHANGED <<phase, sent>>
         \/ phase \notin {"metadata", "execute", "dead"} /\ phase' \notin {"metadata", "execute"}
         \/ phase = "metadata" /\ phase' = "execute" /\ UNCHANGED sent
  PROVE  IndexInv'
<1>1. IndexOK(index)'
  BY DEF IndexInv, IndexOK
<1>2. MirrorOK'
  BY DEF IndexInv, MirrorOK, DecodesSilent, OnePromptSent, Dropped, Captured
<1>3. \A s \in SeqId : FewKeys(targets[s])'
  BY DEF IndexInv, FewKeys
<1>. QED
  BY <1>1, <1>2, <1>3 DEF IndexInv

LEMMA QuietSteps ==
  ASSUME SchedulerInv, IndexInv,
         \/ ManagerStep \/ UNCHANGED vars \/ StartStep \/ ScheduleRunning \/ Preempt \/ EndRunning
         \/ IgnorePrompt \/ StartPrefill \/ EndMetadata \/ EndStep
         \/ ChunkDone \/ Sample \/ Finish
         \/ \E s \in SeqId : AddRequest(s) \/ Abort(s)
  PROVE  IndexInv'
<1>0. targets \in [SeqId -> SUBSET Hash]
  BY DEF SchedulerInv, BudgetInv
<1>1. CASE ManagerStep \/ UNCHANGED vars
  <2>1. UNCHANGED <<index, states, targets, phase, sent>>
    BY <1>1 DEF ManagerStep, vars, engineVars, gdnVars, workerVars, storeVars
  <2>. QED
    BY <2>1, SameIndex
<1>2. CASE StartStep \/ ScheduleRunning \/ Preempt \/ EndRunning \/ IgnorePrompt \/ StartPrefill
           \/ EndStep \/ \E s \in SeqId : Abort(s)
  <2>1. /\ UNCHANGED <<index, states, targets>>
        /\ phase \notin {"metadata", "execute", "dead"} /\ phase' \notin {"metadata", "execute"}
    BY <1>2 DEF StartStep, ScheduleRunning, Preempt, EndRunning, IgnorePrompt, StartPrefill,
                EndStep, Abort, gdnVars, workerVars, storeVars
  <2>. QED
    BY <2>1, SameIndex
<1>3. CASE ChunkDone \/ Sample \/ Finish
  <2>1. /\ UNCHANGED <<index, states, targets>>
        /\ phase \notin {"metadata", "execute", "dead"} /\ phase' \notin {"metadata", "execute"}
    BY <1>3 DEF ChunkDone, Sample, Finish, Progress, gdnVars, storeVars
  <2>. QED
    BY <2>1, SameIndex
<1>4. CASE EndMetadata
  <2>1. UNCHANGED <<index, states, targets, sent>> /\ phase = "metadata" /\ phase' = "execute"
    BY <1>4 DEF EndMetadata, gdnVars, workerVars, storeVars
  <2>. QED
    BY <2>1, SameIndex
<1>5. ASSUME NEW s \in SeqId, AddRequest(s) PROVE IndexInv'
  <2>1. /\ UNCHANGED <<index, states>> /\ targets' = [targets EXCEPT ![s] = {}]
        /\ phase \notin {"metadata", "execute", "dead"} /\ phase' \notin {"metadata", "execute"}
    BY <1>5 DEF AddRequest, workerVars, storeVars
  <2>2. \A r \in SeqId : targets'[r] = targets[r] \/ targets'[r] = {}
    BY <1>0, <2>1
  <2>. QED
    BY <2>1, <2>2, SameIndex
<1>. QED
  BY <1>1, <1>2, <1>3, <1>4, <1>5

LEMMA PlanPrefillIndex == ASSUME SchedulerInv, IndexInv, PlanPrefill PROVE IndexInv'
<1> DEFINE s == Head(waiting)
<1>0. /\ QueueInv /\ tokens \in [SeqId -> Text] /\ targets \in [SeqId -> SUBSET Hash]
      /\ IndexOK(index) /\ MirrorOK
  BY DEF SchedulerInv, ManagerInv, ManagerTypeOK, BudgetInv, IndexInv
<1>1. /\ phase = "plan" /\ phase' = "prefill" /\ states' = states
      /\ index' = Gdn!AfterRestore(index, KeyFor(s))
      /\ targets' = [targets EXCEPT ![s] = TargetsFor(s)]
  BY DEF PlanPrefill, KeyFor, TargetsFor, LiveFor, workerVars, storeVars
<1>2. s \in SeqId
  BY <1>0, <1>1, QueueFacts DEF QueueInv, PhaseOK
<1> HIDE DEF s
<1>3. IndexOK(index') /\ ToSet(index') = ToSet(index)
  <2>1. CASE KeyFor(s) = NoKey
    BY <1>0, <1>1, <2>1 DEF Gdn!AfterRestore
  <2>2. CASE KeyFor(s) # NoKey
    <3> DEFINE k == KeyFor(s)
    <3>1. k \in Hash \cup {NoKey}
      BY <1>0, <1>2, PlannedKeys
    <3>2. k \in ToSet(index)
      <4>1. LiveFor(s) \cap Gdn!Resident(index) \subseteq Hash
        BY <1>0, Elements DEF Gdn!Resident, ToSet, IndexOK
      <4>2. k \in (LiveFor(s) \cap Gdn!Resident(index)) \cup {NoKey}
        BY <2>2, <4>1, DeepestKey DEF KeyFor, Gdn!RestoreKey
      <4>. QED
        BY <2>2, <4>2 DEF Gdn!Resident, ToSet
    <3>3. index' = Gdn!MovedToEnd(index, k)
      BY <1>1, <2>2 DEF Gdn!AfterRestore
    <3> HIDE DEF k
    <3>4. index \in Seq(Hash) /\ IsInjective(index) /\ Len(index) <= Capacity /\ k \in Hash
      BY <1>0, <2>2, <3>1 DEF IndexOK, k
    <3>5. /\ index' \in Seq(Hash) /\ IsInjective(index') /\ ToSet(index') = ToSet(index) \cup {k}
          /\ Len(index') = IF k \in ToSet(index) THEN Len(index) ELSE Len(index) + 1
      BY <3>3, <3>4, MovedKey
    <3>. QED
      BY <3>2, <3>4, <3>5 DEF IndexOK
  <2>. QED
    BY <2>1, <2>2
<1>4. MirrorOK'
  BY <1>0, <1>1, <1>3 DEF MirrorOK
<1>5. ASSUME NEW r \in SeqId PROVE FewKeys(targets[r])'
  <2>1. FewKeys(TargetsFor(s)) /\ FewKeys(targets[r])
    BY <1>0, <1>2, FewTargets DEF IndexInv
  <2>2. targets'[r] = TargetsFor(s) \/ targets'[r] = targets[r]
    BY <1>0, <1>1
  <2>. QED
    BY <2>1, <2>2 DEF FewKeys
<1>. QED
  BY <1>3, <1>4, <1>5 DEF IndexInv, IndexOK

LEMMA EndPrefillIndex == ASSUME SchedulerInv, IndexInv, EndPrefill PROVE IndexInv'
<1>1. /\ phase = "prefill" /\ phase' = "metadata"
      /\ UNCHANGED <<index, states, targets, sent>>
  BY DEF EndPrefill, gdnVars, workerVars, storeVars
<1>2. sent = <<>>
  BY <1>1 DEF SchedulerInv, QueueInv, PhaseOK
<1>3. DOMAIN sent' = {} /\ sent' = sent
  BY <1>1, <1>2
<1>4. MirrorOK'
  BY <1>1, <1>3 DEF IndexInv, MirrorOK, DecodesSilent, Dropped, Captured
<1>. QED
  BY <1>1, <1>4 DEF IndexInv, IndexOK, FewKeys

(* The worker captures and drops what it is told, or raises.                 *)
LEMMA ExecuteIndex == ASSUME IndexInv, Execute PROVE IndexInv'
<1>1. /\ phase = "execute" /\ UNCHANGED <<index, targets>>
  BY DEF Execute, gdnVars
<1>2. CASE WorkerRaises
  <2>1. phase' = "dead"
    BY <1>2 DEF Execute
  <2>. QED
    BY <1>1, <2>1 DEF IndexInv, IndexOK, FewKeys, MirrorOK
<1>3. CASE ~WorkerRaises
  <2>1. phase' = "output" /\ states' = (states \ Dropped) \cup Captured
    BY <1>3 DEF Execute, Dropped, Captured
  <2>2. OnePromptSent
    BY <1>3 DEF WorkerRaises, OnePromptSent
  <2>3. ToSet(index) = (states \ Dropped) \cup Captured
    BY <1>1, <2>2 DEF IndexInv, MirrorOK
  <2>. QED
    BY <1>1, <2>1, <2>3 DEF IndexInv, IndexOK, FewKeys, MirrorOK
<1>. QED
  BY <1>2, <1>3

LEMMA MetadataIndex == ASSUME SchedulerInv, IndexInv, Metadata PROVE IndexInv'
<1> DEFINE g == Head(batch)
           s == g.seq
           prompt == status[s] = "prefill"
           a == IF prompt THEN PrefillActions(g) ELSE DecodeActions(g)
<1>0. /\ QueueInv /\ tokens \in [SeqId -> Text] /\ targets \in [SeqId -> SUBSET Hash]
      /\ IndexOK(index) /\ MirrorOK /\ QueueTypeOK /\ \A r \in SeqId : FewKeys(targets[r])
  BY DEF SchedulerInv, ManagerInv, ManagerTypeOK, BudgetInv, IndexInv, QueueInv
<1>1. /\ phase = "metadata" /\ phase' \in {"metadata", "dead"} /\ states' = states /\ batch # <<>>
      /\ index' = IF prompt THEN Admission(g).index ELSE index
      /\ sent' = Append(sent, a)
      /\ \E T : targets' = [targets EXCEPT ![s] = T] /\ (T = targets[s] \/ T = {})
  <2>1. /\ phase = "metadata" /\ phase' \in {"metadata", "dead"} /\ states' = states
        /\ batch # <<>>
        /\ index' = IF prompt THEN Admission(g).index ELSE index
        /\ sent' = Append(sent, a)
    BY DEF Metadata, workerVars, storeVars
  <2> DEFINE T == IF prompt /\ a.end >= SeqLen(s) THEN {} ELSE targets[s]
  <2>2. targets' = [targets EXCEPT ![s] = T] /\ (T = targets[s] \/ T = {})
    BY DEF Metadata
  <2> HIDE DEF T
  <2>. QED
    BY <2>1, <2>2
<1>2. g \in Group /\ s \in SeqId
  <2>1. batch \in Seq(Group)
    BY <1>0, QueueFacts
  <2>2. Head(batch) \in Group
    BY <1>1, <2>1
  <2>. QED
    BY <2>2 DEF Group
<1>3. /\ prompt => /\ a.prompt = TRUE /\ a.capture = Captures(g)
                   /\ a.evict = ToSet(Admission(g).evicted)
      /\ ~prompt => a.prompt = FALSE /\ a.capture = {} /\ a.evict = {}
  BY DEF PrefillActions, DecodeActions
<1>4. FewKeys(Captures(g)) /\ (Capacity = 0 => Captures(g) = {})
  BY <1>0, <1>2, FewCaptures
<1>5. /\ IndexOK(Admission(g).index)
      /\ ToSet(Admission(g).index) = (ToSet(index) \ ToSet(Admission(g).evicted)) \cup Captures(g)
  BY <1>0, <1>4, AdmittedKeys DEF Admission
<1> HIDE DEF a
<1>6. /\ Len(sent) \in Nat /\ DOMAIN sent = 1..Len(sent) /\ DOMAIN sent' = 1..(Len(sent) + 1)
      /\ \A i \in 1..Len(sent) : sent'[i] = sent[i]
      /\ sent'[Len(sent) + 1] = a
  <2> DEFINE T == ToSet(sent) \cup {a}
  <2>1. sent \in Seq(ToSet(sent))
    BY <1>0 DEF QueueTypeOK, IsListOfActions
  <2>2. Len(sent) \in Nat /\ DOMAIN sent = 1..Len(sent) /\ sent \in [1..Len(sent) -> T]
    <3>1. Len(sent) \in Nat /\ sent \in [1..Len(sent) -> ToSet(sent)]
      BY <2>1
    <3>. QED
      BY <3>1
  <2>3. sent \in Seq(T) /\ a \in T
    BY <2>2, SeqDef
  <2> HIDE DEF T
  <2>4. /\ sent' \in Seq(T) /\ Len(sent') = Len(sent) + 1
        /\ \A i \in 1..Len(sent) : sent'[i] = sent[i]
        /\ sent'[Len(sent) + 1] = a
    BY <1>1, <2>3, AppendProperties
  <2>5. DOMAIN sent' = 1..Len(sent')
    BY <2>4
  <2>. QED
    BY <2>2, <2>4, <2>5
<1>7. IndexOK(index')
  BY <1>0, <1>1, <1>5
<1>8. \A r \in SeqId : FewKeys(targets'[r])
  <2>1. \A r \in SeqId : targets'[r] = targets[r] \/ targets'[r] = {}
    BY <1>0, <1>1
  <2>. QED
    BY <1>0, <2>1 DEF FewKeys
<1>9. MirrorOK'
  <2>1. DecodesSilent'
    BY <1>0, <1>1, <1>3, <1>6 DEF MirrorOK, DecodesSilent
  <2>2. Dropped' = Dropped \cup a.evict /\ Captured' = Captured \cup a.capture
    BY <1>6 DEF Dropped, Captured
  <2>3. ASSUME OnePromptSent' PROVE ToSet(index') = (states \ Dropped') \cup Captured'
    <3>1. OnePromptSent
      BY <1>6, <2>3 DEF OnePromptSent
    <3>2. ToSet(index) = (states \ Dropped) \cup Captured
      BY <1>0, <1>1, <3>1 DEF MirrorOK
    <3>3. CASE ~prompt
      BY <1>1, <1>3, <2>2, <3>2, <3>3
    <3>4. CASE prompt
      <4>1. \A i \in DOMAIN sent : ~sent[i].prompt
        BY <1>3, <1>6, <2>3, <3>4 DEF OnePromptSent
      <4>2. Dropped = {} /\ Captured = {}
        BY <1>0, <1>1, <4>1 DEF MirrorOK, DecodesSilent, Dropped, Captured
      <4>. QED
        BY <1>1, <1>3, <1>5, <2>2, <3>2, <3>4, <4>2
    <3>. QED
      BY <3>3, <3>4
  <2>. QED
    BY <1>1, <2>1, <2>3 DEF MirrorOK
<1>. QED
  BY <1>7, <1>8, <1>9 DEF IndexInv, IndexOK, FewKeys

LEMMA InitIndex == ASSUME Init PROVE IndexInv
<1>1. index = <<>> /\ states = {} /\ phase = "idle" /\ targets = [s \in SeqId |-> {}]
  BY DEF Init
<1>2. IndexOK(index) /\ ToSet(index) = {}
  BY <1>1, EmptyList, IndexAssumption DEF IndexOK
<1>. QED
  BY <1>1, <1>2 DEF IndexInv, MirrorOK, FewKeys

(* The scheduler never tells a worker to restore a checkpoint that it does not  *)
(* hold, because its index is what the workers hold: both sides see every     *)
(* capture and every eviction, whatever the policy and however many keys a     *)
(* step admits.                                                            *)
THEOREM IndexIsExact == Spec => []IndexMirrorsWorkers
<1>1. Init => IndexInv
  BY InitIndex
<1>2. SchedulerInv /\ IndexInv /\ [Next]_vars => IndexInv'
  BY QuietSteps, PlanPrefillIndex, EndPrefillIndex, MetadataIndex, ExecuteIndex DEF Next
<1>3. IndexInv => IndexMirrorsWorkers
  BY DEF IndexInv, MirrorOK, IndexMirrorsWorkers, Gdn!Resident, ToSet
<1>. QED
  BY <1>1, <1>2, <1>3, SchedulerInvariant, PTL DEF Spec

------------------------
(* The cache stays closed: see CacheInv of BlockSpaceManagerProofs.           *)

(* Which requests have a table that no step has stamped yet: those of this     *)
(* step's new prompts, until the metadata loop reaches them.                *)
StampedOK ==
  phase # "dead" => \A s \in tables : last_access[s] = NotAccessed =>
    s \in ToSet(Seqs(scheduled.new)) \/ s \in ToSet(Seqs(batch)) \/ Planned(s)

LEMMA StampsSame ==
  ASSUME ManagerInv, StampedOK, phase # "dead", tables' \subseteq tables,
         \A s \in tables' : last_access'[s] = last_access[s],
         ToSet(Seqs(scheduled.new)) \subseteq ToSet(Seqs(scheduled'.new)),
         ToSet(Seqs(batch)) \subseteq ToSet(Seqs(batch')),
         \A s \in SeqId : Planned(s) => Planned(s)' \/ s \in ToSet(Seqs(scheduled'.new))
  PROVE  StampedOK'
<1>1. tables \subseteq SeqId
  BY DEF ManagerInv, ManagerTypeOK
<1>. QED
  BY <1>1 DEF StampedOK

LEMMA ManagerStepStamps ==
  ASSUME ManagerInv, QueueInv, StampedOK, ManagerStep
  PROVE  StampedOK'
<1>1. CallStep /\ UNCHANGED <<waiting, scheduled, batch, phase>>
  BY DEF ManagerStep, engineVars, queueVars
<1>2. PICK s \in SeqId : AllocateNextBlock(s) \/ AllocateEnd(s) \/ FreeNextBlock(s) \/ FreeEnd(s)
  BY <1>1 DEF CallStep
<1>3. \A r \in SeqId : Planned(r)' <=> Planned(r)
  BY <1>1 DEF Planned
<1>4. CASE AllocateNextBlock(s) \/ FreeNextBlock(s) \/ FreeEnd(s)
  <2>1. UNCHANGED <<tables, last_access>>
    BY <1>4 DEF AllocateNextBlock, FreeNextBlock, FreeEnd, managerVars
  <2>2. tables \subseteq SeqId
    BY DEF ManagerInv, ManagerTypeOK
  <2>. QED
    BY <1>1, <1>3, <2>1, <2>2 DEF StampedOK
<1>5. CASE AllocateEnd(s)
  <2>1. /\ Allocating(s) /\ tables' = tables \cup {s}
        /\ last_access' = [last_access EXCEPT ![s] = NotAccessed]
    BY <1>5 DEF AllocateEnd
  <2>2. Planned(s)
    BY <2>1 DEF QueueInv, Place, TablePlace
  <2>3. tables \subseteq SeqId /\ last_access \in [SeqId -> Int]
    BY DEF ManagerInv, ManagerTypeOK
  <2>4. \A r \in tables : r # s => last_access'[r] = last_access[r]
    BY <2>1, <2>3
  <2>. QED
    BY <1>1, <1>3, <2>1, <2>2, <2>3, <2>4 DEF StampedOK
<1>. QED
  BY <1>2, <1>4, <1>5

LEMMA FreeBeginStamps ==
  ASSUME ManagerInv, StampedOK, phase # "dead", NEW s \in SeqId, FreeBegin(s),
         UNCHANGED <<scheduled, batch>>, \A r \in SeqId : Planned(r) => Planned(r)'
  PROVE  StampedOK'
<1>1. /\ tables' = tables \ {s} /\ last_access' = [last_access EXCEPT ![s] = NotAccessed]
      /\ tables \subseteq SeqId /\ last_access \in [SeqId -> Int]
  BY DEF FreeBegin, ManagerInv, ManagerTypeOK
<1>2. \A r \in tables' : last_access'[r] = last_access[r]
  BY <1>1
<1>. QED
  BY <1>1, <1>2, StampsSame

LEMMA ScheduleRunningStamps ==
  ASSUME ManagerInv, QueueInv, StampedOK, ScheduleRunning, RunningChunk(Head(running)) \in Int
  PROVE  StampedOK'
<1>0. PICK s : s = Head(running)
  OBVIOUS
<1>1. /\ phase = "running" /\ phase' = phase /\ running # <<>> /\ AppendSlots(s)
      /\ scheduled' = Scheduled(s, status[s], RunningChunk(s))
      /\ UNCHANGED <<waiting, batch>>
  BY <1>0 DEF ScheduleRunning
<1>2. QueueTypeOK
  BY DEF QueueInv
<1>3. s \in SeqId /\ s \in ToSet(running)
  BY <1>0, <1>1, <1>2, TailList DEF QueueTypeOK
<1>4. status[s] \in {"decode", "prefill"}
  BY <1>3 DEF QueueInv, Place, RunningPlace, IsLive
<1>5. scheduled'.new = scheduled.new
  BY <1>1, <1>2, <1>4 DEF Scheduled, QueueTypeOK
<1>6. UNCHANGED <<tables, last_access>>
  BY <1>1 DEF AppendSlots
<1>7. \A r \in SeqId : ~Planned(r)
  BY <1>1 DEF Planned
<1>. QED
  BY <1>1, <1>5, <1>6, <1>7, StampsSame

LEMMA PlanPrefillStamps ==
  ASSUME ManagerInv, QueueInv, StampedOK, PlanPrefill, ChunkFor(Head(waiting)).end \in Int
  PROVE  StampedOK'
<1>0. PICK s : s = Head(waiting)
  OBVIOUS
<1> DEFINE g == [seq |-> s, chunk |-> ChunkFor(s).end]
<1>1. /\ phase = "plan" /\ scheduled' = Scheduled(s, "new", ChunkFor(s).end)
      /\ UNCHANGED <<batch, tables, last_access>>
  BY <1>0 DEF PlanPrefill, ChunkFor, TargetsFor, KeyFor, LiveFor
<1>2. QueueTypeOK /\ PhaseOK
  BY DEF QueueInv
<1>3. s \in SeqId
  BY <1>0, <1>1, <1>2, TailList DEF QueueTypeOK, PhaseOK
<1>4. scheduled.new \in Seq(Group) /\ g \in Group /\ g.seq = s
  BY <1>0, <1>2, <1>3 DEF QueueTypeOK, Group
<1>5. scheduled'.new = Append(scheduled.new, g)
  BY <1>1, <1>2 DEF Scheduled, QueueTypeOK
<1> HIDE DEF g
<1>6. ToSet(Seqs(scheduled'.new)) = ToSet(Seqs(scheduled.new)) \cup {s}
  <2>1. \A h \in Group : h.seq \in SeqId
    BY DEF Group
  <2>2. Seqs(scheduled.new) \in Seq(SeqId)
        /\ Seqs(Append(scheduled.new, g)) = Append(Seqs(scheduled.new), s)
    BY <1>4, <2>1, GroupList
  <2>. QED
    BY <1>3, <1>5, <2>2, AppendList
<1>7. \A r \in SeqId : Planned(r) => r = s
  BY <1>0 DEF Planned
<1>. QED
  BY <1>1, <1>6, <1>7, StampsSame

LEMMA EndPrefillStamps ==
  ASSUME ManagerInv, QueueInv, StampedOK, EndPrefill
  PROVE  StampedOK'
<1> DEFINE D == Seqs(scheduled.decode)
           F == Seqs(scheduled.prefill)
           N == Seqs(scheduled.new)
<1>1. /\ phase = "prefill" /\ UNCHANGED <<tables, last_access>>
      /\ batch' = scheduled.new \o scheduled.prefill \o scheduled.decode
  BY DEF EndPrefill, blockVars, managerVars
<1>2. /\ scheduled.decode \in Seq(Group) /\ scheduled.prefill \in Seq(Group)
      /\ scheduled.new \in Seq(Group)
      /\ D \in Seq(SeqId) /\ F \in Seq(SeqId) /\ N \in Seq(SeqId)
  BY QueueFacts
<1>3. batch = <<>>
  BY <1>1 DEF QueueInv, PhaseOK
<1>4. ToSet(N) \subseteq ToSet(Seqs(batch'))
  <2>1. \A g \in Group : g.seq \in SeqId
    BY DEF Group
  <2> DEFINE n == scheduled.new
             f == scheduled.prefill
             d == scheduled.decode
  <2>2. n \in Seq(Group) /\ f \in Seq(Group) /\ d \in Seq(Group) /\ batch' = (n \o f) \o d
        /\ N = Seqs(n) /\ F = Seqs(f) /\ D = Seqs(d)
    BY <1>1, <1>2
  <2> HIDE DEF n, f, d, N, F, D
  <2> DEFINE l == n \o f
  <2>3. l \in Seq(Group)
    BY <2>2
  <2>4. Seqs(l) = N \o F
    BY ONLY <2>1, <2>2, GroupList, ZenonT(60) DEF l
  <2>5. Seqs(l \o d) = Seqs(l) \o D
    BY ONLY <2>1, <2>2, <2>3, GroupList, ZenonT(60)
  <2>6. ToSet(Seqs(l)) = ToSet(N) \cup ToSet(F) /\ Seqs(l) \in Seq(SeqId)
    BY <1>2, <2>4, ConcatList
  <2> HIDE DEF l
  <2>7. ToSet(Seqs(l \o d)) = ToSet(Seqs(l)) \cup ToSet(D)
    BY <1>2, <2>5, <2>6, ConcatList
  <2>. QED
    BY <2>2, <2>6, <2>7 DEF l
<1>5. \A r \in SeqId : ~Planned(r)
  BY <1>1 DEF Planned
<1>6. ToSet(Seqs(batch)) = {} /\ tables \subseteq SeqId
  BY <1>3, NoGroups, EmptyList DEF ManagerInv, ManagerTypeOK
<1>. QED
  BY <1>1, <1>4, <1>5, <1>6 DEF StampedOK

LEMMA MetadataStamps ==
  ASSUME ManagerInv, QueueInv, StampedOK, Metadata
  PROVE  StampedOK'
<1>0. PICK g : g = Head(batch)
  OBVIOUS
<1> DEFINE s == g.seq
<1>1. /\ phase = "metadata" /\ batch # <<>> /\ batch' = Tail(batch)
      /\ last_access' = [last_access EXCEPT ![s] = now]
      /\ UNCHANGED <<scheduled, tables>>
  BY <1>0 DEF Metadata, AccessAllBlocks
<1>2. s \in SeqId /\ ToSet(Seqs(batch')) = ToSet(Seqs(batch)) \ {s}
  <2>1. \A h \in Group : h.seq \in SeqId
    BY DEF Group
  <2>2. /\ batch \in Seq(Group) /\ Seqs(batch) \in Seq(SeqId) /\ IsInjective(Seqs(batch))
    BY QueueFacts DEF QueueInv, NoRepetition
  <2>3. /\ g \in Group /\ s = Head(Seqs(batch)) /\ Seqs(batch) # <<>>
        /\ batch' \in Seq(Group) /\ Seqs(batch') = Tail(Seqs(batch))
    BY <1>0, <1>1, <2>1, <2>2, GroupList
  <2>. QED
    BY <2>1, <2>2, <2>3, TailList
<1>3. last_access \in [SeqId -> Int] /\ tables \subseteq SeqId /\ now # NotAccessed
  BY DEF ManagerInv, ManagerTypeOK, QueueInv, QueueTypeOK, NotAccessed
<1>4. ASSUME NEW r \in tables, last_access'[r] = NotAccessed
      PROVE  r # s /\ last_access[r] = NotAccessed
  BY <1>1, <1>2, <1>3, <1>4
<1>5. ASSUME NEW r \in tables, last_access[r] = NotAccessed
      PROVE  r \in ToSet(Seqs(batch))
  <2>0. r \in SeqId
    BY <1>3
  <2>1. ~Planned(r) /\ scheduled.new = <<>>
    BY <1>1, NoGroups DEF Planned, QueueInv, PhaseOK
  <2>. QED
    BY <1>1, <1>5, <2>1, NoGroups, EmptyList DEF StampedOK
<1> HIDE DEF s
<1>6. ASSUME NEW r \in tables, last_access'[r] = NotAccessed PROVE r \in ToSet(Seqs(batch'))
  BY <1>2, <1>4, <1>5, <1>6
<1>. QED
  BY <1>1, <1>6 DEF StampedOK

LEMMA StampsKept ==
  ASSUME SchedulerInv, StampedOK, Next
  PROVE  StampedOK'
<1>0. ManagerInv /\ QueueInv /\ BudgetInv /\ QueueTypeOK /\ PhaseOK /\ tables \subseteq SeqId
  BY DEF SchedulerInv, QueueInv, ManagerInv, ManagerTypeOK
<1>1. CASE ManagerStep
  BY <1>0, <1>1, ManagerStepStamps
<1>2. CASE StartStep \/ EndRunning \/ EndMetadata \/ EndStep \/ ChunkDone \/ Sample \/ IgnorePrompt
           \/ \E s \in SeqId : AddRequest(s)
  <2>1. /\ phase \notin {"dead", "plan"} /\ UNCHANGED <<tables, last_access, scheduled, batch>>
    BY <1>2 DEF StartStep, EndRunning, EndMetadata, EndStep, ChunkDone, Sample, Progress,
       IgnorePrompt, AddRequest, blockVars, managerVars
  <2>2. \A r \in SeqId : ~Planned(r)
    BY <2>1 DEF Planned
  <2>. QED
    BY <1>0, <2>1, <2>2, StampsSame
<1>3. CASE StartPrefill
  <2>1. /\ phase = "prefill" /\ UNCHANGED <<tables, last_access, scheduled, batch>>
    BY <1>3 DEF StartPrefill, AllocateBegin, managerVars
  <2>2. \A r \in SeqId : ~Planned(r)
    BY <2>1 DEF Planned
  <2>. QED
    BY <1>0, <2>1, <2>2, StampsSame
<1>4. CASE Execute
  <2>1. /\ phase = "execute" /\ UNCHANGED <<tables, last_access, scheduled, batch>>
    BY <1>4 DEF Execute, blockVars, managerVars
  <2>2. \A r \in SeqId : ~Planned(r)
    BY <2>1 DEF Planned
  <2>. QED
    BY <1>0, <2>1, <2>2, StampsSame
<1>5. ASSUME NEW s \in SeqId, Abort(s) PROVE StampedOK'
  <2>1. phase = "idle" /\ FreeSeq(s) /\ UNCHANGED <<scheduled, batch>>
    BY <1>5 DEF Abort
  <2>2. \A r \in SeqId : ~Planned(r)
    BY <2>1 DEF Planned
  <2>3. CASE s \in tables
    BY <1>0, <2>1, <2>2, <2>3, FreeBeginStamps DEF FreeSeq
  <2>4. CASE s \notin tables
    <3>1. UNCHANGED <<tables, last_access>>
      BY <2>1, <2>4 DEF FreeSeq, blockVars, managerVars
    <3>. QED
      BY <1>0, <2>1, <2>2, <3>1, StampsSame
  <2>. QED
    BY <2>3, <2>4
<1>6. CASE Preempt
  <2>1. PICK v : v = Last(running)
    OBVIOUS
  <2>2. phase = "running" /\ running # <<>> /\ FreeBegin(v) /\ UNCHANGED <<scheduled, batch>>
    BY <1>6, <2>1 DEF Preempt
  <2>3. v \in SeqId /\ \A r \in SeqId : ~Planned(r)
    BY <1>0, <2>1, <2>2, FrontList DEF QueueInv, QueueTypeOK, NoRepetition, Planned
  <2>. QED
    BY <1>0, <2>2, <2>3, FreeBeginStamps
<1>7. CASE Finish
  <2>1. PICK s : s = Head(sent).seq
    OBVIOUS
  <2>2. phase = "output" /\ sent # <<>> /\ FreeBegin(s) /\ UNCHANGED <<scheduled, batch>>
    BY <1>7, <2>1 DEF Finish, Progress
  <2>3. s \in SeqId /\ \A r \in SeqId : ~Planned(r)
    BY <1>0, <2>1, <2>2, SentTail DEF Planned
  <2>. QED
    BY <1>0, <2>2, <2>3, FreeBeginStamps
<1>8. CASE ScheduleRunning
  <2>1. running # <<>> /\ NumNewTokens(Head(running)) > 0
    BY <1>8 DEF ScheduleRunning
  <2>2. tokens \in [SeqId -> Text] /\ Head(running) \in SeqId
    BY <1>0, <2>1, TailList DEF QueueTypeOK, ManagerInv, ManagerTypeOK
  <2>3. RunningChunk(Head(running)) \in Int
    BY <1>0, <2>1, <2>2, RunningChunks
  <2>. QED
    BY <1>0, <1>8, <2>3, ScheduleRunningStamps
<1>9. CASE PlanPrefill
  <2>1. Head(waiting) \in SeqId /\ tokens \in [SeqId -> Text]
    BY <1>0, <1>9, TailList DEF PlanPrefill, QueueTypeOK, PhaseOK, ManagerInv, ManagerTypeOK
  <2>2. ChunkFor(Head(waiting)).end \in Int
    BY <1>0, <2>1, PlannedChunk
  <2>. QED
    BY <1>0, <1>9, <2>2, PlanPrefillStamps
<1>. QED
  BY <1>0, <1>1, <1>2, <1>3, <1>4, <1>5, <1>6, <1>7, <1>8, <1>9, EndPrefillStamps, MetadataStamps
  DEF Next

(* Between the calls of the manager, tokens only grow.                         *)
LEMMA CacheQuiet ==
  ASSUME ManagerInv, CacheInv, call = Idle, UNCHANGED <<tables, full_slots, call>>,
         UNCHANGED <<free_table, older, cached, block_id, content>>,
         tokens' \in [SeqId -> Text], \A s \in tables : tokens'[s] = tokens[s]
  PROVE  CacheInv'
<1>1. ASSUME NEW s \in SeqId \ tables PROVE BlocksOf(s) = {}
  <2>1. ~Busy(s) /\ SeqOK(s)
    BY OneCall DEF Busy, ManagerInv
  <2>. QED
    BY <2>1 DEF SeqOK, NoTableOK
<1>2. ASSUME NEW s \in tables
      PROVE  /\ Len(tokens[s]) <= Len(tokens'[s])
             /\ SubSeq(tokens'[s], 1, Len(tokens[s])) = tokens[s]
  <2>1. tokens[s] \in Seq(Nat) /\ Len(tokens[s]) \in Nat
    BY TextFacts DEF ManagerInv, ManagerTypeOK
  <2>. QED
    BY <1>2, <2>1
<1>. QED
  BY <1>1, <1>2, CacheIdle

LEMMA SampleCache ==
  ASSUME ManagerInv, QueueInv, CacheInv, Sample
  PROVE  CacheInv'
<1>0. PICK s : s = Head(sent).seq
  OBVIOUS
<1>1. /\ call = Idle /\ sent # <<>>
      /\ UNCHANGED <<free_table, older, cached, block_id, content, tables, full_slots, call>>
  BY DEF Sample, Progress, blockVars, managerVars, allocVars
<1>2. PICK t \in Text : /\ Len(t) = SeqLen(s) + 1 /\ SubSeq(t, 1, SeqLen(s)) = tokens[s]
                        /\ tokens' = [tokens EXCEPT ![s] = t]
  BY <1>0 DEF Sample
<1>3. tokens \in [SeqId -> Text] /\ tables \subseteq SeqId /\ tokens' \in [SeqId -> Text]
  BY <1>2 DEF ManagerInv, ManagerTypeOK
<1>4. ASSUME NEW r \in SeqId \ tables PROVE BlocksOf(r) = {}
  <2>1. ~Busy(r) /\ SeqOK(r)
    BY <1>1, OneCall DEF Busy, ManagerInv
  <2>. QED
    BY <2>1 DEF SeqOK, NoTableOK
<1>5. ASSUME NEW r \in tables
      PROVE  /\ Len(tokens[r]) <= Len(tokens'[r])
             /\ SubSeq(tokens'[r], 1, Len(tokens[r])) = tokens[r]
  <2>1. tokens[r] \in Seq(Nat) /\ Len(tokens[r]) \in Nat /\ r \in SeqId
    BY <1>3, TextFacts
  <2>2. CASE r = s
    BY <1>2, <1>3, <2>1, <2>2 DEF SeqLen
  <2>3. CASE r # s
    <3>1. tokens'[r] = tokens[r]
      BY <1>2, <1>3, <2>1, <2>3
    <3>. QED
      BY <2>1, <3>1
  <2>. QED
    BY <2>2, <2>3
<1>. QED
  BY <1>1, <1>3, <1>4, <1>5, CacheIdle

(* Who gives up its blocks has been stamped.                                  *)
LEMMA FreedStamped ==
  ASSUME ManagerInv, QueueInv, StampedOK, NEW s \in SeqId, FreeBegin(s),
         phase \in {"idle", "running", "output"}, phase = "running" => s \in ToSet(running)
  PROVE  last_access[s] # NotAccessed
<1>1. s \in tables
  BY DEF FreeBegin
<1>2. ~Planned(s) /\ batch = <<>> /\ ToSet(Seqs(batch)) = {}
  BY NoGroups, EmptyList DEF Planned, QueueInv, PhaseOK
<1>3. s \notin ToSet(Seqs(scheduled.new))
  <2>1. CASE phase = "running"
    BY <2>1 DEF QueueInv, Place, RunningPlace, InScheduled
  <2>2. CASE phase # "running"
    <3>1. scheduled = NothingScheduled
      BY <2>2 DEF QueueInv, PhaseOK
    <3>. QED
      BY <3>1, ScheduledNobody DEF InScheduled
  <2>. QED
    BY <2>1, <2>2
<1>. QED
  BY <1>1, <1>2, <1>3 DEF StampedOK

LEMMA FreeBeginCached ==
  ASSUME ManagerInv, QueueInv, StampedOK, CacheInv, NEW s \in SeqId, FreeBegin(s),
         phase \in {"idle", "running", "output"}, phase = "running" => s \in ToSet(running),
         UNCHANGED tokens \/ tokens' = [tokens EXCEPT ![s] = <<>>]
  PROVE  CacheInv'
<1>1. \A r \in SeqId : r # s => tokens'[r] = tokens[r]
  BY DEF ManagerInv, ManagerTypeOK
<1>. QED
  BY <1>1, FreedStamped, FreeBeginCache

(* A request without a table may change its tokens.                            *)
LEMMA OthersTokens ==
  ASSUME ManagerInv, QueueInv, CacheInv, call = Idle, NEW s \in SeqId, ~IsLive(s), NEW t \in Text,
         tokens' = [tokens EXCEPT ![s] = t],
         UNCHANGED <<free_table, older, cached, block_id, content, tables, full_slots, call>>
  PROVE  CacheInv'
<1>1. tokens \in [SeqId -> Text] /\ tables \subseteq SeqId /\ s \notin tables
  BY DEF QueueInv, Place, TablePlace, ManagerInv, ManagerTypeOK
<1>2. tokens' \in [SeqId -> Text] /\ \A r \in tables : tokens'[r] = tokens[r]
  BY <1>1
<1>. QED
  BY <1>2, CacheQuiet

LEMMA CacheKept ==
  ASSUME SchedulerInv, StampedOK, CacheInv, Next
  PROVE  CacheInv'
<1>0. /\ ManagerInv /\ QueueInv /\ BudgetInv /\ QueueTypeOK /\ PhaseOK
      /\ tokens \in [SeqId -> Text] /\ <<>> \in Text
  BY TextAssumption DEF SchedulerInv, QueueInv, ManagerInv, ManagerTypeOK
<1>1. CASE ManagerStep
  BY <1>0, <1>1, CallStepCache DEF ManagerStep
<1>2. ASSUME NEW s \in SeqId, AddRequest(s) PROVE CacheInv'
  <2>1. PICK t \in Prompts : tokens' = [tokens EXCEPT ![s] = t]
    BY <1>2 DEF AddRequest
  <2>2. t \in Text
    BY PromptsAssumption
  <2>3. /\ call = Idle /\ ~IsLive(s)
        /\ UNCHANGED <<free_table, older, cached, block_id, content, tables, full_slots, call>>
    BY <1>2 DEF AddRequest, IsLive, blockVars, managerVars, allocVars
  <2>. QED
    BY <1>0, <2>1, <2>2, <2>3, OthersTokens
<1>3. ASSUME NEW s \in SeqId, Abort(s) PROVE CacheInv'
  <2>1. call = Idle /\ phase = "idle" /\ FreeSeq(s) /\ tokens' = [tokens EXCEPT ![s] = <<>>]
    BY <1>3 DEF Abort
  <2>2. CASE s \in tables
    <3>1. FreeBegin(s)
      BY <2>1, <2>2 DEF FreeSeq
    <3>. QED
      BY <1>0, <2>1, <3>1, FreeBeginCached
  <2>3. CASE s \notin tables
    <3>1. UNCHANGED <<free_table, older, cached, block_id, content, tables, full_slots, call>>
      BY <2>1, <2>3 DEF FreeSeq, blockVars, managerVars, allocVars
    <3>2. ~IsLive(s)
      BY <2>1, <2>3, OneCall DEF QueueInv, Place, TablePlace, SchedulerInv
    <3>. QED
      BY <1>0, <2>1, <3>1, <3>2, OthersTokens
  <2>. QED
    BY <2>2, <2>3
<1>4. CASE StartStep \/ EndRunning \/ EndPrefill \/ Execute \/ ChunkDone \/ EndStep \/ PlanPrefill
           \/ Metadata
  <2>1. /\ call = Idle /\ UNCHANGED tokens
        /\ UNCHANGED <<free_table, older, cached, block_id, content, tables, full_slots, call>>
    BY <1>4 DEF StartStep, EndRunning, EndPrefill, Execute, ChunkDone, Progress, EndStep,
       PlanPrefill, Metadata, blockVars, managerVars, allocVars
  <2>. QED
    BY <1>0, <2>1, CacheQuiet
<1>5. CASE EndMetadata
  <2>1. /\ call = Idle /\ UNCHANGED tokens
        /\ UNCHANGED <<free_table, older, cached, block_id, content, tables, full_slots, call>>
    BY <1>5 DEF EndMetadata, MarkComputed, managerVars, allocVars, evictorVars
  <2>. QED
    BY <1>0, <2>1, CacheQuiet
<1>6. CASE ScheduleRunning
  <2>1. PICK s : s = Head(running)
    OBVIOUS
  <2>2. running # <<>> /\ AppendSlots(s) /\ UNCHANGED tokens
    BY <1>6, <2>1 DEF ScheduleRunning
  <2>3. s \in SeqId
    BY <1>0, <2>1, <2>2, TailList DEF QueueTypeOK
  <2>. QED
    BY <1>0, <2>2, <2>3, AppendSlotsCache
<1>7. CASE Preempt
  <2>1. PICK s : s = Last(running)
    OBVIOUS
  <2>2. phase = "running" /\ running # <<>> /\ FreeBegin(s) /\ UNCHANGED tokens
    BY <1>7, <2>1 DEF Preempt
  <2>3. s \in SeqId /\ s \in ToSet(running)
    BY <1>0, <2>1, <2>2, FrontList DEF QueueInv, QueueTypeOK, NoRepetition
  <2>. QED
    BY <1>0, <2>2, <2>3, FreeBeginCached
<1>8. CASE IgnorePrompt
  <2>1. PICK s : s = Head(waiting)
    OBVIOUS
  <2>2. /\ phase = "prefill" /\ call = Idle /\ waiting # <<>>
        /\ tokens' = [tokens EXCEPT ![s] = <<>>]
        /\ UNCHANGED <<free_table, older, cached, block_id, content, tables, full_slots, call>>
    BY <1>8, <2>1 DEF IgnorePrompt, blockVars, managerVars, allocVars
  <2>3. s \in SeqId /\ s \in ToSet(waiting)
    BY <1>0, <2>1, <2>2, TailList DEF QueueTypeOK
  <2>4. ~IsLive(s)
    BY <1>0, <2>2, <2>3 DEF QueueInv, Place, WaitingPlace, Planned, IsLive
  <2>. QED
    BY <1>0, <2>2, <2>3, <2>4, OthersTokens
<1>9. CASE StartPrefill
  <2>1. PICK s : s = Head(waiting)
    OBVIOUS
  <2>2. waiting # <<>> /\ AllocateBegin(s) /\ UNCHANGED tokens
    BY <1>9, <2>1 DEF StartPrefill
  <2>3. s \in SeqId
    BY <1>0, <2>1, <2>2, TailList DEF QueueTypeOK
  <2>. QED
    BY <1>0, <2>2, <2>3, AllocateBeginCache
<1>10. CASE Sample
  BY <1>0, <1>10, SampleCache
<1>11. CASE Finish
  <2>1. PICK s : s = Head(sent).seq
    OBVIOUS
  <2>2. phase = "output" /\ sent # <<>> /\ FreeBegin(s) /\ tokens' = [tokens EXCEPT ![s] = <<>>]
    BY <1>11, <2>1 DEF Finish, Progress
  <2>3. s \in SeqId
    BY <1>0, <2>1, <2>2, SentTail
  <2>. QED
    BY <1>0, <2>2, <2>3, FreeBeginCached
<1>. QED
  BY <1>1, <1>2, <1>3, <1>4, <1>5, <1>6, <1>7, <1>8, <1>9, <1>10, <1>11 DEF Next

ClosedInv == CacheInv /\ StampedOK

LEMMA ClosedStutter == ASSUME SchedulerInv, ClosedInv, UNCHANGED vars PROVE ClosedInv'
<1>1. /\ UNCHANGED <<free_table, older, cached, block_id, content, tables, full_slots, call>>
      /\ UNCHANGED <<last_accessed, computed_ids, last_access, tokens, waiting, scheduled, batch, phase>>
  BY DEF vars, blockVars, allocVars, managerVars, engineVars, queueVars
<1>2. StampedOK'
  BY <1>1 DEF ClosedInv, StampedOK, Planned
<1>3. CacheInv'
  <2>1. ChainInv'
    BY <1>1, ChainSame DEF ClosedInv, CacheInv, SchedulerInv, ManagerInv
  <2>2. ASSUME NEW s \in SeqId PROVE FilledOK(s)' /\ FreeingOK(s)'
    <3>1. /\ BlocksOf(s)' = BlocksOf(s) /\ Filled(s)' = Filled(s) /\ InEvictor' = InEvictor
          /\ Freeing(s)' <=> Freeing(s)
          /\ \A k : HashAt(s, k)' = HashAt(s, k) /\ StampOf(s, k)' = StampOf(s, k)
      BY <1>1 DEF BlocksOf, Allocated, Filled, InEvictor, Freeing, HashAt, StampOf
    <3>2. \A k : /\ LastOfTable(s, k)' <=> LastOfTable(s, k)
                 /\ ContinuesTable(s, k)' <=> ContinuesTable(s, k)
                 /\ ExtendsRuns(s, k)' <=> ExtendsRuns(s, k)
      BY <1>1, <3>1 DEF LastOfTable, ContinuesTable, ExtendsRuns
    <3>. QED
      BY <1>1, <3>1, <3>2 DEF ClosedInv, CacheInv, FilledOK, FreeingOK
  <2>. QED
    BY <2>1, <2>2 DEF CacheInv
<1>. QED
  BY <1>2, <1>3 DEF ClosedInv

LEMMA InitClosed == ASSUME Init PROVE ClosedInv
<1>1. CacheInv
  BY CacheInit DEF Init
<1>2. StampedOK
  BY DEF Init, ManagerInit, StampedOK
<1>. QED
  BY <1>1, <1>2 DEF ClosedInv

(* Eviction never leaves a hole: whatever is cached, the blocks before it in      *)
(* its prompt are cached too, for the evictor's choice (the oldest stamp, among *)
(* equals the most hashed tokens) never takes a block before its             *)
(* continuations.                                                          *)
THEOREM CacheStaysClosed == Spec => []CachePrefixClosed
<1>1. Init => ClosedInv
  BY InitClosed
<1>2. SchedulerInv /\ ClosedInv /\ [Next]_vars => ClosedInv'
  BY StampsKept, CacheKept, ClosedStutter DEF ClosedInv
<1>3. ClosedInv => CachePrefixClosed
  BY ParentCached DEF ClosedInv, CachePrefixClosed
<1>. QED
  BY <1>1, <1>2, <1>3, SchedulerInvariant, PTL DEF Spec

------------------------
(* The computed prefix of a table is contiguous: see TouchedInv and KnownOK of  *)
(* BlockSpaceManagerProofs.                                                 *)

(* Who holds a block that waits for its computation: never a request that may   *)
(* still give up its blocks, and somebody of the batch that will mark it.   *)
TouchedPhases ==
  /\ phase = "running" => \A s \in ToSet(running) : Untouched(s)
  /\ \A s \in SeqId : Freeing(s) => Untouched(s)
  /\ touched # {} => \/ phase \in {"running", "prefill"} /\ (\E s \in SeqId : InScheduled(s))
                     \/ phase \in {"plan", "dead"}
                     \/ phase = "metadata" /\ (batch # <<>> \/ sent # <<>>)

MarkedInv ==
  /\ TouchedInv /\ TouchedPhases
  /\ computed_ids \in [SeqId -> Seq(Block)]
  /\ \A s \in SeqId : KnownOK(s)

LEMMA NothingTouched == ASSUME touched' = {} PROVE TouchedPhases'
BY DEF TouchedPhases, Untouched

LEMMA MarksQuiet ==
  ASSUME MarkedInv, UNCHANGED <<computed, cached, touched, block_id, content, computed_ids, tables>>,
         TouchedPhases'
  PROVE  MarkedInv'
<1>1. TouchedInv'
  BY TouchedSame DEF MarkedInv
<1>2. \A s \in SeqId : KnownOK(s)'
  BY KnownQuiet DEF MarkedInv
<1>. QED
  BY <1>1, <1>2 DEF MarkedInv

LEMMA ManagerStepMarks ==
  ASSUME ManagerInv, QueueInv, CacheInv, MarkedInv, ManagerStep
  PROVE  MarkedInv'
<1>1. CallStep /\ UNCHANGED <<running, waiting, scheduled, batch, sent, phase>>
  BY DEF ManagerStep, engineVars, queueVars
<1>2. \A r \in SeqId : KnownOK(r)'
  BY <1>1, CallStepKnown DEF MarkedInv
<1>3. AllocTypeOK /\ ToSet(running) \subseteq SeqId /\ running \in Seq(SeqId)
  BY Elements DEF ManagerInv, AllocInv, QueueInv, QueueTypeOK
<1>4. (\E s \in SeqId : InScheduled(s)) <=> (\E s \in SeqId : InScheduled(s)')
  BY <1>1 DEF InScheduled
<1>5. ASSUME NEW s \in SeqId, AllocateNextBlock(s) PROVE MarkedInv'
  <2>1. TouchedInv' /\ UNCHANGED <<computed_ids, call>>
    BY <1>5, AllocateNextBlockTouched DEF MarkedInv, AllocateNextBlock, managerVars
  <2>2. Allocating(s) /\ phase = "plan"
    BY <1>5 DEF AllocateNextBlock, QueueInv, Place, TablePlace, Planned
  <2>3. \A r \in SeqId : ~Freeing(r)'
    BY <2>1, <2>2, OneCall DEF Freeing
  <2>. QED
    BY <1>1, <1>2, <2>1, <2>2, <2>3 DEF MarkedInv, TouchedPhases
<1>6. ASSUME NEW s \in SeqId, FreeNextBlock(s) PROVE MarkedInv'
  <2>1. Freeing(s) /\ UNCHANGED <<computed_ids, call>> /\ Untouched(s)
    BY <1>6 DEF FreeNextBlock, managerVars, MarkedInv, TouchedPhases
  <2>2. TouchedInv' /\ Untouched(s)'
    BY <1>6, <2>1, FreeNextBlockTouched DEF MarkedInv
  <2>3. PICK k \in 1..MaxBlocks : FreeCached(<<s, k>>) \/ FreeHashless(<<s, k>>)
    BY <1>6 DEF FreeNextBlock, BlocksOf
  <2>4. Holds(<<s, k>>, NoBlock, NoHash) /\ touched' = touched
    BY <2>3 DEF FreeCached, FreeHashless
  <2>5. \A r \in SeqId : Untouched(r) => Untouched(r)'
    BY <1>3, <2>2, <2>4, OthersUntouched
  <2>6. \A r \in SeqId : Freeing(r)' => Freeing(r)
    BY <2>1 DEF Freeing
  <2>7. TouchedPhases'
    BY <1>1, <1>3, <1>4, <2>4, <2>5, <2>6 DEF MarkedInv, TouchedPhases
  <2>. QED
    BY <1>2, <2>1, <2>2, <2>7 DEF MarkedInv
<1>7. ASSUME NEW s \in SeqId, AllocateEnd(s) \/ FreeEnd(s) PROVE MarkedInv'
  <2>1. /\ UNCHANGED <<computed, cached, touched, block_id, content>> /\ call' = Idle
        /\ computed_ids' = computed_ids \/ computed_ids' = [computed_ids EXCEPT ![s] = <<>>]
    BY <1>7 DEF AllocateEnd, FreeEnd, allocVars, managerVars
  <2>2. TouchedInv' /\ computed_ids' \in [SeqId -> Seq(Block)]
    <3>1. TouchedInv'
      BY <2>1, TouchedSame DEF MarkedInv
    <3>2. computed_ids' \in [SeqId -> Seq(Block)]
      <4>1. computed_ids \in [SeqId -> Seq(Block)] /\ <<>> \in Seq(Block)
        BY DEF MarkedInv
      <4>. QED
        BY <2>1, <4>1
    <3>. QED
      BY <3>1, <3>2
  <2>3. \A r \in SeqId : ~Freeing(r)'
    BY <2>1, OneCallNext
  <2>4. \A r \in SeqId : Untouched(r) => Untouched(r)'
    BY <2>1, UntouchedSame
  <2>5. TouchedPhases'
    BY <1>1, <1>3, <1>4, <2>1, <2>3, <2>4 DEF MarkedInv, TouchedPhases
  <2>. QED
    BY <1>2, <2>2, <2>5 DEF MarkedInv
<1>. QED
  BY <1>1, <1>5, <1>6, <1>7 DEF CallStep

(* The steps that leave the blocks and the trackers alone.                      *)
LEMMA QuietMarks ==
  ASSUME ManagerInv, QueueInv, MarkedInv,
         \/ StartStep \/ EndStep \/ ChunkDone \/ Sample \/ EndRunning \/ Execute \/ IgnorePrompt
         \/ StartPrefill \/ \E s \in SeqId : AddRequest(s)
  PROVE  MarkedInv'
<1>1. UNCHANGED <<computed, cached, touched, block_id, content, computed_ids, tables>>
  BY DEF StartStep, EndStep, ChunkDone, Sample, EndRunning, Execute, IgnorePrompt, StartPrefill,
     AddRequest, AllocateBegin, blockVars, allocVars, managerVars
<1>2. CASE StartStep \/ EndStep \/ ChunkDone \/ Sample \/ Execute \/ \E s \in SeqId : AddRequest(s)
  <2>1. phase \in {"idle", "execute", "output"}
    BY <1>2 DEF StartStep, EndStep, ChunkDone, Sample, Progress, Execute, AddRequest
  <2>2. touched' = {}
    BY <1>1, <2>1 DEF MarkedInv, TouchedPhases
  <2>. QED
    BY <1>1, <2>2, NothingTouched, MarksQuiet
<1>3. CASE EndRunning \/ IgnorePrompt \/ StartPrefill
  <2>1. /\ phase \in {"running", "prefill"} /\ phase' \in {"prefill", "plan"} /\ UNCHANGED scheduled
        /\ call' = Idle \/ (\E s : call' = [op |-> "allocate", seq |-> s])
    BY <1>3 DEF EndRunning, IgnorePrompt, StartPrefill, AllocateBegin, blockVars
  <2>2. (\E s \in SeqId : InScheduled(s)) => (\E s \in SeqId : InScheduled(s)')
    BY <2>1 DEF InScheduled
  <2>3. \A s \in SeqId : ~Freeing(s)'
    BY <2>1, OneCallNext DEF Allocating
  <2>4. TouchedPhases'
    BY <1>1, <2>1, <2>2, <2>3 DEF MarkedInv, TouchedPhases
  <2>. QED
    BY <1>1, <2>4, MarksQuiet
<1>. QED
  BY <1>2, <1>3

(* A request that gives up its blocks holds none that wait.                      *)
LEMMA FreeBeginMarks ==
  ASSUME ManagerInv, MarkedInv, NEW s \in SeqId, FreeBegin(s),
         \/ phase \in {"idle", "output"}
         \/ /\ phase = "running" /\ s \in ToSet(running) /\ ToSet(running') \subseteq ToSet(running)
            /\ ToSet(running) \subseteq SeqId /\ UNCHANGED <<phase, scheduled>>
  PROVE  MarkedInv'
<1>1. /\ UNCHANGED <<computed, cached, touched, block_id, content>>
      /\ computed_ids' = [computed_ids EXCEPT ![s] = <<>>] /\ call' = [op |-> "free", seq |-> s]
  BY DEF FreeBegin, MarkAccessed, allocVars
<1>2. TouchedInv' /\ computed_ids' \in [SeqId -> Seq(Block)]
  BY <1>1, TouchedSame DEF MarkedInv
<1>3. \A r \in SeqId : KnownOK(r)'
  BY FreeBeginKnown DEF MarkedInv
<1>4. TouchedPhases'
  <2>1. CASE phase \in {"idle", "output"}
    <3>1. touched' = {}
      BY <1>1, <2>1 DEF MarkedInv, TouchedPhases
    <3>. QED
      BY <3>1, NothingTouched
  <2>2. CASE phase \notin {"idle", "output"}
    <3>1. \A r \in SeqId : Freeing(r)' => r = s
      BY <1>1 DEF Freeing
    <3>2. \A r \in SeqId : Untouched(r) => Untouched(r)'
      BY <1>1, UntouchedSame
    <3>3. (\E r \in SeqId : InScheduled(r)) => (\E r \in SeqId : InScheduled(r)')
      BY <2>2 DEF InScheduled
    <3>. QED
      BY <1>1, <2>2, <3>1, <3>2, <3>3 DEF MarkedInv, TouchedPhases
  <2>. QED
    BY <2>1, <2>2
<1>. QED
  BY <1>2, <1>3, <1>4 DEF MarkedInv

LEMMA ScheduleRunningMarks ==
  ASSUME ManagerInv, QueueInv, CacheInv, MarkedInv, ScheduleRunning,
         RunningChunk(Head(running)) \in Int
  PROVE  MarkedInv'
<1>0. PICK s : s = Head(running)
  OBVIOUS
<1>1. /\ phase = "running" /\ phase' = phase /\ running # <<>> /\ AppendSlots(s)
      /\ scheduled' = Scheduled(s, status[s], RunningChunk(s)) /\ running' = Tail(running)
  BY <1>0 DEF ScheduleRunning
<1>2. QueueTypeOK /\ running \in Seq(SeqId) /\ IsInjective(running)
  BY DEF QueueInv, QueueTypeOK, NoRepetition
<1>3. /\ s \in SeqId /\ s \in ToSet(running)
      /\ ToSet(running') = ToSet(running) \ {s} /\ ToSet(running) \subseteq SeqId
  BY <1>0, <1>1, <1>2, TailList, Elements
<1>4. status[s] \in {"decode", "prefill", "new"} /\ ~InScheduled(s)
  BY <1>3 DEF QueueInv, Place, RunningPlace, IsLive
<1>5. InScheduled(s)'
  BY <1>0, <1>1, <1>3, <1>4, GroupScheduled
<1>6. TouchedInv' /\ \A r \in SeqId : r # s /\ Untouched(r) => Untouched(r)'
  BY <1>1, <1>3, AppendSlotsTouched DEF MarkedInv
<1>7. call' = Idle /\ UNCHANGED computed_ids
  BY <1>1 DEF AppendSlots
<1>8. \A r \in SeqId : KnownOK(r)'
  BY <1>1, <1>3, AppendSlotsKnown DEF MarkedInv
<1>9. \A r \in SeqId : ~Freeing(r)'
  BY <1>7, OneCallNext
<1>10. TouchedPhases'
  BY <1>1, <1>3, <1>5, <1>6, <1>9 DEF MarkedInv, TouchedPhases
<1>. QED
  BY <1>6, <1>7, <1>8, <1>10 DEF MarkedInv

LEMMA PlanPrefillMarks ==
  ASSUME ManagerInv, QueueInv, CacheInv, MarkedInv, PlanPrefill,
         ChunkFor(Head(waiting)).end \in Int
  PROVE  MarkedInv'
<1>0. PICK s : s = Head(waiting)
  OBVIOUS
<1>1. /\ phase = "plan" /\ phase' = "prefill" /\ call = Idle
      /\ scheduled' = Scheduled(s, "new", ChunkFor(s).end)
      /\ UpdateComputedPrefix(s) /\ UNCHANGED <<allocVars, tables, call>>
  BY <1>0 DEF PlanPrefill, ChunkFor, TargetsFor, KeyFor, LiveFor
<1>2. QueueTypeOK /\ PhaseOK
  BY DEF QueueInv
<1>3. s \in SeqId
  BY <1>0, <1>1, <1>2, TailList DEF QueueTypeOK, PhaseOK
<1>4. Planned(s) /\ ~Freeing(s) /\ ~Allocating(s)
  BY <1>0, <1>1, OneCall DEF Planned
<1>5. s \in tables /\ ~InScheduled(s)
  BY <1>3, <1>4 DEF QueueInv, Place, TablePlace, RunningPlace, IsLive
<1>6. InScheduled(s)'
  BY <1>0, <1>1, <1>3, <1>5, GroupScheduled
<1>7. UNCHANGED <<computed, cached, touched, block_id, content>>
  BY <1>1 DEF allocVars
<1>8. TouchedInv'
  BY <1>7, TouchedSame DEF MarkedInv
<1>9. computed_ids' \in [SeqId -> Seq(Block)] /\ \A r \in SeqId : KnownOK(r)'
  BY <1>1, <1>4, <1>5, <1>7, UpdateKnown DEF MarkedInv
<1>10. \A r \in SeqId : ~Freeing(r)'
  BY <1>1, OneCallNext
<1>11. TouchedPhases'
  BY <1>1, <1>3, <1>6, <1>10 DEF TouchedPhases
<1>. QED
  BY <1>8, <1>9, <1>11 DEF MarkedInv

LEMMA EndPrefillMarks ==
  ASSUME ManagerInv, QueueInv, MarkedInv, EndPrefill
  PROVE  MarkedInv'
<1>1. /\ phase = "prefill" /\ phase' = "metadata" /\ call' = Idle
      /\ batch' = scheduled.new \o scheduled.prefill \o scheduled.decode
      /\ UNCHANGED <<computed, cached, touched, block_id, content, computed_ids, tables>>
  BY DEF EndPrefill, blockVars, allocVars, managerVars
<1>2. /\ scheduled.decode \in Seq(Group) /\ scheduled.prefill \in Seq(Group)
      /\ scheduled.new \in Seq(Group)
  BY QueueFacts
<1>3. ASSUME NEW s \in SeqId, InScheduled(s) PROVE batch' # <<>>
  <2>1. scheduled.new # <<>> \/ scheduled.prefill # <<>> \/ scheduled.decode # <<>>
    BY <1>3, NoGroups, EmptyList DEF InScheduled
  <2> DEFINE n == scheduled.new
             f == scheduled.prefill
             d == scheduled.decode
  <2>2. n \in Seq(Group) /\ f \in Seq(Group) /\ d \in Seq(Group) /\ batch' = (n \o f) \o d
        /\ (n # <<>> \/ f # <<>> \/ d # <<>>)
    BY <1>1, <1>2, <2>1
  <2> HIDE DEF n, f, d
  <2>3. n \o f \in Seq(Group) /\ Len(n \o f) = Len(n) + Len(f)
    BY <2>2
  <2>4. Len(batch') = Len(n) + Len(f) + Len(d)
    BY <2>2, <2>3
  <2>5. Len(n) > 0 \/ Len(f) > 0 \/ Len(d) > 0
    BY <2>2, Lengths
  <2>6. Len(batch') > 0
    BY <2>2, <2>4, <2>5
  <2>. QED
    BY <2>6
<1>4. \A s \in SeqId : ~Freeing(s)'
  BY <1>1, OneCallNext
<1>5. TouchedPhases'
  BY <1>1, <1>3, <1>4 DEF MarkedInv, TouchedPhases
<1>. QED
  BY <1>1, <1>5, MarksQuiet

LEMMA MetadataMarks ==
  ASSUME ManagerInv, QueueInv, CacheInv, MarkedInv, Metadata
  PROVE  MarkedInv'
<1>0. PICK g : g = Head(batch)
  OBVIOUS
<1> DEFINE s == g.seq
<1>1. /\ phase = "metadata" /\ phase' \in {"metadata", "dead"} /\ call = Idle /\ batch # <<>>
      /\ UpdateComputedPrefix(s) /\ UNCHANGED <<allocVars, tables, call>>
  BY <1>0 DEF Metadata
<1>2. sent' # <<>>
  <2>1. PICK a : sent' = Append(sent, a)
    BY DEF Metadata
  <2>2. sent \in Seq(ToSet(sent))
    BY QueueFacts
  <2>. QED
    BY <2>1, <2>2, Lengths
<1>3. s \in SeqId /\ s \in ToSet(Seqs(batch))
  <2>1. \A h \in Group : h.seq \in SeqId
    BY DEF Group
  <2>2. /\ batch \in Seq(Group) /\ Seqs(batch) \in Seq(SeqId)
    BY QueueFacts
  <2>3. s = Head(Seqs(batch)) /\ Seqs(batch) # <<>>
    BY <1>0, <1>1, <2>1, <2>2, GroupList
  <2>. QED
    BY <2>2, <2>3, TailList
<1>4. s \in tables /\ ~Freeing(s)
  BY <1>1, <1>3, OneCall DEF QueueInv, Place, BatchPlace, RunningPlace, TablePlace
<1> HIDE DEF s
<1>5. UNCHANGED <<computed, cached, touched, block_id, content>>
  BY <1>1 DEF allocVars
<1>6. TouchedInv'
  BY <1>5, TouchedSame DEF MarkedInv
<1>7. computed_ids' \in [SeqId -> Seq(Block)] /\ \A r \in SeqId : KnownOK(r)'
  BY <1>1, <1>4, <1>5, UpdateKnown DEF MarkedInv
<1>8. \A r \in SeqId : ~Freeing(r)'
  BY <1>1, OneCallNext
<1>9. TouchedPhases'
  BY <1>1, <1>2, <1>8 DEF TouchedPhases
<1>. QED
  BY <1>6, <1>7, <1>9 DEF MarkedInv

LEMMA EndMetadataMarks ==
  ASSUME ManagerInv, QueueInv, MarkedInv, EndMetadata
  PROVE  MarkedInv'
<1>1. /\ phase = "metadata" /\ batch = <<>>
      /\ IF sent = <<>> THEN UNCHANGED allocVars ELSE MarkComputed
      /\ UNCHANGED <<computed_ids, tables>>
  BY DEF EndMetadata, managerVars
<1>2. TouchedInv' /\ touched' = {} /\ UNCHANGED block_id
  <2>1. CASE sent = <<>>
    <3>1. touched = {} /\ UNCHANGED <<computed, cached, touched, block_id, content>>
      BY <1>1, <2>1 DEF MarkedInv, TouchedPhases, allocVars
    <3>. QED
      BY <3>1, TouchedSame DEF MarkedInv
  <2>2. CASE sent # <<>>
    <3>1. MarkComputed /\ AllocInv /\ TouchedInv
      BY <1>1, <2>2 DEF MarkedInv, ManagerInv
    <3>. QED
      BY <3>1, MarkTouched DEF MarkComputed
  <2>. QED
    BY <2>1, <2>2
<1>3. \A r \in SeqId : KnownOK(r)'
  BY <1>1, <1>2, KnownQuiet DEF MarkedInv
<1>. QED
  BY <1>1, <1>2, <1>3, NothingTouched DEF MarkedInv

LEMMA MarksKept ==
  ASSUME SchedulerInv, ClosedInv, MarkedInv, Next
  PROVE  MarkedInv'
<1>0. /\ ManagerInv /\ QueueInv /\ BudgetInv /\ CacheInv /\ QueueTypeOK /\ PhaseOK
      /\ tokens \in [SeqId -> Text]
  BY DEF SchedulerInv, ClosedInv, QueueInv, ManagerInv, ManagerTypeOK
<1>1. CASE ManagerStep
  BY <1>0, <1>1, ManagerStepMarks
<1>2. CASE StartStep \/ EndStep \/ ChunkDone \/ Sample \/ EndRunning \/ Execute \/ IgnorePrompt
           \/ StartPrefill \/ \E s \in SeqId : AddRequest(s)
  BY <1>0, <1>2, QuietMarks
<1>3. ASSUME NEW s \in SeqId, Abort(s) PROVE MarkedInv'
  <2>1. phase = "idle" /\ FreeSeq(s)
    BY <1>3 DEF Abort
  <2>2. CASE s \in tables
    BY <1>0, <2>1, <2>2, FreeBeginMarks DEF FreeSeq
  <2>3. CASE s \notin tables
    <3>1. UNCHANGED <<computed, cached, touched, block_id, content, computed_ids, tables>>
      BY <2>1, <2>3 DEF FreeSeq, blockVars, allocVars, managerVars
    <3>2. touched' = {}
      BY <2>1, <3>1 DEF MarkedInv, TouchedPhases
    <3>. QED
      BY <3>1, <3>2, NothingTouched, MarksQuiet
  <2>. QED
    BY <2>2, <2>3
<1>4. CASE Preempt
  <2>1. PICK v : v = Last(running)
    OBVIOUS
  <2>2. /\ phase = "running" /\ running # <<>> /\ FreeBegin(v) /\ running' = Front(running)
        /\ UNCHANGED <<phase, scheduled>>
    BY <1>4, <2>1 DEF Preempt
  <2>3. /\ v \in SeqId /\ v \in ToSet(running) /\ ToSet(running') \subseteq ToSet(running)
        /\ ToSet(running) \subseteq SeqId
    BY <1>0, <2>1, <2>2, FrontList, Elements DEF QueueInv, QueueTypeOK, NoRepetition
  <2>. QED
    BY <1>0, <2>2, <2>3, FreeBeginMarks
<1>5. CASE Finish
  <2>1. PICK s : s = Head(sent).seq
    OBVIOUS
  <2>2. phase = "output" /\ sent # <<>> /\ FreeBegin(s)
    BY <1>5, <2>1 DEF Finish, Progress
  <2>3. s \in SeqId
    BY <1>0, <2>1, <2>2, SentTail
  <2>. QED
    BY <1>0, <2>2, <2>3, FreeBeginMarks
<1>6. CASE ScheduleRunning
  <2>1. running # <<>> /\ NumNewTokens(Head(running)) > 0
    BY <1>6 DEF ScheduleRunning
  <2>2. Head(running) \in SeqId
    BY <1>0, <2>1, TailList DEF QueueTypeOK
  <2>3. RunningChunk(Head(running)) \in Int
    BY <1>0, <2>1, <2>2, RunningChunks
  <2>. QED
    BY <1>0, <1>6, <2>3, ScheduleRunningMarks
<1>7. CASE PlanPrefill
  <2>1. Head(waiting) \in SeqId
    BY <1>0, <1>7, TailList DEF PlanPrefill, QueueTypeOK, PhaseOK
  <2>2. ChunkFor(Head(waiting)).end \in Int
    BY <1>0, <2>1, PlannedChunk
  <2>. QED
    BY <1>0, <1>7, <2>2, PlanPrefillMarks
<1>8. CASE EndPrefill \/ Metadata \/ EndMetadata
  BY <1>0, <1>8, EndPrefillMarks, MetadataMarks, EndMetadataMarks
<1>. QED
  BY <1>1, <1>2, <1>3, <1>4, <1>5, <1>6, <1>7, <1>8 DEF Next

LEMMA MarksStutter == ASSUME MarkedInv, UNCHANGED vars PROVE MarkedInv'
<1>1. /\ UNCHANGED <<computed, cached, touched, block_id, content, computed_ids, tables>>
      /\ UNCHANGED <<call, phase, running, scheduled, batch, sent>>
  BY DEF vars, blockVars, allocVars, managerVars, engineVars, queueVars
<1>2. TouchedPhases'
  BY <1>1 DEF MarkedInv, TouchedPhases, Untouched, BlocksOf, Allocated, Freeing, InScheduled
<1>. QED
  BY <1>1, <1>2, MarksQuiet

LEMMA InitMarks == ASSUME Init PROVE MarkedInv
<1>1. /\ touched = {} /\ computed_ids = [s \in SeqId |-> <<>>]
      /\ block_id = [o \in Obj |-> NoBlock] /\ cached = [h \in Hash |-> NoBlock]
  BY DEF Init, ManagerInit, AllocInit
<1>2. TouchedInv
  BY <1>1 DEF TouchedInv, TouchedHeld, MarksOK, TouchedGoOn, Allocated
<1>3. TouchedPhases
  BY <1>1 DEF TouchedPhases, Untouched
<1>4. computed_ids \in [SeqId -> Seq(Block)] /\ \A s \in SeqId : KnownOK(s)
  BY <1>1 DEF KnownOK
<1>. QED
  BY <1>2, <1>3, <1>4 DEF MarkedInv

LEMMA MarksContiguous == ASSUME SchedulerInv, MarkedInv PROVE ComputedPrefixContiguous
<1>1. ManagerInv /\ tables \subseteq SeqId
  BY DEF SchedulerInv, ManagerInv, ManagerTypeOK
<1>2. ASSUME call = Idle, NEW s \in tables
      PROVE  computed_ids[s] = SubSeq(Table(s), 1, Len(computed_ids[s]))
  <2>1. ~Freeing(s) /\ KnownOK(s) /\ computed_ids \in [SeqId -> Seq(Block)]
    BY <1>1, <1>2, OneCall DEF MarkedInv
  <2>. QED
    BY <1>1, <2>1, KnownIsPrefix
<1>. QED
  BY <1>2 DEF ComputedPrefixContiguous

(* What the scheduler tells the attention kernels to skip is a prefix of the     *)
(* table: although get_common_computed_block_ids does not stop at a gap, there  *)
(* is none, for a computed block is preceded in its table by computed ones.  *)
THEOREM ComputedPrefixIsContiguous == Spec => []ComputedPrefixContiguous
<1>1. Init => ClosedInv /\ MarkedInv
  BY InitClosed, InitMarks
<1>2. SchedulerInv /\ (ClosedInv /\ MarkedInv) /\ [Next]_vars => (ClosedInv /\ MarkedInv)'
  BY StampsKept, CacheKept, ClosedStutter, MarksKept, MarksStutter DEF ClosedInv
<1>3. SchedulerInv /\ (ClosedInv /\ MarkedInv) => ComputedPrefixContiguous
  BY MarksContiguous
<1>. QED
  BY <1>1, <1>2, <1>3, SchedulerInvariant, PTL DEF Spec

(* No block that mark_blocks_as_computed is still to mark is given up or handed  *)
(* out again before: no mark falls on a block that is being filled.          *)
THEOREM MarksStayTrue == Spec => []MarksBelongToContent
<1>1. Init => ClosedInv /\ MarkedInv
  BY InitClosed, InitMarks
<1>2. SchedulerInv /\ (ClosedInv /\ MarkedInv) /\ [Next]_vars => (ClosedInv /\ MarkedInv)'
  BY StampsKept, CacheKept, ClosedStutter, MarksKept, MarksStutter DEF ClosedInv
<1>3. MarkedInv => MarksBelongToContent
  BY DEF MarkedInv, TouchedInv, TouchedHeld, MarksOK, MarksBelongToContent
<1>. QED
  BY <1>1, <1>2, <1>3, SchedulerInvariant, PTL DEF Spec

------------------------
(* How far the requests have come.  A decode lacks the KV of its last token; the *)
(* table of a request is full but for the last token of a decode that has not   *)
(* been scheduled yet; no step goes beyond the tokens there are.              *)
InStep(s) == InScheduled(s) \/ s \in ToSet(Seqs(batch)) \/ s \in ToSet(Seqs(sent))

DoneOK(s) == done[s] >= 0 /\ (status[s] = "decode" => done[s] = SeqLen(s) - 1)
SlotsOK(s) ==
  s \in tables =>
    full_slots[s] = IF status[s] = "prefill" \/ InStep(s) THEN SeqLen(s) ELSE SeqLen(s) - 1

ScheduledGroups ==
  ToSet(scheduled.decode) \cup ToSet(scheduled.prefill) \cup ToSet(scheduled.new) \cup ToSet(batch)
GroupsOK == \A g \in ScheduledGroups : g.chunk > 0

ActionOK(g) ==
  /\ g.start \in Nat /\ g.end \in Nat \ {0} /\ g.end <= SeqLen(g.seq)
  /\ g.prompt <=> status[g.seq] = "prefill"
  /\ ~g.prompt => g.start = done[g.seq] /\ g.end = SeqLen(g.seq)
SentOK == \A g \in ToSet(sent) : ActionOK(g)

KeysOK == restore_key \in [SeqId -> Hash \cup {NoKey}]
PlannedOK ==
  phase = "plan" => computed_ids[Head(waiting)] = <<>> /\ NumNewTokens(Head(waiting)) > 0

ProgressInv ==
  /\ AloneOK /\ KeysOK /\ PlannedOK /\ GroupsOK /\ SentOK
  /\ \A s \in SeqId : DoneOK(s) /\ SlotsOK(s)

LEMMA SameProgress ==
  ASSUME ProgressInv, PlannedOK',
         UNCHANGED <<block_id, content, restore_key, scheduled, batch, sent, status, done, tokens,
                     tables, full_slots>>
  PROVE  ProgressInv'
<1>1. AloneOK'
  BY AloneSame DEF ProgressInv
<1>2. KeysOK' /\ GroupsOK' /\ SentOK'
  BY DEF ProgressInv, KeysOK, GroupsOK, ScheduledGroups, SentOK, ActionOK, SeqLen
<1>3. \A s \in SeqId : DoneOK(s)' /\ SlotsOK(s)'
  BY DEF ProgressInv, DoneOK, SlotsOK, InStep, InScheduled, SeqLen
<1>. QED
  BY <1>1, <1>2, <1>3 DEF ProgressInv

(* A group of a list is a group of one of its sequences.                          *)
LEMMA SeqOfGroup ==
  ASSUME NEW S, NEW l \in Seq(S), NEW g \in ToSet(l)
  PROVE  g.seq \in ToSet(Seqs(l))
<1>1. PICK i \in DOMAIN l : g = l[i]
  BY DEF ToSet
<1>2. i \in DOMAIN Seqs(l) /\ Seqs(l)[i] = g.seq
  BY <1>1 DEF Seqs
<1>. QED
  BY <1>2 DEF ToSet

LEMMA ManagerStepProgress ==
  ASSUME ManagerInv, QueueInv, MarkedInv, ProgressInv, ManagerStep
  PROVE  ProgressInv'
<1>1. /\ CallStep
      /\ UNCHANGED <<restore_key, scheduled, batch, sent, status, done, tokens, phase, waiting,
                     spent>>
  BY DEF ManagerStep, engineVars, queueVars, gdnVars
<1>2. AloneOK'
  BY <1>1, CallStepAlone DEF ProgressInv
<1>3. KeysOK' /\ GroupsOK' /\ SentOK'
  BY <1>1 DEF ProgressInv, KeysOK, GroupsOK, ScheduledGroups, SentOK, ActionOK, SeqLen
<1>4. CASE UNCHANGED <<computed_ids, tables, full_slots>>
  <2>1. PlannedOK'
    BY <1>1, <1>4 DEF ProgressInv, PlannedOK, NumNewTokens, Remaining, SeqLen
  <2>2. \A s \in SeqId : DoneOK(s)' /\ SlotsOK(s)'
    BY <1>1, <1>4 DEF ProgressInv, DoneOK, SlotsOK, InStep, InScheduled, SeqLen
  <2>. QED
    BY <1>2, <1>3, <2>1, <2>2 DEF ProgressInv
<1>5. ASSUME NEW s \in SeqId, AllocateEnd(s) PROVE ProgressInv'
  <2>1. /\ tables' = tables \cup {s} /\ full_slots' = [full_slots EXCEPT ![s] = SeqLen(s)]
        /\ computed_ids' = [computed_ids EXCEPT ![s] = <<>>] /\ Allocating(s)
    BY <1>5 DEF AllocateEnd, SeqLen
  <2>2. /\ full_slots \in [SeqId -> Nat] /\ computed_ids \in [SeqId -> Seq(Block)]
        /\ status[s] = "prefill"
    BY <2>1 DEF ManagerInv, ManagerTypeOK, MarkedInv, QueueInv, Place, TablePlace
  <2>3. \A r \in SeqId : /\ full_slots'[r] = IF r = s THEN SeqLen(s) ELSE full_slots[r]
                         /\ computed_ids'[r] = IF r = s THEN <<>> ELSE computed_ids[r]
    BY <2>1, <2>2
  <2>4. phase = "plan" => Head(waiting) \in SeqId
    BY TailList DEF QueueInv, QueueTypeOK, PhaseOK
  <2>5. PlannedOK'
    BY <1>1, <2>3, <2>4 DEF ProgressInv, PlannedOK, NumNewTokens, Remaining, SeqLen
  <2>6. \A r \in SeqId : DoneOK(r)'
    BY <1>1 DEF ProgressInv, DoneOK, SeqLen
  <2>7. \A r \in SeqId : SlotsOK(r)'
    BY <1>1, <2>1, <2>2, <2>3 DEF ProgressInv, SlotsOK, InStep, InScheduled, SeqLen
  <2>. QED
    BY <1>2, <1>3, <2>5, <2>6, <2>7 DEF ProgressInv
<1>. QED
  BY <1>1, <1>4, <1>5 DEF CallStep, AllocateNextBlock, FreeNextBlock, FreeEnd, managerVars

LEMMA PhaseStepProgress ==
  ASSUME ProgressInv, StartStep \/ EndRunning \/ EndMetadata \/ Execute \/ EndStep
  PROVE  ProgressInv'
<1>1. UNCHANGED <<restore_key, scheduled, batch, sent, status, done, tokens, tables, full_slots>>
  BY DEF StartStep, EndRunning, EndMetadata, Execute, EndStep, blockVars, managerVars, queueVars,
         gdnVars
<1>2. UNCHANGED <<block_id, content>>
  BY DEF StartStep, EndRunning, EndMetadata, Execute, EndStep, blockVars, allocVars, MarkComputed
<1>3. phase' # "plan"
  BY DEF StartStep, EndRunning, EndMetadata, Execute, EndStep
<1>. QED
  BY <1>1, <1>2, <1>3, SameProgress DEF PlannedOK

(* A request is finished, aborted, ignored or preempted.                          *)
LEMMA LeavingProgress ==
  ASSUME ProgressInv, QueueTypeOK, ManagerTypeOK, NEW s \in SeqId,
         UNCHANGED <<block_id, content, restore_key, scheduled, batch>>, phase' # "plan",
         done' = [done EXCEPT ![s] = 0],
         NEW x \in {"absent", "waiting"}, status' = [status EXCEPT ![s] = x],
         tables' \subseteq tables \ {s},
         \A r \in SeqId : r # s => full_slots'[r] = full_slots[r] /\ tokens'[r] = tokens[r],
         sent' = sent \/ sent' = Tail(sent), sent' # <<>> => sent # <<>>,
         \A g \in ToSet(sent') : g.seq # s,
         \A r \in SeqId : r # s => (r \in ToSet(Seqs(sent')) <=> r \in ToSet(Seqs(sent)))
  PROVE  ProgressInv'
<1>0. /\ done \in [SeqId -> Int] /\ tables \subseteq SeqId
      /\ status \in [SeqId -> {"absent", "waiting", "prefill", "decode"}]
  BY DEF QueueTypeOK, ManagerTypeOK
<1>1. AloneOK' /\ KeysOK' /\ GroupsOK' /\ PlannedOK'
  BY AloneSame DEF ProgressInv, KeysOK, GroupsOK, ScheduledGroups, PlannedOK
<1>2. /\ done'[s] = 0 /\ status'[s] = x
      /\ \A r \in SeqId : r # s => done'[r] = done[r] /\ status'[r] = status[r]
  BY <1>0
<1>3. \A r \in SeqId : r # s => SeqLen(r)' = SeqLen(r)
  BY DEF SeqLen
<1>4. ASSUME NEW r \in SeqId PROVE DoneOK(r)'
  BY <1>2, <1>3 DEF ProgressInv, DoneOK
<1>5. ASSUME NEW r \in SeqId PROVE SlotsOK(r)'
  BY <1>2, <1>3 DEF ProgressInv, SlotsOK, InStep, InScheduled
<1>6. SentOK'
  <2>1. sent \in Seq(ToSet(sent))
    BY DEF QueueTypeOK, IsListOfActions
  <2>2. ToSet(sent') \subseteq ToSet(sent)
    <3>1. CASE sent' = sent
      BY <3>1
    <3>2. CASE sent' = Tail(sent) /\ sent # <<>>
      BY <2>1, <3>2, TailList
    <3>3. CASE sent' = <<>>
      BY <3>3, EmptyList
    <3>. QED
      BY <3>1, <3>2, <3>3
  <2>3. \A g \in ToSet(sent) : g.seq \in SeqId
    BY DEF QueueTypeOK, IsListOfActions, ToSet
  <2>4. ASSUME NEW g \in ToSet(sent') PROVE ActionOK(g)'
    <3>1. PICK r \in SeqId : r = g.seq
      BY <2>2, <2>3, <2>4
    <3>2. r # s /\ ActionOK(g)
      BY <2>2, <2>4, <3>1 DEF ProgressInv, SentOK
    <3>. QED
      BY <1>2, <1>3, <3>1, <3>2 DEF ActionOK
  <2>. QED
    BY <2>4 DEF SentOK
<1>. QED
  BY <1>1, <1>4, <1>5, <1>6 DEF ProgressInv

LEMMA AddRequestProgress ==
  ASSUME ManagerInv, QueueInv, ProgressInv, NEW s \in SeqId, AddRequest(s)
  PROVE  ProgressInv'
<1>1. /\ phase = "idle" /\ phase' = phase /\ status[s] = "absent"
      /\ status' = [status EXCEPT ![s] = "waiting"]
      /\ restore_key' = [restore_key EXCEPT ![s] = NoKey]
      /\ UNCHANGED <<block_id, content, tables, full_slots, done, scheduled, batch, sent>>
  BY DEF AddRequest, blockVars, allocVars, managerVars
<1>2. /\ status \in [SeqId -> {"absent", "waiting", "prefill", "decode"}]
      /\ tokens \in [SeqId -> Text] /\ sent = <<>> /\ s \notin tables
  BY <1>1 DEF ManagerInv, ManagerTypeOK, QueueInv, QueueTypeOK, PhaseOK, Place, TablePlace, IsLive
<1>3. \A r \in SeqId : r # s => tokens'[r] = tokens[r] /\ status'[r] = status[r]
  <2>1. PICK t \in Prompts : tokens' = [tokens EXCEPT ![s] = t]
    BY DEF AddRequest
  <2>. QED
    BY <1>1, <1>2, <2>1
<1>4. AloneOK' /\ KeysOK' /\ GroupsOK' /\ PlannedOK' /\ SentOK'
  <2>1. KeysOK'
    BY <1>1 DEF ProgressInv, KeysOK
  <2>2. SentOK'
    BY <1>1, <1>2, EmptyList DEF SentOK
  <2>. QED
    BY <1>1, <2>1, <2>2, AloneSame
       DEF ProgressInv, GroupsOK, ScheduledGroups, PlannedOK
<1>5. ASSUME NEW r \in SeqId PROVE DoneOK(r)' /\ SlotsOK(r)'
  <2>1. CASE r = s
    BY <1>1, <1>2, <2>1 DEF ProgressInv, DoneOK, SlotsOK
  <2>2. CASE r # s
    BY <1>1, <1>2, <1>3, <2>2 DEF ProgressInv, DoneOK, SlotsOK, InStep, InScheduled, SeqLen
  <2>. QED
    BY <2>1, <2>2
<1>. QED
  BY <1>4, <1>5 DEF ProgressInv

(* block_manager.free, as the schedule sees it.                                  *)
LEMMA FreeSeqFrame ==
  ASSUME ManagerInv, NEW s \in SeqId, FreeSeq(s) \/ FreeBegin(s)
  PROVE  /\ UNCHANGED <<block_id, content, cached, computed, touched>>
         /\ tables' \subseteq tables \ {s}
         /\ \A r \in SeqId : r # s => full_slots'[r] = full_slots[r]
<1>1. CASE FreeBegin(s)
  BY <1>1 DEF FreeBegin, MarkAccessed, allocVars, ManagerInv, ManagerTypeOK
<1>2. CASE FreeSeq(s) /\ s \notin tables
  BY <1>2 DEF FreeSeq, blockVars, allocVars, managerVars
<1>. QED
  BY <1>1, <1>2 DEF FreeSeq

LEMMA LeavingStepsProgress ==
  ASSUME ManagerInv, QueueInv, ProgressInv,
         (\E s \in SeqId : Abort(s)) \/ Preempt \/ IgnorePrompt \/ Finish
  PROVE  ProgressInv'
<1>0. QueueTypeOK /\ ManagerTypeOK /\ PhaseOK /\ tokens \in [SeqId -> Text]
  BY DEF QueueInv, ManagerInv, ManagerTypeOK
<1>1. ASSUME NEW s \in SeqId, Abort(s) PROVE ProgressInv'
  <2>1. /\ phase = "idle" /\ phase' = phase /\ FreeSeq(s)
        /\ status' = [status EXCEPT ![s] = "absent"] /\ done' = [done EXCEPT ![s] = 0]
        /\ tokens' = [tokens EXCEPT ![s] = <<>>]
        /\ UNCHANGED <<restore_key, scheduled, batch, sent>>
    BY <1>1 DEF Abort, Leaves, gdnVars
  <2>2. sent = <<>> /\ \A g \in ToSet(sent') : g.seq # s
    BY <1>0, <2>1, EmptyList DEF PhaseOK
  <2>. QED
    BY <1>0, <2>1, <2>2, FreeSeqFrame, LeavingProgress
<1>2. CASE Preempt
  <2>0. PICK s : s = Last(running)
    OBVIOUS
  <2>1. /\ phase = "running" /\ phase' = phase /\ running # <<>> /\ FreeBegin(s)
        /\ status' = [status EXCEPT ![s] = "waiting"] /\ done' = [done EXCEPT ![s] = 0]
        /\ UNCHANGED <<tokens, restore_key, scheduled, batch, sent>>
    BY <1>2, <2>0 DEF Preempt, gdnVars
  <2>2. s \in SeqId
    BY <1>0, <2>0, <2>1, FrontList DEF QueueTypeOK, QueueInv, NoRepetition
  <2>3. sent = <<>> /\ \A g \in ToSet(sent') : g.seq # s
    BY <1>0, <2>1, EmptyList DEF PhaseOK
  <2>. QED
    BY <1>0, <2>1, <2>2, <2>3, FreeSeqFrame, LeavingProgress
<1>3. CASE IgnorePrompt
  <2>0. PICK s : s = Head(waiting)
    OBVIOUS
  <2>1. /\ phase = "prefill" /\ phase' = phase /\ waiting # <<>>
        /\ status' = [status EXCEPT ![s] = "absent"] /\ done' = [done EXCEPT ![s] = 0]
        /\ tokens' = [tokens EXCEPT ![s] = <<>>]
        /\ UNCHANGED <<block_id, content, tables, full_slots, restore_key, scheduled, batch, sent>>
    BY <1>3, <2>0 DEF IgnorePrompt, Leaves, gdnVars, blockVars, allocVars, managerVars
  <2>2. s \in SeqId /\ s \in ToSet(waiting)
    BY <1>0, <2>0, <2>1, TailList DEF QueueTypeOK
  <2>3. Place(s)
    BY <2>2 DEF QueueInv
  <2>4. s \notin tables
    BY <2>1, <2>2, <2>3 DEF Place, WaitingPlace, TablePlace, Planned, IsLive
  <2>5. sent = <<>> /\ \A g \in ToSet(sent') : g.seq # s
    BY <1>0, <2>1, EmptyList DEF PhaseOK
  <2>. QED
    BY <1>0, <2>1, <2>2, <2>4, <2>5, LeavingProgress
<1>4. CASE Finish
  <2>0. PICK s : s = Head(sent).seq
    OBVIOUS
  <2>1. /\ phase = "output" /\ phase' = phase /\ sent # <<>> /\ sent' = Tail(sent) /\ FreeBegin(s)
        /\ status' = [status EXCEPT ![s] = "absent"] /\ done' = [done EXCEPT ![s] = 0]
        /\ tokens' = [tokens EXCEPT ![s] = <<>>]
        /\ UNCHANGED <<restore_key, scheduled, batch>>
    BY <1>4, <2>0 DEF Finish, Progress, Leaves, gdnVars
  <2>2. s \in SeqId /\ ToSet(Seqs(sent')) = ToSet(Seqs(sent)) \ {s}
    BY <2>0, <2>1, SentTail
  <2>3. sent' \in Seq(ToSet(sent))
    BY <1>0, <2>1, TailList DEF QueueTypeOK, IsListOfActions
  <2>4. \A g \in ToSet(sent') : g.seq # s
    BY <2>2, <2>3, SeqOfGroup
  <2>. QED
    BY <1>0, <2>1, <2>2, <2>4, FreeSeqFrame, LeavingProgress
<1>. QED
  BY <1>1, <1>2, <1>3, <1>4

LEMMA StartPrefillProgress ==
  ASSUME ManagerInv, QueueInv, MarkedInv, ProgressInv, StartPrefill
  PROVE  ProgressInv'
<1>0. PICK s : s = Head(waiting)
  OBVIOUS
<1>1. /\ phase = "prefill" /\ waiting # <<>> /\ status' = [status EXCEPT ![s] = "prefill"]
      /\ NumNewTokens(s) > 0
      /\ UNCHANGED <<block_id, content, tables, full_slots, computed_ids, tokens, done, waiting,
                     restore_key, scheduled, batch, sent, spent>>
  BY <1>0 DEF StartPrefill, AllocateBegin, BudgetAllows, allocVars, managerVars, gdnVars
<1>2. /\ s \in SeqId /\ s \in ToSet(waiting)
      /\ status \in [SeqId -> {"absent", "waiting", "prefill", "decode"}] /\ sent = <<>>
  BY <1>0, <1>1, TailList DEF QueueInv, QueueTypeOK, PhaseOK
<1>3. Place(s)
  BY <1>2 DEF QueueInv
<1>4. s \notin tables /\ status[s] = "waiting"
  BY <1>1, <1>2, <1>3 DEF Place, WaitingPlace, TablePlace, Planned, IsLive
<1>5. KnownOK(s)
  BY <1>2 DEF MarkedInv
<1>6. PlannedOK'
  <2>1. NumNewTokens(s)' = NumNewTokens(s)
    BY <1>1, <1>2, <1>4 DEF NumNewTokens, Remaining, SeqLen
  <2>. QED
    BY <1>0, <1>1, <1>4, <1>5, <2>1 DEF PlannedOK, KnownOK
<1>7. AloneOK' /\ KeysOK' /\ GroupsOK' /\ SentOK'
  BY <1>1, <1>2, EmptyList, AloneSame
     DEF ProgressInv, KeysOK, GroupsOK, ScheduledGroups, SentOK
<1>8. ASSUME NEW r \in SeqId PROVE DoneOK(r)' /\ SlotsOK(r)'
  <2>1. CASE r = s
    BY <1>1, <1>2, <1>4, <2>1 DEF ProgressInv, DoneOK, SlotsOK
  <2>2. CASE r # s
    BY <1>1, <1>2, <2>2 DEF ProgressInv, DoneOK, SlotsOK, InStep, InScheduled, SeqLen
  <2>. QED
    BY <2>1, <2>2
<1>. QED
  BY <1>6, <1>7, <1>8 DEF ProgressInv

(* A group enters one of the lists of the step.                                   *)
LEMMA GroupAdded ==
  ASSUME QueueTypeOK, GroupsOK, NEW s \in SeqId, NEW k \in {"decode", "prefill", "new"},
         NEW c \in Int, c > 0, scheduled' = Scheduled(s, k, c), UNCHANGED batch
  PROVE  GroupsOK'
<1> DEFINE g == [seq |-> s, chunk |-> c]
<1>1. g \in Group /\ g.chunk = c
  BY DEF Group
<1>2. /\ scheduled \in [decode : Seq(Group), prefill : Seq(Group), new : Seq(Group)]
      /\ scheduled' = [scheduled EXCEPT ![k] = Append(@, g)]
  BY DEF QueueTypeOK, Scheduled
<1> HIDE DEF g
<1>3. /\ ToSet(Append(scheduled.decode, g)) = ToSet(scheduled.decode) \cup {g}
      /\ ToSet(Append(scheduled.prefill, g)) = ToSet(scheduled.prefill) \cup {g}
      /\ ToSet(Append(scheduled.new, g)) = ToSet(scheduled.new) \cup {g}
  BY <1>1, <1>2, AppendList
<1>4. /\ ToSet(scheduled'.decode) \subseteq ToSet(scheduled.decode) \cup {g}
      /\ ToSet(scheduled'.prefill) \subseteq ToSet(scheduled.prefill) \cup {g}
      /\ ToSet(scheduled'.new) \subseteq ToSet(scheduled.new) \cup {g}
  <2>1. CASE k = "decode"
    BY <1>2, <1>3, <2>1
  <2>2. CASE k = "prefill"
    BY <1>2, <1>3, <2>2
  <2>3. CASE k = "new"
    BY <1>2, <1>3, <2>3
  <2>. QED
    BY <2>1, <2>2, <2>3
<1>. QED
  BY <1>1, <1>4 DEF GroupsOK, ScheduledGroups

LEMMA ScheduleRunningProgress ==
  ASSUME SchedulerInv, ProgressInv, ScheduleRunning
  PROVE  ProgressInv'
<1>0. PICK s : s = Head(running)
  OBVIOUS
<1>1. /\ phase = "running" /\ phase' = phase /\ running # <<>> /\ NumNewTokens(s) > 0
      /\ AppendSlots(s) /\ scheduled' = Scheduled(s, status[s], RunningChunk(s))
      /\ UNCHANGED <<tokens, status, done, batch, sent, restore_key>>
  BY <1>0 DEF ScheduleRunning, gdnVars
<1>2. /\ ManagerInv /\ QueueInv /\ BudgetInv /\ QueueTypeOK /\ PhaseOK
      /\ tokens \in [SeqId -> Text] /\ full_slots \in [SeqId -> Nat]
  BY DEF SchedulerInv, QueueInv, ManagerInv, ManagerTypeOK
<1>3. s \in SeqId /\ s \in ToSet(running)
  BY <1>0, <1>1, <1>2, TailList DEF QueueTypeOK
<1>4. Place(s)
  BY <1>2, <1>3 DEF QueueInv
<1>5. status[s] \in {"decode", "prefill"} /\ ~InScheduled(s)
  BY <1>3, <1>4 DEF Place, RunningPlace, IsLive
<1>6. RunningChunk(s) \in Int /\ RunningChunk(s) > 0
  BY <1>1, <1>2, <1>3, RunningChunks
<1>7. sent = <<>>
  BY <1>1, <1>2 DEF PhaseOK
<1>8. AloneOK'
  BY <1>1, <1>2, <1>3, AppendSlotsAlone DEF ProgressInv
<1>9. GroupsOK'
  BY <1>1, <1>2, <1>3, <1>5, <1>6, GroupAdded DEF ProgressInv
<1>10. KeysOK' /\ PlannedOK' /\ SentOK'
  BY <1>1, <1>7, EmptyList DEF ProgressInv, KeysOK, PlannedOK, SentOK
<1>11. \A r \in SeqId : InScheduled(r)' <=> InScheduled(r) \/ r = s
  BY <1>1, <1>2, <1>3, <1>5, <1>6, GroupScheduled
<1>12. tables' = tables /\ full_slots' = [full_slots EXCEPT ![s] = SeqLen(s)]
  BY <1>1 DEF AppendSlots, SeqLen
<1>13. ASSUME NEW r \in SeqId PROVE DoneOK(r)' /\ SlotsOK(r)'
  <2>1. DoneOK(r)'
    BY <1>1 DEF ProgressInv, DoneOK, SeqLen
  <2>2. SeqLen(r)' = SeqLen(r) /\ status'[r] = status[r] /\ (r \in tables' <=> r \in tables)
    BY <1>1, <1>12 DEF SeqLen
  <2>3. full_slots'[r] = IF r = s THEN SeqLen(s) ELSE full_slots[r]
    BY <1>2, <1>12
  <2>4. InStep(r)' <=> InStep(r) \/ r = s
    BY <1>1, <1>11 DEF InStep
  <2>5. SlotsOK(r)
    BY DEF ProgressInv
  <2>6. SlotsOK(r)'
    BY <2>2, <2>3, <2>4, <2>5 DEF SlotsOK
  <2>. QED
    BY <2>1, <2>6
<1>. QED
  BY <1>8, <1>9, <1>10, <1>13 DEF ProgressInv

LEMMA PlanPrefillProgress ==
  ASSUME SchedulerInv, ProgressInv, PlanPrefill
  PROVE  ProgressInv'
<1>0. PICK s : s = Head(waiting)
  OBVIOUS
<1>1. /\ phase = "plan" /\ phase' = "prefill" /\ scheduled' = Scheduled(s, "new", ChunkFor(s).end)
      /\ restore_key' = [restore_key EXCEPT ![s] = KeyFor(s)]
      /\ UNCHANGED <<block_id, content, tables, full_slots, tokens, status, done, batch, sent>>
  BY <1>0 DEF PlanPrefill, ChunkFor, TargetsFor, KeyFor, LiveFor, allocVars
<1>2. /\ ManagerInv /\ QueueInv /\ BudgetInv /\ QueueTypeOK /\ PhaseOK
      /\ tokens \in [SeqId -> Text]
  BY DEF SchedulerInv, QueueInv, ManagerInv, ManagerTypeOK
<1>3. s \in SeqId
  BY <1>0, <1>1, <1>2, TailList DEF QueueTypeOK, PhaseOK
<1>4. Place(s) /\ Planned(s)
  BY <1>0, <1>1, <1>2, <1>3 DEF QueueInv, Planned
<1>5. status[s] = "prefill" /\ ~InScheduled(s)
  BY <1>4 DEF Place, RunningPlace, TablePlace
<1>6. NumNewTokens(s) > 0
  BY <1>0, <1>1 DEF ProgressInv, PlannedOK
<1>7. ChunkFor(s).end \in Int /\ ChunkFor(s).end > 0
  BY <1>2, <1>3, <1>6, PlannedChunk
<1>8. KeyFor(s) \in Hash \cup {NoKey}
  BY <1>2, <1>3, PlannedKeys
<1>9. KeysOK'
  BY <1>1, <1>8 DEF ProgressInv, KeysOK
<1>10. GroupsOK'
  BY <1>1, <1>2, <1>3, <1>7, GroupAdded DEF ProgressInv
<1>11. \A r \in SeqId : InScheduled(r)' <=> InScheduled(r) \/ r = s
  BY <1>1, <1>2, <1>3, <1>5, <1>7, GroupScheduled
<1>12. sent = <<>>
  BY <1>1, <1>2 DEF PhaseOK
<1>13. AloneOK' /\ PlannedOK' /\ SentOK'
  BY <1>1, <1>12, EmptyList, AloneSame DEF ProgressInv, PlannedOK, SentOK
<1>14. ASSUME NEW r \in SeqId PROVE DoneOK(r)' /\ SlotsOK(r)'
  <2>1. /\ SeqLen(r)' = SeqLen(r) /\ status'[r] = status[r] /\ done'[r] = done[r]
        /\ (r \in tables' <=> r \in tables) /\ full_slots'[r] = full_slots[r]
    BY <1>1 DEF SeqLen
  <2>2. InStep(r)' <=> InStep(r) \/ r = s
    BY <1>1, <1>11 DEF InStep
  <2>. QED
    BY <1>5, <2>1, <2>2 DEF ProgressInv, DoneOK, SlotsOK
<1>. QED
  BY <1>9, <1>10, <1>13, <1>14 DEF ProgressInv

LEMMA EndPrefillProgress ==
  ASSUME QueueInv, ProgressInv, EndPrefill
  PROVE  ProgressInv'
<1> DEFINE n == scheduled.new
           f == scheduled.prefill
           d == scheduled.decode
           l == n \o f
<1>1. /\ phase = "prefill" /\ phase' = "metadata" /\ batch' = l \o d /\ scheduled' = NothingScheduled
      /\ UNCHANGED <<block_id, content, tables, full_slots, tokens, status, done, sent, restore_key>>
  BY DEF EndPrefill, blockVars, allocVars, managerVars, gdnVars
<1>2. /\ n \in Seq(Group) /\ f \in Seq(Group) /\ d \in Seq(Group)
      /\ Seqs(n) \in Seq(SeqId) /\ Seqs(f) \in Seq(SeqId) /\ Seqs(d) \in Seq(SeqId)
  BY QueueFacts
<1>3. batch = <<>> /\ sent = <<>>
  BY <1>1 DEF QueueInv, PhaseOK
<1>5. \A s \in SeqId : InScheduled(s) <=>
          s \in (ToSet(Seqs(n)) \cup ToSet(Seqs(f))) \cup ToSet(Seqs(d))
  BY DEF InScheduled
<1>6. ScheduledGroups = (ToSet(n) \cup ToSet(f)) \cup ToSet(d)
  BY <1>3, EmptyList DEF ScheduledGroups
<1>7. scheduled'.decode = <<>> /\ scheduled'.prefill = <<>> /\ scheduled'.new = <<>>
  BY <1>1, NoGroups
<1> HIDE DEF n, f, d
<1>8. /\ l \in Seq(Group) /\ ToSet(l) = ToSet(n) \cup ToSet(f)
      /\ ToSet(Seqs(l)) = ToSet(Seqs(n)) \cup ToSet(Seqs(f)) /\ Seqs(l) \in Seq(SeqId)
  <2>1. \A g \in Group : g.seq \in SeqId
    BY DEF Group
  <2>2. l \in Seq(Group)
    BY <1>2
  <2>3. Seqs(l) = Seqs(n) \o Seqs(f)
    BY ONLY <2>1, <1>2, GroupList, ZenonT(60) DEF l
  <2>. QED
    BY <1>2, <2>2, <2>3, ConcatList
<1> HIDE DEF l
<1>9. /\ ToSet(batch') = ToSet(l) \cup ToSet(d)
      /\ ToSet(Seqs(batch')) = ToSet(Seqs(l)) \cup ToSet(Seqs(d))
  <2>1. \A g \in Group : g.seq \in SeqId
    BY DEF Group
  <2>2. Seqs(l \o d) = Seqs(l) \o Seqs(d)
    BY ONLY <2>1, <1>2, <1>8, GroupList, ZenonT(60)
  <2>. QED
    BY <1>1, <1>2, <1>8, <2>2, ConcatList
<1>10. GroupsOK'
  BY <1>6, <1>7, <1>8, <1>9, EmptyList DEF ProgressInv, GroupsOK, ScheduledGroups
<1>11. AloneOK' /\ PlannedOK' /\ SentOK' /\ KeysOK'
  BY <1>1, <1>3, EmptyList, AloneSame DEF ProgressInv, PlannedOK, SentOK, KeysOK
<1>12. ASSUME NEW r \in SeqId PROVE DoneOK(r)' /\ SlotsOK(r)'
  <2>1. /\ SeqLen(r)' = SeqLen(r) /\ status'[r] = status[r] /\ done'[r] = done[r]
        /\ (r \in tables' <=> r \in tables) /\ full_slots'[r] = full_slots[r]
    BY <1>1 DEF SeqLen
  <2>2. ~InScheduled(r)'
    BY <1>7, NoGroups, EmptyList DEF InScheduled
  <2>3. r \notin ToSet(Seqs(sent)) /\ r \notin ToSet(Seqs(sent')) /\ r \notin ToSet(Seqs(batch))
    BY <1>1, <1>3, NoGroups, EmptyList
  <2>4. InStep(r)' <=> InStep(r)
    BY <1>5, <1>8, <1>9, <2>2, <2>3 DEF InStep
  <2>. QED
    BY <2>1, <2>4 DEF ProgressInv, DoneOK, SlotsOK
<1>. QED
  BY <1>10, <1>11, <1>12 DEF ProgressInv

(* What a group's step covers.                                               *)
LEMMA StepBounds ==
  ASSUME tokens \in [SeqId -> Text], QueueTypeOK, KeysOK, NEW g \in Group, g.chunk > 0,
         DoneOK(g.seq), SeqLen(g.seq) > 0
  PROVE  /\ StepStart(g.seq) \in Nat
         /\ StepEnd(g) \in Nat \ {0} /\ StepEnd(g) <= SeqLen(g.seq)
<1>1. /\ g.seq \in SeqId /\ g.chunk \in Nat
  BY DEF Group
<1>2. done[g.seq] \in Nat /\ SeqLen(g.seq) \in Nat
  BY <1>1, TextFacts DEF QueueTypeOK, DoneOK, SeqLen
<1>3. RestoredTokens(g.seq) \in Nat
  <2>1. RestoredKey(g.seq) \in Hash \cup {NoKey}
    BY <1>1 DEF KeysOK, RestoredKey
  <2>. QED
    BY <2>1, Boundaries DEF RestoredTokens
<1>4. StepStart(g.seq) \in Nat
  BY <1>2, <1>3 DEF StepStart
<1>. QED
  BY <1>1, <1>2, <1>4 DEF StepEnd, Gdn!Least

(* One turn of schedule()'s loop: the group moves from the batch to the metadata list. *)
LEMMA MetadataFrame ==
  ASSUME QueueInv, NEW g, NEW s, g = Head(batch), s = g.seq, Metadata
  PROVE  /\ phase = "metadata" /\ phase' \in {"metadata", "dead"} /\ call = Idle
         /\ g \in Group /\ g \in ToSet(batch) /\ s \in SeqId /\ s \in ToSet(Seqs(batch))
         /\ s \in ToSet(running) /\ status[s] \in {"prefill", "decode"}
         /\ batch' \in Seq(Group) /\ ToSet(batch') \subseteq ToSet(batch)
         /\ ToSet(Seqs(batch')) = ToSet(Seqs(batch)) \ {s}
         /\ \E a : /\ sent' = Append(sent, a) /\ a.seq = s
                   /\ a = IF status[s] = "prefill" THEN PrefillActions(g) ELSE DecodeActions(g)
                   /\ a.start = IF status[s] = "prefill" THEN StepStart(s) ELSE done[s]
                   /\ a.end = IF status[s] = "prefill" THEN StepEnd(g) ELSE done[s] + 1
                   /\ a.prompt <=> status[s] = "prefill"
                   /\ restore_key' = [restore_key EXCEPT ![s] =
                        IF status[s] = "prefill" /\ a.end >= SeqLen(s) THEN NoKey ELSE @]
         /\ UNCHANGED <<allocVars, tables, full_slots, call, tokens, status, running, done,
                        scheduled, kv, torn>>
<1> DEFINE a == IF status[s] = "prefill" THEN PrefillActions(g) ELSE DecodeActions(g)
<1>1. /\ phase = "metadata" /\ phase' \in {"metadata", "dead"} /\ batch # <<>> /\ call = Idle
      /\ sent' = Append(sent, a) /\ batch' = Tail(batch)
      /\ UNCHANGED <<allocVars, tables, full_slots, call, tokens, status, running, done, scheduled,
                     kv, torn>>
  BY DEF Metadata, queueVars, workerVars, storeVars
<1>2. restore_key' = [restore_key EXCEPT ![s] =
          IF status[s] = "prefill" /\ a.end >= SeqLen(s) THEN NoKey ELSE @]
  BY DEF Metadata
<1>3. /\ a.seq = s /\ (a.prompt <=> status[s] = "prefill")
      /\ a.start = IF status[s] = "prefill" THEN StepStart(s) ELSE done[s]
      /\ a.end = IF status[s] = "prefill" THEN StepEnd(g) ELSE done[s] + 1
  BY DEF PrefillActions, DecodeActions
<1>4. \A h \in Group : h.seq \in SeqId
  BY DEF Group
<1>5. /\ batch \in Seq(Group) /\ Seqs(batch) \in Seq(SeqId) /\ IsInjective(Seqs(batch))
  BY QueueFacts DEF QueueInv, NoRepetition
<1>6. /\ g \in Group /\ s = Head(Seqs(batch)) /\ Seqs(batch) # <<>>
      /\ batch' \in Seq(Group) /\ Seqs(batch') = Tail(Seqs(batch))
  BY <1>1, <1>4, <1>5, GroupList
<1>7. /\ g \in ToSet(batch) /\ ToSet(batch') \subseteq ToSet(batch)
  BY <1>1, <1>5, TailList
<1>8. /\ s \in SeqId /\ s \in ToSet(Seqs(batch)) /\ ToSet(Seqs(batch')) = ToSet(Seqs(batch)) \ {s}
  BY <1>5, <1>6, TailList
<1>9. Place(s)
  BY <1>8 DEF QueueInv
<1>10. s \in ToSet(running) /\ status[s] \in {"prefill", "decode"}
  BY <1>8, <1>9 DEF Place, BatchPlace, RunningPlace, IsLive
<1> HIDE DEF a
<1>. QED
  BY <1>1, <1>2, <1>3, <1>6, <1>7, <1>8, <1>10 DEF a

LEMMA MetadataProgress ==
  ASSUME SchedulerInv, ProgressInv, Metadata
  PROVE  ProgressInv'
<1>0. PICK g : g = Head(batch)
  OBVIOUS
<1>00. PICK s : s = g.seq
  OBVIOUS
<1>1. /\ QueueInv /\ QueueTypeOK /\ tokens \in [SeqId -> Text]
      /\ KeysOK /\ GroupsOK /\ SentOK /\ \A r \in SeqId : DoneOK(r) /\ SlotsOK(r)
  BY DEF SchedulerInv, QueueInv, ManagerInv, ManagerTypeOK, ProgressInv
<1>2. PICK a : /\ sent' = Append(sent, a) /\ a.seq = s
               /\ a.start = IF status[s] = "prefill" THEN StepStart(s) ELSE done[s]
               /\ a.end = IF status[s] = "prefill" THEN StepEnd(g) ELSE done[s] + 1
               /\ a.prompt <=> status[s] = "prefill"
               /\ restore_key' = [restore_key EXCEPT ![s] =
                    IF status[s] = "prefill" /\ a.end >= SeqLen(s) THEN NoKey ELSE @]
  BY <1>0, <1>00, <1>1, MetadataFrame
<1>3. /\ phase' \in {"metadata", "dead"}
      /\ g \in Group /\ g \in ToSet(batch) /\ s \in SeqId /\ s \in ToSet(Seqs(batch))
      /\ status[s] \in {"prefill", "decode"}
      /\ ToSet(batch') \subseteq ToSet(batch)
      /\ ToSet(Seqs(batch')) = ToSet(Seqs(batch)) \ {s}
      /\ UNCHANGED <<allocVars, tables, full_slots, tokens, status, done, scheduled>>
  BY <1>0, <1>00, <1>1, MetadataFrame
<1>4. StepStart(s) \in Nat /\ StepEnd(g) \in Nat \ {0} /\ StepEnd(g) <= SeqLen(s)
  <2>1. g.chunk > 0
    BY <1>1, <1>3 DEF GroupsOK, ScheduledGroups
  <2>2. s \in tables
    BY <1>1, <1>3, OneCall DEF QueueInv, Place, TablePlace, IsLive, Metadata
  <2>3. SeqLen(s) > 0
    BY <1>1, <1>3, <2>2, TextFacts DEF SchedulerInv, ManagerInv, ManagerTypeOK, SeqOK, TableOK, SeqLen
  <2>. QED
    BY <1>00, <1>1, <1>3, <2>1, <2>3, StepBounds
<1>5. ActionOK(a)
  <2>1. done[s] \in Nat /\ SeqLen(s) \in Nat /\ (status[s] = "decode" => done[s] + 1 = SeqLen(s))
    <3>1. done[s] \in Int /\ SeqLen(s) \in Nat /\ DoneOK(s)
      BY <1>1, <1>3, TextFacts DEF QueueTypeOK, SeqLen
    <3>. QED
      BY <3>1 DEF DoneOK
  <2>. QED
    BY <1>2, <1>3, <1>4, <2>1 DEF ActionOK
<1>6. a.seq \in SeqId /\ a.end \in Int /\ sent \in Seq(ToSet(sent)) /\ Seqs(sent) \in Seq(SeqId)
  BY <1>1, <1>2, <1>3, <1>5, QueueFacts DEF ActionOK
<1>7. ToSet(sent') = ToSet(sent) \cup {a} /\ ToSet(Seqs(sent')) = ToSet(Seqs(sent)) \cup {s}
  <2>1. sent \in Seq(ToSet(sent) \cup {a})
    <3>1. Len(sent) \in Nat /\ sent \in [1..Len(sent) -> ToSet(sent)]
      BY <1>6
    <3>2. sent \in [1..Len(sent) -> ToSet(sent) \cup {a}]
      BY <3>1
    <3>. QED
      BY <3>1, <3>2
  <2>2. Seqs(sent') = Append(Seqs(sent), s)
    BY <1>1, <1>2, <1>6, SentAppend
  <2>. QED
    BY <1>2, <1>3, <1>6, <2>1, <2>2, AppendList
<1>8. SentOK'
  <2>1. \A h : ActionOK(h)' <=> ActionOK(h)
    BY <1>3 DEF ActionOK, SeqLen
  <2>. QED
    BY <1>1, <1>5, <1>7, <2>1 DEF SentOK
<1>9. KeysOK'
  BY <1>1, <1>2 DEF KeysOK
<1>10. GroupsOK'
  BY <1>1, <1>3 DEF GroupsOK, ScheduledGroups
<1>11. AloneOK' /\ PlannedOK'
  BY <1>3, AloneSame DEF ProgressInv, PlannedOK, allocVars
<1>12. ASSUME NEW r \in SeqId PROVE DoneOK(r)' /\ SlotsOK(r)'
  <2>1. /\ SeqLen(r)' = SeqLen(r) /\ status'[r] = status[r] /\ done'[r] = done[r]
        /\ (r \in tables' <=> r \in tables) /\ full_slots'[r] = full_slots[r]
        /\ (InScheduled(r)' <=> InScheduled(r))
    BY <1>3 DEF SeqLen, InScheduled
  <2>2. InStep(r)' <=> InStep(r)
    BY <1>3, <1>7, <2>1 DEF InStep
  <2>. QED
    BY <1>1, <2>1, <2>2 DEF DoneOK, SlotsOK
<1>. QED
  BY <1>8, <1>9, <1>10, <1>11, <1>12 DEF ProgressInv

(* The output of the first group left.                                         *)
LEMMA OutputFrame ==
  ASSUME QueueInv, ProgressInv, NEW g, NEW s, g = Head(sent), s = g.seq, sent # <<>>
  PROVE  /\ g \in ToSet(sent) /\ s \in SeqId /\ ActionOK(g)
         /\ s \in ToSet(Seqs(sent)) /\ Place(s) /\ IsLive(s)
         /\ ToSet(Tail(sent)) \subseteq ToSet(sent) /\ Tail(sent) \in Seq(ToSet(sent))
         /\ ToSet(Seqs(Tail(sent))) = ToSet(Seqs(sent)) \ {s}
         /\ \A h \in ToSet(Tail(sent)) : h.seq # s
<1>1. sent \in Seq(ToSet(sent))
  BY QueueFacts
<1>2. /\ g \in ToSet(sent) /\ ToSet(Tail(sent)) \subseteq ToSet(sent)
      /\ Tail(sent) \in Seq(ToSet(sent))
  BY <1>1, TailList
<1>3. /\ s \in SeqId /\ s \in ToSet(Seqs(sent))
      /\ ToSet(Seqs(Tail(sent))) = ToSet(Seqs(sent)) \ {s}
  BY SentTail
<1>4. Place(s) /\ IsLive(s)
  <2>1. Place(s)
    BY <1>3 DEF QueueInv
  <2>. QED
    BY <1>3, <2>1 DEF Place, BatchPlace, RunningPlace
<1>5. \A h \in ToSet(Tail(sent)) : h.seq # s
  BY <1>2, <1>3, SeqOfGroup
<1>. QED
  BY <1>2, <1>3, <1>4, <1>5 DEF ProgressInv, SentOK

LEMMA OutputProgress ==
  ASSUME SchedulerInv, ProgressInv, ChunkDone \/ Sample
  PROVE  ProgressInv'
<1>0. PICK g : g = Head(sent)
  OBVIOUS
<1>00. PICK s : s = g.seq
  OBVIOUS
<1>1. /\ phase = "output" /\ phase' = phase /\ sent # <<>> /\ sent' = Tail(sent)
      /\ done' = [done EXCEPT ![s] = g.end]
      /\ UNCHANGED <<block_id, content, tables, full_slots, restore_key, scheduled, batch>>
  BY <1>0, <1>00 DEF ChunkDone, Sample, Progress, gdnVars, blockVars, allocVars, managerVars
<1>2. /\ QueueInv /\ QueueTypeOK /\ PhaseOK /\ tokens \in [SeqId -> Text]
      /\ done \in [SeqId -> Int] /\ status \in [SeqId -> {"absent", "waiting", "prefill", "decode"}]
  BY DEF SchedulerInv, QueueInv, QueueTypeOK, ManagerInv, ManagerTypeOK
<1>3. /\ g \in ToSet(sent) /\ s \in SeqId /\ ActionOK(g) /\ s \in ToSet(Seqs(sent)) /\ IsLive(s)
      /\ ToSet(sent') \subseteq ToSet(sent) /\ ToSet(Seqs(sent')) = ToSet(Seqs(sent)) \ {s}
      /\ \A h \in ToSet(sent') : h.seq # s
  BY <1>0, <1>00, <1>1, <1>2, OutputFrame
<1>4. ~InStep(s)'
  <2>1. scheduled' = NothingScheduled /\ batch' = <<>>
    BY <1>1, <1>2 DEF PhaseOK
  <2>. QED
    BY <1>3, <2>1, NoGroups, EmptyList DEF InStep, InScheduled
<1>5. g.end \in Nat /\ SeqLen(s) \in Nat
  BY <1>00, <1>2, <1>3, TextFacts DEF ActionOK, SeqLen
<1>6. \A r \in SeqId : r # s =>
        SeqLen(r)' = SeqLen(r) /\ status'[r] = status[r] /\ done'[r] = done[r]
  <2>1. CASE ChunkDone
    BY <1>1, <1>2, <2>1 DEF ChunkDone, SeqLen
  <2>2. CASE Sample
    <3>1. PICK t \in Text : tokens' = [tokens EXCEPT ![s] = t]
      BY <1>0, <1>00, <2>2 DEF Sample
    <3>2. status' = [status EXCEPT ![s] = "decode"]
      BY <1>0, <1>00, <2>2 DEF Sample
    <3>. QED
      BY <1>1, <1>2, <3>1, <3>2 DEF SeqLen
  <2>. QED
    BY <2>1, <2>2
<1>7. DoneOK(s)' /\ SlotsOK(s)'
  <2>0. done'[s] = g.end /\ DoneOK(s) /\ SlotsOK(s) /\ InStep(s)
    BY <1>1, <1>2, <1>3 DEF ProgressInv, InStep
  <2>1. CASE ChunkDone
    <3>1. g.end < SeqLen(s) /\ SeqLen(s)' = SeqLen(s) /\ status'[s] = status[s]
      BY <1>0, <1>00, <2>1 DEF ChunkDone, SeqLen
    <3>2. status[s] = "prefill"
      BY <1>00, <1>3, <1>5, <3>1 DEF ActionOK
    <3>. QED
      BY <1>1, <1>5, <2>0, <3>1, <3>2 DEF DoneOK, SlotsOK
  <2>2. CASE Sample
    <3>1. PICK t \in Text : Len(t) = SeqLen(s) + 1 /\ tokens' = [tokens EXCEPT ![s] = t]
      BY <1>0, <1>00, <2>2 DEF Sample
    <3>2. g.end = SeqLen(s) /\ status' = [status EXCEPT ![s] = "decode"]
      BY <1>0, <1>00, <2>2 DEF Sample
    <3>3. SeqLen(s)' = SeqLen(s) + 1 /\ status'[s] = "decode"
      BY <1>2, <1>3, <3>1, <3>2 DEF SeqLen
    <3>4. s \in tables => full_slots'[s] = SeqLen(s)
      BY <1>1, <2>0 DEF SlotsOK
    <3>5. DoneOK(s)'
      BY <1>5, <2>0, <3>2, <3>3 DEF DoneOK
    <3>6. SlotsOK(s)'
      BY <1>1, <1>4, <1>5, <3>3, <3>4 DEF SlotsOK
    <3>. QED
      BY <3>5, <3>6
  <2>. QED
    BY <2>1, <2>2
<1>8. ASSUME NEW r \in SeqId PROVE DoneOK(r)' /\ SlotsOK(r)'
  <2>1. CASE r # s
    <3>1. /\ SeqLen(r)' = SeqLen(r) /\ status'[r] = status[r] /\ done'[r] = done[r]
          /\ (r \in tables' <=> r \in tables) /\ full_slots'[r] = full_slots[r]
      BY <1>1, <1>6, <2>1
    <3>2. InStep(r)' <=> InStep(r)
      BY <1>1, <1>3, <2>1 DEF InStep, InScheduled
    <3>. QED
      BY <3>1, <3>2 DEF ProgressInv, DoneOK, SlotsOK
  <2>. QED
    BY <1>7, <2>1
<1>9. SentOK'
  <2>1. ASSUME NEW h \in ToSet(sent') PROVE ActionOK(h)'
    <3>1. PICK r : r = h.seq
      OBVIOUS
    <3>2. r \in SeqId /\ r # s /\ ActionOK(h)
      BY <1>2, <1>3, <2>1, <3>1, QueueFacts DEF ProgressInv, SentOK
    <3>. QED
      BY <1>6, <3>1, <3>2 DEF ActionOK
  <2>. QED
    BY <2>1 DEF SentOK
<1>10. AloneOK' /\ KeysOK' /\ GroupsOK' /\ PlannedOK'
  BY <1>1, AloneSame DEF ProgressInv, KeysOK, GroupsOK, ScheduledGroups, PlannedOK
<1>. QED
  BY <1>8, <1>9, <1>10 DEF ProgressInv

LEMMA InitProgress == ASSUME Init PROVE ProgressInv
<1>1. /\ tables = {} /\ sent = <<>> /\ batch = <<>> /\ phase = "idle"
      /\ scheduled = NothingScheduled /\ \A o \in Obj : ~Allocated(o)
      /\ \A s \in SeqId : done[s] = 0 /\ status[s] = "absent"
      /\ restore_key = [s \in SeqId |-> NoKey]
  BY DEF Init, ManagerInit, AllocInit, Allocated
<1>2. AloneOK /\ KeysOK /\ PlannedOK
  BY <1>1 DEF AloneOK, KeysOK, PlannedOK
<1>3. GroupsOK /\ SentOK
  BY <1>1, NoGroups, EmptyList DEF GroupsOK, ScheduledGroups, SentOK
<1>. QED
  BY <1>1, <1>2, <1>3 DEF ProgressInv, DoneOK, SlotsOK

LEMMA ProgressKept ==
  ASSUME SchedulerInv, MarkedInv, ProgressInv, [Next]_vars
  PROVE  ProgressInv'
<1>0. ManagerInv /\ QueueInv
  BY DEF SchedulerInv
<1>1. CASE ManagerStep
  BY <1>0, <1>1, ManagerStepProgress
<1>2. ASSUME NEW s \in SeqId, AddRequest(s) PROVE ProgressInv'
  BY <1>0, <1>2, AddRequestProgress
<1>3. CASE (\E s \in SeqId : Abort(s)) \/ Preempt \/ IgnorePrompt \/ Finish
  BY <1>0, <1>3, LeavingStepsProgress
<1>4. CASE StartStep \/ EndRunning \/ EndMetadata \/ Execute \/ EndStep
  BY <1>4, PhaseStepProgress
<1>5. CASE ScheduleRunning
  BY <1>5, ScheduleRunningProgress
<1>6. CASE StartPrefill
  BY <1>0, <1>6, StartPrefillProgress
<1>7. CASE PlanPrefill
  BY <1>7, PlanPrefillProgress
<1>8. CASE EndPrefill
  BY <1>0, <1>8, EndPrefillProgress
<1>9. CASE Metadata
  BY <1>9, MetadataProgress
<1>10. CASE ChunkDone \/ Sample
  BY <1>10, OutputProgress
<1>11. CASE UNCHANGED vars
  <2>1. /\ UNCHANGED <<block_id, content, restore_key, scheduled, batch, sent, status, done, tokens,
                       tables, full_slots, phase, computed_ids, waiting, spent>>
    BY <1>11 DEF vars, blockVars, allocVars, managerVars, engineVars, queueVars, gdnVars
  <2>2. PlannedOK'
    BY <2>1 DEF ProgressInv, PlannedOK, NumNewTokens, Remaining, SeqLen
  <2>. QED
    BY <2>1, <2>2, SameProgress
<1>. QED
  BY <1>1, <1>2, <1>3, <1>4, <1>5, <1>6, <1>7, <1>8, <1>9, <1>10, <1>11 DEF Next

------------------------
(* The KV in the slots.  A request owns the first n tokens when each of their   *)
(* slots was written from its prefix.  A cached block holds what its hash says,  *)
(* or a request that holds it has not computed it yet; in the phases that plan   *)
(* prompts, that request is a prompt whose first chunk is over, or the block is   *)
(* still unmarked.                                                            *)
Owned(s) == {n \in Int : n <= SeqLen(s) /\ HasKV(s, n)}
Pending(s) == {block_id[<<s, k>>] : k \in {j \in BlocksOf(s) : done[s] < j * BlockSize}}
BlockWritten(b, h) ==
  \A i \in 0..(BlockSize - 1) : kv[b][i] = SubSeq(h, 1, Len(h) - BlockSize + i + 1)
KeyTokens(s) == IF restore_key[s] = NoKey THEN 0 ELSE Gdn!Boundary(restore_key[s])

ContentOK ==
  \A h \in Hash : cached[h] # NoBlock =>
    BlockWritten(cached[h], h) \/ \E s \in SeqId : IsLive(s) /\ cached[h] \in Pending(s)
FreshOK ==
  phase \in {"running", "prefill", "plan"} => \A h \in Hash : cached[h] # NoBlock =>
    \/ cached[h] \in touched
    \/ BlockWritten(cached[h], h)
    \/ \E s \in SeqId : status[s] = "prefill" /\ ~Planned(s) /\ cached[h] \in Pending(s)
HeldOK == \A s \in SeqId : IsLive(s) => done[s] \in Owned(s)
RestoredOK ==
  \A s \in SeqId : status[s] = "prefill" /\ ~Planned(s) => KeyTokens(s) \in Owned(s) \/ ~OnePrompt
StepOwned(g) ==
  IF phase = "output" THEN g.end \in Owned(g.seq)
  ELSE g.start \in Owned(g.seq) \/ (g.prompt /\ ~OnePrompt)
StepOK == \A g \in ToSet(sent) : StepOwned(g)

WrittenOK == ContentOK /\ FreshOK /\ HeldOK /\ RestoredOK /\ StepOK

(* The slots exist; a request starts from nothing.                               *)
StoreOK == \A b \in Block : DOMAIN kv[b] = 0..(BlockSize - 1)
StartOK == phase = "plan" => done[Head(waiting)] = 0

KVInv == StoreOK /\ StartOK /\ (torn = {} => WrittenOK)

(* The prefix a token ends, cut from its text or from the hash of its block.         *)
LEMMA CutOfBlock ==
  ASSUME NEW t \in Text, NEW p \in Nat, NEW k, k = (p \div BlockSize) + 1,
         k * BlockSize <= Len(t), NEW h, h = SubSeq(t, 1, k * BlockSize)
  PROVE  SubSeq(t, 1, p + 1) = SubSeq(h, 1, Len(h) - BlockSize + (p % BlockSize) + 1)
<1>0. BlockSize \in Nat \ {0}
  BY BlockSizeAssumption
<1> DEFINE e == p \div BlockSize
           i == p % BlockSize
           n == k * BlockSize
<1>1. e \in Nat /\ i \in 0..(BlockSize - 1) /\ p = (e * BlockSize) + i
  BY PositionOf
<1>2. k = e + 1
  OBVIOUS
<1>3. n \in Nat /\ Len(t) \in Nat /\ n <= Len(t) /\ t \in Seq(Nat)
  <2> HIDE DEF e
  <2>1. k \in Nat
    BY <1>1, <1>2
  <2>. QED
    BY <2>1, BlockMultiples, TextFacts
<1>4. n = (e * BlockSize) + BlockSize /\ e * BlockSize \in Nat
  <2>1. \A a \in Nat : \A c : c = a + 1 => c * BlockSize = (a * BlockSize) + BlockSize
    BY ONLY <1>0
  <2> HIDE DEF e
  <2>. QED
    BY <1>1, <1>2, <2>1, BlockMultiples
<1> DEFINE m == e * BlockSize
<1>5. p = m + i /\ n = m + BlockSize /\ m \in Nat /\ h = SubSeq(t, 1, n)
  BY <1>1, <1>4
<1> HIDE DEF e, i, m, n
<1>6. n \in 1..Len(t) /\ p + 1 \in 1..n
  BY <1>0, <1>1, <1>3, <1>5
<1>7. Len(h) = n /\ SubSeq(h, 1, p + 1) = SubSeq(t, 1, p + 1)
  BY <1>3, <1>5, <1>6, PrefixOfPrefix
<1>8. Len(h) - BlockSize + i + 1 = p + 1
  BY <1>0, <1>1, <1>5, <1>7
<1>. QED
  BY <1>7, <1>8 DEF i

(* A slot of a block that is written.                                            *)
LEMMA WrittenSlot ==
  ASSUME NEW t \in Text, NEW p \in Nat, NEW k, k = (p \div BlockSize) + 1,
         k * BlockSize <= Len(t), NEW b, BlockWritten(b, SubSeq(t, 1, k * BlockSize))
  PROVE  kv[b][p % BlockSize] = SubSeq(t, 1, p + 1)
<1> DEFINE i == p % BlockSize
<1>1. PICK h : h = SubSeq(t, 1, k * BlockSize)
  OBVIOUS
<1>2. /\ t \in Text /\ p \in Nat /\ k = (p \div BlockSize) + 1
      /\ k * BlockSize <= Len(t) /\ h = SubSeq(t, 1, k * BlockSize)
  BY <1>1
<1>3. SubSeq(t, 1, p + 1) = SubSeq(h, 1, Len(h) - BlockSize + (p % BlockSize) + 1)
  BY ONLY <1>2, CutOfBlock, ZenonT(60)
<1>4. i \in 0..(BlockSize - 1)
  BY PositionOf
<1>. QED
  BY <1>1, <1>3, <1>4 DEF BlockWritten

(* A block all of whose tokens the request owns is written.                       *)
LEMMA WrittenBlock ==
  ASSUME tokens \in [SeqId -> Text], NEW s \in SeqId, NEW n \in Owned(s),
         NEW k \in Nat \ {0}, k * BlockSize <= n
  PROVE  BlockWritten(block_id[<<s, k>>], HashAt(s, k))
<1>0. BlockSize \in Nat \ {0}
  BY BlockSizeAssumption
<1> DEFINE t == tokens[s]
           e == k - 1
           m == e * BlockSize
           w == k * BlockSize
<1>1. /\ t \in Text /\ t \in Seq(Nat) /\ Len(t) \in Nat /\ n \in Int /\ n <= Len(t) /\ HasKV(s, n)
  BY TextFacts DEF Owned, SeqLen
<1>2. e \in Nat /\ k = e + 1 /\ m \in Nat /\ w = m + BlockSize /\ w \in Nat /\ w <= n
  <2>1. e \in Nat /\ k = e + 1
    OBVIOUS
  <2> HIDE DEF e
  <2>. QED
    BY <1>0, <2>1, BlockMultiples
<1> HIDE DEF e, m, w
<1>3. ASSUME NEW i \in 0..(BlockSize - 1)
      PROVE  kv[block_id[<<s, k>>]][i] = SubSeq(HashAt(s, k), 1, Len(HashAt(s, k)) - BlockSize + i + 1)
  <2> DEFINE p == m + i
  <2>1. p \in Nat /\ p \div BlockSize = e /\ p % BlockSize = i
    BY <1>2, SlotNumber DEF m
  <2>2. p \in 0..(n - 1) /\ w \in 1..Len(t) /\ p + 1 \in 1..w
    BY <1>0, <1>1, <1>2
  <2>3. kv[Slot(s, p)[1]][Slot(s, p)[2]] = SubSeq(t, 1, p + 1)
    BY <1>1, <2>2 DEF HasKV
  <2>4. Slot(s, p)[1] = block_id[<<s, k>>] /\ Slot(s, p)[2] = i
    BY <1>2, <2>1 DEF Slot
  <2>5. /\ HashAt(s, k) = SubSeq(t, 1, w) /\ Len(SubSeq(t, 1, w)) = w
        /\ SubSeq(SubSeq(t, 1, w), 1, p + 1) = SubSeq(t, 1, p + 1)
    BY <1>1, <2>2, PrefixOfPrefix DEF HashAt, w
  <2>6. w - BlockSize + i + 1 = p + 1
    BY <1>0, <1>2
  <2>. QED
    BY <2>3, <2>4, <2>5, <2>6
<1>. QED
  BY <1>3 DEF BlockWritten

(* What is owned stays owned if the slots keep their content.                     *)
LEMMA OwnedKept ==
  ASSUME tokens \in [SeqId -> Text], NEW s \in SeqId, NEW n \in Owned(s),
         SeqLen(s) <= SeqLen(s)', SubSeq(tokens'[s], 1, SeqLen(s)) = tokens[s],
         tokens'[s] \in Text,
         \A p \in 0..(n - 1) :
           kv[Slot(s, p)[1]][Slot(s, p)[2]] = SubSeq(tokens[s], 1, p + 1) =>
             (kv[Slot(s, p)[1]][Slot(s, p)[2]])' = SubSeq(tokens[s], 1, p + 1)
  PROVE  n \in Owned(s)'
<1> DEFINE t == tokens[s]
           u == tokens'[s]
<1>1. /\ t \in Text /\ u \in Text /\ Len(t) \in Nat /\ Len(u) \in Nat /\ Len(t) <= Len(u)
      /\ u \in Seq(Nat) /\ SubSeq(u, 1, Len(t)) = t
  BY TextFacts DEF SeqLen
<1>2. n \in Int /\ n <= Len(t) /\ HasKV(s, n)
  BY DEF Owned, SeqLen
<1>3. ASSUME NEW p \in 0..(n - 1) PROVE (kv[Slot(s, p)[1]][Slot(s, p)[2]])' = SubSeq(u, 1, p + 1)
  <2>1. kv[Slot(s, p)[1]][Slot(s, p)[2]] = SubSeq(t, 1, p + 1)
    BY <1>2 DEF HasKV
  <2>2. Len(t) \in 1..Len(u) /\ p + 1 \in 1..Len(t)
    BY <1>1, <1>2
  <2>3. SubSeq(t, 1, p + 1) = SubSeq(u, 1, p + 1)
    BY <1>1, <2>2, PrefixOfPrefix
  <2>. QED
    BY <2>1, <2>3
<1>4. HasKV(s, n)'
  BY <1>3 DEF HasKV
<1>5. n <= SeqLen(s)'
  BY <1>1, <1>2 DEF SeqLen
<1>. QED
  BY <1>2, <1>4, <1>5 DEF Owned

LEMMA OwnedSame ==
  ASSUME tokens \in [SeqId -> Text], NEW s \in SeqId, UNCHANGED kv, tokens'[s] = tokens[s],
         \A k \in 1..MaxBlocks : block_id'[<<s, k>>] = block_id[<<s, k>>]
  PROVE  \A n \in Owned(s) : n \in Owned(s)'
<1>1. ASSUME NEW n \in Owned(s) PROVE n \in Owned(s)'
  <2>1. /\ SeqLen(s) \in Nat /\ SeqLen(s)' = SeqLen(s) /\ tokens[s] \in Text /\ tokens'[s] \in Text
        /\ tokens[s] \in Seq(Nat) /\ SubSeq(tokens'[s], 1, SeqLen(s)) = tokens[s]
        /\ n \in Int /\ n <= SeqLen(s)
    BY TextFacts DEF SeqLen, Owned
  <2>2. ASSUME NEW p \in 0..(n - 1)
        PROVE  (kv[Slot(s, p)[1]][Slot(s, p)[2]])' = kv[Slot(s, p)[1]][Slot(s, p)[2]]
    <3>1. p \in Nat /\ p < Len(tokens[s])
      BY <2>1 DEF SeqLen
    <3>2. (p \div BlockSize) + 1 \in 1..MaxBlocks
      BY <2>1, <3>1, TokenBlock
    <3>. QED
      BY <3>2 DEF Slot
  <2>3. \A p \in 0..(n - 1) :
           kv[Slot(s, p)[1]][Slot(s, p)[2]] = SubSeq(tokens[s], 1, p + 1) =>
             (kv[Slot(s, p)[1]][Slot(s, p)[2]])' = SubSeq(tokens[s], 1, p + 1)
    BY <2>2
  <2>4. SeqLen(s) <= SeqLen(s)'
    BY <2>1
  <2>. QED
    BY ONLY <1>1, <2>1, <2>3, <2>4, OwnedKept, tokens \in [SeqId -> Text], s \in SeqId
<1>. QED
  BY <1>1

(* Nothing is always owned.                                                     *)
LEMMA NothingOwned ==
  ASSUME tokens \in [SeqId -> Text], NEW s \in SeqId
  PROVE  0 \in Owned(s)
<1>1. SeqLen(s) \in Nat
  BY TextFacts DEF SeqLen
<1>2. HasKV(s, 0)
  BY DEF HasKV
<1>. QED
  BY <1>1, <1>2 DEF Owned

LEMMA NothingOwnedNext ==
  ASSUME NEW s \in SeqId, tokens'[s] \in Text
  PROVE  0 \in Owned(s)'
<1>1. SeqLen(s)' \in Nat
  BY TextFacts DEF SeqLen
<1>2. HasKV(s, 0)'
  BY DEF HasKV
<1>. QED
  BY <1>1, <1>2 DEF Owned

(* The groups of the metadata list are running.                                 *)
LEMMA SentLive ==
  ASSUME QueueInv, NEW g \in ToSet(sent)
  PROVE  g.seq \in SeqId /\ IsLive(g.seq) /\ g.seq \in ToSet(Seqs(sent))
<1>1. sent \in Seq(ToSet(sent)) /\ g.seq \in SeqId
  BY QueueFacts
<1>2. g.seq \in ToSet(Seqs(sent))
  BY <1>1, SeqOfGroup
<1>3. Place(g.seq)
  BY <1>1 DEF QueueInv
<1>. QED
  BY <1>1, <1>2, <1>3 DEF Place, BatchPlace, RunningPlace

(* A step that moves no KV and takes none of the running requests away.           *)
LEMMA QuietWritten ==
  ASSUME SchedulerInv, WrittenOK, FreshOK',
         UNCHANGED <<kv, block_id, cached, done, sent>>,
         (phase = "output" <=> phase' = "output") \/ sent = <<>>,
         tokens' \in [SeqId -> Text],
         \A r \in SeqId : IsLive(r) =>
           status'[r] = status[r] /\ tokens'[r] = tokens[r] /\ restore_key'[r] = restore_key[r],
         \A r \in SeqId : IsLive(r)' => IsLive(r) \/ done[r] = 0,
         \A r \in SeqId : status'[r] = "prefill" /\ ~Planned(r)' => status[r] = "prefill" /\ ~Planned(r)
  PROVE  WrittenOK'
<1>0. tokens \in [SeqId -> Text] /\ QueueInv
  BY DEF SchedulerInv, ManagerInv, ManagerTypeOK
<1>1. ASSUME NEW r \in SeqId, IsLive(r), NEW n \in Owned(r) PROVE n \in Owned(r)'
  BY <1>0, <1>1, OwnedSame
<1>2. \A r \in SeqId : IsLive(r) => IsLive(r)'
  BY DEF IsLive
<1>3. \A r \in SeqId : Pending(r)' = Pending(r)
  BY DEF Pending, BlocksOf, Allocated
<1>4. \A b, h : BlockWritten(b, h)' <=> BlockWritten(b, h)
  BY DEF BlockWritten
<1>5. ContentOK'
  BY <1>2, <1>3, <1>4 DEF WrittenOK, ContentOK
<1>6. HeldOK'
  <2>1. ASSUME NEW r \in SeqId, IsLive(r)' PROVE done'[r] \in Owned(r)'
    <3>1. CASE IsLive(r)
      BY <1>1, <3>1 DEF WrittenOK, HeldOK
    <3>2. CASE done[r] = 0
      <4>1. tokens'[r] \in Text /\ done'[r] = 0
        BY <3>2
      <4>. QED
        BY <4>1, NothingOwnedNext
    <3>. QED
      BY <2>1, <3>1, <3>2
  <2>. QED
    BY <2>1 DEF HeldOK
<1>7. OnePrompt' => OnePrompt
  BY DEF OnePrompt, IsLive
<1>8. RestoredOK'
  <2>1. ASSUME NEW r \in SeqId, status'[r] = "prefill", ~Planned(r)'
        PROVE  KeyTokens(r)' \in Owned(r)' \/ ~OnePrompt'
    <3>1. status[r] = "prefill" /\ ~Planned(r)
      BY <2>1
    <3>2. IsLive(r)
      BY <3>1 DEF IsLive
    <3>3. KeyTokens(r)' = KeyTokens(r)
      BY <3>2 DEF KeyTokens, Gdn!Boundary
    <3>4. KeyTokens(r) \in Owned(r) \/ ~OnePrompt
      BY <3>1 DEF WrittenOK, RestoredOK
    <3>. QED
      BY <1>1, <1>7, <3>2, <3>3, <3>4
  <2>. QED
    BY <2>1 DEF RestoredOK
<1>9. StepOK'
  <2>1. ASSUME NEW g \in ToSet(sent) PROVE StepOwned(g)'
    <3>0. PICK r : r = g.seq
      OBVIOUS
    <3>1. r \in SeqId /\ IsLive(r)
      BY <1>0, <3>0, SentLive
    <3>2. StepOwned(g)
      BY DEF WrittenOK, StepOK
    <3>3. sent # <<>>
      BY EmptyList
    <3>. QED
      BY <1>1, <1>7, <3>0, <3>1, <3>2, <3>3 DEF StepOwned
  <2>. QED
    BY <2>1 DEF StepOK
<1>. QED
  BY <1>5, <1>6, <1>8, <1>9 DEF WrittenOK

(* The cache as the scheduling phases know it, when nothing changes.              *)
LEMMA FreshSame ==
  ASSUME FreshOK, UNCHANGED <<kv, block_id, cached, touched, done>>,
         phase' \in {"running", "prefill", "plan"} => phase \in {"running", "prefill", "plan"},
         \A r \in SeqId : status[r] = "prefill" /\ ~Planned(r) => status'[r] = "prefill" /\ ~Planned(r)'
  PROVE  FreshOK'
<1>1. \A r \in SeqId : Pending(r)' = Pending(r)
  BY DEF Pending, BlocksOf, Allocated
<1>2. \A b, h : BlockWritten(b, h)' <=> BlockWritten(b, h)
  BY DEF BlockWritten
<1>. QED
  BY <1>1, <1>2 DEF FreshOK

(* When a step begins, no decode has anything left to compute in a cached block.    *)
LEMMA DecodesWritten ==
  ASSUME SchedulerInv, ClosedInv, ProgressInv, NEW s \in SeqId, status[s] = "decode",
         call = Idle, ~InStep(s), NEW h \in Hash, cached[h] # NoBlock
  PROVE  cached[h] \notin Pending(s)
<1>0. ManagerInv /\ CacheInv /\ QueueInv /\ AllocInv /\ tokens \in [SeqId -> Text] /\ QueueTypeOK
  BY DEF SchedulerInv, ClosedInv, ManagerInv, ManagerTypeOK, QueueInv
<1>1. ~Freeing(s) /\ ~Allocating(s) /\ Place(s)
  BY <1>0, OneCall DEF QueueInv
<1>2. s \in tables
  BY <1>1 DEF Place, TablePlace, IsLive
<1>3. full_slots[s] = SeqLen(s) - 1 /\ done[s] = SeqLen(s) - 1
  BY <1>2 DEF ProgressInv, SlotsOK, DoneOK
<1>4. SUFFICES ASSUME cached[h] \in Pending(s) PROVE FALSE
  OBVIOUS
<1>5. PICK k \in BlocksOf(s) : done[s] < k * BlockSize /\ block_id[<<s, k>>] = cached[h]
  BY <1>4 DEF Pending
<1>6. content[<<s, k>>] # NoHash
  <2>1. <<s, k>> \in Obj
    BY <1>0, FilledFacts
  <2>. QED
    BY <1>0, <1>5, <2>1, HoldersOfCached
<1>7. k * BlockSize <= Filled(s) /\ k \in Nat
  BY <1>0, <1>1, <1>6, FullBlock
<1>8. Filled(s) = full_slots[s] /\ k * BlockSize \in Nat /\ SeqLen(s) \in Nat
  BY <1>0, <1>2, <1>7, BlockMultiples, TextFacts DEF Filled, SeqLen
<1>. QED
  BY <1>3, <1>5, <1>7, <1>8

LEMMA QuietStepsWritten ==
  ASSUME SchedulerInv, ClosedInv, ProgressInv, KVInv, WrittenOK,
         \/ StartStep \/ EndRunning \/ EndPrefill \/ EndMetadata \/ EndStep
         \/ (Execute /\ WorkerRaises) \/ UNCHANGED vars
  PROVE  WrittenOK'
<1>0. tokens \in [SeqId -> Text] /\ PhaseOK /\ QueueInv
  BY DEF SchedulerInv, ManagerInv, ManagerTypeOK, QueueInv
<1>1. UNCHANGED <<kv, block_id, cached, done, sent, tokens, status, restore_key>>
  BY DEF StartStep, EndRunning, EndPrefill, EndMetadata, EndStep, Execute, vars, engineVars,
         blockVars, allocVars, managerVars, queueVars, gdnVars, workerVars, storeVars, MarkComputed
<1>2. (phase = "output" <=> phase' = "output") \/ sent = <<>>
  BY DEF StartStep, EndRunning, EndPrefill, EndMetadata, EndStep, Execute, vars, engineVars
<1>3. \A r \in SeqId : Planned(r)' => Planned(r)
  BY DEF StartStep, EndRunning, EndPrefill, EndMetadata, EndStep, Execute, vars, engineVars,
         queueVars, Planned
<1>4. \A r \in SeqId : Planned(r) => Planned(r)'
  BY DEF StartStep, EndRunning, EndPrefill, EndMetadata, EndStep, Execute, vars, engineVars,
         queueVars, Planned
<1>5. \A r \in SeqId : IsLive(r)' <=> IsLive(r)
  BY <1>1 DEF IsLive
<1>6. CASE ~StartStep
  <2>1. phase' \in {"running", "prefill", "plan"} =>
          phase \in {"running", "prefill", "plan"} /\ touched' = touched
    BY <1>6 DEF EndRunning, EndPrefill, EndMetadata, EndStep, Execute, vars, engineVars, blockVars,
                allocVars
  <2>2. FreshOK'
    <3>1. CASE phase' \in {"running", "prefill", "plan"}
      BY <1>1, <1>3, <2>1, <3>1, FreshSame DEF WrittenOK
    <3>2. CASE phase' \notin {"running", "prefill", "plan"}
      BY <3>2 DEF FreshOK
    <3>. QED
      BY <3>1, <3>2
  <2>. QED
    BY <1>0, <1>1, <1>2, <1>3, <1>4, <1>5, <2>2, QuietWritten
<1>7. CASE StartStep
  <2>1. phase = "idle" /\ phase' = "running" /\ call = Idle
    BY <1>7 DEF StartStep
  <2>2. \A r \in SeqId : ~Planned(r)' /\ Pending(r)' = Pending(r)
    BY <1>1, <2>1 DEF Planned, Pending, BlocksOf, Allocated
  <2>3. \A b, h : BlockWritten(b, h)' <=> BlockWritten(b, h)
    BY <1>1 DEF BlockWritten
  <2>4. ASSUME NEW h \in Hash, cached[h] # NoBlock, ~BlockWritten(cached[h], h)
        PROVE  \E s \in SeqId : status[s] = "prefill" /\ cached[h] \in Pending(s)
    <3>1. PICK s \in SeqId : IsLive(s) /\ cached[h] \in Pending(s)
      BY <2>4 DEF WrittenOK, ContentOK
    <3>2. ~InStep(s)
      <4>1. scheduled = NothingScheduled /\ batch = <<>> /\ sent = <<>>
        BY <1>0, <2>1 DEF PhaseOK
      <4>. QED
        BY <4>1, NoGroups, EmptyList DEF InStep, InScheduled
    <3>3. status[s] # "decode"
      BY <2>1, <2>4, <3>1, <3>2, DecodesWritten
    <3>. QED
      BY <3>1, <3>3 DEF IsLive
  <2>5. FreshOK'
    BY <1>1, <2>2, <2>3, <2>4 DEF FreshOK
  <2>. QED
    BY <1>0, <1>1, <1>2, <1>3, <1>4, <1>5, <2>5, QuietWritten
<1>. QED
  BY <1>6, <1>7

(* What the running requests own, after a step that moves no KV.                   *)
LEMMA RequestsWritten ==
  ASSUME SchedulerInv, WrittenOK,
         \A r \in SeqId : IsLive(r) /\ IsLive(r)' /\ ~Planned(r) => \A n \in Owned(r) :
           n = done[r] \/ status[r] = "prefill" \/ sent # <<>> => n \in Owned(r)',
         \A r \in SeqId : IsLive(r)' =>
           (IsLive(r) /\ ~Planned(r) /\ done'[r] = done[r]) \/ done'[r] \in Owned(r)',
         \A r \in SeqId : status'[r] = "prefill" /\ ~Planned(r)' =>
           \/ status[r] = "prefill" /\ ~Planned(r) /\ restore_key'[r] = restore_key[r]
           \/ KeyTokens(r)' \in Owned(r)' \/ ~OnePrompt',
         OnePrompt' => OnePrompt,
         \A g \in ToSet(sent') : \/ g \in ToSet(sent) /\ IsLive(g.seq)'
                                 \/ StepOwned(g)',
         (phase = "output" <=> phase' = "output") \/ sent = <<>>
  PROVE  HeldOK' /\ RestoredOK' /\ StepOK'
<1>0. QueueInv /\ PhaseOK
  BY DEF SchedulerInv, QueueInv
<1>1. HeldOK'
  <2>1. ASSUME NEW r \in SeqId, IsLive(r)' PROVE done'[r] \in Owned(r)'
    BY <2>1 DEF WrittenOK, HeldOK
  <2>. QED
    BY <2>1 DEF HeldOK
<1>2. RestoredOK'
  <2>1. ASSUME NEW r \in SeqId, status'[r] = "prefill", ~Planned(r)'
        PROVE  KeyTokens(r)' \in Owned(r)' \/ ~OnePrompt'
    <3>1. CASE status[r] = "prefill" /\ ~Planned(r) /\ restore_key'[r] = restore_key[r]
      <4>1. KeyTokens(r) \in Owned(r) \/ ~OnePrompt
        BY <3>1 DEF WrittenOK, RestoredOK
      <4>2. KeyTokens(r)' = KeyTokens(r) /\ IsLive(r) /\ IsLive(r)'
        BY <2>1, <3>1 DEF KeyTokens, Gdn!Boundary, IsLive
      <4>. QED
        BY <3>1, <4>1, <4>2
    <3>. QED
      BY <2>1, <3>1
  <2>. QED
    BY <2>1 DEF RestoredOK
<1>3. StepOK'
  <2>1. ASSUME NEW g \in ToSet(sent), IsLive(g.seq)' PROVE StepOwned(g)'
    <3>0. PICK r : r = g.seq
      OBVIOUS
    <3>1. r \in SeqId /\ IsLive(r)
      BY <1>0, <3>0, SentLive
    <3>2. StepOwned(g)
      BY DEF WrittenOK, StepOK
    <3>3. sent # <<>>
      BY EmptyList
    <3>4. ~Planned(r)
      BY <1>0, <3>3 DEF PhaseOK, Planned
    <3>5. \A n \in Owned(r) : n \in Owned(r)'
      BY <2>1, <3>0, <3>1, <3>3, <3>4
    <3>. QED
      BY <3>0, <3>2, <3>3, <3>5 DEF StepOwned
  <2>. QED
    BY <2>1 DEF StepOK
<1>. QED
  BY <1>1, <1>2, <1>3

(* The cache, after a step that moves no KV.                                     *)
LEMMA CacheWritten ==
  ASSUME WrittenOK, UNCHANGED kv,
         \A h \in Hash : cached'[h] # NoBlock =>
           \/ cached'[h] = cached[h]
           \/ cached'[h] \in touched' /\ \E r \in SeqId : IsLive(r)' /\ cached'[h] \in Pending(r)',
         \A h \in Hash, s \in SeqId :
           cached[h] # NoBlock /\ cached'[h] = cached[h] /\ IsLive(s) /\ cached[h] \in Pending(s) =>
             \/ BlockWritten(cached[h], h)
             \/ /\ IsLive(s)' /\ cached[h] \in Pending(s)'
                /\ status[s] = "prefill" /\ ~Planned(s) /\ phase' \in {"running", "prefill", "plan"} =>
                     status'[s] = "prefill" /\ ~Planned(s)',
         phase' \in {"running", "prefill", "plan"} =>
           phase \in {"running", "prefill", "plan"} /\ touched \subseteq touched'
  PROVE  ContentOK' /\ FreshOK'
<1>1. \A b, h : BlockWritten(b, h)' <=> BlockWritten(b, h)
  BY DEF BlockWritten
<1>2. ASSUME NEW h \in Hash, cached'[h] # NoBlock
      PROVE  BlockWritten(cached[h], h)' \/ \E r \in SeqId : IsLive(r)' /\ cached'[h] \in Pending(r)'
  <2>1. CASE cached'[h] = cached[h]
    <3>0. PICK c : c = cached[h]
      OBVIOUS
    <3>1. BlockWritten(c, h) \/ \E r \in SeqId : IsLive(r) /\ c \in Pending(r)
      BY <1>2, <2>1, <3>0 DEF WrittenOK, ContentOK
    <3>2. BlockWritten(c, h)' \/ \E r \in SeqId : IsLive(r)' /\ c \in Pending(r)'
      BY <1>1, <1>2, <2>1, <3>0, <3>1
    <3>3. c = cached'[h]
      BY <2>1, <3>0
    <3>. QED
      BY <3>2, <3>3 DEF BlockWritten
  <2>. QED
    BY <1>2, <2>1
<1>3. ContentOK'
  BY <1>2 DEF ContentOK
<1>4. ASSUME NEW h \in Hash, cached'[h] # NoBlock, phase' \in {"running", "prefill", "plan"}
      PROVE  \/ cached'[h] \in touched'
             \/ BlockWritten(cached[h], h)'
             \/ \E r \in SeqId : status'[r] = "prefill" /\ ~Planned(r)' /\ cached'[h] \in Pending(r)'
  <2>1. CASE cached'[h] = cached[h]
    <3>0. PICK c : c = cached[h]
      OBVIOUS
    <3>1. \/ c \in touched \/ BlockWritten(c, h)
          \/ \E s \in SeqId : status[s] = "prefill" /\ ~Planned(s) /\ c \in Pending(s)
      BY <1>4, <2>1, <3>0 DEF WrittenOK, FreshOK
    <3>2. ASSUME NEW s \in SeqId, status[s] = "prefill", ~Planned(s), c \in Pending(s)
          PROVE  \/ BlockWritten(c, h)
                 \/ status'[s] = "prefill" /\ ~Planned(s)' /\ c \in Pending(s)'
      <4>1. IsLive(s)
        BY <3>2 DEF IsLive
      <4>. QED
        BY <1>4, <2>1, <3>0, <3>2, <4>1
    <3>3. c = cached'[h] /\ (BlockWritten(c, h) => BlockWritten(c, h)')
      BY <1>1, <2>1, <3>0
    <3>4. c \in touched => c \in touched'
      BY <1>4
    <3>. QED
      BY <3>1, <3>2, <3>3, <3>4 DEF BlockWritten
  <2>. QED
    BY <1>4, <2>1
<1>5. FreshOK'
  BY <1>4 DEF FreshOK
<1>. QED
  BY <1>3, <1>5

(* A request arrives, is ignored or starts; its progress is none.                  *)
LEMMA WaitingStepsWritten ==
  ASSUME SchedulerInv, PromptInv, WrittenOK,
         (\E s \in SeqId : AddRequest(s)) \/ IgnorePrompt \/ StartPrefill
  PROVE  WrittenOK'
<1>0. /\ tokens \in [SeqId -> Text] /\ QueueInv /\ QueueTypeOK /\ PhaseOK
      /\ status \in [SeqId -> {"absent", "waiting", "prefill", "decode"}]
      /\ done \in [SeqId -> Int] /\ <<>> \in Text
      /\ \A r \in SeqId : ProgressOK(r)
  BY TextAssumption DEF SchedulerInv, ManagerInv, ManagerTypeOK, QueueInv, QueueTypeOK, PromptInv
<1>1. ASSUME NEW s \in SeqId, AddRequest(s) PROVE WrittenOK'
  <2>1. /\ phase = "idle" /\ phase' = "idle" /\ status[s] = "absent"
        /\ UNCHANGED <<kv, block_id, cached, done, sent>>
        /\ status' = [status EXCEPT ![s] = "waiting"]
        /\ restore_key' = [restore_key EXCEPT ![s] = NoKey]
    BY <1>1 DEF AddRequest, blockVars, allocVars, workerVars, storeVars
  <2>2. PICK t \in Text : tokens' = [tokens EXCEPT ![s] = t]
    BY <1>1, PromptsAssumption DEF AddRequest
  <2>3. FreshOK'
    BY <2>1 DEF FreshOK
  <2>4. tokens' \in [SeqId -> Text]
    BY <1>0, <2>2
  <2>5. \A r \in SeqId : IsLive(r) => r # s
    BY <2>1 DEF IsLive
  <2>6. \A r \in SeqId : r # s => status'[r] = status[r] /\ tokens'[r] = tokens[r]
    BY <1>0, <2>1, <2>2
  <2>7. \A r \in SeqId : r # s => restore_key'[r] = restore_key[r]
    BY <2>1
  <2>8. status'[s] = "waiting" /\ \A r \in SeqId : ~Planned(r)
    BY <1>0, <2>1 DEF Planned
  <2>9. \A r \in SeqId : IsLive(r)' => IsLive(r)
    BY <2>6, <2>8 DEF IsLive
  <2>10. \A r \in SeqId : status'[r] = "prefill" => status[r] = "prefill"
    BY <2>6, <2>8
  <2>. QED
    BY <2>1, <2>3, <2>4, <2>5, <2>6, <2>7, <2>8, <2>9, <2>10, QuietWritten
<1>2. CASE IgnorePrompt \/ StartPrefill
  <2>0. PICK s : s = Head(waiting)
    OBVIOUS
  <2>1. /\ phase = "prefill" /\ phase' \in {"prefill", "plan"} /\ waiting # <<>>
        /\ UNCHANGED <<kv, block_id, cached, touched, restore_key, sent>>
        /\ done' = [done EXCEPT ![s] = 0] \/ done' = done
    BY <1>2, <2>0 DEF IgnorePrompt, StartPrefill, Leaves, AllocateBegin, blockVars, allocVars, workerVars,
       storeVars, gdnVars
  <2>2. s \in SeqId /\ s \in ToSet(waiting)
    BY <1>0, <2>0, <2>1, TailList DEF QueueTypeOK
  <2>3. status[s] = "waiting" /\ done[s] = 0 /\ ~IsLive(s)
    <3>1. Place(s)
      BY <1>0, <2>2 DEF QueueInv
    <3>2. status[s] = "waiting"
      BY <2>1, <2>2, <3>1 DEF Place, WaitingPlace, Planned
    <3>. QED
      BY <1>0, <2>2, <3>2 DEF ProgressOK, IsLive
  <2>4. done' = done
    BY <1>0, <2>1, <2>2, <2>3
  <2>5. tokens' \in [SeqId -> Text] /\ \A r \in SeqId : r # s => tokens'[r] = tokens[r]
    <3>1. tokens' = [tokens EXCEPT ![s] = <<>>] \/ tokens' = tokens
      BY <1>2, <2>0 DEF IgnorePrompt, StartPrefill
    <3>. QED
      BY <1>0, <2>2, <3>1
  <2>6. /\ \A r \in SeqId : r # s => status'[r] = status[r]
        /\ status'[s] = "absent" \/ (status'[s] = "prefill" /\ Planned(s)')
    <3>1. CASE IgnorePrompt
      BY <1>0, <2>0, <2>2, <3>1 DEF IgnorePrompt, Leaves
    <3>2. CASE StartPrefill
      BY <1>0, <2>0, <2>2, <3>2 DEF StartPrefill, Planned
    <3>. QED
      BY <1>2, <3>1, <3>2
  <2>7. \A r \in SeqId : ~Planned(r) /\ (r # s => ~Planned(r)')
    <3>1. CASE IgnorePrompt
      BY <2>1, <3>1 DEF IgnorePrompt, Planned
    <3>2. CASE StartPrefill
      BY <2>0, <2>1, <3>2 DEF StartPrefill, Planned
    <3>. QED
      BY <1>2, <3>1, <3>2
  <2>8. \A r \in SeqId : IsLive(r) => r # s
    BY <2>3
  <2>9. \A r \in SeqId : status[r] = "prefill" => r # s
    BY <2>3
  <2>10. FreshOK'
    BY <2>1, <2>4, <2>6, <2>7, <2>9, FreshSame DEF WrittenOK
  <2>11. \A r \in SeqId : IsLive(r)' => IsLive(r) \/ done[r] = 0
    BY <2>3, <2>6 DEF IsLive
  <2>12. \A r \in SeqId : status'[r] = "prefill" /\ ~Planned(r)' => status[r] = "prefill" /\ ~Planned(r)
    BY <2>6, <2>7
  <2>13. (phase = "output" <=> phase' = "output") \/ sent = <<>>
    BY <2>1
  <2>. QED
    BY <2>1, <2>4, <2>5, <2>6, <2>8, <2>10, <2>11, <2>12, <2>13, QuietWritten
<1>. QED
  BY <1>1, <1>2

(* The blocks of the other requests.                                             *)
LEMMA OthersOwned ==
  ASSUME ManagerInv, NEW s \in SeqId, NEW k \in 1..MaxBlocks, NEW b, NEW h,
         Holds(<<s, k>>, b, h), UNCHANGED <<kv, done>>, NEW r \in SeqId, r # s,
         tokens'[r] = tokens[r]
  PROVE  Pending(r)' = Pending(r) /\ \A n \in Owned(r) : n \in Owned(r)'
<1>1. tokens \in [SeqId -> Text] /\ block_id \in [Obj -> Block \cup {NoBlock}]
  BY DEF ManagerInv, ManagerTypeOK, AllocInv, AllocTypeOK
<1>2. \A j \in 1..MaxBlocks : block_id'[<<r, j>>] = block_id[<<r, j>>]
  BY <1>1, ObjectOf DEF Holds
<1>3. \A n \in Owned(r) : n \in Owned(r)'
  BY <1>1, <1>2, OwnedSame
<1>4. BlocksOf(r)' = BlocksOf(r)
  BY <1>2 DEF BlocksOf, Allocated
<1>5. \A j \in BlocksOf(r) : j \in 1..MaxBlocks
  BY DEF BlocksOf
<1>6. Pending(r)' = Pending(r)
  BY <1>2, <1>4, <1>5 DEF Pending
<1>. QED
  BY <1>3, <1>6

(* The calls of the manager: a new block is promised to the prompt that gets it.   *)
LEMMA AllocateNextBlockWritten ==
  ASSUME SchedulerInv, StartOK, WrittenOK, NEW s \in SeqId, AllocateNextBlock(s),
         UNCHANGED <<tokens, engineVars>>
  PROVE  WrittenOK'
<1>0. /\ tokens \in [SeqId -> Text] /\ QueueInv /\ ManagerInv /\ PhaseOK
      /\ cached \in [Hash -> Block \cup {NoBlock}] /\ block_id \in [Obj -> Block \cup {NoBlock}]
  BY DEF SchedulerInv, ManagerInv, ManagerTypeOK, QueueInv, AllocInv, AllocTypeOK
<1>1. UNCHANGED <<kv, status, done, restore_key, sent, phase, waiting, tokens>>
  BY DEF engineVars, queueVars, gdnVars, workerVars, storeVars
<1>2. /\ phase = "plan" /\ s = Head(waiting) /\ status[s] = "prefill" /\ done[s] = 0 /\ sent = <<>>
  <2>1. Place(s) /\ Allocating(s)
    BY <1>0 DEF QueueInv, AllocateNextBlock
  <2>. QED
    BY <1>0, <2>1 DEF Place, TablePlace, Planned, StartOK, PhaseOK
<1>3. PICK k \in 1..MaxBlocks :
           /\ <<s, k>> \in Obj /\ block_id[<<s, k>>] = NoBlock
           /\ \/ AllocateMutable(<<s, k>>)
              \/ /\ HashAt(s, k) \in Hash /\ k * BlockSize <= Len(tokens[s])
                 /\ \/ AllocateImmutableHit(<<s, k>>, HashAt(s, k))
                    \/ AllocateImmutableMiss(<<s, k>>, HashAt(s, k))
  BY <1>0, AllocateCases
<1>4. \E b \in Block : \E h :
           /\ Holds(<<s, k>>, b, h)
           /\ touched \subseteq touched'
           /\ \A g \in Hash : cached'[g] # NoBlock => cached'[g] = cached[g] \/ (cached'[g] = b /\ b \in touched')
  <2>1. \A b \in Block : \A g \in Hash : CachedWithout(b)[g] # NoBlock => CachedWithout(b)[g] = cached[g]
    BY <1>0 DEF CachedWithout
  <2>2. CASE AllocateMutable(<<s, k>>)
    <3>1. PICK b \in Block : Holds(<<s, k>>, b, NoHash) /\ cached' = CachedWithout(b) /\ touched' = touched
      BY <2>2 DEF AllocateMutable
    <3>. QED
      BY <2>1, <3>1
  <2>3. CASE HashAt(s, k) \in Hash /\ AllocateImmutableHit(<<s, k>>, HashAt(s, k))
    <3>1. /\ Holds(<<s, k>>, cached[HashAt(s, k)], HashAt(s, k)) /\ cached' = cached /\ touched' = touched
          /\ cached[HashAt(s, k)] \in Block
      BY <1>0, <2>3 DEF AllocateImmutableHit
    <3>. QED
      BY <3>1
  <2>4. CASE HashAt(s, k) \in Hash /\ AllocateImmutableMiss(<<s, k>>, HashAt(s, k))
    <3>0. PICK f : f = HashAt(s, k)
      OBVIOUS
    <3>1. PICK b \in Block : /\ Holds(<<s, k>>, b, f) /\ touched' = touched \cup {b}
                             /\ cached' = [CachedWithout(b) EXCEPT ![f] = b]
      BY <2>4, <3>0 DEF AllocateImmutableMiss
    <3>2. DOMAIN CachedWithout(b) = Hash
      BY <1>0 DEF CachedWithout
    <3>3. \A g \in Hash : cached'[g] = IF g = f THEN b ELSE CachedWithout(b)[g]
      BY <3>1, <3>2
    <3>. QED
      BY <2>1, <3>1, <3>3
  <2>. QED
    BY <1>3, <2>2, <2>3, <2>4
<1>41. PICK b \in Block : \E h :
           /\ Holds(<<s, k>>, b, h)
           /\ touched \subseteq touched'
           /\ \A g \in Hash : cached'[g] # NoBlock => cached'[g] = cached[g] \/ (cached'[g] = b /\ b \in touched')
  BY <1>4
<1>5. PICK h :
           /\ Holds(<<s, k>>, b, h)
           /\ touched \subseteq touched'
           /\ \A g \in Hash : cached'[g] # NoBlock => cached'[g] = cached[g] \/ (cached'[g] = b /\ b \in touched')
  BY <1>41
<1>6. ASSUME NEW r \in SeqId, r # s
      PROVE  Pending(r)' = Pending(r) /\ \A n \in Owned(r) : n \in Owned(r)'
  BY <1>0, <1>1, <1>5, <1>6, OthersOwned
<1>7. /\ \A r \in SeqId : IsLive(r)' <=> IsLive(r)
      /\ \A r \in SeqId : Planned(r)' <=> Planned(r)
      /\ OnePrompt' <=> OnePrompt
  BY <1>1 DEF IsLive, Planned, OnePrompt
<1>8. 0 \in Owned(s)'
  BY <1>0, <1>1, NothingOwnedNext
<1>9. Planned(s) /\ IsLive(s) /\ done'[s] = 0 /\ ToSet(sent') = {} /\ (phase = "output" <=> phase' = "output")
  BY <1>1, <1>2, EmptyList DEF Planned, IsLive
<1>10. HeldOK' /\ RestoredOK' /\ StepOK'
  <2>1. \A r \in SeqId : IsLive(r) /\ IsLive(r)' /\ ~Planned(r) => \A n \in Owned(r) :
           n = done[r] \/ status[r] = "prefill" \/ sent # <<>> => n \in Owned(r)'
    BY <1>6, <1>9
  <2>2. \A r \in SeqId : IsLive(r)' =>
           (IsLive(r) /\ ~Planned(r) /\ done'[r] = done[r]) \/ done'[r] \in Owned(r)'
    <3>1. \A r \in SeqId : Planned(r) => r = s
      BY <1>2 DEF Planned
    <3>. QED
      BY <1>1, <1>7, <1>8, <1>9, <3>1
  <2>3. \A r \in SeqId : status'[r] = "prefill" /\ ~Planned(r)' =>
           status[r] = "prefill" /\ ~Planned(r) /\ restore_key'[r] = restore_key[r]
    BY <1>1, <1>7
  <2>. QED
    BY <1>7, <1>9, <2>1, <2>2, <2>3, RequestsWritten
<1>11. b \in Pending(s)' /\ \A c \in Pending(s) : c # NoBlock /\ c \in Block => c \in Pending(s)'
  <2>1. BlockSize \in Nat \ {0} /\ k \in Nat \ {0} /\ k * BlockSize > 0
    <3>1. BlockSize \in Nat \ {0} /\ k \in Nat \ {0}
      BY BlockSizeAssumption
    <3>2. k * BlockSize \in Nat /\ 0 * BlockSize + BlockSize <= k * BlockSize
      BY <3>1, BlockMultiples
    <3>. QED
      BY <3>1, <3>2
  <2>2. /\ block_id'[<<s, k>>] = b
        /\ \A j \in 1..MaxBlocks : j # k => block_id'[<<s, j>>] = block_id[<<s, j>>]
    BY <1>0, <1>3, <1>5, ObjectOf DEF Holds
  <2>3. k \in BlocksOf(s)' /\ \A j \in BlocksOf(s) : j # k /\ j \in BlocksOf(s)' /\ j \in 1..MaxBlocks
    <3>1. k \in BlocksOf(s)'
      BY <2>2, NoBlockAssumption DEF BlocksOf, Allocated
    <3>2. \A j \in BlocksOf(s) : j # k /\ j \in 1..MaxBlocks
      BY <1>3 DEF BlocksOf, Allocated
    <3>3. \A j \in BlocksOf(s) : j \in BlocksOf(s)'
      BY <2>2, <3>2 DEF BlocksOf, Allocated
    <3>. QED
      BY <3>1, <3>2, <3>3
  <2>4. b \in Pending(s)'
    BY <1>9, <2>1, <2>2, <2>3 DEF Pending
  <2>5. ASSUME NEW c \in Pending(s) PROVE c \in Pending(s)'
    <3>1. PICK j \in BlocksOf(s) : done[s] < j * BlockSize /\ c = block_id[<<s, j>>]
      BY <2>5 DEF Pending
    <3>2. j \in BlocksOf(s)' /\ c = block_id'[<<s, j>>] /\ done'[s] < j * BlockSize
      BY <1>1, <2>2, <2>3, <3>1
    <3>. QED
      BY <3>2 DEF Pending
  <2>. QED
    BY <2>4, <2>5
<1>12. ContentOK' /\ FreshOK'
  <2>1. \A g \in Hash : cached'[g] # NoBlock =>
           \/ cached'[g] = cached[g]
           \/ cached'[g] \in touched' /\ \E r \in SeqId : IsLive(r)' /\ cached'[g] \in Pending(r)'
    BY <1>5, <1>7, <1>9, <1>11
  <2>2. ASSUME NEW g \in Hash, NEW r \in SeqId, cached[g] # NoBlock, IsLive(r), cached[g] \in Pending(r)
        PROVE  IsLive(r)' /\ cached[g] \in Pending(r)'
    <3>1. cached[g] \in Block
      BY <1>0, <2>2
    <3>. QED
      BY <1>6, <1>7, <1>11, <2>2, <3>1
  <2>3. \A r \in SeqId : status[r] = "prefill" /\ ~Planned(r) => status'[r] = "prefill" /\ ~Planned(r)'
    BY <1>1, <1>7
  <2>4. UNCHANGED kv /\ phase \in {"running", "prefill", "plan"} /\ touched \subseteq touched'
    BY <1>1, <1>2, <1>5
  <2>. QED
    BY <2>1, <2>2, <2>3, <2>4, CacheWritten
<1>. QED
  BY <1>10, <1>12 DEF WrittenOK

LEMMA FreeNextBlockWritten ==
  ASSUME SchedulerInv, WrittenOK, NEW s \in SeqId, FreeNextBlock(s),
         UNCHANGED <<tokens, engineVars>>
  PROVE  WrittenOK'
<1>0. tokens \in [SeqId -> Text] /\ QueueInv /\ ManagerInv
  BY DEF SchedulerInv, ManagerInv, ManagerTypeOK
<1>1. UNCHANGED <<kv, status, done, restore_key, sent, phase, waiting, tokens>>
  BY DEF engineVars, queueVars, gdnVars, workerVars, storeVars
<1>2. ~IsLive(s)
  <2>1. Place(s) /\ Freeing(s) /\ SeqOK(s)
    BY <1>0 DEF QueueInv, ManagerInv, FreeNextBlock
  <2>2. s \notin tables /\ ~Allocating(s)
    BY <2>1, OneCall DEF SeqOK, Busy
  <2>. QED
    BY <2>1, <2>2 DEF Place, TablePlace
<1>3. PICK k \in 1..MaxBlocks : FreeCached(<<s, k>>) \/ FreeHashless(<<s, k>>)
  BY DEF FreeNextBlock, BlocksOf
<1>4. Holds(<<s, k>>, NoBlock, NoHash) /\ cached' = cached /\ touched' = touched
  BY <1>3 DEF FreeCached, FreeHashless
<1>5. ASSUME NEW r \in SeqId, r # s
      PROVE  Pending(r)' = Pending(r) /\ \A n \in Owned(r) : n \in Owned(r)'
  BY <1>0, <1>1, <1>4, <1>5, OthersOwned
<1>6. /\ \A r \in SeqId : IsLive(r)' <=> IsLive(r)
      /\ \A r \in SeqId : Planned(r)' <=> Planned(r)
      /\ OnePrompt' <=> OnePrompt
  BY <1>1 DEF IsLive, Planned, OnePrompt
<1>7. \A r \in SeqId : IsLive(r) => r # s
  BY <1>2
<1>8. \A r \in SeqId : IsLive(r)' =>
        (IsLive(r) /\ ~Planned(r) /\ done'[r] = done[r]) \/ done'[r] \in Owned(r)'
  BY <1>1, <1>5, <1>6, <1>7 DEF WrittenOK, HeldOK
<1>9. \A g \in ToSet(sent') : g \in ToSet(sent) /\ IsLive(g.seq)'
  <2>1. \A g \in ToSet(sent) : g.seq \in SeqId /\ IsLive(g.seq)
    BY <1>0, SentLive
  <2>. QED
    BY <1>1, <1>6, <2>1
<1>10. \A r \in SeqId : status'[r] = "prefill" /\ ~Planned(r)' =>
         status[r] = "prefill" /\ ~Planned(r) /\ restore_key'[r] = restore_key[r]
  BY <1>1, <1>6
<1>11. HeldOK' /\ RestoredOK' /\ StepOK'
  BY <1>1, <1>5, <1>6, <1>7, <1>8, <1>9, <1>10, RequestsWritten
<1>12. ContentOK' /\ FreshOK'
  <2>1. \A g \in Hash, r \in SeqId : IsLive(r) /\ cached[g] \in Pending(r) =>
           /\ IsLive(r)' /\ cached[g] \in Pending(r)'
           /\ status[r] = "prefill" /\ ~Planned(r) => status'[r] = "prefill" /\ ~Planned(r)'
    BY <1>1, <1>5, <1>6, <1>7
  <2>. QED
    BY <1>1, <1>4, <2>1, CacheWritten
<1>. QED
  BY <1>11, <1>12 DEF WrittenOK

LEMMA ManagerStepWritten ==
  ASSUME SchedulerInv, StartOK, WrittenOK, ManagerStep
  PROVE  WrittenOK'
<1>1. CallStep /\ UNCHANGED <<tokens, engineVars>>
  BY DEF ManagerStep
<1>2. ASSUME NEW s \in SeqId, AllocateEnd(s) \/ FreeEnd(s) PROVE WrittenOK'
  <2>1. UNCHANGED <<block_id, cached, touched>>
    BY <1>2 DEF AllocateEnd, FreeEnd, allocVars
  <2>2. UNCHANGED <<kv, status, done, restore_key, sent, phase, waiting, tokens>>
    BY <1>1 DEF engineVars, queueVars, gdnVars, workerVars, storeVars
  <2>3. /\ \A r \in SeqId : IsLive(r)' <=> IsLive(r)
        /\ \A r \in SeqId : Planned(r)' <=> Planned(r)
    BY <2>2 DEF IsLive, Planned
  <2>4. FreshOK'
    BY <2>1, <2>2, <2>3, FreshSame DEF WrittenOK
  <2>5. tokens' \in [SeqId -> Text]
    BY <2>2 DEF SchedulerInv, ManagerInv, ManagerTypeOK
  <2>. QED
    BY <2>1, <2>2, <2>3, <2>4, <2>5, QuietWritten
<1>. QED
  BY <1>1, <1>2, AllocateNextBlockWritten, FreeNextBlockWritten DEF CallStep

(* A request gives up its blocks: what it has not computed it gives up only if     *)
(* `torn` says so.                                                           *)
LEMMA LeavingWritten ==
  ASSUME SchedulerInv, PromptInv, ClosedInv, ProgressInv, WrittenOK, NEW s \in SeqId,
         phase \in {"idle", "running"}, phase' = phase, call = Idle,
         phase = "running" => s \in ToSet(running),
         UNCHANGED <<kv, block_id, cached, touched, restore_key, sent>>,
         done' = [done EXCEPT ![s] = 0],
         status' = [status EXCEPT ![s] = "absent"] \/ status' = [status EXCEPT ![s] = "waiting"],
         tokens' \in [SeqId -> Text], \A r \in SeqId : r # s => tokens'[r] = tokens[r],
         GivesUp(s), torn' = {}
  PROVE  WrittenOK'
<1>0. /\ tokens \in [SeqId -> Text] /\ QueueInv /\ QueueTypeOK /\ ManagerInv /\ PhaseOK
      /\ status \in [SeqId -> {"absent", "waiting", "prefill", "decode"}] /\ done \in [SeqId -> Int]
  BY DEF SchedulerInv, ManagerInv, ManagerTypeOK, QueueInv, QueueTypeOK
<1>1. /\ sent = <<>> /\ ToSet(sent') = {} /\ OnePrompt /\ \A r \in SeqId : ~Planned(r) /\ ~Planned(r)'
  BY <1>0, EmptyList DEF PhaseOK, PromptInv, OneAtATime, Planned
<1>2. /\ \A r \in SeqId : r # s => status'[r] = status[r]
      /\ \A r \in SeqId : r # s => done'[r] = done[r]
      /\ status'[s] \in {"absent", "waiting"} /\ ~IsLive(s)'
  BY <1>0 DEF IsLive
<1>3. status[s] # "prefill"
  <2>1. status[s] = "prefill" => done[s] < SeqLen(s)
    BY DEF PromptInv, ProgressOK
  <2>. QED
    BY <2>1 DEF GivesUp
<1>4. \A r \in SeqId : (IsLive(r)' => r # s) /\ (r # s => (IsLive(r)' <=> IsLive(r)))
  BY <1>2 DEF IsLive
<1>5. ASSUME NEW r \in SeqId, r # s
      PROVE  Pending(r)' = Pending(r) /\ \A n \in Owned(r) : n \in Owned(r)'
  <2>1. Pending(r)' = Pending(r)
    BY <1>2, <1>5 DEF Pending, BlocksOf, Allocated
  <2>2. \A n \in Owned(r) : n \in Owned(r)'
    BY <1>0, <1>5, OwnedSame
  <2>. QED
    BY <2>1, <2>2
<1>6. ASSUME NEW h \in Hash, cached[h] # NoBlock, IsLive(s) PROVE cached[h] \notin Pending(s)
  <2>1. status[s] = "decode"
    BY <1>3, <1>6 DEF IsLive
  <2>2. ~InStep(s)
    <3>1. batch = <<>>
      BY <1>0 DEF PhaseOK
    <3>2. ~InScheduled(s)
      <4>1. CASE phase = "idle"
        <5>1. scheduled = NothingScheduled
          BY <1>0, <4>1 DEF PhaseOK
        <5>. QED
          BY <5>1, ScheduledNobody DEF InScheduled
      <4>2. CASE phase = "running"
        BY <1>0, <4>2 DEF QueueInv, Place, RunningPlace
      <4>. QED
        BY <4>1, <4>2
    <3>. QED
      BY <1>1, <3>1, <3>2, NoGroups, EmptyList DEF InStep
  <2>. QED
    BY <1>6, <2>1, <2>2, DecodesWritten
<1>7. HeldOK' /\ RestoredOK' /\ StepOK'
  <2>1. \A r \in SeqId : IsLive(r) /\ IsLive(r)' /\ ~Planned(r) => \A n \in Owned(r) :
           n = done[r] \/ status[r] = "prefill" \/ sent # <<>> => n \in Owned(r)'
    BY <1>4, <1>5
  <2>2. \A r \in SeqId : IsLive(r)' =>
           (IsLive(r) /\ ~Planned(r) /\ done'[r] = done[r]) \/ done'[r] \in Owned(r)'
    BY <1>1, <1>2, <1>4
  <2>3. \A r \in SeqId : status'[r] = "prefill" /\ ~Planned(r)' =>
           status[r] = "prefill" /\ ~Planned(r) /\ restore_key'[r] = restore_key[r]
    BY <1>1, <1>2
  <2>. QED
    BY <1>1, <2>1, <2>2, <2>3, RequestsWritten
<1>8. ContentOK' /\ FreshOK'
  <2>1. ASSUME NEW h \in Hash, NEW r \in SeqId, cached[h] # NoBlock, IsLive(r), cached[h] \in Pending(r)
        PROVE  /\ IsLive(r)' /\ cached[h] \in Pending(r)'
               /\ status[r] = "prefill" => status'[r] = "prefill" /\ ~Planned(r)'
    <3>1. r # s
      BY <1>6, <2>1
    <3>. QED
      BY <1>1, <1>2, <1>4, <1>5, <2>1, <3>1
  <2>. QED
    BY <2>1, CacheWritten
<1>. QED
  BY <1>7, <1>8 DEF WrittenOK

LEMMA GivingUpWritten ==
  ASSUME SchedulerInv, PromptInv, ClosedInv, ProgressInv, WrittenOK,
         (\E s \in SeqId : Abort(s)) \/ Preempt, torn' = {}
  PROVE  WrittenOK'
<1>0. /\ QueueInv /\ QueueTypeOK /\ ManagerInv /\ PhaseOK /\ tokens \in [SeqId -> Text] /\ <<>> \in Text
  BY TextAssumption DEF SchedulerInv, QueueInv, ManagerInv, ManagerTypeOK
<1>1. ASSUME NEW s \in SeqId, Abort(s) PROVE WrittenOK'
  <2>1. /\ phase = "idle" /\ phase' = phase /\ call = Idle /\ FreeSeq(s) /\ GivesUp(s)
        /\ status' = [status EXCEPT ![s] = "absent"] /\ done' = [done EXCEPT ![s] = 0]
        /\ tokens' = [tokens EXCEPT ![s] = <<>>]
        /\ UNCHANGED <<kv, restore_key, sent>>
    BY <1>1 DEF Abort, Leaves, gdnVars, storeVars
  <2>2. tokens' \in [SeqId -> Text] /\ \A r \in SeqId : r # s => tokens'[r] = tokens[r]
    BY <1>0, <2>1
  <2>3. UNCHANGED <<block_id, cached, touched>>
    BY <1>0, <2>1, FreeSeqFrame
  <2>. QED
    BY <2>1, <2>2, <2>3, LeavingWritten
<1>2. CASE Preempt
  <2>0. PICK s : s = Last(running)
    OBVIOUS
  <2>1. /\ phase = "running" /\ phase' = phase /\ call = Idle /\ running # <<>>
        /\ FreeBegin(s) /\ GivesUp(s)
        /\ status' = [status EXCEPT ![s] = "waiting"] /\ done' = [done EXCEPT ![s] = 0]
        /\ UNCHANGED <<tokens, kv, restore_key, sent>>
    BY <1>2, <2>0 DEF Preempt, gdnVars, workerVars, storeVars
  <2>2. s \in SeqId /\ s \in ToSet(running)
    BY <1>0, <2>0, <2>1, FrontList DEF QueueTypeOK, QueueInv, NoRepetition
  <2>3. UNCHANGED <<block_id, cached, touched>>
    BY <1>0, <2>1, <2>2, FreeSeqFrame
  <2>. QED
    BY <1>0, <2>1, <2>2, <2>3, LeavingWritten
<1>. QED
  BY <1>1, <1>2

(* What a request owns of the cache is written.                                    *)
LEMMA OwnedIsWritten ==
  ASSUME SchedulerInv, ClosedInv, NEW s \in SeqId, ~Freeing(s), NEW h \in Hash, cached[h] # NoBlock,
         NEW k \in BlocksOf(s), block_id[<<s, k>>] = cached[h]
  PROVE  /\ k \in Nat \ {0} /\ k * BlockSize \in Nat /\ k * BlockSize <= SeqLen(s) /\ HashAt(s, k) = h
         /\ \A n \in Owned(s) : k * BlockSize <= n => BlockWritten(cached[h], h)
<1>0. ManagerInv /\ CacheInv /\ AllocInv /\ tokens \in [SeqId -> Text]
  BY DEF SchedulerInv, ClosedInv, ManagerInv, ManagerTypeOK
<1>1. content[<<s, k>>] = h /\ h # NoHash
  <2>1. <<s, k>> \in Obj
    BY <1>0, FilledFacts
  <2>. QED
    BY <1>0, <2>1, HoldersOfCached
<1>2. k \in Nat \ {0} /\ k * BlockSize <= SeqLen(s) /\ HashAt(s, k) = h
  BY <1>0, <1>1, FullBlock DEF SeqLen
<1>3. k * BlockSize \in Nat
  BY <1>2, BlockMultiples
<1>. QED
  BY <1>0, <1>2, <1>3, WrittenBlock

(* The output of the first group left: the tokens it went up to are its own.       *)
LEMMA OutputWritten ==
  ASSUME SchedulerInv, PromptInv, ClosedInv, ProgressInv, WrittenOK, ChunkDone \/ Sample \/ Finish
  PROVE  WrittenOK'
<1>0. PICK g : g = Head(sent)
  OBVIOUS
<1>00. PICK s : s = g.seq
  OBVIOUS
<1>1. /\ phase = "output" /\ phase' = phase /\ sent # <<>> /\ sent' = Tail(sent) /\ call = Idle
      /\ UNCHANGED <<kv, restore_key>>
  BY DEF ChunkDone, Sample, Finish, Progress, gdnVars, storeVars
<1>2. /\ QueueInv /\ QueueTypeOK /\ PhaseOK /\ tokens \in [SeqId -> Text] /\ ManagerInv /\ <<>> \in Text
      /\ done \in [SeqId -> Int] /\ status \in [SeqId -> {"absent", "waiting", "prefill", "decode"}]
  BY TextAssumption DEF SchedulerInv, QueueInv, QueueTypeOK, ManagerInv, ManagerTypeOK
<1>3. /\ g \in ToSet(sent) /\ s \in SeqId /\ ActionOK(g) /\ IsLive(s)
      /\ ToSet(sent') \subseteq ToSet(sent) /\ \A f \in ToSet(sent') : f.seq # s
  BY <1>0, <1>00, <1>1, <1>2, OutputFrame
<1>4. UNCHANGED <<block_id, cached>>
  <2>1. CASE ChunkDone \/ Sample
    BY <2>1 DEF ChunkDone, Sample, blockVars, allocVars
  <2>2. CASE Finish
    BY <1>0, <1>00, <1>2, <1>3, <2>2, FreeSeqFrame DEF Finish
  <2>. QED
    BY <2>1, <2>2
<1>5. g.end \in Owned(s) /\ g.end \in Nat
  BY <1>00, <1>1, <1>3 DEF WrittenOK, StepOK, StepOwned, ActionOK
<1>6. /\ \A r \in SeqId : r # s =>
           tokens'[r] = tokens[r] /\ status'[r] = status[r] /\ done'[r] = done[r]
      /\ tokens' \in [SeqId -> Text]
      /\ \/ /\ g.end = SeqLen(s) /\ status'[s] = "absent"
         \/ /\ done'[s] = g.end /\ tokens'[s] \in Text /\ SeqLen(s) <= SeqLen(s)'
            /\ SubSeq(tokens'[s], 1, SeqLen(s)) = tokens[s]
            /\ status'[s] = status[s] \/ status'[s] = "decode"
  <2>0. /\ SeqLen(s) \in Nat /\ tokens[s] \in Text /\ SubSeq(tokens[s], 1, SeqLen(s)) = tokens[s]
    BY <1>2, <1>3, TextFacts DEF SeqLen
  <2>1. CASE ChunkDone
    <3>1. done' = [done EXCEPT ![s] = g.end] /\ UNCHANGED <<tokens, status>>
      BY <1>0, <1>00, <2>1 DEF ChunkDone
    <3>2. SeqLen(s) <= SeqLen(s)'
      BY <2>0, <3>1 DEF SeqLen
    <3>. QED
      BY <1>2, <1>3, <2>0, <3>1, <3>2
  <2>2. CASE Sample
    <3>1. PICK t \in Text : /\ Len(t) = SeqLen(s) + 1 /\ SubSeq(t, 1, SeqLen(s)) = tokens[s]
                            /\ tokens' = [tokens EXCEPT ![s] = t]
      BY <1>0, <1>00, <2>2 DEF Sample
    <3>2. done' = [done EXCEPT ![s] = g.end] /\ status' = [status EXCEPT ![s] = "decode"]
      BY <1>0, <1>00, <2>2 DEF Sample
    <3>3. tokens'[s] = t
      BY <1>2, <1>3, <3>1
    <3>4. SeqLen(s) <= SeqLen(s)'
      BY <2>0, <3>1, <3>3 DEF SeqLen
    <3>. QED
      BY <1>2, <1>3, <3>1, <3>2, <3>3, <3>4
  <2>3. CASE Finish
    <3>1. /\ g.end = SeqLen(s) /\ status' = [status EXCEPT ![s] = "absent"]
          /\ done' = [done EXCEPT ![s] = 0] /\ tokens' = [tokens EXCEPT ![s] = <<>>]
      BY <1>0, <1>00, <2>3 DEF Finish, Leaves
    <3>. QED
      BY <1>2, <1>3, <3>1
  <2>. QED
    BY <2>1, <2>2, <2>3
<1>7. ASSUME NEW r \in SeqId, r # s
      PROVE  /\ Pending(r)' = Pending(r) /\ \A n \in Owned(r) : n \in Owned(r)'
             /\ IsLive(r)' <=> IsLive(r)
  <2>1. Pending(r)' = Pending(r)
    BY <1>4, <1>6, <1>7 DEF Pending, BlocksOf, Allocated
  <2>2. \A n \in Owned(r) : n \in Owned(r)'
    BY <1>1, <1>2, <1>4, <1>6, <1>7, OwnedSame
  <2>3. IsLive(r)' <=> IsLive(r)
    BY <1>6, <1>7 DEF IsLive
  <2>. QED
    BY <2>1, <2>2, <2>3
<1>8. ASSUME IsLive(s)'
      PROVE  /\ \A n \in Owned(s) : n \in Owned(s)'
             /\ done'[s] = g.end
  <2>1. /\ done'[s] = g.end /\ tokens'[s] \in Text /\ SeqLen(s) <= SeqLen(s)'
        /\ SubSeq(tokens'[s], 1, SeqLen(s)) = tokens[s]
    BY <1>6, <1>8 DEF IsLive
  <2>2. \A p : (kv[Slot(s, p)[1]][Slot(s, p)[2]])' = kv[Slot(s, p)[1]][Slot(s, p)[2]]
    BY <1>1, <1>4 DEF Slot
  <2>3. ASSUME NEW n \in Owned(s) PROVE n \in Owned(s)'
    BY <1>2, <1>3, <2>1, <2>2, OwnedKept
  <2>. QED
    BY <2>1, <2>3
<1>9. OnePrompt /\ \A r \in SeqId : ~Planned(r) /\ ~Planned(r)'
  BY <1>1 DEF PromptInv, OneAtATime, Planned
<1>10. HeldOK' /\ RestoredOK' /\ StepOK'
  <2>1. \A r \in SeqId : IsLive(r)' => IsLive(r) /\ \A n \in Owned(r) : n \in Owned(r)'
    BY <1>3, <1>7, <1>8
  <2>2. \A r \in SeqId : IsLive(r)' =>
           (IsLive(r) /\ ~Planned(r) /\ done'[r] = done[r]) \/ done'[r] \in Owned(r)'
    <3>1. IsLive(s)' => done'[s] \in Owned(s)'
      BY <1>5, <1>8
    <3>. QED
      BY <1>6, <1>9, <2>1, <3>1
  <2>3. \A r \in SeqId : status'[r] = "prefill" /\ ~Planned(r)' =>
           status[r] = "prefill" /\ ~Planned(r) /\ restore_key'[r] = restore_key[r]
    BY <1>1, <1>6, <1>9
  <2>4. \A f \in ToSet(sent') : f \in ToSet(sent) /\ IsLive(f.seq)'
    <3>1. \A f \in ToSet(sent') : f \in ToSet(sent) /\ f.seq \in SeqId /\ IsLive(f.seq) /\ f.seq # s
      BY <1>2, <1>3, SentLive
    <3>. QED
      BY <1>7, <3>1
  <2>. QED
    BY <1>1, <1>9, <2>1, <2>2, <2>3, <2>4, RequestsWritten
<1>11. ContentOK' /\ FreshOK'
  <2>1. ASSUME NEW h \in Hash, NEW r \in SeqId, cached[h] # NoBlock, IsLive(r), cached[h] \in Pending(r)
        PROVE  BlockWritten(cached[h], h) \/ (IsLive(r)' /\ cached[h] \in Pending(r)')
    <3>1. CASE r # s
      BY <1>7, <2>1, <3>1
    <3>2. CASE r = s
      <4>1. PICK k \in BlocksOf(s) : done[s] < k * BlockSize /\ block_id[<<s, k>>] = cached[h]
        BY <2>1, <3>2 DEF Pending
      <4>2. ~Freeing(s)
        BY <1>1, OneCall
      <4>3. /\ k * BlockSize \in Nat /\ k * BlockSize <= SeqLen(s)
            /\ k * BlockSize <= g.end => BlockWritten(cached[h], h)
        BY <1>3, <1>5, <2>1, <4>1, <4>2, OwnedIsWritten
      <4>4. CASE g.end < k * BlockSize
        <5>1. done'[s] = g.end /\ (status'[s] = status[s] \/ status'[s] = "decode")
          BY <1>5, <1>6, <4>3, <4>4
        <5>2. IsLive(s)' /\ k \in BlocksOf(s)' /\ block_id'[<<s, k>>] = cached[h]
          BY <1>3, <1>4, <4>1, <5>1 DEF IsLive, BlocksOf, Allocated
        <5>3. cached[h] \in Pending(s)'
          BY <4>4, <5>1, <5>2 DEF Pending
        <5>. QED
          BY <3>2, <5>2, <5>3
      <4>. QED
        BY <1>5, <4>3, <4>4
    <3>. QED
      BY <3>1, <3>2
  <2>. QED
    BY <1>1, <1>4, <2>1, CacheWritten
<1>. QED
  BY <1>10, <1>11 DEF WrittenOK

(* The cached block that a full one is exchanged for holds its tokens but the last *)
(* one, unless a prompt is still computing it.                                *)
LEMMA DuplicateWritten ==
  ASSUME SchedulerInv, ClosedInv, ProgressInv, WrittenOK, call = Idle, NEW s \in SeqId,
         NEW n \in Nat \ {0}, n * BlockSize = SeqLen(s), NEW h \in Hash, h = HashAt(s, n),
         cached[h] # NoBlock,
         \A r \in SeqId : status[r] = "prefill" /\ done[r] < n * BlockSize => block_id[<<r, n>>] # cached[h],
         NEW p \in Nat, p + 1 < n * BlockSize, (p \div BlockSize) + 1 = n
  PROVE  kv[cached[h]][p % BlockSize] = SubSeq(tokens[s], 1, p + 1)
<1> DEFINE w == n * BlockSize
<1>00. PICK t : t = tokens[s]
  OBVIOUS
<1>0. tokens \in [SeqId -> Text]
  BY DEF SchedulerInv, ManagerInv, ManagerTypeOK
<1>1. t \in Text /\ w \in Nat /\ w <= Len(t) /\ Len(t) \in Nat /\ h = SubSeq(t, 1, w)
  BY <1>0, <1>00, TextFacts DEF SeqLen, HashAt
<1>2. CASE BlockWritten(cached[h], h)
  <2>1. PICK b : b = cached[h]
    OBVIOUS
  <2>2. PICK k : k = n
    OBVIOUS
  <2>3. k * BlockSize <= Len(t) /\ BlockWritten(b, SubSeq(t, 1, k * BlockSize)) /\ k = (p \div BlockSize) + 1
    BY <1>1, <1>2, <2>1, <2>2
  <2>4. kv[b][p % BlockSize] = SubSeq(t, 1, p + 1)
    BY ONLY <1>1, <2>3, p \in Nat, WrittenSlot
  <2>. QED
    BY <1>00, <2>1, <2>4
<1>3. CASE \E r \in SeqId : IsLive(r) /\ cached[h] \in Pending(r)
  <2>1. PICK r \in SeqId : IsLive(r) /\ cached[h] \in Pending(r)
    BY <1>3
  <2>2. PICK j \in BlocksOf(r) : done[r] < j * BlockSize /\ block_id[<<r, j>>] = cached[h]
    BY <2>1 DEF Pending
  <2>3. ~Freeing(r)
    BY OneCall
  <2>4. j \in Nat \ {0} /\ j * BlockSize <= SeqLen(r) /\ HashAt(r, j) = h
    BY <2>2, <2>3, OwnedIsWritten
  <2>00. PICK u : u = tokens[r]
    OBVIOUS
  <2>5. u \in Text /\ j * BlockSize <= Len(u) /\ Len(u) \in Nat /\ h = SubSeq(u, 1, j * BlockSize)
    BY <1>0, <2>00, <2>4, TextFacts DEF SeqLen, HashAt
  <2>6. j = n /\ \A m \in 1..w : SubSeq(t, 1, m) = SubSeq(u, 1, m)
    <3>1. PICK i : i = j
      OBVIOUS
    <3>2. /\ i \in Nat \ {0} /\ n * BlockSize <= Len(t) /\ i * BlockSize <= Len(u)
          /\ SubSeq(t, 1, n * BlockSize) = SubSeq(u, 1, i * BlockSize)
      BY <1>1, <2>4, <2>5, <3>1
    <3>3. i = n /\ \A m \in 1..(n * BlockSize) : SubSeq(t, 1, m) = SubSeq(u, 1, m)
      <4>1. t \in Text
        BY <1>1
      <4>2. u \in Text
        BY <2>5
      <4>3. i \in Nat \ {0}
        BY <3>2
      <4>4. n * BlockSize <= Len(t)
        BY <3>2
      <4>5. i * BlockSize <= Len(u)
        BY <3>2
      <4>6. SubSeq(t, 1, n * BlockSize) = SubSeq(u, 1, i * BlockSize)
        BY <3>2
      <4>7. /\ i = n
            /\ \A m \in 1..(n * BlockSize) :
                 SubSeq(t, 1, m) = SubSeq(u, 1, m) /\ SubSeq(t, 1, m) = SubSeq(SubSeq(t, 1, n * BlockSize), 1, m)
        BY ONLY <4>1, <4>2, <4>3, <4>4, <4>5, <4>6, n \in Nat \ {0}, SamePrefix, ZenonT(30)
      <4>. QED
        BY <4>7
    <3>. QED
      BY <3>1, <3>3
  <2>7. status[r] = "decode"
    BY <2>1, <2>2, <2>6 DEF IsLive
  <2>8. done[r] = SeqLen(r) - 1 /\ done[r] \in Owned(r)
    BY <2>1, <2>7 DEF ProgressInv, DoneOK, WrittenOK, HeldOK
  <2>9. HasKV(r, done[r]) /\ done[r] \in Int
    BY <2>8 DEF Owned
  <2> HIDE DEF w
  <2>10. p \in 0..(done[r] - 1) /\ p + 1 \in 1..w
    BY <1>1, <2>00, <2>5, <2>6, <2>8 DEF w, SeqLen
  <2>11. kv[Slot(r, p)[1]][Slot(r, p)[2]] = SubSeq(u, 1, p + 1)
    BY <2>00, <2>9, <2>10 DEF HasKV
  <2>12. Slot(r, p)[1] = cached[h] /\ Slot(r, p)[2] = p % BlockSize
    BY <2>2, <2>6 DEF Slot
  <2>. QED
    BY <1>00, <2>6, <2>10, <2>11, <2>12
<1>. QED
  BY <1>2, <1>3 DEF WrittenOK, ContentOK

LEMMA ScheduleRunningWritten ==
  ASSUME SchedulerInv, ClosedInv, ProgressInv, WrittenOK, ScheduleRunning, torn' = {}
  PROVE  WrittenOK'
<1>0. PICK s : s = Head(running)
  OBVIOUS
<1>1. /\ phase = "running" /\ phase' = phase /\ running # <<>>
      /\ AppendSlots(s) /\ call = Idle /\ s \in tables /\ ~TakesUnwritten(s)
      /\ UNCHANGED <<tokens, status, done, sent, restore_key, kv>>
  BY <1>0 DEF ScheduleRunning, gdnVars, workerVars, storeVars, AppendSlots
<1>2. /\ ManagerInv /\ QueueInv /\ QueueTypeOK /\ PhaseOK /\ AllocTypeOK /\ AllocInv
      /\ tokens \in [SeqId -> Text] /\ full_slots \in [SeqId -> Nat] /\ done \in [SeqId -> Int]
      /\ block_id \in [Obj -> Block \cup {NoBlock}] /\ cached \in [Hash -> Block \cup {NoBlock}]
  BY DEF SchedulerInv, QueueInv, QueueTypeOK, ManagerInv, ManagerTypeOK, AllocInv, AllocTypeOK
<1>3. s \in SeqId /\ s \in ToSet(running)
  BY <1>0, <1>1, <1>2, TailList DEF QueueTypeOK
<1>4. Place(s)
  BY <1>2, <1>3 DEF QueueInv
<1>5. status[s] \in {"decode", "prefill"} /\ ~InScheduled(s) /\ sent = <<>> /\ batch = <<>>
  BY <1>1, <1>2, <1>3, <1>4 DEF Place, RunningPlace, IsLive, PhaseOK
<1>6. ~InStep(s)
  BY <1>5, NoGroups, EmptyList DEF InStep
<1>7. \A r \in SeqId : ~Planned(r) /\ ~Planned(r)' /\ (IsLive(r)' <=> IsLive(r))
  BY <1>1 DEF Planned, IsLive
<1>8. /\ SeqLen(s) \in Nat /\ done[s] \in Int
      /\ status[s] = "prefill" => full_slots[s] = SeqLen(s)
      /\ status[s] = "decode" => full_slots[s] = SeqLen(s) - 1 /\ done[s] = SeqLen(s) - 1
  BY <1>1, <1>2, <1>3, <1>6, TextFacts DEF ProgressInv, SlotsOK, DoneOK, SeqLen
<1>9. OnePrompt' <=> OnePrompt
  BY <1>1 DEF OnePrompt
<1>10. PICK n \in Nat \ {0} :
           /\ BlocksOf(s) = 1..n
           /\ \/ n + 1 \in 1..MaxBlocks /\ AllocateMutable(<<s, n + 1>>)
              \/ /\ n \in 1..MaxBlocks /\ HashAt(s, n) \in Hash
                 /\ PromoteFirst(<<s, n>>, HashAt(s, n)) \/ PromoteDuplicate(<<s, n>>, HashAt(s, n))
                 /\ ~AppendsToNewBlock(s) /\ FillsLastBlock(s) /\ NumBlocks(s) = n
                 /\ n * BlockSize = Len(tokens[s]) /\ full_slots[s] + 1 = Len(tokens[s])
              \/ UNCHANGED allocVars
  BY <1>1, <1>2, <1>3, AppendCases
<1>11. SUFFICES
         /\ \A m \in Owned(s) : m = done[s] \/ status[s] = "prefill" => m \in Owned(s)'
         /\ \A r \in SeqId : r # s => Pending(r)' = Pending(r) /\ \A m \in Owned(r) : m \in Owned(r)'
         /\ touched \subseteq touched'
         /\ \A h \in Hash : cached'[h] # NoBlock =>
              \/ cached'[h] = cached[h]
              \/ cached'[h] \in touched' /\ cached'[h] \in Pending(s)'
         /\ \A h \in Hash : cached[h] # NoBlock /\ cached[h] \in Pending(s) => cached[h] \in Pending(s)'
  <2>1. /\ \A m \in Owned(s) : m = done[s] \/ status[s] = "prefill" => m \in Owned(s)'
        /\ \A r \in SeqId : r # s => Pending(r)' = Pending(r) /\ \A m \in Owned(r) : m \in Owned(r)'
        /\ touched \subseteq touched'
        /\ \A h \in Hash : cached'[h] # NoBlock =>
             \/ cached'[h] = cached[h]
             \/ cached'[h] \in touched' /\ cached'[h] \in Pending(s)'
        /\ \A h \in Hash : cached[h] # NoBlock /\ cached[h] \in Pending(s) => cached[h] \in Pending(s)'
    BY <1>11
  <2>2. HeldOK' /\ RestoredOK' /\ StepOK'
    <3>1. \A r \in SeqId : IsLive(r) /\ IsLive(r)' /\ ~Planned(r) => \A m \in Owned(r) :
             m = done[r] \/ status[r] = "prefill" \/ sent # <<>> => m \in Owned(r)'
      BY <1>5, <2>1
    <3>2. \A r \in SeqId : IsLive(r)' => IsLive(r) /\ ~Planned(r) /\ done'[r] = done[r]
      BY <1>1, <1>7
    <3>3. \A r \in SeqId : status'[r] = "prefill" /\ ~Planned(r)' =>
             status[r] = "prefill" /\ ~Planned(r) /\ restore_key'[r] = restore_key[r]
      BY <1>1, <1>7
    <3>4. ToSet(sent') = {}
      BY <1>1, <1>5, EmptyList
    <3>. QED
      BY <1>1, <1>9, <3>1, <3>2, <3>3, <3>4, RequestsWritten
  <2>3. ContentOK' /\ FreshOK'
    <3>1. \A h \in Hash : cached'[h] # NoBlock =>
           \/ cached'[h] = cached[h]
           \/ cached'[h] \in touched' /\ \E r \in SeqId : IsLive(r)' /\ cached'[h] \in Pending(r)'
      BY <1>3, <1>5, <1>7, <2>1 DEF IsLive
    <3>2. \A h \in Hash, r \in SeqId : cached[h] # NoBlock /\ IsLive(r) /\ cached[h] \in Pending(r) =>
             /\ IsLive(r)' /\ cached[h] \in Pending(r)'
             /\ status[r] = "prefill" => status'[r] = "prefill" /\ ~Planned(r)'
      BY <1>1, <1>7, <2>1
    <3>. QED
      BY <1>1, <2>1, <3>1, <3>2, CacheWritten
  <2>. QED
    BY <2>2, <2>3 DEF WrittenOK
<1>12. CASE UNCHANGED allocVars
  <2>1. UNCHANGED <<block_id, cached, touched>>
    BY <1>12 DEF allocVars
  <2>2. ASSUME NEW r \in SeqId PROVE Pending(r)' = Pending(r) /\ \A m \in Owned(r) : m \in Owned(r)'
    <3>1. Pending(r)' = Pending(r)
      BY <1>1, <2>1 DEF Pending, BlocksOf, Allocated
    <3>2. \A m \in Owned(r) : m \in Owned(r)'
      BY <1>1, <1>2, <2>1, OwnedSame
    <3>. QED
      BY <3>1, <3>2
  <2>. QED
    BY <1>3, <2>1, <2>2
<1>13. CASE n + 1 \in 1..MaxBlocks /\ AllocateMutable(<<s, n + 1>>)
  <2>1. PICK b \in Block : /\ Holds(<<s, n + 1>>, b, NoHash) /\ cached' = CachedWithout(b)
                           /\ touched' = touched
    BY <1>13 DEF AllocateMutable
  <2>2. \A r \in SeqId : r # s => Pending(r)' = Pending(r) /\ \A m \in Owned(r) : m \in Owned(r)'
    BY <1>1, <1>2, <1>3, <1>13, <2>1, OthersOwned
  <2>3. \A h \in Hash : cached'[h] # NoBlock => cached'[h] = cached[h]
    BY <1>2, <2>1 DEF CachedWithout
  <2>4. /\ block_id'[<<s, n + 1>>] = b
        /\ \A j \in 1..MaxBlocks : j # n + 1 => block_id'[<<s, j>>] = block_id[<<s, j>>]
    BY <1>2, <1>3, <1>13, <2>1, ObjectOf DEF Holds
  <2>5. \A j \in BlocksOf(s) : j \in 1..MaxBlocks /\ j # n + 1
    BY <1>10 DEF BlocksOf
  <2>6. ASSUME NEW c \in Pending(s) PROVE c \in Pending(s)'
    <3>1. PICK j \in BlocksOf(s) : done[s] < j * BlockSize /\ c = block_id[<<s, j>>]
      BY <2>6 DEF Pending
    <3>2. block_id'[<<s, j>>] = block_id[<<s, j>>] /\ j \in BlocksOf(s)'
      BY <2>4, <2>5 DEF BlocksOf, Allocated
    <3>. QED
      BY <1>1, <3>1, <3>2 DEF Pending
  <2>7. ASSUME NEW m \in Owned(s), m = done[s] \/ status[s] = "prefill" PROVE m \in Owned(s)'
    <3>1. m \in Int /\ m <= full_slots[s]
      BY <1>5, <1>8, <2>7 DEF Owned
    <3>2. ASSUME NEW p \in 0..(m - 1)
          PROVE  (kv[Slot(s, p)[1]][Slot(s, p)[2]])' = kv[Slot(s, p)[1]][Slot(s, p)[2]]
      <4>1. p \in Nat /\ p < full_slots[s]
        BY <1>2, <1>3, <3>1
      <4>2. (p \div BlockSize) + 1 \in BlocksOf(s)
        BY <1>1, <1>2, <4>1, TableBlock
      <4>3. PICK j : j = (p \div BlockSize) + 1
        OBVIOUS
      <4>4. block_id'[<<s, j>>] = block_id[<<s, j>>]
        BY <2>4, <2>5, <4>2, <4>3
      <4>. QED
        BY <1>1, <4>3, <4>4 DEF Slot
    <3>3. /\ SeqLen(s) <= SeqLen(s)' /\ SubSeq(tokens'[s], 1, SeqLen(s)) = tokens[s] /\ tokens'[s] \in Text
      <4>1. tokens[s] \in Text /\ tokens'[s] = tokens[s] /\ SeqLen(s)' = SeqLen(s)
        BY <1>1, <1>2, <1>3 DEF SeqLen
      <4>. QED
        BY <1>8, <4>1, TextFacts DEF SeqLen
    <3>4. \A p \in 0..(m - 1) :
           kv[Slot(s, p)[1]][Slot(s, p)[2]] = SubSeq(tokens[s], 1, p + 1) =>
             (kv[Slot(s, p)[1]][Slot(s, p)[2]])' = SubSeq(tokens[s], 1, p + 1)
      BY <3>2
    <3>. QED
      BY ONLY <1>2, <1>3, <2>7, <3>3, <3>4, OwnedKept
  <2>. QED
    BY <2>1, <2>2, <2>3, <2>6, <2>7
<1>14. PICK h : h = HashAt(s, n)
  OBVIOUS
<1>15. ASSUME n \in 1..MaxBlocks, h \in Hash, PromoteFirst(<<s, n>>, h),
              n * BlockSize = SeqLen(s), full_slots[s] + 1 = SeqLen(s)
       PROVE  /\ \A m \in Owned(s) : m = done[s] \/ status[s] = "prefill" => m \in Owned(s)'
              /\ \A r \in SeqId : r # s => Pending(r)' = Pending(r) /\ \A m \in Owned(r) : m \in Owned(r)'
              /\ touched \subseteq touched'
              /\ \A g \in Hash : cached'[g] # NoBlock =>
                   \/ cached'[g] = cached[g]
                   \/ cached'[g] \in touched' /\ cached'[g] \in Pending(s)'
              /\ \A g \in Hash : cached[g] # NoBlock /\ cached[g] \in Pending(s) => cached[g] \in Pending(s)'
  <2>1. /\ block_id' = [block_id EXCEPT ![<<s, n>>] = block_id[<<s, n>>]]
        /\ cached' = [cached EXCEPT ![h] = block_id[<<s, n>>]]
        /\ touched' = touched \cup {block_id[<<s, n>>]}
    BY <1>15 DEF PromoteFirst, Holds
  <2>2. block_id' = block_id
    BY <1>2, <2>1
  <2>3. ASSUME NEW r \in SeqId PROVE Pending(r)' = Pending(r) /\ \A m \in Owned(r) : m \in Owned(r)'
    <3>1. Pending(r)' = Pending(r)
      BY <1>1, <2>2 DEF Pending, BlocksOf, Allocated
    <3>2. \A m \in Owned(r) : m \in Owned(r)'
      BY <1>1, <1>2, <2>2, OwnedSame
    <3>. QED
      BY <3>1, <3>2
  <2>4. n \in BlocksOf(s) /\ done[s] < n * BlockSize
    BY <1>5, <1>8, <1>10, <1>15
  <2>5. block_id[<<s, n>>] \in Pending(s)
    BY <2>4 DEF Pending
  <2>6. \A g \in Hash : cached'[g] = IF g = h THEN block_id[<<s, n>>] ELSE cached[g]
    BY <1>2, <2>1
  <2>. QED
    BY <1>3, <2>1, <2>3, <2>5, <2>6
<1>16. ASSUME n \in 1..MaxBlocks, h \in Hash, PromoteDuplicate(<<s, n>>, h),
              n * BlockSize = SeqLen(s), full_slots[s] + 1 = SeqLen(s),
              ~AppendsToNewBlock(s), FillsLastBlock(s), NumBlocks(s) = n
       PROVE  /\ \A m \in Owned(s) : m = done[s] \/ status[s] = "prefill" => m \in Owned(s)'
              /\ \A r \in SeqId : r # s => Pending(r)' = Pending(r) /\ \A m \in Owned(r) : m \in Owned(r)'
              /\ touched' = touched /\ cached' = cached
              /\ \A g \in Hash : cached[g] # NoBlock => cached[g] \notin Pending(s)
  <2>1. /\ Holds(<<s, n>>, cached[h], h) /\ cached[h] # NoBlock /\ cached' = cached /\ touched' = touched
    BY <1>16 DEF PromoteDuplicate
  <2>2. \A r \in SeqId : r # s => Pending(r)' = Pending(r) /\ \A m \in Owned(r) : m \in Owned(r)'
    BY <1>1, <1>2, <1>3, <1>16, <2>1, OthersOwned
  <2>3. status[s] = "decode" /\ done[s] = SeqLen(s) - 1
    BY <1>2, <1>3, <1>5, <1>8, <1>16
  <2>4. \A g \in Hash : cached[g] # NoBlock => cached[g] \notin Pending(s)
    BY <1>1, <1>3, <1>6, <2>3, DecodesWritten
  <2>5. \A r \in SeqId : status[r] = "prefill" /\ done[r] < n * BlockSize => block_id[<<r, n>>] # cached[h]
    BY <1>1, <1>14, <1>16, <2>1 DEF TakesUnwritten
  <2>6. /\ block_id'[<<s, n>>] = cached[h]
        /\ \A j \in 1..MaxBlocks : j # n => block_id'[<<s, j>>] = block_id[<<s, j>>]
    BY <1>2, <1>3, <1>16, <2>1, ObjectOf DEF Holds
  <2>7. ASSUME NEW m \in Owned(s), m = done[s] PROVE m \in Owned(s)'
    <3>1. m \in Int /\ m = SeqLen(s) - 1 /\ tokens[s] \in Text
      BY <1>2, <1>3, <1>8, <2>3, <2>7
    <3>2. ASSUME NEW p \in 0..(m - 1), kv[Slot(s, p)[1]][Slot(s, p)[2]] = SubSeq(tokens[s], 1, p + 1)
          PROVE  (kv[Slot(s, p)[1]][Slot(s, p)[2]])' = SubSeq(tokens[s], 1, p + 1)
      <4>1. p \in Nat /\ p < Len(tokens[s]) /\ p + 1 < n * BlockSize
        BY <1>8, <1>16, <3>1 DEF SeqLen
      <4>2. (p \div BlockSize) + 1 \in 1..MaxBlocks
        BY <3>1, <4>1, TokenBlock
      <4>3. PICK j : j = (p \div BlockSize) + 1
        OBVIOUS
      <4>4. CASE j # n
        <5>1. block_id'[<<s, j>>] = block_id[<<s, j>>]
          BY <2>6, <4>2, <4>3, <4>4
        <5>. QED
          BY <1>1, <3>2, <4>3, <5>1 DEF Slot
      <4>5. CASE j = n
        <5>1. kv[cached[h]][p % BlockSize] = SubSeq(tokens[s], 1, p + 1)
          BY <1>1, <1>3, <1>14, <1>16, <2>1, <2>5, <4>1, <4>3, <4>5, DuplicateWritten
        <5>. QED
          BY <1>1, <2>6, <4>3, <4>5, <5>1 DEF Slot
      <4>. QED
        BY <4>4, <4>5
    <3>3. /\ SeqLen(s) <= SeqLen(s)' /\ SubSeq(tokens'[s], 1, SeqLen(s)) = tokens[s] /\ tokens'[s] \in Text
      <4>1. tokens'[s] = tokens[s] /\ SeqLen(s)' = SeqLen(s)
        BY <1>1 DEF SeqLen
      <4>. QED
        BY <1>8, <3>1, <4>1, TextFacts DEF SeqLen
    <3>. QED
      BY ONLY <1>2, <1>3, <2>7, <3>2, <3>3, OwnedKept
  <2>. QED
    BY <2>1, <2>2, <2>3, <2>4, <2>7
<1>. QED
  BY <1>10, <1>12, <1>13, <1>14, <1>15, <1>16 DEF SeqLen

(* A checkpoint is restored at the end of a block of the computed prefix.            *)
LEMMA PlannedKeyAt ==
  ASSUME tokens \in [SeqId -> Text], NEW s \in SeqId, Len(ComputedPrefix(s)) \in Nat,
         KeyFor(s) # NoKey
  PROVE  \E i \in 1..Len(ComputedPrefix(s)) :
           i * BlockSize <= SeqLen(s) /\ Gdn!Boundary(KeyFor(s)) = i * BlockSize
<1>0. BlockSize \in Nat \ {0}
  BY BlockSizeAssumption
<1> DEFINE l == Len(ComputedPrefix(s))
           m == Len(BlockHashes(s))
           c == Gdn!StrictPrefixBlockCount(SeqLen(s))
           d == Gdn!Least(l, Gdn!Least(m, c))
<1>1. SeqLen(s) \in Nat /\ m = SeqLen(s) \div BlockSize /\ m \in Nat
      /\ \A k \in 1..m : BlockHashes(s)[k] = HashAt(s, k)
  <2>1. SeqLen(s) \in Nat
    BY TextFacts DEF SeqLen
  <2>2. SeqLen(s) \div BlockSize \in Nat
    BY <1>0, <2>1, Division
  <2> DEFINE q == SeqLen(s) \div BlockSize
  <2>3. BlockHashes(s) = [k \in 1..q |-> HashAt(s, k)]
    BY DEF BlockHashes
  <2> HIDE DEF q
  <2>4. Len(BlockHashes(s)) = q /\ \A k \in 1..q : BlockHashes(s)[k] = HashAt(s, k)
    BY <2>2, <2>3 DEF q
  <2>. QED
    BY <2>1, <2>2, <2>4 DEF q
<1>2. c \in Nat
  <2>1. SeqLen(s) > 1 => (SeqLen(s) - 1) \div BlockSize \in Nat
    BY <1>0, <1>1, Division
  <2>. QED
    BY <1>1, <2>1 DEF Gdn!StrictPrefixBlockCount
<1> HIDE DEF c
<1>3. d \in Nat /\ d <= l /\ d <= m
  <2> DEFINE e == Gdn!Least(m, c)
  <2>1. e \in Nat /\ e <= m
    BY <1>1, <1>2 DEF Gdn!Least
  <2> HIDE DEF e, m
  <2>2. Gdn!Least(l, e) \in Nat /\ Gdn!Least(l, e) <= l /\ Gdn!Least(l, e) <= m
    BY <1>1, <2>1 DEF Gdn!Least
  <2>. QED
    BY <2>2 DEF e
<1>4. KeyFor(s) \in LiveFor(s)
  <2>1. \A k \in LiveFor(s) : \E i \in 1..d : k = BlockHashes(s)[i]
    BY DEF LiveFor, Gdn!LiveKeys, c
  <2>2. LiveFor(s) \in SUBSET Hash
    <3>1. \A k \in 1..m : BlockHashes(s)[k] \in Hash
      BY Hashes
    <3> HIDE DEF d, m
    <3>2. \A i \in 1..d : i \in 1..m
      BY <1>1, <1>3
    <3>. QED
      BY <2>1, <3>1, <3>2
  <2>3. LiveFor(s) \cap Gdn!Resident(index) \in SUBSET Hash
    BY <2>2
  <2>4. KeyFor(s) \in (LiveFor(s) \cap Gdn!Resident(index)) \cup {NoKey}
    BY <2>3, DeepestKey DEF KeyFor, Gdn!RestoreKey
  <2>. QED
    BY <2>4
<1>5. PICK i \in 1..d : KeyFor(s) = BlockHashes(s)[i]
  <2>1. \A k \in LiveFor(s) : \E i \in 1..d : k = BlockHashes(s)[i]
    BY DEF LiveFor, Gdn!LiveKeys, c
  <2>. QED
    BY <1>4, <2>1
<1> HIDE DEF d
<1>6. i \in Nat \ {0} /\ i <= m /\ i <= l
  BY <1>1, <1>3
<1>7. KeyFor(s) = HashAt(s, i)
  <2> HIDE DEF m
  <2>1. i \in 1..m
    BY <1>1, <1>6
  <2>. QED
    BY <1>1, <1>5, <2>1
<1>8. i * BlockSize <= SeqLen(s)
  <2>1. m * BlockSize <= SeqLen(s) /\ m * BlockSize \in Nat
    <3>1. (SeqLen(s) \div BlockSize) * BlockSize <= SeqLen(s)
      BY <1>0, <1>1, Division
    <3>. QED
      BY <1>1, <3>1, BlockMultiples
  <2> HIDE DEF m
  <2>2. i * BlockSize <= m * BlockSize /\ i * BlockSize \in Nat
    BY <1>1, <1>6, BlockMultiples
  <2> DEFINE v == m * BlockSize
             w == i * BlockSize
  <2>3. v <= SeqLen(s) /\ v \in Nat /\ w <= v /\ w \in Nat
    BY <2>1, <2>2
  <2> HIDE DEF v, w
  <2>4. w <= SeqLen(s)
    BY <1>1, <2>3
  <2>. QED
    BY <2>4 DEF w
<1>9. Depth[HashAt(s, i)] = i
  <2>1. tokens[s] \in Text
    OBVIOUS
  <2>. QED
    BY <1>6, <1>8, <2>1, CutHash DEF SeqLen, HashAt
<1>10. Gdn!Boundary(KeyFor(s)) = i * BlockSize
  BY <1>7, <1>9 DEF Gdn!Boundary
<1>. QED
  BY <1>6, <1>8, <1>10

(* The computed blocks of a table are marked ones.                                  *)
LEMMA ComputedIsMarked ==
  ASSUME AllocInv, TouchedInv, NEW o \in Obj, Allocated(o), IsComputed(block_id[o])
  PROVE  content[o] # NoHash /\ block_id[o] \notin touched
<1>1. PICK b : b = block_id[o]
  OBVIOUS
<1>2. /\ AllocTypeOK /\ RefcountIsHolders /\ BlocksPartitioned /\ b \in Block
  BY <1>1 DEF AllocInv, AllocTypeOK, Allocated
<1>3. refcount[b] # 0
  BY <1>1, <1>2, HoldersOfRefcount
<1>4. active[b] /\ b \notin InEvictor
  BY <1>2, <1>3 DEF BlocksPartitioned
<1>5. computed[b]
  BY <1>1, <1>4 DEF IsComputed
<1>. QED
  BY <1>1, <1>5 DEF TouchedInv, MarksOK

(* The KV before a checkpoint that a prompt is to restore is there.                  *)
LEMMA PlannedKeyOwned ==
  ASSUME SchedulerInv, ClosedInv, MarkedInv, ProgressInv, WrittenOK, phase = "plan", call = Idle,
         NEW s \in SeqId, Planned(s), OnePrompt
  PROVE  (IF KeyFor(s) = NoKey THEN 0 ELSE Gdn!Boundary(KeyFor(s))) \in Owned(s)
<1>0. /\ ManagerInv /\ QueueInv /\ CacheInv /\ AllocInv /\ TouchedInv /\ tokens \in [SeqId -> Text]
      /\ computed_ids \in [SeqId -> Seq(Block)] /\ KnownOK(s) /\ BlockSize \in Nat \ {0}
  BY BlockSizeAssumption DEF SchedulerInv, ClosedInv, MarkedInv, ManagerInv, ManagerTypeOK
<1>1. ~Freeing(s) /\ ~Allocating(s) /\ Place(s)
  BY <1>0, OneCall DEF QueueInv
<1>2. s \in tables /\ status[s] = "prefill"
  BY <1>1 DEF Place, TablePlace, IsLive
<1>3. computed_ids[s] = <<>>
  BY DEF ProgressInv, PlannedOK, Planned
<1>4. CASE KeyFor(s) = NoKey
  BY <1>0, <1>4, NothingOwned
<1>5. CASE KeyFor(s) # NoKey
  <2> DEFINE l == Len(ComputedPrefix(s))
  <2>1. /\ ComputedBlockIds(s) \in Seq(Block)
        /\ Len(ComputedBlockIds(s)) + 1 \in BlocksOf(s)
        /\ \A i \in 1..Len(ComputedBlockIds(s)) :
             i > Len(computed_ids[s]) => IsComputed(block_id[<<s, i>>])
    BY <1>0, <1>1, <1>2, ComputedIdsKnown
  <2>2. l \in Nat /\ (l = 0 \/ l = Len(ComputedBlockIds(s)))
    <3>1. ComputedPrefix(s) = <<>> \/ ComputedPrefix(s) = ComputedBlockIds(s)
      BY <1>3 DEF ComputedPrefix
    <3>. QED
      BY <2>1, <3>1
  <2> HIDE DEF l
  <2>3. PICK i \in 1..l : i * BlockSize <= SeqLen(s) /\ Gdn!Boundary(KeyFor(s)) = i * BlockSize
    BY <1>0, <1>5, <2>2, PlannedKeyAt DEF l
  <2>4. i \in Nat \ {0} /\ l = Len(ComputedBlockIds(s))
    BY <2>2
  <2>5. ASSUME NEW j \in 1..i
        PROVE  /\ HashAt(s, j) \in Hash /\ j * BlockSize <= SeqLen(s)
               /\ BlockWritten(block_id[<<s, j>>], HashAt(s, j))
    <3>1. j \in 1..l /\ j > Len(computed_ids[s]) /\ j <= l + 1
      BY <1>3, <2>2, <2>4
    <3>2. IsComputed(block_id[<<s, j>>])
      BY <2>1, <2>4, <3>1
    <3>3. j \in BlocksOf(s)
      <4>1. PICK n \in Nat : BlocksOf(s) = 1..n
        BY <1>0, <1>1, BlocksInRow
      <4>. QED
        BY <2>1, <2>2, <2>4, <3>1, <4>1
    <3>4. <<s, j>> \in Obj /\ Allocated(<<s, j>>)
      BY <1>0, <3>3, FilledFacts
    <3>5. content[<<s, j>>] # NoHash /\ block_id[<<s, j>>] \notin touched
      BY <1>0, <3>2, <3>4, ComputedIsMarked
    <3>6. /\ HashAt(s, j) \in Hash /\ cached[HashAt(s, j)] = block_id[<<s, j>>]
          /\ j * BlockSize <= Len(tokens[s])
      BY <1>0, <1>1, <3>3, <3>5, FullBlock
    <3>7. block_id[<<s, j>>] # NoBlock
      BY <3>4 DEF Allocated
    <3>8. \A r \in SeqId : status[r] = "prefill" => Planned(r)
      BY <1>2 DEF OnePrompt
    <3>9. BlockWritten(block_id[<<s, j>>], HashAt(s, j))
      BY <3>5, <3>6, <3>7, <3>8 DEF WrittenOK, FreshOK
    <3>. QED
      BY <3>6, <3>9 DEF SeqLen
  <2>6. tokens[s] \in Text /\ i * BlockSize \in Nat /\ SeqLen(s) \in Nat
    BY <1>0, <2>4, TextFacts, BlockMultiples DEF SeqLen
  <2>7. ASSUME NEW p \in 0..(i * BlockSize - 1)
        PROVE  kv[Slot(s, p)[1]][Slot(s, p)[2]] = SubSeq(tokens[s], 1, p + 1)
    <3> DEFINE e == p \div BlockSize
               w == i * BlockSize
    <3>1. p \in Nat /\ p < w /\ w \in Nat
      BY <2>6
    <3>2. PICK j : j = e + 1
      OBVIOUS
    <3>3. e + 1 \in 1..i
      <4> HIDE DEF w
      <4>1. w <= i * BlockSize
        BY <2>6 DEF w
      <4>. QED
        BY <2>4, <3>1, <4>1, BlockOfPosition
    <3>4. BlockWritten(block_id[<<s, j>>], SubSeq(tokens[s], 1, j * BlockSize)) /\ j * BlockSize <= Len(tokens[s])
      <4>1. j \in 1..i
        BY <3>2, <3>3
      <4>. QED
        BY <2>5, <4>1 DEF HashAt, SeqLen
    <3>5. Slot(s, p)[1] = block_id[<<s, j>>] /\ Slot(s, p)[2] = p % BlockSize
      BY <3>2 DEF Slot
    <3>6. PICK b, t : b = block_id[<<s, j>>] /\ t = tokens[s]
      OBVIOUS
    <3>7. kv[b][p % BlockSize] = SubSeq(t, 1, p + 1)
      <4>1. /\ t \in Text /\ p \in Nat /\ j = (p \div BlockSize) + 1 /\ j * BlockSize <= Len(t)
            /\ BlockWritten(b, SubSeq(t, 1, j * BlockSize))
        BY <2>6, <3>1, <3>2, <3>4, <3>6
      <4>. QED
        BY ONLY <4>1, WrittenSlot
    <3>. QED
      BY <3>5, <3>6, <3>7
  <2>8. HasKV(s, i * BlockSize)
    BY <2>7 DEF HasKV
  <2>. QED
    BY <1>5, <2>3, <2>6, <2>8 DEF Owned
<1>. QED
  BY <1>4, <1>5

LEMMA PlanPrefillWritten ==
  ASSUME SchedulerInv, PromptInv, ClosedInv, MarkedInv, ProgressInv, WrittenOK, PlanPrefill
  PROVE  WrittenOK'
<1>0. PICK s : s = Head(waiting)
  OBVIOUS
<1>1. /\ phase = "plan" /\ phase' = "prefill" /\ call = Idle
      /\ restore_key' = [restore_key EXCEPT ![s] = KeyFor(s)]
      /\ UNCHANGED <<block_id, cached, touched, kv, tokens, status, done, sent>>
  BY <1>0 DEF PlanPrefill, KeyFor, LiveFor, allocVars, workerVars, storeVars
<1>2. /\ QueueInv /\ QueueTypeOK /\ PhaseOK /\ tokens \in [SeqId -> Text] /\ KeysOK
  BY DEF SchedulerInv, QueueInv, ManagerInv, ManagerTypeOK, ProgressInv
<1>3. s \in SeqId /\ sent = <<>> /\ Planned(s)
  BY <1>0, <1>1, <1>2, TailList DEF QueueTypeOK, PhaseOK, Planned
<1>4. /\ \A r \in SeqId : ~Planned(r)' /\ (Planned(r) => r = s)
      /\ \A r \in SeqId : IsLive(r)' <=> IsLive(r)
      /\ OnePrompt' <=> OnePrompt
  BY <1>0, <1>1 DEF Planned, IsLive, OnePrompt
<1>5. \A r \in SeqId : restore_key'[r] = IF r = s THEN KeyFor(s) ELSE restore_key[r]
  BY <1>1, <1>2 DEF KeysOK
<1>6. ASSUME NEW r \in SeqId PROVE \A n \in Owned(r) : n \in Owned(r)'
  BY <1>1, <1>2, OwnedSame
<1>7. KeyTokens(s)' \in Owned(s)' \/ ~OnePrompt'
  <2>1. KeyTokens(s)' = IF KeyFor(s) = NoKey THEN 0 ELSE Gdn!Boundary(KeyFor(s))
    <3>1. PICK k : k = KeyFor(s)
      OBVIOUS
    <3>2. restore_key'[s] = k
      BY <1>3, <1>5, <3>1
    <3>3. KeyTokens(s)' = IF k = NoKey THEN 0 ELSE Gdn!Boundary(k)
      BY <3>2 DEF KeyTokens, Gdn!Boundary
    <3>. QED
      BY <3>1, <3>3
  <2>2. OnePrompt => (IF KeyFor(s) = NoKey THEN 0 ELSE Gdn!Boundary(KeyFor(s))) \in Owned(s)
    BY <1>1, <1>3, PlannedKeyOwned
  <2>. QED
    BY <1>3, <1>4, <1>6, <2>1, <2>2
<1>8. HeldOK' /\ RestoredOK' /\ StepOK'
  <2>1. \A r \in SeqId : IsLive(r)' => done'[r] \in Owned(r)'
    BY <1>1, <1>4, <1>6 DEF WrittenOK, HeldOK
  <2>2. \A r \in SeqId : status'[r] = "prefill" /\ ~Planned(r)' =>
           \/ status[r] = "prefill" /\ ~Planned(r) /\ restore_key'[r] = restore_key[r]
           \/ KeyTokens(r)' \in Owned(r)' \/ ~OnePrompt'
    BY <1>1, <1>4, <1>5, <1>7
  <2>3. ToSet(sent') = {} /\ (phase = "output" <=> phase' = "output")
    BY <1>1, <1>3, EmptyList
  <2>. QED
    BY <1>4, <1>6, <2>1, <2>2, <2>3, RequestsWritten
<1>9. ContentOK' /\ FreshOK'
  <2>1. \A r \in SeqId : Pending(r)' = Pending(r)
    BY <1>1 DEF Pending, BlocksOf, Allocated
  <2>2. \A h \in Hash, r \in SeqId : cached[h] # NoBlock /\ IsLive(r) /\ cached[h] \in Pending(r) =>
             /\ IsLive(r)' /\ cached[h] \in Pending(r)'
             /\ status[r] = "prefill" => status'[r] = "prefill" /\ ~Planned(r)'
    BY <1>1, <1>4, <2>1
  <2>. QED
    BY <1>1, <2>2, CacheWritten
<1>. QED
  BY <1>8, <1>9 DEF WrittenOK

(* A group starts where its request has got to, or at the checkpoint it restores. *)
LEMMA MetadataWritten ==
  ASSUME SchedulerInv, PromptInv, ProgressInv, WrittenOK, Metadata
  PROVE  WrittenOK'
<1>0. PICK g : g = Head(batch)
  OBVIOUS
<1>00. PICK s : s = g.seq
  OBVIOUS
<1>1. /\ QueueInv /\ QueueTypeOK /\ tokens \in [SeqId -> Text] /\ KeysOK
      /\ done \in [SeqId -> Int] /\ \A r \in SeqId : DoneOK(r)
  BY DEF SchedulerInv, QueueInv, QueueTypeOK, ManagerInv, ManagerTypeOK, ProgressInv
<1>2. PICK a : /\ sent' = Append(sent, a) /\ a.seq = s
               /\ a.start = IF status[s] = "prefill" THEN StepStart(s) ELSE done[s]
               /\ a.end = IF status[s] = "prefill" THEN StepEnd(g) ELSE done[s] + 1
               /\ a.prompt <=> status[s] = "prefill"
               /\ restore_key' = [restore_key EXCEPT ![s] =
                    IF status[s] = "prefill" /\ a.end >= SeqLen(s) THEN NoKey ELSE @]
  BY <1>0, <1>00, <1>1, MetadataFrame
<1>3. /\ phase = "metadata" /\ phase' \in {"metadata", "dead"} /\ s \in SeqId /\ IsLive(s)
      /\ UNCHANGED <<allocVars, tokens, status, done, kv>>
  BY <1>0, <1>00, <1>1, MetadataFrame DEF IsLive
<1>4. UNCHANGED <<block_id, cached, touched>>
  BY <1>3 DEF allocVars
<1>5. /\ \A r \in SeqId : ~Planned(r) /\ ~Planned(r)' /\ (IsLive(r)' <=> IsLive(r))
      /\ OnePrompt' <=> OnePrompt
  BY <1>3 DEF Planned, IsLive, OnePrompt
<1>6. ASSUME NEW r \in SeqId PROVE \A n \in Owned(r) : n \in Owned(r)'
  BY <1>1, <1>3, <1>4, OwnedSame
<1>7. ToSet(sent') = ToSet(sent) \cup {a}
  <2>1. sent \in Seq(ToSet(sent))
    BY <1>1, QueueFacts
  <2>2. sent \in Seq(ToSet(sent) \cup {a})
    <3>1. Len(sent) \in Nat /\ sent \in [1..Len(sent) -> ToSet(sent)]
      BY <2>1
    <3>2. sent \in [1..Len(sent) -> ToSet(sent) \cup {a}]
      BY <3>1
    <3>. QED
      BY <3>1, <3>2
  <2>. QED
    BY <1>2, <2>2, AppendList
<1>8. StepOwned(a)'
  <2>1. a.start \in Owned(s) \/ (a.prompt /\ ~OnePrompt)
    <3>1. done[s] \in Owned(s)
      BY <1>3 DEF WrittenOK, HeldOK
    <3>2. CASE status[s] = "prefill" /\ done[s] = 0
      <4>1. a.start = KeyTokens(s)
        BY <1>2, <3>2 DEF StepStart, RestoredTokens, RestoredKey, KeyTokens
      <4>. QED
        BY <1>2, <1>3, <1>5, <3>2, <4>1 DEF WrittenOK, RestoredOK
    <3>3. CASE ~(status[s] = "prefill" /\ done[s] = 0)
      BY <1>2, <3>1, <3>3 DEF StepStart
    <3>. QED
      BY <3>2, <3>3
  <2>2. a.start \in Owned(s)' \/ (a.prompt /\ ~OnePrompt')
    BY <1>3, <1>5, <1>6, <2>1
  <2>. QED
    BY <1>2, <1>3, <2>2 DEF StepOwned
<1>9. HeldOK' /\ RestoredOK' /\ StepOK'
  <2>1. ASSUME NEW r \in SeqId, status'[r] = "prefill"
        PROVE  restore_key'[r] = restore_key[r] \/ KeyTokens(r)' \in Owned(r)'
    <3>1. restore_key'[r] = restore_key[r] \/ restore_key'[r] = NoKey
      BY <1>1, <1>2, <1>3 DEF KeysOK
    <3>2. tokens'[r] \in Text
      BY <1>1, <1>3
    <3>3. 0 \in Owned(r)'
      BY <3>2, NothingOwnedNext
    <3>. QED
      BY <3>1, <3>3 DEF KeyTokens
  <2>2. \A f \in ToSet(sent') : (f \in ToSet(sent) /\ IsLive(f.seq)') \/ StepOwned(f)'
    <3>1. \A f \in ToSet(sent) : f.seq \in SeqId /\ IsLive(f.seq)
      BY <1>1, SentLive
    <3>. QED
      BY <1>5, <1>7, <1>8, <3>1
  <2>. QED
    BY <1>3, <1>5, <1>6, <2>1, <2>2, RequestsWritten
<1>10. ContentOK' /\ FreshOK'
  <2>1. \A r \in SeqId : Pending(r)' = Pending(r)
    BY <1>3, <1>4 DEF Pending, BlocksOf, Allocated
  <2>. QED
    BY <1>3, <1>4, <1>5, <2>1, CacheWritten
<1>. QED
  BY <1>9, <1>10 DEF WrittenOK

(* The worker accepts no batch of two prompts.                                       *)
LEMMA LonePrompt ==
  ASSUME QueueInv, PromptInv, phase = "execute", ~WorkerRaises
  PROVE  OnePrompt
<1> SUFFICES ASSUME NEW r \in SeqId, NEW s \in SeqId, status[r] = "prefill", status[s] = "prefill"
             PROVE  r = s
  BY DEF OnePrompt
<1>1. batch = <<>>
  BY DEF QueueInv, PhaseOK
<1>2. ToSet(Seqs(batch)) = {}
  BY <1>1, NoGroups, EmptyList
<1>3. IsPrompted(r) /\ IsPrompted(s)
  BY DEF PromptInv, AllPrompted
<1>4. PICK i \in DOMAIN sent : sent[i].seq = r /\ sent[i].prompt
  BY <1>2, <1>3 DEF IsPrompted
<1>5. PICK j \in DOMAIN sent : sent[j].seq = s /\ sent[j].prompt
  BY <1>2, <1>3 DEF IsPrompted
<1>6. i = j
  BY <1>4, <1>5 DEF WorkerRaises
<1>. QED
  BY <1>4, <1>5, <1>6

(* A slot after the forward pass: a token of the batch was written to it, or none   *)
(* of the batch lies in it.                                                    *)
Lies(s, q, b, i) == block_id[<<s, (q \div BlockSize) + 1>>] = b /\ q % BlockSize = i

LEMMA ExecutedSlot ==
  ASSUME StoreOK, Execute, ~WorkerRaises, NEW b \in Block, NEW i \in 0..(BlockSize - 1)
  PROVE  \/ \E g \in ToSet(sent) : \E q \in g.start..(g.end - 1) :
              Lies(g.seq, q, b, i) /\ kv'[b][i] = SubSeq(tokens[g.seq], 1, q + 1)
         \/ /\ kv'[b][i] = kv[b][i]
            /\ \A g \in ToSet(sent) : \A q \in g.start..(g.end - 1) : ~Lies(g.seq, q, b, i)
<1> DEFINE writes == UNION {Written(sent[n]) : n \in DOMAIN sent}
<1>1. kv' = [c \in Block |-> [n \in DOMAIN kv[c] |->
               IF \E w \in writes : w[1] = <<c, n>>
                 THEN (CHOOSE w \in writes : w[1] = <<c, n>>)[2]
                 ELSE kv[c][n]]]
  BY DEF Execute
<1>2. \A g \in ToSet(sent) : \E n \in DOMAIN sent : g = sent[n]
  BY DEF ToSet
<1>3. \A n \in DOMAIN sent : sent[n] \in ToSet(sent)
  BY DEF ToSet
<1>4. DOMAIN kv[b] = 0..(BlockSize - 1)
  BY DEF StoreOK
<1>5. kv'[b][i] = IF \E w \in writes : w[1] = <<b, i>>
                    THEN (CHOOSE w \in writes : w[1] = <<b, i>>)[2]
                    ELSE kv[b][i]
  <2> HIDE DEF writes
  <2>. QED
    BY <1>1, <1>4
<1>6. ASSUME NEW w \in writes
      PROVE  \E g \in ToSet(sent) : \E q \in g.start..(g.end - 1) :
               w = <<Slot(g.seq, q), SubSeq(tokens[g.seq], 1, q + 1)>>
  <2>1. PICK n \in DOMAIN sent : w \in Written(sent[n])
    OBVIOUS
  <2>. QED
    BY <1>3, <2>1 DEF Written
<1>7. ASSUME NEW g \in ToSet(sent), NEW q \in g.start..(g.end - 1)
      PROVE  <<Slot(g.seq, q), SubSeq(tokens[g.seq], 1, q + 1)>> \in writes
  <2>1. PICK n \in DOMAIN sent : g = sent[n]
    BY <1>2
  <2>. QED
    BY <2>1 DEF Written
<1> HIDE DEF writes
<1>8. \A s, q : Slot(s, q) = <<b, i>> <=> Lies(s, q, b, i)
  BY DEF Slot, Lies
<1>9. CASE \E w \in writes : w[1] = <<b, i>>
  <2>1. PICK w : w = CHOOSE v \in writes : v[1] = <<b, i>>
    OBVIOUS
  <2>2. w \in writes /\ w[1] = <<b, i>>
    BY <1>9, <2>1
  <2>3. kv'[b][i] = w[2]
    BY <1>5, <1>9, <2>1
  <2>4. PICK g \in ToSet(sent) : \E q \in g.start..(g.end - 1) :
               w = <<Slot(g.seq, q), SubSeq(tokens[g.seq], 1, q + 1)>>
    BY <1>6, <2>2
  <2>5. PICK q \in g.start..(g.end - 1) : w = <<Slot(g.seq, q), SubSeq(tokens[g.seq], 1, q + 1)>>
    BY <2>4
  <2>6. Slot(g.seq, q) = <<b, i>> /\ kv'[b][i] = SubSeq(tokens[g.seq], 1, q + 1)
    BY <2>2, <2>3, <2>5
  <2>. QED
    BY <1>8, <2>6
<1>10. CASE ~\E w \in writes : w[1] = <<b, i>>
  <2>1. kv'[b][i] = kv[b][i]
    BY <1>5, <1>10
  <2>2. ASSUME NEW g \in ToSet(sent), NEW q \in g.start..(g.end - 1) PROVE Slot(g.seq, q) # <<b, i>>
    BY <1>7, <1>10
  <2>. QED
    BY <1>8, <2>1, <2>2
<1>. QED
  BY <1>9, <1>10

(* The tokens of the batch lie in tables.                                            *)
LEMMA BatchInTables ==
  ASSUME SchedulerInv, ProgressInv, phase = "execute", call = Idle, NEW g \in ToSet(sent)
  PROVE  /\ g.seq \in tables /\ g.seq \in SeqId /\ Filled(g.seq) = SeqLen(g.seq)
         /\ g.start \in Nat /\ g.end \in Nat /\ g.end <= SeqLen(g.seq) /\ SeqLen(g.seq) \in Nat
<1> DEFINE s == g.seq
<1>1. QueueInv /\ ManagerInv /\ ActionOK(g) /\ tokens \in [SeqId -> Text]
  BY DEF SchedulerInv, ProgressInv, SentOK, ManagerInv, ManagerTypeOK
<1>2. s \in SeqId /\ IsLive(s) /\ s \in ToSet(Seqs(sent))
  BY <1>1, SentLive
<1>3. Place(s) /\ ~Allocating(s)
  BY <1>1, <1>2, OneCall DEF QueueInv
<1>4. s \in tables
  BY <1>2, <1>3 DEF Place, TablePlace
<1>5. InStep(s) /\ SlotsOK(s)
  BY <1>2 DEF InStep, ProgressInv
<1>6. Filled(s) = SeqLen(s)
  BY <1>4, <1>5 DEF SlotsOK, Filled
<1>7. SeqLen(s) \in Nat
  BY <1>1, <1>2, TextFacts DEF SeqLen
<1>. QED
  BY <1>1, <1>2, <1>4, <1>6, <1>7 DEF ActionOK

(* A slot that a filled token of a request lies in keeps that token's KV, or gets   *)
(* it, if a token of the batch lies in it.                                     *)
LEMMA ExecutedToken ==
  ASSUME SchedulerInv, ClosedInv, ProgressInv, StoreOK, Execute, ~WorkerRaises,
         NEW s \in SeqId, s \in tables, NEW p \in Nat, p < Filled(s)
  PROVE  LET b == block_id[<<s, (p \div BlockSize) + 1>>]
             i == p % BlockSize IN
         \/ kv'[b][i] = SubSeq(tokens[s], 1, p + 1)
         \/ /\ kv'[b][i] = kv[b][i]
            /\ \A g \in ToSet(sent) : g.seq = s => p \notin g.start..(g.end - 1)
<1> DEFINE k == (p \div BlockSize) + 1
<1>0. PICK b, i : b = block_id[<<s, k>>] /\ i = p % BlockSize
  OBVIOUS
<1>1. /\ phase = "execute" /\ call = Idle /\ ManagerInv /\ CacheInv /\ AloneOK
  BY DEF Execute, SchedulerInv, ClosedInv, ProgressInv
<1>2. /\ \A r \in SeqId : ~Freeing(r)
  BY <1>1, OneCall
<1>3. Filled(s) = full_slots[s] /\ Filled(s) \in Nat /\ Filled(s) <= Len(tokens[s]) /\ Len(tokens[s]) \in Nat
  BY <1>1, FilledFacts DEF Filled
<1>4. k \in BlocksOf(s) /\ p < Len(tokens[s])
  BY <1>1, <1>3, TableBlock
<1>5. b \in Block
  <2>1. Allocated(<<s, k>>) /\ <<s, k>> \in Obj
    BY <1>1, <1>4, FilledFacts
  <2>. QED
    BY <1>0, <1>1, <2>1 DEF Allocated, ManagerInv, AllocInv, AllocTypeOK
<1>6. i \in 0..(BlockSize - 1)
  BY <1>0, PositionOf
<1> HIDE DEF k
<1>7. ASSUME NEW g \in ToSet(sent), NEW q \in g.start..(g.end - 1), Lies(g.seq, q, b, i)
      PROVE  SubSeq(tokens[g.seq], 1, q + 1) = SubSeq(tokens[s], 1, p + 1)
  <2>1. PICK r : r = g.seq
    OBVIOUS
  <2>2. /\ r \in tables /\ r \in SeqId /\ Filled(r) = SeqLen(r)
        /\ g.start \in Nat /\ g.end \in Nat /\ g.end <= SeqLen(r) /\ SeqLen(r) \in Nat
    BY <1>1, <2>1, BatchInTables
  <2>3. q \in Nat /\ q < Len(tokens[r]) /\ q < full_slots[r]
    BY <2>2 DEF Filled, SeqLen
  <2>4. (q \div BlockSize) + 1 \in BlocksOf(r)
    BY <1>1, <2>2, <2>3, TableBlock
  <2>5. block_id[<<r, (q \div BlockSize) + 1>>] = block_id[<<s, (p \div BlockSize) + 1>>]
        /\ q % BlockSize = p % BlockSize
    BY <1>0, <1>7, <2>1 DEF Lies, k
  <2>6. (p \div BlockSize) + 1 \in BlocksOf(s)
    BY <1>4 DEF k
  <2>7. SubSeq(tokens[r], 1, q + 1) = SubSeq(tokens[s], 1, p + 1)
    BY <1>1, <1>2, <1>4, <2>2, <2>3, <2>4, <2>5, <2>6, SharedSlot
  <2>. QED
    BY <2>1, <2>7
<1>8. \/ \E g \in ToSet(sent) : \E q \in g.start..(g.end - 1) :
           Lies(g.seq, q, b, i) /\ kv'[b][i] = SubSeq(tokens[g.seq], 1, q + 1)
      \/ /\ kv'[b][i] = kv[b][i]
         /\ \A g \in ToSet(sent) : \A q \in g.start..(g.end - 1) : ~Lies(g.seq, q, b, i)
  BY <1>5, <1>6, ExecutedSlot
<1>9. Lies(s, p, b, i)
  BY <1>0 DEF Lies, k
<1>10. \/ kv'[b][i] = SubSeq(tokens[s], 1, p + 1)
       \/ /\ kv'[b][i] = kv[b][i]
          /\ \A g \in ToSet(sent) : g.seq = s => p \notin g.start..(g.end - 1)
  BY <1>7, <1>8, <1>9
<1>. QED
  BY <1>0, <1>10 DEF k

(* The same for the slots of a cached block, by the request that shares it.          *)
LEMMA ExecutedCached ==
  ASSUME SchedulerInv, ClosedInv, ProgressInv, StoreOK, Execute, ~WorkerRaises,
         NEW h \in Hash, cached[h] # NoBlock, BlockWritten(cached[h], h)
  PROVE  BlockWritten(cached[h], h)'
<1>1. /\ phase = "execute" /\ call = Idle /\ ManagerInv /\ CacheInv /\ AllocInv /\ cached' = cached
  BY DEF Execute, SchedulerInv, ClosedInv, ManagerInv, blockVars, allocVars
<1>2. /\ cached[h] \in Block /\ h # NoHash
      /\ \A o \in Obj : block_id[o] = cached[h] => content[o] = h
  BY <1>1, HoldersOfCached
<1>3. PICK b : b = cached[h]
  OBVIOUS
<1>4. ASSUME NEW i \in 0..(BlockSize - 1)
      PROVE  kv'[b][i] = SubSeq(h, 1, Len(h) - BlockSize + i + 1)
  <2>1. kv[b][i] = SubSeq(h, 1, Len(h) - BlockSize + i + 1)
    BY <1>3 DEF BlockWritten
  <2>2. ASSUME NEW g \in ToSet(sent), NEW q \in g.start..(g.end - 1), Lies(g.seq, q, b, i)
        PROVE  SubSeq(tokens[g.seq], 1, q + 1) = SubSeq(h, 1, Len(h) - BlockSize + i + 1)
    <3>1. PICK r : r = g.seq
      OBVIOUS
    <3>2. /\ r \in tables /\ r \in SeqId /\ Filled(r) = SeqLen(r)
          /\ g.start \in Nat /\ g.end \in Nat /\ g.end <= SeqLen(r) /\ SeqLen(r) \in Nat
      BY <1>1, <3>1, BatchInTables
    <3>3. q \in Nat /\ q < Len(tokens[r]) /\ q < full_slots[r] /\ tokens[r] \in Text
      BY <1>1, <3>2, FilledFacts DEF Filled, SeqLen
    <3>4. PICK k : k = (q \div BlockSize) + 1
      OBVIOUS
    <3>5. k \in BlocksOf(r)
      BY <1>1, <3>2, <3>3, <3>4, TableBlock
    <3>6. block_id[<<r, k>>] = b /\ q % BlockSize = i
      BY <2>2, <3>1, <3>4 DEF Lies
    <3>7. <<r, k>> \in Obj
      BY <1>1, <3>2, <3>5, FilledFacts
    <3>8. content[<<r, k>>] = h
      BY <1>2, <1>3, <3>6, <3>7
    <3>9. ~Freeing(r)
      BY <1>1, OneCall
    <3>10. k \in Nat \ {0} /\ k * BlockSize <= Len(tokens[r]) /\ h = SubSeq(tokens[r], 1, k * BlockSize)
      BY <1>1, <1>2, <3>2, <3>5, <3>8, <3>9, FullBlock DEF HashAt
    <3>11. PICK t : t = tokens[r]
      OBVIOUS
    <3>12. /\ t \in Text /\ q \in Nat /\ k = (q \div BlockSize) + 1 /\ k * BlockSize <= Len(t)
           /\ h = SubSeq(t, 1, k * BlockSize)
      BY <3>3, <3>4, <3>10, <3>11
    <3>13. SubSeq(t, 1, q + 1) = SubSeq(h, 1, Len(h) - BlockSize + (q % BlockSize) + 1)
      BY ONLY <3>12, CutOfBlock, ZenonT(60)
    <3>14. SubSeq(tokens[r], 1, q + 1) = SubSeq(h, 1, Len(h) - BlockSize + i + 1)
      BY <3>6, <3>11, <3>13
    <3>. QED
      BY <3>1, <3>14
  <2>3. \/ \E g \in ToSet(sent) : \E q \in g.start..(g.end - 1) :
             Lies(g.seq, q, b, i) /\ kv'[b][i] = SubSeq(tokens[g.seq], 1, q + 1)
        \/ kv'[b][i] = kv[b][i]
    BY <1>2, <1>3, ExecutedSlot
  <2>. QED
    BY <2>1, <2>2, <2>3
<1>. QED
  BY <1>1, <1>3, <1>4 DEF BlockWritten

(* The forward pass writes the tokens it computes and spoils no other's.             *)
LEMMA ExecutedOwned ==
  ASSUME SchedulerInv, ClosedInv, ProgressInv, StoreOK, Execute, ~WorkerRaises,
         NEW s \in SeqId, s \in tables, NEW m \in Owned(s), NEW n \in Int, n <= Filled(s),
         \/ n = m
         \/ \E g \in ToSet(sent) : g.seq = s /\ g.start = m /\ g.end = n
  PROVE  n \in Owned(s)'
<1>1. /\ ManagerInv /\ tokens' = tokens /\ block_id' = block_id
  BY DEF Execute, SchedulerInv, blockVars, allocVars
<1>2. Filled(s) \in Nat /\ Filled(s) <= SeqLen(s) /\ SeqLen(s) \in Nat
  BY <1>1, FilledFacts DEF SeqLen
<1>3. m \in Int /\ HasKV(s, m)
  BY DEF Owned
<1>4. ASSUME NEW p \in 0..(n - 1)
      PROVE  kv'[Slot(s, p)[1]][Slot(s, p)[2]] = SubSeq(tokens[s], 1, p + 1)
  <2>1. p \in Nat /\ p < Filled(s)
    BY <1>2
  <2>2. PICK b, i : b = block_id[<<s, (p \div BlockSize) + 1>>] /\ i = p % BlockSize
    OBVIOUS
  <2>3. Slot(s, p)[1] = b /\ Slot(s, p)[2] = i
    BY <2>2 DEF Slot
  <2>4. \/ kv'[b][i] = SubSeq(tokens[s], 1, p + 1)
        \/ /\ kv'[b][i] = kv[b][i]
           /\ \A g \in ToSet(sent) : g.seq = s => p \notin g.start..(g.end - 1)
    BY <2>1, <2>2, ExecutedToken
  <2>5. CASE p \in 0..(m - 1)
    <3>1. kv[b][i] = SubSeq(tokens[s], 1, p + 1)
      BY <1>3, <2>3, <2>5 DEF HasKV
    <3>. QED
      BY <2>3, <2>4, <3>1
  <2>6. CASE p \notin 0..(m - 1)
    <3>1. PICK g \in ToSet(sent) : g.seq = s /\ g.start = m /\ g.end = n
      BY <2>6
    <3>2. p \in g.start..(g.end - 1)
      BY <1>3, <2>6, <3>1
    <3>. QED
      BY <2>3, <2>4, <3>1, <3>2
  <2>. QED
    BY <2>5, <2>6
<1>5. \A p : Slot(s, p)' = Slot(s, p)
  BY <1>1 DEF Slot
<1>6. HasKV(s, n)'
  BY <1>1, <1>4, <1>5 DEF HasKV
<1>7. n <= SeqLen(s)'
  BY <1>1, <1>2 DEF SeqLen
<1>. QED
  BY <1>6, <1>7 DEF Owned

LEMMA ExecuteWritten ==
  ASSUME SchedulerInv, PromptInv, ClosedInv, ProgressInv, StoreOK, WrittenOK, Execute, ~WorkerRaises
  PROVE  WrittenOK'
<1>1. /\ phase = "execute" /\ phase' = "output" /\ call = Idle
      /\ UNCHANGED <<block_id, cached, tables, tokens, status, waiting, done, sent, restore_key>>
  BY DEF Execute, blockVars, allocVars, managerVars, queueVars, gdnVars
<1>2. /\ QueueInv /\ ManagerInv /\ tokens \in [SeqId -> Text] /\ done \in [SeqId -> Int]
  BY DEF SchedulerInv, QueueInv, QueueTypeOK, ManagerInv, ManagerTypeOK
<1>3. /\ OnePrompt /\ OnePrompt'
      /\ \A s \in SeqId : ~Planned(s) /\ ~Planned(s)' /\ (IsLive(s)' <=> IsLive(s))
  BY <1>1, <1>2, LonePrompt DEF OnePrompt, Planned, IsLive
<1>4. \A s \in SeqId : IsLive(s) => s \in tables
  BY <1>1, <1>2, OneCall DEF QueueInv, Place, TablePlace
<1>5. ASSUME NEW s \in SeqId, IsLive(s)
      PROVE  done[s] <= Filled(s) /\ (status[s] = "prefill" => Filled(s) = SeqLen(s))
  <2>1. s \in tables /\ SeqLen(s) \in Nat /\ done[s] \in Int
    BY <1>2, <1>4, <1>5, TextFacts DEF SeqLen
  <2>2. DoneOK(s) /\ SlotsOK(s) /\ ProgressOK(s)
    BY DEF ProgressInv, PromptInv
  <2>. QED
    BY <1>5, <2>1, <2>2 DEF DoneOK, SlotsOK, ProgressOK, Filled, IsLive
<1>6. HeldOK'
  <2>1. ASSUME NEW s \in SeqId, IsLive(s) PROVE done[s] \in Owned(s)'
    <3>1. done[s] \in Owned(s)
      BY <2>1 DEF WrittenOK, HeldOK
    <3>. QED
      BY <1>2, <1>4, <1>5, <2>1, <3>1, ExecutedOwned
  <2>. QED
    BY <1>1, <1>3, <2>1 DEF HeldOK
<1>7. RestoredOK'
  <2>1. ASSUME NEW s \in SeqId, status[s] = "prefill" PROVE KeyTokens(s)' \in Owned(s)'
    <3>1. PICK n : n = KeyTokens(s)
      OBVIOUS
    <3>2. n \in Owned(s) /\ IsLive(s)
      BY <1>3, <2>1, <3>1 DEF WrittenOK, RestoredOK, IsLive
    <3>3. n \in Int /\ n <= SeqLen(s)
      BY <3>2 DEF Owned
    <3>4. n \in Owned(s)'
      BY <1>4, <1>5, <2>1, <3>2, <3>3, ExecutedOwned
    <3>5. KeyTokens(s)' = n
      BY <1>1, <3>1 DEF KeyTokens
    <3>. QED
      BY <3>4, <3>5
  <2>. QED
    BY <1>1, <2>1 DEF RestoredOK
<1>8. StepOK'
  <2>1. ASSUME NEW g \in ToSet(sent) PROVE g.end \in Owned(g.seq)'
    <3>1. PICK s : s = g.seq
      OBVIOUS
    <3>2. /\ s \in tables /\ s \in SeqId /\ Filled(s) = SeqLen(s) /\ g.end \in Nat /\ g.end <= SeqLen(s)
      BY <1>1, <3>1, BatchInTables
    <3>3. g.start \in Owned(s)
      BY <1>1, <1>3, <3>1 DEF WrittenOK, StepOK, StepOwned
    <3>4. g.end \in Owned(s)'
      BY <3>1, <3>2, <3>3, ExecutedOwned
    <3>. QED
      BY <3>1, <3>4
  <2>. QED
    BY <1>1, <2>1 DEF StepOK, StepOwned
<1>9. ContentOK'
  <2>1. \A s \in SeqId : Pending(s)' = Pending(s)
    BY <1>1 DEF Pending, BlocksOf, Allocated
  <2>2. \A h \in Hash : cached[h] # NoBlock /\ BlockWritten(cached[h], h) => BlockWritten(cached[h], h)'
    BY ExecutedCached
  <2>. QED
    BY <1>1, <1>3, <2>1, <2>2 DEF WrittenOK, ContentOK
<1>10. FreshOK'
  BY <1>1 DEF FreshOK
<1>. QED
  BY <1>6, <1>7, <1>8, <1>9, <1>10 DEF WrittenOK

(* Only the forward pass writes KV, and only where there are slots.                  *)
LEMMA StoreKept ==
  ASSUME StoreOK, [Next]_vars
  PROVE  StoreOK'
<1>1. CASE Execute /\ ~WorkerRaises
  <2>1. \A b \in Block : DOMAIN kv'[b] = DOMAIN kv[b]
    BY <1>1 DEF Execute
  <2>. QED
    BY <2>1 DEF StoreOK
<1>2. CASE ~(Execute /\ ~WorkerRaises)
  <2>1. CASE ManagerStep \/ UNCHANGED vars
    BY <2>1 DEF ManagerStep, vars, engineVars, workerVars, storeVars, StoreOK
  <2>2. ASSUME NEW s \in SeqId, AddRequest(s) \/ Abort(s) PROVE StoreOK'
    BY <2>2 DEF AddRequest, Abort, workerVars, storeVars, StoreOK
  <2>3. CASE StartStep \/ ScheduleRunning \/ Preempt \/ EndRunning
    BY <2>3 DEF StartStep, ScheduleRunning, Preempt, EndRunning, workerVars, storeVars, StoreOK
  <2>4. CASE IgnorePrompt \/ StartPrefill \/ PlanPrefill \/ EndPrefill
    BY <2>4 DEF IgnorePrompt, StartPrefill, PlanPrefill, EndPrefill, workerVars, storeVars, StoreOK
  <2>5. CASE Metadata \/ EndMetadata \/ Execute
    BY <1>2, <2>5 DEF Metadata, EndMetadata, Execute, workerVars, storeVars, StoreOK
  <2>6. CASE ChunkDone \/ Sample \/ Finish \/ EndStep
    BY <2>6 DEF ChunkDone, Sample, Finish, Progress, EndStep, workerVars, storeVars, StoreOK
  <2>. QED
    BY <2>1, <2>2, <2>3, <2>4, <2>5, <2>6 DEF Next
<1>. QED
  BY <1>1, <1>2

LEMMA StartKept ==
  ASSUME SchedulerInv, PromptInv, StartOK, [Next]_vars
  PROVE  StartOK'
<1>1. CASE ManagerStep \/ UNCHANGED vars
  BY <1>1 DEF ManagerStep, vars, engineVars, queueVars, StartOK
<1>2. CASE StartPrefill
  <2>0. PICK s : s = Head(waiting)
    OBVIOUS
  <2>1. phase = "prefill" /\ waiting # <<>> /\ UNCHANGED <<waiting, done>>
    BY <1>2 DEF StartPrefill
  <2>2. QueueInv /\ QueueTypeOK /\ ProgressOK(s)
    BY <2>0, <2>1, TailList DEF SchedulerInv, QueueInv, QueueTypeOK, PromptInv
  <2>3. s \in SeqId /\ s \in ToSet(waiting)
    BY <2>0, <2>1, <2>2, TailList DEF QueueTypeOK
  <2>4. Place(s)
    BY <2>2, <2>3 DEF QueueInv
  <2>5. status[s] = "waiting"
    BY <2>1, <2>3, <2>4 DEF Place, WaitingPlace, Planned
  <2>. QED
    BY <2>0, <2>1, <2>2, <2>5 DEF ProgressOK, StartOK
<1>3. CASE ~(ManagerStep \/ UNCHANGED vars \/ StartPrefill)
  <2>1. ASSUME NEW s \in SeqId, AddRequest(s) \/ Abort(s) PROVE phase' # "plan"
    BY <2>1 DEF AddRequest, Abort
  <2>2. CASE StartStep \/ ScheduleRunning \/ Preempt \/ EndRunning
    BY <2>2 DEF StartStep, ScheduleRunning, Preempt, EndRunning, StartOK
  <2>3. CASE IgnorePrompt \/ PlanPrefill \/ EndPrefill
    BY <2>3 DEF IgnorePrompt, PlanPrefill, EndPrefill, StartOK
  <2>4. CASE Metadata \/ EndMetadata \/ Execute
    BY <2>4 DEF Metadata, EndMetadata, Execute, StartOK
  <2>5. CASE ChunkDone \/ Sample \/ Finish \/ EndStep
    BY <2>5 DEF ChunkDone, Sample, Finish, Progress, EndStep, StartOK
  <2>. QED
    BY <1>3, <2>1, <2>2, <2>3, <2>4, <2>5 DEF Next, StartOK
<1>. QED
  BY <1>1, <1>2, <1>3

(* What has been torn stays torn.                                                    *)
LEMMA TornGrows == ASSUME [Next]_vars PROVE torn \subseteq torn'
<1>1. CASE ManagerStep \/ UNCHANGED vars
  BY <1>1 DEF ManagerStep, vars, engineVars
<1>2. ASSUME NEW s \in SeqId, AddRequest(s) \/ Abort(s) PROVE torn \subseteq torn'
  BY <1>2 DEF AddRequest, Abort, GivesUp
<1>3. CASE StartStep \/ ScheduleRunning \/ Preempt \/ EndRunning
  BY <1>3 DEF StartStep, ScheduleRunning, Preempt, GivesUp, EndRunning
<1>4. CASE IgnorePrompt \/ StartPrefill \/ PlanPrefill \/ EndPrefill
  BY <1>4 DEF IgnorePrompt, StartPrefill, PlanPrefill, EndPrefill
<1>5. CASE Metadata \/ EndMetadata \/ Execute
  BY <1>5 DEF Metadata, EndMetadata, Execute
<1>6. CASE ChunkDone \/ Sample \/ Finish \/ EndStep
  BY <1>6 DEF ChunkDone, Sample, Finish, Progress, EndStep
<1>. QED
  BY <1>1, <1>2, <1>3, <1>4, <1>5, <1>6 DEF Next

LEMMA InitKV == ASSUME Init PROVE KVInv
<1>1. /\ sent = <<>> /\ phase = "idle" /\ \A h \in Hash : cached[h] = NoBlock
      /\ \A s \in SeqId : status[s] = "absent"
      /\ kv = [b \in Block |-> [i \in 0..(BlockSize - 1) |-> <<>>]]
  BY DEF Init, ManagerInit, AllocInit
<1>2. ToSet(sent) = {}
  BY <1>1, EmptyList
<1>3. StoreOK /\ StartOK
  BY <1>1 DEF StoreOK, StartOK
<1>4. WrittenOK
  BY <1>1, <1>2 DEF WrittenOK, ContentOK, FreshOK, HeldOK, RestoredOK, StepOK, IsLive
<1>. QED
  BY <1>3, <1>4 DEF KVInv

LEMMA KVKept ==
  ASSUME SchedulerInv, PromptInv, ClosedInv, MarkedInv, ProgressInv, KVInv, [Next]_vars
  PROVE  KVInv'
<1>1. StoreOK' /\ StartOK'
  BY StoreKept, StartKept DEF KVInv
<1>2. ASSUME torn' = {} PROVE WrittenOK'
  <2>1. WrittenOK /\ StartOK /\ StoreOK
    BY <1>2, TornGrows DEF KVInv
  <2>2. CASE ManagerStep
    BY <2>1, <2>2, ManagerStepWritten
  <2>3. CASE (\E s \in SeqId : AddRequest(s)) \/ IgnorePrompt \/ StartPrefill
    BY <2>1, <2>3, WaitingStepsWritten
  <2>4. CASE (\E s \in SeqId : Abort(s)) \/ Preempt
    BY <1>2, <2>1, <2>4, GivingUpWritten
  <2>5. CASE ScheduleRunning
    BY <1>2, <2>1, <2>5, ScheduleRunningWritten
  <2>6. CASE PlanPrefill
    BY <2>1, <2>6, PlanPrefillWritten
  <2>7. CASE Metadata
    BY <2>1, <2>7, MetadataWritten
  <2>8. CASE Execute /\ ~WorkerRaises
    BY <2>1, <2>8, ExecuteWritten
  <2>9. CASE ChunkDone \/ Sample \/ Finish
    BY <2>1, <2>9, OutputWritten
  <2>10. CASE \/ StartStep \/ EndRunning \/ EndPrefill \/ EndMetadata \/ EndStep
              \/ (Execute /\ WorkerRaises) \/ UNCHANGED vars
    BY <2>1, <2>10, QuietStepsWritten
  <2>. QED
    BY <2>2, <2>3, <2>4, <2>5, <2>6, <2>7, <2>8, <2>9, <2>10 DEF Next
<1>. QED
  BY <1>1, <1>2 DEF KVInv

LEMMA WrittenIsIntact ==
  ASSUME QueueInv, KVInv
  PROVE  KVIntact
<1> SUFFICES ASSUME torn = {} PROVE KVAlwaysIntact
  BY DEF KVIntact
<1>1. WrittenOK
  BY DEF KVInv
<1>2. ASSUME NEW s \in Live PROVE HasKV(s, done[s])
  BY <1>1, <1>2 DEF WrittenOK, HeldOK, Live, IsLive, Owned
<1>3. ASSUME phase = "output", NEW i \in DOMAIN sent PROVE HasKV(sent[i].seq, sent[i].end)
  <2>1. sent[i] \in ToSet(sent)
    BY DEF ToSet
  <2>2. sent[i].end \in Owned(sent[i].seq)
    BY <1>1, <1>3, <2>1 DEF WrittenOK, StepOK, StepOwned
  <2>. QED
    BY <2>2 DEF Owned
<1>. QED
  BY <1>2, <1>3 DEF KVAlwaysIntact

(* Every token that counts as computed has its KV in the slot it is read from, for  *)
(* every number of requests, blocks and steps, until a request gives up its        *)
(* blocks in mid-prefill or a decode takes over a block whose prompt is still       *)
(* being computed: what allocate finds in the cache, what a checkpoint lets a       *)
(* prompt skip and what EndMetadata marks before the forward pass are all written    *)
(* when a forward pass reads them.                                            *)
THEOREM KVStaysIntact == ASSUME SeqsFit PROVE Spec => []KVIntact
<1> DEFINE Inv == PromptInv /\ ClosedInv /\ MarkedInv /\ ProgressInv /\ KVInv
<1>1. Init => Inv
  BY InitPrompts, InitClosed, InitMarks, InitProgress, InitKV
<1>2. SchedulerInv /\ Inv /\ [Next]_vars => Inv'
  <2> SUFFICES ASSUME SchedulerInv, Inv, [Next]_vars PROVE Inv'
    OBVIOUS
  <2>1. PromptInv'
    BY PromptsKept
  <2>2. ClosedInv' /\ MarkedInv'
    BY StampsKept, CacheKept, ClosedStutter, MarksKept, MarksStutter DEF ClosedInv
  <2>3. ProgressInv' /\ KVInv'
    BY ProgressKept, KVKept DEF PromptInv
  <2>. QED
    BY <2>1, <2>2, <2>3
<1>3. SchedulerInv /\ Inv => KVIntact
  BY WrittenIsIntact DEF SchedulerInv
<1> HIDE DEF Inv
<1>. QED
  BY <1>1, <1>2, <1>3, SchedulerInvariant, PTL DEF Spec

------------------------
(* The types.  That a prompt has tokens left while it is one holds for every     *)
(* MaxSeqs and Budget: unlike PromptInv, it needs no SeqsFit.                   *)
LEMMA UnfinishedKept ==
  ASSUME SchedulerInv, ProgressInv, \A s \in SeqId : ProgressOK(s), [Next]_vars
  PROVE  \A s \in SeqId : ProgressOK(s)'
<1>0. /\ ManagerInv /\ QueueInv /\ BudgetInv /\ QueueTypeOK /\ PhaseOK
      /\ tokens \in [SeqId -> Text]
      /\ status \in [SeqId -> {"absent", "waiting", "prefill", "decode"}]
      /\ done \in [SeqId -> Int]
  BY DEF SchedulerInv, QueueInv, ManagerInv, ManagerTypeOK, QueueTypeOK
<1>1. CASE UNCHANGED <<tokens, status, done>>
  BY <1>1 DEF ProgressOK, SeqLen
<1>2. CASE \/ ManagerStep \/ StartStep \/ ScheduleRunning \/ EndRunning \/ PlanPrefill
           \/ EndPrefill \/ Metadata \/ EndMetadata \/ Execute \/ EndStep \/ UNCHANGED vars
  BY <1>1, <1>2 DEF ManagerStep, StartStep, ScheduleRunning, EndRunning, PlanPrefill, EndPrefill,
     Metadata, EndMetadata, Execute, EndStep, vars, engineVars, queueVars
<1>3. CASE \E s \in SeqId : AddRequest(s)
  <2>1. PICK s \in SeqId : AddRequest(s)
    BY <1>3
  <2>2. /\ status[s] = "absent" /\ status' = [status EXCEPT ![s] = "waiting"] /\ UNCHANGED done
        /\ \E t \in Prompts : tokens' = [tokens EXCEPT ![s] = t]
    BY <2>1 DEF AddRequest
  <2>. QED
    BY <1>0, <2>1, <2>2 DEF ProgressOK, SeqLen
<1>4. CASE (\E s \in SeqId : Abort(s)) \/ IgnorePrompt \/ Finish
  <2>1. PICK s : /\ status' = [status EXCEPT ![s] = "absent"] /\ done' = [done EXCEPT ![s] = 0]
                 /\ tokens' = [tokens EXCEPT ![s] = <<>>]
    BY <1>4 DEF Abort, IgnorePrompt, Finish, Leaves
  <2>. QED
    BY <1>0, <2>1 DEF ProgressOK, SeqLen
<1>5. CASE Preempt
  <2>1. PICK s : /\ status' = [status EXCEPT ![s] = "waiting"] /\ done' = [done EXCEPT ![s] = 0]
                 /\ UNCHANGED tokens
    BY <1>5 DEF Preempt
  <2>. QED
    BY <1>0, <2>1 DEF ProgressOK, SeqLen
<1>6. CASE StartPrefill
  <2>0. PICK s : s = Head(waiting)
    OBVIOUS
  <2>1. /\ phase = "prefill" /\ waiting # <<>> /\ NumNewTokens(s) > 0
        /\ status' = [status EXCEPT ![s] = "prefill"] /\ UNCHANGED <<tokens, done>>
    BY <1>6, <2>0 DEF StartPrefill, BudgetAllows
  <2>2. s \in SeqId /\ s \in ToSet(waiting) /\ Place(s)
    BY <1>0, <2>0, <2>1, TailList DEF QueueTypeOK, QueueInv
  <2>3. status[s] = "waiting"
    BY <2>1, <2>2 DEF Place, WaitingPlace, Planned
  <2>4. Remaining \in Nat /\ BlockSize \in Nat \ {0}
    BY <1>0, BudgetAssumption, BlockSizeAssumption DEF Remaining, BudgetInv
  <2>5. done[s] = 0 /\ SeqLen(s) \in Nat
    BY <1>0, <2>2, <2>3, TextFacts DEF ProgressOK, SeqLen
  <2> DEFINE q == Remaining \div BlockSize
  <2>6. (IF Remaining < SeqLen(s) - 0 THEN q * BlockSize ELSE SeqLen(s) - 0) > 0
    BY <2>1, <2>3, <2>5 DEF NumNewTokens
  <2>7. q * BlockSize \in Int /\ q * BlockSize <= Remaining
    BY <2>4, Division
  <2>8. done[s] < SeqLen(s)
    <3> HIDE DEF q
    <3>. QED
      BY <2>4, <2>5, <2>6, <2>7
  <2>. QED
    BY <1>0, <2>1, <2>2, <2>8 DEF ProgressOK, SeqLen
<1>7. CASE ChunkDone \/ Sample
  <2>0. PICK g, s : g = Head(sent) /\ s = g.seq
    OBVIOUS
  <2>1. /\ sent # <<>> /\ done' = [done EXCEPT ![s] = g.end]
        /\ \/ g.end < SeqLen(s) /\ UNCHANGED <<tokens, status>>
           \/ /\ status' = [status EXCEPT ![s] = "decode"]
              /\ \E t \in Text : tokens' = [tokens EXCEPT ![s] = t]
    BY <1>7, <2>0 DEF ChunkDone, Sample, Progress
  <2>2. s \in SeqId /\ IsLive(s)
    BY <1>0, <2>0, <2>1, OutputFrame
  <2>. QED
    BY <1>0, <2>1, <2>2 DEF ProgressOK, SeqLen, IsLive
<1>. QED
  BY <1>2, <1>3, <1>4, <1>5, <1>6, <1>7 DEF Next

(* What the workers and the messages to them hold.                             *)
SlotState == [held : BOOLEAN, upto : Nat, right : BOOLEAN]
WorkerTypeOK ==
  /\ states \subseteq Hash /\ spoilt \subseteq Hash
  /\ \A g \in ToSet(sent) : g.capture \subseteq Hash
  /\ mamba \in [slot : [SeqId -> SlotState], finished : Int, lost : Int]
  /\ \A b \in Block : kv[b] \in [0..(BlockSize - 1) -> Text]

(* A cut text is a text.                                                     *)
LEMMA StepText ==
  ASSUME NEW t \in Text, NEW n \in 0..Len(t)
  PROVE  SubSeq(t, 1, n) \in Text
BY TextAssumption DEF IsPrefixClosed

LEMMA RetiredCache ==
  ASSUME mamba \in [slot : [SeqId -> SlotState], finished : Int, lost : Int], NEW s
  PROVE  /\ Mamba!Retire(mamba, s) \in [slot : [SeqId -> SlotState], finished : Int, lost : Int]
         /\ Mamba!Forget(mamba, s) \in [slot : [SeqId -> SlotState], finished : Int, lost : Int]
<1> DEFINE T == [slot : [SeqId -> SlotState], finished : Int, lost : Int]
           f == [mamba.slot EXCEPT ![s] = Mamba!Zeros]
<1>1. Mamba!Zeros \in SlotState /\ Mamba!Taken(mamba, s) \in Int
  BY DEF Mamba!Zeros, Mamba!Taken, SlotState
<1>2. f \in [SeqId -> SlotState] /\ mamba.finished \in Int /\ mamba.lost \in Int
  BY <1>1
<1>3. /\ Mamba!Retire(mamba, s) =
           [slot |-> f, finished |-> mamba.finished + Mamba!Taken(mamba, s), lost |-> mamba.lost]
      /\ Mamba!Forget(mamba, s) =
           [slot |-> f, finished |-> mamba.finished, lost |-> mamba.lost + Mamba!Taken(mamba, s)]
  <2>1. PICK x, n, m : x = mamba.slot /\ n = mamba.finished /\ m = mamba.lost
    OBVIOUS
  <2>2. mamba = [slot |-> x, finished |-> n, lost |-> m]
    BY <2>1
  <2>3. PICK k : k = Mamba!Taken(mamba, s)
    OBVIOUS
  <2>4. PICK c : c = mamba
    OBVIOUS
  <2>5. /\ c = [slot |-> x, finished |-> n, lost |-> m]
        /\ Mamba!Retire(mamba, s) = [c EXCEPT !.slot[s] = Mamba!Zeros, !.finished = @ + k]
        /\ Mamba!Forget(mamba, s) = [c EXCEPT !.slot[s] = Mamba!Zeros, !.lost = @ + k]
    BY <2>2, <2>3, <2>4 DEF Mamba!Retire, Mamba!Forget
  <2>. QED
    BY ONLY <2>1, <2>3, <2>5 DEF f
<1> HIDE DEF f
<1>. QED
  BY <1>1, <1>2, <1>3

LEMMA ExecuteTypes ==
  ASSUME SchedulerInv, ProgressInv, WorkerTypeOK, Execute
  PROVE  WorkerTypeOK'
<1>0. /\ tokens \in [SeqId -> Text] /\ UNCHANGED <<tokens, sent>>
      /\ sent \in Seq(ToSet(sent)) /\ \A g \in ToSet(sent) : g.seq \in SeqId /\ ActionOK(g)
      /\ \A i \in DOMAIN sent : sent[i] \in ToSet(sent)
  <2>1. QueueInv /\ tokens \in [SeqId -> Text]
    BY DEF SchedulerInv, ManagerInv, ManagerTypeOK
  <2>2. sent \in Seq(ToSet(sent)) /\ \A g \in ToSet(sent) : g.seq \in SeqId
    BY <2>1, QueueFacts
  <2>. QED
    BY <2>1, <2>2, Elements DEF Execute, ProgressInv, SentOK
<1>1. CASE UNCHANGED workerVars
  BY <1>0, <1>1 DEF WorkerTypeOK, workerVars, storeVars
<1>2. CASE ~UNCHANGED workerVars
  <2>1. \A i \in DOMAIN sent : sent[i].capture \subseteq Hash
    BY <1>0 DEF WorkerTypeOK
  <2>2. states' \subseteq Hash
    BY <1>2, <2>1 DEF Execute, WorkerTypeOK
  <2>3. \A g \in ToSet(sent') : g.capture \subseteq Hash
    BY <1>0 DEF WorkerTypeOK
  <2>4. spoilt' \subseteq Hash
    BY <1>2, <2>1 DEF Execute, RunRecurrentLayers, WorkerTypeOK
  <2>5. ASSUME NEW i \in DOMAIN sent PROVE StateAfter(sent[i]) \in SlotState
    <3>1. sent[i].end \in Nat
      BY <1>0 DEF ActionOK
    <3>. QED
      BY <3>1 DEF StateAfter, Mamba!Advance, SlotState
  <2>6. mamba' \in [slot : [SeqId -> SlotState], finished : Int, lost : Int]
    <3>1. CASE UNCHANGED mamba
      BY <3>1 DEF WorkerTypeOK
    <3>2. CASE mamba' = [Mamba!Released(mamba) EXCEPT !.slot = [s \in SeqId |->
             IF \E i \in DOMAIN sent : sent[i].seq = s
               THEN StateAfter(sent[CHOOSE i \in DOMAIN sent : sent[i].seq = s])
               ELSE mamba.slot[s]]]
      <4> DEFINE f == [s \in SeqId |->
             IF \E i \in DOMAIN sent : sent[i].seq = s
               THEN StateAfter(sent[CHOOSE i \in DOMAIN sent : sent[i].seq = s])
               ELSE mamba.slot[s]]
      <4>1. f \in [SeqId -> SlotState]
        <5>1. ASSUME NEW s \in SeqId PROVE f[s] \in SlotState
          BY <2>5 DEF WorkerTypeOK
        <5>. QED
          BY <5>1
      <4> HIDE DEF f
      <4>. QED
        <5>1. mamba' = [Mamba!Released(mamba) EXCEPT !.slot = f]
          BY <3>2 DEF f
        <5>2. mamba \in [slot : [SeqId -> SlotState], finished : Int, lost : Int]
          BY DEF WorkerTypeOK
        <5>3. mamba' = [slot |-> f, finished |-> 0, lost |-> mamba.lost]
          BY <5>1, <5>2 DEF Mamba!Released
        <5>. QED
          BY <4>1, <5>2, <5>3
    <3>. QED
      BY <1>2, <3>1, <3>2 DEF Execute, RunRecurrentLayers
  <2>7. ASSUME NEW b \in Block PROVE kv'[b] \in [0..(BlockSize - 1) -> Text]
    <3> DEFINE writes == UNION {Written(sent[i]) : i \in DOMAIN sent}
    <3>1. kv'[b] = [i \in DOMAIN kv[b] |->
              IF \E w \in writes : w[1] = <<b, i>>
                THEN (CHOOSE w \in writes : w[1] = <<b, i>>)[2] ELSE kv[b][i]]
      BY <1>2 DEF Execute
    <3>2. ASSUME NEW w \in writes PROVE w[2] \in Text
      <4>1. PICK i \in DOMAIN sent : w \in Written(sent[i])
        OBVIOUS
      <4>2. PICK g : g = sent[i]
        OBVIOUS
      <4>3. PICK p \in g.start..(g.end - 1) : w[2] = SubSeq(tokens[g.seq], 1, p + 1)
        BY <4>1, <4>2 DEF Written
      <4>4. /\ tokens[g.seq] \in Text /\ g.start \in Nat /\ g.end \in Nat
            /\ g.end <= Len(tokens[g.seq])
        BY <1>0, <4>2 DEF ActionOK, SeqLen
      <4>5. Len(tokens[g.seq]) \in Nat
        BY <4>4, TextFacts
      <4>. QED
        BY <4>3, <4>4, <4>5, StepText
    <3>3. kv[b] \in [0..(BlockSize - 1) -> Text]
      BY DEF WorkerTypeOK
    <3> HIDE DEF writes
    <3>. QED
      BY <3>1, <3>2, <3>3
  <2>. QED
    BY <2>2, <2>3, <2>4, <2>6, <2>7 DEF WorkerTypeOK
<1>. QED
  BY <1>1, <1>2

LEMMA WorkerTypesKept ==
  ASSUME SchedulerInv, IndexInv, ProgressInv, WorkerTypeOK, [Next]_vars
  PROVE  WorkerTypeOK'
<1>0. /\ ManagerInv /\ QueueInv /\ QueueTypeOK /\ tokens \in [SeqId -> Text]
  BY DEF SchedulerInv, QueueInv, ManagerInv, ManagerTypeOK
<1>1. CASE UNCHANGED <<workerVars, sent>>
  BY <1>1 DEF WorkerTypeOK, workerVars, storeVars
<1>2. CASE \/ ManagerStep \/ StartStep \/ ScheduleRunning \/ Preempt \/ EndRunning \/ StartPrefill
           \/ PlanPrefill \/ EndPrefill \/ EndMetadata \/ EndStep \/ UNCHANGED vars
           \/ \E s \in SeqId : AddRequest(s)
  BY <1>1, <1>2 DEF ManagerStep, StartStep, ScheduleRunning, Preempt, EndRunning, StartPrefill,
     PlanPrefill, EndPrefill, EndMetadata, EndStep, AddRequest, vars, engineVars, workerVars
<1>3. CASE (\E s \in SeqId : Abort(s)) \/ IgnorePrompt
  <2>1. PICK s : mamba' = Mamba!Retire(mamba, s) \/ mamba' = Mamba!Forget(mamba, s)
    BY <1>3 DEF Abort, IgnorePrompt
  <2>2. UNCHANGED <<states, spoilt, kv, sent>>
    BY <1>3 DEF Abort, IgnorePrompt, storeVars
  <2>. QED
    BY <2>1, <2>2, RetiredCache DEF WorkerTypeOK
<1>4. CASE ChunkDone \/ Sample \/ Finish
  <2>1. /\ sent # <<>> /\ sent' = Tail(sent) /\ UNCHANGED <<states, spoilt, kv>>
        /\ UNCHANGED mamba \/ \E s : mamba' = Mamba!Retire(mamba, s)
    BY <1>4 DEF ChunkDone, Sample, Finish, Progress, storeVars
  <2>2. ToSet(sent') \subseteq ToSet(sent)
    BY <1>0, <2>1, QueueFacts, TailList
  <2>. QED
    BY <2>1, <2>2, RetiredCache DEF WorkerTypeOK
<1>5. CASE Metadata
  <2>0. PICK g, s : g = Head(batch) /\ s = g.seq
    OBVIOUS
  <2>1. /\ g \in Group /\ s \in SeqId
        /\ \E a : /\ sent' = Append(sent, a)
                  /\ a = IF status[s] = "prefill" THEN PrefillActions(g) ELSE DecodeActions(g)
    BY <1>0, <1>5, <2>0, MetadataFrame
  <2>2. PICK a : /\ sent' = Append(sent, a)
                 /\ a = IF status[s] = "prefill" THEN PrefillActions(g) ELSE DecodeActions(g)
    BY <2>1
  <2>3. Captures(g) \subseteq Hash
    <3>1. FewKeys(targets[g.seq])
      BY <2>0, <2>1 DEF IndexInv
    <3>. QED
      BY <1>0, <2>1, <3>1, FewCaptures DEF FewKeys
  <2>4. a.capture \subseteq Hash
    BY <2>2, <2>3 DEF PrefillActions, DecodeActions
  <2>5. \A h \in ToSet(sent') : h \in ToSet(sent) \/ h = a
    <3>1. sent \in Seq(ToSet(sent) \cup {a})
      BY <1>0, QueueFacts
    <3>. QED
      BY <2>2, <3>1, AppendList
  <2>6. UNCHANGED workerVars
    BY <1>5 DEF Metadata
  <2>. QED
    BY <2>4, <2>5, <2>6 DEF WorkerTypeOK, workerVars, storeVars
<1>6. CASE Execute
  BY <1>6, ExecuteTypes
<1>. QED
  BY <1>2, <1>3, <1>4, <1>5, <1>6 DEF Next

LEMMA InitWorkers == ASSUME Init PROVE WorkerTypeOK
<1>1. /\ sent = <<>> /\ states = {} /\ spoilt = {} /\ mamba = Mamba!EmptyCache
      /\ \A b \in Block : kv[b] = [i \in 0..(BlockSize - 1) |-> <<>>]
  BY DEF Init
<1>2. <<>> \in Text
  BY TextAssumption
<1>. QED
  BY <1>1, <1>2, EmptyList DEF WorkerTypeOK, Mamba!EmptyCache, Mamba!Zeros, SlotState

LEMMA InvariantsAreTyped ==
  ASSUME SchedulerInv, IndexInv, MarkedInv, ProgressInv, \A s \in SeqId : ProgressOK(s), WorkerTypeOK
  PROVE  TypeOK
<1>1. /\ AllocTypeOK /\ tokens \in [SeqId -> Text] /\ tables \subseteq SeqId /\ call \in Calls
      /\ QueueTypeOK
  BY DEF SchedulerInv, ManagerInv, ManagerTypeOK, AllocInv, QueueInv
<1>2. ASSUME NEW s \in SeqId PROVE done[s] \in 0..SeqLen(s)
  <2>1. SeqLen(s) \in Nat /\ done[s] \in Int
    BY <1>1, TextFacts DEF SeqLen, QueueTypeOK
  <2>2. status[s] \in {"absent", "waiting", "prefill", "decode"}
    BY <1>1 DEF QueueTypeOK
  <2>3. DoneOK(s) /\ ProgressOK(s)
    BY DEF ProgressInv
  <2>. QED
    BY <2>1, <2>2, <2>3 DEF DoneOK, ProgressOK
<1>3. \A s \in SeqId : /\ computed_ids[s] \in Seq(Block)
                       /\ restore_key[s] \in Hash \cup {NoKey} /\ targets[s] \subseteq Hash
  BY DEF MarkedInv, ProgressInv, KeysOK, IndexInv, FewKeys
<1>4. /\ index \in Seq(Hash) /\ states \subseteq Hash /\ spoilt \subseteq Hash
      /\ \A s \in SeqId : mamba.slot[s] \in [held : BOOLEAN, upto : Nat, right : BOOLEAN]
      /\ \A b \in Block : kv[b] \in [0..(BlockSize - 1) -> Text]
  BY DEF IndexInv, IndexOK, WorkerTypeOK, SlotState
<1>. QED
  BY <1>1, <1>2, <1>3, <1>4 DEF TypeOK, QueueTypeOK

(* Every variable of the engine step keeps its type, whatever MaxSeqs and Budget  *)
(* are: no request counts more tokens than it has, and what the workers hold are   *)
(* prefixes of texts and whole-block keys.                                     *)
THEOREM SchedulerTyped == Spec => []TypeOK
<1> DEFINE Inv == /\ IndexInv /\ ClosedInv /\ MarkedInv /\ ProgressInv
                  /\ (\A s \in SeqId : ProgressOK(s)) /\ WorkerTypeOK
<1>1. Init => Inv
  BY InitIndex, InitClosed, InitMarks, InitProgress, InitPrompts, InitWorkers DEF PromptInv
<1>2. SchedulerInv /\ Inv /\ [Next]_vars => Inv'
  <2> SUFFICES ASSUME SchedulerInv, Inv, [Next]_vars PROVE Inv'
    OBVIOUS
  <2>1. IndexInv'
    BY QuietSteps, PlanPrefillIndex, EndPrefillIndex, MetadataIndex, ExecuteIndex DEF Next
  <2>2. ClosedInv' /\ MarkedInv'
    BY StampsKept, CacheKept, ClosedStutter, MarksKept, MarksStutter DEF ClosedInv
  <2>3. ProgressInv' /\ \A s \in SeqId : ProgressOK(s)'
    BY ProgressKept, UnfinishedKept
  <2>4. WorkerTypeOK'
    BY WorkerTypesKept
  <2>. QED
    BY <2>1, <2>2, <2>3, <2>4
<1>3. SchedulerInv /\ Inv => TypeOK
  BY InvariantsAreTyped
<1> HIDE DEF Inv
<1>. QED
  BY <1>1, <1>2, <1>3, SchedulerInvariant, PTL DEF Spec

------------------------
(* One request at a time, as src/run_on_real_machine.sh starts the server        *)
(* (--max-num-seqs 1).  can_append_slots asks for a free block even where the     *)
(* token fits into the last one: a table may not hold all blocks.  One prompt     *)
(* captures up to two keys in a step: an index for two of them could drop the key  *)
(* that the prompt is about to restore.                                        *)
SoleRequest == MaxSeqs = 1 /\ MaxBlocks < Cardinality(Block) /\ Capacity # 2

InSent(s) == s \in ToSet(Seqs(sent))

(* The checkpoint a prompt shall restore is the most recent of the index and lies  *)
(* inside the computed prefix that the prompt was planned with.                  *)
KeyReady(s) ==
  restore_key[s] # NoKey =>
    /\ index # <<>> /\ index[Len(index)] = restore_key[s]
    /\ Gdn!Boundary(restore_key[s]) <= Len(computed_ids[s]) * BlockSize

(* A prompt that has computed nothing is on its way to the worker.               *)
StartedOK == \A s \in SeqId : status[s] = "prefill" /\ done[s] = 0 /\ ~InSent(s) =>
  Planned(s) \/ (phase \in {"prefill", "metadata"} /\ KeyReady(s))

RestoresOK == phase \in {"metadata", "execute"} => \A g \in ToSet(sent) :
  /\ g.restore # NoKey => g.restore \in states \ g.evict /\ g.start = Gdn!Boundary(g.restore)
  /\ g.restore = NoKey => g.start = done[g.seq]

(* The slot of a running request is its recurrent state, all others are zeros.    *)
SlotOK(s) ==
  IF ~IsLive(s) THEN mamba.slot[s] = Mamba!Zeros
  ELSE /\ mamba.slot[s].right
       /\ IF phase = "output" /\ InSent(s)
            THEN \A g \in ToSet(sent) : g.seq = s => mamba.slot[s].upto = g.end
            ELSE mamba.slot[s].upto = done[s]
MambaOK == HybridModel => spoilt = {} /\ mamba.lost = 0 /\ \A s \in SeqId : SlotOK(s)

LoneInv == phase # "dead" /\ StartedOK /\ RestoresOK /\ MambaOK

(* Never two running requests, in whichever list they are.                       *)
LEMMA OneLive ==
  ASSUME QueueInv, CountOK, PlannedAlone, MaxSeqs = 1,
         NEW r \in SeqId, NEW s \in SeqId, IsLive(r), IsLive(s)
  PROVE  r = s
<1>1. PICK a, b, c : /\ a = Seqs(scheduled.decode) /\ b = Seqs(scheduled.prefill)
                     /\ c = Seqs(scheduled.new)
  OBVIOUS
<1>2. /\ running \in Seq(SeqId) /\ a \in Seq(SeqId) /\ b \in Seq(SeqId) /\ c \in Seq(SeqId)
  BY <1>1, QueueFacts
<1>3. /\ Len(running) \in Nat /\ Len(a) \in Nat /\ Len(b) \in Nat /\ Len(c) \in Nat
      /\ NumScheduled = Len(a) + Len(b) + Len(c)
  <2>1. Len(a) = Len(scheduled.decode) /\ Len(b) = Len(scheduled.prefill) /\ Len(c) = Len(scheduled.new)
    BY <1>1, QueueFacts, GroupList DEF Group
  <2>. QED
    BY <2>1, GroupCounts DEF NumScheduled
<1>4. \A x \in SeqId : IsLive(x) /\ ~Planned(x) =>
        x \in ToSet(running) \/ x \in ToSet(a) \/ x \in ToSet(b) \/ x \in ToSet(c)
  BY <1>1 DEF QueueInv, Place, RunningPlace, InScheduled
<1>5. CASE phase = "plan"
  <2>1. running = <<>> /\ Len(a) = 0 /\ Len(b) = 0 /\ Len(c) = 0
    BY <1>3, <1>5 DEF PlannedAlone
  <2>2. a = <<>> /\ b = <<>> /\ c = <<>>
    BY <1>2, <2>1, Lengths
  <2>3. \A x \in SeqId : IsLive(x) => Planned(x)
    BY <1>4, <2>1, <2>2, EmptyList
  <2>. QED
    BY <2>3 DEF Planned
<1>6. CASE phase # "plan"
  <2>1. PICK p : p = running \o a
    OBVIOUS
  <2>2. PICK u : u = p \o b
    OBVIOUS
  <2>3. PICK q : q = u \o c
    OBVIOUS
  <2>4. p \in Seq(SeqId) /\ ToSet(p) = ToSet(running) \cup ToSet(a) /\ Len(p) = Len(running) + Len(a)
    <3>1. p \in Seq(SeqId) /\ ToSet(p) = ToSet(running) \cup ToSet(a)
      BY <1>2, <2>1, ConcatList
    <3>2. Len(p) = Len(running) + Len(a)
      BY <1>2, <2>1, Lengths
    <3>. QED
      BY <3>1, <3>2
  <2>5. u \in Seq(SeqId) /\ ToSet(u) = ToSet(p) \cup ToSet(b) /\ Len(u) = Len(p) + Len(b)
    <3>1. u \in Seq(SeqId) /\ ToSet(u) = ToSet(p) \cup ToSet(b)
      BY <1>2, <2>2, <2>4, ConcatList
    <3>2. Len(u) = Len(p) + Len(b)
      BY <1>2, <2>2, <2>4, Lengths
    <3>. QED
      BY <3>1, <3>2
  <2>6. q \in Seq(SeqId) /\ ToSet(q) = ToSet(u) \cup ToSet(c) /\ Len(q) = Len(u) + Len(c)
    <3>1. q \in Seq(SeqId) /\ ToSet(q) = ToSet(u) \cup ToSet(c)
      BY <1>2, <2>3, <2>5, ConcatList
    <3>2. Len(q) = Len(u) + Len(c)
      BY <1>2, <2>3, <2>5, Lengths
    <3>. QED
      BY <3>1, <3>2
  <2>7. Len(q) \in Nat /\ Len(q) <= 1
    BY <1>3, <2>4, <2>5, <2>6 DEF CountOK
  <2>8. r \in ToSet(q) /\ s \in ToSet(q)
    BY <1>4, <1>6, <2>4, <2>5, <2>6 DEF Planned
  <2>9. (\E i \in 1..Len(q) : q[i] = r) /\ (\E j \in 1..Len(q) : q[j] = s)
    BY <2>6, <2>8, Elements
  <2>. QED
    BY <2>7, <2>9
<1>. QED
  BY <1>5, <1>6

(* ... whose table leaves a block to append to.                                *)
LEMMA NeverPreempts ==
  ASSUME SoleRequest, SchedulerInv, PromptInv, ProgressInv, phase = "running", call = Idle,
         running # <<>>, NEW s, s = Head(running)
  PROVE  CanAppendSlots(s)
<1>0. /\ ManagerInv /\ QueueInv /\ AllocInv /\ BlockSize \in Nat \ {0} /\ MaxBlocks \in Nat
      /\ tokens \in [SeqId -> Text]
  BY BlockSizeAssumption, MaxBlocksAssumption DEF SchedulerInv, ManagerInv, ManagerTypeOK
<1>1. s \in SeqId /\ s \in ToSet(running)
  BY <1>0, QueueFacts, TailList
<1>2. IsLive(s) /\ s \in tables
  BY <1>0, <1>1, OneCall DEF QueueInv, Place, RunningPlace, TablePlace
<1>3. /\ full_slots[s] \in Nat /\ SeqLen(s) \in Nat
      /\ full_slots[s] = SeqLen(s) \/ full_slots[s] = SeqLen(s) - 1
  BY <1>0, <1>1, <1>2, TextFacts DEF ProgressInv, SlotsOK, ManagerInv, ManagerTypeOK, SeqLen
<1>4. Touched(s) \in Int /\ Touched(s) <= 1
  <2> DEFINE f == full_slots[s]
             x == Unseen(s) - (BlockSize - (f % BlockSize))
             q == (-x) \div BlockSize
  <2>1. f % BlockSize \in 0..(BlockSize - 1)
    BY <1>0, <1>3, SMT
  <2>2. x \in Int /\ -x >= 0
    BY <1>0, <1>3, <2>1 DEF Unseen, SeqLen
  <2>3. q \in Int /\ q >= 0
    <3> HIDE DEF x
    <3>. QED
      BY <1>0, <2>2, SMT
  <2>4. Touched(s) = 1 + (-q)
    BY DEF Touched, Cdiv
  <2> HIDE DEF q
  <2>. QED
    BY <2>3, <2>4
<1>5. NumFreeBlocks \in Nat /\ NumFreeBlocks # 0
  <2>1. NumFreeBlocks \in Nat
    BY <1>0, FreeCounts
  <2>2. ASSUME NumFreeBlocks = 0 PROVE FALSE
    <3>1. free = {} /\ InEvictor = {}
      <4>1. Cardinality(free) = 0 /\ Cardinality(InEvictor) = 0
        BY <1>0, <2>2, FreeCounts DEF NumFreeBlocks
      <4>. QED
        BY <1>0, <4>1, FreeCounts, FS_EmptySet
    <3> DEFINE K == BlocksOf(s)
               f == [k \in K |-> block_id[<<s, k>>]]
    <3>2. ASSUME NEW b \in Block PROVE \E k \in K : block_id[<<s, k>>] = b
      <4>1. refcount[b] # 0
        BY <1>0, <3>1 DEF AllocInv, BlocksPartitioned
      <4>2. Holders(b) # {}
        BY <1>0, <4>1, FS_EmptySet DEF AllocInv, RefcountIsHolders
      <4>3. PICK o \in Obj : block_id[o] = b
        BY <4>2 DEF Holders
      <4>4. PICK r \in SeqId, k \in 1..MaxBlocks : o = <<r, k>>
        BY ObjAssumption
      <4>5. k \in BlocksOf(r)
        BY <4>3, <4>4, NoBlockAssumption DEF BlocksOf, Allocated
      <4>6. r \in tables
        BY <1>0, <4>5, OneCall DEF ManagerInv, SeqOK, NoTableOK, Busy
      <4>7. IsLive(r)
        BY <1>0, <4>6 DEF QueueInv, Place, TablePlace
      <4>8. r = s
        BY <1>0, <1>1, <1>2, <4>7, OneLive DEF PromptInv, SoleRequest
      <4>. QED
        BY <4>3, <4>4, <4>5, <4>8
    <3>3. ASSUME NEW k \in K PROVE block_id[<<s, k>>] \in Block
      <4>1. <<s, k>> \in Obj /\ block_id[<<s, k>>] # NoBlock
        BY <1>1, ObjectOf DEF BlocksOf, Allocated
      <4>. QED
        BY <1>0, <4>1 DEF AllocInv, AllocTypeOK
    <3>4. f \in Surjection(K, Block)
      BY <3>2, <3>3 DEF Surjection
    <3>5. IsFiniteSet(K) /\ Cardinality(K) <= MaxBlocks /\ Cardinality(K) \in Nat
      <4>1. IsFiniteSet(1..MaxBlocks) /\ Cardinality(1..MaxBlocks) <= MaxBlocks
        BY <1>0, FS_Interval
      <4>2. K \in SUBSET (1..MaxBlocks)
        BY DEF BlocksOf
      <4> HIDE DEF K
      <4>3. IsFiniteSet(K) /\ Cardinality(K) <= Cardinality(1..MaxBlocks)
        BY <4>1, <4>2, FS_Subset
      <4>. QED
        BY <1>0, <4>1, <4>3, FS_CardinalityType
    <3> HIDE DEF K, f
    <3>6. IsFiniteSet(Block) /\ Cardinality(Block) <= Cardinality(K)
      BY <3>4, <3>5, FS_Surjection
    <3>7. Cardinality(Block) \in Nat
      BY <3>6, FS_CardinalityType
    <3>. QED
      BY <1>0, <3>5, <3>6, <3>7 DEF SoleRequest
  <2>. QED
    BY <2>1, <2>2
<1>. QED
  BY <1>4, <1>5 DEF CanAppendSlots

AtMostOne == \A r, s \in SeqId : IsLive(r) /\ IsLive(s) => r = s

LEMMA OneLiveNext == (QueueInv /\ CountOK /\ PlannedAlone /\ MaxSeqs = 1)' => AtMostOne'
<1>1. QueueInv /\ CountOK /\ PlannedAlone /\ MaxSeqs = 1 => AtMostOne
  BY OneLive DEF AtMostOne
<1>. QED
  BY <1>1, PTL

LEMMA StartedSame ==
  ASSUME StartedOK,
         \A s \in SeqId : status'[s] = "prefill" /\ done'[s] = 0 /\ ~InSent(s)' =>
           status[s] = "prefill" /\ done[s] = 0 /\ ~InSent(s) /\ ~Planned(s),
         phase \in {"prefill", "metadata"} =>
           phase' \in {"prefill", "metadata"} /\ UNCHANGED <<restore_key, index, computed_ids>>
  PROVE  StartedOK'
BY DEF StartedOK, KeyReady

LEMMA ManagerStepStarted ==
  ASSUME QueueInv, StartedOK, ManagerStep, computed_ids \in [SeqId -> Seq(Block)]
  PROVE  StartedOK'
<1>1. UNCHANGED <<status, done, sent, phase, waiting, restore_key, index>>
  BY DEF ManagerStep, engineVars, queueVars, gdnVars
<1>2. ASSUME NEW s \in SeqId, ~Planned(s) PROVE computed_ids'[s] = computed_ids[s]
  <2>1. ~Allocating(s)
    BY <1>2 DEF QueueInv, Place, TablePlace
  <2>2. PICK r \in SeqId : AllocateNextBlock(r) \/ AllocateEnd(r) \/ FreeNextBlock(r) \/ FreeEnd(r)
    BY DEF ManagerStep, CallStep
  <2>. QED
    BY <2>1, <2>2 DEF AllocateNextBlock, AllocateEnd, FreeNextBlock, FreeEnd, managerVars
<1>. QED
  BY <1>1, <1>2 DEF StartedOK, KeyReady, Planned, InSent

LEMMA PlannedReady ==
  ASSUME SchedulerInv, IndexInv, ClosedInv, MarkedInv, ProgressInv, PlanPrefill, NEW s, s = Head(waiting)
  PROVE  KeyReady(s)'
<1>0. /\ ManagerInv /\ QueueInv /\ tokens \in [SeqId -> Text] /\ IndexOK(index)
      /\ computed_ids \in [SeqId -> Seq(Block)] /\ restore_key \in [SeqId -> Hash \cup {NoKey}]
      /\ restore_key' = [restore_key EXCEPT ![s] = KeyFor(s)]
  BY DEF SchedulerInv, ManagerInv, ManagerTypeOK, IndexInv, MarkedInv, PlanPrefill, KeyFor, LiveFor,
     ProgressInv, KeysOK
<1>1. /\ s \in SeqId /\ Planned(s) /\ s \in tables /\ ~Freeing(s)
  <2>1. waiting # <<>> /\ phase = "plan" /\ call = Idle
    BY <1>0 DEF PlanPrefill, QueueInv, PhaseOK
  <2>2. s \in SeqId
    BY <1>0, <2>1, QueueFacts, TailList
  <2>. QED
    BY <1>0, <2>1, <2>2, OneCall DEF Planned, QueueInv, Place, TablePlace, IsLive
<1>2. computed_ids'[s] = ComputedPrefix(s) /\ ComputedPrefix(s) \in Seq(Block)
  <2>1. ComputedBlockIds(s) \in Seq(Block)
    BY <1>0, <1>1, ComputedIdsKnown DEF ClosedInv, MarkedInv
  <2>. QED
    BY <1>0, <1>1, <2>1 DEF PlanPrefill, UpdateComputedPrefix, ComputedPrefix
<1>3. CASE restore_key'[s] # NoKey
  <2>1. PICK k : k = KeyFor(s)
    OBVIOUS
  <2>2. restore_key'[s] = k /\ k # NoKey /\ k \in Hash
    <3>1. KeyFor(s) \in Hash \cup {NoKey}
      BY <1>0, <1>1, PlannedKeys
    <3>2. restore_key'[s] = k
      BY <1>0, <1>1, <2>1
    <3>. QED
      BY <1>3, <2>1, <3>1, <3>2
  <2>3. index' = Gdn!MovedToEnd(index, k)
    BY <2>1, <2>2 DEF PlanPrefill, KeyFor, LiveFor, Gdn!AfterRestore
  <2>4. index' # <<>> /\ index'[Len(index')] = k
    <3>1. index' \in Seq(Hash) /\ Len(index') > 0 /\ index'[Len(index')] = k
      <4>1. index \in Seq(Hash) /\ IsInjective(index)
        BY <1>0 DEF IndexOK
      <4> DEFINE m == Gdn!MovedToEnd(index, k)
      <4>2. /\ m \in Seq(Hash) /\ IsInjective(m) /\ ToSet(m) = ToSet(index) \cup {k}
            /\ Len(m) = IF k \in ToSet(index) THEN Len(index) ELSE Len(index) + 1
            /\ Len(m) > 0 /\ m[Len(m)] = k
        BY <2>2, <4>1, MovedKey
      <4> HIDE DEF m
      <4>3. index' = m
        BY <2>3 DEF m
      <4>. QED
        BY <4>2, <4>3
    <3>. QED
      BY <3>1, Lengths
  <2>5. Gdn!Boundary(k) <= Len(computed_ids'[s]) * BlockSize
    <3>1. Len(ComputedPrefix(s)) \in Nat /\ BlockSize \in Nat
      BY <1>2, BlockSizeAssumption
    <3>2. PICK i \in 1..Len(ComputedPrefix(s)) : Gdn!Boundary(k) = i * BlockSize
      BY <1>0, <1>1, <2>1, <2>2, <3>1, PlannedKeyAt
    <3>. QED
      BY <1>2, <3>1, <3>2, BlockMultiples
  <2>. QED
    BY <2>2, <2>4, <2>5 DEF KeyReady, Gdn!Boundary
<1>. QED
  BY <1>3 DEF KeyReady

LEMMA StartedKept ==
  ASSUME SoleRequest, SchedulerInv, SchedulerInv', IndexInv, PromptInv, PromptInv', ClosedInv, MarkedInv,
         ProgressInv, StartedOK, Next
  PROVE  StartedOK'
<1>0. /\ ManagerInv /\ QueueInv /\ QueueTypeOK /\ PhaseOK /\ QueueInv'
      /\ status \in [SeqId -> {"absent", "waiting", "prefill", "decode"}] /\ done \in [SeqId -> Int]
  BY DEF SchedulerInv, QueueInv, QueueTypeOK
<1>1. CASE ManagerStep
  BY <1>0, <1>1, ManagerStepStarted DEF MarkedInv
<1>2. CASE StartStep \/ ScheduleRunning \/ EndRunning \/ EndPrefill \/ Execute \/ EndStep
  <2>1. /\ UNCHANGED <<status, done, sent>> /\ phase # "plan" /\ phase # "metadata"
        /\ phase = "prefill" => phase' = "metadata" /\ UNCHANGED <<restore_key, index, computed_ids>>
    BY <1>2 DEF StartStep, ScheduleRunning, EndRunning, EndPrefill, Execute, EndStep, queueVars,
       gdnVars, blockVars, managerVars
  <2>. QED
    BY <2>1, StartedSame DEF InSent, Planned
<1>3. CASE (\E s \in SeqId : AddRequest(s) \/ Abort(s)) \/ Preempt \/ IgnorePrompt
  <2>1. /\ \E r, x : x # "prefill" /\ status' = [status EXCEPT ![r] = x]
                     /\ (done' = done \/ done' = [done EXCEPT ![r] = 0])
        /\ UNCHANGED <<sent, phase>> /\ phase # "plan" /\ phase # "metadata"
        /\ phase = "prefill" => UNCHANGED <<restore_key, index, computed_ids>>
    <3>1. CASE \E s \in SeqId : AddRequest(s) \/ Abort(s)
      <4>1. PICK s \in SeqId : AddRequest(s) \/ Abort(s)
        BY <3>1
      <4>2. /\ status' = [status EXCEPT ![s] = "waiting"] \/ status' = [status EXCEPT ![s] = "absent"]
            /\ done' = done \/ done' = [done EXCEPT ![s] = 0]
        BY <4>1 DEF AddRequest, Abort, Leaves
      <4>3. UNCHANGED <<sent, phase>> /\ phase \notin {"plan", "metadata", "prefill"}
        BY <4>1 DEF AddRequest, Abort, Leaves
      <4>. QED
        BY <4>2, <4>3
    <3>2. CASE Preempt
      BY <3>2 DEF Preempt, gdnVars, blockVars, managerVars
    <3>3. CASE IgnorePrompt
      BY <3>3 DEF IgnorePrompt, Leaves, gdnVars, blockVars, managerVars
    <3>. QED
      BY <1>3, <3>1, <3>2, <3>3
  <2>2. PICK r, x : x # "prefill" /\ status' = [status EXCEPT ![r] = x]
                    /\ (done' = done \/ done' = [done EXCEPT ![r] = 0])
    BY <2>1
  <2>. QED
    BY <1>0, <2>1, <2>2, StartedSame DEF InSent, Planned
<1>4. CASE StartPrefill
  <2>1. PICK s : s = Head(waiting)
    OBVIOUS
  <2>2. /\ s \in SeqId /\ status' = [status EXCEPT ![s] = "prefill"] /\ phase' = "plan" /\ s = Head(waiting')
    BY <1>0, <1>4, <2>1, QueueFacts, TailList DEF StartPrefill
  <2>3. \A r \in SeqId : IsLive(r)' => r = s
    <3>1. IsLive(s)'
      BY <1>0, <2>2 DEF IsLive
    <3>2. CountOK' /\ PlannedAlone' /\ MaxSeqs = 1
      BY DEF PromptInv, SoleRequest
    <3>3. ASSUME NEW r \in SeqId, IsLive(r)' PROVE r = s
      BY <1>0, <2>2, <3>1, <3>2, <3>3, OneLiveNext DEF AtMostOne, IsLive
    <3>. QED
      BY <3>3
  <2>. QED
    BY <2>2, <2>3 DEF StartedOK, IsLive, Planned
<1>5. CASE PlanPrefill
  <2>1. PICK s : s = Head(waiting)
    OBVIOUS
  <2>2. /\ s \in SeqId /\ IsLive(s) /\ UNCHANGED status /\ phase' = "prefill"
    <3>1. waiting # <<>> /\ phase = "plan"
      BY <1>0, <1>5 DEF PlanPrefill, PhaseOK
    <3>2. s \in SeqId
      BY <1>0, <2>1, <3>1, QueueFacts, TailList
    <3>. QED
      BY <1>0, <1>5, <2>1, <3>1, <3>2 DEF PlanPrefill, QueueInv, Place, TablePlace, Planned, IsLive
  <2>3. KeyReady(s)'
    BY <1>5, <2>1, PlannedReady
  <2>4. \A r \in SeqId : status[r] = "prefill" => r = s
    BY <1>0, <2>2, OneLive DEF PromptInv, SoleRequest, IsLive
  <2>. QED
    BY <2>2, <2>3, <2>4 DEF StartedOK
<1>6. CASE Metadata
  <2>1. PICK g, s : g = Head(batch) /\ s = g.seq
    OBVIOUS
  <2>2. /\ s \in SeqId /\ IsLive(s) /\ UNCHANGED status /\ \E a : sent' = Append(sent, a) /\ a.seq = s
    BY <1>0, <1>6, <2>1, MetadataFrame DEF IsLive
  <2>3. InSent(s)'
    <3>1. PICK a : sent' = Append(sent, a) /\ a.seq = s
      BY <2>2
    <3>2. sent \in Seq(ToSet(sent) \cup {a})
      BY <1>0, QueueFacts
    <3>3. sent' \in Seq(ToSet(sent) \cup {a}) /\ a \in ToSet(sent')
      BY <3>1, <3>2, AppendList
    <3>. QED
      BY <3>1, <3>3, SeqOfGroup DEF InSent
  <2>4. \A r \in SeqId : status[r] = "prefill" => r = s
    BY <1>0, <2>2, OneLive DEF PromptInv, SoleRequest, IsLive
  <2>. QED
    BY <2>2, <2>3, <2>4 DEF StartedOK
<1>7. CASE EndMetadata
  <2>1. /\ phase = "metadata" /\ batch = <<>> /\ UNCHANGED <<status, sent>>
    BY <1>7 DEF EndMetadata, queueVars
  <2>2. ASSUME NEW s \in SeqId, status[s] = "prefill" PROVE InSent(s)
    <3>1. IsPrompted(s)
      BY <2>1, <2>2 DEF PromptInv, AllPrompted
    <3>2. s \notin ToSet(Seqs(batch))
      BY <2>1, NoGroups, EmptyList
    <3>3. PICK i \in DOMAIN sent : sent[i].seq = s
      BY <3>1, <3>2 DEF IsPrompted
    <3>4. sent[i] \in ToSet(sent)
      BY <1>0, QueueFacts, Elements
    <3>. QED
      BY <1>0, <3>3, <3>4, SentLive DEF InSent
  <2>. QED
    BY <2>1, <2>2 DEF StartedOK, InSent
<1>8. CASE ChunkDone \/ Sample \/ Finish
  <2>1. PICK g, s : g = Head(sent) /\ s = g.seq
    OBVIOUS
  <2>2. /\ sent # <<>> /\ sent' = Tail(sent) /\ phase = "output"
        /\ \/ status' = status /\ done' = [done EXCEPT ![s] = g.end]
           \/ \E x : x # "prefill" /\ status' = [status EXCEPT ![s] = x]
                     /\ \E n : done' = [done EXCEPT ![s] = n]
    BY <1>8, <2>1 DEF ChunkDone, Sample, Finish, Progress, Leaves
  <2>3. /\ s \in SeqId /\ g.end # 0 /\ ToSet(Seqs(Tail(sent))) = ToSet(Seqs(sent)) \ {s}
    BY <1>0, <2>1, <2>2, OutputFrame DEF ActionOK
  <2>. QED
    BY <1>0, <2>2, <2>3, StartedSame DEF InSent, Planned
<1>. QED
  BY <1>1, <1>2, <1>3, <1>4, <1>5, <1>6, <1>7, <1>8 DEF Next
LEMMA KnownGrows ==
  ASSUME ManagerInv, NEW s \in tables, ~Freeing(s), computed_ids[s] \in Seq(Block)
  PROVE  /\ Len(computed_ids[s]) \in Nat /\ Len(ComputedPrefix(s)) \in Nat
         /\ Len(computed_ids[s]) <= Len(ComputedPrefix(s))
<1> DEFINE known == Len(computed_ids[s])
           later == {k \in (known + 1)..(NumBlocks(s) - 1) : IsComputed(block_id[<<s, k>>])}
           rank(k) == Cardinality({j \in later : j <= k})
           n == Cardinality(later)
           d == [i \in 1..n |-> Table(s)[CHOOSE k \in later : rank(k) = i]]
<1>1. known \in Nat
  OBVIOUS
<1>2. n \in Nat
  <2>1. NumBlocks(s) \in Nat
    BY BlocksInRow, CountBlocks DEF ManagerInv, ManagerTypeOK
  <2>2. IsFiniteSet((known + 1)..(NumBlocks(s) - 1))
    BY <1>1, <2>1, FS_Interval
  <2>. QED
    BY <2>2, FS_Subset, FS_CardinalityType
<1>3. ComputedBlockIds(s) = computed_ids[s] \o d
  BY DEF ComputedBlockIds
<1> HIDE DEF n
<1>4. \E S : d \in Seq(S) /\ computed_ids[s] \in Seq(S)
  <2> DEFINE S == Block \cup {d[i] : i \in 1..n}
  <2>1. d \in [1..n -> S] /\ Block \subseteq S
    OBVIOUS
  <2> HIDE DEF d, S
  <2>2. d \in Seq(S)
    BY <1>2, <2>1
  <2>3. computed_ids[s] \in Seq(S)
    BY <2>1
  <2>. QED
    BY <2>2, <2>3
<1> HIDE DEF d
<1>. QED
  BY <1>1, <1>3, <1>4, Lengths DEF ComputedPrefix

(* The prompt that is sent finds its checkpoint, and within its prefix.             *)
LEMMA MetadataLone ==
  ASSUME SoleRequest, SchedulerInv, IndexInv, PromptInv, ClosedInv, MarkedInv, ProgressInv,
         StartedOK, Metadata
  PROVE  phase' = "metadata" /\ RestoresOK'
<1>0. /\ ManagerInv /\ QueueInv /\ QueueTypeOK /\ tokens \in [SeqId -> Text] /\ IndexOK(index)
      /\ batch \in Seq(Group) /\ phase = "metadata" /\ call = Idle /\ batch # <<>>
  BY DEF SchedulerInv, ManagerInv, ManagerTypeOK, QueueInv, QueueTypeOK, IndexInv, Metadata
<1>1. sent = <<>>
  <2>1. Len(batch) >= 1 /\ Len(sent) \in Nat /\ Len(batch) \in Nat
    BY <1>0, Lengths, GroupCounts
  <2>2. Len(sent) = 0
    BY <2>1 DEF PromptInv, CountOK, SoleRequest
  <2>. QED
    BY <1>0, <2>2, QueueFacts, Lengths
<1>2. PICK g, s : g = Head(batch) /\ s = g.seq
  OBVIOUS
<1>3. /\ g \in Group /\ s \in SeqId /\ IsLive(s) /\ s \in tables /\ ~Freeing(s) /\ ~InSent(s) /\ ~Planned(s)
  <2>1. /\ g \in Group /\ s \in SeqId /\ IsLive(s)
    BY <1>0, <1>2, MetadataFrame DEF IsLive
  <2>. QED
    BY <1>0, <1>1, <2>1, NoGroups, EmptyList, OneCall DEF InSent, Planned, QueueInv, Place, TablePlace
<1>4. PICK a : /\ a = IF status[s] = "prefill" THEN PrefillActions(g) ELSE DecodeActions(g)
               /\ sent' = Append(sent, a) /\ phase' = IF a.raises THEN "dead" ELSE phase
               /\ UNCHANGED <<states, done>>
  BY <1>2 DEF Metadata, workerVars, storeVars
<1>5. ToSet(sent') = {a}
  <2>1. sent \in Seq({a}) /\ ToSet(sent) = {}
    BY <1>1, EmptyList
  <2>. QED
    BY <1>4, <2>1, AppendList
<1>6. ASSUME status[s] = "prefill", RestoredKey(s) # NoKey
      PROVE  /\ RestoredKey(s) = restore_key[s] /\ KeyReady(s) /\ done[s] = 0
             /\ RestoredKey(s) \in states \ ToSet(Admission(g).evicted)
  <2>1. RestoredKey(s) = restore_key[s] /\ done[s] = 0
    BY <1>6 DEF RestoredKey
  <2>2. KeyReady(s)
    BY <1>0, <1>3, <1>6, <2>1 DEF StartedOK
  <2>3. index # <<>> /\ index[Len(index)] = RestoredKey(s)
    BY <1>6, <2>1, <2>2 DEF KeyReady
  <2>4. RestoredKey(s) \in ToSet(index)
    <3>1. index \in Seq(Hash) /\ Len(index) \in 1..Len(index)
      BY <1>0, <2>3, Lengths DEF IndexOK
    <3>. QED
      BY <2>3, <3>1, Elements
  <2>5. ToSet(index) = states
    <3>1. DOMAIN sent = {}
      BY <1>1
    <3>2. OnePromptSent /\ Dropped = {} /\ Captured = {}
      BY <3>1 DEF OnePromptSent, Dropped, Captured
    <3>. QED
      BY <1>0, <3>2 DEF IndexInv, MirrorOK
  <2>6. FewKeys(Captures(g)) /\ (Capacity = 0 => Captures(g) = {})
    BY <1>0, <1>2, <1>3, FewCaptures DEF IndexInv
  <2>7. index[Len(index)] \notin ToSet(Admission(g).evicted)
    <3> DEFINE b == Gdn!Admit(index, Gdn!ByDepth(Captures(g)))
    <3>1. index # <<>> /\ Capacity # 2 => index[Len(index)] \notin ToSet(b.evicted)
      BY <1>0, <2>6, AdmittedKeys
    <3>2. Admission(g) = b
      BY DEF Admission
    <3> HIDE DEF b
    <3>. QED
      BY <2>3, <3>1, <3>2 DEF SoleRequest
  <2>. QED
    BY <2>1, <2>2, <2>3, <2>4, <2>5, <2>7
<1>7. ~a.raises
  <2>1. CASE status[s] = "prefill"
    <3>1. a.raises <=> Len(ComputedPrefix(s)) * BlockSize < RestoredTokens(s)
      BY <1>2, <1>4, <2>1 DEF PrefillActions
    <3>2. /\ Len(computed_ids[s]) \in Nat /\ Len(ComputedPrefix(s)) \in Nat
          /\ Len(computed_ids[s]) <= Len(ComputedPrefix(s))
      BY <1>0, <1>3, KnownGrows DEF MarkedInv
    <3>3. PICK m, n : m = Len(computed_ids[s]) * BlockSize /\ n = Len(ComputedPrefix(s)) * BlockSize
      OBVIOUS
    <3>4. m \in Nat /\ n \in Nat /\ m <= n
      BY <3>2, <3>3, BlockMultiples
    <3>5. CASE RestoredKey(s) = NoKey
      BY <3>1, <3>3, <3>4, <3>5 DEF RestoredTokens
    <3>6. CASE RestoredKey(s) # NoKey
      <4>1. RestoredTokens(s) = Gdn!Boundary(restore_key[s]) /\ Gdn!Boundary(restore_key[s]) <= m
        BY <1>6, <2>1, <3>3, <3>6 DEF RestoredTokens, KeyReady
      <4>2. Gdn!Boundary(restore_key[s]) \in Nat
        BY <1>3, <1>6, <2>1, <3>6, Boundaries DEF ProgressInv, KeysOK
      <4>. QED
        BY <3>1, <3>3, <3>4, <4>1, <4>2
    <3>. QED
      BY <3>5, <3>6
  <2>2. CASE status[s] # "prefill"
    BY <1>4, <2>2 DEF DecodeActions
  <2>. QED
    BY <2>1, <2>2
<1>8. /\ a.restore # NoKey => a.restore \in states \ a.evict /\ a.start = Gdn!Boundary(a.restore)
      /\ a.restore = NoKey => a.start = done[a.seq]
  <2>1. CASE status[s] = "prefill"
    <3>1. /\ a.restore = RestoredKey(s) /\ a.evict = ToSet(Admission(g).evicted) /\ a.seq = s
          /\ a.start = StepStart(s)
      BY <1>2, <1>4, <2>1 DEF PrefillActions
    <3>. QED
      BY <1>6, <2>1, <3>1 DEF StepStart, RestoredTokens
  <2>2. CASE status[s] # "prefill"
    BY <1>2, <1>4, <2>2 DEF DecodeActions
  <2>. QED
    BY <2>1, <2>2
<1>. QED
  BY <1>0, <1>4, <1>5, <1>7, <1>8 DEF RestoresOK, Gdn!Boundary

LEMMA MambaCount == ASSUME NEW S PROVE Mamba!Cardinality(S) = Cardinality(S)
BY DEF Mamba!Cardinality, Cardinality

(* The one slot there is goes to the one request there is.                         *)
LEMMA SlotSuffices ==
  ASSUME SoleRequest, QueueInv, PromptInv, WorkerTypeOK, MambaOK, HybridModel
  PROVE  Mamba!SlotsSuffice(mamba, {sent[i].seq : i \in DOMAIN sent})
<1>1. PICK H, B : H = {s \in SeqId : mamba.slot[s].held} /\ B = {sent[i].seq : i \in DOMAIN sent}
  OBVIOUS
<1>2. PICK N : N = {s \in B : ~mamba.slot[s].held}
  OBVIOUS
<1>3. \A x \in H \cup N : x \in SeqId /\ IsLive(x)
  <2>1. \A x \in B : x \in SeqId /\ IsLive(x)
    BY <1>1, QueueFacts, SentLive, Elements
  <2>. QED
    BY <1>1, <1>2, <2>1 DEF MambaOK, SlotOK, Mamba!Zeros
<1>4. \A x, y \in H \cup N : x = y
  BY <1>3, OneLive DEF PromptInv, SoleRequest
<1>5. N = {} \/ H = {}
  BY <1>1, <1>2, <1>4
<1>6. ASSUME NEW S, S = H \/ S = N PROVE Cardinality(S) = 0 \/ Cardinality(S) = 1
  <2>1. CASE S = {}
    BY <2>1, FS_EmptySet
  <2>2. CASE S # {}
    <3>1. PICK x \in S : TRUE
      BY <2>2
    <3>2. S = {x}
      BY <1>4, <1>6, <3>1
    <3>. QED
      BY <3>2, FS_Singleton
  <2>. QED
    BY <2>1, <2>2
<1>7. Cardinality(N) <= 1 - Cardinality(H)
  BY <1>5, <1>6, FS_EmptySet
<1>8. PICK c : c = Mamba!Released(mamba)
  OBVIOUS
<1>9. c.slot = mamba.slot /\ c.finished = 0 /\ c.lost = 0
  <2>1. mamba \in [slot : [SeqId -> SlotState], finished : Int, lost : Int]
    BY DEF WorkerTypeOK
  <2>. QED
    BY <1>8, <2>1 DEF Mamba!Released, MambaOK
<1>10. Mamba!Free(c) = 1 - Cardinality(H)
  <2>1. Mamba!Free(c) = MaxSeqs - Cardinality({s \in SeqId : c.slot[s].held}) - c.finished - c.lost
    BY MambaCount DEF Mamba!Free
  <2>. QED
    BY <1>1, <1>6, <1>9, <2>1 DEF SoleRequest
<1>11. Mamba!SlotsSuffice(mamba, B) <=> Cardinality(N) <= Mamba!Free(c)
  BY <1>2, <1>8, MambaCount DEF Mamba!SlotsSuffice
<1>. QED
  BY <1>1, <1>7, <1>10, <1>11

LEMMA ExecuteLone ==
  ASSUME SoleRequest, SchedulerInv, PromptInv, ProgressInv, WorkerTypeOK, RestoresOK, MambaOK, Execute
  PROVE  phase' = "output" /\ MambaOK'
<1>0. /\ QueueInv /\ phase = "execute" /\ sent \in Seq(ToSet(sent)) /\ Len(sent) \in Nat
      /\ UNCHANGED <<status, done, sent>>
  BY QueueFacts, GroupCounts DEF SchedulerInv, Execute, queueVars
<1>1. Len(sent) <= 1 /\ \A i, j \in DOMAIN sent : i = j
  <2>1. Len(sent) <= 1
    BY <1>0, GroupCounts DEF PromptInv, CountOK, SoleRequest
  <2>. QED
    BY <1>0, <2>1
<1>2. \A i \in DOMAIN sent : /\ sent[i] \in ToSet(sent) /\ sent[i].seq \in SeqId
                             /\ IsLive(sent[i].seq) /\ InSent(sent[i].seq)
  BY <1>0, SentLive, Elements DEF InSent
<1>3. ~WorkerRaises
  <2>1. HybridModel => Mamba!SlotsSuffice(mamba, {sent[i].seq : i \in DOMAIN sent})
    BY <1>0, SlotSuffices
  <2>. QED
    BY <1>0, <1>1, <1>2, <2>1 DEF WorkerRaises, RestoresOK
<1>4. phase' = "output" /\ (IF sent = <<>> THEN UNCHANGED <<mamba, spoilt>> ELSE RunRecurrentLayers)
  BY <1>3 DEF Execute
<1>5. CASE ~HybridModel
  BY <1>4, <1>5 DEF MambaOK
<1>6. CASE HybridModel /\ sent = <<>>
  <2>1. \A s \in SeqId : ~InSent(s)
    BY <1>6, NoGroups, EmptyList DEF InSent
  <2>. QED
    BY <1>0, <1>4, <1>6, <2>1 DEF MambaOK, SlotOK, IsLive, InSent
<1>7. CASE HybridModel /\ sent # <<>>
  <2>1. spoilt = {} /\ mamba.lost = 0 /\ \A s \in SeqId : SlotOK(s)
    BY <1>7 DEF MambaOK
  <2>2. ASSUME NEW i \in DOMAIN sent
        PROVE  StateAfter(sent[i]) = [held |-> TRUE, upto |-> sent[i].end, right |-> TRUE]
    <3>1. PICK g : g = sent[i]
      OBVIOUS
    <3>2. mamba.slot[g.seq].right /\ mamba.slot[g.seq].upto = done[g.seq]
      BY <1>0, <1>2, <2>1, <3>1 DEF SlotOK
    <3>3. /\ g.restore # NoKey => g.start = Gdn!Boundary(g.restore)
          /\ g.restore = NoKey => g.start = done[g.seq]
      BY <1>0, <1>2, <3>1 DEF RestoresOK
    <3>4. StateBefore(g).right /\ StateBefore(g).upto = g.start
      BY <2>1, <3>2, <3>3 DEF StateBefore
    <3>. QED
      BY <3>1, <3>4 DEF StateAfter, Mamba!Advance
  <2> DEFINE f == [s \in SeqId |->
             IF \E i \in DOMAIN sent : sent[i].seq = s
               THEN StateAfter(sent[CHOOSE i \in DOMAIN sent : sent[i].seq = s])
               ELSE mamba.slot[s]]
  <2>3. {i \in DOMAIN sent : ~StateAfter(sent[i]).right} = {}
    BY <2>2
  <2>4. spoilt' = {}
    BY <1>4, <1>7, <2>1, <2>3 DEF RunRecurrentLayers
  <2>5. mamba'.slot = f /\ mamba'.lost = 0
    <3>1. mamba' = [Mamba!Released(mamba) EXCEPT !.slot = f]
      BY <1>4, <1>7 DEF RunRecurrentLayers
    <3>2. mamba \in [slot : [SeqId -> SlotState], finished : Int, lost : Int]
      BY DEF WorkerTypeOK
    <3> HIDE DEF f
    <3>. QED
      BY <2>1, <3>1, <3>2 DEF Mamba!Released
  <2>6. ASSUME NEW s \in SeqId PROVE SlotOK(s)'
    <3>1. CASE \E i \in DOMAIN sent : sent[i].seq = s
      <4>1. PICK i \in DOMAIN sent : sent[i].seq = s
        BY <3>1
      <4>2. mamba'.slot[s] = [held |-> TRUE, upto |-> sent[i].end, right |-> TRUE]
        <5>1. mamba'.slot[s] = StateAfter(sent[CHOOSE j \in DOMAIN sent : sent[j].seq = s])
          BY <2>5, <3>1
        <5>2. (CHOOSE j \in DOMAIN sent : sent[j].seq = s) \in DOMAIN sent
          BY <3>1
        <5>. QED
          BY <1>1, <2>2, <4>1, <5>1, <5>2
      <4>3. \A g \in ToSet(sent) : g.seq = s => g = sent[i]
        BY <1>0, <1>1, <4>1, Elements
      <4>. QED
        BY <1>0, <1>2, <1>4, <4>1, <4>2, <4>3 DEF SlotOK, IsLive, InSent
    <3>2. CASE ~\E i \in DOMAIN sent : sent[i].seq = s
      <4>1. mamba'.slot[s] = mamba.slot[s]
        BY <2>5, <3>2
      <4>2. ~InSent(s)
        BY <3>2 DEF InSent, Seqs, ToSet
      <4>. QED
        BY <1>0, <1>4, <2>1, <4>1, <4>2 DEF SlotOK, IsLive, InSent
    <3>. QED
      BY <3>1, <3>2
  <2>. QED
    BY <1>4, <2>4, <2>5, <2>6 DEF MambaOK
<1>. QED
  BY <1>4, <1>5, <1>6, <1>7
LEMMA OneSlotChanges ==
  ASSUME MambaOK, spoilt' = spoilt, mamba'.lost = mamba.lost, phase' = phase, NEW s,
         \A r \in SeqId : r # s =>
           /\ mamba'.slot[r] = mamba.slot[r] /\ status'[r] = status[r] /\ done'[r] = done[r]
           /\ InSent(r)' <=> InSent(r),
         ToSet(sent') \subseteq ToSet(sent), HybridModel => SlotOK(s)'
  PROVE  MambaOK'
BY DEF MambaOK, SlotOK, IsLive

LEMMA MambaKept ==
  ASSUME SchedulerInv, PromptInv, ProgressInv, WorkerTypeOK, MambaOK, Next, ~Preempt, ~Execute
  PROVE  MambaOK'
<1>0. /\ QueueInv /\ QueueTypeOK /\ PhaseOK /\ done \in [SeqId -> Int]
      /\ status \in [SeqId -> {"absent", "waiting", "prefill", "decode"}]
      /\ mamba \in [slot : [SeqId -> SlotState], finished : Int, lost : Int]
  BY DEF SchedulerInv, QueueInv, QueueTypeOK, WorkerTypeOK
<1>1. CASE ManagerStep \/ StartStep \/ ScheduleRunning \/ EndRunning \/ PlanPrefill \/ EndPrefill
           \/ Metadata \/ EndMetadata \/ EndStep
  <2>1. /\ UNCHANGED <<mamba, spoilt, status, done>>
        /\ \/ UNCHANGED <<phase, sent>>
           \/ phase # "output" /\ phase' # "output"
           \/ sent = <<>> /\ sent' = <<>>
    BY <1>1 DEF ManagerStep, StartStep, ScheduleRunning, EndRunning, PlanPrefill, EndPrefill,
       Metadata, EndMetadata, EndStep, engineVars, queueVars, workerVars, storeVars
  <2>2. ~(\E s : s \in ToSet(Seqs(<<>>)))
    BY NoGroups, EmptyList
  <2>. QED
    BY <2>1, <2>2 DEF MambaOK, SlotOK, IsLive, InSent
<1>2. CASE \E s \in SeqId : AddRequest(s)
  <2>1. PICK s \in SeqId : AddRequest(s)
    BY <1>2
  <2>2. /\ status[s] = "absent" /\ status' = [status EXCEPT ![s] = "waiting"]
        /\ UNCHANGED <<mamba, spoilt, done, sent, phase>>
    BY <2>1 DEF AddRequest, workerVars, storeVars
  <2>. QED
    BY <1>0, <2>2 DEF MambaOK, SlotOK, IsLive, InSent
<1>3. CASE StartPrefill
  <2>1. PICK s : s = Head(waiting)
    OBVIOUS
  <2>2. /\ s \in SeqId /\ phase = "prefill" /\ phase' = "plan" /\ UNCHANGED <<mamba, spoilt, done, sent>>
        /\ status' = [status EXCEPT ![s] = "prefill"] /\ s \in ToSet(waiting)
    BY <1>0, <1>3, <2>1, QueueFacts, TailList DEF StartPrefill, workerVars, storeVars
  <2>3. status[s] = "waiting" /\ done[s] = 0
    BY <1>0, <2>2 DEF QueueInv, Place, WaitingPlace, Planned, PromptInv, ProgressOK
  <2>. QED
    BY <1>0, <2>2, <2>3 DEF MambaOK, SlotOK, IsLive, Mamba!Zeros
<1>4. CASE (\E s \in SeqId : Abort(s)) \/ Finish \/ IgnorePrompt
  <2>1. PICK s \in SeqId :
                 /\ status' = [status EXCEPT ![s] = "absent"] /\ done' = [done EXCEPT ![s] = 0]
                 /\ phase' = phase /\ spoilt' = spoilt
                 /\ \/ mamba' = Mamba!Retire(mamba, s)
                    \/ status[s] = "waiting" /\ mamba' = Mamba!Forget(mamba, s)
                 /\ sent' = sent \/ (sent # <<>> /\ sent' = Tail(sent) /\ s = Head(sent).seq)
    <3>1. CASE IgnorePrompt
      <4>1. PICK s : s = Head(waiting)
        OBVIOUS
      <4>2. s \in ToSet(waiting) /\ s \in SeqId /\ phase = "prefill"
        BY <1>0, <3>1, <4>1, QueueFacts, TailList DEF IgnorePrompt
      <4>3. status[s] = "waiting"
        BY <1>0, <4>2 DEF QueueInv, Place, WaitingPlace, Planned
      <4>. QED
        BY <3>1, <4>1, <4>2, <4>3 DEF IgnorePrompt, Leaves, storeVars
    <3>2. CASE \E s \in SeqId : Abort(s)
      BY <3>2 DEF Abort, Leaves, storeVars
    <3>3. CASE Finish
      <4>1. Head(sent).seq \in SeqId
        BY <1>0, <3>3, SentTail DEF Finish, Progress
      <4>. QED
        BY <3>3, <4>1 DEF Finish, Progress, Leaves, storeVars
    <3>. QED
      BY <1>4, <3>1, <3>2, <3>3
  <2>2. PICK z, n : z = Mamba!Zeros /\ n = Mamba!Taken(mamba, s)
    OBVIOUS
  <2>3. \/ mamba' = [mamba EXCEPT !.slot[s] = z, !.finished = @ + n]
        \/ status[s] = "waiting" /\ mamba' = [mamba EXCEPT !.slot[s] = z, !.lost = @ + n]
    BY <2>1, <2>2 DEF Mamba!Retire, Mamba!Forget
  <2>4. PICK c, e, l : mamba = [slot |-> c, finished |-> e, lost |-> l]
    BY <1>0
  <2>5. c \in [SeqId -> SlotState] /\ l \in Int
    BY <1>0, <2>4
  <2>6. mamba'.slot = [c EXCEPT ![s] = z] /\ (mamba'.lost = l \/ (status[s] = "waiting" /\ mamba'.lost = l + n))
    BY <2>3, <2>4
  <2>7. CASE HybridModel
    <3>1. status[s] = "waiting" => n = 0
      BY <2>2, <2>7 DEF MambaOK, SlotOK, IsLive, Mamba!Taken, Mamba!Zeros
    <3>2. mamba'.lost = mamba.lost
      BY <2>4, <2>5, <2>6, <3>1
    <3>3. SlotOK(s)'
      BY <1>0, <2>1, <2>2, <2>5, <2>6, <2>7 DEF SlotOK, IsLive
    <3>4. \A r \in SeqId : r # s => mamba'.slot[r] = mamba.slot[r]
      BY <2>4, <2>5, <2>6
    <3>5. ToSet(sent') \subseteq ToSet(sent) /\ \A r \in SeqId : r # s => (InSent(r)' <=> InSent(r))
      BY <1>0, <2>1, OutputFrame DEF InSent
    <3>. QED
      BY <1>0, <2>1, <3>2, <3>3, <3>4, <3>5, OneSlotChanges
  <2>8. CASE ~HybridModel
    BY <2>8 DEF MambaOK
  <2>. QED
    BY <2>7, <2>8
<1>5. CASE ChunkDone \/ Sample
  <2>1. PICK g, s : g = Head(sent) /\ s = g.seq
    OBVIOUS
  <2>2. /\ sent # <<>> /\ sent' = Tail(sent) /\ phase = "output" /\ phase' = phase
        /\ UNCHANGED <<mamba, spoilt>> /\ done' = [done EXCEPT ![s] = g.end]
        /\ status' = status \/ status' = [status EXCEPT ![s] = "decode"]
    BY <1>5, <2>1 DEF ChunkDone, Sample, Progress, storeVars
  <2>3. /\ g \in ToSet(sent) /\ s \in SeqId /\ InSent(s) /\ IsLive(s)
        /\ ToSet(sent') \subseteq ToSet(sent) /\ ToSet(Seqs(sent')) = ToSet(Seqs(sent)) \ {s}
    BY <1>0, <2>1, <2>2, OutputFrame DEF InSent
  <2>4. HybridModel => SlotOK(s)'
    <3>1. HybridModel => mamba.slot[s].right /\ mamba.slot[s].upto = g.end
      BY <2>1, <2>2, <2>3 DEF MambaOK, SlotOK
    <3>2. done'[s] = g.end /\ IsLive(s)' /\ ~InSent(s)'
      BY <1>0, <2>2, <2>3 DEF IsLive, InSent
    <3>. QED
      BY <2>2, <3>1, <3>2 DEF SlotOK
  <2>. QED
    BY <1>0, <2>2, <2>3, <2>4, OneSlotChanges DEF InSent
<1>. QED
  BY <1>1, <1>2, <1>3, <1>4, <1>5 DEF Next

LEMMA RestoresKept ==
  ASSUME QueueInv, RestoresOK, Next, ~Metadata
  PROVE  RestoresOK'
<1>1. CASE phase' \notin {"metadata", "execute"}
  BY <1>1 DEF RestoresOK
<1>2. CASE phase' \in {"metadata", "execute"} /\ phase = "prefill"
  <2>1. sent' = <<>>
    BY <1>2 DEF QueueInv, PhaseOK, Next, ManagerStep, AddRequest, Abort, StartStep, ScheduleRunning,
       Preempt, EndRunning, IgnorePrompt, StartPrefill, PlanPrefill, EndPrefill, EndMetadata,
       Execute, ChunkDone, Sample, Finish, Progress, EndStep, engineVars
  <2>. QED
    BY <2>1, EmptyList DEF RestoresOK
<1>3. CASE phase' \in {"metadata", "execute"} /\ phase # "prefill"
  <2>1. ManagerStep \/ EndMetadata
    BY <1>3 DEF Next, AddRequest, Abort, StartStep, ScheduleRunning, Preempt, EndRunning,
       IgnorePrompt, StartPrefill, PlanPrefill, EndPrefill, Execute, ChunkDone, Sample, Finish,
       Progress, EndStep
  <2>2. phase \in {"metadata", "execute"} /\ UNCHANGED <<sent, states, done>>
    BY <1>3, <2>1 DEF ManagerStep, EndMetadata, engineVars, workerVars, storeVars
  <2>. QED
    BY <2>2 DEF RestoresOK
<1>. QED
  BY <1>1, <1>2, <1>3

LEMMA LoneKept ==
  ASSUME SoleRequest, SchedulerInv, SchedulerInv', IndexInv, PromptInv, PromptInv', ClosedInv, MarkedInv,
         ProgressInv, WorkerTypeOK, LoneInv, [Next]_vars
  PROVE  LoneInv'
<1>1. CASE UNCHANGED vars
  <2>1. UNCHANGED <<status, done, sent, phase, waiting, restore_key, index, computed_ids, states, mamba, spoilt>>
    BY <1>1 DEF vars, engineVars, queueVars, gdnVars, workerVars, storeVars, blockVars, managerVars
  <2>. QED
    BY <2>1 DEF LoneInv, StartedOK, Planned, InSent, KeyReady, RestoresOK, MambaOK, SlotOK, IsLive
<1>2. CASE Next
  <2>1. ~Preempt
    <3>1. SUFFICES ASSUME Preempt PROVE FALSE
      OBVIOUS
    <3>2. /\ phase = "running" /\ call = Idle /\ running # <<>> /\ ~CanAppendSlots(Head(running))
      BY <3>1 DEF Preempt
    <3>. QED
      BY <3>2, NeverPreempts
  <2>2. CASE Execute
    <3>1. phase' = "output" /\ MambaOK'
      BY <2>2, ExecuteLone DEF LoneInv
    <3>. QED
      BY <1>2, <3>1, StartedKept DEF LoneInv, RestoresOK
  <2>3. CASE Metadata
    <3>1. phase' = "metadata" /\ RestoresOK'
      BY <2>3, MetadataLone DEF LoneInv
    <3>2. ~Execute
      BY <2>3 DEF Metadata, Execute
    <3>. QED
      BY <1>2, <2>1, <3>1, <3>2, StartedKept, MambaKept DEF LoneInv
  <2>4. CASE ~Execute /\ ~Metadata
    <3>1. phase' # "dead"
      BY <1>2, <2>4 DEF LoneInv, Next, ManagerStep, AddRequest, Abort, StartStep, ScheduleRunning,
         Preempt, EndRunning, IgnorePrompt, StartPrefill, PlanPrefill, EndPrefill, EndMetadata,
         ChunkDone, Sample, Finish, Progress, EndStep, engineVars
    <3>. QED
      BY <1>2, <2>1, <2>4, <3>1, StartedKept, MambaKept, RestoresKept DEF LoneInv, SchedulerInv
  <2>. QED
    BY <2>2, <2>3, <2>4
<1>. QED
  BY <1>1, <1>2

LEMMA InitLone == ASSUME Init PROVE LoneInv
BY DEF Init, LoneInv, StartedOK, RestoresOK, MambaOK, SlotOK, IsLive, InSent, Mamba!EmptyCache,
   Mamba!Zeros

LEMMA LoneInvariant ==
  ASSUME SoleRequest PROVE Spec => [](LoneInv)
<1> DEFINE Inv == /\ IndexInv /\ PromptInv /\ ClosedInv /\ MarkedInv /\ ProgressInv /\ WorkerTypeOK
                  /\ LoneInv
<1>1. Init => Inv
  BY InitIndex, InitPrompts, InitClosed, InitMarks, InitProgress, InitWorkers, InitLone
<1>2. SeqsFit
  <2>1. BlockSize \in Nat /\ BlockSize > 1 /\ Budget \in Nat \ {0} /\ Budget % BlockSize = 0
    BY BlockSizeAssumption, BudgetAssumption
  <2>2. Budget >= BlockSize
    BY <2>1, SMT
  <2>. QED
    BY <2>1, <2>2 DEF SeqsFit, SoleRequest
<1>3. SchedulerInv /\ SchedulerInv' /\ Inv /\ [Next]_vars => Inv'
  <2> SUFFICES ASSUME SchedulerInv, SchedulerInv', Inv, [Next]_vars PROVE Inv'
    OBVIOUS
  <2>1. IndexInv' /\ PromptInv'
    BY <1>2, PromptsKept, QuietSteps, PlanPrefillIndex, EndPrefillIndex, MetadataIndex, ExecuteIndex
       DEF Next
  <2>2. ClosedInv' /\ MarkedInv'
    BY StampsKept, CacheKept, ClosedStutter, MarksKept, MarksStutter DEF ClosedInv
  <2>3. ProgressInv' /\ WorkerTypeOK'
    BY ProgressKept, WorkerTypesKept
  <2>4. LoneInv'
    BY <2>1, LoneKept
  <2>. QED
    BY <2>1, <2>2, <2>3, <2>4
<1>4. Inv => LoneInv
  OBVIOUS
<1> HIDE DEF Inv
<1>. QED
  BY <1>1, <1>3, <1>4, SchedulerInvariant, PTL DEF Spec

(* With one request at a time no batch and no message kills the engine: the worker  *)
(* is never sent a group it cannot take, a checkpoint it does not hold or a request  *)
(* without a slot, and no restored prefix is longer than the computed one.          *)
THEOREM LoneEngineNeverDies == ASSUME SoleRequest PROVE Spec => []EngineNeverDies
<1>1. LoneInv => EngineNeverDies
  BY DEF LoneInv, EngineNeverDies
<1>. QED
  BY <1>1, LoneInvariant, PTL

(* ... and the recurrent state a request goes on from is its own, after exactly the  *)
(* tokens that count as computed, whatever was restored, skipped or aborted.        *)
THEOREM LoneStateStaysIntact == ASSUME SoleRequest PROVE Spec => []RecurrentStateIntact
<1>1. LoneInv => RecurrentStateIntact
  BY DEF LoneInv, MambaOK, SlotOK, RecurrentStateIntact, Live, IsLive
<1>. QED
  BY <1>1, LoneInvariant, PTL

===============================================================================
