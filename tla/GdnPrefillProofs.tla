---------------------------- MODULE GdnPrefillProofs ----------------------------
(***************************************************************************)
(* Proofs about GdnPrefill, for any block size of at least two tokens, any    *)
(* scheduler chunk and restore alignment of whole blocks, any prompt length  *)
(* and any budgets.                                                        *)
(***************************************************************************)
EXTENDS GdnPrefill, SequenceTheorems, WellFoundedInduction, TLAPS

(* The end of a block of the prompt.                                        *)
WholeBlocks(n) == \E k \in Nat : n = k * BlockSize

-------------------------------------------------------------------------------
(* Division by a divisor that is not a numeral.                             *)
LEMMA Division ==
  ASSUME NEW n \in Nat, NEW M \in Nat \ {0}
  PROVE  /\ n \div M \in Nat /\ n % M \in 0..(M - 1)
         /\ n = (n \div M) * M + (n % M)
<1>1. n \div M \in Nat
  BY SMT
<1>2. n % M \in 0..(M - 1)
  BY SMT
<1>3. n = (n \div M) * M + (n % M)
  BY SMT
<1>. QED
  BY <1>1, <1>2, <1>3

LEMMA Multiples ==
  ASSUME NEW a \in Nat, NEW b \in Nat, NEW M \in Nat \ {0}
  PROVE  /\ a * M \in Nat
         /\ a <= b <=> a * M <= b * M
         /\ a < b <=> a * M < b * M
         /\ a * M < b * M => a * M + M <= b * M
         /\ a * M < b * M + M => a <= b
<1>1. a * M \in Nat /\ b * M \in Nat
  BY SMT
<1>2. ASSUME a < b PROVE a * M + M <= b * M
  <2>1. PICK d \in Nat : b = a + 1 + d
    BY <1>2, b - a - 1 \in Nat
  <2>2. b * M = a * M + M + d * M
    BY <2>1, SMT
  <2>3. d * M \in Nat
    BY SMT
  <2>. QED
    BY <2>2, <2>3, <1>1
<1>3. ASSUME a > b PROVE a * M >= b * M + M
  <2>1. PICK d \in Nat : a = b + 1 + d
    BY <1>3, a - b - 1 \in Nat
  <2>2. a * M = b * M + M + d * M
    BY <2>1, SMT
  <2>3. d * M \in Nat
    BY SMT
  <2>. QED
    BY <2>2, <2>3, <1>1
<1>4. a = b => a * M = b * M
  OBVIOUS
<1> DEFINE p == a * M
           q == b * M
<1> HIDE DEF p, q
<1>5. p \in Nat /\ q \in Nat /\ (a < b => p + M <= q) /\ (a > b => p >= q + M) /\ (a = b => p = q)
  BY <1>1, <1>2, <1>3, <1>4 DEF p, q
<1>6. /\ p \in Nat /\ (a <= b <=> p <= q) /\ (a < b <=> p < q) /\ (p < q => p + M <= q)
      /\ (p < q + M => a <= b)
  BY <1>5, SMT
<1>. QED
  BY <1>6 DEF p, q

-------------------------------------------------------------------------------
(* The keys of the prompt and their boundaries.                             *)
LEMMA Keys ==
  ASSUME NEW k \in Hash
  PROVE  /\ k \in Nat \ {0} /\ k <= MaxBlocks
         /\ Depth[k] = k /\ Boundary(k) = k * BlockSize
         /\ Boundary(k) \in Nat /\ Boundary(k) >= BlockSize
         /\ WholeBlocks(Boundary(k))
<1>1. k \in Nat \ {0} /\ k <= MaxBlocks /\ Depth[k] = k /\ Boundary(k) = k * BlockSize
  BY PrefillAssumption DEF Boundary
<1>2. k * BlockSize \in Nat
  BY <1>1, Multiples, PrefillAssumption, BlockSize \in Nat \ {0}
<1>3. 1 * BlockSize <= k * BlockSize
  BY <1>1, Multiples, PrefillAssumption, BlockSize \in Nat \ {0}, 1 \in Nat, 1 <= k
<1>. QED
  BY <1>1, <1>2, <1>3, PrefillAssumption, 1 * BlockSize = BlockSize DEF WholeBlocks

LengthOK == length \in Nat \ {0} /\ length < (MaxBlocks + 1) * BlockSize

LEMMA Hashes ==
  ASSUME LengthOK
  PROVE  /\ length \div BlockSize \in 0..MaxBlocks
         /\ Len(PromptHashes) = length \div BlockSize
         /\ \A i \in 1..(length \div BlockSize) : PromptHashes[i] = i /\ i \in Hash
         /\ \A k \in Nat : k * BlockSize <= length => k <= length \div BlockSize
         /\ (length \div BlockSize) * BlockSize <= length
<1> DEFINE N == length \div BlockSize
<1>0. BlockSize \in Nat \ {0} /\ MaxBlocks \in Nat /\ length \in Nat
  BY PrefillAssumption DEF LengthOK
<1>1. N \in Nat /\ N * BlockSize <= length /\ length < N * BlockSize + BlockSize
  <2>1. PICK r \in 0..(BlockSize - 1) : r = length % BlockSize
    BY <1>0, Division
  <2>2. N \in Nat /\ length = N * BlockSize + r
    BY <1>0, <2>1, Division
  <2>3. N * BlockSize \in Nat
    BY <1>0, <2>2, Multiples
  <2> HIDE DEF N
  <2> DEFINE x == N * BlockSize
  <2> HIDE DEF x
  <2>4. x \in Nat /\ length = x + r
    BY <2>2, <2>3 DEF x
  <2>5. x <= length /\ length < x + BlockSize
    BY <2>4, <1>0
  <2>. QED
    BY <2>2, <2>5 DEF x
<1> HIDE DEF N
<1>2. ASSUME NEW k \in Nat, k * BlockSize <= length PROVE k <= N
  <2>1. k * BlockSize \in Nat /\ N * BlockSize \in Nat
    BY <1>0, <1>1, Multiples
  <2>2. k * BlockSize < N * BlockSize + BlockSize
    BY <2>1, <1>0, <1>1, <1>2
  <2>. QED
    BY <2>2, <1>0, <1>1, Multiples
<1>3. N <= MaxBlocks
  <2>1. N * BlockSize < (MaxBlocks + 1) * BlockSize
    <3>1. N * BlockSize \in Nat /\ (MaxBlocks + 1) * BlockSize \in Nat
      BY <1>0, <1>1, Multiples, MaxBlocks + 1 \in Nat
    <3>. QED
      BY <3>1, <1>0, <1>1 DEF LengthOK
  <2>2. N < MaxBlocks + 1
    BY <2>1, <1>0, <1>1, Multiples, MaxBlocks + 1 \in Nat
  <2>. QED
    BY <2>2, <1>0, <1>1
<1>4. PromptHashes = [k \in 1..N |-> k]
  BY DEF PromptHashes, N
<1>5. Len(PromptHashes) = N
  BY <1>4, <1>1
<1>6. \A i \in 1..N : PromptHashes[i] = i /\ i \in Hash
  BY <1>4, <1>1, <1>3, PrefillAssumption
<1>. QED
  BY <1>1, <1>2, <1>3, <1>5, <1>6 DEF N

(* The deepest checkpoint that a direct restore of the first n tokens may use *)
(* leaves at least two tokens and less than a block more.                    *)
DirectFinal(key, n) ==
  \/ key = NoKey /\ n - 2 < BlockSize
  \/ /\ key \in Hash /\ Boundary(key) <= n - 2 /\ n - 2 < Boundary(key) + BlockSize
     /\ Boundary(key) <= length

LEMMA FinalDirect ==
  ASSUME LengthOK, NEW n \in 1..length, NEW mode \in {"direct", "hybrid64"}
  PROVE  DirectFinal(FinalCaptureKey(PromptHashes, n, mode), n)
<1> DEFINE N == length \div BlockSize
           s == (n - 1) \div BlockSize
           x == s * BlockSize
           strict == Least(Len(PromptHashes), StrictPrefixBlockCount(n))
           replayed == n - strict * BlockSize
           direct == IF strict > 0 /\ replayed < MinReplayTokens THEN strict - 1 ELSE strict
<1>0. BlockSize \in Nat \ {0} /\ BlockSize > 1 /\ length \in Nat /\ n \in Nat /\ n >= 1 /\ n <= length
      /\ n - 1 \in Nat
  BY PrefillAssumption DEF LengthOK
<1>1. s \in Nat /\ x \in Nat /\ x <= n - 1 /\ n - 1 < x + BlockSize
  <2>1. PICK r \in 0..(BlockSize - 1) : r = (n - 1) % BlockSize
    BY <1>0, Division
  <2>2. s \in Nat /\ n - 1 = x + r
    BY <1>0, <2>1, Division
  <2>3. x \in Nat
    BY <1>0, <2>2, Multiples
  <2> HIDE DEF s, x
  <2>. QED
    BY <1>0, <2>1, <2>2, <2>3
<1>2. s <= N
  BY <1>0, <1>1, Hashes
<1>3. StrictPrefixBlockCount(n) = s
  <2>1. CASE n > 1
    BY <1>0, <2>1 DEF StrictPrefixBlockCount
  <2>2. CASE n = 1
    <3>1. x < BlockSize + 0 * BlockSize
      BY <1>0, <1>1, <2>2
    <3>2. s = 0
      <4> SUFFICES ASSUME s >= 1 PROVE FALSE
        BY <1>1
      <4>1. 1 * BlockSize <= s * BlockSize
        BY <1>0, <1>1, Multiples, 1 \in Nat
      <4> HIDE DEF s
      <4>. QED
        BY <4>1, <3>1, <1>0, <1>1
    <3>. QED
      BY <3>2, <2>2 DEF StrictPrefixBlockCount
  <2>. QED
    BY <1>0, <2>1, <2>2
<1>4. Len(PromptHashes) = N /\ N \in 0..MaxBlocks /\ \A i \in 1..N : PromptHashes[i] = i /\ i \in Hash
  BY Hashes
<1>5. strict = s
  <2> HIDE DEF N, s
  <2>. QED
    BY <1>1, <1>2, <1>3, <1>4 DEF Least
<1>6. FinalCaptureKey(PromptHashes, n, mode) = IF direct = 0 THEN NoKey ELSE PromptHashes[direct]
  BY DEF FinalCaptureKey
<1> HIDE DEF strict
<1>7. replayed = n - x
  BY <1>5
<1> HIDE DEF N, s, x, replayed
<1>8. direct \in 0..N /\ (direct = s \/ (direct = s - 1 /\ s > 0))
  BY <1>1, <1>2, <1>4, <1>5
<1>9. (direct = s /\ (s = 0 \/ n - x >= 2)) \/ (direct = s - 1 /\ s > 0 /\ n - x = 1)
  BY <1>0, <1>1, <1>5, <1>7 DEF MinReplayTokens
<1> HIDE DEF direct
<1>10. CASE direct = 0
  <2>1. FinalCaptureKey(PromptHashes, n, mode) = NoKey
    BY <1>6, <1>10
  <2>2. n - 2 < BlockSize
    <3>1. CASE s = 0
      <4>1. x = 0
        BY <3>1, <1>0 DEF x
      <4>. QED
        BY <4>1, <1>0, <1>1
    <3>2. CASE s = 1 /\ n - x = 1
      <4>1. x = BlockSize
        BY <3>2, <1>0 DEF x
      <4>. QED
        BY <4>1, <3>2, <1>0, <1>1
    <3>. QED
      BY <3>1, <3>2, <1>9, <1>10, <1>1
  <2>. QED
    BY <2>1, <2>2 DEF DirectFinal
<1>11. CASE direct # 0
  <2>1. direct \in 1..N
    BY <1>8, <1>11
  <2>2. FinalCaptureKey(PromptHashes, n, mode) = direct /\ direct \in Hash
    BY <1>6, <1>4, <1>11, <2>1
  <2>3. Boundary(direct) = direct * BlockSize /\ Boundary(direct) \in Nat
    BY <2>2, Keys
  <2>4. Boundary(direct) = x \/ (Boundary(direct) = x - BlockSize /\ n - x = 1)
    <3>1. CASE direct = s
      BY <3>1, <2>3 DEF x
    <3>2. CASE direct = s - 1 /\ n - x = 1
      <4>1. s * BlockSize = direct * BlockSize + BlockSize
        BY <3>2, <1>0, <1>1, SMT
      <4>2. x = Boundary(direct) + BlockSize
        BY <4>1, <2>3 DEF x
      <4>. QED
        BY <4>2, <3>2, <2>3, <1>0, <1>1
    <3>. QED
      BY <3>1, <3>2, <1>9
  <2>5. Boundary(direct) = x => n - x >= 2
    <3>1. direct = s - 1 => Boundary(direct) < x
      BY <2>3, <1>0, <1>1, <2>1, <2>2, <1>8, Multiples DEF x
    <3>2. s # 0 \/ direct = s - 1
      BY <1>9, <1>11
    <3>. QED
      BY <1>9, <3>1, <3>2, <1>0, <1>1, <2>3
  <2>6. Boundary(direct) <= n - 2 /\ n - 2 < Boundary(direct) + BlockSize
    BY <2>3, <2>4, <2>5, <1>0, <1>1
  <2>7. Boundary(direct) <= length
    BY <2>6, <2>3, <1>0
  <2>. QED
    BY <2>2, <2>6, <2>7 DEF DirectFinal
<1>. QED
  BY <1>10, <1>11

(* With aligned restores it is the last aligned boundary before token n.      *)
LEMMA FinalAligned ==
  ASSUME LengthOK, NEW mode, mode \notin {"direct", "hybrid64"}
  PROVE  LET key == FinalCaptureKey(PromptHashes, length, mode)
         IN \/ key = NoKey /\ (length - 1) \div ReplayAlignment = 0
            \/ /\ key \in Hash
               /\ Boundary(key) = ((length - 1) \div ReplayAlignment) * ReplayAlignment
               /\ Boundary(key) <= length
<1> DEFINE N == length \div BlockSize
           q == (length - 1) \div ReplayAlignment
           r == ReplayAlignment \div BlockSize
           c == q * r
           key == FinalCaptureKey(PromptHashes, length, mode)
<1>0. BlockSize \in Nat \ {0} /\ length \in Nat /\ length >= 1 /\ length - 1 \in Nat
      /\ ReplayAlignment \in Nat \ {0}
  BY PrefillAssumption, GdnAlignmentAssumption DEF LengthOK
<1>1. r \in Nat /\ r * BlockSize = ReplayAlignment
  <2>1. r \in Nat /\ ReplayAlignment = r * BlockSize + (ReplayAlignment % BlockSize)
    BY <1>0, Division
  <2>2. r * BlockSize \in Nat
    BY <1>0, <2>1, Multiples
  <2> HIDE DEF r
  <2>. QED
    BY <2>1, <2>2, GdnAlignmentAssumption, <1>0
<1>2. q \in Nat /\ q * ReplayAlignment \in Nat /\ q * ReplayAlignment <= length - 1
  <2>1. PICK t \in 0..(ReplayAlignment - 1) : t = (length - 1) % ReplayAlignment
    BY <1>0, Division
  <2>2. q \in Nat /\ length - 1 = q * ReplayAlignment + t
    BY <1>0, <2>1, Division
  <2>3. q * ReplayAlignment \in Nat
    BY <1>0, <2>2, Multiples
  <2> HIDE DEF q
  <2>. QED
    BY <1>0, <2>1, <2>2, <2>3
<1>3. Len(PromptHashes) = N /\ N \in 0..MaxBlocks /\ \A i \in 1..N : PromptHashes[i] = i /\ i \in Hash
  BY Hashes
<1> HIDE DEF q, r
<1>4. r # 0
  <2>1. r = 0 => r * BlockSize = 0
    BY <1>0, SMT
  <2>. QED
    BY <2>1, <1>0, <1>1
<1>5. c \in Nat /\ c * BlockSize = q * ReplayAlignment
  <2>1. c \in Nat
    BY <1>1, <1>2, SMT
  <2>2. (q * r) * BlockSize = q * (r * BlockSize)
    BY <1>0, <1>1, <1>2, SMT
  <2>. QED
    BY <2>1, <2>2, <1>1
<1>6. c * BlockSize <= length
  BY <1>0, <1>2, <1>5
<1>7. c <= N
  BY <1>5, <1>6, Hashes
<1>8. c = 0 <=> q = 0
  <2>1. q = 0 => c = 0
    BY <1>1, SMT
  <2>2. ASSUME q # 0 PROVE c # 0
    <3>1. 1 * r <= q * r
      BY <2>2, <1>1, <1>2, <1>4, Multiples, r \in Nat \ {0}, 1 \in Nat, 1 <= q
    <3>. QED
      BY <3>1, <1>1, <1>4, <1>5
  <2>. QED
    BY <2>1, <2>2
<1>9. key = IF length <= 1 \/ c = 0 THEN NoKey ELSE PromptHashes[c]
  <2>1. Least(Len(PromptHashes), c) = c
    BY <1>3, <1>5, <1>7 DEF Least
  <2>2. key = LET count == IF length <= 1 THEN 0 ELSE Least(Len(PromptHashes), c)
              IN IF count = 0 THEN NoKey ELSE PromptHashes[count]
    BY DEF FinalCaptureKey, q, r
  <2> HIDE DEF c, key
  <2>. QED
    BY <2>1, <2>2
<1> HIDE DEF key, c
<1>10. length <= 1 => q = 0
  <2> SUFFICES ASSUME length = 1, q >= 1 PROVE FALSE
    BY <1>0, <1>2
  <2>1. 1 * ReplayAlignment <= q * ReplayAlignment
    BY <1>0, <1>2, Multiples, 1 \in Nat
  <2>. QED
    BY <2>1, <1>0, <1>2
<1>11. CASE q = 0
  BY <1>11, <1>8, <1>9 DEF key, q
<1>12. CASE q # 0
  <2>1. key = c /\ c \in Hash
    BY <1>12, <1>3, <1>5, <1>7, <1>8, <1>9, <1>10
  <2>2. Boundary(key) = q * ReplayAlignment /\ Boundary(key) <= length
    BY <2>1, <1>5, <1>6, Keys
  <2>. QED
    BY <2>1, <2>2 DEF key, q
<1>. QED
  BY <1>11, <1>12

-------------------------------------------------------------------------------
(* A set of keys has a deepest one.                                         *)
LEMMA DeepestKey ==
  ASSUME NEW K \in SUBSET Hash, K # {}
  PROVE  Deepest(K) \in K /\ \A l \in K : l <= Deepest(K)
<1> DEFINE U == {n \in Nat : \A l \in K : l <= n}
<1>1. \A k \in K : k \in Nat \ {0} /\ k <= MaxBlocks /\ Depth[k] = k
  BY Keys
<1>2. MaxBlocks \in U
  BY <1>1, PrefillAssumption
<1>3. PICK m \in U : \A n \in U : <<n, m>> \notin OpToRel(<, Nat)
  BY <1>2, WFMin, NatLessThanWellFounded
<1>4. m \in Nat /\ \A l \in K : l <= m
  OBVIOUS
<1>5. m \in K
  <2> SUFFICES ASSUME m \notin K PROVE FALSE
    OBVIOUS
  <2>1. PICK k \in K : TRUE
    OBVIOUS
  <2>2. m - 1 \in Nat /\ m - 1 < m
    BY <2>1, <1>1, <1>4
  <2>3. m - 1 \in U
    BY <2>2, <1>1, <1>4
  <2>4. <<m - 1, m>> \in OpToRel(<, Nat)
    BY <2>2, <1>4 DEF OpToRel
  <2> HIDE DEF U
  <2>. QED
    BY <2>3, <2>4, <1>3
<1>6. \A l \in K : Depth[l] <= Depth[m]
  BY <1>1, <1>4, <1>5
<1>7. Deepest(K) \in K /\ \A l \in K : Depth[l] <= Depth[Deepest(K)]
  BY <1>5, <1>6 DEF Deepest
<1>. QED
  BY <1>1, <1>7

(* Moving a key of the index to its end leaves its keys as they are.         *)
LEMMA MovingKeepsKeys ==
  ASSUME NEW S, NEW s \in Seq(S), NEW key \in Resident(s)
  PROVE  Resident(MovedToEnd(s, key)) = Resident(s)
<1> DEFINE I == {i \in 1..Len(s) : s[i] = key}
           m == Min(I)
           t == RemoveAt(s, m)
<1>1. PICK k \in 1..Len(s) : s[k] = key
  BY DEF Resident
<1>2. m \in I
  <2>1. I \subseteq Nat /\ k \in I
    BY <1>1
  <2>2. PICK x \in I : \A y \in I : <<y, x>> \notin OpToRel(<, Nat)
    BY <2>1, WFMin, NatLessThanWellFounded
  <2>3. ASSUME NEW y \in I PROVE x <= y
    <3>1. x \in Nat /\ y \in Nat
      BY <2>1
    <3>2. y < x => <<y, x>> \in OpToRel(<, Nat)
      BY <3>1 DEF OpToRel
    <3>3. <<y, x>> \notin OpToRel(<, Nat)
      <4> HIDE DEF I
      <4>. QED
        BY <2>2
    <3>4. ~(y < x)
      BY <3>2, <3>3, Zenon
    <3>. QED
      BY <3>1, <3>4
  <2>. QED
    BY <2>3 DEF Min
<1>3. MovedToEnd(s, key) = Append(t, key)
  BY <1>1 DEF MovedToEnd, RemoveFirst, SelectInSeq
<1>4. m \in 1..Len(s) /\ s[m] = key /\ Len(s) \in Nat /\ key \in S
  BY <1>2, LenProperties
<1> HIDE DEF m
<1> DEFINE a == SubSeq(s, 1, m - 1)
           b == SubSeq(s, m + 1, Len(s))
<1>5. /\ a \in Seq(S) /\ Len(a) = m - 1 /\ \A i \in 1..(m - 1) : a[i] = s[i]
      /\ b \in Seq(S) /\ Len(b) = Len(s) - m /\ \A i \in 1..(Len(s) - m) : b[i] = s[m + i]
  BY <1>4
<1>6. t = a \o b
  BY DEF RemoveAt
<1> HIDE DEF t, a, b
<1>7. /\ t \in Seq(S) /\ Len(t) = Len(s) - 1
      /\ \A i \in 1..(Len(s) - 1) : t[i] = IF i < m THEN s[i] ELSE s[i + 1]
  <2>1. t \in Seq(S) /\ Len(t) = Len(a) + Len(b)
        /\ \A i \in 1..(Len(a) + Len(b)) : t[i] = IF i <= Len(a) THEN a[i] ELSE b[i - Len(a)]
    BY <1>5, <1>6, ConcatProperties
  <2>2. Len(a) + Len(b) = Len(s) - 1
    BY <1>4, <1>5
  <2>3. ASSUME NEW i \in 1..(Len(s) - 1) PROVE t[i] = IF i < m THEN s[i] ELSE s[i + 1]
    <3>1. CASE i < m
      <4>1. i \in 1..(m - 1) /\ i <= Len(a)
        BY <3>1, <1>4, <1>5
      <4>. QED
        BY <4>1, <3>1, <2>1, <2>2, <1>5
    <3>2. CASE ~(i < m)
      <4>1. i - Len(a) \in 1..(Len(s) - m) /\ m + (i - Len(a)) = i + 1 /\ ~(i <= Len(a))
        BY <3>2, <1>4, <1>5
      <4>. QED
        BY <4>1, <3>2, <2>1, <2>2, <1>5
    <3>. QED
      BY <3>1, <3>2
  <2>. QED
    BY <2>1, <2>2, <2>3
<1> DEFINE u == Append(t, key)
<1>8. u \in Seq(S) /\ Len(u) = Len(s) /\ u[Len(s)] = key
      /\ \A i \in 1..(Len(s) - 1) : u[i] = IF i < m THEN s[i] ELSE s[i + 1]
  BY <1>4, <1>7
<1> HIDE DEF u
<1>9. Resident(u) = {u[i] : i \in 1..Len(s)} /\ Resident(s) = {s[i] : i \in 1..Len(s)}
  BY <1>8 DEF Resident
<1>10. ASSUME NEW i \in 1..Len(s) PROVE u[i] \in Resident(s)
  <2>1. i = Len(s) \/ i \in 1..(Len(s) - 1)
    BY <1>4
  <2>2. i \in 1..(Len(s) - 1) => i + 1 \in 1..Len(s)
    BY <1>4
  <2>. QED
    BY <2>1, <2>2, <1>8, <1>9
<1>11. ASSUME NEW i \in 1..Len(s) PROVE s[i] \in Resident(u)
  <2>1. CASE i < m
    <3>1. i \in 1..(Len(s) - 1)
      BY <2>1, <1>4
    <3>. QED
      BY <3>1, <2>1, <1>8, <1>9
  <2>2. CASE i = m
    <3>1. Len(s) \in 1..Len(s)
      BY <1>4
    <3>. QED
      BY <3>1, <2>2, <1>4, <1>8, <1>9
  <2>3. CASE i > m
    <3>1. i - 1 \in 1..(Len(s) - 1) /\ ~(i - 1 < m) /\ (i - 1) + 1 = i /\ i - 1 \in 1..Len(s)
      BY <2>3, <1>4
    <3>2. u[i - 1] = s[i]
      BY <3>1, <1>8
    <3>. QED
      BY <3>1, <3>2, <1>9
  <2>. QED
    BY <2>1, <2>2, <2>3, <1>4
<1>. QED
  BY <1>3, <1>9, <1>10, <1>11 DEF u

-------------------------------------------------------------------------------
(* What planning may ask for: the restored key leaves a token to compute, and *)
(* every checkpoint to capture lies beyond it.  (Under fine32 it may be the   *)
(* restored one itself: there the targets are not used.)                    *)
PlanOK(key, wanted) ==
  /\ key \in Hash \cup {NoKey}
  /\ key # NoKey => Boundary(key) < length
  /\ wanted \subseteq Hash
  /\ \A t \in wanted :
       /\ Boundary(t) <= length
       /\ key # NoKey /\ Policy = "admission64" => Boundary(key) < Boundary(t)

(* A key that may be restored is at most as deep as the final checkpoint.     *)
LEMMA LiveBelowFinal ==
  ASSUME LengthOK, NEW computedBlocks \in Nat,
         NEW k \in LiveKeys(PromptHashes, length, computedBlocks)
  PROVE  /\ k \in Hash /\ Boundary(k) < length
         /\ FinalCaptureKey(PromptHashes, length, RestoreMode) \in Hash
         /\ k <= FinalCaptureKey(PromptHashes, length, RestoreMode)
<1> DEFINE N == length \div BlockSize
           strict == StrictPrefixBlockCount(length)
           depth == Least(computedBlocks, Least(Len(PromptHashes), strict))
           directFinal == FinalCaptureKey(PromptHashes, length, "direct")
           final == FinalCaptureKey(PromptHashes, length, RestoreMode)
<1>0. BlockSize \in Nat \ {0} /\ length \in Nat /\ length >= 1 /\ length \in 1..length
  BY PrefillAssumption DEF LengthOK
<1>1. Len(PromptHashes) = N /\ N \in 0..MaxBlocks /\ \A i \in 1..N : PromptHashes[i] = i /\ i \in Hash
  BY Hashes
<1>2. k \in {PromptHashes[i] : i \in 1..depth} /\ RestoreKeyIsEligible(k, length, directFinal)
  BY DEF LiveKeys
<1>3. strict \in Nat
  BY <1>0, Division, length - 1 \in Nat DEF StrictPrefixBlockCount
<1>4. depth \in 0..N
  <2> HIDE DEF strict, N
  <2>. QED
    BY <1>1, <1>3 DEF Least
<1> HIDE DEF depth, strict, N
<1>5. k \in Hash
  BY <1>1, <1>2, <1>4
<1>6. k \in Nat /\ Boundary(k) = k * BlockSize /\ Boundary(k) \in Nat
  BY <1>5, Keys
<1>7. length - Boundary(k) > 0
  BY <1>2 DEF RestoreKeyIsEligible
<1>8. CASE RestoreMode \in {"direct", "hybrid64"}
  <2>1. length - Boundary(k) >= 2
    BY <1>2, <1>8 DEF RestoreKeyIsEligible, MinReplayTokens
  <2>2. DirectFinal(final, length)
    BY <1>0, <1>8, FinalDirect
  <2> HIDE DEF final
  <2>3. 1 * BlockSize <= k * BlockSize
    BY <1>0, <1>5, <1>6, Keys, Multiples, 1 \in Nat, 1 <= k
  <2>4. final \in Hash /\ length - 2 < Boundary(final) + BlockSize
    BY <2>1, <2>2, <2>3, <1>0, <1>6 DEF DirectFinal
  <2>5. final \in Nat /\ Boundary(final) = final * BlockSize /\ Boundary(final) \in Nat
    BY <2>4, Keys
  <2>6. k * BlockSize < final * BlockSize + BlockSize
    BY <2>1, <2>4, <2>5, <1>0, <1>6
  <2>7. k <= final
    BY <2>5, <2>6, <1>0, <1>6, Multiples
  <2>. QED
    BY <2>4, <2>7, <1>0, <1>5, <1>6, <1>7 DEF final
<1>9. CASE RestoreMode \notin {"direct", "hybrid64"}
  <2> DEFINE q == (length - 1) \div ReplayAlignment
             j == Boundary(k) \div ReplayAlignment
  <2>0. ReplayAlignment \in Nat \ {0}
    BY GdnAlignmentAssumption
  <2>1. Boundary(k) % ReplayAlignment = 0
    BY <1>2, <1>9 DEF RestoreKeyIsEligible
  <2>2. j \in Nat /\ Boundary(k) = j * ReplayAlignment
    <3>1. j \in Nat /\ Boundary(k) = j * ReplayAlignment + 0
      BY <2>0, <2>1, <1>6, Division
    <3>2. j * ReplayAlignment \in Nat
      BY <3>1, <2>0, Multiples
    <3> HIDE DEF j
    <3>. QED
      BY <3>1, <3>2
  <2>3. q \in Nat /\ length - 1 < q * ReplayAlignment + ReplayAlignment
    <3>0. length - 1 \in Nat
      BY <1>0
    <3>1. PICK t \in 0..(ReplayAlignment - 1) : t = (length - 1) % ReplayAlignment
      BY <2>0, <3>0, Division
    <3>2. q \in Nat /\ length - 1 = q * ReplayAlignment + t
      BY <2>0, <3>0, <3>1, Division
    <3>3. q * ReplayAlignment \in Nat
      BY <3>2, <2>0, Multiples
    <3> HIDE DEF q
    <3>. QED
      BY <3>1, <3>2, <3>3, <2>0, <1>0
  <2> HIDE DEF q, j
  <2>4. j <= q
    <3>1. j * ReplayAlignment \in Nat /\ q * ReplayAlignment \in Nat
      BY <2>0, <2>2, <2>3, Multiples
    <3>2. j * ReplayAlignment < q * ReplayAlignment + ReplayAlignment
      BY <3>1, <2>0, <2>2, <2>3, <1>0, <1>6, <1>7
    <3>. QED
      BY <3>2, <2>0, <2>2, <2>3, Multiples
  <2>5. j * ReplayAlignment <= q * ReplayAlignment
    BY <2>0, <2>2, <2>3, <2>4, Multiples
  <2>6. q # 0
    <3>1. Boundary(k) >= BlockSize
      BY <1>5, Keys
    <3>2. j # 0
      <4>1. j = 0 => j * ReplayAlignment = 0
        BY <2>0
      <4>. QED
        BY <4>1, <3>1, <2>2, <1>0
    <3>. QED
      BY <3>2, <2>2, <2>3, <2>4
  <2>7. final \in Hash /\ Boundary(final) = q * ReplayAlignment
    BY <2>6, <1>9, FinalAligned DEF q
  <2> HIDE DEF final
  <2>8. final \in Nat /\ Boundary(final) = final * BlockSize
    BY <2>7, Keys
  <2>9. k * BlockSize <= final * BlockSize
    BY <2>2, <2>5, <2>7, <2>8, <1>6
  <2>10. k <= final
    BY <2>8, <2>9, <1>0, <1>6, Multiples
  <2>. QED
    BY <2>7, <2>10, <1>0, <1>5, <1>6, <1>7 DEF final
<1>. QED
  BY <1>8, <1>9

LEMMA PlanningOK ==
  ASSUME LengthOK, index \in Seq(Hash), NEW computedBlocks \in Nat
  PROVE  LET live == LiveKeys(PromptHashes, length, computedBlocks)
             key == RestoreKey(index, live)
         IN  PlanOK(key, CaptureTargets(PromptHashes, length, live, AfterRestore(index, key)))
<1> DEFINE live == LiveKeys(PromptHashes, length, computedBlocks)
           key == RestoreKey(index, live)
           after == AfterRestore(index, key)
           final == FinalCaptureKey(PromptHashes, length, RestoreMode)
           wanted == CaptureTargets(PromptHashes, length, live, after)
<1>1. \A k \in live : k \in Hash /\ Boundary(k) < length /\ final \in Hash /\ k <= final
  BY LiveBelowFinal
<1>2. final \in Hash \cup {NoKey} /\ (final \in Hash => Boundary(final) <= length)
  <2>1. CASE RestoreMode \in {"direct", "hybrid64"}
    <3>1. length \in 1..length
      BY DEF LengthOK
    <3>2. DirectFinal(final, length)
      BY <2>1, <3>1, FinalDirect
    <3> HIDE DEF final
    <3>. QED
      BY <3>2, NoKeyAssumption DEF DirectFinal
  <2>2. CASE RestoreMode \notin {"direct", "hybrid64"}
    <3>1. \/ final = NoKey
          \/ final \in Hash /\ Boundary(final) <= length
      BY <2>2, FinalAligned
    <3> HIDE DEF final
    <3>. QED
      BY <3>1, NoKeyAssumption
  <2>. QED
    BY <2>1, <2>2
<1> HIDE DEF live, final
<1>3. key # NoKey => key \in live /\ key \in Resident(index)
  <2> SUFFICES ASSUME key # NoKey PROVE key \in live \cap Resident(index)
    OBVIOUS
  <2>1. key = Deepest(live \cap Resident(index))
    BY DEF RestoreKey
  <2>2. live \cap Resident(index) # {}
    BY <2>1 DEF Deepest
  <2>3. live \cap Resident(index) \in SUBSET Hash
    BY <1>1
  <2> HIDE DEF key
  <2>. QED
    BY <2>1, <2>2, <2>3, DeepestKey
<1> HIDE DEF key
<1>4. key # NoKey => key \in Resident(after)
  BY <1>3, MovingKeepsKeys DEF AfterRestore
<1> HIDE DEF after
<1>5. key \in Hash \cup {NoKey} /\ (key # NoKey => Boundary(key) < length)
  BY <1>1, <1>3
<1> DEFINE branch == RepeatedBranch(after, live)
<1>6. ASSUME branch # NoKey
      PROVE  branch \in live /\ branch \notin Resident(after) /\ \A k \in live : k <= branch
  <2>1. branch = Deepest(live) /\ branch \notin Resident(after)
    BY <1>6 DEF RepeatedBranch
  <2>2. live # {}
    BY <2>1, <1>6 DEF Deepest
  <2>3. live \in SUBSET Hash
    BY <1>1
  <2> HIDE DEF branch
  <2>. QED
    BY <2>1, <2>2, <2>3, DeepestKey
<1> HIDE DEF branch
<1>7. ASSUME NEW t \in wanted
      PROVE  \/ t = branch /\ branch # NoKey
             \/ t = final /\ final # NoKey /\ ShouldCaptureFinal(after, final)
  BY DEF CaptureTargets, branch, final
<1>8. ASSUME NEW t \in wanted
      PROVE  /\ t \in Hash /\ Boundary(t) <= length
             /\ key # NoKey /\ Policy = "admission64" => Boundary(key) < Boundary(t)
  <2>1. t \in Hash /\ Boundary(t) <= length
    <3>1. CASE t = branch /\ branch # NoKey
      <4>1. t \in Hash /\ Boundary(t) < length
        BY <3>1, <1>1, <1>6
      <4>. QED
        BY <4>1, Keys DEF LengthOK
    <3>2. CASE t = final /\ final # NoKey
      BY <3>2, <1>2
    <3>. QED
      BY <3>1, <3>2, <1>7, <1>8
  <2>2. ASSUME key # NoKey, Policy = "admission64" PROVE Boundary(key) < Boundary(t)
    <3>1. key <= t
      BY <2>2, <1>1, <1>3, <1>6, <1>7, <1>8
    <3>2. key # t
      <4>1. CASE t = branch /\ branch # NoKey
        BY <4>1, <2>2, <1>4, <1>6
      <4>2. CASE t = final /\ ShouldCaptureFinal(after, final)
        BY <4>2, <2>2, <1>4 DEF ShouldCaptureFinal
      <4>. QED
        BY <4>1, <4>2, <1>7, <1>8
    <3>3. key \in Hash /\ key \in Nat /\ t \in Nat /\ Boundary(key) = key * BlockSize
          /\ Boundary(t) = t * BlockSize
      BY <2>1, <2>2, <1>5, Keys
    <3>4. key < t
      BY <3>1, <3>2, <3>3
    <3>. QED
      BY <3>3, <3>4, Multiples, PrefillAssumption, BlockSize \in Nat \ {0}
  <2>. QED
    BY <2>1, <2>2
<1>. QED
  BY <1>5, <1>8 DEF PlanOK, live, key, after, wanted

-------------------------------------------------------------------------------
(* Where a step ends once it is capped at the first pending boundary.         *)
CapOK(start, end_, targets_, e) ==
  /\ e \in Nat /\ start < e /\ e <= end_
  /\ e = end_ \/ \E t \in targets_ : e = Boundary(t)
  /\ Policy = "admission64" => \A t \in targets_ : ~(start < Boundary(t) /\ Boundary(t) < e)

LEMMA SmallestNumber ==
  ASSUME NEW S \in SUBSET Nat, S # {}
  PROVE  \E e \in S : \A f \in S : e <= f
<1>1. PICK e \in S : \A f \in S : <<f, e>> \notin OpToRel(<, Nat)
  BY WFMin, NatLessThanWellFounded
<1>2. ASSUME NEW f \in S PROVE e <= f
  <2>1. f < e => <<f, e>> \in OpToRel(<, Nat)
    BY DEF OpToRel
  <2>2. ~(f < e)
    BY <2>1, <1>1, Zenon
  <2>. QED
    BY <2>2
<1>. QED
  BY <1>2

LEMMA Capping ==
  ASSUME NEW T \in SUBSET Hash, NEW start \in Nat, NEW e0 \in Nat, start < e0
  PROVE  CapOK(start, e0, T, CappedEnd(start, e0, T))
<1>1. CASE Policy # "admission64"
  BY <1>1 DEF CapOK, CappedEnd
<1>2. CASE Policy = "admission64"
  <2> DEFINE ends == {e0} \cup {Boundary(k) : k \in {t \in T : start < Boundary(t) /\ Boundary(t) < e0}}
             e == CHOOSE x \in ends : \A f \in ends : x <= f
  <2>1. CappedEnd(start, e0, T) = e
    BY <1>2 DEF CappedEnd, CapPrefillEnd
  <2>2. ends \in SUBSET Nat /\ ends # {}
    BY Keys
  <2>3. e \in ends /\ \A f \in ends : e <= f
    <3> HIDE DEF ends
    <3>. QED
      BY <2>2, SmallestNumber
  <2> HIDE DEF e
  <2>4. e \in Nat /\ start < e /\ e <= e0 /\ (e = e0 \/ \E t \in T : e = Boundary(t))
    BY <2>2, <2>3
  <2>5. ASSUME NEW t \in T, start < Boundary(t), Boundary(t) < e PROVE FALSE
    <3>1. Boundary(t) \in Nat
      BY Keys
    <3>2. Boundary(t) \in ends
      BY <3>1, <2>4, <2>5
    <3>. QED
      BY <3>1, <3>2, <2>3, <2>4, <2>5
  <2>. QED
    BY <2>1, <2>4, <2>5 DEF CapOK
<1>. QED
  BY <1>1, <1>2

(* A capped end stays where it is when it is capped again from further on.    *)
LEMMA CappedTwice ==
  ASSUME NEW T \in SUBSET Hash, NEW start \in Nat, NEW from \in Nat, NEW e0 \in Nat, NEW e \in Nat,
         CapOK(start, e0, T, e), start <= from, from < e
  PROVE  CappedEnd(from, e, T) = e
<1>1. CapOK(from, e, T, CappedEnd(from, e, T))
  BY Capping
<1> DEFINE c == CappedEnd(from, e, T)
<1>2. Policy # "admission64" => c = e
  BY DEF CappedEnd
<1>3. ASSUME Policy = "admission64" PROVE c = e
  <2> HIDE DEF c
  <2>1. c \in Nat /\ from < c /\ c <= e /\ (c = e \/ \E t \in T : c = Boundary(t))
    BY <1>1 DEF CapOK, c
  <2>2. ASSUME NEW t \in T, c = Boundary(t), c # e PROVE FALSE
    BY <2>1, <2>2, <1>3 DEF CapOK
  <2>. QED
    BY <2>1, <2>2
<1>. QED
  BY <1>2, <1>3

LEMMA WholeSums ==
  ASSUME NEW a \in Nat, NEW b \in Nat, WholeBlocks(a), WholeBlocks(b)
  PROVE  WholeBlocks(a + b)
<1>0. BlockSize \in Nat
  BY PrefillAssumption
<1>1. PICK i \in Nat : a = i * BlockSize
  BY DEF WholeBlocks
<1>2. PICK j \in Nat : b = j * BlockSize
  BY DEF WholeBlocks
<1>3. (i + j) * BlockSize = i * BlockSize + j * BlockSize
  BY <1>0, SMT
<1>. QED
  BY <1>1, <1>2, <1>3, i + j \in Nat DEF WholeBlocks

LEMMA WholeChunks ==
  ASSUME NEW n \in Nat
  PROVE  n * Chunk \in Nat /\ WholeBlocks(n * Chunk)
<1>0. BlockSize \in Nat \ {0} /\ Chunk \in Nat \ {0} /\ Chunk % BlockSize = 0
  BY PrefillAssumption
<1> DEFINE r == Chunk \div BlockSize
<1>1. r \in Nat /\ Chunk = r * BlockSize + 0
  BY <1>0, Division
<1>2. r * BlockSize \in Nat
  BY <1>0, <1>1, Multiples
<1> HIDE DEF r
<1>3. Chunk = r * BlockSize
  BY <1>1, <1>2
<1>4. n * (r * BlockSize) = (n * r) * BlockSize
  BY <1>0, <1>1, SMT
<1>5. n * r \in Nat
  BY <1>1, SMT
<1>6. n * Chunk = (n * r) * BlockSize
  BY <1>3, <1>4
<1>7. n * Chunk \in Nat
  BY <1>0, Multiples
<1>. QED
  BY <1>5, <1>6, <1>7 DEF WholeBlocks

(* The first chunk: beyond the restored prefix, within the prompt, at the first *)
(* boundary to capture, and at the end of a block when the budget is whole.   *)
LEMMA FirstChunkOK ==
  ASSUME LengthOK, NEW key, NEW wanted, PlanOK(key, wanted),
         NEW nominal \in 1..length, NEW budget \in Nat, nominal <= budget
  PROVE  LET e == FirstChunk(key, wanted, length, nominal, budget, Chunk).end
             from == IF key = NoKey THEN 0 ELSE Boundary(key)
         IN /\ e \in Nat /\ from < e /\ e <= length
            /\ CappedEnd(from, e, wanted) = e
            /\ budget = Chunk /\ (nominal = length \/ WholeBlocks(nominal))
                 => e = length \/ WholeBlocks(e)
<1> DEFINE from == IF key = NoKey THEN 0 ELSE Boundary(key)
           plan == IF key = NoKey THEN <<nominal, nominal>>
                   ELSE FastForward(key, length, nominal, budget, Chunk)
           start == plan[1] - plan[2]
           e == CappedEnd(start, plan[1], wanted)
<1>0. length \in Nat /\ nominal \in Nat /\ nominal >= 1 /\ nominal <= length /\ budget >= 1
      /\ BlockSize \in Nat \ {0} /\ Chunk \in Nat \ {0}
  BY PrefillAssumption DEF LengthOK
<1>1. from \in Nat /\ from < length /\ (key # NoKey => WholeBlocks(from)) /\ wanted \in SUBSET Hash
  BY <1>0, Keys DEF PlanOK
<1>2. /\ plan[1] \in Nat /\ from < plan[1] /\ plan[1] <= length
      /\ start = 0 \/ start = from
      /\ budget = Chunk /\ (nominal = length \/ WholeBlocks(nominal))
           => plan[1] = length \/ WholeBlocks(plan[1])
  <2>1. CASE key = NoKey
    BY <2>1, <1>0
  <2>2. CASE key # NoKey
    <3> DEFINE nextChunk == (from \div Chunk + 1) * Chunk
               limit == IF RestoreMode = "hybrid64" THEN Least(from + budget, nextChunk)
                        ELSE from + budget
               logical == Least(length, limit)
               physical == logical - from
               fallsBack == \/ physical <= 0
                            \/ physical > budget
                            \/ /\ logical <= nominal
                               /\ RestoreMode # "hybrid64" \/ physical >= nominal
    <3>1. plan = IF fallsBack THEN <<nominal, nominal>> ELSE <<logical, physical>>
      BY <2>2 DEF FastForward
    <3>2. nextChunk \in Nat /\ from < nextChunk /\ WholeBlocks(nextChunk)
      <4> DEFINE q == from \div Chunk
      <4>1. PICK t \in 0..(Chunk - 1) : t = from % Chunk
        BY <1>0, <1>1, Division
      <4>2. q \in Nat /\ from = q * Chunk + t
        BY <1>0, <1>1, <4>1, Division
      <4> HIDE DEF q
      <4>3. (q + 1) * Chunk = q * Chunk + Chunk /\ q * Chunk \in Nat
        BY <4>2, <1>0, SMT
      <4>4. from < (q + 1) * Chunk
        BY <4>1, <4>2, <4>3, <1>0
      <4>5. (q + 1) * Chunk \in Nat /\ WholeBlocks((q + 1) * Chunk)
        BY <4>2, WholeChunks, q + 1 \in Nat
      <4>. QED
        BY <4>4, <4>5 DEF q
    <3> HIDE DEF nextChunk
    <3>3. limit \in Nat /\ from < limit /\ limit <= from + budget
      BY <3>2, <1>0, <1>1 DEF Least
    <3>4. budget = Chunk => WholeBlocks(limit)
      <4>1. budget = Chunk => WholeBlocks(budget)
        BY WholeChunks, <1>0, 1 \in Nat, 1 * Chunk = Chunk
      <4>2. budget = Chunk => WholeBlocks(from + budget)
        BY <4>1, WholeSums, <1>1, <2>2
      <4>. QED
        BY <4>2, <3>2 DEF Least
    <3> HIDE DEF limit
    <3>5. logical \in Nat /\ from < logical /\ logical <= length /\ logical <= from + budget
          /\ (logical = length \/ logical = limit)
      BY <3>3, <1>0, <1>1 DEF Least
    <3> HIDE DEF logical, from
    <3>6. CASE fallsBack
      <4>1. logical <= nominal
        BY <3>5, <3>6, <1>0, <1>1
      <4> HIDE DEF fallsBack
      <4>2. plan[1] = nominal /\ plan[2] = nominal
        BY <3>1, <3>6
      <4> HIDE DEF plan
      <4>. QED
        BY <4>1, <4>2, <3>5, <1>0, <1>1
    <3>7. CASE ~fallsBack
      <4>1. plan[1] = logical /\ plan[2] = physical
        BY <3>1, <3>7
      <4> HIDE DEF plan, fallsBack
      <4>. QED
        BY <4>1, <3>4, <3>5, <1>0, <1>1
    <3>. QED
      BY <3>6, <3>7
  <2>. QED
    BY <2>1, <2>2
<1>3. FirstChunk(key, wanted, length, nominal, budget, Chunk).end = e
  BY DEF FirstChunk
<1> HIDE DEF plan, start
<1>4. start \in Nat /\ start <= from /\ start < plan[1]
  BY <1>1, <1>2
<1>5. CapOK(start, plan[1], wanted, e)
  BY <1>1, <1>2, <1>4, Capping
<1> HIDE DEF e
<1>6. e \in Nat /\ e <= plan[1] /\ start < e
  BY <1>5 DEF CapOK
<1>7. from < e
  <2>1. CASE e = plan[1]
    BY <2>1, <1>2
  <2>2. CASE e # plan[1]
    <3>1. PICK t \in wanted : e = Boundary(t)
      BY <2>2, <1>5 DEF CapOK
    <3>2. Policy = "admission64"
      BY <2>2 DEF e, CappedEnd
    <3>. QED
      BY <3>1, <3>2, <1>4, <1>6 DEF PlanOK
  <2>. QED
    BY <2>1, <2>2
<1>8. CappedEnd(from, e, wanted) = e
  BY <1>1, <1>2, <1>4, <1>5, <1>6, <1>7, CappedTwice
<1>9. ASSUME budget = Chunk, nominal = length \/ WholeBlocks(nominal)
      PROVE  e = length \/ WholeBlocks(e)
  <2>1. \A t \in wanted : WholeBlocks(Boundary(t))
    BY <1>1, Keys
  <2>. QED
    BY <2>1, <1>2, <1>5, <1>9 DEF CapOK
<1>10. e <= length
  BY <1>0, <1>2, <1>6
<1> HIDE DEF from
<1>. QED
  BY <1>3, <1>6, <1>7, <1>8, <1>9, <1>10 DEF from

-------------------------------------------------------------------------------
(* The inductive invariant.                                                *)
AtBlockEnd(n) == n = length \/ WholeBlocks(n)

PlanInv ==
  /\ LengthOK /\ alone \in BOOLEAN /\ planned \in BOOLEAN
  /\ done \in Nat /\ done <= length /\ end \in Nat
  /\ PlanOK(restored, targets)
  /\ ~planned /\ done = 0 => index \in Seq(Hash)
  /\ done > 0 => Restored < done

(* Alone, a request fills whole blocks until its last chunk.                 *)
BlockInv == alone => AtBlockEnd(done) /\ (planned => AtBlockEnd(end))

(* What lies behind is captured, ...                                       *)
CaptureInv ==
  Policy = "admission64" /\ done > 0 =>
    \A t \in targets : Boundary(t) <= done => t \in captured

(* ... and cut where a cold run cuts.                                       *)
CutInv ==
  RestoreMode = "hybrid64" /\ Policy = "admission64" /\ alone /\ done > 0 =>
    \A c \in ColdCuts : Restored < c /\ c <= done => c \in cuts

PrefillInv == PlanInv /\ StepsAdvance /\ BlockInv /\ CaptureInv /\ CutInv

LEMMA RestoredType ==
  ASSUME PlanOK(restored, targets), LengthOK
  PROVE  Restored \in Nat /\ Restored < length
BY Keys DEF Restored, PlanOK, LengthOK

LEMMA NewTokens ==
  ASSUME LengthOK, done \in Nat, done <= length, NEW share \in BlockSize..Chunk
  PROVE  /\ NumNewTokens(share) \in Nat
         /\ NumNewTokens(share) <= share /\ done + NumNewTokens(share) <= length
         /\ share = Chunk => NumNewTokens(share) = length - done \/ WholeBlocks(NumNewTokens(share))
<1>0. BlockSize \in Nat \ {0} /\ share \in Nat /\ length \in Nat
  BY PrefillAssumption DEF LengthOK
<1> DEFINE q == share \div BlockSize
           x == q * BlockSize
<1>1. q \in Nat /\ x \in Nat /\ x <= share
  <2>1. PICK r \in 0..(BlockSize - 1) : r = share % BlockSize
    BY <1>0, Division
  <2>2. q \in Nat /\ share = q * BlockSize + r
    BY <1>0, <2>1, Division
  <2>3. q * BlockSize \in Nat
    BY <1>0, <2>2, Multiples
  <2> HIDE DEF q
  <2>. QED
    BY <1>0, <2>1, <2>2, <2>3
<1>2. WholeBlocks(x)
  BY <1>1 DEF WholeBlocks
<1>3. NumNewTokens(share) = IF share < length - done THEN x ELSE length - done
  BY DEF NumNewTokens
<1> HIDE DEF x
<1>. QED
  BY <1>0, <1>1, <1>2, <1>3

LEMMA InitPrefill == Init => PrefillInv
<1> SUFFICES ASSUME Init PROVE PrefillInv
  OBVIOUS
<1>0. BlockSize \in Nat \ {0} /\ MaxBlocks \in Nat
  BY PrefillAssumption
<1>1. LengthOK
  <2>1. (MaxBlocks + 1) * BlockSize = MaxBlocks * BlockSize + BlockSize /\ MaxBlocks * BlockSize \in Nat
    BY <1>0, SMT
  <2> DEFINE m == MaxBlocks * BlockSize
  <2>2. length \in 1..(m + BlockSize - 1)
    BY DEF Init
  <2> HIDE DEF m
  <2>3. length \in Nat \ {0} /\ length < m + BlockSize
    BY <2>1, <2>2, <1>0 DEF m
  <2>. QED
    BY <2>1, <2>3 DEF LengthOK, m
<1>2. index \in Seq(Hash)
  BY DEF Init, SeqOf
<1>3. PlanOK(restored, targets)
  BY DEF Init, PlanOK
<1>4. WholeBlocks(0)
  BY 0 \in Nat, <1>0, 0 = 0 * BlockSize DEF WholeBlocks
<1>5. PlanInv
  <2>1. alone \in BOOLEAN /\ planned \in BOOLEAN
    BY DEF Init
  <2>2. done = 0 /\ end = 0 /\ 0 <= length /\ ~(0 > 0)
    BY <1>1 DEF Init, LengthOK
  <2>. QED
    BY <2>1, <2>2, <1>1, <1>2, <1>3 DEF PlanInv
<1>6. StepsAdvance /\ BlockInv /\ CaptureInv /\ CutInv
  BY <1>4 DEF Init, StepsAdvance, BlockInv, CaptureInv, CutInv, AtBlockEnd
<1>. QED
  BY <1>5, <1>6 DEF PrefillInv

LEMMA PlanKeeps ==
  ASSUME PrefillInv, NEW share \in BlockSize..Chunk, alone => share = Chunk,
         NEW computedBlocks \in 0..MaxBlocks, Plan(share, computedBlocks)
  PROVE  PrefillInv'
<1> DEFINE live == LiveKeys(PromptHashes, length, computedBlocks)
           key == RestoreKey(index, live)
           after == AfterRestore(index, key)
           wanted == CaptureTargets(PromptHashes, length, live, after)
           nominal == NumNewTokens(share)
           chunk == FirstChunk(key, wanted, length, nominal, share, Chunk)
           from == IF key = NoKey THEN 0 ELSE Boundary(key)
<1>1. /\ ~planned /\ done = 0 /\ nominal > 0
      /\ restored' = key /\ targets' = wanted /\ end' = chunk.end /\ planned' = TRUE
      /\ UNCHANGED <<alone, length, done, captured, cuts>>
  BY DEF Plan
<1>2. LengthOK /\ index \in Seq(Hash) /\ done \in Nat /\ done <= length /\ length \in Nat
      /\ alone \in BOOLEAN
  BY <1>1 DEF PrefillInv, PlanInv, LengthOK
<1>3. PlanOK(key, wanted)
  BY <1>2, PlanningOK, PrefillAssumption, computedBlocks \in Nat
<1>4. /\ nominal \in Nat /\ nominal <= share /\ done + nominal <= length
      /\ share = Chunk => nominal = length - done \/ WholeBlocks(nominal)
  BY <1>2, NewTokens
<1> HIDE DEF live, key, after, wanted, nominal
<1>5. nominal \in 1..length /\ share \in Nat
  BY <1>1, <1>2, <1>4, PrefillAssumption
<1>6. /\ chunk.end \in Nat /\ from < chunk.end /\ chunk.end <= length
      /\ CappedEnd(from, chunk.end, wanted) = chunk.end
      /\ share = Chunk /\ (nominal = length \/ WholeBlocks(nominal))
           => chunk.end = length \/ WholeBlocks(chunk.end)
  BY <1>2, <1>3, <1>4, <1>5, FirstChunkOK
<1> HIDE DEF chunk
<1>7. Restored' = from
  BY <1>1 DEF Restored, Boundary
<1>8. PlanInv'
  <2>1. PlanOK(restored, targets)'
    BY <1>1, <1>3 DEF PlanOK, Boundary
  <2>. QED
    BY <2>1, <1>1, <1>2, <1>6 DEF PlanInv, LengthOK
<1>9. StepsAdvance'
  <2>1. from \in Nat
    BY <1>3, Keys DEF PlanOK
  <2>2. end' > done' /\ end' > Restored' /\ end' <= length'
    BY <2>1, <1>1, <1>2, <1>6, <1>7
  <2>3. CappedEnd(IF done = 0 THEN Restored ELSE done, end, targets)' = end'
    BY <1>1, <1>6, <1>7 DEF CappedEnd, CapPrefillEnd, Boundary
  <2>. QED
    BY <2>2, <2>3 DEF StepsAdvance
<1>10. BlockInv'
  <2>1. AtBlockEnd(0)
    BY 0 \in Nat, PrefillAssumption, 0 = 0 * BlockSize DEF WholeBlocks, AtBlockEnd
  <2>2. alone => chunk.end = length \/ WholeBlocks(chunk.end)
    BY <1>1, <1>2, <1>4, <1>6
  <2>. QED
    BY <2>1, <2>2, <1>1 DEF BlockInv, AtBlockEnd, WholeBlocks
<1>11. CaptureInv' /\ CutInv'
  BY <1>1 DEF CaptureInv, CutInv
<1>. QED
  BY <1>8, <1>9, <1>10, <1>11 DEF PrefillInv

LEMMA PlanNextKeeps ==
  ASSUME PrefillInv, NEW share \in BlockSize..Chunk, alone => share = Chunk, PlanNext(share)
  PROVE  PrefillInv'
<1> DEFINE n == NumNewTokens(share)
           e == CappedEnd(done, done + n, targets)
<1>1. /\ ~planned /\ 0 < done /\ done < length /\ n > 0 /\ end' = e /\ planned' = TRUE
      /\ UNCHANGED <<alone, length, index, targets, restored, done, captured, cuts>>
  BY DEF PlanNext
<1>2. /\ LengthOK /\ done \in Nat /\ length \in Nat /\ alone \in BOOLEAN
      /\ PlanOK(restored, targets) /\ Restored < done /\ targets \in SUBSET Hash
  BY <1>1 DEF PrefillInv, PlanInv, LengthOK, PlanOK
<1>3. /\ n \in Nat /\ done + n <= length
      /\ share = Chunk => n = length - done \/ WholeBlocks(n)
  BY <1>1, <1>2, NewTokens
<1> HIDE DEF n
<1>4. CapOK(done, done + n, targets, e)
  BY <1>1, <1>2, <1>3, Capping, done + n \in Nat, done < done + n
<1>5. Restored \in Nat
  BY <1>2, RestoredType
<1> HIDE DEF e
<1>6. e \in Nat /\ done < e /\ e <= length
  BY <1>2, <1>3, <1>4 DEF CapOK
<1>7. CappedEnd(done, e, targets) = e
  BY <1>2, <1>3, <1>4, <1>6, CappedTwice, done + n \in Nat
<1>8. Restored' = Restored
  BY <1>1 DEF Restored, Boundary
<1>9. PlanInv'
  <2>1. PlanOK(restored, targets)'
    BY <1>1, <1>2 DEF PlanOK, Boundary
  <2>. QED
    BY <2>1, <1>1, <1>2, <1>6, <1>8 DEF PlanInv, LengthOK
<1>10. StepsAdvance'
  <2>1. end' > done' /\ end' > Restored' /\ end' <= length'
    BY <1>1, <1>2, <1>5, <1>6, <1>8
  <2>2. CappedEnd(IF done = 0 THEN Restored ELSE done, end, targets)' = end'
    BY <1>1, <1>7 DEF CappedEnd, CapPrefillEnd, Boundary
  <2>. QED
    BY <2>1, <2>2 DEF StepsAdvance
<1>11. BlockInv'
  <2> SUFFICES ASSUME alone PROVE AtBlockEnd(done) /\ AtBlockEnd(e)
    BY <1>1 DEF BlockInv, AtBlockEnd, WholeBlocks
  <2>1. WholeBlocks(done)
    BY <1>1, <1>2 DEF PrefillInv, BlockInv, AtBlockEnd
  <2>2. done + n = length \/ WholeBlocks(done + n)
    <3>1. CASE n = length - done
      BY <3>1, <1>2
    <3>2. CASE WholeBlocks(n)
      BY <3>2, <2>1, <1>2, <1>3, WholeSums
    <3>. QED
      BY <3>1, <3>2, <1>3
  <2>3. \A t \in targets : WholeBlocks(Boundary(t))
    BY <1>2, Keys
  <2>. QED
    BY <2>1, <2>2, <2>3, <1>4 DEF CapOK, AtBlockEnd
<1>12. CaptureInv'
  BY <1>1 DEF PrefillInv, CaptureInv, Boundary
<1>13. CutInv'
  <2>1. ColdCuts' = ColdCuts
    BY <1>1 DEF ColdCuts, ColdEnds, PromptHashes, FinalCaptureKey, Boundary, Least,
       StrictPrefixBlockCount
  <2>. QED
    BY <2>1, <1>1, <1>8 DEF PrefillInv, CutInv
<1>. QED
  BY <1>9, <1>10, <1>11, <1>12, <1>13 DEF PrefillInv

(* Between the start and the end of a step no cut of the cold run is lost: it  *)
(* is the end of a chunk, or the checkpoint of a chunk that ends inside the    *)
(* step or where the step ends, or of the last chunk, which is then one token *)
(* longer than the step and has the same checkpoint.                        *)
LEMMA SegmentsCover ==
  ASSUME LengthOK, NEW start \in Nat, NEW e0 \in Nat, start < e0, e0 <= length, AtBlockEnd(e0),
         NEW c \in ColdCuts, start < c, c < e0
  PROVE  c \in SegmentEnds(PromptHashes, start, e0, Chunk)
<1> DEFINE chunkEnds == {e \in 1..(e0 - 1) : e % Chunk = 0}
           Final(e) == FinalCaptureKey(PromptHashes, e, "direct")
           directEnds == {Boundary(k) : k \in {Final(e) : e \in chunkEnds \cup {e0}} \ {NoKey}}
<1>0. BlockSize \in Nat \ {0} /\ BlockSize > 1 /\ length \in Nat /\ e0 \in 1..length
  BY PrefillAssumption DEF LengthOK
<1>1. SUFFICES c \in chunkEnds \cup directEnds
  BY DEF SegmentEnds
<1>2. CASE c \in ColdEnds
  <2>1. c \in 1..length /\ (c % Chunk = 0 \/ c = length)
    BY <1>2 DEF ColdEnds
  <2>2. c \in 1..(e0 - 1) /\ c # length
    BY <2>1, <1>0
  <2>. QED
    BY <2>1, <2>2
<1>3. CASE c \notin ColdEnds
  <2>1. PICK e \in ColdEnds : Final(e) # NoKey /\ c = Boundary(Final(e))
    BY <1>3 DEF ColdCuts
  <2>2. e \in 1..length /\ (e % Chunk = 0 \/ e = length)
    BY DEF ColdEnds
  <2>3. CASE e < e0
    <3>1. e \in chunkEnds
      BY <2>2, <2>3, <1>0
    <3> HIDE DEF chunkEnds, Final
    <3>. QED
      BY <3>1, <2>1
  <2>4. CASE e = e0
    <3> HIDE DEF chunkEnds, Final
    <3>. QED
      BY <2>4, <2>1
  <2>5. CASE e > e0
    <3>1. DirectFinal(Final(e), e)
      BY <2>2, FinalDirect
    <3>2. DirectFinal(Final(e0), e0)
      BY <1>0, FinalDirect
    <3> DEFINE k == Final(e)
               l == Final(e0)
    <3> HIDE DEF Final, chunkEnds, k, l
    <3>3. k \in Hash /\ c = Boundary(k) /\ c <= e - 2 /\ e - 2 < c + BlockSize
      BY <3>1, <2>1 DEF DirectFinal, k
    <3>4. k \in Nat /\ c = k * BlockSize /\ c \in Nat
      BY <3>3, Keys
    <3>5. PICK m \in Nat : e0 = m * BlockSize
      BY <2>2, <2>5, <1>0 DEF AtBlockEnd, WholeBlocks
    <3>6. c + BlockSize <= e0
      BY <3>4, <3>5, <1>0, Multiples
    <3>7. c = e0 - BlockSize
      BY <3>3, <3>4, <3>6, <2>2, <2>5, <1>0
    <3>8. l \in Hash /\ Boundary(l) <= e0 - 2 /\ e0 - 2 < Boundary(l) + BlockSize
      <4>1. BlockSize <= c
        BY <3>3, Keys
      <4>2. ~(e0 - 2 < BlockSize)
        BY <4>1, <3>4, <3>7, <1>0
      <4>. QED
        BY <3>2, <4>2 DEF DirectFinal, l
    <3>9. l \in Nat /\ Boundary(l) = l * BlockSize /\ Boundary(l) \in Nat
      BY <3>8, Keys
    <3>10. k <= l
      <4>1. k * BlockSize < l * BlockSize + BlockSize
        BY <3>4, <3>7, <3>8, <3>9, <1>0
      <4>. QED
        BY <4>1, <3>4, <3>9, <1>0, Multiples
    <3>11. l <= k
      <4>1. l * BlockSize < k * BlockSize + BlockSize
        BY <3>4, <3>7, <3>8, <3>9, <1>0
      <4>. QED
        BY <4>1, <3>4, <3>9, <1>0, Multiples
    <3>12. c = Boundary(l) /\ l # NoKey
      BY <3>3, <3>4, <3>8, <3>9, <3>10, <3>11, NoKeyAssumption
    <3>. QED
      BY <3>12 DEF l
  <2>. QED
    BY <2>2, <2>3, <2>4, <2>5, <1>0
<1>. QED
  BY <1>2, <1>3

LEMMA StepKeeps == ASSUME PrefillInv, Step PROVE PrefillInv'
<1> DEFINE start == IF done = 0 THEN Restored ELSE done
           captures == StepCaptures(PromptHashes, start, end, targets)
           segments == StepSegments(PromptHashes, start, end, Chunk)
<1>1. /\ planned /\ planned' = FALSE /\ done' = end
      /\ captured' = captured \cup captures
      /\ cuts' = cuts \cup {end} \cup segments \cup {Boundary(k) : k \in captures}
      /\ UNCHANGED <<alone, length, targets, restored, end>>
  BY DEF Step
<1>2. /\ LengthOK /\ length \in Nat /\ done \in Nat /\ end \in Nat /\ alone \in BOOLEAN
      /\ PlanOK(restored, targets) /\ targets \in SUBSET Hash
      /\ done > 0 => Restored < done
  BY DEF PrefillInv, PlanInv, LengthOK, PlanOK
<1>3. end > done /\ end > Restored /\ end <= length
  BY <1>1 DEF PrefillInv, StepsAdvance
<1>4. Restored \in Nat /\ Restored' = Restored
  BY <1>1, <1>2, RestoredType DEF Restored, Boundary
<1>5. start \in Nat /\ start < end /\ (start = done \/ (done = 0 /\ start = Restored))
  BY <1>2, <1>3, <1>4
<1> HIDE DEF start
<1>6. PlanInv'
  <2>1. PlanOK(restored, targets)'
    BY <1>1, <1>2 DEF PlanOK, Boundary
  <2>2. done' # 0
    BY <1>1, <1>2, <1>3
  <2>3. Restored' < done'
    BY <1>1, <1>3, <1>4
  <2>4. LengthOK'
    BY <1>1, <1>2 DEF LengthOK
  <2>5. done' \in Nat /\ done' <= length' /\ end' \in Nat /\ alone' \in BOOLEAN /\ planned' \in BOOLEAN
    BY <1>1, <1>2, <1>3
  <2>. QED
    BY <2>1, <2>2, <2>3, <2>4, <2>5 DEF PlanInv
<1>7. StepsAdvance'
  BY <1>1 DEF StepsAdvance
<1>8. BlockInv'
  BY <1>1 DEF PrefillInv, BlockInv, AtBlockEnd, WholeBlocks
<1>9. CaptureInv'
  <2> SUFFICES ASSUME Policy = "admission64", NEW t \in targets, Boundary(t) <= end
               PROVE  t \in captured \cup captures
    BY <1>1 DEF CaptureInv, Boundary
  <2>1. Boundary(t) \in Nat
    BY <1>2, Keys
  <2>2. CASE start < Boundary(t)
    <3>1. t \in captures
      BY <2>2 DEF StepCaptures, CapturedKeys
    <3>. QED
      BY <3>1
  <2>3. CASE Boundary(t) <= start /\ done = 0
    <3>1. start = Restored \/ start = 0
      BY <2>3, <1>5
    <3>2. Boundary(t) > 0
      BY <1>2, Keys, PrefillAssumption
    <3>3. Restored < Boundary(t)
      BY <3>2, <1>2 DEF PlanOK, Restored
    <3>. QED
      BY <2>1, <2>3, <3>1, <3>2, <3>3, <1>4, <1>5
  <2>4. CASE Boundary(t) <= start /\ done > 0
    <3>1. Boundary(t) <= done
      BY <2>4, <1>5
    <3>. QED
      BY <3>1, <2>4 DEF PrefillInv, CaptureInv
  <2>. QED
    BY <2>1, <2>2, <2>3, <2>4, <1>2, <1>5
<1>10. CutInv'
  <2>1. ColdCuts' = ColdCuts
    BY <1>1 DEF ColdCuts, ColdEnds, PromptHashes, FinalCaptureKey, Boundary, Least,
       StrictPrefixBlockCount
  <2> SUFFICES ASSUME RestoreMode = "hybrid64", Policy = "admission64", alone,
                      NEW c \in ColdCuts, Restored < c, c <= end
               PROVE  c \in cuts'
    BY <2>1, <1>1, <1>4 DEF CutInv
  <2>2. c \in Nat
    <3>1. c \in ColdEnds \/ \E e \in ColdEnds : FinalCaptureKey(PromptHashes, e, "direct") # NoKey
                              /\ c = Boundary(FinalCaptureKey(PromptHashes, e, "direct"))
      BY DEF ColdCuts
    <3>2. \A e \in ColdEnds : e \in 1..length
      BY DEF ColdEnds
    <3>3. ASSUME NEW e \in ColdEnds, FinalCaptureKey(PromptHashes, e, "direct") # NoKey
          PROVE  Boundary(FinalCaptureKey(PromptHashes, e, "direct")) \in Nat
      <4>1. DirectFinal(FinalCaptureKey(PromptHashes, e, "direct"), e)
        BY <3>2, <1>2, FinalDirect
      <4>2. FinalCaptureKey(PromptHashes, e, "direct") \in Hash
        BY <4>1, <3>3 DEF DirectFinal
      <4>. QED
        BY <4>2, Keys
    <3>4. c \in ColdEnds => c \in Nat
      BY <3>2, <1>2
    <3>. QED
      BY <3>1, <3>3, <3>4
  <2>3. CASE c = end
    BY <2>3, <1>1
  <2>4. CASE start < c /\ c < end
    <3>1. AtBlockEnd(end)
      BY <1>1 DEF PrefillInv, BlockInv
    <3>2. c \in SegmentEnds(PromptHashes, start, end, Chunk)
      BY <2>4, <3>1, <1>2, <1>3, <1>5, SegmentsCover
    <3>3. c \in segments
      BY <3>2 DEF StepSegments
    <3> HIDE DEF segments
    <3>. QED
      BY <3>3, <1>1
  <2>5. CASE c <= start
    <3>1. done > 0 /\ c <= done
      BY <2>5, <2>2, <1>2, <1>4, <1>5
    <3>2. c \in cuts
      BY <3>1 DEF PrefillInv, CutInv
    <3>. QED
      BY <3>2, <1>1
  <2>. QED
    BY <2>2, <2>3, <2>4, <2>5, <1>2, <1>5
<1>. QED
  BY <1>6, <1>7, <1>8, <1>9, <1>10 DEF PrefillInv

LEMMA PrefillStutter == ASSUME PrefillInv, UNCHANGED vars PROVE PrefillInv'
<1>1. /\ UNCHANGED <<alone, length, index, targets>>
      /\ UNCHANGED <<restored, planned, end, done, captured, cuts>>
  BY DEF vars
<1>2. Restored' = Restored
  BY <1>1 DEF Restored, Boundary
<1>3. PlanOK(restored, targets)' <=> PlanOK(restored, targets)
  BY <1>1 DEF PlanOK, Boundary
<1>4. PlanInv'
  BY <1>1, <1>2, <1>3 DEF PrefillInv, PlanInv, LengthOK
<1>5. StepsAdvance'
  BY <1>1, <1>2 DEF PrefillInv, StepsAdvance, CappedEnd, CapPrefillEnd, Boundary
<1>6. BlockInv' /\ CaptureInv'
  BY <1>1 DEF PrefillInv, BlockInv, CaptureInv, AtBlockEnd, WholeBlocks, Boundary
<1>7. CutInv'
  <2>1. ColdCuts' = ColdCuts
    BY <1>1 DEF ColdCuts, ColdEnds, PromptHashes, FinalCaptureKey, Boundary, Least,
       StrictPrefixBlockCount
  <2>. QED
    BY <2>1, <1>1, <1>2 DEF PrefillInv, CutInv
<1>. QED
  BY <1>4, <1>5, <1>6, <1>7 DEF PrefillInv

LEMMA NextKeeps == ASSUME PrefillInv, [Next]_vars PROVE PrefillInv'
<1>1. ASSUME NEW share \in IF alone THEN {Chunk} ELSE Shares,
             \/ \E computedBlocks \in 0..MaxBlocks : Plan(share, computedBlocks)
             \/ PlanNext(share)
      PROVE  PrefillInv'
  <2>1. share \in BlockSize..Chunk /\ (alone => share = Chunk)
    <3>1. Chunk \in BlockSize..Chunk
      <4>1. WholeBlocks(Chunk)
        BY WholeChunks, PrefillAssumption, 1 \in Nat, 1 * Chunk = Chunk
      <4>2. PICK k \in Nat : Chunk = k * BlockSize
        BY <4>1 DEF WholeBlocks
      <4>3. k # 0
        BY <4>2, PrefillAssumption
      <4>4. 1 * BlockSize <= k * BlockSize
        BY <4>3, Multiples, PrefillAssumption, BlockSize \in Nat \ {0}, 1 \in Nat, 1 <= k
      <4>. QED
        BY <4>2, <4>4, PrefillAssumption
    <3>. QED
      BY <1>1, <3>1, PrefillAssumption
  <2>. QED
    BY <1>1, <2>1, PlanKeeps, PlanNextKeeps
<1>. QED
  BY <1>1, StepKeeps, PrefillStutter DEF Next

(* The invariant of a prefill: plans stay within the prompt and beyond what is  *)
(* restored, and what lies behind is captured and cut.                      *)
THEOREM PrefillInvariant == Spec => []PrefillInv
<1>1. Init => PrefillInv
  BY InitPrefill
<1>2. PrefillInv /\ [Next]_vars => PrefillInv'
  BY NextKeeps
<1>. QED
  BY <1>1, <1>2, PTL DEF Spec

(* No plan of _schedule_prefills and no cap at a capture boundary makes a step  *)
(* empty, or ends it inside the restored prefix or past the prompt, in any     *)
(* policy and restore mode.                                                *)
THEOREM EveryStepAdvances == Spec => []StepsAdvance
<1>1. PrefillInv => StepsAdvance
  BY DEF PrefillInv
<1>. QED
  BY <1>1, PrefillInvariant, PTL

(* A finished prefill has captured every checkpoint it was asked for, whatever *)
(* it restored and however its steps were cut.                              *)
THEOREM TargetsCaptured == Spec => []TargetsAreCaptured
<1>1. PrefillInv => TargetsAreCaptured
  <2> SUFFICES ASSUME PrefillInv, Finished, Policy = "admission64", NEW t \in targets
               PROVE  t \in captured
    BY DEF TargetsAreCaptured
  <2>1. Boundary(t) <= length /\ done = length /\ done > 0
    BY DEF PrefillInv, PlanInv, PlanOK, Finished, LengthOK
  <2>. QED
    BY <2>1 DEF PrefillInv, CaptureInv
<1>. QED
  BY <1>1, PrefillInvariant, PTL

(* In the mode that is to reproduce the cold segments (hybrid64 restores under  *)
(* admission64), a request that is alone in its steps cuts the recurrence      *)
(* wherever a cold run does, beyond the checkpoint it restored.              *)
THEOREM ColdCutsKept ==
  ASSUME RestoreMode = "hybrid64", Policy = "admission64"
  PROVE  Spec => []ColdCutsAreKept
<1>1. ASSUME PrefillInv PROVE ColdCutsAreKept
  <2> SUFFICES ASSUME alone, Finished, NEW c \in ColdCuts, c > Restored
               PROVE  c \in cuts
    BY DEF ColdCutsAreKept
  <2>1. LengthOK /\ length \in Nat /\ done = length /\ done > 0 /\ PlanOK(restored, targets)
    BY <1>1 DEF PrefillInv, PlanInv, Finished, LengthOK
  <2>2. Restored \in Nat
    BY <2>1, RestoredType
  <2>3. c \in Nat /\ c <= length
    <3>1. CASE c \in ColdEnds
      BY <3>1, <2>1 DEF ColdEnds
    <3>2. CASE c \notin ColdEnds
      <4>1. PICK e \in ColdEnds : /\ FinalCaptureKey(PromptHashes, e, "direct") # NoKey
                                  /\ c = Boundary(FinalCaptureKey(PromptHashes, e, "direct"))
        BY <3>2 DEF ColdCuts
      <4>2. e \in 1..length
        BY DEF ColdEnds
      <4>3. DirectFinal(FinalCaptureKey(PromptHashes, e, "direct"), e)
        BY <4>2, <2>1, FinalDirect
      <4>4. FinalCaptureKey(PromptHashes, e, "direct") \in Hash /\ c <= length
        BY <4>1, <4>3 DEF DirectFinal
      <4>. QED
        BY <4>1, <4>4, Keys
    <3>. QED
      BY <3>1, <3>2
  <2>. QED
    BY <2>1, <2>2, <2>3, <1>1 DEF PrefillInv, CutInv
<1>. QED
  BY <1>1, PrefillInvariant, PTL

===============================================================================
