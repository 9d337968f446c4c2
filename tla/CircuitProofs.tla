---------------------------- MODULE CircuitProofs ----------------------------
(***************************************************************************)
(* Proofs about tbn_async_fifo, the emitted crossing with its Gray-coded   *)
(* pointers, for every payload and every AWIDTH from 2 on: one step of a   *)
(* pointer changes one bit of its code, so that a synchroniser caught by   *)
(* it settles to the old or the new pointer; the tests on codes decide     *)
(* what the tests on pointers do; and so the circuit implements the        *)
(* pointer-level crossing, and with it (AsyncFifoProofs) the bounded queue.*)
(***************************************************************************)
EXTENDS TbnAsyncFifo, FiniteSetTheorems, WellFoundedInduction, TLAPS

(* Induction over the naturals, for a set: the elements that have the      *)
(* property in question.                                                   *)
LEMMA CountingUp ==
    ASSUME NEW S \in SUBSET Nat, 0 \in S, \A n \in S : n + 1 \in S
    PROVE  S = Nat
<1> SUFFICES ASSUME Nat \ S # {} PROVE FALSE
  OBVIOUS
<1>1. \E k \in Nat \ S : \A l \in Nat \ S : <<l, k>> \notin OpToRel(<, Nat)
  BY NatLessThanWellFounded, WFMin, Zenon
<1>2. PICK k \in Nat \ S : \A l \in Nat \ S : ~(l < k)
  BY <1>1 DEF OpToRel
<1>3. k # 0 /\ k - 1 \in S
  BY <1>2
<1> QED
  BY <1>2, <1>3

-----------------------------------------------------------------------------
(* Powers of two.                                                          *)

(* 2^n counts the subsets of a set of n; one element more doubles them.    *)
LEMMA Doubling ==
    ASSUME NEW n \in Nat
    PROVE  /\ 2 ^ n \in Nat \ {0}
           /\ 2 ^ (n + 1) = 2 * 2 ^ n
<1> DEFINE S == 1 .. n
           without == SUBSET S
           with    == {T \union {n + 1} : T \in without}
           add     == [T \in without |-> T \union {n + 1}]
<1>1. IsFiniteSet(without) /\ Cardinality(without) = 2 ^ n
  <2>1. IsFiniteSet(S) /\ Cardinality(S) = n
    BY FS_Interval
  <2> QED
    BY <2>1, FS_SUBSET
<1>2. Cardinality(SUBSET (1 .. n + 1)) = 2 ^ (n + 1)
  <2>1. IsFiniteSet(1 .. n + 1) /\ Cardinality(1 .. n + 1) = n + 1
    BY FS_Interval
  <2> QED
    BY <2>1, FS_SUBSET
<1>3. n + 1 \notin S /\ 1 .. n + 1 = S \union {n + 1}
  OBVIOUS
<1> HIDE DEF S
<1>4. SUBSET (1 .. n + 1) = without \union with
  <2>1. ASSUME NEW T \in SUBSET (S \union {n + 1})
        PROVE  T \in without \union with
    <3>1. CASE n + 1 \in T
      <4>1. T \ {n + 1} \in without /\ T = (T \ {n + 1}) \union {n + 1}
        BY <3>1
      <4> QED
        BY <4>1
    <3>2. CASE n + 1 \notin T
      BY <3>2
    <3> QED
      BY <3>1, <3>2
  <2> QED
    BY <2>1, <1>3
<1>5. IsFiniteSet(with) /\ Cardinality(with) = Cardinality(without)
  <2>1. /\ add \in [without -> with]
        /\ \A y \in with : \E x \in without : add[x] = y
    OBVIOUS
  <2>2. \A x, y \in without : add[x] = add[y] => x = y
    BY <1>3
  <2>3. add \in Bijection(without, with)
    BY <2>1, <2>2 DEF Bijection, Injection, Surjection, IsInjective
  <2> QED
    BY <2>3, <1>1, FS_Bijection DEF ExistsBijection
<1>6. Cardinality(without \intersect with) = 0
  <2>1. without \intersect with = {}
    BY <1>3
  <2> QED
    BY <2>1, FS_EmptySet
<1>7. 2 ^ n \in Nat \ {0}
  <2>1. without # {}
    OBVIOUS
  <2> QED
    BY <2>1, <1>1, FS_CardinalityType, FS_EmptySet
<1>8. Cardinality(without \union with) = 2 * 2 ^ n
  <2>1. Cardinality(without \union with)
          = Cardinality(without) + Cardinality(with) - Cardinality(without \intersect with)
    BY <1>1, <1>5, FS_Union
  <2> QED
    BY <2>1, <1>1, <1>5, <1>6, <1>7
<1> QED
  BY <1>2, <1>4, <1>7, <1>8

LEMMA DepthIsPower == Depth \in Nat \ {0} /\ 2 * Depth = 2 ^ (AWidth + 1)
BY AWidthAssumption, Doubling DEF Depth

-----------------------------------------------------------------------------
(* A number shifted right.                                                 *)

Half(n, i) == n \div 2 ^ i

LEMMA Halves ==
    ASSUME NEW n \in Nat, NEW i \in Nat
    PROVE  /\ Half(n, i) \in Nat
           /\ Half(n, 0) = n
           /\ Half(n, i + 1) = Half(n, i) \div 2
<1>1. /\ 2 ^ i \in Nat \ {0} /\ 2 ^ (i + 1) = 2 * 2 ^ i /\ 2 ^ 0 = 1
  BY Doubling
<1>2. \A m \in Nat \ {0} : n \div m \in Nat /\ n \div (2 * m) = (n \div m) \div 2
  OBVIOUS
<1>3. n \div 1 = n
  OBVIOUS
<1> QED
  BY <1>1, <1>2, <1>3 DEF Half

LEMMA TopHalf == \A n \in Ptrs : Half(n, AWidth + 1) = 0
<1>1. \A m \in Nat \ {0} : \A n \in 0 .. m - 1 : n \div m = 0
  OBVIOUS
<1> QED
  BY <1>1, DepthIsPower DEF Ptrs, Half

(* A bit of the code, of what is left of the number from that bit on.      *)
Code(x) == ((x % 2) + ((x \div 2) % 2)) % 2

LEMMA GrayIsCode ==
    ASSUME NEW n \in Ptrs
    PROVE  /\ Gray[n] \in Words
           /\ \A i \in Bits : Gray[n][i] = Code(Half(n, i))
<1>1. n \in Nat /\ Bits \subseteq Nat
  BY DepthIsPower DEF Ptrs, Bits
<1>2. \A i \in Bits : Half(n, i) \in Nat /\ Half(n, i + 1) = Half(n, i) \div 2
  BY <1>1, Halves
<1>3. \A i \in Bits : Gray[n][i] = Code(Half(n, i))
  BY <1>2 DEF Gray, Bit, Code, Half
<1>4. \A x \in Nat : Code(x) \in {0, 1}
  BY DEF Code
<1>5. \A i \in Bits : Gray[n][i] \in {0, 1}
  BY <1>2, <1>3, <1>4
<1>6. Gray[n] = [i \in Bits |-> Gray[n][i]]
  BY DEF Gray
<1> QED
  BY <1>3, <1>5, <1>6 DEF Words

-----------------------------------------------------------------------------
(* The next pointer differs from a pointer in one bit of the code.          *)

Differ(n, m) == {i \in Bits : Gray[n][i] # Gray[m][i]}

(* Counting on, the half either stays or goes up by one; from where it     *)
(* stays it stays for all higher bits.                                     *)
LEMMA HalvesOfNext ==
    ASSUME NEW n \in Nat, NEW i \in Nat
    PROVE  Half(n + 1, i) \in {Half(n, i), Half(n, i) + 1}
<1> DEFINE S == {j \in Nat : Half(n + 1, j) \in {Half(n, j), Half(n, j) + 1}}
<1>1. 0 \in S
  BY Halves
<1>2. ASSUME NEW j \in S
      PROVE  j + 1 \in S
  <2>1. /\ Half(n, j) \in Nat /\ Half(n, j + 1) = Half(n, j) \div 2
        /\ Half(n + 1, j) \in Nat /\ Half(n + 1, j + 1) = Half(n + 1, j) \div 2
    BY Halves
  <2>2. \A x \in Nat : (x + 1) \div 2 \in {x \div 2, x \div 2 + 1}
    OBVIOUS
  <2> QED
    BY <2>1, <2>2
<1> HIDE DEF S
<1>3. S = Nat
  BY <1>1, <1>2, CountingUp DEF S
<1> QED
  BY <1>3 DEF S

LEMMA EqualHalves ==
    ASSUME NEW n \in Nat, NEW m \in Nat, NEW i \in Nat, Half(n, i) = Half(m, i),
           NEW j \in Nat, i <= j
    PROVE  Half(n, j) = Half(m, j)
<1> DEFINE S == {k \in Nat : i <= k => Half(n, k) = Half(m, k)}
<1>1. 0 \in S
  OBVIOUS
<1>2. ASSUME NEW k \in S
      PROVE  k + 1 \in S
  <2>1. CASE i = k + 1
    BY <2>1
  <2>2. CASE i # k + 1
    <3>1. Half(n, k + 1) = Half(n, k) \div 2 /\ Half(m, k + 1) = Half(m, k) \div 2
      BY Halves
    <3> QED
      BY <2>2, <3>1
  <2> QED
    BY <2>1, <2>2
<1> HIDE DEF S
<1>3. S = Nat
  BY <1>1, <1>2, CountingUp DEF S
<1> QED
  BY <1>3 DEF S

(* Where the codes of n and n + 1 differ, n has a 0 and n + 1 a 1: the     *)
(* carry stops there.                                                      *)
LEMMA CarryStops ==
    ASSUME NEW n \in Nat, NEW i \in Nat, Code(Half(n + 1, i)) # Code(Half(n, i))
    PROVE  Half(n + 1, i + 1) = Half(n, i + 1)
<1>1. /\ Half(n, i) \in Nat /\ Half(n, i + 1) = Half(n, i) \div 2
      /\ Half(n + 1, i) \in Nat /\ Half(n + 1, i + 1) = Half(n + 1, i) \div 2
  BY Halves
<1>2. Half(n + 1, i) = Half(n, i) + 1
  BY HalvesOfNext
<1>3. \A x \in Nat : Code(x + 1) # Code(x) => (x + 1) \div 2 = x \div 2
  BY DEF Code
<1> QED
  BY <1>1, <1>2, <1>3

LEMMA OneBitDiffers ==
    ASSUME NEW n \in Ptrs, n + 1 \in Ptrs
    PROVE  \A i, j \in Differ(n, n + 1) : i = j
<1> SUFFICES ASSUME NEW i \in Differ(n, n + 1), NEW j \in Differ(n, n + 1), i < j
             PROVE  FALSE
  BY DEF Differ, Bits
<1>1. n \in Nat /\ i \in Nat /\ j \in Nat /\ i \in Bits /\ j \in Bits
  BY DepthIsPower DEF Differ, Bits, Ptrs
<1>2. Half(n + 1, i + 1) = Half(n, i + 1)
  BY <1>1, CarryStops, GrayIsCode DEF Differ
<1>3. Half(n + 1, j) = Half(n, j)
  BY <1>1, <1>2, EqualHalves
<1> QED
  BY <1>1, <1>3, GrayIsCode DEF Differ

(* All bits of the last pointer are 1. *)
LEMMA HalvesOfLast ==
    ASSUME NEW i \in 0 .. AWidth + 1
    PROVE  Half(2 * Depth - 1, i) = 2 ^ (AWidth + 1 - i) - 1
<1> DEFINE S == {j \in Nat : j <= AWidth + 1 => Half(2 * Depth - 1, j) = 2 ^ (AWidth + 1 - j) - 1}
<1>1. 0 \in S
  <2>1. Half(2 * Depth - 1, 0) = 2 * Depth - 1 /\ AWidth + 1 - 0 = AWidth + 1
    BY DepthIsPower, Halves, AWidthAssumption
  <2> QED
    BY <2>1, DepthIsPower
<1>2. ASSUME NEW j \in S
      PROVE  j + 1 \in S
  <2> SUFFICES ASSUME j + 1 <= AWidth + 1
               PROVE  Half(2 * Depth - 1, j + 1) = 2 ^ (AWidth + 1 - (j + 1)) - 1
    OBVIOUS
  <2>1. Half(2 * Depth - 1, j + 1) = Half(2 * Depth - 1, j) \div 2
    BY Halves, DepthIsPower
  <2>2. PICK k \in Nat : k = AWidth + 1 - (j + 1) /\ AWidth + 1 - j = k + 1
    BY AWidthAssumption
  <2>3. 2 ^ k \in Nat \ {0} /\ 2 ^ (k + 1) = 2 * 2 ^ k
    BY Doubling
  <2>4. Half(2 * Depth - 1, j) = 2 * 2 ^ k - 1
    BY <2>2, <2>3, AWidthAssumption
  <2>5. \A x \in Nat \ {0} : (2 * x - 1) \div 2 = x - 1
    OBVIOUS
  <2> QED
    BY <2>1, <2>2, <2>3, <2>4, <2>5
<1> HIDE DEF S
<1>3. S = Nat
  BY <1>1, <1>2, CountingUp DEF S
<1> QED
  BY <1>3, AWidthAssumption DEF S

LEMMA OneBitDiffersAtWrap == \A i, j \in Differ(2 * Depth - 1, 0) : i = j
<1> SUFFICES ASSUME NEW i \in Differ(2 * Depth - 1, 0), i < AWidth
             PROVE  FALSE
  BY AWidthAssumption DEF Differ, Bits
<1>1. i \in Bits /\ i \in Nat /\ 2 * Depth - 1 \in Ptrs /\ 0 \in Ptrs
  BY DepthIsPower DEF Differ, Bits, Ptrs
<1>2. PICK k \in Nat : k = AWidth - 1 - i /\ AWidth + 1 - i = (k + 1) + 1
  BY <1>1, AWidthAssumption
<1>3. Half(2 * Depth - 1, i) = 2 ^ ((k + 1) + 1) - 1
  BY <1>1, <1>2, HalvesOfLast, AWidthAssumption DEF Bits
<1>4. 2 ^ k \in Nat \ {0} /\ 2 ^ ((k + 1) + 1) = 4 * 2 ^ k
  BY Doubling
<1>5. \A x \in Nat \ {0} : Code(4 * x - 1) = 0
  BY DEF Code
<1>6. Half(0, i) = 0 /\ Code(0) = 0
  <2>1. \A m \in Nat \ {0} : 0 \div m = 0
    OBVIOUS
  <2> QED
    BY <2>1, <1>1, Doubling DEF Half, Code
<1> QED
  BY <1>1, <1>3, <1>4, <1>5, <1>6, GrayIsCode DEF Differ

Succ(p) == (p + 1) % (2 * Depth)

LEMMA SuccIsNext ==
    ASSUME NEW p \in Ptrs
    PROVE  /\ Succ(p) \in Ptrs
           /\ Succ(p) = IF p = 2 * Depth - 1 THEN 0 ELSE p + 1
BY DepthIsPower DEF Succ, Ptrs

(* A flip-flop bank that samples a pointer as it moves holds the code of   *)
(* where it was or of where it went.                                       *)
LEMMA SampledIsOldOrNew ==
    ASSUME NEW p \in Ptrs, NEW q \in {p, Succ(p)}, NEW w \in Sampled(Gray[p], Gray[q])
    PROVE  w = Gray[p] \/ w = Gray[q]
<1>1. q \in Ptrs
  BY SuccIsNext
<1>2. \A i, j \in Differ(p, q) : i = j
  <2>1. CASE q = p
    BY <2>1 DEF Differ
  <2>2. CASE q = Succ(p)
    BY <2>2, <1>1, SuccIsNext, OneBitDiffers, OneBitDiffersAtWrap
  <2> QED
    BY <2>1, <2>2
<1>3. /\ w \in [Bits -> {0, 1}] /\ Gray[p] \in [Bits -> {0, 1}] /\ Gray[q] \in [Bits -> {0, 1}]
      /\ \A i \in Bits : w[i] \in {Gray[p][i], Gray[q][i]}
  BY <1>1, GrayIsCode DEF Sampled, Words
<1>4. CASE \A i \in Bits : w[i] = Gray[p][i]
  BY <1>3, <1>4
<1>5. CASE \E i \in Bits : w[i] # Gray[p][i]
  <2>1. PICK i \in Bits : w[i] # Gray[p][i]
    BY <1>5
  <2>2. i \in Differ(p, q) /\ w[i] = Gray[q][i]
    BY <2>1, <1>3 DEF Differ
  <2>3. \A j \in Bits : j # i => Gray[p][j] = Gray[q][j]
    BY <2>2, <1>2 DEF Differ
  <2>4. \A j \in Bits : w[j] = Gray[q][j]
    BY <2>2, <2>3, <1>3
  <2> QED
    BY <2>4, <1>3
<1> QED
  BY <1>4, <1>5

-----------------------------------------------------------------------------
(* The code tells pointers apart.                                          *)

LEMMA GrayIsInjective ==
    ASSUME NEW n \in Ptrs, NEW m \in Ptrs, Gray[n] = Gray[m]
    PROVE  n = m
<1> DEFINE S == {k \in Nat : k <= AWidth + 1 => Half(n, AWidth + 1 - k) = Half(m, AWidth + 1 - k)}
<1>0. n \in Nat /\ m \in Nat /\ AWidth \in Nat
  BY DepthIsPower, AWidthAssumption DEF Ptrs
<1>1. 0 \in S
  BY <1>0, TopHalf
<1>2. ASSUME NEW k \in S
      PROVE  k + 1 \in S
  <2> SUFFICES ASSUME k + 1 <= AWidth + 1
               PROVE  Half(n, AWidth + 1 - (k + 1)) = Half(m, AWidth + 1 - (k + 1))
    OBVIOUS
  <2>1. PICK i \in Bits : i = AWidth + 1 - (k + 1) /\ AWidth + 1 - k = i + 1 /\ i \in Nat
    BY <1>0 DEF Bits
  <2>2. Half(n, i + 1) = Half(m, i + 1)
    BY <2>1, <1>0
  <2>3. Code(Half(n, i)) = Code(Half(m, i))
    BY GrayIsCode
  <2>4. \A x, y \in Nat : x \div 2 = y \div 2 /\ Code(x) = Code(y) => x = y
    BY DEF Code
  <2>5. /\ Half(n, i) \in Nat /\ Half(n, i + 1) = Half(n, i) \div 2
        /\ Half(m, i) \in Nat /\ Half(m, i + 1) = Half(m, i) \div 2
    BY <2>1, <1>0, Halves
  <2>6. Half(n, i) = Half(m, i)
    BY <2>2, <2>3, <2>4, <2>5
  <2> QED
    BY <2>1, <2>6
<1> HIDE DEF S
<1>3. S = Nat
  BY <1>1, <1>2, CountingUp DEF S
<1>4. Half(n, 0) = Half(m, 0)
  <2>1. AWidth + 1 \in S
    BY <1>0, <1>3
  <2> QED
    BY <2>1, <1>0 DEF S
<1> QED
  BY <1>0, <1>4, Halves

(* The pointer half the ring away: where the writer is when the storage is *)
(* full.                                                                   *)
Opposite(p) == IF p < Depth THEN p + Depth ELSE p - Depth

LEMMA HalvesOfOpposite ==
    ASSUME NEW m \in 0 .. Depth - 1, NEW i \in 0 .. AWidth
    PROVE  Half(m + Depth, i) = Half(m, i) + 2 ^ (AWidth - i)
<1> DEFINE S == {j \in Nat : j <= AWidth => Half(m + Depth, j) = Half(m, j) + 2 ^ (AWidth - j)}
<1>0. m \in Nat /\ m + Depth \in Nat /\ AWidth \in Nat
  BY DepthIsPower, AWidthAssumption
<1>1. 0 \in S
  <2>1. Half(m + Depth, 0) = m + Depth /\ Half(m, 0) = m /\ AWidth - 0 = AWidth
    BY <1>0, Halves
  <2> QED
    BY <2>1 DEF Depth
<1>2. ASSUME NEW j \in S
      PROVE  j + 1 \in S
  <2> SUFFICES ASSUME j + 1 <= AWidth
               PROVE  Half(m + Depth, j + 1) = Half(m, j + 1) + 2 ^ (AWidth - (j + 1))
    OBVIOUS
  <2>1. PICK k \in Nat : k = AWidth - (j + 1) /\ AWidth - j = k + 1
    BY <1>0
  <2>2. 2 ^ k \in Nat \ {0} /\ 2 ^ (k + 1) = 2 * 2 ^ k
    BY Doubling
  <2>3. /\ Half(m, j) \in Nat /\ Half(m, j + 1) = Half(m, j) \div 2
        /\ Half(m + Depth, j + 1) = Half(m + Depth, j) \div 2
    BY <1>0, Halves
  <2>4. Half(m + Depth, j) = Half(m, j) + 2 * 2 ^ k
    BY <2>1, <2>2, <1>0
  <2>5. \A x, y \in Nat : (x + 2 * y) \div 2 = x \div 2 + y
    OBVIOUS
  <2> QED
    BY <2>1, <2>2, <2>3, <2>4, <2>5
<1> HIDE DEF S
<1>3. S = Nat
  BY <1>1, <1>2, CountingUp DEF S
<1> QED
  BY <1>0, <1>3 DEF S

(* Opposite pointers differ in the two upper bits of the code. *)
LEMMA CodeOfOpposite ==
    ASSUME NEW m \in 0 .. Depth - 1
    PROVE  /\ Gray[m + Depth][AWidth] # Gray[m][AWidth]
           /\ Gray[m + Depth][AWidth - 1] # Gray[m][AWidth - 1]
           /\ \A i \in 0 .. AWidth - 2 : Gray[m + Depth][i] = Gray[m][i]
<1>0. m \in Ptrs /\ m + Depth \in Ptrs /\ m \in Nat /\ AWidth \in Nat \ {0}
  BY DepthIsPower, AWidthAssumption DEF Ptrs
<1>1. \A i \in Bits : /\ Half(m, i) \in Nat
                      /\ Gray[m][i] = Code(Half(m, i))
                      /\ Gray[m + Depth][i] = Code(Half(m, i) + 2 ^ (AWidth - i))
  <2> TAKE i \in Bits
  <2>1. i \in 0 .. AWidth /\ i \in Nat
    BY <1>0 DEF Bits
  <2>2. Half(m + Depth, i) = Half(m, i) + 2 ^ (AWidth - i)
    BY <2>1, HalvesOfOpposite
  <2>3. Half(m, i) \in Nat
    BY <2>1, <1>0, Halves
  <2>4. Gray[m][i] = Code(Half(m, i)) /\ Gray[m + Depth][i] = Code(Half(m + Depth, i))
    BY <1>0, GrayIsCode
  <2> QED
    BY <2>2, <2>3, <2>4
<1>2. Gray[m + Depth][AWidth] # Gray[m][AWidth]
  <2>1. AWidth \in Bits /\ 2 ^ (AWidth - AWidth) = 1
    BY <1>0, Doubling DEF Bits
  <2>2. Half(m, AWidth) = 0
    <3>1. \A d \in Nat \ {0} : \A n \in 0 .. d - 1 : n \div d = 0
      OBVIOUS
    <3> QED
      BY <3>1, DepthIsPower DEF Half, Depth
  <2>3. Code(0) # Code(0 + 1)
    BY DEF Code
  <2> QED
    BY <2>1, <2>2, <2>3, <1>1
<1>3. Gray[m + Depth][AWidth - 1] # Gray[m][AWidth - 1]
  <2>1. AWidth - 1 \in Bits /\ 2 ^ (AWidth - (AWidth - 1)) = 2
    <3>1. AWidth - (AWidth - 1) = 1 /\ 2 ^ 1 = 2
      BY <1>0
    <3> QED
      BY <3>1, <1>0 DEF Bits
  <2>2. \A x \in Nat : Code(x + 2) # Code(x)
    BY DEF Code
  <2> QED
    BY <2>1, <2>2, <1>1
<1>4. ASSUME NEW i \in 0 .. AWidth - 2
      PROVE  Gray[m + Depth][i] = Gray[m][i]
  <2>1. i \in Bits
    BY <1>0 DEF Bits
  <2>2. PICK k \in Nat : AWidth - i = (k + 1) + 1
    <3>1. AWidth - 2 - i \in Nat /\ AWidth - i = ((AWidth - 2 - i) + 1) + 1
      BY <1>0
    <3> QED
      BY <3>1
  <2>3. 2 ^ k \in Nat /\ 2 ^ (AWidth - i) = 4 * 2 ^ k
    BY <2>2, Doubling
  <2>4. \A x, y \in Nat : Code(x + 4 * y) = Code(x)
    BY DEF Code
  <2> QED
    BY <2>1, <2>3, <2>4, <1>1
<1> QED
  BY <1>2, <1>3, <1>4

(* The test of full, on codes, tells exactly the opposite pointer.         *)
LEMMA FullIsOpposite ==
    ASSUME NEW n \in Ptrs, NEW m \in Ptrs
    PROVE  /\ Gray[n][AWidth] # Gray[m][AWidth]
           /\ Gray[n][AWidth - 1] # Gray[m][AWidth - 1]
           /\ \A i \in 0 .. AWidth - 2 : Gray[n][i] = Gray[m][i]
           <=> n = Opposite(m)
<1>0. Opposite(m) \in Ptrs
  BY DepthIsPower DEF Opposite, Ptrs
<1>1. /\ Gray[Opposite(m)][AWidth] # Gray[m][AWidth]
      /\ Gray[Opposite(m)][AWidth - 1] # Gray[m][AWidth - 1]
      /\ \A i \in 0 .. AWidth - 2 : Gray[Opposite(m)][i] = Gray[m][i]
  <2>1. CASE m < Depth
    <3>1. m \in 0 .. Depth - 1 /\ Opposite(m) = m + Depth
      BY <2>1, DepthIsPower DEF Opposite, Ptrs
    <3> QED
      BY <3>1, CodeOfOpposite
  <2>2. CASE ~(m < Depth)
    <3>1. m - Depth \in 0 .. Depth - 1 /\ Opposite(m) = m - Depth /\ (m - Depth) + Depth = m
      BY <2>2, DepthIsPower DEF Opposite, Ptrs
    <3> QED
      BY <3>1, CodeOfOpposite
  <2> QED
    BY <2>1, <2>2
<1>2. ASSUME /\ Gray[n][AWidth] # Gray[m][AWidth]
             /\ Gray[n][AWidth - 1] # Gray[m][AWidth - 1]
             /\ \A i \in 0 .. AWidth - 2 : Gray[n][i] = Gray[m][i]
      PROVE  n = Opposite(m)
  <2>1. \A i \in Bits : i = AWidth \/ i = AWidth - 1 \/ i \in 0 .. AWidth - 2
    BY AWidthAssumption DEF Bits
  <2>2. /\ AWidth \in Bits /\ AWidth - 1 \in Bits
        /\ Gray[n] \in [Bits -> {0, 1}] /\ Gray[m] \in [Bits -> {0, 1}]
        /\ Gray[Opposite(m)] \in [Bits -> {0, 1}]
    BY <1>0, GrayIsCode, AWidthAssumption DEF Bits, Words
  <2>3. Gray[n][AWidth] = Gray[Opposite(m)][AWidth]
    BY <2>2, <1>1, <1>2
  <2>4. Gray[n][AWidth - 1] = Gray[Opposite(m)][AWidth - 1]
    BY <2>2, <1>1, <1>2
  <2>5. \A i \in Bits : Gray[n][i] = Gray[Opposite(m)][i]
    BY <2>1, <2>3, <2>4, <1>1, <1>2
  <2>6. Gray[n] = Gray[Opposite(m)]
    BY <2>2, <2>5
  <2> QED
    BY <2>6, <1>0, GrayIsInjective
<1> QED
  BY <1>1, <1>2

-----------------------------------------------------------------------------
(* The circuit and the crossing of module AsyncFifo.                       *)

Codes == {Gray[p] : p \in Ptrs}

LEMMA Decoding ==
    ASSUME NEW p \in Ptrs
    PROVE  Binary[Gray[p]] = p
<1>1. Binary[Gray[p]] = CHOOSE n \in Ptrs : Gray[n] = Gray[p]
  BY GrayIsCode DEF Binary
<1>2. \A n \in Ptrs : Gray[n] = Gray[p] => n = p
  BY GrayIsInjective
<1> QED
  BY <1>1, <1>2

(* The inductive invariant: the synchronisers hold codes of pointers.      *)
CircuitInv ==
    /\ storage \in [Slots -> Data]
    /\ wr_ptr_bin \in Ptrs /\ rd_ptr_bin \in Ptrs
    /\ rd_ptr_gray_sync1 \in Codes /\ rd_ptr_gray_sync2 \in Codes
    /\ wr_ptr_gray_sync1 \in Codes /\ wr_ptr_gray_sync2 \in Codes
    /\ put \in Token /\ taken \in Token

LEMMA PointerArithmetic ==
    ASSUME NEW p \in Ptrs
    PROVE  /\ Succ(p) = Crossing!Plus(p, 1)
           /\ p % Depth = Crossing!Slot(p)
           /\ p % Depth \in Slots
<1>1. Succ(p) = Crossing!Plus(p, 1)
  BY SuccIsNext, DepthIsPower DEF Crossing!Plus, Ptrs
<1>2. p % Depth = Crossing!Slot(p)
  BY DepthIsPower DEF Crossing!Slot, Ptrs
<1>3. p % Depth \in Slots
  BY DepthIsPower DEF Ptrs, Slots
<1> QED
  BY <1>1, <1>2, <1>3

(* The tests of the circuit are those of the crossing. *)
LEMMA TestsAgree ==
    ASSUME CircuitInv
    PROVE  /\ full <=> Crossing!Full
           /\ empty <=> Crossing!Empty
<1>1. PICK r \in Ptrs : rd_ptr_gray_sync2 = Gray[r]
  BY DEF CircuitInv, Codes
<1>2. PICK w \in Ptrs : wr_ptr_gray_sync2 = Gray[w]
  BY DEF CircuitInv, Codes
<1>3. wr_ptr_bin \in Ptrs /\ rd_ptr_bin \in Ptrs
  BY DEF CircuitInv
<1>4. full <=> wr_ptr_bin = Opposite(r)
  BY <1>1, <1>3, FullIsOpposite DEF full
<1>5. Crossing!Full <=> Crossing!Dist(r, wr_ptr_bin) = Depth
  BY <1>1, Decoding DEF Crossing!Full
<1>6. Crossing!Dist(r, wr_ptr_bin) = Depth <=> wr_ptr_bin = Opposite(r)
  BY <1>3, DepthIsPower DEF Crossing!Dist, Opposite, Ptrs
<1>7. empty <=> rd_ptr_bin = w
  BY <1>2, <1>3, GrayIsInjective DEF empty
<1>8. Crossing!Empty <=> rd_ptr_bin = w
  BY <1>2, Decoding DEF Crossing!Empty
<1> QED
  BY <1>4, <1>5, <1>6, <1>7, <1>8

LEMMA PointersMoveAlike ==
    ASSUME CircuitInv, NEW offer \in Token, NEW deq_ready \in BOOLEAN
    PROVE  /\ do_enq(offer) <=> Crossing!do_enq(offer)
           /\ do_deq(deq_ready) <=> Crossing!do_deq(deq_ready)
           /\ wr_ptr_next(offer) = Crossing!WrNext(offer)
           /\ rd_ptr_next(deq_ready) = Crossing!RdNext(deq_ready)
           /\ wr_ptr_next(offer) \in {wr_ptr_bin, Succ(wr_ptr_bin)}
           /\ rd_ptr_next(deq_ready) \in {rd_ptr_bin, Succ(rd_ptr_bin)}
           /\ wr_ptr_next(offer) \in Ptrs /\ rd_ptr_next(deq_ready) \in Ptrs
<1>1. wr_ptr_bin \in Ptrs /\ rd_ptr_bin \in Ptrs
  BY DEF CircuitInv
<1>2. /\ do_enq(offer) <=> Crossing!do_enq(offer)
      /\ do_deq(deq_ready) <=> Crossing!do_deq(deq_ready)
  BY TestsAgree DEF do_enq, do_deq, Crossing!do_enq, Crossing!do_deq
<1>3. /\ wr_ptr_next(offer) = IF do_enq(offer) THEN Succ(wr_ptr_bin) ELSE wr_ptr_bin
      /\ rd_ptr_next(deq_ready) = IF do_deq(deq_ready) THEN Succ(rd_ptr_bin) ELSE rd_ptr_bin
  BY DEF wr_ptr_next, rd_ptr_next, Succ
<1>4. /\ Succ(wr_ptr_bin) = Crossing!Plus(wr_ptr_bin, 1) /\ Succ(wr_ptr_bin) \in Ptrs
      /\ Succ(rd_ptr_bin) = Crossing!Plus(rd_ptr_bin, 1) /\ Succ(rd_ptr_bin) \in Ptrs
  BY <1>1, PointerArithmetic, SuccIsNext
<1> QED
  BY <1>1, <1>2, <1>3, <1>4 DEF Crossing!WrNext, Crossing!RdNext

(* An edge of the write clock, when the first flip-flop samples the code   *)
(* of pointer seen.                                                        *)
LEMMA WrEdgeStep ==
    ASSUME CircuitInv, NEW offer \in Token, NEW seen \in Ptrs, WrEdge(offer, Gray[seen])
    PROVE  /\ Crossing!WrEdge(offer, seen)
           /\ storage' \in [Slots -> Data] /\ wr_ptr_bin' \in Ptrs
           /\ rd_ptr_gray_sync1' \in Codes /\ rd_ptr_gray_sync2' \in Codes
           /\ put' \in Token
<1>1. /\ do_enq(offer) <=> Crossing!do_enq(offer)
      /\ wr_ptr_next(offer) = Crossing!WrNext(offer) /\ wr_ptr_next(offer) \in Ptrs
  BY PointersMoveAlike
<1>2. wr_ptr_bin % Depth = Crossing!Slot(wr_ptr_bin) /\ wr_ptr_bin % Depth \in Slots
  BY PointerArithmetic DEF CircuitInv
<1>3. Binary[rd_ptr_gray_sync1'] = seen
  BY Decoding DEF WrEdge
<1>4. Crossing!WrEdge(offer, seen)
  BY <1>1, <1>2, <1>3 DEF WrEdge, Crossing!WrEdge
<1>5. storage' \in [Slots -> Data] /\ put' \in Token
  <2>1. CASE do_enq(offer)
    BY <2>1, <1>2 DEF WrEdge, do_enq, Token, CircuitInv
  <2>2. CASE ~do_enq(offer)
    BY <2>2 DEF WrEdge, Token, CircuitInv
  <2> QED
    BY <2>1, <2>2
<1> QED
  BY <1>1, <1>4, <1>5 DEF WrEdge, Codes, CircuitInv

LEMMA RdEdgeStep ==
    ASSUME CircuitInv, NEW deq_ready \in BOOLEAN, NEW seen \in Ptrs, RdEdge(deq_ready, Gray[seen])
    PROVE  /\ Crossing!RdEdge(deq_ready, seen)
           /\ rd_ptr_bin' \in Ptrs
           /\ wr_ptr_gray_sync1' \in Codes /\ wr_ptr_gray_sync2' \in Codes
           /\ taken' \in Token
<1>1. /\ do_deq(deq_ready) <=> Crossing!do_deq(deq_ready)
      /\ rd_ptr_next(deq_ready) = Crossing!RdNext(deq_ready) /\ rd_ptr_next(deq_ready) \in Ptrs
  BY PointersMoveAlike DEF Token
<1>2. rd_ptr_bin % Depth = Crossing!Slot(rd_ptr_bin) /\ rd_ptr_bin % Depth \in Slots
  BY PointerArithmetic DEF CircuitInv
<1>3. Binary[wr_ptr_gray_sync1'] = seen
  BY Decoding DEF RdEdge
<1>4. Crossing!RdEdge(deq_ready, seen)
  BY <1>1, <1>2, <1>3 DEF RdEdge, Crossing!RdEdge
<1>5. taken' \in Token
  BY <1>2 DEF RdEdge, Token, CircuitInv
<1> QED
  BY <1>1, <1>4, <1>5 DEF RdEdge, Codes, CircuitInv

LEMMA WrClkStep ==
    ASSUME CircuitInv, NEW offer \in Token, WrClk(offer)
    PROVE  CircuitInv' /\ Crossing!WrClk(offer)
<1>1. rd_ptr_bin \in Ptrs
  BY DEF CircuitInv
<1>2. /\ Crossing!WrEdge(offer, rd_ptr_bin)
      /\ storage' \in [Slots -> Data] /\ wr_ptr_bin' \in Ptrs
      /\ rd_ptr_gray_sync1' \in Codes /\ rd_ptr_gray_sync2' \in Codes
      /\ put' \in Token
  BY <1>1, WrEdgeStep DEF WrClk
<1> QED
  BY <1>2 DEF WrClk, rd_regs, CircuitInv, Crossing!WrClk, Token

LEMMA RdClkStep ==
    ASSUME CircuitInv, NEW deq_ready \in BOOLEAN, RdClk(deq_ready)
    PROVE  CircuitInv' /\ Crossing!RdClk(deq_ready)
<1>1. wr_ptr_bin \in Ptrs
  BY DEF CircuitInv
<1>2. /\ Crossing!RdEdge(deq_ready, wr_ptr_bin)
      /\ rd_ptr_bin' \in Ptrs
      /\ wr_ptr_gray_sync1' \in Codes /\ wr_ptr_gray_sync2' \in Codes
      /\ taken' \in Token
  BY <1>1, RdEdgeStep DEF RdClk
<1> QED
  BY <1>2 DEF RdClk, wr_regs, CircuitInv, Crossing!RdClk, Token

LEMMA BothClkStep ==
    ASSUME CircuitInv, NEW offer \in Token, NEW deq_ready \in BOOLEAN, BothClk(offer, deq_ready)
    PROVE  CircuitInv' /\ Crossing!BothClk(offer, deq_ready)
<1>0. /\ wr_ptr_bin \in Ptrs /\ rd_ptr_bin \in Ptrs
      /\ wr_ptr_next(offer) \in {wr_ptr_bin, Succ(wr_ptr_bin)} /\ wr_ptr_next(offer) \in Ptrs
      /\ rd_ptr_next(deq_ready) \in {rd_ptr_bin, Succ(rd_ptr_bin)} /\ rd_ptr_next(deq_ready) \in Ptrs
      /\ wr_ptr_next(offer) = Crossing!WrNext(offer)
      /\ rd_ptr_next(deq_ready) = Crossing!RdNext(deq_ready)
  BY PointersMoveAlike DEF CircuitInv
<1>1. PICK word \in Sampled(Gray[rd_ptr_bin], Gray[rd_ptr_next(deq_ready)]) : WrEdge(offer, word)
  BY DEF BothClk
<1>2. PICK seen \in {rd_ptr_bin, rd_ptr_next(deq_ready)} : word = Gray[seen]
  BY <1>0, SampledIsOldOrNew
<1>3. PICK word2 \in Sampled(Gray[wr_ptr_bin], Gray[wr_ptr_next(offer)]) : RdEdge(deq_ready, word2)
  BY DEF BothClk
<1>4. PICK seen2 \in {wr_ptr_bin, wr_ptr_next(offer)} : word2 = Gray[seen2]
  BY <1>0, SampledIsOldOrNew
<1>5. /\ Crossing!WrEdge(offer, seen)
      /\ storage' \in [Slots -> Data] /\ wr_ptr_bin' \in Ptrs
      /\ rd_ptr_gray_sync1' \in Codes /\ rd_ptr_gray_sync2' \in Codes
      /\ put' \in Token
  BY <1>0, <1>1, <1>2, WrEdgeStep
<1>6. /\ Crossing!RdEdge(deq_ready, seen2)
      /\ rd_ptr_bin' \in Ptrs
      /\ wr_ptr_gray_sync1' \in Codes /\ wr_ptr_gray_sync2' \in Codes
      /\ taken' \in Token
  BY <1>0, <1>3, <1>4, RdEdgeStep
<1>7. Crossing!BothClk(offer, deq_ready)
  BY <1>0, <1>2, <1>4, <1>5, <1>6 DEF Crossing!BothClk
<1> QED
  BY <1>5, <1>6, <1>7 DEF CircuitInv

LEMMA ZeroIsCode == 0 \in Ptrs /\ Zero \in Codes /\ Binary[Zero] = 0
<1>1. 0 \in Ptrs
  BY DepthIsPower DEF Ptrs
<1>2. Gray[0] = Zero
  <2>1. \A m \in Nat \ {0} : 0 \div m = 0
    OBVIOUS
  <2>2. \A i \in Bits : Half(0, i) = 0
    BY <2>1, Doubling, AWidthAssumption DEF Half, Bits
  <2>3. \A i \in Bits : Gray[0][i] = 0
    BY <1>1, <2>2, GrayIsCode DEF Code
  <2>4. Gray[0] = [i \in Bits |-> Gray[0][i]]
    BY <1>1 DEF Gray
  <2> QED
    BY <2>3, <2>4 DEF Zero
<1> QED
  BY <1>1, <1>2, Decoding DEF Codes

LEMMA InitStep ==
    ASSUME Init
    PROVE  CircuitInv /\ Crossing!Init
BY ZeroIsCode DEF Init, CircuitInv, Token, Crossing!Init, Crossing!Slots, Slots

LEMMA ResetStep ==
    ASSUME CircuitInv, Reset
    PROVE  CircuitInv' /\ Crossing!Reset
BY ZeroIsCode DEF Reset, WrResetValues, RdResetValues, CircuitInv, Token, Crossing!Reset

LEMMA NextStep ==
    ASSUME CircuitInv, [Next]_vars
    PROVE  CircuitInv' /\ [Crossing!Next]_(Crossing!vars)
<1>1. CASE Reset
  BY <1>1, ResetStep DEF Crossing!Next
<1>2. CASE \E offer \in Token : WrClk(offer)
  BY <1>2, WrClkStep DEF Crossing!Next, Crossing!Token, Token
<1>3. CASE \E deq_ready \in BOOLEAN : RdClk(deq_ready)
  BY <1>3, RdClkStep DEF Crossing!Next
<1>4. CASE \E offer \in Token, deq_ready \in BOOLEAN : BothClk(offer, deq_ready)
  BY <1>4, BothClkStep DEF Crossing!Next, Crossing!Token, Token
<1>5. CASE UNCHANGED vars
  BY <1>5 DEF vars, wr_regs, rd_regs, CircuitInv, Crossing!vars
<1> QED
  BY <1>1, <1>2, <1>3, <1>4, <1>5 DEF Next

LEMMA CircuitInvariant == Spec => []CircuitInv
<1>1. Init => CircuitInv
  BY InitStep
<1>2. CircuitInv /\ [Next]_vars => CircuitInv'
  BY NextStep
<1> QED
  BY <1>1, <1>2, PTL DEF Spec

(* The pointers stay pointers, and the synchronisers words of as many bits *)
(* (lower.rs, async_fifo_module_sv), at every AWIDTH.                      *)
THEOREM CircuitTypes == Spec => []TypeOK
<1>1. CircuitInv => TypeOK
  BY GrayIsCode DEF CircuitInv, TypeOK, Codes
<1> QED
  BY <1>1, CircuitInvariant, PTL

(* The emitted crossing, Gray codes, flip-flops caught in motion and all,  *)
(* behaves as the crossing of pointers that module AsyncFifo states, at    *)
(* every AWIDTH and payload.                                               *)
THEOREM CircuitImplementsCrossing == Spec => ImplementsAsyncFifo
<1>1. Init => Crossing!Init
  BY InitStep
<1>2. CircuitInv /\ [Next]_vars => [Crossing!Next]_(Crossing!vars)
  BY NextStep
<1> QED
  BY <1>1, <1>2, CircuitInvariant, PTL DEF Spec, ImplementsAsyncFifo, Crossing!Spec

-----------------------------------------------------------------------------
(* What is proved of the crossing holds of the circuit.                    *)

Pointers == INSTANCE AsyncFifoProofs WITH
    wr_ptr <- wr_ptr_bin,
    rd_ptr <- rd_ptr_bin,
    rd_sync1 <- Binary[rd_ptr_gray_sync1],
    rd_sync2 <- Binary[rd_ptr_gray_sync2],
    wr_sync1 <- Binary[wr_ptr_gray_sync1],
    wr_sync2 <- Binary[wr_ptr_gray_sync2]

LEMMA PointersAssumption == Pointers!AsyncAssumption
BY DepthIsPower, AWidthAssumption DEF Pointers!AsyncAssumption

(* The instance of the theorems and that of the model say the same. *)
LEMMA SameContents ==
    /\ Crossing!Contents = Pointers!Contents
    /\ Crossing!ViewsInOrder <=> Pointers!ViewsInOrder
BY DEF Crossing!Contents, Crossing!Window, Crossing!Slot, Crossing!Plus, Crossing!Dist,
       Pointers!Contents, Pointers!Window, Pointers!Slot, Pointers!Plus, Pointers!Dist,
       Crossing!ViewsInOrder, Pointers!ViewsInOrder

LEMMA SameSpec == Crossing!Spec => Pointers!Spec
<1> USE DEF Crossing!Token, Crossing!Slots, Crossing!Plus, Crossing!Dist, Crossing!Slot,
            Crossing!Full, Crossing!Empty, Crossing!do_enq, Crossing!do_deq,
            Crossing!WrNext, Crossing!RdNext,
            Pointers!Token, Pointers!Slots, Pointers!Plus, Pointers!Dist, Pointers!Slot,
            Pointers!Full, Pointers!Empty, Pointers!do_enq, Pointers!do_deq,
            Pointers!WrNext, Pointers!RdNext
<1>1. Crossing!Init => Pointers!Init
  BY DEF Crossing!Init, Pointers!Init
<1>2. \A offer, seen : Crossing!WrEdge(offer, seen) => Pointers!WrEdge(offer, seen)
  BY DEF Crossing!WrEdge, Pointers!WrEdge
<1>3. \A deq_ready, seen : Crossing!RdEdge(deq_ready, seen) => Pointers!RdEdge(deq_ready, seen)
  BY DEF Crossing!RdEdge, Pointers!RdEdge
<1>4. [Crossing!Next]_(Crossing!vars) => [Pointers!Next]_(Pointers!vars)
  BY <1>2, <1>3 DEF Crossing!Next, Crossing!Reset, Crossing!WrClk, Crossing!RdClk, Crossing!BothClk,
       Pointers!Next, Pointers!Reset, Pointers!WrClk, Pointers!RdClk, Pointers!BothClk,
       Crossing!vars, Pointers!vars
<1> QED
  BY <1>1, <1>4, PTL DEF Crossing!Spec, Pointers!Spec

LEMMA SameQueue == Pointers!ImplementsQueue => Crossing!ImplementsQueue
<1>1. Pointers!Queue!Init => Crossing!Queue!Init
  BY SameContents DEF Pointers!Queue!Init, Crossing!Queue!Init
<1>0. Crossing!Contents = Pointers!Contents /\ Crossing!Contents' = Pointers!Contents'
  BY DEF Crossing!Contents, Crossing!Window, Crossing!Slot, Crossing!Plus, Crossing!Dist,
         Pointers!Contents, Pointers!Window, Pointers!Slot, Pointers!Plus, Pointers!Dist
<1>2. [Pointers!Queue!Next]_(Pointers!Queue!vars) => [Crossing!Queue!Next]_(Crossing!Queue!vars)
  BY <1>0 DEF Pointers!Queue!Next, Crossing!Queue!Next,
     Pointers!Queue!Step, Crossing!Queue!Step, Pointers!Queue!Reset, Crossing!Queue!Reset,
     Pointers!Queue!Token, Crossing!Queue!Token, Pointers!Queue!Optional, Crossing!Queue!Optional,
     Pointers!Queue!vars, Crossing!Queue!vars
<1> QED
  BY <1>1, <1>2, PTL DEF Pointers!ImplementsQueue, Crossing!ImplementsQueue,
     Pointers!Queue!Spec, Crossing!Queue!Spec

(* However late the views of the other side are, they are in order round   *)
(* the ring and span at most DEPTH: neither side overruns the other.       *)
THEOREM CircuitViewsInOrder == Spec => []ViewsInOrder
<1>1. Spec => Pointers!Spec
  BY CircuitImplementsCrossing, SameSpec, PTL DEF ImplementsAsyncFifo
<1>2. Pointers!Spec => []Pointers!ViewsInOrder
  BY PointersAssumption, Pointers!AsyncFifoInvariant, PTL
<1> QED
  BY <1>1, <1>2, SameContents, PTL DEF ViewsInOrder

(* End to end: between the two clocks the emitted circuit neither loses,   *)
(* invents, duplicates nor reorders a token.                               *)
THEOREM CircuitImplementsQueue == Spec => ImplementsQueue
<1>1. Spec => Pointers!Spec
  BY CircuitImplementsCrossing, SameSpec, PTL DEF ImplementsAsyncFifo
<1>2. Pointers!Spec => Pointers!ImplementsQueue
  BY PointersAssumption, Pointers!AsyncFifoImplementsQueue, PTL
<1> QED
  BY <1>1, <1>2, SameQueue, PTL DEF ImplementsQueue

-----------------------------------------------------------------------------
(* The circuit as a crossing of ClockedQueues.                             *)

LEMMA SameArithmetic ==
    /\ \A p, q : Crossing!Dist(p, q) = Pointers!Dist(p, q)
    /\ \A p, n : Crossing!Plus(p, n) = Pointers!Plus(p, n)
    /\ \A p : Crossing!Slot(p) = Pointers!Slot(p)
    /\ \A s, p, n : Crossing!Window(s, p, n) = Pointers!Window(s, p, n)
BY DEF Crossing!Window, Crossing!Slot, Crossing!Plus, Crossing!Dist,
       Pointers!Window, Pointers!Slot, Pointers!Plus, Pointers!Dist

(* The views of the two sides, told by distances: what the crossing's      *)
(* counters are.                                                           *)
LEMMA Distances ==
    ASSUME CircuitInv, Crossing!ViewsInOrder,
           NEW a, a = Binary[rd_ptr_gray_sync1], NEW b, b = Binary[rd_ptr_gray_sync2],
           NEW c, c = Binary[wr_ptr_gray_sync1], NEW d, d = Binary[wr_ptr_gray_sync2]
    PROVE  /\ a \in Ptrs /\ b \in Ptrs /\ c \in Ptrs /\ d \in Ptrs
           /\ rd_ptr_bin \in Ptrs /\ wr_ptr_bin \in Ptrs
           /\ Crossing!Dist(b, a) + Crossing!Dist(a, rd_ptr_bin) + Crossing!Dist(rd_ptr_bin, d)
                + Crossing!Dist(d, c) + Crossing!Dist(c, wr_ptr_bin) <= Depth
           /\ Crossing!Dist(rd_ptr_bin, wr_ptr_bin) \in 0 .. Depth
<1>1. a \in Ptrs /\ b \in Ptrs /\ c \in Ptrs /\ d \in Ptrs
  BY Decoding DEF CircuitInv, Codes
<1>2. rd_ptr_bin \in Ptrs /\ wr_ptr_bin \in Ptrs
  BY DEF CircuitInv
<1>3. Crossing!Dist(b, a) + Crossing!Dist(a, rd_ptr_bin) + Crossing!Dist(rd_ptr_bin, d)
        + Crossing!Dist(d, c) + Crossing!Dist(c, wr_ptr_bin) <= Depth
  BY DEF Crossing!ViewsInOrder
<1>4. Crossing!Dist(rd_ptr_bin, wr_ptr_bin) \in 0 .. Depth
  BY <1>1, <1>2, <1>3, DepthIsPower DEF Crossing!Dist, Ptrs
<1> QED
  BY <1>1, <1>2, <1>3, <1>4

(* Six pointers in this order round the ring, spanning at most DEPTH.      *)
LEMMA RingOfPointers ==
    ASSUME NEW b \in Ptrs, NEW a \in Ptrs, NEW r \in Ptrs,
           NEW d \in Ptrs, NEW c \in Ptrs, NEW w \in Ptrs,
           Crossing!Dist(b, a) + Crossing!Dist(a, r) + Crossing!Dist(r, d)
             + Crossing!Dist(d, c) + Crossing!Dist(c, w) <= Depth
    PROVE  /\ Crossing!Dist(r, w) \in 0 .. Depth /\ Crossing!Dist(b, r) \in Nat
           /\ Crossing!Dist(b, w) = Crossing!Dist(b, r) + Crossing!Dist(r, w)
           /\ Crossing!Dist(b, w) <= Depth
           /\ w = Crossing!Plus(r, Crossing!Dist(r, w))
           /\ Crossing!Dist(r, w) < Depth
                 => Crossing!Dist(r, Crossing!Plus(w, 1)) = Crossing!Dist(r, w) + 1
           /\ Crossing!Dist(r, r) = 0
           /\ Crossing!Dist(r, c) \in Nat /\ Crossing!Dist(a, r) \in Nat /\ Crossing!Dist(r, d) \in Nat
           /\ r # d => /\ Crossing!Dist(r, d) > 0 /\ Crossing!Dist(r, w) > 0
                       /\ Crossing!Dist(Crossing!Plus(r, 1), w) = Crossing!Dist(r, w) - 1
                       /\ Crossing!Dist(Crossing!Plus(r, 1), c) = Crossing!Dist(r, c) - 1
                       /\ Crossing!Dist(b, Crossing!Plus(r, 1)) = Crossing!Dist(b, r) + 1
                       /\ Crossing!Dist(a, Crossing!Plus(r, 1)) = Crossing!Dist(a, r) + 1
           /\ r = d => Crossing!Dist(r, d) = 0
BY DepthIsPower, SMTT(60) DEF Crossing!Dist, Crossing!Plus, Ptrs

LEMMA ContentsLength ==
    ASSUME CircuitInv, Crossing!ViewsInOrder
    PROVE  /\ Crossing!Contents \in Seq(Data)
           /\ Len(Crossing!Contents) = Crossing!Dist(rd_ptr_bin, wr_ptr_bin)
<1>1. /\ Crossing!Dist(rd_ptr_bin, wr_ptr_bin) \in 0 .. Depth
      /\ rd_ptr_bin \in Pointers!Ptrs /\ storage \in [Pointers!Slots -> Data]
  BY Distances DEF CircuitInv, Pointers!Ptrs, Ptrs, Pointers!Slots, Slots
<1> QED
  BY <1>1, SameArithmetic, PointersAssumption, Pointers!WindowIsSeq DEF Crossing!Contents

LEMMA WriterEdgeStep ==
    ASSUME CircuitInv, Crossing!ViewsInOrder, NEW offer \in Token, WrClk(offer)
    PROVE  AsCrossing' = Clocked!WriterEdge(AsCrossing, Depth, IF offer = None THEN <<>> ELSE <<offer>>)
<1> DEFINE r == rd_ptr_bin
           w == wr_ptr_bin
           a == Binary[rd_ptr_gray_sync1]
           b == Binary[rd_ptr_gray_sync2]
           n == Crossing!Dist(r, w)
           tail == IF offer = None THEN <<>> ELSE <<offer>>
<1>1. /\ a \in Ptrs /\ b \in Ptrs /\ r \in Ptrs /\ w \in Ptrs
      /\ n \in 0 .. Depth
      /\ Crossing!Full <=> n + Crossing!Dist(b, r) = Depth
      /\ n + Crossing!Dist(b, r) <= Depth
      /\ Crossing!Dist(b, r) \in Nat
      /\ w = Crossing!Plus(r, n)
      /\ ~Crossing!Full => Crossing!Dist(r, Crossing!Plus(w, 1)) = n + 1
      /\ Crossing!Dist(r, r) = 0
  <2> DEFINE c == Binary[wr_ptr_gray_sync1]
             d == Binary[wr_ptr_gray_sync2]
  <2>1. /\ a \in Ptrs /\ b \in Ptrs /\ c \in Ptrs /\ d \in Ptrs /\ r \in Ptrs /\ w \in Ptrs
        /\ Crossing!Dist(b, a) + Crossing!Dist(a, r) + Crossing!Dist(r, d)
             + Crossing!Dist(d, c) + Crossing!Dist(c, w) <= Depth
    BY Distances
  <2>2. Crossing!Full <=> Crossing!Dist(b, w) = Depth
    BY DEF Crossing!Full
  <2> HIDE DEF a, b, c, d, r, w
  <2>3. /\ n \in 0 .. Depth /\ Crossing!Dist(b, r) \in Nat
        /\ Crossing!Dist(b, w) = Crossing!Dist(b, r) + n /\ Crossing!Dist(b, w) <= Depth
        /\ w = Crossing!Plus(r, n)
        /\ n < Depth => Crossing!Dist(r, Crossing!Plus(w, 1)) = n + 1
        /\ Crossing!Dist(r, r) = 0
    BY SMTT(30), <2>1, RingOfPointers
  <2> HIDE DEF n
  <2> QED
    BY <2>1, <2>2, <2>3, DepthIsPower
<1>2. Crossing!WrClk(offer)
  BY WrClkStep
<1>3. Crossing!Contents \in Seq(Data) /\ Len(Crossing!Contents) = n
  BY ContentsLength
<1>4. Clocked!Room(AsCrossing, Depth) <=> ~Crossing!Full
  BY <1>1, <1>3, DepthIsPower DEF Clocked!Room, AsCrossing
<1>5. Crossing!Contents' = IF ~Crossing!Full THEN Crossing!Contents \o tail ELSE Crossing!Contents
  <2>1. CASE Crossing!do_enq(offer)
    <3>1. /\ n \in 0 .. Depth - 1 /\ offer \in Data
          /\ r \in Pointers!Ptrs /\ storage \in [Pointers!Slots -> Data]
      BY <2>1, <1>1, DepthIsPower
      DEF Crossing!do_enq, Token, CircuitInv, Pointers!Ptrs, Ptrs, Pointers!Slots, Slots
    <3>2. Crossing!Window([storage EXCEPT ![Crossing!Slot(Crossing!Plus(r, n))] = offer], r, n + 1)
            = Crossing!Window(storage, r, n) \o <<offer>>
      BY <3>1, SameArithmetic, PointersAssumption, Pointers!WindowAppend
    <3>3. /\ rd_ptr_bin' = r /\ wr_ptr_bin' = Crossing!Plus(w, 1)
          /\ storage' = [storage EXCEPT ![Crossing!Slot(w)] = offer]
      BY <2>1, <1>2 DEF Crossing!WrClk, Crossing!WrEdge, Crossing!WrNext
    <3>4. Crossing!Contents' = Crossing!Window(storage', rd_ptr_bin', Crossing!Dist(rd_ptr_bin', wr_ptr_bin'))
      BY DEF Crossing!Contents, Crossing!Window, Crossing!Dist, Crossing!Slot, Crossing!Plus
    <3> QED
      BY <2>1, <3>2, <3>3, <3>4, <1>1 DEF Crossing!do_enq, Crossing!Contents
  <2>2. CASE ~Crossing!do_enq(offer)
    <3>1. rd_ptr_bin' = rd_ptr_bin /\ wr_ptr_bin' = wr_ptr_bin /\ storage' = storage
      BY <2>2, <1>2 DEF Crossing!WrClk, Crossing!WrEdge, Crossing!WrNext
    <3>2. Crossing!Contents' = Crossing!Contents
      BY <3>1 DEF Crossing!Contents, Crossing!Window, Crossing!Dist, Crossing!Slot, Crossing!Plus
    <3> QED
      BY <2>2, <3>2, <1>3 DEF Crossing!do_enq
  <2> QED
    BY <2>1, <2>2
<1>6. /\ rd_ptr_bin' = rd_ptr_bin
      /\ wr_ptr_gray_sync1' = wr_ptr_gray_sync1 /\ wr_ptr_gray_sync2' = wr_ptr_gray_sync2
      /\ Binary[rd_ptr_gray_sync1'] = r /\ Binary[rd_ptr_gray_sync2'] = a
  BY <1>1, Decoding DEF WrClk, WrEdge, rd_regs
<1>7. AsCrossing' = [items   |-> Crossing!Contents',
                     seen1   |-> Crossing!Dist(rd_ptr_bin', Binary[wr_ptr_gray_sync1']),
                     seen2   |-> Crossing!Dist(rd_ptr_bin', Binary[wr_ptr_gray_sync2']),
                     hidden1 |-> Crossing!Dist(Binary[rd_ptr_gray_sync1'], rd_ptr_bin'),
                     hidden2 |-> Crossing!Dist(Binary[rd_ptr_gray_sync2'], rd_ptr_bin')]
  BY DEF AsCrossing, Crossing!Dist
<1> HIDE DEF tail, r, a
<1> QED
  BY <1>1, <1>4, <1>5, <1>6, <1>7 DEF Clocked!WriterEdge, AsCrossing, tail, r, a

LEMMA WholeAndTail ==
    ASSUME NEW S, NEW s \in Seq(S)
    PROVE  /\ SubSeq(s, 1, Len(s)) = s
           /\ s # <<>> => SubSeq(s, 2, Len(s)) = Tail(s)
OBVIOUS

LEMMA ReaderEdgeStep ==
    ASSUME CircuitInv, Crossing!ViewsInOrder, NEW deq_ready \in BOOLEAN, RdClk(deq_ready)
    PROVE  AsCrossing' = Clocked!ReaderEdge(AsCrossing, deq_ready)
<1> DEFINE r == rd_ptr_bin
           w == wr_ptr_bin
           a == Binary[rd_ptr_gray_sync1]
           b == Binary[rd_ptr_gray_sync2]
           c == Binary[wr_ptr_gray_sync1]
           d == Binary[wr_ptr_gray_sync2]
           n == Crossing!Dist(r, w)
           take == Crossing!do_deq(deq_ready)
           one == IF take THEN 1 ELSE 0
           next == IF take THEN Crossing!Plus(r, 1) ELSE r
<1>1. /\ r \in Ptrs /\ w \in Ptrs /\ n \in 0 .. Depth
      /\ Crossing!Dist(r, c) \in Nat /\ Crossing!Dist(a, r) \in Nat
      /\ Crossing!Dist(b, r) \in Nat /\ Crossing!Dist(r, d) \in Nat
      /\ r # d => /\ Crossing!Dist(r, d) > 0 /\ n > 0
                  /\ Crossing!Dist(Crossing!Plus(r, 1), w) = n - 1
                  /\ Crossing!Dist(Crossing!Plus(r, 1), c) = Crossing!Dist(r, c) - 1
                  /\ Crossing!Dist(b, Crossing!Plus(r, 1)) = Crossing!Dist(b, r) + 1
                  /\ Crossing!Dist(a, Crossing!Plus(r, 1)) = Crossing!Dist(a, r) + 1
      /\ r = d => Crossing!Dist(r, d) = 0
  <2>1. /\ a \in Ptrs /\ b \in Ptrs /\ c \in Ptrs /\ d \in Ptrs /\ r \in Ptrs /\ w \in Ptrs
        /\ Crossing!Dist(b, a) + Crossing!Dist(a, r) + Crossing!Dist(r, d)
             + Crossing!Dist(d, c) + Crossing!Dist(c, w) <= Depth
    BY Distances
  <2> HIDE DEF a, b, c, d, r, w
  <2> QED
    BY SMTT(30), <2>1, RingOfPointers
<1>2. Crossing!RdClk(deq_ready)
  BY RdClkStep
<1>3. Crossing!Contents \in Seq(Data) /\ Len(Crossing!Contents) = n
  BY ContentsLength
<1>4. /\ Clocked!Readable(AsCrossing) <=> r # d
      /\ take <=> deq_ready /\ r # d
  BY <1>1 DEF Clocked!Readable, AsCrossing, Crossing!do_deq, Crossing!Empty
<1>5. /\ rd_ptr_bin' = next /\ wr_ptr_bin' = w /\ storage' = storage
      /\ Binary[wr_ptr_gray_sync1'] = w /\ Binary[wr_ptr_gray_sync2'] = c
      /\ Binary[rd_ptr_gray_sync1'] = a /\ Binary[rd_ptr_gray_sync2'] = b
  BY <1>1, <1>2, Decoding
  DEF RdClk, RdEdge, wr_regs, Crossing!RdClk, Crossing!RdEdge, Crossing!RdNext
<1>6. /\ Crossing!Dist(next, w) = n - one
      /\ Crossing!Dist(next, c) = Crossing!Dist(r, c) - one
      /\ Crossing!Dist(a, next) = Crossing!Dist(a, r) + one
      /\ Crossing!Dist(b, next) = Crossing!Dist(b, r) + one
  <2> HIDE DEF a, b, c, d, r, w
  <2>1. CASE take
    <3>1. r # d /\ next = Crossing!Plus(r, 1) /\ one = 1
      BY <2>1, <1>4
    <3> QED
      BY <3>1, <1>1
  <2>2. CASE ~take
    <3>1. next = r /\ one = 0
      BY <2>2
    <3> QED
      BY <3>1, <1>1
  <2> QED
    BY <2>1, <2>2
<1>7. Crossing!Contents' = Crossing!Window(storage, next, Crossing!Dist(next, w))
  BY <1>5 DEF Crossing!Contents, Crossing!Window, Crossing!Dist, Crossing!Slot, Crossing!Plus
<1>8. Crossing!Contents' = SubSeq(Crossing!Contents, one + 1, Len(Crossing!Contents))
  <2>1. CASE take
    <3>1. /\ n \in 1 .. Depth /\ r \in Pointers!Ptrs /\ storage \in [Pointers!Slots -> Data]
      BY <2>1, <1>1, <1>4 DEF CircuitInv, Pointers!Ptrs, Ptrs, Pointers!Slots, Slots
    <3>2. /\ Crossing!Contents # <<>>
          /\ Tail(Crossing!Contents) = Crossing!Window(storage, Crossing!Plus(r, 1), n - 1)
      BY <3>1, SameArithmetic, PointersAssumption, Pointers!WindowTail DEF Crossing!Contents
    <3>3. Crossing!Contents' = Tail(Crossing!Contents)
      BY <2>1, <3>2, <1>6, <1>7
    <3>4. SubSeq(Crossing!Contents, 2, Len(Crossing!Contents)) = Tail(Crossing!Contents)
      BY <3>2, <1>3, WholeAndTail
    <3>5. one + 1 = 2
      BY <2>1
    <3> QED
      BY <3>3, <3>4, <3>5
  <2>2. CASE ~take
    <3>1. Crossing!Contents' = Crossing!Contents
      BY <2>2, <1>7 DEF Crossing!Contents
    <3> QED
      BY <2>2, <3>1, <1>3, WholeAndTail
  <2> QED
    BY <2>1, <2>2
<1>9. AsCrossing' = [items   |-> Crossing!Contents',
                     seen1   |-> Crossing!Dist(next, w),
                     seen2   |-> Crossing!Dist(next, c),
                     hidden1 |-> Crossing!Dist(a, next),
                     hidden2 |-> Crossing!Dist(b, next)]
  BY <1>5 DEF AsCrossing, Crossing!Dist
<1>10. Clocked!ReaderEdge(AsCrossing, deq_ready)
         = [items   |-> SubSeq(Crossing!Contents, one + 1, Len(Crossing!Contents)),
            seen1   |-> n - one,
            seen2   |-> Crossing!Dist(r, c) - one,
            hidden1 |-> Crossing!Dist(a, r) + one,
            hidden2 |-> Crossing!Dist(b, r) + one]
  BY <1>3, <1>4 DEF Clocked!ReaderEdge, AsCrossing
<1> QED
  BY <1>6, <1>8, <1>9, <1>10

(* The queues of a system of several clock domains, as module ClockedQueues *)
(* states them, are this circuit: every edge of one clock does to the      *)
(* tokens, and to what each side knows of them, what is said there.        *)
THEOREM CircuitStepsAsCrossing == Spec => StepsAsCrossing
<1>1. CircuitInv /\ ViewsInOrder /\ [Next]_vars
        => [/\ \A offer \in Token :
                  WrClk(offer) => AsCrossing' = Clocked!WriterEdge(AsCrossing, Depth,
                                                   IF offer = None THEN <<>> ELSE <<offer>>)
            /\ \A deq_ready \in BOOLEAN :
                  RdClk(deq_ready) => AsCrossing' = Clocked!ReaderEdge(AsCrossing, deq_ready)]_vars
  BY WriterEdgeStep, ReaderEdgeStep DEF ViewsInOrder
<1> QED
  BY <1>1, CircuitInvariant, CircuitViewsInOrder, PTL DEF Spec, StepsAsCrossing

(* Reset together, the two sides keep their pointers within DEPTH of each  *)
(* other.  With a reset of one side alone they do not, as the run          *)
(* async_resets shows.                                                     *)
THEOREM CircuitNoPointerDesync == Spec => []NoPointerDesync
<1>1. CircuitInv /\ ViewsInOrder => NoPointerDesync
  <2> SUFFICES ASSUME CircuitInv, Crossing!ViewsInOrder
               PROVE  NoPointerDesync
    BY DEF ViewsInOrder
  <2>1. /\ Crossing!Dist(rd_ptr_bin, wr_ptr_bin) \in 0 .. Depth
        /\ rd_ptr_bin \in Ptrs /\ wr_ptr_bin \in Ptrs
    BY Distances
  <2> QED
    BY <2>1, DepthIsPower DEF NoPointerDesync, Occupancy, Crossing!Dist, Ptrs
<1> QED
  BY <1>1, CircuitInvariant, CircuitViewsInOrder, PTL

=============================================================================
