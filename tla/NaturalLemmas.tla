--------------------------- MODULE NaturalLemmas ----------------------------
(***************************************************************************)
(* Facts about natural numbers that the proofs of several modules share:   *)
(* least and greatest elements, and a stream cut into pieces of one length.*)
(*                                                                         *)
(* The library's induction rules take the statement as an operator. Its    *)
(* theorem WFMin takes sets only: with the order of the naturals it gives  *)
(* a least counterexample, which serves in the place of an induction.      *)
(***************************************************************************)
EXTENDS Integers, FiniteSets, Functions, FiniteSetTheorems, WellFoundedInduction, TLAPS

(* A set of naturals has a least element.                                  *)
LEMMA Least ==
  ASSUME NEW S, S \subseteq Nat, S # {}
  PROVE  \E m \in S : \A k \in S : m <= k
<1> DEFINE R == {ss \in Nat \X Nat : ss[1] < ss[2]}
<1>1. IsWellFoundedOn(R, Nat)
  BY NatLessThanWellFounded DEF OpToRel
<1>2. \A x, y \in Nat : y < x => <<y, x>> \in R
  OBVIOUS
<1> HIDE DEF R
<1>3. PICK m \in S : \A y \in S : ~ (<<y, m>> \in R)
  BY <1>1, WFMin
<1>4. ASSUME NEW k \in S PROVE m <= k
  <2>1. m \in Nat /\ k \in Nat
    OBVIOUS
  <2>2. ~ (k < m)
    BY <2>1, <1>2, <1>3
  <2> QED BY <2>1, <2>2
<1> QED BY <1>4

(* A bounded one has a greatest: the least of its upper bounds.            *)
LEMMA Greatest ==
  ASSUME NEW n \in Nat, NEW S, S \subseteq 0 .. n, S # {}
  PROVE  \E m \in S : \A k \in S : k <= m
<1> DEFINE U == {u \in 0 .. n : \A k \in S : k <= u}
<1>1. U \subseteq Nat /\ n \in U
  OBVIOUS
<1>2. PICK m \in U : \A k \in U : m <= k
  BY <1>1, Least
<1>3. CASE m \in S
  BY <1>3
<1>4. CASE m \notin S
  <2>1. \A k \in S : k < m
    BY <1>4, <1>2
  <2>2. PICK k \in S : TRUE
    OBVIOUS
  <2>3. k \in 0 .. n /\ k < m /\ m \in 0 .. n
    BY <2>1, <2>2
  <2>4. m - 1 \in 0 .. n /\ m - 1 < m
    BY <2>3
  <2>5. \A j \in S : j <= m - 1
    BY <2>1, <2>3
  <2>6. m - 1 \in U
    BY <2>4, <2>5
  <2> QED BY <2>6, <2>4, <2>3, <1>2
<1> QED BY <1>3, <1>4

-----------------------------------------------------------------------------
(***************************************************************************)
(* Multiples of a length L. The provers take a product of two variables    *)
(* only in small steps, so each step is a lemma.                           *)
(***************************************************************************)
LEMMA Times ==
  ASSUME NEW L \in Nat \ {0}, NEW k \in Nat
  PROVE  k * L \in Nat /\ k <= k * L /\ (k + 1) * L = k * L + L
OBVIOUS

LEMMA TimesPlus ==
  ASSUME NEW L \in Nat, NEW k \in Nat, NEW m \in Nat
  PROVE  (k + m) * L = k * L + m * L
OBVIOUS

LEMMA TimesMonotone ==
  ASSUME NEW L \in Nat \ {0}, NEW k \in Nat, NEW m \in Nat, k < m
  PROVE  k * L + L <= m * L
OBVIOUS

LEMMA TimesCancel ==
  ASSUME NEW L \in Nat \ {0}, NEW k \in Nat, NEW m \in Nat
  PROVE  (k * L <= m * L <=> k <= m) /\ (k * L = m * L <=> k = m)
OBVIOUS

(* Division with remainder.                                                *)
LEMMA Divide ==
  ASSUME NEW L \in Nat \ {0}, NEW n \in Nat
  PROVE  \E d \in Nat : d * L <= n /\ n < d * L + L
<1> DEFINE D == {d \in 0 .. n : d * L <= n}
<1>1. D \subseteq 0 .. n /\ 0 \in D
  OBVIOUS
<1>2. PICK d \in D : \A k \in D : k <= d
  BY <1>1, Greatest
<1>3. d \in Nat /\ d * L <= n
  BY <1>2
<1>4. ASSUME n >= d * L + L PROVE FALSE
  <2>1. (d + 1) * L <= n
    BY <1>3, <1>4, Times
  <2>2. d + 1 <= (d + 1) * L /\ (d + 1) * L \in Nat
    BY <1>3, Times
  <2>3. d + 1 \in 0 .. n
    BY <1>3, <2>1, <2>2
  <2>4. d + 1 \in D
    BY <2>1, <2>3
  <2> QED BY <1>2, <1>3, <2>4
<1>5. d * L \in Nat
  BY <1>3, Times
<1> QED BY <1>3, <1>4, <1>5

(* Every place of a stream is a place of one of its pieces.                *)
LEMMA Place ==
  ASSUME NEW L \in Nat \ {0}, NEW i \in Nat \ {0}
  PROVE  \E m \in Nat, j \in 1 .. L : i = m * L + j
<1>1. i - 1 \in Nat
  OBVIOUS
<1>2. PICK d \in Nat : d * L <= i - 1 /\ i - 1 < d * L + L
  BY <1>1, Divide
<1>3. d * L \in Nat
  BY Times
<1>4. i - d * L \in 1 .. L /\ i = d * L + (i - d * L)
  BY <1>2, <1>3
<1> QED BY <1>4

(* A place ends its piece just when it is a multiple of L.                 *)
LEMMA PlaceUnique ==
  ASSUME NEW L \in Nat \ {0}, NEW m \in Nat, NEW j \in 1 .. L,
         NEW k \in Nat, m * L + j = k * L
  PROVE  j = L /\ k = m + 1
<1>1. m * L \in Nat /\ k * L \in Nat /\ (m + 1) * L = m * L + L
  BY Times
<1>2. m < k
  <2>1. ~ (k * L <= m * L)
    BY <1>1
  <2> QED BY <2>1, TimesCancel
<1>3. m * L + L <= k * L
  BY <1>2, TimesMonotone
<1>4. j = L
  BY <1>1, <1>3
<1>5. k * L = (m + 1) * L
  BY <1>1, <1>4
<1> QED BY <1>4, <1>5, TimesCancel

(* There are d multiples of L up to the d-th.                              *)
LEMMA MultiplesCount ==
  ASSUME NEW L \in Nat \ {0}, NEW d \in Nat
  PROVE  /\ IsFiniteSet({m * L : m \in 1 .. d})
         /\ Cardinality({m * L : m \in 1 .. d}) = d
<1> DEFINE M == {m * L : m \in 1 .. d}
           f == [m \in 1 .. d |-> m * L]
<1>1. f \in [1 .. d -> M]
  OBVIOUS
<1>2. \A a, b \in 1 .. d : f[a] = f[b] => a = b
  BY TimesCancel
<1>3. \A t \in M : \E a \in 1 .. d : f[a] = t
  OBVIOUS
<1> HIDE DEF f, M
<1>4. f \in Bijection(1 .. d, M)
  BY <1>1, <1>2, <1>3 DEF Bijection, Injection, Surjection, IsInjective
<1>5. ExistsBijection(1 .. d, M)
  BY <1>4 DEF ExistsBijection
<1>6. IsFiniteSet(1 .. d) /\ Cardinality(1 .. d) = d
  BY FS_Interval
<1>7. IsFiniteSet(M) /\ Cardinality(M) = d
  BY <1>5, <1>6, FS_Bijection
<1> QED BY <1>7 DEF M

=============================================================================
