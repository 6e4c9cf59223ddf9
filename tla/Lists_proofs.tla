----------------------------- MODULE Lists_proofs -----------------------------
(***************************************************************************)
(* What Nth and Only return, for every set and every list, what sums over  *)
(* finite sets come to, and lists that grow.  Induction over the numbers   *)
(* is had from the least member of a set of them.                          *)
(***************************************************************************)
EXTENDS Lists, Integers, SequencesExt, Functions, Folds, TLAPS, FiniteSetTheorems, SequenceTheorems,
        WellFoundedInduction

(* A set of numbers that is not empty has a least one.                     *)
LEMMA NatMin ==
  ASSUME NEW T \in SUBSET Nat, T # {}
  PROVE  \E n \in T : \A m \in T : n <= m
<1>1. PICK n \in T : \A m \in T : <<m, n>> \notin OpToRel(<, Nat)
  BY WFMin, NatLessThanWellFounded, Zenon
<1>2. \A m \in T : ~(m < n)
  BY <1>1 DEF OpToRel
<1>. QED
  BY <1>2

(* A set of numbers up to N is finite, and so is what it has up to n.      *)
LEMMA UptoFinite ==
  ASSUME NEW N \in Nat, NEW K \in SUBSET (1..N), NEW n
  PROVE  /\ IsFiniteSet(K) /\ Cardinality(K) \in Nat
         /\ IsFiniteSet(Upto(K, n)) /\ Cardinality(Upto(K, n)) \in Nat
         /\ Cardinality(Upto(K, n)) <= Cardinality(K)
<1>1. IsFiniteSet(K)
  <2>1. IsFiniteSet(1..N)
    BY FS_Interval
  <2>2. K \subseteq 1..N
    OBVIOUS
  <2>. QED
    BY <2>1, <2>2, FS_Subset
<1>2. Upto(K, n) \subseteq K
  BY DEF Upto
<1>. QED
  BY <1>1, <1>2, FS_Subset, FS_CardinalityType

(* There is a k-th smallest number for each k up to the size of the set.   *)
LEMMA NthIs ==
  ASSUME NEW N \in Nat, NEW K \in SUBSET (1..N), NEW k \in 1..Cardinality(K)
  PROVE  Nth(K, k) \in K /\ Cardinality(Upto(K, Nth(K, k))) = k
<1>. DEFINE T == {n \in 0..N : Cardinality(Upto(K, n)) >= k}
<1>0. Cardinality(K) \in Nat /\ k \in Nat /\ k >= 1 /\ k <= Cardinality(K)
  BY UptoFinite
<1>1. N \in T
  <2>1. \A j \in K : j <= N
    OBVIOUS
  <2>2. Upto(K, N) = K
    BY <2>1 DEF Upto
  <2>. QED
    BY <1>0, <2>2
<1>2. PICK n \in T : \A m \in T : n <= m
  <2>1. T \in SUBSET Nat /\ T # {}
    BY <1>1
  <2>. QED
    BY <2>1, NatMin
<1>3. n # 0
  <2>0. \A j \in K : ~(j <= 0)
    OBVIOUS
  <2>1. Upto(K, 0) = {}
    BY <2>0 DEF Upto
  <2>2. Cardinality(Upto(K, 0)) = 0
    BY <2>1, FS_EmptySet
  <2>. QED
    BY <1>0, <2>2
<1>4. n \in 1..N /\ n - 1 \in 0..N /\ n - 1 \notin T
  BY <1>2, <1>3
<1>5. Cardinality(Upto(K, n - 1)) < k
  <2>1. Cardinality(Upto(K, n - 1)) \in Nat
    BY UptoFinite
  <2>. QED
    BY <1>0, <1>4, <2>1
<1>6. n \in K
  <2>1. SUFFICES ASSUME n \notin K PROVE FALSE
    OBVIOUS
  <2>2. \A j \in K : j <= n <=> j <= n - 1
    BY <1>4, <2>1
  <2>3. Upto(K, n) = Upto(K, n - 1)
    BY <2>2 DEF Upto
  <2>4. Cardinality(Upto(K, n)) >= k /\ Cardinality(Upto(K, n)) \in Nat
    BY <1>2, UptoFinite
  <2>. QED
    BY <1>0, <1>5, <2>3, <2>4
<1>7. Cardinality(Upto(K, n)) = Cardinality(Upto(K, n - 1)) + 1
  <2>1. \A j \in K : j <= n <=> j <= n - 1 \/ j = n
    BY <1>4
  <2>2. Upto(K, n) = Upto(K, n - 1) \cup {n} /\ n \notin Upto(K, n - 1)
    BY <1>4, <1>6, <2>1 DEF Upto
  <2>3. IsFiniteSet(Upto(K, n - 1))
    BY UptoFinite
  <2>. QED
    BY <2>2, <2>3, FS_AddElement
<1>8. Cardinality(Upto(K, n)) = k
  <2>1. Cardinality(Upto(K, n - 1)) \in Nat /\ Cardinality(Upto(K, n)) >= k
    BY <1>2, UptoFinite
  <2>. QED
    BY <1>0, <1>5, <1>7, <2>1
<1>. QED
  BY <1>6, <1>8 DEF Nth

(* A larger number of the set has more of it below.                        *)
LEMMA UptoGrows ==
  ASSUME NEW N \in Nat, NEW K \in SUBSET (1..N), NEW i \in K, NEW j \in K, i < j
  PROVE  Cardinality(Upto(K, i)) < Cardinality(Upto(K, j))
<1>0. \A m \in K : /\ m <= i => m <= j
                  /\ j <= j /\ ~(j <= i)
  OBVIOUS
<1>1. Upto(K, i) \subseteq Upto(K, j) /\ j \in Upto(K, j) /\ j \notin Upto(K, i)
  BY <1>0 DEF Upto
<1>2. IsFiniteSet(Upto(K, j))
  BY UptoFinite
<1>3. Upto(K, i) # Upto(K, j)
  BY <1>1
<1>. QED
  BY <1>1, <1>2, <1>3, FS_Subset, FS_CardinalityType

(* Every number of the set is the one its count says.                      *)
LEMMA NthOfCount ==
  ASSUME NEW N \in Nat, NEW K \in SUBSET (1..N), NEW i \in K
  PROVE  /\ Cardinality(Upto(K, i)) \in 1..Cardinality(K)
         /\ Nth(K, Cardinality(Upto(K, i))) = i
<1>. DEFINE k == Cardinality(Upto(K, i))
            m == Nth(K, k)
<1>1. k \in 1..Cardinality(K)
  <2>1. i \in Upto(K, i)
    <3>1. i <= i
      OBVIOUS
    <3>. QED
      BY <3>1 DEF Upto
  <2>2. k # 0
    BY <2>1, UptoFinite, FS_EmptySet
  <2>3. k \in Nat /\ Cardinality(K) \in Nat /\ k <= Cardinality(K)
    BY UptoFinite
  <2>. QED
    BY <2>2, <2>3
<1>2. m \in K /\ Cardinality(Upto(K, m)) = k
  BY <1>1, NthIs
<1>3. m \in Nat /\ i \in Nat /\ k \in Nat
  <2>1. \A j \in K : j \in Nat
    OBVIOUS
  <2>2. k \in Nat
    BY UptoFinite
  <2>. QED
    BY <1>2, <2>1, <2>2
<1>4. ~(m < i)
  <2>1. m < i => Cardinality(Upto(K, m)) < k
    BY <1>2, UptoGrows
  <2>. QED
    BY <1>2, <1>3, <2>1
<1>5. ~(i < m)
  <2>1. i < m => k < Cardinality(Upto(K, m))
    BY <1>2, UptoGrows
  <2>. QED
    BY <1>2, <1>3, <2>1
<1>6. m = i
  BY <1>3, <1>4, <1>5
<1>. QED
  BY <1>1, <1>6

(* A larger count is of a larger number.                                   *)
LEMMA NthGrows ==
  ASSUME NEW N \in Nat, NEW K \in SUBSET (1..N),
         NEW k \in 1..Cardinality(K), NEW l \in 1..Cardinality(K), k < l
  PROVE  Nth(K, k) < Nth(K, l)
<1>. DEFINE i == Nth(K, k)
            j == Nth(K, l)
<1>1. i \in K /\ Cardinality(Upto(K, i)) = k
  BY NthIs
<1>2. j \in K /\ Cardinality(Upto(K, j)) = l
  BY NthIs
<1>0. Cardinality(K) \in Nat
  BY UptoFinite
<1>3. k \in Nat /\ l \in Nat /\ i \in Nat /\ j \in Nat
  <2>1. k \in Nat /\ l \in Nat
    BY <1>0
  <2>2. \A m \in K : m \in Nat
    OBVIOUS
  <2>3. i \in Nat /\ j \in Nat
    BY <1>1, <1>2, <2>2
  <2>. QED
    BY <2>1, <2>3
<1>4. i # j
  BY <1>1, <1>2, <1>3
<1>5. ~(j < i)
  <2>1. j < i => l < k
    BY <1>1, <1>2, UptoGrows
  <2>. QED
    BY <1>3, <2>1
<1>. QED
  BY <1>3, <1>4, <1>5

(* A filter keeps members of its list, and only those in its set.          *)
LEMMA OnlyIs ==
  ASSUME NEW U, NEW s \in Seq(U), NEW S
  PROVE  /\ DOMAIN Only(s, S) = 1..Cardinality({i \in DOMAIN s : s[i] \in S})
         /\ \A k \in DOMAIN Only(s, S) :
              \E i \in DOMAIN s : Only(s, S)[k] = s[i] /\ s[i] \in S
<1>. DEFINE kept == {i \in DOMAIN s : s[i] \in S}
<1>1. Len(s) \in Nat /\ kept \in SUBSET (1..Len(s))
  OBVIOUS
<1>2. \A k \in 1..Cardinality(kept) : Nth(kept, k) \in kept
  BY <1>1, NthIs
<1>. QED
  BY <1>2 DEF Only

(* It keeps every member that is in the set.                               *)
LEMMA OnlyKeeps ==
  ASSUME NEW U, NEW s \in Seq(U), NEW S, NEW i \in DOMAIN s, s[i] \in S
  PROVE  \E k \in DOMAIN Only(s, S) : Only(s, S)[k] = s[i]
<1>. DEFINE kept == {j \in DOMAIN s : s[j] \in S}
<1>1. Len(s) \in Nat /\ kept \in SUBSET (1..Len(s)) /\ i \in kept
  OBVIOUS
<1>2. PICK k \in 1..Cardinality(kept) : Nth(kept, k) = i
  BY <1>1, NthOfCount
<1>. QED
  BY <1>2 DEF Only

(* What is kept is a list, of as many members as are in the set.           *)
LEMMA OnlyIsList ==
  ASSUME NEW U, NEW s \in Seq(U), NEW S
  PROVE  /\ Only(s, S) \in Seq(U)
         /\ Len(Only(s, S)) = Cardinality({i \in DOMAIN s : s[i] \in S})
<1>. DEFINE kept == {i \in DOMAIN s : s[i] \in S}
            n == Cardinality(kept)
            t == Only(s, S)
<1>1. n \in Nat
  <2>1. Len(s) \in Nat /\ kept \in SUBSET (1..Len(s))
    OBVIOUS
  <2>. HIDE DEF kept
  <2>. QED
    BY <2>1, UptoFinite
<1>2. DOMAIN t = 1..n /\ \A k \in DOMAIN t : \E i \in DOMAIN s : t[k] = s[i]
  BY SMTT(30), OnlyIs
<1>3. t = [k \in DOMAIN t |-> t[k]]
  BY DEF Only
<1>4. \A i \in DOMAIN s : s[i] \in U
  BY ElementOfSeq
<1>. HIDE DEF n, t
<1>5. t \in [1..n -> U]
  BY <1>2, <1>3, <1>4
<1>6. t \in UNION {[1..m -> U] : m \in Nat}
  BY <1>1, <1>5, Zenon
<1>7. t \in Seq(U)
  BY <1>6, SeqDef, Zenon
<1>8. Len(t) = n
  BY <1>1, <1>2, <1>7, LenProperties
<1>. QED
  BY <1>7, <1>8 DEF n, t

(* It begins with a member that is in the set, if there is one.            *)
LEMMA OnlyBegins ==
  ASSUME NEW U, NEW s \in Seq(U), NEW S, NEW i \in DOMAIN s, s[i] \in S
  PROVE  /\ Only(s, S) # <<>>
         /\ \E j \in DOMAIN s : Head(Only(s, S)) = s[j] /\ s[j] \in S
<1>. DEFINE t == Only(s, S)
<1>1. t \in Seq(U)
  BY OnlyIsList
<1>2. \E k \in DOMAIN t : t[k] = s[i]
  BY OnlyKeeps
<1>3. \A k \in DOMAIN t : \E j \in DOMAIN s : t[k] = s[j] /\ s[j] \in S
  BY OnlyIs
<1>. HIDE DEF t
<1>4. t # <<>> /\ 1 \in DOMAIN t /\ Head(t) = t[1]
  BY <1>1, <1>2
<1>. QED
  BY <1>3, <1>4 DEF t

(* One is the first of any that are.                                       *)
LEMMA FirstOf == \A m \in Nat \ {0} : 1 \in 1..m
  OBVIOUS
-----------------------------------------------------------------------------
(* Sums over a finite set *)

(* What holds of a set when it holds of each set with one member less holds*)
(* of a finite set.                                                        *)
LEMMA OneByOne ==
  ASSUME NEW S, IsFiniteSet(S), NEW Good,
         \A s \in SUBSET S : (\A x \in s : s \ {x} \in Good) => s \in Good
  PROVE  \A s \in SUBSET S : s \in Good
<1>. DEFINE T == {Cardinality(s) : s \in {t \in SUBSET S : t \notin Good}}
<1>1. \A s \in SUBSET S : IsFiniteSet(s) /\ Cardinality(s) \in Nat
  BY FS_Subset, FS_CardinalityType
<1>2. SUFFICES ASSUME T # {} PROVE FALSE
  OBVIOUS
<1>3. PICK n \in T : \A m \in T : n <= m
  <2>1. T \in SUBSET Nat
    BY <1>1
  <2>. QED
    BY <1>2, <2>1, NatMin
<1>4. PICK s \in SUBSET S : s \notin Good /\ Cardinality(s) = n
  BY <1>3
<1>5. ASSUME NEW x \in s PROVE s \ {x} \in Good
  <2>1. IsFiniteSet(s) /\ n \in Nat
    BY <1>1, <1>4
  <2>2. Cardinality(s \ {x}) = n - 1
    BY <1>4, <2>1, FS_RemoveElement
  <2>3. s \ {x} \in SUBSET S
    OBVIOUS
  <2>4. s \ {x} \notin Good => n - 1 \in T
    BY <2>2, <2>3
  <2>. QED
    BY <1>3, <2>1, <2>4
<1>. QED
  BY <1>4, <1>5

(* A sum is that of a set with one member less, and of that member.        *)
Sums(it, f, S) ==
  it = [s \in SUBSET S |->
          IF s = {} THEN 0
          ELSE f[CHOOSE x \in s : TRUE] + it[s \ {CHOOSE x \in s : TRUE}]]

LEMMA SumsAre ==
  ASSUME NEW f, NEW S
  PROVE  SumFunctionOnSet(f, S) = (CHOOSE it : Sums(it, f, S))[S]
BY DEF SumFunctionOnSet, FoldFunctionOnSet, MapThenFoldSet, Sums

(* There is such a function.                                               *)
LEMMA SumsExist ==
  ASSUME NEW f, NEW S, IsFiniteSet(S)
  PROVE  \E it : Sums(it, f, S)
<1>. DEFINE one(s) == CHOOSE x \in s : TRUE
            Size(n) == {s \in SUBSET S : Cardinality(s) <= n}
            next(it, s) == IF s = {} THEN 0 ELSE f[one(s)] + it[s \ {one(s)}]
            Upwards(n) == \E it : it = [s \in Size(n) |-> next(it, s)]
            T == {n \in Nat : ~Upwards(n)}
<1>1. \A s \in SUBSET S : IsFiniteSet(s) /\ Cardinality(s) \in Nat
  BY FS_Subset, FS_CardinalityType
<1>2. \A s \in SUBSET S : s # {} => one(s) \in s
  OBVIOUS
<1>3. \A s \in SUBSET S : s # {} =>
         s \ {one(s)} \in SUBSET S /\ Cardinality(s \ {one(s)}) = Cardinality(s) - 1
  <2>. SUFFICES ASSUME NEW s \in SUBSET S, s # {}
                PROVE  s \ {one(s)} \in SUBSET S /\ Cardinality(s \ {one(s)}) = Cardinality(s) - 1
    OBVIOUS
  <2>1. one(s) \in s /\ IsFiniteSet(s)
    BY <1>1, <1>2
  <2>. HIDE DEF one
  <2>. QED
    BY <2>1, FS_RemoveElement
<1>. HIDE DEF one
<1>4. T = {}
  <2>1. SUFFICES ASSUME T # {} PROVE FALSE
    OBVIOUS
  <2>2. PICK n \in T : \A m \in T : n <= m
    <3>1. T \in SUBSET Nat
      OBVIOUS
    <3>. QED
      BY <2>1, <3>1, NatMin
  <2>3. CASE n = 0
    <3>1. \A s \in Size(0) : s = {}
      BY <1>1, <2>3, FS_EmptySet
    <3>. DEFINE zero == [s \in Size(0) |-> 0]
    <3>2. zero = [s \in Size(0) |-> next(zero, s)]
      BY <3>1
    <3>3. Upwards(0)
      BY <3>2
    <3>. QED
      BY <2>2, <2>3, <3>3
  <2>4. CASE n # 0
    <3>1. n - 1 \in Nat /\ n - 1 \notin T
      <4>1. n \in Nat /\ n - 1 \in Nat /\ ~(n <= n - 1)
        BY <2>4
      <4>. HIDE DEF T
      <4>. QED
        BY <2>2, <4>1
    <3>2. PICK it : it = [s \in Size(n - 1) |-> next(it, s)]
      BY <3>1
    <3>. DEFINE up == [s \in Size(n) |-> next(it, s)]
    <3>3. ASSUME NEW s \in Size(n) PROVE next(it, s) = next(up, s)
      <4>1. CASE s = {}
        BY <4>1
      <4>2. CASE s # {}
        <5>. DEFINE r == s \ {one(s)}
        <5>1. r \in Size(n - 1) /\ r \in Size(n)
          BY <1>1, <1>3, <3>1, <4>2
        <5>2. it[r] = next(it, r)
          BY <3>2, <5>1
        <5>3. up[r] = next(it, r)
          BY <5>1
        <5>. HIDE DEF r, up
        <5>. QED
          BY <4>2, <5>2, <5>3 DEF r
      <4>. QED
        BY <4>1, <4>2
    <3>4. up = [s \in Size(n) |-> next(up, s)]
      <4>. HIDE DEF next
      <4>. QED
        BY <3>3
    <3>5. Upwards(n)
      <4>. HIDE DEF up, next
      <4>. QED
        BY <3>4
    <3>. QED
      BY <2>2, <3>5
  <2>. QED
    BY <2>3, <2>4
<1>5. PICK it : it = [s \in Size(Cardinality(S)) |-> next(it, s)]
  <2>1. Cardinality(S) \in Nat
    BY FS_CardinalityType
  <2>. QED
    BY <1>4, <2>1
<1>6. Size(Cardinality(S)) = SUBSET S
  <2>1. \A s \in SUBSET S : Cardinality(s) <= Cardinality(S)
    BY FS_Subset
  <2>. QED
    BY <2>1
<1>. QED
  BY <1>5, <1>6 DEF Sums, one

(* All of them agree.                                                      *)
LEMMA SumsAgree ==
  ASSUME NEW f, NEW g, NEW S, NEW T, IsFiniteSet(T), T \subseteq S,
         \A x \in T : f[x] = g[x],
         NEW it, Sums(it, f, S), NEW up, Sums(up, g, T)
  PROVE  it[T] = up[T]
<1>. DEFINE Good == {s \in SUBSET T : it[s] = up[s]}
            one(s) == CHOOSE x \in s : TRUE
<1>1. ASSUME NEW s \in SUBSET T, \A x \in s : s \ {x} \in Good PROVE s \in Good
  <2>0. /\ it[s] = IF s = {} THEN 0 ELSE f[one(s)] + it[s \ {one(s)}]
        /\ up[s] = IF s = {} THEN 0 ELSE g[one(s)] + up[s \ {one(s)}]
    BY Zenon DEF Sums
  <2>1. CASE s = {}
    BY <2>0, <2>1
  <2>2. CASE s # {}
    <3>1. one(s) \in s
      BY <2>2
    <3>2. it[s \ {one(s)}] = up[s \ {one(s)}] /\ f[one(s)] = g[one(s)]
      BY <1>1, <3>1
    <3>. QED
      BY <2>0, <2>2, <3>2
  <2>. QED
    BY <2>1, <2>2
<1>2. \A s \in SUBSET T : s \in Good
  <2>. HIDE DEF Good
  <2>. QED
    BY <1>1, OneByOne
<1>3. T \in Good
  <2>. HIDE DEF Good
  <2>. QED
    BY <1>2
<1>. QED
  BY <1>3

(* Nothing sums to nothing, and a sum is that of what it is over.          *)
LEMMA SumOfNone ==
  ASSUME NEW f
  PROVE  SumFunctionOnSet(f, {}) = 0
<1>1. PICK it : Sums(it, f, {})
  BY SumsExist, FS_EmptySet
<1>. DEFINE sums == CHOOSE i : Sums(i, f, {})
<1>2. Sums(sums, f, {})
  BY <1>1
<1>3. sums[{}] = 0
  <2>. HIDE DEF sums
  <2>. QED
    BY <1>2 DEF Sums
<1>. QED
  BY <1>3, SumsAre

LEMMA SumSame ==
  ASSUME NEW f, NEW g, NEW S, IsFiniteSet(S), \A x \in S : f[x] = g[x]
  PROVE  SumFunctionOnSet(f, S) = SumFunctionOnSet(g, S)
<1>. DEFINE it == CHOOSE i : Sums(i, f, S)
            up == CHOOSE i : Sums(i, g, S)
<1>1. Sums(it, f, S) /\ Sums(up, g, S)
  BY SumsExist
<1>2. ASSUME NEW a, Sums(a, f, S), NEW b, Sums(b, g, S) PROVE a[S] = b[S]
  BY <1>2, SumsAgree
<1>3. it[S] = up[S]
  BY <1>1, <1>2
<1>. QED
  BY <1>3, SumsAre

(* A sum is that of one member, whichever it is, and of the others.        *)
LEMMA SumStep ==
  ASSUME NEW f, NEW S, IsFiniteSet(S), S # {}
  PROVE  \E x \in S : SumFunctionOnSet(f, S) = f[x] + SumFunctionOnSet(f, S \ {x})
<1>. DEFINE x == CHOOSE y \in S : TRUE
            T == S \ {x}
            it == CHOOSE i : Sums(i, f, S)
            up == CHOOSE i : Sums(i, f, T)
<1>1. x \in S
  OBVIOUS
<1>2. IsFiniteSet(T) /\ T \subseteq S
  BY FS_Subset
<1>3. Sums(it, f, S) /\ Sums(up, f, T)
  BY <1>2, SumsExist
<1>4. ASSUME NEW a, Sums(a, f, S), NEW b, Sums(b, f, T) PROVE a[T] = b[T]
  <2>. HIDE DEF T
  <2>. QED
    BY <1>2, <1>4, SumsAgree
<1>5. it[S] = f[x] + it[T]
  <2>. HIDE DEF it
  <2>. QED
    BY <1>3 DEF Sums
<1>. HIDE DEF it, up
<1>6. it[S] = f[x] + up[T]
  BY <1>3, <1>4, <1>5
<1>. QED
  BY <1>1, <1>6, SumsAre DEF it, up

LEMMA SumIsInt ==
  ASSUME NEW f, NEW S, IsFiniteSet(S), \A x \in S : f[x] \in Int
  PROVE  SumFunctionOnSet(f, S) \in Int
<1>. DEFINE total(s) == SumFunctionOnSet(f, s)
            Good == {s \in SUBSET S : total(s) \in Int}
<1>1. \A s \in SUBSET S : s # {} => \E x \in s : total(s) = f[x] + total(s \ {x})
  <2>1. \A s \in SUBSET S : IsFiniteSet(s)
    BY FS_Subset
  <2>. QED
    BY <2>1, SumStep
<1>2. total({}) = 0
  BY SumOfNone
<1>. HIDE DEF total
<1>3. ASSUME NEW s \in SUBSET S, \A x \in s : s \ {x} \in Good PROVE s \in Good
  <2>1. CASE s = {}
    BY <1>2, <2>1
  <2>2. CASE s # {}
    <3>1. PICK x \in s : total(s) = f[x] + total(s \ {x})
      BY <1>1, <2>2
    <3>2. f[x] \in Int /\ total(s \ {x}) \in Int
      BY <1>3
    <3>. QED
      BY <3>1, <3>2
  <2>. QED
    BY <2>1, <2>2
<1>4. \A s \in SUBSET S : s \in Good
  <2>. HIDE DEF Good
  <2>. QED
    BY <1>3, OneByOne
<1>. QED
  BY <1>4 DEF total

LEMMA SumSplits ==
  ASSUME NEW f, NEW S, IsFiniteSet(S), \A x \in S : f[x] \in Int
  PROVE  \A x \in S : SumFunctionOnSet(f, S) = f[x] + SumFunctionOnSet(f, S \ {x})
<1>. DEFINE total(s) == SumFunctionOnSet(f, s)
            Splits(s) == \A x \in s : total(s) = f[x] + total(s \ {x})
            Good == {s \in SUBSET S : Splits(s)}
<1>1. \A s \in SUBSET S : IsFiniteSet(s)
  BY FS_Subset
<1>2. \A s \in SUBSET S : s # {} => \E x \in s : total(s) = f[x] + total(s \ {x})
  BY <1>1, SumStep
<1>3. \A s \in SUBSET S : total(s) \in Int
  BY <1>1, SumIsInt
<1>. HIDE DEF total
<1>4. ASSUME NEW s \in SUBSET S, \A x \in s : s \ {x} \in Good PROVE s \in Good
  <2>1. CASE s = {}
    BY <2>1
  <2>2. CASE s # {}
    <3>1. PICK y \in s : total(s) = f[y] + total(s \ {y})
      BY <1>2, <2>2
    <3>2. Splits(s \ {y})
      BY <1>4
    <3>4. ASSUME NEW x \in s, x # y PROVE total(s) = f[x] + total(s \ {x})
      <4>. DEFINE r == (s \ {y}) \ {x}
      <4>1. r = (s \ {x}) \ {y} /\ x \in s \ {y} /\ y \in s \ {x}
        BY <3>4
      <4>2. total(s \ {y}) = f[x] + total(r)
        BY <3>2, <4>1
      <4>3. Splits(s \ {x})
        BY <1>4
      <4>4. total(s \ {x}) = f[y] + total(r)
        BY <4>1, <4>3
      <4>5. r \in SUBSET S /\ total(r) \in Int /\ f[x] \in Int /\ f[y] \in Int
        <5>1. r \in SUBSET S /\ x \in S /\ y \in S
          OBVIOUS
        <5>. QED
          BY <1>3, <5>1
      <4>. HIDE DEF r
      <4>. QED
        BY <3>1, <4>2, <4>4, <4>5
    <3>. QED
      BY <3>1, <3>4
  <2>. QED
    BY <2>1, <2>2
<1>5. \A s \in SUBSET S : s \in Good
  <2>. HIDE DEF Good
  <2>. QED
    BY <1>4, OneByOne
<1>6. Splits(S)
  BY <1>5
<1>. QED
  BY <1>6 DEF total

(* One more is added.                                                      *)
LEMMA SumGrows ==
  ASSUME NEW f, NEW S, IsFiniteSet(S), NEW x, x \notin S, \A y \in S \cup {x} : f[y] \in Int
  PROVE  SumFunctionOnSet(f, S \cup {x}) = SumFunctionOnSet(f, S) + f[x]
<1>. DEFINE T == S \cup {x}
<1>1. IsFiniteSet(T) /\ x \in T /\ T \ {x} = S
  BY FS_AddElement
<1>2. SumFunctionOnSet(f, T) = f[x] + SumFunctionOnSet(f, T \ {x})
  BY <1>1, SumSplits
<1>3. f[x] \in Int /\ SumFunctionOnSet(f, S) \in Int
  BY SumIsInt
<1>4. SumFunctionOnSet(f, T) = f[x] + SumFunctionOnSet(f, S)
  BY <1>1, <1>2
<1>. QED
  BY <1>3, <1>4

(* Two sets with no member in common.                                      *)
LEMMA SumOfBoth ==
  ASSUME NEW f, NEW A, NEW B, IsFiniteSet(A), IsFiniteSet(B), A \cap B = {},
         \A x \in A \cup B : f[x] \in Int
  PROVE  SumFunctionOnSet(f, A \cup B) = SumFunctionOnSet(f, A) + SumFunctionOnSet(f, B)
<1>. DEFINE total(s) == SumFunctionOnSet(f, s)
            Good == {s \in SUBSET B : total(A \cup s) = total(A) + total(s)}
<1>1. \A s \in SUBSET B : /\ IsFiniteSet(s) /\ total(s) \in Int
                         /\ IsFiniteSet(A \cup s) /\ total(A \cup s) \in Int
  BY FS_Subset, FS_Union, SumIsInt
<1>2. total(A) \in Int /\ total({}) = 0
  BY SumIsInt, SumOfNone
<1>3. ASSUME NEW s \in SUBSET B, NEW x \in s
      PROVE  /\ total(s) = total(s \ {x}) + f[x]
             /\ total(A \cup s) = total(A \cup (s \ {x})) + f[x] /\ f[x] \in Int
  <2>. DEFINE r == s \ {x}
              T == A \cup r
  <2>1. /\ IsFiniteSet(r) /\ IsFiniteSet(T) /\ x \notin T /\ x \notin r
        /\ r \cup {x} = s /\ T \cup {x} = A \cup s
    BY <1>1
  <2>2. \A y \in T \cup {x} : f[y] \in Int
    OBVIOUS
  <2>. HIDE DEF T, r
  <2>3. total(r \cup {x}) = total(r) + f[x]
    BY <2>1, <2>2, SumGrows DEF T
  <2>4. total(T \cup {x}) = total(T) + f[x]
    BY <2>1, <2>2, SumGrows
  <2>. QED
    BY <2>1, <2>2, <2>3, <2>4 DEF r, T
<1>. HIDE DEF total
<1>4. ASSUME NEW s \in SUBSET B, \A x \in s : s \ {x} \in Good PROVE s \in Good
  <2>1. CASE s = {}
    <3>1. A \cup s = A
      BY <2>1
    <3>. QED
      BY <1>2, <2>1, <3>1
  <2>2. CASE s # {}
    <3>1. PICK x \in s : TRUE
      BY <2>2
    <3>2. total(A \cup (s \ {x})) = total(A) + total(s \ {x})
      BY <1>4
    <3>3. total(s \ {x}) \in Int
      BY <1>1
    <3>4. /\ total(s) = total(s \ {x}) + f[x]
          /\ total(A \cup s) = total(A \cup (s \ {x})) + f[x] /\ f[x] \in Int
      BY <1>3
    <3>5. total(A \cup s) = total(A) + total(s)
      BY <1>2, <3>2, <3>3, <3>4
    <3>. QED
      BY <3>5
  <2>. QED
    BY <2>1, <2>2
<1>5. \A s \in SUBSET B : s \in Good
  <2>. HIDE DEF Good
  <2>. QED
    BY <1>4, OneByOne
<1>. QED
  BY <1>5 DEF total

(* A sum of what is never less is never less.                              *)
LEMMA SumAtMost ==
  ASSUME NEW f, NEW g, NEW S, IsFiniteSet(S),
         \A x \in S : f[x] \in Int /\ g[x] \in Int /\ f[x] <= g[x]
  PROVE  SumFunctionOnSet(f, S) <= SumFunctionOnSet(g, S)
<1>. DEFINE F(s) == SumFunctionOnSet(f, s)
            G(s) == SumFunctionOnSet(g, s)
            Good == {s \in SUBSET S : F(s) <= G(s)}
<1>1. \A s \in SUBSET S : IsFiniteSet(s) /\ F(s) \in Int /\ G(s) \in Int
  BY FS_Subset, SumIsInt
<1>2. ASSUME NEW s \in SUBSET S, NEW x \in s
      PROVE  F(s) = f[x] + F(s \ {x}) /\ G(s) = g[x] + G(s \ {x})
  <2>1. IsFiniteSet(s) /\ \A y \in s : f[y] \in Int /\ g[y] \in Int
    BY <1>1
  <2>2. SumFunctionOnSet(f, s) = f[x] + SumFunctionOnSet(f, s \ {x})
    BY <2>1, SumSplits
  <2>3. SumFunctionOnSet(g, s) = g[x] + SumFunctionOnSet(g, s \ {x})
    BY <2>1, SumSplits
  <2>. QED
    BY <2>2, <2>3
<1>3. F({}) = 0 /\ G({}) = 0
  BY SumOfNone
<1>. HIDE DEF F, G
<1>4. ASSUME NEW s \in SUBSET S, \A x \in s : s \ {x} \in Good PROVE s \in Good
  <2>1. CASE s = {}
    BY <1>3, <2>1
  <2>2. CASE s # {}
    <3>1. PICK x \in s : TRUE
      BY <2>2
    <3>2. F(s \ {x}) <= G(s \ {x}) /\ F(s \ {x}) \in Int /\ G(s \ {x}) \in Int
      BY <1>1, <1>4
    <3>. QED
      BY <1>2, <3>2
  <2>. QED
    BY <2>1, <2>2
<1>5. \A s \in SUBSET S : s \in Good
  <2>. HIDE DEF Good
  <2>. QED
    BY <1>4, OneByOne
<1>. QED
  BY <1>5 DEF F, G

(* Nothing but zeros sums to zero, and nothing negative to nothing         *)
(* negative; a part of such a sum is no more than the whole.               *)
LEMMA SumOfZeros ==
  ASSUME NEW f, NEW S, IsFiniteSet(S), \A x \in S : f[x] = 0
  PROVE  SumFunctionOnSet(f, S) = 0
<1>. DEFINE Good == {s \in SUBSET S : SumFunctionOnSet(f, s) = 0}
<1>1. ASSUME NEW s \in SUBSET S, \A x \in s : s \ {x} \in Good PROVE s \in Good
  <2>1. CASE s = {}
    BY <2>1, SumOfNone
  <2>2. CASE s # {}
    <3>1. IsFiniteSet(s)
      BY FS_Subset
    <3>2. PICK x \in s : SumFunctionOnSet(f, s) = f[x] + SumFunctionOnSet(f, s \ {x})
      BY <2>2, <3>1, SumStep
    <3>3. f[x] = 0 /\ SumFunctionOnSet(f, s \ {x}) = 0
      BY <1>1
    <3>. QED
      BY <3>2, <3>3
  <2>. QED
    BY <2>1, <2>2
<1>2. \A s \in SUBSET S : s \in Good
  <2>. HIDE DEF Good
  <2>. QED
    BY <1>1, OneByOne
<1>. QED
  BY <1>2

LEMMA SumIsNat ==
  ASSUME NEW f, NEW S, IsFiniteSet(S), \A x \in S : f[x] \in Nat
  PROVE  SumFunctionOnSet(f, S) \in Nat
<1>. DEFINE zero == [x \in S |-> 0]
<1>1. SumFunctionOnSet(zero, S) = 0
  BY SumOfZeros
<1>2. \A x \in S : zero[x] \in Int /\ f[x] \in Int /\ zero[x] <= f[x]
  OBVIOUS
<1>. HIDE DEF zero
<1>3. SumFunctionOnSet(zero, S) <= SumFunctionOnSet(f, S) /\ SumFunctionOnSet(f, S) \in Int
  BY <1>2, SumAtMost, SumIsInt
<1>. QED
  BY <1>1, <1>3

LEMMA SumOfPart ==
  ASSUME NEW f, NEW S, IsFiniteSet(S), \A x \in S : f[x] \in Nat, NEW A \in SUBSET S
  PROVE  SumFunctionOnSet(f, A) <= SumFunctionOnSet(f, S)
<1>. DEFINE B == S \ A
<1>1. /\ IsFiniteSet(A) /\ IsFiniteSet(B) /\ A \cup B = S /\ A \cap B = {}
      /\ \A x \in A \cup B : f[x] \in Int
  BY FS_Subset
<1>2. SumFunctionOnSet(f, A) \in Nat /\ SumFunctionOnSet(f, B) \in Nat
  BY <1>1, SumIsNat
<1>3. SumFunctionOnSet(f, A \cup B) = SumFunctionOnSet(f, A) + SumFunctionOnSet(f, B)
  <2>. HIDE DEF B
  <2>. QED
    BY <1>1, SumOfBoth
<1>4. SumFunctionOnSet(f, S) = SumFunctionOnSet(f, A) + SumFunctionOnSet(f, B)
  BY <1>1, <1>3
<1>. HIDE DEF B
<1>. QED
  BY <1>2, <1>4

LEMMA SumHasMember ==
  ASSUME NEW f, NEW S, IsFiniteSet(S), \A x \in S : f[x] \in Nat, NEW x \in S
  PROVE  f[x] <= SumFunctionOnSet(f, S)
<1>1. IsFiniteSet(S \ {x})
  BY FS_Subset
<1>2. SumFunctionOnSet(f, S \ {x}) \in Nat /\ f[x] \in Nat
  BY <1>1, SumIsNat
<1>3. SumFunctionOnSet(f, S) = f[x] + SumFunctionOnSet(f, S \ {x})
  BY SumSplits
<1>. QED
  BY <1>2, <1>3

(* What is zero beyond a part is left out of the sum.                      *)
LEMMA SumLeavesOut ==
  ASSUME NEW f, NEW S, IsFiniteSet(S), NEW A \in SUBSET S,
         \A x \in A : f[x] \in Int, \A x \in S \ A : f[x] = 0
  PROVE  SumFunctionOnSet(f, S) = SumFunctionOnSet(f, A)
<1>. DEFINE B == S \ A
<1>1. /\ IsFiniteSet(A) /\ IsFiniteSet(B) /\ A \cup B = S /\ A \cap B = {}
      /\ \A x \in A \cup B : f[x] \in Int
  BY FS_Subset
<1>2. SumFunctionOnSet(f, A) \in Int /\ SumFunctionOnSet(f, B) = 0
  BY <1>1, SumIsInt, SumOfZeros
<1>3. SumFunctionOnSet(f, A \cup B) = SumFunctionOnSet(f, A) + SumFunctionOnSet(f, B)
  <2>. HIDE DEF B
  <2>. QED
    BY <1>1, SumOfBoth
<1>. QED
  BY <1>1, <1>2, <1>3

(* A multiple of a sum is the sum of the multiples.                        *)
LEMMA Spread ==
  ASSUME NEW a \in Int, NEW b \in Int, NEW k \in Int
  PROVE  (a + b) * k = a * k + b * k
OBVIOUS

LEMMA SumOfMultiples ==
  ASSUME NEW f, NEW g, NEW S, IsFiniteSet(S), NEW k \in Int,
         \A x \in S : f[x] \in Int /\ g[x] = f[x] * k
  PROVE  SumFunctionOnSet(g, S) = SumFunctionOnSet(f, S) * k
<1>. DEFINE F(s) == SumFunctionOnSet(f, s)
            G(s) == SumFunctionOnSet(g, s)
            Good == {s \in SUBSET S : G(s) = F(s) * k}
<1>1. \A x \in S : f[x] \in Int /\ g[x] \in Int
  OBVIOUS
<1>2. \A s \in SUBSET S : IsFiniteSet(s) /\ F(s) \in Int /\ G(s) \in Int
  BY <1>1, FS_Subset, SumIsInt
<1>3. ASSUME NEW s \in SUBSET S, NEW x \in s
      PROVE  F(s) = f[x] + F(s \ {x}) /\ G(s) = g[x] + G(s \ {x})
  <2>1. IsFiniteSet(s) /\ \A y \in s : f[y] \in Int /\ g[y] \in Int
    BY <1>1, <1>2
  <2>2. SumFunctionOnSet(f, s) = f[x] + SumFunctionOnSet(f, s \ {x})
    BY <2>1, SumSplits
  <2>3. SumFunctionOnSet(g, s) = g[x] + SumFunctionOnSet(g, s \ {x})
    BY <2>1, SumSplits
  <2>. QED
    BY <2>2, <2>3
<1>4. F({}) = 0 /\ G({}) = 0
  BY SumOfNone
<1>. HIDE DEF F, G
<1>5. ASSUME NEW s \in SUBSET S, \A x \in s : s \ {x} \in Good PROVE s \in Good
  <2>1. CASE s = {}
    BY <1>4, <2>1
  <2>2. CASE s # {}
    <3>1. PICK x \in s : TRUE
      BY <2>2
    <3>2. G(s \ {x}) = F(s \ {x}) * k /\ F(s \ {x}) \in Int /\ G(s \ {x}) \in Int
      BY <1>2, <1>5
    <3>3. F(s) = f[x] + F(s \ {x}) /\ G(s) = f[x] * k + G(s \ {x}) /\ f[x] \in Int
      BY <1>3
    <3>4. (f[x] + F(s \ {x})) * k = f[x] * k + F(s \ {x}) * k
      BY <3>2, <3>3, Spread
    <3>5. G(s) = F(s) * k
      BY <3>2, <3>3, <3>4
    <3>. QED
      BY <3>5
  <2>. QED
    BY <2>1, <2>2
<1>6. \A s \in SUBSET S : s \in Good
  <2>. HIDE DEF Good
  <2>. QED
    BY <1>5, OneByOne
<1>. QED
  BY <1>6 DEF F, G

(* As many times the same.                                                 *)
LEMMA SumOfSame ==
  ASSUME NEW f, NEW S, IsFiniteSet(S), NEW a \in Int, \A x \in S : f[x] = a
  PROVE  SumFunctionOnSet(f, S) = Cardinality(S) * a
<1>. DEFINE Good == {s \in SUBSET S : SumFunctionOnSet(f, s) = Cardinality(s) * a}
<1>1. \A s \in SUBSET S : IsFiniteSet(s) /\ Cardinality(s) \in Nat
  BY FS_Subset, FS_CardinalityType
<1>2. ASSUME NEW s \in SUBSET S, \A x \in s : s \ {x} \in Good PROVE s \in Good
  <2>1. CASE s = {}
    BY <2>1, SumOfNone, FS_EmptySet
  <2>2. CASE s # {}
    <3>1. PICK x \in s : SumFunctionOnSet(f, s) = f[x] + SumFunctionOnSet(f, s \ {x})
      BY <1>1, <2>2, SumStep
    <3>2. f[x] = a /\ SumFunctionOnSet(f, s \ {x}) = Cardinality(s \ {x}) * a
      BY <1>2
    <3>3. Cardinality(s \ {x}) = Cardinality(s) - 1 /\ Cardinality(s) \in Nat
      BY <1>1, FS_RemoveElement
    <3>4. ((Cardinality(s) - 1) + 1) * a = (Cardinality(s) - 1) * a + 1 * a
      BY <3>3, Spread
    <3>5. SumFunctionOnSet(f, s) = Cardinality(s) * a
      BY <3>1, <3>2, <3>3, <3>4
    <3>. QED
      BY <3>5
  <2>. QED
    BY <2>1, <2>2
<1>3. \A s \in SUBSET S : s \in Good
  <2>. HIDE DEF Good
  <2>. QED
    BY <1>2, OneByOne
<1>. QED
  BY <1>3

LEMMA SumOfSums ==
  ASSUME NEW f, NEW g, NEW h, NEW S, IsFiniteSet(S),
         \A x \in S : f[x] \in Int /\ g[x] \in Int /\ h[x] = f[x] + g[x]
  PROVE  SumFunctionOnSet(h, S) = SumFunctionOnSet(f, S) + SumFunctionOnSet(g, S)
<1>. DEFINE F(s) == SumFunctionOnSet(f, s)
            G(s) == SumFunctionOnSet(g, s)
            H(s) == SumFunctionOnSet(h, s)
            Good == {s \in SUBSET S : H(s) = F(s) + G(s)}
<1>1. \A x \in S : f[x] \in Int /\ g[x] \in Int /\ h[x] \in Int
  OBVIOUS
<1>2. \A s \in SUBSET S : IsFiniteSet(s) /\ F(s) \in Int /\ G(s) \in Int
  BY <1>1, FS_Subset, SumIsInt
<1>3. ASSUME NEW s \in SUBSET S, NEW x \in s
      PROVE  /\ F(s) = f[x] + F(s \ {x}) /\ G(s) = g[x] + G(s \ {x})
             /\ H(s) = h[x] + H(s \ {x})
  <2>1. IsFiniteSet(s) /\ \A y \in s : f[y] \in Int /\ g[y] \in Int /\ h[y] \in Int
    BY <1>1, <1>2
  <2>2. SumFunctionOnSet(f, s) = f[x] + SumFunctionOnSet(f, s \ {x})
    BY <2>1, SumSplits
  <2>3. SumFunctionOnSet(g, s) = g[x] + SumFunctionOnSet(g, s \ {x})
    BY <2>1, SumSplits
  <2>4. SumFunctionOnSet(h, s) = h[x] + SumFunctionOnSet(h, s \ {x})
    BY <2>1, SumSplits
  <2>. QED
    BY <2>2, <2>3, <2>4
<1>4. F({}) = 0 /\ G({}) = 0 /\ H({}) = 0
  BY SumOfNone
<1>. HIDE DEF F, G, H
<1>5. ASSUME NEW s \in SUBSET S, \A x \in s : s \ {x} \in Good PROVE s \in Good
  <2>1. CASE s = {}
    BY <1>4, <2>1
  <2>2. CASE s # {}
    <3>1. PICK x \in s : TRUE
      BY <2>2
    <3>2. H(s \ {x}) = F(s \ {x}) + G(s \ {x}) /\ F(s \ {x}) \in Int /\ G(s \ {x}) \in Int
      BY <1>2, <1>5
    <3>3. /\ F(s) = f[x] + F(s \ {x}) /\ G(s) = g[x] + G(s \ {x})
          /\ H(s) = f[x] + g[x] + H(s \ {x}) /\ f[x] \in Int /\ g[x] \in Int
      BY <1>3
    <3>4. H(s) = F(s) + G(s)
      BY <3>2, <3>3
    <3>. QED
      BY <3>4
  <2>. QED
    BY <2>1, <2>2
<1>6. \A s \in SUBSET S : s \in Good
  <2>. HIDE DEF Good
  <2>. QED
    BY <1>5, OneByOne
<1>. QED
  BY <1>6 DEF F, G, H

(* Sums of what is priced and of what is charged: k times a price is at    *)
(* most the charge, and the charge is less than k times the price and some.*)
LEMMA SumIsFloor ==
  ASSUME NEW f, NEW h, NEW S, IsFiniteSet(S), NEW k \in Int,
         \A x \in S : f[x] \in Int /\ h[x] \in Int /\ f[x] * k <= h[x]
  PROVE  SumFunctionOnSet(f, S) * k <= SumFunctionOnSet(h, S)
<1>. DEFINE g == [x \in S |-> f[x] * k]
<1>1. \A x \in S : g[x] = f[x] * k /\ g[x] \in Int
  OBVIOUS
<1>. HIDE DEF g
<1>2. SumFunctionOnSet(g, S) = SumFunctionOnSet(f, S) * k
  BY <1>1, SumOfMultiples
<1>3. SumFunctionOnSet(g, S) <= SumFunctionOnSet(h, S)
  BY <1>1, SumAtMost
<1>. QED
  BY <1>2, <1>3

LEMMA SumIsNear ==
  ASSUME NEW f, NEW h, NEW S, IsFiniteSet(S), NEW k \in Int, NEW d \in Int,
         \A x \in S : f[x] \in Int /\ h[x] \in Int /\ h[x] < (f[x] + d) * k
  PROVE  SumFunctionOnSet(h, S) + Cardinality(S) <= (SumFunctionOnSet(f, S) + Cardinality(S) * d) * k
<1>. DEFINE g == [x \in S |-> f[x] + d]
            up == [x \in S |-> h[x] + 1]
            times == [x \in S |-> (f[x] + d) * k]
            same == [x \in S |-> d]
            one == [x \in S |-> 1]
<1>1. \A x \in S : /\ g[x] \in Int /\ times[x] = g[x] * k /\ times[x] \in Int
                  /\ same[x] \in Int /\ same[x] = d /\ g[x] = f[x] + same[x]
                  /\ one[x] \in Int /\ one[x] = 1 /\ up[x] = h[x] + one[x]
                  /\ up[x] \in Int /\ up[x] <= times[x]
  OBVIOUS
<1>. HIDE DEF g, up, times, same, one
<1>2. SumFunctionOnSet(times, S) = SumFunctionOnSet(g, S) * k
  BY <1>1, SumOfMultiples
<1>3. SumFunctionOnSet(g, S) = SumFunctionOnSet(f, S) + SumFunctionOnSet(same, S)
  BY <1>1, SumOfSums
<1>4. SumFunctionOnSet(same, S) = Cardinality(S) * d
  BY <1>1, SumOfSame
<1>5. SumFunctionOnSet(up, S) = SumFunctionOnSet(h, S) + SumFunctionOnSet(one, S)
  BY <1>1, SumOfSums
<1>6. SumFunctionOnSet(one, S) = Cardinality(S)
  <2>1. SumFunctionOnSet(one, S) = Cardinality(S) * 1
    BY <1>1, SumOfSame
  <2>2. Cardinality(S) \in Nat
    BY FS_CardinalityType
  <2>. QED
    BY <2>1, <2>2
<1>7. SumFunctionOnSet(up, S) <= SumFunctionOnSet(times, S)
  BY <1>1, SumAtMost
<1>. QED
  BY <1>2, <1>3, <1>4, <1>5, <1>6, <1>7

(* A sum over the images of what is told apart.                            *)
LEMMA SumOfImages ==
  ASSUME NEW f, NEW g, NEW h, NEW S, IsFiniteSet(S),
         \A x \in S : h[x] = f[g[x]] /\ h[x] \in Int,
         \A x, y \in S : g[x] = g[y] => x = y
  PROVE  SumFunctionOnSet(f, {g[x] : x \in S}) = SumFunctionOnSet(h, S)
<1>. DEFINE F(s) == SumFunctionOnSet(f, {g[x] : x \in s})
            H(s) == SumFunctionOnSet(h, s)
            Good == {s \in SUBSET S : F(s) = H(s)}
<1>1. ASSUME NEW s \in SUBSET S, NEW x \in s
      PROVE  F(s) = f[g[x]] + F(s \ {x}) /\ H(s) = h[x] + H(s \ {x})
  <2>. DEFINE T == {g[y] : y \in s}
  <2>1. IsFiniteSet(s) /\ IsFiniteSet(T)
    <3>. DEFINE map == [y \in s |-> g[y]]
    <3>1. map \in Surjection(s, T)
      BY DEF Surjection
    <3>2. IsFiniteSet(s)
      BY FS_Subset
    <3>. HIDE DEF map, T
    <3>. QED
      BY <3>1, <3>2, FS_Surjection
  <2>2. g[x] \in T /\ {g[y] : y \in s \ {x}} = T \ {g[x]} /\ \A t \in T : f[t] \in Int
    OBVIOUS
  <2>. HIDE DEF T
  <2>3. SumFunctionOnSet(f, T) = f[g[x]] + SumFunctionOnSet(f, T \ {g[x]})
    BY <2>1, <2>2, SumSplits
  <2>4. SumFunctionOnSet(h, s) = h[x] + SumFunctionOnSet(h, s \ {x})
    BY <2>1, SumSplits
  <2>5. F(s) = f[g[x]] + F(s \ {x})
    BY <2>2, <2>3 DEF T
  <2>. QED
    BY <2>4, <2>5
<1>2. F({}) = 0 /\ H({}) = 0
  <2>1. {g[x] : x \in {}} = {}
    OBVIOUS
  <2>. QED
    BY <2>1, SumOfNone
<1>. HIDE DEF F, H
<1>3. ASSUME NEW s \in SUBSET S, \A x \in s : s \ {x} \in Good PROVE s \in Good
  <2>1. CASE s = {}
    BY <1>2, <2>1
  <2>2. CASE s # {}
    <3>1. PICK x \in s : TRUE
      BY <2>2
    <3>2. F(s) = f[g[x]] + F(s \ {x}) /\ H(s) = h[x] + H(s \ {x}) /\ h[x] = f[g[x]]
      BY <1>1
    <3>3. F(s \ {x}) = H(s \ {x})
      BY <1>3
    <3>4. F(s) = H(s)
      BY <3>2, <3>3
    <3>. QED
      BY <3>4
  <2>. QED
    BY <2>1, <2>2
<1>4. \A s \in SUBSET S : s \in Good
  <2>. HIDE DEF Good
  <2>. QED
    BY <1>3, OneByOne
<1>. QED
  BY <1>4 DEF F, H

(* Sums whose terms are each short of another by less than one unit of it. *)
LEMMA SumIsNearByOne ==
  ASSUME NEW f, NEW h, NEW S, IsFiniteSet(S), NEW k \in Int,
         \A x \in S : f[x] \in Int /\ h[x] \in Int /\ h[x] < (f[x] + 1) * k
  PROVE  SumFunctionOnSet(h, S) + Cardinality(S) <= (SumFunctionOnSet(f, S) + Cardinality(S)) * k
<1>. DEFINE d == 1
<1>1. d \in Int /\ d = 1 /\ Cardinality(S) \in Nat
  BY FS_CardinalityType
<1>. HIDE DEF d
<1>2. \A x \in S : h[x] < (f[x] + d) * k
  BY <1>1
<1>3. SumFunctionOnSet(h, S) + Cardinality(S) <= (SumFunctionOnSet(f, S) + Cardinality(S) * d) * k
  BY <1>1, <1>2, SumIsNear
<1>. QED
  BY <1>1, <1>3

(* What truncating division leaves out.                                    *)
LEMMA DivFloor ==
  ASSUME NEW n \in Nat, NEW d \in Nat \ {0}
  PROVE  /\ n \div d \in Nat /\ (n \div d) * d <= n /\ n < ((n \div d) + 1) * d
<1>1. n \div d \in Nat /\ n = d * (n \div d) + (n % d) /\ n % d \in 0..d - 1
  OBVIOUS
<1>2. ((n \div d) + 1) * d = (n \div d) * d + 1 * d
  BY <1>1, Spread
<1>. QED
  BY <1>1, <1>2

(* Multiplying by a number that is not zero makes nothing smaller.         *)
LEMMA NoLess ==
  ASSUME NEW a \in Nat, NEW b \in Nat \ {0}
  PROVE  a <= a * b /\ a * b \in Nat
OBVIOUS

(* Products, as the provers are given them.                                *)
LEMMA Regroup ==
  ASSUME NEW a \in Int, NEW b \in Int, NEW c \in Int
  PROVE  a * (b * c) = (a * b) * c
OBVIOUS

(* An order is kept by scaling.                                            *)
LEMMA Scale ==
  ASSUME NEW a \in Int, NEW b \in Int, NEW k \in Nat, a <= b
  PROVE  a * k <= b * k
OBVIOUS

(* A strict order is kept by scaling.                                      *)
LEMMA ScaleLess ==
  ASSUME NEW a \in Int, NEW b \in Int, NEW k \in Nat \ {0}, a < b
  PROVE  a * k < b * k
OBVIOUS

(* A finite set's images are a finite set.                                 *)
LEMMA ImageIsFinite ==
  ASSUME NEW S, IsFiniteSet(S), NEW f, NEW T, T = {f[x] : x \in S}
  PROVE  IsFiniteSet(T)
<1>. DEFINE map == [x \in S |-> f[x]]
<1>1. map \in Surjection(S, T)
  BY DEF Surjection
<1>. HIDE DEF map
<1>. QED
  BY <1>1, FS_Surjection

(* Nothing has no members.                                                 *)
LEMMA CountOfNone ==
  ASSUME NEW T, T = {}
  PROVE  Cardinality(T) = 0
BY FS_EmptySet

(* Two sets with no member in common are counted one after another.        *)
LEMMA CountOfBoth ==
  ASSUME NEW X, NEW Y, IsFiniteSet(X), IsFiniteSet(Y), X \cap Y = {}, NEW Z, Z = X \cup Y
  PROVE  Cardinality(Z) = Cardinality(X) + Cardinality(Y)
<1>1. Cardinality(X \cup Y) = Cardinality(X) + Cardinality(Y) - Cardinality(X \cap Y)
  BY FS_Union
<1>2. Cardinality(X \cap Y) = 0 /\ Cardinality(X) \in Nat /\ Cardinality(Y) \in Nat
  BY FS_EmptySet, FS_CardinalityType
<1>. QED
  BY <1>1, <1>2

(* The same of parts of two such sets.                                     *)
LEMMA CountSplits ==
  ASSUME NEW A, NEW B, IsFiniteSet(A), IsFiniteSet(B), A \cap B = {},
         NEW X, NEW Y, X \subseteq A, Y \subseteq B, NEW Z, Z = X \cup Y
  PROVE  Cardinality(Z) = Cardinality(X) + Cardinality(Y)
<1>1. IsFiniteSet(X) /\ IsFiniteSet(Y) /\ X \cap Y = {}
  BY FS_Subset
<1>. QED
  BY <1>1, CountOfBoth

(* What two functions with no argument in common sum to, together.         *)
LEMMA SumSplitsIn ==
  ASSUME NEW f, NEW g, NEW h, IsFiniteSet(DOMAIN f), IsFiniteSet(DOMAIN g),
         DOMAIN f \cap DOMAIN g = {}, DOMAIN h = DOMAIN f \cup DOMAIN g,
         \A x \in DOMAIN f : f[x] \in Nat /\ h[x] = f[x],
         \A y \in DOMAIN g : g[y] \in Nat /\ h[y] = g[y]
  PROVE  /\ SumFunction(h) = SumFunction(f) + SumFunction(g)
         /\ SumFunction(f) \in Nat /\ SumFunction(g) \in Nat
         /\ DOMAIN f = {} => SumFunction(f) = 0
         /\ DOMAIN g = {} => SumFunction(g) = 0
<1>. DEFINE X == DOMAIN f
            Y == DOMAIN g
<1>1. SumFunctionOnSet(h, X \cup Y) = SumFunctionOnSet(h, X) + SumFunctionOnSet(h, Y)
  <2>1. \A z \in X \cup Y : h[z] \in Int
    OBVIOUS
  <2>. HIDE DEF X, Y
  <2>. QED
    BY <2>1, SumOfBoth DEF X, Y
<1>2. SumFunctionOnSet(h, X) = SumFunctionOnSet(f, X)
  BY SumSame
<1>3. SumFunctionOnSet(h, Y) = SumFunctionOnSet(g, Y)
  BY SumSame
<1>4. SumFunctionOnSet(f, X) \in Nat /\ SumFunctionOnSet(g, Y) \in Nat
  BY SumIsNat
<1>5. \A t : SumFunctionOnSet(t, {}) = 0
  BY SumOfNone
<1>6. SumFunction(f) = SumFunctionOnSet(f, X) /\ SumFunction(g) = SumFunctionOnSet(g, Y)
      /\ SumFunction(h) = SumFunctionOnSet(h, X \cup Y)
  BY DEF SumFunction
<1>. QED
  BY <1>1, <1>2, <1>3, <1>4, <1>5, <1>6

(* A sum over what each member of a set stands for is one over the set.    *)
LEMMA SumOver ==
  ASSUME NEW S, IsFiniteSet(S), NEW of, \A x, y \in S : of[x] = of[y] => x = y,
         NEW T, T = {of[x] : x \in S},
         NEW each, NEW billed, \A x \in S : billed[x] = each[of[x]] /\ billed[x] \in Int
  PROVE  SumFunctionOnSet(each, T) = SumFunctionOnSet(billed, S)
<1>1. SumFunctionOnSet(each, {of[x] : x \in S}) = SumFunctionOnSet(billed, S)
  BY SumOfImages
<1>. QED
  BY <1>1

-----------------------------------------------------------------------------
(* Lists that grow by one *)

(* A function on 1..n is a list of what it takes for values.               *)
LEMMA IsList ==
  ASSUME NEW n \in Nat, NEW t, DOMAIN t = 1..n, t = [i \in DOMAIN t |-> t[i]]
  PROVE  t \in Seq(ToSet(t)) /\ Len(t) = n
<1>1. \A i \in 1..n : t[i] \in ToSet(t)
  BY DEF ToSet
<1>2. t \in [1..n -> ToSet(t)]
  BY <1>1
<1>3. t \in UNION {[1..m -> ToSet(t)] : m \in Nat}
  BY <1>2, Zenon
<1>4. t \in Seq(ToSet(t))
  BY <1>3, SeqDef, Zenon
<1>5. DOMAIN t = 1..Len(t) /\ Len(t) \in Nat
  BY <1>4, LenProperties
<1>. QED
  BY <1>4, <1>5

(* A list with one more, whatever it is a list of.                         *)
LEMMA Longer ==
  ASSUME NEW s, s \in Seq(ToSet(s)), NEW e
  PROVE  LET t == Append(s, e) IN
         /\ t \in Seq(ToSet(t)) /\ Len(t) = Len(s) + 1 /\ Len(s) \in Nat
         /\ DOMAIN s = 1..Len(s) /\ DOMAIN t = 1..Len(s) + 1
         /\ \A i \in 1..Len(s) : t[i] = s[i]
         /\ t[Len(s) + 1] = e
<1>. DEFINE t == Append(s, e)
            S == ToSet(s) \cup {e}
<1>1. s \in Seq(S)
  <2>1. ToSet(s) \subseteq S
    OBVIOUS
  <2>. QED
    BY <2>1
<1>2. t \in Seq(S) /\ Len(t) = Len(s) + 1 /\ Len(s) \in Nat
  BY <1>1
<1>3. DOMAIN s = 1..Len(s) /\ DOMAIN t = 1..Len(t)
  BY <1>1, <1>2
<1>4. \A i \in 1..Len(s) : t[i] = s[i]
  BY <1>1
<1>5. t[Len(s) + 1] = e
  BY <1>1
<1>6. t \in Seq(ToSet(t))
  <2>1. t \in [1..Len(t) -> S]
    BY <1>2, LenProperties
  <2>2. t = [i \in DOMAIN t |-> t[i]]
    BY <2>1
  <2>3. Len(t) \in Nat
    BY <1>2
  <2>. QED
    BY <1>3, <2>2, <2>3, IsList
<1>. QED
  BY <1>2, <1>3, <1>4, <1>5, <1>6

(* Two lists that share nothing, one after the other.                      *)
LEMMA ListsJoin ==
  ASSUME NEW s, s \in Seq(ToSet(s)), IsInjective(s),
         NEW t, t \in Seq(ToSet(t)), IsInjective(t),
         \A e \in ToSet(t) : e \notin ToSet(s)
  PROVE  /\ s \o t \in Seq(ToSet(s \o t)) /\ IsInjective(s \o t)
         /\ ToSet(s \o t) = ToSet(s) \cup ToSet(t)
<1>. DEFINE S == ToSet(s) \cup ToSet(t)
            u == s \o t
            n == Len(s)
            m == Len(t)
<1>1. s \in Seq(S) /\ t \in Seq(S)
  <2>1. ToSet(s) \subseteq S /\ ToSet(t) \subseteq S
    OBVIOUS
  <2>. QED
    BY <2>1, SeqMonotonic
<1>2. n \in Nat /\ m \in Nat /\ DOMAIN s = 1..n /\ DOMAIN t = 1..m
  BY <1>1, LenProperties
<1>3. /\ u \in Seq(S) /\ Len(u) = n + m
      /\ \A i \in 1..n + m : u[i] = IF i <= n THEN s[i] ELSE t[i - n]
  BY <1>1, ConcatProperties
<1>. HIDE DEF u, n, m
<1>4. DOMAIN u = 1..n + m /\ u = [i \in DOMAIN u |-> u[i]]
  <2>1. u \in [1..Len(u) -> S]
    BY <1>3, LenProperties
  <2>. QED
    BY <1>3, <2>1
<1>5. u \in Seq(ToSet(u))
  BY <1>2, <1>4, IsList
<1>6. \A i \in 1..n : s[i] \in ToSet(s)
  BY <1>2 DEF ToSet
<1>7. \A j \in 1..m : t[j] \in ToSet(t)
  BY <1>2 DEF ToSet
<1>8. ASSUME NEW i \in 1..n + m
      PROVE  \/ i \in 1..n /\ u[i] = s[i]
             \/ ~(i \in 1..n) /\ i - n \in 1..m /\ u[i] = t[i - n]
  <2>1. CASE i <= n
    BY <1>2, <1>3, <2>1
  <2>2. CASE ~(i <= n)
    <3>1. i - n \in 1..m /\ ~(i \in 1..n)
      BY <1>2, <2>2
    <3>. QED
      BY <1>3, <2>2, <3>1
  <2>. QED
    BY <2>1, <2>2
<1>9. ASSUME NEW i \in 1..n + m, NEW j \in 1..n + m, u[i] = u[j] PROVE i = j
  <2>1. CASE i \in 1..n /\ j \in 1..n
    BY <1>2, <1>8, <1>9, <2>1 DEF IsInjective
  <2>2. CASE ~(i \in 1..n) /\ ~(j \in 1..n)
    <3>1. i - n \in 1..m /\ j - n \in 1..m /\ t[i - n] = t[j - n]
      BY <1>8, <1>9, <2>2
    <3>2. i - n = j - n
      BY <1>2, <3>1 DEF IsInjective
    <3>. QED
      BY <1>2, <3>2
  <2>3. CASE (i \in 1..n) # (j \in 1..n)
    BY <1>6, <1>7, <1>8, <1>9, <2>3
  <2>. QED
    BY <2>1, <2>2, <2>3
<1>10. IsInjective(u)
  BY <1>4, <1>9 DEF IsInjective
<1>11. ASSUME NEW e \in ToSet(u) PROVE e \in S
  <2>1. PICK i \in 1..n + m : e = u[i]
    BY <1>4 DEF ToSet
  <2>. QED
    BY <1>6, <1>7, <1>8, <2>1
<1>12. ASSUME NEW e \in ToSet(s) PROVE e \in ToSet(u)
  <2>1. PICK i \in 1..n : e = s[i]
    BY <1>2 DEF ToSet
  <2>2. i \in 1..n + m /\ u[i] = e
    BY <1>2, <1>3, <2>1
  <2>. QED
    BY <1>4, <2>2 DEF ToSet
<1>13. ASSUME NEW e \in ToSet(t) PROVE e \in ToSet(u)
  <2>1. PICK i \in 1..m : e = t[i]
    BY <1>2 DEF ToSet
  <2>2. i + n \in 1..n + m /\ ~(i + n <= n) /\ (i + n) - n = i
    BY <1>2, <2>1
  <2>3. u[i + n] = e
    BY <1>3, <2>1, <2>2
  <2>. QED
    BY <1>4, <2>2, <2>3 DEF ToSet
<1>14. ToSet(u) = S
  BY <1>11, <1>12, <1>13
<1>. QED
  BY <1>5, <1>10, <1>14 DEF u

-----------------------------------------------------------------------------
(* Induction over lists, and lists of lists                                *)

(* What holds of the empty list, and of a list with one more when it holds *)
(* of the list, holds of every list.                                       *)
LEMMA ListInduct ==
  ASSUME NEW S, NEW Good, <<>> \in Good,
         \A r \in Seq(S), e \in S : r \in Good => Append(r, e) \in Good
  PROVE  \A s \in Seq(S) : s \in Good
<1>. DEFINE T == {Len(s) : s \in {t \in Seq(S) : t \notin Good}}
<1>1. SUFFICES ASSUME T # {} PROVE FALSE
  OBVIOUS
<1>2. PICK n \in T : \A m \in T : n <= m
  <2>1. T \in SUBSET Nat
    OBVIOUS
  <2>. QED
    BY <1>1, <2>1, NatMin
<1>3. PICK s \in Seq(S) : s \notin Good /\ Len(s) = n
  OBVIOUS
<1>4. PICK r \in Seq(S), e \in S : s = Append(r, e)
  BY <1>3, SequenceEmptyOrAppend
<1>5. Len(r) \in Nat /\ n = Len(r) + 1
  BY <1>3, <1>4
<1>6. r \notin Good => Len(r) \in T
  OBVIOUS
<1>. HIDE DEF T
<1>7. Len(r) \notin T
  BY <1>2, <1>5
<1>. QED
  BY <1>3, <1>4, <1>6, <1>7

Flat(f, s) == f = [i \in 1..Len(s) |-> IF i = 1 THEN s[i] ELSE f[i-1] \o s[i]]

(* What a list of lists put together is, by that function.                 *)
LEMMA FlatIs ==
  ASSUME NEW s
  PROVE  FlattenSeq(s) = IF Len(s) = 0 THEN s ELSE (CHOOSE f : Flat(f, s))[Len(s)]
BY DEF FlattenSeq, Flat

(* There is such a function.                                               *)
LEMMA FlatExists ==
  ASSUME NEW S
  PROVE  \A s \in Seq(S) : \E f : Flat(f, s)
<1>. DEFINE Good == {s \in Seq(S) : \E f : Flat(f, s)}
<1>1. <<>> \in Good
  <2>1. Flat([i \in 1..0 |-> 0], <<>>)
    BY DEF Flat
  <2>. QED
    BY <2>1
<1>2. ASSUME NEW r \in Seq(S), NEW e \in S, r \in Good PROVE Append(r, e) \in Good
  <2>. DEFINE n == Len(r)
              s == Append(r, e)
  <2>1. PICK f : Flat(f, r)
    BY <1>2
  <2>. DEFINE g == [i \in 1..n + 1 |-> IF i = 1 THEN s[i] ELSE f[i-1] \o s[i]]
  <2>2. n \in Nat /\ s \in Seq(S) /\ Len(s) = n + 1 /\ \A i \in 1..n : s[i] = r[i]
    OBVIOUS
  <2>. HIDE DEF s, n
  <2>3. \A i \in 1..n : g[i] = f[i]
    <3>. SUFFICES ASSUME NEW i \in 1..n PROVE g[i] = f[i]
      OBVIOUS
    <3>1. f[i] = IF i = 1 THEN r[i] ELSE f[i-1] \o r[i]
      BY <2>1 DEF Flat, n
    <3>2. g[i] = IF i = 1 THEN s[i] ELSE f[i-1] \o s[i]
      BY <2>2
    <3>. QED
      BY <2>2, <3>1, <3>2
  <2>4. \A i \in 1..n + 1 : i # 1 => g[i-1] = f[i-1]
    <3>1. \A i \in 1..n + 1 : i # 1 => i - 1 \in 1..n
      BY <2>2
    <3>. HIDE DEF g
    <3>. QED
      BY <2>3, <3>1
  <2>5. g = [i \in 1..n + 1 |-> IF i = 1 THEN s[i] ELSE g[i-1] \o s[i]]
    <3>1. \A i \in 1..n + 1 : g[i] = IF i = 1 THEN s[i] ELSE g[i-1] \o s[i]
      BY <2>4
    <3>2. g = [i \in 1..n + 1 |-> g[i]]
      OBVIOUS
    <3>. HIDE DEF g
    <3>. QED
      BY <3>1, <3>2
  <2>6. Flat(g, s)
    <3>. HIDE DEF g
    <3>. QED
      BY <2>2, <2>5 DEF Flat
  <2>7. s \in Good
    <3>. HIDE DEF g
    <3>. QED
      BY <2>2, <2>6
  <2>. QED
    BY <2>7 DEF s
<1>. HIDE DEF Good
<1>3. \A s \in Seq(S) : s \in Good
  BY <1>1, <1>2, ListInduct
<1>. QED
  BY <1>3 DEF Good

(* Nothing is changed of what is there when there is more to come.         *)
LEMMA FlatGoesOn ==
  ASSUME NEW S, NEW r \in Seq(S), NEW e \in S,
         NEW f, Flat(f, r), NEW g, Flat(g, Append(r, e))
  PROVE  \A i \in 1..Len(r) : f[i] = g[i]
<1>. DEFINE n == Len(r)
            s == Append(r, e)
            T == {i \in 1..n : f[i] # g[i]}
<1>1. n \in Nat /\ s \in Seq(S) /\ Len(s) = n + 1 /\ \A i \in 1..n : s[i] = r[i]
  OBVIOUS
<1>2. \A i \in 1..n : f[i] = IF i = 1 THEN r[i] ELSE f[i-1] \o r[i]
  <2>1. f = [i \in 1..n |-> IF i = 1 THEN r[i] ELSE f[i-1] \o r[i]]
    BY DEF Flat
  <2>. QED
    BY <2>1
<1>3. \A i \in 1..n + 1 : g[i] = IF i = 1 THEN s[i] ELSE g[i-1] \o s[i]
  <2>1. g = [i \in 1..n + 1 |-> IF i = 1 THEN s[i] ELSE g[i-1] \o s[i]]
    BY <1>1 DEF Flat
  <2>. QED
    BY <2>1
<1>. HIDE DEF n, s
<1>4. SUFFICES ASSUME T # {} PROVE FALSE
  BY DEF n
<1>5. PICK i \in T : \A j \in T : i <= j
  <2>1. T \in SUBSET Nat
    BY <1>1
  <2>. QED
    BY <1>4, <2>1, NatMin
<1>6. i \in 1..n /\ f[i] # g[i]
  OBVIOUS
<1>7. i # 1 => i - 1 \in 1..n /\ f[i-1] = g[i-1]
  <2>. SUFFICES ASSUME i # 1 PROVE i - 1 \in 1..n /\ f[i-1] = g[i-1]
    OBVIOUS
  <2>1. i - 1 \in 1..n
    BY <1>1, <1>6
  <2>2. i - 1 \notin T
    <3>1. ~(i <= i - 1)
      BY <1>1, <1>6
    <3>. HIDE DEF T
    <3>. QED
      BY <1>5, <3>1
  <2>. QED
    BY <2>1, <2>2
<1>8. f[i] = g[i]
  <2>1. i \in 1..n + 1 /\ s[i] = r[i]
    BY <1>1, <1>6
  <2>. QED
    BY <1>2, <1>3, <1>6, <1>7, <2>1
<1>. QED
  BY <1>6, <1>8

(* Nothing put together is nothing.                                        *)
LEMMA FlattenNone ==
  FlattenSeq(<<>>) = <<>>
BY FlatIs

(* A list of lists with one more list.                                     *)
LEMMA FlattenMore ==
  ASSUME NEW U, NEW r \in Seq(Seq(U)), NEW e \in Seq(U)
  PROVE  FlattenSeq(Append(r, e)) = FlattenSeq(r) \o e
<1>. DEFINE n == Len(r)
            s == Append(r, e)
            f == CHOOSE h : Flat(h, r)
            g == CHOOSE h : Flat(h, s)
<1>1. n \in Nat /\ s \in Seq(Seq(U)) /\ Len(s) = n + 1 /\ s[n + 1] = e
  OBVIOUS
<1>2. Flat(f, r) /\ Flat(g, s)
  BY <1>1, FlatExists
<1>3. g[n + 1] = IF n + 1 = 1 THEN s[n + 1] ELSE g[(n + 1) - 1] \o s[n + 1]
  <2>1. g = [i \in 1..n + 1 |-> IF i = 1 THEN s[i] ELSE g[i-1] \o s[i]]
    BY <1>1, <1>2 DEF Flat
  <2>2. n + 1 \in 1..n + 1
    BY <1>1
  <2>. HIDE DEF g, s, n
  <2>. QED
    BY <2>1, <2>2
<1>4. FlattenSeq(s) = g[n + 1]
  <2>1. Len(s) # 0
    BY <1>1
  <2>. QED
    BY <1>1, <2>1, FlatIs
<1>5. FlattenSeq(r) = IF n = 0 THEN r ELSE f[n]
  BY FlatIs
<1>6. \A i \in 1..n : f[i] = g[i]
  BY <1>2, FlatGoesOn
<1>. HIDE DEF f, g
<1>7. CASE n = 0
  <2>1. r = <<>>
    BY <1>7
  <2>2. <<>> \o e = e
    OBVIOUS
  <2>. QED
    BY <1>1, <1>3, <1>4, <1>5, <1>7, <2>1, <2>2
<1>8. CASE n # 0
  <2>1. n \in 1..n /\ (n + 1) - 1 = n /\ n + 1 # 1
    BY <1>1, <1>8
  <2>. HIDE DEF n, s
  <2>2. FlattenSeq(s) = f[n] \o e /\ FlattenSeq(r) = f[n]
    BY <1>1, <1>3, <1>4, <1>5, <1>6, <1>8, <2>1
  <2>. QED
    BY <2>2 DEF s
<1>. QED
  BY <1>7, <1>8

(* Lists of members put together are a list of members.                    *)
LEMMA FlattenIs ==
  ASSUME NEW U
  PROVE  \A s \in Seq(Seq(U)) : FlattenSeq(s) \in Seq(U)
<1>. DEFINE Good == {s \in Seq(Seq(U)) : FlattenSeq(s) \in Seq(U)}
<1>1. <<>> \in Good
  <2>1. <<>> \in Seq(Seq(U)) /\ <<>> \in Seq(U)
    OBVIOUS
  <2>. QED
    BY <2>1, FlattenNone
<1>2. ASSUME NEW r \in Seq(Seq(U)), NEW e \in Seq(U), r \in Good PROVE Append(r, e) \in Good
  <2>1. Append(r, e) \in Seq(Seq(U)) /\ FlattenSeq(r) \in Seq(U)
    BY <1>2
  <2>2. FlattenSeq(Append(r, e)) = FlattenSeq(r) \o e
    BY FlattenMore
  <2>3. FlattenSeq(r) \o e \in Seq(U)
    BY <2>1
  <2>. QED
    BY <2>1, <2>2, <2>3
<1>. HIDE DEF Good
<1>3. \A s \in Seq(Seq(U)) : s \in Good
  BY <1>1, <1>2, ListInduct
<1>. QED
  BY <1>3 DEF Good

-----------------------------------------------------------------------------
(* What each member of a list adds, one after the other                    *)

(* What g makes of each of B is a list over U.                             *)
Maps(g, B, U) == g \in [B -> Seq(U)]

Gather(g, s) == FlattenSeq([i \in DOMAIN s |-> g[s[i]]])

(* Nothing is gathered of nothing.                                         *)
LEMMA GatherNone ==
  ASSUME NEW g
  PROVE  Gather(g, <<>>) = <<>>
<1>1. [i \in DOMAIN <<>> |-> g[<<>>[i]]] = <<>>
  OBVIOUS
<1>. QED
  BY <1>1, FlattenNone DEF Gather

(* What a list of members is a list of, member by member.                  *)
LEMMA EachIs ==
  ASSUME NEW B, NEW V, NEW g \in [B -> V], NEW s \in Seq(B)
  PROVE  /\ [i \in DOMAIN s |-> g[s[i]]] \in Seq(V)
         /\ Len([i \in DOMAIN s |-> g[s[i]]]) = Len(s)
<1>1. DOMAIN s = 1..Len(s) /\ Len(s) \in Nat /\ \A i \in 1..Len(s) : s[i] \in B
  OBVIOUS
<1>. QED
  BY <1>1

(* With one more member, there is one more image.                          *)
LEMMA EachMore ==
  ASSUME NEW B, NEW V, NEW g \in [B -> V], NEW s \in Seq(B), NEW e \in B
  PROVE  [i \in DOMAIN Append(s, e) |-> g[Append(s, e)[i]]]
           = Append([i \in DOMAIN s |-> g[s[i]]], g[e])
<1>. DEFINE n == Len(s)
            t == Append(s, e)
            a == [i \in DOMAIN s |-> g[s[i]]]
            b == [i \in DOMAIN t |-> g[t[i]]]
            c == Append(a, g[e])
<1>1. n \in Nat /\ t \in Seq(B) /\ Len(t) = n + 1 /\ DOMAIN t = 1..n + 1
  OBVIOUS
<1>2. \A i \in 1..n + 1 : t[i] = IF i <= n THEN s[i] ELSE e
  OBVIOUS
<1>3. a \in Seq(V) /\ Len(a) = n /\ \A i \in 1..n : a[i] = g[s[i]]
  BY EachIs
<1>4. b \in Seq(V) /\ Len(b) = n + 1
  BY <1>1, EachIs
<1>5. c \in Seq(V) /\ Len(c) = n + 1 /\ \A i \in 1..n + 1 : c[i] = IF i <= n THEN a[i] ELSE g[e]
  BY <1>1, <1>3
<1>6. \A i \in 1..n + 1 : b[i] = g[t[i]]
  BY <1>1
<1>. HIDE DEF a, b, c, t, n
<1>7. \A i \in 1..n + 1 : b[i] = c[i]
  <2>. SUFFICES ASSUME NEW i \in 1..n + 1 PROVE b[i] = c[i]
    OBVIOUS
  <2>1. CASE i <= n
    <3>1. i \in 1..n
      BY <1>1, <2>1
    <3>. QED
      BY <1>2, <1>3, <1>5, <1>6, <2>1, <3>1
  <2>2. CASE ~(i <= n)
    BY <1>2, <1>5, <1>6, <2>2
  <2>. QED
    BY <2>1, <2>2
<1>8. b = c
  BY <1>4, <1>5, <1>7, SeqEqual
<1>. QED
  BY <1>8 DEF a, b, c, t

(* With one more member, what that one has is gathered too.                *)
LEMMA GatherMore ==
  ASSUME NEW B, NEW U, NEW g, Maps(g, B, U), NEW s \in Seq(B), NEW e \in B
  PROVE  /\ Gather(g, Append(s, e)) = Gather(g, s) \o g[e]
         /\ Gather(g, s) \in Seq(U)
<1>. DEFINE a == [i \in DOMAIN s |-> g[s[i]]]
            b == [i \in DOMAIN Append(s, e) |-> g[Append(s, e)[i]]]
<1>1. a \in Seq(Seq(U))
  BY EachIs DEF Maps
<1>2. b = Append(a, g[e])
  BY EachMore DEF Maps
<1>3. g[e] \in Seq(U)
  BY DEF Maps
<1>4. Gather(g, s) = FlattenSeq(a) /\ Gather(g, Append(s, e)) = FlattenSeq(b)
  BY DEF Gather
<1>. HIDE DEF a, b
<1>5. FlattenSeq(a) \in Seq(U) /\ FlattenSeq(Append(a, g[e])) = FlattenSeq(a) \o g[e]
  BY <1>1, <1>3, FlattenIs, FlattenMore
<1>. QED
  BY <1>2, <1>4, <1>5

(* What is gathered is a list of what members have.                        *)
LEMMA GatherIs ==
  ASSUME NEW B, NEW U, NEW g, Maps(g, B, U), NEW s \in Seq(B)
  PROVE  Gather(g, s) \in Seq(U)
<1>. DEFINE a == [i \in DOMAIN s |-> g[s[i]]]
<1>1. a \in Seq(Seq(U))
  BY EachIs DEF Maps
<1>2. Gather(g, s) = FlattenSeq(a)
  BY DEF Gather
<1>. HIDE DEF a
<1>. QED
  BY <1>1, <1>2, FlattenIs

(* Of two lists, what the one adds and then what the other.                *)
LEMMA GatherBoth ==
  ASSUME NEW B, NEW U, NEW g, Maps(g, B, U), NEW s \in Seq(B)
  PROVE  \A t \in Seq(B) : Gather(g, s \o t) = Gather(g, s) \o Gather(g, t)
<1>. DEFINE Good == {t \in Seq(B) : Gather(g, s \o t) = Gather(g, s) \o Gather(g, t)}
<1>0. Gather(g, s) \in Seq(U)
  BY GatherIs
<1>1. <<>> \in Good
  <2>1. s \o <<>> = s /\ Gather(g, <<>>) = <<>>
    BY GatherNone
  <2>2. Gather(g, s) \o <<>> = Gather(g, s)
    BY <1>0
  <2>3. <<>> \in Seq(B)
    OBVIOUS
  <2>. QED
    BY <2>1, <2>2, <2>3, Zenon
<1>2. ASSUME NEW r \in Seq(B), NEW e \in B, r \in Good PROVE Append(r, e) \in Good
  <2>1. s \o Append(r, e) = Append(s \o r, e) /\ s \o r \in Seq(B)
    OBVIOUS
  <2>2. Gather(g, Append(s \o r, e)) = Gather(g, s \o r) \o g[e]
    <3>1. \A u \in Seq(B) : Gather(g, Append(u, e)) = Gather(g, u) \o g[e]
      BY GatherMore
    <3>. QED
      BY <2>1, <3>1, Zenon
  <2>3. Gather(g, Append(r, e)) = Gather(g, r) \o g[e] /\ Gather(g, r) \in Seq(U)
    BY GatherMore
  <2>4. Gather(g, s \o r) = Gather(g, s) \o Gather(g, r)
    BY <1>2
  <2>5. g[e] \in Seq(U)
    BY DEF Maps
  <2>6. (Gather(g, s) \o Gather(g, r)) \o g[e] = Gather(g, s) \o (Gather(g, r) \o g[e])
    <3>1. \A a, b, c \in Seq(U) : (a \o b) \o c = a \o (b \o c)
      BY SMTT(30), ConcatAssociative
    <3>. QED
      BY <1>0, <2>3, <2>5, <3>1, Zenon
  <2>7. Append(r, e) \in Seq(B)
    OBVIOUS
  <2>8. Gather(g, s \o Append(r, e)) = Gather(g, s) \o Gather(g, Append(r, e))
    BY <2>1, <2>2, <2>3, <2>4, <2>6, Zenon
  <2>. QED
    BY <2>7, <2>8, Zenon
<1>. HIDE DEF Good
<1>3. \A t \in Seq(B) : t \in Good
  BY <1>1, <1>2, ListInduct
<1>. QED
  BY <1>3 DEF Good

(* What is gathered of one member is what it has.                          *)
LEMMA GatherOne ==
  ASSUME NEW B, NEW U, NEW g, Maps(g, B, U), NEW e \in B
  PROVE  Gather(g, <<e>>) = g[e]
<1>1. <<e>> = Append(<<>>, e) /\ <<>> \in Seq(B) /\ g[e] \in Seq(U)
  BY DEF Maps
<1>2. Gather(g, <<e>>) = <<>> \o g[e]
  <2>1. Gather(g, Append(<<>>, e)) = Gather(g, <<>>) \o g[e]
    <3>1. \A u \in Seq(B) : Gather(g, Append(u, e)) = Gather(g, u) \o g[e]
      BY GatherMore
    <3>. QED
      BY <1>1, <3>1, Zenon
  <2>. QED
    BY <1>1, <2>1, GatherNone
<1>. QED
  BY <1>1, <1>2

(* What is gathered of what is gathered.                                   *)
LEMMA GatherTwice ==
  ASSUME NEW B, NEW C, NEW U, NEW g, Maps(g, B, C), NEW h, Maps(h, C, U)
  PROVE  \A s \in Seq(B) : Gather(h, Gather(g, s)) = Gather([b \in B |-> Gather(h, g[b])], s)
<1>. DEFINE k == [b \in B |-> Gather(h, g[b])]
            Good == {s \in Seq(B) : Gather(h, Gather(g, s)) = Gather(k, s)}
<1>0. Maps(k, B, U)
  <2>1. \A b \in B : g[b] \in Seq(C)
    BY DEF Maps
  <2>2. \A b \in B : Gather(h, g[b]) \in Seq(U)
    BY <2>1, GatherIs
  <2>. QED
    BY <2>2 DEF Maps
<1>1. <<>> \in Good
  BY GatherNone
<1>2. ASSUME NEW r \in Seq(B), NEW e \in B, r \in Good PROVE Append(r, e) \in Good
  <2>1. Gather(g, Append(r, e)) = Gather(g, r) \o g[e] /\ Gather(g, r) \in Seq(C)
    BY GatherMore
  <2>2. Gather(h, Gather(g, r) \o g[e]) = Gather(h, Gather(g, r)) \o Gather(h, g[e])
    <3>1. g[e] \in Seq(C)
      BY DEF Maps
    <3>. QED
      BY <2>1, <3>1, GatherBoth
  <2>3. k[e] = Gather(h, g[e])
    OBVIOUS
  <2>. HIDE DEF k
  <2>4. Gather(k, Append(r, e)) = Gather(k, r) \o k[e]
    BY <1>0, GatherMore
  <2>5. Gather(h, Gather(g, r)) = Gather(k, r)
    BY <1>2
  <2>6. Append(r, e) \in Seq(B)
    OBVIOUS
  <2>7. Gather(h, Gather(g, Append(r, e))) = Gather(k, Append(r, e))
    BY <2>1, <2>2, <2>3, <2>4, <2>5, Zenon
  <2>. QED
    BY <2>6, <2>7, Zenon
<1>. HIDE DEF Good
<1>3. \A s \in Seq(B) : s \in Good
  BY <1>1, <1>2, ListInduct
<1>. QED
  BY <1>3 DEF Good

(* What adds the same is gathered the same.                                *)
LEMMA GatherSame ==
  ASSUME NEW B, NEW s \in Seq(B), NEW g, NEW h, \A i \in DOMAIN s : g[s[i]] = h[s[i]]
  PROVE  Gather(g, s) = Gather(h, s)
<1>1. [i \in DOMAIN s |-> g[s[i]]] = [i \in DOMAIN s |-> h[s[i]]]
  OBVIOUS
<1>. QED
  BY <1>1 DEF Gather

(* One of each is as many as there are.                                    *)
Singly(k, g, B, U) ==
  g \in [B -> U] /\ Maps(k, B, U) /\ \A b \in B : k[b] = <<g[b]>>

LEMMA GatherEach ==
  ASSUME NEW B, NEW U, NEW g, NEW k, Singly(k, g, B, U)
  PROVE  \A s \in Seq(B) : Gather(k, s) = [i \in DOMAIN s |-> g[s[i]]]
<1>. DEFINE Good == {s \in Seq(B) : Gather(k, s) = [i \in DOMAIN s |-> g[s[i]]]}
<1>0. g \in [B -> U] /\ Maps(k, B, U) /\ \A b \in B : k[b] = <<g[b]>>
  BY DEF Singly
<1>1. <<>> \in Good
  <2>1. [i \in DOMAIN <<>> |-> g[<<>>[i]]] = <<>>
    OBVIOUS
  <2>2. Gather(k, <<>>) = <<>> /\ <<>> \in Seq(B)
    BY GatherNone
  <2>. QED
    BY <2>1, <2>2, Zenon
<1>2. ASSUME NEW r \in Seq(B), NEW e \in B, r \in Good PROVE Append(r, e) \in Good
  <2>. DEFINE a == [i \in DOMAIN r |-> g[r[i]]]
  <2>1. k[e] = <<g[e]>> /\ g[e] \in U
    BY <1>0
  <2>2. a \in Seq(U) /\ Gather(k, r) = a
    BY <1>0, <1>2, EachIs
  <2>3. Gather(k, Append(r, e)) = Gather(k, r) \o k[e]
    BY <1>0, GatherMore
  <2>4. [i \in DOMAIN Append(r, e) |-> g[Append(r, e)[i]]] = Append(a, g[e])
    BY <1>0, EachMore
  <2>. HIDE DEF a
  <2>5. a \o <<g[e]>> = Append(a, g[e])
    BY <2>1, <2>2
  <2>6. Append(r, e) \in Seq(B)
    OBVIOUS
  <2>7. Gather(k, Append(r, e))
          = [i \in DOMAIN Append(r, e) |-> g[Append(r, e)[i]]]
    BY <2>1, <2>2, <2>3, <2>4, <2>5
  <2>. QED
    BY <2>6, <2>7, Zenon
<1>. HIDE DEF Good
<1>3. \A s \in Seq(B) : s \in Good
  BY <1>1, <1>2, ListInduct
<1>. QED
  BY <1>3 DEF Good

(* Where nothing is gathered of each, nothing is of all.                   *)
LEMMA GatherNothing ==
  ASSUME NEW B, NEW U, NEW g, Maps(g, B, U)
  PROVE  \A s \in Seq(B) : (\A i \in DOMAIN s : g[s[i]] = <<>>) => Gather(g, s) = <<>>
<1>. DEFINE Good == {s \in Seq(B) : (\A i \in DOMAIN s : g[s[i]] = <<>>) => Gather(g, s) = <<>>}
<1>1. <<>> \in Good
  <2>1. <<>> \in Seq(B)
    OBVIOUS
  <2>. QED
    BY <2>1, GatherNone
<1>2. ASSUME NEW r \in Seq(B), NEW e \in B, r \in Good PROVE Append(r, e) \in Good
  <2>. DEFINE t == Append(r, e)
  <2>0. t \in Seq(B)
    OBVIOUS
  <2>1. SUFFICES ASSUME \A i \in DOMAIN t : g[t[i]] = <<>> PROVE Gather(g, t) = <<>>
    BY <2>0, Zenon
  <2>2. /\ DOMAIN t = 1..Len(r) + 1 /\ DOMAIN r = 1..Len(r) /\ Len(r) \in Nat
        /\ t[Len(r) + 1] = e /\ \A i \in 1..Len(r) : t[i] = r[i]
    OBVIOUS
  <2>3. Gather(g, t) = Gather(g, r) \o g[e]
    BY GatherMore
  <2>. HIDE DEF t
  <2>4. g[e] = <<>>
    <3>1. Len(r) + 1 \in DOMAIN t
      BY <2>2
    <3>. QED
      BY <2>1, <2>2, <3>1
  <2>5. Gather(g, r) = <<>>
    <3>1. \A i \in DOMAIN r : i \in DOMAIN t /\ t[i] = r[i]
      BY <2>2
    <3>2. \A i \in DOMAIN r : g[r[i]] = <<>>
      BY <2>1, <3>1
    <3>. QED
      BY <1>2, <3>2
  <2>. QED
    BY <2>3, <2>4, <2>5
<1>. HIDE DEF Good
<1>3. \A s \in Seq(B) : s \in Good
  BY <1>1, <1>2, ListInduct
<1>. QED
  BY <1>3 DEF Good

(* Gathered of what was gathered, it is gathered of each.                  *)
LEMMA GatherThrough ==
  ASSUME NEW B, NEW C, NEW U, NEW g, Maps(g, B, C), NEW h, Maps(h, C, U), NEW k,
         NEW s \in Seq(B), \A i \in DOMAIN s : Gather(h, g[s[i]]) = k[s[i]]
  PROVE  Gather(h, Gather(g, s)) = Gather(k, s)
<1>. DEFINE j == [b \in B |-> Gather(h, g[b])]
<1>1. Gather(h, Gather(g, s)) = Gather(j, s)
  BY GatherTwice
<1>2. \A i \in DOMAIN s : s[i] \in B
  OBVIOUS
<1>3. \A i \in DOMAIN s : j[s[i]] = k[s[i]]
  BY <1>2
<1>. HIDE DEF j
<1>4. Gather(j, s) = Gather(k, s)
  BY <1>3, GatherSame
<1>. QED
  BY <1>1, <1>4

(* Another last member.                                                    *)
LEMMA LastOther ==
  ASSUME NEW S, NEW r \in Seq(S), NEW e \in S, NEW n
  PROVE  [Append(r, e) EXCEPT ![Len(r) + 1] = n] = Append(r, n)
<1>. DEFINE s == Append(r, e)
            u == [s EXCEPT ![Len(r) + 1] = n]
            v == Append(r, n)
<1>1. /\ s \in Seq(S) /\ Len(r) \in Nat /\ DOMAIN s = 1..Len(r) + 1
      /\ \A i \in 1..Len(r) : s[i] = r[i]
  OBVIOUS
<1>2. /\ v \in Seq(S \cup {n}) /\ DOMAIN v = 1..Len(r) + 1 /\ v[Len(r) + 1] = n
      /\ \A i \in 1..Len(r) : v[i] = r[i]
  <2>1. r \in Seq(S \cup {n})
    OBVIOUS
  <2>. QED
    BY <2>1
<1>3. DOMAIN u = 1..Len(r) + 1 /\ u = [i \in 1..Len(r) + 1 |-> u[i]]
  <2>. HIDE DEF s, v
  <2>. QED
    BY <1>1
<1>4. v = [i \in 1..Len(r) + 1 |-> v[i]]
  <2>. DEFINE N == Len(r) + 1
              T == S \cup {n}
  <2>1. N \in Nat /\ DOMAIN v = 1..N /\ v \in Seq(T)
    BY <1>1, <1>2
  <2>. HIDE DEF v, N, T
  <2>2. v \in [1..Len(v) -> T] /\ Len(v) \in Nat /\ DOMAIN v = 1..Len(v)
    BY <2>1, LenProperties
  <2>3. v \in [1..N -> T]
    BY <2>1, <2>2
  <2>4. v = [i \in 1..N |-> v[i]]
    BY <2>3
  <2>. QED
    BY <2>4 DEF N
<1>5. \A i \in 1..Len(r) + 1 : u[i] = v[i]
  <2>. HIDE DEF v, s
  <2>1. u[Len(r) + 1] = n /\ \A i \in 1..Len(r) : u[i] = s[i]
    BY <1>1
  <2>. HIDE DEF u
  <2>2. \A i \in 1..Len(r) + 1 : i = Len(r) + 1 \/ i \in 1..Len(r)
    BY <1>1
  <2>. QED
    BY <1>1, <1>2, <2>1, <2>2
<1>. HIDE DEF u, v
<1>6. u = v
  BY <1>3, <1>4, <1>5
<1>. QED
  BY <1>6 DEF u, v

(* A list is a list of what it lists.                                      *)
LEMMA ListOfItself ==
  ASSUME NEW S, NEW s \in Seq(S)
  PROVE  s \in Seq(ToSet(s))
<1>1. DOMAIN s = 1..Len(s) /\ Len(s) \in Nat /\ s \in [1..Len(s) -> S]
  BY LenProperties
<1>2. s = [i \in DOMAIN s |-> s[i]]
  BY <1>1
<1>. QED
  BY <1>1, <1>2, IsList
===============================================================================
