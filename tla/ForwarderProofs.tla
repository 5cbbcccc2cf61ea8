---------------------------- MODULE ForwarderProofs ----------------------------
(***************************************************************************)
(* Proofs about the duty cycle limiter and the forwarder that uses it, for *)
(* every ring, limit and history of claims, any frequencies and any        *)
(* network.                                                                *)
(*                                                                         *)
(* DutyCycleLimiter first: the ring is compared with a history, the        *)
(* airtime granted at each instant.  The buckets hold the airtime of their *)
(* slots, rotating and charging the ring keeps that so, and therefore the  *)
(* sum that try_claim compares with the allowance is the airtime that was  *)
(* granted in the hour that the ring covers.  DutyCycle, GatewayDuty and   *)
(* Upstream follow.                                                        *)
(*                                                                         *)
(* The sums are SumFunctionOnSet of the library, a recursion over finite   *)
(* sets; what the proofs need of it is derived before anything else.       *)
(***************************************************************************)
EXTENDS DutyCycle, GatewayDuty, Upstream, FiniteSetTheorems, WellFoundedInduction, TLAPS

-----------------------------------------------------------------------------
(* Sums.                                                                   *)

(* Induction, in the form the provers can use: a non-empty set of naturals *)
(* has a least member.                                                     *)
LEMMA LeastNatural ==
  ASSUME NEW T \in SUBSET Nat, T # {}
  PROVE  \E n \in T : \A m \in T : n <= m
<1> DEFINE R == OpToRel(<, Nat)
<1>1. \E x \in T : \A y \in T : ~ (<<y, x>> \in R)
  BY NatLessThanWellFounded, WFMin
<1>2. \A x, y \in Nat : x < y => <<x, y>> \in R
  BY DEF OpToRel
<1> HIDE DEF R
<1>3. PICK n \in T : \A y \in T : ~ (<<y, n>> \in R)
  BY <1>1
<1>4. ASSUME NEW m \in T PROVE n <= m
  <2>1. ~(m < n)
    BY <1>2, <1>3
  <2> QED BY <2>1
<1> QED BY <1>4

(* One member of a set, and the recursion that adds up f over the sets of a *)
(* family D.                                                               *)
Pick(s) == CHOOSE x \in s : TRUE
SumsUp(iter, f, D) ==
  iter = [s \in D |-> IF s = {} THEN 0 ELSE f[Pick(s)] + iter[s \ {Pick(s)}]]

(* What the library's SumFunctionOnSet unfolds to.                         *)
LEMMA SumDef ==
  ASSUME NEW f, NEW S
  PROVE  SumFunctionOnSet(f, S) = (CHOOSE iter : SumsUp(iter, f, SUBSET S))[S]
BY DEF SumFunctionOnSet, FoldFunctionOnSet, MapThenFoldSet, SumsUp, Pick

(* The subsets of up to n members.                                         *)
UpTo(S, n) == {s \in SUBSET S : Cardinality(s) <= n}

(* The recursion is well founded: it has a solution on the subsets of up to *)
(* n members, for every n.                                                 *)
LEMMA SumsUpTo ==
  ASSUME NEW f, NEW S, IsFiniteSet(S), NEW n \in Nat
  PROVE  \E iter : SumsUp(iter, f, UpTo(S, n))
<1> DEFINE Bad == {m \in Nat : ~ \E iter : SumsUp(iter, f, UpTo(S, m))}
<1> SUFFICES ASSUME Bad # {} PROVE FALSE
  OBVIOUS
<1>1. PICK m \in Bad : \A k \in Bad : m <= k
  BY LeastNatural
<1>2. \A s \in SUBSET S : IsFiniteSet(s) /\ Cardinality(s) \in Nat
  BY FS_Subset, FS_CardinalityType
<1>3. CASE m = 0
  <2>1. \A s \in UpTo(S, 0) : s = {}
    BY <1>2, FS_EmptySet DEF UpTo
  <2>2. SumsUp([s \in UpTo(S, 0) |-> 0], f, UpTo(S, 0))
    BY <2>1 DEF SumsUp
  <2> QED BY <1>3, <2>2
<1>4. CASE m # 0
  <2>1. m - 1 \in Nat /\ m - 1 \notin Bad
    BY <1>1, <1>4
  <2>2. PICK g : SumsUp(g, f, UpTo(S, m - 1))
    BY <2>1
  <2> DEFINE h == [s \in UpTo(S, m) |->
                     IF s = {} THEN 0 ELSE f[Pick(s)] + g[s \ {Pick(s)}]]
  <2>3. ASSUME NEW s \in UpTo(S, m), s # {}
        PROVE  s \ {Pick(s)} \in UpTo(S, m - 1)
    <3>1. Pick(s) \in s
      BY <2>3 DEF Pick
    <3>2. Cardinality(s \ {Pick(s)}) = Cardinality(s) - 1
      BY <1>2, <3>1, FS_RemoveElement DEF UpTo
    <3> QED BY <1>2, <3>2 DEF UpTo
  <2>4. \A s \in UpTo(S, m - 1) : s \in UpTo(S, m)
    BY <1>2 DEF UpTo
  <2>5. \A s \in UpTo(S, m - 1) : h[s] = g[s]
    BY <2>2, <2>4 DEF SumsUp
  <2>6. SumsUp(h, f, UpTo(S, m))
    BY <2>3, <2>4, <2>5 DEF SumsUp
  <2> QED BY <2>6
<1> QED BY <1>3, <1>4

(* So SumFunctionOnSet satisfies its recursion on every finite set.        *)
LEMMA SumRecursion ==
  ASSUME NEW f, NEW S, IsFiniteSet(S)
  PROVE  \E iter : SumsUp(iter, f, SUBSET S) /\ SumFunctionOnSet(f, S) = iter[S]
<1>1. UpTo(S, Cardinality(S)) = SUBSET S
  BY FS_Subset, FS_CardinalityType DEF UpTo
<1>2. \E iter : SumsUp(iter, f, SUBSET S)
  <2>1. Cardinality(S) \in Nat
    BY FS_CardinalityType
  <2>2. \E iter : SumsUp(iter, f, UpTo(S, Cardinality(S)))
    BY <2>1, SumsUpTo
  <2> QED BY <1>1, <2>2
<1> DEFINE it == CHOOSE iter : SumsUp(iter, f, SUBSET S)
<1>3. SumsUp(it, f, SUBSET S)
  BY <1>2
<1>4. SumFunctionOnSet(f, S) = it[S]
  BY SumDef
<1> QED BY <1>3, <1>4

(* A sum does not depend on the order in which the members are picked.     *)
LEMMA SumsUpRemove ==
  ASSUME NEW S, IsFiniteSet(S), NEW f, \A s \in S : f[s] \in Nat, 
         NEW iter, SumsUp(iter, f, SUBSET S), NEW T \in SUBSET S
  PROVE  iter[T] \in Nat /\ \A y \in T : iter[T] = f[y] + iter[T \ {y}]
<1> DEFINE Good(U) == iter[U] \in Nat /\ \A y \in U : iter[U] = f[y] + iter[U \ {y}]
           Bad == {Cardinality(U) : U \in {V \in SUBSET S : ~Good(V)}}
<1> SUFFICES ASSUME ~Good(T) PROVE FALSE
  OBVIOUS
<1>1. \A U \in SUBSET S : IsFiniteSet(U) /\ Cardinality(U) \in Nat
  BY FS_Subset, FS_CardinalityType
<1>2. Bad \in SUBSET Nat /\ Bad # {}
  BY <1>1
<1>3. PICK n \in Bad : \A m \in Bad : n <= m
  BY <1>2, LeastNatural
<1>4. PICK U \in SUBSET S : ~Good(U) /\ Cardinality(U) = n
  OBVIOUS
<1>5. ASSUME NEW V \in SUBSET S, Cardinality(V) < n PROVE Good(V)
  <2> SUFFICES ASSUME ~Good(V) PROVE FALSE
    OBVIOUS
  <2> HIDE DEF Good
  <2>1. Cardinality(V) \in Bad
    OBVIOUS
  <2>2. n <= Cardinality(V) /\ n \in Nat /\ Cardinality(V) \in Nat
    BY <1>2, <1>3, <2>1
  <2> QED BY <1>5, <2>2
<1>6. iter[U] = IF U = {} THEN 0 ELSE f[Pick(U)] + iter[U \ {Pick(U)}]
  BY DEF SumsUp
<1>7. U # {}
  BY <1>4, <1>6
<1> DEFINE x == Pick(U)
<1>8. x \in U
  BY <1>7 DEF Pick
<1>9. \A y \in U : Good(U \ {y}) /\ f[y] \in Nat
  <2> TAKE y \in U
  <2>1. Cardinality(U \ {y}) = Cardinality(U) - 1
    BY <1>1, FS_RemoveElement
  <2>2. Cardinality(U \ {y}) < n
    BY <1>1, <1>4, <2>1
  <2>3. Good(U \ {y})
    BY <1>5, <2>2
  <2> QED BY <2>3
<1> HIDE DEF x
<1>10. iter[U] = f[x] + iter[U \ {x}]
  BY <1>6, <1>7 DEF x
<1>11. ASSUME NEW y \in U, y # x PROVE iter[U] = f[y] + iter[U \ {y}]
  <2>1. iter[U \ {x}] = f[y] + iter[(U \ {x}) \ {y}]
    BY <1>8, <1>9, <1>11
  <2>2. iter[U \ {y}] = f[x] + iter[(U \ {y}) \ {x}]
    BY <1>8, <1>9, <1>11
  <2>3. (U \ {x}) \ {y} = (U \ {y}) \ {x}
    OBVIOUS
  <2>4. Cardinality((U \ {x}) \ {y}) < n
    <3>1. Cardinality(U \ {x}) = Cardinality(U) - 1
      BY <1>1, <1>8, FS_RemoveElement
    <3>2. Cardinality((U \ {x}) \ {y}) = Cardinality(U \ {x}) - 1
      BY <1>1, <1>11, FS_RemoveElement
    <3> QED BY <1>1, <1>4, <3>1, <3>2
  <2>5. iter[(U \ {x}) \ {y}] \in Nat
    BY <1>5, <2>4
  <2>6. f[x] \in Nat /\ f[y] \in Nat
    BY <1>8, <1>9
  <2>7. PICK r \in Nat : r = iter[(U \ {x}) \ {y}]
    BY <2>5
  <2>8. iter[U \ {x}] = f[y] + r /\ iter[U \ {y}] = f[x] + r
    BY <2>1, <2>2, <2>3, <2>7
  <2> QED BY <1>10, <2>6, <2>8
<1>12. iter[U] \in Nat
  <2>1. f[x] \in Nat /\ iter[U \ {x}] \in Nat
    BY <1>8, <1>9
  <2> QED BY <1>10, <2>1
<1> QED BY <1>4, <1>10, <1>11, <1>12

(* The recursion over a set also gives the sum over each of its subsets.   *)
LEMMA SumsUpSubset ==
  ASSUME NEW S, IsFiniteSet(S), NEW f, \A s \in S : f[s] \in Nat,
         NEW iter, SumsUp(iter, f, SUBSET S), NEW T \in SUBSET S
  PROVE  SumFunctionOnSet(f, T) = iter[T]
<1>1. IsFiniteSet(T)
  BY FS_Subset
<1>2. PICK small : SumsUp(small, f, SUBSET T) /\ SumFunctionOnSet(f, T) = small[T]
  BY <1>1, SumRecursion
<1> DEFINE Bad == {Cardinality(U) : U \in {V \in SUBSET T : small[V] # iter[V]}}
<1> SUFFICES ASSUME small[T] # iter[T] PROVE FALSE
  BY <1>2
<1>3. \A U \in SUBSET T : IsFiniteSet(U) /\ Cardinality(U) \in Nat
  BY <1>1, FS_Subset, FS_CardinalityType
<1>4. Bad \in SUBSET Nat /\ Bad # {}
  BY <1>3
<1>5. PICK n \in Bad : \A m \in Bad : n <= m
  BY <1>4, LeastNatural
<1>6. PICK U \in SUBSET T : small[U] # iter[U] /\ Cardinality(U) = n
  OBVIOUS
<1>7. ASSUME NEW V \in SUBSET T, Cardinality(V) < n PROVE small[V] = iter[V]
  <2> SUFFICES ASSUME small[V] # iter[V] PROVE FALSE
    OBVIOUS
  <2>1. Cardinality(V) \in Bad
    OBVIOUS
  <2>2. n <= Cardinality(V) /\ n \in Nat /\ Cardinality(V) \in Nat
    BY <1>4, <1>5, <2>1
  <2> QED BY <1>7, <2>2
<1>8. /\ small[U] = IF U = {} THEN 0 ELSE f[Pick(U)] + small[U \ {Pick(U)}]
      /\ iter[U] = IF U = {} THEN 0 ELSE f[Pick(U)] + iter[U \ {Pick(U)}]
  BY <1>2 DEF SumsUp
<1>9. U # {}
  BY <1>6, <1>8
<1>10. Pick(U) \in U
  BY <1>9 DEF Pick
<1>11. Cardinality(U \ {Pick(U)}) = Cardinality(U) - 1
  BY <1>3, <1>10, FS_RemoveElement
<1>12. small[U \ {Pick(U)}] = iter[U \ {Pick(U)}]
  BY <1>3, <1>6, <1>7, <1>11
<1> QED BY <1>6, <1>8, <1>12

(* Nothing adds up to zero.                                                *)
LEMMA SumEmpty ==
  ASSUME NEW f
  PROVE  SumFunctionOnSet(f, {}) = 0
<1>1. PICK iter : SumsUp(iter, f, SUBSET {}) /\ SumFunctionOnSet(f, {}) = iter[{}]
  BY FS_EmptySet, SumRecursion
<1> QED BY <1>1 DEF SumsUp

(* A sum of naturals is a natural.                                         *)
LEMMA SumType ==
  ASSUME NEW S, IsFiniteSet(S), NEW f, \A s \in S : f[s] \in Nat
  PROVE  SumFunctionOnSet(f, S) \in Nat
<1>1. PICK iter : SumsUp(iter, f, SUBSET S) /\ SumFunctionOnSet(f, S) = iter[S]
  BY SumRecursion
<1> QED BY <1>1, SumsUpRemove

(* Any member may be taken out of a sum.                                   *)
LEMMA SumRemove ==
  ASSUME NEW S, IsFiniteSet(S), NEW f, \A s \in S : f[s] \in Nat, NEW y \in S
  PROVE  SumFunctionOnSet(f, S) = f[y] + SumFunctionOnSet(f, S \ {y})
<1>1. PICK iter : SumsUp(iter, f, SUBSET S) /\ SumFunctionOnSet(f, S) = iter[S]
  BY SumRecursion
<1>2. iter[S] = f[y] + iter[S \ {y}]
  BY <1>1, SumsUpRemove
<1>3. SumFunctionOnSet(f, S \ {y}) = iter[S \ {y}]
  BY <1>1, SumsUpSubset
<1> QED BY <1>1, <1>2, <1>3

(* Functions that agree on a set have the same sum over it.                *)
LEMMA SumEqual ==
  ASSUME NEW S, IsFiniteSet(S), NEW f, NEW g,
         \A s \in S : f[s] \in Nat /\ f[s] = g[s]
  PROVE  SumFunctionOnSet(f, S) = SumFunctionOnSet(g, S)
<1>1. PICK iter : SumsUp(iter, f, SUBSET S) /\ SumFunctionOnSet(f, S) = iter[S]
  BY SumRecursion
<1>2. \A s \in SUBSET S : s # {} => Pick(s) \in S
  BY DEF Pick
<1>3. SumsUp(iter, g, SUBSET S)
  BY <1>1, <1>2 DEF SumsUp
<1>4. \A s \in S : g[s] \in Nat
  OBVIOUS
<1>5. SumFunctionOnSet(g, S) = iter[S]
  BY <1>3, <1>4, SumsUpSubset
<1> QED BY <1>1, <1>5

(* Adding to one member adds as much to the sum.                           *)
LEMMA SumCharge ==
  ASSUME NEW S, IsFiniteSet(S), NEW f, \A s \in S : f[s] \in Nat, NEW y \in S, NEW a \in Nat,
         NEW g, g[y] = f[y] + a, \A s \in S \ {y} : g[s] = f[s]
  PROVE  SumFunctionOnSet(g, S) = SumFunctionOnSet(f, S) + a
<1>1. IsFiniteSet(S \ {y})
  BY FS_RemoveElement
<1>2. \A s \in S : g[s] \in Nat
  OBVIOUS
<1>3. SumFunctionOnSet(g, S) = g[y] + SumFunctionOnSet(g, S \ {y})
  BY <1>2, SumRemove
<1>4. SumFunctionOnSet(f, S) = f[y] + SumFunctionOnSet(f, S \ {y})
  BY SumRemove
<1>5. SumFunctionOnSet(f, S \ {y}) = SumFunctionOnSet(g, S \ {y})
  BY <1>1, SumEqual
<1>6. SumFunctionOnSet(f, S \ {y}) \in Nat
  BY <1>1, SumType
<1> QED BY <1>3, <1>4, <1>5, <1>6

(* The sum over two disjoint sets is the sum of their sums.                *)
LEMMA SumDisjoint ==
  ASSUME NEW S, NEW T, IsFiniteSet(S), IsFiniteSet(T), S \cap T = {}, NEW f,
         \A s \in S \cup T : f[s] \in Nat
  PROVE  SumFunctionOnSet(f, S \cup T) = SumFunctionOnSet(f, S) + SumFunctionOnSet(f, T)
<1> DEFINE Sum(U) == SumFunctionOnSet(f, U)
           Good(V) == Sum(S \cup V) = Sum(S) + Sum(V)
           Bad == {Cardinality(U) : U \in {V \in SUBSET T : ~Good(V)}}
<1> SUFFICES ASSUME ~Good(T) PROVE FALSE
  OBVIOUS
<1> HIDE DEF Sum
<1>1. \A V \in SUBSET T : /\ IsFiniteSet(V) /\ Cardinality(V) \in Nat
                          /\ IsFiniteSet(S \cup V)
  BY FS_Subset, FS_CardinalityType, FS_Union
<1>2. Bad \in SUBSET Nat /\ Bad # {}
  BY <1>1
<1>3. PICK n \in Bad : \A m \in Bad : n <= m
  BY <1>2, LeastNatural
<1>4. PICK U \in SUBSET T : ~Good(U) /\ Cardinality(U) = n
  OBVIOUS
<1>5. ASSUME NEW V \in SUBSET T, Cardinality(V) < n PROVE Good(V)
  <2> SUFFICES ASSUME ~Good(V) PROVE FALSE
    OBVIOUS
  <2> HIDE DEF Good
  <2>1. Cardinality(V) \in Bad
    OBVIOUS
  <2>2. n <= Cardinality(V) /\ n \in Nat /\ Cardinality(V) \in Nat
    BY <1>2, <1>3, <2>1
  <2> QED BY <1>5, <2>2
<1>6. \A V \in SUBSET T : Sum(V) \in Nat /\ Sum(S \cup V) \in Nat /\ Sum(S) \in Nat
  BY <1>1, SumType DEF Sum
<1>7. U # {}
  <2>1. Sum({}) = 0 /\ S \cup {} = S
    BY SumEmpty DEF Sum
  <2> QED BY <1>4, <1>6, <2>1
<1>8. PICK y \in U : TRUE
  BY <1>7
<1> DEFINE V == U \ {y}
<1>9. Good(V)
  <2>1. Cardinality(V) = Cardinality(U) - 1
    BY <1>1, <1>8, FS_RemoveElement
  <2>2. Cardinality(V) < n
    BY <1>1, <1>4, <2>1
  <2> QED BY <1>5, <2>2
<1>10. Sum(U) = f[y] + Sum(V)
  BY <1>1, SumRemove DEF Sum
<1>11. Sum(S \cup U) = f[y] + Sum(S \cup V)
  <2>1. (S \cup U) \ {y} = S \cup V
    OBVIOUS
  <2>2. \A s \in S \cup U : f[s] \in Nat
    OBVIOUS
  <2>3. IsFiniteSet(S \cup U) /\ y \in S \cup U
    BY <1>1
  <2> DEFINE W == S \cup U
  <2> HIDE DEF V, W
  <2>4. SumFunctionOnSet(f, W) = f[y] + SumFunctionOnSet(f, W \ {y})
    BY <2>2, <2>3, SumRemove DEF W
  <2> QED BY <2>1, <2>4 DEF Sum, W
<1>12. f[y] \in Nat /\ Sum(V) \in Nat /\ Sum(S) \in Nat /\ Sum(S \cup V) \in Nat
  <2>1. V \in SUBSET T /\ y \in T
    OBVIOUS
  <2>2. f[y] \in Nat
    BY <2>1
  <2> HIDE DEF V
  <2> QED BY <1>6, <2>1, <2>2
<1>13. Sum(S \cup V) = Sum(S) + Sum(V)
  BY <1>9
<1> HIDE DEF V, Sum
<1> QED BY <1>4, <1>10, <1>11, <1>12, <1>13

(* Zeros add up to zero.                                                   *)
LEMMA SumZero ==
  ASSUME NEW S, IsFiniteSet(S), NEW f, \A s \in S : f[s] = 0
  PROVE  SumFunctionOnSet(f, S) = 0
<1>1. \A s \in S : f[s] \in Nat
  OBVIOUS
<1>2. PICK iter : SumsUp(iter, f, SUBSET S) /\ SumFunctionOnSet(f, S) = iter[S]
  BY SumRecursion
<1> DEFINE zero == [s \in SUBSET S |-> 0]
<1>3. \A s \in SUBSET S : s # {} => Pick(s) \in S /\ s \ {Pick(s)} \in SUBSET S
  BY DEF Pick
<1>4. SumsUp(zero, f, SUBSET S)
  BY <1>3 DEF SumsUp
<1>5. SumFunctionOnSet(f, S) = zero[S]
  BY <1>1, <1>4, SumsUpSubset
<1> QED BY <1>5

(* The remainder of a number less than one turn of the ring away from it.  *)
LEMMA ModSmall ==
  ASSUME NEW n \in Nat \ {0}, NEW a \in Int
  PROVE  /\ a \in 0 .. n - 1 => a % n = a
         /\ a \in n .. 2 * n - 1 => a % n = a - n
         /\ a \in -n .. -1 => a % n = a + n
<1>1. a = n * (a \div n) + (a % n) /\ a % n \in 0 .. n - 1 /\ a \div n \in Int
  OBVIOUS
<1> DEFINE q == a \div n
           r == a % n
<1> HIDE DEF q, r
<1>2. a = n * q + r /\ r \in 0 .. n - 1 /\ q \in Int
  BY <1>1 DEF q, r
<1>3. ASSUME NEW p \in Int, NEW b \in 0 .. n - 1, a = n * p + b PROVE p = q /\ b = r
  <2>1. n * (p - q) = r - b
    BY <1>2, <1>3
  <2>2. p - q \in Int /\ r - b < n /\ b - r < n
    BY <1>2
  <2>3. p - q < 1 
    BY <2>1, <2>2, <1>2
  <2>4. p - q > -1
    BY <2>1, <2>2, <1>2
  <2> QED BY <1>2, <1>3, <2>3, <2>4
<1>4. CASE a \in 0 .. n - 1
  <2>1. a = n * 0 + a
    BY <1>4
  <2> QED BY <1>3, <2>1, <1>4 DEF r
<1>5. CASE a \in n .. 2 * n - 1
  <2>1. a = n * 1 + (a - n) /\ a - n \in 0 .. n - 1
    BY <1>5
  <2> QED BY <1>3, <2>1, <1>5 DEF r
<1>6. CASE a \in -n .. -1
  <2>1. a = n * (-1) + (a + n) /\ a + n \in 0 .. n - 1
    BY <1>6
  <2> QED BY <1>3, <2>1, <1>6 DEF r
<1> QED BY <1>4, <1>5, <1>6

-----------------------------------------------------------------------------
(* The limiter.                                                            *)

(* The airtime that a history grants at the instants of a set.             *)
Aired(hist, times) == SumFunctionOnSet(hist, times \cap DOMAIN hist)

(* The airtime granted at each instant up to some time.                    *)
IsHistory(hist) == \E top \in Nat : hist \in [0 .. top -> Nat]

(* The bucket of a given age: when its slot starts, the slot, and its place *)
(* in the ring.                                                            *)
Start(lim, age) == lim.head_start_ms - age * BucketMs
Slot(lim, age) == Start(lim, age) .. Start(lim, age) + BucketMs - 1
Cell(lim, age) == (lim.head - age) % BucketCount

(* The ring is exact: each bucket holds the airtime granted in its slot, and *)
(* nothing was granted after the slot of head.                             *)
Tracks(lim, hist) ==
  /\ \A age \in Buckets : lim.buckets[Cell(lim, age)] = Aired(hist, Slot(lim, age))
  /\ \A t \in DOMAIN hist : t >= lim.head_start_ms + BucketMs => hist[t] = 0

(* Multiplication by a natural keeps the order.                            *)
LEMMA ScaleMono ==
  ASSUME NEW a \in Int, NEW b \in Int, a <= b, NEW m \in Nat
  PROVE  a * m <= b * m
<1>1. PICK d \in Nat : b = a + d
  BY b - a \in Nat
<1>2. d * m \in Nat
  OBVIOUS
<1>3. b * m = a * m + d * m
  BY <1>1
<1> QED BY <1>2, <1>3

(* The slots of the ring follow each other without overlap.                *)
LEMMA SlotOrder ==
  ASSUME NEW lim, LimiterOK(lim), NEW a \in Int, NEW b \in Int, a < b
  PROVE  /\ Start(lim, a) \in Int /\ Start(lim, b) \in Int
         /\ Start(lim, b) + BucketMs <= Start(lim, a)
<1>1. a * BucketMs \in Int /\ b * BucketMs \in Int
  BY LimiterAssumption
<1>2. (a + 1) * BucketMs <= b * BucketMs
  BY ScaleMono, LimiterAssumption
<1>3. (a + 1) * BucketMs = a * BucketMs + BucketMs
  BY LimiterAssumption
<1> QED BY <1>1, <1>2, <1>3, LimiterAssumption DEF Start, LimiterOK

(* Where the bucket of a given age lies.                                   *)
LEMMA CellIndex ==
  ASSUME NEW lim, LimiterOK(lim), NEW age \in Buckets
  PROVE  /\ Cell(lim, age) = IF age <= lim.head THEN lim.head - age
                             ELSE lim.head - age + BucketCount
         /\ Cell(lim, age) \in Buckets
<1>1. lim.head - age \in Int /\ BucketCount \in Nat \ {0}
  BY LimiterAssumption DEF LimiterOK, Buckets
<1>2. CASE age <= lim.head
  <2>1. lim.head - age \in 0 .. BucketCount - 1
    BY <1>1, <1>2, LimiterAssumption DEF LimiterOK, Buckets
  <2>2. Cell(lim, age) = lim.head - age
    BY <1>1, <2>1, ModSmall DEF Cell
  <2> QED BY <1>2, <2>1, <2>2 DEF Buckets
<1>3. CASE ~(age <= lim.head)
  <2>1. lim.head - age \in -BucketCount .. -1 /\ lim.head - age + BucketCount \in Buckets
    BY <1>1, <1>3, LimiterAssumption DEF LimiterOK, Buckets
  <2>2. Cell(lim, age) = lim.head - age + BucketCount
    BY <1>1, <2>1, ModSmall DEF Cell
  <2> QED BY <1>3, <2>1, <2>2
<1> QED BY <1>2, <1>3

(* The airtime of a set of instants is a finite sum of naturals.           *)
LEMMA AiredType ==
  ASSUME NEW hist, IsHistory(hist), NEW times
  PROVE  /\ IsFiniteSet(times \cap DOMAIN hist)
         /\ \A t \in times \cap DOMAIN hist : hist[t] \in Nat
         /\ Aired(hist, times) \in Nat
<1>1. PICK top \in Nat : hist \in [0 .. top -> Nat]
  BY DEF IsHistory
<1>2. IsFiniteSet(0 .. top)
  BY FS_Interval
<1>3. IsFiniteSet(times \cap DOMAIN hist)
  BY <1>1, <1>2, FS_Intersection
<1>4. \A t \in times \cap DOMAIN hist : hist[t] \in Nat
  BY <1>1
<1> QED BY <1>3, <1>4, SumType DEF Aired

(* The airtime of disjoint sets of instants adds up.                       *)
LEMMA AiredDisjoint ==
  ASSUME NEW hist, IsHistory(hist), NEW A, NEW B, A \cap B = {}
  PROVE  Aired(hist, A \cup B) = Aired(hist, A) + Aired(hist, B)
<1> DEFINE a == A \cap DOMAIN hist
           b == B \cap DOMAIN hist
<1>1. (A \cup B) \cap DOMAIN hist = a \cup b /\ a \cap b = {}
  OBVIOUS
<1>2. IsFiniteSet(a) /\ IsFiniteSet(b) /\ \A t \in a \cup b : hist[t] \in Nat
  BY AiredType
<1> HIDE DEF a, b
<1>3. SumFunctionOnSet(hist, a \cup b) = SumFunctionOnSet(hist, a) + SumFunctionOnSet(hist, b)
  BY <1>1, <1>2, SumDisjoint
<1> QED BY <1>1, <1>3 DEF Aired, a, b

(* Instants without airtime add nothing.                                   *)
LEMMA AiredZero ==
  ASSUME NEW hist, IsHistory(hist), NEW A, \A t \in A \cap DOMAIN hist : hist[t] = 0
  PROVE  Aired(hist, A) = 0
  BY AiredType, SumZero DEF Aired

(* A set of instants that covers the airtime of another has at least as    *)
(* much of it.                                                             *)
LEMMA AiredMonotone ==
  ASSUME NEW hist, IsHistory(hist), NEW A, NEW B,
         \A t \in A \cap DOMAIN hist : t \in B \/ hist[t] = 0
  PROVE  Aired(hist, A) <= Aired(hist, B)
<1>1. Aired(hist, (A \cap B) \cup (A \ B)) = Aired(hist, A \cap B) + Aired(hist, A \ B)
  <2>1. (A \cap B) \cap (A \ B) = {}
    OBVIOUS
  <2> QED BY <2>1, AiredDisjoint
<1>2. Aired(hist, (A \cap B) \cup (B \ A)) = Aired(hist, A \cap B) + Aired(hist, B \ A)
  <2>1. (A \cap B) \cap (B \ A) = {}
    OBVIOUS
  <2> QED BY <2>1, AiredDisjoint
<1>3. (A \cap B) \cup (A \ B) = A /\ (A \cap B) \cup (B \ A) = B
  OBVIOUS
<1>4. Aired(hist, A \ B) = 0
  BY AiredZero
<1>5. Aired(hist, A \cap B) \in Nat /\ Aired(hist, B \ A) \in Nat
  BY AiredType
<1>6. Aired(hist, A) = Aired(hist, A \cap B) + Aired(hist, A \ B)
  BY <1>1, <1>3
<1>7. Aired(hist, B) = Aired(hist, A \cap B) + Aired(hist, B \ A)
  BY <1>2, <1>3
<1> QED BY <1>4, <1>5, <1>6, <1>7

(* The buckets of different ages are different, and together they are the  *)
(* ring.                                                                   *)
LEMMA CellsCover ==
  ASSUME NEW lim, LimiterOK(lim)
  PROVE  /\ \A a, b \in Buckets : a # b => Cell(lim, a) # Cell(lim, b)
         /\ {Cell(lim, age) : age \in Buckets} = Buckets
<1>1. ASSUME NEW a \in Buckets, NEW b \in Buckets, a # b PROVE Cell(lim, a) # Cell(lim, b)
  <2>1. /\ Cell(lim, a) = IF a <= lim.head THEN lim.head - a ELSE lim.head - a + BucketCount
        /\ Cell(lim, b) = IF b <= lim.head THEN lim.head - b ELSE lim.head - b + BucketCount
    BY CellIndex
  <2>2. /\ a \in 0 .. BucketCount - 1 /\ b \in 0 .. BucketCount - 1
        /\ lim.head \in 0 .. BucketCount - 1 /\ BucketCount \in Nat
    BY LimiterAssumption DEF LimiterOK, Buckets
  <2> QED BY <1>1, <2>1, <2>2
<1>2. ASSUME NEW c \in Buckets PROVE \E age \in Buckets : c = Cell(lim, age)
  <2> DEFINE age == IF c <= lim.head THEN lim.head - c ELSE lim.head - c + BucketCount
  <2>0. /\ c \in 0 .. BucketCount - 1 /\ lim.head \in 0 .. BucketCount - 1
        /\ BucketCount \in Nat
    BY LimiterAssumption DEF LimiterOK, Buckets
  <2>1. age \in Buckets /\ c = IF age <= lim.head THEN lim.head - age
                               ELSE lim.head - age + BucketCount
    BY <2>0 DEF Buckets
  <2> HIDE DEF age
  <2>2. c = Cell(lim, age)
    BY <2>1, CellIndex
  <2> QED BY <2>1, <2>2
<1>3. \A age \in Buckets : Cell(lim, age) \in Buckets
  BY CellIndex
<1> QED BY <1>1, <1>2, <1>3

(* The ring and its parts are finite.                                      *)
LEMMA BucketsFinite == IsFiniteSet(Buckets) /\ \A S \in SUBSET Buckets : IsFiniteSet(S)
<1>1. 0 \in Int /\ BucketCount - 1 \in Int
  BY LimiterAssumption
<1>2. IsFiniteSet(Buckets)
  BY <1>1, FS_Interval DEF Buckets
<1> QED BY <1>2, FS_Subset

(* The n youngest buckets add up to the airtime of the n youngest slots.   *)
LEMMA TrackedSum ==
  ASSUME NEW lim, LimiterOK(lim), NEW hist, IsHistory(hist), Tracks(lim, hist),
         NEW n \in 0 .. BucketCount
  PROVE  Aired(hist, Start(lim, n - 1) .. Start(lim, 0) + BucketMs - 1)
           = SumFunctionOnSet(lim.buckets, {Cell(lim, age) : age \in 0 .. n - 1})
<1> DEFINE Span(k) == Start(lim, k - 1) .. Start(lim, 0) + BucketMs - 1
           Cells(k) == {Cell(lim, age) : age \in 0 .. k - 1}
           Good(k) == Aired(hist, Span(k)) = SumFunctionOnSet(lim.buckets, Cells(k))
           Bad == {k \in 0 .. BucketCount : ~Good(k)}
<1> SUFFICES ASSUME ~Good(n) PROVE FALSE
  OBVIOUS
<1>1. BucketCount \in Nat \ {0} /\ BucketMs \in Nat \ {0}
  BY LimiterAssumption
<1> HIDE DEF Good
<1>2. Bad \in SUBSET Nat /\ Bad # {}
  BY <1>1
<1>3. PICK m \in Bad : \A k \in Bad : m <= k
  BY <1>2, LeastNatural
<1>4. m \in 0 .. BucketCount /\ ~Good(m)
  OBVIOUS
<1>5. Start(lim, 0) = lim.head_start_ms /\ Start(lim, -1) = lim.head_start_ms + BucketMs
  BY <1>1 DEF Start, LimiterOK
<1>6. m # 0
  <2> SUFFICES ASSUME m = 0 PROVE FALSE
    OBVIOUS
  <2>1. m - 1 = -1
    OBVIOUS
  <2>2. Span(m) = {}
    BY <1>1, <1>5, <2>1 DEF LimiterOK
  <2>3. Cells(m) = {}
    OBVIOUS
  <2>4. Aired(hist, Span(m)) = 0
    BY <2>2, AiredZero
  <2> QED BY <1>4, <2>3, <2>4, SumEmpty DEF Good
<1> DEFINE k == m - 1
<1>7. k \in Buckets /\ k \in 0 .. BucketCount /\ k < m
  BY <1>1, <1>4, <1>6 DEF Buckets
<1>8. Good(k)
  BY <1>1, <1>2, <1>3, <1>7
<1>9. Span(m) = Slot(lim, k) \cup Span(k) /\ Slot(lim, k) \cap Span(k) = {}
  <2>0. /\ lim.head_start_ms \in Nat /\ k \in Nat
        /\ k * BucketMs \in Int /\ (k - 1) * BucketMs = k * BucketMs - BucketMs
    <3>1. lim.head_start_ms \in Nat /\ k \in Nat
      BY <1>7 DEF LimiterOK, Buckets
    <3> HIDE DEF k
    <3>2. k * BucketMs \in Int /\ (k - 1) * BucketMs = k * BucketMs - BucketMs
      BY <1>1, <3>1
    <3> QED BY <3>1, <3>2
  <2>1. Start(lim, k) \in Int /\ Start(lim, k - 1) \in Int /\ Start(lim, 0) \in Int
    <3> HIDE DEF k
    <3> QED BY <1>1, <1>5, <2>0 DEF Start
  <2>2. Start(lim, k - 1) = Start(lim, k) + BucketMs
    <3> HIDE DEF k
    <3> QED BY <1>1, <2>0 DEF Start
  <2>3. Start(lim, k) <= Start(lim, 0)
    BY <1>1, <1>5, <1>7, <2>1, SlotOrder DEF Buckets
  <2> QED BY <1>1, <2>1, <2>2, <2>3 DEF Slot
<1>10. Cells(m) = Cells(k) \cup {Cell(lim, k)} /\ Cell(lim, k) \notin Cells(k)
  <2>1. 0 .. m - 1 = (0 .. k - 1) \cup {k}
    BY <1>1, <1>7 DEF Buckets
  <2>2. \A age \in 0 .. k - 1 : age \in Buckets /\ age # k
    BY <1>1, <1>7 DEF Buckets
  <2>3. Cell(lim, k) \notin Cells(k)
    BY <1>7, <2>2, CellsCover
  <2> QED BY <2>1, <2>3
<1>11. Aired(hist, Span(m)) = lim.buckets[Cell(lim, k)] + Aired(hist, Span(k))
  <2>1. lim.buckets[Cell(lim, k)] = Aired(hist, Slot(lim, k))
    BY <1>7 DEF Tracks
  <2> HIDE DEF Span, k
  <2>2. Aired(hist, Span(m)) = Aired(hist, Slot(lim, k)) + Aired(hist, Span(k))
    BY <1>9, AiredDisjoint
  <2> QED BY <2>1, <2>2
<1>12. Cells(m) \in SUBSET Buckets /\ IsFiniteSet(Cells(m)) /\ Cells(m) \ {Cell(lim, k)} = Cells(k)
  <2>1. \A age \in 0 .. m - 1 : age \in Buckets
    BY <1>1, <1>4 DEF Buckets
  <2>2. Cells(m) \in SUBSET Buckets
    BY <2>1, CellIndex
  <2> QED BY <1>10, <2>2, BucketsFinite
<1>13. SumFunctionOnSet(lim.buckets, Cells(m))
         = lim.buckets[Cell(lim, k)] + SumFunctionOnSet(lim.buckets, Cells(k))
  <2>1. \A c \in Cells(m) : lim.buckets[c] \in Nat
    BY <1>12 DEF LimiterOK
  <2>2. Cell(lim, k) \in Cells(m)
    BY <1>10
  <2> HIDE DEF Cells
  <2> QED BY <1>12, <2>1, <2>2, SumRemove
<1> QED BY <1>4, <1>8, <1>11, <1>13 DEF Good

(* spent_ms is the airtime granted in the slots that the ring covers.      *)
LEMMA SpentIsAired ==
  ASSUME NEW lim, LimiterOK(lim), NEW hist, IsHistory(hist), Tracks(lim, hist)
  PROVE  /\ spent_ms(lim) = Aired(hist, Start(lim, BucketCount - 1)
                                          .. lim.head_start_ms + BucketMs - 1)
         /\ spent_ms(lim) \in Nat
<1>1. BucketCount \in 0 .. BucketCount /\ Buckets = 0 .. BucketCount - 1
  BY LimiterAssumption DEF Buckets
<1>2. Start(lim, 0) = lim.head_start_ms
  BY LimiterAssumption DEF Start, LimiterOK
<1>3. {Cell(lim, age) : age \in 0 .. BucketCount - 1} = Buckets
  BY <1>1, CellsCover
<1>4. spent_ms(lim) = SumFunctionOnSet(lim.buckets, Buckets)
  BY DEF spent_ms, SumFunction, LimiterOK
<1>5. Aired(hist, Start(lim, BucketCount - 1) .. Start(lim, 0) + BucketMs - 1)
        = SumFunctionOnSet(lim.buckets, {Cell(lim, age) : age \in 0 .. BucketCount - 1})
  BY <1>1, TrackedSum
<1> QED BY <1>2, <1>3, <1>4, <1>5, AiredType

(* The quotient of a division by the length of a bucket.                   *)
LEMMA DivMod ==
  ASSUME NEW a \in Nat, NEW n \in Nat \ {0}
  PROVE  /\ a \div n \in Nat
         /\ (a \div n) * n <= a /\ a < (a \div n) * n + n
<1>1. a = n * (a \div n) + (a % n) /\ a % n \in 0 .. n - 1 /\ a \div n \in Nat
  OBVIOUS
<1> DEFINE q == a \div n
<1>2. n * q = q * n
  BY <1>1
<1> HIDE DEF q
<1> QED BY <1>1, <1>2 DEF q

(* The whole buckets since the slot of head began, and the ones that the   *)
(* rotation wipes.                                                         *)
Elapsed(lim, t) == saturating_sub(t, lim.head_start_ms) \div BucketMs
Wiped(lim, e) == {(lim.head + k) % BucketCount : k \in 1 .. e}

(* After elapsed whole buckets now lies in the next one.                   *)
LEMMA ElapsedBounds ==
  ASSUME NEW lim, LimiterOK(lim), NEW t \in Nat, lim.head_start_ms <= t
  PROVE  /\ Elapsed(lim, t) \in Nat /\ Elapsed(lim, t) * BucketMs \in Nat
         /\ lim.head_start_ms + Elapsed(lim, t) * BucketMs <= t
         /\ t < lim.head_start_ms + Elapsed(lim, t) * BucketMs + BucketMs
<1>1. /\ saturating_sub(t, lim.head_start_ms) = t - lim.head_start_ms
      /\ t - lim.head_start_ms \in Nat /\ lim.head_start_ms \in Nat
  BY DEF saturating_sub, LimiterOK
<1> DEFINE e == Elapsed(lim, t)
<1>2. e = (t - lim.head_start_ms) \div BucketMs
  BY <1>1 DEF Elapsed
<1> HIDE DEF e
<1>3. /\ e \in Nat /\ e * BucketMs <= t - lim.head_start_ms
      /\ t - lim.head_start_ms < e * BucketMs + BucketMs
  BY <1>1, <1>2, DivMod, LimiterAssumption
<1>4. e * BucketMs \in Nat
  BY <1>3, LimiterAssumption
<1> QED BY <1>1, <1>3, <1>4, LimiterAssumption DEF e

(* What advance does when part of the ring is still covered ...            *)
LEMMA AdvanceRing ==
  ASSUME NEW lim, LimiterOK(lim), NEW t \in Nat, lim.head_start_ms <= t,
         Elapsed(lim, t) < BucketCount
  PROVE  LET e == Elapsed(lim, t)
             adv == advance(lim, t)
         IN  /\ adv.head = (lim.head + e) % BucketCount
             /\ adv.head_start_ms = lim.head_start_ms + e * BucketMs
             /\ adv.buckets = [b \in Buckets |-> IF b \in Wiped(lim, e) THEN 0 ELSE lim.buckets[b]]
             /\ adv.allowance_ms = lim.allowance_ms
<1>1. Elapsed(lim, t) \in Nat /\ BucketCount \in Nat
  BY ElapsedBounds, LimiterAssumption
<1> QED BY <1>1 DEF advance, Elapsed, Wiped, LimiterOK

(* ... and when none of it is.                                             *)
LEMMA AdvanceWipe ==
  ASSUME NEW lim, LimiterOK(lim), NEW t \in Nat, lim.head_start_ms <= t,
         ~(Elapsed(lim, t) < BucketCount)
  PROVE  LET adv == advance(lim, t)
         IN  /\ adv.head = 0 /\ adv.head_start_ms = t
             /\ adv.buckets = [b \in Buckets |-> 0]
             /\ adv.allowance_ms = lim.allowance_ms
<1>1. Elapsed(lim, t) \in Nat /\ BucketCount \in Nat
  BY ElapsedBounds, LimiterAssumption
<1> QED BY <1>1 DEF advance, Elapsed, LimiterOK

(* Rotation makes a bucket of age a - e one of age a, and the buckets      *)
(* younger than e are the ones it has wiped.                               *)
LEMMA AdvanceCells ==
  ASSUME NEW lim, LimiterOK(lim), NEW e \in 0 .. BucketCount - 1, NEW adv,
         adv.head = (lim.head + e) % BucketCount,
         NEW age \in Buckets
  PROVE  /\ age >= e => /\ Cell(adv, age) = Cell(lim, age - e)
                        /\ Cell(lim, age - e) \notin Wiped(lim, e)
         /\ age < e => Cell(adv, age) \in Wiped(lim, e)
<1>1. /\ lim.head \in 0 .. BucketCount - 1 /\ age \in 0 .. BucketCount - 1 /\ e \in Nat
      /\ BucketCount \in Nat \ {0}
  BY LimiterAssumption DEF LimiterOK, Buckets
<1> DEFINE Up(k) == IF lim.head + k < BucketCount THEN lim.head + k ELSE lim.head + k - BucketCount
<1>2. ASSUME NEW k \in 0 .. BucketCount - 1 PROVE (lim.head + k) % BucketCount = Up(k)
  <2>1. lim.head + k \in Int
    BY <1>1
  <2>2. \/ lim.head + k \in 0 .. BucketCount - 1
        \/ lim.head + k \in BucketCount .. 2 * BucketCount - 1 /\ ~(lim.head + k < BucketCount)
    BY <1>1
  <2> QED BY <1>1, <2>1, <2>2, ModSmall
<1>3. adv.head = Up(e) /\ adv.head \in 0 .. BucketCount - 1
  BY <1>1, <1>2
<1>4. Cell(adv, age) = IF age <= adv.head THEN adv.head - age ELSE adv.head - age + BucketCount
  <2>1. adv.head - age \in Int
    BY <1>1, <1>3
  <2>2. \/ adv.head - age \in 0 .. BucketCount - 1 /\ age <= adv.head
        \/ adv.head - age \in -BucketCount .. -1 /\ ~(age <= adv.head)
    BY <1>1, <1>3
  <2> QED BY <1>1, <2>1, <2>2, ModSmall DEF Cell
<1>5. CASE age >= e
  <2>1. age - e \in Buckets
    BY <1>1, <1>5 DEF Buckets
  <2>2. Cell(lim, age - e) = IF age - e <= lim.head THEN lim.head - (age - e)
                             ELSE lim.head - (age - e) + BucketCount
    BY <2>1, CellIndex
  <2>3. Cell(adv, age) = Cell(lim, age - e)
    BY <1>1, <1>3, <1>4, <1>5, <2>2
  <2>4. ASSUME NEW k \in 1 .. e PROVE Cell(lim, age - e) # (lim.head + k) % BucketCount
    <3>1. (lim.head + k) % BucketCount = Up(k)
      BY <1>1, <1>2
    <3> QED BY <1>1, <1>5, <2>2, <3>1
  <2> QED BY <1>1, <1>5, <2>3, <2>4 DEF Wiped
<1>6. CASE age < e
  <2>1. e - age \in 1 .. e /\ e - age \in 0 .. BucketCount - 1
    BY <1>1, <1>6
  <2>2. (lim.head + (e - age)) % BucketCount = Up(e - age)
    BY <1>2, <2>1
  <2>3. Cell(adv, age) = Up(e - age)
    BY <1>1, <1>3, <1>4, <1>6
  <2> HIDE DEF Up
  <2> QED BY <1>1, <1>6, <2>1, <2>2, <2>3 DEF Wiped
<1> QED BY <1>1, <1>5, <1>6

(* Rotating the ring keeps the limiter well formed.                        *)
LEMMA AdvanceType ==
  ASSUME NEW lim, LimiterOK(lim), NEW t \in Nat
  PROVE  LimiterOK(advance(lim, t)) /\ advance(lim, t).allowance_ms = lim.allowance_ms
<1> DEFINE passed == saturating_sub(t, lim.head_start_ms) \div BucketMs
<1>1. passed \in Nat
  <2>1. saturating_sub(t, lim.head_start_ms) \in Nat
    BY DEF saturating_sub, LimiterOK
  <2> QED BY <2>1, LimiterAssumption
<1> HIDE DEF passed
<1>2. 0 \in Buckets /\ (lim.head + passed) % BucketCount \in Buckets
  BY <1>1, LimiterAssumption DEF Buckets, LimiterOK
<1>3. passed * BucketMs \in Nat
  BY <1>1, LimiterAssumption
<1>4. lim.head_start_ms + passed * BucketMs \in Nat
  BY <1>3 DEF LimiterOK
<1> QED BY <1>2, <1>4 DEF LimiterOK, advance, passed

(* So does a claim, granted or refused; nothing changes the allowance.     *)
LEMMA ClaimType ==
  ASSUME NEW lim, LimiterOK(lim), NEW t \in Nat, NEW airtime \in Nat
  PROVE  /\ LimiterOK(try_claim(lim, t, airtime).lim)
         /\ try_claim(lim, t, airtime).lim.allowance_ms = lim.allowance_ms
         /\ try_claim(lim, t, airtime).ok \in BOOLEAN
<1> DEFINE adv == advance(lim, t)
           paid == [adv EXCEPT !.buckets[adv.head] = @ + airtime]
<1>1. LimiterOK(adv) /\ adv.allowance_ms = lim.allowance_ms
  BY AdvanceType
<1> HIDE DEF adv
<1>2. LimiterOK(paid) /\ paid.allowance_ms = lim.allowance_ms
  BY <1>1 DEF LimiterOK
<1> HIDE DEF paid
<1>3. try_claim(lim, t, airtime).lim \in {lim, adv, paid}
      /\ try_claim(lim, t, airtime).ok \in BOOLEAN
  BY DEF try_claim, Answer, adv, paid
<1> QED BY <1>1, <1>2, <1>3

(* Rotating the ring keeps it exact: it loses no slot that is still covered *)
(* and keeps none that has expired; and head then covers now.              *)
LEMMA AdvanceTracks ==
  ASSUME NEW lim, LimiterOK(lim), NEW hist, IsHistory(hist), Tracks(lim, hist),
         NEW t \in Nat, lim.head_start_ms <= t
  PROVE  /\ Tracks(advance(lim, t), hist)
         /\ advance(lim, t).head_start_ms <= t
         /\ t < advance(lim, t).head_start_ms + BucketMs
<1> DEFINE e == Elapsed(lim, t)
           adv == advance(lim, t)
<1>1. /\ e \in Nat /\ e * BucketMs \in Nat /\ BucketCount \in Nat \ {0} /\ BucketMs \in Nat \ {0}
      /\ lim.head_start_ms + e * BucketMs <= t
      /\ t < lim.head_start_ms + e * BucketMs + BucketMs
      /\ lim.head_start_ms \in Nat
  BY ElapsedBounds, LimiterAssumption DEF LimiterOK
<1>2. LimiterOK(adv)
  BY AdvanceType
<1>3. \A s \in DOMAIN hist : s \in Nat /\ (s >= lim.head_start_ms + BucketMs => hist[s] = 0)
  BY DEF Tracks, IsHistory
<1>4. CASE e < BucketCount
  <2>1. /\ adv.head = (lim.head + e) % BucketCount
        /\ adv.head_start_ms = lim.head_start_ms + e * BucketMs
        /\ adv.buckets = [b \in Buckets |-> IF b \in Wiped(lim, e) THEN 0 ELSE lim.buckets[b]]
    BY <1>4, AdvanceRing
  <2> HIDE DEF adv, e
  <2>2. e \in 0 .. BucketCount - 1
    BY <1>1, <1>4
  <2>3. ASSUME NEW age \in Buckets PROVE adv.buckets[Cell(adv, age)] = Aired(hist, Slot(adv, age))
    <3>1. age \in Nat /\ Cell(adv, age) \in Buckets
      BY <1>2, CellIndex DEF Buckets
    <3>2. Start(adv, age) = Start(lim, age - e)
      <4>1. (age - e) * BucketMs = age * BucketMs - e * BucketMs
        BY <1>1, <3>1
      <4>2. age * BucketMs \in Int
        BY <1>1, <3>1
      <4> QED BY <1>1, <2>1, <4>1, <4>2 DEF Start
    <3>3. CASE age >= e
      <4>1. age - e \in Buckets
        BY <1>1, <3>1, <3>3 DEF Buckets
      <4>2. adv.buckets[Cell(adv, age)] = lim.buckets[Cell(lim, age - e)]
        BY <2>1, <2>2, <3>1, <3>3, AdvanceCells
      <4> QED BY <3>2, <4>1, <4>2 DEF Tracks, Slot
    <3>4. CASE age < e
      <4>1. adv.buckets[Cell(adv, age)] = 0
        BY <2>1, <2>2, <3>1, <3>4, AdvanceCells
      <4>2. Start(lim, age - e) >= lim.head_start_ms + BucketMs /\ Start(lim, age - e) \in Int
        <5>1. Start(lim, 0) = lim.head_start_ms
          BY <1>1 DEF Start
        <5>2. age - e \in Int /\ age - e < 0
          BY <1>1, <3>1, <3>4
        <5> QED BY <1>1, <5>1, <5>2, SlotOrder
      <4>3. \A s \in Slot(adv, age) \cap DOMAIN hist : hist[s] = 0
        BY <1>1, <1>3, <3>2, <4>2 DEF Slot
      <4> QED BY <4>1, <4>3, AiredZero
    <3> QED BY <1>1, <3>1, <3>3, <3>4
  <2>4. \A s \in DOMAIN hist : s >= adv.head_start_ms + BucketMs => hist[s] = 0
    BY <1>1, <1>3, <2>1
  <2>5. Tracks(adv, hist)
    BY <2>3, <2>4 DEF Tracks
  <2> QED BY <1>1, <2>1, <2>5 DEF adv
<1>5. CASE ~(e < BucketCount)
  <2>1. adv.head_start_ms = t /\ adv.buckets = [b \in Buckets |-> 0]
    BY <1>5, AdvanceWipe
  <2> HIDE DEF adv, e
  <2>2. lim.head_start_ms + BucketCount * BucketMs <= t
    <3>1. BucketCount * BucketMs <= e * BucketMs /\ BucketCount * BucketMs \in Nat
      BY <1>1, <1>5, ScaleMono
    <3> QED BY <1>1, <3>1
  <2>3. ASSUME NEW age \in Buckets PROVE adv.buckets[Cell(adv, age)] = Aired(hist, Slot(adv, age))
    <3>1. Cell(adv, age) \in Buckets
      BY <1>2, CellIndex
    <3>2. Start(adv, age) \in Int /\ Start(adv, age) >= lim.head_start_ms + BucketMs
      <4>1. age + 1 <= BucketCount /\ age \in Nat
        BY <1>1 DEF Buckets
      <4>2. (age + 1) * BucketMs <= BucketCount * BucketMs
        BY <1>1, <4>1, ScaleMono
      <4>3. (age + 1) * BucketMs = age * BucketMs + BucketMs /\ age * BucketMs \in Nat
        BY <1>1, <4>1
      <4>4. BucketCount * BucketMs \in Nat
        BY <1>1
      <4> QED BY <1>1, <2>1, <2>2, <4>2, <4>3, <4>4 DEF Start
    <3>3. \A s \in Slot(adv, age) \cap DOMAIN hist : hist[s] = 0
      BY <1>1, <1>3, <3>2 DEF Slot
    <3> QED BY <2>1, <3>1, <3>3, AiredZero
  <2>4. \A s \in DOMAIN hist : s >= adv.head_start_ms + BucketMs => hist[s] = 0
    <3>1. BucketCount * BucketMs \in Nat
      BY <1>1
    <3> QED BY <1>1, <1>3, <2>1, <2>2, <3>1
  <2>5. Tracks(adv, hist)
    BY <2>3, <2>4 DEF Tracks
  <2> QED BY <1>1, <2>1, <2>5 DEF adv
<1> QED BY <1>4, <1>5

(* A granted claim: the limiter and the history afterwards.                *)
Charge(lim, airtime) == [lim EXCEPT !.buckets[lim.head] = @ + airtime]
Extend(hist, t, airtime) == [hist EXCEPT ![t] = @ + airtime]

(* A claim that is granted in the slot of head keeps the ring exact.       *)
LEMMA ChargeTracks ==
  ASSUME NEW lim, LimiterOK(lim), NEW hist, IsHistory(hist), Tracks(lim, hist),
         NEW t \in DOMAIN hist, lim.head_start_ms <= t, t < lim.head_start_ms + BucketMs,
         NEW airtime \in Nat
  PROVE  /\ LimiterOK(Charge(lim, airtime)) /\ IsHistory(Extend(hist, t, airtime))
         /\ Tracks(Charge(lim, airtime), Extend(hist, t, airtime))
         /\ spent_ms(Charge(lim, airtime)) = spent_ms(lim) + airtime
<1> DEFINE lim2 == Charge(lim, airtime)
           hist2 == Extend(hist, t, airtime)
<1>1. /\ lim2.buckets = [lim.buckets EXCEPT ![lim.head] = @ + airtime]
      /\ lim2.head = lim.head /\ lim2.head_start_ms = lim.head_start_ms
      /\ LimiterOK(lim2)
  BY DEF Charge, LimiterOK
<1>2. PICK top \in Nat : hist \in [0 .. top -> Nat]
  BY DEF IsHistory
<1>3. hist2 \in [0 .. top -> Nat] /\ IsHistory(hist2) /\ DOMAIN hist2 = DOMAIN hist
  BY <1>2 DEF Extend, IsHistory
<1>4. hist2[t] = hist[t] + airtime /\ \A s \in DOMAIN hist \ {t} : hist2[s] = hist[s]
  BY <1>2 DEF Extend
<1> HIDE DEF lim2, hist2
<1>5. \A age \in Buckets : Cell(lim2, age) = Cell(lim, age) /\ Slot(lim2, age) = Slot(lim, age)
  BY <1>1 DEF Cell, Slot, Start
<1>6. BucketCount \in Nat \ {0} /\ BucketMs \in Nat \ {0} /\ lim.head_start_ms \in Nat
      /\ lim.head \in Buckets /\ lim.buckets \in [Buckets -> Nat] /\ t \in Nat
  BY <1>2, LimiterAssumption DEF LimiterOK
<1>7. Cell(lim, 0) = lim.head /\ 0 \in Buckets /\ Start(lim, 0) = lim.head_start_ms
  <2>1. 0 \in Buckets /\ 0 <= lim.head
    BY <1>6 DEF Buckets
  <2>2. Cell(lim, 0) = lim.head - 0
    BY <2>1, CellIndex
  <2>3. lim.head \in Nat
    BY <1>6 DEF Buckets
  <2> QED BY <1>6, <2>1, <2>2, <2>3 DEF Start
<1>8. ASSUME NEW age \in Buckets PROVE lim2.buckets[Cell(lim2, age)] = Aired(hist2, Slot(lim2, age))
  <2>1. lim.buckets[Cell(lim, age)] = Aired(hist, Slot(lim, age)) /\ Cell(lim, age) \in Buckets
    BY CellIndex DEF Tracks
  <2> DEFINE S == Slot(lim, age) \cap DOMAIN hist
  <2>2. IsFiniteSet(S) /\ \A s \in S : hist[s] \in Nat
    BY AiredType
  <2>3. CASE age = 0
    <3>1. t \in S
      BY <1>6, <1>7, <2>3 DEF Slot
    <3> HIDE DEF S
    <3>2. \A s \in S \ {t} : hist2[s] = hist[s]
      BY <1>4 DEF S
    <3>3. SumFunctionOnSet(hist2, S) = SumFunctionOnSet(hist, S) + airtime
      BY <1>4, <2>2, <3>1, <3>2, SumCharge
    <3>4. lim2.buckets[Cell(lim, age)] = lim.buckets[Cell(lim, age)] + airtime
      BY <1>1, <1>6, <1>7, <2>3
    <3> QED BY <1>3, <1>5, <2>1, <3>3, <3>4 DEF Aired, S
  <2>4. CASE age # 0
    <3>1. Start(lim, age) \in Int /\ Start(lim, age) + BucketMs <= lim.head_start_ms
      <4>1. age \in Int /\ 0 \in Int /\ 0 < age
        BY <1>6, <2>4 DEF Buckets
      <4> QED BY <1>7, <4>1, SlotOrder
    <3>2. t \notin Slot(lim, age)
      BY <1>6, <3>1 DEF Slot
    <3>3. \A s \in S : hist[s] \in Nat /\ hist[s] = hist2[s]
      BY <1>4, <2>2, <3>2
    <3> HIDE DEF S
    <3>4. SumFunctionOnSet(hist2, S) = SumFunctionOnSet(hist, S)
      BY <2>2, <3>3, SumEqual
    <3>5. Cell(lim, age) # lim.head
      BY <1>7, <2>4, CellsCover
    <3>6. lim2.buckets[Cell(lim, age)] = lim.buckets[Cell(lim, age)]
      BY <1>1, <1>6, <2>1, <3>5
    <3> QED BY <1>3, <1>5, <2>1, <3>4, <3>6 DEF Aired, S
  <2> QED BY <2>3, <2>4
<1>9. \A s \in DOMAIN hist2 : s >= lim2.head_start_ms + BucketMs => hist2[s] = 0
  BY <1>1, <1>2, <1>3, <1>4, <1>6 DEF Tracks
<1>10. spent_ms(lim2) = spent_ms(lim) + airtime
  <2>1. /\ spent_ms(lim) = SumFunctionOnSet(lim.buckets, Buckets)
        /\ spent_ms(lim2) = SumFunctionOnSet(lim2.buckets, Buckets)
    BY <1>1 DEF spent_ms, SumFunction, LimiterOK
  <2>2. \A b \in Buckets : lim.buckets[b] \in Nat
    BY <1>6
  <2>3. /\ lim2.buckets[lim.head] = lim.buckets[lim.head] + airtime
        /\ \A b \in Buckets \ {lim.head} : lim2.buckets[b] = lim.buckets[b]
    BY <1>1, <1>6
  <2>4. SumFunctionOnSet(lim2.buckets, Buckets) = SumFunctionOnSet(lim.buckets, Buckets) + airtime
    BY <1>6, <2>2, <2>3, BucketsFinite, SumCharge
  <2> QED BY <2>1, <2>4
<1> QED BY <1>1, <1>3, <1>8, <1>9, <1>10 DEF Tracks, lim2, hist2

(* A claim that fits the ring's budget fits that of every window of        *)
(* BucketCount - 1 buckets that holds it.                                  *)
LEMMA ChargeWindow ==
  ASSUME NEW lim, LimiterOK(lim), NEW hist, IsHistory(hist), Tracks(lim, hist),
         NEW t \in DOMAIN hist, lim.head_start_ms <= t, t < lim.head_start_ms + BucketMs,
         NEW airtime \in Nat, NEW budget \in Nat, spent_ms(lim) + airtime <= budget,
         NEW from \in Nat, Aired(hist, from .. from + (BucketCount - 1) * BucketMs) <= budget
  PROVE  Aired(Extend(hist, t, airtime), from .. from + (BucketCount - 1) * BucketMs) <= budget
<1> DEFINE lim2 == Charge(lim, airtime)
           hist2 == Extend(hist, t, airtime)
           width == (BucketCount - 1) * BucketMs
           window == from .. from + width
           ring == Start(lim2, BucketCount - 1) .. lim2.head_start_ms + BucketMs - 1
<1>1. /\ LimiterOK(lim2) /\ IsHistory(hist2) /\ Tracks(lim2, hist2)
      /\ spent_ms(lim2) = spent_ms(lim) + airtime
  BY ChargeTracks
<1>2. /\ lim2.head_start_ms = lim.head_start_ms /\ lim.head_start_ms \in Nat
      /\ BucketMs \in Nat /\ width \in Nat
  <2>1. lim2.head_start_ms = lim.head_start_ms /\ lim.head_start_ms \in Nat
    BY DEF Charge, LimiterOK
  <2> DEFINE n == BucketCount - 1
  <2>2. n \in Nat /\ BucketMs \in Nat
    BY LimiterAssumption
  <2> HIDE DEF n
  <2>3. n * BucketMs \in Nat
    BY <2>2
  <2> QED BY <2>1, <2>2, <2>3 DEF n
<1>3. Start(lim2, BucketCount - 1) = lim.head_start_ms - width
  BY <1>2 DEF Start
<1>4. DOMAIN hist2 = DOMAIN hist /\ DOMAIN hist \in SUBSET Nat /\ t \in Nat
      /\ \A s \in DOMAIN hist \ {t} : hist2[s] = hist[s]
  BY DEF Extend, IsHistory
<1> HIDE DEF lim2, hist2, width
<1>5. CASE t \in window
  <2>1. \A s \in window \cap DOMAIN hist2 : s \in ring \/ hist2[s] = 0
    BY <1>1, <1>2, <1>3, <1>4, <1>5 DEF Tracks
  <2>2. Aired(hist2, window) <= Aired(hist2, ring)
    BY <1>1, <2>1, AiredMonotone
  <2>3. spent_ms(lim2) = Aired(hist2, ring)
    BY <1>1, SpentIsAired
  <2>4. Aired(hist2, window) \in Nat /\ Aired(hist2, ring) \in Nat
    BY <1>1, AiredType
  <2> HIDE DEF window, ring
  <2> QED BY <1>1, <2>2, <2>3, <2>4 DEF window, hist2, width
<1>6. CASE t \notin window
  <2> DEFINE S == window \cap DOMAIN hist
  <2>1. IsFiniteSet(S) /\ \A s \in S : hist[s] \in Nat
    BY AiredType
  <2>2. \A s \in S : hist[s] \in Nat /\ hist[s] = hist2[s]
    BY <1>4, <1>6, <2>1
  <2> HIDE DEF S
  <2>3. SumFunctionOnSet(hist2, S) = SumFunctionOnSet(hist, S)
    BY <2>1, <2>2, SumEqual
  <2>4. Aired(hist2, window) = Aired(hist, window)
    BY <1>4, <2>3 DEF Aired, S
  <2> QED BY <2>4 DEF hist2, width
<1> QED BY <1>5, <1>6

(* What a claim counts against the allowance was granted in the hour up to *)
(* now.                                                                    *)
LEMMA SpentRecently ==
  ASSUME NEW lim, LimiterOK(lim), NEW hist, IsHistory(hist), Tracks(lim, hist),
         NEW t \in Nat, lim.head_start_ms <= t, \A s \in DOMAIN hist : s > t => hist[s] = 0
  PROVE  spent_ms(advance(lim, t)) <= Aired(hist, t - BucketCount * BucketMs + 1 .. t)
<1> DEFINE adv == advance(lim, t)
           ring == Start(adv, BucketCount - 1) .. adv.head_start_ms + BucketMs - 1
           hour == t - BucketCount * BucketMs + 1 .. t
<1>1. /\ LimiterOK(adv) /\ Tracks(adv, hist)
      /\ adv.head_start_ms <= t /\ t < adv.head_start_ms + BucketMs
  BY AdvanceType, AdvanceTracks
<1> HIDE DEF adv
<1>2. spent_ms(adv) = Aired(hist, ring)
  BY <1>1, SpentIsAired
<1>3. Start(adv, BucketCount - 1) >= t - BucketCount * BucketMs + 1
      /\ Start(adv, BucketCount - 1) \in Int
  <2>1. BucketCount \in Nat /\ BucketMs \in Nat /\ adv.head_start_ms \in Nat
    BY <1>1, LimiterAssumption DEF LimiterOK
  <2>2. (BucketCount - 1) * BucketMs = BucketCount * BucketMs - BucketMs
        /\ BucketCount * BucketMs \in Nat
    BY <2>1
  <2> QED BY <1>1, <2>1, <2>2 DEF Start
<1>4. \A s \in ring \cap DOMAIN hist : s \in hour \/ hist[s] = 0
  <2>1. DOMAIN hist \in SUBSET Nat /\ BucketCount * BucketMs \in Nat
    BY LimiterAssumption DEF IsHistory
  <2>2. adv.head_start_ms \in Nat /\ BucketMs \in Nat
    BY <1>1, LimiterAssumption DEF LimiterOK
  <2> QED BY <1>1, <1>3, <2>1, <2>2
<1> HIDE DEF ring, hour
<1>5. Aired(hist, ring) <= Aired(hist, hour)
  BY <1>4, AiredMonotone
<1> QED BY <1>2, <1>5 DEF adv, hour

(* Rotation wipes buckets of the ring, after a full turn all of them.      *)
LEMMA WipedCells ==
  ASSUME NEW lim, LimiterOK(lim), NEW e \in 0 .. BucketCount
  PROVE  /\ Wiped(lim, e) \in SUBSET Buckets
         /\ e = 0 => Wiped(lim, e) = {}
         /\ e = BucketCount => Wiped(lim, e) = Buckets
<1>1. BucketCount \in Nat \ {0} /\ lim.head \in 0 .. BucketCount - 1
  BY LimiterAssumption DEF LimiterOK, Buckets
<1>2. \A k \in 1 .. e : (lim.head + k) % BucketCount \in Buckets
  BY <1>1 DEF Buckets
<1>3. ASSUME e = BucketCount, NEW b \in Buckets PROVE b \in Wiped(lim, e)
  <2> DEFINE k == IF b > lim.head THEN b - lim.head ELSE b - lim.head + BucketCount
  <2>1. k \in 1 .. e /\ lim.head + k \in Int
    BY <1>1, <1>3 DEF Buckets
  <2>2. (lim.head + k) % BucketCount = b
    <3>1. CASE b > lim.head
      <4>1. lim.head + k = b /\ b \in 0 .. BucketCount - 1
        BY <1>1, <3>1 DEF Buckets
      <4> QED BY <1>1, <2>1, <4>1, ModSmall
    <3>2. CASE ~(b > lim.head)
      <4>1. lim.head + k = b + BucketCount /\ b + BucketCount \in BucketCount .. 2 * BucketCount - 1
        BY <1>1, <3>2 DEF Buckets
      <4>2. (lim.head + k) % BucketCount = lim.head + k - BucketCount
        BY <1>1, <2>1, <4>1, ModSmall
      <4> QED BY <1>1, <4>1, <4>2 DEF Buckets
    <3> QED BY <3>1, <3>2
  <2> HIDE DEF k
  <2> QED BY <2>1, <2>2 DEF Wiped
<1> QED BY <1>2, <1>3 DEF Wiped

(* The airtime freed by the oldest buckets, none of them, or all of them.  *)
LEMMA FreedIsWiped ==
  ASSUME NEW lim, LimiterOK(lim), NEW e \in 0 .. BucketCount
  PROVE  /\ Freed(lim, e) \in Nat /\ spent_ms(lim) \in Nat
         /\ e = 0 => Freed(lim, e) = 0
         /\ e = BucketCount => Freed(lim, e) = spent_ms(lim)
<1>1. Freed(lim, e) = SumFunctionOnSet(lim.buckets, Wiped(lim, e))
  BY DEF Freed, Wiped
<1>2. spent_ms(lim) = SumFunctionOnSet(lim.buckets, Buckets)
  BY DEF spent_ms, SumFunction, LimiterOK
<1>3. Wiped(lim, e) \in SUBSET Buckets
  BY WipedCells
<1>4. IsFiniteSet(Wiped(lim, e)) /\ \A b \in Wiped(lim, e) : lim.buckets[b] \in Nat
  BY <1>3, BucketsFinite DEF LimiterOK
<1>5. IsFiniteSet(Buckets) /\ \A b \in Buckets : lim.buckets[b] \in Nat
  BY BucketsFinite DEF LimiterOK
<1>6. Freed(lim, e) \in Nat
  BY <1>1, <1>4, SumType
<1>7. spent_ms(lim) \in Nat
  BY <1>2, <1>5, SumType
<1>8. e = 0 => Freed(lim, e) = 0
  BY <1>1, WipedCells, SumEmpty
<1>9. e = BucketCount => Freed(lim, e) = spent_ms(lim)
  BY <1>1, <1>2, WipedCells
<1> QED BY <1>6, <1>7, <1>8, <1>9

(* Rotation takes away exactly the airtime that Freed counts.              *)
LEMMA SpentAdvance ==
  ASSUME NEW lim, LimiterOK(lim), NEW t \in Nat, lim.head_start_ms <= t
  PROVE  spent_ms(advance(lim, t))
           = IF Elapsed(lim, t) < BucketCount
             THEN spent_ms(lim) - Freed(lim, Elapsed(lim, t)) ELSE 0
<1> DEFINE e == Elapsed(lim, t)
           adv == advance(lim, t)
<1>1. LimiterOK(adv) /\ e \in Nat /\ BucketCount \in Nat \ {0}
  BY AdvanceType, ElapsedBounds, LimiterAssumption
<1>2. /\ spent_ms(adv) = SumFunctionOnSet(adv.buckets, Buckets)
      /\ spent_ms(lim) = SumFunctionOnSet(lim.buckets, Buckets)
  BY <1>1 DEF spent_ms, SumFunction, LimiterOK
<1>3. CASE e < BucketCount
  <2> DEFINE Z == Wiped(lim, e)
             K == Buckets \ Z
  <2>1. adv.buckets = [b \in Buckets |-> IF b \in Z THEN 0 ELSE lim.buckets[b]]
    BY <1>3, AdvanceRing
  <2>2. Z \in SUBSET Buckets
    BY <1>1, <1>3, WipedCells
  <2>3. Freed(lim, e) = SumFunctionOnSet(lim.buckets, Z)
    BY DEF Freed, Wiped
  <2> HIDE DEF Z, e, adv
  <2>4. IsFiniteSet(Z) /\ IsFiniteSet(K) /\ K \cap Z = {} /\ K \cup Z = Buckets
    BY <2>2, BucketsFinite
  <2>5. \A b \in K \cup Z : lim.buckets[b] \in Nat /\ adv.buckets[b] \in Nat
    BY <1>1, <2>4 DEF LimiterOK
  <2>6. SumFunctionOnSet(lim.buckets, Buckets)
          = SumFunctionOnSet(lim.buckets, K) + SumFunctionOnSet(lim.buckets, Z)
    BY <2>4, <2>5, SumDisjoint
  <2>7. SumFunctionOnSet(adv.buckets, Buckets)
          = SumFunctionOnSet(adv.buckets, K) + SumFunctionOnSet(adv.buckets, Z)
    BY <2>4, <2>5, SumDisjoint
  <2>8. SumFunctionOnSet(adv.buckets, Z) = 0
    <3>1. \A b \in Z : adv.buckets[b] = 0
      BY <2>1, <2>2
    <3> QED BY <2>4, <3>1, SumZero
  <2>9. SumFunctionOnSet(lim.buckets, K) = SumFunctionOnSet(adv.buckets, K)
    <3>1. \A b \in K : lim.buckets[b] \in Nat /\ lim.buckets[b] = adv.buckets[b]
      BY <2>1, <2>5
    <3> QED BY <2>4, <3>1, SumEqual
  <2>10. SumFunctionOnSet(lim.buckets, K) \in Nat /\ SumFunctionOnSet(lim.buckets, Z) \in Nat
    BY <2>4, <2>5, SumType
  <2> HIDE DEF K
  <2> QED BY <1>2, <1>3, <2>3, <2>6, <2>7, <2>8, <2>9, <2>10 DEF e, adv
<1>4. CASE ~(e < BucketCount)
  <2>1. adv.buckets = [b \in Buckets |-> 0]
    BY <1>4, AdvanceWipe
  <2>2. \A b \in Buckets : adv.buckets[b] = 0
    BY <2>1
  <2>3. SumFunctionOnSet(adv.buckets, Buckets) = 0
    BY <2>2, BucketsFinite, SumZero
  <2> QED BY <1>2, <1>4, <2>3
<1> QED BY <1>3, <1>4

(* The walk over the oldest buckets ends at the least number of them that  *)
(* lets the airtime in.                                                    *)
LEMMA ExpiredLeast ==
  ASSUME NEW lim, LimiterOK(lim), NEW airtime \in Nat, airtime <= lim.allowance_ms
  PROVE  LET Fits(e) == spent_ms(lim) - Freed(lim, e) + airtime <= lim.allowance_ms
             needed == ExpiredNeeded(lim, airtime)
         IN  needed \in 1 .. BucketCount /\ Fits(needed) /\ \A d \in 1 .. needed - 1 : ~Fits(d)
<1> DEFINE Fits(e) == spent_ms(lim) - Freed(lim, e) + airtime <= lim.allowance_ms
           Good == {e \in 1 .. BucketCount : Fits(e)}
<1>1. BucketCount \in Nat \ {0} /\ lim.allowance_ms \in Int
  BY LimiterAssumption DEF LimiterOK, None
<1>2. \A e \in 1 .. BucketCount : Freed(lim, e) \in Nat /\ spent_ms(lim) \in Nat
  BY <1>1, FreedIsWiped
<1>3. Fits(BucketCount)
  <2>1. BucketCount \in 0 .. BucketCount
    BY <1>1
  <2>2. Freed(lim, BucketCount) = spent_ms(lim) /\ spent_ms(lim) \in Nat
    BY <2>1, FreedIsWiped
  <2> QED BY <1>1, <2>2
<1>4. Good \in SUBSET Nat /\ Good # {}
  BY <1>1, <1>3
<1>5. PICK e \in Good : \A d \in Good : e <= d
  BY <1>4, LeastNatural
<1>6. \A d \in 1 .. e - 1 : ~Fits(d)
  <2> HIDE DEF Fits
  <2> QED BY <1>1, <1>4, <1>5
<1>7. \E x \in 1 .. BucketCount :
        /\ spent_ms(lim) - Freed(lim, x) + airtime <= lim.allowance_ms
        /\ \A d \in 1 .. x - 1 : spent_ms(lim) - Freed(lim, d) + airtime > lim.allowance_ms
  <2>1. \A d \in 1 .. e - 1 : spent_ms(lim) - Freed(lim, d) + airtime > lim.allowance_ms
    BY <1>1, <1>2, <1>6
  <2> QED BY <1>5, <2>1
<1> DEFINE needed == ExpiredNeeded(lim, airtime)
<1>8. /\ needed \in 1 .. BucketCount
      /\ spent_ms(lim) - Freed(lim, needed) + airtime <= lim.allowance_ms
      /\ \A d \in 1 .. needed - 1 : spent_ms(lim) - Freed(lim, d) + airtime > lim.allowance_ms
  BY <1>7 DEF ExpiredNeeded
<1> HIDE DEF needed
<1>9. \A d \in 1 .. needed - 1 : ~Fits(d)
  BY <1>1, <1>2, <1>8
<1> QED BY <1>8, <1>9 DEF needed

(* A limiter without a limit grants everything.                            *)
LEMMA ClaimUnlimited ==
  ASSUME NEW lim, NEW t, NEW airtime, lim.allowance_ms = None
  PROVE  try_claim(lim, t, airtime) = Answer(TRUE, None, lim)
  BY DEF try_claim

(* The three answers of try_claim under a limit.                           *)
LEMMA ClaimCases ==
  ASSUME NEW lim, LimiterOK(lim), lim.allowance_ms # None, NEW t \in Nat, NEW airtime \in Nat
  PROVE  LET answer == try_claim(lim, t, airtime)
             adv == advance(lim, t)
         IN  \/ /\ airtime > lim.allowance_ms
                /\ answer.ok = FALSE /\ answer.retry_after_ms = None /\ answer.lim = lim
             \/ /\ airtime <= lim.allowance_ms
                /\ spent_ms(adv) + airtime <= lim.allowance_ms
                /\ answer.ok = TRUE /\ answer.lim = Charge(adv, airtime)
             \/ /\ airtime <= lim.allowance_ms
                /\ ~(spent_ms(adv) + airtime <= lim.allowance_ms)
                /\ answer.ok = FALSE /\ answer.lim = adv
                /\ answer.retry_after_ms
                     = saturating_sub(adv.head_start_ms + ExpiredNeeded(adv, airtime) * BucketMs, t)
<1>1. advance(lim, t).allowance_ms = lim.allowance_ms /\ lim.allowance_ms \in Nat
  BY AdvanceType DEF LimiterOK
<1>2. CASE airtime > lim.allowance_ms
  BY <1>1, <1>2 DEF try_claim, Answer
<1>3. CASE ~(airtime > lim.allowance_ms)
  BY <1>1, <1>3 DEF try_claim, Answer, Charge
<1> QED BY <1>2, <1>3

(* The hint of a refusal is exact: the claim is granted after that wait and *)
(* at no instant before.                                                   *)
LEMMA RetryExact ==
  ASSUME NEW lim, LimiterOK(lim), lim.allowance_ms # None, NEW t \in Nat, NEW airtime \in Nat,
         lim.head_start_ms <= t, t < lim.head_start_ms + BucketMs,
         airtime <= lim.allowance_ms, ~(spent_ms(lim) + airtime <= lim.allowance_ms)
  PROVE  LET retry == saturating_sub(lim.head_start_ms + ExpiredNeeded(lim, airtime) * BucketMs, t)
         IN  /\ retry \in Nat
             /\ try_claim(lim, t + retry, airtime).ok
             /\ \A wait \in 0 .. retry - 1 : ~try_claim(lim, t + wait, airtime).ok
<1> DEFINE e == ExpiredNeeded(lim, airtime)
           Fits(d) == spent_ms(lim) - Freed(lim, d) + airtime <= lim.allowance_ms
           retry == saturating_sub(lim.head_start_ms + e * BucketMs, t)
<1>1. e \in 1 .. BucketCount /\ Fits(e) /\ \A d \in 1 .. e - 1 : ~Fits(d)
  BY ExpiredLeast
<1>2. /\ BucketCount \in Nat \ {0} /\ BucketMs \in Nat \ {0}
      /\ lim.head_start_ms \in Nat /\ lim.allowance_ms \in Nat
  BY LimiterAssumption DEF LimiterOK
<1> HIDE DEF e
<1>3. e * BucketMs \in Nat /\ BucketMs <= e * BucketMs
  <2>1. 1 * BucketMs <= e * BucketMs
    BY <1>1, <1>2, ScaleMono
  <2> QED BY <1>1, <1>2, <2>1
<1>4. retry \in Nat /\ retry > 0 /\ t + retry = lim.head_start_ms + e * BucketMs
  BY <1>2, <1>3 DEF saturating_sub
<1> HIDE DEF retry
<1>5. ASSUME NEW wait \in Nat
      PROVE  try_claim(lim, t + wait, airtime).ok
               <=> IF Elapsed(lim, t + wait) < BucketCount
                   THEN Fits(Elapsed(lim, t + wait)) ELSE TRUE
  <2> DEFINE u == t + wait
  <2>1. u \in Nat /\ lim.head_start_ms <= u
    BY <1>2
  <2> HIDE DEF u
  <2>2. try_claim(lim, u, airtime).ok <=> spent_ms(advance(lim, u)) + airtime <= lim.allowance_ms
    <3> DEFINE ok == try_claim(lim, u, airtime).ok
    <3>1. \/ airtime > lim.allowance_ms
          \/ spent_ms(advance(lim, u)) + airtime <= lim.allowance_ms /\ ok = TRUE
          \/ ~(spent_ms(advance(lim, u)) + airtime <= lim.allowance_ms) /\ ok = FALSE
      BY <2>1, ClaimCases
    <3> HIDE DEF ok
    <3> QED BY <1>2, <3>1 DEF ok
  <2>3. spent_ms(advance(lim, u)) = IF Elapsed(lim, u) < BucketCount
          THEN spent_ms(lim) - Freed(lim, Elapsed(lim, u)) ELSE 0
    BY <2>1, SpentAdvance
  <2> QED BY <2>2, <2>3, <1>2 DEF u
<1>6. ASSUME NEW wait \in Nat
      PROVE  /\ Elapsed(lim, t + wait) \in Nat
             /\ wait < retry => Elapsed(lim, t + wait) < e
             /\ wait = retry => Elapsed(lim, t + wait) = e
  <2> DEFINE u == t + wait
             n == Elapsed(lim, u)
  <2>1. u \in Nat /\ lim.head_start_ms <= u
    BY <1>2
  <2>2. /\ n \in Nat /\ n * BucketMs \in Nat
        /\ lim.head_start_ms + n * BucketMs <= u /\ u < lim.head_start_ms + n * BucketMs + BucketMs
    BY <2>1, ElapsedBounds
  <2> HIDE DEF n
  <2>3. ASSUME wait < retry, n >= e PROVE FALSE
    <3>1. e * BucketMs <= n * BucketMs
      BY <1>1, <1>2, <2>2, <2>3, ScaleMono
    <3> QED BY <1>2, <1>3, <1>4, <2>2, <2>3, <3>1
  <2>4. ASSUME wait = retry, n > e PROVE FALSE
    <3>1. (e + 1) * BucketMs <= n * BucketMs /\ (e + 1) * BucketMs = e * BucketMs + BucketMs
      BY <1>1, <1>2, <2>2, <2>4, ScaleMono
    <3> QED BY <1>2, <1>3, <1>4, <2>2, <2>4, <3>1
  <2>5. ASSUME wait = retry, n < e PROVE FALSE
    <3>1. (n + 1) * BucketMs <= e * BucketMs /\ (n + 1) * BucketMs = n * BucketMs + BucketMs
      BY <1>1, <1>2, <2>2, <2>5, ScaleMono
    <3> QED BY <1>2, <1>3, <1>4, <2>2, <2>5, <3>1
  <2> QED BY <1>1, <2>2, <2>3, <2>4, <2>5 DEF n
<1>7. try_claim(lim, t + retry, airtime).ok
  <2>1. Elapsed(lim, t + retry) = e
    BY <1>4, <1>6
  <2> HIDE DEF Fits
  <2> QED BY <1>1, <1>4, <1>5, <2>1
<1>8. ASSUME NEW wait \in 0 .. retry - 1 PROVE ~try_claim(lim, t + wait, airtime).ok
  <2> DEFINE n == Elapsed(lim, t + wait)
  <2>1. n \in Nat /\ n < e /\ wait \in Nat
    BY <1>4, <1>6
  <2> HIDE DEF n
  <2>2. n < BucketCount
    BY <1>1, <1>2, <2>1
  <2>3. ~Fits(n)
    <3>1. CASE n = 0
      <4>1. 0 \in 0 .. BucketCount
        BY <1>2
      <4>2. Freed(lim, 0) = 0 /\ spent_ms(lim) \in Nat
        BY <4>1, FreedIsWiped
      <4> QED BY <3>1, <4>2
    <3>2. CASE n # 0
      <4>1. n \in 1 .. e - 1
        BY <1>1, <1>2, <2>1, <3>2
      <4> HIDE DEF Fits
      <4> QED BY <1>1, <4>1
    <3> QED BY <3>1, <3>2
  <2> HIDE DEF Fits
  <2> QED BY <1>5, <2>1, <2>2, <2>3 DEF n
<1> QED BY <1>4, <1>7, <1>8 DEF retry, e

-----------------------------------------------------------------------------
(* The life of a limiter under a limit.                                    *)

(* Every window of BucketCount - 1 buckets keeps to a budget.              *)
InBudget(hist, budget) ==
  \A from \in Nat : Aired(hist, from .. from + (BucketCount - 1) * BucketMs) <= budget

(* At time t the limiter has a limit and tracks the history, which ends at *)
(* t and keeps to the limit.                                               *)
Sound(lim, hist, t) ==
  /\ LimiterOK(lim) /\ lim.allowance_ms \in Nat /\ IsHistory(hist)
  /\ lim.head_start_ms <= t /\ Tracks(lim, hist)
  /\ \A s \in DOMAIN hist : s > t => hist[s] = 0
  /\ InBudget(hist, lim.allowance_ms)

(* A limiter may be made at any time, as long as nothing has been granted. *)
LEMMA NewSound ==
  ASSUME NEW lim, LimiterOK(lim), lim.allowance_ms \in Nat, NEW hist, IsHistory(hist),
         NEW t \in Nat, \A s \in DOMAIN hist : hist[s] = 0,
         lim.buckets = [b \in Buckets |-> 0], lim.head_start_ms = 0
  PROVE  Sound(lim, hist, t)
<1>1. \A times : Aired(hist, times) = 0
  BY AiredZero
<1>2. Tracks(lim, hist)
  <2>1. \A age \in Buckets : Cell(lim, age) \in Buckets
    BY CellIndex
  <2> QED BY <1>1, <2>1 DEF Tracks
<1>3. InBudget(hist, lim.allowance_ms)
  BY <1>1 DEF InBudget
<1> QED BY <1>2, <1>3 DEF Sound

(* Time that passes changes nothing.                                       *)
LEMMA TickSound ==
  ASSUME NEW lim, NEW hist, NEW t \in Nat, Sound(lim, hist, t), NEW u \in Nat, t <= u
  PROVE  Sound(lim, hist, u)
<1>1. lim.head_start_ms \in Nat /\ DOMAIN hist \in SUBSET Nat
  BY DEF Sound, LimiterOK, IsHistory
<1> QED BY <1>1 DEF Sound

(* A claim, granted or refused, leaves a sound limiter with the same limit. *)
LEMMA ClaimSound ==
  ASSUME NEW lim, NEW hist, NEW t \in DOMAIN hist, Sound(lim, hist, t), NEW airtime \in Nat
  PROVE  LET answer == try_claim(lim, t, airtime)
         IN  /\ answer.ok \in BOOLEAN
             /\ answer.lim.allowance_ms = lim.allowance_ms
             /\ answer.ok => Sound(answer.lim, Extend(hist, t, airtime), t)
             /\ ~answer.ok => Sound(answer.lim, hist, t)
<1> DEFINE answer == try_claim(lim, t, airtime)
           adv == advance(lim, t)
<1>1. /\ LimiterOK(lim) /\ lim.allowance_ms \in Nat /\ IsHistory(hist) /\ t \in Nat
      /\ lim.allowance_ms # None
  BY DEF Sound, IsHistory, None
<1>2. /\ answer.ok \in BOOLEAN /\ LimiterOK(answer.lim)
      /\ answer.lim.allowance_ms = lim.allowance_ms
  BY <1>1, ClaimType
<1>3. /\ LimiterOK(adv) /\ adv.allowance_ms = lim.allowance_ms /\ Tracks(adv, hist)
      /\ adv.head_start_ms <= t /\ t < adv.head_start_ms + BucketMs
  BY <1>1, AdvanceType, AdvanceTracks DEF Sound
<1>4. \/ answer.ok = FALSE /\ answer.lim \in {lim, adv}
      \/ /\ answer.ok = TRUE /\ answer.lim = Charge(adv, airtime)
         /\ spent_ms(adv) + airtime <= lim.allowance_ms
  <2>1. \/ /\ airtime > lim.allowance_ms
           /\ answer.ok = FALSE /\ answer.retry_after_ms = None /\ answer.lim = lim
        \/ /\ airtime <= lim.allowance_ms
           /\ spent_ms(adv) + airtime <= lim.allowance_ms
           /\ answer.ok = TRUE /\ answer.lim = Charge(adv, airtime)
        \/ /\ airtime <= lim.allowance_ms
           /\ ~(spent_ms(adv) + airtime <= lim.allowance_ms)
           /\ answer.ok = FALSE /\ answer.lim = adv
    <3>1. \/ /\ airtime > lim.allowance_ms
             /\ answer.ok = FALSE /\ answer.retry_after_ms = None /\ answer.lim = lim
          \/ /\ airtime <= lim.allowance_ms
             /\ spent_ms(adv) + airtime <= lim.allowance_ms
             /\ answer.ok = TRUE /\ answer.lim = Charge(adv, airtime)
          \/ /\ airtime <= lim.allowance_ms
             /\ ~(spent_ms(adv) + airtime <= lim.allowance_ms)
             /\ answer.ok = FALSE /\ answer.lim = adv
             /\ answer.retry_after_ms
                  = saturating_sub(adv.head_start_ms + ExpiredNeeded(adv, airtime) * BucketMs, t)
      BY <1>1, ClaimCases, Zenon
    <3> HIDE DEF answer, adv
    <3> QED BY <3>1, Zenon
  <2> HIDE DEF answer, adv
  <2>2. CASE answer.ok = FALSE /\ answer.lim = lim
    BY <2>2
  <2>3. CASE answer.ok = FALSE /\ answer.lim = adv
    BY <2>3
  <2>4. CASE /\ answer.ok = TRUE /\ answer.lim = Charge(adv, airtime)
             /\ spent_ms(adv) + airtime <= lim.allowance_ms
    BY <2>4, Zenon
  <2> QED BY <2>1, <2>2, <2>3, <2>4, Zenon
<1>5. CASE answer.ok = FALSE /\ answer.lim \in {lim, adv}
  BY <1>2, <1>3, <1>5 DEF Sound
<1>6. CASE /\ answer.ok = TRUE /\ answer.lim = Charge(adv, airtime)
           /\ spent_ms(adv) + airtime <= lim.allowance_ms
  <2> DEFINE hist2 == Extend(hist, t, airtime)
  <2>1. Tracks(answer.lim, hist2) /\ IsHistory(hist2)
    BY <1>1, <1>3, <1>6, ChargeTracks
  <2>2. answer.lim.head_start_ms <= t
    BY <1>3, <1>6 DEF Charge
  <2>3. \A s \in DOMAIN hist2 : s > t => hist2[s] = 0
    BY <1>1 DEF Extend, Sound
  <2>4. InBudget(hist2, lim.allowance_ms)
    BY <1>1, <1>3, <1>6, ChargeWindow DEF Sound, InBudget
  <2> QED BY <1>1, <1>2, <1>6, <2>1, <2>2, <2>3, <2>4 DEF Sound
<1> QED BY <1>2, <1>4, <1>5, <1>6

(* What a sound limiter refuses does not fit in the hour up to now.        *)
LEMMA RefusalSound ==
  ASSUME NEW lim, NEW hist, NEW t \in Nat, Sound(lim, hist, t), NEW airtime \in Nat,
         ~try_claim(lim, t, airtime).ok
  PROVE  Aired(hist, t - BucketCount * BucketMs + 1 .. t) + airtime > lim.allowance_ms
<1> DEFINE hour == t - BucketCount * BucketMs + 1 .. t
           adv == advance(lim, t)
<1>1. /\ LimiterOK(lim) /\ lim.allowance_ms \in Nat /\ IsHistory(hist)
      /\ lim.allowance_ms # None
  BY DEF Sound, None
<1>2. \/ airtime > lim.allowance_ms
      \/ ~(spent_ms(adv) + airtime <= lim.allowance_ms)
  BY <1>1, ClaimCases
<1>3. spent_ms(adv) <= Aired(hist, hour)
  BY <1>1, SpentRecently DEF Sound
<1>4. Aired(hist, hour) \in Nat
  BY <1>1, AiredType
<1>5. spent_ms(adv) \in Nat
  <2>1. LimiterOK(adv) /\ 0 \in 0 .. BucketCount
    BY <1>1, AdvanceType, LimiterAssumption
  <2> QED BY <2>1, FreedIsWiped
<1> HIDE DEF hour, adv
<1>6. Aired(hist, hour) + airtime > lim.allowance_ms
  BY <1>1, <1>2, <1>3, <1>4, <1>5
<1> QED BY <1>6 DEF hour

(* The hint of a sound limiter is exact.                                   *)
LEMMA HintSound ==
  ASSUME NEW lim, NEW hist, NEW t \in Nat, Sound(lim, hist, t), NEW airtime \in Nat,
         ~try_claim(lim, t, airtime).ok
  PROVE  LET answer == try_claim(lim, t, airtime)
             later(wait) == try_claim(answer.lim, t + wait, airtime).ok
         IN  IF answer.retry_after_ms = None THEN airtime > lim.allowance_ms
             ELSE /\ later(answer.retry_after_ms)
                  /\ \A wait \in 0 .. answer.retry_after_ms - 1 : ~later(wait)
<1> DEFINE answer == try_claim(lim, t, airtime)
           adv == advance(lim, t)
           retry == saturating_sub(adv.head_start_ms
                                     + ExpiredNeeded(adv, airtime) * BucketMs, t)
<1>1. LimiterOK(lim) /\ lim.allowance_ms # None /\ IsHistory(hist)
  BY DEF Sound, None
<1>2. \/ airtime > lim.allowance_ms /\ answer.retry_after_ms = None
      \/ /\ airtime <= lim.allowance_ms
         /\ ~(spent_ms(adv) + airtime <= lim.allowance_ms)
         /\ answer.lim = adv /\ answer.retry_after_ms = retry
  BY <1>1, ClaimCases
<1>3. CASE airtime > lim.allowance_ms /\ answer.retry_after_ms = None
  BY <1>3
<1>4. CASE /\ airtime <= lim.allowance_ms
           /\ ~(spent_ms(adv) + airtime <= lim.allowance_ms)
           /\ answer.lim = adv /\ answer.retry_after_ms = retry
  <2>1. /\ LimiterOK(adv) /\ adv.allowance_ms = lim.allowance_ms
        /\ adv.head_start_ms <= t /\ t < adv.head_start_ms + BucketMs
    BY <1>1, AdvanceType, AdvanceTracks DEF Sound
  <2> HIDE DEF adv
  <2>2. /\ retry \in Nat
        /\ try_claim(adv, t + retry, airtime).ok
        /\ \A wait \in 0 .. retry - 1 : ~try_claim(adv, t + wait, airtime).ok
    BY <1>1, <1>4, <2>1, RetryExact
  <2> HIDE DEF retry, answer
  <2>3. retry # None
    BY <2>2 DEF None
  <2> QED BY <1>4, <2>2, <2>3 DEF answer
<1> QED BY <1>2, <1>3, <1>4

-----------------------------------------------------------------------------
(* Frequencies with the same key have the same limit.                      *)
LEMMA BandTables ==
  ASSUME NEW f \in Nat, NEW g \in Nat, eu_band_key(f) = eu_band_key(g)
  PROVE  eu_duty_cycle_permille(f) = eu_duty_cycle_permille(g)
<1> DEFINE Limit(key) == CASE key = 1 -> 100 [] key = 2 -> 10 [] key = 3 -> 1
                           [] key = 4 -> 100 [] key = 5 -> 10 [] key = 6 -> 1
                           [] OTHER -> None
<1>1. ASSUME NEW x \in Nat
      PROVE  eu_duty_cycle_permille(x) = Limit(eu_band_key(x)) /\ eu_band_key(x) \in 0 .. 6
  BY DEF eu_duty_cycle_permille, eu_band_key, In, None
<1> HIDE DEF Limit
<1> QED BY <1>1

(* The limiter of a frequency: empty, and with the allowance of the table. *)
LEMMA NewLimiter ==
  ASSUME NEW f \in Nat
  PROVE  /\ LimiterOK(for_frequency(f))
         /\ for_frequency(f).buckets = [b \in Buckets |-> 0]
         /\ for_frequency(f).head_start_ms = 0
         /\ In(f, 863000000, 870000000) => for_frequency(f).allowance_ms \in Nat
<1>1. /\ eu_duty_cycle_permille(f) \in Nat \cup {None}
      /\ In(f, 863000000, 870000000) => eu_duty_cycle_permille(f) \in Nat
  BY SMT DEF eu_duty_cycle_permille, In, None
<1>2. eu_duty_cycle_permille(f) # None => eu_duty_cycle_permille(f) * PermilleMs \in Nat
  BY <1>1, LimiterAssumption
<1> QED BY <1>1, <1>2, LimiterAssumption, SMT DEF LimiterOK, for_frequency, Buckets, None

-----------------------------------------------------------------------------
(* DutyCycle, for every ring, allowance and set of airtimes: the inductive *)
(* invariant says that a limiter with a limit is Sound, that is, its ring  *)
(* tracks the history and every window keeps to the budget.  What          *)
(* try_claim decides follows from that.                                    *)

(* The limiter stays well formed whatever the claims and their times: head *)
(* never leaves the ring and no bucket becomes negative, so the indexing   *)
(* and the unsigned subtractions of try_claim cannot fail.                 *)
THEOREM DutyTypeCorrect == LimiterSpec => []LimiterTypeOK
<1>1. LimiterInit => LimiterTypeOK
  <2> SUFFICES ASSUME LimiterInit PROVE LimiterTypeOK
    OBVIOUS
  <2>1. freq \in Freqs /\ limiter = for_frequency(freq)
    BY DEF LimiterInit
  <2>2. eu_duty_cycle_permille(freq) \in Nat \cup {None}
    BY <2>1, DutyCycleAssumption DEF eu_duty_cycle_permille, In
  <2>3. eu_duty_cycle_permille(freq) # None =>
          eu_duty_cycle_permille(freq) * PermilleMs \in Nat
    BY <2>2, LimiterAssumption
  <2>4. LimiterOK(limiter)
    BY <2>1, <2>2, <2>3, LimiterAssumption DEF LimiterOK, for_frequency, Buckets
  <2> QED BY <2>1, <2>4, DutyCycleAssumption DEF LimiterInit, LimiterTypeOK
<1>2. LimiterTypeOK /\ [LimiterNext]_limiterVars => LimiterTypeOK'
  <2> SUFFICES ASSUME LimiterTypeOK, [LimiterNext]_limiterVars PROVE LimiterTypeOK'
    OBVIOUS
  <2>1. CASE LimiterTick
    BY <2>1, DutyCycleAssumption DEF LimiterTick, LimiterTypeOK, LimiterOK
  <2>2. ASSUME NEW airtime \in Airtimes, ClaimAirtime(airtime)
        PROVE  LimiterTypeOK'
    <3>1. airtime \in Nat /\ now \in Nat
      BY DutyCycleAssumption DEF LimiterTypeOK
    <3>2. LimiterOK(try_claim(limiter, now, airtime).lim)
      BY <3>1, ClaimType DEF LimiterTypeOK
    <3>3. LimiterOK(limiter')
      BY <2>2, <3>2 DEF ClaimAirtime
    <3>4. freq' = freq /\ now' = now /\ onAir' \in [0 .. MaxTime -> Nat]
      BY <2>2, <3>1 DEF ClaimAirtime, LimiterTypeOK
    <3> QED BY <3>3, <3>4 DEF LimiterTypeOK
  <2>3. CASE UNCHANGED limiterVars
    BY <2>3 DEF limiterVars, LimiterTypeOK, LimiterOK
  <2> QED BY <2>1, <2>2, <2>3 DEF LimiterNext
<1> QED BY <1>1, <1>2, PTL DEF LimiterSpec

(* The tables of sub-bands and of limits agree on every frequency, and the *)
(* limiter keeps the allowance of its sub-band for ever.                   *)
THEOREM Limiter_Fits_Band == LimiterSpec => []LimiterFitsBand
<1> DEFINE Kept == limiter.allowance_ms = for_frequency(freq).allowance_ms
<1>1. LimiterInit => Kept
  BY DEF LimiterInit
<1>2. LimiterTypeOK /\ Kept /\ [LimiterNext]_limiterVars => Kept'
  <2> SUFFICES ASSUME LimiterTypeOK, Kept, [LimiterNext]_limiterVars PROVE Kept'
    OBVIOUS
  <2>1. CASE LimiterTick \/ UNCHANGED limiterVars
    BY <2>1 DEF LimiterTick, limiterVars
  <2>2. ASSUME NEW airtime \in Airtimes, ClaimAirtime(airtime) PROVE Kept'
    <3>1. airtime \in Nat /\ now \in Nat
      BY DutyCycleAssumption DEF LimiterTypeOK
    <3>2. try_claim(limiter, now, airtime).lim.allowance_ms = limiter.allowance_ms
      BY <3>1, ClaimType DEF LimiterTypeOK
    <3> QED BY <2>2, <3>2 DEF ClaimAirtime
  <2> QED BY <2>1, <2>2 DEF LimiterNext
<1>3. LimiterTypeOK /\ Kept => LimiterFitsBand
  <2> SUFFICES ASSUME LimiterTypeOK, Kept, NEW g \in TableFreqs, eu_band_key(g) = eu_band_key(freq)
               PROVE  for_frequency(g).allowance_ms = limiter.allowance_ms
    BY DEF LimiterFitsBand
  <2>1. g \in Nat /\ freq \in Nat
    BY DutyCycleAssumption DEF LimiterTypeOK
  <2>2. eu_duty_cycle_permille(g) = eu_duty_cycle_permille(freq)
    BY <2>1, BandTables
  <2> QED BY <2>2 DEF for_frequency
<1> HIDE DEF Kept
<1> QED BY <1>1, <1>2, <1>3, DutyTypeCorrect, PTL DEF LimiterSpec

-----------------------------------------------------------------------------
(* Under a limit, the limiter is sound.                                    *)
DutyInv == LimiterTypeOK /\ (Limited => Sound(limiter, onAir, now))

(* Granted is the airtime of the history.                                  *)
LEMMA GrantedAired ==
  ASSUME LimiterTypeOK
  PROVE  IsHistory(onAir) /\ \A times : Granted(times) = Aired(onAir, times)
<1>1. DOMAIN onAir = 0 .. MaxTime /\ IsHistory(onAir)
  BY DutyCycleAssumption DEF LimiterTypeOK, IsHistory
<1> QED BY <1>1 DEF Granted, Aired

(* The invariant holds in every state.                                     *)
LEMMA DutyInvariant == LimiterSpec => []DutyInv
<1>1. LimiterTypeOK /\ LimiterInit => DutyInv
  <2> SUFFICES ASSUME LimiterTypeOK, LimiterInit, Limited PROVE Sound(limiter, onAir, now)
    BY DEF DutyInv
  <2>1. \A t \in DOMAIN onAir : onAir[t] = 0
    BY DEF LimiterInit
  <2>2. limiter.buckets = [b \in Buckets |-> 0] /\ limiter.head_start_ms = 0 /\ now \in Nat
    BY DEF LimiterInit, for_frequency
  <2>3. LimiterOK(limiter) /\ limiter.allowance_ms \in Nat /\ IsHistory(onAir)
    BY GrantedAired DEF LimiterTypeOK, LimiterOK, Limited
  <2> QED BY <2>1, <2>2, <2>3, NewSound
<1>2. DutyInv /\ LimiterTypeOK' /\ [LimiterNext]_limiterVars => DutyInv'
  <2> SUFFICES ASSUME DutyInv, LimiterTypeOK', [LimiterNext]_limiterVars PROVE DutyInv'
    OBVIOUS
  <2>1. CASE LimiterTick \/ UNCHANGED limiterVars
    <3>1. UNCHANGED <<limiter, onAir>> /\ now' \in Nat /\ now \in Nat /\ now <= now'
      BY <2>1, DutyCycleAssumption DEF LimiterTick, limiterVars, DutyInv, LimiterTypeOK
    <3>2. Limited => Sound(limiter, onAir, now')
      BY <3>1, TickSound DEF DutyInv
    <3> QED BY <3>1, <3>2 DEF DutyInv, Limited
  <2>2. ASSUME NEW airtime \in Airtimes, ClaimAirtime(airtime) PROVE DutyInv'
    <3> DEFINE answer == try_claim(limiter, now, airtime)
    <3>1. /\ limiter' = answer.lim /\ now' = now
          /\ onAir' = IF answer.ok /\ limiter.allowance_ms # None
                      THEN Extend(onAir, now, airtime) ELSE onAir
      BY <2>2 DEF ClaimAirtime, Extend
    <3>2. airtime \in Nat /\ now \in Nat /\ now \in DOMAIN onAir /\ LimiterOK(limiter)
      BY DutyCycleAssumption DEF DutyInv, LimiterTypeOK
    <3>3. answer.lim.allowance_ms = limiter.allowance_ms
      BY <3>2, ClaimType
    <3>4. CASE Limited
      <4>1. /\ answer.ok \in BOOLEAN
            /\ answer.ok => Sound(answer.lim, Extend(onAir, now, airtime), now)
            /\ ~answer.ok => Sound(answer.lim, onAir, now)
        BY <3>2, <3>4, ClaimSound DEF DutyInv
      <4> HIDE DEF answer
      <4>2. Sound(limiter', onAir', now')
        BY <3>1, <3>4, <4>1 DEF Limited
      <4> QED BY <4>2 DEF DutyInv
    <3>5. CASE ~Limited
      BY <3>1, <3>3, <3>5 DEF DutyInv, Limited
    <3> QED BY <3>4, <3>5
  <2> QED BY <2>1, <2>2 DEF LimiterNext
<1> QED BY <1>1, <1>2, DutyTypeCorrect, PTL DEF LimiterSpec

(* The airtime granted in any BucketCount - 1 buckets' worth of time stays *)
(* inside the allowance of the sub-band, whatever the claims and whenever  *)
(* they come: what handle_lora_tx puts on the air keeps to the duty cycle. *)
THEOREM Window_Budget == LimiterSpec => []WindowBudget
<1>1. DutyInv => WindowBudget
  <2> SUFFICES ASSUME DutyInv, Limited, NEW t \in 0 .. MaxTime
               PROVE  Granted(t .. t + (BucketCount - 1) * BucketMs) <= limiter.allowance_ms
    BY DEF WindowBudget
  <2>1. t \in Nat /\ LimiterTypeOK
    BY DutyCycleAssumption DEF DutyInv
  <2> QED BY <2>1, GrantedAired DEF DutyInv, Sound, InBudget
<1> QED BY <1>1, DutyInvariant, PTL

(* The ring is exact, and what try_claim refuses would not have fitted in  *)
(* the hour up to now.                                                     *)
THEOREM Limiter_Correct == LimiterSpec => []LimiterInv
<1>1. DutyInv => LimiterInv
  <2> SUFFICES ASSUME DutyInv PROVE LimiterInv
    OBVIOUS
  <2>1. LimiterTypeOK /\ now \in Nat /\ \A times : Granted(times) = Aired(onAir, times)
    BY GrantedAired, DutyCycleAssumption DEF DutyInv, LimiterTypeOK
  <2>2. BucketsMatchHistory
    BY <2>1 DEF DutyInv, Sound, BucketsMatchHistory, Tracks, Cell, Slot, Start
  <2>3. ASSUME NEW airtime \in Airtimes, ~try_claim(limiter, now, airtime).ok
        PROVE  Granted(now - BucketCount * BucketMs + 1 .. now) + airtime > limiter.allowance_ms
    <3>1. airtime \in Nat
      BY DutyCycleAssumption
    <3>2. Limited
      BY <2>3, ClaimUnlimited DEF Answer, Limited
    <3> QED BY <2>1, <2>3, <3>1, <3>2, RefusalSound DEF DutyInv
  <2> QED BY <2>1, <2>2, <2>3 DEF LimiterInv, RefusalJustified
<1> QED BY <1>1, DutyInvariant, PTL

(* The retry hint that a refused transmission is answered with is exact.   *)
THEOREM Retry_Hint_Exact == LimiterSpec => []RetryHintExact
<1>1. DutyInv => RetryHintExact
  <2> SUFFICES ASSUME DutyInv, NEW airtime \in Airtimes, ~try_claim(limiter, now, airtime).ok
               PROVE  LET answer == try_claim(limiter, now, airtime)
                          later(wait) == try_claim(answer.lim, now + wait, airtime).ok
                      IN  IF answer.retry_after_ms = None THEN airtime > limiter.allowance_ms
                          ELSE /\ later(answer.retry_after_ms)
                               /\ \A wait \in 0 .. answer.retry_after_ms - 1 : ~later(wait)
    BY DEF RetryHintExact
  <2>1. airtime \in Nat /\ now \in Nat
    BY DutyCycleAssumption DEF DutyInv, LimiterTypeOK
  <2>2. Limited
    BY ClaimUnlimited DEF Answer, Limited
  <2> QED BY <2>1, <2>2, HintSound DEF DutyInv
<1> QED BY <1>1, DutyInvariant, PTL

-----------------------------------------------------------------------------
(* GatewayDuty, for every set of frequencies, every airtime and every size *)
(* of the map of limiters.  The inductive invariant: each limiter of the   *)
(* map is Sound for what its own sub-band was charged, and as long as the  *)
(* map has room, a sub-band without a limiter has been charged nothing.    *)

(* The types of the variables.                                             *)
GateTypeOK ==
  /\ clock \in 0 .. LastInstant
  /\ charged \in [BandKeys -> [0 .. LastInstant -> Nat]]
  /\ DOMAIN duty \in SUBSET BandKeys

(* Each limiter of the map is sound for its sub-band.                      *)
LimitersSound ==
  \A band \in DOMAIN duty :
    /\ Sound(duty[band], charged[band], clock)
    /\ duty[band].allowance_ms = Allowance(band)

(* Only a full map leaves a sub-band without a limiter and yet charged.    *)
UntouchedUnlessFull ==
  Cardinality(DOMAIN duty) # MaxBands =>
    \A band \in BandKeys \ DOMAIN duty, t \in 0 .. LastInstant : charged[band][t] = 0

GateInv == GateTypeOK /\ LimitersSound /\ UntouchedUnlessFull

(* The allowance of a sub-band is that of any of its frequencies.          *)
LEMMA AllowanceOf ==
  ASSUME NEW fr \in Accepted
  PROVE  /\ eu_band_key(fr) \in BandKeys
         /\ Allowance(eu_band_key(fr)) = for_frequency(fr).allowance_ms
         /\ Allowance(eu_band_key(fr)) \in Nat
<1> DEFINE Lims == {for_frequency(f) : f \in {g \in Accepted : eu_band_key(g) = eu_band_key(fr)}}
<1>1. \A f \in Accepted : f \in Nat /\ In(f, 863000000, 870000000)
  BY GatewayDutyAssumption, SMT DEF Accepted
<1>2. \A f \in Accepted : eu_band_key(f) = eu_band_key(fr) =>
        for_frequency(f).allowance_ms = for_frequency(fr).allowance_ms
  BY <1>1, BandTables, SMT DEF for_frequency
<1>3. for_frequency(fr) \in Lims
  OBVIOUS
<1>4. \A lim \in Lims : lim.allowance_ms = for_frequency(fr).allowance_ms
  BY <1>2
<1>5. Allowance(eu_band_key(fr)) = (CHOOSE lim \in Lims : TRUE).allowance_ms
  BY DEF Allowance
<1> HIDE DEF Lims
<1>6. (CHOOSE lim \in Lims : TRUE) \in Lims
  BY <1>3
<1> QED BY <1>1, <1>4, <1>5, <1>6, NewLimiter, SMT DEF BandKeys

(* There are five sub-bands between 863 and 870 MHz.                       *)
LEMMA FiveBandKeys ==
  /\ BandKeys \in SUBSET (2 .. 6)
  /\ IsFiniteSet(BandKeys) /\ Cardinality(BandKeys) <= 5
<1>1. BandKeys \in SUBSET (2 .. 6)
  <2>1. ASSUME NEW fr \in Accepted PROVE eu_band_key(fr) \in 2 .. 6
    BY GatewayDutyAssumption, SMT DEF Accepted, eu_band_key, In
  <2> QED BY <2>1 DEF BandKeys
<1>2. IsFiniteSet(2 .. 6) /\ Cardinality(2 .. 6) = 5
  <2>1. 2 \in Int /\ 6 \in Int
    OBVIOUS
  <2>2. IsFiniteSet(2 .. 6) /\ Cardinality(2 .. 6) = IF 2 > 6 THEN 0 ELSE 6 - 2 + 1
    BY <2>1, FS_Interval, Zenon
  <2> QED BY <2>2
<1> QED BY <1>1, <1>2, FS_Subset

(* A sub-band's history is a history, and Charged adds it up.              *)
LEMMA ChargedAired ==
  ASSUME GateTypeOK, NEW band \in BandKeys
  PROVE  /\ IsHistory(charged[band]) /\ DOMAIN charged[band] = 0 .. LastInstant
         /\ \A times : Charged(band, times) = Aired(charged[band], times)
<1>1. DOMAIN charged[band] = 0 .. LastInstant /\ IsHistory(charged[band])
  BY GatewayDutyAssumption DEF GateTypeOK, IsHistory
<1> QED BY <1>1 DEF Charged, Aired

(* The map after the insert of accept(): its limiters are sound, and the   *)
(* downlink's sub-band is only missing when the map is full.               *)
LEMMA OpenedSound ==
  ASSUME GateInv, NEW fr \in Accepted
  PROVE  LET band   == eu_band_key(fr)
             opened == WithLimiter(fr)
         IN  /\ DOMAIN opened \in SUBSET BandKeys /\ DOMAIN duty \in SUBSET DOMAIN opened
             /\ \A b \in DOMAIN opened : /\ Sound(opened[b], charged[b], clock)
                                         /\ opened[b].allowance_ms = Allowance(b)
             /\ opened = [b \in DOMAIN opened |-> opened[b]] \/ opened = duty
             /\ \/ band \in DOMAIN opened
                \/ opened = duty /\ Cardinality(DOMAIN duty) = MaxBands
<1> DEFINE band   == eu_band_key(fr)
           opened == WithLimiter(fr)
<1>1. CASE band \in DOMAIN duty \/ Cardinality(DOMAIN duty) = MaxBands
  <2>1. opened = duty
    BY <1>1 DEF WithLimiter
  <2> QED BY <1>1, <2>1 DEF GateInv, GateTypeOK, LimitersSound
<1>2. CASE ~(band \in DOMAIN duty \/ Cardinality(DOMAIN duty) = MaxBands)
  <2>1. opened = [b \in DOMAIN duty \cup {band} |->
                    IF b = band THEN for_frequency(fr) ELSE duty[b]]
    BY <1>2 DEF WithLimiter
  <2>2. band \in BandKeys /\ Allowance(band) = for_frequency(fr).allowance_ms
        /\ Allowance(band) \in Nat
    BY AllowanceOf
  <2>3. fr \in Nat
    BY GatewayDutyAssumption, SMT DEF Accepted
  <2> HIDE DEF band, opened
  <2>4. /\ IsHistory(charged[band]) /\ DOMAIN charged[band] = 0 .. LastInstant
        /\ \A t \in 0 .. LastInstant : charged[band][t] = 0
    BY <1>2, <2>2, ChargedAired, GatewayDutyAssumption DEF GateInv, UntouchedUnlessFull, GateTypeOK
  <2>5. Sound(for_frequency(fr), charged[band], clock)
    <3>1. /\ LimiterOK(for_frequency(fr)) /\ for_frequency(fr).allowance_ms \in Nat
          /\ for_frequency(fr).buckets = [b \in Buckets |-> 0]
          /\ for_frequency(fr).head_start_ms = 0
      BY <2>2, <2>3, NewLimiter, SMT
    <3>2. clock \in Nat
      BY GatewayDutyAssumption DEF GateInv, GateTypeOK
    <3> QED BY <2>4, <3>1, <3>2, NewSound
  <2>6. DOMAIN opened = DOMAIN duty \cup {band}
    BY <2>1
  <2>7. \A b \in DOMAIN opened : /\ Sound(opened[b], charged[b], clock)
                                 /\ opened[b].allowance_ms = Allowance(b)
    BY <2>1, <2>2, <2>5 DEF GateInv, LimitersSound
  <2>8. opened = [b \in DOMAIN opened |-> opened[b]]
    BY <2>1
  <2>9. DOMAIN opened \in SUBSET BandKeys
    BY <2>2, <2>6 DEF GateInv, GateTypeOK
  <2> QED BY <2>6, <2>7, <2>8, <2>9 DEF opened, band
<1> QED BY <1>1, <1>2

(* The invariant holds in every state.                                     *)
LEMMA GateInvariant == GateSpec => []GateInv
<1>1. GateInit => GateInv
  <2> SUFFICES ASSUME GateInit PROVE GateInv
    OBVIOUS
  <2>1. DOMAIN duty = {}
    BY DEF GateInit
  <2> QED BY <2>1, GatewayDutyAssumption
        DEF GateInit, GateInv, GateTypeOK, LimitersSound, UntouchedUnlessFull
<1>2. GateInv /\ [GateNext]_gateVars => GateInv'
  <2> SUFFICES ASSUME GateInv, [GateNext]_gateVars PROVE GateInv'
    OBVIOUS
  <2>1. CASE ClockTick \/ UNCHANGED gateVars
    <3>1. /\ UNCHANGED <<duty, charged>> /\ clock \in Nat /\ clock' \in Nat /\ clock <= clock'
          /\ clock' \in 0 .. LastInstant
      BY <2>1, GatewayDutyAssumption DEF ClockTick, gateVars, GateInv, GateTypeOK
    <3>2. \A band \in DOMAIN duty : Sound(duty[band], charged[band], clock')
      BY <3>1, TickSound DEF GateInv, LimitersSound
    <3> QED BY <3>1, <3>2 DEF GateInv, GateTypeOK, LimitersSound, UntouchedUnlessFull, Allowance
  <2>2. ASSUME NEW fr \in Channels, NEW airtime \in DownlinkTimes, Accept(fr, airtime)
        PROVE  GateInv'
    <3> DEFINE band   == eu_band_key(fr)
               opened == WithLimiter(fr)
               answer == try_claim(opened[band], clock, airtime)
    <3>1. /\ fr \in Accepted /\ clock' = clock
          /\ duty' = IF band \in DOMAIN opened
                     THEN [opened EXCEPT ![band] = answer.lim] ELSE opened
          /\ charged' = IF band \in DOMAIN opened /\ ~answer.ok THEN charged
                        ELSE [charged EXCEPT ![band][clock] = @ + airtime]
      BY <2>2 DEF Accept
    <3>2. band \in BandKeys /\ airtime \in Nat /\ clock \in 0 .. LastInstant /\ clock \in Nat
      BY <3>1, AllowanceOf, GatewayDutyAssumption DEF GateInv, GateTypeOK
    <3>3. /\ DOMAIN opened \in SUBSET BandKeys /\ DOMAIN duty \in SUBSET DOMAIN opened
          /\ \A b \in DOMAIN opened : /\ Sound(opened[b], charged[b], clock)
                                      /\ opened[b].allowance_ms = Allowance(b)
          /\ \/ band \in DOMAIN opened
             \/ opened = duty /\ Cardinality(DOMAIN duty) = MaxBands
      BY <3>1, OpenedSound
    <3>4. GateTypeOK'
      <4>1. charged' \in [BandKeys -> [0 .. LastInstant -> Nat]]
        <5> HIDE DEF band, opened, answer
        <5>1. charged \in [BandKeys -> [0 .. LastInstant -> Nat]]
          BY DEF GateInv, GateTypeOK
        <5>2. charged[band] \in [0 .. LastInstant -> Nat]
          BY <3>2, <5>1
        <5>3. [charged[band] EXCEPT ![clock] = @ + airtime] \in [0 .. LastInstant -> Nat]
          <6> DEFINE hist == charged[band]
          <6>1. hist \in [0 .. LastInstant -> Nat]
            BY <5>2
          <6> HIDE DEF hist
          <6>2. airtime \in Nat /\ clock \in 0 .. LastInstant
            BY <3>2
          <6>3. hist[clock] \in Nat
            BY <6>1, <6>2
          <6>4. [hist EXCEPT ![clock] = @ + airtime] \in [0 .. LastInstant -> Nat]
            BY <6>1, <6>2, <6>3
          <6> QED BY <6>4 DEF hist
        <5>4. [charged EXCEPT ![band][clock] = @ + airtime]
                = [charged EXCEPT ![band] = [charged[band] EXCEPT ![clock] = @ + airtime]]
          BY <3>2, <5>1, <5>2
        <5>5. [charged EXCEPT ![band] = [charged[band] EXCEPT ![clock] = @ + airtime]]
                \in [BandKeys -> [0 .. LastInstant -> Nat]]
          BY <5>1, <5>3
        <5> QED BY <3>1, <5>1, <5>4, <5>5
      <4> HIDE DEF band, opened, answer
      <4>2. DOMAIN duty' = DOMAIN opened
        BY <3>1
      <4> QED BY <3>1, <3>2, <3>3, <4>1, <4>2 DEF GateTypeOK
    <3>5. CASE band \notin DOMAIN opened
      <4> HIDE DEF band, opened, answer
      <4>1. duty' = duty /\ Cardinality(DOMAIN duty) = MaxBands
        BY <3>1, <3>3, <3>5
      <4>2. \A b \in DOMAIN duty : charged'[b] = charged[b]
        BY <3>1, <3>3, <3>5, <4>1 DEF GateInv, GateTypeOK
      <4>3. LimitersSound'
        BY <3>1, <4>1, <4>2 DEF GateInv, LimitersSound, Allowance
      <4>4. UntouchedUnlessFull'
        BY <4>1 DEF UntouchedUnlessFull
      <4> QED BY <3>4, <4>3, <4>4 DEF GateInv
    <3>6. CASE band \in DOMAIN opened
      <4>1. /\ IsHistory(charged[band]) /\ DOMAIN charged[band] = 0 .. LastInstant
        BY <3>2, ChargedAired DEF GateInv
      <4>2. /\ answer.ok \in BOOLEAN
            /\ answer.lim.allowance_ms = opened[band].allowance_ms
            /\ answer.ok => Sound(answer.lim, Extend(charged[band], clock, airtime), clock)
            /\ ~answer.ok => Sound(answer.lim, charged[band], clock)
        BY <3>2, <3>3, <3>6, <4>1, ClaimSound
      <4> HIDE DEF band, opened, answer
      <4>3. charged'[band] = IF answer.ok THEN Extend(charged[band], clock, airtime) ELSE charged[band]
        BY <3>1, <3>2, <3>6, <4>1, <4>2 DEF GateInv, GateTypeOK, Extend
      <4>4. /\ DOMAIN duty' = DOMAIN opened /\ duty'[band] = answer.lim
            /\ \A b \in DOMAIN opened \ {band} : duty'[b] = opened[b]
        BY <3>1, <3>6
      <4>5. \A b \in BandKeys \ {band} : charged'[b] = charged[b]
        BY <3>1, <3>2 DEF GateInv, GateTypeOK
      <4>6. Sound(duty'[band], charged'[band], clock')
        BY <3>1, <4>2, <4>3, <4>4
      <4>7. LimitersSound'
        <5> SUFFICES ASSUME NEW b \in DOMAIN duty'
                     PROVE  /\ Sound(duty'[b], charged'[b], clock')
                            /\ duty'[b].allowance_ms = Allowance(b)
          BY DEF LimitersSound, Allowance
        <5>1. CASE b = band
          BY <3>3, <3>6, <4>2, <4>4, <4>6, <5>1
        <5>2. CASE b # band
          BY <3>1, <3>3, <4>4, <4>5, <5>2
        <5> QED BY <5>1, <5>2
      <4>8. UntouchedUnlessFull'
        <5> SUFFICES ASSUME Cardinality(DOMAIN duty') # MaxBands,
                            NEW b \in BandKeys \ DOMAIN duty', NEW t \in 0 .. LastInstant
                     PROVE  charged'[b][t] = 0
          BY DEF UntouchedUnlessFull
        <5>1. b # band /\ b \notin DOMAIN duty
          BY <3>3, <3>6, <4>4
        <5>2. Cardinality(DOMAIN duty) # MaxBands
          <6> SUFFICES ASSUME Cardinality(DOMAIN duty) = MaxBands PROVE FALSE
            OBVIOUS
          <6>1. opened = duty
            BY DEF opened, WithLimiter
          <6> QED BY <4>4, <6>1
        <5> QED BY <4>5, <5>1, <5>2 DEF GateInv, UntouchedUnlessFull
      <4> QED BY <3>4, <4>7, <4>8 DEF GateInv
    <3> QED BY <3>5, <3>6
  <2> QED BY <2>1, <2>2 DEF GateNext
<1> QED BY <1>1, <1>2, PTL DEF GateSpec

(* Where the map of accept() has an entry for every sub-band that is asked *)
(* for, each sub-band keeps to its allowance, whenever its limiter was     *)
(* made and whatever the other sub-bands do.  The hypothesis is needed:    *)
(* MAX_BANDS is 4 and there are five sub-bands.                            *)
THEOREM Band_Budget ==
  ASSUME Cardinality(BandKeys) <= MaxBands
  PROVE  GateSpec => []BandBudget
<1>1. GateInv => BandBudget
  <2> SUFFICES ASSUME GateInv, NEW band \in BandKeys, NEW t \in 0 .. LastInstant
               PROVE  Charged(band, t .. t + (BucketCount - 1) * BucketMs) <= Allowance(band)
    BY DEF BandBudget
  <2>1. t \in Nat /\ \A times : Charged(band, times) = Aired(charged[band], times)
    BY ChargedAired, GatewayDutyAssumption DEF GateInv
  <2>2. CASE band \in DOMAIN duty
    BY <2>1, <2>2 DEF GateInv, LimitersSound, Sound, InBudget
  <2>3. CASE band \notin DOMAIN duty
    <3>1. Cardinality(DOMAIN duty) # MaxBands
      <4>1. DOMAIN duty \in SUBSET BandKeys /\ DOMAIN duty # BandKeys
        BY <2>3 DEF GateInv, GateTypeOK
      <4>2. Cardinality(DOMAIN duty) < Cardinality(BandKeys)
        BY <4>1, FiveBandKeys, FS_Subset, FS_CardinalityType
      <4>3. Cardinality(DOMAIN duty) \in Nat /\ Cardinality(BandKeys) \in Nat
        BY <4>1, FiveBandKeys, FS_Subset, FS_CardinalityType
      <4> QED BY <4>2, <4>3, GatewayDutyAssumption
    <3>2. \A s \in DOMAIN charged[band] : charged[band][s] = 0
      BY <2>3, <3>1, ChargedAired DEF GateInv, UntouchedUnlessFull
    <3>3. \A times : Aired(charged[band], times) = 0
      BY <3>2, ChargedAired, AiredZero DEF GateInv
    <3>4. Allowance(band) \in Nat
      BY AllowanceOf DEF BandKeys
    <3> QED BY <2>1, <3>3, <3>4
  <2> QED BY <2>2, <2>3
<1> QED BY <1>1, GateInvariant, PTL

(* With five entries the map is large enough for every set of frequencies: *)
(* the value of MAX_BANDS is all that stands between accept() and its      *)
(* promise.                                                                *)
THEOREM Five_Entries_Suffice ==
  ASSUME MaxBands >= 5
  PROVE  GateSpec => []BandBudget
<1>1. Cardinality(BandKeys) <= MaxBands
  BY FiveBandKeys, FS_CardinalityType, GatewayDutyAssumption
<1> QED BY <1>1, Band_Budget

(* Whatever the size of the map, DUTY_CYCLE_OVERFLOW is answered only when *)
(* the airtime of the downlink's own sub-band leaves no room for it.       *)
THEOREM Overflow_Is_Own == GateSpec => []OverflowIsOwn
<1>1. GateInv => OverflowIsOwn
  <2> SUFFICES ASSUME GateInv, NEW fr \in Accepted, NEW airtime \in DownlinkTimes,
                      eu_band_key(fr) \in DOMAIN WithLimiter(fr),
                      ~try_claim(WithLimiter(fr)[eu_band_key(fr)], clock, airtime).ok
               PROVE  Charged(eu_band_key(fr), clock - BucketCount * BucketMs + 1 .. clock) + airtime
                        > Allowance(eu_band_key(fr))
    BY DEF OverflowIsOwn
  <2> DEFINE band == eu_band_key(fr)
             lim  == WithLimiter(fr)[band]
  <2>1. Sound(lim, charged[band], clock) /\ lim.allowance_ms = Allowance(band)
    BY OpenedSound
  <2>2. airtime \in Nat /\ clock \in Nat /\ band \in BandKeys
    BY AllowanceOf, GatewayDutyAssumption DEF GateInv, GateTypeOK
  <2>3. \A times : Charged(band, times) = Aired(charged[band], times)
    BY <2>2, ChargedAired DEF GateInv
  <2>4. Aired(charged[band], clock - BucketCount * BucketMs + 1 .. clock) + airtime > lim.allowance_ms
    BY <2>1, <2>2, RefusalSound
  <2> HIDE DEF band, lim
  <2> QED BY <2>1, <2>3, <2>4 DEF band
<1> QED BY <1>1, GateInvariant, PTL
-----------------------------------------------------------------------------
(* The airtime formula against the datasheet, for every length, preamble   *)
(* and coding rate.  The bandwidths are those of whole microseconds: for   *)
(* the others the code rounds a symbol down and OnAirUs rounds it up.      *)

LEMMA ExactSymbol ==
  ASSUME NEW khz, WholeMicroseconds(khz)
  PROVE  \E f \in {2, 4, 8, 16, 32} : \A sf : 2 ^ sf \in Nat =>
           /\ symbol_time_us(sf, khz) = f * 2 ^ sf
           /\ CeilDiv(2 ^ sf * 20000, bandwidth_hz(khz) \div 50) = f * 2 ^ sf
<1>1. PICK h \in {625, 1250, 2500, 5000, 10000} : h = bandwidth_hz(khz) \div 50
  BY DEF WholeMicroseconds
<1>2. PICK f \in {2, 4, 8, 16, 32} : f * h = 20000
  BY <1>1
<1>3. ASSUME NEW P \in Nat
      PROVE  (P * 20000) \div h = f * P /\ CeilDiv(P * 20000, h) = f * P
  <2>1. CASE h = 625
    BY <1>2, <2>1 DEF CeilDiv
  <2>2. CASE h = 1250
    BY <1>2, <2>2 DEF CeilDiv
  <2>3. CASE h = 2500
    BY <1>2, <2>3 DEF CeilDiv
  <2>4. CASE h = 5000
    BY <1>2, <2>4 DEF CeilDiv
  <2>5. CASE h = 10000
    BY <1>2, <2>5 DEF CeilDiv
  <2> QED BY <1>1, <2>1, <2>2, <2>3, <2>4, <2>5
<1>4. ASSUME NEW sf, 2 ^ sf \in Nat
      PROVE  /\ symbol_time_us(sf, khz) = f * 2 ^ sf
             /\ CeilDiv(2 ^ sf * 20000, bandwidth_hz(khz) \div 50) = f * 2 ^ sf
  <2>1. symbol_time_us(sf, khz) = (2 ^ sf * 20000) \div h
    BY <1>1 DEF symbol_time_us
  <2> QED BY <1>1, <1>3, <1>4, <2>1
<1> QED BY <1>2, <1>4

(* The bits that a block of symbols carries.                               *)
BlockBits == {20, 24, 28, 32, 36, 40, 44, 48}

(* The least number of blocks that holds the bits.                         *)
Least(bits, per, bound) ==
  CHOOSE n \in 0 .. bound : n * per >= bits /\ \A k \in 0 .. n - 1 : k * per < bits

(* The blocks that the code counts are those the chip sends.               *)
Blocks(bits, per) == IF bits > 0 THEN CeilDiv(bits, per) ELSE 0

LEMMA LeastBlocks ==
  ASSUME NEW bits \in Int, NEW per \in BlockBits, NEW bound \in Nat,
         NEW n \in Nat, n <= bound, n = Blocks(bits, per)
  PROVE  Least(bits, per, bound) = n /\ n * per >= bits
<1> USE DEF BlockBits
<1> DEFINE P(m) == m * per >= bits /\ \A k \in 0 .. m - 1 : k * per < bits
<1>0. n = IF bits > 0 THEN CeilDiv(bits, per) ELSE 0
  BY Zenon DEF Blocks
<1>1. (n * per >= bits /\ n * per < bits + per) \/ (n = 0 /\ bits <= 0)
  <2>1. CASE per = 20
    BY <1>0, <2>1 DEF CeilDiv
  <2>2. CASE per = 24
    BY <1>0, <2>2 DEF CeilDiv
  <2>3. CASE per = 28
    BY <1>0, <2>3 DEF CeilDiv
  <2>4. CASE per = 32
    BY <1>0, <2>4 DEF CeilDiv
  <2>5. CASE per = 36
    BY <1>0, <2>5 DEF CeilDiv
  <2>6. CASE per = 40
    BY <1>0, <2>6 DEF CeilDiv
  <2>7. CASE per = 44
    BY <1>0, <2>7 DEF CeilDiv
  <2>8. CASE per = 48
    BY <1>0, <2>8 DEF CeilDiv
  <2> QED BY <2>1, <2>2, <2>3, <2>4, <2>5, <2>6, <2>7, <2>8 DEF BlockBits
<1>2. P(n)
  <2>1. ASSUME NEW k \in 0 .. n - 1 PROVE k * per < bits
    <3>1. k + 1 <= n /\ k \in Nat
      OBVIOUS
    <3>2. (k + 1) * per <= n * per /\ (k + 1) * per = k * per + per
      BY <3>1
    <3> QED BY <1>1, <3>1, <3>2
  <2> QED BY <1>1, <2>1
<1>3. ASSUME NEW m \in 0 .. bound, P(m) PROVE m = n
  <2>1. ~(m < n) /\ ~(n < m)
    BY <1>2, <1>3
  <2> QED BY <2>1
<1>4. Least(bits, per, bound) = n
  <2> HIDE DEF P
  <2>1. n \in 0 .. bound
    OBVIOUS
  <2>2. (CHOOSE m \in 0 .. bound : P(m)) = n
    BY <1>2, <1>3, <2>1
  <2> QED BY <2>2 DEF Least, P
<1> QED BY <1>2, <1>4

(* Of a packet that is not empty the bound of the search is no constraint. *)
LEMMA CeilDivBounds ==
  ASSUME NEW a \in Nat, NEW per \in BlockBits
  PROVE  /\ CeilDiv(a, per) \in Nat
         /\ CeilDiv(a, per) * per >= a
         /\ CeilDiv(a, per) * per < a + per
<1>1. CASE per = 20
  BY <1>1 DEF CeilDiv
<1>2. CASE per = 24
  BY <1>2 DEF CeilDiv
<1>3. CASE per = 28
  BY <1>3 DEF CeilDiv
<1>4. CASE per = 32
  BY <1>4 DEF CeilDiv
<1>5. CASE per = 36
  BY <1>5 DEF CeilDiv
<1>6. CASE per = 40
  BY <1>6 DEF CeilDiv
<1>7. CASE per = 44
  BY <1>7 DEF CeilDiv
<1>8. CASE per = 48
  BY <1>8 DEF CeilDiv
<1> QED BY <1>1, <1>2, <1>3, <1>4, <1>5, <1>6, <1>7, <1>8 DEF BlockBits

LEMMA BlocksBounds ==
  ASSUME NEW bits \in Int, NEW per \in BlockBits
  PROVE  /\ Blocks(bits, per) \in Nat
         /\ bits > 0 => /\ Blocks(bits, per) * per >= bits
                        /\ Blocks(bits, per) * per < bits + per
         /\ ~(bits > 0) => Blocks(bits, per) = 0
<1>1. CASE bits > 0
  <2>1. bits \in Nat
    BY <1>1
  <2>2. Blocks(bits, per) = CeilDiv(bits, per)
    BY <1>1 DEF Blocks
  <2>3. CeilDiv(bits, per) \in Nat /\ CeilDiv(bits, per) * per >= bits
        /\ CeilDiv(bits, per) * per < bits + per
    BY <2>1, CeilDivBounds, Zenon
  <2> QED BY <1>1, <2>2, <2>3, Zenon
<1>2. CASE ~(bits > 0)
  BY <1>2 DEF Blocks
<1> QED BY <1>1, <1>2

LEMMA BlocksFit ==
  ASSUME NEW bits \in Int, NEW per \in BlockBits,
         NEW len \in Nat \ {0}, bits <= 8 * len + 16
  PROVE  Least(bits, per, 2 * len + 5) = Blocks(bits, per)
<1>1. ASSUME NEW n \in Nat, n * per < bits + per PROVE n <= 2 * len + 5
  <2>1. ASSUME n > 2 * len + 5 PROVE FALSE
    <3>1. n >= 2 * len + 6 /\ per \in Nat /\ per >= 20
      BY <1>1, <2>1 DEF BlockBits
    <3>2. n * per >= (2 * len + 6) * per /\ (2 * len + 5) * per >= (2 * len + 5) * 20
      BY <3>1
    <3> QED BY <1>1, <3>1, <3>2
  <2> QED BY <2>1
<1>2. Blocks(bits, per) \in Nat
  BY BlocksBounds, Zenon
<1>3. PICK n \in Nat : n = Blocks(bits, per)
  BY <1>2
<1>4. n <= 2 * len + 5
  <2>1. CASE bits > 0
    <3>1. n * per < bits + per
      BY <1>3, <2>1, BlocksBounds, Zenon
    <3> QED BY <1>1, <3>1
  <2>2. CASE ~(bits > 0)
    <3>1. n = 0
      BY <1>3, <2>2, BlocksBounds, Zenon
    <3> QED BY <3>1
  <2> QED BY <2>1, <2>2
<1>5. PICK bound \in Nat : bound = 2 * len + 5
  OBVIOUS
<1>6. n <= bound
  BY <1>4, <1>5
<1>7. Least(bits, per, bound) = n
  BY <1>3, <1>6, LeastBlocks, Zenon
<1> QED BY <1>3, <1>5, <1>7, Zenon

LEMMA MillisecondsCover ==
  ASSUME NEW us \in Nat
  PROVE  CeilDiv(us, 1000) \in Nat /\ 1000 * CeilDiv(us, 1000) >= us
BY DEF CeilDiv

LEMMA WholeSymbols ==
  ASSUME NEW q \in Nat, NEW s \in Nat
  PROVE  /\ (q * (4 * s)) \div 4 = q * s
         /\ CeilDiv(q * (4 * s), 4) = q * s
<1>1. q * (4 * s) = 4 * (q * s) /\ q * s \in Nat
  OBVIOUS
<1>2. \A x \in Nat : (4 * x) \div 4 = x /\ CeilDiv(4 * x, 4) = x
  BY DEF CeilDiv
<1> QED BY <1>1, <1>2

(* The symbols of the spreading factors that the code takes.               *)
LEMMA Powers ==
  ASSUME NEW sf \in 5 .. 12
  PROVE  /\ 2 ^ sf \in Nat /\ 2 ^ Clamp(sf) \in Nat
         /\ sf = 5 => 2 ^ sf = 4 * 8 /\ 2 ^ Clamp(sf) = 4 * 32
         /\ sf = 6 => 2 ^ sf = 4 * 16 /\ 2 ^ Clamp(sf) = 4 * 32
         /\ sf >= 7 => \E m \in Nat : 2 ^ sf = 4 * m /\ Clamp(sf) = sf
<1>1. sf = 5 => 2 ^ sf = 32
  OBVIOUS
<1>2. sf = 6 => 2 ^ sf = 64
  OBVIOUS
<1>3. sf = 7 => 2 ^ sf = 128
  OBVIOUS
<1>4. sf = 8 => 2 ^ sf = 256
  OBVIOUS
<1>5. sf = 9 => 2 ^ sf = 512
  OBVIOUS
<1>6. sf = 10 => 2 ^ sf = 1024
  OBVIOUS
<1>7. sf = 11 => 2 ^ sf = 2048
  OBVIOUS
<1>8. sf = 12 => 2 ^ sf = 4096
  OBVIOUS
<1>9. CASE sf < 7
  <2>1. Clamp(sf) = 7
    BY <1>9 DEF Clamp
  <2>2. 2 ^ Clamp(sf) = 128
    BY <2>1
  <2> QED BY <1>1, <1>2, <1>9, <2>2
<1>10. CASE sf >= 7
  <2>1. Clamp(sf) = sf
    BY <1>10 DEF Clamp
  <2>2. sf \in {7, 8, 9, 10, 11, 12}
    BY <1>10
  <2>3. \E m \in {32, 64, 128, 256, 512, 1024} : 2 ^ sf = 4 * m
    BY <1>3, <1>4, <1>5, <1>6, <1>7, <1>8, <2>2
  <2> QED BY <1>10, <2>1, <2>3
<1> QED BY <1>9, <1>10

(* The driver sends a packet within the time that the formula gives for    *)
(* its configuration: exactly that time from SF7 on, and less for SF5 and  *)
(* SF6, which the formula takes for SF7.                                   *)
LEMMA AirtimeCovers ==
  ASSUME NEW config, NEW len \in Nat \ {0},
         config.spreading_factor \in 5 .. 12, WholeMicroseconds(config.bandwidth_khz),
         config.preamble_len \in Nat
  PROVE  1000 * time_on_air_ms_ext(config.spreading_factor, config.bandwidth_khz,
                                   config.coding_rate, len, config.preamble_len,
                                   config.crc_on)
           >= OnAirUs(config, len)
<1> DEFINE sf      == config.spreading_factor
           khz     == config.bandwidth_khz
           p       == config.preamble_len
           crc     == IF config.crc_on THEN 16 ELSE 0
           c       == CodingRate(config.coding_rate)
           cf      == Clamp(sf)
           cde     == IF ldro_enabled(cf, khz) THEN 1 ELSE 0
           cbits   == 8 * len - 4 * cf + 28 + crc
           cper    == 4 * (cf - 2 * cde)
           cblocks == Blocks(cbits, cper)
           cq      == (p + (8 + cblocks * (c + 4))) * 4 + 17
           short   == sf < 7
           ode     == IF ldro_enabled(sf, khz) /\ ~short THEN 1 ELSE 0
           obits   == 8 * len - 4 * sf + (IF short THEN 20 ELSE 28) + crc
           oper    == 4 * (sf - 2 * ode)
           oblocks == Least(obits, oper, 2 * len + 5)
           oq      == (p + 8 + oblocks * (c + 4)) * 4 + (IF short THEN 25 ELSE 17)
           symbol  == CeilDiv(2 ^ sf * 20000, bandwidth_hz(khz) \div 50)
           claim   == time_on_air_ms_ext(sf, khz, config.coding_rate, len, p, config.crc_on)
<1>1. claim = CeilDiv((cq * symbol_time_us(cf, khz)) \div 4, 1000)
  BY DEF time_on_air_ms_ext, Blocks
<1>2. OnAirUs(config, len) = CeilDiv(oq * symbol, 4)
  BY DEF OnAirUs, Least
<1>3. c \in 1 .. 4 /\ crc \in {0, 16} /\ cde \in {0, 1} /\ ode \in {0, 1}
  BY DEF CodingRate
<1>4. PICK f \in {2, 4, 8, 16, 32} :
        /\ 2 ^ cf \in Nat => symbol_time_us(cf, khz) = f * 2 ^ cf
        /\ 2 ^ sf \in Nat => symbol = f * 2 ^ sf
  BY ExactSymbol
<1>5. sf \in 5 .. 12 /\ p \in Nat /\ len \in Nat \ {0}
  OBVIOUS
<1>6. short => cf = 7 /\ ode = 0
  BY <1>5 DEF Clamp
<1>7. ~short => cf = sf /\ ode = cde /\ obits = cbits /\ oper = cper
  BY <1>5 DEF Clamp
<1>8. /\ short <=> sf < 7
      /\ cbits = 8 * len - 4 * cf + 28 + crc
      /\ obits = 8 * len - 4 * sf + (IF short THEN 20 ELSE 28) + crc
      /\ cper = 4 * (cf - 2 * cde)
      /\ oper = 4 * (sf - 2 * ode)
      /\ cblocks = Blocks(cbits, cper)
      /\ oblocks = Least(obits, oper, 2 * len + 5)
      /\ cq = (p + (8 + cblocks * (c + 4))) * 4 + 17
      /\ oq = (p + 8 + oblocks * (c + 4)) * 4 + (IF short THEN 25 ELSE 17)
      /\ cf = Clamp(sf)
  OBVIOUS
<1> HIDE DEF sf, khz, p, crc, c, cf, cde, cbits, cper, cblocks, cq, short, ode, obits, oper,
             oblocks, oq, symbol, claim
<1>9. cf \in 7 .. 12
  BY <1>5, <1>6, <1>7, <1>8
<1>10. cper \in BlockBits /\ oper \in BlockBits /\ cbits \in Int /\ obits \in Int
  <2>1. CASE short
    BY <1>3, <1>5, <1>6, <1>8, <1>9, <2>1 DEF BlockBits
  <2>2. CASE ~short
    BY <1>3, <1>5, <1>7, <1>8, <1>9, <2>2 DEF BlockBits
  <2> QED BY <2>1, <2>2
<1>11. oblocks = Blocks(obits, oper)
  <2>1. obits <= 8 * len + 16
    BY <1>3, <1>5, <1>8, <1>10
  <2>2. Least(obits, oper, 2 * len + 5) = Blocks(obits, oper)
    BY <1>5, <1>10, <2>1, BlocksFit, Zenon
  <2> QED BY <1>8, <2>2, Zenon
<1>12. oblocks \in Nat
  BY <1>10, <1>11, BlocksBounds, Zenon
<1>13. cblocks \in Nat
  BY <1>8, <1>10, BlocksBounds, Zenon
<1>14. cq \in Nat /\ oq \in Nat
  <2>1. ASSUME NEW n \in Nat PROVE n * (c + 4) \in Nat
    BY <1>3, <2>1
  <2> QED BY <1>3, <1>5, <1>8, <1>12, <1>13, <2>1
<1>15. CASE ~short
  <2>1. oq = cq
    <3>1. oblocks = cblocks
      BY <1>7, <1>8, <1>11, <1>15, Zenon
    <3>2. ASSUME NEW n \in Nat PROVE n * (c + 4) \in Nat
      BY <1>3, <3>2
    <3> QED BY <1>5, <1>8, <1>13, <1>15, <3>1, <3>2
  <2>2. PICK m \in Nat : 2 ^ sf = 4 * m /\ cf = sf
    <3>1. sf >= 7
      BY <1>5, <1>8, <1>15
    <3> QED BY <1>5, <1>8, <3>1, Powers, Zenon
  <2>3. symbol_time_us(cf, khz) = 4 * (f * m) /\ symbol = 4 * (f * m) /\ f * m \in Nat
    BY <1>4, <2>2
  <2>4. claim = CeilDiv(cq * (f * m), 1000) /\ OnAirUs(config, len) = cq * (f * m)
    <3>1. /\ (cq * (4 * (f * m))) \div 4 = cq * (f * m)
          /\ CeilDiv(cq * (4 * (f * m)), 4) = cq * (f * m)
      BY <1>14, <2>3, WholeSymbols, Zenon
    <3>2. CeilDiv(cq * (4 * (f * m)), 4) = OnAirUs(config, len)
      BY <1>2, <2>1, <2>3
    <3>3. claim = CeilDiv((cq * (4 * (f * m))) \div 4, 1000)
      BY <1>1, <2>3
    <3> QED BY <3>1, <3>2, <3>3
  <2>5. cq * (f * m) \in Nat
    BY <1>14, <2>3
  <2> QED BY <2>4, <2>5, MillisecondsCover DEF claim, sf, khz, p
<1>16. CASE short
  <2>1. PICK m \in {8, 16} : 2 ^ sf = 4 * m /\ 2 ^ cf = 4 * 32 /\ (sf = 5 <=> m = 8)
    <3>1. sf = 5 \/ sf = 6
      BY <1>5, <1>8, <1>16
    <3>2. /\ sf = 5 => 2 ^ sf = 4 * 8 /\ 2 ^ cf = 4 * 32
          /\ sf = 6 => 2 ^ sf = 4 * 16 /\ 2 ^ cf = 4 * 32
      BY <1>5, <1>8, Powers, Zenon
    <3> QED BY <3>1, <3>2
  <2>2. /\ symbol_time_us(cf, khz) = 4 * (f * 32) /\ symbol = 4 * (f * m)
        /\ f * 32 \in Nat /\ f * m \in Nat
    BY <1>4, <2>1
  <2>3. claim = CeilDiv(cq * (f * 32), 1000) /\ OnAirUs(config, len) = oq * (f * m)
    <3>1. (cq * (4 * (f * 32))) \div 4 = cq * (f * 32)
      BY <1>14, <2>2, WholeSymbols, Zenon
    <3>2. CeilDiv(oq * (4 * (f * m)), 4) = oq * (f * m)
      BY <1>14, <2>2, WholeSymbols, Zenon
    <3>3. claim = CeilDiv((cq * (4 * (f * 32))) \div 4, 1000)
      BY <1>1, <2>2
    <3>4. OnAirUs(config, len) = CeilDiv(oq * (4 * (f * m)), 4)
      BY <1>2, <2>2
    <3> QED BY <3>1, <3>2, <3>3, <3>4
  <2>4. oblocks <= 4 * cblocks /\ (m = 16 => oblocks <= 2 * cblocks)
    <3>1. cbits > 0 /\ obits > 0
      BY <1>3, <1>5, <1>6, <1>8, <1>16
    <3>2. cblocks * cper >= cbits
      <4>1. Blocks(cbits, cper) * cper >= cbits
        BY <1>10, <3>1, BlocksBounds, Zenon
      <4> QED BY <1>8, <4>1, Zenon
    <3>4. oblocks * oper < obits + oper
      BY <1>10, <1>11, <3>1, BlocksBounds, Zenon
    <3>5. cper \in {20, 28} /\ oper = IF m = 8 THEN 20 ELSE 24
      BY <1>3, <1>5, <1>6, <1>8, <1>16, <2>1
    <3>6. obits <= cbits
      BY <1>3, <1>5, <1>6, <1>8, <1>16, <2>1
    <3>7. ASSUME NEW a \in Nat, NEW b \in Nat, a * cper >= cbits, b * oper < obits + oper
          PROVE  b <= 4 * a /\ (m = 16 => b <= 2 * a)
      <4>1. cper = 20 \/ cper = 28
        BY <3>5
      <4>2. CASE m = 8
        BY <1>10, <3>1, <3>5, <3>6, <3>7, <4>2
      <4>3. CASE m = 16
        BY <1>10, <3>1, <3>5, <3>6, <3>7, <4>3
      <4> QED BY <2>1, <4>2, <4>3
    <3> QED BY <1>12, <1>13, <3>2, <3>4, <3>7
  <2>5. oq * m <= cq * 32
    <3>1. ASSUME NEW a \in Nat, NEW b \in Nat, b <= 4 * a, m = 16 => b <= 2 * a
          PROVE  ((p + 8 + b * (c + 4)) * 4 + 25) * m <= ((p + (8 + a * (c + 4))) * 4 + 17) * 32
      <4>1. c \in {1, 2, 3, 4}
        BY <1>3
      <4> QED BY <1>5, <2>1, <3>1, <4>1
    <3> QED BY <1>8, <1>12, <1>13, <1>16, <2>4, <3>1
  <2>6. oq * (f * m) <= cq * (f * 32) /\ cq * (f * 32) \in Nat /\ oq * (f * m) \in Nat
    <3>1. ASSUME NEW a \in Nat, NEW b \in Nat, b * m <= a * 32
          PROVE  b * (f * m) <= a * (f * 32) /\ a * (f * 32) \in Nat /\ b * (f * m) \in Nat
      BY <2>1, <3>1
    <3> QED BY <1>14, <2>5, <3>1
  <2>7. 1000 * claim >= cq * (f * 32) /\ claim \in Nat
    BY <2>3, <2>6, MillisecondsCover
  <2> QED BY <2>3, <2>6, <2>7 DEF claim, sf, khz, p
<1> QED BY <1>15, <1>16

-----------------------------------------------------------------------------
(* Upstream, for any network that loses, repeats and delays datagrams, any *)
(* requests, token width and intervals.  What the invariant adds to the    *)
(* properties: an acknowledgement on its way, and a PUSH_DATA that may     *)
(* still earn one, are counted before they arrive; and the keepalive's own *)
(* counter runs at least as fast as the silence that it bounds.            *)

Jobs == {DownlinkJob(t, parse_txpk(txpk)) : t \in Downlinks,
                                            txpk \in {x \in Txpks : Usable(x)}}

Messages(ids) == [id : ids, token : 0 .. TokenMod - 1, boot : Nat]
PullResps == [id : {"PULL_RESP"}, token : Downlinks, boot : Nat, txpk : Txpks]

ForwarderType ==
  [token : 0 .. TokenMod - 1, rxfw : Nat, push_acked : Nat, push_sent : Nat, dwnb : Nat,
   txnb : Nat]

UpstreamTypes ==
  /\ task \in {"pending", "waitConfig", "resolve", "backoff", "bind", "serving", "ended"}
  /\ forwarder \in ForwarderType
  /\ elapsed \in [pull : Nat, stat : Nat]
  /\ downlinkQ \in Seq(Jobs) /\ Len(downlinkQ) <= DownlinkCap
  /\ dropped \in Nat /\ boot \in Nat /\ sent \in 0 .. MaxDownlinks
  /\ quiet \in Nat /\ surplus \in Nat /\ unusable \in Nat
  /\ accepted \in [Downlinks -> Nat]
  /\ answered \in [Downlinks -> [confirmed : Nat, refused : Nat]]
  /\ toServer \in SUBSET Messages({"PUSH_DATA", "PULL_DATA"}) /\ IsFiniteSet(toServer)
  /\ toGateway \in SUBSET (Messages({"PUSH_ACK", "PULL_ACK"}) \cup PullResps)
  /\ IsFiniteSet(toGateway)
  /\ \A d \in toServer \cup toGateway : d.boot <= boot

(* The datagrams of this boot that still may be counted as acknowledged.   *)
Pushes(net) == {d \in net : d.id = "PUSH_DATA" /\ d.boot = boot}
Acks(net) == {d \in net : d.id = "PUSH_ACK" /\ d.boot = boot}

AcksInFlightEarned ==
  forwarder.push_acked + Cardinality(Pushes(toServer)) + Cardinality(Acks(toGateway))
    <= forwarder.push_sent + surplus

KeepaliveRuns == quiet <= elapsed.pull /\ quiet < PullInterval

UpstreamIndInv == UpstreamTypes /\ AcksMatchJobs /\ AcksInFlightEarned /\ KeepaliveRuns

(* What each datagram does to the counters of the forwarder.               *)
Pushed(f, n, r, k) == [f EXCEPT !.token = n, !.rxfw = r, !.push_sent = k]
Ticked(f, n, k) == [f EXCEPT !.token = n, !.push_sent = k]
Acked(f, k) == [f EXCEPT !.push_acked = k]
Refused(f, k) == [f EXCEPT !.dwnb = k]
Queued(f, k, j) == [f EXCEPT !.dwnb = k, !.txnb = j]

LEMMA PushCounted ==
  ASSUME NEW f \in ForwarderType, NEW n \in 0 .. TokenMod - 1, NEW r \in Nat, NEW k \in Nat
  PROVE  /\ Pushed(f, n, r, k) \in ForwarderType
         /\ Pushed(f, n, r, k).push_sent = k /\ Pushed(f, n, r, k).push_acked = f.push_acked
         /\ Pushed(f, n, r, k).txnb = f.txnb /\ Pushed(f, n, r, k).dwnb = f.dwnb
BY DEF ForwarderType, Pushed

LEMMA TickCounted ==
  ASSUME NEW f \in ForwarderType, NEW n \in 0 .. TokenMod - 1, NEW k \in Nat
  PROVE  /\ Ticked(f, n, k) \in ForwarderType
         /\ Ticked(f, n, k).push_sent = k /\ Ticked(f, n, k).push_acked = f.push_acked
         /\ Ticked(f, n, k).txnb = f.txnb /\ Ticked(f, n, k).dwnb = f.dwnb
BY DEF ForwarderType, Ticked

LEMMA AckCounted ==
  ASSUME NEW f \in ForwarderType, NEW k \in Nat
  PROVE  /\ Acked(f, k) \in ForwarderType
         /\ Acked(f, k).push_sent = f.push_sent /\ Acked(f, k).push_acked = k
         /\ Acked(f, k).txnb = f.txnb /\ Acked(f, k).dwnb = f.dwnb
BY DEF ForwarderType, Acked

LEMMA RefusalCounted ==
  ASSUME NEW f \in ForwarderType, NEW k \in Nat
  PROVE  /\ Refused(f, k) \in ForwarderType
         /\ Refused(f, k).push_sent = f.push_sent /\ Refused(f, k).push_acked = f.push_acked
         /\ Refused(f, k).txnb = f.txnb /\ Refused(f, k).dwnb = k
BY DEF ForwarderType, Refused

LEMMA JobCounted ==
  ASSUME NEW f \in ForwarderType, NEW k \in Nat, NEW j \in Nat
  PROVE  /\ Queued(f, k, j) \in ForwarderType
         /\ Queued(f, k, j).push_sent = f.push_sent /\ Queued(f, k, j).push_acked = f.push_acked
         /\ Queued(f, k, j).txnb = j /\ Queued(f, k, j).dwnb = k
BY DEF ForwarderType, Queued

LEMMA CountersNatural ==
  ASSUME NEW f \in ForwarderType
  PROVE  /\ f.rxfw + 1 \in Nat /\ f.push_acked + 1 \in Nat /\ f.push_sent + 1 \in Nat
         /\ f.dwnb + 1 \in Nat /\ f.txnb + 1 \in Nat
         /\ f.push_acked \in Nat /\ f.push_sent \in Nat /\ f.dwnb \in Nat /\ f.txnb \in Nat
BY DEF ForwarderType

(* A token of any count of datagrams later.                                *)
LEMMA LaterToken ==
  ASSUME NEW f \in ForwarderType, NEW k \in Nat
  PROVE  (f.token + k) % TokenMod \in 0 .. TokenMod - 1
<1>1. f.token \in Nat
  BY UpstreamAssumption DEF ForwarderType
<1>2. \A n \in Nat : n % TokenMod \in 0 .. TokenMod - 1
  BY UpstreamAssumption
<1> QED BY <1>1, <1>2

(* What a datagram adds to a set of datagrams, and what it takes away.     *)
LEMMA AddOne ==
  ASSUME NEW S, IsFiniteSet(S), NEW x
  PROVE  /\ IsFiniteSet(S \cup {x}) /\ Cardinality(S) \in Nat
         /\ Cardinality(S \cup {x}) \in Nat
         /\ Cardinality(S \cup {x}) <= Cardinality(S) + 1
BY FS_AddElement, FS_CardinalityType

LEMMA OneOrNone ==
  ASSUME NEW S, IsFiniteSet(S), NEW x, NEW T \in {S \cup {x}, S}
  PROVE  Cardinality(T) \in Nat /\ Cardinality(T) <= Cardinality(S) + 1
<1>1. /\ Cardinality(S) \in Nat /\ Cardinality(S \cup {x}) \in Nat
      /\ Cardinality(S \cup {x}) <= Cardinality(S) + 1
  BY AddOne, Zenon
<1>2. Cardinality(T) = Cardinality(S) \/ Cardinality(T) = Cardinality(S \cup {x})
  BY Zenon
<1> QED BY <1>1, <1>2

LEMMA TakeOne ==
  ASSUME NEW S, IsFiniteSet(S), NEW x
  PROVE  /\ IsFiniteSet(S \ {x}) /\ Cardinality(S) \in Nat
         /\ Cardinality(S \ {x}) \in Nat
         /\ Cardinality(S \ {x}) = IF x \in S THEN Cardinality(S) - 1 ELSE Cardinality(S)
BY FS_RemoveElement, FS_CardinalityType

LEMMA CountsNatural ==
  ASSUME NEW net, IsFiniteSet(net)
  PROVE  /\ IsFiniteSet(Pushes(net)) /\ Cardinality(Pushes(net)) \in Nat
         /\ IsFiniteSet(Acks(net)) /\ Cardinality(Acks(net)) \in Nat
BY FS_Subset, FS_CardinalityType DEF Pushes, Acks

LEMMA DownlinksFinite == IsFiniteSet(Downlinks)
BY FS_Interval, UpstreamAssumption DEF Downlinks

(* The answers sent for each downlink.                                     *)
Replies(answers) == [t \in Downlinks |-> answers[t].confirmed + answers[t].refused]

(* One more job, or one more answer, adds one to the total.                *)
LEMMA OneMoreJob ==
  ASSUME NEW jobs \in [Downlinks -> Nat], NEW t \in Downlinks
  PROVE  /\ [jobs EXCEPT ![t] = @ + 1] \in [Downlinks -> Nat]
         /\ Total([jobs EXCEPT ![t] = @ + 1]) = Total(jobs) + 1
         /\ Total(jobs) \in Nat
<1> DEFINE more == [jobs EXCEPT ![t] = @ + 1]
<1>1. /\ \A s \in Downlinks : jobs[s] \in Nat
      /\ more[t] = jobs[t] + 1 /\ \A s \in Downlinks \ {t} : more[s] = jobs[s]
      /\ more \in [Downlinks -> Nat]
  OBVIOUS
<1> HIDE DEF more
<1>2. SumFunctionOnSet(more, Downlinks) = SumFunctionOnSet(jobs, Downlinks) + 1
  BY <1>1, DownlinksFinite, SumCharge
<1>3. SumFunctionOnSet(jobs, Downlinks) \in Nat
  BY <1>1, DownlinksFinite, SumType
<1> QED BY <1>1, <1>2, <1>3 DEF Total, more

LEMMA OneMoreReply ==
  ASSUME NEW answers \in [Downlinks -> [confirmed : Nat, refused : Nat]],
         NEW t \in Downlinks, NEW verdict \in {"confirmed", "refused"}
  PROVE  LET more == [answers EXCEPT ![t][verdict] = @ + 1]
         IN  /\ more \in [Downlinks -> [confirmed : Nat, refused : Nat]]
             /\ Total(Replies(more)) = Total(Replies(answers)) + 1
             /\ Total(Replies(answers)) \in Nat
<1> DEFINE more == [answers EXCEPT ![t][verdict] = @ + 1]
<1>1. /\ more \in [Downlinks -> [confirmed : Nat, refused : Nat]]
      /\ \A s \in Downlinks \ {t} : more[s] = answers[s]
  OBVIOUS
<1>2. more[t].confirmed + more[t].refused = answers[t].confirmed + answers[t].refused + 1
  <2>1. CASE verdict = "confirmed"
    BY <2>1
  <2>2. CASE verdict = "refused"
    BY <2>2
  <2> QED BY <2>1, <2>2
<1> HIDE DEF more
<1>3. \A s \in Downlinks : Replies(answers)[s] \in Nat
  BY DEF Replies
<1>4. /\ Replies(more)[t] = Replies(answers)[t] + 1
      /\ \A s \in Downlinks \ {t} : Replies(more)[s] = Replies(answers)[s]
  BY <1>1, <1>2 DEF Replies
<1>5. SumFunctionOnSet(Replies(more), Downlinks) = SumFunctionOnSet(Replies(answers), Downlinks) + 1
  BY <1>3, <1>4, DownlinksFinite, SumCharge
<1>6. SumFunctionOnSet(Replies(answers), Downlinks) \in Nat
  BY <1>3, DownlinksFinite, SumType
<1> QED BY <1>1, <1>5, <1>6 DEF Total, more

LEMMA NothingYet ==
  /\ NoJobs \in [Downlinks -> Nat] /\ Total(NoJobs) = 0
  /\ NoAnswers \in [Downlinks -> [confirmed : Nat, refused : Nat]]
  /\ Total(Replies(NoAnswers)) = 0
<1>1. Total(NoJobs) = 0
  BY DownlinksFinite, SumZero DEF Total, NoJobs
<1>2. \A t \in Downlinks : Replies(NoAnswers)[t] = 0
  BY DEF Replies, NoAnswers
<1>3. Total(Replies(NoAnswers)) = 0
  BY <1>2, DownlinksFinite, SumZero DEF Total
<1> QED BY <1>1, <1>3 DEF NoJobs, NoAnswers
(* The part of the invariant about the answers looks at these alone.       *)
AnswerVars == <<accepted, answered, unusable, forwarder.txnb, forwarder.dwnb>>

LEMMA SameAnswers == AcksMatchJobs /\ UNCHANGED AnswerVars => AcksMatchJobs'
<1> SUFFICES ASSUME AcksMatchJobs, UNCHANGED AnswerVars PROVE AcksMatchJobs'
  OBVIOUS
<1>1. Total(Replies(answered))' = Total(Replies(answered)) /\ Total(accepted)' = Total(accepted)
  BY DEF AnswerVars
<1> QED BY <1>1 DEF AcksMatchJobs, AnswerVars, Replies

(* The start of the task, and the radio task's side of the channel.        *)
LEMMA UpstreamResolve == UpstreamIndInv /\ Resolve => UpstreamIndInv'
<1> SUFFICES ASSUME UpstreamIndInv, Resolve PROVE UpstreamIndInv'
  OBVIOUS
<1> USE DEF UpstreamIndInv
<1>1. /\ UNCHANGED StartVars
      /\ task' \in {"resolve", "backoff", "bind", "serving", "ended"}
  BY DEF Resolve
<1>2. UpstreamTypes'
  BY <1>1 DEF UpstreamTypes, StartVars
<1>3. AcksMatchJobs'
  BY <1>1, SameAnswers DEF StartVars, AnswerVars
<1>4. AcksInFlightEarned' /\ KeepaliveRuns'
  BY <1>1 DEF StartVars, AcksInFlightEarned, KeepaliveRuns, Pushes, Acks
<1> QED BY <1>2, <1>3, <1>4

LEMMA UpstreamRadioTakes == UpstreamIndInv /\ RadioTakes => UpstreamIndInv'
<1> SUFFICES ASSUME UpstreamIndInv, RadioTakes PROVE UpstreamIndInv'
  OBVIOUS
<1> USE DEF UpstreamIndInv
<1>1. downlinkQ' \in Seq(Jobs) /\ Len(downlinkQ') <= DownlinkCap
  BY UpstreamAssumption DEF RadioTakes, UpstreamTypes
<1>2. UpstreamTypes'
  BY <1>1 DEF UpstreamTypes, RadioTakes, history
<1>3. AcksMatchJobs'
  BY SameAnswers DEF RadioTakes, history, AnswerVars
<1>4. AcksInFlightEarned' /\ KeepaliveRuns'
  BY DEF RadioTakes, history, AcksInFlightEarned, KeepaliveRuns, Pushes, Acks
<1> QED BY <1>2, <1>3, <1>4

(* A datagram that the gateway sends.                                      *)
LEMMA DatagramSent ==
  ASSUME UpstreamTypes, NEW id \in {"PUSH_DATA", "PULL_DATA"}, NEW token \in 0 .. TokenMod - 1
  PROVE  /\ Datagram(id, token) \in Messages({"PUSH_DATA", "PULL_DATA"})
         /\ Datagram(id, token).boot <= boot
         /\ Datagram(id, token).id = id
BY DEF UpstreamTypes, Datagram, Messages

(* An uplink: its PUSH_DATA is counted as sent and may be acknowledged.    *)
LEMMA UpstreamUplink == UpstreamIndInv /\ Uplink => UpstreamIndInv'
<1> SUFFICES ASSUME UpstreamIndInv, Uplink PROVE UpstreamIndInv'
  OBVIOUS
<1> USE DEF UpstreamIndInv
<1> DEFINE d == Datagram("PUSH_DATA", next_token)
<1>0. forwarder \in ForwarderType
  BY DEF UpstreamTypes
<1>1. next_token \in 0 .. TokenMod - 1
  BY <1>0, LaterToken DEF next_token
<1>2. /\ toServer' = toServer \cup {d}
      /\ forwarder' = [forwarder EXCEPT !.token = next_token, !.rxfw = @ + 1,
                                        !.push_sent = @ + 1]
      /\ UNCHANGED <<toGateway, boot, surplus>>
  BY DEF Uplink, on_uplink
<1>3. /\ forwarder' \in ForwarderType /\ forwarder'.push_sent = forwarder.push_sent + 1
      /\ forwarder'.push_acked = forwarder.push_acked
      /\ forwarder'.txnb = forwarder.txnb /\ forwarder'.dwnb = forwarder.dwnb
  <2>1. forwarder.rxfw + 1 \in Nat /\ forwarder.push_sent + 1 \in Nat
    BY <1>0, CountersNatural
  <2>2. forwarder' = Pushed(forwarder, next_token, forwarder.rxfw + 1, forwarder.push_sent + 1)
    BY <1>2, Zenon DEF Pushed
  <2> HIDE DEF d
  <2>3. PICK n \in 0 .. TokenMod - 1, r \in Nat, k \in Nat :
          n = next_token /\ r = forwarder.rxfw + 1 /\ k = forwarder.push_sent + 1
    BY <1>1, <2>1
  <2>4. forwarder' = Pushed(forwarder, n, r, k)
    BY <2>2, <2>3, Zenon
  <2>5. /\ forwarder' \in ForwarderType /\ forwarder'.push_sent = k
        /\ forwarder'.push_acked = forwarder.push_acked
        /\ forwarder'.txnb = forwarder.txnb /\ forwarder'.dwnb = forwarder.dwnb
    <3>1. /\ Pushed(forwarder, n, r, k) \in ForwarderType
          /\ Pushed(forwarder, n, r, k).push_sent = k
          /\ Pushed(forwarder, n, r, k).push_acked = forwarder.push_acked
          /\ Pushed(forwarder, n, r, k).txnb = forwarder.txnb
          /\ Pushed(forwarder, n, r, k).dwnb = forwarder.dwnb
      BY <1>0, PushCounted
    <3> QED BY <2>4, <3>1, Zenon
  <2> QED BY <2>3, <2>5, Zenon
<1>4. d \in Messages({"PUSH_DATA", "PULL_DATA"}) /\ d.boot <= boot
  BY <1>1, DatagramSent
<1> HIDE DEF d
<1>5. IsFiniteSet(toServer')
  BY <1>2, AddOne DEF UpstreamTypes
<1>6. UpstreamTypes'
  BY <1>2, <1>3, <1>4, <1>5 DEF UpstreamTypes, Uplink
<1>7. AcksMatchJobs'
  BY <1>3, SameAnswers DEF Uplink, AnswerVars
<1>8. AcksInFlightEarned'
  <2>1. Pushes(toServer)' \in {Pushes(toServer) \cup {d}, Pushes(toServer)}
    BY <1>2 DEF Pushes
  <2>2. /\ Cardinality(Pushes(toServer)') <= Cardinality(Pushes(toServer)) + 1
        /\ Cardinality(Pushes(toServer)') \in Nat /\ Cardinality(Pushes(toServer)) \in Nat
    <3>1. IsFiniteSet(Pushes(toServer)) /\ Cardinality(Pushes(toServer)) \in Nat
      BY CountsNatural DEF UpstreamTypes
    <3> QED BY <2>1, <3>1, OneOrNone
  <2>3. Acks(toGateway)' = Acks(toGateway) /\ Cardinality(Acks(toGateway)) \in Nat
    BY <1>2, CountsNatural DEF Acks, UpstreamTypes
  <2>4. forwarder.push_acked \in Nat /\ forwarder.push_sent \in Nat /\ surplus \in Nat
    BY <1>0, CountersNatural DEF UpstreamTypes
  <2>5. forwarder.push_acked + Cardinality(Pushes(toServer)) + Cardinality(Acks(toGateway))
          <= forwarder.push_sent + surplus
    BY DEF AcksInFlightEarned
  <2>6. surplus' = surplus
    BY <1>2
  <2>7. forwarder'.push_acked + Cardinality(Pushes(toServer)') + Cardinality(Acks(toGateway)')
          <= forwarder'.push_sent + surplus'
    BY <1>3, <2>2, <2>3, <2>4, <2>5, <2>6
  <2> QED BY <2>7 DEF AcksInFlightEarned
<1>9. KeepaliveRuns'
  BY DEF Uplink, KeepaliveRuns
<1> QED BY <1>6, <1>7, <1>8, <1>9

(* The tick: of its datagrams only the stat report may be acknowledged     *)
(* with a PUSH_ACK, and it counts as sent.                                 *)
LEMMA UpstreamTick == UpstreamIndInv /\ Tick => UpstreamIndInv'
<1> SUFFICES ASSUME UpstreamIndInv, Tick PROVE UpstreamIndInv'
  OBVIOUS
<1> USE DEF UpstreamIndInv
<1> DEFINE pull == Due(elapsed.pull + 1, PullInterval)
           stat == Due(elapsed.stat + 1, StatInterval)
           pulled == IF pull THEN 1 ELSE 0
           counted == IF stat THEN 1 ELSE 0
           first  == (forwarder.token + 1) % TokenMod
           second == IF pull THEN (forwarder.token + 2) % TokenMod ELSE first
           last == (forwarder.token + pulled + counted) % TokenMod
           p == Datagram("PULL_DATA", first)
           s == Datagram("PUSH_DATA", second)
<1>0. forwarder \in ForwarderType
  BY DEF UpstreamTypes
<1>1. /\ first \in 0 .. TokenMod - 1 /\ second \in 0 .. TokenMod - 1
      /\ last \in 0 .. TokenMod - 1
  <2>1. /\ (forwarder.token + 1) % TokenMod \in 0 .. TokenMod - 1
        /\ (forwarder.token + 2) % TokenMod \in 0 .. TokenMod - 1
    BY <1>0, LaterToken
  <2>2. pulled + counted \in Nat /\ forwarder.token + pulled + counted
                                     = forwarder.token + (pulled + counted)
    <3>1. forwarder.token \in Nat
      BY <1>0, UpstreamAssumption DEF ForwarderType
    <3> QED BY <3>1
  <2> HIDE DEF pulled, counted
  <2>3. last \in 0 .. TokenMod - 1
    BY <1>0, <2>2, LaterToken
  <2> QED BY <2>1, <2>3
<1>2. /\ toServer' = toServer \cup (IF pull THEN {p} ELSE {}) \cup (IF stat THEN {s} ELSE {})
      /\ forwarder' = [forwarder EXCEPT !.token = last,
                                        !.push_sent = IF stat THEN @ + 1 ELSE @]
      /\ elapsed' = [pull |-> IF pull THEN 0 ELSE elapsed.pull + 1,
                     stat |-> IF stat THEN 0 ELSE elapsed.stat + 1]
      /\ quiet' = IF pull THEN 0 ELSE quiet + 1
      /\ UNCHANGED <<task, downlinkQ, dropped, toGateway, boot, sent, surplus, accepted,
                     answered, unusable>>
  BY DEF Tick, on_tick
<1>3. /\ forwarder' \in ForwarderType
      /\ forwarder'.push_sent = forwarder.push_sent + counted
      /\ forwarder'.push_acked = forwarder.push_acked
      /\ forwarder'.txnb = forwarder.txnb /\ forwarder'.dwnb = forwarder.dwnb
  <2>1. (IF stat THEN forwarder.push_sent + 1 ELSE forwarder.push_sent)
          = forwarder.push_sent + counted /\ forwarder.push_sent + counted \in Nat
    BY <1>0, CountersNatural
  <2> HIDE DEF pull, stat, counted, last
  <2>2. forwarder' = Ticked(forwarder, last, forwarder.push_sent + counted)
    BY <1>2, <2>1, Zenon DEF Ticked
  <2> QED BY <1>0, <1>1, <2>1, <2>2, TickCounted
<1>4. /\ p \in Messages({"PUSH_DATA", "PULL_DATA"}) /\ p.boot <= boot /\ p.id = "PULL_DATA"
      /\ s \in Messages({"PUSH_DATA", "PULL_DATA"}) /\ s.boot <= boot /\ s.id = "PUSH_DATA"
  <2> HIDE DEF first, second
  <2> QED BY <1>1, DatagramSent
<1> DEFINE one == toServer \cup (IF pull THEN {p} ELSE {})
<1>5. IsFiniteSet(toServer')
  <2> HIDE DEF p, s, pull, stat
  <2>1. IsFiniteSet(one)
    BY AddOne DEF UpstreamTypes
  <2> HIDE DEF one
  <2>2. IsFiniteSet(one \cup (IF stat THEN {s} ELSE {}))
    BY <2>1, AddOne
  <2> QED BY <1>2, <2>2 DEF one
<1>6. elapsed' \in [pull : Nat, stat : Nat] /\ quiet' \in Nat
  <2> HIDE DEF pull, stat
  <2> QED BY <1>2 DEF UpstreamTypes
<1>7. UpstreamTypes'
  <2> HIDE DEF p, s, pull, stat
  <2> QED BY <1>2, <1>3, <1>4, <1>5, <1>6 DEF UpstreamTypes
<1>8. AcksMatchJobs'
  BY <1>2, <1>3, SameAnswers DEF AnswerVars
<1>9. AcksInFlightEarned'
  <2> HIDE DEF p, s, pull, stat
  <2>1. IF stat THEN Pushes(toServer)' \in {Pushes(toServer) \cup {s}, Pushes(toServer)}
        ELSE Pushes(toServer)' = Pushes(toServer)
    BY <1>2, <1>4 DEF Pushes
  <2>2. /\ Cardinality(Pushes(toServer)') <= Cardinality(Pushes(toServer)) + counted
        /\ Cardinality(Pushes(toServer)') \in Nat /\ Cardinality(Pushes(toServer)) \in Nat
    <3>1. IsFiniteSet(Pushes(toServer)) /\ Cardinality(Pushes(toServer)) \in Nat
      BY CountsNatural DEF UpstreamTypes
    <3>2. CASE stat
      BY <2>1, <3>1, <3>2, OneOrNone
    <3>3. CASE ~stat
      BY <2>1, <3>1, <3>3
    <3> QED BY <3>2, <3>3
  <2>3. Acks(toGateway)' = Acks(toGateway) /\ Cardinality(Acks(toGateway)) \in Nat
    BY <1>2, CountsNatural DEF Acks, UpstreamTypes
  <2>4. counted \in {0, 1}
    OBVIOUS
  <2> HIDE DEF counted
  <2>5. forwarder.push_acked \in Nat /\ forwarder.push_sent \in Nat /\ surplus \in Nat
    BY <1>0, CountersNatural DEF UpstreamTypes
  <2>6. forwarder.push_acked + Cardinality(Pushes(toServer)) + Cardinality(Acks(toGateway))
          <= forwarder.push_sent + surplus
    BY DEF AcksInFlightEarned
  <2>7. surplus' = surplus
    BY <1>2
  <2>8. forwarder'.push_acked + Cardinality(Pushes(toServer)') + Cardinality(Acks(toGateway)')
          <= forwarder'.push_sent + surplus'
    BY <1>3, <2>2, <2>3, <2>4, <2>5, <2>6, <2>7
  <2> QED BY <2>8 DEF AcksInFlightEarned
<1>10. KeepaliveRuns'
  <2>1. elapsed.pull \in Nat /\ quiet \in Nat /\ quiet <= elapsed.pull /\ quiet < PullInterval
    BY DEF UpstreamTypes, KeepaliveRuns
  <2>2. /\ elapsed'.pull = IF pull THEN 0 ELSE elapsed.pull + 1
        /\ quiet' = IF pull THEN 0 ELSE quiet + 1
    BY <1>2
  <2>3. pull <=> elapsed.pull + 1 >= PullInterval
    BY DEF Due
  <2> HIDE DEF pull
  <2> QED BY <2>1, <2>2, <2>3, UpstreamAssumption DEF KeepaliveRuns
<1> QED BY <1>7, <1>8, <1>9, <1>10
(* A reset: every datagram in flight is of an earlier boot from now on, so *)
(* nothing of it is owed to the counters that start again.                 *)
LEMMA UpstreamReset == UpstreamIndInv /\ Reset => UpstreamIndInv'
<1> SUFFICES ASSUME UpstreamIndInv, Reset PROVE UpstreamIndInv'
  OBVIOUS
<1> USE DEF UpstreamIndInv
<1>1. /\ task' = "waitConfig" /\ forwarder' = InitHub.forwarder
      /\ elapsed' = [pull |-> PullInterval, stat |-> 0]
      /\ boot' = boot + 1 /\ downlinkQ' = <<>> /\ dropped' = 0
      /\ quiet' = 0 /\ surplus' = 0 /\ unusable' = 0
      /\ accepted' = NoJobs /\ answered' = NoAnswers
      /\ UNCHANGED <<toServer, toGateway, sent>>
  BY DEF Reset, InitHub
<1>2. /\ forwarder' \in ForwarderType
      /\ forwarder'.push_sent = 0 /\ forwarder'.push_acked = 0
      /\ forwarder'.txnb = 0 /\ forwarder'.dwnb = 0
  BY <1>1, UpstreamAssumption DEF InitHub, ForwarderType
<1>3. UpstreamTypes'
  <2>1. downlinkQ' \in Seq(Jobs) /\ Len(downlinkQ') = 0
    BY <1>1
  <2>2. \A d \in toServer' \cup toGateway' : d.boot <= boot'
    BY <1>1 DEF UpstreamTypes, Messages, PullResps
  <2> QED BY <1>1, <1>2, <2>1, <2>2, NothingYet, UpstreamAssumption DEF UpstreamTypes
<1>4. AcksMatchJobs'
  <2>1. Total(accepted)' = 0 /\ Total(Replies(answered))' = 0
    BY <1>1, NothingYet
  <2>2. \A t \in Downlinks : answered'[t].confirmed = accepted'[t]
    BY <1>1 DEF NoJobs, NoAnswers
  <2> QED BY <1>1, <1>2, <2>1, <2>2 DEF AcksMatchJobs, Replies
<1>5. AcksInFlightEarned'
  <2>1. Pushes(toServer)' = {} /\ Acks(toGateway)' = {}
    BY <1>1 DEF Pushes, Acks, UpstreamTypes, Messages, PullResps
  <2> QED BY <1>1, <1>2, <2>1, FS_EmptySet DEF AcksInFlightEarned
<1>6. KeepaliveRuns'
  BY <1>1, UpstreamAssumption DEF KeepaliveRuns
<1> QED BY <1>3, <1>4, <1>5, <1>6

(* The server acknowledges a datagram: what it owed for the PUSH_DATA is   *)
(* now in flight the other way.                                            *)
LEMMA UpstreamServerRecv ==
  ASSUME UpstreamIndInv, NEW d \in toServer, ServerRecv(d)
  PROVE  UpstreamIndInv'
<1> USE DEF UpstreamIndInv
<1> DEFINE ack == [d EXCEPT !.id = IF @ = "PUSH_DATA" THEN "PUSH_ACK" ELSE "PULL_ACK"]
<1>1. /\ toServer' = toServer \ {d} /\ toGateway' = toGateway \cup {ack}
      /\ UNCHANGED <<NetVars, sent>>
  BY DEF ServerRecv
<1>2. /\ ack \in Messages({"PUSH_ACK", "PULL_ACK"}) /\ ack.boot <= boot /\ ack.boot = d.boot
      /\ ack.id = "PUSH_ACK" <=> d.id = "PUSH_DATA"
  BY DEF UpstreamTypes, Messages
<1> HIDE DEF ack
<1>3. IsFiniteSet(toServer') /\ IsFiniteSet(toGateway')
  BY <1>1, AddOne, TakeOne DEF UpstreamTypes
<1>4. UpstreamTypes'
  BY <1>1, <1>2, <1>3 DEF UpstreamTypes, NetVars
<1>5. AcksMatchJobs'
  BY <1>1, SameAnswers DEF NetVars, AnswerVars
<1>6. AcksInFlightEarned'
  <2>1. UNCHANGED boot
    BY <1>1 DEF NetVars
  <2>2. /\ Cardinality(Pushes(toServer)) \in Nat /\ Cardinality(Acks(toGateway)) \in Nat
        /\ IsFiniteSet(Pushes(toServer)) /\ IsFiniteSet(Acks(toGateway))
    BY CountsNatural DEF UpstreamTypes
  <2>3. Pushes(toServer)' = Pushes(toServer) \ {d}
    BY <1>1, <2>1 DEF Pushes
  <2>4. CASE d \in Pushes(toServer)
    <3>1. Acks(toGateway)' \in {Acks(toGateway) \cup {ack}, Acks(toGateway)}
      BY <1>1, <2>1 DEF Acks
    <3>2. /\ Cardinality(Pushes(toServer)') = Cardinality(Pushes(toServer)) - 1
          /\ Cardinality(Acks(toGateway)') <= Cardinality(Acks(toGateway)) + 1
          /\ Cardinality(Acks(toGateway)') \in Nat
      <4>1. Cardinality(Pushes(toServer) \ {d}) = Cardinality(Pushes(toServer)) - 1
        BY <2>2, <2>4, TakeOne
      <4>2. Cardinality(Acks(toGateway)') <= Cardinality(Acks(toGateway)) + 1
            /\ Cardinality(Acks(toGateway)') \in Nat
        BY <2>2, <3>1, OneOrNone
      <4> QED BY <2>3, <4>1, <4>2
    <3>3. forwarder.push_acked \in Nat /\ forwarder.push_sent \in Nat /\ surplus \in Nat
      BY CountersNatural DEF UpstreamTypes
    <3>4. forwarder.push_acked + Cardinality(Pushes(toServer)) + Cardinality(Acks(toGateway))
            <= forwarder.push_sent + surplus
      BY DEF AcksInFlightEarned
    <3>5. forwarder' = forwarder /\ surplus' = surplus
      BY <1>1 DEF NetVars
    <3>6. forwarder.push_acked + Cardinality(Pushes(toServer)') + Cardinality(Acks(toGateway)')
            <= forwarder.push_sent + surplus
      BY <2>2, <3>2, <3>3, <3>4
    <3> QED BY <3>5, <3>6 DEF AcksInFlightEarned
  <2>5. CASE d \notin Pushes(toServer)
    <3>1. Pushes(toServer)' = Pushes(toServer)
      BY <2>3, <2>5
    <3>2. Acks(toGateway)' = Acks(toGateway)
      BY <1>1, <1>2, <2>1, <2>5 DEF Acks, Pushes
    <3> QED BY <1>1, <3>1, <3>2 DEF AcksInFlightEarned, NetVars
  <2> QED BY <2>4, <2>5
<1>7. KeepaliveRuns'
  BY <1>1 DEF NetVars, KeepaliveRuns
<1> QED BY <1>4, <1>5, <1>6, <1>7

LEMMA UpstreamServerSend ==
  ASSUME UpstreamIndInv, NEW txpk \in Txpks, ServerSend(txpk)
  PROVE  UpstreamIndInv'
<1> USE DEF UpstreamIndInv
<1> DEFINE d == [id |-> "PULL_RESP", token |-> sent + 1, boot |-> boot, txpk |-> txpk]
<1>1. /\ toGateway' = toGateway \cup {d} /\ sent < MaxDownlinks /\ sent' = sent + 1
      /\ UNCHANGED <<NetVars, toServer>>
  BY DEF ServerSend
<1>2. d \in PullResps /\ d.boot <= boot /\ d.id = "PULL_RESP" /\ sent' \in 0 .. MaxDownlinks
  BY <1>1, UpstreamAssumption DEF UpstreamTypes, PullResps, Downlinks
<1> HIDE DEF d
<1>3. IsFiniteSet(toGateway')
  BY <1>1, AddOne DEF UpstreamTypes
<1>4. UpstreamTypes'
  BY <1>1, <1>2, <1>3 DEF UpstreamTypes, NetVars
<1>5. AcksMatchJobs'
  BY <1>1, SameAnswers DEF NetVars, AnswerVars
<1>6. AcksInFlightEarned'
  <2>1. Pushes(toServer)' = Pushes(toServer) /\ Acks(toGateway)' = Acks(toGateway)
    BY <1>1, <1>2 DEF NetVars, Pushes, Acks
  <2> QED BY <1>1, <2>1 DEF NetVars, AcksInFlightEarned
<1>7. KeepaliveRuns'
  BY <1>1 DEF NetVars, KeepaliveRuns
<1> QED BY <1>4, <1>5, <1>6, <1>7
(* What a handler leaves behind whichever datagram it was given: counters, *)
(* jobs and answers of the right kind, and answers that say what happened. *)
Handled(d) ==
  /\ forwarder' \in ForwarderType /\ forwarder'.push_sent = forwarder.push_sent
  /\ forwarder'.push_acked = forwarder.push_acked + (IF d.id = "PUSH_ACK" THEN 1 ELSE 0)
  /\ downlinkQ' \in Seq(Jobs) /\ Len(downlinkQ') <= DownlinkCap
  /\ dropped' \in Nat /\ unusable' \in Nat
  /\ accepted' \in [Downlinks -> Nat]
  /\ answered' \in [Downlinks -> [confirmed : Nat, refused : Nat]]
  /\ AcksMatchJobs'

LEMMA UpstreamOnAck ==
  ASSUME UpstreamIndInv, NEW d, OnAck(d)
  PROVE  Handled(d)
<1> USE DEF UpstreamIndInv
<1>1. /\ forwarder' = IF d.id = "PUSH_ACK" THEN [forwarder EXCEPT !.push_acked = @ + 1]
                      ELSE forwarder
      /\ UNCHANGED <<downlinkQ, dropped, accepted, answered, unusable>>
  BY DEF OnAck, CountAck
<1>2. /\ forwarder' \in ForwarderType /\ forwarder'.push_sent = forwarder.push_sent
      /\ forwarder'.push_acked = forwarder.push_acked + (IF d.id = "PUSH_ACK" THEN 1 ELSE 0)
      /\ UNCHANGED <<forwarder.txnb, forwarder.dwnb>>
  <2>1. forwarder \in ForwarderType
    BY DEF UpstreamTypes
  <2>2. forwarder.push_acked \in Nat /\ forwarder.push_acked + 1 \in Nat
    BY <2>1, CountersNatural, Zenon
  <2>3. CASE d.id = "PUSH_ACK"
    <3>1. forwarder' = Acked(forwarder, forwarder.push_acked + 1)
      BY <1>1, <2>3, Zenon DEF Acked
    <3>2. /\ forwarder' \in ForwarderType
          /\ forwarder'.push_sent = forwarder.push_sent
          /\ forwarder'.push_acked = forwarder.push_acked + 1
          /\ forwarder'.txnb = forwarder.txnb /\ forwarder'.dwnb = forwarder.dwnb
      BY <2>1, <2>2, <3>1, AckCounted
    <3> QED BY <2>3, <3>2
  <2>4. CASE d.id # "PUSH_ACK"
    <3>1. forwarder' = forwarder
      BY <1>1, <2>4
    <3> QED BY <2>1, <2>2, <2>4, <3>1
  <2> QED BY <2>3, <2>4
<1>3. AcksMatchJobs'
  BY <1>1, <1>2, SameAnswers DEF AnswerVars
<1> QED BY <1>1, <1>2, <1>3 DEF Handled, UpstreamTypes

(* One answer for a PULL_RESP: which one, and whether it queued a job.     *)
Answers(t, verdict, jobs) ==
  /\ forwarder' \in ForwarderType
  /\ forwarder'.push_sent = forwarder.push_sent
  /\ forwarder'.push_acked = forwarder.push_acked
  /\ forwarder'.dwnb = forwarder.dwnb + 1 /\ forwarder'.txnb = forwarder.txnb + jobs
  /\ answered' = [answered EXCEPT ![t][verdict] = @ + 1]
  /\ accepted' = IF jobs = 1 THEN [accepted EXCEPT ![t] = @ + 1] ELSE accepted
  /\ UNCHANGED unusable

LEMMA AnswersMatch ==
  ASSUME UpstreamIndInv, NEW t \in Downlinks, NEW verdict \in {"confirmed", "refused"},
         NEW jobs \in {0, 1}, jobs = 1 <=> verdict = "confirmed", Answers(t, verdict, jobs)
  PROVE  /\ forwarder' \in ForwarderType
         /\ forwarder'.push_sent = forwarder.push_sent
         /\ forwarder'.push_acked = forwarder.push_acked
         /\ accepted' \in [Downlinks -> Nat]
         /\ answered' \in [Downlinks -> [confirmed : Nat, refused : Nat]]
         /\ AcksMatchJobs'
<1> USE DEF UpstreamIndInv
<1>1. /\ forwarder' \in ForwarderType
      /\ forwarder'.push_sent = forwarder.push_sent
      /\ forwarder'.push_acked = forwarder.push_acked
      /\ forwarder'.dwnb = forwarder.dwnb + 1
      /\ forwarder'.txnb = forwarder.txnb + jobs
  BY DEF Answers
<1>2. /\ accepted \in [Downlinks -> Nat]
      /\ answered \in [Downlinks -> [confirmed : Nat, refused : Nat]]
      /\ unusable \in Nat
  BY DEF UpstreamTypes
<1>3. /\ answered' \in [Downlinks -> [confirmed : Nat, refused : Nat]]
      /\ Total(Replies(answered)') = Total(Replies(answered)) + 1
      /\ Total(Replies(answered)) \in Nat
  <2> DEFINE more == [answered EXCEPT ![t][verdict] = @ + 1]
  <2>1. /\ more \in [Downlinks -> [confirmed : Nat, refused : Nat]]
        /\ Total(Replies(more)) = Total(Replies(answered)) + 1
        /\ Total(Replies(answered)) \in Nat
    BY <1>2, OneMoreReply
  <2>2. answered' = more
    BY DEF Answers
  <2> HIDE DEF more
  <2>3. Replies(answered)' = Replies(more)
    BY <2>2 DEF Replies
  <2> QED BY <2>1, <2>2, <2>3
<1>4. accepted' \in [Downlinks -> Nat] /\ Total(accepted') = Total(accepted) + jobs
      /\ Total(accepted) \in Nat
  <2>1. CASE jobs = 1
    BY <1>2, <2>1, OneMoreJob DEF Answers
  <2>2. CASE jobs = 0
    <3>1. Total(accepted) \in Nat
      BY <1>2, OneMoreJob
    <3>2. accepted' = accepted
      BY <2>2 DEF Answers
    <3> QED BY <1>2, <2>2, <3>1, <3>2
  <2> QED BY <2>1, <2>2
<1>5. \A s \in Downlinks : answered'[s].confirmed = accepted'[s]
  <2> SUFFICES ASSUME NEW s \in Downlinks PROVE answered'[s].confirmed = accepted'[s]
    OBVIOUS
  <2>1. answered[s].confirmed = accepted[s]
    BY DEF AcksMatchJobs
  <2>2. CASE verdict = "confirmed"
    BY <1>2, <2>1, <2>2 DEF Answers
  <2>3. CASE verdict = "refused"
    BY <1>2, <2>1, <2>3 DEF Answers
  <2> QED BY <2>2, <2>3
<1>6. AcksMatchJobs'
  <2>1. Total(Replies(answered))' = Total(Replies(answered)) + 1
        /\ Total(accepted)' = Total(accepted) + jobs
    BY <1>3, <1>4 DEF Total
  <2>2. forwarder.txnb = Total(accepted) /\ forwarder.dwnb = Total(Replies(answered)) + unusable
    BY DEF AcksMatchJobs, Replies
  <2>3. unusable' = unusable
    BY DEF Answers
  <2>4. /\ forwarder'.txnb = Total(accepted)'
        /\ forwarder'.dwnb = Total(Replies(answered))' + unusable'
    BY <1>1, <1>2, <1>3, <1>4, <2>1, <2>2, <2>3
  <2> QED BY <1>5, <2>4 DEF AcksMatchJobs, Replies
<1> QED BY <1>1, <1>3, <1>4, <1>6

(* A refusal counts the PULL_RESP and no job.                              *)
LEMMA RefusalAnswers ==
  ASSUME forwarder \in ForwarderType, forwarder' = [forwarder EXCEPT !.dwnb = @ + 1]
  PROVE  /\ forwarder' \in ForwarderType /\ forwarder'.push_sent = forwarder.push_sent
         /\ forwarder'.push_acked = forwarder.push_acked
         /\ forwarder'.dwnb = forwarder.dwnb + 1 /\ forwarder'.txnb = forwarder.txnb + 0
<1>1. /\ forwarder' \in ForwarderType /\ forwarder'.push_sent = forwarder.push_sent
      /\ forwarder'.push_acked = forwarder.push_acked
      /\ forwarder'.dwnb = forwarder.dwnb + 1 /\ forwarder'.txnb = forwarder.txnb
  <2>1. forwarder.dwnb + 1 \in Nat
    BY CountersNatural
  <2>2. forwarder' = Refused(forwarder, forwarder.dwnb + 1)
    BY Zenon DEF Refused
  <2> QED BY <2>1, <2>2, RefusalCounted
<1>2. forwarder.txnb \in Nat
  BY CountersNatural
<1> QED BY <1>1, <1>2

\* A PULL_RESP that becomes a job counts as one more of each.
LEMMA JobAnswers ==
  ASSUME forwarder \in ForwarderType,
         forwarder' = [forwarder EXCEPT !.dwnb = @ + 1, !.txnb = @ + 1]
  PROVE  /\ forwarder' \in ForwarderType
         /\ forwarder'.push_sent = forwarder.push_sent
         /\ forwarder'.push_acked = forwarder.push_acked
         /\ forwarder'.dwnb = forwarder.dwnb + 1 /\ forwarder'.txnb = forwarder.txnb + 1
<1>1. forwarder.dwnb + 1 \in Nat /\ forwarder.txnb + 1 \in Nat
  BY CountersNatural
<1>2. forwarder' = Queued(forwarder, forwarder.dwnb + 1, forwarder.txnb + 1)
  BY Zenon DEF Queued
<1> QED BY <1>1, <1>2, JobCounted

LEMMA UpstreamOnPullResp ==
  ASSUME UpstreamIndInv, NEW d \in toGateway, OnPullResp(d)
  PROVE  Handled(d)
<1> USE DEF UpstreamIndInv
<1>1. d.id = "PULL_RESP" /\ d.id # "PUSH_ACK" /\ d.token \in Downlinks /\ d.txpk \in Txpks
  BY DEF OnPullResp, UpstreamTypes, Messages, PullResps
<1>2. /\ downlinkQ \in Seq(Jobs) /\ Len(downlinkQ) <= DownlinkCap
      /\ dropped \in Nat /\ unusable \in Nat /\ forwarder \in ForwarderType
      /\ accepted \in [Downlinks -> Nat]
      /\ answered \in [Downlinks -> [confirmed : Nat, refused : Nat]]
  BY DEF UpstreamTypes
<1>3. forwarder.push_acked \in Nat
  BY <1>2 DEF ForwarderType
<1>4. ASSUME forwarder' = [forwarder EXCEPT !.dwnb = @ + 1], unusable' = unusable + 1,
             UNCHANGED <<downlinkQ, dropped, accepted, answered>>
      PROVE  Handled(d)
  <2>1. /\ forwarder' \in ForwarderType
        /\ forwarder'.push_sent = forwarder.push_sent
        /\ forwarder'.push_acked = forwarder.push_acked
        /\ forwarder'.dwnb = forwarder.dwnb + 1
        /\ forwarder'.txnb = forwarder.txnb
    <3>1. forwarder.dwnb + 1 \in Nat
      BY <1>2, CountersNatural
    <3>2. forwarder' = Refused(forwarder, forwarder.dwnb + 1)
      BY <1>4, Zenon DEF Refused
    <3> QED BY <1>2, <3>1, <3>2, RefusalCounted
  <2>2. Total(Replies(answered)) \in Nat
    BY <1>1, <1>2, OneMoreReply
  <2>3. Total(Replies(answered))' = Total(Replies(answered)) /\ Total(accepted)' = Total(accepted)
    BY <1>4
  <2>4. forwarder.txnb = Total(accepted) /\ forwarder.dwnb = Total(Replies(answered)) + unusable
    BY DEF AcksMatchJobs, Replies
  <2>5. /\ forwarder'.txnb = Total(accepted)'
        /\ forwarder'.dwnb = Total(Replies(answered))' + unusable'
    BY <1>2, <1>4, <2>1, <2>2, <2>3, <2>4
  <2>6. \A s \in Downlinks : answered'[s].confirmed = accepted'[s]
    BY <1>4 DEF AcksMatchJobs
  <2>7. AcksMatchJobs'
    BY <2>5, <2>6 DEF AcksMatchJobs, Replies
  <2> QED BY <1>1, <1>2, <1>3, <1>4, <2>1, <2>7 DEF Handled
<1>5. ASSUME NEW error \in Refusals(parse_txpk(d.txpk)), Reply(d, error),
             forwarder' = [forwarder EXCEPT !.dwnb = @ + 1],
             UNCHANGED <<downlinkQ, dropped, accepted, unusable>>
      PROVE  Handled(d)
  <2>1. error # "NONE"
    BY <1>5 DEF Refusals
  <2>2. answered' = [answered EXCEPT ![d.token]["refused"] = @ + 1]
    BY <1>5, <2>1 DEF Reply
  <2>3. /\ forwarder' \in ForwarderType /\ forwarder'.push_sent = forwarder.push_sent
        /\ forwarder'.push_acked = forwarder.push_acked
        /\ forwarder'.dwnb = forwarder.dwnb + 1 /\ forwarder'.txnb = forwarder.txnb + 0
    BY <1>2, <1>5, RefusalAnswers
  <2>4. Answers(d.token, "refused", 0)
    BY <1>5, <2>2, <2>3 DEF Answers
  <2>5. /\ forwarder' \in ForwarderType /\ forwarder'.push_sent = forwarder.push_sent
        /\ forwarder'.push_acked = forwarder.push_acked
        /\ accepted' \in [Downlinks -> Nat]
        /\ answered' \in [Downlinks -> [confirmed : Nat, refused : Nat]]
        /\ AcksMatchJobs'
    BY <1>1, <2>4, AnswersMatch
  <2> QED BY <1>1, <1>2, <1>3, <1>5, <2>5 DEF Handled
<1>6. ASSUME Usable(d.txpk), Queue(d, DownlinkJob(d.token, parse_txpk(d.txpk))),
             UNCHANGED unusable
      PROVE  Handled(d)
  <2> DEFINE job == DownlinkJob(d.token, parse_txpk(d.txpk))
  <2>1. job \in Jobs
    BY <1>1, <1>6 DEF Jobs
  <2> HIDE DEF job
  <2>2. CASE Len(downlinkQ) < DownlinkCap
    <3>1. /\ downlinkQ' = Append(downlinkQ, job)
          /\ accepted' = [accepted EXCEPT ![d.token] = @ + 1]
          /\ forwarder' = [forwarder EXCEPT !.dwnb = @ + 1, !.txnb = @ + 1]
          /\ answered' = [answered EXCEPT ![d.token]["confirmed"] = @ + 1]
          /\ UNCHANGED dropped
      BY <1>6, <2>2 DEF Queue, Reply, job
    <3>2. /\ forwarder' \in ForwarderType /\ forwarder'.push_sent = forwarder.push_sent
          /\ forwarder'.push_acked = forwarder.push_acked
          /\ forwarder'.dwnb = forwarder.dwnb + 1 /\ forwarder'.txnb = forwarder.txnb + 1
      BY <1>2, <3>1, JobAnswers
    <3>3. Answers(d.token, "confirmed", 1)
      BY <1>6, <3>1, <3>2 DEF Answers
    <3>4. /\ forwarder' \in ForwarderType /\ forwarder'.push_sent = forwarder.push_sent
          /\ forwarder'.push_acked = forwarder.push_acked
          /\ accepted' \in [Downlinks -> Nat]
          /\ answered' \in [Downlinks -> [confirmed : Nat, refused : Nat]]
          /\ AcksMatchJobs'
      BY <1>1, <3>3, AnswersMatch
    <3>5. downlinkQ' \in Seq(Jobs) /\ Len(downlinkQ') <= DownlinkCap
      BY <1>2, <2>1, <2>2, <3>1, UpstreamAssumption
    <3>6. dropped' \in Nat /\ unusable' \in Nat
      BY <1>2, <1>6, <3>1
    <3>7. forwarder'.push_acked = forwarder.push_acked + (IF d.id = "PUSH_ACK" THEN 1 ELSE 0)
      BY <1>1, <1>3, <3>4
    <3> QED BY <3>4, <3>5, <3>6, <3>7 DEF Handled
  <2>3. CASE ~(Len(downlinkQ) < DownlinkCap)
    <3>1. /\ dropped' = dropped + 1
          /\ forwarder' = [forwarder EXCEPT !.dwnb = @ + 1]
          /\ answered' = [answered EXCEPT ![d.token]["refused"] = @ + 1]
          /\ UNCHANGED <<downlinkQ, accepted>>
      BY <1>6, <2>3 DEF Queue, Reply
    <3>2. /\ forwarder' \in ForwarderType /\ forwarder'.push_sent = forwarder.push_sent
          /\ forwarder'.push_acked = forwarder.push_acked
          /\ forwarder'.dwnb = forwarder.dwnb + 1 /\ forwarder'.txnb = forwarder.txnb + 0
      BY <1>2, <3>1, RefusalAnswers
    <3>3. Answers(d.token, "refused", 0)
      BY <1>6, <3>1, <3>2 DEF Answers
    <3>4. /\ forwarder' \in ForwarderType /\ forwarder'.push_sent = forwarder.push_sent
          /\ forwarder'.push_acked = forwarder.push_acked
          /\ accepted' \in [Downlinks -> Nat]
          /\ answered' \in [Downlinks -> [confirmed : Nat, refused : Nat]]
          /\ AcksMatchJobs'
      BY <1>1, <3>3, AnswersMatch
    <3>5. downlinkQ' \in Seq(Jobs) /\ Len(downlinkQ') <= DownlinkCap
      BY <1>2, <3>1
    <3>6. dropped' \in Nat /\ unusable' \in Nat
      BY <1>2, <1>6, <3>1
    <3>7. forwarder'.push_acked = forwarder.push_acked + (IF d.id = "PUSH_ACK" THEN 1 ELSE 0)
      BY <1>1, <1>3, <3>4
    <3> QED BY <3>4, <3>5, <3>6, <3>7 DEF Handled
  <2> QED BY <2>2, <2>3
<1> QED BY <1>4, <1>5, <1>6 DEF OnPullResp

(* A datagram is delivered, and perhaps delivered again: the counter of    *)
(* the surplus takes what the invariant cannot account for.                *)
LEMMA UpstreamRecv ==
  ASSUME UpstreamIndInv, NEW d \in toGateway, Recv(d)
  PROVE  UpstreamIndInv'
<1> USE DEF UpstreamIndInv
<1>1. Handled(d)
  BY UpstreamOnAck, UpstreamOnPullResp DEF Recv
<1>2. /\ toGateway' = toGateway \ {d} \/ toGateway' = toGateway
      /\ surplus' = IF d.id = "PUSH_ACK" /\ (d.boot # boot \/ toGateway' = toGateway)
                    THEN surplus + 1 ELSE surplus
      /\ UNCHANGED <<toServer, task, elapsed, boot, quiet, sent>>
  BY DEF Recv
<1>3. IsFiniteSet(toGateway') /\ toGateway' \subseteq toGateway
  BY <1>2, TakeOne DEF UpstreamTypes
<1>4. UpstreamTypes'
  BY <1>1, <1>2, <1>3 DEF UpstreamTypes, Handled
<1>5. AcksMatchJobs'
  BY <1>1 DEF Handled
<1>6. AcksInFlightEarned'
  <2>1. Pushes(toServer)' = Pushes(toServer)
    BY <1>2 DEF Pushes
  <2>2. /\ Cardinality(Pushes(toServer)) \in Nat /\ Cardinality(Acks(toGateway)) \in Nat
        /\ IsFiniteSet(Acks(toGateway))
    BY CountsNatural DEF UpstreamTypes
  <2>3. /\ forwarder'.push_sent = forwarder.push_sent
        /\ forwarder'.push_acked = forwarder.push_acked + (IF d.id = "PUSH_ACK" THEN 1 ELSE 0)
        /\ forwarder.push_acked \in Nat /\ forwarder.push_sent \in Nat /\ surplus \in Nat
    BY <1>1 DEF Handled, UpstreamTypes, ForwarderType
  <2>4. CASE toGateway' = toGateway
    <3>1. Acks(toGateway)' = Acks(toGateway)
      BY <1>2, <2>4 DEF Acks
    <3> QED BY <1>2, <2>1, <2>2, <2>3, <2>4, <3>1 DEF AcksInFlightEarned
  <2>5. CASE toGateway' # toGateway
    <3>1. Acks(toGateway)' = Acks(toGateway) \ {d}
      BY <1>2, <2>5 DEF Acks
    <3>2. Cardinality(Acks(toGateway)')
            = IF d.id = "PUSH_ACK" /\ d.boot = boot THEN Cardinality(Acks(toGateway)) - 1
              ELSE Cardinality(Acks(toGateway))
      BY <2>2, <3>1, TakeOne DEF Acks
    <3> QED BY <1>2, <2>1, <2>2, <2>3, <2>5, <3>2 DEF AcksInFlightEarned
  <2> QED BY <2>4, <2>5
<1>7. KeepaliveRuns'
  BY <1>2 DEF KeepaliveRuns
<1> QED BY <1>4, <1>5, <1>6, <1>7

LEMMA UpstreamInvariant == Spec => []UpstreamIndInv
<1>1. Init => UpstreamIndInv
  <2> SUFFICES ASSUME Init PROVE UpstreamIndInv
    OBVIOUS
  <2>1. UpstreamTypes
    BY NothingYet, FS_EmptySet, UpstreamAssumption
       DEF Init, InitHub, UpstreamTypes, ForwarderType
  <2>2. AcksMatchJobs
    <3>1. Total(Replies(answered)) = 0 /\ Total(accepted) = 0
      BY NothingYet DEF Init
    <3> QED BY <3>1 DEF Init, InitHub, AcksMatchJobs, Replies, NoJobs, NoAnswers
  <2>3. Pushes(toServer) = {} /\ Acks(toGateway) = {}
    BY DEF Init, Pushes, Acks
  <2>4. Cardinality(Pushes(toServer)) = 0 /\ Cardinality(Acks(toGateway)) = 0
    BY <2>3, FS_EmptySet, Zenon
  <2>5. AcksInFlightEarned /\ KeepaliveRuns
    <3>1. forwarder.push_acked = 0 /\ forwarder.push_sent = 0 /\ elapsed.pull = PullInterval
          /\ quiet = 0 /\ surplus = 0
      BY DEF Init, InitHub
    <3> QED BY <2>4, <3>1, UpstreamAssumption DEF AcksInFlightEarned, KeepaliveRuns
  <2> QED BY <2>1, <2>2, <2>5 DEF UpstreamIndInv
<1>2. UpstreamIndInv /\ [Next]_vars => UpstreamIndInv'
  <2> SUFFICES ASSUME UpstreamIndInv, [Next]_vars PROVE UpstreamIndInv'
    OBVIOUS
  <2>1. CASE UNCHANGED vars
    <3>1. UpstreamTypes'
      BY <2>1 DEF vars, history, UpstreamIndInv, UpstreamTypes
    <3>2. AcksMatchJobs'
      BY <2>1, SameAnswers DEF vars, history, UpstreamIndInv, AnswerVars
    <3>3. AcksInFlightEarned' /\ KeepaliveRuns'
      BY <2>1 DEF vars, history, UpstreamIndInv, AcksInFlightEarned, KeepaliveRuns, Pushes,
                  Acks
    <3> QED BY <3>1, <3>2, <3>3 DEF UpstreamIndInv
  <2>2. ASSUME NEW d \in toGateway, Recv(d) PROVE UpstreamIndInv'
    BY <2>2, UpstreamRecv
  <2>3. ASSUME NEW d \in toServer, ServerRecv(d) PROVE UpstreamIndInv'
    BY <2>3, UpstreamServerRecv
  <2>4. ASSUME NEW txpk \in Txpks, ServerSend(txpk) PROVE UpstreamIndInv'
    BY <2>4, UpstreamServerSend
  <2> QED BY <2>1, <2>2, <2>3, <2>4, UpstreamResolve, UpstreamUplink, UpstreamTick,
             UpstreamRadioTakes, UpstreamReset DEF Next
<1> QED BY <1>1, <1>2, PTL DEF Spec

(* Over any network, TX_ACKs say what happened to each PULL_RESP, only     *)
(* surplus acknowledgements can lift the ratio of the stat report over     *)
(* 100 %, and the pinhole of the network is held open.                     *)
THEOREM Upstream_Correct == Spec => []UpstreamInv
<1>1. UpstreamIndInv => UpstreamInv
  <2> SUFFICES ASSUME UpstreamIndInv PROVE UpstreamInv
    OBVIOUS
  <2>1. TypeOK
    BY DEF UpstreamIndInv, UpstreamTypes, ForwarderType, TypeOK
  <2>2. AcksEarned
    <3>1. Cardinality(Pushes(toServer)) \in Nat /\ Cardinality(Acks(toGateway)) \in Nat
      BY CountsNatural DEF UpstreamIndInv, UpstreamTypes
    <3>2. forwarder.push_acked \in Nat /\ forwarder.push_sent \in Nat /\ surplus \in Nat
      BY DEF UpstreamIndInv, UpstreamTypes, ForwarderType
    <3>3. forwarder.push_acked + Cardinality(Pushes(toServer)) + Cardinality(Acks(toGateway))
            <= forwarder.push_sent + surplus
      BY DEF UpstreamIndInv, AcksInFlightEarned
    <3> QED BY <3>1, <3>2, <3>3 DEF AcksEarned
  <2> QED BY <2>1, <2>2 DEF UpstreamIndInv, KeepaliveRuns, HoldsPinhole, UpstreamInv
<1> QED BY <1>1, UpstreamInvariant, PTL

(* A downlink is never charged less than the SX1262 then sends it for,     *)
(* whatever its spreading factor, coding rate, preamble and length.        *)
THEOREM Claim_Covers == ASSUME ExactRequests PROVE Spec => []ClaimCovers
<1>1. ASSUME NEW job \in Jobs PROVE 1000 * job.claim >= OnAirUs(job.config, job.len)
  <2>1. PICK t \in Downlinks, txpk \in {x \in Txpks : Usable(x)} :
          job = DownlinkJob(t, parse_txpk(txpk))
    BY DEF Jobs
  <2>2. /\ txpk.datr.sf \in 5 .. 12 /\ txpk.len \in Nat \ {0}
        /\ WholeMicroseconds(txpk.datr.bw)
        /\ OrElse(txpk.prea, 8) \in Nat
    BY ExactRequests DEF ExactRequests, Usable, parse_datr, OrElse
  <2>3. /\ job.len = txpk.len
        /\ job.config.spreading_factor = txpk.datr.sf
        /\ job.config.bandwidth_khz = txpk.datr.bw
        /\ job.config.preamble_len = OrElse(txpk.prea, 8)
        /\ job.config.crc_on = FALSE
        /\ job.claim = time_on_air_ms_ext(job.config.spreading_factor,
                                          job.config.bandwidth_khz, job.config.coding_rate,
                                          job.len, job.config.preamble_len, job.config.crc_on)
    BY <2>1 DEF DownlinkJob, Claim, parse_txpk
  <2> QED BY <2>2, <2>3, AirtimeCovers
<1>2. UpstreamIndInv => ClaimCovers
  BY <1>1 DEF UpstreamIndInv, UpstreamTypes, ClaimCovers
<1> QED BY <1>2, UpstreamInvariant, PTL
================================================================================
