------------------------- MODULE RequestGuardsProofs -------------------------
(***************************************************************************)
(* The limits of the rate limiter for any clients, keys, logins and any    *)
(* requests, limit and window.                                             *)
(*                                                                         *)
(* The invariant relates three things: the store within its limits and     *)
(* with the number of keys it has (StoreOK); the hits it holds and the     *)
(* history of what was admitted, each a bound on the other within every    *)
(* window still open (HitsInv, CountsInv); and the failures of a pair with *)
(* the logins that have looked at its counter (FailuresInv).  What the     *)
(* functions of a store do to it is said once, for any store: they only    *)
(* take counters away (Shrunk), never a live one (LiveKept, Ready), or     *)
(* take a live one from a heavier client (Admits).                         *)
(***************************************************************************)
EXTENDS RequestGuards, FiniteSetTheorems, TLAPS

-----------------------------------------------------------------------------
(* The laws of sums (Totals) *)

(* The units of a finite set of rows are finitely many. *)
LEMMA UnitsFinite ==
  ASSUME NEW S, IsFiniteSet(S), NEW f, \A x \in S : f[x] \in Nat
  PROVE  IsFiniteSet(Units(S, f))
<1> DEFINE family == {{x} \X (1 .. f[x]) : x \in S}
           g == [x \in S |-> {x} \X (1 .. f[x])]
<1>1. g \in Surjection(S, family)
  BY DEF Surjection
<1>2. IsFiniteSet(family)
  BY <1>1, FS_Surjection
<1>3. ASSUME NEW T \in family PROVE IsFiniteSet(T)
  <2>1. PICK x \in S : T = {x} \X (1 .. f[x])
    OBVIOUS
  <2>2. IsFiniteSet({x})
    BY FS_Singleton
  <2>3. IsFiniteSet(1 .. f[x])
    BY f[x] \in Nat, FS_Interval
  <2> QED BY <2>1, <2>2, <2>3, FS_Product
<1> QED BY <1>2, <1>3, FS_UNION DEF Units

(* A sum over a finite set of rows is a natural number. *)
LEMMA TotalType ==
  ASSUME NEW S, IsFiniteSet(S), NEW f, \A x \in S : f[x] \in Nat
  PROVE  Total(S, f) \in Nat
BY UnitsFinite, FS_CardinalityType DEF Total

(* The empty sum. *)
LEMMA TotalEmpty ==
  ASSUME NEW f
  PROVE  Total({}, f) = 0
BY FS_EmptySet DEF Total, Units

(* Adding a row adds its contribution. *)
LEMMA TotalAdd ==
  ASSUME NEW S, IsFiniteSet(S), NEW x, x \notin S, NEW f,
         \A y \in S \cup {x} : f[y] \in Nat
  PROVE  Total(S \cup {x}, f) = Total(S, f) + f[x]
<1> DEFINE A == Units(S, f)
           B == {x} \X (1 .. f[x])
<1>1. Units(S \cup {x}, f) = A \cup B
  BY DEF Units
<1>2. A \cap B = {}
  BY DEF Units
<1>3. IsFiniteSet(A)
  BY UnitsFinite
<1>4. IsFiniteSet(B) /\ Cardinality(B) = f[x]
  <2>1. IsFiniteSet({x}) /\ Cardinality({x}) = 1
    BY FS_Singleton
  <2>2. IsFiniteSet(1 .. f[x]) /\ Cardinality(1 .. f[x]) = f[x]
    BY f[x] \in Nat, FS_Interval
  <2> QED BY <2>1, <2>2, f[x] \in Nat, FS_Product
<1>5. Cardinality(A \cup B) = Cardinality(A) + Cardinality(B) - Cardinality({})
  BY <1>2, <1>3, <1>4, FS_Union
<1>6. Cardinality({}) = 0 /\ Cardinality(A) \in Nat
  BY <1>3, FS_EmptySet, FS_CardinalityType
<1>7. Total(S \cup {x}, f) = Cardinality(A \cup B) /\ Total(S, f) = Cardinality(A)
  BY <1>1 DEF Total
<1> HIDE DEF A, B
<1> QED BY <1>4, <1>5, <1>6, <1>7, f[x] \in Nat

(* Sums of equal contributions are equal. *)
LEMMA TotalCongruence ==
  ASSUME NEW S, NEW f, NEW g, \A x \in S : f[x] = g[x]
  PROVE  Total(S, f) = Total(S, g)
BY DEF Total, Units

-----------------------------------------------------------------------------
(* What a filter leaves: the prover has no rule of induction for the       *)
(* function Keep computes, and takes the least member of a set instead.    *)

(* Induction over the members of a set. *)
LEMMA SetInduction ==
  ASSUME NEW S, 0 \in S, \A n \in Nat : n \in S => n + 1 \in S
  PROVE  Nat \subseteq S
<1> SUFFICES ASSUME Nat \ S # {} PROVE FALSE
  OBVIOUS
<1>1. IsWellFoundedOn(OpToRel(<, Nat), Nat)
  BY NatLessThanWellFounded
<1>2. PICK x \in Nat \ S : \A y \in Nat \ S : ~(<<y, x>> \in OpToRel(<, Nat))
  BY <1>1, WFMin
<1>3. x \in Nat /\ x # 0
  OBVIOUS
<1>4. x - 1 \in Nat /\ (x - 1) + 1 = x
  BY <1>3
<1>5. x - 1 \in S
  <2>1. <<x - 1, x>> \in OpToRel(<, Nat)
    BY <1>3, <1>4 DEF OpToRel
  <2> QED BY <1>2, <1>4, <2>1
<1> QED BY <1>3, <1>4, <1>5

Wanted(s, K, n) == {j \in 1 .. n : s[j] \in K}

(* r holds the elements of s up to position n that are in K, each once.    *)
Enumerates(e, r, s, K, n) ==
  /\ e \in [1 .. Len(r) -> Wanted(s, K, n)]
  /\ \A i, j \in 1 .. Len(r) : e[i] = e[j] => i = j
  /\ \A j \in Wanted(s, K, n) : \E i \in 1 .. Len(r) : e[i] = j
  /\ \A i \in 1 .. Len(r) : r[i] = s[e[i]]

LEMMA KeepEnumerates ==
  ASSUME NEW T, NEW s \in Seq(T), NEW K
  PROVE  /\ Keep(s, K) \in Seq(T)
         /\ \E e : Enumerates(e, Keep(s, K), s, K, Len(s))
<1> DEFINE Round(acc, i) == IF s[i] \in K THEN Append(acc, s[i]) ELSE acc
           Follows(f, k) == f = [i \in 0 .. k |-> IF i = 0 THEN <<>> ELSE Round(f[i - 1], i)]
           S == {k \in Nat : \E f : Follows(f, k)}
           kept == CHOOSE f : Follows(f, Len(s))
<1>1. Keep(s, K) = kept[Len(s)]
  BY DEF Keep
<1> HIDE DEF Round
<1>2. 0 \in S
  <2>1. Follows([i \in 0 .. 0 |-> <<>>], 0)
    OBVIOUS
  <2> QED BY <2>1
<1>3. ASSUME NEW k \in Nat, k \in S PROVE k + 1 \in S
  <2>1. PICK f : Follows(f, k)
    BY <1>3
  <2> DEFINE g == [i \in 0 .. k + 1 |-> IF i = k + 1 THEN Round(f[k], k + 1) ELSE f[i]]
  <2>2. ASSUME NEW i \in 0 .. k + 1
        PROVE  g[i] = IF i = 0 THEN <<>> ELSE Round(g[i - 1], i)
    <3>1. CASE i = k + 1
      BY <3>1
    <3>2. CASE i \in 0 .. k
      <4>1. i - 1 \in 0 .. k \/ i = 0
        BY <3>2
      <4> QED BY <2>1, <3>2, <4>1
    <3> QED BY <3>1, <3>2
  <2>3. Follows(g, k + 1)
    <3>1. g = [i \in 0 .. k + 1 |-> g[i]]
      OBVIOUS
    <3> HIDE DEF g
    <3> QED BY <2>2, <3>1
  <2>4. \E h : Follows(h, k + 1)
    <3> HIDE DEF g, Follows
    <3> QED BY <2>3
  <2> QED BY <2>4
<1>4. Follows(kept, Len(s))
  <2>1. \E f : Follows(f, Len(s))
    <3>1. Len(s) \in Nat
      OBVIOUS
    <3> QED BY <1>2, <1>3, <3>1, SetInduction
  <2> HIDE DEF Follows
  <2> QED BY <2>1
<1> HIDE DEF kept
<1> DEFINE Good(k) == kept[k] \in Seq(T) /\ \E e : Enumerates(e, kept[k], s, K, k)
           G == {k \in Nat : k <= Len(s) => Good(k)}
<1>5. 0 \in G
  <2>1. kept[0] = <<>>
    BY <1>4
  <2>2. Enumerates(<<>>, <<>>, s, K, 0)
    BY DEF Enumerates, Wanted
  <2>3. Good(0)
    BY <2>1, <2>2
  <2> HIDE DEF Good
  <2> QED BY <2>3
<1>6. ASSUME NEW k \in Nat, k \in G PROVE k + 1 \in G
  <2> SUFFICES ASSUME k + 1 <= Len(s) PROVE Good(k + 1)
    OBVIOUS
  <2> DEFINE r == kept[k]
             x == s[k + 1]
  <2>1. r \in Seq(T) /\ x \in T
    BY <1>6
  <2>2. PICK e : Enumerates(e, r, s, K, k)
    BY <1>6
  <2>3. kept[k + 1] = IF x \in K THEN Append(r, x) ELSE r
    <3>1. k + 1 \in 0 .. Len(s) /\ k + 1 # 0 /\ (k + 1) - 1 = k
      OBVIOUS
    <3>2. kept[k + 1] = Round(kept[k], k + 1)
      BY <1>4, <3>1
    <3> QED BY <3>2 DEF Round
  <2> HIDE DEF r, x
  <2>4. CASE x \notin K
    <3>1. Wanted(s, K, k + 1) = Wanted(s, K, k)
      BY <2>4 DEF Wanted, x
    <3>2. Enumerates(e, r, s, K, k + 1)
      BY <2>2, <3>1 DEF Enumerates
    <3> QED BY <2>1, <2>3, <2>4, <3>2
  <2>5. CASE x \in K
    <3> DEFINE n == Len(r)
               q == Append(r, x)
               d == [i \in 1 .. n + 1 |-> IF i = n + 1 THEN k + 1 ELSE e[i]]
    <3>1. n \in Nat /\ q \in Seq(T) /\ Len(q) = n + 1 /\ q[n + 1] = x /\ \A i \in 1 .. n : q[i] = r[i]
      BY <2>1
    <3>2. Wanted(s, K, k + 1) = Wanted(s, K, k) \cup {k + 1} /\ k + 1 \notin Wanted(s, K, k)
      BY <2>5 DEF Wanted, x
    <3> HIDE DEF n, q
    <3>3. /\ e \in [1 .. n -> Wanted(s, K, k)]
          /\ \A i, j \in 1 .. n : e[i] = e[j] => i = j
          /\ \A j \in Wanted(s, K, k) : \E i \in 1 .. n : e[i] = j
          /\ \A i \in 1 .. n : r[i] = s[e[i]]
      BY <2>2 DEF Enumerates, n
    <3>4. /\ d[n + 1] = k + 1 /\ n + 1 \in 1 .. n + 1
          /\ \A i \in 1 .. n : d[i] = e[i] /\ i \in 1 .. n + 1
          /\ \A i \in 1 .. n + 1 : i \in 1 .. n \/ i = n + 1
      BY <3>1
    <3>5. d \in [1 .. n + 1 -> Wanted(s, K, k + 1)]
      BY <3>2, <3>3, <3>4
    <3> HIDE DEF d
    <3>6. \A i, j \in 1 .. n + 1 : d[i] = d[j] => i = j
      BY <3>2, <3>3, <3>4
    <3>7. \A j \in Wanted(s, K, k + 1) : \E i \in 1 .. n + 1 : d[i] = j
      BY <3>2, <3>3, <3>4
    <3>8. \A i \in 1 .. n + 1 : q[i] = s[d[i]]
      BY <3>1, <3>3, <3>4 DEF x
    <3>9. Enumerates(d, q, s, K, k + 1)
      BY <3>1, <3>5, <3>6, <3>7, <3>8 DEF Enumerates
    <3> QED BY <2>3, <2>5, <3>1, <3>9 DEF q
  <2> QED BY <2>4, <2>5
<1>7. Good(Len(s))
  <2>1. Len(s) \in G
    <3> HIDE DEF G
    <3> QED BY <1>5, <1>6, SetInduction
  <2> QED BY <2>1
<1> QED BY <1>1, <1>7

(* How many elements of s are in W. *)
Count(s, W) == Cardinality(Wanted(s, W, Len(s)))

LEMMA IntervalCard ==
  ASSUME NEW n \in Nat
  PROVE  IsFiniteSet(1 .. n) /\ Cardinality(1 .. n) = n
BY FS_Interval

LEMMA CountType ==
  ASSUME NEW T, NEW s \in Seq(T), NEW W
  PROVE  /\ IsFiniteSet(Wanted(s, W, Len(s)))
         /\ Count(s, W) \in Nat /\ Count(s, W) <= Len(s)
<1>1. Wanted(s, W, Len(s)) \in SUBSET (1 .. Len(s)) /\ Len(s) \in Nat
  BY DEF Wanted
<1>2. IsFiniteSet(1 .. Len(s)) /\ Cardinality(1 .. Len(s)) = Len(s)
  BY <1>1, IntervalCard
<1>3. /\ IsFiniteSet(Wanted(s, W, Len(s)))
      /\ Cardinality(Wanted(s, W, Len(s))) <= Cardinality(1 .. Len(s))
  BY <1>1, <1>2, FS_Subset
<1> QED BY <1>2, <1>3, FS_CardinalityType DEF Count

LEMMA CountMonotone ==
  ASSUME NEW T, NEW s \in Seq(T), NEW W, NEW V, \A i \in 1 .. Len(s) : s[i] \in W => s[i] \in V
  PROVE  Count(s, W) <= Count(s, V)
<1>1. IsFiniteSet(Wanted(s, V, Len(s)))
  BY CountType
<1>2. Wanted(s, W, Len(s)) \in SUBSET Wanted(s, V, Len(s))
  BY DEF Wanted
<1> QED BY <1>1, <1>2, FS_Subset DEF Count

LEMMA CountEmpty ==
  ASSUME NEW W
  PROVE  Count(<<>>, W) = 0
<1>1. Wanted(<<>>, W, Len(<<>>)) = {}
  BY DEF Wanted
<1> QED BY <1>1, FS_EmptySet DEF Count

LEMMA CountAppend ==
  ASSUME NEW T, NEW s \in Seq(T), NEW x \in T, NEW W
  PROVE  Count(Append(s, x), W) = IF x \in W THEN Count(s, W) + 1 ELSE Count(s, W)
<1> DEFINE n == Len(s)
           q == Append(s, x)
<1>1. n \in Nat /\ Len(q) = n + 1 /\ q[n + 1] = x /\ \A i \in 1 .. n : q[i] = s[i]
  OBVIOUS
<1> HIDE DEF q
<1>2. IsFiniteSet(Wanted(s, W, n)) /\ n + 1 \notin Wanted(s, W, n)
  <2>1. IsFiniteSet(Wanted(s, W, n))
    BY CountType
  <2> QED BY <1>1, <2>1 DEF Wanted
<1>3. Wanted(q, W, n + 1) = IF x \in W THEN Wanted(s, W, n) \cup {n + 1} ELSE Wanted(s, W, n)
  <2>1. \A i : i \in 1 .. n + 1 <=> i \in 1 .. n \/ i = n + 1
    BY <1>1
  <2> HIDE DEF n
  <2> QED BY <1>1, <2>1 DEF Wanted
<1>4. Cardinality(Wanted(s, W, n) \cup {n + 1}) = Cardinality(Wanted(s, W, n)) + 1
  BY <1>2, FS_AddElement
<1> QED BY <1>1, <1>3, <1>4 DEF Count, q

(* The kept elements are counted as they were. *)
LEMMA CountKeep ==
  ASSUME NEW T, NEW s \in Seq(T), NEW K, NEW W, NEW V,
         \A i \in 1 .. Len(s) : s[i] \in V <=> s[i] \in K /\ s[i] \in W
  PROVE  Count(Keep(s, K), W) = Count(s, V)
<1> DEFINE r == Keep(s, K)
           A == Wanted(r, W, Len(r))
           B == Wanted(s, V, Len(s))
<1>1. r \in Seq(T)
  BY KeepEnumerates
<1>2. PICK e : Enumerates(e, r, s, K, Len(s))
  BY KeepEnumerates
<1> HIDE DEF r
<1> DEFINE d == [i \in A |-> e[i]]
<1>3. \A i \in 1 .. Len(r) : /\ e[i] \in 1 .. Len(s) /\ s[e[i]] \in K /\ r[i] = s[e[i]]
  BY <1>2 DEF Enumerates, Wanted
<1>4. \A i \in A : i \in 1 .. Len(r) /\ r[i] \in W
  BY DEF Wanted
<1>5. \A i \in A : d[i] \in B
  BY <1>3, <1>4 DEF Wanted
<1>6. \A i, j \in A : d[i] = d[j] => i = j
  BY <1>2, <1>4 DEF Enumerates
<1>7. ASSUME NEW j \in B PROVE \E i \in A : d[i] = j
  <2>1. j \in 1 .. Len(s) /\ s[j] \in K /\ s[j] \in W
    BY DEF Wanted
  <2>2. PICK i \in 1 .. Len(r) : e[i] = j
    BY <1>2, <2>1 DEF Enumerates, Wanted
  <2>3. i \in A
    BY <1>3, <2>1, <2>2 DEF Wanted
  <2> QED BY <2>2, <2>3
<1> HIDE DEF A, B
<1>8. d \in Bijection(A, B)
  <2>1. d \in [A -> B]
    BY <1>5
  <2> HIDE DEF d
  <2> QED BY <1>6, <1>7, <2>1 DEF Bijection, Injection, Surjection, IsInjective
<1>9. IsFiniteSet(A)
  BY <1>1, CountType DEF A
<1>10. Cardinality(B) = Cardinality(A)
  BY <1>8, <1>9, FS_Bijection DEF ExistsBijection
<1> QED BY <1>10 DEF Count, A, B, r

LEMMA KeepLen ==
  ASSUME NEW T, NEW s \in Seq(T), NEW K
  PROVE  Keep(s, K) \in Seq(T) /\ Len(Keep(s, K)) = Count(s, K)
<1> DEFINE r == Keep(s, K)
<1>1. r \in Seq(T)
  BY KeepEnumerates
<1>2. Count(r, K) = Count(s, K)
  BY CountKeep
<1>3. PICK e : Enumerates(e, r, s, K, Len(s))
  BY KeepEnumerates
<1> HIDE DEF r
<1>4. Wanted(r, K, Len(r)) = 1 .. Len(r)
  BY <1>3 DEF Enumerates, Wanted
<1>5. Cardinality(1 .. Len(r)) = Len(r)
  <2>1. Len(r) \in Nat
    BY <1>1
  <2> QED BY <2>1, IntervalCard
<1> QED BY <1>1, <1>2, <1>4, <1>5 DEF Count, r

(* The kept elements, one by one. *)
LEMMA KeepMembers ==
  ASSUME NEW T, NEW s \in Seq(T), NEW K
  PROVE  /\ \A i \in 1 .. Len(Keep(s, K)) :
              \E j \in 1 .. Len(s) : Keep(s, K)[i] = s[j] /\ s[j] \in K
         /\ \A j \in 1 .. Len(s) : s[j] \in K =>
              \E i \in 1 .. Len(Keep(s, K)) : Keep(s, K)[i] = s[j]
<1> DEFINE r == Keep(s, K)
<1>1. PICK e : Enumerates(e, r, s, K, Len(s))
  BY KeepEnumerates
<1> HIDE DEF r
<1>2. \A i \in 1 .. Len(r) : e[i] \in 1 .. Len(s) /\ s[e[i]] \in K /\ r[i] = s[e[i]]
  BY <1>1 DEF Enumerates, Wanted
<1>3. ASSUME NEW j \in 1 .. Len(s), s[j] \in K PROVE \E i \in 1 .. Len(r) : r[i] = s[j]
  <2>1. PICK i \in 1 .. Len(r) : e[i] = j
    BY <1>1, <1>3 DEF Enumerates, Wanted
  <2> QED BY <1>2, <2>1
<1> QED BY <1>2, <1>3 DEF r

Distinct(s) == \A i, j \in 1 .. Len(s) : s[i].key = s[j].key => i = j

LEMMA KeepDistinct ==
  ASSUME NEW T, NEW s \in Seq(T), NEW K, Distinct(s)
  PROVE  Distinct(Keep(s, K))
<1> DEFINE r == Keep(s, K)
<1>1. PICK e : Enumerates(e, r, s, K, Len(s))
  BY KeepEnumerates
<1> HIDE DEF r
<1>2. \A i \in 1 .. Len(r) : e[i] \in 1 .. Len(s) /\ r[i] = s[e[i]]
  BY <1>1 DEF Enumerates, Wanted
<1>3. \A i, j \in 1 .. Len(r) : e[i] = e[j] => i = j
  BY <1>1 DEF Enumerates
<1> QED BY <1>2, <1>3 DEF Distinct, r

-----------------------------------------------------------------------------
(* Sums over the clients *)

(* A sum of smaller contributions is no larger. *)
LEMMA TotalSmaller ==
  ASSUME NEW S, IsFiniteSet(S), NEW f, NEW g,
         \A x \in S : f[x] \in Nat /\ g[x] \in Nat /\ f[x] <= g[x]
  PROVE  Total(S, f) <= Total(S, g)
<1>1. IsFiniteSet(Units(S, g))
  BY UnitsFinite
<1>2. Units(S, f) \in SUBSET Units(S, g)
  BY DEF Units
<1> QED BY <1>1, <1>2, FS_Subset DEF Total

(* One contribution apart from the others. *)
LEMMA TotalWithout ==
  ASSUME NEW S, IsFiniteSet(S), NEW f, \A y \in S : f[y] \in Nat, NEW x \in S
  PROVE  /\ IsFiniteSet(S \ {x}) /\ Total(S \ {x}, f) \in Nat
         /\ Total(S, f) = Total(S \ {x}, f) + f[x]
<1>1. IsFiniteSet(S \ {x})
  BY FS_RemoveElement
<1>2. Total((S \ {x}) \cup {x}, f) = Total(S \ {x}, f) + f[x]
  BY <1>1, TotalAdd
<1>3. (S \ {x}) \cup {x} = S
  OBVIOUS
<1>4. Total(S \ {x}, f) \in Nat
  BY <1>1, TotalType
<1> QED BY <1>1, <1>2, <1>3, <1>4

(* A sum of sums. *)
LEMMA TotalPlus ==
  ASSUME NEW S, IsFiniteSet(S), NEW f, NEW g, NEW h,
         \A x \in S : g[x] \in Nat /\ h[x] \in Nat /\ f[x] = g[x] + h[x]
  PROVE  Total(S, f) = Total(S, g) + Total(S, h)
<1> DEFINE Adds(A) == Total(A, f) = Total(A, g) + Total(A, h)
           I == {n \in Nat : \A A \in SUBSET S : Cardinality(A) = n => Adds(A)}
<1>1. 0 \in I
  <2>1. ASSUME NEW A \in SUBSET S, Cardinality(A) = 0 PROVE Adds(A)
    <3>1. A = {}
      BY <2>1, FS_Subset, FS_EmptySet
    <3>2. Adds({})
      BY TotalEmpty
    <3> HIDE DEF Adds
    <3> QED BY <3>1, <3>2
  <2> HIDE DEF Adds
  <2> QED BY <2>1
<1>2. ASSUME NEW n \in Nat, n \in I PROVE n + 1 \in I
  <2>1. ASSUME NEW A \in SUBSET S, Cardinality(A) = n + 1 PROVE Adds(A)
    <3>1. IsFiniteSet(A)
      BY FS_Subset
    <3>2. A # {}
      BY <2>1, FS_EmptySet
    <3>3. PICK x : x \in A
      BY <3>2
    <3> DEFINE B == A \ {x}
    <3>4. IsFiniteSet(B) /\ Cardinality(B) = n /\ B \in SUBSET S
      <4>1. IsFiniteSet(B) /\ Cardinality(B) = Cardinality(A) - 1
        BY <3>1, <3>3, FS_RemoveElement
      <4>2. B \in SUBSET S /\ (n + 1) - 1 = n
        OBVIOUS
      <4> HIDE DEF B
      <4> QED BY <2>1, <4>1, <4>2
    <3>5. Adds(B)
      BY <1>2, <3>4
    <3>6. \A y \in A : f[y] \in Nat /\ g[y] \in Nat /\ h[y] \in Nat
      OBVIOUS
    <3>7. /\ Total(A, f) = Total(B, f) + f[x] /\ Total(B, f) \in Nat
      BY <3>1, <3>3, <3>6, TotalWithout
    <3>8. /\ Total(A, g) = Total(B, g) + g[x] /\ Total(B, g) \in Nat
      BY <3>1, <3>3, <3>6, TotalWithout
    <3>9. /\ Total(A, h) = Total(B, h) + h[x] /\ Total(B, h) \in Nat
      BY <3>1, <3>3, <3>6, TotalWithout
    <3>10. f[x] = g[x] + h[x] /\ g[x] \in Nat /\ h[x] \in Nat
      BY <3>3
    <3> HIDE DEF B
    <3> QED BY <3>5, <3>7, <3>8, <3>9, <3>10
  <2> HIDE DEF Adds
  <2> QED BY <2>1
<1>3. Cardinality(S) \in I
  <2>1. Cardinality(S) \in Nat
    BY FS_CardinalityType
  <2> HIDE DEF I
  <2> QED BY <1>1, <1>2, <2>1, SetInduction
<1> HIDE DEF Adds
<1>4. Adds(S)
  BY <1>3
<1> QED BY <1>4 DEF Adds

-----------------------------------------------------------------------------
(* The store through its functions *)

Stores ==
  [table : [Client -> Seq(Counters(Key))], keys : Int,
   overflow : [Client -> Seq(Nat) \cup {None}], lastResort : Seq(Nat) \cup {None},
   lastSweep : Int]

Sizes(S) == [c \in Client |-> Len(S.table[c])]

(* A store within its limits that knows how many keys it has. *)
StoreOK(S) ==
  /\ S \in Stores
  /\ \A c \in Client : Distinct(S.table[c]) /\ Len(S.table[c]) <= MaxKeysPerClient
  /\ S.keys = Total(Client, Sizes(S))
  /\ S.keys <= MaxTrackedKeys /\ Spills(S) <= MaxTrackedKeys

(* T is S with fewer counters. *)
Shrunk(S, T) ==
  /\ T \in Stores
  /\ T.keys = Total(Client, Sizes(T))
  /\ \A c \in Client :
       /\ Distinct(T.table[c]) /\ Len(T.table[c]) <= Len(S.table[c])
       /\ \A i \in 1 .. Len(T.table[c]) :
            \E j \in 1 .. Len(S.table[c]) : T.table[c][i] = S.table[c][j]
       /\ T.overflow[c] # None => T.overflow[c] = S.overflow[c]
  /\ T.lastResort = S.lastResort

(* Live counters are never evicted. *)
LiveKept(S, T) ==
  \A c \in Client : \A j \in 1 .. Len(S.table[c]) :
    ~IsExpired(S.table[c][j].hits) =>
      \E i \in 1 .. Len(T.table[c]) : T.table[c][i] = S.table[c][j]

LEMMA ClientsFinite ==
  /\ IsFiniteSet(Client)
  /\ {Window, SweepInterval, MaxKeysPerClient, MaxTrackedKeys} \subseteq Nat \ {0}
BY GuardsAssumption

LEMMA Limits ==
  /\ \A x \in Class : Limit[x] \in Nat /\ Limit[x] >= 1
  /\ Limit["auth"] \in Nat /\ Limit["auth"] >= 1
<1>1. Limit \in [Class -> Nat \ {0}] /\ "auth" \in Class
  BY GuardsAssumption DEF Class
<1> QED BY <1>1

LEMMA ClassesOf ==
  ASSUME NEW g \in {"api", "auth", "email"}
  PROVE  Classes[g] \in SUBSET Class /\ Classes[g] # {}
BY DEF Classes, Class

LEMMA NoneIsApart ==
  None \notin Seq(Nat)
BY GuardsAssumption

LEMMA StoreFields ==
  ASSUME NEW S \in Stores, NEW c \in Client
  PROVE  /\ S.table \in [Client -> Seq(Counters(Key))] /\ S.table[c] \in Seq(Counters(Key))
         /\ Len(S.table[c]) \in Nat /\ DOMAIN S.table[c] = 1 .. Len(S.table[c])
         /\ \A i \in 1 .. Len(S.table[c]) :
              S.table[c][i].key \in Key /\ S.table[c][i].hits \in Seq(Nat)
         /\ S.overflow \in [Client -> Seq(Nat) \cup {None}]
         /\ S.overflow[c] # None => S.overflow[c] \in Seq(Nat)
         /\ S.keys \in Int /\ S.lastSweep \in Int
         /\ S.lastResort # None => S.lastResort \in Seq(Nat)
         /\ Sizes(S) \in [Client -> Nat]
<1>1. S.table \in [Client -> Seq(Counters(Key))]
  BY DEF Stores
<1>2. \A d \in Client : Len(S.table[d]) \in Nat
  BY <1>1
<1>3. \A i \in 1 .. Len(S.table[c]) : S.table[c][i] \in Counters(Key)
  BY <1>1
<1>4. \A i \in 1 .. Len(S.table[c]) :
        S.table[c][i].key \in Key /\ S.table[c][i].hits \in Seq(Nat)
  BY <1>3 DEF Counters
<1>5. S.table[c] \in Seq(Counters(Key)) /\ DOMAIN S.table[c] = 1 .. Len(S.table[c])
  BY <1>1
<1>6. Sizes(S) \in [Client -> Nat]
  BY <1>2 DEF Sizes
<1>7. /\ S.overflow \in [Client -> Seq(Nat) \cup {None}]
      /\ S.keys \in Int /\ S.lastSweep \in Int /\ S.lastResort \in Seq(Nat) \cup {None}
  BY DEF Stores
<1> QED BY <1>1, <1>2, <1>4, <1>5, <1>6, <1>7

LEMMA SpillsType ==
  ASSUME NEW S
  PROVE  IsFiniteSet({c \in Client : S.overflow[c] # None}) /\ Spills(S) \in Nat
<1>1. {c \in Client : S.overflow[c] # None} \in SUBSET Client
  OBVIOUS
<1> QED BY <1>1, ClientsFinite, FS_Subset, FS_CardinalityType DEF Spills

LEMMA SpillsFewer ==
  ASSUME NEW S, NEW T, \A c \in Client : T.overflow[c] # None => S.overflow[c] # None
  PROVE  Spills(T) <= Spills(S)
<1>1. {c \in Client : T.overflow[c] # None} \in SUBSET {c \in Client : S.overflow[c] # None}
  OBVIOUS
<1> QED BY <1>1, SpillsType, FS_Subset DEF Spills

LEMMA ShrunkOK ==
  ASSUME NEW S, StoreOK(S), NEW T, Shrunk(S, T)
  PROVE  StoreOK(T) /\ T.keys <= S.keys
<1>1. S \in Stores /\ T \in Stores
  BY DEF StoreOK, Shrunk
<1>2. \A c \in Client : /\ Sizes(T)[c] = Len(T.table[c]) /\ Sizes(S)[c] = Len(S.table[c])
                        /\ Sizes(T)[c] \in Nat /\ Sizes(S)[c] \in Nat
  BY <1>1, StoreFields DEF Sizes
<1>3. Total(Client, Sizes(T)) <= Total(Client, Sizes(S))
  BY <1>2, ClientsFinite, TotalSmaller DEF Shrunk
<1>4. Spills(T) <= Spills(S) /\ Spills(T) \in Nat /\ Spills(S) \in Nat
  BY SpillsFewer, SpillsType DEF Shrunk
<1>5. T.keys <= S.keys /\ T.keys \in Int /\ S.keys \in Int
  BY <1>1, <1>3 DEF StoreOK, Shrunk, Stores
<1>6. T.keys <= MaxTrackedKeys /\ Spills(T) <= MaxTrackedKeys
  BY <1>4, <1>5, ClientsFinite DEF StoreOK
<1>7. \A c \in Client : Len(T.table[c]) <= MaxKeysPerClient
  BY <1>2, ClientsFinite DEF StoreOK, Shrunk
<1> QED BY <1>1, <1>5, <1>6, <1>7 DEF StoreOK, Shrunk

(* Filters nest. *)
LEMMA ShrunkTwice ==
  ASSUME NEW S \in Stores, NEW T, Shrunk(S, T), NEW U, Shrunk(T, U)
  PROVE  /\ Shrunk(S, U)
         /\ LiveKept(S, T) /\ LiveKept(T, U) => LiveKept(S, U)
<1>1. T \in Stores /\ U \in Stores
  BY DEF Shrunk
<1>2. \A c \in Client : Len(U.table[c]) <= Len(S.table[c])
  BY <1>1, StoreFields DEF Shrunk
<1>3. Shrunk(S, U)
  BY <1>2 DEF Shrunk
<1>4. ASSUME LiveKept(S, T), LiveKept(T, U), NEW c \in Client, NEW j \in 1 .. Len(S.table[c]),
             ~IsExpired(S.table[c][j].hits)
      PROVE  \E i \in 1 .. Len(U.table[c]) : U.table[c][i] = S.table[c][j]
  <2>1. PICK m \in 1 .. Len(T.table[c]) : T.table[c][m] = S.table[c][j]
    BY <1>4 DEF LiveKept
  <2>2. PICK i \in 1 .. Len(U.table[c]) : U.table[c][i] = T.table[c][m]
    BY <1>4, <2>1 DEF LiveKept
  <2> QED BY <2>1, <2>2
<1> QED BY <1>3, <1>4 DEF LiveKept

LEMMA ShrunkNot ==
  ASSUME NEW S, StoreOK(S)
  PROVE  Shrunk(S, S) /\ LiveKept(S, S)
<1>1. \A c \in Client : Len(S.table[c]) \in Nat
  BY StoreFields DEF StoreOK
<1> QED BY <1>1 DEF StoreOK, Shrunk, LiveKept

(* The hits in the window *)
Recent == {at \in Nat : now - at < Window}

LEMMA LiveLen ==
  ASSUME NEW hits \in Seq(Nat)
  PROVE  /\ Live(hits) \in Seq(Nat) /\ Len(Live(hits)) = Count(hits, Recent)
         /\ Count(hits, Recent) \in Nat
         /\ IsExpired(hits) <=> Count(hits, Recent) = 0
<1>1. Live(hits) \in Seq(Nat) /\ Len(Live(hits)) = Count(hits, Recent)
  BY KeepLen DEF Live, Recent
<1>2. Live(hits) = <<>> <=> Len(Live(hits)) = 0
  BY <1>1
<1> QED BY <1>1, <1>2, CountType DEF IsExpired

(* A table with some of its counters *)
Fewer(old, new) ==
  /\ new \in Seq(Counters(Key)) /\ Len(new) <= Len(old) /\ (Distinct(old) => Distinct(new))
  /\ \A i \in 1 .. Len(new) : \E j \in 1 .. Len(old) : new[i] = old[j]

LEMMA KeepFewer ==
  ASSUME NEW s \in Seq(Counters(Key)), NEW K
  PROVE  Fewer(s, Keep(s, K))
<1>1. /\ Keep(s, K) \in Seq(Counters(Key))
      /\ Len(Keep(s, K)) = Count(s, K)
      /\ Count(s, K) <= Len(s)
  BY KeepLen, CountType
<1>2. Distinct(s) => Distinct(Keep(s, K))
  BY KeepDistinct
<1>3. \A i \in 1 .. Len(Keep(s, K)) : \E j \in 1 .. Len(s) : Keep(s, K)[i] = s[j]
  BY KeepMembers
<1> QED BY <1>1, <1>2, <1>3 DEF Fewer

LEMMA FreshOf ==
  ASSUME NEW S \in Stores, NEW c \in Client
  PROVE  /\ Fewer(S.table[c], Fresh(S, c))
         /\ Fresh(S, c) \in Seq(Counters(Key)) /\ Len(Fresh(S, c)) \in Nat
         /\ Len(S.table[c]) - Len(Fresh(S, c)) \in Nat
         /\ \A j \in 1 .. Len(S.table[c]) : ~IsExpired(S.table[c][j].hits) =>
              \E i \in 1 .. Len(Fresh(S, c)) : Fresh(S, c)[i] = S.table[c][j]
<1>1. S.table[c] \in Seq(Counters(Key)) /\ Len(S.table[c]) \in Nat
  BY StoreFields
<1>2. Fewer(S.table[c], Fresh(S, c))
  BY <1>1, KeepFewer DEF Fresh
<1>3. Fresh(S, c) \in Seq(Counters(Key)) /\ Len(Fresh(S, c)) <= Len(S.table[c])
  BY <1>2 DEF Fewer
<1>4. Len(Fresh(S, c)) \in Nat
  BY <1>3
<1>5. ASSUME NEW j \in 1 .. Len(S.table[c]), ~IsExpired(S.table[c][j].hits)
      PROVE  \E i \in 1 .. Len(Fresh(S, c)) : Fresh(S, c)[i] = S.table[c][j]
  <2> DEFINE K == {s \in Counters(Key) : ~IsExpired(s.hits)}
  <2>1. S.table[c][j] \in K
    BY <1>1, <1>5
  <2>2. Fresh(S, c) = Keep(S.table[c], K)
    BY DEF Fresh
  <2> HIDE DEF K
  <2>3. \E i \in 1 .. Len(Keep(S.table[c], K)) : Keep(S.table[c], K)[i] = S.table[c][j]
    BY <1>1, <2>1, KeepMembers
  <2> QED BY <2>2, <2>3
<1> QED BY <1>1, <1>2, <1>3, <1>4, <1>5

(* Replacing one table *)
Tabled(S, c, new) ==
  [table |-> [S.table EXCEPT ![c] = new], keys |-> S.keys + (Len(new) - Len(S.table[c])),
   overflow |-> S.overflow, lastResort |-> S.lastResort, lastSweep |-> S.lastSweep]

LEMMA Replaced ==
  ASSUME NEW S \in Stores, NEW c, NEW new, NEW keys
  PROVE  /\ [S EXCEPT !.table[c] = new, !.keys = keys]
            = [table |-> [S.table EXCEPT ![c] = new], keys |-> keys, overflow |-> S.overflow,
               lastResort |-> S.lastResort, lastSweep |-> S.lastSweep]
         /\ [S EXCEPT !.table[c] = new]
            = [table |-> [S.table EXCEPT ![c] = new], keys |-> S.keys, overflow |-> S.overflow,
               lastResort |-> S.lastResort, lastSweep |-> S.lastSweep]
<1>1. S = [table |-> S.table, keys |-> S.keys, overflow |-> S.overflow,
           lastResort |-> S.lastResort, lastSweep |-> S.lastSweep]
  BY DEF Stores
<1>2. [S EXCEPT !.table[c] = new]
            = [table |-> [S.table EXCEPT ![c] = new], keys |-> S.keys, overflow |-> S.overflow,
               lastResort |-> S.lastResort, lastSweep |-> S.lastSweep]
  BY <1>1
<1>3. [S EXCEPT !.table[c] = new, !.keys = keys]
            = [table |-> [S.table EXCEPT ![c] = new], keys |-> keys, overflow |-> S.overflow,
               lastResort |-> S.lastResort, lastSweep |-> S.lastSweep]
  <2>1. [S EXCEPT !.table[c] = new, !.keys = keys] = [[S EXCEPT !.table[c] = new] EXCEPT !.keys = keys]
    OBVIOUS
  <2> DEFINE R == [S EXCEPT !.table[c] = new]
             t == [S.table EXCEPT ![c] = new]
  <2>2. R = [table |-> t, keys |-> S.keys, overflow |-> S.overflow,
             lastResort |-> S.lastResort, lastSweep |-> S.lastSweep]
    BY <1>2
  <2> HIDE DEF R, t
  <2>3. [R EXCEPT !.keys = keys] = [table |-> t, keys |-> keys, overflow |-> S.overflow,
             lastResort |-> S.lastResort, lastSweep |-> S.lastSweep]
    BY <2>2
  <2> QED BY <2>1, <2>3 DEF R, t
<1> QED BY <1>2, <1>3

LEMMA OneTable ==
  ASSUME NEW S, StoreOK(S), NEW c \in Client, NEW new \in Seq(Counters(Key))
  PROVE  /\ Tabled(S, c, new) \in Stores
         /\ Tabled(S, c, new).table[c] = new
         /\ \A d \in Client \ {c} : Tabled(S, c, new).table[d] = S.table[d]
         /\ Tabled(S, c, new).keys = S.keys + (Len(new) - Len(S.table[c]))
         /\ Tabled(S, c, new).keys = Total(Client, Sizes(Tabled(S, c, new)))
         /\ Tabled(S, c, new).overflow = S.overflow
         /\ Tabled(S, c, new).lastResort = S.lastResort
         /\ Spills(Tabled(S, c, new)) = Spills(S)
<1> DEFINE T == Tabled(S, c, new)
<1>1. S \in Stores /\ S.table \in [Client -> Seq(Counters(Key))]
  BY StoreFields DEF StoreOK
<1>2. Len(new) \in Nat /\ Len(S.table[c]) \in Nat
  BY <1>1
<1>3. /\ T.table = [S.table EXCEPT ![c] = new] /\ T.overflow = S.overflow
      /\ T.lastResort = S.lastResort /\ T.lastSweep = S.lastSweep
      /\ T.keys = S.keys + (Len(new) - Len(S.table[c]))
      /\ T = [table |-> T.table, keys |-> T.keys, overflow |-> T.overflow,
               lastResort |-> T.lastResort, lastSweep |-> T.lastSweep]
  BY DEF Tabled
<1> HIDE DEF T
<1>4. T.table \in [Client -> Seq(Counters(Key))]
  BY <1>1, <1>3
<1>5. T \in Stores
  <2>1. T.keys \in Int
    BY <1>1, <1>2, <1>3, StoreFields
  <2> QED BY <1>1, <1>3, <1>4, <2>1 DEF Stores
<1>6. /\ T.table[c] = new /\ \A d \in Client \ {c} : T.table[d] = S.table[d]
  BY <1>1, <1>3
<1>7. /\ \A d \in Client : Sizes(S)[d] = Len(S.table[d]) /\ Sizes(T)[d] = Len(T.table[d])
                           /\ Sizes(S)[d] \in Nat /\ Sizes(T)[d] \in Nat
  BY <1>1, <1>5, StoreFields DEF Sizes
<1>8. /\ Total(Client, Sizes(S)) \in Nat
      /\ Total(Client, Sizes(T)) = Total(Client, Sizes(S)) + (Sizes(T)[c] - Sizes(S)[c])
  <2> DEFINE f == Sizes(S)
             g == Sizes(T)
  <2>1. /\ \A d \in Client : f[d] \in Nat /\ g[d] \in Nat
        /\ \A d \in Client \ {c} : f[d] = g[d]
    BY <1>6, <1>7
  <2> HIDE DEF f, g
  <2>2. /\ Total(Client, f) \in Nat /\ Total(Client, g) = Total(Client, f) + (g[c] - f[c])
    <3>1. IsFiniteSet(Client)
      BY ClientsFinite
    <3>2. \A d \in Client : f[d] \in Nat /\ g[d] \in Nat
      BY <2>1
    <3>3. \A d \in Client \ {c} : f[d] = g[d]
      BY <2>1
    <3>4. Total(Client \ {c}, f) = Total(Client \ {c}, g)
      BY <3>3, TotalCongruence
    <3>5. /\ Total(Client \ {c}, f) \in Nat
          /\ Total(Client, f) = Total(Client \ {c}, f) + f[c]
      BY <3>1, <3>2, TotalWithout
    <3>6. Total(Client, g) = Total(Client \ {c}, g) + g[c]
      BY <3>1, <3>2, TotalWithout
    <3> QED BY <3>2, <3>4, <3>5, <3>6
  <2> QED BY <2>2 DEF f, g
<1>9. T.keys = Total(Client, Sizes(T))
  <2>1. Sizes(T)[c] = Len(new) /\ Sizes(S)[c] = Len(S.table[c])
    BY <1>6, <1>7
  <2>2. S.keys = Total(Client, Sizes(S))
    BY DEF StoreOK
  <2> QED BY <1>2, <1>3, <1>8, <2>1, <2>2
<1> QED BY <1>3, <1>5, <1>6, <1>9 DEF T, Spills

(* Replacing a table by one with some of its counters. *)
LEMMA OneShrinks ==
  ASSUME NEW S, StoreOK(S), NEW c \in Client, NEW new, Fewer(S.table[c], new)
  PROVE  Shrunk(S, Tabled(S, c, new))
<1> DEFINE T == Tabled(S, c, new)
<1>1. S \in Stores /\ new \in Seq(Counters(Key))
  BY DEF StoreOK, Fewer
<1>2. /\ T \in Stores /\ T.keys = Total(Client, Sizes(T)) /\ T.overflow = S.overflow
      /\ T.lastResort = S.lastResort
      /\ T.table[c] = new /\ \A d \in Client \ {c} : T.table[d] = S.table[d]
  BY <1>1, OneTable
<1> HIDE DEF T
<1>3. ASSUME NEW d \in Client
      PROVE  /\ Distinct(T.table[d]) /\ Len(T.table[d]) <= Len(S.table[d])
             /\ \A i \in 1 .. Len(T.table[d]) :
                  \E j \in 1 .. Len(S.table[d]) : T.table[d][i] = S.table[d][j]
  <2>1. CASE d = c
    BY <1>2, <2>1 DEF StoreOK, Fewer
  <2>2. CASE d # c
    <3>1. Len(S.table[d]) \in Nat
      BY <1>1, StoreFields
    <3> QED BY <1>2, <2>2, <3>1 DEF StoreOK
  <2> QED BY <2>1, <2>2
<1>4. Shrunk(S, T)
  BY <1>2, <1>3 DEF Shrunk
<1> QED BY <1>4 DEF T

LEMMA EvictShrinks ==
  ASSUME NEW S, StoreOK(S), NEW c \in Client
  PROVE  /\ Shrunk(S, Evict(S, c)) /\ LiveKept(S, Evict(S, c)) /\ StoreOK(Evict(S, c))
         /\ Evict(S, c).table = [S.table EXCEPT ![c] = Fresh(S, c)]
         /\ Evict(S, c).overflow = S.overflow
<1>1. S \in Stores /\ S.table \in [Client -> Seq(Counters(Key))]
  BY StoreFields DEF StoreOK
<1>2. Shrunk(S, Evict(S, c))
  <2>1. Fewer(S.table[c], Fresh(S, c)) /\ Len(Fresh(S, c)) \in Nat
    BY <1>1, FreshOf
  <2>2. Evict(S, c) = Tabled(S, c, Fresh(S, c))
    <3>1. Len(S.table[c]) \in Nat /\ S.keys \in Int
      BY <1>1, StoreFields
    <3>2. S.keys - (Len(S.table[c]) - Len(Fresh(S, c))) = S.keys + (Len(Fresh(S, c)) - Len(S.table[c]))
      BY <2>1, <3>1
    <3>3. Evict(S, c) = [S EXCEPT !.table[c] = Fresh(S, c),
                           !.keys = S.keys - (Len(S.table[c]) - Len(Fresh(S, c)))]
      BY DEF Evict, Uncounted
    <3> QED BY <1>1, <3>2, <3>3, Replaced DEF Tabled
  <2> QED BY <2>1, <2>2, OneShrinks
<1>3. /\ Evict(S, c).table = [S.table EXCEPT ![c] = Fresh(S, c)]
      /\ Evict(S, c).overflow = S.overflow
  BY <1>1 DEF Evict, Stores
<1>4. LiveKept(S, Evict(S, c))
  <2> SUFFICES ASSUME NEW d \in Client, NEW j \in 1 .. Len(S.table[d]),
                      ~IsExpired(S.table[d][j].hits)
               PROVE  \E i \in 1 .. Len(Evict(S, c).table[d]) :
                        Evict(S, c).table[d][i] = S.table[d][j]
    BY DEF LiveKept
  <2>1. CASE d = c
    <3>1. Evict(S, c).table[d] = Fresh(S, d)
      BY <1>1, <1>3, <2>1
    <3> QED BY <1>1, <3>1, FreshOf
  <2>2. CASE d # c
    BY <1>1, <1>3, <2>2
  <2> QED BY <2>1, <2>2
<1> QED BY <1>2, <1>3, <1>4, ShrunkOK

LEMMA SweepShrinks ==
  ASSUME NEW S, StoreOK(S), now \in Nat
  PROVE  /\ Shrunk(S, Sweep(S)) /\ LiveKept(S, Sweep(S)) /\ StoreOK(Sweep(S))
         /\ \A c \in Client : Sweep(S).table[c] \in {S.table[c], Fresh(S, c)}
<1>1. CASE now - S.lastSweep < SweepInterval
  <2>1. Sweep(S) = S
    BY <1>1 DEF Sweep
  <2> QED BY <2>1, ShrunkNot
<1>2. CASE ~(now - S.lastSweep < SweepInterval)
  <2> DEFINE T == Sweep(S)
             fewer == [c \in Client |-> Len(S.table[c]) - Len(Fresh(S, c))]
             kept == [c \in Client |-> IF S.overflow[c] # None /\ IsExpired(S.overflow[c])
                                       THEN None ELSE S.overflow[c]]
  <2>1. S \in Stores /\ S.keys \in Int /\ S.keys = Total(Client, Sizes(S))
    BY StoreFields DEF StoreOK, Stores
  <2>2. /\ T.table = [c \in Client |-> Fresh(S, c)] /\ T.overflow = kept
        /\ T.keys = S.keys - Total(Client, fewer)
        /\ T.lastResort = S.lastResort /\ T.lastSweep = now
        /\ T = [table |-> T.table, keys |-> T.keys, overflow |-> T.overflow,
                lastResort |-> T.lastResort, lastSweep |-> T.lastSweep]
    BY <1>2, <2>1 DEF Sweep, Uncounted, Stores
  <2> HIDE DEF T
  <2>3. \A c \in Client : fewer[c] \in Nat /\ T.table[c] = Fresh(S, c)
    BY <2>1, <2>2, FreshOf
  <2>4. kept \in [Client -> Seq(Nat) \cup {None}]
    BY <2>1 DEF Stores
  <2>5. \A c \in Client : kept[c] # None => kept[c] = S.overflow[c]
    OBVIOUS
  <2> HIDE DEF kept
  <2>6. Total(Client, fewer) \in Nat
    BY <2>3, ClientsFinite, TotalType
  <2>7. T \in Stores
    <3>1. T.table \in [Client -> Seq(Counters(Key))]
      BY <2>1, <2>2, FreshOf
    <3>2. T.keys \in Int
      BY <2>1, <2>2, <2>6
    <3>3. T.lastResort \in Seq(Nat) \cup {None} /\ T.lastSweep \in Int
      BY <2>1, <2>2 DEF Stores
    <3> QED BY <2>2, <2>4, <3>1, <3>2, <3>3 DEF Stores
  <2>8. T.keys = Total(Client, Sizes(T))
    <3>1. \A c \in Client : /\ Sizes(T)[c] \in Nat /\ fewer[c] \in Nat
                            /\ Sizes(S)[c] = Sizes(T)[c] + fewer[c]
      <4> TAKE c \in Client
      <4>1. Sizes(T)[c] = Len(Fresh(S, c)) /\ Sizes(S)[c] = Len(S.table[c])
        BY <2>3 DEF Sizes
      <4>2. Len(Fresh(S, c)) \in Nat /\ Len(S.table[c]) \in Nat
        BY <2>1, FreshOf, StoreFields
      <4>3. fewer[c] = Len(S.table[c]) - Len(Fresh(S, c)) /\ fewer[c] \in Nat
        BY <2>3
      <4> HIDE DEF fewer
      <4> QED BY <4>1, <4>2, <4>3
    <3> HIDE DEF fewer
    <3>2. Total(Client, Sizes(S)) = Total(Client, Sizes(T)) + Total(Client, fewer)
      BY <3>1, ClientsFinite, TotalPlus
    <3>3. Total(Client, Sizes(T)) \in Nat
      BY <3>1, ClientsFinite, TotalType
    <3> QED BY <2>1, <2>2, <2>6, <3>2, <3>3
  <2>9. ASSUME NEW c \in Client
        PROVE  /\ Distinct(T.table[c]) /\ Len(T.table[c]) <= Len(S.table[c])
               /\ \A i \in 1 .. Len(T.table[c]) :
                    \E j \in 1 .. Len(S.table[c]) : T.table[c][i] = S.table[c][j]
    <3>1. Fewer(S.table[c], T.table[c])
      BY <2>1, <2>3, FreshOf
    <3> QED BY <3>1 DEF Fewer, StoreOK
  <2>10. Shrunk(S, T)
    BY <2>2, <2>5, <2>7, <2>8, <2>9 DEF Shrunk
  <2>11. LiveKept(S, T)
    BY <2>1, <2>3, FreshOf DEF LiveKept
  <2>12. StoreOK(T)
    BY <2>10, ShrunkOK
  <2> QED BY <2>3, <2>10, <2>11, <2>12 DEF T
<1> QED BY <1>1, <1>2

(* Where the counter of a key is *)
LEMMA CounterOf ==
  ASSUME NEW S, StoreOK(S), NEW c \in Client, NEW k, Has(S, c, k)
  PROVE  \E p \in 1 .. Len(S.table[c]) :
           /\ S.table[c][p].key = k /\ Counter(S, c, k) = S.table[c][p]
           /\ \A i \in 1 .. Len(S.table[c]) : S.table[c][i].key = k => i = p
<1> DEFINE p == CHOOSE i \in Positions(S, c, k) : TRUE
<1>1. DOMAIN S.table[c] = 1 .. Len(S.table[c])
  BY StoreFields DEF StoreOK
<1>2. p \in Positions(S, c, k) /\ Counter(S, c, k) = S.table[c][p]
  BY DEF Has, Counter
<1> HIDE DEF p
<1>3. p \in 1 .. Len(S.table[c]) /\ S.table[c][p].key = k
  BY <1>1, <1>2 DEF Positions
<1> QED BY <1>2, <1>3 DEF StoreOK, Distinct

LEMMA HasKey ==
  ASSUME NEW S, S \in Stores, NEW c \in Client, NEW k
  PROVE  Has(S, c, k) <=> \E i \in 1 .. Len(S.table[c]) : S.table[c][i].key = k
<1>1. DOMAIN S.table[c] = 1 .. Len(S.table[c])
  BY StoreFields
<1> QED BY <1>1 DEF Has, Positions

Others(k) == Counters(Key \ {k})

(* A clearing takes one counter. *)
LEMMA WithoutKey ==
  ASSUME NEW S, StoreOK(S), NEW c \in Client, NEW k, Has(S, c, k)
  PROVE  /\ Fewer(S.table[c], Keep(S.table[c], Others(k)))
         /\ Len(Keep(S.table[c], Others(k))) = Len(S.table[c]) - 1
         /\ \A i \in 1 .. Len(Keep(S.table[c], Others(k))) :
              Keep(S.table[c], Others(k))[i].key # k
<1> DEFINE s == S.table[c]
           n == Len(s)
<1>1. s \in Seq(Counters(Key)) /\ n \in Nat
  BY StoreFields DEF StoreOK
<1>2. PICK p \in 1 .. n : s[p].key = k /\ \A i \in 1 .. n : s[i].key = k => i = p
  BY CounterOf
<1> HIDE DEF s
<1>3. \A i \in 1 .. n : s[i] \in Others(k) <=> s[i].key # k
  <2>1. \A x : x \in Others(k) <=> x \in Counters(Key) /\ x.key # k
    BY DEF Others, Counters
  <2>2. \A i \in 1 .. n : s[i] \in Counters(Key)
    BY <1>1
  <2> QED BY <2>1, <2>2
<1>4. Wanted(s, Others(k), n) = (1 .. n) \ {p}
  BY <1>2, <1>3 DEF Wanted
<1>5. IsFiniteSet(1 .. n) /\ Cardinality(1 .. n) = n
  BY <1>1, IntervalCard
<1>6. Cardinality((1 .. n) \ {p}) = n - 1
  BY <1>2, <1>5, FS_RemoveElement
<1>7. Len(Keep(s, Others(k))) = n - 1
  BY <1>1, <1>4, <1>6, KeepLen DEF Count
<1>8. Fewer(s, Keep(s, Others(k)))
  BY <1>1, KeepFewer
<1>9. \A i \in 1 .. Len(Keep(s, Others(k))) : Keep(s, Others(k))[i].key # k
  <2>1. \A i \in 1 .. Len(Keep(s, Others(k))) :
          \E j \in 1 .. n : Keep(s, Others(k))[i] = s[j] /\ s[j] \in Others(k)
    BY <1>1, KeepMembers
  <2> QED BY <1>3, <2>1
<1> QED BY <1>7, <1>8, <1>9 DEF s

LEMMA DropShrinks ==
  ASSUME NEW S, StoreOK(S), NEW c \in Client, NEW k, Has(S, c, k)
  PROVE  /\ Shrunk(S, Drop(S, c, k)) /\ StoreOK(Drop(S, c, k))
         /\ Drop(S, c, k).keys = S.keys - 1
         /\ Len(Drop(S, c, k).table[c]) = Len(S.table[c]) - 1
         /\ ~Has(Drop(S, c, k), c, k)
         /\ \A d \in Client \ {c} : Drop(S, c, k).table[d] = S.table[d]
<1> DEFINE new == Keep(S.table[c], Others(k))
<1>1. S \in Stores /\ Len(S.table[c]) \in Nat /\ S.keys \in Int
  BY StoreFields DEF StoreOK
<1>2. /\ Fewer(S.table[c], new) /\ Len(new) = Len(S.table[c]) - 1
      /\ \A i \in 1 .. Len(new) : new[i].key # k
  BY WithoutKey
<1>3. Drop(S, c, k) = Tabled(S, c, new)
  <2>1. S.keys - 1 = S.keys + (Len(new) - Len(S.table[c]))
    BY <1>1, <1>2
  <2>2. Drop(S, c, k) = [S EXCEPT !.table[c] = new, !.keys = S.keys - 1]
    BY DEF Drop, Uncounted, Others
  <2> HIDE DEF new
  <2> QED BY <1>1, <2>1, <2>2, Replaced DEF Tabled
<1> HIDE DEF new
<1>4. Shrunk(S, Drop(S, c, k)) /\ StoreOK(Drop(S, c, k))
  BY <1>2, <1>3, OneShrinks, ShrunkOK
<1>5. new \in Seq(Counters(Key))
  BY <1>2 DEF Fewer
<1>6. /\ Drop(S, c, k).table[c] = new
      /\ \A d \in Client \ {c} : Drop(S, c, k).table[d] = S.table[d]
      /\ Drop(S, c, k).keys = S.keys + (Len(new) - Len(S.table[c]))
  BY <1>3, <1>5, OneTable
<1>7. ~Has(Drop(S, c, k), c, k)
  BY <1>2, <1>4, <1>6, HasKey DEF StoreOK
<1> QED BY <1>1, <1>2, <1>4, <1>6, <1>7

-----------------------------------------------------------------------------
(* New and changed counters *)

LEMMA TabledOK ==
  ASSUME NEW S, StoreOK(S), NEW c \in Client, NEW new \in Seq(Counters(Key)),
         Distinct(new), Len(new) <= MaxKeysPerClient,
         S.keys + (Len(new) - Len(S.table[c])) <= MaxTrackedKeys
  PROVE  StoreOK(Tabled(S, c, new))
<1> DEFINE T == Tabled(S, c, new)
<1>1. /\ T \in Stores /\ T.keys = Total(Client, Sizes(T)) /\ Spills(T) = Spills(S)
      /\ T.keys = S.keys + (Len(new) - Len(S.table[c]))
      /\ T.table[c] = new /\ \A d \in Client \ {c} : T.table[d] = S.table[d]
  BY OneTable
<1> HIDE DEF T
<1>2. \A d \in Client : Distinct(T.table[d]) /\ Len(T.table[d]) <= MaxKeysPerClient
  BY <1>1 DEF StoreOK
<1>3. Spills(T) <= MaxTrackedKeys
  BY <1>1 DEF StoreOK
<1>4. T.keys <= MaxTrackedKeys
  BY <1>1
<1>5. StoreOK(T)
  BY <1>1, <1>2, <1>3, <1>4 DEF StoreOK
<1> QED BY <1>5 DEF T

LEMMA AppendAt ==
  ASSUME NEW X, NEW s \in Seq(X), NEW x
  PROVE  /\ Len(s) \in Nat /\ Len(Append(s, x)) = Len(s) + 1 /\ Append(s, x)[Len(s) + 1] = x
         /\ \A i \in 1 .. Len(s) : Append(s, x)[i] = s[i]
OBVIOUS

LEMMA AppendDistinct ==
  ASSUME NEW s \in Seq(Counters(Key)), Distinct(s), NEW x \in Counters(Key),
         \A i \in 1 .. Len(s) : s[i].key # x.key
  PROVE  /\ Append(s, x) \in Seq(Counters(Key)) /\ Distinct(Append(s, x))
         /\ Len(Append(s, x)) = Len(s) + 1 /\ Append(s, x)[Len(s) + 1] = x
         /\ \A i \in 1 .. Len(s) : Append(s, x)[i] = s[i]
<1> DEFINE q == Append(s, x)
           n == Len(s)
<1>1. /\ n \in Nat /\ q \in Seq(Counters(Key)) /\ Len(q) = n + 1 /\ q[n + 1] = x
      /\ \A i \in 1 .. n : q[i] = s[i]
  OBVIOUS
<1> HIDE DEF q
<1>2. \A i \in 1 .. n + 1 : i \in 1 .. n \/ i = n + 1
  BY <1>1
<1>3. Distinct(q)
  <2> SUFFICES ASSUME NEW i \in 1 .. n + 1, NEW j \in 1 .. n + 1, q[i].key = q[j].key
               PROVE  i = j
    BY <1>1 DEF Distinct
  <2>1. CASE i = n + 1 \/ j = n + 1
    BY <1>1, <1>2, <2>1
  <2>2. CASE i \in 1 .. n /\ j \in 1 .. n
    BY <1>1, <2>2 DEF Distinct
  <2> QED BY <1>2, <2>1, <2>2
<1> QED BY <1>1, <1>3 DEF q

Blank(k) == [key |-> k, hits |-> <<>>]

LEMMA CreateOK ==
  ASSUME NEW S, StoreOK(S), NEW c \in Client, NEW k \in Key, ~Has(S, c, k),
         Len(S.table[c]) < MaxKeysPerClient, S.keys < MaxTrackedKeys
  PROVE  /\ StoreOK(Create(S, c, k))
         /\ Create(S, c, k).table[c] = Append(S.table[c], Blank(k))
         /\ \A d \in Client \ {c} : Create(S, c, k).table[d] = S.table[d]
         /\ Create(S, c, k).overflow = S.overflow
         /\ Create(S, c, k).lastResort = S.lastResort
<1> DEFINE new == Append(S.table[c], Blank(k))
<1>1. /\ S \in Stores /\ S.table[c] \in Seq(Counters(Key)) /\ Len(S.table[c]) \in Nat
      /\ S.keys \in Int
  BY StoreFields DEF StoreOK
<1>2. Blank(k) \in Counters(Key) /\ Blank(k).key = k
  BY DEF Blank, Counters
<1>3. \A i \in 1 .. Len(S.table[c]) : S.table[c][i].key # k
  BY <1>1, HasKey
<1>4. new \in Seq(Counters(Key)) /\ Distinct(new) /\ Len(new) = Len(S.table[c]) + 1
  BY <1>1, <1>2, <1>3, AppendDistinct DEF StoreOK
<1>5. Create(S, c, k) = Tabled(S, c, new)
  <2>1. S.keys + 1 = S.keys + (Len(new) - Len(S.table[c]))
    BY <1>1, <1>4
  <2>2. Create(S, c, k) = [S EXCEPT !.table[c] = new, !.keys = S.keys + 1]
    BY DEF Create, Blank
  <2> HIDE DEF new
  <2> QED BY <1>1, <2>1, <2>2, Replaced DEF Tabled
<1> HIDE DEF new
<1>6. Len(new) <= MaxKeysPerClient /\ S.keys + (Len(new) - Len(S.table[c])) <= MaxTrackedKeys
  BY <1>1, <1>4, ClientsFinite
<1>7. StoreOK(Tabled(S, c, new))
  BY <1>4, <1>6, TabledOK
<1>8. /\ Tabled(S, c, new).table[c] = new
      /\ \A d \in Client \ {c} : Tabled(S, c, new).table[d] = S.table[d]
      /\ Tabled(S, c, new).overflow = S.overflow
      /\ Tabled(S, c, new).lastResort = S.lastResort
  BY <1>4, OneTable
<1> QED BY <1>5, <1>7, <1>8 DEF new

(* The counter of a key is replaced. *)
Raised(s, k, hits) == [i \in 1 .. Len(s) |-> IF s[i].key = k THEN [key |-> k, hits |-> hits] ELSE s[i]]

LEMMA PutOwn ==
  ASSUME NEW S, StoreOK(S), NEW c \in Client, NEW k \in Key, NEW hits \in Seq(Nat)
  PROVE  /\ StoreOK(Put(S, c, k, "own", hits))
         /\ Put(S, c, k, "own", hits).table[c] = Raised(S.table[c], k, hits)
         /\ Len(Put(S, c, k, "own", hits).table[c]) = Len(S.table[c])
         /\ \A d \in Client \ {c} : Put(S, c, k, "own", hits).table[d] = S.table[d]
         /\ Put(S, c, k, "own", hits).overflow = S.overflow
         /\ Put(S, c, k, "own", hits).lastResort = S.lastResort
         /\ \A d \in Client, l \in Key : Has(Put(S, c, k, "own", hits), d, l) <=> Has(S, d, l)
<1> DEFINE s == S.table[c]
           n == Len(s)
           new == Raised(s, k, hits)
           T == Tabled(S, c, new)
<1>1. /\ S \in Stores /\ s \in Seq(Counters(Key)) /\ n \in Nat /\ DOMAIN s = 1 .. n
      /\ S.keys \in Int
  BY StoreFields DEF StoreOK
<1>2. \A i \in 1 .. n : s[i] \in Counters(Key)
  BY <1>1
<1>3. [key |-> k, hits |-> hits] \in Counters(Key)
  BY DEF Counters
<1>4. \A i \in 1 .. n : new[i] \in Counters(Key) /\ new[i].key = s[i].key
  BY <1>2, <1>3 DEF Raised
<1>5. new \in Seq(Counters(Key)) /\ Len(new) = n
  <2>1. new \in [1 .. n -> Counters(Key)]
    BY <1>2, <1>3 DEF Raised
  <2> HIDE DEF new, n
  <2> QED BY <1>1, <2>1
<1>6. Put(S, c, k, "own", hits) = T
  <2>1. Put(S, c, k, "own", hits) = [S EXCEPT !.table[c] = new]
    BY <1>1 DEF Put, Raised
  <2>2. S.keys + (Len(new) - Len(S.table[c])) = S.keys
    <3> HIDE DEF new
    <3> QED BY <1>1, <1>5
  <2>3. T = [table |-> [S.table EXCEPT ![c] = new], keys |-> S.keys, overflow |-> S.overflow,
             lastResort |-> S.lastResort, lastSweep |-> S.lastSweep]
    <3> HIDE DEF new
    <3> QED BY <2>2 DEF Tabled
  <2> HIDE DEF new, T
  <2>4. [S EXCEPT !.table[c] = new]
            = [table |-> [S.table EXCEPT ![c] = new], keys |-> S.keys, overflow |-> S.overflow,
               lastResort |-> S.lastResort, lastSweep |-> S.lastSweep]
    BY <1>1, Replaced
  <2> QED BY <2>1, <2>3, <2>4
<1>7. Distinct(new)
  <2> HIDE DEF new, s
  <2>1. Distinct(s)
    BY DEF StoreOK, s
  <2> QED BY <1>4, <1>5, <2>1 DEF Distinct
<1>8. StoreOK(T)
  <2>1. Len(new) <= MaxKeysPerClient /\ S.keys + (Len(new) - Len(S.table[c])) <= MaxTrackedKeys
    <3> HIDE DEF new
    <3> QED BY <1>1, <1>5 DEF StoreOK
  <2> HIDE DEF new
  <2> QED BY <1>5, <1>7, <2>1, TabledOK
<1>9. /\ T.table[c] = new /\ \A d \in Client \ {c} : T.table[d] = S.table[d]
      /\ T.overflow = S.overflow /\ T.lastResort = S.lastResort
  <2> HIDE DEF new
  <2> QED BY <1>5, OneTable
<1>10. ASSUME NEW d \in Client, NEW l \in Key PROVE Has(T, d, l) <=> Has(S, d, l)
  <2>1. T \in Stores
    BY <1>8 DEF StoreOK
  <2> HIDE DEF T, new
  <2>2. Has(T, d, l) <=> \E i \in 1 .. Len(T.table[d]) : T.table[d][i].key = l
    BY <2>1, HasKey
  <2>3. Has(S, d, l) <=> \E i \in 1 .. Len(S.table[d]) : S.table[d][i].key = l
    BY <1>1, HasKey
  <2>4. CASE d = c
    <3>1. T.table[d] = new /\ S.table[d] = s
      BY <1>9, <2>4
    <3> HIDE DEF s
    <3> QED BY <1>4, <1>5, <2>2, <2>3, <3>1
  <2>5. CASE d # c
    BY <1>9, <2>2, <2>3, <2>5
  <2> QED BY <2>4, <2>5
<1> QED BY <1>5, <1>6, <1>8, <1>9, <1>10 

-----------------------------------------------------------------------------
(* What a request finds *)

(* T is S made ready for a request: expired counters may be gone, and a    *)
(* counter or an overflow may be there that has no hits yet.               *)
Ready(S, T) ==
  /\ StoreOK(T) /\ LiveKept(S, T)
  /\ \A d \in Client :
       /\ \A i \in 1 .. Len(T.table[d]) :
            \/ T.table[d][i].hits = <<>>
            \/ \E j \in 1 .. Len(S.table[d]) : T.table[d][i] = S.table[d][j]
       /\ T.overflow[d] \in {None, <<>>, S.overflow[d]}

LEMMA ShrunkReady ==
  ASSUME NEW S, StoreOK(S), NEW T, Shrunk(S, T), LiveKept(S, T)
  PROVE  Ready(S, T)
<1>1. \A d \in Client : T.overflow[d] \in {None, <<>>, S.overflow[d]}
  BY DEF Shrunk
<1> QED BY <1>1, ShrunkOK DEF Ready, Shrunk

(* Only the overflow and the last resort change. *)
Apart(S, over, last) ==
  [table |-> S.table, keys |-> S.keys, overflow |-> over, lastResort |-> last,
   lastSweep |-> S.lastSweep]

LEMMA Spilled ==
  ASSUME NEW S \in Stores
  PROVE  /\ \A c, hits : [S EXCEPT !.overflow[c] = hits]
                         = Apart(S, [S.overflow EXCEPT ![c] = hits], S.lastResort)
         /\ \A hits : [S EXCEPT !.lastResort = hits] = Apart(S, S.overflow, hits)
<1>1. S = [table |-> S.table, keys |-> S.keys, overflow |-> S.overflow,
           lastResort |-> S.lastResort, lastSweep |-> S.lastSweep]
  BY DEF Stores
<1>2. ASSUME NEW c, NEW hits
      PROVE  [S EXCEPT !.overflow[c] = hits]
             = Apart(S, [S.overflow EXCEPT ![c] = hits], S.lastResort)
  BY <1>1 DEF Apart
<1>3. ASSUME NEW hits PROVE [S EXCEPT !.lastResort = hits] = Apart(S, S.overflow, hits)
  BY <1>1 DEF Apart
<1> QED BY <1>2, <1>3

LEMMA ApartOK ==
  ASSUME NEW S, StoreOK(S), NEW over \in [Client -> Seq(Nat) \cup {None}],
         NEW last \in Seq(Nat) \cup {None},
         Cardinality({c \in Client : over[c] # None}) <= MaxTrackedKeys
  PROVE  /\ StoreOK(Apart(S, over, last)) /\ Apart(S, over, last).table = S.table
         /\ Apart(S, over, last).overflow = over /\ Apart(S, over, last).lastResort = last
<1> DEFINE T == Apart(S, over, last)
<1>1. /\ T.table = S.table /\ T.keys = S.keys /\ T.overflow = over /\ T.lastResort = last
      /\ T.lastSweep = S.lastSweep
      /\ T = [table |-> T.table, keys |-> T.keys, overflow |-> T.overflow,
              lastResort |-> T.lastResort, lastSweep |-> T.lastSweep]
  BY DEF Apart
<1> HIDE DEF T
<1>2. T \in Stores
  <2>1. S.table \in [Client -> Seq(Counters(Key))] /\ S.keys \in Int /\ S.lastSweep \in Int
    BY DEF StoreOK, Stores
  <2> QED BY <1>1, <2>1 DEF Stores
<1>3. Sizes(T) = Sizes(S)
  BY <1>1 DEF Sizes
<1>4. Spills(T) <= MaxTrackedKeys
  BY <1>1 DEF Spills
<1>5. StoreOK(T)
  BY <1>1, <1>2, <1>3, <1>4 DEF StoreOK
<1> QED BY <1>1, <1>5 DEF T

(* A spill within the limit *)
LEMMA OneMoreSpill ==
  ASSUME NEW S, StoreOK(S), NEW c \in Client, NEW hits,
         S.overflow[c] # None \/ Spills(S) < MaxTrackedKeys
  PROVE  Cardinality({d \in Client : [S.overflow EXCEPT ![c] = hits][d] # None}) <= MaxTrackedKeys
<1> DEFINE old == {d \in Client : S.overflow[d] # None}
           new == {d \in Client : [S.overflow EXCEPT ![c] = hits][d] # None}
<1>1. S.overflow \in [Client -> Seq(Nat) \cup {None}]
  BY DEF StoreOK, Stores
<1>2. new \in SUBSET (old \cup {c})
  BY <1>1
<1>3. IsFiniteSet(old) /\ Cardinality(old) \in Nat /\ Cardinality(old) = Spills(S)
  BY SpillsType DEF Spills
<1>4. Spills(S) <= MaxTrackedKeys /\ MaxTrackedKeys \in Nat
  BY ClientsFinite DEF StoreOK
<1> HIDE DEF new
<1>5. IsFiniteSet(old \cup {c}) /\ Cardinality(old \cup {c}) <= MaxTrackedKeys
  <2>1. CASE c \in old
    <3>1. old \cup {c} = old
      BY <2>1
    <3> QED BY <1>3, <1>4, <3>1
  <2>2. CASE c \notin old
    <3>1. Spills(S) < MaxTrackedKeys
      BY <2>2
    <3> HIDE DEF old
    <3>2. IsFiniteSet(old \cup {c}) /\ Cardinality(old \cup {c}) = Cardinality(old) + 1
      BY <1>3, <2>2, FS_AddElement
    <3> QED BY <1>3, <1>4, <3>1, <3>2
  <2> QED BY <2>1, <2>2
<1> HIDE DEF old
<1>6. Cardinality(new) <= Cardinality(old \cup {c}) /\ IsFiniteSet(new)
  BY <1>2, <1>5, FS_Subset
<1>7. Cardinality(new) \in Nat /\ Cardinality(old \cup {c}) \in Nat
  BY <1>5, <1>6, FS_CardinalityType
<1>8. Cardinality(new) <= MaxTrackedKeys
  BY <1>4, <1>5, <1>6, <1>7
<1> QED BY <1>8 DEF new

LEMMA OverflowForOK ==
  ASSUME NEW S, StoreOK(S), NEW c \in Client, now \in Nat
  PROVE  LET F == OverflowFor(S, c) IN
         /\ Ready(S, F.store) /\ F.place \in {"overflow", "lastResort"}
         /\ F.place = "overflow" => F.store.overflow[c] # None
         /\ F.place = "lastResort" => F.store.lastResort \in Seq(Nat)
<1> DEFINE F == OverflowFor(S, c)
           T == IF Spills(S) >= MaxTrackedKeys THEN Sweep(S) ELSE S
<1>1. CASE S.overflow[c] # None
  <2>1. F = [store |-> S, place |-> "overflow"]
    BY <1>1 DEF OverflowFor
  <2>2. Ready(S, S)
    BY ShrunkNot, ShrunkReady
  <2> QED BY <1>1, <2>1, <2>2
<1>2. CASE S.overflow[c] = None
  <2>1. /\ StoreOK(T) /\ Shrunk(S, T) /\ LiveKept(S, T)
    BY SweepShrinks, ShrunkNot
  <2>2. Ready(S, T) /\ T \in Stores
    BY <2>1, ShrunkReady DEF StoreOK
  <2>3. CASE Spills(T) < MaxTrackedKeys
    <3> DEFINE U == [T EXCEPT !.overflow[c] = <<>>]
               over == [T.overflow EXCEPT ![c] = <<>>]
    <3>1. F = [store |-> U, place |-> "overflow"]
      BY <1>2, <2>3 DEF OverflowFor
    <3> HIDE DEF T, F
    <3>2. U = Apart(T, over, T.lastResort)
      BY <2>2, Spilled
    <3>3. T.overflow \in [Client -> Seq(Nat) \cup {None}] /\ T.lastResort \in Seq(Nat) \cup {None}
      BY <2>2 DEF Stores
    <3>4. <<>> \in Seq(Nat)
      OBVIOUS
    <3>5. over \in [Client -> Seq(Nat) \cup {None}] /\ over[c] = <<>>
          /\ \A d \in Client : over[d] \in {<<>>, T.overflow[d]}
      BY <3>3, <3>4
    <3>6. Cardinality({d \in Client : over[d] # None}) <= MaxTrackedKeys
      BY <2>1, <2>3, OneMoreSpill
    <3> HIDE DEF U, over
    <3>7. StoreOK(U) /\ U.table = T.table /\ U.overflow = over
      BY <2>1, <3>2, <3>3, <3>5, <3>6, ApartOK
    <3>8. Ready(S, U)
      BY <2>2, <3>5, <3>7 DEF Ready, LiveKept
    <3>9. F.store = U /\ F.place = "overflow" /\ F.store.overflow[c] # None
      BY <3>1, <3>4, <3>5, <3>7, NoneIsApart
    <3> QED BY <3>8, <3>9 DEF F
  <2>4. CASE ~(Spills(T) < MaxTrackedKeys)
    <3> DEFINE last == IF T.lastResort = None THEN <<>> ELSE T.lastResort
               U == [T EXCEPT !.lastResort = last]
    <3>1. F = [store |-> U, place |-> "lastResort"]
      BY <1>2, <2>4 DEF OverflowFor
    <3> HIDE DEF T, F
    <3>2. <<>> \in Seq(Nat)
      OBVIOUS
    <3>3. T.overflow \in [Client -> Seq(Nat) \cup {None}] /\ last \in Seq(Nat)
      BY <2>2, <3>2 DEF Stores
    <3> HIDE DEF last
    <3>4. U = Apart(T, T.overflow, last)
      BY <2>2, Spilled
    <3>5. Cardinality({d \in Client : T.overflow[d] # None}) <= MaxTrackedKeys
      BY <2>1 DEF StoreOK, Spills
    <3> HIDE DEF U
    <3>6. StoreOK(U) /\ U.table = T.table /\ U.overflow = T.overflow /\ U.lastResort = last
      BY <2>1, <3>3, <3>4, <3>5, ApartOK
    <3>7. Ready(S, U)
      BY <2>2, <3>6 DEF Ready, LiveKept
    <3>8. F.store = U /\ F.place = "lastResort" /\ F.store.lastResort \in Seq(Nat)
      BY <3>1, <3>3, <3>6
    <3> QED BY <3>7, <3>8 DEF F
  <2> QED BY <2>3, <2>4
<1> QED BY <1>1, <1>2

LEMMA ReadyTwice ==
  ASSUME NEW S, StoreOK(S), NEW T, Shrunk(S, T), LiveKept(S, T), NEW U, Ready(T, U)
  PROVE  Ready(S, U)
<1>1. LiveKept(S, U)
  <2> SUFFICES ASSUME NEW d \in Client, NEW j \in 1 .. Len(S.table[d]),
                      ~IsExpired(S.table[d][j].hits)
               PROVE  \E i \in 1 .. Len(U.table[d]) : U.table[d][i] = S.table[d][j]
    BY DEF LiveKept
  <2>1. PICK m \in 1 .. Len(T.table[d]) : T.table[d][m] = S.table[d][j]
    BY DEF LiveKept
  <2>2. PICK i \in 1 .. Len(U.table[d]) : U.table[d][i] = T.table[d][m]
    BY <2>1 DEF LiveKept, Ready
  <2> QED BY <2>1, <2>2
<1>2. \A d \in Client : T.overflow[d] \in {None, S.overflow[d]}
  BY DEF Shrunk
<1>3. \A d \in Client : U.overflow[d] \in {None, <<>>, S.overflow[d]}
  BY <1>2 DEF Ready
<1>4. ASSUME NEW d \in Client, NEW i \in 1 .. Len(U.table[d]), U.table[d][i].hits # <<>>
      PROVE  \E j \in 1 .. Len(S.table[d]) : U.table[d][i] = S.table[d][j]
  <2>1. PICK m \in 1 .. Len(T.table[d]) : U.table[d][i] = T.table[d][m]
    BY <1>4 DEF Ready
  <2>2. PICK j \in 1 .. Len(S.table[d]) : T.table[d][m] = S.table[d][j]
    BY DEF Shrunk
  <2> QED BY <2>1, <2>2
<1> QED BY <1>1, <1>3, <1>4 DEF Ready

(* The store with room made at either limit for a key of client c. *)
LEMMA RoomMade ==
  ASSUME NEW S, StoreOK(S), NEW own, Shrunk(S, own), LiveKept(S, own), now \in Nat,
         NEW all, all = IF own.keys >= MaxTrackedKeys THEN Sweep(own) ELSE own
  PROVE  /\ StoreOK(all) /\ Shrunk(S, all) /\ LiveKept(S, all)
         /\ \A c \in Client : all.table[c] \in {own.table[c], Fresh(own, c)}
<1>1. StoreOK(own) /\ S \in Stores
  BY ShrunkOK DEF StoreOK
<1>2. /\ Shrunk(own, all) /\ LiveKept(own, all)
      /\ \A c \in Client : all.table[c] \in {own.table[c], Fresh(own, c)}
  BY <1>1, SweepShrinks, ShrunkNot
<1>3. Shrunk(S, all) /\ LiveKept(S, all)
  BY <1>1, <1>2, ShrunkTwice
<1> QED BY <1>2, <1>3, ShrunkOK

LEMMA ShrunkHasLess ==
  ASSUME NEW S \in Stores, NEW T, Shrunk(S, T), NEW c \in Client, NEW k, Has(T, c, k)
  PROVE  Has(S, c, k)
<1>1. T \in Stores
  BY DEF Shrunk
<1>2. PICK i \in 1 .. Len(T.table[c]) : T.table[c][i].key = k
  BY <1>1, HasKey
<1>3. PICK j \in 1 .. Len(S.table[c]) : T.table[c][i] = S.table[c][j]
  BY DEF Shrunk
<1> QED BY <1>2, <1>3, HasKey

LEMMA CreatedReady ==
  ASSUME NEW S, StoreOK(S), NEW c \in Client, NEW k \in Key, ~Has(S, c, k),
         Len(S.table[c]) < MaxKeysPerClient, S.keys < MaxTrackedKeys
  PROVE  Ready(S, Create(S, c, k)) /\ Has(Create(S, c, k), c, k)
<1> DEFINE T == Create(S, c, k)
<1>1. /\ StoreOK(T) /\ T.table[c] = Append(S.table[c], Blank(k))
      /\ \A d \in Client \ {c} : T.table[d] = S.table[d]
      /\ T.overflow = S.overflow
  BY CreateOK
<1>2. S.table[c] \in Seq(Counters(Key)) /\ Len(S.table[c]) \in Nat /\ T \in Stores
  BY <1>1, StoreFields DEF StoreOK
<1> HIDE DEF T
<1>3. /\ Len(T.table[c]) = Len(S.table[c]) + 1
      /\ \A i \in 1 .. Len(S.table[c]) : T.table[c][i] = S.table[c][i]
      /\ T.table[c][Len(S.table[c]) + 1] = Blank(k)
  BY <1>1, <1>2
<1>4. \A i \in 1 .. Len(T.table[c]) : i \in 1 .. Len(S.table[c]) \/ i = Len(S.table[c]) + 1
  BY <1>2, <1>3
<1>5. \A i \in 1 .. Len(S.table[c]) : i \in 1 .. Len(T.table[c])
  BY <1>2, <1>3
<1>6. LiveKept(S, T)
  BY <1>1, <1>3, <1>5 DEF LiveKept
<1>7. \A i \in 1 .. Len(T.table[c]) :
        \/ T.table[c][i].hits = <<>>
        \/ \E j \in 1 .. Len(S.table[c]) : T.table[c][i] = S.table[c][j]
  BY <1>3, <1>4 DEF Blank
<1>8. Ready(S, T)
  <2>1. ASSUME NEW d \in Client, NEW i \in 1 .. Len(T.table[d])
        PROVE  \/ T.table[d][i].hits = <<>>
               \/ \E j \in 1 .. Len(S.table[d]) : T.table[d][i] = S.table[d][j]
    <3>1. CASE d = c
      BY <1>7, <3>1
    <3>2. CASE d # c
      BY <1>1, <3>2
    <3> QED BY <3>1, <3>2
  <2>2. \A d \in Client : T.overflow[d] \in {None, <<>>, S.overflow[d]}
    BY <1>1
  <2> QED BY <1>1, <1>6, <2>1, <2>2 DEF Ready
<1>9. Has(T, c, k)
  <2>1. Len(S.table[c]) + 1 \in 1 .. Len(T.table[c])
    BY <1>2, <1>3
  <2> QED BY <1>2, <1>3, <2>1, HasKey DEF Blank
<1> QED BY <1>8, <1>9 DEF T

LEMMA StateForOK ==
  ASSUME NEW S, StoreOK(S), NEW c \in Client, NEW k \in Key, now \in Nat
  PROVE  LET F == StateFor(S, c, k) IN
         /\ Ready(S, F.store) /\ F.place \in {"own", "overflow", "lastResort"}
         /\ F.place = "own" => Has(F.store, c, k)
         /\ F.place = "overflow" => F.store.overflow[c] # None
         /\ F.place = "lastResort" => F.store.lastResort \in Seq(Nat)
<1> DEFINE F == StateFor(S, c, k)
           own == IF Len(S.table[c]) >= MaxKeysPerClient THEN Evict(S, c) ELSE S
           all == IF own.keys >= MaxTrackedKeys THEN Sweep(own) ELSE own
<1>1. CASE Has(S, c, k)
  <2>1. F = [store |-> S, place |-> "own"]
    BY <1>1 DEF StateFor
  <2>2. Ready(S, S)
    BY ShrunkNot, ShrunkReady
  <2> QED BY <1>1, <2>1, <2>2
<1>2. CASE ~Has(S, c, k)
  <2>1. Shrunk(S, own) /\ LiveKept(S, own)
    BY EvictShrinks, ShrunkNot
  <2>2. F = IF Len(all.table[c]) >= MaxKeysPerClient \/ all.keys >= MaxTrackedKeys
            THEN OverflowFor(all, c)
            ELSE [store |-> Create(all, c, k), place |-> "own"]
    BY <1>2 DEF StateFor
  <2> HIDE DEF own
  <2>3. StoreOK(all) /\ Shrunk(S, all) /\ LiveKept(S, all)
    BY <2>1, RoomMade
  <2> HIDE DEF all, F
  <2>4. CASE Len(all.table[c]) >= MaxKeysPerClient \/ all.keys >= MaxTrackedKeys
    <3>1. F = OverflowFor(all, c)
      BY <2>2, <2>4
    <3>2. /\ Ready(all, F.store) /\ F.place \in {"overflow", "lastResort"}
          /\ F.place = "overflow" => F.store.overflow[c] # None
          /\ F.place = "lastResort" => F.store.lastResort \in Seq(Nat)
      BY <2>3, <3>1, OverflowForOK
    <3>3. Ready(S, F.store)
      BY <2>3, <3>2, ReadyTwice
    <3> QED BY <3>2, <3>3 DEF F
  <2>5. CASE ~(Len(all.table[c]) >= MaxKeysPerClient \/ all.keys >= MaxTrackedKeys)
    <3>1. F.store = Create(all, c, k) /\ F.place = "own"
      BY <2>2, <2>5
    <3>2. Len(all.table[c]) < MaxKeysPerClient /\ all.keys < MaxTrackedKeys
      <4>1. Len(all.table[c]) \in Nat /\ all.keys \in Int
        BY <2>3, StoreFields DEF StoreOK
      <4> QED BY <2>5, <4>1, ClientsFinite
    <3>3. ~Has(all, c, k)
      BY <1>2, <2>3, ShrunkHasLess DEF StoreOK
    <3>4. Ready(all, F.store) /\ Has(F.store, c, k)
      BY <2>3, <3>1, <3>2, <3>3, CreatedReady
    <3>5. Ready(S, F.store)
      BY <2>3, <3>4, ReadyTwice
    <3> QED BY <3>1, <3>4, <3>5 DEF F
  <2> QED BY <2>4, <2>5
<1> QED BY <1>1, <1>2

(* The hits a request sees *)
LEMMA HitsType ==
  ASSUME NEW T, StoreOK(T), NEW c \in Client, NEW k \in Key,
         NEW place \in {"own", "overflow", "lastResort"},
         place = "own" => Has(T, c, k), place = "overflow" => T.overflow[c] # None,
         place = "lastResort" => T.lastResort \in Seq(Nat)
  PROVE  Hits(T, c, k, place) \in Seq(Nat)
<1>1. CASE place = "own"
  <2>1. PICK p \in 1 .. Len(T.table[c]) : Counter(T, c, k) = T.table[c][p]
    BY <1>1, CounterOf
  <2> QED BY <1>1, <2>1, StoreFields DEF Hits, StoreOK
<1>2. CASE place = "overflow"
  BY <1>2, StoreFields DEF Hits, StoreOK
<1>3. CASE place = "lastResort"
  BY <1>3 DEF Hits
<1> QED BY <1>1, <1>2, <1>3

-----------------------------------------------------------------------------
(* What a failed login finds *)

Newest(S, c, k) == [S EXCEPT !.table[c] = Append(Keep(S.table[c], Others(k)), Counter(S, c, k))]

LEMMA KeyIsNewest ==
  ASSUME NEW S, StoreOK(S), NEW c \in Client, NEW k \in Key, Has(S, c, k)
  PROVE  /\ StoreOK(Newest(S, c, k))
         /\ \A d \in Client \ {c} : Newest(S, c, k).table[d] = S.table[d]
         /\ \A i \in 1 .. Len(Newest(S, c, k).table[c]) :
              \E j \in 1 .. Len(S.table[c]) : Newest(S, c, k).table[c][i] = S.table[c][j]
         /\ Has(Newest(S, c, k), c, k)
<1> DEFINE T == Newest(S, c, k)
<1> DEFINE s == S.table[c]
           r == Keep(s, Others(k))
           x == Counter(S, c, k)
           new == Append(r, x)
<1>1. /\ S \in Stores /\ s \in Seq(Counters(Key)) /\ Len(s) \in Nat /\ S.keys \in Int
  BY StoreFields DEF StoreOK
<1>2. PICK p \in 1 .. Len(s) : x = s[p] /\ s[p].key = k
  BY CounterOf
<1>3. x \in Counters(Key) /\ x.key = k
  <2> HIDE DEF s, x
  <2> QED BY <1>1, <1>2
<1>4. /\ Fewer(s, r) /\ Len(r) = Len(s) - 1 /\ \A i \in 1 .. Len(r) : r[i].key # k
  BY WithoutKey
<1>5. r \in Seq(Counters(Key)) /\ Distinct(r)
  BY <1>4 DEF Fewer, StoreOK
<1> HIDE DEF r, x
<1>6. /\ new \in Seq(Counters(Key)) /\ Distinct(new) /\ Len(new) = Len(r) + 1
      /\ new[Len(r) + 1] = x /\ \A i \in 1 .. Len(r) : new[i] = r[i]
  BY <1>3, <1>4, <1>5, AppendDistinct
<1>7. T = Tabled(S, c, new)
  <2>1. T = [S EXCEPT !.table[c] = new]
    BY DEF r, x, Newest
  <2> HIDE DEF new
  <2>2. [S EXCEPT !.table[c] = new]
            = [table |-> [S.table EXCEPT ![c] = new], keys |-> S.keys, overflow |-> S.overflow,
               lastResort |-> S.lastResort, lastSweep |-> S.lastSweep]
    BY <1>1, Replaced
  <2>3. S.keys + (Len(new) - Len(s)) = S.keys
    BY <1>1, <1>4, <1>6
  <2>4. Tabled(S, c, new)
            = [table |-> [S.table EXCEPT ![c] = new], keys |-> S.keys, overflow |-> S.overflow,
               lastResort |-> S.lastResort, lastSweep |-> S.lastSweep]
    BY <2>3 DEF Tabled
  <2> QED BY <2>1, <2>2, <2>4
<1> HIDE DEF new, T
<1>8. StoreOK(T)
  <2>1. Len(new) <= MaxKeysPerClient /\ S.keys + (Len(new) - Len(S.table[c])) <= MaxTrackedKeys
    BY <1>1, <1>4, <1>6 DEF StoreOK
  <2>2. StoreOK(Tabled(S, c, new))
    BY <1>6, <2>1, TabledOK
  <2> QED BY <1>7, <2>2
<1>9. T.table[c] = new /\ \A d \in Client \ {c} : T.table[d] = S.table[d]
  <2>1. /\ Tabled(S, c, new).table[c] = new
        /\ \A d \in Client \ {c} : Tabled(S, c, new).table[d] = S.table[d]
    BY <1>6, OneTable
  <2> QED BY <1>7, <2>1
<1>10. \A i \in 1 .. Len(new) : i \in 1 .. Len(r) \/ i = Len(r) + 1
  BY <1>5, <1>6
<1>11. ASSUME NEW i \in 1 .. Len(new) PROVE \E j \in 1 .. Len(s) : new[i] = s[j]
  <2>1. CASE i = Len(r) + 1
    BY <1>2, <1>6, <2>1
  <2>2. CASE i \in 1 .. Len(r)
    BY <1>4, <1>6, <2>2 DEF Fewer
  <2> QED BY <1>10, <2>1, <2>2
<1>12. Has(T, c, k)
  <2>1. Len(r) + 1 \in 1 .. Len(new)
    BY <1>5, <1>6
  <2>2. T \in Stores
    BY <1>8 DEF StoreOK
  <2> QED BY <1>3, <1>6, <1>9, <2>1, <2>2, HasKey
<1> QED BY <1>8, <1>9, <1>11, <1>12 DEF T

LEMMA FreshTwice ==
  ASSUME NEW S \in Stores, NEW c \in Client, NEW T, T.table[c] = Fresh(S, c)
  PROVE  Len(Fresh(T, c)) = Len(Fresh(S, c))
<1> DEFINE s == S.table[c]
           K == {x \in Counters(Key) : ~IsExpired(x.hits)}
           r == Keep(s, K)
<1>1. s \in Seq(Counters(Key)) /\ Fresh(S, c) = r /\ Fresh(T, c) = Keep(r, K)
  BY StoreFields DEF Fresh
<1> HIDE DEF s, K
<1>2. r \in Seq(Counters(Key)) /\ Len(r) = Count(s, K)
  BY <1>1, KeepLen
<1>3. Count(r, K) = Count(s, K)
  BY <1>1, CountKeep
<1> HIDE DEF r
<1>4. Len(Keep(r, K)) = Count(r, K)
  BY <1>2, KeepLen
<1> QED BY <1>1, <1>2, <1>3, <1>4

LEMMA TotalZero ==
  ASSUME NEW S, NEW f, \A x \in S : f[x] = 0
  PROVE  Total(S, f) = 0
<1>1. Units(S, f) = {}
  BY DEF Units
<1> QED BY <1>1, FS_EmptySet DEF Total

LEMMA LeastNumber ==
  ASSUME NEW N \in SUBSET Nat, N # {}
  PROVE  \E n \in N : \A m \in N : n <= m
<1>1. IsWellFoundedOn(OpToRel(<, Nat), Nat)
  BY NatLessThanWellFounded
<1>2. PICK x \in N : \A y \in N : ~(<<y, x>> \in OpToRel(<, Nat))
  BY <1>1, WFMin
<1>3. \A y \in N : ~(y < x)
  BY <1>2 DEF OpToRel
<1> QED BY <1>3

(* One of the clients is the heaviest. *)
LEMMA SomeoneIsHeaviest ==
  ASSUME NEW S, StoreOK(S), NEW c \in Client
  PROVE  HeaviestClients(S, c) # {}
<1> DEFINE N == {MaxKeysPerClient - Len(S.table[d]) : d \in Client}
<1>1. \A d \in Client : /\ Len(S.table[d]) \in Nat /\ Len(S.table[d]) <= MaxKeysPerClient
                         /\ MaxKeysPerClient \in Nat
  BY StoreFields, ClientsFinite DEF StoreOK
<1>2. N \in SUBSET Nat /\ N # {}
  BY <1>1
<1>3. PICK n \in N : \A m \in N : n <= m
  <2> HIDE DEF N
  <2> QED BY <1>2, LeastNumber
<1>4. PICK d \in Client : n = MaxKeysPerClient - Len(S.table[d])
  OBVIOUS
<1>5. \A e \in Client : Len(S.table[d]) >= Len(S.table[e])
  <2> TAKE e \in Client
  <2>1. n <= MaxKeysPerClient - Len(S.table[e])
    BY <1>3
  <2> HIDE DEF N
  <2> QED BY <1>1, <1>4, <2>1
<1> QED BY <1>5 DEF HeaviestClients

(* A full store has a client with a counter. *)
LEMMA SomeoneHasKeys ==
  ASSUME NEW S, StoreOK(S), S.keys >= MaxTrackedKeys
  PROVE  \E c \in Client : Len(S.table[c]) > 0
<1>1. \A c \in Client : Sizes(S)[c] = Len(S.table[c]) /\ Len(S.table[c]) \in Nat
  BY StoreFields DEF Sizes, StoreOK
<1>2. SUFFICES ASSUME \A c \in Client : Len(S.table[c]) = 0 PROVE FALSE
  BY <1>1
<1>3. Total(Client, Sizes(S)) = 0
  BY <1>1, <1>2, TotalZero
<1> QED BY <1>3, ClientsFinite DEF StoreOK

(* The oldest counter of client v makes room for k. *)
LEMMA VictimMakesRoom ==
  ASSUME NEW S, StoreOK(S), NEW c \in Client, NEW k \in Key, ~Has(S, c, k), NEW v \in Client,
         Len(S.table[v]) > 0, Len(S.table[c]) >= MaxKeysPerClient => v = c,
         NEW T, T = Create(Drop(S, v, Head(S.table[v]).key), c, k)
  PROVE  /\ StoreOK(T) /\ Has(T, c, k)
         /\ \A d \in Client : \A i \in 1 .. Len(T.table[d]) :
              \/ d = c /\ T.table[d][i] = Blank(k)
              \/ \E j \in 1 .. Len(S.table[d]) : T.table[d][i] = S.table[d][j]
         /\ \A d \in Client \ {c, v} : T.table[d] = S.table[d]
<1> DEFINE D == Drop(S, v, Head(S.table[v]).key)
<1>1. /\ S \in Stores /\ S.keys \in Int
      /\ \A d \in Client : S.table[d] \in Seq(Counters(Key)) /\ Len(S.table[d]) \in Nat
  BY StoreFields DEF StoreOK
<1>2. Has(S, v, Head(S.table[v]).key)
  <2>1. 1 \in 1 .. Len(S.table[v]) /\ Head(S.table[v]) = S.table[v][1]
    BY <1>1
  <2> QED BY <1>1, <2>1, HasKey
<1>3. /\ Shrunk(S, D) /\ StoreOK(D) /\ D.keys = S.keys - 1
      /\ Len(D.table[v]) = Len(S.table[v]) - 1
      /\ \A d \in Client \ {v} : D.table[d] = S.table[d]
  BY <1>2, DropShrinks
<1> HIDE DEF D
<1>4. ~Has(D, c, k)
  BY <1>1, <1>3, ShrunkHasLess
<1>5. D.keys < MaxTrackedKeys
  BY <1>1, <1>3, ClientsFinite DEF StoreOK
<1>6. Len(D.table[c]) < MaxKeysPerClient
  <2>1. CASE v = c
    BY <1>1, <1>3, <2>1, ClientsFinite DEF StoreOK
  <2>2. CASE v # c
    <3>1. Len(D.table[c]) = Len(S.table[c]) /\ ~(Len(S.table[c]) >= MaxKeysPerClient)
      BY <1>3, <2>2
    <3> QED BY <1>1, <3>1, ClientsFinite
  <2> QED BY <2>1, <2>2
<1>7. T = Create(D, c, k)
  BY DEF D
<1>8. /\ StoreOK(T) /\ T.table[c] = Append(D.table[c], Blank(k))
      /\ \A d \in Client \ {c} : T.table[d] = D.table[d]
      /\ Has(T, c, k)
  BY <1>3, <1>4, <1>5, <1>6, <1>7, CreateOK, CreatedReady
<1>9. \A d \in Client : \A i \in 1 .. Len(D.table[d]) :
        \E j \in 1 .. Len(S.table[d]) : D.table[d][i] = S.table[d][j]
  BY <1>3 DEF Shrunk
<1>10. ASSUME NEW i \in 1 .. Len(T.table[c])
       PROVE  \/ T.table[c][i] = Blank(k)
              \/ \E j \in 1 .. Len(D.table[c]) : T.table[c][i] = D.table[c][j]
  <2>1. D.table[c] \in Seq(Counters(Key)) /\ Len(D.table[c]) \in Nat
    BY <1>3, StoreFields DEF StoreOK
  <2>2. T.table[c] = Append(D.table[c], Blank(k))
    BY <1>8
  <2> DEFINE old == D.table[c]
             new == Append(old, Blank(k))
  <2> HIDE DEF old
  <2>3. /\ old \in Seq(Counters(Key)) /\ Len(old) \in Nat /\ Len(new) = Len(old) + 1
        /\ new[Len(old) + 1] = Blank(k) /\ \A j \in 1 .. Len(old) : new[j] = old[j]
    BY <2>1, AppendAt DEF old
  <2>4. i \in 1 .. Len(new) /\ T.table[c][i] = new[i]
    BY <2>2 DEF old
  <2> HIDE DEF new
  <2>5. new[i] = Blank(k) \/ \E j \in 1 .. Len(old) : new[i] = old[j]
    BY <2>3, <2>4
  <2> QED BY <2>4, <2>5 DEF old
<1>11. ASSUME NEW d \in Client, NEW i \in 1 .. Len(T.table[d])
       PROVE  \/ d = c /\ T.table[d][i] = Blank(k)
              \/ \E j \in 1 .. Len(S.table[d]) : T.table[d][i] = S.table[d][j]
  <2>1. CASE d = c
    BY <1>9, <1>10, <2>1
  <2>2. CASE d # c
    <3>1. T.table[d] = D.table[d]
      BY <1>8, <2>2
    <3>2. i \in 1 .. Len(D.table[d])
      BY <3>1
    <3>3. \E j \in 1 .. Len(S.table[d]) : D.table[d][i] = S.table[d][j]
      BY <1>9, <3>2
    <3> QED BY <3>1, <3>3
  <2> QED BY <2>1, <2>2
<1> QED BY <1>3, <1>8, <1>11

(* T is S with a counter for key k of client c: the counters are those of  *)
(* S but for that one, and a live one of another client is gone only if    *)
(* this has more keys than c has live ones.                                *)
Admits(S, T, c, k) ==
  /\ StoreOK(T) /\ Has(T, c, k)
  /\ \A d \in Client : \A i \in 1 .. Len(T.table[d]) :
       \/ d = c /\ T.table[d][i] = Blank(k)
       \/ \E j \in 1 .. Len(S.table[d]) : T.table[d][i] = S.table[d][j]
  /\ ~Has(S, c, k) => \A d \in Client \ {c} :
       \/ Len(S.table[d]) > Len(Fresh(S, c))
       \/ \A j \in 1 .. Len(S.table[d]) : ~IsExpired(S.table[d][j].hits) =>
            \E i \in 1 .. Len(T.table[d]) : T.table[d][i] = S.table[d][j]

LEMMA EmailStoresOK ==
  ASSUME NEW S, StoreOK(S), NEW c \in Client, NEW k \in Key, now \in Nat,
         NEW T \in EmailStores(S, c, k)
  PROVE  Admits(S, T, c, k)
<1> DEFINE own == Evict(S, c)
           all == IF own.keys >= MaxTrackedKeys THEN Sweep(own) ELSE own
           full == Len(all.table[c]) >= MaxKeysPerClient
           victims == IF full THEN {c}
                      ELSE IF all.keys >= MaxTrackedKeys THEN HeaviestClients(all, c) ELSE {}
<1>0. S \in Stores
  BY DEF StoreOK
<1>1. CASE Has(S, c, k)
  <2>1. T = Newest(S, c, k)
    BY <1>1 DEF EmailStores, Newest, Others
  <2>2. /\ StoreOK(T) /\ \A d \in Client \ {c} : T.table[d] = S.table[d]
        /\ \A i \in 1 .. Len(T.table[c]) :
             \E j \in 1 .. Len(S.table[c]) : T.table[c][i] = S.table[c][j]
        /\ Has(T, c, k)
    BY <1>1, <2>1, KeyIsNewest
  <2>3. ASSUME NEW d \in Client, NEW i \in 1 .. Len(T.table[d])
        PROVE  \E j \in 1 .. Len(S.table[d]) : T.table[d][i] = S.table[d][j]
    <3>1. CASE d = c
      BY <2>2, <3>1
    <3>2. CASE d # c
      <4>1. T.table[d] = S.table[d]
        BY <2>2, <3>2
      <4> QED BY <4>1
    <3> QED BY <3>1, <3>2
  <2> QED BY <1>1, <2>2, <2>3 DEF Admits
<1>2. CASE ~Has(S, c, k)
  <2>1. /\ StoreOK(own) /\ Shrunk(S, own) /\ LiveKept(S, own)
        /\ own.table[c] = Fresh(S, c)
    <3>1. /\ StoreOK(own) /\ Shrunk(S, own) /\ LiveKept(S, own)
          /\ own.table = [S.table EXCEPT ![c] = Fresh(S, c)]
      BY EvictShrinks
    <3>2. S.table \in [Client -> Seq(Counters(Key))]
      BY <1>0, StoreFields
    <3> HIDE DEF own
    <3> QED BY <3>1, <3>2
  <2>2. IF victims = {} THEN T = Create(all, c, k)
        ELSE \E v \in victims : T = Create(Drop(all, v, Head(all.table[v]).key), c, k)
    BY <1>2 DEF EmailStores
  <2> HIDE DEF own
  <2>3. /\ StoreOK(all) /\ Shrunk(S, all) /\ LiveKept(S, all)
        /\ \A d \in Client : all.table[d] \in {own.table[d], Fresh(own, d)}
    BY <2>1, RoomMade
  <2> HIDE DEF all
  <2>4. ~Has(all, c, k)
    BY <1>0, <1>2, <2>3, ShrunkHasLess
  <2>5. \A d \in Client : Len(all.table[d]) \in Nat /\ Len(S.table[d]) \in Nat
                          /\ Len(all.table[d]) <= Len(S.table[d])
    BY <1>0, <2>3, StoreFields DEF StoreOK, Shrunk
  <2>6. Len(all.table[c]) = Len(Fresh(S, c))
    <3>1. Len(Fresh(own, c)) = Len(Fresh(S, c))
      BY <1>0, <2>1, FreshTwice
    <3> QED BY <2>1, <2>3, <3>1
  <2>7. all.keys \in Int
    BY <2>3, StoreFields DEF StoreOK
  <2>8. ASSUME NEW v \in Client, StoreOK(T), Has(T, c, k),
               \A d \in Client : \A i \in 1 .. Len(T.table[d]) :
                 \/ d = c /\ T.table[d][i] = Blank(k)
                 \/ \E j \in 1 .. Len(all.table[d]) : T.table[d][i] = all.table[d][j],
               \A d \in Client \ {c, v} : T.table[d] = all.table[d],
               v # c => Len(all.table[v]) > Len(all.table[c])
        PROVE  Admits(S, T, c, k)
    <3>1. ASSUME NEW d \in Client, NEW i \in 1 .. Len(T.table[d]),
                 ~(d = c /\ T.table[d][i] = Blank(k))
          PROVE  \E j \in 1 .. Len(S.table[d]) : T.table[d][i] = S.table[d][j]
      <4>1. PICK m \in 1 .. Len(all.table[d]) : T.table[d][i] = all.table[d][m]
        BY <2>8, <3>1
      <4>2. PICK j \in 1 .. Len(S.table[d]) : all.table[d][m] = S.table[d][j]
        BY <2>3 DEF Shrunk
      <4> QED BY <4>1, <4>2
    <3>2. ASSUME NEW d \in Client \ {c}, ~(Len(S.table[d]) > Len(Fresh(S, c))),
                 NEW j \in 1 .. Len(S.table[d]), ~IsExpired(S.table[d][j].hits)
          PROVE  \E i \in 1 .. Len(T.table[d]) : T.table[d][i] = S.table[d][j]
      <4>1. d # v
        BY <2>5, <2>6, <2>8, <3>2
      <4>2. T.table[d] = all.table[d]
        BY <2>8, <4>1
      <4>3. \E i \in 1 .. Len(all.table[d]) : all.table[d][i] = S.table[d][j]
        BY <2>3, <3>2 DEF LiveKept
      <4> QED BY <4>2, <4>3
    <3> QED BY <2>8, <3>1, <3>2 DEF Admits
  <2>9. CASE victims = {}
    <3>1. ~(Len(all.table[c]) >= MaxKeysPerClient) /\ ~(all.keys >= MaxTrackedKeys)
      <4>1. HeaviestClients(all, c) # {}
        BY <2>3, SomeoneIsHeaviest
      <4> QED BY <2>9, <4>1
    <3>2. Len(all.table[c]) < MaxKeysPerClient /\ all.keys < MaxTrackedKeys
      BY <2>5, <2>7, <3>1, ClientsFinite
    <3>3. T = Create(all, c, k)
      BY <2>2, <2>9
    <3>4. /\ StoreOK(T) /\ T.table[c] = Append(all.table[c], Blank(k)) /\ Has(T, c, k)
          /\ \A d \in Client \ {c} : T.table[d] = all.table[d]
      BY <2>3, <2>4, <3>2, <3>3, CreateOK, CreatedReady
    <3>5. ASSUME NEW d \in Client, NEW i \in 1 .. Len(T.table[d])
          PROVE  \/ d = c /\ T.table[d][i] = Blank(k)
                 \/ \E j \in 1 .. Len(all.table[d]) : T.table[d][i] = all.table[d][j]
      <4>1. CASE d = c
        <5>1. all.table[c] \in Seq(Counters(Key)) /\ Len(all.table[c]) \in Nat
          BY <2>3, StoreFields DEF StoreOK
        <5>2. i \in 1 .. Len(all.table[c]) \/ i = Len(all.table[c]) + 1
          BY <3>4, <4>1, <5>1
        <5> QED BY <3>4, <4>1, <5>1, <5>2
      <4>2. CASE d # c
        <5>1. T.table[d] = all.table[d]
          BY <3>4, <4>2
        <5> QED BY <5>1
      <4> QED BY <4>1, <4>2
    <3> QED BY <2>8, <3>4, <3>5
  <2>10. CASE victims # {}
    <3>1. PICK v \in victims : T = Create(Drop(all, v, Head(all.table[v]).key), c, k)
      BY <2>2, <2>10
    <3>2. v \in Client /\ Len(all.table[v]) > 0 /\ (v # c => Len(all.table[v]) > Len(all.table[c]))
      <4>1. CASE full
        BY <2>5, <3>1, <4>1, ClientsFinite
      <4>2. CASE ~full
        <5>1. v \in HeaviestClients(all, c) /\ all.keys >= MaxTrackedKeys
          BY <3>1, <4>2
        <5>2. v \in Client /\ \A e \in Client : Len(all.table[v]) >= Len(all.table[e])
          BY <5>1 DEF HeaviestClients
        <5>3. PICK e \in Client : Len(all.table[e]) > 0
          BY <2>3, <5>1, SomeoneHasKeys
        <5>4. Len(all.table[v]) > 0
          BY <2>5, <5>2, <5>3
        <5>5. ASSUME v # c PROVE Len(all.table[v]) > Len(all.table[c])
          <6>1. \E e2 \in Client : ~(Len(all.table[c]) >= Len(all.table[e2]))
            BY <5>1, <5>5 DEF HeaviestClients
          <6> QED BY <2>5, <5>2, <6>1
        <5> QED BY <5>2, <5>4, <5>5
      <4> QED BY <4>1, <4>2
    <3>3. full => v = c
      BY <3>1
    <3>4. /\ StoreOK(T) /\ Has(T, c, k)
          /\ \A d \in Client : \A i \in 1 .. Len(T.table[d]) :
               \/ d = c /\ T.table[d][i] = Blank(k)
               \/ \E j \in 1 .. Len(all.table[d]) : T.table[d][i] = all.table[d][j]
          /\ \A d \in Client \ {c, v} : T.table[d] = all.table[d]
      BY <2>3, <2>4, <3>1, <3>2, <3>3, VictimMakesRoom
    <3> HIDE DEF victims
    <3> QED BY <2>8, <3>2, <3>4
  <2> QED BY <2>9, <2>10
<1> QED BY <1>1, <1>2

-----------------------------------------------------------------------------
(* Hits and admissions *)

Since(t) == {at \in Nat : at >= t}
Admission == [key : Key, class : Class, at : Nat]
AdmittedSince(keys, t) == [key : keys, class : Class, at : Since(t)]

(* Every hit in a window that begins after low was an admission. *)
AllAdmitted(low, hits, adm) ==
  \A t \in Int : low < t => Count(hits, Since(t)) <= Count(adm, AdmittedSince(Key, t))

HitsWithin(low, S, c, adm) ==
  /\ \A i \in 1 .. Len(S.table[c]) : AllAdmitted(low, S.table[c][i].hits, adm)
  /\ S.overflow[c] # None => AllAdmitted(low, S.overflow[c], adm)

(* Every admission in such a window is counted under its key. *)
KeyCounted(low, S, c, k, adm) ==
  \A t \in Int : low < t /\ Count(adm, AdmittedSince({k}, t)) > 0 =>
    \E i \in 1 .. Len(S.table[c]) :
      /\ S.table[c][i].key = k
      /\ Count(adm, AdmittedSince({k}, t)) <= Count(S.table[c][i].hits, Since(t))

LEMMA SinceRecent ==
  ASSUME NEW hits \in Seq(Nat), now \in Nat, NEW t \in Int, now - Window < t
  PROVE  /\ Count(hits, Since(t)) <= Count(hits, Recent)
         /\ Count(hits, Since(t)) \in Nat /\ Count(hits, Recent) \in Nat
<1>1. \A i \in 1 .. Len(hits) : hits[i] \in Since(t) => hits[i] \in Recent
  BY ClientsFinite DEF Since, Recent
<1> QED BY <1>1, CountMonotone, CountType

(* A request that is not refused adds itself. *)
Added(ok, t) == IF ok /\ t <= now THEN 1 ELSE 0

LEMMA CountedSince ==
  ASSUME NEW hits \in Seq(Nat), now \in Nat, NEW ok \in BOOLEAN, NEW t \in Int, now - Window < t
  PROVE  /\ Counted(hits, ok) \in Seq(Nat) /\ Count(hits, Since(t)) \in Nat
         /\ Count(Counted(hits, ok), Since(t)) = Count(hits, Since(t)) + Added(ok, t)
<1>1. Live(hits) \in Seq(Nat) /\ Live(hits) = Keep(hits, Recent)
  BY LiveLen DEF Live, Recent
<1>2. \A i \in 1 .. Len(hits) :
        hits[i] \in Since(t) <=> hits[i] \in Recent /\ hits[i] \in Since(t)
  BY ClientsFinite DEF Since, Recent
<1>3. Count(Live(hits), Since(t)) = Count(hits, Since(t))
  BY <1>1, <1>2, CountKeep
<1>4. Count(hits, Since(t)) \in Nat
  BY CountType
<1>5. CASE ok
  <2>1. Counted(hits, ok) = Append(Live(hits), now) /\ Append(Live(hits), now) \in Seq(Nat)
    BY <1>1, <1>5 DEF Counted
  <2>2. Count(Append(Live(hits), now), Since(t))
        = IF now \in Since(t) THEN Count(Live(hits), Since(t)) + 1 ELSE Count(Live(hits), Since(t))
    BY <1>1, CountAppend
  <2>3. now \in Since(t) <=> t <= now
    BY DEF Since
  <2>4. Added(ok, t) = IF now \in Since(t) THEN 1 ELSE 0
    BY <1>5, <2>3 DEF Added
  <2>5. Count(Counted(hits, ok), Since(t)) = Count(Live(hits), Since(t)) + Added(ok, t)
    <3>1. CASE now \in Since(t)
      BY <2>1, <2>2, <2>4, <3>1
    <3>2. CASE now \notin Since(t)
      BY <1>3, <1>4, <2>1, <2>2, <2>4, <3>2
    <3> QED BY <3>1, <3>2
  <2> QED BY <1>3, <1>4, <2>1, <2>5
<1>6. CASE ~ok
  BY <1>1, <1>3, <1>4, <1>6 DEF Counted, Added
<1> QED BY <1>5, <1>6

(* The history with a request of k and class x *)
Joined(adm, k, x) == Append(adm, [key |-> k, class |-> x, at |-> now])

LEMMA AdmittedOne ==
  ASSUME NEW adm \in Seq(Admission), NEW r \in Admission, NEW W
  PROVE  /\ Append(adm, r) \in Seq(Admission) /\ Count(adm, W) \in Nat
         /\ Count(Append(adm, r), W) = IF r \in W THEN Count(adm, W) + 1 ELSE Count(adm, W)
BY CountType, CountAppend

LEMMA JoinedOne ==
  ASSUME NEW k \in Key, NEW x \in Class, now \in Nat, NEW keys, NEW t \in Int
  PROVE  /\ [key |-> k, class |-> x, at |-> now] \in Admission
         /\ [key |-> k, class |-> x, at |-> now] \in AdmittedSince(keys, t)
              <=> k \in keys /\ t <= now
BY DEF Admission, AdmittedSince, Since

LEMMA AdmittedMore ==
  ASSUME NEW adm \in Seq(Admission), now \in Nat, NEW k \in Key, NEW x \in Class,
         NEW keys, k \in keys, NEW t \in Int
  PROVE  /\ Count(adm, AdmittedSince(keys, t)) \in Nat
         /\ Count(Joined(adm, k, x), AdmittedSince(keys, t))
              = Count(adm, AdmittedSince(keys, t)) + Added(TRUE, t)
<1> DEFINE r == [key |-> k, class |-> x, at |-> now]
           W == AdmittedSince(keys, t)
<1>1. r \in Admission /\ (r \in W <=> t <= now) /\ Joined(adm, k, x) = Append(adm, r)
  BY JoinedOne DEF Joined
<1> HIDE DEF r, W
<1>2. /\ Count(adm, W) \in Nat
      /\ Count(Append(adm, r), W) = IF r \in W THEN Count(adm, W) + 1 ELSE Count(adm, W)
  BY <1>1, AdmittedOne
<1>3. Count(Append(adm, r), W) = Count(adm, W) + Added(TRUE, t)
  BY <1>1, <1>2 DEF Added
<1> QED BY <1>1, <1>2, <1>3 DEF W

After(adm, k, x, ok) == IF ok THEN Joined(adm, k, x) ELSE adm

(* The path of k has one more, the others what they had. *)
Grown(adm, more, k, ok) ==
  \A t \in Int : \A l :
    /\ l = k => Count(more, AdmittedSince({l}, t))
                  = Count(adm, AdmittedSince({l}, t)) + Added(ok, t)
    /\ l # k => Count(more, AdmittedSince({l}, t)) = Count(adm, AdmittedSince({l}, t))

LEMMA AfterGrown ==
  ASSUME NEW adm \in Seq(Admission), now \in Nat, NEW k \in Key, NEW x \in Class,
         NEW ok \in BOOLEAN
  PROVE  Grown(adm, After(adm, k, x, ok), k, ok)
<1> DEFINE r == [key |-> k, class |-> x, at |-> now]
           more == After(adm, k, x, ok)
<1>1. r \in Admission /\ more = IF ok THEN Append(adm, r) ELSE adm
  BY DEF Admission, After, Joined
<1>2. \A t \in Int : \A l : r \in AdmittedSince({l}, t) <=> l = k /\ t <= now
  BY DEF AdmittedSince, Since
<1> HIDE DEF r, more
<1>3. ASSUME NEW t \in Int, NEW l
      PROVE  /\ l = k => Count(more, AdmittedSince({l}, t))
                           = Count(adm, AdmittedSince({l}, t)) + Added(ok, t)
             /\ l # k => Count(more, AdmittedSince({l}, t)) = Count(adm, AdmittedSince({l}, t))
  <2> DEFINE W == AdmittedSince({l}, t)
  <2>1. r \in W <=> l = k /\ t <= now
    BY <1>2
  <2> HIDE DEF W
  <2>2. /\ Count(adm, W) \in Nat
        /\ Count(Append(adm, r), W) = IF r \in W THEN Count(adm, W) + 1 ELSE Count(adm, W)
    BY <1>1, AdmittedOne
  <2>3. /\ l = k => Count(more, W) = Count(adm, W) + Added(ok, t)
        /\ l # k => Count(more, W) = Count(adm, W)
    <3>1. CASE ok
      BY <1>1, <2>1, <2>2, <3>1 DEF Added
    <3>2. CASE ~ok
      BY <1>1, <2>2, <3>2 DEF Added
    <3> QED BY <3>1, <3>2
  <2> QED BY <2>3 DEF W
<1>4. Grown(adm, more, k, ok)
  BY <1>3 DEF Grown
<1> QED BY <1>4 DEF more

LEMMA AllAdmittedAfter ==
  ASSUME NEW adm \in Seq(Admission), NEW hits \in Seq(Nat), now \in Nat, NEW k \in Key,
         NEW x \in Class, NEW ok \in BOOLEAN, AllAdmitted(now - Window, hits, adm)
  PROVE  /\ AllAdmitted(now - Window, hits, After(adm, k, x, ok))
         /\ AllAdmitted(now - Window, Counted(hits, ok), After(adm, k, x, ok))
<1> SUFFICES ASSUME NEW t \in Int, now - Window < t
             PROVE  /\ Count(hits, Since(t)) <= Count(After(adm, k, x, ok), AdmittedSince(Key, t))
                    /\ Count(Counted(hits, ok), Since(t))
                         <= Count(After(adm, k, x, ok), AdmittedSince(Key, t))
  BY DEF AllAdmitted
<1>1. Count(hits, Since(t)) <= Count(adm, AdmittedSince(Key, t))
  BY DEF AllAdmitted
<1>2. /\ Count(Counted(hits, ok), Since(t)) = Count(hits, Since(t)) + Added(ok, t)
      /\ Count(hits, Since(t)) \in Nat
  BY CountedSince
<1>3. /\ Count(After(adm, k, x, ok), AdmittedSince(Key, t))
         = Count(adm, AdmittedSince(Key, t)) + Added(ok, t)
      /\ Count(adm, AdmittedSince(Key, t)) \in Nat
  <2>1. CASE ok
    <3>1. After(adm, k, x, ok) = Joined(adm, k, x) /\ Added(ok, t) = Added(TRUE, t)
      BY <2>1 DEF After, Added
    <3>2. /\ Count(Joined(adm, k, x), AdmittedSince(Key, t))
             = Count(adm, AdmittedSince(Key, t)) + Added(TRUE, t)
          /\ Count(adm, AdmittedSince(Key, t)) \in Nat
      BY AdmittedMore
    <3> QED BY <3>1, <3>2
  <2>2. CASE ~ok
    BY <2>2, CountType DEF After, Added
  <2> QED BY <2>1, <2>2
<1>4. Added(ok, t) \in Nat
  BY DEF Added
<1> QED BY <1>1, <1>2, <1>3, <1>4

(* Making room changes neither. *)
LEMMA ReadyKeeps ==
  ASSUME NEW S, StoreOK(S), NEW T, Ready(S, T), now \in Nat, NEW c \in Client,
         NEW adm \in Seq(Admission)
  PROVE  /\ HitsWithin(now - Window, S, c, adm) => HitsWithin(now - Window, T, c, adm)
         /\ \A k \in Key : KeyCounted(now - Window, S, c, k, adm)
                             => KeyCounted(now - Window, T, c, k, adm)
<1>1. AllAdmitted(now - Window, <<>>, adm)
  <2>1. \A t \in Int : Count(adm, AdmittedSince(Key, t)) \in Nat /\ Count(<<>>, Since(t)) = 0
    BY CountType, CountEmpty
  <2> QED BY <2>1 DEF AllAdmitted
<1>2. ASSUME HitsWithin(now - Window, S, c, adm) PROVE HitsWithin(now - Window, T, c, adm)
  <2>1. ASSUME NEW i \in 1 .. Len(T.table[c])
        PROVE  AllAdmitted(now - Window, T.table[c][i].hits, adm)
    <3>1. CASE T.table[c][i].hits = <<>>
      BY <1>1, <3>1
    <3>2. CASE T.table[c][i].hits # <<>>
      <4>1. PICK j \in 1 .. Len(S.table[c]) : T.table[c][i] = S.table[c][j]
        BY <3>2 DEF Ready
      <4> QED BY <1>2, <4>1 DEF HitsWithin
    <3> QED BY <3>1, <3>2
  <2>2. T.overflow[c] \in {None, <<>>, S.overflow[c]}
    BY DEF Ready
  <2>3. T.overflow[c] # None => AllAdmitted(now - Window, T.overflow[c], adm)
    BY <1>1, <1>2, <2>2 DEF HitsWithin
  <2> QED BY <2>1, <2>3 DEF HitsWithin
<1>3. ASSUME NEW k \in Key, KeyCounted(now - Window, S, c, k, adm)
      PROVE  KeyCounted(now - Window, T, c, k, adm)
  <2> SUFFICES ASSUME NEW t \in Int, now - Window < t, Count(adm, AdmittedSince({k}, t)) > 0
               PROVE  \E i \in 1 .. Len(T.table[c]) :
                        /\ T.table[c][i].key = k
                        /\ Count(adm, AdmittedSince({k}, t)) <= Count(T.table[c][i].hits, Since(t))
    BY DEF KeyCounted
  <2>1. PICK j \in 1 .. Len(S.table[c]) :
          /\ S.table[c][j].key = k
          /\ Count(adm, AdmittedSince({k}, t)) <= Count(S.table[c][j].hits, Since(t))
    BY <1>3 DEF KeyCounted
  <2>2. S.table[c][j].hits \in Seq(Nat)
    BY StoreFields DEF StoreOK
  <2>3. Count(adm, AdmittedSince({k}, t)) \in Nat
    BY CountType
  <2>4. Count(S.table[c][j].hits, Recent) # 0
    BY <2>1, <2>2, <2>3, SinceRecent
  <2>5. ~IsExpired(S.table[c][j].hits)
    BY <2>2, <2>4, LiveLen
  <2>6. PICK i \in 1 .. Len(T.table[c]) : T.table[c][i] = S.table[c][j]
    BY <2>5 DEF Ready, LiveKept
  <2> QED BY <2>1, <2>6
<1> QED BY <1>2, <1>3

(* A request counted under its own key *)
LEMMA OwnCounts ==
  ASSUME NEW T, StoreOK(T), now \in Nat, NEW c \in Client, NEW k \in Key, Has(T, c, k),
         NEW x \in Class, NEW ok \in BOOLEAN, NEW hits, hits = Counter(T, c, k).hits,
         NEW adm \in Seq(Admission),
         NEW U, U = Put(T, c, k, "own", Counted(hits, ok))
  PROVE  /\ hits \in Seq(Nat) /\ StoreOK(U) /\ U.overflow = T.overflow
         /\ \A d \in Client \ {c} : U.table[d] = T.table[d]
         /\ HitsWithin(now - Window, T, c, adm)
              => HitsWithin(now - Window, U, c, After(adm, k, x, ok))
         /\ \A l \in Key : KeyCounted(now - Window, T, c, l, adm)
              => KeyCounted(now - Window, U, c, l, After(adm, k, x, ok))
<1> DEFINE new == Counted(hits, ok)
           n == Len(T.table[c])
           low == now - Window
<1>1. PICK p \in 1 .. n : /\ T.table[c][p].key = k /\ Counter(T, c, k) = T.table[c][p]
                          /\ \A i \in 1 .. n : T.table[c][i].key = k => i = p
  BY CounterOf
<1>2. /\ \A i \in 1 .. n : T.table[c][i].key \in Key /\ T.table[c][i].hits \in Seq(Nat)
      /\ T.overflow[c] # None => T.overflow[c] \in Seq(Nat)
  BY StoreFields DEF StoreOK
<1>3. hits = T.table[c][p].hits /\ hits \in Seq(Nat)
  BY <1>1, <1>2
<1>4. new \in Seq(Nat)
  <2>1. now + 1 \in Int /\ now - Window < now + 1
    BY ClientsFinite
  <2> QED BY <1>3, <2>1, CountedSince
<1>5. /\ StoreOK(U) /\ U.table[c] = Raised(T.table[c], k, new) /\ Len(U.table[c]) = n
      /\ \A d \in Client \ {c} : U.table[d] = T.table[d]
      /\ U.overflow = T.overflow
  <2>1. U = Put(T, c, k, "own", new)
    OBVIOUS
  <2> HIDE DEF new
  <2> QED BY <1>4, <2>1, PutOwn
<1> HIDE DEF n
<1>6. /\ U.table[c][p].key = k /\ U.table[c][p].hits = new
      /\ \A i \in 1 .. n : i # p => U.table[c][i] = T.table[c][i]
  <2> HIDE DEF new
  <2>1. Raised(T.table[c], k, new)[p] = [key |-> k, hits |-> new]
    BY <1>1 DEF Raised, n
  <2>2. \A i \in 1 .. n : i # p => Raised(T.table[c], k, new)[i] = T.table[c][i]
    <3> TAKE i \in 1 .. n
    <3> HAVE i # p
    <3>1. i \in 1 .. Len(T.table[c]) /\ T.table[c][i].key # k
      BY <1>1 DEF n
    <3> QED BY <3>1 DEF Raised
  <2> QED BY <1>5, <2>1, <2>2
<1> HIDE DEF new
<1>7. ASSUME HitsWithin(low, T, c, adm) PROVE HitsWithin(low, U, c, After(adm, k, x, ok))
  <2>1. AllAdmitted(low, hits, adm)
    BY <1>3, <1>7 DEF HitsWithin, n
  <2>2. AllAdmitted(low, new, After(adm, k, x, ok))
    BY <1>3, <2>1, AllAdmittedAfter DEF new
  <2>3. ASSUME NEW i \in 1 .. n, i # p
        PROVE  AllAdmitted(low, T.table[c][i].hits, After(adm, k, x, ok))
    <3>1. AllAdmitted(low, T.table[c][i].hits, adm)
      BY <1>7 DEF HitsWithin, n
    <3> QED BY <1>2, <3>1, AllAdmittedAfter
  <2>4. ASSUME T.overflow[c] # None
        PROVE  AllAdmitted(low, T.overflow[c], After(adm, k, x, ok))
    <3>1. AllAdmitted(low, T.overflow[c], adm)
      BY <1>7, <2>4 DEF HitsWithin
    <3> QED BY <1>2, <2>4, <3>1, AllAdmittedAfter
  <2>5. ASSUME NEW i \in 1 .. n PROVE AllAdmitted(low, U.table[c][i].hits, After(adm, k, x, ok))
    <3>1. CASE i = p
      BY <1>6, <2>2, <3>1
    <3>2. CASE i # p
      BY <1>6, <2>3, <3>2
    <3> QED BY <3>1, <3>2
  <2> QED BY <1>5, <2>4, <2>5 DEF HitsWithin
<1>8. ASSUME NEW l \in Key, KeyCounted(low, T, c, l, adm)
      PROVE  KeyCounted(low, U, c, l, After(adm, k, x, ok))
  <2>0. Grown(adm, After(adm, k, x, ok), k, ok)
    BY AfterGrown
  <2> SUFFICES ASSUME NEW t \in Int, low < t,
                      Count(After(adm, k, x, ok), AdmittedSince({l}, t)) > 0
               PROVE  \E i \in 1 .. n : /\ U.table[c][i].key = l
                        /\ Count(After(adm, k, x, ok), AdmittedSince({l}, t))
                             <= Count(U.table[c][i].hits, Since(t))
    BY <1>5 DEF KeyCounted
  <2>1. Count(adm, AdmittedSince({l}, t)) \in Nat
    BY CountType
  <2>2. CASE l = k
    <3>1. Count(adm, AdmittedSince({l}, t)) <= Count(hits, Since(t)) /\ Count(hits, Since(t)) \in Nat
      <4>1. CASE Count(adm, AdmittedSince({l}, t)) > 0
        <5>1. PICK i \in 1 .. n : /\ T.table[c][i].key = l
                 /\ Count(adm, AdmittedSince({l}, t)) <= Count(T.table[c][i].hits, Since(t))
          BY <1>8, <4>1 DEF KeyCounted, n
        <5>2. i = p
          BY <1>1, <2>2, <5>1
        <5> QED BY <1>3, <5>1, <5>2, CountType
      <4>2. CASE ~(Count(adm, AdmittedSince({l}, t)) > 0)
        <5>1. Count(hits, Since(t)) \in Nat
          BY <1>3, CountType
        <5> QED BY <2>1, <4>2, <5>1
      <4> QED BY <4>1, <4>2
    <3>2. Count(new, Since(t)) = Count(hits, Since(t)) + Added(ok, t)
      BY <1>3, CountedSince DEF new
    <3>3. Count(After(adm, k, x, ok), AdmittedSince({l}, t))
          = Count(adm, AdmittedSince({l}, t)) + Added(ok, t)
      BY <2>0, <2>2 DEF Grown
    <3>4. Added(ok, t) \in Nat
      BY DEF Added
    <3>5. Count(After(adm, k, x, ok), AdmittedSince({l}, t)) <= Count(new, Since(t))
      BY <2>1, <3>1, <3>2, <3>3, <3>4
    <3> QED BY <1>6, <2>2, <3>5
  <2>3. CASE l # k
    <3>1. Count(After(adm, k, x, ok), AdmittedSince({l}, t)) = Count(adm, AdmittedSince({l}, t))
      BY <2>0, <2>3 DEF Grown
    <3>2. PICK i \in 1 .. n : /\ T.table[c][i].key = l
                 /\ Count(adm, AdmittedSince({l}, t)) <= Count(T.table[c][i].hits, Since(t))
      BY <1>8, <3>1 DEF KeyCounted, n
    <3>3. U.table[c][i] = T.table[c][i]
      BY <1>1, <1>6, <2>3, <3>2
    <3> QED BY <3>1, <3>2, <3>3
  <2> QED BY <2>2, <2>3
<1> QED BY <1>3, <1>5, <1>7, <1>8

(* A request counted in an overflow *)
LEMMA PutAside ==
  ASSUME NEW T, StoreOK(T), NEW c \in Client, NEW k \in Key, NEW hits \in Seq(Nat),
         T.overflow[c] # None
  PROVE  /\ StoreOK(Put(T, c, k, "overflow", hits))
         /\ Put(T, c, k, "overflow", hits).table = T.table
         /\ Put(T, c, k, "overflow", hits).overflow = [T.overflow EXCEPT ![c] = hits]
<1> DEFINE over == [T.overflow EXCEPT ![c] = hits]
           last == T.lastResort
<1>1. T \in Stores /\ T.overflow \in [Client -> Seq(Nat) \cup {None}]
  BY DEF StoreOK, Stores
<1>2. last \in Seq(Nat) \cup {None}
  BY <1>1 DEF Stores
<1>3. Put(T, c, k, "overflow", hits) = Apart(T, over, last)
  BY <1>1, Spilled DEF Put
<1>4. over \in [Client -> Seq(Nat) \cup {None}]
  BY <1>1
<1>5. Cardinality({d \in Client : over[d] # None}) <= MaxTrackedKeys
  BY OneMoreSpill
<1> HIDE DEF over, last
<1>6. /\ StoreOK(Apart(T, over, last)) /\ Apart(T, over, last).table = T.table
      /\ Apart(T, over, last).overflow = over
  BY <1>2, <1>4, <1>5, ApartOK
<1> QED BY <1>3, <1>6 DEF over

LEMMA PutLast ==
  ASSUME NEW T, StoreOK(T), NEW c \in Client, NEW k \in Key, NEW hits \in Seq(Nat)
  PROVE  /\ StoreOK(Put(T, c, k, "lastResort", hits))
         /\ Put(T, c, k, "lastResort", hits).table = T.table
         /\ Put(T, c, k, "lastResort", hits).overflow = T.overflow
<1> DEFINE over == T.overflow
<1>1. T \in Stores /\ over \in [Client -> Seq(Nat) \cup {None}] /\ hits \in Seq(Nat) \cup {None}
  BY DEF StoreOK, Stores
<1>2. Put(T, c, k, "lastResort", hits) = Apart(T, over, hits)
  BY <1>1, Spilled DEF Put
<1>3. Cardinality({d \in Client : over[d] # None}) <= MaxTrackedKeys
  BY DEF StoreOK, Spills
<1> HIDE DEF over
<1>4. /\ StoreOK(Apart(T, over, hits)) /\ Apart(T, over, hits).table = T.table
      /\ Apart(T, over, hits).overflow = over
  BY <1>1, <1>3, ApartOK
<1> QED BY <1>2, <1>4 DEF over

OfPath(k) == [key : {k}, class : Class, at : Nat]
OfClass(k, x) == [key : {k}, class : {x}, at : Nat]

(* No request of a client lets more through than it counts. *)
LEMMA LimitStep ==
  ASSUME NEW T, StoreOK(T), now \in Nat, NEW c \in Client, NEW k \in Key, Has(T, c, k),
         NEW adm \in Seq(Admission), KeyCounted(now - Window, T, c, k, adm),
         \A i \in 1 .. Len(adm) : now - adm[i].at < Window,
         NEW x \in Class, Within(Counter(T, c, k).hits, x)
  PROVE  Count(adm, OfPath(k)) < Limit[x]
<1> DEFINE W == OfPath(k)
           t == now - Window + 1
           hits == Counter(T, c, k).hits
<1>1. PICK p \in 1 .. Len(T.table[c]) :
        /\ T.table[c][p].key = k /\ hits = T.table[c][p].hits /\ hits \in Seq(Nat)
        /\ \A i \in 1 .. Len(T.table[c]) : T.table[c][i].key = k => i = p
  <2>1. PICK p \in 1 .. Len(T.table[c]) :
          /\ T.table[c][p].key = k /\ Counter(T, c, k) = T.table[c][p]
          /\ \A i \in 1 .. Len(T.table[c]) : T.table[c][i].key = k => i = p
    BY CounterOf
  <2>2. T.table[c][p].hits \in Seq(Nat)
    BY StoreFields DEF StoreOK
  <2> QED BY <2>1, <2>2
<1>2. Len(Live(hits)) = Count(hits, Recent) /\ Count(hits, Recent) < Limit[x]
  BY <1>1, LiveLen DEF Within
<1>3. t \in Int /\ now - Window < t
  BY ClientsFinite
<1>4. Count(adm, W) <= Count(adm, AdmittedSince({k}, t))
  <2>1. ASSUME NEW i \in 1 .. Len(adm), adm[i] \in W PROVE adm[i] \in AdmittedSince({k}, t)
    <3>1. adm[i] \in Admission /\ adm[i].at \in Nat /\ now - adm[i].at < Window
      <4>1. adm[i] \in Admission
        OBVIOUS
      <4> QED BY <4>1 DEF Admission
    <3>2. adm[i].at >= t
      BY <3>1, ClientsFinite
    <3> QED BY <2>1, <3>1, <3>2 DEF AdmittedSince, Since, OfPath
  <2> HIDE DEF W, t
  <2> QED BY <2>1, CountMonotone
<1>5. /\ Count(adm, W) \in Nat /\ Count(adm, AdmittedSince({k}, t)) \in Nat
  BY CountType
<1>6. Count(hits, Since(t)) <= Count(hits, Recent) /\ Count(hits, Since(t)) \in Nat
      /\ Count(hits, Recent) \in Nat
  BY <1>1, <1>3, SinceRecent
<1> HIDE DEF t, hits, W
<1>7. CASE Count(adm, AdmittedSince({k}, t)) > 0
  <2>1. PICK i \in 1 .. Len(T.table[c]) : /\ T.table[c][i].key = k
           /\ Count(adm, AdmittedSince({k}, t)) <= Count(T.table[c][i].hits, Since(t))
    BY <1>3, <1>7 DEF KeyCounted
  <2>2. i = p
    BY <1>1, <2>1
  <2> QED BY <1>1, <1>2, <1>4, <1>5, <1>6, <2>1, <2>2, Limits DEF W
<1>8. CASE ~(Count(adm, AdmittedSince({k}, t)) > 0)
  BY <1>4, <1>5, <1>8, Limits DEF W
<1> QED BY <1>7, <1>8

-----------------------------------------------------------------------------
(* The inductive invariant *)

Login == [phase : {"password"}, client : Client, key : Key]

GuardsTypeOK ==
  /\ guard \in {"api", "auth", "email"} /\ now \in Nat
  /\ StoreOK(store)
  /\ login \in [Attempt -> {Idle} \cup Login]
  /\ guard # "email" => \A a \in Attempt : login[a] = Idle
  /\ admitted \in [Client -> Seq(Admission)]
  /\ guard = "email" => \A c \in Client : admitted[c] = <<>>
  /\ spilled \subseteq Client

(* The history holds the admissions of the window. *)
AdmittedRecently ==
  \A c \in Client : \A i \in 1 .. Len(admitted[c]) : now - admitted[c][i].at < Window

HitsInv ==
  guard # "email" => \A c \in Client : HitsWithin(now - Window, store, c, admitted[c])

CountsInv ==
  guard # "email" =>
    \A c \in Client \ spilled, k \in Key : KeyCounted(now - Window, store, c, k, admitted[c])

(* The logins L of a pair that are between their two looks *)
Pending(L, c, k) == {a \in Attempt : L[a] = [phase |-> "password", client |-> c, key |-> k]}

RecentAt(n) == {at \in Nat : n - at < Window}

FailuresOK(n, S, L, c) ==
  \A i \in 1 .. Len(S.table[c]) :
    Count(S.table[c][i].hits, RecentAt(n)) + Cardinality(Pending(L, c, S.table[c][i].key))
      < Limit["auth"] + Cardinality(Attempt)

FailuresInv == guard = "email" => \A c \in Client : FailuresOK(now, store, login, c)

GuardsIInv ==
  /\ GuardsTypeOK /\ AdmittedRecently /\ HitsInv /\ CountsInv /\ LimitHolds /\ FailuresInv

LEMMA PendingType ==
  ASSUME NEW L, NEW c, NEW k
  PROVE  /\ IsFiniteSet(Attempt) /\ Cardinality(Attempt) \in Nat
         /\ IsFiniteSet(Pending(L, c, k)) /\ Cardinality(Pending(L, c, k)) \in Nat
         /\ Cardinality(Pending(L, c, k)) <= Cardinality(Attempt)
<1>1. IsFiniteSet(Attempt) /\ Pending(L, c, k) \in SUBSET Attempt
  BY GuardsAssumption DEF Pending
<1> QED BY <1>1, FS_Subset, FS_CardinalityType

(* What LimitHolds says of a path, by the counts of its history *)
PathOK(g, adm, k) ==
  /\ \A x \in Classes[g] : Count(adm, OfClass(k, x)) <= Limit[x]
  /\ \E x \in Classes[g] : Count(adm, OfPath(k)) <= Limit[x]

LEMMA LimitCounts ==
  ASSUME NEW adm \in Seq(Admission), NEW k, NEW x
  PROVE  /\ Len(Keep(adm, OfClass(k, x))) = Count(adm, OfClass(k, x))
         /\ Len(Keep(adm, OfPath(k))) = Count(adm, OfPath(k))
         /\ Count(adm, OfClass(k, x)) \in Nat /\ Count(adm, OfPath(k)) \in Nat
<1>1. ASSUME NEW W PROVE Len(Keep(adm, W)) = Count(adm, W) /\ Count(adm, W) \in Nat
  BY KeepLen, CountType
<1> QED BY <1>1

PathsOK(g, adm, sp) ==
  g # "email" => \A c \in Client \ sp, k \in Key : PathOK(g, adm[c], k)

(* LimitHolds of any history *)
LimitsHold(g, adm, sp) ==
  g # "email" =>
  \A c \in Client \ sp, k \in Key :
    /\ \A x \in Classes[g] : Len(Keep(adm[c], OfClass(k, x))) <= Limit[x]
    /\ \E x \in Classes[g] : Len(Keep(adm[c], OfPath(k))) <= Limit[x]

LEMMA LimitHoldsByPath ==
  ASSUME NEW g, NEW adm \in [Client -> Seq(Admission)], NEW sp
  PROVE  LimitsHold(g, adm, sp) <=> PathsOK(g, adm, sp)
<1>1. ASSUME NEW c \in Client, NEW k, NEW x
      PROVE  /\ Len(Keep(adm[c], OfClass(k, x))) = Count(adm[c], OfClass(k, x))
             /\ Len(Keep(adm[c], OfPath(k))) = Count(adm[c], OfPath(k))
  <2>1. adm[c] \in Seq(Admission)
    OBVIOUS
  <2> QED BY <2>1, LimitCounts
<1> QED BY <1>1 DEF LimitsHold, PathsOK, PathOK

LEMMA LimitHoldsIs ==
  /\ LimitHolds <=> LimitsHold(guard, admitted, spilled)
  /\ LimitHolds' <=> LimitsHold(guard', admitted', spilled')
BY DEF LimitHolds, LimitsHold, Admitted, OfClass, OfPath

(* A history with less of everything is within the limits as well. *)
LEMMA PathOfLess ==
  ASSUME NEW g \in {"api", "auth", "email"}, NEW k, NEW adm \in Seq(Admission),
         NEW less \in Seq(Admission), \A W : Count(less, W) <= Count(adm, W),
         PathOK(g, adm, k)
  PROVE  PathOK(g, less, k)
<1>1. \A x \in Classes[g] : x \in Class /\ Limit[x] \in Nat
  BY ClassesOf, Limits
<1>2. \A x : /\ Count(adm, OfClass(k, x)) \in Nat /\ Count(adm, OfPath(k)) \in Nat
             /\ Count(less, OfClass(k, x)) \in Nat /\ Count(less, OfPath(k)) \in Nat
  BY LimitCounts
<1>3. ASSUME NEW x \in Classes[g]
      PROVE  /\ Count(adm, OfClass(k, x)) <= Limit[x] => Count(less, OfClass(k, x)) <= Limit[x]
             /\ Count(adm, OfPath(k)) <= Limit[x] => Count(less, OfPath(k)) <= Limit[x]
  <2>1. /\ Count(less, OfClass(k, x)) <= Count(adm, OfClass(k, x))
        /\ Count(less, OfPath(k)) <= Count(adm, OfPath(k))
    OBVIOUS
  <2> QED BY <1>1, <1>2, <2>1
<1> QED BY <1>3 DEF PathOK

(* One more request of a class that had room keeps every limit: those of   *)
(* the other classes count nothing new, and its own bounds the path.       *)
LEMMA PathOfMore ==
  ASSUME NEW g \in {"api", "auth", "email"}, NEW k \in Key, NEW x \in Classes[g], now \in Nat,
         NEW adm \in Seq(Admission), PathOK(g, adm, k), Count(adm, OfPath(k)) < Limit[x]
  PROVE  PathOK(g, Joined(adm, k, x), k)
<1> DEFINE r == [key |-> k, class |-> x, at |-> now]
           more == Joined(adm, k, x)
<1>1. x \in Class /\ Limit[x] \in Nat
  BY ClassesOf, Limits
<1>2. r \in Admission /\ more = Append(adm, r)
  BY <1>1 DEF Admission, Joined
<1>3. more \in Seq(Admission)
  <2> HIDE DEF r, more
  <2> QED BY <1>2
<1>4. ASSUME NEW W PROVE Count(more, W) = IF r \in W THEN Count(adm, W) + 1 ELSE Count(adm, W)
  <2> HIDE DEF r, more
  <2> QED BY <1>2, CountAppend
<1>5. /\ Count(adm, OfPath(k)) \in Nat
      /\ \A y : Count(adm, OfClass(k, y)) \in Nat
  BY LimitCounts
<1>6. Count(more, OfPath(k)) <= Limit[x] /\ Count(more, OfPath(k)) \in Nat
  <2>1. \/ Count(more, OfPath(k)) = Count(adm, OfPath(k)) + 1
        \/ Count(more, OfPath(k)) = Count(adm, OfPath(k))
    BY <1>4
  <2> HIDE DEF more
  <2> QED BY <1>1, <1>5, <2>1
<1>7. ASSUME NEW y \in Classes[g] PROVE Count(more, OfClass(k, y)) <= Limit[y]
  <2>1. CASE y = x
    <3> HIDE DEF more
    <3>1. Count(more, OfClass(k, x)) <= Count(more, OfPath(k))
      <4>1. \A i \in 1 .. Len(more) : more[i] \in OfClass(k, x) => more[i] \in OfPath(k)
        BY <1>1 DEF OfClass, OfPath
      <4> QED BY <1>3, <4>1, CountMonotone
    <3>2. Count(more, OfClass(k, x)) \in Nat
      BY <1>3, LimitCounts
    <3> QED BY <1>1, <1>6, <2>1, <3>1, <3>2
  <2>2. CASE y # x
    <3>1. r \notin OfClass(k, y)
      BY <2>2 DEF OfClass
    <3>2. Count(more, OfClass(k, y)) = Count(adm, OfClass(k, y))
      <4> HIDE DEF r, more
      <4> QED BY <1>4, <3>1
    <3>3. Count(adm, OfClass(k, y)) <= Limit[y]
      BY DEF PathOK
    <3> HIDE DEF more
    <3> QED BY <3>2, <3>3
  <2> QED BY <2>1, <2>2
<1> HIDE DEF more
<1>8. PathOK(g, more, k)
  BY <1>6, <1>7 DEF PathOK
<1> QED BY <1>8 DEF more

(* It does not count on another path. *)
LEMMA PathOfOther ==
  ASSUME NEW g, NEW k \in Key, NEW x \in Class, NEW l, l # k, now \in Nat,
         NEW adm \in Seq(Admission), PathOK(g, adm, l)
  PROVE  PathOK(g, Joined(adm, k, x), l)
<1> DEFINE r == [key |-> k, class |-> x, at |-> now]
           more == Joined(adm, k, x)
<1>1. r \in Admission /\ more = Append(adm, r)
  BY DEF Admission, Joined
<1>2. \A y : r \notin OfClass(l, y) /\ r \notin OfPath(l)
  BY DEF OfClass, OfPath
<1> HIDE DEF r, more
<1>3. ASSUME NEW W, r \notin W PROVE Count(more, W) = Count(adm, W)
  BY <1>1, <1>3, CountAppend
<1>4. \A y : /\ Count(more, OfClass(l, y)) = Count(adm, OfClass(l, y))
             /\ Count(more, OfPath(l)) = Count(adm, OfPath(l))
  BY <1>2, <1>3
<1>5. PathOK(g, more, l)
  BY <1>4 DEF PathOK
<1> QED BY <1>5 DEF more

LEMMA GuardsStart ==
  ASSUME Init
  PROVE  GuardsIInv
<1>1. store = [table |-> [c \in Client |-> <<>>], keys |-> 0,
               overflow |-> [c \in Client |-> None], lastResort |-> None,
               lastSweep |-> -SweepInterval]
  BY DEF Init
<1>2. <<>> \in Seq(Counters(Key)) /\ -SweepInterval \in Int
  BY ClientsFinite
<1>3. \A c \in Client : store.table[c] = <<>> /\ store.overflow[c] = None /\ Len(<<>>) = 0
  BY <1>1
<1>4. store \in Stores
  BY <1>1, <1>2 DEF Stores
<1>5. store.keys = Total(Client, Sizes(store))
  <2>1. \A c \in Client : Sizes(store)[c] = 0
    BY <1>3 DEF Sizes
  <2>2. Total(Client, Sizes(store)) = 0
    BY <2>1, TotalZero
  <2> QED BY <1>1, <2>2
<1>6. Spills(store) = 0
  <2>1. {c \in Client : store.overflow[c] # None} = {}
    BY <1>3
  <2> QED BY <2>1, FS_EmptySet DEF Spills
<1>7. \A c \in Client : Distinct(store.table[c]) /\ Len(store.table[c]) <= MaxKeysPerClient
  BY <1>3, ClientsFinite DEF Distinct
<1>8. store.keys <= MaxTrackedKeys /\ Spills(store) <= MaxTrackedKeys
  BY <1>1, <1>6, ClientsFinite
<1>9. StoreOK(store)
  BY <1>4, <1>5, <1>7, <1>8 DEF StoreOK
<1>10. \A c \in Client : admitted[c] = <<>>
  BY DEF Init
<1>11. GuardsTypeOK
  <2>1. <<>> \in Seq(Admission)
    OBVIOUS
  <2> QED BY <1>9, <1>10, <2>1 DEF Init, GuardsTypeOK
<1>12. AdmittedRecently
  BY <1>10 DEF AdmittedRecently
<1>13. HitsInv
  BY <1>3 DEF HitsInv, HitsWithin
<1>14. CountsInv
  BY <1>10, CountEmpty DEF CountsInv, KeyCounted
<1>15. LimitHolds
  <2>1. guard \in {"api", "auth", "email"} /\ admitted \in [Client -> Seq(Admission)]
    BY <1>11 DEF GuardsTypeOK
  <2>2. ASSUME NEW k PROVE PathOK(guard, <<>>, k)
    <3>1. \A W : Count(<<>>, W) = 0
      BY CountEmpty
    <3>2. Classes[guard] # {} /\ \A x \in Classes[guard] : Limit[x] \in Nat
      BY <2>1, ClassesOf, Limits
    <3>3. \A x \in Classes[guard] : 0 <= Limit[x]
      BY <3>2
    <3> QED BY <3>1, <3>2, <3>3 DEF PathOK
  <2>3. PathsOK(guard, admitted, spilled)
    BY <1>10, <2>2 DEF PathsOK
  <2> QED BY <2>1, <2>3, LimitHoldsByPath, LimitHoldsIs
<1>16. FailuresInv
  BY <1>3 DEF FailuresInv, FailuresOK
<1> QED BY <1>11, <1>12, <1>13, <1>14, <1>15, <1>16 DEF GuardsIInv

-----------------------------------------------------------------------------
(* One lemma for each action *)

LEMMA RequestKeeps ==
  ASSUME GuardsIInv, NEW c \in Client, NEW k \in Key, NEW x \in Class, Request(c, k, x)
  PROVE  GuardsIInv'
<1> DEFINE F == StateFor(store, c, k)
           T == F.store
           hits == Hits(T, c, k, F.place)
           ok == Within(hits, x)
           low == now - Window
<1>1. /\ guard # "email" /\ x \in Classes[guard] /\ guard' = guard /\ login' = login /\ now' = now
      /\ store' = Put(T, c, k, F.place, Counted(hits, ok))
      /\ admitted' = IF ok THEN [admitted EXCEPT ![c] = Append(@, [key |-> k, class |-> x, at |-> now])]
                     ELSE admitted
      /\ spilled' = IF F.place = "own" THEN spilled ELSE spilled \cup {c}
  BY DEF Request
<1>2. /\ StoreOK(store) /\ now \in Nat /\ admitted \in [Client -> Seq(Admission)]
      /\ spilled \subseteq Client
  BY DEF GuardsIInv, GuardsTypeOK
<1>3. /\ Ready(store, T) /\ F.place \in {"own", "overflow", "lastResort"}
      /\ F.place = "own" => Has(T, c, k)
      /\ F.place = "overflow" => T.overflow[c] # None
      /\ F.place = "lastResort" => T.lastResort \in Seq(Nat)
  BY <1>2, StateForOK
<1>4. StoreOK(T)
  BY <1>3 DEF Ready
<1> HIDE DEF F
<1>5. hits \in Seq(Nat)
  <2> HIDE DEF T
  <2> QED BY <1>3, <1>4, HitsType
<1> HIDE DEF T
<1>6. F.place = "own" => hits = Counter(T, c, k).hits
  BY DEF Hits
<1>7. F.place = "overflow" => hits = T.overflow[c]
  BY DEF Hits
<1> HIDE DEF hits
<1>8. ok \in BOOLEAN
  BY DEF Within
<1>9. Counted(hits, ok) \in Seq(Nat)
  <2>1. now + 1 \in Int /\ now - Window < now + 1
    BY <1>2, ClientsFinite
  <2> QED BY <1>2, <1>5, <1>8, <2>1, CountedSince
<1>10. /\ admitted'[c] = After(admitted[c], k, x, ok)
       /\ \A d \in Client \ {c} : admitted'[d] = admitted[d]
       /\ admitted' \in [Client -> Seq(Admission)]
  <2>1. [key |-> k, class |-> x, at |-> now] \in Admission
    BY <1>2 DEF Admission
  <2>2. Joined(admitted[c], k, x) \in Seq(Admission)
    BY <1>2, <2>1 DEF Joined
  <2>3. admitted' = IF ok THEN [admitted EXCEPT ![c] = Joined(admitted[c], k, x)] ELSE admitted
    BY <1>1 DEF Joined
  <2> HIDE DEF ok
  <2> QED BY <1>2, <2>2, <2>3 DEF After
<1>11. \A d \in Client : /\ HitsWithin(low, T, d, admitted[d])
                         /\ d \notin spilled => \A l \in Key : KeyCounted(low, T, d, l, admitted[d])
  <2> TAKE d \in Client
  <2>1. admitted[d] \in Seq(Admission)
    BY <1>2
  <2>2. HitsWithin(low, store, d, admitted[d])
    BY <1>1 DEF GuardsIInv, HitsInv
  <2>3. d \notin spilled => \A l \in Key : KeyCounted(low, store, d, l, admitted[d])
    BY <1>1 DEF GuardsIInv, CountsInv
  <2> QED BY <1>2, <1>3, <2>1, <2>2, <2>3, ReadyKeeps
<1>12. /\ StoreOK(store')
       /\ \A d \in Client \ {c} :
            store'.table[d] = T.table[d] /\ store'.overflow[d] = T.overflow[d]
       /\ HitsWithin(low, store', c, admitted'[c])
       /\ F.place = "own" /\ c \notin spilled =>
            \A l \in Key : KeyCounted(low, store', c, l, admitted'[c])
  <2>0. admitted[c] \in Seq(Admission) /\ HitsWithin(low, T, c, admitted[c])
    BY <1>2, <1>11
  <2> HIDE DEF ok
  <2>1. CASE F.place = "own"
    <3>1. Has(T, c, k) /\ hits = Counter(T, c, k).hits
      BY <1>3, <1>6, <2>1
    <3>2. store' = Put(T, c, k, "own", Counted(hits, ok))
      BY <1>1, <2>1
    <3>3. /\ StoreOK(store') /\ store'.overflow = T.overflow
          /\ \A d \in Client \ {c} : store'.table[d] = T.table[d]
          /\ HitsWithin(low, store', c, After(admitted[c], k, x, ok))
          /\ \A l \in Key : KeyCounted(low, T, c, l, admitted[c])
               => KeyCounted(low, store', c, l, After(admitted[c], k, x, ok))
      BY <1>2, <1>4, <1>8, <2>0, <3>1, <3>2, OwnCounts
    <3>4. c \notin spilled => \A l \in Key : KeyCounted(low, T, c, l, admitted[c])
      BY <1>11
    <3> QED BY <1>10, <3>3, <3>4
  <2>2. CASE F.place # "own"
    <3>1. /\ StoreOK(store') /\ store'.table = T.table
          /\ F.place = "overflow" =>
               T.overflow[c] # None /\ store'.overflow = [T.overflow EXCEPT ![c] = Counted(hits, ok)]
          /\ F.place = "lastResort" => store'.overflow = T.overflow
      <4>1. CASE F.place = "overflow"
        <5>1. store' = Put(T, c, k, "overflow", Counted(hits, ok)) /\ T.overflow[c] # None
          BY <1>1, <1>3, <4>1
        <5> DEFINE new == Counted(hits, ok)
        <5>2. new \in Seq(Nat) /\ store' = Put(T, c, k, "overflow", new)
          BY <1>9, <5>1
        <5> HIDE DEF new
        <5>3. /\ StoreOK(store') /\ store'.table = T.table
              /\ store'.overflow = [T.overflow EXCEPT ![c] = new]
          BY <1>4, <5>1, <5>2, PutAside
        <5> QED BY <4>1, <5>1, <5>3 DEF new
      <4>2. CASE F.place = "lastResort"
        <5>1. store' = Put(T, c, k, "lastResort", Counted(hits, ok))
          BY <1>1, <4>2
        <5> DEFINE new == Counted(hits, ok)
        <5>2. new \in Seq(Nat) /\ store' = Put(T, c, k, "lastResort", new)
          BY <1>9, <5>1
        <5> HIDE DEF new
        <5>3. /\ StoreOK(store') /\ store'.table = T.table /\ store'.overflow = T.overflow
          BY <1>4, <5>2, PutLast
        <5> QED BY <4>2, <5>3
      <4> QED BY <1>3, <2>2, <4>1, <4>2
    <3>2. T.overflow \in [Client -> Seq(Nat) \cup {None}]
      BY <1>4, StoreFields DEF StoreOK
    <3>3. ASSUME NEW i \in 1 .. Len(T.table[c])
          PROVE  AllAdmitted(low, T.table[c][i].hits, admitted'[c])
      <4>1. T.table[c][i].hits \in Seq(Nat)
        BY <1>4, StoreFields DEF StoreOK
      <4>2. AllAdmitted(low, T.table[c][i].hits, admitted[c])
        BY <2>0 DEF HitsWithin
      <4> QED BY <1>2, <1>8, <1>10, <2>0, <4>1, <4>2, AllAdmittedAfter
    <3>4. T.overflow[c] # None =>
            /\ AllAdmitted(low, T.overflow[c], admitted'[c])
            /\ F.place = "overflow" => AllAdmitted(low, Counted(hits, ok), admitted'[c])
      <4> HAVE T.overflow[c] # None
      <4>1. T.overflow[c] \in Seq(Nat) /\ AllAdmitted(low, T.overflow[c], admitted[c])
        BY <2>0, <3>2 DEF HitsWithin
      <4> QED BY <1>2, <1>7, <1>8, <1>10, <2>0, <4>1, AllAdmittedAfter
    <3>5. store'.overflow[c] # None => AllAdmitted(low, store'.overflow[c], admitted'[c])
      BY <1>3, <2>2, <3>1, <3>2, <3>4
    <3>6. HitsWithin(low, store', c, admitted'[c])
      BY <3>1, <3>3, <3>5 DEF HitsWithin
    <3>7. \A d \in Client \ {c} : store'.overflow[d] = T.overflow[d]
      BY <1>3, <2>2, <3>1, <3>2
    <3> QED BY <2>2, <3>1, <3>6, <3>7
  <2> QED BY <2>1, <2>2
<1>13. GuardsTypeOK'
  BY <1>1, <1>2, <1>10, <1>12 DEF GuardsIInv, GuardsTypeOK
<1>14. AdmittedRecently'
  <2>1. ASSUME NEW d \in Client, NEW i \in 1 .. Len(admitted'[d])
        PROVE  now - admitted'[d][i].at < Window
    <3>1. \A j \in 1 .. Len(admitted[d]) : now - admitted[d][j].at < Window
      BY DEF GuardsIInv, AdmittedRecently
    <3>2. CASE admitted'[d] = admitted[d]
      BY <3>1, <3>2
    <3>3. CASE admitted'[d] = Joined(admitted[d], k, x)
      <4>1. admitted[d] \in Seq(Admission) /\ Len(admitted[d]) \in Nat
        BY <1>2
      <4>2. i \in 1 .. Len(admitted[d]) \/ i = Len(admitted[d]) + 1
        BY <3>3, <4>1 DEF Joined
      <4>3. CASE i \in 1 .. Len(admitted[d])
        <5>1. admitted'[d][i] = admitted[d][i]
          BY <3>3, <4>1, <4>3 DEF Joined
        <5> QED BY <3>1, <4>3, <5>1
      <4>4. CASE i = Len(admitted[d]) + 1
        <5>1. admitted'[d][i] = [key |-> k, class |-> x, at |-> now]
          BY <3>3, <4>1, <4>4 DEF Joined
        <5> QED BY <1>2, <5>1, ClientsFinite
      <4> QED BY <4>2, <4>3, <4>4
    <3> QED BY <1>10, <3>2, <3>3 DEF After
  <2> QED BY <1>1, <2>1 DEF AdmittedRecently
<1>15. HitsInv'
  <2>1. ASSUME NEW d \in Client PROVE HitsWithin(low, store', d, admitted'[d])
    <3>1. CASE d = c
      BY <1>12, <3>1
    <3>2. CASE d # c
      <4>1. /\ store'.table[d] = T.table[d] /\ store'.overflow[d] = T.overflow[d]
            /\ admitted'[d] = admitted[d]
        BY <1>10, <1>12, <3>2
      <4>2. HitsWithin(low, T, d, admitted[d])
        BY <1>11
      <4> HIDE DEF low
      <4> QED BY <4>1, <4>2 DEF HitsWithin
    <3> QED BY <3>1, <3>2
  <2> QED BY <1>1, <2>1 DEF HitsInv
<1>16. CountsInv'
  <2>1. ASSUME NEW d \in Client \ spilled', NEW l \in Key
        PROVE  KeyCounted(low, store', d, l, admitted'[d])
    <3>1. d \notin spilled /\ (d = c => F.place = "own")
      BY <1>1, <2>1
    <3>2. CASE d = c
      BY <1>12, <3>1, <3>2
    <3>3. CASE d # c
      <4>1. store'.table[d] = T.table[d] /\ admitted'[d] = admitted[d]
        BY <1>10, <1>12, <3>3
      <4>2. KeyCounted(low, T, d, l, admitted[d])
        BY <1>11, <3>1
      <4> HIDE DEF low
      <4> QED BY <4>1, <4>2 DEF KeyCounted
    <3> QED BY <3>2, <3>3
  <2> QED BY <1>1, <2>1 DEF CountsInv
<1>17. LimitHolds'
  <2>1. ASSUME NEW d \in Client \ spilled', NEW l \in Key
        PROVE  PathOK(guard, admitted'[d], l)
    <3>1. d \notin spilled /\ (d = c => F.place = "own")
      BY <1>1
    <3>2. guard \in {"api", "auth", "email"} /\ admitted[d] \in Seq(Admission)
      BY <1>2 DEF GuardsIInv, GuardsTypeOK
    <3>3. PathOK(guard, admitted[d], l)
      <4>1. PathsOK(guard, admitted, spilled)
        BY <1>2, LimitHoldsByPath, LimitHoldsIs DEF GuardsIInv
      <4> QED BY <1>1, <3>1, <4>1 DEF PathsOK
    <3>4. CASE admitted'[d] = admitted[d]
      BY <3>3, <3>4
    <3>5. CASE d = c /\ ok
      <4>1. Has(T, c, k) /\ hits = Counter(T, c, k).hits
        BY <1>3, <1>6, <3>1, <3>5
      <4>2. KeyCounted(low, T, c, k, admitted[c])
        BY <1>11, <3>1, <3>5
      <4>3. \A i \in 1 .. Len(admitted[c]) : now - admitted[c][i].at < Window
        BY DEF GuardsIInv, AdmittedRecently
      <4>4. Within(Counter(T, c, k).hits, x)
        BY <3>5, <4>1
      <4>5. admitted'[d] = Joined(admitted[c], k, x)
        BY <1>10, <3>5 DEF After
      <4> HIDE DEF ok
      <4>6. Count(admitted[c], OfPath(k)) < Limit[x]
        BY <1>2, <1>4, <3>2, <3>5, <4>1, <4>2, <4>3, <4>4, LimitStep
      <4>7. PathOK(guard, Joined(admitted[c], k, x), l)
        <5>1. CASE l = k
          BY <1>1, <1>2, <3>2, <3>3, <3>5, <4>6, <5>1, PathOfMore
        <5>2. CASE l # k
          BY <1>2, <3>2, <3>3, <3>5, <5>2, PathOfOther
        <5> QED BY <5>1, <5>2
      <4> QED BY <4>5, <4>7
    <3> QED BY <1>10, <3>4, <3>5 DEF After
  <2>2. PathsOK(guard', admitted', spilled')
    BY <1>1, <2>1 DEF PathsOK
  <2>3. admitted' \in [Client -> Seq(Admission)]
    BY <1>10
  <2> QED BY <2>2, <2>3, LimitHoldsByPath, LimitHoldsIs
<1>18. FailuresInv'
  BY <1>1 DEF FailuresInv
<1> QED BY <1>13, <1>14, <1>15, <1>16, <1>17, <1>18 DEF GuardsIInv

(* The history is not touched by logins. *)
LEMMA LoginStep ==
  ASSUME GuardsIInv, guard = "email", UNCHANGED <<guard, now, admitted, spilled>>,
         StoreOK(store'), login' \in [Attempt -> {Idle} \cup Login],
         \A c \in Client : FailuresOK(now, store', login', c)
  PROVE  GuardsIInv'
<1>1. GuardsTypeOK'
  BY DEF GuardsIInv, GuardsTypeOK
<1>2. AdmittedRecently' /\ LimitHolds'
  BY DEF GuardsIInv, AdmittedRecently, LimitHolds, Admitted
<1>3. HitsInv' /\ CountsInv' /\ FailuresInv'
  BY DEF HitsInv, CountsInv, FailuresInv
<1> QED BY <1>1, <1>2, <1>3 DEF GuardsIInv

LEMMA OneLogin ==
  ASSUME login \in [Attempt -> {Idle} \cup Login], NEW a \in Attempt
  PROVE  /\ login[a] # Idle <=> login[a].phase = "password"
         /\ login[a].phase = "password" =>
              /\ login[a] = [phase |-> "password", client |-> login[a].client, key |-> login[a].key]
              /\ login[a].client \in Client /\ login[a].key \in Key
BY DEF Idle, Login

LEMMA LoginCheckKeeps ==
  ASSUME GuardsIInv, NEW a \in Attempt, NEW c \in Client, NEW k \in Key, LoginCheck(a, c, k)
  PROVE  GuardsIInv'
<1> DEFINE hits == Counter(store, c, k).hits
           me == [phase |-> "password", client |-> c, key |-> k]
<1>1. /\ guard = "email" /\ login[a] = Idle /\ (Has(store, c, k) => Within(hits, "auth"))
      /\ store' = IF Has(store, c, k) THEN Put(store, c, k, "own", Live(hits)) ELSE store
      /\ login' = [login EXCEPT ![a] = me]
      /\ UNCHANGED <<guard, now, admitted, spilled>>
  BY DEF LoginCheck
<1>2. /\ StoreOK(store) /\ now \in Nat /\ login \in [Attempt -> {Idle} \cup Login]
      /\ \A d \in Client : FailuresOK(now, store, login, d)
  BY <1>1 DEF GuardsIInv, GuardsTypeOK, FailuresInv
<1>3. login' \in [Attempt -> {Idle} \cup Login]
  <2>1. me \in Login
    BY DEF Login
  <2> HIDE DEF me
  <2> QED BY <1>1, <1>2, <2>1
<1>4. \A d, l : d # c \/ l # k => Pending(login', d, l) = Pending(login, d, l)
  <2> SUFFICES ASSUME NEW d, NEW l, d # c \/ l # k
               PROVE  Pending(login', d, l) = Pending(login, d, l)
    OBVIOUS
  <2>1. login'[a] = me /\ \A b \in Attempt \ {a} : login'[b] = login[b]
    BY <1>1, <1>2
  <2>2. me # [phase |-> "password", client |-> d, key |-> l]
    OBVIOUS
  <2>3. login[a] # [phase |-> "password", client |-> d, key |-> l]
    BY <1>1 DEF Idle
  <2> HIDE DEF me
  <2> QED BY <2>1, <2>2, <2>3 DEF Pending
<1>5. CASE ~Has(store, c, k)
  <2>1. store' = store
    BY <1>1, <1>5
  <2>2. ASSUME NEW d \in Client PROVE FailuresOK(now, store', login', d)
    <3> SUFFICES ASSUME NEW i \in 1 .. Len(store.table[d])
                 PROVE  Count(store.table[d][i].hits, RecentAt(now))
                          + Cardinality(Pending(login', d, store.table[d][i].key))
                        < Limit["auth"] + Cardinality(Attempt)
      BY <2>1 DEF FailuresOK
    <3>1. d # c \/ store.table[d][i].key # k
      BY <1>2, <1>5, HasKey DEF StoreOK
    <3> QED BY <1>2, <1>4, <3>1 DEF FailuresOK
  <2> QED BY <1>1, <1>2, <1>3, <2>1, <2>2, LoginStep
<1>6. CASE Has(store, c, k)
  <2>1. PICK p \in 1 .. Len(store.table[c]) :
          /\ store.table[c][p].key = k /\ Counter(store, c, k) = store.table[c][p]
          /\ \A i \in 1 .. Len(store.table[c]) : store.table[c][i].key = k => i = p
    BY <1>2, <1>6, CounterOf
  <2>2. hits \in Seq(Nat)
    BY <1>2, <2>1, StoreFields DEF StoreOK
  <2>3. /\ Live(hits) \in Seq(Nat) /\ Live(hits) = Keep(hits, Recent)
        /\ Len(Live(hits)) = Count(hits, Recent)
    BY <2>2, LiveLen DEF Live, Recent
  <2>4. Count(Live(hits), RecentAt(now)) = Count(hits, Recent)
        /\ Count(hits, Recent) < Limit["auth"]
        /\ Count(hits, Recent) \in Nat
    <3>1. Count(Keep(hits, Recent), RecentAt(now)) = Count(hits, Recent)
      BY <2>2, CountKeep DEF Recent, RecentAt
    <3> QED BY <1>1, <1>6, <2>2, <2>3, <3>1, CountType DEF Within
  <2> HIDE DEF hits
  <2>5. /\ StoreOK(store') /\ store'.table[c] = Raised(store.table[c], k, Live(hits))
        /\ Len(store'.table[c]) = Len(store.table[c])
        /\ \A d \in Client \ {c} : store'.table[d] = store.table[d]
    <3>1. store' = Put(store, c, k, "own", Live(hits))
      BY <1>1, <1>6
    <3> QED BY <1>2, <2>3, <3>1, PutOwn
  <2>6. ASSUME NEW d \in Client PROVE FailuresOK(now, store', login', d)
    <3>1. CASE d # c
      BY <1>2, <1>4, <2>5, <3>1 DEF FailuresOK
    <3>2. CASE d = c
      <4> SUFFICES ASSUME NEW i \in 1 .. Len(store.table[c])
                   PROVE  Count(store'.table[c][i].hits, RecentAt(now))
                            + Cardinality(Pending(login', c, store'.table[c][i].key))
                          < Limit["auth"] + Cardinality(Attempt)
        BY <2>5, <3>2 DEF FailuresOK
      <4>1. CASE store.table[c][i].key = k
        <5>1. store'.table[c][i] = [key |-> k, hits |-> Live(hits)]
          BY <2>5, <4>1 DEF Raised
        <5>2. /\ Cardinality(Pending(login', c, k)) \in Nat /\ Cardinality(Attempt) \in Nat
              /\ Cardinality(Pending(login', c, k)) <= Cardinality(Attempt)
          BY PendingType
        <5> QED BY <2>4, <5>1, <5>2, Limits
      <4>2. CASE store.table[c][i].key # k
        <5>1. store'.table[c][i] = store.table[c][i]
          BY <2>5, <4>2 DEF Raised
        <5>2. Pending(login', c, store.table[c][i].key) = Pending(login, c, store.table[c][i].key)
          BY <1>4, <4>2
        <5> QED BY <1>2, <5>1, <5>2 DEF FailuresOK
      <4> QED BY <4>1, <4>2
    <3> QED BY <3>1, <3>2
  <2> QED BY <1>1, <1>3, <2>5, <2>6, LoginStep
<1> QED BY <1>5, <1>6

(* A login that ends *)
LEMMA OneFewer ==
  ASSUME login \in [Attempt -> {Idle} \cup Login], NEW a \in Attempt,
         login[a].phase = "password", login' = [login EXCEPT ![a] = Idle]
  PROVE  /\ login' \in [Attempt -> {Idle} \cup Login]
         /\ \A d, l : Cardinality(Pending(login', d, l)) <= Cardinality(Pending(login, d, l))
         /\ Cardinality(Pending(login', login[a].client, login[a].key))
              < Cardinality(Pending(login, login[a].client, login[a].key))
         /\ Cardinality(Pending(login', login[a].client, login[a].key)) < Cardinality(Attempt)
<1>1. login'[a] = Idle /\ \A b \in Attempt \ {a} : login'[b] = login[b]
  OBVIOUS
<1>2. \A d, l : Idle # [phase |-> "password", client |-> d, key |-> l]
  BY DEF Idle
<1>3. ASSUME NEW d, NEW l
      PROVE  Cardinality(Pending(login', d, l)) <= Cardinality(Pending(login, d, l))
  <2>1. Pending(login', d, l) \in SUBSET Pending(login, d, l)
    BY <1>1, <1>2 DEF Pending
  <2>2. IsFiniteSet(Pending(login, d, l))
    BY PendingType
  <2> QED BY <2>1, <2>2, FS_Subset
<1> DEFINE d == login[a].client
           l == login[a].key
           old == Pending(login, d, l)
           new == Pending(login', d, l)
<1>4. a \in old /\ a \in Attempt
  BY OneLogin DEF Pending
<1>5. new \in SUBSET (old \ {a}) /\ new \in SUBSET (Attempt \ {a})
  BY <1>1, <1>2 DEF Pending
<1>6. /\ IsFiniteSet(old) /\ IsFiniteSet(Attempt) /\ IsFiniteSet(new)
      /\ Cardinality(old) \in Nat /\ Cardinality(Attempt) \in Nat /\ Cardinality(new) \in Nat
  BY PendingType
<1> HIDE DEF old, new
<1>7. /\ IsFiniteSet(old \ {a}) /\ Cardinality(old \ {a}) = Cardinality(old) - 1
      /\ IsFiniteSet(Attempt \ {a}) /\ Cardinality(Attempt \ {a}) = Cardinality(Attempt) - 1
  BY <1>4, <1>6, FS_RemoveElement
<1>8. Cardinality(new) <= Cardinality(old \ {a}) /\ Cardinality(new) <= Cardinality(Attempt \ {a})
  BY <1>5, <1>7, FS_Subset
<1>9. Cardinality(new) < Cardinality(old) /\ Cardinality(new) < Cardinality(Attempt)
  BY <1>6, <1>7, <1>8
<1>10. login' \in [Attempt -> {Idle} \cup Login]
  OBVIOUS
<1> QED BY <1>3, <1>9, <1>10 DEF old, new

LEMMA LoginSucceedsKeeps ==
  ASSUME GuardsIInv, NEW a \in Attempt, LoginSucceeds(a)
  PROVE  GuardsIInv'
<1> DEFINE c == login[a].client
           k == login[a].key
<1>1. /\ login[a].phase = "password"
      /\ store' = IF Has(store, c, k) THEN Drop(store, c, k) ELSE store
      /\ login' = [login EXCEPT ![a] = Idle]
      /\ UNCHANGED <<guard, now, admitted, spilled>>
  BY DEF LoginSucceeds
<1>2. /\ StoreOK(store) /\ now \in Nat /\ login \in [Attempt -> {Idle} \cup Login]
      /\ guard \in {"api", "auth", "email"}
      /\ guard # "email" => \A b \in Attempt : login[b] = Idle
  BY DEF GuardsIInv, GuardsTypeOK
<1>3. login[a] # Idle /\ c \in Client
  BY <1>1, <1>2, OneLogin
<1>4. guard = "email"
  BY <1>2, <1>3
<1>5. \A d \in Client : FailuresOK(now, store, login, d)
  BY <1>4 DEF GuardsIInv, FailuresInv
<1>6. /\ login' \in [Attempt -> {Idle} \cup Login]
      /\ \A d, l : Cardinality(Pending(login', d, l)) <= Cardinality(Pending(login, d, l))
  BY <1>1, <1>2, OneFewer
<1>7. Shrunk(store, store') /\ StoreOK(store')
  <2>1. CASE Has(store, c, k)
    <3>1. store' = Drop(store, c, k)
      BY <1>1, <2>1
    <3> HIDE DEF c, k
    <3> QED BY <1>2, <1>3, <2>1, <3>1, DropShrinks
  <2>2. CASE ~Has(store, c, k)
    <3>1. store' = store
      BY <1>1, <2>2
    <3> QED BY <1>2, <3>1, ShrunkNot
  <2> QED BY <2>1, <2>2
<1>8. ASSUME NEW d \in Client PROVE FailuresOK(now, store', login', d)
  <2> SUFFICES ASSUME NEW i \in 1 .. Len(store'.table[d])
               PROVE  Count(store'.table[d][i].hits, RecentAt(now))
                        + Cardinality(Pending(login', d, store'.table[d][i].key))
                      < Limit["auth"] + Cardinality(Attempt)
    BY DEF FailuresOK
  <2>1. PICK j \in 1 .. Len(store.table[d]) : store'.table[d][i] = store.table[d][j]
    BY <1>7 DEF Shrunk
  <2> DEFINE x == store.table[d][j]
  <2>2. Count(x.hits, RecentAt(now)) + Cardinality(Pending(login, d, x.key))
        < Limit["auth"] + Cardinality(Attempt)
    BY <1>5 DEF FailuresOK
  <2>3. Cardinality(Pending(login', d, x.key)) <= Cardinality(Pending(login, d, x.key))
    BY <1>6
  <2>4. x.hits \in Seq(Nat)
    BY <1>2, StoreFields DEF StoreOK
  <2> HIDE DEF x
  <2>5. /\ Count(x.hits, RecentAt(now)) \in Nat /\ Cardinality(Attempt) \in Nat
        /\ Cardinality(Pending(login', d, x.key)) \in Nat
        /\ Cardinality(Pending(login, d, x.key)) \in Nat
    BY <2>4, CountType, PendingType
  <2>6. Count(x.hits, RecentAt(now)) + Cardinality(Pending(login', d, x.key))
        < Limit["auth"] + Cardinality(Attempt)
    BY <2>2, <2>3, <2>5, Limits
  <2> QED BY <2>1, <2>6 DEF x
<1> QED BY <1>1, <1>4, <1>6, <1>7, <1>8, LoginStep

LEMMA LoginFailsKeeps ==
  ASSUME GuardsIInv, NEW a \in Attempt, LoginFails(a)
  PROVE  GuardsIInv'
<1> DEFINE c == login[a].client
           k == login[a].key
<1>1. PICK T \in EmailStores(store, c, k) :
        store' = Put(T, c, k, "own", Append(Counter(T, c, k).hits, now))
  BY DEF LoginFails
<1>2. /\ login[a].phase = "password" /\ login' = [login EXCEPT ![a] = Idle]
      /\ UNCHANGED <<guard, now, admitted, spilled>>
  BY DEF LoginFails
<1>3. /\ StoreOK(store) /\ now \in Nat /\ login \in [Attempt -> {Idle} \cup Login]
      /\ guard \in {"api", "auth", "email"}
      /\ guard # "email" => \A b \in Attempt : login[b] = Idle
  BY DEF GuardsIInv, GuardsTypeOK
<1>4. login[a] # Idle /\ c \in Client /\ k \in Key
  BY <1>2, <1>3, OneLogin
<1>5. guard = "email"
  BY <1>3, <1>4
<1>6. \A d \in Client : FailuresOK(now, store, login, d)
  BY <1>5 DEF GuardsIInv, FailuresInv
<1>7. /\ login' \in [Attempt -> {Idle} \cup Login]
      /\ \A d, l : Cardinality(Pending(login', d, l)) <= Cardinality(Pending(login, d, l))
      /\ Cardinality(Pending(login', c, k)) < Cardinality(Pending(login, c, k))
      /\ Cardinality(Pending(login', c, k)) < Cardinality(Attempt)
  BY <1>2, <1>3, OneFewer
<1> HIDE DEF c, k
<1>8. Admits(store, T, c, k)
  BY <1>1, <1>3, <1>4, EmailStoresOK
<1>9. /\ StoreOK(T) /\ Has(T, c, k)
      /\ \A d \in Client : \A i \in 1 .. Len(T.table[d]) :
           \/ d = c /\ T.table[d][i] = Blank(k)
           \/ \E j \in 1 .. Len(store.table[d]) : T.table[d][i] = store.table[d][j]
  BY <1>8 DEF Admits
<1>10. PICK p \in 1 .. Len(T.table[c]) :
         /\ T.table[c][p].key = k /\ Counter(T, c, k) = T.table[c][p]
         /\ \A i \in 1 .. Len(T.table[c]) : T.table[c][i].key = k => i = p
  BY <1>4, <1>9, CounterOf
<1> DEFINE hits == Counter(T, c, k).hits
           new == Append(hits, now)
<1>11. hits \in Seq(Nat) /\ new \in Seq(Nat)
  <2>1. T.table[c][p].hits \in Seq(Nat)
    BY <1>4, <1>9, StoreFields DEF StoreOK
  <2> QED BY <1>3, <1>10, <2>1
<1>12. Count(new, RecentAt(now)) <= Count(hits, RecentAt(now)) + 1
       /\ Count(hits, RecentAt(now)) \in Nat
  <2> DEFINE W == RecentAt(now)
  <2>1. Count(hits, W) \in Nat
    BY <1>11, CountType
  <2> HIDE DEF hits, W
  <2>2. Count(Append(hits, now), W) = IF now \in W THEN Count(hits, W) + 1 ELSE Count(hits, W)
    BY <1>3, <1>11, CountAppend
  <2>3. Count(new, W) <= Count(hits, W) + 1
    BY <2>1, <2>2
  <2> QED BY <2>1, <2>3 DEF W
<1>13. \A d \in Client : \A i \in 1 .. Len(T.table[d]) :
         /\ Count(T.table[d][i].hits, RecentAt(now)) \in Nat
         /\ \/ d = c /\ T.table[d][i].key = k /\ Count(T.table[d][i].hits, RecentAt(now)) = 0
            \/ Count(T.table[d][i].hits, RecentAt(now))
                 + Cardinality(Pending(login, d, T.table[d][i].key)) < Limit["auth"] + Cardinality(Attempt)
  <2> SUFFICES ASSUME NEW d \in Client, NEW i \in 1 .. Len(T.table[d])
               PROVE  /\ Count(T.table[d][i].hits, RecentAt(now)) \in Nat
                      /\ \/ d = c /\ T.table[d][i].key = k
                              /\ Count(T.table[d][i].hits, RecentAt(now)) = 0
                         \/ Count(T.table[d][i].hits, RecentAt(now))
                              + Cardinality(Pending(login, d, T.table[d][i].key))
                            < Limit["auth"] + Cardinality(Attempt)
    OBVIOUS
  <2>1. T.table[d][i].hits \in Seq(Nat)
    BY <1>9, StoreFields DEF StoreOK
  <2>2. Count(T.table[d][i].hits, RecentAt(now)) \in Nat
    BY <2>1, CountType
  <2>3. CASE d = c /\ T.table[d][i] = Blank(k)
    BY <2>2, <2>3, CountEmpty DEF Blank
  <2>4. CASE \E j \in 1 .. Len(store.table[d]) : T.table[d][i] = store.table[d][j]
    BY <1>6, <2>2, <2>4 DEF FailuresOK
  <2> QED BY <1>9, <2>3, <2>4
<1>14. /\ Count(new, RecentAt(now)) + Cardinality(Pending(login', c, k))
            < Limit["auth"] + Cardinality(Attempt)
  <2>1. /\ Cardinality(Pending(login', c, k)) \in Nat /\ Cardinality(Attempt) \in Nat
        /\ Cardinality(Pending(login, c, k)) \in Nat
    BY PendingType
  <2>2. Count(new, RecentAt(now)) \in Nat
    BY <1>11, CountType
  <2>3. \/ Count(hits, RecentAt(now)) = 0
        \/ Count(hits, RecentAt(now)) + Cardinality(Pending(login, c, k))
             < Limit["auth"] + Cardinality(Attempt)
    BY <1>4, <1>10, <1>13
  <2>4. Limit["auth"] \in Nat /\ Limit["auth"] >= 1
    BY Limits
  <2> HIDE DEF new, hits
  <2> QED BY <1>7, <1>12, <2>1, <2>2, <2>3, <2>4
<1>15. /\ StoreOK(store') /\ store'.table[c] = Raised(T.table[c], k, new)
       /\ Len(store'.table[c]) = Len(T.table[c])
       /\ \A d \in Client \ {c} : store'.table[d] = T.table[d]
  <2>1. store' = Put(T, c, k, "own", new)
    BY <1>1
  <2> HIDE DEF new
  <2> QED BY <1>4, <1>9, <1>11, <2>1, PutOwn
<1> HIDE DEF new
<1>16. ASSUME NEW d \in Client PROVE FailuresOK(now, store', login', d)
  <2> SUFFICES ASSUME NEW i \in 1 .. Len(T.table[d])
               PROVE  Count(store'.table[d][i].hits, RecentAt(now))
                        + Cardinality(Pending(login', d, store'.table[d][i].key))
                      < Limit["auth"] + Cardinality(Attempt)
    BY <1>15 DEF FailuresOK
  <2>1. CASE d = c /\ T.table[d][i].key = k
    <3>1. store'.table[d][i] = [key |-> k, hits |-> new]
      BY <1>15, <2>1 DEF Raised
    <3> QED BY <1>14, <2>1, <3>1
  <2>2. CASE d # c \/ T.table[d][i].key # k
    <3>1. store'.table[d][i] = T.table[d][i]
      BY <1>15, <2>2 DEF Raised
    <3> DEFINE x == T.table[d][i]
    <3>2. Count(x.hits, RecentAt(now)) \in Nat /\
          Count(x.hits, RecentAt(now)) + Cardinality(Pending(login, d, x.key))
            < Limit["auth"] + Cardinality(Attempt)
      BY <1>13, <2>2
    <3>3. Cardinality(Pending(login', d, x.key)) <= Cardinality(Pending(login, d, x.key))
      BY <1>7
    <3> HIDE DEF x
    <3>4. /\ Cardinality(Attempt) \in Nat /\ Cardinality(Pending(login', d, x.key)) \in Nat
          /\ Cardinality(Pending(login, d, x.key)) \in Nat
      BY PendingType
    <3>5. Count(x.hits, RecentAt(now)) + Cardinality(Pending(login', d, x.key))
            < Limit["auth"] + Cardinality(Attempt)
      BY <3>2, <3>3, <3>4, Limits
    <3> QED BY <3>1, <3>5 DEF x
  <2> QED BY <2>1, <2>2
<1> QED BY <1>2, <1>5, <1>7, <1>15, <1>16, LoginStep

(* What the history holds of a window is not touched by time. *)
LEMMA HistoryKept ==
  ASSUME NEW adm \in Seq(Admission), now \in Nat,
         NEW kept, kept = Keep(adm, StillIn(now + 1))
  PROVE  /\ kept \in Seq(Admission)
         /\ \A i \in 1 .. Len(kept) : now + 1 - kept[i].at < Window
         /\ \A keys : \A t \in Int : now + 1 - Window < t =>
              Count(kept, AdmittedSince(keys, t)) = Count(adm, AdmittedSince(keys, t))
         /\ \A W : Count(kept, W) <= Count(adm, W)
<1> DEFINE K == StillIn(now + 1)
<1>1. /\ kept = Keep(adm, K) /\ kept \in Seq(Admission)
      /\ \A i \in 1 .. Len(kept) : \E j \in 1 .. Len(adm) : kept[i] = adm[j] /\ adm[j] \in K
  <2>1. kept = Keep(adm, K)
    OBVIOUS
  <2> HIDE DEF K
  <2>2. Keep(adm, K) \in Seq(Admission)
    BY KeepLen
  <2>3. \A i \in 1 .. Len(Keep(adm, K)) :
          \E j \in 1 .. Len(adm) : Keep(adm, K)[i] = adm[j] /\ adm[j] \in K
    BY KeepMembers
  <2> QED BY <2>1, <2>2, <2>3
<1>2. ASSUME NEW i \in 1 .. Len(kept) PROVE now + 1 - kept[i].at < Window
  <2>1. kept[i] \in K
    BY <1>1
  <2> QED BY <2>1 DEF StillIn
<1>3. ASSUME NEW keys, NEW t \in Int, now + 1 - Window < t
      PROVE  Count(kept, AdmittedSince(keys, t)) = Count(adm, AdmittedSince(keys, t))
  <2>1. \A i \in 1 .. Len(adm) : adm[i] \in AdmittedSince(keys, t)
          <=> adm[i] \in K /\ adm[i] \in AdmittedSince(keys, t)
    <3> SUFFICES ASSUME NEW i \in 1 .. Len(adm), adm[i] \in AdmittedSince(keys, t)
                 PROVE  adm[i] \in K
      OBVIOUS
    <3>1. adm[i].at \in Nat /\ adm[i].at >= t /\ adm[i] \in Admission
      BY DEF AdmittedSince, Since
    <3>2. now + 1 - adm[i].at < Window
      BY <1>3, <3>1, ClientsFinite
    <3> QED BY <3>1, <3>2 DEF Admission, StillIn
  <2> HIDE DEF K
  <2> QED BY <1>1, <2>1, CountKeep
<1>4. ASSUME NEW W
      PROVE  Count(kept, W) <= Count(adm, W)
  <2> DEFINE V == K \cap W
  <2>1. Count(kept, W) = Count(adm, V)
    <3>1. \A i \in 1 .. Len(adm) : adm[i] \in V <=> adm[i] \in K /\ adm[i] \in W
      OBVIOUS
    <3> HIDE DEF V, K
    <3> QED BY <1>1, <3>1, CountKeep
  <2>2. Count(adm, V) <= Count(adm, W)
    <3>1. \A i \in 1 .. Len(adm) : adm[i] \in V => adm[i] \in W
      OBVIOUS
    <3> HIDE DEF V
    <3> QED BY <3>1, CountMonotone
  <2> HIDE DEF V
  <2> QED BY <2>1, <2>2
<1> QED BY <1>1, <1>2, <1>3, <1>4

LEMMA RecentLess ==
  ASSUME NEW n \in Nat, NEW s \in Seq(Nat)
  PROVE  Count(s, RecentAt(n + 1)) <= Count(s, RecentAt(n))
<1>1. RecentAt(n + 1) \subseteq RecentAt(n)
  <2> SUFFICES ASSUME NEW x \in Nat, n + 1 - x < Window
               PROVE  n - x < Window
    BY DEF RecentAt
  <2> QED BY ClientsFinite
<1> QED BY <1>1, CountMonotone

LEMMA TickKeeps ==
  ASSUME GuardsIInv, Tick
  PROVE  GuardsIInv'
<1>1. /\ now' = now + 1 /\ UNCHANGED <<guard, store, login, spilled>>
      /\ admitted' = [c \in Client |-> Keep(admitted[c], StillIn(now + 1))]
  BY DEF Tick
<1>12. now' = now + 1 /\ guard' = guard /\ store' = store /\ spilled' = spilled /\ login' = login
  BY <1>1
<1>2. /\ StoreOK(store) /\ now \in Nat /\ admitted \in [Client -> Seq(Admission)]
      /\ now + 1 \in Nat
  BY DEF GuardsIInv, GuardsTypeOK
<1>3. \A c \in Client :
        /\ admitted'[c] \in Seq(Admission)
        /\ \A i \in 1 .. Len(admitted'[c]) : now + 1 - admitted'[c][i].at < Window
        /\ \A keys : \A t \in Int : now + 1 - Window < t =>
             Count(admitted'[c], AdmittedSince(keys, t)) = Count(admitted[c], AdmittedSince(keys, t))
        /\ \A W : Count(admitted'[c], W) <= Count(admitted[c], W)
  <2> TAKE c \in Client
  <2>1. /\ admitted[c] \in Seq(Admission)
        /\ admitted'[c] = Keep(admitted[c], StillIn(now + 1))
    BY <1>1, <1>2
  <2> QED BY <1>2, <2>1, HistoryKept
<1>4. \A t \in Int : now + 1 - Window < t => now - Window < t
  BY <1>2, ClientsFinite
<1>13. now' - Window = now + 1 - Window /\ (\A n \in Nat : now' - n = now + 1 - n)
  BY <1>2, <1>12, ClientsFinite
<1> DEFINE low == now + 1 - Window
<1>5. GuardsTypeOK'
  <2>1. guard = "email" => \A c \in Client : admitted'[c] = <<>>
    <3> SUFFICES ASSUME guard = "email", NEW c \in Client PROVE admitted'[c] = <<>>
      OBVIOUS
    <3>1. admitted[c] = <<>>
      BY DEF GuardsIInv, GuardsTypeOK
    <3> DEFINE K == StillIn(now + 1)
    <3>2. admitted'[c] = Keep(admitted[c], K)
      BY <1>1
    <3> HIDE DEF K
    <3>3. /\ Keep(admitted[c], K) \in Seq(Admission)
          /\ Len(Keep(admitted[c], K)) = Count(admitted[c], K)
      BY <1>2, KeepLen
    <3>4. Len(admitted'[c]) = 0 /\ admitted'[c] \in Seq(Admission)
      BY <3>1, <3>2, <3>3, CountEmpty
    <3> QED BY <3>4
  <2>2. admitted' \in [Client -> Seq(Admission)]
    BY <1>1, <1>3
  <2> QED BY <1>1, <1>2, <2>1, <2>2 DEF GuardsIInv, GuardsTypeOK
<1>6. AdmittedRecently'
  <2> SUFFICES ASSUME NEW c \in Client, NEW i \in 1 .. Len(admitted'[c])
               PROVE  now' - admitted'[c][i].at < Window
    BY DEF AdmittedRecently
  <2>0. admitted'[c] \in Seq(Admission)
    BY <1>3
  <2>3. admitted'[c][i] \in Admission
    BY <2>0
  <2>1. admitted'[c][i].at \in Nat
    BY <2>3 DEF Admission
  <2> QED BY <1>3, <1>13, <2>1
<1>7. ASSUME NEW c \in Client, NEW hits, AllAdmitted(now - Window, hits, admitted[c])
      PROVE  AllAdmitted(low, hits, admitted'[c])
  BY <1>3, <1>4, <1>7 DEF AllAdmitted
<1>8. HitsInv'
  <2>1. ASSUME NEW c \in Client, HitsWithin(now - Window, store, c, admitted[c])
        PROVE  HitsWithin(low, store, c, admitted'[c])
    BY <1>7, <2>1 DEF HitsWithin
  <2>2. guard # "email" => \A c \in Client : HitsWithin(now - Window, store, c, admitted[c])
    BY DEF GuardsIInv, HitsInv
  <2>3. guard # "email" => \A c \in Client : HitsWithin(low, store, c, admitted'[c])
    BY <2>1, <2>2
  <2>4. now' - Window = low
    BY <1>13
  <2> HIDE DEF low
  <2> QED BY <1>12, <2>3, <2>4 DEF HitsInv
<1>9. CountsInv'
  <2>1. ASSUME NEW c \in Client, NEW k \in Key, KeyCounted(now - Window, store, c, k, admitted[c])
        PROVE  KeyCounted(low, store, c, k, admitted'[c])
    BY <1>3, <1>4, <2>1 DEF KeyCounted
  <2>2. guard # "email" => \A c \in Client \ spilled, k \in Key :
          KeyCounted(now - Window, store, c, k, admitted[c])
    BY DEF GuardsIInv, CountsInv
  <2>3. guard # "email" => \A c \in Client \ spilled, k \in Key :
          KeyCounted(low, store, c, k, admitted'[c])
    BY <2>1, <2>2
  <2>4. now' - Window = low
    BY <1>13
  <2> HIDE DEF low
  <2> QED BY <1>12, <2>3, <2>4 DEF CountsInv
<1>10. LimitHolds'
  <2>1. PathsOK(guard, admitted, spilled) /\ guard \in {"api", "auth", "email"}
    BY <1>2, LimitHoldsByPath, LimitHoldsIs DEF GuardsIInv, GuardsTypeOK
  <2>2. ASSUME NEW c \in Client \ spilled, NEW k \in Key, PathOK(guard, admitted[c], k)
        PROVE  PathOK(guard, admitted'[c], k)
    <3>1. /\ admitted[c] \in Seq(Admission) /\ admitted'[c] \in Seq(Admission)
          /\ \A W : Count(admitted'[c], W) <= Count(admitted[c], W)
      BY <1>2, <1>3
    <3> QED BY <2>1, <2>2, <3>1, PathOfLess
  <2>3. PathsOK(guard', admitted', spilled')
    BY <1>12, <2>1, <2>2 DEF PathsOK
  <2>4. admitted' \in [Client -> Seq(Admission)]
    BY <1>1, <1>3
  <2> QED BY <2>3, <2>4, LimitHoldsByPath, LimitHoldsIs
<1>11. FailuresInv'
  <2>1. ASSUME NEW c \in Client, FailuresOK(now, store, login, c)
        PROVE  FailuresOK(now + 1, store, login, c)
    <3> SUFFICES ASSUME NEW i \in 1 .. Len(store.table[c])
                 PROVE  Count(store.table[c][i].hits, RecentAt(now + 1))
                          + Cardinality(Pending(login, c, store.table[c][i].key))
                        < Limit["auth"] + Cardinality(Attempt)
      BY DEF FailuresOK
    <3> DEFINE x == store.table[c][i]
    <3>1. x.hits \in Seq(Nat)
      BY <1>2, StoreFields DEF StoreOK
    <3>2. Count(x.hits, RecentAt(now)) + Cardinality(Pending(login, c, x.key))
            < Limit["auth"] + Cardinality(Attempt)
      BY <2>1 DEF FailuresOK
    <3> HIDE DEF x
    <3>3. Count(x.hits, RecentAt(now + 1)) <= Count(x.hits, RecentAt(now))
      BY <1>2, <3>1, RecentLess
    <3>4. /\ Count(x.hits, RecentAt(now + 1)) \in Nat /\ Count(x.hits, RecentAt(now)) \in Nat
          /\ Cardinality(Attempt) \in Nat /\ Cardinality(Pending(login, c, x.key)) \in Nat
      BY <3>1, CountType, PendingType
    <3>5. Count(x.hits, RecentAt(now + 1)) + Cardinality(Pending(login, c, x.key))
            < Limit["auth"] + Cardinality(Attempt)
      BY <3>2, <3>3, <3>4, Limits
    <3> QED BY <3>5 DEF x
  <2>2. guard = "email" => \A c \in Client : FailuresOK(now, store, login, c)
    BY DEF GuardsIInv, FailuresInv
  <2>3. guard = "email" => \A c \in Client : FailuresOK(now + 1, store, login, c)
    BY <2>1, <2>2
  <2> QED BY <1>12, <2>3 DEF FailuresInv
<1> QED BY <1>5, <1>6, <1>8, <1>9, <1>10, <1>11 DEF GuardsIInv

-----------------------------------------------------------------------------
(* The theorems *)

LEMMA GuardsStep ==
  ASSUME GuardsIInv, [Next]_vars
  PROVE  GuardsIInv'
<1>1. CASE Tick
  BY <1>1, TickKeeps
<1>2. ASSUME NEW c \in Client, NEW k \in Key, NEW x \in Class, Request(c, k, x)
      PROVE  GuardsIInv'
  BY <1>2, RequestKeeps
<1>3. ASSUME NEW c \in Client, NEW k \in Key, NEW a \in Attempt, LoginCheck(a, c, k)
      PROVE  GuardsIInv'
  BY <1>3, LoginCheckKeeps
<1>4. ASSUME NEW a \in Attempt, LoginSucceeds(a)
      PROVE  GuardsIInv'
  BY <1>4, LoginSucceedsKeeps
<1>5. ASSUME NEW a \in Attempt, LoginFails(a)
      PROVE  GuardsIInv'
  BY <1>5, LoginFailsKeeps
<1>6. CASE UNCHANGED vars
  <2>1. UNCHANGED <<guard, store, login, now, admitted, spilled>>
    BY <1>6 DEF vars
  <2>2. GuardsTypeOK' /\ AdmittedRecently' /\ LimitHolds'
    BY <2>1 DEF GuardsIInv, GuardsTypeOK, AdmittedRecently, LimitHolds, Admitted
  <2>3. HitsInv' /\ CountsInv' /\ FailuresInv'
    BY <2>1 DEF GuardsIInv, HitsInv, CountsInv, FailuresInv
  <2> QED BY <2>2, <2>3 DEF GuardsIInv
<1> QED BY <1>1, <1>2, <1>3, <1>4, <1>5, <1>6 DEF Next

(* The store is within its limits and counts its keys; hits and the        *)
(* history of admissions agree; the failures of a pair that count and its  *)
(* logins in progress stay below a common bound.                           *)
THEOREM GuardsIInvHolds == Spec => []GuardsIInv
<1>1. Init => GuardsIInv
  BY GuardsStart
<1>2. GuardsIInv /\ [Next]_vars => GuardsIInv'
  BY GuardsStep
<1> QED BY <1>1, <1>2, PTL DEF Spec

(* However many clients and keys there are, a client and the store keep    *)
(* within their limits, and the number of keys is right (stateFor,         *)
(* emailStateFor, dropClientKey, the evictions).                           *)
THEOREM KeysAreBoundedHolds == Spec => []KeysAreBounded
<1>1. GuardsIInv => KeysAreBounded
  BY DEF GuardsIInv, GuardsTypeOK, StoreOK, Sizes, KeysAreBounded
<1> QED BY <1>1, GuardsIInvHolds, PTL

(* However a client mixes classes, and whatever limits they have, a window *)
(* admits no more requests of a class on a path than the class's limit and *)
(* no more in all than one of the limits of the classes that share the     *)
(* path's counter, as long as its keys found room (checkRateLimit).        *)
THEOREM LimitHoldsAlways == Spec => []LimitHolds
<1>1. GuardsIInv => LimitHolds
  BY DEF GuardsIInv
<1> QED BY <1>1, GuardsIInvHolds, PTL

(* No more failures of a pair count than the limit and the logins that     *)
(* were in progress together (checkLoginRateLimit, recordLoginFailure).    *)
THEOREM FailuresBoundedHolds == Spec => []FailuresBounded
<1>1. ASSUME GuardsIInv PROVE FailuresBounded
  <2> SUFFICES ASSUME guard = "email", NEW c \in Client, NEW i \in DOMAIN store.table[c]
               PROVE  Len(Live(store.table[c][i].hits)) < Limit["auth"] + Cardinality(Attempt)
    BY DEF FailuresBounded
  <2> DEFINE x == store.table[c][i]
  <2>1. x.hits \in Seq(Nat) /\ i \in 1 .. Len(store.table[c])
    BY <1>1, StoreFields DEF GuardsIInv, GuardsTypeOK, StoreOK
  <2>2. Count(x.hits, RecentAt(now)) + Cardinality(Pending(login, c, x.key))
          < Limit["auth"] + Cardinality(Attempt)
    BY <1>1, <2>1 DEF GuardsIInv, FailuresInv, FailuresOK
  <2> HIDE DEF x
  <2>3. Recent = RecentAt(now)
    BY DEF Recent, RecentAt
  <2>4. Len(Live(x.hits)) = Count(x.hits, RecentAt(now)) /\ Count(x.hits, RecentAt(now)) \in Nat
    BY <2>1, <2>3, LiveLen
  <2>5. Cardinality(Attempt) \in Nat /\ Cardinality(Pending(login, c, x.key)) \in Nat
    BY PendingType
  <2>6. Len(Live(x.hits)) < Limit["auth"] + Cardinality(Attempt)
    BY <2>2, <2>4, <2>5, Limits
  <2> QED BY <2>6 DEF x
<1> QED BY <1>1, GuardsIInvHolds, PTL

LEMMA HitsAreAdmitted ==
  ASSUME NEW hits \in Seq(Nat), NEW adm \in Seq(Admission), now \in Nat,
         hits # <<>> => AllAdmitted(now - Window, hits, adm), NEW x \in Class
  PROVE  Within(hits, x) \/ Len(adm) >= Limit[x]
<1>1. Len(Live(hits)) = Count(hits, Recent) /\ Count(hits, Recent) \in Nat
  BY LiveLen
<1>2. CASE hits = <<>>
  <2>1. Count(hits, Recent) = 0
    BY <1>2, CountEmpty
  <2> QED BY <1>1, <2>1, Limits DEF Within
<1>3. CASE hits # <<>>
  <2> DEFINE t == now - Window + 1
  <2>1. t \in Int /\ now - Window < t /\ \A at \in Nat : at >= t <=> now - at < Window
    BY ClientsFinite
  <2>2. Recent = Since(t)
    BY <2>1 DEF Recent, Since
  <2> HIDE DEF t
  <2>3. Count(hits, Since(t)) <= Count(adm, AdmittedSince(Key, t))
    BY <1>3, <2>1 DEF AllAdmitted
  <2>4. Count(adm, AdmittedSince(Key, t)) \in Nat /\ Count(adm, AdmittedSince(Key, t)) <= Len(adm)
    BY CountType
  <2> QED BY <1>1, <2>2, <2>3, <2>4, Limits DEF Within
<1> QED BY <1>2, <1>3

(* A request is refused to a client for as many admissions of its own as   *)
(* the limit of the request's class, or when even the overflow is full     *)
(* (stateFor, overflowFor, limitedResponse).                               *)
THEOREM OnlySelfThrottledHolds == Spec => []OnlySelfThrottled
<1>1. ASSUME GuardsIInv PROVE OnlySelfThrottled
  <2> SUFFICES ASSUME guard # "email", NEW c \in Client, NEW k \in Key, NEW x \in Classes[guard]
               PROVE  LET found == StateFor(store, c, k)
                          hits == Hits(found.store, c, k, found.place) IN
                      Within(hits, x) \/ found.place = "lastResort" \/ Len(admitted[c]) >= Limit[x]
    BY DEF OnlySelfThrottled
  <2> DEFINE F == StateFor(store, c, k)
             T == F.store
             hits == Hits(T, c, k, F.place)
             adm == admitted[c]
             low == now - Window
  <2>1. StoreOK(store) /\ now \in Nat /\ adm \in Seq(Admission)
    BY <1>1 DEF GuardsIInv, GuardsTypeOK
  <2>2. HitsWithin(low, store, c, adm)
    BY <1>1 DEF GuardsIInv, HitsInv
  <2>3. /\ Ready(store, T) /\ F.place \in {"own", "overflow", "lastResort"}
        /\ F.place = "own" => Has(T, c, k)
        /\ F.place = "overflow" => T.overflow[c] # None
        /\ F.place = "lastResort" => T.lastResort \in Seq(Nat)
    BY <2>1, StateForOK
  <2> HIDE DEF F, adm
  <2>4. StoreOK(T)
    BY <2>3 DEF Ready
  <2>5. hits \in Seq(Nat)
    <3> HIDE DEF T
    <3> QED BY <2>3, <2>4, HitsType
  <2>6. HitsWithin(low, T, c, adm)
    <3> HIDE DEF T
    <3> QED BY <2>1, <2>2, <2>3, ReadyKeeps
  <2>7. F.place = "own" => AllAdmitted(low, hits, adm)
    <3> SUFFICES ASSUME F.place = "own" PROVE AllAdmitted(low, hits, adm)
      OBVIOUS
    <3>1. hits = Counter(T, c, k).hits
      BY DEF Hits
    <3> HIDE DEF T
    <3>2. \E p \in 1 .. Len(T.table[c]) : Counter(T, c, k) = T.table[c][p]
      BY <2>3, <2>4, CounterOf
    <3> HIDE DEF hits
    <3> QED BY <2>6, <3>1, <3>2 DEF HitsWithin
  <2>8. F.place = "overflow" => AllAdmitted(low, hits, adm)
    <3> SUFFICES ASSUME F.place = "overflow" PROVE AllAdmitted(low, hits, adm)
      OBVIOUS
    <3>1. hits = T.overflow[c]
      BY DEF Hits
    <3> HIDE DEF T, hits
    <3> QED BY <2>3, <2>6, <3>1 DEF HitsWithin
  <2>9. F.place # "lastResort" => Within(hits, x) \/ Len(adm) >= Limit[x]
    <3>1. x \in Class
      BY <1>1, ClassesOf DEF GuardsIInv, GuardsTypeOK
    <3> HIDE DEF hits
    <3> QED BY <3>1, <2>1, <2>3, <2>5, <2>7, <2>8, HitsAreAdmitted
  <2> QED BY <2>9 DEF F, adm
<1> QED BY <1>1, GuardsIInvHolds, PTL

LEMMA HasByTable ==
  ASSUME NEW S \in Stores, NEW T \in Stores, NEW d \in Client, NEW i \in 1 .. Len(S.table[d]),
         \E j \in 1 .. Len(T.table[d]) : T.table[d][j] = S.table[d][i]
  PROVE  Has(T, d, S.table[d][i].key)
BY HasKey

(* A request takes no live counter from anyone. *)
LEMMA RequestKeepsLive ==
  ASSUME GuardsIInv, NEW c \in Client, NEW k \in Key, NEW x \in Class, Request(c, k, x),
         NEW d \in Client, NEW i \in 1 .. Len(store.table[d]),
         ~IsExpired(store.table[d][i].hits)
  PROVE  Has(store', d, store.table[d][i].key)
<1> DEFINE F == StateFor(store, c, k)
           T == F.store
           hits == Hits(T, c, k, F.place)
           ok == Within(hits, x)
           new == Counted(hits, ok)
           l == store.table[d][i].key
<1>1. store' = Put(T, c, k, F.place, new)
  BY DEF Request
<1>2. StoreOK(store) /\ now \in Nat
  BY DEF GuardsIInv, GuardsTypeOK
<1>3. /\ Ready(store, T) /\ F.place \in {"own", "overflow", "lastResort"}
      /\ F.place = "own" => Has(T, c, k)
      /\ F.place = "overflow" => T.overflow[c] # None
      /\ F.place = "lastResort" => T.lastResort \in Seq(Nat)
  BY <1>2, StateForOK
<1> HIDE DEF F
<1>4. StoreOK(T) /\ LiveKept(store, T)
  BY <1>3 DEF Ready
<1> HIDE DEF T
<1>5. hits \in Seq(Nat)
  BY <1>3, <1>4, HitsType
<1> HIDE DEF hits
<1>6. new \in Seq(Nat)
  <2>1. now + 1 \in Int /\ now - Window < now + 1 /\ ok \in BOOLEAN
    BY <1>2, ClientsFinite DEF Within
  <2> HIDE DEF ok
  <2> QED BY <1>2, <1>5, <2>1, CountedSince
<1> HIDE DEF new
<1>7. Has(T, d, l)
  <2>1. \E j \in 1 .. Len(T.table[d]) : T.table[d][j] = store.table[d][i]
    BY <1>4 DEF LiveKept
  <2> QED BY <1>2, <1>4, <2>1, HasByTable DEF StoreOK
<1>8. l \in Key
  BY <1>2, StoreFields DEF StoreOK
<1> HIDE DEF l
<1>9. CASE F.place = "own"
  <2>1. store' = Put(T, c, k, "own", new)
    BY <1>1, <1>9
  <2> QED BY <1>4, <1>6, <1>7, <1>8, <2>1, PutOwn DEF l
<1>10. CASE F.place # "own"
  <2>1. store'.table = T.table
    <3>1. CASE F.place = "overflow"
      <4>1. store' = Put(T, c, k, "overflow", new) /\ T.overflow[c] # None
        BY <1>1, <1>3, <3>1
      <4>2. /\ StoreOK(store') /\ store'.table = T.table
            /\ store'.overflow = [T.overflow EXCEPT ![c] = new]
        BY <1>4, <1>6, <4>1, PutAside
      <4> QED BY <4>2
    <3>2. CASE F.place = "lastResort"
      <4>1. store' = Put(T, c, k, "lastResort", new)
        BY <1>1, <3>2
      <4>2. Put(T, c, k, "lastResort", new).table = T.table
        BY <1>4, <1>6, PutLast
      <4> QED BY <4>1, <4>2
    <3> QED BY <1>3, <1>10, <3>1, <3>2
  <2>2. Positions(store', d, l) = Positions(T, d, l)
    BY <2>1 DEF Positions
  <2> QED BY <1>7, <2>2 DEF Has, l
<1> QED BY <1>9, <1>10

(* Only a failed login creates a key in the store of emails. *)
LEMMA LoginCreatesNone ==
  ASSUME GuardsIInv, NEW a \in Attempt, NEW c \in Client, NEW k \in Key,
         LoginCheck(a, c, k) \/ LoginSucceeds(a),
         NEW d \in Client, NEW l \in Key, Has(store', d, l)
  PROVE  Has(store, d, l)
<1>1. StoreOK(store) /\ now \in Nat /\ login \in [Attempt -> {Idle} \cup Login]
  BY DEF GuardsIInv, GuardsTypeOK
<1>2. CASE store' = store
  BY <1>2
<1>3. CASE LoginCheck(a, c, k) /\ Has(store, c, k)
  <2> DEFINE hits == Counter(store, c, k).hits
             new == Live(hits)
  <2>1. store' = Put(store, c, k, "own", new)
    BY <1>3 DEF LoginCheck
  <2>2. hits \in Seq(Nat)
    <3>1. PICK p \in 1 .. Len(store.table[c]) : Counter(store, c, k) = store.table[c][p]
      BY <1>1, <1>3, CounterOf
    <3> QED BY <1>1, <3>1, StoreFields DEF StoreOK
  <2>3. new \in Seq(Nat)
    BY <2>2, LiveLen
  <2> HIDE DEF new
  <2> QED BY <1>1, <2>1, <2>3, PutOwn
<1>4. CASE LoginSucceeds(a) /\ Has(store, login[a].client, login[a].key)
  <2> DEFINE e == login[a].client
             m == login[a].key
  <2>1. store' = Drop(store, e, m) /\ e \in Client
    BY <1>1, <1>4, OneLogin DEF LoginSucceeds
  <2>2. Has(store, e, m)
    BY <1>4
  <2> HIDE DEF e, m
  <2>3. Shrunk(store, Drop(store, e, m))
    BY <1>1, <2>1, <2>2, DropShrinks
  <2>4. Shrunk(store, store')
    BY <2>1, <2>3
  <2>5. store \in Stores
    BY <1>1 DEF StoreOK
  <2> QED BY <2>4, <2>5, ShrunkHasLess
<1> QED BY <1>2, <1>3, <1>4 DEF LoginCheck, LoginSucceeds

(* A failed login takes a live counter only of a client with more keys. *)
LEMMA FailureTakesFromHeavier ==
  ASSUME GuardsIInv, NEW a \in Attempt, LoginFails(a),
         NEW c \in Client, NEW k \in Key, Has(store', c, k), ~Has(store, c, k),
         NEW d \in Client \ {c}, NEW i \in 1 .. Len(store.table[d]),
         ~IsExpired(store.table[d][i].hits), ~Has(store', d, store.table[d][i].key)
  PROVE  Len(store.table[d]) > Len(Fresh(store, c))
<1> DEFINE e == login[a].client
           m == login[a].key
           l == store.table[d][i].key
<1>1. PICK T \in EmailStores(store, e, m) :
        store' = Put(T, e, m, "own", Append(Counter(T, e, m).hits, now))
  BY DEF LoginFails
<1>2. StoreOK(store) /\ now \in Nat /\ e \in Client /\ m \in Key
  BY OneLogin DEF GuardsIInv, GuardsTypeOK, LoginFails
<1> HIDE DEF e, m
<1>3. Admits(store, T, e, m)
  BY <1>1, <1>2, EmailStoresOK
<1>4. StoreOK(T) /\ Has(T, e, m) /\ T \in Stores /\ store \in Stores
  BY <1>2, <1>3 DEF Admits, StoreOK
<1>5. \A f \in Client, n \in Key : Has(store', f, n) <=> Has(T, f, n)
  <2> DEFINE hits == Counter(T, e, m).hits
             new == Append(hits, now)
  <2>1. hits \in Seq(Nat)
    <3>1. PICK p \in 1 .. Len(T.table[e]) : Counter(T, e, m) = T.table[e][p]
      BY <1>2, <1>4, CounterOf
    <3> QED BY <1>2, <1>4, <3>1, StoreFields
  <2>2. new \in Seq(Nat) /\ store' = Put(T, e, m, "own", new)
    BY <1>1, <1>2, <2>1
  <2> HIDE DEF new
  <2> QED BY <1>2, <1>4, <2>2, PutOwn
<1>6. c = e /\ k = m
  <2>1. PICK j \in 1 .. Len(T.table[c]) : T.table[c][j].key = k
    BY <1>4, <1>5, HasKey
  <2>2. \/ c = e /\ T.table[c][j] = Blank(m)
        \/ \E n \in 1 .. Len(store.table[c]) : T.table[c][j] = store.table[c][n]
    BY <1>3 DEF Admits
  <2>3. ~ \E n \in 1 .. Len(store.table[c]) : T.table[c][j] = store.table[c][n]
    BY <1>4, <2>1, HasKey
  <2> QED BY <2>1, <2>2, <2>3 DEF Blank
<1>7. l \in Key
  BY <1>4, StoreFields
<1>8. ~ \E j \in 1 .. Len(T.table[d]) : T.table[d][j] = store.table[d][i]
  BY <1>4, <1>5, <1>7, HasByTable
<1> QED BY <1>3, <1>6, <1>8 DEF Admits

(* A new pair takes the place of a live one of another client only if this *)
(* has more pairs than the new one's client has live (emailStateFor).      *)
THEOREM LighterKeptHolds == Spec => LighterKept
<1> DEFINE Lighter ==
      \A c, d \in Client :
        c # d /\ (\E k \in Key : Has(store', c, k) /\ ~Has(store, c, k)) =>
        \A i \in DOMAIN store.table[d] :
          LET counter == store.table[d][i] IN
          ~IsExpired(counter.hits) /\ ~Has(store', d, counter.key)
            => Len(store.table[d]) > Len(Fresh(store, c))
<1>1. ASSUME GuardsIInv, [Next]_vars PROVE Lighter
  <2> SUFFICES ASSUME NEW c \in Client, NEW d \in Client, c # d,
                      NEW k \in Key, Has(store', c, k), ~Has(store, c, k),
                      NEW i \in DOMAIN store.table[d], ~IsExpired(store.table[d][i].hits),
                      ~Has(store', d, store.table[d][i].key)
               PROVE  Len(store.table[d]) > Len(Fresh(store, c))
    OBVIOUS
  <2>1. i \in 1 .. Len(store.table[d])
    BY <1>1, StoreFields DEF GuardsIInv, GuardsTypeOK, StoreOK
  <2>2. store' # store
    OBVIOUS
  <2>3. ~ Tick /\ ~ UNCHANGED vars
    BY <2>2 DEF Tick, vars
  <2>4. ASSUME NEW e \in Client, NEW m \in Key, NEW x \in Class, Request(e, m, x) PROVE FALSE
    BY <1>1, <2>1, <2>4, RequestKeepsLive
  <2>5. ASSUME NEW e \in Client, NEW m \in Key, NEW a \in Attempt, LoginCheck(a, e, m) PROVE FALSE
    BY <1>1, <2>5, LoginCreatesNone
  <2>6. ASSUME NEW a \in Attempt, LoginSucceeds(a) PROVE FALSE
    BY <1>1, <2>6, LoginCreatesNone
  <2>7. ASSUME NEW a \in Attempt, LoginFails(a)
        PROVE  Len(store.table[d]) > Len(Fresh(store, c))
    BY <1>1, <2>1, <2>7, FailureTakesFromHeavier
  <2> QED BY <1>1, <2>3, <2>4, <2>5, <2>6, <2>7 DEF Next
<1>2. GuardsIInv /\ [Next]_vars => [Lighter]_vars
  BY <1>1
<1> QED BY <1>2, GuardsIInvHolds, PTL DEF Spec, LighterKept
=============================================================================
