----------------------------- MODULE DataLemmas -----------------------------
(***************************************************************************)
(* Facts about sums over finite sets, folds over sequences, least elements *)
(* and lists without repetitions, which the proofs about the components    *)
(* cite.  Inductions are carried out on smallest counterexamples: the set  *)
(* of the subsets for which a claim fails is empty because it would have a *)
(* smallest element (SmallestSet).                                         *)
(***************************************************************************)
EXTENDS Integers, Sequences, SequencesExt, FiniteSets, FiniteSetsExt, FiniteSetTheorems,
        SequenceTheorems, WellFoundedInduction, TLAPS

-----------------------------------------------------------------------------
(* Smallest elements *)

(* A non-empty collection of subsets of a finite set has a smallest one. *)
LEMMA SmallestSet ==
  ASSUME NEW S, IsFiniteSet(S), NEW C, C \subseteq SUBSET S, C # {}
  PROVE  \E T \in C : \A U \in C : U \subseteq T => U = T
<1>1. IsWellFoundedOn(StrictSubsetOrdering(S), SUBSET S)
  BY FS_StrictSubsetOrderingWellFounded, FS_FiniteSubsetsOfFinite
<1>2. PICK T \in C : \A U \in C : ~(<<U, T>> \in StrictSubsetOrdering(S))
  BY <1>1, WFMin, Zenon
<1>3. QED
  BY <1>2 DEF StrictSubsetOrdering

(* A non-empty set of natural numbers has a least element. *)
LEMMA MinOfNats ==
  ASSUME NEW N, N \subseteq Nat, N # {}
  PROVE  Min(N) \in N /\ \A n \in N : Min(N) <= n
<1>1. PICK n \in N : TRUE
  OBVIOUS
<1> DEFINE I == 0 .. n
           C == {0 .. m : m \in {k \in N : k <= n}}
<1>2. C \subseteq SUBSET I /\ C # {}
  <2>1. 0 .. n \in C
    OBVIOUS
  <2>2. ASSUME NEW T \in C PROVE T \subseteq 0 .. n
    OBVIOUS
  <2>3. QED
    BY <2>1, <2>2
<1>3. PICK T \in C : \A U \in C : U \subseteq T => U = T
  <2>1. IsFiniteSet(I)
    BY FS_Interval
  <2> HIDE DEF C, I
  <2>2. QED
    BY <1>2, <2>1, SmallestSet
<1>4. PICK m \in N : m <= n /\ T = 0 .. m
  OBVIOUS
<1>5. \A k \in N : m <= k
  <2> SUFFICES ASSUME NEW k \in N, k < m PROVE FALSE
    OBVIOUS
  <2>1. 0 .. k \in C /\ 0 .. k \subseteq T
    BY <1>4
  <2>2. 0 .. k = 0 .. m
    BY <1>3, <1>4, <2>1
  <2>3. m \in 0 .. k
    BY <2>2
  <2>4. QED
    BY <2>3
<1>6. QED
  BY <1>5 DEF Min

-----------------------------------------------------------------------------
(* Products and quotients *)

LEMMA CancelFactor ==
  ASSUME NEW a \in Int, NEW b \in Int, NEW n \in Int, n # 0, a * n = b * n
  PROVE  a = b
OBVIOUS

LEMMA ExactQuotient ==
  ASSUME NEW x \in Int, NEW m \in Nat, m # 0
  PROVE  (x * m) \div m = x
OBVIOUS

-----------------------------------------------------------------------------
(* Sums over finite sets *)

(* The element that SumFunctionOnSet adds first. *)
Chosen(s) == CHOOSE x \in s : TRUE

(* A table of the sums over the sets in D, as SumFunctionOnSet defines it. *)
IsSum(f, it, D) ==
  it = [s \in D |-> IF s = {} THEN 0 ELSE f[Chosen(s)] + it[s \ {Chosen(s)}]]

SumTable(f, S) == CHOOSE it : IsSum(f, it, SUBSET S)

(* The library's sum is read from such a table. *)
LEMMA SumIsTable == ASSUME NEW f, NEW S PROVE SumFunctionOnSet(f, S) = SumTable(f, S)[S]
BY Zenon DEF SumFunctionOnSet, FoldFunctionOnSet, MapThenFoldSet, SumTable, IsSum, Chosen

(* There is such a table: level by level, from the empty set up. *)
LEMMA SumTableExists ==
  ASSUME NEW f, NEW S, IsFiniteSet(S)
  PROVE  \E it : IsSum(f, it, SUBSET S)
<1> DEFINE Level(n) == {s \in SUBSET S : Cardinality(s) <= n}
           Bad == {n \in Nat : ~\E it : IsSum(f, it, Level(n))}
<1>0. \A s \in SUBSET S : IsFiniteSet(s) /\ Cardinality(s) \in Nat
  BY FS_Subset, FS_CardinalityType
<1>1. 0 \notin Bad
  <2>1. Level(0) = {{}}
    BY <1>0, FS_EmptySet
  <2>2. IsSum(f, [s \in {{}} |-> 0], {{}})
    BY DEF IsSum
  <2>3. QED
    BY <2>1, <2>2
<1>2. ASSUME NEW n \in Nat, n \notin Bad PROVE n + 1 \notin Bad
  <2>1. PICK g : IsSum(f, g, Level(n))
    BY <1>2
  <2> DEFINE h == [s \in Level(n + 1) |-> IF s = {} THEN 0 ELSE f[Chosen(s)] + g[s \ {Chosen(s)}]]
  <2>2. ASSUME NEW s \in Level(n + 1), s # {} PROVE s \ {Chosen(s)} \in Level(n)
    <3>1. Chosen(s) \in s
      BY <2>2 DEF Chosen
    <3>2. Cardinality(s \ {Chosen(s)}) = Cardinality(s) - 1
      BY <1>0, <3>1, FS_RemoveElement
    <3>3. QED
      BY <1>0, <3>2
  <2>3. \A s \in Level(n) : s \in Level(n + 1) /\ h[s] = g[s]
    <3>1. \A s \in Level(n) : s \in Level(n + 1)
      BY <1>0
    <3> HIDE DEF Level
    <3>2. QED
      BY <2>1, <3>1 DEF IsSum
  <2>4. IsSum(f, h, Level(n + 1))
    <3> HIDE DEF Level
    <3>1. \A s \in Level(n + 1) : s # {} => h[s \ {Chosen(s)}] = g[s \ {Chosen(s)}]
      BY <2>2, <2>3
    <3>2. QED
      BY <3>1 DEF IsSum
  <2>5. QED
    BY <2>4
<1>3. Bad = {}
  <2> SUFFICES ASSUME Bad # {} PROVE FALSE
    OBVIOUS
  <2>1. Bad \subseteq Nat
    OBVIOUS
  <2> HIDE DEF Bad
  <2>2. PICK m \in Bad : \A n \in Bad : m <= n
    BY <2>1, MinOfNats
  <2>3. m \in Nat /\ m # 0
    BY <1>1, <2>1
  <2>4. m - 1 \in Nat /\ m - 1 \notin Bad /\ (m - 1) + 1 = m
    BY <2>1, <2>2, <2>3
  <2>5. QED
    BY <1>2, <2>4
<1>4. Cardinality(S) \in Nat /\ Level(Cardinality(S)) = SUBSET S
  BY <1>0, FS_Subset
<1>5. QED
  BY <1>3, <1>4

(* The table the sum is read from satisfies its recursive equation. *)
LEMMA SumTableEq ==
  ASSUME NEW f, NEW S, IsFiniteSet(S), NEW T \in SUBSET S
  PROVE  SumTable(f, S)[T] = IF T = {} THEN 0 ELSE f[Chosen(T)] + SumTable(f, S)[T \ {Chosen(T)}]
<1>1. IsSum(f, SumTable(f, S), SUBSET S)
  BY SumTableExists, Zenon DEF SumTable
<1>2. QED
  BY <1>1 DEF IsSum

(* The sum over a subset does not depend on the set whose table is used. *)
LEMMA SumTableRestrict ==
  ASSUME NEW f, NEW S, IsFiniteSet(S), NEW T \in SUBSET S
  PROVE  SumTable(f, S)[T] = SumTable(f, T)[T]
<1> DEFINE Bad == {U \in SUBSET T : SumTable(f, S)[U] # SumTable(f, T)[U]}
<1>0. IsFiniteSet(T)
  BY FS_Subset
<1>1. Bad = {}
  <2> SUFFICES ASSUME Bad # {} PROVE FALSE
    OBVIOUS
  <2>1. Bad \subseteq SUBSET T
    OBVIOUS
  <2>2. PICK U \in Bad : \A V \in Bad : V \subseteq U => V = U
    <3> HIDE DEF Bad
    <3> QED
      BY <1>0, <2>1, SmallestSet
  <2>3. U \in SUBSET S /\ U \in SUBSET T /\ SumTable(f, S)[U] # SumTable(f, T)[U]
    OBVIOUS
  <2>4. U # {} => SumTable(f, S)[U \ {Chosen(U)}] = SumTable(f, T)[U \ {Chosen(U)}]
    <3>1. U # {} => Chosen(U) \in U
      BY DEF Chosen
    <3>2. U \ {Chosen(U)} \in SUBSET T /\ U \ {Chosen(U)} \subseteq U
      BY <2>3
    <3>3. U # {} => U \ {Chosen(U)} \notin Bad
      BY <2>2, <3>1, <3>2
    <3>4. QED
      BY <3>2, <3>3
  <2>5. QED
    BY <1>0, <2>3, <2>4, SumTableEq
<1>2. QED
  BY <1>1

(* The recursion of the sum itself. *)
LEMMA SumStep ==
  ASSUME NEW f, NEW S, IsFiniteSet(S)
  PROVE  /\ S = {} => SumFunctionOnSet(f, S) = 0
         /\ S # {} => /\ Chosen(S) \in S
                      /\ SumFunctionOnSet(f, S) = f[Chosen(S)] + SumFunctionOnSet(f, S \ {Chosen(S)})
<1>1. S # {} => Chosen(S) \in S
  BY DEF Chosen
<1>2. SumTable(f, S)[S \ {Chosen(S)}] = SumTable(f, S \ {Chosen(S)})[S \ {Chosen(S)}]
  BY SumTableRestrict
<1>3. SumTable(f, S)[S] = IF S = {} THEN 0 ELSE f[Chosen(S)] + SumTable(f, S)[S \ {Chosen(S)}]
  BY SumTableEq
<1>4. QED
  BY <1>1, <1>2, <1>3, SumIsTable

(* Sums of integers are integers. *)
LEMMA SumInt ==
  ASSUME NEW D, NEW f \in [D -> Int], NEW S \in SUBSET D, IsFiniteSet(S)
  PROVE  SumFunctionOnSet(f, S) \in Int
<1> DEFINE Bad == {U \in SUBSET S : SumFunctionOnSet(f, U) \notin Int}
<1>1. Bad = {}
  <2> SUFFICES ASSUME Bad # {} PROVE FALSE
    OBVIOUS
  <2>1. Bad \subseteq SUBSET S
    OBVIOUS
  <2>2. PICK U \in Bad : \A V \in Bad : V \subseteq U => V = U
    <3> HIDE DEF Bad
    <3> QED
      BY <2>1, SmallestSet
  <2>3. IsFiniteSet(U) /\ U \subseteq D
    BY FS_Subset
  <2>4. U # {} => /\ Chosen(U) \in U
                  /\ SumFunctionOnSet(f, U) = f[Chosen(U)] + SumFunctionOnSet(f, U \ {Chosen(U)})
    BY <2>3, SumStep
  <2>5. U # {}
    <3>1. U = {} => SumFunctionOnSet(f, U) = 0
      BY <2>3, SumStep
    <3>2. SumFunctionOnSet(f, U) \notin Int
      OBVIOUS
    <3>3. QED
      BY <3>1, <3>2
  <2>6. U \ {Chosen(U)} \notin Bad /\ U \ {Chosen(U)} \in SUBSET S
    BY <2>1, <2>2, <2>4, <2>5
  <2>7. f[Chosen(U)] \in Int /\ SumFunctionOnSet(f, U \ {Chosen(U)}) \in Int
    BY <2>3, <2>4, <2>5, <2>6
  <2>8. QED
    BY <2>4, <2>5, <2>7
<1>2. QED
  BY <1>1

(* Sums of natural numbers are natural numbers. *)
LEMMA SumNat ==
  ASSUME NEW D, NEW f \in [D -> Nat], NEW S \in SUBSET D, IsFiniteSet(S)
  PROVE  SumFunctionOnSet(f, S) \in Nat
<1> DEFINE Bad == {U \in SUBSET S : SumFunctionOnSet(f, U) \notin Nat}
<1>1. Bad = {}
  <2> SUFFICES ASSUME Bad # {} PROVE FALSE
    OBVIOUS
  <2>1. Bad \subseteq SUBSET S
    OBVIOUS
  <2>2. PICK U \in Bad : \A V \in Bad : V \subseteq U => V = U
    <3> HIDE DEF Bad
    <3> QED
      BY <2>1, SmallestSet
  <2>3. IsFiniteSet(U) /\ U \subseteq D
    BY FS_Subset
  <2>4. U # {} => /\ Chosen(U) \in U
                  /\ SumFunctionOnSet(f, U) = f[Chosen(U)] + SumFunctionOnSet(f, U \ {Chosen(U)})
    BY <2>3, SumStep
  <2>5. U # {}
    <3>1. U = {} => SumFunctionOnSet(f, U) = 0
      BY <2>3, SumStep
    <3>2. SumFunctionOnSet(f, U) \notin Nat
      OBVIOUS
    <3>3. QED
      BY <3>1, <3>2
  <2>6. U \ {Chosen(U)} \notin Bad /\ U \ {Chosen(U)} \in SUBSET S
    BY <2>1, <2>2, <2>4, <2>5
  <2>7. f[Chosen(U)] \in Nat /\ SumFunctionOnSet(f, U \ {Chosen(U)}) \in Nat
    BY <2>3, <2>4, <2>5, <2>6
  <2>8. QED
    BY <2>4, <2>5, <2>7
<1>2. QED
  BY <1>1

LEMMA PlusSwap ==
  ASSUME NEW a \in Int, NEW b \in Int, NEW c \in Int PROVE a + (b + c) = b + (a + c)
OBVIOUS

(* Any element may be added first. *)
LEMMA SumElementInt ==
  ASSUME NEW D, NEW f \in [D -> Int], NEW S \in SUBSET D, IsFiniteSet(S), NEW x \in S
  PROVE  SumFunctionOnSet(f, S) = f[x] + SumFunctionOnSet(f, S \ {x})
<1> DEFINE Bad == {U \in SUBSET S : \E y \in U : SumFunctionOnSet(f, U) # f[y] + SumFunctionOnSet(f, U \ {y})}
<1>1. Bad = {}
  <2> SUFFICES ASSUME Bad # {} PROVE FALSE
    OBVIOUS
  <2>1. Bad \subseteq SUBSET S
    OBVIOUS
  <2>2. PICK U \in Bad : \A V \in Bad : V \subseteq U => V = U
    <3> HIDE DEF Bad
    <3> QED
      BY <2>1, SmallestSet
  <2>3. PICK y \in U : SumFunctionOnSet(f, U) # f[y] + SumFunctionOnSet(f, U \ {y})
    OBVIOUS
  <2> DEFINE z == Chosen(U)
  <2>4. IsFiniteSet(U) /\ U \subseteq D
    BY FS_Subset
  <2>5. z \in U /\ SumFunctionOnSet(f, U) = f[z] + SumFunctionOnSet(f, U \ {z})
    BY <2>4, SumStep
  <2> HIDE DEF z
  <2>6. y # z
    BY <2>3, <2>5
  <2>7. \A V \in SUBSET U : V # U => \A v \in V : SumFunctionOnSet(f, V) = f[v] + SumFunctionOnSet(f, V \ {v})
    BY <2>2
  <2> HIDE DEF Bad
  <2>8. SumFunctionOnSet(f, U \ {z}) = f[y] + SumFunctionOnSet(f, (U \ {z}) \ {y})
    BY <2>3, <2>5, <2>6, <2>7
  <2>9. SumFunctionOnSet(f, U \ {y}) = f[z] + SumFunctionOnSet(f, (U \ {y}) \ {z})
    BY <2>3, <2>5, <2>6, <2>7
  <2>10. (U \ {y}) \ {z} = (U \ {z}) \ {y}
    OBVIOUS
  <2>11. IsFiniteSet((U \ {z}) \ {y}) /\ (U \ {z}) \ {y} \in SUBSET D
    BY <2>4, FS_RemoveElement
  <2>12. f[y] \in Int /\ f[z] \in Int /\ SumFunctionOnSet(f, (U \ {z}) \ {y}) \in Int
    BY <2>4, <2>5, <2>11, SumInt
  <2>13. f[z] + (f[y] + SumFunctionOnSet(f, (U \ {z}) \ {y})) = f[y] + (f[z] + SumFunctionOnSet(f, (U \ {z}) \ {y}))
    BY <2>12, PlusSwap, Zenon
  <2>14. QED
    BY <2>3, <2>5, <2>8, <2>9, <2>10, <2>13, Zenon
<1>2. QED
  BY <1>1

LEMMA SumElement ==
  ASSUME NEW D, NEW f \in [D -> Nat], NEW S \in SUBSET D, IsFiniteSet(S), NEW x \in S
  PROVE  SumFunctionOnSet(f, S) = f[x] + SumFunctionOnSet(f, S \ {x})
<1>1. f \in [D -> Int]
  OBVIOUS
<1>2. QED
  BY <1>1, SumElementInt

(* The sum over a disjoint union is the sum of the sums. *)
LEMMA SumUnion ==
  ASSUME NEW D, NEW f \in [D -> Nat], NEW S \in SUBSET D, IsFiniteSet(S),
         NEW T \in SUBSET D, IsFiniteSet(T), S \cap T = {}
  PROVE  SumFunctionOnSet(f, S \cup T) = SumFunctionOnSet(f, S) + SumFunctionOnSet(f, T)
<1> DEFINE Sum(U) == SumFunctionOnSet(f, U)
           Bad == {U \in SUBSET T : Sum(S \cup U) # Sum(S) + Sum(U)}
<1>0. \A U \in SUBSET (S \cup T) : IsFiniteSet(U) /\ U \in SUBSET D /\ Sum(U) \in Nat
  <2>1. IsFiniteSet(S \cup T)
    BY FS_Union
  <2>2. QED
    BY <2>1, FS_Subset, SumNat
<1>1. Bad = {}
  <2> SUFFICES ASSUME Bad # {} PROVE FALSE
    OBVIOUS
  <2>1. Bad \subseteq SUBSET T
    OBVIOUS
  <2>2. PICK U \in Bad : \A V \in Bad : V \subseteq U => V = U
    <3> HIDE DEF Bad
    <3> QED
      BY <2>1, SmallestSet
  <2>3. U \in SUBSET T /\ Sum(S \cup U) # Sum(S) + Sum(U)
    OBVIOUS
  <2>4. \A V \in SUBSET U : V # U => Sum(S \cup V) = Sum(S) + Sum(V)
    BY <2>2
  <2> HIDE DEF Bad
  <2>5. U # {}
    <3>1. Sum({}) = 0
      BY FS_EmptySet, SumStep
    <3>2. S \cup {} = S /\ Sum(S) \in Nat
      BY <1>0
    <3>3. Sum(S) + 0 = Sum(S)
      BY <3>2
    <3> HIDE DEF Sum
    <3>4. QED
      BY <2>3, <3>1, <3>2, <3>3, Zenon
  <2>6. PICK x \in U : TRUE
    BY <2>5
  <2>7. Sum(U) = f[x] + Sum(U \ {x}) /\ Sum(S \cup U) = f[x] + Sum((S \cup U) \ {x})
    <3>1. /\ U \in SUBSET D /\ IsFiniteSet(U) /\ x \in U
          /\ S \cup U \in SUBSET D /\ IsFiniteSet(S \cup U) /\ x \in S \cup U
      BY <1>0, <2>3
    <3>2. QED
      BY <3>1, SumElement
  <2>8. (S \cup U) \ {x} = S \cup (U \ {x})
    BY <2>3
  <2>9. Sum(S \cup (U \ {x})) = Sum(S) + Sum(U \ {x})
    BY <2>4
  <2>10. f[x] \in Int /\ Sum(S) \in Int /\ Sum(U \ {x}) \in Int
    BY <1>0, <2>3
  <2>11. f[x] + (Sum(S) + Sum(U \ {x})) = Sum(S) + (f[x] + Sum(U \ {x}))
    BY <2>10, PlusSwap, Zenon
  <2> HIDE DEF Sum
  <2>12. QED
    BY <2>3, <2>7, <2>8, <2>9, <2>11, Zenon
<1>2. QED
  BY <1>1

-----------------------------------------------------------------------------
(* Lists of entries *)

LEMMA SubSeqFacts ==
  ASSUME NEW S, NEW s \in Seq(S), NEW lo \in Nat \ {0}, NEW hi \in Nat, lo <= hi + 1, hi <= Len(s)
  PROVE  /\ SubSeq(s, lo, hi) \in Seq(S) /\ Len(SubSeq(s, lo, hi)) = hi + 1 - lo
         /\ DOMAIN SubSeq(s, lo, hi) = 1 .. (hi + 1 - lo)
         /\ \A i \in 1 .. (hi + 1 - lo) : SubSeq(s, lo, hi)[i] = s[i + (lo - 1)]
<1>0. Len(s) \in Nat /\ DOMAIN s = 1 .. Len(s) /\ \A i \in 1 .. Len(s) : s[i] \in S
  BY LenProperties
<1>1. \A i \in lo .. hi : s[i] \in S
  BY <1>0
<1> DEFINE r == SubSeq(s, lo, hi)
<1>2. /\ r \in Seq(S) /\ Len(r) = IF lo <= hi THEN hi - lo + 1 ELSE 0
      /\ \A i \in 1 .. hi - lo + 1 : r[i] = s[lo + i - 1]
  BY <1>1, SubSeqProperties
<1> HIDE DEF r
<1>3. DOMAIN r = 1 .. Len(r) /\ Len(r) = hi + 1 - lo
  BY <1>2, LenProperties
<1>4. \A i \in 1 .. (hi + 1 - lo) : i \in 1 .. hi - lo + 1 /\ lo + i - 1 = i + (lo - 1)
  OBVIOUS
<1>5. QED
  BY <1>2, <1>3, <1>4 DEF r

LEMMA SeqRemove ==
  ASSUME NEW S, NEW s \in Seq(S), IsInjective(s), NEW k
  PROVE  /\ RemoveFirst(s, k) \in Seq(S) /\ IsInjective(RemoveFirst(s, k))
         /\ Range(RemoveFirst(s, k)) = Range(s) \ {k}
<1> DEFINE I == {i \in 1 .. Len(s) : s[i] = k}
<1>0. Len(s) \in Nat /\ DOMAIN s = 1 .. Len(s) /\ \A i \in 1 .. Len(s) : s[i] \in S
  BY LenProperties
<1>1. CASE I = {}
  <2>1. RemoveFirst(s, k) = s
    BY <1>1 DEF RemoveFirst
  <2>2. k \notin Range(s)
    BY <1>0, <1>1 DEF Range
  <2>3. QED
    BY <2>1, <2>2
<1>2. CASE I # {}
  <2>1. I \subseteq Nat
    BY <1>0
  <2>2. Min(I) \in I
    BY <1>2, <2>1, MinOfNats
  <2> DEFINE m == Min(I)
             a == SubSeq(s, 1, m - 1)
             b == SubSeq(s, m + 1, Len(s))
  <2>3. RemoveFirst(s, k) = a \o b
    BY <1>2 DEF RemoveFirst, RemoveAt, SelectInSeq
  <2>4. m \in 1 .. Len(s) /\ s[m] = k
    BY <2>2
  <2> HIDE DEF m
  <2>5. a \in Seq(S) /\ Len(a) = m - 1 /\ \A i \in 1 .. m - 1 : a[i] = s[i]
    <3>1. 1 <= (m - 1) + 1 /\ m - 1 <= Len(s) /\ m - 1 \in Nat /\ (m - 1) + 1 - 1 = m - 1
      BY <1>0, <2>4
    <3>2. /\ a \in Seq(S) /\ Len(a) = (m - 1) + 1 - 1
          /\ \A i \in 1 .. ((m - 1) + 1 - 1) : a[i] = s[i + (1 - 1)]
      BY <3>1, SubSeqFacts
    <3> HIDE DEF a
    <3>3. QED
      BY <3>1, <3>2
  <2>6. b \in Seq(S) /\ Len(b) = Len(s) - m /\ \A i \in 1 .. (Len(s) - m) : b[i] = s[i + m]
    <3>1. m + 1 <= Len(s) + 1 /\ m + 1 \in Nat \ {0} /\ (Len(s) + 1) - (m + 1) = Len(s) - m /\ (m + 1) - 1 = m
      BY <1>0, <2>4
    <3>2. /\ b \in Seq(S) /\ Len(b) = (Len(s) + 1) - (m + 1)
          /\ \A i \in 1 .. ((Len(s) + 1) - (m + 1)) : b[i] = s[i + ((m + 1) - 1)]
      BY <1>0, <3>1, SubSeqFacts
    <3> HIDE DEF b
    <3>3. QED
      BY <3>1, <3>2
  <2> HIDE DEF a, b
  <2> DEFINE r == a \o b
  <2>7. r \in Seq(S) /\ Len(r) = Len(a) + Len(b)
    BY <2>5, <2>6, ConcatProperties
  <2>8. \A i \in 1 .. Len(a) + Len(b) : r[i] = IF i <= Len(a) THEN a[i] ELSE b[i - Len(a)]
    BY <2>5, <2>6, ConcatProperties
  <2> HIDE DEF r
  <2>9. /\ Len(r) = Len(s) - 1 /\ DOMAIN r = 1 .. (Len(s) - 1)
        /\ \A i \in 1 .. (Len(s) - 1) : r[i] = IF i < m THEN s[i] ELSE s[i + 1]
    <3>1. Len(r) = Len(s) - 1
      BY <1>0, <2>4, <2>5, <2>6, <2>7
    <3>2. DOMAIN r = 1 .. (Len(s) - 1)
      BY <2>7, <3>1, LenProperties
    <3>3. ASSUME NEW i \in 1 .. (Len(s) - 1) PROVE r[i] = IF i < m THEN s[i] ELSE s[i + 1]
      <4>1. i \in 1 .. Len(a) + Len(b)
        BY <1>0, <2>4, <2>5, <2>6
      <4>2. CASE i < m
        <5>1. i <= Len(a) /\ i \in 1 .. m - 1
          BY <1>0, <2>4, <2>5, <4>2
        <5>2. QED
          BY <2>5, <2>8, <4>1, <4>2, <5>1
      <4>3. CASE ~(i < m)
        <5> DEFINE j == i - Len(a)
        <5>1. ~(i <= Len(a)) /\ j \in 1 .. (Len(s) - m) /\ j + m = i + 1
          BY <1>0, <2>4, <2>5, <4>3
        <5>2. r[i] = b[j]
          BY <2>8, <4>1, <5>1
        <5> HIDE DEF j
        <5>3. b[j] = s[i + 1]
          BY <2>6, <5>1
        <5>4. QED
          BY <4>3, <5>2, <5>3
      <4>4. QED
        BY <4>2, <4>3
    <3>4. QED
      BY <3>1, <3>2, <3>3
  <2>10. IsInjective(r)
    <3>1. SUFFICES ASSUME NEW i \in 1 .. (Len(s) - 1), NEW j \in 1 .. (Len(s) - 1), r[i] = r[j] PROVE i = j
      BY <2>9 DEF IsInjective
    <3> DEFINE at(n) == IF n < m THEN n ELSE n + 1
    <3>2. at(i) \in 1 .. Len(s) /\ at(j) \in 1 .. Len(s)
      BY <1>0, <2>4
    <3>3. r[i] = s[at(i)] /\ r[j] = s[at(j)]
      BY <2>9
    <3>4. at(i) = at(j)
      <4> HIDE DEF at
      <4> QED
        BY <1>0, <3>1, <3>2, <3>3 DEF IsInjective
    <3>5. QED
      BY <1>0, <2>4, <3>4
  <2>11. Range(r) = Range(s) \ {k}
    <3>1. ASSUME NEW x \in Range(r) PROVE x \in Range(s) \ {k}
      BY <1>0, <2>4, <2>9, <3>1 DEF Range, IsInjective
    <3>2. ASSUME NEW x \in Range(s) \ {k} PROVE x \in Range(r)
      <4>1. PICK i \in 1 .. Len(s) : s[i] = x /\ i # m
        BY <1>0, <2>4 DEF Range
      <4>2. CASE i < m
        BY <1>0, <2>4, <2>9, <4>1, <4>2 DEF Range
      <4>3. CASE i > m
        <5>1. i - 1 \in 1 .. (Len(s) - 1) /\ ~(i - 1 < m) /\ (i - 1) + 1 = i
          BY <1>0, <2>4, <4>3
        <5>2. r[i - 1] = x
          BY <2>9, <4>1, <5>1
        <5>3. QED
          BY <2>9, <5>1, <5>2 DEF Range
      <4>4. QED
        BY <1>0, <2>4, <4>1, <4>2, <4>3
    <3>3. QED
      BY <3>1, <3>2
  <2>12. QED
    BY <2>3, <2>7, <2>10, <2>11 DEF r
<1>3. QED
  BY <1>1, <1>2

LEMMA SeqAppend ==
  ASSUME NEW S, NEW s \in Seq(S), IsInjective(s), NEW k \in S, k \notin Range(s)
  PROVE  /\ Append(s, k) \in Seq(S) /\ IsInjective(Append(s, k))
         /\ Range(Append(s, k)) = Range(s) \cup {k}
<1> DEFINE r == Append(s, k)
<1>0. Len(s) \in Nat /\ DOMAIN s = 1 .. Len(s)
  BY LenProperties
<1>1. /\ r \in Seq(S) /\ Len(r) = Len(s) + 1 /\ r[Len(s) + 1] = k
      /\ \A i \in 1 .. Len(s) : r[i] = s[i]
  BY AppendProperties
<1>2. DOMAIN r = 1 .. (Len(s) + 1)
  BY <1>1, LenProperties
<1> HIDE DEF r
<1>3. IsInjective(r)
  BY <1>0, <1>1, <1>2 DEF IsInjective, Range
<1>4. Range(r) = Range(s) \cup {k}
  <2>1. ASSUME NEW x \in Range(r) PROVE x \in Range(s) \cup {k}
    BY <1>0, <1>1, <1>2, <2>1 DEF Range
  <2>2. ASSUME NEW x \in Range(s) \cup {k} PROVE x \in Range(r)
    BY <1>0, <1>1, <1>2, <2>2 DEF Range
  <2>3. QED
    BY <2>1, <2>2
<1>5. QED
  BY <1>1, <1>3, <1>4 DEF r

LEMMA SeqSplit ==
  ASSUME NEW S, NEW s \in Seq(S), IsInjective(s), NEW n \in 0 .. Len(s)
  PROVE  /\ SubSeq(s, n + 1, Len(s)) \in Seq(S) /\ IsInjective(SubSeq(s, n + 1, Len(s)))
         /\ Range(SubSeq(s, 1, n)) \cup Range(SubSeq(s, n + 1, Len(s))) = Range(s)
         /\ Range(SubSeq(s, 1, n)) \cap Range(SubSeq(s, n + 1, Len(s))) = {}
<1> DEFINE a == SubSeq(s, 1, n)
           b == SubSeq(s, n + 1, Len(s))
<1>0. /\ Len(s) \in Nat /\ n \in Nat /\ n <= Len(s)
      /\ DOMAIN s = 1 .. Len(s) /\ \A i \in 1 .. Len(s) : s[i] \in S
  BY LenProperties
<1>1. a \in Seq(S) /\ DOMAIN a = 1 .. n /\ \A i \in 1 .. n : a[i] = s[i]
  <2>1. 1 <= n + 1 /\ n + 1 - 1 = n /\ 1 \in Nat \ {0}
    BY <1>0
  <2>2. /\ a \in Seq(S) /\ DOMAIN a = 1 .. (n + 1 - 1)
        /\ \A i \in 1 .. (n + 1 - 1) : a[i] = s[i + (1 - 1)]
    BY <1>0, <2>1, SubSeqFacts
  <2> HIDE DEF a
  <2>3. QED
    BY <1>0, <2>1, <2>2
<1>2. /\ b \in Seq(S) /\ DOMAIN b = 1 .. (Len(s) - n)
      /\ \A i \in 1 .. (Len(s) - n) : b[i] = s[i + n]
  <2>1. n + 1 <= Len(s) + 1 /\ n + 1 \in Nat \ {0} /\ (Len(s) + 1) - (n + 1) = Len(s) - n /\ (n + 1) - 1 = n
    BY <1>0
  <2>2. /\ b \in Seq(S) /\ DOMAIN b = 1 .. ((Len(s) + 1) - (n + 1))
        /\ \A i \in 1 .. ((Len(s) + 1) - (n + 1)) : b[i] = s[i + ((n + 1) - 1)]
    BY <1>0, <2>1, SubSeqFacts
  <2> HIDE DEF b
  <2>3. QED
    BY <2>1, <2>2
<1> HIDE DEF a, b
<1>4. IsInjective(b)
  <2>1. SUFFICES ASSUME NEW i \in 1 .. (Len(s) - n), NEW j \in 1 .. (Len(s) - n), b[i] = b[j] PROVE i = j
    BY <1>2 DEF IsInjective
  <2>2. i + n \in 1 .. Len(s) /\ j + n \in 1 .. Len(s) /\ s[i + n] = s[j + n]
    BY <1>0, <1>2, <2>1
  <2>3. i + n = j + n
    BY <1>0, <2>2 DEF IsInjective
  <2>4. QED
    BY <1>0, <2>3
<1>5. \A x : x \in Range(a) <=> \E i \in 1 .. n : s[i] = x
  BY <1>1 DEF Range
<1>6. \A x : x \in Range(b) <=> \E i \in n + 1 .. Len(s) : s[i] = x
  <2>1. ASSUME NEW x \in Range(b) PROVE \E i \in n + 1 .. Len(s) : s[i] = x
    BY <1>0, <1>2, <2>1 DEF Range
  <2>2. ASSUME NEW i \in n + 1 .. Len(s) PROVE s[i] \in Range(b)
    <3>1. i - n \in 1 .. (Len(s) - n) /\ (i - n) + n = i
      BY <1>0
    <3>2. b[i - n] = s[i]
      BY <1>2, <3>1
    <3>3. QED
      BY <1>2, <3>1, <3>2 DEF Range
  <2>3. QED
    BY <2>1, <2>2
<1>7. \A x : x \in Range(s) <=> \E i \in 1 .. Len(s) : s[i] = x
  BY <1>0 DEF Range
<1>8. Range(a) \cup Range(b) = Range(s)
  BY <1>0, <1>5, <1>6, <1>7
<1>9. Range(a) \cap Range(b) = {}
  BY <1>0, <1>5, <1>6 DEF IsInjective
<1>10. QED
  BY <1>2, <1>4, <1>8, <1>9 DEF a, b

-----------------------------------------------------------------------------
(* Channels *)

(* What appending and taking the head do to the elements of a channel. *)
LEMMA AppendRange ==
  ASSUME NEW S, NEW s \in Seq(S), NEW e \in S
  PROVE  Append(s, e) \in Seq(S) /\ Range(Append(s, e)) = Range(s) \cup {e}
<1>1. /\ Append(s, e) \in Seq(S) /\ Len(Append(s, e)) = Len(s) + 1
      /\ \A i \in 1..Len(s) : Append(s, e)[i] = s[i]
      /\ Append(s, e)[Len(s) + 1] = e
      /\ Len(s) \in Nat /\ DOMAIN s = 1..Len(s)
      /\ DOMAIN Append(s, e) = 1..(Len(s) + 1)
  OBVIOUS
<1>2. 1..(Len(s) + 1) = 1..Len(s) \cup {Len(s) + 1}
  BY <1>1
<1>3. QED
  BY <1>1, <1>2 DEF Range

(* Nothing but the head leaves a queue. *)
LEMMA TailRange ==
  ASSUME NEW S, NEW s \in Seq(S), s # <<>>
  PROVE  /\ Head(s) \in S /\ Tail(s) \in Seq(S)
         /\ Range(s) = Range(Tail(s)) \cup {Head(s)}
<1>1. /\ Len(s) \in Nat \ {0} /\ DOMAIN s = 1..Len(s)
      /\ Head(s) = s[1] /\ Head(s) \in S
      /\ Tail(s) \in Seq(S) /\ Len(Tail(s)) = Len(s) - 1
      /\ DOMAIN Tail(s) = 1..(Len(s) - 1)
      /\ \A i \in 1..(Len(s) - 1) : Tail(s)[i] = s[i + 1]
  OBVIOUS
<1>2. \A i \in 1..Len(s) : i = 1 \/ (i - 1 \in 1..(Len(s) - 1) /\ s[i] = Tail(s)[i - 1])
  BY <1>1
<1>3. \A i \in 1..(Len(s) - 1) : i + 1 \in 1..Len(s)
  BY <1>1
<1>4. ASSUME NEW x \in Range(s) PROVE x \in Range(Tail(s)) \cup {Head(s)}
  <2>1. PICK i \in 1..Len(s) : x = s[i]
    BY <1>1, <1>4 DEF Range
  <2>2. CASE i = 1
    BY <1>1, <2>1, <2>2
  <2>3. CASE i # 1
    <3>1. i - 1 \in DOMAIN Tail(s) /\ x = Tail(s)[i - 1]
      BY <1>1, <1>2, <2>1, <2>3
    <3>2. QED
      BY <3>1 DEF Range
  <2>4. QED
    BY <2>2, <2>3
<1>5. Range(Tail(s)) \cup {Head(s)} \subseteq Range(s)
  BY <1>1, <1>3 DEF Range
<1>6. QED
  BY <1>1, <1>4, <1>5

Positions(s, e) == {i \in DOMAIN s : s[i] = e}

(* How often an element occurs, once another one is appended. *)
LEMMA CountAppend ==
  ASSUME NEW S, NEW s \in Seq(S), NEW x \in S, NEW e
  PROVE  /\ Cardinality(Positions(s, e)) \in Nat
         /\ x = e => Cardinality(Positions(Append(s, x), e)) = Cardinality(Positions(s, e)) + 1
         /\ x # e => Cardinality(Positions(Append(s, x), e)) = Cardinality(Positions(s, e))
<1> DEFINE r == Append(s, x)
           n == Len(s)
<1>1. /\ n \in Nat /\ DOMAIN s = 1 .. n /\ DOMAIN r = 1 .. (n + 1)
      /\ r[n + 1] = x /\ \A i \in 1 .. n : r[i] = s[i]
  OBVIOUS
<1> HIDE DEF r, n
<1>2. IsFiniteSet(1 .. n)
  BY <1>1, FS_Interval
<1>3. IsFiniteSet(Positions(s, e)) /\ n + 1 \notin Positions(s, e)
  <2>1. Positions(s, e) \in SUBSET (1 .. n)
    BY <1>1 DEF Positions
  <2>2. QED
    BY <1>1, <1>2, <2>1, FS_Subset
<1>4. x = e => Positions(r, e) = Positions(s, e) \cup {n + 1}
  BY <1>1 DEF Positions
<1>5. x # e => Positions(r, e) = Positions(s, e)
  BY <1>1 DEF Positions
<1>6. Cardinality(Positions(s, e) \cup {n + 1}) = Cardinality(Positions(s, e)) + 1
  BY <1>3, FS_AddElement
<1>7. Cardinality(Positions(s, e)) \in Nat
  BY <1>3, FS_CardinalityType
<1>8. QED
  BY <1>4, <1>5, <1>6, <1>7 DEF r

-----------------------------------------------------------------------------
(* Folds over sequences *)

(* What holds at 0 and passes from each number to the next holds up to n; G is *)
(* the set of the numbers for which it holds.                                  *)
LEMMA UpTo ==
  ASSUME NEW n \in Nat, NEW G, 0 \in G, \A k \in 1..n : k - 1 \in G => k \in G
  PROVE  \A k \in 0..n : k \in G
<1> DEFINE Bad == {k \in 0..n : k \notin G}
<1> SUFFICES ASSUME Bad # {} PROVE FALSE
  OBVIOUS
<1>1. Bad \subseteq Nat /\ \A k \in Bad : k \in 0..n /\ k \notin G
  OBVIOUS
<1>2. \A k \in 0..n : k \notin G => k \in Bad
  OBVIOUS
<1> HIDE DEF Bad
<1>3. PICK m \in Bad : \A k \in Bad : m <= k
  BY <1>1, MinOfNats
<1>4. m \in 1..n /\ m - 1 \in 0..n
  BY <1>1, <1>3
<1>5. m - 1 \in G
  BY <1>2, <1>3, <1>4
<1>6. QED
  BY <1>1, <1>3, <1>4, <1>5

(* The element that FoldLeft adds last. *)
LEMMA MaxIn ==
  ASSUME NEW n \in Nat, NEW s \in SUBSET (1..n), s # {}
  PROVE  Max(s) \in s
<1> DEFINE up == {n - x : x \in s}
<1>1. up \subseteq Nat /\ up # {}
  <2>1. PICK x \in s : TRUE
    OBVIOUS
  <2>2. n - x \in up
    OBVIOUS
  <2>3. QED
    BY <2>2
<1>2. PICK m \in up : \A y \in up : m <= y
  <2> HIDE DEF up
  <2> QED BY <1>1, MinOfNats
<1>3. PICK x \in s : m = n - x
  OBVIOUS
<1>4. \A y \in s : x >= y
  <2> TAKE y \in s
  <2>1. n - y \in up
    OBVIOUS
  <2>2. m <= n - y
    BY <1>2, <2>1
  <2>3. QED
    BY <1>3, <2>2
<1>5. QED
  BY <1>4 DEF Max

LEMMA MaxUpTo ==
  ASSUME NEW n \in Nat, NEW k \in 1..n
  PROVE  /\ 1..k \in SUBSET (1..n) /\ 1..k # {}
         /\ Max(1..k) = k /\ (1..k) \ {k} = 1..(k - 1)
<1>1. k \in 1..k /\ \A y \in 1..k : k >= y
  OBVIOUS
<1>2. \A x \in 1..k : (\A y \in 1..k : x >= y) => x = k
  OBVIOUS
<1>3. Max(1..k) = k
  BY <1>1, <1>2, Zenon DEF Max
<1>4. (1..k) \ {k} = 1..(k - 1) /\ 1..k \in SUBSET (1..n)
  OBVIOUS
<1>5. QED
  BY <1>1, <1>3, <1>4

(* A table of the folds over the sets in D; st[s, v] is what the element Max(s) *)
(* makes of the result v for the others.                                        *)
IsFold(st, base, it, D) ==
  it = [s \in D |-> IF s = {} THEN base ELSE st[<<s, it[s \ {Max(s)}]>>]]

(* There is such a table: level by level, from the empty set up. *)
LEMMA FoldTableExists ==
  ASSUME NEW n \in Nat, NEW V, NEW base \in V,
         NEW st \in [(SUBSET (1..n)) \X V -> V]
  PROVE  \E it \in [SUBSET (1..n) -> V] : IsFold(st, base, it, SUBSET (1..n))
<1> DEFINE Level(k) == {s \in SUBSET (1..n) : Cardinality(s) <= k}
           Good == {k \in 0..n : \E it \in [Level(k) -> V] : IsFold(st, base, it, Level(k))}
<1>0. \A s \in SUBSET (1..n) : IsFiniteSet(s) /\ Cardinality(s) \in Nat /\ Cardinality(s) <= n
  <2>1. IsFiniteSet(1..n) /\ Cardinality(1..n) = n
    BY FS_Interval
  <2>2. QED
    BY <2>1, FS_Subset, FS_CardinalityType
<1>1. 0 \in Good
  <2>1. Level(0) = {{}}
    <3>1. Cardinality({}) = 0 /\ {} \in SUBSET (1..n)
      BY FS_EmptySet
    <3>2. \A s \in SUBSET (1..n) : Cardinality(s) <= 0 => s = {}
      BY <1>0, FS_EmptySet
    <3>3. QED
      BY <3>1, <3>2
  <2>2. IsFold(st, base, [s \in {{}} |-> base], {{}}) /\ [s \in {{}} |-> base] \in [{{}} -> V]
    BY DEF IsFold
  <2>3. \E it \in [Level(0) -> V] : IsFold(st, base, it, Level(0))
    BY <2>1, <2>2, Zenon
  <2>4. 0 \in 0..n
    OBVIOUS
  <2>5. QED
    <3> HIDE DEF Level
    <3> QED BY <2>3, <2>4
<1>2. ASSUME NEW k \in 1..n, k - 1 \in Good PROVE k \in Good
  <2>1. PICK g \in [Level(k - 1) -> V] : IsFold(st, base, g, Level(k - 1))
    BY <1>2
  <2> DEFINE h == [s \in Level(k) |-> IF s = {} THEN base ELSE st[<<s, g[s \ {Max(s)}]>>]]
  <2>2. ASSUME NEW s \in Level(k), s # {} PROVE s \ {Max(s)} \in Level(k - 1)
    <3>0. s \in SUBSET (1..n)
      OBVIOUS
    <3>1. Max(s) \in s
      BY <2>2, <3>0, MaxIn
    <3>2. Cardinality(s \ {Max(s)}) = Cardinality(s) - 1
      BY <1>0, <3>1, FS_RemoveElement
    <3>3. s \ {Max(s)} \in SUBSET (1..n) /\ Cardinality(s) <= k /\ Cardinality(s) \in Nat
      BY <1>0, <3>0
    <3>4. Cardinality(s \ {Max(s)}) <= k - 1
      BY <3>2, <3>3
    <3>5. QED
      BY <3>3, <3>4
  <2>3. \A s \in Level(k - 1) : s \in Level(k) /\ h[s] = g[s]
    <3>1. \A s \in Level(k - 1) : s \in Level(k)
      BY <1>0
    <3> HIDE DEF Level
    <3>2. QED
      BY <2>1, <3>1 DEF IsFold
  <2>4. h \in [Level(k) -> V]
    <3>1. \A s \in Level(k) : s \in SUBSET (1..n)
      OBVIOUS
    <3> HIDE DEF Level
    <3>2. \A s \in Level(k) : s # {} => st[<<s, g[s \ {Max(s)}]>>] \in V
      BY <2>1, <2>2, <3>1
    <3>3. QED
      BY <3>2
  <2>5. IsFold(st, base, h, Level(k))
    <3> HIDE DEF Level
    <3>1. \A s \in Level(k) : s # {} => h[s \ {Max(s)}] = g[s \ {Max(s)}]
      BY <2>2, <2>3
    <3>2. QED
      BY <3>1 DEF IsFold
  <2>6. QED
    <3> HIDE DEF Level, h
    <3> QED BY <2>4, <2>5
<1>3. n \in Good
  <2> HIDE DEF Good
  <2> QED BY <1>1, <1>2, UpTo
<1>4. Level(n) = SUBSET (1..n)
  BY <1>0
<1>5. QED
  BY <1>3, <1>4

=============================================================================
