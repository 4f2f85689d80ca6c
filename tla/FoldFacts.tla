----------------------------- MODULE FoldFacts -----------------------------
(***************************************************************************)
(* What a fold from the left computes, for any operator Op: the facts that *)
(* the proofs about FoldLeft instantiate with the operator they are about. *)
(* It is kept apart from DataLemmas, so that an instance brings nothing    *)
(* else with it.                                                           *)
(***************************************************************************)
EXTENDS Integers, Sequences, WellFoundedInduction, TLAPS

CONSTANT Op(_, _)

Top(d) == CHOOSE x \in d : \A y \in d : x >= y

(* The table of results for the sets of positions in D, as FoldLeft defines it. *)
IsTable(b, s, it, D) ==
  it = [d \in D |-> IF d = {} THEN b ELSE Op(it[d \ {Top(d)}], s[Top(d)])]

Table(b, s) == CHOOSE it : IsTable(b, s, it, SUBSET (DOMAIN s))

(* The definition of FoldLeft(Op, b, s), unfolded. *)
Run(b, s) == Table(b, s)[DOMAIN s]

LEMMA LeastNat ==
  ASSUME NEW N, N \subseteq Nat, N # {}
  PROVE  \E m \in N : \A k \in N : m <= k
<1> DEFINE R == OpToRel(<, Nat)
<1>1. IsWellFoundedOn(R, Nat)
  BY NatLessThanWellFounded, Zenon
<1>2. \A x, y \in Nat : x < y => <<x, y>> \in R
  BY DEF OpToRel
<1> HIDE DEF R
<1>3. PICK m \in N : \A k \in N : ~(<<k, m>> \in R)
  BY <1>1, WFMin
<1>4. ASSUME NEW k \in N PROVE m <= k
  <2>1. ~(k < m)
    BY <1>2, <1>3
  <2>2. k \in Nat /\ m \in Nat
    OBVIOUS
  <2>3. QED
    BY <2>1, <2>2
<1>5. QED
  BY <1>4

(* Induction up to n, for a set G. *)
LEMMA UpTo ==
  ASSUME NEW n \in Nat, NEW G, 0 \in G, \A k \in 1..n : k - 1 \in G => k \in G
  PROVE  \A k \in 0..n : k \in G
<1> DEFINE Bad == {k \in 0..n : k \notin G}
<1> SUFFICES ASSUME Bad # {} PROVE FALSE
  OBVIOUS
<1>1. Bad \subseteq Nat /\ \A k \in Bad : k \in 0..n /\ k \notin G
  OBVIOUS
<1>2. \A k \in 0..n : k \notin G => k \in Bad
  OBVIOUS
<1> HIDE DEF Bad
<1>3. PICK m \in Bad : \A k \in Bad : m <= k
  BY <1>1, LeastNat
<1>4. m \in 1..n /\ m - 1 \in 0..n
  BY <1>1, <1>3
<1>5. m - 1 \in G
  BY <1>2, <1>3, <1>4
<1>6. QED
  BY <1>1, <1>3, <1>4, <1>5

(* The element that is added last. *)
LEMMA TopIn ==
  ASSUME NEW n \in Nat, NEW d \in SUBSET (1..n), d # {}
  PROVE  Top(d) \in d /\ \A y \in d : Top(d) >= y
<1> DEFINE N == {n - x : x \in d}
<1>1. \A y \in d : y \in Int /\ n - y \in Nat
  OBVIOUS
<1>2. \A y \in d : n - y \in N
  BY Zenon
<1>3. N \subseteq Nat
  BY <1>1, Zenon
<1>4. \A m \in N : \E x \in d : m = n - x
  BY Zenon
<1> HIDE DEF N
<1>5. PICK m \in N : \A k \in N : m <= k
  <2>1. N # {}
    BY <1>2, Zenon
  <2>2. QED
    BY <1>3, <2>1, LeastNat
<1>6. PICK x \in d : m = n - x
  BY <1>4
<1>7. ASSUME NEW y \in d PROVE x >= y
  <2>1. m <= n - y
    BY <1>2, <1>5, Zenon
  <2>2. x \in Int /\ y \in Int
    BY <1>1
  <2>3. QED
    BY <1>6, <2>1, <2>2
<1>8. QED
  BY <1>7, Zenon DEF Top

LEMMA TopUpTo ==
  ASSUME NEW n \in Nat, NEW k \in 1..n
  PROVE  /\ 1..k \in SUBSET (1..n) /\ 1..k # {}
         /\ Top(1..k) = k /\ (1..k) \ {k} = 1..(k - 1)
<1>1. k \in 1..k /\ \A y \in 1..k : k >= y
  OBVIOUS
<1>2. \A x \in 1..k : (\A y \in 1..k : x >= y) => x = k
  OBVIOUS
<1>3. Top(1..k) = k
  BY <1>1, <1>2, Zenon DEF Top
<1>4. (1..k) \ {k} = 1..(k - 1) /\ 1..k \in SUBSET (1..n)
  OBVIOUS
<1>5. QED
  BY <1>1, <1>3, <1>4

LEMMA SameSeq ==
  ASSUME NEW S, NEW s \in Seq(S), NEW t \in Seq(S), Len(s) = Len(t), \A i \in 1..Len(s) : s[i] = t[i]
  PROVE  s = t
OBVIOUS

(* There is such a table: for the subsets of 1..k, from k = 0 up. *)
LEMMA TableExists ==
  ASSUME NEW n \in Nat, NEW b, NEW s
  PROVE  \E it : IsTable(b, s, it, SUBSET (1..n))
<1> DEFINE Level(k) == SUBSET (1..k)
           Good == {k \in 0..n : \E it : IsTable(b, s, it, Level(k))}
<1>1. 0 \in Good
  <2>1. Level(0) = {{}} /\ 0 \in 0..n
    OBVIOUS
  <2>2. IsTable(b, s, [d \in {{}} |-> b], {{}})
    BY DEF IsTable
  <2>3. \E it : IsTable(b, s, it, Level(0))
    BY <2>1, <2>2, Zenon
  <2>4. QED
    <3> HIDE DEF Level
    <3> QED BY <2>1, <2>3
<1>2. ASSUME NEW k \in 1..n, k - 1 \in Good PROVE k \in Good
  <2>1. PICK g : IsTable(b, s, g, Level(k - 1))
    BY <1>2
  <2> DEFINE h == [d \in Level(k) |-> IF d = {} THEN b ELSE Op(g[d \ {Top(d)}], s[Top(d)])]
  <2>2. ASSUME NEW d \in Level(k), d # {} PROVE d \ {Top(d)} \in Level(k - 1)
    <3>1. Top(d) \in d /\ \A y \in d : Top(d) >= y
      <4>1. k \in Nat /\ d \in SUBSET (1..k)
        OBVIOUS
      <4>2. QED
        BY <2>2, <4>1, TopIn
    <3> DEFINE x == Top(d)
    <3> HIDE DEF x
    <3>2. x \in 1..k
      BY <3>1 DEF x
    <3>3. ASSUME NEW y \in d, y # x PROVE y \in 1..(k - 1)
      <4>1. y \in 1..k /\ x >= y
        BY <3>1 DEF x
      <4>2. QED
        BY <3>2, <3>3, <4>1
    <3>4. d \ {x} \subseteq 1..(k - 1)
      BY <3>3
    <3>5. QED
      BY <3>4 DEF x
  <2>3. \A d \in Level(k - 1) : d \in Level(k)
    OBVIOUS
  <2> HIDE DEF Level
  <2>4. \A d \in Level(k - 1) : h[d] = g[d]
    BY <2>1, <2>3 DEF IsTable
  <2>5. IsTable(b, s, h, Level(k))
    <3>1. \A d \in Level(k) : d # {} => h[d \ {Top(d)}] = g[d \ {Top(d)}]
      BY <2>2, <2>4
    <3>2. QED
      BY <3>1 DEF IsTable
  <2>6. k \in 0..n
    OBVIOUS
  <2>7. QED
    <3> HIDE DEF h
    <3> QED BY <2>5, <2>6
<1>3. n \in Good
  <2> HIDE DEF Good
  <2> QED BY <1>1, <1>2, UpTo
<1>4. QED
  BY <1>3

(* The results for the first k elements, k = 0 .. n. *)
Results(b, s, n) == [k \in 0..n |-> Table(b, s)[1..k]]

LEMMA ResultsAre ==
  ASSUME NEW n \in Nat, NEW b, NEW s, DOMAIN s = 1..n
  PROVE  /\ Results(b, s, n)[0] = b
         /\ \A k \in 1..n : Results(b, s, n)[k] = Op(Results(b, s, n)[k - 1], s[k])
         /\ Run(b, s) = Results(b, s, n)[n]
<1>1. IsTable(b, s, Table(b, s), SUBSET (1..n))
  BY TableExists, Zenon DEF Table
<1>2. 0 \in 0..n /\ n \in 0..n /\ 1..0 = {} /\ {} \in SUBSET (1..n)
  OBVIOUS
<1>3. Results(b, s, n)[0] = b
  BY <1>1, <1>2 DEF IsTable, Results
<1>4. ASSUME NEW k \in 1..n
      PROVE  Results(b, s, n)[k] = Op(Results(b, s, n)[k - 1], s[k])
  <2>1. 1..k \in SUBSET (1..n) /\ 1..k # {} /\ Top(1..k) = k /\ (1..k) \ {k} = 1..(k - 1)
    BY TopUpTo
  <2>2. Table(b, s)[1..k] = Op(Table(b, s)[1..(k - 1)], s[k])
    BY <1>1, <2>1 DEF IsTable
  <2>3. k \in 0..n /\ k - 1 \in 0..n
    OBVIOUS
  <2>4. QED
    BY <2>2, <2>3 DEF Results
<1>5. Run(b, s) = Results(b, s, n)[n]
  BY <1>2 DEF Results, Run
<1>6. QED
  BY <1>3, <1>4, <1>5

(* Nothing happens to the result without elements. *)
LEMMA RunEmpty == ASSUME NEW b PROVE Run(b, <<>>) = b
<1>1. DOMAIN <<>> = 1..0 /\ 0 \in Nat
  OBVIOUS
<1>2. QED
  BY <1>1, ResultsAre

(* The last element is applied last. *)
LEMMA RunAppend ==
  ASSUME NEW A, NEW s \in Seq(A), NEW a \in A, NEW b
  PROVE  Run(b, Append(s, a)) = Op(Run(b, s), a)
<1> DEFINE n == Len(s)
           t == Append(s, a)
           G == {k \in 0..n : Results(b, s, n)[k] = Results(b, t, n + 1)[k]}
<1>1. /\ n \in Nat /\ n + 1 \in Nat /\ DOMAIN s = 1..n /\ DOMAIN t = 1..(n + 1)
      /\ \A k \in 1..n : t[k] = s[k]
      /\ t[n + 1] = a
  OBVIOUS
<1> HIDE DEF n, t
<1>2. /\ Results(b, s, n)[0] = b
      /\ \A k \in 1..n : Results(b, s, n)[k] = Op(Results(b, s, n)[k - 1], s[k])
      /\ Run(b, s) = Results(b, s, n)[n]
  BY <1>1, ResultsAre
<1>3. /\ Results(b, t, n + 1)[0] = b
      /\ \A k \in 1..(n + 1) : Results(b, t, n + 1)[k] = Op(Results(b, t, n + 1)[k - 1], t[k])
      /\ Run(b, t) = Results(b, t, n + 1)[n + 1]
  BY <1>1, ResultsAre
<1>4. 0 \in G
  BY <1>1, <1>2, <1>3
<1>5. ASSUME NEW k \in 1..n, k - 1 \in G PROVE k \in G
  <2>1. k \in 1..(n + 1) /\ t[k] = s[k] /\ k \in 0..n
    BY <1>1
  <2>2. Results(b, s, n)[k - 1] = Results(b, t, n + 1)[k - 1]
    BY <1>5
  <2>3. QED
    BY <1>2, <1>3, <2>1, <2>2
<1>6. n \in G
  <2>1. n \in 0..n
    BY <1>1
  <2> HIDE DEF G
  <2>2. QED
    BY <1>1, <1>4, <1>5, <2>1, UpTo
<1>7. n + 1 \in 1..(n + 1) /\ (n + 1) - 1 = n
  BY <1>1
<1>8. Run(b, t) = Op(Results(b, t, n + 1)[n], a)
  BY <1>1, <1>3, <1>7
<1>9. QED
  BY <1>2, <1>6, <1>8 DEF t

(* A property that every element preserves holds of the result; V is the set of *)
(* the values that have it.                                                     *)
LEMMA RunKeeps ==
  ASSUME NEW A, NEW s \in Seq(A), NEW V, NEW b \in V, \A v \in V, a \in A : Op(v, a) \in V
  PROVE  Run(b, s) \in V
<1> DEFINE n == Len(s)
           G == {k \in 0..n : Results(b, s, n)[k] \in V}
<1>1. n \in Nat /\ DOMAIN s = 1..n /\ \A k \in 1..n : s[k] \in A
  OBVIOUS
<1> HIDE DEF n
<1>2. /\ Results(b, s, n)[0] = b
      /\ \A k \in 1..n : Results(b, s, n)[k] = Op(Results(b, s, n)[k - 1], s[k])
      /\ Run(b, s) = Results(b, s, n)[n]
  BY <1>1, ResultsAre
<1>3. 0 \in G
  BY <1>1, <1>2
<1>4. ASSUME NEW k \in 1..n, k - 1 \in G PROVE k \in G
  <2>1. k \in 0..n /\ s[k] \in A /\ Results(b, s, n)[k - 1] \in V
    BY <1>1, <1>4
  <2>2. QED
    BY <1>2, <2>1
<1>5. n \in G
  <2>1. n \in 0..n
    BY <1>1
  <2> HIDE DEF G
  <2>2. QED
    BY <1>1, <1>3, <1>4, <2>1, UpTo
<1>6. QED
  BY <1>2, <1>5

LEMMA RunOne == ASSUME NEW a, NEW b PROVE Run(b, <<a>>) = Op(b, a)
<1>1. <<>> \in Seq({a}) /\ Append(<<>>, a) = <<a>>
  OBVIOUS
<1>2. Run(b, Append(<<>>, a)) = Op(Run(b, <<>>), a)
  BY <1>1, RunAppend
<1>3. QED
  BY <1>1, <1>2, RunEmpty

LEMMA RunTwo == ASSUME NEW a, NEW c, NEW b PROVE Run(b, <<a, c>>) = Op(Op(b, a), c)
<1>1. <<a>> \in Seq({a, c}) /\ Append(<<a>>, c) = <<a, c>> /\ c \in {a, c}
  <2> DEFINE S == {a, c}
  <2>1. a \in S /\ c \in S
    OBVIOUS
  <2> HIDE DEF S
  <2>2. <<a>> \in Seq(S) /\ <<a, c>> \in Seq(S)
    BY <2>1
  <2>3. Append(<<a>>, c) \in Seq(S)
    BY <2>1, <2>2
  <2>4. Len(Append(<<a>>, c)) = Len(<<a, c>>)
    BY <2>1, <2>2
  <2>5. \A i \in 1..2 : Append(<<a>>, c)[i] = <<a, c>>[i]
    BY <2>1, <2>2
  <2>6. Append(<<a>>, c) = <<a, c>>
    BY <2>2, <2>3, <2>4, <2>5, SameSeq
  <2>7. QED
    BY <2>1, <2>2, <2>6 DEF S
<1>2. Run(b, Append(<<a>>, c)) = Op(Run(b, <<a>>), c)
  BY <1>1, RunAppend
<1>3. QED
  BY <1>1, <1>2, RunOne

(* A sequence in two parts is folded part by part. *)
LEMMA RunConcat ==
  ASSUME NEW A, NEW s \in Seq(A), NEW t \in Seq(A), NEW b
  PROVE  Run(b, s \o t) = Run(Run(b, s), t)
<1> DEFINE n == Len(t)
           pre(k) == SubSeq(t, 1, k)
           G == {k \in 0..n : Run(b, s \o pre(k)) = Run(Run(b, s), pre(k))}
<1>1. n \in Nat /\ \A k \in 0..n : pre(k) \in Seq(A)
  OBVIOUS
<1>2. pre(0) = <<>> /\ s \o <<>> = s /\ pre(n) = t
  OBVIOUS
<1>3. 0 \in G
  <2>1. 0 \in 0..n /\ s \o pre(0) = s
    BY <1>1, <1>2
  <2> HIDE DEF pre
  <2>2. Run(b, s \o pre(0)) = Run(Run(b, s), pre(0))
    BY <1>2, <2>1, RunEmpty
  <2>3. QED
    BY <2>1, <2>2
<1>4. ASSUME NEW k \in 1..n, k - 1 \in G PROVE k \in G
  <2>1. t[k] \in A /\ pre(k - 1) \in Seq(A) /\ k \in 0..n
    OBVIOUS
  <2>2. pre(k) = Append(pre(k - 1), t[k])
    OBVIOUS
  <2>3. s \o pre(k) = Append(s \o pre(k - 1), t[k]) /\ s \o pre(k - 1) \in Seq(A)
    <3> HIDE DEF pre
    <3> QED BY <2>1, <2>2
  <2>4. Run(b, s \o pre(k - 1)) = Run(Run(b, s), pre(k - 1))
    BY <1>4
  <2> HIDE DEF pre
  <2>5. Run(b, s \o pre(k)) = Op(Run(b, s \o pre(k - 1)), t[k])
    BY <2>1, <2>3, RunAppend
  <2>6. Run(Run(b, s), pre(k)) = Op(Run(Run(b, s), pre(k - 1)), t[k])
    BY <2>1, <2>2, RunAppend
  <2>7. QED
    BY <2>1, <2>4, <2>5, <2>6
<1>5. n \in G
  <2>1. n \in 0..n
    BY <1>1
  <2> HIDE DEF G
  <2>2. QED
    BY <1>1, <1>3, <1>4, <2>1, UpTo
<1>6. QED
  BY <1>2, <1>5
=============================================================================
