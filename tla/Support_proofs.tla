--------------------------- MODULE Support_proofs ---------------------------
(***************************************************************************)
(* Theorems about the components around the compile service: the object    *)
(* cache, the executors, the hub of the dashboard, what the learning       *)
(* schedulers remember, the circuit breakers and the retry helpers, the    *)
(* search for coordinators and workers, and the Windows services.          *)
(***************************************************************************)
EXTENDS MCSupport, DataLemmas

-----------------------------------------------------------------------------
(***************************************************************************)
(* The object cache, for any number of processes and keys, any sizes and   *)
(* any limit.                                                              *)
(***************************************************************************)

(* The empty list, with which a process starts and ends. *)
LEMMA SeqEmpty == <<>> \in Seq(Keys) /\ IsInjective(<<>>) /\ Range(<<>>) = {}
BY DEF IsInjective, Range

-----------------------------------------------------------------------------
(* Sizes of sets of entries *)

LEMMA SizeFacts ==
  /\ SizeOf({}) = 0
  /\ \A K \in SUBSET Keys : SizeOf(K) \in Nat
  /\ \A K \in SUBSET Keys : \A k \in K : SizeOf(K) = KeySize[k] + SizeOf(K \ {k})
  /\ \A K, L \in SUBSET Keys : K \cap L = {} => SizeOf(K \cup L) = SizeOf(K) + SizeOf(L)
<1>1. \A K \in SUBSET Keys : IsFiniteSet(K)
  BY CacheAssumption, FS_Subset
<1>2. KeySize \in [Keys -> Nat]
  BY CacheAssumption
<1>3. SizeOf({}) = 0
  BY FS_EmptySet, SumStep DEF SizeOf
<1>4. \A K \in SUBSET Keys : SizeOf(K) \in Nat
  BY <1>1, <1>2, SumNat DEF SizeOf
<1>5. ASSUME NEW K \in SUBSET Keys, NEW k \in K PROVE SizeOf(K) = KeySize[k] + SizeOf(K \ {k})
  <2>1. IsFiniteSet(K)
    BY <1>1
  <2>2. SumFunctionOnSet(KeySize, K) = KeySize[k] + SumFunctionOnSet(KeySize, K \ {k})
    BY <1>2, <2>1, SumElement
  <2>3. QED
    BY <2>2 DEF SizeOf
<1>6. \A K, L \in SUBSET Keys : K \cap L = {} => SizeOf(K \cup L) = SizeOf(K) + SizeOf(L)
  BY <1>1, <1>2, SumUnion DEF SizeOf
<1>7. QED
  BY <1>3, <1>4, <1>5, <1>6

(* evictIfNeeded finds how many entries to drop, and leaves no more than   *)
(* the limit.                                                              *)
LEMMA EvictFacts ==
  ASSUME NEW list \in Seq(Keys), IsInjective(list)
  PROVE  /\ EvictCount(list) \in 0 .. Len(list)
         /\ SizeOf(Range(SubSeq(list, EvictCount(list) + 1, Len(list)))) <= MaxSize
<1> DEFINE left(n) == SizeOf(Range(SubSeq(list, n + 1, Len(list))))
           target == (MaxSize * 8) \div 10
           N == {n \in 0 .. Len(list) : left(n) <= target}
<1>0. Len(list) \in Nat /\ MaxSize \in Nat
  BY CacheAssumption, LenProperties
<1>1. target \in Nat /\ target <= MaxSize
  BY <1>0
<1>2. \A n \in 0 .. Len(list) : left(n) \in Nat
  <2>1. \A n \in 0 .. Len(list) : Range(SubSeq(list, n + 1, Len(list))) \in SUBSET Keys
    <3>1. SUFFICES ASSUME NEW n \in 0 .. Len(list)
                   PROVE  SubSeq(list, n + 1, Len(list)) \in Seq(Keys)
      BY RangeOfSeq
    <3>2. QED
      BY SeqSplit
  <2>2. QED
    BY <2>1, SizeFacts
<1>3. left(Len(list)) = 0
  <2>1. SubSeq(list, Len(list) + 1, Len(list)) = <<>>
    BY <1>0, SubSeqEmpty
  <2>2. QED
    BY <2>1, SeqEmpty, SizeFacts
<1> HIDE DEF target
<1>4. Len(list) \in N /\ \A n \in N : n \in 0 .. Len(list) /\ left(n) <= target
  <2>1. left(Len(list)) <= target /\ Len(list) \in 0 .. Len(list)
    BY <1>0, <1>1, <1>3
  <2> HIDE DEF left
  <2>2. QED
    BY <2>1
<1>5. Min(N) \in N
  <2>1. N \subseteq Nat
    BY <1>0
  <2> HIDE DEF N
  <2>2. QED
    BY <1>4, <2>1, MinOfNats
<1>6. EvictCount(list) = IF left(0) <= MaxSize THEN 0 ELSE Min(N)
  BY DEF EvictCount, target
<1>7. CASE left(0) <= MaxSize
  BY <1>0, <1>6, <1>7
<1>8. CASE ~(left(0) <= MaxSize)
  <2>1. EvictCount(list) = Min(N)
    BY <1>6, <1>8
  <2>2. EvictCount(list) \in 0 .. Len(list) /\ left(EvictCount(list)) <= target
    <3> HIDE DEF N, left
    <3> QED
      BY <1>4, <1>5, <2>1
  <2> DEFINE rest == left(EvictCount(list))
  <2>3. rest \in Nat /\ rest <= target
    BY <1>2, <2>2
  <2> HIDE DEF rest
  <2>4. rest <= MaxSize
    BY <1>0, <1>1, <2>3
  <2>5. QED
    BY <2>2, <2>4 DEF rest
<1>9. QED
  BY <1>7, <1>8

-----------------------------------------------------------------------------
(* What a process remembers *)

Places == {"down", "ready", "opened", "bytes", "tmpbytes", "rename", "enter",
           "unlink", "wipe", "save", "index"}

MemShape ==
  /\ cpc \in [Procs -> Places]
  /\ entries \in [Procs -> Seq(Keys)]
  /\ totalSize \in [Procs -> Int]
  /\ arg \in [Procs -> Keys]
  /\ missed \in [Procs -> BOOLEAN]
  /\ index \in [state : {"absent", "empty", "torn", "whole"}, list : Seq(Keys)]
  /\ starts \in 0 .. MaxStarts
  /\ written \subseteq Keys /\ cut \subseteq Keys

(* A list of entries that a process may hold or an index may contain. *)
GoodList(list) ==
  IsInjective(list) /\ Range(list) \subseteq written /\ SizeOf(Range(list)) <= MaxSize

MemInv ==
  /\ MemShape
  /\ GoodList(index.list)
  /\ \A p \in Procs :
       /\ GoodList(entries[p])
       /\ totalSize[p] = SizeOf(Range(entries[p]))
       /\ cpc[p] \in {"rename", "enter"} => arg[p] \in written

(* The part of a process's step that concerns its memory and the index. *)
LEMMA MemUpdate ==
  ASSUME MemInv, NEW p \in Procs, MemShape', written \subseteq written', GoodList(index.list)',
         GoodList(entries[p])', totalSize'[p] = SizeOf(Range(entries'[p])),
         cpc'[p] \in {"rename", "enter"} => arg'[p] \in written',
         \A q \in Procs \ {p} : /\ entries'[q] = entries[q] /\ totalSize'[q] = totalSize[q]
                                /\ cpc'[q] = cpc[q] /\ arg'[q] = arg[q]
  PROVE  MemInv'
<1>1. ASSUME NEW q \in Procs
      PROVE  /\ GoodList(entries[q])' /\ totalSize'[q] = SizeOf(Range(entries'[q]))
             /\ cpc'[q] \in {"rename", "enter"} => arg'[q] \in written'
  BY <1>1 DEF MemInv, GoodList
<1>2. QED
  BY <1>1 DEF MemInv

LEMMA EmptyIsGood == MemInv => GoodList(<<>>)
BY SeqEmpty, SizeFacts, CacheAssumption DEF GoodList

LEMMA KeysExist == (CHOOSE k \in Keys : TRUE) \in Keys
BY CacheAssumption

(* The memory of a process that ends is as good as new. *)
LEMMA EndsMem ==
  ASSUME MemInv, NEW p \in Procs, Ends(p), written \subseteq written', written' \subseteq Keys,
         cut' \subseteq Keys, UNCHANGED starts, GoodList(index.list)',
         index' \in [state : {"absent", "empty", "torn", "whole"}, list : Seq(Keys)]
  PROVE  MemInv'
<1>1. MemShape'
  BY KeysExist, SeqEmpty DEF MemInv, MemShape, Ends, Goto, Places
<1>2. entries'[p] = <<>> /\ totalSize'[p] = 0 /\ cpc'[p] = "down"
  BY DEF MemInv, MemShape, Ends, Goto
<1>3. GoodList(entries[p])' /\ totalSize'[p] = SizeOf(Range(entries'[p]))
  <2>1. SizeOf(Range(<<>>)) = 0 /\ 0 <= MaxSize
    BY SeqEmpty, SizeFacts, CacheAssumption
  <2>2. QED
    BY <1>2, <2>1, SeqEmpty DEF GoodList
<1>4. \A q \in Procs \ {p} : /\ entries'[q] = entries[q] /\ totalSize'[q] = totalSize[q]
                             /\ cpc'[q] = cpc[q] /\ arg'[q] = arg[q]
  BY DEF MemInv, MemShape, Ends, Goto
<1>5. QED
  BY <1>1, <1>2, <1>3, <1>4, MemUpdate

(* A step that leaves the entries alone. *)
LEMMA GotoMem ==
  ASSUME MemInv, NEW p \in Procs, NEW at \in Places, Goto(p, at), UNCHANGED <<cacheMem, cacheCall, starts, cut>>,
         written \subseteq written', written' \subseteq Keys, GoodList(index.list)',
         index' \in [state : {"absent", "empty", "torn", "whole"}, list : Seq(Keys)],
         at \in {"rename", "enter"} => arg[p] \in written'
  PROVE  MemInv'
BY DEF MemInv, MemShape, Goto, cacheMem, cacheCall, GoodList

(* What the entries of a process become when one is dropped. *)
LEMMA Dropped ==
  ASSUME MemInv, NEW p \in Procs, NEW k \in Range(entries[p])
  PROVE  LET rest == RemoveFirst(entries[p], k) IN
         /\ rest \in Seq(Keys) /\ GoodList(rest) /\ Range(rest) = Range(entries[p]) \ {k}
         /\ totalSize[p] - KeySize[k] = SizeOf(Range(rest))
<1> DEFINE rest == RemoveFirst(entries[p], k)
<1>1. entries[p] \in Seq(Keys) /\ IsInjective(entries[p]) /\ Range(entries[p]) \subseteq Keys
  BY RangeOfSeq DEF MemInv, MemShape, GoodList
<1>2. rest \in Seq(Keys) /\ IsInjective(rest) /\ Range(rest) = Range(entries[p]) \ {k}
  BY <1>1, SeqRemove
<1> HIDE DEF rest
<1>3. /\ SizeOf(Range(entries[p])) = KeySize[k] + SizeOf(Range(rest))
      /\ SizeOf(Range(rest)) \in Nat /\ KeySize[k] \in Nat
  BY <1>1, <1>2, SizeFacts, CacheAssumption
<1>4. SizeOf(Range(rest)) <= MaxSize /\ totalSize[p] - KeySize[k] = SizeOf(Range(rest))
  BY <1>3, CacheAssumption DEF MemInv, GoodList
<1>5. QED
  BY <1>2, <1>4 DEF MemInv, GoodList, rest

LEMMA GetMem == ASSUME MemInv, NEW p \in Procs, Get(p) PROVE MemInv'
<1> DEFINE k == arg[p]
           rest == RemoveFirst(entries[p], k)
<1>0. k \in Keys /\ entries[p] \in Seq(Keys)
  BY DEF MemInv, MemShape
<1>1. CASE UNCHANGED <<cpc, cacheMem>>
  BY <1>1 DEF Get, MemInv, MemShape, GoodList, cacheMem, cacheDisk, cacheHist
<1>2. CASE HasEntry(p, k) /\ ~UNCHANGED <<cpc, cacheMem>>
  <2>1. /\ rest \in Seq(Keys) /\ GoodList(rest) /\ Range(rest) = Range(entries[p]) \ {k}
        /\ totalSize[p] - KeySize[k] = SizeOf(Range(rest))
    BY <1>2, Dropped DEF HasEntry
  <2>2. UNCHANGED <<arg, cacheDisk, cacheHist>> /\ missed' \in [Procs -> BOOLEAN]
    BY DEF Get, MemInv, MemShape
  <2>3. CASE Goto(p, "unlink") /\ entries' = [entries EXCEPT ![p] = rest]
             /\ totalSize' = [totalSize EXCEPT ![p] = SizeAfterDelete(p, k)]
    <3>1. totalSize[p] - KeySize[k] \in Int
      BY <1>0, CacheAssumption DEF MemInv, MemShape
    <3> HIDE DEF rest, k
    <3>2. MemShape'
      BY <2>1, <2>2, <2>3, <3>1 DEF MemInv, MemShape, Goto, Places, SizeAfterDelete, cacheDisk, cacheHist
    <3>3. entries'[p] = rest /\ totalSize'[p] = SizeOf(Range(rest)) /\ cpc'[p] = "unlink"
      BY <2>1, <2>3 DEF MemInv, MemShape, Goto, SizeAfterDelete
    <3>4. QED
      BY <2>1, <2>2, <2>3, <3>2, <3>3, MemUpdate DEF MemInv, MemShape, Goto, GoodList, cacheDisk, cacheHist
  <2>4. CASE Goto(p, "opened") /\ entries' = [entries EXCEPT ![p] = Append(rest, k)]
             /\ UNCHANGED totalSize
    <3> DEFINE list == Append(rest, k)
    <3>1. list \in Seq(Keys) /\ IsInjective(list) /\ Range(list) = Range(entries[p])
      <4>1. Range(rest) \cup {k} = Range(entries[p])
        BY <1>2, <2>1 DEF HasEntry
      <4>2. IsInjective(rest) /\ k \notin Range(rest)
        BY <2>1 DEF GoodList
      <4> HIDE DEF rest, k
      <4>3. QED
        <5>1. list \in Seq(Keys) /\ IsInjective(list) /\ Range(list) = Range(rest) \cup {k}
          BY <1>0, <2>1, <4>2, SeqAppend
        <5>2. QED
          BY <4>1, <5>1
    <3> HIDE DEF list, rest, k
    <3>2. MemShape'
      BY <2>2, <2>4, <3>1 DEF MemInv, MemShape, Goto, Places, cacheDisk, cacheHist, list
    <3>3. entries'[p] = list /\ cpc'[p] = "opened" /\ totalSize'[p] = totalSize[p]
      BY <2>4 DEF MemInv, MemShape, Goto, list
    <3>4. GoodList(entries[p])' /\ totalSize'[p] = SizeOf(Range(entries'[p]))
      BY <2>2, <3>1, <3>3 DEF MemInv, GoodList, cacheHist
    <3>5. QED
      BY <2>2, <2>4, <3>2, <3>3, <3>4, MemUpdate DEF MemInv, MemShape, Goto, GoodList, cacheDisk, cacheHist
  <2>5. QED
    BY <1>2, <2>3, <2>4 DEF Get
<1>3. QED
  BY <1>1, <1>2 DEF Get

LEMMA NewStoreMem == ASSUME MemInv, NEW p \in Procs, NEW k \in Keys, NewStore(p, k) PROVE MemInv'
<1> DEFINE loaded == IF index.state = "whole" THEN index.list ELSE <<>>
<1>1. loaded \in Seq(Keys) /\ GoodList(loaded) /\ SizeOf(Range(loaded)) \in Nat
  <2>1. loaded \in Seq(Keys) /\ GoodList(loaded)
    BY EmptyIsGood, SeqEmpty DEF MemInv, MemShape
  <2>2. QED
    BY <2>1, RangeOfSeq, SizeFacts
<1>2. /\ entries' = [entries EXCEPT ![p] = loaded] /\ arg' = [arg EXCEPT ![p] = k]
      /\ totalSize' = [totalSize EXCEPT ![p] = SizeOf(Range(loaded))] /\ Goto(p, "ready")
      /\ starts < MaxStarts /\ starts' = starts + 1 /\ UNCHANGED <<missed, index, written, cut>>
  BY DEF NewStore, cacheDisk
<1> HIDE DEF loaded
<1>3. MemShape'
  BY <1>1, <1>2, CacheAssumption DEF MemInv, MemShape, Goto, Places
<1>4. entries'[p] = loaded /\ totalSize'[p] = SizeOf(Range(loaded)) /\ cpc'[p] = "ready"
  BY <1>2 DEF MemInv, MemShape, Goto
<1>5. QED
  BY <1>1, <1>2, <1>3, <1>4, MemUpdate DEF MemInv, MemShape, Goto, GoodList

(* What the entries of a process become when an object is entered. *)
LEMMA Entered ==
  ASSUME MemInv, NEW p \in Procs, NEW k \in written
  PROVE  LET list == Append(RemoveFirst(entries[p], k), k)
             n == EvictCount(list)
             rest == SubSeq(list, n + 1, Len(list))
             gone == Range(SubSeq(list, 1, n))
         IN /\ rest \in Seq(Keys) /\ GoodList(rest)
            /\ totalSize[p] - ReplacedSize(p, k) + KeySize[k] - SizeOf(gone) = SizeOf(Range(rest))
<1> DEFINE cleared == RemoveFirst(entries[p], k)
           list == Append(cleared, k)
           n == EvictCount(list)
           rest == SubSeq(list, n + 1, Len(list))
           gone == Range(SubSeq(list, 1, n))
<1>0. k \in Keys /\ KeySize[k] \in Nat /\ MaxSize \in Nat
  BY CacheAssumption DEF MemInv, MemShape
<1>1. /\ entries[p] \in Seq(Keys) /\ IsInjective(entries[p])
      /\ Range(entries[p]) \subseteq Keys /\ Range(entries[p]) \subseteq written
  BY RangeOfSeq DEF MemInv, MemShape, GoodList
<1>2. cleared \in Seq(Keys) /\ IsInjective(cleared) /\ Range(cleared) = Range(entries[p]) \ {k}
  BY <1>1, SeqRemove
<1>3. totalSize[p] - ReplacedSize(p, k) = SizeOf(Range(cleared)) /\ SizeOf(Range(cleared)) \in Nat
  <2>1. SizeOf(Range(cleared)) \in Nat /\ totalSize[p] = SizeOf(Range(entries[p])) /\ totalSize[p] \in Int
    BY <1>1, <1>2, SizeFacts DEF MemInv, MemShape
  <2>2. CASE HasEntry(p, k)
    <3>1. totalSize[p] - KeySize[k] = SizeOf(Range(cleared))
      BY <2>2, Dropped DEF HasEntry
    <3>2. QED
      BY <2>1, <2>2, <3>1 DEF ReplacedSize
  <2>3. CASE ~HasEntry(p, k)
    <3>1. Range(cleared) = Range(entries[p])
      BY <1>2, <2>3 DEF HasEntry
    <3> HIDE DEF cleared
    <3>2. QED
      BY <2>1, <2>3, <3>1 DEF ReplacedSize
  <2>4. QED
    BY <2>2, <2>3
<1> HIDE DEF cleared
<1>4. list \in Seq(Keys) /\ IsInjective(list) /\ Range(list) = Range(cleared) \cup {k}
  <2>1. k \notin Range(cleared)
    BY <1>2
  <2>2. QED
    BY <1>0, <1>2, <2>1, SeqAppend
<1>5. SizeOf(Range(list)) = SizeOf(Range(cleared)) + KeySize[k]
  <2>1. Range(list) \ {k} = Range(cleared) /\ k \in Range(list) /\ Range(list) \subseteq Keys
    BY <1>0, <1>1, <1>2, <1>4
  <2>2. SizeOf(Range(list)) = KeySize[k] + SizeOf(Range(list) \ {k})
    BY <2>1, SizeFacts
  <2>3. SizeOf(Range(list)) = KeySize[k] + SizeOf(Range(cleared))
    BY <2>1, <2>2
  <2> HIDE DEF list
  <2>4. QED
    BY <1>0, <1>3, <2>3
<1>6. Range(list) \subseteq Keys /\ Range(list) \subseteq written
  BY <1>0, <1>1, <1>2, <1>4
<1> HIDE DEF list
<1>7. n \in 0 .. Len(list) /\ SizeOf(Range(rest)) <= MaxSize
  BY <1>4, EvictFacts
<1> HIDE DEF n
<1>8. /\ rest \in Seq(Keys) /\ IsInjective(rest)
      /\ gone \cup Range(rest) = Range(list) /\ gone \cap Range(rest) = {}
  BY <1>4, <1>7, SeqSplit
<1> HIDE DEF rest, gone
<1>9. SizeOf(Range(list)) = SizeOf(gone) + SizeOf(Range(rest))
  <2>1. gone \in SUBSET Keys /\ Range(rest) \in SUBSET Keys
    BY <1>6, <1>8
  <2>2. SizeOf(gone \cup Range(rest)) = SizeOf(gone) + SizeOf(Range(rest))
    BY <1>8, <2>1, SizeFacts
  <2>3. QED
    BY <1>8, <2>2
<1>10. GoodList(rest)
  BY <1>6, <1>7, <1>8 DEF GoodList
<1>11. totalSize[p] - ReplacedSize(p, k) + KeySize[k] - SizeOf(gone) = SizeOf(Range(rest))
  <2>1. SizeOf(gone) \in Nat /\ SizeOf(Range(rest)) \in Nat
    BY <1>6, <1>8, SizeFacts
  <2>2. SizeOf(Range(cleared)) + KeySize[k] - SizeOf(gone) = SizeOf(Range(rest))
    BY <1>0, <1>3, <1>5, <1>9, <2>1
  <2>3. QED
    BY <1>3, <2>2
<1>12. QED
  BY <1>8, <1>10, <1>11 DEF rest, gone, n, list, cleared

LEMMA EnterMem == ASSUME MemInv, NEW p \in Procs, Enter(p) PROVE MemInv'
<1> DEFINE k == arg[p]
           list == Append(RemoveFirst(entries[p], k), k)
           n == EvictCount(list)
           rest == SubSeq(list, n + 1, Len(list))
           gone == Range(SubSeq(list, 1, n))
           total == totalSize[p] - ReplacedSize(p, k) + KeySize[k] - SizeOf(gone)
<1>1. /\ entries' = [entries EXCEPT ![p] = rest] /\ totalSize' = [totalSize EXCEPT ![p] = total]
      /\ missed' = [missed EXCEPT ![p] = FALSE] /\ Goto(p, "save") /\ cpc[p] = "enter"
      /\ UNCHANGED <<arg, index, cacheHist>>
  BY DEF Enter
<1>2. k \in written
  BY <1>1 DEF MemInv
<1>3. rest \in Seq(Keys) /\ GoodList(rest) /\ total = SizeOf(Range(rest))
  BY <1>2, Entered
<1>4. total \in Int
  <2>1. Range(rest) \in SUBSET Keys
    BY <1>3, RangeOfSeq
  <2>2. SizeOf(Range(rest)) \in Nat
    BY <2>1, SizeFacts
  <2> HIDE DEF total, rest
  <2>3. QED
    BY <1>3, <2>2
<1> HIDE DEF rest, total
<1>5. MemShape'
  BY <1>1, <1>3, <1>4 DEF MemInv, MemShape, Goto, Places, cacheHist
<1>6. entries'[p] = rest /\ totalSize'[p] = SizeOf(Range(rest)) /\ cpc'[p] = "save"
  BY <1>1, <1>3 DEF MemInv, MemShape, Goto
<1>7. QED
  BY <1>1, <1>3, <1>5, <1>6, MemUpdate DEF MemInv, MemShape, Goto, GoodList, cacheHist

LEMMA SaveWriteMem == ASSUME MemInv, NEW p \in Procs, SaveWrite(p) PROVE MemInv'
<1>1. /\ index' \in [state : {"absent", "empty", "torn", "whole"}, list : Seq(Keys)]
      /\ index'.list = entries[p] \/ index'.list = <<>>
  <2>1. \/ index' = [state |-> "whole", list |-> entries[p]]
        \/ index' = [state |-> "torn", list |-> <<>>]
    BY DEF SaveWrite
  <2>2. entries[p] \in Seq(Keys)
    BY DEF MemInv, MemShape
  <2>3. CASE index' = [state |-> "whole", list |-> entries[p]]
    BY <2>2, <2>3
  <2>4. CASE index' = [state |-> "torn", list |-> <<>>]
    BY <2>4, SeqEmpty
  <2>5. QED
    BY <2>1, <2>3, <2>4
<1>2. UNCHANGED <<starts, written, cut>> /\ GoodList(index.list)'
  BY <1>1, EmptyIsGood DEF SaveWrite, cacheHist, MemInv, GoodList
<1>3. CASE missed[p]
  BY <1>1, <1>2, <1>3, GotoMem DEF SaveWrite, Places, MemInv, MemShape
<1>4. CASE ~missed[p]
  BY <1>1, <1>2, <1>4, EndsMem DEF SaveWrite, MemInv, MemShape
<1>5. QED
  BY <1>3, <1>4

LEMMA ClearMem == ASSUME MemInv, NEW p \in Procs, Clear(p) PROVE MemInv'
<1>1. /\ MemShape' /\ entries'[p] = <<>> /\ totalSize'[p] = 0 /\ cpc'[p] = "wipe"
      /\ \A q \in Procs \ {p} : /\ entries'[q] = entries[q] /\ totalSize'[q] = totalSize[q]
                                /\ cpc'[q] = cpc[q] /\ arg'[q] = arg[q]
  BY SeqEmpty DEF Clear, Goto, MemInv, MemShape, Places, cacheCall, cacheDisk, cacheHist
<1>2. GoodList(<<>>) /\ SizeOf(Range(<<>>)) = 0 /\ UNCHANGED <<index, written>>
  BY EmptyIsGood, SeqEmpty, SizeFacts DEF Clear, cacheDisk, cacheHist
<1>3. GoodList(index.list)' /\ GoodList(entries[p])' /\ totalSize'[p] = SizeOf(Range(entries'[p]))
  BY <1>1, <1>2 DEF MemInv, GoodList
<1>4. QED
  BY <1>1, <1>2, <1>3, MemUpdate

StoreStep(p) ==
  \/ \E k \in Keys : NewStore(p, k)
  \/ Get(p) \/ ReadAll(p) \/ Unlink(p)
  \/ PutBytes(p) \/ Put(p) \/ WriteDone(p) \/ WriteFails(p) \/ Rename(p)
  \/ Enter(p) \/ SaveTruncate(p) \/ SaveWrite(p)
  \/ Clear(p) \/ Wipe(p) \/ Killed(p)

LEMMA StepMem == ASSUME MemInv, NEW p \in Procs, StoreStep(p) PROVE MemInv'
<1>0. /\ arg[p] \in Keys /\ written \subseteq Keys /\ cut \subseteq Keys /\ GoodList(index.list)
      /\ index \in [state : {"absent", "empty", "torn", "whole"}, list : Seq(Keys)]
  BY DEF MemInv, MemShape
<1>1. ASSUME UNCHANGED index, written' = written \/ written' = written \cup {arg[p]}
      PROVE  /\ GoodList(index.list)' /\ written \subseteq written' /\ written' \subseteq Keys
             /\ index' \in [state : {"absent", "empty", "torn", "whole"}, list : Seq(Keys)]
  BY <1>0, <1>1 DEF GoodList
<1>2. CASE Unlink(p) \/ PutBytes(p) \/ Put(p) \/ Wipe(p)
  BY <1>1, <1>2, GotoMem DEF Unlink, PutBytes, Put, Wipe, Places, cacheHist
<1>3. CASE SaveTruncate(p)
  <2>1. GoodList(index.list)' /\ index' \in [state : {"absent", "empty", "torn", "whole"}, list : Seq(Keys)]
    BY <1>3, EmptyIsGood, SeqEmpty DEF SaveTruncate, GoodList, cacheHist
  <2>2. QED
    BY <1>0, <1>3, <2>1, GotoMem DEF SaveTruncate, Places, cacheHist
<1>4. CASE WriteDone(p)
  <2>1. \E at \in Places : Goto(p, at)
    BY <1>4 DEF WriteDone, Places
  <2>2. QED
    BY <1>1, <1>4, <2>1, GotoMem DEF WriteDone
<1>5. CASE ReadAll(p) \/ WriteFails(p) \/ Killed(p)
  <2>1. Ends(p) /\ UNCHANGED <<index, starts, written>> /\ cut' \subseteq Keys
    BY <1>0, <1>5 DEF ReadAll, WriteFails, Killed, cacheHist
  <2>2. QED
    BY <1>1, <2>1, EndsMem
<1>6. CASE Rename(p)
  <2>1. UNCHANGED <<index, starts, written, cut>>
    BY <1>6 DEF Rename, cacheHist
  <2>2. CASE Ends(p)
    BY <1>0, <1>1, <2>1, <2>2, EndsMem
  <2>3. CASE Goto(p, "enter") /\ UNCHANGED <<cacheMem, cacheCall>>
    <3>1. arg[p] \in written
      BY <1>6 DEF Rename, MemInv
    <3>2. QED
      BY <1>1, <2>1, <2>3, <3>1, GotoMem DEF Places
  <2>4. QED
    BY <1>6, <2>2, <2>3 DEF Rename
<1>7. QED
  BY <1>2, <1>3, <1>4, <1>5, <1>6, NewStoreMem, GetMem, EnterMem, SaveWriteMem, ClearMem DEF StoreStep

LEMMA InitMem == CacheInit => MemInv
<1> SUFFICES ASSUME CacheInit PROVE MemInv
  OBVIOUS
<1>1. MemShape
  BY CacheAssumption, KeysExist, SeqEmpty DEF CacheInit, MemShape, Places
<1>2. GoodList(<<>>) /\ SizeOf(Range(<<>>)) = 0
  BY SeqEmpty, SizeFacts, CacheAssumption DEF GoodList
<1>3. QED
  BY <1>1, <1>2 DEF CacheInit, MemInv

LEMMA NextMem == MemInv /\ [CacheNext]_cacheVars => MemInv'
<1>1. ASSUME MemInv, CacheNext PROVE MemInv'
  BY <1>1, StepMem DEF CacheNext, StoreStep
<1>2. ASSUME MemInv, UNCHANGED cacheVars PROVE MemInv'
  BY <1>2 DEF MemInv, MemShape, GoodList, cacheVars
<1>3. QED
  BY <1>1, <1>2

(* No process and no index ever names an object that was not written       *)
(* completely at least once (Put and PutBytes enter an object only after   *)
(* its bytes), for any number of processes that interleave, crash or fail. *)
THEOREM EntriesAreWritten == CacheSpec => []EntriesWereWritten
<1>1. MemInv => EntriesWereWritten
  BY DEF MemInv, GoodList, EntriesWereWritten, HasEntry
<1>2. QED
  BY InitMem, NextMem, <1>1, PTL DEF CacheSpec

(* Every process accounts for exactly the entries it holds and holds no    *)
(* more than the limit (evictIfNeeded, Delete, loadIndex), for any sizes.  *)
THEOREM SizesAreAccounted == CacheSpec => []SizeAccounted
<1>1. MemInv => SizeAccounted
  BY DEF MemInv, GoodList, SizeAccounted
<1>2. QED
  BY InitMem, NextMem, <1>1, PTL DEF CacheSpec

-----------------------------------------------------------------------------
(* What is on disk *)

DiskShape ==
  /\ fd \in [Procs -> Inodes \cup {0}]
  /\ path \in [Keys -> Inodes \cup {0}]
  /\ tmp \in [Keys -> Inodes \cup {0}]
  /\ content \in [Inodes -> {"partial", "whole"}]

(* No two names, object files or temporary ones, share an inode. *)
NamesDistinct ==
  \A j, k \in Keys :
    /\ path[j] # 0 /\ path[j] = path[k] => j = k
    /\ tmp[j] # 0 /\ tmp[j] = tmp[k] => j = k
    /\ path[j] # 0 => path[j] # tmp[k]

(* A file that a process writes has no name, or one of the process's key. *)
WritersKnown ==
  \A p \in Procs : cpc[p] \in Writing =>
    fd[p] # 0 /\ \A k \in Keys : fd[p] \in {path[k], tmp[k]} => k = arg[p]

BeingWritten(i) == \E p \in Procs : cpc[p] \in Writing /\ fd[p] = i
Explained(i) == i # 0 /\ content[i] = "partial" => BeingWritten(i)

DiskInv ==
  /\ DiskShape
  /\ NamesDistinct
  /\ WritersKnown
  /\ \A k \in Keys \ cut : Explained(path[k]) /\ Explained(tmp[k])

LEMMA UnionBound ==
  ASSUME NEW S, NEW T, IsFiniteSet(S), IsFiniteSet(T)
  PROVE  IsFiniteSet(S \cup T) /\ Cardinality(S \cup T) <= Cardinality(S) + Cardinality(T)
<1>1. IsFiniteSet(S \cup T) /\ Cardinality(S \cup T) = Cardinality(S) + Cardinality(T) - Cardinality(S \cap T)
  BY FS_Union
<1>2. IsFiniteSet(S \cap T)
  BY FS_Intersection
<1>3. Cardinality(S) \in Nat /\ Cardinality(T) \in Nat /\ Cardinality(S \cap T) \in Nat
  BY <1>2, FS_CardinalityType
<1>4. QED
  BY <1>1, <1>3

(* There are more inodes than names and open files. *)
LEMMA FreshExists ==
  ASSUME DiskShape, NEW k \in Keys, path[k] = 0 \/ tmp[k] = 0
  PROVE  /\ FreshInode \in Inodes /\ FreshInode # 0
         /\ FreshInode \notin Range(path) \cup Range(tmp) \cup Range(fd)
<1> DEFINE used == Range(path) \cup Range(tmp) \cup Range(fd)
           N == 2 * Cardinality(Keys) + Cardinality(Procs)
<1>1. /\ Cardinality(Keys) \in Nat /\ Cardinality(Procs) \in Nat
      /\ IsFiniteSet(Keys) /\ IsFiniteSet(Procs)
  BY CacheAssumption, FS_CardinalityType
<1>2. ASSUME NEW S, IsFiniteSet(S), NEW T, NEW f \in [S -> T]
      PROVE  IsFiniteSet(Range(f)) /\ Cardinality(Range(f)) <= Cardinality(S)
  <2>1. f \in Surjection(S, Range(f))
    BY <1>2 DEF Surjection, Range
  <2>2. QED
    BY <1>2, <2>1, FS_Surjection
<1>3. /\ IsFiniteSet(Range(path)) /\ Cardinality(Range(path)) <= Cardinality(Keys)
      /\ IsFiniteSet(Range(tmp)) /\ Cardinality(Range(tmp)) <= Cardinality(Keys)
      /\ IsFiniteSet(Range(fd)) /\ Cardinality(Range(fd)) <= Cardinality(Procs)
  BY <1>1, <1>2 DEF DiskShape
<1>4. IsFiniteSet(used) /\ Cardinality(used) <= N
  <2>1. /\ IsFiniteSet(Range(path) \cup Range(tmp))
        /\ Cardinality(Range(path) \cup Range(tmp)) <= Cardinality(Range(path)) + Cardinality(Range(tmp))
    BY <1>3, UnionBound
  <2>2. /\ IsFiniteSet(used)
        /\ Cardinality(used) <= Cardinality(Range(path) \cup Range(tmp)) + Cardinality(Range(fd))
    BY <1>3, <2>1, UnionBound
  <2>3. /\ Cardinality(Range(path)) \in Nat /\ Cardinality(Range(tmp)) \in Nat /\ Cardinality(Range(fd)) \in Nat
        /\ Cardinality(Range(path) \cup Range(tmp)) \in Nat /\ Cardinality(used) \in Nat
    BY <1>3, <2>1, <2>2, FS_CardinalityType
  <2> HIDE DEF used
  <2>4. QED
    BY <1>1, <1>3, <2>1, <2>2, <2>3
<1>5. 0 \in used
  BY DEF DiskShape, Range
<1>6. ~(Inodes \subseteq used)
  <2> SUFFICES ASSUME Inodes \subseteq used PROVE FALSE
    OBVIOUS
  <2>1. 0 .. N \subseteq used
    BY <1>1, <1>5 DEF Inodes
  <2>2. Cardinality(0 .. N) = N + 1
    BY <1>1, FS_Interval
  <2> HIDE DEF used
  <2>3. Cardinality(0 .. N) <= Cardinality(used)
    BY <1>4, <2>1, FS_Subset
  <2>4. Cardinality(used) \in Nat /\ N \in Nat
    BY <1>1, <1>4, FS_CardinalityType
  <2>5. QED
    BY <1>4, <2>2, <2>3, <2>4
<1>7. Inodes \ used \subseteq Nat /\ Inodes \ used # {} /\ 0 \notin Inodes
  BY <1>1, <1>6 DEF Inodes
<1>8. Min(Inodes \ used) \in Inodes \ used
  BY <1>7, MinOfNats
<1>9. QED
  BY <1>7, <1>8 DEF FreshInode

(* A file that has a name keeps its bytes. *)
LEMMA NamedKeepBytes ==
  ASSUME NEW bytes \in [Inodes -> {"partial", "whole"}], SetContent(bytes),
         path' \in [Keys -> Inodes \cup {0}], tmp' \in [Keys -> Inodes \cup {0}]
  PROVE  /\ content' \in [Inodes -> {"partial", "whole"}]
         /\ \A k \in Keys : path'[k] # 0 => content'[path'[k]] = bytes[path'[k]]
         /\ \A k \in Keys : tmp'[k] # 0 => content'[tmp'[k]] = bytes[tmp'[k]]
BY DEF SetContent, Range

(* A step after which p writes nothing, and which only removes names. *)
LEMMA DiskKeeps ==
  ASSUME MemInv, DiskInv, NEW p \in Procs, DiskShape',
         \A k \in Keys : path'[k] \in {path[k], 0} /\ tmp'[k] \in {tmp[k], 0},
         \A k \in Keys : path'[k] # 0 => content'[path'[k]] = content[path'[k]],
         \A k \in Keys : tmp'[k] # 0 => content'[tmp'[k]] = content[tmp'[k]],
         \A q \in Procs \ {p} : cpc'[q] = cpc[q] /\ fd'[q] = fd[q] /\ arg'[q] = arg[q],
         cpc'[p] \notin Writing, cpc[p] \in Writing => arg[p] \in cut', cut \subseteq cut'
  PROVE  DiskInv'
<1>1. NamesDistinct'
  BY DEF DiskInv, NamesDistinct
<1>2. WritersKnown'
  <2>1. ASSUME NEW q \in Procs, cpc'[q] \in Writing, NEW k \in Keys, fd'[q] \in {path'[k], tmp'[k]}
        PROVE  k = arg'[q]
    <3>1. q # p /\ cpc[q] \in Writing /\ fd'[q] = fd[q] /\ arg'[q] = arg[q]
      BY <2>1
    <3>2. fd[q] # 0 /\ (fd[q] \in {path[k], tmp[k]} => k = arg[q])
      BY <3>1 DEF DiskInv, WritersKnown
    <3>3. QED
      BY <2>1, <3>1, <3>2
  <2>2. ASSUME NEW q \in Procs, cpc'[q] \in Writing PROVE fd'[q] # 0
    BY <2>2 DEF DiskInv, WritersKnown
  <2>3. QED
    BY <2>1, <2>2 DEF WritersKnown
<1>3. ASSUME NEW k \in Keys \ cut', NEW i \in {path[k], tmp[k]}, i # 0, content[i] = "partial"
      PROVE  BeingWritten(i)'
  <2>1. PICK q \in Procs : cpc[q] \in Writing /\ fd[q] = i
    BY <1>3 DEF DiskInv, Explained, BeingWritten
  <2>2. q # p
    BY <1>3, <2>1 DEF DiskInv, WritersKnown
  <2>3. QED
    BY <2>1, <2>2 DEF BeingWritten
<1>4. ASSUME NEW k \in Keys \ cut' PROVE Explained(path[k])' /\ Explained(tmp[k])'
  BY <1>3, <1>4 DEF Explained
<1>5. QED
  BY <1>1, <1>2, <1>4 DEF DiskInv

LEMMA EndsShape ==
  ASSUME MemInv, DiskInv, NEW p \in Procs, Ends(p)
  PROVE  /\ fd' \in [Procs -> Inodes \cup {0}] /\ cpc'[p] = "down"
         /\ \A q \in Procs \ {p} : cpc'[q] = cpc[q] /\ fd'[q] = fd[q] /\ arg'[q] = arg[q]
BY DEF MemInv, MemShape, DiskInv, DiskShape, Ends, Goto

LEMMA NewStoreDisk == ASSUME MemInv, DiskInv, NEW p \in Procs, NEW k \in Keys, NewStore(p, k) PROVE DiskInv'
<1>1. UNCHANGED <<fd, path, tmp, content, cut>> /\ cpc[p] = "down" /\ cpc'[p] = "ready"
      /\ \A q \in Procs \ {p} : cpc'[q] = cpc[q] /\ arg'[q] = arg[q]
  BY DEF NewStore, cacheDisk, Goto, MemInv, MemShape
<1>2. DiskShape'
  BY <1>1 DEF DiskInv, DiskShape
<1>3. QED
  BY <1>1, <1>2, DiskKeeps DEF Writing

LEMMA GetDisk == ASSUME MemInv, DiskInv, NEW p \in Procs, Get(p) PROVE DiskInv'
<1>1. /\ UNCHANGED <<path, tmp, content, cut, arg>> /\ cpc[p] = "ready" /\ cpc'[p] \in {"ready", "unlink", "opened"}
      /\ \A q \in Procs \ {p} : cpc'[q] = cpc[q]
  BY DEF Get, cacheDisk, cacheHist, Goto, MemInv, MemShape
<1>2. fd' \in [Procs -> Inodes \cup {0}] /\ \A q \in Procs \ {p} : fd'[q] = fd[q]
  BY DEF Get, DiskInv, DiskShape, MemInv, MemShape
<1>3. DiskShape'
  BY <1>1, <1>2 DEF DiskInv, DiskShape
<1>4. QED
  BY <1>1, <1>2, <1>3, DiskKeeps DEF Writing

(* The steps that only remove names and leave the open files alone. *)
LEMMA RemovalsDisk ==
  ASSUME MemInv, DiskInv, NEW p \in Procs,
         Unlink(p) \/ Enter(p) \/ SaveTruncate(p) \/ Clear(p) \/ Wipe(p)
  PROVE  DiskInv'
<1>1. UNCHANGED <<fd, arg, cut>> /\ cpc[p] \notin Writing /\ cpc'[p] \notin Writing
      /\ \A q \in Procs \ {p} : cpc'[q] = cpc[q]
  BY DEF Unlink, Enter, SaveTruncate, Clear, Wipe, Goto, cacheCall, cacheHist, Writing, MemInv, MemShape
<1>2. /\ path' \in [Keys -> Inodes \cup {0}] /\ tmp' \in [Keys -> Inodes \cup {0}]
      /\ \A k \in Keys : path'[k] \in {path[k], 0} /\ tmp'[k] \in {tmp[k], 0}
  <2>1. path \in [Keys -> Inodes \cup {0}] /\ tmp \in [Keys -> Inodes \cup {0}] /\ arg \in [Procs -> Keys]
    BY DEF DiskInv, DiskShape, MemInv, MemShape
  <2>2. CASE Unlink(p)
    BY <2>1, <2>2 DEF Unlink
  <2>3. CASE Wipe(p)
    BY <2>1, <2>3 DEF Wipe
  <2>4. CASE Enter(p)
    <3>1. PICK gone : path' = [k \in Keys |-> IF k \in gone THEN 0 ELSE path[k]] /\ tmp' = tmp
      BY <2>4, Zenon DEF Enter
    <3>2. QED
      BY <2>1, <3>1
  <2>5. CASE SaveTruncate(p) \/ Clear(p)
    BY <2>1, <2>5 DEF SaveTruncate, Clear, cacheDisk
  <2>6. QED
    BY <2>2, <2>3, <2>4, <2>5
<1>3. SetContent(content) \/ UNCHANGED <<path, tmp, content>>
  BY DEF Unlink, Enter, SaveTruncate, Clear, Wipe, cacheDisk
<1>4. /\ content' \in [Inodes -> {"partial", "whole"}]
      /\ \A k \in Keys : path'[k] # 0 => content'[path'[k]] = content[path'[k]]
      /\ \A k \in Keys : tmp'[k] # 0 => content'[tmp'[k]] = content[tmp'[k]]
  BY <1>2, <1>3, NamedKeepBytes DEF DiskInv, DiskShape
<1>5. DiskShape'
  BY <1>1, <1>2, <1>4 DEF DiskInv, DiskShape
<1>6. QED
  BY <1>1, <1>2, <1>4, <1>5, DiskKeeps

(* The steps after which the process is gone. *)
LEMMA EndingsDisk ==
  ASSUME MemInv, DiskInv, NEW p \in Procs, Ends(p),
         ReadAll(p) \/ WriteFails(p) \/ Rename(p) \/ SaveWrite(p) \/ Killed(p)
  PROVE  DiskInv'
<1>1. /\ fd' \in [Procs -> Inodes \cup {0}] /\ cpc'[p] = "down"
      /\ \A q \in Procs \ {p} : cpc'[q] = cpc[q] /\ fd'[q] = fd[q] /\ arg'[q] = arg[q]
  BY EndsShape
<1>2. cut \subseteq cut' /\ (cpc[p] \in Writing => arg[p] \in cut')
  BY DEF ReadAll, WriteFails, Rename, SaveWrite, Killed, cacheHist, Writing
<1>3. /\ path' \in [Keys -> Inodes \cup {0}] /\ tmp' \in [Keys -> Inodes \cup {0}]
      /\ \A k \in Keys : path'[k] \in {path[k], 0} /\ tmp'[k] \in {tmp[k], 0}
  BY <1>1 DEF ReadAll, WriteFails, Rename, SaveWrite, Killed, Goto, DiskInv, DiskShape, MemInv, MemShape
<1>4. SetContent(content) \/ UNCHANGED <<path, tmp, content>>
  BY DEF ReadAll, WriteFails, Rename, SaveWrite, Killed
<1>5. /\ content' \in [Inodes -> {"partial", "whole"}]
      /\ \A k \in Keys : path'[k] # 0 => content'[path'[k]] = content[path'[k]]
      /\ \A k \in Keys : tmp'[k] # 0 => content'[tmp'[k]] = content[tmp'[k]]
  BY <1>3, <1>4, NamedKeepBytes DEF DiskInv, DiskShape
<1>6. DiskShape'
  BY <1>1, <1>3, <1>5 DEF DiskShape
<1>7. QED
  BY <1>1, <1>2, <1>3, <1>5, <1>6, DiskKeeps DEF Writing

(* The steps that open a file for writing. *)
LEMMA PutBytesDisk == ASSUME MemInv, DiskInv, NEW p \in Procs, PutBytes(p) PROVE DiskInv'
<1> DEFINE k == arg[p]
           i == IF path[k] = 0 THEN FreshInode ELSE path[k]
<1>0. k \in Keys /\ DiskShape
  BY DEF MemInv, MemShape, DiskInv
<1>1. /\ path' = [path EXCEPT ![k] = i] /\ fd' = [fd EXCEPT ![p] = i]
      /\ content' = [content EXCEPT ![i] = "partial"] /\ Goto(p, "bytes") /\ cpc[p] = "ready"
      /\ UNCHANGED <<arg, tmp, cut>>
  BY DEF PutBytes, cacheCall, cacheHist
<1>2. i \in Inodes /\ i # 0
  <2>1. 0 \notin Inodes
    BY DEF Inodes
  <2>2. QED
    BY <1>0, <2>1, FreshExists DEF DiskShape
<1>3. /\ \A j \in Keys : path[j] = i => j = k
      /\ \A j \in Keys : tmp[j] # i
      /\ \A q \in Procs : cpc[q] \in Writing /\ fd[q] = i => arg[q] = k
  <2>1. CASE path[k] = 0
    <3>1. i \notin Range(path) \cup Range(tmp) \cup Range(fd)
      BY <1>0, <2>1, FreshExists
    <3> HIDE DEF i
    <3>2. QED
      BY <3>1 DEF Range, DiskInv, DiskShape
  <2>2. CASE path[k] # 0
    BY <1>0, <1>2, <2>2 DEF DiskInv, NamesDistinct, WritersKnown
  <2>3. QED
    BY <2>1, <2>2
<1> HIDE DEF i, k
<1>4. DiskShape'
  BY <1>0, <1>1, <1>2 DEF DiskShape
<1>5. /\ path'[k] = i /\ \A j \in Keys \ {k} : path'[j] = path[j]
      /\ fd'[p] = i /\ cpc'[p] = "bytes" /\ \A q \in Procs \ {p} : fd'[q] = fd[q] /\ cpc'[q] = cpc[q]
      /\ content'[i] = "partial" /\ \A n \in Inodes \ {i} : content'[n] = content[n]
  BY <1>0, <1>1, <1>2 DEF DiskShape, Goto, MemInv, MemShape
<1>6. NamesDistinct'
  BY <1>0, <1>1, <1>2, <1>3, <1>5 DEF DiskInv, NamesDistinct
<1>7. WritersKnown'
  <2>1. ASSUME NEW q \in Procs, cpc'[q] \in Writing, NEW j \in Keys, fd'[q] \in {path'[j], tmp'[j]}
        PROVE  j = arg'[q]
    <3>1. CASE q = p
      BY <1>1, <1>3, <1>5, <2>1, <3>1 DEF k
    <3>2. CASE q # p
      <4>1. fd[q] # 0 /\ cpc[q] \in Writing /\ fd[q] \in {path'[j], tmp'[j]} /\ arg'[q] = arg[q]
            /\ \A l \in Keys : fd[q] \in {path[l], tmp[l]} => l = arg[q]
        BY <1>1, <1>5, <2>1, <3>2 DEF DiskInv, WritersKnown
      <4>2. CASE j = k
        BY <1>1, <1>3, <1>5, <4>1, <4>2
      <4>3. CASE j # k
        BY <1>1, <1>5, <4>1, <4>3
      <4>4. QED
        BY <4>2, <4>3
    <3>3. QED
      BY <3>1, <3>2
  <2>2. ASSUME NEW q \in Procs, cpc'[q] \in Writing PROVE fd'[q] # 0
    BY <1>2, <1>5, <2>2 DEF DiskInv, WritersKnown
  <2>3. QED
    BY <2>1, <2>2 DEF WritersKnown
<1> DEFINE busy(n) == \E q \in Procs : cpc'[q] \in Writing /\ fd'[q] = n
<1>8. busy(i) /\ \A n : BeingWritten(n) => busy(n)
  BY <1>1, <1>5 DEF BeingWritten, Writing
<1>9. ASSUME NEW n \in Inodes \cup {0}, n = i \/ Explained(n), n # 0, content'[n] = "partial" PROVE busy(n)
  <2>1. CASE n = i
    BY <1>8, <2>1
  <2>2. CASE n # i
    <3>1. content[n] = "partial" /\ Explained(n)
      BY <1>5, <1>9, <2>2
    <3>2. QED
      BY <1>8, <1>9, <3>1 DEF Explained
  <2>3. QED
    BY <2>1, <2>2
<1>10. ASSUME NEW j \in Keys \ cut' PROVE Explained(path[j])' /\ Explained(tmp[j])'
  <2>1. /\ path[j] \in Inodes \cup {0} /\ tmp[j] \in Inodes \cup {0} /\ j \in Keys \ cut
        /\ Explained(path[j]) /\ Explained(tmp[j])
    BY <1>1, <1>10 DEF DiskInv, DiskShape
  <2>2. path'[j] \in {path[j], i} /\ tmp'[j] \in {tmp[j], i}
    BY <1>1, <1>5
  <2>3. /\ path'[j] # 0 /\ content'[path'[j]] = "partial" => busy(path'[j])
        /\ tmp'[j] # 0 /\ content'[tmp'[j]] = "partial" => busy(tmp'[j])
    <3> HIDE DEF busy
    <3> QED
      BY <1>2, <1>9, <2>1, <2>2
  <2>4. QED
    BY <2>3 DEF Explained, BeingWritten
<1>11. QED
  BY <1>4, <1>6, <1>7, <1>10 DEF DiskInv

LEMMA PutDisk == ASSUME MemInv, DiskInv, NEW p \in Procs, Put(p) PROVE DiskInv'
<1> DEFINE k == arg[p]
           i == IF tmp[k] = 0 THEN FreshInode ELSE tmp[k]
<1>0. k \in Keys /\ DiskShape
  BY DEF MemInv, MemShape, DiskInv
<1>1. /\ tmp' = [tmp EXCEPT ![k] = i] /\ fd' = [fd EXCEPT ![p] = i]
      /\ content' = [content EXCEPT ![i] = "partial"] /\ Goto(p, "tmpbytes") /\ cpc[p] = "ready"
      /\ UNCHANGED <<arg, path, cut>>
  BY DEF Put, cacheCall, cacheHist
<1>2. i \in Inodes /\ i # 0
  <2>1. 0 \notin Inodes
    BY DEF Inodes
  <2>2. QED
    BY <1>0, <2>1, FreshExists DEF DiskShape
<1>3. /\ \A j \in Keys : tmp[j] = i => j = k
      /\ \A j \in Keys : path[j] # i
      /\ \A q \in Procs : cpc[q] \in Writing /\ fd[q] = i => arg[q] = k
  <2>1. CASE tmp[k] = 0
    <3>1. i \notin Range(path) \cup Range(tmp) \cup Range(fd)
      BY <1>0, <2>1, FreshExists
    <3> HIDE DEF i
    <3>2. QED
      BY <3>1 DEF Range, DiskInv, DiskShape
  <2>2. CASE tmp[k] # 0
    BY <1>0, <1>2, <2>2 DEF DiskInv, NamesDistinct, WritersKnown
  <2>3. QED
    BY <2>1, <2>2
<1> HIDE DEF i, k
<1>4. DiskShape'
  BY <1>0, <1>1, <1>2 DEF DiskShape
<1>5. /\ tmp'[k] = i /\ \A j \in Keys \ {k} : tmp'[j] = tmp[j]
      /\ fd'[p] = i /\ cpc'[p] = "tmpbytes" /\ \A q \in Procs \ {p} : fd'[q] = fd[q] /\ cpc'[q] = cpc[q]
      /\ content'[i] = "partial" /\ \A n \in Inodes \ {i} : content'[n] = content[n]
  BY <1>0, <1>1, <1>2 DEF DiskShape, Goto, MemInv, MemShape
<1>6. NamesDistinct'
  BY <1>0, <1>1, <1>2, <1>3, <1>5 DEF DiskInv, NamesDistinct
<1>7. WritersKnown'
  <2>1. ASSUME NEW q \in Procs, cpc'[q] \in Writing, NEW j \in Keys, fd'[q] \in {path'[j], tmp'[j]}
        PROVE  j = arg'[q]
    <3>1. CASE q = p
      BY <1>1, <1>3, <1>5, <2>1, <3>1 DEF k
    <3>2. CASE q # p
      <4>1. fd[q] # 0 /\ cpc[q] \in Writing /\ fd[q] \in {path'[j], tmp'[j]} /\ arg'[q] = arg[q]
            /\ \A l \in Keys : fd[q] \in {path[l], tmp[l]} => l = arg[q]
        BY <1>1, <1>5, <2>1, <3>2 DEF DiskInv, WritersKnown
      <4>2. CASE j = k
        BY <1>1, <1>3, <1>5, <4>1, <4>2
      <4>3. CASE j # k
        BY <1>1, <1>5, <4>1, <4>3
      <4>4. QED
        BY <4>2, <4>3
    <3>3. QED
      BY <3>1, <3>2
  <2>2. ASSUME NEW q \in Procs, cpc'[q] \in Writing PROVE fd'[q] # 0
    BY <1>2, <1>5, <2>2 DEF DiskInv, WritersKnown
  <2>3. QED
    BY <2>1, <2>2 DEF WritersKnown
<1> DEFINE busy(n) == \E q \in Procs : cpc'[q] \in Writing /\ fd'[q] = n
<1>8. busy(i) /\ \A n : BeingWritten(n) => busy(n)
  BY <1>1, <1>5 DEF BeingWritten, Writing
<1>9. ASSUME NEW n \in Inodes \cup {0}, n = i \/ Explained(n), n # 0, content'[n] = "partial" PROVE busy(n)
  <2>1. CASE n = i
    BY <1>8, <2>1
  <2>2. CASE n # i
    <3>1. content[n] = "partial" /\ Explained(n)
      BY <1>5, <1>9, <2>2
    <3>2. QED
      BY <1>8, <1>9, <3>1 DEF Explained
  <2>3. QED
    BY <2>1, <2>2
<1>10. ASSUME NEW j \in Keys \ cut' PROVE Explained(path[j])' /\ Explained(tmp[j])'
  <2>1. /\ path[j] \in Inodes \cup {0} /\ tmp[j] \in Inodes \cup {0} /\ j \in Keys \ cut
        /\ Explained(path[j]) /\ Explained(tmp[j])
    BY <1>1, <1>10 DEF DiskInv, DiskShape
  <2>2. path'[j] \in {path[j], i} /\ tmp'[j] \in {tmp[j], i}
    BY <1>1, <1>5
  <2>3. /\ path'[j] # 0 /\ content'[path'[j]] = "partial" => busy(path'[j])
        /\ tmp'[j] # 0 /\ content'[tmp'[j]] = "partial" => busy(tmp'[j])
    <3> HIDE DEF busy
    <3> QED
      BY <1>2, <1>9, <2>1, <2>2
  <2>4. QED
    BY <2>3 DEF Explained, BeingWritten
<1>11. QED
  BY <1>4, <1>6, <1>7, <1>10 DEF DiskInv

LEMMA WriteDoneDisk == ASSUME MemInv, DiskInv, NEW p \in Procs, WriteDone(p) PROVE DiskInv'
<1> DEFINE i == fd[p]
           bytes == [content EXCEPT ![i] = "whole"]
<1>0. /\ cpc[p] \in Writing /\ cpc'[p] \notin Writing /\ fd' = [fd EXCEPT ![p] = 0]
      /\ UNCHANGED <<arg, path, tmp, cut>> /\ SetContent(bytes)
      /\ \A q \in Procs \ {p} : cpc'[q] = cpc[q]
  BY DEF WriteDone, Goto, Writing, cacheCall, MemInv, MemShape
<1>1. /\ i \in Inodes /\ bytes \in [Inodes -> {"partial", "whole"}]
      /\ path' \in [Keys -> Inodes \cup {0}] /\ tmp' \in [Keys -> Inodes \cup {0}]
  BY <1>0 DEF DiskInv, DiskShape, WritersKnown
<1>2. bytes[i] = "whole" /\ \A n \in Inodes \ {i} : bytes[n] = content[n]
  BY <1>1 DEF DiskInv, DiskShape
<1>3. /\ content' \in [Inodes -> {"partial", "whole"}]
      /\ \A k \in Keys : path[k] # 0 => content'[path[k]] = bytes[path[k]]
      /\ \A k \in Keys : tmp[k] # 0 => content'[tmp[k]] = bytes[tmp[k]]
  <2> HIDE DEF bytes
  <2> QED
    BY <1>0, <1>1, NamedKeepBytes
<1> HIDE DEF bytes
<1>4. DiskShape' /\ \A q \in Procs \ {p} : fd'[q] = fd[q]
  BY <1>0, <1>3 DEF DiskInv, DiskShape
<1>5. NamesDistinct'
  BY <1>0 DEF DiskInv, NamesDistinct
<1>6. WritersKnown'
  BY <1>0, <1>4 DEF DiskInv, WritersKnown
<1>7. ASSUME NEW k \in Keys \ cut', NEW n \in {path[k], tmp[k]}, n # 0, content'[n] = "partial"
      PROVE  \E q \in Procs : cpc'[q] \in Writing /\ fd'[q] = n
  <2>1. n \in Inodes /\ bytes[n] = "partial" /\ Explained(n)
    BY <1>0, <1>3, <1>7 DEF DiskInv, DiskShape
  <2>2. n # i /\ content[n] = "partial"
    BY <1>2, <2>1
  <2>3. PICK q \in Procs : cpc[q] \in Writing /\ fd[q] = n
    BY <1>7, <2>1, <2>2 DEF Explained, BeingWritten
  <2>4. q # p
    BY <2>2, <2>3
  <2>5. QED
    BY <1>0, <1>4, <2>3, <2>4
<1>8. ASSUME NEW k \in Keys \ cut' PROVE Explained(path[k])' /\ Explained(tmp[k])'
  BY <1>0, <1>7, <1>8 DEF Explained, BeingWritten
<1>9. QED
  BY <1>4, <1>5, <1>6, <1>8 DEF DiskInv

LEMMA RenameDisk ==
  ASSUME MemInv, DiskInv, NEW p \in Procs, Rename(p), ~Ends(p) PROVE DiskInv'
<1> DEFINE k == arg[p]
<1>0. /\ cpc[p] = "rename" /\ k \in Keys /\ tmp[k] # 0 /\ path' = [path EXCEPT ![k] = tmp[k]]
      /\ tmp' = [tmp EXCEPT ![k] = 0] /\ Goto(p, "enter") /\ UNCHANGED <<arg, fd, cut>> /\ SetContent(content)
  BY DEF Rename, cacheCall, cacheHist, MemInv, MemShape
<1>1. /\ path' \in [Keys -> Inodes \cup {0}] /\ tmp' \in [Keys -> Inodes \cup {0}]
      /\ path'[k] = tmp[k] /\ tmp'[k] = 0
      /\ \A j \in Keys \ {k} : path'[j] = path[j] /\ tmp'[j] = tmp[j]
  BY <1>0 DEF DiskInv, DiskShape
<1>2. cpc'[p] = "enter" /\ \A q \in Procs \ {p} : cpc'[q] = cpc[q]
  BY <1>0 DEF Goto, MemInv, MemShape
<1>3. /\ content' \in [Inodes -> {"partial", "whole"}]
      /\ \A j \in Keys : path'[j] # 0 => content'[path'[j]] = content[path'[j]]
      /\ \A j \in Keys : tmp'[j] # 0 => content'[tmp'[j]] = content[tmp'[j]]
  BY <1>0, <1>1, NamedKeepBytes DEF DiskInv, DiskShape
<1> HIDE DEF k
<1>4. DiskShape'
  BY <1>0, <1>1, <1>3 DEF DiskInv, DiskShape
<1>5. NamesDistinct'
  BY <1>0, <1>1 DEF DiskInv, NamesDistinct
<1>6. WritersKnown'
  <2>1. ASSUME NEW q \in Procs, cpc'[q] \in Writing
        PROVE  fd'[q] # 0 /\ \A j \in Keys : fd'[q] \in {path'[j], tmp'[j]} => j = arg'[q]
    <3>1. /\ cpc[q] \in Writing /\ fd'[q] = fd[q] /\ arg'[q] = arg[q] /\ fd[q] # 0
          /\ \A j \in Keys : fd[q] \in {path[j], tmp[j]} => j = arg[q]
      BY <1>0, <1>2, <2>1 DEF DiskInv, WritersKnown, Writing
    <3>2. QED
      BY <1>0, <1>1, <3>1
  <2>2. QED
    BY <2>1 DEF WritersKnown
<1>7. \A n : BeingWritten(n) => BeingWritten(n)'
  BY <1>0, <1>2 DEF BeingWritten, Writing
<1>8. ASSUME NEW j \in Keys \ cut' PROVE Explained(path[j])' /\ Explained(tmp[j])'
  <2>1. Explained(path[j]) /\ Explained(tmp[j]) /\ j \in Keys
    BY <1>0, <1>8 DEF DiskInv
  <2>2. CASE j = k
    BY <1>1, <1>3, <1>7, <2>1, <2>2 DEF Explained, BeingWritten
  <2>3. CASE j # k
    BY <1>1, <1>3, <1>7, <2>1, <2>3 DEF Explained, BeingWritten
  <2>4. QED
    BY <2>2, <2>3
<1>9. QED
  BY <1>4, <1>5, <1>6, <1>8 DEF DiskInv

LEMMA SaveWriteDisk ==
  ASSUME MemInv, DiskInv, NEW p \in Procs, SaveWrite(p), missed[p] PROVE DiskInv'
<1>1. UNCHANGED <<fd, arg, path, tmp, content, cut>> /\ cpc[p] = "index" /\ cpc'[p] = "ready"
      /\ \A q \in Procs \ {p} : cpc'[q] = cpc[q]
  BY DEF SaveWrite, Goto, cacheCall, cacheHist, MemInv, MemShape
<1>2. DiskShape'
  BY <1>1 DEF DiskInv, DiskShape
<1>3. QED
  BY <1>1, <1>2, DiskKeeps DEF Writing

LEMMA StepDisk == ASSUME MemInv, DiskInv, NEW p \in Procs, StoreStep(p) PROVE DiskInv'
<1>1. CASE ReadAll(p) \/ WriteFails(p) \/ Killed(p)
  BY <1>1, EndingsDisk DEF ReadAll, WriteFails, Killed
<1>2. CASE Rename(p)
  BY <1>2, EndingsDisk, RenameDisk
<1>3. CASE SaveWrite(p)
  <2>1. CASE missed[p]
    BY <1>3, <2>1, SaveWriteDisk
  <2>2. CASE ~missed[p]
    BY <1>3, <2>2, EndingsDisk DEF SaveWrite
  <2>3. QED
    BY <2>1, <2>2
<1>4. QED
  BY <1>1, <1>2, <1>3, NewStoreDisk, GetDisk, RemovalsDisk, PutBytesDisk, PutDisk, WriteDoneDisk DEF StoreStep

LEMMA InitDisk == CacheInit => DiskInv
BY DEF CacheInit, DiskInv, DiskShape, NamesDistinct, WritersKnown, Writing, Explained

LEMMA NextDisk == MemInv /\ DiskInv /\ [CacheNext]_cacheVars => DiskInv'
<1>1. ASSUME MemInv, DiskInv, CacheNext PROVE DiskInv'
  BY <1>1, StepDisk DEF CacheNext, StoreStep
<1>2. ASSUME DiskInv, UNCHANGED cacheVars PROVE DiskInv'
  BY <1>2 DEF DiskInv, DiskShape, NamesDistinct, WritersKnown, Explained, BeingWritten, cacheVars
<1>3. QED
  BY <1>1, <1>2

(* A truncated object under its final name is being written right now, or  *)
(* a crash or a full disk cut a write of its key short (PutBytes in place, *)
(* Put through the temporary file that all writers of a key share).        *)
THEOREM TornObjectsExplained == CacheSpec => []TornExplained
<1>1. DiskInv => TornExplained
  BY DEF DiskInv, TornExplained, Explained, BeingWritten
<1>2. QED
  BY InitMem, NextMem, InitDisk, NextDisk, <1>1, PTL DEF CacheSpec

(* The state of the cache keeps its types: there is always a free inode,   *)
(* and no list of entries ever holds a key twice.                          *)
THEOREM CacheTypeCorrect == CacheSpec => []CacheTypeOK
<1>1. MemInv /\ DiskInv => CacheTypeOK
  BY DEF MemInv, MemShape, GoodList, DiskInv, DiskShape, CacheTypeOK, Places
<1>2. QED
  BY InitMem, NextMem, InitDisk, NextDisk, <1>1, PTL DEF CacheSpec

-----------------------------------------------------------------------------
(***************************************************************************)
(* What the executors answer and what they leave on disk, for any number   *)
(* of concurrent calls, identifiers and work loads.                        *)
(***************************************************************************)

Kinds == {"native", "docker", "flutter", "unity", "msvc"}
Tools == {"dir", "container", "daemon"}
Working == {"source", "hung", "image", "create", "start", "pubget", "run", "exited"}
Space == [source : ExecTasks \cup {Nobody}, output : ExecTasks \cup {Nobody}]
Result == [success : BOOLEAN, exit : -1..1, from : ExecTasks \cup {Nobody}, error : BOOLEAN]

(* The clean-ups a call can have deferred, the next one first. *)
Cleanups == {<<>>, <<"dir">>, <<"daemon", "dir">>, <<"container", "dir">>}
Listed(s) == {s[i] : i \in DOMAIN s}

ExecShape ==
  /\ xpc \in [ExecTasks -> Working \cup {"new", "unwind", "done"}]
  /\ request \in WorkLoads
  /\ expired \in [ExecTasks -> BOOLEAN]
  /\ workDir \in [ExecTasks -> Names \cup {NoName}]
  /\ workspaces \in [DOMAIN workspaces -> Space] /\ DOMAIN workspaces \subseteq Names
  /\ toolExit \in [ExecTasks -> -1..1]
  /\ defers \in [ExecTasks -> Cleanups]
  /\ held \in [ExecTasks -> SUBSET Tools]
  /\ leaked \in [ExecTasks -> SUBSET Tools]
  /\ answer \in [ExecTasks -> Result]

(* What is deferred at each stage: RemoveAll as long as the call works, the *)
(* container's removal once it exists, the daemon's stop for Flutter.       *)
StackKnown(t) ==
  /\ xpc[t] = "new" => held[t] = {} /\ defers[t] = <<>>
  /\ xpc[t] \in Working =>
       IF Kind(t) = "flutter" THEN defers[t] = <<"daemon", "dir">>
       ELSE defers[t] \in {<<"dir">>, <<"container", "dir">>}
  /\ xpc[t] \in {"source", "hung", "image", "create"} /\ Kind(t) # "flutter" => defers[t] = <<"dir">>
  /\ xpc[t] \in {"image", "create", "start"} => Kind(t) = "docker"
  /\ xpc[t] = "done" => defers[t] = <<>>

(* What is held is on the list of what will be removed, or was left there  *)
(* by a removal that failed.                                               *)
HeldKnown(t) ==
  /\ held[t] \subseteq leaked[t] \cup Listed(defers[t])
  /\ defers[t] # <<>> => "dir" \in held[t]

AnswerKnown(t) ==
  /\ xpc[t] \notin {"unwind", "done"} => answer[t] = NoAnswer
  /\ answer[t].success =>
       answer[t].exit = 0 /\ answer[t].from = t /\ toolExit[t] = 0 /\ ~expired[t]
  /\ answer[t].exit = -1 => expired[t] \/ toolExit[t] = -1

Holders == {t \in ExecTasks : "dir" \in held[t]}

(* Every workspace belongs to one call, and holds only what is that call's. *)
DirsKnown ==
  /\ DOMAIN workspaces = {workDir[t] : t \in Holders}
  /\ \A t, u \in Holders : workDir[t] = workDir[u] => t = u
  /\ \A t \in Holders : /\ workspaces[workDir[t]].source \in {t, Nobody}
                       /\ workspaces[workDir[t]].output \in {t, Nobody}

ExecInv ==
  /\ ExecShape
  /\ DirsKnown
  /\ \A t \in ExecTasks : StackKnown(t) /\ HeldKnown(t) /\ AnswerKnown(t)

-----------------------------------------------------------------------------
(* Lemmas about the model's operators *)

LEMMA ListedFacts ==
  /\ Listed(<<>>) = {} /\ Listed(<<"dir">>) = {"dir"}
  /\ Listed(<<"daemon", "dir">>) = {"daemon", "dir"}
  /\ Listed(<<"container", "dir">>) = {"container", "dir"}
BY DEF Listed

LEMMA KindType == ASSUME ExecShape, NEW t \in ExecTasks PROVE Kind(t) \in Kinds
BY DEF Kind, ExecutorOf, SelectForRequest, SelectForCompiler, SelectExecutor, Kinds

LEMMA AnswerType ==
  /\ /\ Unsuccessful(0, TRUE) \in Result
     /\ ~Unsuccessful(0, TRUE).success /\ Unsuccessful(0, TRUE).exit = 0
  /\ TimedOut \in Result /\ ~TimedOut.success
  /\ \A code \in -1..1 : Failed(code) \in Result /\ ~Failed(code).success /\ Failed(code).exit = code
BY DEF Unsuccessful, Result, TimedOut, Failed

LEMMA Stacked ==
  ASSUME NEW a \in Tools, NEW b \in Tools
  PROVE  <<a>> \o <<b>> = <<a, b>>
<1> DEFINE s == <<a>> \o <<b>>
<1>1. s \in Seq(Tools)
  OBVIOUS
<1>2. Len(s) = 2 /\ s[1] = a  /\ s[2] = b
  OBVIOUS
<1> HIDE DEF s
<1>3. s = <<s[1], s[2]>>
  BY <1>1, <1>2
<1>4. QED
  BY <1>2, <1>3 DEF s

(* A return: the answer is fixed and nothing else of the call changes. *)
LEMMA ReturnInv ==
  ASSUME ExecInv, NEW t \in ExecTasks, NEW a \in Result, Returns(t, a),
         UNCHANGED <<request, expired, workDir, workspaces, defers, held, leaked>>,
         toolExit' \in [ExecTasks -> -1..1], \A u \in ExecTasks \ {t} : toolExit'[u] = toolExit[u],
         a.success => a.exit = 0 /\ a.from = t /\ toolExit'[t] = 0 /\ ~expired[t],
         a.exit = -1 => expired[t] \/ toolExit'[t] = -1
  PROVE  ExecInv'
<1>1. ExecShape' /\ DirsKnown'
  <2>1. xpc' \in [ExecTasks -> Working \cup {"new", "unwind", "done"}] /\ answer' \in [ExecTasks -> Result]
    BY DEF ExecInv, ExecShape, Returns
  <2>2. ExecShape'
    BY <2>1 DEF ExecInv, ExecShape
  <2>3. DirsKnown'
    BY DEF ExecInv, DirsKnown, Holders
  <2>4. QED
    BY <2>2, <2>3
<1>2. ASSUME NEW u \in ExecTasks PROVE StackKnown(u)' /\ HeldKnown(u)' /\ AnswerKnown(u)'
  <2>1. CASE u = t
    <3>1. StackKnown(u)'
      BY <2>1 DEF ExecInv, ExecShape, StackKnown, Returns, Kind, Working
    <3>2. HeldKnown(u)'
      BY <2>1 DEF ExecInv, ExecShape, HeldKnown, Returns
    <3>3. xpc'[u] \notin Working /\ answer'[u] = a
      BY <2>1 DEF ExecInv, ExecShape, Returns, Working
    <3>4. AnswerKnown(u)'
      <4>1. expired'[u] = expired[t] /\ xpc'[u] = "unwind"
        BY <2>1 DEF ExecInv, ExecShape, Returns
      <4>2. QED
        BY <2>1, <3>3, <4>1, Zenon DEF AnswerKnown
    <3>5. QED
      BY <3>1, <3>2, <3>4
  <2>2. CASE u # t
    <3>1. StackKnown(u)' /\ HeldKnown(u)'
      BY <2>2 DEF ExecInv, ExecShape, StackKnown, HeldKnown, Returns, Kind
    <3>2. AnswerKnown(u)'
      BY <2>2 DEF ExecInv, ExecShape, AnswerKnown, Returns
    <3>3. QED
      BY <3>1, <3>2
  <2>3. QED
    BY <2>1, <2>2
<1>3. QED
  BY <1>1, <1>2 DEF ExecInv

(* A move to the next stage. *)
LEMMA MoveInv ==
  ASSUME ExecInv, NEW t \in ExecTasks, NEW from, NEW to \in Working \cup {"done"}, At(t, from, to),
         UNCHANGED <<request, expired, workDir, workspaces, toolExit, defers, held, leaked, answer>>,
         \/ from = "source" /\ to = "hung"
         \/ from = "image" /\ to = "create"
         \/ from \in {"start", "pubget"} /\ to = "run"
         \/ from = "unwind" /\ to = "done" /\ defers[t] = <<>>
  PROVE  ExecInv'
<1>1. ExecShape' /\ DirsKnown'
  BY DEF ExecInv, ExecShape, DirsKnown, Holders, At
<1>2. ASSUME NEW u \in ExecTasks PROVE StackKnown(u)' /\ HeldKnown(u)' /\ AnswerKnown(u)'
  <2>1. CASE u = t
    BY <2>1 DEF ExecInv, ExecShape, StackKnown, HeldKnown, AnswerKnown, At, Kind, Working
  <2>2. CASE u # t
    BY <2>2 DEF ExecInv, ExecShape, StackKnown, HeldKnown, AnswerKnown, At, Kind
  <2>3. QED
    BY <2>1, <2>2
<1>3. QED
  BY <1>1, <1>2 DEF ExecInv

-----------------------------------------------------------------------------
(* The actions *)

(* Whoever works holds a workspace, and it is on disk. *)
LEMMA WorkingHolds ==
  ASSUME ExecInv, NEW t \in ExecTasks, xpc[t] \in Working
  PROVE  /\ t \in Holders /\ workDir[t] \in DOMAIN workspaces
         /\ workspaces[workDir[t]].source \in {t, Nobody}
         /\ workspaces[workDir[t]].output \in {t, Nobody}
<1>1. defers[t] # <<>>
  BY DEF ExecInv, StackKnown
<1>2. t \in Holders
  BY <1>1 DEF ExecInv, HeldKnown, Holders
<1>3. QED
  BY <1>2 DEF ExecInv, DirsKnown

LEMMA ErrorInv ==
  ASSUME ExecInv, NEW t \in ExecTasks, ReturnsError(t),
         UNCHANGED <<request, expired, workDir, workspaces, toolExit, defers, held, leaked>>
  PROVE  ExecInv'
<1> DEFINE a == Unsuccessful(0, TRUE)
<1>1. a \in Result /\ ~a.success /\ a.exit = 0
  BY AnswerType
<1>2. Returns(t, a)
  BY DEF ReturnsError
<1> HIDE DEF a
<1>3. QED
  BY <1>1, <1>2, ReturnInv DEF ExecInv, ExecShape

LEMMA TimedOutInv ==
  ASSUME ExecInv, NEW t \in ExecTasks, Timeout(t)
  PROVE  ExecInv'
<1>1. TimedOut \in Result /\ ~TimedOut.success /\ expired[t]
  BY AnswerType DEF Timeout
<1>2. QED
  BY <1>1, ReturnInv DEF Timeout, ExecInv, ExecShape

LEMMA PubGetFailsInv ==
  ASSUME ExecInv, NEW t \in ExecTasks, PubGetFails(t)
  PROVE  ExecInv'
<1>1. PICK code \in {-1, 1} : toolExit' = [toolExit EXCEPT ![t] = code] /\ Returns(t, Failed(code))
  BY DEF PubGetFails
<1>2. Failed(code) \in Result /\ ~Failed(code).success /\ Failed(code).exit = code
  BY AnswerType
<1>3. /\ toolExit' \in [ExecTasks -> -1..1] /\ toolExit'[t] = code
      /\ \A u \in ExecTasks \ {t} : toolExit'[u] = toolExit[u]
  BY <1>1 DEF ExecInv, ExecShape
<1>4. QED
  BY <1>1, <1>2, <1>3, ReturnInv DEF PubGetFails

LEMMA CollectInv ==
  ASSUME ExecInv, NEW t \in ExecTasks, Collect(t)
  PROVE  ExecInv'
<1>1. /\ workspaces[workDir[t]].output \in {t, Nobody}
      /\ toolExit[t] \in -1..1
  BY WorkingHolds DEF Collect, Working, ExecInv, ExecShape
<1>2. ResultOf(t) \in Result
  BY <1>1, AnswerType DEF ResultOf, Result
<1>3. /\ ResultOf(t).success =>
           ResultOf(t).exit = 0 /\ ResultOf(t).from = t /\ toolExit[t] = 0 /\ ~expired[t]
      /\ ResultOf(t).exit = -1 => expired[t] \/ toolExit[t] = -1
  BY <1>1, AnswerType DEF ResultOf, Collect
<1>4. QED
  BY <1>2, <1>3, ReturnInv DEF Collect, ExecInv, ExecShape

LEMMA WriteSourceInv ==
  ASSUME ExecInv, NEW t \in ExecTasks, WriteSource(t)
  PROVE  ExecInv'
<1>0. /\ xpc[t] = "source" /\ xpc' = [xpc EXCEPT ![t] = AfterSource(t)]
      /\ AfterSource(t) \in {"image", "pubget", "run"}
      /\ AfterSource(t) = "image" => Kind(t) = "docker"
  BY DEF WriteSource, At, AfterSource
<1>1. /\ t \in Holders /\ workDir[t] \in DOMAIN workspaces
      /\ workspaces[workDir[t]].output \in {t, Nobody}
  BY <1>0, WorkingHolds DEF Working
<1>2. /\ DOMAIN workspaces' = DOMAIN workspaces
      /\ workspaces'[workDir[t]].source = t
      /\ workspaces'[workDir[t]].output = workspaces[workDir[t]].output
      /\ \A n \in DOMAIN workspaces : n # workDir[t] => workspaces'[n] = workspaces[n]
      /\ workspaces' \in [DOMAIN workspaces' -> Space]
  BY <1>1 DEF WriteSource, ExecInv, ExecShape, Space
<1>3. ExecShape'
  BY <1>0, <1>2 DEF WriteSource, ExecInv, ExecShape, Working
<1>4. DirsKnown'
  BY <1>1, <1>2 DEF WriteSource, ExecInv, DirsKnown, Holders
<1>5. ASSUME NEW u \in ExecTasks PROVE StackKnown(u)' /\ HeldKnown(u)' /\ AnswerKnown(u)'
  <2>1. CASE u = t
    BY <1>0, <2>1 DEF ExecInv, ExecShape, StackKnown, HeldKnown, AnswerKnown, WriteSource, Kind, Working
  <2>2. CASE u # t
    BY <1>0, <2>2 DEF ExecInv, ExecShape, StackKnown, HeldKnown, AnswerKnown, WriteSource, Kind
  <2>3. QED
    BY <2>1, <2>2
<1>6. QED
  BY <1>3, <1>4, <1>5 DEF ExecInv

LEMMA ContainerCreateInv ==
  ASSUME ExecInv, NEW t \in ExecTasks, ContainerCreate(t)
  PROVE  ExecInv'
<1>0. /\ xpc[t] = "create" /\ xpc' = [xpc EXCEPT ![t] = "start"] /\ Kind(t) = "docker"
      /\ defers[t] = <<"dir">> /\ "dir" \in held[t]
  BY DEF ContainerCreate, At, ExecInv, StackKnown, HeldKnown, Working
<1>1. /\ defers' = [defers EXCEPT ![t] = <<"container", "dir">>]
      /\ held' = [held EXCEPT ![t] = @ \cup {"container"}]
  <2>1. <<"container">> \o <<"dir">> = <<"container", "dir">>
    BY Stacked DEF Tools
  <2>2. QED
    BY <1>0, <2>1, Zenon DEF ContainerCreate, Defer, Holds
<1>2. Holders' = Holders
  BY <1>0, <1>1 DEF Holders, ExecInv, ExecShape
<1>3. ExecShape'
  BY <1>0, <1>1 DEF ContainerCreate, ExecInv, ExecShape, Working, Cleanups, Tools
<1>4. DirsKnown'
  BY <1>2 DEF ContainerCreate, ExecInv, DirsKnown
<1>5. ASSUME NEW u \in ExecTasks PROVE StackKnown(u)' /\ HeldKnown(u)' /\ AnswerKnown(u)'
  <2>1. CASE u = t
    <3>1. StackKnown(u)' /\ AnswerKnown(u)'
      BY <1>0, <1>1, <2>1 DEF ExecInv, ExecShape, StackKnown, AnswerKnown, ContainerCreate, Kind, Working
    <3>2. HeldKnown(u)'
      BY <1>0, <1>1, <2>1, ListedFacts DEF ExecInv, ExecShape, HeldKnown, ContainerCreate
    <3>3. QED
      BY <3>1, <3>2
  <2>2. CASE u # t
    BY <1>0, <1>1, <2>2 DEF ExecInv, ExecShape, StackKnown, HeldKnown, AnswerKnown, ContainerCreate, Kind
  <2>3. QED
    BY <2>1, <2>2
<1>6. QED
  BY <1>3, <1>4, <1>5 DEF ExecInv

LEMMA ToolExitsInv ==
  ASSUME ExecInv, NEW t \in ExecTasks, NEW code \in -1..1, NEW made \in BOOLEAN, ToolExits(t, code, made)
  PROVE  ExecInv'
<1>0. /\ xpc[t] = "run" /\ xpc' = [xpc EXCEPT ![t] = "exited"]
      /\ toolExit' = [toolExit EXCEPT ![t] = code] /\ answer[t] = NoAnswer
      /\ held' = [held EXCEPT ![t] = @ \cup (IF Kind(t) = "flutter" THEN {"daemon"} ELSE {})]
  BY DEF ToolExits, At, Holds, ExecInv, AnswerKnown
<1>1. /\ t \in Holders /\ workDir[t] \in DOMAIN workspaces
      /\ workspaces[workDir[t]].source \in {t, Nobody}
      /\ workspaces[workDir[t]].output \in {t, Nobody}
  BY <1>0, WorkingHolds DEF Working
<1>2. /\ DOMAIN workspaces' = DOMAIN workspaces
      /\ workspaces'[workDir[t]].source \in {t, Nobody}
      /\ workspaces'[workDir[t]].output \in {t, Nobody}
      /\ \A n \in DOMAIN workspaces : n # workDir[t] => workspaces'[n] = workspaces[n]
      /\ workspaces' \in [DOMAIN workspaces' -> Space]
  <2>1. CASE made
    BY <1>1, <2>1 DEF ToolExits, ExecInv, ExecShape, Space
  <2>2. CASE ~made
    BY <1>1, <2>2 DEF ToolExits, ExecInv, ExecShape
  <2>3. QED
    BY <2>1, <2>2
<1>3. Holders' = Holders
  BY <1>0 DEF Holders, ExecInv, ExecShape
<1>4. ExecShape'
  BY <1>0, <1>2 DEF ToolExits, ExecInv, ExecShape, Working, Tools
<1>5. DirsKnown'
  BY <1>1, <1>2, <1>3 DEF ToolExits, ExecInv, DirsKnown
<1>6. ASSUME NEW u \in ExecTasks PROVE StackKnown(u)' /\ HeldKnown(u)' /\ AnswerKnown(u)'
  <2>1. CASE u = t
    <3>1. StackKnown(u)' /\ AnswerKnown(u)'
      BY <1>0, <2>1 DEF ExecInv, ExecShape, StackKnown, AnswerKnown, ToolExits, Kind, Working, NoAnswer, Unsuccessful
    <3>2. HeldKnown(u)'
      BY <1>0, <2>1, ListedFacts DEF ExecInv, ExecShape, StackKnown, HeldKnown, ToolExits, Working
    <3>3. QED
      BY <3>1, <3>2
  <2>2. CASE u # t
    BY <1>0, <2>2 DEF ExecInv, ExecShape, StackKnown, HeldKnown, AnswerKnown, ToolExits, Kind
  <2>3. QED
    BY <2>1, <2>2
<1>7. QED
  BY <1>4, <1>5, <1>6 DEF ExecInv

(* A number is left for every call that has no workspace yet: the names   *)
(* with its prefix belong to other calls.                                 *)
LEMMA NameIsFree ==
  ASSUME ExecInv, NEW t \in ExecTasks, t \notin Holders
  PROVE  WorkDirName(t) \in Names /\ WorkDirName(t) \notin DOMAIN workspaces
<1> DEFINE N == Cardinality(ExecTasks)
           Name(m) == <<Kind(t), IdOf[t], m>>
           Free == {m \in 1..N : Name(m) \notin DOMAIN workspaces}
<1>1. N \in Nat /\ IsFiniteSet(Holders) /\ Cardinality(Holders) < N
  <2>1. /\ IsFiniteSet(ExecTasks \ {t}) /\ Cardinality(ExecTasks \ {t}) = N - 1 /\ N \in Nat
    BY FS_RemoveElement, FS_CardinalityType, ExecAssumption
  <2>2. Holders \subseteq ExecTasks \ {t}
    BY DEF Holders
  <2>3. IsFiniteSet(Holders) /\ Cardinality(Holders) <= Cardinality(ExecTasks \ {t})
    BY <2>1, <2>2, FS_Subset
  <2>4. Cardinality(Holders) \in Nat
    BY <2>3, FS_CardinalityType
  <2>5. QED
    BY <2>1, <2>3, <2>4
<1>2. Free # {}
  <2> SUFFICES ASSUME Free = {} PROVE FALSE
    OBVIOUS
  <2>1. \A m \in 1..N : \E u \in Holders : workDir[u] = Name(m)
    BY DEF ExecInv, DirsKnown
  <2> DEFINE f == [m \in 1..N |-> CHOOSE u \in Holders : workDir[u] = Name(m)]
  <2>2. f \in [1..N -> Holders] /\ \A m \in 1..N : workDir[f[m]] = Name(m)
    BY <2>1
  <2>3. IsFiniteSet(1..N) /\ Cardinality(1..N) = N
    BY <1>1, FS_Interval
  <2> HIDE DEF f
  <2>4. \E x, y \in 1..N : x # y /\ f[x] = f[y]
    BY <1>1, <2>2, <2>3, FS_PigeonHole
  <2>5. QED
    BY <2>2, <2>4
<1>3. Min(Free) \in Free
  <2>1. Free \subseteq Nat
    BY <1>1
  <2> HIDE DEF Free
  <2>2. QED
    BY <1>2, <2>1, MinOfNats
<1>4. WorkDirName(t) = Name(Min(Free))
  BY DEF WorkDirName
<1>5. Min(Free) \in 0..N /\ Name(Min(Free)) \notin DOMAIN workspaces
  BY <1>1, <1>3
<1>6. Kind(t) \in Kinds
  BY KindType DEF ExecInv
<1> HIDE DEF Free
<1>7. QED
  BY <1>4, <1>5, <1>6 DEF Names, Kinds

LEMMA MkdirTempInv ==
  ASSUME ExecInv, NEW t \in ExecTasks, MkdirTemp(t)
  PROVE  ExecInv'
<1> DEFINE n == WorkDirName(t)
           s == IF Kind(t) = "flutter" THEN <<"daemon", "dir">> ELSE <<"dir">>
<1>0. /\ xpc[t] = "new" /\ xpc' = [xpc EXCEPT ![t] = "source"] /\ held[t] = {} /\ defers[t] = <<>>
      /\ t \notin Holders /\ answer[t] = NoAnswer
  BY DEF MkdirTemp, At, ExecInv, StackKnown, AnswerKnown, Holders
<1>1. n \in Names /\ n \notin DOMAIN workspaces
  BY <1>0, NameIsFree
<1>2. /\ workDir' = [workDir EXCEPT ![t] = n]
      /\ workspaces' = [m \in DOMAIN workspaces \cup {n} |->
                          IF m \in DOMAIN workspaces THEN workspaces[m]
                          ELSE [source |-> Nobody, output |-> Nobody]]
  BY DEF MkdirTemp
<1> HIDE DEF n
<1>3. /\ DOMAIN workspaces' = DOMAIN workspaces \cup {n}
      /\ workspaces'[n].source = Nobody /\ workspaces'[n].output = Nobody
      /\ \A m \in DOMAIN workspaces : workspaces'[m] = workspaces[m]
      /\ workspaces' \in [DOMAIN workspaces' -> Space]
  BY <1>1, <1>2 DEF ExecInv, ExecShape, Space
<1>4. defers' = [defers EXCEPT ![t] = s] /\ held' = [held EXCEPT ![t] = {"dir"}]
  <2>1. s \o <<>> = s
    OBVIOUS
  <2>2. {} \cup {"dir"} = {"dir"}
    OBVIOUS
  <2>3. QED
    BY <1>0, <2>1, <2>2, Zenon DEF MkdirTemp, Defer, Holds
<1>5. Holders' = Holders \cup {t}
  BY <1>4 DEF Holders, ExecInv, ExecShape
<1>6. ExecShape'
  <2>1. s \in Cleanups
    BY DEF Cleanups
  <2> HIDE DEF s
  <2>2. QED
    BY <1>0, <1>1, <1>2, <1>3, <1>4, <2>1 DEF MkdirTemp, ExecInv, ExecShape, Working, Tools
<1>7. DirsKnown'
  <2>1. workDir'[t] = n /\ \A u \in Holders : u # t /\ workDir'[u] = workDir[u] /\ workDir[u] # n
    BY <1>0, <1>1, <1>2 DEF ExecInv, ExecShape, DirsKnown, Holders
  <2>2. DOMAIN workspaces' = {workDir'[u] : u \in Holders'}
    BY <1>3, <1>5, <2>1 DEF ExecInv, DirsKnown
  <2>3. \A u, v \in Holders' : workDir'[u] = workDir'[v] => u = v
    BY <1>5, <2>1 DEF ExecInv, DirsKnown
  <2>4. \A u \in Holders' : /\ workspaces'[workDir'[u]].source \in {u, Nobody}
                            /\ workspaces'[workDir'[u]].output \in {u, Nobody}
    BY <1>3, <1>5, <2>1 DEF ExecInv, DirsKnown
  <2>5. QED
    BY <2>2, <2>3, <2>4 DEF DirsKnown
<1>8. ASSUME NEW u \in ExecTasks PROVE StackKnown(u)' /\ HeldKnown(u)' /\ AnswerKnown(u)'
  <2>1. CASE u = t
    <3>1. StackKnown(u)'
      BY <1>0, <1>4, <2>1 DEF ExecInv, ExecShape, StackKnown, MkdirTemp, Kind, Working
    <3>2. AnswerKnown(u)'
      BY <1>0, <2>1 DEF ExecInv, AnswerKnown, MkdirTemp
    <3>3. HeldKnown(u)'
      BY <1>4, <2>1, ListedFacts DEF ExecInv, ExecShape, HeldKnown
    <3>4. QED
      BY <3>1, <3>2, <3>3
  <2>2. CASE u # t
    BY <1>0, <1>4, <2>2 DEF ExecInv, ExecShape, StackKnown, HeldKnown, AnswerKnown, MkdirTemp, Kind
  <2>3. QED
    BY <2>1, <2>2
<1>9. QED
  BY <1>6, <1>7, <1>8 DEF ExecInv

(* The clean-up that runs next, and what is left. *)
LEMMA NextCleanup ==
  ASSUME NEW s \in Cleanups, s # <<>>
  PROVE  /\ Tail(s) \in Cleanups /\ Head(s) \in Tools
         /\ Listed(s) = Listed(Tail(s)) \cup {Head(s)}
         /\ Head(s) = "dir" <=> Tail(s) = <<>>
<1>1. CASE s = <<"dir">>
  BY <1>1, ListedFacts DEF Cleanups, Tools
<1>2. CASE s = <<"daemon", "dir">>
  <2>1. Tail(s) = <<"dir">> /\ Head(s) = "daemon"
    BY <1>2
  <2>2. QED
    BY <1>2, <2>1, ListedFacts DEF Cleanups, Tools
<1>3. CASE s = <<"container", "dir">>
  <2>1. Tail(s) = <<"dir">> /\ Head(s) = "container"
    BY <1>3
  <2>2. QED
    BY <1>3, <2>1, ListedFacts DEF Cleanups, Tools
<1>4. QED
  BY <1>1, <1>2, <1>3 DEF Cleanups

LEMMA UnwindInv ==
  ASSUME ExecInv, NEW t \in ExecTasks, NEW ok \in BOOLEAN, Unwind(t, ok)
  PROVE  ExecInv'
<1> DEFINE d == Head(defers[t])
           s == Tail(defers[t])
<1>0. /\ xpc[t] = "unwind" /\ defers[t] # <<>> /\ defers[t] \in Cleanups /\ t \in Holders
      /\ defers' = [defers EXCEPT ![t] = s]
      /\ held' = IF ok THEN [held EXCEPT ![t] = @ \ {d}] ELSE held
      /\ leaked' = IF ok THEN leaked ELSE [leaked EXCEPT ![t] = @ \cup {d}]
      /\ workspaces' = IF d = "dir" /\ ok THEN [n \in DOMAIN workspaces \ {workDir[t]} |-> workspaces[n]]
                       ELSE workspaces
      /\ UNCHANGED <<xpc, request, expired, workDir, toolExit, answer>>
  BY DEF Unwind, ExecInv, ExecShape, HeldKnown, Holders
<1>1. /\ s \in Cleanups /\ d \in Tools
      /\ Listed(defers[t]) = Listed(s) \cup {d} /\ (d = "dir" <=> s = <<>>)
  BY <1>0, NextCleanup
<1> HIDE DEF d, s
<1>2. workspaces' \in [DOMAIN workspaces' -> Space] /\ DOMAIN workspaces' \subseteq Names
  BY <1>0 DEF ExecInv, ExecShape
<1>3. ExecShape'
  <2>1. held' \in [ExecTasks -> SUBSET Tools] /\ leaked' \in [ExecTasks -> SUBSET Tools]
    BY <1>0, <1>1 DEF ExecInv, ExecShape
  <2>2. QED
    BY <1>0, <1>1, <1>2, <2>1 DEF ExecInv, ExecShape
<1>4. DirsKnown'
  <2>1. CASE d = "dir" /\ ok
    <3>1. Holders' = Holders \ {t}
      BY <1>0, <2>1 DEF Holders, ExecInv, ExecShape
    <3>2. /\ DOMAIN workspaces' = DOMAIN workspaces \ {workDir[t]}
          /\ \A n \in DOMAIN workspaces' : workspaces'[n] = workspaces[n]
      BY <1>0, <2>1
    <3>3. QED
      BY <1>0, <3>1, <3>2, SMTT(30) DEF ExecInv, DirsKnown
  <2>2. CASE ~(d = "dir" /\ ok)
    <3>1. Holders' = Holders
      BY <1>0, <2>2 DEF Holders, ExecInv, ExecShape
    <3>2. workspaces' = workspaces
      BY <1>0, <2>2
    <3>3. QED
      BY <1>0, <3>1, <3>2 DEF ExecInv, DirsKnown
  <2>3. QED
    BY <2>1, <2>2
<1>5. ASSUME NEW u \in ExecTasks PROVE StackKnown(u)' /\ HeldKnown(u)' /\ AnswerKnown(u)'
  <2>1. CASE u = t
    <3>1. StackKnown(u)' /\ AnswerKnown(u)'
      BY <1>0, <2>1 DEF ExecInv, StackKnown, AnswerKnown, Working
    <3>2. HeldKnown(u)'
      <4>1. held[t] \subseteq leaked[t] \cup Listed(s) \cup {d} /\ "dir" \in held[t]
        BY <1>0, <1>1 DEF ExecInv, HeldKnown
      <4>2. defers'[t] = s
        BY <1>0 DEF ExecInv, ExecShape
      <4>3. CASE ok
        <5>1. held'[t] = held[t] \ {d} /\ leaked'[t] = leaked[t]
          BY <1>0, <4>3 DEF ExecInv, ExecShape
        <5>2. QED
          BY <1>1, <2>1, <4>1, <4>2, <5>1 DEF HeldKnown
      <4>4. CASE ~ok
        <5>1. held'[t] = held[t] /\ leaked'[t] = leaked[t] \cup {d}
          BY <1>0, <4>4 DEF ExecInv, ExecShape
        <5>2. QED
          BY <1>1, <2>1, <4>1, <4>2, <5>1 DEF HeldKnown
      <4>5. QED
        BY <4>3, <4>4
    <3>3. QED
      BY <3>1, <3>2
  <2>2. CASE u # t
    BY <1>0, <2>2 DEF ExecInv, ExecShape, StackKnown, HeldKnown, AnswerKnown, Kind
  <2>3. QED
    BY <2>1, <2>2
<1>6. QED
  BY <1>3, <1>4, <1>5 DEF ExecInv

LEMMA DeadlineInv ==
  ASSUME ExecInv, NEW t \in ExecTasks, DeadlinePasses(t)
  PROVE  ExecInv'
<1>1. ExecShape' /\ DirsKnown'
  BY DEF ExecInv, ExecShape, DirsKnown, Holders, DeadlinePasses
<1>2. ASSUME NEW u \in ExecTasks PROVE StackKnown(u)' /\ HeldKnown(u)' /\ AnswerKnown(u)'
  <2>1. StackKnown(u)' /\ HeldKnown(u)'
    BY DEF ExecInv, StackKnown, HeldKnown, Kind, DeadlinePasses
  <2>2. CASE u = t
    <3>1. answer'[u] = NoAnswer
      BY <2>2 DEF ExecInv, AnswerKnown, DeadlinePasses
    <3>2. NoAnswer.success = FALSE /\ NoAnswer.exit = 0
      BY DEF NoAnswer, Unsuccessful
    <3>3. ~NoAnswer.success /\ NoAnswer.exit # -1
      BY <3>2
    <3>4. QED
      BY <2>1, <3>1, <3>3, Zenon DEF AnswerKnown
  <2>3. CASE u # t
    <3>1. expired'[u] = expired[u] /\ xpc'[u] = xpc[u] /\ answer'[u] = answer[u] /\ toolExit'[u] = toolExit[u]
      BY <2>3 DEF ExecInv, ExecShape, DeadlinePasses
    <3>2. QED
      <4>1. AnswerKnown(u)
        BY DEF ExecInv
      <4>2. QED
        BY <2>1, <3>1, <4>1, Zenon DEF AnswerKnown
  <2>4. QED
    BY <2>2, <2>3
<1>3. QED
  BY <1>1, <1>2 DEF ExecInv

LEMMA ErrorsInv ==
  ASSUME ExecInv, NEW t \in ExecTasks,
         \/ RefuseRequest(t) \/ MkdirTempFails(t) \/ WriteSourceFails(t) \/ DockerCallFails(t)
         \/ ToolUnavailable(t) \/ LogsFail(t)
  PROVE  ExecInv'
BY ErrorInv DEF RefuseRequest, MkdirTempFails, WriteSourceFails, DockerCallFails, ToolUnavailable, LogsFail

LEMMA MovesInv ==
  ASSUME ExecInv, NEW t \in ExecTasks,
         ExtractionHangs(t) \/ EnsureImage(t) \/ ContainerStart(t) \/ PubGet(t) \/ Answered(t)
  PROVE  ExecInv'
BY MoveInv DEF ExtractionHangs, EnsureImage, ContainerStart, PubGet, Answered, Working

-----------------------------------------------------------------------------
(* The theorems *)

LEMMA ExecInitInv == ExecInit => ExecInv
<1> SUFFICES ASSUME ExecInit PROVE ExecInv
  OBVIOUS
<1>1. workspaces \in [DOMAIN workspaces -> Space] /\ DOMAIN workspaces = {}
  BY DEF ExecInit
<1>2. Holders = {}
  BY DEF ExecInit, Holders
<1>3. NoAnswer \in Result /\ ~NoAnswer.success /\ NoAnswer.exit = 0
  BY DEF NoAnswer, Unsuccessful, Result
<1>4. ExecShape
  BY <1>1, <1>3 DEF ExecInit, ExecShape, Cleanups
<1>5. DirsKnown
  BY <1>1, <1>2 DEF DirsKnown
<1>6. \A t \in ExecTasks : StackKnown(t) /\ HeldKnown(t) /\ AnswerKnown(t)
  BY <1>3, ListedFacts DEF ExecInit, StackKnown, HeldKnown, AnswerKnown, Working
<1>7. QED
  BY <1>4, <1>5, <1>6 DEF ExecInv

LEMMA ExecNextInv == ExecInv /\ [ExecNext]_execVars => ExecInv'
<1> SUFFICES ASSUME ExecInv, [ExecNext]_execVars PROVE ExecInv'
  OBVIOUS
<1>1. CASE UNCHANGED execVars
  BY <1>1 DEF execVars, ExecInv, ExecShape, DirsKnown, Holders, StackKnown, HeldKnown, AnswerKnown, Kind
<1>2. ASSUME NEW t \in ExecTasks, ExecutorStep(t) PROVE ExecInv'
  BY <1>2, ErrorsInv, MovesInv, TimedOutInv, PubGetFailsInv, CollectInv, WriteSourceInv, MkdirTempInv, ContainerCreateInv,
     UnwindInv DEF ExecutorStep
<1>3. ASSUME NEW t \in ExecTasks,
             PubGet(t) \/ ToolUnavailable(t) \/ DeadlinePasses(t)
               \/ \E code \in -1..1, made \in BOOLEAN : ToolExits(t, code, made)
      PROVE  ExecInv'
  BY <1>3, ErrorsInv, MovesInv, DeadlineInv, ToolExitsInv
<1>4. QED
  BY <1>1, <1>2, <1>3 DEF ExecNext

THEOREM ExecInvariant == ExecSpec => []ExecInv
BY ExecInitInv, ExecNextInv, PTL DEF ExecSpec

(* The types of the executors' state.                                      *)
THEOREM ExecTypeCorrect == ExecSpec => []ExecTypeOK
<1>1. ASSUME NEW s \in Cleanups PROVE s \in Seq(Tools)
  <2>1. \A a, b \in Tools : <<a>> \in Seq(Tools) /\ <<a, b>> \in Seq(Tools)
    OBVIOUS
  <2>2. "dir" \in Tools /\ "daemon" \in Tools /\ "container" \in Tools
    BY DEF Tools
  <2>3. <<>> \in Seq(Tools)
    OBVIOUS
  <2>4. QED
    BY <2>1, <2>2, <2>3, Zenon DEF Cleanups
<1>2. ExecInv => ExecTypeOK
  BY <1>1 DEF ExecInv, ExecShape, ExecTypeOK, Working, Tools, Space, Result
<1>3. QED
  BY <1>2, ExecInvariant, PTL

(* Execute answers success only for a tool that exited 0 and left an output *)
(* made from this call's own source, whatever runs beside it in the same   *)
(* temporary directory, and never after the deadline; -1 means that the    *)
(* deadline passed or that a signal ended the tool.                        *)
THEOREM AnswersAreJustified == ExecSpec => []AnswerJustified
<1>1. ExecInv => AnswerJustified
  BY DEF ExecInv, AnswerKnown, AnswerJustified
<1>2. QED
  BY <1>1, ExecInvariant, PTL

(* The deferred clean-ups of the executors leave nothing behind that they   *)
(* did not fail to remove, and no workspace exists that nobody holds.      *)
THEOREM NothingIsLeftBehind == ExecSpec => []NothingLeftBehind
<1>1. ExecInv => NothingLeftBehind
  BY ListedFacts DEF ExecInv, NothingLeftBehind, HeldKnown, StackKnown, DirsKnown, Holders
<1>2. QED
  BY <1>1, ExecInvariant, PTL

-----------------------------------------------------------------------------
(***************************************************************************)
(* The dashboard hub, for any number of viewers and events and any         *)
(* capacity of its channels.                                               *)
(*                                                                         *)
(* Neither property is inductive.  A viewer that is not registered yet     *)
(* (Waiting) must be unknown to the hub with its channel open, and must    *)
(* find every kept event in recentEvents, unless the limit cost it one.    *)
(***************************************************************************)

Waiting(v) == reader[v] \in {"none", "registering"}

Sent == Events \cup {"stats", "pong"}

(* The types the argument is about. *)
HubShape ==
  /\ clients \subseteq Viewers
  /\ posted \in [Events -> 0..2]
  /\ queue \in Seq(Sent) /\ recentEvents \in Seq(Sent)
  /\ conn \in [Viewers -> {"none", "open", "closed"}]
  /\ reader \in [Viewers -> {"none", "registering", "reading", "leaving", "gone"}]
  /\ writer \in [Viewers -> {"none", "running", "gone"}]
  /\ send \in [Viewers -> Seq(Sent)]
  /\ sendClosed \in [Viewers -> BOOLEAN]
  /\ got \in [Viewers -> SUBSET Events]
  /\ skipped \in [Viewers -> SUBSET Sent]

WaitingIsFresh ==
  \A v \in Viewers :
    /\ conn[v] = "none" => reader[v] = "none"
    /\ Waiting(v) => v \notin clients /\ writer[v] = "none" /\ ~sendClosed[v]

ChannelInv == HubShape /\ WaitingIsFresh /\ ChannelsMatchClients

-----------------------------------------------------------------------------
(* Channels and clients *)

(* Steps that leave the client map, the channels and the pumps alone. *)
LEMMA ChannelsQuiet ==
  ASSUME ChannelInv, HubShape', UNCHANGED <<clients, sendClosed>>,
         \A v \in Viewers : /\ conn'[v] = "none" => conn[v] = "none"
                            /\ reader[v] = "none" => reader'[v] = "none"
                            /\ Waiting(v)' => Waiting(v)
                            /\ (writer'[v] = "none") <=> (writer[v] = "none")
  PROVE  ChannelInv'
BY DEF ChannelInv, HubShape, WaitingIsFresh, ChannelsMatchClients

(* Broadcasting keeps the types. *)
LEMMA BroadcastShape ==
  ASSUME HubShape, NEW e \in Events, Broadcast(e)
  PROVE  HubShape'
<1>1. /\ posted' = [posted EXCEPT ![e] = posted[e] + 1] /\ posted[e] \in {0, 1}
      /\ UNCHANGED <<clients, conn, reader, writer, send, sendClosed, got>>
  BY DEF Broadcast, hubPumps, HubShape
<1>2. KeepEvent(e) \/ QueueEvent(e)
  BY DEF Broadcast
<1>3. e \in Sent
  BY DEF Sent
<1>4. /\ recentEvents' \in Seq(Sent) /\ queue' \in Seq(Sent)
      /\ skipped' \in [Viewers -> SUBSET Sent]
  <2>1. CASE KeepEvent(e)
    <3> DEFINE all == Append(recentEvents, e)
    <3>1. all \in Seq(Sent) /\ all # <<>>
      <4>1. recentEvents \in Seq(Sent)
        BY DEF HubShape
      <4>2. all \in Seq(Sent) /\ Len(all) = Len(recentEvents) + 1 /\ Len(recentEvents) \in Nat
        BY <1>3, <4>1
      <4>3. QED
        BY <4>2
    <3>2. Tail(all) \in Seq(Sent) /\ Head(all) \in Sent
      BY <3>1
    <3>3. recentEvents' \in {all, Tail(all)} /\ queue' = queue
      BY <2>1 DEF KeepEvent
    <3>4. skipped' = [v \in Viewers |->
                        IF Len(all) > MaxEvents /\ v \notin clients
                        THEN skipped[v] \cup {Head(all)} ELSE skipped[v]]
      BY <2>1 DEF KeepEvent
    <3> HIDE DEF all
    <3>5. QED
      BY <3>1, <3>2, <3>3, <3>4 DEF HubShape
  <2>2. CASE QueueEvent(e)
    BY <1>3, <2>2 DEF QueueEvent, HubShape
  <2>3. QED
    BY <1>2, <2>1, <2>2
<1>5. posted' \in [Events -> 0..2]
  BY <1>1 DEF HubShape
<1>6. QED
  BY <1>1, <1>4, <1>5 DEF HubShape

(* A viewer registers: its channel is open, and it is in the map. *)
LEMMA RegisterInv ==
  ASSUME ChannelInv, NEW v \in Viewers, HubRegister(v), HubAssumption
  PROVE  ChannelInv'
<1> DEFINE fits == IF Len(recentEvents) <= SendCap THEN recentEvents
                   ELSE SubSeq(recentEvents, 1, SendCap)
<1>1. HubShape /\ reader[v] = "registering" /\ conn[v] # "none" /\ ~sendClosed[v]
  BY DEF HubRegister, Waiting, ChannelInv, WaitingIsFresh
<1>2. /\ clients' = clients \cup {v} /\ send' = [send EXCEPT ![v] = fits]
      /\ skipped' = [skipped EXCEPT ![v] = skipped[v] \cup (Range(recentEvents) \ Range(fits))]
      /\ reader' = [reader EXCEPT ![v] = "reading"]
      /\ writer' = [writer EXCEPT ![v] = "running"]
      /\ UNCHANGED <<queue, recentEvents, posted, conn, sendClosed, got>>
  BY DEF HubRegister
<1>3. fits \in Seq(Sent)
  BY <1>1, HubAssumption DEF HubShape
<1>4. Range(recentEvents) \subseteq Sent
  BY <1>1 DEF HubShape, Range
<1> HIDE DEF fits
<1>5. HubShape'
  BY <1>1, <1>2, <1>3, <1>4 DEF HubShape
<1>6. WaitingIsFresh' /\ ChannelsMatchClients'
  BY <1>1, <1>2 DEF ChannelInv, HubShape, WaitingIsFresh, ChannelsMatchClients, Waiting
<1>7. QED
  BY <1>5, <1>6 DEF ChannelInv

(* A message for everyone: who has no room is closed and forgotten. *)
LEMMA HubBroadcastInv ==
  ASSUME ChannelInv, HubBroadcast
  PROVE  ChannelInv'
<1> DEFINE full == {v \in clients : Len(send[v]) = SendCap}
           m == Head(queue)
<1>1. /\ HubShape /\ queue # <<>> /\ queue' = Tail(queue)
      /\ send' = [v \in Viewers |-> IF v \in clients \ full
                                    THEN Append(send[v], m) ELSE send[v]]
      /\ sendClosed' = [v \in Viewers |-> sendClosed[v] \/ v \in full]
      /\ clients' = clients \ full
      /\ UNCHANGED <<recentEvents, posted, conn, reader, writer, got, skipped>>
  BY DEF HubBroadcast, DropOverflowing, ChannelInv
<1>2. m \in Sent /\ queue' \in Seq(Sent)
  BY <1>1, TailRange DEF HubShape
<1> HIDE DEF m, full
<1>3. HubShape'
  BY <1>1, <1>2 DEF HubShape
<1>4. full \subseteq clients
  BY DEF full
<1>5. WaitingIsFresh' /\ ChannelsMatchClients'
  BY <1>1, <1>4 DEF ChannelInv, HubShape, WaitingIsFresh, ChannelsMatchClients, Waiting
<1>6. QED
  BY <1>3, <1>5 DEF ChannelInv

(* The steps of one viewer's goroutines and of its peer. *)
LEMMA ViewerStepInv ==
  ASSUME ChannelInv, NEW v \in Viewers,
         HubUnregister(v) \/ Upgrade(v) \/ PeerGone(v) \/ ReadPing(v)
         \/ ReadError(v) \/ WritePump(v)
  PROVE  ChannelInv'
<1>1. HubShape
  BY DEF ChannelInv
<1>2. CASE HubUnregister(v)
  <2>1. /\ clients' = clients \ {v}
        /\ sendClosed' = [sendClosed EXCEPT ![v] = sendClosed[v] \/ v \in clients]
        /\ reader' = [reader EXCEPT ![v] = "gone"]
        /\ conn' = [conn EXCEPT ![v] = "closed"]
        /\ UNCHANGED <<queue, recentEvents, posted, writer, send, got, skipped>>
    BY <1>2 DEF HubUnregister
  <2>2. HubShape'
    BY <1>1, <2>1 DEF HubShape
  <2>3. WaitingIsFresh' /\ ChannelsMatchClients'
    BY <1>1, <2>1 DEF ChannelInv, HubShape, WaitingIsFresh, ChannelsMatchClients, Waiting
  <2>4. QED
    BY <2>2, <2>3 DEF ChannelInv
<1>3. CASE Upgrade(v) \/ PeerGone(v) \/ ReadError(v)
  <2>1. /\ UNCHANGED <<clients, queue, recentEvents, posted, writer, send, sendClosed,
                       got, skipped>>
        /\ \/ conn[v] = "none" /\ conn' = [conn EXCEPT ![v] = "open"]
              /\ reader' = [reader EXCEPT ![v] = "registering"]
           \/ conn[v] = "open" /\ conn' = [conn EXCEPT ![v] = "closed"] /\ reader' = reader
           \/ conn' = conn /\ reader[v] = "reading" /\ reader' = [reader EXCEPT ![v] = "leaving"]
    BY <1>3 DEF Upgrade, PeerGone, ReadError, hubLoop
  <2>2. HubShape'
    BY <1>1, <2>1 DEF HubShape
  <2>3. WaitingIsFresh' /\ ChannelsMatchClients'
    BY <1>1, <2>1 DEF ChannelInv, HubShape, WaitingIsFresh, ChannelsMatchClients, Waiting
  <2>4. QED
    BY <2>2, <2>3 DEF ChannelInv
<1>4. CASE ReadPing(v)
  <2>1. /\ UNCHANGED <<clients, queue, recentEvents, posted, conn, writer, sendClosed,
                       got, skipped>>
        /\ reader[v] = "reading"
        /\ reader' \in {reader, [reader EXCEPT ![v] = "leaving"]}
        /\ send' \in {send, [send EXCEPT ![v] = Append(send[v], "pong")]}
    BY <1>4 DEF ReadPing, hubLoop
  <2>2. Append(send[v], "pong") \in Seq(Sent)
    BY <1>1 DEF HubShape, Sent
  <2>3. send' \in [Viewers -> Seq(Sent)]
    BY <1>1, <2>1, <2>2 DEF HubShape
  <2>4. /\ reader' \in [Viewers -> {"none", "registering", "reading", "leaving", "gone"}]
        /\ \A w \in Viewers : Waiting(w)' => Waiting(w)
        /\ \A w \in Viewers : reader[w] = "none" => reader'[w] = "none"
    BY <1>1, <2>1 DEF HubShape, Waiting
  <2>5. HubShape'
    BY <1>1, <2>1, <2>3, <2>4 DEF HubShape
  <2>6. QED
    BY <2>1, <2>4, <2>5, ChannelsQuiet DEF ChannelInv, WaitingIsFresh
<1>5. CASE WritePump(v)
  <2>1. /\ UNCHANGED <<clients, queue, recentEvents, posted, reader, sendClosed, skipped>>
        /\ writer[v] = "running" /\ writer' \in {writer, [writer EXCEPT ![v] = "gone"]}
        /\ conn' \in {conn, [conn EXCEPT ![v] = "closed"]}
        /\ send' \in {send, [send EXCEPT ![v] = <<>>]}
        /\ got' \in {got, [got EXCEPT ![v] = got[v] \cup (Range(send[v]) \cap Events)]}
    BY <1>5 DEF WritePump, hubLoop
  <2>2. <<>> \in Seq(Sent)
    OBVIOUS
  <2>3. send' \in [Viewers -> Seq(Sent)] /\ got' \in [Viewers -> SUBSET Events]
    <3>1. send' \in [Viewers -> Seq(Sent)]
      BY <1>1, <2>1, <2>2 DEF HubShape
    <3> DEFINE new == got[v] \cup (Range(send[v]) \cap Events)
    <3>2. new \in SUBSET Events /\ got' \in {got, [got EXCEPT ![v] = new]}
      BY <1>1, <2>1 DEF HubShape
    <3> HIDE DEF new
    <3>3. got' \in [Viewers -> SUBSET Events]
      BY <1>1, <3>2 DEF HubShape
    <3>4. QED
      BY <3>1, <3>3
  <2>4. /\ writer' \in [Viewers -> {"none", "running", "gone"}]
        /\ conn' \in [Viewers -> {"none", "open", "closed"}]
        /\ \A w \in Viewers : (writer'[w] = "none") <=> (writer[w] = "none")
        /\ \A w \in Viewers : conn'[w] = "none" => conn[w] = "none"
    BY <1>1, <2>1 DEF HubShape
  <2>5. HubShape'
    BY <1>1, <2>1, <2>3, <2>4 DEF HubShape
  <2>6. QED
    BY <2>1, <2>4, <2>5, ChannelsQuiet DEF Waiting
<1>6. QED
  BY <1>2, <1>3, <1>4, <1>5

(* Every step of the hub, its goroutines and its viewers. *)
LEMMA ChannelStep ==
  ASSUME ChannelInv, [HubNext]_hubVars
  PROVE  ChannelInv'
<1>1. ASSUME NEW e \in Events, Broadcast(e) PROVE ChannelInv'
  <2>1. HubShape' /\ UNCHANGED <<clients, conn, reader, writer, sendClosed>>
    BY <1>1, BroadcastShape DEF ChannelInv, Broadcast, hubPumps
  <2>2. QED
    BY <2>1, ChannelsQuiet DEF Waiting
<1>2. CASE BroadcastStats
  <2>1. /\ queue' = Append(queue, "stats") /\ "stats" \in Sent
        /\ UNCHANGED <<clients, recentEvents, posted, conn, reader, writer, send,
                       sendClosed, got, skipped>>
    BY <1>2 DEF BroadcastStats, hubPumps, Sent
  <2>2. HubShape'
    BY <2>1 DEF ChannelInv, HubShape
  <2>3. QED
    BY <2>1, <2>2, ChannelsQuiet DEF Waiting
<1>3. CASE HubStop \/ UNCHANGED hubVars
  <2>1. UNCHANGED <<clients, queue, recentEvents, posted, conn, reader, writer, send,
                    sendClosed, got, skipped>>
    BY <1>3 DEF HubStop, hubPumps, hubVars
  <2>2. HubShape'
    BY <2>1 DEF ChannelInv, HubShape
  <2>3. QED
    BY <2>1, <2>2, ChannelsQuiet DEF Waiting
<1>4. CASE HubBroadcast
  BY <1>4, HubBroadcastInv
<1>5. ASSUME NEW v \in Viewers, HubRegister(v) PROVE ChannelInv'
  BY <1>5, RegisterInv, HubAssumption
<1>6. ASSUME NEW v \in Viewers,
             HubUnregister(v) \/ Upgrade(v) \/ PeerGone(v) \/ ReadPing(v)
             \/ ReadError(v) \/ WritePump(v)
      PROVE  ChannelInv'
  BY <1>6, ViewerStepInv
<1>7. QED
  BY <1>1, <1>2, <1>3, <1>4, <1>5, <1>6 DEF HubNext

(* The invariant holds of every behaviour of the hub. *)
LEMMA ChannelsInvariant == HubSpec => []ChannelInv
<1>1. HubInit => ChannelInv
  BY DEF HubInit, ChannelInv, HubShape, WaitingIsFresh, ChannelsMatchClients, Waiting
<1>2. ChannelInv /\ [HubNext]_hubVars => ChannelInv'
  BY ChannelStep
<1>3. QED
  BY <1>1, <1>2, PTL DEF HubSpec

(* The hub itself never sends on a closed channel and never closes one     *)
(* twice, and no writePump waits for ever on a client the hub forgot.      *)
THEOREM ChannelsAlwaysMatch == HubSpec => []ChannelsMatchClients
<1>1. ChannelInv => ChannelsMatchClients
  BY DEF ChannelInv
<1>2. QED
  BY <1>1, ChannelsInvariant, PTL

-----------------------------------------------------------------------------
(* Capacities: what is kept, queued and buffered, and how much of it. *)

HubBounds ==
  /\ hub \in {"running", "stopped"} /\ crashed \in BOOLEAN
  /\ queue \in Seq(Events \cup {"stats"}) /\ Len(queue) <= QueueCap
  /\ recentEvents \in Seq(Events) /\ Len(recentEvents) <= MaxEvents
  /\ \A v \in Viewers : Len(send[v]) <= SendCap

LEMMA SeqCap ==
  ASSUME NEW S, NEW s \in Seq(S), NEW cap \in Nat
  PROVE  /\ Len(s) \in Nat
         /\ \A x \in S : Append(s, x) \in Seq(S) /\ Len(Append(s, x)) = Len(s) + 1
         /\ s # <<>> => Tail(s) \in Seq(S) /\ Len(Tail(s)) = Len(s) - 1
         /\ Len(s) > cap => Len(SubSeq(s, 1, cap)) = cap
<1>1. s # <<>> => Tail(s) \in Seq(S) /\ Len(Tail(s)) = Len(s) - 1
  OBVIOUS
<1>2. Len(s) > cap => Len(SubSeq(s, 1, cap)) = cap
  OBVIOUS
<1>3. QED
  BY <1>1, <1>2

LEMMA BroadcastBounds ==
  ASSUME HubBounds, NEW e \in Events, Broadcast(e)
  PROVE  HubBounds'
<1>0. MaxEvents \in Nat /\ QueueCap \in Nat /\ e \in Events \cup {"stats"}
  BY HubAssumption
<1>1. UNCHANGED <<hub, crashed, send>> /\ (KeepEvent(e) \/ QueueEvent(e))
  BY DEF Broadcast, hubPumps
<1>2. recentEvents' \in Seq(Events) /\ Len(recentEvents') <= MaxEvents
  <2> DEFINE all == Append(recentEvents, e)
  <2>1. /\ all \in Seq(Events) /\ Len(all) = Len(recentEvents) + 1 /\ Len(recentEvents) \in Nat
        /\ Len(recentEvents) <= MaxEvents
    BY <1>0, SeqCap DEF HubBounds
  <2> HIDE DEF all
  <2>2. all # <<>>
    BY <2>1
  <2>3. Tail(all) \in Seq(Events) /\ Len(Tail(all)) = Len(all) - 1
    BY <1>0, <2>1, <2>2, SeqCap
  <2>4. CASE KeepEvent(e)
    <3>1. recentEvents' = IF Len(all) > MaxEvents THEN Tail(all) ELSE all
      BY <2>4 DEF KeepEvent, all
    <3>2. QED
      BY <1>0, <2>1, <2>3, <3>1
  <2>5. CASE QueueEvent(e)
    BY <2>5 DEF QueueEvent, HubBounds
  <2>6. QED
    BY <1>1, <2>4, <2>5
<1>3. queue' \in Seq(Events \cup {"stats"}) /\ Len(queue') <= QueueCap
  <2>1. /\ Append(queue, e) \in Seq(Events \cup {"stats"}) /\ Len(Append(queue, e)) = Len(queue) + 1
        /\ Len(queue) \in Nat /\ queue \in Seq(Events \cup {"stats"}) /\ Len(queue) <= QueueCap
    BY <1>0, SeqCap DEF HubBounds
  <2>2. queue' = queue \/ (Len(queue) < QueueCap /\ queue' = Append(queue, e))
    BY <1>1 DEF KeepEvent, QueueEvent
  <2>3. QED
    BY <1>0, <2>1, <2>2
<1>4. QED
  BY <1>1, <1>2, <1>3 DEF HubBounds

LEMMA HubBroadcastBounds ==
  ASSUME HubShape, HubBounds, HubBroadcast
  PROVE  HubBounds'
<1>0. SendCap \in Nat
  BY HubAssumption
<1> DEFINE m == Head(queue)
           full == {v \in clients : Len(send[v]) = SendCap}
<1>1. /\ queue # <<>> /\ queue' = Tail(queue) /\ UNCHANGED <<hub, recentEvents>> /\ crashed' \in BOOLEAN
      /\ send' = [v \in Viewers |-> IF v \in clients \ full THEN Append(send[v], m) ELSE send[v]]
  BY DEF HubBroadcast
<1>2. queue' \in Seq(Events \cup {"stats"}) /\ Len(queue') <= QueueCap
  <2>1. /\ Tail(queue) \in Seq(Events \cup {"stats"}) /\ Len(Tail(queue)) = Len(queue) - 1
        /\ Len(queue) \in Nat /\ Len(queue) <= QueueCap
    BY <1>0, <1>1, SeqCap DEF HubBounds
  <2>2. QED
    BY <1>1, <2>1, HubAssumption
<1>3. ASSUME NEW v \in Viewers PROVE Len(send'[v]) <= SendCap
  <2>1. m \in Sent /\ send[v] \in Seq(Sent)
    BY <1>1 DEF HubShape
  <2>2. Len(Append(send[v], m)) = Len(send[v]) + 1 /\ Len(send[v]) \in Nat /\ Len(send[v]) <= SendCap
    BY <1>0, <2>1, SeqCap DEF HubBounds
  <2>3. send'[v] = send[v] \/ (Len(send[v]) # SendCap /\ send'[v] = Append(send[v], m))
    BY <1>1
  <2> HIDE DEF m
  <2>4. QED
    BY <1>0, <2>2, <2>3
<1>4. QED
  BY <1>1, <1>2, <1>3 DEF HubBounds

LEMMA ViewerBounds ==
  ASSUME HubShape, HubBounds, NEW v \in Viewers,
         HubRegister(v) \/ HubUnregister(v) \/ Upgrade(v) \/ PeerGone(v) \/ ReadPing(v) \/ ReadError(v) \/ WritePump(v)
  PROVE  HubBounds'
<1>0. SendCap \in Nat /\ Len(<<>>) = 0
  BY HubAssumption
<1>1. UNCHANGED <<hub, queue, recentEvents>> /\ crashed' \in BOOLEAN
  BY DEF HubRegister, HubUnregister, Upgrade, PeerGone, ReadPing, ReadError, WritePump, hubLoop, HubBounds
<1>2. \/ send' = send
      \/ \E s : send' = [send EXCEPT ![v] = s] /\ Len(s) <= SendCap
  <2>1. CASE HubRegister(v)
    <3> DEFINE fits == IF Len(recentEvents) <= SendCap THEN recentEvents
                       ELSE SubSeq(recentEvents, 1, SendCap)
    <3>1. send' = [send EXCEPT ![v] = fits]
      BY <2>1 DEF HubRegister
    <3>2. Len(recentEvents) \in Nat /\ (Len(recentEvents) > SendCap => Len(SubSeq(recentEvents, 1, SendCap)) = SendCap)
      BY <1>0, SeqCap DEF HubBounds
    <3>3. Len(fits) <= SendCap
      BY <1>0, <3>2
    <3>4. QED
      BY <3>1, <3>3
  <2>2. CASE ReadPing(v)
    <3>1. send' = send \/ (send' = [send EXCEPT ![v] = Append(send[v], "pong")] /\ Len(send[v]) < SendCap)
      BY <2>2 DEF ReadPing
    <3>2. Len(Append(send[v], "pong")) = Len(send[v]) + 1 /\ Len(send[v]) \in Nat
      BY <1>0, SeqCap DEF HubShape, Sent
    <3>3. QED
      BY <1>0, <3>1, <3>2
  <2>3. CASE WritePump(v)
    <3>1. send' = send \/ send' = [send EXCEPT ![v] = <<>>]
      BY <2>3 DEF WritePump
    <3>2. Len(<<>>) <= SendCap
      BY <1>0
    <3>3. QED
      BY <3>1, <3>2
  <2>4. CASE HubUnregister(v) \/ Upgrade(v) \/ PeerGone(v) \/ ReadError(v)
    BY <2>4 DEF HubUnregister, Upgrade, PeerGone, ReadError
  <2>5. QED
    BY <2>1, <2>2, <2>3, <2>4
<1>3. \A w \in Viewers : Len(send'[w]) <= SendCap
  BY <1>2 DEF HubBounds, HubShape
<1>4. QED
  BY <1>1, <1>3 DEF HubBounds

LEMMA BoundsStep ==
  ASSUME HubShape, HubBounds, [HubNext]_hubVars
  PROVE  HubBounds'
<1>1. CASE BroadcastStats
  <2>1. /\ UNCHANGED <<hub, crashed, recentEvents, send>> /\ queue' = Append(queue, "stats")
        /\ Len(queue) < QueueCap /\ "stats" \in Events \cup {"stats"}
    BY <1>1 DEF BroadcastStats, hubPumps
  <2>2. /\ Append(queue, "stats") \in Seq(Events \cup {"stats"})
        /\ Len(Append(queue, "stats")) = Len(queue) + 1 /\ Len(queue) \in Nat /\ QueueCap \in Nat
    BY <2>1, SeqCap, HubAssumption DEF HubBounds
  <2>3. QED
    BY <2>1, <2>2 DEF HubBounds
<1>2. CASE HubStop \/ UNCHANGED hubVars
  BY <1>2 DEF HubStop, hubPumps, hubVars, HubBounds
<1>3. QED
  BY <1>1, <1>2, BroadcastBounds, HubBroadcastBounds, ViewerBounds DEF HubNext

(* The hub's channels and lists never exceed their capacities, and only     *)
(* task events are kept for later viewers.                                  *)
THEOREM HubTypeCorrect == HubSpec => []HubTypeOK
<1>1. HubInit => HubBounds
  <2> SUFFICES ASSUME HubInit PROVE HubBounds
    OBVIOUS
  <2>1. \A S : <<>> \in Seq(S)
    OBVIOUS
  <2>2. /\ Len(<<>>) <= QueueCap /\ Len(<<>>) <= MaxEvents /\ Len(<<>>) <= SendCap
    BY HubAssumption
  <2>3. queue = <<>> /\ recentEvents = <<>> /\ \A v \in Viewers : send[v] = <<>>
    BY DEF HubInit
  <2>4. hub \in {"running", "stopped"} /\ crashed \in BOOLEAN
    BY DEF HubInit
  <2>5. QED
    BY <2>1, <2>2, <2>3, <2>4, Zenon DEF HubBounds
<1>2. ChannelInv /\ HubBounds /\ [HubNext]_hubVars => HubBounds'
  BY BoundsStep DEF ChannelInv
<1>3. ChannelInv /\ HubBounds => HubTypeOK
  BY DEF ChannelInv, HubShape, HubBounds, HubTypeOK, Sent
<1>4. QED
  BY <1>1, <1>2, <1>3, ChannelsInvariant, PTL DEF HubSpec

-----------------------------------------------------------------------------
(* Events *)

(* A viewer that will register finds every event that was kept so far. *)
KeptForWaiting ==
  \A v \in Viewers, e \in Events :
    Waiting(v) /\ posted[e] # 0 => e \in Range(recentEvents) \cup skipped[v]

EventInv == KeptForWaiting /\ NoEventMissed

(* The places where a registered viewer finds its events. *)
Reaching(v) == got[v] \cup Range(send[v]) \cup Range(queue) \cup skipped[v]

(* A step that takes nothing away and announces nothing new. *)
LEMMA EventsQuiet ==
  ASSUME ChannelInv, EventInv, UNCHANGED <<posted, recentEvents>>,
         clients' \subseteq clients,
         \A v \in Viewers : (Waiting(v)' => Waiting(v)) /\ skipped[v] \subseteq skipped'[v],
         \A v \in clients', e \in Events : e \in Reaching(v) => e \in Reaching(v)'
  PROVE  EventInv'
<1>1. KeptForWaiting'
  BY DEF EventInv, KeptForWaiting
<1>2. NoEventMissed'
  BY DEF EventInv, NoEventMissed, Reaching
<1>3. QED
  BY <1>1, <1>2 DEF EventInv

(* Keeping comes before queueing. *)
LEMMA BroadcastEvents ==
  ASSUME ChannelInv, EventInv, NEW e \in Events, Broadcast(e)
  PROVE  EventInv'
<1>1. /\ HubShape /\ WaitingIsFresh
      /\ posted' = [posted EXCEPT ![e] = posted[e] + 1] /\ posted[e] \in {0, 1}
      /\ UNCHANGED <<clients, reader, send, got>>
  BY DEF Broadcast, hubPumps, HubShape, ChannelInv
<1>2. /\ posted[e] = 0 => KeepEvent(e)
      /\ posted[e] = 1 => QueueEvent(e)
  BY DEF Broadcast, BroadcastOrder
<1>3. e \in Sent /\ recentEvents \in Seq(Sent) /\ queue \in Seq(Sent)
  BY <1>1 DEF Sent, HubShape
<1>4. CASE posted[e] = 0
  <2> DEFINE all == Append(recentEvents, e)
             over == Len(all) > MaxEvents
  <2>1. /\ recentEvents' = IF over THEN Tail(all) ELSE all
        /\ skipped' = [v \in Viewers |->
                         IF over /\ v \notin clients
                         THEN skipped[v] \cup {Head(all)} ELSE skipped[v]]
        /\ queue' = queue
    BY <1>2, <1>4 DEF KeepEvent
  <2>2. /\ all \in Seq(Sent) /\ Range(all) = Range(recentEvents) \cup {e}
        /\ all # <<>>
    <3>1. all \in Seq(Sent) /\ Range(all) = Range(recentEvents) \cup {e}
      BY <1>3, AppendRange
    <3>2. Len(all) = Len(recentEvents) + 1 /\ Len(recentEvents) \in Nat
      BY <1>3
    <3>3. QED
      BY <3>1, <3>2
  <2>3. Range(all) = Range(Tail(all)) \cup {Head(all)}
    BY <2>2, TailRange
  <2> HIDE DEF all, over
  <2>4. ASSUME NEW v \in Viewers, NEW d \in Events, Waiting(v)', posted'[d] # 0
        PROVE  d \in Range(recentEvents') \cup skipped'[v]
    <3>1. Waiting(v) /\ v \notin clients
      BY <1>1, <2>4 DEF Waiting, WaitingIsFresh
    <3>2. d \in Range(all) \cup skipped[v]
      <4>1. d = e \/ posted[d] # 0
        BY <1>1, <2>4 DEF HubShape
      <4>2. QED
        BY <2>2, <3>1, <4>1 DEF EventInv, KeptForWaiting
    <3>3. CASE over
      BY <2>1, <2>3, <3>1, <3>2, <3>3
    <3>4. CASE ~over
      BY <2>1, <3>2, <3>4
    <3>5. QED
      BY <3>3, <3>4
  <2>5. NoEventMissed'
    <3>1. \A v \in Viewers : skipped[v] \subseteq skipped'[v]
      BY <2>1
    <3>2. \A d \in Events : posted'[d] = 2 => posted[d] = 2
      BY <1>1, <1>4 DEF HubShape
    <3>3. QED
      BY <1>1, <2>1, <3>1, <3>2 DEF EventInv, NoEventMissed, HubShape
  <2>6. QED
    BY <2>4, <2>5 DEF EventInv, KeptForWaiting
<1>5. CASE posted[e] = 1
  <2>1. /\ queue' = IF Len(queue) < QueueCap THEN Append(queue, e) ELSE queue
        /\ skipped' = [v \in Viewers |-> IF Len(queue) < QueueCap THEN skipped[v]
                                         ELSE skipped[v] \cup {e}]
        /\ recentEvents' = recentEvents
    BY <1>2, <1>5 DEF QueueEvent
  <2>2. Range(Append(queue, e)) = Range(queue) \cup {e}
    BY <1>3, AppendRange
  <2>3. /\ Range(queue) \subseteq Range(queue')
        /\ \A v \in Viewers : skipped[v] \subseteq skipped'[v]
        /\ \A v \in Viewers : e \in Range(queue') \cup skipped'[v]
    <3>1. CASE Len(queue) < QueueCap
      BY <2>1, <2>2, <3>1
    <3>2. CASE ~(Len(queue) < QueueCap)
      BY <2>1, <3>2
    <3>3. QED
      BY <3>1, <3>2
  <2>4. \A d \in Events : /\ posted'[d] # 0 => posted[d] # 0
                          /\ posted'[d] = 2 => posted[d] = 2 \/ d = e
    BY <1>1, <1>5 DEF HubShape
  <2>5. KeptForWaiting'
    BY <1>1, <2>1, <2>3, <2>4 DEF EventInv, KeptForWaiting, Waiting
  <2>6. NoEventMissed'
    BY <1>1, <2>3, <2>4 DEF EventInv, NoEventMissed, HubShape
  <2>7. QED
    BY <2>5, <2>6 DEF EventInv
<1>6. QED
  BY <1>1, <1>4, <1>5

(* Who registers is sent what was kept; what does not fit is its loss. *)
LEMMA RegisterEvents ==
  ASSUME ChannelInv, EventInv, NEW v \in Viewers, HubRegister(v)
  PROVE  EventInv'
<1> DEFINE fits == IF Len(recentEvents) <= SendCap THEN recentEvents
                   ELSE SubSeq(recentEvents, 1, SendCap)
<1>1. HubShape /\ Waiting(v)
  BY DEF HubRegister, Waiting, ChannelInv
<1>2. /\ clients' = clients \cup {v} /\ send' = [send EXCEPT ![v] = fits]
      /\ skipped' = [skipped EXCEPT ![v] = skipped[v] \cup (Range(recentEvents) \ Range(fits))]
      /\ reader' = [reader EXCEPT ![v] = "reading"]
      /\ UNCHANGED <<queue, recentEvents, posted, got>>
  BY DEF HubRegister
<1> HIDE DEF fits
<1>3. KeptForWaiting'
  BY <1>1, <1>2 DEF EventInv, KeptForWaiting, Waiting, HubShape
<1>4. ASSUME NEW w \in clients', NEW e \in Events, posted'[e] = 2
      PROVE  e \in Reaching(w)'
  <2>1. CASE w = v
    <3>1. e \in Range(recentEvents) \cup skipped[v]
      BY <1>1, <1>2, <1>4 DEF EventInv, KeptForWaiting
    <3>2. send'[v] = fits /\ skipped'[v] = skipped[v] \cup (Range(recentEvents) \ Range(fits))
      BY <1>1, <1>2 DEF HubShape
    <3>3. QED
      BY <2>1, <3>1, <3>2 DEF Reaching
  <2>2. CASE w # v
    <3>1. w \in clients /\ w \in Viewers
      BY <1>1, <1>2, <2>2 DEF HubShape
    <3>2. send'[w] = send[w] /\ skipped'[w] = skipped[w]
      BY <1>1, <1>2, <2>2, <3>1 DEF HubShape
    <3>3. QED
      BY <1>2, <1>4, <3>1, <3>2 DEF EventInv, NoEventMissed, Reaching
  <2>3. QED
    BY <2>1, <2>2
<1>5. QED
  BY <1>3, <1>4 DEF EventInv, NoEventMissed, Reaching

(* A message leaves the queue for the buffers of all who stay. *)
LEMMA HubBroadcastEvents ==
  ASSUME ChannelInv, EventInv, HubBroadcast
  PROVE  EventInv'
<1> DEFINE full == {v \in clients : Len(send[v]) = SendCap}
           m == Head(queue)
<1>1. /\ HubShape /\ queue # <<>> /\ queue' = Tail(queue)
      /\ send' = [v \in Viewers |-> IF v \in clients \ full
                                    THEN Append(send[v], m) ELSE send[v]]
      /\ clients' = clients \ full
      /\ UNCHANGED <<recentEvents, posted, reader, got, skipped>>
  BY DEF HubBroadcast, DropOverflowing, ChannelInv
<1>2. m \in Sent /\ Range(queue) = Range(queue') \cup {m}
  BY <1>1, TailRange DEF HubShape
<1> HIDE DEF m, full
<1>3. ASSUME NEW v \in clients' PROVE Range(send'[v]) = Range(send[v]) \cup {m}
  <2>1. v \in clients \ full /\ v \in Viewers
    BY <1>1, <1>3 DEF HubShape
  <2>2. send[v] \in Seq(Sent) /\ send'[v] = Append(send[v], m)
    BY <1>1, <2>1 DEF HubShape
  <2>3. QED
    BY <1>2, <2>2, AppendRange
<1>4. \A v \in clients', e \in Events : e \in Reaching(v) => e \in Reaching(v)'
  BY <1>1, <1>2, <1>3 DEF Reaching
<1>5. clients' \subseteq clients /\ \A v \in Viewers : Waiting(v)' => Waiting(v)
  BY <1>1 DEF Waiting
<1>6. QED
  BY <1>1, <1>4, <1>5, EventsQuiet

(* The steps of a viewer's goroutines and of its peer lose no event. *)
LEMMA ViewerEvents ==
  ASSUME ChannelInv, EventInv, NEW v \in Viewers,
         HubUnregister(v) \/ Upgrade(v) \/ PeerGone(v) \/ ReadPing(v)
         \/ ReadError(v) \/ WritePump(v)
  PROVE  EventInv'
<1>1. HubShape /\ WaitingIsFresh
  BY DEF ChannelInv
<1>2. /\ UNCHANGED <<queue, recentEvents, posted, skipped>>
      /\ clients' \subseteq clients
  BY DEF HubUnregister, Upgrade, PeerGone, ReadPing, ReadError, WritePump, hubLoop
<1>3. \A w \in Viewers : Waiting(w)' => Waiting(w)
  <2>1. \/ reader' = reader
        \/ reader' = [reader EXCEPT ![v] = "gone"]
        \/ reader' = [reader EXCEPT ![v] = "leaving"]
        \/ reader' = [reader EXCEPT ![v] = "registering"] /\ conn[v] = "none"
    BY DEF HubUnregister, Upgrade, PeerGone, ReadPing, ReadError, WritePump
  <2>2. QED
    BY <1>1, <2>1 DEF HubShape, Waiting, WaitingIsFresh
<1>4. \A w \in Viewers, e \in Events :
        e \in got[w] \cup Range(send[w]) => e \in got'[w] \cup Range(send'[w])
  <2>1. CASE WritePump(v)
    <3>1. \/ got' = got /\ send' = send
          \/ /\ got' = [got EXCEPT ![v] = got[v] \cup (Range(send[v]) \cap Events)]
             /\ send' = [send EXCEPT ![v] = <<>>]
      BY <2>1 DEF WritePump
    <3>2. \A w \in Viewers :
            \/ got'[w] = got[w] /\ send'[w] = send[w]
            \/ got'[w] = got[w] \cup (Range(send[w]) \cap Events)
      BY <1>1, <3>1 DEF HubShape
    <3>3. QED
      BY <3>2
  <2>2. CASE ReadPing(v)
    <3>1. got' = got /\ (send' = send \/ send' = [send EXCEPT ![v] = Append(send[v], "pong")])
      BY <2>2 DEF ReadPing
    <3>2. Range(Append(send[v], "pong")) = Range(send[v]) \cup {"pong"}
      <4>1. send[v] \in Seq(Sent) /\ "pong" \in Sent
        BY <1>1 DEF HubShape, Sent
      <4>2. QED
        BY <4>1, AppendRange
    <3>3. \A w \in Viewers : Range(send[w]) \subseteq Range(send'[w])
      <4>1. \A w \in Viewers :
              \/ send'[w] = send[w]
              \/ w = v /\ send'[w] = Append(send[v], "pong")
        BY <1>1, <3>1 DEF HubShape
      <4>2. QED
        BY <3>2, <4>1
    <3>4. QED
      BY <3>1, <3>3
  <2>3. CASE HubUnregister(v) \/ Upgrade(v) \/ PeerGone(v) \/ ReadError(v)
    BY <2>3 DEF HubUnregister, Upgrade, PeerGone, ReadError
  <2>4. QED
    BY <2>1, <2>2, <2>3
<1>5. \A w \in clients', e \in Events : e \in Reaching(w) => e \in Reaching(w)'
  BY <1>1, <1>2, <1>4 DEF Reaching, HubShape
<1>6. QED
  BY <1>2, <1>3, <1>5, EventsQuiet

(* No event is missed by a registered viewer, whatever order broadcasts,   *)
(* registrations, overflows and disconnections happen in, except what the  *)
(* limits on buffers and on kept events cost.                              *)
THEOREM NoEventIsMissed == HubSpec => []NoEventMissed
<1>1. HubInit => EventInv
  BY DEF HubInit, EventInv, KeptForWaiting, NoEventMissed, Waiting
<1>2. ASSUME ChannelInv, EventInv, [HubNext]_hubVars PROVE EventInv'
  <2>1. ASSUME NEW e \in Events, Broadcast(e) PROVE EventInv'
    BY <1>2, <2>1, BroadcastEvents
  <2>2. CASE BroadcastStats
    <3>1. /\ queue' = Append(queue, "stats") /\ "stats" \in Sent
          /\ UNCHANGED <<clients, recentEvents, posted, reader, send, got, skipped>>
      BY <2>2 DEF BroadcastStats, hubPumps, Sent
    <3>2. Range(queue') = Range(queue) \cup {"stats"}
      BY <1>2, <3>1, AppendRange DEF ChannelInv, HubShape
    <3>3. QED
      BY <1>2, <3>1, <3>2, EventsQuiet DEF Reaching, Waiting
  <2>3. CASE HubStop \/ UNCHANGED hubVars
    <3>1. UNCHANGED <<clients, queue, recentEvents, posted, reader, send, got, skipped>>
      BY <2>3 DEF HubStop, hubPumps, hubVars
    <3>2. QED
      BY <1>2, <3>1, EventsQuiet DEF Reaching, Waiting
  <2>4. CASE HubBroadcast
    BY <1>2, <2>4, HubBroadcastEvents
  <2>5. ASSUME NEW v \in Viewers, HubRegister(v) PROVE EventInv'
    BY <1>2, <2>5, RegisterEvents
  <2>6. ASSUME NEW v \in Viewers,
               HubUnregister(v) \/ Upgrade(v) \/ PeerGone(v) \/ ReadPing(v)
               \/ ReadError(v) \/ WritePump(v)
        PROVE  EventInv'
    BY <1>2, <2>6, ViewerEvents
  <2>7. QED
    BY <1>2, <2>1, <2>2, <2>3, <2>4, <2>5, <2>6 DEF HubNext
<1>3. ChannelInv /\ EventInv /\ [HubNext]_hubVars => EventInv'
  BY <1>2
<1>4. EventInv => NoEventMissed
  BY DEF EventInv
<1>5. QED
  BY <1>1, <1>3, <1>4, ChannelsInvariant, PTL DEF HubSpec

-----------------------------------------------------------------------------
(***************************************************************************)
(* The feature vectors LinUCB keeps between a dispatch and its outcome, for*)
(* any number of workers and calls and any sharing of task identifiers.    *)
(*                                                                         *)
(* PendingOwned is not inductive: an outcome looks under the identifier of *)
(* its own call, so a vector of a call must be under that call's           *)
(* identifier and nowhere else.                                            *)
(***************************************************************************)

PendingInv ==
  /\ dpc \in [Dispatches -> {"new", "selected", "running", "done"}]
  /\ pendingX \in [Tasks -> Dispatches \cup {None}]
  /\ algorithm # "linucb" => \A t \in Tasks : pendingX[t] = None
  /\ \A t \in Tasks : pendingX[t] # None =>
       /\ pendingX[t] \in Dispatches /\ TaskOf[pendingX[t]] = t
       /\ dpc[pendingX[t]] \in {"selected", "running"}

(* The identifier of a call is one the map of pending vectors knows. *)
LEMMA TaskKnown ==
  ASSUME NEW d \in Dispatches
  PROVE  TaskOf[d] \in Tasks
BY LearnerAssumption DEF Tasks, Range

(* A dispatch stores the vector under its own identifier, if it stores one. *)
LEMMA DispatchPending ==
  ASSUME PendingInv, NEW d \in Dispatches, Dispatch(d)
  PROVE  PendingInv'
<1>1. /\ dpc[d] = "new" /\ dpc' = [dpc EXCEPT ![d] = "selected"]
      /\ algorithm' = algorithm
  BY DEF Dispatch
<1>2. \/ pendingX' = pendingX
      \/ algorithm = "linucb" /\ pendingX' = [pendingX EXCEPT ![TaskOf[d]] = d]
  BY DEF Dispatch, EpsilonSelect, LinUCBSelect, HEFTSelect, learnState
<1>3. TaskOf[d] \in Tasks
  BY TaskKnown
<1>4. QED
  BY <1>1, <1>2, <1>3 DEF PendingInv

(* An outcome leaves no vector of its own call behind. *)
LEMMA OutcomePending ==
  ASSUME PendingInv, NEW d \in Dispatches, Outcome(d)
  PROVE  PendingInv'
<1>1. /\ dpc[d] = "running" /\ dpc' = [dpc EXCEPT ![d] = "done"]
      /\ algorithm' = algorithm
  BY DEF Outcome
<1>2. \/ algorithm # "linucb" /\ pendingX' = pendingX
      \/ pendingX[TaskOf[d]] = None /\ pendingX' = pendingX
      \/ pendingX' = [pendingX EXCEPT ![TaskOf[d]] = None]
  BY DEF Outcome, EpsilonRecord, LinUCBRecord, HEFTRecord, ConsumePending
<1>3. TaskOf[d] \in Tasks
  BY TaskKnown
<1>4. QED
  BY <1>1, <1>2, <1>3 DEF PendingInv

LEMMA PendingInvariant == LearnSpec => []PendingInv
<1>1. LearnInit => PendingInv
  BY DEF LearnInit, PendingInv
<1>2. ASSUME PendingInv, [LearnNext]_learnVars PROVE PendingInv'
  <2>1. ASSUME NEW d \in Dispatches, DispatchFails(d) \/ Book(d) PROVE PendingInv'
    <3>1. /\ UNCHANGED <<algorithm, pendingX>> /\ dpc[d] \in {"new", "selected"}
          /\ dpc[d] = "new" => dpc' = [dpc EXCEPT ![d] = "done"]
          /\ dpc[d] = "selected" => dpc' = [dpc EXCEPT ![d] = "running"]
      BY <2>1 DEF DispatchFails, Book, learnState
    <3>2. QED
      BY <1>2, <3>1 DEF PendingInv
  <2>2. CASE UNCHANGED learnVars
    BY <1>2, <2>2 DEF learnVars, PendingInv
  <2>3. QED
    BY <1>2, <2>1, <2>2, DispatchPending, OutcomePending DEF LearnNext
<1>3. PendingInv /\ [LearnNext]_learnVars => PendingInv'
  BY <1>2
<1>4. QED
  BY <1>1, <1>3, PTL DEF LearnSpec

(* Cached feature vectors do not leak, and belong to calls under way, also *)
(* when retries share a task identifier.                                   *)
THEOREM PendingIsOwned == LearnSpec => []PendingOwned
<1>1. PendingInv => PendingOwned
  BY DEF PendingInv, PendingOwned
<1>2. QED
  BY <1>1, PendingInvariant, PTL

-----------------------------------------------------------------------------
(***************************************************************************)
(* What epsilon-greedy has learnt, for any number of workers and calls.    *)
(* MeanOfOwnRewards is not inductive: the count must agree with the calls  *)
(* that have reported, each of them once, which is what makes the divisions*)
(* of the running mean exact.                                              *)
(***************************************************************************)

Reporters == {d \in Dispatches : dpc[d] = "done"}

(* MeanOfOwnRewards for one worker, and the estimate of an unknown one. *)
MeanOf(a) ==
  /\ values[a].n = Cardinality(rewarded[a])
  /\ values[a].n = 0 => values[a].q = 0
  /\ values[a].q * values[a].n = Unit * SumFunctionOnSet(RewardOf, rewarded[a])

LearnInv ==
  /\ algorithm \in {"epsilon", "linucb", "heft"}
  /\ dpc \in [Dispatches -> {"new", "selected", "running", "done"}]
  /\ on \in [Dispatches -> Arms \cup {None}]
  /\ \A d \in Dispatches : dpc[d] \in {"selected", "running"} => on[d] \in Arms
  /\ values \in [Arms -> [q : Int, n : Nat]]
  /\ arms \in [Arms -> Nat]
  /\ \A a \in Arms : values[a].n <= Cardinality(Reporters) /\ arms[a] <= Cardinality(Reporters)
  /\ wbar \in [Arms -> SUBSET {"prior", "observed"}]
  /\ rewarded \in [Arms -> SUBSET (Dispatches \X Rewards)]
  /\ \A a \in Arms : IsFiniteSet(rewarded[a])
  /\ \A a \in Arms : \A p \in rewarded[a] : p[1] \in Reporters
  /\ algorithm = "epsilon" => \A a \in Arms : MeanOf(a)

(* One more reward moves a running mean exactly to the new mean. *)
LEMMA RunningMeanExact ==
  ASSUME NEW st \in [q : Int, n : Nat], NEW s \in Int, NEW r \in Int,
         st.n < Cardinality(Dispatches), st.n = 0 => st.q = 0 /\ s = 0, st.q * st.n = Unit * s
  PROVE  LET next == RunningMean(st, Unit * r)
         IN /\ next \in [q : Int, n : Nat] /\ next.n = st.n + 1
            /\ next.q * next.n = Unit * (s + r)
<1> DEFINE q == st.q
           n == st.n
           m == n + 1
           e == q + (Unit * r - q) \div m
<1>1. q \in Int /\ n \in Nat /\ m \in Nat /\ m # 0 /\ Unit \in Nat /\ Unit \in Int /\ Unit * r \in Int
  BY LearnerAssumption
<1>2. e \in Int
  BY <1>1
<1>3. e * m = Unit * (s + r)
  <2>1. CASE n = 0
    <3>1. q = 0 /\ s = 0 /\ m = 1 /\ s + r = r
      BY <2>1
    <3>2. (Unit * r) \div 1 = Unit * r
      BY <1>1
    <3>3. QED
      BY <1>1, <3>1, <3>2
  <2>2. CASE n # 0
    <3>1. n \in 1 .. Cardinality(Dispatches) - 1
      <4>1. Cardinality(Dispatches) \in Nat
        BY LearnerAssumption, FS_CardinalityType
      <4>2. QED
        BY <1>1, <2>2, <4>1
    <3>2. PICK k \in 1 .. Unit : Unit = k * n * (n + 1)
      BY <3>1, LearnerAssumption
    <3>3. k \in Int /\ n \in Nat \ {0} /\ q * n = Unit * s
      BY <1>1, <2>2
    <3> DEFINE x == k * n * r - k * s
    <3> HIDE DEF q, n
    <3>4. x \in Int /\ k * m * s \in Int /\ (k * m * s) * n = Unit * s
      BY <1>1, <3>2, <3>3
    <3>5. q = k * m * s
      BY <1>1, <3>3, <3>4, CancelFactor
    <3>6. Unit * r - q = x * m
      BY <1>1, <3>2, <3>3, <3>5
    <3>7. (Unit * r - q) \div m = x
      <4>1. (x * m) \div m = x
        BY <1>1, <3>4, ExactQuotient
      <4>2. QED
        BY <3>6, <4>1
    <3>8. (k * m * s + x) * m = Unit * (s + r)
      BY <1>1, <3>2, <3>3
    <3>9. QED
      BY <3>5, <3>7, <3>8, Zenon
  <2>3. QED
    BY <2>1, <2>2
<1>4. RunningMean(st, Unit * r) = [q |-> e, n |-> m]
  BY DEF RunningMean
<1> HIDE DEF e, m
<1>5. QED
  BY <1>1, <1>2, <1>3, <1>4 DEF m

(* A call that ends is one more that has reported. *)
LEMMA ReportersGrow ==
  ASSUME LearnInv, NEW d \in Dispatches, dpc[d] # "done", dpc' = [dpc EXCEPT ![d] = "done"]
  PROVE  /\ Reporters' = Reporters \cup {d} /\ d \notin Reporters
         /\ IsFiniteSet(Reporters) /\ Cardinality(Reporters) \in Nat
         /\ Cardinality(Reporters)' = Cardinality(Reporters) + 1
         /\ Cardinality(Reporters) < Cardinality(Dispatches)
<1>1. Reporters' = Reporters \cup {d} /\ d \notin Reporters /\ Reporters' \subseteq Dispatches
  BY DEF LearnInv, Reporters
<1>2. IsFiniteSet(Reporters) /\ Reporters \subseteq Dispatches /\ IsFiniteSet(Dispatches)
  BY LearnerAssumption, FS_Subset DEF Reporters
<1> HIDE DEF Reporters
<1>3. Cardinality(Reporters \cup {d}) = Cardinality(Reporters) + 1 /\ Cardinality(Reporters) \in Nat
  BY <1>1, <1>2, FS_AddElement, FS_CardinalityType
<1>4. Cardinality(Reporters \cup {d}) <= Cardinality(Dispatches) /\ Cardinality(Dispatches) \in Nat
  BY <1>1, <1>2, FS_Subset, FS_CardinalityType
<1>5. QED
  BY <1>1, <1>2, <1>3, <1>4

(* What a learner knows stays right when nothing is reported to it. *)
LEMMA LearnQuiet ==
  ASSUME LearnInv, UNCHANGED <<algorithm, values, arms, rewarded>>, Reporters \subseteq Reporters',
         Cardinality(Reporters) <= Cardinality(Reporters)', Cardinality(Reporters)' \in Nat, Cardinality(Reporters) \in Nat,
         dpc' \in [Dispatches -> {"new", "selected", "running", "done"}],
         on' \in [Dispatches -> Arms \cup {None}],
         \A d \in Dispatches : dpc'[d] \in {"selected", "running"} => on'[d] \in Arms,
         wbar' \in [Arms -> SUBSET {"prior", "observed"}]
  PROVE  LearnInv'
<1>1. \A a \in Arms : /\ values'[a].n <= Cardinality(Reporters)' /\ arms'[a] <= Cardinality(Reporters)'
                      /\ \A p \in rewarded'[a] : p[1] \in Reporters'
  BY DEF LearnInv
<1>2. algorithm' = "epsilon" => \A a \in Arms : MeanOf(a)'
  BY DEF LearnInv, MeanOf
<1>3. QED
  BY <1>1, <1>2 DEF LearnInv

LEMMA SelectLearn ==
  ASSUME LearnInv, NEW d \in Dispatches, Dispatch(d) \/ DispatchFails(d) \/ Book(d)
  PROVE  LearnInv'
<1>0. IsFiniteSet(Reporters) /\ Cardinality(Reporters) \in Nat
  BY LearnerAssumption, FS_Subset, FS_CardinalityType DEF Reporters
<1>1. CASE Dispatch(d)
  <2>1. /\ dpc[d] = "new" /\ dpc' = [dpc EXCEPT ![d] = "selected"]
        /\ UNCHANGED <<algorithm, values, arms, rewarded>>
    BY <1>1 DEF Dispatch, EpsilonSelect, LinUCBSelect, HEFTSelect, learnState
  <2>2. \E a \in Arms : on' = [on EXCEPT ![d] = a]
    <3>1. \A listed, unhealthy, open \in SUBSET Arms : eligibleWorkers(listed, unhealthy, open) \subseteq Arms
      BY DEF eligibleWorkers
    <3>2. QED
      BY <1>1, <3>1, Zenon DEF Dispatch
  <2>3. wbar' = wbar \/ \E cands : HEFTSelect(cands)
    BY <1>1 DEF Dispatch, EpsilonSelect, LinUCBSelect, learnState
  <2>4. wbar' \in [Arms -> SUBSET {"prior", "observed"}]
    BY <2>3 DEF HEFTSelect, LearnInv
  <2>5. Reporters' = Reporters
    BY <2>1 DEF LearnInv, Reporters
  <2>6. /\ dpc' \in [Dispatches -> {"new", "selected", "running", "done"}]
        /\ on' \in [Dispatches -> Arms \cup {None}]
        /\ \A e \in Dispatches : dpc'[e] \in {"selected", "running"} => on'[e] \in Arms
    BY <2>1, <2>2 DEF LearnInv
  <2>7. QED
    BY <1>0, <2>1, <2>4, <2>5, <2>6, LearnQuiet
<1>2. CASE DispatchFails(d)
  <2>1. /\ dpc[d] = "new" /\ dpc' = [dpc EXCEPT ![d] = "done"]
        /\ UNCHANGED <<algorithm, values, arms, rewarded, on, wbar>>
    BY <1>2 DEF DispatchFails, learnState
  <2>2. Reporters \subseteq Reporters' /\ Cardinality(Reporters)' = Cardinality(Reporters) + 1
    BY <2>1, ReportersGrow
  <2>3. /\ dpc' \in [Dispatches -> {"new", "selected", "running", "done"}]
        /\ \A e \in Dispatches : dpc'[e] \in {"selected", "running"} => on'[e] \in Arms
    BY <2>1 DEF LearnInv
  <2>4. on' \in [Dispatches -> Arms \cup {None}] /\ wbar' \in [Arms -> SUBSET {"prior", "observed"}]
    BY <2>1 DEF LearnInv
  <2>5. QED
    BY <1>0, <2>1, <2>2, <2>3, <2>4, LearnQuiet
<1>3. CASE Book(d)
  <2>1. /\ dpc[d] = "selected" /\ dpc' = [dpc EXCEPT ![d] = "running"]
        /\ UNCHANGED <<algorithm, values, arms, rewarded, on, wbar>>
    BY <1>3 DEF Book, learnState
  <2>2. Reporters' = Reporters
    BY <2>1 DEF LearnInv, Reporters
  <2>3. /\ dpc' \in [Dispatches -> {"new", "selected", "running", "done"}]
        /\ \A e \in Dispatches : dpc'[e] \in {"selected", "running"} => on'[e] \in Arms
    BY <2>1 DEF LearnInv
  <2>4. on' \in [Dispatches -> Arms \cup {None}] /\ wbar' \in [Arms -> SUBSET {"prior", "observed"}]
    BY <2>1 DEF LearnInv
  <2>5. QED
    BY <1>0, <2>1, <2>2, <2>3, <2>4, LearnQuiet
<1>4. QED
  BY <1>1, <1>2, <1>3

(* The outcome of a call is one more sample for the worker that ran it. *)
LEMMA EpsilonLearn ==
  ASSUME LearnInv, NEW d \in Dispatches, dpc[d] = "running", NEW r \in Rewards, algorithm = "epsilon",
         values' = [values EXCEPT ![on[d]] = RunningMean(@, Unit * r)],
         rewarded' = [rewarded EXCEPT ![on[d]] = @ \cup {<<d, r>>}]
  PROVE  /\ values' \in [Arms -> [q : Int, n : Nat]]
         /\ \A a \in Arms : values'[a].n <= values[a].n + 1
         /\ \A a \in Arms : MeanOf(a)'
<1> DEFINE b == on[d]
           R == rewarded[b]
           p == <<d, r>>
           s == SumFunctionOnSet(RewardOf, R)
           st == values[b]
           new == RunningMean(st, Unit * r)
<1>1. b \in Arms /\ st \in [q : Int, n : Nat] /\ r \in Int
  BY LearnerAssumption DEF LearnInv
<1>2. p \in Dispatches \X Rewards /\ R \in SUBSET (Dispatches \X Rewards) /\ p \notin R
  <2>1. R \in SUBSET (Dispatches \X Rewards) /\ \A x \in R : x[1] \in Reporters
    BY <1>1 DEF LearnInv
  <2>2. d \notin Reporters
    BY DEF Reporters
  <2>3. QED
    BY <2>1, <2>2
<1>3. RewardOf \in [Dispatches \X Rewards -> Int] /\ RewardOf[p] = r
  <2>1. \A x \in Dispatches \X Rewards : x[2] \in Int
    BY LearnerAssumption
  <2>2. p[2] = r
    OBVIOUS
  <2> HIDE DEF p
  <2>3. QED
    BY <1>2, <2>1, <2>2 DEF RewardOf
<1>4. /\ st.n = Cardinality(R) /\ (st.n = 0 => st.q = 0) /\ st.q * st.n = Unit * s
      /\ st.n <= Cardinality(Reporters)
  BY <1>1 DEF LearnInv, MeanOf
<1>5. IsFiniteSet(R)
  BY <1>1 DEF LearnInv
<1>6. /\ s \in Int /\ SumFunctionOnSet(RewardOf, R \cup {p}) = s + r
      /\ Cardinality(R \cup {p}) = st.n + 1 /\ (st.n = 0 => s = 0)
  <2> HIDE DEF p, R, st
  <2>1. s \in Int
    BY <1>2, <1>3, <1>5, SumInt
  <2>2. /\ IsFiniteSet(R \cup {p}) /\ Cardinality(R \cup {p}) = Cardinality(R) + 1
        /\ R \cup {p} \in SUBSET (Dispatches \X Rewards) /\ p \in R \cup {p} /\ (R \cup {p}) \ {p} = R
    BY <1>2, <1>5, FS_AddElement
  <2>3. SumFunctionOnSet(RewardOf, R \cup {p}) = RewardOf[p] + SumFunctionOnSet(RewardOf, (R \cup {p}) \ {p})
    BY <1>3, <2>2, SumElementInt
  <2>4. SumFunctionOnSet(RewardOf, R \cup {p}) = r + s
    BY <1>3, <2>2, <2>3, Zenon
  <2>5. st.n = 0 => s = 0
    <3>1. Cardinality(R) = 0 => R = {}
      BY <1>5, FS_EmptySet
    <3>2. QED
      BY <1>4, <1>5, <3>1, SumStep
  <2> HIDE DEF s
  <2>6. r + s = s + r
    BY <1>1, <2>1
  <2>7. QED
    BY <1>4, <2>1, <2>2, <2>4, <2>5, <2>6, Zenon
<1>7. st.n < Cardinality(Dispatches)
  <2>1. /\ Cardinality(Reporters) < Cardinality(Dispatches) /\ Cardinality(Reporters) \in Nat
        /\ Cardinality(Dispatches) \in Nat
    <3>1. Reporters \subseteq Dispatches \ {d} /\ IsFiniteSet(Dispatches)
      BY LearnerAssumption DEF Reporters
    <3>2. /\ IsFiniteSet(Dispatches \ {d}) /\ Cardinality(Dispatches \ {d}) = Cardinality(Dispatches) - 1
          /\ Cardinality(Dispatches) \in Nat
      BY <3>1, FS_RemoveElement, FS_CardinalityType
    <3>3. Cardinality(Reporters) <= Cardinality(Dispatches \ {d}) /\ IsFiniteSet(Reporters)
      BY <3>1, <3>2, FS_Subset
    <3>4. QED
      BY <3>2, <3>3, FS_CardinalityType
  <2>2. QED
    BY <1>1, <1>4, <2>1
<1>8. new \in [q : Int, n : Nat] /\ new.n = st.n + 1 /\ new.q * new.n = Unit * (s + r)
  <2> HIDE DEF st, s, R, b
  <2>1. QED
    BY <1>1, <1>4, <1>6, <1>7, RunningMeanExact
<1>9. values' = [values EXCEPT ![b] = new] /\ rewarded' = [rewarded EXCEPT ![b] = R \cup {p}]
  OBVIOUS
<1>10. /\ values'[b] = new /\ \A a \in Arms \ {b} : values'[a] = values[a] /\ rewarded'[a] = rewarded[a]
       /\ rewarded'[b] = R \cup {p} /\ values' \in [Arms -> [q : Int, n : Nat]]
  <2>1. values \in [Arms -> [q : Int, n : Nat]] /\ rewarded \in [Arms -> SUBSET (Dispatches \X Rewards)]
    BY DEF LearnInv
  <2> HIDE DEF new, R, p, b
  <2>2. QED
    BY <1>1, <1>8, <1>9, <2>1
<1>11. ASSUME NEW a \in Arms PROVE values'[a].n <= values[a].n + 1 /\ MeanOf(a)'
  <2>1. CASE a = b
    <3>1. values'[a] = new /\ rewarded'[a] = R \cup {p} /\ values[a] = st
      BY <1>10, <2>1
    <3>2. new.n \in Nat /\ new.n # 0 /\ new.n <= st.n + 1
      BY <1>1, <1>8
    <3> HIDE DEF new, R, p, st, s, b
    <3>3. MeanOf(a)'
      BY <1>6, <1>8, <3>1, <3>2, Zenon DEF MeanOf
    <3>4. QED
      BY <3>1, <3>2, <3>3
  <2>2. CASE a # b
    <3>1. values'[a] = values[a] /\ rewarded'[a] = rewarded[a] /\ MeanOf(a) /\ values[a].n \in Nat
      BY <1>10, <2>2 DEF LearnInv
    <3>2. MeanOf(a)'
      BY <3>1 DEF MeanOf
    <3>3. QED
      BY <3>1, <3>2
  <2>3. QED
    BY <2>1, <2>2
<1>12. QED
  BY <1>10, <1>11

LEMMA OutcomeLearn ==
  ASSUME LearnInv, NEW d \in Dispatches, Outcome(d)
  PROVE  LearnInv'
<1>1. PICK r \in Rewards :
        /\ \/ algorithm = "epsilon" /\ EpsilonRecord(d, r)
           \/ algorithm = "linucb" /\ LinUCBRecord(d)
           \/ algorithm = "heft" /\ HEFTRecord(d)
        /\ rewarded' = [rewarded EXCEPT ![on[d]] = @ \cup {<<d, r>>}]
  BY DEF Outcome
<1>2. /\ dpc[d] = "running" /\ dpc' = [dpc EXCEPT ![d] = "done"] /\ UNCHANGED <<algorithm, on>>
      /\ on[d] \in Arms
  BY DEF Outcome, LearnInv
<1>3. /\ Reporters' = Reporters \cup {d} /\ Cardinality(Reporters) \in Nat
      /\ Cardinality(Reporters)' = Cardinality(Reporters) + 1
  BY <1>2, ReportersGrow
<1>4. /\ algorithm' \in {"epsilon", "linucb", "heft"}
      /\ dpc' \in [Dispatches -> {"new", "selected", "running", "done"}]
      /\ on' \in [Dispatches -> Arms \cup {None}]
      /\ \A e \in Dispatches : dpc'[e] \in {"selected", "running"} => on'[e] \in Arms
  BY <1>2 DEF LearnInv
<1>5. wbar' \in [Arms -> SUBSET {"prior", "observed"}]
  BY <1>1, <1>2 DEF LearnInv, EpsilonRecord, LinUCBRecord, HEFTRecord
<1>6. arms' \in [Arms -> Nat] /\ \A a \in Arms : arms'[a] <= arms[a] + 1
  BY <1>1, <1>2 DEF LearnInv, EpsilonRecord, LinUCBRecord, HEFTRecord
<1>7. /\ rewarded' \in [Arms -> SUBSET (Dispatches \X Rewards)]
      /\ \A a \in Arms : IsFiniteSet(rewarded'[a])
      /\ \A a \in Arms : \A p \in rewarded'[a] : p[1] \in Reporters'
  <2> DEFINE b == on[d]
             p == <<d, r>>
  <2>1. p \in Dispatches \X Rewards /\ p[1] = d
    OBVIOUS
  <2>2. /\ b \in Arms /\ rewarded \in [Arms -> SUBSET (Dispatches \X Rewards)]
        /\ \A a \in Arms : IsFiniteSet(rewarded[a])
        /\ \A a \in Arms : \A x \in rewarded[a] : x[1] \in Reporters
    BY <1>2 DEF LearnInv
  <2>3. rewarded' = [rewarded EXCEPT ![b] = rewarded[b] \cup {p}]
    BY <1>1
  <2> HIDE DEF b, p
  <2>4. IsFiniteSet(rewarded[b] \cup {p})
    BY <2>2, FS_AddElement
  <2>5. \A x \in rewarded[b] \cup {p} : x[1] \in Reporters'
    BY <1>3, <2>1, <2>2
  <2>6. QED
    BY <1>3, <2>1, <2>2, <2>3, <2>4, <2>5
<1>8. /\ values' \in [Arms -> [q : Int, n : Nat]] /\ \A a \in Arms : values'[a].n <= values[a].n + 1
      /\ algorithm' = "epsilon" => \A a \in Arms : MeanOf(a)'
  <2>1. CASE algorithm = "epsilon"
    <3>1. values' = [values EXCEPT ![on[d]] = RunningMean(@, Unit * r)]
      BY <1>1, <2>1 DEF EpsilonRecord
    <3>2. QED
      BY <1>1, <1>2, <2>1, <3>1, EpsilonLearn
  <2>2. CASE algorithm # "epsilon"
    <3>1. values' = values /\ algorithm' # "epsilon"
      BY <1>1, <1>2, <2>2 DEF LinUCBRecord, HEFTRecord
    <3>2. \A a \in Arms : values[a].n \in Nat
      BY DEF LearnInv
    <3>3. QED
      BY <3>1, <3>2 DEF LearnInv
  <2>3. QED
    BY <2>1, <2>2
<1>9. \A a \in Arms : values'[a].n <= Cardinality(Reporters)' /\ arms'[a] <= Cardinality(Reporters)'
  <2>1. \A a \in Arms : /\ values[a].n \in Nat /\ arms[a] \in Nat /\ values'[a].n \in Nat /\ arms'[a] \in Nat
                        /\ values[a].n <= Cardinality(Reporters) /\ arms[a] <= Cardinality(Reporters)
    BY <1>6, <1>8 DEF LearnInv
  <2>2. QED
    BY <1>3, <1>6, <1>8, <2>1
<1>10. QED
  BY <1>4, <1>5, <1>6, <1>7, <1>8, <1>9 DEF LearnInv

LEMMA LearnInvariant == LearnSpec => []LearnInv
<1>1. ASSUME LearnInit PROVE LearnInv
  <2>1. Reporters = {} /\ Cardinality({}) = 0 /\ IsFiniteSet({})
    BY <1>1, FS_EmptySet DEF LearnInit, Reporters
  <2>2. SumFunctionOnSet(RewardOf, {}) = 0
    BY <2>1, SumStep
  <2>3. /\ values = [a \in Arms |-> [q |-> 0, n |-> 0]] /\ rewarded = [a \in Arms |-> {}]
    BY <1>1 DEF LearnInit
  <2>4. \A a \in Arms : values[a].n = 0 /\ values[a].q = 0 /\ rewarded[a] = {}
    BY <2>3
  <2>5. Unit \in Int /\ 0 * 0 = Unit * 0
    BY LearnerAssumption
  <2>6. \A a \in Arms : MeanOf(a)
    BY <2>1, <2>2, <2>4, <2>5, Zenon DEF MeanOf
  <2>7. QED
    BY <1>1, <2>1, <2>4, <2>6 DEF LearnInit, LearnInv
<1>2. LearnInv /\ UNCHANGED learnVars => LearnInv'
  BY DEF learnVars, LearnInv, Reporters, MeanOf
<1>3. LearnInv /\ [LearnNext]_learnVars => LearnInv'
  BY <1>2, SelectLearn, OutcomeLearn DEF LearnNext
<1>4. LearnInit => LearnInv
  BY <1>1
<1>5. QED
  BY <1>3, <1>4, PTL DEF LearnSpec

(* Epsilon-greedy's estimate of a worker is the mean of the rewards of      *)
(* exactly the calls that ran there, whatever the order of their outcomes.  *)
THEOREM MeansAreExact == LearnSpec => []MeanOfOwnRewards
<1>1. LearnInv => MeanOfOwnRewards
  BY DEF LearnInv, MeanOf, MeanOfOwnRewards
<1>2. QED
  BY <1>1, LearnInvariant, PTL

(* The learners' state keeps its types, and no worker has more samples than *)
(* there were calls.                                                        *)
THEOREM LearnTypeCorrect == LearnSpec => []LearnTypeOK
<1>1. PendingInv /\ LearnInv => LearnTypeOK
  <2> SUFFICES ASSUME PendingInv, LearnInv PROVE LearnTypeOK
    OBVIOUS
  <2>1. Cardinality(Reporters) <= Cardinality(Dispatches) /\ Cardinality(Reporters) \in Nat /\ Cardinality(Dispatches) \in Nat
    <3>1. Reporters \subseteq Dispatches /\ IsFiniteSet(Dispatches)
      BY LearnerAssumption DEF Reporters
    <3>2. QED
      BY <3>1, FS_Subset, FS_CardinalityType
  <2>2. \A a \in Arms : values[a].n \in 0 .. Cardinality(Dispatches) /\ arms[a] \in 0 .. Cardinality(Dispatches)
    BY <2>1 DEF LearnInv
  <2>3. values \in [Arms -> [q : Int, n : 0 .. Cardinality(Dispatches)]]
    BY <2>2 DEF LearnInv
  <2>4. arms \in [Arms -> 0 .. Cardinality(Dispatches)]
    BY <2>2 DEF LearnInv
  <2>5. QED
    BY <2>3, <2>4 DEF LearnInv, PendingInv, LearnTypeOK
<1>2. QED
  BY <1>1, LearnInvariant, PendingInvariant, PTL

-----------------------------------------------------------------------------
(***************************************************************************)
(* The map of circuit breakers, for any number of hosts, callers and       *)
(* breakers.  The double-checked creation of getOrCreate never leaves two  *)
(* callers of a host with two breakers.                                    *)
(***************************************************************************)

IsCall(x) == x = [at |-> x.at, host |-> x.host, breaker |-> x.breaker,
                  generation |-> x.generation]

(* A caller that has its breaker has a real one: a breaker put into the    *)
(* map later cannot pull it away.                                          *)
BreakerInv ==
  /\ breakers \in [Hosts -> Breakers \cup {NoBreaker}]
  /\ call = [c \in Callers |-> call[c]] /\ \A c \in Callers : IsCall(call[c])
  /\ \A c \in Callers :
       /\ call[c].at # "idle" => call[c].host \in Hosts
       /\ call[c].at \in {"admit", "running"} =>
            /\ call[c].breaker # NoBreaker
            /\ call[c].breaker = breakers[call[c].host] \/ call[c].breaker \in retired

(* A step of one caller that leaves the map alone. *)
LEMMA CallerStep ==
  ASSUME BreakerInv, NEW c \in Callers, NEW x, IsCall(x),
         call' = [call EXCEPT ![c] = x], UNCHANGED <<breakers, retired>>,
         x.at # "idle" => x.host \in Hosts,
         x.at \in {"admit", "running"} =>
            /\ x.breaker # NoBreaker
            /\ x.breaker = breakers[x.host] \/ x.breaker \in retired
  PROVE  BreakerInv'
BY DEF BreakerInv, IsCall

(* Two fields of a caller's record are set one after the other. *)
LEMMA TwoFields ==
  ASSUME BreakerInv, NEW c \in Callers, NEW b, NEW g
  PROVE  LET i == call[c] IN
         /\ [call EXCEPT ![c].at = "admit", ![c].breaker = b] =
              [call EXCEPT ![c] = [at |-> "admit", host |-> i.host, breaker |-> b,
                                   generation |-> i.generation]]
         /\ [call EXCEPT ![c].at = "running", ![c].generation = g] =
              [call EXCEPT ![c] = [at |-> "running", host |-> i.host,
                                   breaker |-> i.breaker, generation |-> g]]
<1> DEFINE i == call[c]
           F(a) == [call EXCEPT ![c].at = a]
           R(a) == [at |-> a, host |-> i.host, breaker |-> i.breaker,
                    generation |-> i.generation]
<1>1. /\ call[c] = [at |-> i.at, host |-> i.host, breaker |-> i.breaker,
                    generation |-> i.generation]
      /\ DOMAIN call = Callers /\ call = [s \in Callers |-> call[s]]
  BY DEF BreakerInv, IsCall
<1>2. ASSUME NEW a PROVE F(a) = [call EXCEPT ![c] = R(a)]
  <2>1. i = [at |-> i.at, host |-> i.host, breaker |-> i.breaker,
             generation |-> i.generation]
    BY <1>1, Zenon
  <2> HIDE DEF i
  <2>2. [i EXCEPT !.at = a] = R(a)
    BY <2>1
  <2>3. QED
    BY <2>2, Zenon DEF i
<1> HIDE DEF F, R, i
<1>3. ASSUME NEW a
      PROVE  /\ DOMAIN F(a) = Callers /\ F(a) = [s \in Callers |-> F(a)[s]]
             /\ F(a)[c] = R(a)
             /\ \A x : [F(a) EXCEPT ![c] = x] = [call EXCEPT ![c] = x]
  BY <1>1, <1>2
<1>4. ASSUME NEW a
      PROVE  F(a)[c] = [at |-> a, host |-> i.host, breaker |-> i.breaker,
                        generation |-> i.generation]
  BY <1>3 DEF R
<1>5. [F("admit") EXCEPT ![c].breaker = b] =
        [call EXCEPT ![c] = [at |-> "admit", host |-> i.host, breaker |-> b,
                             generation |-> i.generation]]
  <2> DEFINE q == F("admit")[c]
  <2>1. q = [at |-> "admit", host |-> i.host, breaker |-> i.breaker,
             generation |-> i.generation]
    BY <1>4
  <2> HIDE DEF q
  <2>2. [q EXCEPT !.breaker = b] =
          [at |-> "admit", host |-> i.host, breaker |-> b, generation |-> i.generation]
    BY <2>1
  <2>3. QED
    BY <1>3, <2>2, Zenon DEF q
<1>6. [F("running") EXCEPT ![c].generation = g] =
        [call EXCEPT ![c] = [at |-> "running", host |-> i.host,
                             breaker |-> i.breaker, generation |-> g]]
  <2> DEFINE q == F("running")[c]
  <2>1. q = [at |-> "running", host |-> i.host, breaker |-> i.breaker,
             generation |-> i.generation]
    BY <1>4
  <2> HIDE DEF q
  <2>2. [q EXCEPT !.generation = g] =
          [at |-> "running", host |-> i.host, breaker |-> i.breaker, generation |-> g]
    BY <2>1
  <2>3. QED
    BY <1>3, <2>2, Zenon DEF q
<1>7. QED
  BY <1>5, <1>6, Zenon DEF i, F

(* The first look, under the read lock. *)
LEMMA LookupInv ==
  ASSUME BreakerInv, NEW c \in Callers, NEW h \in Hosts, Lookup(c, h)
  PROVE  BreakerInv'
<1> DEFINE a == IF breakers[h] = NoBreaker THEN "create" ELSE "admit"
           x == [at |-> a, host |-> h, breaker |-> breakers[h], generation |-> 0]
           f == [Idle EXCEPT !.at = a]
           g == [f EXCEPT !.host = h]
<1>1. /\ a \in {"create", "admit"}
      /\ a = "admit" => breakers[h] # NoBreaker
  OBVIOUS
<1>2. call' = [call EXCEPT ![c] = [g EXCEPT !.breaker = breakers[h]]]
  BY Zenon DEF Lookup
<1>3. UNCHANGED <<breakers, retired>>
  BY DEF Lookup
<1> HIDE DEF a
<1>4. f = [at |-> a, host |-> NoBreaker, breaker |-> NoBreaker, generation |-> 0]
  BY DEF Idle
<1> HIDE DEF f
<1>5. g = [at |-> a, host |-> h, breaker |-> NoBreaker, generation |-> 0]
  BY <1>4
<1> HIDE DEF g
<1>6. [g EXCEPT !.breaker = breakers[h]] = x
  BY <1>5
<1>7. /\ x.at = a /\ x.host = h /\ x.breaker = breakers[h] /\ IsCall(x)
  BY DEF IsCall
<1>8. call' = [call EXCEPT ![c] = x]
  BY <1>2, <1>6, Zenon
<1> HIDE DEF x
<1>9. QED
  BY <1>1, <1>3, <1>7, <1>8, CallerStep

(* The second look, under the write lock, and the creation. *)
LEMMA CreateInv ==
  ASSUME BreakerInv, NEW c \in Callers, Create(c)
  PROVE  BreakerInv'
<1> DEFINE h == call[c].host
           with(b) == [at |-> "admit", host |-> h, breaker |-> b,
                       generation |-> call[c].generation]
<1>1. call[c].at = "create" /\ h \in Hosts /\ retired' = retired
  BY DEF Create, BreakerInv
<1>2. ASSUME NEW b, call' = [call EXCEPT ![c].at = "admit", ![c].breaker = b]
      PROVE  call' = [call EXCEPT ![c] = with(b)] /\ IsCall(with(b))
  BY <1>2, TwoFields DEF IsCall
<1>3. CASE StillMissing(h)
  <2>1. PICK b \in Breakers :
          /\ breakers' = [breakers EXCEPT ![h] = b]
          /\ call' = [call EXCEPT ![c].at = "admit", ![c].breaker = b]
    BY <1>3 DEF Create
  <2>2. breakers[h] = NoBreaker /\ b # NoBreaker
    BY <1>3, ResilienceAssumption DEF StillMissing, NoBreaker
  <2>3. call' = [call EXCEPT ![c] = with(b)] /\ IsCall(with(b))
    BY <1>2, <2>1
  <2>4. QED
    BY <1>1, <2>1, <2>2, <2>3 DEF BreakerInv
<1>4. CASE ~StillMissing(h)
  <2>1. /\ call' = [call EXCEPT ![c].at = "admit", ![c].breaker = breakers[h]]
        /\ breakers' = breakers
    BY <1>4 DEF Create
  <2>2. breakers[h] # NoBreaker
    BY <1>4 DEF StillMissing
  <2>3. call' = [call EXCEPT ![c] = with(breakers[h])] /\ IsCall(with(breakers[h]))
    BY <1>2, <2>1
  <2>4. QED
    BY <1>1, <2>1, <2>2, <2>3, CallerStep
<1>5. QED
  BY <1>3, <1>4

(* The request is admitted or turned away, and ends. *)
LEMMA RequestInv ==
  ASSUME BreakerInv, NEW c \in Callers, Admit(c) \/ Finish(c)
  PROVE  BreakerInv'
<1>1. UNCHANGED <<breakers, retired>> /\ call[c].at \in {"admit", "running"}
  BY DEF Admit, Finish
<1>2. CASE call' = [call EXCEPT ![c] = Idle]
  BY <1>1, <1>2, CallerStep DEF Idle, IsCall
<1>3. ASSUME NEW g, call' = [call EXCEPT ![c].at = "running", ![c].generation = g]
      PROVE  BreakerInv'
  <2> DEFINE x == [at |-> "running", host |-> call[c].host, breaker |-> call[c].breaker,
                   generation |-> g]
  <2>1. call' = [call EXCEPT ![c] = x] /\ IsCall(x)
    BY <1>3, TwoFields DEF IsCall
  <2>2. QED
    BY <1>1, <2>1, CallerStep DEF BreakerInv
<1>4. \/ call' = [call EXCEPT ![c] = Idle]
      \/ \E g : call' = [call EXCEPT ![c].at = "running", ![c].generation = g]
  BY DEF Admit, Finish
<1>5. QED
  BY <1>2, <1>3, <1>4

LEMMA BreakerInvariant == ResilienceSpec => []BreakerInv
<1>1. ResilienceInit => BreakerInv
  BY DEF ResilienceInit, BreakerInv, Idle, IsCall
<1>2. ASSUME BreakerInv, [ResilienceNext]_resilienceVars PROVE BreakerInv'
  <2>1. ASSUME NEW h \in Hosts, RemoveBreaker(h) PROVE BreakerInv'
    BY <1>2, <2>1 DEF RemoveBreaker, BreakerInv
  <2>2. ASSUME UNCHANGED <<breakers, call, retired>> PROVE BreakerInv'
    BY <1>2, <2>2 DEF BreakerInv, IsCall
  <2>3. ASSUME NEW b \in Breakers, IntervalEnds(b) PROVE BreakerInv'
    BY <2>2, <2>3 DEF IntervalEnds
  <2>4. CASE RetryNext \/ UNCHANGED resilienceVars
    BY <2>2, <2>4 DEF RetryNext, StartRetry, Attempt, Return, RetryAgain, circuitVars,
                      resilienceVars
  <2>5. CASE CircuitNext
    BY <1>2, <2>1, <2>3, <2>5, LookupInv, CreateInv, RequestInv DEF CircuitNext
  <2>6. QED
    BY <1>2, <2>4, <2>5 DEF ResilienceNext
<1>3. BreakerInv /\ [ResilienceNext]_resilienceVars => BreakerInv'
  BY <1>2
<1>4. QED
  BY <1>1, <1>3, PTL DEF ResilienceSpec

(* Concurrent callers of a host share its breaker; only Remove parts them. *)
THEOREM OneBreakerEach == ResilienceSpec => []OneBreakerPerHost
<1>1. BreakerInv => OneBreakerPerHost
  BY DEF BreakerInv, OneBreakerPerHost
<1>2. QED
  BY <1>1, BreakerInvariant, PTL

(* The counts of a breaker. *)
Circuits == [state : {"new", "closed", "open", "half-open"}, requests : 0 .. MaxCount,
             failures : Nat, successes : 0 .. MaxRequests, generation : Nat]
Calls == [at : {"idle", "create", "admit", "running"}, host : Hosts \cup {NoBreaker},
          breaker : Breakers \cup {NoBreaker}, generation : Nat]

CircuitShape ==
  /\ breakers \in [Hosts -> Breakers \cup {NoBreaker}]
  /\ circuit \in [Breakers -> Circuits]
  /\ call \in [Callers -> Calls]
  /\ retired \subseteq Breakers

LEMMA NextGenerationType ==
  ASSUME NEW b \in Circuits, NEW s \in {"closed", "open", "half-open"}
  PROVE  NextGeneration(b, s) \in Circuits /\ NextGeneration(b, s).state = s /\ NextGeneration(b, s).requests = 0
<1>1. 0 \in 0 .. MaxCount /\ 0 \in 0 .. MaxRequests /\ b.generation + 1 \in Nat
  BY ResilienceAssumption DEF Circuits
<1>2. QED
  BY <1>1 DEF NextGeneration, Circuits

LEMMA CountedType ==
  ASSUME NEW b \in Circuits, NEW ok \in BOOLEAN
  PROVE  Counted(b, ok) \in Circuits
<1>0. /\ NextGeneration(b, "closed") \in Circuits /\ NextGeneration(b, "open") \in Circuits
      /\ MaxRequests \in Nat
  BY NextGenerationType, ResilienceAssumption
<1>1. CASE ok
  <2> DEFINE s == IF b.successes < MaxRequests THEN b.successes + 1 ELSE b.successes
  <2>1. s \in 0 .. MaxRequests
    BY <1>0 DEF Circuits
  <2>2. Counted(b, ok) \in {NextGeneration(b, "closed"), [b EXCEPT !.successes = s]}
    BY <1>1 DEF Counted
  <2> HIDE DEF s
  <2>3. [b EXCEPT !.successes = s] \in Circuits
    BY <2>1 DEF Circuits
  <2>4. QED
    BY <1>0, <2>2, <2>3
<1>2. CASE ~ok
  <2> DEFINE f == [b EXCEPT !.failures = @ + 1, !.successes = 0]
  <2>1. f \in Circuits
    <3>1. b.failures + 1 \in Nat /\ 0 \in 0 .. MaxRequests
      BY <1>0 DEF Circuits
    <3>2. QED
      BY <3>1 DEF Circuits
  <2>2. Counted(b, ok) \in {NextGeneration(b, "open"), f}
    BY <1>2 DEF Counted
  <2>3. QED
    BY <1>0, <2>1, <2>2
<1>3. QED
  BY <1>1, <1>2

(* A caller that is past the map holds a breaker. *)
LEMMA HoldsBreaker ==
  ASSUME BreakerInv, CircuitShape, NEW c \in Callers, call[c].at \in {"admit", "running"}
  PROVE  call[c].breaker \in Breakers /\ circuit[call[c].breaker] \in Circuits
BY DEF BreakerInv, CircuitShape, Calls

LEMMA IdleType == Idle \in Calls
BY DEF Idle, Calls

LEMMA LookupType ==
  ASSUME CircuitShape, NEW c \in Callers, NEW h \in Hosts, Lookup(c, h)
  PROVE  CircuitShape'
<1> DEFINE a == IF breakers[h] = NoBreaker THEN "create" ELSE "admit"
           x == [Idle EXCEPT !.at = a, !.host = h, !.breaker = breakers[h]]
<1>1. a \in {"create", "admit"} /\ breakers[h] \in Breakers \cup {NoBreaker}
  BY DEF CircuitShape
<1>2. x \in Calls
  <2>1. Idle \in Calls
    BY IdleType
  <2> HIDE DEF a
  <2>2. QED
    BY <1>1, <2>1 DEF Calls
<1>3. call' = [call EXCEPT ![c] = x] /\ UNCHANGED <<breakers, circuit, retired>>
  BY DEF Lookup
<1> HIDE DEF x
<1>4. QED
  BY <1>2, <1>3 DEF CircuitShape

LEMMA CreateType ==
  ASSUME BreakerInv, CircuitShape, NEW c \in Callers, Create(c)
  PROVE  CircuitShape'
<1> DEFINE h == call[c].host
<1>1. h \in Hosts /\ UNCHANGED retired
  BY DEF Create, BreakerInv
<1>2. ASSUME NEW b \in Breakers, call' = [call EXCEPT ![c].at = "admit", ![c].breaker = b]
      PROVE  call' \in [Callers -> Calls]
  <2> DEFINE x == [call[c] EXCEPT !.at = "admit", !.breaker = b]
  <2>1. call[c] \in Calls /\ call \in [Callers -> Calls]
    BY DEF CircuitShape
  <2>2. x \in Calls
    BY <2>1 DEF Calls
  <2>3. call' = [call EXCEPT ![c] = x]
    BY <1>2
  <2> HIDE DEF x
  <2>4. QED
    BY <2>1, <2>2, <2>3
<1>3. CASE StillMissing(h)
  <2>1. PICK b \in Breakers :
          /\ breakers' = [breakers EXCEPT ![h] = b]
          /\ circuit' = [circuit EXCEPT ![b].state = "closed"]
          /\ call' = [call EXCEPT ![c].at = "admit", ![c].breaker = b]
    BY <1>3 DEF Create
  <2>2. circuit' \in [Breakers -> Circuits]
    BY <2>1 DEF CircuitShape, Circuits
  <2>3. breakers' \in [Hosts -> Breakers \cup {NoBreaker}]
    BY <1>1, <2>1 DEF CircuitShape
  <2>4. QED
    BY <1>1, <1>2, <2>1, <2>2, <2>3 DEF CircuitShape
<1>4. CASE ~StillMissing(h)
  <2>1. /\ call' = [call EXCEPT ![c].at = "admit", ![c].breaker = breakers[h]]
        /\ UNCHANGED <<breakers, circuit>> /\ breakers[h] \in Breakers
    BY <1>1, <1>4 DEF Create, StillMissing, CircuitShape
  <2>2. QED
    BY <1>1, <1>2, <2>1 DEF CircuitShape
<1>5. QED
  BY <1>3, <1>4

LEMMA AdmitType ==
  ASSUME BreakerInv, CircuitShape, NEW c \in Callers, Admit(c)
  PROVE  CircuitShape'
<1> DEFINE k == call[c].breaker
           b == circuit[k]
<1>1. k \in Breakers /\ b \in Circuits /\ b.requests < MaxCount /\ UNCHANGED <<breakers, retired>>
  BY HoldsBreaker DEF Admit
<1>2. PICK now \in {b} \cup (IF b.state = "open" THEN {NextGeneration(b, "half-open")} ELSE {}) :
        \/ circuit' = [circuit EXCEPT ![k] = now] /\ call' = [call EXCEPT ![c] = Idle]
        \/ /\ circuit' = [circuit EXCEPT ![k] = [now EXCEPT !.requests = @ + 1]]
           /\ call' = [call EXCEPT ![c].at = "running", ![c].generation = now.generation]
  BY DEF Admit
<1>3. now \in Circuits /\ now.requests < MaxCount
  <2>1. now = b \/ now = NextGeneration(b, "half-open")
    BY <1>2
  <2>2. NextGeneration(b, "half-open") \in Circuits /\ NextGeneration(b, "half-open").requests = 0 /\ 0 < MaxCount
    BY <1>1, NextGenerationType, ResilienceAssumption
  <2>3. QED
    BY <1>1, <2>1, <2>2
<1> DEFINE more == [now EXCEPT !.requests = @ + 1]
<1>4. more \in Circuits
  <2>1. now.requests + 1 \in 0 .. MaxCount
    BY <1>3, ResilienceAssumption DEF Circuits
  <2>2. QED
    BY <1>3, <2>1 DEF Circuits
<1>5. circuit' \in [Breakers -> Circuits]
  <2>1. circuit' = [circuit EXCEPT ![k] = now] \/ circuit' = [circuit EXCEPT ![k] = more]
    BY <1>2
  <2> HIDE DEF more, k
  <2>2. QED
    BY <1>1, <1>3, <1>4, <2>1 DEF CircuitShape
<1>6. call' \in [Callers -> Calls]
  <2>1. CASE call' = [call EXCEPT ![c] = Idle]
    BY <2>1, IdleType DEF CircuitShape
  <2>2. CASE call' = [call EXCEPT ![c].at = "running", ![c].generation = now.generation]
    <3>1. now.generation \in Nat
      BY <1>3 DEF Circuits
    <3> DEFINE g == now.generation
               x == [call[c] EXCEPT !.at = "running", !.generation = g]
    <3>2. g \in Nat /\ call[c] \in Calls /\ call \in [Callers -> Calls]
      BY <3>1 DEF CircuitShape
    <3>3. call' = [call EXCEPT ![c] = x]
      BY <2>2
    <3> HIDE DEF g
    <3>4. x \in Calls
      BY <3>2 DEF Calls
    <3> HIDE DEF x
    <3>5. QED
      BY <3>2, <3>3, <3>4
  <2>3. QED
    BY <1>2, <2>1, <2>2
<1>7. QED
  BY <1>1, <1>5, <1>6 DEF CircuitShape

LEMMA FinishType ==
  ASSUME BreakerInv, CircuitShape, NEW c \in Callers, Finish(c)
  PROVE  CircuitShape'
<1> DEFINE k == call[c].breaker
           b == circuit[k]
<1>1. k \in Breakers /\ b \in Circuits /\ UNCHANGED <<breakers, retired>> /\ call' = [call EXCEPT ![c] = Idle]
  BY HoldsBreaker DEF Finish
<1>2. PICK ok \in BOOLEAN :
        circuit' = [circuit EXCEPT ![k] = IF b.generation = call[c].generation THEN Counted(b, ok) ELSE b]
  BY DEF Finish
<1>3. Counted(b, ok) \in Circuits
  BY <1>1, CountedType
<1>4. circuit' \in [Breakers -> Circuits]
  <2> DEFINE x == IF b.generation = call[c].generation THEN Counted(b, ok) ELSE b
  <2>1. x \in Circuits /\ circuit' = [circuit EXCEPT ![k] = x]
    BY <1>1, <1>2, <1>3
  <2> HIDE DEF x, k
  <2>2. QED
    BY <1>1, <2>1 DEF CircuitShape
<1>5. QED
  BY <1>1, <1>4, IdleType DEF CircuitShape

LEMMA CircuitStep ==
  ASSUME BreakerInv, CircuitShape, [ResilienceNext]_resilienceVars
  PROVE  CircuitShape'
<1>1. ASSUME NEW h \in Hosts, RemoveBreaker(h) PROVE CircuitShape'
  BY <1>1 DEF RemoveBreaker, CircuitShape
<1>2. ASSUME NEW b \in Breakers, IntervalEnds(b) PROVE CircuitShape'
  <2>1. NextGeneration(circuit[b], "closed") \in Circuits
    BY NextGenerationType DEF CircuitShape
  <2>2. /\ circuit' = [circuit EXCEPT ![b] = NextGeneration(circuit[b], "closed")]
        /\ UNCHANGED <<breakers, call, retired>>
    BY <1>2 DEF IntervalEnds
  <2>3. QED
    BY <2>1, <2>2 DEF CircuitShape
<1>3. CASE RetryNext \/ UNCHANGED resilienceVars
  BY <1>3 DEF RetryNext, StartRetry, Attempt, Return, RetryAgain, circuitVars, resilienceVars, CircuitShape
<1>4. CASE CircuitNext
  BY <1>1, <1>2, <1>4, LookupType, CreateType, AdmitType, FinishType DEF CircuitNext
<1>5. QED
  BY <1>3, <1>4 DEF ResilienceNext

LEMMA CircuitShapes == ResilienceSpec => []CircuitShape
<1>1. ResilienceInit => CircuitShape
  <2>1. Idle \in Calls
    BY IdleType
  <2>2. FreshCircuit \in Circuits
    BY ResilienceAssumption DEF FreshCircuit, Circuits
  <2>3. QED
    BY <2>1, <2>2 DEF ResilienceInit, CircuitShape
<1>2. BreakerInv /\ CircuitShape /\ [ResilienceNext]_resilienceVars => CircuitShape'
  BY CircuitStep
<1>3. QED
  BY <1>1, <1>2, BreakerInvariant, PTL DEF ResilienceSpec

-----------------------------------------------------------------------------
(***************************************************************************)
(* The retry helpers, for any number of retries.  RetryVerdict needs that  *)
(* an attempt which is not the first follows a failed one, so that         *)
(* RetryWithResult has an error to remember.                               *)
(***************************************************************************)
ErrorCodes == PermanentCodes \cup TransientCodes

RetryInv ==
  /\ retry \in [helper : {"none", "Retry", "RetryNotify", "RetryWithResult"},
                attempts : 0 .. MaxRetries + 1, last : ErrorCodes \cup {"none", "ok"},
                lastErr : ErrorCodes \cup {"none"},
                returned : ErrorCodes \cup {"none", "ok", "pending"}]
  /\ retry.lastErr = "none" /\ retry.last = "ok" => retry.attempts = 1
  /\ retry.lastErr = "none" => retry.last \in {"none", "ok"}
  /\ retry.last = "none" => retry.attempts = 0
  /\ RetryVerdict

LEMMA RetryStep ==
  ASSUME RetryInv, [ResilienceNext]_resilienceVars PROVE RetryInv'
<1>0. MaxRetries \in Nat
  BY ResilienceAssumption
<1>1. CASE UNCHANGED retry
  BY <1>1 DEF RetryInv, RetryVerdict
<1>2. CASE StartRetry
  BY <1>0, <1>2 DEF StartRetry, RetryInv, RetryVerdict, Untried
<1>3. CASE Attempt
  <2>1. "ok" \notin ErrorCodes /\ "none" \notin ErrorCodes /\ "pending" \notin ErrorCodes
    BY DEF ErrorCodes, PermanentCodes, TransientCodes
  <2>2. PICK err \in ErrorCodes \cup {"ok"} :
          retry' = [retry EXCEPT !.attempts = @ + 1, !.last = err, !.lastErr = IF err = "ok" THEN @ ELSE err]
    BY <1>3 DEF Attempt, ErrorCodes
  <2>3. /\ retry.returned = "pending" /\ retry.last # "ok" /\ retry.attempts <= MaxRetries
        /\ retry.helper # "none"
    BY <1>3 DEF Attempt, MayRetry
  <2> DEFINE le == IF err = "ok" THEN retry.lastErr ELSE err
  <2>4. retry' = [helper |-> retry.helper, attempts |-> retry.attempts + 1, last |-> err,
                  lastErr |-> le, returned |-> retry.returned]
    BY <2>2 DEF RetryInv
  <2>5. le \in ErrorCodes \cup {"none"} /\ (err # "ok" => le # "none") /\ (err = "ok" => le = retry.lastErr)
    BY <2>1 DEF RetryInv
  <2>6. retry.attempts \in 0 .. MaxRetries + 1 /\ (retry.lastErr = "none" => retry.attempts = 0)
    BY <2>3 DEF RetryInv
  <2>7. retry.attempts + 1 \in 0 .. MaxRetries + 1
    BY <1>0, <2>3, <2>6
  <2> HIDE DEF le
  <2>8. QED
    BY <1>0, <2>1, <2>3, <2>4, <2>5, <2>6, <2>7 DEF RetryInv, RetryVerdict
<1>4. CASE Return
  <2>1. /\ "ok" \notin ErrorCodes /\ "none" \notin ErrorCodes /\ "pending" \notin ErrorCodes
        /\ "context.Canceled" \in ErrorCodes
    BY DEF ErrorCodes, PermanentCodes, TransientCodes
  <2>2. PICK e \in {retry.last} \cup (IF IsRetryable(retry.last) /\ retry.last # "ok"
                                      THEN {"context.Canceled"} ELSE {}) :
          retry' = [retry EXCEPT !.returned = IF e = "ok" /\ retry.helper = "RetryWithResult"
                                                 /\ retry.lastErr # "none"
                                              THEN retry.lastErr ELSE e]
    BY <1>4 DEF Return
  <2>3. e = retry.last \/ (e = "context.Canceled" /\ retry.last # "ok")
    BY <2>2
  <2>4. retry.attempts > 0
    BY <1>4 DEF Return
  <2>5. QED
    BY <1>0, <2>1, <2>2, <2>3, <2>4 DEF RetryInv, RetryVerdict
<1>5. CASE RetryAgain
  BY <1>0, <1>5 DEF RetryAgain, RetryInv, RetryVerdict, Untried
<1>6. QED
  BY <1>1, <1>2, <1>3, <1>4, <1>5 DEF ResilienceNext, RetryNext, CircuitNext, resilienceVars,
     Create, Admit, Finish, Lookup, RemoveBreaker, IntervalEnds

LEMMA RetryInvariant == ResilienceSpec => []RetryInv
<1>1. ResilienceInit => RetryInv
  BY ResilienceAssumption DEF ResilienceInit, RetryInv, RetryVerdict, Untried
<1>2. RetryInv /\ [ResilienceNext]_resilienceVars => RetryInv'
  BY RetryStep
<1>3. QED
  BY <1>1, <1>2, PTL DEF ResilienceSpec

(* What Retry, RetryNotify and RetryWithResult return agrees with the      *)
(* attempts they made, of which there are at most MaxRetries + 1.          *)
THEOREM RetryVerdictsHold == ResilienceSpec => []RetryVerdict
<1>1. RetryInv => RetryVerdict
  BY DEF RetryInv
<1>2. QED
  BY <1>1, RetryInvariant, PTL

-----------------------------------------------------------------------------
(***************************************************************************)
(* The Windows services, for any bounds.  Reported stopped and being down  *)
(* are the same, and what runs is always among what the clean-up of that   *)
(* service shuts down, so that an empty clean-up list means that nothing   *)
(* runs.                                                                   *)
(***************************************************************************)
PartNames == {"client", "grpc", "http", "heartbeat", "mdns"}
PartsOf(s) == IF s = "coord" THEN {"mdns", "http", "grpc"}
              ELSE {"heartbeat", "http", "grpc", "client"}

ServiceKnown(s) ==
  /\ status[s] = "stopped" <=> spc[s] = "down"
  /\ parts[s] \subseteq PartsOf(s)
  /\ spc[s] \in {"down", "crashed", "client"} => parts[s] = {}
  /\ spc[s] = "handshake" => parts[s] \subseteq {"client"}
  /\ spc[s] = "launch" => parts[s] \subseteq {"client"}
  /\ spc[s] \in {"down", "crashed", "client", "handshake", "launch"} => serverErrs[s] = <<>>
  /\ spc[s] \in {"client", "handshake"} => s = "worker"
  /\ spc[s] \in {"announce", "loop"} => {"grpc", "http"} \subseteq parts[s] \cup Range(serverErrs[s])

ServiceInv == ServiceTypeOK /\ \A s \in Services : ServiceKnown(s)

(* A failed server moves from the parts that run to the errors waiting. *)
LEMMA ErrorAppended ==
  ASSUME NEW errs \in Seq({"grpc", "http"}), NEW part \in {"grpc", "http"}, Len(errs) < 2
  PROVE  /\ Append(errs, part) \in Seq({"grpc", "http"}) /\ Len(Append(errs, part)) <= 2
         /\ Range(Append(errs, part)) = Range(errs) \cup {part}
         /\ Append(errs, part) # <<>>
<1>1. Len(Append(errs, part)) = Len(errs) + 1 /\ Len(errs) \in Nat
  OBVIOUS
<1>2. QED
  BY <1>1, AppendRange

LEMMA NoErrors == <<>> \in Seq({"grpc", "http"}) /\ Len(<<>>) = 0 /\ Range(<<>>) = {}
BY DEF Range

LEMMA ErrorsCleared ==
  ASSUME ServiceInv, NEW s \in Services, serverErrs' = [serverErrs EXCEPT ![s] = <<>>]
  PROVE  /\ serverErrs' \in [Services -> Seq({"grpc", "http"})]
         /\ \A u \in Services : Len(serverErrs'[u]) <= 2
<1> DEFINE E == Seq({"grpc", "http"})
<1>1. <<>> \in E /\ serverErrs \in [Services -> E] /\ \A u \in Services : Len(serverErrs[u]) <= 2
  BY NoErrors DEF ServiceInv, ServiceTypeOK
<1> HIDE DEF E
<1>2. serverErrs' \in [Services -> E] /\ \A u \in Services : serverErrs'[u] = <<>> \/ Len(serverErrs'[u]) <= 2
  BY <1>1
<1>3. QED
  BY <1>2, NoErrors DEF E

LEMMA CounterTypes ==
  ASSUME ServiceInv, NEW s \in Services,
         errno' = errno \/ errno' = [errno EXCEPT ![s] = 0] \/ errno' = [errno EXCEPT ![s] = 1],
         lives' = lives \/ lives' = [lives EXCEPT ![s] = @ + 1],
         controls' = controls \/ controls' = [controls EXCEPT ![s] = @ + 1]
  PROVE  errno' \in [Services -> 0..1] /\ lives' \in [Services -> Nat] /\ controls' \in [Services -> Nat]
<1>1. errno \in [Services -> 0..1] /\ lives \in [Services -> Nat] /\ controls \in [Services -> Nat]
  BY DEF ServiceInv, ServiceTypeOK
<1>2. QED
  BY <1>1

(* The clean-up takes away one of the parts, or finds none. *)
LEMMA CleanupFacts ==
  ASSUME NEW s \in Services, parts[s] \subseteq PartsOf(s)
  PROVE  LET left == {i \in DOMAIN CleanupOrder(s) : CleanupOrder(s)[i] \in parts[s]}
         IN left = {} => parts[s] = {}
<1>1. CASE s = "coord"
  <2>1. /\ CleanupOrder(s) = <<"mdns", "http", "grpc">> /\ PartsOf(s) = {"mdns", "http", "grpc"}
    BY <1>1 DEF CleanupOrder, PartsOf
  <2>2. QED
    BY <2>1
<1>2. CASE s # "coord"
  <2>1. /\ CleanupOrder(s) = <<"heartbeat", "http", "grpc", "client">>
        /\ PartsOf(s) = {"heartbeat", "http", "grpc", "client"}
    BY <1>2 DEF CleanupOrder, PartsOf
  <2>2. QED
    BY <2>1
<1>3. QED
  BY <1>1, <1>2

(* The installation is no business of a running service. *)
LEMMA InstallInv ==
  ASSUME ServiceInv, NEW s \in Services, NEW r \in BOOLEAN, InstallService(s, r) \/ UninstallService(s)
  PROVE  ServiceInv'
<1>1. ServiceTypeOK'
  <2>1. installed' \in [Services -> BOOLEAN] /\ recovery' \in [Services -> BOOLEAN]
    <3>1. installed \in [Services -> BOOLEAN] /\ recovery \in [Services -> BOOLEAN]
      BY DEF ServiceInv, ServiceTypeOK
    <3>2. CASE InstallService(s, r)
      BY <3>1, <3>2, Zenon DEF InstallService
    <3>3. CASE UninstallService(s)
      BY <3>1, <3>3, Zenon DEF UninstallService
    <3>4. QED
      BY <3>2, <3>3
  <2>2. UNCHANGED <<spc, status, parts, serverErrs, control, stopAsked, errno, lives, controls>>
    BY DEF InstallService, UninstallService
  <2>3. QED
    BY <2>1, <2>2 DEF ServiceInv, ServiceTypeOK
<1>2. UNCHANGED <<spc, status, parts, serverErrs>>
  BY DEF InstallService, UninstallService
<1>3. QED
  BY <1>1, <1>2 DEF ServiceInv, ServiceKnown

LEMMA StartInv ==
  ASSUME ServiceInv, NEW s \in Services,
         \/ ServiceStarts(s) \/ ConnectCoordinator(s) \/ ConnectFails(s) \/ HandshakeAccepted(s)
         \/ HandshakeRefused(s)
  PROVE  ServiceInv'
<1>1. CASE ServiceStarts(s)
  <2>1. ServiceTypeOK'
    <3>1. errno' \in [Services -> 0..1] /\ lives' \in [Services -> Nat] /\ controls' \in [Services -> Nat]
      BY <1>1, CounterTypes DEF ServiceStarts, Reports
    <3>2. /\ stopAsked' \in [Services -> BOOLEAN] /\ installed' \in [Services -> BOOLEAN]
          /\ recovery' \in [Services -> BOOLEAN]
      BY <1>1 DEF ServiceInv, ServiceTypeOK, ServiceStarts, Reports
    <3>3. QED
      BY <1>1, <3>1, <3>2 DEF ServiceInv, ServiceTypeOK, ServiceStarts, Reports
  <2>2. UNCHANGED serverErrs /\ \A u \in Services \ {s} : /\ spc'[u] = spc[u] /\ status'[u] = status[u]
                                                          /\ parts'[u] = parts[u]
    BY <1>1 DEF ServiceInv, ServiceTypeOK, ServiceStarts, Reports
  <2>3. /\ spc[s] \in {"down", "crashed"} /\ status'[s] = "startpending" /\ parts'[s] = parts[s]
        /\ spc'[s] = IF s = "worker" THEN "client" ELSE "launch"
    BY <1>1 DEF ServiceInv, ServiceTypeOK, ServiceStarts, Reports
  <2>4. ServiceKnown(s)'
    BY <2>2, <2>3, ServiceAssumption, NoErrors DEF ServiceInv, ServiceKnown, PartsOf
  <2>5. \A u \in Services \ {s} : ServiceKnown(u)'
    BY <2>2 DEF ServiceInv, ServiceKnown
  <2>6. QED
    BY <2>1, <2>4, <2>5 DEF ServiceInv
<1>2. CASE ConnectCoordinator(s)
  <2>1. ServiceTypeOK'
    <3>1. errno' \in [Services -> 0..1] /\ lives' \in [Services -> Nat] /\ controls' \in [Services -> Nat]
      BY <1>2, CounterTypes DEF ConnectCoordinator, Moves
    <3>2. /\ stopAsked' \in [Services -> BOOLEAN] /\ installed' \in [Services -> BOOLEAN]
          /\ recovery' \in [Services -> BOOLEAN]
      BY <1>2 DEF ServiceInv, ServiceTypeOK, ConnectCoordinator, Moves
    <3>3. QED
      BY <1>2, <3>1, <3>2 DEF ServiceInv, ServiceTypeOK, ConnectCoordinator, Moves
  <2>2. UNCHANGED serverErrs /\ \A u \in Services \ {s} : /\ spc'[u] = spc[u] /\ status'[u] = status[u]
                                                          /\ parts'[u] = parts[u]
    BY <1>2 DEF ServiceInv, ServiceTypeOK, ConnectCoordinator, Moves
  <2>3. /\ spc[s] = "client" /\ spc'[s] = "handshake"
        /\ status'[s] = status[s] /\ parts'[s] = parts[s] \cup {"client"}
    BY <1>2 DEF ServiceInv, ServiceTypeOK, ConnectCoordinator, Moves
  <2>4. ServiceKnown(s)'
    BY <2>2, <2>3, ServiceAssumption, NoErrors DEF ServiceInv, ServiceKnown, PartsOf
  <2>5. \A u \in Services \ {s} : ServiceKnown(u)'
    BY <2>2 DEF ServiceInv, ServiceKnown
  <2>6. QED
    BY <2>1, <2>4, <2>5 DEF ServiceInv
<1>3. CASE ConnectFails(s)
  <2>1. ServiceTypeOK'
    <3>1. errno' \in [Services -> 0..1] /\ lives' \in [Services -> Nat] /\ controls' \in [Services -> Nat]
      BY <1>3, CounterTypes DEF ConnectFails, StartFails, Reports
    <3>2. /\ stopAsked' \in [Services -> BOOLEAN] /\ installed' \in [Services -> BOOLEAN]
          /\ recovery' \in [Services -> BOOLEAN]
      BY <1>3 DEF ServiceInv, ServiceTypeOK, ConnectFails, StartFails, Reports
    <3>3. QED
      BY <1>3, <3>1, <3>2 DEF ServiceInv, ServiceTypeOK, ConnectFails, StartFails, Reports
  <2>2. UNCHANGED serverErrs /\ \A u \in Services \ {s} : /\ spc'[u] = spc[u] /\ status'[u] = status[u]
                                                          /\ parts'[u] = parts[u]
    BY <1>3 DEF ServiceInv, ServiceTypeOK, ConnectFails, StartFails, Reports
  <2>3. /\ spc[s] = "client" /\ spc'[s] = "down"
        /\ status'[s] = "stopped" /\ parts'[s] = parts[s]
    BY <1>3 DEF ServiceInv, ServiceTypeOK, ConnectFails, StartFails, Reports
  <2>4. ServiceKnown(s)'
    BY <2>2, <2>3, ServiceAssumption, NoErrors DEF ServiceInv, ServiceKnown, PartsOf
  <2>5. \A u \in Services \ {s} : ServiceKnown(u)'
    BY <2>2 DEF ServiceInv, ServiceKnown
  <2>6. QED
    BY <2>1, <2>4, <2>5 DEF ServiceInv
<1>4. CASE HandshakeAccepted(s)
  <2>1. ServiceTypeOK'
    <3>1. errno' \in [Services -> 0..1] /\ lives' \in [Services -> Nat] /\ controls' \in [Services -> Nat]
      BY <1>4, CounterTypes DEF HandshakeAccepted, Moves
    <3>2. /\ stopAsked' \in [Services -> BOOLEAN] /\ installed' \in [Services -> BOOLEAN]
          /\ recovery' \in [Services -> BOOLEAN]
      BY <1>4 DEF ServiceInv, ServiceTypeOK, HandshakeAccepted, Moves
    <3>3. QED
      BY <1>4, <3>1, <3>2 DEF ServiceInv, ServiceTypeOK, HandshakeAccepted, Moves
  <2>2. UNCHANGED serverErrs /\ \A u \in Services \ {s} : /\ spc'[u] = spc[u] /\ status'[u] = status[u]
                                                          /\ parts'[u] = parts[u]
    BY <1>4 DEF ServiceInv, ServiceTypeOK, HandshakeAccepted, Moves
  <2>3. /\ spc[s] = "handshake" /\ spc'[s] = "launch"
        /\ status'[s] = status[s] /\ parts'[s] = parts[s]
    BY <1>4 DEF ServiceInv, ServiceTypeOK, HandshakeAccepted, Moves
  <2>4. ServiceKnown(s)'
    BY <2>2, <2>3, ServiceAssumption, NoErrors DEF ServiceInv, ServiceKnown, PartsOf
  <2>5. \A u \in Services \ {s} : ServiceKnown(u)'
    BY <2>2 DEF ServiceInv, ServiceKnown
  <2>6. QED
    BY <2>1, <2>4, <2>5 DEF ServiceInv
<1>5. CASE HandshakeRefused(s)
  <2>1. ServiceTypeOK'
    <3>1. errno' \in [Services -> 0..1] /\ lives' \in [Services -> Nat] /\ controls' \in [Services -> Nat]
      BY <1>5, CounterTypes DEF HandshakeRefused, StartFails, Reports
    <3>2. /\ stopAsked' \in [Services -> BOOLEAN] /\ installed' \in [Services -> BOOLEAN]
          /\ recovery' \in [Services -> BOOLEAN]
      BY <1>5 DEF ServiceInv, ServiceTypeOK, HandshakeRefused, StartFails, Reports
    <3>3. QED
      BY <1>5, <3>1, <3>2 DEF ServiceInv, ServiceTypeOK, HandshakeRefused, StartFails, Reports
  <2>2. UNCHANGED serverErrs /\ \A u \in Services \ {s} : /\ spc'[u] = spc[u] /\ status'[u] = status[u]
                                                          /\ parts'[u] = parts[u]
    BY <1>5 DEF ServiceInv, ServiceTypeOK, HandshakeRefused, StartFails, Reports
  <2>3. /\ spc[s] = "handshake" /\ spc'[s] = "down"
        /\ status'[s] = "stopped" /\ parts'[s] = parts[s] \ {"client"}
    BY <1>5 DEF ServiceInv, ServiceTypeOK, HandshakeRefused, StartFails, Reports
  <2>4. ServiceKnown(s)'
    BY <2>2, <2>3, ServiceAssumption, NoErrors DEF ServiceInv, ServiceKnown, PartsOf
  <2>5. \A u \in Services \ {s} : ServiceKnown(u)'
    BY <2>2 DEF ServiceInv, ServiceKnown
  <2>6. QED
    BY <2>1, <2>4, <2>5 DEF ServiceInv
<1>6. QED
  BY <1>1, <1>2, <1>3, <1>4, <1>5

LEMMA LaunchInv ==
  ASSUME ServiceInv, NEW s \in Services, NEW mdns \in BOOLEAN,
         LaunchCoordinator(s, mdns) \/ LaunchWorker(s) \/ ReportRunning(s)
  PROVE  ServiceInv'
<1>1. CASE LaunchCoordinator(s, mdns)
  <2>1. ServiceTypeOK'
    <3>1. errno' \in [Services -> 0..1] /\ lives' \in [Services -> Nat] /\ controls' \in [Services -> Nat]
      BY <1>1, CounterTypes DEF LaunchCoordinator, Moves
    <3>2. /\ stopAsked' \in [Services -> BOOLEAN] /\ installed' \in [Services -> BOOLEAN]
          /\ recovery' \in [Services -> BOOLEAN]
      BY <1>1 DEF ServiceInv, ServiceTypeOK, LaunchCoordinator, Moves
    <3>3. QED
      BY <1>1, <3>1, <3>2 DEF ServiceInv, ServiceTypeOK, LaunchCoordinator, Moves
  <2>2. UNCHANGED serverErrs /\ \A u \in Services \ {s} : /\ spc'[u] = spc[u] /\ status'[u] = status[u]
                                                          /\ parts'[u] = parts[u]
    BY <1>1 DEF ServiceInv, ServiceTypeOK, LaunchCoordinator, Moves
  <2>3. /\ spc[s] = "launch" /\ spc'[s] = "announce" /\ status'[s] = status[s] /\ s = "coord"
        /\ {"grpc", "http"} \subseteq parts'[s] /\ parts'[s] \subseteq {"grpc", "http", "mdns"}
    BY <1>1 DEF ServiceInv, ServiceTypeOK, LaunchCoordinator, Moves
  <2>4. ServiceKnown(s)'
    BY <2>2, <2>3, ServiceAssumption, NoErrors DEF ServiceInv, ServiceKnown, PartsOf
  <2>5. \A u \in Services \ {s} : ServiceKnown(u)'
    BY <2>2 DEF ServiceInv, ServiceKnown
  <2>6. QED
    BY <2>1, <2>4, <2>5 DEF ServiceInv
<1>2. CASE LaunchWorker(s)
  <2>1. ServiceTypeOK'
    <3>1. errno' \in [Services -> 0..1] /\ lives' \in [Services -> Nat] /\ controls' \in [Services -> Nat]
      BY <1>2, CounterTypes DEF LaunchWorker, Moves
    <3>2. /\ stopAsked' \in [Services -> BOOLEAN] /\ installed' \in [Services -> BOOLEAN]
          /\ recovery' \in [Services -> BOOLEAN]
      BY <1>2 DEF ServiceInv, ServiceTypeOK, LaunchWorker, Moves
    <3>3. QED
      BY <1>2, <3>1, <3>2 DEF ServiceInv, ServiceTypeOK, LaunchWorker, Moves
  <2>2. UNCHANGED serverErrs /\ \A u \in Services \ {s} : /\ spc'[u] = spc[u] /\ status'[u] = status[u]
                                                          /\ parts'[u] = parts[u]
    BY <1>2 DEF ServiceInv, ServiceTypeOK, LaunchWorker, Moves
  <2>3. /\ spc[s] = "launch" /\ spc'[s] = "announce" /\ status'[s] = status[s] /\ s = "worker"
        /\ parts'[s] = parts[s] \cup {"grpc", "http", "heartbeat"}
    BY <1>2 DEF ServiceInv, ServiceTypeOK, LaunchWorker, Moves
  <2>4. ServiceKnown(s)'
    BY <2>2, <2>3, ServiceAssumption, NoErrors DEF ServiceInv, ServiceKnown, PartsOf
  <2>5. \A u \in Services \ {s} : ServiceKnown(u)'
    BY <2>2 DEF ServiceInv, ServiceKnown
  <2>6. QED
    BY <2>1, <2>4, <2>5 DEF ServiceInv
<1>3. CASE ReportRunning(s)
  <2>1. ServiceTypeOK'
    <3>1. errno' \in [Services -> 0..1] /\ lives' \in [Services -> Nat] /\ controls' \in [Services -> Nat]
      BY <1>3, CounterTypes DEF ReportRunning, Moves, Reports
    <3>2. /\ stopAsked' \in [Services -> BOOLEAN] /\ installed' \in [Services -> BOOLEAN]
          /\ recovery' \in [Services -> BOOLEAN]
      BY <1>3 DEF ServiceInv, ServiceTypeOK, ReportRunning, Moves, Reports
    <3>3. QED
      BY <1>3, <3>1, <3>2 DEF ServiceInv, ServiceTypeOK, ReportRunning, Moves, Reports
  <2>2. UNCHANGED serverErrs /\ \A u \in Services \ {s} : /\ spc'[u] = spc[u] /\ status'[u] = status[u]
                                                          /\ parts'[u] = parts[u]
    BY <1>3 DEF ServiceInv, ServiceTypeOK, ReportRunning, Moves, Reports
  <2>3. /\ spc[s] = "announce" /\ spc'[s] = "loop"
        /\ status'[s] = "running" /\ parts'[s] = parts[s]
    BY <1>3 DEF ServiceInv, ServiceTypeOK, ReportRunning, Moves, Reports
  <2>4. ServiceKnown(s)'
    BY <2>2, <2>3, ServiceAssumption, NoErrors DEF ServiceInv, ServiceKnown, PartsOf
  <2>5. \A u \in Services \ {s} : ServiceKnown(u)'
    BY <2>2 DEF ServiceInv, ServiceKnown
  <2>6. QED
    BY <2>1, <2>4, <2>5 DEF ServiceInv
<1>4. QED
  BY <1>1, <1>2, <1>3

LEMMA LoopInv ==
  ASSUME ServiceInv, NEW s \in Services,
         AnswerControl(s) \/ LeaveLoop(s) \/ \E c \in {"interrogate", "stop", "other"} : SendControl(s, c)
  PROVE  ServiceInv'
<1>1. CASE AnswerControl(s)
  <2>1. ServiceTypeOK'
    <3>1. errno' \in [Services -> 0..1] /\ lives' \in [Services -> Nat] /\ controls' \in [Services -> Nat]
      BY <1>1, CounterTypes DEF AnswerControl
    <3>2. /\ stopAsked' \in [Services -> BOOLEAN] /\ installed' \in [Services -> BOOLEAN]
          /\ recovery' \in [Services -> BOOLEAN]
      BY <1>1 DEF ServiceInv, ServiceTypeOK, AnswerControl
    <3>3. QED
      BY <1>1, <3>1, <3>2 DEF ServiceInv, ServiceTypeOK, AnswerControl
  <2>2. UNCHANGED serverErrs /\ \A u \in Services \ {s} : /\ spc'[u] = spc[u] /\ status'[u] = status[u]
                                                          /\ parts'[u] = parts[u]
    BY <1>1 DEF ServiceInv, ServiceTypeOK, AnswerControl
  <2>3. /\ spc'[s] = spc[s] /\ status'[s] = status[s] /\ parts'[s] = parts[s]
    BY <1>1 DEF ServiceInv, ServiceTypeOK, AnswerControl
  <2>4. ServiceKnown(s)'
    BY <2>2, <2>3, ServiceAssumption, NoErrors DEF ServiceInv, ServiceKnown, PartsOf
  <2>5. \A u \in Services \ {s} : ServiceKnown(u)'
    BY <2>2 DEF ServiceInv, ServiceKnown
  <2>6. QED
    BY <2>1, <2>4, <2>5 DEF ServiceInv
<1>2. CASE LeaveLoop(s)
  <2>1. ServiceTypeOK'
    <3>1. errno' \in [Services -> 0..1] /\ lives' \in [Services -> Nat] /\ controls' \in [Services -> Nat]
      BY <1>2, CounterTypes DEF LeaveLoop, Moves, Reports
    <3>2. /\ stopAsked' \in [Services -> BOOLEAN] /\ installed' \in [Services -> BOOLEAN]
          /\ recovery' \in [Services -> BOOLEAN]
      BY <1>2 DEF ServiceInv, ServiceTypeOK, LeaveLoop, Moves, Reports
    <3>3. QED
      BY <1>2, <3>1, <3>2 DEF ServiceInv, ServiceTypeOK, LeaveLoop, Moves, Reports
  <2>2. UNCHANGED serverErrs /\ \A u \in Services \ {s} : /\ spc'[u] = spc[u] /\ status'[u] = status[u]
                                                          /\ parts'[u] = parts[u]
    BY <1>2 DEF ServiceInv, ServiceTypeOK, LeaveLoop, Moves, Reports
  <2>3. /\ spc[s] = "loop" /\ spc'[s] = "cleanup"
        /\ status'[s] = "stoppending" /\ parts'[s] = parts[s]
    BY <1>2 DEF ServiceInv, ServiceTypeOK, LeaveLoop, Moves, Reports
  <2>4. ServiceKnown(s)'
    BY <2>2, <2>3, ServiceAssumption, NoErrors DEF ServiceInv, ServiceKnown, PartsOf
  <2>5. \A u \in Services \ {s} : ServiceKnown(u)'
    BY <2>2 DEF ServiceInv, ServiceKnown
  <2>6. QED
    BY <2>1, <2>4, <2>5 DEF ServiceInv
<1>3. ASSUME NEW c \in {"interrogate", "stop", "other"}, SendControl(s, c) PROVE ServiceInv'
  <2>1. ServiceTypeOK'
    <3>1. errno' \in [Services -> 0..1] /\ lives' \in [Services -> Nat] /\ controls' \in [Services -> Nat]
      BY <1>3, CounterTypes DEF SendControl
    <3>2. /\ stopAsked' \in [Services -> BOOLEAN] /\ installed' \in [Services -> BOOLEAN]
          /\ recovery' \in [Services -> BOOLEAN]
      BY <1>3 DEF ServiceInv, ServiceTypeOK, SendControl
    <3>3. QED
      BY <1>3, <3>1, <3>2 DEF ServiceInv, ServiceTypeOK, SendControl
  <2>2. UNCHANGED serverErrs /\ \A u \in Services \ {s} : /\ spc'[u] = spc[u] /\ status'[u] = status[u]
                                                          /\ parts'[u] = parts[u]
    BY <1>3 DEF ServiceInv, ServiceTypeOK, SendControl
  <2>3. /\ spc'[s] = spc[s] /\ status'[s] = status[s] /\ parts'[s] = parts[s]
    BY <1>3 DEF ServiceInv, ServiceTypeOK, SendControl
  <2>4. ServiceKnown(s)'
    BY <2>2, <2>3, ServiceAssumption, NoErrors DEF ServiceInv, ServiceKnown, PartsOf
  <2>5. \A u \in Services \ {s} : ServiceKnown(u)'
    BY <2>2 DEF ServiceInv, ServiceKnown
  <2>6. QED
    BY <2>1, <2>4, <2>5 DEF ServiceInv
<1>4. QED
  BY <1>1, <1>2, <1>3

LEMMA ServerFailsInv ==
  ASSUME ServiceInv, NEW s \in Services, NEW part \in {"grpc", "http"}, ServerFails(s, part)
  PROVE  ServiceInv'
<1>1. /\ part \in parts[s] /\ parts' = [parts EXCEPT ![s] = @ \ {part}]
      /\ serverErrs[s] \in Seq({"grpc", "http"}) /\ Len(serverErrs[s]) < 2
      /\ serverErrs' = [serverErrs EXCEPT ![s] = Append(@, part)]
      /\ UNCHANGED <<installed, recovery, spc, status, control, stopAsked, errno, lives, controls>>
  BY DEF ServerFails, ServiceInv, ServiceTypeOK
<1> DEFINE r == Append(serverErrs[s], part)
<1>2. /\ r \in Seq({"grpc", "http"}) /\ Len(r) <= 2 /\ Range(r) = Range(serverErrs[s]) \cup {part}
  BY <1>1, ErrorAppended
<1>3. /\ serverErrs'[s] = r /\ parts'[s] = parts[s] \ {part}
      /\ \A u \in Services \ {s} : serverErrs'[u] = serverErrs[u] /\ parts'[u] = parts[u]
  BY <1>1 DEF ServiceInv, ServiceTypeOK
<1> HIDE DEF r
<1>4. ServiceTypeOK'
  <2>1. serverErrs' \in [Services -> Seq({"grpc", "http"})] /\ parts' \in [Services -> SUBSET PartNames]
    BY <1>1, <1>2, <1>3 DEF ServiceInv, ServiceTypeOK, PartNames
  <2>2. \A u \in Services : Len(serverErrs'[u]) <= 2
    BY <1>2, <1>3 DEF ServiceInv, ServiceTypeOK
  <2>3. QED
    BY <1>1, <2>1, <2>2 DEF ServiceInv, ServiceTypeOK, PartNames
<1>5. spc[s] \notin {"down", "crashed", "client", "handshake", "launch"}
  BY <1>1 DEF ServiceInv, ServiceKnown
<1>6. ServiceKnown(s)'
  BY <1>1, <1>2, <1>3, <1>5 DEF ServiceInv, ServiceKnown
<1>7. \A u \in Services \ {s} : ServiceKnown(u)'
  BY <1>1, <1>3 DEF ServiceInv, ServiceKnown
<1>8. QED
  BY <1>4, <1>6, <1>7 DEF ServiceInv

LEMMA CleanupInv ==
  ASSUME ServiceInv, NEW s \in Services, CleanupStep(s)
  PROVE  ServiceInv'
<1> DEFINE left == {i \in DOMAIN CleanupOrder(s) : CleanupOrder(s)[i] \in parts[s]}
<1>0. parts[s] \subseteq PartsOf(s) /\ spc[s] = "cleanup" /\ status[s] # "stopped"
  BY DEF ServiceInv, ServiceKnown, CleanupStep
<1>1. UNCHANGED <<installed, recovery, control, stopAsked, errno, lives, controls>>
  BY DEF CleanupStep
<1>2. left = {} => parts[s] = {}
  BY <1>0, CleanupFacts
<1>3. CASE left # {}
  <2>1. PICK x : parts' = [parts EXCEPT ![s] = @ \ {x}]
    BY <1>3 DEF CleanupStep
  <2>2. UNCHANGED <<spc, status, serverErrs>>
    BY <1>3 DEF CleanupStep
  <2>3. parts'[s] \subseteq parts[s] /\ \A u \in Services \ {s} : parts'[u] = parts[u]
    BY <2>1 DEF ServiceInv, ServiceTypeOK
  <2>4. ServiceTypeOK'
    BY <1>1, <2>1, <2>2 DEF ServiceInv, ServiceTypeOK
  <2>5. ServiceKnown(s)' /\ \A u \in Services \ {s} : ServiceKnown(u)'
    BY <1>0, <2>2, <2>3 DEF ServiceInv, ServiceKnown
  <2>6. QED
    BY <2>4, <2>5 DEF ServiceInv
<1>4. CASE left = {}
  <2>1. /\ spc' = [spc EXCEPT ![s] = "down"] /\ status' = [status EXCEPT ![s] = "stopped"]
        /\ serverErrs' = [serverErrs EXCEPT ![s] = <<>>] /\ UNCHANGED parts
    BY <1>4 DEF CleanupStep, Reports
  <2>2. ServiceTypeOK'
    <3>1. /\ serverErrs' \in [Services -> Seq({"grpc", "http"})]
          /\ \A u \in Services : Len(serverErrs'[u]) <= 2
      BY <2>1, ErrorsCleared
    <3>2. QED
      BY <1>1, <2>1, <3>1 DEF ServiceInv, ServiceTypeOK
  <2>3. ServiceKnown(s)' /\ \A u \in Services \ {s} : ServiceKnown(u)'
    <3>1. /\ spc'[s] = "down" /\ status'[s] = "stopped" /\ serverErrs'[s] = <<>>
          /\ \A u \in Services \ {s} : /\ spc'[u] = spc[u] /\ status'[u] = status[u]
                                      /\ serverErrs'[u] = serverErrs[u]
      BY <2>1 DEF ServiceInv, ServiceTypeOK
    <3>2. parts' = parts /\ parts[s] = {}
      BY <1>2, <1>4, <2>1
    <3>3. ServiceKnown(s)'
      BY <3>1, <3>2, Zenon DEF ServiceKnown
    <3>4. ASSUME NEW u \in Services \ {s} PROVE ServiceKnown(u)'
      BY <3>1, <3>2, Zenon DEF ServiceKnown, ServiceInv
    <3>5. QED
      BY <3>3, <3>4
  <2>4. QED
    BY <2>2, <2>3 DEF ServiceInv
<1>5. QED
  BY <1>3, <1>4

LEMMA DiesInv ==
  ASSUME ServiceInv, NEW s \in Services, ProcessDies(s)
  PROVE  ServiceInv'
<1>1. ServiceTypeOK'
  <2>1. /\ serverErrs' \in [Services -> Seq({"grpc", "http"})]
        /\ \A u \in Services : Len(serverErrs'[u]) <= 2
    BY ErrorsCleared DEF ProcessDies
  <2>2. QED
    BY <2>1 DEF ServiceInv, ServiceTypeOK, ProcessDies
<1>2. /\ spc[s] # "down" /\ spc'[s] = "crashed" /\ parts'[s] = {} /\ serverErrs'[s] = <<>>
      /\ status' = status
      /\ \A u \in Services \ {s} :
           spc'[u] = spc[u] /\ parts'[u] = parts[u] /\ serverErrs'[u] = serverErrs[u]
  BY DEF ServiceInv, ServiceTypeOK, ProcessDies
<1>3. \A u \in Services : ServiceKnown(u)'
  <2>1. ASSUME NEW u \in Services \ {s} PROVE ServiceKnown(u)'
    BY <1>2 DEF ServiceInv, ServiceKnown
  <2>2. ServiceKnown(s)'
    BY <1>2 DEF ServiceInv, ServiceKnown
  <2>3. QED
    BY <2>1, <2>2
<1>4. QED
  BY <1>1, <1>3 DEF ServiceInv

LEMMA ServiceInvStep ==
  ASSUME ServiceInv, [ServiceNext]_serviceVars PROVE ServiceInv'
<1>1. CASE UNCHANGED serviceVars
  BY <1>1 DEF serviceVars, ServiceInv, ServiceTypeOK, ServiceKnown
<1>2. ASSUME NEW s \in Services, ServiceStep(s) PROVE ServiceInv'
  BY <1>2, StartInv, LaunchInv, LoopInv, CleanupInv DEF ServiceStep
<1>3. ASSUME NEW s \in Services, ServiceActs(s) PROVE ServiceInv'
  BY <1>2, <1>3, InstallInv, StartInv, LoopInv, ServerFailsInv, DiesInv DEF ServiceActs
<1>4. QED
  BY <1>1, <1>3 DEF ServiceNext

LEMMA ServiceInitInv == ServiceInit => ServiceInv
<1> SUFFICES ASSUME ServiceInit PROVE ServiceInv
  OBVIOUS
<1>1. /\ serverErrs \in [Services -> Seq({"grpc", "http"})]
      /\ \A s \in Services : Len(serverErrs[s]) <= 2
  <2>1. serverErrs = [s \in Services |-> <<>>]
    BY DEF ServiceInit
  <2>2. QED
    BY <2>1, NoErrors
<1>2. errno \in [Services -> 0..1] /\ lives \in [Services -> Nat] /\ controls \in [Services -> Nat]
  <2>1. LET zero == [s \in Services |-> 0] IN errno = zero /\ lives = zero /\ controls = zero
    BY DEF ServiceInit
  <2>2. QED
    BY <2>1
<1>3. ServiceTypeOK
  BY <1>1, <1>2 DEF ServiceInit, ServiceTypeOK
<1>4. \A s \in Services : ServiceKnown(s)
  BY NoErrors DEF ServiceInit, ServiceKnown
<1>5. QED
  BY <1>3, <1>4 DEF ServiceInv

LEMMA ServiceInvariant == ServiceSpec => []ServiceInv
<1>1. ServiceInv /\ [ServiceNext]_serviceVars => ServiceInv'
  BY ServiceInvStep
<1>2. QED
  BY <1>1, ServiceInitInv, PTL DEF ServiceSpec

(* What Execute tells the Service Control Manager is true: a service that   *)
(* reports it has stopped runs nothing any more, whichever way it got there, *)
(* and one that reports it runs has its servers, or an error of theirs on   *)
(* the way to the loop.                                                     *)
THEOREM StatusIsTruthful == ServiceSpec => []StatusTruthful
<1>1. ServiceInv => StatusTruthful
  BY DEF ServiceInv, ServiceKnown, StatusTruthful
<1>2. QED
  BY <1>1, ServiceInvariant, PTL

-----------------------------------------------------------------------------
(***************************************************************************)
(* The search for a coordinator and the table of workers, for any network. *)
(* An address comes from the entries of one search, whose coordinators     *)
(* announced themselves during it, because only a search under way is      *)
(* given entries.                                                          *)
(***************************************************************************)
FinderKnown(f) ==
  /\ browsing[f] => fpc[f] = "search"
  /\ fpc[f] = "search" => {c \in Coords : announcing[c]} \subseteq everUp[f]
  /\ fpc[f] = "start" => entryCh[f] = <<>> /\ resultCh[f] = <<>>
  /\ Range(entryCh[f]) \subseteq everUp[f]
  /\ resultCh[f] # <<>> => \E c \in everUp[f] : resultCh[f] = <<AddressOf(c)>>
  /\ fpc[f] \in {"search", "fallback"} => ~Preset(f)
  /\ fpc[f] = "done" /\ found[f] \notin {NoAddress, Configured} =>
       ~Preset(f) /\ \E c \in everUp[f] : found[f] = AddressOf(c)

DiscoveryInv == DiscoveryTypeOK /\ CallbacksBalance /\ \A f \in Finders : FinderKnown(f)

LEMMA AddressType == ASSUME NEW c \in Coords PROVE AddressOf(c) \in Coords \X Nat
BY DiscoveryAssumption DEF AddressOf

(* A step that leaves the browser alone leaves the callbacks balanced. *)
LEMMA BrowserQuiet ==
  ASSUME DiscoveryInv, UNCHANGED browserVars PROVE CallbacksBalance'
BY DEF DiscoveryInv, browserVars, CallbacksBalance, Reported

LEMMA AnnounceInv ==
  ASSUME DiscoveryInv, NEW c \in Coords, Announce(c) \/ Withdraw(c)
  PROVE  DiscoveryInv'
<1>0. everUp' \in [Finders -> SUBSET Coords] /\ \A f \in Finders : everUp[f] \subseteq everUp'[f]
  <2>1. CASE Announce(c)
    <3>1. everUp' = [f \in Finders |-> IF fpc[f] = "search" THEN everUp[f] \cup {c} ELSE everUp[f]]
      BY <2>1 DEF Announce
    <3>2. everUp \in [Finders -> SUBSET Coords]
      BY DEF DiscoveryInv, DiscoveryTypeOK
    <3>3. QED
      BY <3>1, <3>2
  <2>2. CASE Withdraw(c)
    BY <2>2 DEF DiscoveryInv, DiscoveryTypeOK, Withdraw
  <2>3. QED
    BY <2>1, <2>2
<1>1. DiscoveryTypeOK'
  BY <1>0 DEF DiscoveryInv, DiscoveryTypeOK, Announce, Withdraw, browserVars
<1>2. ASSUME NEW f \in Finders PROVE FinderKnown(f)'
  <2>1. /\ UNCHANGED <<setting, fpc, browsing, entryCh, resultCh, found>>
        /\ everUp[f] \subseteq everUp'[f]
    BY <1>0 DEF Announce, Withdraw
  <2>2. fpc[f] = "search" => {d \in Coords : announcing'[d]} \subseteq everUp'[f]
    <3>1. CASE Announce(c)
      BY <3>1 DEF DiscoveryInv, DiscoveryTypeOK, FinderKnown, Announce
    <3>2. CASE Withdraw(c)
      BY <3>2 DEF DiscoveryInv, DiscoveryTypeOK, FinderKnown, Withdraw
    <3>3. QED
      BY <3>1, <3>2
  <2>3. QED
    BY <2>1, <2>2 DEF DiscoveryInv, FinderKnown, Preset
<1>3. QED
  BY <1>1, <1>2, BrowserQuiet DEF DiscoveryInv, Announce, Withdraw

(* Steps that touch one search only. *)
LEMMA FinderStep ==
  ASSUME DiscoveryInv, NEW f \in Finders, DiscoveryTypeOK', FinderKnown(f)',
         UNCHANGED <<announcing, setting, browserVars>>,
         \A g \in Finders \ {f} : /\ fpc'[g] = fpc[g] /\ browsing'[g] = browsing[g] /\ entryCh'[g] = entryCh[g]
                                  /\ resultCh'[g] = resultCh[g] /\ found'[g] = found[g] /\ everUp'[g] = everUp[g]
  PROVE  DiscoveryInv'
<1>1. ASSUME NEW g \in Finders \ {f} PROVE FinderKnown(g)'
  BY <1>1 DEF DiscoveryInv, FinderKnown, Preset
<1>2. QED
  BY <1>1, BrowserQuiet DEF DiscoveryInv

LEMMA UsePresetInv ==
  ASSUME DiscoveryInv, NEW f \in Finders, UsePreset(f)
  PROVE  DiscoveryInv'
<1>1. DiscoveryTypeOK'
  BY DEF DiscoveryInv, DiscoveryTypeOK, browserVars, UsePreset, EndsWith
<1>2. FinderKnown(f)'
  <2>1. /\ fpc'[f] = "done" /\ ~browsing'[f] /\ found'[f] \in {NoAddress, Configured}
        /\ UNCHANGED <<announcing, setting, entryCh, resultCh, everUp>>
    BY DEF DiscoveryInv, DiscoveryTypeOK, UsePreset, EndsWith
  <2>2. QED
    BY <2>1 DEF DiscoveryInv, FinderKnown
<1>3. \A g \in Finders \ {f} : /\ fpc'[g] = fpc[g] /\ browsing'[g] = browsing[g] /\ entryCh'[g] = entryCh[g]
                               /\ resultCh'[g] = resultCh[g] /\ found'[g] = found[g] /\ everUp'[g] = everUp[g]
  BY DEF DiscoveryInv, DiscoveryTypeOK, UsePreset, EndsWith
<1>4. QED
  BY <1>1, <1>2, <1>3, FinderStep DEF UsePreset, EndsWith

LEMMA FallbackInv ==
  ASSUME DiscoveryInv, NEW f \in Finders, Fallback(f)
  PROVE  DiscoveryInv'
<1>1. DiscoveryTypeOK'
  BY DEF DiscoveryInv, DiscoveryTypeOK, browserVars, Fallback, EndsWith
<1>2. FinderKnown(f)'
  <2>1. /\ fpc'[f] = "done" /\ ~browsing'[f] /\ found'[f] \in {NoAddress, Configured}
        /\ UNCHANGED <<announcing, setting, entryCh, resultCh, everUp>>
    BY DEF DiscoveryInv, DiscoveryTypeOK, Fallback, EndsWith
  <2>2. QED
    BY <2>1 DEF DiscoveryInv, FinderKnown
<1>3. \A g \in Finders \ {f} : /\ fpc'[g] = fpc[g] /\ browsing'[g] = browsing[g] /\ entryCh'[g] = entryCh[g]
                               /\ resultCh'[g] = resultCh[g] /\ found'[g] = found[g] /\ everUp'[g] = everUp[g]
  BY DEF DiscoveryInv, DiscoveryTypeOK, Fallback, EndsWith
<1>4. QED
  BY <1>1, <1>2, <1>3, FinderStep DEF Fallback, EndsWith

LEMMA NoResolverInv ==
  ASSUME DiscoveryInv, NEW f \in Finders, NoResolver(f)
  PROVE  DiscoveryInv'
<1>1. DiscoveryTypeOK'
  BY DEF DiscoveryInv, DiscoveryTypeOK, browserVars, NoResolver
<1>2. FinderKnown(f)'
  BY DEF DiscoveryInv, DiscoveryTypeOK, FinderKnown, Preset, NoResolver
<1>3. \A g \in Finders \ {f} : /\ fpc'[g] = fpc[g] /\ browsing'[g] = browsing[g] /\ entryCh'[g] = entryCh[g]
                               /\ resultCh'[g] = resultCh[g] /\ found'[g] = found[g] /\ everUp'[g] = everUp[g]
  BY DEF DiscoveryInv, DiscoveryTypeOK, NoResolver
<1>4. QED
  BY <1>1, <1>2, <1>3, FinderStep DEF NoResolver

LEMMA GiveUpInv ==
  ASSUME DiscoveryInv, NEW f \in Finders, GiveUp(f)
  PROVE  DiscoveryInv'
<1>1. DiscoveryTypeOK'
  BY DEF DiscoveryInv, DiscoveryTypeOK, browserVars, GiveUp
<1>2. FinderKnown(f)'
  BY DEF DiscoveryInv, DiscoveryTypeOK, FinderKnown, Preset, GiveUp
<1>3. \A g \in Finders \ {f} : /\ fpc'[g] = fpc[g] /\ browsing'[g] = browsing[g] /\ entryCh'[g] = entryCh[g]
                               /\ resultCh'[g] = resultCh[g] /\ found'[g] = found[g] /\ everUp'[g] = everUp[g]
  BY DEF DiscoveryInv, DiscoveryTypeOK, GiveUp
<1>4. QED
  BY <1>1, <1>2, <1>3, FinderStep DEF GiveUp

LEMMA SearchDeadlineInv ==
  ASSUME DiscoveryInv, NEW f \in Finders, SearchDeadline(f)
  PROVE  DiscoveryInv'
<1>1. DiscoveryTypeOK'
  BY DEF DiscoveryInv, DiscoveryTypeOK, browserVars, SearchDeadline
<1>2. FinderKnown(f)'
  BY DEF DiscoveryInv, DiscoveryTypeOK, FinderKnown, Preset, SearchDeadline
<1>3. \A g \in Finders \ {f} : /\ fpc'[g] = fpc[g] /\ browsing'[g] = browsing[g] /\ entryCh'[g] = entryCh[g]
                               /\ resultCh'[g] = resultCh[g] /\ found'[g] = found[g] /\ everUp'[g] = everUp[g]
  BY DEF DiscoveryInv, DiscoveryTypeOK, SearchDeadline
<1>4. QED
  BY <1>1, <1>2, <1>3, FinderStep DEF SearchDeadline

LEMMA StartSearchInv ==
  ASSUME DiscoveryInv, NEW f \in Finders, NEW ok \in BOOLEAN, StartSearch(f, ok)
  PROVE  DiscoveryInv'
<1>1. DiscoveryTypeOK'
  BY DEF DiscoveryInv, DiscoveryTypeOK, browserVars, StartSearch
<1>2. FinderKnown(f)'
  <2>1. /\ fpc[f] = "start" /\ fpc'[f] = "search" /\ ~Preset(f)
        /\ everUp'[f] = {c \in Coords : announcing[c]} /\ UNCHANGED <<announcing, setting, entryCh, resultCh>>
    BY DEF DiscoveryInv, DiscoveryTypeOK, StartSearch
  <2>2. Range(<<>>) = {}
    BY DEF Range
  <2>3. QED
    BY <2>1, <2>2 DEF DiscoveryInv, FinderKnown, Preset
<1>3. \A g \in Finders \ {f} : /\ fpc'[g] = fpc[g] /\ browsing'[g] = browsing[g] /\ entryCh'[g] = entryCh[g]
                               /\ resultCh'[g] = resultCh[g] /\ found'[g] = found[g] /\ everUp'[g] = everUp[g]
  BY DEF DiscoveryInv, DiscoveryTypeOK, StartSearch
<1>4. QED
  BY <1>1, <1>2, <1>3, FinderStep DEF StartSearch

LEMMA DeliverInv ==
  ASSUME DiscoveryInv, NEW f \in Finders, NEW c \in Coords, Deliver(f, c)
  PROVE  DiscoveryInv'
<1>0. /\ entryCh' \in [Finders -> Seq(Coords)] /\ \A g \in Finders : Len(entryCh'[g]) <= EntryCap
      /\ Range(entryCh'[f]) = Range(entryCh[f]) \cup {c}
  <2> DEFINE r == Append(entryCh[f], c)
  <2>1. /\ entryCh \in [Finders -> Seq(Coords)] /\ \A g \in Finders : Len(entryCh[g]) <= EntryCap
        /\ Len(entryCh[f]) < EntryCap /\ entryCh' = [entryCh EXCEPT ![f] = r]
    BY DEF DiscoveryInv, DiscoveryTypeOK, Deliver
  <2>2. r \in Seq(Coords) /\ Range(r) = Range(entryCh[f]) \cup {c}
    BY <2>1, AppendRange
  <2>3. Len(r) <= EntryCap
    BY <2>1 DEF EntryCap
  <2> HIDE DEF r
  <2>4. QED
    BY <2>1, <2>2, <2>3
<1>1. DiscoveryTypeOK'
  BY <1>0 DEF DiscoveryInv, DiscoveryTypeOK, browserVars, Deliver
<1>2. FinderKnown(f)'
  <2>1. /\ fpc[f] = "search" /\ announcing[c] /\ c \in everUp[f]
        /\ UNCHANGED <<announcing, setting, fpc, browsing, resultCh, found, everUp>>
    BY DEF DiscoveryInv, FinderKnown, Deliver
  <2>2. QED
    BY <1>0, <2>1 DEF DiscoveryInv, FinderKnown, Preset
<1>3. \A g \in Finders \ {f} : /\ fpc'[g] = fpc[g] /\ browsing'[g] = browsing[g] /\ entryCh'[g] = entryCh[g]
                               /\ resultCh'[g] = resultCh[g] /\ found'[g] = found[g] /\ everUp'[g] = everUp[g]
  BY DEF DiscoveryInv, DiscoveryTypeOK, Deliver
<1>4. QED
  BY <1>1, <1>2, <1>3, FinderStep DEF Deliver

LEMMA ReadEntryInv ==
  ASSUME DiscoveryInv, NEW f \in Finders, ReadEntry(f)
  PROVE  DiscoveryInv'
<1>0. /\ resultCh' \in [Finders -> Seq(Coords \X Nat)] /\ \A g \in Finders : Len(resultCh'[g]) <= 1
      /\ \E c \in everUp[f] : resultCh'[f] = <<AddressOf(c)>>
  <2> DEFINE c == Head(entryCh[f])
             a == AddressOf(c)
  <2>1. /\ resultCh \in [Finders -> Seq(Coords \X Nat)] /\ \A g \in Finders : Len(resultCh[g]) <= 1
        /\ entryCh[f] \in Seq(Coords) /\ entryCh[f] # <<>> /\ resultCh' = [resultCh EXCEPT ![f] = <<a>>]
    BY DEF DiscoveryInv, DiscoveryTypeOK, ReadEntry
  <2>2. c \in Coords /\ c \in Range(entryCh[f])
    BY <2>1, TailRange
  <2>3. c \in everUp[f]
    BY <2>2 DEF DiscoveryInv, FinderKnown
  <2>4. a \in Coords \X Nat
    BY <2>2, AddressType
  <2> HIDE DEF a, c
  <2>5. <<a>> \in Seq(Coords \X Nat) /\ Len(<<a>>) = 1
    BY <2>4
  <2>6. resultCh'[f] = <<a>> /\ resultCh' \in [Finders -> Seq(Coords \X Nat)]
    BY <2>1, <2>5
  <2>7. \A g \in Finders : Len(resultCh'[g]) <= 1
    BY <2>1, <2>5
  <2>8. QED
    BY <2>3, <2>6, <2>7 DEF a
<1>1. DiscoveryTypeOK'
  BY <1>0 DEF DiscoveryInv, DiscoveryTypeOK, browserVars, ReadEntry
<1>2. FinderKnown(f)'
  <2>1. /\ UNCHANGED <<announcing, setting, fpc, browsing, entryCh, found, everUp>> /\ fpc[f] = "search"
    BY DEF ReadEntry
  <2>2. QED
    BY <1>0, <2>1 DEF DiscoveryInv, FinderKnown, Preset
<1>3. \A g \in Finders \ {f} : /\ fpc'[g] = fpc[g] /\ browsing'[g] = browsing[g] /\ entryCh'[g] = entryCh[g]
                               /\ resultCh'[g] = resultCh[g] /\ found'[g] = found[g] /\ everUp'[g] = everUp[g]
  BY DEF DiscoveryInv, DiscoveryTypeOK, ReadEntry
<1>4. QED
  BY <1>1, <1>2, <1>3, FinderStep DEF ReadEntry

LEMMA TakeResultInv ==
  ASSUME DiscoveryInv, NEW f \in Finders, TakeResult(f)
  PROVE  DiscoveryInv'
<1>0. /\ fpc[f] = "search" /\ fpc'[f] = "done" /\ ~browsing'[f]
      /\ \E c \in everUp[f] : found'[f] = AddressOf(c)
      /\ found' \in [Finders -> {NoAddress, Configured} \cup (Coords \X Nat)]
  <2>1. PICK c \in everUp[f] : resultCh[f] = <<AddressOf(c)>>
    BY DEF DiscoveryInv, FinderKnown, TakeResult
  <2>2. c \in Coords
    BY DEF DiscoveryInv, DiscoveryTypeOK
  <2>3. Head(resultCh[f]) = AddressOf(c) /\ AddressOf(c) \in Coords \X Nat
    BY <2>1, <2>2, AddressType
  <2>4. /\ found' = [found EXCEPT ![f] = AddressOf(c)] /\ fpc[f] = "search" /\ fpc' = [fpc EXCEPT ![f] = "done"]
        /\ browsing' = [browsing EXCEPT ![f] = FALSE]
    BY <2>3, Zenon DEF TakeResult, EndsWith
  <2>5. QED
    BY <2>3, <2>4 DEF DiscoveryInv, DiscoveryTypeOK
<1>1. DiscoveryTypeOK'
  BY <1>0 DEF DiscoveryInv, DiscoveryTypeOK, browserVars, TakeResult, EndsWith
<1>2. FinderKnown(f)'
  BY <1>0 DEF DiscoveryInv, FinderKnown, Preset, TakeResult
<1>3. \A g \in Finders \ {f} : /\ fpc'[g] = fpc[g] /\ browsing'[g] = browsing[g] /\ entryCh'[g] = entryCh[g]
                               /\ resultCh'[g] = resultCh[g] /\ found'[g] = found[g] /\ everUp'[g] = everUp[g]
  BY DEF DiscoveryInv, DiscoveryTypeOK, TakeResult, EndsWith
<1>4. QED
  BY <1>1, <1>2, <1>3, FinderStep DEF TakeResult, EndsWith

(* The two counts of a worker, and what a callback does to them. *)
LEMMA CallbackCounts ==
  ASSUME DiscoveryInv, NEW w \in Heard
  PROVE  /\ Reported(w, "found") \in Nat /\ Reported(w, "lost") \in Nat
         /\ callbacks'[w] = callbacks[w] =>
              Reported(w, "found")' = Reported(w, "found") /\ Reported(w, "lost")' = Reported(w, "lost")
         /\ callbacks'[w] = Append(callbacks[w], "found") =>
              Reported(w, "found")' = Reported(w, "found") + 1 /\ Reported(w, "lost")' = Reported(w, "lost")
         /\ callbacks'[w] = Append(callbacks[w], "lost") =>
              Reported(w, "found")' = Reported(w, "found") /\ Reported(w, "lost")' = Reported(w, "lost") + 1
<1> DEFINE S == {"found", "lost"}
           s == callbacks[w]
<1>1. s \in Seq(S) /\ "found" \in S /\ "lost" \in S /\ "found" # "lost"
  BY DEF DiscoveryInv, DiscoveryTypeOK
<1>2. \A e : /\ Reported(w, e) = Cardinality(Positions(s, e))
             /\ Reported(w, e)' = Cardinality(Positions(callbacks'[w], e))
  BY DEF Reported, Positions
<1> HIDE DEF S, s
<1>3. /\ Cardinality(Positions(s, "found")) \in Nat /\ Cardinality(Positions(s, "lost")) \in Nat
      /\ Cardinality(Positions(Append(s, "found"), "found")) = Cardinality(Positions(s, "found")) + 1
      /\ Cardinality(Positions(Append(s, "found"), "lost")) = Cardinality(Positions(s, "lost"))
      /\ Cardinality(Positions(Append(s, "lost"), "found")) = Cardinality(Positions(s, "found"))
      /\ Cardinality(Positions(Append(s, "lost"), "lost")) = Cardinality(Positions(s, "lost")) + 1
  BY <1>1, CountAppend
<1>4. QED
  BY <1>2, <1>3, Zenon DEF s

(* Balanced(w) is CallbacksBalance for one worker. *)
Balanced(w) ==
  Reported(w, "found") + (IF telling = w THEN 1 ELSE 0) - Reported(w, "lost") = IF w \in known THEN 1 ELSE 0

LEMMA BalanceEach == CallbacksBalance <=> \A w \in Heard : Balanced(w)
BY DEF CallbacksBalance, Balanced

LEMMA BalanceEachNext == CallbacksBalance' <=> \A w \in Heard : Balanced(w)'
BY DEF CallbacksBalance, Balanced

(* Balanced(w), before and after a step, case by case. *)
LEMMA BalanceCases ==
  ASSUME NEW w
  PROVE  /\ telling = w /\ w \in known => (Balanced(w) <=> Reported(w, "found") + 1 - Reported(w, "lost") = 1)
         /\ telling = w /\ w \notin known => (Balanced(w) <=> Reported(w, "found") + 1 - Reported(w, "lost") = 0)
         /\ telling # w /\ w \in known => (Balanced(w) <=> Reported(w, "found") + 0 - Reported(w, "lost") = 1)
         /\ telling # w /\ w \notin known => (Balanced(w) <=> Reported(w, "found") + 0 - Reported(w, "lost") = 0)
         /\ telling' = w /\ w \in known' => (Balanced(w)' <=> Reported(w, "found")' + 1 - Reported(w, "lost")' = 1)
         /\ telling' = w /\ w \notin known' => (Balanced(w)' <=> Reported(w, "found")' + 1 - Reported(w, "lost")' = 0)
         /\ telling' # w /\ w \in known' => (Balanced(w)' <=> Reported(w, "found")' + 0 - Reported(w, "lost")' = 1)
         /\ telling' # w /\ w \notin known' => (Balanced(w)' <=> Reported(w, "found")' + 0 - Reported(w, "lost")' = 0)
BY Zenon DEF Balanced

LEMMA BrowserStep ==
  ASSUME DiscoveryInv, UNCHANGED finderVars, DiscoveryTypeOK', \A w \in Heard : Balanced(w)'
  PROVE  DiscoveryInv'
<1>1. \A f \in Finders : FinderKnown(f)'
  BY DEF DiscoveryInv, FinderKnown, Preset, finderVars
<1>2. QED
  BY <1>1, BalanceEachNext DEF DiscoveryInv

LEMMA BrowserSwitchInv ==
  ASSUME DiscoveryInv, BrowserStop \/ \E ok \in BOOLEAN : BrowserStart(ok)
  PROVE  DiscoveryInv'
<1>1. UNCHANGED <<known, telling, callbacks, finderVars>> /\ running' \in BOOLEAN /\ resolving' \in BOOLEAN
  BY DEF BrowserStart, BrowserStop
<1>2. DiscoveryTypeOK'
  BY <1>1 DEF DiscoveryInv, DiscoveryTypeOK, finderVars
<1>3. \A w \in Heard : Balanced(w)'
  BY <1>1, BalanceEach DEF DiscoveryInv, Balanced, Reported
<1>4. QED
  BY <1>1, <1>2, <1>3, BrowserStep

LEMMA HandleDiscoveryInv ==
  ASSUME DiscoveryInv, NEW v \in Heard, HandleDiscovery(v)
  PROVE  DiscoveryInv'
<1>1. /\ telling = "" /\ UNCHANGED <<running, resolving, callbacks, finderVars>>
      /\ known' = known \cup {v} /\ telling' = IF v \in known THEN "" ELSE v
  BY DEF HandleDiscovery
<1>2. DiscoveryTypeOK'
  BY <1>1 DEF DiscoveryInv, DiscoveryTypeOK, finderVars
<1>3. ASSUME NEW w \in Heard PROVE Balanced(w)'
  <2>1. /\ Reported(w, "found") \in Nat /\ Reported(w, "lost") \in Nat
        /\ Reported(w, "found")' = Reported(w, "found") /\ Reported(w, "lost")' = Reported(w, "lost")
    BY <1>1, CallbackCounts
  <2>2. Balanced(w) /\ w # ""
    BY BalanceEach, DiscoveryAssumption DEF DiscoveryInv
  <2>3. telling # w /\ (telling' = w <=> v = w /\ w \notin known) /\ (w \in known' <=> w \in known \/ v = w)
    BY <1>1, <2>2
  <2>4. CASE v = w /\ w \notin known
    <3>1. telling # w /\ w \notin known /\ telling' = w /\ w \in known'
      BY <2>3, <2>4
    <3>2. Reported(w, "found") + 0 - Reported(w, "lost") = 0
      BY <2>2, <3>1, BalanceCases, Zenon
    <3>3. Reported(w, "found")' + 1 - Reported(w, "lost")' = 1
      BY <2>1, <3>2
    <3>4. QED
      BY <3>1, <3>3, BalanceCases, Zenon
  <2>5. CASE ~(v = w /\ w \notin known)
    <3>1. telling # w /\ telling' # w /\ (w \in known <=> w \in known')
      BY <2>3, <2>5
    <3>2. QED
      BY <2>1, <2>2, <3>1, BalanceCases
  <2>6. QED
    BY <2>4, <2>5
<1>4. QED
  BY <1>1, <1>2, <1>3, BrowserStep

LEMMA TellFoundInv ==
  ASSUME DiscoveryInv, TellFound
  PROVE  DiscoveryInv'
<1>1. /\ telling # "" /\ UNCHANGED <<running, resolving, known, finderVars>> /\ telling' = ""
      /\ telling \in Heard /\ callbacks \in [Heard -> Seq({"found", "lost"})]
      /\ callbacks' = [callbacks EXCEPT ![telling] = Append(@, "found")]
  BY DEF TellFound, DiscoveryInv, DiscoveryTypeOK
<1>2. /\ callbacks' \in [Heard -> Seq({"found", "lost"})]
      /\ callbacks'[telling] = Append(callbacks[telling], "found")
      /\ \A w \in Heard \ {telling} : callbacks'[w] = callbacks[w]
  BY <1>1, AppendRange
<1>3. DiscoveryTypeOK'
  BY <1>1, <1>2 DEF DiscoveryInv, DiscoveryTypeOK, finderVars
<1>4. ASSUME NEW w \in Heard PROVE Balanced(w)'
  <2>1. Balanced(w) /\ w # ""
    BY BalanceEach, DiscoveryAssumption DEF DiscoveryInv
  <2>2. CASE w = telling
    <3>1. /\ Reported(w, "found") \in Nat /\ Reported(w, "lost") \in Nat
          /\ Reported(w, "found")' = Reported(w, "found") + 1 /\ Reported(w, "lost")' = Reported(w, "lost")
      BY <1>2, <2>2, CallbackCounts
    <3>2. telling' # w /\ known' = known
      BY <1>1, <2>1
    <3>3. CASE w \in known
      <4>1. Reported(w, "found") + 1 - Reported(w, "lost") = 1
        BY <2>1, <2>2, <3>3, BalanceCases, Zenon
      <4>2. Reported(w, "found")' + 0 - Reported(w, "lost")' = 1
        BY <3>1, <4>1
      <4>3. QED
        BY <3>2, <3>3, <4>2, BalanceCases, Zenon
    <3>4. CASE w \notin known
      <4>1. Reported(w, "found") + 1 - Reported(w, "lost") = 0
        BY <2>1, <2>2, <3>4, BalanceCases, Zenon
      <4>2. Reported(w, "found")' + 0 - Reported(w, "lost")' = 0
        BY <3>1, <4>1
      <4>3. QED
        BY <3>2, <3>4, <4>2, BalanceCases, Zenon
    <3>5. QED
      BY <3>3, <3>4
  <2>3. CASE w # telling
    <3>1. /\ Reported(w, "found") \in Nat /\ Reported(w, "lost") \in Nat
          /\ Reported(w, "found")' = Reported(w, "found") /\ Reported(w, "lost")' = Reported(w, "lost")
      BY <1>2, <2>3, CallbackCounts
    <3>2. QED
      BY <1>1, <2>1, <2>3, <3>1 DEF Balanced
  <2>4. QED
    BY <2>2, <2>3
<1>5. QED
  BY <1>1, <1>3, <1>4, BrowserStep

LEMMA BrowserCleanupInv ==
  ASSUME DiscoveryInv, NEW gone, BrowserCleanup(gone)
  PROVE  DiscoveryInv'
<1>1. /\ gone \subseteq known /\ known \subseteq Heard /\ known' = known \ gone
      /\ UNCHANGED <<running, resolving, telling, finderVars>>
      /\ callbacks \in [Heard -> Seq({"found", "lost"})]
      /\ callbacks' = [w \in Heard |-> IF w \in gone THEN Append(callbacks[w], "lost") ELSE callbacks[w]]
  BY DEF BrowserCleanup, DiscoveryInv, DiscoveryTypeOK
<1>2. /\ callbacks' \in [Heard -> Seq({"found", "lost"})]
      /\ \A w \in Heard : callbacks'[w] = IF w \in gone THEN Append(callbacks[w], "lost") ELSE callbacks[w]
  BY <1>1, AppendRange
<1>3. DiscoveryTypeOK'
  BY <1>1, <1>2 DEF DiscoveryInv, DiscoveryTypeOK, finderVars
<1>4. ASSUME NEW w \in Heard PROVE Balanced(w)'
  <2>1. Balanced(w)
    BY BalanceEach DEF DiscoveryInv
  <2>2. CASE w \in gone
    <3>1. /\ Reported(w, "found") \in Nat /\ Reported(w, "lost") \in Nat
          /\ Reported(w, "found")' = Reported(w, "found") /\ Reported(w, "lost")' = Reported(w, "lost") + 1
      BY <1>2, <2>2, CallbackCounts
    <3>2. QED
      BY <1>1, <2>1, <2>2, <3>1, SMTT(30) DEF Balanced
  <2>3. CASE w \notin gone
    <3>1. /\ Reported(w, "found") \in Nat /\ Reported(w, "lost") \in Nat
          /\ Reported(w, "found")' = Reported(w, "found") /\ Reported(w, "lost")' = Reported(w, "lost")
      BY <1>2, <2>3, CallbackCounts
    <3>2. QED
      BY <1>1, <2>1, <2>3, <3>1 DEF Balanced
  <2>4. QED
    BY <2>2, <2>3
<1>5. QED
  BY <1>1, <1>3, <1>4, BrowserStep

LEMMA DiscoveryInitInv == DiscoveryInit => DiscoveryInv
<1> SUFFICES ASSUME DiscoveryInit PROVE DiscoveryInv
  OBVIOUS
<1>1. \A S : <<>> \in Seq(S)
  OBVIOUS
<1>2. Len(<<>>) = 0 /\ Range(<<>>) = {}
  BY DEF Range
<1>3. DiscoveryTypeOK
  <2>1. /\ entryCh \in [Finders -> Seq(Coords)] /\ resultCh \in [Finders -> Seq(Coords \X Nat)]
        /\ callbacks \in [Heard -> Seq({"found", "lost"})]
    BY <1>1 DEF DiscoveryInit
  <2>2. \A f \in Finders : Len(entryCh[f]) <= EntryCap /\ Len(resultCh[f]) <= 1
    <3>1. \A f \in Finders : entryCh[f] = <<>> /\ resultCh[f] = <<>>
      BY DEF DiscoveryInit
    <3>2. 0 <= EntryCap /\ 0 <= 1
      BY DEF EntryCap
    <3>3. QED
      BY <1>2, <3>1, <3>2, Zenon
  <2>3. /\ found \in [Finders -> {NoAddress, Configured} \cup (Coords \X Nat)]
        /\ everUp \in [Finders -> SUBSET Coords]
    BY DEF DiscoveryInit
  <2>4. QED
    BY <2>1, <2>2, <2>3 DEF DiscoveryInit, DiscoveryTypeOK
<1>4. \A f \in Finders : FinderKnown(f)
  BY <1>2 DEF DiscoveryInit, FinderKnown
<1>5. ASSUME NEW w \in Heard PROVE Balanced(w)
  <2>1. Reported(w, "found") = Cardinality({}) /\ Reported(w, "lost") = Cardinality({})
    <3>1. callbacks[w] = <<>>
      BY DEF DiscoveryInit
    <3>2. QED
      BY <3>1 DEF Reported
  <2>2. Reported(w, "found") = 0 /\ Reported(w, "lost") = 0
    BY <2>1, FS_EmptySet
  <2>3. telling # w /\ known = {}
    BY DiscoveryAssumption DEF DiscoveryInit
  <2>4. QED
    BY <2>2, <2>3 DEF Balanced
<1>6. QED
  BY <1>3, <1>4, <1>5, BalanceEach DEF DiscoveryInv

LEMMA DiscoveryStepInv ==
  ASSUME DiscoveryInv, [DiscoveryNext]_discoveryVars PROVE DiscoveryInv'
<1>1. CASE UNCHANGED discoveryVars
  <2>1. UNCHANGED browserVars /\ UNCHANGED finderVars
    BY <1>1 DEF discoveryVars
  <2>2. DiscoveryTypeOK' /\ \A f \in Finders : FinderKnown(f)'
    BY <2>1 DEF DiscoveryInv, DiscoveryTypeOK, FinderKnown, Preset, finderVars, browserVars
  <2>3. QED
    BY <2>1, <2>2, BrowserQuiet DEF DiscoveryInv
<1>2. CASE FinderNext
  BY <1>2, AnnounceInv, UsePresetInv, FallbackInv, NoResolverInv, GiveUpInv, SearchDeadlineInv, StartSearchInv,
     DeliverInv, ReadEntryInv, TakeResultInv DEF FinderNext, SearchStep
<1>3. CASE BrowserNext
  BY <1>3, BrowserSwitchInv, HandleDiscoveryInv, TellFoundInv, BrowserCleanupInv DEF BrowserNext
<1>4. QED
  BY <1>1, <1>2, <1>3 DEF DiscoveryNext

LEMMA DiscoveryInvariant == DiscoverySpec => []DiscoveryInv
<1>1. DiscoveryInv /\ [DiscoveryNext]_discoveryVars => DiscoveryInv'
  BY DiscoveryStepInv
<1>2. QED
  BY <1>1, DiscoveryInitInv, PTL DEF DiscoverySpec

(* An address CoordBrowser.Discover hands out is the gRPC address of a      *)
(* coordinator that announced itself during this search, and only if nothing *)
(* was configured that comes first.                                         *)
THEOREM FoundIsAnnounced == DiscoverySpec => []FoundWasAnnounced
<1>1. DiscoveryInv => FoundWasAnnounced
  BY DEF DiscoveryInv, FinderKnown, FoundWasAnnounced, AddressOf
<1>2. QED
  BY <1>1, DiscoveryInvariant, PTL

(* Counting a callback that handleDiscovery is about to make, the browser   *)
(* reported found once more than lost exactly the workers in its table,     *)
(* over stops, restarts and clean-ups that overtake a callback.  The order  *)
(* of two callbacks of one worker is not claimed.                           *)
THEOREM CallbacksAreBalanced == DiscoverySpec => []CallbacksBalance
<1>1. DiscoveryInv => CallbacksBalance
  BY DEF DiscoveryInv
<1>2. QED
  BY <1>1, DiscoveryInvariant, PTL

-----------------------------------------------------------------------------
(***************************************************************************)
(* The components together, as the run on small instances puts them: each  *)
(* of them takes only its own steps, so what is proved of a component      *)
(* holds of the composition.                                               *)
(***************************************************************************)

(* The remaining type invariants of the components. *)
LEMMA ResilienceTypeCorrect == ResilienceSpec => []ResilienceTypeOK
<1>1. CircuitShape /\ RetryInv => ResilienceTypeOK
  BY DEF CircuitShape, Circuits, Calls, RetryInv, ResilienceTypeOK
<1>2. QED
  BY <1>1, CircuitShapes, RetryInvariant, PTL

LEMMA DiscoveryTypeCorrect == DiscoverySpec => []DiscoveryTypeOK
<1>1. DiscoveryInv => DiscoveryTypeOK
  BY DEF DiscoveryInv
<1>2. QED
  BY <1>1, DiscoveryInvariant, PTL

LEMMA ServiceTypeCorrect == ServiceSpec => []ServiceTypeOK
<1>1. ServiceInv => ServiceTypeOK
  BY DEF ServiceInv
<1>2. QED
  BY <1>1, ServiceInvariant, PTL

(* A behaviour of the composition is one of every component. *)
THEOREM ComponentsCompose ==
  Spec => /\ CacheSpec /\ HubSpec /\ LearnSpec /\ ResilienceSpec /\ ExecSpec /\ DiscoverySpec
          /\ ServiceSpec
<1>1. Init => /\ CacheInit /\ HubInit /\ LearnInit /\ ResilienceInit /\ ExecInit /\ DiscoveryInit
              /\ ServiceInit
  BY DEF Init
<1>2. ASSUME [Next]_vars
      PROVE  /\ [CacheNext]_cacheVars /\ [HubNext]_hubVars /\ [LearnNext]_learnVars
             /\ [ResilienceNext]_resilienceVars /\ [ExecNext]_execVars
             /\ [DiscoveryNext]_discoveryVars /\ [ServiceNext]_serviceVars
  <2>1. CASE UNCHANGED vars
    BY <2>1 DEF vars
  <2>2. CASE Cache
    BY <2>2 DEF Cache
  <2>3. CASE Hub
    BY <2>3 DEF Hub
  <2>4. CASE Learning
    BY <2>4 DEF Learning
  <2>5. CASE Resilient
    BY <2>5 DEF Resilient, ResilienceNext
  <2>6. CASE Executing
    BY <2>6 DEF Executing
  <2>7. CASE Discovering
    BY <2>7 DEF Discovering, DiscoveryNext
  <2>8. CASE Controlling
    BY <2>8 DEF Controlling, ServiceNext
  <2>9. QED
    BY <1>2, <2>1, <2>2, <2>3, <2>4, <2>5, <2>6, <2>7, <2>8 DEF Next
<1>3. QED
  BY <1>1, <1>2, PTL DEF Spec, CacheSpec, HubSpec, LearnSpec, ResilienceSpec, ExecSpec, DiscoverySpec,
     ServiceSpec

(* The state of every supporting component keeps its types, for any sizes   *)
(* and capacities: lists and channels stay within them, and counts within   *)
(* what was reported.                                                       *)
THEOREM TypesCorrect == Spec => []TypesOK
<1>1. (CacheTypeOK /\ HubTypeOK /\ LearnTypeOK /\ ResilienceTypeOK /\ ExecTypeOK /\ DiscoveryTypeOK
       /\ ServiceTypeOK) => TypesOK
  BY DEF TypesOK
<1>2. QED
  BY <1>1, ComponentsCompose, CacheTypeCorrect, HubTypeCorrect, LearnTypeCorrect, ResilienceTypeCorrect,
     ExecTypeCorrect, DiscoveryTypeCorrect, ServiceTypeCorrect, PTL

=============================================================================
