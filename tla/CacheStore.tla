----------------------------- MODULE CacheStore -----------------------------
(***************************************************************************)
(* The object cache on disk (internal/cache/store.go), shared by every     *)
(* hgbuild process of a user.  A process loads index.json once, works on   *)
(* its own copy of it and writes the whole copy back; object files are     *)
(* written in place (PutBytes) or through <key>.tmp and a rename (Put).    *)
(* Nothing locks the directory between processes.  A process serves one    *)
(* request: it looks an object up and stores it after a miss (build.go),   *)
(* or clears the cache (hgbuild cache clear).                              *)
(*                                                                         *)
(* A file's bytes are "whole" or "partial": equal keys have equal bytes.   *)
(* A removed or replaced file lives on for the processes that have it      *)
(* open, hence the inodes.                                                 *)
(***************************************************************************)
EXTENDS Integers, Sequences, SequencesExt, FiniteSets, FiniteSetsExt

CONSTANTS
  Procs,       \* slots for hgbuild processes that run at the same time
  Keys,        \* cache keys (all accepted by validateCacheKey)
  KeySize,     \* [Keys -> Nat], the size of the object stored under a key
  MaxSize,     \* Store.maxSize, in bytes
  MaxStarts    \* bound: how many hgbuild processes are ever started

ASSUME CacheAssumption ==
  /\ IsFiniteSet(Procs)
  /\ IsFiniteSet(Keys) /\ Keys # {}
  /\ KeySize \in [Keys -> Nat \ {0}]
  /\ MaxSize \in Nat
  /\ MaxStarts \in Nat

Inodes == 1..(2 * Cardinality(Keys) + Cardinality(Procs))

VARIABLES
  cpc,         \* where each process stands
  entries,     \* Store.entries of a process: keys, least recently used first
  totalSize,   \* Store.totalSize of a process
  arg,         \* the key the process is about
  missed,      \* the process is still to store the object
  fd,          \* the inode the call has open, 0 when none
  path,        \* [Keys -> inode of the object file, 0 when absent]
  tmp,         \* [Keys -> inode of <key>.tmp, 0 when absent]
  content,     \* [Inodes -> {"partial", "whole"}]
  index,       \* index.json
  \* History, for the properties only.
  starts,      \* processes started so far
  written,     \* keys of which some write was completed
  cut          \* keys of which some write ended early (crash, disk full)

cacheMem == <<entries, totalSize>>
cacheCall == <<arg, missed>>
cacheDisk == <<path, tmp, content, index>>
cacheHist == <<starts, written, cut>>
cacheVars == <<cpc, entries, totalSize, arg, missed, fd, path, tmp, content,
               index, starts, written, cut>>

SizeOf(keys) == SumFunctionOnSet(KeySize, keys)

Writing == {"bytes", "tmpbytes"}

CacheTypeOK ==
  /\ cpc \in [Procs -> {"down", "ready", "opened", "bytes", "tmpbytes",
                        "rename", "enter", "unlink", "wipe", "save", "index"}]
  /\ entries \in [Procs -> Seq(Keys)]
  /\ \A p \in Procs : IsInjective(entries[p])
  /\ totalSize \in [Procs -> Int]
  /\ arg \in [Procs -> Keys]
  /\ missed \in [Procs -> BOOLEAN]
  /\ fd \in [Procs -> Inodes \cup {0}]
  /\ path \in [Keys -> Inodes \cup {0}]
  /\ tmp \in [Keys -> Inodes \cup {0}]
  /\ content \in [Inodes -> {"partial", "whole"}]
  /\ index \in [state : {"absent", "empty", "torn", "whole"}, list : Seq(Keys)]
  /\ IsInjective(index.list)
  /\ starts \in 0..MaxStarts
  /\ written \subseteq Keys /\ cut \subseteq Keys

CacheInit ==
  /\ cpc = [p \in Procs |-> "down"]
  /\ entries = [p \in Procs |-> <<>>]
  /\ totalSize = [p \in Procs |-> 0]
  /\ arg = [p \in Procs |-> CHOOSE k \in Keys : TRUE]
  /\ missed = [p \in Procs |-> FALSE]
  /\ fd = [p \in Procs |-> 0]
  /\ path = [k \in Keys |-> 0]
  /\ tmp = [k \in Keys |-> 0]
  /\ content = [i \in Inodes |-> "partial"]
  /\ index = [state |-> "absent", list |-> <<>>]
  /\ starts = 0
  /\ written = {}
  /\ cut = {}

\* An inode no name and no process refers to.
FreshInode == Min(Inodes \ (Range(path) \cup Range(tmp) \cup Range(fd)))

\* The bytes of a file that no name and no process refers to are of no interest.
SetContent(bytes) ==
  content' = [i \in Inodes |->
                IF i \in Range(path') \cup Range(tmp') \cup Range(fd')
                THEN bytes[i] ELSE "partial"]

Goto(p, at) == cpc' = [cpc EXCEPT ![p] = at]
HasEntry(p, k) == k \in Range(entries[p])

\* The process is gone, and its memory with it.
Ends(p) ==
  /\ Goto(p, "down")
  /\ entries' = [entries EXCEPT ![p] = <<>>]
  /\ totalSize' = [totalSize EXCEPT ![p] = 0]
  /\ arg' = [arg EXCEPT ![p] = CHOOSE k \in Keys : TRUE]
  /\ missed' = [missed EXCEPT ![p] = FALSE]
  /\ fd' = [fd EXCEPT ![p] = 0]

(***************************************************************************)
(* NewStore and loadIndex.  A missing index is an empty cache and so is    *)
(* one that does not parse, for instance because another process has just  *)
(* truncated it.                                                           *)
(***************************************************************************)
NewStore(p, k) ==
  /\ cpc[p] = "down"
  /\ starts < MaxStarts
  /\ starts' = starts + 1
  /\ LET loaded == IF index.state = "whole" THEN index.list ELSE <<>>
     IN /\ entries' = [entries EXCEPT ![p] = loaded]
        /\ totalSize' = [totalSize EXCEPT ![p] = SizeOf(Range(loaded))]
  /\ arg' = [arg EXCEPT ![p] = k]
  /\ Goto(p, "ready")
  /\ UNCHANGED <<missed, fd, cacheDisk, written, cut>>

\* A deleted entry stays in the total.
SizeKept(p, k) == totalSize[p]
\* Delete takes the entry's size off the total.
SizeAfterDelete(p, k) == totalSize[p] - KeySize[k]

\* Get and GetBytes up to os.Open: no entry is a miss; an expired entry or a
\* file that cannot be opened is deleted; a hit moves the entry to the recently
\* used end.
Get(p) ==
  LET k == arg[p]
      Miss == missed' = [missed EXCEPT ![p] = TRUE] /\ UNCHANGED fd
  IN /\ cpc[p] = "ready" /\ ~missed[p]
     /\ \/ /\ ~HasEntry(p, k)
           /\ Miss
           /\ UNCHANGED <<cpc, cacheMem>>
        \/ /\ HasEntry(p, k)
           /\ Miss
           /\ Goto(p, "unlink")
           /\ entries' = [entries EXCEPT ![p] = RemoveFirst(@, k)]
           /\ totalSize' = [totalSize EXCEPT ![p] = SizeAfterDelete(p, k)]
        \/ /\ HasEntry(p, k) /\ path[k] # 0
           /\ Goto(p, "opened")
           /\ fd' = [fd EXCEPT ![p] = path[k]]
           /\ entries' = [entries EXCEPT ![p] = Append(RemoveFirst(@, k), k)]
           /\ UNCHANGED <<totalSize, missed>>
     /\ UNCHANGED <<arg, cacheDisk, cacheHist>>

\* GetBytes reads whatever the open file holds by now; the build is done.
ReadAll(p) ==
  /\ cpc[p] = "opened"
  /\ Ends(p)
  /\ UNCHANGED <<path, tmp, index, cacheHist>>
  /\ SetContent(content)

\* Delete, after it dropped the entry: the file goes even when another process
\* has just stored it again.
Unlink(p) ==
  /\ cpc[p] = "unlink"
  /\ path' = [path EXCEPT ![arg[p]] = 0]
  /\ Goto(p, "save")
  /\ UNCHANGED <<cacheMem, cacheCall, fd, tmp, index, cacheHist>>
  /\ SetContent(content)

\* PutBytes: os.WriteFile opens and truncates the object file in place.
PutBytes(p) ==
  /\ cpc[p] = "ready" /\ missed[p]
  /\ LET k == arg[p]
         i == IF path[k] = 0 THEN FreshInode ELSE path[k]
     IN /\ path' = [path EXCEPT ![k] = i]
        /\ fd' = [fd EXCEPT ![p] = i]
        /\ content' = [content EXCEPT ![i] = "partial"]
  /\ Goto(p, "bytes")
  /\ UNCHANGED <<cacheMem, cacheCall, tmp, index, cacheHist>>

\* Put: os.Create of the temporary file, whose name all writers of a key share.
Put(p) ==
  /\ cpc[p] = "ready" /\ missed[p]
  /\ LET k == arg[p]
         i == IF tmp[k] = 0 THEN FreshInode ELSE tmp[k]
     IN /\ tmp' = [tmp EXCEPT ![k] = i]
        /\ fd' = [fd EXCEPT ![p] = i]
        /\ content' = [content EXCEPT ![i] = "partial"]
  /\ Goto(p, "tmpbytes")
  /\ UNCHANGED <<cacheMem, cacheCall, path, index, cacheHist>>

\* A short write is taken for a complete one.
WriteShort(p) ==
  /\ cpc[p] \in Writing
  /\ Goto(p, IF cpc[p] = "bytes" THEN "enter" ELSE "rename")
  /\ fd' = [fd EXCEPT ![p] = 0]
  /\ written' = written \cup {arg[p]}
  /\ UNCHANGED <<cacheMem, cacheCall, cacheDisk, starts, cut>>

\* All bytes are written and the file is closed.
WriteDone(p) ==
  /\ cpc[p] \in Writing
  /\ Goto(p, IF cpc[p] = "bytes" THEN "enter" ELSE "rename")
  /\ fd' = [fd EXCEPT ![p] = 0]
  /\ written' = written \cup {arg[p]}
  /\ UNCHANGED <<cacheMem, cacheCall, path, tmp, index, starts, cut>>
  /\ SetContent([content EXCEPT ![fd[p]] = "whole"])

\* The error of a failed write is dropped and the entry made all the same.
WriteFailIgnored(p) ==
  /\ cpc[p] \in Writing
  /\ Goto(p, "enter")
  /\ cut' = cut \cup {arg[p]}
  /\ UNCHANGED <<cacheMem, cacheCall, fd, cacheDisk, starts, written>>

\* The write fails (disk full): PutBytes returns and leaves the truncated file,
\* and an older entry for it in the index; Put removes the temporary file.
WriteFails(p) ==
  /\ cpc[p] \in Writing
  /\ tmp' = IF cpc[p] = "tmpbytes" THEN [tmp EXCEPT ![arg[p]] = 0] ELSE tmp
  /\ cut' = cut \cup {arg[p]}
  /\ Ends(p)
  /\ UNCHANGED <<path, index, starts, written>>
  /\ SetContent(content)

\* Put renames the temporary file; when another writer of the key has already
\* renamed it away the call fails.
Rename(p) ==
  LET k == arg[p]
  IN /\ cpc[p] = "rename"
     /\ \/ /\ tmp[k] = 0
           /\ Ends(p)
           /\ UNCHANGED <<path, tmp>>
        \/ /\ tmp[k] # 0
           /\ path' = [path EXCEPT ![k] = tmp[k]]
           /\ tmp' = [tmp EXCEPT ![k] = 0]
           /\ Goto(p, "enter")
           /\ UNCHANGED <<cacheMem, cacheCall, fd>>
     /\ UNCHANGED <<index, cacheHist>>
     /\ SetContent(content)

\* evictIfNeeded: how many of the least recently used entries go.  Nothing up
\* to the limit; beyond it, until at most 80% of the limit is left.
EvictCount(list) ==
  LET left(n) == SizeOf(Range(SubSeq(list, n + 1, Len(list))))
  IN IF left(0) <= MaxSize THEN 0
     ELSE Min({n \in 0..Len(list) : left(n) <= (MaxSize * 8) \div 10})

\* The size of the entry Put and PutBytes replace.
ReplacedSize(p, k) == IF HasEntry(p, k) THEN KeySize[k] ELSE 0

\* The second half of Put and PutBytes: replace the entry, then evict.
Enter(p) ==
  LET k == arg[p]
      list == Append(RemoveFirst(entries[p], k), k)
      n == EvictCount(list)
      gone == Range(SubSeq(list, 1, n))
  IN /\ cpc[p] = "enter"
     /\ entries' = [entries EXCEPT ![p] = SubSeq(list, n + 1, Len(list))]
     /\ totalSize' = [totalSize EXCEPT ![p] =
                        @ - ReplacedSize(p, k) + KeySize[k] - SizeOf(gone)]
     /\ path' = [x \in Keys |-> IF x \in gone THEN 0 ELSE path[x]]
     /\ missed' = [missed EXCEPT ![p] = FALSE]
     /\ Goto(p, "save")
     /\ UNCHANGED <<arg, fd, tmp, index, cacheHist>>
     /\ SetContent(content)

\* saveIndex: os.WriteFile truncates index.json ...
SaveTruncate(p) ==
  /\ cpc[p] = "save"
  /\ index' = [state |-> "empty", list |-> <<>>]
  /\ Goto(p, "index")
  /\ UNCHANGED <<cacheMem, cacheCall, fd, path, tmp, content, cacheHist>>

\* ... and writes this process's entries from offset 0: over a longer text that
\* another process wrote since the truncation, the result does not parse.
SaveWrite(p) ==
  /\ cpc[p] = "index"
  /\ index' \in {[state |-> "whole", list |-> entries[p]]} \cup
                IF index.state = "empty" THEN {}
                ELSE {[state |-> "torn", list |-> <<>>]}
  /\ IF missed[p]
     THEN Goto(p, "ready") /\ UNCHANGED <<cacheMem, cacheCall, fd>>
     ELSE Ends(p)
  /\ UNCHANGED <<path, tmp, content, cacheHist>>

\* hgbuild cache clear: forget the entries ...
Clear(p) ==
  /\ cpc[p] = "ready" /\ ~missed[p]
  /\ entries' = [entries EXCEPT ![p] = <<>>]
  /\ totalSize' = [totalSize EXCEPT ![p] = 0]
  /\ Goto(p, "wipe")
  /\ UNCHANGED <<cacheCall, fd, cacheDisk, cacheHist>>

\* ... then remove every file but the index.
Wipe(p) ==
  /\ cpc[p] = "wipe"
  /\ path' = [k \in Keys |-> 0]
  /\ tmp' = [k \in Keys |-> 0]
  /\ Goto(p, "save")
  /\ UNCHANGED <<cacheMem, cacheCall, fd, index, cacheHist>>
  /\ SetContent(content)

\* The process is killed.
Killed(p) ==
  /\ cpc[p] # "down"
  /\ cut' = IF cpc[p] \in Writing THEN cut \cup {arg[p]} ELSE cut
  /\ Ends(p)
  /\ UNCHANGED <<path, tmp, index, starts, written>>
  /\ SetContent(content)

CacheNext ==
  \E p \in Procs :
    \/ \E k \in Keys : NewStore(p, k)
    \/ Get(p) \/ ReadAll(p) \/ Unlink(p)
    \/ PutBytes(p) \/ Put(p) \/ WriteDone(p) \/ WriteFails(p) \/ Rename(p)
    \/ Enter(p) \/ SaveTruncate(p) \/ SaveWrite(p)
    \/ Clear(p) \/ Wipe(p) \/ Killed(p)

CacheSpec == CacheInit /\ [][CacheNext]_cacheVars

-----------------------------------------------------------------------------

\* No process ever believes in an object that was not completely written at
\* least once: PutBytes and Put register an entry only after the bytes, and the
\* index another process loads was written from such entries, whatever
\* crashed, failed or interleaved in between.
EntriesWereWritten ==
  \A k \in Keys \ written :
    /\ \A p \in Procs : ~HasEntry(p, k)
    /\ k \notin Range(index.list)

\* A truncated object under its final name is either being rewritten right now
\* or was left by a write that a crash or a full disk cut short: a hit returns
\* part of an object in these two cases only (PutBytes writes in place).
TornExplained ==
  \A k \in Keys \ cut :
    path[k] # 0 /\ content[path[k]] = "partial" =>
      \E p \in Procs : cpc[p] \in Writing /\ fd[p] = path[k]

\* Every process accounts for exactly the entries it holds and never holds more
\* than the limit, also when it starts from an index that another process wrote
\* while both were storing and evicting.
SizeAccounted ==
  \A p \in Procs :
    /\ totalSize[p] = SizeOf(Range(entries[p]))
    /\ totalSize[p] <= MaxSize

=============================================================================
