----------------------------- MODULE BlockCache -----------------------------
(***************************************************************************)
(* Reading the index and data files (diskbased.h, IOcontroller.h).  A      *)
(* record is read with getDataBlockByjins or getIdxBlockByjins, from one   *)
(* block of its file or across two; every block comes from getFlatBlock or *)
(* getFlatBlockForIdx, which look in the file's own one-block FreqCache,   *)
(* then in the block cache all files share, then read the file.            *)
(*                                                                         *)
(* The test of getDataBlockByjins would not see a record that ends with    *)
(* the first byte of the next block; none does, being a word among words.  *)
(* The files are read only: the bytes of block b of file f are <<f, b>>.   *)
(* Of the statistics, the page accesses reported and CACHE_ACCESSED are    *)
(* kept.                                                                   *)
(***************************************************************************)
EXTENDS Integers, Sequences, FiniteSets, FiniteSetsExt

CONSTANTS Files,      \* the user ids: one for each file opened
          LastBlock,  \* blocks of a file are 0 .. LastBlock
          BlkLen,     \* bytes in a block
          cachesize   \* blocks in the cache

Word == 4  \* sizeof(int), sizeof(float)

\* A block is whole words (IOcontroller.h:25).
ASSUME BlocksAssumption == LastBlock \in Nat /\ BlkLen \in Nat /\ BlkLen % Word = 0
ASSUME CacheAssumption  == cachesize \in Nat \ {0}

Blocks == 0 .. LastBlock
Keys   == Files \X Blocks
Slots  == 0 .. cachesize - 1
NoKey  == <<>>  \* of a free slot
NoData == <<>>  \* in a buffer never written

VARIABLES
  cache_id,        \* slot -> cache_user and cache_block
  lastTime,        \* slot -> when it was last used, -1 if free
  nextTime,
  cache,           \* slot -> the bytes in it
  FC,              \* file -> its FreqCache: id and bytes
  PAGE_ACCESS,     \* DATA_PAGE_ACCESS + INDEX_PAGE_ACCESS
  CACHE_ACCESSED,  \* lookups in the block cache
  record,          \* the blocks the record being read lies in
  asked,           \* the blocks its reader asks for
  full_data        \* what has been copied of it so far

cacheVars == <<cache_id, lastTime, nextTime, cache>>
statVars  == <<PAGE_ACCESS, CACHE_ACCESSED>>
vars      == <<cacheVars, FC, statVars, record, asked, full_data>>

NoFreq == [id |-> NoKey, buffer |-> NoData]

Init ==
  /\ cache_id = [s \in Slots |-> NoKey] /\ cache = [s \in Slots |-> NoData]
  /\ lastTime = [s \in Slots |-> -1] /\ nextTime = 0
  /\ FC = [f \in Files |-> NoFreq]
  /\ PAGE_ACCESS = 0 /\ CACHE_ACCESSED = 0
  /\ record = <<>> /\ asked = <<>> /\ full_data = <<>>

Reading == Len(full_data) < Len(asked)

\* Block b of file f, and the next if that is called for.
Parts(f, b, two) == IF two THEN << <<f, b>>, <<f, b + 1>> >> ELSE << <<f, b>> >>

\* A record of size bytes at offset at of block b is asked for, as one block
\* or as two.
Request(f, b, at, size, two) ==
  LET across == at + size > BlkLen
  IN  /\ ~Reading
      /\ across => b < LastBlock
      /\ record' = Parts(f, b, across)
      /\ asked' = Parts(f, b, two)
      /\ full_data' = <<>>
      /\ UNCHANGED <<cacheVars, FC, statVars>>

end_inblock_addr(at, size) == at + size - 1

BugPastTheEnd(at, size) == end_inblock_addr(at, size) > BlkLen
\* Each reader's own test.
IdxCrosses(at, size)  == ~(end_inblock_addr(at, size) < BlkLen)
DataCrosses(at, size) == end_inblock_addr(at, size) > BlkLen

\* The nodes of the G-tree have a bool among their words: their records are
\* anywhere.
getIdxBlockByjins(f, b) ==
  \E at \in 0 .. BlkLen - 1, size \in {1, Word} : Request(f, b, at, size, IdxCrosses(at, size))

\* The files this reader is called on hold nothing but words.
WordOffsets == {at \in 0 .. BlkLen - 1 : at % Word = 0}

getDataBlockByjins(f, b) ==
  \E at \in WordOffsets : Request(f, b, at, Word, DataCrosses(at, Word))

\* The block wanted next.
Wanted == asked[Len(full_data) + 1]

\* A buffer is overwritten by the next block of its file: the part is copied
\* out before.
BugKeepsPointer(k, buffer) ==
  Append([j \in DOMAIN full_data |-> buffer], buffer)
Copied(k, buffer) == Append(full_data, buffer)

Deliver(k, buffer) ==
  /\ FC' = [FC EXCEPT ![k[1]] = [id |-> k, buffer |-> buffer]]
  /\ full_data' = Copied(k, buffer)
  /\ UNCHANGED <<record, asked>>

BugBlockIdAlone(k) == {s \in Slots : lastTime[s] >= 0 /\ cache_id[s][2] = k[2]}
BugLastSlotUnseen(k) ==
  {s \in Slots \ {cachesize - 1} : cache_id[s] = k /\ lastTime[s] >= 0}
\* The slots getCacheBlock finds k in.
Holding(k) == {s \in Slots : cache_id[s] = k /\ lastTime[s] >= 0}

Stamp == nextTime

BugHitUnstamped(s) == lastTime
Touched(s) == [lastTime EXCEPT ![s] = Stamp]

\* The slot storeCacheBlock takes: the first free, else the least recently
\* used.
Victim ==
  LET free == {s \in Slots : lastTime[s] < 0}
  IN  IF free # {} THEN Min(free)
      ELSE Min({s \in Slots : \A r \in Slots : lastTime[s] <= lastTime[r]})

InFreqCache(k) == FC[k[1]].id = k

\* The file's FreqCache has the block: nothing else is looked at.
FreqHit(k) ==
  /\ Reading /\ k = Wanted /\ InFreqCache(k)
  /\ Deliver(k, FC[k[1]].buffer)
  /\ UNCHANGED <<cacheVars, statVars>>

CacheHit(k) ==
  /\ Reading /\ k = Wanted /\ ~InFreqCache(k) /\ Holding(k) # {}
  /\ LET s == Min(Holding(k))
     IN  lastTime' = Touched(s) /\ Deliver(k, cache[s])
  /\ nextTime' = nextTime + 1
  /\ CACHE_ACCESSED' = CACHE_ACCESSED + 1
  /\ UNCHANGED <<cache_id, cache, PAGE_ACCESS>>

\* Neither has it: the block is read from its file and stored.
ReadPage(k) ==
  /\ Reading /\ k = Wanted /\ ~InFreqCache(k) /\ Holding(k) = {}
  /\ cache_id' = [cache_id EXCEPT ![Victim] = k]
  /\ cache' = [cache EXCEPT ![Victim] = k]
  /\ lastTime' = [lastTime EXCEPT ![Victim] = Stamp]
  /\ nextTime' = nextTime + 1
  /\ CACHE_ACCESSED' = CACHE_ACCESSED + 1
  /\ PAGE_ACCESS' = PAGE_ACCESS + 1
  /\ Deliver(k, k)

\* CloseDiskComm, and the files are opened again: InitFreqCache, InitCache.
\* The statistics go on.
Reopen ==
  /\ ~Reading
  /\ cache_id' = [s \in Slots |-> NoKey] /\ cache' = [s \in Slots |-> NoData]
  /\ lastTime' = [s \in Slots |-> -1] /\ nextTime' = 0
  /\ FC' = [f \in Files |-> NoFreq]
  /\ UNCHANGED <<statVars, record, asked, full_data>>

getFlatBlock == \E k \in Keys : FreqHit(k) \/ CacheHit(k) \/ ReadPage(k)

Next ==
  \/ getFlatBlock \/ Reopen
  \/ \E f \in Files, b \in Blocks : getIdxBlockByjins(f, b) \/ getDataBlockByjins(f, b)

Spec == Init /\ [][Next]_vars
-----------------------------------------------------------------------------
(* Properties *)

TypeOK ==
  /\ cache_id \in [Slots -> Keys \cup {NoKey}]
  /\ cache \in [Slots -> Keys \cup {NoData}]
  /\ nextTime \in Nat
  /\ lastTime \in [Slots -> -1 .. nextTime - 1]
  /\ FC \in [Files -> [id : Keys \cup {NoKey}, buffer : Keys \cup {NoData}]]
  /\ PAGE_ACCESS \in Nat /\ CACHE_ACCESSED \in Nat
  /\ record \in Seq(Keys) /\ asked \in Seq(Keys) /\ full_data \in Seq(Keys \cup {NoData})
  /\ Len(full_data) <= Len(asked)

\* storeCacheBlock never looks whether the block is there already ("user's
\* responsibility", IOcontroller.h:142): no block is in two slots, and no two
\* slots have the same time, so the victim is unique.
OneSlotPerBlock ==
  \A s, r \in Slots :
    s # r /\ lastTime[s] >= 0 =>
      /\ lastTime[s] # lastTime[r]
      /\ lastTime[r] >= 0 => cache_id[s] # cache_id[r]

\* Whatever is labelled with a block holds its bytes.
BuffersAgree ==
  /\ \A s \in Slots : lastTime[s] >= 0 => cache[s] = cache_id[s] /\ cache_id[s] \in Keys
  /\ \A f \in Files : FC[f].id # NoKey => FC[f].buffer = FC[f].id /\ FC[f].id[1] = f

\* A record is what the blocks it lies in hold: its reader asks for those,
\* each with a test of its own for the end of a block (diskbased.h:271, 325),
\* and the two parts come through one buffer (290-304).
RecordRead == asked = record /\ full_data = SubSeq(record, 1, Len(full_data))

\* The block of rank n among those used last.
Recency ==
  LET used == {s \in Slots : lastTime[s] >= 0}
  IN  [j \in 1 .. Cardinality(used) |->
         cache_id[CHOOSE s \in used :
                    Cardinality({r \in used : lastTime[r] >= lastTime[s]}) = j]]

LRU == INSTANCE LRUCache WITH Size <- cachesize, recent <- Recency, misses <- PAGE_ACCESS

\* With its time stamps the cache is an LRU cache, and counts its misses as
\* page accesses; and each lookup is a step of it for the block wanted
\* (IOcontroller.h:114-127, 144-171).
IsLRU ==
  /\ LRU!Spec
  /\ [][CACHE_ACCESSED' # CACHE_ACCESSED => LRU!Hit(Wanted) \/ LRU!Miss(Wanted)]_vars
=============================================================================
