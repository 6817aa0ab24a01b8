-------------------------- MODULE CachedBlockFile --------------------------
(***************************************************************************)
(* BlockFile and CachedBlockFile (blk_file.cc): blocks of one length after *)
(* a header block, read and written through a cache that holds changes     *)
(* back.  The place of the file pointer is never asked for: act_block says *)
(* what it should be, and every seek is relative to it.                    *)
(*                                                                         *)
(* Blocks are counted from 1, as the code does once it has added 1 to the  *)
(* caller's index; block 0 is the header.                                  *)
(***************************************************************************)
EXTENDS Integers

CONSTANTS Data,      \* contents of a block or of the header
          NoData,    \* of a slot never used
          cachesize,
          MaxBlocks  \* bound: blocks appended

ASSUME CachedBlockFileAssumption == cachesize \in Nat /\ MaxBlocks \in Nat /\ Data # {}

VARIABLES
  file,       \* disk, number, act_block, and pos: where the file pointer is
  ptr, cache_cont, fuf_cont, cache,
  call,       \* the last: its block (0: header) and content
  closing, i  \* in the destructor, and of flush

cacheVars == <<ptr, cache_cont, fuf_cont, cache>>
vars == <<file, cacheVars, call, closing, i>>

Slots == 0 .. cachesize - 1
-----------------------------------------------------------------------------
(* BlockFile *)

\* seek_block
Place(f, pos) == f.pos + (pos - f.act_block)

\* After a block was read or written: at the next, or rewound.
Rest(f, pos) ==
  IF pos + 1 > f.number THEN [act_block |-> 0, pos |-> 0]
  ELSE [act_block |-> pos + 1, pos |-> Place(f, pos) + 1]

File(disk, number, rest) ==
  [disk |-> disk, number |-> number, act_block |-> rest.act_block, pos |-> rest.pos]

AfterRead(f, pos) == File(f.disk, f.number, Rest(f, pos))

write_block(f, pos, b) ==
  File([f.disk EXCEPT ![Place(f, pos)] = b], f.number, Rest(f, pos))

BugTwoBack(f) == [act_block |-> f.number + 1, pos |-> f.number]
\* fseek(-blocklength, SEEK_END): before the block appended.
RestAppended(f) == [act_block |-> f.number + 1, pos |-> f.number + 1]

append_block(f, b) ==
  File([k \in 0 .. f.number + 1 |-> IF k = f.number + 1 THEN b ELSE f.disk[k]],
       f.number + 1, RestAppended(f))

\* read_header and set_header leave the pointer after the header.
AfterHeader(f, disk) ==
  File(disk, f.number, IF f.number < 1 THEN [act_block |-> 0, pos |-> 0]
                       ELSE [act_block |-> 1, pos |-> 1])

Opened(f) == File(f.disk, f.number, [act_block |-> 0, pos |-> 0])
-----------------------------------------------------------------------------
(* CachedBlockFile *)

Free == {s \in Slots : fuf_cont[s] = "free"}

\* in_cache
Holding(index) == {s \in Slots : cache_cont[s] = index /\ fuf_cont[s] # "free"}

\* next: the slot to use, which is the one at ptr if that or none is free.
NextSlot ==
  IF ptr \in Free \/ Free = {} THEN ptr
  ELSE CHOOSE s \in Free : \A t \in Free : (s - ptr) % cachesize <= (t - ptr) % cachesize

BugNotWritten == file
\* The file after the block of the slot was written back.
Evicted ==
  IF Free = {} THEN write_block(file, cache_cont[ptr], cache[ptr]) ELSE file

AdvancePtr == ptr' = IF NextSlot = ptr THEN (ptr + 1) % cachesize ELSE ptr

Occupy(index, b) ==
  /\ cache_cont' = [cache_cont EXCEPT ![NextSlot] = index]
  /\ fuf_cont' = [fuf_cont EXCEPT ![NextSlot] = "used"]
  /\ cache' = [cache EXCEPT ![NextSlot] = b]

EmptyCache(f) ==
  /\ file' = Opened(f) /\ ptr' = 0 /\ i' = 0 /\ closing' = FALSE
  /\ cache_cont' = [s \in Slots |-> 0] /\ fuf_cont' = [s \in Slots |-> "free"]
  /\ cache' = [s \in Slots |-> NoData]

Init ==
  /\ \E h \in Data : file = [disk |-> [k \in 0 .. 0 |-> h], number |-> 0, act_block |-> 0, pos |-> 0]
  /\ ptr = 0 /\ cache_cont = [s \in Slots |-> 0] /\ fuf_cont = [s \in Slots |-> "free"]
  /\ cache = [s \in Slots |-> NoData]
  /\ call = <<-1, "opened">> /\ closing = FALSE /\ i = 0

AppendBlock(b) ==
  /\ ~closing /\ file.number < MaxBlocks
  /\ file' = append_block(file, b) /\ call' = <<file.number + 1, b>>
  /\ UNCHANGED <<cacheVars, closing, i>>

ReadHit(index) ==
  /\ ~closing
  /\ \E s \in Holding(index) : call' = <<index, cache[s]>>
  /\ UNCHANGED <<file, cacheVars, closing, i>>

ReadMiss(index) ==
  /\ ~closing /\ Holding(index) = {} /\ cachesize > 0
  /\ AdvancePtr
  /\ file' = AfterRead(Evicted, index)
  /\ call' = <<index, Evicted.disk[Place(Evicted, index)]>>
  /\ Occupy(index, Evicted.disk[Place(Evicted, index)])
  /\ UNCHANGED <<closing, i>>

WriteHit(index, b) ==
  /\ ~closing
  /\ \E s \in Holding(index) : cache' = [cache EXCEPT ![s] = b]
  /\ call' = <<index, b>>
  /\ UNCHANGED <<file, ptr, cache_cont, fuf_cont, closing, i>>

WriteMiss(index, b) ==
  /\ ~closing /\ Holding(index) = {} /\ cachesize > 0
  /\ AdvancePtr
  /\ file' = Evicted /\ call' = <<index, b>>
  /\ Occupy(index, b)
  /\ UNCHANGED <<closing, i>>

\* Without a cache next returns -1.
ReadUncached(index) ==
  /\ ~closing /\ cachesize = 0
  /\ file' = AfterRead(file, index) /\ call' = <<index, file.disk[Place(file, index)]>>
  /\ UNCHANGED <<cacheVars, closing, i>>

WriteUncached(index, b) ==
  /\ ~closing /\ cachesize = 0
  /\ file' = write_block(file, index, b) /\ call' = <<index, b>>
  /\ UNCHANGED <<cacheVars, closing, i>>

read_header ==
  /\ ~closing /\ call' = <<0, file.disk[0]>>
  /\ file' = AfterHeader(file, file.disk)
  /\ UNCHANGED <<cacheVars, closing, i>>

set_header(h) ==
  /\ ~closing
  /\ file' = AfterHeader(file, [file.disk EXCEPT ![0] = h]) /\ call' = <<0, h>>
  /\ UNCHANGED <<cacheVars, closing, i>>

\* The destructor flushes the slots one by one.
Destroy ==
  /\ ~closing /\ closing' = TRUE /\ i' = 0
  /\ UNCHANGED <<file, cacheVars, call>>

BugFirstOnly(f, s) == IF s = 0 THEN write_block(f, cache_cont[s], cache[s]) ELSE f
Flushed(f, s) == IF fuf_cont[s] # "free" THEN write_block(f, cache_cont[s], cache[s]) ELSE f

FlushSlot ==
  /\ closing /\ i < cachesize
  /\ file' = Flushed(file, i) /\ i' = i + 1
  /\ UNCHANGED <<cacheVars, call, closing>>

\* Opened again, by another program, after the destructor or without it.
Reopen ==
  /\ closing /\ i = cachesize
  /\ call' = <<-1, "closed">> /\ EmptyCache(file)

Exit == call' = <<-1, "exited">> /\ EmptyCache(file)

Next ==
  \/ \E b \in Data : AppendBlock(b) \/ set_header(b)
  \/ \E index \in 1 .. file.number :
       \/ ReadHit(index) \/ ReadMiss(index) \/ ReadUncached(index)
       \/ \E b \in Data : WriteHit(index, b) \/ WriteMiss(index, b) \/ WriteUncached(index, b)
  \/ read_header \/ Destroy \/ FlushSlot \/ Reopen \/ Exit

Spec == Init /\ [][Next]_vars
-----------------------------------------------------------------------------
(* Properties.                                                             *)

TypeOK ==
  /\ file = File(file.disk, file.number, file) /\ file.number \in 0 .. MaxBlocks
  /\ file.disk \in [0 .. file.number -> Data]
  /\ file.act_block \in 0 .. file.number /\ file.pos \in Nat
  /\ ptr \in 0 .. cachesize
  /\ cache_cont \in [Slots -> 0 .. file.number] /\ fuf_cont \in [Slots -> {"free", "used"}]
  /\ cache \in [Slots -> Data \cup {NoData}]
  /\ call \in (0 .. file.number) \X Data \cup {-1} \X {"opened", "closed", "exited"}
  /\ closing \in BOOLEAN /\ i \in 0 .. cachesize

\* The file pointer is where act_block says: seeks come to the block meant.
PointerKnown == file.pos = file.act_block

\* No block is held twice: a write changes the only copy there is, and the
\* order in which copies are written back does not matter.
HeldOnce ==
  \A s, t \in Slots : fuf_cont[s] = "used" /\ fuf_cont[t] = "used" /\ cache_cont[s] = cache_cont[t]
                        => s = t

\* The blocks as the program sees them: those held are newer than the file.
Content ==
  [k \in 1 .. file.number |->
    IF Holding(k) = {} THEN file.disk[k] ELSE cache[CHOOSE s \in Slots : s \in Holding(k)]]

Store == INSTANCE BlockStore WITH
  number <- file.number, blocks <- Content, durable <- [k \in 1 .. file.number |-> file.disk[k]],
  header <- file.disk[0]

\* The cache, its evictions and the flush in pieces keep what BlockStore
\* promises.
Implements == Store!Spec
=============================================================================
