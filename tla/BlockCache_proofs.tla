------------------------- MODULE BlockCache_proofs -------------------------
(* Proofs about BlockCache, for any files, blocks and size of the cache.   *)
EXTENDS BlockCache, FiniteSetTheorems, FiniteFacts, TLAPS

\* Min finds it.
LEMMA MinIsMember ==
  ASSUME NEW S \in SUBSET Nat, S # {}
  PROVE  Min(S) \in S /\ \A k \in S : Min(S) <= k
BY LeastNatural DEF Min

\* storeCacheBlock always finds a slot.
LEMMA VictimIsSlot ==
  ASSUME TypeOK
  PROVE  Victim \in Slots
<1> DEFINE free == {s \in Slots : lastTime[s] < 0}
           oldest == {s \in Slots : \A r \in Slots : lastTime[s] <= lastTime[r]}
<1>1. free \in SUBSET Nat /\ oldest \in SUBSET Nat
  BY CacheAssumption DEF Slots
<1>2. CASE free # {}
  BY <1>1, <1>2, MinIsMember DEF Victim
<1>3. CASE free = {}
  <2> DEFINE times == {lastTime[s] : s \in Slots}
  <2>1. lastTime \in [Slots -> Nat]
    BY <1>3 DEF TypeOK
  <2>2. times \in SUBSET Nat /\ times # {}
    BY <2>1, CacheAssumption DEF Slots
  <2>3. PICK t \in times : \A k \in times : t <= k
    BY <2>2, LeastNatural
  <2>4. oldest # {}
    BY <2>3
  <2>5. Min(oldest) \in oldest
    BY <1>1, <2>4, MinIsMember
  <2> QED BY <1>3, <2>5 DEF Victim
<1> QED BY <1>2, <1>3

-----------------------------------------------------------------------------
(* The inductive invariant: what a hit delivers is right because a slot is *)
(* labelled with what it holds, and a miss stores its block once because a *)
(* lookup sees every slot.                                                 *)

IInv == TypeOK /\ OneSlotPerBlock /\ BuffersAgree /\ RecordRead

\* The block wanted is copied where it belongs.
LEMMA DeliverKeeps ==
  ASSUME TypeOK, RecordRead, Reading, NEW k, k = Wanted, Deliver(k, k)
  PROVE  /\ k \in Keys
         /\ RecordRead'
         /\ record' \in Seq(Keys) /\ asked' \in Seq(Keys)
         /\ full_data' \in Seq(Keys \cup {NoData})
         /\ Len(full_data') <= Len(asked')
         /\ FC' = [FC EXCEPT ![k[1]] = [id |-> k, buffer |-> k]]
<1>1. /\ asked \in Seq(Keys) /\ asked' = asked /\ record = asked /\ record' = record
      /\ full_data \in Seq(Keys \cup {NoData})
      /\ full_data = SubSeq(asked, 1, Len(full_data))
      /\ full_data' = Append(full_data, k)
  BY DEF TypeOK, RecordRead, Deliver, Copied
<1>2. Len(full_data) \in Nat /\ Len(full_data) < Len(asked)
  BY <1>1 DEF Reading
<1>3. k \in Keys
  BY <1>1, <1>2 DEF Wanted
<1>4. full_data' = SubSeq(asked, 1, Len(full_data) + 1)
  BY <1>1, <1>2 DEF Wanted
<1>5. Len(full_data') = Len(full_data) + 1
  BY <1>1, <1>2, <1>3
<1> QED
  BY <1>1, <1>2, <1>3, <1>4, <1>5 DEF RecordRead, Deliver

\* The FreqCache has the block it is labelled with.
LEMMA FreqHitKeeps ==
  ASSUME IInv, NEW k \in Keys, FreqHit(k)
  PROVE  IInv'
<1> USE DEF IInv
<1>1. FC[k[1]].id = k /\ k # NoKey /\ k[1] \in Files
  BY DEF FreqHit, InFreqCache, Keys, NoKey
<1>2. FC[k[1]].buffer = k
  BY <1>1 DEF BuffersAgree
<1>3. Deliver(k, k) /\ k = Wanted /\ Reading /\ UNCHANGED <<cacheVars, statVars>>
  BY <1>2 DEF FreqHit
<1>4. /\ RecordRead' /\ record' \in Seq(Keys) /\ asked' \in Seq(Keys)
      /\ full_data' \in Seq(Keys \cup {NoData})
      /\ Len(full_data') <= Len(asked')
      /\ FC' = [FC EXCEPT ![k[1]] = [id |-> k, buffer |-> k]]
  BY <1>3, DeliverKeeps
<1>5. TypeOK' /\ BuffersAgree'
  BY <1>1, <1>3, <1>4 DEF TypeOK, BuffersAgree, cacheVars, statVars
<1>6. OneSlotPerBlock'
  BY <1>3 DEF OneSlotPerBlock, cacheVars
<1> QED BY <1>4, <1>5, <1>6

\* A slot found by its label has the block asked for.
LEMMA CacheHitKeeps ==
  ASSUME IInv, NEW k \in Keys, CacheHit(k)
  PROVE  IInv'
<1> USE DEF IInv
<1> DEFINE s == Min(Holding(k))
<1>1. /\ s \in Slots /\ cache_id[s] = k /\ lastTime[s] >= 0
  <2>1. Holding(k) \in SUBSET Nat /\ Holding(k) # {}
    BY CacheAssumption DEF Holding, Slots, CacheHit
  <2>2. s \in Holding(k)
    BY <2>1, MinIsMember
  <2> QED BY <2>2 DEF Holding
<1>2. cache[s] = k
  BY <1>1 DEF BuffersAgree
<1> HIDE DEF s
<1>3. /\ Deliver(k, k) /\ k = Wanted /\ Reading
      /\ lastTime' = [lastTime EXCEPT ![s] = nextTime] /\ nextTime' = nextTime + 1
      /\ CACHE_ACCESSED' = CACHE_ACCESSED + 1
      /\ UNCHANGED <<cache_id, cache, PAGE_ACCESS>>
  BY <1>2 DEF CacheHit, Touched, Stamp, s
<1>4. /\ RecordRead' /\ record' \in Seq(Keys) /\ asked' \in Seq(Keys)
      /\ full_data' \in Seq(Keys \cup {NoData})
      /\ Len(full_data') <= Len(asked')
      /\ FC' = [FC EXCEPT ![k[1]] = [id |-> k, buffer |-> k]]
  BY <1>3, DeliverKeeps
<1>5. TypeOK'
  <2>1. nextTime \in Nat /\ nextTime' \in Nat
    BY <1>3 DEF TypeOK
  <2>2. lastTime' \in [Slots -> -1 .. nextTime' - 1]
    BY <1>1, <1>3, <2>1 DEF TypeOK
  <2>3. FC' \in [Files -> [id : Keys \cup {NoKey}, buffer : Keys \cup {NoData}]]
    BY <1>4 DEF TypeOK
  <2>4. cache_id' \in [Slots -> Keys \cup {NoKey}] /\ cache' \in [Slots -> Keys \cup {NoData}]
    BY <1>3 DEF TypeOK
  <2>5. PAGE_ACCESS' \in Nat /\ CACHE_ACCESSED' \in Nat
    BY <1>3 DEF TypeOK
  <2> QED BY <1>4, <2>1, <2>2, <2>3, <2>4, <2>5 DEF TypeOK
<1>6. BuffersAgree'
  <2>1. k # NoKey /\ k[1] \in Files
    BY DEF Keys, NoKey
  <2> QED BY <1>1, <1>3, <1>4, <2>1 DEF BuffersAgree, TypeOK
<1>7. OneSlotPerBlock'
  BY <1>1, <1>3 DEF OneSlotPerBlock, TypeOK
<1> QED BY <1>4, <1>5, <1>6, <1>7

\* The block read was in no slot, so it is in one now.
LEMMA ReadPageKeeps ==
  ASSUME IInv, NEW k \in Keys, ReadPage(k)
  PROVE  IInv'
<1> USE DEF IInv
<1> DEFINE s == Victim
<1>1. s \in Slots
  BY VictimIsSlot
<1> HIDE DEF s
<1>2. /\ Deliver(k, k) /\ k = Wanted /\ Reading
      /\ cache_id' = [cache_id EXCEPT ![s] = k] /\ cache' = [cache EXCEPT ![s] = k]
      /\ lastTime' = [lastTime EXCEPT ![s] = nextTime] /\ nextTime' = nextTime + 1
      /\ CACHE_ACCESSED' = CACHE_ACCESSED + 1 /\ PAGE_ACCESS' = PAGE_ACCESS + 1
  BY DEF ReadPage, Stamp, s
<1>3. \A r \in Slots : lastTime[r] >= 0 => cache_id[r] # k
  BY DEF ReadPage, Holding
<1>4. /\ RecordRead' /\ record' \in Seq(Keys) /\ asked' \in Seq(Keys)
      /\ full_data' \in Seq(Keys \cup {NoData})
      /\ Len(full_data') <= Len(asked')
      /\ FC' = [FC EXCEPT ![k[1]] = [id |-> k, buffer |-> k]]
  BY <1>2, DeliverKeeps
<1>5. TypeOK'
  <2>1. nextTime \in Nat /\ nextTime' \in Nat
    BY <1>2 DEF TypeOK
  <2>2. lastTime' \in [Slots -> -1 .. nextTime' - 1]
    BY <1>1, <1>2, <2>1 DEF TypeOK
  <2>3. FC' \in [Files -> [id : Keys \cup {NoKey}, buffer : Keys \cup {NoData}]]
    BY <1>4 DEF TypeOK
  <2>4. cache_id' \in [Slots -> Keys \cup {NoKey}] /\ cache' \in [Slots -> Keys \cup {NoData}]
    BY <1>1, <1>2 DEF TypeOK
  <2>5. PAGE_ACCESS' \in Nat /\ CACHE_ACCESSED' \in Nat
    BY <1>2 DEF TypeOK
  <2> QED BY <1>4, <2>1, <2>2, <2>3, <2>4, <2>5 DEF TypeOK
<1>6. BuffersAgree'
  <2>1. k # NoKey /\ k[1] \in Files
    BY DEF Keys, NoKey
  <2> QED BY <1>1, <1>2, <1>4, <2>1 DEF BuffersAgree, TypeOK
<1>7. OneSlotPerBlock'
  BY <1>1, <1>2, <1>3 DEF OneSlotPerBlock, TypeOK
<1> QED BY <1>4, <1>5, <1>6, <1>7

\* A reader that asks for two blocks just when the record is in two starts
\* with nothing copied, and with the right blocks.
LEMMA RequestKeeps ==
  ASSUME IInv, NEW f \in Files, NEW b \in Blocks, NEW at \in Nat, NEW size \in Nat,
         Request(f, b, at, size, at + size > BlkLen)
  PROVE  IInv'
<1> USE DEF IInv
<1>1. asked' = record' /\ asked' \in Seq(Keys) /\ full_data' = <<>>
  <2>1. at + size > BlkLen => b < LastBlock
    BY DEF Request
  <2>2. <<f, b>> \in Keys /\ (b < LastBlock => <<f, b + 1>> \in Keys)
    BY BlocksAssumption DEF Keys, Blocks
  <2>3. CASE at + size > BlkLen
    BY <2>1, <2>2, <2>3 DEF Request, Parts
  <2>4. CASE ~(at + size > BlkLen)
    BY <2>2, <2>4 DEF Request, Parts
  <2> QED BY <2>3, <2>4
<1>2. TypeOK'
  BY <1>1 DEF TypeOK, Request, cacheVars, statVars
<1>3. RecordRead'
  BY <1>1 DEF RecordRead
<1>4. OneSlotPerBlock' /\ BuffersAgree'
  BY DEF Request, OneSlotPerBlock, BuffersAgree, cacheVars
<1> QED BY <1>2, <1>3, <1>4

\* The index reader's test is exact for every record, the data reader's for
\* words.
LEMMA IndexReaderKeeps ==
  ASSUME IInv, NEW f \in Files, NEW b \in Blocks, getIdxBlockByjins(f, b)
  PROVE  IInv'
<1>1. PICK at \in 0 .. BlkLen - 1, size \in {1, Word} : Request(f, b, at, size, IdxCrosses(at, size))
  BY DEF getIdxBlockByjins
<1>2. at \in Nat /\ size \in Nat
  BY BlocksAssumption DEF Word
<1>3. IdxCrosses(at, size) = (at + size > BlkLen)
  BY <1>2, BlocksAssumption DEF IdxCrosses, end_inblock_addr
<1> QED BY <1>1, <1>2, <1>3, RequestKeeps

LEMMA DataReaderKeeps ==
  ASSUME IInv, NEW f \in Files, NEW b \in Blocks, getDataBlockByjins(f, b)
  PROVE  IInv'
<1>1. PICK at \in WordOffsets : Request(f, b, at, Word, DataCrosses(at, Word))
  BY DEF getDataBlockByjins
<1>2. /\ at \in Nat /\ at <= BlkLen - 1 /\ at % 4 = 0 /\ Word = 4
      /\ BlkLen \in Nat /\ BlkLen % 4 = 0
  BY BlocksAssumption DEF WordOffsets, Word
<1>3. at + 4 <= BlkLen
  BY <1>2
<1>4. DataCrosses(at, Word) = (at + Word > BlkLen)
  BY <1>2, <1>3 DEF DataCrosses, end_inblock_addr
<1> QED BY <1>1, <1>2, <1>4, RequestKeeps

\* The caches just initialised hold nothing.
LEMMA FreshCache ==
  ASSUME cache_id = [s \in Slots |-> NoKey], cache = [s \in Slots |-> NoData],
         lastTime = [s \in Slots |-> -1], nextTime = 0, FC = [f \in Files |-> NoFreq],
         PAGE_ACCESS \in Nat, CACHE_ACCESSED \in Nat, record \in Seq(Keys), asked \in Seq(Keys),
         full_data \in Seq(Keys \cup {NoData}), Len(full_data) <= Len(asked), RecordRead
  PROVE  IInv
BY DEF IInv, TypeOK, OneSlotPerBlock, BuffersAgree, NoFreq

\* Opening the files again leaves what was read.
LEMMA ReopenKeeps ==
  ASSUME IInv, Reopen
  PROVE  IInv'
<1>1. TypeOK' /\ RecordRead'
  BY DEF IInv, Reopen, TypeOK, RecordRead, NoFreq, statVars
<1>2. OneSlotPerBlock' /\ BuffersAgree'
  BY DEF Reopen, OneSlotPerBlock, BuffersAgree, NoFreq
<1> QED BY <1>1, <1>2 DEF IInv

\* Every block and every record delivered is the one asked for, whatever was
\* read before.
THEOREM Invariant == Spec => []IInv
<1>1. Init => IInv
  <2> SUFFICES ASSUME Init PROVE IInv
    OBVIOUS
  <2>1. /\ RecordRead /\ record \in Seq(Keys) /\ asked \in Seq(Keys)
        /\ full_data \in Seq(Keys \cup {NoData})
    BY DEF Init, RecordRead
  <2> QED BY <2>1, FreshCache DEF Init
<1>2. IInv /\ [Next]_vars => IInv'
  <2> SUFFICES ASSUME IInv, [Next]_vars PROVE IInv'
    OBVIOUS
  <2>1. ASSUME NEW k \in Keys, FreqHit(k) PROVE IInv'
    BY <2>1, FreqHitKeeps
  <2>2. ASSUME NEW k \in Keys, CacheHit(k) PROVE IInv'
    BY <2>2, CacheHitKeeps
  <2>3. ASSUME NEW k \in Keys, ReadPage(k) PROVE IInv'
    BY <2>3, ReadPageKeeps
  <2>4. ASSUME NEW f \in Files, NEW b \in Blocks, getIdxBlockByjins(f, b) \/ getDataBlockByjins(f, b)
        PROVE  IInv'
    BY <2>4, IndexReaderKeeps, DataReaderKeeps
  <2>5. CASE Reopen
    BY <2>5, ReopenKeeps
  <2>6. CASE UNCHANGED vars
    BY <2>6 DEF IInv, TypeOK, OneSlotPerBlock, BuffersAgree, RecordRead, vars, cacheVars,
                statVars
  <2> QED BY <2>1, <2>2, <2>3, <2>4, <2>5, <2>6 DEF Next, getFlatBlock
<1> QED BY <1>1, <1>2, PTL DEF Spec

\* The tables keep their shape, and no slot is stamped ahead of the clock
\* (IOcontroller.h:119, 161).
THEOREM TypeCorrect == Spec => []TypeOK
<1>1. IInv => TypeOK
  BY DEF IInv
<1> QED BY <1>1, Invariant, PTL

\* No block is cached twice although storing does not look for it
\* (IOcontroller.h:142-161).
THEOREM NoDuplicates == Spec => []OneSlotPerBlock
<1>1. IInv => OneSlotPerBlock
  BY DEF IInv
<1> QED BY <1>1, Invariant, PTL

\* A cached block has the bytes of the block it is labelled with, in the
\* shared cache and in every FreqCache (diskbased.h:186-203).
THEOREM CachesTruthful == Spec => []BuffersAgree
<1>1. IInv => BuffersAgree
  BY DEF IInv
<1> QED BY <1>1, Invariant, PTL

\* A record is put together from the blocks it lies in: in two for the index
\* reader, in one for the other, whose test misses a case that whole words at
\* multiples of their size do not meet (diskbased.h:271-304, 325-343).
THEOREM RecordsRight == Spec => []RecordRead
<1>1. IInv => RecordRead
  BY DEF IInv
<1> QED BY <1>1, Invariant, PTL

-----------------------------------------------------------------------------
(* The order of recency.  Slots in use are ranked by their time stamps, the *)
(* latest first; ranks are given once each, so that they are an order.      *)

UsedAt(lt) == {s \in Slots : lt[s] >= 0}
NotBefore(lt, s) == {r \in UsedAt(lt) : lt[r] >= lt[s]}
Rank(lt, s) == Cardinality(NotBefore(lt, s))
RecencyAt(ids, lt) ==
  [j \in 1 .. Cardinality(UsedAt(lt)) |-> ids[CHOOSE s \in UsedAt(lt) : Rank(lt, s) = j]]

\* Stamps tell the slots in use apart.
Stamps(lt) ==
  /\ lt \in [Slots -> Int]
  /\ \A s, r \in UsedAt(lt) : lt[s] = lt[r] => s = r

\* There are as many slots as the cache has blocks.
LEMMA SlotCount == IsFiniteSet(Slots) /\ Cardinality(Slots) = cachesize
<1>1. 0 \in Int /\ cachesize - 1 \in Int /\ cachesize \in Nat \ {0}
  BY CacheAssumption
<1>2. IsFiniteSet(0 .. cachesize - 1) /\
      Cardinality(0 .. cachesize - 1) = IF 0 > cachesize - 1 THEN 0 ELSE cachesize - 1 - 0 + 1
  BY <1>1, FS_Interval, Zenon
<1> QED BY <1>1, <1>2 DEF Slots

\* The slots in use are finitely many, and so are those not before one.
LEMMA UsedFinite ==
  ASSUME NEW lt
  PROVE  /\ IsFiniteSet(UsedAt(lt)) /\ Cardinality(UsedAt(lt)) \in Nat
         /\ Cardinality(UsedAt(lt)) <= cachesize
         /\ UsedAt(lt) # Slots => Cardinality(UsedAt(lt)) < cachesize
         /\ \A s : /\ IsFiniteSet(NotBefore(lt, s)) /\ Rank(lt, s) \in Nat
                  /\ Rank(lt, s) <= Cardinality(UsedAt(lt))
<1>1. UsedAt(lt) \in SUBSET Slots
  BY DEF UsedAt
<1>2. /\ IsFiniteSet(UsedAt(lt)) /\ Cardinality(UsedAt(lt)) \in Nat
      /\ Cardinality(UsedAt(lt)) <= cachesize
      /\ UsedAt(lt) # Slots => Cardinality(UsedAt(lt)) # cachesize
  BY <1>1, SlotCount, FS_Subset, FS_CardinalityType
<1>3. ASSUME NEW s
      PROVE  /\ IsFiniteSet(NotBefore(lt, s)) /\ Rank(lt, s) \in Nat
             /\ Rank(lt, s) <= Cardinality(UsedAt(lt))
  <2>1. NotBefore(lt, s) \in SUBSET UsedAt(lt)
    BY DEF NotBefore
  <2> QED BY <1>2, <2>1, FS_Subset, FS_CardinalityType DEF Rank
<1>4. cachesize \in Nat
  BY CacheAssumption
<1> QED BY <1>2, <1>3, <1>4

\* Ranks go down with time, and each is taken.
LEMMA Ranked ==
  ASSUME NEW lt, Stamps(lt)
  PROVE  /\ \A s, r \in UsedAt(lt) : lt[s] < lt[r] => Rank(lt, r) < Rank(lt, s)
         /\ \A s, r \in UsedAt(lt) : Rank(lt, s) = Rank(lt, r) => s = r
         /\ \A s \in UsedAt(lt) : Rank(lt, s) \in 1 .. Cardinality(UsedAt(lt))
         /\ \A j \in 1 .. Cardinality(UsedAt(lt)) : \E s \in UsedAt(lt) : Rank(lt, s) = j
<1> DEFINE U == UsedAt(lt)
           T == 1 .. Cardinality(U)
           rank == [s \in U |-> Rank(lt, s)]
<1>1. \A s \in U : lt[s] \in Int /\ s \in NotBefore(lt, s)
  BY DEF Stamps, UsedAt, NotBefore
<1>2. ASSUME NEW s \in U, NEW r \in U, lt[s] < lt[r]
      PROVE  Rank(lt, r) < Rank(lt, s)
  <2>1. NotBefore(lt, r) \in SUBSET NotBefore(lt, s) /\ NotBefore(lt, r) # NotBefore(lt, s)
    BY <1>1, <1>2 DEF NotBefore
  <2>2. Rank(lt, r) <= Rank(lt, s) /\ Rank(lt, r) # Rank(lt, s)
    BY <2>1, UsedFinite, FS_Subset DEF Rank
  <2> QED BY <2>2, UsedFinite
<1>3. ASSUME NEW s \in U, NEW r \in U, Rank(lt, s) = Rank(lt, r)
      PROVE  s = r
  <2>1. ~(lt[s] < lt[r]) /\ ~(lt[r] < lt[s])
    BY <1>2, <1>3, UsedFinite
  <2> QED BY <1>1, <2>1 DEF Stamps
<1>4. ASSUME NEW s \in U
      PROVE  Rank(lt, s) \in T
  <2>1. Rank(lt, s) # 0
    BY <1>1, UsedFinite, FS_EmptySet DEF Rank
  <2> QED BY <2>1, UsedFinite
<1>5. ASSUME NEW j \in T
      PROVE  \E s \in U : Rank(lt, s) = j
  <2>1. rank \in [U -> T] /\ \A s, r \in U : rank[s] = rank[r] => s = r
    BY <1>3, <1>4
  <2>2. IsFiniteSet(T) /\ Cardinality(T) = Cardinality(U)
    <3> DEFINE n == Cardinality(U)
    <3>1. 1 \in Int /\ n \in Int /\ n \in Nat
      BY UsedFinite
    <3> HIDE DEF n
    <3>2. IsFiniteSet(1 .. n) /\ Cardinality(1 .. n) = IF 1 > n THEN 0 ELSE n - 1 + 1
      BY <3>1, FS_Interval, Zenon
    <3>3. IsFiniteSet(1 .. n) /\ Cardinality(1 .. n) = n
      BY <3>1, <3>2
    <3> QED BY <3>3 DEF n
  <2>3. IsFiniteSet(U)
    BY UsedFinite
  <2> HIDE DEF rank, T, U
  <2>4. rank \in Injection(U, T)
    BY <2>1 DEF Injection, IsInjective
  <2>5. rank \in Surjection(U, T)
    BY <2>2, <2>3, <2>4, FS_Injection
  <2>6. PICK s \in U : rank[s] = j
    BY <2>5 DEF Surjection
  <2> QED BY <2>6 DEF rank
<1> QED BY <1>2, <1>3, <1>4, <1>5

\* The block of each rank is that of the slot with the rank.
LEMMA RecencyOfRank ==
  ASSUME NEW lt, Stamps(lt), NEW ids, NEW s \in UsedAt(lt)
  PROVE  RecencyAt(ids, lt)[Rank(lt, s)] = ids[s]
<1>1. \A r \in UsedAt(lt) : Rank(lt, r) = Rank(lt, s) => r = s
  BY Ranked
<1>2. (CHOOSE r \in UsedAt(lt) : Rank(lt, r) = Rank(lt, s)) = s
  BY <1>1
<1>3. Rank(lt, s) \in 1 .. Cardinality(UsedAt(lt))
  BY Ranked
<1> HIDE DEF Rank
<1> QED BY <1>2, <1>3 DEF RecencyAt

\* Slot s gets a stamp t later than all: h are the stamps then.
Restamp(lt, s, t, h) ==
  /\ Stamps(lt) /\ s \in Slots /\ t \in Nat
  /\ \A r \in Slots : lt[r] < t
  /\ h = [lt EXCEPT ![s] = t]

\* That puts its slot first and leaves the order of the others.
LEMMA Restamped ==
  ASSUME NEW lt, NEW s, NEW t, NEW h, Restamp(lt, s, t, h)
  PROVE  /\ Stamps(h) /\ UsedAt(h) = UsedAt(lt) \cup {s} /\ Rank(h, s) = 1
         /\ \A r \in UsedAt(lt) \ {s} :
              /\ s \in UsedAt(lt) /\ lt[s] >= lt[r] => Rank(h, r) = Rank(lt, r)
              /\ ~(s \in UsedAt(lt) /\ lt[s] >= lt[r]) => Rank(h, r) = Rank(lt, r) + 1
<1> USE DEF Restamp
<1>1. h \in [Slots -> Int] /\ h[s] = t /\ \A r \in Slots \ {s} : h[r] = lt[r] /\ lt[r] < t
  BY DEF Stamps
<1>2. UsedAt(h) = UsedAt(lt) \cup {s}
  BY <1>1 DEF UsedAt
<1>3. Stamps(h)
  BY <1>1, <1>2 DEF Stamps, UsedAt
<1>4. Rank(h, s) = 1
  <2>1. NotBefore(h, s) = {s}
    BY <1>1, <1>2 DEF NotBefore, UsedAt, Stamps
  <2> QED BY <2>1, FS_Singleton DEF Rank
<1>5. ASSUME NEW r \in UsedAt(lt) \ {s}
      PROVE  /\ s \in UsedAt(lt) /\ lt[s] >= lt[r] => Rank(h, r) = Rank(lt, r)
             /\ ~(s \in UsedAt(lt) /\ lt[s] >= lt[r]) => Rank(h, r) = Rank(lt, r) + 1
  <2>1. NotBefore(h, r) = NotBefore(lt, r) \cup {s}
    BY <1>1, <1>2 DEF NotBefore, UsedAt, Stamps
  <2>2. IsFiniteSet(NotBefore(lt, r))
    BY UsedFinite
  <2>3. s \in NotBefore(lt, r) <=> s \in UsedAt(lt) /\ lt[s] >= lt[r]
    BY DEF NotBefore
  <2>4. Cardinality(NotBefore(lt, r) \cup {s}) = IF s \in NotBefore(lt, r)
          THEN Cardinality(NotBefore(lt, r)) ELSE Cardinality(NotBefore(lt, r)) + 1
    BY <2>2, FS_AddElement
  <2> QED BY <2>1, <2>3, <2>4 DEF Rank
<1> QED BY <1>2, <1>3, <1>4, <1>5

\* A hit moves its block to the front, past those used since.
LEMMA HitOrder ==
  ASSUME NEW lt, NEW s \in UsedAt(lt), NEW t, NEW h, Restamp(lt, s, t, h),
         NEW ids, NEW rec, rec = RecencyAt(ids, lt)
  PROVE  RecencyAt(ids, h) =
           [j \in DOMAIN rec |-> IF j = 1 THEN ids[s]
                                 ELSE IF j <= Rank(lt, s) THEN rec[j-1] ELSE rec[j]]
<1> DEFINE U == UsedAt(lt)
           n == Cardinality(U)
           moved(j) == IF j = 1 THEN ids[s]
                       ELSE IF j <= Rank(lt, s) THEN rec[j-1] ELSE rec[j]
<1>1. Stamps(lt) /\ s \in Slots
  BY DEF Restamp
<1>2. /\ Stamps(h) /\ UsedAt(h) = U /\ Rank(h, s) = 1
      /\ \A r \in U \ {s} : /\ lt[s] >= lt[r] => Rank(h, r) = Rank(lt, r)
                            /\ ~(lt[s] >= lt[r]) => Rank(h, r) = Rank(lt, r) + 1
  <2>1. /\ Stamps(h) /\ UsedAt(h) = U \cup {s} /\ Rank(h, s) = 1
        /\ \A r \in U \ {s} :
             /\ s \in U /\ lt[s] >= lt[r] => Rank(h, r) = Rank(lt, r)
             /\ ~(s \in U /\ lt[s] >= lt[r]) => Rank(h, r) = Rank(lt, r) + 1
    BY Restamped
  <2>2. U \cup {s} = U
    OBVIOUS
  <2> HIDE DEF U
  <2> QED BY <2>1, <2>2 DEF U
<1>3. DOMAIN rec = 1 .. n /\ DOMAIN RecencyAt(ids, h) = 1 .. n
  BY <1>2 DEF RecencyAt
<1>4. n \in Nat
  BY UsedFinite
<1>5. ASSUME NEW j \in 1 .. n
      PROVE  RecencyAt(ids, h)[j] = moved(j)
  <2>1. PICK r \in U : Rank(h, r) = j
    <3>1. \A i \in 1 .. Cardinality(UsedAt(h)) : \E r \in UsedAt(h) : Rank(h, r) = i
      BY <1>2, Ranked
    <3> QED BY <1>2, <3>1
  <2>2. RecencyAt(ids, h)[j] = ids[r]
    BY <1>2, <2>1, RecencyOfRank
  <2>3. CASE r = s
    BY <1>2, <2>1, <2>2, <2>3
  <2>4. CASE r # s
    <3>1. rec[Rank(lt, r)] = ids[r] /\ Rank(lt, r) \in 1 .. n /\ Rank(lt, s) \in 1 .. n
      BY <1>1, RecencyOfRank, Ranked
    <3>2. lt[s] \in Int /\ lt[r] \in Int /\ lt[s] # lt[r]
      BY <1>1, <2>4 DEF Stamps, UsedAt
    <3>3. CASE lt[s] > lt[r]
      <4>1. Rank(lt, s) < Rank(lt, r) /\ Rank(lt, r) = j
        <5>1. \A p, q \in UsedAt(lt) : lt[p] < lt[q] => Rank(lt, q) < Rank(lt, p)
          BY <1>1, Ranked
        <5>2. lt[r] < lt[s] /\ lt[s] >= lt[r]
          BY <3>2, <3>3
        <5> QED BY <1>2, <2>1, <2>4, <5>1, <5>2
      <4> HIDE DEF n, U
      <4> QED BY <2>2, <3>1, <4>1
    <3>4. CASE lt[r] > lt[s]
      <4>1. Rank(lt, r) < Rank(lt, s)
        BY <1>1, <3>4, Ranked, <3>2
      <4>2. Rank(lt, r) + 1 = j
        BY <1>2, <2>1, <2>4, <3>2, <3>4
      <4> HIDE DEF n, U
      <4> QED BY <2>2, <3>1, <4>1, <4>2
    <3> QED BY <3>2, <3>3, <3>4
  <2> QED BY <2>3, <2>4
<1>6. RecencyAt(ids, h) = [j \in 1 .. n |-> RecencyAt(ids, h)[j]]
  BY <1>2 DEF RecencyAt
<1> HIDE DEF n, U
<1> QED BY <1>3, <1>5, <1>6

\* Slot s gets block k: ids2 are the labels then.
Relabel(ids, s, k, ids2) ==
  /\ ids \in [Slots -> Keys \cup {NoKey}]
  /\ ids2 = [ids EXCEPT ![s] = k]

\* Block k before the first m - 1 of rec.
Fronted(rec, k, m) == [j \in 1 .. m |-> IF j = 1 THEN k ELSE rec[j-1]]

\* A miss puts its block before all others, and one more slot is in use or
\* the block used least recently is gone.
LEMMA MissOrder ==
  ASSUME NEW lt, NEW s, NEW t, NEW h, Restamp(lt, s, t, h),
         s \in UsedAt(lt) => UsedAt(lt) = Slots /\ \A r \in Slots : lt[s] <= lt[r],
         NEW ids, NEW k, NEW ids2, Relabel(ids, s, k, ids2)
  PROVE  /\ Cardinality(UsedAt(h)) = IF s \in UsedAt(lt) THEN Cardinality(UsedAt(lt))
                                     ELSE Cardinality(UsedAt(lt)) + 1
         /\ RecencyAt(ids2, h) = Fronted(RecencyAt(ids, lt), k, Cardinality(UsedAt(h)))
<1> DEFINE U == UsedAt(lt)
           V == UsedAt(h)
           m == Cardinality(V)
           rec == RecencyAt(ids, lt)
<1>1. /\ Stamps(h) /\ V = U \cup {s} /\ Rank(h, s) = 1
      /\ \A r \in U \ {s} :
           /\ s \in U /\ lt[s] >= lt[r] => Rank(h, r) = Rank(lt, r)
           /\ ~(s \in U /\ lt[s] >= lt[r]) => Rank(h, r) = Rank(lt, r) + 1
  BY Restamped
<1>0. Stamps(lt) /\ s \in Slots
  BY DEF Restamp
<1>2. ASSUME NEW r \in U \ {s}
      PROVE  Rank(h, r) = Rank(lt, r) + 1
  <2>1. ASSUME s \in U PROVE lt[s] < lt[r]
    <3>1. lt[s] <= lt[r] /\ lt[s] # lt[r] /\ lt[s] \in Int /\ lt[r] \in Int
      BY <1>0, <2>1 DEF Stamps, UsedAt
    <3> QED BY <3>1
  <2>2. lt[r] \in Int /\ (s \in U => lt[s] \in Int)
    BY <1>0 DEF Stamps, UsedAt
  <2>3. ~(s \in U /\ lt[s] >= lt[r])
    BY <2>1, <2>2
  <2> QED BY <1>1, <2>3
<1>3. m = (IF s \in U THEN Cardinality(U) ELSE Cardinality(U) + 1) /\ m \in Nat
  <2>1. IsFiniteSet(U) /\ Cardinality(U) \in Nat
    BY UsedFinite
  <2>2. Cardinality(U \cup {s}) = IF s \in U THEN Cardinality(U) ELSE Cardinality(U) + 1
    BY <2>1, FS_AddElement
  <2>3. V = U \cup {s}
    BY <1>1
  <2> HIDE DEF U, V
  <2> QED BY <2>1, <2>2, <2>3
<1>4. ASSUME NEW j \in 1 .. m
      PROVE  RecencyAt(ids2, h)[j] = IF j = 1 THEN k ELSE rec[j-1]
  <2>1. PICK r \in V : Rank(h, r) = j
    <3>1. \A i \in 1 .. Cardinality(V) : \E r \in V : Rank(h, r) = i
      BY <1>1, Ranked
    <3> QED BY <1>3, <3>1
  <2>2. RecencyAt(ids2, h)[j] = ids2[r]
    <3>1. Stamps(h) /\ r \in UsedAt(h)
      BY <1>1
    <3>2. \A idk : RecencyAt(idk, h)[Rank(h, r)] = idk[r]
      BY <3>1, RecencyOfRank
    <3> QED BY <2>1, <3>2
  <2>3. CASE r = s
    <3>1. j = 1 /\ ids2[s] = k
      BY <1>0, <1>1, <2>1, <2>3 DEF Relabel
    <3> QED BY <2>2, <2>3, <3>1
  <2>4. CASE r # s
    <3>1. r \in U \ {s}
      BY <1>1, <2>4
    <3>2. rec[Rank(lt, r)] = ids[r] /\ Rank(lt, r) \in 1 .. Cardinality(U)
      BY <1>0, <3>1, RecencyOfRank, Ranked
    <3>3. Rank(lt, r) + 1 = j
      BY <1>2, <2>1, <3>1
    <3>4. Rank(lt, r) \in Nat /\ Rank(lt, r) # 0
      BY <3>2, UsedFinite
    <3>5. ids2[r] = ids[r]
      BY <2>4, <3>1 DEF UsedAt, Relabel
    <3> QED BY <2>2, <3>2, <3>3, <3>4, <3>5
  <2> QED BY <2>3, <2>4
<1>5. RecencyAt(ids2, h) = [j \in 1 .. m |-> RecencyAt(ids2, h)[j]]
  BY <1>3 DEF RecencyAt
<1> QED BY <1>3, <1>4, <1>5 DEF Fronted

-----------------------------------------------------------------------------
(* The cache is an LRU cache.                                              *)

\* The blocks held, in the order of the stamps.
LEMMA RecencyIs ==
  /\ Recency = RecencyAt(cache_id, lastTime)
  /\ Recency' = RecencyAt(cache_id', lastTime')
BY DEF Recency, RecencyAt, UsedAt, Rank, NotBefore

\* The clock is ahead of every stamp.
LEMMA ClockAhead ==
  ASSUME IInv, NEW s \in Slots
  PROVE  Restamp(lastTime, s, nextTime, [lastTime EXCEPT ![s] = nextTime])
<1>1. lastTime \in [Slots -> -1 .. nextTime - 1] /\ nextTime \in Nat
  BY DEF IInv, TypeOK
<1>2. Stamps(lastTime)
  BY <1>1 DEF IInv, OneSlotPerBlock, Stamps, UsedAt
<1>3. \A r \in Slots : lastTime[r] < nextTime
  BY <1>1
<1> QED BY <1>1, <1>2, <1>3 DEF Restamp

\* What is held is the blocks of the slots in use.
LEMMA RecencyHolds ==
  ASSUME IInv
  PROVE  /\ Recency \in Seq(Keys) /\ Len(Recency) = Cardinality(UsedAt(lastTime))
         /\ \A j \in DOMAIN Recency : \E s \in UsedAt(lastTime) : Recency[j] = cache_id[s]
         /\ \A s \in UsedAt(lastTime) :
              Rank(lastTime, s) \in DOMAIN Recency /\ Recency[Rank(lastTime, s)] = cache_id[s]
<1> DEFINE n == Cardinality(UsedAt(lastTime))
<1>1. n \in Nat
  BY UsedFinite
<1>2. Stamps(lastTime)
  <2>1. 0 \in Slots
    BY CacheAssumption DEF Slots
  <2> QED BY <2>1, ClockAhead DEF Restamp
<1>3. Recency = RecencyAt(cache_id, lastTime) /\ DOMAIN Recency = 1 .. n
  BY RecencyIs DEF RecencyAt
<1>4. \A s \in UsedAt(lastTime) :
        Rank(lastTime, s) \in DOMAIN Recency /\ Recency[Rank(lastTime, s)] = cache_id[s]
  <2>1. ASSUME NEW s \in UsedAt(lastTime)
        PROVE  /\ RecencyAt(cache_id, lastTime)[Rank(lastTime, s)] = cache_id[s]
               /\ Rank(lastTime, s) \in 1 .. n
    <3>1. \A ids : RecencyAt(ids, lastTime)[Rank(lastTime, s)] = ids[s]
      BY <1>2, RecencyOfRank
    <3> QED BY <1>2, <3>1, Ranked
  <2> QED BY <1>3, <2>1
<1>5. \A j \in 1 .. n : \E s \in UsedAt(lastTime) : Recency[j] = cache_id[s]
  <2>1. \A j \in 1 .. n : \E s \in UsedAt(lastTime) : Rank(lastTime, s) = j
    BY <1>2, Ranked
  <2> QED BY <1>4, <2>1
<1>6. \A s \in UsedAt(lastTime) : cache_id[s] \in Keys
  BY DEF IInv, BuffersAgree, UsedAt
<1>7. Recency \in [1 .. n -> Keys]
  <2>1. Recency = [j \in 1 .. n |-> Recency[j]]
    BY <1>3 DEF RecencyAt
  <2> HIDE DEF n
  <2> QED BY <1>5, <1>6, <2>1
<1> HIDE DEF n
<1>8. Recency \in Seq(Keys) /\ Len(Recency) = n
  BY <1>1, <1>7
<1> QED BY <1>3, <1>4, <1>5, <1>8 DEF n

\* A lookup that finds its block is a hit.
LEMMA CacheHitIsHit ==
  ASSUME IInv, NEW k \in Keys, CacheHit(k)
  PROVE  LRU!Hit(k)
<1> DEFINE s == Min(Holding(k))
           at == Rank(lastTime, s)
<1>1. s \in UsedAt(lastTime) /\ s \in Slots /\ cache_id[s] = k
  <2>1. Holding(k) \in SUBSET Nat /\ Holding(k) # {}
    BY CacheAssumption DEF Holding, Slots, CacheHit
  <2>2. s \in Holding(k)
    BY <2>1, MinIsMember
  <2> QED BY <2>2 DEF Holding, UsedAt
<1>2. /\ cache_id' = cache_id /\ PAGE_ACCESS' = PAGE_ACCESS
      /\ lastTime' = [lastTime EXCEPT ![s] = nextTime]
  BY DEF CacheHit, Touched, Stamp
<1> HIDE DEF s
<1>3. Restamp(lastTime, s, nextTime, lastTime')
  BY <1>1, <1>2, ClockAhead
<1>4. RecencyAt(cache_id, lastTime') =
        [j \in DOMAIN Recency |-> IF j = 1 THEN cache_id[s]
                                  ELSE IF j <= at THEN Recency[j-1] ELSE Recency[j]]
  BY <1>1, <1>3, HitOrder, RecencyIs
<1>5. at \in DOMAIN Recency /\ Recency[at] = k
  BY <1>1, RecencyHolds
<1>6. Recency' = [j \in DOMAIN Recency |-> IF j = 1 THEN k
                                           ELSE IF j <= at THEN Recency[j-1] ELSE Recency[j]]
  BY <1>1, <1>2, <1>4, RecencyIs
<1> QED BY <1>2, <1>5, <1>6 DEF LRU!Hit

\* What comes in at the front of a sequence cut short.
LEMMA PushFront ==
  ASSUME NEW rec \in Seq(Keys), NEW k \in Keys, NEW d \in 0 .. Len(rec)
  PROVE  <<k>> \o SubSeq(rec, 1, d) = [j \in 1 .. d + 1 |-> IF j = 1 THEN k ELSE rec[j-1]]
OBVIOUS

\* The slot a block is stored in is free, or all are in use and it is the one
\* used least recently.
LEMMA VictimIsOldest ==
  ASSUME TypeOK, Victim \in UsedAt(lastTime)
  PROVE  UsedAt(lastTime) = Slots /\ \A r \in Slots : lastTime[Victim] <= lastTime[r]
<1> DEFINE free == {s \in Slots : lastTime[s] < 0}
           oldest == {s \in Slots : \A r \in Slots : lastTime[s] <= lastTime[r]}
<1>1. free \in SUBSET Nat /\ oldest \in SUBSET Nat
  BY CacheAssumption DEF Slots
<1>2. lastTime \in [Slots -> Int]
  BY DEF TypeOK
<1>3. free = {}
  <2>1. ASSUME free # {} PROVE FALSE
    <3>1. Min(free) \in free /\ Victim = Min(free)
      BY <1>1, <2>1, MinIsMember DEF Victim
    <3> QED BY <1>2, <3>1 DEF UsedAt
  <2> QED BY <2>1
<1>4. lastTime \in [Slots -> Nat] /\ UsedAt(lastTime) = Slots
  BY <1>2, <1>3 DEF UsedAt
<1>5. oldest # {}
  <2> DEFINE times == {lastTime[s] : s \in Slots}
  <2>1. times \in SUBSET Nat /\ times # {}
    BY <1>4, CacheAssumption DEF Slots
  <2>2. PICK t \in times : \A k \in times : t <= k
    BY <2>1, LeastNatural
  <2> QED BY <2>2
<1>6. Min(oldest) \in oldest /\ Victim = Min(oldest)
  BY <1>1, <1>3, <1>5, MinIsMember DEF Victim
<1> QED BY <1>4, <1>6

\* One that does not is a miss.
LEMMA ReadPageIsMiss ==
  ASSUME IInv, NEW k \in Keys, ReadPage(k)
  PROVE  LRU!Miss(k)
<1> DEFINE s == Victim
           n == Cardinality(UsedAt(lastTime))
           m == IF s \in UsedAt(lastTime) THEN n ELSE n + 1
           d == IF Len(Recency) < cachesize THEN Len(Recency) ELSE cachesize - 1
<1>1. /\ s \in Slots
      /\ s \in UsedAt(lastTime) => UsedAt(lastTime) = Slots
                                   /\ \A r \in Slots : lastTime[s] <= lastTime[r]
  BY VictimIsSlot, VictimIsOldest DEF IInv
<1>2. /\ cache_id' = [cache_id EXCEPT ![s] = k] /\ PAGE_ACCESS' = PAGE_ACCESS + 1
      /\ lastTime' = [lastTime EXCEPT ![s] = nextTime]
  BY DEF ReadPage, Stamp
<1> HIDE DEF s
<1>3. Restamp(lastTime, s, nextTime, lastTime')
  BY <1>1, <1>2, ClockAhead
<1>4. cache_id \in [Slots -> Keys \cup {NoKey}]
  BY DEF IInv, TypeOK
<1>5. Recency' = [j \in 1 .. m |-> IF j = 1 THEN k ELSE Recency[j-1]]
  <2>1. RecencyAt(cache_id', lastTime') = [j \in 1 .. m |-> IF j = 1 THEN k ELSE Recency[j-1]]
    <3> DEFINE h == [lastTime EXCEPT ![s] = nextTime]
               ids2 == [cache_id EXCEPT ![s] = k]
               rec == RecencyAt(cache_id, lastTime)
    <3>1. Restamp(lastTime, s, nextTime, h)
      BY <1>1, ClockAhead
    <3>2. Relabel(cache_id, s, k, ids2)
      BY <1>4 DEF Relabel
    <3> HIDE DEF h, ids2
    <3>3. /\ Cardinality(UsedAt(h)) = m
          /\ RecencyAt(ids2, h) = Fronted(rec, k, Cardinality(UsedAt(h)))
      BY <1>1, <3>1, <3>2, MissOrder
    <3> QED BY <1>2, <3>3, RecencyIs DEF h, ids2, Fronted
  <2> QED BY <2>1, RecencyIs
<1>6. d \in 0 .. Len(Recency) /\ d + 1 = m
  <2>1. Len(Recency) = n /\ n \in Nat /\ n <= cachesize /\ cachesize \in Nat \ {0}
    BY RecencyHolds, UsedFinite, CacheAssumption
  <2>2. CASE s \in UsedAt(lastTime)
    <3>1. n = cachesize
      BY <1>1, <2>2, SlotCount
    <3> QED BY <2>1, <2>2, <3>1
  <2>3. CASE s \notin UsedAt(lastTime)
    <3>1. n < cachesize
      BY <1>1, <2>3, UsedFinite
    <3> QED BY <2>1, <2>3, <3>1
  <2> QED BY <2>2, <2>3
<1>7. Recency' = <<k>> \o SubSeq(Recency, 1, d)
  <2>1. Recency \in Seq(Keys)
    BY RecencyHolds
  <2> HIDE DEF d, m
  <2>2. <<k>> \o SubSeq(Recency, 1, d) =
          [j \in 1 .. d + 1 |-> IF j = 1 THEN k ELSE Recency[j-1]]
    BY <1>6, <2>1, PushFront
  <2> QED BY <1>5, <1>6, <2>2
<1>8. k \notin LRU!Held
  <2>1. \A r \in UsedAt(lastTime) : cache_id[r] # k
    BY DEF ReadPage, Holding, UsedAt
  <2> QED BY <2>1, RecencyHolds DEF LRU!Held
<1> QED BY <1>2, <1>7, <1>8 DEF LRU!Miss

\* With no slot in use nothing is held.
LEMMA NothingHeld ==
  ASSUME NEW lt, lt = [s \in Slots |-> -1], NEW ids
  PROVE  RecencyAt(ids, lt) = <<>>
<1>1. UsedAt(lt) = {}
  BY DEF UsedAt
<1>2. Cardinality(UsedAt(lt)) = 0
  BY <1>1, FS_EmptySet
<1> QED BY <1>2 DEF RecencyAt

\* With its time stamps the cache is an LRU cache, for any number of slots,
\* and every lookup is a hit or a miss of it for the block wanted
\* (IOcontroller.h:114-127, 144-171).
THEOREM CacheIsLRU == Spec => IsLRU
<1>1. Init => LRU!Init
  <2> SUFFICES ASSUME Init PROVE LRU!Init
    OBVIOUS
  <2>1. RecencyAt(cache_id, lastTime) = <<>>
    BY NothingHeld DEF Init
  <2> QED BY <2>1, RecencyIs DEF Init, LRU!Init
<1>2. IInv /\ [Next]_vars =>
        /\ [LRU!Next]_<<Recency, PAGE_ACCESS>>
        /\ [CACHE_ACCESSED' # CACHE_ACCESSED => LRU!Hit(Wanted) \/ LRU!Miss(Wanted)]_vars
  <2> SUFFICES ASSUME IInv, [Next]_vars
               PROVE  /\ LRU!Next \/ UNCHANGED <<Recency, PAGE_ACCESS>>
                      /\ CACHE_ACCESSED' # CACHE_ACCESSED =>
                           LRU!Hit(Wanted) \/ LRU!Miss(Wanted)
    OBVIOUS
  <2>1. ASSUME NEW k \in Keys, CacheHit(k) \/ ReadPage(k)
        PROVE  LRU!Next /\ (LRU!Hit(Wanted) \/ LRU!Miss(Wanted))
    <3>1. LRU!Hit(k) \/ LRU!Miss(k)
      BY <2>1, CacheHitIsHit, ReadPageIsMiss
    <3>2. k = Wanted
      BY <2>1 DEF CacheHit, ReadPage
    <3> QED BY <3>1, <3>2 DEF LRU!Next
  <2>2. CASE Reopen
    <3>1. RecencyAt(cache_id', lastTime') = <<>>
      BY <2>2, NothingHeld DEF Reopen
    <3>2. Recency' = <<>> /\ PAGE_ACCESS' = PAGE_ACCESS /\ CACHE_ACCESSED' = CACHE_ACCESSED
      BY <2>2, <3>1, RecencyIs DEF Reopen, statVars
    <3> QED BY <3>2 DEF LRU!Next, LRU!Reset
  <2>3. ASSUME UNCHANGED <<cacheVars, statVars>>
        PROVE  UNCHANGED <<Recency, PAGE_ACCESS>> /\ CACHE_ACCESSED' = CACHE_ACCESSED
    <3>1. /\ cache_id' = cache_id /\ lastTime' = lastTime /\ PAGE_ACCESS' = PAGE_ACCESS
          /\ CACHE_ACCESSED' = CACHE_ACCESSED
      BY <2>3 DEF cacheVars, statVars
    <3> QED BY <3>1, RecencyIs
  <2>4. ASSUME NEW k \in Keys, FreqHit(k) PROVE UNCHANGED <<cacheVars, statVars>>
    BY <2>4 DEF FreqHit
  <2>5. ASSUME NEW f \in Files, NEW b \in Blocks,
               getIdxBlockByjins(f, b) \/ getDataBlockByjins(f, b)
        PROVE  UNCHANGED <<cacheVars, statVars>>
    BY <2>5 DEF getIdxBlockByjins, getDataBlockByjins, Request
  <2>6. CASE UNCHANGED vars
    BY <2>3, <2>6 DEF vars
  <2> QED BY <2>1, <2>2, <2>3, <2>4, <2>5, <2>6 DEF Next, getFlatBlock
<1> QED BY <1>1, <1>2, Invariant, PTL DEF Spec, IsLRU, LRU!Spec
=============================================================================
