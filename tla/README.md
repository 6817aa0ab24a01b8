# MaxInfBRkNN: specifications, model checks and proofs

The program (`src/MaxInfBRkNN`) answers one question: of the stores of a chain, which `b` should be
promoted so that the users for whom they are among the best `K` points of interest (POIs), and the
users these influence in a social network, are as many as possible.  A **reverse query** finds, for
each store, the users that have it among their `K` best POIs.  A **selection** then takes `b` stores,
by sampling reverse-reachable (RR) sets from the social graph of those users until a bound says that
the choice is good, or by local influence over two hops, or by one of the older methods it is measured
against.  The query reads POIs, users and road network from indexes that are built beforehand: a G-tree,
a network Voronoi diagram per keyword and a B+ tree, all on disk behind block caches.

The program runs in one thread.  What is hard in it is the *order* in which lazily kept and partly
stale data is used: queues with old keys, tables of gains from earlier rounds, marks shared by several
searches, bounds that prune, indexes that grow round by round, buffers that are overwritten.

`PROJECT.json` lists the components with their status, the source lines of every definition, the
hazards with the properties that are about them, the runs, and the theorems.

## 1. Inventory

| Component | State it keeps | Operations | What is hard | Modules |
|---|---|---|---|---|
| POI selection, `infgraph.h` `do_poiSelection_UB` | queue, gains, marks, bound | pop, reinsert, take, bound | stale keys, ties, the second queue running empty | `PoiSelection` |
| RR set builders, `infgraph.h`; constrained graph | R1, R2, their indexes, id maps | resize, sample, index, `checkReachable` | incremental rounds, slots left empty, maps whose lookup inserts | `ConstraintGraph`, `Opimc` |
| OPIM-C loop, `OPIMC.h` | round, result | `minePOIsOPIMC`, `minePOIsbyHybrid` | when it stops and with what | `Opimc`, `HybridOpimc` |
| Hybrid selection, `infgraph.h` | local and outer gains, marks | `do_poiSelection_UB_ByHybrid` | an influence counted in both parts, early returns | `LocalInfluence`, `HybridSelection` |
| Hop-based selection and progressive verification, `infgraph.h`, `process.h` | queue with doubled entries, users counted | three choices, `batchFilterThenHeuristic` | stale and doubled entries, stopping half-way | `LocalInfluence`, `HopSelection`, `ProgressiveSelection` |
| Other maximisers, `CELF_PLUS`, `PMC` | tables of gains, components, samples | CELF, CELF++, linear threshold, PMC | gains foreseen for a round that may not come | `MonteCarlo`, `CELF`, `CELFPlus`, `LinearThreshold`, `PrunedEstimater`, `PMC` |
| Batch query, `query_plus.h`, `query_basic.h` | one queue for all stores, marks, range, candidates | first step, pop, prune, extend, verify | a user lost silently; ties and rounding; termination | `RoadIndex`, `BatchQuery`, `FastFilter` |
| Single query, `query_plus.h`, `query_basic.h` | queue, marks, highest node | first step, pop, extend, evaluate | ending before children were looked at | `SingleQuery`, `Queries` |
| Top-K query and lower bound, `query_basic.h` | a heap per keyword, marks, cache of bounds | pop, neighbours, poll | one mark for several searches | `NVDIndex`, `TopkQuery`, `UserLowerBound` |
| Voronoi diagrams, `query_basic.h` | queue, cells, address tables | build, write, read | an entry used after a shorter one | `VoronoiDiagram` |
| G-tree, `gim_tree.h`, `process.h`, `loadInfo.h` | nodes, matrices, bounds, a temporary graph | cut, fill, nearest, distance, bound | levels of unequal depth, parts that do not hang together | `GTreeIndex` |
| B+ tree, `BTree/bpt.cc` | nodes and meta on a file | search, scan, insert, update, remove, open | separators and parents moved on copies of nodes | `Dictionary`, `BPlusTree` |
| Block caches, `IOcontroller.h`, `diskbased.h` | slots with time stamps, one buffer per file | lookup, store, two record readers | a label without its bytes; a record across two blocks; tests that differ | `LRUCache`, `BlockCache` |
| Older block file, `blk_file.cc` | file pointer, cached and changed blocks | read, write, append, delete, flush | relative seeks; the program ending before the flush | `BlockStore`, `CachedBlockFile` |
| Driver, loaders, third-party road network library | | | | section 6 |

How they interact.  `main.cpp` and `InfluenceModels.cc` call a reverse query and hand what it returns
to `checkReachable`, which fills the tables of the social graph; then `minePOIsOPIMC` or
`minePOIsbyHybrid` drives builders and selection on one `InfGraph`, or a maximiser works on the same
tables.  `batchFilterThenHeuristic` works between them: the filter gives candidates, it verifies them
one by one with top-K queries, and chooses stores by local influence as it goes.  The queries call
top-K query and lower bound, which walk the Voronoi diagrams; everything reads its records through the
block cache, by addresses the B+ tree holds.

## 2. Plan

Done, in the order in which it was done.

1. The selection and the rounds around it: `PoiSelection`, `ConstraintGraph`, `Opimc`.
2. The block cache, as a refinement of an LRU cache: `LRUCache`, `BlockCache`.
3. The batch query: `RoadIndex`, `BatchQuery`; then the filter made of it and the query of one store.
4. The searches it leans on and the indexes these lean on: `TopkQuery`, `UserLowerBound`,
   `VoronoiDiagram`, `GTreeIndex`, `BPlusTree` (refining `Dictionary`), `CachedBlockFile` (refining
   `BlockStore`).
5. The other selections and the maximisers.
6. Proofs of the selection and its bound, both caches as refinements, the mining loop as a run of the
   selection, the batch query, the filter and the single query as a whole, the two searches along the
   Voronoi diagrams, and the hop-based selection with the progressive verification around it.

Next: proofs that the tables of `CELF` and `PMC` are exact.  If the code should change or more is wanted: the RealData variant of the batch query, the queries over
the GIM-tree's keyword summaries, the inner RR sets.

## 3. Modules

Operators keep the names of the source.  Operators named `Bug...` are plausible slips in the definition
that follows them; no action uses one.  Each property of a passing run is paired in `PROJECT.json` with
slips that break it.

### `PoiSelection`
`heap` (POI to key), `coverage`, `edgeMark`, `poiMark`, `poiSet`, `influence`, `influence_upper` are the
code's locals and fields; `sel` is the place in the function.  `Fill` is the setup, `Refresh` a turn of
the loop that reinserts a stale top, `TakePoi` one that takes it, with the marking of its RR sets and the
bound from the second queue, `TakeLastPoi` the turn in which that queue is never filled and `top()`
dereferences null, `Return` the end.  The queue compares keys only, so any POI of maximal key may be on
top.  An RR set is a set of occurrences `<<p, u>>`: the code pushes `p` once for each visited user that
has it, and counts it as often.

### `ConstraintGraph`, `Opimc`
`checkReachable` builds the tables from a query result.  `LiveEdges` are the sets of in-edges that may be
live in one sample (weighted cascade: an only in-edge has probability 1), `VisitedFrom` the users a
reverse search visits under one.  `Lookup` and `Touched` are `unordered_map::operator[]`, which reads 0
for an absent key and inserts it.  `ResizeR1`, `SampleR1`, `IndexR1` are the three loops of
`build_hyper_graph_r_poi`, one sample a step; `...R2` those of the validation builder.  `Select` is one
step of the selection on R1.  `Accept`, `NextRound`, `GiveUp` are the end of a round.  The bounds are
real-valued; that the ratio passes is open, except that it cannot when nothing of R2 is covered.

### `LocalInfluence`, `HopSelection`, `ProgressiveSelection`, `HybridSelection`, `HybridOpimc`
`LocalInfluence` is what a set of users influences over two hops, in units of a common denominator.
`HopSelection` is the lazy choice on it: the queue is a bag, since the code pushes a second entry without
removing the first; `SkipSelected` says which of the functions runs, the one that takes entries of chosen
POIs again or the ones that skip them.  `HopSpec` is the selection by itself, called on any tables.  `ProgressiveSelection` verifies one candidate a step and, when
enough of the influence is verified, chooses on what is known and on what might still come.
`HybridSelection` is the choice whose gains are a local part and a part estimated on RR sets;
`HybridOpimc` is the loop around it, on the builder steps of `Opimc` with the outer collections.

### `MonteCarlo`, `CELF`, `CELFPlus`, `LinearThreshold`, `PrunedEstimater`, `PMC`
Simulations of the independent cascade run with probabilities that make them certain, so that influence is
reachability (`MonteCarlo`); the algorithms around them are modelled in full.  `LinearThreshold` is the
one simulation modelled by itself, with open thresholds.  `PrunedEstimater` is a sample of PMC with its
strongly connected components, the hub it prunes at and the values it keeps; `PMC` chooses users, or
stores, on several samples.

### `RoadIndex`, `BatchQuery`, `FastFilter`, `SingleQuery`, `Queries`
`RoadIndex` is what a query reads: positions, keywords, the G-tree (as the path of each vertex, its
borders and children derived), inverted lists and the score.  Scores are fractions of integers, so that
ties are exact.  `score` tabulates what follows from `db` and never changes.

A POI or a user is on a road, `pDis` or `uDis` from its end Ni (`pAt`, `uAt`) towards Nj (`pTo`, `uTo`).
`usrToPOIDistance` is the code's distance with its cases: the difference on one road, the way by a common
Ni, else the least of the ways by the four ends.  Users and POIs are filed under the leaf of Ni only, and
upper bounds and the bounds of borders go by that end (`UpperDist`, `SBound`).  For a user who leaves by Nj
into another leaf the borders over Ni are no bound, and the code loses some users that a store wins
strictly (`query_plus.h:4231`, `loadInfo.h:549`).  Claims that nobody is lost are therefore about
`WinsWithin`: a user and a store whose roads stay within their leaves, or who are filed under one leaf.

`BatchQuery` has one action per turn of the main loop: `FirstStep` (one store: friends of its visitors,
users with its less frequent and its rare keywords, users of its own leaf), `PopUser`, `PopSeenBorder`,
`PopBorder` (mark, prune with the clustered bound, push users or children), `Extend`
(`BatchExtend_Range`: climb, stop test, new entries), `SearchEnds`, then `Verify` and `Return`.  The
queue orders by distance only, so ties are open.  Scores that differ keep their order through the
`float` they are stored in on the way; a score compared with its own stored value may come out larger or
not, so `Passing` and `Beats` leave that case open.  `FastFilter` is `Fast_Batch_NVDFilter`, whose leaves
are dealt with once for a store and whose sparse nodes at once.  `SingleQuery` is the query of one store
with `Extend_Range`; it ends the extension by a flag at a node whose children it has just found.
`Queries` runs one of the three, as the driver does.

Abstractions: distances between vertices are exact, and a road is as long as the shortest way between its
ends (so they are in the edge file of `data/LasVegas`); the K POIs that a border's bound expands, and those a
user's bound polls, are part of `db`, and the proofs take any; the top-K query is taken to return the true K-th best
score (`TopkQuery` says when it does) and the lower bound what `UserLowerBound` compares with it; ids are below
`UserID_MaxKey`; border keys do not overflow; `NODE_SPARCITY_VALUE_BATCH` is the 1 of the build.

### `NVDIndex`, `TopkQuery`, `UserLowerBound`, `VoronoiDiagram`
`VoronoiDiagram` builds the diagram of one keyword after the other over the whole network, as the code
does with one queue, and reads the index back with the keys the code computes.  `NVDIndex` is an exact
diagram as the searches see it; `TopkQuery` keeps a heap for each keyword and one mark per POI for all of
them; `UserLowerBound` polls POIs by distance and caches a bound per user.  Both read one set of indexes,
so that one module can instantiate, and one module of proofs extend, both; hence the names `TopNext`,
`LCLNext`.  `Loaded` says that POIs and users are somewhere on roads, `UpperAbove` that upper bounds of
distances are such, `CellsAtHome` that a POI with a cell has an end of its own road in it, `Given` that the network
is one of shortest paths, cells are such, and every keyword of the user has a POI.

The top-K query gives the true answer under three conditions, together `Ordered`, each the reverse of something
the code gets wrong: no two keywords share a POI (`Unshared`); the POIs on the user's own road are among those read
for its ends (`OwnRoadListed`), since a POI inside a road need not have a cell, nor be next to one that is read;
no POI on another road from the user's Ni is nearer by its other end (`Straight`), since the way by Ni is taken
unseen.  What is scored and what is cut off is right without them.

### `GTreeIndex`
One action per stage of `buildTreeStructure` (partition with open cuts, temporary graph, matrices level by
level), then the uses: nearest vertices, a distance between two vertices, the bounds between leaves and
inner nodes with the vertex sets the edge loader fills.

### `Dictionary`, `BPlusTree`
Nodes are records on a file, with offsets for names, so that a parent field that is not updated stays
wrong.  A call is one action for the leaf and, when it goes on up the tree, one for each level of the index;
`call` is the level to be worked on, with the copies of nodes that are not yet on the file.

### `LRUCache`, `BlockCache`, `BlockStore`, `CachedBlockFile`
`getIdxBlockByjins` and `getDataBlockByjins` are the two record readers: `record` is the blocks a record of
some offset and size lies in, `asked` those the reader's own test calls for.  The index reader goes on to the
next block unless the record ends before `BlkLen`, the data reader only if it ends beyond it, which misses a record
ending one byte into the next block; the files it is called on hold nothing but words at multiples of their
size, which never do.  The wanted blocks are then delivered one by one by `FreqHit` (the one-block buffer of the file), `CacheHit` (a slot of the shared
cache) or `ReadPage` (read, stored over the least recently used slot).  `Reopen` closes and opens the
files.  The bytes of a block are the block's name, so that wrong bytes are visible.  `CachedBlockFile` is the
older file: `ptr` is where the file's pointer is, `file.act_block` where the object thinks it is; the
flush of the destructor goes block by block, and the program may end without it.

## 4. Runs

Several runs put modules side by side that do not interact in one state: a variable (`alg` or `query`)
says which one runs, the variables of the others stand still.  Their properties are conjunctions by
subject.

| Run | Instance | Result |
|---|---|---|
| `PoiSelection` | 4 POIs, 3 users, 3 RR sets of every content, K = 2; also 3 and 2 candidates | 15 040 states, no error |
| `Opimc` | 3 users, 3 stores, K = 2, 2 rounds of 2 and 4 samples, two query results | 334 868 states, no error |
| `BlockCache` | 2 files of 3 blocks of two words, 3 slots, 6 lookups, records of a byte or a word | 36 353 states, no error |
| `Queries` | 8 crossings, 3-level G-tree, 5 POIs of which 3 stores inside roads in four layouts, two users inside roads, K = 2, one frequent keyword a store; nodes with one user are sparse; each store queried alone | 110 833 states, no error |
| `Selections` | four stores and up to six users for the hop-based, progressive and hybrid choices; two stores to choose; a mining of four users and three stores | 328 958 states, no error |
| `Maximisers` | PMC on five users in three networks, CELF on all subsets of ten links of five users, CELF++ on twelve users in 625 networks and on six or seven stores, linear threshold on four users | 102 143 states, no error |
| `Searches` | block file with a cache and without, B+ tree of 18 keys, diagrams of three POIs inside roads, G-tree of six vertices, top-K query and lower bound with five POIs and two users inside roads | 132 456 states, no error |
| `WidestCover` | as `PoiSelection` | violation: `TakesWidestCover` |
| `StartUser` | as `Opimc` | violation: `StartsAtReachableUser` |
| `TiedStore` | as the batch query of `Queries` | violation: `AnnouncedCounts` |
| `TwoKeys` | the streets of `Queries` with far eastern crossings, a store with two frequent keywords | violation: `StopsInTime` |
| `VertexRecord` | the diagrams of `Searches` | violation: `DenseLeafRecorded` |

What they show.

- *Selection.*  Gains are exact (`CoverageIsMarginal`), keys never too low (`KeysBoundGains`), so every
  POI taken is a greedy choice (`SelectsMaxGain`); `influence_upper` bounds every choice of K POIs
  (`UpperBoundHolds`), also when the second queue runs short; the loop ends (`SelectionEnds`).
- *Mining.*  Both indexes stay exact over rounds although each leaves an empty slot
  (`SamplesIndexed`); an RR set is never redrawn (`SamplesKept`) and holds only what it should
  (`RRSetsSound`); the validation's marks are indexed in range (`ValidationInBounds`); a round's steps
  are a run of `PoiSelection` (`SelectionRefined`); the result is the last selection and, before the
  last round, backed by R2 (`ResultJustified`); the mining ends (`MiningEnds`).
- *Block cache.*  It implements `LRUCache` with `PAGE_ACCESS` as the misses, and each lookup is a hit or a
  miss of that cache for the block wanted (`IsLRU`); records read are right, and from as many blocks as they lie in,
  with either reader (`RecordRead`), since labels are (`BuffersAgree`) and no block is held twice
  (`OneSlotPerBlock`).
- *Queries.*  With one frequent keyword a store, and within leaves, a batch loses no user that a store wins
  strictly: neither by marks, pruning and extension (`BatchReachesWinners`), nor by the lower bound and the K stores kept for a
  user (`BatchKeepsWinners`), nor in the end, and nobody is returned for a store that K others beat
  (`BatchExact`).  The filter looks at a leaf once and marks none of its users: still (`FilterSound`) no store
  takes two places of a user, nobody of the leaf is left, and the candidates lack none of those.  The single query
  hides none of them, though it gives nodes up and ends its extension by a flag, and returns whom it should
  (`SingleSound`).  All three end (`QueriesEnd`).
- *Selections.*  Kept gains stay bounds over stale and doubled entries (`HopSound`), and the
  influence counted is at least 1 - (1 - 1/K)^K of the best; stopping the verification half-way is justified
  (`VerificationSound`), for stores that share followers and no user up to a factor of K; the two parts of a hybrid gain never count an
  influence twice (`HybridSound`); all of them end (`SelectionsEnd`).
- *Maximisers.*  What is kept agrees with what a computation from nothing would give (`EstimatesExact`,
  `TablesExact`), choices are greedy (`GreedyChoice`), the loops end (`MaximisersEnd`).  In CELF++ that ends
  where a gain is used that was foreseen before the last round, or for v_best 0 (`stale`); it cannot come to that
  before one more choice than `startIt` is made (`StaleIsLate`).  In CELF a seed stays one but for the first of
  users tied for the first place (`SeedsKept`).
- *Searches.*  The block file is a store of blocks (`Implements`), the tree a dictionary
  (`ActsAsDictionary`, `TreeSound`); the diagrams lead from any POI to all others and are read back as
  built, the G-tree's matrices are distances and its bounds enclose them (`IndexesSound`, `ReadsBack`);
  the searches return what the definitions give (`AnswersExact`, `IsLowerBound`) and end (`SearchesEnd`).

The violations, each quoted in `PROJECT.json`.

- `WidestCover`: gains count occurrences, so the POI taken need not cover the most samples.
- `StartUser`: the start user of a sample is looked up twice and can lie outside the constrained graph.
- `TiedStore`: a user announced as found, on a score equal to his K-th best, is in no result.
- `TwoKeys`: with two frequent keywords the bound at a border does not hold behind it (the extra
  distance weighs on the better score less), so the extension of a store can stop before a user that it
  wins.  `BatchExact` is therefore checked for one frequent keyword only.
- `VertexRecord`: a vertex that is the first end of no edge in the file is in no leaf's vertex set, and
  the index of a dense leaf has no entry for it.

### What the code does differently from its comments, met while modelling

The models follow the code in each of these; no run is spent on them, the instances avoid them where a
property would otherwise be lost.

- `infgraph.h:729`: each round adds a slot that no sample fills, and the ratio divides by the slots.
- `infgraph.h:1730`: `do_poiSelection_UB_ByOneHop` can choose a POI twice, by its second entry;
  `infgraph.h:1913`: only POIs that share a potential user with the chosen one are computed anew, others keep
  a gain that counts shared followers again; `infgraph.h:2331`: the users of one POI are counted for the
  next, since the set is declared outside the loop; `infgraph.h:2367`: the details of the hybrid bound leave
  out the influence of what is chosen.  So `HopSound` and `HybridSound` claim bounds, and equality only
  where the code has it.
- `BTree/bpt.cc:301`: the new root keeps the parent offset of the old one, and is lost when it is split;
  `bpt.cc:122`: the mark for a next page is false when the page ends with a leaf.
- `PMC/pmc.hpp:485`: gains of stores are updated by user ids; `pmc.cpp:293`: the seeds returned are the users
  30 to 69.  So only the first choice of stores is claimed to be greedy.
- `CELF_PLUS/MC.cc:226`: the last entry of the queue is erased for the first seed, which is another user when
  several tie; the seed comes up again, and moving it (`MC.cc:296`) takes it out of the seeds.  `SeedsKept` and
  `TotalCovExact` leave out just that.
- `CELF_PLUS/MC.cc:429`: a gain foreseen beside an entry is used when that entry was chosen last, also when it
  was foreseen rounds before, on fewer seeds; an entry that is moved gets v_best 0, which is a user.  With
  `startIt` 2 and `budget` 5 (`config_test.txt:16`, `23`) both happen, from the fourth seed on: the influence
  reported and the choices are then wrong.  `stale` says whether it has happened.  Line 957 reads a user's gain
  for a store with his number.
- `diskbased.h:325` against `271`: see `BlockCache`; harmless for files of words.
- `query_plus.h:4231`, `loadInfo.h:549`: users on roads that leave their leaf can be lost; the fourth layout of
  `Queries` has such a user.
- `query_basic.h:13085`, `loadInfo.h:371`: a POI on the user's own road, or one nearer by the far end of its
  road, can be missed by the top-K query; `OddDatabases` of `MC_Searches` have both.
- `query_basic.h:10080`: a vertex ends with the POI of its last entry; `13120`: one mark for all keywords;
  `10823`: a posting list of one POI is read past its end.  `ReadsBack` and `AnswersExact` claim what holds
  besides: the POI given first, and the score where `Ordered`.
- `gim_tree.h:1733`: the distance of two vertices of one leaf takes no way outside the leaf, so exactness is
  claimed between leaves.  `loadInfo.h:782` and `848`: bounds may be too low for vertices that are missing from
  the vertex sets, so they are claimed for the others.
- `query_basic.h:12012` and `12111`: after the extension has been ended a single query climbs from node -1; the
  loop condition at `query_plus.h:2567` is always true, and it is the flag that ends it.
- `query_basic.h:5395`: `TkGSKQ_bottom2up_verify_disk` does not end for a user none of whose keywords any POI
  has; `query_basic.h:8723`: the Dijkstra variant may end before a near POI is seen; `query_basic.h:447`:
  `update_LCL` may leave fewer than K POIs.  These belong to code that is not modelled.

### Bounds, and why they are enough

In `PoiSelection` three RR sets of three users give every overlap of two POIs with a third; stale keys and
reinsertion need two takings, and the three tables make the second queue long, short and empty.  In `Opimc`
the second round is the first that extends collections, and the two results make the constrained graph the
whole graph and a part without user 0.  Three slots and two files make hits, evictions and re-reads of an
evicted block within six lookups; with three blocks per file both a hit in the file's own buffer and records
across blocks occur; blocks of two words have every offset of a word against the end of a block.

In `Queries` the streets give nodes with two borders on two levels; three stores with K = 2 make the list kept
for a user overflow, and a user with friends and rare keywords comes in by every way; the second layout makes
the extension of the only store with a frequent keyword stop early; the third has every POI with that keyword
in one half, so that users in the other are found only two extensions out; the fourth has a store beyond two
POIs near a border and a user, on the road that crosses it, whom the code loses.  Roads lead within leaves and
out of them.  The western leaves are streets, so
that a single query whose extension has ended still has a customer below a child it has found.  The single
query runs for each store that has a frequent keyword.  One user is on any road, the other in one of three of
the leaves.

In `Selections` user 3 is reached by user 1 and has a follower of its own, so that stores share followers but
no user; so in the verification, where two stores are chosen, do the stores of users 1 and 4.  The hybrid tables
have empty stores and RR sets with one user or two.  In `Maximisers` PMC's networks
have a hub whose ancestor also goes around it and cycles with tails and detours; CELF's networks have every kind of tie; the followers of CELF++'s
users are alike enough that entries foreseen as the best are overtaken and their gains used rounds later, with
the seeds and start of `config_test.txt`.  In `Searches` order 4 and 18
keys give a tree of three levels, so that loans and merges happen above the leaves, and two free calls follow
every scripted beginning.  The road of the diagrams is a ring with a side road; POIs are at every place of it.
The G-tree's networks are six vertices in a chord, star and grid, cut in two anywhere, so that parts need
not hang together and leaves lie at several depths; `K` of the nearest query is five.  The city of the top-K
query is a ring of six crossings with a road across; of five POIs inside its roads two are moved, the user is
inside a road, with POIs on it and without, and K is 3.

Deadlock checking is off in every run: the programs end, and a cache may stop being asked.

### Fairness
All liveness is under weak fairness of the loop's own steps: one thread runs each loop, nothing in it waits
for anything, and every turn of it is enabled until it ends.  `PoiSelection` asks it of `LoopStep` alone,
since nothing makes a caller call; `Opimc`, `Queries` and `Selections` of their whole step, since they are
single calls; `Maximisers` of the simulations (CELF, CELF++, linear threshold); `Searches` of the top-K
query's steps and of the lower bound's, not of its being called.  None is asked of PMC, whose loops are
counted, nor of files, trees and indexes, which end only when their caller does.

## 5. Proofs

All theorems hold for every value of the constants, under the assumptions their modules name; TLC
evaluates these assumptions in the runs.

**`PoiSelection_proofs`** (finite `Pois` and `Users`, `K` a positive natural).  `IInv` is `TypeOK`,
`CoverageIsMarginal`, `KeysBoundGains`, `InfluenceCountsHits` and `SelectionSound` together.  None
of them is inductive alone: that a key is not too low after a taking needs that gains only fall, which needs
the gain to be the cardinality of a set that shrinks, which needs the index to be the inverse of the RR
sets (in `TypeOK`, by `StoreOK`).  `GainAfter` is the arithmetic of the marking loop; `Refresh`, taking,
filling and returning each have their lemma.  `UpperBoundCorrect` is that `influence_upper` is over the
coverage of every K POIs: what they add to the POIs taken is at most the sum of their gains, and no K gains
sum to more than the K largest, which is an exchange argument over finite sets.  `GreedyChoice` follows from `IInv` for each step: the top's
key is its gain and bounds the other keys, which bound the other gains.

**`Opimc_proofs`** (a finite social graph, any number of rounds and samples).  `IInv` adds to the
properties what they rest on: a slot holds something only if it has been sampled; both collections have the
same size between the builders; an index is exact for the slots indexed so far, and in full except for the
one whose builder is running; the queue of the selection holds the POIs not taken.  From it follow
`IndexesExact`, `SamplesSound`, `MarksInBounds`, `Justified` and, for steps, `SamplesStay`.  Soundness of an
RR set is that a reverse search visits exactly the users with a path of live edges, which needs that closing
a set forwards and backwards are dual.  `MiningSelects` is the safety part of `SelectionRefined`: every step
of the loop is a step of `PoiSelection` on R1, or leaves its variables alone.

**`RoadIndex_proofs`, `FiniteFacts`** are what the other proofs share.  Scores are fractions, compared by
cross-multiplication; that this orders them is proved first.  The K-th best of a finite set of scores has
fewer than K over it.  Sums of keyword weights are natural numbers that grow with the set (`WeightsAdd`): the
sum is a fold, and facts about it are proved by taking a smallest set that would break them.  Paths of a tree
agree above a node they share; from `ShortestPaths` a shortest way that leaves a node does so through a
border (`BorderOnWay`).

**`BatchQuery_proofs`** (any network, tree, databases, K).  First without further conditions: a store that
beats a user's K-th best POI is never the worst of more than K stores kept for him, whatever ties decide
(`NoStoreCrowdedOut`); `EvaluatedAreReturned` carries that over the verification, `OnlyCustomers` says that
nobody else is returned.

Then, under `ShortestPaths`, `OneTree` (of the constants, which TLC checks on the streets of `MC_BatchQuery`) and
`OneKeyword` (without which `TwoKeys` shows users lost), that the search loses nobody: `WinnersAreReachable`,
`QueryIsExact`, `WinnersAreKept`.  The property is not inductive: it says that a user is beyond *some*
queued border, and when that border is popped it must be known that his way out leads through it.
`SInv` therefore follows, for each user a store wins and has not evaluated, a border on a shortest *way* from
him to the store.  `Expected`: he is queued, or a border on his way has come up (queued or marked), or he is out of
range.  `Led`: a marked border on his way has him queued, or all borders of the child over him have come up.
From `Led` a marked border leads down the tree to a queued one (`Descent`, along the least place on the path
at which none has come up), so that marks, which are never undone, hide nobody.  Pruning: were the bound
at a border on the way over what the store can give the user, K POIs would be over the store for him, against
his being won (`BoundIsReached`, by the triangle inequality and because one keyword weighs the same on
both sides), so the keyword stays (`NotPruned`).  That needs the shortest way to lead through that border: it
leaves the user's road, and comes to the store's, by one of the two ends, and with `Within` both ends are on the
same side of every border between them (`BorderBetween`, `AtMostThrough`).  `ClimbMeets`: the extension finds a child with him as soon as the
node reached is over him; until then the bounds of its borders let it go on (`MeetsOrGoesOn`).

The filter and the single query follow the same argument with invariants of their own.  In the filter those
followed are users who do not yet *keep* the store, since users of a leaf are evaluated without a mark.
`NoStoreTwice` (`FShape`, from `OneTree` alone) needs that no two of its ways to evaluate a user meet: `Once`
says that a store he keeps has marked him or dealt with his leaf, and entries queued and nodes dealt with are
`Away`, below no sparse node, so that a sparse node has no leaf dealt with under it.  From it a store that wins
a user is never pushed out (`WinnerHeld`: of more than K stores kept once each, another is worse), which with
`FInv` gives `LeavesAreDone` and `CandidatesAreComplete`.  For the single query, `OneInv` adds that a node given
up has no users left, and that an extension once ended leaves nobody outside whom the store wins
(`MeetsOrGoesOn` again, with the children just found queued).  So the read before the tree (`ReadBeforeTree`,
whatever it reads) comes when nobody is left: `CustomersAreReachable`, `CustomersAreExact`.

At last `QueriesInvariant`: whichever query runs is in its own invariant.  From it the five properties of the
run `Queries`, as it states them: `BatchWinnersKept`, `BatchWinnersReached`, `BatchIsExact`, `FilterIsSound`,
`SingleIsSound`.

**`Searches_proofs`** (any cache size, none included, and any number of blocks).  Of the block file,
`PointerAlwaysKnown`: every relative seek starts where `act_block` says.  `BlocksHeldOnce`: no block is in two
slots.  `CacheImplementsStore` is the whole refinement `Implements`: with evictions, the flush block by block,
and the end of the program without it, the file is a store whose changes may be lost only as a store may lose
them.

Of the searches (any network, any Voronoi index that `Loaded` describes, any K).  For the top-K query:
every POI in the result has its own score and is there once (`ScoredTruly`), what is cut off is not among the K
best (`NothingCutOff`), heaps come in order of distance (`HeapsInOrder`), and where keywords share no POI the
result is the K-th best score (`QueryExact`); together `TopAnswers` (`AnswersExact`).  The last two hold
where `Ordered`.  The invariant says that each heap's top is no farther than any POI of its keyword not yet
reached (`FrontierIsNear`).  The user leaves his road by one of its ends; from there a shortest way to the POI runs
through cells, each next to the one before (`NearOnWay`), of which the first is in the heap from the start, so
that one on the way is in it while the POI is not, and it is no farther (`AwayByEnds`, `AtMostBy`).  A POI on the
user's own road is on no such way: hence `OwnRoadListed`.  For the lower bound, `LowerBoundCorrect`
(`IsLowerBound`): computed now or taken from the cache, it is not over the K-th best score, since the polled POIs
are distinct and each scores at least its text score.

**`BlockCache_proofs`** (`cachesize` positive, `LastBlock` a natural number).  `IInv` is `TypeOK`,
`OneSlotPerBlock`, `BuffersAgree` and `RecordRead`.  `OneSlotPerBlock` needs every stamp to be below
`nextTime` (in `TypeOK`) and `ReadPage` to run only when no slot holds the block; `RecordRead` needs the
labels to be right.  `CacheIsLRU` is the whole refinement `IsLRU`.  Slots in use are ranked by the number of
stamps not before theirs; ranks are a bijection with 1 .. n (an injection between sets of one size), so the
order of recency is that of the ranks.  A stamp later than all puts its slot first and moves the others back
exactly as far as it came (`Restamped`), which gives a hit (`HitOrder`) and a miss (`MissOrder`); the slot
stored in is free or has the last rank (`VictimIsOldest`).

**`ProgressiveSelection_proofs`** (any finite network, `K` a positive natural).  First, influence over two hops
is monotone and submodular (each further neighbour of a user takes a share of what is left, division rounding
down or not), so what a store adds only falls as others are chosen.  `GInv` is about any table: the gain
kept for a store is not below what it would add, although only stores that share a user with the one chosen
are computed anew (the gain of others can only have fallen), and one of its entries in the bag is not below
that.  An entry that is not stale therefore has the greatest gain (`GainsNeverTooSmall`), and what the
influence counted lacks to that of any K stores shrinks with every choice by a K-th of itself, which gives
`GreedyIsGood`; that one holds also where entries of chosen stores are taken again.  `SkippingIsSound` is
the rest: stores distinct, influence not understated, and equality with `OverlapsShareUser`.

Around it, `VerificationChooses`: each step of the verification is a step of the selection or none, so that all
of this carries over.  `ChoicesSound` adds that the table of the first choice is below the true one and that of
the second above (`TInv`: what is verified stays, and who is not verified counts for every store that might
have him).  For the stop, the first choice's influence must not be overstated
beyond measure, since it is set against the second's.  In code and model a store that shares followers but no
user with a chosen one is counted in full (`infgraph.h:1913`); what it counts is then at most what it
influences alone, and the stores chosen, K at most, influence together at least as much as each.  So the influence
counted is at most K times the true one, and not over it where stores that share followers share a user
(`Counted`).  `VerificationIsSound` has no further condition.

The conditions that theorems state as hypotheses (`ShortestPaths`, `OneTree`, `Loaded`, `UpperAbove`) are
assumptions of `MC_BatchQuery` and `MC_Searches`, which TLC evaluates on their instances; `OneKeyword` follows
from `OneKeywordEach` there, on every database; `Given` holds when a top-K query of `Searches`
starts (in `IndexesSound`).  The assumptions on the constants of `LocalInfluence`, `HopSelection` and
`ProgressiveSelection` are evaluated by the run `Selections`.

Only model-checked: the hybrid selection (`HybridSound`) and the maximisers (`EstimatesExact`, `TablesExact`,
`ThresholdsExact`, `GreedyChoice`), the B+ tree, the G-tree and the building of the diagrams (`TreeSound`,
`IndexesSound`, `ActsAsDictionary`, `ReadsBack`).  `HopSound` speaks of two instances of `HopSelection`; each of
its parts but the sums of `ProgressTypeOK` is a theorem about the module (`GainsNeverTooSmall`,
`GreedyIsGood`, `SkippingIsSound`), for every network and table.  Everything under fairness stays with TLC,
the fair half of `SelectionRefined` included (the prover does not treat `ENABLED`).

## 6. Not modelled

- The queries over the GIM-tree's keyword summaries (`RkGSKQ_Single_...`, `Group_Filter_...`), the top-K
  queries by G-tree and by Dijkstra, and the brute force ones: baselines of the experiments, each with a copy
  of the pruning that the modelled queries replaced.  The RealData variant of the batch query differs from the
  SyntheticData one in the first step.
- IMM (`imm.h`): its sampling and selection are those of the OPIM-C modules, in a loop whose only condition is
  a real-valued bound.  The degree and page rank heuristics, the stores taken by cardinality or at random.
- The inner RR sets and the pre-sampling, which an evaluation outside the mining draws; Monte Carlo evaluation.
- Writing and reading the G-tree's files, the GIM-tree's summaries, the older diagram constructions.
- Loaders, generators of data and the driver: input, output and timing around the modelled calls.  Of the
  loaders the edge file's vertex sets and the border bound are in `GTreeIndex`, `VoronoiDiagram`, `BatchQuery`.
- The third-party road network library (`Tenindra`, hub labels), about half of the implementation's lines:
  distances are exact in `RoadIndex`.
- Real numbers: OPIM-C's bounds and the number of its rounds are parameters.  `int` overflow of the cache's
  clock (`IOcontroller.h:159`) and of border keys (`query_plus.h:4450`) is outside the models, as are an empty
  range of random numbers (`infgraph.h:736`) and ids at `UserID_MaxKey` (`config.h:120`).
