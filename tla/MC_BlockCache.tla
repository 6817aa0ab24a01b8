--------------------------- MODULE MC_BlockCache ---------------------------
(* Two files of three blocks, three slots.  Requests stop when the cache   *)
(* has been looked up MaxAccesses times.                                   *)
EXTENDS BlockCache

CONSTANTS f1, f2, MaxAccesses

MCFiles == {f1, f2}

MCNext ==
  \/ getFlatBlock
  \/ /\ CACHE_ACCESSED < MaxAccesses
     /\ \/ Reopen
        \/ \E f \in Files, b \in Blocks : getIdxBlockByjins(f, b) \/ getDataBlockByjins(f, b)

MCSpec == Init /\ [][MCNext]_vars
=============================================================================
