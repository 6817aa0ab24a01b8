------------------------------ MODULE LRUCache ------------------------------
(***************************************************************************)
(* What the block cache promises (IOcontroller.h:15, "LRU buffer"): it     *)
(* holds the Size blocks requested last, and only a request for another    *)
(* block is a page access.                                                 *)
(***************************************************************************)
EXTENDS Integers, Sequences

CONSTANTS Keys, \* the blocks of all files
          Size  \* how many the cache holds

VARIABLES recent, \* the blocks held, the last requested first
          misses  \* page accesses so far

Init == recent = <<>> /\ misses = 0

Held == {recent[j] : j \in DOMAIN recent}

\* The block moves to the front.
Hit(k) ==
  /\ \E at \in DOMAIN recent :
       /\ recent[at] = k
       /\ recent' = [j \in DOMAIN recent |-> IF j = 1 THEN k
                                           ELSE IF j <= at THEN recent[j-1] ELSE recent[j]]
  /\ UNCHANGED misses

\* It comes in at the front; the last of Size blocks goes.
Miss(k) ==
  /\ k \notin Held
  /\ recent' = <<k>> \o SubSeq(recent, 1, IF Len(recent) < Size THEN Len(recent)
                                         ELSE Size - 1)
  /\ misses' = misses + 1

Reset == recent' = <<>> /\ UNCHANGED misses

Next == Reset \/ \E k \in Keys : Hit(k) \/ Miss(k)

Spec == Init /\ [][Next]_<<recent, misses>>
=============================================================================
