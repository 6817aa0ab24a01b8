----------------------------- MODULE BlockStore -----------------------------
(***************************************************************************)
(* What a file of blocks behind a write-back cache promises: a block reads *)
(* as it was written last; a program that destroys its file object finds   *)
(* all of it again; one that just ends finds for every block a value it    *)
(* once had, and the latest of the header and of those never written over. *)
(***************************************************************************)
EXTENDS Integers

CONSTANT Data

VARIABLES number,  \* blocks 1 to number
          blocks,  \* as the program sees them
          durable, \* as the next program would find them
          header, closing,
          call     \* the last: its block (0: header) and content

vars == <<number, blocks, durable, header, closing, call>>

Init ==
  /\ number = 0 /\ blocks = [k \in 1 .. 0 |-> 0] /\ durable = [k \in 1 .. 0 |-> 0]
  /\ header \in Data /\ closing = FALSE /\ call = <<-1, "opened">>

\* Some blocks, perhaps none, reach the file in passing.
Persist ==
  \E S \in SUBSET (1 .. number) :
    durable' = [k \in 1 .. number |-> IF k \in S THEN blocks'[k] ELSE durable[k]]

AppendBlock(b) ==
  /\ ~closing /\ number' = number + 1 /\ call' = <<number + 1, b>>
  /\ blocks' = [k \in 1 .. number + 1 |-> IF k = number + 1 THEN b ELSE blocks[k]]
  /\ durable' = [k \in 1 .. number + 1 |-> IF k = number + 1 THEN b ELSE durable[k]]
  /\ UNCHANGED <<header, closing>>

Read(k) ==
  /\ ~closing /\ call' = <<k, blocks[k]>> /\ Persist
  /\ UNCHANGED <<number, blocks, header, closing>>

Write(k, b) ==
  /\ ~closing /\ blocks' = [blocks EXCEPT ![k] = b] /\ call' = <<k, b>> /\ Persist
  /\ UNCHANGED <<number, header, closing>>

SetHeader(h) ==
  /\ ~closing /\ header' = h /\ call' = <<0, h>>
  /\ UNCHANGED <<number, blocks, durable, closing>>

ReadHeader ==
  /\ ~closing /\ call' = <<0, header>>
  /\ UNCHANGED <<number, blocks, durable, header, closing>>

StartClose ==
  /\ ~closing /\ closing' = TRUE
  /\ UNCHANGED <<number, blocks, durable, header, call>>

Flush ==
  /\ closing /\ Persist
  /\ UNCHANGED <<number, blocks, header, closing, call>>

Closed ==
  /\ closing /\ durable = blocks
  /\ closing' = FALSE /\ call' = <<-1, "closed">>
  /\ UNCHANGED <<number, blocks, durable, header>>

Exit ==
  /\ blocks' = durable /\ closing' = FALSE /\ call' = <<-1, "exited">>
  /\ UNCHANGED <<number, durable, header>>

Next ==
  \/ \E b \in Data : AppendBlock(b) \/ SetHeader(b)
  \/ \E k \in 1 .. number : Read(k) \/ \E b \in Data : Write(k, b)
  \/ ReadHeader \/ StartClose \/ Flush \/ Closed \/ Exit

Spec == Init /\ [][Next]_vars
=============================================================================
