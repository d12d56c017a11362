-------------------------- MODULE VirtualLRUBuffer --------------------------
(***************************************************************************)
(* VirtualLRUBuffer: a file of which only the blocks that were used last   *)
(* are in memory.  These are the operations on such a buffer; a position   *)
(* stands for some bytes, and holds the position in the file they are from.*)
(***************************************************************************)
EXTENDS Integers, Sequences, SequencesExt

CONSTANTS
  Size,       \* byteLength
  BlockSize   \* #blockSize

ASSUME BufferAssumption == Size \in Nat \ {0} /\ BlockSize \in Nat \ {0}

Positions == 0..(Size - 1)

\* What a new block holds.
Unset == Size

BlockIndex(p) == p \div BlockSize

BlockIndices == 0..BlockIndex(Size - 1)

\* A buffer: its blocks from least to most recently accessed, the positions of
\* #rangesWithData, and the blocks' bytes.
Buffers ==
  [recent : Seq(BlockIndices), data : SUBSET Positions, bytes : [Positions -> 0..Size]]

EmptyBuffer == [recent |-> <<>>, data |-> {}, bytes |-> [p \in Positions |-> Unset]]

HasData(b, from, to) == from..(to - 1) \subseteq b.data

\* MUTANT of Evict: the positions of the block are not taken out of the ranges.
EvictMutant(b, k) ==
  [b EXCEPT !.bytes = [p \in Positions |-> IF BlockIndex(p) = k THEN Unset ELSE @[p]]]

Evict(b, k) ==
  [b EXCEPT !.data = {p \in @ : BlockIndex(p) # k},
            !.bytes = [p \in Positions |-> IF BlockIndex(p) = k THEN Unset ELSE @[p]]]

\* #getBlock: the block, which is in the list once if at all, is now the most recently
\* accessed one; of more than limit blocks the least recently accessed one is evicted.
GetBlock(k, limit) ==
  [b \in Buffers |->
     LET recent == Append(RemoveFirst(b.recent, k), k)
     IN IF Len(recent) > limit THEN Evict([b EXCEPT !.recent = Tail(recent)], Head(recent))
        ELSE [b EXCEPT !.recent = recent]]

\* The blocks of a range, which are accessed one after the other.
BlocksOf(from, to) ==
  [n \in 1..(BlockIndex(to - 1) - BlockIndex(from) + 1) |-> BlockIndex(from) + n - 1]

\* slice, which throws unless there are all data.
Slice(b, from, to, limit) ==
  FoldLeft(LAMBDA buffer, k : GetBlock(k, limit)[buffer], b, BlocksOf(from, to))

\* copyFrom: n positions of the file, those from source on, go to start.
CopyFrom(b, source, start, n, limit) ==
  LET write(buffer, k) ==
        LET got == GetBlock(k, limit)[buffer]
        IN [got EXCEPT !.bytes = [p \in Positions |->
              IF p \in start..(start + n - 1) /\ BlockIndex(p) = k
              THEN source + (p - start) ELSE @[p]]]
      copied == FoldLeft(write, b, BlocksOf(start, start + n))
  IN [copied EXCEPT !.data = @ \cup (start..(start + n - 1))]
=============================================================================
