------------------------------- MODULE Blocks -------------------------------
(***************************************************************************)
(* What a block of an xq file is, at the level the encoder's properties    *)
(* need.  The caller's stream is the sequence of byte positions 0, 1, ...: *)
(* byte number i has "value" i, so that a buffer holding the wrong bytes   *)
(* is told apart from one holding the right ones.                          *)
(*                                                                         *)
(* A buffer of block_size bytes is a function on 0 .. BlockSize-1; the     *)
(* bytes past the length in use are Garbage.  The codec is abstracted to   *)
(* what the container sees of it: a deterministic function of the raw      *)
(* bytes whose result is either shorter than the input (compressed) or not *)
(* (the block is STORED).  Incompressible is the set of first bytes of     *)
(* blocks that do not shrink.                                              *)
(***************************************************************************)
EXTENDS Integers, Sequences

CONSTANTS BlockSize,       \* e->block_size, in bytes of the abstract stream
          Incompressible   \* first bytes of the blocks the codec cannot shrink

ASSUME BlockSizeAssumption == BlockSize \in Nat \ {0}

Garbage == -1

(* The bytes of one block-sized buffer. *)
Content == [0 .. BlockSize - 1 -> Int]

(* The stream offset at which block number n (from 0) starts: every block  *)
(* but the last holds exactly block_size bytes (XQ_FLAG_UNIFORM_BLOCKS).   *)
Start(n) == n * BlockSize

(* A buffer holding the l stream bytes o, o+1, ... and garbage after them. *)
Span(o, l) == [i \in 0 .. BlockSize - 1 |-> IF i < l THEN o + i ELSE Garbage]

Smaller(a, b) == IF a <= b THEN a ELSE b

(* The raw_size of block n of a stream of total bytes. *)
LenOf(n, total) == Smaller(BlockSize, total - Start(n))

(* A block as the file holds it: the raw_offset and raw_size fields of the *)
(* header, the STORED flag, the bytes the payload decodes to, and the      *)
(* bytes that the per-block checksum was computed over.                    *)
Block == [off : Nat, len : Nat, stored : BOOLEAN, data : Content, ck : Content]

(* Block n of a stream of total bytes as a one-thread encoder writes it.   *)
SerialBlock(n, total) ==
  [off    |-> Start(n),
   len    |-> LenOf(n, total),
   stored |-> Start(n) \in Incompressible,
   data   |-> Span(Start(n), LenOf(n, total)),
   ck     |-> Span(Start(n), LenOf(n, total))]

=============================================================================
