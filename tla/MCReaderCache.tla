---------------------------- MODULE MCReaderCache ----------------------------
(* Instances of ReaderCache for TLC. *)
EXTENDS ReaderCache, TLC

(* Four entries of two bytes; the first block is a byte longer than its    *)
(* entry, the last one a byte shorter.                                     *)
MCRawOff == [i \in 0 .. 4 |-> 2 * i]
MCBlockLen == [b \in 0 .. 3 |-> IF b = 0 THEN 3 ELSE IF b = 3 THEN 1 ELSE 2]

Request(o, l) == [off |-> o, n |-> l]

(* Within a block; from the long one over its end into a good one; from a  *)
(* good one into the damaged one; the short one, over the end; past the    *)
(* end.                                                                    *)
MCRequests == {Request(0, 1), Request(1, 3), Request(3, 2), Request(6, 9), Request(8, 1)}

ThreadSymmetry == Permutations(Threads)

=============================================================================
