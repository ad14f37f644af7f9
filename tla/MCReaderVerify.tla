--------------------------- MODULE MCReaderVerify ---------------------------
(* ReaderVerify for TLC. *)
EXTENDS ReaderVerify

(* Four entries of two bytes; the second block is a byte shorter than its  *)
(* entry, the first one so much longer that bytes_verified is the size of  *)
(* the stream when the damaged block is left out.                          *)
MCRawOff == [i \in 0 .. 4 |-> 2 * i]
MCBlockLen == [b \in 0 .. 3 |-> IF b = 0 THEN 5 ELSE IF b = 1 THEN 1 ELSE 2]

Request(o, l) == [off |-> o, n |-> l]

(* Into the short block; from a good one into the damaged one. *)
MCRequests == {Request(2, 2), Request(4, 4)}

=============================================================================
