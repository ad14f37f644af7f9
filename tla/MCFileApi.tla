----------------------------- MODULE MCFileApi -----------------------------
(* FileApi for TLC. *)
EXTENDS FileApi

NoArch == [len |-> 0, end |-> OK, ck |-> FALSE, footer |-> "none"]

Call(fn, size, start, seekable, dict, cap, arch) ==
  [fn |-> fn, size |-> size, start |-> start, seekable |-> seekable, dict |-> dict,
   cap |-> cap, arch |-> arch]

(* Buffers of the promised size, and one byte less than some archives are. *)
MCCompress ==
  { Call("compress", n, 0, FALSE, d, c, NoArch) :
      n \in {0, 1, 4, 5, 9}, d \in {0, 2}, c \in {31, 100, 200} }
  \cup
  { Call("compress", n, 0, FALSE, d, CompressBound(n, d), NoArch) :
      n \in {0, 1, 4, 5, 9}, d \in {0, 2} }

MCDecompress ==
  { Call("decompress", 0, 0, FALSE, 0, c,
         [len |-> n, end |-> e, ck |-> TRUE, footer |-> "right"]) :
      n \in {0, 1, 3}, c \in {0, 1, 2, 3, 4},
      e \in {OK, ErrCorruptBlock, ErrDstTooSmall} }

(* From a file, from a file read from before, from a pipe. *)
MCCompressFile ==
  { Call("compress_file", n, s, TRUE, d, 0, NoArch) : n \in {3, 9}, s \in {0, 2}, d \in {0, 2} }
  \cup { Call("compress_file", n, 0, FALSE, 2, 0, NoArch) : n \in {0, 9} }

MCDecompressFile ==
  { Call("decompress_file", 0, 0, k, 0, 0,
         [len |-> n, end |-> e, ck |-> c, footer |-> f]) :
      k \in BOOLEAN, n \in {0, 4}, e \in {OK, ErrCorruptBlock}, c \in BOOLEAN,
      f \in {"right", "wrong", "zero", "none"} }

MCCalls == MCCompress \cup MCDecompress \cup MCCompressFile \cup MCDecompressFile

(* A file compressed with a dictionary. *)
MCWithDict == { Call("compress_file", 8, 0, TRUE, 2, 0, NoArch) }

=============================================================================
