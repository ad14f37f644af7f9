------------------------------- MODULE MCLze -------------------------------
(* Lze for TLC. *)
EXTENDS Lze

Strings(S, ns) == UNION { [1 .. n -> S] : n \in ns }

Block(src, dict, depth, lze, out) ==
  [kind |-> "block", src |-> src, dict |-> dict, depth |-> depth, lze |-> lze,
   room |-> IF lze THEN 40 ELSE out, out |-> out, cap |-> Len(src), form |-> Nothing]

(* Long runs, and runs of literals, at the limits of the codes. *)
MCLong ==
  { [i \in 1 .. n |-> 0] : n \in {4, 5, 6, 12, 13, 14} }
  \cup { [i \in 1 .. n |-> i] : n \in {3, 4, 11, 12} }
  \cup { [i \in 1 .. 14 |-> IF i > 11 THEN i - 11 ELSE i] }

MCDicts == { <<>>, <<0, 1, 0>>, <<1, 0, 0, 1, 1>> }

MCBlocks ==
  { Block(s, d, t, FALSE, 40) : s \in Strings({0, 1}, 1 .. 7) \cup MCLong, d \in MCDicts, t \in {1, 3} }
  \cup { Block(s, d, 3, TRUE, 40) : s \in Strings({0, 1}, 5 .. 7) \cup MCLong, d \in MCDicts }
  \cup { Block(s, <<>>, 3, l, r) : s \in Strings({0, 1}, {6}), l \in BOOLEAN, r \in 1 .. 6 }

(* What no compressor wrote: tokens, distances and lengths of every sort.  *)
MCBytes ==
  { [kind |-> "bytes", src |-> s, dict |-> d, depth |-> 1, lze |-> FALSE,
     room |-> 0, out |-> 0, cap |-> 5, form |-> Nothing] :
      s \in Strings({0, 1, 3, 4, 7, 9, 13, 15}, 0 .. 4), d \in {<<>>, <<0, 1, 0>>} }

MCTables ==
  { [kind |-> "table", src |-> <<>>, dict |-> <<>>, depth |-> 1, lze |-> TRUE,
     room |-> 0, out |-> 0, cap |-> 5,
     form |-> [mode |-> "huff", mlen |-> m, bits |-> b,
               len |-> [s \in Symbols |-> IF s \in 3 .. 6 THEN l[s] ELSE 0]]] :
      l \in [3 .. 6 -> 0 .. 4], m \in {0, 3, 41}, b \in {<<>>, <<0, 1, 1, 0>>, <<1, 1, 0, 1, 0, 0, 1, 0>>} }

MCJobs == MCBlocks \cup MCBytes \cup MCTables

=============================================================================
