-------------------------------- MODULE Huff --------------------------------
(***************************************************************************)
(* The Huffman code of the codec lze (src/common/xq_huff.c): lengths from  *)
(* frequencies, with a limit; canonical codes from lengths; the validation *)
(* of stored lengths; and the decoding of one symbol.                      *)
(*                                                                         *)
(* A bit stream is the sequence of its bits as they are consumed: codes    *)
(* are bit-reversed in the source, since its accumulator is filled from    *)
(* the low end, and come out first bit first.                              *)
(***************************************************************************)
EXTENDS Integers, Sequences, FiniteSets

CONSTANTS NSymbols,   \* XQ_HUFF_SYMBOLS
          MaxBits,    \* XQ_HUFF_MAX_BITS
          Attempts    \* of xq_huff_build to get under the limit

ASSUME HuffAssumption == {NSymbols, MaxBits, Attempts} \subseteq Nat \ {0}

Symbols == 0 .. NSymbols - 1
NoCode == [s \in Symbols |-> 0]

Used(f) == { s \in Symbols : f[s] > 0 }

(* live: the roots, each with its weight and the depths of its leaves, as  *)
(* pairs.  The lightest, the first of them when several weigh the same.    *)
Lighter(live, i, j) == live[i].w < live[j].w \/ (live[i].w = live[j].w /\ i <= j)
Lightest(live, among) == CHOOSE i \in among : \A j \in among : Lighter(live, i, j)

(* The two become one, in the place of the first; the last root takes the  *)
(* place of the other.                                                     *)
Join(live) ==
  LET n == Len(live)
      a == Lightest(live, 1 .. n)
      b == Lightest(live, (1 .. n) \ {a})
      lo == IF a < b THEN a ELSE b
      hi == IF a < b THEN b ELSE a
      leaves == { <<p[1], p[2] + 1>> : p \in live[a].leaves \cup live[b].leaves }
  IN SubSeq([live EXCEPT ![lo] = [w |-> live[a].w + live[b].w, leaves |-> leaves],
                         ![hi] = live[n]], 1, n - 1)

(* The roots when k have been joined. *)
Joined(live) ==
  LET roots[k \in 0 .. Len(live) - 1] == IF k = 0 THEN live ELSE Join(roots[k - 1]) IN roots

(* The leaves of the tree that is left when all are joined. *)
Tree(live) == Joined(live)[Len(live) - 1][1].leaves

(* The leaves of the first i symbols, in their order. *)
Listed(f) ==
  LET roots[i \in 0 .. NSymbols] ==
        IF i = 0 THEN <<>>
        ELSE IF f[i - 1] = 0 THEN roots[i - 1]
        ELSE Append(roots[i - 1], [w |-> f[i - 1], leaves |-> {<<i - 1, 0>>}])
  IN roots

Leaves(f) == Listed(f)[NSymbols]

(* The frequencies, flattened k times. *)
Flattened(f) ==
  LET flat[k \in 0 .. Attempts - 1] ==
        IF k = 0 THEN f
        ELSE [s \in Symbols |-> IF f[s] > 0 THEN (flat[k - 1][s] \div 2) + 1 ELSE 0]
  IN flat

(* The lengths of an optimal code, from frequencies that are flattened     *)
(* until none is too long; NoCode if that takes too many attempts.         *)
Lengths(f) ==
  LET leaves(k) == Tree(Leaves(Flattened(f)[k]))
      short(k) == \A p \in leaves(k) : p[2] <= MaxBits
      first == CHOOSE k \in 0 .. Attempts - 1 : short(k) /\ \A j \in 0 .. k - 1 : ~short(j)
  IN IF \E k \in 0 .. Attempts - 1 : short(k)
     THEN [s \in Symbols |-> IF f[s] > 0 THEN (CHOOSE p \in leaves(first) : p[1] = s)[2] ELSE 0]
     ELSE NoCode

(* xq_huff_build: a single symbol has a code of one bit. *)
Build(f) ==
  CASE Cardinality(Used(f)) = 0 -> NoCode
    [] Cardinality(Used(f)) = 1 -> [s \in Symbols |-> IF s \in Used(f) THEN 1 ELSE 0]
    [] OTHER -> Lengths(f)

Count(len, b) == Cardinality({ s \in Symbols : len[s] = b })

LongestOf(len) == CHOOSE b \in { len[s] : s \in Symbols } : \A s \in Symbols : len[s] <= b

(* The canonical code: by length, then by symbol. *)
FirstCode(len) ==
  LET first[b \in 0 .. MaxBits] ==
        IF b = 0 THEN 0 ELSE IF b = 1 THEN 0 ELSE 2 * (first[b - 1] + Count(len, b - 1))
  IN first

CodeOf(len, s) ==
  FirstCode(len)[len[s]] + Cardinality({ t \in Symbols : t < s /\ len[t] = len[s] })

(* c >> b, for each b up to n *)
Shifted(c, n) == LET shifted[b \in 0 .. n] == IF b = 0 THEN c ELSE shifted[b - 1] \div 2 IN shifted

(* The code of s, first bit first. *)
CodeBits(len, s) ==
  LET shifted == Shifted(CodeOf(len, s), len[s]) IN [i \in 1 .. len[s] |-> shifted[len[s] - i] % 2]

(* avail: the bit patterns of each length that no code has taken. *)
Avail(len) ==
  LET avail[b \in 0 .. MaxBits] == IF b = 0 THEN 1 ELSE 2 * avail[b - 1] - Count(len, b) IN avail

(* Seeded fault: a code that leaves bit patterns without a symbol passes.  *)
LoadsSparse(len) ==
  /\ Used(len) # {}
  /\ LongestOf(len) <= MaxBits
  /\ IF Cardinality(Used(len)) = 1 THEN LongestOf(len) = 1
     ELSE \A b \in 1 .. LongestOf(len) : Avail(len)[b] >= 0

(* xq_huff_load: at every length no more codes than bit patterns are left, *)
(* and none is left over.                                                  *)
Loads(len) ==
  /\ Used(len) # {}
  /\ LongestOf(len) <= MaxBits
  /\ IF Cardinality(Used(len)) = 1 THEN LongestOf(len) = 1
     ELSE /\ \A b \in 1 .. LongestOf(len) : Avail(len)[b] >= 0
          /\ Avail(len)[LongestOf(len)] = 0

(* xq_huff_decode: the symbol whose code is in front, by a table over the  *)
(* next max_len bits, zeros behind the end; -1 if there is none, or its    *)
(* code reaches over the end.                                              *)
Decode(len, bits) ==
  LET peek == [i \in 1 .. LongestOf(len) |-> IF i <= Len(bits) THEN bits[i] ELSE 0]
      found == { s \in Used(len) : \A i \in 1 .. len[s] : CodeBits(len, s)[i] = peek[i] }
      sym == CHOOSE s \in found : \A t \in found : t <= s
  IN IF found = {} \/ len[sym] > Len(bits) THEN -1 ELSE sym

=============================================================================
