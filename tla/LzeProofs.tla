----------------------------- MODULE LzeProofs -----------------------------
(***************************************************************************)
(* Proofs about the codecs lzb and lze: the decompressor stays in its      *)
(* buffers whatever it is given (CodecDecoderInBounds), a block comes back *)
(* byte for byte (CodecRoundTrip), and the Huffman tables are sound        *)
(* (CodecCodesSound).                                                      *)
(*                                                                         *)
(* In order: numbers, sequences and loops; the search for a match; what    *)
(* the decompressor and the compressor write; the first theorem; a         *)
(* sequence read back; the way of a block through a stream; the canonical  *)
(* code; the tree its lengths come from; the bits of a stream; the other   *)
(* two theorems.                                                           *)
(***************************************************************************)
EXTENDS Lze, SequenceTheorems, FiniteSetTheorems, FunctionTheorems, WellFoundedInduction, TLAPS

-----------------------------------------------------------------------------
(* The first byte that differs (match_len), the first byte without the     *)
(* high bit (get_varint): a set of naturals has a least element.           *)
LEMMA NatMin ==
  ASSUME NEW S \in SUBSET Nat, S # {}
  PROVE  \E m \in S : \A k \in S : m <= k
<1> DEFINE R == {ss \in Nat \X Nat : ss[1] < ss[2]}
<1>1. IsWellFoundedOn(R, Nat)
  BY NatLessThanWellFounded DEF OpToRel
<1>2. \A k, m \in Nat : k < m => <<k, m>> \in R
  OBVIOUS
<1> HIDE DEF R
<1>3. PICK m \in S : \A k \in S : ~(<<k, m>> \in R)
  BY <1>1, WFMin
<1>4. \A k \in S : ~(k < m)
  BY <1>2, <1>3
<1> QED BY <1>4

(* The longest of several matches: a set of naturals with an upper bound   *)
(* has a greatest element.                                                 *)
LEMMA NatMax ==
  ASSUME NEW S \in SUBSET Nat, S # {}, NEW n \in Nat, \A k \in S : k <= n
  PROVE  \E m \in S : \A k \in S : k <= m
<1> DEFINE D == { n - k : k \in S }
<1>1. D \in SUBSET Nat /\ D # {}
  <2>1. \A k \in S : n - k \in Nat
    OBVIOUS
  <2>2. D \subseteq Nat
    BY <2>1
  <2>3. PICK k \in S : TRUE
    OBVIOUS
  <2>4. n - k \in D
    BY <2>3
  <2> QED BY <2>2, <2>4
<1>2. PICK d \in D : \A e \in D : d <= e
  <2> HIDE DEF D
  <2> QED BY <1>1, NatMin
<1>3. PICK m \in S : d = n - m
  OBVIOUS
<1>4. ASSUME NEW k \in S PROVE k <= m
  <2>1. n - k \in D
    OBVIOUS
  <2>2. n - m <= n - k
    BY <2>1, <1>2, <1>3
  <2> QED BY <2>2
<1> QED BY <1>4

(* What is copied out of a buffer: a part of a sequence. *)
LEMMA Slice ==
  ASSUME NEW S, NEW s \in Seq(S), NEW a \in Nat, NEW n \in Nat, a + n <= Len(s)
  PROVE  /\ SubSeq(s, a + 1, a + n) \in Seq(S) /\ Len(SubSeq(s, a + 1, a + n)) = n
         /\ \A i \in 1 .. n : SubSeq(s, a + 1, a + n)[i] = s[a + i]
<1>1. a + 1 \in Int /\ a + n \in Int /\ (\A i \in a + 1 .. a + n : s[i] \in S)
  BY Len(s) \in Nat
<1>2. (a + n) - (a + 1) + 1 = n /\ (\A i \in 1 .. n : (a + 1) + i - 1 = a + i)
  OBVIOUS
<1> QED BY <1>1, <1>2, SubSeqProperties

(* Sizes are counted in entries, windows and blocks: quotient and          *)
(* remainder.                                                              *)
LEMMA DivMod ==
  ASSUME NEW a \in Nat, NEW b \in Nat \ {0}
  PROVE  a \div b \in Nat /\ a % b \in 0 .. b - 1 /\ a = b * (a \div b) + (a % b)
OBVIOUS

-----------------------------------------------------------------------------
(* Max and Min of FiniteSetsExt choose a member of a set of positions, of  *)
(* lengths or of distances.                                                *)
LEMMA MaxOf ==
  ASSUME NEW S \in SUBSET Nat, S # {}, NEW n \in Nat, \A k \in S : k <= n
  PROVE  Max(S) \in S /\ \A k \in S : k <= Max(S)
<1>1. \E m \in S : \A k \in S : k <= m
  BY NatMax
<1>2. \E m \in S : \A k \in S : m >= k
  BY <1>1
<1>3. Max(S) \in S /\ \A k \in S : Max(S) >= k
  BY <1>2, Zenon DEF Max
<1> QED BY <1>3

(* Min, too. *)
LEMMA MinOf ==
  ASSUME NEW S \in SUBSET Nat, S # {}
  PROVE  Min(S) \in S /\ \A k \in S : Min(S) <= k
<1>1. \E m \in S : \A k \in S : m <= k
  BY NatMin
<1> QED BY <1>1, Zenon DEF Min

-----------------------------------------------------------------------------
(* The sizes of the format are numbers. *)
LEMMA Format ==
  /\ TopCode = 3 /\ Base = 8 /\ SizeMax = 127 /\ MaxBytes = 3 /\ Bytes = 0 .. 15 /\ Wild = -1
  /\ MinMatch \in Nat \ {0} /\ MaxMatch \in Nat
BY LzbAssumption DEF TopCode, Base, SizeMax, MaxBytes, Bytes, Wild

(* put_varint writes bytes. *)
LEMMA VarintBytes ==
  ASSUME NEW v \in 0 .. SizeMax
  PROVE  Varint(v) \in Seq(Bytes) /\ Len(Varint(v)) \in 1 .. 3
<1> USE Format
<1>1. CASE v < Base
  <2>1. Varint(v) = <<v>>
    BY <1>1 DEF Varint
  <2>2. v \in Bytes
    BY <1>1
  <2> QED BY <2>1, <2>2
<1>2. CASE v \in Base .. Base * Base - 1
  <2>1. Varint(v) = <<Base + (v % Base), v \div Base>>
    BY <1>2 DEF Varint
  <2>2. Base + (v % Base) \in Bytes /\ v \div Base \in Bytes
    BY <1>2
  <2> QED BY <2>1, <2>2
<1>3. CASE v >= Base * Base
  <2>1. Varint(v) = <<Base + (v % Base), Base + ((v \div Base) % Base), v \div (Base * Base)>>
    BY <1>3 DEF Varint
  <2>2. Base + (v % Base) \in Bytes /\ Base + ((v \div Base) % Base) \in Bytes /\ v \div (Base * Base) \in Bytes
    BY <1>3
  <2> QED BY <2>1, <2>2
<1> QED BY <1>1, <1>2, <1>3

(* get_varint reads no further than the end, and gives a size.             *)
LEMMA GetVarintInside ==
  ASSUME NEW s \in Seq(Nat), NEW i \in Nat, GetVarint(s, i).ok
  PROVE  GetVarint(s, i).next \in i + 1 .. Len(s) /\ GetVarint(s, i).v \in 0 .. SizeMax
<1> DEFINE ends == { k \in 0 .. MaxBytes - 1 : i + k < Len(s) /\ At(s, i + k) < Base }
           last == CHOOSE k \in ends : \A j \in ends : k <= j
           digit(k) == IF k <= last THEN At(s, i + k) % Base ELSE 0
           sum == digit(0) + Base * digit(1) + Base * Base * digit(2)
<1> USE Format
<1>1. GetVarint(s, i) = IF ends = {} THEN [ok |-> FALSE, next |-> i, v |-> 0]
                        ELSE [ok |-> TRUE, next |-> i + last + 1, v |-> sum % (SizeMax + 1)]
  BY Zenon DEF GetVarint
<1>2. ends # {}
  BY <1>1
<1>3. last \in ends
  <2>1. ends \in SUBSET Nat
    OBVIOUS
  <2>2. \E k \in ends : \A j \in ends : k <= j
    <3> HIDE DEF ends
    <3> QED BY <1>2, <2>1, NatMin
  <2> HIDE DEF ends
  <2> QED BY <2>2
<1>8. GetVarint(s, i).next = i + last + 1 /\ GetVarint(s, i).v = sum % (SizeMax + 1)
  BY <1>1, <1>2
<1>9. last \in 0 .. 2 /\ i + last < Len(s)
  BY <1>3
<1> HIDE DEF last
<1>5. ASSUME NEW k \in 0 .. 2 PROVE digit(k) \in 0 .. 7
  <2>1. CASE k <= last
    <3>1. i + k + 1 \in 1 .. Len(s)
      BY <1>9, <2>1
    <3>2. At(s, i + k) \in Nat
      BY <3>1 DEF At
    <3>3. \A b \in Nat : b % Base \in 0 .. 7
      OBVIOUS
    <3>4. At(s, i + k) % Base \in 0 .. 7
      BY <3>2, <3>3
    <3> QED BY <2>1, <3>4
  <2>2. CASE ~(k <= last)
    BY <2>2
  <2> QED BY <2>1, <2>2
<1>6. sum \in Nat
  <2> HIDE DEF digit
  <2>1. digit(0) \in 0 .. 7
    BY <1>5
  <2>2. digit(1) \in 0 .. 7
    BY <1>5
  <2>3. digit(2) \in 0 .. 7
    BY <1>5
  <2>4. \A a, b, c \in 0 .. 7 : a + Base * b + Base * Base * c \in Nat
    BY DEF Base
  <2> QED BY <2>1, <2>2, <2>3, <2>4, Zenon
<1> HIDE DEF sum
<1>7. sum % (SizeMax + 1) \in 0 .. SizeMax
  BY <1>6
<1>10. i + last + 1 \in i + 1 .. Len(s)
  BY <1>9
<1> QED BY <1>7, <1>8, <1>10

-----------------------------------------------------------------------------
(* The search for a match *)

(* match_len stops at a byte that differs, or at the limit.                *)
LEMMA MatchLenEqual ==
  ASSUME NEW a, NEW b, NEW i \in Nat, NEW j \in Nat, NEW limit \in Nat
  PROVE  /\ MatchLen(a, i, b, j, limit) \in 0 .. limit
         /\ \A k \in 0 .. MatchLen(a, i, b, j, limit) - 1 : At(a, i + k) = At(b, j + k)
<1> DEFINE D == { n \in 0 .. limit : n < limit => At(a, i + n) # At(b, j + n) }
           P(n) == /\ \A k \in 0 .. n - 1 : At(a, i + k) = At(b, j + k)
                   /\ n < limit => At(a, i + n) # At(b, j + n)
<1>1. PICK n \in D : \A k \in D : n <= k
  <2>1. D \in SUBSET Nat /\ limit \in D
    OBVIOUS
  <2> HIDE DEF D
  <2> QED BY <2>1, NatMin
<1>2. n \in 0 .. limit /\ (n < limit => At(a, i + n) # At(b, j + n))
  OBVIOUS
<1>3. ASSUME NEW k \in 0 .. n - 1 PROVE At(a, i + k) = At(b, j + k)
  <2>1. k \notin D
    BY <1>1, <1>2
  <2>2. k \in 0 .. limit
    BY <1>2
  <2> QED BY <2>1, <2>2
<1>4. P(n)
  BY <1>2, <1>3
<1>5. MatchLen(a, i, b, j, limit) = CHOOSE m \in 0 .. limit : P(m)
  BY Zenon DEF MatchLen
<1>6. P(MatchLen(a, i, b, j, limit)) /\ MatchLen(a, i, b, j, limit) \in 0 .. limit
  <2> HIDE DEF P
  <2> QED BY <1>2, <1>4, <1>5
<1> QED BY <1>6

(* The best match is one of those found, or the best there was before.     *)
LEMMA BetterOneOf ==
  ASSUME NEW matches \in SUBSET [len : Nat, dist : Nat], NEW best \in [len : Nat, dist : Nat],
         NEW limit \in Nat, \A m \in matches : m.len <= limit
  PROVE  Better(matches, best) \in matches \cup {best}
<1> DEFINE lens == { m.len : m \in matches }
           longest == Max(lens)
           dists == { m.dist : m \in { n \in matches : n.len = longest } }
<1>1. CASE matches = {} \/ longest <= best.len
  <2>1. Better(matches, best) = best
    BY <1>1, Zenon DEF Better
  <2> QED BY <2>1
<1>2. CASE ~(matches = {} \/ longest <= best.len)
  <2>1. Better(matches, best) = [len |-> longest, dist |-> Min(dists)]
    BY <1>2, Zenon DEF Better
  <2>2. longest \in lens
    <3>1. lens \in SUBSET Nat /\ lens # {} /\ \A k \in lens : k <= limit
      BY <1>2
    <3> HIDE DEF lens
    <3> QED BY <3>1, MaxOf
  <2>3. PICK o \in matches : o.len = longest
    BY <2>2
  <2> HIDE DEF longest
  <2>4. Min(dists) \in dists
    <3>1. dists \in SUBSET Nat /\ o.dist \in dists
      BY <2>3
    <3> HIDE DEF dists
    <3> QED BY <3>1, MinOf
  <2>5. PICK m \in matches : m.len = longest /\ m.dist = Min(dists)
    BY <2>4
  <2>6. m = [len |-> m.len, dist |-> m.dist]
    OBVIOUS
  <2> QED BY <2>1, <2>5, <2>6
<1> QED BY <1>1, <1>2

(* What emit_seq is given: the bytes at p of the block are those m.dist    *)
(* bytes before, in the block or, up to its end, in the dictionary.        *)
MatchOf(j, p, m) ==
  /\ m \in [len : Nat, dist : Nat]
  /\ m.len <= Len(j.src) - p
  /\ \/ /\ m.dist \in 1 .. p
        /\ \A k \in 0 .. m.len - 1 : At(j.src, p + k) = At(j.src, p - m.dist + k)
     \/ /\ m.dist - p \in 1 .. Len(j.dict)
        /\ m.len <= m.dist - p
        /\ \A k \in 0 .. m.len - 1 :
             At(j.src, p + k) = At(j.dict, Len(j.dict) - (m.dist - p) + k)

MatchAt(p, m) == MatchOf(job, p, m)

(* A job has bytes, in sizes that add up to one, and room for them.        *)
LEMMA JobSizes ==
  ASSUME job \in Jobs
  PROVE  /\ job.src \in Seq(Bytes) /\ job.dict \in Seq(Bytes)
         /\ Len(job.src) \in Nat /\ Len(job.dict) \in Nat
         /\ Len(job.src) + Len(job.dict) <= SizeMax
         /\ job.depth \in Nat /\ job.room \in Nat /\ job.cap \in Nat
         /\ job.kind = "block" => job.cap = Len(job.src) /\ job.src # <<>>
<1>1. /\ job.src \in Seq(Bytes) /\ job.dict \in Seq(Bytes)
      /\ Len(job.src) + Len(job.dict) <= SizeMax
      /\ {job.depth, job.room, job.cap} \subseteq Nat
      /\ job.kind = "block" => job.cap = Len(job.src) /\ job.src # <<>>
  BY JobsAssumption, Zenon
<1>2. job.depth \in Nat /\ job.room \in Nat /\ job.cap \in Nat
  BY <1>1, Zenon
<1>3. Len(job.src) \in Nat /\ Len(job.dict) \in Nat
  BY <1>1
<1> QED BY <1>1, <1>2, <1>3, Zenon

(* Every candidate of the block is a match of its length. *)
LEMMA OwnMatchAt ==
  ASSUME job \in Jobs, NEW p \in Positions, NEW limit \in 0 .. Len(job.src) - p, NEW q \in 0 .. p - 1
  PROVE  MatchAt(p, OwnMatch(q, p, limit)) /\ OwnMatch(q, p, limit).len <= limit
<1> DEFINE n == MatchLen(job.src, q, job.src, p, limit)
           m == OwnMatch(q, p, limit)
<1>1. p \in Nat /\ q \in Nat /\ limit \in Nat /\ Len(job.src) \in Nat
  BY JobSizes DEF Positions
<1>2. n \in 0 .. limit /\ \A k \in 0 .. n - 1 : At(job.src, q + k) = At(job.src, p + k)
  BY <1>1, MatchLenEqual
<1>3. m = [len |-> n, dist |-> p - q]
  BY DEF OwnMatch
<1> HIDE DEF n, m
<1>4. m \in [len : Nat, dist : Nat] /\ m.len = n /\ m.dist = p - q
  BY <1>1, <1>2, <1>3
<1>5. p - m.dist = q
  BY <1>1, <1>4
<1>6. m.dist \in 1 .. p /\ \A k \in 0 .. m.len - 1 : At(job.src, p + k) = At(job.src, p - m.dist + k)
  BY <1>1, <1>2, <1>4, <1>5
<1>7. m.len <= Len(job.src) - p
  BY <1>1, <1>2, <1>4
<1>8. MatchAt(p, m) /\ m.len <= limit
  BY <1>1, <1>2, <1>4, <1>6, <1>7 DEF MatchAt, MatchOf
<1> QED BY <1>8 DEF m

(* And every candidate of the dictionary. *)
LEMMA DictMatchAt ==
  ASSUME job \in Jobs, NEW p \in Positions, NEW limit \in 0 .. Len(job.src) - p,
         NEW q \in 0 .. Len(job.dict) - MinMatch
  PROVE  MatchAt(p, DictMatch(q, p, limit)) /\ DictMatch(q, p, limit).len <= limit
<1> DEFINE most == Least(limit, Len(job.dict) - q)
           n == MatchLen(job.dict, q, job.src, p, most)
           m == DictMatch(q, p, limit)
<1>1. p \in Nat /\ q \in Nat /\ limit \in Nat /\ Len(job.src) \in Nat /\ Len(job.dict) - q \in 1 .. Len(job.dict)
  BY JobSizes, Format DEF Positions
<1>2. most \in Nat /\ most <= limit /\ most <= Len(job.dict) - q
  BY <1>1 DEF Least
<1> HIDE DEF most
<1>3. n \in 0 .. most /\ \A k \in 0 .. n - 1 : At(job.dict, q + k) = At(job.src, p + k)
  BY SMTT(30), <1>1, <1>2, MatchLenEqual
<1>4. m = [len |-> n, dist |-> p + (Len(job.dict) - q)]
  BY DEF DictMatch, most
<1> HIDE DEF n, m
<1>5. m \in [len : Nat, dist : Nat] /\ m.len = n /\ m.dist = p + (Len(job.dict) - q)
  BY <1>1, <1>3, <1>4, <1>2
<1>6. m.dist - p = Len(job.dict) - q /\ Len(job.dict) - (m.dist - p) = q
  BY <1>1, <1>5
<1>7. \A k \in 0 .. m.len - 1 : At(job.src, p + k) = At(job.dict, Len(job.dict) - (m.dist - p) + k)
  BY <1>3, <1>5, <1>6
<1>8. m.len <= Len(job.src) - p /\ m.len <= m.dist - p /\ m.dist - p \in 1 .. Len(job.dict) /\ m.len <= limit
  <2>1. n \in 0 .. most
    BY <1>3
  <2>2. n <= limit /\ n <= Len(job.dict) - q
    BY <2>1, <1>2, <1>1
  <2>3. limit <= Len(job.src) - p
    OBVIOUS
  <2> QED BY SMTT(30), <1>1, <2>2, <2>3, <1>5, <1>6
<1>9. MatchAt(p, m) /\ m.len <= limit
  BY <1>5, <1>7, <1>8 DEF MatchAt, MatchOf
<1> QED BY <1>9 DEF m

(* find_match finds a match that is long enough, or none. *)
LEMMA FindMatchSound ==
  ASSUME job \in Jobs, NEW p \in Positions, NEW hd, NEW ch
  PROVE  \/ FindMatch(hd, ch, p) = NoMatch
         \/ MatchAt(p, FindMatch(hd, ch, p)) /\ FindMatch(hd, ch, p).len >= MinMatch
<1> DEFINE limit == Least(Len(job.src) - p, MaxMatch)
           h == Hash(job.src, p)
           owns == { OwnMatch(q, p, limit) : q \in Candidates(ch, hd[h], p, job.depth) }
           own == Better(owns, NoMatch)
           dicts == { DictMatch(q, p, limit) : q \in DictChain(h, job.depth) }
           both == IF Len(job.dict) >= MinMatch /\ own.len < limit THEN Better(dicts, own) ELSE own
           M == [len : Nat, dist : Nat]
<1>1. FindMatch(hd, ch, p) = IF limit < MinMatch \/ both.len < MinMatch THEN NoMatch ELSE both
  BY Zenon DEF FindMatch
<1>2. limit \in 0 .. Len(job.src) - p
  BY JobSizes, Format DEF Least, Positions
<1> HIDE DEF limit, h
<1>3. \A m \in owns : m \in M /\ m.len <= limit /\ MatchAt(p, m)
  <2> SUFFICES ASSUME NEW q \in Candidates(ch, hd[h], p, job.depth)
               PROVE  LET m == OwnMatch(q, p, limit) IN m \in M /\ m.len <= limit /\ MatchAt(p, m)
    OBVIOUS
  <2>1. q \in 0 .. p - 1
    BY Zenon DEF Candidates
  <2>2. MatchAt(p, OwnMatch(q, p, limit)) /\ OwnMatch(q, p, limit).len <= limit
    BY <1>2, <2>1, OwnMatchAt
  <2> QED BY <2>2 DEF MatchAt, MatchOf
<1>4. \A m \in dicts : m \in M /\ m.len <= limit /\ MatchAt(p, m)
  <2> SUFFICES ASSUME NEW q \in DictChain(h, job.depth)
               PROVE  LET m == DictMatch(q, p, limit) IN m \in M /\ m.len <= limit /\ MatchAt(p, m)
    OBVIOUS
  <2>1. q \in 0 .. Len(job.dict) - MinMatch
    BY Zenon DEF DictChain
  <2>2. MatchAt(p, DictMatch(q, p, limit)) /\ DictMatch(q, p, limit).len <= limit
    BY <1>2, <2>1, DictMatchAt
  <2> QED BY <2>2 DEF MatchAt, MatchOf
<1>5. NoMatch \in M /\ limit \in Nat
  BY <1>2 DEF NoMatch
<1> HIDE DEF owns, dicts
<1>6. own \in owns \cup {NoMatch}
  BY <1>3, <1>5, BetterOneOf
<1> HIDE DEF own
<1>7. own \in M
  BY <1>3, <1>5, <1>6
<1>8. Better(dicts, own) \in dicts \cup {own}
  BY <1>4, <1>5, <1>7, BetterOneOf
<1>9. both \in dicts \cup owns \cup {NoMatch}
  BY <1>6, <1>8
<1> HIDE DEF both, M
<1>10. CASE limit < MinMatch \/ both.len < MinMatch
  BY <1>1, <1>10
<1>11. CASE ~(limit < MinMatch \/ both.len < MinMatch)
  <2>1. FindMatch(hd, ch, p) = both
    BY <1>1, <1>11
  <2>2. both # NoMatch
    BY <1>11, Format DEF NoMatch
  <2>3. MatchAt(p, both)
    BY <1>3, <1>4, <1>9, <2>2
  <2>4. both.len \in Nat
    BY <2>3 DEF MatchAt, MatchOf
  <2>5. both.len >= MinMatch
    BY <1>11, <2>4, Format
  <2> QED BY <2>1, <2>3, <2>5
<1> QED BY <1>10, <1>11

-----------------------------------------------------------------------------
(* What a decompressor writes *)

(* A copy inside dst takes bytes that are there. *)
LEMMA CopyWithinInside ==
  ASSUME NEW out \in Seq(Nat), NEW dist \in 1 .. Len(out), NEW n \in Nat
  PROVE  /\ CopyWithin(out, dist, n) \in Seq(Nat) /\ Len(CopyWithin(out, dist, n)) = Len(out) + n
         /\ \A i \in 1 .. Len(out) : CopyWithin(out, dist, n)[i] = out[i]
         /\ \A i \in 1 .. n : CopyWithin(out, dist, n)[Len(out) + i] = out[Len(out) - dist + ((i - 1) % dist) + 1]
<1> DEFINE new == [i \in 1 .. n |-> Fetch(out, Len(out) - dist + ((i - 1) % dist))]
<1>1. Len(out) \in Nat /\ dist \in Nat \ {0}
  OBVIOUS
<1>2. ASSUME NEW i \in 1 .. n
      PROVE  new[i] = out[Len(out) - dist + ((i - 1) % dist) + 1] /\ new[i] \in Nat
  <2>1. (i - 1) % dist \in 0 .. dist - 1
    <3>1. i - 1 \in Nat
      OBVIOUS
    <3> QED BY <1>1, <3>1, DivMod
  <2>2. PICK r \in 0 .. dist - 1 : r = (i - 1) % dist
    BY <2>1
  <2>3. Len(out) - dist + r \in 0 .. Len(out) - 1 /\ Len(out) - dist + r + 1 \in 1 .. Len(out)
    BY <1>1
  <2>4. Fetch(out, Len(out) - dist + r) = out[Len(out) - dist + r + 1]
    BY <2>3 DEF Fetch, At
  <2>5. out[Len(out) - dist + r + 1] \in Nat
    BY <2>3
  <2>6. new[i] = Fetch(out, Len(out) - dist + r)
    BY <2>2
  <2> QED BY <2>2, <2>4, <2>5, <2>6
<1>3. CopyWithin(out, dist, n) = out \o new
  BY DEF CopyWithin
<1>4. new \in Seq(Nat) /\ Len(new) = n
  BY <1>2
<1> HIDE DEF new
<1>5. /\ out \o new \in Seq(Nat) /\ Len(out \o new) = Len(out) + n
      /\ \A i \in 1 .. Len(out) + n : (out \o new)[i] = IF i <= Len(out) THEN out[i] ELSE new[i - Len(out)]
  BY <1>4, ConcatProperties
<1>6. ASSUME NEW i \in 1 .. n PROVE (out \o new)[Len(out) + i] = new[i]
  <2>1. Len(out) + i \in 1 .. Len(out) + n /\ ~(Len(out) + i <= Len(out)) /\ (Len(out) + i) - Len(out) = i
    BY <1>1
  <2> QED BY <1>5, <2>1
<1>7. \A i \in 1 .. Len(out) : (out \o new)[i] = out[i]
  BY <1>1, <1>5
<1> QED BY <1>2, <1>3, <1>5, <1>6, <1>7

(* The bytes of the dictionary that a match begins with. *)
LEMMA FromDictInside ==
  ASSUME job.dict \in Seq(Nat), NEW back \in 1 .. Len(job.dict), NEW k \in Nat, k <= back
  PROVE  /\ FromDict(back, k) \in Seq(Nat) /\ Len(FromDict(back, k)) = k
         /\ \A i \in 1 .. k : FromDict(back, k)[i] = job.dict[Len(job.dict) - back + i]
<1> DEFINE new == [i \in 1 .. k |-> Fetch(job.dict, Len(job.dict) - back + i - 1)]
<1>1. ASSUME NEW i \in 1 .. k PROVE new[i] = job.dict[Len(job.dict) - back + i] /\ new[i] \in Nat
  <2>1. Len(job.dict) - back + i - 1 \in 0 .. Len(job.dict) - 1
        /\ Len(job.dict) - back + i \in 1 .. Len(job.dict)
        /\ (Len(job.dict) - back + i - 1) + 1 = Len(job.dict) - back + i
    OBVIOUS
  <2>2. Fetch(job.dict, Len(job.dict) - back + i - 1) = job.dict[Len(job.dict) - back + i]
    BY <2>1 DEF Fetch, At
  <2> QED BY <2>1, <2>2
<1>2. new \in Seq(Nat) /\ Len(new) = k
  <2>1. \A i \in 1 .. k : Fetch(job.dict, Len(job.dict) - back + i - 1) \in Nat
    BY <1>1
  <2>2. k \in Nat
    OBVIOUS
  <2> QED BY ONLY <2>1, <2>2
<1>3. FromDict(back, k) = new
  BY DEF FromDict
<1> HIDE DEF new
<1> QED BY <1>1, <1>2, <1>3

(* The copy of a match whose distance has been checked writes n bytes, all *)
(* from the dictionary or from dst.                                        *)
LEMMA CopyMatchInside ==
  ASSUME NEW out \in Seq(Nat), NEW dist \in 1 .. Len(out) + Len(job.dict), NEW n \in Nat \ {0},
         job.dict \in Seq(Nat)
  PROVE  CopyMatch(out, dist, n) \in Seq(Nat) /\ Len(CopyMatch(out, dist, n)) = Len(out) + n
<1>1. Len(out) \in Nat /\ Len(job.dict) \in Nat
  OBVIOUS
<1>2. CASE dist <= Len(out)
  <2>1. CopyMatch(out, dist, n) = CopyWithin(out, dist, n)
    BY <1>2 DEF CopyMatch
  <2> QED BY <1>1, <1>2, <2>1, CopyWithinInside
<1>3. CASE ~(dist <= Len(out))
  <2> DEFINE back == dist - Len(out)
             k == Least(back, n)
             more == out \o FromDict(back, k)
  <2>1. CopyMatch(out, dist, n) = CopyWithin(more, Len(more), n - k)
    BY <1>3 DEF CopyMatch
  <2>2. back \in 1 .. Len(job.dict) /\ k \in Nat /\ k \in 1 .. n /\ k <= back
    BY <1>1, <1>3 DEF Least
  <2> HIDE DEF back, k
  <2>3. FromDict(back, k) \in Seq(Nat) /\ Len(FromDict(back, k)) = k
    BY <2>2, FromDictInside
  <2>4. more \in Seq(Nat) /\ Len(more) = Len(out) + k
    BY <2>3, ConcatProperties
  <2> HIDE DEF more
  <2>5. Len(more) \in 1 .. Len(more) /\ n - k \in Nat
    BY <1>1, <2>2, <2>4
  <2>6. CopyWithin(more, Len(more), n - k) \in Seq(Nat)
        /\ Len(CopyWithin(more, Len(more), n - k)) = Len(more) + (n - k)
    BY <2>4, <2>5, CopyWithinInside
  <2>7. Len(more) + (n - k) = Len(out) + n
    BY <1>1, <2>2, <2>4
  <2> QED BY <2>1, <2>6, <2>7
<1> QED BY <1>2, <1>3

(* One sequence, whatever its bytes are: what it writes fits.              *)
LEMMA DecodeMatchInside ==
  ASSUME NEW s \in Seq(Nat), NEW i \in Nat, NEW out \in Seq(Nat), NEW code \in 1 .. TopCode,
         job.dict \in Seq(Nat), job.cap \in Nat, Len(out) <= job.cap
  PROVE  LET t == DecodeMatch(s, i, out, code) IN
         t.ip \in Nat /\ t.dst \in Seq(Nat) /\ Len(t.dst) <= job.cap
<1> DEFINE d == GetVarint(s, i)
           e == IF code = TopCode THEN GetVarint(s, d.next)
                ELSE [ok |-> TRUE, next |-> d.next, v |-> 0]
           n == code - 1 + MinMatch + e.v
           bad == \/ ~d.ok \/ d.v = 0
                  \/ ~e.ok \/ e.v > SizeMax - (code - 1 + MinMatch)
                  \/ TooFar(d.v, out)
           t == DecodeMatch(s, i, out, code)
<1>1. t = IF bad THEN Turn(ErrCorruptBlock, i, out, TRUE)
          ELSE IF n > job.cap - Len(out) THEN Turn(ErrDstTooSmall, i, out, TRUE)
          ELSE Turn(OK, e.next, CopyMatch(out, d.v, n), e.next = Len(s))
  BY Zenon DEF DecodeMatch
<1> HIDE DEF d, e, n, bad, t
<1>3. CASE bad \/ n > job.cap - Len(out)
  <2>1. t.ip = i /\ t.dst = out
    <3>1. t = Turn(ErrCorruptBlock, i, out, TRUE) \/ t = Turn(ErrDstTooSmall, i, out, TRUE)
      BY <1>1, <1>3, Zenon
    <3> QED BY <3>1 DEF Turn
  <2>2. t.ip \in Nat /\ t.dst \in Seq(Nat) /\ Len(t.dst) <= job.cap
    BY <2>1
  <2> QED BY <2>2 DEF t, n, e, d
<1>4. CASE ~(bad \/ n > job.cap - Len(out))
  <2>1. t.ip = e.next /\ t.dst = CopyMatch(out, d.v, n)
    <3>1. t = Turn(OK, e.next, CopyMatch(out, d.v, n), e.next = Len(s))
      BY <1>1, <1>4, Zenon
    <3> QED BY <3>1 DEF Turn
  <2>2. d.ok /\ d.v # 0 /\ e.ok /\ ~TooFar(d.v, out)
    BY <1>4 DEF bad
  <2>3. d.next \in Nat /\ d.v \in 0 .. SizeMax
    BY <2>2, GetVarintInside DEF d
  <2>4. e.next \in Nat /\ e.v \in Nat
    <3>1. CASE code = TopCode
      <4>1. e = GetVarint(s, d.next)
        BY <3>1 DEF e
      <4>2. e.next \in d.next + 1 .. Len(s) /\ e.v \in 0 .. SizeMax
        BY <2>2, <2>3, <4>1, GetVarintInside
      <4> QED BY <2>3, <4>2
    <3>2. CASE code # TopCode
      BY <2>3, <3>2 DEF e
    <3> QED BY <3>1, <3>2
  <2>5. n \in Nat \ {0} /\ n <= job.cap - Len(out)
    <3>1. n \in Nat \ {0}
      BY <2>4, Format DEF n
    <3>2. Len(out) \in Nat
      OBVIOUS
    <3> QED BY <1>4, <3>1, <3>2
  <2>6. d.v \in 1 .. Len(out) + Len(job.dict)
    <3>1. Len(out) \in Nat /\ Len(job.dict) \in Nat /\ d.v \in Nat
      BY <2>3
    <3> QED BY <2>2, <3>1 DEF TooFar
  <2>7. CopyMatch(out, d.v, n) \in Seq(Nat) /\ Len(CopyMatch(out, d.v, n)) = Len(out) + n
    BY <2>5, <2>6, CopyMatchInside
  <2>8. t.ip \in Nat /\ t.dst \in Seq(Nat) /\ Len(t.dst) <= job.cap
    BY <2>1, <2>4, <2>5, <2>7
  <2> QED BY <2>8 DEF t, n, e, d
<1> QED BY <1>3, <1>4

(* A sequence, whatever it is. *)
LEMMA DecodeSeqInside ==
  ASSUME NEW s \in Seq(Nat), NEW i \in 0 .. Len(s) - 1, NEW out \in Seq(Nat),
         job.dict \in Seq(Nat), job.cap \in Nat, Len(out) <= job.cap
  PROVE  LET t == DecodeSeq(s, i, out) IN
         t.ip \in Nat /\ t.dst \in Seq(Nat) /\ Len(t.dst) <= job.cap
<1> DEFINE code == At(s, i) \div (TopCode + 1)
           e == IF code = TopCode THEN GetVarint(s, i + 1)
                ELSE [ok |-> TRUE, next |-> i + 1, v |-> 0]
           n == code + e.v
           lits == out \o SubSeq(s, e.next + 1, e.next + n)
           mat == At(s, i) % (TopCode + 1)
           bad == ~e.ok \/ e.v > SizeMax - TopCode \/ n > Len(s) - e.next
           t == DecodeSeq(s, i, out)
<1>1. t = IF bad THEN Turn(ErrCorruptBlock, i, out, TRUE)
          ELSE IF n > job.cap - Len(out) THEN Turn(ErrDstTooSmall, i, out, TRUE)
          ELSE IF mat = 0 THEN Turn(OK, e.next + n, lits, TRUE)
          ELSE DecodeMatch(s, e.next + n, lits, mat)
  BY Zenon DEF DecodeSeq
<1> HIDE DEF e, n, lits, bad, t
<1>3. code \in Nat /\ mat \in 0 .. TopCode
  <2>1. At(s, i) \in Nat
    BY DEF At
  <2>2. \A b \in Nat : b \div (TopCode + 1) \in Nat /\ b % (TopCode + 1) \in 0 .. TopCode
    BY DEF TopCode
  <2> QED BY <2>1, <2>2
<1> HIDE DEF code, mat
<1>4. CASE bad \/ n > job.cap - Len(out)
  <2>1. t.ip = i /\ t.dst = out
    <3>1. t = Turn(ErrCorruptBlock, i, out, TRUE) \/ t = Turn(ErrDstTooSmall, i, out, TRUE)
      BY <1>1, <1>4, Zenon
    <3> QED BY <3>1 DEF Turn
  <2>2. t.ip \in Nat /\ t.dst \in Seq(Nat) /\ Len(t.dst) <= job.cap
    BY <2>1
  <2> QED BY <2>2 DEF t
<1>5. CASE ~(bad \/ n > job.cap - Len(out))
  <2>1. e.ok
    BY <1>5 DEF bad
  <2>2. e.next \in Nat /\ e.v \in Nat
    <3>1. CASE code = TopCode
      <4>1. e = GetVarint(s, i + 1)
        BY <3>1 DEF e
      <4>2. e.next \in i + 2 .. Len(s) /\ e.v \in 0 .. SizeMax
        BY <2>1, <4>1, GetVarintInside
      <4> QED BY <4>2
    <3>2. CASE code # TopCode
      BY <3>2 DEF e
    <3> QED BY <3>1, <3>2
  <2>3. n \in Nat /\ n <= job.cap - Len(out) /\ e.next + n <= Len(s)
    <3>1. n \in Nat
      BY <1>3, <2>2 DEF n
    <3>2. Len(out) \in Nat /\ Len(s) \in Nat
      OBVIOUS
    <3>3. ~(n > Len(s) - e.next)
      BY <1>5 DEF bad
    <3> QED BY SMTT(30), <1>5, <2>2, <3>1, <3>2, <3>3
  <2>4. SubSeq(s, e.next + 1, e.next + n) \in Seq(Nat) /\ Len(SubSeq(s, e.next + 1, e.next + n)) = n
    <3>1. \A a, m \in Nat : a + m <= Len(s) =>
            SubSeq(s, a + 1, a + m) \in Seq(Nat) /\ Len(SubSeq(s, a + 1, a + m)) = m
      BY Slice
    <3> QED BY <2>2, <2>3, <3>1, Zenon
  <2>5. lits \in Seq(Nat) /\ Len(lits) = Len(out) + n
    BY <2>4, ConcatProperties DEF lits
  <2>6. Len(lits) <= job.cap
    BY <2>3, <2>5
  <2>7. CASE mat = 0
    <3>1. t.ip = e.next + n /\ t.dst = lits
      <4>1. t = Turn(OK, e.next + n, lits, TRUE)
        BY <1>1, <1>5, <2>7, Zenon
      <4> QED BY <4>1 DEF Turn
    <3>2. t.ip \in Nat /\ t.dst \in Seq(Nat) /\ Len(t.dst) <= job.cap
      BY SMTT(30), <2>2, <2>3, <2>5, <2>6, <3>1
    <3> QED BY <3>2 DEF t
  <2>8. CASE mat # 0
    <3>1. t = DecodeMatch(s, e.next + n, lits, mat)
      BY <1>1, <1>5, <2>8
    <3>2. mat \in 1 .. TopCode /\ e.next + n \in Nat
      BY <1>3, <2>2, <2>3, <2>8, Format
    <3> QED BY <2>5, <2>6, <3>1, <3>2, DecodeMatchInside DEF t
  <2> QED BY <2>7, <2>8
<1> QED BY <1>4, <1>5

-----------------------------------------------------------------------------
(* What the compressor writes *)

(* What emit_seq may be given: sizes. *)
Emits(lits, m) ==
  /\ lits \in Seq(Bytes) /\ Len(lits) <= SizeMax
  /\ m = NoMatch \/ (m.len \in MinMatch .. SizeMax /\ m.dist \in 1 .. SizeMax)

(* The parts of a sequence. *)
Lit(lits) == Least(Len(lits), TopCode)
Mat(m) == IF m.len = 0 THEN 0 ELSE Least(m.len - MinMatch, TopCode - 1) + 1
LitExt(lits) == IF Lit(lits) = TopCode THEN Varint(Len(lits) - TopCode) ELSE <<>>
DistBytes(m) == IF m.len = 0 THEN <<>> ELSE Varint(m.dist)
MatExt(m) == IF Mat(m) = TopCode THEN Varint(m.len - MinMatch - (TopCode - 1)) ELSE <<>>

(* emit_seq writes the parts one after the other. *)
LEMMA SeqBytesParts ==
  ASSUME NEW lits, NEW m
  PROVE  SeqBytes(lits, m) = <<Lit(lits) * (TopCode + 1) + Mat(m)>> \o LitExt(lits) \o lits \o DistBytes(m) \o MatExt(m)
BY Zenon DEF SeqBytes, Lit, Mat, LitExt, DistBytes, MatExt

(* The parts of a sequence are bytes. *)
LEMMA PartsBytes ==
  ASSUME NEW lits, NEW m, Emits(lits, m)
  PROVE  /\ Lit(lits) \in 0 .. TopCode /\ Mat(m) \in 0 .. TopCode
         /\ Lit(lits) * (TopCode + 1) + Mat(m) \in Bytes
         /\ LitExt(lits) \in Seq(Bytes) /\ DistBytes(m) \in Seq(Bytes) /\ MatExt(m) \in Seq(Bytes)
<1>1. lits \in Seq(Bytes) /\ Len(lits) \in 0 .. SizeMax
  <2>1. lits \in Seq(Bytes) /\ Len(lits) <= SizeMax
    BY DEF Emits
  <2>2. Len(lits) \in Nat
    BY <2>1
  <2>3. \A n \in Nat : n <= SizeMax => n \in 0 .. SizeMax
    BY DEF SizeMax
  <2> QED BY <2>1, <2>2, <2>3, Zenon
<1>2. Lit(lits) \in 0 .. TopCode /\ (Lit(lits) = TopCode => Len(lits) - TopCode \in 0 .. SizeMax)
  <2>1. PICK n \in 0 .. SizeMax : n = Len(lits)
    BY <1>1, Zenon
  <2>2. Lit(lits) = Least(n, TopCode)
    BY <2>1 DEF Lit
  <2>3. n \in 0 .. 127
    BY DEF SizeMax
  <2>4. Lit(lits) \in 0 .. 3
    BY <2>2, <2>3 DEF Least, TopCode
  <2>5. Lit(lits) = 3 => n - 3 \in 0 .. 127
    BY <2>2, <2>3 DEF Least, TopCode
  <2> QED BY <2>1, <2>4, <2>5 DEF TopCode, SizeMax
<1>3. LitExt(lits) \in Seq(Bytes)
  BY <1>2, VarintBytes DEF LitExt
<1>4. CASE m = NoMatch
  <2>1. m.len = 0
    BY <1>4 DEF NoMatch
  <2>2. Mat(m) = 0 /\ DistBytes(m) = <<>>
    BY <2>1 DEF Mat, DistBytes
  <2>3. MatExt(m) = <<>>
    BY <2>2, Format DEF MatExt
  <2>4. Lit(lits) * (TopCode + 1) + Mat(m) \in Bytes
    BY <1>2, <2>2, Format
  <2> QED BY <1>2, <1>3, <2>2, <2>3, <2>4, Format
<1>5. CASE m # NoMatch
  <2>1. m.len \in MinMatch .. SizeMax /\ m.dist \in 0 .. SizeMax /\ m.len # 0
    BY <1>5, Format DEF Emits
  <2>2. Mat(m) \in 1 .. TopCode /\ (Mat(m) = TopCode => m.len - MinMatch - (TopCode - 1) \in 0 .. SizeMax)
    BY <2>1, Format DEF Mat, Least
  <2>3. DistBytes(m) \in Seq(Bytes) /\ MatExt(m) \in Seq(Bytes)
    BY <2>1, <2>2, VarintBytes DEF DistBytes, MatExt
  <2>4. Lit(lits) * (TopCode + 1) + Mat(m) \in Bytes
    BY <1>2, <2>2, Format
  <2> QED BY <1>2, <1>3, <2>2, <2>3, <2>4, Format
<1> QED BY <1>4, <1>5

(* So is all of it. *)
LEMMA SeqBytesBytes ==
  ASSUME NEW lits, NEW m, Emits(lits, m)
  PROVE  SeqBytes(lits, m) \in Seq(Bytes)
<1>1. <<Lit(lits) * (TopCode + 1) + Mat(m)>> \in Seq(Bytes)
  BY PartsBytes
<1>2. lits \in Seq(Bytes)
  BY DEF Emits
<1>3. \A x, y \in Seq(Bytes) : x \o y \in Seq(Bytes)
  OBVIOUS
<1>4. SeqBytes(lits, m) = <<Lit(lits) * (TopCode + 1) + Mat(m)>> \o LitExt(lits) \o lits \o DistBytes(m) \o MatExt(m)
  BY SeqBytesParts
<1>5. LitExt(lits) \in Seq(Bytes) /\ DistBytes(m) \in Seq(Bytes) /\ MatExt(m) \in Seq(Bytes)
  BY PartsBytes
<1>6. <<Lit(lits) * (TopCode + 1) + Mat(m)>> \o LitExt(lits) \in Seq(Bytes)
  BY <1>1, <1>3, <1>5, Zenon
<1>7. <<Lit(lits) * (TopCode + 1) + Mat(m)>> \o LitExt(lits) \o lits \in Seq(Bytes)
  BY <1>2, <1>3, <1>6, Zenon
<1>8. <<Lit(lits) * (TopCode + 1) + Mat(m)>> \o LitExt(lits) \o lits \o DistBytes(m) \in Seq(Bytes)
  BY <1>5, <1>3, <1>7, Zenon
<1>9. <<Lit(lits) * (TopCode + 1) + Mat(m)>> \o LitExt(lits) \o lits \o DistBytes(m) \o MatExt(m) \in Seq(Bytes)
  BY <1>5, <1>3, <1>8, Zenon
<1> QED BY <1>4, <1>9, Zenon

-----------------------------------------------------------------------------
(* The decompressor stays in its buffers *)

(* What the actions keep: the bytes between the codecs are bytes, the      *)
(* compressor stays in the block, the decompressor in its buffer.          *)
CodecInv ==
  /\ job \in Jobs
  /\ anchor \in Nat /\ pos \in Nat /\ anchor <= pos /\ pos <= Len(job.src)
  /\ packed \in Seq(Nat) /\ ip \in Nat
  /\ dst \in Seq(Nat) /\ Len(dst) <= job.cap

(* Bytes are numbers. *)
LEMMA BytesAreNat ==
  ASSUME NEW s \in Seq(Bytes)
  PROVE  s \in Seq(Nat)
<1>1. s = [i \in 1 .. Len(s) |-> s[i]] /\ Len(s) \in Nat /\ \A i \in 1 .. Len(s) : s[i] \in Bytes
  OBVIOUS
<1>2. \A i \in 1 .. Len(s) : s[i] \in Nat
  BY SMTT(30), <1>1, Format
<1> QED BY <1>1, <1>2

(* The job is one of the jobs, and nothing is written yet. *)
LEMMA InitCodec == Init => CodecInv
<1> SUFFICES ASSUME Init PROVE CodecInv
  OBVIOUS
<1>1. job \in Jobs /\ pos = 0 /\ anchor = 0 /\ ip = 0 /\ dst = <<>> /\ packed \in {job.src, <<>>}
  BY DEF Init, LzbInit
<1>2. job.src \in Seq(Bytes) /\ Len(job.src) \in Nat /\ job.cap \in Nat
  BY <1>1, JobSizes
<1>3. packed \in Seq(Nat)
  <2>1. job.src \in Seq(Nat)
    BY <1>2, BytesAreNat
  <2>2. <<>> \in Seq(Nat)
    OBVIOUS
  <2> QED BY <1>1, <2>1, <2>2, Zenon
<1>4. dst \in Seq(Nat) /\ Len(dst) = 0
  BY <1>1
<1> QED BY <1>1, <1>2, <1>3, <1>4 DEF CodecInv

(* A literal run and a match to be written are sizes. *)
LEMMA EmitsMatch ==
  ASSUME CodecInv, NEW p \in Positions, NEW m, anchor <= p, MatchAt(p, m), m.len >= MinMatch
  PROVE  /\ Emits(SubSeq(job.src, anchor + 1, p), m)
         /\ p + m.len \in Nat /\ p + m.len <= Len(job.src) /\ anchor <= p + m.len
<1>1. /\ job.src \in Seq(Bytes) /\ Len(job.src) \in Nat /\ Len(job.dict) \in Nat
      /\ Len(job.src) + Len(job.dict) <= 127
  BY JobSizes, Format DEF CodecInv
<1>2. anchor \in Nat /\ p \in Nat /\ p < Len(job.src) /\ p - anchor \in Nat /\ anchor + (p - anchor) = p
  BY <1>1 DEF CodecInv, Positions
<1>3. m.len \in Nat /\ m.len <= Len(job.src) - p /\ m.dist \in Nat /\ m.dist >= 1 /\ m.dist - p <= Len(job.dict)
  BY SMTT(30), <1>1, <1>2 DEF MatchAt, MatchOf
<1>4. SubSeq(job.src, anchor + 1, p) \in Seq(Bytes) /\ Len(SubSeq(job.src, anchor + 1, p)) = p - anchor
  <2>1. \A a, n \in Nat : a + n <= Len(job.src) =>
          SubSeq(job.src, a + 1, a + n) \in Seq(Bytes) /\ Len(SubSeq(job.src, a + 1, a + n)) = n
    BY <1>1, Slice
  <2>2. anchor + (p - anchor) <= Len(job.src)
    BY <1>1, <1>2
  <2>3. SubSeq(job.src, anchor + 1, anchor + (p - anchor)) \in Seq(Bytes)
        /\ Len(SubSeq(job.src, anchor + 1, anchor + (p - anchor))) = p - anchor
    BY <1>2, <2>1, <2>2, Zenon
  <2> QED BY <1>2, <2>3
<1>5. p - anchor <= 127 /\ m.len \in MinMatch .. 127 /\ m.dist \in 1 .. 127
  <2>1. PICK a, l, d, x, y \in Nat : a = anchor /\ l = Len(job.src) /\ d = Len(job.dict) /\ x = m.len /\ y = m.dist
    BY <1>1, <1>2, <1>3, Zenon
  <2>2. p - a \in Nat /\ p < l /\ l + d <= 127 /\ x <= l - p /\ y >= 1 /\ y - p <= d /\ x >= MinMatch
    BY <1>1, <1>2, <1>3, <2>1, Zenon
  <2>3. p \in Nat /\ MinMatch \in Nat
    BY <1>2, Format
  <2>4. p - a <= 127 /\ x \in MinMatch .. 127 /\ y \in 1 .. 127
    BY ONLY <2>2, <2>3, a \in Nat, l \in Nat, d \in Nat, x \in Nat, y \in Nat
  <2> QED BY <2>1, <2>4, Zenon
<1>6. Emits(SubSeq(job.src, anchor + 1, p), m)
  BY <1>4, <1>5 DEF Emits, SizeMax
<1>7. p + m.len \in Nat /\ p + m.len <= Len(job.src) /\ anchor <= p + m.len
  BY <1>1, <1>2, <1>3 DEF CodecInv
<1> QED BY <1>6, <1>7

(* Writing a sequence leaves bytes, whether it fits or not. *)
LEMMA EmitSeqBytes ==
  ASSUME packed \in Seq(Nat), NEW upto, NEW m, NEW next,
         Emits(SubSeq(job.src, anchor + 1, upto), m), EmitSeq(upto, m, next)
  PROVE  packed' \in Seq(Nat)
<1>1. SeqBytes(SubSeq(job.src, anchor + 1, upto), m) \in Seq(Nat)
  BY SeqBytesBytes, BytesAreNat
<1>2. packed \o SeqBytes(SubSeq(job.src, anchor + 1, upto), m) \in Seq(Nat)
  BY <1>1
<1> QED BY <1>2 DEF EmitSeq

(* What a step of the compressor that finds a match does: the position and *)
(* the match that it settles on.                                           *)
LEMMA MatchStep ==
  ASSUME job \in Jobs, pos \in Nat, Match
  PROVE  \E p \in Positions : \E m :
           /\ MatchAt(p, m) /\ m.len >= MinMatch /\ p \in {pos, pos + 1}
           /\ EmitSeq(p, m, "compress")
           /\ pos' = p + m.len /\ anchor' = p + m.len
           /\ phase = "compress" /\ UNCHANGED <<job, ip, dst>>
<1> DEFINE first == FindMatch(head, chain, pos)
           lazy == Hashable(job.src, pos + 1)
           c == IF lazy THEN Insert(head, chain, pos, pos + 1) ELSE [head |-> head, chain |-> chain]
           second == IF lazy THEN FindMatch(c.head, c.chain, pos + 1) ELSE NoMatch
           later == second.len > first.len + 1
           m == IF later THEN second ELSE first
           p == IF later THEN pos + 1 ELSE pos
<1>1. /\ phase = "compress" /\ Hashable(job.src, pos) /\ first # NoMatch
      /\ EmitSeq(p, m, "compress")
      /\ pos' = p + m.len /\ anchor' = p + m.len /\ UNCHANGED <<job, ip, dst>>
  BY Zenon DEF Match
<1>2. \A q \in Nat : Hashable(job.src, q) => q \in Positions
  <2>1. Len(job.src) \in Nat
    BY JobSizes
  <2> QED BY <2>1, Format DEF Hashable, Positions
<1>3. pos \in Positions
  BY <1>1, <1>2
<1>4. MatchAt(pos, first) /\ first.len >= MinMatch
  BY <1>1, <1>3, FindMatchSound
<1>5. first.len \in Nat
  BY <1>4 DEF MatchAt, MatchOf
<1> HIDE DEF first, c
<1>6. CASE ~later
  <2>1. m = first /\ p = pos
    BY <1>6
  <2> HIDE DEF m, p
  <2> QED BY <1>1, <1>3, <1>4, <2>1
<1>7. CASE later
  <2>1. lazy
    <3>1. CASE ~lazy
      <4>1. second.len = 0
        BY <3>1 DEF NoMatch
      <4> QED BY <1>5, <1>7, <4>1
    <3> QED BY <3>1
  <2>2. second = FindMatch(c.head, c.chain, pos + 1)
    BY <2>1
  <2>3. pos + 1 \in Positions
    BY <1>2, <2>1
  <2>4. second # NoMatch
    <3>1. NoMatch.len = 0
      BY DEF NoMatch
    <3> HIDE DEF second
    <3> QED BY <1>5, <1>7, <3>1
  <2>5. MatchAt(pos + 1, second) /\ second.len >= MinMatch
    BY <2>2, <2>3, <2>4, FindMatchSound
  <2>6. m = second /\ p = pos + 1
    BY <1>7
  <2> HIDE DEF m, p, second
  <2> QED BY <1>1, <2>3, <2>5, <2>6
<1> QED BY <1>6, <1>7

(* One byte on. *)
LEMMA LiteralCodec ==
  ASSUME CodecInv, Literal PROVE CodecInv'
<1>1. /\ Hashable(job.src, pos) /\ pos' = pos + 1
      /\ UNCHANGED <<job, anchor, packed, ip, dst>>
  BY DEF Literal
<1>2. Len(job.src) \in Nat
  BY JobSizes DEF CodecInv
<1>3. pos + 1 \in Nat /\ anchor <= pos + 1 /\ pos + 1 <= Len(job.src)
  BY <1>1, <1>2, Format DEF CodecInv, Hashable
<1> QED BY <1>1, <1>3 DEF CodecInv

(* A match stays in the block. *)
LEMMA MatchCodec ==
  ASSUME CodecInv, Match PROVE CodecInv'
<1>0. PICK p \in Positions : \E m :
           /\ MatchAt(p, m) /\ m.len >= MinMatch /\ p \in {pos, pos + 1}
           /\ EmitSeq(p, m, "compress")
           /\ pos' = p + m.len /\ anchor' = p + m.len
           /\ phase = "compress" /\ UNCHANGED <<job, ip, dst>>
  BY MatchStep DEF CodecInv
<1>1. PICK m :
           /\ MatchAt(p, m) /\ m.len >= MinMatch /\ p \in {pos, pos + 1}
           /\ EmitSeq(p, m, "compress")
           /\ pos' = p + m.len /\ anchor' = p + m.len
           /\ phase = "compress" /\ UNCHANGED <<job, ip, dst>>
  BY <1>0, Zenon
<1>2. anchor <= p
  BY <1>1 DEF CodecInv
<1>3. /\ Emits(SubSeq(job.src, anchor + 1, p), m)
      /\ p + m.len \in Nat /\ p + m.len <= Len(job.src)
  BY <1>1, <1>2, EmitsMatch
<1>4. packed' \in Seq(Nat)
  BY <1>1, <1>3, EmitSeqBytes DEF CodecInv
<1>5. anchor' <= pos'
  BY <1>1, <1>3
<1> QED BY <1>1, <1>3, <1>4, <1>5 DEF CodecInv

(* The last literals are a size. *)
LEMMA EmitsRest ==
  ASSUME CodecInv PROVE Emits(SubSeq(job.src, anchor + 1, Len(job.src)), NoMatch)
<1>1. job.src \in Seq(Bytes) /\ Len(job.src) \in Nat /\ Len(job.src) <= SizeMax
  <2>1. /\ job.src \in Seq(Bytes) /\ Len(job.src) \in Nat /\ Len(job.dict) \in Nat
        /\ Len(job.src) + Len(job.dict) <= SizeMax
    BY JobSizes DEF CodecInv
  <2>2. \A a, b \in Nat : a + b <= SizeMax => a <= SizeMax
    BY DEF SizeMax
  <2> QED BY <2>1, <2>2, Zenon
<1>2. anchor \in Nat /\ Len(job.src) - anchor \in Nat /\ anchor + (Len(job.src) - anchor) = Len(job.src)
  BY <1>1 DEF CodecInv
<1>3. \A a, n \in Nat : a + n <= Len(job.src) =>
        SubSeq(job.src, a + 1, a + n) \in Seq(Bytes) /\ Len(SubSeq(job.src, a + 1, a + n)) = n
  BY <1>1, Slice
<1>4. SubSeq(job.src, anchor + 1, anchor + (Len(job.src) - anchor)) \in Seq(Bytes)
      /\ Len(SubSeq(job.src, anchor + 1, anchor + (Len(job.src) - anchor))) = Len(job.src) - anchor
  <2>1. anchor + (Len(job.src) - anchor) <= Len(job.src)
    BY <1>1, <1>2
  <2> QED BY <1>2, <1>3, <2>1, Zenon
<1>5. Len(job.src) - anchor <= SizeMax
  BY <1>1, <1>2, Format
<1> QED BY <1>2, <1>4, <1>5 DEF Emits

(* The last sequence is bytes. *)
LEMMA RestCodec ==
  ASSUME CodecInv, Rest PROVE CodecInv'
<1>1. EmitSeq(Len(job.src), NoMatch, "compressed") /\ UNCHANGED <<job, anchor, pos, ip, dst>>
  BY DEF Rest, encVars
<1>2. packed' \in Seq(Nat)
  BY <1>1, EmitsRest, EmitSeqBytes DEF CodecInv
<1> QED BY <1>1, <1>2 DEF CodecInv

(* One sequence decoded. *)
LEMMA DecompressCodec ==
  ASSUME CodecInv, Decompress PROVE CodecInv'
<1> DEFINE t == DecodeSeq(packed, ip, dst)
<1>1. ip < Len(packed) /\ ip' = t.ip /\ dst' = t.dst /\ UNCHANGED <<job, anchor, pos, packed>>
  BY DEF Decompress, encVars
<1>2. packed \in Seq(Nat) /\ ip \in 0 .. Len(packed) - 1
  BY <1>1 DEF CodecInv
<1>3. job.dict \in Seq(Nat) /\ job.cap \in Nat
  BY JobSizes, BytesAreNat DEF CodecInv
<1>4. t.ip \in Nat /\ t.dst \in Seq(Nat) /\ Len(t.dst) <= job.cap
  BY <1>2, <1>3, DecodeSeqInside DEF CodecInv
<1> HIDE DEF t
<1> QED BY <1>1, <1>4 DEF CodecInv

(* A symbol that is decoded is a byte. *)
LEMMA DecodeSymbol ==
  ASSUME NEW len, NEW bits
  PROVE  Decode(len, bits) \in Symbols \cup {-1}
<1> DEFINE peek == [i \in 1 .. LongestOf(len) |-> IF i <= Len(bits) THEN bits[i] ELSE 0]
           found == { s \in Used(len) : \A i \in 1 .. len[s] : CodeBits(len, s)[i] = peek[i] }
           sym == CHOOSE s \in found : \A t \in found : t <= s
<1>1. Decode(len, bits) = IF found = {} \/ len[sym] > Len(bits) THEN -1 ELSE sym
  BY Zenon DEF Decode
<1>2. found \subseteq Symbols
  BY DEF Used
<1> HIDE DEF found
<1>3. CASE found = {}
  BY <1>1, <1>3
<1>4. CASE found # {}
  <2>1. NSymbols \in Nat
    BY HuffAssumption
  <2>2. found \in SUBSET Nat /\ \A k \in found : k <= NSymbols
    BY <1>2, <2>1 DEF Symbols
  <2>3. \E s \in found : \A t \in found : t <= s
    BY <1>4, <2>1, <2>2, NatMax
  <2>4. sym \in found
    BY <2>3
  <2> HIDE DEF sym
  <2> QED BY <1>1, <1>2, <2>4
<1> QED BY <1>3, <1>4

(* One symbol decoded. *)
LEMMA UnpackCodec ==
  ASSUME CodecInv, Unpack PROVE CodecInv'
<1> DEFINE s == Decode(form.len, form.bits)
<1>1. /\ IF s < 0 THEN packed' = packed ELSE packed' = Append(packed, s)
      /\ UNCHANGED <<job, anchor, pos, ip, dst>>
  BY DEF Unpack, encVars
<1>2. s \in Symbols \cup {-1}
  BY DecodeSymbol
<1> HIDE DEF s
<1>3. ~(s < 0) => s \in Nat
  <2>1. \A i \in 0 .. NSymbols - 1 : i \in Nat
    BY HuffAssumption
  <2>2. s = -1 => s < 0
    OBVIOUS
  <2> QED BY <1>2, <2>1, <2>2 DEF Symbols
<1>4. packed' \in Seq(Nat)
  <2>1. packed \in Seq(Nat)
    BY DEF CodecInv
  <2>2. \A i \in Nat : Append(packed, i) \in Seq(Nat)
    BY <2>1
  <2> QED BY <1>1, <1>3, <2>1, <2>2, Zenon
<1> QED BY <1>1, <1>4 DEF CodecInv

(* Every step keeps the invariant. *)
LEMMA NextCodec == CodecInv /\ [Next]_vars => CodecInv'
<1> SUFFICES ASSUME CodecInv, [Next]_vars PROVE CodecInv'
  OBVIOUS
<1>1. CASE Literal
  BY <1>1, LiteralCodec
<1>2. CASE Match
  BY <1>2, MatchCodec
<1>3. CASE Rest
  BY <1>3, RestCodec
<1>4. CASE Decompress
  BY <1>4, DecompressCodec
<1>5. CASE Unpack
  BY <1>5, UnpackCodec
<1>6. CASE Load
  <2>1. packed' = <<>> /\ UNCHANGED <<job, anchor, pos, ip, dst>>
    BY <1>6 DEF Load, encVars
  <2> QED BY <2>1 DEF CodecInv
<1>7. CASE DecompressNothing \/ NoMemory \/ Store \/ Unpacked \/ UNCHANGED vars
  <2>1. UNCHANGED <<job, anchor, pos, packed, ip, dst>>
    BY <1>7, Zenon DEF DecompressNothing, NoMemory, Store, Unpacked, vars, lzbVars, encVars
  <2> QED BY <2>1 DEF CodecInv
<1> QED BY <1>1, <1>2, <1>3, <1>4, <1>5, <1>6, <1>7, Zenon DEF Next, Terminated

(* Whatever bytes or table a decompressor is given, it writes within its   *)
(* buffer, and reads within dst and the dictionary.                        *)
THEOREM CodecDecoderInBounds == Spec => []DecoderInBounds
<1>1. CodecInv => DecoderInBounds
  <2> SUFFICES ASSUME CodecInv PROVE DecoderInBounds
    OBVIOUS
  <2>1. dst \in Seq(Nat) /\ Len(dst) <= job.cap
    BY DEF CodecInv
  <2>2. \A i \in DOMAIN dst : dst[i] \in Nat
    BY <2>1
  <2>3. \A i \in DOMAIN dst : dst[i] # Wild
    BY <2>2, Format
  <2> QED BY <2>1, <2>3 DEF DecoderInBounds
<1> QED BY <1>1, InitCodec, NextCodec, PTL DEF Spec

-----------------------------------------------------------------------------
(* What emit_seq writes, the decompressor reads back *)

(* The bytes w stand in s, i bytes in. *)
Holds(s, i, w) == i + Len(w) <= Len(s) /\ \A k \in 1 .. Len(w) : s[i + k] = w[k]

(* What stands one part behind the other stands there as a whole.          *)
LEMMA HoldsBoth ==
  ASSUME NEW s \in Seq(Nat), NEW i \in Nat, NEW u \in Seq(Nat), NEW w \in Seq(Nat), Holds(s, i, u \o w)
  PROVE  Holds(s, i, u) /\ Holds(s, i + Len(u), w)
<1>1. Len(u) \in Nat /\ Len(w) \in Nat /\ Len(s) \in Nat
  OBVIOUS
<1>2. /\ Len(u \o w) = Len(u) + Len(w)
      /\ \A k \in 1 .. Len(u) + Len(w) : (u \o w)[k] = IF k <= Len(u) THEN u[k] ELSE w[k - Len(u)]
  BY ConcatProperties
<1>3. /\ i + (Len(u) + Len(w)) <= Len(s)
      /\ \A k \in 1 .. Len(u) + Len(w) : s[i + k] = IF k <= Len(u) THEN u[k] ELSE w[k - Len(u)]
  BY <1>2 DEF Holds
<1>4. Holds(s, i, u)
  <2>1. \A k \in 1 .. Len(u) : k \in 1 .. Len(u) + Len(w) /\ k <= Len(u)
    BY <1>1
  <2>2. i + Len(u) <= Len(s)
    BY <1>1, <1>3
  <2> QED BY <1>3, <2>1, <2>2 DEF Holds
<1>5. Holds(s, i + Len(u), w)
  <2>1. ASSUME NEW k \in 1 .. Len(w) PROVE s[(i + Len(u)) + k] = w[k]
    <3>1. Len(u) + k \in 1 .. Len(u) + Len(w) /\ ~(Len(u) + k <= Len(u)) /\ (Len(u) + k) - Len(u) = k
          /\ i + (Len(u) + k) = (i + Len(u)) + k
      BY <1>1
    <3> QED BY <1>3, <3>1
  <2>2. (i + Len(u)) + Len(w) <= Len(s)
    BY <1>1, <1>3
  <2> QED BY <2>1, <2>2 DEF Holds
<1> QED BY <1>4, <1>5

(* get_varint stops at the first byte without its high bit.                *)
VarintValue(s, i, n) ==
  LET digit(k) == IF k <= n THEN At(s, i + k) % Base ELSE 0
  IN (digit(0) + Base * digit(1) + Base * Base * digit(2)) % (SizeMax + 1)

(* get_varint stops at the first byte without the high bit. *)
LEMMA GetVarintStops ==
  ASSUME NEW s \in Seq(Nat), NEW i \in Nat, NEW n \in 0 .. 2, i + n < Len(s),
         At(s, i + n) < Base, \A k \in 0 .. n - 1 : At(s, i + k) >= Base
  PROVE  GetVarint(s, i) = [ok |-> TRUE, next |-> i + n + 1, v |-> VarintValue(s, i, n)]
<1> DEFINE ends == { k \in 0 .. MaxBytes - 1 : i + k < Len(s) /\ At(s, i + k) < Base }
           last == CHOOSE k \in ends : \A j \in ends : k <= j
<1>1. n \in ends
  BY Format
<1>2. \A k \in ends : n <= k
  <2> SUFFICES ASSUME NEW k \in ends, k < n PROVE FALSE
    OBVIOUS
  <2>1. k \in 0 .. n - 1 /\ At(s, i + k) < Base
    OBVIOUS
  <2>2. At(s, i + k) \in Nat
    <3>1. i + k + 1 \in 1 .. Len(s)
      BY <2>1
    <3> QED BY <3>1 DEF At
  <2>3. At(s, i + k) >= Base
    BY <2>1
  <2>4. \A b \in Nat : ~(b < Base /\ b >= Base)
    BY DEF Base
  <2> QED BY <2>1, <2>2, <2>3, <2>4, Zenon
<1>3. ends \subseteq Nat
  OBVIOUS
<1> HIDE DEF ends
<1>4. last = n
  <2>1. last \in ends /\ \A j \in ends : last <= j
    BY <1>1, <1>2
  <2> HIDE DEF last
  <2>2. last <= n /\ n <= last /\ last \in Nat
    BY <1>1, <1>2, <1>3, <2>1
  <2> QED BY <2>2
<1>5. ends # {}
  BY <1>1
<1> QED BY <1>4, <1>5, Zenon DEF GetVarint, VarintValue, ends

(* The sum get_varint makes of two bytes and of three.                    *)
LEMMA ValueOf ==
  ASSUME NEW s, NEW i
  PROVE  /\ VarintValue(s, i, 1) = ((At(s, i + 0) % 8) + 8 * (At(s, i + 1) % 8) + 8 * 8 * 0) % (127 + 1)
         /\ VarintValue(s, i, 2) = ((At(s, i + 0) % 8) + 8 * (At(s, i + 1) % 8) + 8 * 8 * (At(s, i + 2) % 8)) % (127 + 1)
<1>1. 0 <= 1 /\ 1 <= 1 /\ ~(2 <= 1) /\ 0 <= 2 /\ 1 <= 2 /\ 2 <= 2
  OBVIOUS
<1> QED BY <1>1, Zenon DEF VarintValue, Base, SizeMax

(* The digits of a size, of three bits each. *)
LEMMA Digits ==
  /\ \A v \in 0 .. 7 : ((v % 8) + 8 * 0 + 8 * 8 * 0) % 128 = v
  /\ \A v \in 8 .. 63 : (((8 + (v % 8)) % 8) + 8 * ((v \div 8) % 8) + 8 * 8 * 0) % 128 = v
  /\ \A v \in 64 .. 127 :
       (((8 + (v % 8)) % 8) + 8 * ((8 + ((v \div 8) % 8)) % 8) + 8 * 8 * ((v \div 64) % 8)) % 128 = v
<1>1. ASSUME NEW v \in 0 .. 7 PROVE ((v % 8) + 8 * 0 + 8 * 8 * 0) % 128 = v
  OBVIOUS
<1>2. ASSUME NEW v \in 8 .. 63 PROVE (((8 + (v % 8)) % 8) + 8 * ((v \div 8) % 8) + 8 * 8 * 0) % 128 = v
  OBVIOUS
<1>3. ASSUME NEW v \in 64 .. 127
      PROVE (((8 + (v % 8)) % 8) + 8 * ((8 + ((v \div 8) % 8)) % 8) + 8 * 8 * ((v \div 64) % 8)) % 128 = v
  OBVIOUS
<1> QED BY <1>1, <1>2, <1>3, Zenon

(* get_varint reads what put_varint has written.                           *)
LEMMA VarintBack ==
  ASSUME NEW s \in Seq(Nat), NEW i \in Nat, NEW v \in 0 .. SizeMax, Holds(s, i, Varint(v))
  PROVE  GetVarint(s, i) = [ok |-> TRUE, next |-> i + Len(Varint(v)), v |-> v]
<1>0. Base = 8 /\ SizeMax = 127 /\ v \in 0 .. 127 /\ i \in Nat
  <2>1. Base = 8 /\ SizeMax = 127
    BY DEF Base, SizeMax
  <2> QED BY <2>1
<1>1. CASE v < Base
  <2>1. Varint(v) = <<v>>
    <3>1. v < Base /\ v \notin Base .. Base * Base - 1
      BY <1>0, <1>1
    <3> QED BY <3>1 DEF Varint
  <2>2. i + 1 <= Len(s) /\ s[i + 1] = v
    BY <2>1 DEF Holds
  <2>3. At(s, i + 0) = v /\ i + 0 < Len(s)
    BY <2>2 DEF At
  <2>4. GetVarint(s, i) = [ok |-> TRUE, next |-> i + 0 + 1, v |-> VarintValue(s, i, 0)]
    BY <1>0, <1>1, <2>3, GetVarintStops
  <2>5. VarintValue(s, i, 0) = v
    <3>1. VarintValue(s, i, 0) = ((v % 8) + 8 * 0 + 8 * 8 * 0) % 128
      BY <2>3 DEF VarintValue, Base, SizeMax
    <3>2. v \in 0 .. 7
      BY <1>0, <1>1
    <3> QED BY <3>1, <3>2, Digits, Zenon
  <2>6. i + 0 + 1 = i + Len(Varint(v))
    BY <2>1
  <2> QED BY <2>4, <2>5, <2>6, Zenon
<1>2. CASE v \in Base .. Base * Base - 1
  <2>1. Varint(v) = <<Base + (v % Base), v \div Base>>
    BY <1>2 DEF Varint
  <2>2. i + 2 <= Len(s) /\ s[i + 1] = 8 + (v % 8) /\ s[i + 2] = v \div 8
    BY <2>1 DEF Holds, Base
  <2>3. At(s, i + 0) = 8 + (v % 8) /\ At(s, i + 1) = v \div 8 /\ i + 1 < Len(s)
    BY <2>2 DEF At
  <2>4. 8 + (v % 8) >= 8 /\ v \div 8 < 8
    BY <1>0, <1>2
  <2>5. GetVarint(s, i) = [ok |-> TRUE, next |-> i + 1 + 1, v |-> VarintValue(s, i, 1)]
    <3>1. \A k \in 0 .. 1 - 1 : At(s, i + k) >= Base
      BY <1>0, <2>3, <2>4
    <3>2. At(s, i + 1) < Base
      BY <1>0, <2>3, <2>4
    <3> QED BY <1>0, <2>3, <3>1, <3>2, GetVarintStops
  <2>6. VarintValue(s, i, 1) = v
    <3>1. VarintValue(s, i, 1) = (((8 + (v % 8)) % 8) + 8 * ((v \div 8) % 8) + 8 * 8 * 0) % 128
      <4>1. VarintValue(s, i, 1) = ((At(s, i + 0) % 8) + 8 * (At(s, i + 1) % 8) + 8 * 8 * 0) % (127 + 1)
        BY ValueOf
      <4> QED BY <2>3, <4>1, 127 + 1 = 128, Zenon
    <3>2. v \in 8 .. 63
      BY <1>0, <1>2
    <3> QED BY <3>1, <3>2, Digits, Zenon
  <2>7. i + 1 + 1 = i + Len(Varint(v))
    BY <2>1
  <2> QED BY <2>5, <2>6, <2>7, Zenon
<1>3. CASE v >= Base * Base
  <2>1. Varint(v) = <<Base + (v % Base), Base + ((v \div Base) % Base), v \div (Base * Base)>>
    <3>1. ~(v < Base) /\ v \notin Base .. Base * Base - 1
      BY <1>0, <1>3
    <3> QED BY <3>1, Zenon DEF Varint
  <2>2. i + 3 <= Len(s) /\ s[i + 1] = 8 + (v % 8) /\ s[i + 2] = 8 + ((v \div 8) % 8) /\ s[i + 3] = v \div 64
    <3>1. i + 3 <= Len(s) /\ s[i + 1] = 8 + (v % 8) /\ s[i + 2] = 8 + ((v \div 8) % 8) /\ s[i + 3] = v \div (8 * 8)
      BY <2>1 DEF Holds, Base
    <3> QED BY <3>1
  <2>3. At(s, i + 0) = 8 + (v % 8) /\ At(s, i + 1) = 8 + ((v \div 8) % 8) /\ At(s, i + 2) = v \div 64 /\ i + 2 < Len(s)
    BY <2>2 DEF At
  <2>4. 8 + (v % 8) >= 8 /\ 8 + ((v \div 8) % 8) >= 8 /\ v \div 64 < 8
    BY <1>0
  <2>5. GetVarint(s, i) = [ok |-> TRUE, next |-> i + 2 + 1, v |-> VarintValue(s, i, 2)]
    <3>1. \A k \in 0 .. 2 - 1 : At(s, i + k) >= Base
      <4>1. \A k \in 0 .. 2 - 1 : k = 0 \/ k = 1
        OBVIOUS
      <4>2. At(s, i + 0) >= Base /\ At(s, i + 1) >= Base
        BY <1>0, <2>3, <2>4, Zenon
      <4> QED BY <4>1, <4>2, Zenon
    <3>2. At(s, i + 2) < Base
      BY <1>0, <2>3, <2>4
    <3> QED BY <1>0, <2>3, <3>1, <3>2, GetVarintStops
  <2>6. VarintValue(s, i, 2) = v
    <3>1. VarintValue(s, i, 2) = (((8 + (v % 8)) % 8) + 8 * ((8 + ((v \div 8) % 8)) % 8) + 8 * 8 * ((v \div 64) % 8)) % 128
      <4>1. VarintValue(s, i, 2) = ((At(s, i + 0) % 8) + 8 * (At(s, i + 1) % 8) + 8 * 8 * (At(s, i + 2) % 8)) % (127 + 1)
        BY ValueOf
      <4> QED BY <2>3, <4>1, 127 + 1 = 128, Zenon
    <3>2. v \in 64 .. 127
      BY <1>0, <1>3
    <3> QED BY <3>1, <3>2, Digits, Zenon
  <2>7. i + 2 + 1 = i + Len(Varint(v))
    BY <2>1
  <2> QED BY <2>5, <2>6, <2>7, Zenon
<1> QED BY <1>0, <1>1, <1>2, <1>3

(* Where the parts of a sequence stand: the token, what continues the code *)
(* of the literals, the literals, the distance, and what continues the     *)
(* code of the match.                                                      *)
AtLits(i, lits) == i + 1 + Len(LitExt(lits))
AtDist(i, lits) == AtLits(i, lits) + Len(lits)
AtMatExt(i, lits, m) == AtDist(i, lits) + Len(DistBytes(m))
AtNext(i, lits, m) == AtMatExt(i, lits, m) + Len(MatExt(m))

(* A sequence that emit_seq has written stands there part by part.         *)
LEMMA HoldsParts ==
  ASSUME NEW s \in Seq(Nat), NEW i \in Nat, NEW lits, NEW m, Emits(lits, m), Holds(s, i, SeqBytes(lits, m))
  PROVE  /\ s[i + 1] = Lit(lits) * (TopCode + 1) + Mat(m) /\ i < Len(s)
         /\ Holds(s, i + 1, LitExt(lits)) /\ Holds(s, AtLits(i, lits), lits)
         /\ Holds(s, AtDist(i, lits), DistBytes(m)) /\ Holds(s, AtMatExt(i, lits, m), MatExt(m))
         /\ AtNext(i, lits, m) = i + Len(SeqBytes(lits, m)) /\ AtNext(i, lits, m) <= Len(s)
         /\ AtLits(i, lits) \in Nat /\ AtDist(i, lits) \in Nat /\ AtMatExt(i, lits, m) \in Nat
<1> DEFINE t == <<Lit(lits) * (TopCode + 1) + Mat(m)>>
           e == LitExt(lits)
           d == DistBytes(m)
           x == MatExt(m)
<1>1. t \in Seq(Nat) /\ Len(t) = 1 /\ t[1] = Lit(lits) * (TopCode + 1) + Mat(m)
  <2>1. Lit(lits) * (TopCode + 1) + Mat(m) \in Bytes
    BY PartsBytes
  <2>2. Lit(lits) * (TopCode + 1) + Mat(m) \in Nat
    BY <2>1, Format
  <2> QED BY <2>2
<1>2. e \in Seq(Nat) /\ lits \in Seq(Nat) /\ d \in Seq(Nat) /\ x \in Seq(Nat)
  <2>1. e \in Seq(Bytes) /\ lits \in Seq(Bytes) /\ d \in Seq(Bytes) /\ x \in Seq(Bytes)
    BY PartsBytes DEF Emits
  <2> QED BY <2>1, BytesAreNat
<1>3. SeqBytes(lits, m) = t \o e \o lits \o d \o x
  BY SeqBytesParts
<1>4. Len(e) \in Nat /\ Len(lits) \in Nat /\ Len(d) \in Nat /\ Len(x) \in Nat /\ Len(s) \in Nat
  BY <1>2
<1>5. AtLits(i, lits) = i + 1 + Len(e) /\ AtDist(i, lits) = i + 1 + Len(e) + Len(lits)
      /\ AtMatExt(i, lits, m) = i + 1 + Len(e) + Len(lits) + Len(d)
      /\ AtNext(i, lits, m) = i + 1 + Len(e) + Len(lits) + Len(d) + Len(x)
  BY Zenon DEF AtLits, AtDist, AtMatExt, AtNext
<1> HIDE DEF t, e, d, x
<1>0. \A u, w \in Seq(Nat) : u \o w \in Seq(Nat) /\ Len(u \o w) = Len(u) + Len(w)
  BY ConcatProperties
<1>6. t \o e \in Seq(Nat) /\ Len(t \o e) = 1 + Len(e)
  BY <1>0, <1>1, <1>2, Zenon
<1>7. t \o e \o lits \in Seq(Nat) /\ Len(t \o e \o lits) = 1 + Len(e) + Len(lits)
  BY <1>0, <1>2, <1>6, Zenon
<1>8. t \o e \o lits \o d \in Seq(Nat) /\ Len(t \o e \o lits \o d) = 1 + Len(e) + Len(lits) + Len(d)
  BY <1>0, <1>2, <1>7, Zenon
<1>9. Len(t \o e \o lits \o d \o x) = 1 + Len(e) + Len(lits) + Len(d) + Len(x)
  BY <1>0, <1>2, <1>8, Zenon
<1>10. Holds(s, i, t \o e \o lits \o d) /\ Holds(s, i + (1 + Len(e) + Len(lits) + Len(d)), x)
  BY <1>2, <1>3, <1>8, HoldsBoth
<1>11. Holds(s, i, t \o e \o lits) /\ Holds(s, i + (1 + Len(e) + Len(lits)), d)
  BY <1>2, <1>7, <1>10, HoldsBoth
<1>12. Holds(s, i, t \o e) /\ Holds(s, i + (1 + Len(e)), lits)
  BY <1>2, <1>6, <1>11, HoldsBoth
<1>13. Holds(s, i, t) /\ Holds(s, i + 1, e)
  BY <1>1, <1>2, <1>12, HoldsBoth
<1>14. i + 1 <= Len(s) /\ s[i + 1] = t[1]
  BY <1>1, <1>13 DEF Holds
<1>15. i + Len(SeqBytes(lits, m)) <= Len(s)
  BY DEF Holds
<1>16. /\ i + (1 + Len(e)) = AtLits(i, lits) /\ i + (1 + Len(e) + Len(lits)) = AtDist(i, lits)
       /\ i + (1 + Len(e) + Len(lits) + Len(d)) = AtMatExt(i, lits, m)
       /\ i + Len(SeqBytes(lits, m)) = AtNext(i, lits, m)
       /\ AtLits(i, lits) \in Nat /\ AtDist(i, lits) \in Nat /\ AtMatExt(i, lits, m) \in Nat
  BY <1>3, <1>4, <1>5, <1>9
<1>17. i < Len(s)
  BY <1>4, <1>14
<1> QED BY <1>1, <1>10, <1>11, <1>12, <1>13, <1>14, <1>15, <1>16, <1>17, Zenon DEF e, d, x

(* The code of the literals and what continues it give their number back.  *)
LEMMA LitCodeBack ==
  ASSUME NEW s \in Seq(Nat), NEW i \in Nat, NEW lits, NEW m, Emits(lits, m),
         Holds(s, i + 1, LitExt(lits))
  PROVE  \E e : /\ e = IF Lit(lits) = TopCode THEN GetVarint(s, i + 1)
                       ELSE [ok |-> TRUE, next |-> i + 1, v |-> 0]
                /\ e.ok = TRUE /\ e.next = AtLits(i, lits) /\ e.v \in Nat
                /\ e.v <= SizeMax - TopCode /\ Lit(lits) + e.v = Len(lits)
<1>1. Len(lits) \in 0 .. 127 /\ TopCode = 3 /\ SizeMax = 127
  <2>1. lits \in Seq(Bytes) /\ Len(lits) <= SizeMax
    BY DEF Emits
  <2>2. Len(lits) \in Nat
    BY <2>1
  <2>3. \A k \in Nat : k <= SizeMax => k \in 0 .. 127
    BY DEF SizeMax
  <2>4. TopCode = 3 /\ SizeMax = 127
    BY DEF TopCode, SizeMax
  <2> QED BY <2>1, <2>2, <2>3, <2>4, Zenon
<1>2. CASE Lit(lits) = TopCode
  <2>1. LitExt(lits) = Varint(Len(lits) - TopCode)
    BY <1>2 DEF LitExt
  <2>2. Len(lits) - TopCode \in 0 .. SizeMax /\ Len(lits) - TopCode <= SizeMax - TopCode
        /\ Lit(lits) + (Len(lits) - TopCode) = Len(lits)
    <3>1. \A k \in 0 .. 127 : (IF k <= 3 THEN k ELSE 3) = 3 =>
            k - 3 \in 0 .. 127 /\ k - 3 <= 127 - 3 /\ 3 + (k - 3) = k
      OBVIOUS
    <3>2. Lit(lits) = (IF Len(lits) <= 3 THEN Len(lits) ELSE 3) /\ Lit(lits) = 3
      BY <1>1, <1>2, Zenon DEF Lit, Least
    <3> QED BY <1>1, <3>1, <3>2, Zenon
  <2>3. GetVarint(s, i + 1) = [ok |-> TRUE, next |-> (i + 1) + Len(Varint(Len(lits) - TopCode)),
                               v |-> Len(lits) - TopCode]
    <3> DEFINE v == Len(lits) - TopCode
    <3>1. v \in 0 .. SizeMax /\ Holds(s, i + 1, Varint(v)) /\ i + 1 \in Nat
      BY <2>1, <2>2
    <3> HIDE DEF v
    <3>2. GetVarint(s, i + 1) = [ok |-> TRUE, next |-> (i + 1) + Len(Varint(v)), v |-> v]
      BY <3>1, VarintBack
    <3> QED BY <3>2 DEF v
  <2>4. AtLits(i, lits) = (i + 1) + Len(Varint(Len(lits) - TopCode))
    BY <2>1 DEF AtLits
  <2> DEFINE e == GetVarint(s, i + 1)
  <2>5. e.ok = TRUE /\ e.next = AtLits(i, lits) /\ e.v = Len(lits) - TopCode
    BY <2>3, <2>4
  <2>6. Len(lits) - TopCode \in Nat
    BY <2>2
  <2> QED BY <1>2, <2>2, <2>5, <2>6, Zenon
<1>3. CASE Lit(lits) # TopCode
  <2>1. LitExt(lits) = <<>> /\ Lit(lits) + 0 = Len(lits)
    BY <1>1, <1>3 DEF LitExt, Lit, Least
  <2>2. AtLits(i, lits) = i + 1
    BY <2>1 DEF AtLits
  <2> DEFINE e == [ok |-> TRUE, next |-> i + 1, v |-> 0]
  <2>3. e.ok = TRUE /\ e.next = AtLits(i, lits) /\ e.v = 0 /\ e.v <= SizeMax - TopCode /\ e.v \in Nat
    BY <1>1, <2>2
  <2> QED BY <1>3, <2>1, <2>3, Zenon
<1> QED BY <1>2, <1>3

(* What stands at a place is what is copied from there. *)
LEMMA HeldSlice ==
  ASSUME NEW s \in Seq(Nat), NEW i \in Nat, NEW w \in Seq(Nat), Holds(s, i, w)
  PROVE  SubSeq(s, i + 1, i + Len(w)) = w
<1>1. Len(w) \in Nat /\ i + Len(w) <= Len(s)
  BY DEF Holds
<1>2. PICK n \in Nat : n = Len(w)
  BY <1>1
<1>3. SubSeq(s, i + 1, i + n) \in Seq(Nat) /\ Len(SubSeq(s, i + 1, i + n)) = n
      /\ \A k \in 1 .. n : SubSeq(s, i + 1, i + n)[k] = s[i + k]
  BY <1>1, <1>2, Slice
<1>4. \A k \in 1 .. n : s[i + k] = w[k]
  BY <1>2 DEF Holds
<1>5. SubSeq(s, i + 1, i + n) = w
  <2> DEFINE u == SubSeq(s, i + 1, i + n)
  <2>1. u \in Seq(Nat) /\ Len(u) = Len(w) /\ \A k \in 1 .. Len(u) : u[k] = w[k]
    BY <1>2, <1>3, <1>4
  <2> HIDE DEF u
  <2>2. u = w
    BY <2>1, SeqEqual
  <2> QED BY <2>2 DEF u
<1> QED BY <1>2, <1>5

(* A token gives its two codes back. *)
LEMMA TokenBack ==
  ASSUME NEW a \in 0 .. TopCode, NEW b \in 0 .. TopCode
  PROVE  (a * (TopCode + 1) + b) \div (TopCode + 1) = a /\ (a * (TopCode + 1) + b) % (TopCode + 1) = b
<1>1. \A x, y \in 0 .. 3 : (x * 4 + y) \div 4 = x /\ (x * 4 + y) % 4 = y
  OBVIOUS
<1>2. TopCode = 3 /\ 3 + 1 = 4
  BY DEF TopCode
<1> QED BY <1>1, <1>2, Zenon

(* A sequence from the end of its literals on, which stand in all.         *)
AfterLits(s, i, lits, m, all) ==
  IF Mat(m) = 0 THEN Turn(OK, AtDist(i, lits), all, TRUE)
  ELSE DecodeMatch(s, AtDist(i, lits), all, Mat(m))

(* The decompressor finds the literals of a sequence, and its end or its   *)
(* match, where emit_seq has put them.                                     *)
LEMMA LitsBack ==
  ASSUME NEW s \in Seq(Nat), NEW i \in Nat, NEW lits, NEW m, Emits(lits, m),
         Holds(s, i, SeqBytes(lits, m)), NEW out, Len(out) \in Nat, job.cap \in Nat,
         Len(out) + Len(lits) <= job.cap
  PROVE  DecodeSeq(s, i, out) = AfterLits(s, i, lits, m, out \o lits)
<1> DEFINE code == At(s, i) \div (TopCode + 1)
           e == IF code = TopCode THEN GetVarint(s, i + 1)
                ELSE [ok |-> TRUE, next |-> i + 1, v |-> 0]
           n == code + e.v
           all == out \o SubSeq(s, e.next + 1, e.next + n)
           mat == At(s, i) % (TopCode + 1)
           bad == ~e.ok \/ e.v > SizeMax - TopCode \/ n > Len(s) - e.next
           t == DecodeSeq(s, i, out)
<1>1. t = IF bad THEN Turn(ErrCorruptBlock, i, out, TRUE)
          ELSE IF n > job.cap - Len(out) THEN Turn(ErrDstTooSmall, i, out, TRUE)
          ELSE IF mat = 0 THEN Turn(OK, e.next + n, all, TRUE)
          ELSE DecodeMatch(s, e.next + n, all, mat)
  BY Zenon DEF DecodeSeq
<1> HIDE DEF e, n, all, bad, t
<1>2. /\ At(s, i) = Lit(lits) * (TopCode + 1) + Mat(m) /\ Holds(s, i + 1, LitExt(lits))
      /\ Holds(s, AtLits(i, lits), lits) /\ AtLits(i, lits) \in Nat
  <2>1. /\ s[i + 1] = Lit(lits) * (TopCode + 1) + Mat(m) /\ Holds(s, i + 1, LitExt(lits))
        /\ Holds(s, AtLits(i, lits), lits) /\ AtLits(i, lits) \in Nat
    BY HoldsParts
  <2> QED BY <2>1, Zenon DEF At
<1>3. code = Lit(lits) /\ mat = Mat(m)
  <2>1. Lit(lits) \in 0 .. TopCode /\ Mat(m) \in 0 .. TopCode
    BY PartsBytes
  <2> QED BY <1>2, <2>1, TokenBack, Zenon
<1> HIDE DEF code, mat
<1>4. e.ok = TRUE /\ e.next = AtLits(i, lits) /\ e.v \in Nat /\ e.v <= SizeMax - TopCode /\ n = Len(lits)
  <2>1. PICK f : /\ f = IF Lit(lits) = TopCode THEN GetVarint(s, i + 1)
                        ELSE [ok |-> TRUE, next |-> i + 1, v |-> 0]
                 /\ f.ok = TRUE /\ f.next = AtLits(i, lits) /\ f.v \in Nat
                 /\ f.v <= SizeMax - TopCode /\ Lit(lits) + f.v = Len(lits)
    BY <1>2, LitCodeBack
  <2>2. e = f
    BY <1>3, <2>1, Zenon DEF e
  <2> QED BY <1>3, <2>1, <2>2, Zenon DEF n
<1>5. lits \in Seq(Nat) /\ Len(lits) \in Nat /\ Len(out) \in Nat /\ Len(s) \in Nat
  <2>1. lits \in Seq(Nat)
    BY BytesAreNat DEF Emits
  <2> QED BY <2>1
<1>6. AtLits(i, lits) + Len(lits) <= Len(s)
  BY <1>2 DEF Holds
<1>7. ~bad
  <2>1. ~(e.v > SizeMax - TopCode)
    <3>1. \A v \in Nat : v <= SizeMax - TopCode => ~(v > SizeMax - TopCode)
      BY Format
    <3> QED BY <1>4, <3>1, Zenon
  <2>2. ~(Len(lits) > Len(s) - AtLits(i, lits))
    BY <1>2, <1>5, <1>6
  <2> QED BY <1>4, <2>1, <2>2, Zenon DEF bad
<1>8. ~(n > job.cap - Len(out))
  <2>1. ~(Len(lits) > job.cap - Len(out))
    BY <1>5
  <2> QED BY <1>4, <2>1, Zenon
<1>9. all = out \o lits
  <2>1. SubSeq(s, AtLits(i, lits) + 1, AtLits(i, lits) + Len(lits)) = lits
    BY <1>2, <1>5, HeldSlice
  <2> QED BY <1>4, <2>1, Zenon DEF all
<1>10. e.next + n = AtDist(i, lits)
  BY <1>4, Zenon DEF AtDist
<1>11. t = AfterLits(s, i, lits, m, out \o lits)
  BY <1>1, <1>3, <1>7, <1>8, <1>9, <1>10, Zenon DEF AfterLits
<1> QED BY <1>11 DEF t

(* What continues the code of a match, as the decompressor reads it.       *)
MatCode(s, j, m) == IF Mat(m) = TopCode THEN GetVarint(s, j) ELSE [ok |-> TRUE, next |-> j, v |-> 0]

(* The code of a match and what continues it give its length back.         *)
LEMMA MatCodeBack ==
  ASSUME NEW s \in Seq(Nat), NEW lits, NEW m, Emits(lits, m), m # NoMatch, NEW j \in Nat,
         Holds(s, j, MatExt(m))
  PROVE  LET e == MatCode(s, j, m) IN
         /\ e.ok = TRUE /\ e.next = j + Len(MatExt(m)) /\ e.v \in Nat
         /\ ~(e.v > SizeMax - (Mat(m) - 1 + MinMatch)) /\ Mat(m) - 1 + MinMatch + e.v = m.len
<1> DEFINE e == MatCode(s, j, m)
<1>1. m.len \in MinMatch .. SizeMax /\ TopCode = 3 /\ SizeMax = 127 /\ MinMatch \in Nat \ {0} /\ m.len # 0
  <2>1. m.len \in MinMatch .. SizeMax
    BY DEF Emits
  <2>2. TopCode = 3 /\ SizeMax = 127 /\ MinMatch \in Nat \ {0}
    BY Format
  <2>3. \A k \in MinMatch .. SizeMax : k # 0
    BY <2>2
  <2> QED BY <2>1, <2>2, <2>3, Zenon
<1>2. PICK k \in MinMatch .. 127 : k = m.len
  BY <1>1, Zenon
<1>3. Mat(m) = (IF k - MinMatch <= 2 THEN k - MinMatch ELSE 2) + 1
  <2>1. Mat(m) = (IF k - MinMatch <= TopCode - 1 THEN k - MinMatch ELSE TopCode - 1) + 1
    BY <1>1, <1>2, Zenon DEF Mat, Least
  <2>2. TopCode - 1 = 2
    BY <1>1
  <2> QED BY <2>1, <2>2, Zenon
<1>4. CASE Mat(m) = TopCode
  <2>1. MatExt(m) = Varint(k - MinMatch - 2)
    <3>1. MatExt(m) = Varint(k - MinMatch - (TopCode - 1)) /\ TopCode - 1 = 2
      BY <1>1, <1>2, <1>4 DEF MatExt
    <3> QED BY <3>1, Zenon
  <2>2. PICK v \in 0 .. SizeMax : v = k - MinMatch - 2
    BY <1>1, <1>3, <1>4
  <2>3. GetVarint(s, j) = [ok |-> TRUE, next |-> j + Len(Varint(v)), v |-> v]
    BY <2>1, <2>2, VarintBack
  <2>4. v \in Nat /\ ~(v > SizeMax - (Mat(m) - 1 + MinMatch)) /\ Mat(m) - 1 + MinMatch + v = k
    BY <1>1, <1>4, <2>2
  <2>5. e.ok = TRUE /\ e.next = j + Len(MatExt(m)) /\ e.v = v
    <3>1. e = [ok |-> TRUE, next |-> j + Len(Varint(v)), v |-> v]
      BY <1>4, <2>3, Zenon DEF MatCode
    <3> QED BY <2>1, <2>2, <3>1
  <2> QED BY <1>2, <1>4, <2>4, <2>5, Zenon
<1>5. CASE Mat(m) # TopCode
  <2>1. MatExt(m) = <<>>
    BY <1>5 DEF MatExt
  <2>2. ~(0 > SizeMax - (Mat(m) - 1 + MinMatch)) /\ Mat(m) - 1 + MinMatch + 0 = k /\ 0 \in Nat
    BY <1>1, <1>3, <1>5
  <2>3. e.ok = TRUE /\ e.next = j /\ e.v = 0
    <3>1. e = [ok |-> TRUE, next |-> j, v |-> 0]
      BY <1>5, Zenon DEF MatCode
    <3> QED BY <3>1
  <2>4. j + Len(MatExt(m)) = j
    BY <2>1
  <2> QED BY <1>2, <1>5, <2>2, <2>3, <2>4, Zenon
<1> QED BY <1>4, <1>5

(* The decompressor copies the match that emit_seq has put there, and ends *)
(* if the input does.                                                      *)
LEMMA MatchBack ==
  ASSUME NEW s \in Seq(Nat), NEW i \in Nat, NEW lits, NEW m, Emits(lits, m), m # NoMatch,
         Holds(s, i, SeqBytes(lits, m)), NEW out, job.cap \in Nat,
         Len(out) \in Nat, Len(job.dict) \in Nat, m.dist <= Len(out) + Len(job.dict), Len(out) + m.len <= job.cap
  PROVE  DecodeMatch(s, AtDist(i, lits), out, Mat(m)) =
           Turn(OK, AtNext(i, lits, m), CopyMatch(out, m.dist, m.len), AtNext(i, lits, m) = Len(s))
<1>0. ASSUME NEW k \in Nat, Holds(s, k, MatExt(m))
      PROVE  LET f == MatCode(s, k, m) IN
             /\ f.ok = TRUE /\ f.next = k + Len(MatExt(m)) /\ f.v \in Nat
             /\ ~(f.v > SizeMax - (Mat(m) - 1 + MinMatch)) /\ Mat(m) - 1 + MinMatch + f.v = m.len
  <2>1. s \in Seq(Nat) /\ Emits(lits, m) /\ m # NoMatch /\ k \in Nat /\ Holds(s, k, MatExt(m))
    BY <1>0
  <2> QED BY ONLY <2>1, MatCodeBack
<1> DEFINE j == AtDist(i, lits)
           code == Mat(m)
           d == GetVarint(s, j)
           e == IF code = TopCode THEN GetVarint(s, d.next)
                ELSE [ok |-> TRUE, next |-> d.next, v |-> 0]
           n == code - 1 + MinMatch + e.v
           bad == \/ ~d.ok \/ d.v = 0
                  \/ ~e.ok \/ e.v > SizeMax - (code - 1 + MinMatch)
                  \/ TooFar(d.v, out)
           t == DecodeMatch(s, j, out, code)
<1>1. t = IF bad THEN Turn(ErrCorruptBlock, j, out, TRUE)
          ELSE IF n > job.cap - Len(out) THEN Turn(ErrDstTooSmall, j, out, TRUE)
          ELSE Turn(OK, e.next, CopyMatch(out, d.v, n), e.next = Len(s))
  BY Zenon DEF DecodeMatch
<1> HIDE DEF d, e, n, bad, t, j, code
<1>2. /\ Holds(s, j, DistBytes(m)) /\ Holds(s, AtMatExt(i, lits, m), MatExt(m))
      /\ j \in Nat /\ AtMatExt(i, lits, m) \in Nat
  BY HoldsParts DEF j
<1>3. m.dist \in 1 .. SizeMax /\ m.len # 0 /\ m.len \in Nat
  <2>1. m.len \in MinMatch .. SizeMax /\ m.dist \in 1 .. SizeMax
    BY DEF Emits
  <2>2. \A k \in MinMatch .. SizeMax : k # 0 /\ k \in Nat
    BY Format
  <2> QED BY <2>1, <2>2, Zenon
<1>4. PICK v \in 0 .. SizeMax : v = m.dist /\ v # 0
  <2>1. \A k \in 1 .. SizeMax : k \in 0 .. SizeMax /\ k # 0
    BY Format
  <2> QED BY <1>3, <2>1, Zenon
<1>5. DistBytes(m) = Varint(v)
  BY <1>3, <1>4, Zenon DEF DistBytes
<1>6. d = [ok |-> TRUE, next |-> j + Len(Varint(v)), v |-> v]
  BY <1>2, <1>5, VarintBack DEF d
<1>7. d.ok = TRUE /\ d.next = AtMatExt(i, lits, m) /\ d.v = m.dist /\ d.v # 0
  <2>1. AtMatExt(i, lits, m) = j + Len(Varint(v))
    BY <1>5, Zenon DEF AtMatExt, j
  <2> QED BY <1>4, <1>6, <2>1
<1>8. /\ e.ok = TRUE /\ e.next = AtNext(i, lits, m)
      /\ ~(e.v > SizeMax - (code - 1 + MinMatch)) /\ n = m.len
  <2>1. PICK k \in Nat : k = AtMatExt(i, lits, m)
    BY <1>2, Zenon
  <2>2. Holds(s, k, MatExt(m))
    BY <1>2, <2>1, Zenon
  <2>3. LET f == MatCode(s, k, m) IN
        /\ f.ok = TRUE /\ f.next = k + Len(MatExt(m)) /\ f.v \in Nat
        /\ ~(f.v > SizeMax - (Mat(m) - 1 + MinMatch)) /\ Mat(m) - 1 + MinMatch + f.v = m.len
    BY <1>0, <2>2, Zenon
  <2>4. e = MatCode(s, k, m)
    BY <1>7, <2>1, Zenon DEF e, code, MatCode
  <2> QED BY <2>1, <2>3, <2>4, Zenon DEF n, code, AtNext
<1>9. ~TooFar(m.dist, out)
  <2>1. Len(out) \in Nat /\ m.dist \in Nat
    BY <1>3
  <2> QED BY <2>1 DEF TooFar
<1>10. ~bad
  BY <1>7, <1>8, <1>9, Zenon DEF bad
<1>11. ~(n > job.cap - Len(out))
  <2>1. Len(out) \in Nat
    OBVIOUS
  <2>2. ~(m.len > job.cap - Len(out))
    BY <1>3, <2>1
  <2> QED BY <1>8, <2>2, Zenon
<1>12. t = Turn(OK, AtNext(i, lits, m), CopyMatch(out, m.dist, m.len), AtNext(i, lits, m) = Len(s))
  BY <1>1, <1>7, <1>8, <1>10, <1>11, Zenon
<1> QED BY <1>12 DEF t, j, code

(* What is copied over and over again comes back after its length. *)
LEMMA ModShift ==
  ASSUME NEW d \in Nat \ {0}, NEW k \in Nat
  PROVE  k % d \in 0 .. d - 1 /\ (k < d => k % d = k) /\ (k >= d => (k - d) % d = k % d)
<1>1. PICK q \in Nat, r \in 0 .. d - 1 : q = k \div d /\ r = k % d /\ k = d * q + r
  BY DivMod
<1>2. ASSUME k < d PROVE k % d = k
  <2>1. q = 0
    <3>1. ~(q >= 1)
      <4> SUFFICES ASSUME q >= 1 PROVE FALSE
        OBVIOUS
      <4>1. d * q >= d
        OBVIOUS
      <4> QED BY <4>1, <1>1, <1>2
    <3> QED BY <3>1
  <2> QED BY <1>1, <2>1
<1>3. ASSUME k >= d PROVE (k - d) % d = k % d
  <2>0. PICK x \in Nat : x = k - d
    BY <1>3
  <2>1. PICK q2 \in Nat, r2 \in 0 .. d - 1 : r2 = x % d /\ x = d * q2 + r2
    BY DivMod
  <2>2. d * (q - (q2 + 1)) = r2 - r
    <3>1. d * (q - (q2 + 1)) = d * q - (d * q2 + d)
      OBVIOUS
    <3> QED BY <3>1, <1>1, <2>0, <2>1
  <2>3. ~(q - (q2 + 1) >= 1)
    <3> SUFFICES ASSUME q - (q2 + 1) >= 1 PROVE FALSE
      OBVIOUS
    <3>1. d * (q - (q2 + 1)) >= d
      OBVIOUS
    <3> QED BY <3>1, <2>2
  <2>4. ~(q - (q2 + 1) <= -1)
    <3> SUFFICES ASSUME q - (q2 + 1) <= -1 PROVE FALSE
      OBVIOUS
    <3>1. d * (q - (q2 + 1)) <= -d
      OBVIOUS
    <3> QED BY <3>1, <2>2
  <2>5. q - (q2 + 1) = 0
    BY <2>3, <2>4
  <2> QED BY <1>1, <2>0, <2>1, <2>2, <2>5
<1> QED BY <1>1, <1>2, <1>3

(* A match that overlaps what it is copied to repeats its first bytes, the *)
(* distance long.                                                          *)
LEMMA Periodic ==
  ASSUME NEW s \in Seq(Nat), NEW p \in Nat, NEW d \in 1 .. p, NEW n \in Nat,
         \A k \in 0 .. n - 1 : At(s, p + k) = At(s, p - d + k)
  PROVE  \A k \in 0 .. n - 1 : At(s, p + k) = At(s, p - d + (k % d))
<1> DEFINE Bad == { k \in 0 .. n - 1 : At(s, p + k) # At(s, p - d + (k % d)) }
<1>1. SUFFICES ASSUME Bad # {} PROVE FALSE
  OBVIOUS
<1>2. Bad \in SUBSET Nat
  OBVIOUS
<1>3. PICK k \in Bad : \A j \in Bad : k <= j
  <2> HIDE DEF Bad
  <2> QED BY <1>1, <1>2, NatMin
<1>4. k \in 0 .. n - 1 /\ d \in Nat \ {0} /\ At(s, p + k) # At(s, p - d + (k % d))
      /\ At(s, p + k) = At(s, p - d + k)
  BY <1>3
<1>0. \A j \in Nat : (j < d => j % d = j) /\ (j >= d => (j - d) % d = j % d)
  <2>1. d \in Nat \ {0}
    OBVIOUS
  <2> QED BY ONLY <2>1, ModShift
<1>5. k >= d
  <2> SUFFICES ASSUME k < d PROVE FALSE
    BY <1>4
  <2>1. k % d = k
    BY <1>0, <1>2, Zenon
  <2> QED BY <1>4, <2>1, Zenon
<1>6. k - d \in 0 .. n - 1 /\ k - d \notin Bad
  <2>1. k - d \in 0 .. n - 1 /\ ~(k <= k - d)
    BY <1>4, <1>5
  <2> HIDE DEF Bad
  <2> QED BY <1>3, <2>1, Zenon
<1>7. At(s, p + (k - d)) = At(s, p - d + ((k - d) % d))
  BY <1>6
<1>8. p + (k - d) = p - d + k
  BY <1>4
<1>9. (k - d) % d = k % d
  BY <1>0, <1>2, <1>5, Zenon
<1> QED BY <1>4, <1>7, <1>8, <1>9, Zenon

(* The first bytes of the block. *)
First(n) == SubSeq(job.src, 1, n)

(* They are as many as that. *)
LEMMA FirstBytes ==
  ASSUME job \in Jobs, NEW n \in Nat, n <= Len(job.src)
  PROVE  /\ First(n) \in Seq(Nat) /\ Len(First(n)) = n
         /\ \A i \in 1 .. n : First(n)[i] = job.src[i]
<1>1. job.src \in Seq(Nat)
  BY JobSizes, BytesAreNat
<1>2. \A k \in Nat : k <= Len(job.src) =>
        /\ SubSeq(job.src, 1, k) \in Seq(Nat) /\ Len(SubSeq(job.src, 1, k)) = k
        /\ \A i \in 1 .. k : SubSeq(job.src, 1, k)[i] = job.src[i]
  <2> SUFFICES ASSUME NEW s \in Seq(Nat), NEW k \in Nat, k <= Len(s)
               PROVE  /\ SubSeq(s, 1, k) \in Seq(Nat) /\ Len(SubSeq(s, 1, k)) = k
                      /\ \A i \in 1 .. k : SubSeq(s, 1, k)[i] = s[i]
    BY <1>1
  <2>1. 0 \in Nat /\ 0 + k <= Len(s) /\ 0 + 1 = 1 /\ 0 + k = k /\ \A i \in 1 .. k : 0 + i = i
    OBVIOUS
  <2>2. /\ SubSeq(s, 0 + 1, 0 + k) \in Seq(Nat) /\ Len(SubSeq(s, 0 + 1, 0 + k)) = k
        /\ \A i \in 1 .. k : SubSeq(s, 0 + 1, 0 + k)[i] = s[0 + i]
    BY ONLY s \in Seq(Nat), k \in Nat, <2>1, Slice
  <2> QED BY <2>1, <2>2
<1> QED BY <1>2, Zenon DEF First

(* A match of the compressor, copied by the decompressor, makes its bytes. *)
LEMMA CopyMatchBack ==
  ASSUME job \in Jobs, NEW p \in Positions, NEW m, MatchAt(p, m), m.len >= MinMatch
  PROVE  CopyMatch(First(p), m.dist, m.len) = First(p + m.len)
<1>1. /\ job.src \in Seq(Nat) /\ job.dict \in Seq(Nat) /\ Len(job.src) \in Nat /\ Len(job.dict) \in Nat
  <2>1. job.src \in Seq(Bytes) /\ job.dict \in Seq(Bytes)
    BY JobSizes
  <2>2. job.src \in Seq(Nat) /\ job.dict \in Seq(Nat)
    BY <2>1, BytesAreNat
  <2> QED BY <2>2
<1>2. p \in Nat /\ p < Len(job.src)
  BY <1>1 DEF Positions
<1>3. PICK n \in Nat \ {0} : n = m.len /\ p + n <= Len(job.src)
  <2>1. m.len \in Nat /\ m.len <= Len(job.src) - p /\ m.len # 0
    BY Format DEF MatchAt, MatchOf
  <2> QED BY <1>1, <1>2, <2>1
<1>4. PICK d \in Nat : d = m.dist
  BY DEF MatchAt, MatchOf
<1> DEFINE out == First(p)
           all == First(p + n)
<1>5. /\ out \in Seq(Nat) /\ Len(out) = p /\ (\A i \in 1 .. p : out[i] = job.src[i])
  BY <1>1, <1>2, FirstBytes
<1>6. /\ all \in Seq(Nat) /\ Len(all) = p + n /\ (\A i \in 1 .. p + n : all[i] = job.src[i])
  <2>1. PICK k \in Nat : k = p + n /\ k <= Len(job.src)
    BY <1>2, <1>3
  <2>2. /\ First(k) \in Seq(Nat) /\ Len(First(k)) = k /\ (\A i \in 1 .. k : First(k)[i] = job.src[i])
    BY <2>1, FirstBytes
  <2> QED BY <2>1, <2>2, Zenon DEF all
<1> HIDE DEF out, all
<1>7. CASE d \in 1 .. p
  <2> DEFINE c == CopyWithin(out, d, n)
  <2>1. /\ c \in Seq(Nat) /\ Len(c) = Len(out) + n
        /\ (\A i \in 1 .. Len(out) : c[i] = out[i])
        /\ (\A i \in 1 .. n : c[Len(out) + i] = out[Len(out) - d + ((i - 1) % d) + 1])
    BY ZenonT(60), <1>5, <1>7, CopyWithinInside
  <2> HIDE DEF c
  <2>2. \A k \in 0 .. n - 1 : At(job.src, p + k) = At(job.src, p - d + k)
    <3>1. CASE m.dist \in 1 .. p /\ \A k \in 0 .. m.len - 1 : At(job.src, p + k) = At(job.src, p - m.dist + k)
      BY <1>3, <1>4, <3>1, Zenon
    <3>2. CASE m.dist - p \in 1 .. Len(job.dict)
      BY <1>1, <1>2, <1>4, <1>7, <3>2
    <3> QED BY <3>1, <3>2, Zenon DEF MatchAt, MatchOf
  <2>3. \A k \in 0 .. n - 1 : At(job.src, p + k) = At(job.src, p - d + (k % d))
    BY ZenonT(60), <1>1, <1>2, <1>7, <2>2, Periodic
  <2>4. ASSUME NEW i \in 1 .. n PROVE c[p + i] = job.src[p + i]
    <3>1. i - 1 \in 0 .. n - 1 /\ p + (i - 1) + 1 = p + i
      BY <1>2
    <3>2. (i - 1) % d \in 0 .. d - 1
      <4>1. i - 1 \in Nat /\ d \in Nat \ {0}
        BY <1>7
      <4> QED BY ONLY <4>1, ModShift
    <3>3. p - d + ((i - 1) % d) + 1 \in 1 .. p
      BY <1>2, <1>7, <3>2
    <3>4. c[p + i] = job.src[p - d + ((i - 1) % d) + 1]
      BY <1>5, <2>1, <3>3
    <3>5. job.src[p + (i - 1) + 1] = job.src[p - d + ((i - 1) % d) + 1]
      BY <2>3, <3>1, Zenon DEF At
    <3> QED BY <3>1, <3>4, <3>5
  <2>5. \A i \in 1 .. p + n : c[i] = all[i]
    <3> SUFFICES ASSUME NEW i \in 1 .. p + n PROVE c[i] = all[i]
      OBVIOUS
    <3>1. CASE i <= p
      <4>1. i \in 1 .. p /\ i \in 1 .. Len(out)
        BY <1>2, <1>5, <3>1
      <4>2. c[i] = out[i] /\ out[i] = job.src[i] /\ all[i] = job.src[i]
        BY <1>5, <1>6, <2>1, <4>1, Zenon
      <4> QED BY <4>2
    <3>2. CASE i > p
      <4>1. PICK j \in 1 .. n : i = p + j
        <5>1. i - p \in 1 .. n /\ i = p + (i - p)
          BY <1>2, <3>2
        <5> QED BY <5>1
      <4> QED BY <1>6, <2>4, <4>1
    <3> QED BY <1>2, <3>1, <3>2
  <2>6. c = all
    <3>1. c \in Seq(Nat) /\ all \in Seq(Nat) /\ Len(c) = Len(all) /\ \A i \in 1 .. Len(c) : c[i] = all[i]
      BY <1>5, <1>6, <2>1, <2>5
    <3> QED BY ONLY <3>1, SeqEqual
  <2>7. CopyMatch(out, d, n) = c
    <3>1. d <= Len(out)
      BY <1>5, <1>7
    <3> QED BY <3>1, Zenon DEF CopyMatch, c
  <2> QED BY <1>3, <1>4, <2>6, <2>7, Zenon DEF out, all
<1>8. CASE ~(d \in 1 .. p)
  <2>1. /\ m.dist - p \in 1 .. Len(job.dict) /\ m.len <= m.dist - p
        /\ \A k \in 0 .. m.len - 1 : At(job.src, p + k) = At(job.dict, Len(job.dict) - (m.dist - p) + k)
    BY <1>4, <1>8, Zenon DEF MatchAt, MatchOf
  <2>2. PICK b \in 1 .. Len(job.dict) : b = d - p /\ n <= b
        /\ \A k \in 0 .. n - 1 : At(job.src, p + k) = At(job.dict, Len(job.dict) - b + k)
    BY <1>3, <1>4, <2>1, Zenon
  <2>3. Least(b, n) = n /\ n - n = 0
    BY <1>1, <2>2 DEF Least
  <2> DEFINE new == FromDict(b, n)
             more == out \o new
             c == CopyWithin(more, Len(more), 0)
  <2>4. /\ new \in Seq(Nat) /\ Len(new) = n
        /\ \A i \in 1 .. n : new[i] = job.dict[Len(job.dict) - b + i]
    BY <1>1, <2>2, FromDictInside
  <2> HIDE DEF new
  <2>5. /\ more \in Seq(Nat) /\ Len(more) = p + n
        /\ \A i \in 1 .. p + n : more[i] = IF i <= p THEN out[i] ELSE new[i - p]
    BY ZenonT(60), <1>5, <2>4, ConcatProperties
  <2> HIDE DEF more
  <2>6. /\ c \in Seq(Nat) /\ Len(c) = Len(more) + 0 /\ \A i \in 1 .. Len(more) : c[i] = more[i]
    <3>1. Len(more) \in 1 .. Len(more) /\ 0 \in Nat
      BY <1>2, <2>5
    <3> QED BY <2>5, <3>1, CopyWithinInside
  <2> HIDE DEF c
  <2>7. ASSUME NEW i \in 1 .. n PROVE new[i] = job.src[p + i]
    <3>1. i - 1 \in 0 .. n - 1 /\ p + (i - 1) + 1 = p + i /\ Len(job.dict) - b + (i - 1) + 1 = Len(job.dict) - b + i
      BY <1>1, <1>2
    <3>2. job.src[p + (i - 1) + 1] = job.dict[Len(job.dict) - b + (i - 1) + 1]
      BY <2>2, <3>1, Zenon DEF At
    <3> QED BY <2>4, <3>1, <3>2
  <2>8. \A i \in 1 .. p + n : c[i] = all[i]
    <3> SUFFICES ASSUME NEW i \in 1 .. p + n PROVE c[i] = all[i]
      OBVIOUS
    <3>1. CASE i <= p
      <4>1. i \in 1 .. p /\ i \in 1 .. Len(more)
        BY <1>2, <2>5, <3>1
      <4>2. c[i] = more[i] /\ more[i] = out[i] /\ out[i] = job.src[i] /\ all[i] = job.src[i]
        BY <1>5, <1>6, <2>5, <2>6, <3>1, <4>1, Zenon
      <4> QED BY <4>2
    <3>2. CASE i > p
      <4>1. PICK j \in 1 .. n : i = p + j /\ i - p = j /\ ~(i <= p)
        <5>1. i - p \in 1 .. n /\ i = p + (i - p) /\ ~(i <= p)
          BY <1>2, <3>2
        <5> QED BY <5>1, Zenon
      <4>2. c[i] = new[j]
        BY <2>5, <2>6, <4>1
      <4> QED BY <1>6, <2>7, <4>1, <4>2
    <3> QED BY <1>2, <3>1, <3>2
  <2>9. c = all
    <3>1. c \in Seq(Nat) /\ all \in Seq(Nat) /\ Len(c) = Len(all) /\ \A i \in 1 .. Len(c) : c[i] = all[i]
      BY <1>2, <1>6, <2>5, <2>6, <2>8
    <3> QED BY ONLY <3>1, SeqEqual
  <2>10. CopyMatch(out, d, n) = c
    <3>1. ~(d <= Len(out)) /\ b = d - Len(out)
      BY <1>2, <1>5, <1>8, <2>2
    <3> QED BY <2>3, <3>1, Zenon DEF CopyMatch, c, more, new
  <2> QED BY <1>3, <1>4, <2>9, <2>10, Zenon DEF out, all
<1> QED BY <1>7, <1>8

-----------------------------------------------------------------------------
(* The way through a stream *)

(* A place in the stream and a place in the block, where a sequence ends   *)
(* and the next begins.                                                    *)
Points(j) == Nat \X (0 .. Len(j.src))

(* The literals of the block from a to u. *)
Between(j, a, u) == SubSeq(j.src, a + 1, u)

(* A sequence with a match leads from x to y. *)
Segment(j, s, x, y) ==
  \E u \in 0 .. Len(j.src) - 1 : \E m :
    /\ x[2] <= u /\ MatchOf(j, u, m) /\ m.len >= MinMatch
    /\ Emits(Between(j, x[2], u), m)
    /\ Holds(s, x[1], SeqBytes(Between(j, x[2], u), m))
    /\ y = <<x[1] + Len(SeqBytes(Between(j, x[2], u), m)), u + m.len>>

(* A sequence without one leads from x to the end of both. *)
Final(j, s, x) ==
  /\ Emits(Between(j, x[2], Len(j.src)), NoMatch)
  /\ Holds(s, x[1], SeqBytes(Between(j, x[2], Len(j.src)), NoMatch))
  /\ x[1] + Len(SeqBytes(Between(j, x[2], Len(j.src)), NoMatch)) = Len(s)

(* The stream s codes the block up to e. *)
Trail(j, s, e) ==
  \E S \in SUBSET Points(j) :
    /\ <<0, 0>> \in S /\ e \in S
    /\ \A x \in S : x = e \/ \E y \in S : Segment(j, s, x, y)

(* The stream s codes the block from x0 to its end. *)
Decodes(j, s, x0) ==
  \E S \in SUBSET Points(j) :
    /\ x0 \in S
    /\ \A x \in S : Final(j, s, x) \/ \E y \in S : Segment(j, s, x, y)

(* What is decoded, and the literals behind it. *)
LEMMA FirstThen ==
  ASSUME job \in Jobs, NEW a \in Nat, NEW u \in Nat, a <= u, u <= Len(job.src)
  PROVE  /\ First(a) \o Between(job, a, u) = First(u) /\ First(a) \in Seq(Nat) /\ Len(First(a)) = a
         /\ Between(job, a, u) \in Seq(Nat) /\ Len(Between(job, a, u)) = u - a
<1>1. job.src \in Seq(Nat) /\ Len(job.src) \in Nat
  <2>1. job.src \in Seq(Nat)
    BY JobSizes, BytesAreNat
  <2> QED BY <2>1
<1>2. ASSUME NEW s \in Seq(Nat), u <= Len(s)
      PROVE  /\ SubSeq(s, 1, a) \o SubSeq(s, a + 1, u) = SubSeq(s, 1, u)
             /\ SubSeq(s, a + 1, u) \in Seq(Nat) /\ Len(SubSeq(s, a + 1, u)) = u - a
  <2>1. 1 \in 1 .. Len(s) + 1 /\ a \in 1 - 1 .. Len(s) /\ u \in a .. Len(s)
    BY <1>2
  <2>2. SubSeq(s, 1, a) \o SubSeq(s, a + 1, u) = SubSeq(s, 1, u)
    BY ONLY <2>1, s \in Seq(Nat), ConcatAdjacentSubSeq
  <2>3. u - a \in Nat /\ a + (u - a) = u
    OBVIOUS
  <2>4. \A n \in Nat : a + n <= Len(s) => SubSeq(s, a + 1, a + n) \in Seq(Nat) /\ Len(SubSeq(s, a + 1, a + n)) = n
    BY Slice
  <2>5. SubSeq(s, a + 1, a + (u - a)) \in Seq(Nat) /\ Len(SubSeq(s, a + 1, a + (u - a))) = u - a
    BY <1>2, <2>3, <2>4, Zenon
  <2> QED BY <2>2, <2>3, <2>5, Zenon
<1>3. a <= Len(job.src)
  BY <1>1
<1>4. First(a) \in Seq(Nat) /\ Len(First(a)) = a
  BY <1>3, FirstBytes
<1> QED BY <1>1, <1>2, <1>4, Zenon DEF First, Between

(* The decompressor goes one sequence on with the way. *)
LEMMA SegmentDecoded ==
  ASSUME job \in Jobs, job.cap = Len(job.src), NEW s \in Seq(Nat), NEW i \in Nat,
         NEW a \in 0 .. Len(job.src), NEW y, Segment(job, s, <<i, a>>, y)
  PROVE  /\ y \in Points(job) /\ i < Len(s) /\ y[1] <= Len(s)
         /\ DecodeSeq(s, i, First(a)) = Turn(OK, y[1], First(y[2]), y[1] = Len(s))
<1>0. PICK u \in 0 .. Len(job.src) - 1 : \E m :
        /\ a <= u /\ MatchOf(job, u, m) /\ m.len >= MinMatch
        /\ Emits(Between(job, a, u), m)
        /\ Holds(s, i, SeqBytes(Between(job, a, u), m))
        /\ y = <<i + Len(SeqBytes(Between(job, a, u), m)), u + m.len>>
  BY DEF Segment
<1>1. PICK m :
        /\ a <= u /\ MatchOf(job, u, m) /\ m.len >= MinMatch
        /\ Emits(Between(job, a, u), m)
        /\ Holds(s, i, SeqBytes(Between(job, a, u), m))
        /\ y = <<i + Len(SeqBytes(Between(job, a, u), m)), u + m.len>>
  BY <1>0
<1> DEFINE lits == Between(job, a, u)
<1>2. Len(job.src) \in Nat /\ Len(job.dict) \in Nat /\ job.cap \in Nat
  BY JobSizes
<1>3. u \in Positions /\ u \in Nat /\ a \in Nat /\ u <= Len(job.src) /\ MatchAt(u, m)
  BY <1>1, <1>2 DEF Positions, MatchAt
<1>4. /\ First(a) \o lits = First(u) /\ First(a) \in Seq(Nat) /\ Len(First(a)) = a
      /\ lits \in Seq(Nat) /\ Len(lits) = u - a
  BY <1>1, <1>3, FirstThen
<1> HIDE DEF lits
<1>5. /\ m.len \in Nat /\ m.dist \in Nat /\ m.dist <= u + Len(job.dict) /\ u + m.len <= Len(job.src)
      /\ m # NoMatch /\ m.len # 0
  <2>1. m.len \in Nat /\ m.dist \in Nat /\ m.len <= Len(job.src) - u /\ m.dist - u <= Len(job.dict)
    BY SMTT(30), <1>1, <1>2, <1>3 DEF MatchAt, MatchOf
  <2>2. m.len # 0
    BY <1>1, <2>1, Format
  <2>3. m # NoMatch
    BY <2>2 DEF NoMatch
  <2>4. PICK l, d, x, z \in Nat : l = Len(job.src) /\ d = Len(job.dict) /\ x = m.len /\ z = m.dist
    BY <1>2, <2>1, Zenon
  <2>5. z <= u + d /\ u + x <= l
    <3>1. x <= l - u /\ z - u <= d /\ u \in Nat
      BY <1>3, <2>1, <2>4, Zenon
    <3> QED BY ONLY <3>1, l \in Nat, d \in Nat, x \in Nat, z \in Nat
  <2> QED BY <2>1, <2>2, <2>3, <2>4, <2>5, Zenon
<1>6. Emits(lits, m) /\ Holds(s, i, SeqBytes(lits, m))
      /\ y = <<i + Len(SeqBytes(lits, m)), u + m.len>>
  BY <1>1 DEF lits
<1>7. First(u) \in Seq(Nat) /\ Len(First(u)) = u
  BY <1>3, FirstBytes
<1>8. /\ AtNext(i, lits, m) = i + Len(SeqBytes(lits, m)) /\ AtNext(i, lits, m) <= Len(s)
      /\ i < Len(s) /\ AtNext(i, lits, m) \in Nat
  <2>1. /\ AtNext(i, lits, m) = i + Len(SeqBytes(lits, m)) /\ AtNext(i, lits, m) <= Len(s) /\ i < Len(s)
    BY <1>6, HoldsParts
  <2>2. SeqBytes(lits, m) \in Seq(Bytes)
    BY <1>6, SeqBytesBytes
  <2>3. i + Len(SeqBytes(lits, m)) \in Nat
    BY <2>2
  <2> QED BY <2>1, <2>3
<1>9. Mat(m) # 0
  <2>1. m.len - MinMatch \in Nat
    BY <1>1, <1>5, Format
  <2>2. Least(m.len - MinMatch, TopCode - 1) \in Nat
    BY <2>1, Format DEF Least
  <2> QED BY <1>5, <2>2 DEF Mat
<1>10. DecodeSeq(s, i, First(a)) = DecodeMatch(s, AtDist(i, lits), First(u), Mat(m))
  <2>1. Len(First(a)) + Len(lits) <= job.cap /\ Len(First(a)) \in Nat
    BY <1>2, <1>3, <1>4
  <2>2. PICK o : o = First(a)
    OBVIOUS
  <2>3. /\ s \in Seq(Nat) /\ i \in Nat /\ Emits(lits, m) /\ Holds(s, i, SeqBytes(lits, m))
        /\ Len(o) \in Nat /\ job.cap \in Nat /\ Len(o) + Len(lits) <= job.cap
    BY <1>2, <1>6, <2>1, <2>2, Zenon
  <2>4. DecodeSeq(s, i, o) = AfterLits(s, i, lits, m, o \o lits)
    BY ONLY <2>3, LitsBack
  <2> QED BY <1>4, <1>9, <2>2, <2>4, Zenon DEF AfterLits
<1>11. DecodeMatch(s, AtDist(i, lits), First(u), Mat(m)) =
         Turn(OK, AtNext(i, lits, m), CopyMatch(First(u), m.dist, m.len), AtNext(i, lits, m) = Len(s))
  <2>1. Len(First(u)) \in Nat /\ m.dist <= Len(First(u)) + Len(job.dict) /\ Len(First(u)) + m.len <= job.cap
    BY <1>3, <1>5, <1>7, Zenon
  <2> HIDE DEF First
  <2> QED BY <1>2, <1>5, <1>6, <2>1, MatchBack
<1>12. CopyMatch(First(u), m.dist, m.len) = First(u + m.len)
  BY <1>1, <1>3, CopyMatchBack
<1>13. y[1] = AtNext(i, lits, m) /\ y[2] = u + m.len
  BY <1>6, <1>8
<1>14. y \in Points(job)
  <2>1. u + m.len \in 0 .. Len(job.src)
    BY <1>2, <1>3, <1>5
  <2> QED BY <1>6, <1>8, <2>1 DEF Points
<1> QED BY <1>8, <1>10, <1>11, <1>12, <1>13, <1>14, Zenon

(* And at its end it has the block. *)
LEMMA FinalDecoded ==
  ASSUME job \in Jobs, job.cap = Len(job.src), NEW s \in Seq(Nat), NEW i \in Nat,
         NEW a \in 0 .. Len(job.src), Final(job, s, <<i, a>>)
  PROVE  /\ i < Len(s)
         /\ \E e : DecodeSeq(s, i, First(a)) = Turn(OK, e, job.src, TRUE)
<1> DEFINE lits == Between(job, a, Len(job.src))
<1>1. Emits(lits, NoMatch) /\ Holds(s, i, SeqBytes(lits, NoMatch))
  BY DEF Final
<1>2. Len(job.src) \in Nat /\ job.cap \in Nat /\ a \in Nat /\ a <= Len(job.src)
  BY JobSizes
<1>3. /\ First(a) \o lits = First(Len(job.src)) /\ First(a) \in Seq(Nat) /\ Len(First(a)) = a
      /\ lits \in Seq(Nat) /\ Len(lits) = Len(job.src) - a
  <2>1. PICK l \in Nat : l = Len(job.src)
    BY <1>2
  <2>2. /\ First(a) \o Between(job, a, l) = First(l) /\ First(a) \in Seq(Nat) /\ Len(First(a)) = a
        /\ Between(job, a, l) \in Seq(Nat) /\ Len(Between(job, a, l)) = l - a
    <3>1. job \in Jobs /\ a \in Nat /\ l \in Nat /\ a <= l /\ l <= Len(job.src)
      BY <1>2, <2>1
    <3> QED BY ONLY <3>1, FirstThen
  <2> QED BY <2>1, <2>2, Zenon
<1> HIDE DEF lits
<1>4. i < Len(s)
  BY <1>1, HoldsParts
<1>5. Mat(NoMatch) = 0
  BY DEF Mat, NoMatch
<1>6. DecodeSeq(s, i, First(a)) = Turn(OK, AtDist(i, lits), First(a) \o lits, TRUE)
  <2>1. Len(First(a)) + Len(lits) <= job.cap /\ Len(First(a)) \in Nat
    BY <1>2, <1>3
  <2>2. PICK o : o = First(a)
    OBVIOUS
  <2>3. /\ s \in Seq(Nat) /\ i \in Nat /\ Emits(lits, NoMatch) /\ Holds(s, i, SeqBytes(lits, NoMatch))
        /\ Len(o) \in Nat /\ job.cap \in Nat /\ Len(o) + Len(lits) <= job.cap
    BY <1>2, <1>1, <2>1, <2>2, Zenon
  <2>4. DecodeSeq(s, i, o) = AfterLits(s, i, lits, NoMatch, o \o lits)
    BY ONLY <2>3, LitsBack
  <2> QED BY <1>5, <2>2, <2>4, Zenon DEF AfterLits
<1>7. First(Len(job.src)) = job.src
  <2>1. job.src \in Seq(Nat)
    BY JobSizes, BytesAreNat
  <2>2. \A t \in Seq(Nat) : SubSeq(t, 1, Len(t)) = t
    BY SubSeqFull
  <2> QED BY <2>1, <2>2, Zenon DEF First
<1> QED BY <1>3, <1>4, <1>6, <1>7, Zenon

(* What stands in a stream still stands there when more is written. *)
LEMMA HoldsLonger ==
  ASSUME NEW s \in Seq(Nat), NEW w \in Seq(Nat), NEW i \in Nat, NEW v \in Seq(Nat), Holds(s, i, v)
  PROVE  Holds(s \o w, i, v)
<1>1. i + Len(v) <= Len(s) /\ \A k \in 1 .. Len(v) : s[i + k] = v[k]
  BY DEF Holds
<1>2. /\ Len(s \o w) = Len(s) + Len(w)
      /\ \A k \in 1 .. Len(s) + Len(w) : (s \o w)[k] = IF k <= Len(s) THEN s[k] ELSE w[k - Len(s)]
  BY ConcatProperties
<1>3. PICK ls, lw, lv \in Nat : ls = Len(s) /\ lw = Len(w) /\ lv = Len(v)
  OBVIOUS
<1>4. ASSUME NEW k \in 1 .. lv PROVE i + k \in 1 .. ls + lw /\ i + k <= ls
  BY <1>1, <1>3
<1>5. \A k \in 1 .. lv : (s \o w)[i + k] = v[k]
  BY <1>1, <1>2, <1>3, <1>4, Zenon
<1>6. i + lv <= ls + lw
  BY <1>1, <1>3
<1> QED BY <1>2, <1>3, <1>5, <1>6, Zenon DEF Holds

(* So do the sequences of a way. *)
LEMMA SegmentLonger ==
  ASSUME NEW j \in Jobs, NEW s \in Seq(Nat), NEW w \in Seq(Nat), NEW x \in Points(j), NEW y,
         Segment(j, s, x, y)
  PROVE  Segment(j, s \o w, x, y)
<1>1. PICK u \in 0 .. Len(j.src) - 1 : \E m :
        /\ x[2] <= u /\ MatchOf(j, u, m) /\ m.len >= MinMatch
        /\ Emits(Between(j, x[2], u), m)
        /\ Holds(s, x[1], SeqBytes(Between(j, x[2], u), m))
        /\ y = <<x[1] + Len(SeqBytes(Between(j, x[2], u), m)), u + m.len>>
  BY Zenon DEF Segment
<1>2. PICK m :
        /\ x[2] <= u /\ MatchOf(j, u, m) /\ m.len >= MinMatch
        /\ Emits(Between(j, x[2], u), m)
        /\ Holds(s, x[1], SeqBytes(Between(j, x[2], u), m))
        /\ y = <<x[1] + Len(SeqBytes(Between(j, x[2], u), m)), u + m.len>>
  BY <1>1, Zenon
<1>3. SeqBytes(Between(j, x[2], u), m) \in Seq(Nat)
  BY <1>2, SeqBytesBytes, BytesAreNat
<1>4. x[1] \in Nat
  BY DEF Points
<1>5. Holds(s \o w, x[1], SeqBytes(Between(j, x[2], u), m))
  BY <1>2, <1>3, <1>4, HoldsLonger, Zenon
<1> QED BY <1>2, <1>5, Zenon DEF Segment

(* A sequence with a match carries the way on. *)
LEMMA TrailOn ==
  ASSUME NEW j \in Jobs, NEW s \in Seq(Nat), NEW w \in Seq(Nat), NEW e, NEW y \in Points(j),
         Trail(j, s, e), Segment(j, s \o w, e, y)
  PROVE  Trail(j, s \o w, y)
<1>1. PICK S \in SUBSET Points(j) :
        /\ <<0, 0>> \in S /\ e \in S
        /\ \A x \in S : x = e \/ \E z \in S : Segment(j, s, x, z)
  BY Zenon DEF Trail
<1> DEFINE T == S \cup {y}
<1>2. T \in SUBSET Points(j) /\ <<0, 0>> \in T /\ y \in T
  BY <1>1
<1>3. ASSUME NEW x \in T PROVE x = y \/ \E z \in T : Segment(j, s \o w, x, z)
  <2>1. CASE x = e
    BY <2>1
  <2>2. CASE x \in S /\ x # e
    <3>1. PICK z \in S : Segment(j, s, x, z)
      BY <1>1, <2>2, Zenon
    <3>2. x \in Points(j)
      BY <1>1, <2>2
    <3>3. Segment(j, s \o w, x, z)
      BY <3>1, <3>2, SegmentLonger
    <3> QED BY <3>3
  <2> QED BY <2>1, <2>2
<1> HIDE DEF T
<1> QED BY <1>2, <1>3, Zenon DEF Trail

(* One without brings it to its end. *)
LEMMA TrailEnds ==
  ASSUME NEW j \in Jobs, NEW s \in Seq(Nat), NEW w \in Seq(Nat), NEW e,
         Trail(j, s, e), Final(j, s \o w, e)
  PROVE  Decodes(j, s \o w, <<0, 0>>)
<1>1. PICK S \in SUBSET Points(j) :
        /\ <<0, 0>> \in S /\ e \in S
        /\ \A x \in S : x = e \/ \E z \in S : Segment(j, s, x, z)
  BY Zenon DEF Trail
<1>2. ASSUME NEW x \in S PROVE Final(j, s \o w, x) \/ \E z \in S : Segment(j, s \o w, x, z)
  <2>1. CASE x = e
    BY <2>1
  <2>2. CASE x # e
    <3>1. PICK z \in S : Segment(j, s, x, z)
      BY <1>1, <2>2, Zenon
    <3>2. x \in Points(j)
      BY <1>1
    <3>3. Segment(j, s \o w, x, z)
      BY <3>1, <3>2, SegmentLonger
    <3> QED BY <3>3
  <2> QED BY <2>1, <2>2
<1> QED BY <1>1, <1>2, Zenon DEF Decodes

(* What is written stands at the end. *)
LEMMA HoldsEnd ==
  ASSUME NEW s \in Seq(Nat), NEW w \in Seq(Nat)
  PROVE  Holds(s \o w, Len(s), w) /\ Len(s \o w) = Len(s) + Len(w) /\ s \o w \in Seq(Nat)
<1>2. /\ Len(s \o w) = Len(s) + Len(w) /\ s \o w \in Seq(Nat)
      /\ \A k \in 1 .. Len(s) + Len(w) : (s \o w)[k] = IF k <= Len(s) THEN s[k] ELSE w[k - Len(s)]
  BY ConcatProperties
<1>3. PICK ls, lw \in Nat : ls = Len(s) /\ lw = Len(w)
  OBVIOUS
<1>4. \A a, b \in Nat : \A k \in 1 .. b : a + k \in 1 .. a + b /\ ~(a + k <= a) /\ (a + k) - a = k
  OBVIOUS
<1>5. \A k \in 1 .. lw : (s \o w)[ls + k] = w[k]
  BY <1>2, <1>3, <1>4, Zenon
<1>6. ls + lw <= ls + lw
  BY <1>3
<1> QED BY <1>2, <1>3, <1>5, <1>6, Zenon DEF Holds

(* From a place of the way, the decompressor takes one more sequence, and  *)
(* is at the next place of it, or done.                                    *)
LEMMA DecodesOn ==
  ASSUME job \in Jobs, job.cap = Len(job.src), NEW s \in Seq(Nat), NEW i \in Nat,
         NEW a \in 0 .. Len(job.src), Decodes(job, s, <<i, a>>)
  PROVE  /\ i < Len(s)
         /\ \/ \E e : DecodeSeq(s, i, First(a)) = Turn(OK, e, job.src, TRUE)
            \/ \E y \in Points(job) : /\ Decodes(job, s, y)
                                      /\ DecodeSeq(s, i, First(a)) = Turn(OK, y[1], First(y[2]), FALSE)
<1>1. PICK S \in SUBSET Points(job) :
        /\ <<i, a>> \in S
        /\ \A x \in S : Final(job, s, x) \/ \E y \in S : Segment(job, s, x, y)
  BY Zenon DEF Decodes
<1>2. ASSUME NEW x \in S PROVE x[1] < Len(s)
  <2>1. x[1] \in Nat /\ x[2] \in 0 .. Len(job.src) /\ x = <<x[1], x[2]>>
    BY <1>1 DEF Points
  <2>2. PICK k \in Nat, b \in 0 .. Len(job.src) : k = x[1] /\ b = x[2] /\ x = <<k, b>>
    BY <2>1
  <2>3. CASE Final(job, s, x)
    <3>1. Final(job, s, <<k, b>>)
      BY <2>2, <2>3, Zenon
    <3>2. k < Len(s)
      BY <3>1, FinalDecoded
    <3> QED BY <2>2, <3>2
  <2>4. CASE \E y \in S : Segment(job, s, x, y)
    <3>1. PICK y \in S : Segment(job, s, x, y)
      BY <2>4
    <3>2. Segment(job, s, <<k, b>>, y)
      BY <2>2, <3>1, Zenon
    <3>3. k < Len(s)
      BY <3>2, SegmentDecoded
    <3> QED BY <2>2, <3>3
  <2> QED BY <1>1, <2>3, <2>4, Zenon
<1>3. i < Len(s)
  BY <1>1, <1>2
<1>4. CASE Final(job, s, <<i, a>>)
  BY <1>3, <1>4, FinalDecoded
<1>5. CASE \E y \in S : Segment(job, s, <<i, a>>, y)
  <2>1. PICK y \in S : Segment(job, s, <<i, a>>, y)
    BY <1>5
  <2>2. DecodeSeq(s, i, First(a)) = Turn(OK, y[1], First(y[2]), y[1] = Len(s))
    BY <2>1, SegmentDecoded
  <2>3. (y[1] = Len(s)) = FALSE
    <3>1. y[1] < Len(s) /\ y[1] \in Nat /\ Len(s) \in Nat
      BY <1>1, <1>2 DEF Points
    <3> QED BY <3>1
  <2>4. DecodeSeq(s, i, First(a)) = Turn(OK, y[1], First(y[2]), FALSE)
    BY <2>2, <2>3
  <2>5. Decodes(job, s, y) /\ y \in Points(job)
    BY <1>1, Zenon DEF Decodes
  <2> QED BY <1>3, <2>4, <2>5
<1> QED BY <1>1, <1>4, <1>5, Zenon

-----------------------------------------------------------------------------
(* Loops *)

(* A loop from 0 to N reaches each number between. *)
LEMMA Climb ==
  ASSUME NEW N \in Nat, NEW S, 0 \in S, \A n \in 0 .. N - 1 : n \in S => n + 1 \in S
  PROVE  \A n \in 0 .. N : n \in S
<1> DEFINE Left == { n \in 0 .. N : n \notin S }
<1>1. SUFFICES ASSUME Left # {} PROVE FALSE
  OBVIOUS
<1>2. PICK m \in Left : \A k \in Left : m <= k
  <2>1. Left \in SUBSET Nat
    OBVIOUS
  <2> HIDE DEF Left
  <2> QED BY <1>1, <2>1, NatMin
<1>3. m \in 1 .. N /\ m \notin S
  <2>1. m # 0
    BY <1>2
  <2> QED BY <1>2, <2>1
<1>4. m - 1 \in 0 .. N - 1 /\ (m - 1) + 1 = m /\ ~(m <= m - 1)
  BY <1>3
<1>5. m - 1 \in S
  <2>1. m - 1 \notin Left
    BY <1>2, <1>4, Zenon
  <2>2. m - 1 \in 0 .. N
    BY <1>4
  <2> QED BY <2>1, <2>2
<1> QED BY <1>3, <1>4, <1>5, Zenon

(* A value that each turn of a loop makes from the last one: from a, by F, *)
(* N times.                                                                *)
IsLoop(N, A, a, F, f) ==
  f \in [0 .. N -> A] /\ f[0] = a /\ \A n \in 1 .. N : f[n] = F[<<f[n - 1], n>>]

HasLoop(N, A, a, F) == \E f : IsLoop(N, A, a, F, f)

(* There is a loop from any start by any step. *)
LEMMA Loop ==
  ASSUME NEW N \in Nat, NEW A, NEW a \in A, NEW F \in [A \X Nat -> A]
  PROVE  HasLoop(N, A, a, F)
<1> DEFINE Turns(n, g) == g[0] = a /\ \A k \in 1 .. n : g[k] = F[<<g[k - 1], k>>]
           S == { n \in 0 .. N : \E g \in [0 .. n -> A] : Turns(n, g) }
<1>1. 0 \in S
  <2> DEFINE g == [k \in 0 .. 0 |-> a]
  <2>1. g \in [0 .. 0 -> A] /\ Turns(0, g)
    OBVIOUS
  <2>2. 0 \in 0 .. N
    OBVIOUS
  <2> HIDE DEF g, Turns
  <2> QED BY <2>1, <2>2
<1>2. ASSUME NEW n \in 0 .. N - 1, n \in S PROVE n + 1 \in S
  <2>1. PICK g \in [0 .. n -> A] : Turns(n, g)
    BY <1>2, Zenon
  <2> DEFINE h == [k \in 0 .. n + 1 |-> IF k <= n THEN g[k] ELSE F[<<g[n], n + 1>>]]
  <2>2. g[n] \in A /\ n + 1 \in Nat /\ n + 1 \in 0 .. N
    OBVIOUS
  <2>3. F[<<g[n], n + 1>>] \in A
    BY <2>2
  <2>4. h \in [0 .. n + 1 -> A]
    BY <2>3
  <2>5. ASSUME NEW k \in 1 .. n + 1 PROVE h[k] = F[<<h[k - 1], k>>]
    <3>1. CASE k <= n
      <4>1. k \in 1 .. n /\ k - 1 \in 0 .. n /\ k - 1 <= n /\ k - 1 \in 0 .. n + 1
        BY <3>1
      <4>2. h[k] = g[k] /\ h[k - 1] = g[k - 1]
        BY <3>1, <4>1
      <4>3. g[k] = F[<<g[k - 1], k>>]
        BY <2>1, <4>1
      <4> QED BY <4>2, <4>3
    <3>2. CASE ~(k <= n)
      <4>1. k = n + 1 /\ k - 1 = n
        BY <3>2
      <4>2. h[k] = F[<<g[n], n + 1>>] /\ h[k - 1] = g[n]
        BY <4>1
      <4> QED BY <4>1, <4>2
    <3> QED BY <3>1, <3>2
  <2>6. h[0] = a
    BY <2>1
  <2>7. Turns(n + 1, h)
    BY <2>5, <2>6
  <2> HIDE DEF h, Turns
  <2> QED BY <2>2, <2>4, <2>7
<1>3. N \in S
  <2> HIDE DEF S
  <2>1. \A n \in 0 .. N : n \in S
    BY <1>1, <1>2, Climb
  <2> QED BY <2>1
<1> QED BY <1>3, Zenon DEF HasLoop, IsLoop

(* What such a loop computes has its type. *)
Turning(N, A, a, F, f) ==
  /\ f = [n \in 0 .. N |-> f[n]] /\ f[0] = a
  /\ \A n \in 1 .. N : f[n - 1] \in A => f[n] = F[<<f[n - 1], n>>]

(* A function that turns this way at each index is that loop. *)
LEMMA LoopTyped ==
  ASSUME NEW N \in Nat, NEW A, NEW a \in A, NEW F \in [A \X Nat -> A], NEW f, Turning(N, A, a, F, f)
  PROVE  IsLoop(N, A, a, F, f)
<1>0. /\ f = [n \in 0 .. N |-> f[n]] /\ f[0] = a
      /\ \A n \in 1 .. N : f[n - 1] \in A => f[n] = F[<<f[n - 1], n>>]
  BY Zenon DEF Turning
<1> DEFINE S == { n \in 0 .. N : f[n] \in A }
<1>1. 0 \in S
  BY <1>0
<1>2. ASSUME NEW n \in 0 .. N - 1, n \in S PROVE n + 1 \in S
  <2>1. n + 1 \in 1 .. N /\ (n + 1) - 1 = n /\ f[n] \in A /\ n + 1 \in Nat /\ n + 1 \in 0 .. N
    BY <1>2
  <2>2. f[n + 1] = F[<<f[n], n + 1>>]
    BY <1>0, <2>1, Zenon
  <2>3. F[<<f[n], n + 1>>] \in A
    BY <2>1
  <2> QED BY <2>1, <2>2, <2>3
<1>3. \A n \in 0 .. N : n \in S
  <2> HIDE DEF S
  <2> QED BY <1>1, <1>2, Climb
<1>4. \A n \in 0 .. N : f[n] \in A
  BY <1>3
<1>5. f \in [0 .. N -> A]
  <2> DEFINE g == [n \in 0 .. N |-> f[n]]
  <2>1. g \in [0 .. N -> A]
    BY <1>4
  <2> QED BY <1>0, <2>1, Zenon
<1>6. \A n \in 1 .. N : n - 1 \in 0 .. N
  OBVIOUS
<1> QED BY <1>0, <1>4, <1>5, <1>6, Zenon DEF IsLoop

-----------------------------------------------------------------------------
(* The canonical code *)

(* How many symbols have a length is a number. *)
LEMMA CountNat ==
  ASSUME NEW len, NEW b
  PROVE  Count(len, b) \in Nat /\ IsFiniteSet({ s \in Symbols : len[s] = b })
<1>1. IsFiniteSet(Symbols)
  <2>1. 0 \in Int /\ NSymbols - 1 \in Int
    BY HuffAssumption
  <2> QED BY <2>1, FS_Interval DEF Symbols
<1>2. IsFiniteSet({ s \in Symbols : len[s] = b })
  BY <1>1, FS_Subset
<1> QED BY <1>2, FS_CardinalityType DEF Count

(* next: the first code of each length. *)
LEMMA FirstCodes ==
  ASSUME NEW len
  PROVE  /\ FirstCode(len) \in [0 .. MaxBits -> Nat]
         /\ FirstCode(len)[1] = 0
         /\ \A b \in 2 .. MaxBits : FirstCode(len)[b] = 2 * (FirstCode(len)[b - 1] + Count(len, b - 1))
<1> DEFINE Next1(x, b) == IF b = 1 THEN 0 ELSE 2 * (x + Count(len, b - 1))
           F == [x \in Nat \X Nat |-> Next1(x[1], x[2])]
           G(g) == [b \in 0 .. MaxBits |-> IF b = 0 THEN 0 ELSE Next1(g[b - 1], b)]
<1>1. MaxBits \in Nat \ {0}
  BY HuffAssumption
<1>2. FirstCode(len) = CHOOSE f : f = G(f)
  BY DEF FirstCode
<1>3. \A x \in Nat, b \in Nat : Next1(x, b) \in Nat
  <2>1. \A b : Count(len, b) \in Nat
    BY CountNat
  <2> QED BY <2>1
<1> HIDE DEF Next1
<1>4. F \in [Nat \X Nat -> Nat] /\ \A x \in Nat, b \in Nat : F[<<x, b>>] = Next1(x, b)
  BY <1>3
<1> HIDE DEF F
<1>5. PICK g \in [0 .. MaxBits -> Nat] : g[0] = 0 /\ \A b \in 1 .. MaxBits : g[b] = F[<<g[b - 1], b>>]
  <2>1. HasLoop(MaxBits, Nat, 0, F)
    BY <1>1, <1>4, Loop
  <2> QED BY <2>1, Zenon DEF HasLoop, IsLoop
<1>6. g = G(g)
  <2>1. ASSUME NEW b \in 1 .. MaxBits PROVE g[b] = Next1(g[b - 1], b)
    <3>1. g[b - 1] \in Nat /\ b \in Nat
      BY <1>1
    <3> QED BY <1>4, <1>5, <3>1, Zenon
  <2>2. \A b \in 0 .. MaxBits : b = 0 \/ b \in 1 .. MaxBits
    BY <1>1
  <2>3. \A b \in 0 .. MaxBits : g[b] = IF b = 0 THEN 0 ELSE Next1(g[b - 1], b)
    BY <1>5, <2>1, <2>2, Zenon
  <2> QED BY <2>3
<1>7. PICK f : f = FirstCode(len) /\ f = G(f)
  <2> HIDE DEF G
  <2> QED BY <1>2, <1>6
<1>8. /\ f = [n \in 0 .. MaxBits |-> f[n]] /\ f[0] = 0
      /\ \A n \in 1 .. MaxBits : f[n - 1] \in Nat => f[n] = F[<<f[n - 1], n>>]
  <2>1. f = [n \in 0 .. MaxBits |-> f[n]] /\ f[0] = 0
    BY <1>1, <1>7
  <2>2. ASSUME NEW n \in 1 .. MaxBits PROVE f[n] = Next1(f[n - 1], n) /\ n \in Nat
    BY <1>1, <1>7
  <2> QED BY <1>4, <2>1, <2>2, Zenon
<1>9. f \in [0 .. MaxBits -> Nat] /\ \A n \in 1 .. MaxBits : f[n] = F[<<f[n - 1], n>>]
  <2>1. Turning(MaxBits, Nat, 0, F, f)
    BY <1>8, Zenon DEF Turning
  <2>2. IsLoop(MaxBits, Nat, 0, F, f)
    BY <1>1, <1>4, <2>1, LoopTyped
  <2> QED BY <2>2, Zenon DEF IsLoop
<1>10. ASSUME NEW b \in 1 .. MaxBits PROVE f[b] = Next1(f[b - 1], b)
  <2>1. f[b - 1] \in Nat /\ b \in Nat
    BY <1>1, <1>9
  <2> QED BY <1>4, <1>9, <2>1, Zenon
<1>11. f[1] = 0
  <2>1. 1 \in 1 .. MaxBits
    BY <1>1
  <2> QED BY <1>10, <2>1 DEF Next1
<1>12. \A b \in 2 .. MaxBits : f[b] = 2 * (f[b - 1] + Count(len, b - 1))
  <2>1. \A b \in 2 .. MaxBits : b \in 1 .. MaxBits /\ b # 1
    BY <1>1
  <2> QED BY <1>10, <2>1, Zenon DEF Next1
<1> QED BY <1>7, <1>9, <1>11, <1>12, Zenon

(* avail: the bit patterns of each length that are left. *)
LEMMA Avails ==
  ASSUME NEW len
  PROVE  /\ Avail(len) \in [0 .. MaxBits -> Int] /\ Avail(len)[0] = 1
         /\ \A b \in 1 .. MaxBits : Avail(len)[b] = 2 * Avail(len)[b - 1] - Count(len, b)
<1> DEFINE Left(x, b) == 2 * x - Count(len, b)
           F == [x \in Int \X Nat |-> Left(x[1], x[2])]
           G(g) == [b \in 0 .. MaxBits |-> IF b = 0 THEN 1 ELSE Left(g[b - 1], b)]
<1>1. MaxBits \in Nat \ {0}
  BY HuffAssumption
<1>2. Avail(len) = CHOOSE f : f = G(f)
  BY DEF Avail
<1>3. \A x \in Int, b \in Nat : Left(x, b) \in Int
  <2>1. \A b : Count(len, b) \in Nat
    BY CountNat
  <2> QED BY <2>1
<1>0. \A x, b : Left(x, b) = 2 * x - Count(len, b)
  OBVIOUS
<1> HIDE DEF Left
<1>4. F \in [Int \X Nat -> Int] /\ \A x \in Int, b \in Nat : F[<<x, b>>] = Left(x, b)
  BY <1>3
<1> HIDE DEF F
<1>5. PICK g \in [0 .. MaxBits -> Int] : g[0] = 1 /\ \A b \in 1 .. MaxBits : g[b] = F[<<g[b - 1], b>>]
  <2>1. HasLoop(MaxBits, Int, 1, F)
    BY <1>1, <1>4, Loop
  <2> QED BY <2>1, Zenon DEF HasLoop, IsLoop
<1>6. g = G(g)
  <2>1. ASSUME NEW b \in 1 .. MaxBits PROVE g[b] = Left(g[b - 1], b)
    <3>1. g[b - 1] \in Int /\ b \in Nat
      BY <1>1
    <3> QED BY <1>4, <1>5, <3>1, Zenon
  <2>2. \A b \in 0 .. MaxBits : b = 0 \/ b \in 1 .. MaxBits
    BY <1>1
  <2>3. \A b \in 0 .. MaxBits : g[b] = IF b = 0 THEN 1 ELSE Left(g[b - 1], b)
    BY <1>5, <2>1, <2>2, Zenon
  <2> QED BY <2>3
<1>7. PICK f : f = Avail(len) /\ f = G(f)
  <2> HIDE DEF G
  <2> QED BY <1>2, <1>6
<1>8. Turning(MaxBits, Int, 1, F, f)
  <2>1. f = [n \in 0 .. MaxBits |-> f[n]] /\ f[0] = 1
    BY <1>1, <1>7
  <2>2. ASSUME NEW n \in 1 .. MaxBits PROVE f[n] = Left(f[n - 1], n) /\ n \in Nat
    BY <1>1, <1>7
  <2> QED BY <1>4, <2>1, <2>2, Zenon DEF Turning
<1>9. f \in [0 .. MaxBits -> Int] /\ f[0] = 1 /\ \A n \in 1 .. MaxBits : f[n] = F[<<f[n - 1], n>>]
  <2>1. IsLoop(MaxBits, Int, 1, F, f)
    <3>1. MaxBits \in Nat /\ 1 \in Int
      BY <1>1
    <3> QED BY <1>4, <1>8, <3>1, LoopTyped, Zenon
  <2> QED BY <2>1, Zenon DEF IsLoop
<1>10. ASSUME NEW b \in 1 .. MaxBits PROVE f[b] = Left(f[b - 1], b)
  <2>1. f[b - 1] \in Int /\ b \in Nat
    BY <1>1, <1>9
  <2> QED BY <1>4, <1>9, <2>1, Zenon
<1> QED BY <1>0, <1>7, <1>9, <1>10, Zenon

(* The numbers that xq_huff_build and xq_huff_load count in. *)
LEMMA Tallies ==
  ASSUME NEW len, NEW b \in 0 .. MaxBits
  PROVE  FirstCode(len)[b] \in Nat /\ Count(len, b) \in Nat /\ Avail(len)[b] \in Int
<1>1. FirstCode(len) \in [0 .. MaxBits -> Nat] /\ Avail(len) \in [0 .. MaxBits -> Int]
  BY FirstCodes, Avails
<1> QED BY <1>1, CountNat

(* c >> b *)
LEMMA Shifts ==
  ASSUME NEW c \in Nat, NEW n \in Nat
  PROVE  /\ Shifted(c, n) \in [0 .. n -> Nat] /\ Shifted(c, n)[0] = c
         /\ \A b \in 1 .. n : Shifted(c, n)[b] = Shifted(c, n)[b - 1] \div 2
<1> DEFINE Half(x) == x \div 2
           F == [x \in Nat \X Nat |-> Half(x[1])]
           G(g) == [b \in 0 .. n |-> IF b = 0 THEN c ELSE Half(g[b - 1])]
<1>2. Shifted(c, n) = CHOOSE f : f = G(f)
  BY DEF Shifted
<1>3. \A x \in Nat : Half(x) \in Nat
  OBVIOUS
<1>0. \A x : Half(x) = x \div 2
  OBVIOUS
<1> HIDE DEF Half
<1>4. F \in [Nat \X Nat -> Nat] /\ \A x \in Nat, b \in Nat : F[<<x, b>>] = Half(x)
  BY <1>3
<1> HIDE DEF F
<1>5. PICK g \in [0 .. n -> Nat] : g[0] = c /\ \A b \in 1 .. n : g[b] = F[<<g[b - 1], b>>]
  <2>1. HasLoop(n, Nat, c, F)
    BY <1>4, Loop
  <2> QED BY <2>1, Zenon DEF HasLoop, IsLoop
<1>6. g = G(g)
  <2>1. ASSUME NEW b \in 1 .. n PROVE g[b] = Half(g[b - 1])
    <3>1. g[b - 1] \in Nat /\ b \in Nat
      OBVIOUS
    <3> QED BY <1>4, <1>5, <3>1, Zenon
  <2>2. \A b \in 0 .. n : b = 0 \/ b \in 1 .. n
    OBVIOUS
  <2>3. \A b \in 0 .. n : g[b] = IF b = 0 THEN c ELSE Half(g[b - 1])
    BY <1>5, <2>1, <2>2, Zenon
  <2> QED BY <2>3
<1>7. PICK f : f = Shifted(c, n) /\ f = G(f)
  <2> HIDE DEF G
  <2> QED BY <1>2, <1>6
<1>8. Turning(n, Nat, c, F, f)
  <2>1. f = [k \in 0 .. n |-> f[k]] /\ f[0] = c
    BY <1>7
  <2>2. ASSUME NEW k \in 1 .. n PROVE f[k] = Half(f[k - 1]) /\ k \in Nat
    <3>1. k \in 0 .. n /\ k # 0 /\ k \in Nat
      OBVIOUS
    <3>2. \A b \in 0 .. n : f[b] = IF b = 0 THEN c ELSE Half(f[b - 1])
      BY <1>7, Zenon
    <3> QED BY <3>1, <3>2, Zenon
  <2> QED BY <1>4, <2>1, <2>2, Zenon DEF Turning
<1>9. f \in [0 .. n -> Nat] /\ f[0] = c /\ \A k \in 1 .. n : f[k] = F[<<f[k - 1], k>>]
  <2>1. IsLoop(n, Nat, c, F, f)
    BY <1>4, <1>8, LoopTyped
  <2> QED BY <2>1, Zenon DEF IsLoop
<1>10. ASSUME NEW b \in 1 .. n PROVE f[b] = Half(f[b - 1])
  <2>1. f[b - 1] \in Nat /\ b \in Nat
    BY <1>9
  <2> QED BY <1>4, <1>9, <2>1, Zenon
<1> QED BY <1>0, <1>7, <1>9, <1>10, Zenon

(* max_len: the lengths of a table have a greatest. *)
LEMMA LongestMax ==
  ASSUME NEW len \in [Symbols -> Nat]
  PROVE  /\ LongestOf(len) \in Nat /\ \A s \in Symbols : len[s] <= LongestOf(len)
         /\ \E s \in Symbols : len[s] = LongestOf(len)
<1>1. PICK N \in Nat : N = NSymbols - 1 /\ Symbols = 0 .. N
  BY HuffAssumption DEF Symbols
<1> DEFINE S == { n \in 0 .. N : \E m \in Nat : \A s \in 0 .. n : len[s] <= m }
<1>2. 0 \in S
  <2>1. len[0] \in Nat /\ \A s \in 0 .. 0 : len[s] <= len[0]
    BY <1>1
  <2> QED BY <2>1
<1>3. ASSUME NEW n \in 0 .. N - 1, n \in S PROVE n + 1 \in S
  <2>1. PICK m \in Nat : \A s \in 0 .. n : len[s] <= m
    BY <1>3
  <2>2. n + 1 \in 0 .. N /\ len[n + 1] \in Nat
    BY <1>1
  <2>3. PICK k \in Nat : m <= k /\ len[n + 1] <= k
    <3>1. CASE m <= len[n + 1]
      BY <2>2, <3>1
    <3>2. CASE ~(m <= len[n + 1])
      BY <2>2, <3>2
    <3> QED BY <3>1, <3>2
  <2>4. ASSUME NEW s \in 0 .. n + 1 PROVE len[s] <= k
    <3>1. CASE s \in 0 .. n
      <4>1. len[s] \in Nat /\ len[s] <= m
        BY <1>1, <2>1, <3>1
      <4> QED BY <2>3, <4>1
    <3>2. CASE s = n + 1
      BY <2>3, <3>2
    <3> QED BY <3>1, <3>2
  <2> QED BY <2>2, <2>4
<1>4. N \in S
  <2> HIDE DEF S
  <2>1. \A n \in 0 .. N : n \in S
    BY <1>2, <1>3, Climb
  <2> QED BY <2>1
<1>5. PICK m \in Nat : \A s \in Symbols : len[s] <= m
  BY <1>1, <1>4
<1> DEFINE B == { len[s] : s \in Symbols }
<1>6. B \in SUBSET Nat /\ B # {} /\ \A k \in B : k <= m
  <2>1. 0 \in Symbols
    BY <1>1
  <2> QED BY <1>5, <2>1
<1>7. \E b \in B : \A k \in B : k <= b
  <2> HIDE DEF B
  <2> QED BY <1>6, NatMax
<1>8. \E b \in B : \A s \in Symbols : len[s] <= b
  BY <1>7
<1>9. LongestOf(len) \in B /\ \A s \in Symbols : len[s] <= LongestOf(len)
  <2>1. LongestOf(len) = CHOOSE b \in B : \A s \in Symbols : len[s] <= b
    BY DEF LongestOf
  <2> HIDE DEF B
  <2> QED BY <1>8, <2>1
<1>10. \E s \in Symbols : len[s] = LongestOf(len)
  BY <1>9
<1> QED BY <1>6, <1>9, <1>10

(* A symbol's place among those of its length. *)
Rank(len, s) == Cardinality({ t \in Symbols : t < s /\ len[t] = len[s] })

(* A symbol has its place among those with codes as long, in order. *)
LEMMA Ranks ==
  ASSUME NEW len, NEW s \in Symbols
  PROVE  /\ Rank(len, s) \in Nat /\ Rank(len, s) < Count(len, len[s])
         /\ \A t \in Symbols : t < s /\ len[t] = len[s] => Rank(len, t) < Rank(len, s)
<1> DEFINE Below(t) == { r \in Symbols : r < t /\ len[r] = len[t] }
           All == { t \in Symbols : len[t] = len[s] }
<1>1. s \in Int /\ \A t \in Symbols : t \in Int
  BY HuffAssumption DEF Symbols
<1>2. IsFiniteSet(All) /\ Count(len, len[s]) = Cardinality(All) /\ Cardinality(All) \in Nat
  BY CountNat DEF Count
<1>3. Below(s) \in SUBSET All /\ s \in All /\ s \notin Below(s)
  BY <1>1
<1>4. IsFiniteSet(Below(s)) /\ Cardinality(Below(s)) \in Nat /\ Cardinality(Below(s)) < Cardinality(All)
  <2>1. IsFiniteSet(Below(s)) /\ Cardinality(Below(s)) <= Cardinality(All) /\ (Cardinality(All) = Cardinality(Below(s)) => All = Below(s))
    <3> HIDE DEF All, Below
    <3> QED BY <1>2, <1>3, FS_Subset
  <2>2. All # Below(s)
    BY <1>3
  <2>3. Cardinality(Below(s)) \in Nat
    BY <2>1, FS_CardinalityType
  <2> HIDE DEF All, Below
  <2> QED BY <1>2, <2>1, <2>2, <2>3
<1>5. ASSUME NEW t \in Symbols, t < s, len[t] = len[s] PROVE Cardinality(Below(t)) < Cardinality(Below(s))
  <2>0. t \in Below(s) /\ t \notin Below(t)
    BY <1>1, <1>5
  <2>1. Below(t) \in SUBSET Below(s) /\ t \in Below(s) /\ t \notin Below(t)
    <3>1. ASSUME NEW r \in Symbols, r < t, len[r] = len[t] PROVE r < s /\ len[r] = len[s]
      BY <1>1, <1>5, <3>1
    <3>2. Below(t) \subseteq Below(s)
      BY <3>1, Zenon
    <3> QED BY <2>0, <3>2
  <2>2. Below(t) # Below(s)
    BY <2>1
  <2> HIDE DEF Below
  <2>3. IsFiniteSet(Below(t)) /\ Cardinality(Below(t)) <= Cardinality(Below(s)) /\ Cardinality(Below(s)) # Cardinality(Below(t))
    BY <1>4, <2>1, <2>2, FS_Subset
  <2>4. Cardinality(Below(t)) \in Nat
    BY <2>3, FS_CardinalityType
  <2> QED BY <1>4, <2>3, <2>4
<1> QED BY <1>2, <1>4, <1>5 DEF Rank

(* The first code of a length, its codes, and what they leave, are all the *)
(* bit patterns of that length: twice as many as of the length before.     *)
Space(len, b) == FirstCode(len)[b] + Count(len, b) + Avail(len)[b]

(* They double from length to length. *)
LEMMA Spaces ==
  ASSUME NEW len
  PROVE  /\ Space(len, 1) = 2 /\ \A b \in 1 .. MaxBits : Space(len, b) \in Int
         /\ \A b \in 2 .. MaxBits : Space(len, b) = 2 * Space(len, b - 1)
<1>0. MaxBits \in Nat \ {0}
  BY HuffAssumption
<1>1. \A b \in 1 .. MaxBits : FirstCode(len)[b] \in Nat /\ Count(len, b) \in Nat /\ Avail(len)[b] \in Int
  <2>2. \A b \in 1 .. MaxBits : b \in 0 .. MaxBits
    BY <1>0
  <2> QED BY <2>2, Tallies
<1>2. ASSUME NEW b \in 2 .. MaxBits PROVE Space(len, b) = 2 * Space(len, b - 1)
  <2>1. b \in 1 .. MaxBits /\ b - 1 \in 1 .. MaxBits
    BY <1>0
  <2>2. FirstCode(len)[b] = 2 * (FirstCode(len)[b - 1] + Count(len, b - 1))
    BY FirstCodes
  <2>3. Avail(len)[b] = 2 * Avail(len)[b - 1] - Count(len, b)
    BY <2>1, Avails
  <2>4. \A f, c, a, d \in Int : 2 * (f + c) + d + (2 * a - d) = 2 * (f + c + a)
    OBVIOUS
  <2>5. FirstCode(len)[b - 1] \in Int /\ Count(len, b - 1) \in Int /\ Avail(len)[b - 1] \in Int /\ Count(len, b) \in Int
    BY <1>1, <2>1
  <2>6. PICK f, c, a, d \in Int : /\ f = FirstCode(len)[b - 1] /\ c = Count(len, b - 1)
                                 /\ a = Avail(len)[b - 1] /\ d = Count(len, b)
    BY <2>5
  <2>7. Space(len, b) = 2 * (f + c) + d + (2 * a - d) /\ Space(len, b - 1) = f + c + a
    BY <2>2, <2>3, <2>6, Zenon DEF Space
  <2> QED BY <2>4, <2>7
<1>3. Space(len, 1) = 2
  <2>1. 1 \in 1 .. MaxBits /\ 1 - 1 = 0
    BY <1>0
  <2>2. FirstCode(len)[1] = 0 /\ Avail(len)[1] = 2 * 1 - Count(len, 1)
    BY <2>1, FirstCodes, Avails
  <2>3. Count(len, 1) \in Nat
    BY CountNat
  <2> QED BY <2>2, <2>3 DEF Space
<1>4. \A b \in 1 .. MaxBits : Space(len, b) \in Int
  BY <1>1 DEF Space
<1> QED BY <1>2, <1>3, <1>4

(* A shift to the right drops the last bit. *)
LEMMA Halves ==
  ASSUME NEW x \in Nat, NEW y \in Int
  PROVE  /\ x \div 2 \in Nat /\ x % 2 \in {0, 1} /\ x = 2 * (x \div 2) + (x % 2)
         /\ (x < 2 * y => x \div 2 < y) /\ (2 * y <= x => y <= x \div 2)
<1>1. x \div 2 \in Nat /\ x % 2 \in 0 .. 1 /\ x = 2 * (x \div 2) + (x % 2)
  OBVIOUS
<1>2. PICK q \in Nat, r \in 0 .. 1 : q = x \div 2 /\ r = x % 2 /\ x = 2 * q + r
  BY <1>1
<1>3. (x < 2 * y => q < y) /\ (2 * y <= x => y <= q)
  BY <1>2
<1> QED BY <1>1, <1>2, <1>3

(* A symbol with a code has one among those of its length. *)
LEMMA CodeAmong ==
  ASSUME NEW len \in [Symbols -> Nat], Loads(len), NEW s \in Used(len)
  PROVE  /\ s \in Symbols /\ len[s] \in 1 .. MaxBits /\ len[s] <= LongestOf(len) /\ CodeOf(len, s) \in Nat
         /\ CodeOf(len, s) = FirstCode(len)[len[s]] + Rank(len, s)
         /\ FirstCode(len)[len[s]] <= CodeOf(len, s)
         /\ CodeOf(len, s) < FirstCode(len)[len[s]] + Count(len, len[s])
<1>1. s \in Symbols /\ len[s] \in Nat /\ len[s] > 0
  BY DEF Used
<1>2. LongestOf(len) \in Nat /\ len[s] <= LongestOf(len) /\ LongestOf(len) <= MaxBits
  BY <1>1, LongestMax DEF Loads
<1>3. MaxBits \in Nat
  BY HuffAssumption
<1>4. PICK l \in 1 .. MaxBits : l = len[s]
  BY <1>1, <1>2, <1>3
<1>5. l \in 0 .. MaxBits
  BY <1>3
<1>6. PICK f, r, n \in Nat : f = FirstCode(len)[l] /\ r = Rank(len, s) /\ n = Count(len, l)
  BY <1>1, <1>4, <1>5, FirstCodes, Ranks, CountNat
<1>7. r < n
  BY <1>1, <1>4, <1>6, Ranks
<1>8. CodeOf(len, s) = f + r
  BY <1>4, <1>6, Zenon DEF CodeOf, Rank
<1>9. f + r \in Nat /\ f <= f + r /\ f + r < f + n
  BY <1>7
<1> QED BY <1>1, <1>2, <1>4, <1>6, <1>8, <1>9

(* It fits in as many bits as its length has. *)
LEMMA CodeFits ==
  ASSUME NEW len \in [Symbols -> Nat], Loads(len), Cardinality(Used(len)) # 1, NEW s \in Used(len)
  PROVE  CodeOf(len, s) < Space(len, len[s])
<1>1. MaxBits \in Nat /\ LongestOf(len) \in Nat /\ LongestOf(len) <= MaxBits
  BY HuffAssumption, LongestMax DEF Loads
<1>2. PICK l \in 1 .. LongestOf(len) : l = len[s]
  BY <1>1, CodeAmong
<1>3. l \in 1 .. MaxBits /\ l \in 0 .. MaxBits
  BY <1>1
<1>4. Avail(len)[l] \in Int /\ Avail(len)[l] >= 0
  <2>1. Avail(len)[l] \in Int
    BY <1>3, Avails
  <2> QED BY <1>2, <2>1, Zenon DEF Loads
<1>5. PICK f, n, a \in Int : f = FirstCode(len)[l] /\ n = Count(len, l) /\ a = Avail(len)[l]
  <2>1. FirstCode(len)[l] \in Int /\ Count(len, l) \in Int
    BY <1>3, Tallies
  <2> QED BY <1>4, <2>1
<1>6. CodeOf(len, s) < f + n /\ CodeOf(len, s) \in Nat
  BY <1>2, <1>5, CodeAmong
<1>7. CodeOf(len, s) < f + n + a
  BY <1>4, <1>5, <1>6
<1> QED BY <1>2, <1>5, <1>7, Zenon DEF Space

(* Nothing is left of it when all its bits are shifted out. *)
LEMMA ShiftedOut ==
  ASSUME NEW len, NEW l \in 1 .. MaxBits, NEW c \in Nat, c < Space(len, l)
  PROVE  Shifted(c, l)[l] = 0
<1>0. MaxBits \in Nat /\ l \in Nat \ {0}
  BY HuffAssumption
<1> DEFINE sh == Shifted(c, l)
           S == { k \in 0 .. l - 1 : sh[k] < Space(len, l - k) }
<1>1. sh \in [0 .. l -> Nat] /\ sh[0] = c /\ \A b \in 1 .. l : sh[b] = sh[b - 1] \div 2
  BY <1>0, Shifts
<1> HIDE DEF sh
<1>2. 0 \in S
  <2>1. l - 0 = l /\ 0 \in 0 .. l - 1
    BY <1>0
  <2> QED BY <1>1, <2>1
<1>3. ASSUME NEW k \in 0 .. (l - 1) - 1, k \in S PROVE k + 1 \in S
  <2>1. /\ k \in 0 .. l /\ k + 1 \in 1 .. l /\ (k + 1) - 1 = k /\ k + 1 \in 0 .. l - 1
        /\ l - k \in 2 .. MaxBits /\ (l - k) - 1 = l - (k + 1) /\ l - (k + 1) \in 1 .. MaxBits
    BY <1>0
  <2>2. sh[k] < 2 * Space(len, l - (k + 1)) /\ Space(len, l - (k + 1)) \in Int /\ sh[k] \in Nat
    <3>1. Space(len, l - k) = 2 * Space(len, l - (k + 1)) /\ Space(len, l - (k + 1)) \in Int
      BY <2>1, Spaces
    <3>2. sh[k] < Space(len, l - k) /\ sh[k] \in Nat
      BY <1>1, <1>3, <2>1
    <3> QED BY <3>1, <3>2, Zenon
  <2>3. sh[k + 1] = sh[k] \div 2
    BY <1>1, <2>1, Zenon
  <2>4. sh[k + 1] < Space(len, l - (k + 1))
    <3>1. sh[k] \div 2 < Space(len, l - (k + 1))
      BY <2>2, Halves
    <3> QED BY <2>3, <3>1
  <2> QED BY <2>1, <2>4
<1>4. l - 1 \in S
  <2>1. l - 1 \in Nat /\ l - 1 \in 0 .. l - 1
    BY <1>0
  <2> HIDE DEF S
  <2>2. \A k \in 0 .. l - 1 : k \in S
    BY <1>2, <1>3, <2>1, Climb
  <2> QED BY <2>1, <2>2
<1>5. sh[l - 1] < 2 /\ sh[l - 1] \in Nat
  <2>1. l - (l - 1) = 1 /\ Space(len, 1) = 2 /\ l - 1 \in 0 .. l
    BY <1>0, Spaces
  <2> QED BY <1>1, <1>4, <2>1
<1>6. sh[l] = sh[l - 1] \div 2
  BY <1>0, <1>1
<1>7. sh[l - 1] \div 2 = 0
  BY <1>5
<1> QED BY <1>6, <1>7 DEF sh

(* A code's leading bits are past all codes that are as short as they.     *)
LEMMA LeadingBits ==
  ASSUME NEW len, NEW m \in 1 .. MaxBits, NEW c \in Nat, FirstCode(len)[m] <= c
  PROVE  \A k \in 1 .. m - 1 : FirstCode(len)[m - k] + Count(len, m - k) <= Shifted(c, m)[k]
<1>0. MaxBits \in Nat /\ m \in Nat \ {0}
  BY HuffAssumption
<1> DEFINE sh == Shifted(c, m)
           S == { k \in 0 .. m - 1 : FirstCode(len)[m - k] <= sh[k] }
           Past(k) == FirstCode(len)[m - (k + 1)] + Count(len, m - (k + 1)) <= sh[k + 1]
<1>1. sh \in [0 .. m -> Nat] /\ sh[0] = c /\ \A b \in 1 .. m : sh[b] = sh[b - 1] \div 2
  BY <1>0, Shifts
<1> HIDE DEF sh
<1>2. 0 \in S
  <2>1. m - 0 = m /\ 0 \in 0 .. m - 1
    BY <1>0
  <2> QED BY <1>1, <2>1
<1>3. ASSUME NEW k \in 0 .. (m - 1) - 1, k \in S PROVE k + 1 \in S /\ Past(k)
  <2>1. /\ k \in 0 .. m /\ k + 1 \in 1 .. m /\ (k + 1) - 1 = k /\ k + 1 \in 0 .. m - 1
        /\ m - k \in 2 .. MaxBits /\ (m - k) - 1 = m - (k + 1) /\ m - (k + 1) \in 0 .. MaxBits
    BY <1>0
  <2>2. PICK f, n \in Nat : f = FirstCode(len)[m - (k + 1)] /\ n = Count(len, m - (k + 1))
    BY <2>1, FirstCodes, CountNat
  <2>3. 2 * (f + n) <= sh[k] /\ sh[k] \in Nat
    <3>1. FirstCode(len)[m - k] = 2 * (f + n)
      <4>1. FirstCode(len)[m - k] = 2 * (FirstCode(len)[(m - k) - 1] + Count(len, (m - k) - 1))
        BY <2>1, FirstCodes
      <4> QED BY <2>1, <2>2, <4>1, Zenon
    <3>2. FirstCode(len)[m - k] <= sh[k] /\ sh[k] \in Nat
      BY <1>1, <1>3, <2>1
    <3> QED BY <3>1, <3>2, Zenon
  <2>4. f + n <= sh[k] \div 2
    <3>1. f + n \in Int
      BY <2>2
    <3> QED BY <2>3, <3>1, Halves
  <2>5. sh[k + 1] = sh[k] \div 2
    BY <1>1, <2>1, Zenon
  <2>6. Past(k)
    BY <2>2, <2>4, <2>5, Zenon
  <2>7. f <= sh[k + 1]
    <3>1. sh[k + 1] \in Nat
      BY <1>1, <2>1
    <3> QED BY <2>2, <2>4, <2>5, <3>1
  <2> QED BY <2>1, <2>2, <2>6, <2>7
<1>4. \A k \in 0 .. m - 1 : k \in S
  <2>1. m - 1 \in Nat
    BY <1>0
  <2>2. \A k \in 0 .. (m - 1) - 1 : k \in S => k + 1 \in S
    BY <1>3
  <2> HIDE DEF S
  <2> QED BY <1>2, <2>1, <2>2, Climb
<1>5. ASSUME NEW k \in 1 .. m - 1 PROVE FirstCode(len)[m - k] + Count(len, m - k) <= sh[k]
  <2>1. k - 1 \in 0 .. (m - 1) - 1 /\ k - 1 \in 0 .. m - 1 /\ (k - 1) + 1 = k
    BY <1>0
  <2> HIDE DEF S
  <2>2. Past(k - 1)
    BY <1>3, <1>4, <2>1
  <2> QED BY <2>1, <2>2, Zenon
<1> QED BY <1>5 DEF sh

(* Two numbers with the same bits from the top on are the same, but for    *)
(* the bits that one has more.                                             *)
LEMMA SameBits ==
  ASSUME NEW l \in Nat, NEW m \in Nat, l <= m, NEW c \in Nat, NEW d \in Nat,
         Shifted(c, l)[l] = 0, Shifted(d, m)[m] = 0,
         \A i \in 1 .. l : Shifted(c, l)[l - i] % 2 = Shifted(d, m)[m - i] % 2
  PROVE  c = Shifted(d, m)[m - l]
<1> DEFINE x == Shifted(c, l)
           y == Shifted(d, m)
           S == { i \in 0 .. l : x[l - i] = y[m - i] }
<1>1. /\ x \in [0 .. l -> Nat] /\ x[0] = c /\ \A b \in 1 .. l : x[b] = x[b - 1] \div 2
      /\ y \in [0 .. m -> Nat] /\ \A b \in 1 .. m : y[b] = y[b - 1] \div 2
  BY Shifts
<1>2. x[l] = 0 /\ y[m] = 0 /\ \A i \in 1 .. l : x[l - i] % 2 = y[m - i] % 2
  OBVIOUS
<1> HIDE DEF x, y
<1>3. 0 \in S
  <2>1. l - 0 = l /\ m - 0 = m /\ 0 \in 0 .. l
    OBVIOUS
  <2> QED BY <1>2, <2>1
<1>4. ASSUME NEW i \in 0 .. l - 1, i \in S PROVE i + 1 \in S
  <2>1. /\ i + 1 \in 1 .. l /\ i + 1 \in 0 .. l /\ l - i \in 1 .. l /\ m - i \in 1 .. m
        /\ (l - i) - 1 = l - (i + 1) /\ (m - i) - 1 = m - (i + 1)
        /\ l - (i + 1) \in 0 .. l /\ m - (i + 1) \in 0 .. m
    OBVIOUS
  <2>2. PICK p, q \in Nat : p = x[l - (i + 1)] /\ q = y[m - (i + 1)]
    BY <1>1, <2>1
  <2>3. p \div 2 = q \div 2
    <3>1. x[l - i] = x[(l - i) - 1] \div 2 /\ y[m - i] = y[(m - i) - 1] \div 2
      BY <1>1, <2>1, Zenon
    <3>2. x[l - i] = y[m - i]
      BY <1>4
    <3> QED BY <2>1, <2>2, <3>1, <3>2, Zenon
  <2>4. p % 2 = q % 2
    BY <1>2, <2>1, <2>2, Zenon
  <2>5. p = 2 * (p \div 2) + (p % 2) /\ q = 2 * (q \div 2) + (q % 2)
    BY Halves
  <2>6. p = q
    BY <2>3, <2>4, <2>5, Zenon
  <2> QED BY <2>1, <2>2, <2>6
<1>5. l \in S
  <2> HIDE DEF S
  <2>1. \A i \in 0 .. l : i \in S
    BY <1>3, <1>4, Climb
  <2> QED BY <2>1
<1>6. l - l = 0
  OBVIOUS
<1> QED BY <1>1, <1>5, <1>6 DEF y

(* The bits of a code. *)
LEMMA Bits ==
  ASSUME NEW len \in [Symbols -> Nat], Loads(len), NEW s \in Used(len)
  PROVE  /\ CodeBits(len, s) \in Seq({0, 1}) /\ Len(CodeBits(len, s)) = len[s]
         /\ \A i \in 1 .. len[s] : CodeBits(len, s)[i] = Shifted(CodeOf(len, s), len[s])[len[s] - i] % 2
<1>1. PICK l \in Nat, c \in Nat : l = len[s] /\ c = CodeOf(len, s)
  BY CodeAmong, HuffAssumption
<1>2. Shifted(c, l) \in [0 .. l -> Nat]
  BY Shifts
<1> DEFINE w == [i \in 1 .. l |-> Shifted(c, l)[l - i] % 2]
<1>3. CodeBits(len, s) = w
  BY <1>1, Zenon DEF CodeBits
<1>4. ASSUME NEW i \in 1 .. l PROVE Shifted(c, l)[l - i] % 2 \in {0, 1}
  <2>1. Shifted(c, l)[l - i] \in Nat
    BY <1>2
  <2> QED BY <2>1, Halves
<1>5. w \in [1 .. l -> {0, 1}]
  BY <1>4
<1>6. w \in Seq({0, 1}) /\ Len(w) = l
  <2> HIDE DEF w
  <2> QED BY <1>5
<1>7. \A i \in 1 .. l : w[i] = Shifted(c, l)[l - i] % 2
  OBVIOUS
<1> HIDE DEF w
<1> QED BY <1>1, <1>3, <1>6, <1>7, Zenon

(* No code begins another. *)
LEMMA PrefixFree ==
  ASSUME NEW len \in [Symbols -> Nat], Loads(len), Cardinality(Used(len)) # 1,
         NEW s \in Used(len), NEW t \in Used(len), len[s] <= len[t],
         \A i \in 1 .. len[s] : CodeBits(len, s)[i] = CodeBits(len, t)[i]
  PROVE  s = t
<1>0. MaxBits \in Nat
  BY HuffAssumption
<1>1. PICK l, m \in 1 .. MaxBits : l = len[s] /\ m = len[t]
  BY CodeAmong
<1>2. PICK c, d \in Nat : c = CodeOf(len, s) /\ d = CodeOf(len, t)
  BY CodeAmong
<1>3. l \in Nat /\ m \in Nat /\ l <= m
  BY <1>0, <1>1
<1>4. Shifted(c, l)[l] = 0 /\ Shifted(d, m)[m] = 0
  <2>1. c < Space(len, l) /\ d < Space(len, m)
    BY <1>1, <1>2, CodeFits
  <2> QED BY <2>1, ShiftedOut
<1>5. \A i \in 1 .. l : Shifted(c, l)[l - i] % 2 = Shifted(d, m)[m - i] % 2
  <2> SUFFICES ASSUME NEW i \in 1 .. l PROVE Shifted(c, l)[l - i] % 2 = Shifted(d, m)[m - i] % 2
    OBVIOUS
  <2>1. i \in 1 .. m
    BY <1>3
  <2>2. CodeBits(len, s)[i] = Shifted(c, l)[l - i] % 2 /\ CodeBits(len, t)[i] = Shifted(d, m)[m - i] % 2
    BY <1>1, <1>2, <2>1, Bits
  <2> QED BY <1>1, <2>2
<1>6. c = Shifted(d, m)[m - l]
  BY <1>3, <1>4, <1>5, SameBits
<1>7. l = m
  <2> SUFFICES ASSUME l < m PROVE FALSE
    BY <1>3
  <2>1. m - l \in 1 .. m - 1 /\ m - (m - l) = l
    BY <1>3
  <2>2. FirstCode(len)[m] <= d
    BY <1>1, <1>2, CodeAmong
  <2>3. FirstCode(len)[m - (m - l)] + Count(len, m - (m - l)) <= Shifted(d, m)[m - l]
    BY <2>1, <2>2, LeadingBits
  <2>4. FirstCode(len)[l] + Count(len, l) <= c
    BY <1>6, <2>1, <2>3, Zenon
  <2>5. c < FirstCode(len)[l] + Count(len, l)
    BY <1>1, <1>2, CodeAmong
  <2>6. FirstCode(len)[l] + Count(len, l) \in Int
    <3>1. l \in 0 .. MaxBits
      BY <1>0
    <3>2. FirstCode(len)[l] \in Nat /\ Count(len, l) \in Nat
      BY <3>1, Tallies
    <3> QED BY <3>2
  <2> QED BY <2>4, <2>5, <2>6
<1>8. c = d
  <2>1. m - l = 0 /\ Shifted(d, m)[0] = d
    BY <1>3, <1>7, Shifts
  <2> QED BY <1>6, <2>1
<1>9. Rank(len, s) = Rank(len, t)
  <2>1. FirstCode(len)[l] \in Nat /\ Rank(len, s) \in Nat /\ Rank(len, t) \in Nat
    <3>1. l \in 0 .. MaxBits /\ s \in Symbols /\ t \in Symbols
      BY <1>0, CodeAmong
    <3> QED BY <3>1, FirstCodes, Ranks
  <2>2. c = FirstCode(len)[l] + Rank(len, s) /\ d = FirstCode(len)[l] + Rank(len, t)
    BY <1>1, <1>2, <1>7, CodeAmong
  <2>3. PICK f, p, q \in Nat : f = FirstCode(len)[l] /\ p = Rank(len, s) /\ q = Rank(len, t)
    BY <2>1, Zenon
  <2>4. f + p = f + q
    BY <1>8, <2>2, <2>3, Zenon
  <2>5. p = q
    BY <2>4
  <2> QED BY <2>3, <2>5
<1>10. s \in Symbols /\ t \in Symbols /\ len[s] = len[t] /\ s \in Int /\ t \in Int
  BY <1>1, <1>7, CodeAmong, HuffAssumption DEF Symbols
<1>11. Rank(len, s) \in Nat /\ ~(s < t) /\ ~(t < s)
  <2>1. Rank(len, s) \in Nat /\ Rank(len, t) \in Nat
    BY <1>10, Ranks
  <2>2. (s < t => Rank(len, s) < Rank(len, t)) /\ (t < s => Rank(len, t) < Rank(len, s))
    BY <1>10, Ranks
  <2> QED BY <1>9, <2>1, <2>2
<1> QED BY <1>10, <1>11

(* The symbols with a code are finitely many. *)
LEMMA UsedFinite ==
  ASSUME NEW f
  PROVE  IsFiniteSet(Used(f)) /\ Cardinality(Used(f)) \in Nat
         /\ (Cardinality(Used(f)) = 1 <=> \E x : Used(f) = {x})
<1>1. IsFiniteSet(Symbols) /\ Used(f) \in SUBSET Symbols
  <2>1. 0 \in Int /\ NSymbols - 1 \in Int
    BY HuffAssumption
  <2> QED BY <2>1, FS_Interval DEF Symbols, Used
<1>2. IsFiniteSet(Used(f))
  BY <1>1, FS_Subset
<1> QED BY <1>2, FS_CardinalityType, FS_Singleton

(* The code of a symbol in front, whatever follows, gives the symbol back. *)
LEMMA DecodeBack ==
  ASSUME NEW len \in [Symbols -> Nat], Loads(len), NEW s \in Used(len), NEW bits,
         Len(bits) \in Nat, len[s] <= Len(bits), \A i \in 1 .. len[s] : bits[i] = CodeBits(len, s)[i]
  PROVE  Decode(len, bits) = s
<1> DEFINE peek == [i \in 1 .. LongestOf(len) |-> IF i <= Len(bits) THEN bits[i] ELSE 0]
           found == { t \in Used(len) : \A i \in 1 .. len[t] : CodeBits(len, t)[i] = peek[i] }
           sym == CHOOSE t \in found : \A u \in found : u <= t
<1>1. Decode(len, bits) = IF found = {} \/ len[sym] > Len(bits) THEN -1 ELSE sym
  BY Zenon DEF Decode
<1>2. /\ MaxBits \in Nat /\ LongestOf(len) \in Nat
      /\ \A t \in Used(len) : len[t] \in Nat /\ len[t] <= LongestOf(len)
  <2>1. MaxBits \in Nat /\ LongestOf(len) \in Nat
    BY HuffAssumption, LongestMax
  <2>2. ASSUME NEW t \in Used(len) PROVE len[t] \in Nat /\ len[t] <= LongestOf(len)
    BY <2>1, CodeAmong
  <2> QED BY <2>1, <2>2
<1>3. \A i \in 1 .. len[s] : peek[i] = CodeBits(len, s)[i]
  <2> SUFFICES ASSUME NEW i \in 1 .. len[s] PROVE peek[i] = CodeBits(len, s)[i]
    OBVIOUS
  <2>1. i \in 1 .. LongestOf(len) /\ i <= Len(bits)
    BY <1>2
  <2>2. peek[i] = bits[i]
    BY <2>1
  <2> QED BY <2>2
<1> HIDE DEF peek
<1>4. s \in found
  BY <1>3
<1>5. ASSUME NEW t \in found PROVE t = s
  <2>0. t \in Used(len) /\ \A i \in 1 .. len[t] : CodeBits(len, t)[i] = peek[i]
    OBVIOUS
  <2>1. CASE Cardinality(Used(len)) = 1
    <3>1. PICK x : Used(len) = {x}
      BY <2>1, UsedFinite
    <3> QED BY <2>0, <3>1
  <2>2. CASE Cardinality(Used(len)) # 1 /\ len[s] <= len[t]
    <3>1. \A i \in 1 .. len[s] : CodeBits(len, s)[i] = CodeBits(len, t)[i]
      <4>1. \A i \in 1 .. len[s] : i \in 1 .. len[t]
        BY <1>2, <2>0, <2>2
      <4> QED BY <1>3, <2>0, <4>1, Zenon
    <3> QED BY <2>0, <2>2, <3>1, PrefixFree
  <2>3. CASE Cardinality(Used(len)) # 1 /\ len[t] <= len[s]
    <3>1. \A i \in 1 .. len[t] : CodeBits(len, t)[i] = CodeBits(len, s)[i]
      <4>1. \A i \in 1 .. len[t] : i \in 1 .. len[s]
        BY <1>2, <2>0, <2>3
      <4> QED BY <1>3, <2>0, <4>1, Zenon
    <3> QED BY <2>0, <2>3, <3>1, PrefixFree
  <2>4. len[s] <= len[t] \/ len[t] <= len[s]
    BY <1>2, <2>0
  <2> QED BY <2>1, <2>2, <2>3, <2>4
<1>6. found = {s}
  BY <1>4, <1>5
<1> HIDE DEF found
<1>7. sym = s
  <2>1. s <= s
    <3>1. s \in Int
      BY CodeAmong, HuffAssumption DEF Symbols
    <3> QED BY <3>1
  <2> QED BY <1>6, <2>1
<1>8. ~(len[s] > Len(bits))
  BY <1>2
<1> HIDE DEF sym
<1> QED BY <1>1, <1>6, <1>7, <1>8

(* Every place among the symbols of a length is some symbol's. *)
LEMMA RankOnto ==
  ASSUME NEW len, NEW b, NEW k \in Nat, k < Count(len, b)
  PROVE  \E s \in Symbols : len[s] = b /\ Rank(len, s) = k
<1> DEFINE All == { s \in Symbols : len[s] = b }
           Below(s) == { t \in Symbols : t < s /\ len[t] = len[s] }
<1>1. IsFiniteSet(All) /\ Count(len, b) = Cardinality(All) /\ Cardinality(All) \in Nat
  BY CountNat DEF Count
<1>2. All \in SUBSET Nat /\ \A s \in Symbols : s \in Nat
  BY HuffAssumption DEF Symbols
<1>3. PICK n \in Nat : n = Cardinality(All) - 1 /\ k \in 0 .. n /\ All # {}
  <2>1. Cardinality(All) - 1 \in Nat /\ k \in 0 .. Cardinality(All) - 1
    BY <1>1
  <2>2. All # {}
    <3> HIDE DEF All
    <3> QED BY <1>1, FS_EmptySet
  <2> HIDE DEF All
  <2> QED BY <2>1, <2>2
<1> DEFINE S == { i \in 0 .. n : \E s \in All : Cardinality(Below(s)) = i }
<1>4. 0 \in S
  <2>1. PICK m \in All : \A t \in All : m <= t
    <3> HIDE DEF All
    <3> QED BY <1>2, <1>3, NatMin
  <2>2. Below(m) = {}
    <3> SUFFICES ASSUME NEW t \in Below(m) PROVE FALSE
      OBVIOUS
    <3>1. t \in All /\ t < m /\ t \in Nat /\ m \in Nat
      BY <1>2
    <3>2. m <= t
      BY <2>1, <3>1
    <3> QED BY <3>1, <3>2
  <2>3. Cardinality(Below(m)) = 0
    BY <2>2, FS_EmptySet, Zenon
  <2>4. 0 \in 0 .. n
    OBVIOUS
  <2> HIDE DEF All, Below
  <2> QED BY <2>3, <2>4
<1>5. ASSUME NEW i \in 0 .. n - 1, i \in S PROVE i + 1 \in S
  <2>1. PICK s \in All : Cardinality(Below(s)) = i
    BY <1>5
  <2>2. Below(s) \in SUBSET All /\ s \notin Below(s)
    BY <1>2
  <2>3. IsFiniteSet(Below(s))
    <3> HIDE DEF All, Below
    <3> QED BY <1>1, <2>2, FS_Subset
  <2>4. Cardinality(Below(s) \cup {s}) = i + 1
    <3> HIDE DEF All, Below
    <3> QED BY <2>1, <2>2, <2>3, FS_AddElement
  <2> DEFINE Above == { t \in All : s < t }
  <2>5. Above # {}
    <3> SUFFICES ASSUME Above = {} PROVE FALSE
      OBVIOUS
    <3>1. \A t \in All : t = s \/ t \in Below(s)
      BY <1>2
    <3>2. All = Below(s) \cup {s}
      BY <2>2, <3>1
    <3>3. Cardinality(All) = i + 1
      BY <2>4, <3>2
    <3> HIDE DEF All
    <3>4. Cardinality(All) = n + 1 /\ i # n
      BY <1>1, <1>3
    <3> QED BY <3>3, <3>4
  <2>6. PICK m \in Above : \A t \in Above : m <= t
    <3>1. Above \in SUBSET Nat
      BY <1>2
    <3> HIDE DEF Above
    <3> QED BY <2>5, <3>1, NatMin
  <2>7. Below(m) = Below(s) \cup {s}
    <3>1. ASSUME NEW t \in Below(m) PROVE t \in Below(s) \cup {s}
      <4>1. t \in All /\ t < m /\ t \in Nat /\ m \in Nat /\ s \in Nat
        BY <1>2
      <4>2. ~(s < t)
        <5>1. s < t => m <= t
          BY <2>6, <4>1
        <5> QED BY <4>1, <5>1
      <4>3. t < s \/ t = s
        BY <4>1, <4>2
      <4> QED BY <4>1, <4>3
    <3>2. ASSUME NEW t \in Below(s) \cup {s} PROVE t \in Below(m)
      <4>1. t \in Symbols /\ t \in Nat /\ s \in Nat /\ m \in Nat /\ s < m /\ (t < s \/ t = s) /\ len[t] = len[m]
        BY <1>2
      <4>2. t < m
        BY <4>1
      <4> QED BY <4>1, <4>2
    <3> HIDE DEF Below
    <3> QED BY <3>1, <3>2
  <2>8. m \in All /\ Cardinality(Below(m)) = i + 1 /\ i + 1 \in 0 .. n
    BY <2>4, <2>7
  <2> HIDE DEF All, Below
  <2> QED BY <2>8
<1>6. k \in S
  <2> HIDE DEF S
  <2>1. \A i \in 0 .. n : i \in S
    BY <1>4, <1>5, Climb
  <2> QED BY <1>3, <2>1
<1>7. PICK s \in All : Cardinality(Below(s)) = k
  BY <1>6
<1> QED BY <1>7, Zenon DEF Rank

(* The value of the bits in front, of each length. *)
FrontOf(w, v) == v[0] = 0 /\ \A b \in 1 .. MaxBits : v[b] \in Nat /\ v[b - 1] \in Nat /\ v[b] = 2 * v[b - 1] + w[b]

(* A pattern of bits has the numbers of its fronts. *)
LEMMA Fronts ==
  ASSUME NEW w \in [1 .. MaxBits -> {0, 1}]
  PROVE  \E v \in [0 .. MaxBits -> Nat] : FrontOf(w, v)
<1> DEFINE Bit(b) == IF b \in 1 .. MaxBits THEN w[b] ELSE 0
           F == [x \in Nat \X Nat |-> 2 * x[1] + Bit(x[2])]
<1>1. MaxBits \in Nat
  BY HuffAssumption
<1>2. \A b : Bit(b) \in {0, 1}
  OBVIOUS
<1>3. \A b \in 1 .. MaxBits : Bit(b) = w[b]
  OBVIOUS
<1> HIDE DEF Bit
<1>4. F \in [Nat \X Nat -> Nat] /\ \A x \in Nat, b \in Nat : F[<<x, b>>] = 2 * x + Bit(b)
  <2>1. \A x \in Nat, b \in Nat : 2 * x + Bit(b) \in Nat
    BY <1>2
  <2> QED BY <2>1
<1> HIDE DEF F
<1>5. PICK v : IsLoop(MaxBits, Nat, 0, F, v)
  <2>1. HasLoop(MaxBits, Nat, 0, F)
    BY <1>1, <1>4, Loop
  <2> QED BY <2>1, Zenon DEF HasLoop
<1>6. v \in [0 .. MaxBits -> Nat] /\ v[0] = 0 /\ \A b \in 1 .. MaxBits : v[b] = F[<<v[b - 1], b>>]
  BY <1>5, Zenon DEF IsLoop
<1>7. ASSUME NEW b \in 1 .. MaxBits PROVE v[b] \in Nat /\ v[b - 1] \in Nat /\ v[b] = 2 * v[b - 1] + w[b]
  <2>1. v[b] \in Nat /\ v[b - 1] \in Nat /\ b \in Nat
    BY <1>1, <1>6
  <2> QED BY <1>3, <1>4, <1>6, <2>1, Zenon
<1> QED BY <1>6, <1>7, Zenon DEF FrontOf

(* Its bits are those. *)
LEMMA FrontBits ==
  ASSUME NEW w \in [1 .. MaxBits -> {0, 1}], NEW v \in [0 .. MaxBits -> Nat], FrontOf(w, v),
         NEW b \in 1 .. MaxBits
  PROVE  \A i \in 1 .. b : Shifted(v[b], b)[b - i] % 2 = w[i]
<1>0. MaxBits \in Nat /\ b \in Nat /\ v[b] \in Nat
  BY HuffAssumption
<1> DEFINE sh == Shifted(v[b], b)
           S == { k \in 0 .. b : sh[k] = v[b - k] }
<1>1. sh \in [0 .. b -> Nat] /\ sh[0] = v[b] /\ \A k \in 1 .. b : sh[k] = sh[k - 1] \div 2
  BY <1>0, Shifts
<1> HIDE DEF sh
<1>2. \A j \in 1 .. MaxBits : v[j] \div 2 = v[j - 1] /\ v[j] % 2 = w[j]
  <2> SUFFICES ASSUME NEW j \in 1 .. MaxBits PROVE v[j] \div 2 = v[j - 1] /\ v[j] % 2 = w[j]
    OBVIOUS
  <2>1. PICK x \in Nat, d \in {0, 1} : x = v[j - 1] /\ d = w[j] /\ v[j] = 2 * x + d
    BY Zenon DEF FrontOf
  <2>2. (2 * x + d) \div 2 = x /\ (2 * x + d) % 2 = d
    OBVIOUS
  <2> QED BY <2>1, <2>2, Zenon
<1>3. 0 \in S
  BY <1>0, <1>1
<1>4. ASSUME NEW k \in 0 .. b - 1, k \in S PROVE k + 1 \in S
  <2>1. k + 1 \in 1 .. b /\ k + 1 \in 0 .. b /\ (k + 1) - 1 = k /\ b - k \in 1 .. MaxBits /\ (b - k) - 1 = b - (k + 1)
    BY <1>0
  <2>2. sh[k] = v[b - k]
    BY <1>4
  <2>3. sh[k + 1] = v[b - (k + 1)]
    <3>1. sh[k + 1] = sh[k] \div 2
      BY <1>1, <2>1, Zenon
    <3>2. v[b - k] \div 2 = v[b - (k + 1)]
      BY <1>2, <2>1, Zenon
    <3> QED BY <2>2, <3>1, <3>2, Zenon
  <2> QED BY <2>1, <2>3
<1>5. \A k \in 0 .. b : k \in S
  <2> HIDE DEF S
  <2> QED BY <1>0, <1>3, <1>4, Climb
<1>6. ASSUME NEW i \in 1 .. b PROVE sh[b - i] % 2 = w[i]
  <2>1. b - i \in 0 .. b /\ b - (b - i) = i /\ i \in 1 .. MaxBits
    BY <1>0
  <2>2. sh[b - i] = v[b - (b - i)]
    BY <1>5, <2>1
  <2> QED BY <1>2, <2>1, <2>2, Zenon
<1> QED BY <1>6 DEF sh

(* Some code is in front of any bits. *)
LEMMA SomeCode ==
  ASSUME NEW len \in [Symbols -> Nat], Loads(len), Cardinality(Used(len)) # 1,
         NEW w \in [1 .. MaxBits -> {0, 1}]
  PROVE  \E s \in Used(len) : \A i \in 1 .. len[s] : CodeBits(len, s)[i] = w[i]
<1>0. MaxBits \in Nat \ {0} /\ LongestOf(len) \in Nat /\ LongestOf(len) <= MaxBits
  BY HuffAssumption, LongestMax DEF Loads
<1>1. PICK L \in 1 .. MaxBits : L = LongestOf(len)
  <2>1. PICK s : s \in Used(len)
    BY DEF Loads
  <2>2. len[s] \in 1 .. MaxBits /\ len[s] <= LongestOf(len)
    BY <2>1, CodeAmong
  <2> QED BY <1>0, <2>2
<1>2. PICK v \in [0 .. MaxBits -> Nat] : FrontOf(w, v)
  BY Fronts
<1>3. \A b \in 1 .. MaxBits : v[b] \in Nat /\ v[b - 1] \in Nat /\ v[b] = 2 * v[b - 1] + w[b] /\ w[b] \in {0, 1}
  BY <1>2, Zenon DEF FrontOf
<1> DEFINE S == { k \in 0 .. L - 1 : v[k + 1] < Space(len, k + 1) }
<1>4. L - 1 \in S
  <2>1. 0 \in S
    <3>1. 0 + 1 = 1 /\ 1 \in 1 .. MaxBits /\ 1 - 1 = 0 /\ 0 \in 0 .. L - 1
      BY <1>0
    <3>2. v[0] = 0 /\ Space(len, 1) = 2
      BY <1>2, Spaces DEF FrontOf
    <3>3. v[1] < 2
      BY <1>3, <3>1, <3>2
    <3> QED BY <3>1, <3>2, <3>3
  <2>2. ASSUME NEW k \in 0 .. (L - 1) - 1, k \in S PROVE k + 1 \in S
    <3>1. k + 1 \in 0 .. L - 1 /\ (k + 1) + 1 \in 2 .. MaxBits /\ ((k + 1) + 1) - 1 = k + 1
          /\ k + 1 \in 1 .. MaxBits /\ (k + 1) + 1 \in 1 .. MaxBits
      BY <1>0
    <3>2. PICK x, y \in Int : x = v[k + 1] /\ y = Space(len, k + 1) /\ x < y
      <4>1. v[k + 1] \in Int
        BY <1>3, <3>1
      <4>2. Space(len, k + 1) \in Int
        BY <3>1, Spaces, Zenon
      <4>3. v[k + 1] < Space(len, k + 1)
        BY <2>2
      <4> QED BY <4>1, <4>2, <4>3
    <3>3. Space(len, (k + 1) + 1) = 2 * y
      BY <3>1, <3>2, Spaces
    <3>4. PICK d \in {0, 1} : v[(k + 1) + 1] = 2 * x + d
      BY <1>3, <3>1, <3>2, Zenon
    <3>5. 2 * x + d < 2 * y
      BY <3>2
    <3> QED BY <3>1, <3>3, <3>4, <3>5
  <2>3. L - 1 \in Nat /\ L - 1 \in 0 .. L - 1
    BY <1>0
  <2> HIDE DEF S
  <2>4. \A k \in 0 .. L - 1 : k \in S
    BY <2>1, <2>2, <2>3, Climb
  <2> QED BY <2>3, <2>4
<1> DEFINE D == { b \in 1 .. L : v[b] < FirstCode(len)[b] + Count(len, b) }
<1>5. L \in D
  <2>1. (L - 1) + 1 = L /\ L \in 0 .. MaxBits /\ L \in 1 .. L
    BY <1>0
  <2>2. v[L] < Space(len, L)
    <3>1. v[(L - 1) + 1] < Space(len, (L - 1) + 1)
      BY <1>4
    <3> QED BY <2>1, <3>1
  <2>3. Avail(len)[L] = 0
    BY <1>1 DEF Loads
  <2>4. FirstCode(len)[L] + Count(len, L) \in Int
    <3>1. FirstCode(len)[L] \in Nat /\ Count(len, L) \in Nat
      BY <2>1, Tallies
    <3> QED BY <3>1
  <2>5. Space(len, L) = FirstCode(len)[L] + Count(len, L)
    <3>1. Space(len, L) = FirstCode(len)[L] + Count(len, L) + 0
      BY <2>3, Zenon DEF Space
    <3> QED BY <2>4, <3>1
  <2> QED BY <2>1, <2>2, <2>5
<1>6. PICK b \in D : \A c \in D : b <= c
  <2>1. D \in SUBSET Nat /\ D # {}
    BY <1>5
  <2> HIDE DEF D
  <2> QED BY <2>1, NatMin
<1>7. b \in 1 .. MaxBits /\ b \in 0 .. MaxBits /\ b \in Nat /\ b \in 1 .. L
  BY <1>0
<1>8. PICK f, n \in Nat : f = FirstCode(len)[b] /\ n = Count(len, b)
  BY <1>7, Tallies
<1>9. v[b] < f + n
  BY <1>8
<1>10. f <= v[b]
  <2>1. CASE b = 1
    BY <1>3, <1>7, <1>8, <2>1, FirstCodes
  <2>2. CASE b # 1
    <3>1. b - 1 \in 1 .. L /\ b \in 2 .. MaxBits /\ b - 1 \in 0 .. MaxBits /\ ~(b <= b - 1)
      BY <1>0, <1>7, <2>2
    <3>2. b - 1 \notin D
      BY <1>6, <3>1, Zenon
    <3>3. PICK g, m, x \in Nat : g = FirstCode(len)[b - 1] /\ m = Count(len, b - 1) /\ x = v[b - 1]
      BY <1>3, <1>7, <3>1, Tallies
    <3>4. ~(x < g + m)
      <4>1. ~(v[b - 1] < FirstCode(len)[b - 1] + Count(len, b - 1))
        BY <3>1, <3>2
      <4> QED BY <3>3, <4>1
    <3>5. f = 2 * (g + m)
      BY <1>8, <3>1, <3>3, FirstCodes
    <3>6. PICK d \in {0, 1} : v[b] = 2 * x + d
      BY <1>3, <1>7, <3>3, Zenon
    <3> QED BY <3>4, <3>5, <3>6
  <2> QED BY <2>1, <2>2
<1> HIDE DEF D
<1>11. PICK k \in Nat : v[b] = f + k /\ k < n
  <2>1. v[b] \in Nat
    BY <1>7
  <2>2. v[b] - f \in Nat /\ v[b] = f + (v[b] - f) /\ v[b] - f < n
    BY <1>9, <1>10, <2>1
  <2> QED BY <2>2
<1>12. PICK s \in Symbols : len[s] = b /\ Rank(len, s) = k
  BY <1>8, <1>11, RankOnto
<1>13. s \in Used(len)
  BY <1>7, <1>12 DEF Used
<1>14. CodeOf(len, s) = v[b]
  BY <1>8, <1>11, <1>12, Zenon DEF CodeOf, Rank
<1>15. \A i \in 1 .. len[s] : CodeBits(len, s)[i] = Shifted(CodeOf(len, s), len[s])[len[s] - i] % 2
  BY <1>13, Bits
<1>16. \A i \in 1 .. b : Shifted(v[b], b)[b - i] % 2 = w[i]
  BY <1>2, <1>7, FrontBits
<1>17. \A i \in 1 .. len[s] : CodeBits(len, s)[i] = w[i]
  <2>1. \A i \in 1 .. b : CodeBits(len, s)[i] = Shifted(v[b], b)[b - i] % 2
    BY <1>12, <1>14, <1>15
  <2> QED BY <1>12, <1>16, <2>1
<1> QED BY <1>13, <1>17

(* Just one code is in front of any bits. *)
LEMMA CodesComplete ==
  ASSUME NEW len \in [Symbols -> Nat], Loads(len), Cardinality(Used(len)) > 1,
         NEW w \in [1 .. MaxBits -> {0, 1}]
  PROVE  Cardinality({ s \in Used(len) : \A i \in 1 .. len[s] : CodeBits(len, s)[i] = w[i] }) = 1
<1> DEFINE found == { s \in Used(len) : \A i \in 1 .. len[s] : CodeBits(len, s)[i] = w[i] }
<1>0. Cardinality(Used(len)) # 1
  OBVIOUS
<1>1. PICK s \in Used(len) : \A i \in 1 .. len[s] : CodeBits(len, s)[i] = w[i]
  BY <1>0, SomeCode
<1>2. ASSUME NEW t \in found PROVE t = s
  <2>0. t \in Used(len) /\ \A i \in 1 .. len[t] : CodeBits(len, t)[i] = w[i]
    OBVIOUS
  <2>1. len[s] \in Nat /\ len[t] \in Nat
    BY <2>0, CodeAmong
  <2>2. CASE len[s] <= len[t]
    <3>1. \A i \in 1 .. len[s] : i \in 1 .. len[t]
      BY <2>1, <2>2
    <3>2. \A i \in 1 .. len[s] : CodeBits(len, s)[i] = CodeBits(len, t)[i]
      BY <1>1, <2>0, <3>1, Zenon
    <3> QED BY <1>0, <2>0, <2>2, <3>2, PrefixFree
  <2>3. CASE len[t] <= len[s]
    <3>1. \A i \in 1 .. len[t] : i \in 1 .. len[s]
      BY <2>1, <2>3
    <3>2. \A i \in 1 .. len[t] : CodeBits(len, t)[i] = CodeBits(len, s)[i]
      BY <1>1, <2>0, <3>1, Zenon
    <3> QED BY <1>0, <2>0, <2>3, <3>2, PrefixFree
  <2> QED BY <2>1, <2>2, <2>3
<1>3. found = {s}
  BY <1>1, <1>2
<1> HIDE DEF found
<1>4. Cardinality(found) = 1
  BY <1>3, FS_Singleton, Zenon
<1> QED BY <1>4 DEF found

-----------------------------------------------------------------------------
(* The tree that the lengths come from *)

(* Two finite sets, one member of each to each of the other. *)
LEMMA SameSize ==
  ASSUME NEW S, NEW T, IsFiniteSet(S), NEW g \in [S -> T],
         \A a, b \in S : g[a] = g[b] => a = b, \A t \in T : \E s \in S : g[s] = t
  PROVE  IsFiniteSet(T) /\ Cardinality(T) = Cardinality(S)
<1>1. g \in Bijection(S, T)
  BY Fun_IsBij
<1>2. ExistsBijection(S, T)
  BY <1>1, Fun_ExistsBij
<1> QED BY <1>2, FS_Bijection

Level(T, b) == { p \in T : p[2] = b }
Deeper(T) == { <<p[1], p[2] + 1>> : p \in T }
Syms(T) == { p[1] : p \in T }

(* Of the nodes at each depth, twice as many as have children above it,    *)
(* those that are no leaves; none is left from some depth on.              *)
Inner(T, i, D) ==
  /\ i[0] = 1 - Cardinality(Level(T, 0))
  /\ \A b \in Nat : i[b + 1] = 2 * i[b] - Cardinality(Level(T, b + 1))
  /\ \A b \in Nat : b >= D => i[b] = 0

Full(T) == \E i \in [Nat -> Nat] : \E D \in Nat : Inner(T, i, D)

(* The leaves of a tree: no symbol twice, and no leaf missing. *)
IsTree(T) ==
  /\ T \in SUBSET (Symbols \X Nat) /\ IsFiniteSet(T)
  /\ \A p, q \in T : p[1] = q[1] => p = q
  /\ Full(T)

(* A finite tree has finitely many leaves at each depth. *)
LEMMA LevelFinite ==
  ASSUME NEW T, IsFiniteSet(T), NEW b
  PROVE  IsFiniteSet(Level(T, b)) /\ Cardinality(Level(T, b)) \in Nat
<1>1. Level(T, b) \in SUBSET T
  BY DEF Level
<1> QED BY <1>1, FS_Subset, FS_CardinalityType

(* A root that is a leaf. *)
LEMMA LeafTree ==
  ASSUME NEW s \in Symbols
  PROVE  IsTree({<<s, 0>>}) /\ Syms({<<s, 0>>}) = {s}
<1> DEFINE T == {<<s, 0>>}
           i == [b \in Nat |-> 0]
<1>1. i \in [Nat -> Nat] /\ \A b \in Nat : i[b] = 0
  OBVIOUS
<1>2. Level(T, 0) = T /\ \A b \in Nat : Level(T, b + 1) = {}
  BY DEF Level
<1>3. IsFiniteSet(T) /\ Cardinality(T) = 1 /\ Cardinality({}) = 0
  BY FS_Singleton, FS_EmptySet, Zenon
<1> HIDE DEF i
<1>4. Inner(T, i, 0)
  <2>1. i[0] = 1 - Cardinality(Level(T, 0))
    <3>1. Cardinality(Level(T, 0)) = 1
      BY <1>2, <1>3, Zenon
    <3>2. i[0] = 0
      BY <1>1
    <3> QED BY <3>1, <3>2
  <2>2. ASSUME NEW b \in Nat PROVE i[b + 1] = 2 * i[b] - Cardinality(Level(T, b + 1))
    <3>1. i[b + 1] = 0 /\ i[b] = 0 /\ Cardinality(Level(T, b + 1)) = 0
      BY <1>1, <1>2, <1>3
    <3> QED BY <3>1
  <2> QED BY <1>1, <2>1, <2>2 DEF Inner
<1>5. Full(T)
  <2>1. 0 \in Nat
    OBVIOUS
  <2> QED BY <1>1, <1>4, <2>1, Zenon DEF Full
<1>6. T \in SUBSET (Symbols \X Nat) /\ (\A p, q \in T : p[1] = q[1] => p = q) /\ Syms(T) = {s}
  BY DEF Syms
<1> QED BY <1>3, <1>5, <1>6, Zenon DEF IsTree

(* The leaves of a set of trees go down by one, none is lost. *)
LEMMA DeeperSize ==
  ASSUME NEW T \in SUBSET (Symbols \X Nat), IsFiniteSet(T)
  PROVE  IsFiniteSet(Deeper(T)) /\ Cardinality(Deeper(T)) = Cardinality(T)
<1> DEFINE g == [p \in T |-> <<p[1], p[2] + 1>>]
<1>1. g \in [T -> Deeper(T)]
  BY DEF Deeper
<1>2. \A a, b \in T : g[a] = g[b] => a = b
  <2> SUFFICES ASSUME NEW a \in T, NEW b \in T, g[a] = g[b] PROVE a = b
    OBVIOUS
  <2>1. a[1] = b[1] /\ a[2] + 1 = b[2] + 1
    OBVIOUS
  <2>2. a \in Symbols \X Nat /\ b \in Symbols \X Nat
    OBVIOUS
  <2>3. a[2] = b[2]
    BY <2>1, <2>2
  <2> QED BY <2>1, <2>2, <2>3
<1>3. \A t \in Deeper(T) : \E s \in T : g[s] = t
  BY DEF Deeper
<1> HIDE DEF g
<1> QED BY <1>1, <1>2, <1>3, SameSize

(* Two trees become the children of a new root. *)
LEMMA JoinTree ==
  ASSUME NEW A, NEW B, IsTree(A), IsTree(B), \A p \in A, q \in B : p[1] # q[1]
  PROVE  IsTree(Deeper(A \cup B)) /\ Syms(Deeper(A \cup B)) = Syms(A) \cup Syms(B)
<1> DEFINE T == A \cup B
<1>1. /\ A \in SUBSET (Symbols \X Nat) /\ IsFiniteSet(A) /\ (\A p, q \in A : p[1] = q[1] => p = q)
      /\ B \in SUBSET (Symbols \X Nat) /\ IsFiniteSet(B) /\ (\A p, q \in B : p[1] = q[1] => p = q)
  BY Zenon DEF IsTree
<1>2. T \in SUBSET (Symbols \X Nat) /\ IsFiniteSet(T)
  <2>1. IsFiniteSet(T)
    BY <1>1, FS_Union
  <2> QED BY <1>1, <2>1
<1>3. \A p, q \in T : p[1] = q[1] => p = q
  BY <1>1, Zenon
<1>4. \A b \in Nat : /\ Cardinality(Level(A, b)) \in Nat /\ Cardinality(Level(B, b)) \in Nat
                     /\ Cardinality(Level(Deeper(T), b + 1)) = Cardinality(Level(A, b)) + Cardinality(Level(B, b))
  <2> SUFFICES ASSUME NEW b \in Nat
               PROVE  /\ Cardinality(Level(A, b)) \in Nat /\ Cardinality(Level(B, b)) \in Nat
                      /\ Cardinality(Level(Deeper(T), b + 1)) = Cardinality(Level(A, b)) + Cardinality(Level(B, b))
    OBVIOUS
  <2>1. /\ IsFiniteSet(Level(A, b)) /\ Cardinality(Level(A, b)) \in Nat
        /\ IsFiniteSet(Level(B, b)) /\ Cardinality(Level(B, b)) \in Nat
    BY <1>1, LevelFinite
  <2>2. Level(A, b) \cap Level(B, b) = {}
    <3> SUFFICES ASSUME NEW p \in Level(A, b), p \in Level(B, b) PROVE FALSE
      OBVIOUS
    <3>1. p \in A /\ p \in B
      BY DEF Level
    <3> QED BY <3>1
  <2>3. Level(T, b) = Level(A, b) \cup Level(B, b)
    BY DEF Level
  <2>4. IsFiniteSet(Level(T, b)) /\ Cardinality(Level(T, b)) = Cardinality(Level(A, b)) + Cardinality(Level(B, b))
    <3>1. Cardinality({}) = 0
      BY FS_EmptySet
    <3>2. /\ IsFiniteSet(Level(A, b) \cup Level(B, b))
          /\ Cardinality(Level(A, b) \cup Level(B, b)) =
               Cardinality(Level(A, b)) + Cardinality(Level(B, b)) - Cardinality(Level(A, b) \cap Level(B, b))
      BY <2>1, FS_Union
    <3>3. PICK c, d \in Nat : c = Cardinality(Level(A, b)) /\ d = Cardinality(Level(B, b))
      BY <2>1
    <3>4. Cardinality(Level(A, b) \cup Level(B, b)) = c + d - 0
      BY <2>2, <3>1, <3>2, <3>3, Zenon
    <3>5. c + d - 0 = c + d
      BY <3>3
    <3> HIDE DEF T
    <3> QED BY <2>3, <3>2, <3>3, <3>4, <3>5, Zenon
  <2>5. Level(Deeper(T), b + 1) = Deeper(Level(T, b))
    <3>1. \A p \in T : p[2] \in Nat
      BY <1>2
    <3>2. \A p \in T : p[2] + 1 = b + 1 <=> p[2] = b
      BY <3>1
    <3> HIDE DEF T
    <3> QED BY <3>2 DEF Level, Deeper
  <2>6. Level(T, b) \in SUBSET (Symbols \X Nat)
    BY <1>2 DEF Level
  <2>7. Cardinality(Deeper(Level(T, b))) = Cardinality(Level(T, b))
    BY <2>4, <2>6, DeeperSize
  <2> QED BY <2>1, <2>4, <2>5, <2>7
<1>5. Level(Deeper(T), 0) = {}
  <2> SUFFICES ASSUME NEW p \in T, p[2] + 1 = 0 PROVE FALSE
    BY DEF Level, Deeper
  <2>1. p[2] \in Nat
    BY <1>2
  <2> QED BY <2>1
<1>6. PICK i \in [Nat -> Nat], D \in Nat : Inner(A, i, D)
  BY Zenon DEF IsTree, Full
<1>7. PICK j \in [Nat -> Nat], E \in Nat : Inner(B, j, E)
  BY Zenon DEF IsTree, Full
<1> DEFINE k == [b \in Nat |-> IF b = 0 THEN 1 ELSE i[b - 1] + j[b - 1]]
<1>8. k \in [Nat -> Nat]
  <2>1. \A b \in Nat : b # 0 => b - 1 \in Nat
    OBVIOUS
  <2> QED BY <2>1
<1>9. k[0] = 1 /\ \A b \in Nat : k[b + 1] = i[b] + j[b]
  OBVIOUS
<1> HIDE DEF k
<1>10. Inner(Deeper(T), k, D + E + 1)
  <2>1. k[0] = 1 - Cardinality(Level(Deeper(T), 0))
    <3>1. Cardinality(Level(Deeper(T), 0)) = 0
      BY <1>5, FS_EmptySet, Zenon
    <3> QED BY <1>9, <3>1
  <2>2. ASSUME NEW b \in Nat PROVE k[b + 1] = 2 * k[b] - Cardinality(Level(Deeper(T), b + 1))
    <3>1. PICK c, d \in Nat : c = Cardinality(Level(A, b)) /\ d = Cardinality(Level(B, b))
      BY <1>4
    <3>2. Cardinality(Level(Deeper(T), b + 1)) = c + d
      BY <1>4, <3>1
    <3>3. k[b + 1] = i[b] + j[b]
      BY <1>9
    <3>4. CASE b = 0
      <4>1. i[0] = 1 - c /\ j[0] = 1 - d
        BY <1>6, <1>7, <3>1, <3>4 DEF Inner
      <4>2. (1 - c) + (1 - d) = 2 * 1 - (c + d)
        BY <3>1
      <4> QED BY <1>9, <3>2, <3>3, <3>4, <4>1, <4>2, Zenon
    <3>5. CASE b # 0
      <4>1. PICK a \in Nat : b = a + 1
        <5>1. b - 1 \in Nat /\ b = (b - 1) + 1
          BY <3>5
        <5> QED BY <5>1
      <4>2. i[a + 1] = 2 * i[a] - Cardinality(Level(A, a + 1)) /\ j[a + 1] = 2 * j[a] - Cardinality(Level(B, a + 1))
        BY <1>6, <1>7, Zenon DEF Inner
      <4>3. PICK x, y \in Nat : x = i[a] /\ y = j[a]
        OBVIOUS
      <4>4. i[b] = 2 * x - c /\ j[b] = 2 * y - d /\ k[b] = x + y
        BY <1>9, <3>1, <4>1, <4>2, <4>3, Zenon
      <4>5. (2 * x - c) + (2 * y - d) = 2 * (x + y) - (c + d)
        BY <3>1, <4>3
      <4> QED BY <3>2, <3>3, <4>4, <4>5, Zenon
    <3> QED BY <3>4, <3>5
  <2>3. ASSUME NEW b \in Nat, b >= D + E + 1 PROVE k[b] = 0
    <3>1. PICK a \in Nat : b = a + 1 /\ a >= D /\ a >= E
      <4>1. b - 1 \in Nat /\ b = (b - 1) + 1 /\ b - 1 >= D /\ b - 1 >= E
        BY <2>3
      <4> QED BY <4>1
    <3>2. i[a] = 0 /\ j[a] = 0
      BY <1>6, <1>7, <3>1 DEF Inner
    <3>3. k[a + 1] = i[a] + j[a]
      BY <1>9
    <3> QED BY <3>1, <3>2, <3>3
  <2> QED BY <2>1, <2>2, <2>3 DEF Inner
<1>11. Full(Deeper(T))
  <2>1. D + E + 1 \in Nat
    OBVIOUS
  <2> QED BY <1>8, <1>10, <2>1, Zenon DEF Full
<1>12. IsFiniteSet(Deeper(T))
  BY <1>2, DeeperSize
<1>13. Deeper(T) \in SUBSET (Symbols \X Nat)
  BY <1>2 DEF Deeper
<1>14. \A p, q \in Deeper(T) : p[1] = q[1] => p = q
  <2> SUFFICES ASSUME NEW p \in T, NEW q \in T, p[1] = q[1] PROVE <<p[1], p[2] + 1>> = <<q[1], q[2] + 1>>
    BY DEF Deeper
  <2>1. p = q
    BY <1>3
  <2> QED BY <2>1
<1>15. Syms(Deeper(T)) = Syms(A) \cup Syms(B)
  <2> HIDE DEF T
  <2>1. Syms(Deeper(T)) = { p[1] : p \in T }
    <3>1. ASSUME NEW p \in T PROVE p[1] \in Syms(Deeper(T))
      <4>1. <<p[1], p[2] + 1>> \in Deeper(T) /\ <<p[1], p[2] + 1>>[1] = p[1]
        BY DEF Deeper
      <4> HIDE DEF Deeper
      <4> QED BY <4>1, Zenon DEF Syms
    <3>2. ASSUME NEW q \in Deeper(T) PROVE q[1] \in { p[1] : p \in T }
      <4>1. PICK p \in T : q = <<p[1], p[2] + 1>>
        BY Zenon DEF Deeper
      <4> QED BY <4>1
    <3> QED BY <3>1, <3>2, Zenon DEF Syms
  <2> USE DEF T
  <2> QED BY <2>1 DEF Syms
<1> HIDE DEF T
<1>16. IsTree(Deeper(T))
  BY <1>11, <1>12, <1>13, <1>14, Zenon DEF IsTree
<1> QED BY <1>15, <1>16, Zenon DEF T

Root == [w : Nat, leaves : SUBSET (Symbols \X Nat)]

(* There is a lightest root among some. *)
LEMMA LightestAmong ==
  ASSUME NEW live \in Seq(Root), NEW among \in SUBSET (1 .. Len(live)), among # {}
  PROVE  Lightest(live, among) \in among
<1>1. \A i \in among : live[i].w \in Nat /\ i \in Nat
  <2>1. \A i \in among : live[i] \in Root
    OBVIOUS
  <2> QED BY <2>1 DEF Root
<1> DEFINE W == { live[i].w : i \in among }
<1>2. PICK w \in W : \A v \in W : w <= v
  <2>1. W \in SUBSET Nat /\ W # {}
    BY <1>1
  <2> HIDE DEF W
  <2> QED BY <2>1, NatMin
<1> DEFINE M == { i \in among : live[i].w = w }
<1>3. PICK i \in M : \A j \in M : i <= j
  <2>1. M \in SUBSET Nat /\ M # {}
    BY <1>1
  <2> HIDE DEF M
  <2> QED BY <2>1, NatMin
<1>4. i \in among /\ live[i].w = w
  OBVIOUS
<1>5. \A j \in among : Lighter(live, i, j)
  <2> SUFFICES ASSUME NEW j \in among PROVE Lighter(live, i, j)
    OBVIOUS
  <2>1. w <= live[j].w /\ w \in Nat /\ live[j].w \in Nat
    BY <1>1, <1>2, <1>4
  <2>2. CASE live[j].w = w
    <3>1. i <= j
      BY <1>3, <2>2
    <3> QED BY <1>4, <2>2, <3>1 DEF Lighter
  <2>3. CASE live[j].w # w
    <3>1. w < live[j].w
      BY <2>1, <2>3
    <3> QED BY <1>4, <3>1 DEF Lighter
  <2> QED BY <2>2, <2>3
<1> HIDE DEF M, W
<1> QED BY <1>4, <1>5, Zenon DEF Lightest

(* Where the roots are after two of them have been joined. *)
JoinedAt(live, lo, hi, new) ==
  /\ new \in Seq(Root) /\ Len(new) = Len(live) - 1
  /\ new[lo].leaves = Deeper(live[lo].leaves \cup live[hi].leaves)
  /\ \A i \in 1 .. Len(live) - 1 : i # lo => new[i] = live[IF i = hi THEN Len(live) ELSE i]

(* Join takes two roots for one. *)
LEMMA JoinAt ==
  ASSUME NEW live \in Seq(Root), Len(live) >= 2
  PROVE  \E lo, hi \in 1 .. Len(live) : lo < hi /\ JoinedAt(live, lo, hi, Join(live))
<1>0. PICK n \in Nat : n = Len(live) /\ n >= 2
  OBVIOUS
<1> DEFINE a == Lightest(live, 1 .. n)
           b == Lightest(live, (1 .. n) \ {a})
           lo == IF a < b THEN a ELSE b
           hi == IF a < b THEN b ELSE a
           leaves == { <<p[1], p[2] + 1>> : p \in live[a].leaves \cup live[b].leaves }
           both == [w |-> live[a].w + live[b].w, leaves |-> leaves]
           all == [live EXCEPT ![lo] = both, ![hi] = live[n]]
<1>1. Join(live) = SubSeq(all, 1, n - 1)
  BY <1>0 DEF Join
<1>2. a \in 1 .. n
  <2>1. 1 .. n \in SUBSET (1 .. Len(live)) /\ 1 .. n # {}
    BY <1>0
  <2> QED BY <2>1, LightestAmong
<1>3. b \in 1 .. n /\ b # a
  <2> HIDE DEF a
  <2>1. (1 .. n) \ {a} \in SUBSET (1 .. Len(live))
    BY <1>0
  <2>2. (1 .. n) \ {a} # {}
    <3>1. 1 \in 1 .. n /\ 2 \in 1 .. n
      BY <1>0
    <3>2. a # 1 \/ a # 2
      OBVIOUS
    <3> QED BY <3>1, <3>2
  <2>3. b \in (1 .. n) \ {a}
    BY <2>1, <2>2, LightestAmong
  <2> QED BY <2>3
<1> HIDE DEF a, b
<1>4. lo \in 1 .. n /\ hi \in 1 .. n /\ lo < hi /\ {lo, hi} = {a, b}
  BY <1>2, <1>3
<1>5. leaves = Deeper(live[lo].leaves \cup live[hi].leaves)
  <2>1. live[lo].leaves \cup live[hi].leaves = live[a].leaves \cup live[b].leaves
    OBVIOUS
  <2> QED BY <2>1 DEF Deeper
<1>6. both \in Root
  <2>1. live[a] \in Root /\ live[b] \in Root
    BY <1>0, <1>2, <1>3
  <2>2. live[a].leaves \in SUBSET (Symbols \X Nat) /\ live[b].leaves \in SUBSET (Symbols \X Nat)
        /\ live[a].w + live[b].w \in Nat
    BY SMTT(30), <2>1 DEF Root
  <2>3. leaves \in SUBSET (Symbols \X Nat)
    BY <2>2
  <2> HIDE DEF leaves
  <2> QED BY <2>2, <2>3 DEF Root
<1>7. both.leaves = leaves
  OBVIOUS
<1> HIDE DEF both, leaves, lo, hi
<1>8. all \in Seq(Root) /\ Len(all) = n /\ all[lo] = both
      /\ \A i \in 1 .. n : i # lo => all[i] = IF i = hi THEN live[n] ELSE live[i]
  <2>1. live[n] \in Root /\ live \in [1 .. n -> Root]
    BY <1>0
  <2>2. all \in [1 .. n -> Root]
    BY <1>4, <1>6, <2>1
  <2>3. all[lo] = both /\ \A i \in 1 .. n : i # lo => all[i] = IF i = hi THEN live[n] ELSE live[i]
    BY <1>4, <2>1
  <2> HIDE DEF all
  <2> QED BY <2>2, <2>3
<1> HIDE DEF all
<1>9. SubSeq(all, 1, n - 1) \in Seq(Root) /\ Len(SubSeq(all, 1, n - 1)) = n - 1
      /\ \A i \in 1 .. n - 1 : SubSeq(all, 1, n - 1)[i] = all[i]
  BY <1>0, <1>8
<1>10. lo \in 1 .. n - 1
  BY <1>0, <1>4
<1>11. Join(live)[lo].leaves = Deeper(live[lo].leaves \cup live[hi].leaves)
  <2>1. Join(live)[lo] = both
    BY <1>1, <1>8, <1>9, <1>10, Zenon
  <2> QED BY <1>5, <1>7, <2>1
<1>12. \A i \in 1 .. n - 1 : i # lo => Join(live)[i] = live[IF i = hi THEN n ELSE i]
  <2> SUFFICES ASSUME NEW i \in 1 .. n - 1, i # lo PROVE Join(live)[i] = live[IF i = hi THEN n ELSE i]
    OBVIOUS
  <2>1. i \in 1 .. n
    BY <1>0
  <2>2. Join(live)[i] = all[i] /\ all[i] = IF i = hi THEN live[n] ELSE live[i]
    BY <1>1, <1>8, <1>9, <2>1, Zenon
  <2> QED BY <2>2
<1>13. JoinedAt(live, lo, hi, Join(live))
  BY <1>0, <1>1, <1>9, <1>11, <1>12, Zenon DEF JoinedAt
<1> QED BY <1>0, <1>4, <1>13, Zenon

(* The roots of some trees over the symbols U, none of which is in two.    *)
Forest(live, U) ==
  /\ live \in Seq(Root)
  /\ \A i \in 1 .. Len(live) : IsTree(live[i].leaves)
  /\ \A i, j \in 1 .. Len(live) : i # j => Syms(live[i].leaves) \cap Syms(live[j].leaves) = {}
  /\ \A s : s \in U <=> \E i \in 1 .. Len(live) : s \in Syms(live[i].leaves)

(* One root less, over the same symbols. *)
LEMMA JoinForest ==
  ASSUME NEW live, NEW U, Forest(live, U), Len(live) >= 2
  PROVE  Forest(Join(live), U) /\ Len(Join(live)) = Len(live) - 1
<1>0. live \in Seq(Root)
  BY DEF Forest
<1>1. PICK n \in Nat : n = Len(live) /\ n >= 2
  BY <1>0
<1>2. PICK lo, hi \in 1 .. n : lo < hi /\ JoinedAt(live, lo, hi, Join(live))
  BY <1>0, <1>1, JoinAt
<1> DEFINE new == Join(live)
           S(i) == Syms(live[i].leaves)
           R(i) == Syms(new[i].leaves)
           src(i) == IF i = hi THEN n ELSE i
<1>3. /\ new \in Seq(Root) /\ Len(new) = n - 1
      /\ new[lo].leaves = Deeper(live[lo].leaves \cup live[hi].leaves)
      /\ \A i \in 1 .. n - 1 : i # lo => new[i] = live[src(i)]
  BY <1>1, <1>2, Zenon DEF JoinedAt
<1> HIDE DEF new
<1>4. /\ \A i \in 1 .. n : IsTree(live[i].leaves)
      /\ \A i, j \in 1 .. n : i # j => S(i) \cap S(j) = {}
      /\ \A s : s \in U <=> \E i \in 1 .. n : s \in S(i)
  BY <1>1, Zenon DEF Forest
<1>5. lo # hi /\ lo \in 1 .. n - 1
  BY <1>1, <1>2
<1>6. IsTree(new[lo].leaves) /\ R(lo) = S(lo) \cup S(hi)
  <2>1. S(lo) \cap S(hi) = {}
    BY <1>4, <1>5
  <2>2. \A p \in live[lo].leaves, q \in live[hi].leaves : p[1] # q[1]
    BY <2>1, Zenon DEF Syms
  <2>3. IsTree(live[lo].leaves) /\ IsTree(live[hi].leaves)
    BY <1>4
  <2>4. /\ IsTree(Deeper(live[lo].leaves \cup live[hi].leaves))
        /\ Syms(Deeper(live[lo].leaves \cup live[hi].leaves)) = S(lo) \cup S(hi)
    BY <2>2, <2>3, JoinTree
  <2> QED BY <1>3, <2>4, Zenon
<1>7. \A i \in 1 .. n - 1 : i # lo => src(i) \in 1 .. n /\ src(i) # lo /\ src(i) # hi
                                      /\ IsTree(new[i].leaves) /\ R(i) = S(src(i))
  <2> SUFFICES ASSUME NEW i \in 1 .. n - 1, i # lo
               PROVE  src(i) \in 1 .. n /\ src(i) # lo /\ src(i) # hi
                      /\ IsTree(new[i].leaves) /\ R(i) = S(src(i))
    OBVIOUS
  <2>1. src(i) \in 1 .. n /\ src(i) # lo /\ src(i) # hi
    BY <1>1, <1>2
  <2>2. new[i] = live[src(i)]
    BY <1>3
  <2> HIDE DEF src
  <2> QED BY <1>4, <2>1, <2>2, Zenon
<1>8. \A i, j \in 1 .. n - 1 : i # j => src(i) # src(j)
  BY <1>1
<1>9. \A k \in 1 .. n : k # lo /\ k # hi => \E i \in 1 .. n - 1 : i # lo /\ src(i) = k
  <2> SUFFICES ASSUME NEW k \in 1 .. n, k # lo, k # hi PROVE \E i \in 1 .. n - 1 : i # lo /\ src(i) = k
    OBVIOUS
  <2>1. CASE k = n
    <3>1. hi \in 1 .. n - 1 /\ hi # lo /\ src(hi) = k
      BY <1>1, <1>2, <2>1
    <3> QED BY <3>1
  <2>2. CASE k # n
    <3>1. k \in 1 .. n - 1 /\ k # lo /\ src(k) = k
      BY <1>1, <2>2
    <3> QED BY <3>1
  <2> QED BY <2>1, <2>2
<1> HIDE DEF src, R, S
<1>10. \A i \in 1 .. n - 1 : IsTree(new[i].leaves)
  BY <1>6, <1>7, Zenon
<1>11. ASSUME NEW i \in 1 .. n - 1, NEW j \in 1 .. n - 1, i # j PROVE R(i) \cap R(j) = {}
  <2>1. CASE i = lo
    <3>1. j # lo
      BY <1>11, <2>1
    <3>2. src(j) \in 1 .. n /\ src(j) # lo /\ src(j) # hi /\ R(j) = S(src(j))
      BY <1>7, <3>1
    <3>3. S(lo) \cap S(src(j)) = {} /\ S(hi) \cap S(src(j)) = {}
      BY <1>4, <3>2
    <3> QED BY <1>6, <2>1, <3>2, <3>3
  <2>2. CASE j = lo
    <3>1. i # lo
      BY <1>11, <2>2
    <3>2. src(i) \in 1 .. n /\ src(i) # lo /\ src(i) # hi /\ R(i) = S(src(i))
      BY <1>7, <3>1
    <3>3. S(lo) \cap S(src(i)) = {} /\ S(hi) \cap S(src(i)) = {}
      BY <1>4, <3>2
    <3> QED BY <1>6, <2>2, <3>2, <3>3
  <2>3. CASE i # lo /\ j # lo
    <3>1. src(i) \in 1 .. n /\ src(j) \in 1 .. n /\ src(i) # src(j) /\ R(i) = S(src(i)) /\ R(j) = S(src(j))
      BY <1>7, <1>8, <1>11, <2>3
    <3> QED BY <1>4, <3>1, Zenon
  <2> QED BY <2>1, <2>2, <2>3
<1>12. ASSUME NEW s, s \in U PROVE \E i \in 1 .. n - 1 : s \in R(i)
  <2>1. PICK k \in 1 .. n : s \in S(k)
    BY <1>4, <1>12, Zenon
  <2>2. CASE k = lo \/ k = hi
    <3>1. s \in R(lo)
      BY <1>6, <2>1, <2>2
    <3> QED BY <1>5, <3>1
  <2>3. CASE k # lo /\ k # hi
    <3>1. PICK i \in 1 .. n - 1 : i # lo /\ src(i) = k
      BY <1>9, <2>3
    <3>2. R(i) = S(k)
      BY <1>7, <3>1
    <3> QED BY <2>1, <3>1, <3>2
  <2> QED BY <2>2, <2>3
<1>13. ASSUME NEW s, NEW i \in 1 .. n - 1, s \in R(i) PROVE s \in U
  <2>1. CASE i = lo
    <3>1. s \in S(lo) \/ s \in S(hi)
      BY <1>6, <1>13, <2>1
    <3> QED BY <1>4, <3>1, Zenon
  <2>2. CASE i # lo
    <3>1. src(i) \in 1 .. n /\ s \in S(src(i))
      BY <1>7, <1>13, <2>2
    <3> QED BY <1>4, <3>1, Zenon
  <2> QED BY <2>1, <2>2
<1>14. Forest(new, U)
  <2>1. \A s : s \in U <=> \E i \in 1 .. n - 1 : s \in R(i)
    BY <1>12, <1>13, Zenon
  <2>2. \A i, j \in 1 .. n - 1 : i # j => R(i) \cap R(j) = {}
    BY <1>11, Zenon
  <2> QED BY <1>3, <1>10, <2>1, <2>2, Zenon DEF Forest, R
<1> QED BY <1>1, <1>3, <1>14, Zenon DEF new

(* No leaf is the root, of two or more. *)
LEMMA BelowRoot ==
  ASSUME NEW T, IsTree(T), NEW p \in T, NEW q \in T, p # q
  PROVE  p[2] > 0
<1>1. T \in SUBSET (Symbols \X Nat) /\ IsFiniteSet(T) /\ p[2] \in Nat /\ q[2] \in Nat
  <2>1. T \in SUBSET (Symbols \X Nat) /\ IsFiniteSet(T)
    BY Zenon DEF IsTree
  <2> QED BY <2>1
<1>2. PICK i \in [Nat -> Nat], D \in Nat : Inner(T, i, D)
  BY Zenon DEF IsTree, Full
<1>3. SUFFICES ASSUME p[2] = 0 PROVE FALSE
  BY <1>1
<1>4. \A b \in Nat : IsFiniteSet(Level(T, b)) /\ Cardinality(Level(T, b)) \in Nat
  BY <1>1, LevelFinite
<1>5. Cardinality(Level(T, 0)) = 1 /\ i[0] = 0
  <2>1. p \in Level(T, 0)
    BY <1>3 DEF Level
  <2>2. Cardinality(Level(T, 0)) # 0
    BY <1>4, <2>1, FS_EmptySet
  <2>3. i[0] = 1 - Cardinality(Level(T, 0)) /\ i[0] \in Nat
    BY <1>2 DEF Inner
  <2>4. Cardinality(Level(T, 0)) \in Nat
    BY <1>4
  <2> QED BY <2>2, <2>3, <2>4
<1>6. \A b \in Nat : i[b] = 0 => i[b + 1] = 0 /\ Level(T, b + 1) = {}
  <2> SUFFICES ASSUME NEW b \in Nat, i[b] = 0 PROVE i[b + 1] = 0 /\ Level(T, b + 1) = {}
    OBVIOUS
  <2>1. PICK c \in Nat : c = Cardinality(Level(T, b + 1))
    BY <1>4
  <2>2. i[b + 1] = 2 * 0 - c /\ i[b + 1] \in Nat
    BY <1>2, <2>1 DEF Inner
  <2>3. c = 0 /\ i[b + 1] = 0
    BY <2>2
  <2>4. IsFiniteSet(Level(T, b + 1))
    BY <1>4
  <2> QED BY <2>1, <2>3, <2>4, FS_EmptySet
<1>7. CASE q[2] = 0
  <2>1. PICK x : Level(T, 0) = {x}
    BY <1>4, <1>5, FS_Singleton
  <2>2. p \in Level(T, 0) /\ q \in Level(T, 0)
    BY <1>3, <1>7 DEF Level
  <2> QED BY <2>1, <2>2
<1>8. CASE q[2] # 0
  <2>1. PICK m \in Nat : q[2] = m + 1
    <3>1. q[2] - 1 \in Nat /\ q[2] = (q[2] - 1) + 1
      BY <1>1, <1>8
    <3> QED BY <3>1
  <2> DEFINE S == { b \in Nat : i[b] = 0 }
  <2>2. 0 \in S /\ \A b \in 0 .. m - 1 : b \in S => b + 1 \in S
    BY <1>5, <1>6
  <2>3. m \in S
    <3> HIDE DEF S
    <3>1. \A b \in 0 .. m : b \in S
      BY <2>2, Climb
    <3> QED BY <3>1
  <2>4. Level(T, m + 1) = {}
    BY <1>6, <2>3
  <2> QED BY <2>1, <2>4 DEF Level
<1> QED BY <1>7, <1>8

(* The depths of a tree are lengths that xq_huff_load accepts. *)
LEMMA DepthsLoad ==
  ASSUME NEW T, IsTree(T), NEW len \in [Symbols -> Nat], Used(len) = Syms(T),
         \A p \in T : len[p[1]] = p[2] /\ p[2] <= MaxBits,
         Used(len) # {}, Cardinality(Used(len)) # 1
  PROVE  Loads(len)
<1>0. MaxBits \in Nat
  BY HuffAssumption
<1>1. T \in SUBSET (Symbols \X Nat) /\ IsFiniteSet(T) /\ \A p, q \in T : p[1] = q[1] => p = q
  BY Zenon DEF IsTree
<1>2. PICK i \in [Nat -> Nat], D \in Nat : Inner(T, i, D)
  BY Zenon DEF IsTree, Full
<1>3. \A p \in T : p[1] \in Symbols /\ p[2] \in Nat /\ p[2] > 0
  <2> SUFFICES ASSUME NEW p \in T PROVE p[1] \in Symbols /\ p[2] \in Nat /\ p[2] > 0
    OBVIOUS
  <2>1. p[1] \in Symbols /\ p[2] \in Nat
    BY <1>1
  <2>2. p[1] \in Used(len)
    BY Zenon DEF Syms
  <2>3. len[p[1]] > 0
    BY <2>2 DEF Used
  <2> QED BY <2>1, <2>3
<1>4. \A b \in Nat : Cardinality(Level(T, b + 1)) = Count(len, b + 1)
  <2> SUFFICES ASSUME NEW b \in Nat PROVE Cardinality(Level(T, b + 1)) = Count(len, b + 1)
    OBVIOUS
  <2> DEFINE V == { s \in Symbols : len[s] = b + 1 }
             g == [p \in Level(T, b + 1) |-> p[1]]
  <2>1. IsFiniteSet(Level(T, b + 1))
    BY <1>1, LevelFinite
  <2>2. \A p \in Level(T, b + 1) : p \in T /\ p[2] = b + 1
    BY DEF Level
  <2>3. g \in [Level(T, b + 1) -> V]
    BY <1>3, <2>2
  <2>4. \A p, q \in Level(T, b + 1) : g[p] = g[q] => p = q
    BY <1>1, <2>2
  <2>5. ASSUME NEW s \in V PROVE \E p \in Level(T, b + 1) : g[p] = s
    <3>1. s \in Used(len)
      BY DEF Used
    <3>2. PICK p \in T : s = p[1]
      BY <3>1, Zenon DEF Syms
    <3>3. p[2] = b + 1
      BY <3>2
    <3>4. p \in Level(T, b + 1)
      BY <3>3 DEF Level
    <3> QED BY <3>2, <3>4
  <2> HIDE DEF g, V
  <2>6. Cardinality(V) = Cardinality(Level(T, b + 1))
    BY ZenonT(60), <2>1, <2>3, <2>4, <2>5, SameSize
  <2> QED BY <2>6 DEF V, Count
<1>5. i[0] = 1
  <2>1. Level(T, 0) = {}
    BY <1>3 DEF Level
  <2>2. Cardinality(Level(T, 0)) = 0
    BY <2>1, FS_EmptySet, Zenon
  <2>3. i[0] = 1 - 0
    BY <1>2, <2>2, Zenon DEF Inner
  <2> QED BY <2>3
<1>6. \A b \in Nat : i[b + 1] = 2 * i[b] - Count(len, b + 1)
  BY <1>2, <1>4, Zenon DEF Inner
<1> DEFINE S == { b \in 0 .. MaxBits : Avail(len)[b] = i[b] }
<1>7. \A b \in 0 .. MaxBits : b \in S
  <2>1. 0 \in S
    BY <1>0, <1>5, Avails
  <2>2. ASSUME NEW b \in 0 .. MaxBits - 1, b \in S PROVE b + 1 \in S
    <3>1. b \in Nat /\ b + 1 \in 1 .. MaxBits /\ b + 1 \in 0 .. MaxBits /\ (b + 1) - 1 = b
      BY <1>0
    <3>2. Avail(len)[b + 1] = 2 * Avail(len)[(b + 1) - 1] - Count(len, b + 1)
      BY <3>1, Avails
    <3>3. Avail(len)[b] = i[b]
      BY <2>2
    <3>4. Avail(len)[b + 1] = i[b + 1]
      BY <1>6, <3>1, <3>2, <3>3, Zenon
    <3> QED BY <3>1, <3>4
  <2> HIDE DEF S
  <2> QED BY <1>0, <2>1, <2>2, Climb
<1>8. PICK L \in Nat : L = LongestOf(len)
  BY LongestMax
<1>9. L <= MaxBits
  <2>1. PICK s \in Symbols : len[s] = L
    BY <1>8, LongestMax
  <2>2. CASE len[s] = 0
    BY <1>0, <2>1, <2>2
  <2>3. CASE len[s] # 0
    <3>1. s \in Used(len)
      <4>1. len[s] > 0
        BY <2>3
      <4> QED BY <4>1 DEF Used
    <3>2. PICK p \in T : s = p[1]
      BY <3>1, Zenon DEF Syms
    <3> QED BY <2>1, <3>2
  <2> QED BY <2>2, <2>3
<1>10. i[L] = 0
  <2> SUFFICES ASSUME i[L] # 0 PROVE FALSE
    OBVIOUS
  <2>1. \A b \in Nat : Count(len, L + b + 1) = 0
    <3> SUFFICES ASSUME NEW b \in Nat PROVE Count(len, L + b + 1) = 0
      OBVIOUS
    <3>1. { s \in Symbols : len[s] = L + b + 1 } = {}
      <4> SUFFICES ASSUME NEW s \in Symbols, len[s] = L + b + 1 PROVE FALSE
        OBVIOUS
      <4>1. len[s] <= L /\ len[s] \in Nat
        BY <1>8, LongestMax
      <4> QED BY <4>1
    <3> QED BY <3>1, FS_EmptySet, Zenon DEF Count
  <2> DEFINE R == { b \in 0 .. D : i[L + b] > 0 }
  <2>2. 0 \in R
    <3>1. L + 0 = L /\ i[L] \in Nat /\ 0 \in 0 .. D
      OBVIOUS
    <3>2. i[L] > 0
      BY <3>1
    <3> QED BY <3>1, <3>2
  <2>3. ASSUME NEW b \in 0 .. D - 1, b \in R PROVE b + 1 \in R
    <3>1. b \in Nat /\ L + b \in Nat /\ L + (b + 1) = (L + b) + 1 /\ L + b + 1 = (L + b) + 1 /\ b + 1 \in 0 .. D
      OBVIOUS
    <3>2. i[(L + b) + 1] = 2 * i[L + b] - Count(len, (L + b) + 1) /\ Count(len, (L + b) + 1) = 0
      BY <1>6, <2>1, <3>1
    <3>3. i[L + b] > 0 /\ i[L + b] \in Nat
      BY <2>3, <3>1
    <3>4. i[(L + b) + 1] > 0
      BY <3>2, <3>3
    <3> QED BY <3>1, <3>4
  <2>4. D \in R
    <3> HIDE DEF R
    <3>1. \A b \in 0 .. D : b \in R
      BY <2>2, <2>3, Climb
    <3> QED BY <3>1
  <2>5. L + D \in Nat /\ L + D >= D
    OBVIOUS
  <2>6. i[L + D] = 0
    BY <1>2, <2>5 DEF Inner
  <2> QED BY <2>4, <2>6
<1>11. \A b \in 1 .. L : Avail(len)[b] >= 0
  <2> SUFFICES ASSUME NEW b \in 1 .. L PROVE Avail(len)[b] >= 0
    OBVIOUS
  <2>1. b \in 0 .. MaxBits /\ i[b] \in Nat
    BY <1>0, <1>9
  <2>2. Avail(len)[b] = i[b]
    BY <1>7, <2>1
  <2> QED BY <2>1, <2>2
<1>12. Avail(len)[L] = 0
  <2>1. L \in 0 .. MaxBits
    BY <1>0, <1>9
  <2> QED BY <1>7, <1>10, <2>1
<1> QED BY <1>8, <1>9, <1>11, <1>12, Zenon DEF Loads

(* One more leaf among the roots. *)
Leaf(s, w) == [w |-> w, leaves |-> {<<s, 0>>}]

(* A leaf more is a forest still. *)
LEMMA LeafForest ==
  ASSUME NEW live, NEW U, Forest(live, U), NEW s \in Symbols, s \notin U, NEW w \in Nat
  PROVE  Forest(Append(live, Leaf(s, w)), U \cup {s})
<1> DEFINE new == Append(live, Leaf(s, w))
<1>0. live \in Seq(Root) /\ Leaf(s, w) \in Root
  <2>1. {<<s, 0>>} \in SUBSET (Symbols \X Nat)
    OBVIOUS
  <2> QED BY <2>1 DEF Forest, Leaf, Root
<1>1. PICK n \in Nat : n = Len(live)
  BY <1>0
<1>2. /\ new \in Seq(Root) /\ Len(new) = n + 1 /\ new[n + 1] = Leaf(s, w)
      /\ \A i \in 1 .. n : new[i] = live[i]
  BY <1>0, <1>1
<1>3. IsTree(new[n + 1].leaves) /\ Syms(new[n + 1].leaves) = {s}
  <2>1. new[n + 1].leaves = {<<s, 0>>}
    BY <1>2 DEF Leaf
  <2> QED BY <2>1, LeafTree
<1> HIDE DEF new
<1>4. \A i \in 1 .. n : new[i].leaves = live[i].leaves
  BY <1>2
<1>5. /\ \A i \in 1 .. n : IsTree(live[i].leaves)
      /\ \A i, j \in 1 .. n : i # j => Syms(live[i].leaves) \cap Syms(live[j].leaves) = {}
      /\ \A r : r \in U <=> \E i \in 1 .. n : r \in Syms(live[i].leaves)
  BY <1>1, Zenon DEF Forest
<1>6. \A i \in 1 .. n + 1 : i \in 1 .. n \/ i = n + 1
  OBVIOUS
<1>7. n + 1 \in 1 .. n + 1 /\ \A i \in 1 .. n : i \in 1 .. n + 1 /\ i # n + 1
  OBVIOUS
<1>8. \A i \in 1 .. n + 1 : IsTree(new[i].leaves)
  BY <1>3, <1>4, <1>5, <1>6, Zenon
<1>9. \A i \in 1 .. n : s \notin Syms(live[i].leaves)
  BY <1>5, Zenon
<1>10. ASSUME NEW i \in 1 .. n + 1, NEW j \in 1 .. n + 1, i # j
       PROVE  Syms(new[i].leaves) \cap Syms(new[j].leaves) = {}
  <2>1. CASE i \in 1 .. n /\ j \in 1 .. n
    BY <1>4, <1>5, <1>10, <2>1, Zenon
  <2>2. CASE i \in 1 .. n /\ j = n + 1
    <3>1. s \notin Syms(new[i].leaves) /\ Syms(new[j].leaves) = {s}
      BY <1>3, <1>4, <1>9, <2>2, Zenon
    <3> QED BY <3>1
  <2>3. CASE i = n + 1 /\ j \in 1 .. n
    <3>1. s \notin Syms(new[j].leaves) /\ Syms(new[i].leaves) = {s}
      BY <1>3, <1>4, <1>9, <2>3, Zenon
    <3> QED BY <3>1
  <2> QED BY <1>6, <1>10, <2>1, <2>2, <2>3, Zenon
<1>11. ASSUME NEW r PROVE r \in U \cup {s} <=> \E i \in 1 .. n + 1 : r \in Syms(new[i].leaves)
  <2>1. ASSUME r \in U PROVE \E i \in 1 .. n + 1 : r \in Syms(new[i].leaves)
    <3>1. PICK i \in 1 .. n : r \in Syms(live[i].leaves)
      BY <1>5, <2>1, Zenon
    <3> QED BY <1>4, <1>7, <3>1, Zenon
  <2>2. ASSUME r = s PROVE \E i \in 1 .. n + 1 : r \in Syms(new[i].leaves)
    <3>1. r \in Syms(new[n + 1].leaves)
      BY <1>3, <2>2
    <3> QED BY <1>7, <3>1, Zenon
  <2>3. ASSUME NEW i \in 1 .. n + 1, r \in Syms(new[i].leaves) PROVE r \in U \cup {s}
    <3>1. CASE i \in 1 .. n
      <4>1. r \in Syms(live[i].leaves)
        BY <1>4, <2>3, <3>1, Zenon
      <4>2. r \in U
        BY <1>5, <3>1, <4>1, Zenon
      <4> QED BY <4>2
    <3>2. CASE i = n + 1
      <4>1. r = s
        BY <1>3, <2>3, <3>2
      <4> QED BY <4>1
    <3> QED BY <1>6, <3>1, <3>2, Zenon
  <2> QED BY <2>1, <2>2, <2>3
<1>12. Forest(new, U \cup {s})
  <2>1. \A i, j \in 1 .. n + 1 : i # j => Syms(new[i].leaves) \cap Syms(new[j].leaves) = {}
    BY <1>10, Zenon
  <2>2. \A r : r \in U \cup {s} <=> \E i \in 1 .. n + 1 : r \in Syms(new[i].leaves)
    BY <1>11, Zenon
  <2> QED BY <1>2, <1>8, <2>1, <2>2, Zenon DEF Forest
<1> QED BY <1>12, Zenon DEF new

(* The symbols that occur, each a root of its own. *)
LEMMA LeavesForest ==
  ASSUME NEW f \in [Symbols -> Nat]
  PROVE  Forest(Leaves(f), Used(f))
<1> DEFINE Turned(x, i) == IF f[i - 1] = 0 THEN x ELSE Append(x, [w |-> f[i - 1], leaves |-> {<<i - 1, 0>>}])
           F == [x \in Seq(Root) \X Nat |-> IF x[2] \in 1 .. NSymbols THEN Turned(x[1], x[2]) ELSE x[1]]
           G(g) == [i \in 0 .. NSymbols |-> IF i = 0 THEN <<>> ELSE Turned(g[i - 1], i)]
<1>1. NSymbols \in Nat \ {0} /\ Symbols = 0 .. NSymbols - 1
  BY HuffAssumption DEF Symbols
<1>2. Listed(f) = CHOOSE g : g = G(g)
  BY DEF Listed
<1>3. \A x, i : Turned(x, i) = IF f[i - 1] = 0 THEN x ELSE Append(x, Leaf(i - 1, f[i - 1]))
  BY DEF Leaf
<1> HIDE DEF Turned
<1>4. \A x \in Seq(Root), i \in 1 .. NSymbols : Turned(x, i) \in Seq(Root)
  <2> SUFFICES ASSUME NEW x \in Seq(Root), NEW i \in 1 .. NSymbols PROVE Turned(x, i) \in Seq(Root)
    OBVIOUS
  <2>1. i - 1 \in Symbols /\ f[i - 1] \in Nat
    BY <1>1
  <2>2. Leaf(i - 1, f[i - 1]) \in Root
    BY <2>1 DEF Leaf, Root
  <2>3. Append(x, Leaf(i - 1, f[i - 1])) \in Seq(Root)
    BY <2>2
  <2> QED BY <1>3, <2>3
<1>5. F \in [Seq(Root) \X Nat -> Seq(Root)]
      /\ \A x \in Seq(Root), i \in 1 .. NSymbols : F[<<x, i>>] = Turned(x, i)
  <2>1. \A i \in 1 .. NSymbols : i \in Nat
    BY <1>1
  <2> QED BY <1>4, <2>1
<1> HIDE DEF F
<1>6. PICK g : IsLoop(NSymbols, Seq(Root), <<>>, F, g)
  <2>1. <<>> \in Seq(Root)
    OBVIOUS
  <2>2. HasLoop(NSymbols, Seq(Root), <<>>, F)
    BY <1>1, <1>5, <2>1, Loop
  <2> QED BY <2>2, Zenon DEF HasLoop
<1>7. g \in [0 .. NSymbols -> Seq(Root)] /\ g[0] = <<>> /\ \A i \in 1 .. NSymbols : g[i] = F[<<g[i - 1], i>>]
  BY <1>6, Zenon DEF IsLoop
<1>8. g = G(g)
  <2>1. \A i \in 1 .. NSymbols : g[i] = Turned(g[i - 1], i)
    <3>1. \A i \in 1 .. NSymbols : g[i - 1] \in Seq(Root)
      BY <1>1, <1>7
    <3> QED BY <1>5, <1>7, <3>1, Zenon
  <2>2. \A i \in 0 .. NSymbols : i = 0 \/ i \in 1 .. NSymbols
    BY <1>1
  <2>3. \A i \in 0 .. NSymbols : g[i] = IF i = 0 THEN <<>> ELSE Turned(g[i - 1], i)
    BY <1>7, <2>1, <2>2, Zenon
  <2> QED BY <1>7, <2>3
<1>9. PICK h : h = Listed(f) /\ h = G(h)
  <2> HIDE DEF G
  <2> QED BY <1>2, <1>8
<1>10. h[0] = <<>> /\ \A i \in 1 .. NSymbols : h[i] = Turned(h[i - 1], i)
  <2>1. \A i \in 0 .. NSymbols : h[i] = IF i = 0 THEN <<>> ELSE Turned(h[i - 1], i)
    BY <1>9, Zenon
  <2>2. 0 \in 0 .. NSymbols /\ \A i \in 1 .. NSymbols : i \in 0 .. NSymbols /\ i # 0
    BY <1>1
  <2> QED BY <2>1, <2>2, Zenon
<1> DEFINE Upto(i) == { s \in Used(f) : s < i }
           S == { i \in 0 .. NSymbols : Forest(h[i], Upto(i)) }
<1>11. 0 \in S
  <2>1. Upto(0) = {}
    BY <1>1 DEF Used
  <2>2. Len(h[0]) = 0 /\ h[0] \in Seq(Root)
    BY <1>10
  <2>3. Forest(h[0], {})
    BY <2>2 DEF Forest
  <2>4. 0 \in 0 .. NSymbols
    BY <1>1
  <2> QED BY <2>1, <2>3, <2>4
<1>12. ASSUME NEW i \in 0 .. NSymbols - 1, i \in S PROVE i + 1 \in S
  <2>1. i \in Symbols /\ i + 1 \in 1 .. NSymbols /\ (i + 1) - 1 = i /\ i + 1 \in 0 .. NSymbols /\ f[i] \in Nat
    BY <1>1
  <2>2. h[i + 1] = IF f[i] = 0 THEN h[i] ELSE Append(h[i], Leaf(i, f[i]))
    BY <1>3, <1>10, <2>1, Zenon
  <2>3. Forest(h[i], Upto(i)) /\ i \notin Upto(i)
    BY <1>12, <2>1
  <2>4. CASE f[i] = 0
    <3>1. Upto(i + 1) = Upto(i)
      <4>1. \A s \in Used(f) : s \in Int /\ s # i
        BY <1>1, <2>4 DEF Used
      <4>2. \A s \in Used(f) : s < i + 1 <=> s < i
        BY <2>1, <4>1
      <4> QED BY <4>2
    <3> QED BY <2>1, <2>2, <2>3, <2>4, <3>1
  <2>5. CASE f[i] # 0
    <3>1. Upto(i + 1) = Upto(i) \cup {i}
      <4>1. \A s \in Used(f) : s \in Int
        BY <1>1 DEF Used
      <4>2. \A s \in Used(f) : s < i + 1 <=> (s < i \/ s = i)
        BY <2>1, <4>1
      <4>3. i \in Used(f)
        <5>1. f[i] > 0
          BY <2>1, <2>5
        <5> QED BY <2>1, <5>1 DEF Used
      <4> QED BY <4>2, <4>3
    <3>2. Forest(Append(h[i], Leaf(i, f[i])), Upto(i) \cup {i})
      <4> HIDE DEF Upto
      <4> QED BY <2>1, <2>3, LeafForest
    <3>3. Forest(h[i + 1], Upto(i + 1))
      <4> HIDE DEF Upto
      <4> QED BY <2>2, <2>5, <3>1, <3>2
    <3> QED BY <2>1, <3>3
  <2> QED BY <2>4, <2>5
<1>13. NSymbols \in S
  <2> HIDE DEF S
  <2>1. \A i \in 0 .. NSymbols : i \in S
    BY <1>1, <1>11, <1>12, Climb
  <2> QED BY <1>1, <2>1
<1>14. Upto(NSymbols) = Used(f)
  <2>1. \A s \in Used(f) : s < NSymbols
    BY <1>1 DEF Used
  <2> QED BY <2>1
<1>15. Forest(h[NSymbols], Used(f))
  <2>1. Forest(h[NSymbols], Upto(NSymbols))
    BY <1>13
  <2> HIDE DEF Upto
  <2> QED BY <1>14, <2>1
<1> QED BY <1>9, <1>15, Zenon DEF Leaves

(* Joined into one, they are a tree of those symbols. *)
LEMMA TreeOfForest ==
  ASSUME NEW live, NEW U, Forest(live, U), U # {}
  PROVE  IsTree(Tree(live)) /\ Syms(Tree(live)) = U
<1>0. live \in Seq(Root)
  BY DEF Forest
<1>1. PICK n \in Nat : n = Len(live)
  BY <1>0
<1>2. n # 0
  <2> SUFFICES ASSUME n = 0 PROVE FALSE
    OBVIOUS
  <2>1. PICK s : s \in U
    OBVIOUS
  <2>2. \E i \in 1 .. n : s \in Syms(live[i].leaves)
    BY <1>1, <2>1, Zenon DEF Forest
  <2> QED BY <2>2
<1>3. PICK N \in Nat : N = n - 1 /\ N = Len(live) - 1
  BY <1>1, <1>2
<1> DEFINE A == { x \in Seq(Root) : Forest(x, U) /\ Len(x) >= 2 }
           F == [x \in Seq(Root) \X Nat |-> IF x[1] \in A THEN Join(x[1]) ELSE x[1]]
           G(g) == [k \in 0 .. Len(live) - 1 |-> IF k = 0 THEN live ELSE Join(g[k - 1])]
           Left(x, k) == Forest(x, U) /\ Len(x) = n - k
<1>4. Joined(live) = CHOOSE g : g = G(g)
  BY DEF Joined
<1>5. \A x \in A : Join(x) \in Seq(Root)
  <2>1. \A x \in A : Forest(Join(x), U)
    BY JoinForest
  <2> QED BY <2>1, Zenon DEF Forest
<1>6. F \in [Seq(Root) \X Nat -> Seq(Root)]
      /\ \A x \in Seq(Root), k \in Nat : x \in A => F[<<x, k>>] = Join(x)
  <2> HIDE DEF A
  <2> QED BY <1>5
<1> HIDE DEF F
<1>7. PICK g : IsLoop(N, Seq(Root), live, F, g)
  <2>1. HasLoop(N, Seq(Root), live, F)
    BY <1>0, <1>6, Loop
  <2> QED BY <2>1, Zenon DEF HasLoop
<1>8. g \in [0 .. N -> Seq(Root)] /\ g[0] = live /\ \A k \in 1 .. N : g[k] = F[<<g[k - 1], k>>]
  BY <1>7, Zenon DEF IsLoop
<1>9. \A k \in 0 .. N - 1 : \A x : Left(x, k) => x \in A /\ Left(Join(x), k + 1)
  <2> SUFFICES ASSUME NEW k \in 0 .. N - 1, NEW x, Left(x, k) PROVE x \in A /\ Left(Join(x), k + 1)
    BY Zenon
  <2>1. x \in Seq(Root) /\ Forest(x, U) /\ Len(x) >= 2 /\ Len(x) = n - k
    <3>1. Forest(x, U) /\ Len(x) = n - k
      OBVIOUS
    <3>2. n - k >= 2
      BY <1>1, <1>3
    <3>3. x \in Seq(Root)
      BY <3>1, Zenon DEF Forest
    <3> QED BY <3>1, <3>2, <3>3
  <2>2. Forest(Join(x), U) /\ Len(Join(x)) = Len(x) - 1
    BY <2>1, JoinForest
  <2>3. (n - k) - 1 = n - (k + 1)
    OBVIOUS
  <2> QED BY <2>1, <2>2, <2>3
<1>10. Left(live, 0)
  <2>1. n = n - 0
    OBVIOUS
  <2> QED BY <1>1, <2>1
<1> HIDE DEF A, Left
<1>11. \A k \in 1 .. N : g[k] = Join(g[k - 1])
  <2> DEFINE S == { k \in 0 .. N : Left(g[k], k) }
  <2>0. ASSUME NEW k \in 0 .. N - 1, Left(g[k], k) PROVE g[k + 1] = Join(g[k]) /\ Left(g[k + 1], k + 1)
    <3>1. k + 1 \in 1 .. N /\ (k + 1) - 1 = k /\ k + 1 \in Nat /\ k \in 0 .. N
      OBVIOUS
    <3>2. g[k] \in A /\ Left(Join(g[k]), k + 1) /\ g[k] \in Seq(Root)
      BY <1>8, <1>9, <2>0, <3>1
    <3>3. g[k + 1] = F[<<g[k], k + 1>>]
      BY <1>8, <3>1, Zenon
    <3>4. g[k + 1] = Join(g[k])
      BY <1>6, <3>1, <3>2, <3>3, Zenon
    <3> QED BY <3>2, <3>4
  <2>1. 0 \in S
    BY <1>8, <1>10
  <2>2. ASSUME NEW k \in 0 .. N - 1, k \in S PROVE k + 1 \in S
    <3>1. k + 1 \in 0 .. N /\ Left(g[k], k)
      BY <2>2
    <3> QED BY <2>0, <3>1
  <2>3. \A k \in 0 .. N : Left(g[k], k)
    <3> HIDE DEF S
    <3>1. \A k \in 0 .. N : k \in S
      BY <2>1, <2>2, Climb
    <3> QED BY <3>1 DEF S
  <2>4. ASSUME NEW k \in 1 .. N PROVE g[k] = Join(g[k - 1])
    <3>1. k - 1 \in 0 .. N - 1 /\ k - 1 \in 0 .. N /\ (k - 1) + 1 = k
      OBVIOUS
    <3>2. Left(g[k - 1], k - 1)
      BY <2>3, <3>1
    <3>3. g[(k - 1) + 1] = Join(g[k - 1])
      BY <2>0, <3>1, <3>2
    <3> QED BY <3>1, <3>3
  <2> QED BY <2>4
<1>12. g = G(g)
  <2>1. \A k \in 0 .. N : k = 0 \/ k \in 1 .. N
    OBVIOUS
  <2>2. \A k \in 0 .. N : g[k] = IF k = 0 THEN live ELSE Join(g[k - 1])
    BY <1>8, <1>11, <2>1, Zenon
  <2> QED BY <1>3, <1>8, <2>2
<1>13. PICK h : h = Joined(live) /\ h = G(h)
  <2> HIDE DEF G
  <2> QED BY <1>4, <1>12
<1>14. h[0] = live /\ \A k \in 1 .. N : h[k] = Join(h[k - 1])
  <2>1. \A k \in 0 .. N : h[k] = IF k = 0 THEN live ELSE Join(h[k - 1])
    BY <1>3, <1>13, Zenon
  <2>2. 0 \in 0 .. N /\ \A k \in 1 .. N : k \in 0 .. N /\ k # 0
    OBVIOUS
  <2> QED BY <2>1, <2>2, Zenon
<1> DEFINE S == { k \in 0 .. N : Left(h[k], k) }
<1>15. 0 \in S
  BY <1>10, <1>14
<1>16. ASSUME NEW k \in 0 .. N - 1, k \in S PROVE k + 1 \in S
  <2>1. k + 1 \in 0 .. N /\ Left(h[k], k) /\ k + 1 \in 1 .. N /\ (k + 1) - 1 = k
    BY <1>16
  <2>2. Left(Join(h[k]), k + 1)
    BY <1>9, <2>1
  <2>3. h[k + 1] = Join(h[k])
    BY <1>14, <2>1, Zenon
  <2> QED BY <2>1, <2>2, <2>3
<1>17. Left(h[N], N)
  <2> HIDE DEF S
  <2>1. \A k \in 0 .. N : k \in S
    BY <1>15, <1>16, Climb
  <2> QED BY <2>1 DEF S
<1>18. Forest(h[N], U) /\ Len(h[N]) = 1
  <2>1. n - N = 1
    BY <1>1, <1>3
  <2> QED BY <1>17, <2>1 DEF Left
<1>19. Tree(live) = h[N][1].leaves
  BY <1>3, <1>13, Zenon DEF Tree
<1>20. 1 \in 1 .. 1 /\ \A i \in 1 .. 1 : i = 1
  OBVIOUS
<1>21. IsTree(h[N][1].leaves)
  BY <1>18, <1>20, Zenon DEF Forest
<1>22. \A s : s \in U <=> s \in Syms(h[N][1].leaves)
  BY <1>18, <1>20, Zenon DEF Forest
<1> QED BY <1>19, <1>21, <1>22

(* Flattened frequencies are of the same symbols. *)
LEMMA FlattenedUsed ==
  ASSUME NEW f \in [Symbols -> Nat]
  PROVE  \A k \in 0 .. Attempts - 1 : Flattened(f)[k] \in [Symbols -> Nat] /\ Used(Flattened(f)[k]) = Used(f)
<1> DEFINE A == [Symbols -> Nat]
           Flat(x) == [s \in Symbols |-> IF f[s] > 0 THEN (x[s] \div 2) + 1 ELSE 0]
           F == [x \in A \X Nat |-> Flat(x[1])]
           G(g) == [k \in 0 .. Attempts - 1 |-> IF k = 0 THEN f ELSE Flat(g[k - 1])]
<1>1. PICK N \in Nat : N = Attempts - 1
  BY HuffAssumption
<1>2. Flattened(f) = CHOOSE g : g = G(g)
  BY DEF Flattened
<1>3. \A x \in A : Flat(x) \in A /\ Used(Flat(x)) = Used(f)
  <2> SUFFICES ASSUME NEW x \in A PROVE Flat(x) \in A /\ Used(Flat(x)) = Used(f)
    OBVIOUS
  <2>1. ASSUME NEW s \in Symbols PROVE (x[s] \div 2) + 1 \in Nat /\ (x[s] \div 2) + 1 > 0
    <3>1. x[s] \in Nat
      OBVIOUS
    <3>2. x[s] \div 2 \in Nat
      BY <3>1
    <3> HIDE DEF Flat
    <3> QED BY <3>2
  <2>2. Flat(x) \in A
    BY <2>1
  <2>3. \A s \in Symbols : Flat(x)[s] > 0 <=> f[s] > 0
    <3>1. \A s \in Symbols : Flat(x)[s] = IF f[s] > 0 THEN (x[s] \div 2) + 1 ELSE 0
      OBVIOUS
    <3>2. ~(0 > 0)
      OBVIOUS
    <3> HIDE DEF Flat
    <3> QED BY <2>1, <3>1, <3>2, Zenon
  <2> HIDE DEF Flat
  <2> QED BY <2>2, <2>3 DEF Used
<1> HIDE DEF Flat
<1>4. F \in [A \X Nat -> A] /\ \A x \in A, k \in Nat : F[<<x, k>>] = Flat(x)
  <2> HIDE DEF A
  <2> QED BY <1>3
<1> HIDE DEF F
<1>5. PICK g : IsLoop(N, A, f, F, g)
  <2>1. HasLoop(N, A, f, F)
    <3>1. f \in A
      OBVIOUS
    <3> HIDE DEF A
    <3> QED BY <1>4, <3>1, Loop
  <2> QED BY <2>1, Zenon DEF HasLoop
<1>6. g \in [0 .. N -> A] /\ g[0] = f /\ \A k \in 1 .. N : g[k] = F[<<g[k - 1], k>>]
  BY <1>5, Zenon DEF IsLoop
<1>0. f \in A
  OBVIOUS
<1> HIDE DEF A
<1>7. \A k \in 1 .. N : g[k] = Flat(g[k - 1])
  <2>1. \A k \in 1 .. N : g[k - 1] \in A /\ k \in Nat
    BY <1>6
  <2> QED BY <1>4, <1>6, <2>1, Zenon
<1>8. g = G(g)
  <2>1. \A k \in 0 .. N : k = 0 \/ k \in 1 .. N
    OBVIOUS
  <2>2. \A k \in 0 .. N : g[k] = IF k = 0 THEN f ELSE Flat(g[k - 1])
    BY <1>6, <1>7, <2>1, Zenon
  <2> QED BY <1>1, <1>6, <2>2
<1>9. PICK h : h = Flattened(f) /\ h = G(h)
  <2> HIDE DEF G
  <2> QED BY <1>2, <1>8
<1>10. h[0] = f /\ \A k \in 1 .. N : h[k] = Flat(h[k - 1])
  <2>1. \A k \in 0 .. N : h[k] = IF k = 0 THEN f ELSE Flat(h[k - 1])
    BY <1>1, <1>9, Zenon
  <2>2. 0 \in 0 .. N /\ \A k \in 1 .. N : k \in 0 .. N /\ k # 0
    OBVIOUS
  <2> QED BY <2>1, <2>2, Zenon
<1> DEFINE S == { k \in 0 .. N : h[k] \in A /\ Used(h[k]) = Used(f) }
<1>11. 0 \in S
  BY <1>0, <1>10
<1>12. ASSUME NEW k \in 0 .. N - 1, k \in S PROVE k + 1 \in S
  <2>1. k + 1 \in 0 .. N /\ k + 1 \in 1 .. N /\ (k + 1) - 1 = k /\ h[k] \in A
    BY <1>12
  <2>2. h[k + 1] = Flat(h[k])
    BY <1>10, <2>1, Zenon
  <2> QED BY <1>3, <2>1, <2>2
<1>13. \A k \in 0 .. N : k \in S
  <2> HIDE DEF S
  <2> QED BY <1>11, <1>12, Climb
<1> QED BY <1>1, <1>9, <1>13 DEF A

(* The lengths of a tree that is not too deep. *)
LEMMA LengthsSound ==
  ASSUME NEW f \in [Symbols -> Nat], Used(f) # {}, Cardinality(Used(f)) # 1, Lengths(f) # NoCode
  PROVE  Lengths(f) \in [Symbols -> Nat] /\ Used(Lengths(f)) = Used(f) /\ Loads(Lengths(f))
<1> DEFINE leaves(k) == Tree(Leaves(Flattened(f)[k]))
           short(k) == \A p \in leaves(k) : p[2] <= MaxBits
           first == CHOOSE k \in 0 .. Attempts - 1 : short(k) /\ \A j \in 0 .. k - 1 : ~short(j)
           T == leaves(first)
           len == [s \in Symbols |-> IF f[s] > 0 THEN (CHOOSE p \in leaves(first) : p[1] = s)[2] ELSE 0]
<1>1. Attempts \in Nat
  BY HuffAssumption
<1>2. /\ Lengths(f) = IF \E k \in 0 .. Attempts - 1 : short(k) THEN len ELSE NoCode
  BY Zenon DEF Lengths
<1> HIDE DEF leaves
<1>3. PICK k0 \in 0 .. Attempts - 1 : short(k0)
  BY <1>2, Zenon
<1>4. Lengths(f) = len
  BY <1>2, <1>3, Zenon
<1>5. first \in 0 .. Attempts - 1 /\ short(first)
  <2> DEFINE K == { k \in 0 .. Attempts - 1 : short(k) }
  <2>1. PICK k \in K : \A j \in K : k <= j
    <3>1. K \in SUBSET Nat /\ K # {}
      BY <1>1, <1>3
    <3> HIDE DEF K
    <3> QED BY <3>1, NatMin
  <2>2. \A j \in 0 .. k - 1 : ~short(j)
    <3> SUFFICES ASSUME NEW j \in 0 .. k - 1, short(j) PROVE FALSE
      OBVIOUS
    <3>1. j \in K /\ ~(k <= j)
      BY <1>1
    <3> QED BY <2>1, <3>1
  <2>3. k \in 0 .. Attempts - 1 /\ short(k)
    OBVIOUS
  <2> HIDE DEF short, K
  <2> QED BY <2>2, <2>3, Zenon
<1> HIDE DEF first
<1>6. IsTree(T) /\ Syms(T) = Used(f)
  <2>1. Flattened(f)[first] \in [Symbols -> Nat] /\ Used(Flattened(f)[first]) = Used(f)
    BY <1>5, FlattenedUsed
  <2>2. Forest(Leaves(Flattened(f)[first]), Used(f))
    BY <2>1, LeavesForest
  <2> QED BY <2>2, TreeOfForest DEF leaves
<1>7. \A p \in T : p[2] <= MaxBits
  BY <1>5
<1> HIDE DEF T
<1>8. T \in SUBSET (Symbols \X Nat) /\ \A p, q \in T : p[1] = q[1] => p = q
  BY <1>6, Zenon DEF IsTree
<1>9. \A s \in Used(f) : \E p \in T : p[1] = s
  BY <1>6, Zenon DEF Syms
<1>10. \A p \in T : p[1] \in Used(f)
  BY <1>6, Zenon DEF Syms
<1>11. \A p \in T : p[2] \in Nat /\ p[2] > 0
  <2> SUFFICES ASSUME NEW p \in T PROVE p[2] \in Nat /\ p[2] > 0
    OBVIOUS
  <2>1. PICK s \in Used(f) : s # p[1]
    <3> SUFFICES ASSUME \A s \in Used(f) : s = p[1] PROVE FALSE
      OBVIOUS
    <3>1. Used(f) = {p[1]}
      BY <1>10
    <3> QED BY <3>1, UsedFinite
  <2>2. PICK q \in T : q[1] = s
    BY <1>9
  <2>3. p # q
    BY <2>1, <2>2
  <2>4. p[2] > 0
    BY <1>6, <2>3, BelowRoot
  <2> QED BY <1>8, <2>4
<1>12. ASSUME NEW s \in Symbols
       PROVE  len[s] \in Nat /\ (len[s] > 0 <=> s \in Used(f)) /\ \A p \in T : p[1] = s => len[s] = p[2]
  <2>1. len[s] = IF f[s] > 0 THEN (CHOOSE p \in T : p[1] = s)[2] ELSE 0
    BY DEF T
  <2> HIDE DEF len
  <2>2. CASE f[s] > 0
    <3>1. s \in Used(f)
      BY <2>2 DEF Used
    <3>2. PICK p \in T : p[1] = s
      BY <1>9, <3>1
    <3>3. (CHOOSE q \in T : q[1] = s) = p
      BY <1>8, <3>2, Zenon
    <3>4. len[s] = p[2]
      BY <2>1, <2>2, <3>3, Zenon
    <3>5. \A q \in T : q[1] = s => q = p
      BY <1>8, <3>2, Zenon
    <3> QED BY <1>11, <3>1, <3>4, <3>5
  <2>3. CASE ~(f[s] > 0)
    <3>1. s \notin Used(f)
      BY <2>3 DEF Used
    <3>2. len[s] = 0
      BY <2>1, <2>3, Zenon
    <3>3. \A p \in T : p[1] # s
      BY <1>10, <3>1, Zenon
    <3> QED BY <3>1, <3>2, <3>3
  <2> QED BY <2>2, <2>3
<1>13. len \in [Symbols -> Nat]
  BY <1>12
<1> HIDE DEF len
<1>14. Used(len) = Used(f)
  BY <1>12 DEF Used
<1>15. \A p \in T : len[p[1]] = p[2] /\ p[2] <= MaxBits
  <2>1. \A p \in T : p[1] \in Symbols
    BY <1>8
  <2> QED BY <1>7, <1>12, <2>1, Zenon
<1>16. Loads(len)
  BY <1>6, <1>13, <1>14, <1>15, DepthsLoad
<1> QED BY <1>4, <1>13, <1>14, <1>16

(* xq_huff_build gives each symbol that occurs, and no other, a code, and  *)
(* lengths that xq_huff_load accepts.                                      *)
LEMMA BuildSound ==
  ASSUME NEW f \in [Symbols -> Nat], Build(f) # NoCode
  PROVE  Build(f) \in [Symbols -> Nat] /\ Used(Build(f)) = Used(f) /\ Loads(Build(f))
<1>0. IsFiniteSet(Used(f)) /\ Cardinality(Used(f)) \in Nat
  BY UsedFinite
<1>1. Cardinality(Used(f)) # 0
  <2> SUFFICES ASSUME Cardinality(Used(f)) = 0 PROVE FALSE
    OBVIOUS
  <2>1. Build(f) = NoCode
    BY DEF Build
  <2> QED BY <2>1
<1>2. Used(f) # {}
  BY <1>0, <1>1, FS_EmptySet
<1>3. CASE Cardinality(Used(f)) = 1
  <2> DEFINE len == [s \in Symbols |-> IF s \in Used(f) THEN 1 ELSE 0]
  <2>1. Build(f) = len
    <3>1. 1 # 0
      OBVIOUS
    <3> QED BY <1>1, <1>3, <3>1 DEF Build
  <2>2. len \in [Symbols -> Nat]
    OBVIOUS
  <2>3. Used(len) = Used(f)
    BY DEF Used
  <2>4. LongestOf(len) = 1
    <3>1. PICK s \in Used(f) : s \in Symbols /\ len[s] = 1
      BY <1>2 DEF Used
    <3>2. \A r \in Symbols : len[r] <= 1
      OBVIOUS
    <3> HIDE DEF len
    <3>3. LongestOf(len) \in Nat /\ len[s] <= LongestOf(len) /\ \E r \in Symbols : len[r] = LongestOf(len)
      BY <2>2, <3>1, LongestMax
    <3>4. LongestOf(len) <= 1
      BY <3>2, <3>3
    <3>5. 1 <= LongestOf(len)
      BY <3>1, <3>3
    <3> QED BY <3>3, <3>4, <3>5
  <2>5. 1 <= MaxBits
    BY HuffAssumption
  <2> HIDE DEF len
  <2>6. Loads(len)
    BY <1>2, <1>3, <2>3, <2>4, <2>5, Zenon DEF Loads
  <2> QED BY <2>1, <2>2, <2>3, <2>6
<1>4. CASE Cardinality(Used(f)) # 1
  <2>1. Build(f) = Lengths(f)
    BY <1>1, <1>4 DEF Build
  <2> QED BY <1>2, <1>4, <2>1, LengthsSound
<1> QED BY <1>3, <1>4

-----------------------------------------------------------------------------
(* The codes of the bytes, one behind the other *)

(* The n sequences stand in B one behind the other, the i-th at o[i - 1].  *)
Placed(seqs, n, B, o) ==
  /\ o \in [0 .. n -> Nat] /\ o[0] = 0
  /\ \A i \in 1 .. n : o[i] = o[i - 1] + Len(seqs[i]) /\ Holds(B, o[i - 1], seqs[i])

PlacedIn(seqs, n, B) == B \in Seq(Nat) /\ \E o : Placed(seqs, n, B, o)

(* More behind them changes nothing. *)
LEMMA PlacedLonger ==
  ASSUME NEW n \in Nat, NEW seqs \in [1 .. n -> Seq(Nat)], NEW B, PlacedIn(seqs, n, B), NEW w \in Seq(Nat)
  PROVE  PlacedIn(seqs, n, B \o w)
<1>1. PICK o : Placed(seqs, n, B, o)
  BY Zenon DEF PlacedIn
<1>2. B \in Seq(Nat)
  BY DEF PlacedIn
<1>3. B \o w \in Seq(Nat)
  BY <1>2
<1>4. /\ o \in [0 .. n -> Nat] /\ o[0] = 0
      /\ \A i \in 1 .. n : o[i] = o[i - 1] + Len(seqs[i]) /\ Holds(B, o[i - 1], seqs[i])
  BY <1>1, Zenon DEF Placed
<1>5. ASSUME NEW i \in 1 .. n PROVE Holds(B \o w, o[i - 1], seqs[i])
  <2>1. o[i - 1] \in Nat /\ seqs[i] \in Seq(Nat)
    BY <1>4
  <2>2. Holds(B, o[i - 1], seqs[i])
    BY <1>4
  <2> QED BY <1>2, <2>1, <2>2, HoldsLonger
<1>6. Placed(seqs, n, B \o w, o)
  BY <1>4, <1>5, Zenon DEF Placed
<1> QED BY <1>3, <1>6, Zenon DEF PlacedIn

(* And nothing is behind them. *)
PlacedAll(seqs, n, B) == B \in Seq(Nat) /\ \E o : Placed(seqs, n, B, o) /\ o[n] = Len(B)

(* One more sequence behind them. *)
LEMMA PlacedNext ==
  ASSUME NEW m \in Nat, NEW seqs, NEW B, PlacedAll(seqs, m, B),
         \A i \in 1 .. m + 1 : seqs[i] \in Seq(Nat)
  PROVE  PlacedAll(seqs, m + 1, B \o seqs[m + 1])
<1>1. PICK o : Placed(seqs, m, B, o) /\ o[m] = Len(B)
  BY Zenon DEF PlacedAll
<1>2. /\ o \in [0 .. m -> Nat] /\ o[0] = 0
      /\ \A i \in 1 .. m : o[i] = o[i - 1] + Len(seqs[i]) /\ Holds(B, o[i - 1], seqs[i])
  BY <1>1, Zenon DEF Placed
<1>3. PICK w \in Seq(Nat) : w = seqs[m + 1]
  <2>1. m + 1 \in 1 .. m + 1
    OBVIOUS
  <2> QED BY <2>1
<1>4. B \in Seq(Nat)
  BY DEF PlacedAll
<1>5. Holds(B \o w, Len(B), w) /\ Len(B \o w) = Len(B) + Len(w) /\ B \o w \in Seq(Nat)
  BY <1>4, HoldsEnd
<1>6. PICK lb, lw \in Nat : lb = Len(B) /\ lw = Len(w)
  BY <1>4
<1> DEFINE p == [i \in 0 .. m + 1 |-> IF i <= m THEN o[i] ELSE lb + lw]
<1>7. p \in [0 .. m + 1 -> Nat]
  <2>1. ASSUME NEW i \in 0 .. m + 1 PROVE (IF i <= m THEN o[i] ELSE lb + lw) \in Nat
    BY <1>2
  <2> QED BY <2>1
<1>8. /\ p[m + 1] = lb + lw
      /\ \A i \in 0 .. m : p[i] = o[i]
  <2>1. m + 1 \in 0 .. m + 1 /\ ~(m + 1 <= m) /\ \A i \in 0 .. m : i \in 0 .. m + 1 /\ i <= m
    OBVIOUS
  <2> QED BY <2>1
<1> HIDE DEF p
<1>9. ASSUME NEW i \in 1 .. m + 1
      PROVE  p[i] = p[i - 1] + Len(seqs[i]) /\ Holds(B \o w, p[i - 1], seqs[i])
  <2>1. CASE i \in 1 .. m
    <3>1. i \in 0 .. m /\ i - 1 \in 0 .. m
      BY <2>1
    <3>2. p[i] = o[i] /\ p[i - 1] = o[i - 1] /\ o[i - 1] \in Nat
      BY <1>2, <1>8, <3>1
    <3>3. Holds(B, o[i - 1], seqs[i])
      BY <1>2, <2>1
    <3>4. seqs[i] \in Seq(Nat)
      OBVIOUS
    <3>5. Holds(B \o w, o[i - 1], seqs[i])
      BY <1>4, <3>2, <3>3, <3>4, HoldsLonger
    <3> QED BY <1>2, <2>1, <3>2, <3>5, Zenon
  <2>2. CASE i = m + 1
    <3>1. i - 1 = m /\ m \in 0 .. m
      BY <2>2
    <3>2. p[i - 1] = lb /\ seqs[i] = w /\ p[i] = lb + lw
      BY <1>1, <1>3, <1>6, <1>8, <2>2, <3>1, Zenon
    <3> QED BY <1>5, <1>6, <3>2, Zenon
  <2>3. i \in 1 .. m \/ i = m + 1
    OBVIOUS
  <2> QED BY <2>1, <2>2, <2>3
<1>10. p[0] = 0
  BY <1>2, <1>8
<1>11. Placed(seqs, m + 1, B \o w, p)
  BY <1>7, <1>9, <1>10, Zenon DEF Placed
<1>12. p[m + 1] = Len(B \o w)
  BY <1>5, <1>6, <1>8, Zenon
<1> QED BY <1>3, <1>5, <1>11, <1>12, Zenon DEF PlacedAll

(* FlattenSeq puts the members of a sequence one behind the other. *)
LEMMA FlattenPlaced ==
  ASSUME NEW n \in Nat, NEW seqs \in [1 .. n -> Seq(Nat)]
  PROVE  PlacedAll(seqs, n, FlattenSeq(seqs))
<1>0. Len(seqs) = n /\ seqs \in Seq(Seq(Nat))
  OBVIOUS
<1>1. CASE n = 0
  <2>1. FlattenSeq(seqs) = seqs
    BY <1>0, <1>1 DEF FlattenSeq
  <2>2. seqs \in Seq(Nat)
    BY <1>0, <1>1
  <2> DEFINE o == [i \in 0 .. 0 |-> 0]
  <2>3. Placed(seqs, 0, seqs, o)
    BY DEF Placed
  <2>4. o[0] = Len(seqs)
    BY <1>0, <1>1
  <2> HIDE DEF o
  <2> QED BY <1>1, <2>1, <2>2, <2>3, <2>4, Zenon DEF PlacedAll
<1>2. CASE n # 0
  <2> DEFINE G(g) == [i \in 1 .. Len(seqs) |-> IF i = 1 THEN seqs[i] ELSE g[i - 1] \o seqs[i]]
             F == [x \in Seq(Nat) \X Nat |-> IF x[2] \in 1 .. n THEN x[1] \o seqs[x[2]] ELSE x[1]]
  <2>1. \A f : f = (CHOOSE g : g = G(g)) => FlattenSeq(seqs) = f[n]
    BY <1>0, <1>2 DEF FlattenSeq
  <2>2. F \in [Seq(Nat) \X Nat -> Seq(Nat)]
        /\ \A x \in Seq(Nat), i \in 1 .. n : F[<<x, i>>] = x \o seqs[i]
    <3>1. \A x \in Seq(Nat), i \in 1 .. n : x \o seqs[i] \in Seq(Nat) /\ i \in Nat
      OBVIOUS
    <3> QED BY <3>1
  <2> HIDE DEF F
  <2>3. PICK g : IsLoop(n, Seq(Nat), <<>>, F, g)
    <3>1. <<>> \in Seq(Nat)
      OBVIOUS
    <3>2. HasLoop(n, Seq(Nat), <<>>, F)
      BY <2>2, <3>1, Loop
    <3> QED BY <3>2, Zenon DEF HasLoop
  <2>4. g \in [0 .. n -> Seq(Nat)] /\ g[0] = <<>> /\ \A i \in 1 .. n : g[i] = F[<<g[i - 1], i>>]
    BY <2>3, Zenon DEF IsLoop
  <2>5. \A i \in 1 .. n : g[i] = g[i - 1] \o seqs[i]
    <3>1. \A i \in 1 .. n : g[i - 1] \in Seq(Nat)
      BY <2>4
    <3> QED BY <2>2, <2>4, <3>1, Zenon
  <2> DEFINE h == [i \in 1 .. n |-> g[i]]
  <2>6. h = G(h)
    <3>1. ASSUME NEW i \in 1 .. n PROVE h[i] = IF i = 1 THEN seqs[i] ELSE h[i - 1] \o seqs[i]
      <4>1. CASE i = 1
        <5>1. g[1] = g[0] \o seqs[1] /\ seqs[1] \in Seq(Nat) /\ i - 1 = 0
          BY <2>5, <4>1
        <5>2. <<>> \o seqs[1] = seqs[1]
          BY <5>1
        <5> QED BY <2>4, <4>1, <5>1, <5>2
      <4>2. CASE i # 1
        <5>1. i - 1 \in 1 .. n
          BY <4>2
        <5>2. h[i] = g[i] /\ h[i - 1] = g[i - 1]
          BY <5>1
        <5> QED BY <2>5, <4>2, <5>2
      <4> QED BY <4>1, <4>2
    <3>2. h = [i \in 1 .. n |-> h[i]]
      OBVIOUS
    <3> HIDE DEF h
    <3> QED BY <1>0, <3>1, <3>2
  <2>7. PICK f : f = (CHOOSE x : x = G(x)) /\ f = G(f)
    <3> HIDE DEF G, h
    <3> QED BY <2>6
  <2>8. /\ \A i \in 2 .. n : f[i] = f[i - 1] \o seqs[i]
        /\ f[1] = seqs[1]
    <3>1. \A i \in 1 .. n : f[i] = IF i = 1 THEN seqs[i] ELSE f[i - 1] \o seqs[i]
      BY <1>0, <2>7, Zenon
    <3>2. 1 \in 1 .. n /\ \A i \in 2 .. n : i \in 1 .. n /\ i # 1
      BY <1>2
    <3> QED BY <3>1, <3>2, Zenon
  <2> DEFINE S == { k \in 0 .. n - 1 : PlacedAll(seqs, k + 1, f[k + 1]) }
  <2>9. 0 \in S
    <3>1. 1 \in 1 .. n /\ 0 \in 0 .. n - 1 /\ 0 + 1 = 1
      BY <1>2
    <3> DEFINE o == [i \in 0 .. 1 |-> IF i = 0 THEN 0 ELSE Len(seqs[1])]
    <3>2. f[1] = seqs[1] /\ seqs[1] \in Seq(Nat) /\ Len(seqs[1]) \in Nat
      BY <2>8, <3>1
    <3>3. o \in [0 .. 1 -> Nat] /\ o[0] = 0 /\ o[1] = 0 + Len(seqs[1])
      BY <3>2
    <3>4. Holds(seqs[1], 0, seqs[1])
      BY <3>2 DEF Holds
    <3> HIDE DEF o
    <3>5. \A i \in 1 .. 1 : i = 1 /\ i - 1 = 0
      OBVIOUS
    <3>6. Placed(seqs, 1, seqs[1], o)
      BY <3>3, <3>4, <3>5, Zenon DEF Placed
    <3>7. PlacedAll(seqs, 1, f[1])
      <4>1. o[1] = Len(seqs[1])
        BY <3>2, <3>3
      <4> QED BY <3>2, <3>6, <4>1, Zenon DEF PlacedAll
    <3> QED BY <3>1, <3>7
  <2>10. ASSUME NEW k \in 0 .. (n - 1) - 1, k \in S PROVE k + 1 \in S
    <3>1. k + 1 \in 0 .. n - 1 /\ k + 1 \in 1 .. n /\ (k + 1) + 1 \in 2 .. n /\ (k + 1) + 1 \in 1 .. n
          /\ ((k + 1) + 1) - 1 = k + 1 /\ k + 1 \in Nat
      OBVIOUS
    <3>2. PlacedAll(seqs, k + 1, f[k + 1])
      BY <2>10
    <3>3. \A i \in 1 .. (k + 1) + 1 : seqs[i] \in Seq(Nat)
      <4>1. \A i \in 1 .. (k + 1) + 1 : i \in 1 .. n
        BY <3>1
      <4> QED BY <4>1
    <3>4. PlacedAll(seqs, (k + 1) + 1, f[k + 1] \o seqs[(k + 1) + 1])
      BY <3>1, <3>2, <3>3, PlacedNext
    <3>5. f[(k + 1) + 1] = f[k + 1] \o seqs[(k + 1) + 1]
      BY <2>8, <3>1, Zenon
    <3> QED BY <3>1, <3>4, <3>5
  <2>11. n - 1 \in S
    <3>1. n - 1 \in Nat
      BY <1>2
    <3> HIDE DEF S
    <3>2. 0 \in S /\ \A k \in 0 .. (n - 1) - 1 : k \in S => k + 1 \in S
      BY <2>9, <2>10
    <3>3. \A k \in 0 .. n - 1 : k \in S
      BY ONLY <3>1, <3>2, Climb
    <3>4. n - 1 \in 0 .. n - 1
      BY <3>1
    <3> QED BY <3>3, <3>4
  <2>12. PlacedAll(seqs, n, f[n])
    <3>1. (n - 1) + 1 = n
      BY <1>2
    <3> QED BY <2>11, <3>1
  <2>13. FlattenSeq(seqs) = f[n]
    BY <2>1, <2>7, Zenon
  <2> QED BY <2>12, <2>13
<1> QED BY <1>1, <1>2

(* The codes of the symbols of P stand in B one behind the other.          *)
Coding(len, P, B, o) ==
  /\ o \in [0 .. Len(P) -> Nat] /\ o[0] = 0
  /\ \A i \in 1 .. Len(P) :
       /\ P[i] \in Used(len) /\ o[i] = o[i - 1] + len[P[i]]
       /\ Holds(B, o[i - 1], CodeBits(len, P[i]))

Coded(len, P, B) == B \in Seq(Nat) /\ \E o : Coding(len, P, B, o)

(* Bits are numbers. *)
LEMMA BitsAreNat ==
  ASSUME NEW s \in Seq({0, 1})
  PROVE  s \in Seq(Nat)
<1>1. s = [i \in 1 .. Len(s) |-> s[i]] /\ Len(s) \in Nat /\ \A i \in 1 .. Len(s) : s[i] \in {0, 1}
  OBVIOUS
<1>2. \A i \in 1 .. Len(s) : s[i] \in Nat
  BY <1>1
<1> QED BY <1>1, <1>2

(* The last byte is filled behind the bits.                                *)
LEMMA PadBehind ==
  ASSUME NEW b \in Seq(Nat)
  PROVE  \E w \in Seq(Nat) : Pad(b) = b \o w
<1> DEFINE n == (ByteBits - (Len(b) % ByteBits)) % ByteBits
           w == [i \in 1 .. n |-> 0]
<1>1. n \in Nat
  <2>1. \A l \in Nat : (4 - (l % 4)) % 4 \in Nat
    OBVIOUS
  <2>2. Len(b) \in Nat /\ ByteBits = 4
    BY DEF ByteBits
  <2> QED BY <2>1, <2>2, Zenon
<1> HIDE DEF n
<1>2. w \in Seq(Nat)
  BY <1>1
<1>3. Pad(b) = b \o w
  BY Zenon DEF Pad, n
<1> QED BY <1>2, <1>3

(* What lze writes for the bytes P is a coding of them. *)
LEMMA HuffCoding ==
  ASSUME NEW len \in [Symbols -> Nat], Loads(len), NEW P \in Seq(Nat),
         \A i \in 1 .. Len(P) : P[i] \in Used(len)
  PROVE  Coded(len, P, Pad(FlattenSeq([i \in DOMAIN P |-> CodeBits(len, P[i])])))
<1>1. PICK n \in Nat : n = Len(P) /\ DOMAIN P = 1 .. n
  OBVIOUS
<1> DEFINE seqs == [i \in 1 .. n |-> CodeBits(len, P[i])]
<1>2. \A i \in 1 .. n : /\ CodeBits(len, P[i]) \in Seq(Nat) /\ Len(CodeBits(len, P[i])) = len[P[i]]
                        /\ seqs[i] = CodeBits(len, P[i])
  <2>1. \A s \in Used(len) : CodeBits(len, s) \in Seq({0, 1}) /\ Len(CodeBits(len, s)) = len[s]
    BY Bits
  <2>2. \A s \in Used(len) : CodeBits(len, s) \in Seq(Nat) /\ Len(CodeBits(len, s)) = len[s]
    BY <2>1, BitsAreNat
  <2> QED BY <1>1, <2>2, Zenon
<1>3. seqs \in [1 .. n -> Seq(Nat)]
  BY <1>2
<1>4. [i \in DOMAIN P |-> CodeBits(len, P[i])] = seqs
  BY <1>1
<1> HIDE DEF seqs
<1>5. PlacedAll(seqs, n, FlattenSeq(seqs))
  BY <1>3, FlattenPlaced
<1>6. PlacedIn(seqs, n, FlattenSeq(seqs)) /\ FlattenSeq(seqs) \in Seq(Nat)
  BY <1>5, Zenon DEF PlacedAll, PlacedIn
<1>7. PICK w \in Seq(Nat) : Pad(FlattenSeq(seqs)) = FlattenSeq(seqs) \o w
  BY <1>6, PadBehind
<1>8. PlacedIn(seqs, n, FlattenSeq(seqs) \o w)
  BY <1>3, <1>6, PlacedLonger
<1>9. PICK B \in Seq(Nat) : /\ B = Pad(FlattenSeq(seqs))
                            /\ \E o : Placed(seqs, n, B, o)
  BY <1>7, <1>8, Zenon DEF PlacedIn
<1>10. PICK o : Placed(seqs, n, B, o)
  BY <1>9
<1>11. o \in [0 .. n -> Nat] /\ o[0] = 0
       /\ \A i \in 1 .. n : o[i] = o[i - 1] + Len(seqs[i]) /\ Holds(B, o[i - 1], seqs[i])
  BY <1>10, Zenon DEF Placed
<1>12. Coding(len, P, B, o)
  BY ZenonT(60), <1>1, <1>2, <1>11 DEF Coding
<1> QED BY <1>4, <1>9, <1>12, Zenon DEF Coded

(* A part of a sequence of numbers. *)
LEMMA Part ==
  ASSUME NEW s \in Seq(Nat), NEW a \in Nat, NEW n \in Nat, a + n <= Len(s)
  PROVE  /\ SubSeq(s, a + 1, a + n) \in Seq(Nat) /\ Len(SubSeq(s, a + 1, a + n)) = n
         /\ \A i \in 1 .. n : SubSeq(s, a + 1, a + n)[i] = s[a + i]
BY Slice

(* Two bytes are the same sequence when they are the same bytes.           *)
LEMMA SeqSame ==
  ASSUME NEW u \in Seq(Nat), NEW w \in Seq(Nat), Len(u) = Len(w), \A i \in 1 .. Len(u) : u[i] = w[i]
  PROVE  u = w
OBVIOUS

(* The decompressor takes the next symbol off the bits.                    *)
LEMMA SymbolBack ==
  ASSUME NEW len \in [Symbols -> Nat], Loads(len), NEW P \in Seq(Nat), NEW B \in Seq(Nat), NEW o,
         Coding(len, P, B, o), NEW k \in 0 .. Len(P) - 1
  PROVE  LET bits == SubSeq(B, o[k] + 1, Len(B)) IN
         /\ Decode(len, bits) = P[k + 1] /\ P[k + 1] \in Used(len)
         /\ SubSeq(bits, len[P[k + 1]] + 1, Len(bits)) = SubSeq(B, o[k + 1] + 1, Len(B))
         /\ Append(SubSeq(P, 1, k), P[k + 1]) = SubSeq(P, 1, k + 1)
<1> DEFINE s == P[k + 1]
<1>1. k + 1 \in 1 .. Len(P) /\ k \in 0 .. Len(P) /\ k + 1 \in 0 .. Len(P) /\ k \in Nat /\ (k + 1) - 1 = k
  OBVIOUS
<1>2. /\ o \in [0 .. Len(P) -> Nat]
      /\ \A i \in 1 .. Len(P) :
           /\ P[i] \in Used(len) /\ o[i] = o[i - 1] + len[P[i]]
           /\ Holds(B, o[i - 1], CodeBits(len, P[i]))
  BY Zenon DEF Coding
<1>3. s \in Used(len) /\ o[k + 1] = o[k] + len[s] /\ Holds(B, o[k], CodeBits(len, s))
  BY <1>1, <1>2, Zenon
<1> HIDE DEF s
<1>4. PICK a, l, n \in Nat : a = o[k] /\ l = len[s] /\ n = Len(B) /\ o[k + 1] = a + l /\ s \in Symbols
  <2>1. s \in Symbols
    BY <1>3 DEF Used
  <2>2. o[k] \in Nat /\ len[s] \in Nat /\ Len(B) \in Nat
    <3>1. len[s] \in Nat
      BY <2>1
    <3>2. o[k] \in Nat
      BY <1>1, <1>2
    <3> QED BY <3>1, <3>2
  <2> QED BY <1>3, <2>1, <2>2, Zenon
<1>5. Len(CodeBits(len, s)) = l
  BY <1>3, <1>4, Bits
<1>6. a + l <= n /\ \A i \in 1 .. l : B[a + i] = CodeBits(len, s)[i]
  BY <1>3, <1>4, <1>5, Zenon DEF Holds
<1> DEFINE bits == SubSeq(B, a + 1, n)
<1>7. bits \in Seq(Nat) /\ Len(bits) = n - a /\ \A i \in 1 .. n - a : bits[i] = B[a + i]
  <2>1. n - a \in Nat /\ a + (n - a) = n
    BY <1>6
  <2>2. \A m \in Nat : a + m <= n => /\ SubSeq(B, a + 1, a + m) \in Seq(Nat) /\ Len(SubSeq(B, a + 1, a + m)) = m
                                     /\ \A i \in 1 .. m : SubSeq(B, a + 1, a + m)[i] = B[a + i]
    BY <1>4, Part
  <2>3. n <= n
    OBVIOUS
  <2> QED BY <2>1, <2>2, <2>3, Zenon
<1> HIDE DEF bits
<1>8. Decode(len, bits) = s
  <2>1. Len(bits) \in Nat /\ l <= Len(bits) /\ \A i \in 1 .. l : i \in 1 .. n - a
    BY <1>6, <1>7
  <2>2. \A i \in 1 .. len[s] : bits[i] = CodeBits(len, s)[i]
    BY <1>4, <1>6, <1>7, <2>1, Zenon
  <2> QED BY <1>3, <1>4, <2>1, <2>2, DecodeBack
<1>9. SubSeq(bits, l + 1, Len(bits)) = SubSeq(B, (a + l) + 1, n)
  <2> DEFINE m == (n - a) - l
             x == SubSeq(bits, l + 1, l + m)
             y == SubSeq(B, (a + l) + 1, (a + l) + m)
  <2>1. m \in Nat /\ l + m = n - a /\ (a + l) + m = n /\ a + l \in Nat
    BY <1>6
  <2> HIDE DEF m
  <2>2. x \in Seq(Nat) /\ Len(x) = m /\ \A i \in 1 .. m : x[i] = bits[l + i]
    <3>1. l + m <= Len(bits)
      BY <1>7, <2>1
    <3> QED BY SMTT(30), <1>7, <2>1, <3>1, Slice
  <2>3. y \in Seq(Nat) /\ Len(y) = m /\ \A i \in 1 .. m : y[i] = B[(a + l) + i]
    <3>0. \A i \in Nat : i <= i
      OBVIOUS
    <3>1. Len(B) = n /\ (a + l) + m <= n
      BY <1>4, <2>1, <3>0, Zenon
    <3>2. (a + l) + m <= Len(B)
      BY <3>1
    <3> QED BY ONLY B \in Seq(Nat), <2>1, <3>2, Part DEF y
  <2>4. \A i \in 1 .. m : l + i \in 1 .. n - a /\ a + (l + i) = (a + l) + i
    BY <2>1
  <2>5. \A i \in 1 .. m : x[i] = y[i]
    BY <1>7, <2>2, <2>3, <2>4, Zenon
  <2> HIDE DEF x, y
  <2>6. x = y
    BY <2>2, <2>3, <2>5, SeqSame
  <2> QED BY <1>7, <2>1, <2>6, Zenon DEF x, y
<1>10. Append(SubSeq(P, 1, k), P[k + 1]) = SubSeq(P, 1, k + 1)
  <2> DEFINE x == SubSeq(P, 1, k)
             y == SubSeq(P, 1, k + 1)
  <2>1. /\ x \in Seq(Nat) /\ Len(x) = k /\ \A i \in 1 .. k : x[i] = P[i]
        /\ y \in Seq(Nat) /\ Len(y) = k + 1 /\ \A i \in 1 .. k + 1 : y[i] = P[i]
        /\ P[k + 1] \in Nat
    <3>1. k <= Len(P) /\ k + 1 <= Len(P)
      OBVIOUS
    <3> QED BY <1>1, <3>1
  <2> HIDE DEF x, y
  <2>2. PICK e \in Nat : e = P[k + 1]
    BY <2>1
  <2>3. /\ Append(x, e) \in Seq(Nat) /\ Len(Append(x, e)) = k + 1
        /\ \A i \in 1 .. k : Append(x, e)[i] = x[i]
        /\ Append(x, e)[k + 1] = e
    BY <2>1
  <2>4. \A i \in 1 .. k + 1 : Append(x, e)[i] = y[i]
    <3>1. ASSUME NEW i \in 1 .. k PROVE Append(x, e)[i] = y[i]
      <4>1. i \in 1 .. k + 1
        BY <1>1
      <4> QED BY <2>1, <2>3, <4>1, Zenon
    <3>2. Append(x, e)[k + 1] = y[k + 1]
      <4>1. k + 1 \in 1 .. k + 1
        BY <1>1
      <4> QED BY <2>1, <2>2, <2>3, <4>1, Zenon
    <3>3. \A i \in 1 .. k + 1 : i \in 1 .. k \/ i = k + 1
      BY <1>1
    <3> QED BY <3>1, <3>2, <3>3, Zenon
  <2>5. Append(x, e) = y
    <3>1. PICK z \in Seq(Nat) : z = Append(x, e)
      BY <2>3
    <3> QED BY <2>1, <2>3, <2>4, <3>1, SeqSame
  <2> QED BY <2>2, <2>5, Zenon DEF x, y
<1> QED BY <1>3, <1>4, <1>8, <1>9, <1>10, Zenon DEF bits, s

(* The forms whose numbers are numbers. *)
Forms == [mode : {"none", "raw", "huff"}, mlen : Nat, len : [Symbols -> Nat], bits : Seq(Nat)]

(* CountFreq of the bytes p. *)
Freq(p) == [s \in Symbols |-> Cardinality({ i \in DOMAIN p : p[i] = s })]

(* Every byte is a symbol, and what occurs is counted. *)
LEMMA FreqUsed ==
  ASSUME NEW p \in Seq(Bytes)
  PROVE  Freq(p) \in [Symbols -> Nat] /\ \A i \in 1 .. Len(p) : p[i] \in Used(Freq(p))
<1>1. Symbols = Bytes
  BY LzeAssumption DEF Symbols, Bytes, Base
<1>2. PICK n \in Nat : n = Len(p) /\ DOMAIN p = 1 .. n /\ \A i \in 1 .. n : p[i] \in Bytes
  OBVIOUS
<1>3. ASSUME NEW s
      PROVE  IsFiniteSet({ i \in 1 .. n : p[i] = s }) /\ Cardinality({ i \in 1 .. n : p[i] = s }) \in Nat
  <2>1. IsFiniteSet(1 .. n)
    BY FS_Interval
  <2>2. { i \in 1 .. n : p[i] = s } \in SUBSET (1 .. n)
    OBVIOUS
  <2>3. IsFiniteSet({ i \in 1 .. n : p[i] = s })
    BY <2>1, <2>2, FS_Subset
  <2> QED BY <2>3, FS_CardinalityType
<1>4. Freq(p) = [s \in Symbols |-> Cardinality({ i \in 1 .. n : p[i] = s })]
  BY <1>2 DEF Freq
<1>5. Freq(p) \in [Symbols -> Nat]
  BY <1>3, <1>4
<1>6. ASSUME NEW i \in 1 .. n PROVE p[i] \in Used(Freq(p))
  <2> DEFINE S == { k \in 1 .. n : p[k] = p[i] }
  <2>1. i \in S /\ p[i] \in Symbols
    BY <1>1, <1>2
  <2>2. IsFiniteSet(S) /\ Cardinality(S) \in Nat /\ Freq(p)[p[i]] = Cardinality(S)
    BY <1>3, <1>4, <2>1
  <2> HIDE DEF S
  <2>3. Cardinality(S) # 0
    <3>1. IsFiniteSet(S) => (Cardinality(S) = 0 <=> S = {})
      BY FS_EmptySet
    <3> QED BY <2>1, <2>2, <3>1, Zenon
  <2>4. Freq(p)[p[i]] > 0
    BY <2>2, <2>3
  <2> QED BY <2>1, <2>4 DEF Used
<1> QED BY <1>2, <1>5, <1>6, Zenon

-----------------------------------------------------------------------------
(* The way of a block through the codec: what stands in the stream so far  *)
(* codes the block so far; the bits of lze code that stream; the           *)
(* decompressor has the first bytes of the block, and from where it is the *)
(* stream codes the rest.                                                  *)
Way ==
  /\ phase \in {"compress", "compressed", "load", "unpack"} => ip = 0 /\ dst = <<>> /\ st = OK
  /\ phase = "compress" =>
       packed \in Seq(Bytes) /\ Len(packed) <= job.room /\ Trail(job, packed, <<Len(packed), anchor>>)
  /\ phase = "compressed" =>
       packed \in Seq(Bytes) /\ Len(packed) <= job.room /\ Decodes(job, packed, <<0, 0>>)
  /\ phase = "load" =>
       /\ job.lze /\ Len(packed) <= job.room /\ Decodes(job, packed, <<0, 0>>)
       /\ form.mlen = Len(packed) /\ Loads(form.len) /\ Used(form.len) = Used(Freq(packed))
       /\ Coded(form.len, packed, form.bits)
  /\ phase = "unpack" =>
       \E P \in Seq(Nat), B \in Seq(Nat) : \E o :
         /\ Decodes(job, P, <<0, 0>>) /\ form.mlen = Len(P) /\ Coding(form.len, P, B, o)
         /\ Len(packed) <= Len(P) /\ packed = SubSeq(P, 1, Len(packed))
         /\ form.bits = SubSeq(B, o[Len(packed)] + 1, Len(B))
  /\ phase = "decompress" =>
       /\ st = OK /\ Len(dst) <= Len(job.src) /\ dst = SubSeq(job.src, 1, Len(dst))
       /\ Decodes(job, packed, <<ip, Len(dst)>>)
  /\ phase = "done" => st = ErrOOM \/ (st = OK /\ dst = job.src)

TripInv ==
  /\ form \in Forms
  /\ phase \in {"compress", "compressed"} => job.kind = "block"
  /\ phase = "unpack" => Loads(form.len)
  /\ job.kind = "block" => Way

(* No form yet. *)
LEMMA NothingForm == Nothing \in Forms /\ [Nothing EXCEPT !.mode = "raw"] \in Forms
<1>1. NoCode \in [Symbols -> Nat]
  BY DEF NoCode
<1>2. <<>> \in Seq(Nat)
  OBVIOUS
<1> QED BY <1>1, <1>2 DEF Nothing, Forms

(* A block sets out at the start of an empty stream. *)
LEMMA InitTrip == Init => TripInv
<1> SUFFICES ASSUME Init PROVE TripInv
  OBVIOUS
<1>1. /\ job \in Jobs /\ anchor = 0 /\ ip = 0 /\ dst = <<>> /\ st = OK
      /\ phase = CASE job.kind = "block" -> "compress"
                   [] job.kind = "bytes" -> "decompress"
                   [] job.kind = "table" -> "load"
      /\ packed = IF job.kind = "bytes" THEN job.src ELSE <<>>
      /\ form = IF job.kind = "table" THEN job.form ELSE Nothing
  BY Zenon DEF Init, LzbInit
<1>2. /\ job.kind \in {"block", "bytes", "table"} /\ job.room \in Nat
      /\ job.kind = "table" => job.form \in Form
  BY <1>1, JobsAssumption, JobSizes, Zenon
<1>3. form \in Forms
  <2>1. CASE job.kind = "table"
    <3>1. form \in Form
      BY <1>1, <1>2, <2>1, Zenon
    <3>2. \A b \in Seq({0, 1}) : b \in Seq(Nat)
      BY BitsAreNat
    <3> QED BY <3>1, <3>2 DEF Form, Forms
  <2>2. CASE job.kind # "table"
    BY <1>1, <2>2, NothingForm
  <2> QED BY <2>1, <2>2
<1>4. /\ job.kind = "block" => phase = "compress"
      /\ job.kind = "bytes" => phase = "decompress"
      /\ job.kind = "table" => phase = "load"
  BY <1>1
<1>5. ASSUME job.kind = "block" PROVE Way
  <2>1. packed = <<>> /\ phase = "compress"
    BY <1>1, <1>4, <1>5
  <2>2. <<>> \in Seq(Bytes) /\ Len(<<>>) = 0 /\ 0 <= job.room
    BY <1>2
  <2>3. Trail(job, <<>>, <<0, 0>>)
    <3>1. <<0, 0>> \in Points(job)
      <4>1. Len(job.src) \in Nat
        BY <1>1, JobSizes
      <4> QED BY <4>1 DEF Points
    <3>2. {<<0, 0>>} \in SUBSET Points(job)
      BY <3>1
    <3> QED BY <3>2 DEF Trail
  <2> QED BY <1>1, <2>1, <2>2, <2>3 DEF Way
<1> QED BY <1>2, <1>3, <1>4, <1>5 DEF TripInv

(* A step that leaves the way alone.                                       *)
LEMMA LiteralTrip ==
  ASSUME TripInv, Literal, UNCHANGED form PROVE TripInv'
BY DEF TripInv, Way, Literal

(* A match carries the way on.                                             *)
LEMMA MatchTrip ==
  ASSUME CodecInv, TripInv, Match, UNCHANGED form PROVE TripInv'
<1>1. job \in Jobs /\ pos \in Nat /\ anchor \in Nat /\ anchor <= pos
  BY Zenon DEF CodecInv
<1>2. PICK p \in Positions : \E m :
        /\ MatchAt(p, m) /\ m.len >= MinMatch /\ p \in {pos, pos + 1}
        /\ EmitSeq(p, m, "compress")
        /\ pos' = p + m.len /\ anchor' = p + m.len
        /\ phase = "compress" /\ UNCHANGED <<job, ip, dst>>
  BY <1>1, MatchStep
<1>3. PICK m :
        /\ MatchAt(p, m) /\ m.len >= MinMatch /\ p \in {pos, pos + 1}
        /\ EmitSeq(p, m, "compress")
        /\ pos' = p + m.len /\ anchor' = p + m.len
        /\ phase = "compress" /\ UNCHANGED <<job, ip, dst>>
  BY <1>2
<1> DEFINE w == SeqBytes(SubSeq(job.src, anchor + 1, p), m)
           more == packed \o w
<1>4. anchor <= p
  BY <1>1, <1>3
<1>5. Emits(SubSeq(job.src, anchor + 1, p), m) /\ p + m.len \in Nat /\ p + m.len <= Len(job.src)
  BY <1>3, <1>4, EmitsMatch
<1>6. /\ form \in Forms /\ job.kind = "block" /\ ip = 0 /\ dst = <<>> /\ st = OK
      /\ packed \in Seq(Bytes) /\ Trail(job, packed, <<Len(packed), anchor>>)
  BY <1>3 DEF TripInv, Way
<1>7. w \in Seq(Bytes) /\ w \in Seq(Nat) /\ packed \in Seq(Nat)
  BY <1>5, <1>6, SeqBytesBytes, BytesAreNat
<1>8. more \in Seq(Bytes) /\ Holds(more, Len(packed), w) /\ Len(more) = Len(packed) + Len(w)
  <2> HIDE DEF w
  <2>1. more \in Seq(Bytes)
    BY <1>6, <1>7
  <2> QED BY <1>7, <2>1, HoldsEnd
<1> DEFINE y == <<Len(packed) + Len(w), p + m.len>>
<1>9. y \in Points(job)
  <2>1. p + m.len \in 0 .. Len(job.src)
    <3>1. Len(job.src) \in Nat
      BY <1>1, JobSizes
    <3> QED BY <1>5, <3>1
  <2>2. Len(packed) + Len(w) \in Nat
    <3> HIDE DEF w
    <3> QED BY <1>7
  <2> QED BY <2>1, <2>2 DEF Points
<1>10. Segment(job, more, <<Len(packed), anchor>>, y)
  <2>1. p \in 0 .. Len(job.src) - 1 /\ MatchOf(job, p, m)
    BY <1>3 DEF MatchAt, Positions
  <2>2. Between(job, anchor, p) = SubSeq(job.src, anchor + 1, p)
    BY DEF Between
  <2>3. <<Len(packed), anchor>>[1] = Len(packed) /\ <<Len(packed), anchor>>[2] = anchor
    OBVIOUS
  <2> QED BY <1>3, <1>4, <1>5, <1>8, <2>1, <2>2, <2>3, Zenon DEF Segment
<1>11. Trail(job, more, y)
  <2> HIDE DEF w, y
  <2> QED BY <1>1, <1>6, <1>7, <1>9, <1>10, TrailOn
<1>12. \/ Len(more) <= job.room /\ packed' = more /\ phase' = "compress" /\ st' = st
       \/ phase' = "refused"
  BY <1>3, Zenon DEF EmitSeq
<1>13. CASE Len(more) <= job.room /\ packed' = more /\ phase' = "compress" /\ st' = st
  <2>1. <<Len(packed'), anchor'>> = y
    BY <1>3, <1>8, <1>13
  <2> HIDE DEF more, y
  <2> QED BY <1>3, <1>6, <1>8, <1>11, <1>13, <2>1 DEF TripInv, Way
<1>14. CASE phase' = "refused"
  BY <1>6, <1>14 DEF TripInv, Way
<1> QED BY <1>12, <1>13, <1>14

(* The last literals bring it to its end.                                  *)
LEMMA RestTrip ==
  ASSUME CodecInv, TripInv, Rest, UNCHANGED form PROVE TripInv'
<1>1. job \in Jobs
  BY Zenon DEF CodecInv
<1>2. phase = "compress" /\ EmitSeq(Len(job.src), NoMatch, "compressed") /\ UNCHANGED <<job, ip, dst>>
  BY Zenon DEF Rest
<1> DEFINE w == SeqBytes(SubSeq(job.src, anchor + 1, Len(job.src)), NoMatch)
           more == packed \o w
<1>3. Emits(SubSeq(job.src, anchor + 1, Len(job.src)), NoMatch)
  BY EmitsRest
<1>4. /\ form \in Forms /\ job.kind = "block" /\ ip = 0 /\ dst = <<>> /\ st = OK
      /\ packed \in Seq(Bytes) /\ Trail(job, packed, <<Len(packed), anchor>>)
  BY <1>2 DEF TripInv, Way
<1>5. w \in Seq(Bytes) /\ w \in Seq(Nat) /\ packed \in Seq(Nat)
  BY <1>3, <1>4, SeqBytesBytes, BytesAreNat
<1>6. more \in Seq(Bytes) /\ Holds(more, Len(packed), w) /\ Len(more) = Len(packed) + Len(w)
  <2> HIDE DEF w
  <2>1. more \in Seq(Bytes)
    BY <1>4, <1>5
  <2> QED BY <1>5, <2>1, HoldsEnd
<1>7. Final(job, more, <<Len(packed), anchor>>)
  <2>1. Between(job, anchor, Len(job.src)) = SubSeq(job.src, anchor + 1, Len(job.src))
    BY DEF Between
  <2>2. <<Len(packed), anchor>>[1] = Len(packed) /\ <<Len(packed), anchor>>[2] = anchor
    OBVIOUS
  <2> QED BY <1>3, <1>6, <2>1, <2>2, Zenon DEF Final
<1>8. Decodes(job, more, <<0, 0>>)
  <2> HIDE DEF w
  <2> QED BY <1>1, <1>4, <1>5, <1>7, TrailEnds
<1>9. \/ Len(more) <= job.room /\ packed' = more /\ phase' = "compressed" /\ st' = st
      \/ phase' = "refused"
  BY <1>2, Zenon DEF EmitSeq
<1>10. CASE Len(more) <= job.room /\ packed' = more /\ phase' = "compressed" /\ st' = st
  <2> HIDE DEF more
  <2> QED BY <1>2, <1>4, <1>6, <1>8, <1>10 DEF TripInv, Way
<1>11. CASE phase' = "refused"
  BY <1>4, <1>11 DEF TripInv, Way
<1> QED BY <1>9, <1>10, <1>11

(* A sequence is decoded, and the decompressor is further on the way.      *)
LEMMA DecompressTrip ==
  ASSUME CodecInv, TripInv, Decompress, UNCHANGED form PROVE TripInv'
<1> DEFINE t == DecodeSeq(packed, ip, dst)
<1>1. /\ phase = "decompress" /\ st' = t.st /\ ip' = t.ip /\ dst' = t.dst
      /\ phase' = (IF t.over THEN "done" ELSE phase)
      /\ job' = job /\ packed' = packed
  BY Zenon DEF Decompress
<1> HIDE DEF t
<1>2. phase' \in {"done", "decompress"}
  BY <1>1
<1>3. form \in Forms
  BY DEF TripInv
<1>4. CASE job.kind # "block"
  BY <1>1, <1>2, <1>3, <1>4 DEF TripInv
<1>5. CASE job.kind = "block"
  <2>1. /\ Len(dst) <= Len(job.src) /\ dst = SubSeq(job.src, 1, Len(dst))
        /\ Decodes(job, packed, <<ip, Len(dst)>>)
    BY <1>1, <1>5 DEF TripInv, Way
  <2>2. /\ job \in Jobs /\ packed \in Seq(Nat) /\ ip \in Nat /\ dst \in Seq(Nat)
    BY Zenon DEF CodecInv
  <2>3. job.cap = Len(job.src) /\ Len(job.src) \in Nat
    BY <1>5, <2>2, JobSizes
  <2>4. Len(dst) \in 0 .. Len(job.src)
    BY <2>1, <2>2, <2>3
  <2>5. PICK a \in 0 .. Len(job.src) : a = Len(dst) /\ First(a) = dst
    BY <2>1, <2>4 DEF First
  <2>6. Decodes(job, packed, <<ip, a>>)
    BY <2>1, <2>5, Zenon
  <2>7. \/ \E e : DecodeSeq(packed, ip, First(a)) = Turn(OK, e, job.src, TRUE)
        \/ \E y \in Points(job) : /\ Decodes(job, packed, y)
                                  /\ DecodeSeq(packed, ip, First(a)) = Turn(OK, y[1], First(y[2]), FALSE)
    BY <2>2, <2>3, <2>6, DecodesOn
  <2>8. CASE \E e : DecodeSeq(packed, ip, First(a)) = Turn(OK, e, job.src, TRUE)
    <3>1. PICK e : t = Turn(OK, e, job.src, TRUE)
      BY <2>5, <2>8, Zenon DEF t
    <3>2. t.st = OK /\ t.dst = job.src /\ t.over = TRUE
      BY <3>1 DEF Turn
    <3>3. phase' = "done" /\ st' = OK /\ dst' = job'.src
      BY <1>1, <3>2
    <3> QED BY <1>1, <1>3, <3>3 DEF TripInv, Way
  <2>9. CASE \E y \in Points(job) :
               /\ Decodes(job, packed, y)
               /\ DecodeSeq(packed, ip, First(a)) = Turn(OK, y[1], First(y[2]), FALSE)
    <3>1. PICK y \in Points(job) : Decodes(job, packed, y) /\ t = Turn(OK, y[1], First(y[2]), FALSE)
      BY <2>5, <2>9, Zenon DEF t
    <3>2. t.st = OK /\ t.ip = y[1] /\ t.dst = First(y[2]) /\ t.over = FALSE
      BY <3>1 DEF Turn
    <3>3. y[2] \in Nat /\ y[2] <= Len(job.src) /\ y = <<y[1], y[2]>>
      BY <2>3, <3>1 DEF Points
    <3>4. Len(First(y[2])) = y[2]
      BY <2>2, <3>3, FirstBytes
    <3>5. phase' = "decompress" /\ st' = OK /\ ip' = y[1] /\ dst' = First(y[2]) /\ Len(dst') = y[2]
      BY <1>1, <3>2, <3>4
    <3>6. dst' = SubSeq(job.src, 1, Len(dst')) /\ Len(dst') <= Len(job.src)
      BY <3>3, <3>5 DEF First
    <3>7. Decodes(job, packed, <<ip', Len(dst')>>)
      BY <3>1, <3>3, <3>5, Zenon
    <3> QED BY <1>1, <1>3, <3>5, <3>6, <3>7 DEF TripInv, Way
  <2> QED BY <2>7, <2>8, <2>9
<1> QED BY <1>4, <1>5

(* The stream of a block is never empty. *)
LEMMA NothingTrip ==
  ASSUME CodecInv, TripInv, DecompressNothing, UNCHANGED form PROVE TripInv'
<1>1. phase = "decompress" /\ packed = <<>> /\ phase' = "done" /\ job' = job
  BY Zenon DEF DecompressNothing
<1>2. form \in Forms
  BY DEF TripInv
<1>3. job.kind # "block"
  <2>1. SUFFICES ASSUME job.kind = "block" PROVE FALSE
    OBVIOUS
  <2>2. Len(dst) <= Len(job.src) /\ Decodes(job, packed, <<ip, Len(dst)>>)
    BY <1>1, <2>1 DEF TripInv, Way
  <2>3. job \in Jobs /\ packed \in Seq(Nat) /\ ip \in Nat /\ dst \in Seq(Nat)
    BY Zenon DEF CodecInv
  <2>4. job.cap = Len(job.src) /\ Len(job.src) \in Nat
    BY <2>1, <2>3, JobSizes
  <2>5. PICK a \in 0 .. Len(job.src) : a = Len(dst)
    BY <2>2, <2>3, <2>4
  <2>6. ip < Len(packed)
    <3>1. Decodes(job, packed, <<ip, a>>)
      BY <2>2, <2>5, Zenon
    <3> QED BY <2>3, <2>4, <3>1, DecodesOn
  <2>7. Len(packed) = 0
    BY <1>1
  <2> QED BY <2>3, <2>6, <2>7
<1> QED BY <1>1, <1>2, <1>3 DEF TripInv

(* No memory for the tables: an error that RoundTrip allows. *)
LEMMA NoMemoryTrip ==
  ASSUME TripInv, NoMemory PROVE TripInv'
<1>1. phase' \in {"refused", "done"} /\ st' = ErrOOM /\ UNCHANGED <<job, form>>
  BY DEF NoMemory
<1>2. form \in Forms
  BY DEF TripInv
<1> QED BY <1>1, <1>2 DEF TripInv, Way

(* What lze stores decodes to what lzb has written.                        *)
LEMMA StoreTrip ==
  ASSUME CodecInv, TripInv, Store PROVE TripInv'
<1> DEFINE len == Build(CountFreq)
           huff == HuffForm(len)
<1>1. /\ phase = "compressed" /\ UNCHANGED <<job, packed, ip, dst>>
      /\ \/ form' = Nothing /\ phase' = "refused"
         \/ form' = Nothing /\ phase' = "decompress" /\ st' = st
         \/ form' = [Nothing EXCEPT !.mode = "raw"] /\ phase' = "decompress" /\ st' = st
         \/ job.lze /\ len # NoCode /\ form' = huff /\ phase' = "load" /\ st' = st
  <2> HIDE DEF huff
  <2>1. phase = "compressed" /\ UNCHANGED <<job, packed, ip, dst>>
    BY DEF Store
  <2> DEFINE worth == Len(packed) >= HuffMin /\ len # NoCode
             fits == HuffBytes(huff) <= job.out
  <2>2. (CASE ~job.lze ->
               form' = Nothing /\ phase' = "decompress" /\ st' = st
          [] job.lze /\ worth /\ HeadBytes > job.out ->
               form' = Nothing /\ phase' = "refused" /\ st' = ErrDstTooSmall
          [] job.lze /\ worth /\ fits /\ HuffBytes(huff) < Len(packed) + 1 ->
               form' = huff /\ phase' = "load" /\ st' = st
          [] OTHER ->
               IF 1 + Len(packed) <= job.out
               THEN form' = [Nothing EXCEPT !.mode = "raw"] /\ phase' = "decompress" /\ st' = st
               ELSE form' = Nothing /\ phase' = "refused" /\ st' = ErrDstTooSmall)
    BY DEF Store, huff
  <2>3. worth => len # NoCode
    OBVIOUS
  <2> HIDE DEF worth, fits, len
  <2> QED BY <2>1, <2>2, <2>3
<1> HIDE DEF len, huff
<1>2. /\ job \in Jobs /\ job.kind = "block" /\ packed \in Seq(Bytes) /\ Len(packed) <= job.room
      /\ Decodes(job, packed, <<0, 0>>) /\ ip = 0 /\ dst = <<>> /\ st = OK
  BY <1>1 DEF CodecInv, TripInv, Way
<1>3. packed \in Seq(Nat) /\ Len(packed) \in Nat
  BY <1>2, BytesAreNat
<1>4. CASE form' = Nothing /\ phase' = "refused"
  BY <1>1, <1>2, <1>4, NothingForm DEF TripInv, Way
<1>5. CASE /\ form' \in {Nothing, [Nothing EXCEPT !.mode = "raw"]} /\ phase' = "decompress" /\ st' = st
  <2>1. Len(dst) = 0 /\ 0 <= Len(job.src) /\ SubSeq(job.src, 1, 0) = <<>>
    <3>1. Len(job.src) \in Nat
      BY <1>2, JobSizes
    <3> QED BY <1>2, <3>1
  <2>2. form' \in Forms
    BY <1>5, NothingForm
  <2> QED BY <1>1, <1>2, <1>5, <2>1, <2>2 DEF TripInv, Way
<1>6. CASE job.lze /\ len # NoCode /\ form' = huff /\ phase' = "load" /\ st' = st
  <2>1. CountFreq = Freq(packed)
    BY DEF CountFreq, Freq
  <2>2. Freq(packed) \in [Symbols -> Nat] /\ \A i \in 1 .. Len(packed) : packed[i] \in Used(Freq(packed))
    BY <1>2, FreqUsed
  <2>3. len \in [Symbols -> Nat] /\ Used(len) = Used(Freq(packed)) /\ Loads(len)
    <3>1. PICK f \in [Symbols -> Nat] : f = Freq(packed) /\ len = Build(f)
      BY <2>1, <2>2 DEF len
    <3>2. Build(f) # NoCode
      BY <1>6, <3>1
    <3>3. Build(f) \in [Symbols -> Nat] /\ Used(Build(f)) = Used(f) /\ Loads(Build(f))
      BY <3>2, BuildSound
    <3> QED BY <3>1, <3>3, Zenon
  <2>4. \A i \in 1 .. Len(packed) : packed[i] \in Used(len)
    BY <2>2, <2>3, Zenon
  <2> DEFINE bits == Pad(FlattenSeq([i \in DOMAIN packed |-> CodeBits(len, packed[i])]))
  <2>5. Coded(len, packed, bits)
    BY <1>3, <2>3, <2>4, HuffCoding
  <2>6. huff = [mode |-> "huff", mlen |-> Len(packed), len |-> len, bits |-> bits]
    BY Zenon DEF huff, HuffForm
  <2> HIDE DEF bits
  <2>7. bits \in Seq(Nat)
    BY <2>5, Zenon DEF Coded
  <2>8. form' \in Forms /\ form'.mlen = Len(packed) /\ form'.len = len /\ form'.bits = bits
    BY <1>3, <1>6, <2>3, <2>6, <2>7 DEF Forms
  <2> QED BY <1>1, <1>2, <1>6, <2>3, <2>5, <2>8 DEF TripInv, Way
<1> QED BY <1>1, <1>4, <1>5, <1>6

(* The form of a block loads. *)
LEMMA LoadTrip ==
  ASSUME CodecInv, TripInv, Load PROVE TripInv'
<1>1. /\ phase = "load" /\ packed' = <<>> /\ UNCHANGED <<job, ip, dst, form>>
      /\ IF form.mlen <= MidMax /\ Loads(form.len)
         THEN phase' = "unpack" /\ st' = st
         ELSE phase' = "done" /\ st' = ErrCorruptBlock
  BY DEF Load
<1>2. form \in Forms
  BY DEF TripInv
<1>3. CASE job.kind # "block"
  BY <1>1, <1>2, <1>3 DEF TripInv
<1>4. CASE job.kind = "block"
  <2>1. /\ job.lze /\ Len(packed) <= job.room /\ Decodes(job, packed, <<0, 0>>)
        /\ form.mlen = Len(packed) /\ Loads(form.len)
        /\ Coded(form.len, packed, form.bits)
        /\ ip = 0 /\ dst = <<>> /\ st = OK
    BY <1>1, <1>4 DEF TripInv, Way
  <2>2. job \in Jobs /\ packed \in Seq(Nat) /\ Len(packed) \in Nat
    BY DEF CodecInv
  <2>3. form.mlen <= MidMax
    <3>1. job.room <= MidMax /\ job.room \in Nat /\ MidMax \in Nat
      BY <1>4, <2>1, <2>2, JobsAssumption, JobSizes, LzeAssumption
    <3> QED BY <2>1, <2>2, <3>1
  <2>4. phase' = "unpack" /\ st' = st
    BY <1>1, <2>1, <2>3
  <2>5. form.bits \in Seq(Nat)
    BY <2>1, Zenon DEF Coded
  <2>6. PICK o : Coding(form.len, packed, form.bits, o)
    BY <2>1, Zenon DEF Coded
  <2>7. o[0] = 0
    BY <2>6, Zenon DEF Coding
  <2>8. /\ Len(<<>>) = 0 /\ 0 <= Len(packed) /\ <<>> = SubSeq(packed, 1, 0)
        /\ form.bits = SubSeq(form.bits, 0 + 1, Len(form.bits))
    <3>1. \A b \in Seq(Nat) : b = SubSeq(b, 0 + 1, Len(b))
      BY SubSeqFull
    <3> QED BY <2>2, <2>5, <3>1
  <2> DEFINE Ends(P, B, q, k) ==
         /\ Decodes(job, P, <<0, 0>>) /\ form.mlen = Len(P) /\ Coding(form.len, P, B, q)
         /\ k <= Len(P) /\ <<>> = SubSeq(P, 1, k)
         /\ form.bits = SubSeq(B, q[k] + 1, Len(B))
  <2>9. Ends(packed, form.bits, o, 0)
    BY <2>1, <2>6, <2>7, <2>8, Zenon
  <2>10. \E P \in Seq(Nat), B \in Seq(Nat) : \E q : Ends(P, B, q, Len(<<>>))
    <3> HIDE DEF Ends
    <3> QED BY <2>2, <2>5, <2>8, <2>9, Zenon
  <2>11. /\ phase' = "unpack" /\ ip' = 0 /\ dst' = <<>> /\ st' = OK /\ Loads(form'.len) /\ form' \in Forms
         /\ \E P \in Seq(Nat), B \in Seq(Nat) : \E q :
              /\ Decodes(job', P, <<0, 0>>) /\ form'.mlen = Len(P) /\ Coding(form'.len, P, B, q)
              /\ Len(packed') <= Len(P) /\ packed' = SubSeq(P, 1, Len(packed'))
              /\ form'.bits = SubSeq(B, q[Len(packed')] + 1, Len(B))
    BY <1>1, <1>2, <2>1, <2>4, <2>10, Zenon
  <2> QED BY <2>11 DEF TripInv, Way
<1> QED BY <1>3, <1>4

(* The next symbol of a block is its next byte.                            *)
LEMMA UnpackTrip ==
  ASSUME CodecInv, TripInv, Unpack PROVE TripInv'
<1> DEFINE s == Decode(form.len, form.bits)
<1>1. /\ phase = "unpack" /\ Len(packed) < form.mlen /\ UNCHANGED <<job, ip, dst>>
      /\ IF s < 0
         THEN phase' = "done" /\ st' = ErrCorruptBlock /\ UNCHANGED <<packed, form>>
         ELSE /\ packed' = Append(packed, s)
              /\ form' = [form EXCEPT !.bits = SubSeq(@, form.len[s] + 1, Len(@))]
              /\ UNCHANGED <<phase, st>>
  BY DEF Unpack
<1>2. form \in Forms /\ Loads(form.len)
  BY <1>1 DEF TripInv
<1>3. s \in Symbols \cup {-1}
  BY DecodeSymbol
<1> HIDE DEF s
<1>4. form.len \in [Symbols -> Nat] /\ form.bits \in Seq(Nat)
  BY <1>2 DEF Forms
<1>5. ASSUME ~(s < 0)
      PROVE  /\ form' \in Forms /\ form'.len = form.len /\ form'.mlen = form.mlen
             /\ form'.bits = SubSeq(form.bits, form.len[s] + 1, Len(form.bits))
  <2>1. form.len[s] \in Nat
    BY <1>3, <1>4, <1>5
  <2>2. SubSeq(form.bits, form.len[s] + 1, Len(form.bits)) \in Seq(Nat)
    <3>1. \A b \in Seq(Nat), l \in Nat : SubSeq(b, l + 1, Len(b)) \in Seq(Nat)
      OBVIOUS
    <3> QED BY <1>4, <2>1, <3>1, Zenon
  <2>3. form' = [form EXCEPT !.bits = SubSeq(form.bits, form.len[s] + 1, Len(form.bits))]
    BY <1>1, <1>5
  <2> QED BY <1>2, <2>2, <2>3 DEF Forms
<1>6. CASE job.kind # "block"
  <2>1. CASE s < 0
    BY <1>1, <1>2, <1>6, <2>1 DEF TripInv
  <2>2. CASE ~(s < 0)
    BY <1>1, <1>2, <1>5, <1>6, <2>2 DEF TripInv
  <2> QED BY <2>1, <2>2
<1>7. CASE job.kind = "block"
  <2>1. PICK P \in Seq(Nat), B \in Seq(Nat) : \E o :
          /\ Decodes(job, P, <<0, 0>>) /\ form.mlen = Len(P) /\ Coding(form.len, P, B, o)
          /\ Len(packed) <= Len(P) /\ packed = SubSeq(P, 1, Len(packed))
          /\ form.bits = SubSeq(B, o[Len(packed)] + 1, Len(B))
    BY <1>1, <1>7 DEF TripInv, Way
  <2>2. PICK o :
          /\ Decodes(job, P, <<0, 0>>) /\ form.mlen = Len(P) /\ Coding(form.len, P, B, o)
          /\ Len(packed) <= Len(P) /\ packed = SubSeq(P, 1, Len(packed))
          /\ form.bits = SubSeq(B, o[Len(packed)] + 1, Len(B))
    BY <2>1
  <2>3. ip = 0 /\ dst = <<>> /\ st = OK
    BY <1>1, <1>7 DEF TripInv, Way
  <2>4. packed \in Seq(Nat) /\ Len(packed) \in Nat
    BY DEF CodecInv
  <2>5. PICK k \in 0 .. Len(P) - 1 : k = Len(packed)
    <3>1. Len(packed) < Len(P) /\ Len(P) \in Nat
      <4>1. Len(P) \in Nat
        BY <2>1
      <4> QED BY <1>1, <2>2, <4>1, Zenon
    <3>2. Len(packed) \in 0 .. Len(P) - 1
      BY <2>4, <3>1
    <3> QED BY <3>2
  <2>6. LET bits == SubSeq(B, o[k] + 1, Len(B)) IN
        /\ Decode(form.len, bits) = P[k + 1] /\ P[k + 1] \in Used(form.len)
        /\ SubSeq(bits, form.len[P[k + 1]] + 1, Len(bits)) = SubSeq(B, o[k + 1] + 1, Len(B))
        /\ Append(SubSeq(P, 1, k), P[k + 1]) = SubSeq(P, 1, k + 1)
    BY <1>2, <1>4, <2>2, SymbolBack
  <2>7. /\ s = P[k + 1] /\ s \in Used(form.len)
        /\ SubSeq(form.bits, form.len[s] + 1, Len(form.bits)) = SubSeq(B, o[k + 1] + 1, Len(B))
        /\ Append(packed, s) = SubSeq(P, 1, k + 1)
    <3>1. form.bits = SubSeq(B, o[k] + 1, Len(B)) /\ packed = SubSeq(P, 1, k)
      BY <2>2, <2>5, Zenon
    <3> QED BY <2>6, <3>1, Zenon DEF s
  <2>8. ~(s < 0)
    BY <2>7 DEF Used, Symbols
  <2>9. packed' = Append(packed, s) /\ phase' = phase /\ st' = st
    BY <1>1, <2>8
  <2>10. Len(packed') = k + 1 /\ k + 1 <= Len(P)
    <3>1. Len(Append(packed, s)) = Len(packed) + 1
      BY <2>4, <2>7
    <3> QED BY <2>5, <2>9, <3>1
  <2>11. /\ Len(packed') <= Len(P) /\ packed' = SubSeq(P, 1, Len(packed'))
         /\ form'.bits = SubSeq(B, o[Len(packed')] + 1, Len(B))
    <3>1. form'.bits = SubSeq(form.bits, form.len[s] + 1, Len(form.bits))
      BY <1>5, <2>8
    <3> QED BY <2>7, <2>9, <2>10, <3>1, Zenon
  <2>12. form' \in Forms /\ form'.len = form.len /\ form'.mlen = form.mlen
    BY <1>5, <2>8
  <2>13. \E Q \in Seq(Nat), C \in Seq(Nat) : \E q :
              /\ Decodes(job', Q, <<0, 0>>) /\ form'.mlen = Len(Q) /\ Coding(form'.len, Q, C, q)
              /\ Len(packed') <= Len(Q) /\ packed' = SubSeq(Q, 1, Len(packed'))
              /\ form'.bits = SubSeq(C, q[Len(packed')] + 1, Len(C))
    BY <1>1, <2>1, <2>2, <2>11, <2>12, Zenon
  <2> QED BY <1>1, <1>2, <2>3, <2>9, <2>12, <2>13 DEF TripInv, Way
<1> QED BY <1>6, <1>7

(* With the last symbol the stream of lzb is back. *)
LEMMA UnpackedTrip ==
  ASSUME CodecInv, TripInv, Unpacked PROVE TripInv'
<1>1. /\ phase = "unpack" /\ Len(packed) = form.mlen /\ phase' = "decompress"
      /\ UNCHANGED <<job, packed, ip, dst, st, form>>
  BY DEF Unpacked
<1>2. form \in Forms
  BY DEF TripInv
<1>3. CASE job.kind # "block"
  BY <1>1, <1>2, <1>3 DEF TripInv
<1>4. CASE job.kind = "block"
  <2>1. PICK P \in Seq(Nat), B \in Seq(Nat) : \E o :
          /\ Decodes(job, P, <<0, 0>>) /\ form.mlen = Len(P) /\ Coding(form.len, P, B, o)
          /\ Len(packed) <= Len(P) /\ packed = SubSeq(P, 1, Len(packed))
          /\ form.bits = SubSeq(B, o[Len(packed)] + 1, Len(B))
    BY <1>1, <1>4 DEF TripInv, Way
  <2>2. Decodes(job, P, <<0, 0>>) /\ packed = SubSeq(P, 1, Len(P)) /\ ip = 0 /\ dst = <<>> /\ st = OK
    <3>1. Decodes(job, P, <<0, 0>>) /\ packed = SubSeq(P, 1, Len(P))
      BY <1>1, <2>1
    <3> QED BY <1>1, <1>4, <3>1 DEF TripInv, Way
  <2>3. packed = P
    BY <2>2, SubSeqFull
  <2>4. Len(dst) = 0 /\ 0 <= Len(job.src) /\ SubSeq(job.src, 1, 0) = <<>>
    <3>1. job \in Jobs
      BY Zenon DEF CodecInv
    <3>2. Len(job.src) \in Nat
      BY <3>1, JobSizes
    <3> QED BY <2>2, <3>2
  <2> QED BY <1>1, <1>2, <2>2, <2>3, <2>4 DEF TripInv, Way
<1> QED BY <1>3, <1>4

(* Every step keeps the block on its way. *)
LEMMA NextTrip == CodecInv /\ TripInv /\ [Next]_vars => TripInv'
<1> SUFFICES ASSUME CodecInv, TripInv, [Next]_vars PROVE TripInv'
  OBVIOUS
<1>1. CASE Literal /\ UNCHANGED form
  BY <1>1, LiteralTrip
<1>2. CASE Match /\ UNCHANGED form
  BY <1>2, MatchTrip
<1>3. CASE Rest /\ UNCHANGED form
  BY <1>3, RestTrip
<1>4. CASE Decompress /\ UNCHANGED form
  BY <1>4, DecompressTrip
<1>5. CASE DecompressNothing /\ UNCHANGED form
  BY <1>5, NothingTrip
<1>6. CASE NoMemory
  BY <1>6, NoMemoryTrip
<1>7. CASE Store
  BY <1>7, StoreTrip
<1>8. CASE Load
  BY <1>8, LoadTrip
<1>9. CASE Unpack
  BY <1>9, UnpackTrip
<1>10. CASE Unpacked
  BY <1>10, UnpackedTrip
<1>11. CASE UNCHANGED vars
  BY ZenonT(60), <1>11 DEF TripInv, Way, vars, lzbVars, encVars
<1> QED BY <1>1, <1>2, <1>3, <1>4, <1>5, <1>6, <1>7, <1>8, <1>9, <1>10, <1>11 DEF Next, Terminated

(* Both hold in every state. *)
LEMMA AlwaysTrip == Spec => [](CodecInv /\ TripInv)
<1>1. Init => CodecInv /\ TripInv
  BY InitCodec, InitTrip
<1>2. CodecInv /\ TripInv /\ [Next]_vars => CodecInv' /\ TripInv'
  BY NextCodec, NextTrip
<1> QED BY <1>1, <1>2, PTL DEF Spec

(* A block that a codec has taken comes back byte for byte: whatever the   *)
(* block and the dictionary, wherever the hash chains lead the compressor, *)
(* raw or Huffman-coded (xq_lzb_compress and xq_lzb_decompress,            *)
(* lze_compress and lze_decompress).                                       *)
THEOREM CodecRoundTrip == Spec => []RoundTrip
<1>1. TripInv => RoundTrip
  BY DEF TripInv, Way, RoundTrip
<1> QED BY <1>1, AlwaysTrip, PTL

(* The table that xq_huff_build has made for a block has a code for each   *)
(* byte in it, within the limit, and xq_huff_load accepts it; and whatever *)
(* table it accepts gives every pattern of bits one symbol, unless it has  *)
(* a single one.                                                           *)
THEOREM CodecCodesSound == Spec => []CodesSound
<1>1. TripInv => CodesSound
  <2> SUFFICES ASSUME TripInv PROVE CodesSound
    OBVIOUS
  <2>1. ASSUME phase = "load", job.kind = "block"
        PROVE  Used(form.len) = Used(CountFreq) /\ Loads(form.len)
    <3>1. CountFreq = Freq(packed)
      BY DEF CountFreq, Freq
    <3>2. Used(form.len) = Used(Freq(packed)) /\ Loads(form.len)
      BY <2>1 DEF TripInv, Way
    <3> QED BY <3>1, <3>2, Zenon
  <2>2. ASSUME phase = "unpack", Cardinality(Used(form.len)) > 1, NEW w \in [1 .. MaxBits -> {0, 1}]
        PROVE  Cardinality({ s \in Used(form.len) :
                 \A i \in 1 .. form.len[s] : CodeBits(form.len, s)[i] = w[i] }) = 1
    <3>1. form.len \in [Symbols -> Nat] /\ Loads(form.len)
      BY <2>2 DEF TripInv, Forms
    <3>2. PICK len \in [Symbols -> Nat] : len = form.len
      BY <3>1
    <3>3. Loads(len) /\ Cardinality(Used(len)) > 1
      BY <2>2, <3>1, <3>2, Zenon
    <3>4. Cardinality({ s \in Used(len) : \A i \in 1 .. len[s] : CodeBits(len, s)[i] = w[i] }) = 1
      BY <3>3, CodesComplete
    <3> QED BY <3>2, <3>4, Zenon
  <2> QED BY <2>1, <2>2, Zenon DEF CodesSound
<1> QED BY <1>1, AlwaysTrip, PTL

=============================================================================
