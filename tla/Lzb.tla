-------------------------------- MODULE Lzb --------------------------------
(***************************************************************************)
(* The codec lzb (src/codec/xq_codec_lzb.c) on one block: the compressor   *)
(* looks for matches through hash chains, in the block and then in the     *)
(* dictionary, and writes sequences of a token, literals and a match; the  *)
(* decompressor takes whatever it is given.                                *)
(*                                                                         *)
(* The format is scaled down, its shape kept: a byte has 4 bits, half of   *)
(* them for each code of a token; a varint carries 3 bits a byte, and a    *)
(* size_t has 7 (as 64 is no multiple of 7).  So the longest literal or    *)
(* match code, where a varint follows, is 3 instead of 15.                 *)
(*                                                                         *)
(* One turn of the compressor's loop, and one sequence of the              *)
(* decompressor's, is one step.                                            *)
(***************************************************************************)
EXTENDS Integers, Sequences, FiniteSetsExt

CONSTANTS MinMatch,   \* LZB_MIN_MATCH
          MaxMatch,   \* 65535
          Buckets     \* 1 << hlog

ASSUME LzbAssumption == MinMatch \in Nat \ {0} /\ MaxMatch \in Nat /\ Buckets \in Nat \ {0}

TopCode == 3     \* 15
Base == 8        \* 0x80
SizeMax == 127   \* SIZE_MAX
MaxBytes == 3    \* the bytes a varint may have

Bytes == 0 .. 2 * Base - 1

OK == 0
ErrDstTooSmall == 2
ErrCorruptBlock == 34

VARIABLES job,      \* src, dict, depth, room for the packed bytes, cap for the decoded ones
          phase,
          head, chain,   \* of the context: positions plus 1, 0 for none
          pos, anchor,
          packed,   \* dst of the compressor, src of the decompressor
          ip,       \* how much of it has been decoded
          dst,      \* what the decompressor has written
          st

encVars == <<head, chain, pos, anchor>>
lzbVars == <<job, phase, encVars, packed, ip, dst, st>>

Positions == 0 .. Len(job.src) - 1

LzbInit ==
  /\ head = [h \in 0 .. Buckets - 1 |-> 0]
  /\ chain = [p \in Positions |-> 0]
  /\ pos = 0 /\ anchor = 0
  /\ ip = 0 /\ dst = <<>>
  /\ st = OK

Least(a, b) == IF a <= b THEN a ELSE b

(* Byte number i, from 0. *)
At(s, i) == s[i + 1]

(* put_varint, of no more than SizeMax *)
Varint(v) ==
  CASE v < Base -> <<v>>
    [] v \in Base .. Base * Base - 1 -> <<Base + (v % Base), v \div Base>>
    [] OTHER -> <<Base + (v % Base), Base + ((v \div Base) % Base), v \div (Base * Base)>>

(* get_varint: the first byte without its high bit is the last.  A byte    *)
(* too many, or one too few, is an error; bits that do not fit are lost.   *)
GetVarint(s, i) ==
  LET ends == { k \in 0 .. MaxBytes - 1 : i + k < Len(s) /\ At(s, i + k) < Base }
      last == CHOOSE k \in ends : \A j \in ends : k <= j
      digit(k) == IF k <= last THEN At(s, i + k) % Base ELSE 0
  IN IF ends = {} THEN [ok |-> FALSE, next |-> i, v |-> 0]
     ELSE [ok |-> TRUE, next |-> i + last + 1,
           v |-> (digit(0) + Base * digit(1) + Base * Base * digit(2)) % (SizeMax + 1)]

-----------------------------------------------------------------------------
(* The compressor *)

(* hash4 of the bytes at p: some function of them, with collisions. *)
Hash(s, p) == LET f[k \in 0 .. MinMatch] == IF k = 0 THEN 0 ELSE f[k - 1] + At(s, p + k - 1)
              IN f[MinMatch] % Buckets

Hashable(s, p) == p + MinMatch <= Len(s)

(* match_len *)
MatchLen(a, i, b, j, limit) ==
  CHOOSE n \in 0 .. limit :
    /\ \A k \in 0 .. n - 1 : At(a, i + k) = At(b, j + k)
    /\ n < limit => At(a, i + n) # At(b, j + n)

NoMatch == [len |-> 0, dist |-> 0]

(* The longest of some matches, and the nearest of those as long, if it is *)
(* longer than the best so far.  (A match of the whole limit also ends the *)
(* search: none is longer.)                                                *)
Better(matches, best) ==
  LET len == Max({ m.len : m \in matches }) IN
  IF matches = {} \/ len <= best.len THEN best
  ELSE [len |-> len, dist |-> Min({ m.dist : m \in { n \in matches : n.len = len } })]

(* The candidates of the block itself: the positions that cand and its     *)
(* chain give, the latest first, while tries last.                         *)
Candidates(ch, cand, p, tries) ==
  LET walk[k \in 0 .. tries] ==
        IF k = 0 THEN cand ELSE IF walk[k - 1] \in 1 .. p THEN ch[walk[k - 1] - 1] ELSE 0
  IN { q \in 0 .. p - 1 : \E k \in 0 .. tries - 1 : walk[k] = q + 1 }

(* The candidates of the dictionary: the last positions with this hash.    *)
DictChain(h, tries) ==
  LET same == { q \in 0 .. Len(job.dict) - MinMatch : Hash(job.dict, q) = h } IN
  { q \in same : Cardinality({ r \in same : r > q }) < tries }

(* A match in the block, which may overlap p. *)
OwnMatch(q, p, limit) == [len |-> MatchLen(job.src, q, job.src, p, limit), dist |-> p - q]

(* A match in the dictionary, which ends where the dictionary does. *)
DictMatch(q, p, limit) ==
  [len |-> MatchLen(job.dict, q, job.src, p, Least(limit, Len(job.dict) - q)),
   dist |-> p + (Len(job.dict) - q)]

(* find_match *)
FindMatch(hd, ch, p) ==
  LET limit == Least(Len(job.src) - p, MaxMatch)
      h == Hash(job.src, p)
      own == Better({ OwnMatch(q, p, limit) : q \in Candidates(ch, hd[h], p, job.depth) }, NoMatch)
      both == IF Len(job.dict) >= MinMatch /\ own.len < limit
              THEN Better({ DictMatch(q, p, limit) : q \in DictChain(h, job.depth) }, own) ELSE own
  IN IF limit < MinMatch \/ both.len < MinMatch THEN NoMatch ELSE both

(* Positions p up to q, q excluded, enter their chains: each is behind the *)
(* latest before it with its hash.                                         *)
Insert(hd, ch, p, q) ==
  LET entered(i) == i \in p .. q - 1 /\ Hashable(job.src, i)
      latest(h, i) == LET same == { j \in p .. i - 1 : entered(j) /\ Hash(job.src, j) = h }
                      IN IF same = {} THEN hd[h] ELSE Max(same) + 1
  IN [head |-> [h \in DOMAIN hd |-> latest(h, q)],
      chain |-> [i \in DOMAIN ch |-> IF entered(i) THEN latest(Hash(job.src, i), i) ELSE ch[i]]]

(* Seeded fault: the longest code has no varint behind it when it fits.    *)
SeqBytesShort(lits, m) ==
  LET lit == Least(Len(lits), TopCode)
      mat == IF m.len = 0 THEN 0 ELSE Least(m.len - MinMatch, TopCode - 1) + 1
  IN <<lit * (TopCode + 1) + mat>>
     \o (IF Len(lits) > TopCode THEN Varint(Len(lits) - TopCode) ELSE <<>>)
     \o lits
     \o (IF m.len = 0 THEN <<>> ELSE Varint(m.dist))
     \o (IF mat = TopCode THEN Varint(m.len - MinMatch - (TopCode - 1)) ELSE <<>>)

(* emit_seq: a token, literals, and the match if there is one. *)
SeqBytes(lits, m) ==
  LET lit == Least(Len(lits), TopCode)
      mat == IF m.len = 0 THEN 0 ELSE Least(m.len - MinMatch, TopCode - 1) + 1
  IN <<lit * (TopCode + 1) + mat>>
     \o (IF lit = TopCode THEN Varint(Len(lits) - TopCode) ELSE <<>>)
     \o lits
     \o (IF m.len = 0 THEN <<>> ELSE Varint(m.dist))
     \o (IF mat = TopCode THEN Varint(m.len - MinMatch - (TopCode - 1)) ELSE <<>>)

(* The sequence is written, or does not fit. *)
EmitSeq(upto, m, next) ==
  LET more == packed \o SeqBytes(SubSeq(job.src, anchor + 1, upto), m) IN
  IF Len(more) <= job.room
  THEN packed' = more /\ phase' = next /\ st' = st
  ELSE packed' = packed /\ phase' = "refused" /\ st' = ErrDstTooSmall

(* No match here: the byte will be a literal. *)
Literal ==
  /\ phase = "compress"
  /\ Hashable(job.src, pos)
  /\ FindMatch(head, chain, pos) = NoMatch
  /\ LET c == Insert(head, chain, pos, pos + 1) IN head' = c.head /\ chain' = c.chain
  /\ pos' = pos + 1
  /\ UNCHANGED <<job, phase, anchor, packed, ip, dst, st>>

(* A match, unless the one at the next byte is longer by more than the     *)
(* literal that it costs.  The position searched first is entered before   *)
(* the second search, and again with the match.                            *)
Match ==
  LET first == FindMatch(head, chain, pos)
      lazy == Hashable(job.src, pos + 1)
      c == IF lazy THEN Insert(head, chain, pos, pos + 1) ELSE [head |-> head, chain |-> chain]
      second == IF lazy THEN FindMatch(c.head, c.chain, pos + 1) ELSE NoMatch
      later == second.len > first.len + 1
      m == IF later THEN second ELSE first
      p == IF later THEN pos + 1 ELSE pos
      d == Insert(c.head, c.chain, p, p + m.len)
  IN /\ phase = "compress"
     /\ Hashable(job.src, pos)
     /\ first # NoMatch
     /\ EmitSeq(p, m, "compress")
     /\ head' = d.head /\ chain' = d.chain
     /\ pos' = p + m.len
     /\ anchor' = p + m.len
     /\ UNCHANGED <<job, ip, dst>>

(* The rest are literals, in a sequence without a match. *)
Rest ==
  /\ phase = "compress"
  /\ ~Hashable(job.src, pos)
  /\ EmitSeq(Len(job.src), NoMatch, "compressed")
  /\ UNCHANGED <<job, encVars, ip, dst>>

-----------------------------------------------------------------------------
(* The decompressor *)

(* A byte from outside every buffer. *)
Wild == -1

Fetch(s, i) == IF i \in 0 .. Len(s) - 1 THEN At(s, i) ELSE Wild

(* The copy of a match inside dst, a byte at a time: a match longer than   *)
(* its distance repeats what it has copied.                                *)
CopyWithin(out, dist, n) ==
  out \o [i \in 1 .. n |-> Fetch(out, Len(out) - dist + ((i - 1) % dist))]

(* n bytes of the dictionary, from back bytes before its end. *)
FromDict(back, n) == [i \in 1 .. n |-> Fetch(job.dict, Len(job.dict) - back + i - 1)]

(* Seeded fault: all of a match that begins in the dictionary comes from   *)
(* there.                                                                  *)
CopyMatchStraight(out, dist, n) ==
  IF dist <= Len(out) THEN CopyWithin(out, dist, n) ELSE out \o FromDict(dist - Len(out), n)

(* A match that begins in the dictionary goes on at the start of dst. *)
CopyMatch(out, dist, n) ==
  IF dist <= Len(out) THEN CopyWithin(out, dist, n)
  ELSE LET back == dist - Len(out)
           more == out \o FromDict(back, Least(back, n))
       IN CopyWithin(more, Len(more), n - Least(back, n))

Turn(s, i, out, over) == [st |-> s, ip |-> i, dst |-> out, over |-> over]

(* Seeded fault: a distance that reaches too far is let through. *)
TooFarNever(dist, out) == FALSE

(* dist64 > op + dlen *)
TooFar(dist, out) == dist > Len(out) + Len(job.dict)

(* The match of a sequence, its distance at i. *)
DecodeMatch(s, i, out, code) ==
  LET d == GetVarint(s, i)
      e == IF code = TopCode THEN GetVarint(s, d.next)
           ELSE [ok |-> TRUE, next |-> d.next, v |-> 0]
      n == code - 1 + MinMatch + e.v
  IN IF \/ ~d.ok \/ d.v = 0
        \/ ~e.ok \/ e.v > SizeMax - (code - 1 + MinMatch)
        \/ TooFar(d.v, out)
     THEN Turn(ErrCorruptBlock, i, out, TRUE)
     ELSE IF n > job.cap - Len(out) THEN Turn(ErrDstTooSmall, i, out, TRUE)
     ELSE Turn(OK, e.next, CopyMatch(out, d.v, n), e.next = Len(s))

(* One sequence, from its token at i; without a match it is the last. *)
DecodeSeq(s, i, out) ==
  LET code == At(s, i) \div (TopCode + 1)
      e == IF code = TopCode THEN GetVarint(s, i + 1) ELSE [ok |-> TRUE, next |-> i + 1, v |-> 0]
      n == code + e.v
      lits == out \o SubSeq(s, e.next + 1, e.next + n)
      mat == At(s, i) % (TopCode + 1)
  IN IF ~e.ok \/ e.v > SizeMax - TopCode \/ n > Len(s) - e.next
     THEN Turn(ErrCorruptBlock, i, out, TRUE)
     ELSE IF n > job.cap - Len(out) THEN Turn(ErrDstTooSmall, i, out, TRUE)
     ELSE IF mat = 0 THEN Turn(OK, e.next + n, lits, TRUE)
     ELSE DecodeMatch(s, e.next + n, lits, mat)

Decompress ==
  LET t == DecodeSeq(packed, ip, dst) IN
  /\ phase = "decompress"
  /\ ip < Len(packed)
  /\ st' = t.st /\ ip' = t.ip /\ dst' = t.dst
  /\ phase' = IF t.over THEN "done" ELSE phase
  /\ UNCHANGED <<job, encVars, packed>>

(* Nothing to decode, and nothing decoded. *)
DecompressNothing ==
  /\ phase = "decompress"
  /\ packed = <<>>
  /\ phase' = "done"
  /\ UNCHANGED <<job, encVars, packed, ip, dst, st>>

=============================================================================
