--------------------------- MODULE MCStreamDecoder ---------------------------
(***************************************************************************)
(* Archives for StreamDecoder.  The lengths are the smallest that keep the *)
(* order of the real ones: a record header does not fit in what a refill   *)
(* leaves of the read buffer, a block is longer than the read buffer, and  *)
(* a call may end inside a block, at its end, or in a later one.           *)
(***************************************************************************)
EXTENDS StreamDecoder, TLC, SequencesExt

MCHeadLen == 2
MCMagicLen == 1
MCRecLen == 2
MCBlkLen == 2
MCRBufSize == 3
MCRawCap == 2

(* A unit before its place in the archive is known. *)
Plain(kind, body) ==
  [kind |-> kind, at |-> 0, hlen |-> HeaderLen(kind), body |-> body, ck |-> 0, raw |-> 0, off |-> 0,
   needs |-> FALSE, hst |-> OK, chk |-> OK, st |-> OK]
FileHead == Plain("head", 0)
Eob == Plain("eob", 0)
Block(stored, size, off) == [Plain("block", stored) EXCEPT !.ck = 1, !.raw = size, !.off = off]

(* The units one behind the other, each where the one before it ends. *)
Place(us) ==
  FoldLeft(LAMBDA f, u : Append(f, [u EXCEPT !.at = IF f = <<>> THEN 0 ELSE UnitEnd(Last(f))]), <<>>, us)

(* What an encoder writes: a dictionary, blocks, the end, and an index behind it. *)
Whole == Place(<<FileHead, Plain("dict", 1), [Block(2, 2, 0) EXCEPT !.needs = TRUE], Block(0, 1, 2), Eob,
                 Plain("skip", 1)>>)

(* A longer header, and a record in front of the blocks. *)
WithRecord == Place(<<[FileHead EXCEPT !.body = 1], Plain("skip", 4), Block(1, 1, 0), Block(1, 2, 1), Eob>>)

(* A block is lost, or the second begins before the first ends. *)
Gap == Place(<<FileHead, Block(1, 1, 0), Block(1, 1, 2), Eob>>)
Overlap == Place(<<FileHead, Block(1, 2, 0), Block(1, 2, 1), Eob>>)

(* The record says it is longer, and ends behind the next block; or shorter, *)
(* and what follows is no unit.                                              *)
SkipsBlock == LET f == Place(<<FileHead, Block(1, 1, 0), Plain("skip", 1), Block(1, 1, 1), Block(1, 1, 2), Eob>>)
              IN  [f EXCEPT ![3].body = 5]
SkipsEnd == LET f == Place(<<FileHead, Block(1, 1, 0), Plain("skip", 1), Block(1, 1, 1), Eob>>)
            IN  [f EXCEPT ![3].body = 5]
SkipsShort == LET f == Place(<<FileHead, Plain("skip", 3), Block(1, 1, 0), Eob>>)
              IN  [f EXCEPT ![2].body = 1]

(* One unit is damaged, or asks for more than is there. *)
Bad(u, field, s) == Place(<<FileHead, Block(1, 1, 0), [u EXCEPT ![field] = s], Eob>>)
Damaged ==
  { Bad(Block(1, 1, 1), "hst", ErrCorruptBlock), Bad(Block(1, 1, 1), "chk", ErrCorruptBlock),
    Bad(Block(1, 1, 1), "st", ErrCorruptBlock), Bad(Block(1, 1, 1), "needs", TRUE),
    Bad(Block(1, 1, 1), "raw", RawCap + 1),
    Bad(Plain("dict", 1), "st", ErrCorruptRecord), Bad(Plain("dict", 1), "chk", ErrMemlimit),
    Bad(Plain("skip", 1), "hst", ErrCorruptRecord), Bad(Plain("skip", 1), "chk", ErrUnsupportedFeature),
    Place(<<FileHead, Plain("dict", 1), Plain("dict", 1), Eob>>),
    Place(<<FileHead, Block(1, 1, 0), [Eob EXCEPT !.chk = ErrCorruptRecord]>>),
    Place(<<[FileHead EXCEPT !.hst = ErrCorruptHeader], Eob>>),
    Place(<<[FileHead EXCEPT !.st = ErrMemlimit], Eob>>) }

MCFiles == {Whole, WithRecord, Gap, Overlap, SkipsBlock, SkipsEnd, SkipsShort} \cup Damaged
MCTruncatedFiles == {Place(<<FileHead, Block(1, 1, 0), Block(1, 1, 1), Eob>>)}

=============================================================================
