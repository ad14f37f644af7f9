---------------------------- MODULE MCReaderOpen -----------------------------
(***************************************************************************)
(* Archives and options for ReaderOpen.  A file header is two bytes, every *)
(* other fixed structure one; a file offset has five bits.                 *)
(***************************************************************************)
EXTENDS ReaderOpen

MCCbufCap == [b \in 1 .. BlockMax |-> b + 2]

Entries(files, raws) == [i \in 1 .. Len(files) |-> [file |-> files[i], raw |-> raws[i]]]

(* Header, records up to the first block, blocks, an index of n bytes per   *)
(* entry behind them, footer.                                               *)
Archive(meta, ents) ==
  LET n == Len(ents)
      end == ents[n].file
  IN [size |-> end + RecHdr + Preamble + n * EntrySize + FtrSize, hst |-> OK, hsize |-> HdrSize, hraw |-> Unknown,
      bs |-> 2, codec |-> "ctx", dict |-> FALSE, fst |-> OK,
      ioff |-> end, isize |-> RecHdr + Preamble + n * EntrySize,
      index |-> [st |-> OK, tagged |-> TRUE, size |-> Preamble + n * EntrySize, count |-> n - 1,
                 total |-> ents[n].raw, ok |-> TRUE],
      ents |-> ents, meta |-> meta]

Opts(c, t, l) == [cache |-> c, threads |-> t, limit |-> l]
Case(f, o) == [file |-> f, opts |-> o]
One == Opts(1, 1, 0)

Plain == Archive(<<>>, Entries(<<2, 4, 5, 8>>, <<0, 2, 3, 5>>))

(* Every limit around the sizes of the buffers, for small and large pools. *)
Limits == { Case(Plain, Opts(c, t, l)) : c \in {0, 1, 3}, t \in {0, 1, 3}, l \in {0} \cup 4 .. 22 }

(* Footers that point anywhere. *)
Footers == { Case([Plain EXCEPT !.ioff = o, !.isize = s, !.index.size = IF s > RecHdr THEN s - RecHdr ELSE 0,
                               !.ents = SubSeq(@, 1, IF s > RecHdr + Preamble THEN s - RecHdr - Preamble ELSE 0),
                               !.index.count = IF s > RecHdr + Preamble THEN s - RecHdr - Preamble - 1 ELSE 0],
                  One) : o \in U64, s \in 0 .. 6 }

(* Index entries in every order and distance. *)
Indexes == { Case([Archive(<<>>, e) EXCEPT !.size = s], One) :
               e \in { Entries(<<f, g, h>>, <<a, b, c>>) : f \in {1, 2}, g \in {2, 3, 4}, h \in {3, 4, 6},
                                                         a \in {0, 1}, b \in {0, 1, 2}, c \in {1, 2, 7} },
               s \in {9, 12} }
           \cup { Case(Archive(<<>>, Entries(f, r)), One) : f \in {<<2>>}, r \in {<<0>>} }

(* Fields of header and index that contradict each other. *)
Fields == { Case(f, One) : f \in
  { [Plain EXCEPT !.size = 2], [Plain EXCEPT !.hst = ErrBadMagic], [Plain EXCEPT !.hsize = 1],
    [Plain EXCEPT !.hsize = 3], [Plain EXCEPT !.hraw = 5], [Plain EXCEPT !.hraw = 6],
    [Plain EXCEPT !.codec = "unknown"], [Plain EXCEPT !.codec = "plain"], [Plain EXCEPT !.dict = TRUE],
    [Plain EXCEPT !.fst = ErrCorruptFooter], [Plain EXCEPT !.index.st = ErrCorruptRecord],
    [Plain EXCEPT !.index.tagged = FALSE], [Plain EXCEPT !.index.count = 2], [Plain EXCEPT !.index.count = 30],
    [Plain EXCEPT !.index.total = 4], [Plain EXCEPT !.index.ok = FALSE] } }

Rec(tag, size) == [st |-> OK, size |-> size, ok |-> TRUE, tag |-> tag, critical |-> FALSE, pst |-> OK,
                   dst |-> OK, raw |-> 3]
Dict == Rec("dict", 1)
Records == { Dict, Rec("other", 0), Rec("eob", 0), Rec("other", 5), [Dict EXCEPT !.raw = 12],
             [Dict EXCEPT !.pst = ErrCorruptRecord], [Dict EXCEPT !.dst = ErrCorruptBlock],
             [Dict EXCEPT !.ok = FALSE], [Dict EXCEPT !.st = ErrCorruptRecord],
             [Rec("other", 1) EXCEPT !.critical = TRUE] }

(* None, one or two records in front of the blocks, which begin where the   *)
(* records end, too early, or too late.                                     *)
Metas ==
  { Case([Archive(m, Entries(<<f, f + 2>>, <<0, 2>>)) EXCEPT !.dict = d], Opts(1, 1, l)) :
      m \in {<<>>} \cup { <<a>> : a \in Records } \cup { <<a, b>> : a \in {Dict, Rec("other", 0)}, b \in Records },
      f \in {2, 3, 4, 6, 12}, d \in BOOLEAN, l \in {0, 11} }

MCCases == Limits \cup Footers \cup Indexes \cup Fields \cup Metas

=============================================================================
