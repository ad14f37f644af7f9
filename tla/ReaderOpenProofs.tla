-------------------------- MODULE ReaderOpenProofs ---------------------------
(***************************************************************************)
(* Opening an archive, for every archive and every memory limit: nothing   *)
(* outside the file is mapped, an open handle keeps what it promises, its  *)
(* buffers stay within twice the limit, the search finds the block, and    *)
(* closing frees what is alive, whichever step of opening failed.          *)
(***************************************************************************)
EXTENDS ReaderOpen, WellFoundedInduction, TLAPS

-----------------------------------------------------------------------------
(* The first entry past an offset: a set of naturals has a least element. *)
LEMMA NatMin ==
  ASSUME NEW S \in SUBSET Nat, S # {}
  PROVE  \E m \in S : \A k \in S : m <= k
<1> DEFINE R == {ss \in Nat \X Nat : ss[1] < ss[2]}
<1>1. IsWellFoundedOn(R, Nat)
  BY NatLessThanWellFounded DEF OpToRel
<1>2. \A k, m \in Nat : k < m => <<k, m>> \in R
  OBVIOUS
<1> HIDE DEF R
<1>3. PICK m \in S : \A k \in S : ~(<<k, m>> \in R)
  BY <1>1, WFMin
<1>4. \A k \in S : ~(k < m)
  BY <1>2, <1>3
<1> QED BY <1>4

(* Sizes are counted in entries, windows and blocks: quotient and          *)
(* remainder.                                                              *)
LEMMA DivMod ==
  ASSUME NEW a \in Nat, NEW b \in Nat \ {0}
  PROVE  a \div b \in Nat /\ a % b \in 0 .. b - 1 /\ a = b * (a \div b) + (a % b)
OBVIOUS

(* Dividing gives no more than fits. *)
LEMMA DivBound ==
  ASSUME NEW a \in Nat, NEW b \in Nat \ {0}
  PROVE  a \div b \in Nat /\ (a \div b) * b <= a
BY DivMod

(* Multiplying and dividing again changes nothing. *)
LEMMA DivExact ==
  ASSUME NEW a \in Nat, NEW b \in Nat \ {0}
  PROVE  (a * b) \div b = a
<1>1. PICK x \in Nat : x = a * b
  OBVIOUS
<1>2. PICK q \in Nat : q = x \div b
  BY DivMod
<1>3. PICK r \in 0 .. b - 1 : x = b * q + r
  BY <1>2, DivMod
<1>4. (a - q) * b = r
  BY <1>1, <1>3
<1>5. ~(a - q >= 1)
  <2> SUFFICES ASSUME a - q >= 1 PROVE FALSE
    OBVIOUS
  <2>1. (a - q) * b >= b
    OBVIOUS
  <2> QED BY <2>1, <1>4
<1>6. ~(a - q <= -1)
  <2> SUFFICES ASSUME a - q <= -1 PROVE FALSE
    OBVIOUS
  <2>1. (a - q) * b <= -b
    OBVIOUS
  <2> QED BY <2>1, <1>4
<1> QED BY <1>1, <1>2, <1>5, <1>6

(* Multiplying keeps the order. *)
LEMMA MulMono ==
  ASSUME NEW a \in Nat, NEW b \in Nat, NEW c \in Nat, a <= b
  PROVE  a * c <= b * c
OBVIOUS

Before == {"new", "tail", "ctx", "index", "check", "meta", "record", "setup"}
Indexed == {"meta", "record", "setup", "alloc", "open", "find"}
Sized == {"alloc", "open", "find"}

(* What the functions that have returned XQ_OK have checked. *)
TailInv == pc \in {"ctx", "index", "check"} => TailStatus = OK
MapInv == pc = "check" => MapIndexStatus = OK
IndexGood == ~IndexBad(file.index.count)
IndexInv ==
  pc \in Indexed =>
    /\ IndexGood
    /\ nentries = file.index.count + 1 /\ nentries = Len(file.ents)
    /\ file.hraw \in {Unknown, file.index.total}
MetaInv ==
  /\ pc \in {"record", "setup"} \cup Sized => file.hsize <= FileOf(0)
  /\ pc \in {"setup"} \cup Sized => (file.dict /\ Region > 0 => dict # 0)
  /\ pc \notin {"close", "closed"} => ddict = dict

(* Which counts xq_reader_close goes by. *)
CountInv ==
  /\ rec # 0
  /\ pc \in Before => cache_n = 0 /\ slots_n = 0 /\ allocs = 0
  /\ pc = "alloc" /\ allocs >= 2 + ncache => cache_n = ncache
  /\ pc \in {"open", "find"} => cache_n = ncache /\ slots_n = nslots

(* The cache and the slots each keep the limit. *)
BufInv ==
  pc \in Sized /\ opts.limit # 0 =>
    /\ Overhead <= opts.limit
    /\ Cap + ncache * file.bs <= opts.limit
    /\ nslots * SlotBytes <= opts.limit

(* The byte asked for lies between the entries lo and hi. *)
FindInv ==
  pc = "find" =>
    /\ lo < hi /\ hi < nentries
    /\ RawOf(lo) <= off /\ off < RawOf(hi)

IInv ==
  /\ TypeOK /\ MapsInFile
  /\ TailInv /\ MapInv /\ IndexInv /\ MetaInv
  /\ CountInv /\ BufInv /\ FindInv

-----------------------------------------------------------------------------
(* What the checks of each function leave *)

(* The fields of an archive are in their ranges. *)
LEMMA FileFacts ==
  ASSUME TypeOK
  PROVE  /\ file.size \in Nat /\ file.hst \in HeaderStatuses /\ file.hsize \in Nat
         /\ file.bs \in 1 .. BlockMax /\ file.fst \in {OK, ErrCorruptFooter}
         /\ file.ioff \in Nat /\ file.isize \in Nat
         /\ file.index.st \in {OK, ErrCorruptRecord} /\ file.index.size \in Nat
         /\ file.index.count \in Nat /\ file.index.total \in Nat
         /\ Cap \in Nat \ {0}
<1>1. IsFile(file) /\ file.index \in Index
  BY DEF TypeOK, IsFile
<1>2. U64 \subseteq Nat
  BY SizesAssumption DEF U64
<1>3. Cap \in Nat \ {0}
  BY <1>1, SizesAssumption DEF Cap, IsFile
<1> QED BY <1>1, <1>2, <1>3 DEF IsFile, Index

(* An entry of the index holds two offsets. *)
LEMMA EntryFacts ==
  ASSUME TypeOK, NEW i \in 0 .. Len(file.ents) - 1
  PROVE  RawOf(i) \in Nat /\ FileOf(i) \in Nat
<1>1. file.ents \in Seq(Entry) /\ i + 1 \in 1 .. Len(file.ents)
  BY DEF TypeOK, IsFile
<1>2. file.ents[i + 1] \in Entry
  BY <1>1
<1> QED BY <1>2, SizesAssumption DEF Entry, U64, RawOf, FileOf

(* A footer that parses points at no index or at one that has its preamble. *)
LEMMA FooterFacts ==
  ASSUME TypeOK
  PROVE  /\ FooterStatus \in Statuses
         /\ FooterStatus = OK => file.ioff = 0 \/ file.isize >= RecHdr + Preamble
<1>1. file.fst \in {OK, ErrCorruptFooter}
  BY FileFacts
<1>2. FooterStatus \in {OK, ErrCorruptFooter}
  BY <1>1 DEF FooterStatus, When, ++
<1>3. {OK, ErrCorruptFooter} \subseteq Statuses
  BY DEF Statuses
<1>4. FooterStatus = OK => file.ioff = 0 \/ file.isize >= RecHdr + Preamble
  BY FileFacts, SizesAssumption DEF FooterStatus, When, ++, OK, ErrCorruptFooter
<1> QED BY <1>2, <1>3, <1>4

(* load_tail lets an index pass that lies in front of the footer. *)
LEMMA TailFacts ==
  ASSUME TypeOK
  PROVE  /\ TailStatus \in Statuses
         /\ TailStatus = OK => /\ file.isize >= RecHdr + Preamble
                               /\ file.ioff + file.isize <= file.size
<1>1. HeaderStatuses \subseteq Statuses
  BY DEF HeaderStatuses, Statuses
<1>2. file.size - FtrSize \in Int /\ file.ioff \in Nat /\ file.isize \in Nat
  BY FileFacts, SizesAssumption
<1>3. TailStatus \in Statuses
  BY <1>1, FileFacts, FooterFacts DEF TailStatus, When, ++, Statuses, ErrTruncated, ErrCorruptHeader, ErrCorruptIndex
<1>4. TailStatus = OK => /\ FooterStatus = OK /\ file.ioff # 0
                         /\ RangeOk(file.ioff, file.isize, file.size - FtrSize)
  BY DEF TailStatus, When, ++, OK, ErrCorruptIndex
<1>5. RangeOk(file.ioff, file.isize, file.size - FtrSize) => file.ioff + file.isize <= file.size
  <2>1. file.size \in Nat /\ FtrSize \in Nat
    BY FileFacts, SizesAssumption
  <2> QED BY <1>2, <2>1 DEF RangeOk
<1>6. FooterStatus = OK /\ file.ioff # 0 => file.isize >= RecHdr + Preamble
  BY FooterFacts
<1> QED BY <1>3, <1>4, <1>5, <1>6

(* load_index maps the payload that the record announces. *)
LEMMA MapIndexFacts ==
  ASSUME TypeOK
  PROVE  /\ MapIndexStatus \in Statuses
         /\ MapIndexStatus = OK => /\ file.index.size = file.isize - RecHdr
                                   /\ file.index.size >= Preamble
<1>1. file.index.st \in {OK, ErrCorruptRecord}
  BY FileFacts
<1>2. MapIndexStatus \in {OK, ErrCorruptRecord, ErrCorruptIndex}
  BY <1>1 DEF MapIndexStatus, When, ++
<1>3. {OK, ErrCorruptRecord, ErrCorruptIndex} \subseteq Statuses
  BY DEF Statuses
<1>4. MapIndexStatus = OK => /\ file.index.size = file.isize - RecHdr
                            /\ ~(file.index.size < Preamble)
  BY DEF MapIndexStatus, When, ++, OK, ErrCorruptIndex
<1>5. file.index.size \in Nat /\ Preamble \in Nat
  BY FileFacts, SizesAssumption
<1> QED BY <1>2, <1>3, <1>4, <1>5

(* load_meta goes on when the blocks begin behind the header. *)
LEMMA MapMetaFacts ==
  ASSUME TypeOK, Len(file.ents) > 0
  PROVE  /\ MapMetaStatus \in Statuses
         /\ MapMetaStatus = OK => file.hsize <= FileOf(0)
<1>1. FileOf(0) \in Nat
  BY EntryFacts, SizesAssumption DEF TypeOK, IsFile
<1> QED BY <1>1, FileFacts, SizesAssumption
        DEF MapMetaStatus, When, ++, Statuses, OK, ErrCorruptRecord, ErrCorruptIndex, ErrMemlimit

(* A record that passes has its payload in the region. *)
LEMMA RecordFacts ==
  ASSUME TypeOK, rec # 0
  PROVE  /\ RecordStatus \in Statuses
         /\ Here.size \in Nat
         /\ Here.dst \in Statuses
         /\ RecordStatus = OK => Here.size <= remain - RecHdr
         /\ Here.tag = "dict" => rec \in 1 .. Len(file.meta)
<1>1. Here.st \in {OK, ErrCorruptRecord} /\ Here.size \in Nat
      /\ Here.pst \in {OK, ErrCorruptRecord, ErrUnsupportedFeature} /\ Here.dst \in Statuses
      /\ (Here.tag = "dict" => rec \in 1 .. Len(file.meta))
  <2>1. file.meta \in Seq(Record) /\ rec \in Nat
    BY DEF TypeOK, IsFile
  <2>2. CASE rec <= Len(file.meta)
    <3>1. file.meta[rec] \in Record /\ Here = file.meta[rec] /\ rec \in 1 .. Len(file.meta)
      BY <2>1, <2>2 DEF Here
    <3> QED BY <3>1, SizesAssumption DEF Record, U64, Statuses
  <2>3. CASE ~(rec <= Len(file.meta))
    BY <2>3 DEF Here, Statuses
  <2> QED BY <2>2, <2>3
<1>2. RecordStatus \in Statuses
  BY <1>1 DEF RecordStatus, When, ++, Statuses, OK, ErrCorruptRecord, ErrUnsupportedFeature, ErrMemlimit
<1>3. RecordStatus = OK => ~(Here.size > remain - RecHdr)
  BY <1>1 DEF RecordStatus, When, ++, OK, ErrCorruptRecord
<1>4. remain \in Nat
  BY DEF TypeOK
<1> QED BY <1>1, <1>2, <1>3, <1>4, SizesAssumption

(* What xq_fmt_index_validate guarantees of neighbours, and at both ends. *)
LEMMA IndexFacts ==
  ASSUME TypeOK, IndexGood, Len(file.ents) = file.index.count + 1
  PROVE  /\ file.index.count >= 1
         /\ RawOf(0) = 0 /\ RawOf(file.index.count) = file.index.total
         /\ \A i \in 1 .. file.index.count : RawOf(i - 1) < RawOf(i) /\ FileOf(i - 1) + BlkHdr <= FileOf(i)
         /\ \A i \in 0 .. file.index.count : FileOf(i) <= file.size
<1> DEFINE n == file.index.count
<1>1. n \in Nat /\ file.size \in Nat /\ BlkHdr \in Nat
  BY FileFacts, SizesAssumption
<1>2. \A i \in 0 .. n : RawOf(i) \in Nat /\ FileOf(i) \in Nat
  BY <1>1, EntryFacts
<1>3. n >= 1 /\ RawOf(0) = 0 /\ RawOf(n) = file.index.total /\ \A i \in 1 .. n : ~StepBad(i)
  BY <1>1 DEF IndexGood, IndexBad
<1>4. \A i \in 1 .. n : i - 1 \in 0 .. n /\ i \in 0 .. n
  BY <1>1
<1>5. \A i \in 1 .. n : /\ RawOf(i - 1) < RawOf(i) /\ FileOf(i - 1) + BlkHdr <= FileOf(i)
                        /\ FileOf(i - 1) < FileOf(i) /\ FileOf(i) <= file.size
  <2> TAKE i \in 1 .. n
  <2>1. ~StepBad(i)
    BY <1>3
  <2>2. RawOf(i) \in Nat /\ FileOf(i) \in Nat /\ RawOf(i - 1) \in Nat /\ FileOf(i - 1) \in Nat
    BY <1>2, <1>4
  <2> QED BY SMTT(30), <1>1, <2>1, <2>2 DEF StepBad
<1>6. \A i \in 0 .. n : FileOf(i) <= file.size
  <2>1. FileOf(0) < FileOf(1) /\ FileOf(1) <= file.size
    <3>1. 1 \in 1 .. n
      BY <1>1, <1>3
    <3> QED BY <3>1, <1>5
  <2>2. FileOf(0) \in Nat /\ FileOf(1) \in Nat
    BY <1>1, <1>2, <1>3
  <2>3. \A i \in 0 .. n : i = 0 \/ i \in 1 .. n
    BY <1>1
  <2> QED BY <1>1, <1>5, <2>1, <2>2, <2>3
<1> QED BY <1>3, <1>5, <1>6

(* What holds of neighbours holds of any two entries. *)
LEMMA IndexOrder ==
  ASSUME TypeOK, IndexGood, Len(file.ents) = file.index.count + 1,
         NEW i \in 0 .. file.index.count, NEW j \in 0 .. file.index.count, i < j
  PROVE  RawOf(i) < RawOf(j) /\ FileOf(i) + BlkHdr <= FileOf(j)
<1> DEFINE n == file.index.count
           Right(k) == RawOf(i) < RawOf(k) /\ FileOf(i) + BlkHdr <= FileOf(k)
           Wrong == { k \in 0 .. n : i < k /\ ~Right(k) }
<1>1. n \in Nat /\ BlkHdr \in Nat /\ i \in Nat /\ j \in Nat
  BY FileFacts, SizesAssumption
<1>2. \A k \in 0 .. n : RawOf(k) \in Nat /\ FileOf(k) \in Nat
  BY <1>1, EntryFacts
<1>3. \A k \in 1 .. n : RawOf(k - 1) < RawOf(k) /\ FileOf(k - 1) + BlkHdr <= FileOf(k)
  BY IndexFacts
<1>4. SUFFICES ASSUME ~Right(j) PROVE FALSE
  OBVIOUS
<1>5. Wrong \in SUBSET Nat /\ Wrong # {}
  BY <1>1, <1>4
<1>6. PICK m \in Wrong : \A k \in Wrong : m <= k
  BY <1>5, NatMin
<1>7. m \in 1 .. n /\ m - 1 \in 0 .. n /\ i < m /\ ~Right(m)
  BY <1>1, <1>6
<1>8. RawOf(m - 1) < RawOf(m) /\ FileOf(m - 1) + BlkHdr <= FileOf(m)
  BY <1>3, <1>7
<1>9. CASE m - 1 = i
  BY <1>7, <1>8, <1>9
<1>10. CASE m - 1 # i
  <2>1. i < m - 1 /\ ~(m <= m - 1)
    BY <1>1, <1>7, <1>10
  <2>2. Right(m - 1)
    BY <1>6, <1>7, <2>1
  <2>3. /\ RawOf(i) \in Nat /\ RawOf(m - 1) \in Nat /\ RawOf(m) \in Nat
        /\ FileOf(i) \in Nat /\ FileOf(m - 1) \in Nat /\ FileOf(m) \in Nat
    BY <1>2, <1>7
  <2> QED BY <1>1, <1>7, <1>8, <2>2, <2>3
<1> QED BY <1>9, <1>10

-----------------------------------------------------------------------------
(* The archive and the options never change. *)

(* What is computed from the archive and the options alone stays as it is. *)
LEMMA Static ==
  ASSUME UNCHANGED caseVars
  PROVE  /\ TailStatus' = TailStatus /\ MapIndexStatus' = MapIndexStatus
         /\ IndexGood' <=> IndexGood
         /\ Region' = Region /\ Cap' = Cap /\ SlotBytes' = SlotBytes /\ Overhead' = Overhead
<1>1. file' = file /\ opts' = opts
  BY DEF caseVars
<1>2. TailStatus' = TailStatus
  BY <1>1 DEF TailStatus, FooterStatus, RangeOk
<1>3. MapIndexStatus' = MapIndexStatus
  BY <1>1 DEF MapIndexStatus
<1>4. IndexGood' <=> IndexGood
  BY <1>1 DEF IndexGood, IndexBad, StepBad, RawOf, FileOf
<1>5. Region' = Region
  BY <1>1 DEF Region, FileOf
<1>6. Cap' = Cap /\ SlotBytes' = SlotBytes /\ Overhead' = Overhead
  BY <1>1 DEF Cap, SlotBytes, Overhead
<1> QED BY <1>2, <1>3, <1>4, <1>5, <1>6

(* A step that fails leaves what close needs, or drops the pointer to the  *)
(* handle of a dictionary.                                                 *)
LEMMA FailDict ==
  ASSUME IInv, NEW s \in Statuses, Fail(s), ddict' \in {0, ddict},
         UNCHANGED <<caseVars, maps, nentries, rec, remain, dict, sizeVars, allocs, cache_n,
                     slots_n, findVars>>,
         oom' \in BOOLEAN
  PROVE  IInv'
<1>1. TypeOK'
  <2>1. ddict' \in 0 .. Len(file.meta)
    BY DEF IInv, TypeOK, IsFile
  <2> QED BY <2>1 DEF IInv, TypeOK, Fail, Pc, caseVars, sizeVars, findVars
<1>2. MapsInFile'
  BY DEF IInv, MapsInFile, caseVars
<1>3. pc' = "close" /\ rec' # 0
  BY DEF IInv, CountInv, Fail
<1> QED BY <1>1, <1>2, <1>3
        DEF IInv, TailInv, MapInv, IndexInv, MetaInv, CountInv, BufInv, FindInv, Before, Indexed, Sized

(* Most steps leave the pointer, too. *)
LEMMA FailIInv ==
  ASSUME IInv, NEW s \in Statuses, Fail(s),
         UNCHANGED <<caseVars, maps, nentries, metaVars, sizeVars, allocs, cache_n, slots_n, findVars>>,
         oom' \in BOOLEAN
  PROVE  IInv'
BY FailDict DEF metaVars

(* Before anything is opened. *)
LEMMA InitIInv == Init => IInv
<1> SUFFICES ASSUME Init PROVE IInv
  OBVIOUS
<1>1. IsFile(file) /\ IsOpts(opts)
  BY CasesAssumption DEF Init
<1>2. Len(file.ents) \in Nat /\ Len(file.meta) \in Nat
  BY <1>1 DEF IsFile
<1>3. TypeOK
  <2>1. st \in Statuses /\ pc \in Pc
    BY DEF Init, Pc, Statuses
  <2>2. MaxFinds \in Nat
    BY SizesAssumption
  <2>3. nentries \in 0 .. Len(file.ents) /\ dict \in 0 .. Len(file.meta)
        /\ ddict \in 0 .. Len(file.meta) /\ finds \in 0 .. MaxFinds
    BY <1>2, <2>2 DEF Init
  <2>4. /\ rec \in Nat /\ remain \in Nat /\ ncache \in Nat \ {0} /\ nslots \in Nat \ {0}
        /\ cache_n \in {0, ncache} /\ slots_n \in {0, nslots} /\ allocs \in Nat
        /\ off \in Nat /\ lo \in Nat /\ hi \in Nat
    BY DEF Init
  <2>5. oom \in BOOLEAN
    BY DEF Init
  <2> QED BY <1>1, <2>1, <2>3, <2>4, <2>5 DEF TypeOK
<1>4. MapsInFile
  BY DEF Init, MapsInFile
<1> QED BY <1>3, <1>4
        DEF Init, IInv, TailInv, MapInv, IndexInv, MetaInv, CountInv, BufInv, FindInv, Before, Indexed, Sized

(* A step that only moves on keeps the types and the mappings. *)
LEMMA MoveTypes ==
  ASSUME IInv, pc' \in Pc,
         UNCHANGED <<caseVars, st, maps, nentries, metaVars, sizeVars, bufVars, findVars>>
  PROVE  TypeOK' /\ MapsInFile'
<1>1. TypeOK'
  BY DEF IInv, TypeOK, caseVars, metaVars, sizeVars, bufVars, findVars
<1>2. MapsInFile'
  BY DEF IInv, MapsInFile, caseVars
<1> QED BY <1>1, <1>2

(* The handle and the descriptor. *)
LEMMA OpenFileIInv == IInv /\ OpenFile => IInv'
<1> SUFFICES ASSUME IInv, OpenFile PROVE IInv'
  OBVIOUS
<1>1. oom' \in BOOLEAN
  BY DEF IInv, TypeOK, OpenFile, bufVars
<1>2. CASE pc' = "tail" /\ st' = st
  <2>1. TypeOK' /\ MapsInFile'
    BY <1>2, MoveTypes DEF OpenFile, Pc
  <2> QED BY <1>2, <2>1
          DEF IInv, OpenFile, TailInv, MapInv, IndexInv, MetaInv, CountInv, BufInv, FindInv,
              Before, Indexed, Sized, metaVars, bufVars
<1>3. ASSUME NEW s \in {ErrInternal, ErrIO}, Fail(s) PROVE IInv'
  <2>1. s \in Statuses
    BY DEF Statuses
  <2> QED BY <1>1, <1>3, <2>1, FailIInv DEF OpenFile, bufVars
<1>4. CASE st' = ErrOOM /\ pc' = "closed"
  <2>1. TypeOK'
    BY <1>1, <1>4 DEF IInv, OpenFile, TypeOK, Statuses, Pc, caseVars, metaVars, sizeVars, bufVars, findVars
  <2>2. MapsInFile'
    BY DEF IInv, OpenFile, MapsInFile, caseVars
  <2> QED BY <1>4, <2>1, <2>2
          DEF IInv, OpenFile, TailInv, MapInv, IndexInv, MetaInv, CountInv, BufInv, FindInv,
              Before, Indexed, Sized, metaVars
<1> QED BY <1>2, <1>3, <1>4 DEF OpenFile

(* A read that fails. *)
LEMMA ReadFailsIInv == IInv /\ ReadFails => IInv'
<1> SUFFICES ASSUME IInv, ReadFails PROVE IInv'
  OBVIOUS
<1>1. oom' \in BOOLEAN
  BY DEF IInv, TypeOK, ReadFails, bufVars
<1>2. PICK s \in {ErrIO, ErrTruncated} : Fail(s)
  BY DEF ReadFails
<1>3. s \in Statuses
  BY DEF Statuses
<1> QED BY <1>1, <1>2, <1>3, FailIInv DEF ReadFails, bufVars

(* load_tail. *)
LEMMA LoadTailIInv == IInv /\ LoadTail => IInv'
<1> SUFFICES ASSUME IInv, LoadTail PROVE IInv'
  OBVIOUS
<1>1. oom' \in BOOLEAN
  BY DEF IInv, TypeOK, LoadTail, bufVars
<1>2. CASE TailStatus = OK
  <2>1. TypeOK' /\ MapsInFile'
    BY <1>2, MoveTypes DEF LoadTail, Pc
  <2>2. TailStatus' = OK
    BY <1>2, Static DEF LoadTail
  <2> QED BY <1>2, <2>1, <2>2
          DEF IInv, LoadTail, TailInv, MapInv, IndexInv, MetaInv, CountInv, BufInv, FindInv,
              Before, Indexed, Sized, metaVars, bufVars
<1>3. CASE TailStatus # OK
  BY <1>1, <1>3, TailFacts, FailIInv DEF IInv, LoadTail, bufVars
<1> QED BY <1>2, <1>3

(* The context of the codec. *)
LEMMA ContextIInv == IInv /\ Context => IInv'
<1> SUFFICES ASSUME IInv, Context PROVE IInv'
  OBVIOUS
<1>1. oom' \in BOOLEAN
  BY DEF IInv, TypeOK, Context, bufVars
<1>2. CASE pc' = "index" /\ st' = st
  <2>1. TypeOK' /\ MapsInFile'
    BY <1>2, MoveTypes DEF Context, Pc
  <2>2. TailStatus' = OK
    BY Static DEF IInv, Context, TailInv
  <2> QED BY <1>2, <2>1, <2>2
          DEF IInv, Context, TailInv, MapInv, IndexInv, MetaInv, CountInv, BufInv, FindInv,
              Before, Indexed, Sized, metaVars, bufVars
<1>3. ASSUME NEW s \in {ErrUnsupportedCodec, ErrOOM}, Fail(s) PROVE IInv'
  <2>1. s \in Statuses
    BY DEF Statuses
  <2> QED BY <1>1, <1>3, <2>1, FailIInv DEF Context, bufVars
<1> QED BY <1>2, <1>3 DEF Context

(* The payload that load_index maps lies in front of the footer. *)
LEMMA MapIndexIInv == IInv /\ MapIndex => IInv'
<1> SUFFICES ASSUME IInv, MapIndex PROVE IInv'
  OBVIOUS
<1>1. oom' \in BOOLEAN
  BY DEF IInv, TypeOK, MapIndex, bufVars
<1>2. CASE MapIndexStatus = OK
  <2>1. TypeOK'
    BY <1>1, <1>2 DEF IInv, MapIndex, TypeOK, Pc, caseVars, metaVars, sizeVars, bufVars, findVars
  <2>2. TailStatus = OK
    BY DEF IInv, MapIndex, TailInv
  <2>3. (file.ioff + RecHdr) + file.index.size <= file.size
    <3>1. /\ file.isize >= RecHdr + Preamble /\ file.ioff + file.isize <= file.size
          /\ file.index.size = file.isize - RecHdr
      BY <1>2, <2>2, TailFacts, MapIndexFacts DEF IInv
    <3>2. /\ file.isize \in Nat /\ file.ioff \in Nat /\ file.size \in Nat
          /\ RecHdr \in Nat /\ Preamble \in Nat
      BY FileFacts, SizesAssumption DEF IInv
    <3> QED BY <3>1, <3>2
  <2>4. MapsInFile'
    BY <1>2, <2>3 DEF IInv, MapIndex, MapsInFile, caseVars
  <2>5. TailStatus' = OK /\ MapIndexStatus' = OK
    BY <1>2, <2>2, Static DEF MapIndex
  <2> QED BY <1>2, <2>1, <2>4, <2>5
          DEF IInv, MapIndex, TailInv, MapInv, IndexInv, MetaInv, CountInv, BufInv, FindInv,
              Before, Indexed, Sized, metaVars, bufVars
<1>3. CASE MapIndexStatus # OK
  BY <1>1, <1>3, MapIndexFacts, FailIInv DEF IInv, MapIndex, bufVars
<1> QED BY <1>2, <1>3

(* The entries that load_index reads are those the mapping holds. *)
LEMMA EntriesFit ==
  ASSUME TypeOK, PayloadSize(file.index.count) # 0, PayloadSize(file.index.count) = file.index.size
  PROVE  /\ Len(file.ents) = file.index.count + 1
         /\ Preamble + (file.index.count + 1) * EntrySize = file.index.size
<1>1. PICK n \in Nat : n = file.index.count + 1
  BY FileFacts
<1>2. EntrySize \in Nat \ {0} /\ Preamble \in Nat \ {0} /\ n * EntrySize \in Nat
  BY <1>1, SizesAssumption
<1>3. file.index.size = n * EntrySize + Preamble
  BY <1>1 DEF PayloadSize
<1>4. Len(file.ents) = (file.index.size - Preamble) \div EntrySize
  <2>1. ~(file.index.size < Preamble)
    BY <1>2, <1>3
  <2> QED BY <2>1 DEF TypeOK, IsFile
<1>5. file.index.size - Preamble = n * EntrySize
  BY <1>2, <1>3
<1>6. Len(file.ents) = n
  BY <1>1, <1>2, <1>4, <1>5, DivExact
<1> QED BY <1>1, <1>2, <1>3, <1>6

(* The checks of the index. *)
LEMMA CheckIndexIInv == IInv /\ CheckIndex => IInv'
<1> SUFFICES ASSUME IInv, CheckIndex PROVE IInv'
  OBVIOUS
<1> DEFINE want == PayloadSize(file.index.count)
<1>1. oom' \in BOOLEAN
  BY DEF IInv, TypeOK, CheckIndex, bufVars
<1>2. CASE want = 0 \/ want # file.index.size \/ ~file.index.ok
  <2>1. ErrCorruptIndex \in Statuses
    BY DEF Statuses
  <2> QED BY <1>1, <1>2, <2>1, FailIInv DEF CheckIndex, bufVars
<1>3. CASE ~(want = 0 \/ want # file.index.size \/ ~file.index.ok)
  <2>1. /\ Len(file.ents) = file.index.count + 1
        /\ Preamble + (file.index.count + 1) * EntrySize = file.index.size
    BY <1>3, EntriesFit DEF IInv
  <2>2. nentries' = file.index.count + 1 /\ file' = file
    BY <1>3 DEF CheckIndex, caseVars
  <2>3. nentries' \in 0 .. Len(file'.ents)
    BY SMTT(30), <2>1, <2>2, FileFacts DEF IInv
  <2>4. \/ pc' = "close" /\ st' = ErrCorruptIndex
        \/ /\ pc' = "meta" /\ st' = st /\ IndexGood
           /\ file.hraw \in {Unknown, file.index.total}
    BY <1>3 DEF CheckIndex, Fail, IndexGood
  <2>5. pc' \in Pc /\ st' \in Statuses
    BY <2>4 DEF IInv, TypeOK, Pc, Statuses
  <2>6. TypeOK'
    BY <1>1, <2>3, <2>5 DEF IInv, CheckIndex, TypeOK, caseVars, metaVars, sizeVars, bufVars, findVars
  <2>7. MapsInFile'
    BY SMTT(30), <2>1, <2>2, FileFacts, SizesAssumption DEF IInv, CheckIndex, MapsInFile
  <2>8. IndexGood' <=> IndexGood
    BY Static DEF CheckIndex
  <2>9. IndexInv'
    BY <2>1, <2>2, <2>4, <2>8 DEF IndexInv, Indexed
  <2> QED BY <2>4, <2>6, <2>7, <2>9
          DEF IInv, CheckIndex, TailInv, MapInv, MetaInv, CountInv, BufInv, FindInv,
              Before, Sized, metaVars, bufVars
<1> QED BY <1>2, <1>3

-----------------------------------------------------------------------------
(* load_meta *)

(* Where the index is good, its first entry exists. *)
LEMMA FirstFacts ==
  ASSUME IInv, pc \in Indexed
  PROVE  /\ Len(file.ents) > 0 /\ FileOf(0) \in Nat /\ Region \in Int
         /\ IndexInv /\ IndexGood /\ Len(file.ents) = file.index.count + 1
         /\ nentries = file.index.count + 1
<1>1. Len(file.ents) = file.index.count + 1 /\ IndexGood /\ IndexInv /\ nentries = file.index.count + 1
  BY DEF IInv, IndexInv
<1>2. Len(file.ents) > 0 /\ 0 \in 0 .. Len(file.ents) - 1
  BY <1>1, FileFacts DEF IInv
<1>3. FileOf(0) \in Nat
  BY <1>2, EntryFacts DEF IInv
<1> QED BY <1>1, <1>2, <1>3, FileFacts DEF IInv, Region

(* The index stays good while nothing of the archive changes. *)
LEMMA KeepIndex ==
  ASSUME IInv, pc \in Indexed, UNCHANGED <<caseVars, nentries>>
  PROVE  IndexInv'
<1>1. IndexGood' <=> IndexGood
  BY Static
<1> QED BY <1>1 DEF IInv, IndexInv, caseVars

(* The records are mapped in front of the first block. *)
LEMMA MapMetaIInv == IInv /\ MapMeta => IInv'
<1> SUFFICES ASSUME IInv, MapMeta PROVE IInv'
  OBVIOUS
<1>1. pc = "meta" /\ pc \in Indexed /\ pc' = "record"
  BY DEF MapMeta, Indexed
<1>2. MapMetaStatus = OK /\ Region > 0
  BY DEF MapMeta
<1>3. file.hsize <= FileOf(0) /\ Region \in Nat
  BY <1>1, <1>2, FirstFacts, MapMetaFacts DEF IInv
<1>4. FileOf(0) <= file.size
  <2>1. 0 \in 0 .. file.index.count
    BY FileFacts DEF IInv
  <2> QED BY <1>1, <2>1, FirstFacts, IndexFacts DEF IInv
<1>5. file.hsize + Region <= file.size
  <2>1. file.hsize \in Nat /\ FileOf(0) \in Nat
    BY <1>1, FirstFacts, FileFacts DEF IInv
  <2> QED BY <1>4, <2>1 DEF Region
<1>6. MapsInFile'
  BY <1>5 DEF IInv, MapMeta, MapsInFile, caseVars
<1>7. TypeOK'
  BY <1>1, <1>3 DEF IInv, MapMeta, TypeOK, Pc, caseVars, sizeVars, bufVars, findVars
<1>8. IndexInv'
  BY <1>1, KeepIndex DEF MapMeta
<1>9. MetaInv'
  BY <1>1, <1>3 DEF IInv, MapMeta, MetaInv, FileOf, caseVars, Sized
<1> QED BY <1>1, <1>6, <1>7, <1>8, <1>9
        DEF IInv, MapMeta, TailInv, MapInv, CountInv, BufInv, FindInv, Before, Sized, bufVars

(* No records, or a first block where none can be. *)
LEMMA NoMetaIInv == IInv /\ NoMeta => IInv'
<1> SUFFICES ASSUME IInv, NoMeta PROVE IInv'
  OBVIOUS
<1>1. pc = "meta" /\ pc \in Indexed
  BY DEF NoMeta, Indexed
<1>2. CASE MapMetaStatus # OK
  <2>1. oom' \in BOOLEAN
    BY DEF IInv, TypeOK, NoMeta, bufVars
  <2> QED BY <1>1, <1>2, <2>1, FirstFacts, MapMetaFacts, FailIInv DEF IInv, NoMeta, bufVars
<1>3. CASE MapMetaStatus = OK
  <2>1. Region = 0 /\ pc' = "setup" /\ st' = st
    BY <1>3 DEF NoMeta
  <2>2. file.hsize <= FileOf(0)
    BY <1>1, <1>3, FirstFacts, MapMetaFacts DEF IInv
  <2>3. TypeOK' /\ MapsInFile'
    BY <2>1, MoveTypes DEF NoMeta, Pc
  <2>4. IndexInv'
    BY <1>1, KeepIndex DEF NoMeta
  <2>5. MetaInv'
    BY <1>1, <2>1, <2>2, Static DEF IInv, NoMeta, MetaInv, FileOf, caseVars, metaVars, Sized
  <2> QED BY <1>1, <2>1, <2>3, <2>4, <2>5
          DEF IInv, NoMeta, TailInv, MapInv, CountInv, BufInv, FindInv, Before, Sized, metaVars, bufVars
<1> QED BY <1>2, <1>3

(* A mapping that cannot be made. *)
LEMMA MapFailsIInv == IInv /\ MapFails => IInv'
<1> SUFFICES ASSUME IInv, MapFails PROVE IInv'
  OBVIOUS
<1>1. oom' \in BOOLEAN
  BY DEF IInv, TypeOK, MapFails, bufVars
<1>2. PICK s \in {ErrOOM, ErrIO, ErrTruncated} : Fail(s)
  BY DEF MapFails
<1>3. s \in Statuses
  BY DEF Statuses
<1> QED BY <1>1, <1>2, <1>3, FailIInv DEF MapFails, bufVars

(* The end of load_meta: the dictionary that was promised is there. *)
LEMMA MetaEndsIInv ==
  ASSUME IInv, pc = "record", NEW s \in Statuses, MetaEnds(s), dict' = dict, ddict' = ddict,
         UNCHANGED <<caseVars, maps, nentries, rec, remain, sizeVars, bufVars, findVars>>
  PROVE  IInv'
<1>1. oom' \in BOOLEAN
  BY DEF IInv, TypeOK, bufVars
<1>2. CASE s # OK
  BY <1>1, <1>2, FailIInv DEF MetaEnds, metaVars, bufVars
<1>3. CASE s = OK /\ file.dict /\ ddict = 0
  <2>1. Fail(ErrCorruptRecord)
    BY <1>3 DEF MetaEnds, OK, ErrCorruptRecord
  <2>2. ErrCorruptRecord \in Statuses
    BY DEF Statuses
  <2> QED BY <1>1, <2>1, <2>2, FailIInv DEF metaVars, bufVars
<1>4. CASE s = OK /\ ~(file.dict /\ ddict = 0)
  <2>1. pc' = "setup" /\ st' = st
    BY <1>4 DEF MetaEnds
  <2>2. TypeOK' /\ MapsInFile'
    BY <2>1, MoveTypes DEF Pc, metaVars
  <2>3. IndexInv'
    BY KeepIndex DEF Indexed
  <2>4. MetaInv'
    <3>1. file.hsize <= FileOf(0) /\ ddict = dict
      BY DEF IInv, MetaInv
    <3>2. file.dict => dict # 0
      BY <1>4, <3>1
    <3> QED BY <2>1, <3>1, <3>2 DEF MetaInv, FileOf, caseVars, Sized
  <2> QED BY <2>1, <2>2, <2>3, <2>4
          DEF IInv, TailInv, MapInv, CountInv, BufInv, FindInv, Before, Sized, bufVars
<1> QED BY <1>2, <1>3, <1>4

(* The records are through. *)
LEMMA MetaDoneIInv == IInv /\ MetaDone => IInv'
<1> SUFFICES ASSUME IInv, MetaDone PROVE IInv'
  OBVIOUS
<1>1. OK \in Statuses
  BY DEF Statuses
<1> QED BY <1>1, MetaEndsIInv DEF MetaDone

(* A record that is refused. *)
LEMMA MetaRecordBadIInv == IInv /\ MetaRecordBad => IInv'
<1> SUFFICES ASSUME IInv, MetaRecordBad PROVE IInv'
  OBVIOUS
<1>1. RecordStatus \in Statuses
  BY RecordFacts DEF IInv, CountInv
<1> QED BY <1>1, MetaEndsIInv DEF MetaRecordBad

(* A dictionary that cannot be had. *)
LEMMA DictFailsIInv == IInv /\ DictFails => IInv'
<1> SUFFICES ASSUME IInv, DictFails PROVE IInv'
  OBVIOUS
<1>1. Here.dst \in Statuses /\ ErrOOM \in Statuses
  BY RecordFacts DEF IInv, CountInv, Statuses
<1>2. CASE ddict' = ddict
  <2>1. PICK s \in Statuses : MetaEnds(s)
    BY <1>1 DEF DictFails
  <2> QED BY <1>2, <2>1, MetaEndsIInv DEF DictFails
<1>3. CASE ddict' = 0 /\ MetaEnds(ErrOOM)
  <2>1. Fail(ErrOOM)
    BY <1>3 DEF MetaEnds, OK, ErrOOM
  <2>2. oom' \in BOOLEAN
    BY DEF IInv, TypeOK, DictFails, bufVars
  <2> QED BY <1>1, <1>3, <2>1, <2>2, FailDict DEF DictFails, bufVars
<1> QED BY <1>2, <1>3 DEF DictFails

(* A record is passed: the rest of the region is behind it. *)
LEMMA NextRecordIInv ==
  ASSUME IInv, pc = "record", pc' = "record", RecordStatus = OK, remain >= RecHdr,
         rec' = rec + 1, remain' = remain - (RecHdr + Here.size),
         UNCHANGED <<dict, ddict>> \/ (dict' = rec /\ ddict' = rec /\ Here.tag = "dict"),
         UNCHANGED <<caseVars, st, maps, nentries, sizeVars, bufVars, findVars>>
  PROVE  IInv'
<1>1. rec \in Nat /\ rec # 0 /\ remain \in Nat /\ RecHdr \in Nat
  BY SizesAssumption DEF IInv, TypeOK, CountInv
<1>2. /\ Here.size \in Nat /\ Here.size <= remain - RecHdr
      /\ Here.tag = "dict" => rec \in 1 .. Len(file.meta)
  BY <1>1, RecordFacts DEF IInv
<1>3. remain' \in Nat /\ rec' \in Nat /\ rec' # 0
  BY <1>1, <1>2
<1>4. dict' \in 0 .. Len(file.meta) /\ ddict' \in 0 .. Len(file.meta)
  BY <1>2 DEF IInv, TypeOK
<1>5. TypeOK'
  BY <1>3, <1>4 DEF IInv, TypeOK, Pc, caseVars, sizeVars, bufVars, findVars
<1>6. MapsInFile'
  BY DEF IInv, MapsInFile, caseVars
<1>7. IndexInv'
  BY KeepIndex DEF Indexed
<1>8. MetaInv'
  BY DEF IInv, MetaInv, FileOf, caseVars, Sized
<1> QED BY <1>3, <1>5, <1>6, <1>7, <1>8
        DEF IInv, TailInv, MapInv, CountInv, BufInv, FindInv, Before, Sized, bufVars

(* A dictionary is loaded. *)
LEMMA DictLoadIInv == IInv /\ DictLoad => IInv'
BY NextRecordIInv DEF DictLoad

(* A record is skipped. *)
LEMMA RecordSkipIInv == IInv /\ RecordSkip => IInv'
BY NextRecordIInv DEF RecordSkip

-----------------------------------------------------------------------------
(* setup_buffers *)

(* What one pool gets of the limit. *)
LEMMA RoomFacts ==
  ASSUME NEW bytes \in Nat, NEW per \in Nat \ {0}, NEW wanted \in Nat \ {0}
  PROVE  LET n == Smaller(wanted, Room(bytes, per)) IN
           n \in Nat \ {0} /\ (n = 1 \/ n * per <= bytes)
<1> DEFINE q == bytes \div per
<1>1. q \in Nat /\ q * per <= bytes
  BY DivBound
<1>2. CASE Smaller(wanted, Room(bytes, per)) = 1
  BY <1>2
<1>3. CASE Smaller(wanted, Room(bytes, per)) # 1
  <2>1. PICK n \in Nat : n = Smaller(wanted, Room(bytes, per)) /\ n > 1 /\ n <= q
    BY <1>1, <1>3 DEF Smaller, Room, Larger
  <2>2. n * per <= q * per
    BY <1>1, <2>1, MulMono
  <2> QED BY <1>1, <2>1, <2>2
<1> QED BY <1>2, <1>3

(* The pools are cut to the limit. *)
LEMMA SetupBuffersIInv == IInv /\ SetupBuffers => IInv'
<1> SUFFICES ASSUME IInv, SetupBuffers PROVE IInv'
  OBVIOUS
<1> DEFINE cache == IF opts.cache > 0 THEN opts.cache ELSE CacheDefault
<1>1. oom' \in BOOLEAN
  BY DEF IInv, TypeOK, SetupBuffers, bufVars
<1>2. PICK threads \in (IF opts.threads > 0 THEN {opts.threads} ELSE 1 .. 4) :
        IF opts.limit = 0
        THEN ncache' = cache /\ nslots' = threads /\ pc' = "alloc" /\ UNCHANGED st
        ELSE IF Overhead > opts.limit
        THEN Fail(ErrMemlimit) /\ UNCHANGED sizeVars
        ELSE /\ ncache' = Smaller(cache, Room(opts.limit - Overhead, file.bs))
             /\ nslots' = Smaller(threads, Room(opts.limit, SlotBytes))
             /\ pc' = "alloc" /\ UNCHANGED st
  BY DEF SetupBuffers
<1>3. threads \in Nat \ {0} /\ cache \in Nat \ {0} /\ opts.limit \in Nat
  BY SizesAssumption DEF IInv, TypeOK, IsOpts
<1>4. /\ file.bs \in Nat \ {0} /\ Cap \in Nat \ {0} /\ SlotBytes \in Nat \ {0}
      /\ Overhead = file.bs + Cap /\ SlotBytes = Cap + file.bs
  <2>1. file.bs \in 1 .. BlockMax /\ BlockMax \in Nat /\ Cap \in Nat \ {0}
    BY FileFacts, SizesAssumption DEF IInv
  <2> QED BY <2>1 DEF SlotBytes, Overhead
<1>5. pc = "setup"
  BY DEF SetupBuffers
<1>6. CASE pc' = "close"
  <2>1. Fail(ErrMemlimit) /\ UNCHANGED sizeVars
    BY <1>2, <1>6
  <2>2. ErrMemlimit \in Statuses
    BY DEF Statuses
  <2> QED BY <1>1, <2>1, <2>2, FailIInv DEF SetupBuffers, bufVars
<1>7. CASE pc' = "alloc"
  <2>1. st' = st
    BY <1>2, <1>7 DEF Fail
  <2> HIDE DEF cache
  <2>2. ncache' \in Nat \ {0} /\ nslots' \in Nat \ {0}
    <3>1. CASE opts.limit = 0
      BY <1>2, <1>3, <3>1
    <3>2. CASE opts.limit # 0
      <4>1. ~(Overhead > opts.limit)
        BY <1>2, <1>7, <3>2 DEF Fail
      <4>2. opts.limit - Overhead \in Nat
        BY <1>3, <1>4, <4>1
      <4> QED BY ZenonT(30), <1>2, <1>3, <1>4, <3>2, <4>1, <4>2, RoomFacts
    <3> QED BY <3>1, <3>2
  <2>3. opts.limit # 0 => /\ Overhead <= opts.limit
                          /\ Cap + ncache' * file.bs <= opts.limit
                          /\ nslots' * SlotBytes <= opts.limit
    <3> SUFFICES ASSUME opts.limit # 0
                 PROVE  /\ Overhead <= opts.limit
                        /\ Cap + ncache' * file.bs <= opts.limit
                        /\ nslots' * SlotBytes <= opts.limit
      OBVIOUS
    <3>1. ~(Overhead > opts.limit)
      BY <1>2, <1>7 DEF Fail
    <3>2. opts.limit - Overhead \in Nat /\ Overhead <= opts.limit
      BY <1>3, <1>4, <3>1
    <3>3. /\ ncache' = Smaller(cache, Room(opts.limit - Overhead, file.bs))
          /\ nslots' = Smaller(threads, Room(opts.limit, SlotBytes))
      BY <1>2, <3>1
    <3>4. ncache' = 1 \/ ncache' * file.bs <= opts.limit - Overhead
      BY <1>3, <1>4, <3>2, <3>3, RoomFacts
    <3>5. nslots' = 1 \/ nslots' * SlotBytes <= opts.limit
      BY <1>3, <1>4, <3>3, RoomFacts
    <3>6. PICK x \in Int : x = ncache' * file.bs
      BY <1>4, <2>2
    <3>7. x = file.bs \/ x <= opts.limit - Overhead
      BY <1>4, <3>4, <3>6
    <3>8. Cap + x <= opts.limit
      BY <1>3, <1>4, <3>2, <3>7
    <3>9. nslots' * SlotBytes <= opts.limit
      BY <1>4, <3>2, <3>5
    <3> QED BY <3>2, <3>6, <3>8, <3>9
  <2>4. TypeOK'
    <3>1. cache_n' = 0 /\ slots_n' = 0
      BY <1>5 DEF IInv, CountInv, SetupBuffers, Before, bufVars
    <3> QED BY <1>1, <1>7, <2>1, <2>2, <3>1
            DEF IInv, SetupBuffers, TypeOK, Pc, caseVars, metaVars, bufVars, findVars
  <2>5. MapsInFile'
    BY DEF IInv, SetupBuffers, MapsInFile, caseVars
  <2>6. IndexInv'
    BY <1>5, KeepIndex DEF SetupBuffers, Indexed
  <2>7. MetaInv'
    BY <1>5, Static DEF IInv, SetupBuffers, MetaInv, FileOf, caseVars, metaVars, Sized
  <2>8. BufInv'
    <3>1. opts' = opts /\ file' = file
      BY DEF SetupBuffers, caseVars
    <3>2. Overhead' = Overhead /\ Cap' = Cap /\ SlotBytes' = SlotBytes
      BY Static DEF SetupBuffers
    <3> QED BY <2>3, <3>1, <3>2 DEF BufInv
  <2>9. CountInv'
    <3>1. allocs' = 0 /\ rec' # 0
      BY <1>5 DEF IInv, CountInv, SetupBuffers, Before, bufVars, metaVars
    <3>2. \A n \in Nat : ~(0 >= 2 + n)
      OBVIOUS
    <3>3. ~(allocs' >= 2 + ncache')
      BY <2>2, <3>1, <3>2
    <3> QED BY <1>7, <3>1, <3>3 DEF CountInv, Before
  <2> QED BY <1>7, <2>4, <2>5, <2>6, <2>7, <2>8, <2>9 DEF IInv, TailInv, MapInv, FindInv
<1> QED BY <1>2, <1>6, <1>7 DEF Fail

(* The allocations: staging buffer, cache and blocks, then the slots. *)
LEMMA OrderFacts ==
  ASSUME ncache \in Nat, nslots \in Nat
  PROVE  Len(Order) >= 2 + ncache
<1>1. PICK m \in Nat : m = nslots * Len(SlotParts)
  BY DEF SlotParts
<1>2. PICK s : s = SlotBufs(nslots) /\ (\E S : s \in Seq(S)) /\ Len(s) = m
  <2> DEFINE s == SlotBufs(nslots)
             S == { s[k] : k \in 1 .. m }
  <2>1. s = [k \in 1 .. m |-> s[k]]
    BY <1>1 DEF SlotBufs
  <2> HIDE DEF s
  <2>2. s \in Seq(S) /\ Len(s) = m
    BY <2>1
  <2> QED BY <2>2 DEF s
<1>3. Data(ncache) \in Seq({ <<"data", i>> : i \in 1 .. ncache }) /\ Len(Data(ncache)) = ncache
  BY DEF Data
<1> QED BY <1>1, <1>2, <1>3 DEF Order

(* One allocation more. *)
LEMMA AllocIInv == IInv /\ Alloc => IInv'
<1> SUFFICES ASSUME IInv, Alloc PROVE IInv'
  OBVIOUS
<1>1. pc = "alloc" /\ pc' = "alloc" /\ allocs' = allocs + 1
  BY DEF Alloc
<1>2. /\ allocs \in Nat /\ ncache \in Nat \ {0} /\ ncache' = ncache
      /\ cache_n' = IF allocs + 1 = 2 + ncache THEN ncache ELSE cache_n
  BY DEF IInv, TypeOK, Alloc, sizeVars
<1>3. TypeOK'
  BY <1>1, <1>2 DEF IInv, Alloc, TypeOK, caseVars, metaVars, sizeVars, findVars
<1>4. MapsInFile'
  BY DEF IInv, Alloc, MapsInFile, caseVars
<1>5. IndexInv'
  BY <1>1, KeepIndex DEF Alloc, Indexed
<1>6. MetaInv'
  BY <1>1, Static DEF IInv, Alloc, MetaInv, FileOf, caseVars, metaVars, Sized
<1>7. BufInv'
  BY <1>1, Static DEF IInv, Alloc, BufInv, caseVars, sizeVars, Sized
<1>8. CountInv'
  BY <1>1, <1>2 DEF IInv, Alloc, CountInv, Before, metaVars
<1> QED BY <1>1, <1>3, <1>4, <1>5, <1>6, <1>7, <1>8 DEF IInv, TailInv, MapInv, FindInv

(* An allocation that fails. *)
LEMMA AllocFailsIInv == IInv /\ AllocFails => IInv'
<1> SUFFICES ASSUME IInv, AllocFails PROVE IInv'
  OBVIOUS
<1>1. oom' \in BOOLEAN
  BY DEF AllocFails
<1>2. ErrOOM \in Statuses
  BY DEF Statuses
<1> QED BY <1>1, <1>2, FailIInv DEF AllocFails

(* The handle is returned. *)
LEMMA OpenReturnsHandleIInv == IInv /\ OpenReturnsHandle => IInv'
<1> SUFFICES ASSUME IInv, OpenReturnsHandle PROVE IInv'
  OBVIOUS
<1>1. pc = "alloc" /\ pc' = "open" /\ allocs = Len(Order) /\ slots_n' = nslots
  BY DEF OpenReturnsHandle
<1>2. cache_n = ncache
  BY <1>1, OrderFacts DEF IInv, TypeOK, CountInv
<1>3. TypeOK'
  BY <1>1 DEF IInv, OpenReturnsHandle, TypeOK, Pc, caseVars, metaVars, sizeVars, findVars
<1>4. MapsInFile'
  BY DEF IInv, OpenReturnsHandle, MapsInFile, caseVars
<1>5. IndexInv'
  BY <1>1, KeepIndex DEF OpenReturnsHandle, Indexed
<1>6. MetaInv'
  BY <1>1, Static DEF IInv, OpenReturnsHandle, MetaInv, FileOf, caseVars, metaVars, Sized
<1>7. BufInv'
  BY <1>1, Static DEF IInv, OpenReturnsHandle, BufInv, caseVars, sizeVars, Sized
<1>8. CountInv'
  BY <1>1, <1>2 DEF IInv, OpenReturnsHandle, CountInv, Before, metaVars, sizeVars
<1> QED BY <1>1, <1>3, <1>4, <1>5, <1>6, <1>7, <1>8 DEF IInv, TailInv, MapInv, FindInv

-----------------------------------------------------------------------------
(* The search *)

(* A handle that is open, or searching, keeps all but the search. *)
LEMMA OpenKeeps ==
  ASSUME IInv, pc \in {"open", "find"}, pc' \in {"open", "find"},
         UNCHANGED <<caseVars, st, maps, nentries, metaVars, sizeVars, bufVars>>,
         off' \in Nat, lo' \in Nat, hi' \in Nat, finds' \in 0 .. MaxFinds, FindInv'
  PROVE  IInv'
<1>1. TypeOK'
  BY DEF IInv, TypeOK, Pc, caseVars, metaVars, sizeVars, bufVars
<1>2. MapsInFile'
  BY DEF IInv, MapsInFile, caseVars
<1>3. IndexInv'
  BY KeepIndex DEF Indexed
<1>4. MetaInv'
  BY Static DEF IInv, MetaInv, FileOf, caseVars, metaVars, Sized
<1>5. BufInv'
  BY Static DEF IInv, BufInv, caseVars, sizeVars, Sized
<1>6. CountInv'
  BY DEF IInv, CountInv, Before, metaVars, sizeVars, bufVars
<1> QED BY <1>1, <1>2, <1>3, <1>4, <1>5, <1>6 DEF IInv, TailInv, MapInv

(* The search begins with the whole stream. *)
LEMMA FindCallIInv == ASSUME NEW o \in U64 PROVE IInv /\ FindCall(o) => IInv'
<1> SUFFICES ASSUME IInv, FindCall(o) PROVE IInv'
  OBVIOUS
<1>1. pc = "open" /\ pc \in Indexed
  BY DEF FindCall, Indexed
<1>2. o \in Nat /\ MaxFinds \in Nat /\ file.index.count \in Nat
  BY SizesAssumption, FileFacts DEF IInv, U64
<1>3. /\ nentries = file.index.count + 1 /\ file.index.count >= 1
      /\ RawOf(0) = 0 /\ RawOf(file.index.count) = file.index.total
  BY <1>1, FirstFacts, IndexFacts DEF IInv
<1>4. off' = o /\ lo' = 0 /\ hi' = file.index.count /\ nentries' = nentries /\ file' = file
  BY <1>2, <1>3 DEF FindCall, caseVars
<1>5. o < file.index.total /\ finds' \in 0 .. MaxFinds
  BY <1>2 DEF IInv, TypeOK, FindCall
<1>6. FindInv'
  <2>1. RawOf(lo)' = RawOf(0) /\ RawOf(hi)' = RawOf(file.index.count)
    BY <1>4 DEF RawOf
  <2> QED BY <1>2, <1>3, <1>4, <1>5, <2>1 DEF FindInv
<1> QED BY <1>1, <1>2, <1>3, <1>4, <1>5, <1>6, OpenKeeps DEF FindCall

(* Every step keeps the byte between lo and hi. *)
LEMMA FindStepIInv == IInv /\ FindStep => IInv'
<1> SUFFICES ASSUME IInv, FindStep PROVE IInv'
  OBVIOUS
<1>1. pc = "find" /\ pc' = "find"
  BY DEF FindStep
<1>2. /\ lo \in Nat /\ hi \in Nat /\ off \in Nat /\ nentries \in Nat /\ lo < hi /\ hi < nentries
      /\ RawOf(lo) <= off /\ off < RawOf(hi) /\ nentries = Len(file.ents)
  BY <1>1, FirstFacts DEF IInv, TypeOK, FindInv, Indexed
<1>3. PICK mid \in Nat : mid = lo + ((hi - lo) \div 2)
  BY <1>2
<1>4. lo < mid /\ mid < hi /\ mid \in 0 .. Len(file.ents) - 1
  BY <1>2, <1>3 DEF FindStep, Found
<1>5. RawOf(mid) \in Nat
  BY <1>4, EntryFacts DEF IInv
<1>6. \/ RawOf(mid) <= off /\ lo' = mid /\ hi' = hi
      \/ ~(RawOf(mid) <= off) /\ hi' = mid /\ lo' = lo
  BY <1>3 DEF FindStep
<1>7. off' = off /\ nentries' = nentries /\ finds' = finds /\ file' = file
  BY DEF FindStep, caseVars
<1>8. FindInv'
  <2>1. RawOf(lo)' = file.ents[lo' + 1].raw /\ RawOf(hi)' = file.ents[hi' + 1].raw
    BY <1>7 DEF RawOf
  <2>2. RawOf(lo)' <= off /\ off < RawOf(hi)'
    BY SMTT(30), <1>2, <1>5, <1>6, <2>1 DEF RawOf
  <2> QED BY <1>2, <1>4, <1>6, <1>7, <2>2 DEF FindInv
<1>9. off' \in Nat /\ lo' \in Nat /\ hi' \in Nat /\ finds' \in 0 .. MaxFinds
  BY <1>2, <1>6, <1>7 DEF IInv, TypeOK
<1> QED BY <1>1, <1>8, <1>9, OpenKeeps DEF FindStep

(* The search ends. *)
LEMMA FindReturnsIInv == IInv /\ FindReturns => IInv'
<1> SUFFICES ASSUME IInv, FindReturns PROVE IInv'
  OBVIOUS
<1>1. off' \in Nat /\ lo' \in Nat /\ hi' \in Nat /\ finds' \in 0 .. MaxFinds
  BY DEF IInv, TypeOK, FindReturns, findVars
<1>2. FindInv'
  BY DEF FindReturns, FindInv
<1> QED BY <1>1, <1>2, OpenKeeps DEF FindReturns

-----------------------------------------------------------------------------
(* xq_reader_close *)

(* Closing leaves the archive and what was mapped as they are. *)
LEMMA CloseIInv == IInv /\ (CloseCall \/ Close) => IInv'
<1> SUFFICES ASSUME IInv, CloseCall \/ Close PROVE IInv'
  OBVIOUS
<1>1. pc' \in {"close", "closed"}
  BY DEF CloseCall, Close
<1>2. TypeOK' /\ MapsInFile'
  BY <1>1, MoveTypes DEF CloseCall, Close, Pc
<1>3. rec' # 0
  BY DEF IInv, CountInv, CloseCall, Close, metaVars
<1> QED BY <1>1, <1>2, <1>3
        DEF IInv, TailInv, MapInv, IndexInv, MetaInv, CountInv, BufInv, FindInv, Before, Indexed, Sized

(* Stuttering. *)
LEMMA StutterIInv == IInv /\ UNCHANGED vars => IInv'
<1> SUFFICES ASSUME IInv, UNCHANGED vars PROVE IInv'
  OBVIOUS
<1>1. UNCHANGED <<caseVars, pc, st, maps, nentries, metaVars, sizeVars, bufVars, findVars>>
  BY DEF vars
<1>2. TypeOK' /\ MapsInFile'
  BY <1>1, MoveTypes DEF IInv, TypeOK
<1>3. TailInv' /\ MapInv' /\ IndexInv' /\ MetaInv'
  BY <1>1, Static DEF IInv, TailInv, MapInv, IndexInv, MetaInv, FileOf, caseVars, metaVars
<1>4. CountInv' /\ BufInv'
  BY <1>1, Static DEF IInv, CountInv, BufInv, caseVars, metaVars, sizeVars, bufVars
<1>5. FindInv'
  BY <1>1 DEF IInv, FindInv, RawOf, caseVars, findVars
<1> QED BY <1>2, <1>3, <1>4, <1>5 DEF IInv

(* Every step keeps the invariant. *)
LEMMA NextIInv == IInv /\ [Next]_vars => IInv'
<1> SUFFICES ASSUME IInv, [Next]_vars PROVE IInv'
  OBVIOUS
<1>1. CASE OpenFile \/ ReadFails \/ LoadTail \/ Context \/ MapIndex \/ CheckIndex
  BY <1>1, OpenFileIInv, ReadFailsIInv, LoadTailIInv, ContextIInv, MapIndexIInv, CheckIndexIInv
<1>2. CASE \/ MapMeta \/ NoMeta \/ MapFails \/ MetaDone \/ MetaRecordBad
           \/ DictFails \/ DictLoad \/ RecordSkip
  BY <1>2, MapMetaIInv, NoMetaIInv, MapFailsIInv, MetaDoneIInv, MetaRecordBadIInv,
     DictFailsIInv, DictLoadIInv, RecordSkipIInv
<1>3. CASE SetupBuffers \/ Alloc \/ AllocFails \/ OpenReturnsHandle
  BY <1>3, SetupBuffersIInv, AllocIInv, AllocFailsIInv, OpenReturnsHandleIInv
<1>4. CASE FindStep \/ FindReturns \/ \E o \in U64 : FindCall(o)
  BY <1>4, FindStepIInv, FindReturnsIInv, FindCallIInv
<1>5. CASE Close \/ CloseCall
  BY <1>5, CloseIInv
<1>6. CASE UNCHANGED vars
  BY <1>6, StutterIInv
<1> QED BY <1>1, <1>2, <1>3, <1>4, <1>5, <1>6 DEF Next, Step, Terminated

(* The inductive invariant of opening, searching and closing. *)
THEOREM OpenInvariant == Spec => []IInv
<1>1. Init => IInv
  BY InitIInv
<1>2. IInv /\ [Next]_vars => IInv'
  BY NextIInv
<1> QED BY <1>1, <1>2, PTL DEF Spec

(* Every reachable state is well typed. *)
THEOREM OpenTypeCorrect == Spec => []TypeOK
<1>1. IInv => TypeOK
  BY DEF IInv
<1> QED BY <1>1, OpenInvariant, PTL

(* Whatever footer, index and header say, and though their sums may wrap:   *)
(* xq_reader_open maps and reads nothing outside the file.                  *)
THEOREM OpenMapsInFile == Spec => []MapsInFile
<1>1. IInv => MapsInFile
  BY DEF IInv
<1> QED BY <1>1, OpenInvariant, PTL

(* The memory limit of a handle holds up to a factor of two.                *)
THEOREM OpenBuffersBounded == Spec => []BuffersBounded
<1>1. IInv => BuffersBounded
  <2> SUFFICES ASSUME IInv, pc = "open", opts.limit # 0 PROVE Buffers <= 2 * opts.limit
    BY DEF BuffersBounded
  <2>1. /\ Cap + ncache * file.bs <= opts.limit
        /\ nslots * (Cap + file.bs) <= opts.limit
    BY DEF IInv, BufInv, Sized, SlotBytes
  <2>2. PICK x \in Int, y \in Int : x = ncache * file.bs /\ y = nslots * (Cap + file.bs)
    <3>1. file.bs \in Nat /\ Cap \in Nat /\ ncache \in Nat /\ nslots \in Nat
      <4>1. file.bs \in 1 .. BlockMax /\ BlockMax \in Nat /\ Cap \in Nat
        BY FileFacts, SizesAssumption DEF IInv
      <4> QED BY <4>1 DEF IInv, TypeOK
    <3> QED BY <3>1
  <2>3. Cap \in Nat /\ opts.limit \in Nat
    BY FileFacts DEF IInv, TypeOK, IsOpts
  <2>4. (Cap + x) + y <= 2 * opts.limit
    BY <2>1, <2>2, <2>3
  <2> QED BY <2>2, <2>4 DEF Buffers
<1> QED BY <1>1, OpenInvariant, PTL

(* xq_fmt_index_find returns the block that holds the byte.                 *)
THEOREM FindCorrect == Spec => []FindRight
<1>1. IInv => FindRight
  <2> SUFFICES ASSUME IInv, pc = "find", Found
               PROVE  lo + 1 < nentries /\ RawOf(lo) <= off /\ off < RawOf(lo + 1)
    BY DEF FindRight
  <2>1. lo \in Nat /\ hi \in Nat /\ nentries \in Nat
    BY DEF IInv, TypeOK
  <2>2. /\ lo < hi /\ hi < nentries /\ RawOf(lo) <= off /\ off < RawOf(hi)
    BY DEF IInv, FindInv
  <2>3. hi = lo + 1
    BY <2>1, <2>2 DEF Found
  <2> QED BY <2>1, <2>2, <2>3
<1> QED BY <1>1, OpenInvariant, PTL

(* A handle that is open has an index in order, from the first byte of the  *)
(* stream to its last, blocks inside the file behind the records, the cache *)
(* and the slots that xq_reader_close counts, and the dictionary promised.  *)
THEOREM OpenCorrect == Spec => []OpenedSound
<1>1. IInv => OpenedSound
  <2> SUFFICES ASSUME IInv, pc \in {"open", "find"} PROVE OpenedSound
    BY DEF OpenedSound
  <2>1. /\ IndexInv /\ IndexGood /\ Len(file.ents) = file.index.count + 1
        /\ nentries = file.index.count + 1
    BY FirstFacts DEF Indexed
  <2>2. /\ file.index.count \in Nat /\ file.hsize \in Nat /\ BlkHdr \in Nat
        /\ nentries - 1 = file.index.count
    BY SMTT(30), <2>1, FileFacts, SizesAssumption DEF IInv
  <2>3. TypeOK
    BY DEF IInv
  <2>4. /\ file.index.count >= 1
        /\ RawOf(0) = 0 /\ RawOf(file.index.count) = file.index.total
        /\ \A i \in 0 .. file.index.count : FileOf(i) <= file.size
    BY <2>1, <2>3, IndexFacts
  <2>5. \A i, j \in 0 .. file.index.count :
          i < j => RawOf(i) < RawOf(j) /\ FileOf(i) + BlkHdr <= FileOf(j)
    BY <2>1, <2>3, IndexOrder
  <2>6. file.hsize <= FileOf(0) /\ (file.dict /\ Region > 0 => dict # 0 /\ ddict = dict)
    BY DEF IInv, MetaInv, Sized
  <2>7. \A i \in 0 .. file.index.count : file.hsize <= FileOf(i)
    <3> TAKE i \in 0 .. file.index.count
    <3>1. FileOf(0) \in Nat /\ FileOf(i) \in Nat
      BY <2>1, <2>2, <2>3, EntryFacts
    <3>2. i = 0 \/ FileOf(0) + BlkHdr <= FileOf(i)
      BY <2>2, <2>5
    <3> QED BY <2>2, <2>6, <3>1, <3>2
  <2>8. cache_n = ncache /\ slots_n = nslots
    BY DEF IInv, CountInv
  <2>9. file.hraw \in {Unknown, file.index.total}
    BY <2>1 DEF IndexInv, Indexed
  <2>10. nentries >= 2
    BY <2>2, <2>4, <2>1
  <2> QED BY <2>2, <2>4, <2>5, <2>6, <2>7, <2>8, <2>9, <2>10 DEF OpenedSound
<1> QED BY <1>1, OpenInvariant, PTL

-----------------------------------------------------------------------------
(***************************************************************************)
(* What is alive at each step, and that xq_reader_close frees it.  Close   *)
(* goes by cache_n, nslots and the pointers of the handle, so the proof    *)
(* follows each of them together with the allocations it stands for.       *)
(***************************************************************************)

(* What a handle has at most one of. *)
Single == { <<n, 0>> : n \in {"handle", "fd", "cbuf", "cache", "slots", "dctx", "index"} }

(* The dictionary, and those that it hides. *)
Dicts == { <<n, k>> : n \in {"dict", "ddict"}, k \in 1 .. dict }

(* The buffers that the counts of the handle stand for. *)
Counted == Elems(Data(cache_n)) \cup Elems(SlotBufs(slots_n))

HeldInv ==
  /\ dict < rec
  /\ ddict = dict \/ (ddict = 0 /\ st = ErrOOM /\ pc \in {"close", "closed"})
  /\ dict # 0 /\ pc # "closed" => <<"dict", dict>> \in held /\ <<"ddict", dict>> \in held
  /\ pc = "new" => held = {}
  /\ pc \in Before \ {"record"} => held \subseteq Single \cup Dicts
  /\ pc = "record" => held \subseteq Single \cup Dicts \cup {<<"meta", 0>>}
  /\ pc = "alloc" =>
       /\ slots_n = 0 /\ (cache_n # 0 => allocs >= 2 + ncache)
       /\ \A k \in 1 .. allocs : Order[k] \in held
       /\ held \subseteq Single \cup Dicts \cup Elems(Order)
  /\ pc \in {"open", "find", "close"} => Counted \subseteq held
  /\ pc \in {"open", "find", "close"} /\ ~oom => held \subseteq Single \cup Dicts \cup Counted
  /\ pc = "closed" /\ ~oom => \A b \in held : Hidden(b)

(* The elements of a sequence made of two. *)
LEMMA ConcatElems ==
  ASSUME NEW S, NEW s \in Seq(S), NEW t \in Seq(S)
  PROVE  /\ s \o t \in Seq(S) /\ Len(s \o t) = Len(s) + Len(t)
         /\ \A k \in 1 .. Len(s) : (s \o t)[k] = s[k]
         /\ \A k \in 1 .. Len(t) : (s \o t)[Len(s) + k] = t[k]
         /\ Elems(s \o t) = Elems(s) \cup Elems(t)
<1>1. /\ s \o t \in Seq(S) /\ Len(s \o t) = Len(s) + Len(t)
      /\ \A k \in 1 .. Len(s) : (s \o t)[k] = s[k]
      /\ \A k \in 1 .. Len(t) : (s \o t)[Len(s) + k] = t[k]
  OBVIOUS
<1>2. DOMAIN s = 1 .. Len(s) /\ DOMAIN t = 1 .. Len(t) /\ DOMAIN (s \o t) = 1 .. Len(s) + Len(t)
  BY <1>1
<1>3. ASSUME NEW x \in Elems(s \o t) PROVE x \in Elems(s) \cup Elems(t)
  <2>1. PICK k \in 1 .. Len(s) + Len(t) : x = (s \o t)[k]
    BY <1>2 DEF Elems
  <2>2. CASE k <= Len(s)
    BY <1>1, <1>2, <2>1, <2>2 DEF Elems
  <2>3. CASE k > Len(s)
    <3>1. PICK j \in 1 .. Len(t) : k = Len(s) + j
      <4>1. k - Len(s) \in 1 .. Len(t) /\ k = Len(s) + (k - Len(s))
        BY <2>1, <2>3
      <4> QED BY <4>1
    <3>2. x = t[j]
      BY <1>1, <2>1, <3>1
    <3> QED BY <1>2, <3>2 DEF Elems
  <2>4. k <= Len(s) \/ k > Len(s)
    BY <2>1
  <2> QED BY <2>2, <2>3, <2>4
<1>4. ASSUME NEW x \in Elems(s) PROVE x \in Elems(s \o t)
  <2>1. PICK k \in 1 .. Len(s) : x = s[k]
    BY <1>2 DEF Elems
  <2>2. k \in 1 .. Len(s) + Len(t) /\ (s \o t)[k] = x
    BY <1>1, <2>1
  <2> QED BY <1>2, <2>2 DEF Elems
<1>5. ASSUME NEW x \in Elems(t) PROVE x \in Elems(s \o t)
  <2>1. PICK k \in 1 .. Len(t) : x = t[k]
    BY <1>2 DEF Elems
  <2>2. Len(s) + k \in 1 .. Len(s) + Len(t) /\ (s \o t)[Len(s) + k] = x
    BY <1>1, <2>1
  <2> QED BY <1>2, <2>2 DEF Elems
<1> QED BY <1>1, <1>3, <1>4, <1>5

(* The order of the allocations: a handle's own, then the cache's blocks,  *)
(* then the slots'.                                                        *)
LEMMA AllocOrder ==
  ASSUME TypeOK
  PROVE  /\ Len(Order) \in Nat /\ Len(Order) >= 3 + ncache
         /\ Elems(Order) = {<<"cbuf", 0>>, <<"cache", 0>>, <<"slots", 0>>}
                           \cup Elems(Data(ncache)) \cup Elems(SlotBufs(nslots))
         /\ \A k \in 1 .. ncache : Order[2 + k] = Data(ncache)[k]
         /\ DOMAIN Order = 1 .. Len(Order)
<1> DEFINE N == {"cbuf", "cache", "slots", "data", "scbuf", "sraw", "sdctx"}
           S == N \X Int
           P == Len(SlotParts)
           h == << <<"cbuf", 0>>, <<"cache", 0>> >>
           d == Data(ncache)
           m == << <<"slots", 0>> >>
           b == SlotBufs(nslots)
<1>1. ncache \in Nat /\ nslots \in Nat
  BY DEF TypeOK
<1>2. /\ P \in Nat /\ P # 0 /\ \A i \in 1 .. P : SlotParts[i] \in N
  BY DEF SlotParts
<1>3. h \in Seq(S) /\ Len(h) = 2 /\ Elems(h) = {<<"cbuf", 0>>, <<"cache", 0>>}
  BY DEF Elems
<1>4. m \in Seq(S) /\ Len(m) = 1 /\ Elems(m) = {<<"slots", 0>>}
  BY DEF Elems
<1>5. d \in Seq(S) /\ Len(d) = ncache
  BY <1>1 DEF Data
<1>6. b \in Seq(S)
  <2>1. PICK n \in Nat : n = nslots * P
    BY <1>1, <1>2
  <2>2. \A k \in 1 .. n : <<SlotParts[((k - 1) % P) + 1], ((k - 1) \div P) + 1>> \in S
    <3> TAKE k \in 1 .. n
    <3>1. PICK j \in Nat : j = k - 1
      BY <2>1
    <3>2. j % P \in 0 .. P - 1 /\ j \div P \in Int
      BY <1>2, <3>1
    <3>3. (j % P) + 1 \in 1 .. P
      BY <1>2, <3>2
    <3> QED BY <1>2, <3>1, <3>2, <3>3
  <2>3. b = [k \in 1 .. n |-> <<SlotParts[((k - 1) % P) + 1], ((k - 1) \div P) + 1>>]
    BY <2>1 DEF SlotBufs
  <2> HIDE DEF b
  <2> QED BY <2>1, <2>2, <2>3
<1>7. Order = h \o d \o m \o b
  BY DEF Order
<1>8. /\ Order \in Seq(S) /\ Len(Order) = Len(h) + Len(d) + Len(m) + Len(b)
      /\ \A k \in 1 .. Len(d) : Order[Len(h) + k] = d[k]
      /\ Elems(Order) = Elems(h) \cup Elems(d) \cup Elems(m) \cup Elems(b)
  <2> HIDE DEF N, S, P, h, d, m, b
  <2>0. PICK T : T = S
    OBVIOUS
  <2>1. PICK h1 \in Seq(T), d1 \in Seq(T), m1 \in Seq(T), b1 \in Seq(T) :
          h1 = h /\ d1 = d /\ m1 = m /\ b1 = b
    BY <1>3, <1>4, <1>5, <1>6, <2>0
  <2>2. PICK hd \in Seq(T) : hd = h1 \o d1
    <3>1. h1 \o d1 \in Seq(T)
      OBVIOUS
    <3> QED BY <3>1
  <2>3. /\ Len(hd) = Len(h1) + Len(d1) /\ Elems(hd) = Elems(h1) \cup Elems(d1)
        /\ \A k \in 1 .. Len(d1) : hd[Len(h1) + k] = d1[k]
    BY <2>2, ConcatElems
  <2>4. PICK hm \in Seq(T) : hm = hd \o m1
    <3>1. hd \o m1 \in Seq(T)
      OBVIOUS
    <3> QED BY <3>1
  <2>5. /\ Len(hm) = Len(hd) + Len(m1) /\ Elems(hm) = Elems(hd) \cup Elems(m1)
        /\ \A k \in 1 .. Len(hd) : hm[k] = hd[k]
    BY <2>4, ConcatElems
  <2>6. PICK o : o = hm \o b1
    OBVIOUS
  <2>7. /\ o \in Seq(T) /\ Len(o) = Len(hm) + Len(b1) /\ Elems(o) = Elems(hm) \cup Elems(b1)
        /\ \A k \in 1 .. Len(hm) : o[k] = hm[k]
    BY <2>6, ConcatElems
  <2>8. Len(h1) \in Nat /\ Len(d1) \in Nat /\ Len(m1) \in Nat /\ Len(b1) \in Nat
    OBVIOUS
  <2>9. ASSUME NEW k \in 1 .. Len(d1) PROVE o[Len(h1) + k] = d1[k]
    <3>1. Len(h1) + k \in 1 .. Len(hd) /\ Len(h1) + k \in 1 .. Len(hm)
      BY <2>3, <2>5, <2>8
    <3>2. hd[Len(h1) + k] = d1[k]
      BY <2>3
    <3> QED BY <2>5, <2>7, <3>1, <3>2
  <2>10. Len(o) = Len(h1) + Len(d1) + Len(m1) + Len(b1)
    BY <2>3, <2>5, <2>7, <2>8
  <2>11. Elems(o) = Elems(h1) \cup Elems(d1) \cup Elems(m1) \cup Elems(b1)
    BY <2>3, <2>5, <2>7
  <2>12. o = Order
    BY <1>7, <2>1, <2>2, <2>4, <2>6
  <2> QED BY <2>0, <2>1, <2>7, <2>9, <2>10, <2>11, <2>12
<1>9. Len(b) \in Nat
  BY <1>6
<1>10. d = Data(ncache) /\ b = SlotBufs(nslots)
  OBVIOUS
<1> HIDE DEF N, S, P, h, d, m, b
<1>11. \A k \in 1 .. ncache : Order[2 + k] = Data(ncache)[k]
  BY <1>3, <1>5, <1>8, <1>10
<1>12. Len(Order) \in Nat /\ Len(Order) >= 3 + ncache /\ DOMAIN Order = 1 .. Len(Order)
  BY <1>1, <1>3, <1>4, <1>5, <1>8, <1>9
<1>13. Elems(Order) = {<<"cbuf", 0>>, <<"cache", 0>>, <<"slots", 0>>}
                      \cup Elems(Data(ncache)) \cup Elems(SlotBufs(nslots))
  BY <1>3, <1>4, <1>8, <1>10
<1> QED BY <1>11, <1>12, <1>13

(* No buffer is counted while the counts are zero. *)
LEMMA NoneCounted ==
  ASSUME cache_n = 0, slots_n = 0
  PROVE  Counted = {}
<1>1. Data(0) = << >> /\ SlotBufs(0) = << >>
  BY DEF Data, SlotBufs, SlotParts
<1> QED BY <1>1 DEF Counted, Elems

(* Nothing is alive before anything is opened. *)
LEMMA InitHeld == Init => HeldInv
<1> SUFFICES ASSUME Init PROVE HeldInv
  OBVIOUS
<1>1. pc = "new" /\ held = {} /\ rec = 1 /\ dict = 0 /\ ddict = 0
  BY DEF Init
<1> QED BY <1>1 DEF HeldInv, Before

(* A step that leaves the counts and the dictionary alone, up to the       *)
(* buffers: it keeps what close frees, and at most gives up the records,   *)
(* and the pointer to the dictionary's handle when memory runs out.        *)
LEMMA BeforeHeld ==
  ASSUME IInv, HeldInv, UNCHANGED <<caseVars, rec, dict, cache_n, slots_n, allocs>>,
         pc \in Before,
         ddict' = ddict \/ (ddict' = 0 /\ st' = ErrOOM /\ pc' = "close"),
         held \subseteq held' \cup {<<"meta", 0>>},
         held' \subseteq Single \cup Dicts,
         \/ pc' \in Before \cup {"close", "alloc"} /\ pc' # "new"
         \/ pc' = "closed" /\ held' = {}
  PROVE  HeldInv'
<1>1. cache_n = 0 /\ slots_n = 0 /\ allocs = 0
  BY DEF IInv, CountInv
<1>2. Single' = Single /\ Dicts' = Dicts
  BY DEF Single, Dicts
<1>3. Counted' = {}
  <2>1. Data(0)' = << >> /\ SlotBufs(0)' = << >>
    BY DEF Data, SlotBufs, SlotParts
  <2> QED BY <1>1, <2>1 DEF Counted, Elems
<1>4. dict' # 0 => <<"dict", dict'>> \in held' /\ <<"ddict", dict'>> \in held'
  <2>1. <<"dict", dict>> # <<"meta", 0>> /\ <<"ddict", dict>> # <<"meta", 0>>
    OBVIOUS
  <2> QED BY <2>1 DEF HeldInv, Before
<1>5. /\ dict' < rec'
      /\ ddict' = dict' \/ (ddict' = 0 /\ st' = ErrOOM /\ pc' = "close")
  BY DEF HeldInv, Before
<1>6. \A k \in 1 .. allocs' : Order'[k] \in held'
  BY <1>1
<1>7. CASE pc' \in Before \cup {"close", "alloc"} /\ pc' # "new"
  BY <1>1, <1>2, <1>3, <1>4, <1>5, <1>6, <1>7 DEF HeldInv, Before
<1>8. CASE pc' = "closed" /\ held' = {}
  BY <1>1, <1>2, <1>3, <1>4, <1>5, <1>6, <1>8 DEF HeldInv, Before
<1> QED BY <1>7, <1>8

(* A step that leaves all of it alone and is not about the buffers. *)
LEMMA SameHeld ==
  ASSUME HeldInv,
         UNCHANGED <<caseVars, st, held, rec, dict, ddict, ncache, nslots, cache_n, slots_n,
                     allocs, oom>>,
         pc' = pc \/ (pc \in {"open", "find"} /\ pc' \in {"open", "find", "close"})
  PROVE  HeldInv'
<1>1. Single' = Single /\ Dicts' = Dicts
  BY DEF Single, Dicts
<1>2. SlotParts' = SlotParts
  BY DEF SlotParts, caseVars
<1>3. Counted' = Counted /\ Order' = Order
  BY <1>2 DEF Counted, Order, Data, SlotBufs
<1>4. CASE pc' = pc
  BY <1>1, <1>3, <1>4 DEF HeldInv, Hidden
<1>5. CASE pc \in {"open", "find"} /\ pc' \in {"open", "find", "close"}
  BY <1>1, <1>3, <1>5 DEF HeldInv, Before
<1> QED BY <1>4, <1>5

(* The steps up to load_index, and setup_buffers before it allocates. *)
LEMMA OpenHeld ==
  ASSUME IInv, HeldInv,
         \/ OpenFile \/ ReadFails \/ LoadTail \/ Context \/ MapIndex \/ CheckIndex
         \/ NoMeta \/ MapFails \/ SetupBuffers
  PROVE  HeldInv'
<1>1. UNCHANGED <<caseVars, rec, dict, ddict, cache_n, slots_n, allocs>>
  BY DEF OpenFile, ReadFails, LoadTail, Context, MapIndex, CheckIndex, NoMeta, MapFails,
         SetupBuffers, metaVars, bufVars
<1>2. pc \in Before \ {"record"}
  BY DEF OpenFile, ReadFails, LoadTail, Context, MapIndex, CheckIndex, NoMeta, MapFails,
         SetupBuffers, Before
<1>3. held \subseteq Single \cup Dicts
  BY <1>2 DEF HeldInv
<1>4. CASE OpenFile
  <2>1. held = {}
    BY <1>4 DEF OpenFile, HeldInv
  <2>2. held' = {} \/ held' = {<<"handle", 0>>} \/ held' = {<<"handle", 0>>, <<"fd", 0>>}
    BY <1>4, <2>1 DEF OpenFile
  <2>3. pc' \in {"close", "tail"} \/ (pc' = "closed" /\ held' = {})
    BY <1>4, <2>1 DEF OpenFile, Fail
  <2>4. held' \subseteq Single
    <3>1. {<<"handle", 0>>, <<"fd", 0>>} \subseteq Single
      BY DEF Single
    <3> QED BY <2>2, <3>1
  <2> QED BY <1>1, <1>2, <2>1, <2>3, <2>4, BeforeHeld DEF Before
<1>5. CASE Context
  <2>1. held' = held \/ held' = held \cup {<<"dctx", 0>>}
    BY <1>5 DEF Context
  <2>2. pc' \in {"close", "index"}
    BY <1>5 DEF Context, Fail
  <2>3. held' \subseteq Single \cup Dicts
    BY <1>3, <2>1 DEF Single
  <2> QED BY <1>1, <1>2, <2>1, <2>2, <2>3, BeforeHeld DEF Before
<1>6. CASE MapIndex
  <2>1. held' = held \/ held' = held \cup {<<"index", 0>>}
    BY <1>6 DEF MapIndex
  <2>2. pc' \in {"close", "check"}
    BY <1>6 DEF MapIndex, Fail
  <2>3. held' \subseteq Single \cup Dicts
    BY <1>3, <2>1 DEF Single
  <2> QED BY <1>1, <1>2, <2>1, <2>2, <2>3, BeforeHeld DEF Before
<1>7. CASE ReadFails \/ LoadTail \/ CheckIndex \/ NoMeta \/ MapFails \/ SetupBuffers
  <2>1. held' = held
    BY <1>7 DEF ReadFails, LoadTail, CheckIndex, NoMeta, MapFails, SetupBuffers
  <2>2. pc' \in {"close", "ctx", "meta", "setup", "alloc"}
    BY <1>7 DEF ReadFails, LoadTail, CheckIndex, NoMeta, MapFails, SetupBuffers, Fail
  <2> QED BY <1>1, <1>2, <1>3, <2>1, <2>2, BeforeHeld DEF Before
<1> QED BY <1>4, <1>5, <1>6, <1>7

(* load_meta: the records are mapped while they are read; a dictionary     *)
(* takes the place of the one before it.                                   *)
LEMMA MetaHeld ==
  ASSUME IInv, HeldInv,
         MapMeta \/ MetaDone \/ MetaRecordBad \/ DictFails \/ DictLoad \/ RecordSkip
  PROVE  HeldInv'
<1>0. rec \in Nat /\ dict \in Nat /\ dict < rec
  BY DEF IInv, TypeOK, HeldInv
<1>1. CASE MapMeta
  <2>1. /\ pc = "meta" /\ pc' = "record" /\ held' = held \cup {<<"meta", 0>>}
        /\ UNCHANGED <<rec, dict, ddict, cache_n, slots_n>>
    BY <1>1 DEF MapMeta, bufVars
  <2>2. Single' = Single /\ Dicts' = Dicts
    BY <2>1 DEF Single, Dicts
  <2> QED BY <2>1, <2>2 DEF HeldInv, Before
<1>2. CASE MetaDone \/ MetaRecordBad \/ DictFails
  <2>1. /\ pc = "record" /\ held' = held \ {<<"meta", 0>>} /\ pc' \in {"setup", "close"}
        /\ UNCHANGED <<caseVars, rec, dict, cache_n, slots_n, allocs>>
    BY <1>2 DEF MetaDone, MetaRecordBad, DictFails, MetaEnds, Fail, bufVars
  <2>2. ddict' = ddict \/ (ddict' = 0 /\ st' = ErrOOM /\ pc' = "close")
    BY <1>2 DEF MetaDone, MetaRecordBad, DictFails, MetaEnds, Fail, OK, ErrOOM
  <2>3. held' \subseteq Single \cup Dicts
    BY <2>1 DEF HeldInv
  <2> QED BY <2>1, <2>2, <2>3, BeforeHeld DEF Before
<1>3. CASE DictLoad
  <2>1. /\ pc = "record" /\ pc' = pc /\ dict' = rec /\ ddict' = rec /\ rec' = rec + 1
        /\ held' = held \cup {<<"dict", rec>>, <<"ddict", rec>>}
    BY <1>3 DEF DictLoad
  <2>2. Single' = Single /\ Dicts \cup {<<"dict", rec>>, <<"ddict", rec>>} \subseteq Dicts'
    BY <1>0, <2>1 DEF Single, Dicts
  <2>3. dict' < rec'
    BY <1>0, <2>1
  <2> QED BY <2>1, <2>2, <2>3 DEF HeldInv, Before
<1>4. CASE RecordSkip
  <2>1. pc = "record" /\ pc' = pc /\ dict' = dict /\ ddict' = ddict /\ rec' = rec + 1 /\ held' = held
    BY <1>4 DEF RecordSkip
  <2>2. Single' = Single /\ Dicts' = Dicts /\ dict' < rec'
    BY <1>0, <2>1 DEF Single, Dicts
  <2> QED BY <2>1, <2>2 DEF HeldInv, Before
<1> QED BY <1>1, <1>2, <1>3, <1>4

(* The blocks of the cache are there when enough has been allocated. *)
LEMMA CacheHeld ==
  ASSUME TypeOK, allocs >= 2 + ncache, \A k \in 1 .. allocs : Order[k] \in held
  PROVE  Elems(Data(ncache)) \subseteq held
<1>1. ncache \in Nat /\ allocs \in Nat
  BY DEF TypeOK
<1>2. Elems(Data(ncache)) = { Data(ncache)[k] : k \in 1 .. ncache }
  BY <1>1 DEF Elems, Data
<1>3. ASSUME NEW k \in 1 .. ncache PROVE Data(ncache)[k] \in held
  <2>1. 2 + k \in 1 .. allocs
    BY <1>1
  <2> QED BY <2>1, AllocOrder
<1> QED BY <1>2, <1>3

(* setup_buffers: the counts are set when what they count is there. *)
LEMMA AllocHeld ==
  ASSUME IInv, HeldInv, Alloc \/ AllocFails \/ OpenReturnsHandle
  PROVE  HeldInv'
<1>1. /\ pc = "alloc" /\ UNCHANGED <<caseVars, rec, dict, ddict, ncache, nslots>>
  BY DEF Alloc, AllocFails, OpenReturnsHandle, metaVars, sizeVars
<1>2. /\ TypeOK /\ ncache \in Nat /\ ncache # 0 /\ allocs \in Nat
      /\ cache_n \in {0, ncache}
  BY DEF IInv, TypeOK
<1>3. Single' = Single /\ Dicts' = Dicts
  BY <1>1 DEF Single, Dicts
<1>4. SlotParts' = SlotParts
  BY <1>1 DEF SlotParts, caseVars
<1>5. Order' = Order
  BY <1>1, <1>4 DEF Order, Data, SlotBufs
<1>6. /\ slots_n = 0 /\ (cache_n # 0 => allocs >= 2 + ncache)
      /\ \A k \in 1 .. allocs : Order[k] \in held
      /\ held \subseteq Single \cup Dicts \cup Elems(Order)
      /\ dict < rec /\ ddict = dict /\ (dict # 0 => <<"dict", dict>> \in held /\ <<"ddict", dict>> \in held)
  BY <1>1 DEF HeldInv
<1>7. /\ Len(Order) \in Nat /\ Len(Order) >= 3 + ncache /\ DOMAIN Order = 1 .. Len(Order)
      /\ Elems(Order) = {<<"cbuf", 0>>, <<"cache", 0>>, <<"slots", 0>>}
                        \cup Elems(Data(ncache)) \cup Elems(SlotBufs(nslots))
  BY <1>2, AllocOrder
<1>8. CASE Alloc
  <2>1. /\ allocs < Len(Order) /\ held' = held \cup {Order[allocs + 1]} /\ allocs' = allocs + 1
        /\ pc' = "alloc" /\ slots_n' = slots_n
        /\ cache_n' = IF allocs + 1 = 2 + ncache THEN ncache ELSE cache_n
    BY <1>1, <1>8 DEF Alloc
  <2>2. allocs + 1 \in DOMAIN Order
    BY <1>2, <1>7, <2>1
  <2>3. held' \subseteq Single \cup Dicts \cup Elems(Order)
    BY <1>6, <2>1, <2>2 DEF Elems
  <2>4. \A k \in 1 .. allocs' : Order[k] \in held'
    <3> TAKE k \in 1 .. allocs'
    <3>1. k \in 1 .. allocs \/ k = allocs + 1
      BY <1>2, <2>1
    <3> QED BY <1>6, <2>1, <3>1
  <2>5. cache_n' # 0 => allocs' >= 2 + ncache
    BY <1>2, <1>6, <2>1
  <2>6. Elems(Order)' = Elems(Order)
    BY <1>5 DEF Elems
  <2> QED BY <1>1, <1>3, <1>5, <1>6, <2>1, <2>3, <2>4, <2>5, <2>6 DEF HeldInv, Before
<1>9. CASE AllocFails
  <2>1. held \subseteq held' /\ pc' = "close" /\ oom' = TRUE /\ UNCHANGED <<cache_n, slots_n>>
    BY <1>9 DEF AllocFails, Fail
  <2>2. Elems(Data(cache_n)) \subseteq held
    <3>1. CASE cache_n = 0
      BY <3>1 DEF Data, Elems
    <3>2. CASE cache_n # 0
      BY <1>2, <1>6, <3>2, CacheHeld
    <3> QED BY <3>1, <3>2
  <2>3. Counted' \subseteq held'
    <3>1. SlotBufs(0)' = << >>
      BY DEF SlotBufs, SlotParts
    <3>2. Counted' = Elems(Data(cache_n))
      BY <1>6, <2>1, <3>1 DEF Counted, Elems, Data
    <3> QED BY <2>1, <2>2, <3>2
  <2> QED BY <1>1, <1>6, <2>1, <2>3 DEF HeldInv, Before
<1>10. CASE OpenReturnsHandle
  <2>1. /\ allocs = Len(Order) /\ slots_n' = nslots /\ pc' = "open"
        /\ UNCHANGED <<held, cache_n>>
    BY <1>10 DEF OpenReturnsHandle
  <2>2. cache_n = ncache
    BY <1>1, <1>2, <1>7, <2>1 DEF IInv, CountInv
  <2>3. Elems(Order) \subseteq held
    BY <1>6, <1>7, <2>1 DEF Elems
  <2>4. Counted' = Elems(Data(ncache)) \cup Elems(SlotBufs(nslots))
    BY <1>1, <1>4, <2>1, <2>2 DEF Counted, Data, SlotBufs
  <2>5. {<<"cbuf", 0>>, <<"cache", 0>>, <<"slots", 0>>} \subseteq Single
    BY DEF Single
  <2> QED BY <1>1, <1>3, <1>6, <1>7, <2>1, <2>3, <2>4, <2>5 DEF HeldInv, Before
<1> QED BY <1>8, <1>9, <1>10

(* xq_reader_close: what is left of the dictionaries is what is hidden. *)
LEMMA CloseHeld == IInv /\ HeldInv /\ Close => HeldInv'
<1> SUFFICES ASSUME IInv, HeldInv, Close PROVE HeldInv'
  OBVIOUS
<1>1. /\ pc = "close" /\ pc' = "closed" /\ held' = held \ Owned
      /\ UNCHANGED <<rec, dict, ddict, st, oom>>
  BY DEF Close, metaVars, bufVars
<1>2. /\ dict \in Nat /\ dict < rec
      /\ ddict = dict \/ (ddict = 0 /\ st = ErrOOM)
  BY DEF IInv, TypeOK, HeldInv
<1>3. Owned = (held \cap Single) \cup Counted
              \cup { b \in { <<"dict", dict>>, <<"ddict", ddict>> } : b[2] # 0 }
  BY DEF Owned, Counted, Single
<1>4. held' \subseteq Single \cup Dicts \cup Counted => \A b \in held' : Hidden(b)
  <2> SUFFICES ASSUME held' \subseteq Single \cup Dicts \cup Counted, NEW b \in held'
               PROVE  Hidden(b)
    OBVIOUS
  <2>1. b \in Dicts /\ b \in held /\ b \notin Owned
    BY <1>1, <1>3
  <2>2. PICK n \in {"dict", "ddict"}, k \in 1 .. dict : b = <<n, k>>
    BY <2>1 DEF Dicts
  <2>3. CASE k # dict
    <3>1. k \in 1 .. dict - 1
      BY <1>2, <2>3
    <3> QED BY <2>2, <3>1 DEF Hidden
  <2>4. CASE k = dict
    <3>1. dict # 0 /\ b # <<"dict", dict>> /\ (ddict # 0 => b # <<"ddict", ddict>>)
      BY <1>2, <1>3, <2>1, <2>2
    <3>2. ddict = 0 /\ st = ErrOOM /\ b = <<"ddict", dict>>
      BY <1>2, <2>2, <2>4, <3>1
    <3> QED BY <3>2 DEF Hidden
  <2> QED BY <2>3, <2>4
<1>5. ~oom => held \subseteq Single \cup Dicts \cup Counted
  BY <1>1 DEF HeldInv
<1>6. \A b : Hidden(b) => Hidden(b)'
  BY <1>1 DEF Hidden
<1> QED BY <1>1, <1>2, <1>4, <1>5, <1>6 DEF HeldInv, Before

(* Every step keeps what is alive in step with what close goes by. *)
LEMMA NextHeld == IInv /\ HeldInv /\ [Next]_vars => HeldInv'
<1> SUFFICES ASSUME IInv, HeldInv, [Next]_vars PROVE HeldInv'
  OBVIOUS
<1>1. CASE \/ OpenFile \/ ReadFails \/ LoadTail \/ Context \/ MapIndex \/ CheckIndex
           \/ NoMeta \/ MapFails \/ SetupBuffers
  BY <1>1, OpenHeld
<1>2. CASE MapMeta \/ MetaDone \/ MetaRecordBad \/ DictFails \/ DictLoad \/ RecordSkip
  BY <1>2, MetaHeld
<1>3. CASE Alloc \/ AllocFails \/ OpenReturnsHandle
  BY <1>3, AllocHeld
<1>4. CASE FindStep \/ FindReturns \/ CloseCall \/ (\E o \in U64 : FindCall(o))
  <2>1. /\ UNCHANGED <<caseVars, st, held, metaVars, sizeVars, bufVars>>
        /\ pc' = pc \/ (pc \in {"open", "find"} /\ pc' \in {"open", "find", "close"})
    BY <1>4 DEF FindStep, FindReturns, CloseCall, FindCall
  <2> QED BY <2>1, SameHeld DEF metaVars, sizeVars, bufVars
<1>5. CASE Close
  BY <1>5, CloseHeld
<1>6. CASE UNCHANGED vars
  BY <1>6, SameHeld DEF vars, metaVars, sizeVars, bufVars
<1> QED BY <1>1, <1>2, <1>3, <1>4, <1>5, <1>6 DEF Next, Step, Terminated

(* What is alive is what the handle points at and counts. *)
THEOREM HeldCorrect == Spec => []HeldInv
<1>1. Init => HeldInv
  BY InitHeld
<1>2. IInv /\ HeldInv /\ [Next]_vars => HeldInv'
  BY NextHeld
<1> QED BY <1>1, <1>2, OpenInvariant, PTL DEF Spec

(* xq_reader_close frees nothing that is not there, and, whichever step of *)
(* xq_reader_open failed, all that is: except what setup_buffers had when  *)
(* it ran out of memory, and the parts of a dictionary that a second one   *)
(* hides, be it loaded or not.                                             *)
THEOREM CloseIsClean == Spec => []ClosesClean
<1>1. HeldInv => ClosesClean
  <2> SUFFICES ASSUME HeldInv PROVE ClosesClean
    OBVIOUS
  <2>1. Owned = (held \cap Single) \cup Counted
                \cup { b \in { <<"dict", dict>>, <<"ddict", ddict>> } : b[2] # 0 }
    BY DEF Owned, Counted, Single
  <2>2. pc = "close" =>
          \A b \in { <<"dict", dict>>, <<"ddict", ddict>> } : b[2] # 0 => b \in held
    BY DEF HeldInv
  <2> QED BY <2>1, <2>2 DEF HeldInv, ClosesClean
<1> QED BY <1>1, HeldCorrect, PTL

=============================================================================
