----------------------------- MODULE ReaderOpen ------------------------------
(***************************************************************************)
(* Opening an archive for random access (src/core/xq_reader.c):            *)
(* xq_reader_open checks header, footer and index, loads the dictionary,   *)
(* and allocates the block cache and the decode slots within a memory      *)
(* limit; then the binary search of the index, and xq_reader_close.        *)
(*                                                                         *)
(* An archive is what its fixed structures say: the fields of header and   *)
(* footer with the status that parsing them gives, the index record with   *)
(* its entries, and the records between the header and the first block.    *)
(* held is the set of allocations and mappings that are alive.             *)
(*                                                                         *)
(* Granularity: one step per function that may fail and per allocation.    *)
(***************************************************************************)
EXTENDS Integers, Sequences

CONSTANTS Cases,        \* the [file, opts] pairs to open
          Word,         \* 2^64
          HdrSize, FtrSize, RecHdr, BlkHdr, Preamble, EntrySize,
          BlockMax,     \* XQ_BLOCK_SIZE_MAX
          RegionMax,    \* XQ_DICT_SIZE_MAX + 2^20
          CacheDefault, \* XQ_CACHE_BLOCKS_DEFAULT
          CbufCap,      \* the size of a staging buffer for each block size
          MaxFinds      \* bound: how often the index is searched

OK == 0
ErrOOM == 3
ErrMemlimit == 4
ErrBadMagic == 16
ErrUnsupportedVersion == 17
ErrUnsupportedCodec == 18
ErrUnsupportedFeature == 19
ErrCorruptHeader == 32
ErrCorruptRecord == 33
ErrCorruptBlock == 34
ErrCorruptIndex == 35
ErrCorruptFooter == 36
ErrTruncated == 37
ErrIO == 48
ErrInternal == 49
Statuses == {OK, ErrOOM, ErrMemlimit, ErrBadMagic, ErrUnsupportedVersion, ErrUnsupportedCodec,
             ErrUnsupportedFeature, ErrCorruptHeader, ErrCorruptRecord, ErrCorruptBlock,
             ErrCorruptIndex, ErrCorruptFooter, ErrTruncated, ErrIO, ErrInternal}
(* What parsing a file header gives. *)
HeaderStatuses == {OK, ErrBadMagic, ErrUnsupportedVersion, ErrUnsupportedFeature, ErrCorruptHeader}
Unknown == -1           \* XQ_SIZE_UNKNOWN

U64 == 0 .. Word - 1

(* st: what parsing the record header gives; ok: its checksum holds; pst,   *)
(* dst: what parsing and decoding a dictionary gives; raw: its size.        *)
Record == [st : {OK, ErrCorruptRecord}, size : U64, ok : BOOLEAN, tag : {"dict", "eob", "other"},
           critical : BOOLEAN, pst : {OK, ErrCorruptRecord, ErrUnsupportedFeature},
           dst : {OK, ErrCorruptRecord, ErrCorruptBlock, ErrUnsupportedFeature, ErrUnsupportedCodec}, raw : U64]
Index == [st : {OK, ErrCorruptRecord}, tagged : BOOLEAN, size : U64, count : U64, total : U64, ok : BOOLEAN]
Entry == [file : U64, raw : U64]

IsFile(f) ==
  /\ f.size \in U64 /\ f.hst \in HeaderStatuses /\ f.hsize \in U64 /\ f.hraw \in U64 \cup {Unknown}
  /\ f.bs \in 1 .. BlockMax /\ f.codec \in {"unknown", "plain", "ctx"} /\ f.dict \in BOOLEAN
  /\ f.fst \in {OK, ErrCorruptFooter} /\ f.ioff \in U64 /\ f.isize \in U64
  /\ f.index \in Index
  /\ f.ents \in Seq(Entry)
  /\ Len(f.ents) = IF f.index.size < Preamble THEN 0 ELSE (f.index.size - Preamble) \div EntrySize
  /\ f.meta \in Seq(Record)

IsOpts(o) == o.cache \in Nat /\ o.threads \in Nat /\ o.limit \in Nat

ASSUME SizesAssumption ==
  /\ Word \in Nat /\ MaxFinds \in Nat
  /\ HdrSize \in Nat \ {0} /\ FtrSize \in Nat /\ RecHdr \in Nat \ {0} /\ BlkHdr \in Nat \ {0}
  /\ Preamble \in Nat \ {0} /\ EntrySize \in Nat \ {0}
  /\ BlockMax \in Nat \ {0} /\ RegionMax \in Nat /\ CacheDefault \in Nat \ {0}
  /\ CbufCap \in [1 .. BlockMax -> Nat \ {0}]

ASSUME CasesAssumption == \A c \in Cases : IsFile(c.file) /\ IsOpts(c.opts)

VARIABLES file, opts,
          pc, st,
          held,              \* allocations and mappings that are alive
          maps,              \* [off, len] of the mappings made
          nentries,          \* r->nentries; 0 while r->entries is not set
          rec, remain,       \* the record load_meta is at, and remain
          dict, ddict,       \* the records r->dict_bytes and r->ddict are from, or 0
          ncache, nslots,    \* how many cache entries and slots are wanted
          allocs,            \* how many buffers setup_buffers has allocated
          cache_n, slots_n,  \* r->cache_n and r->nslots
          oom,               \* an allocation of setup_buffers failed
          off, lo, hi, finds \* the search in the index

caseVars == <<file, opts>>
metaVars == <<rec, remain, dict, ddict>>
sizeVars == <<ncache, nslots>>
bufVars == <<allocs, cache_n, slots_n, oom>>
findVars == <<off, lo, hi, finds>>
vars == <<caseVars, pc, st, held, maps, nentries, metaVars, sizeVars, bufVars, findVars>>

Pc == {"new", "tail", "ctx", "index", "check", "meta", "record", "setup", "alloc", "open", "find", "close", "closed"}
RawOf(i) == file.ents[i + 1].raw
FileOf(i) == file.ents[i + 1].file

TypeOK ==
  /\ IsFile(file) /\ IsOpts(opts) /\ pc \in Pc /\ st \in Statuses
  /\ nentries \in 0 .. Len(file.ents)
  /\ rec \in Nat /\ remain \in Nat /\ dict \in 0 .. Len(file.meta) /\ ddict \in 0 .. Len(file.meta)
  /\ ncache \in Nat \ {0} /\ nslots \in Nat \ {0} /\ cache_n \in {0, ncache} /\ slots_n \in {0, nslots}
  /\ allocs \in Nat /\ oom \in BOOLEAN /\ off \in Nat /\ lo \in Nat /\ hi \in Nat /\ finds \in 0 .. MaxFinds

Init ==
  /\ \E c \in Cases : file = c.file /\ opts = c.opts
  /\ pc = "new" /\ st = OK /\ held = {} /\ maps = {} /\ nentries = 0
  /\ rec = 1 /\ remain = 0 /\ dict = 0 /\ ddict = 0
  /\ ncache = 1 /\ nslots = 1 /\ allocs = 0 /\ cache_n = 0 /\ slots_n = 0 /\ oom = FALSE
  /\ off = 0 /\ lo = 0 /\ hi = 0 /\ finds = 0

-----------------------------------------------------------------------------

(* The status of the first check that fails. *)
s ++ t == IF s # OK THEN s ELSE t

(* A check that fails when b holds. *)
When(b, s) == IF b THEN s ELSE OK

(* goto fail *)
Fail(s) == st' = s /\ pc' = "close"

(* The handle and the descriptor; only without memory for the handle is     *)
(* there nothing to close.  A mutex or condition variable is no allocation: *)
(* that close destroys those a failed init never made is not seen here.     *)
OpenFile ==
  /\ pc = "new"
  /\ \/ st' = ErrOOM /\ pc' = "closed" /\ UNCHANGED held
     \/ held' = {<<"handle", 0>>} /\ (\E s \in {ErrInternal, ErrIO} : Fail(s))
     \/ held' = {<<"handle", 0>>, <<"fd", 0>>} /\ Fail(ErrIO)
     \/ held' = {<<"handle", 0>>, <<"fd", 0>>} /\ pc' = "tail" /\ UNCHANGED st
  /\ UNCHANGED <<caseVars, maps, nentries, metaVars, sizeVars, bufVars, findVars>>

(* A read that fails, or comes short because the file has shrunk. *)
ReadFails ==
  /\ pc \in {"tail", "index"}
  /\ \E s \in {ErrIO, ErrTruncated} : Fail(s)
  /\ UNCHANGED <<caseVars, held, maps, nentries, metaVars, sizeVars, bufVars, findVars>>

(* Seeded fault: the sum of offset and length may wrap. *)
RangeOkWraps(o, len, limit) == (o + len) % Word <= limit

(* xq_range_ok *)
RangeOk(o, len, limit) == o + len < Word /\ o + len <= limit

FooterStatus ==
  file.fst
  ++ When(file.ioff = 0 /\ file.isize # 0, ErrCorruptFooter)
  ++ When(file.ioff # 0 /\ file.isize < RecHdr + Preamble, ErrCorruptFooter)
  ++ When(file.ioff # 0 /\ file.ioff < HdrSize, ErrCorruptFooter)

TailStatus ==
  When(file.size < HdrSize + FtrSize, ErrTruncated)
  ++ file.hst
  ++ When(file.hsize < HdrSize, ErrCorruptHeader)
  ++ FooterStatus
  ++ When(file.ioff = 0, ErrCorruptIndex)
  ++ When(~RangeOk(file.ioff, file.isize, file.size - FtrSize), ErrCorruptIndex)

LoadTail ==
  /\ pc = "tail"
  /\ IF TailStatus = OK THEN pc' = "ctx" /\ UNCHANGED st ELSE Fail(TailStatus)
  /\ UNCHANGED <<caseVars, held, maps, nentries, metaVars, sizeVars, bufVars, findVars>>

Context ==
  /\ pc = "ctx"
  /\ \/ file.codec = "unknown" /\ Fail(ErrUnsupportedCodec) /\ UNCHANGED held
     \/ file.codec = "plain" /\ pc' = "index" /\ UNCHANGED <<st, held>>
     \/ file.codec = "ctx" /\ Fail(ErrOOM) /\ UNCHANGED held
     \/ file.codec = "ctx" /\ held' = held \cup {<<"dctx", 0>>} /\ pc' = "index" /\ UNCHANGED st
  /\ UNCHANGED <<caseVars, maps, nentries, metaVars, sizeVars, bufVars, findVars>>

-----------------------------------------------------------------------------
(* load_index *)

MapIndexStatus ==
  file.index.st
  ++ When(~file.index.tagged, ErrCorruptIndex)
  ++ When(file.index.size # file.isize - RecHdr, ErrCorruptIndex)
  ++ When(file.index.size < Preamble, ErrCorruptIndex)

MapIndex ==
  /\ pc = "index"
  /\ IF MapIndexStatus = OK
     THEN /\ held' = held \cup {<<"index", 0>>} /\ maps' = maps \cup {[off |-> file.ioff + RecHdr, len |-> file.index.size]}
          /\ pc' = "check" /\ UNCHANGED st
     ELSE Fail(MapIndexStatus) /\ UNCHANGED <<held, maps>>
  /\ UNCHANGED <<caseVars, nentries, metaVars, sizeVars, bufVars, findVars>>

(* xq_fmt_index_payload_size: 0 when it would not fit in 64 bits. *)
PayloadSize(count) ==
  LET total == (count + 1) * EntrySize + Preamble IN IF total < Word THEN total ELSE 0

(* Seeded fault: the raw offsets need only not decrease. *)
StepBadEqual(i) ==
  \/ FileOf(i) <= FileOf(i - 1)
  \/ RawOf(i) < RawOf(i - 1)
  \/ FileOf(i) - FileOf(i - 1) < BlkHdr
  \/ RawOf(i) - RawOf(i - 1) > BlockMax
  \/ FileOf(i) > file.size

(* The body of the loop of xq_fmt_index_validate. *)
StepBad(i) ==
  \/ FileOf(i) <= FileOf(i - 1)
  \/ RawOf(i) <= RawOf(i - 1)
  \/ FileOf(i) - FileOf(i - 1) < BlkHdr
  \/ RawOf(i) - RawOf(i - 1) > BlockMax
  \/ FileOf(i) > file.size

(* xq_fmt_index_validate *)
IndexBad(count) ==
  \/ count = 0
  \/ FileOf(0) < HdrSize
  \/ RawOf(0) # 0
  \/ \E i \in 1 .. count : StepBad(i)
  \/ RawOf(count) # file.index.total

CheckIndex ==
  LET count == file.index.count
      want == PayloadSize(count)
  IN
  /\ pc = "check"
  /\ IF want = 0 \/ want # file.index.size \/ ~file.index.ok
     THEN Fail(ErrCorruptIndex) /\ UNCHANGED nentries
     ELSE /\ nentries' = count + 1
          /\ IF IndexBad(count) \/ (file.hraw # Unknown /\ file.hraw # file.index.total)
             THEN Fail(ErrCorruptIndex)
             ELSE pc' = "meta" /\ UNCHANGED st
  /\ UNCHANGED <<caseVars, held, maps, metaVars, sizeVars, bufVars, findVars>>

-----------------------------------------------------------------------------
(* load_meta *)

Region == FileOf(0) - file.hsize

(* What load_meta returns when its loop has ended with status s. *)
MetaEnds(s) ==
  LET t == IF s = OK /\ file.dict /\ ddict = 0 THEN ErrCorruptRecord ELSE s IN
  IF t = OK THEN pc' = "setup" /\ UNCHANGED st ELSE Fail(t)

MapMetaStatus ==
  When(FileOf(0) < file.hsize, ErrCorruptIndex)
  ++ When(Region > RegionMax, ErrCorruptRecord)
  ++ When(opts.limit # 0 /\ Region > opts.limit, ErrMemlimit)

MapMeta ==
  /\ pc = "meta"
  /\ MapMetaStatus = OK /\ Region > 0
  /\ held' = held \cup {<<"meta", 0>>} /\ maps' = maps \cup {[off |-> file.hsize, len |-> Region]}
  /\ remain' = Region
  /\ pc' = "record"
  /\ UNCHANGED <<caseVars, st, nentries, rec, dict, ddict, sizeVars, bufVars, findVars>>

(* An archive without records is not asked for the dictionary it promises.  *)
NoMeta ==
  /\ pc = "meta"
  /\ IF MapMetaStatus # OK THEN Fail(MapMetaStatus) ELSE Region = 0 /\ pc' = "setup" /\ UNCHANGED st
  /\ UNCHANGED <<caseVars, held, maps, nentries, metaVars, sizeVars, bufVars, findVars>>

(* xq_file_map: neither mmap nor reading into a buffer works. *)
MapFails ==
  /\ \/ pc = "index" /\ MapIndexStatus = OK
     \/ pc = "meta" /\ MapMetaStatus = OK /\ Region > 0
  /\ \E s \in {ErrOOM, ErrIO, ErrTruncated} : Fail(s)
  /\ UNCHANGED <<caseVars, held, maps, nentries, metaVars, sizeVars, bufVars, findVars>>

(* Bytes that are no record do not parse as one. *)
Here == IF rec <= Len(file.meta) THEN file.meta[rec]
        ELSE [st |-> ErrCorruptRecord, size |-> 0, ok |-> FALSE, tag |-> "other", critical |-> FALSE,
              pst |-> OK, dst |-> OK, raw |-> 0]

RecordStatus ==
  Here.st
  ++ When(Here.size > remain - RecHdr, ErrCorruptRecord)
  ++ When(~Here.ok, ErrCorruptRecord)
  ++ When(Here.tag = "dict" /\ Here.pst # OK, Here.pst)
  ++ When(Here.tag = "dict" /\ opts.limit # 0 /\ Here.raw > opts.limit, ErrMemlimit)
  ++ When(Here.tag = "other" /\ Here.critical, ErrUnsupportedFeature)

(* The records are through, or too few bytes are left for one. *)
MetaDone ==
  /\ pc = "record" /\ remain < RecHdr
  /\ held' = held \ {<<"meta", 0>>}
  /\ UNCHANGED <<dict, ddict>> /\ MetaEnds(OK)
  /\ UNCHANGED <<caseVars, maps, nentries, rec, remain, sizeVars, bufVars, findVars>>

(* Seeded fault: an error leaves the mapping of the records. *)
MetaRecordBadKeeps ==
  /\ pc = "record" /\ remain >= RecHdr /\ RecordStatus # OK
  /\ UNCHANGED <<held, dict, ddict>> /\ MetaEnds(RecordStatus)
  /\ UNCHANGED <<caseVars, maps, nentries, rec, remain, sizeVars, bufVars, findVars>>

MetaRecordBad ==
  /\ pc = "record" /\ remain >= RecHdr /\ RecordStatus # OK
  /\ held' = held \ {<<"meta", 0>>}
  /\ UNCHANGED <<dict, ddict>> /\ MetaEnds(RecordStatus)
  /\ UNCHANGED <<caseVars, maps, nentries, rec, remain, sizeVars, bufVars, findVars>>

(* The dictionary is bad, or there is no memory for it: it is freed.  When  *)
(* ddict_new has none, its NULL has already replaced the handle of a        *)
(* dictionary loaded before.                                                *)
DictFails ==
  /\ pc = "record" /\ remain >= RecHdr /\ RecordStatus = OK /\ Here.tag = "dict"
  /\ held' = held \ {<<"meta", 0>>}
  /\ \/ UNCHANGED ddict /\ (MetaEnds(ErrOOM) \/ (Here.dst # OK /\ MetaEnds(Here.dst)))
     \/ ddict' = 0 /\ Here.dst = OK /\ MetaEnds(ErrOOM)
  /\ UNCHANGED <<caseVars, maps, nentries, rec, remain, dict, sizeVars, bufVars, findVars>>

(* A second dictionary takes the place of the first one. *)
DictLoad ==
  /\ pc = "record" /\ remain >= RecHdr /\ RecordStatus = OK /\ Here.tag = "dict" /\ Here.dst = OK
  /\ held' = held \cup {<<"dict", rec>>, <<"ddict", rec>>}
  /\ dict' = rec /\ ddict' = rec /\ rec' = rec + 1 /\ remain' = remain - (RecHdr + Here.size)
  /\ UNCHANGED <<caseVars, pc, st, maps, nentries, sizeVars, bufVars, findVars>>

RecordSkip ==
  /\ pc = "record" /\ remain >= RecHdr /\ RecordStatus = OK /\ Here.tag # "dict"
  /\ rec' = rec + 1 /\ remain' = remain - (RecHdr + Here.size)
  /\ UNCHANGED <<caseVars, pc, st, held, maps, nentries, dict, ddict, sizeVars, bufVars, findVars>>

-----------------------------------------------------------------------------
(* setup_buffers *)

Cap == CbufCap[file.bs]
Larger(a, b) == IF a >= b THEN a ELSE b
Smaller(a, b) == IF a <= b THEN a ELSE b

(* Seeded fault: a decode slot is taken to need its block only. *)
SlotBytesBlock == file.bs

Room(bytes, per) == Larger(1, bytes \div per)

SlotBytes == Cap + file.bs

Overhead == file.bs + Cap

SetupBuffers ==
  /\ pc = "setup"
  /\ \E threads \in (IF opts.threads > 0 THEN {opts.threads} ELSE 1 .. 4) :
       LET cache == IF opts.cache > 0 THEN opts.cache ELSE CacheDefault IN
       IF opts.limit = 0
       THEN ncache' = cache /\ nslots' = threads /\ pc' = "alloc" /\ UNCHANGED st
       ELSE IF Overhead > opts.limit
       THEN Fail(ErrMemlimit) /\ UNCHANGED sizeVars
       ELSE /\ ncache' = Smaller(cache, Room(opts.limit - Overhead, file.bs))
            /\ nslots' = Smaller(threads, Room(opts.limit, SlotBytes))
            /\ pc' = "alloc" /\ UNCHANGED st
  /\ UNCHANGED <<caseVars, held, maps, nentries, metaVars, bufVars, findVars>>

(* In the order of the code: the staging buffer, the cache and its blocks,  *)
(* the slots and the buffers of each.                                       *)
SlotParts == IF file.codec = "ctx" THEN <<"scbuf", "sraw", "sdctx">> ELSE <<"scbuf", "sraw">>
Data(n) == [i \in 1 .. n |-> <<"data", i>>]
SlotBufs(n) == [k \in 1 .. n * Len(SlotParts) |->
                 <<SlotParts[((k - 1) % Len(SlotParts)) + 1], ((k - 1) \div Len(SlotParts)) + 1>>]
Order == << <<"cbuf", 0>>, <<"cache", 0>> >> \o Data(ncache) \o << <<"slots", 0>> >> \o SlotBufs(nslots)
Elems(s) == { s[k] : k \in DOMAIN s }

(* r->cache_n is set when all blocks of the cache are there. *)
Alloc ==
  /\ pc = "alloc" /\ allocs < Len(Order)
  /\ held' = held \cup {Order[allocs + 1]}
  /\ allocs' = allocs + 1
  /\ cache_n' = IF allocs + 1 = 2 + ncache THEN ncache ELSE cache_n
  /\ UNCHANGED <<caseVars, pc, st, maps, nentries, metaVars, sizeVars, slots_n, oom, findVars>>

(* Both buffers of a slot are asked for before either is looked at. *)
AllocFails ==
  /\ pc = "alloc" /\ allocs < Len(Order)
  /\ LET next == Order[allocs + 1] IN
     IF next[1] = "scbuf" THEN held' \in {held, held \cup {<<"sraw", next[2]>>}} ELSE UNCHANGED held
  /\ oom' = TRUE
  /\ Fail(ErrOOM)
  /\ UNCHANGED <<caseVars, maps, nentries, metaVars, sizeVars, allocs, cache_n, slots_n, findVars>>

(* r->nslots is set at the end. *)
OpenReturnsHandle ==
  /\ pc = "alloc" /\ allocs = Len(Order)
  /\ slots_n' = nslots
  /\ pc' = "open"
  /\ UNCHANGED <<caseVars, st, held, maps, nentries, metaVars, sizeVars, allocs, cache_n, oom, findVars>>

-----------------------------------------------------------------------------
(* xq_fmt_index_find, as xq_reader_pread calls it: inside the stream *)

FindCall(o) ==
  /\ pc = "open" /\ finds < MaxFinds
  /\ o < file.index.total
  /\ off' = o /\ lo' = 0 /\ hi' = nentries - 1
  /\ finds' = finds + 1 /\ pc' = "find"
  /\ UNCHANGED <<caseVars, st, held, maps, nentries, metaVars, sizeVars, bufVars>>

Found == hi - lo <= 1

(* Seeded fault: a block does not hold its first byte. *)
FindStepBefore ==
  LET mid == lo + ((hi - lo) \div 2) IN
  /\ pc = "find" /\ ~Found
  /\ IF RawOf(mid) < off THEN lo' = mid /\ UNCHANGED hi ELSE hi' = mid /\ UNCHANGED lo
  /\ UNCHANGED <<caseVars, pc, st, held, maps, nentries, metaVars, sizeVars, bufVars, off, finds>>

FindStep ==
  LET mid == lo + ((hi - lo) \div 2) IN
  /\ pc = "find" /\ ~Found
  /\ IF RawOf(mid) <= off THEN lo' = mid /\ UNCHANGED hi ELSE hi' = mid /\ UNCHANGED lo
  /\ UNCHANGED <<caseVars, pc, st, held, maps, nentries, metaVars, sizeVars, bufVars, off, finds>>

FindReturns ==
  /\ pc = "find" /\ Found
  /\ pc' = "open"
  /\ UNCHANGED <<caseVars, st, held, maps, nentries, metaVars, sizeVars, bufVars, findVars>>

-----------------------------------------------------------------------------
(* xq_reader_close *)

(* What close frees: it counts on cache_n and nslots. *)
Owned ==
  (held \cap { <<n, 0>> : n \in {"handle", "fd", "cbuf", "cache", "slots", "dctx", "index"} })
    \cup Elems(Data(cache_n)) \cup Elems(SlotBufs(slots_n))
    \cup { b \in { <<"dict", dict>>, <<"ddict", ddict>> } : b[2] # 0 }

CloseCall ==
  /\ pc = "open"
  /\ pc' = "close"
  /\ UNCHANGED <<caseVars, st, held, maps, nentries, metaVars, sizeVars, bufVars, findVars>>

Close ==
  /\ pc = "close"
  /\ held' = held \ Owned
  /\ pc' = "closed"
  /\ UNCHANGED <<caseVars, st, maps, nentries, metaVars, sizeVars, bufVars, findVars>>

Terminated == pc = "closed" /\ UNCHANGED vars

Step ==
  \/ OpenFile \/ ReadFails \/ LoadTail \/ Context \/ MapIndex \/ CheckIndex
  \/ MapMeta \/ NoMeta \/ MapFails \/ MetaDone \/ MetaRecordBad \/ DictFails \/ DictLoad \/ RecordSkip
  \/ SetupBuffers \/ Alloc \/ AllocFails \/ OpenReturnsHandle
  \/ FindStep \/ FindReturns \/ Close

Next == Step \/ CloseCall \/ (\E o \in U64 : FindCall(o)) \/ Terminated

Spec == Init /\ [][Next]_vars

-----------------------------------------------------------------------------
(* Correctness *)

(* Nothing outside the file is mapped (reading it would raise SIGBUS), and  *)
(* no entry outside the mapping of the index is read.                       *)
MapsInFile ==
  /\ \A m \in maps : m.off + m.len <= file.size
  /\ nentries > 0 => Preamble + nentries * EntrySize <= file.index.size

(* What a handle that is open stands for, and what the concurrent reads     *)
(* rest on (ReaderCache): the blocks follow each other in stream and file,  *)
(* none is empty, each has room for its header, the last one ends where the *)
(* stream does, they lie in the file behind the records; there are a cache  *)
(* and a slot; and a promised dictionary in front of the blocks was loaded. *)
OpenedSound ==
  pc \in {"open", "find"} =>
    /\ nentries >= 2 /\ RawOf(0) = 0 /\ RawOf(nentries - 1) = file.index.total
    /\ file.hraw \in {Unknown, file.index.total}
    /\ \A i, j \in 0 .. nentries - 1 : i < j =>
         RawOf(i) < RawOf(j) /\ FileOf(i) + BlkHdr <= FileOf(j)
    /\ \A i \in 0 .. nentries - 1 : file.hsize <= FileOf(i) /\ FileOf(i) <= file.size
    /\ cache_n = ncache /\ slots_n = nslots
    /\ file.dict /\ Region > 0 => dict # 0 /\ ddict = dict

(* A part of a dictionary that the handle has no pointer to any more: a     *)
(* later one has replaced it, or the NULL that ddict_new has returned.      *)
Hidden(b) ==
  \/ \E k \in 1 .. dict - 1 : b \in {<<"dict", k>>, <<"ddict", k>>}
  \/ ddict = 0 /\ st = ErrOOM /\ b = <<"ddict", dict>>

(* Close never frees what is not allocated, and leaves nothing behind,      *)
(* whatever failed on the way, but for three leaks: when an allocation of   *)
(* setup_buffers fails (the counts that close goes by are not yet set);     *)
(* when a second dictionary hides the first; and when ddict_new, out of     *)
(* memory for a further one, leaves NULL in place of the handle there was.  *)
ClosesClean ==
  /\ pc = "close" => Owned \subseteq held
  /\ pc = "closed" /\ ~oom => \A b \in held : Hidden(b)

Buffers == Cap + ncache * file.bs + nslots * (Cap + file.bs)

(* mem_limit bounds the cache by itself, with the buffers a handle has     *)
(* anyway, and the slots by themselves: the buffers of a handle never take *)
(* more than twice of it (USAGE.md:333 has it shrink both to fit).         *)
BuffersBounded == pc = "open" /\ opts.limit # 0 => Buffers <= 2 * opts.limit

(* The block found holds the byte asked for. *)
FindRight ==
  pc = "find" /\ Found => lo + 1 < nentries /\ RawOf(lo) <= off /\ off < RawOf(lo + 1)

=============================================================================
