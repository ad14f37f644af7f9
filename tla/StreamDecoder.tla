---------------------------- MODULE StreamDecoder ----------------------------
(***************************************************************************)
(* The streaming decoder (src/core/xq_decoder.c): xq_decoder_create and    *)
(* xq_decoder_read pull an archive through a source callback that may      *)
(* deliver fewer bytes than asked for, fail, or end anywhere.              *)
(*                                                                         *)
(* The archive is a sequence of units (file header, records, blocks), each *)
(* with the position of its first byte, the length of its header and of    *)
(* what follows, and the status that checking the one and the other gives. *)
(* Buffers hold positions of the archive, so a byte put in the wrong place *)
(* or read twice shows.  Byte k of the block in unit u is <<u, k>>.        *)
(*                                                                         *)
(* Granularity: one step per call of the source and per decision between   *)
(* two of them.                                                            *)
(***************************************************************************)
EXTENDS Integers, Sequences

CONSTANTS Files,      \* the archives to decode
          HeadLen,    \* XQ_FILE_HEADER_SIZE
          MagicLen,   \* the two bytes that tell a block from a record
          RecLen,     \* XQ_RECORD_HEADER_SIZE
          BlkLen,     \* XQ_BLOCK_HEADER_SIZE
          RBufSize,   \* XQ_RBUF_SIZE
          RawCap,     \* the block size the file header promises
          Lens,       \* the lengths the caller reads with
          MaxCalls    \* bound: calls of xq_decoder_read

ASSUME SizeAssumption ==
  /\ HeadLen \in Nat \ {0} /\ MagicLen \in Nat \ {0} /\ RecLen \in Nat /\ BlkLen \in Nat
  /\ RBufSize \in Nat /\ RawCap \in Nat /\ Lens \subseteq Nat /\ MaxCalls \in Nat
  /\ MagicLen <= RecLen /\ MagicLen <= BlkLen
  /\ HeadLen <= RBufSize /\ RecLen <= RBufSize /\ BlkLen <= RBufSize

(* xq_status *)
OK == 0
ErrOOM == 3
ErrMemlimit == 4
ErrUnsupportedFeature == 19
ErrCorruptHeader == 32
ErrCorruptRecord == 33
ErrCorruptBlock == 34
ErrTruncated == 37
ErrIO == 48
Statuses == {OK, ErrOOM, ErrMemlimit, ErrUnsupportedFeature, ErrCorruptHeader, ErrCorruptRecord,
             ErrCorruptBlock, ErrTruncated, ErrIO}

Kinds == {"head", "block", "dict", "skip", "eob"}

(* at: where the unit begins; hlen, body, ck: the lengths of its header, of *)
(* its payload as the header says (of the rest of a longer file header), of  *)
(* the checksum; raw, off: raw_size and raw_offset of a block; needs: it     *)
(* uses the dictionary; hst, chk, st: the status that parsing the header     *)
(* gives, that the checks before the payload is read give, and that the      *)
(* payload gives.  "skip" is a record of any other tag.                      *)
Unit == [kind : Kinds, at : Nat, hlen : Nat, body : Nat, ck : Nat, raw : Nat, off : Nat,
         needs : BOOLEAN, hst : Statuses, chk : Statuses, st : Statuses]

UnitEnd(u) == u.at + u.hlen + u.body + u.ck

HeaderLen(k) == IF k = "head" THEN HeadLen ELSE IF k = "block" THEN BlkLen ELSE RecLen

(* An archive begins with a file header, and its units follow each other,   *)
(* except that the size in the header of a skipped record, which is not      *)
(* verified, may be wrong.  There are no checks between the file header and  *)
(* what follows it, and of some payloads nothing is checked.                 *)
IsFile(f) ==
  /\ f \in Seq(Unit) /\ Len(f) > 0
  /\ f[1].kind = "head" /\ f[1].at = 0 /\ f[1].body <= RBufSize
  /\ \A i \in 1 .. Len(f) :
       /\ f[i].hlen = HeaderLen(f[i].kind)
       /\ i > 1 => /\ f[i].kind # "head"
                   /\ f[i].at >= f[i - 1].at + f[i - 1].hlen
                   /\ f[i - 1].kind # "skip" => f[i].at = UnitEnd(f[i - 1])
       /\ f[i].kind = "block" => f[i].raw > 0
       /\ f[i].kind # "block" => f[i].ck = 0
       /\ f[i].kind = "eob" => f[i].body = 0
       /\ f[i].kind = "head" => f[i].chk = OK
       /\ f[i].kind \in {"eob", "skip"} => f[i].st = OK

FileEnd(f) == UnitEnd(f[Len(f)])

ASSUME FilesAssumption == \A f \in Files : IsFile(f)

VARIABLES file, cut,       \* the archive, and where the source ends
          srcpos,          \* the position the source is at
          rbuf, rpos,      \* d->rbuf, up to d->rlen, and d->rpos
          eof,             \* d->src_eof
          dst, remain,     \* what read_exact has read, and what it still has to
          cur,             \* the unit whose header was parsed last
          raw, raw_pos,    \* d->raw up to d->raw_len, and d->raw_pos
          raw_offset,      \* d->raw_offset
          ddict, saw_eob,
          sticky,          \* d->sticky
          pc,              \* where the caller's thread is
          len, got,        \* len, and the done bytes, of the call of xq_decoder_read
          ret,             \* what the last call returned
          out,             \* all bytes that calls have returned
          calls            \* calls left

srcVars  == <<file, cut, srcpos>>
bufVars  == <<rbuf, rpos, eof>>
unitVars == <<dst, remain, cur>>
rawVars  == <<raw, raw_pos, raw_offset, ddict, saw_eob>>
callVars == <<len, got, ret, out, calls>>
vars == <<srcVars, bufVars, unitVars, rawVars, sticky, pc, callVars>>

(* How many bytes need() is asked for at each place that calls it. *)
Needs == [head |-> HeadLen, extra |-> IF file = <<>> THEN 0 ELSE file[1].body,
          magic |-> MagicLen, record |-> RecLen, block |-> BlkLen]
Creating == {"head", "extra", "setup"}
Exact == {"payload", "cksum", "dict"}
Pc == DOMAIN Needs \cup Exact \cup {"setup", "skip", "decode", "read", "idle", "closed"}

Positions == 0 .. cut - 1
Byte == Nat \X Nat

(* The sixth conjunct says that need and read_exact never write past the    *)
(* buffers, the last one that no memcpy runs past the caller's.             *)
TypeOK ==
  /\ file \in Files /\ cut \in 0 .. FileEnd(file)
  /\ srcpos \in 0 .. cut
  /\ rbuf \in Seq(Positions) /\ rpos \in 0 .. Len(rbuf) /\ eof \in BOOLEAN
  /\ dst \in Seq(Positions) /\ remain \in Nat
  /\ cur \in DOMAIN file
  /\ Len(rbuf) <= RBufSize
  /\ raw \in Seq(Byte) /\ raw_pos \in 0 .. Len(raw) /\ Len(raw) <= RawCap
  /\ raw_offset \in Nat /\ ddict \in BOOLEAN /\ saw_eob \in BOOLEAN
  /\ sticky \in Statuses /\ pc \in Pc
  /\ len \in Nat /\ got \in Seq(Byte) /\ ret \in Int /\ out \in Seq(Byte) /\ calls \in Nat
  /\ Len(got) <= len

Init ==
  /\ file \in Files
  /\ cut \in 0 .. FileEnd(file)
  /\ srcpos = 0
  /\ rbuf = <<>> /\ rpos = 0 /\ eof = FALSE
  /\ dst = <<>> /\ remain = 0 /\ cur = 1
  /\ raw = <<>> /\ raw_pos = 0 /\ raw_offset = 0
  /\ ddict = FALSE /\ saw_eob = FALSE /\ sticky = OK
  /\ pc = "head"
  /\ len = 0 /\ got = <<>> /\ ret = 0 /\ out = <<>> /\ calls = MaxCalls

-----------------------------------------------------------------------------
(* The source and the read buffer *)

Smaller(a, b) == IF a <= b THEN a ELSE b

Avail == Len(rbuf) - rpos
Buffered(n) == SubSeq(rbuf, rpos + 1, rpos + n)

(* What one call of the source may deliver when asked for n bytes: nothing *)
(* at the end (or when asked for nothing), else some of them.              *)
Deliveries(n) ==
  LET most == Smaller(n, cut - srcpos)
  IN  IF most = 0 THEN { <<>> }
      ELSE { [i \in 1 .. k |-> srcpos + i - 1] : k \in 1 .. most }

(* An error leaves xq_decoder_create without a handle, and xq_decoder_read *)
(* with a sticky status and without the bytes this call had copied.        *)
Fail(s) ==
  IF pc \in Creating
  THEN pc' = "closed" /\ UNCHANGED <<sticky, callVars>>
  ELSE /\ pc' = "idle"
       /\ sticky' = s
       /\ ret' = -s
       /\ got' = <<>>
       /\ UNCHANGED <<len, out, calls>>

(* A loop needs bytes the read buffer does not hold. *)
WantsFill ==
  \/ pc \in DOMAIN Needs /\ Avail < Needs[pc]
  \/ pc = "skip" /\ remain > 0 /\ Avail = 0

(* Seeded fault: the bytes not yet consumed are not moved to the front. *)
RbufFillKeeps ==
  /\ WantsFill
  /\ ~eof
  /\ \E d \in Deliveries(RBufSize - Avail) :
       /\ rbuf' = d
       /\ eof' = (d = <<>>)
       /\ srcpos' = srcpos + Len(d)
  /\ rpos' = 0
  /\ UNCHANGED <<file, cut, unitVars, rawVars, sticky, pc, callVars>>

(* rbuf_fill: memmove, then one call of the source for the room that is left. *)
RbufFill ==
  /\ WantsFill
  /\ ~eof
  /\ \E d \in Deliveries(RBufSize - Avail) :
       /\ rbuf' = Buffered(Avail) \o d
       /\ eof' = (d = <<>>)
       /\ srcpos' = srcpos + Len(d)
  /\ rpos' = 0
  /\ UNCHANGED <<file, cut, unitVars, rawVars, sticky, pc, callVars>>

RbufFillFails ==
  /\ WantsFill
  /\ ~eof
  /\ rbuf' = Buffered(Avail)
  /\ rpos' = 0
  /\ Fail(ErrIO)
  /\ UNCHANGED <<srcVars, eof, unitVars, rawVars>>

(* Seeded fault: the skip loop does not look at src_eof. *)
FillTruncatedNoSkip ==
  /\ WantsFill /\ pc # "skip"
  /\ eof
  /\ Fail(ErrTruncated)
  /\ UNCHANGED <<srcVars, bufVars, unitVars, rawVars>>

(* Seeded fault: a source that ends between two units ends the stream. *)
FillTruncatedAtUnit ==
  /\ WantsFill
  /\ eof
  /\ IF pc = "magic" /\ Avail = 0
     THEN saw_eob' = TRUE /\ pc' = "read" /\ UNCHANGED <<sticky, callVars, raw, raw_pos, raw_offset, ddict>>
     ELSE Fail(ErrTruncated) /\ UNCHANGED rawVars
  /\ UNCHANGED <<srcVars, bufVars, unitVars>>

(* need, or the skip loop, meets the end of the source. *)
FillTruncated ==
  /\ WantsFill
  /\ eof
  /\ Fail(ErrTruncated)
  /\ UNCHANGED <<srcVars, bufVars, unitVars, rawVars>>

(* read_exact: first what the read buffer has ... *)
TakeBuffered ==
  LET n == Smaller(remain, Avail) IN
  /\ pc \in Exact
  /\ remain > 0 /\ Avail > 0
  /\ dst' = dst \o Buffered(n)
  /\ rpos' = rpos + n
  /\ remain' = remain - n
  /\ UNCHANGED <<srcVars, rbuf, eof, cur, rawVars, sticky, pc, callVars>>

(* ... then from the source, around the read buffer. *)
ReadDirect ==
  /\ pc \in Exact
  /\ remain > 0 /\ Avail = 0
  /\ ~eof
  /\ \E d \in Deliveries(remain) \ {<<>>} :
       /\ dst' = dst \o d
       /\ remain' = remain - Len(d)
       /\ srcpos' = srcpos + Len(d)
  /\ UNCHANGED <<file, cut, bufVars, cur, rawVars, sticky, pc, callVars>>

ReadDirectFails ==
  /\ pc \in Exact
  /\ remain > 0 /\ Avail = 0
  /\ ~eof
  /\ Fail(ErrIO)
  /\ UNCHANGED <<srcVars, bufVars, unitVars, rawVars>>

ReadTruncated ==
  /\ pc \in Exact
  /\ remain > 0 /\ Avail = 0
  /\ eof \/ <<>> \in Deliveries(remain)
  /\ eof' = TRUE
  /\ Fail(ErrTruncated)
  /\ UNCHANGED <<srcVars, rbuf, rpos, unitVars, rawVars>>

-----------------------------------------------------------------------------
(* xq_decoder_create *)

(* The unit whose header the next bytes of the read buffer are; 0: none. *)
UnitHere ==
  LET Here == { u \in DOMAIN file : file[u].hlen <= Avail /\
                  \A i \in 1 .. file[u].hlen : rbuf[rpos + i] = file[u].at + i - 1 }
  IN  IF Here = {} THEN 0 ELSE CHOOSE u \in Here : TRUE

Have(p) == pc = p /\ Avail >= Needs[p]

(* read_file_header parses the header ... *)
HeadParse ==
  /\ Have("head")
  /\ IF file[1].hst # OK
     THEN Fail(file[1].hst) /\ UNCHANGED rpos
     ELSE /\ rpos' = rpos + HeadLen
          /\ pc' = "extra"
          /\ UNCHANGED <<sticky, callVars>>
  /\ UNCHANGED <<srcVars, rbuf, eof, unitVars, rawVars>>

(* ... skips what a longer header holds ... *)
HeadExtra ==
  /\ Have("extra")
  /\ rpos' = rpos + Needs["extra"]
  /\ pc' = "setup"
  /\ UNCHANGED <<srcVars, rbuf, eof, unitVars, rawVars, sticky, callVars>>

(* ... and allocates for the codec and block size it names. *)
Setup ==
  /\ pc = "setup"
  /\ IF file[1].st = OK THEN pc' = "idle" /\ UNCHANGED <<sticky, callVars>>
                        ELSE Fail(file[1].st)
  /\ UNCHANGED <<srcVars, bufVars, unitVars, rawVars>>

SetupFails ==
  /\ pc = "setup"
  /\ Fail(ErrOOM)
  /\ UNCHANGED <<srcVars, bufVars, unitVars, rawVars>>

-----------------------------------------------------------------------------
(* next_block *)

(* The magic tells a block from a record; nothing is consumed yet.  Bytes  *)
(* where no unit begins may look like either.                              *)
Magic ==
  LET Here == { u \in DOMAIN file : rbuf[rpos + 1] = file[u].at } IN
  /\ Have("magic")
  /\ IF Here = {} THEN pc' \in {"block", "record"}
     ELSE pc' = IF \E u \in Here : file[u].kind = "block" THEN "block" ELSE "record"
  /\ UNCHANGED <<srcVars, bufVars, unitVars, rawVars, sticky, callVars>>

(* Seeded fault: raw_offset is not compared. *)
BlockCheckNoOffset(u) ==
  IF file[u].raw > RawCap THEN ErrMemlimit ELSE file[u].chk

(* The checks on a block's header before its payload is read; chk: that     *)
(* stored_size is at most cbuf_cap.                                         *)
BlockCheck(u) ==
  IF file[u].off # raw_offset THEN ErrCorruptBlock
  ELSE IF file[u].raw > RawCap THEN ErrMemlimit
  ELSE file[u].chk

(* What is not a block header, or not an intact one, fails its CRC. *)
BlockHeaderBad ==
  LET u == UnitHere IN
  /\ Have("block")
  /\ IF u = 0 THEN Fail(ErrCorruptBlock) ELSE file[u].hst # OK /\ Fail(file[u].hst)
  /\ UNCHANGED <<srcVars, bufVars, unitVars, rawVars>>

BlockRefused ==
  LET u == UnitHere IN
  /\ Have("block") /\ u # 0
  /\ file[u].hst = OK /\ BlockCheck(u) # OK
  /\ rpos' = rpos + BlkLen
  /\ Fail(BlockCheck(u))
  /\ UNCHANGED <<srcVars, rbuf, eof, unitVars, rawVars>>

BlockHeader ==
  LET u == UnitHere IN
  /\ Have("block") /\ u # 0
  /\ file[u].hst = OK /\ BlockCheck(u) = OK
  /\ rpos' = rpos + BlkLen
  /\ cur' = u /\ dst' = <<>> /\ remain' = file[u].body
  /\ pc' = "payload"
  /\ UNCHANGED <<srcVars, rbuf, eof, rawVars, sticky, callVars>>

(* The payload is read; its checksum is read by itself. *)
PayloadRead ==
  /\ pc = "payload" /\ remain = 0
  /\ remain' = file[cur].ck
  /\ pc' = "cksum"
  /\ UNCHANGED <<srcVars, bufVars, dst, cur, rawVars, sticky, callVars>>

CksumRead ==
  /\ pc = "cksum" /\ remain = 0
  /\ pc' = "decode"
  /\ UNCHANGED <<srcVars, bufVars, unitVars, rawVars, sticky, callVars>>

(* What read_exact should have read for the current unit. *)
Extent == [i \in 1 .. file[cur].body + file[cur].ck |-> file[cur].at + file[cur].hlen + i - 1]

DecodeStatus ==
  IF dst # Extent THEN ErrCorruptBlock
  ELSE IF file[cur].st # OK THEN file[cur].st
  ELSE IF file[cur].needs /\ ~ddict THEN ErrCorruptBlock
  ELSE OK

DecodeOK ==
  /\ pc = "decode"
  /\ DecodeStatus = OK
  /\ raw' = [k \in 1 .. file[cur].raw |-> <<cur, k - 1>>]
  /\ raw_pos' = 0
  /\ raw_offset' = raw_offset + file[cur].raw
  /\ pc' = "read"
  /\ UNCHANGED <<srcVars, bufVars, unitVars, ddict, saw_eob, sticky, callVars>>

DecodeFails ==
  /\ pc = "decode"
  /\ DecodeStatus # OK
  /\ Fail(DecodeStatus)
  /\ UNCHANGED <<srcVars, bufVars, unitVars, rawVars>>

-----------------------------------------------------------------------------
(* handle_record *)

RecordBad ==
  LET u == UnitHere IN
  /\ Have("record") /\ u # 0
  /\ file[u].hst # OK
  /\ Fail(file[u].hst)
  /\ UNCHANGED <<srcVars, bufVars, unitVars, rawVars>>

(* chk: an END_OF_BLOCKS with a wrong CRC or a payload, a DICT of a size     *)
(* that cannot be, an unknown record that is critical.                       *)
RecordCheck(u) ==
  IF file[u].kind = "dict" /\ ddict THEN ErrCorruptRecord ELSE file[u].chk

RecordRefused ==
  LET u == UnitHere IN
  /\ Have("record") /\ u # 0
  /\ file[u].hst = OK /\ RecordCheck(u) # OK
  /\ rpos' = rpos + RecLen
  /\ Fail(RecordCheck(u))
  /\ UNCHANGED <<srcVars, rbuf, eof, unitVars, rawVars>>

(* The header of a record at hand that passes the checks. *)
RecordHere(u, kind) ==
  /\ Have("record") /\ u # 0
  /\ file[u].kind = kind
  /\ file[u].hst = OK /\ RecordCheck(u) = OK
  /\ rpos' = rpos + RecLen

(* END_OF_BLOCKS: the loops of next_block and xq_decoder_read end. *)
RecordEob ==
  LET u == UnitHere IN
  /\ RecordHere(u, "eob")
  /\ cur' = u
  /\ saw_eob' = TRUE
  /\ pc' = "read"
  /\ UNCHANGED <<srcVars, rbuf, eof, dst, remain, raw, raw_pos, raw_offset, ddict, sticky, callVars>>

(* The payload of a DICT record is read whole ... *)
RecordDict ==
  LET u == UnitHere IN
  /\ RecordHere(u, "dict")
  /\ cur' = u /\ dst' = <<>> /\ remain' = file[u].body
  /\ pc' = "dict"
  /\ UNCHANGED <<srcVars, rbuf, eof, rawVars, sticky, callVars>>

RecordDictOOM ==
  /\ RecordHere(UnitHere, "dict")
  /\ Fail(ErrOOM)
  /\ UNCHANGED <<srcVars, rbuf, eof, unitVars, rawVars>>

(* ... that of any other is skipped. *)
RecordSkip ==
  LET u == UnitHere IN
  /\ RecordHere(u, "skip")
  /\ cur' = u /\ dst' = <<>> /\ remain' = file[u].body
  /\ pc' = "skip"
  /\ UNCHANGED <<srcVars, rbuf, eof, rawVars, sticky, callVars>>

(* Bytes where no record begins pass for one that cannot be, is critical,   *)
(* is too long, or fails its CRC ...                                        *)
GarbageFails ==
  /\ Have("record") /\ UnitHere = 0
  /\ \E s \in {ErrCorruptRecord, ErrUnsupportedFeature, ErrMemlimit, ErrTruncated, ErrOOM, ErrIO} : Fail(s)
  /\ UNCHANGED <<srcVars, bufVars, unitVars, rawVars>>

(* ... or for one of any size to skip, whose CRC is not looked at. *)
GarbageSkip ==
  /\ Have("record") /\ UnitHere = 0
  /\ rpos' = rpos + RecLen
  /\ dst' = <<>> /\ remain' \in 0 .. FileEnd(file)
  /\ pc' = "skip"
  /\ UNCHANGED <<srcVars, rbuf, eof, cur, rawVars, sticky, callVars>>

DictLoad ==
  /\ pc = "dict" /\ remain = 0
  /\ dst = Extent /\ file[cur].st = OK
  /\ ddict' = TRUE
  /\ pc' = "magic"
  /\ UNCHANGED <<srcVars, bufVars, unitVars, raw, raw_pos, raw_offset, saw_eob, sticky, callVars>>

DictFails ==
  /\ pc = "dict" /\ remain = 0
  /\ IF dst # Extent THEN Fail(ErrCorruptRecord)
     ELSE \/ file[cur].st # OK /\ Fail(file[cur].st)
          \/ Fail(ErrOOM)
  /\ UNCHANGED <<srcVars, bufVars, unitVars, rawVars>>

Skip ==
  /\ pc = "skip" /\ remain > 0 /\ Avail > 0
  /\ rpos' = rpos + Smaller(remain, Avail)
  /\ remain' = remain - Smaller(remain, Avail)
  /\ UNCHANGED <<srcVars, rbuf, eof, dst, cur, rawVars, sticky, pc, callVars>>

SkipDone ==
  /\ pc = "skip" /\ remain = 0
  /\ pc' = "magic"
  /\ UNCHANGED <<srcVars, bufVars, unitVars, rawVars, sticky, callVars>>

-----------------------------------------------------------------------------
(* xq_decoder_read *)

(* Seeded fault: the sticky status is not looked at. *)
ReadCallUnchecked(n) ==
  /\ pc = "idle" /\ calls > 0
  /\ calls' = calls - 1
  /\ len' = n /\ got' = <<>>
  /\ pc' = "read"
  /\ UNCHANGED <<srcVars, bufVars, unitVars, rawVars, sticky, ret, out>>

ReadCall(n) ==
  /\ pc = "idle" /\ calls > 0
  /\ calls' = calls - 1
  /\ len' = n /\ got' = <<>>
  /\ IF sticky # OK THEN ret' = -sticky /\ UNCHANGED pc
                    ELSE pc' = "read" /\ UNCHANGED ret
  /\ UNCHANGED <<srcVars, bufVars, unitVars, rawVars, sticky, out>>

Copy ==
  LET n == Smaller(len - Len(got), Len(raw) - raw_pos) IN
  /\ pc = "read" /\ Len(got) < len /\ raw_pos < Len(raw)
  /\ got' = got \o SubSeq(raw, raw_pos + 1, raw_pos + n)
  /\ raw_pos' = raw_pos + n
  /\ UNCHANGED <<srcVars, bufVars, unitVars, raw, raw_offset, ddict, saw_eob, sticky, pc, len, ret, out, calls>>

NextBlock ==
  /\ pc = "read" /\ Len(got) < len /\ raw_pos = Len(raw)
  /\ ~saw_eob
  /\ pc' = "magic"
  /\ UNCHANGED <<srcVars, bufVars, unitVars, rawVars, sticky, callVars>>

Return ==
  /\ pc = "read"
  /\ Len(got) = len \/ (raw_pos = Len(raw) /\ saw_eob)
  /\ ret' = Len(got)
  /\ out' = out \o got
  /\ pc' = "idle"
  /\ UNCHANGED <<srcVars, bufVars, unitVars, rawVars, sticky, len, got, calls>>

-----------------------------------------------------------------------------

(* xq_decoder_free, between two calls *)
Free ==
  /\ pc = "idle"
  /\ pc' = "closed"
  /\ UNCHANGED <<srcVars, bufVars, unitVars, rawVars, sticky, callVars>>

Step ==
  \/ RbufFill \/ RbufFillFails \/ FillTruncated
  \/ TakeBuffered \/ ReadDirect \/ ReadDirectFails \/ ReadTruncated
  \/ HeadParse \/ HeadExtra \/ Setup \/ SetupFails
  \/ Magic \/ BlockHeaderBad \/ BlockRefused \/ BlockHeader
  \/ PayloadRead \/ CksumRead \/ DecodeOK \/ DecodeFails
  \/ RecordBad \/ RecordRefused \/ RecordEob \/ RecordDict \/ RecordDictOOM \/ RecordSkip
  \/ GarbageFails \/ GarbageSkip \/ DictLoad \/ DictFails \/ Skip \/ SkipDone
  \/ Copy \/ NextBlock \/ Return

(* There is no handle, or there are no calls left. *)
Terminated == (pc = "closed" \/ (pc = "idle" /\ calls = 0)) /\ UNCHANGED vars

Next == Step \/ (\E n \in Lens : ReadCall(n)) \/ Free \/ Terminated

Spec == Init /\ [][Next]_vars

(* The decoder runs in the caller's thread, and the source returns. *)
FairSpec == Spec /\ WF_vars(Step)

-----------------------------------------------------------------------------
(* Correctness: what the archive says, whatever the source delivers when. *)

Complete(u) == UnitEnd(file[u]) <= cut

(* raw_offset and the dictionary in front of unit u. *)
BlocksBefore(u) == { v \in 1 .. u - 1 : file[v].kind = "block" }
RawBefore(u) ==
  IF BlocksBefore(u) = {} THEN 0
  ELSE LET v == CHOOSE v \in BlocksBefore(u) : \A w \in BlocksBefore(u) : w <= v
       IN  file[v].off + file[v].raw
DictBefore(u) == \E v \in 1 .. u - 1 : file[v].kind = "dict"

(* The record at u says a size that does not lead to the next unit. *)
Misframed(u) == u < Len(file) /\ file[u + 1].at # UnitEnd(file[u])

(* The statuses the format gives unit u of a complete archive, in the order *)
(* in which they count; a block that needs a dictionary follows it.         *)
Verdicts(u) ==
  LET f == file[u] IN
  << f.hst,
     IF f.kind = "block" /\ f.off # RawBefore(u) THEN ErrCorruptBlock ELSE OK,
     IF f.kind = "block" /\ f.raw > RawCap THEN ErrMemlimit ELSE OK,
     IF f.kind = "dict" /\ DictBefore(u) THEN ErrCorruptRecord ELSE OK,
     f.chk,
     f.st,
     IF f.kind = "block" /\ f.needs /\ ~DictBefore(u) THEN ErrCorruptBlock ELSE OK >>

Sound(u) == Complete(u) /\ ~Misframed(u) /\ \A i \in DOMAIN Verdicts(u) : Verdicts(u)[i] = OK

(* Unit u is not sound, and s says what is wrong with it first. *)
Blames(u, s) == \E i \in DOMAIN Verdicts(u) :
                  /\ Verdicts(u)[i] = s /\ s # OK
                  /\ \A j \in 1 .. i - 1 : Verdicts(u)[j] = OK

(* The decoder is to get as far as unit u. *)
Reached(u) == \A v \in 1 .. u - 1 : Sound(v) /\ file[v].kind # "eob"

(* A byte of the stream in front of the first unit that is missing or bad, *)
(* or at least of an intact block when the archive is misframed.           *)
StreamByte(b) ==
  /\ b[1] \in DOMAIN file
  /\ LET f == file[b[1]] IN f.kind = "block" /\ f.hst = OK /\ f.st = OK /\ b[2] < f.raw
  /\ \/ Reached(b[1]) /\ Sound(b[1])
     \/ \E u \in 1 .. b[1] - 1 : Misframed(u)

Returned == IF pc \in {"idle", "closed"} THEN out ELSE out \o got

(* Calls return a prefix of the stream, every byte once and in its place,  *)
(* however short the reads of the source and the calls of the caller are,  *)
(* wherever the archive is cut, and whatever a skipped record says.        *)
OutputPrefix ==
  \A k \in DOMAIN Returned :
    StreamByte(Returned[k]) /\ file[Returned[k][1]].off + Returned[k][2] = k - 1

(* A call that returns less than it was asked for, without an error, says  *)
(* that the stream has ended: the END_OF_BLOCKS record was read and every  *)
(* byte of the stream returned.  A file cut anywhere is never taken for a  *)
(* shorter one.                                                            *)
EndIsEnd ==
  pc = "idle" /\ sticky = OK /\ Len(got) < len =>
    \E u \in DOMAIN file :
      \/ file[u].kind = "eob" /\ Reached(u) /\ Sound(u) /\ Len(out) = RawBefore(u)
      \/ Reached(u) /\ Misframed(u)

(* An error status that is neither the source's nor malloc's is the         *)
(* archive's own: the one of the first unit that is bad, or                 *)
(* XQ_ERR_TRUNCATED when the archive ends before one.                       *)
BlamesFirstBad ==
  sticky \notin {OK, ErrIO, ErrOOM} =>
    \/ \E u \in DOMAIN file : Reached(u) /\ (Blames(u, sticky) \/ Misframed(u))
    \/ sticky = ErrTruncated /\ \E u \in 1 .. Len(file) + 1 :
         Reached(u) /\ (u <= Len(file) => ~Complete(u))

(* Every call returns: no loop waits for bytes that will not come. *)
ReadReturns == pc \notin {"idle", "closed"} ~> pc \in {"idle", "closed"}

(* docs/format-spec.md:262 and docs/design/00-proposal.md:327: of a file    *)
(* that was truncated, all preceding complete blocks are decodable and the  *)
(* decoder streams every one of them.                                       *)
CompleteBlocksStreamed ==
  sticky = ErrTruncated =>
    \A u \in DOMAIN file :
      file[u].kind = "block" /\ Reached(u) /\ Sound(u) => Len(out) >= file[u].off + file[u].raw

=============================================================================
