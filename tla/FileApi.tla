------------------------------ MODULE FileApi ------------------------------
(***************************************************************************)
(* The calls that do a whole stream at once (src/core/xq_api.c):           *)
(* xq_compress and xq_decompress between buffers, xq_compress_file and     *)
(* xq_decompress_file between files, over the file layer's system calls.   *)
(*                                                                         *)
(* The encoder and the decoder are what their specifications promise       *)
(* (BlockStream; StreamDecoder's OutputPrefix and EndIsEnd): the encoder   *)
(* hands its sink a header, blocks cut every block_size bytes and a        *)
(* trailer, a block as soon as it is full or, with worker threads, later;  *)
(* the decoder returns what it is asked for, or less at the end of the     *)
(* stream, or the status of the first damage.                              *)
(*                                                                         *)
(* One call is made, on two different files.                               *)
(***************************************************************************)
EXTENDS FileLayer

CONSTANTS Calls,       \* the calls that may be made
          BlockSize, IoBuf,
          Window,      \* of xq_dict_build_sampled; the smallest dictionary too
          BlockCk      \* xq_fmt_checksum_size

(* XQ_FILE_HEADER_SIZE, ... as bytes of the archive *)
HeadSize == 32
RecSize == 14
BlkSize == 24
FootSize == 32
EntrySize == 16
Preamble == 24
DictHead == 30

ErrOOM == 3
ErrDstTooSmall == 2
ErrCorruptBlock == 34
Unknown == -1       \* XQ_SIZE_UNKNOWN

(* fn: the function; size: of the source; start: where the input is        *)
(* positioned (standard input may have been read from); seekable; dict:    *)
(* params.dict_size; cap: of dst; arch: what a decoder finds: len bytes,   *)
(* then the end or an error; whether blocks are checksummed, and what the  *)
(* footer's stream checksum is.                                            *)
ASSUME CallsAssumption ==
  /\ Calls \subseteq
       [fn : {"compress", "decompress", "compress_file", "decompress_file"},
        size : Nat, start : Nat, seekable : BOOLEAN, dict : Nat, cap : Nat,
        arch : [len : Nat, end : Nat, ck : BOOLEAN,
                footer : {"right", "wrong", "zero", "none"}]]
  /\ BlockSize \in Nat \ {0} /\ IoBuf \in Nat \ {0} /\ Window \in Nat \ {0} /\ BlockCk \in Nat

VARIABLES req,     \* the call
          ap,      \* where it is
          after,   \* where it goes when the sink has taken a unit
          live,    \* the handles and buffers it holds
          st,
          hint,    \* raw_size_hint
          dlen,    \* dict.len
          fed,     \* the bytes xq_encoder_write has been given
          nblk,    \* blocks the encoder has written
          units,   \* what a memory sink has received
          mlen,    \* m.len of a memory sink
          dpos,    \* bytes the decoder has returned
          dst,     \* the caller's buffer, as far as it is filled
          outLen,  \* *out_len
          told     \* the footer was read and understood

apiVars == <<req, ap, after, live, st, hint, dlen, fed, nblk, units, mlen, dpos, dst, outLen, told>>
vars == <<fileVars, apiVars>>

encVars == <<hint, dlen, fed, nblk, units, mlen>>
decVars == <<dpos, dst, told>>

ToFile == req.fn \in {"compress_file", "decompress_file"}
Compressing == req.fn \in {"compress", "compress_file"}

Init ==
  /\ req \in Calls
  /\ FileInit(req.size, req.start)
  /\ ap = IF ToFile THEN "openin" ELSE IF Compressing THEN "dict" ELSE "create"
  /\ after = "none"
  /\ live = {}
  /\ st = OK
  /\ hint = IF req.fn = "compress" THEN req.size ELSE Unknown
  /\ dlen = 0 /\ fed = <<>> /\ nblk = 0 /\ units = <<>> /\ mlen = 0
  /\ dpos = 0 /\ dst = <<>> /\ outLen = Unknown /\ told = FALSE

(* The call returns s, having released what it names. *)
Give(s, released) ==
  /\ ap' = "done"
  /\ st' = s
  /\ live' = live \ released

-----------------------------------------------------------------------------
(* Opening *)

OpenIn ==
  /\ ap = "openin"
  /\ \/ /\ live' = live \cup {"in"}
        /\ ap' = IF Compressing THEN "size" ELSE "openout"
        /\ st' = st
     \/ Give(ErrIO, {})
  /\ UNCHANGED <<fileVars, req, after, encVars, decVars, outLen>>

(* The size of a seekable input; fstat may fail. *)
SizeHint ==
  /\ ap = "size"
  /\ hint' \in IF req.seekable THEN {in.len, Unknown} ELSE {Unknown}
  /\ ap' = "openout"
  /\ UNCHANGED <<fileVars, req, after, live, st, dlen, fed, nblk, units, mlen, decVars, outLen>>

OpenOut ==
  /\ ap = "openout"
  /\ \/ /\ live' = live \cup {"out"}
        /\ ap' = IF Compressing THEN "dict" ELSE "create"
        /\ st' = st
     \/ Give(ErrIO, {"in"})
  /\ UNCHANGED <<fileVars, req, after, encVars, decVars, outLen>>

-----------------------------------------------------------------------------
(* Compressing *)

(* xq_dict_size_for, for requests that XQ_DICT_SIZE_MAX does not clamp. *)
DictSizeFor(size, requested) ==
  LET want == Least(requested, size \div 4) IN IF want < Window THEN 0 ELSE want

Want == IF hint = Unknown THEN 0 ELSE DictSizeFor(hint, req.dict)

Samples == Want \div Window

(* Where xq_dict_build_sampled takes window number i from. *)
SampleAt(i) == IF Samples = 1 THEN 0 ELSE ((hint - Window) * i) \div (Samples - 1)

(* No dictionary: none is asked for, or the input is too small. *)
DictNone ==
  /\ ap = "dict"
  /\ Want = 0
  /\ ap' = "create"
  /\ UNCHANGED <<fileVars, req, after, live, st, encVars, decVars, outLen>>

(* xq_dict_build_prefix copies the first bytes of src. *)
DictPrefix ==
  /\ ap = "dict"
  /\ Want > 0
  /\ ~ToFile
  /\ dlen' = Want
  /\ live' = live \cup {"dict"}
  /\ ap' = "create"
  /\ UNCHANGED <<fileVars, req, after, st, hint, fed, nblk, units, mlen, decVars, outLen>>

(* xq_dict_build_sampled: the windows are read one after the other. *)
DictSample ==
  /\ ap = "dict"
  /\ Want > 0
  /\ ToFile
  /\ io' = Pread(Window, SampleAt(0))
  /\ live' = live \cup {"dict"}
  /\ ap' = "sampling"
  /\ UNCHANGED <<in, outf, req, after, st, encVars, decVars, outLen>>

DictSampled ==
  /\ ap = "sampling"
  /\ Done
  /\ io.st = OK /\ Len(io.data) = Window
  /\ dlen' = dlen + Window
  /\ IF dlen + Window = Samples * Window
     THEN ap' = "create" /\ io' = NoOp
     ELSE ap' = ap /\ io' = Pread(Window, SampleAt((dlen + Window) \div Window))
  /\ UNCHANGED <<in, outf, req, after, live, st, hint, fed, nblk, units, mlen, decVars, outLen>>

(* Seeded fault: the output stays open. *)
DictHeldIn == {"dict", "in"}

(* What is released when there is no dictionary to be had. *)
DictHeld == {"dict", "in", "out"}

(* No memory for it, or a window that cannot be read. *)
DictFails ==
  /\ \/ ap = "dict" /\ Want > 0 /\ Give(ErrOOM, DictHeld)
     \/ ap = "sampling" /\ Done /\ (io.st # OK \/ Len(io.data) # Window) /\ Give(ErrIO, DictHeld)
  /\ UNCHANGED <<fileVars, req, after, encVars, decVars, outLen>>

(* What the encoder gives its sink, one unit at a time. *)
HeadUnit == [kind |-> "head", data |-> <<hint>>]
DictUnit == [kind |-> "dict", data |-> <<>>]
BlockUnit(n) ==
  [kind |-> "block", data |-> SubSeq(fed, n * BlockSize + 1, Least((n + 1) * BlockSize, Len(fed)))]
TailUnit == [kind |-> "tail", data |-> <<Len(fed)>>]

(* The sizes a unit may have: the codec shrinks a block, or it is stored.  *)
UnitSizes(u) ==
  CASE u.kind = "head"  -> {HeadSize}
    [] u.kind = "dict"  -> {RecSize + DictHead + dlen}
    [] u.kind = "block" -> {BlkSize + BlockCk + n : n \in {1, Len(u.data)}}
    [] u.kind = "tail"  -> {RecSize + FootSize +
                            (IF nblk = 0 THEN 0 ELSE RecSize + Preamble + (nblk + 1) * EntrySize)}

(* A unit in two halves, as a file receives it. *)
Halves(us) == [k \in 1 .. 2 * Len(us) |-> <<us[(k + 1) \div 2], k % 2>>]

(* file_sink_write, or mem_sink_write, which takes all or nothing. *)
Emit(u, next) ==
  IF ToFile
  THEN /\ io' = Write(Halves(<<u>>))
       /\ ap' = "sinking"
       /\ after' = next
       /\ UNCHANGED <<units, mlen, st>>
  ELSE /\ UNCHANGED <<io, after>>
       /\ \E n \in UnitSizes(u) :
            IF mlen + n <= req.cap
            THEN units' = Append(units, u) /\ mlen' = mlen + n /\ ap' = next /\ st' = st
            ELSE st' = ErrDstTooSmall /\ ap' = "end" /\ UNCHANGED <<units, mlen>>

(* file_sink_write returns to the encoder. *)
Sunk ==
  /\ ap = "sinking"
  /\ Done
  /\ st' = io.st
  /\ ap' = IF io.st = OK THEN after ELSE "end"
  /\ io' = NoOp
  /\ UNCHANGED <<in, outf, req, after, live, encVars, decVars, outLen>>

(* xq_encoder_create writes the header and the dictionary. *)
CreateEncoder ==
  /\ ap = "create"
  /\ Compressing
  /\ live' = live \cup {"coder"}
  /\ Emit(HeadUnit, IF dlen > 0 THEN "dictrec" ELSE "read")
  /\ UNCHANGED <<in, outf, req, hint, dlen, fed, nblk, decVars, outLen>>

WriteDict ==
  /\ ap = "dictrec"
  /\ Emit(DictUnit, "read")
  /\ UNCHANGED <<in, outf, req, live, hint, dlen, fed, nblk, decVars, outLen>>

CreateFails ==
  /\ ap = "create"
  /\ Give(ErrOOM, {"dict", "in", "out"})
  /\ UNCHANGED <<fileVars, req, after, encVars, decVars, outLen>>

(* xq_compress hands all of src to the encoder. *)
FeedAll ==
  /\ ap = "read"
  /\ ~ToFile
  /\ fed' = Bytes(0, req.size)
  /\ ap' = "encode"
  /\ UNCHANGED <<fileVars, req, after, live, st, hint, dlen, nblk, units, mlen, decVars, outLen>>

ReadInput ==
  /\ ap = "read"
  /\ ToFile
  /\ io' = Read(IoBuf)
  /\ ap' = "reading"
  /\ UNCHANGED <<in, outf, req, after, live, st, encVars, decVars, outLen>>

InputRead ==
  /\ ap = "reading"
  /\ Done
  /\ st' = io.st
  /\ fed' = IF io.st = OK THEN fed \o io.data ELSE fed
  /\ ap' = IF io.st # OK THEN "end" ELSE IF io.data = <<>> THEN "finish" ELSE "encode"
  /\ io' = NoOp
  /\ UNCHANGED <<in, outf, req, after, live, hint, dlen, nblk, units, mlen, decVars, outLen>>

(* Inside xq_encoder_write: a full block is written ... *)
EncodeBlock ==
  /\ ap = "encode"
  /\ (nblk + 1) * BlockSize <= Len(fed)
  /\ Emit(BlockUnit(nblk), "encode")
  /\ nblk' = nblk + 1
  /\ UNCHANGED <<in, outf, req, live, hint, dlen, fed, decVars, outLen>>

(* ... or the call returns, with worker threads before all of them are. *)
EncodeReturns ==
  /\ ap = "encode"
  /\ ap' = IF ToFile THEN "read" ELSE "finish"
  /\ UNCHANGED <<fileVars, req, after, live, st, encVars, decVars, outLen>>

EncodeFails ==
  /\ ap \in {"encode", "finish"}
  /\ st' = ErrOOM
  /\ ap' = "end"
  /\ UNCHANGED <<fileVars, req, after, live, encVars, decVars, outLen>>

(* xq_encoder_finish writes the blocks that are left, a short one last, *)
(* and the trailer.                                                     *)
FinishBlock ==
  /\ ap = "finish"
  /\ nblk * BlockSize < Len(fed)
  /\ Emit(BlockUnit(nblk), "finish")
  /\ nblk' = nblk + 1
  /\ UNCHANGED <<in, outf, req, live, hint, dlen, fed, decVars, outLen>>

FinishTrailer ==
  /\ ap = "finish"
  /\ nblk * BlockSize >= Len(fed)
  /\ Emit(TailUnit, "end")
  /\ UNCHANGED <<in, outf, req, live, hint, dlen, fed, nblk, decVars, outLen>>

(* Seeded fault: the division does not round up. *)
CompressBoundDown(size, dict) ==
  LET nblocks == IF size < BlockSize THEN 1 ELSE size \div BlockSize
      want == DictSizeFor(size, dict)
  IN HeadSize + nblocks * (BlkSize + BlockCk) + size + RecSize
     + Preamble + (nblocks + 1) * EntrySize + RecSize + FootSize
     + (IF want > 0 THEN RecSize + DictHead + want ELSE 0)

(* xq_compress_bound, for sizes far from 2^64. *)
CompressBound(size, dict) ==
  LET nblocks == IF size = 0 THEN 1 ELSE (size + BlockSize - 1) \div BlockSize
      want == DictSizeFor(size, dict)
  IN HeadSize + nblocks * (BlkSize + BlockCk) + size + RecSize
     + Preamble + (nblocks + 1) * EntrySize + RecSize + FootSize
     + (IF want > 0 THEN RecSize + DictHead + want ELSE 0)

-----------------------------------------------------------------------------
(* Decompressing *)

(* What xq_decoder_read answers when asked for n bytes: their number, or   *)
(* the status of what is wrong in front of the last of them.               *)
DecoderRead(n) ==
  IF dpos + n <= req.arch.len THEN [got |-> n, st |-> OK]
  ELSE IF req.arch.end = OK THEN [got |-> req.arch.len - dpos, st |-> OK]
  ELSE [got |-> 0, st |-> req.arch.end]

CreateDecoder ==
  /\ ap = "create"
  /\ ~Compressing
  /\ live' = live \cup {"coder"}
  /\ ap' = "pull"
  /\ UNCHANGED <<fileVars, req, after, st, encVars, decVars, outLen>>

(* Seeded fault: a full buffer is the end. *)
PullProbeSkipped == [got |-> 0, st |-> OK]

(* dst is full: one byte more tells the end from a longer stream. *)
PullProbe ==
  LET r == DecoderRead(1) IN
  IF r.got = 1 THEN [got |-> 0, st |-> ErrDstTooSmall] ELSE r

(* One turn of the loop of xq_decompress. *)
PullMem ==
  LET r == IF Len(dst) = req.cap THEN PullProbe ELSE DecoderRead(req.cap - Len(dst)) IN
  /\ ap = "pull"
  /\ ~ToFile
  /\ st' = r.st
  /\ dst' = dst \o Bytes(dpos, r.got)
  /\ dpos' = dpos + r.got
  /\ ap' = IF r.got = 0 THEN "end" ELSE "pull"
  /\ UNCHANGED <<fileVars, req, after, live, encVars, outLen, told>>

(* One turn of the loop of xq_decompress_file: read, then write. *)
PullFile ==
  LET r == DecoderRead(IoBuf) IN
  /\ ap = "pull"
  /\ ToFile
  /\ st' = r.st
  /\ dpos' = dpos + r.got
  /\ IF r.got > 0
     THEN io' = Write(Bytes(dpos, r.got)) /\ ap' = "sinking" /\ after' = "pull"
     ELSE ap' = (IF r.st = OK THEN "check" ELSE "end") /\ UNCHANGED <<io, after>>
  /\ UNCHANGED <<in, outf, req, live, encVars, dst, outLen, told>>

(* The decoder has no memory, or its source cannot be read. *)
PullFails ==
  /\ ap = "pull"
  /\ st' \in IF ToFile THEN {ErrOOM, ErrIO} ELSE {ErrOOM}
  /\ ap' = "end"
  /\ UNCHANGED <<fileVars, req, after, live, encVars, decVars, outLen>>

(* The last bytes of the file are its footer, if they can be read and are  *)
(* one; its hash, unless 0, must be that of what was decoded.              *)
FooterCheck ==
  /\ ap = "check"
  /\ ap' = "end"
  /\ told' \in IF req.seekable /\ req.arch.ck /\ req.arch.footer # "none" THEN BOOLEAN ELSE {FALSE}
  /\ st' = IF told' /\ req.arch.footer = "wrong" THEN ErrCorruptBlock ELSE st
  /\ UNCHANGED <<fileVars, req, after, live, encVars, dpos, dst, outLen>>

(* Everything is released; *out_len is set when all went well. *)
Return ==
  /\ ap = "end"
  /\ Give(st, {"coder", "dict", "in", "out"})
  /\ outLen' = IF st # OK \/ ToFile THEN outLen ELSE IF Compressing THEN mlen ELSE Len(dst)
  /\ UNCHANGED <<fileVars, req, after, encVars, decVars>>

-----------------------------------------------------------------------------

Step ==
  \/ OpenIn \/ SizeHint \/ OpenOut
  \/ DictNone \/ DictPrefix \/ DictSample \/ DictSampled \/ DictFails
  \/ CreateEncoder \/ WriteDict \/ CreateFails \/ Sunk
  \/ FeedAll \/ ReadInput \/ InputRead
  \/ EncodeBlock \/ EncodeReturns \/ EncodeFails \/ FinishBlock \/ FinishTrailer
  \/ CreateDecoder \/ PullMem \/ PullFile \/ PullFails \/ FooterCheck
  \/ Return

SysCall == Transfer /\ UNCHANGED apiVars

Environment == (Interrupt \/ IoFails \/ Grow) /\ UNCHANGED apiVars

Terminated == ap = "done" /\ UNCHANGED vars

Next == Step \/ SysCall \/ Environment \/ Terminated

Spec == Init /\ [][Next]_vars

(* The calling thread runs, and its system calls are not interrupted for   *)
(* ever.                                                                   *)
FairSpec == Spec /\ WF_vars(Step) /\ WF_vars(SysCall)

-----------------------------------------------------------------------------
(* Correctness *)

Finished(fn) == ap = "done" /\ req.fn = fn

(* The archive of the bytes b, as the caller was to get it. *)
Archive(b) ==
  LET n == (Len(b) + BlockSize - 1) \div BlockSize IN
  <<HeadUnit>> \o (IF dlen > 0 THEN <<DictUnit>> ELSE <<>>)
  \o [i \in 1 .. n |-> [kind |-> "block",
                        data |-> SubSeq(b, (i - 1) * BlockSize + 1, Least(i * BlockSize, Len(b)))]]
  \o <<[kind |-> "tail", data |-> <<Len(b)>>]>>

(* A compression that reports success has written the archive of all the   *)
(* input, from where it was positioned to its end, whatever the system     *)
(* calls transferred at a time and whatever the sampling of a dictionary   *)
(* read meanwhile; and the size in its header, when there is one, is that  *)
(* of the stream, or the input grew or was not handed over at its start.   *)
CompressExact ==
  /\ Finished("compress") /\ st = OK =>
       units = Archive(Bytes(0, req.size)) /\ outLen = mlen
  /\ Finished("compress_file") /\ st = OK =>
       \E n \in req.size .. in.len :
         /\ outf = Halves(Archive(Bytes(req.start, n - req.start)))
         /\ hint = Unknown \/ hint = n - req.start \/ in.grown > 0 \/ req.start > 0

(* A file compressed under its name, with success, comes back with all the *)
(* bytes it had (tests/test_dict.c, the round trip with a dictionary).     *)
WholeFileCompressed ==
  Finished("compress_file") /\ st = OK /\ req.start = 0 => Len(fed) >= req.size

(* A decompression that reports success has produced the whole stream and  *)
(* its length, and the footer, if it could be read, agreed; one that runs  *)
(* out of room has filled the buffer with the beginning of a longer        *)
(* stream, unless that status is what a codec made of a damaged archive;   *)
(* and in every case nothing but a prefix of the stream is there.          *)
DecompressExact ==
  LET whole == Bytes(0, req.arch.len) IN
  /\ Finished("decompress") =>
       /\ dst = SubSeq(whole, 1, Len(dst))
       /\ st = OK => req.arch.end = OK /\ dst = whole /\ outLen = Len(whole)
       /\ st = ErrDstTooSmall =>
            (req.cap < req.arch.len /\ Len(dst) = req.cap) \/ req.arch.end = ErrDstTooSmall
       /\ st # OK => outLen = Unknown
  /\ Finished("decompress_file") =>
       /\ outf = SubSeq(whole, 1, Len(outf))
       /\ st = OK => req.arch.end = OK /\ outf = whole /\ (told => req.arch.footer # "wrong")

(* A buffer of xq_compress_bound bytes is never too small. *)
BoundSuffices ==
  req.fn = "compress" /\ req.cap >= CompressBound(req.size, req.dict) => st # ErrDstTooSmall

(* Whatever fails on the way, a call that returns has closed what it       *)
(* opened and freed what it made.                                          *)
HandlesClosed == ap = "done" => live = {}

(* The caller gets an answer. *)
ApiReturns == <>(ap = "done")

=============================================================================
