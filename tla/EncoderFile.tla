----------------------------- MODULE EncoderFile -----------------------------
(***************************************************************************)
(* The part of xq_encoder.c that runs on the caller's thread only and      *)
(* talks to the sink: the file header, one block (emit_job), the trailer   *)
(* of a finished file, and the sticky status that every emission goes      *)
(* through.  The threaded and the single-threaded encoder share it.        *)
(*                                                                         *)
(* Offsets in the file are counted in complete records after the header,   *)
(* not in bytes: block k of the file (from 0) is at offset k, the          *)
(* END_OF_BLOCKS record after the last block, then INDEX.  A sink that     *)
(* fails part way through a block leaves a torn record behind it; nothing  *)
(* is written after it, so `out' holds the complete blocks only.           *)
(***************************************************************************)
EXTENDS Blocks

VARIABLES raw_offset,   \* e->raw_offset: stream offset of the next block emitted
          idx,          \* e->idx: the index entries gathered so far
          stream_ck,    \* e->stream_ck: the buffers fed to the running hash, in order
          sticky,       \* e->sticky
          finished,     \* e->finished
          out,          \* the complete blocks the sink has received
          trailer       \* the INDEX record and footer of a finished file

fileVars == <<raw_offset, idx, stream_ck, sticky, finished, out, trailer>>

Errors == {"ERR_CODEC", "ERR_OOM", "ERR_IO"}
Status == {"OK"} \cup Errors

IndexEntry == [file_offset : Nat, raw_offset : Nat]

(* Before finish succeeds there is no trailer. *)
NoTrailer == [index_offset |-> 0, total_raw |-> 0, entries |-> <<>>, hashed |-> <<>>]

Trailer == [index_offset : Nat, total_raw : Nat,
            entries : Seq(IndexEntry), hashed : Seq(Content)]

FileTypeOK ==
  /\ raw_offset \in Nat
  /\ idx \in Seq(IndexEntry)
  /\ stream_ck \in Seq(Content)
  /\ sticky \in Status
  /\ finished \in BOOLEAN
  /\ out \in Seq(Block)
  /\ trailer \in Trailer

FileInit ==
  /\ raw_offset = 0
  /\ idx = <<>>
  /\ stream_ck = <<>>
  /\ sticky = "OK"
  /\ finished = FALSE
  /\ out = <<>>
  /\ trailer = NoTrailer

(* A job: the raw buffer and its length, and what compress_job left in it. *)
(* `data' stands for the compressed payload and for what the checksum was  *)
(* taken over; both are fixed when the job is compressed, while the raw    *)
(* buffer of a STORED block is read again when the block is emitted.       *)
JobResult == [st : Status, stored : BOOLEAN, data : Content]

(* compress_job on a buffer holding the bytes b: the codec may fail,       *)
(* otherwise the block is compressed, or stored when that does not shrink  *)
(* it (XQ_ERR_DST_TOO_SMALL, or out >= raw_len).                           *)
CompressJob(old, b) ==
  { [st |-> "OK", stored |-> b[0] \in Incompressible, data |-> b],
    [old EXCEPT !.st = "ERR_CODEC"] }

(* Seeded fault: the entry is pushed when the block has been written. *)
IdxPushLate(file_off, raw_off) ==
  Append(idx, [file_offset |-> file_off + 1, raw_offset |-> raw_off])

(* idx_push, after the array has been grown if need be. *)
IdxPush(file_off, raw_off) ==
  Append(idx, [file_offset |-> file_off, raw_offset |-> raw_off])

(* emit_job, every emit() accepted by the sink. *)
EmitJobOK(raw, len, res) ==
  /\ res.st = "OK"
  /\ idx' = IdxPush(Len(out), raw_offset)
  /\ out' = Append(out, [off    |-> raw_offset,
                         len    |-> len,
                         stored |-> res.stored,
                         data   |-> IF res.stored THEN raw ELSE res.data,
                         ck     |-> res.data])
  /\ stream_ck' = Append(stream_ck, raw)
  /\ raw_offset' = raw_offset + len
  /\ UNCHANGED <<sticky, finished, trailer>>

(* emit_job on a job whose compression failed. *)
EmitJobBad(res) ==
  /\ res.st # "OK"
  /\ sticky' = res.st
  /\ UNCHANGED <<raw_offset, idx, stream_ck, finished, out, trailer>>

(* emit_job when growing the index array fails. *)
EmitJobNoMem(res) ==
  /\ res.st = "OK"
  /\ sticky' = "ERR_OOM"
  /\ UNCHANGED <<raw_offset, idx, stream_ck, finished, out, trailer>>

(* emit_job when the sink refuses the header, the payload or the checksum: *)
(* the index entry has been pushed already.                                *)
EmitJobSinkFails(res) ==
  /\ res.st = "OK"
  /\ idx' = IdxPush(Len(out), raw_offset)
  /\ sticky' = "ERR_IO"
  /\ UNCHANGED <<raw_offset, stream_ck, finished, out, trailer>>

EmitJob(raw, len, res) ==
  /\ sticky = "OK"
  /\ \/ EmitJobOK(raw, len, res)
     \/ EmitJobBad(res)
     \/ EmitJobNoMem(res)
     \/ EmitJobSinkFails(res)

(* The rest of xq_encoder_finish, from the END_OF_BLOCKS record to the     *)
(* footer.  The index gains its sentinel entry (the offset of the          *)
(* END_OF_BLOCKS record and the total size); a file without blocks has no  *)
(* INDEX record and index_offset 0.                                        *)
WriteTrailerOK ==
  /\ idx' = IdxPush(Len(out), raw_offset)
  /\ trailer' = [index_offset |-> IF Len(idx) = 0 THEN 0 ELSE Len(out) + 1,
                 total_raw    |-> raw_offset,
                 entries      |-> IF Len(idx) = 0 THEN <<>>
                                  ELSE IdxPush(Len(out), raw_offset),
                 hashed       |-> stream_ck]
  /\ finished' = TRUE
  /\ UNCHANGED <<raw_offset, stream_ck, sticky, out>>

(* The sink refuses END_OF_BLOCKS, or there is no memory for the sentinel. *)
WriteTrailerEarlyFail ==
  /\ sticky' \in {"ERR_IO", "ERR_OOM"}
  /\ UNCHANGED <<raw_offset, idx, stream_ck, finished, out, trailer>>

(* The sink refuses a part of INDEX or the footer. *)
WriteTrailerSinkFails ==
  /\ idx' = IdxPush(Len(out), raw_offset)
  /\ sticky' = "ERR_IO"
  /\ UNCHANGED <<raw_offset, stream_ck, finished, out, trailer>>

WriteTrailer ==
  /\ sticky = "OK"
  /\ \/ WriteTrailerOK
     \/ WriteTrailerEarlyFail
     \/ WriteTrailerSinkFails

(* write_file_header and write_dict_record: they change nothing but the    *)
(* sticky status here.  A failure to allocate or compress the dictionary   *)
(* record fails the creation without setting sticky.                       *)
WriteFileHead(failed) ==
  /\ \/ ~failed /\ sticky' = sticky
     \/ failed /\ sticky' \in {sticky, "ERR_IO"}
  /\ UNCHANGED <<raw_offset, idx, stream_ck, finished, out, trailer>>

-----------------------------------------------------------------------------

(* The file is sound as an index describes it: entry k is the offset of    *)
(* block k's header and carries that header's raw_offset, so a reader that *)
(* trusts the INDEX lands on the block it asked for.  While all is well    *)
(* there is one entry per block, plus the sentinel once finished.          *)
IndexSound ==
  /\ \A k \in 1 .. Len(out) :
        k <= Len(idx) /\ idx[k] = [file_offset |-> k - 1, raw_offset |-> out[k].off]
  /\ sticky = "OK" => Len(idx) = Len(out) + (IF finished THEN 1 ELSE 0)

=============================================================================
