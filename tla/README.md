# Verification of xq

xq compresses a stream into independent blocks with an index, a footer and an
optional shared dictionary, and reads any range of it back. This directory
holds TLA+ models of its core, the TLC configurations that check them on small
instances, and theorems about them proved with TLAPS for every value of the
constants. Paths below are relative to the repository.

## 1. The system

### 1.1 Components

| Component | Source | State | Operations |
|---|---|---|---|
| Encoder, threaded | `src/core/xq_encoder.c` | ring of `2 * threads` job slots, `fill_seq`, `work_seq`, `emit_seq`, `quit`; index, offsets, stream checksum, sticky status | `create`, `write`, `finish`, `free`; the worker loop |
| Encoder, one thread | `src/core/xq_encoder.c` | one block buffer, index, offsets, sticky status | the same calls |
| Random-access reader | `src/core/xq_reader.c` | block cache under `cache_mu`, decode slots under `slot_mu`/`slot_cv`, the mapped index | `open`, `pread` (concurrent), `verify`, `close` |
| Streaming decoder | `src/core/xq_decoder.c` | read buffer (`rpos`, `rlen`, `src_eof`), decoded block (`raw_pos`, `raw_len`), `raw_offset`, `saw_eob`, sticky status | `create`, `read`, `free` |
| Repair | `src/core/xq_repair.c` | scan position and window, `expect_raw`, the report, the output file | `xq_repair_file` |
| Container format | `src/format/xq_format.c` | none | store and parse of header, record, block header, index, footer; validation and binary search of the index |
| One-shot and file API | `src/core/xq_api.c` | none | bounds, compress and decompress of buffers and files |
| Dictionary | `src/core/xq_dict.c` | none | sizing, sampling, record payload |
| Codecs | `src/codec/*.c`, `src/common/xq_huff.c` | scratch per context | compress, decompress, bound |
| Checksums, parameters, bit access | `src/common/*` | none | pure functions |
| File layer | `src/platform/xq_file.c` | a descriptor | read, write, pread loops over short transfers; mmap |
| Thread layer | `src/platform/xq_thread.c` | none | mutex, condition variable, thread start and join over pthreads |
| Command line | `cli/main.c` | none | arguments, printing |

### 1.2 How they interact

The caller's thread drives the encoder: it fills the buffer of a slot,
publishes the slot (`mt_submit`), and writes out finished slots in the order of
the input (`mt_emit_one`) through a sink callback that may fail. Workers claim
sequence numbers, compress, and publish. One mutex and two condition variables
(`cv_work`, `cv_done`) join them. The file is header, optional DICT record,
blocks, END_OF_BLOCKS, INDEX, footer. The streaming decoder pulls it through a
source callback that may deliver short reads; the reader finds blocks through
footer and index and serves threads concurrently; repair finds blocks by their
magic and needs neither. `xq_compress_file` and `xq_decompress_file` put the
encoder and the streaming decoder between two files: the size of the input and
the samples of the dictionary are read first, the bytes after that, each through
loops around system calls that transfer what they like.

### 1.3 What is hard in it

* Encoder: the order in which workers finish, reuse of slots, signals that
  wake nobody, an error in the middle of a block, calls after an error, freeing
  a handle with work in flight.
* Reader: several threads missing the same block, eviction while another
  thread copies, the slot pool running dry on an error path, lost wake-ups,
  reads that cross block boundaries.
* Decoder: headers and records that straddle short reads, truncation at every
  byte, the status after an error.
* Repair: headers that straddle scan windows, gaps, duplicates, write errors.
* Files: short and interrupted system calls, an input that grows while it is
  read, what to release on a dozen early returns, where the end of a stream is
  when the destination is full.
* Handles: a creation that fails in the middle, and the one function that has to
  end whatever exists by then.
* Codecs: matches that run from the dictionary into the block or overlap what
  they write, lengths at the limit of a code, decompressors that are given
  anything, Huffman codes that would be too long.
* Arithmetic: memory limits, bounds, the binary search of the index.

`PROJECT.json` lists each of these at its line under "hazards", with the
properties that cover it.


## 2. Plan

The modules, in the order of what matters most to a user of the library. Each
stage is a model, its runs, and, where a theorem pays, its proofs.

| Stage | Modules | State |
|---|---|---|
| 1. Encoder | `Blocks`, `BlockStream` (what an encoder promises), `EncoderFile` (what both encoders do to the file), `EncoderRing`, `EncoderSerial` (calls without workers), `EncoderLife` (creation and destruction around them) | modelled, checked, proved (both encoders implement `BlockStream`) |
| 2. Concurrent reader | `ReaderCache`, `ReaderVerify` (verify beside preads, composed with it) | modelled, checked, proved |
| 3. Streaming decoder | `StreamDecoder` | modelled, checked, proved |
| 4. Repair | `Repair` | modelled, checked, proved |
| 5. Opening | `ReaderOpen` (footer, index and metadata, index validation and search, buffers and their limit, close) | modelled, checked, proved |
| 6. Files and buffers | `FileLayer` (system calls), `FileApi` (the four one-shot calls, the bound, the dictionary's samples) | modelled, checked, proved |
| 7. Codecs | `Lzb`, `Huff`, `Lze` (the block through both and back) | modelled, checked, proved |
| 8. Composition | the file an encoder writes, as the archive that decoder, reader and repair read: one abstract stream that all of them implement | open |

The proofs are in eight modules, one per component (`EncoderRingProofs`,
`EncoderLifeProofs`, `ReaderProofs`, `ReaderOpenProofs`, `StreamDecoderProofs`,
`RepairProofs`, `FileApiProofs`, `LzeProofs`). They cover every safety property of
stages 1 to 7. Stage 8 is open: its statement is that the file of an encoder is an
archive that the decoder reads back, where `OutputDeterministic` and `OutputPrefix`
meet.

## 3. The models and the code

### 3.1 Data

A byte of the stream is its position in the stream (encoder), or the pair
`<<block, index>>` (reader, decoder, repair). So a byte in the wrong place, a
byte read twice, or a buffer of somebody else's is told apart from the right
one, and contents are left out. A checksum is a verdict: intact or damaged.
The codec is a deterministic function that may shrink its input, not shrink it
(the block is then stored), or fail.

### 3.2 Encoder

`EncoderRing` is the encoder with worker threads. The variables carry the names
of the fields: `fill_seq`, `work_seq`, `emit_seq`, `quit`, the jobs (`jstate`,
`jlen`, `jraw`, `jres`), `raw_len`, `sticky`, `idx`, `raw_offset`. `ppc` and
`wpc` say where the producer and each worker are. A region between
`xq_mutex_lock` and `xq_mutex_unlock` is one step, cut where
`xq_cond_wait` releases the mutex; what runs outside the mutex (copying into
the slot, compressing, writing to the sink) is a step of its own.

| Code | Actions |
|---|---|
| `xq_encoder_create`, `mt_create` | `WriteFileHead`, `ThreadStart`, `ThreadStartFails`, `CreateReturns` |
| `xq_encoder_write` | `WriteCall`, `Copy` |
| `flush_block`, `mt_submit` | `MtSubmit`, `MakeRoom` (the ring is full), `SubmitReturns` |
| `mt_emit_one` | `EmitWait`, `EmitReady`, `EmitOne`, `FreeSlot` |
| `emit_job`, `idx_push` | `EmitJob`, `IdxPush` in `EncoderFile`, with their failures |
| `mt_worker`, `compress_job` | `WorkerWait`, `WorkerClaim`, `WorkerCompress`, `WorkerPublish`, `WorkerExit` |
| `xq_encoder_finish`, `mt_drain_all` | `FinishCall`, `Drain`, `FinishReturns` with `WriteTrailer` |
| `xq_encoder_free`, `mt_destroy` | `FreeCall`, `MtDestroy`, `Join` |

`EncoderSerial` is the calls on a handle without threads. Both extend
`EncoderFile`, so what is written, and what fails, is stated once.
`EncoderLife` puts the life of a handle around them: `xq_encoder_create` and
`mt_create` with every allocation, initialisation and thread start failing in
turn, then the calls, then `xq_encoder_free` and `mt_destroy`. `at` is the step
that is next, `live` what is allocated, `ready` what is initialised, `eraw` what
`e->raw` points at: the handle's own buffer, or with a ring one of the ring's. A
step of the destruction that would read what is not initialised, or free what is
not there, stops the model at `"undefined"`. The index array is left out.

| Code | Actions of `EncoderLife` |
|---|---|
| `xq_encoder_create` | `CreateHandle`, `CreateBuffers`, `CreateContext`, `CreateDictionary`, `SwapRaw`, `CreateReturns` |
| `mt_create` | `CreateRing`, `CreateSync`, `CreateTables`, `CreateJobs`, `CreateContexts`, `StartThreads` |
| `xq_encoder_write`, `xq_encoder_finish` | `Call` (`EncoderSerial`), `RingCall` |
| `xq_encoder_free`, `mt_destroy` | `FreeCall`, `FreeHandle`, `DestroyQuit`, `DestroyJoin`, `DestroyRing`, `FreeRest` |

 `BlockStream` is what a caller
is promised: bytes are accepted, blocks of the stream delivered in order, each
once; a finish means that all of it was written; nothing follows a failure.

### 3.3 Concurrent reader

`ReaderCache` is any number of threads inside `xq_reader_pread` on one handle.
`cache`, `clock`, `hits` and `misses` are the block cache under `cache_mu`;
`busy`, `scbuf` and `sraw` the decode slots under `slot_mu`. Each thread has a
program counter and the locals of `xq_reader_pread` and `block_copy`. Reading
the block into the slot's staging buffer, decoding it, and putting it in the
cache are three steps, so another thread can come between any two of them. The
order is the code's: look in the cache, acquire a slot, read, decode, fill the
cache, release the slot.

Whether a block can be decoded (`Bad`) and how many bytes it then holds
(`BlockLen`) are free: the reader holds `raw_offset`, `raw_size <= max_raw` and the
extent of a block against the index (`xq_reader.c:402-407`), and never `raw_size`
against the next entry. So a block may be shorter or longer than its entry says.
Of a longer one all bytes are cached and copied, and what it has too much is
answered as the bytes of the next block, with success. `BytesRight` therefore says
where each byte comes from: from the block of the byte before it as long as that
block lasts, else from the block that the index names. It is the byte that the
index promises, except within such a surplus, and it never depends on what the
other threads do. Every status that a block may be refused with is one in the
model (`ErrCorruptBlock`), the limit of `max_raw` among them.

`ReaderVerify` adds a thread inside `xq_reader_verify`. It takes no slot: it
decodes every block in turn in the staging buffer of the handle (`rcbuf`), and
gathers the report (`rep`). Only preads are documented to run concurrently on a
handle, so there is one such thread. `VerifyExact` says that the report is that
of the file, `ReportTrusted` what a reader may conclude from it. A block shorter
than its index entry is no fault to verify, which then answers `XQ_OK` though a
read into the missing bytes fails. `bytes_verified` below the size of the stream
is how a caller can tell, unless a block longer than its entry makes up for what is
missing; `ReportTrusted` says so. A stream checksum that
does not match is in the report and leaves the status alone.

### 3.4 Streaming decoder

`StreamDecoder` is one thread that pulls an archive through the source
callback. An archive is a sequence of units (file header, records, blocks),
each with its place, its lengths, and the status that its checks give. It may
be cut at any byte. `rbuf` holds positions of the archive, `rpos`, `eof`, `raw`,
`raw_pos`, `raw_offset`, `ddict`, `saw_eob` and `sticky` are the fields. The
source delivers any non-empty part of what it is asked for, or fails. `need`,
`rbuf_fill`, `read_exact` and the skip loop are steps of their own, because
that is where short reads do harm.

The size of a record that is skipped is not verified by the code: nothing
checks the CRC of a record that is not wanted. So an archive may be misframed
there, and the decoder goes on at a place that is no unit (`GarbageFails`,
`GarbageSkip`). `EndIsEnd` and `BlamesFirstBad` say nothing about such an
archive behind that record; `OutputPrefix` holds for it too.

### 3.5 Repair

`Repair` is `xq_repair_file`, one thread. An archive is the set of positions at
which bytes pass as a block header, with what the header says and whether the
payload is intact. `pos`, `got`, `i` are the window, `expect_raw` and the report
are the code's, `out` is what the output file holds. Reads and writes fail where
the code looks at their result. A failed read of a window ends the scan and
leaves the status as it is, as the code does. The model takes blocks to be no
larger than the block size of the file header, as every encoder makes them; so it
does not see that a stored block is copied before its size is compared with the
buffer's (`xq_repair.c:141-143`, where only `stored_size = raw_size` is checked). Two
blocks of an archive do not overlap: an intact one ends before the next header,
of a damaged one at least the header does, since bytes of its payload may be
missing. Only bytes that are no block of the archive (`planted`) may lie anywhere.

### 3.6 Opening for random access

`ReaderOpen` is `xq_reader_open`, the search of the index inside a read, and
`xq_reader_close`, one thread. An archive is the fields of its header, footer
and index, the index entries, and the records in front of the first block, with
the verdicts of their checksums; nothing ties one field to another but what the
code checks. Offsets are words of five bits, so sums wrap. `held` is the set of
allocations and mappings alive, `maps` where the mappings lie.

| Code | Actions |
|---|---|
| `xq_reader_open` | `OpenFile`, `Context`, and the functions below |
| `load_tail`, `xq_fmt_footer_parse` | `LoadTail`, `ReadFails` |
| `load_index`, `xq_fmt_index_validate` | `MapIndex`, `CheckIndex`, `MapFails` |
| `load_meta` | `MapMeta`, `NoMeta`, `MetaDone`, `MetaRecordBad`, `DictLoad`, `DictFails`, `RecordSkip` |
| `setup_buffers` | `SetupBuffers`, `Alloc`, `AllocFails`, `OpenReturnsHandle` |
| `xq_fmt_index_find` | `FindCall`, `FindStep`, `FindReturns` |
| `xq_reader_close` | `CloseCall`, `Close` |

`OpenedSound` is what `ReaderCache` takes for granted of the index, the cache
and the slots. `ClosesClean` excepts three leaks of the code. `cache_n` and
`nslots` are set behind the loops that allocate, so when an allocation in
`setup_buffers` fails, `xq_reader_close` does not free the buffers before it. A
second dictionary record hides the first one (`Hidden`). And `ddict_new` is
assigned to `r->ddict` before it is tested (`xq_reader.c:218`): out of memory for a
further dictionary, its NULL replaces the handle there was, and close frees the
bytes of that dictionary (`dict`) but not its tables (`ddict`).

Mutexes and condition variables are no allocations and not in `held`. That close
destroys the three of a handle whose `xq_mutex_init` or `xq_cond_init` failed
(`xq_reader.c:312-314`), those among them that were never initialised, is not in
the model.

### 3.7 Files and buffers

`FileLayer` is the loops of `xq_file_read`, `xq_file_write` and `xq_file_pread`.
Byte number `i` of the input is `i`. One system call is one step: it transfers
any number of the bytes that are asked for and there (`ReadSome`, `WriteSome`),
finds the end (`ReadEof`), is interrupted (`Interrupt`) or fails (`IoFails`), and
between two of them the input may grow (`Grow`). `PreadMoves` is the build for
Windows, where a positional read moves the position of the file.

`FileApi` is the four one-shot calls over it. The encoder is what `BlockStream`
promises: it gives its sink a header, blocks cut every `block_size` bytes, and a
trailer, each block when it is full or, with worker threads, at any time after
that. The decoder is what `StreamDecoder` promises: the bytes asked for, fewer
at the end, or the status of the first damage. `live` is the handles and buffers
the call holds. `xq_compress_bound` (`CompressBound`) has the real sizes of the
format's structures.

| Code | Actions |
|---|---|
| `xq_file_open_read`, `xq_file_size`, `xq_file_open_write` | `OpenIn`, `SizeHint`, `OpenOut` |
| `xq_dict_build_prefix`, `xq_dict_build_sampled` | `DictNone`, `DictPrefix`, `DictSample`, `DictSampled`, `DictFails` |
| `xq_compress`, `xq_compress_file` | `CreateEncoder`, `WriteDict`, `CreateFails`, `FeedAll`, `ReadInput`, `InputRead`, `EncodeBlock`, `EncodeReturns`, `EncodeFails`, `FinishBlock`, `FinishTrailer`, `Return` |
| `mem_sink_write`, `file_sink_write` | `Emit`, `Sunk` |
| `xq_decompress`, `xq_decompress_file` | `CreateDecoder`, `PullMem`, `PullFile`, `PullFails`, `FooterCheck`, `Return` |

Input and output are different files. `xq_file_close` gives no status, so what
a close reports is lost in the code as in the model. `xq_decompress` has no
cross-check with the footer; only `xq_decompress_file` does. The branch of
`xq_dict_build_sampled` for an input below `nsamp` windows is not reached from
here, since a dictionary is at most a quarter of the input.

### 3.8 Codecs

`Lzb` is one block through lzb: a turn of the compressor's loop is a step
(`Literal`, `Match`, `Rest`), a sequence of the decompressor's is one
(`Decompress`). The search goes through the chains of the block, then of the
dictionary, as deep as the level allows. `Huff` is the tables and the bits, `Lze`
the container and the round trip. The format is scaled with its shape kept: a
byte has four bits, a varint carries three a byte, a `size_t` has seven, codes
have at most three bits, and so a length code is full at 3 instead of 15. What a
decompressor copies from outside the dictionary and its own output is the byte
`Wild`. The order of the symbols in the tree, the flattening of frequencies and
the twelve attempts are the code's. The loops of `xq_huff.c` are recursive
functions under a name each (`Listed` and `Joined` for the tree, `Flattened`,
`FirstCode`, `Shifted`, and `Avail`, which `xq_huff_load` counts down), so that the
proofs can speak of what they hold after each turn. A position at which a match begins enters
its chain twice unless the match was moved by one, and then points at itself;
that costs searches and nothing else.

## 4. The runs

| Run | Question | Bounds and why they are enough |
|---|---|---|
| `ring` | Is the output that of one thread, is no slot shared, no signal lost, nothing done after an error, is `BlockStream` implemented, does every call return and does free end the workers? | 2 workers, 4 slots (the code's `2 * threads`), blocks of 2 bytes, calls of 1 and 5 bytes up to 11 bytes: 6 blocks, so the ring wraps and is full with both workers busy; the last block is short; incompressible blocks at both ends of a wrap; a spurious wake-up at any time. The theorems cover all sizes |
| `life` | Does destruction end every handle, made or half-made, and do the serial calls implement `BlockStream`? | 1, 3 or 2 threads by the number of processors; limits that leave none, two or all of them; with and without contexts and a dictionary; a failure at every step; blocks of 3 bytes, calls within, across and at the end of blocks |
| `reader_safety` | Does a call answer the right bytes whatever other threads evict or decode, and blame only what is damaged? | 3 threads over 2 cache entries and 2 slots, 4 blocks: every thread can evict what another uses and has to wait for a slot; one block is damaged, one short, one longer than its entry; requests within, across and past the end |
| `reader_verify` | Is the report that of the file beside concurrent reads, can the reads rely on it, and does every call return? | 2 reading threads with one slot and one cache entry, one verifying; four blocks of which one is damaged, one short and one so long that it makes up for the short one; every read may fail; the requests run into both, so the slot has to come back on each error path |
| `decoder` | Are the bytes returned a prefix of the stream, the end the real end, the error the archive's own, and does every call return? | twenty archives: whole, with a record in front, with a dictionary, with a gap or an overlap, with a wrong record size, damaged in each way; each cut at every byte; every way the source can deliver; three calls of 0, 1 or 4 bytes. The lengths keep the order of the real ones: a record header does not fit what a refill leaves, a block is longer than the read buffer |
| `decoder_truncated` | Is every complete block in front of a truncation streamed? No: see 7. | two blocks, any cut |
| `repair` | Is every header found once, every byte in its place, the report exact, a healthy archive recovered whole, and does it end? | three blocks, each intact, damaged or lost; windows of 5 with headers of 2, so headers straddle windows, and blocks of 2 to 7 end inside, at and behind them; orders that repeat, overlap and go back; a block planted in the dictionary; dictionary there, absent or bad; output and filling on and off; every read and write may fail |
| `repair_fill` | Does a block keep its offset when filling fails? No: see 7. | three blocks |
| `reader_open` | Is nothing outside the file mapped, can an open handle be relied on, does close free everything, does the search find the block? | some seventeen hundred pairs of archive and options: every footer offset with sizes around the smallest index, entries in every order and distance around the header, the records and the largest block, each field wrong once, up to two records and a first block before, at and behind their end, every limit from below one buffer to above all of them |
| `api` | Does success mean the whole stream, is everything released on every path, does the bound suffice, do the calls return? | sources of 0 to 9 bytes in blocks and buffers of a few: empty, short last block, exact multiple, several reads per call; destinations of every size around the need, and of just `xq_compress_bound`; an input that is not at its start, a pipe, one that grows; every footer; chunks that split a read |
| `api_windows` | Is a file compressed with a dictionary compressed whole on Windows? No: see 7. | one file of 8 bytes, two samples of one |
| `codec` | Does what is not refused come back, is nothing touched out of bounds, are the codes complete? | all blocks of 1 to 7 bits, runs around the limits of the length codes, three dictionaries, two depths, too little room; all streams of up to four bytes of eight values; all tables of four lengths of 0 to 4 |

`CHECK_DEADLOCK` is on everywhere: a handle that is freed, a caller that has
made its calls, a reader that is closed, a repair or a call that has returned and a
job that is done step to themselves (`Terminated`), anything else that stops is an
error. The sets of lengths, requests, calls, archives and jobs, `BlockSize`,
`MaxBytes`, `MaxCalls`, `MaxFinds`, `MaxVerifies` and `MaxGrow` are the only
bounds.

### Fairness

* `EncoderRing`: weak fairness of the producer while it is inside a call, and
  of each worker. The operating system runs every thread, and no region under
  the mutex loops. The producer is not obliged to make a call. Wake-ups that
  nobody asked for happen at will and nothing relies on them.
* `ReaderCache`: weak fairness of each thread inside a call, for the same
  reason. The mutexes are held for a step only, so fairness of a lock is no
  matter. The slot pool needs no strong fairness in the run, since every thread
  makes a bounded number of calls; with callers that never stop, a thread could
  find its slot taken for ever, and the code does not promise otherwise.
* `ReaderVerify`: the same, and weak fairness of the verifying thread.
* `StreamDecoder`, `Repair`: one thread, weak fairness of its next step. The
  source and the file may fail, but they answer.
* `FileApi`: weak fairness of the calling thread, and of system calls that go
  through: a call that is interrupted for ever would keep the loop going for ever,
  in the code as in the model.
* `EncoderLife`, `ReaderOpen` and the codecs are checked for safety only: each
  step is one of a finite list, and no loop waits for anybody.

## 5. What is proved

The proofs hold for every value of the constants under the assumptions named in
the modules: a positive block size, at least one worker and slot, a validated
index with blocks of any lengths behind it (reader), an archive whose header
positions are within the file and whose blocks do not overlap (repair), a header no longer than the window, units that follow each
other from a header of positive length (decoder), natural sizes of the fixed
structures, and for the codecs `JobsAssumption` and `LzeAssumption`: block and
dictionary are bytes that fit in memory together, a block is not empty (both
codecs return at once for an empty one) and comes back to a buffer of its size,
every byte has a symbol (`XQ_HUFF_SYMBOLS` is 256), and what `lze_compress` gives
lzb to write to is no longer than what `lze_decompress` accepts: the first
reserves `xq_lzb_bound(src_len) + 32`, the second allows that sum for
`XQ_BLOCK_SIZE_MAX`.

**Encoder** (`EncoderRingProofs`).
The argument goes in three layers.
1. `RingInv` is the bookkeeping of the ring: `emit_seq <= work_seq <= fill_seq
   <= emit_seq + NSlots`, which slot is in which state for which sequence number,
   and who holds which sequence number. Slots are found by `seq % NSlots`, so
   `SlotExclusion` needs that two sequence numbers less than `NSlots` apart have
   different slots, and that all those in use are that close. Neither
   `SlotExclusion` nor `NoLostWakeup` is inductive without it.
2. `OutputInv` follows the bytes: what the caller wrote is what the slots hold
   and what the file holds (`AcceptedInv`, `PendingInv`, `WrittenInv`). Together
   with `RingInv` it is inductive and gives `OutputDeterministic`: the file is
   that of one thread, for any number of workers and any interleaving.
3. From both: `EndIsFinal`, `IndexSound`, `FinishedComplete`, and that every step
   of `EncoderRing` is a step of `BlockStream` or leaves its variables alone
   (`RingImplements`).

**Reader** (`ReaderProofs`). The
inductive invariant is `TypeOK`, `SlotOwnership`, `CallInv` and `CacheSound`:
`CallInv` says for each place in the call what has been copied and what its slot
holds, `CacheSound` that a cache entry in use holds a whole good block and that
no two entries have the same age. `BytesRight` and `NoSpuriousCorruption` follow
step by step; `BytesRight` needs two facts about the block that the last byte came
from: it is the one just copied (`Reading`), and it is through before the index is
asked again (`Through`). `SlotSignalled` counts free slots against threads on their way to
one. `RetentionDepth` counts ages: the entry evicted has the lowest of `NCache`
different ages, none above the clock.

**The life of an encoder** (`EncoderLifeProofs`). Its `IInv` says at each step
which of the handle, its own buffer, the ring, the tables and what they hold
exist, what is initialised and who owns `e->raw`. `Ending` is what `mt_destroy`
may find, by the step that failed: the two cases that it does not survive
(`DestroyDefined`), the one in which the handle's buffer is still there but no
longer pointed at (`NothingLeft`), and a whole ring. The numbers of slots and
threads do not matter: creation adds to the tables only what they point at, and
destruction frees all of it.

The calls in between, on a handle without threads, implement `BlockStream`
(`SerialImplements`). `SerialInv` is what the refinement needs: `CallInv` says how
full the buffer is at each place of a call, and that only a finish flushes one that
is not full; `BufferInv` that what was accepted is what was written and then what
`e->raw` holds, byte for byte. Writing a block, writing the trailer and failing
are then the three visible steps of `BlockStream`; creating, copying and freeing
are stutters or acceptances.

**Verify** (`ReaderProofs`). `VerifyInv` follows the report block by block:
it is right about the blocks in front of `vi`, the staging buffer holds the
extent of the block that is decoded, and, unless a block in front of it was longer
than its entry, `bytes_verified` stays below `RawOff[vi]` once a block was bad or
short. `VerifyExact` is that invariant at
the last block. `ReportTrusted` sets it against `NoSpuriousCorruption` of
`ReaderCache`, which holds because a verifying thread takes nothing that the reads use.

**Repair** (`RepairProofs`). `BlockInv` says that a block is written where a
header was found, and what its gap is; `OutInv` that all data written lies
below `expect_raw` and in order, without which `Monotonic` is not inductive;
`PlaceInv` that the length of the output is `expect_raw`, or the offset of the
block once its gap is filled. `RepairMonotonic` holds whatever write fails;
`RepairSurvivorsInPlace` needs an output that does not fail, which is what the
finding in 7 is about. `CountInv` and `DataInv` are the report within a block as
well as between two (a header is counted before its block is written, a gap before
the block behind it), with the cardinality of the data as the measure of
`bytes_recovered`; they give `RepairReportExact`. `FoundInv` counts the headers
behind the scan (`Before`): every step passes none, or the one it is at
(`MoveStep`), which is where it matters that blocks do not overlap and that a
window moves on by exactly what was scanned; at the end of the file all headers
are behind the scan, and that is `RepairNothingMissed`. `PrefixInv` says that of
an undamaged archive the output is the stream up to where the last block behind
the scan ends, so the next block leaves no gap and is never skipped; with `EndInv`
(`XQ_OK` only if no block was bad) it gives `RepairHealthyRecovered`. It names the
last block by a witness, so no induction over the chain of blocks is needed.

**Opening** (`ReaderOpenProofs`). The invariant says at each place which checks
have passed (`TailInv`, `MapInv`, `IndexInv`, `MetaInv`), which counts are set
(`CountInv`), what the pools take of the limit (`BufInv`), and that the byte
asked for lies between `lo` and `hi` (`FindInv`). `OpenMapsInFile` follows from
the checks of `xq_range_ok` and of the two sizes of the index;
`OpenBuffersBounded` from the two divisions of `setup_buffers`, each bounded by
the limit, and from `Overhead <= limit`, without which one block more than fits
could be forced. `xq_fmt_index_validate` looks at neighbours only: `IndexOrder`
goes from there to any two entries, by the least entry that would be
out of order, and `OpenCorrect` is then what `ReaderCache` assumes of the index; of
the blocks' lengths neither says anything.
`HeldInv` says of every place which allocations exist: the single ones, the
dictionaries loaded so far, the buffers that `cache_n` and `nslots` stand for,
and those of an unfinished `setup_buffers`, which are the first `allocs` of
their order; and where the two pointers to the dictionary stand. `CloseIsClean`
is what is left when close has taken away all it knows of.

**Streaming decoder** (`StreamDecoderProofs`). `TrackInv` says where the decoder
is in the archive: at the beginning of a unit that it reached over sound ones, or
lost behind a record whose size was wrong. It rests on `BufInv` and `DstInv` (the
read buffer and what `read_exact` has read are consecutive bytes of the archive,
ending where the source stands) and on `UnitInv` and `MagicInv` (which checks the
current unit has passed, and how much of it is read). `RawInv` is the stream: the
decoded block belongs at the end of what was decoded, and the caller has
everything in front of `raw_pos`. `OutputPrefix` and `BlamesFirstBad` are conjuncts of
the invariant: `RawInv` gives the first at each copy to the caller, `TrackInv` the
second at the step that finds the error. `ShortReadIsEnd` is `TrackInv` at
END_OF_BLOCKS. None of them is inductive alone: what the decoder returns next
depends on the place in the archive that it believes to be at.

**Files and buffers** (`FileApiProofs`). `PlaceInv`, `LiveInv` and `IoInv` say
which function a place belongs to, what is held there and which system call is
under way; they give `ClosesAll`. Compression: `ReadInv` and `FedInv` follow the
bytes from the input to the encoder, `CutInv`, `UnitsInv` and `SinkInv` those from
there to the sink, over any number of partial transfers; `RoomInv` bounds what a
memory sink has got by the blocks cut so far, and is compared with
`xq_compress_bound` (`BoundIsEnough`), where a last short block and the dictionary
of a quarter of the input are what has to fit. `CompressesExactly` has the
hypothesis `~PreadMoves`: where a positional read moves the position, which is the
finding `api_windows` of section 7, it is false. Decompression: `DecInv` and
`LenInv`, with the footer's cross-check (`told`).

**Codecs** (`LzeProofs`). All three properties of the run `codec` are theorems for
every block, dictionary, depth and buffer, and for every stream and table given to
a decompressor; the format is the scaled one of section 3.8.
* `CodecDecoderInBounds`. `CodecInv` keeps the compressor in the block and the
  decompressor in its buffer. The loops that search (`match_len`, `get_varint`)
  stop at a least number, and a copy is taken apart by where each of its bytes
  comes from.
* `CodecRoundTrip`. Three facts about one sequence: what `find_match` finds is a
  match, wherever the chains lead (`FindMatchSound`); each number of `put_varint`
  and each part of `emit_seq` is read back where it stands (`VarintBack`,
  `LitsBack`, `MatchBack`); and the copy of a match gives the bytes of the block,
  if it overlaps itself, since it then repeats with its distance, or if it runs
  through the dictionary (`CopyMatchBack`). A stream is a way: a set of points, each
  a place in the stream and a place in the block, where each point leads to the
  next by a sequence that stands there (`Segment`), the last to the end of both
  (`Final`). The compressor carries the way on (`Trail`), and from each point the
  decompressor reaches the next (`Decodes`). `Way`, in `TripInv`, says this for each phase, and for lze
  that the bits behind the symbols decoded so far code the rest (`Coding`).
* `CodecCodesSound`. `xq_huff_load` counts codes down from a power of two; the
  first code of a length, the codes of that length and what they leave are all the
  patterns of that length (`Space`), from which follows that no code is the
  front of another (`PrefixFree`) and that every pattern has one (`SomeCode`,
  `CodesComplete`). The table of `xq_huff_build` passes because its lengths are the
  depths of a tree: the joined roots stay a forest (`Forest`) with every symbol in
  one tree, and in each tree the inner nodes of a level have two children each
  (`Inner`), which is what `avail` counts (`DepthsLoad`). Flattening changes no more
  than the weights, so it holds for whichever of the twelve attempts is taken.

`RoundTrip` is not inductive without the way: between the codecs nothing but the
stream, or its bits, says which block it was.

## 6. What is only checked, and what is not modelled

Only checked: all liveness (`CallsReturn`, `FreeEndsWorkers`,
`ReaderCallsReturn`, `ReadReturns`, `RepairEnds`, `ApiReturns`), which rests on
fairness and needs ENABLED. Every other property of a passing run is a theorem.
That the Huffman code is the shortest is neither checked nor proved: nothing
relies on it.

Proved and in no run of its own: the type invariants, `EndIsFinal`,
`SlotOwnership`, `CacheSound`, `HeldInv`, `SerialInv` and `Monotonic`. They are parts of the inductive
invariants above, which the runs' properties rest on.

Not modelled:
* the arithmetic of CRC-32C and XXH64 (a checksum is a verdict); the running
  checksum of the stream in the decoder, which hashes the bytes in the order that
  `OutputPrefix` fixes;
* zstd, a call to a library; the codec `stored`, a copy;
* the command line's arguments and printing;
* the Windows branches, but for the positional read (`PreadMoves`);
* two verifies at once on a handle, and an output file that is the input file,
  which the documents do not provide for;
* `xq_lzb_bound` as a bound: it falls short of the worst that `emit_seq` can
  write only in theory, and a block that does not fit is stored;
* benchmarks, fuzzers, packaging.

`PROJECT.json` lists the parts under "components" and what is hard in them under
"hazards".

## 7. Where code and documents differ

* `decoder_truncated`: `docs/format-spec.md:262` promises that the complete
  blocks in front of a truncation stay decodable. A call of `xq_decoder_read`
  that copies such blocks and then meets the truncation answers the error alone
  (`src/core/xq_decoder.c:371`), and the bytes it had copied cannot be asked for
  again.
* `repair_fill`: `docs/internals.md:354-356` promises that filling keeps
  survivors at their offsets. A write error while a gap is filled only ends the
  loop (`src/core/xq_repair.c:250`), and the next block is written at the wrong
  place with no error of the output reported.
* `api_windows`: on Windows `xq_file_pread` moves the position of the file
  (`src/platform/xq_file.c:171`), and `xq_compress_file` samples the dictionary
  with it before it reads. The last sample ends at the end of the file, so the
  file is compressed to an archive without a block, with status `XQ_OK`.
  `INSTALL.md:174` restricts Windows to one thread, and no second one is involved.

Met while modelling, each stated in the model and in no run of its own:

* Repair: `docs/internals.md:339-341` takes a false header to need a chance of
  2^-48. The scan begins in front of the dictionary record
  (`src/core/xq_repair.c:214`), and a dictionary that holds a piece of another
  archive gives a true one: that block is written, and the archive's own first
  block dropped as overlapping, with status `XQ_OK`. `HealthyRecovered` presumes
  that there is none (`Real = Cands`).
* Reader: `USAGE.md:327-333` says that memory is a stated function of the
  configuration and that `mem_limit` shrinks cache and slots to fit. Each is
  bounded as if it were alone (`src/core/xq_reader.c:253`, `:282`), so the
  buffers of a handle take up to twice the limit (`BuffersBounded`).
* Encoder: `docs/design/00-proposal.md:363` calls the memory limit a hard
  ceiling. The clamp (`src/core/xq_encoder.c:507-513`) divides it by the cost of
  one slot although every worker brings two, so the ring takes up to twice the
  limit (`Clamped`).
* Encoder: when a mutex, a condition variable or a table of `mt_create` is not
  to be had, `mt_destroy` locks a mutex that was never initialised and joins
  threads that are not there (`src/core/xq_encoder.c:305`, `:310`); when a later
  step of it fails, the handle's own buffer is never freed (`:651`). `USAGE.md:357`
  says that every fallible call returns a status. `DestroyDefined` and
  `NothingLeft` name these cases and exclude all others.
* Reader: `docs/format-spec.md:201-202` has every block begin where the one before
  it ends, and `SECURITY.md:22` has the library reject a malformed file. The reader
  never compares the `raw_size` of a block with the next entry of the index
  (`src/core/xq_reader.c:402-407`): the surplus of a block that is longer is
  answered as the bytes that follow, with success, and in `xq_reader_verify` it can
  hide a short block in `bytes_verified` (`:611`). `BytesRight` and `ReportTrusted`
  name this case and exclude all others.
* Opening: the three leaks that `ClosesClean` excepts, and a handle without its
  mutexes, which close destroys nevertheless (3.6).
