------------------------------- MODULE Repair --------------------------------
(***************************************************************************)
(* Recovery of a damaged archive (src/core/xq_repair.c): xq_repair_file    *)
(* scans the file through a sliding window for block headers, decodes each *)
(* block it finds, and writes those that continue the stream, filling the  *)
(* gaps between them if asked to.                                          *)
(*                                                                         *)
(* An archive is its size, where the scan begins, what its DICT record is  *)
(* worth, and its candidates: the positions where bytes parse as a block   *)
(* header and pass its CRC, with the length of the block (ext: header,     *)
(* payload, checksum), its raw_offset and raw_size, whether its payload is *)
(* intact and whether it needs the dictionary.  A candidate is planted     *)
(* when it is no block of the archive: bytes of a payload, or of the       *)
(* dictionary, that look like one.                                         *)
(*                                                                         *)
(* Byte k of the block at position c is <<c, k>>; a fill byte is Fill.     *)
(*                                                                         *)
(* Granularity: one step per call on a file and per position of the scan.  *)
(***************************************************************************)
EXTENDS Integers, Sequences, FiniteSets

CONSTANTS Archives,     \* the damaged archives
          HdrLen,       \* XQ_BLOCK_HEADER_SIZE
          Window,       \* XQ_SCAN_WINDOW
          Reliable      \* whether every write to the output succeeds: one of these

ASSUME WindowAssumption ==
  /\ HdrLen \in Nat \ {0} /\ Window \in Nat /\ HdrLen <= Window
  /\ Reliable \subseteq BOOLEAN

Candidate == [ext : Nat, off : Nat, raw : Nat \ {0}, intact : BOOLEAN, needs : BOOLEAN, planted : BOOLEAN]

(* Blocks do not overlap: a decoded one ends before the next begins.  The  *)
(* bytes of a damaged one may be missing, but not those of its header.     *)
IsArchive(a) ==
  /\ a.size \in Nat /\ a.first \in Nat \ {0}
  /\ a.dict \in {"none", "good", "bad"}
  /\ DOMAIN a.cand \subseteq a.first .. a.size - HdrLen
  /\ \A c \in DOMAIN a.cand : a.cand[c] \in Candidate /\ a.cand[c].ext >= HdrLen
  /\ \A c, d \in DOMAIN a.cand : c < d /\ ~a.cand[c].planted /\ ~a.cand[d].planted =>
       c + (IF a.cand[c].intact THEN a.cand[c].ext ELSE HdrLen) <= d

ASSUME ArchivesAssumption == \A a \in Archives : IsArchive(a)

OK == 0
ErrOOM == 3
ErrCorruptHeader == 32
ErrCorruptBlock == 34
ErrIO == 48
Statuses == {OK, ErrOOM, ErrCorruptHeader, ErrCorruptBlock, ErrIO}
Fill == <<0, 0>>

VARIABLES arc,                     \* the archive
          have_out, fill_gaps,     \* an output path was given; o.fill_gaps
          reliable,                \* no write to the output fails
          pc,
          ddict,                   \* c.ddict is set
          pos, got, i,             \* the window: where, how long, the offset in it
          expect_raw,
          remain,                  \* of the gap being filled
          blocks_found, blocks_ok, blocks_bad, blocks_skipped,
          bytes_recovered, gaps, gap_bytes, dict_ok,   \* the report
          out,                     \* the bytes in the output file
          st                       \* st; once pc is "done", what was returned

scanVars == <<pos, got, i>>
rep == <<blocks_found, blocks_ok, blocks_bad, blocks_skipped, bytes_recovered, gaps, gap_bytes, dict_ok>>
argVars == <<arc, have_out, fill_gaps, reliable>>
vars == <<argVars, pc, ddict, scanVars, expect_raw, remain, rep, out, st>>

Pc == {"setup", "dict", "open", "window", "outer", "scan", "gap", "block", "done"}
At == pos + i
Here == arc.cand[At]
Cands == DOMAIN arc.cand

(* The third conjunct: no read of the scan goes past the window. *)
TypeOK ==
  /\ IsArchive(arc) /\ have_out \in BOOLEAN /\ fill_gaps \in BOOLEAN /\ reliable \in BOOLEAN
  /\ pc \in Pc /\ ddict \in BOOLEAN
  /\ pos \in Nat /\ got \in 0 .. Window /\ i \in Nat /\ (pc \in {"gap", "block"} => i + HdrLen <= got)
  /\ expect_raw \in Nat /\ remain \in Nat /\ st \in Statuses
  /\ blocks_found \in Nat /\ blocks_ok \in Nat /\ blocks_bad \in Nat /\ blocks_skipped \in Nat
  /\ bytes_recovered \in Nat /\ gaps \in Nat /\ gap_bytes \in Nat /\ dict_ok \in BOOLEAN
  /\ out \in Seq(Nat \X Nat)

Init ==
  /\ arc \in Archives
  /\ have_out \in BOOLEAN /\ fill_gaps \in BOOLEAN /\ reliable \in Reliable
  /\ pc = "setup" /\ ddict = FALSE
  /\ pos = arc.first /\ got = 0 /\ i = 0
  /\ expect_raw = 0 /\ remain = 0
  /\ blocks_found = 0 /\ blocks_ok = 0 /\ blocks_bad = 0 /\ blocks_skipped = 0
  /\ bytes_recovered = 0 /\ gaps = 0 /\ gap_bytes = 0 /\ dict_ok = FALSE
  /\ out = <<>> /\ st = OK

-----------------------------------------------------------------------------

(* done: a status that is still XQ_OK becomes the one for damaged blocks. *)
Finish(s) ==
  /\ pc' = "done"
  /\ st' = IF s = OK /\ blocks_bad > 0 THEN ErrCorruptBlock ELSE s

(* The input's header is read and the buffers allocated ... *)
Setup ==
  /\ pc = "setup"
  /\ pc' = "dict"
  /\ UNCHANGED <<argVars, ddict, scanVars, expect_raw, remain, rep, out, st>>

(* What may fail before the scan, and how: reading or parsing the header,   *)
(* the first allocations, opening the output, the allocation of the window. *)
Failures == [setup |-> {ErrIO, ErrCorruptHeader, ErrOOM}, open |-> IF have_out THEN {ErrIO} ELSE {},
             window |-> {ErrOOM}]

SetupFails ==
  /\ pc \in DOMAIN Failures
  /\ \E s \in Failures[pc] : Finish(s)
  /\ UNCHANGED <<argVars, ddict, scanVars, expect_raw, remain, rep, out>>

(* load_dict: the scan goes on without a dictionary that cannot be loaded. *)
LoadDict ==
  /\ pc = "dict"
  /\ \E loaded \in BOOLEAN :
       /\ loaded => arc.dict = "good"
       /\ ddict' = loaded
       /\ dict_ok' = (loaded \/ arc.dict = "none")
  /\ pc' = "open"
  /\ UNCHANGED <<argVars, scanVars, expect_raw, remain, blocks_found, blocks_ok, blocks_bad, blocks_skipped,
                 bytes_recovered, gaps, gap_bytes, out, st>>

OpenOut ==
  /\ pc = "open"
  /\ pc' = "window"
  /\ UNCHANGED <<argVars, ddict, scanVars, expect_raw, remain, rep, out, st>>

AllocWindow ==
  /\ pc = "window"
  /\ pc' = "outer"
  /\ UNCHANGED <<argVars, ddict, scanVars, expect_raw, remain, rep, out, st>>

-----------------------------------------------------------------------------
(* The scan *)

Smaller(a, b) == IF a <= b THEN a ELSE b

ReadWindow ==
  /\ pc = "outer"
  /\ pos + HdrLen <= arc.size
  /\ got' = Smaller(Window, arc.size - pos)
  /\ i' = 0
  /\ pc' = "scan"
  /\ UNCHANGED <<argVars, ddict, pos, expect_raw, remain, rep, out, st>>

(* An error of xq_file_pread ends the scan like the end of the file. *)
ReadWindowFails ==
  /\ pc = "outer"
  /\ pos + HdrLen <= arc.size
  /\ Finish(st)
  /\ UNCHANGED <<argVars, ddict, scanVars, expect_raw, remain, rep, out>>

ScanEnd ==
  /\ pc = "outer"
  /\ pos + HdrLen > arc.size
  /\ Finish(st)
  /\ UNCHANGED <<argVars, ddict, scanVars, expect_raw, remain, rep, out>>

Scanning == pc = "scan" /\ i + HdrLen <= got

NoHeader ==
  /\ Scanning
  /\ At \notin Cands
  /\ i' = i + 1
  /\ UNCHANGED <<argVars, pc, ddict, pos, got, expect_raw, remain, rep, out, st>>

(* decode_at; it reads the whole block again, and that may fail. *)
Decodes == Here.intact /\ At + Here.ext <= arc.size /\ (Here.needs => ddict)

BlockBad ==
  /\ Scanning
  /\ At \in Cands
  /\ blocks_found' = blocks_found + 1 /\ blocks_bad' = blocks_bad + 1
  /\ i' = i + HdrLen
  /\ UNCHANGED <<argVars, pc, ddict, pos, got, expect_raw, remain, blocks_ok, blocks_skipped, bytes_recovered,
                 gaps, gap_bytes, dict_ok, out, st>>

(* The block is decoded; a gap in front of it is counted. *)
BlockGood ==
  LET gap == Here.off - expect_raw IN
  /\ Scanning
  /\ At \in Cands /\ Decodes
  /\ blocks_found' = blocks_found + 1
  /\ IF gap > 0 THEN gaps' = gaps + 1 /\ gap_bytes' = gap_bytes + gap ELSE UNCHANGED <<gaps, gap_bytes>>
  /\ IF gap > 0 /\ have_out /\ fill_gaps
     THEN remain' = gap /\ pc' = "gap"
     ELSE pc' = "block" /\ UNCHANGED remain
  /\ UNCHANGED <<argVars, ddict, scanVars, expect_raw, blocks_ok, blocks_bad, blocks_skipped, bytes_recovered,
                 dict_ok, out, st>>

Fills(n) == [k \in 1 .. n |-> Fill]

(* Seeded fault: one piece of fill whatever the gap. *)
FillGapOnce ==
  /\ pc = "gap"
  /\ out' = out \o Fills(1)
  /\ remain' = 0
  /\ pc' = "block"
  /\ UNCHANGED <<argVars, ddict, scanVars, expect_raw, rep, st>>

FillGap ==
  /\ pc = "gap"
  /\ out' = out \o Fills(remain)
  /\ remain' = 0
  /\ pc' = "block"
  /\ UNCHANGED <<argVars, ddict, scanVars, expect_raw, rep, st>>

(* The output takes a part of the fill at most; the loop just ends. *)
FillGapFails ==
  /\ pc = "gap" /\ ~reliable
  /\ \E n \in 0 .. remain - 1 : out' = out \o Fills(n)
  /\ remain' = 0
  /\ pc' = "block"
  /\ UNCHANGED <<argVars, ddict, scanVars, expect_raw, rep, st>>

BlockBytes(n) == [k \in 1 .. n |-> <<At, k - 1>>]
(* Seeded fault: the header is counted twice. *)
AdvanceTwice == i' = i + HdrLen + Here.ext

Advance == i' = i + Here.ext

(* Seeded fault: the offset is not compared with what was written. *)
WriteBlockOverlap ==
  /\ pc = "block"
  /\ out' = IF have_out THEN out \o BlockBytes(Here.raw) ELSE out
  /\ bytes_recovered' = bytes_recovered + Here.raw /\ blocks_ok' = blocks_ok + 1
  /\ expect_raw' = Here.off + Here.raw
  /\ Advance
  /\ pc' = "scan"
  /\ UNCHANGED <<argVars, ddict, pos, got, remain, blocks_found, blocks_bad, blocks_skipped, gaps, gap_bytes,
                 dict_ok, st>>

WriteBlock ==
  /\ pc = "block"
  /\ Here.off >= expect_raw
  /\ out' = IF have_out THEN out \o BlockBytes(Here.raw) ELSE out
  /\ bytes_recovered' = bytes_recovered + Here.raw /\ blocks_ok' = blocks_ok + 1
  /\ expect_raw' = Here.off + Here.raw
  /\ Advance
  /\ pc' = "scan"
  /\ UNCHANGED <<argVars, ddict, pos, got, remain, blocks_found, blocks_bad, blocks_skipped, gaps, gap_bytes,
                 dict_ok, st>>

(* Seeded fault: windows do not overlap. *)
WindowStepApart == IF i > got THEN i ELSE got

(* Seeded fault: every window goes back over the end of the one before it. *)
WindowStepBack == i - (HdrLen - 1)

WindowStep == LET keep == HdrLen - 1 IN IF i > got - keep THEN i ELSE got - keep

(* st is set and the inner loop left; the outer loop goes on. *)
WriteBlockFails ==
  /\ pc = "block" /\ ~reliable
  /\ Here.off >= expect_raw
  /\ have_out
  /\ \E n \in 0 .. Here.raw - 1 : out' = out \o BlockBytes(n)
  /\ st' = ErrIO
  /\ pos' = pos + WindowStep
  /\ pc' = "outer"
  /\ UNCHANGED <<argVars, ddict, got, i, expect_raw, remain, rep>>

(* Seeded fault: a block that is not written is reported as recovered. *)
SkipBlockRecovered ==
  /\ pc = "block"
  /\ Here.off < expect_raw
  /\ bytes_recovered' = bytes_recovered + Here.raw /\ blocks_ok' = blocks_ok + 1
  /\ Advance
  /\ pc' = "scan"
  /\ UNCHANGED <<argVars, ddict, pos, got, expect_raw, remain, blocks_found, blocks_bad, blocks_skipped, gaps,
                 gap_bytes, dict_ok, out, st>>

(* A block that overlaps what was written is counted and not written. *)
SkipBlock ==
  /\ pc = "block"
  /\ Here.off < expect_raw
  /\ blocks_skipped' = blocks_skipped + 1 /\ blocks_ok' = blocks_ok + 1
  /\ Advance
  /\ pc' = "scan"
  /\ UNCHANGED <<argVars, ddict, pos, got, expect_raw, remain, blocks_found, blocks_bad, bytes_recovered, gaps,
                 gap_bytes, dict_ok, out, st>>

(* The window moves on; a header across its end is in the next one. *)
NextWindow ==
  /\ pc = "scan"
  /\ i + HdrLen > got
  /\ pos' = pos + WindowStep
  /\ pc' = "outer"
  /\ UNCHANGED <<argVars, ddict, got, i, expect_raw, remain, rep, out, st>>

Terminated == pc = "done" /\ UNCHANGED vars

Step ==
  \/ Setup \/ SetupFails \/ LoadDict \/ OpenOut \/ AllocWindow
  \/ ReadWindow \/ ReadWindowFails \/ ScanEnd
  \/ NoHeader \/ BlockBad \/ BlockGood \/ FillGap \/ FillGapFails
  \/ WriteBlock \/ WriteBlockFails \/ SkipBlock \/ NextWindow

Next == Step \/ Terminated

Spec == Init /\ [][Next]_vars

(* xq_repair_file runs in one thread and every call it makes returns. *)
FairSpec == Spec /\ WF_vars(Step)

-----------------------------------------------------------------------------
(* Correctness *)

StreamPos(b) == arc.cand[b[1]].off + b[2]
Data == { k \in DOMAIN out : out[k] # Fill }

(* With filling, every byte of the output that is not fill is where its    *)
(* block's header says it belongs in the stream.                           *)
SurvivorsInPlace ==
  reliable /\ have_out /\ fill_gaps => \A k \in Data : StreamPos(out[k]) = k - 1

(* docs/internals.md:354: filling keeps survivors at their original        *)
(* offsets.  So it is to be unless the repair says that writing failed.    *)
FillingKeepsOffsets ==
  have_out /\ fill_gaps /\ st # ErrIO => \A k \in Data : StreamPos(out[k]) = k - 1

(* docs/internals.md:358: the repaired stream is monotonic.  Blocks that   *)
(* are out of order, repeated or overlapping never bring a byte back.      *)
Monotonic ==
  st # ErrIO => \A j, k \in Data : j < k => StreamPos(out[j]) < StreamPos(out[k])

(* Between two blocks the report accounts for every byte of the stream up  *)
(* to expect_raw, for every header found, and for the output.              *)
ReportExact ==
  pc \in {"outer", "scan", "done"} /\ st # ErrIO =>
    /\ bytes_recovered + gap_bytes = expect_raw
    /\ blocks_found = blocks_ok + blocks_bad
    /\ have_out => Cardinality(Data) = bytes_recovered
    /\ reliable /\ have_out /\ fill_gaps => Len(out) = expect_raw

(* The scan came to the end of the file. *)
Scanned == pc = "done" /\ st \in {OK, ErrCorruptBlock} /\ pos + HdrLen > arc.size

Real == { c \in Cands : ~arc.cand[c].planted }

(* Every header is found, once, wherever windows end.                      *)
NothingMissed ==
  Scanned /\ Real = Cands => blocks_found = Cardinality(Cands)

(* All blocks of the archive are there, intact, in order and contiguous,   *)
(* with the dictionary they need.                                          *)
Healthy ==
  /\ \A c \in Real : /\ arc.cand[c].intact /\ c + arc.cand[c].ext <= arc.size
                     /\ arc.cand[c].needs => ddict
                     /\ LET before == { d \in Real : d < c } IN
                        IF before = {} THEN arc.cand[c].off = 0
                        ELSE LET d == CHOOSE d \in before : \A e \in before : e <= d
                             IN  arc.cand[c].off = arc.cand[d].off + arc.cand[d].raw

(* tests/test_repair.c:89: the repaired output of an archive that is not   *)
(* damaged is identical to the original.  So it is, unless bytes that look *)
(* like a block stand where the scan comes across them.                    *)
HealthyRecovered ==
  Scanned /\ Healthy /\ Real = Cands /\ st = OK /\ have_out =>
    /\ \A k \in DOMAIN out : out[k] # Fill /\ StreamPos(out[k]) = k - 1
    /\ \A c \in Real : Len(out) >= arc.cand[c].off + arc.cand[c].raw

(* The scan ends: every window is further on than the one before it.       *)
RepairEnds == <>(pc = "done")

=============================================================================
