---------------------------- MODULE ReaderVerify ----------------------------
(***************************************************************************)
(* xq_reader_verify on a handle that other threads read from               *)
(* (src/core/xq_reader.c): ReaderCache with one more thread, which decodes *)
(* every block in turn without a slot, in the staging buffer and the codec *)
(* context of the handle itself, and gathers a report.                     *)
(*                                                                         *)
(* Only xq_reader_pread is documented to run concurrently on a handle      *)
(* (docs/internals.md section 9), so there is one verifying thread here,   *)
(* beside any number of reading ones.                                      *)
(***************************************************************************)
EXTENDS ReaderCache

CONSTANTS FooterCk,     \* footer.stream_checksum, against the hash of what all blocks
                        \* decode to: "right", "wrong" or "absent" (0, or a file
                        \* without checksums)
          MaxVerifies   \* bound: calls of xq_reader_verify

ASSUME VerifyAssumption == FooterCk \in {"right", "wrong", "absent"} /\ MaxVerifies \in Nat

VARIABLES vpc,      \* "idle", or where the call is: "fetch", "decode", "result"
          vi,       \* i, the block being verified
          rcbuf,    \* r->cbuf: whose extent was read into it
          unread,   \* the blocks this call could not read
          rep,      \* the report
          vret,     \* what the last call returned
          verifies  \* calls left

verifyVars == <<vpc, vi, rcbuf, unread, rep, vret, verifies>>
allVars == <<vars, verifyVars>>

ErrOOM == 3
NoOffset == -1          \* UINT64_MAX

(* checksummable is part of the report here: the hash has run over every   *)
(* block so far.                                                           *)
EmptyReport == [blocks_ok |-> 0, blocks_bad |-> 0, bytes_verified |-> 0,
                first_bad_raw_offset |-> NoOffset, first_bad_status |-> OK,
                checksummable |-> FooterCk # "absent", stream_checksum |-> "ABSENT"]

VerifyInit ==
  /\ Init
  /\ vpc = "idle" /\ vi = 0
  /\ rcbuf = None
  /\ unread = {}
  /\ rep = EmptyReport
  /\ vret = None
  /\ verifies = MaxVerifies

(* The call begins; the buffer for a decoded block may not be there.       *)
VerifyCall ==
  /\ vpc = "idle"
  /\ verifies > 0
  /\ verifies' = verifies - 1
  /\ rep' = EmptyReport
  /\ unread' = {}
  /\ vi' = 0
  /\ \/ vpc' = "fetch" /\ vret' = None
     \/ vpc' = "idle" /\ vret' = ErrOOM
  /\ UNCHANGED <<vars, rcbuf>>

(* The next block, or the end of the loop. *)
Onward ==
  /\ vi' = vi + 1
  /\ vpc' = IF vi + 1 < NBlocks THEN "fetch" ELSE "result"

(* Seeded fault: a later bad block takes the place of the first one. *)
CountBadLast(s) ==
  [rep EXCEPT !.blocks_bad = @ + 1, !.checksummable = FALSE,
              !.first_bad_raw_offset = RawOff[vi], !.first_bad_status = s]

(* Seeded fault: the report names where the block ends. *)
CountBadEnd(s) ==
  [rep EXCEPT !.blocks_bad = @ + 1,
              !.checksummable = FALSE,
              !.first_bad_raw_offset = IF @ = NoOffset THEN RawOff[vi + 1] ELSE @,
              !.first_bad_status = IF rep.first_bad_raw_offset = NoOffset THEN s ELSE @]

(* Any status but XQ_OK counts the block as bad; the hash stops there. *)
CountBad(s) ==
  [rep EXCEPT !.blocks_bad = @ + 1,
              !.checksummable = FALSE,
              !.first_bad_raw_offset = IF @ = NoOffset THEN RawOff[vi] ELSE @,
              !.first_bad_status = IF rep.first_bad_raw_offset = NoOffset THEN s ELSE @]

CountGood(b) ==
  [rep EXCEPT !.blocks_ok = @ + 1, !.bytes_verified = @ + BlockLen[b]]

(* decode_block, without a slot: the extent goes to r->cbuf ... *)
VerifyFetch ==
  /\ vpc = "fetch"
  /\ rcbuf' = vi
  /\ vpc' = "decode"
  /\ UNCHANGED <<vars, vi, unread, rep, vret, verifies>>

(* ... or cannot be read. *)
VerifyFetchFails ==
  /\ vpc = "fetch"
  /\ rcbuf' = None
  /\ unread' = unread \cup {vi}
  /\ rep' = CountBad(ErrIO)
  /\ Onward
  /\ UNCHANGED <<vars, vret, verifies>>

(* Seeded fault: a slot's staging buffer is used without taking the slot. *)
VerifyStagingSlot == scbuf[0]

(* What decode_block finds in its staging buffer. *)
VerifyStaging == rcbuf

VerifyDecode ==
  /\ vpc = "decode"
  /\ rep' = IF VerifyStaging = vi /\ vi \notin Bad THEN CountGood(vi)
            ELSE CountBad(ErrCorruptBlock)
  /\ Onward
  /\ UNCHANGED <<vars, rcbuf, unread, vret, verifies>>

(* The hash over all the decoded blocks, against the footer's. *)
VerifyReturns ==
  /\ vpc = "result"
  /\ rep' = [rep EXCEPT !.stream_checksum =
               IF rep.checksummable THEN IF FooterCk = "right" THEN "OK" ELSE "BAD"
               ELSE IF FooterCk = "absent" THEN "ABSENT" ELSE "SKIP"]
  /\ vret' = IF rep.blocks_bad > 0 THEN ErrCorruptBlock ELSE OK
  /\ vpc' = "idle"
  /\ UNCHANGED <<vars, vi, rcbuf, unread, verifies>>

VerifyStep == VerifyFetch \/ VerifyFetchFails \/ VerifyDecode \/ VerifyReturns

ReadNext ==
  /\ \E t \in Threads : (\E r \in Requests : Call(t, r)) \/ Step(t) \/ SpuriousWake(t)
  /\ UNCHANGED verifyVars

(* All the calls have been made. *)
VerifyTerminated == Terminated /\ vpc = "idle" /\ verifies = 0 /\ UNCHANGED verifyVars

VerifyNext == ReadNext \/ VerifyCall \/ VerifyStep \/ VerifyTerminated

VerifySpec == VerifyInit /\ [][VerifyNext]_allVars

(* Every thread inside a call keeps running. *)
VerifyFairSpec ==
  /\ VerifySpec
  /\ \A t \in Threads : WF_allVars(Step(t) /\ UNCHANGED verifyVars)
  /\ WF_allVars(VerifyStep)

-----------------------------------------------------------------------------
(* Correctness *)

VerifyTypeOK ==
  /\ TypeOK
  /\ vpc \in {"idle", "fetch", "decode", "result"}
  /\ vi \in 0 .. NBlocks
  /\ rcbuf \in Blocks \cup {None}
  /\ unread \subseteq Blocks
  /\ vret \in {None, OK, ErrOOM, ErrCorruptBlock}
  /\ verifies \in Nat

Verified == vpc = "idle" /\ vret \in {OK, ErrCorruptBlock}

(* When the call has returned, its report is that of the file: it has      *)
(* looked at every block and not stopped at the first bad one, blames      *)
(* exactly the blocks that are damaged or that it could not read, names    *)
(* the first of them, and compares the stream only when it has all of it.  *)
VerifyExact ==
  Verified =>
    LET blamed == Bad \cup unread IN
    /\ rep.blocks_bad = Cardinality(blamed)
    /\ rep.blocks_ok = NBlocks - Cardinality(blamed)
    /\ vret = OK <=> blamed = {}
    /\ blamed # {} => \E b \in blamed :
         /\ \A c \in blamed : b <= c
         /\ rep.first_bad_raw_offset = RawOff[b]
         /\ rep.first_bad_status = IF b \in unread THEN ErrIO ELSE ErrCorruptBlock
    /\ rep.stream_checksum \in {"OK", "BAD"} => blamed = {}
    /\ rep.stream_checksum = "SKIP" <=> blamed # {} /\ FooterCk # "absent"

(* What a report is for: in front of the offset it gives, or anywhere when *)
(* it gives none, no read is answered with XQ_ERR_CORRUPT_BLOCK but one    *)
(* that runs into a block shorter than the index says.  bytes_verified     *)
(* then falls short of the size of the stream, unless a good block that is *)
(* longer than the index says makes up for it.                             *)
ReportTrusted ==
  Verified =>
    \A t \in Threads :
      /\ pc[t] = "idle" /\ ret[t] = -ErrCorruptBlock
      /\ rep.first_bad_raw_offset # NoOffset =>
           req[t].off + req[t].n <= rep.first_bad_raw_offset
      => /\ rep.bytes_verified < RawSize \/ \E b \in Blocks \ (Bad \cup unread) : Long(b)
         /\ \E b \in Blocks : /\ Short(b)
                              /\ RawOff[b] < req[t].off + req[t].n
                              /\ req[t].off < RawOff[b + 1]

(* Every call returns, that of the verifying thread too. *)
ReaderCallsReturn ==
  /\ PreadReturns
  /\ vpc # "idle" ~> vpc = "idle"

=============================================================================
