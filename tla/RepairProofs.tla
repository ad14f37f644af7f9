---------------------------- MODULE RepairProofs -----------------------------
(***************************************************************************)
(* What a repair writes, for every archive, header length and window: the  *)
(* output is monotonic whatever fails, with filling and a reliable output  *)
(* every byte is in its place, and the report accounts for all of it.      *)
(***************************************************************************)
EXTENDS Repair, FiniteSetTheorems, TLAPS

(* Where the scan stands when a block is about to be written. *)
BlockInv ==
  pc \in {"gap", "block"} =>
    /\ At \in Cands /\ Here.intact
    /\ pc = "gap" => Here.off > expect_raw /\ remain = Here.off - expect_raw

(* What was written lies below expect_raw, the later the higher. *)
OutInv ==
  st # ErrIO =>
    /\ \A k \in Data : out[k][1] \in Cands /\ StreamPos(out[k]) < expect_raw
    /\ \A j, k \in Data : j < k => StreamPos(out[j]) < StreamPos(out[k])

(* How long the output is: once a gap is filled, up to the block's offset. *)
Filled == IF pc = "block" /\ Here.off > expect_raw THEN Here.off ELSE expect_raw
PlaceInv ==
  reliable /\ have_out /\ fill_gaps =>
    /\ Len(out) = Filled
    /\ \A k \in Data : StreamPos(out[k]) = k - 1

(* Nothing has failed or been written before the scan begins. *)
Starting == pc \in {"setup", "dict", "open", "window"}
StartInv == Starting => st = OK /\ out = <<>> /\ pos = arc.first /\ expect_raw = 0

(* The report, between two blocks and within one: a header that is found   *)
(* is counted before its block is, and a gap before the block behind it.   *)
Behind == pc \in {"gap", "block"}
CountInv ==
  st # ErrIO =>
    /\ bytes_recovered + gap_bytes = IF Behind /\ Here.off > expect_raw THEN Here.off ELSE expect_raw
    /\ blocks_found = blocks_ok + blocks_bad + IF Behind THEN 1 ELSE 0

(* The bytes the report calls recovered are those in the output. *)
DataInv == st # ErrIO /\ have_out => Cardinality(Data) = bytes_recovered

(* Where the scan is, and the headers it has come past. *)
Place == IF pc \in {"scan", "gap", "block"} THEN At ELSE pos
Before(p) == { c \in Cands : c < p }

(* Every header behind the scan is counted, and the one it is at once its  *)
(* block is decoded.                                                       *)
FoundInv ==
  st # ErrIO /\ Real = Cands =>
    blocks_found = Cardinality(Before(Place)) + IF Behind THEN 1 ELSE 0

(* Of an archive that is healthy the scan has written the blocks behind it *)
(* and nothing else, and the next one is where the last one of them ends.  *)
PrefixInv ==
  st # ErrIO /\ Real = Cands /\ Healthy /\ blocks_bad = 0 =>
    /\ \/ Before(Place) = {} /\ expect_raw = 0
       \/ \E d \in Before(Place) : /\ \A e \in Before(Place) : e <= d
                                   /\ expect_raw = arc.cand[d].off + arc.cand[d].raw
    /\ \A c \in Before(Place) : arc.cand[c].off + arc.cand[c].raw <= expect_raw
    /\ Behind => pc = "block" /\ Here.off = expect_raw
    /\ have_out => /\ Len(out) = expect_raw
                   /\ \A k \in DOMAIN out : out[k] # Fill /\ StreamPos(out[k]) = k - 1

(* A repair says that all is well only if no block was bad. *)
EndInv == pc = "done" /\ st = OK => blocks_bad = 0

IInv == TypeOK /\ StartInv /\ BlockInv /\ OutInv /\ PlaceInv /\ CountInv /\ DataInv
        /\ FoundInv /\ PrefixInv /\ EndInv

-----------------------------------------------------------------------------

(* A candidate's record has the fields of a block header. *)
LEMMA CandidateFacts ==
  ASSUME TypeOK, NEW c \in Cands
  PROVE  /\ arc.cand[c].ext \in Nat /\ arc.cand[c].off \in Nat
         /\ arc.cand[c].raw \in Nat /\ arc.cand[c].raw > 0
         /\ c \in Nat
<1>1. arc.cand[c] \in Candidate
  BY DEF TypeOK, IsArchive, Cands
<1>2. c \in Nat
  BY WindowAssumption DEF TypeOK, IsArchive, Cands
<1> QED BY <1>1, <1>2 DEF Candidate

(* The scan always moves forward, or at least not back. *)
LEMMA WindowStepFacts ==
  ASSUME TypeOK
  PROVE  WindowStep \in Nat
BY WindowAssumption DEF TypeOK, WindowStep

(* xq_repair_file begins with an empty output and nothing expected. *)
LEMMA InitIInv == Init => IInv
<1> SUFFICES ASSUME Init PROVE IInv
  OBVIOUS
<1>1. IsArchive(arc)
  BY ArchivesAssumption DEF Init
<1>2. TypeOK
  <2>1. pos \in Nat /\ got \in 0 .. Window /\ i \in Nat /\ expect_raw \in Nat /\ remain \in Nat
    BY <1>1, WindowAssumption DEF Init, IsArchive
  <2>2. st \in Statuses /\ out \in Seq(Nat \X Nat)
    BY DEF Init, Statuses
  <2>3. have_out \in BOOLEAN /\ fill_gaps \in BOOLEAN /\ reliable \in BOOLEAN
    BY WindowAssumption DEF Init
  <2> QED BY <1>1, <2>1, <2>2, <2>3 DEF Init, TypeOK, Pc
<1>3. Data = {} /\ Cardinality(Data) = 0
  BY FS_EmptySet DEF Init, Data
<1>4. CountInv /\ DataInv /\ EndInv
  BY <1>3 DEF Init, CountInv, DataInv, EndInv, Behind
<1>5. Before(Place) = {} /\ Cardinality(Before(Place)) = 0 /\ ~Behind
  <2>1. Before(arc.first) = {}
    BY <1>1, WindowAssumption DEF Before, Cands, IsArchive
  <2>2. Place = arc.first /\ ~Behind
    BY DEF Init, Place, Behind
  <2> QED BY <2>1, <2>2, FS_EmptySet
<1>6. FoundInv
  BY <1>5 DEF Init, FoundInv
<1>7. PrefixInv
  BY <1>5 DEF Init, PrefixInv
<1> QED BY <1>2, <1>3, <1>4, <1>6, <1>7 DEF Init, IInv, StartInv, BlockInv, OutInv, PlaceInv, Filled

(* What is written goes behind what is there. *)
LEMMA Concat ==
  ASSUME NEW s \in Seq(Nat \X Nat), NEW t \in Seq(Nat \X Nat)
  PROVE  s \o t \in Seq(Nat \X Nat)
OBVIOUS

(* Fill bytes added behind the output change none of the others. *)
LEMMA FillsFacts ==
  ASSUME NEW n \in Nat
  PROVE  /\ Fills(n) \in Seq(Nat \X Nat) /\ Len(Fills(n)) = n
         /\ \A k \in 1 .. n : Fills(n)[k] = Fill
BY DEF Fills, Fill

(* The bytes a block gives, in the order of the stream. *)
LEMMA BlockBytesFacts ==
  ASSUME NEW n \in Nat, At \in Nat
  PROVE  /\ BlockBytes(n) \in Seq(Nat \X Nat) /\ Len(BlockBytes(n)) = n
         /\ \A k \in 1 .. n : BlockBytes(n)[k] = <<At, k - 1>>
BY DEF BlockBytes


(* Every step of the repair keeps its state well typed. *)
LEMMA TypeStep ==
  ASSUME TypeOK, BlockInv, [Next]_vars
  PROVE  TypeOK'
<1>2. CASE Setup \/ OpenOut \/ AllocWindow
  BY <1>2 DEF Setup, OpenOut, AllocWindow, TypeOK, Pc, scanVars, argVars, rep
<1>3. ASSUME NEW s \in Statuses, Finish(s)
      PROVE  pc' \in Pc /\ pc' = "done" /\ st' \in Statuses
  BY <1>3 DEF Finish, Pc, Statuses
<1>4. CASE SetupFails
  <2>1. PICK s \in Failures[pc] : Finish(s)
    BY <1>4 DEF SetupFails
  <2>2. s \in Statuses
    BY <1>4, <2>1 DEF SetupFails, Failures, Statuses
  <2>3. pc' = "done" /\ st' \in Statuses
    BY <1>3, <2>1, <2>2
  <2> QED BY <1>4, <2>3 DEF SetupFails, TypeOK, Pc, scanVars, argVars, rep
<1>5. CASE LoadDict
  <2>1. ddict' \in BOOLEAN /\ dict_ok' \in BOOLEAN
    BY <1>5 DEF LoadDict
  <2> QED BY <1>5, <2>1 DEF LoadDict, TypeOK, Pc, scanVars, argVars, rep
<1>6. CASE ReadWindow
  <2>1. got' \in 0 .. Window
    BY <1>6, WindowAssumption DEF ReadWindow, TypeOK, IsArchive, Smaller
  <2> QED BY <1>6, <2>1 DEF ReadWindow, TypeOK, Pc, argVars, rep
<1>7. CASE ReadWindowFails \/ ScanEnd
  <2>1. Finish(st)
    BY <1>7 DEF ReadWindowFails, ScanEnd
  <2>2. pc' = "done" /\ st' \in Statuses
    BY <1>3, <2>1 DEF TypeOK
  <2> QED BY <1>7, <2>2 DEF ReadWindowFails, ScanEnd, TypeOK, Pc, scanVars, argVars, rep
<1>8. CASE NoHeader
  BY <1>8 DEF NoHeader, Scanning, TypeOK, argVars, rep
<1>9. CASE BlockBad
  BY <1>9, WindowAssumption DEF BlockBad, Scanning, TypeOK, argVars, rep
<1>10. CASE BlockGood
  <2>1. Here.off - expect_raw \in Int /\ i + HdrLen <= got
    BY <1>10, CandidateFacts DEF BlockGood, Scanning, Here, TypeOK
  <2>2. gaps' \in Nat /\ gap_bytes' \in Nat
    BY <1>10, <2>1 DEF BlockGood, TypeOK
  <2>3. remain' \in Nat /\ pc' \in Pc
    BY <1>10, <2>1 DEF BlockGood, TypeOK, Pc
  <2> QED BY <1>10, <2>1, <2>2, <2>3 DEF BlockGood, TypeOK, scanVars, argVars, rep
<1>11. CASE FillGap \/ FillGapFails
  <2>1. \E n \in Nat : out' = out \o Fills(n)
    <3>1. CASE FillGap
      BY <3>1 DEF FillGap, TypeOK
    <3>2. CASE FillGapFails
      <4>1. PICK n \in 0 .. remain - 1 : out' = out \o Fills(n)
        BY <3>2 DEF FillGapFails
      <4>2. n \in Nat
        BY <4>1 DEF TypeOK
      <4> QED BY <4>1, <4>2
    <3> QED BY <1>11, <3>1, <3>2
  <2>2. out' \in Seq(Nat \X Nat)
    BY <2>1, FillsFacts DEF TypeOK
  <2>3. /\ pc = "gap" /\ pc' = "block" /\ remain' = 0
        /\ UNCHANGED <<argVars, ddict, scanVars, expect_raw, rep, st>>
    BY <1>11 DEF FillGap, FillGapFails
  <2> QED BY <2>2, <2>3 DEF TypeOK, Pc, scanVars, argVars, rep
<1>12. CASE WriteBlock \/ SkipBlock
  <2>1. At \in Cands /\ Here.raw \in Nat /\ Here.off \in Nat /\ Here.ext \in Nat /\ At \in Nat
    BY <1>12, CandidateFacts DEF WriteBlock, SkipBlock, BlockInv, Here
  <2>2. out' \in Seq(Nat \X Nat)
    <3>1. BlockBytes(Here.raw) \in Seq(Nat \X Nat)
      BY <2>1, BlockBytesFacts
    <3>2. out' = out \/ out' = out \o BlockBytes(Here.raw)
      BY <1>12 DEF WriteBlock, SkipBlock
    <3>3. out \in Seq(Nat \X Nat)
      BY DEF TypeOK
    <3> QED BY <3>1, <3>2, <3>3, Concat
  <2>3. /\ bytes_recovered' \in Nat /\ blocks_ok' \in Nat /\ blocks_skipped' \in Nat
        /\ i' \in Nat /\ expect_raw' \in Nat
        /\ UNCHANGED <<blocks_found, blocks_bad, gaps, gap_bytes, dict_ok>>
    <3>1. /\ bytes_recovered \in Nat /\ blocks_ok \in Nat /\ blocks_skipped \in Nat
          /\ i \in Nat /\ expect_raw \in Nat
      BY DEF TypeOK
    <3>2. CASE WriteBlock
      <4>1. /\ bytes_recovered' = bytes_recovered + Here.raw /\ blocks_ok' = blocks_ok + 1
            /\ i' = i + Here.ext /\ expect_raw' = Here.off + Here.raw
            /\ UNCHANGED <<blocks_skipped, blocks_found, blocks_bad, gaps, gap_bytes, dict_ok>>
        BY <3>2 DEF WriteBlock, Advance, SkipBlock
      <4> QED BY <2>1, <3>1, <4>1
    <3>3. CASE SkipBlock
      <4>1. /\ blocks_skipped' = blocks_skipped + 1 /\ blocks_ok' = blocks_ok + 1
            /\ i' = i + Here.ext
            /\ UNCHANGED <<bytes_recovered, expect_raw, blocks_found, blocks_bad, gaps, gap_bytes, dict_ok>>
        BY <3>3 DEF SkipBlock, Advance
      <4> QED BY <2>1, <3>1, <4>1
    <3> QED BY <1>12, <3>2, <3>3
  <2>4. pc' = "scan" /\ UNCHANGED <<argVars, ddict, pos, got, remain, st>>
    BY <1>12 DEF WriteBlock, SkipBlock
  <2> QED BY <2>2, <2>3, <2>4 DEF TypeOK, Pc, argVars, rep
<1>13. CASE WriteBlockFails
  <2>1. At \in Cands /\ Here.raw \in Nat /\ At \in Nat
    BY <1>13, CandidateFacts DEF WriteBlockFails, BlockInv, Here
  <2>2. PICK n \in 0 .. Here.raw - 1 : out' = out \o BlockBytes(n)
    BY <1>13 DEF WriteBlockFails
  <2>3. out' \in Seq(Nat \X Nat)
    <3>1. BlockBytes(n) \in Seq(Nat \X Nat)
      <4>1. n \in Nat
        BY <2>1, <2>2
      <4> QED BY <2>1, <4>1, BlockBytesFacts
    <3>2. out \in Seq(Nat \X Nat)
      BY DEF TypeOK
    <3> QED BY <2>2, <3>1, <3>2, Concat
  <2>4. pos' \in Nat
    BY <1>13, WindowStepFacts DEF WriteBlockFails, TypeOK
  <2> QED BY <1>13, <2>3, <2>4 DEF WriteBlockFails, TypeOK, Pc, Statuses, argVars, rep
<1>14. CASE NextWindow
  <2>1. pos' \in Nat
    BY <1>14, WindowStepFacts DEF NextWindow, TypeOK
  <2> QED BY <1>14, <2>1 DEF NextWindow, TypeOK, Pc, argVars, rep
<1>15. CASE UNCHANGED vars
  BY <1>15 DEF vars, scanVars, argVars, rep, TypeOK, IsArchive
<1> QED BY <1>2, <1>4, <1>5, <1>6, <1>7, <1>8, <1>9, <1>10, <1>11, <1>12, <1>13, <1>14, <1>15
        DEF Next, Step, Terminated

-----------------------------------------------------------------------------

(* Appending to the output keeps its bytes and adds those of the piece. *)
LEMMA AppendFacts ==
  ASSUME TypeOK, NEW t \in Seq(Nat \X Nat), out' = out \o t
  PROVE  /\ Len(out') = Len(out) + Len(t) /\ Len(out) \in Nat /\ Len(t) \in Nat
         /\ DOMAIN out = 1 .. Len(out) /\ DOMAIN out' = 1 .. Len(out')
         /\ \A k \in DOMAIN out : out'[k] = out[k]
         /\ \A k \in DOMAIN out' : k \notin DOMAIN out =>
              k - Len(out) \in 1 .. Len(t) /\ out'[k] = t[k - Len(out)]
<1>1. out \in Seq(Nat \X Nat)
  BY DEF TypeOK
<1> QED BY <1>1

(* Fill bytes are no data: the data stays what and where it was. *)
LEMMA FillStep ==
  ASSUME TypeOK, NEW n \in Nat, out' = out \o Fills(n)
  PROVE  /\ Data' = Data /\ \A k \in Data : out'[k] = out[k]
         /\ Len(out') = Len(out) + n
<1>1. Fills(n) \in Seq(Nat \X Nat) /\ Len(Fills(n)) = n /\ \A k \in 1 .. n : Fills(n)[k] = Fill
  BY FillsFacts
<1>2. /\ Len(out') = Len(out) + n /\ Len(out) \in Nat
      /\ DOMAIN out = 1 .. Len(out) /\ DOMAIN out' = 1 .. Len(out')
      /\ \A k \in DOMAIN out : out'[k] = out[k]
      /\ \A k \in DOMAIN out' : k \notin DOMAIN out => out'[k] = Fill
  <2>1. /\ Len(out') = Len(out) + Len(Fills(n)) /\ Len(out) \in Nat
        /\ DOMAIN out = 1 .. Len(out) /\ DOMAIN out' = 1 .. Len(out')
        /\ \A k \in DOMAIN out : out'[k] = out[k]
        /\ \A k \in DOMAIN out' : k \notin DOMAIN out =>
             k - Len(out) \in 1 .. Len(Fills(n)) /\ out'[k] = Fills(n)[k - Len(out)]
    BY <1>1, AppendFacts
  <2> QED BY <1>1, <2>1
<1>3. DOMAIN out \subseteq DOMAIN out'
  BY <1>2
<1>4. Data' = { k \in DOMAIN out' : out'[k] # Fill }
  BY DEF Data
<1> QED BY <1>2, <1>3, <1>4 DEF Data

(* A block's bytes carry on from where the output ended. *)
LEMMA WriteStep ==
  ASSUME TypeOK, At \in Nat, NEW n \in Nat, out' = out \o BlockBytes(n)
  PROVE  /\ Len(out') = Len(out) + n /\ Len(out) \in Nat /\ DOMAIN out = 1 .. Len(out)
         /\ \A k \in Data' : \/ k \in Data /\ out'[k] = out[k]
                             \/ /\ k \in Nat /\ k > Len(out) /\ k <= Len(out) + n
                                /\ out'[k] = <<At, k - Len(out) - 1>>
<1>1. /\ BlockBytes(n) \in Seq(Nat \X Nat) /\ Len(BlockBytes(n)) = n
      /\ \A k \in 1 .. n : BlockBytes(n)[k] = <<At, k - 1>>
  BY BlockBytesFacts
<1>2. /\ Len(out') = Len(out) + n /\ Len(out) \in Nat
      /\ DOMAIN out = 1 .. Len(out) /\ DOMAIN out' = 1 .. Len(out')
      /\ \A k \in DOMAIN out : out'[k] = out[k]
      /\ \A k \in DOMAIN out' : k \notin DOMAIN out =>
           k - Len(out) \in 1 .. n /\ out'[k] = BlockBytes(n)[k - Len(out)]
  BY <1>1, AppendFacts
<1>3. ASSUME NEW k \in Data'
      PROVE  \/ k \in Data /\ out'[k] = out[k]
             \/ /\ k \in Nat /\ k > Len(out) /\ k <= Len(out) + n
                /\ out'[k] = <<At, k - Len(out) - 1>>
  <2>1. k \in DOMAIN out' /\ out'[k] # Fill
    BY <1>3 DEF Data
  <2>2. CASE k \in DOMAIN out
    BY <1>2, <2>1, <2>2 DEF Data
  <2>3. CASE k \notin DOMAIN out
    <3>1. k - Len(out) \in 1 .. n /\ out'[k] = <<At, k - Len(out) - 1>>
      BY <1>1, <1>2, <2>1, <2>3
    <3>2. k \in Nat
      BY <1>2, <2>1
    <3> QED BY <1>2, <3>1, <3>2
  <2> QED BY <2>2, <2>3
<1> QED BY <1>2, <1>3

-----------------------------------------------------------------------------

(* No step changes the archive or the arguments. *)
LEMMA ArgStep ==
  ASSUME [Next]_vars
  PROVE  UNCHANGED <<arc, have_out, fill_gaps, reliable>>
<1>1. CASE Setup \/ SetupFails \/ LoadDict \/ OpenOut \/ AllocWindow
  BY <1>1 DEF Setup, SetupFails, LoadDict, OpenOut, AllocWindow, argVars
<1>2. CASE ReadWindow \/ ReadWindowFails \/ ScanEnd \/ NextWindow \/ NoHeader \/ BlockBad \/ BlockGood
  BY <1>2 DEF ReadWindow, ReadWindowFails, ScanEnd, NextWindow, NoHeader, BlockBad, BlockGood, argVars
<1>3. CASE FillGap \/ FillGapFails \/ WriteBlock \/ WriteBlockFails \/ SkipBlock
  BY <1>3 DEF FillGap, FillGapFails, WriteBlock, WriteBlockFails, SkipBlock, argVars
<1>4. CASE UNCHANGED vars
  BY <1>4 DEF vars, argVars
<1> QED BY <1>1, <1>2, <1>3, <1>4 DEF Next, Step, Terminated

(* Finish keeps a status that is an error. *)
LEMMA FinishKeeps ==
  ASSUME Finish(st), st' # ErrIO
  PROVE  st # ErrIO
BY DEF Finish, OK, ErrIO, ErrCorruptBlock

(* Before the scan nothing is written and nothing has failed. *)
LEMMA StartStep ==
  ASSUME StartInv, [Next]_vars
  PROVE  StartInv'
<1>1. CASE Setup \/ LoadDict \/ OpenOut \/ AllocWindow
  BY <1>1, ArgStep DEF StartInv, Starting, scanVars, Setup, LoadDict, OpenOut, AllocWindow
<1>2. CASE SetupFails \/ ReadWindowFails \/ ScanEnd
  BY <1>2 DEF Starting, StartInv, SetupFails, ReadWindowFails, ScanEnd, Finish
<1>3. CASE ReadWindow \/ NextWindow \/ NoHeader \/ BlockBad \/ BlockGood
  BY <1>3 DEF Starting, StartInv, ReadWindow, NextWindow, NoHeader, BlockBad, BlockGood, Scanning
<1>4. CASE FillGap \/ FillGapFails \/ WriteBlock \/ WriteBlockFails \/ SkipBlock
  BY <1>4 DEF Starting, StartInv, FillGap, FillGapFails, WriteBlock, WriteBlockFails, SkipBlock
<1>5. CASE UNCHANGED vars
  BY <1>5 DEF Starting, vars, argVars, scanVars, StartInv
<1> QED BY <1>1, <1>2, <1>3, <1>4, <1>5 DEF Next, Step, Terminated

(* A block is written or skipped where its header was found. *)
LEMMA BlockStep ==
  ASSUME TypeOK, BlockInv, [Next]_vars
  PROVE  BlockInv'
<1>1. CASE BlockGood
  <2>1. At \in Cands /\ At' = At /\ Here' = Here /\ Cands' = Cands /\ expect_raw' = expect_raw /\ Here.intact
    BY <1>1 DEF BlockGood, Decodes, At, Here, Cands, argVars, scanVars
  <2>2. Here.off \in Nat /\ expect_raw \in Nat
    BY <2>1, CandidateFacts DEF Here, TypeOK
  <2>3. pc' = "gap" => Here.off - expect_raw > 0 /\ remain' = Here.off - expect_raw
    BY <1>1 DEF BlockGood
  <2> QED BY <2>1, <2>2, <2>3 DEF BlockInv
<1>2. CASE FillGap \/ FillGapFails
  <2>1. At \in Cands /\ At' = At /\ Cands' = Cands /\ pc' = "block" /\ Here' = Here /\ Here.intact
    BY <1>2 DEF FillGap, FillGapFails, BlockInv, Here, At, Cands, argVars, scanVars
  <2> QED BY <2>1 DEF BlockInv
<1>3. CASE pc' \notin {"gap", "block"}
  BY <1>3 DEF BlockInv
<1>4. CASE UNCHANGED vars
  BY <1>4 DEF vars, argVars, scanVars, BlockInv, At, Here, Cands
<1>5. CASE Setup \/ SetupFails \/ LoadDict \/ OpenOut \/ AllocWindow \/ ReadWindow \/ ReadWindowFails \/ ScanEnd
  <2>1. pc' \notin {"gap", "block"}
    BY <1>5 DEF Setup, SetupFails, LoadDict, OpenOut, AllocWindow, ReadWindow, ReadWindowFails, ScanEnd, Finish
  <2> QED BY <1>3, <2>1
<1>6. CASE NextWindow \/ NoHeader \/ BlockBad \/ WriteBlock \/ WriteBlockFails \/ SkipBlock
  <2>1. pc' \notin {"gap", "block"}
    BY <1>6 DEF NextWindow, NoHeader, BlockBad, Scanning, WriteBlock, WriteBlockFails, SkipBlock
  <2> QED BY <1>3, <2>1
<1> QED BY <1>1, <1>2, <1>4, <1>5, <1>6 DEF Next, Step, Terminated

(* The steps that write nothing. *)
Quiet ==
  \/ Setup \/ SetupFails \/ LoadDict \/ OpenOut \/ AllocWindow \/ ReadWindow \/ ReadWindowFails \/ ScanEnd
  \/ NoHeader \/ BlockBad \/ NextWindow

(* They leave the output, expect_raw and the status as they are. *)
LEMMA QuietFacts ==
  ASSUME StartInv, Quiet
  PROVE  /\ out' = out /\ expect_raw' = expect_raw /\ (st' # ErrIO => st # ErrIO)
         /\ pc \notin {"gap", "block"} /\ pc' \notin {"gap", "block"}
<1>1. CASE Setup \/ SetupFails \/ LoadDict \/ OpenOut \/ AllocWindow
  <2>1. pc \in {"setup", "dict", "open", "window"} /\ Starting
    BY <1>1 DEF Starting, Setup, SetupFails, LoadDict, OpenOut, AllocWindow, Failures
  <2>2. st # ErrIO
    BY <2>1 DEF StartInv, OK, ErrIO
  <2>3. out' = out /\ expect_raw' = expect_raw /\ pc' \notin {"gap", "block"}
    BY <1>1 DEF Setup, SetupFails, LoadDict, OpenOut, AllocWindow, Finish
  <2> QED BY <2>1, <2>2, <2>3
<1>2. CASE ReadWindowFails \/ ScanEnd
  BY <1>2, FinishKeeps DEF ReadWindowFails, ScanEnd, Finish
<1>3. CASE ReadWindow \/ NextWindow \/ NoHeader \/ BlockBad
  BY <1>3 DEF ReadWindow, NextWindow, NoHeader, BlockBad, Scanning
<1> QED BY <1>1, <1>2, <1>3 DEF Quiet

(* What is written is in the order of the stream. *)
LEMMA OutStep ==
  ASSUME TypeOK, StartInv, BlockInv, OutInv, [Next]_vars
  PROVE  OutInv'
<1> SUFFICES ASSUME st' # ErrIO
             PROVE  /\ \A k \in Data' : out'[k][1] \in Cands' /\ StreamPos(out[k])' < expect_raw'
                    /\ \A j, k \in Data' : j < k => StreamPos(out[j])' < StreamPos(out[k])'
  BY DEF OutInv
<1>a. arc' = arc /\ Cands' = Cands
  BY ArgStep DEF Cands
<1>b. ASSUME st # ErrIO
      PROVE  /\ \A k \in Data : out[k][1] \in Cands /\ StreamPos(out[k]) < expect_raw
             /\ \A j, k \in Data : j < k => StreamPos(out[j]) < StreamPos(out[k])
  BY <1>b DEF OutInv
<1>c. ASSUME Data' = Data, \A k \in Data : out'[k] = out[k], expect_raw' = expect_raw, st # ErrIO
      PROVE  /\ \A k \in Data' : out'[k][1] \in Cands' /\ StreamPos(out[k])' < expect_raw'
             /\ \A j, k \in Data' : j < k => StreamPos(out[j])' < StreamPos(out[k])'
  BY <1>a, <1>b, <1>c DEF StreamPos
<1>1. CASE UNCHANGED <<out, expect_raw>> /\ st # ErrIO
  BY <1>1, <1>c DEF Data
<1>2. CASE Quiet
  BY <1>1, <1>2, QuietFacts
<1>3. CASE BlockGood \/ SkipBlock \/ UNCHANGED vars
  <2>1. UNCHANGED <<out, expect_raw>> /\ st # ErrIO
    BY <1>3 DEF BlockGood, SkipBlock, vars
  <2> QED BY <1>1, <2>1
<1>4. CASE FillGap \/ FillGapFails
  <2>1. UNCHANGED expect_raw /\ st # ErrIO
    BY <1>4 DEF FillGap, FillGapFails
  <2>2. \E n \in Nat : out' = out \o Fills(n)
    <3>1. CASE FillGap
      BY <3>1 DEF FillGap, TypeOK
    <3>2. CASE FillGapFails
      <4>1. PICK n \in 0 .. remain - 1 : out' = out \o Fills(n)
        BY <3>2 DEF FillGapFails
      <4>2. n \in Nat
        BY <4>1 DEF TypeOK
      <4> QED BY <4>1, <4>2
    <3> QED BY <1>4, <3>1, <3>2
  <2>3. Data' = Data /\ \A k \in Data : out'[k] = out[k]
    BY <2>2, FillStep
  <2> QED BY <1>c, <2>1, <2>3
<1>5. CASE WriteBlock
  <2>1. /\ At \in Cands /\ At \in Nat /\ Here.off \in Nat /\ Here.raw \in Nat /\ Here.raw > 0
        /\ Here.off >= expect_raw /\ expect_raw \in Nat /\ expect_raw' = Here.off + Here.raw
        /\ st # ErrIO
    BY <1>5, CandidateFacts DEF WriteBlock, BlockInv, Here, TypeOK
  <2>2. ASSUME NEW k \in Data
        PROVE  StreamPos(out[k]) < expect_raw' /\ StreamPos(out[k]) < Here.off /\ StreamPos(out[k]) \in Int
    <3>1. out[k][1] \in Cands /\ StreamPos(out[k]) < expect_raw
      BY <1>b, <2>1
    <3>2. out[k][2] \in Nat
      BY DEF TypeOK, Data
    <3>3. StreamPos(out[k]) \in Int
      BY <3>1, <3>2, CandidateFacts DEF StreamPos
    <3> QED BY <2>1, <3>1, <3>3
  <2>3. CASE ~have_out
    <3>1. out' = out /\ Data' = Data
      BY <1>5, <2>3 DEF WriteBlock, Data
    <3>2. \A k \in Data : StreamPos(out[k])' = StreamPos(out[k])
      BY <1>a, <3>1 DEF StreamPos
    <3> QED BY <1>a, <1>b, <2>1, <2>2, <3>1, <3>2
  <2>4. CASE have_out
    <3>1. out' = out \o BlockBytes(Here.raw)
      BY <1>5, <2>4 DEF WriteBlock
    <3>2. /\ Len(out) \in Nat /\ DOMAIN out = 1 .. Len(out)
          /\ \A k \in Data' : \/ k \in Data /\ out'[k] = out[k]
                              \/ /\ k \in Nat /\ k > Len(out) /\ k <= Len(out) + Here.raw
                                 /\ out'[k] = <<At, k - Len(out) - 1>>
      BY <2>1, <3>1, WriteStep
    <3>3. ASSUME NEW k \in Data', k \in Data
          PROVE  k \in Nat /\ k <= Len(out) /\ out'[k] = out[k] /\ StreamPos(out[k])' = StreamPos(out[k])
      <4>1. k \in Nat /\ k <= Len(out)
        BY <3>2, <3>3 DEF Data
      <4>2. out'[k] = out[k]
        BY <3>2, <4>1
      <4> QED BY <1>a, <4>1, <4>2 DEF StreamPos
    <3>4. ASSUME NEW k \in Data', k \notin Data
          PROVE  /\ k \in Nat /\ k > Len(out) /\ k <= Len(out) + Here.raw
                 /\ out'[k][1] = At /\ StreamPos(out[k])' = Here.off + (k - Len(out) - 1)
      <4>1. k \in Nat /\ k > Len(out) /\ k <= Len(out) + Here.raw /\ out'[k] = <<At, k - Len(out) - 1>>
        BY <3>2, <3>4
      <4> QED BY <1>a, <4>1 DEF StreamPos, Here
    <3>5. ASSUME NEW k \in Data'
          PROVE  out'[k][1] \in Cands' /\ StreamPos(out[k])' < expect_raw'
      <4>1. CASE k \in Data
        BY <1>a, <1>b, <2>1, <2>2, <3>3, <4>1
      <4>2. CASE k \notin Data
        BY <1>a, <2>1, <3>2, <3>4, <4>2
      <4> QED BY <4>1, <4>2
    <3>6. ASSUME NEW j \in Data', NEW k \in Data', j < k
          PROVE  StreamPos(out[j])' < StreamPos(out[k])'
      <4>1. CASE j \in Data /\ k \in Data
        BY <1>b, <2>1, <3>3, <3>6, <4>1
      <4>2. CASE j \in Data /\ k \notin Data
        <5>1. StreamPos(out[j])' < Here.off /\ StreamPos(out[j])' \in Int
          BY <2>2, <3>3, <4>2
        <5>2. k \in Nat /\ k > Len(out) /\ StreamPos(out[k])' = Here.off + (k - Len(out) - 1)
          BY <3>4, <4>2
        <5> QED BY <2>1, <3>2, <5>1, <5>2
      <4>3. CASE j \notin Data /\ k \in Data
        <5>1. j \in Nat /\ j > Len(out) /\ k \in Nat /\ k <= Len(out)
          BY <3>3, <3>4, <4>3
        <5> QED BY <3>2, <3>6, <5>1
      <4>4. CASE j \notin Data /\ k \notin Data
        <5>1. /\ j \in Nat /\ k \in Nat
              /\ StreamPos(out[j])' = Here.off + (j - Len(out) - 1)
              /\ StreamPos(out[k])' = Here.off + (k - Len(out) - 1)
          BY <3>4, <4>4
        <5> QED BY <2>1, <3>2, <3>6, <5>1
      <4> QED BY <4>1, <4>2, <4>3, <4>4
    <3> QED BY <3>5, <3>6
  <2>5. have_out \in BOOLEAN
    BY DEF TypeOK
  <2> QED BY <2>3, <2>4, <2>5
<1>6. CASE WriteBlockFails
  BY <1>6 DEF WriteBlockFails
<1> QED BY <1>2, <1>3, <1>4, <1>5, <1>6 DEF Next, Step, Terminated, Quiet

(* With filling and a reliable output every byte written is in its place. *)
LEMMA PlaceStep ==
  ASSUME TypeOK, StartInv, BlockInv, PlaceInv, [Next]_vars
  PROVE  PlaceInv'
<1> SUFFICES ASSUME reliable, have_out, fill_gaps
             PROVE  Len(out') = Filled' /\ \A k \in Data' : StreamPos(out[k])' = k - 1
  BY ArgStep DEF PlaceInv
<1>a. arc' = arc
  BY ArgStep
<1>b. Len(out) = Filled /\ \A k \in Data : StreamPos(out[k]) = k - 1
  BY DEF PlaceInv
<1>c. expect_raw \in Nat
  BY DEF TypeOK
<1>d. ASSUME Data' = Data, \A k \in Data : out'[k] = out[k]
      PROVE  \A k \in Data' : StreamPos(out[k])' = k - 1
  BY <1>a, <1>b, <1>d DEF StreamPos
<1>1. CASE Quiet
  <2>1. out' = out /\ expect_raw' = expect_raw /\ pc \notin {"gap", "block"} /\ pc' \notin {"gap", "block"}
    BY <1>1, QuietFacts
  <2>2. Len(out') = Filled'
    BY <1>b, <2>1 DEF Filled
  <2> QED BY <1>d, <2>1, <2>2 DEF Data
<1>2. CASE BlockGood
  <2>1. At \in Cands /\ Here' = Here /\ expect_raw' = expect_raw /\ out' = out /\ pc # "block"
    BY <1>2 DEF BlockGood, Scanning, At, Here, Cands, argVars, scanVars
  <2>2. Here.off \in Nat
    BY <2>1, CandidateFacts DEF Here
  <2>3. pc' = "block" => Here.off - expect_raw <= 0
    BY <1>2, <1>c, <2>2 DEF BlockGood
  <2>4. Filled' = expect_raw
    BY <1>c, <2>1, <2>2, <2>3 DEF Filled
  <2>5. Filled = expect_raw
    BY <2>1 DEF Filled
  <2> QED BY <1>b, <1>d, <2>1, <2>4, <2>5 DEF Data
<1>3. CASE FillGap
  <2>1. /\ pc = "gap" /\ pc' = "block" /\ expect_raw' = expect_raw /\ Here' = Here
        /\ out' = out \o Fills(remain)
    BY <1>3 DEF FillGap, At, Here, argVars, scanVars
  <2>2. Here.off > expect_raw /\ remain = Here.off - expect_raw /\ remain \in Nat /\ Here.off \in Nat
    BY <2>1, CandidateFacts DEF BlockInv, TypeOK, Here
  <2>3. Len(out) = expect_raw
    BY <1>b, <2>1 DEF Filled
  <2>4. Data' = Data /\ (\A k \in Data : out'[k] = out[k]) /\ Len(out') = Len(out) + remain
    BY <2>1, <2>2, FillStep
  <2>5. Filled' = Here.off
    BY <2>1, <2>2 DEF Filled
  <2> QED BY <1>c, <1>d, <2>2, <2>3, <2>4, <2>5
<1>4. CASE FillGapFails \/ WriteBlockFails
  BY <1>4 DEF FillGapFails, WriteBlockFails
<1>5. CASE WriteBlock
  <2>1. /\ At \in Cands /\ At \in Nat /\ Here.off \in Nat /\ Here.raw \in Nat
        /\ Here.off >= expect_raw /\ expect_raw' = Here.off + Here.raw
        /\ pc = "block" /\ pc' = "scan" /\ out' = out \o BlockBytes(Here.raw)
    BY <1>5, CandidateFacts DEF WriteBlock, BlockInv, Here
  <2>2. Len(out) = Here.off
    BY <1>b, <1>c, <2>1 DEF Filled
  <2>3. /\ Len(out') = Len(out) + Here.raw
        /\ \A k \in Data' : \/ k \in Data /\ out'[k] = out[k]
                            \/ k \in Nat /\ k > Len(out) /\ out'[k] = <<At, k - Len(out) - 1>>
    BY <2>1, WriteStep
  <2>4. Len(out') = Filled'
    BY <2>1, <2>2, <2>3 DEF Filled
  <2>5. ASSUME NEW k \in Data'
        PROVE  StreamPos(out[k])' = k - 1
    <3>1. CASE k \in Data /\ out'[k] = out[k]
      BY <1>a, <1>b, <3>1 DEF StreamPos
    <3>2. CASE k \in Nat /\ out'[k] = <<At, k - Len(out) - 1>>
      <4>1. StreamPos(out[k])' = Here.off + (k - Len(out) - 1)
        BY <1>a, <3>2 DEF StreamPos, Here
      <4> QED BY <2>1, <2>2, <3>2, <4>1
    <3> QED BY <2>3, <3>1, <3>2
  <2> QED BY <2>4, <2>5
<1>6. CASE SkipBlock
  <2>1. /\ At \in Cands /\ Here.off \in Nat /\ Here.off < expect_raw /\ expect_raw' = expect_raw
        /\ out' = out /\ pc' = "scan"
    BY <1>6, CandidateFacts DEF SkipBlock, BlockInv, Here
  <2>2. Filled = expect_raw /\ Filled' = expect_raw
    BY <1>c, <2>1 DEF Filled
  <2> QED BY <1>b, <1>d, <2>1, <2>2 DEF Data
<1>7. CASE UNCHANGED vars
  <2>1. out' = out /\ Filled' = Filled
    BY <1>7 DEF vars, argVars, scanVars, Filled, Here, At
  <2> QED BY <1>b, <1>d, <2>1 DEF Data
<1> QED BY <1>1, <1>2, <1>3, <1>4, <1>5, <1>6, <1>7 DEF Next, Step, Terminated, Quiet

(* The report is kept with every header, gap and block. *)
LEMMA CountStep ==
  ASSUME TypeOK, StartInv, BlockInv, CountInv, [Next]_vars
  PROVE  CountInv'
<1> SUFFICES ASSUME st' # ErrIO
             PROVE  /\ bytes_recovered' + gap_bytes'
                         = IF Behind' /\ Here'.off > expect_raw' THEN Here'.off ELSE expect_raw'
                    /\ blocks_found' = blocks_ok' + blocks_bad' + IF Behind' THEN 1 ELSE 0
  BY DEF CountInv
<1>a. ASSUME st # ErrIO
      PROVE  /\ bytes_recovered + gap_bytes = IF Behind /\ Here.off > expect_raw THEN Here.off ELSE expect_raw
             /\ blocks_found = blocks_ok + blocks_bad + IF Behind THEN 1 ELSE 0
  BY <1>a DEF CountInv
<1>b. /\ expect_raw \in Nat /\ bytes_recovered \in Nat /\ gap_bytes \in Nat
      /\ blocks_found \in Nat /\ blocks_ok \in Nat /\ blocks_bad \in Nat
  BY DEF TypeOK
<1>1. CASE Quiet
  <2>1. /\ expect_raw' = expect_raw /\ st # ErrIO /\ ~Behind /\ ~Behind'
    BY <1>1, QuietFacts DEF Behind
  <2>2. bytes_recovered' = bytes_recovered /\ gap_bytes' = gap_bytes /\ blocks_ok' = blocks_ok
    BY <1>1 DEF Quiet, Setup, SetupFails, LoadDict, OpenOut, AllocWindow, ReadWindow, ReadWindowFails, ScanEnd,
                NoHeader, BlockBad, NextWindow, rep
  <2>3. CASE BlockBad
    <3>1. blocks_found' = blocks_found + 1 /\ blocks_bad' = blocks_bad + 1
      BY <2>3 DEF BlockBad
    <3> QED BY <1>a, <1>b, <2>1, <2>2, <3>1
  <2>4. CASE ~BlockBad
    <3>1. blocks_found' = blocks_found /\ blocks_bad' = blocks_bad
      BY <1>1, <2>4 DEF Quiet, Setup, SetupFails, LoadDict, OpenOut, AllocWindow, ReadWindow, ReadWindowFails,
                        ScanEnd, NoHeader, NextWindow, rep
    <3> QED BY <1>a, <1>b, <2>1, <2>2, <3>1
  <2> QED BY <2>3, <2>4
<1>2. CASE BlockGood
  <2>1. /\ At \in Cands /\ Here' = Here /\ expect_raw' = expect_raw /\ st' = st /\ ~Behind /\ Behind'
        /\ blocks_found' = blocks_found + 1
        /\ UNCHANGED <<blocks_ok, blocks_bad, bytes_recovered>>
    BY <1>2 DEF BlockGood, Scanning, At, Here, Cands, argVars, scanVars, Behind
  <2>2. Here.off \in Nat
    BY <2>1, CandidateFacts DEF Here
  <2>3. bytes_recovered + gap_bytes = expect_raw /\ blocks_found = blocks_ok + blocks_bad
    BY <1>a, <1>b, <2>1
  <2>4. CASE Here.off > expect_raw
    <3>1. gap_bytes' = gap_bytes + (Here.off - expect_raw)
      BY <1>2, <1>b, <2>2, <2>4 DEF BlockGood
    <3> QED BY <1>b, <2>1, <2>2, <2>3, <2>4, <3>1
  <2>5. CASE ~(Here.off > expect_raw)
    <3>1. gap_bytes' = gap_bytes
      BY <1>2, <1>b, <2>2, <2>5 DEF BlockGood
    <3> QED BY <1>b, <2>1, <2>2, <2>3, <2>5, <3>1
  <2> QED BY <2>4, <2>5
<1>3. CASE FillGap \/ FillGapFails
  <2>1. /\ Behind /\ Behind' /\ Here' = Here /\ expect_raw' = expect_raw /\ st' = st
        /\ UNCHANGED <<blocks_found, blocks_ok, blocks_bad, bytes_recovered, gap_bytes>>
    BY <1>3 DEF FillGap, FillGapFails, At, Here, argVars, scanVars, rep, Behind
  <2> QED BY <1>a, <2>1
<1>4. CASE WriteBlock
  <2>1. /\ At \in Cands /\ Here.off >= expect_raw /\ Behind /\ ~Behind' /\ st' = st
        /\ bytes_recovered' = bytes_recovered + Here.raw /\ blocks_ok' = blocks_ok + 1
        /\ expect_raw' = Here.off + Here.raw
        /\ UNCHANGED <<blocks_found, blocks_bad, gap_bytes>>
    BY <1>4 DEF WriteBlock, BlockInv, Behind
  <2>2. Here.off \in Nat /\ Here.raw \in Nat
    BY <2>1, CandidateFacts DEF Here
  <2>3. bytes_recovered + gap_bytes = Here.off /\ blocks_found = blocks_ok + blocks_bad + 1
    BY <1>a, <1>b, <2>1, <2>2
  <2> QED BY <1>b, <2>1, <2>2, <2>3
<1>5. CASE WriteBlockFails
  BY <1>5 DEF WriteBlockFails
<1>6. CASE SkipBlock
  <2>1. /\ At \in Cands /\ Here.off < expect_raw /\ Behind /\ ~Behind' /\ st' = st
        /\ blocks_ok' = blocks_ok + 1 /\ expect_raw' = expect_raw
        /\ UNCHANGED <<blocks_found, blocks_bad, gap_bytes, bytes_recovered>>
    BY <1>6 DEF SkipBlock, BlockInv, Behind
  <2>2. Here.off \in Nat
    BY <2>1, CandidateFacts DEF Here
  <2>3. bytes_recovered + gap_bytes = expect_raw /\ blocks_found = blocks_ok + blocks_bad + 1
    BY <1>a, <1>b, <2>1, <2>2
  <2> QED BY <1>b, <2>1, <2>3
<1>7. CASE UNCHANGED vars
  BY <1>7, <1>a DEF vars, argVars, scanVars, rep, Here, At, Behind
<1> QED BY <1>1, <1>2, <1>3, <1>4, <1>5, <1>6, <1>7 DEF Next, Step, Terminated, Quiet

(* A block that is written brings as many bytes of data as it has. *)
LEMMA WriteCount ==
  ASSUME TypeOK, At \in Cands, NEW n \in Nat, out' = out \o BlockBytes(n)
  PROVE  Cardinality(Data') = Cardinality(Data) + n
<1>1. At \in Nat /\ At # 0
  BY DEF TypeOK, IsArchive, Cands
<1>2. /\ BlockBytes(n) \in Seq(Nat \X Nat) /\ Len(BlockBytes(n)) = n
      /\ \A k \in 1 .. n : BlockBytes(n)[k] = <<At, k - 1>>
  BY <1>1, BlockBytesFacts
<1>3. /\ Len(out') = Len(out) + n /\ Len(out) \in Nat
      /\ DOMAIN out = 1 .. Len(out) /\ DOMAIN out' = 1 .. Len(out')
      /\ \A k \in DOMAIN out : out'[k] = out[k]
      /\ \A k \in DOMAIN out' : k \notin DOMAIN out =>
           k - Len(out) \in 1 .. n /\ out'[k] = BlockBytes(n)[k - Len(out)]
  BY <1>2, AppendFacts
<1> DEFINE added == Len(out) + 1 .. Len(out) + n
<1>4. ASSUME NEW k \in added
      PROVE  k \in DOMAIN out' /\ k \notin DOMAIN out /\ out'[k] # Fill
  <2>1. k \in DOMAIN out' /\ k \notin DOMAIN out
    BY <1>3, <1>4
  <2>2. out'[k] = <<At, (k - Len(out)) - 1>>
    BY <1>2, <1>3, <2>1
  <2> QED BY <1>1, <2>1, <2>2 DEF Fill
<1>5. Data' = { k \in DOMAIN out' : out'[k] # Fill }
  BY DEF Data
<1>6. ASSUME NEW k
      PROVE  k \in Data' <=> k \in Data \cup added
  <2>1. CASE k \in DOMAIN out
    <3>1. k \in DOMAIN out' /\ out'[k] = out[k] /\ k \notin added
      BY <1>3, <2>1
    <3> QED BY <1>5, <2>1, <3>1 DEF Data
  <2>2. CASE k \in added
    BY <1>4, <1>5, <2>2
  <2>3. CASE k \notin DOMAIN out /\ k \notin added
    <3>1. k \notin DOMAIN out'
      BY <1>3, <2>3
    <3>2. k \notin Data
      BY <2>3 DEF Data
    <3> QED BY <1>5, <2>3, <3>1, <3>2
  <2> QED BY <2>1, <2>2, <2>3
<1>7. Data' = Data \cup added
  BY <1>6
<1>8. IsFiniteSet(Data) /\ IsFiniteSet(added) /\ Cardinality(added) = n
  <2>1. IsFiniteSet(1 .. Len(out))
    BY <1>3, FS_Interval
  <2>2. Data \subseteq 1 .. Len(out)
    BY <1>3 DEF Data
  <2>3. IsFiniteSet(Data)
    BY <2>1, <2>2, FS_Subset
  <2>4. Len(out) + 1 \in Int /\ Len(out) + n \in Int
    BY <1>3
  <2>5. /\ IsFiniteSet(added)
        /\ Cardinality(added) = IF Len(out) + 1 > Len(out) + n THEN 0 ELSE (Len(out) + n) - (Len(out) + 1) + 1
    BY <2>4, FS_Interval
  <2>6. Cardinality(added) = n
    <3> HIDE DEF added
    <3> QED BY <1>3, <2>5
  <2> QED BY <2>3, <2>5, <2>6
<1>9. Data \cap added = {}
  BY <1>4 DEF Data
<1>10. Cardinality(Data) \in Nat
  BY <1>8, FS_CardinalityType
<1> HIDE DEF added
<1>11. Cardinality(Data \cup added) = Cardinality(Data) + Cardinality(added) - Cardinality(Data \cap added)
  BY <1>8, FS_Union
<1>12. Cardinality(Data \cap added) = 0
  BY <1>9, FS_EmptySet
<1> QED BY <1>7, <1>8, <1>10, <1>11, <1>12

(* What the report calls recovered is what was written. *)
LEMMA DataStep ==
  ASSUME TypeOK, StartInv, BlockInv, DataInv, [Next]_vars
  PROVE  DataInv'
<1> SUFFICES ASSUME st' # ErrIO, have_out
             PROVE  Cardinality(Data') = bytes_recovered'
  BY ArgStep DEF DataInv
<1>a. ASSUME st # ErrIO PROVE Cardinality(Data) = bytes_recovered
  BY <1>a DEF DataInv
<1>1. CASE Quiet \/ BlockGood \/ SkipBlock \/ UNCHANGED vars
  <2>1. out' = out /\ st # ErrIO
    BY <1>1, QuietFacts DEF BlockGood, SkipBlock, vars
  <2>2. bytes_recovered' = bytes_recovered
    BY <1>1 DEF Quiet, Setup, SetupFails, LoadDict, OpenOut, AllocWindow, ReadWindow, ReadWindowFails, ScanEnd,
                NoHeader, BlockBad, NextWindow, BlockGood, SkipBlock, vars, rep
  <2>3. Data' = Data
    BY <2>1 DEF Data
  <2> QED BY <1>a, <2>1, <2>2, <2>3
<1>2. CASE FillGap \/ FillGapFails
  <2>1. UNCHANGED <<bytes_recovered, st>>
    BY <1>2 DEF FillGap, FillGapFails, rep
  <2>2. \E n \in Nat : out' = out \o Fills(n)
    <3>1. CASE FillGap
      BY <3>1 DEF FillGap, TypeOK
    <3>2. CASE FillGapFails
      <4>1. PICK n \in 0 .. remain - 1 : out' = out \o Fills(n)
        BY <3>2 DEF FillGapFails
      <4>2. n \in Nat
        BY <4>1 DEF TypeOK
      <4> QED BY <4>1, <4>2
    <3> QED BY <1>2, <3>1, <3>2
  <2>3. Data' = Data
    BY <2>2, FillStep
  <2> QED BY <1>a, <2>1, <2>3
<1>3. CASE WriteBlock
  <2>1. /\ At \in Cands /\ Here.raw \in Nat /\ st # ErrIO
        /\ bytes_recovered' = bytes_recovered + Here.raw
        /\ out' = out \o BlockBytes(Here.raw)
    BY <1>3, CandidateFacts DEF WriteBlock, BlockInv, Here
  <2>2. Cardinality(Data') = Cardinality(Data) + Here.raw
    BY <2>1, WriteCount
  <2> QED BY <1>a, <2>1, <2>2
<1>4. CASE WriteBlockFails
  BY <1>4 DEF WriteBlockFails
<1> QED BY <1>1, <1>2, <1>3, <1>4 DEF Next, Step, Terminated, Quiet

(* The headers behind a place, of which there are finitely many. *)
LEMMA BeforeFacts ==
  ASSUME TypeOK, NEW p
  PROVE  IsFiniteSet(Before(p)) /\ Cardinality(Before(p)) \in Nat
<1>1. arc.first \in Int /\ arc.size - HdrLen \in Int
  BY WindowAssumption DEF TypeOK, IsArchive
<1>2. IsFiniteSet(arc.first .. arc.size - HdrLen)
  BY <1>1, FS_Interval
<1>3. Before(p) \subseteq arc.first .. arc.size - HdrLen
  BY DEF TypeOK, IsArchive, Before, Cands
<1> QED BY <1>2, <1>3, FS_Subset, FS_CardinalityType

(* Two headers that begin a block each: the second is behind the first's   *)
(* block if that is intact, and behind its header if it is not.            *)
LEMMA Apart ==
  ASSUME TypeOK, Real = Cands, NEW c \in Cands, NEW d \in Cands, c < d
  PROVE  /\ arc.cand[c].intact => c + arc.cand[c].ext <= d
         /\ c + HdrLen <= d
<1>1. ~arc.cand[c].planted /\ ~arc.cand[d].planted
  BY DEF Real
<1>2. c + (IF arc.cand[c].intact THEN arc.cand[c].ext ELSE HdrLen) <= d
  BY <1>1 DEF TypeOK, IsArchive, Cands
<1>3. arc.cand[c].ext >= HdrLen
  BY DEF TypeOK, IsArchive, Cands
<1> QED BY <1>2, <1>3, CandidateFacts, WindowAssumption DEF TypeOK, IsArchive, Cands

(* Coming past no header leaves those behind the scan, and coming past the *)
(* one it is at adds that one.                                             *)
LEMMA PassNone ==
  ASSUME TypeOK, NEW p \in Nat, NEW q \in Nat, p <= q, \A c \in Cands : ~(p <= c /\ c < q)
  PROVE  Before(q) = Before(p)
<1>1. \A c \in Cands : c \in Nat
  BY CandidateFacts
<1> QED BY <1>1 DEF Before

(* Past a candidate and not past the next one, the scan has one more behind *)
(* it.                                                                      *)
LEMMA PassOne ==
  ASSUME TypeOK, NEW p \in Cands, NEW q \in Nat, p < q, \A c \in Cands : p < c => q <= c
  PROVE  Before(q) = Before(p) \cup {p}
<1>1. \A c \in Cands : c \in Nat
  BY CandidateFacts
<1> QED BY <1>1 DEF Before

(* A step brings the scan past the header it is at, or past none. *)
Passes == BlockBad \/ WriteBlock \/ SkipBlock
(* A step that does not pass a header leaves behind what was behind. *)
LEMMA MoveStep ==
  ASSUME TypeOK, StartInv, BlockInv, Real = Cands, [Next]_vars, st' # ErrIO
  PROVE  /\ ~Passes => Before(Place)' = Before(Place)
         /\ Passes => At \in Cands /\ Place = At /\ Before(Place)' = Before(Place) \cup {At}
<1>a. Cands' = Cands /\ Before(Place)' = Before(Place')
  BY ArgStep DEF Cands, Before
<1>b. pos \in Nat /\ i \in Nat /\ At \in Nat
  BY DEF TypeOK, At
<1>1. CASE Setup \/ SetupFails \/ LoadDict \/ OpenOut \/ AllocWindow \/ ReadWindowFails \/ ScanEnd
  <2>1. Place' = Place
    BY <1>1 DEF Setup, SetupFails, LoadDict, OpenOut, AllocWindow, ReadWindowFails, ScanEnd, Failures, Finish,
                scanVars, Place
  <2>2. ~Passes
    BY <1>1 DEF Setup, SetupFails, LoadDict, OpenOut, AllocWindow, ReadWindowFails, ScanEnd, Failures, Passes,
                BlockBad, WriteBlock, SkipBlock, Scanning
  <2> QED BY <1>a, <2>1, <2>2
<1>2. CASE ReadWindow
  <2>1. Place = pos /\ Place' = pos + 0
    BY <1>2 DEF ReadWindow, Place, At
  <2>2. ~Passes
    BY <1>2 DEF ReadWindow, Passes, BlockBad, WriteBlock, SkipBlock, Scanning
  <2> QED BY <1>a, <1>b, <2>1, <2>2
<1>3. CASE NextWindow
  <2>1. Place = At /\ Place' = pos + WindowStep
    BY <1>3 DEF NextWindow, Place
  <2>2. WindowStep = i
    BY <1>3, <1>b, WindowAssumption DEF NextWindow, WindowStep, TypeOK
  <2>3. ~Passes
    BY <1>3, <1>b, WindowAssumption DEF NextWindow, Passes, BlockBad, WriteBlock, SkipBlock, Scanning, TypeOK
  <2> QED BY <1>a, <2>1, <2>2, <2>3 DEF At
<1>4. CASE NoHeader
  <2>1. Place = At /\ Place' = At + 1 /\ At \notin Cands
    BY <1>4, <1>b DEF NoHeader, Scanning, Place, At
  <2>2. \A c \in Cands : ~(At <= c /\ c < At + 1)
    BY <1>b, <2>1, CandidateFacts
  <2>3. Before(At + 1) = Before(At)
    BY <1>b, <2>2, PassNone
  <2>4. ~Passes
    BY <1>4, <2>1 DEF NoHeader, Passes, BlockBad, WriteBlock, SkipBlock, Scanning
  <2> QED BY <1>a, <2>1, <2>3, <2>4
<1>5. CASE BlockBad
  <2>1. Place = At /\ Place' = At + HdrLen /\ At \in Cands
    BY <1>5, <1>b, WindowAssumption DEF BlockBad, Scanning, Place, At
  <2>2. \A c \in Cands : At < c => At + HdrLen <= c
    BY <2>1, Apart
  <2>3. Before(At + HdrLen) = Before(At) \cup {At}
    BY <1>b, <2>1, <2>2, PassOne, WindowAssumption
  <2> QED BY <1>5, <1>a, <2>1, <2>3 DEF Passes
<1>6. CASE WriteBlock \/ SkipBlock
  <2>1. At \in Cands /\ Here.intact /\ Here.ext \in Nat /\ Here.ext > 0
    <3>1. At \in Cands /\ Here.intact
      BY <1>6 DEF WriteBlock, SkipBlock, BlockInv
    <3>2. Here.ext \in Nat /\ Here.ext >= HdrLen
      BY <3>1, CandidateFacts DEF TypeOK, IsArchive, Cands, Here
    <3> QED BY <3>1, <3>2, WindowAssumption
  <2>2. Place = At /\ Place' = At + Here.ext
    BY <1>6, <1>b, <2>1 DEF WriteBlock, SkipBlock, Advance, Place, At
  <2>3. \A c \in Cands : At < c => At + Here.ext <= c
    BY <2>1, Apart DEF Here
  <2>4. Before(At + Here.ext) = Before(At) \cup {At}
    BY <1>b, <2>1, <2>3, PassOne
  <2> QED BY <1>6, <1>a, <2>1, <2>2, <2>4 DEF Passes
<1>7. CASE BlockGood \/ FillGap \/ FillGapFails
  <2>1. Place' = Place
    BY <1>7 DEF BlockGood, FillGap, FillGapFails, Scanning, scanVars, Place, At
  <2>2. ~BlockBad
    BY <1>7, <1>b, WindowAssumption DEF BlockGood, FillGap, FillGapFails, BlockBad, Scanning, scanVars
  <2>3. ~WriteBlock /\ ~SkipBlock
    BY <1>7 DEF BlockGood, FillGap, FillGapFails, WriteBlock, SkipBlock, Scanning
  <2> QED BY <1>a, <2>1, <2>2, <2>3 DEF Passes
<1>8. CASE WriteBlockFails
  BY <1>8 DEF WriteBlockFails
<1>9. CASE UNCHANGED vars
  <2>1. Place' = Place
    BY <1>9 DEF vars, scanVars, Place, At
  <2>2. ~Passes
    BY <1>9, <1>b DEF vars, rep, Passes, BlockBad, WriteBlock, SkipBlock, TypeOK
  <2> QED BY <1>a, <2>1, <2>2
<1> QED BY <1>1, <1>2, <1>3, <1>4, <1>5, <1>6, <1>7, <1>8, <1>9 DEF Next, Step, Terminated

(* A status that is not the one of a failed write was not one before. *)
LEMMA StatusStep ==
  ASSUME StartInv, [Next]_vars, st' # ErrIO
  PROVE  st # ErrIO
<1>1. CASE Quiet
  BY <1>1, QuietFacts
<1>2. CASE BlockGood \/ FillGap \/ FillGapFails \/ WriteBlock \/ SkipBlock \/ UNCHANGED vars
  BY <1>2 DEF BlockGood, FillGap, FillGapFails, WriteBlock, SkipBlock, vars
<1>3. CASE WriteBlockFails
  BY <1>3 DEF WriteBlockFails
<1> QED BY <1>1, <1>2, <1>3 DEF Next, Step, Terminated, Quiet

(* Every header the scan comes past is counted once. *)
LEMMA FoundStep ==
  ASSUME TypeOK, StartInv, BlockInv, FoundInv, [Next]_vars
  PROVE  FoundInv'
<1> SUFFICES ASSUME st' # ErrIO, (Real = Cands)'
             PROVE  blocks_found' = Cardinality(Before(Place)') + IF Behind' THEN 1 ELSE 0
  BY DEF FoundInv
<1>1. st # ErrIO /\ Real = Cands
  BY StatusStep, ArgStep DEF Real, Cands
<1>2. blocks_found = Cardinality(Before(Place)) + IF Behind THEN 1 ELSE 0
  BY <1>1 DEF FoundInv
<1>3. IsFiniteSet(Before(Place)) /\ Cardinality(Before(Place)) \in Nat
  BY BeforeFacts
<1>4. CASE Passes
  <2>1. At \in Cands /\ Place = At /\ Before(Place)' = Before(Place) \cup {At}
    BY <1>1, <1>4, MoveStep
  <2>2. At \notin Before(Place)
    <3>1. At \in Nat
      BY DEF TypeOK, At
    <3> QED BY <2>1, <3>1 DEF Before
  <2>3. Cardinality(Before(Place)') = Cardinality(Before(Place)) + 1
    BY <1>3, <2>1, <2>2, FS_AddElement
  <2>4. CASE BlockBad
    <3>1. blocks_found' = blocks_found + 1 /\ ~Behind /\ ~Behind'
      BY <2>4 DEF BlockBad, Scanning, Behind
    <3> QED BY <1>2, <1>3, <2>3, <3>1
  <2>5. CASE WriteBlock \/ SkipBlock
    <3>1. blocks_found' = blocks_found /\ Behind /\ ~Behind'
      BY <2>5 DEF WriteBlock, SkipBlock, Behind
    <3> QED BY <1>2, <1>3, <2>3, <3>1
  <2> QED BY <1>4, <2>4, <2>5 DEF Passes
<1>5. CASE ~Passes
  <2>1. Before(Place)' = Before(Place)
    BY <1>1, <1>5, MoveStep
  <2>2. CASE BlockGood
    <3>1. blocks_found' = blocks_found + 1 /\ ~Behind /\ Behind'
      BY <2>2 DEF BlockGood, Scanning, Behind
    <3> QED BY <1>2, <1>3, <2>1, <3>1
  <2>3. CASE ~BlockGood
    <3>1. blocks_found' = blocks_found /\ Behind' = Behind
      <4>1. CASE Quiet
        <5>1. ~Behind /\ ~Behind'
          BY <4>1, QuietFacts DEF Behind
        <5>2. blocks_found' = blocks_found
          <6>1. ~BlockBad
            BY <1>5 DEF Passes
          <6>2. CASE Setup \/ SetupFails \/ OpenOut \/ AllocWindow \/ ReadWindow \/ ReadWindowFails \/ ScanEnd
            BY <6>2 DEF Setup, SetupFails, OpenOut, AllocWindow, ReadWindow, ReadWindowFails, ScanEnd, rep
          <6>3. CASE LoadDict \/ NoHeader \/ NextWindow
            BY <6>3 DEF LoadDict, NoHeader, NextWindow, rep
          <6> QED BY <4>1, <6>1, <6>2, <6>3 DEF Quiet
        <5> QED BY <5>1, <5>2 DEF Behind
      <4>2. CASE FillGap \/ FillGapFails \/ UNCHANGED vars
        BY <4>2 DEF FillGap, FillGapFails, vars, rep, Behind
      <4>3. CASE WriteBlockFails
        BY <4>3 DEF WriteBlockFails
      <4> QED BY <1>5, <2>3, <4>1, <4>2, <4>3 DEF Next, Step, Terminated, Quiet, Passes
    <3> QED BY <1>2, <2>1, <3>1
  <2> QED BY <2>2, <2>3
<1> QED BY <1>4, <1>5

-----------------------------------------------------------------------------

(* Where a block of a healthy archive begins in the stream: where the last *)
(* block in front of it ends.                                              *)
LEMMA HealthyFacts ==
  ASSUME TypeOK, Real = Cands, Healthy, NEW c \in Cands
  PROVE  /\ Before(c) = {} => arc.cand[c].off = 0
         /\ \A d \in Before(c) : (\A e \in Before(c) : e <= d) => arc.cand[c].off = arc.cand[d].off + arc.cand[d].raw
<1>1. { d \in Real : d < c } = Before(c)
  BY DEF Before
<1>2. IF Before(c) = {} THEN arc.cand[c].off = 0
      ELSE LET m == CHOOSE d \in Before(c) : \A e \in Before(c) : e <= d
           IN  arc.cand[c].off = arc.cand[m].off + arc.cand[m].raw
  BY <1>1 DEF Healthy
<1>3. ASSUME NEW d \in Before(c), \A e \in Before(c) : e <= d
      PROVE  arc.cand[c].off = arc.cand[d].off + arc.cand[d].raw
  <2> DEFINE m == CHOOSE x \in Before(c) : \A e \in Before(c) : e <= x
  <2>1. m \in Before(c) /\ \A e \in Before(c) : e <= m
    BY <1>3
  <2>2. arc.cand[c].off = arc.cand[m].off + arc.cand[m].raw
    BY <1>2, <1>3
  <2> HIDE DEF m
  <2>3. m <= d /\ d <= m /\ m \in Nat /\ d \in Nat
    BY <1>3, <2>1, CandidateFacts DEF Before
  <2>4. m = d
    BY <2>3
  <2> QED BY <2>2, <2>4
<1> QED BY <1>2, <1>3

(* After the dictionary is loaded a healthy archive stays so. *)
LEMMA HealthySame ==
  ASSUME arc' = arc, ddict' = ddict
  PROVE  Healthy' = Healthy
BY DEF Healthy, Real, Cands

(* Of a healthy archive the output is what the blocks behind the scan hold. *)
LEMMA PrefixStep ==
  ASSUME TypeOK, StartInv, BlockInv, PrefixInv, [Next]_vars
  PROVE  PrefixInv'
<1> DEFINE Chain(b, x) ==
             /\ \/ b = {} /\ x = 0
                \/ \E d \in b : (\A e \in b : e <= d) /\ x = arc.cand[d].off + arc.cand[d].raw
             /\ \A c \in b : arc.cand[c].off + arc.cand[c].raw <= x
           Exact == Len(out) = expect_raw /\ \A k \in DOMAIN out : out[k] # Fill /\ StreamPos(out[k]) = k - 1
<1> SUFFICES ASSUME st' # ErrIO, (Real = Cands)', Healthy', blocks_bad' = 0
             PROVE  /\ Chain(Before(Place)', expect_raw')
                    /\ Behind' => pc' = "block" /\ (Here.off)' = expect_raw'
                    /\ have_out => Exact'
  <2>1. arc' = arc /\ have_out' = have_out
    BY ArgStep
  <2> QED BY <2>1 DEF PrefixInv
<1>a. arc' = arc /\ have_out' = have_out /\ Cands' = Cands /\ Real = Cands
  BY ArgStep DEF Real, Cands
<1>b. st # ErrIO /\ blocks_bad \in Nat /\ expect_raw \in Nat
  BY StatusStep DEF TypeOK
<1>c. ASSUME ddict' = ddict, blocks_bad = 0
      PROVE  /\ Healthy /\ Chain(Before(Place), expect_raw)
             /\ Behind => pc = "block" /\ Here.off = expect_raw
             /\ have_out => Exact
  <2>1. Healthy
    BY <1>a, <1>c, HealthySame
  <2> QED BY <1>a, <1>b, <1>c, <2>1 DEF PrefixInv
<1>d. ASSUME out' = out, expect_raw' = expect_raw, Exact
      PROVE  Exact'
  BY <1>a, <1>d DEF StreamPos
<1> HIDE DEF Chain, Exact
<1>1. CASE Starting'
  <2>1. st' = OK /\ out' = <<>> /\ pos' = arc.first /\ expect_raw' = 0
    BY <1>1, <1>a, StartStep DEF StartInv
  <2>2. Place' = arc.first /\ ~Behind'
    BY <1>1, <2>1 DEF Starting, Place, Behind
  <2>3. Before(Place)' = {}
    <3>1. Before(Place)' = Before(arc.first)
      BY <1>a, <2>2 DEF Before
    <3> QED BY <3>1, WindowAssumption DEF Before, Cands, TypeOK, IsArchive
  <2>4. Exact'
    BY <2>1 DEF Exact
  <2> QED BY <2>1, <2>2, <2>3, <2>4 DEF Chain
<1>2. CASE ReadWindow \/ ReadWindowFails \/ ScanEnd \/ NoHeader \/ NextWindow \/ SetupFails
  <2>1. ddict' = ddict /\ blocks_bad' = blocks_bad /\ out' = out /\ expect_raw' = expect_raw /\ ~Behind'
    BY <1>2 DEF ReadWindow, ReadWindowFails, ScanEnd, NoHeader, NextWindow, SetupFails, Finish, Scanning, rep, Behind
  <2>2. ~Passes
    BY <1>2, WindowAssumption DEF ReadWindow, ReadWindowFails, ScanEnd, NoHeader, NextWindow, SetupFails, Failures,
         Passes, BlockBad, WriteBlock, SkipBlock, Scanning, TypeOK
  <2>3. Before(Place)' = Before(Place)
    BY <1>a, <2>2, MoveStep
  <2> QED BY <1>c, <1>d, <2>1, <2>3
<1>3. CASE BlockBad
  BY <1>3, <1>b DEF BlockBad
<1>4. CASE BlockGood
  <2>1. /\ ddict' = ddict /\ blocks_bad' = blocks_bad /\ out' = out /\ expect_raw' = expect_raw
        /\ Here' = Here /\ At \in Cands /\ Place = At
    BY <1>4 DEF BlockGood, Scanning, scanVars, argVars, Place, At, Here
  <2>2. ~Passes
    <3>1. ~WriteBlock /\ ~SkipBlock
      BY <1>4 DEF BlockGood, Scanning, WriteBlock, SkipBlock
    <3>2. ~BlockBad
      BY <1>b, <2>1 DEF BlockBad
    <3> QED BY <3>1, <3>2 DEF Passes
  <2>3. Before(Place)' = Before(Place)
    BY <1>a, <2>2, MoveStep
  <2>4. Healthy /\ Chain(Before(At), expect_raw) /\ (have_out => Exact)
    BY <1>c, <2>1
  <2>5. /\ Before(At) = {} => Here.off = 0
        /\ \A d \in Before(At) : (\A e \in Before(At) : e <= d) => Here.off = arc.cand[d].off + arc.cand[d].raw
    BY <1>a, <2>1, <2>4, HealthyFacts DEF Here
  <2>6. Here.off = expect_raw
    BY <2>4, <2>5 DEF Chain
  <2>7. pc' = "block"
    BY <1>4, <1>b, <2>6 DEF BlockGood
  <2> QED BY <1>d, <2>1, <2>3, <2>4, <2>6, <2>7
<1>5. CASE FillGap \/ FillGapFails
  <2>1. ddict' = ddict /\ blocks_bad' = blocks_bad /\ pc = "gap" /\ Behind
    BY <1>5 DEF FillGap, FillGapFails, rep, Behind
  <2> QED BY <1>c, <2>1
<1>6. CASE WriteBlock
  <2>1. /\ ddict' = ddict /\ blocks_bad' = blocks_bad /\ expect_raw' = Here.off + Here.raw
        /\ pc = "block" /\ Behind /\ ~Behind'
    BY <1>6 DEF WriteBlock, Behind
  <2>2. Chain(Before(Place), expect_raw) /\ Here.off = expect_raw /\ (have_out => Exact)
    BY <1>c, <2>1
  <2>3. At \in Cands /\ Place = At /\ Before(Place)' = Before(At) \cup {At}
    BY <1>6, <1>a, MoveStep DEF Passes
  <2>4. Here.off \in Nat /\ Here.raw \in Nat /\ Here.raw > 0 /\ At \in Nat /\ At # 0
    BY <2>3, CandidateFacts DEF Here, TypeOK, IsArchive, Cands
  <2>5. Chain(Before(At) \cup {At}, expect_raw')
    <3>1. ASSUME NEW c \in Before(At) \cup {At}
          PROVE  c <= At /\ arc.cand[c].off + arc.cand[c].raw <= expect_raw'
      <4>1. CASE c = At
        BY <2>1, <2>4, <4>1 DEF Here
      <4>2. CASE c \in Before(At)
        <5>1. c \in Cands /\ c < At
          BY <4>2 DEF Before
        <5>2. arc.cand[c].off + arc.cand[c].raw <= expect_raw
          BY <2>2, <2>3, <4>2 DEF Chain
        <5>3. c \in Nat /\ arc.cand[c].off \in Nat /\ arc.cand[c].raw \in Nat
          BY <5>1, CandidateFacts
        <5> QED BY <1>b, <2>1, <2>2, <2>4, <5>1, <5>2, <5>3
      <4> QED BY <3>1, <4>1, <4>2
    <3>2. expect_raw' = arc.cand[At].off + arc.cand[At].raw
      BY <2>1 DEF Here
    <3> QED BY <3>1, <3>2 DEF Chain
  <2>6. ASSUME have_out
        PROVE  Exact'
    <3>1. out' = out \o BlockBytes(Here.raw) /\ Exact
      BY <1>6, <2>2, <2>6 DEF WriteBlock
    <3>2. /\ BlockBytes(Here.raw) \in Seq(Nat \X Nat) /\ Len(BlockBytes(Here.raw)) = Here.raw
          /\ \A k \in 1 .. Here.raw : BlockBytes(Here.raw)[k] = <<At, k - 1>>
      BY <2>4, BlockBytesFacts
    <3>3. /\ Len(out') = Len(out) + Here.raw /\ Len(out) \in Nat
          /\ DOMAIN out = 1 .. Len(out) /\ DOMAIN out' = 1 .. Len(out')
          /\ \A k \in DOMAIN out : out'[k] = out[k]
          /\ \A k \in DOMAIN out' : k \notin DOMAIN out =>
               k - Len(out) \in 1 .. Here.raw /\ out'[k] = BlockBytes(Here.raw)[k - Len(out)]
      BY <3>1, <3>2, AppendFacts
    <3>4. Len(out) = expect_raw /\ \A k \in DOMAIN out : out[k] # Fill /\ StreamPos(out[k]) = k - 1
      BY <3>1 DEF Exact
    <3>5. ASSUME NEW k \in DOMAIN out'
          PROVE  out'[k] # Fill /\ StreamPos(out[k])' = k - 1
      <4>1. CASE k \in DOMAIN out
        BY <1>a, <3>3, <3>4, <4>1 DEF StreamPos
      <4>2. CASE k \notin DOMAIN out
        <5>1. out'[k] = <<At, (k - Len(out)) - 1>> /\ k \in Nat
          <6>1. k - Len(out) \in 1 .. Here.raw /\ out'[k] = BlockBytes(Here.raw)[k - Len(out)]
            BY <3>3, <4>2
          <6>2. BlockBytes(Here.raw)[k - Len(out)] = <<At, (k - Len(out)) - 1>>
            BY <3>2, <6>1
          <6>3. k \in Nat
            BY <3>3
          <6> QED BY <6>1, <6>2, <6>3
        <5>2. StreamPos(out[k])' = Here.off + ((k - Len(out)) - 1)
          BY <1>a, <5>1 DEF StreamPos, Here
        <5>3. StreamPos(out[k])' = k - 1
          BY <2>2, <2>4, <3>3, <3>4, <5>1, <5>2
        <5>4. out'[k] # Fill
          BY <2>4, <5>1 DEF Fill
        <5> QED BY <5>3, <5>4
      <4> QED BY <4>1, <4>2
    <3>6. Len(out') = expect_raw'
      BY <2>1, <2>2, <3>3, <3>4
    <3> QED BY <3>5, <3>6 DEF Exact
  <2> QED BY <2>1, <2>3, <2>5, <2>6
<1>7. CASE WriteBlockFails
  BY <1>7 DEF WriteBlockFails
<1>8. CASE SkipBlock
  <2>1. ddict' = ddict /\ blocks_bad' = blocks_bad /\ Behind /\ Here.off < expect_raw
    BY <1>8 DEF SkipBlock, Behind
  <2>2. Here.off = expect_raw
    BY <1>c, <2>1
  <2> QED BY <1>b, <2>1, <2>2
<1>9. CASE UNCHANGED vars
  <2>1. /\ ddict' = ddict /\ blocks_bad' = blocks_bad /\ out' = out /\ expect_raw' = expect_raw
        /\ Behind' = Behind /\ pc' = pc /\ Here' = Here /\ Place' = Place
    BY <1>9 DEF vars, argVars, scanVars, rep, Behind, Here, At, Place
  <2>2. Before(Place)' = Before(Place)
    BY <1>a, <2>1 DEF Before
  <2> QED BY <1>c, <1>d, <2>1, <2>2
<1>10. CASE Setup \/ LoadDict \/ OpenOut
  BY <1>10, <1>1 DEF Setup, LoadDict, OpenOut, Starting
<1>11. CASE AllocWindow
  <2>1. ddict' = ddict /\ blocks_bad' = blocks_bad /\ out' = out /\ expect_raw' = expect_raw /\ ~Behind'
    BY <1>11 DEF AllocWindow, rep, Behind
  <2>2. Place' = Place
    BY <1>11 DEF AllocWindow, scanVars, Place
  <2>3. Before(Place)' = Before(Place)
    BY <1>a, <2>2 DEF Before
  <2> QED BY <1>c, <1>d, <2>1, <2>3
<1> QED BY <1>2, <1>3, <1>4, <1>5, <1>6, <1>7, <1>8, <1>9, <1>10, <1>11 DEF Next, Step, Terminated

(* xq_repair_file returns XQ_OK only if no block was bad. *)
LEMMA EndStep ==
  ASSUME TypeOK, EndInv, [Next]_vars
  PROVE  EndInv'
<1>1. CASE SetupFails
  <2>1. pc' = "done" /\ st' # OK
    BY <1>1 DEF SetupFails, Finish, Failures, OK, ErrIO, ErrOOM, ErrCorruptHeader, ErrCorruptBlock
  <2> QED BY <2>1 DEF EndInv
<1>2. CASE ReadWindowFails \/ ScanEnd
  <2>1. Finish(st) /\ blocks_bad' = blocks_bad /\ blocks_bad \in Nat
    BY <1>2 DEF ReadWindowFails, ScanEnd, rep, TypeOK
  <2> QED BY <2>1 DEF EndInv, Finish, OK, ErrCorruptBlock
<1>3. CASE UNCHANGED vars
  BY <1>3 DEF vars, rep, EndInv
<1>4. CASE Setup \/ LoadDict \/ OpenOut \/ AllocWindow \/ ReadWindow \/ NextWindow \/ NoHeader \/ BlockBad
  BY <1>4 DEF Setup, LoadDict, OpenOut, AllocWindow, ReadWindow, NextWindow, NoHeader, BlockBad, Scanning, EndInv
<1>5. CASE BlockGood \/ FillGap \/ FillGapFails \/ WriteBlock \/ WriteBlockFails \/ SkipBlock
  BY <1>5 DEF BlockGood, FillGap, FillGapFails, WriteBlock, WriteBlockFails, SkipBlock, EndInv
<1> QED BY <1>1, <1>2, <1>3, <1>4, <1>5 DEF Next, Step, Terminated

-----------------------------------------------------------------------------

(* The invariant holds throughout a repair. *)
THEOREM RepairInvariant == Spec => []IInv
<1>1. IInv /\ [Next]_vars => IInv'
  BY TypeStep, StartStep, BlockStep, OutStep, PlaceStep, CountStep, DataStep, FoundStep, PrefixStep, EndStep DEF IInv
<1> QED BY <1>1, InitIInv, PTL DEF Spec

(* The state of a repair is well typed: no header is read past the window. *)
THEOREM RepairTypeCorrect == Spec => []TypeOK
<1>1. IInv => TypeOK
  BY DEF IInv
<1> QED BY <1>1, RepairInvariant, PTL

(* Whatever blocks are found, and wherever writing fails, the data in the  *)
(* output is in the order of the stream and never repeated.                *)
THEOREM RepairMonotonic == Spec => []Monotonic
<1>1. IInv => Monotonic
  BY DEF IInv, OutInv, Monotonic
<1> QED BY <1>1, RepairInvariant, PTL

(* With filling and an output that takes every write, the bytes that       *)
(* survive are where the headers of their blocks say.                      *)
THEOREM RepairSurvivorsInPlace == Spec => []SurvivorsInPlace
<1>1. IInv => SurvivorsInPlace
  BY DEF IInv, PlaceInv, SurvivorsInPlace
<1> QED BY <1>1, RepairInvariant, PTL

(* Unless writing has failed the report is exact between two blocks and at *)
(* the end: xq_repair_report's bytes_recovered and gap_bytes make up the   *)
(* stream as far as it was followed, every header found is a block that is *)
(* good or bad, and the output holds as many bytes as were recovered.      *)
THEOREM RepairReportExact == Spec => []ReportExact
<1>1. IInv => ReportExact
  <2> SUFFICES ASSUME IInv, pc \in {"outer", "scan", "done"}, st # ErrIO
               PROVE  /\ bytes_recovered + gap_bytes = expect_raw
                      /\ blocks_found = blocks_ok + blocks_bad
                      /\ have_out => Cardinality(Data) = bytes_recovered
                      /\ reliable /\ have_out /\ fill_gaps => Len(out) = expect_raw
    BY DEF ReportExact
  <2>1. ~Behind /\ pc # "block"
    BY DEF Behind
  <2>2. bytes_recovered + gap_bytes = expect_raw /\ blocks_found = blocks_ok + blocks_bad
    BY <2>1 DEF IInv, CountInv, TypeOK
  <2>3. have_out => Cardinality(Data) = bytes_recovered
    BY DEF IInv, DataInv
  <2>4. reliable /\ have_out /\ fill_gaps => Len(out) = expect_raw
    BY <2>1 DEF IInv, PlaceInv, Filled
  <2> QED BY <2>2, <2>3, <2>4
<1> QED BY <1>1, RepairInvariant, PTL

(* A scan that comes to the end of the file has found every block header   *)
(* of the archive once, however windows and headers lie to each other.     *)
THEOREM RepairNothingMissed == Spec => []NothingMissed
<1>1. IInv => NothingMissed
  <2> SUFFICES ASSUME IInv, Scanned, Real = Cands
               PROVE  blocks_found = Cardinality(Cands)
    BY DEF NothingMissed
  <2>1. Place = pos /\ ~Behind /\ st # ErrIO
    BY DEF Scanned, Place, Behind, OK, ErrCorruptBlock, ErrIO
  <2>2. blocks_found = Cardinality(Before(pos)) + 0 /\ Cardinality(Before(pos)) \in Nat
    BY <2>1, BeforeFacts DEF IInv, FoundInv
  <2>3. Before(pos) = Cands
    <3>1. TypeOK /\ pos \in Nat /\ arc.size \in Nat /\ pos + HdrLen > arc.size
      BY DEF IInv, TypeOK, IsArchive, Scanned
    <3>2. \A c \in Cands : c \in Nat /\ c <= arc.size - HdrLen
      BY <3>1, CandidateFacts DEF TypeOK, IsArchive, Cands
    <3> QED BY <3>1, <3>2, WindowAssumption DEF Before
  <2> QED BY <2>2, <2>3
<1> QED BY <1>1, RepairInvariant, PTL

(* The repair of an archive that is not damaged, when it returns XQ_OK,    *)
(* has written the blocks of the archive, every byte in its place and      *)
(* nothing else.                                                           *)
THEOREM RepairHealthyRecovered == Spec => []HealthyRecovered
<1>1. IInv => HealthyRecovered
  <2> SUFFICES ASSUME IInv, Scanned, Healthy, Real = Cands, st = OK, have_out
               PROVE  /\ \A k \in DOMAIN out : out[k] # Fill /\ StreamPos(out[k]) = k - 1
                      /\ \A c \in Real : Len(out) >= arc.cand[c].off + arc.cand[c].raw
    BY DEF HealthyRecovered
  <2>1. Place = pos /\ st # ErrIO /\ blocks_bad = 0
    BY DEF IInv, EndInv, Scanned, Place, OK, ErrIO
  <2>2. /\ \A c \in Before(pos) : arc.cand[c].off + arc.cand[c].raw <= expect_raw
        /\ Len(out) = expect_raw
        /\ \A k \in DOMAIN out : out[k] # Fill /\ StreamPos(out[k]) = k - 1
    BY <2>1 DEF IInv, PrefixInv
  <2>3. ASSUME NEW c \in Real
        PROVE  Len(out) >= arc.cand[c].off + arc.cand[c].raw
    <3>1. TypeOK /\ pos \in Nat /\ arc.size \in Nat /\ pos + HdrLen > arc.size /\ expect_raw \in Nat
      BY DEF IInv, TypeOK, IsArchive, Scanned
    <3>2. c \in Cands /\ c \in Nat /\ c <= arc.size - HdrLen /\ arc.cand[c].off \in Nat /\ arc.cand[c].raw \in Nat
      BY <2>3, <3>1, CandidateFacts DEF TypeOK, IsArchive, Cands
    <3>3. c \in Before(pos)
      BY <3>1, <3>2, WindowAssumption DEF Before
    <3> QED BY <2>2, <3>1, <3>2, <3>3
  <2> QED BY <2>2, <2>3
<1> QED BY <1>1, RepairInvariant, PTL

=============================================================================
