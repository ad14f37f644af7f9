-------------------------- MODULE EncoderRingProofs --------------------------
(***************************************************************************)
(* Proofs about EncoderRing, for any number of workers and slots, any      *)
(* block size and any length of the stream.                                *)
(***************************************************************************)
EXTENDS EncoderRing, TLAPS

(***************************************************************************)
(* Arithmetic of the ring.                                                 *)
(***************************************************************************)

(* A sequence number has a slot. *)
LEMMA SlotType == \A q \in Nat : Slot(q) \in Slots
  BY NSlotsAssumption DEF Slot, Slots

(* Two sequence numbers less than nslots apart have different slots. *)
LEMMA SlotDistinct ==
  ASSUME NEW a \in Nat, NEW b \in Nat, a < b, b < a + NSlots
  PROVE  Slot(a) # Slot(b)
<1>1. /\ a = NSlots * (a \div NSlots) + (a % NSlots)
      /\ b = NSlots * (b \div NSlots) + (b % NSlots)
  BY NSlotsAssumption
<1> DEFINE x == a \div NSlots
           y == b \div NSlots
<1>2. x \in Int /\ y \in Int
  BY NSlotsAssumption
<1>3. SUFFICES ASSUME a % NSlots = b % NSlots PROVE FALSE
  BY DEF Slot
<1>4. b - a = NSlots * y - NSlots * x
  BY <1>1, <1>2, <1>3, NSlotsAssumption
<1> HIDE DEF x, y
<1>5. NSlots * y - NSlots * x = NSlots * (y - x)
  BY <1>2, NSlotsAssumption
<1>6. CASE y - x <= 0
  <2>1. NSlots * (y - x) <= 0
    BY <1>2, <1>6, NSlotsAssumption
  <2> QED
    BY <2>1, <1>4, <1>5
<1>7. CASE y - x >= 1
  <2>1. NSlots * (y - x) >= NSlots
    BY <1>2, <1>7, NSlotsAssumption
  <2> QED
    BY <2>1, <1>4, <1>5, NSlotsAssumption
<1> QED
  BY <1>2, <1>6, <1>7

(* Where the blocks of the stream start. *)
LEMMA StartType == \A n \in Int : Start(n) \in Int /\ (n >= 0 => Start(n) \in Nat)
  BY BlockSizeAssumption DEF Start

(* The first block starts at the first byte ... *)
LEMMA StartZero == Start(0) = 0
  BY BlockSizeAssumption DEF Start

(* ... each one where the block before it ends ... *)
LEMMA StartStep == \A n \in Int : Start(n + 1) = Start(n) + BlockSize
  BY BlockSizeAssumption DEF Start

(* ... so the starts are in the order of the blocks. *)
LEMMA StartMono ==
  ASSUME NEW m \in Nat, NEW n \in Nat, m < n
  PROVE  Start(m) + BlockSize <= Start(n)
<1>1. Start(n) - Start(m) = (n - m) * BlockSize
  BY BlockSizeAssumption DEF Start
<1>2. (n - m) * BlockSize >= BlockSize
  <2>1. PICK d \in Nat : n - m = d + 1
    OBVIOUS
  <2>2. (d + 1) * BlockSize = d * BlockSize + BlockSize /\ d * BlockSize >= 0
    BY BlockSizeAssumption
  <2> QED
    BY <2>1, <2>2, BlockSizeAssumption
<1> QED
  BY <1>1, <1>2, StartType, BlockSizeAssumption

(***************************************************************************)
(* Type correctness.                                                       *)
(***************************************************************************)

(* What signalling and broadcasting do to the workers. *)
LEMMA SignalFacts ==
  ASSUME NEW pc \in [Workers -> WorkerPc], NEW npc \in Signal(pc)
  PROVE  /\ npc \in [Workers -> WorkerPc]
         /\ \A w \in Workers : npc[w] = pc[w] \/ (pc[w] = "wait" /\ npc[w] = "lock")
         /\ \E w \in Workers : npc[w] # "wait"
<1>1. CASE \E w \in Workers : pc[w] = "wait"
  <2>1. PICK w \in Workers : pc[w] = "wait" /\ npc = [pc EXCEPT ![w] = "lock"]
    BY <1>1 DEF Signal
  <2> QED
    BY <2>1 DEF WorkerPc
<1>2. CASE ~ \E w \in Workers : pc[w] = "wait"
  <2>1. npc = pc
    BY <1>2 DEF Signal
  <2> QED
    BY <2>1, <1>2, WorkersAssumption
<1> QED
  BY <1>1, <1>2

(* xq_cond_broadcast wakes every waiting thread and touches no other. *)
LEMMA BroadcastFacts ==
  ASSUME NEW pc \in [Workers -> WorkerPc]
  PROVE  /\ Broadcast(pc) \in [Workers -> WorkerPc]
         /\ \A w \in Workers : /\ pc[w] # "wait" => Broadcast(pc)[w] = pc[w]
                               /\ pc[w] = "wait" => Broadcast(pc)[w] = "lock"
  BY DEF Broadcast, WorkerPc

(* A run of the caller's bytes is buffer content. *)
LEMMA SpanType == \A o, l \in Int : Span(o, l) \in Content
  BY BlockSizeAssumption DEF Span, Content, Garbage

(* What compress_job reads of a slot is buffer content. *)
LEMMA RawOfType == TypeOK => \A s \in Slots : RawOf(s) \in Content
  BY BlockSizeAssumption DEF TypeOK, RawOf, Content, Garbage

(* The state mt_create leaves is well typed. *)
LEMMA InitType == Init => TypeOK
<1> SUFFICES ASSUME Init PROVE TypeOK
  OBVIOUS
<1>1. Span(0, 0) \in Content
  BY SpanType
<1>2. FileTypeOK
  <2>1. <<>> \in Seq(IndexEntry) /\ <<>> \in Seq(Content) /\ <<>> \in Seq(Block)
    OBVIOUS
  <2>2. NoTrailer \in Trailer
    BY <2>1 DEF NoTrailer, Trailer
  <2> QED
    BY <2>1, <2>2 DEF Init, FileInit, FileTypeOK, Status
<1>3. 0 \in Slots /\ 0 \in 0 .. BlockSize
  BY NSlotsAssumption, BlockSizeAssumption DEF Slots
<1>4. jres \in [Slots -> JobResult]
  BY <1>1 DEF Init, JobResult, Status
<1> QED
  BY <1>1, <1>2, <1>3, <1>4 DEF Init, TypeOK, WorkerPc, ProducerPc

(* The steps that talk to the sink keep the file part well typed. *)
LEMMA EmitJobType ==
  ASSUME FileTypeOK, NEW raw \in Content, NEW len \in Nat, NEW res \in JobResult,
         EmitJob(raw, len, res)
  PROVE  FileTypeOK'
<1>1. IdxPush(Len(out), raw_offset) \in Seq(IndexEntry)
  BY DEF IdxPush, FileTypeOK, IndexEntry
<1>2. CASE EmitJobOK(raw, len, res)
  <2>1. [off |-> raw_offset, len |-> len, stored |-> res.stored,
         data |-> IF res.stored THEN raw ELSE res.data, ck |-> res.data] \in Block
    BY DEF FileTypeOK, Block, JobResult
  <2>2. out' \in Seq(Block)
    BY <2>1, <1>2 DEF EmitJobOK, FileTypeOK
  <2>3. stream_ck' \in Seq(Content)
    BY <1>2 DEF EmitJobOK, FileTypeOK
  <2> QED
    BY <1>1, <1>2, <2>2, <2>3 DEF EmitJobOK, FileTypeOK
<1>3. CASE EmitJobBad(res)
  BY <1>3 DEF EmitJobBad, FileTypeOK, JobResult
<1>4. CASE EmitJobNoMem(res)
  BY <1>4 DEF EmitJobNoMem, FileTypeOK, Status, Errors
<1>5. CASE EmitJobSinkFails(res)
  BY <1>1, <1>5 DEF EmitJobSinkFails, FileTypeOK, Status, Errors
<1> QED
  BY <1>2, <1>3, <1>4, <1>5 DEF EmitJob

(* The trailer xq_encoder_finish writes keeps the file well typed. *)
LEMMA WriteTrailerType ==
  ASSUME FileTypeOK, WriteTrailer
  PROVE  FileTypeOK'
<1>1. IdxPush(Len(out), raw_offset) \in Seq(IndexEntry)
  BY DEF IdxPush, FileTypeOK, IndexEntry
<1>2. CASE WriteTrailerOK
  <2>1. trailer' \in Trailer
    BY <1>1, <1>2 DEF WriteTrailerOK, Trailer, FileTypeOK
  <2> QED
    BY <1>1, <1>2, <2>1 DEF WriteTrailerOK, FileTypeOK
<1>3. CASE WriteTrailerEarlyFail
  BY <1>3 DEF WriteTrailerEarlyFail, FileTypeOK, Status, Errors
<1>4. CASE WriteTrailerSinkFails
  BY <1>1, <1>4 DEF WriteTrailerSinkFails, FileTypeOK, Status, Errors
<1> QED
  BY <1>2, <1>3, <1>4 DEF WriteTrailer

(* Every step of the encoder keeps its state well typed. *)
LEMMA NextType == TypeOK /\ [Next]_vars => TypeOK'
<1> SUFFICES ASSUME TypeOK, [Next]_vars PROVE TypeOK'
  OBVIOUS
<1> USE DEF TypeOK
<1>0. BlockSize \in Nat /\ BlockSize > 0 /\ NSlots \in Nat /\ NSlots > 0
  BY BlockSizeAssumption, NSlotsAssumption
<1>1. UNCHANGED fileVars => FileTypeOK'
  BY DEF FileTypeOK, fileVars
<1>2. CASE \E n \in WriteLens : WriteCall(n)
  BY <1>1, <1>2, WriteLensAssumption DEF WriteCall, ringVars, jobVars, workVars, ProducerPc
<1>3. CASE FinishCall \/ FreeCall
  BY <1>1, <1>3 DEF FinishCall, FreeCall, ringVars, jobVars, workVars, ProducerPc
<1>4. CASE ThreadStartFails
  BY <1>1, <1>4 DEF ThreadStartFails, ringVars, jobVars, workVars, ProducerPc
<1>5. CASE \E w \in Workers : ThreadStart(w)
  BY <1>1, <1>5 DEF ThreadStart, ringVars, jobVars, prodVars, WorkerPc
<1>6. CASE CreateReturns
  <2>1. FileTypeOK'
    BY <1>6 DEF CreateReturns, WriteFileHead, FileTypeOK, Status, Errors
  <2> QED
    BY <2>1, <1>6 DEF CreateReturns, ringVars, jobVars, workVars, ProducerPc
<1>7. CASE Copy
  <2>1. jraw' \in [Slots -> Content]
    BY <1>0, <1>7 DEF Copy, Content, Smaller
  <2>2. raw_len' \in 0 .. BlockSize /\ accepted' \in Nat /\ rem' \in Nat
    BY <1>0, <1>7 DEF Copy, Smaller
  <2> QED
    BY <1>1, <1>7, <2>1, <2>2 DEF Copy, ringVars, workVars, ProducerPc
<1>8. CASE MtSubmit
  <2>1. Slot(fill_seq) \in Slots
    BY SlotType
  <2>2. wpc' \in [Workers -> WorkerPc]
    BY <1>8, SignalFacts DEF MtSubmit
  <2>3. raw_len' \in 0 .. BlockSize /\ fill_seq' \in Nat
    BY <1>0, <1>8 DEF MtSubmit
  <2> QED
    BY <1>1, <1>8, <2>1, <2>2, <2>3 DEF MtSubmit, ProducerPc
<1>9. CASE MakeRoom
  BY <1>1, <1>9 DEF MakeRoom, ringVars, jobVars, workVars, ProducerPc
<1>10. CASE SubmitReturns
  BY <1>1, <1>10, SlotType DEF SubmitReturns, ringVars, jobVars, workVars, ProducerPc
<1>11. CASE EmitWait \/ EmitReady
  BY <1>1, <1>11 DEF EmitWait, EmitReady, ringVars, jobVars, workVars, ProducerPc
<1>12. CASE EmitOne
  <2>1. Slot(emit_seq) \in Slots
    BY SlotType
  <2>2. FileTypeOK'
    BY <1>12, <2>1, RawOfType, EmitJobType DEF EmitOne
  <2> QED
    BY <1>12, <2>2 DEF EmitOne, ringVars, jobVars, workVars, ProducerPc
<1>13. CASE FreeSlot
  <2>1. wpc' \in [Workers -> WorkerPc]
    BY <1>13, BroadcastFacts DEF FreeSlot
  <2>2. jstate' \in [Slots -> {"FREE", "READY", "DONE"}]
    BY <1>13 DEF FreeSlot
  <2>3. emit_seq' \in Nat /\ rem' \in Nat /\ ppc' \in ProducerPc
    BY <1>13 DEF FreeSlot, ProducerPc
  <2> QED
    BY <1>1, <1>13, <2>1, <2>2, <2>3 DEF FreeSlot
<1>14. CASE Drain
  BY <1>1, <1>14 DEF Drain, ringVars, jobVars, workVars, ProducerPc
<1>15. CASE FinishReturns
  BY <1>15, WriteTrailerType DEF FinishReturns, ringVars, jobVars, workVars, ProducerPc
<1>16. CASE MtDestroy
  <2>1. wpc' \in [Workers -> WorkerPc]
    BY <1>16, BroadcastFacts DEF MtDestroy
  <2> QED
    BY <1>1, <1>16, <2>1 DEF MtDestroy, jobVars, ProducerPc
<1>17. CASE Join
  BY <1>1, <1>17 DEF Join, ringVars, jobVars, workVars, ProducerPc
<1>18. CASE \E w \in Workers : WorkerStep(w)
  <2> SUFFICES ASSUME NEW w \in Workers, WorkerStep(w) PROVE TypeOK'
    BY <1>18
  <2>1. CASE WorkerWait(w) \/ WorkerExit(w)
    BY <1>1, <2>1 DEF WorkerWait, WorkerExit, ringVars, jobVars, prodVars, WorkerPc
  <2>2. CASE WorkerClaim(w)
    BY <1>1, <2>2 DEF WorkerClaim, jobVars, prodVars, WorkerPc
  <2>3. CASE WorkerCompress(w)
    <3>1. Slot(wseq[w]) \in Slots
      BY SlotType
    <3>2. CompressJob(jres[Slot(wseq[w])], RawOf(Slot(wseq[w]))) \subseteq JobResult
      BY <3>1, RawOfType DEF CompressJob, JobResult, Status, Errors
    <3>3. jres' \in [Slots -> JobResult]
      BY <3>1, <3>2, <2>3 DEF WorkerCompress
    <3> QED
      BY <1>1, <2>3, <3>3 DEF WorkerCompress, ringVars, prodVars, WorkerPc
  <2>4. CASE WorkerPublish(w)
    BY <1>1, <2>4 DEF WorkerPublish, ringVars, WorkerPc, ProducerPc
  <2> QED
    BY <2>1, <2>2, <2>3, <2>4 DEF WorkerStep
<1>19. CASE Spurious
  BY <1>1, <1>19 DEF Spurious, SpuriousDone, SpuriousWork,
     ringVars, jobVars, workVars, prodVars, WorkerPc, ProducerPc
<1>20. CASE UNCHANGED vars
  BY <1>1, <1>20 DEF vars, ringVars, jobVars, workVars, prodVars
<1> QED
  BY <1>2, <1>3, <1>4, <1>5, <1>6, <1>7, <1>8, <1>9, <1>10, <1>11, <1>12, <1>13,
     <1>14, <1>15, <1>16, <1>17, <1>18, <1>19, <1>20
     DEF Next, CallerStep, ProducerStep, Terminated

(* Every reachable state is well typed: in particular raw_len never        *)
(* exceeds block_size, so memcpy never writes past the buffer of a slot,   *)
(* and a slot number is always inside the job array.                       *)
THEOREM TypeCorrect == Spec => []TypeOK
<1>1. Init => TypeOK
  BY InitType
<1>2. TypeOK /\ [Next]_vars => TypeOK'
  BY NextType
<1> QED
  BY <1>1, <1>2, PTL DEF Spec

(***************************************************************************)
(* The ring.                                                               *)
(***************************************************************************)

(* Steps that touch neither the counters nor the state of a slot, and      *)
(* start or end no job.                                                    *)
RingSame ==
  /\ UNCHANGED <<fill_seq, work_seq, emit_seq, jstate, wseq>>
  /\ \A w \in Workers : Busy(w)' <=> Busy(w)

(* RingInv depends on the ring's own variables only. *)
LEMMA RingFrame ==
  ASSUME HolderInv, SlotStateInv, RingSame
  PROVE  HolderInv' /\ SlotStateInv'
<1>1. HolderInv'
  BY DEF HolderInv, RingSame
<1>2. SlotStateInv'
  BY DEF SlotStateInv, RingSame
<1> QED
  BY <1>1, <1>2

(* The ring mt_create leaves is empty, its slots free. *)
LEMMA InitRing == Init => RingInv
  BY NSlotsAssumption
     DEF Init, FileInit, RingInv, ControlInv, CounterInv, HolderInv, SlotStateInv,
         Filling, Emitting, Busy, Slot, Slots

(* The producer's program counter, the status and the threads. *)
LEMMA NextControl == TypeOK /\ ControlInv /\ [Next]_vars => ControlInv'
<1> SUFFICES ASSUME TypeOK, ControlInv, [Next]_vars PROVE ControlInv'
  OBVIOUS
<1> USE DEF ControlInv
<1>2. CASE \E n \in WriteLens : WriteCall(n)
  BY <1>2 DEF WriteCall, ringVars, workVars, fileVars
<1>3. CASE FinishCall \/ FreeCall
  BY <1>3 DEF FinishCall, FreeCall, ringVars, workVars, fileVars
<1>4. CASE ThreadStartFails
  BY <1>4 DEF ThreadStartFails, ringVars, workVars, fileVars
<1>5. CASE \E w \in Workers : ThreadStart(w)
  BY <1>5 DEF ThreadStart, ringVars, prodVars, fileVars, TypeOK
<1>6. CASE CreateReturns
  BY <1>6 DEF CreateReturns, ringVars, workVars
<1>7. CASE Copy
  BY <1>7 DEF Copy, ringVars, workVars, fileVars
<1>8. CASE MtSubmit
  BY <1>8, SignalFacts DEF MtSubmit, fileVars, TypeOK
<1>9. CASE MakeRoom
  BY <1>9 DEF MakeRoom, ringVars, workVars, fileVars
<1>10. CASE SubmitReturns
  BY <1>10 DEF SubmitReturns, ringVars, workVars, fileVars
<1>11. CASE EmitWait \/ EmitReady
  BY <1>11 DEF EmitWait, EmitReady, ringVars, workVars, fileVars
<1>12. CASE EmitOne
  BY <1>12 DEF EmitOne, EmitJob, EmitJobOK, EmitJobBad, EmitJobNoMem, EmitJobSinkFails,
               ringVars, workVars
<1>13. CASE FreeSlot
  BY <1>13, BroadcastFacts DEF FreeSlot, fileVars, TypeOK
<1>14. CASE Drain
  BY <1>14 DEF Drain, ringVars, workVars, fileVars
<1>15. CASE FinishReturns
  BY <1>15 DEF FinishReturns, ringVars, workVars
<1>16. CASE MtDestroy
  BY <1>16 DEF MtDestroy
<1>17. CASE Join
  BY <1>17 DEF Join, ringVars, workVars, fileVars
<1>18. CASE \E w \in Workers : WorkerStep(w)
  <2> SUFFICES ASSUME NEW w \in Workers, WorkerStep(w) PROVE ControlInv'
    BY <1>18
  <2>1. CASE WorkerWait(w) \/ WorkerExit(w)
    BY <2>1 DEF WorkerWait, WorkerExit, ringVars, prodVars, fileVars, TypeOK
  <2>2. CASE WorkerClaim(w)
    BY <2>2 DEF WorkerClaim, prodVars, fileVars, TypeOK
  <2>3. CASE WorkerCompress(w)
    BY <2>3 DEF WorkerCompress, ringVars, prodVars, fileVars, TypeOK
  <2>4. CASE WorkerPublish(w)
    BY <2>4 DEF WorkerPublish, ringVars, fileVars, TypeOK
  <2> QED
    BY <2>1, <2>2, <2>3, <2>4 DEF WorkerStep
<1>19. CASE Spurious
  BY <1>19 DEF Spurious, SpuriousDone, SpuriousWork,
     ringVars, workVars, prodVars, fileVars, TypeOK
<1>20. CASE UNCHANGED vars
  BY <1>20 DEF vars, ringVars, workVars, prodVars, fileVars
<1> QED
  BY <1>2, <1>3, <1>4, <1>5, <1>6, <1>7, <1>8, <1>9, <1>10, <1>11, <1>12, <1>13,
     <1>14, <1>15, <1>16, <1>17, <1>18, <1>19, <1>20
     DEF Next, CallerStep, ProducerStep, Terminated

(* The slots of different sequence numbers of the window are different. *)
LEMMA WindowDistinct ==
  ASSUME NEW a \in Nat, NEW b \in Nat, NEW lo \in Nat,
         lo <= a, a < lo + NSlots, lo <= b, b < lo + NSlots, a # b
  PROVE  Slot(a) # Slot(b)
<1>1. CASE a < b
  BY <1>1, SlotDistinct, NSlotsAssumption
<1>2. CASE b < a
  BY <1>2, SlotDistinct, NSlotsAssumption
<1> QED
  BY <1>1, <1>2

(* Submitting a block: the slot it uses is free, so no job is disturbed. *)
LEMMA SubmitRing ==
  ASSUME TypeOK, RingInv, MtSubmit
  PROVE  CounterInv' /\ HolderInv' /\ SlotStateInv'
<1> DEFINE f == Slot(fill_seq)
<1>0. NSlots \in Nat /\ fill_seq \in Nat /\ emit_seq \in Nat /\ work_seq \in Nat /\ f \in Slots
  BY NSlotsAssumption, SlotType DEF TypeOK
<1>1. Filling
  BY DEF RingInv, ControlInv, Filling, MtSubmit
<1>2. emit_seq <= work_seq /\ work_seq <= fill_seq /\ fill_seq < emit_seq + NSlots
  BY <1>1 DEF RingInv, CounterInv
<1>3. fill_seq' = fill_seq + 1 /\ UNCHANGED <<work_seq, emit_seq, wseq>>
  BY DEF MtSubmit
<1>4. \A w \in Workers : Busy(w)' <=> Busy(w)
  BY SignalFacts DEF MtSubmit, Busy, TypeOK
<1>5. jstate' = [jstate EXCEPT ![f] = "READY"]
  BY DEF MtSubmit
<1>6. \A q \in Nat : emit_seq <= q /\ q < fill_seq => Slot(q) # f
  BY <1>0, <1>2, WindowDistinct
<1>7. CounterInv'
  BY <1>0, <1>2, <1>3 DEF CounterInv, Filling, Emitting, MtSubmit
<1>8. HolderInv'
  <2>1. \A w \in Workers : Busy(w) => Slot(wseq[w]) # f
    BY <1>0, <1>2, <1>6 DEF RingInv, HolderInv, TypeOK
  <2>2. \A w \in Workers : Slot(wseq[w]) \in Slots
    BY SlotType DEF TypeOK
  <2> QED
    BY <1>3, <1>4, <1>5, <2>1, <2>2 DEF RingInv, HolderInv, TypeOK
<1>9. SlotStateInv'
  <2>1. ASSUME NEW q \in emit_seq .. fill_seq
        PROVE  /\ jstate'[Slot(q)] # "FREE"
               /\ jstate'[Slot(q)] = "DONE" => q < work_seq
               /\ jstate'[Slot(q)] = "READY" /\ q < work_seq =>
                    \E w \in Workers : Busy(w) /\ wseq[w] = q
    <3>1. CASE q = fill_seq
      BY <1>0, <1>2, <1>5, <3>1 DEF TypeOK
    <3>2. CASE q # fill_seq
      <4>1. q \in emit_seq .. fill_seq - 1 /\ q \in Nat
        BY <1>0, <3>2
      <4>2. jstate'[Slot(q)] = jstate[Slot(q)]
        BY <1>0, <1>5, <1>6, <4>1, SlotType DEF TypeOK
      <4> QED
        BY <4>1, <4>2 DEF RingInv, SlotStateInv
    <3> QED
      BY <3>1, <3>2
  <2>2. ASSUME NEW s \in Slots, jstate'[s] # "FREE"
        PROVE  \E q \in emit_seq .. fill_seq : Slot(q) = s
    <3>1. CASE s = f
      BY <1>0, <1>2, <3>1
    <3>2. CASE s # f
      <4>1. jstate[s] # "FREE"
        BY <1>5, <2>2, <3>2 DEF TypeOK
      <4> QED
        BY <4>1, <1>0 DEF RingInv, SlotStateInv
    <3> QED
      BY <3>1, <3>2
  <2> QED
    BY <1>0, <1>3, <1>4, <2>1, <2>2 DEF SlotStateInv
<1> QED
  BY <1>7, <1>8, <1>9

(* Freeing the emitted slot: no worker holds it, and no other sequence     *)
(* number of the window shares it.                                         *)
LEMMA FreeRing ==
  ASSUME TypeOK, RingInv, FreeSlot
  PROVE  CounterInv' /\ HolderInv' /\ SlotStateInv'
<1> DEFINE f == Slot(emit_seq)
<1>0. NSlots \in Nat /\ fill_seq \in Nat /\ emit_seq \in Nat /\ work_seq \in Nat /\ f \in Slots
  BY NSlotsAssumption, SlotType DEF TypeOK
<1>1. /\ emit_seq < fill_seq /\ jstate[f] = "DONE"
      /\ work_seq <= fill_seq /\ fill_seq <= emit_seq + NSlots
  BY DEF RingInv, CounterInv, Emitting, FreeSlot
<1>2. emit_seq < work_seq
  BY <1>0, <1>1 DEF RingInv, SlotStateInv
<1>3. emit_seq' = emit_seq + 1 /\ UNCHANGED <<work_seq, fill_seq, wseq>>
  BY DEF FreeSlot
<1>4. \A w \in Workers : Busy(w)' <=> Busy(w)
  BY BroadcastFacts DEF FreeSlot, Busy, TypeOK
<1>5. jstate' = [jstate EXCEPT ![f] = "FREE"]
  BY DEF FreeSlot
<1>6. \A q \in Nat : emit_seq < q /\ q < fill_seq => Slot(q) # f
  BY <1>0, <1>1, WindowDistinct
<1>7. CounterInv'
  BY <1>0, <1>1, <1>2, <1>3 DEF CounterInv, Filling, Emitting, FreeSlot, fileVars
<1>8. HolderInv'
  <2>1. \A w \in Workers : Busy(w) => emit_seq < wseq[w] /\ wseq[w] < fill_seq
    BY <1>0, <1>1 DEF RingInv, HolderInv, TypeOK
  <2>2. \A w \in Workers : Busy(w) => Slot(wseq[w]) # f /\ Slot(wseq[w]) \in Slots
    BY <2>1, <1>6, SlotType DEF TypeOK
  <2> QED
    BY <1>0, <1>3, <1>4, <1>5, <2>1, <2>2 DEF RingInv, HolderInv, TypeOK
<1>9. SlotStateInv'
  <2>1. ASSUME NEW q \in emit_seq + 1 .. fill_seq - 1
        PROVE  /\ jstate'[Slot(q)] # "FREE"
               /\ jstate'[Slot(q)] = "DONE" => q < work_seq
               /\ jstate'[Slot(q)] = "READY" /\ q < work_seq =>
                    \E w \in Workers : Busy(w) /\ wseq[w] = q
    <3>1. q \in emit_seq .. fill_seq - 1 /\ q \in Nat /\ emit_seq < q /\ q < fill_seq
      BY <1>0
    <3>2. jstate'[Slot(q)] = jstate[Slot(q)]
      BY <1>5, <1>6, <3>1, SlotType DEF TypeOK
    <3> QED
      BY <3>1, <3>2 DEF RingInv, SlotStateInv
  <2>2. ASSUME NEW s \in Slots, jstate'[s] # "FREE"
        PROVE  \E q \in emit_seq + 1 .. fill_seq - 1 : Slot(q) = s
    <3>1. s # f /\ jstate[s] # "FREE"
      BY <1>5, <2>2 DEF TypeOK
    <3>2. PICK q \in emit_seq .. fill_seq - 1 : Slot(q) = s
      BY <3>1 DEF RingInv, SlotStateInv
    <3> QED
      BY <1>0, <3>1, <3>2
  <2> QED
    BY <1>0, <1>3, <1>4, <2>1, <2>2 DEF SlotStateInv
<1> QED
  BY <1>7, <1>8, <1>9

(* Claiming a job: it is READY and no other worker has it. *)
LEMMA ClaimRing ==
  ASSUME TypeOK, RingInv, NEW w \in Workers, WorkerClaim(w)
  PROVE  CounterInv' /\ HolderInv' /\ SlotStateInv'
<1>0. NSlots \in Nat /\ fill_seq \in Nat /\ emit_seq \in Nat /\ work_seq \in Nat
  BY NSlotsAssumption DEF TypeOK
<1>1. /\ work_seq < fill_seq /\ emit_seq <= work_seq
      /\ work_seq' = work_seq + 1 /\ UNCHANGED <<fill_seq, emit_seq, jstate>>
  BY DEF RingInv, CounterInv, WorkerClaim, jobVars
<1>2. /\ wseq' = [wseq EXCEPT ![w] = work_seq]
      /\ wpc' = [wpc EXCEPT ![w] = "compress"]
      /\ ~Busy(w) /\ Busy(w)'
      /\ \A v \in Workers : v # w => (Busy(v)' <=> Busy(v)) /\ wseq'[v] = wseq[v]
  BY DEF WorkerClaim, Busy, TypeOK
<1>3. wseq'[w] = work_seq
  BY <1>2 DEF TypeOK
<1>4. jstate[Slot(work_seq)] = "READY"
  BY <1>0, <1>1, SlotType DEF RingInv, SlotStateInv, TypeOK
<1>5. CounterInv'
  BY <1>0, <1>1 DEF RingInv, CounterInv, Filling, Emitting, WorkerClaim, prodVars, fileVars
<1>6. HolderInv'
  <2>1. \A v \in Workers : Busy(v) => wseq[v] < work_seq
    BY DEF RingInv, HolderInv
  <2>2. ASSUME NEW v \in Workers, Busy(v)'
        PROVE  emit_seq' <= wseq'[v] /\ wseq'[v] < work_seq' /\ jstate'[Slot(wseq'[v])] = "READY"
    BY <1>0, <1>1, <1>2, <1>3, <1>4, <2>2 DEF RingInv, HolderInv, TypeOK
  <2>3. ASSUME NEW u \in Workers, NEW v \in Workers, u # v, Busy(u)', Busy(v)'
        PROVE  wseq'[u] # wseq'[v]
    <3>1. CASE u # w /\ v # w
      BY <1>2, <2>3, <3>1 DEF RingInv, HolderInv
    <3>2. CASE u = w
      BY <1>0, <1>2, <1>3, <2>1, <2>3, <3>2 DEF TypeOK
    <3>3. CASE v = w
      BY <1>0, <1>2, <1>3, <2>1, <2>3, <3>3 DEF TypeOK
    <3> QED
      BY <3>1, <3>2, <3>3
  <2> QED
    BY <2>2, <2>3 DEF HolderInv
<1>7. SlotStateInv'
  <2>1. ASSUME NEW q \in emit_seq .. fill_seq - 1
        PROVE  /\ jstate[Slot(q)] = "DONE" => q < work_seq'
               /\ jstate[Slot(q)] = "READY" /\ q < work_seq' =>
                    \E v \in Workers : Busy(v)' /\ wseq'[v] = q
    <3>1. CASE q = work_seq
      BY <1>0, <1>1, <1>2, <1>3, <3>1
    <3>2. CASE q # work_seq
      <4>1. /\ jstate[Slot(q)] = "DONE" => q < work_seq
            /\ jstate[Slot(q)] = "READY" /\ q < work_seq =>
                 \E v \in Workers : Busy(v) /\ wseq[v] = q
        BY DEF RingInv, SlotStateInv
      <4> QED
        BY <1>0, <1>1, <1>2, <3>2, <4>1
    <3> QED
      BY <3>1, <3>2
  <2> QED
    BY <1>1, <2>1 DEF RingInv, SlotStateInv
<1> QED
  BY <1>5, <1>6, <1>7

(* Publishing a job touches the slot of that job only. *)
LEMMA PublishRing ==
  ASSUME TypeOK, RingInv, NEW w \in Workers, WorkerPublish(w)
  PROVE  CounterInv' /\ HolderInv' /\ SlotStateInv'
<1> DEFINE f == Slot(wseq[w])
<1>0. /\ NSlots \in Nat /\ fill_seq \in Nat /\ emit_seq \in Nat /\ work_seq \in Nat
      /\ wseq[w] \in Nat /\ f \in Slots
  BY NSlotsAssumption, SlotType DEF TypeOK
<1>1. /\ Busy(w) /\ emit_seq <= wseq[w] /\ wseq[w] < work_seq
      /\ work_seq <= fill_seq /\ fill_seq <= emit_seq + NSlots
  BY DEF RingInv, CounterInv, HolderInv, WorkerPublish, Busy
<1>2. /\ UNCHANGED <<fill_seq, work_seq, emit_seq, wseq>>
      /\ jstate' = [jstate EXCEPT ![f] = "DONE"]
      /\ ~Busy(w)'
      /\ \A v \in Workers : v # w => (Busy(v)' <=> Busy(v))
  BY DEF WorkerPublish, ringVars, Busy, TypeOK
<1>3. \A q \in Nat : emit_seq <= q /\ q < fill_seq /\ q # wseq[w] => Slot(q) # f
  BY SMTT(30), <1>0, <1>1, WindowDistinct
<1>4. CounterInv'
  <2>1. Emitting' => jstate'[Slot(emit_seq)] = "DONE"
    BY <1>2, <1>0, SlotType DEF RingInv, CounterInv, Emitting, WorkerPublish, TypeOK
  <2> QED
    BY <1>2, <2>1 DEF RingInv, CounterInv, Filling, Emitting, WorkerPublish, fileVars
<1>5. HolderInv'
  <2>1. ASSUME NEW v \in Workers, v # w, Busy(v)
        PROVE  jstate'[Slot(wseq[v])] = "READY"
    <3>1. wseq[v] # wseq[w] /\ emit_seq <= wseq[v] /\ wseq[v] < fill_seq /\ wseq[v] \in Nat
      BY <1>0, <1>1, <2>1 DEF RingInv, HolderInv, TypeOK
    <3>2. Slot(wseq[v]) # f /\ Slot(wseq[v]) \in Slots
      BY <1>3, <3>1, SlotType
    <3> QED
      BY <1>2, <2>1, <3>2 DEF RingInv, HolderInv, TypeOK
  <2> QED
    BY <1>2, <2>1 DEF RingInv, HolderInv
<1>6. SlotStateInv'
  <2>1. ASSUME NEW q \in emit_seq .. fill_seq - 1
        PROVE  /\ jstate'[Slot(q)] # "FREE"
               /\ jstate'[Slot(q)] = "DONE" => q < work_seq
               /\ jstate'[Slot(q)] = "READY" /\ q < work_seq =>
                    \E v \in Workers : Busy(v)' /\ wseq[v] = q
    <3>1. CASE q = wseq[w]
      BY <1>0, <1>1, <1>2, <3>1 DEF TypeOK
    <3>2. CASE q # wseq[w]
      <4>1. q \in Nat /\ emit_seq <= q /\ q < fill_seq
        BY <1>0
      <4>2. jstate'[Slot(q)] = jstate[Slot(q)]
        BY <1>2, <1>3, <3>2, <4>1, SlotType DEF TypeOK
      <4>3. /\ jstate[Slot(q)] # "FREE"
            /\ jstate[Slot(q)] = "DONE" => q < work_seq
            /\ jstate[Slot(q)] = "READY" /\ q < work_seq =>
                 \E v \in Workers : Busy(v) /\ wseq[v] = q
        BY DEF RingInv, SlotStateInv
      <4> QED
        BY <1>2, <3>2, <4>2, <4>3
    <3> QED
      BY <3>1, <3>2
  <2>2. ASSUME NEW s \in Slots, jstate'[s] # "FREE"
        PROVE  \E q \in emit_seq .. fill_seq - 1 : Slot(q) = s
    <3>1. CASE s = f
      BY <1>0, <1>1, <3>1
    <3>2. CASE s # f
      BY <1>2, <2>2, <3>2 DEF RingInv, SlotStateInv, TypeOK
    <3> QED
      BY <3>1, <3>2
  <2> QED
    BY <1>2, <2>1, <2>2 DEF SlotStateInv
<1> QED
  BY <1>4, <1>5, <1>6

(* Every other step leaves the ring as it is, up to where the producer is. *)
LEMMA NextRing == TypeOK /\ RingInv /\ [Next]_vars => RingInv'
<1> SUFFICES ASSUME TypeOK, RingInv, [Next]_vars PROVE RingInv'
  OBVIOUS
<1>1. ControlInv'
  BY NextControl DEF RingInv
<1> SUFFICES CounterInv' /\ HolderInv' /\ SlotStateInv'
  BY <1>1 DEF RingInv
<1>a. RingSame => HolderInv' /\ SlotStateInv'
  BY RingFrame DEF RingInv
<1>b. NSlots \in Nat /\ NSlots > 0 /\ fill_seq \in Nat /\ emit_seq \in Nat
  BY NSlotsAssumption DEF TypeOK
<1> USE DEF RingInv, ControlInv, CounterInv, Filling, Emitting
<1>2. CASE \E n \in WriteLens : WriteCall(n)
  <2>1. RingSame
    BY <1>2 DEF RingSame, WriteCall, ringVars, jobVars, workVars, Busy
  <2> QED
    BY <1>a, <1>2, <2>1 DEF WriteCall, ringVars, jobVars, fileVars
<1>3. CASE FinishCall \/ FreeCall
  <2>1. RingSame
    BY <1>3 DEF RingSame, FinishCall, FreeCall, ringVars, jobVars, workVars, Busy
  <2> QED
    BY <1>a, <1>3, <2>1 DEF FinishCall, FreeCall, ringVars, jobVars, fileVars
<1>4. CASE ThreadStartFails
  <2>1. RingSame
    BY <1>4 DEF RingSame, ThreadStartFails, ringVars, jobVars, workVars, Busy
  <2> QED
    BY <1>a, <1>4, <2>1 DEF ThreadStartFails, ringVars, jobVars, fileVars
<1>5. CASE \E w \in Workers : ThreadStart(w)
  <2>1. RingSame
    BY <1>5 DEF RingSame, ThreadStart, ringVars, jobVars, Busy, TypeOK
  <2> QED
    BY <1>a, <1>5, <2>1 DEF ThreadStart, ringVars, jobVars, prodVars, fileVars
<1>6. CASE CreateReturns
  <2>1. RingSame
    BY <1>6 DEF RingSame, CreateReturns, ringVars, jobVars, workVars, Busy
  <2> QED
    BY <1>a, <1>6, <2>1 DEF CreateReturns, WriteFileHead, ringVars, jobVars
<1>7. CASE Copy
  <2>1. RingSame
    BY <1>7 DEF RingSame, Copy, ringVars, workVars, Busy
  <2> QED
    BY <1>a, <1>7, <2>1 DEF Copy, ringVars, fileVars
<1>8. CASE MtSubmit
  BY <1>8, SubmitRing
<1>9. CASE MakeRoom
  <2>1. RingSame
    BY <1>9 DEF RingSame, MakeRoom, ringVars, jobVars, workVars, Busy
  <2> QED
    BY <1>a, <1>b, <1>9, <2>1 DEF MakeRoom, RingFull, ringVars, jobVars, fileVars
<1>10. CASE SubmitReturns
  <2>1. RingSame
    BY <1>10 DEF RingSame, SubmitReturns, ringVars, jobVars, workVars, Busy
  <2> QED
    BY <1>a, <1>b, <1>10, <2>1 DEF SubmitReturns, RingFull, ringVars, jobVars, fileVars
<1>11. CASE EmitWait \/ EmitReady
  <2>1. RingSame
    BY <1>11 DEF RingSame, EmitWait, EmitReady, ringVars, jobVars, workVars, Busy
  <2> QED
    BY <1>a, <1>11, <2>1 DEF EmitWait, EmitReady, ringVars, jobVars, fileVars
<1>12. CASE EmitOne
  <2>1. RingSame
    BY <1>12 DEF RingSame, EmitOne, ringVars, jobVars, workVars, Busy
  <2> QED
    BY <1>a, <1>12, <2>1 DEF EmitOne, ringVars, jobVars
<1>13. CASE FreeSlot
  BY <1>13, FreeRing
<1>14. CASE Drain
  <2>1. RingSame
    BY <1>14 DEF RingSame, Drain, ringVars, jobVars, workVars, Busy
  <2> QED
    BY <1>a, <1>14, <2>1 DEF Drain, ringVars, jobVars, fileVars
<1>15. CASE FinishReturns
  <2>1. RingSame
    BY <1>15 DEF RingSame, FinishReturns, ringVars, jobVars, workVars, Busy
  <2>2. finished' \/ sticky' # "OK"
    BY <1>15 DEF FinishReturns, WriteTrailer, WriteTrailerOK, WriteTrailerEarlyFail,
                 WriteTrailerSinkFails
  <2> QED
    BY <1>a, <1>15, <2>1, <2>2 DEF FinishReturns, ringVars, jobVars
<1>16. CASE MtDestroy
  <2>1. RingSame
    BY <1>16, BroadcastFacts DEF RingSame, MtDestroy, jobVars, Busy, TypeOK
  <2> QED
    BY <1>a, <1>16, <2>1 DEF MtDestroy, jobVars
<1>17. CASE Join
  <2>1. RingSame
    BY <1>17 DEF RingSame, Join, ringVars, jobVars, workVars, Busy
  <2> QED
    BY <1>a, <1>17, <2>1 DEF Join, ringVars, jobVars, fileVars
<1>18. CASE \E w \in Workers : WorkerStep(w)
  <2> SUFFICES ASSUME NEW w \in Workers, WorkerStep(w)
               PROVE  CounterInv' /\ HolderInv' /\ SlotStateInv'
    BY <1>18
  <2>1. CASE WorkerWait(w) \/ WorkerExit(w)
    <3>1. RingSame
      BY <2>1 DEF RingSame, WorkerWait, WorkerExit, ringVars, jobVars, Busy, TypeOK
    <3> QED
      BY <1>a, <2>1, <3>1 DEF WorkerWait, WorkerExit, ringVars, jobVars, prodVars, fileVars
  <2>2. CASE WorkerClaim(w)
    BY <2>2, ClaimRing
  <2>3. CASE WorkerCompress(w)
    <3>1. RingSame
      BY <2>3 DEF RingSame, WorkerCompress, ringVars, Busy, TypeOK
    <3> QED
      BY <1>a, <2>3, <3>1 DEF WorkerCompress, ringVars, prodVars, fileVars
  <2>4. CASE WorkerPublish(w)
    BY <2>4, PublishRing
  <2> QED
    BY <2>1, <2>2, <2>3, <2>4 DEF WorkerStep
<1>19. CASE Spurious
  <2>1. RingSame
    BY <1>19 DEF RingSame, Spurious, SpuriousDone, SpuriousWork,
                 ringVars, jobVars, workVars, Busy, TypeOK
  <2> QED
    BY <1>a, <1>19, <2>1 DEF Spurious, SpuriousDone, SpuriousWork,
                 ringVars, jobVars, workVars, prodVars, fileVars
<1>20. CASE UNCHANGED vars
  <2>1. RingSame
    BY <1>20 DEF RingSame, vars, ringVars, jobVars, workVars, Busy
  <2> QED
    BY <1>a, <1>20, <2>1 DEF vars, ringVars, jobVars, prodVars, fileVars
<1> QED
  BY <1>2, <1>3, <1>4, <1>5, <1>6, <1>7, <1>8, <1>9, <1>10, <1>11, <1>12, <1>13,
     <1>14, <1>15, <1>16, <1>17, <1>18, <1>19, <1>20
     DEF Next, CallerStep, ProducerStep, Terminated

(* The ring's bookkeeping is right in every reachable state. *)
THEOREM RingCorrect == Spec => []RingInv
<1>1. Init => RingInv
  BY InitRing
<1>2. TypeOK /\ RingInv /\ [Next]_vars => RingInv'
  BY NextRing
<1> QED
  BY <1>1, <1>2, TypeCorrect, PTL DEF Spec

(* The bookkeeping keeps the threads apart. *)
LEMMA ExclusionFromRing == TypeOK /\ RingInv => SlotExclusion
<1> SUFFICES ASSUME TypeOK, RingInv PROVE SlotExclusion
  OBVIOUS
<1>0. /\ NSlots \in Nat /\ fill_seq \in Nat /\ emit_seq \in Nat /\ work_seq \in Nat
      /\ \A w \in Workers : wseq[w] \in Nat
  BY NSlotsAssumption DEF TypeOK
<1>1. \A w \in Workers : Busy(w) =>
         /\ emit_seq <= wseq[w] /\ wseq[w] < fill_seq /\ wseq[w] < emit_seq + NSlots
  BY <1>0 DEF RingInv, CounterInv, HolderInv
<1>2. \A v, w \in Workers : v # w /\ Busy(v) /\ Busy(w) => Slot(wseq[v]) # Slot(wseq[w])
  BY <1>0, <1>1, WindowDistinct DEF RingInv, HolderInv
<1>3. \A w \in Workers : Busy(w) /\ Filling => Slot(wseq[w]) # cur
  <2> SUFFICES ASSUME NEW w \in Workers, Busy(w), Filling PROVE Slot(wseq[w]) # cur
    OBVIOUS
  <2>1. cur = Slot(fill_seq) /\ fill_seq < emit_seq + NSlots
    BY DEF RingInv, CounterInv
  <2> QED
    BY <1>0, <1>1, <2>1, SlotDistinct
<1>4. \A w \in Workers : Busy(w) /\ Emitting => Slot(wseq[w]) # Slot(emit_seq)
  BY DEF RingInv, CounterInv, HolderInv
<1>5. Filling => jstate[cur] = "FREE"
  <2> SUFFICES ASSUME Filling, jstate[cur] # "FREE" PROVE FALSE
    OBVIOUS
  <2>1. cur = Slot(fill_seq) /\ fill_seq < emit_seq + NSlots
    BY DEF RingInv, CounterInv
  <2>2. PICK q \in emit_seq .. fill_seq - 1 : Slot(q) = cur
    BY DEF RingInv, SlotStateInv, TypeOK
  <2>3. q \in Nat /\ q < fill_seq /\ fill_seq < q + NSlots
    BY <1>0, <2>1
  <2> QED
    BY <1>0, <2>1, <2>2, <2>3, SlotDistinct
<1> QED
  BY <1>2, <1>3, <1>4, <1>5 DEF SlotExclusion

(* No two threads ever use the same slot outside the mutex, for any number *)
(* of workers and slots.                                                   *)
THEOREM ExclusionCorrect == Spec => []SlotExclusion
<1>1. TypeOK /\ RingInv => SlotExclusion
  BY ExclusionFromRing
<1> QED
  BY <1>1, TypeCorrect, RingCorrect, PTL

(* A signal always finds a worker, or no worker needs it. *)
LEMMA NextWakeup == TypeOK /\ RingInv /\ NoLostWakeup /\ [Next]_vars => NoLostWakeup'
<1> SUFFICES ASSUME TypeOK, RingInv, NoLostWakeup, [Next]_vars PROVE NoLostWakeup'
  OBVIOUS
<1>a. UNCHANGED <<work_seq, fill_seq, wpc, emit_seq, jstate>> /\ (ppc' = "waitdone" => ppc = "waitdone")
        => NoLostWakeup'
  BY DEF NoLostWakeup
<1>2. CASE \E n \in WriteLens : WriteCall(n)
  BY <1>a, <1>2 DEF WriteCall, ringVars, jobVars, workVars
<1>3. CASE FinishCall \/ FreeCall
  BY <1>a, <1>3 DEF FinishCall, FreeCall, ringVars, jobVars, workVars
<1>4. CASE ThreadStartFails
  BY <1>a, <1>4 DEF ThreadStartFails, ringVars, jobVars, workVars
<1>5. CASE \E w \in Workers : ThreadStart(w)
  BY <1>5 DEF ThreadStart, ringVars, jobVars, prodVars, NoLostWakeup, TypeOK
<1>6. CASE CreateReturns
  BY <1>a, <1>6 DEF CreateReturns, ringVars, jobVars, workVars
<1>7. CASE Copy
  BY <1>a, <1>7 DEF Copy, ringVars, workVars
<1>8. CASE MtSubmit
  <2>1. /\ wpc' \in [Workers -> WorkerPc]
        /\ \A w \in Workers : wpc'[w] = wpc[w] \/ (wpc[w] = "wait" /\ wpc'[w] = "lock")
        /\ \E w \in Workers : wpc'[w] # "wait"
    BY <1>8, SignalFacts DEF MtSubmit, TypeOK
  <2>2. \A w \in Workers : wpc[w] # "off" /\ wpc[w] # "exit"
    BY <1>8 DEF MtSubmit, RingInv, ControlInv
  <2>3. \E w \in Workers : wpc'[w] \in {"lock", "compress", "publish"}
    BY <2>1, <2>2 DEF WorkerPc
  <2> QED
    BY <1>8, <2>3 DEF MtSubmit, NoLostWakeup
<1>9. CASE MakeRoom
  BY <1>a, <1>9 DEF MakeRoom, ringVars, jobVars, workVars
<1>10. CASE SubmitReturns
  BY <1>a, <1>10 DEF SubmitReturns, ringVars, jobVars, workVars
<1>11. CASE EmitWait \/ EmitReady
  BY <1>11 DEF EmitWait, EmitReady, ringVars, jobVars, workVars, NoLostWakeup
<1>12. CASE EmitOne
  BY <1>a, <1>12 DEF EmitOne, ringVars, jobVars, workVars
<1>13. CASE FreeSlot
  BY <1>13, BroadcastFacts DEF FreeSlot, NoLostWakeup, TypeOK
<1>14. CASE Drain
  BY <1>a, <1>14 DEF Drain, ringVars, jobVars, workVars
<1>15. CASE FinishReturns
  BY <1>a, <1>15 DEF FinishReturns, ringVars, jobVars, workVars
<1>16. CASE MtDestroy
  BY <1>16, BroadcastFacts DEF MtDestroy, jobVars, NoLostWakeup, TypeOK
<1>17. CASE Join
  BY <1>a, <1>17 DEF Join, ringVars, jobVars, workVars
<1>18. CASE \E w \in Workers : WorkerStep(w)
  <2> SUFFICES ASSUME NEW w \in Workers, WorkerStep(w) PROVE NoLostWakeup'
    BY <1>18
  <2>1. CASE WorkerWait(w) \/ WorkerExit(w)
    BY <2>1 DEF WorkerWait, WorkerExit, ringVars, jobVars, prodVars, NoLostWakeup, TypeOK
  <2>2. CASE WorkerClaim(w)
    BY <2>2 DEF WorkerClaim, jobVars, prodVars, NoLostWakeup, TypeOK
  <2>3. CASE WorkerCompress(w)
    BY <2>3 DEF WorkerCompress, ringVars, prodVars, NoLostWakeup, TypeOK
  <2>4. CASE WorkerPublish(w)
    BY <2>4 DEF WorkerPublish, ringVars, NoLostWakeup, TypeOK
  <2> QED
    BY <2>1, <2>2, <2>3, <2>4 DEF WorkerStep
<1>19. CASE Spurious
  BY <1>19 DEF Spurious, SpuriousDone, SpuriousWork,
               ringVars, jobVars, workVars, prodVars, NoLostWakeup, TypeOK
<1>20. CASE UNCHANGED vars
  BY <1>a, <1>20 DEF vars, ringVars, jobVars, workVars, prodVars
<1> QED
  BY <1>2, <1>3, <1>4, <1>5, <1>6, <1>7, <1>8, <1>9, <1>10, <1>11, <1>12, <1>13,
     <1>14, <1>15, <1>16, <1>17, <1>18, <1>19, <1>20
     DEF Next, CallerStep, ProducerStep, Terminated

(* Neither the workers nor the producer ever sleep through the wake-up     *)
(* meant for them.                                                         *)
THEOREM WakeupCorrect == Spec => []NoLostWakeup
<1>1. Init => NoLostWakeup
  BY DEF Init, NoLostWakeup
<1>2. TypeOK /\ RingInv /\ NoLostWakeup /\ [Next]_vars => NoLostWakeup'
  BY NextWakeup
<1> QED
  BY <1>1, <1>2, TypeCorrect, RingCorrect, PTL DEF Spec

(***************************************************************************)
(* The output of the threaded encoder: the bytes are followed from the     *)
(* caller through e->raw, the ring and the workers into the file.  From    *)
(* that: the index and the trailer are right, an error and a finished file *)
(* are final, and the threaded encoder implements BlockStream.             *)
(***************************************************************************)


(* The length of a block, and the parts of a span. *)
LEMMA LenFacts ==
  ASSUME NEW n \in Nat, NEW a \in Nat
  PROVE  /\ LenOf(n, a) \in Int /\ LenOf(n, a) <= BlockSize
         /\ Start(n) + BlockSize <= a => LenOf(n, a) = BlockSize
         /\ Start(n) < a => LenOf(n, a) \in Nat /\ LenOf(n, a) > 0
         /\ Start(n) < a => Start(n) + LenOf(n, a) = Smaller(Start(n + 1), a)
  BY BlockSizeAssumption, StartType, StartStep DEF LenOf, Smaller

(* Blocks that are complete do not depend on how much follows them. *)
LEMMA SerialStable ==
  ASSUME NEW n \in Nat, NEW a \in Nat, NEW b \in Nat,
         Start(n) + BlockSize <= a, a <= b
  PROVE  LenOf(n, b) = LenOf(n, a) /\ SerialBlock(n, b) = SerialBlock(n, a)
<1>1. LenOf(n, b) = BlockSize /\ LenOf(n, a) = BlockSize
  BY LenFacts, StartType, BlockSizeAssumption
<1> QED
  BY <1>1 DEF SerialBlock

(* xq_encoder_create has neither accepted nor written a byte. *)
LEMMA InitOutput == Init => OutputInv
<1> SUFFICES ASSUME Init PROVE OutputInv
  OBVIOUS
<1>0. BlockSize \in Nat /\ BlockSize > 0
  BY BlockSizeAssumption
<1>1. CallInv
  BY <1>0 DEF Init, FileInit, CallInv
<1>2. AcceptedInv
  BY StartZero DEF Init, FileInit, AcceptedInv
<1>3. PendingInv
  BY DEF Init, PendingInv
<1>4. WrittenInv
  <2>1. stream_ck = [k \in 1 .. Len(out) |-> out[k].data]
    BY DEF Init, FileInit
  <2> QED
    BY <2>1, StartZero DEF Init, FileInit, WrittenInv, Smaller
<1>5. OutputDeterministic
  BY DEF Init, FileInit, OutputDeterministic
<1> QED
  BY <1>1, <1>2, <1>3, <1>4, <1>5 DEF OutputInv

(* Where the producer is in a call. *)
LEMMA NextCall == TypeOK /\ RingInv /\ CallInv /\ [Next]_vars => CallInv'
<1> SUFFICES ASSUME TypeOK, RingInv, CallInv, [Next]_vars PROVE CallInv'
  OBVIOUS
<1>0. /\ BlockSize \in Nat /\ BlockSize > 0 /\ raw_len \in Nat /\ raw_len <= BlockSize
      /\ rem \in Nat /\ emit_seq \in Nat /\ fill_seq \in Nat
  BY BlockSizeAssumption DEF TypeOK
<1> USE DEF CallInv
<1>2. CASE \E n \in WriteLens : WriteCall(n)
  BY <1>2, <1>0, WriteLensAssumption DEF WriteCall, ringVars, fileVars
<1>3. CASE FinishCall \/ FreeCall
  BY <1>3, <1>0 DEF FinishCall, FreeCall, ringVars, fileVars
<1>4. CASE ThreadStartFails
  BY <1>4 DEF ThreadStartFails, ringVars, fileVars
<1>5. CASE \E w \in Workers : ThreadStart(w)
  BY <1>5 DEF ThreadStart, ringVars, prodVars, fileVars
<1>6. CASE CreateReturns
  BY <1>6 DEF CreateReturns, WriteFileHead, ringVars
<1>7. CASE Copy
  BY <1>7, <1>0 DEF Copy, Smaller, ringVars, fileVars, RingInv, ControlInv
<1>8. CASE MtSubmit
  BY <1>8 DEF MtSubmit, fileVars, RingInv, ControlInv
<1>9. CASE MakeRoom
  BY <1>9 DEF MakeRoom, ringVars, fileVars
<1>10. CASE SubmitReturns
  BY <1>10, <1>0 DEF SubmitReturns, ringVars, fileVars, RingInv, ControlInv
<1>11. CASE EmitWait \/ EmitReady
  BY <1>11 DEF EmitWait, EmitReady, ringVars, fileVars
<1>12. CASE EmitOne
  BY <1>12 DEF EmitOne, EmitJob, EmitJobOK, EmitJobBad, EmitJobNoMem, EmitJobSinkFails, ringVars
<1>13. CASE FreeSlot
  BY <1>13 DEF FreeSlot, fileVars, RingInv, ControlInv
<1>14. CASE Drain
  BY <1>14, <1>0 DEF Drain, ringVars, fileVars, RingInv, CounterInv, TypeOK
<1>15. CASE FinishReturns
  BY <1>15 DEF FinishReturns, WriteTrailer, WriteTrailerOK, WriteTrailerEarlyFail,
               WriteTrailerSinkFails, ringVars, RingInv, ControlInv
<1>16. CASE MtDestroy
  BY <1>16 DEF MtDestroy, fileVars
<1>17. CASE Join
  BY <1>17 DEF Join, ringVars, fileVars
<1>18. CASE \E w \in Workers : WorkerStep(w)
  BY <1>18 DEF WorkerStep, WorkerWait, WorkerExit, WorkerClaim, WorkerCompress, WorkerPublish,
               ringVars, prodVars, fileVars
<1>19. CASE Spurious
  BY <1>19 DEF Spurious, SpuriousDone, SpuriousWork, ringVars, prodVars, fileVars
<1>20. CASE UNCHANGED vars
  BY <1>20 DEF vars, ringVars, prodVars, fileVars
<1> QED
  BY <1>2, <1>3, <1>4, <1>5, <1>6, <1>7, <1>8, <1>9, <1>10, <1>11, <1>12, <1>13,
     <1>14, <1>15, <1>16, <1>17, <1>18, <1>19, <1>20
     DEF Next, CallerStep, ProducerStep, Terminated

(* The accounting of the accepted bytes. *)
LEMMA NextAccepted ==
  TypeOK /\ RingInv /\ CallInv /\ AcceptedInv /\ [Next]_vars => AcceptedInv'
<1> SUFFICES ASSUME TypeOK, RingInv, CallInv, AcceptedInv, [Next]_vars PROVE AcceptedInv'
  OBVIOUS
<1>0. /\ BlockSize \in Nat /\ BlockSize > 0 /\ raw_len \in Nat /\ raw_len <= BlockSize
      /\ rem \in Nat /\ accepted \in Nat /\ fill_seq \in Nat /\ cur \in Slots
      /\ Start(fill_seq) \in Nat /\ Start(fill_seq + 1) = Start(fill_seq) + BlockSize
  BY BlockSizeAssumption, StartType, StartStep DEF TypeOK
<1>a. /\ UNCHANGED <<ctx, fill_seq, raw_len, accepted, jraw, cur>>
      /\ Filling' => Filling
      /\ ppc' = "submit" => ppc = "submit"
      => AcceptedInv'
  BY DEF AcceptedInv
<1>2. CASE \E n \in WriteLens : WriteCall(n)
  BY <1>2, <1>a DEF WriteCall, ringVars, jobVars, fileVars, Filling
<1>3. CASE FinishCall \/ FreeCall
  BY <1>3, <1>0 DEF FinishCall, FreeCall, ringVars, jobVars, fileVars, Filling, AcceptedInv, CallInv
<1>4. CASE ThreadStartFails
  BY <1>4, <1>a DEF ThreadStartFails, ringVars, jobVars, fileVars, Filling
<1>5. CASE \E w \in Workers : ThreadStart(w)
  BY <1>5, <1>a DEF ThreadStart, ringVars, jobVars, prodVars, fileVars, Filling
<1>6. CASE CreateReturns
  BY <1>6, <1>a DEF CreateReturns, WriteFileHead, ringVars, jobVars, Filling
<1>7. CASE Copy
  <2> DEFINE take == Smaller(rem, BlockSize - raw_len)
  <2>1. take \in Nat /\ raw_len + take <= BlockSize
    BY <1>0 DEF Smaller
  <2> HIDE DEF take
  <2>2. /\ raw_len' = raw_len + take /\ accepted' = accepted + take
        /\ UNCHANGED <<ctx, cur, fill_seq>>
        /\ jraw' = [jraw EXCEPT ![cur] =
                      [i \in 0 .. BlockSize - 1 |->
                         IF i >= raw_len /\ i < raw_len + take
                         THEN accepted + (i - raw_len) ELSE jraw[cur][i]]]
    BY <1>7 DEF Copy, ringVars, take
  <2>3. ctx = "write" /\ accepted = Start(fill_seq) + raw_len /\ Filling
    BY <1>7 DEF Copy, CallInv, AcceptedInv, Filling, RingInv, ControlInv
  <2>4. ASSUME NEW i \in 0 .. raw_len' - 1
        PROVE  jraw'[cur][i] = Start(fill_seq) + i
    <3>1. i \in 0 .. BlockSize - 1
      BY <1>0, <2>1, <2>2
    <3>2. jraw'[cur][i] = IF i >= raw_len /\ i < raw_len + take
                         THEN accepted + (i - raw_len) ELSE jraw[cur][i]
      BY <1>0, <2>2, <3>1 DEF TypeOK
    <3>3. CASE i >= raw_len
      BY <1>0, <2>1, <2>2, <2>3, <3>1, <3>2, <3>3
    <3>4. CASE i < raw_len
      BY <1>0, <2>1, <2>2, <2>3, <3>1, <3>2, <3>4 DEF AcceptedInv
    <3> QED
      BY <1>0, <3>1, <3>3, <3>4
  <2>5. ctx' = "write" /\ accepted' = Start(fill_seq') + raw_len'
    BY <1>0, <2>1, <2>2, <2>3
  <2>6. \A i \in 0 .. raw_len' - 1 : jraw'[cur'][i] = Start(fill_seq') + i
    BY <2>2, <2>4
  <2> QED
    BY <2>5, <2>6 DEF AcceptedInv
<1>8. CASE MtSubmit
  BY <1>8, <1>0 DEF MtSubmit, fileVars, AcceptedInv, CallInv, Filling
<1>9. CASE MakeRoom
  BY <1>9, <1>a DEF MakeRoom, ringVars, jobVars, fileVars, Filling
<1>10. CASE SubmitReturns
  BY <1>10, <1>0 DEF SubmitReturns, ringVars, jobVars, fileVars, AcceptedInv, CallInv, Filling
<1>11. CASE EmitWait \/ EmitReady
  BY <1>11, <1>a DEF EmitWait, EmitReady, ringVars, jobVars, fileVars, Filling
<1>12. CASE EmitOne
  BY <1>12, <1>a DEF EmitOne, ringVars, jobVars, Filling
<1>13. CASE FreeSlot
  BY <1>13, <1>a DEF FreeSlot, fileVars, Filling
<1>14. CASE Drain
  BY <1>14, <1>a DEF Drain, ringVars, jobVars, fileVars, Filling
<1>15. CASE FinishReturns
  <2>1. finished' \/ sticky' # "OK"
    BY <1>15 DEF FinishReturns, WriteTrailer, WriteTrailerOK, WriteTrailerEarlyFail,
                 WriteTrailerSinkFails
  <2> QED
    BY <1>15, <1>a, <2>1 DEF FinishReturns, ringVars, jobVars, Filling
<1>16. CASE MtDestroy
  BY <1>16, <1>a DEF MtDestroy, jobVars, fileVars, Filling
<1>17. CASE Join
  BY <1>17, <1>a DEF Join, ringVars, jobVars, fileVars, Filling
<1>18. CASE \E w \in Workers : WorkerStep(w)
  BY <1>18, <1>a DEF WorkerStep, WorkerWait, WorkerExit, WorkerClaim, WorkerCompress,
                     WorkerPublish, ringVars, jobVars, prodVars, fileVars, Filling
<1>19. CASE Spurious
  BY <1>19, <1>a DEF Spurious, SpuriousDone, SpuriousWork, ringVars, jobVars, prodVars,
                     fileVars, Filling
<1>20. CASE UNCHANGED vars
  BY <1>20, <1>a DEF vars, ringVars, jobVars, prodVars, fileVars, Filling
<1> QED
  BY <1>2, <1>3, <1>4, <1>5, <1>6, <1>7, <1>8, <1>9, <1>10, <1>11, <1>12, <1>13,
     <1>14, <1>15, <1>16, <1>17, <1>18, <1>19, <1>20
     DEF Next, CallerStep, ProducerStep, Terminated

(* What PendingInv says of one sequence number. *)
PendingAt(q) ==
  /\ Start(q) < accepted
  /\ jlen[Slot(q)] = LenOf(q, accepted)
  /\ RawOf(Slot(q)) = Span(Start(q), LenOf(q, accepted))
  /\ /\ jstate[Slot(q)] = "DONE" \/ \E w \in Workers : wpc[w] = "publish" /\ wseq[w] = q
     /\ jres[Slot(q)].st = "OK"
     => jres[Slot(q)] = GoodResult(q)

(* PendingInv, block by block of the ring's window ... *)
LEMMA PendingIsAt == PendingInv <=> \A q \in emit_seq .. fill_seq - 1 : PendingAt(q)
  BY DEF PendingInv, PendingAt

(* ... and after a step. *)
LEMMA PendingIsAtNext == PendingInv' <=> \A q \in emit_seq' .. fill_seq' - 1 : PendingAt(q)'
  BY DEF PendingInv, PendingAt

(* Copying into e->raw leaves the pending slots alone, and the pending     *)
(* blocks are full ones.                                                   *)
LEMMA CopyPending ==
  ASSUME TypeOK, RingInv, CallInv, AcceptedInv, PendingInv, Copy
  PROVE  PendingInv'
<1>0. /\ BlockSize \in Nat /\ NSlots \in Nat /\ fill_seq \in Nat /\ emit_seq \in Nat
      /\ accepted \in Nat /\ raw_len \in Nat /\ rem \in Nat /\ raw_len <= BlockSize
      /\ Start(fill_seq) \in Nat
  BY BlockSizeAssumption, NSlotsAssumption, StartType DEF TypeOK
<1>1. Filling /\ ctx = "write"
  BY DEF Copy, CallInv, Filling, RingInv, ControlInv
<1>2. /\ accepted = Start(fill_seq) + raw_len /\ cur = Slot(fill_seq)
      /\ fill_seq < emit_seq + NSlots
  BY <1>1 DEF AcceptedInv, RingInv, CounterInv
<1>3. accepted' \in Nat /\ accepted <= accepted'
  BY <1>0 DEF Copy, Smaller
<1>4. UNCHANGED <<fill_seq, emit_seq, jstate, jlen, jres, wpc, wseq>>
  BY DEF Copy, ringVars, workVars
<1>5. ASSUME NEW q \in emit_seq .. fill_seq - 1 PROVE PendingAt(q)'
  <2>1. q \in Nat /\ q < fill_seq /\ fill_seq < q + NSlots /\ PendingAt(q)
    BY <1>0, <1>2, PendingIsAt
  <2>2. Slot(q) # cur /\ Slot(q) \in Slots
    BY <1>0, <1>2, <2>1, SlotDistinct, SlotType
  <2>3. jraw'[Slot(q)] = jraw[Slot(q)]
    BY <2>2 DEF Copy, TypeOK
  <2>4. RawOf(Slot(q))' = RawOf(Slot(q))
    BY <1>4, <2>3 DEF RawOf
  <2>5. Start(q) + BlockSize <= accepted /\ Start(q) \in Nat
    BY <1>0, <1>2, <2>1, StartMono, StartType
  <2>6. LenOf(q, accepted') = LenOf(q, accepted)
    BY <1>0, <1>3, <2>1, <2>5, SerialStable
  <2>7. GoodResult(q)' = GoodResult(q)
    BY <2>6 DEF GoodResult
  <2>8. Start(q) < accepted'
    BY <1>0, <1>3, <2>1, <2>5 DEF PendingAt
  <2> QED
    BY <1>4, <2>1, <2>4, <2>6, <2>7, <2>8 DEF PendingAt
<1> QED
  BY <1>4, <1>5, PendingIsAtNext

(* A submitted block is the bytes that are in e->raw. *)
LEMMA SubmitPending ==
  ASSUME TypeOK, RingInv, CallInv, AcceptedInv, PendingInv, MtSubmit
  PROVE  PendingInv'
<1> DEFINE f == Slot(fill_seq)
<1>0. /\ BlockSize \in Nat /\ BlockSize > 0 /\ NSlots \in Nat /\ fill_seq \in Nat
      /\ emit_seq \in Nat /\ work_seq \in Nat /\ accepted \in Nat
      /\ raw_len \in Nat /\ raw_len <= BlockSize
      /\ Start(fill_seq) \in Nat /\ f \in Slots
  BY BlockSizeAssumption, NSlotsAssumption, StartType, SlotType DEF TypeOK
<1>1. Filling /\ raw_len > 0 /\ accepted = Start(fill_seq) + raw_len
  BY DEF MtSubmit, CallInv, AcceptedInv, Filling, RingInv, ControlInv
<1>2. cur = f /\ fill_seq < emit_seq + NSlots /\ work_seq <= fill_seq
  BY <1>1 DEF RingInv, CounterInv
<1>3. /\ UNCHANGED <<emit_seq, work_seq, jraw, jres, wseq, accepted>>
      /\ fill_seq' = fill_seq + 1
      /\ jlen' = [jlen EXCEPT ![f] = raw_len]
      /\ jstate' = [jstate EXCEPT ![f] = "READY"]
  BY DEF MtSubmit
<1>4. \A w \in Workers : wpc'[w] = "publish" <=> wpc[w] = "publish"
  BY SignalFacts DEF MtSubmit, TypeOK
<1>5. ASSUME NEW q \in emit_seq .. fill_seq - 1 PROVE PendingAt(q)'
  <2>1. q \in Nat /\ q < fill_seq /\ fill_seq < q + NSlots /\ PendingAt(q)
    BY <1>0, <1>2, PendingIsAt
  <2>2. Slot(q) # f /\ Slot(q) \in Slots
    BY <1>0, <2>1, SlotDistinct, SlotType
  <2>3. jlen'[Slot(q)] = jlen[Slot(q)] /\ jstate'[Slot(q)] = jstate[Slot(q)]
    BY <1>3, <2>2 DEF TypeOK
  <2>4. RawOf(Slot(q))' = RawOf(Slot(q))
    BY <1>3, <2>3 DEF RawOf
  <2>5. GoodResult(q)' = GoodResult(q)
    BY <1>3 DEF GoodResult
  <2> QED
    BY <1>3, <1>4, <2>1, <2>3, <2>4, <2>5 DEF PendingAt
<1>6. ASSUME NEW g \in Nat, g = fill_seq PROVE PendingAt(g)'
  <2>1. LenOf(g, accepted) = raw_len
    BY <1>0, <1>1, <1>6 DEF LenOf, Smaller
  <2>2. jlen'[Slot(g)] = raw_len /\ jstate'[Slot(g)] = "READY"
    BY <1>0, <1>3, <1>6 DEF TypeOK
  <2>3. RawOf(Slot(g))' = Span(Start(g), raw_len)
    <3>1. \A i \in 0 .. BlockSize - 1 : i < raw_len => jraw[Slot(g)][i] = Start(g) + i
      BY <1>0, <1>1, <1>2, <1>6 DEF AcceptedInv
    <3> QED
      BY <1>3, <2>2, <3>1 DEF RawOf, Span
  <2>4. ~ \E w \in Workers : wpc'[w] = "publish" /\ wseq'[w] = g
    BY <1>0, <1>2, <1>3, <1>4, <1>6 DEF RingInv, HolderInv, Busy, TypeOK
  <2> QED
    BY <1>0, <1>1, <1>3, <1>6, <2>1, <2>2, <2>3, <2>4 DEF PendingAt
<1>7. ASSUME NEW q \in emit_seq' .. fill_seq' - 1 PROVE PendingAt(q)'
  <2>1. q \in emit_seq .. fill_seq - 1 \/ (q \in Nat /\ q = fill_seq)
    BY <1>0, <1>3
  <2> QED
    BY <1>5, <1>6, <2>1
<1> QED
  BY <1>7, PendingIsAtNext

(* A worker compresses the bytes of the block it claimed. *)
LEMMA CompressPending ==
  ASSUME TypeOK, RingInv, PendingInv, NEW w \in Workers, WorkerCompress(w)
  PROVE  PendingInv'
<1> DEFINE c == wseq[w]
           f == Slot(c)
<1>0. /\ BlockSize \in Nat /\ BlockSize > 0 /\ NSlots \in Nat /\ fill_seq \in Nat
      /\ emit_seq \in Nat /\ work_seq \in Nat /\ accepted \in Nat /\ c \in Nat /\ f \in Slots
  BY BlockSizeAssumption, NSlotsAssumption, SlotType DEF TypeOK
<1>1. /\ emit_seq <= c /\ c < work_seq /\ work_seq <= fill_seq
      /\ fill_seq <= emit_seq + NSlots /\ jstate[f] = "READY"
  BY DEF RingInv, CounterInv, HolderInv, WorkerCompress, Busy
<1>2. /\ UNCHANGED <<emit_seq, fill_seq, jraw, jlen, jstate, wseq, accepted>>
      /\ wpc' = [wpc EXCEPT ![w] = "publish"]
  BY DEF WorkerCompress, ringVars, prodVars
<1>3. PICK res \in CompressJob(jres[f], RawOf(f)) : jres' = [jres EXCEPT ![f] = res]
  BY DEF WorkerCompress
<1>4. c \in emit_seq .. fill_seq - 1
  BY <1>0, <1>1
<1>5. PendingAt(c)
  BY <1>4, PendingIsAt
<1>6. res.st = "OK" => res = GoodResult(c)
  <2>1. LenOf(c, accepted) > 0 /\ LenOf(c, accepted) \in Nat /\ Start(c) \in Nat
    BY <1>0, <1>5, LenFacts, StartType DEF PendingAt
  <2>2. RawOf(f) = Span(Start(c), LenOf(c, accepted))
    BY <1>5 DEF PendingAt
  <2>3. RawOf(f)[0] = Start(c)
    BY <1>0, <2>1, <2>2 DEF Span
  <2>4. [jres[f] EXCEPT !.st = "ERR_CODEC"].st = "ERR_CODEC"
    BY <1>0 DEF TypeOK, JobResult
  <2> QED
    BY <1>3, <2>2, <2>3, <2>4 DEF CompressJob, GoodResult
<1>7. ASSUME NEW q \in emit_seq .. fill_seq - 1 PROVE PendingAt(q)'
  <2>1. PendingAt(q) /\ q \in Nat
    BY <1>0, PendingIsAt
  <2>2. RawOf(Slot(q))' = RawOf(Slot(q)) /\ GoodResult(q)' = GoodResult(q)
    BY <1>2 DEF RawOf, GoodResult
  <2>3. CASE q = c
    <3>1. jres'[f] = res
      BY <1>0, <1>3 DEF TypeOK
    <3> QED
      BY <1>2, <1>6, <2>1, <2>2, <2>3, <3>1 DEF PendingAt
  <2>4. CASE q # c
    <3>1. Slot(q) # f /\ Slot(q) \in Slots
      BY <1>0, <1>1, <2>1, <2>4, WindowDistinct, SlotType
    <3>2. jres'[Slot(q)] = jres[Slot(q)]
      BY <1>3, <3>1 DEF TypeOK
    <3>3. \A v \in Workers : wpc'[v] = "publish" /\ wseq'[v] = q => wpc[v] = "publish" /\ wseq[v] = q
      BY <1>2, <2>4 DEF TypeOK
    <3> QED
      BY <1>2, <2>1, <2>2, <3>2, <3>3 DEF PendingAt
  <2> QED
    BY <2>3, <2>4
<1> QED
  BY <1>2, <1>7, PendingIsAtNext

(* Publishing makes DONE what the worker has just finished. *)
LEMMA PublishPending ==
  ASSUME TypeOK, RingInv, PendingInv, NEW w \in Workers, WorkerPublish(w)
  PROVE  PendingInv'
<1> DEFINE c == wseq[w]
           f == Slot(c)
<1>0. /\ NSlots \in Nat /\ fill_seq \in Nat /\ emit_seq \in Nat /\ work_seq \in Nat
      /\ c \in Nat /\ f \in Slots
  BY NSlotsAssumption, SlotType DEF TypeOK
<1>1. /\ emit_seq <= c /\ c < work_seq /\ work_seq <= fill_seq
      /\ fill_seq <= emit_seq + NSlots
  BY DEF RingInv, CounterInv, HolderInv, WorkerPublish, Busy
<1>2. /\ UNCHANGED <<emit_seq, fill_seq, jraw, jlen, jres, wseq, accepted>>
      /\ wpc' = [wpc EXCEPT ![w] = "lock"] /\ wpc[w] = "publish"
      /\ jstate' = [jstate EXCEPT ![f] = "DONE"]
  BY DEF WorkerPublish, ringVars
<1>3. ASSUME NEW q \in emit_seq .. fill_seq - 1 PROVE PendingAt(q)'
  <2>1. PendingAt(q) /\ q \in Nat
    BY <1>0, PendingIsAt
  <2>2. RawOf(Slot(q))' = RawOf(Slot(q)) /\ GoodResult(q)' = GoodResult(q)
    BY <1>2 DEF RawOf, GoodResult
  <2>3. CASE q = c
    BY <1>2, <2>1, <2>2, <2>3 DEF PendingAt
  <2>4. CASE q # c
    <3>1. Slot(q) # f /\ Slot(q) \in Slots
      BY <1>0, <1>1, <2>1, <2>4, WindowDistinct, SlotType
    <3>2. jstate'[Slot(q)] = jstate[Slot(q)]
      BY <1>2, <3>1 DEF TypeOK
    <3>3. \A v \in Workers : wpc'[v] = "publish" => wpc[v] = "publish"
      BY <1>2 DEF TypeOK
    <3> QED
      BY <1>2, <2>1, <2>2, <3>2, <3>3 DEF PendingAt
  <2> QED
    BY <2>3, <2>4
<1> QED
  BY <1>2, <1>3, PendingIsAtNext

(* What waits in the slots stays what the caller gave, in every step. *)
LEMMA NextPending ==
  TypeOK /\ RingInv /\ CallInv /\ AcceptedInv /\ PendingInv /\ [Next]_vars => PendingInv'
<1> SUFFICES ASSUME TypeOK, RingInv, CallInv, AcceptedInv, PendingInv, [Next]_vars
             PROVE  PendingInv'
  OBVIOUS
<1>a. /\ UNCHANGED <<emit_seq, fill_seq, accepted, jlen, jraw, jres, jstate>>
      /\ \A w \in Workers : wpc'[w] = "publish" => wpc[w] = "publish" /\ wseq'[w] = wseq[w]
      => PendingInv'
  <2> SUFFICES ASSUME UNCHANGED <<emit_seq, fill_seq, accepted, jlen, jraw, jres, jstate>>,
                      \A w \in Workers : wpc'[w] = "publish" =>
                                           wpc[w] = "publish" /\ wseq'[w] = wseq[w],
                      NEW q \in emit_seq .. fill_seq - 1
               PROVE  PendingAt(q)'
    BY PendingIsAtNext
  <2>1. PendingAt(q)
    BY PendingIsAt
  <2>2. RawOf(Slot(q))' = RawOf(Slot(q)) /\ GoodResult(q)' = GoodResult(q)
    BY DEF RawOf, GoodResult
  <2> QED
    BY <2>1, <2>2 DEF PendingAt
<1>2. CASE \E n \in WriteLens : WriteCall(n)
  BY <1>2, <1>a DEF WriteCall, ringVars, jobVars, workVars
<1>3. CASE FinishCall \/ FreeCall
  BY <1>3, <1>a DEF FinishCall, FreeCall, ringVars, jobVars, workVars
<1>4. CASE ThreadStartFails
  BY <1>4, <1>a DEF ThreadStartFails, ringVars, jobVars, workVars
<1>5. CASE \E w \in Workers : ThreadStart(w)
  BY <1>5, <1>a DEF ThreadStart, ringVars, jobVars, prodVars, TypeOK
<1>6. CASE CreateReturns
  BY <1>6, <1>a DEF CreateReturns, ringVars, jobVars, workVars
<1>7. CASE Copy
  BY <1>7, CopyPending
<1>8. CASE MtSubmit
  BY <1>8, SubmitPending
<1>9. CASE MakeRoom
  BY <1>9, <1>a DEF MakeRoom, ringVars, jobVars, workVars
<1>10. CASE SubmitReturns
  BY <1>10, <1>a DEF SubmitReturns, ringVars, jobVars, workVars
<1>11. CASE EmitWait \/ EmitReady
  BY <1>11, <1>a DEF EmitWait, EmitReady, ringVars, jobVars, workVars
<1>12. CASE EmitOne
  BY <1>12, <1>a DEF EmitOne, ringVars, jobVars, workVars
<1>13. CASE FreeSlot
  <2>0. /\ NSlots \in Nat /\ fill_seq \in Nat /\ emit_seq \in Nat
        /\ fill_seq <= emit_seq + NSlots
    BY NSlotsAssumption DEF TypeOK, RingInv, CounterInv
  <2>1. /\ UNCHANGED <<fill_seq, accepted, jlen, jraw, jres, wseq>> /\ emit_seq' = emit_seq + 1
        /\ jstate' = [jstate EXCEPT ![Slot(emit_seq)] = "FREE"]
    BY <1>13 DEF FreeSlot
  <2>2. \A w \in Workers : wpc'[w] = "publish" => wpc[w] = "publish"
    BY <1>13, BroadcastFacts DEF FreeSlot, TypeOK
  <2>3. ASSUME NEW q \in emit_seq' .. fill_seq' - 1 PROVE PendingAt(q)'
    <3>1. q \in emit_seq .. fill_seq - 1 /\ q \in Nat /\ emit_seq < q /\ q < emit_seq + NSlots
      BY <2>0, <2>1
    <3>2. PendingAt(q)
      BY <3>1, PendingIsAt
    <3>3. jstate'[Slot(q)] = jstate[Slot(q)]
      BY <2>0, <2>1, <3>1, SlotDistinct, SlotType DEF TypeOK
    <3>4. RawOf(Slot(q))' = RawOf(Slot(q)) /\ GoodResult(q)' = GoodResult(q)
      BY <2>1 DEF RawOf, GoodResult
    <3> QED
      BY <2>1, <2>2, <3>2, <3>3, <3>4 DEF PendingAt
  <2> QED
    BY <2>3, PendingIsAtNext
<1>14. CASE Drain
  BY <1>14, <1>a DEF Drain, ringVars, jobVars, workVars
<1>15. CASE FinishReturns
  BY <1>15, <1>a DEF FinishReturns, ringVars, jobVars, workVars
<1>16. CASE MtDestroy
  BY <1>16, <1>a, BroadcastFacts DEF MtDestroy, jobVars, TypeOK
<1>17. CASE Join
  BY <1>17, <1>a DEF Join, ringVars, jobVars, workVars
<1>18. CASE \E w \in Workers : WorkerStep(w)
  <2> SUFFICES ASSUME NEW w \in Workers, WorkerStep(w) PROVE PendingInv'
    BY <1>18
  <2>1. CASE WorkerWait(w) \/ WorkerExit(w)
    BY <2>1, <1>a DEF WorkerWait, WorkerExit, ringVars, jobVars, prodVars, TypeOK
  <2>2. CASE WorkerClaim(w)
    BY <2>2, <1>a DEF WorkerClaim, jobVars, prodVars, TypeOK
  <2>3. CASE WorkerCompress(w)
    BY <2>3, CompressPending
  <2>4. CASE WorkerPublish(w)
    BY <2>4, PublishPending
  <2> QED
    BY <2>1, <2>2, <2>3, <2>4 DEF WorkerStep
<1>19. CASE Spurious
  BY <1>19, <1>a DEF Spurious, SpuriousDone, SpuriousWork, ringVars, jobVars, workVars,
                     prodVars, TypeOK
<1>20. CASE UNCHANGED vars
  BY <1>20, <1>a DEF vars, ringVars, jobVars, workVars, prodVars
<1> QED
  BY <1>2, <1>3, <1>4, <1>5, <1>6, <1>7, <1>8, <1>9, <1>10, <1>11, <1>12, <1>13,
     <1>14, <1>15, <1>16, <1>17, <1>18, <1>19, <1>20
     DEF Next, CallerStep, ProducerStep, Terminated

(* Emitting a block: what is written is the block of that number. *)
LEMMA EmitWritten ==
  ASSUME TypeOK, RingInv, PendingInv, WrittenInv, OutputDeterministic,
         ppc = "emitjob", ppc' = "freeslot", UNCHANGED <<emit_seq, accepted>>,
         EmitJobOK(RawOf(Slot(emit_seq)), jlen[Slot(emit_seq)], jres[Slot(emit_seq)])
  PROVE  /\ Len(out) = emit_seq
         /\ Start(emit_seq) < accepted
         /\ out' = Append(out, SerialBlock(emit_seq, accepted))
         /\ WrittenInv' /\ OutputDeterministic'
<1> DEFINE n == emit_seq
           s == Slot(emit_seq)
<1>0. /\ n \in Nat /\ fill_seq \in Nat /\ accepted \in Nat /\ s \in Slots
      /\ out \in Seq(Block) /\ stream_ck \in Seq(Content)
      /\ Start(n) \in Nat /\ BlockSize \in Nat
  BY SlotType, StartType, BlockSizeAssumption DEF TypeOK, FileTypeOK
<1>1. sticky = "OK" /\ n < fill_seq /\ jstate[s] = "DONE"
  BY DEF RingInv, ControlInv, CounterInv, Emitting
<1>2. Len(out) = n
  BY <1>1 DEF WrittenInv
<1>3. PendingAt(n)
  BY <1>0, <1>1, PendingIsAt
<1>4. /\ jres[s] = GoodResult(n) /\ jlen[s] = LenOf(n, accepted) /\ Start(n) < accepted
      /\ RawOf(s) = Span(Start(n), LenOf(n, accepted))
  BY <1>1, <1>3 DEF PendingAt, EmitJobOK
<1>5. raw_offset = Start(n)
  BY <1>0, <1>2, <1>4 DEF WrittenInv, Smaller
<1>6. out' = Append(out, SerialBlock(n, accepted))
  BY <1>4, <1>5 DEF EmitJobOK, SerialBlock, GoodResult
<1>7. SerialBlock(n, accepted) \in Block
  <2>1. LenOf(n, accepted) \in Nat
    BY <1>0, <1>4, LenFacts
  <2> QED
    BY <1>0, <2>1, SpanType DEF SerialBlock, Block
<1>8. /\ Len(out') = n + 1
      /\ out'[n + 1] = SerialBlock(n, accepted)
      /\ \A k \in 1 .. n : out'[k] = out[k]
  BY <1>0, <1>2, <1>6, <1>7
<1>9. \A k \in 1 .. Len(out') : Start(k - 1) < accepted /\ out'[k] = SerialBlock(k - 1, accepted)
  <2> SUFFICES ASSUME NEW k \in 1 .. n + 1
               PROVE  Start(k - 1) < accepted /\ out'[k] = SerialBlock(k - 1, accepted)
    BY <1>8
  <2>1. CASE k = n + 1
    <3>1. k - 1 = n
      BY <1>0, <2>1
    <3> QED
      BY <1>4, <1>8, <2>1, <3>1
  <2>2. CASE k # n + 1
    <3>1. k \in 1 .. n
      BY <1>0, <2>2
    <3> QED
      BY <1>2, <1>8, <3>1 DEF WrittenInv, OutputDeterministic
  <2> QED
    BY <2>1, <2>2
<1>10. raw_offset' = Smaller(Start(Len(out')), accepted')
  <2>1. raw_offset' = Start(n) + LenOf(n, accepted)
    BY <1>4, <1>5 DEF EmitJobOK
  <2> QED
    BY <1>0, <1>4, <1>8, <2>1, LenFacts
<1>11. stream_ck' = [k \in 1 .. Len(out') |-> out'[k].data]
  <2>1. stream_ck' = Append(stream_ck, Span(Start(n), LenOf(n, accepted)))
    BY <1>4 DEF EmitJobOK
  <2>2. stream_ck = [k \in 1 .. n |-> out[k].data]
    BY <1>2 DEF WrittenInv
  <2>3. Span(Start(n), LenOf(n, accepted)) \in Content
    <3>1. LenOf(n, accepted) \in Int /\ Start(n) \in Int
      BY <1>0, LenFacts
    <3> QED
      BY <3>1, SpanType
  <2>4. out'[n + 1].data = Span(Start(n), LenOf(n, accepted))
    BY <1>8 DEF SerialBlock
  <2>5. Len(stream_ck) = n
    BY <1>0, <2>2
  <2>6. /\ stream_ck' \in Seq(Content) /\ Len(stream_ck') = n + 1
        /\ stream_ck'[n + 1] = out'[n + 1].data
        /\ \A k \in 1 .. n : stream_ck'[k] = out'[k].data
    BY <1>0, <1>8, <2>1, <2>2, <2>3, <2>4, <2>5
  <2>7. \A k \in 1 .. n + 1 : stream_ck'[k] = out'[k].data
    BY <1>0, <2>6
  <2> QED
    BY <1>0, <1>8, <2>6, <2>7
<1>12. WrittenInv'
  BY <1>8, <1>9, <1>10, <1>11 DEF WrittenInv
<1>13. OutputDeterministic'
  BY <1>9 DEF OutputDeterministic
<1> QED
  BY <1>2, <1>4, <1>6, <1>12, <1>13

(* The file so far. *)
LEMMA NextWritten ==
  TypeOK /\ RingInv /\ OutputInv /\ [Next]_vars => WrittenInv' /\ OutputDeterministic'
<1> SUFFICES ASSUME TypeOK, RingInv, OutputInv, [Next]_vars
             PROVE  WrittenInv' /\ OutputDeterministic'
  OBVIOUS
<1>0. /\ BlockSize \in Nat /\ emit_seq \in Nat /\ fill_seq \in Nat /\ accepted \in Nat
      /\ raw_len \in Nat /\ rem \in Nat /\ raw_len <= BlockSize /\ Len(out) \in Nat
  BY BlockSizeAssumption DEF TypeOK, FileTypeOK
<1>a. /\ UNCHANGED <<emit_seq, accepted, out, raw_offset, stream_ck>>
      /\ sticky' = "OK" => sticky = "OK"
      /\ ppc' # "freeslot" /\ ppc # "freeslot"
      => WrittenInv' /\ OutputDeterministic'
  BY DEF OutputInv, WrittenInv, OutputDeterministic
<1>2. CASE \E n \in WriteLens : WriteCall(n)
  BY <1>2, <1>a DEF WriteCall, ringVars, fileVars
<1>3. CASE FinishCall \/ FreeCall
  BY <1>3, <1>a DEF FinishCall, FreeCall, ringVars, fileVars
<1>4. CASE ThreadStartFails
  BY <1>4, <1>a DEF ThreadStartFails, ringVars, fileVars
<1>5. CASE \E w \in Workers : ThreadStart(w)
  BY <1>5, <1>a DEF ThreadStart, ringVars, prodVars, fileVars
<1>6. CASE CreateReturns
  <2>1. sticky' = "OK" => sticky = "OK"
    BY <1>6 DEF CreateReturns, RingInv, ControlInv
  <2> QED
    BY <1>6, <1>a, <2>1 DEF CreateReturns, WriteFileHead, ringVars
<1>7. CASE Copy
  <2>1. /\ UNCHANGED <<emit_seq, out, raw_offset, stream_ck, sticky>>
        /\ accepted' \in Nat /\ accepted <= accepted' /\ ppc' # "freeslot" /\ ppc = "copy"
    BY <1>7, <1>0 DEF Copy, Smaller, ringVars, fileVars
  <2>2. /\ accepted = Start(fill_seq) + raw_len /\ Len(out) = emit_seq
        /\ emit_seq <= fill_seq
    BY <2>1, <1>0 DEF OutputInv, CallInv, AcceptedInv, WrittenInv, RingInv, ControlInv, CounterInv, TypeOK
  <2>3. Start(fill_seq) \in Nat /\ Start(emit_seq) \in Nat /\ Start(emit_seq) <= Start(fill_seq)
    <3>1. CASE emit_seq = fill_seq
      BY <1>0, <3>1, StartType
    <3>2. CASE emit_seq < fill_seq
      <4>1. Start(emit_seq) + BlockSize <= Start(fill_seq)
        BY <1>0, <3>2, StartMono
      <4>2. Start(emit_seq) \in Nat /\ Start(fill_seq) \in Nat
        BY <1>0, StartType
      <4> QED
        BY <1>0, <4>1, <4>2
    <3> QED
      BY <1>0, <2>2, <3>1, <3>2
  <2>4. raw_offset = Start(Len(out)) /\ raw_offset' = Smaller(Start(Len(out')), accepted')
    BY <1>0, <2>1, <2>2, <2>3 DEF OutputInv, WrittenInv, Smaller
  <2>5. ASSUME NEW k \in 1 .. Len(out)
        PROVE  Start(k - 1) < accepted' /\ out[k] = SerialBlock(k - 1, accepted')
    <3>1. k - 1 \in Nat /\ k - 1 < fill_seq
      BY <1>0, <2>2
    <3>2. Start(k - 1) \in Nat /\ Start(k - 1) + BlockSize <= accepted
      <4>1. Start(k - 1) + BlockSize <= Start(fill_seq)
        BY <1>0, <3>1, StartMono
      <4>2. Start(k - 1) \in Nat
        BY <3>1, StartType
      <4> QED
        BY <1>0, <2>2, <2>3, <4>1, <4>2
    <3>3. SerialBlock(k - 1, accepted') = SerialBlock(k - 1, accepted)
      BY <1>0, <2>1, <3>1, <3>2, SerialStable
    <3> QED
      BY <1>0, <2>1, <3>2, <3>3, BlockSizeAssumption DEF OutputInv, OutputDeterministic
  <2> QED
    BY <2>1, <2>4, <2>5 DEF OutputInv, WrittenInv, OutputDeterministic
<1>8. CASE MtSubmit
  BY <1>8, <1>a DEF MtSubmit, fileVars
<1>9. CASE MakeRoom
  BY <1>9, <1>a DEF MakeRoom, ringVars, fileVars
<1>10. CASE SubmitReturns
  BY <1>10, <1>a DEF SubmitReturns, ringVars, fileVars
<1>11. CASE EmitWait \/ EmitReady
  BY <1>11, <1>a DEF EmitWait, EmitReady, ringVars, fileVars
<1>12. CASE EmitOne
  <2> DEFINE s == Slot(emit_seq)
  <2>1. ppc = "emitjob" /\ ppc' = "freeslot" /\ UNCHANGED <<emit_seq, accepted>>
    BY <1>12 DEF EmitOne, ringVars
  <2>2. CASE EmitJobOK(RawOf(s), jlen[s], jres[s])
    BY <2>1, <2>2, EmitWritten DEF OutputInv
  <2>3. CASE EmitJobBad(jres[s]) \/ EmitJobNoMem(jres[s]) \/ EmitJobSinkFails(jres[s])
    <3>1. sticky' # "OK" /\ UNCHANGED <<out, raw_offset, stream_ck>>
      BY <2>3 DEF EmitJobBad, EmitJobNoMem, EmitJobSinkFails
    <3> QED
      BY <2>1, <3>1 DEF OutputInv, WrittenInv, OutputDeterministic
  <2> QED
    BY <1>12, <2>2, <2>3 DEF EmitOne, EmitJob
<1>13. CASE FreeSlot
  BY <1>13 DEF FreeSlot, fileVars, OutputInv, WrittenInv, OutputDeterministic
<1>14. CASE Drain
  BY <1>14, <1>a DEF Drain, ringVars, fileVars
<1>15. CASE FinishReturns
  <2>1. UNCHANGED <<out, raw_offset, stream_ck>> /\ (sticky' = "OK" => sticky = "OK")
    BY <1>15 DEF FinishReturns, WriteTrailer, WriteTrailerOK, WriteTrailerEarlyFail,
                 WriteTrailerSinkFails
  <2> QED
    BY <1>15, <1>a, <2>1 DEF FinishReturns, ringVars
<1>16. CASE MtDestroy
  BY <1>16, <1>a DEF MtDestroy, fileVars
<1>17. CASE Join
  BY <1>17, <1>a DEF Join, ringVars, fileVars
<1>18. CASE \E w \in Workers : WorkerStep(w)
  BY <1>18 DEF WorkerStep, WorkerWait, WorkerExit, WorkerClaim, WorkerCompress, WorkerPublish,
               ringVars, prodVars, fileVars, OutputInv, WrittenInv, OutputDeterministic
<1>19. CASE Spurious
  BY <1>19 DEF Spurious, SpuriousDone, SpuriousWork, ringVars, prodVars, fileVars,
               OutputInv, WrittenInv, OutputDeterministic
<1>20. CASE UNCHANGED vars
  BY <1>20 DEF vars, ringVars, prodVars, fileVars, OutputInv, WrittenInv, OutputDeterministic
<1> QED
  BY <1>2, <1>3, <1>4, <1>5, <1>6, <1>7, <1>8, <1>9, <1>10, <1>11, <1>12, <1>13,
     <1>14, <1>15, <1>16, <1>17, <1>18, <1>19, <1>20
     DEF Next, CallerStep, ProducerStep, Terminated

(* The bytes are followed all the way. *)
THEOREM OutputInvCorrect == Spec => []OutputInv
<1>1. Init => OutputInv
  BY InitOutput
<1>2. TypeOK /\ RingInv /\ OutputInv /\ [Next]_vars => OutputInv'
  BY NextCall, NextAccepted, NextPending, NextWritten DEF OutputInv
<1> QED
  BY <1>1, <1>2, TypeCorrect, RingCorrect, PTL DEF Spec

(* Whatever the number of workers and slots and however they interleave,   *)
(* the sink receives the blocks the one-thread encoder would write.        *)
THEOREM OutputCorrect == Spec => []OutputDeterministic
<1>1. OutputInv => OutputDeterministic
  BY DEF OutputInv
<1> QED
  BY <1>1, OutputInvCorrect, PTL

-----------------------------------------------------------------------------
(* What follows from the output invariant *)

(* After an error, or once finished, no step changes the file. *)
LEMMA FileFrozen ==
  ASSUME TypeOK, RingInv, [Next]_vars, finished \/ sticky # "OK"
  PROVE  UNCHANGED <<fileVars, accepted, raw_len>>
<1> USE DEF RingInv, ControlInv
<1>1. CASE CallerStep
  BY <1>1 DEF CallerStep, WriteCall, FinishCall, FreeCall
<1>2. CASE ProducerStep
  BY <1>2 DEF ProducerStep, ThreadStartFails, ThreadStart, CreateReturns, Copy, MtSubmit,
     MakeRoom, SubmitReturns, EmitWait, EmitReady, EmitOne, FreeSlot, Drain, FinishReturns,
     MtDestroy, Join, prodVars
<1>3. CASE \E w \in Workers : WorkerStep(w)
  BY <1>3 DEF WorkerStep, WorkerWait, WorkerExit, WorkerClaim, WorkerCompress, WorkerPublish,
     prodVars
<1>4. CASE Spurious
  BY <1>4 DEF Spurious, SpuriousDone, SpuriousWork, prodVars
<1>5. CASE UNCHANGED vars
  BY <1>5 DEF vars, prodVars
<1> QED
  BY <1>1, <1>2, <1>3, <1>4, <1>5 DEF Next, Terminated

(* An error is reported by every later call and nothing is written after   *)
(* it; a finished file is never written to again.                          *)
THEOREM EndFinal == Spec => EndIsFinal
<1>1. TypeOK /\ RingInv /\ [Next]_vars =>
        [sticky # "OK" \/ finished =>
           UNCHANGED <<sticky, out, idx, finished, trailer, raw_offset, accepted, raw_len>>]_vars
  BY FileFrozen DEF fileVars
<1> QED
  BY <1>1, TypeCorrect, RingCorrect, PTL DEF Spec, EndIsFinal

(* The steps that write to the file. *)
LEMMA FileSteps ==
  ASSUME TypeOK, RingInv, OutputInv, [Next]_vars
  PROVE  \/ UNCHANGED fileVars
         \/ CreateReturns
         \/ EmitOne
         \/ FinishReturns
<1>1. CASE CallerStep
  BY <1>1 DEF CallerStep, WriteCall, FinishCall, FreeCall
<1>2. CASE ProducerStep
  BY <1>2 DEF ProducerStep, ThreadStartFails, ThreadStart, Copy, MtSubmit,
     MakeRoom, SubmitReturns, EmitWait, EmitReady, FreeSlot, Drain, MtDestroy, Join
<1>3. CASE \E w \in Workers : WorkerStep(w)
  BY <1>3 DEF WorkerStep, WorkerWait, WorkerExit, WorkerClaim, WorkerCompress, WorkerPublish
<1>4. CASE Spurious
  BY <1>4 DEF Spurious, SpuriousDone, SpuriousWork
<1>5. CASE UNCHANGED vars
  BY <1>5 DEF vars
<1> QED
  BY <1>1, <1>2, <1>3, <1>4, <1>5 DEF Next, Terminated

(* What an index entry pushed at the end does to the index. *)
LEMMA IdxPushFacts ==
  ASSUME TypeOK
  PROVE  /\ Len(IdxPush(Len(out), raw_offset)) = Len(idx) + 1
         /\ IdxPush(Len(out), raw_offset)[Len(idx) + 1] =
              [file_offset |-> Len(out), raw_offset |-> raw_offset]
         /\ \A k \in 1 .. Len(idx) : IdxPush(Len(out), raw_offset)[k] = idx[k]
<1>1. idx \in Seq(IndexEntry) /\ [file_offset |-> Len(out), raw_offset |-> raw_offset] \in IndexEntry
  BY DEF TypeOK, FileTypeOK, IndexEntry
<1> QED
  BY <1>1 DEF IdxPush

(* Every step keeps the index in agreement with the blocks written. *)
LEMMA NextIndex ==
  TypeOK /\ RingInv /\ OutputInv /\ IndexSound /\ [Next]_vars => IndexSound'
<1> SUFFICES ASSUME TypeOK, RingInv, OutputInv, IndexSound, [Next]_vars PROVE IndexSound'
  OBVIOUS
<1>0. Len(out) \in Nat /\ Len(idx) \in Nat /\ out \in Seq(Block)
  BY DEF TypeOK, FileTypeOK
<1>1. CASE UNCHANGED fileVars
  BY <1>1 DEF fileVars, IndexSound
<1>2. CASE CreateReturns
  BY <1>2 DEF CreateReturns, WriteFileHead, IndexSound, RingInv, ControlInv
<1>3. CASE EmitOne
  <2> DEFINE s == Slot(emit_seq)
  <2>1. sticky = "OK" /\ ~finished /\ Len(idx) = Len(out) /\ s \in Slots
    BY <1>3, SlotType DEF EmitOne, RingInv, ControlInv, IndexSound, TypeOK
  <2>2. CASE EmitJobOK(RawOf(s), jlen[s], jres[s])
    <3>1. PICK b \in Block : out' = Append(out, b) /\ b.off = raw_offset
      <4>1. RawOf(s) \in Content /\ jlen[s] \in Nat /\ jres[s] \in JobResult
        BY <2>1, RawOfType DEF TypeOK
      <4> DEFINE b == [off |-> raw_offset, len |-> jlen[s], stored |-> jres[s].stored,
                       data |-> IF jres[s].stored THEN RawOf(s) ELSE jres[s].data,
                       ck |-> jres[s].data]
      <4>2. b \in Block
        BY <4>1 DEF Block, JobResult, TypeOK, FileTypeOK
      <4>3. out' = Append(out, b) /\ b.off = raw_offset
        BY <2>2 DEF EmitJobOK
      <4> QED
        BY <4>2, <4>3
    <3>2. /\ Len(out') = Len(out) + 1 /\ out'[Len(out) + 1].off = raw_offset
          /\ \A k \in 1 .. Len(out) : out'[k] = out[k]
      BY <1>0, <3>1
    <3>3. idx' = IdxPush(Len(out), raw_offset) /\ UNCHANGED <<sticky, finished>>
      BY <2>2 DEF EmitJobOK
    <3>4. /\ Len(idx') = Len(out) + 1
          /\ idx'[Len(out) + 1] = [file_offset |-> Len(out), raw_offset |-> raw_offset]
          /\ \A k \in 1 .. Len(out) : idx'[k] = idx[k]
      BY <2>1, <3>3, IdxPushFacts
    <3>5. ASSUME NEW k \in 1 .. Len(out')
          PROVE  idx'[k] = [file_offset |-> k - 1, raw_offset |-> out'[k].off]
      <4>1. CASE k = Len(out) + 1
        <5>1. k - 1 = Len(out)
          BY <1>0, <4>1
        <5> QED
          BY <3>2, <3>4, <4>1, <5>1
      <4>2. CASE k # Len(out) + 1
        <5>1. k \in 1 .. Len(out)
          BY <1>0, <3>2, <4>2
        <5> QED
          BY <3>2, <3>4, <5>1 DEF IndexSound
      <4> QED
        BY <4>1, <4>2
    <3> QED
      BY <1>0, <2>1, <3>2, <3>3, <3>4, <3>5 DEF IndexSound
  <2>3. CASE EmitJobBad(jres[s]) \/ EmitJobNoMem(jres[s])
    BY <2>3 DEF EmitJobBad, EmitJobNoMem, IndexSound
  <2>4. CASE EmitJobSinkFails(jres[s])
    BY <1>0, <2>1, <2>4, IdxPushFacts DEF EmitJobSinkFails, IndexSound
  <2> QED
    BY <1>3, <2>2, <2>3, <2>4 DEF EmitOne, EmitJob
<1>4. CASE FinishReturns
  <2>1. sticky = "OK" /\ ~finished /\ Len(idx) = Len(out)
    BY <1>4 DEF FinishReturns, RingInv, ControlInv, IndexSound
  <2>2. CASE WriteTrailerOK
    BY <1>0, <2>1, <2>2, IdxPushFacts DEF WriteTrailerOK, IndexSound
  <2>3. CASE WriteTrailerEarlyFail
    BY <2>3 DEF WriteTrailerEarlyFail, IndexSound
  <2>4. CASE WriteTrailerSinkFails
    BY <1>0, <2>1, <2>4, IdxPushFacts DEF WriteTrailerSinkFails, IndexSound
  <2> QED
    BY <1>4, <2>2, <2>3, <2>4 DEF FinishReturns, WriteTrailer
<1> QED
  BY <1>1, <1>2, <1>3, <1>4, FileSteps

(* Every index entry points at the header of its block. *)
THEOREM IndexCorrect == Spec => []IndexSound
<1>1. Init => IndexSound
  BY DEF Init, FileInit, IndexSound
<1>2. TypeOK /\ RingInv /\ OutputInv /\ IndexSound /\ [Next]_vars => IndexSound'
  BY NextIndex
<1> QED
  BY <1>1, <1>2, TypeCorrect, RingCorrect, OutputInvCorrect, PTL DEF Spec

(* The step that completes the trailer completes the file. *)
LEMMA TrailerComplete ==
  ASSUME TypeOK, RingInv, OutputInv, IndexSound, FinishReturns, WriteTrailerOK
  PROVE  FinishedComplete'
<1> DEFINE n == Len(out)
<1>0. /\ n \in Nat /\ accepted \in Nat /\ out \in Seq(Block) /\ Len(idx) \in Nat
      /\ Start(n) \in Nat
  <2>1. n \in Nat /\ accepted \in Nat /\ out \in Seq(Block) /\ Len(idx) \in Nat
    BY DEF TypeOK, FileTypeOK
  <2> QED
    BY <2>1, StartType
<1>1. /\ sticky = "OK" /\ ~finished /\ raw_len = 0 /\ ctx = "drain" /\ emit_seq = fill_seq
      /\ Len(idx) = n /\ n = emit_seq /\ accepted <= Start(n)
  BY StartType DEF FinishReturns, RingInv, ControlInv, IndexSound, OutputInv, CallInv,
                   AcceptedInv, WrittenInv, TypeOK
<1>2. raw_offset = accepted
  BY <1>0, <1>1 DEF OutputInv, WrittenInv, Smaller
<1>3. UNCHANGED <<out, accepted, raw_len, raw_offset>>
  BY DEF FinishReturns, WriteTrailerOK
<1>4. Start(n - 1) < accepted \/ n = 0
  <2>1. CASE n # 0
    <3>1. n \in 1 .. n
      BY <1>0, <2>1
    <3> QED
      BY <3>1 DEF OutputInv, WrittenInv
  <2> QED
    BY <2>1
<1>5. /\ trailer'.total_raw = accepted
      /\ trailer'.hashed = [k \in 1 .. n |-> out[k].data]
      /\ trailer'.index_offset = IF n = 0 THEN 0 ELSE n + 1
      /\ n # 0 => trailer'.entries = IdxPush(n, raw_offset)
  BY <1>1, <1>2 DEF WriteTrailerOK, OutputInv, WrittenInv
<1>6. ASSUME NEW k \in 1 .. n + 1
      PROVE  IdxPush(n, raw_offset)[k] =
               [file_offset |-> k - 1, raw_offset |-> Smaller(Start(k - 1), accepted)]
  <2>1. CASE k = n + 1
    <3>1. k - 1 = n
      BY <1>0, <2>1
    <3>2. Smaller(Start(n), accepted) = accepted
      BY <1>0, <1>1 DEF Smaller
    <3> QED
      BY <1>1, <1>2, <2>1, <3>1, <3>2, IdxPushFacts
  <2>2. CASE k # n + 1
    <3>1. k \in 1 .. n /\ k - 1 \in Nat
      BY <1>0, <2>2
    <3>2. Start(k - 1) < accepted /\ Start(k - 1) \in Nat
      BY <3>1, StartType DEF OutputInv, WrittenInv
    <3>3. out[k].off = Start(k - 1)
      <4>1. out[k] = SerialBlock(k - 1, accepted)
        BY <3>1 DEF OutputInv, OutputDeterministic
      <4>2. SerialBlock(k - 1, accepted).off = Start(k - 1)
        BY DEF SerialBlock
      <4> QED
        BY <4>1, <4>2
    <3>4. IdxPush(n, raw_offset)[k] = [file_offset |-> k - 1, raw_offset |-> Start(k - 1)]
      BY <1>1, <3>1, <3>3, IdxPushFacts DEF IndexSound
    <3>5. Smaller(Start(k - 1), accepted) = Start(k - 1)
      BY <1>0, <3>2 DEF Smaller
    <3> QED
      BY <3>4, <3>5
  <2> QED
    BY <2>1, <2>2
<1>7. n # 0 => trailer'.entries =
        [k \in 1 .. n + 1 |-> [file_offset |-> k - 1, raw_offset |-> Smaller(Start(k - 1), accepted)]]
  <2>1. IdxPush(n, raw_offset) \in Seq(IndexEntry)
    BY DEF IdxPush, TypeOK, FileTypeOK, IndexEntry
  <2>2. Len(IdxPush(n, raw_offset)) = n + 1
    BY <1>1, IdxPushFacts
  <2>3. IdxPush(n, raw_offset) = [k \in 1 .. n + 1 |-> IdxPush(n, raw_offset)[k]]
    BY <2>1, <2>2
  <2>4. [k \in 1 .. n + 1 |-> IdxPush(n, raw_offset)[k]] =
        [k \in 1 .. n + 1 |-> [file_offset |-> k - 1, raw_offset |-> Smaller(Start(k - 1), accepted)]]
    BY <1>6
  <2> QED
    BY <1>5, <2>3, <2>4
<1>8. raw_offset' + raw_len' = accepted
  BY <1>0, <1>1, <1>2, <1>3
<1> QED
  BY <1>1, <1>3, <1>4, <1>5, <1>7, <1>8 DEF FinishedComplete

(* A finish that returns XQ_OK left nothing behind. *)
THEOREM FinishedCorrect == Spec => []FinishedComplete
<1>1. Init => FinishedComplete
  BY DEF Init, FileInit, FinishedComplete
<1>2. TypeOK /\ RingInv /\ OutputInv /\ IndexSound /\ FinishedComplete /\ [Next]_vars
        => FinishedComplete'
  <2> SUFFICES ASSUME TypeOK, RingInv, OutputInv, IndexSound, FinishedComplete, [Next]_vars
               PROVE  FinishedComplete'
    OBVIOUS
  <2>1. CASE finished
    BY <2>1, FileFrozen DEF fileVars, FinishedComplete
  <2>2. CASE ~finished /\ FinishReturns /\ WriteTrailerOK
    BY <2>2, TrailerComplete
  <2>3. CASE ~finished /\ ~(FinishReturns /\ WriteTrailerOK)
    <3>1. ~finished'
      BY <2>3, FileSteps DEF fileVars, CreateReturns, WriteFileHead, EmitOne, EmitJob, EmitJobOK,
         EmitJobBad, EmitJobNoMem, EmitJobSinkFails, FinishReturns, WriteTrailer,
         WriteTrailerEarlyFail, WriteTrailerSinkFails
    <3> QED
      BY <3>1 DEF FinishedComplete
  <2> QED
    BY <2>1, <2>2, <2>3
<1> QED
  BY <1>1, <1>2, TypeCorrect, RingCorrect, OutputInvCorrect, IndexCorrect, PTL DEF Spec

(* BlockStream's blocks are those of this specification. *)
LEMMA StreamBlocks ==
  /\ \A n : Stream!Start(n) = Start(n)
  /\ \A n, a : Stream!SerialBlock(n, a) = SerialBlock(n, a)
<1>1. \A n : Stream!Start(n) = Start(n)
  BY DEF Stream!Start, Start
<1>2. \A n, a : Stream!LenOf(n, a) = LenOf(n, a)
  BY <1>1 DEF Stream!LenOf, LenOf, Stream!Smaller, Smaller
<1>3. \A o, l : Stream!Span(o, l) = Span(o, l)
  BY DEF Stream!Span, Span, Stream!Garbage, Garbage
<1>4. \A n, a : Stream!SerialBlock(n, a) = SerialBlock(n, a)
  BY <1>1, <1>2, <1>3 DEF Stream!SerialBlock, SerialBlock
<1> QED
  BY <1>1, <1>4

(* Emitting a block delivers the next block of the stream. *)
LEMMA EmitRefines ==
  ASSUME TypeOK, RingInv, OutputInv, EmitOne
  PROVE  [Stream!StreamNext]_(Stream!streamVars)
<1> DEFINE s == Slot(emit_seq)
<1>0. /\ emit_seq \in Nat /\ fill_seq \in Nat /\ accepted \in Nat /\ BlockSize \in Nat
      /\ raw_len \in Nat
  BY BlockSizeAssumption DEF TypeOK
<1>1. sticky = "OK" /\ ~finished /\ emit_seq < fill_seq /\ raw_len = 0
  BY DEF EmitOne, RingInv, ControlInv, CounterInv, OutputInv, CallInv
<1>2. ppc = "emitjob" /\ ppc' = "freeslot" /\ UNCHANGED <<emit_seq, accepted, ctx>>
  BY DEF EmitOne, ringVars
<1>3. CASE EmitJobOK(RawOf(s), jlen[s], jres[s])
  <2>1. /\ Len(out) = emit_seq /\ Start(emit_seq) < accepted
        /\ out' = Append(out, SerialBlock(emit_seq, accepted))
    BY <1>2, <1>3, EmitWritten DEF OutputInv
  <2>2. ctx = "write" => Start(emit_seq) + BlockSize <= accepted
    <3>1. Start(emit_seq) + BlockSize <= Start(fill_seq)
      BY <1>0, <1>1, StartMono
    <3>2. ctx = "write" => accepted = Start(fill_seq) + 0
      BY <1>1 DEF OutputInv, AcceptedInv
    <3>3. Start(fill_seq) \in Int
      BY <1>0, StartType
    <3> QED
      BY <3>1, <3>2, <3>3
  <2>3. StreamStatus = "open" /\ StreamStatus' = StreamStatus
    BY <1>1, <1>3 DEF StreamStatus, EmitJobOK
  <2>4. Stream!Deliver
    BY <1>2, <2>1, <2>2, <2>3, StreamBlocks DEF Stream!Deliver
  <2> QED
    BY <2>4 DEF Stream!StreamNext
<1>4. CASE EmitJobBad(jres[s]) \/ EmitJobNoMem(jres[s]) \/ EmitJobSinkFails(jres[s])
  <2>1. StreamStatus = "open" /\ StreamStatus' = "failed" /\ out' = out
    BY <1>1, <1>4 DEF StreamStatus, EmitJobBad, EmitJobNoMem, EmitJobSinkFails
  <2>2. Stream!Fail
    BY <1>2, <2>1 DEF Stream!Fail
  <2> QED
    BY <2>2 DEF Stream!StreamNext
<1> QED
  BY <1>3, <1>4 DEF EmitOne, EmitJob

(* The trailer ends the stream, well or badly. *)
LEMMA FinishRefines ==
  ASSUME TypeOK, RingInv, OutputInv, FinishReturns
  PROVE  [Stream!StreamNext]_(Stream!streamVars)
<1>0. emit_seq \in Nat /\ accepted \in Nat
  BY DEF TypeOK
<1>1. sticky = "OK" /\ ~finished /\ raw_len = 0 /\ ctx = "drain" /\ emit_seq = fill_seq
  BY DEF FinishReturns, RingInv, ControlInv, OutputInv, CallInv
<1>2. UNCHANGED <<accepted, ctx, out>>
  BY DEF FinishReturns, WriteTrailer, WriteTrailerOK, WriteTrailerEarlyFail, WriteTrailerSinkFails
<1>3. CASE WriteTrailerOK
  <2>1. Len(out) = fill_seq /\ accepted <= Start(fill_seq) + 0
    BY <1>1 DEF FinishReturns, OutputInv, WrittenInv, AcceptedInv
  <2>2. accepted <= Start(Len(out))
    BY <1>0, <1>1, <2>1, StartType
  <2>3. StreamStatus = "open" /\ StreamStatus' = "finished"
    BY <1>1, <1>3 DEF StreamStatus, WriteTrailerOK
  <2>4. Stream!Finish
    BY <1>1, <1>2, <2>2, <2>3, StreamBlocks DEF Stream!Finish
  <2> QED
    BY <2>4 DEF Stream!StreamNext
<1>4. CASE WriteTrailerEarlyFail \/ WriteTrailerSinkFails
  <2>1. StreamStatus = "open" /\ StreamStatus' = "failed"
    BY <1>1, <1>4 DEF StreamStatus, WriteTrailerEarlyFail, WriteTrailerSinkFails
  <2>2. Stream!Fail
    BY <1>2, <2>1 DEF Stream!Fail
  <2> QED
    BY <2>2 DEF Stream!StreamNext
<1> QED
  BY <1>3, <1>4 DEF FinishReturns, WriteTrailer

(* Every step is a step of BlockStream or leaves it alone. *)
LEMMA NextRefines ==
  TypeOK /\ RingInv /\ OutputInv /\ [Next]_vars => [Stream!StreamNext]_(Stream!streamVars)
<1> SUFFICES ASSUME TypeOK, RingInv, OutputInv, [Next]_vars
             PROVE  [Stream!StreamNext]_(Stream!streamVars)
  OBVIOUS
<1>a. UNCHANGED fileVars => UNCHANGED <<out, StreamStatus>>
  BY DEF fileVars, StreamStatus
<1>b. UNCHANGED fileVars /\ UNCHANGED accepted /\ ((ctx # "write")' <=> ctx # "write")
        => [Stream!StreamNext]_(Stream!streamVars)
  BY <1>a DEF Stream!streamVars
<1>2. CASE \E n \in WriteLens : WriteCall(n)
  BY <1>2, <1>b DEF WriteCall
<1>3. CASE FinishCall
  <2>1. ctx = "write" /\ ctx' # "write" /\ UNCHANGED <<fileVars, accepted>> /\ StreamStatus = "open"
    BY <1>3 DEF FinishCall, OutputInv, CallInv, StreamStatus
  <2>2. Stream!Close
    BY <1>a, <2>1 DEF Stream!Close
  <2> QED
    BY <2>2 DEF Stream!StreamNext
<1>4. CASE FreeCall
  BY <1>4, <1>b DEF FreeCall
<1>5. CASE ThreadStartFails \/ \E w \in Workers : ThreadStart(w)
  BY <1>5, <1>b DEF ThreadStartFails, ThreadStart, prodVars
<1>6. CASE CreateReturns
  <2>1. sticky = "OK" /\ ~finished
    BY <1>6 DEF CreateReturns, RingInv, ControlInv
  <2>2. UNCHANGED <<accepted, ctx, out, finished>> /\ (sticky' = "OK" \/ sticky' = "ERR_IO")
    BY <1>6, <2>1 DEF CreateReturns, WriteFileHead
  <2>3. CASE sticky' = "OK"
    BY <2>1, <2>2, <2>3 DEF StreamStatus, Stream!streamVars
  <2>4. CASE sticky' = "ERR_IO"
    <3>1. Stream!Fail
      BY <2>1, <2>2, <2>4 DEF StreamStatus, Stream!Fail
    <3> QED
      BY <3>1 DEF Stream!StreamNext
  <2> QED
    BY <2>2, <2>3, <2>4
<1>7. CASE Copy
  <2>1. /\ accepted \in Nat /\ raw_len \in Nat /\ rem \in Nat /\ BlockSize \in Nat
        /\ raw_len < BlockSize /\ rem > 0 /\ ctx = "write" /\ sticky = "OK" /\ ~finished
    BY <1>7, BlockSizeAssumption DEF Copy, TypeOK, OutputInv, CallInv, RingInv, ControlInv
  <2>2. accepted' > accepted /\ accepted' \in Nat
    BY <1>7, <2>1 DEF Copy, Smaller
  <2>3. Stream!Accept
    BY <1>7, <1>a, <2>1, <2>2 DEF Copy, Stream!Accept, StreamStatus
  <2> QED
    BY <2>3 DEF Stream!StreamNext
<1>8. CASE MtSubmit \/ MakeRoom
  BY <1>8, <1>b DEF MtSubmit, MakeRoom
<1>9. CASE SubmitReturns
  BY <1>9, <1>b DEF SubmitReturns
<1>10. CASE EmitWait \/ EmitReady \/ FreeSlot
  BY <1>10, <1>b DEF EmitWait, EmitReady, FreeSlot
<1>11. CASE EmitOne
  BY <1>11, EmitRefines
<1>12. CASE Drain \/ MtDestroy \/ Join
  BY <1>12, <1>b DEF Drain, MtDestroy, Join
<1>13. CASE FinishReturns
  BY <1>13, FinishRefines
<1>14. CASE \E w \in Workers : WorkerStep(w)
  BY <1>14, <1>b DEF WorkerStep, WorkerWait, WorkerExit, WorkerClaim, WorkerCompress,
                     WorkerPublish, prodVars
<1>15. CASE Spurious
  BY <1>15, <1>b DEF Spurious, SpuriousDone, SpuriousWork, prodVars
<1>16. CASE UNCHANGED vars
  BY <1>16, <1>b DEF vars, prodVars
<1> QED
  BY <1>2, <1>3, <1>4, <1>5, <1>6, <1>7, <1>8, <1>9, <1>10, <1>11, <1>12, <1>13,
     <1>14, <1>15, <1>16
     DEF Next, CallerStep, ProducerStep, Terminated

(* The threaded encoder implements BlockStream: its sink cannot tell how   *)
(* many workers and slots there are, nor how they interleaved.             *)
THEOREM RingImplements == Spec => ImplementsStream
<1>1. Init => Stream!StreamInit
  BY DEF Init, FileInit, Stream!StreamInit, StreamStatus
<1>2. TypeOK /\ RingInv /\ OutputInv /\ [Next]_vars => [Stream!StreamNext]_(Stream!streamVars)
  BY NextRefines
<1> QED
  BY <1>1, <1>2, TypeCorrect, RingCorrect, OutputInvCorrect, PTL
     DEF Spec, ImplementsStream, Stream!StreamSpec

=============================================================================
