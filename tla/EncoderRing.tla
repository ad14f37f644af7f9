----------------------------- MODULE EncoderRing -----------------------------
(***************************************************************************)
(* The multi-threaded encoder of src/core/xq_encoder.c.                    *)
(*                                                                         *)
(* One producer (the thread that calls xq_encoder_write / finish / free)   *)
(* copies the caller's bytes straight into the raw buffer of a ring slot,  *)
(* submits full slots to the workers, and writes finished slots to the     *)
(* sink in order.  Slot number = sequence number modulo nslots.            *)
(*                                                                         *)
(* Granularity: a region between xq_mutex_lock and xq_mutex_unlock is one  *)
(* step, cut at xq_cond_wait; what runs outside the mutex (memcpy into the *)
(* slot, compress_job, emit_job) is a step of its own, and SlotExclusion   *)
(* says that no two such steps ever touch the same slot.                   *)
(*                                                                         *)
(* Condition variables: the workers with wpc = "wait" are the waiters of   *)
(* cv_work; the producer at "waitdone" is the only waiter of cv_done.      *)
(***************************************************************************)
EXTENDS EncoderFile

CONSTANTS Workers,     \* the worker threads
          NSlots,      \* mt->nslots; the code uses 2 * nthreads
          WriteLens,   \* the lengths the caller passes to xq_encoder_write
          MaxBytes     \* bound: the caller writes at most this many bytes

ASSUME NSlotsAssumption == NSlots \in Nat \ {0}
ASSUME WorkersAssumption == Workers # {}
ASSUME WriteLensAssumption == WriteLens \subseteq Nat \ {0}

VARIABLES fill_seq, work_seq, emit_seq,  \* sequence numbers, under mt->mu
          quit,        \* mt->quit
          jstate,      \* jobs[s].state: "FREE", "READY" or "DONE"
          jlen,        \* jobs[s].raw_len
          jraw,        \* jobs[s].raw: the bytes of the buffer
          jres,        \* jobs[s].st, stored, cbuf and ck
          wpc,         \* where each worker is in mt_worker
          wseq,        \* the seq local of each worker
          ppc,         \* where the producer is
          ctx,         \* which loop mt_emit_one and flush_block return to
          cur,         \* the slot e->raw points into
          raw_len,     \* e->raw_len
          rem,         \* len, inside xq_encoder_write
          accepted     \* number of caller bytes copied so far

ringVars == <<fill_seq, work_seq, emit_seq, quit>>
jobVars  == <<jstate, jlen, jraw, jres>>
workVars == <<wpc, wseq>>
prodVars == <<ppc, ctx, cur, raw_len, rem, accepted>>
vars == <<ringVars, jobVars, workVars, prodVars, fileVars>>

Slots == 0 .. NSlots - 1
Slot(seq) == seq % NSlots

WorkerPc == {"off", "lock", "wait", "compress", "publish", "exit"}
ProducerPc == {"create", "idle", "copy", "submit", "room", "emit", "waitdone",
               "emitjob", "freeslot", "drain", "trailer", "destroy", "join", "freed"}

TypeOK ==
  /\ fill_seq \in Nat /\ work_seq \in Nat /\ emit_seq \in Nat
  /\ quit \in BOOLEAN
  /\ jstate \in [Slots -> {"FREE", "READY", "DONE"}]
  /\ jlen \in [Slots -> Nat]
  /\ jraw \in [Slots -> Content]
  /\ jres \in [Slots -> JobResult]
  /\ wpc \in [Workers -> WorkerPc]
  /\ wseq \in [Workers -> Nat]
  /\ ppc \in ProducerPc
  /\ ctx \in {"write", "flush", "drain"}
  /\ cur \in Slots
  /\ raw_len \in 0 .. BlockSize
  /\ rem \in Nat
  /\ accepted \in Nat
  /\ FileTypeOK

(* xq_encoder_create once every buffer is allocated: the job array is      *)
(* zeroed, no thread runs yet, e->raw is the first slot's buffer.          *)
Init ==
  /\ fill_seq = 0 /\ work_seq = 0 /\ emit_seq = 0
  /\ quit = FALSE
  /\ jstate = [s \in Slots |-> "FREE"]
  /\ jlen = [s \in Slots |-> 0]
  /\ jraw = [s \in Slots |-> Span(0, 0)]
  /\ jres = [s \in Slots |-> [st |-> "OK", stored |-> FALSE, data |-> Span(0, 0)]]
  /\ wpc = [w \in Workers |-> "off"]
  /\ wseq = [w \in Workers |-> 0]
  /\ ppc = "create"
  /\ ctx = "write"
  /\ cur = 0
  /\ raw_len = 0
  /\ rem = 0
  /\ accepted = 0
  /\ FileInit

(* Seeded fault: the whole buffer counts, not its first raw_len bytes. *)
RawOfWhole(s) == jraw[s]

(* The raw bytes a job covers: the first raw_len bytes of its buffer. *)
RawOf(s) == [i \in 0 .. BlockSize - 1 |-> IF i < jlen[s] THEN jraw[s][i] ELSE Garbage]

(* xq_cond_broadcast(&mt->cv_work) *)
Broadcast(pc) == [w \in Workers |-> IF pc[w] = "wait" THEN "lock" ELSE pc[w]]

(* The possible outcomes of xq_cond_signal(&mt->cv_work): one waiter, if   *)
(* there is any, goes back to the mutex.                                   *)
Signal(pc) ==
  IF \E w \in Workers : pc[w] = "wait"
  THEN { [pc EXCEPT ![w] = "lock"] : w \in {v \in Workers : pc[v] = "wait"} }
  ELSE { pc }

-----------------------------------------------------------------------------
(* xq_encoder_create *)

(* mt_create starts the threads one after the other. *)
ThreadStart(w) ==
  /\ ppc = "create"
  /\ wpc[w] = "off"
  /\ wpc' = [wpc EXCEPT ![w] = "lock"]
  /\ UNCHANGED <<ringVars, jobVars, wseq, prodVars, fileVars>>

(* xq_thread_start fails: creation fails and frees what there is. *)
ThreadStartFails ==
  /\ ppc = "create"
  /\ \E w \in Workers : wpc[w] = "off"
  /\ ppc' = "destroy"
  /\ UNCHANGED <<ringVars, jobVars, workVars, ctx, cur, raw_len, rem, accepted, fileVars>>

(* The header and the dictionary record, once all threads run. *)
CreateReturns ==
  /\ ppc = "create"
  /\ \A w \in Workers : wpc[w] # "off"
  /\ \E failed \in BOOLEAN :
        /\ WriteFileHead(failed)
        /\ ppc' = IF failed THEN "destroy" ELSE "idle"
  /\ UNCHANGED <<ringVars, jobVars, workVars, ctx, cur, raw_len, rem, accepted>>

-----------------------------------------------------------------------------
(* xq_encoder_write and mt_submit *)

(* Seeded fault: the sticky status is not looked at. *)
WriteCallUnchecked(n) ==
  /\ ppc = "idle"
  /\ ~finished
  /\ accepted + n <= MaxBytes
  /\ rem' = n
  /\ ppc' = "copy"
  /\ UNCHANGED <<ringVars, jobVars, workVars, ctx, cur, raw_len, accepted, fileVars>>

(* A call with a sticky error, or after finish, returns at once and        *)
(* changes nothing, so it is not a step.                                   *)
WriteCall(n) ==
  /\ ppc = "idle"
  /\ sticky = "OK"
  /\ ~finished
  /\ accepted + n <= MaxBytes
  /\ rem' = n
  /\ ppc' = "copy"
  /\ UNCHANGED <<ringVars, jobVars, workVars, ctx, cur, raw_len, accepted, fileVars>>

(* Seeded fault: the room left in the buffer is not taken into account. *)
CopyUnbounded ==
  /\ ppc = "copy"
  /\ jraw' = [jraw EXCEPT ![cur] =
                [i \in 0 .. BlockSize - 1 |->
                   IF i >= raw_len THEN accepted + (i - raw_len) ELSE jraw[cur][i]]]
  /\ raw_len' = raw_len + rem
  /\ accepted' = accepted + rem
  /\ rem' = 0
  /\ ppc' = IF raw_len + rem = BlockSize THEN "submit" ELSE "idle"
  /\ UNCHANGED <<ringVars, jstate, jlen, jres, workVars, ctx, cur, fileVars>>

(* One turn of the while loop: memcpy into e->raw, outside the mutex. *)
Copy ==
  LET take == Smaller(rem, BlockSize - raw_len) IN
  /\ ppc = "copy"
  /\ jraw' = [jraw EXCEPT ![cur] =
                [i \in 0 .. BlockSize - 1 |->
                   IF i >= raw_len /\ i < raw_len + take
                   THEN accepted + (i - raw_len) ELSE jraw[cur][i]]]
  /\ raw_len' = raw_len + take
  /\ accepted' = accepted + take
  /\ rem' = rem - take
  /\ ppc' = IF raw_len + take = BlockSize THEN "submit" ELSE "idle"
  /\ UNCHANGED <<ringVars, jstate, jlen, jres, workVars, ctx, cur, fileVars>>

(* Seeded fault: cv_work is not signalled. *)
MtSubmitSilent ==
  LET s == Slot(fill_seq) IN
  /\ ppc = "submit"
  /\ jlen' = [jlen EXCEPT ![s] = raw_len]
  /\ jstate' = [jstate EXCEPT ![s] = "READY"]
  /\ fill_seq' = fill_seq + 1
  /\ raw_len' = 0
  /\ ppc' = "room"
  /\ UNCHANGED <<work_seq, emit_seq, quit, jraw, jres, workVars, ctx, cur, rem, accepted, fileVars>>

(* flush_block resets raw_len and mt_submit hands the slot over. *)
MtSubmit ==
  LET s == Slot(fill_seq) IN
  /\ ppc = "submit"
  /\ jlen' = [jlen EXCEPT ![s] = raw_len]
  /\ jstate' = [jstate EXCEPT ![s] = "READY"]
  /\ fill_seq' = fill_seq + 1
  /\ wpc' \in Signal(wpc)
  /\ raw_len' = 0
  /\ ppc' = "room"
  /\ UNCHANGED <<work_seq, emit_seq, quit, jraw, jres, wseq, ctx, cur, rem, accepted, fileVars>>

(* Seeded fault: the ring counts as full one block too late. *)
RingFullLate == fill_seq - emit_seq > NSlots

RingFull == fill_seq - emit_seq >= NSlots

(* The loop of mt_submit: emit until a slot is free for the next block.    *)
(* Only the producer writes fill_seq and emit_seq.                         *)
MakeRoom ==
  /\ ppc = "room"
  /\ RingFull
  /\ ppc' = "emit"
  /\ UNCHANGED <<ringVars, jobVars, workVars, ctx, cur, raw_len, rem, accepted, fileVars>>

(* Seeded fault: e->raw is not moved on to the next slot. *)
SubmitReturnsStale ==
  /\ ppc = "room"
  /\ ~RingFull
  /\ \/ ctx = "write" /\ rem > 0 /\ ppc' = "copy" /\ ctx' = ctx
     \/ ctx = "write" /\ rem = 0 /\ ppc' = "idle" /\ ctx' = ctx
     \/ ctx = "flush" /\ ppc' = "drain" /\ ctx' = "drain"
  /\ UNCHANGED <<ringVars, jobVars, workVars, cur, raw_len, rem, accepted, fileVars>>

(* mt_submit returns: flush_block points e->raw at the next slot, and      *)
(* write goes on with the rest of the caller's bytes, finish with draining.*)
SubmitReturns ==
  /\ ppc = "room"
  /\ ~RingFull
  /\ cur' = Slot(fill_seq)
  /\ \/ ctx = "write" /\ rem > 0 /\ ppc' = "copy" /\ ctx' = ctx
     \/ ctx = "write" /\ rem = 0 /\ ppc' = "idle" /\ ctx' = ctx
     \/ ctx = "flush" /\ ppc' = "drain" /\ ctx' = "drain"
  /\ UNCHANGED <<ringVars, jobVars, workVars, raw_len, rem, accepted, fileVars>>

-----------------------------------------------------------------------------
(* mt_emit_one.  Both callers have just seen emit_seq < fill_seq, so its   *)
(* early return is never taken (RingInv says so).                          *)

EmitWait ==
  /\ ppc = "emit"
  /\ jstate[Slot(emit_seq)] # "DONE"
  /\ ppc' = "waitdone"
  /\ UNCHANGED <<ringVars, jobVars, workVars, ctx, cur, raw_len, rem, accepted, fileVars>>

EmitReady ==
  /\ ppc = "emit"
  /\ jstate[Slot(emit_seq)] = "DONE"
  /\ ppc' = "emitjob"
  /\ UNCHANGED <<ringVars, jobVars, workVars, ctx, cur, raw_len, rem, accepted, fileVars>>

(* emit_job, outside the mutex. *)
EmitOne ==
  LET s == Slot(emit_seq) IN
  /\ ppc = "emitjob"
  /\ EmitJob(RawOf(s), jlen[s], jres[s])
  /\ ppc' = "freeslot"
  /\ UNCHANGED <<ringVars, jobVars, workVars, ctx, cur, raw_len, rem, accepted>>

(* The slot is freed whether or not the block could be written; with an    *)
(* error the whole call returns it, dropping what was left to copy.        *)
FreeSlot ==
  /\ ppc = "freeslot"
  /\ jstate' = [jstate EXCEPT ![Slot(emit_seq)] = "FREE"]
  /\ emit_seq' = emit_seq + 1
  /\ wpc' = Broadcast(wpc)
  /\ IF sticky # "OK"
     THEN ppc' = "idle" /\ rem' = 0
     ELSE ppc' = (IF ctx = "drain" THEN "drain" ELSE "room") /\ rem' = rem
  /\ UNCHANGED <<fill_seq, work_seq, quit, jlen, jraw, jres, wseq,
                 ctx, cur, raw_len, accepted, fileVars>>

-----------------------------------------------------------------------------
(* xq_encoder_finish *)

(* Seeded fault: the short last block is not flushed. *)
FinishCallNoFlush ==
  /\ ppc = "idle"
  /\ sticky = "OK"
  /\ ~finished
  /\ ppc' = "drain"
  /\ ctx' = "drain"
  /\ UNCHANGED <<ringVars, jobVars, workVars, cur, raw_len, rem, accepted, fileVars>>

(* A second finish, or one after an error, returns at once. *)
FinishCall ==
  /\ ppc = "idle"
  /\ sticky = "OK"
  /\ ~finished
  /\ IF raw_len = 0 THEN ppc' = "drain"  /\ ctx' = "drain"
                    ELSE ppc' = "submit" /\ ctx' = "flush"
  /\ UNCHANGED <<ringVars, jobVars, workVars, cur, raw_len, rem, accepted, fileVars>>

(* Seeded fault: draining stops one block early. *)
DrainShort ==
  /\ ppc = "drain"
  /\ ppc' = IF emit_seq + 1 < fill_seq THEN "emit" ELSE "trailer"
  /\ UNCHANGED <<ringVars, jobVars, workVars, ctx, cur, raw_len, rem, accepted, fileVars>>

(* mt_drain_all *)
Drain ==
  /\ ppc = "drain"
  /\ ppc' = IF emit_seq < fill_seq THEN "emit" ELSE "trailer"
  /\ UNCHANGED <<ringVars, jobVars, workVars, ctx, cur, raw_len, rem, accepted, fileVars>>

FinishReturns ==
  /\ ppc = "trailer"
  /\ WriteTrailer
  /\ ppc' = "idle"
  /\ UNCHANGED <<ringVars, jobVars, workVars, ctx, cur, raw_len, rem, accepted>>

-----------------------------------------------------------------------------
(* xq_encoder_free and mt_destroy *)

(* The caller may free the handle at any time between two calls. *)
FreeCall ==
  /\ ppc = "idle"
  /\ ppc' = "destroy"
  /\ UNCHANGED <<ringVars, jobVars, workVars, ctx, cur, raw_len, rem, accepted, fileVars>>

(* Seeded fault: the workers that wait are not told to quit. *)
MtDestroySilent ==
  /\ ppc = "destroy"
  /\ quit' = TRUE
  /\ ppc' = "join"
  /\ UNCHANGED <<fill_seq, work_seq, emit_seq, jobVars, workVars,
                 ctx, cur, raw_len, rem, accepted, fileVars>>

(* mt_destroy up to the joins: quit, and wake every worker that waits. *)
MtDestroy ==
  /\ ppc = "destroy"
  /\ quit' = TRUE
  /\ wpc' = Broadcast(wpc)
  /\ ppc' = "join"
  /\ UNCHANGED <<fill_seq, work_seq, emit_seq, jobVars, wseq,
                 ctx, cur, raw_len, rem, accepted, fileVars>>

(* xq_thread_join of every thread that was started, then the memory goes. *)
Join ==
  /\ ppc = "join"
  /\ \A w \in Workers : wpc[w] \in {"off", "exit"}
  /\ ppc' = "freed"
  /\ UNCHANGED <<ringVars, jobVars, workVars, ctx, cur, raw_len, rem, accepted, fileVars>>

(* The handle is gone: nothing happens any more. *)
Terminated == ppc = "freed" /\ UNCHANGED vars

-----------------------------------------------------------------------------
(* mt_worker *)

WorkerWait(w) ==
  /\ wpc[w] = "lock"
  /\ ~quit /\ work_seq >= fill_seq
  /\ wpc' = [wpc EXCEPT ![w] = "wait"]
  /\ UNCHANGED <<ringVars, jobVars, wseq, prodVars, fileVars>>

WorkerExit(w) ==
  /\ wpc[w] = "lock"
  /\ quit /\ work_seq >= fill_seq
  /\ wpc' = [wpc EXCEPT ![w] = "exit"]
  /\ UNCHANGED <<ringVars, jobVars, wseq, prodVars, fileVars>>

(* Jobs still pending when quit is set are compressed all the same. *)
WorkerClaim(w) ==
  /\ wpc[w] = "lock"
  /\ work_seq < fill_seq
  /\ wseq' = [wseq EXCEPT ![w] = work_seq]
  /\ work_seq' = work_seq + 1
  /\ wpc' = [wpc EXCEPT ![w] = "compress"]
  /\ UNCHANGED <<fill_seq, emit_seq, quit, jobVars, prodVars, fileVars>>

(* compress_job, outside the mutex. *)
WorkerCompress(w) ==
  LET s == Slot(wseq[w]) IN
  /\ wpc[w] = "compress"
  /\ \E res \in CompressJob(jres[s], RawOf(s)) : jres' = [jres EXCEPT ![s] = res]
  /\ wpc' = [wpc EXCEPT ![w] = "publish"]
  /\ UNCHANGED <<ringVars, jstate, jlen, jraw, wseq, prodVars, fileVars>>

(* Seeded fault: cv_done is not signalled. *)
WorkerPublishSilent(w) ==
  /\ wpc[w] = "publish"
  /\ jstate' = [jstate EXCEPT ![Slot(wseq[w])] = "DONE"]
  /\ wpc' = [wpc EXCEPT ![w] = "lock"]
  /\ UNCHANGED <<ringVars, jlen, jraw, jres, wseq, prodVars, fileVars>>

(* state = DONE and xq_cond_broadcast(&mt->cv_done). *)
WorkerPublish(w) ==
  /\ wpc[w] = "publish"
  /\ jstate' = [jstate EXCEPT ![Slot(wseq[w])] = "DONE"]
  /\ wpc' = [wpc EXCEPT ![w] = "lock"]
  /\ ppc' = IF ppc = "waitdone" THEN "emit" ELSE ppc
  /\ UNCHANGED <<ringVars, jlen, jraw, jres, wseq, ctx, cur, raw_len, rem, accepted, fileVars>>

(* pthread_cond_wait may return without a signal. *)
SpuriousWork(w) ==
  /\ wpc[w] = "wait"
  /\ wpc' = [wpc EXCEPT ![w] = "lock"]
  /\ UNCHANGED <<ringVars, jobVars, wseq, prodVars, fileVars>>

SpuriousDone ==
  /\ ppc = "waitdone"
  /\ ppc' = "emit"
  /\ UNCHANGED <<ringVars, jobVars, workVars, ctx, cur, raw_len, rem, accepted, fileVars>>

-----------------------------------------------------------------------------

CallerStep == (\E n \in WriteLens : WriteCall(n)) \/ FinishCall \/ FreeCall

ProducerStep ==
  \/ ThreadStartFails \/ (\E w \in Workers : ThreadStart(w)) \/ CreateReturns
  \/ Copy \/ MtSubmit \/ MakeRoom \/ SubmitReturns
  \/ EmitWait \/ EmitReady \/ EmitOne \/ FreeSlot
  \/ Drain \/ FinishReturns
  \/ MtDestroy \/ Join

WorkerStep(w) ==
  \/ WorkerWait(w) \/ WorkerExit(w) \/ WorkerClaim(w)
  \/ WorkerCompress(w) \/ WorkerPublish(w)

Spurious == SpuriousDone \/ \E w \in Workers : SpuriousWork(w)

Next ==
  \/ CallerStep
  \/ ProducerStep
  \/ \E w \in Workers : WorkerStep(w)
  \/ Spurious
  \/ Terminated

Spec == Init /\ [][Next]_vars

(* Each thread that can run does run: the operating system schedules them  *)
(* all, and every region under the mutex is short and never blocks.  The   *)
(* caller need not make another call, and spurious wake-ups need not come. *)
Fairness == WF_vars(ProducerStep) /\ \A w \in Workers : WF_vars(WorkerStep(w))

FairSpec == Spec /\ Fairness

-----------------------------------------------------------------------------
(* Correctness *)

Busy(w) == wpc[w] \in {"compress", "publish"}

(* The producer's buffer e->raw is in use: bytes of the next block are in  *)
(* it or may be copied into it.                                            *)
Filling == sticky = "OK" /\ ~finished /\ ppc \in {"create", "idle", "copy", "submit"}

Emitting == ppc \in {"emitjob", "freeslot"}

(* No two threads ever use the same slot outside the mutex: the workers    *)
(* compress different slots, none of them the one the producer fills and   *)
(* none the one it is writing to the sink, and the producer never fills    *)
(* the slot of a block that has not been emitted.  This is what makes the  *)
(* unlocked accesses to job buffers in xq_encoder.c free of data races.    *)
SlotExclusion ==
  /\ \A v, w \in Workers : v # w /\ Busy(v) /\ Busy(w) => Slot(wseq[v]) # Slot(wseq[w])
  /\ \A w \in Workers : Busy(w) /\ Filling => Slot(wseq[w]) # cur
  /\ \A w \in Workers : Busy(w) /\ Emitting => Slot(wseq[w]) # Slot(emit_seq)
  /\ Filling => jstate[cur] = "FREE"

(* What the sink has received is what the one-thread encoder writes for    *)
(* the same bytes: block after block in stream order, cut at block_size,   *)
(* each with its own raw_offset, payload and a checksum of that payload.   *)
(* (tests/test_threads.c compares whole outputs for a few thread counts.)  *)
OutputDeterministic ==
  \A k \in 1 .. Len(out) : out[k] = SerialBlock(k - 1, accepted)

(* A finish that succeeded left nothing behind in the ring or in e->raw:   *)
(* the blocks cover all accepted bytes, xq_encoder_raw_written says so,    *)
(* and the INDEX, the footer and the stream checksum describe exactly      *)
(* those blocks.                                                           *)
FinishedComplete ==
  finished =>
    /\ Start(Len(out) - 1) < accepted \/ Len(out) = 0
    /\ accepted <= Start(Len(out))
    /\ raw_offset + raw_len = accepted
    /\ trailer.total_raw = accepted
    /\ trailer.hashed = [k \in 1 .. Len(out) |-> out[k].data]
    /\ trailer.index_offset = IF Len(out) = 0 THEN 0 ELSE Len(out) + 1
    /\ Len(out) # 0 =>
         trailer.entries = [k \in 1 .. Len(out) + 1 |->
                              [file_offset |-> k - 1,
                               raw_offset  |-> Smaller(Start(k - 1), accepted)]]

(* No wake-up is lost: a submitted job always has a worker that is running *)
(* (mt_submit signals one waiter only), and the producer sleeps on cv_done *)
(* only while the job it waits for is not done.                            *)
NoLostWakeup ==
  /\ work_seq < fill_seq => \E w \in Workers : wpc[w] \in {"lock", "compress", "publish"}
  /\ ppc = "waitdone" => jstate[Slot(emit_seq)] # "DONE"

(* What the producer's position says about the status of the encoder and   *)
(* of its threads.                                                         *)
ControlInv ==
  /\ ppc \in {"create", "copy", "submit", "room", "emit", "waitdone", "emitjob", "drain", "trailer"} =>
       sticky = "OK" /\ ~finished
  /\ ppc = "freeslot" => ~finished
  /\ ppc \notin {"create", "destroy", "join", "freed"} => \A w \in Workers : wpc[w] # "off"
  /\ quit => ppc \in {"join", "freed"}
  /\ ~quit => \A w \in Workers : wpc[w] # "exit"

(* The three counters are in order and at most nslots apart, with a slot   *)
(* to spare while the producer fills one.                                  *)
CounterInv ==
  /\ emit_seq <= work_seq
  /\ work_seq <= fill_seq
  /\ fill_seq <= emit_seq + NSlots
  /\ Filling => fill_seq < emit_seq + NSlots /\ cur = Slot(fill_seq)
  /\ ppc \in {"emit", "waitdone", "emitjob", "freeslot"} => emit_seq < fill_seq
  /\ Emitting => jstate[Slot(emit_seq)] = "DONE"

(* A worker holds a claimed job that is neither done nor emitted, and no   *)
(* other worker holds it.                                                  *)
HolderInv ==
  /\ \A w \in Workers : Busy(w) =>
        /\ emit_seq <= wseq[w] /\ wseq[w] < work_seq
        /\ jstate[Slot(wseq[w])] = "READY"
  /\ \A v, w \in Workers : v # w /\ Busy(v) /\ Busy(w) => wseq[v] # wseq[w]

(* The slots in use are those of the sequence numbers from emit_seq to     *)
(* fill_seq - 1; one is DONE only after it was claimed, and one that is    *)
(* claimed and not DONE is held by a worker.                               *)
SlotStateInv ==
  /\ \A q \in emit_seq .. fill_seq - 1 :
        /\ jstate[Slot(q)] # "FREE"
        /\ jstate[Slot(q)] = "DONE" => q < work_seq
        /\ jstate[Slot(q)] = "READY" /\ q < work_seq => \E w \in Workers : Busy(w) /\ wseq[w] = q
  /\ \A s \in Slots : jstate[s] # "FREE" =>
        \E q \in emit_seq .. fill_seq - 1 : Slot(q) = s

(* The bookkeeping of the ring, the inductive invariant behind the others. *)
RingInv == ControlInv /\ CounterInv /\ HolderInv /\ SlotStateInv

(* Where the producer is in a call, and what is left in e->raw. *)
CallInv ==
  /\ ppc \in {"create", "copy"} => ctx = "write"
  /\ ppc = "copy" => raw_len < BlockSize /\ rem > 0
  /\ ppc \in {"create", "idle"} /\ sticky = "OK" /\ ~finished => ctx = "write" /\ raw_len < BlockSize
  /\ ppc = "submit" => raw_len > 0 /\ ctx # "drain" /\ (ctx = "write" => raw_len = BlockSize)
  /\ ppc = "room" => ctx # "drain"
  /\ ppc \in {"drain", "trailer"} => ctx = "drain"
  /\ ppc \in {"room", "emit", "waitdone", "emitjob", "freeslot", "drain", "trailer"} => raw_len = 0
  /\ ppc = "trailer" => emit_seq = fill_seq
  /\ finished => ctx = "drain" /\ raw_len = 0

(* The accepted bytes are those of the submitted blocks and of e->raw; a   *)
(* short block is submitted last.                                          *)
AcceptedInv ==
  /\ ctx = "write" \/ ppc = "submit" => accepted = Start(fill_seq) + raw_len
  /\ ctx # "write" => accepted <= Start(fill_seq) + raw_len
  /\ Filling => \A i \in 0 .. raw_len - 1 : jraw[cur][i] = Start(fill_seq) + i

(* The result of a job that went well is that of the bytes it covers. *)
GoodResult(q) ==
  [st |-> "OK", stored |-> Start(q) \in Incompressible, data |-> Span(Start(q), LenOf(q, accepted))]

(* Every pending slot holds the bytes of its block, and what the workers   *)
(* have made of it so far is right.                                        *)
PendingInv ==
  \A q \in emit_seq .. fill_seq - 1 :
    /\ Start(q) < accepted
    /\ jlen[Slot(q)] = LenOf(q, accepted)
    /\ RawOf(Slot(q)) = Span(Start(q), LenOf(q, accepted))
    /\ /\ jstate[Slot(q)] = "DONE" \/ \E w \in Workers : wpc[w] = "publish" /\ wseq[w] = q
       /\ jres[Slot(q)].st = "OK"
       => jres[Slot(q)] = GoodResult(q)

(* The file holds the blocks emitted so far, and the running totals agree. *)
WrittenInv ==
  /\ sticky = "OK" => Len(out) = IF ppc = "freeslot" THEN emit_seq + 1 ELSE emit_seq
  /\ \A k \in 1 .. Len(out) : Start(k - 1) < accepted
  /\ raw_offset = Smaller(Start(Len(out)), accepted)
  /\ stream_ck = [k \in 1 .. Len(out) |-> out[k].data]

(* The strengthening of OutputDeterministic that is inductive, together    *)
(* with RingInv: it follows the bytes from e->raw through the ring into    *)
(* the file.                                                               *)
OutputInv == CallInv /\ AcceptedInv /\ PendingInv /\ WrittenInv /\ OutputDeterministic

(* Once an error is recorded, or the file is finished, no later call       *)
(* changes it: the sticky status stays, no byte is accepted, no block or   *)
(* trailer reaches the sink, and a failed file is never reported finished. *)
EndIsFinal ==
  [][sticky # "OK" \/ finished =>
       UNCHANGED <<sticky, out, idx, finished, trailer, raw_offset, accepted, raw_len>>]_vars

(* Every call returns, whatever the workers do and whatever fails. *)
CallsReturn == ppc \notin {"idle", "freed"} ~> ppc \in {"idle", "freed"}

(* Freeing the handle ends all threads: mt_destroy's joins return. *)
FreeEndsWorkers == quit ~> (ppc = "freed" /\ \A w \in Workers : wpc[w] \in {"off", "exit"})

(* The threaded encoder implements BlockStream. *)
StreamStatus == IF finished THEN "finished" ELSE IF sticky = "OK" THEN "open" ELSE "failed"

Stream == INSTANCE BlockStream WITH closing <- ctx # "write", status <- StreamStatus

ImplementsStream == Stream!StreamSpec

=============================================================================
