----------------------------- MODULE ReaderCache -----------------------------
(***************************************************************************)
(* Concurrent xq_reader_pread calls on one handle (src/core/xq_reader.c):  *)
(* the block cache under cache_mu, the pool of decode slots under slot_mu  *)
(* and slot_cv, and the decoding of a block outside both.                  *)
(*                                                                         *)
(* The file is opened: its index was validated (xq_fmt_index_validate), so *)
(* the raw offsets of the blocks increase from 0.  Byte k of block b is    *)
(* the pair <<b, k>>, a buffer holding a decoded block is named by that    *)
(* block.  Nothing ties the raw_size in the header of a block to the next  *)
(* entry of the index: a block may be shorter than its entry, or longer.   *)
(*                                                                         *)
(* Granularity: a region under a mutex is one step, cut at xq_cond_wait;   *)
(* the two mutexes are never held together.  The read into the slot's      *)
(* staging buffer and the decoding out of it are two more steps: another   *)
(* thread that used the same buffer would come between them (the           *)
(* regression that docs/internals.md section 9 remembers).                 *)
(***************************************************************************)
EXTENDS Integers, Sequences, FiniteSets

CONSTANTS Threads,     \* the threads that share the handle
          NCache,      \* r->cache_n
          NSlots,      \* r->nslots
          NBlocks,     \* r->block_count
          RawOff,      \* raw_offset of the index entries, the sentinel included
          BlockLen,    \* raw_size in the header of each block
          Bad,         \* blocks that do not decode (checksum, header or payload,
                       \* or a raw_size above r->max_raw)
          Requests,    \* the [off, n] pairs the callers ask for
          MaxCalls     \* bound: calls per thread

Blocks == 0 .. NBlocks - 1
Entries == 0 .. NCache - 1
Slots == 0 .. NSlots - 1
None == -1

ASSUME PoolAssumption == NCache \in Nat \ {0} /\ NSlots \in Nat \ {0}

(* What xq_fmt_index_validate has checked. *)
ASSUME IndexAssumption ==
  /\ NBlocks \in Nat \ {0}
  /\ RawOff \in [0 .. NBlocks -> Nat]
  /\ RawOff[0] = 0
  /\ \A i, j \in 0 .. NBlocks : i < j => RawOff[i] < RawOff[j]

(* The length of a block is what its header says: decode_block_slot holds  *)
(* it against what was produced, not against the index.                    *)
ASSUME BlockAssumption == BlockLen \in [Blocks -> Nat] /\ Bad \subseteq Blocks

ASSUME ThreadsAssumption == IsFiniteSet(Threads) /\ MaxCalls \in Nat

ASSUME RequestAssumption == Requests \subseteq [off : Nat, n : Nat \ {0}]

VARIABLES cache,   \* r->cache: block, used, len and data of every entry
          clock,   \* r->clock
          hits, misses,
          busy,    \* slots[s].busy
          scbuf,   \* slots[s].cbuf: whose extent was read into it
          sraw,    \* slots[s].raw: which block was decoded into it
          pc,      \* where each thread is in xq_reader_pread
          req,     \* the off and n (clipped to the stream) of its call
          done,    \* done, in xq_reader_pread
          buf,     \* what has been copied to the caller's buffer
          bi,      \* the block being copied
          slot,    \* sl, in block_copy
          blen,    \* *blen_out of block_copy
          st,      \* the status of the call so far
          ret,     \* what the last call returned
          calls    \* calls left to each thread

cacheVars == <<cache, clock, hits, misses>>
slotVars  == <<busy, scbuf, sraw>>
callVars  == <<req, done, buf, bi, slot, blen, st, ret, calls>>
vars == <<cacheVars, slotVars, pc, callVars>>

Pc == {"idle", "lookup", "acquire", "waitslot", "fetch", "decode", "fill", "release", "advance"}

(* xq_status; a failing call returns the status with its sign changed. *)
OK == 0
ErrCorruptBlock == 34
ErrIO == 48
Errors == {ErrIO, ErrCorruptBlock}

Entry == [block : Blocks \cup {None}, used : Nat, len : Nat, data : Blocks \cup {None}]
Byte == Blocks \X Nat

(* The last line says that no memcpy runs past the caller's buffer. *)
TypeOK ==
  /\ cache \in [Entries -> Entry]
  /\ clock \in Nat /\ hits \in Nat /\ misses \in Nat
  /\ busy \in [Slots -> BOOLEAN]
  /\ scbuf \in [Slots -> Blocks \cup {None}]
  /\ sraw \in [Slots -> Blocks \cup {None}]
  /\ pc \in [Threads -> Pc]
  /\ req \in [Threads -> [off : Nat, n : Nat]]
  /\ done \in [Threads -> Nat]
  /\ buf \in [Threads -> Seq(Byte)]
  /\ bi \in [Threads -> Blocks]
  /\ slot \in [Threads -> Slots]
  /\ blen \in [Threads -> Nat]
  /\ st \in [Threads -> {OK} \cup Errors]
  /\ ret \in [Threads -> Int]
  /\ calls \in [Threads -> Nat]
  /\ \A t \in Threads : done[t] <= req[t].n /\ Len(buf[t]) <= req[t].n

(* setup_buffers: every entry empty, every slot free. *)
Init ==
  /\ cache = [i \in Entries |-> [block |-> None, used |-> 0, len |-> 0, data |-> None]]
  /\ clock = 0 /\ hits = 0 /\ misses = 0
  /\ busy = [s \in Slots |-> FALSE]
  /\ scbuf = [s \in Slots |-> None]
  /\ sraw = [s \in Slots |-> None]
  /\ pc = [t \in Threads |-> "idle"]
  /\ req = [t \in Threads |-> [off |-> 0, n |-> 0]]
  /\ done = [t \in Threads |-> 0]
  /\ buf = [t \in Threads |-> <<>>]
  /\ bi = [t \in Threads |-> 0]
  /\ slot = [t \in Threads |-> 0]
  /\ blen = [t \in Threads |-> 0]
  /\ st = [t \in Threads |-> OK]
  /\ ret = [t \in Threads |-> 0]
  /\ calls = [t \in Threads |-> MaxCalls]

-----------------------------------------------------------------------------

RawSize == RawOff[NBlocks]

(* xq_fmt_index_find on a valid index: the block that holds stream byte p. *)
IndexFind(p) == CHOOSE b \in Blocks : RawOff[b] <= p /\ p < RawOff[b + 1]

(* The offset of the byte wanted next, within its block. *)
Within(t) == req[t].off + done[t] - RawOff[bi[t]]

Smaller(a, b) == IF a <= b THEN a ELSE b

(* Seeded fault: take is not limited to what the caller asked for. *)
CopyOutWhole(t, within, d, len) ==
  IF within >= len THEN buf[t]
  ELSE SubSeq(buf[t], 1, done[t]) \o [k \in 1 .. len - within |-> <<d, within + k - 1>>]

(* memcpy of the wanted part of a buffer that holds len bytes of block d: *)
(* nothing when the block ends before the wanted byte.                    *)
CopyOut(t, within, d, len) ==
  IF within >= len THEN buf[t]
  ELSE SubSeq(buf[t], 1, done[t]) \o
       [k \in 1 .. Smaller(req[t].n - done[t], len - within) |-> <<d, within + k - 1>>]

(* The entry the lookup finds: the first one of the block. *)
Hits(b) == { i \in Entries : cache[i].block = b }
FirstHit(b) == CHOOSE i \in Hits(b) : \A j \in Hits(b) : i <= j

(* The order of the eviction loop: by age, then by position. *)
Before(i, j) == cache[i].used < cache[j].used \/ (cache[i].used = cache[j].used /\ i <= j)

(* Seeded fault: the comparison is the wrong way round. *)
VictimNewest == CHOOSE i \in Entries : \A j \in Entries : Before(j, i)

(* The least recently used entry, the first of them if several are unused. *)
Victim == CHOOSE i \in Entries : \A j \in Entries : Before(i, j)

FreeSlots == { s \in Slots : ~busy[s] }

(* xq_cond_signal(&r->slot_cv): the possible outcomes. *)
Signal(p) ==
  IF \E t \in Threads : p[t] = "waitslot"
  THEN { [p EXCEPT ![t] = "acquire"] : t \in {u \in Threads : p[u] = "waitslot"} }
  ELSE { p }

-----------------------------------------------------------------------------

(* xq_reader_pread is called.  A request past the end of the stream is     *)
(* answered 0 at once; one that reaches over the end is clipped.           *)
Call(t, r) ==
  /\ pc[t] = "idle"
  /\ calls[t] > 0
  /\ calls' = [calls EXCEPT ![t] = @ - 1]
  /\ done' = [done EXCEPT ![t] = 0]
  /\ buf' = [buf EXCEPT ![t] = <<>>]
  /\ st' = [st EXCEPT ![t] = OK]
  /\ ret' = [ret EXCEPT ![t] = 0]
  /\ req' = [req EXCEPT ![t] =
               [off |-> r.off,
                n   |-> IF r.off >= RawSize THEN 0 ELSE Smaller(r.n, RawSize - r.off)]]
  /\ IF r.off >= RawSize
     THEN UNCHANGED <<pc, bi>>
     ELSE /\ pc' = [pc EXCEPT ![t] = "lookup"]
          /\ bi' = [bi EXCEPT ![t] = IndexFind(r.off)]
  /\ UNCHANGED <<cacheVars, slotVars, slot, blen>>

(* block_copy finds the block in the cache and copies under cache_mu. *)
LookupHit(t) ==
  LET i == FirstHit(bi[t]) IN
  /\ pc[t] = "lookup"
  /\ Hits(bi[t]) # {}
  /\ cache' = [cache EXCEPT ![i].used = clock + 1]
  /\ clock' = clock + 1
  /\ hits' = hits + 1
  /\ buf' = [buf EXCEPT ![t] = CopyOut(t, Within(t), cache[i].data, cache[i].len)]
  /\ blen' = [blen EXCEPT ![t] = cache[i].len]
  /\ pc' = [pc EXCEPT ![t] = "advance"]
  /\ UNCHANGED <<misses, slotVars, req, done, bi, slot, st, ret, calls>>

LookupMiss(t) ==
  /\ pc[t] = "lookup"
  /\ Hits(bi[t]) = {}
  /\ pc' = [pc EXCEPT ![t] = "acquire"]
  /\ UNCHANGED <<cacheVars, slotVars, callVars>>

(* Seeded fault: the slot is not marked busy. *)
SlotAcquireUnmarked(t) ==
  LET s == CHOOSE s \in FreeSlots : \A u \in FreeSlots : s <= u IN
  /\ pc[t] = "acquire"
  /\ FreeSlots # {}
  /\ slot' = [slot EXCEPT ![t] = s]
  /\ pc' = [pc EXCEPT ![t] = "fetch"]
  /\ UNCHANGED <<cacheVars, slotVars, req, done, buf, bi, blen, st, ret, calls>>

(* slot_acquire takes the first slot that is free. *)
SlotAcquire(t) ==
  LET s == CHOOSE s \in FreeSlots : \A u \in FreeSlots : s <= u IN
  /\ pc[t] = "acquire"
  /\ FreeSlots # {}
  /\ busy' = [busy EXCEPT ![s] = TRUE]
  /\ slot' = [slot EXCEPT ![t] = s]
  /\ pc' = [pc EXCEPT ![t] = "fetch"]
  /\ UNCHANGED <<cacheVars, scbuf, sraw, req, done, buf, bi, blen, st, ret, calls>>

SlotWait(t) ==
  /\ pc[t] = "acquire"
  /\ FreeSlots = {}
  /\ pc' = [pc EXCEPT ![t] = "waitslot"]
  /\ UNCHANGED <<cacheVars, slotVars, callVars>>

(* Seeded fault, the regression of docs/internals.md: one staging buffer.  *)
StagingShared(s) == 0

(* The staging buffer decode_block_slot uses: the slot's own. *)
Staging(s) == s

(* decode_block_slot reads the block's extent into the slot's staging     *)
(* buffer.                                                                *)
Fetch(t) ==
  /\ pc[t] = "fetch"
  /\ scbuf' = [scbuf EXCEPT ![Staging(slot[t])] = bi[t]]
  /\ pc' = [pc EXCEPT ![t] = "decode"]
  /\ UNCHANGED <<cacheVars, busy, sraw, callVars>>

(* The read fails; the staging buffer holds a part of the extent. *)
FetchFails(t) ==
  /\ pc[t] = "fetch"
  /\ scbuf' = [scbuf EXCEPT ![Staging(slot[t])] = None]
  /\ st' = [st EXCEPT ![t] = ErrIO]
  /\ pc' = [pc EXCEPT ![t] = "release"]
  /\ UNCHANGED <<cacheVars, busy, sraw, req, done, buf, bi, slot, blen, ret, calls>>

(* The header in the staging buffer is the one of the block asked for, and *)
(* the block checks and decodes.                                           *)
DecodeOK(t) ==
  /\ pc[t] = "decode"
  /\ scbuf[Staging(slot[t])] = bi[t]
  /\ bi[t] \notin Bad
  /\ sraw' = [sraw EXCEPT ![slot[t]] = bi[t]]
  /\ pc' = [pc EXCEPT ![t] = "fill"]
  /\ UNCHANGED <<cacheVars, busy, scbuf, callVars>>

(* It does not; the output buffer may have been written in part.  All the  *)
(* statuses that a block may be refused with are one here.                 *)
DecodeFails(t) ==
  /\ pc[t] = "decode"
  /\ scbuf[Staging(slot[t])] # bi[t] \/ bi[t] \in Bad
  /\ sraw' = [sraw EXCEPT ![slot[t]] = None]
  /\ st' = [st EXCEPT ![t] = ErrCorruptBlock]
  /\ pc' = [pc EXCEPT ![t] = "release"]
  /\ UNCHANGED <<cacheVars, busy, scbuf, req, done, buf, bi, slot, blen, ret, calls>>

(* Back under cache_mu: the decoded block replaces the least recently used *)
(* entry, even when another thread has cached the same block meanwhile,    *)
(* and is copied out from there.                                           *)
Fill(t) ==
  /\ pc[t] = "fill"
  /\ cache' = [cache EXCEPT ![Victim] = [block |-> bi[t], used |-> clock + 1,
                                         len |-> BlockLen[bi[t]], data |-> sraw[slot[t]]]]
  /\ clock' = clock + 1
  /\ misses' = misses + 1
  /\ buf' = [buf EXCEPT ![t] = CopyOut(t, Within(t), sraw[slot[t]], BlockLen[bi[t]])]
  /\ blen' = [blen EXCEPT ![t] = BlockLen[bi[t]]]
  /\ pc' = [pc EXCEPT ![t] = "release"]
  /\ UNCHANGED <<hits, slotVars, req, done, bi, slot, st, ret, calls>>

(* Where block_copy returns to: an error ends the call. *)
AfterRelease(t) == IF st[t] = OK THEN "advance" ELSE "idle"

(* Seeded fault: an error path leaves the slot busy. *)
SlotReleaseLeaks(t) ==
  /\ pc[t] = "release"
  /\ busy' = [busy EXCEPT ![slot[t]] = st[t] # OK]
  /\ pc' \in Signal([pc EXCEPT ![t] = AfterRelease(t)])
  /\ ret' = IF st[t] = OK THEN ret ELSE [ret EXCEPT ![t] = -st[t]]
  /\ UNCHANGED <<cacheVars, scbuf, sraw, req, done, buf, bi, slot, blen, st, calls>>

(* Seeded fault: slot_cv is not signalled. *)
SlotReleaseSilent(t) ==
  /\ pc[t] = "release"
  /\ busy' = [busy EXCEPT ![slot[t]] = FALSE]
  /\ pc' = [pc EXCEPT ![t] = AfterRelease(t)]
  /\ ret' = IF st[t] = OK THEN ret ELSE [ret EXCEPT ![t] = -st[t]]
  /\ UNCHANGED <<cacheVars, scbuf, sraw, req, done, buf, bi, slot, blen, st, calls>>

(* slot_release, on the way out of block_copy. *)
SlotRelease(t) ==
  /\ pc[t] = "release"
  /\ busy' = [busy EXCEPT ![slot[t]] = FALSE]
  /\ pc' \in Signal([pc EXCEPT ![t] = AfterRelease(t)])
  /\ ret' = IF st[t] = OK THEN ret ELSE [ret EXCEPT ![t] = -st[t]]
  /\ UNCHANGED <<cacheVars, scbuf, sraw, req, done, buf, bi, slot, blen, st, calls>>

(* The block ended before the wanted byte. *)
AdvanceShort(t) ==
  /\ pc[t] = "advance"
  /\ Within(t) >= blen[t]
  /\ ret' = [ret EXCEPT ![t] = -ErrCorruptBlock]
  /\ pc' = [pc EXCEPT ![t] = "idle"]
  /\ UNCHANGED <<cacheVars, slotVars, req, done, buf, bi, slot, blen, st, calls>>

(* Seeded fault: the bytes from the start of the block count. *)
TookWhole(t) == Smaller(blen[t], req[t].n - done[t])

(* took, computed once more by xq_reader_pread. *)
Took(t) == Smaller(blen[t] - Within(t), req[t].n - done[t])

AdvanceNext(t) ==
  /\ pc[t] = "advance"
  /\ Within(t) < blen[t]
  /\ done[t] + Took(t) < req[t].n
  /\ done' = [done EXCEPT ![t] = @ + Took(t)]
  /\ bi' = [bi EXCEPT ![t] = IndexFind(req[t].off + done[t] + Took(t))]
  /\ pc' = [pc EXCEPT ![t] = "lookup"]
  /\ UNCHANGED <<cacheVars, slotVars, req, buf, slot, blen, st, ret, calls>>

AdvanceDone(t) ==
  /\ pc[t] = "advance"
  /\ Within(t) < blen[t]
  /\ done[t] + Took(t) >= req[t].n
  /\ done' = [done EXCEPT ![t] = @ + Took(t)]
  /\ ret' = [ret EXCEPT ![t] = done[t] + Took(t)]
  /\ pc' = [pc EXCEPT ![t] = "idle"]
  /\ UNCHANGED <<cacheVars, slotVars, req, buf, bi, slot, blen, st, calls>>

(* pthread_cond_wait may return without a signal. *)
SpuriousWake(t) ==
  /\ pc[t] = "waitslot"
  /\ pc' = [pc EXCEPT ![t] = "acquire"]
  /\ UNCHANGED <<cacheVars, slotVars, callVars>>

-----------------------------------------------------------------------------

Step(t) ==
  \/ LookupHit(t) \/ LookupMiss(t)
  \/ SlotAcquire(t) \/ SlotWait(t)
  \/ Fetch(t) \/ FetchFails(t) \/ DecodeOK(t) \/ DecodeFails(t)
  \/ Fill(t) \/ SlotRelease(t)
  \/ AdvanceShort(t) \/ AdvanceNext(t) \/ AdvanceDone(t)

(* Every thread is idle, its calls used up. *)
Terminated == /\ \A t \in Threads : pc[t] = "idle" /\ calls[t] = 0
              /\ UNCHANGED vars

Next ==
  \/ \E t \in Threads : (\E r \in Requests : Call(t, r)) \/ Step(t) \/ SpuriousWake(t)
  \/ Terminated

Spec == Init /\ [][Next]_vars

(* A thread inside a call keeps running: the regions under the mutexes are *)
(* short, and the operating system schedules every thread.                 *)
Fairness == \A t \in Threads : WF_vars(Step(t))

FairSpec == Spec /\ Fairness

-----------------------------------------------------------------------------
(* Correctness *)

(* Byte p of the stream, out of block b. *)
ByteOf(b, p) == <<b, p - RawOff[b]>>

(* The byte at p that the index promises. *)
StreamByte(p) == ByteOf(IndexFind(p), p)

(* Block b holds a byte for p, or more bytes or fewer than its entry says. *)
Reaches(b, p) == RawOff[b] <= p /\ p < RawOff[b] + BlockLen[b]
Long(b)  == BlockLen[b] > RawOff[b + 1] - RawOff[b]
Short(b) == BlockLen[b] < RawOff[b + 1] - RawOff[b]

(* Byte k of a read comes from the block that the byte before it came from *)
(* while that block lasts, and only then from the one the index names.     *)
From(t, k) ==
  LET p == req[t].off + k - 1 IN
  IF k > 1 /\ Reaches(buf[t][k - 1][1], p) THEN buf[t][k - 1][1] ELSE IndexFind(p)

Holds(t) == pc[t] \in {"fetch", "decode", "fill", "release"}

(* Whatever the other threads evict, decode or cache meanwhile, the bytes  *)
(* in the caller's buffer are a matter of the file and the offset alone    *)
(* (From), and a call that succeeds has copied all of them.  They are      *)
(* those that the index promises, save where a block is longer than its    *)
(* entry: what it has too much stands for the bytes that follow.           *)
BytesRight ==
  \A t \in Threads :
    /\ \A k \in 1 .. Len(buf[t]) :
         LET p == req[t].off + k - 1 IN
         /\ buf[t][k] = ByteOf(From(t, k), p)
         /\ \/ buf[t][k] = StreamByte(p)
            \/ Long(From(t, k)) /\ p >= RawOff[From(t, k) + 1]
    /\ pc[t] = "idle" /\ ret[t] >= 0 => ret[t] = req[t].n /\ Len(buf[t]) = req[t].n

(* A call fails with XQ_ERR_CORRUPT_BLOCK only when a block its range      *)
(* touches is damaged, never because of what another thread was decoding.  *)
NoSpuriousCorruption ==
  \A t \in Threads :
    pc[t] = "idle" /\ ret[t] = -ErrCorruptBlock =>
      \E b \in Blocks :
        /\ b \in Bad \/ Short(b)
        /\ RawOff[b] < req[t].off + req[t].n
        /\ req[t].off < RawOff[b + 1]

(* Each busy slot is in the hands of exactly one thread, and each slot a   *)
(* thread uses is busy: none is shared, none is lost on an error path.     *)
SlotOwnership ==
  /\ \A t \in Threads : Holds(t) => busy[slot[t]]
  /\ \A t, u \in Threads : t # u /\ Holds(t) /\ Holds(u) => slot[t] # slot[u]
  /\ \A s \in Slots : busy[s] => \E t \in Threads : Holds(t) /\ slot[t] = s

(* The bytes block_copy adds to those already in the caller's buffer. *)
Added(t) == IF Within(t) < BlockLen[bi[t]]
            THEN Smaller(req[t].n - done[t], BlockLen[bi[t]] - Within(t)) ELSE 0

(* Copied(t): block_copy has copied out of block bi[t]. *)
Copied(t) == pc[t] = "advance" \/ (pc[t] = "release" /\ st[t] = OK)

(* Where a call stands: it is after the byte off + done, which is in block *)
(* bi; the caller's buffer holds done bytes, or those block_copy has added *)
(* to them; the slot of a decoding thread holds what that thread put       *)
(* there; and a block found damaged is damaged.                            *)
CallInvOf(t) ==
  /\ pc[t] # "idle" =>
       /\ done[t] < req[t].n
       /\ req[t].off + req[t].n <= RawSize
       /\ RawOff[bi[t]] <= req[t].off + done[t] /\ req[t].off + done[t] < RawOff[bi[t] + 1]
       /\ Len(buf[t]) = IF Copied(t) THEN done[t] + Added(t) ELSE done[t]
       /\ pc[t] # "release" => st[t] = OK
  /\ Copied(t) => blen[t] = BlockLen[bi[t]]
  /\ pc[t] = "release" /\ st[t] = ErrCorruptBlock => bi[t] \in Bad
  /\ pc[t] = "decode" => scbuf[Staging(slot[t])] = bi[t]
  /\ pc[t] = "fill" => sraw[slot[t]] = bi[t] /\ bi[t] \notin Bad

CallInv == \A t \in Threads : CallInvOf(t)

(* An entry in use holds a whole good block; the two clocks agree, so no   *)
(* two entries have the same age and the eviction order is total.          *)
CacheSound ==
  /\ \A i \in Entries :
       IF cache[i].block = None
       THEN cache[i].used = 0
       ELSE /\ cache[i].data = cache[i].block
            /\ cache[i].len = BlockLen[cache[i].block]
            /\ cache[i].block \notin Bad
            /\ cache[i].used \in 1 .. clock
  /\ \A i, j \in Entries : i # j /\ cache[i].used = cache[j].used => cache[i].used = 0
  /\ clock = hits + misses

(* No thread sleeps on slot_cv while a slot it could have is free and no   *)
(* woken thread is on its way to it: slot_release signals once per slot.   *)
SlotSignalled ==
  (\E t \in Threads : pc[t] = "waitslot") =>
    Cardinality(FreeSlots) <= Cardinality({t \in Threads : pc[t] = "acquire"})

(* A block is evicted only after the cache was used at least r->cache_n    *)
(* times, that eviction included, since the block itself was.              *)
RetentionDepth ==
  [][\A i \in Entries :
       cache[i].block # None /\ cache'[i].block # cache[i].block =>
         clock' >= cache[i].used + NCache]_vars

(* Every call returns: slots come back, and no waiting thread is left. *)
PreadReturns == \A t \in Threads : pc[t] # "idle" ~> pc[t] = "idle"

=============================================================================
