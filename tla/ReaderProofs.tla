---------------------------- MODULE ReaderProofs ----------------------------
(***************************************************************************)
(* Theorems about ReaderCache, for every number of threads, entries, slots *)
(* and blocks and every request, and about xq_reader_verify beside any     *)
(* number of reads (ReaderVerify).                                         *)
(*                                                                         *)
(* The inductive invariant is IInv: types, who holds which slot, what a    *)
(* call has copied so far, and what the cache holds.  The answers of the   *)
(* calls (BytesRight, NoSpuriousCorruption) rest on it.                    *)
(***************************************************************************)
EXTENDS ReaderVerify, SequenceTheorems, FiniteSetTheorems, WellFoundedInduction, TLAPS

-----------------------------------------------------------------------------
(* A loop that looks for the first of several positions (slot_acquire, the *)
(* cache lookup) stops at one: a set of naturals has a least element.      *)
LEMMA NatMin ==
  ASSUME NEW S \in SUBSET Nat, S # {}
  PROVE  \E m \in S : \A k \in S : m <= k
<1> DEFINE R == {ss \in Nat \X Nat : ss[1] < ss[2]}
<1>1. IsWellFoundedOn(R, Nat)
  BY NatLessThanWellFounded DEF OpToRel
<1>2. \A k, m \in Nat : k < m => <<k, m>> \in R
  OBVIOUS
<1> HIDE DEF R
<1>3. PICK m \in S : \A k \in S : ~(<<k, m>> \in R)
  BY <1>1, WFMin
<1>4. \A k \in S : ~(k < m)
  BY <1>2, <1>3
<1> QED BY <1>4

(* The binary search for the last entry that is not past an offset, and a  *)
(* scan for the largest of several numbers, stop at one: a set of naturals *)
(* with an upper bound has a greatest element.                             *)
LEMMA NatMax ==
  ASSUME NEW S \in SUBSET Nat, S # {}, NEW n \in Nat, \A k \in S : k <= n
  PROVE  \E m \in S : \A k \in S : k <= m
<1> DEFINE D == { n - k : k \in S }
<1>1. D \in SUBSET Nat /\ D # {}
  <2>1. \A k \in S : n - k \in Nat
    OBVIOUS
  <2>2. D \subseteq Nat
    BY <2>1
  <2>3. PICK k \in S : TRUE
    OBVIOUS
  <2>4. n - k \in D
    BY <2>3
  <2> QED BY <2>2, <2>4
<1>2. PICK d \in D : \A e \in D : d <= e
  <2> HIDE DEF D
  <2> QED BY <1>1, NatMin
<1>3. PICK m \in S : d = n - m
  OBVIOUS
<1>4. ASSUME NEW k \in S PROVE k <= m
  <2>1. n - k \in D
    OBVIOUS
  <2>2. n - m <= n - k
    BY <2>1, <1>2, <1>3
  <2> QED BY <2>2
<1> QED BY <1>4

IInv == TypeOK /\ SlotOwnership /\ CallInv /\ CacheSound


-----------------------------------------------------------------------------
(* The operators *)

(* xq_fmt_index_find: a byte of the stream is in the block found for it. *)
LEMMA BlockOf ==
  ASSUME NEW p \in Nat, p < RawSize
  PROVE  /\ IndexFind(p) \in Blocks
         /\ RawOff[IndexFind(p)] <= p
         /\ p < RawOff[IndexFind(p) + 1]
<1> USE IndexAssumption
<1> DEFINE S == { i \in 0 .. NBlocks : RawOff[i] <= p }
<1>1. S \in SUBSET Nat /\ 0 \in S /\ \A i \in S : i <= NBlocks
  OBVIOUS
<1>2. PICK m \in S : \A k \in S : k <= m
  <2> HIDE DEF S
  <2> QED BY <1>1, NatMax
<1>3. m \in Blocks
  BY <1>2 DEF RawSize, Blocks
<1>4. RawOff[m] <= p /\ p < RawOff[m + 1]
  <2>1. m + 1 \in 0 .. NBlocks /\ m + 1 \notin S
    BY <1>2, <1>3 DEF Blocks
  <2> QED BY <2>1, <1>2
<1> QED BY <1>3, <1>4 DEF IndexFind

(* ... and it is the only one. *)
LEMMA BlockUnique ==
  ASSUME NEW p \in Nat, NEW b \in Blocks, RawOff[b] <= p, p < RawOff[b + 1]
  PROVE  IndexFind(p) = b
<1> USE IndexAssumption
<1>1. p < RawSize
  <2>1. RawOff[b + 1] <= RawOff[NBlocks]
    BY DEF Blocks
  <2> QED BY <2>1 DEF RawSize, Blocks
<1>2. ASSUME NEW c \in Blocks, RawOff[c] <= p, p < RawOff[c + 1]
      PROVE  c = b
  <2>1. CASE c < b
    <3>1. RawOff[c + 1] <= RawOff[b]
      BY <2>1 DEF Blocks
    <3> QED BY <3>1, <1>2 DEF Blocks
  <2>2. CASE b < c
    <3>1. RawOff[b + 1] <= RawOff[c]
      BY <2>2 DEF Blocks
    <3> QED BY <3>1, <1>2 DEF Blocks
  <2> QED BY <2>1, <2>2 DEF Blocks
<1> QED BY <1>1, <1>2, BlockOf

(* The lookup loop of block_copy stops at an entry of the block. *)
LEMMA FirstHitIs ==
  ASSUME NEW b, Hits(b) # {}
  PROVE  FirstHit(b) \in Entries /\ cache[FirstHit(b)].block = b
<1> USE PoolAssumption
<1>1. Hits(b) \in SUBSET Nat
  BY DEF Hits, Entries
<1>2. \E i \in Hits(b) : \A j \in Hits(b) : i <= j
  BY <1>1, NatMin
<1>3. FirstHit(b) \in Hits(b)
  BY <1>2 DEF FirstHit
<1> QED BY <1>3 DEF Hits

(* The scan of slot_acquire stops at a free slot. *)
LEMMA FirstFreeIs ==
  ASSUME FreeSlots # {}
  PROVE  (CHOOSE s \in FreeSlots : \A u \in FreeSlots : s <= u) \in FreeSlots
<1> USE PoolAssumption
<1>1. FreeSlots \in SUBSET Nat
  BY DEF FreeSlots, Slots
<1>2. \E s \in FreeSlots : \A u \in FreeSlots : s <= u
  BY <1>1, NatMin
<1> QED BY <1>2

(* The eviction scan stops at an entry that is at least as old as any. *)
LEMMA VictimIs ==
  ASSUME TypeOK
  PROVE  Victim \in Entries /\ \A j \in Entries : cache[Victim].used <= cache[j].used
<1> USE PoolAssumption
<1> DEFINE U == { cache[i].used : i \in Entries }
<1>1. \A i \in Entries : cache[i].used \in Nat
  BY DEF TypeOK, Entry
<1>2. U \in SUBSET Nat /\ U # {}
  <2>1. 0 \in Entries
    BY DEF Entries
  <2>2. cache[0].used \in U
    BY <2>1
  <2> QED BY <1>1, <2>2
<1>3. PICK u \in U : \A v \in U : u <= v
  <2> HIDE DEF U
  <2> QED BY <1>2, NatMin
<1> DEFINE O == { i \in Entries : cache[i].used = u }
<1>4. O \in SUBSET Nat /\ O # {}
  BY <1>3 DEF Entries
<1>5. PICK i \in O : \A j \in O : i <= j
  <2> HIDE DEF O
  <2> QED BY <1>4, NatMin
<1>6. \A j \in Entries : u <= cache[j].used
  BY <1>3
<1>7. i \in Entries /\ \A j \in Entries : Before(i, j)
  BY <1>1, <1>5, <1>6 DEF Before, Entries
<1>8. Victim \in Entries /\ \A j \in Entries : Before(Victim, j)
  BY <1>7 DEF Victim
<1> QED BY <1>1, <1>8 DEF Before

(* xq_cond_signal moves at most one thread, from the wait to the mutex. *)
LEMMA SignalIs ==
  ASSUME NEW p \in [Threads -> Pc], NEW q \in Signal(p)
  PROVE  /\ q \in [Threads -> Pc]
         /\ \A u \in Threads : p[u] # "waitslot" => q[u] = p[u]
         /\ \A u \in Threads : p[u] = "waitslot" => q[u] \in {"waitslot", "acquire"}
BY DEF Signal, Pc

(* A function on 1 .. m is a sequence of length m. *)
LEMMA FcnIsSeq ==
  ASSUME NEW S, NEW m \in Nat, NEW f \in [1 .. m -> S]
  PROVE  f \in Seq(S) /\ Len(f) = m
OBVIOUS

(* Appending to a prefix, element by element. *)
LEMMA ConcatIs ==
  ASSUME NEW S, NEW a \in Seq(S), NEW c \in Seq(S)
  PROVE  /\ a \o c \in Seq(S)
         /\ Len(a \o c) = Len(a) + Len(c)
         /\ \A k \in 1 .. Len(a) : (a \o c)[k] = a[k]
         /\ \A k \in Len(a) + 1 .. Len(a) + Len(c) : (a \o c)[k] = c[k - Len(a)]
<1>1. Len(a) \in Nat /\ Len(c) \in Nat
  OBVIOUS
<1> QED BY <1>1, ConcatProperties

(* The number of bytes one memcpy of block_copy moves. *)
Take(t, within, len) ==
  IF within < len THEN Smaller(req[t].n - done[t], len - within) ELSE 0

(* What memcpy leaves in the caller's buffer. *)
LEMMA CopyOutIs ==
  ASSUME NEW t \in Threads, NEW within \in Nat, NEW d \in Blocks, NEW len \in Nat,
         buf[t] \in Seq(Byte), done[t] \in Nat, Len(buf[t]) = done[t],
         req[t].n \in Nat, done[t] < req[t].n
  PROVE  /\ CopyOut(t, within, d, len) \in Seq(Byte)
         /\ Len(CopyOut(t, within, d, len)) = done[t] + Take(t, within, len)
         /\ Take(t, within, len) \in Nat
         /\ done[t] + Take(t, within, len) <= req[t].n
         /\ \A k \in 1 .. done[t] : CopyOut(t, within, d, len)[k] = buf[t][k]
         /\ \A k \in done[t] + 1 .. done[t] + Take(t, within, len) :
               CopyOut(t, within, d, len)[k] = <<d, within + (k - done[t]) - 1>>
         /\ within + Take(t, within, len) <= len \/ Take(t, within, len) = 0
<1>1. CASE within >= len
  BY <1>1 DEF CopyOut, Take
<1>2. CASE within < len
  <2>1. PICK m \in Nat : m = Smaller(req[t].n - done[t], len - within)
    BY <1>2 DEF Smaller
  <2>2. m > 0 /\ done[t] + m <= req[t].n /\ within + m <= len
    BY <1>2, <2>1 DEF Smaller
  <2>3. PICK s : s = SubSeq(buf[t], 1, done[t])
    OBVIOUS
  <2>4. s \in Seq(Byte) /\ Len(s) = done[t] /\ \A k \in 1 .. done[t] : s[k] = buf[t][k]
    BY <2>3
  <2>5. PICK c : c = [k \in 1 .. m |-> <<d, within + k - 1>>]
    OBVIOUS
  <2>6. \A k \in 1 .. m : <<d, within + k - 1>> \in Byte
    BY <2>1 DEF Byte
  <2>7. c \in [1 .. m -> Byte] /\ \A k \in 1 .. m : c[k] = <<d, within + k - 1>>
    BY <2>5, <2>6
  <2>8. c \in Seq(Byte) /\ Len(c) = m
    BY <2>7, FcnIsSeq
  <2>9. /\ s \o c \in Seq(Byte)
        /\ Len(s \o c) = done[t] + m
        /\ \A k \in 1 .. done[t] : (s \o c)[k] = s[k]
        /\ \A k \in done[t] + 1 .. done[t] + m : (s \o c)[k] = c[k - done[t]]
    <3>1. s \in Seq(Byte) /\ c \in Seq(Byte) /\ Len(s) = done[t] /\ Len(c) = m
      BY <2>4, <2>8
    <3>2. /\ s \o c \in Seq(Byte)
          /\ Len(s \o c) = Len(s) + Len(c)
          /\ \A k \in 1 .. Len(s) : (s \o c)[k] = s[k]
          /\ \A k \in Len(s) + 1 .. Len(s) + Len(c) : (s \o c)[k] = c[k - Len(s)]
      BY <3>1, ConcatIs
    <3> QED BY <3>1, <3>2
  <2>10. \A k \in done[t] + 1 .. done[t] + m : k - done[t] \in 1 .. m
    OBVIOUS
  <2>11. CopyOut(t, within, d, len) = s \o c
    <3>1. ~ (within >= len)
      BY <1>2
    <3> QED BY <3>1, <2>1, <2>3, <2>5, Zenon DEF CopyOut
  <2>12. \A k \in 1 .. done[t] : (s \o c)[k] = buf[t][k]
    BY <2>4, <2>9, Zenon
  <2>13. \A k \in done[t] + 1 .. done[t] + m :
           (s \o c)[k] = <<d, within + (k - done[t]) - 1>>
    BY <2>7, <2>9, <2>10, Zenon
  <2>14. m = Take(t, within, len)
    BY <1>2, <2>1 DEF Take
  <2> QED BY <2>2, <2>9, <2>11, <2>12, <2>13, <2>14, Zenon
<1>3. within >= len \/ within < len
  OBVIOUS
<1> QED BY <1>1, <1>2, <1>3

-----------------------------------------------------------------------------
(* What the invariant says inside a call *)

(* The byte wanted next is in the block being copied. *)
LEMMA CallFacts ==
  ASSUME TypeOK, CallInv, NEW t \in Threads, pc[t] # "idle"
  PROVE  /\ bi[t] \in Blocks /\ bi[t] + 1 \in 0 .. NBlocks
         /\ req[t].off \in Nat /\ req[t].n \in Nat /\ done[t] \in Nat
         /\ done[t] < req[t].n
         /\ req[t].off + done[t] = RawOff[bi[t]] + Within(t)
         /\ Within(t) \in Nat
         /\ Within(t) < RawOff[bi[t] + 1] - RawOff[bi[t]]
         /\ BlockLen[bi[t]] \in Nat
         /\ RawOff[bi[t]] \in Nat /\ RawOff[bi[t] + 1] \in Nat
<1>1. bi[t] \in Blocks /\ bi[t] + 1 \in 0 .. NBlocks /\ bi[t] \in 0 .. NBlocks
  BY SMTT(30), IndexAssumption DEF TypeOK, Blocks
<1>2. req[t].off \in Nat /\ req[t].n \in Nat /\ done[t] \in Nat
  BY DEF TypeOK
<1>3. BlockLen[bi[t]] \in Nat /\ RawOff[bi[t]] \in Nat /\ RawOff[bi[t] + 1] \in Nat
  BY <1>1, IndexAssumption, BlockAssumption
<1>4. /\ done[t] < req[t].n
      /\ RawOff[bi[t]] <= req[t].off + done[t]
      /\ req[t].off + done[t] < RawOff[bi[t] + 1]
  BY DEF CallInv, CallInvOf
<1>5. Within(t) = req[t].off + done[t] - RawOff[bi[t]]
  BY DEF Within
<1> QED BY <1>1, <1>2, <1>3, <1>4, <1>5

(* What block_copy makes of the caller's buffer when all is well. *)
NewBuf(t) == CopyOut(t, Within(t), bi[t], BlockLen[bi[t]])

(* The bytes one memcpy adds end within the block and the request. *)
LEMMA AddedFacts ==
  ASSUME TypeOK, CallInv, NEW t \in Threads, pc[t] \in {"lookup", "fill"}
  PROVE  /\ NewBuf(t) \in Seq(Byte)
         /\ Len(NewBuf(t)) = done[t] + Added(t)
         /\ Added(t) \in Nat
         /\ done[t] + Added(t) <= req[t].n
         /\ \A k \in 1 .. done[t] : NewBuf(t)[k] = buf[t][k]
         /\ \A k \in done[t] + 1 .. done[t] + Added(t) :
               NewBuf(t)[k] = <<bi[t], Within(t) + (k - done[t]) - 1>>
         /\ Within(t) + Added(t) <= BlockLen[bi[t]] \/ Added(t) = 0
<1>1. Added(t) = Take(t, Within(t), BlockLen[bi[t]])
  BY DEF Added, Take
<1>2. buf[t] \in Seq(Byte)
  BY DEF TypeOK
<1>3. pc[t] # "idle" /\ ~ Copied(t)
  BY DEF Copied
<1>4. Len(buf[t]) = done[t]
  BY <1>3 DEF CallInv, CallInvOf
<1>5. /\ bi[t] \in Blocks /\ Within(t) \in Nat /\ BlockLen[bi[t]] \in Nat
      /\ done[t] \in Nat /\ req[t].n \in Nat /\ done[t] < req[t].n
  BY <1>3, CallFacts
<1> DEFINE b == CopyOut(t, Within(t), bi[t], BlockLen[bi[t]])
           m == Take(t, Within(t), BlockLen[bi[t]])
<1>6. /\ b \in Seq(Byte)
      /\ Len(b) = done[t] + m
      /\ m \in Nat
      /\ done[t] + m <= req[t].n
      /\ \A k \in 1 .. done[t] : b[k] = buf[t][k]
      /\ \A k \in done[t] + 1 .. done[t] + m : b[k] = <<bi[t], Within(t) + (k - done[t]) - 1>>
      /\ Within(t) + m <= BlockLen[bi[t]] \/ m = 0
  BY ZenonT(30), <1>2, <1>4, <1>5, CopyOutIs
<1>7. NewBuf(t) = b /\ Added(t) = m
  BY <1>1 DEF NewBuf
<1> HIDE DEF b, m
<1> QED BY <1>6, <1>7, Zenon

(* A cache hit copies the block asked for. *)
LEMMA HitFacts ==
  ASSUME TypeOK, CacheSound, NEW t \in Threads, Hits(bi[t]) # {}
  PROVE  /\ FirstHit(bi[t]) \in Entries
         /\ cache[FirstHit(bi[t])].block = bi[t]
         /\ cache[FirstHit(bi[t])].data = bi[t]
         /\ cache[FirstHit(bi[t])].len = BlockLen[bi[t]]
<1>1. bi[t] \in Blocks /\ bi[t] # None
  BY IndexAssumption DEF TypeOK, Blocks, None
<1>2. FirstHit(bi[t]) \in Entries /\ cache[FirstHit(bi[t])].block = bi[t]
  BY FirstHitIs
<1> QED BY <1>1, <1>2 DEF CacheSound

(* AdvanceNext and AdvanceDone count the bytes block_copy has copied. *)
LEMMA TookFacts ==
  ASSUME TypeOK, CallInv, NEW t \in Threads, pc[t] = "advance", Within(t) < blen[t]
  PROVE  Took(t) = Added(t) /\ Took(t) \in Nat \ {0} /\ done[t] + Took(t) <= req[t].n
<1>1. blen[t] = BlockLen[bi[t]]
  BY DEF CallInv, CallInvOf, Copied
<1> QED BY <1>1, CallFacts DEF Took, Added, Smaller

-----------------------------------------------------------------------------
(* TypeOK *)

(* The handle setup_buffers leaves is well typed ... *)
LEMMA TypeInit == Init => TypeOK
<1> SUFFICES ASSUME Init PROVE TypeOK
  OBVIOUS
<1>1. 0 \in Blocks /\ 0 \in Slots
  BY IndexAssumption, PoolAssumption DEF Blocks, Slots
<1>2. [block |-> None, used |-> 0, len |-> 0, data |-> None] \in Entry
  BY DEF Entry
<1>3. <<>> \in Seq(Byte) /\ Len(<<>>) = 0
  OBVIOUS
<1> QED BY <1>1, <1>2, <1>3, ThreadsAssumption DEF Init, TypeOK, Pc, OK

(* ... and stays so: no copy of block_copy runs past the caller's buffer. *)
LEMMA TypeStep ==
  ASSUME IInv, [Next]_vars
  PROVE  TypeOK'
<1> USE DEF IInv
<1>1. ASSUME NEW t \in Threads, NEW r \in Requests, Call(t, r)
      PROVE  TypeOK'
  <2>1. r.off \in Nat /\ r.n \in Nat
    BY RequestAssumption
  <2>2. RawSize \in Nat
    BY IndexAssumption DEF RawSize
  <2>3. [off |-> r.off, n |-> IF r.off >= RawSize THEN 0 ELSE Smaller(r.n, RawSize - r.off)]
          \in [off : Nat, n : Nat]
    BY <2>1, <2>2 DEF Smaller
  <2>4. r.off < RawSize => IndexFind(r.off) \in Blocks
    BY <2>1, BlockOf
  <2>5. bi' \in [Threads -> Blocks] /\ pc' \in [Threads -> Pc]
    <3>1. CASE r.off >= RawSize
      BY <1>1, <3>1 DEF Call, TypeOK, Pc
    <3>2. CASE r.off < RawSize
      <4>1. ~ (r.off >= RawSize)
        BY <3>2, <2>1, <2>2
      <4>2. bi' = [bi EXCEPT ![t] = IndexFind(r.off)] /\ pc' = [pc EXCEPT ![t] = "lookup"]
        BY <1>1, <4>1 DEF Call
      <4> QED BY <4>2, <3>2, <2>4 DEF TypeOK, Pc
    <3> QED BY <3>1, <3>2, <2>1, <2>2
  <2>6. req' \in [Threads -> [off : Nat, n : Nat]]
    BY <1>1, <2>3 DEF Call, TypeOK
  <2>7. <<>> \in Seq(Byte) /\ Len(<<>>) = 0
    OBVIOUS
  <2>8. buf' \in [Threads -> Seq(Byte)] /\ done' \in [Threads -> Nat] /\ calls' \in [Threads -> Nat]
    BY <1>1, <2>7 DEF Call, TypeOK
  <2>9. \A u \in Threads : done'[u] <= req'[u].n /\ Len(buf'[u]) <= req'[u].n
    BY <1>1, <2>6, <2>7 DEF Call, TypeOK
  <2> QED BY SMTT(30), <1>1, <2>5, <2>6, <2>8, <2>9 DEF Call, TypeOK, cacheVars, slotVars, OK
<1>2. ASSUME NEW t \in Threads, LookupHit(t)
      PROVE  TypeOK'
  <2>1. pc[t] = "lookup"
    BY <1>2 DEF LookupHit
  <2>2. FirstHit(bi[t]) \in Entries
    BY <1>2, HitFacts DEF LookupHit
  <2>3. /\ NewBuf(t) \in Seq(Byte)
        /\ Len(NewBuf(t)) <= req[t].n
    BY <2>1, AddedFacts
  <2>4. buf' = [buf EXCEPT ![t] = NewBuf(t)]
    BY <1>2, HitFacts, Zenon DEF LookupHit, NewBuf
  <2>5. buf' \in [Threads -> Seq(Byte)] /\ \A u \in Threads : Len(buf'[u]) <= req[u].n
    BY <2>3, <2>4 DEF TypeOK
  <2>6. cache' \in [Entries -> Entry] /\ clock' \in Nat /\ hits' \in Nat
    <3>1. PICK i \in Entries : i = FirstHit(bi[t])
      BY <2>2
    <3>2. cache' = [cache EXCEPT ![i].used = clock + 1]
      BY <1>2, <3>1 DEF LookupHit
    <3>3. cache[i] \in Entry /\ clock + 1 \in Nat
      BY DEF TypeOK
    <3>4. [cache[i] EXCEPT !.used = clock + 1] \in Entry
      BY <3>3 DEF Entry
    <3>5. cache' \in [Entries -> Entry]
      BY <3>2, <3>4 DEF TypeOK
    <3> QED BY <1>2, <3>3, <3>5 DEF LookupHit, TypeOK
  <2>7. blen' \in [Threads -> Nat] /\ pc' \in [Threads -> Pc]
    BY <1>2, <2>2 DEF LookupHit, TypeOK, Entry, Pc
  <2> QED BY <1>2, <2>5, <2>6, <2>7 DEF LookupHit, TypeOK, slotVars
<1>3. ASSUME NEW t \in Threads, LookupMiss(t) \/ SlotWait(t) \/ SpuriousWake(t)
      PROVE  TypeOK'
  BY <1>3 DEF LookupMiss, SlotWait, SpuriousWake, TypeOK, Pc, cacheVars, slotVars, callVars
<1>4. ASSUME NEW t \in Threads, SlotAcquire(t)
      PROVE  TypeOK'
  <2>1. (CHOOSE s \in FreeSlots : \A u \in FreeSlots : s <= u) \in Slots
    BY <1>4, FirstFreeIs DEF SlotAcquire, FreeSlots
  <2> QED BY <1>4, <2>1 DEF SlotAcquire, TypeOK, Pc, cacheVars
<1>5. ASSUME NEW t \in Threads, Fetch(t) \/ FetchFails(t) \/ DecodeOK(t) \/ DecodeFails(t)
      PROVE  TypeOK'
  BY ZenonT(30), <1>5 DEF Fetch, FetchFails, DecodeOK, DecodeFails, Staging, TypeOK, Pc, Errors, cacheVars, callVars
<1>6. ASSUME NEW t \in Threads, Fill(t)
      PROVE  TypeOK'
  <2>1. pc[t] = "fill" /\ sraw[slot[t]] = bi[t]
    BY <1>6 DEF Fill, CallInv, CallInvOf
  <2>2. /\ NewBuf(t) \in Seq(Byte)
        /\ Len(NewBuf(t)) <= req[t].n
    BY <2>1, AddedFacts
  <2>3. buf' = [buf EXCEPT ![t] = NewBuf(t)]
    BY <1>6, <2>1, Zenon DEF Fill, NewBuf
  <2>4. buf' \in [Threads -> Seq(Byte)] /\ \A u \in Threads : Len(buf'[u]) <= req[u].n
    BY <2>2, <2>3 DEF TypeOK
  <2>5. bi[t] \in Blocks /\ BlockLen[bi[t]] \in Nat
    BY <2>1, CallFacts
  <2>6. [block |-> bi[t], used |-> clock + 1, len |-> BlockLen[bi[t]], data |-> sraw[slot[t]]] \in Entry
    BY <2>1, <2>5 DEF TypeOK, Entry
  <2>7. cache' \in [Entries -> Entry] /\ clock' \in Nat /\ misses' \in Nat
    BY <1>6, <2>6, VictimIs DEF Fill, TypeOK
  <2>8. blen' \in [Threads -> Nat] /\ pc' \in [Threads -> Pc]
    BY <1>6, <2>5 DEF Fill, TypeOK, Pc
  <2> QED BY <1>6, <2>4, <2>7, <2>8 DEF Fill, TypeOK, slotVars
<1>7. ASSUME NEW t \in Threads, SlotRelease(t)
      PROVE  TypeOK'
  <2>1. [pc EXCEPT ![t] = AfterRelease(t)] \in [Threads -> Pc]
    BY DEF AfterRelease, TypeOK, Pc
  <2>2. pc' \in [Threads -> Pc]
    BY <1>7, <2>1, SignalIs DEF SlotRelease
  <2>3. ret' \in [Threads -> Int]
    <3>0. st[t] \in {0, 34, 48}
      BY DEF TypeOK, Errors, OK, ErrIO, ErrCorruptBlock
    <3>1. -st[t] \in Int
      BY <3>0
    <3> QED BY <1>7, <3>1 DEF SlotRelease, TypeOK
  <2>4. busy' \in [Slots -> BOOLEAN]
    BY <1>7 DEF SlotRelease, TypeOK
  <2> QED BY <1>7, <2>2, <2>3, <2>4 DEF SlotRelease, TypeOK, cacheVars
<1>8. ASSUME NEW t \in Threads, AdvanceShort(t)
      PROVE  TypeOK'
  BY <1>8 DEF AdvanceShort, TypeOK, Pc, ErrCorruptBlock, cacheVars, slotVars
<1>9. ASSUME NEW t \in Threads, AdvanceNext(t)
      PROVE  TypeOK'
  <2>1. pc[t] = "advance" /\ Within(t) < blen[t] /\ done[t] + Took(t) < req[t].n
    BY <1>9 DEF AdvanceNext
  <2>2. Took(t) \in Nat /\ done[t] \in Nat /\ req[t].off \in Nat /\ req[t].n \in Nat
    BY <2>1, TookFacts, CallFacts
  <2>3. req[t].off + req[t].n <= RawSize /\ RawSize \in Nat
    BY <2>1, IndexAssumption DEF CallInv, CallInvOf, RawSize
  <2>4. IndexFind(req[t].off + done[t] + Took(t)) \in Blocks
    BY <2>1, <2>2, <2>3, BlockOf
  <2>5. done' \in [Threads -> Nat] /\ \A u \in Threads : done'[u] <= req[u].n
    <3>1. done' = [done EXCEPT ![t] = done[t] + Took(t)]
      BY <1>9 DEF AdvanceNext
    <3> QED BY SMTT(30), <3>1, <2>1, <2>2 DEF TypeOK
  <2>6. bi' \in [Threads -> Blocks] /\ pc' \in [Threads -> Pc]
    BY <1>9, <2>4 DEF AdvanceNext, TypeOK, Pc
  <2> QED BY <1>9, <2>5, <2>6 DEF AdvanceNext, TypeOK, cacheVars, slotVars
<1>10. ASSUME NEW t \in Threads, AdvanceDone(t)
       PROVE  TypeOK'
  <2>1. pc[t] = "advance" /\ Within(t) < blen[t]
    BY <1>10 DEF AdvanceDone
  <2>2. Took(t) \in Nat /\ done[t] \in Nat /\ done[t] + Took(t) <= req[t].n
    BY <2>1, TookFacts, CallFacts
  <2>3. done' = [done EXCEPT ![t] = done[t] + Took(t)] /\ ret' = [ret EXCEPT ![t] = done[t] + Took(t)]
    BY <1>10 DEF AdvanceDone
  <2>4. done' \in [Threads -> Nat] /\ ret' \in [Threads -> Int] /\ \A u \in Threads : done'[u] <= req[u].n
    BY SMTT(30), <2>2, <2>3 DEF TypeOK
  <2>5. pc' \in [Threads -> Pc]
    BY <1>10 DEF AdvanceDone, TypeOK, Pc
  <2> QED BY <1>10, <2>4, <2>5 DEF AdvanceDone, TypeOK, cacheVars, slotVars
<1>11. CASE UNCHANGED vars
  BY <1>11 DEF TypeOK, vars, cacheVars, slotVars, callVars
<1> QED BY <1>1, <1>2, <1>3, <1>4, <1>5, <1>6, <1>7, <1>8, <1>9, <1>10, <1>11
        DEF Next, Step, Terminated

-----------------------------------------------------------------------------
(* SlotOwnership *)

(* At first no slot is taken ... *)
LEMMA SlotInit == Init => SlotOwnership
BY DEF Init, SlotOwnership, Holds

(* ... and slot_acquire and slot_release hand each to one thread at a time. *)
LEMMA SlotStep ==
  ASSUME IInv, [Next]_vars
  PROVE  SlotOwnership'
<1> USE DEF IInv
<1>1. ASSUME UNCHANGED <<busy, slot>>, \A u \in Threads : Holds(u)' <=> Holds(u)
      PROVE  SlotOwnership'
  BY <1>1 DEF SlotOwnership
<1>2. ASSUME NEW t \in Threads,
             \/ LookupHit(t) \/ LookupMiss(t) \/ SlotWait(t) \/ SpuriousWake(t)
             \/ Fetch(t) \/ FetchFails(t) \/ DecodeOK(t) \/ DecodeFails(t) \/ Fill(t)
             \/ AdvanceShort(t) \/ AdvanceNext(t) \/ AdvanceDone(t)
      PROVE  SlotOwnership'
  <2>1. UNCHANGED <<busy, slot>>
    BY <1>2 DEF LookupHit, LookupMiss, SlotWait, SpuriousWake, Fetch, FetchFails, DecodeOK,
                DecodeFails, Fill, AdvanceShort, AdvanceNext, AdvanceDone, slotVars, callVars
  <2>2. \A u \in Threads : Holds(u)' <=> Holds(u)
    BY <1>2 DEF LookupHit, LookupMiss, SlotWait, SpuriousWake, Fetch, FetchFails, DecodeOK,
                DecodeFails, Fill, AdvanceShort, AdvanceNext, AdvanceDone, Holds, TypeOK
  <2> QED BY <2>1, <2>2, <1>1
<1>3. ASSUME NEW t \in Threads, NEW r \in Requests, Call(t, r)
      PROVE  SlotOwnership'
  <2>1. UNCHANGED <<busy, slot>>
    BY <1>3 DEF Call, slotVars
  <2>2. \A u \in Threads : Holds(u)' <=> Holds(u)
    BY <1>3 DEF Call, Holds, TypeOK
  <2> QED BY <2>1, <2>2, <1>1
<1>4. ASSUME NEW t \in Threads, SlotAcquire(t)
      PROVE  SlotOwnership'
  <2>1. PICK s : s = CHOOSE k \in FreeSlots : \A u \in FreeSlots : k <= u
    OBVIOUS
  <2>2. s \in Slots /\ ~ busy[s]
    BY <1>4, <2>1, FirstFreeIs DEF SlotAcquire, FreeSlots
  <2>3. /\ busy' = [busy EXCEPT ![s] = TRUE]
        /\ slot' = [slot EXCEPT ![t] = s]
        /\ pc' = [pc EXCEPT ![t] = "fetch"]
    BY <1>4, <2>1 DEF SlotAcquire
  <2>4. slot'[t] = s /\ Holds(t)' /\ ~ Holds(t)
    BY <1>4, <2>3 DEF SlotAcquire, Holds, TypeOK
  <2>5. \A u \in Threads : u # t => slot'[u] = slot[u] /\ (Holds(u)' <=> Holds(u))
    BY <2>3 DEF Holds, TypeOK
  <2>6. \A u \in Threads : Holds(u) => slot[u] # s
    BY <2>2 DEF SlotOwnership
  <2>7. busy'[s] /\ \A q \in Slots : q # s => busy'[q] = busy[q]
    BY <2>2, <2>3 DEF TypeOK
  <2>8. \A u \in Threads : Holds(u)' => busy'[slot'[u]]
    BY <2>4, <2>5, <2>6, <2>7 DEF SlotOwnership, TypeOK
  <2>9. \A u, v \in Threads : u # v /\ Holds(u)' /\ Holds(v)' => slot'[u] # slot'[v]
    <3> SUFFICES ASSUME NEW u \in Threads, NEW v \in Threads, u # v, Holds(u)', Holds(v)'
                 PROVE  slot'[u] # slot'[v]
      OBVIOUS
    <3>1. CASE u = t
      BY <3>1, <2>4, <2>5, <2>6
    <3>2. CASE v = t
      BY <3>2, <2>4, <2>5, <2>6
    <3>3. CASE u # t /\ v # t
      BY <3>3, <2>5 DEF SlotOwnership
    <3> QED BY <3>1, <3>2, <3>3
  <2>10. ASSUME NEW q \in Slots, busy'[q] PROVE \E u \in Threads : Holds(u)' /\ slot'[u] = q
    <3>1. CASE q = s
      BY <3>1, <2>4
    <3>2. CASE q # s
      <4>1. PICK u \in Threads : Holds(u) /\ slot[u] = q
        BY <2>7, <2>10, <3>2 DEF SlotOwnership
      <4> QED BY <4>1, <2>4, <2>5
    <3> QED BY <3>1, <3>2
  <2> QED BY <2>8, <2>9, <2>10 DEF SlotOwnership
<1>5. ASSUME NEW t \in Threads, SlotRelease(t)
      PROVE  SlotOwnership'
  <2>1. [pc EXCEPT ![t] = AfterRelease(t)] \in [Threads -> Pc]
    BY DEF AfterRelease, TypeOK, Pc
  <2>2. \A u \in Threads : u # t => (Holds(u)' <=> Holds(u))
    BY <1>5, <2>1, SignalIs DEF SlotRelease, Holds
  <2>3. Holds(t) /\ ~ Holds(t)'
    BY ZenonT(30), <1>5, <2>1, SignalIs DEF SlotRelease, Holds, AfterRelease
  <2>4. slot' = slot /\ busy' = [busy EXCEPT ![slot[t]] = FALSE]
    BY <1>5 DEF SlotRelease
  <2>5. \A q \in Slots : q # slot[t] => busy'[q] = busy[q]
    BY <2>4 DEF TypeOK
  <2>6. slot[t] \in Slots /\ ~ busy'[slot[t]]
    BY <2>4 DEF TypeOK
  <2>7. \A u \in Threads : Holds(u)' => busy'[slot'[u]]
    <3> SUFFICES ASSUME NEW u \in Threads, Holds(u)' PROVE busy'[slot[u]]
      BY <2>4
    <3>1. u # t /\ Holds(u)
      BY <2>2, <2>3
    <3>2. slot[u] # slot[t] /\ busy[slot[u]] /\ slot[u] \in Slots
      BY <3>1, <2>3 DEF SlotOwnership, TypeOK
    <3> QED BY <3>2, <2>5
  <2>8. \A u, v \in Threads : u # v /\ Holds(u)' /\ Holds(v)' => slot'[u] # slot'[v]
    <3>1. \A u \in Threads : Holds(u)' => Holds(u)
      BY <2>2, <2>3
    <3> QED BY <3>1, <2>4 DEF SlotOwnership
  <2>9. ASSUME NEW q \in Slots, busy'[q] PROVE \E u \in Threads : Holds(u)' /\ slot'[u] = q
    <3>1. q # slot[t] /\ busy[q]
      BY <2>9, <2>5, <2>6
    <3>2. PICK u \in Threads : Holds(u) /\ slot[u] = q
      BY <3>1 DEF SlotOwnership
    <3> QED BY <3>1, <3>2, <2>2, <2>4
  <2> QED BY <2>7, <2>8, <2>9 DEF SlotOwnership
<1>6. CASE UNCHANGED vars
  <2>1. UNCHANGED <<busy, slot, pc>>
    BY <1>6 DEF vars, slotVars, callVars
  <2> QED BY <2>1, <1>1 DEF Holds
<1> QED BY <1>2, <1>3, <1>4, <1>5, <1>6 DEF Next, Step, Terminated

-----------------------------------------------------------------------------
(* CacheSound *)

(* At first no entry is in use ... *)
LEMMA CacheInit == Init => CacheSound
BY DEF Init, CacheSound

(* ... and block_copy fills an entry with a whole good block and a new age. *)
LEMMA CacheStep ==
  ASSUME IInv, [Next]_vars
  PROVE  CacheSound'
<1> USE DEF IInv
<1>1. ASSUME UNCHANGED cacheVars
      PROVE  CacheSound'
  BY <1>1 DEF CacheSound, cacheVars
<1>2. ASSUME NEW t \in Threads, LookupHit(t)
      PROVE  CacheSound'
  <2>1. PICK i \in Entries : /\ i = FirstHit(bi[t])
                             /\ cache[i].block = bi[t]
    BY <1>2, HitFacts DEF LookupHit
  <2>2. /\ cache' = [cache EXCEPT ![i].used = clock + 1]
        /\ clock' = clock + 1 /\ hits' = hits + 1 /\ misses' = misses
    BY <1>2, <2>1 DEF LookupHit
  <2>3. cache[i].block # None
    BY <2>1 DEF TypeOK, Blocks, None
  <2>4. \A j \in Entries : /\ cache'[j].block = cache[j].block
                           /\ cache'[j].data = cache[j].data
                           /\ cache'[j].len = cache[j].len
                           /\ cache'[j].used = IF j = i THEN clock + 1 ELSE cache[j].used
    BY <2>2 DEF TypeOK, Entry
  <2>5. \A j \in Entries : cache[j].used \in 0 .. clock /\ clock \in Nat
    BY DEF TypeOK, CacheSound
  <2>6. \A j \in Entries :
          IF cache'[j].block = None
          THEN cache'[j].used = 0
          ELSE /\ cache'[j].data = cache'[j].block
               /\ cache'[j].len = BlockLen[cache'[j].block]
               /\ cache'[j].block \notin Bad
               /\ cache'[j].used \in 1 .. clock'
    BY <2>2, <2>3, <2>4, <2>5 DEF CacheSound
  <2>7. \A j, k \in Entries : j # k /\ cache'[j].used = cache'[k].used => cache'[j].used = 0
    BY <2>4, <2>5 DEF CacheSound
  <2>8. clock' = hits' + misses'
    BY <2>2 DEF CacheSound, TypeOK
  <2> QED BY <2>6, <2>7, <2>8 DEF CacheSound
<1>3. ASSUME NEW t \in Threads, Fill(t)
      PROVE  CacheSound'
  <2>1. PICK v \in Entries : v = Victim
    BY VictimIs
  <2>2. /\ cache' = [cache EXCEPT ![v] = [block |-> bi[t], used |-> clock + 1,
                                          len |-> BlockLen[bi[t]], data |-> sraw[slot[t]]]]
        /\ clock' = clock + 1 /\ misses' = misses + 1 /\ hits' = hits
    BY <1>3, <2>1 DEF Fill
  <2>3. sraw[slot[t]] = bi[t] /\ bi[t] \notin Bad /\ bi[t] \in Blocks
    BY <1>3 DEF Fill, CallInv, CallInvOf, TypeOK
  <2>4. /\ \A j \in Entries : j # v => cache'[j] = cache[j]
        /\ cache'[v].block = bi[t] /\ cache'[v].data = bi[t]
        /\ cache'[v].len = BlockLen[bi[t]] /\ cache'[v].used = clock + 1
    BY <2>2, <2>3 DEF TypeOK
  <2>5. \A j \in Entries : cache[j].used \in 0 .. clock /\ clock \in Nat
    BY DEF TypeOK, CacheSound
  <2>6. \A j \in Entries :
          IF cache'[j].block = None
          THEN cache'[j].used = 0
          ELSE /\ cache'[j].data = cache'[j].block
               /\ cache'[j].len = BlockLen[cache'[j].block]
               /\ cache'[j].block \notin Bad
               /\ cache'[j].used \in 1 .. clock'
    BY <2>2, <2>3, <2>4, <2>5 DEF CacheSound, Blocks, None
  <2>7. \A j, k \in Entries : j # k /\ cache'[j].used = cache'[k].used => cache'[j].used = 0
    BY <2>4, <2>5 DEF CacheSound
  <2>8. clock' = hits' + misses'
    BY <2>2 DEF CacheSound, TypeOK
  <2> QED BY <2>6, <2>7, <2>8 DEF CacheSound
<1>4. ASSUME NEW t \in Threads,
             \/ \E r \in Requests : Call(t, r)
             \/ LookupMiss(t) \/ SlotAcquire(t) \/ SlotWait(t) \/ SpuriousWake(t)
             \/ Fetch(t) \/ FetchFails(t) \/ DecodeOK(t) \/ DecodeFails(t) \/ SlotRelease(t)
             \/ AdvanceShort(t) \/ AdvanceNext(t) \/ AdvanceDone(t)
      PROVE  CacheSound'
  BY <1>1, <1>4 DEF Call, LookupMiss, SlotAcquire, SlotWait, SpuriousWake, Fetch, FetchFails,
                    DecodeOK, DecodeFails, SlotRelease, AdvanceShort, AdvanceNext, AdvanceDone
<1>5. CASE UNCHANGED vars
  BY <1>1, <1>5 DEF vars
<1> QED BY <1>2, <1>3, <1>4, <1>5 DEF Next, Step, Terminated

-----------------------------------------------------------------------------
(* CallInv *)

(* At first no call is running ... *)
LEMMA CallInit == Init => CallInv
BY DEF Init, CallInv, CallInvOf, Copied

(* Nothing another thread does changes where a call stands. *)
LEMMA CallFrame ==
  ASSUME NEW u \in Threads, CallInvOf(u),
         pc'[u] = pc[u] \/ (pc[u] = "waitslot" /\ pc'[u] = "acquire"),
         req'[u] = req[u], done'[u] = done[u], buf'[u] = buf[u], bi'[u] = bi[u],
         slot'[u] = slot[u], blen'[u] = blen[u], st'[u] = st[u],
         pc[u] = "decode" => scbuf'[slot[u]] = scbuf[slot[u]],
         pc[u] = "fill" => sraw'[slot[u]] = sraw[slot[u]]
  PROVE  CallInvOf(u)'
BY DEF CallInvOf, Added, Within, Copied, Staging

(* ... and each step of a call, or of another thread, keeps where it stands. *)
LEMMA CallStep ==
  ASSUME IInv, [Next]_vars
  PROVE  CallInv'
<1> USE DEF IInv
<1> \A u \in Threads : CallInvOf(u)
  BY DEF CallInv
<1>1. ASSUME NEW t \in Threads, NEW r \in Requests, Call(t, r)
      PROVE  CallInv'
  <2>1. \A u \in Threads : u # t => CallInvOf(u)'
    BY <1>1, CallFrame DEF Call, TypeOK, slotVars
  <2>2. r.off \in Nat /\ r.n \in Nat \ {0} /\ RawSize \in Nat
    BY RequestAssumption, IndexAssumption DEF RawSize
  <2>3. CASE r.off >= RawSize
    <3>1. pc'[t] = "idle"
      BY <1>1, <2>3 DEF Call
    <3>2. CallInvOf(t)'
      BY <3>1 DEF CallInvOf, Copied
    <3> QED BY <2>1, <3>2 DEF CallInv
  <2>4. CASE r.off < RawSize
    <3>1. ~ (r.off >= RawSize)
      BY <2>2, <2>4
    <3>2. /\ pc'[t] = "lookup" /\ bi'[t] = IndexFind(r.off)
          /\ req'[t] = [off |-> r.off, n |-> Smaller(r.n, RawSize - r.off)]
          /\ done'[t] = 0 /\ buf'[t] = <<>> /\ st'[t] = OK
      BY <1>1, <3>1 DEF Call, TypeOK
    <3>3. /\ IndexFind(r.off) \in Blocks
          /\ RawOff[IndexFind(r.off)] <= r.off /\ r.off < RawOff[IndexFind(r.off) + 1]
      BY <2>2, <2>4, BlockOf
    <3>4. Smaller(r.n, RawSize - r.off) > 0 /\ r.off + Smaller(r.n, RawSize - r.off) <= RawSize
      BY <2>2, <2>4 DEF Smaller
    <3>5. ~ Copied(t)' /\ Len(buf'[t]) = 0
      BY <3>2 DEF Copied
    <3>6. RawSize' = RawSize
      BY DEF RawSize
    <3>7. CallInvOf(t)'
      BY <2>2, <3>2, <3>3, <3>4, <3>5, <3>6 DEF CallInvOf
    <3> QED BY <2>1, <3>7 DEF CallInv
  <2> QED BY <2>2, <2>3, <2>4
<1>2. ASSUME NEW t \in Threads, LookupHit(t)
      PROVE  CallInv'
  <2>1. \A u \in Threads : u # t => CallInvOf(u)'
    BY <1>2, CallFrame DEF LookupHit, TypeOK, slotVars
  <2>2. pc[t] = "lookup" /\ Hits(bi[t]) # {}
    BY <1>2 DEF LookupHit
  <2>3. /\ pc'[t] = "advance"
        /\ buf'[t] = CopyOut(t, Within(t), cache[FirstHit(bi[t])].data, cache[FirstHit(bi[t])].len)
        /\ blen'[t] = cache[FirstHit(bi[t])].len
        /\ UNCHANGED <<req, done, bi, st>>
    BY <1>2 DEF LookupHit, TypeOK
  <2>4. buf'[t] = NewBuf(t) /\ blen'[t] = BlockLen[bi[t]]
    BY <2>2, <2>3, HitFacts DEF NewBuf
  <2>5. Len(buf'[t]) = done[t] + Added(t) /\ Added(t)' = Added(t)
    BY <2>2, <2>3, <2>4, AddedFacts DEF Added, Within
  <2>6. CallInvOf(t)'
    BY <2>2, <2>3, <2>4, <2>5 DEF CallInvOf, Copied, RawSize
  <2> QED BY <2>1, <2>6 DEF CallInv
<1>3. ASSUME NEW t \in Threads, LookupMiss(t) \/ SlotWait(t) \/ SpuriousWake(t)
      PROVE  CallInv'
  <2>1. \A u \in Threads : u # t => CallInvOf(u)'
    BY <1>3, CallFrame DEF LookupMiss, SlotWait, SpuriousWake, TypeOK, slotVars, callVars
  <2>2. CallInvOf(t)'
    BY <1>3 DEF LookupMiss, SlotWait, SpuriousWake, TypeOK, slotVars, callVars, CallInvOf, Copied, RawSize
  <2> QED BY <2>1, <2>2 DEF CallInv
<1>4. ASSUME NEW t \in Threads, SlotAcquire(t)
      PROVE  CallInv'
  <2>1. \A u \in Threads : u # t => CallInvOf(u)'
    BY <1>4, CallFrame DEF SlotAcquire, TypeOK
  <2>2. CallInvOf(t)'
    BY <1>4 DEF SlotAcquire, TypeOK, CallInvOf, Copied, RawSize
  <2> QED BY <2>1, <2>2 DEF CallInv
<1>5. ASSUME NEW t \in Threads, Fetch(t) \/ FetchFails(t) \/ DecodeOK(t) \/ DecodeFails(t)
      PROVE  CallInv'
  <2>1. Holds(t) /\ \A u \in Threads : pc[u] \in {"decode", "fill"} => Holds(u)
    BY <1>5 DEF Fetch, FetchFails, DecodeOK, DecodeFails, Holds
  <2>2. \A u \in Threads : u # t /\ pc[u] \in {"decode", "fill"} => slot[u] # slot[t]
    BY <2>1 DEF SlotOwnership
  <2>3. /\ \A q \in Slots : q # slot[t] => scbuf'[q] = scbuf[q] /\ sraw'[q] = sraw[q]
        /\ \A u \in Threads : u # t => pc'[u] = pc[u] /\ st'[u] = st[u]
        /\ UNCHANGED <<req, done, buf, bi, slot, blen>>
    BY <1>5 DEF Fetch, FetchFails, DecodeOK, DecodeFails, Staging, TypeOK, callVars
  <2>4. \A u \in Threads : slot[u] \in Slots
    BY DEF TypeOK
  <2>5. \A u \in Threads : u # t => CallInvOf(u)'
    BY <2>2, <2>3, <2>4, CallFrame
  <2>6. CallInvOf(t)'
    BY SMTT(30), <1>5 DEF Fetch, FetchFails, DecodeOK, DecodeFails, Staging, TypeOK, callVars,
                CallInvOf, Copied, RawSize, OK, ErrIO, ErrCorruptBlock
  <2> QED BY <2>5, <2>6 DEF CallInv
<1>6. ASSUME NEW t \in Threads, Fill(t)
      PROVE  CallInv'
  <2>1. \A u \in Threads : u # t => CallInvOf(u)'
    BY <1>6, CallFrame DEF Fill, TypeOK, slotVars
  <2>2. pc[t] = "fill" /\ sraw[slot[t]] = bi[t] /\ st[t] = OK
    BY <1>6 DEF Fill, CallInvOf
  <2>3. /\ pc'[t] = "release"
        /\ buf'[t] = NewBuf(t)
        /\ blen'[t] = BlockLen[bi[t]]
        /\ UNCHANGED <<req, done, bi, st>>
    BY <1>6, <2>2 DEF Fill, TypeOK, NewBuf
  <2>4. Len(buf'[t]) = done[t] + Added(t) /\ Added(t)' = Added(t)
    BY <2>2, <2>3, AddedFacts DEF Added, Within
  <2>5. CallInvOf(t)'
    BY <2>2, <2>3, <2>4 DEF CallInvOf, Copied, RawSize, OK, ErrCorruptBlock
  <2> QED BY <2>1, <2>5 DEF CallInv
<1>7. ASSUME NEW t \in Threads, SlotRelease(t)
      PROVE  CallInv'
  <2>1. [pc EXCEPT ![t] = AfterRelease(t)] \in [Threads -> Pc]
    BY DEF AfterRelease, TypeOK, Pc
  <2>2. /\ pc'[t] = AfterRelease(t)
        /\ \A u \in Threads : u # t => pc'[u] = pc[u] \/ (pc[u] = "waitslot" /\ pc'[u] = "acquire")
    <3>1. PICK p \in [Threads -> Pc] : p = [pc EXCEPT ![t] = AfterRelease(t)]
      BY <2>1
    <3>2. pc' \in Signal(p)
      BY <1>7, <3>1 DEF SlotRelease
    <3>3. p[t] = AfterRelease(t) /\ p[t] # "waitslot"
      BY <3>1 DEF AfterRelease, TypeOK
    <3>4. \A u \in Threads : u # t => p[u] = pc[u]
      BY <3>1 DEF TypeOK
    <3>5. /\ \A u \in Threads : p[u] # "waitslot" => pc'[u] = p[u]
          /\ \A u \in Threads : p[u] = "waitslot" => pc'[u] \in {"waitslot", "acquire"}
      BY <3>2, SignalIs
    <3> QED BY <3>3, <3>4, <3>5
  <2>3. UNCHANGED <<scbuf, sraw, req, done, buf, bi, slot, blen, st>>
    BY <1>7 DEF SlotRelease
  <2>4. \A u \in Threads : u # t => CallInvOf(u)'
    BY <2>2, <2>3, CallFrame
  <2>5. CallInvOf(t)'
    BY <1>7, <2>2, <2>3 DEF SlotRelease, AfterRelease, CallInvOf, Copied, Added, Within, RawSize
  <2> QED BY <2>4, <2>5 DEF CallInv
<1>8. ASSUME NEW t \in Threads, AdvanceShort(t) \/ AdvanceDone(t)
      PROVE  CallInv'
  <2>1. \A u \in Threads : u # t => CallInvOf(u)'
    BY <1>8, CallFrame DEF AdvanceShort, AdvanceDone, TypeOK, slotVars
  <2>2. pc'[t] = "idle"
    BY <1>8 DEF AdvanceShort, AdvanceDone, TypeOK
  <2>3. CallInvOf(t)'
    BY <2>2 DEF CallInvOf, Copied
  <2> QED BY <2>1, <2>3 DEF CallInv
<1>9. ASSUME NEW t \in Threads, AdvanceNext(t)
      PROVE  CallInv'
  <2>1. \A u \in Threads : u # t => CallInvOf(u)'
    BY <1>9, CallFrame DEF AdvanceNext, TypeOK, slotVars
  <2>2. pc[t] = "advance" /\ Within(t) < blen[t] /\ done[t] + Took(t) < req[t].n
    BY <1>9 DEF AdvanceNext
  <2>3. Took(t) = Added(t) /\ Took(t) \in Nat
    BY <2>2, TookFacts
  <2>4. /\ pc'[t] = "lookup" /\ done'[t] = done[t] + Took(t)
        /\ bi'[t] = IndexFind(req[t].off + done[t] + Took(t))
        /\ UNCHANGED <<req, buf, st>>
    BY <1>9 DEF AdvanceNext, TypeOK
  <2>5. req[t].off \in Nat /\ req[t].n \in Nat /\ done[t] \in Nat
        /\ req[t].off + req[t].n <= RawSize /\ RawSize \in Nat
    BY <2>2, IndexAssumption DEF CallInvOf, TypeOK, RawSize
  <2>6. PICK b : b = IndexFind(req[t].off + done[t] + Took(t))
    OBVIOUS
  <2>7. /\ b \in Blocks
        /\ RawOff[b] <= req[t].off + done[t] + Took(t)
        /\ req[t].off + done[t] + Took(t) < RawOff[b + 1]
    BY <2>2, <2>3, <2>5, <2>6, BlockOf
  <2>8. Len(buf[t]) = done[t] + Took(t) /\ st[t] = OK
    BY <2>2, <2>3 DEF CallInvOf, Copied
  <2>9. ~ Copied(t)' /\ RawSize' = RawSize
    BY <2>4 DEF Copied, RawSize
  <2>10. CallInvOf(t)'
    BY <2>2, <2>3, <2>4, <2>5, <2>6, <2>7, <2>8, <2>9 DEF CallInvOf
  <2> QED BY <2>1, <2>10 DEF CallInv
<1>10. CASE UNCHANGED vars
  BY <1>10, CallFrame DEF vars, slotVars, callVars, CallInv
<1> QED BY <1>1, <1>2, <1>3, <1>4, <1>5, <1>6, <1>7, <1>8, <1>9, <1>10
        DEF Next, Step, Terminated

-----------------------------------------------------------------------------
(* The inductive invariant, and the theorems about it *)

(* The inductive invariant of concurrent xq_reader_pread calls: types, who *)
(* holds which decode slot, where each call stands, what the cache holds.  *)
THEOREM InvCorrect == Spec => []IInv
<1>1. Init => IInv
  BY TypeInit, SlotInit, CallInit, CacheInit DEF IInv
<1>2. IInv /\ [Next]_vars => IInv'
  BY TypeStep, SlotStep, CallStep, CacheStep DEF IInv
<1> QED BY <1>1, <1>2, PTL DEF Spec

(* Every reachable state is well typed; no memcpy of block_copy runs past  *)
(* the caller's buffer.                                                    *)
THEOREM ReaderTypeCorrect == Spec => []TypeOK
BY InvCorrect, PTL DEF IInv

(* No two threads decode into the same slot, and no slot is ever lost,     *)
(* whatever the number of threads and slots and wherever a read or a       *)
(* decode fails.                                                           *)
THEOREM OwnershipCorrect == Spec => []SlotOwnership
BY InvCorrect, PTL DEF IInv

(* The calls' bookkeeping and the slots' contents. *)
THEOREM CallCorrect == Spec => []CallInv
BY InvCorrect, PTL DEF IInv

(* The cache holds whole good blocks only, and no two entries have the     *)
(* same age.                                                               *)
THEOREM CacheCorrect == Spec => []CacheSound
BY InvCorrect, PTL DEF IInv

-----------------------------------------------------------------------------
(* What the calls answer *)

(* Byte k of a buffer b, read from offset off on, as BytesRight has it. *)
FromIn(off, b, k) ==
  IF k > 1 /\ Reaches(b[k - 1][1], off + k - 1) THEN b[k - 1][1] ELSE IndexFind(off + k - 1)

ByteRight(off, b, k) ==
  LET p == off + k - 1
      from == FromIn(off, b, k)
  IN /\ b[k] = ByteOf(from, p)
     /\ b[k] = StreamByte(p) \/ (Long(from) /\ p >= RawOff[from + 1])

(* Before block_copy copies, the block that the last byte came from is     *)
(* through: it has no byte for the place that is read next.                *)
Through(t) ==
  pc[t] # "idle" /\ ~Copied(t) /\ done[t] > 0 =>
    ~Reaches(buf[t][done[t]][1], req[t].off + done[t])

(* After it, the last byte came from the block bi, if there was one.       *)
Reading(t) == Copied(t) /\ Added(t) > 0 => buf[t][done[t] + Added(t)][1] = bi[t]

(* AnswerInv, thread by thread. *)
BytesOf(t) == \A k \in 1 .. Len(buf[t]) : ByteRight(req[t].off, buf[t], k)

CompleteOf(t) ==
  pc[t] = "idle" /\ ret[t] >= 0 => ret[t] = req[t].n /\ Len(buf[t]) = req[t].n

BlameOf(t) ==
  pc[t] = "idle" /\ ret[t] = -ErrCorruptBlock =>
    \E b \in Blocks :
      /\ b \in Bad \/ Short(b)
      /\ RawOff[b] < req[t].off + req[t].n
      /\ req[t].off < RawOff[b + 1]

AnswerInv ==
  /\ BytesRight /\ NoSpuriousCorruption
  /\ \A t \in Threads : Through(t) /\ Reading(t)

(* What is right of the bytes of a buffer is right of them in a longer one. *)
LEMMA ByteKept ==
  ASSUME NEW off \in Nat, NEW b, NEW c, NEW k \in Nat,
         ByteRight(off, b, k), c[k] = b[k], k > 1 => c[k - 1] = b[k - 1]
  PROVE  ByteRight(off, c, k)
BY DEF ByteRight, FromIn

(* AnswerInv is a matter of each thread by itself. *)
LEMMA AnswerSplit ==
  AnswerInv <=> \A t \in Threads :
    BytesOf(t) /\ CompleteOf(t) /\ BlameOf(t) /\ Through(t) /\ Reading(t)
<1>1. BytesRight <=> \A t \in Threads : BytesOf(t) /\ CompleteOf(t)
  BY DEF BytesRight, BytesOf, CompleteOf, ByteRight, FromIn, From
<1>2. NoSpuriousCorruption <=> \A t \in Threads : BlameOf(t)
  BY DEF NoSpuriousCorruption, BlameOf
<1> QED BY <1>1, <1>2 DEF AnswerInv

(* It is so after a step, too. *)
LEMMA AnswerSplitNext ==
  (AnswerInv <=> \A t \in Threads :
    BytesOf(t) /\ CompleteOf(t) /\ BlameOf(t) /\ Through(t) /\ Reading(t))'
BY AnswerSplit, PTL

(* The bytes of a buffer are right as long as nothing is copied to it. *)
LEMMA BytesFrame ==
  ASSUME NEW u \in Threads, BytesOf(u), req'[u] = req[u], buf'[u] = buf[u]
  PROVE  BytesOf(u)'
<1>1. \A k \in 1 .. Len(buf'[u]) : ByteRight(req'[u].off, buf'[u], k)
  BY DEF BytesOf
<1> QED BY <1>1 DEF BytesOf

(* A step that leaves a thread's call alone leaves its answer alone. *)
LEMMA AnswerFrame ==
  ASSUME NEW u \in Threads, BytesOf(u), CompleteOf(u), BlameOf(u), Through(u), Reading(u),
         req'[u] = req[u], buf'[u] = buf[u], bi'[u] = bi[u], done'[u] = done[u],
         Copied(u)' <=> Copied(u), pc[u] = "idle" => pc'[u] = "idle",
         \/ pc'[u] # "idle"
         \/ pc'[u] = pc[u] /\ ret'[u] = ret[u]
  PROVE  BytesOf(u)' /\ CompleteOf(u)' /\ BlameOf(u)' /\ Through(u)' /\ Reading(u)'
<1>1. BytesOf(u)'
  BY BytesFrame
<1>2. CompleteOf(u)' /\ BlameOf(u)'
  BY DEF CompleteOf, BlameOf, Short
<1>3. Through(u)' /\ Reading(u)'
  BY DEF Through, Reading, Reaches, Added, Within
<1> QED BY <1>1, <1>2, <1>3

(* The bytes block_copy adds follow those that are there. *)
LEMMA NewBufRight ==
  ASSUME IInv, AnswerInv, NEW t \in Threads, pc[t] \in {"lookup", "fill"}
  PROVE  /\ \A k \in 1 .. Len(NewBuf(t)) : ByteRight(req[t].off, NewBuf(t), k)
         /\ Added(t) > 0 => NewBuf(t)[done[t] + Added(t)][1] = bi[t]
<1> USE DEF IInv
<1>0. BytesOf(t) /\ Through(t)
  BY AnswerSplit
<1>1. /\ Len(NewBuf(t)) = done[t] + Added(t)
      /\ \A k \in 1 .. done[t] : NewBuf(t)[k] = buf[t][k]
      /\ \A k \in done[t] + 1 .. done[t] + Added(t) :
            NewBuf(t)[k] = <<bi[t], Within(t) + (k - done[t]) - 1>>
      /\ Within(t) + Added(t) <= BlockLen[bi[t]] \/ Added(t) = 0
      /\ Added(t) \in Nat
  BY AddedFacts
<1>2. /\ bi[t] \in Blocks /\ Within(t) \in Nat /\ done[t] \in Nat /\ req[t].off \in Nat
      /\ req[t].off + done[t] = RawOff[bi[t]] + Within(t)
      /\ Within(t) < RawOff[bi[t] + 1] - RawOff[bi[t]]
      /\ BlockLen[bi[t]] \in Nat
      /\ RawOff[bi[t]] \in Nat /\ RawOff[bi[t] + 1] \in Nat
  BY CallFacts
<1>3. Len(buf[t]) = done[t] /\ pc[t] # "idle" /\ ~Copied(t)
  BY DEF CallInv, CallInvOf, Copied
<1> DEFINE new == NewBuf(t)
           b == bi[t]
           off == req[t].off
<1>4. ASSUME NEW k \in 1 .. done[t]
      PROVE  ByteRight(off, new, k)
  <2>1. ByteRight(off, buf[t], k)
    BY <1>0, <1>3 DEF BytesOf
  <2>2. new[k] = buf[t][k] /\ (k > 1 => new[k - 1] = buf[t][k - 1])
    BY <1>1, <1>2
  <2>3. off \in Nat /\ k \in Nat
    BY <1>2
  <2> HIDE DEF new, off
  <2> QED BY <2>1, <2>2, <2>3, ByteKept
<1>5. ASSUME NEW k \in done[t] + 1 .. done[t] + Added(t)
      PROVE  ByteRight(off, new, k)
  <2> DEFINE p == off + k - 1
  <2>1. /\ k \in Nat /\ k > done[t] /\ k <= done[t] + Added(t) /\ p \in Nat
        /\ Added(t) # 0 /\ Within(t) + Added(t) <= BlockLen[b]
    <3>1. done[t] \in Nat /\ Added(t) \in Nat /\ off \in Nat
      BY <1>1, <1>2
    <3>2. k \in Nat /\ k > done[t] /\ k <= done[t] + Added(t) /\ Added(t) # 0
      <4> HIDE DEF Added
      <4> QED BY <3>1
    <3> HIDE DEF off
    <3> QED BY <1>1, <3>1, <3>2
  <2>2. new[k] = ByteOf(b, p)
    <3>1. p - RawOff[b] = Within(t) + (k - done[t]) - 1
      BY <1>2, <2>1
    <3> QED BY <1>1, <3>1 DEF ByteOf
  <2>3. Reaches(b, p)
    <3> HIDE DEF b, off
    <3>1. off + done[t] = RawOff[b] + Within(t) /\ RawOff[b] \in Nat /\ BlockLen[b] \in Nat
      BY <1>2 DEF b, off
    <3>2. Within(t) \in Nat /\ Added(t) \in Nat /\ done[t] \in Nat /\ off \in Nat
      BY <1>1, <1>2 DEF off
    <3> HIDE DEF Within, Added
    <3> QED BY <2>1, <3>1, <3>2 DEF Reaches
  <2>4. p < RawOff[b + 1] => IndexFind(p) = b
    BY <1>2, <2>1, <2>3, BlockUnique DEF Reaches
  <2>5. FromIn(off, new, k) = b
    <3>1. CASE k = done[t] + 1
      <4>1. p = off + done[t] /\ p < RawOff[b + 1]
        BY <1>2, <3>1
      <4>2. ~(k > 1 /\ Reaches(new[k - 1][1], p))
        <5> SUFFICES ASSUME k > 1 PROVE ~Reaches(new[k - 1][1], p)
          OBVIOUS
        <5>1. done[t] > 0 /\ done[t] \in 1 .. done[t] /\ k - 1 = done[t]
          BY <1>2, <3>1
        <5>2. new[k - 1] = buf[t][done[t]]
          BY <1>1, <5>1
        <5>3. ~Reaches(buf[t][done[t]][1], off + done[t])
          BY <1>0, <1>3, <5>1 DEF Through
        <5> HIDE DEF new, p
        <5> QED BY <4>1, <5>2, <5>3
      <4> HIDE DEF new
      <4> QED BY <2>4, <4>1, <4>2 DEF FromIn
    <3>2. CASE k > done[t] + 1
      <4>1. k - 1 \in done[t] + 1 .. done[t] + Added(t) /\ k > 1
        <5>1. done[t] \in Nat /\ Added(t) \in Nat
          BY <1>1, <1>2
        <5> HIDE DEF Added
        <5> QED BY <2>1, <3>2, <5>1
      <4>2. new[k - 1][1] = b
        BY <1>1, <4>1
      <4> HIDE DEF new
      <4> QED BY <2>3, <4>1, <4>2 DEF FromIn
    <3> QED BY <1>2, <2>1, <3>1, <3>2
  <2>6. new[k] = StreamByte(p) \/ (Long(b) /\ p >= RawOff[b + 1])
    <3>1. CASE p < RawOff[b + 1]
      BY <2>2, <2>4, <3>1 DEF StreamByte
    <3>2. CASE p >= RawOff[b + 1]
      <4>1. BlockLen[b] > RawOff[b + 1] - RawOff[b]
        BY <1>2, <2>1, <2>3, <3>2 DEF Reaches
      <4> QED BY <3>2, <4>1 DEF Long
    <3> QED BY <1>2, <2>1, <3>1, <3>2
  <2> HIDE DEF new, b
  <2> QED BY <2>2, <2>5, <2>6 DEF ByteRight
<1>6. ASSUME Added(t) > 0
      PROVE  new[done[t] + Added(t)][1] = b
  <2>1. done[t] + Added(t) \in done[t] + 1 .. done[t] + Added(t)
    BY <1>1, <1>2, <1>6
  <2> QED BY <1>1, <2>1
<1>7. \A k \in 1 .. Len(new) : k \in 1 .. done[t] \/ k \in done[t] + 1 .. done[t] + Added(t)
  BY <1>1, <1>2
<1> QED BY <1>4, <1>5, <1>6, <1>7

(* Before any call there is no wrong answer ... *)
LEMMA AnswerInit == Init => AnswerInv
<1> SUFFICES ASSUME Init PROVE AnswerInv
  OBVIOUS
<1>1. \A t \in Threads : BytesOf(t) /\ CompleteOf(t) /\ BlameOf(t) /\ Through(t) /\ Reading(t)
  BY DEF Init, BytesOf, CompleteOf, BlameOf, Through, Reading, Copied, ErrCorruptBlock
<1> QED BY <1>1, AnswerSplit

(* ... and no step of xq_reader_pread gives one ... *)
LEMMA AnswerStep ==
  ASSUME IInv, AnswerInv, [Next]_vars
  PROVE  AnswerInv'
<1> DEFINE Ans(u) == BytesOf(u) /\ CompleteOf(u) /\ BlameOf(u) /\ Through(u) /\ Reading(u)
<1> SUFFICES \A u \in Threads : Ans(u)'
  BY AnswerSplitNext
<1>a. \A u \in Threads : Ans(u)
  BY AnswerSplit
<1>b. \A u \in Threads : CallInvOf(u)
  BY DEF IInv, CallInv
<1> USE DEF IInv
<1>1. ASSUME NEW t \in Threads, NEW r \in Requests, Call(t, r)
      PROVE  \A u \in Threads : Ans(u)'
  <2>1. \A u \in Threads : u # t => Ans(u)'
    BY <1>1, <1>a, AnswerFrame DEF Call, TypeOK, Copied
  <2>2. r.off \in Nat /\ RawSize \in Nat
    BY RequestAssumption, IndexAssumption DEF RawSize
  <2>3. /\ buf'[t] = <<>> /\ ret'[t] = 0 /\ done'[t] = 0
        /\ pc'[t] = "lookup" \/ (pc'[t] = "idle" /\ req'[t].n = 0)
    BY <1>1, <2>2 DEF Call, TypeOK
  <2>4. Ans(t)'
    BY <2>3 DEF BytesOf, CompleteOf, BlameOf, Through, Reading, Copied, ErrCorruptBlock
  <2> QED BY <2>1, <2>4
<1>2. ASSUME NEW t \in Threads, LookupHit(t) \/ Fill(t)
      PROVE  \A u \in Threads : Ans(u)'
  <2>1. \A u \in Threads : u # t => Ans(u)'
    BY <1>2, <1>a, AnswerFrame DEF LookupHit, Fill, TypeOK, Copied
  <2>2. pc[t] \in {"lookup", "fill"}
    BY <1>2 DEF LookupHit, Fill
  <2>3. buf'[t] = NewBuf(t)
    <3>1. CASE LookupHit(t)
      BY <3>1, HitFacts DEF LookupHit, TypeOK, NewBuf
    <3>2. CASE Fill(t)
      <4>1. sraw[slot[t]] = bi[t]
        BY <3>2, <1>b DEF Fill, CallInvOf
      <4> QED BY <3>2, <4>1 DEF Fill, TypeOK, NewBuf
    <3> QED BY <1>2, <3>1, <3>2
  <2>4. /\ req'[t] = req[t] /\ done'[t] = done[t] /\ bi'[t] = bi[t]
        /\ pc'[t] \in {"advance", "release"} /\ st'[t] = st[t]
    BY <1>2 DEF LookupHit, Fill, TypeOK
  <2>5. /\ \A k \in 1 .. Len(NewBuf(t)) : ByteRight(req[t].off, NewBuf(t), k)
        /\ Added(t) > 0 => NewBuf(t)[done[t] + Added(t)][1] = bi[t]
    BY <2>2, NewBufRight
  <2>6. BytesOf(t)'
    BY <2>3, <2>4, <2>5 DEF BytesOf
  <2>7. CompleteOf(t)' /\ BlameOf(t)'
    BY <2>4 DEF CompleteOf, BlameOf
  <2>8. Copied(t)'
    <3>1. st[t] = OK
      BY <2>2, <1>b DEF CallInvOf
    <3> QED BY <2>4, <3>1 DEF Copied
  <2>9. Through(t)'
    BY <2>8 DEF Through
  <2>10. Reading(t)'
    <3>1. Added(t)' = Added(t)
      BY <2>4 DEF Added, Within
    <3> QED BY <2>3, <2>4, <2>5, <3>1 DEF Reading
  <2> QED BY <2>1, <2>6, <2>7, <2>9, <2>10
<1>3. ASSUME NEW t \in Threads,
             \/ LookupMiss(t) \/ SlotWait(t) \/ SpuriousWake(t) \/ SlotAcquire(t)
             \/ Fetch(t) \/ FetchFails(t) \/ DecodeOK(t) \/ DecodeFails(t)
      PROVE  \A u \in Threads : Ans(u)'
  <2>1. UNCHANGED <<req, buf, ret, bi, done>>
    BY <1>3 DEF LookupMiss, SlotWait, SpuriousWake, SlotAcquire, Fetch, FetchFails, DecodeOK,
                DecodeFails, callVars
  <2>2. \A u \in Threads : u # t => pc'[u] = pc[u] /\ st'[u] = st[u]
    BY <1>3 DEF LookupMiss, SlotWait, SpuriousWake, SlotAcquire, Fetch, FetchFails, DecodeOK,
                DecodeFails, callVars, TypeOK
  <2>3. /\ pc[t] \in {"lookup", "acquire", "waitslot", "fetch", "decode"}
        /\ \/ pc'[t] \in {"acquire", "waitslot", "fetch", "decode", "fill"}
           \/ pc'[t] = "release" /\ st'[t] # OK
    BY <1>3 DEF LookupMiss, SlotWait, SpuriousWake, SlotAcquire, Fetch, FetchFails, DecodeOK,
                DecodeFails, TypeOK, OK, ErrIO, ErrCorruptBlock
  <2>4. \A u \in Threads : Copied(u)' <=> Copied(u)
    BY <2>2, <2>3 DEF Copied
  <2>5. \A u \in Threads : pc'[u] = pc[u] \/ (pc'[u] # "idle" /\ pc[u] # "idle")
    BY <2>2, <2>3
  <2> QED BY <2>1, <2>4, <2>5, <1>a, AnswerFrame
<1>4. ASSUME NEW t \in Threads, SlotRelease(t)
      PROVE  \A u \in Threads : Ans(u)'
  <2>1. PICK p \in [Threads -> Pc] : p = [pc EXCEPT ![t] = AfterRelease(t)]
    <3>1. [pc EXCEPT ![t] = AfterRelease(t)] \in [Threads -> Pc]
      BY DEF AfterRelease, TypeOK, Pc
    <3> QED BY <3>1
  <2>2. /\ \A u \in Threads : p[u] # "waitslot" => pc'[u] = p[u]
        /\ \A u \in Threads : p[u] = "waitslot" => pc'[u] \in {"waitslot", "acquire"}
    BY <1>4, <2>1, SignalIs DEF SlotRelease
  <2>3. /\ UNCHANGED <<req, buf, bi, done, st>> /\ \A u \in Threads : u # t => ret'[u] = ret[u]
        /\ pc[t] = "release"
    BY <1>4 DEF SlotRelease, TypeOK
  <2>4. \A u \in Threads : u # t => p[u] = pc[u]
    BY <2>1 DEF TypeOK
  <2>5. \A u \in Threads : u # t => Ans(u)'
    <3>1. \A u \in Threads : u # t => \/ pc'[u] = pc[u]
                                      \/ pc[u] = "waitslot" /\ pc'[u] \in {"waitslot", "acquire"}
      BY <2>2, <2>4
    <3>2. \A u \in Threads : u # t => (Copied(u)' <=> Copied(u))
      BY <2>3, <3>1 DEF Copied
    <3> QED BY <2>3, <3>1, <3>2, <1>a, AnswerFrame
  <2>6. CASE st[t] = OK
    <3>1. pc'[t] = "advance"
      BY <2>6, <2>1, <2>2 DEF AfterRelease, TypeOK
    <3>2. Copied(t)' <=> Copied(t)
      BY <2>3, <2>6, <3>1 DEF Copied
    <3>3. Ans(t)'
      BY <3>1, <3>2, <2>3, <1>a, AnswerFrame
    <3> QED BY <2>5, <3>3
  <2>7. CASE st[t] # OK
    <3>1. ret'[t] = -st[t] /\ pc[t] = "release"
      BY <1>4, <2>7 DEF SlotRelease, TypeOK
    <3>2. st[t] \in {34, 48}
      BY <2>7 DEF TypeOK, OK, Errors, ErrIO, ErrCorruptBlock
    <3>3. ~ (ret'[t] >= 0) /\ (ret'[t] = -ErrCorruptBlock => st[t] = ErrCorruptBlock)
      BY <3>1, <3>2 DEF ErrCorruptBlock
    <3>4. BytesOf(t)' /\ Through(t)' /\ Reading(t)'
      <4>1. pc'[t] = "idle"
        BY <2>7, <2>1, <2>2 DEF AfterRelease, TypeOK
      <4> QED BY <2>3, <4>1, <1>a, BytesFrame DEF Through, Reading, Copied
    <3>5. CompleteOf(t)'
      BY <3>3 DEF CompleteOf
    <3>6. st[t] = ErrCorruptBlock => bi[t] \in Bad
      BY <3>1, <1>b DEF CallInvOf
    <3>7. bi[t] \in Blocks /\ RawOff[bi[t]] < req[t].off + req[t].n /\ req[t].off < RawOff[bi[t] + 1]
      <4>1. pc[t] # "idle"
        BY <3>1
      <4> HIDE DEF Within
      <4> QED BY <4>1, CallFacts
    <3>8. BlameOf(t)'
      BY <2>3, <3>3, <3>6, <3>7 DEF BlameOf
    <3> QED BY <2>5, <3>4, <3>5, <3>8
  <2> QED BY <2>6, <2>7
<1>5. ASSUME NEW t \in Threads, AdvanceShort(t)
      PROVE  \A u \in Threads : Ans(u)'
  <2>1. \A u \in Threads : u # t => Ans(u)'
    BY <1>5, <1>a, AnswerFrame DEF AdvanceShort, TypeOK, Copied
  <2>2. /\ ret'[t] = -ErrCorruptBlock /\ pc[t] = "advance" /\ Within(t) >= blen[t]
        /\ UNCHANGED <<req, buf>> /\ pc'[t] = "idle"
    BY <1>5 DEF AdvanceShort, TypeOK
  <2>3. blen[t] = BlockLen[bi[t]]
    BY <2>2, <1>b DEF CallInvOf, Copied
  <2>4. /\ bi[t] \in Blocks
        /\ BlockLen[bi[t]] < RawOff[bi[t] + 1] - RawOff[bi[t]]
        /\ RawOff[bi[t]] < req[t].off + req[t].n
        /\ req[t].off < RawOff[bi[t] + 1]
    <3>1. pc[t] # "idle"
      BY <2>2
    <3> HIDE DEF Within
    <3> QED BY <3>1, <2>2, <2>3, CallFacts
  <2>5. BlameOf(t)'
    BY <2>2, <2>4 DEF BlameOf, Short
  <2>6. BytesOf(t)' /\ Through(t)' /\ Reading(t)'
    BY <2>2, <1>a, BytesFrame DEF Through, Reading, Copied
  <2>7. CompleteOf(t)'
    BY <2>2 DEF CompleteOf, ErrCorruptBlock
  <2> QED BY <2>1, <2>5, <2>6, <2>7
<1>6. ASSUME NEW t \in Threads, AdvanceDone(t)
      PROVE  \A u \in Threads : Ans(u)'
  <2>1. \A u \in Threads : u # t => Ans(u)'
    BY <1>6, <1>a, AnswerFrame DEF AdvanceDone, TypeOK, Copied
  <2>2. /\ ret'[t] = done[t] + Took(t) /\ pc[t] = "advance" /\ Within(t) < blen[t]
        /\ done[t] + Took(t) >= req[t].n
        /\ UNCHANGED <<req, buf>> /\ pc'[t] = "idle"
    BY <1>6 DEF AdvanceDone, TypeOK
  <2>3. Took(t) = Added(t) /\ Took(t) \in Nat /\ done[t] + Took(t) <= req[t].n
    BY <2>2, TookFacts
  <2>4. Len(buf[t]) = done[t] + Added(t)
    BY <2>2, <1>b DEF CallInvOf, Copied
  <2>5. done[t] \in Nat /\ req[t].n \in Nat
    BY DEF TypeOK
  <2>6. ret'[t] = req[t].n /\ Len(buf'[t]) = req'[t].n
    BY <2>2, <2>3, <2>4, <2>5
  <2>7. BytesOf(t)' /\ Through(t)' /\ Reading(t)'
    BY <2>2, <1>a, BytesFrame DEF Through, Reading, Copied
  <2>8. CompleteOf(t)' /\ BlameOf(t)'
    BY <2>2, <2>5, <2>6 DEF CompleteOf, BlameOf, ErrCorruptBlock
  <2> QED BY <2>1, <2>7, <2>8
<1>7. ASSUME NEW t \in Threads, AdvanceNext(t)
      PROVE  \A u \in Threads : Ans(u)'
  <2>1. \A u \in Threads : u # t => Ans(u)'
    BY <1>7, <1>a, AnswerFrame DEF AdvanceNext, TypeOK, Copied
  <2>2. /\ pc[t] = "advance" /\ pc'[t] = "lookup" /\ done'[t] = done[t] + Took(t)
        /\ Within(t) < blen[t] /\ done[t] + Took(t) < req[t].n
        /\ UNCHANGED <<req, buf>>
    BY <1>7 DEF AdvanceNext, TypeOK
  <2>3. Took(t) = Added(t) /\ Took(t) \in Nat \ {0}
    BY <2>2, TookFacts
  <2>4. blen[t] = BlockLen[bi[t]] /\ Copied(t)
    BY <2>2, <1>b DEF CallInvOf, Copied
  <2>5. buf[t][done[t] + Took(t)][1] = bi[t]
    BY <2>3, <2>4, <1>a DEF Reading
  <2>6. ~Reaches(bi[t], req[t].off + done[t] + Took(t))
    <3>1. /\ req[t].off \in Nat /\ req[t].n \in Nat /\ done[t] \in Nat /\ Within(t) \in Nat
          /\ req[t].off + done[t] = RawOff[bi[t]] + Within(t)
          /\ RawOff[bi[t]] \in Nat /\ BlockLen[bi[t]] \in Nat
      BY <2>2, CallFacts
    <3> HIDE DEF Within
    <3>2. Took(t) = blen[t] - Within(t)
      BY <2>2, <2>4, <3>1 DEF Took, Smaller
    <3> QED BY <2>4, <3>1, <3>2 DEF Reaches
  <2>7. Through(t)'
    <3>1. req[t].off + done'[t] = req[t].off + done[t] + Took(t)
      BY <2>2, <2>3 DEF TypeOK
    <3>2. ~Reaches(buf'[t][done'[t]][1], req'[t].off + done'[t])
      BY <2>2, <2>5, <2>6, <3>1
    <3> QED BY <3>2 DEF Through, Reaches
  <2>8. Ans(t)'
    BY <2>2, <2>7, <1>a, BytesFrame DEF CompleteOf, BlameOf, Reading, Copied
  <2> QED BY <2>1, <2>8
<1>8. CASE UNCHANGED vars
  BY <1>8, <1>a, AnswerFrame DEF vars, callVars, Copied
<1> QED BY <1>1, <1>2, <1>3, <1>4, <1>5, <1>6, <1>7, <1>8 DEF Next, Step, Terminated

(* ... so there never is one. *)
LEMMA AnswerCorrect == Spec => []AnswerInv
<1>1. IInv /\ AnswerInv /\ [Next]_vars => AnswerInv'
  BY AnswerStep
<1> QED BY <1>1, AnswerInit, InvCorrect, PTL DEF Spec

(* What a pread copies is a matter of the file and the offset alone,       *)
(* whatever the other threads evict or decode meanwhile; it is the stream  *)
(* that the index promises, save where a block longer than its entry goes  *)
(* on; and a pread that succeeds copies all of what was asked for.         *)
THEOREM BytesCorrect == Spec => []BytesRight
BY AnswerCorrect, PTL DEF AnswerInv

(* A pread answers XQ_ERR_CORRUPT_BLOCK only for a damaged block of its    *)
(* own range.                                                              *)
THEOREM BlameCorrect == Spec => []NoSpuriousCorruption
BY AnswerCorrect, PTL DEF AnswerInv

-----------------------------------------------------------------------------
(* Counting: the cache's eviction order and the signals of slot_cv *)

(* Entries in use and at least as old as i's block have distinct ages from *)
(* that of i to the clock, so there are no more entries than ages.         *)
LEMMA AgesCount ==
  ASSUME TypeOK, CacheSound, NEW i \in Entries, cache[i].block # None,
         \A j \in Entries : cache[i].used <= cache[j].used
  PROVE  clock + 1 >= cache[i].used + NCache
<1> USE PoolAssumption
<1> DEFINE Ages == cache[i].used .. clock
           age == [j \in Entries |-> cache[j].used]
<1>1. clock \in Nat /\ cache[i].used \in 1 .. clock
  BY DEF TypeOK, CacheSound
<1>2. \A j \in Entries : cache[j].used \in Ages /\ cache[j].used # 0
  <2> TAKE j \in Entries
  <2>1. cache[j].used \in Nat /\ cache[j].used >= cache[i].used
    BY DEF TypeOK, Entry
  <2>2. cache[j].used <= clock
    BY <2>1, <1>1 DEF CacheSound
  <2> QED BY <2>1, <2>2, <1>1
<1>3. \A j, k \in Entries : j # k => cache[j].used # cache[k].used
  BY <1>2 DEF CacheSound
<1>4. age \in Injection(Entries, Ages)
  BY <1>2, <1>3 DEF Injection, IsInjective
<1>5. IsFiniteSet(Ages) /\ Cardinality(Ages) = clock - cache[i].used + 1
  BY <1>1, FS_Interval
<1>6. Cardinality(Entries) = NCache
  BY FS_Interval DEF Entries
<1>7. Cardinality(Entries) <= Cardinality(Ages)
  <2> HIDE DEF age, Ages
  <2> QED BY <1>4, <1>5, FS_Injection
<1> QED BY <1>1, <1>5, <1>6, <1>7

(* block_copy evicts a block only after the cache was used r->cache_n      *)
(* times since the block was: the eviction scan finds the oldest entry.    *)
THEOREM RetentionCorrect == Spec => RetentionDepth
<1> DEFINE Keeps == \A i \in Entries :
             cache[i].block # None /\ cache'[i].block # cache[i].block =>
               clock' >= cache[i].used + NCache
<1>1. IInv /\ [Next]_vars => Keeps
  <2> SUFFICES ASSUME IInv, [Next]_vars, NEW i \in Entries,
                      cache[i].block # None, cache'[i].block # cache[i].block
               PROVE  clock' >= cache[i].used + NCache
    OBVIOUS
  <2> USE DEF IInv
  <2>1. ASSUME NEW t \in Threads, LookupHit(t)
        PROVE  FALSE
    BY <2>1, HitFacts DEF LookupHit, TypeOK, Entry
  <2>2. ASSUME NEW t \in Threads, Fill(t)
        PROVE  clock' >= cache[i].used + NCache
    <3>1. i = Victim /\ clock' = clock + 1
      BY <2>2 DEF Fill, TypeOK
    <3>2. \A j \in Entries : cache[i].used <= cache[j].used
      BY <3>1, VictimIs
    <3> QED BY <3>1, <3>2, AgesCount
  <2>3. ASSUME cache' = cache
        PROVE  FALSE
    BY <2>3
  <2>4. ASSUME NEW t \in Threads,
               \/ \E r \in Requests : Call(t, r)
               \/ LookupMiss(t) \/ SlotAcquire(t) \/ SlotWait(t) \/ SpuriousWake(t)
               \/ Fetch(t) \/ FetchFails(t) \/ DecodeOK(t) \/ DecodeFails(t)
               \/ SlotRelease(t)
               \/ AdvanceShort(t) \/ AdvanceNext(t) \/ AdvanceDone(t)
        PROVE  FALSE
    BY <2>3, <2>4 DEF Call, LookupMiss, SlotAcquire, SlotWait, SpuriousWake, Fetch, FetchFails,
                      DecodeOK, DecodeFails, SlotRelease, AdvanceShort, AdvanceNext, AdvanceDone,
                      cacheVars
  <2>5. CASE UNCHANGED vars
    BY <2>3, <2>5 DEF vars, cacheVars
  <2> QED BY <2>1, <2>2, <2>4, <2>5 DEF Next, Step, Terminated
<1>2. IInv /\ [Next]_vars => [Keeps]_vars
  BY <1>1
<1> QED BY <1>2, InvCorrect, PTL DEF Spec, RetentionDepth

Sleepers == {t \in Threads : pc[t] = "waitslot"}
Takers == {t \in Threads : pc[t] = "acquire"}

(* Takers and free slots are finite, before and after a step. *)
LEMMA CountsFinite ==
  /\ IsFiniteSet(Takers) /\ IsFiniteSet(Takers')
  /\ IsFiniteSet(FreeSlots) /\ IsFiniteSet(FreeSlots')
<1>1. IsFiniteSet(Slots)
  BY PoolAssumption, FS_Interval DEF Slots
<1>2. Takers \in SUBSET Threads /\ Takers' \in SUBSET Threads
  BY DEF Takers
<1>3. FreeSlots \in SUBSET Slots /\ FreeSlots' \in SUBSET Slots
  BY DEF FreeSlots
<1> QED BY <1>1, <1>2, <1>3, ThreadsAssumption, FS_Subset

(* slot_acquire waits only when no slot is free, and slot_release wakes    *)
(* one waiter for the one slot it frees.                                   *)
LEMMA SignalledStep ==
  ASSUME IInv, SlotSignalled, [Next]_vars
  PROVE  SlotSignalled'
<1> USE DEF IInv
<1> DEFINE F == Cardinality(FreeSlots)
           T == Cardinality(Takers)
<1>1. F \in Nat /\ T \in Nat /\ F' \in Nat /\ T' \in Nat
  BY CountsFinite, FS_CardinalityType
<1>2. SlotSignalled <=> (Sleepers # {} => F <= T)
  BY DEF SlotSignalled, Sleepers, Takers
<1>3. SlotSignalled' <=> (Sleepers' # {} => F' <= T')
  BY DEF SlotSignalled, Sleepers, Takers
<1>4. ASSUME FreeSlots' = FreeSlots, Takers \subseteq Takers', Sleepers' \subseteq Sleepers
      PROVE  SlotSignalled'
  <2>1. T <= T'
    BY <1>4, CountsFinite, FS_Subset
  <2> QED BY <1>1, <1>2, <1>3, <1>4, <2>1
<1>5. ASSUME NEW t \in Threads, SlotAcquire(t)
      PROVE  SlotSignalled'
  <2>1. PICK s \in FreeSlots : busy' = [busy EXCEPT ![s] = TRUE]
    BY <1>5, FirstFreeIs DEF SlotAcquire
  <2>2. FreeSlots' = FreeSlots \ {s}
    BY <2>1 DEF FreeSlots, TypeOK
  <2>3. t \in Takers /\ Takers' = Takers \ {t} /\ Sleepers' = Sleepers
    BY <1>5 DEF SlotAcquire, Takers, Sleepers, TypeOK
  <2>4. F' = F - 1 /\ T' = T - 1
    BY <2>1, <2>2, <2>3, CountsFinite, FS_RemoveElement
  <2> QED BY <1>1, <1>2, <1>3, <2>3, <2>4
<1>6. ASSUME NEW t \in Threads, SlotWait(t)
      PROVE  SlotSignalled'
  <2>1. FreeSlots' = {}
    BY <1>6 DEF SlotWait, FreeSlots, slotVars
  <2>2. F' = 0
    BY <2>1, FS_EmptySet
  <2> QED BY <1>1, <1>3, <2>2
<1>7. ASSUME NEW t \in Threads, SlotRelease(t)
      PROVE  SlotSignalled'
  <2> DEFINE p == [pc EXCEPT ![t] = AfterRelease(t)]
  <2>1. FreeSlots' = FreeSlots \cup {slot[t]} /\ slot[t] \notin FreeSlots
    BY <1>7 DEF SlotRelease, FreeSlots, SlotOwnership, Holds, TypeOK
  <2>2. F' = F + 1
    BY <2>1, CountsFinite, FS_AddElement
  <2>3. /\ {u \in Threads : p[u] = "waitslot"} = Sleepers
        /\ {u \in Threads : p[u] = "acquire"} = Takers
    BY <1>7 DEF SlotRelease, AfterRelease, Sleepers, Takers, TypeOK
  <2>4. CASE Sleepers = {}
    <3>1. pc' = p
      BY <1>7, <2>3, <2>4 DEF SlotRelease, Signal
    <3> QED BY <1>3, <2>3, <2>4, <3>1 DEF Sleepers
  <2>5. CASE Sleepers # {}
    <3>1. PICK w \in Sleepers : pc' = [p EXCEPT ![w] = "acquire"]
      BY <1>7, <2>3, <2>5 DEF SlotRelease, Signal
    <3>2. w \notin Takers /\ Takers' = Takers \cup {w}
      BY <2>3, <3>1 DEF Takers, Sleepers, TypeOK
    <3>3. T' = T + 1
      BY <3>2, CountsFinite, FS_AddElement
    <3> QED BY <1>1, <1>2, <1>3, <2>2, <2>5, <3>3
  <2> QED BY <2>4, <2>5
<1>8. ASSUME NEW t \in Threads, LookupMiss(t) \/ SpuriousWake(t)
      PROVE  SlotSignalled'
  <2>1. pc' = [pc EXCEPT ![t] = "acquire"] /\ busy' = busy
    BY <1>8 DEF LookupMiss, SpuriousWake, slotVars
  <2> QED BY <1>4, <2>1 DEF FreeSlots, Takers, Sleepers, TypeOK
<1>9. ASSUME NEW t \in Threads,
             \/ \E r \in Requests : Call(t, r)
             \/ LookupHit(t) \/ Fetch(t) \/ FetchFails(t) \/ DecodeOK(t) \/ DecodeFails(t)
             \/ Fill(t) \/ AdvanceShort(t) \/ AdvanceNext(t) \/ AdvanceDone(t)
      PROVE  SlotSignalled'
  <2>1. busy' = busy
    BY <1>9 DEF Call, LookupHit, Fetch, FetchFails, DecodeOK, DecodeFails, Fill, AdvanceShort,
                AdvanceNext, AdvanceDone, slotVars
  <2>2. /\ pc[t] \notin {"acquire", "waitslot"}
        /\ \E q \in Pc : q \notin {"acquire", "waitslot"} /\ pc' = [pc EXCEPT ![t] = q]
    <3>1. CASE \E r \in Requests : Call(t, r)
      <4>1. pc[t] = "idle" /\ (pc' = pc \/ pc' = [pc EXCEPT ![t] = "lookup"])
        BY <3>1 DEF Call
      <4>2. pc = [pc EXCEPT ![t] = pc[t]]
        BY DEF TypeOK
      <4> QED BY <4>1, <4>2 DEF Pc
    <3>2. CASE \/ LookupHit(t) \/ Fetch(t) \/ FetchFails(t) \/ DecodeOK(t) \/ DecodeFails(t)
               \/ Fill(t) \/ AdvanceShort(t) \/ AdvanceNext(t) \/ AdvanceDone(t)
      BY <3>2 DEF LookupHit, Fetch, FetchFails, DecodeOK, DecodeFails, Fill, AdvanceShort,
                  AdvanceNext, AdvanceDone, Pc
    <3> QED BY <1>9, <3>1, <3>2
  <2> QED BY <1>4, <2>1, <2>2 DEF FreeSlots, Takers, Sleepers, TypeOK
<1>10. CASE UNCHANGED vars
  BY <1>4, <1>10 DEF vars, slotVars, FreeSlots, Takers, Sleepers
<1> QED BY <1>5, <1>6, <1>7, <1>8, <1>9, <1>10 DEF Next, Step, Terminated

(* The one xq_cond_signal of slot_release is never lost: no thread sleeps  *)
(* while a slot is free that no woken thread is about to take.             *)
THEOREM SignalledCorrect == Spec => []SlotSignalled
<1>1. Init => SlotSignalled
  BY DEF Init, SlotSignalled
<1>2. IInv /\ SlotSignalled /\ [Next]_vars => SlotSignalled'
  BY SignalledStep
<1> QED BY <1>1, <1>2, InvCorrect, PTL DEF Spec

-----------------------------------------------------------------------------
(***************************************************************************)
(* xq_reader_verify: its report is that of the file, and a reader may rely *)
(* on it.  The report is followed block by block (VerifyInv); what the     *)
(* reads answer is proved above, and a verifying thread does not disturb   *)
(* them.                                                                   *)
(***************************************************************************)


(* The blocks that have been looked at, and those of them that are blamed. *)
Seen == 0 .. vi - 1
Blamed == { b \in Seen : b \in Bad \cup unread }

Report == [blocks_ok : Int, blocks_bad : Nat, bytes_verified : Nat,
           first_bad_raw_offset : Int, first_bad_status : Int,
           checksummable : BOOLEAN, stream_checksum : {"ABSENT", "SKIP", "OK", "BAD"}]

(* The first of the blamed blocks is the one that the report names. *)
NamesFirst ==
  /\ Blamed = {} => rep.first_bad_raw_offset = NoOffset
  /\ Blamed # {} =>
       \E b \in Blamed :
         /\ \A c \in Blamed : b <= c
         /\ rep.first_bad_raw_offset = RawOff[b]
         /\ rep.first_bad_status = IF b \in unread THEN ErrIO ELSE ErrCorruptBlock

(* The bytes that are counted fill the blocks seen so far when all of them *)
(* are good and whole, and do not make up for one that is not unless a     *)
(* good one is longer than its entry.                                      *)
BytesCounted ==
  (\A b \in Seen : Long(b) => b \in Blamed) =>
    /\ rep.bytes_verified <= RawOff[vi]
    /\ (\E b \in Seen : b \in Blamed \/ Short(b)) => rep.bytes_verified < RawOff[vi]

(* The report is right about the blocks seen so far. *)
Tally ==
  /\ rep.blocks_bad = Cardinality(Blamed)
  /\ rep.blocks_ok = vi - Cardinality(Blamed)
  /\ rep.checksummable <=> Blamed = {} /\ FooterCk # "absent"
  /\ NamesFirst
  /\ BytesCounted

Compared ==
  /\ vret = OK <=> Blamed = {}
  /\ rep.stream_checksum \in {"OK", "BAD"} => Blamed = {}
  /\ rep.stream_checksum = "SKIP" <=> Blamed # {} /\ FooterCk # "absent"

VerifyInv ==
  /\ vpc \in {"idle", "fetch", "decode", "result"}
  /\ vi \in 0 .. NBlocks
  /\ rep \in Report
  /\ unread \subseteq Seen
  /\ vpc \in {"fetch", "decode"} => vi < NBlocks
  /\ vpc = "decode" => rcbuf = vi
  /\ vpc = "result" => vi = NBlocks
  /\ vpc # "idle" => Tally
  /\ Verified => vi = NBlocks /\ Tally /\ Compared

(* The blocks named bad can be counted. *)
LEMMA BlamedFinite ==
  ASSUME vi \in Nat
  PROVE  IsFiniteSet(Blamed) /\ Cardinality(Blamed) \in Nat
<1>1. IsFiniteSet(Seen)
  BY FS_Interval DEF Seen
<1>2. Blamed \subseteq Seen
  BY DEF Blamed
<1> QED BY <1>1, <1>2, FS_Subset, FS_CardinalityType

(* A block that is blamed is counted, and named when it is the first. *)
LEMMA CountBadStep ==
  ASSUME VerifyInv, vpc \in {"fetch", "decode"},
         vi' = vi + 1,
         NEW s, rep' = CountBad(s),
         \/ s = ErrIO /\ unread' = unread \cup {vi}
         \/ s = ErrCorruptBlock /\ unread' = unread /\ vi \in Bad
  PROVE  Tally' /\ rep' \in Report /\ unread' \subseteq Seen'
<1>1. vi \in Blocks /\ vi \in Nat /\ unread \subseteq Seen /\ rep \in Report /\ Tally
  BY IndexAssumption DEF VerifyInv, Blocks
<1>2. s \in {ErrIO, ErrCorruptBlock} /\ s \in Int
  BY DEF ErrIO, ErrCorruptBlock
<1>3. Seen' = Seen \cup {vi} /\ vi \notin Seen
  BY <1>1 DEF Seen
<1>4. Blamed' = Blamed \cup {vi} /\ vi \notin Blamed
  BY <1>1, <1>3 DEF Blamed
<1>5. Cardinality(Blamed') = Cardinality(Blamed) + 1
  BY <1>1, <1>4, BlamedFinite, FS_AddElement
<1>6. RawOff[vi] \in Nat /\ RawOff[vi + 1] \in Nat /\ RawOff[vi] < RawOff[vi + 1]
  BY <1>1, IndexAssumption DEF Blocks
<1>7. /\ rep' \in Report
      /\ rep'.blocks_bad = rep.blocks_bad + 1 /\ rep'.blocks_ok = rep.blocks_ok
      /\ rep'.checksummable = FALSE /\ rep'.bytes_verified = rep.bytes_verified
      /\ rep'.first_bad_raw_offset =
           IF rep.first_bad_raw_offset = NoOffset THEN RawOff[vi] ELSE rep.first_bad_raw_offset
      /\ rep'.first_bad_status =
           IF rep.first_bad_raw_offset = NoOffset THEN s ELSE rep.first_bad_status
  <2> DEFINE off == IF rep.first_bad_raw_offset = NoOffset THEN RawOff[vi]
                    ELSE rep.first_bad_raw_offset
             why == IF rep.first_bad_raw_offset = NoOffset THEN s ELSE rep.first_bad_status
  <2>1. rep' = [rep EXCEPT !.blocks_bad = rep.blocks_bad + 1, !.checksummable = FALSE,
                           !.first_bad_raw_offset = off, !.first_bad_status = why]
    BY <1>1 DEF CountBad, Report
  <2>2. off \in Int /\ why \in Int /\ rep.blocks_bad + 1 \in Nat
    BY <1>1, <1>2, <1>6 DEF Report
  <2> HIDE DEF off, why
  <2>3. /\ rep' \in Report
        /\ rep'.blocks_bad = rep.blocks_bad + 1 /\ rep'.blocks_ok = rep.blocks_ok
        /\ rep'.checksummable = FALSE /\ rep'.bytes_verified = rep.bytes_verified
        /\ rep'.first_bad_raw_offset = off /\ rep'.first_bad_status = why
    BY <1>1, <2>1, <2>2 DEF Report
  <2> QED BY <2>3 DEF off, why
<1>8. NamesFirst'
  <2>1. CASE Blamed = {}
    <3>1. Blamed' = {vi} /\ rep.first_bad_raw_offset = NoOffset
      BY <1>1, <1>4, <2>1 DEF Tally, NamesFirst
    <3>2. s = IF vi \in unread' THEN ErrIO ELSE ErrCorruptBlock
      BY <1>1, <1>3
    <3> QED BY <1>1, <1>7, <3>1, <3>2 DEF NamesFirst
  <2>2. CASE Blamed # {}
    <3>1. PICK b \in Blamed :
            /\ \A c \in Blamed : b <= c
            /\ rep.first_bad_raw_offset = RawOff[b]
            /\ rep.first_bad_status = IF b \in unread THEN ErrIO ELSE ErrCorruptBlock
      BY <1>1, <2>2 DEF Tally, NamesFirst
    <3>2. b \in Nat /\ b < vi /\ RawOff[b] \in Nat
      BY <1>1, <3>1, IndexAssumption DEF Blamed, Seen, Blocks
    <3>3. RawOff[b] # NoOffset
      BY <3>2 DEF NoOffset
    <3>4. b \in Blamed' /\ \A c \in Blamed' : b <= c
      BY <1>1, <1>4, <3>1, <3>2
    <3>5. b \in unread' <=> b \in unread
      BY <3>2, <1>1
    <3> QED BY <1>4, <1>7, <3>1, <3>3, <3>4, <3>5 DEF NamesFirst
  <2> QED BY <2>1, <2>2
<1>9. BytesCounted'
  <2> SUFFICES ASSUME \A b \in Seen' : Long(b) => b \in Blamed'
               PROVE  rep'.bytes_verified < RawOff[vi']
    BY <1>1, <1>6, <1>7 DEF BytesCounted, Long, Report
  <2>1. \A b \in Seen : Long(b) => b \in Blamed
    BY <1>3, <1>4
  <2>2. rep.bytes_verified <= RawOff[vi]
    BY <1>1, <2>1 DEF BytesCounted, Tally
  <2> QED BY <1>1, <1>6, <1>7, <2>2 DEF Report
<1>10. Tally'
  <2>1. Cardinality(Blamed) \in Nat
    BY <1>1, BlamedFinite
  <2> QED BY <1>1, <1>4, <1>5, <1>7, <1>8, <1>9, <2>1 DEF Tally, Report
<1> QED BY <1>1, <1>3, <1>7, <1>10

(* A good block is counted, with the bytes it holds. *)
LEMMA CountGoodStep ==
  ASSUME VerifyInv, vpc = "decode", vi' = vi + 1, unread' = unread,
         vi \notin Bad, rep' = CountGood(vi)
  PROVE  Tally' /\ rep' \in Report /\ unread' \subseteq Seen'
<1>1. vi \in Blocks /\ vi \in Nat /\ unread \subseteq Seen /\ rep \in Report /\ Tally
  BY IndexAssumption DEF VerifyInv, Blocks
<1>2. Seen' = Seen \cup {vi} /\ vi \notin Seen
  BY <1>1 DEF Seen
<1>3. Blamed' = Blamed
  BY <1>1, <1>2 DEF Blamed
<1>4. /\ RawOff[vi] \in Nat /\ RawOff[vi + 1] \in Nat /\ RawOff[vi] < RawOff[vi + 1]
      /\ BlockLen[vi] \in Nat
  BY <1>1, IndexAssumption, BlockAssumption DEF Blocks
<1>5. /\ rep' \in Report
      /\ rep'.blocks_bad = rep.blocks_bad /\ rep'.blocks_ok = rep.blocks_ok + 1
      /\ rep'.checksummable = rep.checksummable
      /\ rep'.bytes_verified = rep.bytes_verified + BlockLen[vi]
      /\ rep'.first_bad_raw_offset = rep.first_bad_raw_offset
      /\ rep'.first_bad_status = rep.first_bad_status
  <2>1. rep' = [rep EXCEPT !.blocks_ok = rep.blocks_ok + 1,
                           !.bytes_verified = rep.bytes_verified + BlockLen[vi]]
    BY <1>1 DEF CountGood, Report
  <2>2. rep.blocks_ok + 1 \in Int /\ rep.bytes_verified + BlockLen[vi] \in Nat
    BY <1>1, <1>4 DEF Report
  <2> QED BY <1>1, <2>1, <2>2 DEF Report
<1>6. NamesFirst'
  BY <1>1, <1>3, <1>5 DEF NamesFirst, Tally
<1>7. BytesCounted'
  <2> SUFFICES ASSUME \A b \in Seen' : Long(b) => b \in Blamed'
               PROVE  /\ rep'.bytes_verified <= RawOff[vi']
                      /\ (\E b \in Seen' : b \in Blamed' \/ Short(b)) =>
                           rep'.bytes_verified < RawOff[vi']
    BY DEF BytesCounted, Long, Short
  <2>0. /\ \A b \in Seen : Long(b) => b \in Blamed
        /\ BlockLen[vi] <= RawOff[vi + 1] - RawOff[vi]
    BY <1>1, <1>2, <1>3, <1>4 DEF Long, Blamed
  <2>1. rep.bytes_verified \in Nat /\ rep.bytes_verified <= RawOff[vi]
    BY <1>1, <2>0 DEF Tally, BytesCounted, Report
  <2>2. ASSUME NEW b \in Seen', b \in Blamed' \/ Short(b)
        PROVE  rep'.bytes_verified < RawOff[vi']
    <3>1. CASE b = vi
      BY <1>1, <1>2, <1>3, <1>4, <1>5, <2>0, <2>1, <2>2, <3>1 DEF Blamed, Short
    <3>2. CASE b \in Seen
      <4>1. rep.bytes_verified < RawOff[vi]
        BY <1>1, <1>3, <2>0, <2>2, <3>2 DEF Tally, BytesCounted
      <4> QED BY <1>1, <1>4, <1>5, <2>0, <2>1, <4>1
    <3> QED BY <1>2, <3>1, <3>2
  <2>3. rep'.bytes_verified <= RawOff[vi']
    BY <1>1, <1>4, <1>5, <2>0, <2>1
  <2> QED BY <2>2, <2>3
<1>8. Tally'
  <2>1. Cardinality(Blamed) \in Nat
    BY <1>1, BlamedFinite
  <2> QED BY <1>1, <1>3, <1>5, <1>6, <1>7, <2>1 DEF Tally, Report
<1> QED BY <1>1, <1>2, <1>5, <1>8

(* The invariant of the verifying thread holds when nothing is verified *)
(* yet,                                                                 *)
LEMMA VerifyInvStart == VerifyInit => VerifyInv
<1> SUFFICES ASSUME VerifyInit PROVE VerifyInv
  OBVIOUS
<1>1. vi = 0 /\ vpc = "idle" /\ unread = {} /\ rep = EmptyReport /\ vret = None
  BY DEF VerifyInit
<1>2. rep \in Report
  BY <1>1 DEF EmptyReport, Report, NoOffset, OK
<1>3. ~Verified
  BY <1>1 DEF Verified, None, OK, ErrCorruptBlock
<1> QED BY <1>1, <1>2, <1>3, IndexAssumption DEF VerifyInv

(* Nothing has been seen when a call begins. *)
LEMMA TallyStart ==
  ASSUME vi' = 0, rep' = EmptyReport
  PROVE  Tally' /\ rep' \in Report
<1>1. Seen' = {} /\ Blamed' = {}
  BY DEF Seen, Blamed
<1>2. Cardinality(Blamed') = 0
  BY <1>1, FS_EmptySet
<1>3. NamesFirst' /\ BytesCounted'
  BY <1>1, IndexAssumption DEF NamesFirst, BytesCounted, EmptyReport, Seen
<1>4. rep'.blocks_bad = 0 /\ rep'.blocks_ok = 0 /\ (rep'.checksummable <=> FooterCk # "absent")
  BY DEF EmptyReport
<1>5. rep' \in Report
  BY DEF EmptyReport, Report, NoOffset, OK
<1> QED BY <1>1, <1>2, <1>3, <1>4, <1>5 DEF Tally

(* every step of every thread keeps it, *)
LEMMA VerifyInvStep == VerifyInv /\ [VerifyNext]_allVars => VerifyInv'
<1> SUFFICES ASSUME VerifyInv, [VerifyNext]_allVars PROVE VerifyInv'
  OBVIOUS
<1>1. CASE UNCHANGED verifyVars
  BY <1>1 DEF verifyVars, VerifyInv, Seen, Blamed, Tally, NamesFirst, BytesCounted, Long, Short, Compared, Verified
<1>2. CASE VerifyCall
  <2>1. vi' = 0 /\ rep' = EmptyReport /\ unread' = {}
    BY <1>2 DEF VerifyCall
  <2>2. vpc' = "fetch" \/ (vpc' = "idle" /\ vret' = ErrOOM)
    BY <1>2 DEF VerifyCall
  <2>3. ~Verified'
    BY <2>2 DEF Verified, ErrOOM, OK, ErrCorruptBlock
  <2> QED BY <2>1, <2>2, <2>3, TallyStart, IndexAssumption DEF VerifyInv
<1>3. CASE VerifyFetch
  <2>1. /\ vpc = "fetch" /\ vpc' = "decode" /\ rcbuf' = vi
        /\ vi' = vi /\ unread' = unread /\ rep' = rep
    BY <1>3 DEF VerifyFetch
  <2>2. Tally' /\ ~Verified'
    BY <2>1 DEF VerifyInv, Seen, Blamed, Tally, NamesFirst, BytesCounted, Long, Short, Verified
  <2> QED BY <2>1, <2>2 DEF VerifyInv, Seen
<1>4. CASE VerifyFetchFails \/ VerifyDecode
  <2>1. /\ vpc \in {"fetch", "decode"} /\ vi' = vi + 1
        /\ vpc' = IF vi + 1 < NBlocks THEN "fetch" ELSE "result"
    BY <1>4 DEF VerifyFetchFails, VerifyDecode, Onward
  <2>2. Tally' /\ rep' \in Report /\ unread' \subseteq Seen'
    <3>1. CASE VerifyFetchFails
      BY <2>1, <3>1, CountBadStep DEF VerifyFetchFails
    <3>2. CASE VerifyDecode
      <4>1. VerifyStaging = vi /\ unread' = unread
        BY <3>2 DEF VerifyDecode, VerifyInv, VerifyStaging
      <4>2. CASE vi \in Bad
        BY <2>1, <3>2, <4>1, <4>2, CountBadStep DEF VerifyDecode
      <4>3. CASE vi \notin Bad
        BY <2>1, <3>2, <4>1, <4>3, CountGoodStep DEF VerifyDecode
      <4> QED BY <4>2, <4>3
    <3> QED BY <1>4, <3>1, <3>2
  <2>3. vi < NBlocks /\ vi \in Nat /\ ~Verified'
    BY <2>1, IndexAssumption DEF VerifyInv, Verified
  <2> QED BY <2>1, <2>2, <2>3, IndexAssumption DEF VerifyInv
<1>5. CASE VerifyReturns
  <2>1. /\ vpc = "result" /\ vpc' = "idle" /\ vi' = vi /\ unread' = unread
        /\ vret' = IF rep.blocks_bad > 0 THEN ErrCorruptBlock ELSE OK
    BY <1>5 DEF VerifyReturns
  <2> DEFINE ck == IF rep.checksummable THEN IF FooterCk = "right" THEN "OK" ELSE "BAD"
                   ELSE IF FooterCk = "absent" THEN "ABSENT" ELSE "SKIP"
  <2>2. rep' = [rep EXCEPT !.stream_checksum = ck]
    BY <1>5 DEF VerifyReturns
  <2>3. rep \in Report /\ Tally /\ vi = NBlocks
    BY <2>1 DEF VerifyInv
  <2>4. /\ rep' \in Report /\ rep'.stream_checksum = ck
        /\ rep'.blocks_bad = rep.blocks_bad /\ rep'.blocks_ok = rep.blocks_ok
        /\ rep'.checksummable = rep.checksummable /\ rep'.bytes_verified = rep.bytes_verified
        /\ rep'.first_bad_raw_offset = rep.first_bad_raw_offset
        /\ rep'.first_bad_status = rep.first_bad_status
    BY <2>2, <2>3 DEF Report
  <2>5. Blamed' = Blamed /\ Seen' = Seen
    BY <2>1 DEF Blamed, Seen
  <2>6. Tally'
    BY <2>1, <2>3, <2>4, <2>5 DEF Tally, NamesFirst, BytesCounted, Long, Short
  <2>7. rep.blocks_bad > 0 <=> Blamed # {}
    <3>1. vi \in Nat
      BY <2>3, IndexAssumption
    <3>2. Cardinality(Blamed) = 0 <=> Blamed = {}
      BY <3>1, BlamedFinite, FS_EmptySet
    <3> QED BY <2>3, <3>1, <3>2, BlamedFinite DEF Tally
  <2>8. Compared'
    BY <2>1, <2>3, <2>4, <2>5, <2>7 DEF Compared, Tally, OK, ErrCorruptBlock
  <2> QED BY <2>1, <2>3, <2>4, <2>5, <2>6, <2>8 DEF VerifyInv
<1> QED
  BY <1>1, <1>2, <1>3, <1>4, <1>5
  DEF VerifyNext, ReadNext, VerifyStep, VerifyTerminated, allVars

(* so xq_reader_verify keeps its books in every state, whatever the reads *)
(* do beside it: what it has counted is what it has seen.                 *)
THEOREM VerifyInvCorrect == VerifySpec => []VerifyInv
BY VerifyInvStart, VerifyInvStep, PTL DEF VerifySpec

(* A verifying thread does not disturb the reads: what is proved of them   *)
(* holds beside it.                                                        *)
LEMMA VerifyImplementsReads == VerifySpec => Spec
<1>1. VerifyInit => Init
  BY DEF VerifyInit
<1>2. [VerifyNext]_allVars => [Next]_vars
  BY DEF VerifyNext, ReadNext, VerifyCall, VerifyStep, VerifyFetch, VerifyFetchFails, VerifyDecode,
         VerifyReturns, VerifyTerminated, Terminated, allVars, Next
<1> QED BY <1>1, <1>2, PTL DEF VerifySpec, Spec

(* When all blocks have been seen the tally is the report VerifyExact asks *)
(* for.                                                                    *)
LEMMA AllBlamed ==
  ASSUME VerifyInv, Verified
  PROVE  Blamed = Bad \cup unread /\ vi = NBlocks /\ Tally /\ Compared /\ unread \subseteq Blocks
<1>1. vi = NBlocks /\ unread \subseteq Seen
  BY DEF VerifyInv
<1>2. Seen = Blocks
  BY <1>1 DEF Seen, Blocks
<1> QED BY <1>1, <1>2, BlockAssumption DEF Blamed, VerifyInv

(* xq_reader_verify reports the file as it is, whatever is damaged, cannot *)
(* be read, or is read beside it by any number of threads.                 *)
THEOREM VerifyCorrect == VerifySpec => []VerifyExact
<1>1. VerifyInv => VerifyExact
  <2> SUFFICES ASSUME VerifyInv, Verified PROVE VerifyExact
    BY DEF VerifyExact
  <2> QED BY AllBlamed DEF VerifyExact, Tally, NamesFirst, Compared
<1> QED BY <1>1, VerifyInvCorrect, PTL

(* A read in front of the first bad block that a report names is never     *)
(* answered with XQ_ERR_CORRUPT_BLOCK, unless a block is short, and then   *)
(* the report's bytes_verified falls short too, unless a good block is     *)
(* longer than its entry.                                                  *)
THEOREM ReportCorrect == VerifySpec => []ReportTrusted
<1>1. VerifyInv /\ TypeOK /\ NoSpuriousCorruption => ReportTrusted
  <2> SUFFICES ASSUME VerifyInv, TypeOK, NoSpuriousCorruption, Verified,
                      NEW t \in Threads,
                      pc[t] = "idle", ret[t] = -ErrCorruptBlock,
                      rep.first_bad_raw_offset # NoOffset =>
                        req[t].off + req[t].n <= rep.first_bad_raw_offset
               PROVE  /\ rep.bytes_verified < RawSize \/ \E b \in Blocks \ (Bad \cup unread) : Long(b)
                      /\ \E b \in Blocks : /\ Short(b)
                                           /\ RawOff[b] < req[t].off + req[t].n
                                           /\ req[t].off < RawOff[b + 1]
    BY DEF ReportTrusted
  <2>1. PICK b \in Blocks :
          /\ b \in Bad \/ Short(b)
          /\ RawOff[b] < req[t].off + req[t].n
          /\ req[t].off < RawOff[b + 1]
    BY DEF NoSpuriousCorruption
  <2>2. req[t].off \in Nat /\ req[t].n \in Nat
    BY DEF TypeOK
  <2>3. b \notin Blamed
    <3> SUFFICES ASSUME b \in Blamed PROVE FALSE
      OBVIOUS
    <3>1. PICK m \in Blamed : m <= b /\ rep.first_bad_raw_offset = RawOff[m]
      BY AllBlamed DEF Tally, NamesFirst
    <3>2. m \in Blocks
      BY <3>1, AllBlamed, BlockAssumption
    <3>3. RawOff[m] \in Nat /\ RawOff[b] \in Nat /\ RawOff[m] <= RawOff[b]
      BY <2>1, <3>1, <3>2, IndexAssumption DEF Blocks
    <3>4. req[t].off + req[t].n <= RawOff[m]
      BY <3>1, <3>3 DEF NoOffset
    <3> QED BY <2>1, <2>2, <3>3, <3>4
  <2>4. Short(b)
    BY <2>1, <2>3, AllBlamed
  <2>5. rep.bytes_verified < RawSize \/ \E c \in Blocks \ (Bad \cup unread) : Long(c)
    BY <2>1, <2>4, AllBlamed DEF Tally, BytesCounted, Seen, Blocks, RawSize
  <2> QED BY <2>1, <2>4, <2>5
<1> QED BY <1>1, VerifyInvCorrect, VerifyImplementsReads, ReaderTypeCorrect, BlameCorrect, PTL

=============================================================================
