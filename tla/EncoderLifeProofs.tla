-------------------------- MODULE EncoderLifeProofs --------------------------
(***************************************************************************)
(* Creation and destruction of an encoder, for every set of parameters,    *)
(* number of processors and size of a slot: which failures of mt_create    *)
(* mt_destroy does not survive, and what is left of a handle; and that the *)
(* calls on a handle without threads implement BlockStream.                *)
(***************************************************************************)
EXTENDS EncoderLife, TLAPS

(* What a handle without a ring can hold. *)
Plain == { The("handle"), The("raw"), The("cbuf"), The("cctx"), The("cdict") }

(* What the tables of a ring point at. *)
Held(r) == r[1] \in {"wcctx", "jraw", "jcbuf"}

(* Creation has come so far, without failing, that there is no ring yet. *)
Bare ==
  /\ failedAt = "none" /\ ready = {} /\ running = {}
  /\ live \subseteq Plain

(* A handle without a ring frees its buffer itself. *)
OwnRaw ==
  /\ live \subseteq Plain /\ The("handle") \in live /\ running = {}
  /\ eraw = Null \/ eraw = The("raw")
  /\ eraw = The("raw") <=> The("raw") \in live

(* A ring that mt_create has begun. *)
Ringed ==
  /\ The("ring") \in live /\ The("handle") \in live
  /\ \A r \in live : r \in Plain \/ r \in Tables \/ r = The("ring") \/ Held(r)

(* Its tables are set to zero: it can be destroyed. *)
Whole == Ringed /\ Tables \subseteq live /\ ready = Sync \cup {"tables"}

RingSteps == {"jobs", "contexts", "start"}

(* What mt_destroy may find.  e->raw moves to the ring, and its buffer is  *)
(* freed, when everything is there: a step that fails before leaves it.    *)
Ending ==
  \/ failedAt \in {"sync", "tables"} /\ "tables" \notin ready
  \/ failedAt \in RingSteps /\ Whole /\ The("raw") \in live
  \/ failedAt \in {"none", "header"} /\ Whole /\ The("raw") \notin live

(* The handle after mt_destroy, or one that never had a ring. *)
Last ==
  \/ failedAt \notin RingSteps /\ OwnRaw
  \/ /\ failedAt \in RingSteps
     /\ live \subseteq Plain /\ The("handle") \in live /\ The("raw") \in live
     /\ running = {} /\ eraw = Null

(* The inductive invariant: what there is at each step. *)
IInv ==
  /\ par \in Params
  /\ at = "sync" => ready = {}
  /\ at = "handle" => Bare /\ live = {} /\ eraw = Null
  /\ at = "buffers" => Bare /\ live = { The("handle") } /\ eraw = Null
  /\ at \in {"context", "dictionary", "ring"} => Bare /\ OwnRaw
  /\ at \in {"context", "dictionary", "ring"} => eraw = The("raw")
  /\ at \in {"sync", "tables"} => Ringed /\ The("raw") \in live /\ "tables" \notin ready
  /\ at = "tables" => ready = Sync
  /\ at \in {"jobs", "contexts", "start", "swap"} => Whole /\ The("raw") \in live
  /\ at = "swap" => failedAt = "none" /\ eraw = The("raw")
  /\ at \in {"sync", "tables", "jobs", "contexts", "start"} =>
       failedAt = "none" /\ eraw = The("raw")
  /\ at \in {"ring", "sync", "tables", "jobs", "contexts", "start", "swap"} => NThreads # 0
  /\ at \in {"header", "open"} =>
       /\ failedAt = "none"
       /\ IF NThreads = 0 THEN OwnRaw /\ eraw = The("raw") ELSE Whole /\ The("raw") \notin live
  /\ at = "free" =>
       \/ HasRing /\ Ending
       \/ ~HasRing /\ OwnRaw /\ failedAt \notin RingSteps \cup {"sync", "tables"}
  /\ at \in {"lock", "join"} => Ending /\ eraw = Null
  /\ at = "ring-free" => Ending /\ eraw = Null /\ running = {} /\ failedAt \notin {"sync", "tables"}
  /\ at = "rest" => Last
  /\ DestroyDefined
  /\ NothingLeft

-----------------------------------------------------------------------------
(* The things that are allocated once are different things. *)
LEMMA Distinct ==
  /\ The("ring") \notin Plain /\ The("ring") \notin Tables
  /\ Tables \cap Plain = {}
  /\ \A r \in Plain \cup Tables \cup {The("ring")} : ~Held(r)
  /\ Null \notin Plain
  /\ The("raw") \in Plain /\ The("handle") \in Plain
  /\ The("raw") \notin { The("handle"), The("cbuf"), The("cctx"), The("cdict") }
BY DEF Plain, Tables, The, Nth, Null, Held

(* The parameters of a handle are those it was created with. *)
LEMMA SameThreads == par' = par => NThreads' = NThreads
BY DEF NThreads, Clamped, Asked

(* xq_encoder_create asks for a natural number of workers. *)
LEMMA ThreadsNat ==
  ASSUME par \in Params
  PROVE  NThreads \in Nat
<1>1. par.threads \in Nat /\ par.limit \in Nat /\ {Cpus, MaxAuto, SlotBytes} \subseteq Nat \ {0}
  BY LifeAssumption DEF Param
<1>2. Asked \in Nat
  BY <1>1 DEF Asked, Smaller
<1>3. par.limit \div SlotBytes \in Nat
  BY <1>1
<1>4. Clamped \in Nat
  BY <1>1, <1>2, <1>3 DEF Clamped
<1> QED BY <1>4 DEF NThreads

(* Before the ring: the handle, its buffers, its context, its dictionary. *)
LEMMA PlainSteps ==
  ASSUME IInv,
         CreateHandle \/ CreateBuffers \/ CreateContext \/ CreateDictionary \/ CreateRing
  PROVE  IInv'
<1> USE DEF Fails, Create
<1>1. CASE CreateHandle
  BY <1>1, Distinct DEF CreateHandle, IInv, Bare, DestroyDefined, NothingLeft
<1>2. CASE CreateBuffers
  BY <1>2, Distinct DEF CreateBuffers, IInv, Bare, OwnRaw, Plain, HasRing, RingSteps, DestroyDefined, NothingLeft
<1>3. CASE CreateContext \/ CreateDictionary
  <2>1. PICK got \in SUBSET { The("cctx"), The("cdict") } : live' = live \cup got
    BY <1>3 DEF CreateContext, CreateDictionary
  <2>2. Bare /\ OwnRaw /\ eraw = The("raw") /\ at \in {"context", "dictionary"}
    BY <1>3 DEF CreateContext, CreateDictionary, IInv
  <2>3. ready' = ready /\ running' = running /\ eraw' = eraw /\ par' = par
    BY <1>3 DEF CreateContext, CreateDictionary
  <2>4. \/ at' \in {"dictionary", "ring", "header"} /\ failedAt' = failedAt
        \/ at' = "free" /\ failedAt' \in {"context", "dictionary"}
    BY <1>3, <2>2 DEF CreateContext, CreateDictionary
  <2>5. (at' = "ring" => NThreads # 0) /\ (at' = "header" => NThreads = 0)
    BY <1>3, <2>2, ThreadsNat DEF CreateContext, CreateDictionary, IInv
  <2>6. OwnRaw' /\ live' \subseteq Plain
    BY <2>1, <2>2, <2>3, Distinct DEF OwnRaw, Plain
  <2>7. ~HasRing'
    BY <2>6, Distinct DEF HasRing
  <2> QED
    BY <2>2, <2>3, <2>4, <2>5, <2>6, <2>7, SameThreads
    DEF IInv, Bare, RingSteps, DestroyDefined, NothingLeft
<1>4. CASE CreateRing
  <2>1. NThreads' = NThreads
    BY <1>4, SameThreads DEF CreateRing
  <2> QED
    BY <1>4, <2>1, Distinct
    DEF CreateRing, IInv, Bare, OwnRaw, HasRing, RingSteps, Ringed, DestroyDefined, NothingLeft
<1> QED BY <1>1, <1>2, <1>3, <1>4

(* mt_create: each step adds to the ring, and one that fails leaves what   *)
(* Ending says.                                                            *)
LEMMA RingStepsKeep ==
  ASSUME IInv,
         CreateSync \/ CreateTables \/ CreateJobs \/ CreateContexts \/ StartThreads \/ SwapRaw
  PROVE  IInv'
<1> USE DEF Fails, Create
<1>0. NThreads' = NThreads
  BY SameThreads DEF CreateSync, CreateTables, CreateJobs, CreateContexts, StartThreads, SwapRaw
<1>1. CASE CreateSync
  <2>1. Ringed' /\ The("raw") \in live' /\ "tables" \notin ready' /\ HasRing'
    BY <1>1 DEF CreateSync, IInv, Ringed, Sync, HasRing
  <2> QED
    BY <1>0, <1>1, <2>1 DEF CreateSync, IInv, Ending, DestroyDefined, NothingLeft
<1>2. CASE CreateTables
  <2>1. Ringed' /\ The("raw") \in live' /\ HasRing'
    BY <1>2 DEF CreateTables, IInv, Ringed, HasRing
  <2>2. \/ at' = "jobs" /\ failedAt' = failedAt /\ Whole'
        \/ at' = "free" /\ failedAt' = "tables" /\ ready' = ready
    BY <1>2, <2>1 DEF CreateTables, IInv, Whole
  <2> QED
    BY <1>0, <1>2, <2>1, <2>2 DEF CreateTables, IInv, Ending, DestroyDefined, NothingLeft
<1>3. CASE CreateJobs \/ CreateContexts
  <2>1. live' \subseteq live \cup {r \in live' : Held(r)} /\ live \subseteq live'
    <3>1. CASE CreateJobs
      <4>1. PICK k \in 0 .. NRing - 1, last \in SUBSET { Nth("jraw", NRing), Nth("jcbuf", NRing) } :
              live' = live \cup ((UNION { { Nth("jraw", i), Nth("jcbuf", i) } : i \in 1 .. k })
                                 \cup { Nth(r[1], k + 1) : r \in last })
        BY <3>1 DEF CreateJobs
      <4>2. \A i : Held(Nth("jraw", i)) /\ Held(Nth("jcbuf", i))
        BY DEF Held, Nth
      <4>3. \A r \in last : Held(Nth(r[1], k + 1))
        BY DEF Held, Nth
      <4>4. \A r \in UNION { { Nth("jraw", i), Nth("jcbuf", i) } : i \in 1 .. k } : Held(r)
        BY <4>2
      <4> QED BY <4>1, <4>3, <4>4
    <3>2. CASE CreateContexts
      <4>1. \A i : Held(Nth("wcctx", i))
        BY DEF Held, Nth
      <4> QED BY <3>2, <4>1 DEF CreateContexts
    <3> QED BY <1>3, <3>1, <3>2
  <2>2. Whole' /\ The("raw") \in live' /\ HasRing'
    BY <1>3, <2>1 DEF CreateJobs, CreateContexts, IInv, Whole, Ringed, HasRing
  <2>3. /\ at \in {"jobs", "contexts"} /\ failedAt = "none" /\ eraw' = eraw /\ par' = par
        /\ \/ at' \in {"contexts", "start"} /\ failedAt' = failedAt
           \/ at' = "free" /\ failedAt' = at
    <3>1. CASE CreateJobs
      BY <3>1 DEF CreateJobs, IInv
    <3>2. CASE CreateContexts
      BY <3>2 DEF CreateContexts, IInv
    <3> QED BY <1>3, <3>1, <3>2
  <2> QED
    BY <1>0, <2>2, <2>3 DEF IInv, Ending, RingSteps, DestroyDefined, NothingLeft
<1>4. CASE StartThreads
  <2>1. Whole' /\ The("raw") \in live' /\ HasRing'
    BY <1>4 DEF StartThreads, IInv, Whole, Ringed, HasRing
  <2> QED
    BY <1>0, <1>4, <2>1 DEF StartThreads, IInv, Ending, RingSteps, DestroyDefined, NothingLeft
<1>5. CASE SwapRaw
  <2>1. Whole' /\ The("raw") \notin live'
    BY <1>5, Distinct DEF SwapRaw, IInv, Whole, Ringed
  <2> QED
    BY <1>0, <1>5, <2>1 DEF SwapRaw, IInv, DestroyDefined, NothingLeft
<1> QED BY <1>1, <1>2, <1>3, <1>4, <1>5

(* The head of the file is written, the calls are made, the end begins. *)
LEMMA OpenSteps ==
  ASSUME IInv, CreateReturns \/ Call \/ RingCall \/ FreeCall
  PROVE  IInv'
<1>0. NThreads' = NThreads /\ par' = par /\ live' = live /\ ready' = ready /\ running' = running
  BY SameThreads DEF CreateReturns, Call, RingCall, FreeCall, lifeVars
<1>1. HasRing' = HasRing /\ (Whole => HasRing) /\ (live \subseteq Plain => ~HasRing)
  BY <1>0, Distinct DEF HasRing, Whole, Ringed
<1>2. (Whole => Whole') /\ (OwnRaw /\ eraw' = eraw => OwnRaw')
  BY <1>0 DEF Whole, Ringed, OwnRaw
<1>3. CASE CreateReturns
  <2>1. /\ at = "header" /\ eraw' = eraw
        /\ \/ at' = "open" /\ failedAt' = failedAt
           \/ at' = "free" /\ failedAt' = "header"
    BY <1>3 DEF CreateReturns, Fails
  <2> QED
    BY <1>0, <1>1, <1>2, <2>1 DEF IInv, OwnRaw, Ending, RingSteps, DestroyDefined, NothingLeft
<1>4. CASE Call
  BY <1>0, <1>1, <1>2, <1>4 DEF Call, lifeVars, IInv, OwnRaw, DestroyDefined, NothingLeft
<1>5. CASE RingCall
  <2>1. at = "open" /\ at' = at /\ failedAt' = failedAt /\ NThreads # 0
    BY <1>5 DEF RingCall
  <2> QED BY <1>0, <1>2, <2>1 DEF IInv, DestroyDefined, NothingLeft
<1>6. CASE FreeCall
  BY <1>0, <1>1, <1>2, <1>6 DEF FreeCall, IInv, OwnRaw, Ending, RingSteps, DestroyDefined, NothingLeft
<1> QED BY <1>3, <1>4, <1>5, <1>6

(* xq_encoder_free and mt_destroy. *)
LEMMA FreeSteps ==
  ASSUME IInv, FreeHandle \/ DestroyQuit \/ DestroyJoin \/ DestroyRing \/ FreeRest
  PROVE  IInv'
<1> USE DEF Destroy
<1>0. NThreads' = NThreads /\ par' = par /\ failedAt' = failedAt /\ ready' = ready
  BY SameThreads DEF FreeHandle, DestroyQuit, DestroyJoin, DestroyRing, FreeRest
<1>1. CASE FreeHandle
  <2>1. live' = live /\ running' = running /\ eraw' = IF HasRing THEN Null ELSE eraw
    BY <1>1 DEF FreeHandle
  <2>2. at = "free" /\ at' = IF HasRing THEN "lock" ELSE "rest"
    BY <1>1 DEF FreeHandle
  <2>3. Ending => Ending'
    BY <1>0, <2>1 DEF Ending, Whole, Ringed
  <2>4. OwnRaw /\ ~HasRing => OwnRaw'
    BY <2>1 DEF OwnRaw
  <2> QED
    BY <1>0, <2>1, <2>2, <2>3, <2>4 DEF IInv, Last, DestroyDefined, NothingLeft
<1>2. CASE DestroyQuit \/ DestroyJoin
  <2>1. live' = live /\ eraw' = eraw /\ at \in {"lock", "join"} /\ Ending /\ eraw = Null
    BY <1>2 DEF DestroyQuit, DestroyJoin, IInv
  <2>2. Ending'
    BY <1>0, <2>1 DEF Ending, Whole, Ringed
  <2>3. Whole => Sync \cup {"tables"} = ready
    BY DEF Whole
  <2>4. at' = "undefined" => failedAt \in {"sync", "tables"}
    BY <1>2, <2>1, <2>3 DEF DestroyQuit, DestroyJoin, Ending, Sync
  <2>5. at' \in {"join", "ring-free", "undefined"}
    BY <1>2 DEF DestroyQuit, DestroyJoin
  <2>6. at' = "ring-free" => "tables" \in ready /\ running' = {}
    BY <1>2 DEF DestroyQuit, DestroyJoin
  <2>7. "tables" \in ready => failedAt \notin {"sync", "tables"}
    BY <2>1 DEF Ending, RingSteps
  <2> QED
    BY <1>0, <2>1, <2>2, <2>4, <2>5, <2>6, <2>7 DEF IInv, DestroyDefined, NothingLeft
<1>3. CASE DestroyRing
  <2>1. /\ at = "ring-free" /\ Ending /\ Whole /\ eraw = Null /\ running = {}
        /\ failedAt \notin {"sync", "tables"}
    BY <1>3 DEF DestroyRing, IInv, Ending
  <2> DEFINE frees == { r \in live : Held(r) } \cup Tables \cup {The("ring")}
  <2>2. frees \subseteq live /\ Sync \cup {"tables"} \subseteq ready
    BY <2>1 DEF Whole, Ringed
  <2>3. at' = "rest" /\ live' = live \ frees /\ running' = running /\ eraw' = eraw
    BY <1>3, <2>2 DEF DestroyRing, Held
  <2>4. live' \subseteq Plain /\ The("handle") \in live'
        /\ (The("raw") \in live' <=> The("raw") \in live)
    BY <2>1, <2>3, Distinct DEF Whole, Ringed
  <2>5. Null # The("raw")
    BY Distinct
  <2>6. Last'
    BY <1>0, <2>1, <2>3, <2>4, <2>5 DEF Last, OwnRaw, Ending, RingSteps
  <2> QED BY <1>0, <2>3, <2>6 DEF IInv, DestroyDefined, NothingLeft
<1>4. CASE FreeRest
  <2>1. at = "rest" /\ Last
    BY <1>4 DEF FreeRest, IInv
  <2> DEFINE frees == { The("handle") } \cup ({eraw} \ {Null})
                      \cup (live \cap { The("cbuf"), The("cctx"), The("cdict") })
  <2>2. frees \subseteq live /\ running = {}
    BY <2>1 DEF Last, OwnRaw
  <2>3. at' = "over" /\ live' = live \ frees
    BY <1>4, <2>1, <2>2 DEF FreeRest
  <2>4. live' = IF failedAt \in RingSteps THEN {The("raw")} ELSE {}
    <3>1. CASE failedAt \in RingSteps
      BY <2>1, <2>3, <3>1, Distinct DEF Last, Plain
    <3>2. CASE failedAt \notin RingSteps
      BY <2>1, <2>3, <3>2, Distinct DEF Last, OwnRaw, Plain
    <3> QED BY <3>1, <3>2
  <2> QED BY <1>0, <2>3, <2>4 DEF IInv, RingSteps, DestroyDefined, NothingLeft
<1> QED BY <1>1, <1>2, <1>3, <1>4

(* What there is at each step of a handle's life, on every path. *)
THEOREM LifeInvariant == Spec => []IInv
<1>1. Init => IInv
  BY DEF Init, IInv, Bare, DestroyDefined, NothingLeft
<1>2. IInv /\ [Next]_vars => IInv'
  <2> SUFFICES ASSUME IInv, [Next]_vars PROVE IInv'
    OBVIOUS
  <2>1. CASE Terminated \/ UNCHANGED vars
    <3>1. UNCHANGED lifeVars
      BY <2>1 DEF Terminated, vars
    <3> QED
      BY <3>1 DEF lifeVars, IInv, Bare, OwnRaw, Ringed, Whole, Ending, Last, HasRing, NThreads,
                  Clamped, Asked, DestroyDefined, NothingLeft
  <2> QED
    BY <2>1, PlainSteps, RingStepsKeep, OpenSteps, FreeSteps DEF Next
<1> QED BY <1>1, <1>2, PTL DEF Spec

(* Whatever step of xq_encoder_create or mt_create fails, xq_encoder_free  *)
(* reads nothing that was never initialised and frees nothing twice: only  *)
(* a failure before mt_create's tables are set to zero is not survived.    *)
THEOREM DestroyIsDefined == Spec => []DestroyDefined
BY LifeInvariant, PTL DEF IInv

(* Nothing of a handle is left after xq_encoder_free, but the handle's own *)
(* buffer when mt_create fails between its tables and its last thread.     *)
THEOREM FreeLeavesNothing == Spec => []NothingLeft
BY LifeInvariant, PTL DEF IInv

-----------------------------------------------------------------------------
(***************************************************************************)
(* The encoder without threads implements BlockStream.  Between two steps  *)
(* e->raw holds the bytes the file does not, in order; the calls go wrong  *)
(* only by way of an error that is sticky.                                 *)
(***************************************************************************)

CreateSteps ==
  {"handle", "buffers", "context", "dictionary", "ring", "sync", "tables",
   "jobs", "contexts", "start", "swap", "header"}

(* No error is recorded and the file is not complete. *)
Healthy == sticky = "OK" /\ ~finished

SerialTypes ==
  /\ finishing \in BOOLEAN /\ finished \in BOOLEAN
  /\ raw \in Content
  /\ raw_len \in 0 .. BlockSize
  /\ rem \in Nat /\ accepted \in Nat /\ raw_offset \in Nat
  /\ out \in Seq(Block)

(* Where a call stands says how full the buffer is. *)
CallInv ==
  /\ at \in CreateSteps => pc = "create" /\ Healthy
  /\ pc \in {"create", "idle"} =>
       raw_len < BlockSize /\ (Healthy => ~finishing)
  /\ pc = "copy" => Healthy /\ ~finishing /\ raw_len < BlockSize /\ rem > 0
  /\ pc = "flush" => Healthy /\ raw_len > 0 /\ (~finishing => raw_len = BlockSize)
  /\ pc = "trailer" =>
       Healthy /\ finishing /\ raw_len = 0 /\ accepted <= Start(Len(out))

(* What was accepted is what was written, then what e->raw holds. *)
BufferInv ==
  Healthy =>
    /\ accepted = raw_offset + raw_len
    /\ \A i \in 0 .. BlockSize - 1 : i < raw_len => raw[i] = raw_offset + i
    /\ pc \in {"create", "idle", "copy", "flush"} => raw_offset = Start(Len(out))

SerialInv == SerialTypes /\ CallInv /\ BufferInv

(* The blocks follow each other without a gap. *)
LEMMA StartFacts ==
  ASSUME NEW n \in Nat
  PROVE  Start(n) \in Nat /\ Start(n + 1) = Start(n) + BlockSize
BY BlockSizeAssumption DEF Start

(* A run of the caller's bytes is buffer content. *)
LEMMA SpanType == \A o, l \in Int : Span(o, l) \in Content
BY BlockSizeAssumption DEF Span, Content, Garbage

(* What flush_block compresses is the next block of the stream. *)
LEMMA NextBlock ==
  ASSUME SerialTypes, BufferInv, Healthy, pc = "flush", raw_len > 0
  PROVE  /\ RawBytes = Span(Start(Len(out)), LenOf(Len(out), accepted))
         /\ raw_len = LenOf(Len(out), accepted)
         /\ RawBytes[0] = Start(Len(out))
         /\ SerialBlock(Len(out), accepted) \in Block
<1> DEFINE n == Len(out)
<1>0. /\ n \in Nat /\ raw_len \in Nat /\ raw_len <= BlockSize /\ BlockSize \in Nat
      /\ accepted \in Nat /\ Start(n) \in Nat
  BY StartFacts, BlockSizeAssumption DEF SerialTypes
<1>1. accepted = Start(n) + raw_len /\ raw_offset = Start(n)
  BY DEF BufferInv
<1> HIDE DEF n
<1>2. LenOf(n, accepted) = raw_len
  BY <1>0, <1>1 DEF LenOf, Smaller
<1>3. \A i \in 0 .. BlockSize - 1 : i < raw_len => raw[i] = Start(n) + i
  BY <1>1 DEF BufferInv
<1>4. RawBytes = Span(Start(n), raw_len)
  BY <1>3 DEF RawBytes, Span
<1>5. 0 \in 0 .. BlockSize - 1 /\ 0 < raw_len
  BY <1>0
<1>6. RawBytes[0] = raw[0] /\ raw[0] = Start(n) + 0
  BY <1>3, <1>5 DEF RawBytes
<1>7. SerialBlock(n, accepted) \in Block
  <2>1. Span(Start(n), raw_len) \in Content
    BY <1>0, SpanType
  <2> QED
    BY <1>0, <1>2, <2>1 DEF SerialBlock, Block
<1> QED
  BY <1>0, <1>2, <1>4, <1>6, <1>7 DEF n

(* What compress_job leaves of a block of this encoder: the block, or the  *)
(* error of the codec.                                                     *)
LEMMA SerialJob ==
  ASSUME NEW b,
         NEW res \in CompressJob([st |-> "OK", stored |-> FALSE, data |-> Span(0, 0)], b)
  PROVE  \/ res.st = "OK" /\ res.stored = (b[0] \in Incompressible) /\ res.data = b
         \/ res.st = "ERR_CODEC"
BY DEF CompressJob

(* Emitting a block either writes the next one or records an error. *)
LEMMA FlushFacts ==
  ASSUME SerialTypes, CallInv, BufferInv, FlushBlock
  PROVE  /\ Healthy /\ UNCHANGED <<finished, finishing, accepted>>
         /\ \/ /\ sticky' = "OK"
               /\ out' = Append(out, SerialBlock(Len(out), accepted))
               /\ raw_offset' = raw_offset + raw_len
            \/ /\ sticky' # "OK"
               /\ UNCHANGED <<out, raw_offset>>
<1>1. pc = "flush" /\ Healthy /\ raw_len > 0
  BY DEF FlushBlock, CallInv
<1>2. PICK res \in CompressJob([st |-> "OK", stored |-> FALSE, data |-> Span(0, 0)], RawBytes) :
        EmitJob(RawBytes, raw_len, res)
  BY DEF FlushBlock
<1>3. CASE EmitJobOK(RawBytes, raw_len, res)
  <2>1. res.st = "OK"
    BY <1>3 DEF EmitJobOK
  <2>2. res.stored = (RawBytes[0] \in Incompressible) /\ res.data = RawBytes
    BY <1>2, <2>1, SerialJob
  <2>3. raw_offset = Start(Len(out))
    BY <1>1 DEF BufferInv
  <2>4. out' = Append(out, [off |-> raw_offset, len |-> raw_len, stored |-> res.stored,
                            data |-> RawBytes, ck |-> RawBytes])
    BY <1>3, <2>2 DEF EmitJobOK
  <2>5. out' = Append(out, SerialBlock(Len(out), accepted))
    BY <1>1, <2>2, <2>3, <2>4, NextBlock DEF SerialBlock
  <2> QED
    BY <1>1, <1>3, <2>5 DEF EmitJobOK, FlushBlock, Healthy
<1>4. CASE EmitJobBad(res)
  BY <1>1, <1>4 DEF EmitJobBad, FlushBlock, Healthy
<1>5. CASE EmitJobNoMem(res) \/ EmitJobSinkFails(res)
  BY <1>1, <1>5 DEF EmitJobNoMem, EmitJobSinkFails, FlushBlock, Healthy
<1> QED
  BY <1>2, <1>3, <1>4, <1>5 DEF EmitJob

(* Outside the calls only the creation and the end of the handle move      *)
(* anything the file or e->raw's bytes depend on.                          *)
LEMMA LifeFrame ==
  ASSUME [Next]_vars
  PROVE  \/ UNCHANGED <<serialVars, fileVars>> /\ (at' \in CreateSteps => at \in CreateSteps)
         \/ /\ CreateHandle \/ FreeRest
            /\ pc' \in {pc, "freed"} /\ (at' \in CreateSteps => at \in CreateSteps /\ pc' = pc)
            /\ UNCHANGED <<finishing, raw, raw_len, rem, accepted, fileVars>>
         \/ CreateReturns
         \/ SerialCalls /\ at' = at /\ at \notin CreateSteps
<1> USE DEF CreateSteps
<1>1. CASE CreateHandle
  BY <1>1 DEF CreateHandle
<1>2. CASE CreateBuffers \/ CreateContext \/ CreateDictionary \/ CreateRing
  BY <1>2 DEF CreateBuffers, CreateContext, CreateDictionary, CreateRing, Create, Fails
<1>3. CASE CreateSync \/ CreateTables \/ CreateJobs \/ CreateContexts \/ StartThreads \/ SwapRaw
  BY <1>3 DEF CreateSync, CreateTables, CreateJobs, CreateContexts, StartThreads, SwapRaw, Create, Fails
<1>4. CASE Call
  BY <1>4 DEF Call, lifeVars
<1>5. CASE RingCall \/ FreeCall
  BY <1>5 DEF RingCall, FreeCall
<1>6. CASE FreeHandle \/ DestroyQuit \/ DestroyJoin \/ DestroyRing
  BY <1>6 DEF FreeHandle, DestroyQuit, DestroyJoin, DestroyRing, Destroy
<1>7. CASE FreeRest
  BY <1>7 DEF FreeRest
<1>8. CASE Terminated \/ UNCHANGED vars
  BY <1>8 DEF Terminated, vars, lifeVars
<1> QED
  BY <1>1, <1>2, <1>3, <1>4, <1>5, <1>6, <1>7, <1>8 DEF Next

(* A handle about to be created holds nothing and has written nothing. *)
LEMMA InitSerial == Init => SerialInv
<1> SUFFICES ASSUME Init PROVE SerialInv
  OBVIOUS
<1>1. Span(0, 0) \in Content
  BY SpanType
<1>2. Start(0) = 0 /\ BlockSize \in Nat /\ BlockSize > 0
  BY BlockSizeAssumption DEF Start
<1>3. SerialTypes
  <2>1. <<>> \in Seq(Block) /\ 0 \in 0 .. BlockSize
    BY <1>2
  <2> QED
    BY <1>1, <2>1 DEF Init, SerialInit, FileInit, SerialTypes
<1>4. CallInv
  BY <1>2 DEF Init, SerialInit, FileInit, CallInv, Healthy
<1>5. BufferInv
  BY <1>2 DEF Init, SerialInit, FileInit, BufferInv
<1> QED
  BY <1>3, <1>4, <1>5 DEF SerialInv

(* memcpy in xq_encoder_write: the bytes go behind those already there. *)
LEMMA CopyKeeps ==
  ASSUME SerialInv, Copy, UNCHANGED at, at \notin CreateSteps
  PROVE  SerialInv' /\ accepted' > accepted
<1> DEFINE take == Smaller(rem, BlockSize - raw_len)
<1>0. /\ pc = "copy" /\ Healthy /\ ~finishing /\ raw_len < BlockSize /\ rem > 0
      /\ rem \in Nat /\ raw_len \in Nat /\ accepted \in Nat /\ BlockSize \in Nat
      /\ raw_offset \in Nat
  BY BlockSizeAssumption DEF Copy, SerialInv, SerialTypes, CallInv
<1>1. /\ take \in Nat /\ take > 0 /\ take <= rem /\ raw_len + take <= BlockSize
  BY <1>0 DEF Smaller
<1>2. /\ raw_len' = raw_len + take /\ accepted' = accepted + take /\ rem' = rem - take
      /\ pc' = IF raw_len + take = BlockSize THEN "flush" ELSE "idle"
      /\ raw' = [i \in 0 .. BlockSize - 1 |->
                   IF i >= raw_len /\ i < raw_len + take
                   THEN accepted + (i - raw_len) ELSE raw[i]]
      /\ finishing' = finishing /\ UNCHANGED fileVars
  BY DEF Copy
<1> HIDE DEF take
<1>3. Healthy' /\ UNCHANGED <<out, raw_offset, finished>>
  BY <1>0, <1>2 DEF fileVars, Healthy
<1>4. SerialTypes'
  <2>1. raw' \in Content
    BY <1>0, <1>1, <1>2 DEF SerialInv, SerialTypes, Content
  <2>2. raw_len' \in 0 .. BlockSize /\ rem' \in Nat /\ accepted' \in Nat
    BY <1>0, <1>1, <1>2
  <2> QED
    BY <1>2, <1>3, <2>1, <2>2 DEF SerialInv, SerialTypes
<1>5. CallInv'
  BY <1>0, <1>1, <1>2, <1>3 DEF CallInv
<1>6. BufferInv'
  <2>1. accepted = raw_offset + raw_len /\ raw_offset = Start(Len(out))
    BY <1>0 DEF SerialInv, BufferInv
  <2>2. ASSUME NEW i \in 0 .. BlockSize - 1, i < raw_len' PROVE raw'[i] = raw_offset' + i
    <3>1. CASE i < raw_len
      <4>1. raw[i] = raw_offset + i
        BY <1>0, <3>1 DEF SerialInv, BufferInv
      <4>2. ~(i >= raw_len) /\ raw'[i] = raw[i]
        BY <1>0, <1>2, <3>1
      <4> QED
        BY <1>3, <4>1, <4>2
    <3>2. CASE i >= raw_len
      <4>1. raw'[i] = accepted + (i - raw_len)
        BY <1>2, <2>2, <3>2
      <4> QED
        BY <1>0, <1>3, <2>1, <4>1
    <3> QED
      BY <1>0, <3>1, <3>2
  <2>3. accepted' = raw_offset' + raw_len'
    BY <1>0, <1>1, <1>2, <1>3, <2>1
  <2>4. raw_offset' = Start(Len(out))'
    BY <1>3, <2>1 DEF Start
  <2> QED
    BY <2>2, <2>3, <2>4 DEF BufferInv
<1> QED
  BY <1>0, <1>1, <1>2, <1>4, <1>5, <1>6 DEF SerialInv

(* flush_block: the buffer is empty again, and its bytes are in the file   *)
(* or an error is recorded.                                                *)
LEMMA FlushKeeps ==
  ASSUME SerialInv, FlushBlock, UNCHANGED at, at \notin CreateSteps
  PROVE  SerialInv'
<1> DEFINE n == Len(out)
<1>0. /\ pc = "flush" /\ Healthy /\ raw_len > 0 /\ (~finishing => raw_len = BlockSize)
      /\ raw_len \in Nat /\ raw_len <= BlockSize /\ BlockSize \in Nat /\ BlockSize > 0
      /\ accepted \in Nat /\ raw_offset \in Nat /\ n \in Nat /\ rem \in Nat
  BY BlockSizeAssumption DEF FlushBlock, SerialInv, SerialTypes, CallInv
<1>1. /\ raw_len' = 0 /\ UNCHANGED <<finishing, raw, accepted>>
      /\ IF sticky' # "OK" THEN pc' = "idle" /\ rem' = 0
         ELSE /\ pc' = IF finishing THEN "trailer" ELSE IF rem > 0 THEN "copy" ELSE "idle"
              /\ rem' = rem
  BY DEF FlushBlock
<1>2. /\ finished' = finished
      /\ \/ /\ sticky' = "OK"
            /\ out' = Append(out, SerialBlock(n, accepted))
            /\ raw_offset' = raw_offset + raw_len
         \/ /\ sticky' # "OK"
            /\ UNCHANGED <<out, raw_offset>>
  BY FlushFacts DEF SerialInv
<1>3. SerialBlock(n, accepted) \in Block
  BY <1>0, NextBlock DEF SerialInv
<1>4. accepted = raw_offset + raw_len /\ raw_offset = Start(n)
  BY <1>0 DEF SerialInv, BufferInv
<1>5. out' \in Seq(Block) /\ raw_offset' \in Nat /\ (sticky' = "OK" => Len(out') = n + 1)
  BY <1>0, <1>2, <1>3 DEF SerialInv, SerialTypes
<1>6. SerialTypes'
  BY <1>0, <1>1, <1>2, <1>5 DEF SerialInv, SerialTypes
<1>7. CASE sticky' # "OK"
  <2>1. ~Healthy' /\ pc' = "idle"
    BY <1>1, <1>7 DEF Healthy
  <2> QED
    BY <1>0, <1>1, <1>6, <2>1 DEF SerialInv, CallInv, BufferInv
<1>8. CASE sticky' = "OK"
  <2>1. Healthy' /\ raw_offset' = accepted /\ Len(out') = n + 1
    BY <1>0, <1>2, <1>4, <1>5, <1>8 DEF Healthy
  <2>2. Start(n + 1) = Start(n) + BlockSize
    BY <1>0, StartFacts
  <2>3. accepted <= Start(n + 1) /\ (~finishing => accepted = Start(n + 1))
    BY <1>0, <1>4, <2>2
  <2>4. Start(Len(out))' = Start(n + 1)
    BY <2>1 DEF Start
  <2>5. CallInv'
    BY <1>0, <1>1, <1>8, <2>1, <2>3, <2>4 DEF CallInv
  <2>6. BufferInv'
    <3>1. accepted' = raw_offset' + raw_len'
      BY <1>0, <1>1, <2>1
    <3>2. \A i \in 0 .. BlockSize - 1 : ~(i < raw_len')
      BY <1>1
    <3>3. pc' # "trailer" => raw_offset' = Start(Len(out))'
      BY <1>1, <1>8, <2>1, <2>3, <2>4
    <3> QED
      BY <3>1, <3>2, <3>3 DEF BufferInv
  <2> QED
    BY <1>6, <2>5, <2>6 DEF SerialInv
<1> QED
  BY <1>7, <1>8

(* Every step keeps the buffer and the file in step with each other. *)
LEMMA NextSerial == SerialInv /\ [Next]_vars => SerialInv'
<1> SUFFICES ASSUME SerialInv, [Next]_vars PROVE SerialInv'
  OBVIOUS
<1>a. UNCHANGED fileVars => UNCHANGED <<sticky, finished, out, raw_offset, Healthy, Start(Len(out))>>
  BY DEF fileVars, Healthy, Start
<1>1. CASE UNCHANGED <<serialVars, fileVars>> /\ (at' \in CreateSteps => at \in CreateSteps)
  BY <1>1, <1>a DEF serialVars, SerialInv, SerialTypes, CallInv, BufferInv
<1>2. CASE /\ pc' \in {pc, "freed"} /\ (at' \in CreateSteps => at \in CreateSteps /\ pc' = pc)
           /\ UNCHANGED <<finishing, raw, raw_len, rem, accepted, fileVars>>
           /\ CreateHandle \/ FreeRest
  BY <1>2, <1>a DEF SerialInv, SerialTypes, CallInv, BufferInv
<1>3. CASE CreateReturns
  <2>1. pc = "create" /\ Healthy /\ at' \notin CreateSteps
    BY <1>3 DEF CreateReturns, Fails, SerialInv, CallInv, CreateSteps
  <2>2. /\ UNCHANGED <<finishing, raw, raw_len, rem, accepted, out, raw_offset, finished>>
        /\ pc' \in {"create", "idle"} /\ (Healthy' => Healthy)
    BY <1>3, <2>1 DEF CreateReturns, WriteFileHead, Healthy
  <2>3. UNCHANGED Start(Len(out))
    BY <2>2 DEF Start
  <2> QED
    BY <2>1, <2>2, <2>3 DEF SerialInv, SerialTypes, CallInv, BufferInv
<1>4. CASE SerialCalls /\ at' = at /\ at \notin CreateSteps
  <2>1. CASE \E n \in WriteLens : WriteCall(n)
    <3>1. PICK n \in WriteLens : WriteCall(n)
      BY <2>1
    <3>2. n \in Nat /\ n > 0
      BY WriteLensAssumption
    <3> QED
      BY <1>4, <1>a, <3>1, <3>2
      DEF WriteCall, SerialInv, SerialTypes, CallInv, BufferInv, Healthy
  <2>2. CASE Copy
    BY <1>4, <2>2, CopyKeeps
  <2>3. CASE FlushBlock
    BY <1>4, <2>3, FlushKeeps
  <2>4. CASE FinishCall
    <3>0. raw_len \in Nat /\ accepted = raw_offset + raw_len /\ raw_offset \in Nat
          /\ raw_offset = Start(Len(out))
      BY <2>4, BlockSizeAssumption
      DEF FinishCall, SerialInv, SerialTypes, BufferInv, Healthy
    <3>1. raw_len = 0 => accepted <= Start(Len(out))
      BY <3>0
    <3>2. raw_len # 0 => raw_len > 0
      BY <3>0
    <3>3. SerialTypes'
      BY <1>a, <2>4 DEF FinishCall, SerialInv, SerialTypes
    <3>4. CallInv'
      BY <1>4, <1>a, <2>4, <3>1, <3>2 DEF FinishCall, CallInv, Healthy
    <3>5. BufferInv'
      BY <1>a, <2>4 DEF FinishCall, SerialInv, BufferInv
    <3> QED
      BY <3>3, <3>4, <3>5 DEF SerialInv
  <2>5. CASE FinishReturns
    <3>1. ~Healthy' /\ UNCHANGED <<out, raw_offset, accepted, raw, raw_len, rem, finishing>>
      BY <2>5 DEF FinishReturns, WriteTrailer, WriteTrailerOK, WriteTrailerEarlyFail,
                  WriteTrailerSinkFails, Healthy
    <3>2. pc' = "idle" /\ raw_len = 0 /\ BlockSize \in Nat /\ BlockSize > 0
      BY <2>5, BlockSizeAssumption DEF FinishReturns, SerialInv, CallInv
    <3>3. finished' = TRUE \/ finished' = finished
      BY <2>5 DEF FinishReturns, WriteTrailer, WriteTrailerOK, WriteTrailerEarlyFail,
                  WriteTrailerSinkFails
    <3> QED
      BY <1>4, <3>1, <3>2, <3>3 DEF SerialInv, SerialTypes, CallInv, BufferInv
  <2> QED
    BY <1>4, <2>1, <2>2, <2>3, <2>4, <2>5 DEF SerialCalls
<1> QED
  BY <1>1, <1>2, <1>3, <1>4, LifeFrame

(* Where each call stands, and what the file and e->raw hold together. *)
THEOREM SerialInvariant == Spec => []SerialInv
<1>1. Init => SerialInv
  BY InitSerial
<1>2. SerialInv /\ [Next]_vars => SerialInv'
  BY NextSerial
<1> QED BY <1>1, <1>2, PTL DEF Spec

(* BlockStream's blocks are those of this specification. *)
LEMMA StreamBlocks ==
  /\ \A n : Stream!Start(n) = Start(n)
  /\ \A n, a : Stream!SerialBlock(n, a) = SerialBlock(n, a)
<1>1. \A n : Stream!Start(n) = Start(n)
  BY DEF Stream!Start, Start
<1>2. \A n, a : Stream!LenOf(n, a) = LenOf(n, a)
  BY <1>1 DEF Stream!LenOf, LenOf, Stream!Smaller, Smaller
<1>3. \A o, l : Stream!Span(o, l) = Span(o, l)
  BY DEF Stream!Span, Span, Stream!Garbage, Garbage
<1>4. \A n, a : Stream!SerialBlock(n, a) = SerialBlock(n, a)
  BY <1>1, <1>2, <1>3 DEF Stream!SerialBlock, SerialBlock
<1> QED
  BY <1>1, <1>4

(* A call accepts bytes, closes the stream, delivers its next block, ends  *)
(* it, or fails.                                                           *)
LEMMA CallRefines ==
  ASSUME SerialInv, SerialCalls, UNCHANGED at, at \notin CreateSteps
  PROVE  [Stream!StreamNext]_(Stream!streamVars)
<1>a. UNCHANGED fileVars => UNCHANGED <<out, StreamStatus>>
  BY DEF fileVars, StreamStatus
<1>b. Healthy <=> StreamStatus = "open"
  BY DEF Healthy, StreamStatus
<1>1. CASE \E n \in WriteLens : WriteCall(n)
  BY <1>1, <1>a DEF WriteCall, Stream!streamVars
<1>2. CASE Copy
  <2>1. accepted' > accepted /\ accepted' \in Nat
    BY <1>2, CopyKeeps DEF SerialInv, SerialTypes
  <2>2. Healthy /\ ~finishing /\ finishing' = finishing /\ UNCHANGED <<out, StreamStatus>>
    BY <1>2, <1>a DEF Copy, SerialInv, CallInv
  <2>3. Stream!Accept
    BY <1>b, <2>1, <2>2 DEF Stream!Accept
  <2> QED
    BY <2>3 DEF Stream!StreamNext
<1>3. CASE FlushBlock
  <2>1. /\ Healthy /\ UNCHANGED <<finished, finishing, accepted>>
        /\ \/ /\ sticky' = "OK"
              /\ out' = Append(out, SerialBlock(Len(out), accepted))
           \/ /\ sticky' # "OK"
              /\ out' = out
    BY <1>3, FlushFacts DEF SerialInv
  <2>2. CASE sticky' = "OK"
    <3>1. /\ raw_len > 0 /\ (~finishing => raw_len = BlockSize) /\ raw_len \in Nat
          /\ accepted = Start(Len(out)) + raw_len /\ Len(out) \in Nat
      BY <1>3, <2>1, BlockSizeAssumption
      DEF FlushBlock, SerialInv, SerialTypes, CallInv, BufferInv
    <3>2. Start(Len(out)) \in Nat /\ BlockSize \in Nat
      BY <3>1, StartFacts, BlockSizeAssumption
    <3>3. \/ Start(Len(out)) + BlockSize <= accepted
          \/ finishing /\ Start(Len(out)) < accepted
      BY <3>1, <3>2
    <3>4. StreamStatus' = StreamStatus /\ StreamStatus = "open"
      BY <2>1, <2>2 DEF StreamStatus, Healthy
    <3>5. Stream!Deliver
      BY <2>1, <2>2, <3>3, <3>4, StreamBlocks DEF Stream!Deliver
    <3> QED
      BY <3>5 DEF Stream!StreamNext
  <2>3. CASE sticky' # "OK"
    <3>1. StreamStatus = "open" /\ StreamStatus' = "failed"
      BY <2>1, <2>3 DEF StreamStatus, Healthy
    <3>2. Stream!Fail
      BY <2>1, <2>3, <3>1 DEF Stream!Fail
    <3> QED
      BY <3>2 DEF Stream!StreamNext
  <2> QED
    BY <2>2, <2>3
<1>4. CASE FinishCall
  <2>1. ~finishing /\ finishing' = TRUE /\ StreamStatus = "open"
        /\ UNCHANGED <<accepted, out, StreamStatus>>
    BY <1>4, <1>a DEF FinishCall, SerialInv, CallInv, Healthy, StreamStatus
  <2>2. Stream!Close
    BY <2>1 DEF Stream!Close
  <2> QED
    BY <2>2 DEF Stream!StreamNext
<1>5. CASE FinishReturns
  <2>1. Healthy /\ finishing /\ accepted <= Start(Len(out)) /\ UNCHANGED <<accepted, finishing, out>>
    BY <1>5 DEF FinishReturns, WriteTrailer, WriteTrailerOK, WriteTrailerEarlyFail,
                WriteTrailerSinkFails, SerialInv, CallInv
  <2>2. CASE WriteTrailerOK
    <3>1. StreamStatus = "open" /\ StreamStatus' = "finished"
      BY <2>1, <2>2 DEF StreamStatus, Healthy, WriteTrailerOK
    <3>2. Stream!Finish
      BY <2>1, <3>1, StreamBlocks DEF Stream!Finish
    <3> QED
      BY <3>2 DEF Stream!StreamNext
  <2>3. CASE WriteTrailerEarlyFail \/ WriteTrailerSinkFails
    <3>1. StreamStatus = "open" /\ StreamStatus' = "failed"
      BY <2>1, <2>3 DEF StreamStatus, Healthy, WriteTrailerEarlyFail, WriteTrailerSinkFails
    <3>2. Stream!Fail
      BY <2>1, <3>1 DEF Stream!Fail
    <3> QED
      BY <3>2 DEF Stream!StreamNext
  <2> QED
    BY <1>5, <2>2, <2>3 DEF FinishReturns, WriteTrailer
<1> QED
  BY <1>1, <1>2, <1>3, <1>4, <1>5 DEF SerialCalls

(* Every step of a handle's life is a step of BlockStream or leaves it alone. *)
LEMMA LifeRefines ==
  SerialInv /\ [Next]_vars => [Stream!StreamNext]_(Stream!streamVars)
<1> SUFFICES ASSUME SerialInv, [Next]_vars PROVE [Stream!StreamNext]_(Stream!streamVars)
  OBVIOUS
<1>1. CASE UNCHANGED <<finishing, accepted, fileVars>>
  BY <1>1 DEF fileVars, StreamStatus, Stream!streamVars
<1>2. CASE CreateReturns
  <2>1. Healthy
    BY <1>2 DEF CreateReturns, SerialInv, CallInv, CreateSteps
  <2>2. UNCHANGED <<accepted, finishing, out, finished>> /\ sticky' \in {"OK", "ERR_IO"}
    BY <1>2, <2>1 DEF CreateReturns, WriteFileHead, Healthy
  <2>3. CASE sticky' = "OK"
    BY <2>1, <2>2, <2>3 DEF Healthy, StreamStatus, Stream!streamVars
  <2>4. CASE sticky' = "ERR_IO"
    <3>1. Stream!Fail
      BY <2>1, <2>2, <2>4 DEF Healthy, StreamStatus, Stream!Fail
    <3> QED
      BY <3>1 DEF Stream!StreamNext
  <2> QED
    BY <2>2, <2>3, <2>4
<1>3. CASE SerialCalls /\ at' = at /\ at \notin CreateSteps
  BY <1>3, CallRefines
<1> QED
  BY <1>1, <1>2, <1>3, LifeFrame DEF serialVars

(* The encoder without threads implements BlockStream, as the threaded one *)
(* does, whatever the sizes of the writes and whichever step fails.        *)
THEOREM SerialImplements == Spec => SerialImplementsStream
<1>1. Init => Stream!StreamInit
  BY DEF Init, SerialInit, FileInit, Stream!StreamInit, StreamStatus
<1>2. SerialInv /\ [Next]_vars => [Stream!StreamNext]_(Stream!streamVars)
  BY LifeRefines
<1> QED
  BY <1>1, <1>2, SerialInvariant, PTL DEF Spec, SerialImplementsStream, Stream!StreamSpec

=============================================================================
