----------------------------- MODULE EncoderLife -----------------------------
(***************************************************************************)
(* The life of an encoder handle: xq_encoder_create with mt_create, the    *)
(* calls, xq_encoder_free with mt_destroy.  Every allocation, every        *)
(* initialisation and every thread start may fail, and what exists by then *)
(* is given back by the one function that also ends a healthy handle.      *)
(*                                                                         *)
(* The calls on a handle without workers are those of EncoderSerial.  With *)
(* workers they are EncoderRing's; here they only move e->raw.             *)
(*                                                                         *)
(* A step that reads what was never initialised, or frees what is not      *)
(* there, has no defined outcome: the model stops at "undefined".          *)
(***************************************************************************)
EXTENDS EncoderSerial

CONSTANTS Params,     \* the parameters of a handle, see Param
          Cpus,       \* xq_cpu_count()
          MaxAuto,    \* 8: the most threads when their number is left open
          SlotBytes   \* block_size + cbuf_cap

Param == [threads : Nat, limit : Nat,   \* p.threads, p.mem_limit
          contexts : BOOLEAN,           \* the codec has cctx_new
          dict : BOOLEAN]               \* a dictionary is given

ASSUME LifeAssumption ==
  Params \subseteq Param /\ {Cpus, MaxAuto, SlotBytes} \subseteq Nat \ {0}

VARIABLES par,
          at,        \* the step of creation or destruction that is next
          failedAt,  \* the step at which creation failed, or "none"
          live,      \* what has been allocated and not freed
          ready,     \* what has been initialised
          running,   \* the worker threads
          eraw       \* what e->raw points at

lifeVars == <<par, at, failedAt, live, ready, running, eraw>>
vars == <<lifeVars, serialVars, fileVars>>

(* An allocation: one of its kind, or one of a table of them. *)
Nth(kind, i) == <<kind, i>>
The(kind) == Nth(kind, 0)
Null == The("NULL")

Sync == {"mu", "cv_work", "cv_done"}
Tables == { The("jobs"), The("contexts"), The("threads"), The("args") }

Asked == IF par.threads = 0 THEN Smaller(Cpus, MaxAuto) ELSE par.threads

(* The memory limit counts two slots for each worker, then allows as many  *)
(* workers as it has room for slots.                                       *)
Clamped ==
  IF par.limit > 0 /\ Asked * 2 * SlotBytes > par.limit
  THEN IF par.limit < SlotBytes THEN 1 ELSE par.limit \div SlotBytes
  ELSE Asked

NThreads == IF par.contexts /\ Asked > 1 /\ Clamped > 1 THEN Clamped ELSE 0
NRing == 2 * NThreads

TypeOK ==
  /\ par \in Params
  /\ running \subseteq 0 .. NThreads - 1
  /\ ready \subseteq Sync \cup {"tables"}
  /\ SerialTypeOK

Init ==
  /\ par \in Params
  /\ at = "handle"
  /\ failedAt = "none"
  /\ live = {} /\ ready = {} /\ running = {}
  /\ eraw = Null
  /\ SerialInit

Fails == failedAt' = at /\ at' = "free"

(* One step of creation: what is there by now, and how it goes on. *)
Create(step, next, got, all) ==
  /\ at = step
  /\ live' = live \cup got
  /\ IF got = all THEN at' = next /\ failedAt' = failedAt ELSE Fails
  /\ UNCHANGED <<par, running, serialVars, fileVars>>

-----------------------------------------------------------------------------
(* xq_encoder_create *)

(* The parameters are refused, or there is no memory for the handle. *)
CreateHandle ==
  /\ at = "handle"
  /\ \/ live' = {The("handle")} /\ at' = "buffers" /\ UNCHANGED <<failedAt, pc>>
     \/ at' = "over" /\ failedAt' = at /\ pc' = "freed" /\ live' = live
  /\ UNCHANGED <<par, ready, running, eraw, finishing, raw, raw_len, rem, accepted, fileVars>>

CreateBuffers ==
  LET all == {The("raw"), The("cbuf")} IN
  \E got \in SUBSET all :
    /\ Create("buffers", "context", got, all)
    /\ eraw' = IF The("raw") \in got THEN The("raw") ELSE Null
    /\ ready' = ready

CreateContext ==
  LET all == IF par.contexts THEN {The("cctx")} ELSE {} IN
  \E got \in SUBSET all : Create("context", "dictionary", got, all) /\ UNCHANGED <<ready, eraw>>

(* Only a codec with contexts takes a dictionary. *)
CreateDictionary ==
  LET all == IF par.dict THEN {The("cdict")} ELSE {} IN
  \E got \in SUBSET (IF par.contexts THEN all ELSE {}) :
    Create("dictionary", IF NThreads > 0 THEN "ring" ELSE "header", got, all)
    /\ UNCHANGED <<ready, eraw>>

(* mt_create: e->mt is set before anything in it is. *)
CreateRing ==
  \E got \in SUBSET {The("ring")} : Create("ring", "sync", got, {The("ring")}) /\ UNCHANGED <<ready, eraw>>

CreateSync ==
  /\ at = "sync"
  /\ \E good \in { {}, {"mu"}, {"mu", "cv_work"}, Sync } :
        /\ ready' = ready \cup good
        /\ IF good = Sync THEN at' = "tables" /\ failedAt' = failedAt ELSE Fails
  /\ UNCHANGED <<par, live, running, eraw, serialVars, fileVars>>

(* All four are allocated before one is looked at, and then set to zero. *)
CreateTables ==
  \E got \in SUBSET Tables :
    /\ Create("tables", "jobs", got, Tables)
    /\ ready' = IF got = Tables THEN ready \cup {"tables"} ELSE ready
    /\ eraw' = eraw

(* Slot by slot, two buffers each; the first that lacks one ends it. *)
CreateJobs ==
  LET pair(i) == {Nth("jraw", i), Nth("jcbuf", i)} IN
  \E k \in 0 .. NRing - 1, last \in SUBSET pair(NRing) :
    LET got == (UNION { pair(i) : i \in 1 .. k })
               \cup { Nth(r[1], k + 1) : r \in last }
    IN /\ last # pair(NRing) \/ k = NRing - 1
       /\ Create("jobs", "contexts", got, UNION { pair(i) : i \in 1 .. NRing })
       /\ UNCHANGED <<ready, eraw>>

CreateContexts ==
  LET upto(k) == { Nth("wcctx", i) : i \in 1 .. k } IN
  \E k \in 0 .. NThreads : Create("contexts", "start", upto(k), upto(NThreads)) /\ UNCHANGED <<ready, eraw>>

StartThreads ==
  /\ at = "start"
  /\ \E k \in 0 .. NThreads :
        /\ running' = 0 .. k - 1
        /\ IF k = NThreads THEN at' = "swap" /\ failedAt' = failedAt ELSE Fails
  /\ UNCHANGED <<par, live, ready, eraw, serialVars, fileVars>>

(* Seeded fault: the buffer of the handle is not freed. *)
SwapRawKeeps ==
  /\ at = "swap"
  /\ eraw' = Nth("jraw", 1)
  /\ at' = "header"
  /\ UNCHANGED <<par, failedAt, live, ready, running, serialVars, fileVars>>

(* With a ring the handle fills the slots: its own buffer goes. *)
SwapRaw ==
  /\ at = "swap"
  /\ live' = live \ {eraw}
  /\ eraw' = Nth("jraw", 1)
  /\ at' = "header"
  /\ UNCHANGED <<par, failedAt, ready, running, serialVars, fileVars>>

(* The header and the dictionary record are written. *)
CreateReturns ==
  /\ at = "header"
  /\ \E failed \in BOOLEAN :
        /\ WriteFileHead(failed)
        /\ IF failed THEN Fails /\ pc' = pc ELSE at' = "open" /\ pc' = "idle" /\ failedAt' = failedAt
  /\ UNCHANGED <<par, live, ready, running, eraw, finishing, raw, raw_len, rem, accepted>>

-----------------------------------------------------------------------------
(* The calls on an open handle *)

Call ==
  /\ at = "open" /\ NThreads = 0
  /\ SerialCalls
  /\ UNCHANGED lifeVars

(* flush_block: e->raw follows the ring. *)
RingCall ==
  /\ at = "open" /\ NThreads > 0
  /\ \E s \in 1 .. NRing : eraw' = Nth("jraw", s)
  /\ UNCHANGED <<par, at, failedAt, live, ready, running, serialVars, fileVars>>

FreeCall ==
  /\ at = "open" /\ pc = "idle"
  /\ at' = "free"
  /\ UNCHANGED <<par, failedAt, live, ready, running, eraw, serialVars, fileVars>>

-----------------------------------------------------------------------------
(* xq_encoder_free, by the caller or by a creation that has failed *)

(* One step of destruction, if what it reads is initialised and what it    *)
(* frees is there.                                                         *)
Destroy(step, next, reads, frees) ==
  /\ at = step
  /\ IF reads \subseteq ready /\ frees \subseteq live
     THEN at' = next /\ live' = live \ frees
     ELSE at' = "undefined" /\ live' = live
  /\ UNCHANGED <<par, failedAt, ready, serialVars, fileVars>>

HasRing == The("ring") \in live

(* Seeded fault: e->raw stays what it was, a buffer of the ring. *)
FreeHandleKeepsRaw ==
  Destroy("free", IF HasRing THEN "lock" ELSE "rest", {}, {}) /\ UNCHANGED <<running, eraw>>

(* With a ring e->raw is one of its buffers. *)
FreeHandle ==
  /\ Destroy("free", IF HasRing THEN "lock" ELSE "rest", {}, {})
  /\ eraw' = IF HasRing THEN Null ELSE eraw
  /\ running' = running

(* mt_destroy takes the mutex to set quit, and wakes the workers. *)
DestroyQuit == Destroy("lock", "join", {"mu", "cv_work"}, {}) /\ UNCHANGED <<running, eraw>>

(* It joins each thread that its table says is started. *)
DestroyJoin == Destroy("join", "ring-free", {"tables"}, {}) /\ running' = {} /\ eraw' = eraw

(* The contexts and the buffers the tables hold, then what held them.      *)
DestroyRing ==
  LET held == { r \in live : r[1] \in {"wcctx", "jraw", "jcbuf"} } IN
  /\ Destroy("ring-free", "rest", Sync \cup {"tables"}, held \cup Tables \cup {The("ring")})
  /\ UNCHANGED <<running, eraw>>

(* A worker that still runs would use all this. *)
FreeRest ==
  LET frees == { The("handle") } \cup ({eraw} \ {Null})
               \cup (live \cap { The("cbuf"), The("cctx"), The("cdict") })
  IN /\ at = "rest"
     /\ IF frees \subseteq live /\ running = {}
        THEN at' = "over" /\ pc' = "freed" /\ live' = live \ frees
        ELSE at' = "undefined" /\ pc' = pc /\ live' = live
     /\ UNCHANGED <<par, failedAt, ready, running, eraw, finishing, raw, raw_len, rem, accepted, fileVars>>

(* The handle is gone, or the program is not defined any more. *)
Terminated == at \in {"over", "undefined"} /\ UNCHANGED vars

Next ==
  \/ CreateHandle \/ CreateBuffers \/ CreateContext \/ CreateDictionary
  \/ CreateRing \/ CreateSync \/ CreateTables \/ CreateJobs \/ CreateContexts
  \/ StartThreads \/ SwapRaw \/ CreateReturns
  \/ Call \/ RingCall \/ FreeCall
  \/ FreeHandle \/ DestroyQuit \/ DestroyJoin \/ DestroyRing \/ FreeRest
  \/ Terminated

Spec == Init /\ [][Next]_vars

-----------------------------------------------------------------------------
(* Correctness *)

(* Whatever step of the creation fails, and whatever the caller does, the  *)
(* destruction reads only what is initialised, frees each thing once and   *)
(* only what is there, and leaves no worker behind in freed memory: unless *)
(* mt_create fails before its tables are set to zero.                      *)
DestroyDefined == at = "undefined" => failedAt \in {"sync", "tables"}

(* Nothing is left of a handle, healthy or not: but the handle's own       *)
(* buffer, when mt_create fails after it has set e->mt.                    *)
NothingLeft ==
  at = "over" => live = IF failedAt \in {"jobs", "contexts", "start"} THEN {The("raw")} ELSE {}

=============================================================================
