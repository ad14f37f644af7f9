---------------------------- MODULE EncoderSerial ----------------------------
(***************************************************************************)
(* The encoder of src/core/xq_encoder.c without worker threads (threads=1, *)
(* a codec without contexts, or a mem_limit that leaves room for one): one *)
(* buffer, compressed and written by the calling thread as soon as it is   *)
(* full.  Nothing runs concurrently; what may go wrong is the order of the *)
(* early returns when a step in the middle of a call fails.  EncoderLife   *)
(* creates and frees the handle around these calls.                        *)
(***************************************************************************)
EXTENDS EncoderFile

CONSTANTS WriteLens,   \* the lengths the caller passes to xq_encoder_write
          MaxBytes     \* bound: the caller writes at most this many bytes

ASSUME WriteLensAssumption == WriteLens \subseteq Nat \ {0}

VARIABLES pc,         \* "create", "idle", "copy", "flush", "trailer" or "freed"
          finishing,  \* the call in progress is xq_encoder_finish
          raw,        \* e->raw
          raw_len,    \* e->raw_len
          rem,        \* len, inside xq_encoder_write
          accepted    \* number of caller bytes copied so far

serialVars == <<pc, finishing, raw, raw_len, rem, accepted>>

SerialTypeOK ==
  /\ pc \in {"create", "idle", "copy", "flush", "trailer", "freed"}
  /\ finishing \in BOOLEAN
  /\ raw \in Content
  /\ raw_len \in 0 .. BlockSize
  /\ rem \in Nat
  /\ accepted \in Nat
  /\ FileTypeOK

SerialInit ==
  /\ pc = "create"
  /\ finishing = FALSE
  /\ raw = Span(0, 0)
  /\ raw_len = 0
  /\ rem = 0
  /\ accepted = 0
  /\ FileInit

WriteCall(n) ==
  /\ pc = "idle"
  /\ sticky = "OK"
  /\ ~finished
  /\ accepted + n <= MaxBytes
  /\ rem' = n
  /\ pc' = "copy"
  /\ UNCHANGED <<finishing, raw, raw_len, accepted, fileVars>>

(* One turn of the loop of xq_encoder_write. *)
Copy ==
  LET take == Smaller(rem, BlockSize - raw_len) IN
  /\ pc = "copy"
  /\ raw' = [i \in 0 .. BlockSize - 1 |->
               IF i >= raw_len /\ i < raw_len + take
               THEN accepted + (i - raw_len) ELSE raw[i]]
  /\ raw_len' = raw_len + take
  /\ accepted' = accepted + take
  /\ rem' = rem - take
  /\ pc' = IF raw_len + take = BlockSize THEN "flush" ELSE "idle"
  /\ UNCHANGED <<finishing, fileVars>>

RawBytes == [i \in 0 .. BlockSize - 1 |-> IF i < raw_len THEN raw[i] ELSE Garbage]

(* Seeded fault: raw_len is not reset. *)
FlushBlockKeepsLen ==
  /\ pc = "flush"
  /\ \E res \in CompressJob([st |-> "OK", stored |-> FALSE, data |-> Span(0, 0)], RawBytes) :
        EmitJob(RawBytes, raw_len, res)
  /\ IF sticky' # "OK" THEN pc' = "idle" /\ rem' = 0
     ELSE /\ pc' = IF finishing THEN "trailer" ELSE IF rem > 0 THEN "copy" ELSE "idle"
          /\ rem' = rem
  /\ UNCHANGED <<finishing, raw, raw_len, accepted>>

(* flush_block: the job is a local variable, initialised for every block;  *)
(* raw_len is reset even when the block could not be written.              *)
FlushBlock ==
  /\ pc = "flush"
  /\ \E res \in CompressJob([st |-> "OK", stored |-> FALSE, data |-> Span(0, 0)], RawBytes) :
        EmitJob(RawBytes, raw_len, res)
  /\ raw_len' = 0
  /\ IF sticky' # "OK" THEN pc' = "idle" /\ rem' = 0
     ELSE /\ pc' = IF finishing THEN "trailer" ELSE IF rem > 0 THEN "copy" ELSE "idle"
          /\ rem' = rem
  /\ UNCHANGED <<finishing, raw, accepted>>

(* Seeded fault: the short last block is not flushed. *)
FinishCallNoFlush ==
  /\ pc = "idle"
  /\ sticky = "OK"
  /\ ~finished
  /\ finishing' = TRUE
  /\ pc' = "trailer"
  /\ UNCHANGED <<raw, raw_len, rem, accepted, fileVars>>

FinishCall ==
  /\ pc = "idle"
  /\ sticky = "OK"
  /\ ~finished
  /\ finishing' = TRUE
  /\ pc' = IF raw_len = 0 THEN "trailer" ELSE "flush"
  /\ UNCHANGED <<raw, raw_len, rem, accepted, fileVars>>

FinishReturns ==
  /\ pc = "trailer"
  /\ WriteTrailer
  /\ pc' = "idle"
  /\ UNCHANGED <<finishing, raw, raw_len, rem, accepted>>

(* The calls on a handle between its creation and its end. *)
SerialCalls ==
  \/ \E n \in WriteLens : WriteCall(n)
  \/ Copy \/ FlushBlock
  \/ FinishCall \/ FinishReturns

-----------------------------------------------------------------------------

StreamStatus == IF finished THEN "finished" ELSE IF sticky = "OK" THEN "open" ELSE "failed"

Stream == INSTANCE BlockStream WITH closing <- finishing, status <- StreamStatus

(* The single-threaded encoder implements BlockStream, the specification   *)
(* that the threaded one implements too: the sink cannot tell them apart.  *)
SerialImplementsStream == Stream!StreamSpec

=============================================================================
