----------------------------- MODULE BlockStream -----------------------------
(***************************************************************************)
(* What an encoder promises its caller, whatever its thread count          *)
(* (docs/internals.md section 9, README.md: "the output is byte-identical  *)
(* whatever thread count"): it accepts bytes until it is closed, and its   *)
(* sink receives the blocks of those bytes in stream order, each once, cut *)
(* every block_size bytes; it finishes only when every accepted byte has   *)
(* been written, and after a failure it writes no further block.           *)
(*                                                                         *)
(* EncoderRing (worker threads) and EncoderSerial (no threads) are both    *)
(* shown to implement this specification.                                  *)
(***************************************************************************)
EXTENDS Blocks

VARIABLES accepted,   \* number of bytes taken from the caller
          closing,    \* the caller has asked to finish
          out,        \* the complete blocks delivered to the sink
          status      \* "open", "finished" or "failed"

streamVars == <<accepted, closing, out, status>>

StreamInit == /\ accepted = 0
              /\ closing = FALSE
              /\ out = <<>>
              /\ status = "open"

(* The caller writes some more bytes. *)
Accept == /\ status = "open"
          /\ ~closing
          /\ accepted' > accepted
          /\ accepted' \in Nat
          /\ UNCHANGED <<closing, out, status>>

(* The caller asks to finish; no byte is accepted from here on. *)
Close == /\ status = "open"
         /\ ~closing
         /\ closing' = TRUE
         /\ UNCHANGED <<accepted, out, status>>

(* The next block reaches the sink: a full one at any time, the short last *)
(* one only while closing.                                                 *)
Deliver == /\ status = "open"
           /\ \/ Start(Len(out)) + BlockSize <= accepted
              \/ closing /\ Start(Len(out)) < accepted
           /\ out' = Append(out, SerialBlock(Len(out), accepted))
           /\ UNCHANGED <<accepted, closing, status>>

(* The trailer is complete: all the accepted bytes are in the file. *)
Finish == /\ status = "open"
          /\ closing
          /\ accepted <= Start(Len(out))
          /\ status' = "finished"
          /\ UNCHANGED <<accepted, closing, out>>

(* The codec, the allocator or the sink failed. *)
Fail == /\ status = "open"
        /\ status' = "failed"
        /\ UNCHANGED <<accepted, closing, out>>

StreamNext == Accept \/ Close \/ Deliver \/ Finish \/ Fail

StreamSpec == StreamInit /\ [][StreamNext]_streamVars

=============================================================================
