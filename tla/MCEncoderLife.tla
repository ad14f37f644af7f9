---------------------------- MODULE MCEncoderLife ----------------------------
(* EncoderLife for TLC.  The limits: none, one that leaves no worker, one  *)
(* that leaves one less than asked for, one that is just enough for three. *)
EXTENDS EncoderLife

MCParams ==
  { [threads |-> t, limit |-> l, contexts |-> c, dict |-> d] :
      t \in {0, 1, 3}, l \in {0, 7, 8, 24}, c \in BOOLEAN, d \in BOOLEAN }

=============================================================================
