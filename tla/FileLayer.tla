----------------------------- MODULE FileLayer -----------------------------
(***************************************************************************)
(* The file layer (src/platform/xq_file.c): the loops that xq_file_read,   *)
(* xq_file_write and xq_file_pread put around system calls which may       *)
(* transfer a part of what was asked for, be interrupted, or fail.         *)
(*                                                                         *)
(* One input and one output.  Byte number i of the input is i.  An         *)
(* operation in progress is io; one system call is one step, and between   *)
(* two of them the input may grow, as a log file does.                     *)
(***************************************************************************)
EXTENDS Integers, Sequences

CONSTANTS IoChunk,      \* XQ_IO_CHUNK
          PreadMoves,   \* the build for Windows, where pread is _lseeki64 and _read
          MaxGrow       \* bound: bytes the input grows by

ASSUME LayerAssumption ==
  IoChunk \in Nat \ {0} /\ PreadMoves \in BOOLEAN /\ MaxGrow \in Nat

VARIABLES in,     \* the input: its length, the position, how much it has grown
          outf,   \* what the output file has received
          io      \* the operation in progress

fileVars == <<in, outf, io>>

OK == 0
ErrIO == 48

NoOp == [op |-> "none", want |-> 0, at |-> 0, data |-> <<>>, st |-> OK]

FileInit(len, pos) ==
  /\ in = [len |-> len, pos |-> pos, grown |-> 0]
  /\ outf = <<>>
  /\ io = NoOp

(* The loop of an operation is entered; it may be over at once. *)
Read(n)     == [NoOp EXCEPT !.op = IF n > 0 THEN "read" ELSE "done", !.want = n]
Write(d)    == [NoOp EXCEPT !.op = IF d # <<>> THEN "write" ELSE "done", !.data = d]
Pread(n, o) == [NoOp EXCEPT !.op = IF n > 0 THEN "pread" ELSE "done", !.want = n, !.at = o]

Done == io.op = "done"

Bytes(p, n) == [i \in 1 .. n |-> p + i - 1]

Least(a, b) == IF a <= b THEN a ELSE b

(* Where a read takes its bytes from. *)
Here == IF io.op = "read" THEN in.pos ELSE io.at + Len(io.data)

(* n bytes more in the buffer; the loop ends when all of them are there. *)
Filled(n) ==
  [io EXCEPT !.data = @ \o Bytes(Here, n),
             !.op = IF Len(io.data) + n = io.want THEN "done" ELSE @]

(* read or pread returns n bytes, of those that are asked for and there. *)
ReadSome ==
  /\ io.op \in {"read", "pread"}
  /\ \E n \in 1 .. Least(IoChunk, io.want - Len(io.data)) :
       /\ Here + n <= in.len
       /\ io' = Filled(n)
       /\ in' = IF io.op = "read" \/ PreadMoves THEN [in EXCEPT !.pos = Here + n] ELSE in
  /\ UNCHANGED outf

(* Seeded fault: the end of the file does not end the loop. *)
AtEofAgain == io

(* The loop is left with what it has. *)
AtEof == [io EXCEPT !.op = "done"]

(* read or pread returns 0. *)
ReadEof ==
  /\ io.op \in {"read", "pread"}
  /\ Here >= in.len
  /\ io' = AtEof
  /\ UNCHANGED <<in, outf>>

(* write takes the first n bytes that are left. *)
WriteSome ==
  /\ io.op = "write"
  /\ \E n \in 1 .. Least(IoChunk, Len(io.data)) :
       /\ outf' = outf \o SubSeq(io.data, 1, n)
       /\ io' = [io EXCEPT !.data = SubSeq(@, n + 1, Len(@)),
                           !.op = IF n = Len(io.data) THEN "done" ELSE @]
  /\ UNCHANGED in

(* A call fails, or write takes nothing. *)
IoFails ==
  /\ io.op \in {"read", "pread", "write"}
  /\ io' = [io EXCEPT !.op = "done", !.st = ErrIO]
  /\ UNCHANGED <<in, outf>>

(* Seeded fault: an interrupted call is taken for the end of the file. *)
OnInterruptEnd == [io EXCEPT !.op = "done"]

(* EINTR: the loop goes round once more. *)
OnInterrupt == io

Interrupt ==
  /\ io.op \in {"read", "pread", "write"}
  /\ io' = OnInterrupt
  /\ UNCHANGED <<in, outf>>

(* Another process appends to the input. *)
Grow ==
  /\ in.grown < MaxGrow
  /\ in' = [in EXCEPT !.len = @ + 1, !.grown = @ + 1]
  /\ UNCHANGED <<outf, io>>

(* A call that is not interrupted and does not fail. *)
Transfer == ReadSome \/ ReadEof \/ WriteSome

=============================================================================
