-------------------------------- MODULE Lze --------------------------------
(***************************************************************************)
(* The codec lze (src/codec/xq_codec_lze.c), which is lzb with its output  *)
(* Huffman-coded when that is shorter, and the round trip of a block       *)
(* through one codec or the other.  A job may also begin with the          *)
(* decompressor, on bytes that no compressor wrote.                        *)
(***************************************************************************)
EXTENDS Lzb, Huff, SequencesExt

CONSTANTS Jobs,
          HuffMin,     \* 64: the length worth a table
          TableBytes,  \* XQ_HUFF_TABLE_BYTES
          MidMax       \* the longest block that lzb may expand to

ByteBits == 4
ErrOOM == 3

(* Every byte has a symbol. *)
ASSUME LzeAssumption == {HuffMin, TableBytes, MidMax} \subseteq Nat /\ NSymbols = 2 * Base

Form == [mode : {"none", "raw", "huff"}, mlen : Nat, len : [Symbols -> Nat], bits : Seq({0, 1})]

(* Block and dictionary are in memory together, and a block comes back to  *)
(* a buffer of its size; what lies between the codecs is no longer than    *)
(* the longest block expands to.                                           *)
ASSUME JobsAssumption ==
  \A j \in Jobs :
    /\ j.src \in Seq(Bytes) /\ j.dict \in Seq(Bytes)
    /\ Len(j.src) + Len(j.dict) <= SizeMax
    /\ {j.depth, j.room, j.cap} \subseteq Nat
    /\ j.kind \in {"block", "bytes", "table"}
    /\ j.kind = "block" => j.cap = Len(j.src) /\ j.src # <<>> /\ (j.lze => j.room <= MidMax)
    /\ j.kind = "table" => j.form \in Form

VARIABLE form   \* the block as lze stores it: a Form

vars == <<lzbVars, form>>

Nothing == [mode |-> "none", mlen |-> 0, len |-> NoCode, bits |-> <<>>]

(* A job: "block" for a round trip, "bytes" for a stream to decompress,    *)
(* "table" for one with a table of its own.                                *)
Init ==
  /\ job \in Jobs
  /\ LzbInit
  /\ phase = CASE job.kind = "block" -> "compress"
               [] job.kind = "bytes" -> "decompress"
               [] job.kind = "table" -> "load"
  /\ packed = IF job.kind = "bytes" THEN job.src ELSE <<>>
  /\ form = IF job.kind = "table" THEN job.form ELSE Nothing

(* No memory for the tables of lzb, or for what comes between the codecs.  *)
NoMemory ==
  /\ \/ phase = "compress" /\ pos = 0 /\ packed = <<>> /\ phase' = "refused"
     \/ phase = "load" /\ phase' = "done"
  /\ st' = ErrOOM
  /\ UNCHANGED <<job, encVars, packed, ip, dst, form>>

-----------------------------------------------------------------------------
(* lze_compress *)

CountFreq == [s \in Symbols |-> Cardinality({ i \in DOMAIN packed : packed[i] = s })]

(* Seeded fault: the last bits that do not fill a byte are not written.    *)
PadDropped(b) == SubSeq(b, 1, ByteBits * (Len(b) \div ByteBits))

(* xq_bitw_flush: zeros fill the last byte. *)
Pad(b) == b \o [i \in 1 .. (ByteBits - (Len(b) % ByteBits)) % ByteBits |-> 0]

HuffForm(len) ==
  [mode |-> "huff", mlen |-> Len(packed), len |-> len,
   bits |-> Pad(FlattenSeq([i \in DOMAIN packed |-> CodeBits(len, packed[i])]))]

HeadBytes == 1 + Len(Varint(Len(packed))) + TableBytes
HuffBytes(f) == HeadBytes + Len(f.bits) \div ByteBits

(* lzb has finished; lzb alone, or the shorter form of lze, is stored. *)
Store ==
  /\ phase = "compressed"
  /\ LET len == Build(CountFreq)
         worth == Len(packed) >= HuffMin /\ len # NoCode
         huff == HuffForm(len)
         fits == HuffBytes(huff) <= job.out
     IN CASE ~job.lze ->
               form' = Nothing /\ phase' = "decompress" /\ st' = st
          [] job.lze /\ worth /\ HeadBytes > job.out ->
               form' = Nothing /\ phase' = "refused" /\ st' = ErrDstTooSmall
          [] job.lze /\ worth /\ fits /\ HuffBytes(huff) < Len(packed) + 1 ->
               form' = huff /\ phase' = "load" /\ st' = st
          [] OTHER ->
               IF 1 + Len(packed) <= job.out
               THEN form' = [Nothing EXCEPT !.mode = "raw"] /\ phase' = "decompress" /\ st' = st
               ELSE form' = Nothing /\ phase' = "refused" /\ st' = ErrDstTooSmall
  /\ UNCHANGED <<job, encVars, packed, ip, dst>>

-----------------------------------------------------------------------------
(* lze_decompress *)

(* The length between the codecs and the table are checked. *)
Load ==
  /\ phase = "load"
  /\ IF form.mlen <= MidMax /\ Loads(form.len)
     THEN phase' = "unpack" /\ st' = st
     ELSE phase' = "done" /\ st' = ErrCorruptBlock
  /\ packed' = <<>>
  /\ UNCHANGED <<job, encVars, ip, dst, form>>

(* One symbol. *)
Unpack ==
  LET s == Decode(form.len, form.bits) IN
  /\ phase = "unpack"
  /\ Len(packed) < form.mlen
  /\ IF s < 0
     THEN phase' = "done" /\ st' = ErrCorruptBlock /\ UNCHANGED <<packed, form>>
     ELSE /\ packed' = Append(packed, s)
          /\ form' = [form EXCEPT !.bits = SubSeq(@, form.len[s] + 1, Len(@))]
          /\ UNCHANGED <<phase, st>>
  /\ UNCHANGED <<job, encVars, ip, dst>>

Unpacked ==
  /\ phase = "unpack"
  /\ Len(packed) = form.mlen
  /\ phase' = "decompress"
  /\ UNCHANGED <<job, encVars, packed, ip, dst, st, form>>

-----------------------------------------------------------------------------

Terminated == phase \in {"done", "refused"} /\ UNCHANGED vars

Next ==
  \/ (Literal \/ Match \/ Rest \/ Decompress \/ DecompressNothing) /\ UNCHANGED form
  \/ NoMemory \/ Store \/ Load \/ Unpack \/ Unpacked
  \/ Terminated

Spec == Init /\ [][Next]_vars

-----------------------------------------------------------------------------
(* Correctness *)

(* A block that a codec has not refused comes back byte for byte, in a     *)
(* buffer of just its size: matches that reach into the dictionary, run    *)
(* over from it into the block, overlap what they write, or stand at the   *)
(* limits of the codes, and the Huffman code over all that.                *)
RoundTrip ==
  job.kind = "block" /\ phase = "done" => st = ErrOOM \/ (st = OK /\ dst = job.src)

(* Whatever bytes a decompressor is given, it writes no more than it was   *)
(* given room for, and no byte from outside the dictionary and what it has *)
(* written already.                                                        *)
DecoderInBounds ==
  /\ Len(dst) <= job.cap
  /\ \A i \in DOMAIN dst : dst[i] # Wild

(* The table built for a block has a code for each byte in it, within the  *)
(* limit, and is one the decompressor accepts; and a table it accepts      *)
(* gives every pattern of bits one symbol, unless it has a single one.     *)
CodesSound ==
  /\ phase = "load" /\ job.kind = "block" =>
       Used(form.len) = Used(CountFreq) /\ Loads(form.len)
  /\ phase = "unpack" /\ packed = <<>> /\ Cardinality(Used(form.len)) > 1 =>
       \A w \in [1 .. MaxBits -> {0, 1}] :
         Cardinality({ s \in Used(form.len) :
           \A i \in 1 .. form.len[s] : CodeBits(form.len, s)[i] = w[i] }) = 1

=============================================================================
