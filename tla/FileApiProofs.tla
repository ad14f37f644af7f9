---------------------------- MODULE FileApiProofs ----------------------------
(***************************************************************************)
(* Theorems about FileApi, for every call, every size of the blocks and    *)
(* buffers, and every way in which the system calls transfer a part, fail  *)
(* or are interrupted.                                                     *)
(*                                                                         *)
(* The invariant is IInv.  Its main parts say what has been written so     *)
(* far, at each place in a call: so many units of the archive of the bytes *)
(* handed to the encoder, the unit that is on its way to a file included;  *)
(* and how the bytes handed over follow from the position of the input.    *)
(***************************************************************************)
EXTENDS FileApi, SequenceTheorems, TLAPS

-----------------------------------------------------------------------------
(* What is copied out of a buffer: a part of a sequence. *)
LEMMA Slice ==
  ASSUME NEW S, NEW s \in Seq(S), NEW a \in Nat, NEW n \in Nat, a + n <= Len(s)
  PROVE  /\ SubSeq(s, a + 1, a + n) \in Seq(S) /\ Len(SubSeq(s, a + 1, a + n)) = n
         /\ \A i \in 1 .. n : SubSeq(s, a + 1, a + n)[i] = s[a + i]
<1>1. a + 1 \in Int /\ a + n \in Int /\ (\A i \in a + 1 .. a + n : s[i] \in S)
  BY Len(s) \in Nat
<1>2. (a + n) - (a + 1) + 1 = n /\ (\A i \in 1 .. n : (a + 1) + i - 1 = a + i)
  OBVIOUS
<1> QED BY <1>1, <1>2, SubSeqProperties

(* Sizes are counted in entries, windows and blocks: quotient and          *)
(* remainder.                                                              *)
LEMMA DivMod ==
  ASSUME NEW a \in Nat, NEW b \in Nat \ {0}
  PROVE  a \div b \in Nat /\ a % b \in 0 .. b - 1 /\ a = b * (a \div b) + (a % b)
OBVIOUS

(* Multiplying keeps the order. *)
LEMMA MulMono ==
  ASSUME NEW a \in Nat, NEW b \in Nat, NEW c \in Nat, a <= b
  PROVE  a * c <= b * c
OBVIOUS

(* What a sink receives: units of the archive. *)
UnitT == [kind : {"head", "dict", "block", "tail"}, data : Seq(Int)]

(* What a file receives: halves of units, or bytes. *)
Cell == (UnitT \X Nat) \cup Int

(* Before the encoder or the decoder is made. *)
Opening == {"openin", "size", "openout"}
Early == Opening \cup {"dict", "sampling", "create"}

(* While the encoder lives. *)
Encoding == {"dictrec", "read", "encode", "finish"}

Places == Early \cup Encoding \cup {"reading", "sinking", "pull", "check", "end", "done"}

Operation == [op : {"none", "read", "pread", "write", "done"}, want : Nat, at : Nat,
              data : Seq(Cell), st : {OK, ErrIO}]

FileType == in \in [len : Nat, pos : Nat, grown : Nat] /\ outf \in Seq(Cell) /\ io \in Operation

EncType ==
  /\ hint \in Nat \cup {Unknown} /\ dlen \in Nat /\ fed \in Seq(Int) /\ nblk \in Nat
  /\ units \in Seq(UnitT) /\ mlen \in Nat

DecType == dpos \in Nat /\ dst \in Seq(Int) /\ told \in BOOLEAN

CallType ==
  /\ req \in Calls
  /\ ap \in Places
  /\ after \in Encoding \cup {"none", "pull", "end"}
  /\ live \subseteq {"in", "out", "dict", "coder"}
  /\ st \in Nat
  /\ outLen \in Nat \cup {Unknown}

TypeOK == FileType /\ EncType /\ DecType /\ CallType

(* Each place belongs to some of the functions, and is left with an error  *)
(* only for the end.                                                       *)
PlaceInv ==
  /\ ap \in Opening \cup {"sampling", "reading", "sinking", "check"} => ToFile
  /\ ap \in Encoding \cup {"size", "dict", "sampling", "reading"} => Compressing
  /\ ap \in {"pull", "check"} => ~Compressing
  /\ ap = "sinking" => after \in IF Compressing THEN Encoding \cup {"end"} ELSE {"pull"}
  /\ ap \notin {"end", "done"} => st = OK

(* What the call holds, by where it is. *)
LiveInv ==
  /\ ap = "openin" => live = {}
  /\ ap \in {"size", "openout"} => live \subseteq {"in"}
  /\ ap \in {"dict", "sampling", "create"} => live \subseteq {"in", "out", "dict"}
  /\ ap = "done" => live = {}

(* An operation on a file is in progress only where the code waits for it. *)
IoInv ==
  /\ ap = "sampling" => io.op \in {"pread", "done"}
  /\ ap = "reading" => io.op \in {"read", "done"}
  /\ ap = "sinking" => io.op \in {"write", "done"}
  /\ ap = "sinking" /\ Done /\ io.st = OK => io.data = <<>>
  /\ ap = "reading" => io.data \in Seq(Int)
  /\ ap \notin {"sampling", "reading", "sinking", "done"} => io = NoOp
  /\ ap = "done" => io.op \in {"none", "done"}

(* The size in the header is one the input had; a dictionary is sampled    *)
(* only if the input is large enough for it.                               *)
HintInv ==
  /\ req.fn = "compress" => hint = req.size
  /\ req.fn = "compress_file" /\ hint # Unknown => hint \in req.size .. in.len
  /\ in.len = req.size + in.grown
  /\ ap = "sampling" => Want > 0
  /\ req.fn = "compress" => dlen \in {0, DictSizeFor(req.size, req.dict)}

(* The bytes handed to the encoder are the input's, from its position on   *)
(* and without a gap, up to its end if reading has come to an end.         *)
ReadInv ==
  req.fn = "compress_file" =>
    /\ fed = Bytes(req.start, Len(fed))
    /\ ap \notin {"reading", "end", "done"} => in.pos = req.start + Len(fed)
    /\ ap = "reading" =>
         /\ in.pos = req.start + Len(fed) + Len(io.data)
         /\ io.data = Bytes(req.start + Len(fed), Len(io.data))
         /\ Len(io.data) > 0 => in.pos <= in.len
         /\ Done /\ io.st = OK /\ io.data = <<>> => in.pos >= req.size
    /\ Len(fed) > 0 => req.start + Len(fed) <= in.len
    /\ \/ ap = "finish"
       \/ ap = "sinking" /\ after \in {"finish", "end"}
       \/ ap \in {"end", "done"} /\ st = OK
       => req.start + Len(fed) >= req.size

(* Of memory, everything is handed over at once. *)
FedInv ==
  req.fn = "compress" =>
    /\ ap \in Early \cup {"dictrec", "read"} => fed = <<>>
    /\ ap \in {"encode", "finish"} \/ (ap \in {"end", "done"} /\ st = OK) => fed = Bytes(0, req.size)

(* So many blocks are cut as the bytes handed over allow. *)
CutInv ==
  /\ nblk * BlockSize < Len(fed) + BlockSize
  /\ ap \in {"read", "encode", "reading"} \/ (ap = "sinking" /\ after \in {"read", "encode"}) =>
       nblk * BlockSize <= Len(fed)
  /\ Compressing /\ \/ ap = "sinking" /\ after = "end"
                    \/ ap \in {"end", "done"} /\ st = OK
     => nblk * BlockSize >= Len(fed)
  /\ ap = "dictrec" \/ (ap = "sinking" /\ after = "dictrec") => dlen > 0 /\ nblk = 0

(* Block n of the bytes f, the first n blocks, and an archive without its  *)
(* trailer: the size h in its header, a dictionary if d > 0.               *)
Cut(f, n) ==
  [kind |-> "block", data |-> SubSeq(f, n * BlockSize + 1, Least((n + 1) * BlockSize, Len(f)))]
CutUpTo(f, n) == [i \in 1 .. n |-> Cut(f, i - 1)]
Built(h, d, f, n) ==
  <<[kind |-> "head", data |-> <<h>>]>> \o (IF d > 0 THEN <<DictUnit>> ELSE <<>>) \o CutUpTo(f, n)

(* What the sink is to have received when the encoder is at p. *)
SoFar(p) ==
  IF p = "dictrec" THEN <<HeadUnit>>
  ELSE IF p = "end" THEN Built(hint, dlen, fed, nblk) \o <<TailUnit>>
  ELSE Built(hint, dlen, fed, nblk)

StartInv ==
  Compressing /\ ap \in Early => fed = <<>> /\ nblk = 0 /\ units = <<>> /\ mlen = 0 /\ outf = <<>>

UnitsInv ==
  req.fn = "compress" =>
    /\ ap \in Encoding => units = SoFar(ap)
    /\ ap \in {"end", "done"} /\ st = OK => units = SoFar("end")

SinkInv ==
  req.fn = "compress_file" =>
    /\ ap \in Encoding => outf = Halves(SoFar(ap))
    /\ ap = "reading" => outf = Halves(SoFar("read"))
    /\ ap = "sinking" => outf \o io.data = Halves(SoFar(after))
    /\ ap \in {"end", "done"} /\ st = OK => outf = Halves(SoFar("end"))

(* How much a memory sink has received at most. *)
DictRoom == IF dlen > 0 THEN RecSize + DictHead + dlen ELSE 0
Room(n, l) == HeadSize + DictRoom + n * (BlkSize + BlockCk) + Least(n * BlockSize, l)
RoomInv ==
  /\ req.fn = "compress" /\ ap = "dictrec" => mlen <= HeadSize
  /\ req.fn = "compress" /\ ap \in {"read", "encode", "finish"} =>
       mlen <= Room(nblk, Len(fed))

(* What has come out of the decoder is where it belongs. *)
DecInv ==
  ~Compressing =>
    /\ dpos <= req.arch.len
    /\ outf = Bytes(0, Len(outf))
    /\ ~ToFile => dst = Bytes(0, dpos) /\ dpos <= req.cap /\ outf = <<>>
    /\ ap \in Early => dpos = 0 /\ outf = <<>>
    /\ ToFile => Len(outf) <= dpos
    /\ ap \in {"pull", "check"} /\ ToFile => Len(outf) = dpos
    /\ ap = "sinking" => outf \o io.data = Bytes(0, dpos)
    /\ ap \in {"check"} \/ (ap \in {"end", "done"} /\ st = OK) =>
         req.arch.end = OK /\ dpos = req.arch.len /\ (ToFile => Len(outf) = dpos)
    /\ ~ToFile /\ ap \in {"end", "done"} /\ st = ErrDstTooSmall =>
         (dpos = req.cap /\ req.cap < req.arch.len) \/ req.arch.end = ErrDstTooSmall
    /\ told => ap \in {"end", "done"}
    /\ told /\ st = OK => req.arch.footer # "wrong"

(* The length is given at the very end. *)
LenInv ==
  outLen = IF ap = "done" /\ st = OK /\ ~ToFile
           THEN IF Compressing THEN mlen ELSE Len(dst)
           ELSE Unknown

IInv ==
  /\ TypeOK /\ PlaceInv /\ LiveInv /\ IoInv /\ HintInv /\ FedInv /\ CutInv
  /\ StartInv /\ UnitsInv /\ SinkInv /\ RoomInv /\ DecInv /\ LenInv /\ BoundSuffices
  /\ ~PreadMoves => ReadInv

-----------------------------------------------------------------------------
(* The calls, the constants, the data *)

(* Each field of a call is in its range. *)
LEMMA ReqFacts ==
  ASSUME req \in Calls
  PROVE  /\ req.fn \in {"compress", "decompress", "compress_file", "decompress_file"}
         /\ req.size \in Nat /\ req.start \in Nat /\ req.seekable \in BOOLEAN /\ req.dict \in Nat
         /\ req.cap \in Nat /\ req.arch.len \in Nat /\ req.arch.end \in Nat /\ req.arch.ck \in BOOLEAN
         /\ ToFile <=> req.fn \in {"compress_file", "decompress_file"}
         /\ Compressing <=> req.fn \in {"compress", "compress_file"}
BY CallsAssumption DEF ToFile, Compressing

(* The sizes that are parameters. *)
LEMMA SizeFacts ==
  /\ BlockSize \in Nat /\ BlockSize > 0 /\ IoBuf \in Nat /\ IoBuf > 0
  /\ Window \in Nat /\ Window > 0 /\ BlockCk \in Nat
  /\ IoChunk \in Nat /\ IoChunk > 0 /\ PreadMoves \in BOOLEAN /\ MaxGrow \in Nat
BY CallsAssumption, LayerAssumption

(* The smaller of two numbers. *)
LEMMA LeastFacts ==
  ASSUME NEW a \in Nat, NEW b \in Nat
  PROVE  Least(a, b) \in Nat /\ Least(a, b) <= a /\ Least(a, b) <= b /\ Least(a, b) \in {a, b}
BY DEF Least

(* A run of the input's bytes. *)
LEMMA BytesFacts ==
  ASSUME NEW p \in Nat, NEW n \in Nat
  PROVE  /\ Bytes(p, n) \in Seq(Int) /\ Bytes(p, n) \in Seq(Cell) /\ Len(Bytes(p, n)) = n
         /\ \A i \in 1 .. n : Bytes(p, n)[i] = p + i - 1
<1>1. \A i \in 1 .. n : p + i - 1 \in Int /\ p + i - 1 \in Cell
  BY DEF Cell
<1> QED BY <1>1 DEF Bytes

(* Two adjacent runs are one. *)
LEMMA BytesJoin ==
  ASSUME NEW p \in Nat, NEW n \in Nat, NEW m \in Nat
  PROVE  Bytes(p, n) \o Bytes(p + n, m) = Bytes(p, n + m)
<1>1. p + n \in Nat /\ n + m \in Nat
  OBVIOUS
<1> DEFINE a == Bytes(p, n)
           b == Bytes(p + n, m)
           c == Bytes(p, n + m)
<1>2. /\ a \in Seq(Int) /\ Len(a) = n /\ \A i \in 1 .. n : a[i] = p + i - 1
      /\ b \in Seq(Int) /\ Len(b) = m /\ \A i \in 1 .. m : b[i] = p + n + i - 1
      /\ c \in Seq(Int) /\ Len(c) = n + m /\ \A i \in 1 .. n + m : c[i] = p + i - 1
  BY <1>1, BytesFacts
<1> HIDE DEF a, b, c
<1>3. /\ a \o b \in Seq(Int) /\ Len(a \o b) = n + m
      /\ \A i \in 1 .. n + m : (a \o b)[i] = IF i <= n THEN a[i] ELSE b[i - n]
  <2>1. /\ a \o b \in Seq(Int) /\ Len(a \o b) = Len(a) + Len(b)
        /\ \A i \in 1 .. Len(a) + Len(b) : (a \o b)[i] = IF i <= Len(a) THEN a[i] ELSE b[i - Len(a)]
    BY ONLY <1>2, ConcatProperties
  <2>2. Len(a) = n /\ Len(b) = m
    BY ONLY <1>2
  <2> QED BY ONLY <2>1, <2>2
<1>4. \A i \in 1 .. n + m : (a \o b)[i] = c[i]
  <2> TAKE i \in 1 .. n + m
  <2>0. i <= n \/ i > n
    OBVIOUS
  <2>1. CASE i <= n
    BY <2>1, <1>2, <1>3
  <2>2. CASE i > n
    <3>1. i - n \in 1 .. m /\ p + n + (i - n) - 1 = p + i - 1
      BY <2>2
    <3>2. b[i - n] = p + n + (i - n) - 1
      BY <3>1, <1>2
    <3>3. (a \o b)[i] = b[i - n] /\ c[i] = p + i - 1
      BY SMTT(30), <2>2, <1>2, <1>3
    <3> QED BY <3>1, <3>2, <3>3
  <2> QED BY <2>0, <2>1, <2>2
<1>5. a \o b = c
  <2>1. Len(a \o b) = Len(c) /\ \A i \in 1 .. Len(a \o b) : (a \o b)[i] = c[i]
    BY <1>2, <1>3, <1>4
  <2> QED BY <2>1, <1>2, <1>3, SeqEqual
<1> QED BY <1>5 DEF a, b, c

(* Whether there is to be a dictionary, and of what size. *)
LEMMA WantFacts ==
  ASSUME TypeOK
  PROVE  /\ Want \in Nat
         /\ Want > 0 => hint \in Nat /\ Window <= Want /\ Window <= hint
<1>1. hint \in Nat \cup {Unknown} /\ req \in Calls
  BY DEF TypeOK, EncType, CallType
<1>2. ASSUME hint = Unknown PROVE Want = 0
  BY <1>2 DEF Want
<1>3. ASSUME hint # Unknown
      PROVE  Want \in Nat /\ (Want > 0 => hint \in Nat /\ Window <= Want /\ Window <= hint)
  <2>1. hint \in Nat /\ hint \div 4 \in Nat /\ hint \div 4 <= hint
    BY <1>1, <1>3
  <2>2. PICK w : w = Least(req.dict, hint \div 4)
    OBVIOUS
  <2>3. w \in Nat /\ w <= hint
    <3>1. req.dict \in Nat
      BY <1>1, ReqFacts
    <3> QED BY <3>1, <2>1, <2>2 DEF Least
  <2>4. Want = IF w < Window THEN 0 ELSE w
    BY <1>3, <2>2 DEF Want, DictSizeFor
  <2> QED BY <2>1, <2>3, <2>4, SizeFacts
<1> QED BY <1>2, <1>3

(* A window is read from a place in the input. *)
LEMMA SampleFacts ==
  ASSUME TypeOK, Want > 0, NEW i \in Nat
  PROVE  SampleAt(i) \in Nat
<1>1. Want \in Nat /\ hint \in Nat /\ Window <= Want /\ Window <= hint /\ Window \in Nat \ {0}
  BY WantFacts, SizeFacts
<1>2. PICK s : s = Samples
  OBVIOUS
<1>3. s \in Nat /\ s >= 1
  <2>1. s = Want \div Window
    BY <1>2 DEF Samples
  <2>2. s \in Nat /\ Want % Window \in 0 .. Window - 1 /\ Want = Window * s + (Want % Window)
    BY <2>1, <1>1, DivMod
  <2>3. s # 0
    <3> SUFFICES ASSUME s = 0 PROVE FALSE
      OBVIOUS
    <3>1. Want = Want % Window
      BY <2>2, <1>1
    <3> QED BY <3>1, <2>2, <1>1
  <2> QED BY <2>2, <2>3
<1>4. CASE s = 1
  BY <1>2, <1>4 DEF SampleAt
<1>5. CASE s # 1
  <2>1. s - 1 \in Nat \ {0}
    BY <1>3, <1>5
  <2>2. (hint - Window) * i \in Nat
    <3>1. hint - Window \in Nat
      BY <1>1
    <3> QED BY <3>1
  <2>3. ((hint - Window) * i) \div (s - 1) \in Nat
    BY <2>1, <2>2, DivMod
  <2> QED BY <1>2, <1>5, <2>3 DEF SampleAt
<1> QED BY <1>4, <1>5

(* The units have the form of units. *)
LEMMA UnitFacts ==
  ASSUME TypeOK
  PROVE  /\ HeadUnit \in UnitT /\ DictUnit \in UnitT /\ TailUnit \in UnitT
         /\ HeadUnit.kind = "head" /\ DictUnit.kind = "dict" /\ TailUnit.kind = "tail"
<1>1. hint \in Int /\ Len(fed) \in Int
  BY DEF TypeOK, EncType, Unknown
<1>2. <<hint>> \in Seq(Int) /\ <<Len(fed)>> \in Seq(Int) /\ << >> \in Seq(Int)
  BY <1>1
<1> QED BY <1>2 DEF HeadUnit, DictUnit, TailUnit, UnitT

(* A block's data is cut from the bytes handed over. *)
LEMMA CutFacts ==
  ASSUME NEW f \in Seq(Int), NEW n \in Nat, n * BlockSize < Len(f)
  PROVE  /\ Cut(f, n) \in UnitT /\ Cut(f, n).kind = "block"
         /\ Cut(f, n).data \in Seq(Int)
         /\ Len(Cut(f, n).data) = Least((n + 1) * BlockSize, Len(f)) - n * BlockSize
         /\ Len(Cut(f, n).data) \in 1 .. BlockSize
         /\ \A k \in 1 .. Len(Cut(f, n).data) : Cut(f, n).data[k] = f[n * BlockSize + k]
<1>1. Len(f) \in Nat /\ BlockSize \in Nat /\ BlockSize > 0
  BY SizeFacts
<1>2. PICK a \in Nat : a = n * BlockSize
  BY <1>1
<1>3. (n + 1) * BlockSize = a + BlockSize
  BY <1>1, <1>2
<1>4. PICK b \in Nat : b = Least((n + 1) * BlockSize, Len(f))
  BY <1>1, <1>3 DEF Least
<1>5. a < b /\ b <= a + BlockSize /\ b <= Len(f)
  BY <1>1, <1>2, <1>3, <1>4 DEF Least
<1>6. PICK c \in Nat : b = a + c
  <2>1. b - a \in Nat /\ b = a + (b - a)
    BY <1>5
  <2> QED BY <2>1
<1>7. c \in 1 .. BlockSize /\ c = b - a
  BY <1>1, <1>5, <1>6
<1>8. PICK t : t = SubSeq(f, a + 1, a + c)
  OBVIOUS
<1>9. t \in Seq(Int) /\ Len(t) = c /\ \A k \in 1 .. c : t[k] = f[a + k]
  <2>1. a + c <= Len(f)
    BY <1>5, <1>6
  <2> QED BY ONLY <1>8, <2>1, f \in Seq(Int), a \in Nat, c \in Nat, Slice
<1>10. Cut(f, n) = [kind |-> "block", data |-> t]
  BY <1>2, <1>4, <1>6, <1>8 DEF Cut
<1>11. Cut(f, n) \in UnitT /\ Cut(f, n).kind = "block" /\ Cut(f, n).data = t
  BY <1>9, <1>10 DEF UnitT
<1> QED BY <1>2, <1>4, <1>7, <1>9, <1>11

(* The block cut next: where bytes are left it is never empty and never *)
(* longer than a block.                                                 *)
LEMMA BlockFacts ==
  ASSUME TypeOK, NEW n \in Nat, n * BlockSize < Len(fed)
  PROVE  /\ BlockUnit(n) = Cut(fed, n)
         /\ BlockUnit(n) \in UnitT /\ BlockUnit(n).kind = "block"
         /\ Len(BlockUnit(n).data) = Least((n + 1) * BlockSize, Len(fed)) - n * BlockSize
         /\ Len(BlockUnit(n).data) \in 1 .. BlockSize
<1>1. fed \in Seq(Int)
  BY DEF TypeOK, EncType
<1>2. BlockUnit(n) = Cut(fed, n)
  BY DEF BlockUnit, Cut
<1> QED BY <1>1, <1>2, CutFacts

(* So many blocks, and so many more. *)
LEMMA CutUpToFacts ==
  ASSUME NEW f \in Seq(Int), NEW n \in Nat, n * BlockSize < Len(f) + BlockSize
  PROVE  /\ CutUpTo(f, n) \in Seq(UnitT) /\ Len(CutUpTo(f, n)) = n
         /\ \A i \in 1 .. n : CutUpTo(f, n)[i] = Cut(f, i - 1)
<1>1. Len(f) \in Nat /\ BlockSize \in Nat /\ BlockSize > 0
  BY SizeFacts
<1>2. \A i \in 1 .. n : Cut(f, i - 1) \in UnitT
  <2> TAKE i \in 1 .. n
  <2>1. i - 1 \in Nat /\ n - 1 \in Nat /\ i - 1 <= n - 1
    OBVIOUS
  <2>2. (i - 1) * BlockSize <= (n - 1) * BlockSize
    BY <2>1, <1>1, MulMono
  <2>3. (n - 1) * BlockSize = n * BlockSize - BlockSize
    BY <1>1
  <2>4. (i - 1) * BlockSize \in Nat /\ (n - 1) * BlockSize \in Nat /\ n * BlockSize \in Nat
    BY <2>1, <1>1
  <2>5. (i - 1) * BlockSize < Len(f)
    BY <2>2, <2>3, <2>4, <1>1
  <2> QED BY <2>1, <2>5, CutFacts
<1> QED BY <1>2 DEF CutUpTo

(* One more block cut is one more unit at the end of those cut before. *)
LEMMA CutUpToNext ==
  ASSUME NEW f \in Seq(Int), NEW n \in Nat, n * BlockSize < Len(f)
  PROVE  /\ Cut(f, n) \in UnitT
         /\ CutUpTo(f, n) \in Seq(UnitT) /\ CutUpTo(f, n + 1) \in Seq(UnitT)
         /\ CutUpTo(f, n + 1) = CutUpTo(f, n) \o <<Cut(f, n)>>
<1>1. Len(f) \in Nat /\ BlockSize \in Nat /\ BlockSize > 0
  BY SizeFacts
<1>2. /\ n * BlockSize \in Nat /\ n * BlockSize < Len(f) + BlockSize
      /\ (n + 1) * BlockSize = n * BlockSize + BlockSize
  BY <1>1
<1>3. n + 1 \in Nat /\ (n + 1) * BlockSize < Len(f) + BlockSize
  BY <1>1, <1>2
<1>4. PICK u \in UnitT : u = Cut(f, n)
  BY CutFacts
<1>5. PICK a : a = CutUpTo(f, n)
  OBVIOUS
<1>6. a \in Seq(UnitT) /\ Len(a) = n /\ \A i \in 1 .. n : a[i] = Cut(f, i - 1)
  BY <1>2, <1>5, CutUpToFacts
<1>7. PICK b : b = CutUpTo(f, n + 1)
  OBVIOUS
<1>8. b \in Seq(UnitT) /\ Len(b) = n + 1 /\ \A i \in 1 .. n + 1 : b[i] = Cut(f, i - 1)
  BY <1>3, <1>7, CutUpToFacts
<1>9. b = a \o <<u>>
  <2>1. <<u>> \in Seq(UnitT) /\ Len(<<u>>) = 1 /\ <<u>>[1] = u
    OBVIOUS
  <2>2. /\ a \o <<u>> \in Seq(UnitT) /\ Len(a \o <<u>>) = n + 1
        /\ \A i \in 1 .. n + 1 : (a \o <<u>>)[i] = IF i <= n THEN a[i] ELSE <<u>>[i - n]
    <3>1. PICK c : c = <<u>>
      OBVIOUS
    <3>2. /\ a \o c \in Seq(UnitT) /\ Len(a \o c) = Len(a) + Len(c)
          /\ \A i \in 1 .. Len(a) + Len(c) : (a \o c)[i] = IF i <= Len(a) THEN a[i] ELSE c[i - Len(a)]
      BY <3>1, <2>1, <1>6, ConcatProperties
    <3> QED BY <3>1, <3>2, <2>1, <1>6
  <2>3. \A i \in 1 .. n + 1 : (a \o <<u>>)[i] = b[i]
    <3> TAKE i \in 1 .. n + 1
    <3>1. CASE i <= n
      BY <3>1, <2>2, <1>6, <1>8
    <3>2. CASE i = n + 1
      <4>1. (n + 1) - n = 1 /\ (n + 1) - 1 = n /\ n + 1 \in 1 .. n + 1 /\ ~(n + 1 <= n)
        OBVIOUS
      <4>2. (a \o <<u>>)[n + 1] = <<u>>[(n + 1) - n] /\ b[n + 1] = Cut(f, (n + 1) - 1)
        BY <4>1, <2>2, <1>8
      <4>3. (a \o <<u>>)[n + 1] = u /\ b[n + 1] = u
        BY <4>1, <4>2, <2>1, <1>4
      <4> QED BY <3>2, <4>3
    <3>3. i <= n \/ i = n + 1
      OBVIOUS
    <3> QED BY <3>1, <3>2, <3>3
  <2>4. Len(a \o <<u>>) = Len(b) /\ \A i \in 1 .. Len(a \o <<u>>) : (a \o <<u>>)[i] = b[i]
    BY <2>2, <2>3, <1>8
  <2> QED BY <2>2, <2>4, <1>8, SeqEqual
<1> QED BY <1>4, <1>5, <1>6, <1>7, <1>8, <1>9

(* Bytes that come later do not change a block that is full. *)
LEMMA CutUpToGrow ==
  ASSUME NEW f \in Seq(Int), NEW g \in Seq(Int), NEW n \in Nat, n * BlockSize <= Len(f)
  PROVE  CutUpTo(f \o g, n) = CutUpTo(f, n)
<1>1. Len(f) \in Nat /\ Len(g) \in Nat /\ BlockSize \in Nat /\ BlockSize > 0
  BY SizeFacts
<1>2. PICK e : e = f \o g
  OBVIOUS
<1>3. /\ e \in Seq(Int) /\ Len(e) = Len(f) + Len(g)
      /\ \A i \in 1 .. Len(f) + Len(g) : e[i] = IF i <= Len(f) THEN f[i] ELSE g[i - Len(f)]
  BY <1>2, ConcatProperties
<1>4. \A i \in 1 .. n : Cut(e, i - 1) = Cut(f, i - 1)
  <2> TAKE i \in 1 .. n
  <2>1. PICK m \in Nat : m = i - 1
    OBVIOUS
  <2>2. m + 1 <= n /\ m + 1 \in Nat
    BY <2>1
  <2>3. (m + 1) * BlockSize <= n * BlockSize
    BY <2>2, <1>1, MulMono
  <2>4. PICK a \in Nat : a = m * BlockSize
    BY <1>1
  <2>5. (m + 1) * BlockSize = a + BlockSize
    BY <2>4, <1>1
  <2>6. PICK b \in Nat : b = n * BlockSize
    BY <1>1
  <2>7. a + BlockSize <= Len(f) /\ a + BlockSize <= Len(e)
    <3>1. a + BlockSize <= b /\ b <= Len(f)
      BY <2>3, <2>5, <2>6
    <3>2. Len(e) = Len(f) + Len(g)
      BY <1>3
    <3> QED BY <3>1, <3>2, <1>1
  <2>8. Least((m + 1) * BlockSize, Len(f)) = a + BlockSize /\ Least((m + 1) * BlockSize, Len(e)) = a + BlockSize
    BY <2>5, <2>7 DEF Least
  <2>9. PICK s, t : s = SubSeq(f, a + 1, a + BlockSize) /\ t = SubSeq(e, a + 1, a + BlockSize)
    OBVIOUS
  <2>10. s \in Seq(Int) /\ Len(s) = BlockSize /\ \A k \in 1 .. BlockSize : s[k] = f[a + k]
    <3>1. f \in Seq(Int)
      OBVIOUS
    <3>2. f \in Seq(Int) /\ a \in Nat /\ BlockSize \in Nat /\ a + BlockSize <= Len(f)
      BY <3>1, <2>7, <1>1
    <3>3. /\ SubSeq(f, a + 1, a + BlockSize) \in Seq(Int)
          /\ Len(SubSeq(f, a + 1, a + BlockSize)) = BlockSize
          /\ \A k \in 1 .. BlockSize : SubSeq(f, a + 1, a + BlockSize)[k] = f[a + k]
      BY ONLY <3>2, Slice
    <3> QED BY <2>9, <3>3
  <2>11. t \in Seq(Int) /\ Len(t) = BlockSize /\ \A k \in 1 .. BlockSize : t[k] = e[a + k]
    <3>1. e \in Seq(Int)
      BY <1>3
    <3>2. e \in Seq(Int) /\ a \in Nat /\ BlockSize \in Nat /\ a + BlockSize <= Len(e)
      BY <3>1, <2>7, <1>1
    <3>3. /\ SubSeq(e, a + 1, a + BlockSize) \in Seq(Int)
          /\ Len(SubSeq(e, a + 1, a + BlockSize)) = BlockSize
          /\ \A k \in 1 .. BlockSize : SubSeq(e, a + 1, a + BlockSize)[k] = e[a + k]
      BY ONLY <3>2, Slice
    <3> QED BY <2>9, <3>3
  <2>12. \A k \in 1 .. BlockSize : e[a + k] = f[a + k]
    <3> TAKE k \in 1 .. BlockSize
    <3>1. a + k \in 1 .. Len(f) + Len(g) /\ a + k <= Len(f)
      BY <2>7, <1>1
    <3> QED BY <3>1, <1>3
  <2>13. s = t
    <3>1. Len(s) = Len(t) /\ \A k \in 1 .. Len(s) : s[k] = t[k]
      BY <2>10, <2>11, <2>12
    <3> QED BY <3>1, <2>10, <2>11, SeqEqual
  <2>14. Cut(e, m) = [kind |-> "block", data |-> t] /\ Cut(f, m) = [kind |-> "block", data |-> s]
    BY <2>4, <2>8, <2>9 DEF Cut
  <2> QED BY <2>1, <2>13, <2>14
<1> QED BY <1>2, <1>4 DEF CutUpTo

(* Units in halves. *)
LEMMA HalvesFacts ==
  ASSUME NEW us \in Seq(UnitT)
  PROVE  /\ Halves(us) \in Seq(Cell) /\ Len(Halves(us)) = 2 * Len(us)
         /\ \A k \in 1 .. 2 * Len(us) : Halves(us)[k] = <<us[(k + 1) \div 2], k % 2>>
<1>1. Len(us) \in Nat /\ 2 * Len(us) \in Nat
  OBVIOUS
<1>2. \A k \in 1 .. 2 * Len(us) : (k + 1) \div 2 \in 1 .. Len(us) /\ k % 2 \in Nat
  BY <1>1
<1>3. \A k \in 1 .. 2 * Len(us) : <<us[(k + 1) \div 2], k % 2>> \in Cell
  <2> TAKE k \in 1 .. 2 * Len(us)
  <2>1. us[(k + 1) \div 2] \in UnitT
    BY <1>2
  <2> QED BY <2>1, <1>2 DEF Cell
<1> QED BY <1>1, <1>3 DEF Halves

(* The halves of two sequences of units follow each other. *)
LEMMA HalvesJoin ==
  ASSUME NEW us \in Seq(UnitT), NEW vs \in Seq(UnitT)
  PROVE  Halves(us) \o Halves(vs) = Halves(us \o vs)
<1>1. /\ us \o vs \in Seq(UnitT) /\ Len(us \o vs) = Len(us) + Len(vs)
      /\ \A i \in 1 .. Len(us) + Len(vs) :
           (us \o vs)[i] = IF i <= Len(us) THEN us[i] ELSE vs[i - Len(us)]
  BY ConcatProperties
<1> DEFINE a == Halves(us)
           b == Halves(vs)
           c == Halves(us \o vs)
<1>2. PICK m \in Nat, n \in Nat : m = Len(us) /\ n = Len(vs)
  OBVIOUS
<1>3. /\ a \in Seq(Cell) /\ Len(a) = 2 * m
      /\ \A k \in 1 .. 2 * m : a[k] = <<us[(k + 1) \div 2], k % 2>>
  BY <1>2, HalvesFacts
<1>4. /\ b \in Seq(Cell) /\ Len(b) = 2 * n
      /\ \A k \in 1 .. 2 * n : b[k] = <<vs[(k + 1) \div 2], k % 2>>
  BY <1>2, HalvesFacts
<1>5. /\ c \in Seq(Cell) /\ Len(c) = 2 * (m + n)
      /\ \A k \in 1 .. 2 * (m + n) : c[k] = <<(us \o vs)[(k + 1) \div 2], k % 2>>
  BY <1>1, <1>2, HalvesFacts
<1> HIDE DEF a, b, c
<1>6. /\ a \o b \in Seq(Cell) /\ Len(a \o b) = 2 * m + 2 * n
      /\ \A k \in 1 .. 2 * m + 2 * n : (a \o b)[k] = IF k <= 2 * m THEN a[k] ELSE b[k - 2 * m]
  <2>1. /\ a \o b \in Seq(Cell) /\ Len(a \o b) = Len(a) + Len(b)
        /\ \A k \in 1 .. Len(a) + Len(b) : (a \o b)[k] = IF k <= Len(a) THEN a[k] ELSE b[k - Len(a)]
    BY <1>3, <1>4, ConcatProperties
  <2> QED BY <2>1, <1>3, <1>4
<1>7. \A k \in 1 .. 2 * (m + n) : (a \o b)[k] = c[k]
  <2> TAKE k \in 1 .. 2 * (m + n)
  <2>0. k \in 1 .. 2 * m + 2 * n /\ (k <= 2 * m \/ k > 2 * m)
    OBVIOUS
  <2>1. CASE k <= 2 * m
    <3>1. (k + 1) \div 2 \in 1 .. m /\ (k + 1) \div 2 \in 1 .. m + n /\ k \in 1 .. 2 * m
      BY <2>0, <2>1
    <3>2. (us \o vs)[(k + 1) \div 2] = us[(k + 1) \div 2]
      BY <1>1, <1>2, <3>1
    <3>3. (a \o b)[k] = a[k]
      BY <2>0, <2>1, <1>6
    <3> QED BY <3>1, <3>2, <3>3, <1>3, <1>5
  <2>2. CASE k > 2 * m
    <3>1. PICK j \in 1 .. 2 * n : k = 2 * m + j
      <4>1. k - 2 * m \in 1 .. 2 * n /\ k = 2 * m + (k - 2 * m)
        BY <2>0, <2>2
      <4> QED BY <4>1
    <3>2. /\ (k + 1) \div 2 = m + (j + 1) \div 2 /\ k % 2 = j % 2 /\ k - 2 * m = j
          /\ (j + 1) \div 2 \in 1 .. n
      BY <3>1
    <3>3. (us \o vs)[(k + 1) \div 2] = vs[(j + 1) \div 2]
      <4>1. PICK q \in 1 .. n : q = (j + 1) \div 2
        BY <3>2
      <4>2. m + q \in 1 .. m + n /\ ~(m + q <= m) /\ (m + q) - m = q
        OBVIOUS
      <4>3. (us \o vs)[m + q] = vs[q]
        BY <4>2, <1>1, <1>2
      <4> QED BY <4>1, <4>3, <3>2
    <3>4. (a \o b)[k] = b[j]
      BY <2>0, <2>2, <1>6, <3>2
    <3>5. c[k] = <<vs[(j + 1) \div 2], j % 2>>
      BY <3>2, <3>3, <1>5
    <3> QED BY <3>4, <3>5, <1>4
  <2> QED BY <2>0, <2>1, <2>2
<1>8. a \o b = c
  <2>1. Len(a \o b) = Len(c) /\ \A k \in 1 .. Len(a \o b) : (a \o b)[k] = c[k]
    BY SMTT(30), <1>5, <1>6, <1>7
  <2> QED BY <2>1, <1>5, <1>6, SeqEqual
<1> QED BY <1>8 DEF a, b, c

(* What an operation on a file starts with. *)
LEMMA StartFacts ==
  /\ NoOp \in Operation /\ NoOp.data = <<>> /\ NoOp.st = OK /\ NoOp.op = "none"
  /\ \A n \in Nat : /\ Read(n) \in Operation /\ Read(n).data = <<>> /\ Read(n).st = OK
                    /\ Read(n).op = IF n > 0 THEN "read" ELSE "done"
                    /\ Read(n).want = n
  /\ \A n, o \in Nat : /\ Pread(n, o) \in Operation /\ Pread(n, o).data = <<>> /\ Pread(n, o).st = OK
                       /\ Pread(n, o).op = IF n > 0 THEN "pread" ELSE "done"
                       /\ Pread(n, o).want = n
  /\ \A d \in Seq(Cell) : /\ Write(d) \in Operation /\ Write(d).data = d /\ Write(d).st = OK
                          /\ Write(d).op = IF d # <<>> THEN "write" ELSE "done"
<1>1. << >> \in Seq(Cell)
  OBVIOUS
<1> QED BY <1>1 DEF NoOp, Read, Pread, Write, Operation

(* A unit takes some room. *)
LEMMA SizesFacts ==
  ASSUME TypeOK, NEW u \in UnitT
  PROVE  UnitSizes(u) \subseteq Nat
<1>1. dlen \in Nat /\ nblk \in Nat /\ BlockCk \in Nat /\ Len(u.data) \in Nat /\ u.kind \in {"head", "dict", "block", "tail"}
  BY SizeFacts DEF TypeOK, EncType, UnitT
<1>2. CASE u.kind = "head"
  BY <1>2 DEF UnitSizes, HeadSize
<1>3. CASE u.kind = "dict"
  BY <1>3, <1>1 DEF UnitSizes, RecSize, DictHead
<1>4. CASE u.kind = "block"
  BY <1>4, <1>1 DEF UnitSizes, BlkSize
<1>5. CASE u.kind = "tail"
  BY <1>5, <1>1 DEF UnitSizes, RecSize, FootSize, Preamble, EntrySize
<1> QED BY <1>1, <1>2, <1>3, <1>4, <1>5

(* What giving a unit to the sink does, to a file and to memory. *)
LEMMA EmitFacts ==
  ASSUME NEW u, NEW p, Emit(u, p)
  PROVE  /\ ToFile => /\ io' = Write(Halves(<<u>>)) /\ ap' = "sinking" /\ after' = p
                      /\ UNCHANGED <<units, mlen, st>>
         /\ ~ToFile => /\ UNCHANGED <<io, after>>
                       /\ \/ /\ ap' = p /\ st' = st /\ units' = Append(units, u)
                             /\ \E n \in UnitSizes(u) : mlen + n <= req.cap /\ mlen' = mlen + n
                          \/ /\ ap' = "end" /\ st' = ErrDstTooSmall /\ UNCHANGED <<units, mlen>>
                             /\ \E n \in UnitSizes(u) : ~(mlen + n <= req.cap)
<1>1. CASE ToFile
  BY <1>1 DEF Emit
<1>2. CASE ~ToFile
  BY <1>2 DEF Emit
<1> QED BY <1>1, <1>2

(* What emit leaves behind has its types, in memory and in a file. *)
LEMMA EmitTypes ==
  ASSUME TypeOK, NEW u \in UnitT, NEW p \in Encoding \cup {"end"}, Emit(u, p)
  PROVE  /\ io' \in Operation /\ units' \in Seq(UnitT) /\ mlen' \in Nat /\ st' \in Nat
         /\ ap' \in {p, "sinking", "end"}
         /\ after' \in Encoding \cup {"none", "pull", "end"}
<1>1. /\ io \in Operation /\ units \in Seq(UnitT) /\ mlen \in Nat /\ st \in Nat
      /\ after \in Encoding \cup {"none", "pull", "end"}
  BY DEF TypeOK, FileType, EncType, CallType
<1>2. CASE ToFile
  <2>1. <<u>> \in Seq(UnitT)
    OBVIOUS
  <2>2. Halves(<<u>>) \in Seq(Cell)
    BY <2>1, HalvesFacts
  <2>3. Write(Halves(<<u>>)) \in Operation
    BY <2>2, StartFacts
  <2> QED BY <1>1, <1>2, <2>3, EmitFacts
<1>3. CASE ~ToFile
  <2>1. \A n \in UnitSizes(u) : mlen + n \in Nat
    BY <1>1, SizesFacts
  <2>2. Append(units, u) \in Seq(UnitT) /\ ErrDstTooSmall \in Nat
    BY <1>1 DEF ErrDstTooSmall
  <2> QED BY <1>1, <1>3, <2>1, <2>2, EmitFacts
<1> QED BY <1>2, <1>3

(* The system calls keep to the form of an operation. *)
LEMMA SysCallTypes ==
  ASSUME FileType, Transfer \/ Interrupt \/ IoFails \/ Grow
  PROVE  FileType'
<1>1. /\ io \in Operation /\ io.data \in Seq(Cell) /\ Len(io.data) \in Nat /\ io.want \in Nat
      /\ io.at \in Nat /\ in.pos \in Nat /\ in.len \in Nat /\ in.grown \in Nat
      /\ in \in [len : Nat, pos : Nat, grown : Nat] /\ outf \in Seq(Cell)
  BY DEF FileType, Operation
<1>2. ASSUME ReadSome PROVE FileType'
  <2>1. Here \in Nat
    BY <1>1 DEF Here
  <2>2. PICK n \in 1 .. Least(IoChunk, io.want - Len(io.data)) :
          /\ Here + n <= in.len
          /\ io' = Filled(n)
          /\ in' = IF io.op = "read" \/ PreadMoves THEN [in EXCEPT !.pos = Here + n] ELSE in
    BY <1>2 DEF ReadSome
  <2>3. n \in Nat
    BY <1>1, SizeFacts DEF Least
  <2>4. PICK d : d = io.data \o Bytes(Here, n)
    OBVIOUS
  <2>5. d \in Seq(Cell)
    BY <1>1, <2>1, <2>3, <2>4, BytesFacts, ConcatProperties
  <2>6. io' = [io EXCEPT !.data = d, !.op = IF Len(io.data) + n = io.want THEN "done" ELSE @]
    BY <2>2, <2>4 DEF Filled
  <2>7. io' \in Operation
    BY <2>5, <2>6, <1>1 DEF Operation
  <2>8. in' \in [len : Nat, pos : Nat, grown : Nat]
    <3>1. Here + n \in Nat
      BY <2>1, <2>3
    <3> QED BY <3>1, <2>2, <1>1
  <2>9. outf' = outf
    BY <1>2 DEF ReadSome
  <2> QED BY <2>7, <2>8, <2>9, <1>1 DEF FileType
<1>3. ASSUME ReadEof PROVE FileType'
  BY <1>3, <1>1 DEF ReadEof, AtEof, FileType, Operation
<1>4. ASSUME WriteSome PROVE FileType'
  <2>1. PICK n \in 1 .. Least(IoChunk, Len(io.data)) :
          /\ outf' = outf \o SubSeq(io.data, 1, n)
          /\ io' = [io EXCEPT !.data = SubSeq(@, n + 1, Len(@)),
                              !.op = IF n = Len(io.data) THEN "done" ELSE @]
    BY <1>4 DEF WriteSome
  <2>2. n \in Nat /\ n <= Len(io.data)
    BY <1>1, SizeFacts DEF Least
  <2>3. SubSeq(io.data, 1, n) \in Seq(Cell)
    <3>1. 0 + n <= Len(io.data) /\ 0 \in Nat /\ 0 + 1 = 1 /\ 0 + n = n
      BY <2>2
    <3> QED BY <3>1, <2>2, <1>1, Slice
  <2>4. SubSeq(io.data, n + 1, Len(io.data)) \in Seq(Cell)
    <3>1. PICK m \in Nat : n + m = Len(io.data)
      <4>1. Len(io.data) - n \in Nat /\ n + (Len(io.data) - n) = Len(io.data)
        BY <2>2, <1>1
      <4> QED BY <4>1
    <3>2. n + m <= Len(io.data)
      BY <3>1, <1>1
    <3>3. SubSeq(io.data, n + 1, n + m) \in Seq(Cell)
      BY <3>2, <2>2, <1>1, Slice
    <3> QED BY <3>3, <3>1
  <2>5. PICK d \in Seq(Cell) : d = SubSeq(io.data, n + 1, Len(io.data))
    BY <2>4
  <2>6. io' = [io EXCEPT !.data = d, !.op = IF n = Len(io.data) THEN "done" ELSE @]
    BY <2>1, <2>5
  <2>7. io' \in Operation
    BY <2>6, <1>1 DEF Operation
  <2>8. outf' \in Seq(Cell)
    BY <2>1, <2>3, <1>1, ConcatProperties
  <2>9. in' = in
    BY <1>4 DEF WriteSome
  <2> QED BY <2>7, <2>8, <2>9, <1>1 DEF FileType
<1>5. ASSUME Interrupt PROVE FileType'
  BY <1>5, <1>1 DEF Interrupt, OnInterrupt, FileType
<1>6. ASSUME IoFails PROVE FileType'
  BY <1>6, <1>1 DEF IoFails, FileType, Operation
<1>7. ASSUME Grow PROVE FileType'
  <2>1. in' = [in EXCEPT !.len = in.len + 1, !.grown = in.grown + 1]
    BY <1>7 DEF Grow
  <2>2. in.len + 1 \in Nat /\ in.grown + 1 \in Nat
    BY <1>1
  <2>3. in' \in [len : Nat, pos : Nat, grown : Nat]
    BY <2>1, <2>2, <1>1
  <2> QED BY <1>7, <2>3, <1>1 DEF Grow, FileType
<1> QED BY <1>2, <1>3, <1>4, <1>5, <1>6, <1>7 DEF Transfer

(* What the decoder answers. *)
LEMMA DecoderFacts ==
  ASSUME TypeOK, dpos <= req.arch.len, NEW n \in Nat
  PROVE  /\ DecoderRead(n).got \in Nat /\ DecoderRead(n).got <= n /\ DecoderRead(n).st \in Nat
         /\ dpos + DecoderRead(n).got <= req.arch.len
         /\ DecoderRead(n).st # OK => DecoderRead(n).got = 0 /\ DecoderRead(n).st = req.arch.end
         /\ n > 0 /\ DecoderRead(n).got = 0 /\ DecoderRead(n).st = OK =>
              req.arch.end = OK /\ dpos = req.arch.len
         /\ DecoderRead(n).got = n \/ DecoderRead(n).st # OK \/ req.arch.end = OK
<1>1. dpos \in Nat /\ req.arch.len \in Nat /\ req.arch.end \in Nat /\ OK = 0
  BY ReqFacts DEF TypeOK, DecType, CallType, OK
<1>2. CASE dpos + n <= req.arch.len
  BY <1>1, <1>2 DEF DecoderRead
<1>3. CASE ~(dpos + n <= req.arch.len) /\ req.arch.end = OK
  <2>1. /\ req.arch.len - dpos \in Nat /\ req.arch.len - dpos <= n
        /\ dpos + (req.arch.len - dpos) <= req.arch.len
        /\ req.arch.len - dpos = 0 => dpos = req.arch.len
    BY <1>1, <1>3
  <2>2. DecoderRead(n) = [got |-> req.arch.len - dpos, st |-> OK]
    BY <1>3 DEF DecoderRead
  <2> QED BY <2>1, <2>2, <1>1, <1>3
<1>4. CASE ~(dpos + n <= req.arch.len) /\ req.arch.end # OK
  BY <1>1, <1>4 DEF DecoderRead
<1> QED BY <1>2, <1>3, <1>4

(* One turn of the loop of xq_decompress. *)
LEMMA PullMemFacts ==
  ASSUME TypeOK, dpos <= req.arch.len, Len(dst) = dpos, dpos <= req.cap, PullMem
  PROVE  \E g \in Nat :
           /\ dst' = dst \o Bytes(dpos, g) /\ dpos' = dpos + g /\ st' \in Nat
           /\ dpos + g <= req.arch.len /\ dpos + g <= req.cap
           /\ ap' = IF g = 0 THEN "end" ELSE "pull"
           /\ g > 0 => st' = OK
           /\ g = 0 /\ st' = OK => req.arch.end = OK /\ dpos = req.arch.len
           /\ st' # OK => \/ st' = ErrDstTooSmall /\ dpos = req.cap /\ req.cap < req.arch.len
                          \/ st' = req.arch.end
<1>1. /\ dpos \in Nat /\ req.arch.len \in Nat /\ req.cap \in Nat /\ OK = 0 /\ ErrDstTooSmall = 2
      /\ Len(dst) \in Nat
  BY ReqFacts DEF TypeOK, DecType, CallType, OK, ErrDstTooSmall
<1>2. CASE Len(dst) = req.cap
  <2>1. PICK r : r = PullProbe
    OBVIOUS
  <2>2. /\ dst' = dst \o Bytes(dpos, r.got) /\ dpos' = dpos + r.got /\ st' = r.st
        /\ ap' = IF r.got = 0 THEN "end" ELSE "pull"
    BY <1>2, <2>1 DEF PullMem
  <2>3. PICK d : d = DecoderRead(1)
    OBVIOUS
  <2>4. /\ d.got \in Nat /\ d.got <= 1 /\ d.st \in Nat /\ dpos + d.got <= req.arch.len
        /\ d.st # OK => d.got = 0 /\ d.st = req.arch.end
        /\ d.got = 0 /\ d.st = OK => req.arch.end = OK /\ dpos = req.arch.len
    BY <2>3, DecoderFacts
  <2>5. r = IF d.got = 1 THEN [got |-> 0, st |-> ErrDstTooSmall] ELSE d
    BY <2>1, <2>3 DEF PullProbe
  <2>6. CASE d.got = 1
    <3>1. r.got = 0 /\ r.st = ErrDstTooSmall /\ dpos < req.arch.len
      BY <2>4, <2>5, <2>6, <1>1
    <3> QED BY <3>1, <2>2, <1>1, <1>2
  <2>7. CASE d.got # 1
    <3>1. r = d /\ d.got = 0
      BY <2>4, <2>5, <2>7
    <3>2. r.got = 0 /\ r.st = d.st
      BY <3>1
    <3>3. dst' = dst \o Bytes(dpos, 0) /\ dpos' = dpos + 0 /\ st' = d.st /\ ap' = "end"
      BY <3>2, <2>2
    <3>4. dpos + 0 <= req.arch.len /\ dpos + 0 <= req.cap
      BY <1>1
    <3>5. 0 \in Nat /\ ~(0 > 0)
      OBVIOUS
    <3> QED BY <3>1, <3>3, <3>4, <3>5, <2>4
  <2> QED BY <2>6, <2>7
<1>3. CASE Len(dst) # req.cap
  <2>1. PICK n \in Nat : n = req.cap - Len(dst)
    BY <1>1, <1>3
  <2>2. n > 0 /\ dpos + n = req.cap
    BY <1>1, <1>3, <2>1
  <2>3. PICK r : r = DecoderRead(n)
    OBVIOUS
  <2>4. /\ dst' = dst \o Bytes(dpos, r.got) /\ dpos' = dpos + r.got /\ st' = r.st
        /\ ap' = IF r.got = 0 THEN "end" ELSE "pull"
    BY <1>3, <2>1, <2>3 DEF PullMem
  <2>5. /\ r.got \in Nat /\ r.got <= n /\ r.st \in Nat /\ dpos + r.got <= req.arch.len
        /\ r.st # OK => r.got = 0 /\ r.st = req.arch.end
        /\ r.got = 0 /\ r.st = OK => req.arch.end = OK /\ dpos = req.arch.len
    BY <2>2, <2>3, DecoderFacts
  <2>6. dpos + r.got <= req.cap
    BY <2>2, <2>5, <1>1
  <2>7. /\ r.got > 0 => r.st = OK
        /\ r.got = 0 /\ r.st = OK => req.arch.end = OK /\ dpos = req.arch.len
        /\ r.st # OK => r.st = req.arch.end
    BY <2>5
  <2> QED BY <2>4, <2>5, <2>6, <2>7
<1> QED BY <1>2, <1>3

(* Every action leaves the variables in their ranges. *)
LEMMA TypesKept ==
  ASSUME IInv, [Next]_vars
  PROVE  TypeOK'
<1> USE DEF IInv
<1>t. /\ FileType /\ EncType /\ DecType /\ CallType /\ TypeOK
      /\ req \in Calls /\ OK = 0 /\ ErrIO = 48 /\ ErrOOM = 3 /\ ErrCorruptBlock = 34 /\ Unknown = -1
  BY DEF TypeOK, CallType, OK, ErrIO, ErrOOM, ErrCorruptBlock, Unknown
<1>o. /\ NoOp \in Operation /\ io \in Operation /\ io.st \in Nat
      /\ \A n \in Nat : Read(n) \in Operation /\ \A o \in Nat : Pread(n, o) \in Operation
      /\ \A d \in Seq(Cell) : Write(d) \in Operation
  <2>1. io \in Operation
    BY DEF TypeOK, FileType
  <2>2. io.st \in Nat
    BY <2>1, <1>t DEF Operation
  <2> QED BY <2>1, <2>2, StartFacts
<1>r. /\ req.size \in Nat /\ req.arch.len \in Nat /\ req.cap \in Nat
      /\ IoBuf \in Nat /\ Window \in Nat /\ BlockSize \in Nat
  BY <1>t, ReqFacts, SizeFacts
<1>p. {"openin", "size", "openout", "dict", "sampling", "create", "dictrec", "read", "encode",
       "finish", "reading", "sinking", "pull", "check", "end", "done"} = Places
  BY DEF Places, Early, Opening, Encoding
<1>1. ASSUME OpenIn \/ OpenOut \/ DictNone \/ CreateFails \/ EncodeReturns \/ EncodeFails
             \/ CreateDecoder \/ PullFails \/ DictFails
      PROVE  TypeOK'
  <2>1. FileType' /\ EncType' /\ DecType'
    BY <1>1, <1>t DEF OpenIn, OpenOut, DictNone, CreateFails, EncodeReturns, EncodeFails,
         CreateDecoder, PullFails, DictFails, fileVars, encVars, decVars, FileType, EncType, DecType
  <2>2. req' = req /\ after' = after /\ outLen' = outLen
    BY <1>1 DEF OpenIn, OpenOut, DictNone, CreateFails, EncodeReturns, EncodeFails,
         CreateDecoder, PullFails, DictFails
  <2>3. ap' \in Places
    BY <1>1, <1>p DEF OpenIn, OpenOut, DictNone, CreateFails, EncodeReturns, EncodeFails,
         CreateDecoder, PullFails, DictFails, Give
  <2>4. live' \subseteq {"in", "out", "dict", "coder"}
    <3>1. live \subseteq {"in", "out", "dict", "coder"}
      BY <1>t DEF CallType
    <3>2. \/ live' \subseteq live \/ live' = live \cup {"in"} \/ live' = live \cup {"out"}
          \/ live' = live \cup {"coder"}
      BY <1>1 DEF OpenIn, OpenOut, DictNone, CreateFails, EncodeReturns, EncodeFails,
           CreateDecoder, PullFails, DictFails, Give
    <3> QED BY <3>1, <3>2
  <2>5. st' \in Nat
    BY <1>1, <1>t DEF OpenIn, OpenOut, DictNone, CreateFails, EncodeReturns, EncodeFails,
         CreateDecoder, PullFails, DictFails, Give, CallType
  <2>6. CallType'
    BY <2>2, <2>3, <2>4, <2>5, <1>t DEF CallType
  <2> QED BY <2>1, <2>6 DEF TypeOK
<1>2. ASSUME SizeHint PROVE TypeOK'
  <2>1. hint' \in Nat \cup {Unknown}
    <3>1. in.len \in Nat
      BY <1>t DEF FileType
    <3> QED BY <1>2, <3>1 DEF SizeHint
  <2>2. FileType' /\ EncType' /\ DecType'
    BY <1>2, <1>t, <2>1 DEF SizeHint, fileVars, decVars, FileType, EncType, DecType
  <2>3. CallType'
    BY <1>2, <1>t, <1>p DEF SizeHint, CallType
  <2> QED BY <2>2, <2>3 DEF TypeOK
<1>3. ASSUME DictPrefix PROVE TypeOK'
  <2>1. dlen' \in Nat
    BY <1>3, <1>t, WantFacts DEF DictPrefix
  <2>2. FileType' /\ EncType' /\ DecType'
    BY <1>3, <1>t, <2>1 DEF DictPrefix, fileVars, decVars, FileType, EncType, DecType
  <2>3. CallType'
    BY <1>3, <1>t, <1>p DEF DictPrefix, CallType
  <2> QED BY <2>2, <2>3 DEF TypeOK
<1>4. ASSUME DictSample PROVE TypeOK'
  <2>1. io' \in Operation
    <3>1. SampleAt(0) \in Nat
      BY <1>4, <1>t, SampleFacts DEF DictSample
    <3> QED BY <1>4, <3>1, <1>o, <1>r DEF DictSample
  <2>2. FileType' /\ EncType' /\ DecType'
    BY <1>4, <1>t, <2>1 DEF DictSample, encVars, decVars, FileType, EncType, DecType
  <2>3. CallType'
    BY <1>4, <1>t, <1>p DEF DictSample, CallType
  <2> QED BY <2>2, <2>3 DEF TypeOK
<1>5. ASSUME DictSampled PROVE TypeOK'
  <2>1. dlen' \in Nat /\ dlen' = dlen + Window
    BY <1>5, <1>t, <1>r DEF DictSampled, EncType
  <2>2. io' \in Operation
    <3>1. Want > 0
      BY <1>5 DEF DictSampled, HintInv
    <3>2. (dlen + Window) \div Window \in Nat
      <4>1. dlen + Window \in Nat /\ Window \in Nat \ {0}
        BY <2>1, SizeFacts
      <4> QED BY <4>1, DivMod
    <3>3. SampleAt((dlen + Window) \div Window) \in Nat
      BY <3>1, <3>2, <1>t, SampleFacts
    <3> QED BY <1>5, <3>3, <1>o, <1>r DEF DictSampled
  <2>3. FileType' /\ EncType' /\ DecType'
    BY <1>5, <1>t, <2>1, <2>2 DEF DictSampled, decVars, FileType, EncType, DecType
  <2>4. ap' \in {"create", "sampling"}
    BY <1>5 DEF DictSampled
  <2>5. CallType'
    BY <1>5, <2>4, <1>t, <1>p DEF DictSampled, CallType
  <2> QED BY <2>3, <2>5 DEF TypeOK
<1>6. ASSUME NEW u \in UnitT, NEW p \in Encoding \cup {"end"}, Emit(u, p),
             UNCHANGED <<in, outf, req, hint, dlen, fed, decVars, outLen>>,
             nblk' \in Nat, live' \subseteq live \cup {"coder"}
      PROVE  TypeOK'
  <2>1. /\ io' \in Operation /\ units' \in Seq(UnitT) /\ mlen' \in Nat /\ st' \in Nat
        /\ ap' \in {p, "sinking", "end"}
        /\ after' \in Encoding \cup {"none", "pull", "end"}
    BY <1>6, <1>t, EmitTypes
  <2>2. ap' \in Places
    BY <2>1, <1>p DEF Encoding
  <2>3. FileType' /\ EncType' /\ DecType'
    BY <1>6, <1>t, <2>1 DEF FileType, EncType, DecType, decVars
  <2>4. CallType'
    BY <1>6, <1>t, <2>1, <2>2 DEF CallType
  <2> QED BY <2>3, <2>4 DEF TypeOK
<1>u. /\ HeadUnit \in UnitT /\ DictUnit \in UnitT /\ TailUnit \in UnitT
      /\ nblk \in Nat /\ nblk + 1 \in Nat
      /\ {"dictrec", "read", "encode", "finish", "end"} = Encoding \cup {"end"}
  BY <1>t, UnitFacts DEF EncType, Encoding
<1>7. ASSUME CreateEncoder PROVE TypeOK'
  <2>1. PICK p \in Encoding \cup {"end"} : p = IF dlen > 0 THEN "dictrec" ELSE "read"
    BY <1>u
  <2>2. Emit(HeadUnit, p)
    BY <1>7, <2>1 DEF CreateEncoder
  <2> QED BY <1>7, <2>2, <1>6, <1>u DEF CreateEncoder
<1>8. ASSUME WriteDict PROVE TypeOK'
  BY <1>8, <1>6, <1>u DEF WriteDict
<1>9. ASSUME EncodeBlock PROVE TypeOK'
  <2>1. nblk * BlockSize < Len(fed)
    <3>1. (nblk + 1) * BlockSize <= Len(fed) /\ BlockSize > 0 /\ Len(fed) \in Nat
      BY <1>9, <1>t, SizeFacts DEF EncodeBlock, EncType
    <3> QED BY <3>1, <1>u, <1>r
  <2>2. BlockUnit(nblk) \in UnitT
    BY <2>1, <1>u, <1>t, BlockFacts
  <2> QED BY <1>9, <1>6, <1>u, <2>2 DEF EncodeBlock
<1>10. ASSUME FinishBlock PROVE TypeOK'
  <2>1. BlockUnit(nblk) \in UnitT
    BY <1>10, <1>u, <1>t, BlockFacts DEF FinishBlock
  <2> QED BY <1>10, <1>6, <1>u, <2>1 DEF FinishBlock
<1>11. ASSUME FinishTrailer PROVE TypeOK'
  BY <1>11, <1>6, <1>u DEF FinishTrailer
<1>12. ASSUME Sunk PROVE TypeOK'
  <2>1. ap' \in Places
    <3>1. after \in Encoding \cup {"pull", "end"}
      BY <1>12 DEF Sunk, PlaceInv
    <3> QED BY <1>12, <3>1, <1>p DEF Sunk, Encoding
  <2>2. st' \in Nat
    BY <1>12, <1>o DEF Sunk
  <2>3. FileType' /\ EncType' /\ DecType'
    BY <1>12, <1>t, <1>o DEF Sunk, FileType, EncType, DecType, encVars, decVars
  <2>4. CallType'
    BY <1>12, <1>t, <2>1, <2>2 DEF Sunk, CallType
  <2> QED BY <2>3, <2>4 DEF TypeOK
<1>13. ASSUME FeedAll PROVE TypeOK'
  <2>1. fed' \in Seq(Int)
    <3>1. 0 \in Nat
      OBVIOUS
    <3> QED BY <1>13, <3>1, <1>r, BytesFacts DEF FeedAll
  <2>2. FileType' /\ EncType' /\ DecType'
    BY <1>13, <1>t, <2>1 DEF FeedAll, fileVars, decVars, FileType, EncType, DecType
  <2>3. CallType'
    BY <1>13, <1>t, <1>p DEF FeedAll, CallType
  <2> QED BY <2>2, <2>3 DEF TypeOK
<1>14. ASSUME ReadInput PROVE TypeOK'
  <2>1. FileType' /\ EncType' /\ DecType'
    BY <1>14, <1>t, <1>o, <1>r DEF ReadInput, encVars, decVars, FileType, EncType, DecType
  <2>2. CallType'
    BY <1>14, <1>t, <1>p DEF ReadInput, CallType
  <2> QED BY <2>1, <2>2 DEF TypeOK
<1>15. ASSUME InputRead PROVE TypeOK'
  <2>1. io.data \in Seq(Int) /\ fed \in Seq(Int) /\ ap = "reading"
    BY <1>15, <1>t DEF InputRead, IoInv, EncType
  <2>2. fed' \in Seq(Int)
    <3>1. fed \o io.data \in Seq(Int)
      BY <2>1, ConcatProperties
    <3> QED BY <1>15, <2>1, <3>1 DEF InputRead
  <2>3. FileType' /\ EncType' /\ DecType'
    BY <1>15, <1>t, <1>o, <2>2 DEF InputRead, decVars, FileType, EncType, DecType
  <2>4. st' \in Nat /\ ap' \in {"end", "finish", "encode"}
    BY <1>15, <1>o DEF InputRead
  <2>5. CallType'
    BY <1>15, <1>t, <1>p, <2>4 DEF InputRead, CallType
  <2> QED BY <2>3, <2>5 DEF TypeOK
<1>16. ASSUME PullMem PROVE TypeOK'
  <2>1. ~Compressing /\ ~ToFile
    BY <1>16 DEF PullMem, PlaceInv
  <2>2. dpos \in Nat /\ dst = Bytes(0, dpos) /\ dpos <= req.arch.len /\ dpos <= req.cap
    BY <2>1, <1>t DEF DecInv, DecType
  <2>3. Len(dst) = dpos
    <3>1. 0 \in Nat
      OBVIOUS
    <3> QED BY <3>1, <2>2, BytesFacts
  <2>4. PICK g \in Nat :
          /\ dst' = dst \o Bytes(dpos, g) /\ dpos' = dpos + g /\ st' \in Nat
          /\ ap' = IF g = 0 THEN "end" ELSE "pull"
    BY <1>16, <1>t, <2>2, <2>3, PullMemFacts
  <2>5. dst' \in Seq(Int) /\ dpos' \in Nat
    <3>1. dst \in Seq(Int) /\ Bytes(dpos, g) \in Seq(Int)
      BY <1>t, <2>2, <2>4, BytesFacts DEF DecType
    <3> QED BY <3>1, <2>2, <2>4, ConcatProperties
  <2>6. FileType' /\ EncType' /\ DecType'
    BY <1>16, <1>t, <2>5 DEF PullMem, fileVars, encVars, FileType, EncType, DecType
  <2>7. CallType'
    BY <1>16, <1>t, <1>p, <2>4 DEF PullMem, CallType
  <2> QED BY <2>6, <2>7 DEF TypeOK
<1>17. ASSUME PullFile PROVE TypeOK'
  <2>1. PICK r : r = DecoderRead(IoBuf)
    OBVIOUS
  <2>2. dpos \in Nat /\ dpos <= req.arch.len
    BY <1>17, <1>t DEF PullFile, PlaceInv, DecInv, DecType
  <2>3. r.got \in Nat /\ r.st \in Nat
    BY <2>1, <2>2, <1>t, <1>r, DecoderFacts
  <2>4. Write(Bytes(dpos, r.got)) \in Operation
    BY <2>2, <2>3, <1>o, BytesFacts
  <2>5. /\ st' = r.st /\ dpos' = dpos + r.got
        /\ \/ io' = Write(Bytes(dpos, r.got)) /\ ap' = "sinking" /\ after' = "pull"
           \/ ap' \in {"check", "end"} /\ UNCHANGED <<io, after>>
    BY <1>17, <2>1 DEF PullFile
  <2>6. io' \in Operation /\ dpos' \in Nat
    BY <2>2, <2>3, <2>4, <2>5, <1>o
  <2>7. FileType' /\ EncType' /\ DecType'
    BY <1>17, <1>t, <2>6 DEF PullFile, encVars, FileType, EncType, DecType
  <2>8. CallType'
    BY <1>17, <1>t, <1>p, <2>3, <2>5 DEF PullFile, CallType
  <2> QED BY <2>7, <2>8 DEF TypeOK
<1>18. ASSUME FooterCheck PROVE TypeOK'
  <2>1. told' \in BOOLEAN /\ st' \in Nat
    BY <1>18, <1>t DEF FooterCheck, CallType
  <2>2. FileType' /\ EncType' /\ DecType'
    BY <1>18, <1>t, <2>1 DEF FooterCheck, fileVars, encVars, FileType, EncType, DecType
  <2>3. CallType'
    BY <1>18, <1>t, <1>p, <2>1 DEF FooterCheck, CallType
  <2> QED BY <2>2, <2>3 DEF TypeOK
<1>19. ASSUME Return PROVE TypeOK'
  <2>1. outLen' \in Nat \cup {Unknown}
    <3>1. outLen \in Nat \cup {Unknown} /\ mlen \in Nat /\ Len(dst) \in Nat
      BY <1>t DEF CallType, EncType, DecType
    <3> QED BY <1>19, <3>1 DEF Return
  <2>2. FileType' /\ EncType' /\ DecType'
    BY <1>19, <1>t DEF Return, fileVars, encVars, decVars, FileType, EncType, DecType
  <2>3. CallType'
    BY <1>19, <1>t, <1>p, <2>1 DEF Return, Give, CallType
  <2> QED BY <2>2, <2>3 DEF TypeOK
<1>20. ASSUME Transfer \/ Interrupt \/ IoFails \/ Grow, UNCHANGED apiVars PROVE TypeOK'
  <2>1. FileType'
    BY <1>20, <1>t, SysCallTypes
  <2>2. EncType' /\ DecType' /\ CallType'
    BY <1>20, <1>t DEF apiVars, EncType, DecType, CallType
  <2> QED BY <2>1, <2>2 DEF TypeOK
<1>21. ASSUME UNCHANGED vars PROVE TypeOK'
  BY <1>21, <1>t DEF vars, fileVars, apiVars, TypeOK, FileType, EncType, DecType, CallType
<1> QED
  BY <1>1, <1>2, <1>3, <1>4, <1>5, <1>7, <1>8, <1>9, <1>10, <1>11, <1>12, <1>13, <1>14, <1>15,
     <1>16, <1>17, <1>18, <1>19, <1>20, <1>21 DEF Next, Step, SysCall, Environment, Terminated

(* The call stays what it is. *)
LEMMA ReqKept ==
  ASSUME [Next]_vars
  PROVE  req' = req /\ ToFile' = ToFile /\ Compressing' = Compressing
<1>1. req' = req
  BY DEF Next, Step, SysCall, Environment, Terminated, vars, apiVars,
     OpenIn, SizeHint, OpenOut, DictNone, DictPrefix, DictSample, DictSampled, DictFails,
     CreateEncoder, WriteDict, CreateFails, Sunk, FeedAll, ReadInput, InputRead,
     EncodeBlock, EncodeReturns, EncodeFails, FinishBlock, FinishTrailer,
     CreateDecoder, PullMem, PullFile, PullFails, FooterCheck, Return
<1> QED BY <1>1 DEF ToFile, Compressing

-----------------------------------------------------------------------------
(* Places, handles and operations *)

(* The places of a call follow its kind, and each holds what the code there *)
(* relies on.                                                               *)
LEMMA PlaceKept ==
  ASSUME IInv, [Next]_vars
  PROVE  PlaceInv'
<1> USE DEF IInv
<1>t. /\ PlaceInv /\ TypeOK /\ st \in Nat /\ OK = 0 /\ ErrIO = 48 /\ ErrOOM = 3
      /\ req' = req /\ ToFile' = ToFile /\ Compressing' = Compressing
  BY ReqKept DEF TypeOK, CallType, OK, ErrIO, ErrOOM
<1>p. /\ "read" \in Encoding /\ "dictrec" \in Encoding /\ "encode" \in Encoding
      /\ Encoding = {"dictrec", "read", "encode", "finish"}
      /\ Opening = {"openin", "size", "openout"}
  BY DEF Encoding, Opening
<1> USE <1>t, <1>p DEF PlaceInv
<1>1. ASSUME OpenIn PROVE PlaceInv'
  BY <1>1 DEF OpenIn, Give
<1>2. ASSUME SizeHint PROVE PlaceInv'
  BY <1>2 DEF SizeHint
<1>3. ASSUME OpenOut PROVE PlaceInv'
  BY <1>3 DEF OpenOut, Give
<1>4. ASSUME DictNone \/ DictPrefix \/ DictSample PROVE PlaceInv'
  BY <1>4 DEF DictNone, DictPrefix, DictSample
<1>5. ASSUME DictSampled PROVE PlaceInv'
  <2>1. ap = "sampling" /\ ap' \in {"create", "sampling"} /\ UNCHANGED <<after, st>>
    BY <1>5 DEF DictSampled
  <2> QED BY <2>1
<1>6. ASSUME DictFails \/ CreateFails \/ Return PROVE PlaceInv'
  <2>1. ap' = "done"
    BY <1>6 DEF DictFails, CreateFails, Return, Give
  <2> QED BY <2>1
<1>7. ASSUME NEW u, NEW p \in Encoding \cup {"end"}, Compressing, ap \notin {"end", "done"}, Emit(u, p)
      PROVE  PlaceInv'
  <2>1. CASE ToFile
    <3>1. ap' = "sinking" /\ after' = p /\ st' = st
      BY <1>7, <2>1, EmitFacts
    <3> QED BY <1>7, <2>1, <3>1
  <2>2. CASE ~ToFile
    <3>1. (ap' = p /\ st' = st) \/ ap' = "end"
      BY <1>7, <2>2, EmitFacts
    <3> QED BY <1>7, <2>2, <3>1
  <2> QED BY <2>1, <2>2
<1>8. ASSUME CreateEncoder PROVE PlaceInv'
  <2>1. PICK p \in Encoding \cup {"end"} : p = IF dlen > 0 THEN "dictrec" ELSE "read"
    OBVIOUS
  <2>2. Emit(HeadUnit, p) /\ Compressing /\ ap \notin {"end", "done"}
    BY <1>8, <2>1 DEF CreateEncoder
  <2> QED BY <2>2, <1>7
<1>9. ASSUME WriteDict \/ EncodeBlock \/ FinishBlock \/ FinishTrailer PROVE PlaceInv'
  <2>1. ap \in Encoding /\ \E u : \E p \in Encoding \cup {"end"} : Emit(u, p)
    BY <1>9 DEF WriteDict, EncodeBlock, FinishBlock, FinishTrailer
  <2> QED BY <2>1, <1>7
<1>10. ASSUME Sunk PROVE PlaceInv'
  <2>1. /\ ap = "sinking" /\ st' = io.st /\ after' = after
        /\ ap' = IF io.st = OK THEN after ELSE "end"
    BY <1>10 DEF Sunk
  <2>2. CASE io.st = OK
    <3>1. ap' = after /\ st' = OK /\ after' = after
      BY <2>1, <2>2
    <3> QED BY <2>1, <3>1
  <2>3. CASE io.st # OK
    BY <2>1, <2>3
  <2> QED BY <2>2, <2>3
<1>11. ASSUME FeedAll \/ ReadInput PROVE PlaceInv'
  BY <1>11 DEF FeedAll, ReadInput
<1>12. ASSUME InputRead PROVE PlaceInv'
  <2>1. /\ ap = "reading" /\ st' = io.st /\ after' = after
        /\ (io.st # OK /\ ap' = "end") \/ (io.st = OK /\ ap' \in {"finish", "encode"})
    BY <1>12 DEF InputRead
  <2> QED BY <2>1
<1>13. ASSUME EncodeReturns PROVE PlaceInv'
  BY <1>13 DEF EncodeReturns
<1>14. ASSUME EncodeFails \/ PullFails PROVE PlaceInv'
  BY <1>14 DEF EncodeFails, PullFails
<1>15. ASSUME CreateDecoder PROVE PlaceInv'
  BY <1>15 DEF CreateDecoder
<1>d. /\ dpos \in Nat /\ IoBuf \in Nat /\ req.arch.len \in Nat
      /\ ~Compressing => dpos <= req.arch.len
  BY ReqFacts, SizeFacts DEF TypeOK, DecType, CallType, DecInv
<1>16. ASSUME PullMem PROVE PlaceInv'
  <2>1. ~ToFile /\ ~Compressing /\ ap = "pull" /\ after' = after
    BY <1>16 DEF PullMem
  <2>2. dst = Bytes(0, dpos) /\ dpos <= req.cap /\ 0 \in Nat
    BY <2>1 DEF DecInv
  <2>3. Len(dst) = dpos
    BY <2>2, <1>d, BytesFacts
  <2>4. ap' = "end" \/ (ap' = "pull" /\ st' = OK)
    <3>1. PICK g \in Nat : ap' = (IF g = 0 THEN "end" ELSE "pull") /\ (g > 0 => st' = OK)
      BY <1>16, <1>d, <2>1, <2>2, <2>3, PullMemFacts
    <3>2. g = 0 \/ g > 0
      OBVIOUS
    <3> QED BY <3>1, <3>2
  <2> QED BY <2>1, <2>4
<1>17. ASSUME PullFile PROVE PlaceInv'
  <2>1. PICK r : r = DecoderRead(IoBuf)
    OBVIOUS
  <2>2. ToFile /\ ap = "pull" /\ ~Compressing
    BY <1>17 DEF PullFile
  <2>3. r.got \in Nat /\ (r.st # OK => r.got = 0)
    BY <1>d, <2>1, <2>2, DecoderFacts
  <2>4. /\ st' = r.st
        /\ \/ r.got > 0 /\ ap' = "sinking" /\ after' = "pull"
           \/ ap' = "check" /\ r.st = OK /\ after' = after
           \/ ap' = "end" /\ after' = after
    BY <1>17, <2>1 DEF PullFile
  <2> QED BY <2>2, <2>3, <2>4
<1>18. ASSUME FooterCheck PROVE PlaceInv'
  BY <1>18 DEF FooterCheck
<1>19. ASSUME SysCall \/ Environment \/ UNCHANGED vars PROVE PlaceInv'
  <2>1. ap' = ap /\ after' = after /\ st' = st
    BY <1>19 DEF SysCall, Environment, apiVars, vars
  <2> QED BY <2>1
<1> QED
  BY <1>1, <1>2, <1>3, <1>4, <1>5, <1>6, <1>8, <1>9, <1>10, <1>11, <1>12, <1>13, <1>14, <1>15,
     <1>16, <1>17, <1>18, <1>19 DEF Next, Step, Terminated

(* A call holds only what it has acquired by its place, and nothing once done. *)
LEMMA LiveKept ==
  ASSUME IInv, [Next]_vars
  PROVE  LiveInv'
<1> USE DEF IInv
<1>t. LiveInv /\ PlaceInv /\ live \subseteq {"in", "out", "dict", "coder"}
  BY DEF TypeOK, CallType
<1>p. /\ Encoding = {"dictrec", "read", "encode", "finish"}
      /\ Opening = {"openin", "size", "openout"}
  BY DEF Encoding, Opening
<1> USE <1>t, <1>p DEF LiveInv
<1>1. ASSUME OpenIn PROVE LiveInv'
  BY <1>1 DEF OpenIn, Give
<1>2. ASSUME SizeHint PROVE LiveInv'
  BY <1>2 DEF SizeHint
<1>3. ASSUME OpenOut PROVE LiveInv'
  BY <1>3 DEF OpenOut, Give
<1>4. ASSUME DictNone \/ DictPrefix \/ DictSample PROVE LiveInv'
  BY <1>4 DEF DictNone, DictPrefix, DictSample
<1>5. ASSUME DictSampled PROVE LiveInv'
  <2>1. ap = "sampling" /\ ap' \in {"create", "sampling"} /\ live' = live
    BY <1>5 DEF DictSampled
  <2> QED BY <2>1
<1>6. ASSUME DictFails PROVE LiveInv'
  <2>1. ap \in {"dict", "sampling"} /\ ap' = "done" /\ live' = live \ DictHeld
    BY <1>6 DEF DictFails, Give
  <2> QED BY <2>1 DEF DictHeld
<1>7. ASSUME CreateFails PROVE LiveInv'
  BY <1>7 DEF CreateFails, Give
<1>8. ASSUME Return PROVE LiveInv'
  BY <1>8 DEF Return, Give
<1>9. ASSUME ap' \in Encoding \cup {"reading", "sinking", "pull", "check", "end"} PROVE LiveInv'
  BY <1>9
<1>e. ASSUME NEW u, NEW p \in Encoding \cup {"end"}, Emit(u, p)
      PROVE  ap' \in Encoding \cup {"sinking", "end"}
  BY <1>e, EmitFacts
<1>10. ASSUME CreateEncoder PROVE LiveInv'
  <2>1. PICK p \in Encoding \cup {"end"} : p = IF dlen > 0 THEN "dictrec" ELSE "read"
    OBVIOUS
  <2>2. Emit(HeadUnit, p)
    BY <1>10, <2>1 DEF CreateEncoder
  <2>3. ap' \in Encoding \cup {"sinking", "end"}
    BY <2>2, <1>e
  <2> QED BY <2>3, <1>9
<1>11. ASSUME WriteDict \/ EncodeBlock \/ FinishBlock \/ FinishTrailer PROVE LiveInv'
  <2>1. \E u : \E p \in Encoding \cup {"end"} : Emit(u, p)
    BY <1>11 DEF WriteDict, EncodeBlock, FinishBlock, FinishTrailer
  <2>2. ap' \in Encoding \cup {"sinking", "end"}
    BY <2>1, <1>e
  <2> QED BY <2>2, <1>9
<1>12. ASSUME Sunk PROVE LiveInv'
  <2>1. ap = "sinking" /\ ap' = IF io.st = OK THEN after ELSE "end"
    BY <1>12 DEF Sunk
  <2>2. after \in Encoding \cup {"pull", "end"}
    BY <2>1 DEF PlaceInv
  <2>3. ap' \in Encoding \cup {"pull", "end"}
    BY <2>1, <2>2
  <2> QED BY <2>3, <1>9
<1>13. ASSUME FeedAll \/ ReadInput \/ InputRead \/ EncodeReturns \/ EncodeFails PROVE LiveInv'
  <2>1. ap' \in Encoding \cup {"reading", "end"}
    BY <1>13 DEF FeedAll, ReadInput, InputRead, EncodeReturns, EncodeFails
  <2> QED BY <2>1, <1>9
<1>14. ASSUME CreateDecoder \/ PullMem \/ PullFile \/ PullFails \/ FooterCheck PROVE LiveInv'
  <2>1. ap' \in {"pull", "sinking", "check", "end"}
    BY <1>14 DEF CreateDecoder, PullMem, PullFile, PullFails, FooterCheck
  <2> QED BY <2>1, <1>9
<1>15. ASSUME SysCall \/ Environment \/ UNCHANGED vars PROVE LiveInv'
  <2>1. ap' = ap /\ live' = live
    BY <1>15 DEF SysCall, Environment, apiVars, vars
  <2> QED BY <2>1
<1> QED
  BY <1>1, <1>2, <1>3, <1>4, <1>5, <1>6, <1>7, <1>8, <1>10, <1>11, <1>12, <1>13, <1>14, <1>15
  DEF Next, Step, Terminated

(* The system calls of a read or a sample. *)
LEMMA ReadSomeFacts ==
  ASSUME TypeOK, ReadSome
  PROVE  \E n \in Nat :
           /\ n > 0 /\ Len(io.data) + n <= io.want
           /\ Here \in Nat /\ Here + n <= in.len
           /\ io' = [io EXCEPT !.data = io.data \o Bytes(Here, n),
                               !.op = IF Len(io.data) + n = io.want THEN "done" ELSE io.op]
           /\ in' = IF io.op = "read" \/ PreadMoves THEN [in EXCEPT !.pos = Here + n] ELSE in
           /\ Len(io.data \o Bytes(Here, n)) = Len(io.data) + n
           /\ outf' = outf
<1>1. /\ io \in Operation /\ io.data \in Seq(Cell) /\ Len(io.data) \in Nat /\ io.want \in Nat
      /\ io.at \in Nat /\ in.pos \in Nat /\ in.len \in Nat
  BY DEF TypeOK, FileType, Operation
<1>2. Here \in Nat
  BY <1>1 DEF Here
<1>3. PICK n \in 1 .. Least(IoChunk, io.want - Len(io.data)) :
        /\ Here + n <= in.len
        /\ io' = Filled(n)
        /\ in' = IF io.op = "read" \/ PreadMoves THEN [in EXCEPT !.pos = Here + n] ELSE in
  BY DEF ReadSome
<1>4. n \in Nat /\ n > 0 /\ Len(io.data) + n <= io.want
  BY SMTT(30), <1>1, <1>3, SizeFacts DEF Least
<1>5. io' = [io EXCEPT !.data = io.data \o Bytes(Here, n),
                       !.op = IF Len(io.data) + n = io.want THEN "done" ELSE io.op]
  BY <1>3 DEF Filled
<1>6. Len(io.data \o Bytes(Here, n)) = Len(io.data) + n
  <2>1. Bytes(Here, n) \in Seq(Cell) /\ Len(Bytes(Here, n)) = n
    BY <1>2, <1>4, BytesFacts
  <2>2. PICK d, e : d = io.data /\ e = Bytes(Here, n)
    OBVIOUS
  <2>3. d \in Seq(Cell) /\ e \in Seq(Cell) /\ Len(e) = n
    BY <2>1, <2>2, <1>1
  <2>4. Len(d \o e) = Len(d) + Len(e)
    BY ONLY <2>3, ConcatProperties
  <2> QED BY <2>2, <2>3, <2>4
<1> QED BY <1>2, <1>3, <1>4, <1>5, <1>6 DEF ReadSome

(* The system call of a write. *)
LEMMA WriteSomeFacts ==
  ASSUME TypeOK, WriteSome
  PROVE  \E a \in Seq(Cell), b \in Seq(Cell) :
           /\ io.data = a \o b
           /\ outf' = outf \o a
           /\ io' = [io EXCEPT !.data = b, !.op = IF b = <<>> THEN "done" ELSE io.op]
           /\ outf' \o b = outf \o io.data
           /\ in' = in
<1>1. /\ io \in Operation /\ io.data \in Seq(Cell) /\ Len(io.data) \in Nat /\ outf \in Seq(Cell)
  BY DEF TypeOK, FileType, Operation
<1>2. PICK n \in 1 .. Least(IoChunk, Len(io.data)) :
        /\ outf' = outf \o SubSeq(io.data, 1, n)
        /\ io' = [io EXCEPT !.data = SubSeq(@, n + 1, Len(@)),
                            !.op = IF n = Len(io.data) THEN "done" ELSE @]
  BY DEF WriteSome
<1>3. n \in Nat /\ n <= Len(io.data)
  BY <1>1, SizeFacts DEF Least
<1>4. PICK m \in Nat : n + m = Len(io.data)
  <2>1. Len(io.data) - n \in Nat /\ n + (Len(io.data) - n) = Len(io.data)
    BY <1>1, <1>3
  <2> QED BY <2>1
<1>5. PICK a : a = SubSeq(io.data, 1, n)
  OBVIOUS
<1>6. a \in Seq(Cell) /\ Len(a) = n /\ \A i \in 1 .. n : a[i] = io.data[i]
  <2>1. 0 + n <= Len(io.data) /\ 0 \in Nat /\ 0 + 1 = 1 /\ 0 + n = n /\ \A i \in 1 .. n : 0 + i = i
    BY <1>3
  <2> QED BY <2>1, <1>1, <1>3, <1>5, Slice
<1>7. PICK b : b = SubSeq(io.data, n + 1, Len(io.data))
  OBVIOUS
<1>8. b \in Seq(Cell) /\ Len(b) = m /\ \A i \in 1 .. m : b[i] = io.data[n + i]
  <2>1. b = SubSeq(io.data, n + 1, n + m)
    BY <1>4, <1>7, Zenon
  <2>2. n + m <= Len(io.data)
    BY <1>1, <1>4
  <2>3. PICK s : s = io.data
    OBVIOUS
  <2>4. s \in Seq(Cell) /\ n \in Nat /\ m \in Nat /\ n + m <= Len(s)
    BY <2>2, <2>3, <1>1, <1>3
  <2>5. /\ SubSeq(s, n + 1, n + m) \in Seq(Cell) /\ Len(SubSeq(s, n + 1, n + m)) = m
        /\ \A i \in 1 .. m : SubSeq(s, n + 1, n + m)[i] = s[n + i]
    BY ONLY <2>4, Slice
  <2> QED BY <2>1, <2>3, <2>5
<1>9. io.data = a \o b
  <2>1. /\ a \o b \in Seq(Cell) /\ Len(a \o b) = n + m
        /\ \A i \in 1 .. n + m : (a \o b)[i] = IF i <= n THEN a[i] ELSE b[i - n]
    <3>1. /\ a \o b \in Seq(Cell) /\ Len(a \o b) = Len(a) + Len(b)
          /\ \A i \in 1 .. Len(a) + Len(b) : (a \o b)[i] = IF i <= Len(a) THEN a[i] ELSE b[i - Len(a)]
      BY <1>6, <1>8, ConcatProperties
    <3> QED BY <3>1, <1>6, <1>8
  <2>2. \A i \in 1 .. n + m : (a \o b)[i] = io.data[i]
    <3> TAKE i \in 1 .. n + m
    <3>0. i <= n \/ i > n
      BY <1>3
    <3>1. CASE i <= n
      BY <3>1, <2>1, <1>6
    <3>2. CASE i > n
      <4>1. i - n \in 1 .. m /\ n + (i - n) = i
        BY <3>2, <1>3
      <4>2. b[i - n] = io.data[i]
        BY <4>1, <1>8
      <4> QED BY <4>2, <3>2, <2>1
    <3> QED BY <3>0, <3>1, <3>2
  <2>3. Len(a \o b) = Len(io.data) /\ \A i \in 1 .. Len(a \o b) : (a \o b)[i] = io.data[i]
    BY <2>1, <2>2, <1>4
  <2> QED BY <2>1, <2>3, <1>1, SeqEqual
<1>10. n = Len(io.data) <=> b = <<>>
  <2>1. b = <<>> => Len(b) = 0
    OBVIOUS
  <2>2. Len(b) = 0 => b = <<>>
    BY <1>8
  <2> QED BY <2>1, <2>2, <1>3, <1>4, <1>8
<1>11. io' = [io EXCEPT !.data = b, !.op = IF b = <<>> THEN "done" ELSE io.op]
  BY <1>2, <1>7, <1>10
<1>12. (outf \o a) \o b = outf \o (a \o b)
  BY SMTT(30), <1>1, <1>6, <1>8, ConcatAssociative
<1> QED BY <1>2, <1>5, <1>6, <1>8, <1>9, <1>11, <1>12 DEF WriteSome

(* A file operation is in progress only at the places that wait for it. *)
LEMMA IoKept ==
  ASSUME IInv, [Next]_vars
  PROVE  IoInv'
<1> USE DEF IInv
<1>t. /\ IoInv /\ PlaceInv /\ TypeOK /\ io \in Operation
  BY DEF TypeOK, FileType
<1>o. /\ NoOp.op = "none" /\ NoOp.data = <<>>
      /\ Read(IoBuf).op \in {"read", "done"} /\ Read(IoBuf).data = <<>>
      /\ \A n \in Nat : Pread(Window, n).op \in {"pread", "done"}
      /\ \A d \in Seq(Cell) : /\ Write(d).op \in {"write", "done"} /\ Write(d).data = d
                              /\ Write(d).op = "done" => d = <<>>
      /\ << >> \in Seq(Int)
  <2>1. IoBuf \in Nat /\ Window \in Nat
    BY SizeFacts
  <2> QED BY <2>1, StartFacts
<1>p. /\ Encoding = {"dictrec", "read", "encode", "finish"}
      /\ Opening = {"openin", "size", "openout"}
  BY DEF Encoding, Opening
<1> DEFINE Waiting == {"sampling", "reading", "sinking"}
<1>1. ASSUME ap \notin Waiting \cup {"done"}, io' = io, ap' \notin Waiting PROVE IoInv'
  <2>1. io = NoOp
    BY <1>1, <1>t DEF IoInv
  <2> QED BY <2>1, <1>1, <1>o DEF IoInv
<1>2. ASSUME io' = NoOp, ap' \notin Waiting PROVE IoInv'
  BY <1>2, <1>o DEF IoInv
<1>3. ASSUME NEW d \in Seq(Cell), io' = Write(d), ap' = "sinking" PROVE IoInv'
  BY <1>3, <1>o DEF IoInv, Done
<1>4. ASSUME OpenIn \/ SizeHint \/ OpenOut \/ DictNone \/ DictPrefix \/ CreateFails \/ FeedAll
             \/ EncodeReturns \/ EncodeFails \/ CreateDecoder \/ PullMem \/ PullFails \/ FooterCheck
             \/ Return
      PROVE  IoInv'
  <2>1. io' = io /\ ap \notin Waiting \cup {"done"} /\ ap' \notin Waiting
    BY <1>4 DEF OpenIn, SizeHint, OpenOut, DictNone, DictPrefix, CreateFails, FeedAll,
         EncodeReturns, EncodeFails, CreateDecoder, PullMem, PullFails, FooterCheck, Return,
         Give, fileVars
  <2> QED BY <2>1, <1>1
<1>5. ASSUME DictSample PROVE IoInv'
  <2>1. ap' = "sampling" /\ io' = Pread(Window, SampleAt(0)) /\ SampleAt(0) \in Nat
    BY <1>5, <1>t, SampleFacts DEF DictSample
  <2>2. io'.op \in {"pread", "done"}
    BY <2>1, <1>o
  <2> QED BY <2>1, <2>2 DEF IoInv
<1>6. ASSUME DictSampled PROVE IoInv'
  <2>1. CASE ap' = "create" /\ io' = NoOp
    BY <2>1, <1>2
  <2>2. CASE ap' = "sampling" /\ io' = Pread(Window, SampleAt((dlen + Window) \div Window))
    <3>1. Want > 0
      BY <1>6 DEF DictSampled, HintInv
    <3>2. (dlen + Window) \div Window \in Nat
      <4>1. dlen + Window \in Nat /\ Window \in Nat \ {0}
        BY <1>t, SizeFacts DEF TypeOK, EncType
      <4> QED BY <4>1, DivMod
    <3>3. SampleAt((dlen + Window) \div Window) \in Nat
      BY <3>1, <3>2, <1>t, SampleFacts
    <3>4. io'.op \in {"pread", "done"}
      BY <2>2, <3>3, <1>o
    <3> QED BY <2>2, <3>4 DEF IoInv
  <2>3. \/ ap' = "create" /\ io' = NoOp
        \/ ap' = "sampling" /\ io' = Pread(Window, SampleAt((dlen + Window) \div Window))
    BY <1>6 DEF DictSampled
  <2> QED BY <2>1, <2>2, <2>3
<1>7. ASSUME DictFails PROVE IoInv'
  <2>1. io' = io /\ ap' = "done" /\ (ap = "dict" \/ Done)
    BY <1>7 DEF DictFails, Give, fileVars
  <2>2. io.op \in {"none", "done"}
    BY <2>1, <1>7, <1>t, <1>o DEF IoInv, Done, DictFails
  <2> QED BY <1>7, <2>2 DEF IoInv, DictFails, Give, fileVars
<1>8. ASSUME NEW u \in UnitT, NEW p \in Encoding \cup {"end"}, Emit(u, p),
             ap \in Encoding \cup {"create"}
      PROVE  IoInv'
  <2>1. CASE ToFile
    <3>1. <<u>> \in Seq(UnitT)
      OBVIOUS
    <3>2. Halves(<<u>>) \in Seq(Cell)
      BY <3>1, HalvesFacts
    <3> QED BY <1>8, <2>1, <3>2, <1>3, EmitFacts
  <2>2. CASE ~ToFile
    <3>1. io' = io /\ ap' \in Encoding \cup {"end"}
      BY <1>8, <2>2, EmitFacts
    <3> QED BY <1>8, <3>1, <1>1, <1>p
  <2> QED BY <2>1, <2>2
<1>u. HeadUnit \in UnitT /\ DictUnit \in UnitT /\ TailUnit \in UnitT
  BY <1>t, UnitFacts
<1>9. ASSUME CreateEncoder PROVE IoInv'
  <2>1. PICK p \in Encoding \cup {"end"} : p = IF dlen > 0 THEN "dictrec" ELSE "read"
    BY <1>p
  <2>2. Emit(HeadUnit, p) /\ ap = "create"
    BY <1>9, <2>1 DEF CreateEncoder
  <2> QED BY <2>2, <1>8, <1>u
<1>10. ASSUME WriteDict \/ FinishTrailer PROVE IoInv'
  BY <1>10, <1>8, <1>u, <1>p DEF WriteDict, FinishTrailer
<1>11. ASSUME EncodeBlock \/ FinishBlock PROVE IoInv'
  <2>1. nblk \in Nat /\ nblk * BlockSize < Len(fed)
    <3>1. nblk \in Nat /\ BlockSize \in Nat /\ BlockSize > 0 /\ Len(fed) \in Nat
      BY <1>t, SizeFacts DEF TypeOK, EncType
    <3>2. (nblk + 1) * BlockSize <= Len(fed) \/ nblk * BlockSize < Len(fed)
      BY <1>11 DEF EncodeBlock, FinishBlock
    <3> QED BY <3>1, <3>2
  <2>2. BlockUnit(nblk) \in UnitT
    BY <2>1, <1>t, BlockFacts
  <2> QED BY <1>11, <2>2, <1>8, <1>p DEF EncodeBlock, FinishBlock
<1>12. ASSUME Sunk PROVE IoInv'
  <2>1. io' = NoOp /\ (ap' = after \/ ap' = "end") /\ ap = "sinking"
    BY <1>12 DEF Sunk
  <2>2. after \in Encoding \cup {"pull", "end"}
    BY <2>1, <1>t DEF PlaceInv
  <2> QED BY <2>1, <2>2, <1>2, <1>p
<1>13. ASSUME ReadInput PROVE IoInv'
  <2>1. ap' = "reading" /\ io' = Read(IoBuf)
    BY <1>13 DEF ReadInput
  <2>2. io'.op \in {"read", "done"} /\ io'.data \in Seq(Int)
    BY <2>1, <1>o
  <2> QED BY <2>1, <2>2 DEF IoInv
<1>14. ASSUME InputRead PROVE IoInv'
  <2>1. io' = NoOp /\ ap' \in {"end", "finish", "encode"}
    BY <1>14 DEF InputRead
  <2> QED BY <2>1, <1>2
<1>15. ASSUME PullFile PROVE IoInv'
  <2>1. PICK r : r = DecoderRead(IoBuf)
    OBVIOUS
  <2>2. dpos \in Nat /\ dpos <= req.arch.len /\ IoBuf \in Nat
    BY <1>15, <1>t, SizeFacts DEF PullFile, PlaceInv, DecInv, DecType, TypeOK
  <2>3. r.got \in Nat
    BY <2>1, <2>2, <1>t, DecoderFacts
  <2>4. Bytes(dpos, r.got) \in Seq(Cell)
    BY <2>2, <2>3, BytesFacts
  <2>5. \/ io' = Write(Bytes(dpos, r.got)) /\ ap' = "sinking"
        \/ ap' \in {"check", "end"} /\ io' = io /\ ap = "pull"
    BY <1>15, <2>1 DEF PullFile
  <2> QED BY <2>4, <2>5, <1>1, <1>3
<1>16. ASSUME Transfer \/ IoFails \/ Interrupt \/ Grow, ap' = ap PROVE IoInv'
  <2>1. CASE Interrupt \/ Grow
    <3>1. io' = io
      BY <2>1 DEF Interrupt, OnInterrupt, Grow
    <3> QED BY <3>1, <1>16, <1>t DEF IoInv, Done
  <2>2. CASE IoFails
    <3>1. /\ io'.op = "done" /\ io'.st = ErrIO /\ io'.data = io.data
          /\ io.op \in {"read", "pread", "write"}
      BY <2>2, <1>t DEF IoFails, Operation
    <3>2. ErrIO # OK
      BY DEF ErrIO, OK
    <3>3. ap \in Waiting
      BY <3>1, <1>t, <1>o DEF IoInv
    <3> QED BY <3>1, <3>2, <3>3, <1>16, <1>t DEF IoInv
  <2>3. CASE ReadEof
    <3>1. /\ io'.op = "done" /\ io'.data = io.data /\ io.op \in {"read", "pread"}
      BY <2>3, <1>t DEF ReadEof, AtEof, Operation
    <3>2. ap \in {"sampling", "reading"}
      BY <3>1, <1>t, <1>o DEF IoInv
    <3> QED BY <3>1, <3>2, <1>16, <1>t DEF IoInv
  <2>4. CASE ReadSome
    <3>1. io.op \in {"read", "pread"}
      BY <2>4 DEF ReadSome
    <3>2. ap \in {"sampling", "reading"}
      BY <3>1, <1>t, <1>o DEF IoInv
    <3>3. PICK n \in Nat :
            /\ Here \in Nat
            /\ io' = [io EXCEPT !.data = io.data \o Bytes(Here, n),
                                !.op = IF Len(io.data) + n = io.want THEN "done" ELSE io.op]
      BY <2>4, <1>t, ReadSomeFacts
    <3>4. io'.op \in {io.op, "done"} /\ io'.data = io.data \o Bytes(Here, n)
      BY <3>3, <1>t DEF Operation
    <3>5. ap = "reading" => io.data \o Bytes(Here, n) \in Seq(Int)
      <4>1. SUFFICES ASSUME ap = "reading" PROVE io.data \o Bytes(Here, n) \in Seq(Int)
        OBVIOUS
      <4>2. io.data \in Seq(Int)
        BY <4>1, <1>t DEF IoInv
      <4>3. Bytes(Here, n) \in Seq(Int)
        BY <3>3, BytesFacts
      <4> QED BY <4>2, <4>3, ConcatProperties
    <3> QED BY <3>1, <3>2, <3>4, <3>5, <1>16, <1>t DEF IoInv
  <2>5. CASE WriteSome
    <3>1. io.op = "write"
      BY <2>5 DEF WriteSome
    <3>2. ap = "sinking"
      BY <3>1, <1>t, <1>o DEF IoInv
    <3>3. PICK b \in Seq(Cell) : io' = [io EXCEPT !.data = b, !.op = IF b = <<>> THEN "done" ELSE io.op]
      BY <2>5, <1>t, WriteSomeFacts
    <3>4. io'.data = b /\ (IF b = <<>> THEN io'.op = "done" ELSE io'.op = "write")
      BY <3>1, <3>3, <1>t DEF Operation
    <3>5. io'.op \in {"write", "done"} /\ (io'.op = "done" => io'.data = <<>>)
      BY <3>4
    <3> QED BY <3>2, <3>5, <1>16 DEF IoInv, Done
  <2> QED BY <2>1, <2>2, <2>3, <2>4, <2>5, <1>16 DEF Transfer
<1>17. ASSUME SysCall \/ Environment PROVE IoInv'
  <2>1. ap' = ap /\ (Transfer \/ IoFails \/ Interrupt \/ Grow)
    BY <1>17 DEF SysCall, Environment, apiVars
  <2> QED BY <2>1, <1>16
<1>18. ASSUME UNCHANGED vars PROVE IoInv'
  <2>1. ap' = ap /\ io' = io
    BY <1>18 DEF vars, apiVars, fileVars
  <2> QED BY <2>1, <1>t DEF IoInv, Done
<1> QED
  BY <1>4, <1>5, <1>6, <1>7, <1>9, <1>10, <1>11, <1>12, <1>13, <1>14, <1>15, <1>17, <1>18
  DEF Next, Step, Terminated

-----------------------------------------------------------------------------
(* Sizes and bytes *)

(* The content size announced is the one the call could know when it was *)
(* asked.                                                                *)
LEMMA HintKept ==
  ASSUME IInv, [Next]_vars
  PROVE  HintInv'
<1> USE DEF IInv
<1>t. /\ HintInv /\ PlaceInv /\ TypeOK /\ req' = req /\ ToFile' = ToFile /\ Compressing' = Compressing
      /\ in \in [len : Nat, pos : Nat, grown : Nat] /\ in.len \in Nat /\ in.grown \in Nat
      /\ req.size \in Nat /\ Unknown = -1
      /\ req.fn \in {"compress", "decompress", "compress_file", "decompress_file"}
      /\ ToFile <=> req.fn \in {"compress_file", "decompress_file"}
      /\ hint \in Nat \cup {Unknown} /\ dlen \in Nat
  BY ReqKept, ReqFacts DEF TypeOK, FileType, EncType, CallType, Unknown
<1>w. ASSUME hint' = hint PROVE Want' = Want
  BY <1>w, <1>t DEF Want
<1>1. ASSUME hint' = hint, dlen' = dlen, in'.len = req.size + in'.grown, in'.len >= in.len,
             in'.len \in Nat, ap' # "sampling" \/ Want > 0
      PROVE  HintInv'
  <2>1. req.fn = "compress_file" /\ hint # Unknown => hint \in req.size .. in'.len
    BY <1>1, <1>t DEF HintInv
  <2>2. ap' = "sampling" => Want' > 0
    BY <1>1, <1>w
  <2> QED BY <1>1, <1>t, <2>1, <2>2 DEF HintInv
<1>2. ASSUME OpenIn \/ OpenOut \/ DictNone \/ DictSample \/ DictFails \/ CreateEncoder \/ WriteDict
             \/ CreateFails \/ Sunk \/ FeedAll \/ ReadInput \/ InputRead \/ EncodeBlock
             \/ EncodeReturns \/ EncodeFails \/ FinishBlock \/ FinishTrailer \/ CreateDecoder
             \/ PullMem \/ PullFile \/ PullFails \/ FooterCheck \/ Return
      PROVE  HintInv'
  <2>1. hint' = hint /\ dlen' = dlen /\ in' = in
    BY <1>2 DEF OpenIn, OpenOut, DictNone, DictSample, DictFails, CreateEncoder, WriteDict,
         CreateFails, Sunk, FeedAll, ReadInput, InputRead, EncodeBlock, EncodeReturns, EncodeFails,
         FinishBlock, FinishTrailer, CreateDecoder, PullMem, PullFile, PullFails, FooterCheck,
         Return, fileVars, encVars
  <2>2. ap' # "sampling" \/ Want > 0
    <3>1. CASE DictSample
      BY <3>1 DEF DictSample
    <3>2. ASSUME NEW u, NEW p \in Encoding \cup {"end"}, Emit(u, p) PROVE ap' # "sampling"
      <4>1. ap' \in {p, "sinking", "end"}
        BY <3>2, EmitFacts
      <4> QED BY <4>1 DEF Encoding
    <3>3. CASE CreateEncoder
      <4>1. PICK p \in Encoding \cup {"end"} : p = IF dlen > 0 THEN "dictrec" ELSE "read"
        BY DEF Encoding
      <4> QED BY <3>2, <3>3, <4>1 DEF CreateEncoder
    <3>4. CASE WriteDict \/ EncodeBlock \/ FinishBlock \/ FinishTrailer
      <4>1. \E u : \E p \in Encoding \cup {"end"} : Emit(u, p)
        BY <3>4 DEF WriteDict, EncodeBlock, FinishBlock, FinishTrailer, Encoding
      <4> QED BY <3>2, <4>1
    <3>5. CASE Sunk
      <4>1. ap = "sinking" /\ ap' \in {after, "end"}
        BY <3>5 DEF Sunk
      <4>2. after \in Encoding \cup {"pull", "end"}
        BY <4>1, <1>t DEF PlaceInv
      <4> QED BY <4>1, <4>2 DEF Encoding
    <3> QED BY <1>2, <3>1, <3>3, <3>4, <3>5
        DEF OpenIn, OpenOut, DictNone, DictFails, CreateFails, FeedAll, ReadInput, InputRead,
         EncodeReturns, EncodeFails, CreateDecoder, PullMem, PullFile, PullFails, FooterCheck,
         Return, Give
  <2> QED BY <2>1, <2>2, <1>1, <1>t DEF HintInv
<1>3. ASSUME SizeHint PROVE HintInv'
  <2>1. ap = "size" /\ hint' \in {in.len, Unknown} /\ dlen' = dlen /\ in' = in /\ ap' = "openout"
    BY <1>3 DEF SizeHint, fileVars
  <2>2. ToFile
    BY <2>1, <1>t DEF PlaceInv, Opening
  <2>3. in.len >= req.size
    BY <1>t DEF HintInv
  <2> QED BY <2>1, <2>2, <2>3, <1>t DEF HintInv
<1>4. ASSUME DictPrefix PROVE HintInv'
  <2>1. ~ToFile /\ Compressing /\ hint' = hint /\ in' = in /\ dlen' = Want /\ ap' = "create"
    BY <1>4, <1>t DEF DictPrefix, fileVars, PlaceInv
  <2>2. req.fn = "compress"
    BY <2>1, <1>t DEF Compressing
  <2>3. hint = req.size /\ hint # Unknown
    BY <2>2, <1>t DEF HintInv
  <2>4. Want = DictSizeFor(req.size, req.dict)
    BY <2>3 DEF Want
  <2> QED BY <2>1, <2>2, <2>4, <1>t DEF HintInv
<1>5. ASSUME DictSampled PROVE HintInv'
  <2>1. ap = "sampling" /\ hint' = hint /\ in' = in
    BY <1>5 DEF DictSampled
  <2>2. ToFile /\ Want > 0 /\ Want' = Want
    BY <2>1, <1>w, <1>t DEF PlaceInv, HintInv
  <2> QED BY <2>1, <2>2, <1>t DEF HintInv
<1>6. ASSUME SysCall \/ Environment \/ UNCHANGED vars PROVE HintInv'
  <2>1. hint' = hint /\ dlen' = dlen /\ ap' = ap
    BY <1>6 DEF SysCall, Environment, vars, apiVars
  <2>2. ap' # "sampling" \/ Want > 0
    BY <2>1, <1>t DEF HintInv
  <2>3. in'.len = req.size + in'.grown /\ in'.len >= in.len /\ in'.len \in Nat
    <3>1. CASE Grow
      <4>1. in' = [in EXCEPT !.len = in.len + 1, !.grown = in.grown + 1]
        BY <3>1 DEF Grow
      <4>2. in'.len = in.len + 1 /\ in'.grown = in.grown + 1
        BY <4>1, <1>t
      <4> QED BY <4>2, <1>t DEF HintInv
    <3>2. ASSUME in'.len = in.len, in'.grown = in.grown
          PROVE  in'.len = req.size + in'.grown /\ in'.len >= in.len /\ in'.len \in Nat
      BY <3>2, <1>t DEF HintInv
    <3>3. CASE ReadSome
      <4>1. in' = in \/ \E x : in' = [in EXCEPT !.pos = x]
        BY <3>3 DEF ReadSome
      <4>2. in'.len = in.len /\ in'.grown = in.grown
        BY <4>1, <1>t
      <4> QED BY <4>2, <3>2
    <3>4. CASE ReadEof \/ WriteSome \/ Interrupt \/ IoFails \/ UNCHANGED vars
      <4>1. in' = in
        BY <3>4 DEF ReadEof, WriteSome, Interrupt, IoFails, vars, fileVars
      <4> QED BY <4>1, <3>2
    <3> QED BY <1>6, <3>1, <3>3, <3>4 DEF SysCall, Transfer, Environment
  <2> QED BY <2>1, <2>2, <2>3, <1>1
<1> QED
  BY <1>2, <1>3, <1>4, <1>5, <1>6 DEF Next, Step, Terminated

-----------------------------------------------------------------------------
(* The steps of each function *)

(* A step that leaves the call alone. *)
Outside == (SysCall \/ Environment \/ UNCHANGED vars) /\ UNCHANGED apiVars

(* Every step is a step of the call or leaves the call alone. *)
LEMMA NextSteps ==
  ASSUME [Next]_vars
  PROVE  Step \/ Outside
BY DEF Next, SysCall, Environment, Terminated, Outside, vars

(* xq_compress. *)
LEMMA MemSteps ==
  ASSUME IInv, [Next]_vars, req.fn = "compress"
  PROVE  /\ ~ToFile /\ Compressing
         /\ \/ DictNone \/ DictPrefix \/ DictFails \/ CreateEncoder \/ WriteDict \/ CreateFails
            \/ FeedAll \/ EncodeBlock \/ EncodeReturns \/ EncodeFails \/ FinishBlock
            \/ FinishTrailer \/ Return \/ Outside
<1>1. ~ToFile /\ Compressing
  BY DEF ToFile, Compressing
<1>2. ap \notin {"openin", "size", "openout", "sampling", "reading", "sinking", "check", "pull"}
  BY <1>1 DEF IInv, PlaceInv, Opening
<1>3. ~(OpenIn \/ SizeHint \/ OpenOut \/ DictSample \/ DictSampled \/ Sunk \/ ReadInput \/ InputRead
        \/ CreateDecoder \/ PullMem \/ PullFile \/ PullFails \/ FooterCheck)
  BY <1>1, <1>2 DEF OpenIn, SizeHint, OpenOut, DictSample, DictSampled, Sunk, ReadInput,
     InputRead, CreateDecoder, PullMem, PullFile, PullFails, FooterCheck
<1> QED BY <1>1, <1>3, NextSteps DEF Step

(* xq_compress_file. *)
LEMMA FileSteps ==
  ASSUME IInv, [Next]_vars, req.fn = "compress_file"
  PROVE  /\ ToFile /\ Compressing
         /\ \/ OpenIn \/ SizeHint \/ OpenOut \/ DictNone \/ DictSample \/ DictSampled \/ DictFails
            \/ CreateEncoder \/ WriteDict \/ CreateFails \/ Sunk \/ ReadInput \/ InputRead
            \/ EncodeBlock \/ EncodeReturns \/ EncodeFails \/ FinishBlock \/ FinishTrailer
            \/ Return \/ Outside
<1>1. ToFile /\ Compressing
  BY DEF ToFile, Compressing
<1>2. ap \notin {"check", "pull"}
  BY <1>1 DEF IInv, PlaceInv
<1>3. ~(DictPrefix \/ FeedAll \/ CreateDecoder \/ PullMem \/ PullFile \/ PullFails \/ FooterCheck)
  BY <1>1, <1>2 DEF DictPrefix, FeedAll, CreateDecoder, PullMem, PullFile, PullFails, FooterCheck
<1> QED BY <1>1, <1>3, NextSteps DEF Step

(* xq_decompress and xq_decompress_file. *)
LEMMA DecSteps ==
  ASSUME IInv, [Next]_vars, ~Compressing
  PROVE  OpenIn \/ OpenOut \/ CreateFails \/ CreateDecoder \/ Sunk \/ PullMem \/ PullFile
         \/ PullFails \/ FooterCheck \/ Return \/ Outside
<1>1. ap \notin Encoding \cup {"size", "dict", "sampling", "reading"}
  BY DEF IInv, PlaceInv
<1>2. ~(SizeHint \/ DictNone \/ DictPrefix \/ DictSample \/ DictSampled \/ DictFails \/ CreateEncoder
        \/ WriteDict \/ FeedAll \/ ReadInput \/ InputRead \/ EncodeBlock \/ EncodeReturns
        \/ EncodeFails \/ FinishBlock \/ FinishTrailer)
  BY <1>1 DEF SizeHint, DictNone, DictPrefix, DictSample, DictSampled, DictFails, CreateEncoder,
     WriteDict, FeedAll, ReadInput, InputRead, EncodeBlock, EncodeReturns, EncodeFails,
     FinishBlock, FinishTrailer, Encoding
<1> QED BY <1>2, NextSteps DEF Step

(* xq_compress has fed the encoder all of its source, in order, once it *)
(* encodes.                                                             *)
LEMMA FedKept ==
  ASSUME IInv, [Next]_vars
  PROVE  FedInv'
<1> SUFFICES ASSUME req.fn = "compress"
             PROVE  /\ ap' \in Early \cup {"dictrec", "read"} => fed' = <<>>
                    /\ ap' \in {"encode", "finish"} \/ (ap' \in {"end", "done"} /\ st' = OK) =>
                         fed' = Bytes(0, req.size)
  <2>1. req' = req
    BY ReqKept
  <2>2. Bytes(0, req.size)' = Bytes(0, req.size)
    BY <2>1 DEF Bytes
  <2> QED BY <2>1, <2>2 DEF FedInv
<1>t. /\ ap \in Early \cup {"dictrec", "read"} => fed = <<>>
      /\ ap \in {"encode", "finish"} \/ (ap \in {"end", "done"} /\ st = OK) => fed = Bytes(0, req.size)
      /\ OK = 0 /\ ErrIO = 48 /\ ErrOOM = 3 /\ ErrDstTooSmall = 2
      /\ ap \notin {"end", "done"} => st = OK
  BY DEF IInv, FedInv, PlaceInv, OK, ErrIO, ErrOOM, ErrDstTooSmall
<1>p. Early = {"openin", "size", "openout", "dict", "sampling", "create"}
  BY DEF Early, Opening
<1>m. /\ ~ToFile
      /\ \/ DictNone \/ DictPrefix \/ DictFails \/ CreateEncoder \/ WriteDict \/ CreateFails
         \/ FeedAll \/ EncodeBlock \/ EncodeReturns \/ EncodeFails \/ FinishBlock
         \/ FinishTrailer \/ Return \/ Outside
  BY MemSteps
<1>e. ASSUME NEW u, NEW p, Emit(u, p)
      PROVE  (ap' = p /\ st' = st) \/ (ap' = "end" /\ st' = ErrDstTooSmall)
  BY <1>e, <1>m, EmitFacts
<1> USE <1>t, <1>p
<1>1. CASE DictNone \/ DictPrefix \/ DictFails \/ CreateFails
  BY <1>1 DEF DictNone, DictPrefix, DictFails, CreateFails, Give, encVars
<1>2. CASE CreateEncoder
  <2>1. fed' = fed /\ ap = "create" /\ Emit(HeadUnit, IF dlen > 0 THEN "dictrec" ELSE "read")
    BY <1>2 DEF CreateEncoder
  <2>2. ap' \in {"dictrec", "read"} \/ (ap' = "end" /\ st' = ErrDstTooSmall)
    BY <2>1, <1>e
  <2> QED BY <2>1, <2>2
<1>3. CASE WriteDict
  <2>1. fed' = fed /\ ap = "dictrec" /\ Emit(DictUnit, "read")
    BY <1>3 DEF WriteDict
  <2>2. ap' = "read" \/ (ap' = "end" /\ st' = ErrDstTooSmall)
    BY <2>1, <1>e
  <2> QED BY <2>1, <2>2
<1>4. CASE FeedAll
  BY <1>4 DEF FeedAll
<1>5. CASE EncodeBlock \/ FinishBlock \/ FinishTrailer
  <2>1. /\ fed' = fed /\ ap \in {"encode", "finish"}
        /\ \E u : \E p \in {"encode", "finish", "end"} : Emit(u, p)
    BY <1>5 DEF EncodeBlock, FinishBlock, FinishTrailer
  <2>2. ap' \in {"encode", "finish", "end"}
    BY <2>1, <1>e
  <2> QED BY <2>1, <2>2
<1>6. CASE EncodeReturns \/ EncodeFails
  BY <1>6, <1>m DEF EncodeReturns, EncodeFails, encVars
<1>7. CASE Return
  BY <1>7 DEF Return, Give, encVars
<1>8. CASE Outside
  BY <1>8 DEF Outside, apiVars
<1> QED BY <1>m, <1>1, <1>2, <1>3, <1>4, <1>5, <1>6, <1>7, <1>8

(* *out_len is set where a call on memory returns XQ_OK, and nowhere else. *)
LEMMA LenKept ==
  ASSUME IInv, [Next]_vars
  PROVE  LenInv'
<1>t. /\ LenInv /\ ToFile' = ToFile /\ Compressing' = Compressing
      /\ OK = 0 /\ ErrIO = 48 /\ ErrOOM = 3
  BY ReqKept DEF IInv, OK, ErrIO, ErrOOM
<1>1. ASSUME outLen' = outLen, ap # "done", ap' # "done" PROVE LenInv'
  BY <1>1, <1>t DEF LenInv
<1>2. ASSUME outLen' = outLen, ap # "done", st' # OK PROVE LenInv'
  BY <1>2, <1>t DEF LenInv
<1>3. ASSUME OpenIn \/ OpenOut \/ DictFails \/ CreateFails PROVE LenInv'
  <2>1. outLen' = outLen /\ ap # "done" /\ (ap' # "done" \/ st' # OK)
    BY <1>3, <1>t DEF OpenIn, OpenOut, DictFails, CreateFails, Give
  <2> QED BY <2>1, <1>1, <1>2
<1>4. ASSUME NEW u, NEW p, Emit(u, p), p # "done" PROVE ap' # "done"
  BY <1>4, EmitFacts
<1>5. ASSUME CreateEncoder \/ WriteDict \/ EncodeBlock \/ FinishBlock \/ FinishTrailer PROVE LenInv'
  <2>1. outLen' = outLen /\ ap # "done" /\ \E u : \E p : Emit(u, p) /\ p # "done"
    BY <1>5 DEF CreateEncoder, WriteDict, EncodeBlock, FinishBlock, FinishTrailer
  <2>2. ap' # "done"
    BY <2>1, <1>4
  <2> QED BY <2>1, <2>2, <1>1
<1>6. ASSUME Sunk PROVE LenInv'
  <2>1. outLen' = outLen /\ ap = "sinking" /\ ap' \in {after, "end"}
    BY <1>6 DEF Sunk
  <2>2. after # "done"
    BY <2>1 DEF IInv, PlaceInv, Encoding
  <2> QED BY <2>1, <2>2, <1>1
<1>7. ASSUME SizeHint \/ DictNone \/ DictPrefix \/ DictSample \/ DictSampled \/ FeedAll \/ ReadInput
             \/ InputRead \/ EncodeReturns \/ EncodeFails \/ CreateDecoder \/ PullMem \/ PullFile
             \/ PullFails \/ FooterCheck
      PROVE  LenInv'
  <2>1. outLen' = outLen /\ ap # "done" /\ ap' # "done"
    BY <1>7 DEF SizeHint, DictNone, DictPrefix, DictSample, DictSampled, FeedAll, ReadInput,
       InputRead, EncodeReturns, EncodeFails, CreateDecoder, PullMem, PullFile, PullFails, FooterCheck
  <2> QED BY <2>1, <1>1
<1>8. ASSUME Return PROVE LenInv'
  <2>1. /\ ap = "end" /\ ap' = "done" /\ st' = st /\ mlen' = mlen /\ dst' = dst
        /\ outLen' = IF st # OK \/ ToFile THEN outLen ELSE IF Compressing THEN mlen ELSE Len(dst)
    BY <1>8 DEF Return, Give, encVars, decVars
  <2> QED BY <2>1, <1>t DEF LenInv
<1>9. ASSUME Outside PROVE LenInv'
  BY <1>9, <1>t DEF Outside, apiVars, LenInv
<1> QED BY <1>3, <1>5, <1>6, <1>7, <1>8, <1>9, NextSteps DEF Step

(* As many blocks are cut as the bytes fed allow, all of them at the end. *)
LEMMA CutKept ==
  ASSUME IInv, [Next]_vars
  PROVE  CutInv'
<1>t. /\ CutInv /\ PlaceInv /\ TypeOK /\ ToFile' = ToFile /\ Compressing' = Compressing
      /\ OK = 0 /\ ErrIO = 48 /\ ErrOOM = 3 /\ ErrDstTooSmall = 2
  BY ReqKept DEF IInv, OK, ErrIO, ErrOOM, ErrDstTooSmall
<1>n. /\ nblk \in Nat /\ BlockSize \in Nat /\ BlockSize > 0 /\ Len(fed) \in Nat /\ fed \in Seq(Int)
      /\ nblk * BlockSize \in Nat /\ (nblk + 1) * BlockSize = nblk * BlockSize + BlockSize
      /\ nblk * BlockSize < Len(fed) + BlockSize
      /\ 0 * BlockSize = 0 /\ dlen \in Nat
  <2>1. /\ nblk \in Nat /\ BlockSize \in Nat /\ BlockSize > 0 /\ Len(fed) \in Nat /\ fed \in Seq(Int)
        /\ dlen \in Nat
    BY <1>t, SizeFacts DEF TypeOK, EncType
  <2>2. nblk * BlockSize < Len(fed) + BlockSize
    BY <1>t DEF CutInv
  <2> QED BY <2>1, <2>2
<1>p. Early = {"openin", "size", "openout", "dict", "sampling", "create"}
  BY DEF Early, Opening
<1> DEFINE Still == nblk' = nblk /\ fed' = fed /\ dlen' = dlen
(* The four parts, where only the place has changed. *)
<1>1. ASSUME Still,
             ap' \in {"read", "encode", "reading"} \/ (ap' = "sinking" /\ after' \in {"read", "encode"}) =>
               nblk * BlockSize <= Len(fed),
             Compressing /\ \/ ap' = "sinking" /\ after' = "end"
                            \/ ap' \in {"end", "done"} /\ st' = OK
               => nblk * BlockSize >= Len(fed),
             ap' = "dictrec" \/ (ap' = "sinking" /\ after' = "dictrec") => dlen > 0 /\ nblk = 0
      PROVE  CutInv'
  BY <1>1, <1>t, <1>n DEF CutInv
<1>2. ASSUME OpenIn \/ SizeHint \/ OpenOut \/ DictNone \/ DictSample \/ DictFails \/ CreateFails
             \/ EncodeFails \/ CreateDecoder \/ PullMem \/ PullFails \/ FooterCheck
      PROVE  CutInv'
  <2>1. /\ Still
        /\ \/ ap' \in {"size", "openout", "dict", "sampling", "create", "pull"}
           \/ ap' \in {"done", "end"} /\ (st' # OK \/ ~Compressing)
    <3>1. Still
      BY <1>2 DEF OpenIn, SizeHint, OpenOut, DictNone, DictSample, DictFails, CreateFails,
         EncodeFails, CreateDecoder, PullMem, PullFails, FooterCheck, encVars
    <3>2. CASE OpenIn \/ SizeHint \/ OpenOut
      BY <3>1, <3>2, <1>t DEF OpenIn, SizeHint, OpenOut, Give
    <3>3. CASE DictNone \/ DictSample \/ DictFails \/ CreateFails \/ CreateDecoder
      BY <3>1, <3>3, <1>t DEF DictNone, DictSample, DictFails, CreateFails, CreateDecoder, Give
    <3>4. CASE EncodeFails
      BY <3>1, <3>4, <1>t DEF EncodeFails
    <3>5. CASE PullMem \/ PullFails \/ FooterCheck
      <4>1. ~Compressing
        BY <3>5, <1>t DEF PullMem, PullFails, FooterCheck, PlaceInv
      <4> QED BY <3>1, <3>5, <4>1 DEF PullMem, PullFails, FooterCheck
    <3> QED BY <1>2, <3>2, <3>3, <3>4, <3>5
  <2> QED BY <2>1, <1>1
<1>3. ASSUME DictPrefix \/ DictSampled PROVE CutInv'
  <2>1. nblk' = nblk /\ fed' = fed /\ ap' \in {"create", "sampling"}
    BY <1>3 DEF DictPrefix, DictSampled
  <2> QED BY <2>1, <1>n, <1>t DEF CutInv
<1>e. ASSUME NEW u, NEW p, Emit(u, p)
      PROVE  \/ ap' = p /\ st' = st
             \/ ap' = "sinking" /\ after' = p
             \/ ap' = "end" /\ st' # OK
  <2>1. CASE ToFile
    BY <1>e, <2>1, EmitFacts
  <2>2. CASE ~ToFile
    <3>1. (ap' = p /\ st' = st) \/ (ap' = "end" /\ st' = ErrDstTooSmall)
      BY <1>e, <2>2, EmitFacts
    <3> QED BY <3>1, <1>t
  <2> QED BY <2>1, <2>2
<1>4. ASSUME CreateEncoder PROVE CutInv'
  <2>1. PICK p : p = IF dlen > 0 THEN "dictrec" ELSE "read"
    OBVIOUS
  <2>2. Still /\ ap = "create" /\ Compressing /\ Emit(HeadUnit, p)
    BY <1>4, <2>1 DEF CreateEncoder
  <2>3. nblk = 0 /\ p \in {"dictrec", "read"} /\ (p = "dictrec" => dlen > 0)
    BY <2>1, <2>2, <1>p DEF IInv, StartInv
  <2>4. \/ ap' = p
        \/ ap' = "sinking" /\ after' = p
        \/ ap' = "end" /\ st' # OK
    BY <2>2, <1>e
  <2>5. nblk * BlockSize <= Len(fed)
    BY <2>3, <1>n
  <2> QED BY <2>2, <2>3, <2>4, <2>5, <1>1
<1>5. ASSUME WriteDict PROVE CutInv'
  <2>1. Still /\ ap = "dictrec" /\ Emit(DictUnit, "read")
    BY <1>5 DEF WriteDict
  <2>2. nblk = 0
    BY <2>1, <1>t DEF CutInv
  <2>3. \/ ap' = "read"
        \/ ap' = "sinking" /\ after' = "read"
        \/ ap' = "end" /\ st' # OK
    BY <2>1, <1>e
  <2>4. nblk * BlockSize <= Len(fed)
    BY <2>2, <1>n
  <2> QED BY <2>1, <2>3, <2>4, <1>1
<1>6. ASSUME Sunk PROVE CutInv'
  <2>1. /\ Still /\ ap = "sinking" /\ after' = after /\ st' = io.st
        /\ ap' = IF io.st = OK THEN after ELSE "end"
    BY <1>6 DEF Sunk, encVars
  <2>2. after \in {"dictrec", "read", "encode", "finish", "end", "pull"}
        /\ (~Compressing => after = "pull")
    BY <2>1, <1>t DEF PlaceInv, Encoding
  <2>3. CASE io.st = OK
    <3>1. ap' = after
      BY <2>1, <2>3
    <3>2. ap' \in {"read", "encode"} => nblk * BlockSize <= Len(fed)
      BY <2>1, <3>1, <1>t DEF CutInv
    <3>3. ap' = "end" => nblk * BlockSize >= Len(fed)
      BY <2>1, <2>2, <3>1, <1>t DEF CutInv
    <3>4. ap' = "dictrec" => dlen > 0 /\ nblk = 0
      BY <2>1, <3>1, <1>t DEF CutInv
    <3> QED BY <2>1, <2>2, <3>1, <3>2, <3>3, <3>4, <1>1
  <2>4. CASE io.st # OK
    BY <2>1, <2>4, <1>1
  <2> QED BY <2>3, <2>4
<1>7. ASSUME FeedAll \/ InputRead PROVE CutInv'
  <2>1. /\ nblk' = nblk /\ ap \in {"read", "reading"}
        /\ ap' \in {"encode", "finish"} \/ (ap' = "end" /\ st' # OK)
    BY <1>7 DEF FeedAll, InputRead
  <2>2. nblk * BlockSize <= Len(fed)
    BY <2>1, <1>t DEF CutInv
  <2>3. Len(fed') \in Nat /\ Len(fed) <= Len(fed')
    <3>1. CASE FeedAll
      <4>1. req.fn = "compress"
        BY <3>1, <1>t, ReqFacts DEF FeedAll, PlaceInv, Encoding, TypeOK, CallType
      <4>2. fed = <<>>
        BY <3>1, <4>1 DEF FeedAll, IInv, FedInv
      <4>3. Len(fed) = 0
        BY <4>2
      <4>4. TypeOK'
        BY TypesKept
      <4>5. Len(fed') \in Nat
        BY <4>4 DEF TypeOK, EncType
      <4> QED BY <4>3, <4>5
    <3>2. CASE InputRead
      <4>1. io.data \in Seq(Int)
        BY <3>2 DEF InputRead, IInv, IoInv
      <4>2. Len(fed \o io.data) = Len(fed) + Len(io.data) /\ Len(io.data) \in Nat
        BY <4>1, <1>n, ConcatProperties
      <4>3. fed' = fed \/ fed' = fed \o io.data
        BY <3>2 DEF InputRead
      <4> QED BY <4>2, <4>3, <1>n
    <3> QED BY <1>7, <3>1, <3>2
  <2>4. nblk' * BlockSize = nblk * BlockSize
    BY <2>1
  <2> QED BY <2>1, <2>2, <2>3, <2>4, <1>n DEF CutInv
<1>8. ASSUME ReadInput \/ EncodeReturns PROVE CutInv'
  <2>1. Still /\ ap \in {"read", "encode"} /\ ap' \in {"reading", "read", "finish"}
    BY <1>8 DEF ReadInput, EncodeReturns, encVars
  <2>2. nblk * BlockSize <= Len(fed)
    BY <2>1, <1>t DEF CutInv
  <2> QED BY <2>1, <2>2, <1>1
<1>9. ASSUME EncodeBlock PROVE CutInv'
  <2>1. /\ nblk' = nblk + 1 /\ fed' = fed /\ (nblk + 1) * BlockSize <= Len(fed)
        /\ Emit(BlockUnit(nblk), "encode")
    BY <1>9 DEF EncodeBlock
  <2>2. \/ ap' = "encode"
        \/ ap' = "sinking" /\ after' = "encode"
        \/ ap' = "end" /\ st' # OK
    BY <2>1, <1>e
  <2>3. nblk' * BlockSize <= Len(fed') /\ nblk' * BlockSize < Len(fed') + BlockSize
    BY <2>1, <1>n
  <2> QED BY <2>2, <2>3 DEF CutInv
<1>10. ASSUME FinishBlock PROVE CutInv'
  <2>1. /\ nblk' = nblk + 1 /\ fed' = fed /\ nblk * BlockSize < Len(fed)
        /\ Emit(BlockUnit(nblk), "finish")
    BY <1>10 DEF FinishBlock
  <2>2. \/ ap' = "finish"
        \/ ap' = "sinking" /\ after' = "finish"
        \/ ap' = "end" /\ st' # OK
    BY <2>1, <1>e
  <2>3. nblk' * BlockSize < Len(fed') + BlockSize
    BY <2>1, <1>n
  <2> QED BY <2>2, <2>3 DEF CutInv
<1>11. ASSUME FinishTrailer PROVE CutInv'
  <2>1. Still /\ nblk * BlockSize >= Len(fed) /\ Emit(TailUnit, "end")
    BY <1>11 DEF FinishTrailer
  <2>2. \/ ap' = "end"
        \/ ap' = "sinking" /\ after' = "end"
    BY <2>1, <1>e
  <2> QED BY <2>1, <2>2, <1>1
<1>12. ASSUME PullFile PROVE CutInv'
  <2>1. /\ Still /\ ~Compressing
        /\ (ap' = "sinking" /\ after' = "pull") \/ ap' \in {"check", "end"}
    BY <1>12, <1>t DEF PullFile, encVars, PlaceInv
  <2> QED BY <2>1, <1>1
<1>13. ASSUME Return PROVE CutInv'
  <2>1. Still /\ ap = "end" /\ ap' = "done" /\ st' = st
    BY <1>13 DEF Return, Give, encVars
  <2>2. Compressing /\ st = OK => nblk * BlockSize >= Len(fed)
    BY <2>1, <1>t DEF CutInv
  <2> QED BY <2>1, <2>2, <1>1
<1>14. ASSUME Outside PROVE CutInv'
  BY <1>14, <1>t DEF Outside, apiVars, CutInv
<1> QED
  BY <1>2, <1>3, <1>4, <1>5, <1>6, <1>7, <1>8, <1>9, <1>10, <1>11, <1>12, <1>13, <1>14, NextSteps
  DEF Step

(* No bytes. *)
LEMMA NoBytes ==
  ASSUME NEW p \in Nat
  PROVE  Bytes(p, 0) = <<>> /\ Len(<<>>) = 0
<1>1. 0 \in Nat
  OBVIOUS
<1>2. Bytes(p, 0) \in Seq(Int) /\ Len(Bytes(p, 0)) = 0
  BY <1>1, BytesFacts
<1> QED BY <1>2

(* xq_compress_file has fed what it read of the source, in order. *)
LEMMA ReadKept ==
  ASSUME IInv, ~PreadMoves, [Next]_vars
  PROVE  ReadInv'
<1> SUFFICES ASSUME req.fn = "compress_file" PROVE ReadInv'
  BY ReqKept DEF ReadInv
<1>t. /\ PlaceInv /\ TypeOK /\ IoInv /\ req' = req
      /\ OK = 0 /\ ErrIO = 48 /\ ErrOOM = 3
      /\ req.fn \in {"compress", "decompress", "compress_file", "decompress_file"}
      /\ ap \notin {"end", "done"} => st = OK
      /\ req.start \in Nat /\ req.size \in Nat
      /\ fed \in Seq(Int) /\ Len(fed) \in Nat /\ req.start + Len(fed) \in Nat
      /\ io \in Operation /\ io.data \in Seq(Cell) /\ Len(io.data) \in Nat
      /\ in \in [len : Nat, pos : Nat, grown : Nat] /\ in.len \in Nat /\ in.pos \in Nat
      /\ in.len = req.size + in.grown /\ in.grown \in Nat
  <2>1. PlaceInv /\ TypeOK /\ IoInv /\ HintInv
    BY DEF IInv
  <2>2. /\ req.fn \in {"compress", "decompress", "compress_file", "decompress_file"}
        /\ req.start \in Nat /\ req.size \in Nat
    BY <2>1, ReqFacts DEF TypeOK, CallType
  <2>3. fed \in Seq(Int) /\ Len(fed) \in Nat
    BY <2>1 DEF TypeOK, EncType
  <2>4. io \in Operation /\ in \in [len : Nat, pos : Nat, grown : Nat]
    BY <2>1 DEF TypeOK, FileType
  <2>5. io.data \in Seq(Cell) /\ Len(io.data) \in Nat
    BY <2>4 DEF Operation
  <2>6. in.len \in Nat /\ in.pos \in Nat /\ in.grown \in Nat
    BY <2>4
  <2> QED BY <2>1, <2>2, <2>3, <2>4, <2>5, <2>6, ReqKept DEF HintInv, PlaceInv, OK, ErrIO, ErrOOM
<1>i. /\ fed = Bytes(req.start, Len(fed))
      /\ ap \notin {"reading", "end", "done"} => in.pos = req.start + Len(fed)
      /\ ap = "reading" =>
           /\ in.pos = req.start + Len(fed) + Len(io.data)
           /\ io.data = Bytes(req.start + Len(fed), Len(io.data))
           /\ Len(io.data) > 0 => in.pos <= in.len
           /\ Done /\ io.st = OK /\ io.data = <<>> => in.pos >= req.size
      /\ Len(fed) > 0 => req.start + Len(fed) <= in.len
      /\ \/ ap = "finish"
         \/ ap = "sinking" /\ after \in {"finish", "end"}
         \/ ap \in {"end", "done"} /\ st = OK
         => req.start + Len(fed) >= req.size
  BY DEF IInv, ReadInv
<1>m. /\ ToFile /\ Compressing
      /\ \/ OpenIn \/ SizeHint \/ OpenOut \/ DictNone \/ DictSample \/ DictSampled \/ DictFails
         \/ CreateEncoder \/ WriteDict \/ CreateFails \/ Sunk \/ ReadInput \/ InputRead
         \/ EncodeBlock \/ EncodeReturns \/ EncodeFails \/ FinishBlock \/ FinishTrailer
         \/ Return \/ Outside
  BY FileSteps
<1>b. ASSUME fed' = fed PROVE Bytes(req.start, Len(fed))' = Bytes(req.start, Len(fed))
  BY <1>b, <1>t DEF Bytes
(* Only the place has changed. *)
<1>1. ASSUME fed' = fed, in' = in, ap \notin {"reading", "end", "done"} \/ ap' \in {"end", "done"},
             ap' # "reading",
             \/ ap' = "finish"
             \/ ap' = "sinking" /\ after' \in {"finish", "end"}
             \/ ap' \in {"end", "done"} /\ st' = OK
             => \/ ap = "finish"
                \/ ap = "sinking" /\ after \in {"finish", "end"}
                \/ ap \in {"end", "done"} /\ st = OK
      PROVE  ReadInv'
  <2>1. in'.pos = in.pos /\ in'.len = in.len /\ Len(fed') = Len(fed)
    BY <1>1
  <2> QED BY <1>1, <2>1, <1>b, <1>i, <1>t DEF ReadInv
<1>2. CASE OpenIn \/ SizeHint \/ OpenOut \/ DictNone \/ DictSample \/ DictSampled \/ DictFails
           \/ CreateFails \/ EncodeReturns \/ EncodeFails
  <2>1. /\ fed' = fed /\ in' = in
        /\ \/ ap' \in {"size", "openout", "dict", "sampling", "create", "read"}
           \/ ap' \in {"end", "done"} /\ st' # OK
    <3>1. fed' = fed /\ in' = in
      BY <1>2 DEF OpenIn, SizeHint, OpenOut, DictNone, DictSample, DictSampled, DictFails,
         CreateFails, EncodeReturns, EncodeFails, fileVars, encVars
    <3>2. CASE OpenIn \/ SizeHint \/ OpenOut
      BY <3>1, <3>2, <1>t, <1>m DEF OpenIn, SizeHint, OpenOut, Give
    <3>3. CASE DictNone \/ DictSample \/ DictFails \/ CreateFails
      BY <3>1, <3>3, <1>t DEF DictNone, DictSample, DictFails, CreateFails, Give
    <3>4. CASE DictSampled \/ EncodeReturns \/ EncodeFails
      BY <3>1, <3>4, <1>t, <1>m DEF DictSampled, EncodeReturns, EncodeFails
    <3> QED BY <1>2, <3>2, <3>3, <3>4
  <2>2. ap \in {"openin", "size", "openout", "dict", "sampling", "create", "encode", "finish"}
    BY <1>2 DEF OpenIn, SizeHint, OpenOut, DictNone, DictSample, DictSampled, DictFails,
         CreateFails, EncodeReturns, EncodeFails
  <2> QED BY <2>1, <2>2, <1>1
<1>3. CASE CreateEncoder \/ WriteDict \/ EncodeBlock \/ FinishBlock \/ FinishTrailer
  <2>1. /\ fed' = fed /\ in' = in
        /\ \/ \E u : \E p \in {"dictrec", "read", "encode"} : Emit(u, p)
           \/ ap = "finish" /\ \E u : \E p \in {"finish", "end"} : Emit(u, p)
        /\ ap \in {"create", "dictrec", "encode", "finish"}
    <3>1. CASE CreateEncoder
      <4>1. PICK p \in {"dictrec", "read", "encode"} : p = IF dlen > 0 THEN "dictrec" ELSE "read"
        OBVIOUS
      <4>2. Emit(HeadUnit, p)
        BY <3>1, <4>1 DEF CreateEncoder
      <4> QED BY <3>1, <4>2 DEF CreateEncoder
    <3>2. CASE WriteDict \/ EncodeBlock \/ FinishBlock \/ FinishTrailer
      BY <3>2 DEF WriteDict, EncodeBlock, FinishBlock, FinishTrailer
    <3> QED BY <1>3, <3>1, <3>2
  <2>2. /\ ap' = "sinking"
        /\ after' \in {"dictrec", "read", "encode"} \/ (ap = "finish" /\ after' \in {"finish", "end"})
    BY <2>1, <1>m, EmitFacts
  <2> QED BY <2>1, <2>2, <1>1
<1>4. CASE Sunk
  <2>1. /\ fed' = fed /\ in' = in /\ ap = "sinking" /\ st' = io.st /\ after' = after
        /\ ap' = IF io.st = OK THEN after ELSE "end"
    BY <1>4 DEF Sunk, encVars
  <2>2. after \in {"dictrec", "read", "encode", "finish", "end"}
    BY <2>1, <1>t, <1>m DEF PlaceInv, Encoding
  <2> QED BY <2>1, <2>2, <1>1
<1>5. CASE Return
  <2>1. fed' = fed /\ in' = in /\ ap = "end" /\ ap' = "done" /\ st' = st
    BY <1>5 DEF Return, Give, fileVars, encVars
  <2> QED BY <2>1, <1>1
<1>6. CASE ReadInput
  <2>1. fed' = fed /\ in' = in /\ ap = "read" /\ ap' = "reading" /\ io' = Read(IoBuf) /\ st' = st
    BY <1>6 DEF ReadInput, encVars
  <2>2. io'.data = <<>> /\ io'.op = "read"
    BY <2>1, SizeFacts, StartFacts
  <2>3. io'.data = Bytes(req.start + Len(fed), 0) /\ Len(io'.data) = 0
    BY <2>2, <1>t, NoBytes
  <2>4. Bytes(req.start + Len(fed'), Len(io'.data)) = Bytes(req.start + Len(fed), 0)
    BY <2>1, <2>3
  <2>5. (Bytes(req.start + Len(fed), Len(io.data)))' = Bytes(req.start + Len(fed'), Len(io'.data))
    BY <1>t DEF Bytes
  <2>6. in'.pos = in.pos /\ in'.len = in.len /\ Len(fed') = Len(fed)
    BY <2>1
  <2> QED BY <2>1, <2>2, <2>3, <2>4, <2>5, <2>6, <1>b, <1>i, <1>t DEF ReadInv, Done
<1>7. CASE InputRead
  <2>1. /\ in' = in /\ ap = "reading" /\ Done /\ st' = io.st
        /\ fed' = IF io.st = OK THEN fed \o io.data ELSE fed
        /\ ap' = IF io.st # OK THEN "end" ELSE IF io.data = <<>> THEN "finish" ELSE "encode"
    BY <1>7 DEF InputRead
  <2>2. CASE io.st # OK
    <3>1. fed' = fed /\ ap' = "end" /\ st' # OK
      BY <2>1, <2>2
    <3> QED BY <2>1, <3>1, <1>1
  <2>3. CASE io.st = OK
    <3>1. fed' = fed \o io.data /\ ap' \in {"finish", "encode"}
      BY <2>1, <2>3
    <3>2. PICK n \in Nat, m \in Nat : n = Len(fed) /\ m = Len(io.data)
      BY <1>t
    <3>3. fed = Bytes(req.start, n) /\ io.data = Bytes(req.start + n, m)
      BY <2>1, <3>2, <1>i
    <3>4. fed' = Bytes(req.start, n + m)
      <4>1. Bytes(req.start, n) \o Bytes(req.start + n, m) = Bytes(req.start, n + m)
        <5>1. req.start \in Nat /\ n \in Nat /\ m \in Nat
          BY <1>t
        <5>2. PICK p : p = req.start
          OBVIOUS
        <5>3. Bytes(p, n) \o Bytes(p + n, m) = Bytes(p, n + m)
          BY ONLY <5>1, <5>2, BytesJoin
        <5> QED BY <5>2, <5>3
      <4>2. fed \o io.data = Bytes(req.start, n) \o Bytes(req.start + n, m)
        BY <3>3, Zenon
      <4> QED BY <3>1, <4>1, <4>2, Zenon
    <3>5. Len(fed') = n + m
      <4>1. n + m \in Nat
        OBVIOUS
      <4> QED BY <3>4, <4>1, <1>t, BytesFacts
    <3>6. (Bytes(req.start, Len(fed)))' = Bytes(req.start, n + m)
      BY <3>5, <1>t DEF Bytes
    <3>7. in.pos = req.start + (n + m) /\ (m > 0 => in.pos <= in.len)
      BY <2>1, <3>2, <1>i, <1>t
    <3>8. Len(fed') > 0 => req.start + Len(fed') <= in.len
      <4>1. n > 0 => req.start + n <= in.len
        BY <3>2, <1>i
      <4>2. m = 0 \/ m > 0
        OBVIOUS
      <4> QED BY <4>1, <4>2, <3>5, <3>7, <1>t
    <3>9. ap' = "finish" => in.pos >= req.size
      BY <2>1, <2>3, <1>i
    <3>10. in'.pos = in.pos /\ in'.len = in.len
      BY <2>1
    <3> QED BY <2>1, <3>1, <3>4, <3>5, <3>6, <3>7, <3>8, <3>9, <3>10, <1>t DEF ReadInv
  <2> QED BY <2>2, <2>3
<1>8. CASE Outside
  <2>1. fed' = fed /\ ap' = ap /\ after' = after /\ st' = st
    BY <1>8 DEF Outside, apiVars
  <2>2. Len(fed') = Len(fed)
    BY <2>1
  <2>3. (Bytes(req.start + Len(fed), Len(io.data)))' = Bytes(req.start + Len(fed), Len(io'.data))
    BY <1>t, <2>1 DEF Bytes
  <2>s. PICK s \in Nat : s = req.start + Len(fed)
    BY <1>t
  (* The operation goes on, or ends. *)
  <2>4. ASSUME in'.len >= in.len, in'.len \in Nat,
               ap \notin {"reading", "end", "done"} => in'.pos = s,
               ap = "reading" =>
                 /\ in'.pos = s + Len(io'.data)
                 /\ io'.data = Bytes(s, Len(io'.data))
                 /\ Len(io'.data) > 0 => in'.pos <= in'.len
                 /\ Done' /\ io'.st = OK /\ io'.data = <<>> => in'.pos >= req.size
        PROVE  ReadInv'
    <3>1. Len(fed) > 0 => s <= in'.len
      BY SMTT(30), <2>s, <2>4, <1>i, <1>t
    <3>2. \/ ap = "finish"
          \/ ap = "sinking" /\ after \in {"finish", "end"}
          \/ ap \in {"end", "done"} /\ st = OK
          => s >= req.size
      BY <2>s, <1>i
    <3> QED BY <2>1, <2>2, <2>3, <2>s, <2>4, <3>1, <3>2, <1>b, <1>i, <1>t DEF ReadInv
  <2>i. /\ ap \notin {"reading", "end", "done"} => in.pos = s
        /\ ap = "reading" =>
             /\ in.pos = s + Len(io.data)
             /\ io.data = Bytes(s, Len(io.data))
             /\ Len(io.data) > 0 => in.pos <= in.len
             /\ Done /\ io.st = OK /\ io.data = <<>> => in.pos >= req.size
    BY <2>s, <1>i
  <2>5. CASE UNCHANGED vars \/ Interrupt
    <3>1. in' = in /\ io' = io
      BY <2>5 DEF vars, fileVars, Interrupt, OnInterrupt
    <3>2. in'.len = in.len /\ in'.pos = in.pos /\ io'.data = io.data /\ io'.st = io.st /\ (Done' <=> Done)
      BY <3>1 DEF Done
    <3> QED BY <3>2, <2>4, <2>i, <1>t
  <2>6. CASE Grow
    <3>1. in' = [in EXCEPT !.len = in.len + 1, !.grown = in.grown + 1] /\ io' = io
      BY <2>6 DEF Grow
    <3>2. in'.len = in.len + 1 /\ in'.pos = in.pos
      BY <3>1, <1>t
    <3>3. io'.data = io.data /\ io'.st = io.st /\ (Done' <=> Done)
      BY <3>1 DEF Done
    <3> QED BY <3>2, <3>3, <2>4, <2>i, <1>t
  <2>7. CASE IoFails
    <3>1. in' = in /\ io'.data = io.data /\ io'.st = ErrIO
      BY <2>7, <1>t DEF IoFails, Operation
    <3>2. in'.len = in.len /\ in'.pos = in.pos
      BY <3>1
    <3> QED BY <3>1, <3>2, <2>4, <2>i, <1>t
  <2>8. CASE ReadEof
    <3>1. in' = in /\ io'.data = io.data /\ Here >= in.len /\ io.op \in {"read", "pread"}
      BY <2>8, <1>t DEF ReadEof, AtEof, Operation
    <3>2. in'.len = in.len /\ in'.pos = in.pos
      BY <3>1
    <3>3. ap = "reading" => in.pos >= req.size
      <4>1. SUFFICES ASSUME ap = "reading" PROVE in.pos >= req.size
        OBVIOUS
      <4>2. io.op = "read"
        BY <3>1, <4>1, <1>t DEF IoInv
      <4>3. in.pos >= in.len
        BY <3>1, <4>2 DEF Here
      <4> QED BY <4>3, <1>t
    <3> QED BY <3>1, <3>2, <3>3, <2>4, <2>i, <1>t
  <2>9. CASE WriteSome
    <3>1. in' = in /\ io.op = "write"
      BY <2>9 DEF WriteSome
    <3>2. ap # "reading"
      BY <3>1, <1>t DEF IoInv
    <3>3. in'.len = in.len /\ in'.pos = in.pos
      BY <3>1
    <3> QED BY <3>2, <3>3, <2>4, <2>i, <1>t
  <2>10. CASE ReadSome
    <3>1. PICK n \in Nat :
            /\ n > 0 /\ Len(io.data) + n <= io.want
            /\ Here \in Nat /\ Here + n <= in.len
            /\ io' = [io EXCEPT !.data = io.data \o Bytes(Here, n),
                                !.op = IF Len(io.data) + n = io.want THEN "done" ELSE io.op]
            /\ in' = IF io.op = "read" \/ PreadMoves THEN [in EXCEPT !.pos = Here + n] ELSE in
            /\ Len(io.data \o Bytes(Here, n)) = Len(io.data) + n
      BY <2>10, <1>t, ReadSomeFacts
    <3>2. io'.data = io.data \o Bytes(Here, n) /\ Len(io'.data) = Len(io.data) + n
      BY <3>1, <1>t DEF Operation
    <3>3. in'.len = in.len
      BY <3>1, <1>t
    <3>4. io.op \in {"read", "pread"}
      BY <2>10 DEF ReadSome
    <3>5. ASSUME ap = "reading"
          PROVE  /\ in'.pos = s + Len(io'.data)
                 /\ io'.data = Bytes(s, Len(io'.data))
                 /\ in'.pos <= in'.len
                 /\ io'.data # <<>>
      <4>1. io.op = "read"
        BY <3>4, <3>5, <1>t DEF IoInv
      <4>2. PICK m \in Nat : m = Len(io.data)
        BY <1>t
      <4>3. Here = s + m /\ io.data = Bytes(s, m)
        BY <4>1, <4>2, <3>5, <2>i DEF Here
      <4>4. in'.pos = Here + n
        BY <3>1, <4>1, <1>t
      <4>5. in'.pos = s + (m + n) /\ in'.pos <= in'.len
        BY <4>3, <4>4, <3>1, <3>3
      <4>6. Bytes(s, m) \o Bytes(s + m, n) = Bytes(s, m + n)
        BY BytesJoin
      <4>7. io.data \o Bytes(Here, n) = Bytes(s, m) \o Bytes(s + m, n)
        BY <4>3, Zenon
      <4>8. io'.data = Bytes(s, m + n)
        BY <3>2, <4>6, <4>7, Zenon
      <4>9. Len(io'.data) = m + n /\ m + n > 0
        BY <3>1, <3>2, <4>2
      <4>10. io'.data # <<>>
        <5>1. Len(<<>>) = 0
          OBVIOUS
        <5> QED BY <4>9, <5>1
      <4> QED BY <4>5, <4>8, <4>9, <4>10
    <3>6. ap \notin {"reading", "end", "done"} => in'.pos = in.pos
      <4>1. SUFFICES ASSUME ap \notin {"reading", "end", "done"} PROVE in'.pos = in.pos
        OBVIOUS
      <4>2. io.op = "pread"
        BY <3>4, <4>1, <1>t DEF IoInv, NoOp
      <4> QED BY <4>2, <3>1
    <3> QED BY SMTT(30), <3>3, <3>5, <3>6, <2>4, <2>i, <1>t
  <2> QED
    BY <1>8, <2>5, <2>6, <2>7, <2>8, <2>9, <2>10 DEF Outside, SysCall, Environment, Transfer
<1> QED BY <1>m, <1>2, <1>3, <1>4, <1>5, <1>6, <1>7, <1>8

-----------------------------------------------------------------------------
(* What has been written *)

(* Nothing is fed, cut or written before the encoder exists. *)
LEMMA StartKept ==
  ASSUME IInv, [Next]_vars
  PROVE  StartInv'
<1> SUFFICES ASSUME Compressing, ap' \in Early
             PROVE  fed' = <<>> /\ nblk' = 0 /\ units' = <<>> /\ mlen' = 0 /\ outf' = <<>>
  BY ReqKept DEF StartInv
<1>p. /\ Early = {"openin", "size", "openout", "dict", "sampling", "create"}
      /\ Encoding = {"dictrec", "read", "encode", "finish"}
  BY DEF Early, Opening, Encoding
<1>i. ap \in Early => fed = <<>> /\ nblk = 0 /\ units = <<>> /\ mlen = 0 /\ outf = <<>>
  BY DEF IInv, StartInv
<1>1. CASE OpenIn \/ SizeHint \/ OpenOut \/ DictNone \/ DictPrefix \/ DictSample \/ DictSampled
  <2>1. /\ ap \in Early
        /\ fed' = fed /\ nblk' = nblk /\ units' = units /\ mlen' = mlen /\ outf' = outf
    BY <1>1, <1>p DEF OpenIn, SizeHint, OpenOut, DictNone, DictPrefix, DictSample, DictSampled,
       fileVars, encVars
  <2> QED BY <2>1, <1>i
<1>2. CASE Outside
  <2>1. /\ fed' = fed /\ nblk' = nblk /\ units' = units /\ mlen' = mlen /\ ap' = ap
    BY <1>2 DEF Outside, apiVars
  <2>2. ~WriteSome
    <3>1. ap = "sampling" => io.op # "write"
      BY DEF IInv, IoInv
    <3>2. ap # "sampling" => io.op = "none"
      BY <2>1, <1>p DEF IInv, IoInv, NoOp
    <3> QED BY <3>1, <3>2 DEF WriteSome
  <2>3. outf' = outf
    BY <1>2, <2>2 DEF Outside, SysCall, Environment, Transfer, ReadSome, ReadEof, IoFails,
       Interrupt, Grow, vars, fileVars
  <2> QED BY <2>1, <2>3, <1>i
<1>e. ASSUME NEW u, NEW p \in Encoding \cup {"end"}, Emit(u, p) PROVE FALSE
  <2>1. ap' \in {p, "sinking", "end"}
    BY <1>e, EmitFacts
  <2> QED BY <2>1, <1>p
<1>3. CASE CreateEncoder
  <2>1. PICK p \in Encoding \cup {"end"} : p = IF dlen > 0 THEN "dictrec" ELSE "read"
    BY <1>p
  <2> QED BY <1>3, <2>1, <1>e DEF CreateEncoder
<1>4. CASE WriteDict \/ EncodeBlock \/ FinishBlock \/ FinishTrailer
  <2>1. \E u : \E p \in Encoding \cup {"end"} : Emit(u, p)
    BY <1>4, <1>p DEF WriteDict, EncodeBlock, FinishBlock, FinishTrailer
  <2> QED BY <2>1, <1>e
<1>5. CASE Sunk
  <2>1. ap = "sinking" /\ ap' \in {after, "end"}
    BY <1>5 DEF Sunk
  <2>2. after \in Encoding \cup {"end"}
    BY <2>1 DEF IInv, PlaceInv
  <2> QED BY <2>1, <2>2, <1>p
<1>6. CASE DictFails \/ CreateFails \/ FeedAll \/ ReadInput \/ InputRead \/ EncodeReturns
           \/ EncodeFails \/ CreateDecoder \/ PullMem \/ PullFile \/ PullFails \/ FooterCheck \/ Return
  <2>1. ap' \in {"done", "encode", "reading", "end", "finish", "read", "pull", "sinking", "check"}
    BY <1>6 DEF DictFails, CreateFails, FeedAll, ReadInput, InputRead, EncodeReturns, EncodeFails,
       CreateDecoder, PullMem, PullFile, PullFails, FooterCheck, Return, Give
  <2> QED BY <2>1, <1>p
<1> QED BY <1>1, <1>2, <1>3, <1>4, <1>5, <1>6, NextSteps DEF Step

(* An archive without its trailer. *)
LEMMA BuiltFacts ==
  ASSUME NEW h \in Int, NEW d \in Nat, NEW f \in Seq(Int), NEW n \in Nat,
         n * BlockSize < Len(f) + BlockSize
  PROVE  Built(h, d, f, n) \in Seq(UnitT)
<1>1. PICK a : a = <<[kind |-> "head", data |-> <<h>>]>>
  OBVIOUS
<1>2. a \in Seq(UnitT)
  <2>1. <<h>> \in Seq(Int)
    OBVIOUS
  <2>2. [kind |-> "head", data |-> <<h>>] \in UnitT
    BY <2>1 DEF UnitT
  <2> QED BY <1>1, <2>2
<1>3. PICK b : b = IF d > 0 THEN <<DictUnit>> ELSE <<>>
  OBVIOUS
<1>4. b \in Seq(UnitT)
  <2>1. << >> \in Seq(Int)
    OBVIOUS
  <2>2. DictUnit \in UnitT
    BY <2>1 DEF DictUnit, UnitT
  <2>3. <<DictUnit>> \in Seq(UnitT) /\ << >> \in Seq(UnitT)
    BY <2>2
  <2> QED BY <1>3, <2>3
<1>5. CutUpTo(f, n) \in Seq(UnitT)
  BY CutUpToFacts
<1>6. Built(h, d, f, n) = (a \o b) \o CutUpTo(f, n)
  BY <1>1, <1>3 DEF Built
<1>7. (a \o b) \o CutUpTo(f, n) \in Seq(UnitT)
  BY <1>2, <1>4, <1>5
<1> QED BY <1>6, <1>7

(* ... and one block more. *)
LEMMA BuiltNext ==
  ASSUME NEW h \in Int, NEW d \in Nat, NEW f \in Seq(Int), NEW n \in Nat, n * BlockSize < Len(f)
  PROVE  Built(h, d, f, n + 1) = Built(h, d, f, n) \o <<Cut(f, n)>>
<1>1. PICK a : a = <<[kind |-> "head", data |-> <<h>>]>> \o (IF d > 0 THEN <<DictUnit>> ELSE <<>>)
  OBVIOUS
<1>2. a \in Seq(UnitT)
  <2>1. <<h>> \in Seq(Int) /\ << >> \in Seq(Int)
    OBVIOUS
  <2>2. [kind |-> "head", data |-> <<h>>] \in UnitT /\ DictUnit \in UnitT
    BY <2>1 DEF UnitT, DictUnit
  <2>3. <<[kind |-> "head", data |-> <<h>>]>> \in Seq(UnitT) /\ <<DictUnit>> \in Seq(UnitT)
        /\ << >> \in Seq(UnitT)
    BY <2>2
  <2>4. (IF d > 0 THEN <<DictUnit>> ELSE <<>>) \in Seq(UnitT)
    BY <2>3
  <2> QED BY <1>1, <2>3, <2>4
<1>3. PICK b, c, u : b = CutUpTo(f, n) /\ c = CutUpTo(f, n + 1) /\ u = Cut(f, n)
  OBVIOUS
<1>4. b \in Seq(UnitT) /\ u \in UnitT /\ c = b \o <<u>>
  BY <1>3, CutUpToNext
<1>5. a \o (b \o <<u>>) = (a \o b) \o <<u>>
  <2>1. <<u>> \in Seq(UnitT)
    BY <1>4
  <2> QED BY ONLY <2>1, <1>2, <1>4, ConcatAssociative
<1>6. Built(h, d, f, n + 1) = a \o c /\ Built(h, d, f, n) = a \o b
  BY <1>1, <1>3 DEF Built
<1> QED BY <1>3, <1>4, <1>5, <1>6, Zenon

(* What the sink is to have received, from place to place. *)
LEMMA SoFarFacts ==
  ASSUME TypeOK, CutInv
  PROVE  /\ \A p \in Encoding \cup {"end"} : SoFar(p) \in Seq(UnitT)
         /\ SoFar("encode") = SoFar("read") /\ SoFar("finish") = SoFar("read")
         /\ SoFar("end") = SoFar("finish") \o <<TailUnit>>
         /\ nblk = 0 =>
              IF dlen > 0
              THEN SoFar("dictrec") = <<HeadUnit>> /\ SoFar("read") = SoFar("dictrec") \o <<DictUnit>>
              ELSE SoFar("read") = <<HeadUnit>>
<1>1. /\ hint \in Int /\ dlen \in Nat /\ fed \in Seq(Int) /\ nblk \in Nat
      /\ nblk * BlockSize < Len(fed) + BlockSize
  BY DEF TypeOK, EncType, Unknown, CutInv
<1>2. PICK b : b = Built(hint, dlen, fed, nblk)
  OBVIOUS
<1>3. b \in Seq(UnitT)
  BY <1>1, <1>2, BuiltFacts
<1>4. HeadUnit \in UnitT /\ DictUnit \in UnitT /\ TailUnit \in UnitT
  BY UnitFacts
<1>5. <<HeadUnit>> \in Seq(UnitT) /\ <<TailUnit>> \in Seq(UnitT) /\ <<DictUnit>> \in Seq(UnitT)
  BY <1>4
<1>6. /\ SoFar("dictrec") = <<HeadUnit>> /\ SoFar("end") = b \o <<TailUnit>>
      /\ SoFar("read") = b /\ SoFar("encode") = b /\ SoFar("finish") = b
  BY <1>2 DEF SoFar
<1>7. b \o <<TailUnit>> \in Seq(UnitT)
  BY <1>3, <1>5
<1>8. ASSUME nblk = 0
      PROVE  b = IF dlen > 0 THEN <<HeadUnit>> \o <<DictUnit>> ELSE <<HeadUnit>>
  <2>1. PICK c : c = CutUpTo(fed, nblk)
    OBVIOUS
  <2>2. c = <<>>
    <3>1. c \in Seq(UnitT) /\ Len(c) = 0
      BY <1>1, <1>8, <2>1, CutUpToFacts
    <3> QED BY <3>1
  <2>3. b = (<<HeadUnit>> \o (IF dlen > 0 THEN <<DictUnit>> ELSE <<>>)) \o c
    BY <1>2, <2>1 DEF Built, HeadUnit
  <2>4. CASE dlen > 0
    <3>1. b = (<<HeadUnit>> \o <<DictUnit>>) \o <<>>
      BY <2>2, <2>3, <2>4
    <3>2. <<HeadUnit>> \o <<DictUnit>> \in Seq(UnitT)
      BY <1>5
    <3>3. (<<HeadUnit>> \o <<DictUnit>>) \o <<>> = <<HeadUnit>> \o <<DictUnit>>
      BY <3>2
    <3> QED BY <2>4, <3>1, <3>3
  <2>5. CASE ~(dlen > 0)
    <3>1. b = (<<HeadUnit>> \o <<>>) \o <<>>
      BY <2>2, <2>3, <2>5
    <3>2. (<<HeadUnit>> \o <<>>) \o <<>> = <<HeadUnit>>
      BY <1>5
    <3> QED BY <2>5, <3>1, <3>2
  <2> QED BY <2>4, <2>5
<1> QED BY <1>3, <1>5, <1>6, <1>7, <1>8 DEF Encoding

(* It changes only with what it depends on. *)
LEMMA SoFarStill ==
  ASSUME hint' = hint, dlen' = dlen, fed' = fed, nblk' = nblk, NEW p
  PROVE  SoFar(p)' = SoFar(p)
<1>1. HeadUnit' = HeadUnit /\ TailUnit' = TailUnit
  BY DEF HeadUnit, TailUnit
<1>2. Built(hint, dlen, fed, nblk)' = Built(hint, dlen, fed, nblk)
  BY DEF Built, CutUpTo, Cut, DictUnit
<1> QED BY <1>1, <1>2 DEF SoFar

(* With the unit that is given to the sink, it has what it is to have. *)
LEMMA Emitted ==
  ASSUME IInv, CreateEncoder \/ WriteDict \/ EncodeBlock \/ FinishBlock \/ FinishTrailer
  PROVE  \E u \in UnitT, p \in Encoding \cup {"end"} :
           /\ Emit(u, p) /\ outf' = outf
           /\ \/ ap = "create" /\ SoFar(p)' = <<u>>
              \/ ap \in Encoding /\ SoFar(p)' = SoFar(ap) \o <<u>>
<1>t. TypeOK /\ CutInv /\ StartInv
  BY DEF IInv
<1>p. /\ Encoding = {"dictrec", "read", "encode", "finish"}
      /\ "create" \in Early
  BY DEF Early, Encoding
<1>u. HeadUnit \in UnitT /\ DictUnit \in UnitT /\ TailUnit \in UnitT
  BY <1>t, UnitFacts
<1>n. /\ nblk \in Nat /\ BlockSize \in Nat /\ BlockSize > 0 /\ Len(fed) \in Nat /\ fed \in Seq(Int)
      /\ hint \in Int /\ dlen \in Nat
  BY <1>t, SizeFacts DEF TypeOK, EncType, Unknown
<1>s. /\ SoFar("encode") = SoFar("read") /\ SoFar("finish") = SoFar("read")
      /\ SoFar("end") = SoFar("finish") \o <<TailUnit>>
      /\ nblk = 0 =>
              IF dlen > 0
              THEN SoFar("dictrec") = <<HeadUnit>> /\ SoFar("read") = SoFar("dictrec") \o <<DictUnit>>
              ELSE SoFar("read") = <<HeadUnit>>
  BY <1>t, SoFarFacts
<1>1. CASE CreateEncoder
  <2>1. PICK p \in Encoding \cup {"end"} : p = IF dlen > 0 THEN "dictrec" ELSE "read"
    BY <1>p
  <2>2. /\ Emit(HeadUnit, p) /\ outf' = outf /\ ap = "create" /\ Compressing
        /\ hint' = hint /\ dlen' = dlen /\ fed' = fed /\ nblk' = nblk
    BY <1>1, <2>1 DEF CreateEncoder
  <2>3. nblk = 0
    BY <2>2, <1>t, <1>p DEF StartInv
  <2>4. SoFar(p) = <<HeadUnit>>
    BY <2>1, <2>3, <1>s
  <2>5. SoFar(p)' = <<HeadUnit>>
    BY <2>2, <2>4, SoFarStill
  <2> QED BY <2>2, <2>5, <1>u
<1>2. CASE WriteDict
  <2>1. /\ Emit(DictUnit, "read") /\ outf' = outf /\ ap = "dictrec"
        /\ hint' = hint /\ dlen' = dlen /\ fed' = fed /\ nblk' = nblk
    BY <1>2 DEF WriteDict
  <2>2. nblk = 0 /\ dlen > 0
    BY <2>1, <1>t DEF CutInv
  <2>3. SoFar("read") = SoFar("dictrec") \o <<DictUnit>>
    BY <2>2, <1>s
  <2>4. SoFar("read")' = SoFar("dictrec") \o <<DictUnit>>
    BY <2>1, <2>3, SoFarStill
  <2> QED BY <2>1, <2>4, <1>u, <1>p
<1>3. ASSUME NEW q \in {"encode", "finish"}, ap = q, nblk * BlockSize < Len(fed),
             hint' = hint, dlen' = dlen, fed' = fed, nblk' = nblk + 1
      PROVE  BlockUnit(nblk) \in UnitT /\ SoFar(q)' = SoFar(ap) \o <<BlockUnit(nblk)>>
  <2>1. BlockUnit(nblk) = Cut(fed, nblk) /\ BlockUnit(nblk) \in UnitT
    BY <1>3, <1>t, <1>n, BlockFacts
  <2>2. SoFar(ap) = Built(hint, dlen, fed, nblk)
    BY <1>3 DEF SoFar
  <2>3. SoFar(q)' = Built(hint', dlen', fed', nblk')
    BY <1>3 DEF SoFar, Built, CutUpTo, Cut, DictUnit
  <2>4. SoFar(q)' = Built(hint, dlen, fed, nblk + 1)
    BY <2>3, <1>3
  <2>5. Built(hint, dlen, fed, nblk + 1) = Built(hint, dlen, fed, nblk) \o <<Cut(fed, nblk)>>
    BY <1>3, <1>n, BuiltNext
  <2> QED BY <2>1, <2>2, <2>4, <2>5
<1>4. CASE EncodeBlock
  <2>1. /\ Emit(BlockUnit(nblk), "encode") /\ outf' = outf /\ ap = "encode"
        /\ hint' = hint /\ dlen' = dlen /\ fed' = fed /\ nblk' = nblk + 1
        /\ (nblk + 1) * BlockSize <= Len(fed)
    BY <1>4 DEF EncodeBlock
  <2>2. nblk * BlockSize < Len(fed)
    BY <2>1, <1>n
  <2> QED BY <2>1, <2>2, <1>3, <1>p
<1>5. CASE FinishBlock
  <2>1. /\ Emit(BlockUnit(nblk), "finish") /\ outf' = outf /\ ap = "finish"
        /\ hint' = hint /\ dlen' = dlen /\ fed' = fed /\ nblk' = nblk + 1
        /\ nblk * BlockSize < Len(fed)
    BY <1>5 DEF FinishBlock
  <2> QED BY <2>1, <1>3, <1>p
<1>6. CASE FinishTrailer
  <2>1. /\ Emit(TailUnit, "end") /\ outf' = outf /\ ap = "finish"
        /\ hint' = hint /\ dlen' = dlen /\ fed' = fed /\ nblk' = nblk
    BY <1>6 DEF FinishTrailer
  <2>2. SoFar("end")' = SoFar("finish") \o <<TailUnit>>
    BY <2>1, <1>s, SoFarStill
  <2> QED BY <2>1, <2>2, <1>u, <1>p
<1> QED BY <1>1, <1>2, <1>4, <1>5, <1>6

(* Bytes that are handed over later change nothing of it. *)
LEMMA SoFarGrow ==
  ASSUME TypeOK, NEW g \in Seq(Int), nblk * BlockSize <= Len(fed),
         hint' = hint, dlen' = dlen, nblk' = nblk, fed' = fed \o g,
         NEW p \in {"read", "encode", "finish"}
  PROVE  SoFar(p)' = SoFar("read")
<1>1. fed \in Seq(Int) /\ nblk \in Nat
  BY DEF TypeOK, EncType
<1>2. CutUpTo(fed \o g, nblk) = CutUpTo(fed, nblk)
  BY <1>1, CutUpToGrow
<1>3. SoFar(p)' = Built(hint', dlen', fed', nblk')
  BY DEF SoFar, Built, CutUpTo, Cut, DictUnit
<1>4. Built(hint', dlen', fed', nblk') = Built(hint, dlen, fed \o g, nblk)
  OBVIOUS
<1>5. Built(hint, dlen, fed \o g, nblk) = Built(hint, dlen, fed, nblk)
  BY <1>2 DEF Built
<1> QED BY <1>3, <1>4, <1>5 DEF SoFar

(* The memory sink has the archive so far. *)
LEMMA UnitsKept ==
  ASSUME IInv, [Next]_vars
  PROVE  UnitsInv'
<1> SUFFICES ASSUME req.fn = "compress" PROVE UnitsInv'
  BY ReqKept DEF UnitsInv
<1>q. SUFFICES ASSUME NEW q \in Encoding \cup {"end"},
                      ap' = q \/ (q = "end" /\ ap' = "done" /\ st' = OK),
                      q = "end" => st' = OK
               PROVE  units' = SoFar(q)'
  <2>1. ASSUME NEW q \in Encoding, ap' = q PROVE units' = SoFar(ap)'
    <3>1. units' = SoFar(q)'
      BY <1>q, <2>1 DEF Encoding
    <3> QED BY <3>1, <2>1 DEF SoFar
  <2>2. ASSUME ap' \in {"end", "done"}, st' = OK PROVE units' = SoFar("end")'
    BY <1>q, <2>2
  <2> QED BY <2>1, <2>2 DEF UnitsInv
<1>t. /\ TypeOK /\ CutInv /\ StartInv /\ FedInv /\ PlaceInv
      /\ OK = 0 /\ ErrIO = 48 /\ ErrOOM = 3 /\ ErrDstTooSmall = 2
  BY DEF IInv, OK, ErrIO, ErrOOM, ErrDstTooSmall
<1>m. /\ ~ToFile /\ Compressing
      /\ \/ DictNone \/ DictPrefix \/ DictFails \/ CreateEncoder \/ WriteDict \/ CreateFails
         \/ FeedAll \/ EncodeBlock \/ EncodeReturns \/ EncodeFails \/ FinishBlock
         \/ FinishTrailer \/ Return \/ Outside
  BY MemSteps
<1>p. /\ Encoding = {"dictrec", "read", "encode", "finish"}
      /\ Early = {"openin", "size", "openout", "dict", "sampling", "create"}
  BY DEF Early, Opening, Encoding
<1>i. /\ ap \in Encoding => units = SoFar(ap)
      /\ ap \in {"end", "done"} /\ st = OK => units = SoFar("end")
  BY DEF IInv, UnitsInv
<1>y. units \in Seq(UnitT)
  BY <1>t DEF TypeOK, EncType
<1>1. CASE CreateEncoder \/ WriteDict \/ EncodeBlock \/ FinishBlock \/ FinishTrailer
  <2>1. PICK u \in UnitT, p \in Encoding \cup {"end"} :
           /\ Emit(u, p) /\ outf' = outf
           /\ \/ ap = "create" /\ SoFar(p)' = <<u>>
              \/ ap \in Encoding /\ SoFar(p)' = SoFar(ap) \o <<u>>
    BY <1>1, Emitted
  <2>2. \/ ap' = p /\ units' = Append(units, u)
        \/ ap' = "end" /\ st' = ErrDstTooSmall
    BY <2>1, <1>m, EmitFacts
  <2>3. Append(units, u) = SoFar(p)'
    <3>1. Append(units, u) = units \o <<u>>
      BY <1>y
    <3>2. CASE ap = "create" /\ SoFar(p)' = <<u>>
      <4>1. units = <<>>
        BY <3>2, <1>t, <1>m, <1>p DEF StartInv
      <4> QED BY <4>1, <3>2
    <3>3. CASE ap \in Encoding /\ SoFar(p)' = SoFar(ap) \o <<u>>
      BY <3>1, <3>3, <1>i
    <3> QED BY <2>1, <3>2, <3>3
  <2>4. q = p /\ units' = Append(units, u)
    BY <2>2, <2>1, <1>t, <1>p, <1>q
  <2> QED BY <2>3, <2>4
<1>2. CASE DictNone \/ DictPrefix \/ DictFails \/ CreateFails
  <2>1. ap' \in {"create", "done"} /\ (ap' = "done" => st' # OK)
    BY <1>2, <1>t DEF DictNone, DictPrefix, DictFails, CreateFails, Give
  <2> QED BY <2>1, <1>p, <1>q
<1>3. CASE FeedAll
  <2>1. /\ ap = "read" /\ ap' = "encode" /\ units' = units /\ fed' = Bytes(0, req.size)
        /\ hint' = hint /\ dlen' = dlen /\ nblk' = nblk
    BY <1>3 DEF FeedAll
  <2>2. fed = <<>> /\ nblk * BlockSize <= Len(fed)
    BY <2>1, <1>t DEF FedInv, CutInv
  <2>3. PICK g \in Seq(Int) : g = Bytes(0, req.size)
    <3>1. req.size \in Nat /\ 0 \in Nat
      BY <1>t, ReqFacts DEF TypeOK, CallType
    <3> QED BY <3>1, BytesFacts
  <2>4. fed' = fed \o g
    BY <2>1, <2>2, <2>3
  <2>5. SoFar("encode")' = SoFar("read")
    BY <2>1, <2>2, <2>4, <1>t, SoFarGrow
  <2> QED BY <2>1, <2>5, <1>i, <1>p, <1>q
<1>4. CASE EncodeReturns
  <2>1. /\ ap = "encode" /\ ap' = "finish" /\ units' = units /\ fed' = fed
        /\ hint' = hint /\ dlen' = dlen /\ nblk' = nblk
    BY <1>4, <1>m DEF EncodeReturns, encVars
  <2>2. SoFar("finish") = SoFar("encode")
    BY <1>t, SoFarFacts
  <2>3. SoFar("finish")' = SoFar("finish")
    BY <2>1, SoFarStill
  <2> QED BY <2>1, <2>2, <2>3, <1>i, <1>p, <1>q
<1>5. CASE EncodeFails
  BY <1>5, <1>p, <1>q, <1>t DEF EncodeFails
<1>6. CASE Return
  <2>1. /\ ap = "end" /\ ap' = "done" /\ st' = st /\ units' = units /\ fed' = fed
        /\ hint' = hint /\ dlen' = dlen /\ nblk' = nblk
    BY <1>6 DEF Return, Give, encVars
  <2>2. SoFar("end")' = SoFar("end")
    BY <2>1, SoFarStill
  <2> QED BY <2>1, <2>2, <1>i, <1>p, <1>q
<1>7. CASE Outside
  <2>1. /\ ap' = ap /\ st' = st /\ units' = units /\ fed' = fed
        /\ hint' = hint /\ dlen' = dlen /\ nblk' = nblk
    BY <1>7 DEF Outside, apiVars
  <2>2. SoFar(q)' = SoFar(q)
    BY <2>1, SoFarStill
  <2> QED BY <2>1, <2>2, <1>i, <1>p, <1>q
<1> QED BY <1>m, <1>1, <1>2, <1>3, <1>4, <1>5, <1>6, <1>7

(* Between two steps of the call only what is being written goes out. *)
LEMMA OutsideOut ==
  ASSUME IInv, Outside
  PROVE  /\ ap # "sinking" => outf' = outf
         /\ ap = "sinking" => \E a \in Seq(Cell), b \in Seq(Cell) :
                                outf' = outf \o a /\ io.data = a \o b /\ io'.data = b
<1>t. TypeOK /\ IoInv /\ outf \in Seq(Cell) /\ io.data \in Seq(Cell) /\ io \in Operation
  <2>1. TypeOK /\ IoInv
    BY DEF IInv
  <2>2. outf \in Seq(Cell) /\ io \in Operation
    BY <2>1 DEF TypeOK, FileType
  <2> QED BY <2>1, <2>2 DEF Operation
<1>1. CASE ap # "sinking"
  <2>1. io.op # "write"
    BY <1>1, <1>t DEF IoInv, NoOp
  <2>2. ~WriteSome
    BY <2>1 DEF WriteSome
  <2>3. outf' = outf
    BY <2>2 DEF Outside, SysCall, Environment, Transfer, ReadSome, ReadEof, IoFails,
       Interrupt, Grow, vars, fileVars
  <2> QED BY <1>1, <2>3
<1>2. CASE ap = "sinking"
  <2>1. CASE WriteSome
    <3>1. PICK a \in Seq(Cell), b \in Seq(Cell) :
             /\ io.data = a \o b
             /\ outf' = outf \o a
             /\ io' = [io EXCEPT !.data = b, !.op = IF b = <<>> THEN "done" ELSE io.op]
      BY <2>1, <1>t, WriteSomeFacts
    <3>2. io'.data = b
      BY <3>1, <1>t DEF Operation
    <3> QED BY <1>2, <3>1, <3>2
  <2>2. CASE ~WriteSome
    <3>1. ~ReadSome /\ ~ReadEof
      BY <1>2, <1>t DEF IoInv, ReadSome, ReadEof
    <3>2. IoFails \/ Interrupt \/ Grow \/ UNCHANGED vars
      BY <2>2, <3>1 DEF Outside, SysCall, Environment, Transfer
    <3>3. outf' = outf /\ io'.data = io.data
      BY <3>2, <1>t DEF IoFails, Interrupt, OnInterrupt, Grow, vars, fileVars, Operation
    <3>4. << >> \in Seq(Cell) /\ outf \o << >> = outf /\ << >> \o io.data = io.data
      BY <1>t
    <3> QED BY <1>2, <3>3, <3>4, <1>t
  <2> QED BY <2>1, <2>2
<1> QED BY <1>1, <1>2

(* The output file has the archive so far, or will have it when what is    *)
(* being written is there.                                                 *)
LEMMA SinkKept ==
  ASSUME IInv, [Next]_vars
  PROVE  SinkInv'
<1> SUFFICES ASSUME req.fn = "compress_file" PROVE SinkInv'
  BY ReqKept DEF SinkInv
<1>m. /\ ToFile /\ Compressing
      /\ \/ OpenIn \/ SizeHint \/ OpenOut \/ DictNone \/ DictSample \/ DictSampled \/ DictFails
         \/ CreateEncoder \/ WriteDict \/ CreateFails \/ Sunk \/ ReadInput \/ InputRead
         \/ EncodeBlock \/ EncodeReturns \/ EncodeFails \/ FinishBlock \/ FinishTrailer
         \/ Return \/ Outside
  BY FileSteps
<1>p. /\ Encoding = {"dictrec", "read", "encode", "finish"}
      /\ Early = {"openin", "size", "openout", "dict", "sampling", "create"}
  BY DEF Early, Opening, Encoding
<1>t. /\ TypeOK /\ CutInv /\ StartInv /\ IoInv /\ PlaceInv
      /\ OK = 0 /\ ErrIO = 48 /\ ErrOOM = 3 /\ outf \in Seq(Cell) /\ io.data \in Seq(Cell)
  <2>1. TypeOK /\ CutInv /\ StartInv /\ IoInv /\ PlaceInv
    BY DEF IInv
  <2>2. outf \in Seq(Cell) /\ io \in Operation
    BY <2>1 DEF TypeOK, FileType
  <2> QED BY <2>1, <2>2 DEF OK, ErrIO, ErrOOM, Operation
<1>s. \A q \in Encoding \cup {"end"} : SoFar(q) \in Seq(UnitT)
  BY <1>t, SoFarFacts
<1>i. /\ ap \in Encoding => outf = Halves(SoFar(ap))
      /\ ap = "reading" => outf = Halves(SoFar("read"))
      /\ ap = "sinking" => outf \o io.data = Halves(SoFar(after))
      /\ ap \in {"end", "done"} /\ st = OK => outf = Halves(SoFar("end"))
  BY DEF IInv, SinkInv
<1>q. SUFFICES ASSUME NEW q \in Encoding \cup {"end"}
               PROVE  /\ /\ \/ ap' = q
                            \/ q = "read" /\ ap' = "reading"
                            \/ q = "end" /\ ap' = "done"
                         /\ q = "end" => st' = OK
                         => outf' = Halves(SoFar(q)')
                      /\ ap' = "sinking" /\ after' = q => outf' \o io'.data = Halves(SoFar(q)')
  <2>1. ASSUME NEW q \in Encoding, ap' = q PROVE outf' = Halves(SoFar(ap)')
    <3>1. outf' = Halves(SoFar(q)')
      BY <1>q, <2>1 DEF Encoding
    <3> QED BY <3>1, <2>1 DEF SoFar
  <2>2. ASSUME ap' = "reading" PROVE outf' = Halves(SoFar("read")')
    BY <1>q, <2>2 DEF Encoding
  <2>3. ASSUME ap' = "sinking" PROVE outf' \o io'.data = Halves(SoFar(after)')
    <3>1. PICK q \in Encoding \cup {"end"} : q = after'
      BY <2>3, <1>m, PlaceKept, ReqKept DEF PlaceInv
    <3>2. outf' \o io'.data = Halves(SoFar(q)')
      BY <1>q, <2>3, <3>1
    <3> QED BY <3>1, <3>2 DEF SoFar
  <2>4. ASSUME ap' \in {"end", "done"}, st' = OK PROVE outf' = Halves(SoFar("end")')
    BY <1>q, <2>4
  <2> QED BY <2>1, <2>2, <2>3, <2>4 DEF SinkInv
<1>1. CASE CreateEncoder \/ WriteDict \/ EncodeBlock \/ FinishBlock \/ FinishTrailer
  <2>1. PICK u \in UnitT, p \in Encoding \cup {"end"} :
           /\ Emit(u, p) /\ outf' = outf
           /\ \/ ap = "create" /\ SoFar(p)' = <<u>>
              \/ ap \in Encoding /\ SoFar(p)' = SoFar(ap) \o <<u>>
    BY <1>1, Emitted
  <2>2. io' = Write(Halves(<<u>>)) /\ ap' = "sinking" /\ after' = p
    BY <2>1, <1>m, EmitFacts
  <2>3. <<u>> \in Seq(UnitT)
    OBVIOUS
  <2>4. Halves(<<u>>) \in Seq(Cell) /\ io'.data = Halves(<<u>>)
    BY <2>2, <2>3, HalvesFacts, StartFacts
  <2>5. outf \o Halves(<<u>>) = Halves(SoFar(p)')
    <3>1. CASE ap = "create" /\ SoFar(p)' = <<u>>
      <4>1. outf = <<>>
        BY <3>1, <1>t, <1>m, <1>p DEF StartInv
      <4> QED BY <4>1, <3>1, <2>4
    <3>2. CASE ap \in Encoding /\ SoFar(p)' = SoFar(ap) \o <<u>>
      <4>1. SoFar(ap) \in Seq(UnitT) /\ outf = Halves(SoFar(ap))
        BY <3>2, <1>s, <1>i
      <4>2. Halves(SoFar(ap)) \o Halves(<<u>>) = Halves(SoFar(ap) \o <<u>>)
        BY <4>1, <2>3, HalvesJoin
      <4> QED BY <4>1, <4>2, <3>2
    <3> QED BY <2>1, <3>1, <3>2
  <2>6. q = p => outf' \o io'.data = Halves(SoFar(q)')
    BY <2>1, <2>4, <2>5
  <2> QED BY <2>2, <2>6, <1>p
<1>2. CASE OpenIn \/ SizeHint \/ OpenOut \/ DictNone \/ DictSample \/ DictSampled \/ DictFails \/ CreateFails
  <2>1. ap' \in Early \/ (ap' = "done" /\ st' # OK)
    BY <1>2, <1>t, <1>p DEF OpenIn, SizeHint, OpenOut, DictNone, DictSample, DictSampled, DictFails,
       CreateFails, Give
  <2> QED BY <2>1, <1>p
<1>3. CASE Sunk
  <2>1. /\ ap = "sinking" /\ Done /\ st' = io.st /\ ap' = (IF io.st = OK THEN after ELSE "end")
        /\ outf' = outf /\ hint' = hint /\ dlen' = dlen /\ fed' = fed /\ nblk' = nblk
    BY <1>3 DEF Sunk, encVars
  <2>2. CASE io.st = OK
    <3>1. after \in Encoding \cup {"end"}
      BY <2>1, <1>t, <1>m DEF PlaceInv
    <3>2. outf = Halves(SoFar(after))
      <4>1. io.data = <<>>
        BY <2>1, <2>2, <1>t DEF IoInv
      <4>2. outf \o <<>> = outf
        BY <1>t
      <4> QED BY <4>1, <4>2, <1>i, <2>1
    <3>3. SoFar(q)' = SoFar(q)
      BY <2>1, SoFarStill
    <3>4. q = after => outf' = Halves(SoFar(q)')
      BY <2>1, <3>2, <3>3
    <3> QED BY <2>1, <2>2, <3>1, <3>4, <1>p
  <2>3. CASE io.st # OK
    BY <2>1, <2>3, <1>p
  <2> QED BY <2>2, <2>3
<1>4. CASE ReadInput \/ EncodeReturns
  <2>1. /\ \/ ap = "read" /\ ap' = "reading"
           \/ ap = "encode" /\ ap' = "read"
        /\ outf' = outf /\ hint' = hint /\ dlen' = dlen /\ fed' = fed /\ nblk' = nblk
    BY <1>4, <1>m DEF ReadInput, EncodeReturns, encVars, fileVars
  <2>2. SoFar("encode") = SoFar("read")
    BY <1>t, SoFarFacts
  <2>3. SoFar("read")' = SoFar("read")
    BY <2>1, SoFarStill
  <2>4. outf' = Halves(SoFar("read")')
    BY <2>1, <2>2, <2>3, <1>i, <1>p
  <2> QED BY <2>1, <2>4, <1>p
<1>5. CASE InputRead
  <2>1. /\ ap = "reading" /\ st' = io.st /\ fed' = (IF io.st = OK THEN fed \o io.data ELSE fed)
        /\ ap' = (IF io.st # OK THEN "end" ELSE IF io.data = <<>> THEN "finish" ELSE "encode")
        /\ outf' = outf /\ hint' = hint /\ dlen' = dlen /\ nblk' = nblk
    BY <1>5 DEF InputRead
  <2>2. CASE io.st = OK
    <3>1. PICK g \in Seq(Int) : g = io.data
      BY <2>1, <1>t DEF IoInv
    <3>2. nblk * BlockSize <= Len(fed)
      BY <2>1, <1>t DEF CutInv
    <3>3. fed' = fed \o g
      BY <2>1, <2>2, <3>1
    <3>4. q \in {"read", "encode", "finish"} => SoFar(q)' = SoFar("read")
      BY <2>1, <3>2, <3>3, <1>t, SoFarGrow
    <3>5. q \in {"read", "encode", "finish"} => outf' = Halves(SoFar(q)')
      BY <3>4, <2>1, <1>i
    <3> QED BY <2>1, <2>2, <3>5, <1>p
  <2>3. CASE io.st # OK
    BY <2>1, <2>3, <1>p
  <2> QED BY <2>2, <2>3
<1>6. CASE EncodeFails
  BY <1>6, <1>p, <1>t DEF EncodeFails
<1>7. CASE Return
  <2>1. /\ ap = "end" /\ ap' = "done" /\ st' = st /\ outf' = outf /\ fed' = fed
        /\ hint' = hint /\ dlen' = dlen /\ nblk' = nblk
    BY <1>7 DEF Return, Give, encVars, fileVars
  <2>2. SoFar("end")' = SoFar("end")
    BY <2>1, SoFarStill
  <2>3. st' = OK => outf' = Halves(SoFar("end")')
    BY <2>1, <2>2, <1>i
  <2> QED BY <2>1, <2>3, <1>p
<1>8. CASE Outside
  <2>1. /\ ap' = ap /\ after' = after /\ st' = st /\ fed' = fed
        /\ hint' = hint /\ dlen' = dlen /\ nblk' = nblk
    BY <1>8 DEF Outside, apiVars
  <2>2. SoFar(q)' = SoFar(q)
    BY <2>1, SoFarStill
  <2>3. ASSUME ap # "sinking" PROVE outf' = outf
    BY <1>8, <2>3, OutsideOut
  <2>4. ASSUME ap = "sinking" PROVE outf' \o io'.data = outf \o io.data
    <3>1. PICK a \in Seq(Cell), b \in Seq(Cell) : outf' = outf \o a /\ io.data = a \o b /\ io'.data = b
      BY <1>8, <2>4, OutsideOut
    <3>2. (outf \o a) \o b = outf \o (a \o b)
      BY <1>t, ConcatAssociative
    <3> QED BY <3>1, <3>2
  <2>5. CASE ap = "sinking"
    <3>1. after = q => outf' \o io'.data = Halves(SoFar(q)')
      BY <2>2, <2>4, <2>5, <1>i
    <3> QED BY <2>1, <2>5, <3>1, <1>p
  <2>6. CASE ap # "sinking"
    <3>1. (ap = q \/ (q = "read" /\ ap = "reading") \/ (q = "end" /\ ap = "done")) /\ (q = "end" => st = OK)
            => outf = Halves(SoFar(q))
      BY <1>i, <1>p
    <3>2. outf' = outf /\ Halves(SoFar(q)') = Halves(SoFar(q))
      BY <2>2, <2>3, <2>6
    <3> QED BY <2>1, <2>6, <3>1, <3>2
  <2> QED BY <2>5, <2>6
<1> QED BY <1>m, <1>1, <1>2, <1>3, <1>4, <1>5, <1>6, <1>7, <1>8

(* The blocks of so many bytes, as xq_compress_bound counts them: none is  *)
(* cut beyond them.                                                        *)
Blocks(size) == IF size = 0 THEN 1 ELSE (size + BlockSize - 1) \div BlockSize

(* The count of xq_compress_bound is not below the blocks that are cut. *)
LEMMA BlocksFacts ==
  ASSUME NEW size \in Nat, NEW n \in Nat
  PROVE  /\ Blocks(size) \in Nat
         /\ n * BlockSize < size => n + 1 <= Blocks(size)
         /\ n * BlockSize < size + BlockSize => n <= Blocks(size)
<1>1. BlockSize \in Nat \ {0} /\ BlockSize - 1 \in Nat /\ n * BlockSize \in Nat
  BY SizeFacts
<1>2. CASE size = 0
  <2>1. Blocks(size) = 1
    BY <1>2 DEF Blocks
  <2>2. ~(n * BlockSize < 0)
    BY <1>1
  <2>3. ASSUME n * BlockSize < BlockSize PROVE n = 0
    <3>1. n >= 1 => 1 * BlockSize <= n * BlockSize
      BY <1>1, MulMono
    <3> QED BY <1>1, <2>3, <3>1
  <2> QED BY <1>1, <1>2, <2>1, <2>2, <2>3
<1>3. CASE size # 0
  <2>1. size + BlockSize - 1 \in Nat
    BY <1>1
  <2>2. PICK q \in Nat : q = (size + BlockSize - 1) \div BlockSize
    BY <1>1, <2>1, DivMod
  <2>3. Blocks(size) = q
    BY <1>3, <2>2 DEF Blocks
  <2>4. PICK r \in 0 .. BlockSize - 1 : size + BlockSize - 1 = BlockSize * q + r
    BY <1>1, <2>1, <2>2, DivMod
  <2>5. PICK z \in Nat : z = q * BlockSize /\ BlockSize * q = z
    BY <1>1
  <2>6. z >= size
    BY <1>1, <2>4, <2>5
  <2>7. ASSUME NEW m \in Nat, m * BlockSize < size PROVE m + 1 <= q
    <3>1. m * BlockSize \in Nat
      BY <1>1
    <3>2. q <= m => z <= m * BlockSize
      BY <1>1, <2>5, MulMono
    <3> QED BY <2>6, <2>7, <3>1, <3>2
  <2>8. ASSUME n * BlockSize < size + BlockSize PROVE n <= q
    <3>1. CASE n = 0
      BY <3>1
    <3>2. CASE n # 0
      <4>1. n - 1 \in Nat /\ (n - 1) * BlockSize = n * BlockSize - BlockSize
        BY <1>1, <3>2
      <4>2. (n - 1) * BlockSize < size
        BY <1>1, <2>8, <4>1
      <4>3. (n - 1) + 1 <= q
        BY <4>1, <4>2, <2>7
      <4> QED BY <4>3
    <3> QED BY <3>1, <3>2
  <2> QED BY <2>3, <2>7, <2>8
<1> QED BY <1>2, <1>3

(* xq_compress_bound leaves room for the header, the dictionary, n blocks  *)
(* and the trailer that goes with them.                                    *)
LEMMA BoundFacts ==
  ASSUME TypeOK, HintInv, req.fn = "compress", NEW n \in Nat, n <= Blocks(req.size)
  PROVE  /\ DictRoom \in Nat /\ CompressBound(req.size, req.dict) \in Nat
         /\ n * (BlkSize + BlockCk) \in Nat /\ (n + 1) * EntrySize \in Nat
         /\ HeadSize + DictRoom + n * (BlkSize + BlockCk) + req.size
            + RecSize + FootSize + RecSize + Preamble + (n + 1) * EntrySize
              <= CompressBound(req.size, req.dict)
<1>1. /\ req.size \in Nat /\ req.dict \in Nat /\ dlen \in Nat /\ BlockCk \in Nat
      /\ RecSize = 14 /\ HeadSize = 32 /\ FootSize = 32 /\ Preamble = 24 /\ EntrySize = 16
      /\ BlkSize = 24 /\ DictHead = 30
  BY ReqFacts, SizeFacts DEF TypeOK, EncType, CallType, RecSize, HeadSize, FootSize, Preamble,
     EntrySize, BlkSize, DictHead
<1>2. PICK k \in Nat : k = Blocks(req.size) /\ n <= k
  BY <1>1, BlocksFacts
<1>3. PICK w : w = DictSizeFor(req.size, req.dict)
  OBVIOUS
<1>4. dlen \in {0, w}
  BY <1>3 DEF HintInv
<1>5. w \in Nat
  <2>1. req.size \div 4 \in Nat
    BY <1>1
  <2>2. Least(req.dict, req.size \div 4) \in Nat
    BY <1>1, <2>1, LeastFacts
  <2> QED BY <2>2, <1>3 DEF DictSizeFor
<1>6. PICK v \in Nat : v = IF w > 0 THEN 14 + 30 + w ELSE 0
  BY <1>5
<1>7. DictRoom \in Nat /\ DictRoom <= v
  BY <1>1, <1>4, <1>5, <1>6 DEF DictRoom
<1>8. PICK c \in Nat : c = BlkSize + BlockCk
  BY <1>1
<1>9. n * c \in Nat /\ k * c \in Nat /\ n * c <= k * c
  BY <1>2, <1>8, MulMono
<1>10. (n + 1) * 16 <= (k + 1) * 16 /\ (n + 1) * 16 \in Nat
  BY <1>2
<1>11. CompressBound(req.size, req.dict) =
         32 + k * c + req.size + 14 + 24 + (k + 1) * 16 + 14 + 32 + v
  BY <1>1, <1>2, <1>3, <1>6, <1>8 DEF CompressBound, Blocks
<1>12. 32 + DictRoom + n * c + req.size + 14 + 32 + 14 + 24 + (n + 1) * 16
         <= CompressBound(req.size, req.dict)
  BY <1>1, <1>2, <1>6, <1>7, <1>9, <1>10, <1>11
<1>13. CompressBound(req.size, req.dict) \in Nat
  BY <1>1, <1>2, <1>6, <1>9, <1>11
<1> QED BY <1>1, <1>7, <1>8, <1>9, <1>10, <1>12, <1>13

(* A unit never takes the memory sink beyond what it has room for by then. *)
LEMMA EmittedRoom ==
  ASSUME IInv, req.fn = "compress",
         CreateEncoder \/ WriteDict \/ EncodeBlock \/ FinishBlock \/ FinishTrailer
  PROVE  \E u \in UnitT, p \in Encoding \cup {"end"} :
           /\ Emit(u, p)
           /\ dlen' = dlen /\ fed' = fed
           /\ \A s \in UnitSizes(u) :
                /\ mlen + s <= CompressBound(req.size, req.dict)
                /\ p = "dictrec" => mlen + s <= HeadSize
                /\ p \in {"read", "encode", "finish"} => mlen + s <= Room(nblk', Len(fed))
<1>p. /\ Encoding = {"dictrec", "read", "encode", "finish"}
      /\ "create" \in Early
  BY DEF Early, Encoding
<1>t. /\ TypeOK /\ CutInv /\ StartInv /\ HintInv /\ RoomInv /\ FedInv /\ Compressing
  BY DEF IInv, Compressing
<1>c. /\ RecSize = 14 /\ HeadSize = 32 /\ FootSize = 32 /\ Preamble = 24 /\ EntrySize = 16
      /\ BlkSize = 24 /\ DictHead = 30
  BY DEF RecSize, HeadSize, FootSize, Preamble, EntrySize, BlkSize, DictHead
<1>n. /\ nblk \in Nat /\ BlockSize \in Nat /\ BlockSize > 0 /\ Len(fed) \in Nat /\ fed \in Seq(Int)
      /\ dlen \in Nat /\ mlen \in Nat /\ req.size \in Nat /\ BlockCk \in Nat
      /\ nblk * BlockSize \in Nat /\ nblk * (BlkSize + BlockCk) \in Nat
  <2>1. /\ nblk \in Nat /\ BlockSize \in Nat /\ BlockSize > 0 /\ Len(fed) \in Nat /\ fed \in Seq(Int)
        /\ dlen \in Nat /\ mlen \in Nat /\ req.size \in Nat /\ BlockCk \in Nat
    BY <1>t, SizeFacts, ReqFacts DEF TypeOK, EncType, CallType
  <2> QED BY <2>1, <1>c
<1>z. /\ DictRoom \in Nat /\ CompressBound(req.size, req.dict) \in Nat
      /\ HeadSize + DictRoom <= CompressBound(req.size, req.dict)
      /\ \A l \in Nat : Room(0, l) = HeadSize + DictRoom
  <2>1. 0 \in Nat /\ 0 <= Blocks(req.size)
    BY SMTT(30), <1>n, BlocksFacts
  <2>2. /\ DictRoom \in Nat /\ CompressBound(req.size, req.dict) \in Nat
        /\ HeadSize + DictRoom + 0 * (BlkSize + BlockCk) + req.size
            + RecSize + FootSize + RecSize + Preamble + (0 + 1) * EntrySize
              <= CompressBound(req.size, req.dict)
    BY <1>t, <2>1, BoundFacts
  <2>3. 0 * (BlkSize + BlockCk) = 0 /\ 0 * BlockSize = 0 /\ (0 + 1) * EntrySize = 16
    BY <1>n, <1>c
  <2>4. CompressBound(req.size, req.dict) >= HeadSize + DictRoom
    <3>1. PICK x \in Nat : x = CompressBound(req.size, req.dict)
      BY <1>t, <2>1, BoundFacts
    <3>2. 32 + DictRoom + 0 + req.size + 14 + 32 + 14 + 24 + 16 <= x
      BY <2>2, <2>3, <3>1, <1>c
    <3> QED BY <3>1, <3>2, <2>2, <1>n, <1>c
  <2>5. \A l \in Nat : Room(0, l) = HeadSize + DictRoom
    BY <2>2, <2>3, <1>c DEF Room, Least
  <2> QED BY <2>2, <2>4, <2>5
<1>1. CASE CreateEncoder
  <2>1. PICK p \in Encoding \cup {"end"} : p = IF dlen > 0 THEN "dictrec" ELSE "read"
    BY <1>p
  <2>2. /\ Emit(HeadUnit, p) /\ ap = "create" /\ dlen' = dlen /\ fed' = fed /\ nblk' = nblk
    BY <1>1, <2>1 DEF CreateEncoder
  <2>3. nblk = 0 /\ mlen = 0
    BY <2>2, <1>t, <1>p DEF StartInv
  <2>4. UnitSizes(HeadUnit) = {HeadSize}
    BY DEF HeadUnit, UnitSizes
  <2>5. Room(nblk', Len(fed)) = HeadSize + DictRoom
    BY <2>2, <2>3, <1>z, <1>n
  <2>6. mlen + HeadSize = HeadSize /\ HeadSize <= CompressBound(req.size, req.dict)
        /\ HeadSize <= Room(nblk', Len(fed))
    <3>1. PICK x \in Nat : x = CompressBound(req.size, req.dict) /\ HeadSize + DictRoom <= x
      BY <1>z
    <3> QED BY <2>3, <2>5, <3>1, <1>z, <1>c
  <2>7. ASSUME NEW s \in UnitSizes(HeadUnit)
        PROVE  mlen + s <= CompressBound(req.size, req.dict) /\ mlen + s <= HeadSize
               /\ mlen + s <= Room(nblk', Len(fed))
    <3>1. s = HeadSize
      BY <2>4, <2>7
    <3> QED BY <3>1, <2>6, <1>c
  <2> QED BY <2>1, <2>2, <2>7, UnitFacts, <1>t
<1>2. CASE WriteDict
  <2>1. /\ Emit(DictUnit, "read") /\ ap = "dictrec" /\ dlen' = dlen /\ fed' = fed /\ nblk' = nblk
    BY <1>2 DEF WriteDict
  <2>2. nblk = 0 /\ dlen > 0 /\ mlen <= HeadSize
    BY <2>1, <1>t DEF CutInv, RoomInv
  <2>3. UnitSizes(DictUnit) = {DictRoom}
    BY <2>2 DEF DictUnit, UnitSizes, DictRoom
  <2>4. Room(nblk', Len(fed)) = HeadSize + DictRoom
    BY <2>1, <2>2, <1>z, <1>n
  <2>5. mlen + DictRoom <= CompressBound(req.size, req.dict) /\ mlen + DictRoom <= Room(nblk', Len(fed))
    <3>1. PICK x \in Nat : x = CompressBound(req.size, req.dict) /\ HeadSize + DictRoom <= x
      BY <1>z
    <3> QED BY <2>2, <2>4, <3>1, <1>z, <1>c, <1>n
  <2> QED BY <2>1, <2>3, <2>5, <1>p, UnitFacts, <1>t
<1>u. HeadUnit \in UnitT /\ DictUnit \in UnitT /\ TailUnit \in UnitT
  BY <1>t, UnitFacts
<1>f. ASSUME ap \in {"encode", "finish"} PROVE Len(fed) = req.size /\ mlen <= Room(nblk, Len(fed))
  <2>1. fed = Bytes(0, req.size) /\ mlen <= Room(nblk, Len(fed))
    BY <1>f, <1>t DEF FedInv, RoomInv
  <2>2. 0 \in Nat
    OBVIOUS
  <2> QED BY <2>1, <2>2, <1>n, BytesFacts
<1>3. ASSUME ap \in {"encode", "finish"}, nblk * BlockSize < Len(fed), nblk' = nblk + 1,
             NEW s \in UnitSizes(BlockUnit(nblk))
      PROVE  /\ mlen + s <= CompressBound(req.size, req.dict)
             /\ mlen + s <= Room(nblk', Len(fed))
  <2>1. /\ BlockUnit(nblk).kind = "block"
        /\ Len(BlockUnit(nblk).data) = Least((nblk + 1) * BlockSize, Len(fed)) - nblk * BlockSize
        /\ Len(BlockUnit(nblk).data) \in 1 .. BlockSize
    BY <1>3, <1>t, <1>n, BlockFacts
  <2>2. PICK m \in Nat : m = Len(BlockUnit(nblk).data) /\ m >= 1
    BY <2>1
  <2>3. PICK c \in Nat : c = BlkSize + BlockCk
    BY <1>n, <1>c
  <2>4. s = c + 1 \/ s = c + m
    BY <1>3, <2>1, <2>2, <2>3 DEF UnitSizes
  <2>5. PICK a \in Nat, b \in Nat : a = nblk * BlockSize /\ b = Least((nblk + 1) * BlockSize, Len(fed))
    <3>1. (nblk + 1) * BlockSize \in Nat
      BY <1>n
    <3> QED BY <3>1, <1>n, LeastFacts
  <2>6. m = b - a /\ b <= Len(fed)
    <3>1. (nblk + 1) * BlockSize \in Nat
      BY <1>n
    <3> QED BY <3>1, <2>1, <2>2, <2>5, <1>n, LeastFacts
  <2>7. PICK d \in Nat, e \in Nat : d = nblk * c /\ e = (nblk + 1) * c /\ e = d + c
    <3>1. nblk * c \in Nat /\ (nblk + 1) * c = nblk * c + c
      BY <1>n
    <3> QED BY <3>1
  <2>8. Room(nblk, Len(fed)) = HeadSize + DictRoom + d + a
    <3>1. Least(a, Len(fed)) = a
      BY <1>3, <2>5 DEF Least
    <3> QED BY <3>1, <2>3, <2>5, <2>7 DEF Room
  <2>9. Room(nblk', Len(fed)) = HeadSize + DictRoom + e + b
    <3>1. (nblk + 1) * (BlkSize + BlockCk) = e /\ Least((nblk + 1) * BlockSize, Len(fed)) = b
      BY <2>3, <2>5, <2>7
    <3> QED BY <3>1, <1>3 DEF Room
  <2>10. mlen + s <= HeadSize + DictRoom + e + b
    <3>1. PICK r \in Nat, l \in Nat : r = HeadSize + DictRoom /\ l = mlen
      BY <1>z, <1>c, <1>n
    <3>2. l <= r + d + a
      BY <3>1, <2>8, <1>3, <1>f
    <3>3. l + s <= r + e + b
      <4>1. e = d + c /\ m = b - a /\ m >= 1 /\ (s = c + 1 \/ s = c + m)
        BY <2>2, <2>4, <2>6, <2>7
      <4> QED BY ONLY <4>1, <3>2, a \in Nat, b \in Nat, c \in Nat, d \in Nat, e \in Nat, m \in Nat,
           l \in Nat, r \in Nat
    <3> QED BY <3>1, <3>3
  <2>11. HeadSize + DictRoom + e + b <= CompressBound(req.size, req.dict)
    <3>0. Len(fed) = req.size
      BY <1>3, <1>f
    <3>1. nblk + 1 <= Blocks(req.size) /\ nblk + 1 \in Nat
      <4>1. nblk * BlockSize < req.size
        BY <3>0, <1>3
      <4>2. PICK k \in Nat, z \in Nat : k = nblk /\ z = req.size
        BY <1>n
      <4>3. k * BlockSize < z => k + 1 <= Blocks(z)
        BY ONLY k \in Nat, z \in Nat, BlocksFacts
      <4> QED BY <4>1, <4>2, <4>3
    <3>2. /\ ((nblk + 1) + 1) * EntrySize \in Nat
          /\ HeadSize + DictRoom + e + req.size
             + RecSize + FootSize + RecSize + Preamble + ((nblk + 1) + 1) * EntrySize
              <= CompressBound(req.size, req.dict)
      BY <3>1, <2>3, <2>7, <1>t, BoundFacts
    <3>3. PICK x \in Nat, y \in Nat : x = CompressBound(req.size, req.dict) /\ y = ((nblk + 1) + 1) * EntrySize
      BY <3>2, <1>z
    <3>4. 32 + DictRoom + e + req.size + 14 + 32 + 14 + 24 + y <= x
      BY <3>2, <3>3, <1>c
    <3>5. b <= req.size
      BY <3>0, <2>6
    <3>6. 32 + DictRoom + e + b <= x
      <4>1. PICK r \in Nat, z \in Nat : r = DictRoom /\ z = req.size
        BY <1>z, <1>n
      <4>2. 32 + r + e + z + 14 + 32 + 14 + 24 + y <= x /\ b <= z
        BY <3>4, <3>5, <4>1
      <4>3. 32 + r + e + b <= x
        BY ONLY <4>2, b \in Nat, e \in Nat, x \in Nat, y \in Nat, r \in Nat, z \in Nat
      <4> QED BY <4>1, <4>3
    <3> QED BY <3>3, <3>6, <1>c
  <2>12. mlen + s \in Int
    BY <2>4, <2>2, <2>3, <1>n
  <2>13. PICK x \in Nat, y \in Nat : x = CompressBound(req.size, req.dict) /\ y = HeadSize + DictRoom + e + b
    BY <1>z, <1>c
  <2>14. mlen + s <= y /\ y <= x
    BY <2>10, <2>11, <2>13
  <2>15. mlen + s <= x
    BY <2>12, <2>13, <2>14
  <2> QED BY <2>9, <2>13, <2>14, <2>15
<1>4. CASE EncodeBlock
  <2>1. /\ Emit(BlockUnit(nblk), "encode") /\ ap = "encode" /\ dlen' = dlen /\ fed' = fed
        /\ nblk' = nblk + 1 /\ (nblk + 1) * BlockSize <= Len(fed)
    BY <1>4 DEF EncodeBlock
  <2>2. nblk * BlockSize < Len(fed)
    <3>1. (nblk + 1) * BlockSize = nblk * BlockSize + BlockSize
      BY <1>n
    <3> QED BY <3>1, <2>1, <1>n
  <2>3. BlockUnit(nblk) \in UnitT
    BY <2>2, <1>t, <1>n, BlockFacts
  <2> QED BY <2>1, <2>2, <2>3, <1>3, <1>p
<1>5. CASE FinishBlock
  <2>1. /\ Emit(BlockUnit(nblk), "finish") /\ ap = "finish" /\ dlen' = dlen /\ fed' = fed
        /\ nblk' = nblk + 1 /\ nblk * BlockSize < Len(fed)
    BY <1>5 DEF FinishBlock
  <2>2. BlockUnit(nblk) \in UnitT
    BY <2>1, <1>t, <1>n, BlockFacts
  <2> QED BY <2>1, <2>2, <1>3, <1>p
<1>6. CASE FinishTrailer
  <2>1. /\ Emit(TailUnit, "end") /\ ap = "finish" /\ dlen' = dlen /\ fed' = fed /\ nblk' = nblk
    BY <1>6 DEF FinishTrailer
  <2>2. PICK y \in Nat : y = (nblk + 1) * EntrySize
    BY <1>n, <1>c
  <2>3. UnitSizes(TailUnit) = {14 + 32 + (IF nblk = 0 THEN 0 ELSE 14 + 24 + y)}
    BY <2>2, <1>c DEF TailUnit, UnitSizes
  <2>4. PICK d \in Nat, a \in Nat : d = nblk * (BlkSize + BlockCk) /\ a = Least(nblk * BlockSize, Len(fed))
    BY <1>n, LeastFacts
  <2>5. a <= req.size /\ mlen <= 32 + DictRoom + d + a
    <3>1. a <= Len(fed)
      BY <2>4, <1>n, LeastFacts
    <3> QED BY <3>1, <2>1, <2>4, <1>f, <1>c DEF Room
  <2>6. nblk <= Blocks(req.size)
    <3>1. nblk * BlockSize < req.size + BlockSize
      BY <2>1, <1>f, <1>t DEF CutInv
    <3> QED BY <3>1, <1>n, BlocksFacts
  <2>7. PICK x \in Nat : x = CompressBound(req.size, req.dict)
    BY <1>z
  <2>8. 32 + DictRoom + d + req.size + 14 + 32 + 14 + 24 + y <= x
    BY <2>2, <2>4, <2>6, <2>7, <1>t, <1>n, <1>c, BoundFacts
  <2>9. ASSUME NEW s \in UnitSizes(TailUnit) PROVE mlen + s <= x
    <3>1. s \in Nat /\ s <= 14 + 32 + 14 + 24 + y
      BY <2>2, <2>3, <2>9
    <3>2. PICK r \in Nat, z \in Nat, l \in Nat : r = DictRoom /\ z = req.size /\ l = mlen
      BY <1>z, <1>n
    <3>3. 32 + r + d + z + 14 + 32 + 14 + 24 + y <= x /\ a <= z /\ l <= 32 + r + d + a
      BY <2>5, <2>8, <3>2
    <3>4. l + s <= x
      BY ONLY <3>1, <3>3, a \in Nat, d \in Nat, l \in Nat, r \in Nat, x \in Nat, y \in Nat, z \in Nat
    <3> QED BY <3>2, <3>4
  <2> QED BY <2>1, <2>7, <2>9, <1>p, <1>u
<1> QED BY <1>1, <1>2, <1>4, <1>5, <1>6

(* A memory sink has received no more than there was to be. *)
LEMMA RoomKept ==
  ASSUME IInv, [Next]_vars
  PROVE  RoomInv'
<1> SUFFICES ASSUME req.fn = "compress" PROVE RoomInv'
  BY ReqKept DEF RoomInv
<1>t. /\ TypeOK /\ CutInv /\ RoomInv /\ FedInv /\ HintInv
      /\ OK = 0 /\ ErrIO = 48 /\ ErrOOM = 3 /\ ErrDstTooSmall = 2
  BY DEF IInv, OK, ErrIO, ErrOOM, ErrDstTooSmall
<1>m. /\ ~ToFile /\ Compressing
      /\ \/ DictNone \/ DictPrefix \/ DictFails \/ CreateEncoder \/ WriteDict \/ CreateFails
         \/ FeedAll \/ EncodeBlock \/ EncodeReturns \/ EncodeFails \/ FinishBlock
         \/ FinishTrailer \/ Return \/ Outside
  BY MemSteps
<1>i. /\ ap = "dictrec" => mlen <= HeadSize
      /\ ap \in {"read", "encode", "finish"} => mlen <= Room(nblk, Len(fed))
  BY <1>t DEF RoomInv
<1>0. ASSUME ap' \notin {"dictrec", "read", "encode", "finish"} PROVE RoomInv'
  BY <1>0 DEF RoomInv
<1>g. ASSUME dlen' = dlen,
             ap' = "dictrec" => mlen' <= HeadSize,
             ap' \in {"read", "encode", "finish"} => mlen' <= Room(nblk', Len(fed'))
      PROVE  RoomInv'
  BY <1>g DEF RoomInv, Room, DictRoom
<1>1. CASE CreateEncoder \/ WriteDict \/ EncodeBlock \/ FinishBlock \/ FinishTrailer
  <2>1. PICK u \in UnitT, p \in Encoding \cup {"end"} :
           /\ Emit(u, p) /\ p \in Encoding \cup {"end"}
           /\ dlen' = dlen /\ fed' = fed
           /\ \A s \in UnitSizes(u) :
                /\ mlen + s <= CompressBound(req.size, req.dict)
                /\ p = "dictrec" => mlen + s <= HeadSize
                /\ p \in {"read", "encode", "finish"} => mlen + s <= Room(nblk', Len(fed))
    BY <1>1, EmittedRoom
  <2>2. \/ ap' = p /\ \E s \in UnitSizes(u) : mlen' = mlen + s
        \/ ap' = "end"
    BY <2>1, <1>m, EmitFacts
  <2>3. CASE ap' = "end"
    BY <2>3, <1>0
  <2>4. CASE ap' = p /\ \E s \in UnitSizes(u) : mlen' = mlen + s
    <3>1. PICK s \in UnitSizes(u) : mlen' = mlen + s
      BY <2>4
    <3>2. /\ ap' = "dictrec" => mlen' <= HeadSize
          /\ ap' \in {"read", "encode", "finish"} => mlen' <= Room(nblk', Len(fed'))
      BY <2>1, <2>4, <3>1, Zenon
    <3> QED BY <2>1, <3>2, <1>g
  <2> QED BY <2>2, <2>3, <2>4
<1>2. CASE DictNone \/ DictPrefix \/ DictFails \/ CreateFails \/ EncodeFails \/ Return
  <2>1. ap' \in {"create", "done", "end"}
    BY <1>2 DEF DictNone, DictPrefix, DictFails, CreateFails, EncodeFails, Return, Give
  <2> QED BY <2>1, <1>0
<1>3. CASE FeedAll
  <2>1. /\ ap = "read" /\ ap' = "encode" /\ mlen' = mlen /\ dlen' = dlen /\ nblk' = nblk
        /\ fed' = Bytes(0, req.size)
    BY <1>3 DEF FeedAll
  <2>2. fed = <<>> /\ nblk * BlockSize <= Len(fed)
    BY <2>1, <1>t DEF FedInv, CutInv
  <2>3. nblk * BlockSize \in Nat
    BY <1>t, SizeFacts DEF TypeOK, EncType
  <2>4. nblk * BlockSize = 0
    BY <2>2, <2>3
  <2>5. Len(fed') \in Nat
    <3>1. req.size \in Nat /\ 0 \in Nat
      BY <1>t, ReqFacts DEF TypeOK, CallType
    <3> QED BY <3>1, <2>1, BytesFacts
  <2>6. Least(nblk * BlockSize, Len(fed)) = 0 /\ Least(nblk * BlockSize, Len(fed')) = 0
    BY <2>2, <2>4, <2>5 DEF Least
  <2>7. Room(nblk, Len(fed)) = Room(nblk', Len(fed'))
    BY <2>1, <2>6 DEF Room
  <2> QED BY <2>1, <2>7, <1>i, <1>g
<1>4. CASE EncodeReturns
  <2>1. /\ ap = "encode" /\ ap' = "finish" /\ mlen' = mlen /\ dlen' = dlen /\ nblk' = nblk /\ fed' = fed
    BY <1>4, <1>m DEF EncodeReturns, encVars
  <2> QED BY <2>1, <1>i, <1>g
<1>5. CASE Outside
  <2>1. ap' = ap /\ mlen' = mlen /\ dlen' = dlen /\ nblk' = nblk /\ fed' = fed
    BY <1>5 DEF Outside, apiVars
  <2> QED BY <2>1, <1>i, <1>g
<1> QED BY <1>m, <1>1, <1>2, <1>3, <1>4, <1>5

(* A buffer of xq_compress_bound bytes is never found too small. *)
LEMMA BoundKept ==
  ASSUME IInv, [Next]_vars
  PROVE  BoundSuffices'
<1> SUFFICES ASSUME req.fn = "compress", req.cap >= CompressBound(req.size, req.dict)
             PROVE  st' # ErrDstTooSmall
  <2>1. req' = req
    BY ReqKept
  <2>2. CompressBound(req.size, req.dict)' = CompressBound(req.size, req.dict)
    BY <2>1 DEF CompressBound, DictSizeFor, Least, HeadSize
  <2> QED BY <2>1, <2>2 DEF BoundSuffices, ErrDstTooSmall
<1>t. /\ TypeOK /\ HintInv
      /\ OK = 0 /\ ErrIO = 48 /\ ErrOOM = 3 /\ ErrDstTooSmall = 2
  BY DEF IInv, OK, ErrIO, ErrOOM, ErrDstTooSmall
<1>s. st # ErrDstTooSmall
  BY DEF IInv, BoundSuffices
<1>m. /\ ~ToFile /\ Compressing
      /\ \/ DictNone \/ DictPrefix \/ DictFails \/ CreateEncoder \/ WriteDict \/ CreateFails
         \/ FeedAll \/ EncodeBlock \/ EncodeReturns \/ EncodeFails \/ FinishBlock
         \/ FinishTrailer \/ Return \/ Outside
  BY MemSteps
<1>1. CASE CreateEncoder \/ WriteDict \/ EncodeBlock \/ FinishBlock \/ FinishTrailer
  <2>1. PICK u \in UnitT, p \in Encoding \cup {"end"} : Emit(u, p) /\ \A s \in UnitSizes(u) : mlen + s <= CompressBound(req.size, req.dict)
    BY <1>1, EmittedRoom
  <2>2. \/ st' = st
        \/ \E s \in UnitSizes(u) : ~(mlen + s <= req.cap)
    BY <2>1, <1>m, EmitFacts
  <2>3. ASSUME NEW s \in UnitSizes(u) PROVE mlen + s <= req.cap
    <3>1. s \in Nat /\ mlen \in Nat /\ req.cap \in Nat
      BY <1>t, SizesFacts, ReqFacts DEF TypeOK, EncType, CallType
    <3>2. CompressBound(req.size, req.dict) \in Nat
      <4>1. 0 \in Nat /\ req.size \in Nat
        BY <1>t, ReqFacts DEF TypeOK, CallType
      <4>2. 0 <= Blocks(req.size)
        BY <4>1, BlocksFacts
      <4> QED BY <4>1, <4>2, <1>t, BoundFacts
    <3> QED BY <3>1, <3>2, <2>1
  <2> QED BY <2>2, <2>3, <1>s
<1>2. CASE DictNone \/ DictPrefix \/ DictFails \/ CreateFails \/ FeedAll \/ EncodeReturns \/ EncodeFails
           \/ Return \/ Outside
  <2>1. st' = st \/ st' \in {ErrIO, ErrOOM}
    BY <1>2 DEF DictNone, DictPrefix, DictFails, CreateFails, FeedAll, EncodeReturns, EncodeFails,
       Return, Outside, Give, apiVars
  <2> QED BY <2>1, <1>s, <1>t
<1> QED BY <1>m, <1>1, <1>2

(* What comes first of a run of bytes is a run of bytes. *)
LEMMA BytesPrefix ==
  ASSUME NEW n \in Nat, NEW x \in Seq(Cell), NEW y \in Seq(Cell), x \o y = Bytes(0, n)
  PROVE  Len(x) <= n /\ x = Bytes(0, Len(x))
<1>1. PICK m \in Nat, k \in Nat : m = Len(x) /\ k = Len(y)
  OBVIOUS
<1>2. PICK z : z = x \o y
  OBVIOUS
<1>3. /\ z \in Seq(Cell) /\ Len(z) = m + k
      /\ \A i \in 1 .. m + k : z[i] = IF i <= m THEN x[i] ELSE y[i - m]
  BY <1>1, <1>2, ConcatProperties
<1>4. Len(z) = n /\ \A i \in 1 .. n : z[i] = 0 + i - 1
  <2>1. 0 \in Nat
    OBVIOUS
  <2>2. Len(Bytes(0, n)) = n /\ \A i \in 1 .. n : Bytes(0, n)[i] = 0 + i - 1
    BY <2>1, BytesFacts
  <2> QED BY <2>2, <1>2
<1>5. m <= n
  BY <1>1, <1>3, <1>4
<1>6. PICK b : b = Bytes(0, m)
  OBVIOUS
<1>7. b \in Seq(Cell) /\ Len(b) = m /\ \A i \in 1 .. m : b[i] = 0 + i - 1
  <2>1. 0 \in Nat
    OBVIOUS
  <2> QED BY <2>1, <1>1, <1>6, BytesFacts
<1>8. \A i \in 1 .. m : x[i] = b[i]
  <2> TAKE i \in 1 .. m
  <2>1. i \in 1 .. m + k /\ i \in 1 .. n /\ i <= m
    BY <1>1, <1>5
  <2>2. z[i] = x[i] /\ z[i] = 0 + i - 1 /\ b[i] = 0 + i - 1
    BY <2>1, <1>3, <1>4, <1>7
  <2> QED BY <2>2
<1>9. x = b
  <2>1. Len(x) = Len(b) /\ \A i \in 1 .. Len(x) : x[i] = b[i]
    BY <1>1, <1>7, <1>8
  <2> QED BY ONLY <2>1, <1>7, x \in Seq(Cell), SeqEqual
<1> QED BY <1>1, <1>5, <1>6, <1>9

(* What the decoder has returned so far is in the buffer, or in the file   *)
(* and on its way there.                                                   *)
LEMMA DecKept ==
  ASSUME IInv, [Next]_vars
  PROVE  DecInv'
<1> SUFFICES ASSUME ~Compressing PROVE DecInv'
  BY ReqKept DEF DecInv
<1>p. /\ Early = {"openin", "size", "openout", "dict", "sampling", "create"}
      /\ Opening = {"openin", "size", "openout"}
      /\ OK = 0 /\ ErrIO = 48 /\ ErrOOM = 3 /\ ErrDstTooSmall = 2 /\ ErrCorruptBlock = 34
  BY DEF Early, Opening, OK, ErrIO, ErrOOM, ErrDstTooSmall, ErrCorruptBlock
<1>t. TypeOK /\ IoInv /\ PlaceInv /\ req' = req /\ ToFile' = ToFile
  BY ReqKept DEF IInv
<1>n. /\ dpos \in Nat /\ dst \in Seq(Int) /\ outf \in Seq(Cell) /\ Len(outf) \in Nat
      /\ req.cap \in Nat /\ req.arch.len \in Nat /\ told \in BOOLEAN /\ req \in Calls
      /\ IoBuf \in Nat /\ IoBuf > 0 /\ io.data \in Seq(Cell) /\ 0 \in Nat
  <2>1. /\ dpos \in Nat /\ dst \in Seq(Int) /\ outf \in Seq(Cell)
        /\ told \in BOOLEAN /\ req \in Calls /\ io \in Operation
    BY <1>t DEF TypeOK, FileType, DecType, CallType
  <2>2. req.cap \in Nat /\ req.arch.len \in Nat
    BY <2>1, ReqFacts
  <2>3. io.data \in Seq(Cell)
    BY <2>1 DEF Operation
  <2> QED BY <2>1, <2>2, <2>3, SizeFacts
<1>i. /\ dpos <= req.arch.len
      /\ outf = Bytes(0, Len(outf))
      /\ ~ToFile => dst = Bytes(0, dpos) /\ dpos <= req.cap /\ outf = <<>>
      /\ ap \in Early => dpos = 0 /\ outf = <<>>
      /\ ToFile => Len(outf) <= dpos
      /\ ap \in {"pull", "check"} /\ ToFile => Len(outf) = dpos
      /\ ap = "sinking" => outf \o io.data = Bytes(0, dpos)
      /\ ap \in {"check"} \/ (ap \in {"end", "done"} /\ st = OK) =>
           req.arch.end = OK /\ dpos = req.arch.len /\ (ToFile => Len(outf) = dpos)
      /\ ~ToFile /\ ap \in {"end", "done"} /\ st = ErrDstTooSmall =>
           (dpos = req.cap /\ req.cap < req.arch.len) \/ req.arch.end = ErrDstTooSmall
      /\ told => ap \in {"end", "done"}
      /\ told /\ st = OK => req.arch.footer # "wrong"
  BY DEF IInv, DecInv
<1>g. ASSUME /\ dpos' <= req.arch.len /\ outf' = Bytes(0, Len(outf'))
             /\ ~ToFile => dst' = Bytes(0, dpos') /\ dpos' <= req.cap /\ outf' = <<>>
             /\ ap' \in Early => dpos' = 0 /\ outf' = <<>>
             /\ ToFile => Len(outf') <= dpos',
             /\ ap' \in {"pull", "check"} /\ ToFile => Len(outf') = dpos'
             /\ ap' = "sinking" => outf' \o io'.data = Bytes(0, dpos'),
             ap' \in {"check"} \/ (ap' \in {"end", "done"} /\ st' = OK) =>
               req.arch.end = OK /\ dpos' = req.arch.len /\ (ToFile => Len(outf') = dpos'),
             ~ToFile /\ ap' \in {"end", "done"} /\ st' = ErrDstTooSmall =>
               (dpos' = req.cap /\ req.cap < req.arch.len) \/ req.arch.end = ErrDstTooSmall,
             told' => ap' \in {"end", "done"} /\ (st' = OK => req.arch.footer # "wrong")
      PROVE  DecInv'
  BY <1>g, <1>t DEF DecInv, Bytes
<1>1. CASE OpenIn \/ OpenOut \/ CreateFails \/ CreateDecoder
  <2>1. /\ ap \in Early /\ UNCHANGED <<outf, dpos, dst, told>>
        /\ ap' \in Early \/ ap' = "pull" \/ (ap' = "done" /\ st' \in {ErrIO, ErrOOM})
    BY <1>1, <1>p DEF OpenIn, OpenOut, CreateFails, CreateDecoder, Give, fileVars, decVars
  <2>2. dpos = 0 /\ outf = <<>> /\ Len(outf) = 0 /\ ~told
    BY <2>1, <1>i, <1>p
  <2> QED BY <2>1, <2>2, <1>i, <1>p, <1>g
<1>2. CASE Sunk
  <2>1. /\ ap = "sinking" /\ Done /\ st' = io.st /\ ap' = (IF io.st = OK THEN after ELSE "end")
        /\ UNCHANGED <<outf, dpos, dst, told>>
    BY <1>2 DEF Sunk, decVars
  <2>2. ToFile /\ after = "pull" /\ ~told
    BY <2>1, <1>t, <1>i DEF PlaceInv
  <2>3. ASSUME io.st = OK PROVE Len(outf) = dpos
    <3>1. io.data = <<>>
      BY <2>1, <2>3, <1>t DEF IoInv
    <3>2. outf \o <<>> = outf
      BY <1>n
    <3>3. outf = Bytes(0, dpos)
      BY <3>1, <3>2, <2>1, <1>i
    <3> QED BY <3>3, <1>n, BytesFacts
  <2>4. CASE io.st = OK
    BY <2>1, <2>2, <2>3, <2>4, <1>i, <1>p, <1>g
  <2>5. CASE io.st # OK
    BY <2>1, <2>2, <2>5, <1>i, <1>p, <1>g
  <2> QED BY <2>4, <2>5
<1>3. CASE PullMem
  <2>1. ap = "pull" /\ ~ToFile /\ UNCHANGED <<outf, told>>
    BY <1>3 DEF PullMem, fileVars
  <2>2. dst = Bytes(0, dpos) /\ Len(dst) = dpos /\ ~told
    BY <2>1, <1>i, <1>n, BytesFacts
  <2>3. PICK g \in Nat :
           /\ dst' = dst \o Bytes(dpos, g) /\ dpos' = dpos + g /\ st' \in Nat
           /\ dpos + g <= req.arch.len /\ dpos + g <= req.cap
           /\ ap' = IF g = 0 THEN "end" ELSE "pull"
           /\ g > 0 => st' = OK
           /\ g = 0 /\ st' = OK => req.arch.end = OK /\ dpos = req.arch.len
           /\ st' # OK => \/ st' = ErrDstTooSmall /\ dpos = req.cap /\ req.cap < req.arch.len
                          \/ st' = req.arch.end
    BY <1>3, <1>t, <1>i, <2>1, <2>2, PullMemFacts
  <2>4. dst' = Bytes(0, dpos')
    <3>1. PICK d \in Nat : d = dpos
      BY <1>n
    <3>2. Bytes(0, d) \o Bytes(0 + d, g) = Bytes(0, d + g)
      BY ONLY 0 \in Nat, d \in Nat, g \in Nat, BytesJoin
    <3>3. 0 + d = d
      OBVIOUS
    <3> QED BY <3>1, <3>2, <3>3, <2>2, <2>3
  <2>5. outf' = <<>> /\ outf' = Bytes(0, Len(outf'))
    BY <2>1, <1>i
  <2>6. ap' \in {"end", "pull"} /\ (ap' = "end" => g = 0 /\ dpos' = dpos)
    BY <2>3, <1>n
  <2>7. /\ dpos' <= req.arch.len /\ outf' = Bytes(0, Len(outf'))
        /\ dst' = Bytes(0, dpos') /\ dpos' <= req.cap /\ outf' = <<>>
    BY <2>3, <2>4, <2>5
  <2>8. ap' = "end" /\ st' = OK => req.arch.end = OK /\ dpos' = req.arch.len
    BY <2>3, <2>6
  <2>9. ap' = "end" /\ st' = ErrDstTooSmall =>
          (dpos' = req.cap /\ req.cap < req.arch.len) \/ req.arch.end = ErrDstTooSmall
    BY <2>3, <2>6, <1>p
  <2> QED BY <2>1, <2>2, <2>6, <2>7, <2>8, <2>9, <1>p, <1>g
<1>4. CASE PullFile
  <2>1. PICK r : r = DecoderRead(IoBuf)
    OBVIOUS
  <2>2. /\ ap = "pull" /\ ToFile /\ st' = r.st /\ dpos' = dpos + r.got /\ UNCHANGED <<outf, dst, told>>
        /\ IF r.got > 0
           THEN io' = Write(Bytes(dpos, r.got)) /\ ap' = "sinking"
           ELSE ap' = IF r.st = OK THEN "check" ELSE "end"
    BY <1>4, <2>1 DEF PullFile
  <2>3. /\ r.got \in Nat /\ dpos + r.got <= req.arch.len
        /\ r.got = 0 /\ r.st = OK => req.arch.end = OK /\ dpos = req.arch.len
    BY <2>1, <1>t, <1>i, <1>n, DecoderFacts
  <2>4. Len(outf) = dpos /\ outf = Bytes(0, dpos) /\ ~told
    BY <2>2, <1>i
  <2>5. CASE r.got > 0
    <3>1. Bytes(dpos, r.got) \in Seq(Cell)
      BY <2>3, <1>n, BytesFacts
    <3>2. io'.data = Bytes(dpos, r.got)
      BY <2>2, <2>5, <3>1, StartFacts
    <3>3. outf' \o io'.data = Bytes(0, dpos')
      <4>1. PICK d \in Nat, g \in Nat : d = dpos /\ g = r.got
        BY <1>n, <2>3
      <4>2. Bytes(0, d) \o Bytes(0 + d, g) = Bytes(0, d + g)
        BY ONLY 0 \in Nat, d \in Nat, g \in Nat, BytesJoin
      <4>3. 0 + d = d
        OBVIOUS
      <4> QED BY <4>1, <4>2, <4>3, <2>2, <2>4, <3>2
    <3>4. Len(outf') <= dpos' /\ outf' = Bytes(0, Len(outf')) /\ dpos' <= req.arch.len
      BY <2>2, <2>3, <2>4, <1>n
    <3> QED BY <2>2, <2>4, <2>5, <3>3, <3>4, <1>p, <1>g
  <2>6. CASE ~(r.got > 0)
    <3>1. dpos' = dpos /\ r.got = 0
      BY <2>2, <2>3, <2>6, <1>n
    <3>2. Len(outf') = dpos' /\ outf' = Bytes(0, Len(outf')) /\ dpos' <= req.arch.len /\ ~told'
      BY <2>2, <2>4, <3>1, <1>i
    <3>3. ap' = (IF r.st = OK THEN "check" ELSE "end") /\ st' = r.st
      BY <2>2, <2>6
    <3>4. ap' \in {"check"} \/ (ap' \in {"end", "done"} /\ st' = OK) =>
            req.arch.end = OK /\ dpos' = req.arch.len
      BY <3>1, <3>3, <2>3
    <3>5. Len(outf') <= dpos'
      BY <3>2, <3>1, <1>n
    <3> QED BY <2>2, <3>2, <3>3, <3>4, <3>5, <1>p, <1>g
  <2> QED BY <2>5, <2>6
<1>5. CASE PullFails
  <2>1. ap = "pull" /\ ap' = "end" /\ st' \in {ErrOOM, ErrIO} /\ UNCHANGED <<outf, dpos, dst, told>>
    BY <1>5 DEF PullFails, fileVars, decVars
  <2>2. ~told
    BY <2>1, <1>i
  <2> QED BY <2>1, <2>2, <1>i, <1>p, <1>g
<1>6. CASE FooterCheck
  <2>1. /\ ap = "check" /\ ap' = "end" /\ UNCHANGED <<outf, dpos, dst>>
        /\ st' = IF told' /\ req.arch.footer = "wrong" THEN ErrCorruptBlock ELSE st
    BY <1>6 DEF FooterCheck, fileVars
  <2>2. ToFile /\ st = OK
    BY <2>1, <1>t DEF PlaceInv
  <2> QED BY <2>1, <2>2, <1>i, <1>p, <1>g
<1>7. CASE Return
  <2>1. ap = "end" /\ ap' = "done" /\ st' = st /\ UNCHANGED <<outf, dpos, dst, told>>
    BY <1>7 DEF Return, Give, fileVars, decVars
  <2> QED BY <2>1, <1>i, <1>p, <1>g
<1>8. CASE Outside
  <2>1. ap' = ap /\ st' = st /\ UNCHANGED <<dpos, dst, told>>
    BY <1>8 DEF Outside, apiVars
  <2>2. CASE ap # "sinking"
    <3>1. outf' = outf
      BY <1>8, <2>2, OutsideOut
    <3> QED BY <2>1, <2>2, <3>1, <1>i, <1>g
  <2>3. CASE ap = "sinking"
    <3>1. PICK a \in Seq(Cell), b \in Seq(Cell) : outf' = outf \o a /\ io.data = a \o b /\ io'.data = b
      BY <1>8, <2>3, OutsideOut
    <3>2. outf' \o io'.data = Bytes(0, dpos)
      <4>1. outf \o (a \o b) = (outf \o a) \o b
        BY SMTT(30), <1>n, ConcatAssociative
      <4> QED BY <3>1, <4>1, <2>3, <1>i
    <3>3. outf' \in Seq(Cell) /\ io'.data \in Seq(Cell)
      BY <3>1, <1>n
    <3>4. Len(outf') <= dpos /\ outf' = Bytes(0, Len(outf'))
      BY <3>2, <3>3, <1>n, BytesPrefix
    <3>5. ToFile /\ ~told
      BY <2>3, <1>t, <1>i DEF PlaceInv
    <3> QED BY <2>1, <2>3, <3>2, <3>4, <3>5, <1>i, <1>p, <1>g
  <2> QED BY <2>2, <2>3
<1> QED BY <1>1, <1>2, <1>3, <1>4, <1>5, <1>6, <1>7, <1>8, DecSteps

-----------------------------------------------------------------------------
(* The whole invariant *)

(* The invariant holds when the call is made, *)
LEMMA InitHolds ==
  ASSUME Init
  PROVE  IInv
<1>1. /\ req \in Calls /\ st = OK /\ live = {} /\ after = "none" /\ OK = 0 /\ Unknown = -1
      /\ ap = (IF ToFile THEN "openin" ELSE IF Compressing THEN "dict" ELSE "create")
      /\ hint = (IF req.fn = "compress" THEN req.size ELSE Unknown)
      /\ dlen = 0 /\ fed = <<>> /\ nblk = 0 /\ units = <<>> /\ mlen = 0
      /\ dpos = 0 /\ dst = <<>> /\ outLen = Unknown /\ told = FALSE
      /\ in = [len |-> req.size, pos |-> req.start, grown |-> 0]
      /\ outf = <<>> /\ io = NoOp
  BY DEF Init, FileInit, OK, Unknown
<1>2. /\ req.fn \in {"compress", "decompress", "compress_file", "decompress_file"}
      /\ req.size \in Nat /\ req.start \in Nat /\ req.cap \in Nat /\ req.arch.len \in Nat
      /\ ToFile <=> req.fn \in {"compress_file", "decompress_file"}
      /\ Compressing <=> req.fn \in {"compress", "compress_file"}
      /\ BlockSize \in Nat /\ BlockSize > 0 /\ 0 * BlockSize = 0
  BY <1>1, ReqFacts, SizeFacts
<1>3. /\ NoOp \in Operation /\ NoOp.data = <<>> /\ NoOp.st = OK /\ NoOp.op = "none"
      /\ << >> \in Seq(Cell) /\ << >> \in Seq(UnitT) /\ << >> \in Seq(Int) /\ Len(<< >>) = 0
      /\ \A p \in Nat : Bytes(p, 0) = <<>>
  BY StartFacts, NoBytes
<1>4. /\ Early = {"openin", "size", "openout", "dict", "sampling", "create"}
      /\ Opening = {"openin", "size", "openout"}
      /\ Encoding = {"dictrec", "read", "encode", "finish"}
      /\ ap \in {"openin", "dict", "create"}
  BY <1>1 DEF Early, Opening, Encoding
<1>5. TypeOK
  <2>1. FileType
    BY <1>1, <1>2, <1>3 DEF FileType
  <2>2. EncType /\ DecType
    BY <1>1, <1>2, <1>3 DEF EncType, DecType
  <2>3. CallType
    BY <1>1, <1>4 DEF CallType, Places
  <2> QED BY <2>1, <2>2, <2>3 DEF TypeOK
<1>6. PlaceInv /\ LiveInv /\ IoInv
  <2>1. PlaceInv
    BY <1>1, <1>2, <1>4 DEF PlaceInv
  <2>2. LiveInv /\ IoInv
    BY <1>1, <1>3, <1>4 DEF LiveInv, IoInv
  <2> QED BY <2>1, <2>2
<1>7. HintInv /\ FedInv /\ CutInv
  <2>1. in.len = req.size + in.grown
    BY <1>1, <1>2
  <2>2. HintInv
    BY <2>1, <1>1, <1>2, <1>4 DEF HintInv
  <2>3. FedInv
    BY <1>1, <1>4 DEF FedInv
  <2>4. CutInv
    BY <1>1, <1>2, <1>3, <1>4 DEF CutInv
  <2> QED BY <2>2, <2>3, <2>4
<1>8. StartInv /\ UnitsInv /\ SinkInv /\ RoomInv
  BY <1>1, <1>4 DEF StartInv, UnitsInv, SinkInv, RoomInv
<1>9. DecInv /\ LenInv
  <2>1. DecInv
    BY <1>1, <1>2, <1>3, <1>4 DEF DecInv
  <2>2. LenInv
    BY <1>1, <1>4 DEF LenInv
  <2> QED BY <2>1, <2>2
<1>10. BoundSuffices
  BY <1>1 DEF BoundSuffices, ErrDstTooSmall
<1>11. ReadInv
  BY <1>1, <1>2, <1>3, <1>4 DEF ReadInv
<1> QED BY <1>5, <1>6, <1>7, <1>8, <1>9, <1>10, <1>11 DEF IInv

(* every step keeps it, *)
LEMMA NextKeeps ==
  ASSUME IInv, [Next]_vars
  PROVE  IInv'
<1>1. ASSUME ~PreadMoves PROVE ReadInv'
  BY <1>1, ReadKept
<1>2. /\ TypeOK' /\ PlaceInv' /\ LiveInv' /\ IoInv' /\ HintInv'
  BY TypesKept, PlaceKept, LiveKept, IoKept, HintKept
<1>3. /\ FedInv' /\ CutInv' /\ StartInv' /\ UnitsInv' /\ SinkInv'
  BY FedKept, CutKept, StartKept, UnitsKept, SinkKept
<1>4. RoomInv' /\ DecInv' /\ LenInv' /\ BoundSuffices'
  BY RoomKept, DecKept, LenKept, BoundKept
<1> QED BY <1>1, <1>2, <1>3, <1>4 DEF IInv

(* so it holds in every state. *)
LEMMA Invariance == Spec => []IInv
<1>1. Init => IInv
  BY InitHolds
<1>2. IInv /\ [Next]_vars => IInv'
  BY NextKeeps
<1> QED BY <1>1, <1>2, PTL DEF Spec

-----------------------------------------------------------------------------
(* What is read off the invariant at the end of a call *)

(* The units of a compression that has come to its end are the archive.    *)
LEMMA WholeArchive ==
  ASSUME TypeOK, nblk * BlockSize < Len(fed) + BlockSize, nblk * BlockSize >= Len(fed)
  PROVE  SoFar("end") = Archive(fed)
<1>1. /\ nblk \in Nat /\ fed \in Seq(Int) /\ Len(fed) \in Nat /\ BlockSize \in Nat \ {0}
  BY SizeFacts DEF TypeOK, EncType
<1>2. (Len(fed) + BlockSize - 1) \div BlockSize = nblk
  <2>1. PICK l \in Nat, x \in Nat, q \in Nat :
          l = Len(fed) /\ x = l + BlockSize - 1 /\ q = x \div BlockSize
    <3>1. Len(fed) + BlockSize - 1 \in Nat
      BY <1>1
    <3> QED BY <3>1, <1>1, DivMod
  <2>2. PICK r \in 0 .. BlockSize - 1 : x = BlockSize * q + r
    BY <2>1, <1>1, DivMod
  <2>3. PICK n \in Nat : n = nblk
    BY <1>1
  <2>4. PICK a \in Nat, b \in Nat : a = n * BlockSize /\ b = q * BlockSize /\ BlockSize * q = b
    BY <1>1
  <2>5. a < l + BlockSize /\ a >= l /\ b + r = l + BlockSize - 1 /\ r >= 0 /\ r <= BlockSize - 1
    BY <2>1, <2>2, <2>3, <2>4, <1>1
  <2>6. ~(n < q)
    <3> SUFFICES ASSUME n < q PROVE FALSE
      OBVIOUS
    <3>1. (n + 1) * BlockSize <= q * BlockSize
      BY <1>1, MulMono
    <3>2. a + BlockSize <= b
      BY <3>1, <2>4, <1>1
    <3> QED BY <3>2, <2>5, <2>1, <2>4, <1>1
  <2>7. ~(q < n)
    <3> SUFFICES ASSUME q < n PROVE FALSE
      OBVIOUS
    <3>1. (q + 1) * BlockSize <= n * BlockSize
      BY <1>1, MulMono
    <3>2. b + BlockSize <= a
      BY <3>1, <2>4, <1>1
    <3> QED BY <3>2, <2>5, <2>1, <2>4, <1>1
  <2> QED BY <2>1, <2>3, <2>6, <2>7
<1>3. CutUpTo(fed, nblk) =
        [i \in 1 .. nblk |-> [kind |-> "block",
           data |-> SubSeq(fed, (i - 1) * BlockSize + 1, Least(i * BlockSize, Len(fed)))]]
  <2>1. \A i \in 1 .. nblk : (i - 1) + 1 = i
    BY <1>1
  <2> QED BY <2>1 DEF CutUpTo, Cut
<1> QED BY <1>2, <1>3 DEF SoFar, Built, Archive, HeadUnit, TailUnit

(* The beginning of a run of bytes. *)
LEMMA BytesPart ==
  ASSUME NEW n \in Nat, NEW m \in Nat, m <= n
  PROVE  SubSeq(Bytes(0, n), 1, m) = Bytes(0, m)
<1>1. PICK a, b : a = Bytes(0, n) /\ b = Bytes(0, m)
  OBVIOUS
<1>2. /\ a \in Seq(Int) /\ Len(a) = n /\ \A i \in 1 .. n : a[i] = 0 + i - 1
      /\ b \in Seq(Int) /\ Len(b) = m /\ \A i \in 1 .. m : b[i] = 0 + i - 1
  <2>1. 0 \in Nat
    OBVIOUS
  <2> QED BY <2>1, <1>1, BytesFacts
<1>3. PICK c : c = SubSeq(a, 0 + 1, 0 + m)
  OBVIOUS
<1>4. c \in Seq(Int) /\ Len(c) = m /\ \A i \in 1 .. m : c[i] = a[0 + i]
  <2>1. 0 + m <= Len(a) /\ 0 \in Nat
    BY <1>2
  <2> QED BY ONLY <2>1, <1>2, <1>3, m \in Nat, Slice
<1>5. \A i \in 1 .. m : c[i] = b[i]
  BY <1>2, <1>4
<1>6. c = b
  <2>1. Len(c) = Len(b) /\ \A i \in 1 .. Len(c) : c[i] = b[i]
    BY <1>2, <1>4, <1>5
  <2> QED BY ONLY <2>1, <1>2, <1>4, SeqEqual
<1>7. 0 + 1 = 1 /\ 0 + m = m
  OBVIOUS
<1> QED BY <1>1, <1>3, <1>6, <1>7

(* No bytes, not even fewer. *)
LEMMA BytesNone ==
  ASSUME NEW p \in Nat, NEW n \in Int, n <= 0
  PROVE  Bytes(p, n) = <<>>
<1>1. 1 .. n = 1 .. 0
  OBVIOUS
<1>2. Bytes(p, n) = Bytes(p, 0)
  BY <1>1 DEF Bytes
<1> QED BY <1>2, NoBytes

(* xq_compress that returned OK has put the whole archive into the buffer. *)
LEMMA CompressedMemory ==
  ASSUME IInv, Finished("compress"), st = OK
  PROVE  units = Archive(Bytes(0, req.size)) /\ outLen = mlen
<1>1. ap = "done" /\ req.fn = "compress" /\ Compressing /\ ~ToFile /\ TypeOK
  BY DEF Finished, Compressing, ToFile, IInv
<1>2. outLen = mlen
  BY <1>1 DEF IInv, LenInv
<1>3. units = SoFar("end") /\ fed = Bytes(0, req.size)
  BY <1>1 DEF IInv, UnitsInv, FedInv
<1>4. nblk * BlockSize < Len(fed) + BlockSize /\ nblk * BlockSize >= Len(fed)
  BY <1>1 DEF IInv, CutInv
<1>5. SoFar("end") = Archive(fed)
  BY <1>1, <1>4, WholeArchive
<1> QED BY <1>2, <1>3, <1>5

(* xq_compress_file that returned OK has put the archive of what it read *)
(* into the file.                                                        *)
LEMMA CompressedFile ==
  ASSUME IInv, ~PreadMoves, Finished("compress_file"), st = OK
  PROVE  \E n \in req.size .. in.len :
           /\ outf = Halves(Archive(Bytes(req.start, n - req.start)))
           /\ hint = Unknown \/ hint = n - req.start \/ in.grown > 0 \/ req.start > 0
<1>1. ap = "done" /\ req.fn = "compress_file" /\ Compressing /\ ToFile /\ TypeOK
  BY DEF Finished, Compressing, ToFile, IInv
<1>2. outf = Halves(SoFar("end"))
  BY <1>1 DEF IInv, SinkInv
<1>3. nblk * BlockSize < Len(fed) + BlockSize /\ nblk * BlockSize >= Len(fed)
  BY <1>1 DEF IInv, CutInv
<1>4. SoFar("end") = Archive(fed)
  BY <1>1, <1>3, WholeArchive
<1>5. /\ fed = Bytes(req.start, Len(fed))
      /\ Len(fed) > 0 => req.start + Len(fed) <= in.len
      /\ req.start + Len(fed) >= req.size
  BY <1>1 DEF IInv, ReadInv
<1>6. /\ req.size \in Nat /\ req.start \in Nat /\ Len(fed) \in Nat
      /\ in.len \in Nat /\ in.grown \in Nat /\ in.len = req.size + in.grown
      /\ hint # Unknown => hint \in req.size .. in.len
  <2>1. HintInv /\ req \in Calls /\ fed \in Seq(Int) /\ in \in [len : Nat, pos : Nat, grown : Nat]
    BY <1>1 DEF IInv, TypeOK, CallType, EncType, FileType
  <2> QED BY <2>1, <1>1, ReqFacts DEF HintInv
<1>7. CASE Len(fed) > 0
  <2>1. PICK n \in Nat : n = req.start + Len(fed)
    BY <1>6
  <2>2. n \in req.size .. in.len /\ n - req.start = Len(fed)
    BY <2>1, <1>5, <1>6, <1>7
  <2>3. outf = Halves(Archive(Bytes(req.start, n - req.start)))
    BY <2>2, <1>2, <1>4, <1>5
  <2>4. hint = Unknown \/ hint = n - req.start \/ in.grown > 0 \/ req.start > 0
    BY <2>2, <1>6
  <2> QED BY <2>2, <2>3, <2>4
<1>8. CASE ~(Len(fed) > 0)
  <2>1. PICK n \in Nat : n = req.size
    BY <1>6
  <2>2. Len(fed) = 0 /\ n \in req.size .. in.len /\ n - req.start \in Int /\ n - req.start <= 0
    BY <2>1, <1>5, <1>6, <1>8
  <2>3. Bytes(req.start, n - req.start) = <<>>
    BY <2>2, <1>6, BytesNone
  <2>4. fed = <<>>
    <3>1. fed \in Seq(Int)
      BY <1>1 DEF TypeOK, EncType
    <3> QED BY <3>1, <2>2
  <2>5. outf = Halves(Archive(Bytes(req.start, n - req.start)))
    BY <2>3, <2>4, <1>2, <1>4
  <2>6. hint = Unknown \/ hint = n - req.start \/ in.grown > 0 \/ req.start > 0
    BY <2>1, <2>2, <1>6
  <2> QED BY <2>2, <2>5, <2>6
<1> QED BY <1>6, <1>7, <1>8

(* A decompression that returned OK has delivered the content and nothing *)
(* else.                                                                  *)
LEMMA Decompressed ==
  ASSUME IInv
  PROVE  DecompressExact
<1> DEFINE whole == Bytes(0, req.arch.len)
<1>1. SUFFICES ASSUME ap = "done", req.fn \in {"decompress", "decompress_file"}
               PROVE  DecompressExact
  BY DEF DecompressExact, Finished
<1>2. ~Compressing /\ TypeOK /\ (ToFile <=> req.fn = "decompress_file")
  BY <1>1 DEF Compressing, ToFile, IInv
<1>3. /\ dpos \in Nat /\ req.arch.len \in Nat /\ Len(outf) \in Nat /\ 0 \in Nat /\ OK = 0 /\ ErrDstTooSmall = 2
  <2>1. dpos \in Nat /\ outf \in Seq(Cell) /\ req \in Calls
    BY <1>2 DEF TypeOK, DecType, FileType, CallType
  <2> QED BY <2>1, ReqFacts DEF OK, ErrDstTooSmall
<1>4. /\ dpos <= req.arch.len
      /\ outf = Bytes(0, Len(outf))
      /\ ~ToFile => dst = Bytes(0, dpos)
      /\ ToFile => Len(outf) <= dpos
      /\ st = OK => req.arch.end = OK /\ dpos = req.arch.len /\ (ToFile => Len(outf) = dpos)
      /\ ~ToFile /\ st = ErrDstTooSmall =>
           (dpos = req.cap /\ req.cap < req.arch.len) \/ req.arch.end = ErrDstTooSmall
      /\ told /\ st = OK => req.arch.footer # "wrong"
  BY <1>1, <1>2 DEF IInv, DecInv
<1>5. outLen = IF st = OK /\ ~ToFile THEN Len(dst) ELSE Unknown
  BY <1>1, <1>2 DEF IInv, LenInv
<1>6. CASE req.fn = "decompress"
  <2>1. Len(dst) = dpos /\ Len(whole) = req.arch.len /\ dst = Bytes(0, dpos)
    BY <1>2, <1>3, <1>4, <1>6, BytesFacts
  <2>2. dst = SubSeq(whole, 1, Len(dst))
    BY <2>1, <1>3, <1>4, BytesPart
  <2>3. st = OK => req.arch.end = OK /\ dst = whole /\ outLen = Len(whole)
    BY <2>1, <1>2, <1>4, <1>5, <1>6
  <2>4. /\ st = ErrDstTooSmall =>
             (req.cap < req.arch.len /\ Len(dst) = req.cap) \/ req.arch.end = ErrDstTooSmall
        /\ st # OK => outLen = Unknown
    BY <2>1, <1>2, <1>4, <1>5, <1>6
  <2> QED BY <2>2, <2>3, <2>4, <1>6 DEF DecompressExact, Finished
<1>7. CASE req.fn = "decompress_file"
  <2>1. outf = SubSeq(whole, 1, Len(outf))
    <3>1. Len(outf) <= req.arch.len
      BY <1>2, <1>3, <1>4, <1>7
    <3> QED BY <3>1, <1>3, <1>4, BytesPart
  <2>2. st = OK => req.arch.end = OK /\ outf = whole /\ (told => req.arch.footer # "wrong")
    BY <1>2, <1>4, <1>7
  <2> QED BY <2>1, <2>2, <1>7 DEF DecompressExact, Finished
<1> QED BY <1>1, <1>6, <1>7

-----------------------------------------------------------------------------
(* The theorems *)

(* The state of a call keeps its form: what is on its way to a file, what  *)
(* the encoder and the decoder have been given and have given.             *)
THEOREM TypeCorrect == Spec => []TypeOK
<1>1. IInv => TypeOK
  BY DEF IInv
<1> QED BY <1>1, Invariance, PTL

(* Every early return of the four functions of xq_api.c releases what was  *)
(* opened and allocated before it.                                         *)
THEOREM ClosesAll == Spec => []HandlesClosed
<1>1. IInv => HandlesClosed
  BY DEF IInv, LiveInv, HandlesClosed
<1> QED BY <1>1, Invariance, PTL

(* xq_compress never runs out of room in a buffer of xq_compress_bound     *)
(* bytes: whatever the codec makes of each block, the dictionary, the      *)
(* block headers and the index fit.                                        *)
THEOREM BoundIsEnough == Spec => []BoundSuffices
<1>1. IInv => BoundSuffices
  BY DEF IInv
<1> QED BY <1>1, Invariance, PTL

(* xq_decompress and xq_decompress_file deliver a prefix of the stream, all *)
(* of it if they report success, and say that the buffer is too small only *)
(* for a longer stream or for what a codec made of a damaged one.          *)
THEOREM DecompressesExactly == Spec => []DecompressExact
<1>1. IInv => DecompressExact
  BY Decompressed
<1> QED BY <1>1, Invariance, PTL

(* xq_compress and xq_compress_file write the archive of all the input,    *)
(* however the system calls split it, provided that reading samples for a  *)
(* dictionary leaves the position of the file alone, as pread does.        *)
THEOREM CompressesExactly == ~PreadMoves => (Spec => []CompressExact)
<1> SUFFICES ASSUME ~PreadMoves PROVE Spec => []CompressExact
  OBVIOUS
<1>1. IInv => CompressExact
  <2> SUFFICES ASSUME IInv PROVE CompressExact
    OBVIOUS
  <2>1. Finished("compress") /\ st = OK => units = Archive(Bytes(0, req.size)) /\ outLen = mlen
    BY CompressedMemory
  <2>2. Finished("compress_file") /\ st = OK =>
          \E n \in req.size .. in.len :
            /\ outf = Halves(Archive(Bytes(req.start, n - req.start)))
            /\ hint = Unknown \/ hint = n - req.start \/ in.grown > 0 \/ req.start > 0
    BY CompressedFile
  <2> QED BY <2>1, <2>2 DEF CompressExact
<1> QED BY <1>1, Invariance, PTL

=============================================================================
