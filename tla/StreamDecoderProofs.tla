------------------------- MODULE StreamDecoderProofs -------------------------
(***************************************************************************)
(* Theorems about StreamDecoder, for every archive, every place at which   *)
(* it is cut, every size of the read buffer and every way in which the     *)
(* source delivers.                                                        *)
(*                                                                         *)
(* The invariant is IInv.  It says where in the archive the decoder is:    *)
(* at the beginning of a unit in front of which all is sound, inside such  *)
(* a unit, or behind a record whose size leads astray, where little can be *)
(* said but that a block is still taken only at its offset.                *)
(***************************************************************************)
EXTENDS StreamDecoder, SequenceTheorems, WellFoundedInduction, TLAPS

-----------------------------------------------------------------------------
(* The first cut, the first block behind a place: a set of naturals has a  *)
(* least element.                                                          *)
LEMMA NatMin ==
  ASSUME NEW S \in SUBSET Nat, S # {}
  PROVE  \E m \in S : \A k \in S : m <= k
<1> DEFINE R == {ss \in Nat \X Nat : ss[1] < ss[2]}
<1>1. IsWellFoundedOn(R, Nat)
  BY NatLessThanWellFounded DEF OpToRel
<1>2. \A k, m \in Nat : k < m => <<k, m>> \in R
  OBVIOUS
<1> HIDE DEF R
<1>3. PICK m \in S : \A k \in S : ~(<<k, m>> \in R)
  BY <1>1, WFMin
<1>4. \A k \in S : ~(k < m)
  BY <1>2, <1>3
<1> QED BY <1>4

(* What is copied out of a buffer: a part of a sequence. *)
LEMMA Slice ==
  ASSUME NEW S, NEW s \in Seq(S), NEW a \in Nat, NEW n \in Nat, a + n <= Len(s)
  PROVE  /\ SubSeq(s, a + 1, a + n) \in Seq(S) /\ Len(SubSeq(s, a + 1, a + n)) = n
         /\ \A i \in 1 .. n : SubSeq(s, a + 1, a + n)[i] = s[a + i]
<1>1. a + 1 \in Int /\ a + n \in Int /\ (\A i \in a + 1 .. a + n : s[i] \in S)
  BY Len(s) \in Nat
<1>2. (a + n) - (a + 1) + 1 = n /\ (\A i \in 1 .. n : (a + 1) + i - 1 = a + i)
  OBVIOUS
<1> QED BY <1>1, <1>2, SubSeqProperties

(* The position of the next byte that is not consumed. *)
Pos == srcpos - Avail

(* A unit's payload is being read or has just been read. *)
Reading == {"payload", "cksum", "decode", "dict"}

(* The places inside next_block. *)
InBlock == {"magic", "record", "block", "skip"} \cup Reading

(* The read buffer holds what the source delivered last. *)
BufInv ==
  /\ Avail <= srcpos
  /\ \A i \in rpos + 1 .. Len(rbuf) : rbuf[i] = Pos + (i - rpos) - 1
  /\ eof => srcpos = cut

(* What read_exact has read is what follows the header of the unit. *)
DstInv ==
  pc \in Exact \cup {"decode"} =>
    /\ Pos = file[cur].at + file[cur].hlen + Len(dst)
    /\ \A i \in 1 .. Len(dst) : dst[i] = file[cur].at + file[cur].hlen + i - 1

(* A status sticks to an idle handle. *)
StickyInv ==
  /\ sticky # OK => pc \in {"idle", "closed"}
  /\ pc \in Creating \cup InBlock => ~saw_eob /\ raw_pos = Len(raw)
  /\ pc \in InBlock => Len(got) < len
  /\ pc \in Creating => len = 0 /\ got = <<>> /\ raw_offset = 0 /\ ~ddict
  /\ pc = "idle" /\ sticky = OK /\ Len(got) < len => saw_eob /\ raw_pos = Len(raw)

(* The header of the current unit has passed the checks, and so much of    *)
(* what follows it is read.                                                *)
UnitInv ==
  /\ pc \in {"payload", "cksum", "decode"} =>
       file[cur].kind = "block" /\ file[cur].hst = OK /\ BlockCheck(cur) = OK
  /\ pc = "dict" => file[cur].kind = "dict" /\ file[cur].hst = OK /\ RecordCheck(cur) = OK
  /\ pc \in {"payload", "dict"} => Len(dst) + remain = file[cur].body
  /\ pc = "cksum" => Len(dst) + remain = file[cur].body + file[cur].ck
  /\ pc = "decode" => Len(dst) = file[cur].body + file[cur].ck

(* What the magic has told. *)
MagicInv ==
  /\ pc = "block" => \A u \in DOMAIN file : file[u].at = Pos => file[u].kind = "block"
  /\ pc = "record" => \A u \in DOMAIN file : file[u].at = Pos => file[u].kind # "block"

(* Behind a record that leads astray. *)
Strayed(m) == Reached(m) /\ Misframed(m)
Lost == \E m \in DOMAIN file : Strayed(m) /\ file[m].at + file[m].hlen <= Pos

(* All is sound in front of unit u, and the decoder knows it. *)
Track(u) == Reached(u) /\ raw_offset = RawBefore(u) /\ (ddict <=> DictBefore(u))

(* Where a unit begins; behind the last, the archive ends. *)
Begin(u) == IF u \in DOMAIN file THEN file[u].at ELSE FileEnd(file)

(* Where the decoder is in the archive. *)
TrackInv ==
  /\ pc = "head" => Pos = 0
  /\ pc \in {"extra", "setup"} => file[1].hst = OK
  /\ pc = "extra" => Pos = HeadLen
  /\ pc = "setup" => Pos = UnitEnd(file[1])
  /\ \/ pc \in {"magic", "record", "block"}
     \/ pc \in {"idle", "read"} /\ sticky = OK /\ ~saw_eob
     => Lost \/ \E u \in 2 .. Len(file) + 1 : Track(u) /\ Pos = Begin(u)
  /\ pc \in Reading => Track(cur) \/ \E m \in 1 .. cur - 1 : Strayed(m)
  /\ pc = "skip" =>
       \/ Lost
       \/ /\ file[cur].kind = "skip" /\ file[cur].hst = OK /\ file[cur].chk = OK
          /\ Track(cur) /\ ~Misframed(cur) /\ Pos + remain = UnitEnd(file[cur])
  /\ pc \in {"idle", "read"} /\ sticky = OK /\ saw_eob =>
       \/ Lost
       \/ file[cur].kind = "eob" /\ Track(cur) /\ Sound(cur)

(* What d->raw holds belongs at the end of the stream so far, and the      *)
(* caller has been given everything in front of raw_pos.                   *)
RawInv ==
  /\ Len(raw) <= raw_offset
  /\ \A k \in 1 .. Len(raw) :
       /\ StreamByte(raw[k])
       /\ file[raw[k][1]].off + raw[k][2] = raw_offset - Len(raw) + k - 1
  /\ sticky = OK => Len(Returned) = raw_offset - Len(raw) + raw_pos

IInv == TypeOK /\ BufInv /\ DstInv /\ StickyInv /\ UnitInv /\ MagicInv /\ TrackInv /\ RawInv
        /\ OutputPrefix /\ BlamesFirstBad

-----------------------------------------------------------------------------
(* The archive *)

(* The shape of an archive, as far as it is needed below. *)
LEMMA FileFacts ==
  ASSUME file \in Files
  PROVE  /\ file \in Seq(Unit) /\ Len(file) \in Nat \ {0} /\ DOMAIN file = 1 .. Len(file)
         /\ IsFile(file)
<1>1. IsFile(file)
  BY FilesAssumption
<1>2. file \in Seq(Unit) /\ Len(file) > 0
  BY <1>1 DEF IsFile
<1> QED BY <1>1, <1>2

(* The fields of a unit. *)
LEMMA UnitFacts ==
  ASSUME file \in Files, NEW u \in DOMAIN file
  PROVE  /\ u \in Nat /\ u >= 1 /\ u <= Len(file)
         /\ file[u].kind \in Kinds
         /\ file[u].at \in Nat /\ file[u].hlen \in Nat /\ file[u].body \in Nat
         /\ file[u].ck \in Nat /\ file[u].raw \in Nat /\ file[u].off \in Nat
         /\ file[u].needs \in BOOLEAN
         /\ file[u].hst \in Statuses /\ file[u].chk \in Statuses /\ file[u].st \in Statuses
         /\ file[u].hlen = HeaderLen(file[u].kind)
         /\ file[u].hlen > 0
         /\ UnitEnd(file[u]) \in Nat /\ UnitEnd(file[u]) >= file[u].at + file[u].hlen
<1>1. file[u] \in Unit /\ u \in 1 .. Len(file)
  BY FileFacts
<1>2. file[u].hlen = HeaderLen(file[u].kind)
  BY <1>1, FileFacts DEF IsFile
<1>3. HeaderLen(file[u].kind) > 0
  BY SizeAssumption DEF HeaderLen
<1>4. /\ file[u].kind \in Kinds
      /\ file[u].at \in Nat /\ file[u].hlen \in Nat /\ file[u].body \in Nat
      /\ file[u].ck \in Nat /\ file[u].raw \in Nat /\ file[u].off \in Nat
      /\ file[u].needs \in BOOLEAN
      /\ file[u].hst \in Statuses /\ file[u].chk \in Statuses /\ file[u].st \in Statuses
  BY <1>1 DEF Unit
<1>5. UnitEnd(file[u]) \in Nat /\ UnitEnd(file[u]) >= file[u].at + file[u].hlen
  BY <1>4 DEF UnitEnd
<1>6. u \in Nat /\ u >= 1 /\ u <= Len(file) /\ file[u].hlen > 0
  BY <1>1, <1>2, <1>3
<1> QED BY <1>2, <1>4, <1>5, <1>6

(* What IsFile says of a unit by its kind. *)
LEMMA KindFacts ==
  ASSUME file \in Files, NEW u \in DOMAIN file
  PROVE  /\ u > 1 => file[u].kind # "head"
         /\ u = 1 => file[u].kind = "head" /\ file[u].at = 0 /\ file[u].body <= RBufSize
         /\ file[u].kind = "block" => file[u].raw > 0 /\ file[u].hlen = BlkLen
         /\ file[u].kind # "block" => file[u].ck = 0
         /\ file[u].kind \notin {"block", "head"} => file[u].hlen = RecLen
         /\ file[u].kind = "eob" => file[u].body = 0
         /\ file[u].kind = "head" => file[u].chk = OK /\ file[u].hlen = HeadLen
         /\ file[u].kind \in {"eob", "skip"} => file[u].st = OK
         /\ u > 1 => file[u].hlen >= MagicLen
<1>1. u \in 1 .. Len(file) /\ IsFile(file) /\ file[u].kind \in Kinds
  BY FileFacts, UnitFacts
<1>2. file[u].hlen = HeaderLen(file[u].kind)
  BY UnitFacts
<1>3. /\ u > 1 => file[u].kind # "head"
      /\ u = 1 => file[u].kind = "head" /\ file[u].at = 0 /\ file[u].body <= RBufSize
      /\ file[u].kind = "block" => file[u].raw > 0
      /\ file[u].kind # "block" => file[u].ck = 0
      /\ file[u].kind = "eob" => file[u].body = 0
      /\ file[u].kind = "head" => file[u].chk = OK
      /\ file[u].kind \in {"eob", "skip"} => file[u].st = OK
  BY <1>1 DEF IsFile
<1> QED BY <1>2, <1>3, SizeAssumption DEF HeaderLen

(* A unit begins behind the headers of all those in front of it. *)
LEMMA Ordered ==
  ASSUME file \in Files, NEW i \in DOMAIN file, NEW j \in DOMAIN file, i < j
  PROVE  file[i].at + file[i].hlen <= file[j].at
<1> DEFINE S == { k \in i + 1 .. Len(file) : ~(file[i].at + file[i].hlen <= file[k].at) }
<1>1. i \in 1 .. Len(file) /\ j \in 1 .. Len(file) /\ Len(file) \in Nat
  BY FileFacts
<1>2. CASE S = {}
  BY <1>1, <1>2
<1>3. CASE S # {}
  <2>1. S \in SUBSET Nat
    BY <1>1
  <2>2. PICK m \in S : \A k \in S : m <= k
    <3> HIDE DEF S
    <3> QED BY <1>3, <2>1, NatMin
  <2>3. m \in Nat /\ i < m /\ m <= Len(file) /\ ~(file[i].at + file[i].hlen <= file[m].at)
    BY <1>1, <2>2
  <2>4. m \in DOMAIN file /\ m - 1 \in DOMAIN file /\ m > 1
    BY <1>1, <2>3, FileFacts
  <2>5. file[m].at >= file[m - 1].at + file[m - 1].hlen
    <3>1. \A k \in 1 .. Len(file) : k > 1 => file[k].at >= file[k - 1].at + file[k - 1].hlen
      BY FileFacts DEF IsFile
    <3> QED BY <3>1, <2>4, FileFacts
  <2>6. /\ file[m].at \in Nat /\ file[m - 1].at \in Nat /\ file[m - 1].hlen \in Nat
        /\ file[i].at \in Nat /\ file[i].hlen \in Nat
    BY <2>4, UnitFacts
  <2>7. CASE m - 1 = i
    BY <2>3, <2>5, <2>6, <2>7
  <2>8. CASE m - 1 # i
    <3>1. m - 1 \in i + 1 .. Len(file) /\ ~(m <= m - 1)
      BY <1>1, <2>3, <2>8
    <3>2. m - 1 \notin S
      BY <3>1, <2>2
    <3>3. file[i].at + file[i].hlen <= file[m - 1].at
      BY <3>1, <3>2
    <3> DEFINE a == file[i].at + file[i].hlen
               b == file[m - 1].at
               c == file[m - 1].hlen
               e == file[m].at
    <3>4. a \in Nat /\ b \in Nat /\ c \in Nat /\ e \in Nat
      BY <2>6
    <3>5. a <= b
      BY <3>3
    <3>6. e >= b + c
      BY <2>5
    <3>7. ~(a <= e)
      BY <2>3
    <3> HIDE DEF a, b, c, e
    <3> QED BY <3>4, <3>5, <3>6, <3>7
  <2> QED BY <2>7, <2>8
<1> QED BY <1>2, <1>3

(* No two units begin at the same place, and none inside the file header. *)
LEMMA Places ==
  ASSUME file \in Files, NEW i \in DOMAIN file, NEW j \in DOMAIN file
  PROVE  /\ file[i].at = file[j].at => i = j
         /\ file[i].at + file[i].hlen <= file[j].at => i < j
<1>1. i \in Nat /\ j \in Nat /\ file[i].at \in Nat /\ file[j].at \in Nat
      /\ file[i].hlen \in Nat /\ file[j].hlen \in Nat /\ file[i].hlen > 0 /\ file[j].hlen > 0
  BY UnitFacts
<1>2. CASE i < j
  BY <1>1, <1>2, Ordered
<1>3. CASE j < i
  <2>1. file[j].at + file[j].hlen <= file[i].at
    BY <1>3, Ordered
  <2> QED BY <1>1, <1>3, <2>1
<1> QED BY <1>1, <1>2, <1>3

(* Only the size of a skipped record can be wrong. *)
LEMMA FramedNext ==
  ASSUME file \in Files, NEW u \in DOMAIN file
  PROVE  /\ file[u].kind # "skip" => ~Misframed(u)
         /\ ~Misframed(u) => Begin(u + 1) = UnitEnd(file[u])
<1>1. u \in 1 .. Len(file) /\ Len(file) \in Nat
  BY FileFacts
<1>2. CASE u < Len(file)
  <2>1. u + 1 \in DOMAIN file
    BY <1>1, <1>2, FileFacts
  <2>2. file[u].kind # "skip" => file[u + 1].at = UnitEnd(file[u])
    <3>1. \A i \in 1 .. Len(file) : i > 1 => (file[i - 1].kind # "skip" => file[i].at = UnitEnd(file[i - 1]))
      BY FileFacts DEF IsFile
    <3>2. u + 1 \in 1 .. Len(file) /\ u + 1 > 1 /\ (u + 1) - 1 = u
      BY <1>1, <1>2
    <3> QED BY <3>1, <3>2
  <2> QED BY <2>1, <2>2, <1>2 DEF Misframed, Begin
<1>3. CASE ~(u < Len(file))
  <2>1. u = Len(file) /\ u + 1 \notin DOMAIN file
    BY <1>1, <1>3, FileFacts
  <2> QED BY <2>1, <1>3 DEF Misframed, Begin, FileEnd
<1> QED BY <1>2, <1>3

(* The blocks and the dictionary in front of the next unit. *)
LEMMA BeforeNext ==
  ASSUME file \in Files, NEW u \in DOMAIN file
  PROVE  /\ RawBefore(u + 1) = IF file[u].kind = "block" THEN file[u].off + file[u].raw ELSE RawBefore(u)
         /\ DictBefore(u + 1) <=> (DictBefore(u) \/ file[u].kind = "dict")
         /\ Reached(u + 1) <=> Reached(u) /\ Sound(u) /\ file[u].kind # "eob"
<1>1. u \in Nat /\ u >= 1 /\ 1 .. (u + 1) - 1 = (1 .. u - 1) \cup {u}
  BY UnitFacts
<1>2. DictBefore(u + 1) <=> (DictBefore(u) \/ file[u].kind = "dict")
  BY <1>1 DEF DictBefore
<1>3. Reached(u + 1) <=> Reached(u) /\ Sound(u) /\ file[u].kind # "eob"
  BY <1>1 DEF Reached
<1>4. CASE file[u].kind # "block"
  <2>1. BlocksBefore(u + 1) = BlocksBefore(u)
    BY <1>1, <1>4 DEF BlocksBefore
  <2>2. RawBefore(u + 1) = RawBefore(u)
    <3> HIDE DEF RawBefore
    <3> DEFINE R(B) == IF B = {} THEN 0
                       ELSE LET v == CHOOSE v \in B : \A w \in B : w <= v IN file[v].off + file[v].raw
    <3>1. RawBefore(u + 1) = R(BlocksBefore(u + 1)) /\ RawBefore(u) = R(BlocksBefore(u))
      BY Zenon DEF RawBefore
    <3> HIDE DEF R
    <3> QED BY <2>1, <3>1
  <2> QED BY <1>2, <1>3, <1>4, <2>2
<1>5. CASE file[u].kind = "block"
  <2> DEFINE B == BlocksBefore(u + 1)
             Last(v) == v \in B /\ \A w \in B : w <= v
  <2>1. u \in B /\ \A w \in B : w \in Nat /\ w <= u
    BY <1>1, <1>5 DEF BlocksBefore
  <2>2. Last(u) /\ \A v \in B : Last(v) => v = u
    BY <1>1, <2>1
  <2>3. (CHOOSE v \in B : \A w \in B : w <= v) = u
    <3> HIDE DEF B
    <3> QED BY <2>2
  <2>4. RawBefore(u + 1) = file[u].off + file[u].raw
    BY <2>1, <2>3 DEF RawBefore
  <2> QED BY <1>2, <1>3, <1>5, <2>4
<1> QED BY <1>4, <1>5

(* A complete unit that passes every check, with the dictionary and the    *)
(* offset that are due, is sound.                                          *)
LEMMA SoundUnit ==
  ASSUME file \in Files, NEW u \in DOMAIN file,
         Complete(u), ~Misframed(u),
         file[u].hst = OK, file[u].chk = OK, file[u].st = OK,
         file[u].kind = "block" =>
           /\ file[u].off = RawBefore(u) /\ ~(file[u].raw > RawCap)
           /\ file[u].needs => DictBefore(u),
         file[u].kind = "dict" => ~DictBefore(u)
  PROVE  Sound(u)
<1> DEFINE V == Verdicts(u)
<1>1. DOMAIN V = 1 .. 7
  BY DEF Verdicts
<1>2. /\ V[1] = OK /\ V[2] = OK /\ V[3] = OK /\ V[4] = OK /\ V[5] = OK /\ V[6] = OK /\ V[7] = OK
  BY DEF Verdicts
<1>3. \A i \in DOMAIN V : V[i] = OK
  BY <1>1, <1>2
<1> QED BY <1>3 DEF Sound

(* What is wrong with a unit is the first check that it fails. *)
LEMMA Blamed ==
  ASSUME NEW u, NEW i \in 1 .. 7, NEW s, s # OK,
         Verdicts(u)[i] = s, \A j \in 1 .. i - 1 : Verdicts(u)[j] = OK
  PROVE  Blames(u, s)
<1>1. DOMAIN Verdicts(u) = 1 .. 7
  BY DEF Verdicts
<1> QED BY <1>1 DEF Blames

(* The archive and the place where it is cut do not change. *)
LEMMA Fixed ==
  ASSUME UNCHANGED <<file, cut>>
  PROVE  /\ \A u : Complete(u)' = Complete(u)
         /\ \A u : Misframed(u)' = Misframed(u)
         /\ \A u : Sound(u)' = Sound(u)
         /\ \A u : Reached(u)' = Reached(u)
         /\ \A u : RawBefore(u)' = RawBefore(u)
         /\ \A u : DictBefore(u)' = DictBefore(u)
         /\ \A u, s : Blames(u, s)' = Blames(u, s)
         /\ \A u : Strayed(u)' = Strayed(u)
         /\ \A u : Begin(u)' = Begin(u)
         /\ \A b : StreamByte(b)' = StreamByte(b)
<1>1. \A u : Complete(u)' = Complete(u) /\ Misframed(u)' = Misframed(u)
  BY DEF Complete, Misframed
<1>2. \A u : BlocksBefore(u)' = BlocksBefore(u)
  BY DEF BlocksBefore
<1>3. \A u : RawBefore(u)' = RawBefore(u)
  <2> TAKE u
  <2> DEFINE B == BlocksBefore(u)
  <2>1. B' = B
    BY <1>2
  <2> HIDE DEF B
  <2>2. (IF B = {} THEN 0
         ELSE LET v == CHOOSE v \in B : \A w \in B : w <= v IN file[v].off + file[v].raw)'
        = IF B = {} THEN 0
          ELSE LET v == CHOOSE v \in B : \A w \in B : w <= v IN file[v].off + file[v].raw
    BY <2>1
  <2> QED BY <2>2 DEF RawBefore, B
<1>4. \A u : DictBefore(u)' = DictBefore(u)
  BY DEF DictBefore
<1>5. \A u : Verdicts(u)' = Verdicts(u)
  BY <1>3, <1>4 DEF Verdicts
<1>6. \A u : Sound(u)' = Sound(u)
  BY <1>1, <1>5 DEF Sound
<1>7. \A u : Reached(u)' = Reached(u)
  BY <1>6 DEF Reached
<1>8. \A u, s : Blames(u, s)' = Blames(u, s)
  BY <1>5 DEF Blames
<1>9. \A u : Strayed(u)' = Strayed(u)
  BY <1>1, <1>7 DEF Strayed
<1>10. \A b : StreamByte(b)' = StreamByte(b)
  BY <1>1, <1>6, <1>7 DEF StreamByte
<1>11. \A u : Begin(u)' = Begin(u)
  BY DEF Begin
<1> QED BY <1>1, <1>3, <1>4, <1>6, <1>7, <1>8, <1>9, <1>10, <1>11

-----------------------------------------------------------------------------
(* Places in the code, statuses, deliveries *)

(* The two parts of the type invariant. *)
BufType ==
  /\ srcpos \in 0 .. cut
  /\ rbuf \in Seq(Positions) /\ rpos \in 0 .. Len(rbuf) /\ eof \in BOOLEAN
  /\ Len(rbuf) <= RBufSize
RestType ==
  /\ file \in Files /\ cut \in 0 .. FileEnd(file)
  /\ dst \in Seq(Positions) /\ remain \in Nat
  /\ cur \in DOMAIN file
  /\ raw \in Seq(Byte) /\ raw_pos \in 0 .. Len(raw) /\ Len(raw) <= RawCap
  /\ raw_offset \in Nat /\ ddict \in BOOLEAN /\ saw_eob \in BOOLEAN
  /\ sticky \in Statuses /\ pc \in Pc
  /\ len \in Nat /\ got \in Seq(Byte) /\ ret \in Int /\ out \in Seq(Byte) /\ calls \in Nat
  /\ Len(got) <= len

(* The types, split into those of the read buffer and the rest. *)
LEMMA Types == /\ TypeOK <=> BufType /\ RestType
               /\ TypeOK' <=> BufType' /\ RestType'
BY DEF TypeOK, BufType, RestType

(* The places of the code. *)
LEMMA PcFacts ==
  /\ DOMAIN Needs = {"head", "extra", "magic", "record", "block"}
  /\ Pc = {"head", "extra", "magic", "record", "block", "payload", "cksum", "dict",
           "setup", "skip", "decode", "read", "idle", "closed"}
  /\ Pc' = Pc
BY DEF Needs, Pc, Exact

(* How much is asked for. *)
LEMMA NeedsFacts ==
  ASSUME file \in Files
  PROVE  /\ Needs["head"] = HeadLen /\ Needs["extra"] = file[1].body
         /\ Needs["magic"] = MagicLen /\ Needs["record"] = RecLen /\ Needs["block"] = BlkLen
         /\ \A p \in DOMAIN Needs : Needs[p] \in Nat /\ Needs[p] <= RBufSize
<1>1. 1 \in DOMAIN file /\ file # <<>>
  BY FileFacts
<1>2. /\ Needs["head"] = HeadLen /\ Needs["extra"] = file[1].body
      /\ Needs["magic"] = MagicLen /\ Needs["record"] = RecLen /\ Needs["block"] = BlkLen
  BY <1>1 DEF Needs
<1>3. file[1].body \in Nat /\ file[1].body <= RBufSize
  BY <1>1, UnitFacts, KindFacts
<1> QED BY <1>2, <1>3, PcFacts, SizeAssumption

(* The status codes, and which of them are errors. *)
LEMMA StatusFacts ==
  /\ OK \in Statuses
  /\ {ErrOOM, ErrMemlimit, ErrUnsupportedFeature, ErrCorruptHeader, ErrCorruptRecord,
      ErrCorruptBlock, ErrTruncated, ErrIO} \subseteq Statuses \ {OK}
  /\ Statuses \subseteq Nat
BY DEF Statuses, OK, ErrOOM, ErrMemlimit, ErrUnsupportedFeature, ErrCorruptHeader,
       ErrCorruptRecord, ErrCorruptBlock, ErrTruncated, ErrIO

(* The source delivers what is next, at most what was asked for, and       *)
(* nothing only at its end.                                                *)
LEMMA DeliveryFacts ==
  ASSUME cut \in Nat, srcpos \in 0 .. cut, NEW n \in Nat, NEW d \in Deliveries(n)
  PROVE  /\ d \in Seq(Positions) /\ Len(d) \in Nat /\ Len(d) <= n /\ srcpos + Len(d) <= cut
         /\ \A i \in 1 .. Len(d) : d[i] = srcpos + i - 1
         /\ d = <<>> => Len(d) = 0 /\ (n = 0 \/ srcpos = cut)
         /\ d # <<>> => Len(d) > 0
<1> DEFINE most == Smaller(n, cut - srcpos)
<1>1. most \in Nat /\ most <= n /\ most <= cut - srcpos /\ (most = 0 => n = 0 \/ srcpos = cut)
  BY DEF Smaller
<1>2. Deliveries(n) = IF most = 0 THEN { <<>> }
                      ELSE { [i \in 1 .. k |-> srcpos + i - 1] : k \in 1 .. most }
  BY DEF Deliveries
<1> HIDE DEF most
<1>3. CASE most = 0
  <2>1. d = <<>>
    BY <1>2, <1>3
  <2> QED BY <1>1, <1>3, <2>1
<1>4. CASE most # 0
  <2>1. PICK k \in 1 .. most : d = [i \in 1 .. k |-> srcpos + i - 1]
    BY <1>2, <1>4
  <2>2. \A i \in 1 .. k : srcpos + i - 1 \in Positions
    BY <1>1, <2>1 DEF Positions
  <2>3. d \in Seq(Positions) /\ Len(d) = k
    BY <1>1, <2>1, <2>2
  <2> QED BY <1>1, <2>1, <2>3
<1> QED BY <1>3, <1>4

-----------------------------------------------------------------------------
(* The read buffer *)

(* The source ends within the file. *)
LEMMA CutFacts ==
  ASSUME TypeOK
  PROVE  /\ cut \in Nat /\ FileEnd(file) \in Nat /\ cut <= FileEnd(file)
         /\ FileEnd(file) = UnitEnd(file[Len(file)]) /\ Len(file) \in DOMAIN file
         /\ file \in Files
<1>1. file \in Files /\ cut \in 0 .. FileEnd(file)
  BY DEF TypeOK
<1>2. Len(file) \in DOMAIN file
  BY <1>1, FileFacts
<1>3. FileEnd(file) \in Nat
  BY <1>1, <1>2, UnitFacts DEF FileEnd
<1> QED BY <1>1, <1>2, <1>3 DEF FileEnd

(* The counts of the read buffer: what is left in it lies within it and *)
(* within the source.                                                   *)
LEMMA BufFacts ==
  ASSUME TypeOK, BufInv
  PROVE  /\ Avail \in Nat /\ Avail <= Len(rbuf) /\ Len(rbuf) <= RBufSize /\ Len(rbuf) = rpos + Avail
         /\ srcpos \in Nat /\ Pos \in Nat /\ srcpos = Pos + Avail /\ srcpos <= cut /\ Pos <= cut
         /\ rpos \in Nat /\ Len(rbuf) \in Nat /\ cut \in Nat /\ RBufSize \in Nat
<1>1. cut \in Nat /\ srcpos \in 0 .. cut /\ Len(rbuf) \in Nat /\ rpos \in 0 .. Len(rbuf)
      /\ Len(rbuf) <= RBufSize /\ RBufSize \in Nat
  BY CutFacts, SizeAssumption DEF TypeOK
<1>2. Avail \in Nat /\ Avail <= Len(rbuf) /\ Avail = Len(rbuf) - rpos /\ Avail <= srcpos
  BY <1>1 DEF Avail, BufInv
<1>3. Pos \in Nat /\ srcpos = Pos + Avail /\ Pos <= cut
  BY <1>1, <1>2 DEF Pos
<1> QED BY <1>1, <1>2, <1>3

(* What is left in the read buffer are the next bytes of the source. *)
LEMMA BufBytes ==
  ASSUME TypeOK, BufInv, NEW i \in 1 .. Avail
  PROVE  /\ rbuf[rpos + i] = Pos + i - 1
         /\ rpos + i \in 1 .. Len(rbuf)
<1>1. /\ Avail \in Nat /\ Pos \in Nat /\ rpos \in Nat /\ Len(rbuf) = rpos + Avail /\ Len(rbuf) \in Nat
      /\ i \in Nat /\ i >= 1 /\ i <= Avail
  BY BufFacts
<1>2. rpos + i \in rpos + 1 .. Len(rbuf) /\ (rpos + i) - rpos = i
  BY <1>1
<1>3. rbuf[rpos + i] = Pos + ((rpos + i) - rpos) - 1
  BY <1>2 DEF BufInv
<1> QED BY <1>1, <1>2, <1>3

(* What was not consumed stays, and in its order, when it is moved. *)
LEMMA BufferedFacts ==
  ASSUME TypeOK, BufInv, NEW n \in 0 .. Avail
  PROVE  /\ Buffered(n) \in Seq(Positions) /\ Len(Buffered(n)) = n
         /\ \A i \in 1 .. n : Buffered(n)[i] = Pos + i - 1
<1>1. /\ n \in Nat /\ n <= Avail /\ rbuf \in Seq(Positions)
      /\ Avail \in Nat /\ rpos \in Nat /\ Len(rbuf) \in Nat /\ Len(rbuf) = rpos + Avail
  BY BufFacts DEF TypeOK
<1>2. /\ SubSeq(rbuf, rpos + 1, rpos + n) \in Seq(Positions)
      /\ Len(SubSeq(rbuf, rpos + 1, rpos + n)) = n
      /\ \A i \in 1 .. n : SubSeq(rbuf, rpos + 1, rpos + n)[i] = rbuf[rpos + i]
  <2>1. rpos + n <= Len(rbuf)
    BY <1>1
  <2> QED BY <1>1, <2>1, Slice
<1>3. \A i \in 1 .. n : i \in 1 .. Avail
  BY <1>1
<1> QED BY <1>2, <1>3, BufBytes DEF Buffered

(* A buffer of what is left and a delivery is a good buffer. *)
LEMMA Refill ==
  ASSUME TypeOK, BufInv, WantsFill, ~eof,
         NEW d \in Deliveries(RBufSize - Avail),
         rbuf' = Buffered(Avail) \o d, eof' = (d = <<>>), srcpos' = srcpos + Len(d), rpos' = 0,
         UNCHANGED <<file, cut>>
  PROVE  BufType' /\ BufInv' /\ Pos' = Pos
<1>0. /\ Avail \in Nat /\ Avail <= RBufSize /\ RBufSize \in Nat /\ cut \in Nat
      /\ srcpos \in Nat /\ Pos \in Nat /\ srcpos = Pos + Avail /\ srcpos <= cut
  BY BufFacts
<1>1. RBufSize - Avail \in Nat /\ srcpos \in 0 .. cut
  BY <1>0
<1>2. /\ d \in Seq(Positions) /\ Len(d) \in Nat /\ Len(d) <= RBufSize - Avail /\ srcpos + Len(d) <= cut
      /\ \A i \in 1 .. Len(d) : d[i] = srcpos + i - 1
      /\ d = <<>> => Len(d) = 0 /\ (RBufSize - Avail = 0 \/ srcpos = cut)
  BY <1>0, <1>1, DeliveryFacts
<1> DEFINE b == Buffered(Avail)
<1>3. b \in Seq(Positions) /\ Len(b) = Avail /\ \A i \in 1 .. Avail : b[i] = Pos + i - 1
  <2>1. Avail \in 0 .. Avail
    BY <1>0
  <2> QED BY <2>1, BufferedFacts
<1>4. rbuf' = b \o d
  OBVIOUS
<1> HIDE DEF b
<1>5. /\ rbuf' \in Seq(Positions) /\ Len(rbuf') = Avail + Len(d)
      /\ \A i \in 1 .. Avail + Len(d) : rbuf'[i] = IF i <= Avail THEN b[i] ELSE d[i - Avail]
  <2>1. b \o d \in Seq(Positions) /\ Len(b \o d) = Len(b) + Len(d)
        /\ \A i \in 1 .. Len(b) + Len(d) : (b \o d)[i] = IF i <= Len(b) THEN b[i] ELSE d[i - Len(b)]
    BY <1>2, <1>3, ConcatProperties
  <2>2. Len(b) = Avail
    BY <1>3
  <2> QED BY <1>4, <2>1, <2>2
<1>6. Avail' = Avail + Len(d) /\ Pos' = Pos
  BY SMTT(30), <1>0, <1>2, <1>5 DEF Avail, Pos
<1>7. ASSUME NEW i \in 1 .. Avail + Len(d) PROVE rbuf'[i] = Pos + i - 1
  <2>1. i \in Nat /\ i >= 1 /\ i <= Avail + Len(d)
    BY <1>0, <1>2
  <2>2. CASE i <= Avail
    <3>1. i \in 1 .. Avail /\ rbuf'[i] = b[i]
      BY <1>0, <1>5, <2>1, <2>2
    <3> QED BY <3>1, <1>3
  <2>3. CASE ~(i <= Avail)
    <3>1. i - Avail \in 1 .. Len(d)
      BY <1>0, <1>2, <2>1, <2>3
    <3>2. d[i - Avail] = srcpos + (i - Avail) - 1
      BY <3>1, <1>2
    <3>3. rbuf'[i] = d[i - Avail]
      BY <1>5, <2>3
    <3> QED BY <1>0, <2>1, <3>2, <3>3
  <2> QED BY <2>2, <2>3
<1>8. RBufSize - Avail # 0
  <2>1. CASE pc = "skip" /\ Avail = 0
    <3>1. RBufSize > 0
      BY SizeAssumption
    <3> QED BY <2>1, <3>1, <1>0
  <2>2. CASE pc \in DOMAIN Needs /\ Avail < Needs[pc]
    <3>1. Needs[pc] \in Nat /\ Needs[pc] <= RBufSize
      BY <2>2, NeedsFacts, CutFacts
    <3> QED BY <2>2, <3>1, <1>0
  <2> QED BY <2>1, <2>2 DEF WantsFill
<1>9. eof' => srcpos' = cut'
  <2>1. eof' => d = <<>>
    BY Zenon
  <2>2. d = <<>> => Len(d) = 0 /\ srcpos = cut
    BY <1>2, <1>8
  <2>3. srcpos' = srcpos + Len(d) /\ cut' = cut
    OBVIOUS
  <2> QED BY <1>0, <2>1, <2>2, <2>3
<1>10. BufType'
  <2>1. Positions' = Positions
    BY DEF Positions
  <2>2. srcpos' \in 0 .. cut' /\ eof' \in BOOLEAN
    BY <1>0, <1>2
  <2>3. Len(rbuf') \in Nat /\ Len(rbuf') <= RBufSize /\ rpos' \in 0 .. Len(rbuf')
    BY <1>0, <1>2, <1>5
  <2> QED BY <1>5, <2>1, <2>2, <2>3 DEF BufType
<1>11. BufInv'
  <2>1. Avail' <= srcpos'
    BY <1>0, <1>2, <1>6
  <2>2. \A i \in 0 + 1 .. Len(rbuf') : rbuf'[i] = Pos + (i - 0) - 1
    BY <1>5, <1>7
  <2> QED BY <1>6, <1>9, <2>1, <2>2 DEF BufInv
<1> QED BY <1>6, <1>10, <1>11

(* A fill that fails has moved what is left. *)
LEMMA Moved ==
  ASSUME TypeOK, BufInv, rbuf' = Buffered(Avail), rpos' = 0, UNCHANGED <<file, cut, srcpos, eof>>
  PROVE  BufType' /\ BufInv'
<1> DEFINE b == Buffered(Avail)
<1>0. /\ Avail \in Nat /\ Avail <= RBufSize /\ RBufSize \in Nat /\ cut \in Nat
      /\ srcpos \in Nat /\ Pos \in Nat /\ srcpos = Pos + Avail /\ srcpos <= cut
  BY BufFacts
<1>1. b \in Seq(Positions) /\ Len(b) = Avail /\ \A i \in 1 .. Avail : b[i] = Pos + i - 1
  <2>1. Avail \in 0 .. Avail
    BY <1>0
  <2> QED BY <2>1, BufferedFacts
<1>2. rbuf' = b
  OBVIOUS
<1> HIDE DEF b
<1>3. Avail' = Avail /\ Pos' = Pos /\ Positions' = Positions
  BY <1>0, <1>1, <1>2 DEF Avail, Pos, Positions
<1>4. \A i \in 0 + 1 .. Len(rbuf') : rbuf'[i] = Pos + (i - 0) - 1
  BY <1>0, <1>1, <1>2
<1>5. BufInv'
  <2>1. Avail' <= srcpos'
    BY <1>0, <1>3
  <2> QED BY <1>3, <1>4, <2>1 DEF BufInv
<1>6. BufType'
  <2>1. rpos' \in 0 .. Len(rbuf') /\ Len(rbuf') <= RBufSize
    BY <1>0, <1>1, <1>2
  <2> QED BY <1>1, <1>2, <1>3, <2>1 DEF BufType, TypeOK
<1> QED BY <1>5, <1>6

(* Bytes of the buffer are consumed. *)
LEMMA Consumed ==
  ASSUME TypeOK, BufInv, NEW n \in 0 .. Avail, rpos' = rpos + n, UNCHANGED <<file, cut, srcpos, rbuf, eof>>
  PROVE  BufType' /\ BufInv' /\ Avail' = Avail - n /\ Pos' = Pos + n
<1>1. /\ Avail \in Nat /\ rpos \in Nat /\ Len(rbuf) \in Nat /\ Len(rbuf) = rpos + Avail
      /\ srcpos \in Nat /\ Pos \in Nat /\ srcpos = Pos + Avail
      /\ n \in Nat /\ n <= Avail
  BY BufFacts
<1>2. Avail' = Avail - n /\ Pos' = Pos + n
  BY <1>1 DEF Avail, Pos
<1>3. BufType'
  <2>1. Positions' = Positions
    BY DEF Positions
  <2>2. rpos' \in 0 .. Len(rbuf')
    BY <1>1
  <2> QED BY <2>1, <2>2 DEF BufType, TypeOK
<1>4. ASSUME NEW i \in rpos' + 1 .. Len(rbuf') PROVE rbuf'[i] = Pos' + (i - rpos') - 1
  <2>1. i \in Int /\ i - rpos \in 1 .. Avail /\ i = rpos + (i - rpos)
    BY <1>1
  <2>2. rbuf[rpos + (i - rpos)] = Pos + (i - rpos) - 1
    BY <2>1, BufBytes
  <2>3. rbuf'[i] = Pos + (i - rpos) - 1
    BY <2>1, <2>2
  <2> QED BY <1>1, <1>2, <2>1, <2>3
<1>5. BufInv'
  <2>1. Avail' <= srcpos'
    BY <1>1, <1>2
  <2> QED BY <1>4, <2>1 DEF BufInv
<1> QED BY <1>2, <1>3, <1>5

(* Nothing happens to the buffer. *)
LEMMA Untouched ==
  ASSUME TypeOK, BufInv, UNCHANGED <<file, cut, srcpos, rbuf, rpos, eof>>
  PROVE  BufType' /\ BufInv' /\ Avail' = Avail /\ Pos' = Pos
<1>1. Avail' = Avail /\ Pos' = Pos /\ Positions' = Positions
  BY DEF Avail, Pos, Positions
<1>2. BufType'
  BY <1>1 DEF BufType, TypeOK
<1>3. BufInv'
  BY <1>1 DEF BufInv
<1> QED BY <1>1, <1>2, <1>3

-----------------------------------------------------------------------------
(* Where the decoder is *)

(* What is behind does not come back. *)
LEMMA StaysLost ==
  ASSUME TypeOK, UNCHANGED <<file, cut>>, Pos \in Nat, Pos' \in Nat, Pos' >= Pos, Lost
  PROVE  Lost'
<1>1. PICK m \in DOMAIN file : Strayed(m) /\ file[m].at + file[m].hlen <= Pos
  BY DEF Lost
<1>2. file[m].at \in Nat /\ file[m].hlen \in Nat
  BY <1>1, CutFacts, UnitFacts
<1>3. Strayed(m)'
  BY <1>1, Fixed
<1>4. file[m].at + file[m].hlen <= Pos'
  BY <1>1, <1>2
<1> QED BY <1>3, <1>4 DEF Lost

(* A record in front of unit u leads astray: so it has when u is read. *)
LEMMA LostBehind ==
  ASSUME TypeOK, UNCHANGED <<file, cut>>, NEW u \in DOMAIN file, NEW m \in 1 .. u - 1, Strayed(m),
         Pos' \in Nat, Pos' >= file[u].at
  PROVE  Lost'
<1>1. u \in Nat /\ m \in DOMAIN file /\ m < u
  BY CutFacts, FileFacts
<1>2. file[m].at + file[m].hlen <= file[u].at
  BY <1>1, Ordered, CutFacts
<1>3. file[m].at \in Nat /\ file[m].hlen \in Nat /\ file[u].at \in Nat
  BY <1>1, CutFacts, UnitFacts
<1>4. Strayed(m)'
  BY Fixed
<1>5. file[m].at + file[m].hlen <= Pos'
  BY <1>2, <1>3
<1> QED BY <1>1, <1>4, <1>5 DEF Lost

(* Behind a record that leads astray, a unit comes after that record. *)
LEMMA LostUnit ==
  ASSUME TypeOK, NEW u \in DOMAIN file, file[u].at = Pos, Lost
  PROVE  \E m \in 1 .. u - 1 : Strayed(m)
<1>1. PICK m \in DOMAIN file : Strayed(m) /\ file[m].at + file[m].hlen <= Pos
  BY DEF Lost
<1>2. m < u
  BY <1>1, Places, CutFacts
<1>3. m \in 1 .. u - 1
  BY <1>1, <1>2, CutFacts, UnitFacts
<1> QED BY <1>1, <1>3

(* The header that is in the buffer. *)
LEMMA HereUnit ==
  ASSUME TypeOK, BufInv, UnitHere # 0
  PROVE  UnitHere \in DOMAIN file /\ file[UnitHere].at = Pos /\ file[UnitHere].hlen <= Avail
<1> DEFINE Here == { u \in DOMAIN file : file[u].hlen <= Avail /\
                     \A i \in 1 .. file[u].hlen : rbuf[rpos + i] = file[u].at + i - 1 }
<1>1. UnitHere = IF Here = {} THEN 0 ELSE CHOOSE u \in Here : TRUE
  BY DEF UnitHere
<1>2. UnitHere \in Here
  BY <1>1
<1>3. UnitHere \in DOMAIN file /\ file[UnitHere].hlen <= Avail
      /\ \A i \in 1 .. file[UnitHere].hlen : rbuf[rpos + i] = file[UnitHere].at + i - 1
  BY <1>2
<1> DEFINE u == UnitHere
<1> HIDE DEF Here, u
<1>4. u \in DOMAIN file /\ file[u].hlen <= Avail
      /\ \A i \in 1 .. file[u].hlen : rbuf[rpos + i] = file[u].at + i - 1
  BY <1>3 DEF u
<1>5. file[u].hlen \in Nat /\ file[u].hlen > 0 /\ file[u].at \in Nat
  BY <1>4, CutFacts, UnitFacts
<1>6. 1 \in 1 .. file[u].hlen /\ 1 \in 1 .. Avail /\ Pos \in Nat
  BY <1>4, <1>5, BufFacts
<1>7. rbuf[rpos + 1] = file[u].at + 1 - 1 /\ rbuf[rpos + 1] = Pos + 1 - 1
  BY <1>4, <1>6, BufBytes
<1>8. file[u].at = Pos
  BY <1>5, <1>6, <1>7
<1> QED BY <1>4, <1>8 DEF u

(* The header of the unit that begins here is found. *)
LEMMA HereFound ==
  ASSUME TypeOK, BufInv, NEW v \in DOMAIN file, file[v].at = Pos, file[v].hlen <= Avail
  PROVE  UnitHere = v
<1> DEFINE Here == { u \in DOMAIN file : file[u].hlen <= Avail /\
                     \A i \in 1 .. file[u].hlen : rbuf[rpos + i] = file[u].at + i - 1 }
<1>1. UnitHere = IF Here = {} THEN 0 ELSE CHOOSE u \in Here : TRUE
  BY DEF UnitHere
<1>2. file[v].hlen \in Nat /\ Avail \in Nat
  BY CutFacts, UnitFacts, BufFacts
<1>3. \A i \in 1 .. file[v].hlen : i \in 1 .. Avail
  BY <1>2
<1>4. \A i \in 1 .. file[v].hlen : rbuf[rpos + i] = file[v].at + i - 1
  BY <1>3, BufBytes
<1>5. v \in Here
  BY <1>4
<1>6. UnitHere \in Here
  BY <1>1, <1>5
<1>7. UnitHere \in DOMAIN file
  BY <1>6
<1>8. UnitHere # 0
  BY <1>7, CutFacts, UnitFacts
<1>9. file[UnitHere].at = file[v].at
  BY <1>8, HereUnit
<1> QED BY <1>7, <1>9, Places, CutFacts

(* With a header at hand: bytes that are no header's are behind a record   *)
(* that leads astray, and so, or on the right way, is a header.            *)
LEMMA AtHeader ==
  ASSUME IInv, NEW p \in {"record", "block"}, Have(p)
  PROVE  /\ UnitHere = 0 => Lost
         /\ UnitHere # 0 =>
              /\ UnitHere \in DOMAIN file /\ UnitHere > 1 /\ file[UnitHere].at = Pos
              /\ p = "block" <=> file[UnitHere].kind = "block"
              /\ file[UnitHere].hlen = Needs[p]
              /\ Track(UnitHere) \/ \E m \in 1 .. UnitHere - 1 : Strayed(m)
<1> USE DEF IInv
<1>1. pc = p /\ Avail >= Needs[p] /\ p \in DOMAIN Needs
  BY PcFacts DEF Have
<1>2. /\ file \in Files /\ Len(file) \in Nat /\ DOMAIN file = 1 .. Len(file)
      /\ Avail \in Nat /\ Pos \in Nat /\ srcpos = Pos + Avail /\ srcpos <= cut /\ cut \in Nat
      /\ cut <= FileEnd(file) /\ FileEnd(file) \in Nat
  BY BufFacts, CutFacts, FileFacts
<1>3. Needs[p] \in Nat /\ Needs[p] > 0
  BY <1>2, NeedsFacts, SizeAssumption
<1>4. Lost \/ \E v \in 2 .. Len(file) + 1 : Track(v) /\ Pos = Begin(v)
  BY <1>1 DEF TrackInv
<1>5. ASSUME NEW v \in DOMAIN file, file[v].at = Pos
      PROVE  p = "block" <=> file[v].kind = "block"
  BY <1>1, <1>5 DEF MagicInv
<1>6. ASSUME NEW v \in DOMAIN file, v > 1, file[v].at = Pos
      PROVE  file[v].hlen = Needs[p]
  <2>1. v # 1 /\ file[v].kind # "head"
    BY <1>2, <1>6, KindFacts
  <2> QED BY <1>2, <1>5, <1>6, <2>1, KindFacts, NeedsFacts
<1>7. ASSUME NEW v \in 2 .. Len(file) + 1, Track(v), Pos = Begin(v)
      PROVE  v \in DOMAIN file /\ v > 1 /\ UnitHere = v /\ file[v].at = Pos
  <2>1. v \in DOMAIN file
    <3> SUFFICES ASSUME v \notin DOMAIN file PROVE FALSE
      OBVIOUS
    <3>1. Pos = FileEnd(file)
      BY <1>7 DEF Begin
    <3> QED BY <1>1, <1>2, <1>3, <3>1
  <2>2. file[v].at = Pos /\ v > 1
    BY <1>2, <1>7, <2>1 DEF Begin
  <2>3. file[v].hlen = Needs[p]
    BY <1>6, <2>1, <2>2
  <2>4. file[v].hlen <= Avail
    BY <1>1, <1>2, <1>3, <2>3
  <2> QED BY <2>1, <2>2, <2>4, HereFound
<1>8. UnitHere = 0 => Lost
  BY <1>2, <1>4, <1>7, UnitFacts
<1>9. ASSUME UnitHere # 0
      PROVE  /\ UnitHere \in DOMAIN file /\ UnitHere > 1 /\ file[UnitHere].at = Pos
             /\ Track(UnitHere) \/ \E m \in 1 .. UnitHere - 1 : Strayed(m)
  <2> DEFINE u == UnitHere
  <2>1. u \in DOMAIN file /\ file[u].at = Pos
    BY <1>9, HereUnit
  <2> HIDE DEF u
  <2>2. CASE Lost
    <3>1. PICK m \in 1 .. u - 1 : Strayed(m)
      BY <2>1, <2>2, LostUnit
    <3>2. u > 1
      BY <1>2, <2>1, <3>1
    <3> QED BY <2>1, <3>1, <3>2 DEF u
  <2>3. CASE ~Lost
    <3>1. PICK v \in 2 .. Len(file) + 1 : Track(v) /\ Pos = Begin(v)
      BY <1>4, <2>3
    <3>2. UnitHere = v /\ v > 1
      BY <1>7, <3>1
    <3> QED BY <2>1, <3>1, <3>2 DEF u
  <2> QED BY <2>2, <2>3
<1> QED BY <1>5, <1>6, <1>8, <1>9

-----------------------------------------------------------------------------
(* What an error status says *)

(* BlamesFirstBad, of a status that is about to stick. *)
Excused(s) ==
  \/ s \in {ErrIO, ErrOOM}
  \/ \E u \in DOMAIN file : Reached(u) /\ (Blames(u, s) \/ Misframed(u))
  \/ s = ErrTruncated /\ \E u \in 1 .. Len(file) + 1 :
       Reached(u) /\ (u <= Len(file) => ~Complete(u))

(* Behind a record that leads astray, nothing counts. *)
LEMMA ExcusedLost ==
  ASSUME Lost, NEW s
  PROVE  Excused(s)
BY DEF Lost, Strayed, Excused

(* A decoder that strayed at an earlier unit may end with any status. *)
LEMMA ExcusedStrayed ==
  ASSUME TypeOK, NEW u \in DOMAIN file, NEW m \in 1 .. u - 1, Strayed(m), NEW s
  PROVE  Excused(s)
<1>1. m \in DOMAIN file
  BY CutFacts, FileFacts
<1> QED BY <1>1 DEF Strayed, Excused

(* The first unit that is bad, or that is not complete. *)
LEMMA ExcusedBad ==
  ASSUME NEW u \in DOMAIN file, Reached(u), NEW s, Blames(u, s)
  PROVE  Excused(s)
BY DEF Excused

(* A unit that the source does not hold to its end excuses *)
(* XQ_ERR_TRUNCATED.                                       *)
LEMMA ExcusedCut ==
  ASSUME TypeOK, NEW u \in 1 .. Len(file) + 1, Reached(u), u <= Len(file) => ~Complete(u)
  PROVE  Excused(ErrTruncated)
BY DEF Excused

(* A header that is not intact. *)
LEMMA ExcusedHeader ==
  ASSUME NEW u \in DOMAIN file, Reached(u), file[u].hst # OK
  PROVE  Excused(file[u].hst)
<1>1. Verdicts(u)[1] = file[u].hst
  BY DEF Verdicts
<1>2. Blames(u, file[u].hst)
  BY <1>1, Blamed
<1> QED BY <1>2, ExcusedBad

(* A block that is refused for its header. *)
LEMMA ExcusedBlock ==
  ASSUME NEW u \in DOMAIN file, Track(u), file[u].hst = OK, file[u].kind = "block", BlockCheck(u) # OK
  PROVE  Excused(BlockCheck(u))
<1> DEFINE V == Verdicts(u)
<1>1. /\ V[1] = OK
      /\ V[2] = IF file[u].off # RawBefore(u) THEN ErrCorruptBlock ELSE OK
      /\ V[3] = IF file[u].raw > RawCap THEN ErrMemlimit ELSE OK
      /\ V[4] = OK
      /\ V[5] = file[u].chk
  BY DEF Verdicts
<1>2. BlockCheck(u) = IF file[u].off # RawBefore(u) THEN ErrCorruptBlock
                      ELSE IF file[u].raw > RawCap THEN ErrMemlimit ELSE file[u].chk
  BY DEF BlockCheck, Track
<1> HIDE DEF V
<1>3. Reached(u)
  BY DEF Track
<1>4. \E i \in 1 .. 7 : V[i] = BlockCheck(u) /\ \A j \in 1 .. i - 1 : V[j] = OK
  <2>1. CASE file[u].off # RawBefore(u)
    <3>1. V[2] = BlockCheck(u) /\ \A j \in 1 .. 2 - 1 : V[j] = OK
      BY <1>1, <1>2, <2>1
    <3> QED BY <3>1
  <2>2. CASE file[u].off = RawBefore(u) /\ file[u].raw > RawCap
    <3>1. V[3] = BlockCheck(u) /\ \A j \in 1 .. 3 - 1 : V[j] = OK
      BY <1>1, <1>2, <2>2
    <3> QED BY <3>1
  <2>3. CASE file[u].off = RawBefore(u) /\ ~(file[u].raw > RawCap)
    <3>1. V[5] = BlockCheck(u) /\ \A j \in 1 .. 5 - 1 : V[j] = OK
      BY <1>1, <1>2, <2>3
    <3> QED BY <3>1
  <2> QED BY <2>1, <2>2, <2>3
<1>5. Blames(u, BlockCheck(u))
  BY <1>4, Blamed DEF V
<1> QED BY <1>3, <1>5, ExcusedBad

(* A record that is refused for its header. *)
LEMMA ExcusedRecord ==
  ASSUME NEW u \in DOMAIN file, Track(u), file[u].hst = OK, file[u].kind # "block", RecordCheck(u) # OK
  PROVE  Excused(RecordCheck(u))
<1> DEFINE V == Verdicts(u)
<1>1. /\ V[1] = OK /\ V[2] = OK /\ V[3] = OK
      /\ V[4] = IF file[u].kind = "dict" /\ DictBefore(u) THEN ErrCorruptRecord ELSE OK
      /\ V[5] = file[u].chk
  BY DEF Verdicts
<1>2. RecordCheck(u) = IF file[u].kind = "dict" /\ DictBefore(u) THEN ErrCorruptRecord ELSE file[u].chk
  BY DEF RecordCheck, Track
<1> HIDE DEF V
<1>3. Reached(u)
  BY DEF Track
<1>4. \E i \in 1 .. 7 : V[i] = RecordCheck(u) /\ \A j \in 1 .. i - 1 : V[j] = OK
  <2>1. CASE file[u].kind = "dict" /\ DictBefore(u)
    <3>1. V[4] = RecordCheck(u) /\ \A j \in 1 .. 4 - 1 : V[j] = OK
      BY <1>1, <1>2, <2>1
    <3> QED BY <3>1
  <2>2. CASE ~(file[u].kind = "dict" /\ DictBefore(u))
    <3>1. V[5] = RecordCheck(u) /\ \A j \in 1 .. 5 - 1 : V[j] = OK
      BY <1>1, <1>2, <2>2
    <3> QED BY <3>1
  <2> QED BY <2>1, <2>2
<1>5. Blames(u, RecordCheck(u))
  BY <1>4, Blamed DEF V
<1> QED BY <1>3, <1>5, ExcusedBad

(* A payload that is bad behind a header that is good. *)
LEMMA ExcusedPayload ==
  ASSUME NEW u \in DOMAIN file, Reached(u), file[u].hst = OK, file[u].chk = OK,
         file[u].kind = "block" => file[u].off = RawBefore(u) /\ ~(file[u].raw > RawCap),
         file[u].kind = "dict" => ~DictBefore(u)
  PROVE  /\ file[u].st # OK => Excused(file[u].st)
         /\ file[u].st = OK /\ file[u].kind = "block" /\ file[u].needs /\ ~DictBefore(u)
              => Excused(ErrCorruptBlock)
<1> DEFINE V == Verdicts(u)
<1>1. /\ V[1] = OK /\ V[2] = OK /\ V[3] = OK /\ V[4] = OK /\ V[5] = OK
      /\ V[6] = file[u].st
      /\ V[7] = IF file[u].kind = "block" /\ file[u].needs /\ ~DictBefore(u) THEN ErrCorruptBlock ELSE OK
  BY DEF Verdicts
<1> HIDE DEF V
<1>2. CASE file[u].st # OK
  <2>1. V[6] = file[u].st /\ \A j \in 1 .. 6 - 1 : V[j] = OK
    BY <1>1
  <2>2. Blames(u, file[u].st)
    BY <1>2, <2>1, Blamed DEF V
  <2> QED BY <1>2, <2>2, ExcusedBad
<1>3. ASSUME file[u].st = OK, file[u].kind = "block" /\ file[u].needs /\ ~DictBefore(u)
      PROVE  Excused(ErrCorruptBlock)
  <2>1. V[7] = ErrCorruptBlock /\ \A j \in 1 .. 7 - 1 : V[j] = OK
    BY <1>1, <1>3
  <2>2. ErrCorruptBlock # OK
    BY DEF ErrCorruptBlock, OK
  <2>3. Blames(u, ErrCorruptBlock)
    BY <2>1, <2>2, Blamed DEF V
  <2> QED BY <2>3, ExcusedBad
<1> QED BY <1>2, <1>3

(* Where a call fails, and it closes or sticks; what the caller has, the   *)
(* buffers and the place in the archive do not matter any more.            *)
LEMMA Failing ==
  ASSUME IInv, NEW s \in Statuses, s # OK, Fail(s), Excused(s), pc \notin {"idle", "closed"},
         UNCHANGED <<file, cut, unitVars, rawVars>>, BufType', BufInv'
  PROVE  IInv'
<1> USE DEF IInv
<1>0. s \in Nat /\ file \in Files /\ sticky = OK
  BY StatusFacts, CutFacts DEF StickyInv
<1>1. \/ pc \in Creating /\ pc' = "closed" /\ sticky' = OK /\ UNCHANGED callVars
      \/ pc \notin Creating /\ pc' = "idle" /\ sticky' = s /\ ret' = -s /\ got' = <<>> /\ UNCHANGED <<len, out, calls>>
  BY <1>0 DEF Fail
<1>2. pc' \in {"idle", "closed"} /\ (pc' = "idle" => sticky' # OK) /\ sticky' \in Statuses
      /\ sticky' \in {OK, s} /\ UNCHANGED <<out, len, calls>> /\ (pc' = "closed" => got' = got /\ ret' = ret)
      /\ (pc' = "idle" => got' = <<>> /\ ret' = -s) /\ (pc' = "closed" => pc \in Creating)
  BY <1>0, <1>1, StatusFacts DEF callVars
<1>3. RestType'
  <2>1. got' \in Seq(Byte) /\ ret' \in Int /\ Len(got') <= len'
    <3>1. got \in Seq(Byte) /\ ret \in Int /\ Len(got) <= len /\ len \in Nat
      BY DEF TypeOK
    <3>2. <<>> \in Seq(Byte) /\ Len(<<>>) = 0 /\ -s \in Int
      BY <1>0
    <3>3. CASE pc' = "closed"
      BY <1>2, <3>1, <3>3
    <3>4. CASE pc' = "idle"
      BY <1>2, <3>1, <3>2, <3>4
    <3> QED BY <1>2, <3>3, <3>4
  <2>2. pc' \in Pc'
    BY <1>2, PcFacts
  <2>3. file' \in Files /\ cut' \in 0 .. FileEnd(file') /\ cur' \in DOMAIN file'
    BY DEF TypeOK, unitVars
  <2>4. dst' \in Seq(Positions)' /\ remain' \in Nat
    BY DEF TypeOK, unitVars, Positions
  <2>5. raw' \in Seq(Byte) /\ raw_pos' \in 0 .. Len(raw') /\ Len(raw') <= RawCap
        /\ raw_offset' \in Nat /\ ddict' \in BOOLEAN /\ saw_eob' \in BOOLEAN
    BY DEF TypeOK, rawVars
  <2>6. len' \in Nat /\ out' \in Seq(Byte) /\ calls' \in Nat
    BY <1>2 DEF TypeOK
  <2> QED BY <1>2, <2>1, <2>2, <2>3, <2>4, <2>5, <2>6 DEF RestType
<1>4. TypeOK'
  BY <1>3, Types
<1>5. DstInv' /\ UnitInv' /\ MagicInv'
  BY <1>2 DEF DstInv, UnitInv, MagicInv, Exact
<1>6. StickyInv'
  BY <1>2 DEF StickyInv, Creating, InBlock, Reading
<1>7. TrackInv'
  BY <1>2 DEF TrackInv, Reading
<1>8. Returned' = out /\ (pc' = "closed" => Returned = out \o <<>>)
  BY <1>2 DEF Returned, StickyInv
<1>9. out \in Seq(Byte) /\ got \in Seq(Byte) /\ Len(out \o <<>>) = Len(out)
  BY DEF TypeOK
<1>10. RawInv'
  <2>2. ASSUME NEW k \in 1 .. Len(raw')
        PROVE  StreamByte(raw[k])' /\ file'[raw'[k][1]].off + raw'[k][2] = raw_offset' - Len(raw') + k - 1
    <3>1. k \in 1 .. Len(raw) /\ raw' = raw /\ raw_offset' = raw_offset
      BY DEF rawVars
    <3>2. StreamByte(raw[k]) /\ file[raw[k][1]].off + raw[k][2] = raw_offset - Len(raw) + k - 1
      BY <3>1 DEF RawInv
    <3>3. StreamByte(raw[k])'
      BY <3>1, <3>2, Fixed
    <3> QED BY <3>1, <3>2, <3>3
  <2>1. Len(raw') <= raw_offset'
    BY DEF RawInv, rawVars
  <2>3. sticky' = OK => Len(Returned') = raw_offset' - Len(raw') + raw_pos'
    BY <1>0, <1>2, <1>8, <1>9 DEF RawInv, rawVars
  <2> QED BY <2>1, <2>2, <2>3 DEF RawInv
<1>11. OutputPrefix'
  <2> SUFFICES ASSUME NEW k \in DOMAIN out
               PROVE  StreamByte(out[k])' /\ file'[out[k][1]].off + out[k][2] = k - 1
    BY <1>2, <1>8 DEF OutputPrefix
  <2>1. Returned = out \o got
    BY <1>2 DEF Returned
  <2>2. k \in DOMAIN Returned /\ Returned[k] = out[k]
    BY <1>9, <2>1
  <2>3. StreamByte(out[k]) /\ file[out[k][1]].off + out[k][2] = k - 1
    BY <2>2 DEF OutputPrefix
  <2>4. StreamByte(out[k])'
    BY <2>3, Fixed, <1>2
  <2> QED BY <2>3, <2>4
<1>12. BlamesFirstBad'
  <2>1. CASE sticky' = OK
    BY <2>1 DEF BlamesFirstBad
  <2>2. CASE sticky' = s
    BY <2>2, Fixed DEF BlamesFirstBad, Excused
  <2> QED BY <1>2, <2>1, <2>2
<1> QED BY <1>4, <1>5, <1>6, <1>7, <1>10, <1>11, <1>12

-----------------------------------------------------------------------------
(* The actions that end in an error *)

(* RbufFillFails keeps the invariant. *)
LEMMA RbufFillFailsStep == ASSUME IInv, RbufFillFails PROVE IInv'
<1> USE DEF IInv
<1>1. BufType' /\ BufInv'
  BY Moved DEF RbufFillFails, srcVars
<1>2. pc \notin {"idle", "closed"}
  BY PcFacts DEF RbufFillFails, WantsFill
<1>3. Excused(ErrIO) /\ ErrIO \in Statuses /\ ErrIO # OK
  BY StatusFacts DEF Excused
<1>4. Fail(ErrIO) /\ UNCHANGED <<file, cut, unitVars, rawVars>>
  BY DEF RbufFillFails, srcVars
<1> QED BY <1>1, <1>2, <1>3, <1>4, Failing

(* The source ends in front of what the code needs, and so within the unit *)
(* that is next.                                                           *)
LEMMA FillTruncatedStep == ASSUME IInv, FillTruncated PROVE IInv'
<1> USE DEF IInv
<1>1. BufType' /\ BufInv'
  BY Untouched DEF FillTruncated, srcVars, bufVars
<1>2. pc \notin {"idle", "closed"} /\ pc \in DOMAIN Needs \cup {"skip"}
  BY PcFacts DEF FillTruncated, WantsFill
<1>3. /\ file \in Files /\ Len(file) \in Nat /\ DOMAIN file = 1 .. Len(file) /\ 1 \in DOMAIN file
      /\ Avail \in Nat /\ Pos \in Nat /\ srcpos = Pos + Avail /\ srcpos = cut /\ cut \in Nat
  BY BufFacts, CutFacts, FileFacts DEF FillTruncated, BufInv
<1>4. ErrTruncated \in Statuses /\ ErrTruncated # OK
  BY StatusFacts
<1>5. Fail(ErrTruncated) /\ UNCHANGED <<file, cut, unitVars, rawVars>>
  BY DEF FillTruncated, srcVars
<1>6. ASSUME NEW u \in DOMAIN file, Reached(u), cut < UnitEnd(file[u])
      PROVE  Excused(ErrTruncated)
  <2>1. u \in 1 .. Len(file) + 1 /\ ~Complete(u)
    BY <1>3, <1>6, UnitFacts DEF Complete
  <2> QED BY <1>6, <2>1, ExcusedCut
<1>7. CASE pc \in DOMAIN Needs
  <2>1. Avail < Needs[pc] /\ Needs[pc] \in Nat
    BY <1>3, <1>7, PcFacts, NeedsFacts DEF FillTruncated, WantsFill
  <2>2. cut < Pos + Needs[pc]
    BY <1>3, <2>1
  <2>3. CASE pc \in {"head", "extra"}
    <3>1. Reached(1)
      BY DEF Reached
    <3>2. file[1].at = 0 /\ file[1].hlen = HeadLen /\ file[1].ck = 0 /\ file[1].body \in Nat
      BY <1>3, KindFacts, UnitFacts
    <3>3. UnitEnd(file[1]) = HeadLen + file[1].body
      BY <3>2, SizeAssumption DEF UnitEnd
    <3>4. cut < UnitEnd(file[1])
      <4>1. CASE pc = "head"
        <5>1. Pos = 0 /\ Needs[pc] = HeadLen
          BY <1>3, <4>1, NeedsFacts DEF TrackInv
        <5> QED BY <1>3, <2>2, <3>2, <3>3, <5>1, SizeAssumption
      <4>2. CASE pc = "extra"
        <5>1. Pos = HeadLen /\ Needs[pc] = file[1].body
          BY <1>3, <4>2, NeedsFacts DEF TrackInv
        <5> QED BY <2>2, <3>3, <5>1
      <4> QED BY <2>3, <4>1, <4>2
    <3>5. Excused(ErrTruncated)
      BY <1>3, <1>6, <3>1, <3>4
    <3> QED BY <1>1, <1>2, <1>4, <1>5, <3>5, Failing
  <2>4. CASE pc \in {"magic", "record", "block"}
    <3>1. Lost \/ \E u \in 2 .. Len(file) + 1 : Track(u) /\ Pos = Begin(u)
      BY <2>4 DEF TrackInv
    <3>2. ASSUME NEW u \in 2 .. Len(file) + 1, Track(u), Pos = Begin(u)
          PROVE  Excused(ErrTruncated)
      <4>1. Reached(u)
        BY <3>2 DEF Track
      <4>2. CASE u \in DOMAIN file
        <5>1. file[u].at = Pos /\ u > 1 /\ u # 1
          BY <1>3, <3>2, <4>2 DEF Begin
        <5>2. Needs[pc] <= file[u].hlen
          <6>1. file[u].kind # "head" /\ MagicLen <= file[u].hlen /\ MagicLen \in Nat /\ file[u].hlen \in Nat
            BY <1>3, <4>2, <5>1, KindFacts, UnitFacts, SizeAssumption
          <6>2. CASE pc = "magic"
            BY <1>3, <6>1, <6>2, NeedsFacts
          <6>3. CASE pc = "block"
            <7>1. file[u].kind = "block"
              BY <4>2, <5>1, <6>3 DEF MagicInv
            <7> QED BY <1>3, <4>2, <6>1, <6>3, <7>1, KindFacts, NeedsFacts
          <6>4. CASE pc = "record"
            <7>1. file[u].kind # "block"
              BY <4>2, <5>1, <6>4 DEF MagicInv
            <7> QED BY <1>3, <4>2, <6>1, <6>4, <7>1, KindFacts, NeedsFacts
          <6> QED BY <2>4, <6>2, <6>3, <6>4
        <5>3. /\ UnitEnd(file[u]) \in Nat /\ UnitEnd(file[u]) >= file[u].at + file[u].hlen
              /\ file[u].at \in Nat /\ file[u].hlen \in Nat
          BY <1>3, <4>2, UnitFacts
        <5>4. cut < UnitEnd(file[u])
          BY SMTT(30), <1>3, <2>1, <2>2, <5>1, <5>2, <5>3
        <5> QED BY <1>6, <4>1, <4>2, <5>4
      <4>3. CASE u \notin DOMAIN file
        <5>1. u \in 1 .. Len(file) + 1 /\ ~(u <= Len(file))
          BY <1>3, <3>2, <4>3
        <5> QED BY <4>1, <5>1, ExcusedCut
      <4> QED BY <4>2, <4>3
    <3>3. Excused(ErrTruncated)
      BY <3>1, <3>2, ExcusedLost
    <3> QED BY <1>1, <1>2, <1>4, <1>5, <3>3, Failing
  <2> QED BY <1>7, <2>3, <2>4, PcFacts
<1>8. CASE pc = "skip"
  <2>1. remain > 0 /\ Avail = 0 /\ remain \in Nat
    BY <1>8, PcFacts DEF FillTruncated, WantsFill, TypeOK
  <2>2. CASE Lost
    BY <1>1, <1>2, <1>4, <1>5, <2>2, ExcusedLost, Failing
  <2>3. CASE ~Lost
    <3>1. Reached(cur) /\ Pos + remain = UnitEnd(file[cur]) /\ cur \in DOMAIN file
      BY <1>8, <2>3 DEF TrackInv, Track, TypeOK
    <3>2. cut < UnitEnd(file[cur])
      BY <1>3, <2>1, <3>1
    <3>3. Excused(ErrTruncated)
      BY <1>6, <3>1, <3>2
    <3> QED BY <1>1, <1>2, <1>4, <1>5, <3>3, Failing
  <2> QED BY <2>2, <2>3
<1> QED BY <1>2, <1>7, <1>8

(* ReadDirectFails keeps the invariant. *)
LEMMA ReadDirectFailsStep == ASSUME IInv, ReadDirectFails PROVE IInv'
<1> USE DEF IInv
<1>1. BufType' /\ BufInv'
  BY Untouched DEF ReadDirectFails, srcVars, bufVars
<1>2. pc \notin {"idle", "closed"}
  BY DEF ReadDirectFails, Exact
<1>3. Excused(ErrIO) /\ ErrIO \in Statuses /\ ErrIO # OK
  BY StatusFacts DEF Excused
<1>4. Fail(ErrIO) /\ UNCHANGED <<file, cut, unitVars, rawVars>>
  BY DEF ReadDirectFails, srcVars
<1> QED BY <1>1, <1>2, <1>3, <1>4, Failing

(* The source ends within a payload. *)
LEMMA ReadTruncatedStep == ASSUME IInv, ReadTruncated PROVE IInv'
<1> USE DEF IInv
<1>1. pc \in Exact /\ remain > 0 /\ remain \in Nat /\ Avail = 0 /\ eof' = TRUE
      /\ UNCHANGED <<file, cut, srcpos, rbuf, rpos>> /\ cur \in DOMAIN file /\ Len(dst) \in Nat
  BY DEF ReadTruncated, srcVars, TypeOK
<1>2. pc \notin {"idle", "closed"} /\ pc \in Reading
  BY <1>1 DEF Exact, Reading
<1>3. /\ file \in Files /\ Len(file) \in Nat /\ DOMAIN file = 1 .. Len(file)
      /\ Pos \in Nat /\ srcpos = Pos + 0 /\ cut \in Nat /\ srcpos \in 0 .. cut
  BY <1>1, BufFacts, CutFacts, FileFacts DEF TypeOK
<1>4. srcpos = cut
  <2>1. CASE eof
    BY <2>1 DEF BufInv
  <2>2. CASE <<>> \in Deliveries(remain)
    BY <1>1, <1>3, <2>2, DeliveryFacts
  <2> QED BY <2>1, <2>2 DEF ReadTruncated
<1>5. BufType' /\ BufInv'
  <2>1. Avail' = Avail /\ Pos' = Pos /\ Positions' = Positions
    BY <1>1 DEF Avail, Pos, Positions
  <2>2. BufType'
    BY <1>1, <2>1 DEF BufType, TypeOK
  <2>3. BufInv'
    BY <1>1, <1>4, <2>1 DEF BufInv
  <2> QED BY <2>2, <2>3
<1>6. ErrTruncated \in Statuses /\ ErrTruncated # OK
  BY StatusFacts
<1>7. Fail(ErrTruncated) /\ UNCHANGED <<file, cut, unitVars, rawVars>>
  BY DEF ReadTruncated, srcVars
<1>8. Excused(ErrTruncated)
  <2>1. CASE Track(cur)
    <3>1. Pos = file[cur].at + file[cur].hlen + Len(dst)
      BY <1>1 DEF DstInv
    <3>2. /\ file[cur].at \in Nat /\ file[cur].hlen \in Nat /\ file[cur].body \in Nat /\ file[cur].ck \in Nat
          /\ cur \in Nat /\ cur >= 1 /\ cur <= Len(file)
      BY <1>1, <1>3, UnitFacts
    <3>3. Len(dst) + remain <= file[cur].body + file[cur].ck
      BY <1>1, <3>2 DEF UnitInv, Exact
    <3>4. cut < UnitEnd(file[cur])
      BY SMTT(30), <1>1, <1>3, <1>4, <3>1, <3>2, <3>3 DEF UnitEnd
    <3>5. ~Complete(cur)
      BY <1>1, <1>3, <3>4, UnitFacts DEF Complete
    <3>6. cur \in 1 .. Len(file) + 1 /\ Reached(cur)
      BY <1>3, <2>1, <3>2 DEF Track
    <3> QED BY <3>5, <3>6, ExcusedCut
  <2>2. CASE ~Track(cur)
    <3>1. PICK m \in 1 .. cur - 1 : Strayed(m)
      BY <1>2, <2>2 DEF TrackInv
    <3> QED BY <1>1, <3>1, ExcusedStrayed
  <2> QED BY <2>1, <2>2
<1> QED BY <1>2, <1>5, <1>6, <1>7, <1>8, Failing

(* SetupFails keeps the invariant. *)
LEMMA SetupFailsStep == ASSUME IInv, SetupFails PROVE IInv'
<1> USE DEF IInv
<1>1. BufType' /\ BufInv'
  BY Untouched DEF SetupFails, srcVars, bufVars
<1>2. pc \notin {"idle", "closed"} /\ Fail(ErrOOM) /\ UNCHANGED <<file, cut, unitVars, rawVars>>
  BY DEF SetupFails, srcVars
<1>3. Excused(ErrOOM) /\ ErrOOM \in Statuses /\ ErrOOM # OK
  BY StatusFacts DEF Excused
<1> QED BY <1>1, <1>2, <1>3, Failing

(* A header that is not one, or not intact. *)
LEMMA BlockHeaderBadStep == ASSUME IInv, BlockHeaderBad PROVE IInv'
<1> USE DEF IInv
<1>1. BufType' /\ BufInv'
  BY Untouched DEF BlockHeaderBad, srcVars, bufVars
<1>2. pc \notin {"idle", "closed"} /\ Have("block") /\ UNCHANGED <<file, cut, unitVars, rawVars>>
  BY DEF BlockHeaderBad, srcVars, Have
<1>3. CASE UnitHere = 0
  <2>1. Fail(ErrCorruptBlock) /\ ErrCorruptBlock \in Statuses /\ ErrCorruptBlock # OK
    BY <1>3, StatusFacts DEF BlockHeaderBad
  <2>2. Excused(ErrCorruptBlock)
    BY <1>2, <1>3, AtHeader, ExcusedLost
  <2> QED BY <1>1, <1>2, <2>1, <2>2, Failing
<1>4. CASE UnitHere # 0
  <2> DEFINE u == UnitHere
  <2>1. /\ u \in DOMAIN file
        /\ Track(u) \/ \E m \in 1 .. u - 1 : Strayed(m)
    BY <1>2, <1>4, AtHeader
  <2>2. file[u].hst # OK /\ Fail(file[u].hst)
    BY <1>4 DEF BlockHeaderBad
  <2> HIDE DEF u
  <2>3. file[u].hst \in Statuses
    BY <2>1, CutFacts, UnitFacts
  <2>4. Excused(file[u].hst)
    BY <2>1, <2>2, ExcusedHeader, ExcusedStrayed DEF Track
  <2> QED BY <1>1, <1>2, <2>2, <2>3, <2>4, Failing
<1> QED BY <1>3, <1>4

(* RecordBad keeps the invariant. *)
LEMMA RecordBadStep == ASSUME IInv, RecordBad PROVE IInv'
<1> USE DEF IInv
<1>1. BufType' /\ BufInv'
  BY Untouched DEF RecordBad, srcVars, bufVars
<1>2. pc \notin {"idle", "closed"} /\ Have("record") /\ UnitHere # 0 /\ UNCHANGED <<file, cut, unitVars, rawVars>>
  BY DEF RecordBad, srcVars, Have
<1> DEFINE u == UnitHere
<1>3. /\ u \in DOMAIN file
      /\ Track(u) \/ \E m \in 1 .. u - 1 : Strayed(m)
  BY <1>2, AtHeader
<1>4. file[u].hst # OK /\ Fail(file[u].hst)
  BY DEF RecordBad
<1> HIDE DEF u
<1>5. file[u].hst \in Statuses
  BY <1>3, CutFacts, UnitFacts
<1>6. Excused(file[u].hst)
  BY <1>3, <1>4, ExcusedHeader, ExcusedStrayed DEF Track
<1> QED BY <1>1, <1>2, <1>4, <1>5, <1>6, Failing

(* GarbageFails keeps the invariant. *)
LEMMA GarbageFailsStep == ASSUME IInv, GarbageFails PROVE IInv'
<1> USE DEF IInv
<1>1. BufType' /\ BufInv'
  BY Untouched DEF GarbageFails, srcVars, bufVars
<1>2. pc \notin {"idle", "closed"} /\ Have("record") /\ UnitHere = 0 /\ UNCHANGED <<file, cut, unitVars, rawVars>>
  BY DEF GarbageFails, srcVars, Have
<1>3. PICK s \in {ErrCorruptRecord, ErrUnsupportedFeature, ErrMemlimit, ErrTruncated, ErrOOM, ErrIO} : Fail(s)
  BY DEF GarbageFails
<1>4. s \in Statuses /\ s # OK
  BY <1>3, StatusFacts
<1>5. Excused(s)
  BY <1>2, AtHeader, ExcusedLost
<1> QED BY <1>1, <1>2, <1>3, <1>4, <1>5, Failing

(* The header of a block or record is consumed. *)
LEMMA HeaderConsumed ==
  ASSUME IInv, NEW p \in {"record", "block"}, Have(p), rpos' = rpos + Needs[p],
         UNCHANGED <<file, cut, srcpos, rbuf, eof>>
  PROVE  BufType' /\ BufInv' /\ Pos' = Pos + Needs[p] /\ Needs[p] \in Nat /\ Pos \in Nat /\ Pos' <= cut
<1> USE DEF IInv
<1>1. p \in DOMAIN Needs /\ Avail \in Nat /\ Avail >= Needs[p]
  BY PcFacts, BufFacts DEF Have
<1>2. Needs[p] \in Nat
  BY <1>1, CutFacts, NeedsFacts
<1>3. Needs[p] \in 0 .. Avail
  BY <1>1, <1>2
<1>4. BufType' /\ BufInv' /\ Pos' = Pos + Needs[p]
  BY <1>3, Consumed
<1>5. Pos \in Nat /\ srcpos = Pos + Avail /\ srcpos <= cut /\ cut \in Nat
  BY BufFacts
<1> QED BY <1>1, <1>2, <1>4, <1>5

(* BlockRefused keeps the invariant. *)
LEMMA BlockRefusedStep == ASSUME IInv, BlockRefused PROVE IInv'
<1> USE DEF IInv
<1>1. Have("block") /\ UnitHere # 0 /\ UNCHANGED <<file, cut, unitVars, rawVars>>
      /\ UNCHANGED <<srcpos, rbuf, eof>> /\ rpos' = rpos + BlkLen /\ pc \notin {"idle", "closed"}
  BY DEF BlockRefused, srcVars, Have
<1>2. rpos' = rpos + Needs["block"]
  BY <1>1, CutFacts, NeedsFacts
<1>3. BufType' /\ BufInv'
  BY <1>1, <1>2, HeaderConsumed
<1> DEFINE u == UnitHere
<1>4. /\ u \in DOMAIN file /\ file[u].kind = "block"
      /\ Track(u) \/ \E m \in 1 .. u - 1 : Strayed(m)
  BY <1>1, AtHeader
<1>5. file[u].hst = OK /\ BlockCheck(u) # OK /\ Fail(BlockCheck(u))
  BY DEF BlockRefused
<1> HIDE DEF u
<1>6. BlockCheck(u) \in Statuses
  BY <1>4, CutFacts, UnitFacts, StatusFacts DEF BlockCheck
<1>7. Excused(BlockCheck(u))
  BY <1>4, <1>5, ExcusedBlock, ExcusedStrayed
<1> QED BY <1>1, <1>3, <1>5, <1>6, <1>7, Failing

(* RecordRefused keeps the invariant. *)
LEMMA RecordRefusedStep == ASSUME IInv, RecordRefused PROVE IInv'
<1> USE DEF IInv
<1>1. Have("record") /\ UnitHere # 0 /\ UNCHANGED <<file, cut, unitVars, rawVars>>
      /\ UNCHANGED <<srcpos, rbuf, eof>> /\ rpos' = rpos + RecLen /\ pc \notin {"idle", "closed"}
  BY DEF RecordRefused, srcVars, Have
<1>2. rpos' = rpos + Needs["record"]
  BY <1>1, CutFacts, NeedsFacts
<1>3. BufType' /\ BufInv'
  BY <1>1, <1>2, HeaderConsumed
<1> DEFINE u == UnitHere
<1>4. /\ u \in DOMAIN file /\ file[u].kind # "block"
      /\ Track(u) \/ \E m \in 1 .. u - 1 : Strayed(m)
  BY <1>1, AtHeader
<1>5. file[u].hst = OK /\ RecordCheck(u) # OK /\ Fail(RecordCheck(u))
  BY DEF RecordRefused
<1> HIDE DEF u
<1>6. RecordCheck(u) \in Statuses
  BY <1>4, CutFacts, UnitFacts, StatusFacts DEF RecordCheck
<1>7. Excused(RecordCheck(u))
  BY <1>4, <1>5, ExcusedRecord, ExcusedStrayed
<1> QED BY <1>1, <1>3, <1>5, <1>6, <1>7, Failing

(* RecordDictOOM keeps the invariant. *)
LEMMA RecordDictOOMStep == ASSUME IInv, RecordDictOOM PROVE IInv'
<1> USE DEF IInv
<1>1. Have("record") /\ UnitHere # 0 /\ UNCHANGED <<file, cut, unitVars, rawVars>>
      /\ UNCHANGED <<srcpos, rbuf, eof>> /\ rpos' = rpos + RecLen /\ pc \notin {"idle", "closed"}
  BY DEF RecordDictOOM, RecordHere, srcVars, Have
<1>2. rpos' = rpos + Needs["record"]
  BY <1>1, CutFacts, NeedsFacts
<1>3. BufType' /\ BufInv'
  BY <1>1, <1>2, HeaderConsumed
<1>4. Excused(ErrOOM) /\ ErrOOM \in Statuses /\ ErrOOM # OK /\ Fail(ErrOOM)
  BY StatusFacts DEF Excused, RecordDictOOM
<1> QED BY <1>1, <1>3, <1>4, Failing

(* What has been read whole is what the unit holds. *)
LEMMA ReadWhole ==
  ASSUME TypeOK, DstInv, pc \in Exact \cup {"decode"}, Len(dst) = file[cur].body + file[cur].ck
  PROVE  dst = Extent
<1>1. dst \in Seq(Positions) /\ Len(dst) \in Nat /\ DOMAIN dst = 1 .. Len(dst)
  BY DEF TypeOK
<1>2. \A i \in 1 .. Len(dst) : dst[i] = file[cur].at + file[cur].hlen + i - 1
  BY DEF DstInv
<1>3. dst = [i \in 1 .. Len(dst) |-> dst[i]]
  BY <1>1
<1>4. dst = [i \in 1 .. Len(dst) |-> file[cur].at + file[cur].hlen + i - 1]
  BY <1>1, <1>2
<1> QED BY <1>4 DEF Extent

(* DecodeFails keeps the invariant. *)
LEMMA DecodeFailsStep == ASSUME IInv, DecodeFails PROVE IInv'
<1> USE DEF IInv
<1>1. BufType' /\ BufInv'
  BY Untouched DEF DecodeFails, srcVars, bufVars
<1>2. pc = "decode" /\ UNCHANGED <<file, cut, unitVars, rawVars>> /\ DecodeStatus # OK /\ Fail(DecodeStatus)
  BY DEF DecodeFails, srcVars
<1>3. dst = Extent
  BY <1>2, ReadWhole DEF UnitInv
<1>4. cur \in DOMAIN file /\ file[cur].st \in Statuses /\ file[cur].needs \in BOOLEAN /\ ddict \in BOOLEAN
      /\ cur \in 1 .. Len(file)
  BY CutFacts, FileFacts, UnitFacts DEF TypeOK
<1>5. DecodeStatus = IF file[cur].st # OK THEN file[cur].st
                     ELSE IF file[cur].needs /\ ~ddict THEN ErrCorruptBlock ELSE OK
  BY <1>3 DEF DecodeStatus
<1>6. DecodeStatus \in Statuses
  BY <1>4, <1>5, StatusFacts
<1>7. Excused(DecodeStatus)
  <2>1. CASE Track(cur)
    <3>1. /\ file[cur].kind = "block" /\ file[cur].hst = OK
          /\ file[cur].off = RawBefore(cur) /\ ~(file[cur].raw > RawCap) /\ file[cur].chk = OK
      BY <1>2, <2>1, StatusFacts DEF UnitInv, BlockCheck, Track
    <3>2. Reached(cur) /\ (ddict <=> DictBefore(cur))
      BY <2>1 DEF Track
    <3>3. file[cur].st # OK => Excused(file[cur].st)
      BY <1>4, <3>1, <3>2, ExcusedPayload
    <3>4. file[cur].st = OK /\ file[cur].needs /\ ~DictBefore(cur) => Excused(ErrCorruptBlock)
      BY <1>4, <3>1, <3>2, ExcusedPayload
    <3>5. CASE file[cur].st # OK
      BY <1>5, <3>3, <3>5
    <3>6. CASE file[cur].st = OK
      <4>1. file[cur].needs /\ ~ddict /\ DecodeStatus = ErrCorruptBlock
        BY <1>2, <1>5, <3>6
      <4> QED BY <3>2, <3>4, <3>6, <4>1
    <3> QED BY <3>5, <3>6
  <2>2. CASE ~Track(cur)
    <3>1. PICK m \in 1 .. cur - 1 : Strayed(m)
      BY <1>2, <2>2 DEF TrackInv, Reading
    <3> QED BY <1>4, <3>1, ExcusedStrayed
  <2> QED BY <2>1, <2>2
<1> QED BY <1>1, <1>2, <1>6, <1>7, Failing

(* DictFails keeps the invariant. *)
LEMMA DictFailsStep == ASSUME IInv, DictFails PROVE IInv'
<1> USE DEF IInv
<1>1. BufType' /\ BufInv'
  BY Untouched DEF DictFails, srcVars, bufVars
<1>2. pc = "dict" /\ remain = 0 /\ UNCHANGED <<file, cut, unitVars, rawVars>>
  BY DEF DictFails, srcVars
<1>3. cur \in DOMAIN file /\ file[cur].st \in Statuses /\ file[cur].body \in Nat /\ Len(dst) \in Nat
  BY CutFacts, UnitFacts DEF TypeOK
<1>4. file[cur].kind = "dict" /\ file[cur].hst = OK /\ RecordCheck(cur) = OK /\ Len(dst) = file[cur].body
  BY <1>2, <1>3 DEF UnitInv
<1>5. dst = Extent
  <2>1. file[cur].ck = 0
    BY <1>3, <1>4, KindFacts, CutFacts
  <2> QED BY <1>2, <1>3, <1>4, <2>1, ReadWhole DEF Exact
<1>6. (file[cur].st # OK /\ Fail(file[cur].st)) \/ Fail(ErrOOM)
  BY <1>5 DEF DictFails
<1>7. CASE Fail(ErrOOM)
  <2>1. Excused(ErrOOM) /\ ErrOOM \in Statuses /\ ErrOOM # OK
    BY StatusFacts DEF Excused
  <2> QED BY <1>1, <1>2, <1>7, <2>1, Failing
<1>8. CASE file[cur].st # OK /\ Fail(file[cur].st)
  <2>1. Excused(file[cur].st)
    <3>1. CASE Track(cur)
      <4>1. ~ddict /\ file[cur].chk = OK /\ Reached(cur) /\ (ddict <=> DictBefore(cur))
        BY <1>4, <3>1, StatusFacts DEF RecordCheck, Track
      <4> QED BY <1>3, <1>4, <1>8, <4>1, ExcusedPayload
    <3>2. CASE ~Track(cur)
      <4>1. PICK m \in 1 .. cur - 1 : Strayed(m)
        BY <1>2, <3>2 DEF TrackInv, Reading
      <4> QED BY <1>3, <4>1, ExcusedStrayed
    <3> QED BY <3>1, <3>2
  <2> QED BY <1>1, <1>2, <1>3, <1>8, <2>1, Failing
<1> QED BY <1>6, <1>7, <1>8

-----------------------------------------------------------------------------
(* The actions that go on *)

(* Nothing is given to the caller, and no status sticks. *)
LEMMA SameOutput ==
  ASSUME IInv, UNCHANGED <<file, cut, raw, raw_pos, raw_offset, sticky>>, Returned' = Returned
  PROVE  RawInv' /\ OutputPrefix' /\ BlamesFirstBad'
<1> USE DEF IInv
<1>1. RawInv'
  <2>1. ASSUME NEW k \in 1 .. Len(raw')
        PROVE  StreamByte(raw[k])' /\ file'[raw'[k][1]].off + raw'[k][2] = raw_offset' - Len(raw') + k - 1
    <3>1. k \in 1 .. Len(raw)
      OBVIOUS
    <3>2. StreamByte(raw[k]) /\ file[raw[k][1]].off + raw[k][2] = raw_offset - Len(raw) + k - 1
      BY <3>1 DEF RawInv
    <3>3. StreamByte(raw[k])'
      BY <3>2, Fixed
    <3> QED BY <3>2, <3>3
  <2>2. Len(raw') <= raw_offset' /\ (sticky' = OK => Len(Returned') = raw_offset' - Len(raw') + raw_pos')
    BY DEF RawInv
  <2> QED BY <2>1, <2>2 DEF RawInv
<1>2. OutputPrefix'
  <2> DEFINE r == Returned
  <2>1. r' = r
    OBVIOUS
  <2> SUFFICES ASSUME NEW k \in DOMAIN r
               PROVE  StreamByte(r[k])' /\ file'[r[k][1]].off + r[k][2] = k - 1
    BY DEF OutputPrefix
  <2>2. StreamByte(r[k]) /\ file[r[k][1]].off + r[k][2] = k - 1
    BY DEF OutputPrefix
  <2> HIDE DEF r
  <2>3. StreamByte(r[k])'
    BY <2>1, <2>2, Fixed
  <2> QED BY <2>2, <2>3
<1>3. BlamesFirstBad'
  BY Fixed DEF BlamesFirstBad
<1> QED BY <1>1, <1>2, <1>3

(* A step inside a call that leaves alone what the caller sees. *)
LEMMA Quiet ==
  ASSUME IInv, UNCHANGED <<file, cut, raw, raw_pos, raw_offset, sticky, callVars>>,
         pc \notin {"idle", "closed"}, pc' \notin {"idle", "closed"},
         dst' \in Seq(Positions), remain' \in Nat, cur' \in DOMAIN file, pc' \in Pc,
         ddict' \in BOOLEAN, saw_eob' \in BOOLEAN, BufType', BufInv',
         DstInv', StickyInv', UnitInv', MagicInv', TrackInv'
  PROVE  IInv'
<1> USE DEF IInv
<1>1. TypeOK'
  <2>1. Positions' = Positions /\ Pc' = Pc
    BY PcFacts DEF Positions
  <2>2. RestType'
    BY <2>1 DEF RestType, TypeOK, callVars
  <2> QED BY <2>2, Types
<1>2. Returned' = Returned
  BY DEF Returned, callVars
<1> QED BY <1>1, <1>2, SameOutput

(* The decoder stays where it is in the archive. *)
LEMMA StaysPut ==
  ASSUME IInv, UNCHANGED <<file, cut, sticky, saw_eob, raw_offset, ddict>>, Pos' = Pos,
         Lost \/ \E u \in 2 .. Len(file) + 1 : Track(u) /\ Pos = Begin(u)
  PROVE  Lost' \/ \E u \in 2 .. Len(file') + 1 : Track(u)' /\ Pos' = Begin(u)'
<1> USE DEF IInv
<1>1. CASE Lost
  <2>1. Pos \in Nat
    BY BufFacts
  <2> QED BY <1>1, <2>1, StaysLost
<1>2. CASE \E u \in 2 .. Len(file) + 1 : Track(u) /\ Pos = Begin(u)
  <2>1. PICK u \in 2 .. Len(file) + 1 : Track(u) /\ Pos = Begin(u)
    BY <1>2
  <2>2. Track(u)' /\ Pos' = Begin(u)'
    BY <2>1, Fixed DEF Track
  <2> QED BY <2>2
<1> QED BY <1>1, <1>2

(* The decoder stays inside its unit. *)
LEMMA StaysReading ==
  ASSUME IInv, UNCHANGED <<file, cut, cur, raw_offset, ddict>>, pc \in Reading, pc' \in Reading
  PROVE  TrackInv' /\ MagicInv'
<1> USE DEF IInv
<1>1. Track(cur) \/ \E m \in 1 .. cur - 1 : Strayed(m)
  BY DEF TrackInv
<1>2. Track(cur)' \/ \E m \in 1 .. cur' - 1 : Strayed(m)'
  <2>1. CASE Track(cur)
    <3>1. Track(cur)'
      BY <2>1, Fixed DEF Track
    <3> QED BY <3>1
  <2>2. CASE \E m \in 1 .. cur - 1 : Strayed(m)
    BY <2>2, Fixed
  <2> QED BY <1>1, <2>1, <2>2
<1> QED BY <1>2 DEF TrackInv, MagicInv, Reading

(* RbufFill keeps the invariant. *)
LEMMA RbufFillStep == ASSUME IInv, RbufFill PROVE IInv'
<1> USE DEF IInv
<1>1. PICK d \in Deliveries(RBufSize - Avail) :
        rbuf' = Buffered(Avail) \o d /\ eof' = (d = <<>>) /\ srcpos' = srcpos + Len(d)
  BY DEF RbufFill
<1>2. WantsFill /\ ~eof /\ rpos' = 0 /\ UNCHANGED <<file, cut, unitVars, rawVars, sticky, pc, callVars>>
  BY DEF RbufFill
<1>3. BufType' /\ BufInv' /\ Pos' = Pos
  BY <1>1, <1>2, Refill
<1>4. pc \in {"head", "extra", "magic", "record", "block", "skip"}
  BY <1>2, PcFacts DEF WantsFill
<1>5. /\ UNCHANGED <<raw, raw_pos, raw_offset, ddict, saw_eob, dst, remain, cur>>
      /\ UNCHANGED <<len, got, ret, out, calls>>
  BY <1>2 DEF unitVars, rawVars, callVars
<1>6. DstInv' /\ UnitInv'
  BY <1>2, <1>4 DEF DstInv, UnitInv, Exact
<1>7. MagicInv'
  BY <1>2, <1>3 DEF MagicInv
<1>8. StickyInv'
  BY <1>2, <1>5 DEF StickyInv
<1>9. TrackInv'
  <2>1. CASE pc \in {"head", "extra"}
    BY <1>2, <1>3, <2>1 DEF TrackInv, Reading
  <2>2. CASE pc \in {"magic", "record", "block"}
    <3>1. Lost' \/ \E u \in 2 .. Len(file') + 1 : Track(u)' /\ Pos' = Begin(u)'
      BY <1>2, <1>3, <1>5, <2>2, StaysPut DEF TrackInv
    <3> QED BY <1>2, <2>2, <3>1 DEF TrackInv, Reading
  <2>3. CASE pc = "skip"
    <3>1. Lost => Lost'
      BY <1>2, <1>3, BufFacts, StaysLost
    <3>2. Track(cur) => Track(cur)'
      BY <1>2, <1>5, Fixed DEF Track
    <3>3. ~Misframed(cur) => ~Misframed(cur)'
      BY <1>2, <1>5, Fixed
    <3>4. Pos' + remain' = Pos + remain /\ UnitEnd(file[cur])' = UnitEnd(file[cur])
      BY <1>2, <1>3, <1>5
    <3> QED BY <1>2, <1>5, <2>3, <3>1, <3>2, <3>3, <3>4 DEF TrackInv, Reading
  <2> QED BY <1>4, <2>1, <2>2, <2>3
<1>10. dst' \in Seq(Positions) /\ remain' \in Nat /\ cur' \in DOMAIN file /\ pc' \in Pc
       /\ ddict' \in BOOLEAN /\ saw_eob' \in BOOLEAN
  BY <1>2, <1>5 DEF TypeOK
<1> QED BY <1>2, <1>3, <1>4, <1>5, <1>6, <1>7, <1>8, <1>9, <1>10, Quiet

(* read_exact goes on where it is. *)
LEMMA Received ==
  ASSUME IInv, pc \in Exact, NEW d \in Seq(Positions), NEW n \in Nat, n <= remain,
         Len(d) = n, \A i \in 1 .. n : d[i] = Pos + i - 1,
         dst' = dst \o d, remain' = remain - n, Pos' = Pos + n,
         BufType', BufInv', UNCHANGED <<file, cut, cur, rawVars, sticky, pc, callVars>>
  PROVE  IInv'
<1> USE DEF IInv
<1>0. /\ pc' = pc /\ pc \in Exact /\ pc \in Reading /\ pc \in {"payload", "cksum", "dict"}
      /\ UNCHANGED <<raw, raw_pos, raw_offset, ddict, saw_eob>>
      /\ UNCHANGED <<len, got, ret, out, calls>>
  BY DEF Exact, Reading, rawVars, callVars
<1>1. /\ dst \in Seq(Positions) /\ Len(dst) \in Nat /\ remain \in Nat /\ cur \in DOMAIN file /\ Pos \in Nat
      /\ file[cur].at \in Nat /\ file[cur].hlen \in Nat /\ file[cur].body \in Nat /\ file[cur].ck \in Nat
  <2>1. dst \in Seq(Positions) /\ Len(dst) \in Nat /\ remain \in Nat /\ cur \in DOMAIN file
    BY DEF TypeOK
  <2>2. Pos \in Nat /\ file \in Files
    BY BufFacts, CutFacts
  <2> QED BY <2>1, <2>2, UnitFacts
<1>2. /\ dst' \in Seq(Positions) /\ Len(dst') = Len(dst) + n
      /\ \A i \in 1 .. Len(dst) + n : dst'[i] = IF i <= Len(dst) THEN dst[i] ELSE d[i - Len(dst)]
  BY <1>1, ConcatProperties
<1>3. remain' \in Nat
  BY <1>1
<1>4. DstInv'
  <2>1. Pos = file[cur].at + file[cur].hlen + Len(dst)
        /\ \A i \in 1 .. Len(dst) : dst[i] = file[cur].at + file[cur].hlen + i - 1
    BY <1>0 DEF DstInv
  <2>2. Pos' = file[cur].at + file[cur].hlen + Len(dst')
    BY SMTT(30), <1>1, <1>2, <2>1
  <2>3. ASSUME NEW i \in 1 .. Len(dst') PROVE dst'[i] = file[cur].at + file[cur].hlen + i - 1
    <3>1. i \in 1 .. Len(dst) + n /\ i \in Nat /\ i >= 1
      BY <1>1, <1>2
    <3>2. CASE i <= Len(dst)
      <4>1. i \in 1 .. Len(dst) /\ dst'[i] = dst[i]
        BY <1>1, <1>2, <3>1, <3>2
      <4> QED BY <2>1, <4>1
    <3>3. CASE ~(i <= Len(dst))
      <4>1. i - Len(dst) \in 1 .. n
        BY <1>1, <3>1, <3>3
      <4>2. dst'[i] = d[i - Len(dst)]
        BY <1>2, <3>1, <3>3
      <4>3. d[i - Len(dst)] = Pos + (i - Len(dst)) - 1
        BY <4>1
      <4>4. dst'[i] = Pos + (i - Len(dst)) - 1
        BY <4>2, <4>3
      <4>5. Pos = file[cur].at + file[cur].hlen + Len(dst)
        BY <2>1
      <4>6. file[cur].at \in Nat /\ file[cur].hlen \in Nat /\ Len(dst) \in Nat /\ i \in Nat
        BY <1>1, <3>1
      <4>7. \A p, h, l, k \in Nat : (p + h + l) + (k - l) - 1 = p + h + k - 1
        OBVIOUS
      <4> HIDE DEF IInv
      <4> QED BY ONLY SMTT(30), <4>4, <4>5, <4>6, <4>7
    <3> QED BY <3>2, <3>3
  <2> QED BY <2>2, <2>3 DEF DstInv
<1>5. UnitInv'
  <2>1. Len(dst') + remain' = Len(dst) + remain
    BY <1>1, <1>2
  <2>2. BlockCheck(cur)' = BlockCheck(cur) /\ RecordCheck(cur)' = RecordCheck(cur)
    BY <1>0 DEF BlockCheck, RecordCheck
  <2> QED BY <1>0, <2>1, <2>2 DEF UnitInv
<1>6. StickyInv'
  BY <1>0 DEF StickyInv
<1>7. TrackInv' /\ MagicInv'
  BY <1>0, StaysReading
<1>8. cur' \in DOMAIN file /\ pc' \in Pc /\ ddict' \in BOOLEAN /\ saw_eob' \in BOOLEAN
  BY <1>0 DEF TypeOK
<1> QED BY <1>0, <1>2, <1>3, <1>4, <1>5, <1>6, <1>7, <1>8, Quiet

(* TakeBuffered keeps the invariant. *)
LEMMA TakeBufferedStep == ASSUME IInv, TakeBuffered PROVE IInv'
<1> USE DEF IInv
<1> DEFINE n == Smaller(remain, Avail)
<1>1. remain \in Nat /\ Avail \in Nat
  BY BufFacts DEF TypeOK
<1>2. n \in 0 .. Avail /\ n \in Nat /\ n <= remain
  BY <1>1 DEF Smaller
<1>3. /\ pc \in Exact /\ dst' = dst \o Buffered(n) /\ rpos' = rpos + n /\ remain' = remain - n
      /\ UNCHANGED <<file, cut, srcpos, rbuf, eof, cur, rawVars, sticky, pc, callVars>>
  BY DEF TakeBuffered, srcVars
<1> HIDE DEF n
<1>4. Buffered(n) \in Seq(Positions) /\ Len(Buffered(n)) = n /\ \A i \in 1 .. n : Buffered(n)[i] = Pos + i - 1
  BY <1>2, BufferedFacts
<1>5. BufType' /\ BufInv' /\ Pos' = Pos + n
  BY <1>2, <1>3, Consumed
<1> QED BY <1>2, <1>3, <1>4, <1>5, Received

(* ReadDirect keeps the invariant. *)
LEMMA ReadDirectStep == ASSUME IInv, ReadDirect PROVE IInv'
<1> USE DEF IInv
<1>1. PICK d \in Deliveries(remain) \ {<<>>} :
        dst' = dst \o d /\ remain' = remain - Len(d) /\ srcpos' = srcpos + Len(d)
  BY DEF ReadDirect
<1>2. /\ pc \in Exact /\ remain > 0 /\ Avail = 0 /\ ~eof
      /\ UNCHANGED <<file, cut, rbuf, rpos, eof, cur, rawVars, sticky, pc, callVars>>
  BY DEF ReadDirect, bufVars
<1>3. remain \in Nat /\ Pos \in Nat /\ srcpos = Pos + 0 /\ srcpos <= cut /\ cut \in Nat /\ srcpos \in 0 .. cut
      /\ rpos \in Nat /\ Len(rbuf) = rpos + 0 /\ Len(rbuf) <= RBufSize
  BY <1>2, BufFacts DEF TypeOK
<1>4. /\ d \in Seq(Positions) /\ Len(d) \in Nat /\ Len(d) <= remain /\ srcpos + Len(d) <= cut
      /\ \A i \in 1 .. Len(d) : d[i] = srcpos + i - 1
  BY <1>1, <1>3, DeliveryFacts
<1>5. Avail' = 0 /\ Pos' = Pos + Len(d)
  BY <1>1, <1>2, <1>3, <1>4 DEF Avail, Pos
<1>6. BufType'
  <2>1. Positions' = Positions /\ srcpos' \in 0 .. cut
    BY <1>1, <1>2, <1>3, <1>4 DEF Positions
  <2> QED BY <1>2, <2>1 DEF BufType, TypeOK
<1>7. BufInv'
  <2>1. Avail' <= srcpos' /\ ~eof'
    BY <1>1, <1>2, <1>3, <1>4, <1>5
  <2>2. rpos' + 1 .. Len(rbuf') = {}
    BY <1>2, <1>3
  <2> QED BY <2>1, <2>2 DEF BufInv
<1> QED BY SMTT(30), <1>1, <1>2, <1>3, <1>4, <1>5, <1>6, <1>7, Received

(* The payload, then the checksum, has been read whole. *)
LEMMA PayloadReadStep == ASSUME IInv, PayloadRead PROVE IInv'
<1> USE DEF IInv
<1>1. /\ pc = "payload" /\ pc' = "cksum" /\ remain = 0 /\ remain' = file[cur].ck
      /\ UNCHANGED <<file, cut, srcpos, rbuf, rpos, eof, dst, cur, sticky, callVars>>
      /\ UNCHANGED <<raw, raw_pos, raw_offset, ddict, saw_eob>> /\ UNCHANGED <<len, got, ret, out, calls>>
  BY DEF PayloadRead, srcVars, bufVars, rawVars, callVars
<1>2. BufType' /\ BufInv' /\ Pos' = Pos
  BY <1>1, Untouched
<1>3. file[cur].ck \in Nat /\ Len(dst) \in Nat /\ file[cur].body \in Nat /\ cur \in DOMAIN file
  BY CutFacts, UnitFacts DEF TypeOK
<1>4. UnitInv'
  <2>1. BlockCheck(cur)' = BlockCheck(cur)
    BY <1>1 DEF BlockCheck
  <2>2. Len(dst) + 0 = file[cur].body
    BY <1>1 DEF UnitInv
  <2>3. Len(dst') + remain' = file[cur].body + file[cur].ck
    BY <1>1, <1>3, <2>2
  <2> QED BY <1>1, <2>1, <2>3 DEF UnitInv
<1>5. DstInv'
  BY <1>1, <1>2 DEF DstInv, Exact
<1>6. StickyInv'
  BY <1>1 DEF StickyInv, InBlock, Creating, Reading
<1>7. TrackInv' /\ MagicInv'
  BY <1>1, StaysReading DEF Reading
<1>8. dst' \in Seq(Positions) /\ cur' \in DOMAIN file /\ ddict' \in BOOLEAN /\ saw_eob' \in BOOLEAN /\ pc' \in Pc
  BY <1>1, PcFacts DEF TypeOK
<1> QED BY <1>1, <1>2, <1>3, <1>4, <1>5, <1>6, <1>7, <1>8, Quiet

(* CksumRead keeps the invariant. *)
LEMMA CksumReadStep == ASSUME IInv, CksumRead PROVE IInv'
<1> USE DEF IInv
<1>1. /\ pc = "cksum" /\ pc' = "decode" /\ remain = 0
      /\ UNCHANGED <<file, cut, srcpos, rbuf, rpos, eof, dst, remain, cur, sticky, callVars>>
      /\ UNCHANGED <<raw, raw_pos, raw_offset, ddict, saw_eob>> /\ UNCHANGED <<len, got, ret, out, calls>>
  BY DEF CksumRead, srcVars, bufVars, rawVars, unitVars, callVars
<1>2. BufType' /\ BufInv' /\ Pos' = Pos
  BY <1>1, Untouched
<1>3. Len(dst) \in Nat /\ cur \in DOMAIN file
  BY DEF TypeOK
<1>4. UnitInv'
  <2>1. BlockCheck(cur)' = BlockCheck(cur)
    BY <1>1 DEF BlockCheck
  <2>2. Len(dst) + 0 = file[cur].body + file[cur].ck
    BY <1>1 DEF UnitInv
  <2>3. Len(dst') = file[cur].body + file[cur].ck
    BY <1>1, <1>3, <2>2
  <2> QED BY <1>1, <2>1, <2>3 DEF UnitInv
<1>5. DstInv'
  BY <1>1, <1>2 DEF DstInv, Exact
<1>6. StickyInv'
  BY <1>1 DEF StickyInv, InBlock, Creating, Reading
<1>7. TrackInv' /\ MagicInv'
  BY <1>1, StaysReading DEF Reading
<1>8. dst' \in Seq(Positions) /\ remain' \in Nat /\ ddict' \in BOOLEAN /\ saw_eob' \in BOOLEAN /\ pc' \in Pc
      /\ cur' \in DOMAIN file
  BY <1>1, PcFacts DEF TypeOK
<1> QED BY <1>1, <1>2, <1>4, <1>5, <1>6, <1>7, <1>8, Quiet

-----------------------------------------------------------------------------
(* The file header *)

(* HeadParse keeps the invariant. *)
LEMMA HeadParseStep == ASSUME IInv, HeadParse PROVE IInv'
<1> USE DEF IInv
<1>0. /\ pc = "head" /\ Avail >= HeadLen /\ UNCHANGED <<file, cut, srcpos, rbuf, eof, unitVars, rawVars>>
      /\ 1 \in DOMAIN file /\ file \in Files
  BY CutFacts, FileFacts, NeedsFacts DEF HeadParse, Have, srcVars
<1>1. CASE file[1].hst # OK
  <2>1. Fail(file[1].hst) /\ UNCHANGED rpos
    BY <1>1 DEF HeadParse
  <2>2. BufType' /\ BufInv'
    BY <1>0, <2>1, Untouched
  <2>3. file[1].hst \in Statuses /\ Reached(1)
    BY <1>0, UnitFacts DEF Reached
  <2>4. Excused(file[1].hst)
    BY <1>0, <1>1, <2>3, ExcusedHeader
  <2> QED BY <1>0, <1>1, <2>1, <2>2, <2>3, <2>4, Failing
<1>2. CASE file[1].hst = OK
  <2>1. /\ rpos' = rpos + HeadLen /\ pc' = "extra" /\ UNCHANGED <<sticky, callVars>>
        /\ UNCHANGED <<raw, raw_pos, raw_offset, ddict, saw_eob, dst, remain, cur, len, got, ret, out, calls>>
    BY <1>0, <1>2 DEF HeadParse, callVars, unitVars, rawVars
  <2>2. HeadLen \in 0 .. Avail /\ HeadLen \in Nat
    BY <1>0, BufFacts, SizeAssumption
  <2>3. BufType' /\ BufInv' /\ Pos' = Pos + HeadLen
    BY <1>0, <2>1, <2>2, Consumed
  <2>4. DstInv' /\ UnitInv' /\ MagicInv'
    BY <2>1 DEF DstInv, UnitInv, MagicInv, Exact
  <2>5. StickyInv'
    BY <1>0, <2>1 DEF StickyInv, InBlock, Creating, Reading
  <2>6. TrackInv'
    <3>1. Pos = 0
      BY <1>0 DEF TrackInv
    <3>2. Pos' = HeadLen
      BY <2>2, <2>3, <3>1
    <3> QED BY <1>0, <1>2, <2>1, <3>2 DEF TrackInv, Reading
  <2>7. /\ dst' \in Seq(Positions) /\ remain' \in Nat /\ cur' \in DOMAIN file /\ pc' \in Pc
        /\ ddict' \in BOOLEAN /\ saw_eob' \in BOOLEAN
    BY <2>1, PcFacts DEF TypeOK
  <2> QED BY <1>0, <2>1, <2>3, <2>4, <2>5, <2>6, <2>7, Quiet
<1> QED BY <1>1, <1>2

(* HeadExtra keeps the invariant. *)
LEMMA HeadExtraStep == ASSUME IInv, HeadExtra PROVE IInv'
<1> USE DEF IInv
<1>1. /\ pc = "extra" /\ pc' = "setup" /\ Avail >= file[1].body /\ rpos' = rpos + file[1].body
      /\ UNCHANGED <<file, cut, srcpos, rbuf, eof, sticky, callVars>>
      /\ UNCHANGED <<raw, raw_pos, raw_offset, ddict, saw_eob, dst, remain, cur, len, got, ret, out, calls>>
      /\ 1 \in DOMAIN file /\ file \in Files
  BY CutFacts, FileFacts, NeedsFacts DEF HeadExtra, Have, srcVars, callVars, unitVars, rawVars
<1>2. file[1].body \in Nat /\ file[1].at = 0 /\ file[1].ck = 0 /\ file[1].hlen = HeadLen
  BY <1>1, UnitFacts, KindFacts
<1>3. file[1].body \in 0 .. Avail
  BY <1>1, <1>2, BufFacts
<1>4. BufType' /\ BufInv' /\ Pos' = Pos + file[1].body
  BY <1>1, <1>3, Consumed
<1>5. DstInv' /\ UnitInv' /\ MagicInv'
  BY <1>1 DEF DstInv, UnitInv, MagicInv, Exact
<1>6. StickyInv'
  BY <1>1 DEF StickyInv, InBlock, Creating, Reading
<1>7. TrackInv'
  <2>1. Pos = HeadLen /\ file[1].hst = OK
    BY <1>1 DEF TrackInv
  <2>2. Pos' = UnitEnd(file[1])
    BY <1>2, <1>4, <2>1, SizeAssumption DEF UnitEnd
  <2> QED BY <1>1, <2>1, <2>2 DEF TrackInv, Reading
<1>8. /\ dst' \in Seq(Positions) /\ remain' \in Nat /\ cur' \in DOMAIN file /\ pc' \in Pc
      /\ ddict' \in BOOLEAN /\ saw_eob' \in BOOLEAN
  BY <1>1, PcFacts DEF TypeOK
<1> QED BY <1>1, <1>4, <1>5, <1>6, <1>7, <1>8, Quiet

(* Behind a unit that is sound begins the next. *)
LEMMA NextUnit ==
  ASSUME TypeOK, UNCHANGED <<file, cut>>, NEW u \in DOMAIN file, Reached(u), Sound(u), file[u].kind # "eob",
         Pos' = UnitEnd(file[u]),
         raw_offset' = IF file[u].kind = "block" THEN file[u].off + file[u].raw ELSE RawBefore(u),
         ddict' <=> (DictBefore(u) \/ file[u].kind = "dict")
  PROVE  \E v \in 2 .. Len(file') + 1 : Track(v)' /\ Pos' = Begin(v)'
<1>1. file \in Files /\ u \in Nat /\ u >= 1 /\ u <= Len(file) /\ Len(file) \in Nat
  BY CutFacts, UnitFacts, FileFacts
<1>2. u + 1 \in 2 .. Len(file') + 1
  BY <1>1
<1>3. Reached(u + 1) /\ raw_offset' = RawBefore(u + 1) /\ (ddict' <=> DictBefore(u + 1))
  BY <1>1, BeforeNext
<1>4. ~Misframed(u)
  BY DEF Sound
<1>5. Pos' = Begin(u + 1)
  BY <1>1, <1>4, FramedNext
<1>6. Track(u + 1)'
  <2>1. Reached(u + 1)' /\ RawBefore(u + 1)' = RawBefore(u + 1) /\ DictBefore(u + 1)' = DictBefore(u + 1)
    BY <1>3, Fixed
  <2> QED BY <1>3, <2>1 DEF Track
<1>7. Begin(u + 1)' = Begin(u + 1)
  BY Fixed
<1> QED BY <1>2, <1>5, <1>6, <1>7

(* Setup keeps the invariant. *)
LEMMA SetupStep == ASSUME IInv, Setup PROVE IInv'
<1> USE DEF IInv
<1>1. /\ pc = "setup" /\ UNCHANGED <<file, cut, unitVars, rawVars, srcpos, rbuf, rpos, eof>>
      /\ UNCHANGED <<raw, raw_pos, raw_offset, ddict, saw_eob, dst, remain, cur>>
      /\ 1 \in DOMAIN file /\ file \in Files
  BY CutFacts, FileFacts DEF Setup, srcVars, bufVars, unitVars, rawVars
<1>2. BufType' /\ BufInv' /\ Pos' = Pos
  BY <1>1, Untouched
<1>3. /\ file[1].hst = OK /\ Pos = UnitEnd(file[1]) /\ Reached(1)
      /\ file[1].st \in Statuses /\ file[1].kind = "head" /\ file[1].chk = OK
  BY <1>1, UnitFacts, KindFacts DEF TrackInv, Reached
<1>4. CASE file[1].st # OK
  <2>1. Fail(file[1].st)
    BY <1>4 DEF Setup
  <2>2. Excused(file[1].st)
    BY <1>1, <1>3, <1>4, ExcusedPayload
  <2> QED BY <1>1, <1>2, <1>3, <1>4, <2>1, <2>2, Failing
<1>5. CASE file[1].st = OK
  <2>1. pc' = "idle" /\ UNCHANGED <<sticky, len, got, ret, out, calls>>
    BY <1>5 DEF Setup, callVars
  <2>2. len = 0 /\ got = <<>> /\ raw_offset = 0 /\ ~ddict /\ ~saw_eob /\ raw_pos = Len(raw)
    BY <1>1 DEF StickyInv, Creating
  <2>3. TypeOK'
    <3>1. Positions' = Positions /\ pc' \in Pc'
      BY <1>1, <2>1, PcFacts DEF Positions
    <3>2. RestType'
      BY <1>1, <2>1, <3>1 DEF RestType, TypeOK
    <3> QED BY <1>2, <3>2, Types
  <2>4. Returned' = Returned
    <3>1. Returned = out \o <<>> /\ Returned' = out
      BY <1>1, <2>1, <2>2 DEF Returned
    <3> QED BY <3>1 DEF TypeOK
  <2>5. RawInv' /\ OutputPrefix' /\ BlamesFirstBad'
    BY <1>1, <2>1, <2>4, SameOutput
  <2>6. DstInv' /\ UnitInv' /\ MagicInv'
    BY <2>1 DEF DstInv, UnitInv, MagicInv, Exact
  <2>7. StickyInv'
    BY <1>1, <2>1, <2>2 DEF StickyInv, InBlock, Creating, Reading
  <2>8. Sound(1)
    <3>1. Complete(1)
      BY <1>3, BufFacts DEF Complete
    <3>2. ~Misframed(1)
      BY <1>1, <1>3, FramedNext
    <3> QED BY <1>1, <1>3, <1>5, <3>1, <3>2, SoundUnit
  <2>9. RawBefore(1) = 0 /\ ~DictBefore(1)
    BY DEF RawBefore, DictBefore, BlocksBefore
  <2>10. \E v \in 2 .. Len(file') + 1 : Track(v)' /\ Pos' = Begin(v)'
    BY <1>1, <1>2, <1>3, <2>2, <2>8, <2>9, NextUnit
  <2>11. TrackInv'
    BY <1>1, <2>1, <2>2, <2>10 DEF TrackInv, Reading
  <2> QED BY <1>2, <2>3, <2>5, <2>6, <2>7, <2>11
<1> QED BY <1>4, <1>5

-----------------------------------------------------------------------------
(* Headers inside next_block *)

(* Magic keeps the invariant. *)
LEMMA MagicStep == ASSUME IInv, Magic PROVE IInv'
<1> USE DEF IInv
<1> DEFINE Here == { u \in DOMAIN file : rbuf[rpos + 1] = file[u].at }
<1>1. /\ pc = "magic" /\ Avail >= MagicLen
      /\ UNCHANGED <<file, cut, srcpos, rbuf, rpos, eof, sticky, callVars>>
      /\ UNCHANGED <<raw, raw_pos, raw_offset, ddict, saw_eob, dst, remain, cur, len, got, ret, out, calls>>
  BY CutFacts, NeedsFacts DEF Magic, Have, srcVars, bufVars, callVars, unitVars, rawVars
<1>2. /\ Here = {} => pc' \in {"block", "record"}
      /\ Here # {} => pc' = IF \E u \in Here : file[u].kind = "block" THEN "block" ELSE "record"
  BY DEF Magic
<1>3. BufType' /\ BufInv' /\ Pos' = Pos
  BY <1>1, Untouched
<1>4. rbuf[rpos + 1] = Pos
  <2>1. 1 \in 1 .. Avail /\ Pos \in Nat
    BY <1>1, BufFacts, SizeAssumption
  <2>2. rbuf[rpos + 1] = Pos + 1 - 1
    BY <2>1, BufBytes
  <2> QED BY <2>1, <2>2
<1>5. \A u : u \in Here <=> u \in DOMAIN file /\ file[u].at = Pos
  BY <1>4
<1>6. \A u, v \in Here : u = v
  BY <1>5, Places, CutFacts
<1> HIDE DEF Here
<1>7. pc' \in {"block", "record"}
  BY <1>2
<1>8. MagicInv'
  <2>1. ASSUME NEW u \in DOMAIN file, file[u].at = Pos
        PROVE  (pc' = "block" => file[u].kind = "block") /\ (pc' = "record" => file[u].kind # "block")
    <3>1. u \in Here /\ \A v \in Here : v = u
      BY <1>5, <1>6, <2>1
    <3>2. pc' = IF file[u].kind = "block" THEN "block" ELSE "record"
      BY <1>2, <3>1
    <3> QED BY <3>2
  <2> QED BY <1>1, <1>3, <2>1 DEF MagicInv
<1>9. DstInv' /\ UnitInv'
  BY <1>7 DEF DstInv, UnitInv, Exact
<1>10. StickyInv'
  BY <1>1, <1>7 DEF StickyInv, InBlock, Creating, Reading
<1>11. TrackInv'
  <2>1. Lost' \/ \E u \in 2 .. Len(file') + 1 : Track(u)' /\ Pos' = Begin(u)'
    BY <1>1, <1>3, StaysPut DEF TrackInv
  <2> QED BY <1>7, <2>1 DEF TrackInv, Reading
<1>12. /\ dst' \in Seq(Positions) /\ remain' \in Nat /\ cur' \in DOMAIN file /\ pc' \in Pc
       /\ ddict' \in BOOLEAN /\ saw_eob' \in BOOLEAN
  BY <1>1, <1>7, PcFacts DEF TypeOK
<1> QED BY <1>1, <1>3, <1>7, <1>8, <1>9, <1>10, <1>11, <1>12, Quiet

(* A unit whose header passes the checks is opened. *)
LEMMA Opened ==
  ASSUME IInv, NEW p \in {"record", "block"}, Have(p), NEW u, u = UnitHere, u # 0, rpos' = rpos + Needs[p],
         UNCHANGED <<file, cut, srcpos, rbuf, eof>>
  PROVE  /\ BufType' /\ BufInv'
         /\ u \in DOMAIN file /\ u > 1 /\ file[u].at = Pos
         /\ p = "block" <=> file[u].kind = "block"
         /\ Pos' = file[u].at + file[u].hlen /\ Pos \in Nat /\ Pos' \in Nat /\ Pos' >= file[u].at /\ Pos' <= cut
         /\ Track(u) \/ \E m \in 1 .. u - 1 : Strayed(m)
<1> USE DEF IInv
<1>1. /\ u \in DOMAIN file /\ u > 1 /\ file[u].at = Pos
      /\ p = "block" <=> file[u].kind = "block"
      /\ file[u].hlen = Needs[p]
      /\ Track(u) \/ \E m \in 1 .. u - 1 : Strayed(m)
  BY AtHeader
<1>2. BufType' /\ BufInv' /\ Pos' = Pos + Needs[p] /\ Needs[p] \in Nat /\ Pos \in Nat /\ Pos' <= cut
  BY HeaderConsumed
<1>3. Pos' = file[u].at + file[u].hlen /\ Pos' \in Nat /\ Pos' >= file[u].at
  BY <1>1, <1>2
<1> QED BY <1>1, <1>2, <1>3

(* The payload of a block or of a dictionary is read next. *)
LEMMA OpenedPayload ==
  ASSUME IInv, NEW p \in {"record", "block"}, Have(p), NEW u, u = UnitHere, u # 0, rpos' = rpos + Needs[p],
         UNCHANGED <<file, cut, srcpos, rbuf, eof, rawVars, sticky, callVars>>,
         cur' = u, dst' = <<>>, remain' = file[u].body,
         \/ p = "block" /\ pc' = "payload" /\ file[u].hst = OK /\ BlockCheck(u) = OK
         \/ p = "record" /\ pc' = "dict" /\ file[u].kind = "dict" /\ file[u].hst = OK /\ RecordCheck(u) = OK
  PROVE  IInv'
<1> USE DEF IInv
<1>1. /\ BufType' /\ BufInv'
      /\ u \in DOMAIN file /\ file[u].at = Pos
      /\ p = "block" <=> file[u].kind = "block"
      /\ Pos' = file[u].at + file[u].hlen /\ Pos' \in Nat
      /\ Track(u) \/ \E m \in 1 .. u - 1 : Strayed(m)
  BY Opened
<1>2. pc = p /\ pc' \in {"payload", "dict"} /\ pc \notin {"idle", "closed"} /\ pc' \notin {"idle", "closed"}
      /\ UNCHANGED <<raw, raw_pos, raw_offset, ddict, saw_eob, len, got, ret, out, calls>>
  BY DEF Have, rawVars, callVars
<1>3. file[u].body \in Nat /\ file[u].at \in Nat /\ file[u].hlen \in Nat
  BY <1>1, CutFacts, UnitFacts
<1>4. dst' \in Seq(Positions) /\ Len(dst') = 0 /\ remain' \in Nat /\ Len(dst') + remain' = file[u].body
  BY <1>3
<1>5. DstInv'
  <2>1. Pos' = file'[cur'].at + file'[cur'].hlen + Len(dst')
    BY <1>1, <1>3, <1>4
  <2>2. \A i \in 1 .. Len(dst') : dst'[i] = file'[cur'].at + file'[cur'].hlen + i - 1
    BY <1>4
  <2> QED BY <2>1, <2>2 DEF DstInv
<1>6. UnitInv'
  <2>1. BlockCheck(cur)' = BlockCheck(u) /\ RecordCheck(cur)' = RecordCheck(u)
    BY <1>2 DEF BlockCheck, RecordCheck
  <2> QED BY <1>1, <1>4, <2>1 DEF UnitInv
<1>7. StickyInv'
  BY <1>2 DEF StickyInv, InBlock, Creating, Reading
<1>8. TrackInv' /\ MagicInv'
  <2>1. Track(u) => Track(u)'
    BY <1>2, Fixed DEF Track
  <2>2. (\E m \in 1 .. u - 1 : Strayed(m)) => \E m \in 1 .. u - 1 : Strayed(m)'
    BY Fixed
  <2>3. Track(u)' \/ \E m \in 1 .. u - 1 : Strayed(m)'
    BY <1>1, <2>1, <2>2
  <2>4. Track(cur)' \/ \E m \in 1 .. cur' - 1 : Strayed(m)'
    BY <2>3 DEF Track
  <2> QED BY <1>2, <2>4 DEF TrackInv, MagicInv, Reading
<1>9. cur' \in DOMAIN file /\ pc' \in Pc /\ ddict' \in BOOLEAN /\ saw_eob' \in BOOLEAN
  BY <1>1, <1>2, PcFacts DEF TypeOK
<1> QED BY <1>1, <1>2, <1>4, <1>5, <1>6, <1>7, <1>8, <1>9, Quiet

(* BlockHeader keeps the invariant. *)
LEMMA BlockHeaderStep == ASSUME IInv, BlockHeader PROVE IInv'
<1>1. /\ Have("block") /\ UnitHere # 0 /\ file[UnitHere].hst = OK /\ BlockCheck(UnitHere) = OK
      /\ rpos' = rpos + BlkLen /\ cur' = UnitHere /\ dst' = <<>> /\ remain' = file[UnitHere].body /\ pc' = "payload"
      /\ UNCHANGED <<file, cut, srcpos, rbuf, eof, rawVars, sticky, callVars>>
  BY DEF BlockHeader, srcVars
<1>2. rpos' = rpos + Needs["block"]
  BY <1>1, CutFacts, NeedsFacts DEF IInv
<1> QED BY <1>1, <1>2, OpenedPayload

(* RecordDict keeps the invariant. *)
LEMMA RecordDictStep == ASSUME IInv, RecordDict PROVE IInv'
<1>1. /\ Have("record") /\ UnitHere # 0 /\ file[UnitHere].kind = "dict"
      /\ file[UnitHere].hst = OK /\ RecordCheck(UnitHere) = OK
      /\ rpos' = rpos + RecLen /\ cur' = UnitHere /\ dst' = <<>> /\ remain' = file[UnitHere].body /\ pc' = "dict"
      /\ UNCHANGED <<file, cut, srcpos, rbuf, eof, rawVars, sticky, callVars>>
  BY DEF RecordDict, RecordHere, srcVars
<1>2. rpos' = rpos + Needs["record"]
  BY <1>1, CutFacts, NeedsFacts DEF IInv
<1> QED BY <1>1, <1>2, OpenedPayload

(* The end of the blocks. *)
LEMMA RecordEobStep == ASSUME IInv, RecordEob PROVE IInv'
<1> USE DEF IInv
<1>0. PICK u : u = UnitHere
  OBVIOUS
<1>1. /\ Have("record") /\ u # 0 /\ file[u].kind = "eob" /\ file[u].hst = OK /\ RecordCheck(u) = OK
      /\ rpos' = rpos + RecLen /\ cur' = u /\ saw_eob' = TRUE /\ pc' = "read"
      /\ UNCHANGED <<file, cut, srcpos, rbuf, eof, dst, remain, raw, raw_pos, raw_offset, ddict, sticky, callVars>>
      /\ UNCHANGED <<len, got, ret, out, calls>>
  BY <1>0 DEF RecordEob, RecordHere, srcVars, callVars
<1>2. rpos' = rpos + Needs["record"]
  BY <1>1, CutFacts, NeedsFacts
<1>3. /\ BufType' /\ BufInv'
      /\ u \in DOMAIN file
      /\ Pos' = file[u].at + file[u].hlen /\ Pos' \in Nat /\ Pos' >= file[u].at /\ Pos' <= cut
      /\ Track(u) \/ \E m \in 1 .. u - 1 : Strayed(m)
  BY <1>0, <1>1, <1>2, Opened
<1>4. pc = "record"
  BY <1>1 DEF Have
<1>5. DstInv' /\ UnitInv' /\ MagicInv'
  BY <1>1 DEF DstInv, UnitInv, MagicInv, Exact
<1>6. StickyInv'
  BY <1>1, <1>4 DEF StickyInv, InBlock, Creating, Reading
<1>7. TrackInv'
  <2>1. CASE Track(u)
    <3>1. /\ file[u].st = OK /\ file[u].chk = OK /\ file[u].ck = 0 /\ file[u].body = 0
          /\ file[u].at \in Nat /\ file[u].hlen \in Nat
      BY <1>1, <1>3, CutFacts, KindFacts, UnitFacts DEF RecordCheck
    <3>2. Complete(u)
      BY <1>3, <3>1 DEF Complete, UnitEnd
    <3>3. ~Misframed(u)
      BY <1>1, <1>3, CutFacts, FramedNext
    <3>4. Sound(u)
      BY <1>1, <1>3, <3>1, <3>2, <3>3, CutFacts, SoundUnit
    <3>5. Sound(u)'
      BY <1>1, <3>4, Fixed
    <3>6. Track(u)'
      BY <1>1, <2>1, Fixed DEF Track
    <3>7. Sound(cur)' /\ Track(cur)'
      <4>1. Sound(cur)' <=> Sound(u)'
        BY <1>1 DEF Sound, Complete, Misframed, Verdicts
      <4>2. Track(cur)' <=> Track(u)'
        BY <1>1 DEF Track
      <4> QED BY <3>5, <3>6, <4>1, <4>2
    <3> QED BY <1>1, <3>7 DEF TrackInv, Reading
  <2>2. CASE ~Track(u)
    <3>1. PICK m \in 1 .. u - 1 : Strayed(m)
      BY <1>3, <2>2
    <3>2. Lost'
      BY <1>1, <1>3, <3>1, LostBehind
    <3> QED BY <1>1, <3>2 DEF TrackInv, Reading
  <2> QED BY <2>1, <2>2
<1>8. /\ dst' \in Seq(Positions) /\ remain' \in Nat /\ cur' \in DOMAIN file /\ pc' \in Pc
      /\ ddict' \in BOOLEAN /\ saw_eob' \in BOOLEAN
  BY <1>1, <1>3, PcFacts DEF TypeOK
<1> QED BY <1>1, <1>3, <1>4, <1>5, <1>6, <1>7, <1>8, Quiet

(* A record to be skipped, whose size may lead astray. *)
LEMMA RecordSkipStep == ASSUME IInv, RecordSkip PROVE IInv'
<1> USE DEF IInv
<1>0. PICK u : u = UnitHere
  OBVIOUS
<1>1. /\ Have("record") /\ u # 0 /\ file[u].kind = "skip" /\ file[u].hst = OK /\ RecordCheck(u) = OK
      /\ rpos' = rpos + RecLen /\ cur' = u /\ dst' = <<>> /\ remain' = file[u].body /\ pc' = "skip"
      /\ UNCHANGED <<file, cut, srcpos, rbuf, eof, raw, raw_pos, raw_offset, ddict, saw_eob, sticky, callVars>>
      /\ UNCHANGED <<len, got, ret, out, calls>>
  BY <1>0 DEF RecordSkip, RecordHere, srcVars, rawVars, callVars
<1>2. rpos' = rpos + Needs["record"]
  BY <1>1, CutFacts, NeedsFacts
<1>3. /\ BufType' /\ BufInv'
      /\ u \in DOMAIN file
      /\ Pos' = file[u].at + file[u].hlen /\ Pos' \in Nat /\ Pos' >= file[u].at /\ Pos' <= cut
      /\ Track(u) \/ \E m \in 1 .. u - 1 : Strayed(m)
  BY <1>0, <1>1, <1>2, Opened
<1>4. pc = "record"
  BY <1>1 DEF Have
<1>5. DstInv' /\ UnitInv' /\ MagicInv'
  BY <1>1 DEF DstInv, UnitInv, MagicInv, Exact
<1>6. StickyInv'
  BY <1>1, <1>4 DEF StickyInv, InBlock, Creating, Reading
<1>7. /\ file[u].at \in Nat /\ file[u].hlen \in Nat /\ file[u].body \in Nat /\ file[u].ck = 0 /\ file[u].chk = OK
  BY <1>1, <1>3, CutFacts, KindFacts, UnitFacts DEF RecordCheck
<1>8. TrackInv'
  <2>1. CASE Track(u) /\ ~Misframed(u)
    <3>1. ~Misframed(u)' /\ Track(u)'
      BY <1>1, <2>1, Fixed DEF Track
    <3>2. ~Misframed(cur)' /\ Track(cur)'
      <4>1. Misframed(cur)' <=> Misframed(u)'
        BY <1>1 DEF Misframed
      <4>2. Track(cur)' <=> Track(u)'
        BY <1>1 DEF Track
      <4> QED BY <3>1, <4>1, <4>2
    <3>3. Pos' + remain' = UnitEnd(file[u])
      BY <1>1, <1>3, <1>7 DEF UnitEnd
    <3> QED BY <1>1, <1>7, <3>2, <3>3 DEF TrackInv, Reading
  <2>2. CASE Track(u) /\ Misframed(u)
    <3>1. Strayed(u)
      BY <2>2 DEF Track, Strayed
    <3>2. Strayed(u)'
      BY <1>1, <3>1, Fixed
    <3>3. file[u].at + file[u].hlen <= Pos'
      BY <1>3, <1>7
    <3>4. Lost'
      BY <1>1, <1>3, <3>2, <3>3 DEF Lost
    <3> QED BY <1>1, <3>4 DEF TrackInv, Reading
  <2>3. CASE ~Track(u)
    <3>1. PICK m \in 1 .. u - 1 : Strayed(m)
      BY <1>3, <2>3
    <3>2. Lost'
      BY <1>1, <1>3, <3>1, LostBehind
    <3> QED BY <1>1, <3>2 DEF TrackInv, Reading
  <2> QED BY <2>1, <2>2, <2>3
<1>9. /\ dst' \in Seq(Positions) /\ remain' \in Nat /\ cur' \in DOMAIN file /\ pc' \in Pc
      /\ ddict' \in BOOLEAN /\ saw_eob' \in BOOLEAN
  BY <1>1, <1>3, <1>7, PcFacts DEF TypeOK
<1> QED BY <1>1, <1>3, <1>4, <1>5, <1>6, <1>8, <1>9, Quiet

(* GarbageSkip keeps the invariant. *)
LEMMA GarbageSkipStep == ASSUME IInv, GarbageSkip PROVE IInv'
<1> USE DEF IInv
<1>1. /\ Have("record") /\ UnitHere = 0 /\ pc = "record"
      /\ rpos' = rpos + RecLen /\ cur' = cur /\ dst' = <<>> /\ remain' \in 0 .. FileEnd(file) /\ pc' = "skip"
      /\ UNCHANGED <<file, cut, srcpos, rbuf, eof, raw, raw_pos, raw_offset, ddict, saw_eob, sticky, callVars>>
      /\ UNCHANGED <<len, got, ret, out, calls>>
  BY DEF GarbageSkip, Have, srcVars, rawVars, callVars
<1>2. rpos' = rpos + Needs["record"]
  BY <1>1, CutFacts, NeedsFacts
<1>3. BufType' /\ BufInv' /\ Pos' = Pos + Needs["record"] /\ Needs["record"] \in Nat /\ Pos \in Nat
  BY <1>1, <1>2, HeaderConsumed
<1>4. Lost'
  <2>1. Lost
    BY <1>1, AtHeader
  <2>2. Pos' \in Nat /\ Pos' >= Pos
    BY <1>3
  <2> QED BY <1>1, <1>3, <2>1, <2>2, StaysLost
<1>5. DstInv' /\ UnitInv' /\ MagicInv'
  BY <1>1 DEF DstInv, UnitInv, MagicInv, Exact
<1>6. StickyInv'
  BY <1>1 DEF StickyInv, InBlock, Creating, Reading
<1>7. TrackInv'
  BY <1>1, <1>4 DEF TrackInv, Reading
<1>8. /\ dst' \in Seq(Positions) /\ remain' \in Nat /\ cur' \in DOMAIN file /\ pc' \in Pc
      /\ ddict' \in BOOLEAN /\ saw_eob' \in BOOLEAN
  BY <1>1, CutFacts, PcFacts DEF TypeOK
<1> QED BY <1>1, <1>3, <1>5, <1>6, <1>7, <1>8, Quiet

-----------------------------------------------------------------------------
(* The end of a unit *)

(* A payload that is read whole and good ends a sound unit. *)
LEMMA PayloadSound ==
  ASSUME IInv, pc \in {"decode", "dict"}, Track(cur), file[cur].st = OK,
         Len(dst) = file[cur].body + file[cur].ck,
         pc = "decode" => ~(file[cur].needs /\ ~ddict)
  PROVE  Sound(cur) /\ Pos = UnitEnd(file[cur])
<1> USE DEF IInv
<1>1. cur \in DOMAIN file /\ file \in Files /\ file[cur].needs \in BOOLEAN
      /\ file[cur].at \in Nat /\ file[cur].hlen \in Nat /\ file[cur].body \in Nat /\ file[cur].ck \in Nat
  BY CutFacts, UnitFacts DEF TypeOK
<1>2. Pos = file[cur].at + file[cur].hlen + Len(dst)
  BY DEF DstInv, Exact
<1>3. Pos = UnitEnd(file[cur])
  BY <1>1, <1>2 DEF UnitEnd
<1>4. Complete(cur)
  BY <1>3, BufFacts DEF Complete
<1>5. Reached(cur) /\ raw_offset = RawBefore(cur) /\ (ddict <=> DictBefore(cur))
  BY DEF Track
<1>6. CASE pc = "decode"
  <2>1. file[cur].kind = "block" /\ file[cur].hst = OK /\ BlockCheck(cur) = OK
    BY <1>6 DEF UnitInv
  <2>2. file[cur].off = RawBefore(cur) /\ ~(file[cur].raw > RawCap) /\ file[cur].chk = OK
    BY <1>5, <2>1, StatusFacts DEF BlockCheck
  <2>3. file[cur].needs => DictBefore(cur)
    BY <1>5, <1>6
  <2>4. ~Misframed(cur)
    BY <1>1, <2>1, FramedNext
  <2> QED BY <1>1, <1>3, <1>4, <2>1, <2>2, <2>3, <2>4, SoundUnit
<1>7. CASE pc = "dict"
  <2>1. file[cur].kind = "dict" /\ file[cur].hst = OK /\ RecordCheck(cur) = OK
    BY <1>7 DEF UnitInv
  <2>2. ~DictBefore(cur) /\ file[cur].chk = OK
    BY <1>5, <2>1, StatusFacts DEF RecordCheck
  <2>3. ~Misframed(cur)
    BY <1>1, <2>1, FramedNext
  <2> QED BY <1>1, <1>3, <1>4, <2>1, <2>2, <2>3, SoundUnit
<1> QED BY <1>6, <1>7

(* In a payload behind a record that leads astray. *)
LEMMA PayloadLost ==
  ASSUME IInv, pc \in Reading, ~Track(cur), UNCHANGED <<file, cut>>, Pos' = Pos
  PROVE  /\ Lost'
         /\ \E m \in 1 .. cur - 1 : Strayed(m)
<1> USE DEF IInv
<1>1. PICK m \in 1 .. cur - 1 : Strayed(m)
  BY DEF TrackInv
<1>2. cur \in DOMAIN file /\ file[cur].at \in Nat /\ file[cur].hlen \in Nat /\ Len(dst) \in Nat
  BY CutFacts, UnitFacts DEF TypeOK
<1>3. Pos = file[cur].at + file[cur].hlen + Len(dst)
  BY DEF DstInv, Exact, Reading
<1>4. Pos' \in Nat /\ Pos' >= file[cur].at
  BY <1>2, <1>3
<1> QED BY <1>1, <1>2, <1>4, LostBehind

(* DictLoad keeps the invariant. *)
LEMMA DictLoadStep == ASSUME IInv, DictLoad PROVE IInv'
<1> USE DEF IInv
<1>1. /\ pc = "dict" /\ remain = 0 /\ file[cur].st = OK /\ ddict' = TRUE /\ pc' = "magic"
      /\ UNCHANGED <<file, cut, srcpos, rbuf, rpos, eof, dst, remain, cur, raw, raw_pos, raw_offset, saw_eob>>
      /\ UNCHANGED <<sticky, callVars, len, got, ret, out, calls>>
  BY DEF DictLoad, srcVars, bufVars, unitVars, callVars
<1>2. BufType' /\ BufInv' /\ Pos' = Pos
  BY <1>1, Untouched
<1>3. cur \in DOMAIN file /\ file \in Files /\ file[cur].body \in Nat /\ Len(dst) \in Nat
  BY CutFacts, UnitFacts DEF TypeOK
<1>4. file[cur].kind = "dict" /\ Len(dst) + 0 = file[cur].body /\ file[cur].ck = 0
  BY <1>1, <1>3, KindFacts DEF UnitInv
<1>5. Len(dst) = file[cur].body + file[cur].ck
  BY <1>3, <1>4
<1>6. DstInv' /\ UnitInv' /\ MagicInv'
  BY <1>1 DEF DstInv, UnitInv, MagicInv, Exact
<1>7. StickyInv'
  BY <1>1 DEF StickyInv, InBlock, Creating, Reading
<1>8. Lost' \/ \E v \in 2 .. Len(file') + 1 : Track(v)' /\ Pos' = Begin(v)'
  <2>1. CASE Track(cur)
    <3>1. Sound(cur) /\ Pos = UnitEnd(file[cur])
      BY <1>1, <1>5, <2>1, PayloadSound
    <3>2. Reached(cur) /\ raw_offset' = RawBefore(cur)
      BY <1>1, <2>1 DEF Track
    <3>3. ddict' <=> (DictBefore(cur) \/ file[cur].kind = "dict")
      BY <1>1, <1>4
    <3> QED BY <1>1, <1>2, <1>3, <1>4, <3>1, <3>2, <3>3, NextUnit
  <2>2. CASE ~Track(cur)
    BY <1>1, <1>2, <2>2, PayloadLost DEF Reading
  <2> QED BY <2>1, <2>2
<1>9. TrackInv'
  BY <1>1, <1>8 DEF TrackInv, Reading
<1>10. /\ dst' \in Seq(Positions) /\ remain' \in Nat /\ cur' \in DOMAIN file /\ pc' \in Pc
       /\ ddict' \in BOOLEAN /\ saw_eob' \in BOOLEAN
  BY <1>1, PcFacts DEF TypeOK
<1> QED BY <1>1, <1>2, <1>6, <1>7, <1>9, <1>10, Quiet

(* Skip keeps the invariant. *)
LEMMA SkipStep == ASSUME IInv, Skip PROVE IInv'
<1> USE DEF IInv
<1> DEFINE n == Smaller(remain, Avail)
<1>1. /\ pc = "skip" /\ pc' = "skip" /\ rpos' = rpos + n /\ remain' = remain - n
      /\ UNCHANGED <<file, cut, srcpos, rbuf, eof, dst, cur, raw, raw_pos, raw_offset, ddict, saw_eob>>
      /\ UNCHANGED <<sticky, callVars, len, got, ret, out, calls>>
  BY DEF Skip, srcVars, rawVars, callVars
<1>2. remain \in Nat /\ Avail \in Nat /\ Pos \in Nat
  BY BufFacts DEF TypeOK
<1>3. n \in Nat /\ n <= remain /\ n <= Avail
  BY <1>2 DEF Smaller
<1>4. PICK k : k = n
  OBVIOUS
<1> HIDE DEF n
<1>5. BufType' /\ BufInv' /\ Pos' = Pos + k
  <2>1. k \in 0 .. Avail /\ rpos' = rpos + k
    BY <1>1, <1>2, <1>3, <1>4
  <2> QED BY <1>1, <2>1, Consumed
<1>6. remain' \in Nat /\ Pos' + remain' = Pos + remain /\ Pos' \in Nat /\ Pos' >= Pos
  BY <1>1, <1>2, <1>3, <1>4, <1>5
<1>7. DstInv' /\ UnitInv' /\ MagicInv'
  BY <1>1 DEF DstInv, UnitInv, MagicInv, Exact
<1>8. StickyInv'
  BY <1>1 DEF StickyInv, InBlock, Creating, Reading
<1>9. TrackInv'
  <2>1. Lost => Lost'
    BY <1>1, <1>2, <1>6, StaysLost
  <2>2. Track(cur) => Track(cur)'
    BY <1>1, Fixed DEF Track
  <2>3. ~Misframed(cur) => ~Misframed(cur)'
    BY <1>1, Fixed
  <2>4. UnitEnd(file[cur])' = UnitEnd(file[cur])
    BY <1>1
  <2> QED BY <1>1, <1>6, <2>1, <2>2, <2>3, <2>4 DEF TrackInv, Reading
<1>10. dst' \in Seq(Positions) /\ cur' \in DOMAIN file /\ pc' \in Pc
       /\ ddict' \in BOOLEAN /\ saw_eob' \in BOOLEAN
  BY <1>1, PcFacts DEF TypeOK
<1> QED BY <1>1, <1>5, <1>6, <1>7, <1>8, <1>9, <1>10, Quiet

(* SkipDone keeps the invariant. *)
LEMMA SkipDoneStep == ASSUME IInv, SkipDone PROVE IInv'
<1> USE DEF IInv
<1>1. /\ pc = "skip" /\ remain = 0 /\ pc' = "magic"
      /\ UNCHANGED <<file, cut, srcpos, rbuf, rpos, eof, dst, remain, cur, raw, raw_pos, raw_offset, ddict, saw_eob>>
      /\ UNCHANGED <<sticky, callVars, len, got, ret, out, calls>>
  BY DEF SkipDone, srcVars, bufVars, unitVars, rawVars, callVars
<1>2. BufType' /\ BufInv' /\ Pos' = Pos
  BY <1>1, Untouched
<1>3. cur \in DOMAIN file /\ file \in Files /\ Pos \in Nat /\ Pos <= cut
  BY CutFacts, BufFacts DEF TypeOK
<1>4. DstInv' /\ UnitInv' /\ MagicInv'
  BY <1>1 DEF DstInv, UnitInv, MagicInv, Exact
<1>5. StickyInv'
  BY <1>1 DEF StickyInv, InBlock, Creating, Reading
<1>6. Lost' \/ \E v \in 2 .. Len(file') + 1 : Track(v)' /\ Pos' = Begin(v)'
  <2>1. CASE Lost
    BY <1>1, <1>2, <1>3, <2>1, StaysLost
  <2>2. CASE ~Lost
    <3>1. /\ file[cur].kind = "skip" /\ file[cur].hst = OK /\ file[cur].chk = OK
          /\ Track(cur) /\ ~Misframed(cur) /\ Pos + 0 = UnitEnd(file[cur])
      BY <1>1, <2>2 DEF TrackInv
    <3>2. Pos = UnitEnd(file[cur]) /\ Complete(cur)
      BY <1>3, <3>1 DEF Complete
    <3>3. file[cur].st = OK
      BY <1>3, <3>1, KindFacts
    <3>4. Sound(cur)
      BY <1>3, <3>1, <3>2, <3>3, SoundUnit
    <3>5. Reached(cur) /\ raw_offset' = RawBefore(cur) /\ (ddict' <=> DictBefore(cur))
      BY <1>1, <3>1 DEF Track
    <3> QED BY <1>1, <1>2, <1>3, <3>1, <3>2, <3>4, <3>5, NextUnit
  <2> QED BY <2>1, <2>2
<1>7. TrackInv'
  BY <1>1, <1>6 DEF TrackInv, Reading
<1>8. /\ dst' \in Seq(Positions) /\ remain' \in Nat /\ cur' \in DOMAIN file /\ pc' \in Pc
      /\ ddict' \in BOOLEAN /\ saw_eob' \in BOOLEAN
  BY <1>1, PcFacts DEF TypeOK
<1> QED BY <1>1, <1>2, <1>4, <1>5, <1>7, <1>8, Quiet

(* A block is decoded: its bytes are the next of the stream. *)
LEMMA DecodeOKStep == ASSUME IInv, DecodeOK PROVE IInv'
<1> USE DEF IInv
<1>1. /\ pc = "decode" /\ pc' = "read" /\ DecodeStatus = OK
      /\ raw' = [k \in 1 .. file[cur].raw |-> <<cur, k - 1>>] /\ raw_pos' = 0
      /\ raw_offset' = raw_offset + file[cur].raw
      /\ UNCHANGED <<file, cut, srcpos, rbuf, rpos, eof, dst, remain, cur, ddict, saw_eob>>
      /\ UNCHANGED <<sticky, callVars, len, got, ret, out, calls>>
  BY DEF DecodeOK, srcVars, bufVars, unitVars, callVars
<1>2. BufType' /\ BufInv' /\ Pos' = Pos
  BY <1>1, Untouched
<1>3. cur \in DOMAIN file /\ file \in Files /\ file[cur].raw \in Nat /\ file[cur].off \in Nat /\ cur \in Nat
      /\ raw_offset \in Nat
  BY CutFacts, UnitFacts DEF TypeOK
<1>4. file[cur].st = OK /\ ~(file[cur].needs /\ ~ddict)
  BY <1>1, StatusFacts DEF DecodeStatus
<1>5. /\ file[cur].kind = "block" /\ file[cur].hst = OK /\ BlockCheck(cur) = OK
      /\ Len(dst) = file[cur].body + file[cur].ck
  BY <1>1 DEF UnitInv
<1>6. file[cur].off = raw_offset /\ ~(file[cur].raw > RawCap)
  BY <1>5, StatusFacts DEF BlockCheck
<1>7. ~saw_eob /\ raw_pos = Len(raw) /\ Len(got) < len /\ sticky = OK
  BY <1>1 DEF StickyInv, InBlock, Reading
<1>8. raw' \in Seq(Byte) /\ Len(raw') = file[cur].raw /\ Len(raw') <= RawCap
  <2>1. \A k \in 1 .. file[cur].raw : <<cur, k - 1>> \in Byte
    BY <1>3 DEF Byte
  <2>2. raw' \in Seq(Byte) /\ Len(raw') = file[cur].raw
    BY <1>1, <1>3, <2>1
  <2> QED BY <1>3, <1>6, <2>2, SizeAssumption
<1>9. TypeOK'
  <2>1. Positions' = Positions /\ pc' \in Pc'
    BY <1>1, PcFacts DEF Positions
  <2>2. raw_pos' \in 0 .. Len(raw') /\ raw_offset' \in Nat
    BY <1>1, <1>3, <1>8
  <2>3. RestType'
    BY <1>1, <1>8, <2>1, <2>2 DEF RestType, TypeOK
  <2> QED BY <1>2, <2>3, Types
<1>10. DstInv' /\ UnitInv' /\ MagicInv'
  BY <1>1 DEF DstInv, UnitInv, MagicInv, Exact
<1>11. StickyInv'
  BY <1>1, <1>7 DEF StickyInv, InBlock, Creating, Reading
<1>12. Lost' \/ \E v \in 2 .. Len(file') + 1 : Track(v)' /\ Pos' = Begin(v)'
  <2>1. CASE Track(cur)
    <3>1. Sound(cur) /\ Pos = UnitEnd(file[cur])
      BY <1>1, <1>4, <1>5, <2>1, PayloadSound
    <3>2. Reached(cur) /\ raw_offset' = file[cur].off + file[cur].raw /\ (ddict' <=> DictBefore(cur))
      BY <1>1, <1>6, <2>1 DEF Track
    <3> QED BY <1>1, <1>2, <1>3, <1>5, <3>1, <3>2, NextUnit
  <2>2. CASE ~Track(cur)
    BY <1>1, <1>2, <2>2, PayloadLost DEF Reading
  <2> QED BY <2>1, <2>2
<1>13. TrackInv'
  BY <1>1, <1>7, <1>12 DEF TrackInv, Reading
<1>14. Returned' = Returned
  BY <1>1 DEF Returned
<1>15. RawInv'
  <2>1. Len(raw') <= raw_offset'
    BY <1>1, <1>3, <1>8
  <2>2. (Reached(cur) /\ Sound(cur)) \/ \E m \in 1 .. cur - 1 : Misframed(m)
    <3>1. CASE Track(cur)
      BY <1>1, <1>4, <1>5, <3>1, PayloadSound DEF Track
    <3>2. CASE ~Track(cur)
      BY <1>1, <1>2, <3>2, PayloadLost DEF Reading, Strayed
    <3> QED BY <3>1, <3>2
  <2>3. ASSUME NEW k \in 1 .. Len(raw')
        PROVE  StreamByte(raw[k])' /\ file'[raw'[k][1]].off + raw'[k][2] = raw_offset' - Len(raw') + k - 1
    <3>1. k \in 1 .. file[cur].raw /\ raw'[k] = <<cur, k - 1>> /\ k \in Nat /\ k <= file[cur].raw
      BY <1>1, <1>3, <1>8
    <3>2. StreamByte(<<cur, k - 1>>)
      BY <1>3, <1>4, <1>5, <2>2, <3>1 DEF StreamByte
    <3>3. StreamByte(raw[k])'
      <4>1. PICK b : b = <<cur, k - 1>>
        OBVIOUS
      <4>2. StreamByte(b)'
        BY <1>1, <3>2, <4>1, Fixed
      <4>3. raw'[k] = b
        BY <3>1, <4>1
      <4> QED BY <4>2, <4>3 DEF StreamByte
    <3>4. file'[raw'[k][1]].off + raw'[k][2] = file[cur].off + (k - 1)
      BY <1>1, <3>1
    <3>5. raw_offset' - Len(raw') + k - 1 = raw_offset + (k - 1)
      BY <1>1, <1>3, <1>8, <3>1
    <3> QED BY <1>6, <3>3, <3>4, <3>5
  <2>4. Len(Returned') = raw_offset' - Len(raw') + raw_pos'
    <3>1. Len(Returned) = raw_offset - Len(raw) + raw_pos
      BY <1>7 DEF RawInv
    <3>2. Len(raw) \in Nat
      BY DEF TypeOK
    <3>3. Len(Returned) = raw_offset
      BY <1>3, <1>7, <3>1, <3>2
    <3> QED BY <1>1, <1>3, <1>8, <1>14, <3>3
  <2> QED BY <2>1, <2>3, <2>4 DEF RawInv
<1>16. OutputPrefix'
  <2> DEFINE r == Returned
  <2>1. r' = r
    BY <1>14
  <2> SUFFICES ASSUME NEW k \in DOMAIN r
               PROVE  StreamByte(r[k])' /\ file'[r[k][1]].off + r[k][2] = k - 1
    BY <2>1 DEF OutputPrefix
  <2>2. StreamByte(r[k]) /\ file[r[k][1]].off + r[k][2] = k - 1
    BY DEF OutputPrefix
  <2> HIDE DEF r
  <2>3. StreamByte(r[k])'
    BY <1>1, <2>1, <2>2, Fixed
  <2> QED BY <1>1, <2>2, <2>3
<1>17. BlamesFirstBad'
  BY <1>1, <1>7 DEF BlamesFirstBad
<1> QED BY <1>2, <1>9, <1>10, <1>11, <1>13, <1>15, <1>16, <1>17

-----------------------------------------------------------------------------
(* xq_decoder_read *)

(* NextBlock keeps the invariant. *)
LEMMA NextBlockStep == ASSUME IInv, NextBlock PROVE IInv'
<1> USE DEF IInv
<1>1. /\ pc = "read" /\ Len(got) < len /\ raw_pos = Len(raw) /\ ~saw_eob /\ pc' = "magic"
      /\ UNCHANGED <<file, cut, srcpos, rbuf, rpos, eof, dst, remain, cur, raw, raw_pos, raw_offset, ddict, saw_eob>>
      /\ UNCHANGED <<sticky, callVars, len, got, ret, out, calls>>
  BY DEF NextBlock, srcVars, bufVars, unitVars, rawVars, callVars
<1>2. BufType' /\ BufInv' /\ Pos' = Pos
  BY <1>1, Untouched
<1>3. DstInv' /\ UnitInv' /\ MagicInv'
  BY <1>1 DEF DstInv, UnitInv, MagicInv, Exact
<1>4. sticky = OK
  BY <1>1 DEF StickyInv
<1>5. StickyInv'
  BY <1>1, <1>4 DEF StickyInv, InBlock, Creating, Reading
<1>6. Lost' \/ \E v \in 2 .. Len(file') + 1 : Track(v)' /\ Pos' = Begin(v)'
  BY <1>1, <1>2, <1>4, StaysPut DEF TrackInv
<1>7. TrackInv'
  BY <1>1, <1>6 DEF TrackInv, Reading
<1>8. /\ dst' \in Seq(Positions) /\ remain' \in Nat /\ cur' \in DOMAIN file /\ pc' \in Pc
      /\ ddict' \in BOOLEAN /\ saw_eob' \in BOOLEAN
  BY <1>1, PcFacts DEF TypeOK
<1> QED BY <1>1, <1>2, <1>3, <1>5, <1>7, <1>8, Quiet

(* Outside of next_block the decoder stays where it is. *)
LEMMA StaysOutside ==
  ASSUME IInv, UNCHANGED <<file, cut, cur, saw_eob, raw_offset, ddict, sticky>>, Pos' = Pos,
         pc \in {"idle", "read", "closed"}, pc' \in {"idle", "read", "closed"}, pc = "closed" => pc' = "closed"
  PROVE  DstInv' /\ UnitInv' /\ MagicInv' /\ TrackInv'
<1> USE DEF IInv
<1>1. DstInv' /\ UnitInv' /\ MagicInv'
  BY DEF DstInv, UnitInv, MagicInv, Exact
<1>2. Pos \in Nat
  BY BufFacts
<1>3. ASSUME pc' \in {"idle", "read"}, sticky = OK, ~saw_eob
      PROVE  Lost' \/ \E v \in 2 .. Len(file') + 1 : Track(v)' /\ Pos' = Begin(v)'
  BY <1>3, StaysPut DEF TrackInv
<1>4. ASSUME pc' \in {"idle", "read"}, sticky = OK, saw_eob
      PROVE  Lost' \/ (file[cur].kind = "eob" /\ Track(cur)' /\ Sound(cur)')
  <2>1. CASE Lost
    BY <1>2, <2>1, StaysLost
  <2>2. CASE ~Lost
    <3>1. file[cur].kind = "eob" /\ Track(cur) /\ Sound(cur)
      BY <1>4, <2>2 DEF TrackInv
    <3>2. Track(cur)'
      BY <3>1, Fixed DEF Track
    <3>3. Sound(cur)'
      BY <3>1, Fixed
    <3> QED BY <3>1, <3>2, <3>3
  <2> QED BY <2>1, <2>2
<1>5. TrackInv'
  BY <1>3, <1>4 DEF TrackInv, Reading
<1> QED BY <1>1, <1>5

(* Return keeps the invariant. *)
LEMMA ReturnStep == ASSUME IInv, Return PROVE IInv'
<1> USE DEF IInv
<1>1. /\ pc = "read" /\ (Len(got) = len \/ (raw_pos = Len(raw) /\ saw_eob)) /\ pc' = "idle"
      /\ ret' = Len(got) /\ out' = out \o got
      /\ UNCHANGED <<file, cut, srcpos, rbuf, rpos, eof, dst, remain, cur, raw, raw_pos, raw_offset, ddict, saw_eob>>
      /\ UNCHANGED <<sticky, len, got, calls>>
  BY DEF Return, srcVars, bufVars, unitVars, rawVars
<1>2. BufType' /\ BufInv' /\ Pos' = Pos
  BY <1>1, Untouched
<1>3. DstInv' /\ UnitInv' /\ MagicInv' /\ TrackInv'
  BY <1>1, <1>2, StaysOutside
<1>4. Returned' = Returned
  BY <1>1 DEF Returned
<1>5. RawInv' /\ OutputPrefix' /\ BlamesFirstBad'
  BY <1>1, <1>4, SameOutput
<1>6. TypeOK'
  <2>1. Positions' = Positions /\ pc' \in Pc'
    BY <1>1, PcFacts DEF Positions
  <2>2. ret' \in Int /\ out' \in Seq(Byte)
    BY <1>1 DEF TypeOK
  <2>3. RestType'
    BY <1>1, <2>1, <2>2 DEF RestType, TypeOK
  <2> QED BY <1>2, <2>3, Types
<1>7. StickyInv'
  BY <1>1 DEF StickyInv, InBlock, Creating, Reading
<1> QED BY <1>2, <1>3, <1>5, <1>6, <1>7

(* ReadCall keeps the invariant. *)
LEMMA ReadCallStep == ASSUME IInv, NEW n \in Lens, ReadCall(n) PROVE IInv'
<1> USE DEF IInv
<1>1. /\ pc = "idle" /\ calls > 0 /\ calls' = calls - 1 /\ len' = n /\ got' = <<>>
      /\ (sticky # OK /\ ret' = -sticky /\ pc' = "idle") \/ (sticky = OK /\ pc' = "read" /\ ret' = ret)
      /\ UNCHANGED <<file, cut, srcpos, rbuf, rpos, eof, dst, remain, cur, raw, raw_pos, raw_offset, ddict, saw_eob>>
      /\ UNCHANGED <<sticky, out>>
  BY DEF ReadCall, srcVars, bufVars, unitVars, rawVars
<1>2. BufType' /\ BufInv' /\ Pos' = Pos
  BY <1>1, Untouched
<1>3. DstInv' /\ UnitInv' /\ MagicInv' /\ TrackInv'
  BY <1>1, <1>2, StaysOutside
<1>4. Returned' = Returned
  <2>1. Returned = out /\ (Returned' = out \/ Returned' = out \o <<>>)
    BY <1>1 DEF Returned
  <2>2. out \o <<>> = out
    BY DEF TypeOK
  <2> QED BY <2>1, <2>2
<1>5. RawInv' /\ OutputPrefix' /\ BlamesFirstBad'
  BY <1>1, <1>4, SameOutput
<1>6. TypeOK'
  <2>1. Positions' = Positions /\ pc' \in Pc'
    BY <1>1, PcFacts DEF Positions
  <2>2. sticky \in Nat /\ n \in Nat
    BY StatusFacts, SizeAssumption DEF TypeOK
  <2>3. ret' \in Int
    <3>1. -sticky \in Int
      BY <2>2
    <3> QED BY <1>1, <3>1 DEF TypeOK
  <2>4. len' \in Nat /\ got' \in Seq(Byte) /\ Len(got') <= len' /\ calls' \in Nat
    BY <1>1, <2>2 DEF TypeOK
  <2>5. RestType'
    BY <1>1, <2>1, <2>3, <2>4 DEF RestType, TypeOK
  <2> QED BY <1>2, <2>5, Types
<1>7. StickyInv'
  BY <1>1 DEF StickyInv, InBlock, Creating, Reading
<1> QED BY <1>2, <1>3, <1>5, <1>6, <1>7

(* Free keeps the invariant. *)
LEMMA FreeStep == ASSUME IInv, Free PROVE IInv'
<1> USE DEF IInv
<1>1. /\ pc = "idle" /\ pc' = "closed"
      /\ UNCHANGED <<file, cut, srcpos, rbuf, rpos, eof, dst, remain, cur, raw, raw_pos, raw_offset, ddict, saw_eob>>
      /\ UNCHANGED <<sticky, len, got, ret, out, calls>>
  BY DEF Free, srcVars, bufVars, unitVars, rawVars, callVars
<1>2. BufType' /\ BufInv' /\ Pos' = Pos
  BY <1>1, Untouched
<1>3. DstInv' /\ UnitInv' /\ MagicInv' /\ TrackInv'
  BY <1>1, <1>2, StaysOutside
<1>4. Returned' = Returned
  BY <1>1 DEF Returned
<1>5. RawInv' /\ OutputPrefix' /\ BlamesFirstBad'
  BY <1>1, <1>4, SameOutput
<1>6. TypeOK'
  <2>1. Positions' = Positions /\ pc' \in Pc'
    BY <1>1, PcFacts DEF Positions
  <2>2. RestType'
    BY <1>1, <2>1 DEF RestType, TypeOK
  <2> QED BY <1>2, <2>2, Types
<1>7. StickyInv'
  BY <1>1 DEF StickyInv, InBlock, Creating, Reading
<1> QED BY <1>2, <1>3, <1>5, <1>6, <1>7

(* A step that changes nothing keeps the invariant. *)
LEMMA StutterStep == ASSUME IInv, UNCHANGED vars PROVE IInv'
<1> USE DEF IInv
<1>1. UNCHANGED <<file, cut, srcpos, rbuf, rpos, eof, dst, remain, cur, raw, raw_pos, raw_offset, ddict, saw_eob>>
      /\ UNCHANGED <<sticky, pc, len, got, ret, out, calls>>
  BY DEF vars, srcVars, bufVars, unitVars, rawVars, callVars
<1>2. BufType' /\ BufInv' /\ Pos' = Pos
  BY <1>1, Untouched
<1>3. Returned' = Returned
  BY <1>1 DEF Returned
<1>4. RawInv' /\ OutputPrefix' /\ BlamesFirstBad'
  BY <1>1, <1>3, SameOutput
<1>5. TypeOK'
  <2>1. Positions' = Positions /\ pc' \in Pc'
    BY <1>1, PcFacts DEF Positions, TypeOK
  <2>2. RestType'
    BY <1>1, <2>1 DEF RestType, TypeOK
  <2> QED BY <1>2, <2>2, Types
<1>6. StickyInv' /\ DstInv' /\ MagicInv'
  BY <1>1, <1>2 DEF StickyInv, DstInv, MagicInv
<1>7. UnitInv'
  <2>1. BlockCheck(cur)' = BlockCheck(cur) /\ RecordCheck(cur)' = RecordCheck(cur)
    BY <1>1 DEF BlockCheck, RecordCheck
  <2> QED BY <1>1, <2>1 DEF UnitInv
<1>8. TrackInv'
  <2>1. Lost => Lost'
    BY <1>1, <1>2, BufFacts, StaysLost
  <2>2. \A u : (Track(u) => Track(u)') /\ Begin(u)' = Begin(u) /\ (Sound(u) => Sound(u)') /\ (Strayed(u) => Strayed(u)')
               /\ (~Misframed(u) => ~Misframed(u)')
    BY <1>1, Fixed DEF Track
  <2>3. Track(cur)' = Track(cur) /\ (Sound(cur) => Sound(cur)') /\ (~Misframed(cur) => ~Misframed(cur)')
    BY <1>1, Fixed DEF Track
  <2>4. /\ pc \in {"extra", "setup"} => file[1].hst = OK
        /\ pc = "setup" => UnitEnd(file[1])' = UnitEnd(file[1])
        /\ UnitEnd(file[cur])' = UnitEnd(file[cur])
    BY <1>1 DEF TrackInv
  <2> QED BY <1>1, <1>2, <2>1, <2>2, <2>3, <2>4 DEF TrackInv
<1> QED BY <1>2, <1>4, <1>5, <1>6, <1>7, <1>8

(* Bytes are copied to the caller, from where the last copy ended. *)
LEMMA CopyStep == ASSUME IInv, Copy PROVE IInv'
<1> USE DEF IInv
<1> DEFINE n == Smaller(len - Len(got), Len(raw) - raw_pos)
<1>1. PICK m : m = n
  OBVIOUS
<1>2. /\ pc = "read" /\ pc' = "read" /\ Len(got) < len /\ raw_pos < Len(raw)
      /\ got' = got \o SubSeq(raw, raw_pos + 1, raw_pos + m) /\ raw_pos' = raw_pos + m
      /\ UNCHANGED <<file, cut, srcpos, rbuf, rpos, eof, dst, remain, cur, raw, raw_offset, ddict, saw_eob>>
      /\ UNCHANGED <<sticky, len, ret, out, calls>>
  BY <1>1 DEF Copy, srcVars, bufVars, unitVars
<1>3. /\ raw \in Seq(Byte) /\ raw_pos \in 0 .. Len(raw) /\ got \in Seq(Byte) /\ out \in Seq(Byte)
      /\ len \in Nat /\ Len(got) \in Nat /\ Len(raw) \in Nat /\ Len(out) \in Nat /\ raw_offset \in Nat
      /\ raw_pos \in Nat
  BY DEF TypeOK
<1>4. m \in Nat /\ m >= 1 /\ m <= len - Len(got) /\ m <= Len(raw) - raw_pos
  BY <1>1, <1>2, <1>3 DEF Smaller
<1> HIDE DEF n
<1> DEFINE t == SubSeq(raw, raw_pos + 1, raw_pos + m)
<1>5. t \in Seq(Byte) /\ Len(t) = m /\ \A i \in 1 .. m : t[i] = raw[raw_pos + i]
  <2>1. raw_pos + m <= Len(raw)
    BY <1>3, <1>4
  <2> QED BY <1>3, <1>4, <2>1, Slice
<1>6. got' = got \o t
  BY <1>2
<1> HIDE DEF t
<1>7. got' \in Seq(Byte) /\ Len(got') = Len(got) + m
  BY <1>3, <1>5, <1>6, ConcatProperties
<1>8. BufType' /\ BufInv' /\ Pos' = Pos
  BY <1>2, Untouched
<1>9. DstInv' /\ UnitInv' /\ MagicInv' /\ TrackInv'
  BY <1>2, <1>8, StaysOutside
<1>10. TypeOK'
  <2>1. Positions' = Positions /\ pc' \in Pc'
    BY <1>2, PcFacts DEF Positions
  <2>2. Len(got') <= len' /\ raw_pos' \in 0 .. Len(raw')
    BY <1>2, <1>3, <1>4, <1>7
  <2>3. RestType'
    BY <1>2, <1>7, <2>1, <2>2 DEF RestType, TypeOK
  <2> QED BY <1>8, <2>3, Types
<1>11. StickyInv'
  BY <1>2 DEF StickyInv, InBlock, Creating, Reading
<1> DEFINE r == Returned
<1>12. r = out \o got /\ r \in Seq(Byte) /\ Returned' = out \o got'
  <2>1. r = out \o got /\ Returned' = out \o got'
    BY <1>2 DEF Returned
  <2>2. out \o got \in Seq(Byte)
    BY <1>3, ConcatProperties
  <2> QED BY <2>1, <2>2
<1> HIDE DEF r
<1>13. Returned' = r \o t
  <2>1. (out \o got) \o t = out \o (got \o t)
    <3>1. \A x, y, z \in Seq(Byte) : (x \o y) \o z = x \o (y \o z)
      BY ConcatAssociative
    <3>2. out \in Seq(Byte) /\ got \in Seq(Byte) /\ t \in Seq(Byte)
      BY <1>3, <1>5
    <3> QED BY ONLY <3>1, <3>2, Zenon
  <2>2. Returned' = out \o (got \o t)
    BY <1>6, <1>12
  <2>3. r \o t = (out \o got) \o t
    BY <1>12
  <2> QED BY ONLY <2>1, <2>2, <2>3
<1>14. /\ Len(Returned') = Len(r) + m /\ DOMAIN Returned' = 1 .. Len(r) + m /\ Len(r) \in Nat
       /\ \A i \in 1 .. Len(r) + m : Returned'[i] = IF i <= Len(r) THEN r[i] ELSE t[i - Len(r)]
  <2>1. r \o t \in Seq(Byte) /\ Len(r \o t) = Len(r) + Len(t)
        /\ \A i \in 1 .. Len(r) + Len(t) : (r \o t)[i] = IF i <= Len(r) THEN r[i] ELSE t[i - Len(r)]
    <3>1. r \in Seq(Byte) /\ t \in Seq(Byte)
      BY <1>5, <1>12
    <3> QED BY ONLY <3>1, ConcatProperties
  <2>2. DOMAIN (r \o t) = 1 .. Len(r \o t) /\ Len(r) \in Nat
    BY <1>12, <2>1
  <2> QED BY <1>5, <1>13, <2>1, <2>2
<1>15. sticky = OK /\ Len(r) = raw_offset - Len(raw) + raw_pos
  BY <1>2 DEF StickyInv, RawInv, r
<1>16. RawInv'
  <2>1. ASSUME NEW k \in 1 .. Len(raw')
        PROVE  StreamByte(raw[k])' /\ file'[raw'[k][1]].off + raw'[k][2] = raw_offset' - Len(raw') + k - 1
    <3>1. k \in 1 .. Len(raw)
      BY <1>2
    <3>2. StreamByte(raw[k]) /\ file[raw[k][1]].off + raw[k][2] = raw_offset - Len(raw) + k - 1
      BY <3>1 DEF RawInv
    <3>3. StreamByte(raw[k])'
      BY <1>2, <3>2, Fixed
    <3> QED BY <1>2, <3>2, <3>3
  <2>2. Len(raw') <= raw_offset'
    BY <1>2 DEF RawInv
  <2>3. Len(Returned') = raw_offset' - Len(raw') + raw_pos'
    BY <1>2, <1>3, <1>4, <1>14, <1>15
  <2> QED BY <2>1, <2>2, <2>3 DEF RawInv
<1>17. OutputPrefix'
  <2> SUFFICES ASSUME NEW k \in 1 .. Len(r) + m
               PROVE  StreamByte(Returned[k])' /\ file'[Returned'[k][1]].off + Returned'[k][2] = k - 1
    BY <1>14 DEF OutputPrefix
  <2>0. k \in Nat /\ k >= 1 /\ k <= Len(r) + m
    BY <1>4, <1>14
  <2>1. CASE k <= Len(r)
    <3>1. PICK b : b = r[k]
      OBVIOUS
    <3>2. Returned'[k] = b /\ k \in DOMAIN r
      BY <1>12, <1>14, <2>0, <2>1, <3>1
    <3>3. StreamByte(b) /\ file[b[1]].off + b[2] = k - 1
      BY <3>1, <3>2 DEF OutputPrefix, r
    <3>4. StreamByte(b)'
      BY <1>2, <3>3, Fixed
    <3> QED BY <1>2, <3>2, <3>3, <3>4 DEF StreamByte
  <2>2. CASE ~(k <= Len(r))
    <3>1. k - Len(r) \in 1 .. m
      BY <1>4, <1>14, <2>0, <2>2
    <3>2. PICK j : j = raw_pos + (k - Len(r))
      OBVIOUS
    <3>3. PICK b : b = raw[j]
      OBVIOUS
    <3>4. Returned'[k] = b
      BY <1>5, <1>14, <2>2, <3>1, <3>2, <3>3
    <3>5. j \in 1 .. Len(raw)
      BY <1>3, <1>4, <1>14, <2>0, <3>1, <3>2
    <3>6. StreamByte(b) /\ file[b[1]].off + b[2] = raw_offset - Len(raw) + j - 1
      BY <3>3, <3>5 DEF RawInv
    <3>7. raw_offset - Len(raw) + j - 1 = k - 1
      BY <1>3, <1>14, <1>15, <2>0, <3>2
    <3>8. StreamByte(b)'
      BY <1>2, <3>6, Fixed
    <3> QED BY <1>2, <3>4, <3>6, <3>7, <3>8 DEF StreamByte
  <2> QED BY <2>1, <2>2
<1>18. BlamesFirstBad'
  BY <1>2, <1>15 DEF BlamesFirstBad
<1> QED BY <1>8, <1>9, <1>10, <1>11, <1>16, <1>17, <1>18

-----------------------------------------------------------------------------
(* The theorems *)

(* The invariant holds when the decoder is created, *)
LEMMA InitIInv == Init => IInv
<1> SUFFICES ASSUME Init PROVE IInv
  OBVIOUS
<1>1. /\ file \in Files /\ cut \in 0 .. FileEnd(file) /\ srcpos = 0 /\ rbuf = <<>> /\ rpos = 0 /\ eof = FALSE
      /\ dst = <<>> /\ remain = 0 /\ cur = 1 /\ raw = <<>> /\ raw_pos = 0 /\ raw_offset = 0
      /\ ddict = FALSE /\ saw_eob = FALSE /\ sticky = OK /\ pc = "head"
      /\ len = 0 /\ got = <<>> /\ ret = 0 /\ out = <<>> /\ calls = MaxCalls
  BY DEF Init
<1>2. 1 \in DOMAIN file /\ cut \in Nat
  <2>1. Len(file) \in Nat \ {0} /\ DOMAIN file = 1 .. Len(file)
    BY <1>1, FileFacts
  <2>2. UnitEnd(file[Len(file)]) \in Nat
    BY <1>1, <2>1, UnitFacts
  <2> QED BY <1>1, <2>1, <2>2 DEF FileEnd
<1>3. TypeOK
  <2>0. \A S : <<>> \in Seq(S) /\ Len(<<>>) = 0
    OBVIOUS
  <2>1. BufType
    <3>1. rbuf \in Seq(Positions) /\ Len(rbuf) = 0
      BY <1>1, <2>0
    <3>2. srcpos \in 0 .. cut /\ rpos \in 0 .. Len(rbuf) /\ Len(rbuf) <= RBufSize
      <4>1. cut \in Nat /\ srcpos = 0 /\ rpos = 0 /\ Len(rbuf) = 0 /\ RBufSize \in Nat
        BY <1>1, <1>2, <3>1, SizeAssumption
      <4> QED BY <4>1
    <3>3. eof \in BOOLEAN
      BY <1>1
    <3> QED BY <3>1, <3>2, <3>3 DEF BufType
  <2>2. pc \in Pc /\ sticky \in Statuses
    BY <1>1, PcFacts, StatusFacts
  <2>3. RestType
    <3>1. /\ dst \in Seq(Positions) /\ raw \in Seq(Byte) /\ got \in Seq(Byte) /\ out \in Seq(Byte)
          /\ Len(raw) = 0 /\ Len(got) = 0
      BY <1>1, <2>0
    <3>2. /\ remain \in Nat /\ raw_pos \in 0 .. Len(raw) /\ Len(raw) <= RawCap /\ raw_offset \in Nat
          /\ len \in Nat /\ ret \in Int /\ calls \in Nat /\ Len(got) <= len
      BY <1>1, <3>1, SizeAssumption
    <3>3. ddict \in BOOLEAN /\ saw_eob \in BOOLEAN /\ cur \in DOMAIN file
      BY <1>1, <1>2
    <3> QED BY <1>1, <2>2, <3>1, <3>2, <3>3 DEF RestType
  <2>4. TypeOK <=> BufType /\ RestType
    BY Types
  <2> QED BY <2>1, <2>3, <2>4
<1>4. Avail = 0 /\ Pos = 0
  <2>1. Len(rbuf) = 0 /\ rpos = 0 /\ srcpos = 0
    BY <1>1
  <2> QED BY <2>1 DEF Avail, Pos
<1>5. BufInv
  BY <1>1, <1>4 DEF BufInv
<1>6. DstInv /\ UnitInv /\ MagicInv
  BY <1>1 DEF DstInv, UnitInv, MagicInv, Exact
<1>7. StickyInv
  BY <1>1 DEF StickyInv, InBlock, Creating, Reading
<1>8. TrackInv
  BY <1>1, <1>4 DEF TrackInv, Reading
<1>9. Returned = <<>>
  BY <1>1 DEF Returned
<1>10. RawInv
  <2>1. Len(raw) = 0 /\ Len(Returned) = 0
    BY <1>1, <1>9
  <2>2. 1 .. Len(raw) = {}
    BY <2>1
  <2>3. raw_offset = 0 /\ raw_pos = 0
    BY <1>1
  <2>4. Len(raw) <= raw_offset /\ Len(Returned) = raw_offset - Len(raw) + raw_pos
    BY <2>1, <2>3
  <2> QED BY <2>2, <2>4 DEF RawInv
<1>11. OutputPrefix
  BY <1>9 DEF OutputPrefix
<1>12. BlamesFirstBad
  BY <1>1 DEF BlamesFirstBad
<1> QED BY <1>3, <1>5, <1>6, <1>7, <1>8, <1>10, <1>11, <1>12 DEF IInv

(* every step keeps it, *)
LEMMA NextIInv == IInv /\ [Next]_vars => IInv'
<1> SUFFICES ASSUME IInv, [Next]_vars PROVE IInv'
  OBVIOUS
<1>1. CASE RbufFill \/ RbufFillFails \/ FillTruncated \/ TakeBuffered \/ ReadDirect \/ ReadDirectFails \/ ReadTruncated
  BY <1>1, RbufFillStep, RbufFillFailsStep, FillTruncatedStep, TakeBufferedStep, ReadDirectStep,
     ReadDirectFailsStep, ReadTruncatedStep
<1>2. CASE HeadParse \/ HeadExtra \/ Setup \/ SetupFails
  BY <1>2, HeadParseStep, HeadExtraStep, SetupStep, SetupFailsStep
<1>3. CASE Magic \/ BlockHeaderBad \/ BlockRefused \/ BlockHeader \/ PayloadRead \/ CksumRead \/ DecodeOK \/ DecodeFails
  BY <1>3, MagicStep, BlockHeaderBadStep, BlockRefusedStep, BlockHeaderStep, PayloadReadStep, CksumReadStep,
     DecodeOKStep, DecodeFailsStep
<1>4. CASE RecordBad \/ RecordRefused \/ RecordEob \/ RecordDict \/ RecordDictOOM \/ RecordSkip
  BY <1>4, RecordBadStep, RecordRefusedStep, RecordEobStep, RecordDictStep, RecordDictOOMStep, RecordSkipStep
<1>5. CASE GarbageFails \/ GarbageSkip \/ DictLoad \/ DictFails \/ Skip \/ SkipDone
  BY <1>5, GarbageFailsStep, GarbageSkipStep, DictLoadStep, DictFailsStep, SkipStep, SkipDoneStep
<1>6. CASE Copy \/ NextBlock \/ Return \/ Free
  BY <1>6, CopyStep, NextBlockStep, ReturnStep, FreeStep
<1>7. CASE \E n \in Lens : ReadCall(n)
  BY <1>7, ReadCallStep
<1>8. CASE UNCHANGED vars
  BY <1>8, StutterStep
<1> QED BY <1>1, <1>2, <1>3, <1>4, <1>5, <1>6, <1>7, <1>8 DEF Next, Step, Terminated

(* so it holds in every state. *)
LEMMA Inductive == Spec => []IInv
BY InitIInv, NextIInv, PTL DEF Spec

(* In every state of every run the variables have their types: among them   *)
(* that need, rbuf_fill and read_exact never write past d->rbuf, whatever   *)
(* the source delivers, that d->raw holds the block, and that no memcpy     *)
(* runs past the caller's buffer.                                           *)
THEOREM TypeCorrect == Spec => []TypeOK
<1>1. IInv => TypeOK
  BY DEF IInv
<1> QED BY <1>1, Inductive, PTL

(* What xq_decoder_read returns is always a prefix of the stream: every     *)
(* byte in its place and none twice, of any archive that is damaged or cut  *)
(* anywhere, with any short reads of the source and calls of any length.    *)
THEOREM ReturnsPrefix == Spec => []OutputPrefix
<1>1. IInv => OutputPrefix
  BY DEF IInv
<1> QED BY <1>1, Inductive, PTL

(* A read that comes back short without an error means the end of the       *)
(* stream: END_OF_BLOCKS was read, all in front of it was sound, and every  *)
(* byte of it has been returned.                                            *)
THEOREM ShortReadIsEnd == Spec => []EndIsEnd
<1>1. IInv => EndIsEnd
  <2> SUFFICES ASSUME IInv, pc = "idle", sticky = OK, Len(got) < len
               PROVE  \E u \in DOMAIN file :
                        \/ file[u].kind = "eob" /\ Reached(u) /\ Sound(u) /\ Len(out) = RawBefore(u)
                        \/ Reached(u) /\ Misframed(u)
    BY DEF EndIsEnd
  <2>1. saw_eob /\ raw_pos = Len(raw)
    BY DEF IInv, StickyInv
  <2>2. Lost \/ (file[cur].kind = "eob" /\ Track(cur) /\ Sound(cur))
    BY <2>1 DEF IInv, TrackInv
  <2>3. CASE Lost
    BY <2>3 DEF Lost, Strayed
  <2>4. CASE file[cur].kind = "eob" /\ Track(cur) /\ Sound(cur)
    <3>1. Returned = out
      BY DEF Returned
    <3>2. Len(out) = raw_offset - Len(raw) + raw_pos
      BY <3>1 DEF IInv, RawInv
    <3>3. cur \in DOMAIN file /\ raw_offset \in Nat /\ Len(raw) \in Nat
      BY DEF IInv, TypeOK
    <3>4. Len(out) = RawBefore(cur) /\ Reached(cur)
      BY <2>1, <2>4, <3>2, <3>3 DEF Track
    <3> QED BY <2>4, <3>3, <3>4
  <2> QED BY <2>2, <2>3, <2>4
<1> QED BY <1>1, Inductive, PTL

(* A status that sticks, if the source and malloc did not fail, is that of  *)
(* the first unit that is bad, or says that the archive ends before one.    *)
THEOREM BlamesTheFirst == Spec => []BlamesFirstBad
<1>1. IInv => BlamesFirstBad
  BY DEF IInv
<1> QED BY <1>1, Inductive, PTL

=============================================================================
