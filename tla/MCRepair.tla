------------------------------ MODULE MCRepair -------------------------------
(***************************************************************************)
(* Archives for Repair: three blocks, each intact, with a damaged payload, *)
(* or with a damaged header, at every distance from the ends of windows.   *)
(***************************************************************************)
EXTENDS Repair, TLC

MCHdrLen == 2
MCWindow == 5

States == {"intact", "bad", "lost"}

(* ext[n], raw[n], off[n]: of the n-th block; state[n]: what became of it;   *)
(* tail: the bytes behind the last; cut: how many are missing at the end.    *)
Archive(first, dict, ext, raw, off, state, tail) ==
  LET at == [n \in 1 .. 3 |-> first + (IF n > 1 THEN ext[1] ELSE 0) + (IF n > 2 THEN ext[2] ELSE 0)]
      number == [c \in { at[n] : n \in 1 .. 3 } |-> CHOOSE n \in 1 .. 3 : at[n] = c]
      size == at[3] + ext[3] + tail
  IN  [size |-> size, first |-> first, dict |-> dict,
       cand |-> [c \in { c \in DOMAIN number : state[number[c]] # "lost" /\ c <= size - HdrLen } |->
                  [ext |-> ext[number[c]], off |-> off[number[c]], raw |-> raw[number[c]],
                   intact |-> state[number[c]] = "intact", needs |-> dict # "none" /\ number[c] = 2,
                   planted |-> FALSE]]]

Raws == <<1, 2, 1>>
Exts == {<<2, 3, 2>>, <<4, 2, 7>>}

(* The scan begins in front of the dictionary, whose bytes hold a block. *)
Planted(a, c) == [a EXCEPT !.first = 1, !.cand = (c :> [ext |-> 2, off |-> 0, raw |-> 1, intact |-> TRUE,
                                                       needs |-> FALSE, planted |-> TRUE]) @@ @]

(* Blocks in order; in a wrong order, repeated or overlapping; cut short at *)
(* the end; with a block in the dictionary.                                 *)
MCArchives ==
  { Archive(f, d, e, Raws, <<0, 1, 3>>, s, t) :
      f \in 1 .. 5, d \in {"none", "good"}, e \in Exts, s \in [1 .. 3 -> States], t \in {0, 3} }
  \cup { Archive(1, "none", e, Raws, o, s, t) :
      e \in Exts, o \in {<<1, 3, 0>>, <<0, 0, 2>>, <<2, 1, 3>>}, s \in [1 .. 3 -> States], t \in {-1, 0} }
  \cup { Archive(2, "bad", e, Raws, <<0, 1, 3>>, s, 0) : e \in Exts, s \in [1 .. 3 -> States] }
  \cup { Planted(Archive(4, "good", <<2, 3, 2>>, Raws, <<0, 1, 3>>, s, 2), 2) : s \in [1 .. 3 -> States] }

(* The block in the middle is lost. *)
MCLost == { Archive(1, "none", <<2, 3, 2>>, Raws, <<0, 1, 3>>, <<"intact", "lost", "intact">>, 0) }

=============================================================================
