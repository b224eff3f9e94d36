---------------------------- MODULE StringUtil ----------------------------
(***************************************************************************)
(* The two functions of string_util.cc the protocols are built on, on      *)
(* sequences in place of strings.                                          *)
(***************************************************************************)
EXTENDS Integers, Sequences

OccursAt(s, word, i) ==
    /\ i + Len(word) - 1 <= Len(s)
    /\ SubSeq(s, i, i + Len(word) - 1) = word

(* find: where the first occurrence of word starts, 0 (NULL) without one *)
find(s, word) ==
    LET found == {i \in 1 .. Len(s) : OccursAt(s, word, i)}
    IN IF word = <<>> \/ found = {} THEN 0
       ELSE CHOOSE i \in found : \A j \in found : i <= j

(* split: the parts between the separators; without max_split, which the   *)
(* headers do not use                                                      *)
split(s, sep) ==
    LET parts[i \in 1 .. Len(s) + 1] ==
            LET rest == SubSeq(s, i, Len(s))
                next == find(rest, sep)
            IN  IF next = 0 THEN <<rest>>
                ELSE <<SubSeq(rest, 1, next - 1)>> \o parts[i + next - 1 + Len(sep)]
    IN  parts[1]
=============================================================================
