----------------------------- MODULE Selections -----------------------------
(***************************************************************************)
(* What folds over a sequence return, as recursive functions: its elements *)
(* that are in a set, in their order (what SelectSeq returns for a test of *)
(* membership), and the sum of its numbers on top of another.              *)
(***************************************************************************)
EXTENDS Naturals, Sequences

Within(s, T) ==
  LET kept[i \in 0 .. Len(s)] ==
        IF i = 0 THEN <<>>
        ELSE IF s[i] \in T THEN Append(kept[i - 1], s[i]) ELSE kept[i - 1]
  IN  kept[Len(s)]

Total(q, base) ==
  LET sum[i \in 0 .. Len(q)] == IF i = 0 THEN base ELSE sum[i - 1] + q[i]
  IN  sum[Len(q)]
=============================================================================
