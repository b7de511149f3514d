------------------------------- MODULE Filter -------------------------------
(***************************************************************************)
(* Filtering a sequence, as the code's loops and Iterator::filter do.      *)
(***************************************************************************)
EXTENDS Naturals, Sequences

\* what is in K, in the order of s
Keep(s, K) ==
    LET kept[n \in 0 .. Len(s)] ==
            IF n = 0 THEN <<>>
            ELSE IF s[n] \in K THEN Append(kept[n - 1], s[n]) ELSE kept[n - 1]
    IN  kept[Len(s)]

=============================================================================
