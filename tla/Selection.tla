----------------------------- MODULE Selection -----------------------------
(***************************************************************************)
(* The elements of a sequence that are in a set, in their order.           *)
(***************************************************************************)
EXTENDS Integers, Sequences

\* What of the first i elements of s is in S.
SelectUpTo(s, S) ==
  LET F[i \in 0..Len(s)] ==
        IF i = 0 THEN << >>
        ELSE IF s[i] \in S THEN Append(F[i - 1], s[i])
        ELSE F[i - 1]
  IN F

Select(s, S) == SelectUpTo(s, S)[Len(s)]
=============================================================================
