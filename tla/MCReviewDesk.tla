----------------------------- MODULE MCReviewDesk -----------------------------
(* Small instances of ReviewDesk for TLC.                                     *)
EXTENDS ReviewDesk

CONSTANTS p1, p2

MCOne == {p1}
MCTwo == {p1, p2}

(* The round of p1 is one of cases, with names of their own; that of p2 is a   *)
(* suite that does the same step over and over.                             *)
MCNames == [p \in Projects |-> [i \in RowIds |-> IF p = p2 THEN 1 ELSE i]]
=============================================================================
