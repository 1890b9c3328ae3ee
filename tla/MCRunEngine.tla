----------------------------- MODULE MCRunEngine -----------------------------
(* Small instances of RunEngine for TLC.                                    *)
EXTENDS RunEngine

Round(n) == [runnable |-> TRUE, suite |-> FALSE, cases |-> n]
Suite(n) == [runnable |-> TRUE, suite |-> TRUE, cases |-> n]
Hole     == [runnable |-> FALSE, suite |-> FALSE, cases |-> 0]

(* A round of two cases; a hole, alone and before a round; a suite and then a *)
(* round.                                                                   *)
MCPlans == {<<Round(2)>>, <<Hole>>, <<Hole, Round(1)>>, <<Suite(2), Round(1)>>}

MCOneCase == {<<Round(1)>>}
=============================================================================
