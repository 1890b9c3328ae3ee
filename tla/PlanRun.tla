-------------------------------- MODULE PlanRun --------------------------------
(***************************************************************************)
(* What a front end may assume of the run engine, whatever its threads do:   *)
(* one plan at a time, each unit's tally recorded once, no question after a  *)
(* request to stop, and an end that says truthfully how the plan ended.      *)
(***************************************************************************)
CONSTANT Units   (* the positions a unit may have in a plan *)

VARIABLES
  life,      (* idle, running, awaiting a human, or how the last plan ended *)
  stopping,  (* the plan was asked to stop                                  *)
  recorded   (* the units whose tally is final                              *)

vars == <<life, stopping, recorded>>

Ended == {"done", "cancelled", "error"}
Going == {"running", "awaiting"}

TypeOK ==
  /\ life \in {"idle"} \cup Going \cup Ended
  /\ stopping \in BOOLEAN
  /\ recorded \subseteq Units

Init ==
  /\ life = "idle"
  /\ stopping = FALSE
  /\ recorded = {}

(* A plan begins only when none is going, and owes nothing to the last one.  *)
Begin ==
  /\ life \notin Going
  /\ life' = "running"
  /\ stopping' = FALSE
  /\ recorded' = {}

RequestStop ==
  /\ life \in Going
  /\ stopping' = TRUE
  /\ UNCHANGED <<life, recorded>>

(* The plan never asks a human once it was told to stop.                    *)
Ask ==
  /\ life = "running"
  /\ ~stopping
  /\ life' = "awaiting"
  /\ UNCHANGED <<stopping, recorded>>

Resume ==
  /\ life = "awaiting"
  /\ life' = "running"
  /\ UNCHANGED <<stopping, recorded>>

(* A unit's tally is recorded while the plan runs, and never rewritten.      *)
Record(u) ==
  /\ life = "running"
  /\ u \notin recorded
  /\ recorded' = recorded \cup {u}
  /\ UNCHANGED <<life, stopping>>

(* A plan ends while it runs, and is cancelled only if it was asked to stop. *)
Conclude(how) ==
  /\ life = "running"
  /\ how = "cancelled" => stopping
  /\ life' = how
  /\ UNCHANGED <<stopping, recorded>>

Next ==
  \/ Begin \/ RequestStop \/ Ask \/ Resume
  \/ \E u \in Units : Record(u)
  \/ \E how \in Ended : Conclude(how)

Spec == Init /\ [][Next]_vars
=============================================================================
