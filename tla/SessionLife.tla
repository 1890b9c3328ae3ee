------------------------------ MODULE SessionLife ------------------------------
(***************************************************************************)
(* What the run engine counts on from a live round, and all its watcher may  *)
(* see of it: a phase and the number of cases that are decided.  RunEngine's *)
(* sessions take these steps; RoundSession implements them.                  *)
(***************************************************************************)
EXTENDS Naturals

VARIABLES
  phase,    (* start, running, step (a human is asked), done *)
  decided   (* how many cases have their verdict             *)

vars == <<phase, decided>>

Init == phase = "start" /\ decided = 0

(* A case goes on the wire.                                                 *)
Send ==
  /\ phase \in {"start", "step", "running"}
  /\ phase' = "running"
  /\ UNCHANGED decided

(* A case that needs no human is decided.                                   *)
Land ==
  /\ phase = "running"
  /\ decided' = decided + 1
  /\ UNCHANGED phase

(* A human is asked, once the case is back ...                              *)
Ask ==
  /\ phase = "running"
  /\ phase' = "step"
  /\ UNCHANGED decided

(* ... and answers.                                                         *)
Answer ==
  /\ phase = "step"
  /\ decided' = decided + 1
  /\ UNCHANGED phase

(* The round closes and nothing of it moves again.                          *)
Close ==
  /\ phase \in {"start", "running", "step"}
  /\ phase' = "done"
  /\ UNCHANGED decided

Next == Send \/ Land \/ Ask \/ Answer \/ Close

Spec == Init /\ [][Next]_vars
=============================================================================
