---------------------------- MODULE MCSourceEditor ----------------------------
(* A small instance of SourceEditor for TLC: two versions of one file in two   *)
(* projects, and a save that may outlive its pane.                            *)
EXTENDS SourceEditor

CONSTANTS p1, p2, old, new

MCProjects == {p1, p2}
MCTexts    == {old, new}
=============================================================================
