----------------------------- MODULE MCServerPanel -----------------------------
(* A small instance of ServerPanel for TLC: the client's own project and the    *)
(* demo.                                                                    *)
EXTENDS ServerPanel

CONSTANTS home, sample

MCProjects == {home, sample}
=============================================================================
