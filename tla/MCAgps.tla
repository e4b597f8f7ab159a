------------------------------- MODULE MCAgps -------------------------------
(* Instances of Agps for TLC. *)
EXTENDS Agps

BothNifs == {"agnss", "internet"}
=============================================================================
