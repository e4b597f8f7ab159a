-------------------------------- MODULE MCNi --------------------------------
(* Instances of Ni for TLC. *)
EXTENDS Ni

K(t, e, o) == [type |-> t, em |-> e, override |-> o]

\* Two kinds that are asked for, one of them for the emergency session.
Asked == {K("supl", FALSE, TRUE), K("es", TRUE, FALSE)}

\* And two that the policy answers when NFW is locked.
Served == Asked \cup {K("supl", FALSE, FALSE), K("cp", TRUE, FALSE)}
=============================================================================
