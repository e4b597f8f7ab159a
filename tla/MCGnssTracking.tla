--------------------------- MODULE MCGnssTracking ---------------------------
(* Instances of GnssTracking for TLC. *)
EXTENDS GnssTracking

CONSTANTS c1, c2, s1, s2, s3

\* s1 and s3 are sessions of one client, s2 is the other client's.
Owner == [s \in Sessions |-> IF s = s2 THEN c2 ELSE c1]

Opt(i, p, d) == [int |-> i, pow |-> p, dist |-> d]

TwoIntervals == {Opt(i, 2, FALSE) : i \in {1, 2}}

\* Power and interval compete: the fastest is not the most powerful.
Rivals == {Opt(1, 3, FALSE), Opt(2, 2, FALSE), Opt(3, 1, FALSE)}

\* Two time based, one distance based.
Mixed == {Opt(1, 2, FALSE), Opt(2, 2, FALSE), Opt(2, 2, TRUE)}

\* One time based, two distance based.
Distances == {Opt(1, 2, FALSE), Opt(1, 2, TRUE), Opt(2, 2, TRUE)}
=============================================================================
